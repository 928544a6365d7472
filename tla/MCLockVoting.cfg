SPECIFICATION Spec
CONSTANTS
    v1 = v1
    v2 = v2
    v3 = v3
    v4 = v4
    p1 = p1
    p2 = p2
    Validators = {v1, v2, v3, v4}
    Byzantine = {v4}
    Proposes = {p1, p2}
    MaxRound = 2
    NoPropose = NoPropose
    ProposeRound <- ProposePerRound
SYMMETRY HonestSymmetry
INVARIANTS TypeOK PrecommitKeepsLock PrecommitHeld OverriddenIsBarred Agreement
CHECK_DEADLOCK FALSE
