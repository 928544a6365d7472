---------------------------- MODULE MCLockVoting ----------------------------
(***************************************************************************)
(* LockVoting for four validators, one of them Byzantine.  The validators  *)
(* that run the code are interchangeable.                                  *)
(***************************************************************************)
EXTENDS LockVoting, TLC

CONSTANTS v1, v2, v3, v4, p1, p2

ProposePerRound == (p1 :> 1) @@ (p2 :> 2)

HonestSymmetry == Permutations({v1, v2, v3})
=============================================================================
