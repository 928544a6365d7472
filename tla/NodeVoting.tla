----------------------------- MODULE NodeVoting -----------------------------
(***************************************************************************)
(* The node of Node.tla implements the voting rules of LockVoting in its   *)
(* first epoch, while it does not crash.  The other validators vote as     *)
(* they like, which is what LockVoting lets its Byzantine ones do; its     *)
(* fault threshold is a premise of Agreement, not of the steps.            *)
(***************************************************************************)
EXTENDS Node

\* The proposes of the first epoch: those of the environment and our own.
EpochProposes ==
    {m \in EnvMessages : m.type = "propose" /\ m.epoch = 1} \cup
    {Propose(Me, 1, r, Genesis, skip, txs) :
        r \in 1 .. MaxRound, skip \in {SkipEmptyBlocks}, txs \in SUBSET EnvTxs}

Voters(type) ==
    [r \in 1 .. MaxRound |-> [p \in EpochProposes |->
        {m.validator : m \in {k \in net : k.type = type /\ k.round = r /\ k.propose = p}}]]

\* The lock before the first lock() that is still to be saved.
Lock ==
    LET pending == SelectSeq(state.io, LAMBDA e : e.op = "lock") IN
    IF pending = <<>> THEN <<state.locked_round, state.locked_propose>> ELSE Head(pending).was

CommittedPropose ==
    IF LastEpoch(db) = 0 THEN None
    ELSE CHOOSE p \in EpochProposes :
            /\ IF db.block_skip = None THEN BlockOf([last_hash |-> Genesis], p) = LastBlock(db)
                                       ELSE BlockOf([last_hash |-> Genesis], p) = db.block_skip
            /\ \E r \in 1 .. MaxRound : Cardinality(Voters("precommit")[r][p]) >= majority_count

Mine(x, other) == [v \in Validators |-> IF v = Me THEN x ELSE other]

LV == INSTANCE LockVoting WITH
    Byzantine <- Validators \ {Me},
    Proposes <- EpochProposes,
    ProposeRound <- [p \in EpochProposes |-> p.round],
    NoPropose <- None,
    round <- Mine(state.round, 1),
    locked_round <- Mine(Lock[1], 0),
    locked_propose <- Mine(Lock[2], None),
    prevotes <- Voters("prevote"),
    precommits <- Voters("precommit"),
    committed <- Mine(CommittedPropose, None)

\* Every step of the handlers is a step of the voting rules, or none: the code
\* prevotes, locks, precommits and commits only where LockVoting allows it.
ImplementsLockVoting == LV!Spec
=============================================================================
