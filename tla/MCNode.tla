------------------------------- MODULE MCNode -------------------------------
(***************************************************************************)
(* Small instances of the node.                                            *)
(***************************************************************************)
EXTENDS NodeVoting, TLC

CONSTANTS t1, t2

AllValid == [h \in 1 .. 4 |-> {t1, t2}]

\* The votes of the other validators for p in the given rounds.  A prevote for
\* an older propose says that the voter is locked on it.
PrevotesFor(p, rounds) ==
    {Prevote(v, p.epoch, r, p, IF r = p.round THEN 0 ELSE p.round) :
        v \in Validators \ {Me}, r \in rounds}

PrecommitsFor(p, rounds) ==
    {Precommit(v, p.epoch, r, p, Block(p.prev, p.validator, p.epoch, p.skip, p.txs)) :
        v \in Validators \ {Me}, r \in rounds}

VotesFor(p, rounds) == PrevotesFor(p, rounds) \cup PrecommitsFor(p, rounds)

\* Four validators; 2 leads round 1 of epoch 1 and this node, 3, leads round 2.
First == Propose(2, 1, 1, Genesis, FALSE, {})
Ours == Propose(3, 1, 2, Genesis, FALSE, {})
VotingMessages ==
    {First} \cup PrevotesFor(First, {1, 2}) \cup PrecommitsFor(First, {1}) \cup VotesFor(Ours, {2})

\* Two validators; 0 leads round 1 of epoch 1 and this node, 1, leads round 2
\* and round 1 of epoch 2.
FirstOfTwo == Propose(0, 1, 1, Genesis, FALSE, {t1})
OursOfTwo(txs) == Propose(1, 1, 2, Genesis, FALSE, txs)
Block1 == Block(Genesis, 0, 1, FALSE, {t1})
NextOfTwo(txs) == Propose(1, 2, 1, Block1, FALSE, txs)
RestartMessages ==
    {FirstOfTwo} \cup VotesFor(FirstOfTwo, {1}) \cup VotesFor(OursOfTwo({}), {2})
CommitMessages ==
    {FirstOfTwo} \cup VotesFor(FirstOfTwo, {1})
        \cup UNION {VotesFor(NextOfTwo(txs), {1}) : txs \in SUBSET {t2}}

\* Votes of two rounds for a propose that does not arrive.
MissedMessages == PrecommitsFor(First, {1, 2})
LockMessages == {First} \cup PrevotesFor(First, {1, 2})
FirstWith(txs) == Propose(2, 1, 1, Genesis, FALSE, txs)

\* Blocks of the others: block 1, a skip, block 2, each of the first round of its
\* epoch; this node is 1, or an auditor.
Proof(b, round) ==
    {Precommit(v, b.epoch, round, Propose(b.proposer, b.epoch, round, b.prev, b.skip, b.txs), b) :
        v \in {0, 2, 3}}
Chain1 == Block(Genesis, 2, 1, FALSE, {t1})
Skip2 == Block(Chain1, 3, 2, TRUE, {})
Chain3 == Block(Chain1, 0, 3, FALSE, {t2})
Responses ==
    {BlockResponse(0, Chain1, Proof(Chain1, 1)), BlockResponse(0, Skip2, Proof(Skip2, 1)),
     BlockResponse(0, Chain3, Proof(Chain3, 1))}
\* The skip also comes as consensus messages, which are queued in epoch 1.
SkipOfSecond == Propose(3, 2, 1, Chain1, TRUE, {})
CatchUpMessages ==
    Responses \cup {Status(0, 4, 3, TRUE), Status(2, 3, 2, FALSE)}
        \cup {FirstWith({t1})}
        \cup {SkipOfSecond} \cup PrecommitsFor(SkipOfSecond, {1})
\* A majority votes for the propose of round 1; 3 leads round 2.
AuditorMessages ==
    Responses \cup {FirstWith({t1}), Propose(3, 1, 2, Genesis, FALSE, {t2})}
        \cup {m \in VotesFor(FirstWith({t1}), {1}) : m.validator # 1}
\* t2 is accepted at first and rejected from height 2 on.
ExpiringTx == [h \in 1 .. 4 |-> IF h = 1 THEN {t1, t2} ELSE {t1}]
FirstInvalid == [h \in 1 .. 4 |-> {t1}]
=============================================================================
