----------------------------- MODULE LockVoting -----------------------------
(***************************************************************************)
(* The voting discipline of one consensus epoch, as the node code          *)
(* (exonum-node/src/consensus.rs, state.rs) imposes it on one validator.   *)
(*                                                                         *)
(* This is the abstract specification of a validator: every step is one    *)
(* elementary effect of a handler (one prevote, one lock, one precommit,   *)
(* one commit), and a validator may act on any vote that was sent, so the  *)
(* order and the loss of messages are covered by the interleaving of the   *)
(* steps.  Node.tla models the handlers themselves, with the votes each    *)
(* node has received, and is checked to implement this specification.      *)
(*                                                                         *)
(* Votes are kept the way State::prevotes and State::precommits keep them: *)
(* per (round, propose), the set of the validators that voted.             *)
(***************************************************************************)
EXTENDS Integers, FiniteSets

CONSTANTS
    Validators,  \* the validators of the epoch
    Byzantine,   \* the validators that do not run the code
    Proposes,    \* the proposes of the epoch
    ProposeRound,\* the round each propose was made for
    MaxRound,    \* bound on the rounds of the epoch
    NoPropose    \* "no propose hash" (the None of locked_propose)

validators_len == Cardinality(Validators)
Honest == Validators \ Byzantine
Rounds == 1 .. MaxRound

ASSUME ValidatorsAssumption == IsFiniteSet(Validators)
ASSUME MaxRoundAssumption == MaxRound \in Nat \ {0}
\* The fault threshold of the algorithm: fewer than a third of the validators.
ASSUME ByzantineAssumption ==
    /\ Byzantine \subseteq Validators
    /\ 3 * Cardinality(Byzantine) < validators_len
ASSUME ProposesAssumption ==
    /\ NoPropose \notin Proposes
    /\ ProposeRound \in [Proposes -> Rounds]

VARIABLES
    round,          \* State::round of each validator
    locked_round,   \* State::locked_round, 0 when not locked
    locked_propose, \* State::locked_propose
    prevotes,       \* prevotes sent: (round, propose) -> set of validators
    precommits,     \* precommits sent: (round, propose) -> set of validators
    committed       \* the propose each validator has committed in this epoch

vars == <<round, locked_round, locked_propose, prevotes, precommits, committed>>

(***************************************************************************)
(* Helpers of State                                                        *)
(***************************************************************************)
\* Mutation of MajorityCount: the quorum without its "+ 1".
MajorityCountTwoThirds == (validators_len * 2) \div 3

\* byzantine_quorum(): more than two thirds of the validators.
MajorityCount == (validators_len * 2) \div 3 + 1

IsMajority(S) == Cardinality(S) >= MajorityCount

has_majority_prevotes(r, p) == IsMajority(prevotes[r][p])

has_majority_precommits(r, p) == IsMajority(precommits[r][p])

\* The validator has prevoted for p in round r.
Prevoted(v, r, p) == v \in prevotes[r][p]

Precommitted(v, r, p) == v \in precommits[r][p]

have_prevote(v, r) == \E p \in Proposes : Prevoted(v, r, p)

\* The assertion of add_prevote would fail for a prevote for p in round r: the
\* validator has prevoted for another propose in this round.
ContradictsOurPrevote(v, r, p) == \E q \in Proposes : q # p /\ Prevoted(v, r, q)

\* A prevote for something else than the locked propose, in a round between
\* the locked round and the current one.
have_incompatible_prevotes(v) ==
    \E r \in Rounds, p \in Proposes :
        /\ locked_round[v] < r /\ r <= round[v]
        /\ p # locked_propose[v]
        /\ Prevoted(v, r, p)

(***************************************************************************)
(* The steps                                                               *)
(***************************************************************************)
Init ==
    /\ round = [v \in Validators |-> 1]
    /\ locked_round = [v \in Validators |-> 0]
    /\ locked_propose = [v \in Validators |-> NoPropose]
    /\ prevotes = [r \in Rounds |-> [p \in Proposes |-> {}]]
    /\ precommits = [r \in Rounds |-> [p \in Proposes |-> {}]]
    /\ committed = [v \in Validators |-> NoPropose]

AddPrevote(v, r, p) ==
    prevotes' = [prevotes EXCEPT ![r][p] = @ \cup {v}]

AddPrecommit(v, r, p) ==
    precommits' = [precommits EXCEPT ![r][p] = @ \cup {v}]

\* Mutation of EnterRound: the round is counted up after the jump.
EnterRoundOffByOne(v, r) ==
    /\ committed[v] = NoPropose
    /\ round[v] < r
    /\ round' = [round EXCEPT ![v] = r + 1]
    /\ UNCHANGED <<locked_round, locked_propose, prevotes, precommits, committed>>

\* handle_round_timeout and handle_new_round: the round only grows.
EnterRound(v, r) ==
    /\ committed[v] = NoPropose
    /\ round[v] < r
    /\ round' = [round EXCEPT ![v] = r]
    /\ UNCHANGED <<locked_round, locked_propose, prevotes, precommits, committed>>

\* Mutation of PrevoteUnlocked: the lock is not looked at.
PrevoteIgnoringLock(v, p) ==
    LET r == ProposeRound[p] IN
    /\ committed[v] = NoPropose
    /\ r <= round[v]
    /\ ~ have_prevote(v, r)
    /\ AddPrevote(v, r, p)
    /\ UNCHANGED <<round, locked_round, locked_propose, precommits, committed>>

\* handle_full_propose, handle_propose_timeout: a validator without a lock
\* prevotes for a propose in the round of the propose.
PrevoteUnlocked(v, p) ==
    LET r == ProposeRound[p] IN
    /\ committed[v] = NoPropose
    /\ locked_round[v] = 0
    /\ r <= round[v]
    /\ ~ have_prevote(v, r)
    /\ AddPrevote(v, r, p)
    /\ UNCHANGED <<round, locked_round, locked_propose, precommits, committed>>

\* process_new_round: a locked validator prevotes for its locked propose in the
\* round it enters; lock() does so in the rounds after the one it has locked in.
\* process_new_round does not look for an earlier prevote: only the assertion of
\* add_prevote stands between it and a second one.
PrevoteLocked(v, r) ==
    /\ committed[v] = NoPropose
    /\ locked_round[v] # 0
    /\ locked_round[v] <= r /\ r <= round[v]
    /\ ~ ContradictsOurPrevote(v, r, locked_propose[v])
    /\ AddPrevote(v, r, locked_propose[v])
    /\ UNCHANGED <<round, locked_round, locked_propose, precommits, committed>>

\* lock(): having seen +2/3 prevotes for p in prevote_round, the validator
\* prevotes for p in the rounds from prevote_round on in which it has not.
PrevoteForMajority(v, prevote_round, r, p) ==
    /\ committed[v] = NoPropose
    /\ has_majority_prevotes(prevote_round, p)
    /\ locked_round[v] < prevote_round
    /\ prevote_round <= r /\ r <= round[v]
    /\ ~ have_prevote(v, r)
    /\ AddPrevote(v, r, p)
    /\ UNCHANGED <<round, locked_round, locked_propose, precommits, committed>>

\* Mutation of Lock: any majority locks, an older one too.
LockBackwards(v, r, p) ==
    /\ committed[v] = NoPropose
    /\ has_majority_prevotes(r, p)
    /\ r <= round[v]
    /\ locked_round' = [locked_round EXCEPT ![v] = r]
    /\ locked_propose' = [locked_propose EXCEPT ![v] = p]
    /\ UNCHANGED <<round, prevotes, precommits, committed>>

\* lock(): State::lock on +2/3 prevotes of a round above the locked one.
Lock(v, r, p) ==
    /\ committed[v] = NoPropose
    /\ has_majority_prevotes(r, p)
    /\ locked_round[v] < r /\ r <= round[v]
    /\ locked_round' = [locked_round EXCEPT ![v] = r]
    /\ locked_propose' = [locked_propose EXCEPT ![v] = p]
    /\ UNCHANGED <<round, prevotes, precommits, committed>>

\* Mutation of Precommit: no check of have_incompatible_prevotes.
PrecommitAnyLock(v) ==
    /\ committed[v] = NoPropose
    /\ locked_round[v] # 0
    /\ AddPrecommit(v, locked_round[v], locked_propose[v])
    /\ UNCHANGED <<round, locked_round, locked_propose, prevotes, committed>>

\* lock(): the precommit for the propose just locked, sent only when no
\* prevote of this validator contradicts it.
Precommit(v) ==
    /\ committed[v] = NoPropose
    /\ locked_round[v] # 0
    /\ ~ have_incompatible_prevotes(v)
    /\ AddPrecommit(v, locked_round[v], locked_propose[v])
    /\ UNCHANGED <<round, locked_round, locked_propose, prevotes, committed>>

\* handle_majority_precommits, handle_full_propose, handle_block: +2/3
\* precommits of one round for one block.
Commit(v, r, p) ==
    /\ committed[v] = NoPropose
    /\ has_majority_precommits(r, p)
    /\ committed' = [committed EXCEPT ![v] = p]
    /\ UNCHANGED <<round, locked_round, locked_propose, prevotes, precommits>>

\* A validator that does not run the code votes at will.
ByzantinePrevote(v, r, p) ==
    /\ v \notin prevotes[r][p]
    /\ AddPrevote(v, r, p)
    /\ UNCHANGED <<round, locked_round, locked_propose, precommits, committed>>

ByzantinePrecommit(v, r, p) ==
    /\ v \notin precommits[r][p]
    /\ AddPrecommit(v, r, p)
    /\ UNCHANGED <<round, locked_round, locked_propose, prevotes, committed>>

HonestStep(v) ==
    \/ \E r \in Rounds : EnterRound(v, r)
    \/ \E p \in Proposes : PrevoteUnlocked(v, p)
    \/ \E r \in Rounds : PrevoteLocked(v, r)
    \/ \E q, r \in Rounds, p \in Proposes : PrevoteForMajority(v, q, r, p)
    \/ \E r \in Rounds, p \in Proposes : Lock(v, r, p)
    \/ Precommit(v)
    \/ \E r \in Rounds, p \in Proposes : Commit(v, r, p)

ByzantineStep(v) ==
    \E r \in Rounds, p \in Proposes :
        ByzantinePrevote(v, r, p) \/ ByzantinePrecommit(v, r, p)

Next ==
    \/ \E v \in Honest : HonestStep(v)
    \/ \E v \in Byzantine : ByzantineStep(v)

Spec == Init /\ [][Next]_vars

(***************************************************************************)
(* Properties                                                              *)
(***************************************************************************)
\* The variables have the types of the fields of State.
TypeOK ==
    /\ round \in [Validators -> Rounds]
    /\ locked_round \in [Validators -> 0 .. MaxRound]
    /\ locked_propose \in [Validators -> Proposes \cup {NoPropose}]
    /\ prevotes \in [Rounds -> [Proposes -> SUBSET Validators]]
    /\ precommits \in [Rounds -> [Proposes -> SUBSET Validators]]
    /\ committed \in [Validators -> Proposes \cup {NoPropose}]

\* A validator never prevotes for two proposes in one round: the assertion of
\* add_prevote ("Trying to send different prevotes for the same round").
OnePrevotePerRound ==
    \A v \in Honest, r \in Rounds, p, q \in Proposes :
        Prevoted(v, r, p) /\ Prevoted(v, r, q) => p = q

\* Prevotes are only sent for rounds that the validator has entered.
PrevotesOfEnteredRounds ==
    \A v \in Honest, r \in Rounds, p \in Proposes :
        Prevoted(v, r, p) => r <= round[v]

\* A lock is backed by +2/3 prevotes of the locked round, which the validator
\* has entered (State::lock is only called from lock()).
LockHasMajority ==
    \A v \in Honest :
        IF locked_round[v] = 0
        THEN locked_propose[v] = NoPropose
        ELSE /\ locked_propose[v] \in Proposes
             /\ has_majority_prevotes(locked_round[v], locked_propose[v])
             /\ locked_round[v] <= round[v]

\* A precommit is backed by +2/3 prevotes of its round, and its sender has not
\* gone back behind it: it is still locked there, or in a later round.
PrecommitKeepsLock ==
    \A v \in Honest, r \in Rounds, p \in Proposes :
        Precommitted(v, r, p) =>
            /\ has_majority_prevotes(r, p)
            /\ locked_round[v] >= r
            /\ locked_round[v] = r => locked_propose[v] = p

\* +2/3 prevotes were sent, after round r, for a propose other than p.
Overridden(r, p) ==
    \E x \in Rounds, q \in Proposes :
        r < x /\ q # p /\ has_majority_prevotes(x, q)

\* A validator that precommitted p in round r prevotes for another propose in
\* a later round only after +2/3 prevotes against p (the unlocking rule that
\* lock(), process_new_round() and have_incompatible_prevotes() implement).
PrecommitHeld ==
    \A v \in Honest, r, x \in Rounds, p, q \in Proposes :
        Precommitted(v, r, p) /\ Prevoted(v, x, q) /\ r < x /\ q # p
            => Overridden(r, p)

\* The validator will never precommit p in round r.
Barred(v, r, p) ==
    /\ ~ Precommitted(v, r, p)
    /\ \E x \in Rounds, q \in Proposes : r < x /\ q # p /\ Prevoted(v, x, q)

\* Once a later round has +2/3 prevotes against p, every majority has a
\* validator that will never precommit p in round r: no block can be
\* committed behind the back of the validators that moved on.
OverriddenIsBarred ==
    \A r \in Rounds, p \in Proposes :
        Overridden(r, p) =>
            \A Q \in SUBSET Validators :
                IsMajority(Q) => \E v \in Q \cap Honest : Barred(v, r, p)

\* What a validator has committed had +2/3 precommits of one round.
CommitHasMajority ==
    \A v \in Honest :
        committed[v] # NoPropose =>
            \E r \in Rounds : has_majority_precommits(r, committed[v])

\* Two validators that run the code never commit different blocks in the
\* same epoch, whatever the other validators send (commit() in consensus.rs).
Agreement ==
    \A v, w \in Honest :
        committed[v] # NoPropose /\ committed[w] # NoPropose
            => committed[v] = committed[w]
=============================================================================
