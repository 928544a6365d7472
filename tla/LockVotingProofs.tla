-------------------------- MODULE LockVotingProofs --------------------------
(***************************************************************************)
(* Proofs about LockVoting, for every set of validators, every Byzantine   *)
(* minority below one third, every set of proposes and every round bound.  *)
(*                                                                         *)
(* The argument: two majorities share a validator that runs the code       *)
(* (MajoritiesMeet), and IInv is inductive.  Its central conjunct,         *)
(* OverriddenIsBarred, says that +2/3 prevotes against p in a later round  *)
(* leave no majority that could still precommit p in an earlier one.       *)
(***************************************************************************)
EXTENDS LockVoting, FiniteSetTheorems, TLAPS

\* The inductive invariant.
IInv ==
    /\ TypeOK
    /\ OnePrevotePerRound
    /\ PrevotesOfEnteredRounds
    /\ LockHasMajority
    /\ PrecommitKeepsLock
    /\ PrecommitHeld
    /\ OverriddenIsBarred
    /\ CommitHasMajority

-----------------------------------------------------------------------------
(* Majorities.                                                             *)

\* A majority stays one when validators are added (votes are never removed
\* from Votes within an epoch).
LEMMA MajorityGrows ==
    ASSUME NEW S \in SUBSET Validators, NEW T \in SUBSET Validators,
           S \subseteq T, IsMajority(S)
    PROVE  IsMajority(T)
<1>1. IsFiniteSet(T) /\ IsFiniteSet(S)
  BY ValidatorsAssumption, FS_Subset
<1>2. Cardinality(S) <= Cardinality(T)
  BY <1>1, FS_Subset
<1>3. Cardinality(S) \in Nat /\ Cardinality(T) \in Nat /\ validators_len \in Nat
  BY <1>1, FS_CardinalityType, ValidatorsAssumption DEF validators_len
<1> QED
  BY <1>2, <1>3 DEF IsMajority, MajorityCount

\* byzantine_quorum() is never zero: no votes are no majority.
LEMMA NoVotesNoMajority == ~ IsMajority({})
<1>1. validators_len \in Nat
  BY FS_CardinalityType, ValidatorsAssumption DEF validators_len
<1>2. Cardinality({}) = 0
  BY FS_EmptySet
<1> QED
  BY <1>1, <1>2 DEF IsMajority, MajorityCount

\* Two majorities share a validator that runs the code: the arithmetic of
\* byzantine_quorum() against the fault threshold.
LEMMA MajoritiesMeet ==
    ASSUME NEW S \in SUBSET Validators, NEW T \in SUBSET Validators,
           IsMajority(S), IsMajority(T)
    PROVE  \E v \in S \cap T : v \in Honest
<1>1. /\ IsFiniteSet(S) /\ IsFiniteSet(T) /\ IsFiniteSet(Byzantine)
      /\ IsFiniteSet(S \cap T) /\ IsFiniteSet(S \cup T)
  <2>1. S \cap T \in SUBSET Validators /\ S \cup T \in SUBSET Validators
    OBVIOUS
  <2> QED
    BY <2>1, ValidatorsAssumption, ByzantineAssumption, FS_Subset
<1>2. /\ Cardinality(S) \in Nat /\ Cardinality(T) \in Nat /\ validators_len \in Nat
      /\ Cardinality(S \cap T) \in Nat /\ Cardinality(S \cup T) \in Nat
      /\ Cardinality(Byzantine) \in Nat
  BY <1>1, FS_CardinalityType, ValidatorsAssumption DEF validators_len
<1>3. Cardinality(S \cup T) <= validators_len
  <2>1. S \cup T \in SUBSET Validators
    OBVIOUS
  <2> QED
    BY <2>1, FS_Subset, ValidatorsAssumption DEF validators_len
<1>4. Cardinality(S \cup T) = Cardinality(S) + Cardinality(T) - Cardinality(S \cap T)
  BY <1>1, FS_Union
<1>5. Cardinality(S \cap T) > Cardinality(Byzantine)
  BY <1>2, <1>3, <1>4, ByzantineAssumption DEF IsMajority, MajorityCount
<1>6. ~ (S \cap T \subseteq Byzantine)
  <2>1. SUFFICES ASSUME S \cap T \subseteq Byzantine
                 PROVE  Cardinality(S \cap T) <= Cardinality(Byzantine)
    BY <2>1, <1>2, <1>5
  <2>2. S \cap T \in SUBSET Byzantine
    BY <2>1
  <2> QED
    BY <2>2, <1>1, FS_Subset
<1> QED
  BY <1>6 DEF Honest

-----------------------------------------------------------------------------
(* The initial states.                                                     *)

\* IInv holds when an epoch starts (State::new, State::new_epoch).
LEMMA InitIInv == Init => IInv
<1> SUFFICES ASSUME Init PROVE IInv
  OBVIOUS
<1>1. TypeOK
  BY MaxRoundAssumption DEF Init, TypeOK, Rounds
<1>2. \A r \in Rounds, p \in Proposes : prevotes[r][p] = {} /\ precommits[r][p] = {}
  BY DEF Init
<1>3. \A r \in Rounds, p \in Proposes : ~ has_majority_prevotes(r, p)
  BY <1>2, NoVotesNoMajority DEF has_majority_prevotes
<1>4. OnePrevotePerRound /\ PrevotesOfEnteredRounds /\ PrecommitKeepsLock /\ PrecommitHeld
  BY <1>2 DEF OnePrevotePerRound, PrevotesOfEnteredRounds, PrecommitKeepsLock,
              PrecommitHeld, Prevoted, Precommitted
<1>5. LockHasMajority /\ CommitHasMajority
  BY DEF Init, LockHasMajority, CommitHasMajority, Honest
<1>6. OverriddenIsBarred
  BY <1>3 DEF OverriddenIsBarred, Overridden
<1> QED
  BY <1>1, <1>4, <1>5, <1>6 DEF IInv

-----------------------------------------------------------------------------
(* A new prevote.                                                          *)

\* The condition under which a validator that runs the code may prevote.
MayPrevote(v, r, p) ==
    /\ r <= round[v]
    /\ ~ ContradictsOurPrevote(v, r, p)
    /\ \A r0 \in Rounds, p0 \in Proposes :
           Precommitted(v, r0, p0) /\ r0 < r /\ p # p0 => Overridden(r0, p0)

\* Adding one allowed prevote keeps IInv (broadcast_prevote, and the prevotes
\* of validators that do not run the code).
LEMMA PrevoteKeepsIInv ==
    ASSUME IInv,
           NEW v \in Validators, NEW r \in Rounds, NEW p \in Proposes,
           v \in Honest => MayPrevote(v, r, p),
           AddPrevote(v, r, p),
           UNCHANGED <<round, locked_round, locked_propose, precommits, committed>>
    PROVE  IInv'
<1> USE DEF IInv
<1>1. TypeOK'
  BY DEF TypeOK, AddPrevote
<1>2. \A x \in Rounds, q \in Proposes :
        /\ prevotes'[x][q] = IF x = r /\ q = p THEN prevotes[x][q] \cup {v}
                                               ELSE prevotes[x][q]
        /\ prevotes[x][q] \subseteq Validators
        /\ prevotes'[x][q] \subseteq Validators
  <2>1. \A x \in Rounds, q \in Proposes :
          /\ prevotes[x][q] \in SUBSET Validators
          /\ prevotes'[x][q] \in SUBSET Validators
    BY <1>1 DEF TypeOK
  <2>2. \A x \in Rounds, q \in Proposes :
          prevotes'[x][q] = IF x = r /\ q = p THEN prevotes[x][q] \cup {v}
                                              ELSE prevotes[x][q]
    BY DEF TypeOK, AddPrevote
  <2> QED
    BY <2>1, <2>2
<1>3. \A x \in Rounds, q \in Proposes :
        has_majority_prevotes(x, q) => has_majority_prevotes(x, q)'
  BY <1>2, MajorityGrows DEF has_majority_prevotes
<1>4. \A w \in Honest, x \in Rounds, q \in Proposes :
        Prevoted(w, x, q)' => Prevoted(w, x, q) \/ (w = v /\ x = r /\ q = p)
  BY <1>2 DEF Prevoted
<1>5. \A w \in Honest, x \in Rounds, q \in Proposes :
        /\ Prevoted(w, x, q) => Prevoted(w, x, q)'
        /\ Precommitted(w, x, q)' <=> Precommitted(w, x, q)
  BY <1>2 DEF Prevoted, Precommitted
<1>6. \A x \in Rounds, q \in Proposes : Overridden(x, q) => Overridden(x, q)'
  BY <1>3 DEF Overridden
<1>7. OnePrevotePerRound'
  BY <1>4 DEF OnePrevotePerRound, MayPrevote, ContradictsOurPrevote
<1>8. PrevotesOfEnteredRounds'
  BY <1>4 DEF PrevotesOfEnteredRounds, MayPrevote
<1>9. LockHasMajority'
  <2> SUFFICES ASSUME NEW w \in Honest
               PROVE  IF locked_round[w] = 0
                      THEN locked_propose[w] = NoPropose
                      ELSE /\ locked_propose[w] \in Proposes
                           /\ has_majority_prevotes(locked_round[w], locked_propose[w])'
                           /\ locked_round[w] <= round[w]
    BY DEF LockHasMajority, has_majority_prevotes
  <2>1. locked_round[w] # 0 => locked_round[w] \in Rounds
    BY DEF TypeOK, Honest, Rounds
  <2> QED
    BY <2>1, <1>3 DEF LockHasMajority
<1>10. PrecommitKeepsLock'
  BY <1>3, <1>5 DEF PrecommitKeepsLock
<1>11. PrecommitHeld'
  BY <1>4, <1>5, <1>6 DEF PrecommitHeld, MayPrevote
<1>12. OverriddenIsBarred'
  <2> SUFFICES ASSUME NEW r0 \in Rounds, NEW p0 \in Proposes, Overridden(r0, p0)',
                      NEW Q \in SUBSET Validators, IsMajority(Q)
               PROVE  \E w \in Q \cap Honest : Barred(w, r0, p0)'
    BY DEF OverriddenIsBarred
  <2>1. CASE Overridden(r0, p0)
    <3>1. PICK w \in Q \cap Honest : Barred(w, r0, p0)
      BY <2>1 DEF OverriddenIsBarred
    <3> QED
      BY <3>1, <1>5 DEF Barred
  <2>2. CASE ~ Overridden(r0, p0)
    <3>1. PICK x \in Rounds, q \in Proposes :
            r0 < x /\ q # p0 /\ has_majority_prevotes(x, q)'
      BY DEF Overridden
    <3>2. x = r /\ q = p
      BY <3>1, <2>2, <1>2 DEF Overridden, has_majority_prevotes
    <3>3. PICK w \in Q \cap prevotes'[x][q] : w \in Honest
      BY <3>1, <1>2, MajoritiesMeet DEF has_majority_prevotes
    <3>4. Prevoted(w, x, q)'
      BY <3>3 DEF Prevoted
    <3>5. ~ Precommitted(w, r0, p0)
      <4>1. CASE Prevoted(w, x, q)
        BY <4>1, <3>1, <3>3, <2>2 DEF PrecommitHeld
      <4>2. CASE w = v
        BY <4>2, <3>1, <3>2, <3>3, <2>2 DEF MayPrevote
      <4> QED
        BY <4>1, <4>2, <3>3, <3>4, <1>4
    <3> QED
      BY <3>1, <3>3, <3>4, <3>5, <1>5 DEF Barred
  <2> QED
    BY <2>1, <2>2
<1>13. CommitHasMajority'
  BY DEF CommitHasMajority, has_majority_precommits
<1> QED
  BY <1>1, <1>7, <1>8, <1>9, <1>10, <1>11, <1>12, <1>13

-----------------------------------------------------------------------------
(* A new precommit.                                                        *)

\* Adding one precommit keeps IInv: for a validator that runs the code, the
\* one for its lock when no prevote contradicts it (broadcast_precommit).
LEMMA PrecommitKeepsIInv ==
    ASSUME IInv,
           NEW v \in Validators, NEW r \in Rounds, NEW p \in Proposes,
           v \in Honest => /\ r = locked_round[v] /\ p = locked_propose[v]
                           /\ ~ have_incompatible_prevotes(v),
           AddPrecommit(v, r, p),
           UNCHANGED <<round, locked_round, locked_propose, prevotes, committed>>
    PROVE  IInv'
<1> USE DEF IInv
<1>1. TypeOK'
  BY DEF TypeOK, AddPrecommit
<1>2. \A x \in Rounds, q \in Proposes :
        precommits'[x][q] = IF x = r /\ q = p THEN precommits[x][q] \cup {v}
                                              ELSE precommits[x][q]
  BY DEF TypeOK, AddPrecommit
<1>3. \A x \in Rounds, q \in Proposes :
        precommits[x][q] \in SUBSET Validators /\ precommits'[x][q] \in SUBSET Validators
  BY <1>1 DEF TypeOK
<1>4. \A x \in Rounds, q \in Proposes :
        has_majority_precommits(x, q) => has_majority_precommits(x, q)'
  BY <1>2, <1>3, MajorityGrows DEF has_majority_precommits
<1>5. \A w \in Honest, x \in Rounds, q \in Proposes :
        Precommitted(w, x, q)' => Precommitted(w, x, q) \/ (w = v /\ x = r /\ q = p)
  BY <1>2 DEF Precommitted
<1>6. \A w \in Honest, x \in Rounds, q \in Proposes :
        /\ Prevoted(w, x, q)' <=> Prevoted(w, x, q)
        /\ has_majority_prevotes(x, q)' <=> has_majority_prevotes(x, q)
  BY DEF Prevoted, has_majority_prevotes
<1>7. \A x \in Rounds, q \in Proposes : Overridden(x, q)' <=> Overridden(x, q)
  BY DEF Overridden, has_majority_prevotes
<1>8. v \in Honest => \A x \in Rounds, q \in Proposes :
                          Prevoted(v, x, q) /\ r < x => q = p
  BY DEF PrevotesOfEnteredRounds, have_incompatible_prevotes
<1>9. OnePrevotePerRound' /\ PrevotesOfEnteredRounds'
  BY DEF OnePrevotePerRound, PrevotesOfEnteredRounds, Prevoted
<1>10. LockHasMajority'
  BY DEF LockHasMajority, has_majority_prevotes
<1>11. PrecommitKeepsLock'
  <2> SUFFICES ASSUME NEW w \in Honest, NEW x \in Rounds, NEW q \in Proposes,
                      Precommitted(w, x, q)'
               PROVE  /\ has_majority_prevotes(x, q)
                      /\ locked_round[w] >= x
                      /\ locked_round[w] = x => locked_propose[w] = q
    BY DEF PrecommitKeepsLock, has_majority_prevotes
  <2>1. CASE Precommitted(w, x, q)
    BY <2>1 DEF PrecommitKeepsLock
  <2>2. CASE w = v /\ x = r /\ q = p
    BY <2>2 DEF LockHasMajority, Rounds
  <2> QED
    BY <2>1, <2>2, <1>5
<1>12. PrecommitHeld'
  BY <1>5, <1>6, <1>7, <1>8 DEF PrecommitHeld
<1>13. OverriddenIsBarred'
  <2> SUFFICES ASSUME NEW r0 \in Rounds, NEW p0 \in Proposes, Overridden(r0, p0),
                      NEW Q \in SUBSET Validators, IsMajority(Q)
               PROVE  \E w \in Q \cap Honest : Barred(w, r0, p0)'
    BY <1>7 DEF OverriddenIsBarred
  <2>1. PICK w \in Q \cap Honest : Barred(w, r0, p0)
    BY DEF OverriddenIsBarred
  <2> QED
    BY <2>1, <1>5, <1>6, <1>8 DEF Barred
<1>14. CommitHasMajority'
  <2> SUFFICES ASSUME NEW w \in Honest, committed[w] # NoPropose
               PROVE  \E x \in Rounds : has_majority_precommits(x, committed[w])'
    BY DEF CommitHasMajority, has_majority_precommits
  <2>1. committed[w] \in Proposes
    BY DEF TypeOK, Honest
  <2> QED
    BY <2>1, <1>4 DEF CommitHasMajority
<1> QED
  BY <1>1, <1>9, <1>10, <1>11, <1>12, <1>13, <1>14

-----------------------------------------------------------------------------
(* The steps of a validator.                                               *)

\* A locked validator whose lock is p, or that has seen +2/3 prevotes for p in
\* a round above its lock, may prevote for p: every other propose it has
\* precommitted is overridden.
LEMMA LockedMayPrevote ==
    ASSUME IInv, NEW v \in Honest, NEW r \in Rounds, NEW p \in Proposes,
           r <= round[v], ~ ContradictsOurPrevote(v, r, p),
           \/ locked_round[v] = 0
           \/ locked_round[v] # 0 /\ locked_propose[v] = p /\ locked_round[v] <= r
           \/ \E x \in Rounds : /\ locked_round[v] < x
                                /\ has_majority_prevotes(x, p)
    PROVE  MayPrevote(v, r, p)
<1> SUFFICES ASSUME NEW r0 \in Rounds, NEW p0 \in Proposes,
                    Precommitted(v, r0, p0), r0 < r, p # p0
             PROVE  Overridden(r0, p0)
  BY DEF MayPrevote
<1>1. /\ locked_round[v] >= r0
      /\ locked_round[v] = r0 => locked_propose[v] = p0
  BY DEF IInv, PrecommitKeepsLock
<1>2. locked_round[v] \in 0 .. MaxRound /\ r0 > 0
  BY DEF IInv, TypeOK, Honest, Rounds
<1>3. CASE locked_round[v] # 0 /\ locked_propose[v] = p
  <2>1. has_majority_prevotes(locked_round[v], p) /\ locked_round[v] > r0
    BY <1>1, <1>2, <1>3 DEF IInv, LockHasMajority, Rounds
  <2> QED
    BY <2>1, <1>2, <1>3 DEF Overridden, Rounds
<1>4. CASE \E x \in Rounds : locked_round[v] < x /\ has_majority_prevotes(x, p)
  <2>1. PICK x \in Rounds : locked_round[v] < x /\ has_majority_prevotes(x, p)
    BY <1>4
  <2>2. r0 < x
    BY <2>1, <1>1, <1>2 DEF Rounds
  <2> QED
    BY <2>1, <2>2 DEF Overridden
<1> QED
  BY <1>1, <1>2, <1>3, <1>4 DEF Rounds

\* Entering a round keeps IInv (handle_round_timeout, handle_new_round).
LEMMA EnterRoundKeepsIInv ==
    ASSUME IInv, NEW v \in Honest, NEW r \in Rounds, EnterRound(v, r)
    PROVE  IInv'
<1> USE DEF IInv, EnterRound
<1>1. TypeOK'
  BY DEF TypeOK
<1>2. \A w \in Validators : round[w] <= round'[w]
  BY DEF TypeOK, Rounds
<1>3. PrevotesOfEnteredRounds'
  BY <1>1, <1>2 DEF PrevotesOfEnteredRounds, Prevoted, TypeOK, Rounds, Honest
<1>4. LockHasMajority'
  BY <1>1, <1>2 DEF LockHasMajority, has_majority_prevotes, TypeOK, Rounds, Honest
<1>5. OnePrevotePerRound' /\ PrecommitKeepsLock' /\ PrecommitHeld'
  BY DEF OnePrevotePerRound, PrecommitKeepsLock, PrecommitHeld, Overridden,
         Prevoted, Precommitted, has_majority_prevotes
<1>6. OverriddenIsBarred'
  BY DEF OverriddenIsBarred, Overridden, Barred, Prevoted, Precommitted,
         has_majority_prevotes
<1>7. CommitHasMajority'
  BY DEF CommitHasMajority, has_majority_precommits
<1> QED
  BY <1>1, <1>3, <1>4, <1>5, <1>6, <1>7

\* Locking keeps IInv: State::lock is only reached with a round above the
\* locked one, so no precommit is left behind.
LEMMA LockKeepsIInv ==
    ASSUME IInv, NEW v \in Honest, NEW r \in Rounds, NEW p \in Proposes,
           Lock(v, r, p)
    PROVE  IInv'
<1> USE DEF IInv, Lock
<1>1. TypeOK'
  <2>1. r \in 0 .. MaxRound
    BY MaxRoundAssumption DEF Rounds
  <2> QED
    BY <2>1 DEF TypeOK
<1>2. LockHasMajority'
  BY DEF LockHasMajority, has_majority_prevotes, TypeOK, Rounds, Honest
<1>3. PrecommitKeepsLock'
  <2> SUFFICES ASSUME NEW w \in Honest, NEW x \in Rounds, NEW q \in Proposes,
                      Precommitted(w, x, q)
               PROVE  /\ has_majority_prevotes(x, q)
                      /\ locked_round'[w] >= x
                      /\ locked_round'[w] = x => locked_propose'[w] = q
    BY DEF PrecommitKeepsLock, Precommitted, has_majority_prevotes
  <2>1. /\ has_majority_prevotes(x, q)
        /\ locked_round[w] >= x
        /\ locked_round[w] = x => locked_propose[w] = q
    BY DEF PrecommitKeepsLock
  <2>2. /\ locked_round'[w] = IF w = v THEN r ELSE locked_round[w]
        /\ locked_propose'[w] = IF w = v THEN p ELSE locked_propose[w]
    BY DEF TypeOK, Honest
  <2>3. locked_round[w] \in 0 .. MaxRound
    BY DEF TypeOK, Honest
  <2> QED
    BY <2>1, <2>2, <2>3 DEF Rounds
<1>4. OnePrevotePerRound' /\ PrevotesOfEnteredRounds' /\ PrecommitHeld'
  BY DEF OnePrevotePerRound, PrevotesOfEnteredRounds, PrecommitHeld, Overridden,
         Prevoted, Precommitted, has_majority_prevotes
<1>5. OverriddenIsBarred'
  BY DEF OverriddenIsBarred, Overridden, Barred, Prevoted, Precommitted,
         has_majority_prevotes
<1>6. CommitHasMajority'
  BY DEF CommitHasMajority, has_majority_precommits
<1> QED
  BY <1>1, <1>2, <1>3, <1>4, <1>5, <1>6

\* Committing keeps IInv.
LEMMA CommitKeepsIInv ==
    ASSUME IInv, NEW v \in Honest, NEW r \in Rounds, NEW p \in Proposes,
           Commit(v, r, p)
    PROVE  IInv'
<1> USE DEF IInv, Commit
<1>1. TypeOK'
  BY DEF TypeOK
<1>2. CommitHasMajority'
  BY DEF CommitHasMajority, has_majority_precommits, TypeOK, Honest
<1>3. /\ OnePrevotePerRound' /\ PrevotesOfEnteredRounds'
      /\ PrecommitKeepsLock' /\ PrecommitHeld'
  BY DEF OnePrevotePerRound, PrevotesOfEnteredRounds, PrecommitKeepsLock,
         PrecommitHeld, Overridden, Prevoted, Precommitted, has_majority_prevotes
<1>4. LockHasMajority'
  BY DEF LockHasMajority, has_majority_prevotes
<1>5. OverriddenIsBarred'
  BY DEF OverriddenIsBarred, Overridden, Barred, Prevoted, Precommitted,
         has_majority_prevotes
<1> QED
  BY <1>1, <1>2, <1>3, <1>4, <1>5

\* Every step keeps IInv.
LEMMA NextKeepsIInv == IInv /\ [Next]_vars => IInv'
<1> SUFFICES ASSUME IInv, [Next]_vars PROVE IInv'
  OBVIOUS
<1> USE DEF IInv
<1>1. ASSUME NEW v \in Honest, NEW r \in Rounds, EnterRound(v, r) PROVE IInv'
  BY <1>1, EnterRoundKeepsIInv
<1>2. ASSUME NEW v \in Honest, NEW p \in Proposes, PrevoteUnlocked(v, p) PROVE IInv'
  <2>1. ProposeRound[p] \in Rounds
    BY ProposesAssumption
  <2>2. MayPrevote(v, ProposeRound[p], p)
    BY <1>2, <2>1, LockedMayPrevote
    DEF PrevoteUnlocked, have_prevote, ContradictsOurPrevote
  <2> QED
    BY <1>2, <2>1, <2>2, PrevoteKeepsIInv DEF PrevoteUnlocked, Honest
<1>3. ASSUME NEW v \in Honest, NEW r \in Rounds, PrevoteLocked(v, r) PROVE IInv'
  <2>1. locked_propose[v] \in Proposes
    BY <1>3 DEF LockHasMajority, PrevoteLocked
  <2>2. MayPrevote(v, r, locked_propose[v])
    BY <1>3, <2>1, LockedMayPrevote DEF PrevoteLocked
  <2> QED
    BY <1>3, <2>1, <2>2, PrevoteKeepsIInv DEF PrevoteLocked, Honest
<1>4. ASSUME NEW v \in Honest, NEW q \in Rounds, NEW r \in Rounds, NEW p \in Proposes,
             PrevoteForMajority(v, q, r, p)
      PROVE  IInv'
  <2>1. MayPrevote(v, r, p)
    BY <1>4, LockedMayPrevote
    DEF PrevoteForMajority, have_prevote, ContradictsOurPrevote
  <2> QED
    BY <1>4, <2>1, PrevoteKeepsIInv DEF PrevoteForMajority, Honest
<1>5. ASSUME NEW v \in Honest, NEW r \in Rounds, NEW p \in Proposes, Lock(v, r, p)
      PROVE  IInv'
  BY <1>5, LockKeepsIInv
<1>6. ASSUME NEW v \in Honest, Precommit(v) PROVE IInv'
  <2>1. locked_round[v] \in Rounds /\ locked_propose[v] \in Proposes
    BY <1>6 DEF Precommit, LockHasMajority, TypeOK, Rounds, Honest
  <2> QED
    BY <1>6, <2>1, PrecommitKeepsIInv DEF Precommit, Honest
<1>7. ASSUME NEW v \in Honest, NEW r \in Rounds, NEW p \in Proposes, Commit(v, r, p)
      PROVE  IInv'
  BY <1>7, CommitKeepsIInv
<1>8. ASSUME NEW v \in Byzantine, NEW r \in Rounds, NEW p \in Proposes,
             ByzantinePrevote(v, r, p)
      PROVE  IInv'
  BY <1>8, ByzantineAssumption, PrevoteKeepsIInv DEF ByzantinePrevote, Honest
<1>9. ASSUME NEW v \in Byzantine, NEW r \in Rounds, NEW p \in Proposes,
             ByzantinePrecommit(v, r, p)
      PROVE  IInv'
  BY <1>9, ByzantineAssumption, PrecommitKeepsIInv DEF ByzantinePrecommit, Honest
<1>10. CASE UNCHANGED vars
  <2> USE <1>10 DEF vars
  <2>1. TypeOK' /\ LockHasMajority' /\ CommitHasMajority'
    BY DEF TypeOK, LockHasMajority, CommitHasMajority, has_majority_prevotes,
           has_majority_precommits
  <2>2. /\ OnePrevotePerRound' /\ PrevotesOfEnteredRounds'
        /\ PrecommitKeepsLock' /\ PrecommitHeld'
    BY DEF OnePrevotePerRound, PrevotesOfEnteredRounds, PrecommitKeepsLock,
           PrecommitHeld, Overridden, Prevoted, Precommitted, has_majority_prevotes
  <2>3. OverriddenIsBarred'
    BY DEF OverriddenIsBarred, Overridden, Barred, Prevoted, Precommitted,
           has_majority_prevotes
  <2> QED
    BY <2>1, <2>2, <2>3
<1> QED
  BY <1>1, <1>2, <1>3, <1>4, <1>5, <1>6, <1>7, <1>8, <1>9, <1>10
     DEF Next, HonestStep, ByzantineStep

-----------------------------------------------------------------------------
(* The theorems.                                                           *)

\* What validators have committed agrees, whenever IInv holds.
LEMMA IInvAgreement == IInv => Agreement
<1> SUFFICES ASSUME IInv, NEW v \in Honest, NEW w \in Honest,
                    committed[v] # NoPropose, committed[w] # NoPropose
             PROVE  committed[v] = committed[w]
  BY DEF Agreement
<1> USE DEF IInv
<1> DEFINE P == committed[v]
           Q == committed[w]
<1>1. P \in Proposes /\ Q \in Proposes
  BY DEF TypeOK, Honest
<1>2. PICK r \in Rounds : has_majority_precommits(r, P)
  BY DEF CommitHasMajority
<1>3. PICK x \in Rounds : has_majority_precommits(x, Q)
  BY DEF CommitHasMajority
<1>4. precommits[r][P] \in SUBSET Validators /\ precommits[x][Q] \in SUBSET Validators
  BY <1>1 DEF TypeOK
<1>5. /\ has_majority_prevotes(r, P)
      /\ has_majority_prevotes(x, Q)
  <2>1. PICK a \in precommits[r][P] : a \in Honest
    BY <1>2, <1>4, MajoritiesMeet DEF has_majority_precommits
  <2>2. PICK b \in precommits[x][Q] : b \in Honest
    BY <1>3, <1>4, MajoritiesMeet DEF has_majority_precommits
  <2> QED
    BY <1>1, <2>1, <2>2 DEF PrecommitKeepsLock, Precommitted
<1>6. CASE r = x
  <2>1. prevotes[r][P] \in SUBSET Validators /\ prevotes[r][Q] \in SUBSET Validators
    BY <1>1 DEF TypeOK
  <2>2. PICK a \in prevotes[r][P] \cap prevotes[r][Q] : a \in Honest
    BY <1>5, <1>6, <2>1, MajoritiesMeet DEF has_majority_prevotes
  <2> QED
    BY <1>1, <2>2 DEF OnePrevotePerRound, Prevoted
<1>7. ASSUME NEW r1 \in Rounds, NEW r2 \in Rounds, NEW p1 \in Proposes, NEW p2 \in Proposes,
             r1 < r2, has_majority_prevotes(r2, p2), has_majority_precommits(r1, p1),
             p1 # p2
      PROVE  FALSE
  <2>1. Overridden(r1, p1)
    BY <1>7 DEF Overridden
  <2>2. precommits[r1][p1] \in SUBSET Validators
    BY DEF TypeOK
  <2>3. PICK a \in precommits[r1][p1] \cap Honest : Barred(a, r1, p1)
    BY <1>7, <2>1, <2>2 DEF OverriddenIsBarred, has_majority_precommits
  <2> QED
    BY <2>3 DEF Barred, Precommitted
<1>8. r = x \/ r < x \/ x < r
  BY DEF Rounds
<1> QED
  BY <1>1, <1>2, <1>3, <1>5, <1>6, <1>7, <1>8

\* IInv holds in every reachable state.
THEOREM Invariance == Spec => []IInv
  BY InitIInv, NextKeepsIInv, PTL DEF Spec

\* The variables keep the types of the fields of State.
THEOREM TypeCorrect == Spec => []TypeOK
<1>1. IInv => TypeOK
  BY DEF IInv
<1> QED
  BY <1>1, Invariance, PTL

\* The voting discipline of handle_full_propose, process_new_round and lock():
\* no validator prevotes twice in a round, and a precommit is only abandoned
\* after +2/3 prevotes against it.
THEOREM VotingDiscipline == Spec => [](OnePrevotePerRound /\ PrecommitKeepsLock /\ PrecommitHeld)
<1>1. IInv => OnePrevotePerRound /\ PrecommitKeepsLock /\ PrecommitHeld
  BY DEF IInv
<1> QED
  BY <1>1, Invariance, PTL

\* Validators that run the code never commit different blocks in one epoch,
\* for every number of validators and every faulty minority below one third.
THEOREM AgreementHolds == Spec => []Agreement
  BY IInvAgreement, Invariance, PTL
=============================================================================
