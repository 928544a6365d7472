---------------------------- MODULE NodeHandlers ----------------------------
(***************************************************************************)
(* The handlers of exonum-node/src/consensus.rs, as operators on the       *)
(* record of NodeState.                                                    *)
(*                                                                         *)
(* A handler changes the record at once, and appends to its field `io`     *)
(* what it does to the world, in program order: the merges into the        *)
(* database and the broadcasts.  Node.tla performs them one at a time, so  *)
(* that a crash can fall between any two.  A panic, and the change of      *)
(* epoch at the end of commit(), are the last entry of `io`: nothing of a  *)
(* handler runs after them (`Halted`).                                     *)
(***************************************************************************)
EXTENDS NodeState, SequencesExt

CONSTANT DebugAssertions  \* TRUE: the build has debug assertions

Emit(s, effect) == [s EXCEPT !.io = Append(@, effect)]

panic(s, why) == Emit(s, [op |-> "panic", why |-> why])

Halted(s) == s.io # <<>> /\ Last(s.io).op \in {"panic", "new_epoch"}

\* PersistChanges with save_messages: the messages, and with them the round.
save_messages(s, round, msgs) ==
    Emit(s, [op |-> "save", round |-> round, msgs |-> msgs])

broadcast(s, msg) == Emit(s, [op |-> "send", msg |-> msg])

\* Runs Step for the rounds from..to, in order, until the handler is over.
ForRounds(s, from, to, Step(_, _)) ==
    FoldLeft(LAMBDA t, r : IF Halted(t) THEN t ELSE Step(t, r),
             s, [i \in 1 .. (to - from + 1) |-> from + i - 1])

(***************************************************************************)
(* Votes of this node                                                      *)
(***************************************************************************)
ensure_saved_propose(s, round, p) ==
    IF p \in DOMAIN s.proposes /\ ~ s.proposes[p].is_saved
    THEN [save_messages(s, round, <<p>>) EXCEPT !.proposes[p].is_saved = TRUE]
    ELSE s

\* Mutation of broadcast_prevote: the prevote is broadcast, then saved.
broadcast_prevote_unsaved(s, round, p) ==
    LET prevote == Prevote(Me, s.epoch, round, p, s.locked_round) IN
    IF ContradictsOurPrevote(s, prevote)
    THEN panic(s, "different prevotes")
    ELSE save_messages(
            broadcast(ensure_saved_propose(add_prevote(s, prevote), round, p), prevote),
            round, <<prevote>>)

\* The prevote is saved before it is broadcast.
broadcast_prevote(s, round, p) ==
    LET prevote == Prevote(Me, s.epoch, round, p, s.locked_round) IN
    IF ContradictsOurPrevote(s, prevote)
    THEN panic(s, "different prevotes")
    ELSE broadcast(
            save_messages(ensure_saved_propose(add_prevote(s, prevote), round, p),
                          round, <<prevote>>),
            prevote)

broadcast_precommit(s, round, p, block) ==
    LET precommit == Precommit(Me, s.epoch, round, p, block) IN
    IF ContradictsOurPrecommit(s, precommit)
    THEN panic(s, "different precommits")
    ELSE broadcast(save_messages(add_precommit(s, precommit), round, <<precommit>>),
                   precommit)

check_propose_and_broadcast_prevote(s, round, p) ==
    CASE p \notin DOMAIN s.proposes -> panic(s, "no propose")
      [] p \in DOMAIN s.proposes /\ has_invalid_txs(s, p) -> s
      [] OTHER -> broadcast_prevote(s, round, p)

check_propose_and_broadcast_precommit(s, round, p, block) ==
    CASE p \notin DOMAIN s.proposes -> panic(s, "no propose")
      [] p \in DOMAIN s.proposes /\ has_invalid_txs(s, p) -> s
      [] OTHER -> broadcast_precommit(s, round, p, block)

(***************************************************************************)
(* Executing and committing blocks                                         *)
(***************************************************************************)
BlockOf(s, p) == Block(s.last_hash, p.validator, p.epoch, p.skip, p.txs)

execute(s, p) == [s EXCEPT !.blocks = @ \cup {BlockOf(s, p)}]

\* Mutation of commit: the committed transactions stay in the cache.
commit_keeping_cache(s, block, proof, next) ==
    IF block \notin s.blocks
    THEN panic(s, "no block")
    ELSE LET s1 == [s EXCEPT !.blocks = @ \ {block}]
             s2 == Emit(s1, [op |-> "clear"])
             s3 == Emit(s2, [op |-> "merge", block |-> block, proof |-> proof])
             s4 == IF block.skip THEN s3 ELSE Emit(s3, [op |-> "count"])
         IN  Emit(s4, [op |-> "new_epoch", block |-> block, next |-> next])

\* commit: clears the message cache, merges the block, updates the transaction
\* counters, enters the new epoch.  `next`: the caller then asks for the next
\* block (request_next_block).
commit(s, block, proof, next) ==
    IF block \notin s.blocks
    THEN panic(s, "no block")
    ELSE LET s1 == [s EXCEPT !.tx_cache = @ \ block.txs, !.blocks = @ \ {block}]
             s2 == Emit(s1, [op |-> "clear"])
             s3 == Emit(s2, [op |-> "merge", block |-> block, proof |-> proof])
             s4 == IF block.skip THEN s3 ELSE Emit(s3, [op |-> "count"])
         IN  Emit(s4, [op |-> "new_epoch", block |-> block, next |-> next])

\* Mutation of add_propose_confirmed_by_majority: a known propose is not noted.
confirm_unknown_propose(s, round, p, block) ==
    IF p \in DOMAIN s.proposes THEN s ELSE
    IF /\ DebugAssertions
       /\ p \in DOMAIN s.confirmed
       /\ s.confirmed[p] # [round |-> round, block |-> block]
    THEN panic(s, "another confirmed propose")
    ELSE [s EXCEPT !.confirmed = Put(@, p, [round |-> round, block |-> block])]

add_propose_confirmed_by_majority(s, round, p, block) ==
    IF /\ DebugAssertions
       /\ p \in DOMAIN s.confirmed
       /\ s.confirmed[p] # [round |-> round, block |-> block]
    THEN panic(s, "another confirmed propose")
    ELSE [s EXCEPT !.confirmed = Put(@, p, [round |-> round, block |-> block])]

handle_majority_precommits(s, round, p, block) ==
    LET known == p \in DOMAIN s.proposes
        full == known /\ ~ has_unknown_txs(s, p)
        noted == IF full THEN s ELSE add_propose_confirmed_by_majority(s, round, p, block)
        executed == execute(s, p)
    IN  CASE ~ known \/ Halted(noted) -> noted
          [] known /\ ~ full /\ ~ Halted(noted) -> 
                request(noted, <<"ProposeTransactions", p>>, {p.validator})
          [] full /\ has_invalid_txs(s, p) -> panic(s, "invalid transactions")
          [] full /\ ~ has_invalid_txs(s, p) /\ BlockOf(s, p) # block ->
                panic(executed, "wrong block hash")
          [] OTHER -> commit(executed, block, PrecommitsOf(executed, round, block), FALSE)

(***************************************************************************)
(* Locking                                                                 *)
(***************************************************************************)
\* Mutation of save_and_lock: the prevotes are not saved.
save_and_lock_unsaved(s, round, prevote_round, p) ==
    LET saved == Emit(s, [op |-> "lock", round |-> round, msgs |-> <<>>,
                          was |-> <<s.locked_round, s.locked_propose>>])
    IN  IF s.locked_round >= round
        THEN panic(saved, "incorrect lock")
        ELSE [saved EXCEPT !.locked_round = round, !.locked_propose = p]

\* The prevotes of prevote_round are saved; then State::lock, with its assertion.
\* The entry also carries the lock it replaces.
save_and_lock(s, round, prevote_round, p) ==
    LET saved == Emit(s, [op |-> "lock", round |-> round,
                          msgs |-> SetToSeq(PrevotesOf(s, prevote_round, p)),
                          was |-> <<s.locked_round, s.locked_propose>>])
    IN  IF s.locked_round >= round
        THEN panic(saved, "incorrect lock")
        ELSE [saved EXCEPT !.locked_round = round, !.locked_propose = p]

\* Mutation of LockAt: the node prevotes without looking for its own prevote.
LockAtAgain(s, round, prevote_round, p) ==
    LET s1 == IF is_validator
              THEN check_propose_and_broadcast_prevote(s, round, p) ELSE s
        s2 == save_and_lock(ensure_saved_propose(s1, round, p), round, prevote_round, p)
        s3 == check_propose_and_broadcast_precommit(execute(s2, p), round, p, BlockOf(s2, p))
    IN  CASE Halted(s1) \/ ~ has_majority_prevotes(s1, round, p) -> s1
          [] Halted(s2) -> s2
          [] ~ is_validator \/ have_incompatible_prevotes(s2) ->
                remove_request(s2, <<"Prevotes", round, p>>)
          [] Halted(s3) -> s3
          [] has_majority_precommits(s3, round, BlockOf(s2, p)) ->
                handle_majority_precommits(s3, round, p, BlockOf(s2, p))
          [] OTHER -> remove_request(s3, <<"Prevotes", round, p>>)

\* One turn of the loop of lock().
LockAt(s, round, prevote_round, p) ==
    LET s1 == IF is_validator /\ ~ have_prevote(s, round)
              THEN check_propose_and_broadcast_prevote(s, round, p) ELSE s
        s2 == save_and_lock(ensure_saved_propose(s1, round, p), round, prevote_round, p)
        s3 == check_propose_and_broadcast_precommit(execute(s2, p), round, p, BlockOf(s2, p))
    IN  CASE Halted(s1) \/ ~ has_majority_prevotes(s1, round, p) -> s1
          [] Halted(s2) -> s2
          [] ~ is_validator \/ have_incompatible_prevotes(s2) ->
                remove_request(s2, <<"Prevotes", round, p>>)
          [] Halted(s3) -> s3
          [] has_majority_precommits(s3, round, BlockOf(s2, p)) ->
                handle_majority_precommits(s3, round, p, BlockOf(s2, p))
          [] OTHER -> remove_request(s3, <<"Prevotes", round, p>>)

lock(s, prevote_round, p) ==
    ForRounds(s, prevote_round, s.round, LAMBDA t, r : LockAt(t, r, prevote_round, p))

handle_majority_prevotes(s, prevote_round, p) ==
    LET s1 == remove_request(s, <<"Prevotes", prevote_round, p>>) IN
    CASE s.locked_round >= prevote_round \/ p \notin DOMAIN s.proposes -> s1
      [] has_invalid_txs(s, p) -> panic(s1, "invalid transactions")
      [] OTHER -> lock(s1, prevote_round, p)

(***************************************************************************)
(* Consensus messages                                                      *)
(***************************************************************************)
\* Mutation of handle_full_propose: the current round is left out of the loop.
handle_full_propose_before(s, p) ==
    LET s1 == IF s.locked_round = 0 /\ is_validator /\ ~ have_prevote(s, p.round)
              THEN check_propose_and_broadcast_prevote(s, p.round, p) ELSE s
        start_round == IF s1.locked_round + 1 > p.round THEN s1.locked_round + 1 ELSE p.round
        s2 == ForRounds(s1, start_round, s1.round - 1,
                        LAMBDA t, r : IF has_majority_prevotes(t, r, p)
                                      THEN handle_majority_prevotes(t, r, p) ELSE t)
        s3 == execute([s2 EXCEPT !.confirmed = Drop(@, p)], p)
        confirmed == s2.confirmed[p]
    IN  CASE Halted(s2) \/ p \notin DOMAIN s2.confirmed -> s2
          [] has_invalid_txs(s2, p) -> panic(s2, "no transaction")
          [] BlockOf(s2, p) # confirmed.block -> panic(s3, "wrong block hash")
          [] OTHER -> commit(s3, confirmed.block,
                             PrecommitsOf(s3, confirmed.round, confirmed.block), FALSE)

handle_full_propose(s, p) ==
    LET s1 == IF s.locked_round = 0 /\ is_validator /\ ~ have_prevote(s, p.round)
              THEN check_propose_and_broadcast_prevote(s, p.round, p) ELSE s
        start_round == IF s1.locked_round + 1 > p.round THEN s1.locked_round + 1 ELSE p.round
        s2 == ForRounds(s1, start_round, s1.round,
                        LAMBDA t, r : IF has_majority_prevotes(t, r, p)
                                      THEN handle_majority_prevotes(t, r, p) ELSE t)
        s3 == execute([s2 EXCEPT !.confirmed = Drop(@, p)], p)
        confirmed == s2.confirmed[p]
    IN  CASE Halted(s2) \/ p \notin DOMAIN s2.confirmed -> s2
          [] has_invalid_txs(s2, p) -> panic(s2, "no transaction")
          [] BlockOf(s2, p) # confirmed.block -> panic(s3, "wrong block hash")
          [] OTHER -> commit(s3, confirmed.block,
                             PrecommitsOf(s3, confirmed.round, confirmed.block), FALSE)

handle_propose(s, p, pool, transactions) ==
    LET s1 == remove_request(add_propose(s, p, pool), <<"Propose", p>>) IN
    CASE \/ p.skip /\ p.txs # {}
         \/ p.prev # s.last_hash
         \/ p.validator # leader(s, p.round)
         \/ ~ AcceptsPropose(s, p, transactions \ pool) -> s
      [] OTHER -> IF has_unknown_txs(s1, p)
                  THEN request(s1, <<"ProposeTransactions", p>>,
                               {p.validator} \cup known_nodes(s, <<"Propose", p>>))
                  ELSE handle_full_propose(s1, p)

request_propose_or_txs(s, p, from) ==
    CASE p \notin DOMAIN s.proposes -> request(s, <<"Propose", p>>, {from})
      [] p \in DOMAIN s.proposes /\ has_unknown_txs(s, p) ->
            request(s, <<"ProposeTransactions", p>>, {from})
      [] OTHER -> s

handle_prevote(s, m) ==
    LET p == m.propose
        s1 == request_propose_or_txs(add_prevote(s, m), p, m.validator)
        s2 == IF m.locked_round > s1.locked_round
              THEN request(s1, <<"Prevotes", m.locked_round, p>>, {m.validator}) ELSE s1
    IN  CASE ContradictsOurPrevote(s, m) -> panic(s, "different prevotes")
          [] /\ ~ ContradictsOurPrevote(s, m)
             /\ has_majority_prevotes(s2, m.round, p)
             /\ p \in DOMAIN s.proposes /\ ~ has_unknown_txs(s, p) ->
                handle_majority_prevotes(s2, m.round, p)
          [] OTHER -> s2

handle_precommit(s, m) ==
    LET p == m.propose
        s1 == add_precommit(s, m)
        s2 == IF p \notin DOMAIN s.proposes
              THEN request(s1, <<"Propose", p>>, {m.validator}) ELSE s1
        s3 == IF m.round > s2.locked_round
              THEN request(s2, <<"Prevotes", m.round, p>>, {m.validator}) ELSE s2
    IN  CASE ContradictsOurPrecommit(s, m) -> panic(s, "different precommits")
          [] /\ ~ ContradictsOurPrecommit(s, m)
             /\ has_majority_precommits(s3, m.round, m.block) ->
                handle_majority_precommits(s3, m.round, p, m.block)
          [] OTHER -> s3

\* A message of the next epoch or of a later round is queued, and may show
\* that enough validators are ahead.
QueueMessage(s, m) ==
    LET u == UpdateValidatorRound(s, m.validator, m.round) IN
    [u.state EXCEPT !.queued = @ \cup {m},
                    !.jumps = IF u.jump = 0 THEN @ ELSE @ \cup {u.jump}]

handle_consensus(s, m, pool, transactions) ==
    CASE ~ s.is_enabled -> s
      [] s.is_enabled /\ (m.epoch < s.epoch \/ m.epoch > s.epoch + 1) -> s
      [] /\ s.is_enabled
         /\ \/ m.epoch = s.epoch + 1
            \/ m.epoch = s.epoch /\ m.round > s.round -> QueueMessage(s, m)
      [] OTHER -> CASE m.type = "propose" -> handle_propose(s, m, pool, transactions)
                    [] m.type = "prevote" -> handle_prevote(s, m)
                    [] m.type = "precommit" -> handle_precommit(s, m)

(***************************************************************************)
(* Rounds                                                                  *)
(***************************************************************************)
\* Timers of other rounds are ignored when they fire, and are not kept.
StartRound(s, round) == [s EXCEPT !.round = round, !.timers = {"round"}]

\* Mutation of process_new_round: the leader forgets to prepare a propose.
process_new_round_without_propose(s) ==
    LET voted == check_propose_and_broadcast_prevote(s, s.round, s.locked_propose)
        s1 == CASE ~ is_validator -> s
                [] is_validator /\ s.locked_propose # None ->
                      IF ~ Halted(voted) /\ has_majority_prevotes(voted, s.round, s.locked_propose)
                      THEN handle_majority_prevotes(voted, s.round, s.locked_propose)
                      ELSE voted
                [] OTHER -> s
    IN  IF Halted(s1) THEN s1
        ELSE [s1 EXCEPT !.replay = @ \cup s.queued, !.queued = {}]

\* process_new_round: the locked propose is prevoted again, or the leader
\* prepares a propose; then the queued messages are handled.
process_new_round(s) ==
    LET voted == check_propose_and_broadcast_prevote(s, s.round, s.locked_propose)
        s1 == CASE ~ is_validator -> s
                [] is_validator /\ s.locked_propose # None ->
                      IF ~ Halted(voted) /\ has_majority_prevotes(voted, s.round, s.locked_propose)
                      THEN handle_majority_prevotes(voted, s.round, s.locked_propose)
                      ELSE voted
                [] OTHER -> IF is_leader(s) THEN [s EXCEPT !.timers = @ \cup {"propose"}] ELSE s
    IN  IF Halted(s1) THEN s1
        ELSE [s1 EXCEPT !.replay = @ \cup s.queued, !.queued = {}]

\* Mutation of handle_round_timeout: the round is counted up twice.
handle_round_timeout_twice(s) == process_new_round(StartRound(s, s.round + 2))

handle_round_timeout(s) == process_new_round(StartRound(s, s.round + 1))

handle_new_round(s, round) ==
    LET s1 == [s EXCEPT !.jumps = @ \ {round}] IN
    IF round <= s.round THEN s1 ELSE process_new_round(StartRound(s1, round))

\* handle_propose_timeout for a template chosen by the pool manager: the
\* propose is broadcast, saved, and prevoted.
handle_propose_timeout(s, skip, txs) ==
    LET p == Propose(Me, s.epoch, s.round, s.last_hash, skip, txs)
        s0 == [s EXCEPT !.timers = @ \ {"propose"}]
        s1 == [broadcast(s0, p) EXCEPT !.allow_expedited_propose = TRUE]
        s2 == add_self_propose(save_messages(s1, s.round, <<p>>), p)
        s3 == check_propose_and_broadcast_prevote(s2, s.round, p)
    IN  CASE s.locked_propose # None \/ have_prevote(s, s.round) -> s0
          [] ~ Halted(s3) /\ has_majority_prevotes(s3, s.round, p) ->
                handle_majority_prevotes(s3, s.round, p)
          [] OTHER -> s3

(***************************************************************************)
(* Transactions and blocks from other nodes                                *)
(***************************************************************************)
handle_full_block(s) ==
    LET b == s.incomplete_block
        s1 == [s EXCEPT !.incomplete_block = None]
        ours == Block(s.last_hash, b.block.proposer, b.block.epoch, b.block.skip, b.block.txs)
    IN  IF b.block \notin s.blocks /\ ours # b.block
        THEN panic(s1, "wrong block hash")
        ELSE commit([s1 EXCEPT !.blocks = @ \cup {b.block}], b.block, b.precommits, TRUE)

validate_precommits(precs, block) ==
    /\ Cardinality(precs) >= majority_count
    /\ Cardinality(precs) <= N
    /\ \A m \in precs : /\ m.validator \in Validators
                        /\ m.block = block
                        /\ m.epoch = block.epoch
    /\ \A m, k \in precs : m.round = k.round /\ (m.validator = k.validator => m = k)

\* Mutation of validate_block_response: the previous block is not compared.
validate_block_response_any_prev(s, m) ==
    LET b == m.block IN
    /\ \/ s.blockchain_height = b.height
       \/ s.blockchain_height = b.height + 1 /\ s.epoch <= b.epoch
    /\ s.incomplete_block = None
    /\ ~ (b.skip /\ b.txs # {})
    /\ validate_precommits(m.precommits, b)

validate_block_response(s, m) ==
    LET b == m.block IN
    /\ \/ s.blockchain_height = b.height
       \/ s.blockchain_height = b.height + 1 /\ s.epoch <= b.epoch
    /\ b.prev = s.last_hash
    /\ s.incomplete_block = None
    /\ ~ (b.skip /\ b.txs # {})
    /\ validate_precommits(m.precommits, b)

\* Mutation of handle_block: the missing transactions are not requested.
handle_block_without_request(s, m, pool, transactions) ==
    LET b == m.block
        s1 == remove_request(create_incomplete_block(s, m, transactions), <<"Block", b.height>>)
    IN  CASE ~ validate_block_response(s, m) -> s
          [] b \in s.blocks /\ validate_block_response(s, m) ->
                commit(s, b, m.precommits, TRUE)
          [] OTHER ->
                IF RefusesBlock(s, b, pool, transactions)
                THEN panic(s, "block refused")
                ELSE IF s1.incomplete_block.unknown_txs # {}
                     THEN s1
                     ELSE handle_full_block(s1)

handle_block(s, m, pool, transactions) ==
    LET b == m.block
        s1 == remove_request(create_incomplete_block(s, m, transactions), <<"Block", b.height>>)
    IN  CASE ~ validate_block_response(s, m) -> s
          [] b \in s.blocks /\ validate_block_response(s, m) ->
                commit(s, b, m.precommits, TRUE)
          [] OTHER ->
                IF RefusesBlock(s, b, pool, transactions)
                THEN panic(s, "block refused")
                ELSE IF s1.incomplete_block.unknown_txs # {}
                     THEN request(s1, <<"BlockTransactions">>,
                                  {m.validator} \cup known_nodes(s, <<"Block", b.height>>))
                     ELSE handle_full_block(s1)

\* remove_unknown_transaction, and handle_full_block when it was the last.
remove_unknown_transaction(s, tx) ==
    LET s1 == [s EXCEPT !.incomplete_block.unknown_txs = @ \ {tx}] IN
    CASE Halted(s) \/ s.incomplete_block = None -> s
      [] tx \in s.invalid_txs -> panic(s, "invalid transaction in a block")
      [] OTHER -> IF s1.incomplete_block.unknown_txs = {}
                  THEN handle_full_block(remove_request(s1, <<"BlockTransactions">>))
                  ELSE s1

\* handle_tx, after the transaction has been checked and stored: the proposes
\* that are now full, from the latest round on, then the incomplete block.
HandleStoredTx(s, tx) ==
    LET s1 == check_incomplete_proposes(s, tx)
        full == SetToSortSeq(FullProposes(s1), LAMBDA p, q : p.round > q.round)
        s2 == FoldLeft(LAMBDA t, p :
                          LET u == remove_request(t, <<"ProposeTransactions", p>>) IN
                          IF Halted(t) THEN u ELSE handle_full_propose(u, p),
                       s1, full)
    IN  remove_unknown_transaction(s2, tx)

\* handle_status: a peer is ahead of this node.
handle_status(s, m, uncommitted) ==
    LET s1 == update_peer_state(s, m.validator, [epoch |-> m.epoch, height |-> m.height])
        s2 == CASE m.height > s.blockchain_height ->
                      request(s1, <<"Block", s.blockchain_height>>, {m.validator})
                [] m.height <= s.blockchain_height /\ m.epoch > s.epoch ->
                      request(s1, <<"BlockOrEpoch", s.blockchain_height, s.epoch>>, {m.validator})
                [] OTHER -> s1
    IN  IF uncommitted = 0 /\ m.pool
        THEN request(s2, <<"PoolTransactions">>, {m.validator}) ELSE s2

\* request_next_block: the possible outcomes.
request_next_block(s) ==
    IF s.is_enabled /\ NextBlockRequests(s) # {}
    THEN {request(s, next[1], {next[2]}) : next \in NextBlockRequests(s)}
    ELSE {s}
=============================================================================
