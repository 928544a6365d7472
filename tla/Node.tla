-------------------------------- MODULE Node --------------------------------
(***************************************************************************)
(* One node of the network: the event loop of NodeHandler (events_impl.rs, *)
(* basic.rs, lib.rs) around the handlers of NodeHandlers, the database it  *)
(* writes, and the network, which may delay, reorder, repeat and lose      *)
(* messages.  The other validators are the environment: they send any of   *)
(* the messages of EnvMessages.                                            *)
(*                                                                         *)
(* The handler is single-threaded.  An event starts when the effects (io)  *)
(* of the previous one are done and the messages it took out of the queue  *)
(* are handled.  A crash may happen at any point.                          *)
(***************************************************************************)
EXTENDS NodeHandlers

CONSTANTS
    EnvMessages,       \* messages the other validators may send
    EnvTxs,            \* transactions that may arrive
    ValidTx,           \* ValidTx[height]: what check_tx accepts at that height
    PersistImmediately,\* TRUE: FlushPoolStrategy::Immediate
    ProposeThreshold,  \* propose_timeout_threshold of the consensus config
    TxsBlockLimit,     \* txs_block_limit of the consensus config
    SkipEmptyBlocks,   \* TRUE: the pool manager is SkipEmptyBlocks
    Events,            \* kinds of rare events this instance has, of RareEvents
    MaxEpoch,          \* bound: the last epoch in which the node acts
    MaxRound,          \* bound on rounds
    SpareRounds,       \* bound: rounds that are kept for after each restart
    MaxRestarts        \* bound on restarts

\* "crash_in_commit": a crash may also fall between the two merges that clear
\* the message cache and store the block, or before the counters are updated.
RareEvents == {"pause", "flush", "retry", "shutdown", "repeat", "crash_in_commit"}

ASSUME EventsAssumption == Events \subseteq RareEvents
ASSUME BoundsAssumption ==
    /\ MaxEpoch \in Nat \ {0} /\ MaxRound \in Nat \ {0}
    /\ SpareRounds \in Nat /\ MaxRestarts \in Nat

VARIABLES
    state,    \* the volatile State of the node
    db,       \* the database: blocks, pool, message cache
    net,      \* the messages that have been sent
    panicked, \* why the node has panicked (the last time), or None
    restarts  \* number of restarts so far

vars == <<state, db, net, panicked, restarts>>

(***************************************************************************)
(* The database                                                            *)
(***************************************************************************)
EmptyDb ==
    [blocks |-> <<Genesis>>, block_skip |-> None, proofs |-> NoFun, transactions |-> {},
     tx_count |-> 0, pool |-> {}, pool_len |-> 0, cache |-> <<>>, consensus_round |-> 1]

Committed(d) == UNION {d.blocks[i].txs : i \in DOMAIN d.blocks}

LastBlock(d) == d.blocks[Len(d.blocks)]

LastEpoch(d) == IF d.block_skip # None THEN d.block_skip.epoch ELSE LastBlock(d).epoch

add_transaction_into_pool(d, txs) ==
    [d EXCEPT !.pool = @ \cup txs, !.transactions = @ \cup txs,
              !.pool_len = @ + Cardinality(txs)]

reject_transactions(d, txs) ==
    [d EXCEPT !.pool = @ \ txs, !.transactions = @ \ txs,
              !.pool_len = @ - Cardinality(d.pool \cap txs)]

\* Mutation of MergeBlock: a block does not remove the skip before it.
MergeBlockKeepingSkip(d, b, proof) ==
    [d EXCEPT !.blocks = IF b.skip THEN @ ELSE Append(@, b),
              !.block_skip = IF b.skip THEN b ELSE @,
              !.transactions = @ \cup b.txs,
              !.proofs = Put(@, b, proof)]

\* BlockchainMut::commit, the first merge: the block and its precommits.  A
\* skip replaces the previous one; a block removes it (clear_block_skip).
MergeBlock(d, b, proof) ==
    LET old == IF d.block_skip = None THEN d.proofs ELSE Drop(d.proofs, d.block_skip) IN
    [d EXCEPT !.blocks = IF b.skip THEN @ ELSE Append(@, b),
              !.block_skip = IF b.skip THEN b ELSE None,
              !.transactions = @ \cup b.txs,
              !.proofs = Put(old, b, proof)]

\* Mutation of update_transaction_count: the pool counter is not reduced.
update_transaction_count_only(d) ==
    LET txs == LastBlock(d).txs IN
    [d EXCEPT !.tx_count = @ + Cardinality(txs), !.pool = @ \ txs]

\* BlockchainMut::commit, the second merge.
update_transaction_count(d) ==
    LET txs == LastBlock(d).txs IN
    [d EXCEPT !.tx_count = @ + Cardinality(txs),
              !.pool = @ \ txs,
              !.pool_len = @ - Cardinality(d.pool \cap txs)]

(***************************************************************************)
(* Start, crash, restart                                                   *)
(***************************************************************************)
\* State::new for the blocks of the database.
NewState(d) ==
    [up |-> TRUE, is_enabled |-> TRUE, epoch |-> LastEpoch(d) + 1, round |-> 1,
     blockchain_height |-> LastBlock(d).height + 1, last_hash |-> LastBlock(d),
     locked_round |-> 0, locked_propose |-> None, proposes |-> NoFun, blocks |-> {},
     prevotes |-> {}, precommits |-> {}, our_prevotes |-> NoFun, our_precommits |-> NoFun,
     confirmed |-> NoFun, validators_rounds |-> NoFun, requests |-> NoFun,
     incomplete_block |-> None, peer_states |-> NoFun, tx_cache |-> {}, invalid_txs |-> {},
     queued |-> {}, jumps |-> {}, timers |-> {}, allow_expedited_propose |-> TRUE,
     io |-> <<>>, replay |-> {}, ask_next |-> FALSE, todo |-> <<>>]

\* Mutation of initialize: the saved messages are not handled.
initialize_without_cache(d) ==
    LET s == [NewState(d) EXCEPT !.round = d.consensus_round] IN
    [s EXCEPT !.timers = {"round"} \cup (IF is_leader(s) /\ s.round = 1
                                         THEN {"propose"} ELSE {})]

\* Mutation of initialize: the epoch of the skip is not recovered.
initialize_from_block(d) ==
    LET s == [NewState(d) EXCEPT !.round = d.consensus_round, !.epoch = LastBlock(d).epoch + 1] IN
    [s EXCEPT !.timers = {"round"} \cup (IF is_leader(s) /\ s.round = 1
                                         THEN {"propose"} ELSE {}),
              !.todo = d.cache]

\* NodeHandler::initialize: the saved round, the timers, then the saved
\* messages, which are handled before any event.
initialize(d) ==
    LET s == [NewState(d) EXCEPT !.round = d.consensus_round] IN
    [s EXCEPT !.timers = {"round"} \cup (IF is_leader(s) /\ s.round = 1
                                         THEN {"propose"} ELSE {}),
              !.todo = d.cache]

Down == [NewState(EmptyDb) EXCEPT !.up = FALSE]

Init ==
    /\ db = EmptyDb
    /\ state = initialize(EmptyDb)
    /\ net = {}
    /\ panicked = None
    /\ restarts = 0

InCommit == state.io # <<>> /\ Head(state.io).op \in {"merge", "count"}

Crash ==
    /\ state.up
    /\ restarts < MaxRestarts
    /\ InCommit => "crash_in_commit" \in Events
    /\ state' = Down
    /\ UNCHANGED <<db, net, panicked, restarts>>

Restart ==
    /\ ~ state.up
    /\ restarts < MaxRestarts
    /\ restarts' = restarts + 1
    /\ state' = initialize(db)
    /\ UNCHANGED <<db, net, panicked>>

(***************************************************************************)
(* The effects of a handler, one at a time                                 *)
(***************************************************************************)
\* Mutation of EnterEpoch: a skip counts as a block.
EnterEpochAsBlock(s, effect) ==
    LET s1 == new_height(s, effect.block, effect.block.epoch + 1)
    IN  [s1 EXCEPT
           !.tx_cache = @ \cap ValidTx[s1.blockchain_height],
           !.jumps = {},
           !.timers = {"round"} \cup (IF is_leader(s1) THEN {"propose"} ELSE {}),
           !.replay = @ \cup s.queued, !.queued = {},
           !.ask_next = @ \/ effect.next]

\* The end of commit(): the new epoch, the transactions the pool manager
\* drops (StandardPoolManager::remove_transactions), the timers, the queue.  A
\* caller that then asks for the next block does so after the queue (ask_next).
EnterEpoch(s, effect) ==
    LET b == effect.block
        s1 == IF b.skip THEN new_epoch(s, b.epoch + 1) ELSE new_height(s, b, b.epoch + 1)
    IN  [s1 EXCEPT
           !.tx_cache = @ \cap ValidTx[s1.blockchain_height],
           !.jumps = {},
           !.timers = {"round"} \cup (IF is_leader(s1) THEN {"propose"} ELSE {}),
           !.replay = @ \cup s.queued, !.queued = {},
           !.ask_next = @ \/ effect.next]

Busy == state.up /\ state.io # <<>>

RunEffect ==
    LET effect == Head(state.io)
        rest == [state EXCEPT !.io = Tail(@)]
    IN
    /\ Busy
    /\ UNCHANGED restarts
    /\ CASE effect.op = "save" \/ effect.op = "lock" ->
              /\ db' = [db EXCEPT !.cache = @ \o effect.msgs, !.consensus_round = effect.round]
              /\ state' = rest
              /\ UNCHANGED <<net, panicked>>
         [] effect.op = "send" ->
              /\ net' = net \cup {effect.msg}
              /\ state' = rest
              /\ UNCHANGED <<db, panicked>>
         [] effect.op = "clear" ->
              /\ db' = [db EXCEPT !.cache = <<>>]
              /\ state' = rest
              /\ UNCHANGED <<net, panicked>>
         [] effect.op = "merge" ->
              /\ db' = MergeBlock(db, effect.block, effect.proof)
              /\ state' = rest
              /\ UNCHANGED <<net, panicked>>
         [] effect.op = "count" ->
              /\ db' = update_transaction_count(db)
              /\ state' = rest
              /\ UNCHANGED <<net, panicked>>
         [] effect.op = "new_epoch" ->
              /\ effect.block.epoch < MaxEpoch
              /\ LET s == EnterEpoch(rest, effect)
                     rejected == db.pool \ ValidTx[s.blockchain_height]
                 IN  IF DebugAssertions /\ rejected \cap Committed(db) # {}
                     THEN /\ panicked' = "committed transaction rejected"
                          /\ state' = Down
                          /\ UNCHANGED <<db, net>>
                     ELSE /\ state' = s
                          /\ db' = reject_transactions(db, rejected)
                          /\ UNCHANGED <<net, panicked>>
         [] effect.op = "panic" ->
              /\ panicked' = effect.why
              /\ state' = Down
              /\ UNCHANGED <<db, net>>

\* A message of the queue, which is in the order of arrival, any order; after
\* the queue, what is left of the handler that committed a block; or a message of
\* the cache (after a restart).
Replay ==
    /\ state.up /\ state.io = <<>>
    /\ \/ \E m \in state.replay :
             state' = handle_consensus([state EXCEPT !.replay = @ \ {m}], m,
                                       db.pool, db.transactions)
       \/ /\ state.replay = {} /\ state.ask_next
          /\ state' \in request_next_block([state EXCEPT !.ask_next = FALSE])
       \/ /\ state.replay = {} /\ ~ state.ask_next /\ state.todo # <<>>
          /\ state' = handle_consensus([state EXCEPT !.todo = Tail(@)], Head(state.todo),
                                       db.pool, db.transactions)
    /\ UNCHANGED <<db, net, panicked, restarts>>

(***************************************************************************)
(* Events                                                                  *)
(***************************************************************************)
Idle ==
    /\ state.up /\ state.io = <<>>
    /\ state.replay = {} /\ ~ state.ask_next /\ state.todo = <<>>

\* The other validators are interchangeable as voters: a vote is sent by the
\* one with the lowest id first.
InTurn(m) ==
    m.type \in {"prevote", "precommit"} =>
        \A v \in Validators \ {Me} :
            v < m.validator /\ [m EXCEPT !.validator = v] \in EnvMessages
                => [m EXCEPT !.validator = v] \in net

\* Nobody can vote for a propose of this node before it is sent.
Possible(m) ==
    (m.type \in {"prevote", "precommit"} /\ m.propose.validator = Me) => m.propose \in net

\* Network messages: a new one of the environment, or one sent before.
Arrives(m) ==
    \/ m \in EnvMessages \ net /\ InTurn(m) /\ Possible(m)
    \/ m \in net /\ "repeat" \in Events

ReceiveConsensus(m) ==
    /\ Idle
    /\ m.type \in {"propose", "prevote", "precommit"}
    /\ Arrives(m)
    /\ net' = net \cup {m}
    /\ state' = handle_consensus(state, m, db.pool, db.transactions)
    /\ UNCHANGED <<db, panicked, restarts>>

ReceiveBlock(m) ==
    /\ Idle
    /\ m.type = "block"
    /\ Arrives(m)
    /\ net' = net \cup {m}
    /\ state' = handle_block(state, m, db.pool, db.transactions)
    /\ UNCHANGED <<db, panicked, restarts>>

ReceiveStatus(m) ==
    /\ Idle
    /\ m.type = "status"
    /\ Arrives(m)
    /\ net' = net \cup {m}
    /\ state' = handle_status(state, m, Cardinality(db.pool \cup state.tx_cache))
    /\ UNCHANGED <<db, panicked, restarts>>

\* maybe_add_propose_timeout, for a leader.
MaybeAddProposeTimeout(s, pool_len) ==
    IF /\ is_leader(s) /\ s.allow_expedited_propose
       /\ pool_len + Cardinality(s.tx_cache) >= ProposeThreshold
    THEN [s EXCEPT !.timers = @ \cup {"propose"}, !.allow_expedited_propose = FALSE]
    ELSE s

\* handle_tx: from a peer or from the API.
ReceiveTx(tx) ==
    LET valid == tx \in ValidTx[state.blockchain_height]
        d == IF valid /\ PersistImmediately THEN add_transaction_into_pool(db, {tx}) ELSE db
        s == CASE ~ valid -> [state EXCEPT !.invalid_txs = @ \cup {tx}]
               [] valid /\ ~ PersistImmediately -> [state EXCEPT !.tx_cache = @ \cup {tx}]
               [] OTHER -> state
    IN
    /\ Idle
    /\ tx \notin state.tx_cache \cup db.transactions
    /\ db' = d
    /\ state' = HandleStoredTx(MaybeAddProposeTimeout(s, d.pool_len), tx)
    /\ UNCHANGED <<net, panicked, restarts>>

RoundInBounds == state.round + SpareRounds * (MaxRestarts - restarts) < MaxRound

RoundTimeout ==
    /\ Idle
    /\ "round" \in state.timers
    /\ RoundInBounds
    /\ state' = handle_round_timeout(state)
    /\ UNCHANGED <<db, net, panicked, restarts>>

JumpToRound(r) ==
    /\ Idle
    /\ r \in state.jumps
    /\ state' = handle_new_round(state, r)
    /\ UNCHANGED <<db, net, panicked, restarts>>

\* The pool manager proposes the valid transactions it knows, in no particular
\* order (StandardPoolManager), or a skip when there are none (SkipEmptyBlocks).
ProposeTimeout ==
    LET valid == (db.pool \cup state.tx_cache) \cap ValidTx[state.blockchain_height]
        size == IF Cardinality(valid) < TxsBlockLimit THEN Cardinality(valid) ELSE TxsBlockLimit
    IN
    /\ Idle
    /\ "propose" \in state.timers
    /\ \E txs \in kSubset(size, valid) :
          state' = handle_propose_timeout(state, txs = {} /\ SkipEmptyBlocks, txs)
    /\ UNCHANGED <<db, net, panicked, restarts>>

\* handle_request_timeout: the request is sent to a peer that is left to ask, or
\* dropped when there is none (retry).  Answers are messages like all others, and
\* may not come.
RequestTimeout(data) ==
    /\ Idle /\ "retry" \in Events
    /\ data \in DOMAIN state.requests
    /\ \E s \in retry(state, data) :
          state' = IF /\ data \in DOMAIN s.requests /\ s.is_enabled
                      /\ data[1] = "ProposeTransactions" /\ data[2] \notin DOMAIN s.proposes
                   THEN panic(s, "no propose")
                   ELSE s
    /\ UNCHANGED <<db, net, panicked, restarts>>

\* Mutation of FlushPool: the cache is taken and its transactions are lost.
FlushPoolLosing ==
    /\ Idle /\ "flush" \in Events
    /\ state.tx_cache # {}
    /\ state' = [state EXCEPT !.tx_cache = {}]
    /\ UNCHANGED <<db, net, panicked, restarts>>

FlushPool ==
    /\ Idle /\ "flush" \in Events
    /\ state.tx_cache # {}
    /\ db' = add_transaction_into_pool(db, state.tx_cache)
    /\ state' = [state EXCEPT !.tx_cache = {}]
    /\ UNCHANGED <<net, panicked, restarts>>

\* ExternalMessage::Enable.
Enable ==
    /\ Idle /\ "pause" \in Events
    /\ state' \in IF state.is_enabled
                  THEN {[state EXCEPT !.is_enabled = FALSE]}
                  ELSE request_next_block([state EXCEPT !.is_enabled = TRUE])
    /\ UNCHANGED <<db, net, panicked, restarts>>

\* ExternalMessage::Shutdown: the cached transactions are saved.
Shutdown ==
    /\ Idle /\ "shutdown" \in Events
    /\ restarts < MaxRestarts
    /\ db' = add_transaction_into_pool(db, state.tx_cache)
    /\ state' = Down
    /\ UNCHANGED <<net, panicked, restarts>>

Next ==
    \/ RunEffect
    \/ Replay
    \/ \E m \in EnvMessages \cup net :
          ReceiveConsensus(m) \/ ReceiveBlock(m) \/ ReceiveStatus(m)
    \/ \E tx \in EnvTxs : ReceiveTx(tx)
    \/ RoundTimeout
    \/ \E r \in state.jumps : JumpToRound(r)
    \/ ProposeTimeout
    \/ \E data \in DOMAIN state.requests : RequestTimeout(data)
    \/ FlushPool
    \/ Enable
    \/ Shutdown
    \/ Crash
    \/ Restart

Spec == Init /\ [][Next]_vars

\* When RunEffect is enabled.
CanRunEffect ==
    Busy /\ (Head(state.io).op = "new_epoch" => Head(state.io).block.epoch < MaxEpoch)

CanReplay == state.up /\ state.io = <<>> /\ ~ Idle

\* Weak fairness, with the enabling conditions written out: the event loop goes
\* on while there is something to do, timers fire, and a process that has
\* stopped is started again.
FairSpec ==
    /\ Spec
    /\ []<>(~ CanRunEffect) \/ []<><<RunEffect>>_vars
    /\ []<>(~ CanReplay) \/ []<><<Replay>>_vars
    /\ []<>(~ (Idle /\ "propose" \in state.timers)) \/ []<><<ProposeTimeout>>_vars
    /\ []<>(~ (Idle /\ "round" \in state.timers /\ RoundInBounds))
          \/ []<><<RoundTimeout>>_vars
    /\ []<>(state.up \/ restarts = MaxRestarts) \/ []<><<Restart>>_vars

(***************************************************************************)
(* Properties                                                              *)
(***************************************************************************)
OurVotes == {m \in net : m.type \in {"prevote", "precommit"} /\ m.validator = Me}

\* Types of what is counted and compared, and the shape of the record of votes:
\* at most one vote of a validator for a propose and a round.
TypeOK ==
    /\ state.epoch \in 1 .. MaxEpoch + 1
    /\ state.round \in 1 .. MaxRound
    /\ state.locked_round \in 0 .. MaxRound
    /\ state.timers \subseteq {"round", "propose"}
    /\ \A p \in DOMAIN state.proposes : p.epoch = state.epoch
    /\ \A m, k \in state.prevotes :
          (m.round = k.round /\ m.propose = k.propose /\ m.validator = k.validator) => m = k
    /\ db.consensus_round \in 1 .. MaxRound
    /\ db.pool_len \in Nat /\ db.tx_count \in Nat
    /\ restarts \in 0 .. MaxRestarts

\* The node never panics: none of the assertions and expectations of the
\* handlers fails, in any order of the messages, timeouts, transactions and
\* crashes of the instance.
NoPanic == panicked = None

\* A node sends one prevote for a round of an epoch ("Our node should not ever
\* send two different prevotes within one round", add_prevote).
OnePrevotePerRound ==
    \A m, k \in OurVotes :
        (m.type = "prevote" /\ k.type = "prevote" /\ m.epoch = k.epoch /\ m.round = k.round)
            => m.propose = k.propose

\* A leader sends one propose for a round of an epoch (initialize: a node that
\* "has already proposed" does not propose again).
OneProposePerRound ==
    \A m, k \in net :
        (/\ m.type = "propose" /\ k.type = "propose" /\ m.validator = Me /\ k.validator = Me
         /\ m.epoch = k.epoch /\ m.round = k.round) => m = k

\* Every vote the node has broadcast in an epoch that it has not committed can
\* be recovered after a restart: it is in consensus_messages_cache.
VotesAreCached ==
    \A m \in OurVotes :
        m.epoch > LastEpoch(db) => InCommit \/ \E i \in DOMAIN db.cache : db.cache[i] = m

\* What lock() saves is enough to take the lock again after a restart: the
\* cache has the propose and a majority of prevotes of the locked round.
LockIsSaved ==
    (state.up /\ state.io = <<>> /\ state.todo = <<>> /\ state.locked_round > 0) =>
        /\ \E i \in DOMAIN db.cache : db.cache[i] = state.locked_propose
        /\ Cardinality({m.validator : m \in {k \in ToSet(db.cache) :
                /\ k.type = "prevote" /\ k.round = state.locked_round
                /\ k.propose = state.locked_propose}}) >= majority_count

\* The epoch, the height and the last block in memory agree with the database
\* when no handler is inside commit(): after blocks and skips of others, after a
\* commit within the replay of the queue of another one, and after a restart.
MemoryMatchesDb ==
    (state.up /\ state.io = <<>>) =>
        /\ state.epoch = LastEpoch(db) + 1
        /\ state.blockchain_height = Len(db.blocks)
        /\ state.last_hash = LastBlock(db)

\* The blocks are a chain: each is built on the previous one, in a later epoch,
\* and its stored precommits are accepted by validate_precommits (they are what
\* other nodes get in a BlockResponse).  So is the skip of the current epoch.
ChainIsValid ==
    /\ \A i \in 2 .. Len(db.blocks) :
          LET b == db.blocks[i] IN
          /\ b.prev = db.blocks[i - 1] /\ b.height = i - 1
          /\ b.epoch > db.blocks[i - 1].epoch
          /\ validate_precommits(db.proofs[b], b)
    /\ db.block_skip # None =>
          /\ db.block_skip.prev = LastBlock(db)
          /\ db.block_skip.epoch > LastBlock(db).epoch
          /\ validate_precommits(db.proofs[db.block_skip], db.block_skip)

\* Prevotes of a majority for a propose whose transactions are known lock the
\* node, whichever of the propose, the transactions and the prevotes is last.
MajorityLocks ==
    Idle => \A m \in state.prevotes :
        (/\ has_majority_prevotes(state, m.round, m.propose)
         /\ m.propose \in FullProposes(state)) => state.locked_round >= m.round

\* Precommits of a majority for a propose whose transactions are known commit
\* it at once, whichever of them is last.
MajorityCommits ==
    Idle => \A m \in state.precommits :
        has_majority_precommits(state, m.round, m.block) => m.propose \notin FullProposes(state)

\* What the node waits for: the proposes of the votes it has, the transactions of
\* its proposes, the transactions of the incomplete block.
Missing(s) ==
    {<<"Propose", m.propose>> : m \in {k \in s.prevotes \cup s.precommits :
                                           k.propose \notin DOMAIN s.proposes}}
    \cup {<<"ProposeTransactions", p>> : p \in DOMAIN s.proposes \ FullProposes(s)}
    \cup {<<"BlockTransactions">> : b \in {s.incomplete_block} \ {None}}

NotRequested(s) == Missing(s) \ DOMAIN s.requests

\* What the node begins to wait for is requested by the same handler, whichever
\* message it learns of it from, and the request stays as long as the node waits
\* (request, remove_request).  Only when the last peer that was known to have it
\* does not answer is a request given up (retry).
MissingIsRequested ==
    [][\A data \in NotRequested(state') \ NotRequested(state) :
          /\ Cardinality(known_nodes(state, data)) = 1
          /\ RequestTimeout(data)]_vars

\* The transactions of a valid propose that is complete stay available until
\* it is executed: they are not flushed, rejected or dropped on the way.
FullProposeHasTxs ==
    (state.up /\ state.io = <<>>) =>
        \A p \in FullProposes(state) :
            has_invalid_txs(state, p) \/ p.txs \subseteq state.tx_cache \cup db.transactions

\* The counter of the pool is the number of its transactions.
PoolCounter == db.pool_len = Cardinality(db.pool)

\* The pool holds "a set of uncommitted transactions hashes", and the counter
\* "the number of committed transactions" is right, outside of commit().
PoolIsUncommitted ==
    (state.up /\ state.io = <<>>) =>
        /\ db.pool \cap Committed(db) = {}
        /\ db.tx_count = Cardinality(Committed(db))

\* A validator that is a majority by itself commits every epoch: no order of
\* timeouts, transactions, flushes, shutdowns and crashes leaves it without a next
\* step.
Progress == <>(LastEpoch(db) = MaxEpoch)

\* A node that has no saved messages of its epoch "starts consensus process from
\* the first round" (initialize).
StartsInFirstRound ==
    [][(~ state.up /\ state'.up /\ db.cache = <<>>) => state'.round = 1]_vars

\* A node votes only in the epoch after the last one it has committed, whatever
\* is replayed from the cache or the queue.
VotesInCurrentEpoch ==
    [][\A m \in net' \ net :
          (m.type \in {"prevote", "precommit"} /\ m.validator = Me)
              => m.epoch = LastEpoch(db) + 1]_vars
=============================================================================
