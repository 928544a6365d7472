------------------------------ MODULE NodeState ------------------------------
(***************************************************************************)
(* The consensus part of `State` (exonum-node/src/state.rs): one record,   *)
(* and its methods as operators from records to records.                   *)
(*                                                                         *)
(* A hash is modelled by the value that is hashed: a propose is referred   *)
(* to by the message itself, a block by the block.                         *)
(***************************************************************************)
EXTENDS Integers, FiniteSets, Sequences

CONSTANTS
    N,     \* number of validators; their ids are 0 .. N - 1
    Me,    \* id of this node; an id outside 0 .. N - 1 is an auditor
    None   \* Option::None

ASSUME NAssumption == N \in Nat \ {0}

Validators == 0 .. N - 1

(***************************************************************************)
(* Messages and blocks                                                     *)
(***************************************************************************)
Propose(validator, epoch, round, prev, skip, txs) ==
    [type |-> "propose", validator |-> validator, epoch |-> epoch, round |-> round,
     prev |-> prev, skip |-> skip, txs |-> txs]

Prevote(validator, epoch, round, propose, locked_round) ==
    [type |-> "prevote", validator |-> validator, epoch |-> epoch, round |-> round,
     propose |-> propose, locked_round |-> locked_round]

Precommit(validator, epoch, round, propose, block) ==
    [type |-> "precommit", validator |-> validator, epoch |-> epoch, round |-> round,
     propose |-> propose, block |-> block]

BlockResponse(from, block, precommits) ==
    [type |-> "block", validator |-> from, block |-> block, precommits |-> precommits]

Status(from, epoch, height, pool) ==
    [type |-> "status", validator |-> from, epoch |-> epoch, height |-> height, pool |-> pool]

\* The genesis block: height 0, epoch 0.
Genesis == [height |-> 0, epoch |-> 0, proposer |-> 0, prev |-> None,
            skip |-> FALSE, txs |-> {}]

\* What is hashed into a block; the round is not part of it.
create_block_header(prev, proposer, epoch, txs) ==
    [height |-> prev.height + 1, epoch |-> epoch, proposer |-> proposer, prev |-> prev,
     skip |-> FALSE, txs |-> txs]

\* A skip has the height of the block it follows.
create_skip_patch(prev, proposer, epoch) ==
    [height |-> prev.height, epoch |-> epoch, proposer |-> proposer, prev |-> prev,
     skip |-> TRUE, txs |-> {}]

\* create_patch: the block that executing the contents on top of prev yields.
Block(prev, proposer, epoch, skip, txs) ==
    IF skip THEN create_skip_patch(prev, proposer, epoch)
            ELSE create_block_header(prev, proposer, epoch, txs)

(***************************************************************************)
(* Quorums and leaders                                                     *)
(***************************************************************************)
byzantine_quorum(n) == (n * 2) \div 3 + 1

majority_count == byzantine_quorum(N)

is_validator == Me \in Validators

leader(s, round) == (s.epoch + round) % N

is_leader(s) == is_validator /\ leader(s, s.round) = Me

(***************************************************************************)
(* Construction and the start of an epoch                                  *)
(***************************************************************************)
\* The fields that belong to one epoch.
EpochFields ==
    {"locked_round", "locked_propose", "proposes", "blocks", "prevotes", "precommits",
     "our_prevotes", "our_precommits", "confirmed", "validators_rounds", "requests",
     "incomplete_block"}

NoFun == [x \in {} |-> None]

FreshEpoch ==
    [locked_round |-> 0, locked_propose |-> None, proposes |-> NoFun, blocks |-> {},
     prevotes |-> {}, precommits |-> {}, our_prevotes |-> NoFun, our_precommits |-> NoFun,
     confirmed |-> NoFun, validators_rounds |-> NoFun, requests |-> NoFun,
     incomplete_block |-> None]

\* Mutation of new_epoch: the requests are kept.
new_epoch_keeping_requests(s, epoch) ==
    [f \in DOMAIN s |->
        CASE f \in EpochFields \ {"requests"} -> FreshEpoch[f]
          [] f = "epoch" -> epoch
          [] f = "round" -> 1
          [] OTHER -> s[f]]

\* new_epoch: only `queued`, the transactions and the peers survive.
new_epoch(s, epoch) ==
    [f \in DOMAIN s |->
        CASE f \in EpochFields -> FreshEpoch[f]
          [] f = "epoch" -> epoch
          [] f = "round" -> 1
          [] OTHER -> s[f]]

new_height(s, block, epoch) ==
    [new_epoch(s, epoch) EXCEPT !.blockchain_height = @ + 1, !.last_hash = block,
                                !.invalid_txs = {}]

(***************************************************************************)
(* Votes                                                                   *)
(***************************************************************************)
Put(f, key, value) == [k \in DOMAIN f \cup {key} |-> IF k = key THEN value ELSE f[k]]

Drop(f, key) == [k \in DOMAIN f \ {key} |-> f[k]]

\* Votes::insert: the first vote of a validator under a key stays.
InsertVote(votes, same_key, msg) ==
    IF \E m \in same_key : m.validator = msg.validator THEN votes ELSE votes \cup {msg}

PrevotesOf(s, round, propose) == {m \in s.prevotes : m.round = round /\ m.propose = propose}

PrecommitsOf(s, round, block) == {m \in s.precommits : m.round = round /\ m.block = block}

has_majority_prevotes(s, round, propose) ==
    Cardinality(PrevotesOf(s, round, propose)) >= majority_count

has_majority_precommits(s, round, block) ==
    Cardinality(PrecommitsOf(s, round, block)) >= majority_count

have_prevote(s, round) == round \in DOMAIN s.our_prevotes

\* The assertion of add_prevote: our own prevote of a round never changes.
ContradictsOurPrevote(s, msg) ==
    /\ is_validator /\ msg.validator = Me
    /\ have_prevote(s, msg.round)
    /\ s.our_prevotes[msg.round] # msg

add_prevote(s, msg) ==
    [s EXCEPT !.our_prevotes = IF is_validator /\ msg.validator = Me
                               THEN Put(@, msg.round, msg) ELSE @,
              !.prevotes = InsertVote(@, PrevotesOf(s, msg.round, msg.propose), msg)]

\* The check of add_precommit.
ContradictsOurPrecommit(s, msg) ==
    /\ is_validator /\ msg.validator = Me
    /\ msg.round \in DOMAIN s.our_precommits
    /\ s.our_precommits[msg.round].propose # msg.propose

add_precommit(s, msg) ==
    [s EXCEPT !.our_precommits = IF is_validator /\ msg.validator = Me
                                 THEN Put(@, msg.round, msg) ELSE @,
              !.precommits = InsertVote(@, PrecommitsOf(s, msg.round, msg.block), msg)]

\* Mutation of have_incompatible_prevotes: the current round is left out.
have_incompatible_prevotes_before(s) ==
    \E r \in DOMAIN s.our_prevotes :
        /\ s.locked_round < r /\ r < s.round
        /\ s.our_prevotes[r].propose # s.locked_propose

have_incompatible_prevotes(s) ==
    \E r \in DOMAIN s.our_prevotes :
        /\ s.locked_round < r /\ r <= s.round
        /\ s.our_prevotes[r].propose # s.locked_propose

(***************************************************************************)
(* Rounds of the other validators                                          *)
(***************************************************************************)
\* update_validator_round: the round to jump to, or 0.  At most
\* max_byzantine_count validators can lie about theirs.
UpdateValidatorRound(s, id, round) ==
    LET known == IF id \in DOMAIN s.validators_rounds THEN s.validators_rounds[id] ELSE 0
        rounds == Put(s.validators_rounds, id, round)
        max_byzantine_count == (N + 2) \div 3 - 1
        Above(r) == {v \in DOMAIN rounds : rounds[v] >= r}
        backed == {rounds[v] : v \in {w \in DOMAIN rounds :
                       Cardinality(Above(rounds[w])) > max_byzantine_count}}
        highest == CHOOSE r \in backed : \A q \in backed : q <= r
    IN  IF round <= known
        THEN [state |-> s, jump |-> 0]
        ELSE [state |-> [s EXCEPT !.validators_rounds = rounds],
              jump |-> IF backed # {} /\ highest > s.round THEN highest ELSE 0]

(***************************************************************************)
(* Proposes                                                                *)
(***************************************************************************)
has_unknown_txs(s, p) == s.proposes[p].unknown_txs # {}

has_invalid_txs(s, p) == ~ s.proposes[p].is_valid

\* add_self_propose, without the write to the cache (see Node).
add_self_propose(s, p) ==
    [s EXCEPT !.proposes = Put(@, p, [unknown_txs |-> {}, is_saved |-> TRUE, is_valid |-> TRUE])]

\* add_propose: `committed` are the stored transactions outside of the pool.  An
\* already committed transaction is an error.
AcceptsPropose(s, p, committed) ==
    /\ p \notin DOMAIN s.proposes
    /\ (p.txs \ s.tx_cache) \cap committed = {}

add_propose(s, p, pool) ==
    LET missing == p.txs \ (s.tx_cache \cup pool) IN
    [s EXCEPT !.proposes = Put(@, p, [unknown_txs |-> missing \ s.invalid_txs,
                                      is_saved |-> FALSE,
                                      is_valid |-> missing \cap s.invalid_txs = {}])]

\* check_incomplete_proposes: every propose learns of the transaction.
check_incomplete_proposes(s, tx) ==
    [s EXCEPT !.proposes =
        [p \in DOMAIN @ |->
            [@[p] EXCEPT !.unknown_txs = @ \ {tx},
                         !.is_valid = @ /\ ~ (tx \in s.proposes[p].unknown_txs
                                              /\ tx \in s.invalid_txs)]]]

FullProposes(s) == {p \in DOMAIN s.proposes : ~ has_unknown_txs(s, p)}

\* The panics of create_incomplete_block: there is another incomplete block, the
\* block has a committed transaction (stored, and not in the pool), or one that
\* is known as invalid.
RefusesBlock(s, b, pool, transactions) ==
    \/ s.incomplete_block # None
    \/ (b.txs \ s.tx_cache) \cap (transactions \ pool) # {}
    \/ (b.txs \ (s.tx_cache \cup transactions)) \cap s.invalid_txs # {}

\* create_incomplete_block: the transactions the block still waits for.
create_incomplete_block(s, msg, transactions) ==
    [s EXCEPT !.incomplete_block =
        [block |-> msg.block, precommits |-> msg.precommits,
         unknown_txs |-> msg.block.txs \ (s.tx_cache \cup transactions)]]

(***************************************************************************)
(* Peers and requests                                                      *)
(***************************************************************************)
\* RequestState: the peers that are still to be asked for the data.
known_nodes(s, data) == IF data \in DOMAIN s.requests THEN s.requests[data] ELSE {}

request(s, data, peers) ==
    [s EXCEPT !.requests = Put(@, data, known_nodes(s, data) \cup peers)]

remove_request(s, data) == [s EXCEPT !.requests = Drop(@, data)]

\* retry: what can be left of a request when one of its timers fires.  The first
\* timer names no peer; a later one names the peer that was asked.  A request
\* that has no peer left is dropped.
retry(s, data) ==
    LET known == known_nodes(s, data)
        Left(rest) == IF rest = {} THEN remove_request(s, data)
                      ELSE [s EXCEPT !.requests[data] = rest]
    IN  {Left(known)} \cup {Left(known \ {peer}) : peer \in known}

PeerState(s, peer) ==
    IF peer \in DOMAIN s.peer_states THEN s.peer_states[peer] ELSE [epoch |-> 0, height |-> 0]

update_peer_state(s, peer, new) ==
    LET current == PeerState(s, peer) IN
    IF current.epoch < new.epoch /\ current.height <= new.height
    THEN [s EXCEPT !.peer_states = Put(@, peer, new)]
    ELSE s

\* advanced_peers + AdvancedPeers::send_message: the requests for a next block,
\* with the peer, which is any of those that are ahead.
NextBlockRequests(s) ==
    LET P == DOMAIN s.peer_states
        higher == {q \in P : s.peer_states[q].height > s.blockchain_height}
        later == {q \in P : s.peer_states[q].epoch > s.epoch} \ higher
    IN  CASE higher # {} -> {<<<<"Block", s.blockchain_height>>, q>> : q \in higher}
          [] higher = {} /\ later # {} ->
                {<<<<"BlockOrEpoch", s.blockchain_height, s.epoch>>, q>> : q \in later}
          [] OTHER -> {}
=============================================================================
