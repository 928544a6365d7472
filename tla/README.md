# Verification of the Exonum node

TLA+ specifications of the Exonum blockchain framework, checked with TLC, and
proofs checked with TLAPS. This first part covers the consensus: the voting
rules of all validators, and the code of one node around them.

## The system

| Part | State | Operations | What makes it correct |
|---|---|---|---|
| Consensus (`exonum-node/src/consensus.rs`, `state.rs`) | epoch, round, lock, proposes, votes, queued messages | handlers of Propose, Prevote, Precommit; round, propose and request timeouts; jumps to a round | no two blocks in one epoch; every majority is acted on |
| Recovery (`schema.rs`, `lib.rs`) | `consensus_messages_cache`, `consensus_round` | save before sending, clear at a commit, replay at the start | a restarted node does not contradict its votes |
| Catching up (`handle_block`, `handle_status`, requests) | incomplete block, peer states, requests | BlockResponse, Status, transactions, retries | a valid chain; whatever is missing is asked for |
| Pool (`pool.rs`, `blockchain/schema.rs`) | volatile cache, persistent pool, counters | add, flush, reject, commit | no transaction is lost or kept after its commit |
| Block storage (`blockchain/mod.rs`) | blocks, block skip, precommits | the two merges of `commit` | the stored chain can be verified by others |
| Dispatcher (`runtime/dispatcher`) | artifacts, instances, migrations, their threads | deploy, unload, start, stop, freeze, resume, migrate | legal transitions only; equal outcome on all nodes |
| Services (supervisor, time, middleware, explorer) | proposals, confirmations, times | transactions and hooks | majority decisions; atomic batches |
| MerkleDB | indexes, forks, patches | fork, checkpoint, rollback, merge | isolation; proofs that verify |
| Networking, HTTP API, CLI, testkit, crypto, code generation | connections, configuration | I/O | |

A node is one event loop: network messages, transactions, timeouts and API
calls are handled one at a time. A handler writes the database in several
merges and sends messages between them. The database is all that survives a
crash. Consensus hands blocks to the dispatcher through the block storage, and
reads transactions from the pool.

The hard behaviours are messages in any order, late or repeated; votes of
several rounds at once; a crash between two merges, or between a merge and a
send; and epochs that advance without the height (block skips).
`PROJECT.json` lists the hazards with their lines.

## Modules

- `LockVoting`: the voting rules of an epoch for all validators. A step is one
  prevote, lock, precommit or commit. A validator may act on any vote that was
  sent, so delays and losses are interleavings. Byzantine validators vote at will.
- `LockVotingProofs`: its theorems.
- `NodeState`: `State` as a record, with its methods as operators. A hash is
  modelled by the value that is hashed.
- `NodeHandlers`: the handlers of `consensus.rs`. A handler changes the record
  and appends its merges and sends, in program order, to the field `io`.
- `Node`: the state machine. `RunEffect` performs one entry of `io` per step,
  so `Crash` can fall between any two; `Restart` is `initialize`; `Replay`
  handles cached and queued messages, and what the handler that committed does
  after its queue. The remaining actions are events.
- `NodeVoting`: the mapping under which `Node` implements `LockVoting`.
- `MCLockVoting`, `MCNode`: the instances.

An operator whose comment starts with "Mutation of" is a faulty variant of the
definition it names. No specification uses it: it serves to confirm that a
property fails when the code is wrong in that way.

## Runs

| Run | Instance | Shows |
|---|---|---|
| `lock_voting` | 4 validators, 1 Byzantine, 2 rounds, 2 proposes | `Agreement` and the parts of its argument |
| `node_voting` | validator 3 of 4, 2 rounds, no crash | the handlers follow `LockVoting`; majorities lock; no panic |
| `node_rounds` | 1 of 2, 2 rounds, 1 crash, repeated messages | sent votes are in the cache; majorities lock and commit, after a recovery too |
| `node_commit` | 1 of 2, 2 epochs of one round, 1 crash, flushes | one prevote per round, the lock is saved, complete proposes keep their transactions |
| `node_catch_up` | lagging validator 1 of 4, 2 blocks and a skip as responses, the skip also as queued messages of the next epoch, pauses | no panic, memory matches the database, the chain is valid; a commit that replays its queue may commit again |
| `node_auditor` | auditor of 4 validators, request timers, answers that do not come | majorities commit, missing data is requested while there is a peer to ask, a late timer does no harm |
| `node_single` | 1 validator, 3 epochs, 1 restart, skips, an expiring transaction | pool and counters, memory matches the database after the restart, votes only in the current epoch, `Progress` |

Two rounds are the least in which votes of different rounds conflict. Four
validators are the least with a faulty one. One restart is enough to meet
stale data. A bound (`MaxEpoch`, `MaxRound`, `MaxRestarts`, `SpareRounds`) is a
guard in `Node`; `SpareRounds` keeps rounds for after a restart, because a node
that restarts outside round 1 proposes only after the next round timeout. In
`node_auditor` validator 1 does not vote, so that the votes are just a majority,
and request timers fire in this run only.
Deadlock is not checked, since every instance stops at its bounds.

### Disagreements between the code and its comments

Each of these runs ends in a violation of one property.

| Run | What happens |
|---|---|
| `late_propose_prevotes` | A late propose of round 1 is prevoted after round 2 was, and the saved round goes back to 1. After a restart the node locks in round 1 and prevotes for its lock in round 2, where it had prevoted for its own propose. |
| `crash_after_clear` | A crash after the cache is cleared and before the block is stored loses the votes. |
| `lock_in_later_round` | The prevotes saved with a lock are those of `prevote_round`, not of the locked round. |
| `invalid_tx_outside_block` | An invalid transaction outside the incomplete block causes a panic; the comment says that it is ignored. |
| `propose_before_save` | A propose is sent before it is saved; after a crash there is a second one. |

### Further observations

More was found for which no run is kept. The first three are reproduced
by the constants given here, over those of `MCNodeVoting.cfg`.

- The saved round outlives its epoch: a restart after a commit starts in the
  round of the previous epoch, while `initialize` is documented to start "from
  the first round". `StartsInFirstRound` with `N = 2`, `Me = 1`,
  `RestartMessages`, `MaxEpoch = 2`, `MaxRestarts = 1`.
- The debug assertion "Attempt to add another propose confirmed by majority"
  fails when a missing propose is precommitted in two rounds. `NoPanic` with
  `DebugAssertions = TRUE` and `MissedMessages`.
- A crash between the two merges of a commit, which a TODO in
  `blockchain/mod.rs` calls non-atomic, leaves committed transactions in the
  pool. `PoolIsUncommitted` with `N = 1`, `Me = 0`, no messages,
  `EnvTxs = {t1}`, `PersistImmediately = TRUE`, `Events = {"crash_in_commit"}`,
  `MaxEpoch = 2`, `MaxRound = 1`, `MaxRestarts = 1`.
- A request that no peer has answered is dropped (`State::retry`). A vote that is
  received again makes the request for a propose again. For the transactions of
  an incomplete block nothing does: `validate_block_response` refuses blocks
  while there is an incomplete one, so the node waits until the transactions
  come unasked. `MissingIsRequested` therefore says that a request for missing
  data is lost in this way only, and not that there always is one.

The passing runs stay clear of the violations by their bounds: crashes inside
`commit()` happen only with the event `crash_in_commit`, so `PoolIsUncommitted`
and `VotesAreCached` say nothing of its two merges in the passing runs;
`node_commit`, which checks `OnePrevotePerRound` and `LockIsSaved`, has one
round per epoch; and `node_rounds` does not check those two.

## Fairness

`Progress` assumes `FairSpec`: the event loop goes on while there is something
to do, timers fire (they are messages to the node itself, which are not lost),
and a stopped process is started again. Fairness is written with explicit
enabling conditions, which are the guards of the actions. Nothing is assumed of
other nodes: the run has a single validator.

## Proofs

`LockVotingProofs` proves, for every finite set of validators of which fewer
than a third are Byzantine, every set of proposes and every number of rounds:

- `TypeCorrect`: the types of the variables;
- `VotingDiscipline`: one prevote per round; a precommit is backed by a majority
  of prevotes and its sender does not go back behind it; after a precommit for
  `p`, a prevote for something else follows only a later majority against `p`;
- `AgreementHolds`: honest validators do not commit different proposes.

The argument: two majorities share an honest validator (`MajoritiesMeet`).
`Agreement` is not inductive. The invariant `IInv` adds that prevotes are of
entered rounds, that a lock has a majority of prevotes (`LockHasMajority`), that
a precommit keeps its lock (`PrecommitKeepsLock`), that it is given up only for
a later majority (`PrecommitHeld`), and that a commit had a majority of
precommits (`CommitHasMajority`). The central conjunct is `OverriddenIsBarred`:
once a later round has a majority of prevotes against `p`, every majority has an
honest member that will never precommit `p` in the earlier round. So a majority
for `p` and a later one against it exclude each other, and the commits agree.
`Invariance` proves `IInv` with one lemma per action.

The proofs concern the voting rules. That the handlers follow them is
model-checked (`node_voting`) for the first epoch and without crashes: the
violations above show that a crash can break the rules.

## Only model-checked, and not modelled

Model-checked only: everything about `Node`, including the refinement. Liveness
is out of the prover's reach.

Left out of `Node`: changes of the validator set, signatures, status
broadcasts, connections to peers, plugins, and the removal limit of the pool
manager. A request keeps its `known_nodes`; which of them is asked first, and
when its timer fires, is open. Proposes of equal round that become complete together are taken in a
fixed order. Other validators vote for a propose of this node only after it was
sent, and in ascending order of their ids, since they are interchangeable.

## Plan

1. Dispatcher: artifacts, instances and migrations with their threads and
   restarts; an abstract lifecycle that it implements.
2. Supervisor on top of it: deploy requests, confirmations, configuration
   changes.
3. Requests and peers, and two nodes composed over the network; the event
   channels.
4. MerkleDB forks and migrations; execution context rollback; time and
   middleware services; round times and other pure functions.
5. Proofs: type correctness and the recovery invariants of `Node`, lemmas about
   `NodeState`, the legal transitions of the dispatcher.
