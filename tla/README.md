# A verification of KVRaft

KVRaft is a distributed key-value store: a Raft implementation and an LSM-tree
storage engine in Rust (`src/src/`), a Go HTTP gateway (`src/api/`) and an MCP
server (`src/kvraft-copilot/`). This directory holds TLA+ models of its core, the
TLC configurations that check them, and proofs checked by TLAPS. `PROJECT.json`
lists the runs, what each definition models, the hazards and the findings.

## The system

| Part | State | Operations that change it |
| --- | --- | --- |
| Raft node (`raft/node.rs`, `election.rs`, `replication.rs`, `message.rs`) | term, vote, log, commit index, last applied, role, votes, leader, peers, progress maps, pending requests | `handle_message` (votes, appends and their responses, client commands, membership, timeout), `tick`, `handle_store_request`, `restart` |
| Raft persistence (`raft/log_store.rs`, `node.rs`) | `raft_log.bin`, `raft_meta.bin` | `append`, `truncate_from`, `save`, and `new_in_dir` at start |
| Storage engine (`database/`, `lsm/`) | WAL, MemTable, leveled SSTables, table ids, five locks | `insert`, `delete`, `get`, flush, compaction, `open_in_dir` |
| Runtime (`runtime/runtime.rs`) | one task that owns the node | `select!` over messages, API requests and a 50 ms tick; `flush_outbox` after each |
| Network (`raft/network.rs`) | peer registry, one sender per connected peer | accept, connect, reader and writer tasks, peer changes |
| Service and gRPC listeners (`runtime/service.rs`, `grpc_service.rs`) | one-shot response channels, `ClusterManager` | one request at a time per connection |
| Go gateway (`api/main.go`) | node registry, membership mutex | `executeRust` tries nodes in turn; add and remove node |
| Simulator (`runtime/simulator.rs`, `fault.rs`) | clock, event queue, crashed and paused nodes, links and their policies, scheduled faults | a test's calls: faults now or later, `deliver_next`, `advance_time`, `run_until_idle`, `run_chaos_test` |
| Programs, Copilot | none of their own | I/O |

How they interact: the gateway takes an HTTP request from node to node until one
answers with success. On a node it enters through a listener, becomes a `ServiceRequest`,
and is handled by the runtime task. A write is appended to the leader's log,
replicated over the network, committed by a majority, applied to each node's
database, and answered. A membership change is a log entry too; applying it changes
the node's peers and tells the network. All of a node's handlers run in one task,
so they never overlap; nodes interleave freely. The database is called by that one
task in a cluster, and by several threads in the stand-alone tests and benchmarks.

What is hard here: votes and appends that are lost, repeated, late or reordered;
leaders that return; commits of entries from earlier terms; membership that changes
while it is being changed; a crash between two disk writes; flush and compaction
racing writers and readers; a gateway that gives up on a node whose answer is still to
come; faults of the simulator that meet each other. The hazards, each at its line, are in `PROJECT.json`.

## Modules

| Module | Models |
| --- | --- |
| `Raft` | the nodes of a cluster and their messages |
| `RaftSafety` | `Raft` with a fixed cluster and the inductive invariants of its safety properties |
| `RaftMembership` | `Raft` with membership changes; what ties peers, applied entries and progress together |
| `ApiGateway` | the gateway's handlers and the nodes' listeners, composed with `RaftMembership` |
| `RaftStorage` | one node, its two files and its start-up |
| `Database` | the storage engine with threads and crashes |
| `KVStore` | abstract specification: what the storage engine promises |
| `Network` | the connections between nodes and the tasks that make, use and drop them |
| `Simulator` | the fault simulator |
| `MCRaft`, `MCMembership`, `MCApiGateway`, `MCRaftStorage`, `MCDatabase`, `MCSimulator` | instances for TLC |
| `RaftProofs` | theorems: types, a `next_index` for every peer, the gateway; lemmas: votes, logs of commands only |
| `RaftCells` | lemmas: pieces and cells of logs, majorities, the shapes of a step |
| `RaftLogProofs`, `RaftOrderProofs`, `RaftCommitProofs` | lemmas: every step keeps the invariants of logs and progress, of the order of entries, of commitment and answers |
| `RaftTheorems` | theorems: elections, and the safety properties that rest on logs |
| `RaftStorageProofs`, `SimulatorProofs` | theorems about `RaftStorage` and `Simulator` |

**Raft.** A variable per field of `RaftNode`, as a function of the node. An action
is one call of a handler by the runtime loop with the `flush_outbox` that follows.
The network is a set of messages that only grows, and a handler may be called with
any of them at any time, so loss, duplication, delay and reordering are all there.
A connection that is down (`Links`) drops what is sent on it, as
`NetworkTransport::send` does. The sentinel at index 0 is implicit. Time is
abstracted: an election deadline or heartbeat may be due at any moment. A failing
`expect` or `assert` puts the node in `panicked` and stops it. `Restart` is
`RaftNode::restart`, which keeps term, vote, log, commit index and database;
starting from files is in `RaftStorage`. Reads and status queries change nothing
and are left to `ApiGateway`. What the simulator's `check_invariants` compares on a
cluster is stated by `ElectionSafety`, `LogMatching` and `StateMachineSafety`.

**ApiGateway.** An HTTP request is a call with a goroutine of its own. What it asks for
(`op`) is chosen at the start and stays. `HandleKV` and `HandleRemoveNode` begin it;
`HandleAddNode` takes the mutex and then waits in `ReadBody` for the body, which its
client may never send. `CallRust` asks the next node, `HandleAnswer` takes its
answer and either finishes or goes on, `ConnectionLost` and `Deadline` give up on it,
`Return` is the end of `executeRust`. `conn[c][i]` is the connection of a call to a node:
sent to the listener, submitted to Raft, or answered. A connection that the gateway has
given up stays there, because the node handles its request all the same:
`HandleServiceRequest` is the runtime loop's side, and calls the actions of `Raft`. A
write submitted to the leader is answered when Raft answers it; a read at once, from
the node's own database; a membership change at once, as "submitted". The candidates of
`executeRust` are the untried nodes of the snapshot, with the leader hint first and then
in order of id (node 1 is put first, and ids are positive). Addresses and ids are one
thing here: an address that two ids share is not modelled.

**Simulator.** A variable per field of `Simulation`. The simulator is one thread that a
test calls; a call that loops is a list of `work` (flush a node, trigger the due
faults, take an event, deliver it, tick a node), so that TLC explores every order in
which its parts can meet. `sent`, `handled`, `granted` and `lossy` are history: which messages there are and what the faults were allowed to do to them. A node
is a black box that, when called, sends to any of its peers in any order; what real
nodes send is in `Raft`. Random numbers of the chaos test are choices. Time is in whole
milliseconds. Faults that may lose any number of messages (crash, restart, blocked
links) set `lossy`; without them `CopiesAccounted` is an equation.

**RaftStorage.** The handlers that write to disk, taken apart at their writes, with
a crash between any two. The rest of the cluster is an environment: any vote
request, and the AppendEntries that the leaders of `LeaderLog` may send. The
sentinel is explicit here, because the file does not have it. The node only votes
and follows. A crash kills the process; writes that returned are on disk, and an
append may be cut short (`Torn`), which `RaftLogStore::open` repairs. `Start` is
`new_in_dir`, with the peers rebuilt from the entries it takes for committed ones
(`RecoveredPeers`); `Apply` changes them as entries are applied. On disk 0 stands
for "no vote", so ids start at 1 (`IdsFromOne`), as the comment in `save` demands.

**Database.** A step is what a thread does while it holds a lock, or one write to
disk. `wal` and `files` survive a crash, everything else is rebuilt by `Open`. An
incomplete record or file is `Torn`: its header is not final, and `SSTable::open`
refuses it. A `get` asks a table's Bloom filter before its index; which bits a key
selects is a constant (`BloomBits`), and `NestedBits` makes one key's bits a subset of
the other's, so that false positives happen. A compaction reads its inputs
sequentially, without filter and index. The choice of a merge between inputs of equal
priority is nondeterministic, as `BinaryHeap` leaves it open. A `get` that finds its
key in the MemTable is a single read under a lock; it changes nothing and is left
out. `view` and `seen` are history: they record what `get` would return and what a
running `get` could have seen.

**KVStore.** A map from keys to values. A write takes effect at one moment between
its call and its return; a restart keeps every write that took effect and may or
may not keep those under way. `Database` implements it with `kv <- view`
(`StoreSpec`).

**Network.** Two maps per node, the peer registry and `active_senders`, and the tasks
that share them: the acceptor, the reconnect loop, the task for peer changes, and a
reader and a writer for each connection. A step is what a task does between two
awaits or, where it takes a lock twice, under one lock: an outgoing connection writes its
id (`HandleOutgoingConnection`), looks at the senders under the read lock (`LookAgain`)
and inserts its own under the write lock (`Register`). A TCP connection is a name with two ends; it may break, be refused, or carry a
message its reader rejects. What is sent over it is left to `Raft`, whose network
assumes no more than what is left here. Names of connections are reused once both ends
have closed, so that connecting can go on forever with finitely many names. In the programs nobody
hands `peer_changes_sender` to a node, so peer changes never happen there; the model
has them as `handle_peer_changes` is written.

## Runs

Passing:

| Run | Configuration | Properties | Instance |
| --- | --- | --- | --- |
| elections | `RaftElections` | TypeOK, ElectionInv, ElectionSafety, LeaderHintAgreement, AcknowledgedWriteDurable, LeaderCompleteness, LeaderAppendOnly | 3 nodes, campaigns of s1 and s2 in term 1 and of s2 in term 2, s2 may restart, one client write |
| returning_leader | `RaftReturningLeader` | LogMatching, StateMachineSafety, AppliedInLog, MatchIndexTruthful, NoPanic | 3 nodes that start with logs diverged in terms 1 and 2; leaders in terms 3 and 4 |
| gateway | `GatewayMembership` | OkMeansApplied, CheckedUntilDone, PeersFollowEntries, ProgressForPeers, AskedOnce, CallsAnswered | 2 nodes that lead one after the other; one call that writes or removes s2, one that reads, adds or removes s2; the connection of the first to s1 may fail |
| store_crash | `DatabaseCrash` | TypeOK, TablesOnDisk, StoreSpec | 1 writer, 2 keys, 3 levels that always count as full, 4 writes, any number of crashes |
| store_concurrent | `DatabaseConcurrent` | PrioritiesOrdered, GetIsLinearizable, StoreSpec, CallsReturn | 2 writers and a reader, 5 writes, no crash |
| disk_votes | `StorageVotes` | TypeOK, OneVotePerTerm, VoteNeverForgotten | 2 terms, 2 restarts |
| network | `NetworkReconnect` | TypeOK, SenderHasReader, Reconnects, StaysConnected, NoLeak | 2 nodes, 3 connections at a time, one failure, one peer change |
| simulator | `Simulator` | TypeOK, CopiesAccounted, FaultsOnTime, IdleIsQuiet, ChaosConverges, RunReturns | 2 nodes, 2 messages, 3 faults at once or 2 of which any may be scheduled or come from the chaos test |

Runs that show a disagreement between the code and what its comments, assertions or
README say (each has a finding in `PROJECT.json`):

| Run | Property violated | What happens |
| --- | --- | --- |
| removed_peer | NoPanic | a late refusal from a removed peer ends the leader's process |
| membership_election | ElectionSafety | two removals in flight, two leaders in one term |
| store_torn_table | CanReopen | a crash while a table is written keeps the database from opening |
| disk_sync | DiskInSync | the log file has no sentinel: a restarted node's indices are off by one, and a conflict is cut at different entries in memory and on disk |

A fifth is not a run of its own: `RaftStorage!AppliedUpToLastApplied`, after the comment
in `update_commit_index` that a crash "will replay from the correct position on
restart", is violated when it takes the place of `DiskInSync` in `StorageSync.cfg`. The
commit index is saved before the entries are applied, and a start takes `last_applied`
from it, so entries committed but not applied at the crash are skipped.

A sixth comes from the missing sentinel too: `RaftStorage!PeersRebuilt`, after the comment
"Reconstruct the peer list from committed log entries" in `new_in_dir`, is violated in
the same place. The loop skips the entry at index 0, which is the first committed entry
when the file has any: a node whose file begins with a committed removal keeps the
removed peer after a restart.

`Raft` and `RaftMembership` do not start nodes from their files, so none of this is in
them: `PeersFollowEntries` is about the peers of a process that has been running since
the bootstrap, which are what the last entry it applied for each node says.

Crashes and concurrent writers are checked separately. Together (two writers,
`Crashes = TRUE`) `StoreSpec` does not hold: two writers may log in one order and
enter the MemTable in the other, and a flush may truncate a record whose entry is
not in the MemTable yet. In a cluster node only the runtime task calls the database,
so this takes a program that shares one `Database` between threads.

**Bounds.** `Campaign` names the elections that may start, `MaxLogLen` the longest
log a leader appends to, `Restartable` who may restart, `Links` which connections
are up. They are chosen so that the interesting case happens: two candidates in one
term; a leader replaced after it replicated, or failed to; a leader that returns
with an entry of an old term. `DivergedInit` starts two elections into such a run;
the messages of those elections count as lost. The runs elections and
returning_leader drop the connection from s2 to s1 to stay small. Whether the bounds
reach the cases that matter is tested by mutants: for each property a plausible bug
in a definition of the model makes TLC find a violation. `MaxWrites`, `MaxTerm`,
`MaxIndex`, `MaxStarts`, `MaxFailures` and `MaxChanges` bound the other models; with
two failures `NetworkReconnect` passes as well (906,560 states). Three connections are
an old one, its replacement and one being dialed.

`GatewayMembership` has two nodes, so that a majority is both and a removal leaves one;
`OneOrTheOther` keeps the second election to the calls it matters to, a single write.
`Unreliable` names the one connection that fails by itself; deadlines pass anywhere. In
`Simulator`, `ThreeAtOnce` lets three faults be applied at once by a script, and of two
any may be scheduled or come from the chaos test; `ChaosFirst` starts the chaos test
before the first message, after at most one fault (a pause, which the chaos test does
not inject); `FlushBeforeThird` has `flush_all_outboxes` called where a third fault can
still meet the messages. `MaxMessages` and `MaxTime` bound what nodes send and the
times a test names.

Deadlock checking is off where the
bounds end the run, or where the system may stop (a torn table).

**Fairness.** `CallsReturn` assumes weak fairness of each thread's step inside a call,
which the operating system's scheduler gives. Starting a call is not fair. A thread
that waits for a lock is disabled; as the number of calls is bounded, no waiter is
overtaken forever, which the locks themselves do not promise.

`Reconnects`, `StaysConnected` and `NoLeak` assume weak fairness of the acceptor, of the reconnect loop,
of an outgoing connection's handshake, and of a writer or reader that can end: the
executor runs every task that is ready and the 500 ms timer fires. It includes that
both ends of a broken connection find out, which the code leaves to TCP (it sets no
keepalive). A writer's failing write and all failures are not fair. `Reconnects` says
that each of two nodes has a sender for the other again and again, not that they keep it
or have it at the same time: without timing, the reader of an old connection at the
acceptor can always remove the sender of the next before the dialer has registered it.
`StaysConnected` adds the timing the code relies on, the 500 ms between two rounds of the
reconnect loop: if from some time on the acceptors have taken what was dialed, and the
readers and writers that can end have ended, whenever the loop looks again (`Settled`),
the two stay connected by one and the same connection.

`CallsAnswered` assumes weak fairness of each call's own steps: goroutines run, and the
deadline of five seconds passes, in `ctx.Err()` as in the connection. Nothing is assumed
of the nodes, which may never answer, nor of a client whose body `handleAddNode` reads
(`ReadBody` is not fair): it reads it under the membership mutex, the server sets no
`ReadTimeout`, and the five seconds begin only afterwards. So a membership change is
answered only if no client keeps a handler waiting there for ever (`BodyComes`), and TLC
refutes the property without that premise. Reads and writes do not take the mutex and are
answered in any case; the body of a PUT is read by its own goroutine, before `HandleKV`.

`RunReturns` assumes that the one thread of the simulator goes on with the call under
way. The nodes send finitely many messages (`MaxMessages`), as a real cluster does
between two ticks; the limit of 10000 steps is not reached then.

## Proofs

Proved by TLAPS, for every value of the constants that satisfies the named assumptions:
clusters of any size, any connections, any elections and restarts, logs of any length.
The assumptions are those of `Raft` (a finite set of nodes, members and gateways among
them, well-formed payloads); for theorems about `MembershipSpec` also `ReconfigType`, for
those about `GatewaySpec` `OperationType`; for those about a fixed cluster, through `ElectionInvariant`,
`FixedMembership` (all nodes are members, and `Spec` submits no membership change).
`RaftProofs` extends the modules of all of these, and a proof uses only the assumptions it
cites: the theorems about `MembershipSpec` and `GatewaySpec` do not cite
`FixedMembership`. For the simulator they are `BoundType` and `FaultType` (a fault names
a node or a link of the simulation).

| Theorem | States | For |
| --- | --- | --- |
| `RaftProofs!TypeCorrect`, `MembershipTypeCorrect` | `[](TypeOK /\ CommitInLog)` | `Spec`, `MembershipSpec` |
| `RaftProofs!PeersAlwaysTracked` | `[]ProgressForPeers` | `MembershipSpec` |
| `RaftProofs!ChecksStayTrue`, `NeverAskedTwice` | `[]CheckedUntilDone`, `AskedOnce` | `GatewaySpec` |
| `RaftTheorems!ElectionInvariant`, `ElectionSafetyHolds` | `[]ElectionInv`, `[]ElectionSafety` | fixed cluster |
| `RaftTheorems!LogMatchingHolds`, `LeadersAppendOnly`, `HintsAgree` | `[]LogMatching`, `LeaderAppendOnly`, `[]LeaderHintAgreement` | fixed cluster |
| `RaftTheorems!MatchIndexHolds`, `NeverPanics` | `[]MatchIndexTruthful`, `[]NoPanic` | fixed cluster |
| `RaftTheorems!CommitInvariant` | `[]CommitInv` | fixed cluster |
| `RaftTheorems!AppliedStaysInLog`, `StateMachinesAgree`, `LeadersComplete` | `[]AppliedInLog`, `[]StateMachineSafety`, `[]LeaderCompleteness` | fixed cluster |
| `RaftTheorems!WritesDurable` | `[]AcknowledgedWriteDurable` | fixed cluster |
| `RaftStorageProofs!VotesOncePerTerm`, `VoteStays` | `[]OneVotePerTerm`, `VoteNeverForgotten` | `RaftStorage` |
| `SimulatorProofs!FaultsAlwaysOnTime`, `IdleAlwaysQuiet`, `ChaosAlwaysConverges` | `[]FaultsOnTime`, `[]IdleIsQuiet`, `[]ChaosConverges` | `Simulator` |

### The argument for a fixed cluster

Each invariant below is inductive together with those before it.

1. **Types.** Types alone are not inductive: applying entries reads `log[commit_index]`,
   so `CommitInLog` is proved with them.
2. **`ElectionInv`.** Only commands are in logs, so peer sets never change; a candidate
   voted for itself; a vote on the network is remembered by its voter until it leaves the
   term; a node votes once per term; counted votes were sent for this term; a leader has a
   majority. Two majorities of one finite set intersect, and the common voter voted once.
3. **`LogInv`.** A log and an AppendEntries are both *pieces*: entries after a previous
   index and term. A *cell* is an entry with its index and the term before it. Log
   Matching is not inductive over logs alone, since an old message may put anything into a
   log; over the cells of all pieces it is (`CellsUnique`), with "the term of every cell
   had a leader" and "a leader has every cell of its own term", so that no second cell of
   its term and index arises. That two logs agree below a common cell follows by descent
   along `before`. `LeaderAppendOnly` follows as well: the sender of every AppendEntries
   was elected in its term, so one of a leader's own term would come from a second leader.
4. **`ProgressInv`.** `match_index` is what a success of this term said, such a success
   tells of the leader's own log, and a leader's AppendEntries are pieces of its log as
   long as it leads. `next_index` stays in the log or just behind it, so
   `make_append_entries` never dies.
5. **`OrderInv`.** Terms do not go down along a log, the entries of a term have no gap,
   and vote requests tell the log that the candidate keeps while it campaigns. The key is
   `CellsOrdered`: an entry of a later term comes after an entry of an earlier one, unless
   a leader elected in between was behind it (`Overruled`).
6. **`CommitInv`.** What a node acknowledged in the entry's term stays in its log until it
   is overruled; a candidate's log covers what a majority of its voters acknowledged. An
   entry that a majority acknowledged in its own term is never overruled: the first leader
   that would have done so had a voter among them. This is where `update_commit_index`'s
   test that the entry is of the current term is needed. Commit indices, applied entries
   and `leader_commit` rest on such entries.
7. **`ClientInv`.** A pending write is at its index wherever its term is, and a write
   answered with success was applied.

Each handler is first reduced to one of a few shapes (a log stays, grows by an entry of
the leader's term, or is merged with a message), and each conjunct is proved for the
shapes. `RaftCells!Base` collects what every lemma needs, among it two facts about
numbers and majorities (`Descent`, `Quorums`); `RaftTheorems` proves them from the
libraries, so nothing is assumed. `ElectionInv` is an invariant of the run elections; the
later ones, whose evaluation is too slow for an exhaustive run, were first checked by TLC
in simulation of the two Raft instances (about three million states, to a depth of 120).

`AcknowledgedWriteDurable` speaks of leaders that no node is ahead of. Of leaders whose
term is not below the answer's it would be false, which the attempt to prove it showed:
`Message::Timeout` makes a leader campaign again without answering its pending writes, so
the leader of term 2 may lead again in term 4 and only then commit an entry of term 2 and
answer it with that term, while a leader of term 3 that lacks it has not heard of term 4.

### The other arguments

- `ProgressForPeers`: with membership changes, `become_leader` fills `next_index` for the
  peers of the moment, and `apply_committed_entries` inserts one with each peer that it
  adds, whatever else the same call adds and removes; a refusal steps back to 1 at least.
- `GatewayInv`: a membership call between its lock and its answer holds the mutex, so no
  other call changes the registry after its check; a node that was not tried yet has no connection of the
  call. TLC checks it on the instance of the run gateway.
- `VoteInv` of `RaftStorageProofs`: every vote given is of the term on disk and then for
  the candidate on disk, or of an earlier term; memory and disk agree in a running node.
- `GuardInv` (faults on time): every delivery or tick anywhere in the simulator's work has
  a round of `trigger_due_faults` before it, unless no fault is due.
- `QuietInv` (idle is quiet): while `run_until_idle` runs, every node with messages to
  send is paused or has a flush in the work; taking an event is the last piece of work, so
  that `deliver_next` returns false only with nothing left to do; deferred events belong to
  paused nodes.
- `ChaosInv` (chaos converges): while nothing was ever scheduled, after
  `heal_all_partitions` no link is blocked, and every node that is down or paused still has
  its restart or resume in the work. TLC checks it and `QuietInv` on the instance of the
  run simulator.

### Only model-checked

- Liveness under fairness (`CallsAnswered`, `CallsReturn`, `Reconnects`, `StaysConnected`,
  `NoLeak`, `RunReturns`) is out of the prover's reach, as are `ENABLED` and induction over
  recursive data.
- `OkMeansApplied` and `PeersFollowEntries` are stated with membership changes, where a
  committed entry may be lost: the run membership_election shows two leaders in a term. They
  hold on the instance of the run gateway and have no proof for any number of changes.
- `TypeOK` of `RaftStorage` relates commit index and log, and rests on leaders never
  contradicting committed entries, which is a property of the cluster and an input there.
- `CopiesAccounted` sums over sets of messages with `FoldSet`; the sum needs induction.
  `TypeOK` of `Simulator` is not proved as a whole.
- Everything about `Database`, with the refinement of `KVStore`, and about `Network`.

## Not modelled

I/O errors, power loss (a torn first field, lost unsynced writes), byte layouts, the
binary search and checksums, wall-clock time, peers that connect and stay silent,
message sizes. Of the gateway and the listener: validation of requests, metrics, health
and diagnosis endpoints (they report and change nothing), and `ClusterManager`, which is
written and never read. The programs in `bin/` parse arguments and start the parts
above; the Copilot calls the gateway over HTTP.

Two statements of the documentation are about parts that are modelled and are not
properties of a run, because the code plainly does something else:

- `src/README.md:79` has the heading "Linearizable Read & Forwarding". A read is
  answered by whichever node is asked, from its own database
  (`HandleServiceRequest`), with no leadership check; only writes are checked and
  redirected.
- `src/api/main.go:27` says of the registry: "Membership changes update it only after
  the Rust cluster confirms success." The node answers success when it has submitted the
  change (`runtime.rs:115`), also when it is a follower that knows no leader and drops
  it; the registry then differs from the cluster.

## Plan

1. `Raft` composed with `RaftStorage`: a cluster whose nodes start from their files.
2. `Raft` composed with `Network`: peer changes from applied entries.
3. Pure algorithms against reference definitions: k-way merge, Bloom filter, index
   search, log records.
4. Liveness of `Raft`: a leader is elected and a write is committed under fair delivery.
5. Proofs: types, `TablesOnDisk` and `PrioritiesOrdered` of `Database`; `SenderHasReader`
   of `Network`; types of `Simulator`; the refinement of `KVStore`.
