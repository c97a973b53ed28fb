# Verification of Redon

TLA+ models of the Redon key-value store (`src/src/`), the TLC runs that check
them on small instances, and TLAPS proofs for instances of every size.
`PROJECT.json` is the index: components, runs, the source lines behind every
definition, findings, hazards and theorems.

## 1. The system

| Component | Files | State | Operations |
|---|---|---|---|
| Leader election | `raft.cpp` | role, term, vote, leader hint under a mutex; a timer thread with its own locals | tick, election round, heartbeat round, the two RPC handlers, stop |
| In-memory store, LRU | `storage.cpp` | list and hash map under a mutex, capacity, replay flag | set, get, del, evict, clear, snapshot, leave replay mode |
| Write-ahead log | `wal.cpp` | an append-only file, a sticky `ok_` | append, open, replay |
| Disk engine | `disk_store.cpp` | data file, index of offsets, a sticky `ok_` | set, get, del, clear, snapshot, recover, heal, compact |
| Thread pool | `thread_pool.cpp` | queue and stop flag under a mutex, a condition variable | submit, worker loop, destructor |
| Replication | `replication.cpp` | per follower: queue, streaming, resync, stop; a sender thread | enqueue, sender loop, stop |
| Server | `server.cpp` | accept loop, one worker per connection | accept, submit, handle a client, route |
| Command dispatch | `command.cpp` | none of its own | one line to one reply |
| Router | `router.cpp` | the list of shards | choose a shard, forward with a timeout |
| Metrics | `metrics.cpp` | counters, a gauge, an HTTP thread | count, render |
| Web dashboard | `web.cpp`, `web_main.cpp` | listening socket, a running flag, worker threads | start, worker loop, handle a connection, forward, stop |
| Start-up | `main.cpp`, `Server::run` | flags; the members of `Server` | one set-up step per part, destruction in reverse |
| CLI, sockets | `client_main.cpp`, `net.h` | | I/O |

How they meet: the accept loop hands a socket to the thread pool; a worker reads
lines and either executes them (dispatch, then the store, then the log or the
disk engine) or, on a router, forwards them to the shard of their key. A store
write queues a line for each follower in the same critical section. Followers
and Raft peers are ordinary servers: the replication lines and the Raft RPCs
arrive as commands on the client port. On a Raft node a write asks the election
who leads before it touches the store. `Server::run` starts all of these one
after the other, and takes down what it has started when a later step fails.

What is hard about it: the election releases its lock around every RPC; a
request outlives its caller's timeout; wakeups are sent outside the mutex; the
snapshot and the live stream must be one cut; an append can be torn by a crash,
and one operation may append twice; a socket changes owner between threads; a
leader may be deposed between the check and the write; a start may fail with
threads already running.
`PROJECT.json` lists these as hazards, each at its line.

## 2. Modules

| Module | Models | Notes |
|---|---|---|
| `Voting` | the election as `raft.h` describes it | abstract: no messages, threads or roles |
| `RaftElection` | `raft.cpp` | one action per critical section; `ServeOrphan` is a request served after its caller gave up; implements `Voting` |
| `LeaderWrites` | the use `command.cpp` makes of the election | extends `RaftElection` by clients; check, redirect and write are separate steps |
| `DurableMap` | what `storage.h` promises of an engine | abstract: no records, index or cache order |
| `WalStore` | `storage.cpp`, `wal.cpp` | one step per append, so a crash can fall between two; implements `DurableMap` while its log is intact and nothing is trimmed |
| `DiskStore` | `disk_store.cpp` | the same for the disk engine, with recovery and compaction; implements `DurableMap` while no file error passes unnoticed |
| `PoolService` | the promises of `thread_pool.h` | abstract: no threads, no wakeups |
| `ThreadPool` | `thread_pool.cpp` | implements `PoolService` |
| `Replication` | `replication.cpp`, the hooks in `storage.cpp`, the follower's side in `command.cpp` | leader, sender thread, connections and follower together |
| `KvService` | what a client relies on, sharded or not (`router.h`, `command.h`) | abstract: one map, no shards, sockets or workers |
| `Frontend` | `server.cpp`, `command.cpp`, `router.cpp` | accept loop, workers, router and shards together; the pool appears as its service; implements `KvService` |
| `HttpEndpoint` | `web.cpp`, the endpoint of `metrics.cpp` | one set of threads around one listening socket |
| `Processes` | `main.cpp`, `web_main.cpp`, `Server::run` and `~Server` | composes start-up and destruction with `HttpEndpoint` |
| `...Proofs` | | the theorems about the module of that name |
| `MC...` | | model values, symmetry, concrete configurations |

Correspondence of state and code:

* **RaftElection.** `role`, `currentTerm`, `votedFor`, `leaderId`, `running` are
  the members under `mutex_`. `pc`, `term`, `votes`, `todo` are the timer
  thread's place and locals, `rpc` the call it is blocked in. `voteLog` and
  `elected` are history. Clocks are gone: any deadline may expire at any time.
* **LeaderWrites.** A command in progress remembers the place it has come to and
  the term in which `is_leader()` said yes. `accepted` and `redirects` are
  history: which node wrote under which term, and whom clients were sent to.
* **WalStore.** `log` is the file, a sequence of whole and torn records; `mem`
  and `lru` are the map and the list. `allowed[k]` is history: what a lookup of
  `k` may return given the replies so far. `forgotten` holds keys the trim after
  a replay dropped without a record.
* **DiskStore.** `file` and `index` as in the code, with record numbers for
  offsets; `cut` is what `snapshot_index` handed out. When to compact is left
  open, which includes the code's threshold. A lookup returns the contents or,
  when `read_value` fails, nothing. `unnoticed` is history: since the file was
  last truncated, a file error has happened that the code does not see (a
  truncation or `resize_file` that fails, a read error that ends the scan of a
  recovery early).
* **The abstract specifications.** In `Voting`, `terms`, `ballots` and `winners`
  are the election's `currentTerm`, `voteLog` and `elected`. In `DurableMap`,
  `data` is what the file says of each key and thus what the next restart would
  load, `view` what a lookup may return (nothing while no process serves, nor from
  a disk engine that has failed; the constant `Reads` says whether a read of a
  stored value can fail, as it can on disk), and `mode` whether the engine serves, has
  failed, is clearing or is down. In `KvService`, `store` is the map that the
  shards make up together, `doing[c]` the line client `c` has sent and, once it
  took effect, the reply it will hear; `late` holds the lines a router gave up on
  that a shard may still execute.
* **ThreadPool.** `at[w]` is a worker's place in `worker_loop`; being asleep on
  the condition variable is a place. `call[t]` and `dtor` are how far `submit`
  and the destructor have come.
* **Replication.** `wire[c]` is what is in transit on connection `c`. The
  follower executes every connection on a worker of its own, so two connections
  interleave. A handshake can be refused, an engine can fail to apply a line
  (`broken`) and the leader's file can be unreadable for the snapshot (`unread`).
* **Frontend.** `acc` is the accept loop's guard over the socket, `at[c]` a
  worker's place in `handle_client`, `requests` the forwarded lines a shard has
  yet to execute. A line is its verb, key and rest. Stores are unbounded (the
  default capacity) and neither fail to read nor restart here: eviction, faults
  and crashes are the business of `WalStore` and `DiskStore`.
* **HttpEndpoint.** `at[t]` is a thread's place in its loop, `net[c]` where a
  connection is. `line[c]` is the command `route` found in what came of the body,
  whole or cut short; `executed[c]` is history, the lines the server executed for
  the connection, and `reply[c]` what it answered, a result or the refusal of a
  line past `kMaxLineLength`. A `deaf` client neither reads nor leaves. What
  `accept` does when another thread closes its socket is the constant
  `CloseWakesAccept`, since the code relies on it and systems differ.
* **Processes.** `main` is the place of the main thread, `left` how many members
  of `Server` are not destroyed yet, `helper` the sender and the Raft timer,
  which end some time after their stop (their own modules say that they do). A
  thread that cannot be started ends the process (`abort`), since nothing catches
  the exception. The program `redon-web` stands for any owner of a gateway: it is
  the case in which `StopWeb` never happens.

## 3. Runs

| Run | Instance | Shows |
|---|---|---|
| `RaftSafety` | 3 nodes that may stop, 2 elections, 2 late requests | election safety, one vote per term, truthful leader hints, a leader yields only to a newer term, a majority is claimed; refinement of `Voting` |
| `LeaderWrites` | 2 nodes that may stop, 1 client, 2 elections, 1 late request | one writer per term, redirects to a node that won, `stop()` completes |
| `WalDurable` | 3 keys, 2 values, capacity 2, 5 records, 2 crashes, 1 torn append | memory matches the log and the replies; capacity exceeded by one at most; the steps of an intact store are steps of `DurableMap` |
| `WalTornTail` | 2 keys, unbounded cache | *violated*: acknowledged writes lost behind a torn record |
| `WalTrim` | 3 keys, capacity 2 | *violated*: a trimmed key comes back |
| `Pool` | 3 workers, 3 tasks, queue of 2 | no lost wakeup; refinement of `PoolService`, safety and progress; no deadlock |
| `Repl` | 2 keys, 3 writes, backlog of 1, 1 fault, 3 connections | the cut misses nothing, the follower converges, stop ends the sender |
| `ReplOverlap` | 1 key, no faults | *violated*: old lines applied after a resync |
| `Disk` | 2 keys, 2 values, 4 records, 2 crashes, 1 torn append | until a file error passes unnoticed, contents match the replies and every step is a step of `DurableMap`; a cut stays valid |
| `Front` | 2 clients, up to 2 workers, 3 lines, router and store | sockets closed once, reads see writes, queued clients served; refinement of `KvService` (each line takes effect at most once on one map) |
| `Processes` | every set of flags, 2 threads, 2 connections, a page or a long command each, `accept` woken by a close | no use after destruction, recovery before use, true HTTP statuses; joins return and connections end unless clients that never read hold the threads |
| `StartHang` | `--metrics-port` only, 1 thread, 1 connection, `accept` not woken | *violated*: a failed start hangs |

**Bounds.** Each is chosen so that the case of interest happens. Two
elections of three nodes compete for a term or follow one another; two late
requests outlive the round they belong to. With a client, two nodes suffice for
a leader to be deposed between the check and the write. Three keys over capacity
two evict; two crashes allow a restart to be interrupted and a second replay to
see what the first left. A backlog of one overflows at the second line; three
connections are a first, one after an overflow and one after a fault. One client
more than the queue holds is refused or made to wait. Two endpoint threads close,
accept and handle in every order, and one of two connections can wait behind the
other, or be served by the second thread while a client that does not read holds
the first. A long command may be executed, refused or cut short, so it stands for
the other commands too. Runs without deadlock checking end at such a bound, where the program
would go on, or where it really ends (`Processes` exits); `Pool` has none and is
checked for deadlock. The theorems of section 5 have no bounds on these numbers.

**Fairness.** Only threads the operating system schedules are owed steps, and
only calls that end. `RaftElection`: the timer thread, whose RPCs carry
`rpc_timeout_ms`. `ThreadPool`: awake workers, running tasks, calls begun;
never a spurious wakeup. `Replication`: the sender, and the follower's workers;
never a fault or a write. `Frontend`: the accept loop and the workers, whose
`recv`, `send` and shard waits all have timeouts; neither clients nor shards owe
anything. This takes the idle timeout to be on (300 s by default;
`idle_timeout_seconds = 0` turns it off, and then an idle client keeps its worker).
`QueuedIsServed` also depends on `MaxLines`: a client that sends commands without
end is served without end, and the code has no bound on that. That tasks return
is an assumption of `ThreadPool`; under the same two conditions `Frontend` shows
it of the tasks the server submits. `Processes`: the main thread, the sender and
the timer once stopped, the endpoint threads, and strongly each connection that
waits to be accepted, since `accept` takes them in order and does not fail for
ever. The endpoints set no send timeout, so a thread that sends to a client that
neither reads nor leaves is owed nothing. `FailedStartEnds` and
`EveryConnectionEnds` name this: a join may wait for such a thread, and other
clients may wait when every thread is held up, but not while one is free.

**Exceptions in the invariants.** `MemoryMatchesLog`,
`IntactLogKeepsPromises` and `IntactStepsAreMapSteps` exclude logs with a torn record in their middle, and
keys trimmed after a replay. These are precisely the situations that
`WalTornTail` and `WalTrim` show to break what the documents promise. `Converges`
and `NothingMissed` exclude the overlap of connections of `ReplOverlap` likewise,
and two failures the code tells nobody about: a follower whose engine refuses a
line (no reply is sent on the replica link, `server.cpp:501`), and a leader whose data file cannot be
opened for the snapshot (which is then empty). Both last until the next sync.
`KeepsPromises` and `NoticedStepsAreMapSteps` exclude file errors of the disk
engine that the code does not notice, from the error until the next truncation.

## 4. Findings

1. *Torn tail of the log* (`wal.cpp:105`, run `WalTornTail`). `replay_into`
   stops at a torn record but `open_for_append` appends behind it. What the
   second process acknowledges, the third does not see. The disk engine heals
   this case; the log does not.
2. *Unlogged trim* (`storage.cpp:204`, run `WalTrim`). When the DEL of an
   eviction cannot be logged the cache is one over capacity; the restart trims a
   key silently, and a later restart can bring it back at unchanged capacity.
3. *Overlapping connections* (`replication.cpp:226`, run `ReplOverlap`). After a
   backlog overflow the follower may execute lines of the old connection after
   the new one's sync, and stays different from the leader.
4. *A start that fails hangs* (`metrics.cpp:130`, run `StartHang`). The comment
   says the close unblocks `accept()`; on Linux it does not. A server with a
   metrics port whose data port is taken waits in a join until somebody connects
   to the metrics port. `WebGateway::stop` is written the same way, but
   `redon-web` never calls it.

Met while modelling, and not given a run of their own:

* A cluster of one never elects (`raft.cpp:201`): votes are compared with the
  majority only in the loop over peers. `MajorityIsClaimed` assumes two nodes.
* After a failed append of the disk engine every GET answers `(nil)`, while EXISTS
  still finds the key (`disk_store.cpp:68`).
* `docs/WEB.md:47-48` says the gateway "keeps reading until it has the whole
  body"; when the peer stops or the timeout strikes, what has arrived is executed
  as the command and answered 200 (`web.cpp:551-559`). `StatusIsTrue` is therefore
  about the line that was read.
* A command longer than the server takes is answered 200 as well: the gateway
  passes on `ERR line too long` like any reply (`web.cpp:595-597`).
* The error of `resize_file` and of the truncating open are ignored
  (`disk_store.cpp:104`, `200`): a `clear` may report success and keep the old
  records.
* If only some threads of the pool can be started, its constructor destroys
  joinable threads and the process is terminated; the comments at
  `server.cpp:283-284` and `401-403` expect an exception.

## 5. Proofs

`RaftElectionProofs` proves, for every finite cluster, every number of elections
and late requests and every set of stoppable nodes: `TypeCorrect`,
`AtMostOneLeaderPerTerm`, `VotesOnce`, `ReportsTheWinner`, `TermsOnlyGrow`,
`LeadersKeepTheirTerm` and `ElectionImplementsVoting`, the refinement of `Voting`;
for two nodes or more, `MajorityIsClaimed`. The assumptions are those named in `RaftElection`: a
finite set of nodes, each given the whole cluster as its list.

Election safety is not inductive. It needs that every won term was won with a
majority of votes actually cast (`ElectedByMajority`), that a vote cast in a
voter's present term is the one it remembers (`VotesRemembered`, hence
`OneVotePerTerm`), and that two majorities share a voter. The first must survive
the stretches in which the timer thread holds no lock. So `RoundOK` states what
its locals mean meanwhile: `votes` is at most the number of peers already dealt
with that really voted for the node in the term of the round, and a reply that
says yes is backed by a vote. `OrphansOK` says that a heartbeat served late still
comes from the winner of its term. `IInv` is their conjunction with `TypeOK`.

`Voting` says more than that votes are unique: a node votes only for one that
stands in that term, and moves only to terms some node has opened by standing.
Both have to survive in replies that wait to be read and in requests that wait to
be served. `StandingOK` is the invariant for that: some node stood in every term
a node is in or has been answered with, and a node that asks for votes or has won
stood in that term itself. With it, standing, voting, moving to a newer term and
winning are each one critical section of the code. A vote that is granted again
changes nothing, since `VotesRemembered` finds it already cast. The count at the
winning reply becomes a set of voters through `ElectedByMajority`.

`ThreadPoolProofs` proves, for any finite number of workers, any set of tasks
and any queue bound: `TypeCorrect`, `WakeupsAreNotLost`, `JoinsOnlyAwakeWorkers`
and `PoolImplementsService`, the refinement of `PoolService`. The assumptions are
`PoolAssumption`: finitely many workers, at least one (the constructor forces
that). The invariant has three parts. `StopFacts` orders the destructor: a worker
has exited only when the pool is stopped and its queue empty, so the join finds
all work done. `WakeupFacts` is `NoLostWakeup` with the finiteness its counting
needs: a push adds a caller about to notify, a notification trades that caller
for a worker at the queue, and a pop uses up one worker. `TaskFacts` says that a
task is queued or run in one place at a time, which the refinement needs to see
that a finished task leaves the set of running ones.

`LeaderWritesProofs` first proves that clients do not disturb the election
(`ElectionIsUndisturbed`: `WritesSpec` implies `Spec`), so that its theorems hold
with clients (`StillOneLeaderPerTerm`, `StillAVoting`).
`WritesHaveOneWriter` cannot rest on the role at the time of the
write, which may have changed; `WritersWereElected` says instead that whoever is
about to write, or has written, under a term has won that term, which no later
step takes back. Election safety does the rest.

`WalStoreProofs` proves `TypeCorrect`, `CapacityIsKept`, `MemoryFollowsLog` and
`IntactLogsKeepPromises` for any keys, any capacity and any number
of appends, torn records and crashes. `MemoryMatchesLog` says nothing about a process that is down,
or in the middle of an operation; `Durable` says of the log alone that what it
says of a key is a value the replies allow, `ReplayFacts` that a replay has what
the records read so far say, and `OpFacts` where a key that is being set is in
the recency list while its set evicts others.

`IntactLogsAreMaps` shows that each step which leaves no torn record buried and no
key trimmed is a step of `DurableMap`, and `IntactStoreIsAMap` concludes that a
store to which neither ever happens implements it. `data` is what the last record
of each key says. The argument has three facts: in such a log every key has
exactly one such value (`StoredWhenIntact`), memory shows it whenever a process
serves (`ShownIsStored`, from `MemoryMatchesLog`), and an append changes it for
the key of the record only, a torn one for none. The condition is needed:
`WalTornTail` and `WalTrim` are behaviours that leave it.

`DiskStoreProofs` proves `TypeCorrect`, `ContentsKeepPromises`,
`CutsStayValid`, `NoticedStepsFollowTheMap` and `EngineImplementsMap`. Again a durable part speaks of the file alone (`Durable`, with
`TornLast`: only the last record can be torn, and `Healed`: it is cut off before
anything is appended), `IndexFacts` ties the index to the part of the file it
reflects in each phase, and `TmpFacts` says that the second file of a compaction
has exactly one record per live key, so that the rename changes no contents.

`NoticedStepsFollowTheMap` shows that each step is a step of `DurableMap` unless a
file error has passed unnoticed, and `EngineImplementsMap` concludes that an engine
to which none ever happens implements it. Torn records need no exception here, as
the log does: the healing of the tail removes them. The invariants about the file
(`Durable`, `TornLast`, `Healed`) carry the same condition; types and cuts do not. What the file says of a
key changes when a record is appended and when the file is truncated, and at no
other step: a torn record says nothing (`TornSaysNothing`), cutting it off says
the same (`HealTailSaysTheSame`), and so does the compacted file
(`RenameSaysTheSame`). What a serving process shows is what the file says
(`ShownIsStored`), so that the end of a recovery, however often interrupted, is
one step that shows the data again. A clear takes two steps, between which a crash leaves
the old data, as the code does.

`ReplicationProofs` proves `TypeCorrect`, `NoWriteIsMissed`, `BacklogHasASender`
and, for a follower that has drained its link, `CaughtUpFollowersAreCopies`, the
property that `ReplOverlap` refutes where connections overlap. `NothingMissed` is
stated so as to be nearly inductive: the copy, then the lines in transit, then the
rest of the snapshot, then the queue yield the leader's data. `ConnFacts` and
`CutFacts` add that lines follow an accepted handshake and that the copy is
empty between the handshake and the cut.

`FrontendProofs` proves `TypeCorrect`, `SocketsHaveOneOwner`, `LinesRunOnce` and
`ReadsSeeOwnWrites` for any finite set of clients, any workers, shards, lines and
placement of keys. `SockFacts` is a case distinction over who holds a socket;
`RunFacts` says that a request at a shard belongs to a line that has been taken
and not been run; `DataFacts` that a promise made to a client is what the shard
of the key holds; and `AnswerFacts` that the reply in hand still agrees with the
promises, which change only with the client's own lines and with those of others
that break its exclusive use.

`FrontendImplementsKv`, the refinement of `KvService`, says that sharding is
transparent: any number of shards under any hash are, to their clients, one map
on which a line takes effect whole, at most once, and between being sent and its
result being heard. A line takes effect when a shard (or the node itself)
executes it, which the worker that waits does not notice: reading the answer is a
stutter, the timeout that discards it is a step. `AskedFacts` is needed on top of
the invariant: a line that is waited for and not answered is still on its way, so
that giving up leaves that line, and no other, behind; and `RunFacts` rules out
that a line answered already is. The map's steps rest on one lemma about
`Outcomes` (`OutcomesAgree`): what a line answers depends on its key alone, so
the shard of the key answers for the whole map.

`ProcessesProofs` proves `TypeCorrect`, `DestructionIsSafe`, `RecoveryComesFirst`
and `StatusesAreTrue` for any flags, threads, connections and either behaviour of
`accept`. The invariant of the endpoint (`EInv`) says that a connection has one
thread, a command is at one place (not sent, at the server, replied, or given
up), and a reply tells whether the line was executed. That of the process (`PInv`) lists which threads can run and which members
exist at each place of `main`. The two share only the endpoint's threads and are
proved separately.

Every constant assumption is named in the module that declares the constant and
evaluated by TLC in the runs. They say that bounds are numbers, that markers for
"no value" are no values, and that sets which are counted are finite.

Only model-checked: liveness (`StopCompletes`, `KeepsRunning`, `Converges`,
`StopEndsSender`, `QueuedIsServed`, `FailedStartEnds`, `EveryConnectionEnds`),
which is outside what the prover handles. Every safety invariant and action
property of a passing run is also a theorem.

## 6. Not modelled

* Restarts of Raft nodes. Term and vote are not persisted, which
  `docs/PHASE6.md` declares unsafe; the theorems are about nodes that do not
  come back.
* Bytes: record lengths, tokenising, number formats, the hash function, HTTP
  headers, JSON, the text of the dashboard's page.
* INFO, ROLE, PING and the counters other than `connected`: independent relaxed
  atomics that only reports read, with no promise that relates them.
* The command-line client and the one-line socket wrappers.
* `Server` stopping normally: `run()` has no way to end once it serves.
* Time. Deadlines may expire at any moment, so what depends on their lengths (that
  an election is won at all, say) is not stated.

Most of what is left is data, a promise the documents do not make, or a thin
wrapper of the operating system. Three state changes of the source are left out
on purpose: the restart of a Raft node, the counters, and the work of the
command-line client.
