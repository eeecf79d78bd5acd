# Robot factories with a write-ahead log: a TLA+ model

This directory models the servers ("robot factories"), their write-ahead log,
the load balancer in front of them and the client program that puts load on it.
Line numbers below are those of the C++ sources. `PROJECT.json` names, for every
definition, the lines it stands for, for every property a change of the code that
breaks it, and the hazards the properties are for.

## 1. The system

A customer (`Client.cpp`) opens one TCP session with the load balancer and
sends orders or reads, one at a time. The load balancer forwards orders to one
server, the *master*, and reads to the *worker nodes* in turn. A server that
receives an order acts as production factory (PFA, the primary): it logs the
order, replicates it to the other servers, its idle factories (IFA, backups),
applies it and ships a robot. There is no election: whoever gets orders is the
primary.

| Component | State | Operations | Interacts with |
|---|---|---|---|
| Write-ahead log, `CommitLog.cpp` | a file; stdio's buffer; the batch `commit_log_w_crc_batch` | `Init`, `writelogwithcrc`, `sync`, `Recoverwithcrc` | called by the admin thread, ifa threads and the start of a server |
| Server: engineer threads, `Server.cpp:67-182` | a socket per session; a promise per request | take an order, hand it to the admin thread, wait, ship; announce the commit when the customer hangs up; answer reads | `admin_thread_list`, `barrier_list`, `mtx`, `condition_var` |
| Server: admin thread, `Server.cpp:368-460` | `recheck_allow`, the current request | recheck, log, replicate to each peer in turn, apply, set the promise | peers over `factories_record` sockets; holds `mtx` throughout |
| Server: ifa threads, `Server.cpp:207-361, 480-505` | the connection to a primary | read a request, insert, recover what is missing, apply, acknowledge | the primary's admin thread; `mtx` |
| Server: start, `Server.cpp:249-316, 574-607` | `smr_log`, `smr_repl_commit`, `customer_record` | read the file back, ask a peer for its committed index, replay | the write-ahead log; the peers' record port |
| Load balancer: sessions, `load_balancer/ServerThread.cpp:33-144` | `master_node_id`, `current_worker_node`, two stubs per session | choose master and worker node, forward | `node_health` under `erq_lock` |
| Load balancer: heartbeat, `ServerThread.cpp:146-180` | one connection per server | read a record from each server in turn, set `node_health` | every server's `mtx` |
| Load balancer: sockets and stubs, `load_balancer/Socket.cpp`, `ServerStub.cpp`, `ClientStub.h` | a buffer per stub; the file descriptor | `Send`, `Recv`, `Close`; a stub function per message | the other end's stub, over a connection that delivers in pieces |
| Messages, `load_balancer/Messages.cpp` | the members of three classes | `Marshal`, `Unmarshal`, `Size`, `IsValid` | called by the stubs |
| Client, `Client.cpp`, `ClientThread.cpp`, `ClientStub.h` | a thread, a stub and a timer per customer | start all threads, place orders or read, join, add up the timers, print | one session with the load balancer per customer |
| `ClientTimer.cpp` | sum, count, least and greatest time | `Start`, `EndAndMerge`, `Merge` | its customer's thread, then the main thread |

What is hard about it:

* **Crashes between steps.** An order is on the primary's log, then in memory,
  then at one peer after the other, then applied, then shipped. The primary may
  die between any two of them, and the next one numbers its first entry from
  its own last index.
* **Old messages.** A backup goes on reading what a dead primary sent, on
  another thread than the one that reads the new primary's requests, and no
  request says which primary is the current one.
* **Recovery inside a request.** A backup that was away finds out from the
  indexes in the next request, and catches up partly from its own file and
  partly from the primary, over the same socket.
* **Positional insertion.** Entries go into `smr_log` at an index taken from a
  message, and into the file at its end.
* **Threads that hand over locals.** The admin thread writes through pointers to
  engineer threads' locals and sets their promises.
* **Failure detection that looks at closed sockets.** `recv` returning 0 is not
  an error here, so the first exchange on a closed connection "succeeds".
* **Restarts nobody noticed.** A server that is running again before the
  heartbeat finds out is still master for the customers that connect then, while
  earlier or later ones have another.
* **Answers that are none.** The load balancer ignores that its stub failed, and
  the client takes a `recv` of 0 bytes for an answer; request and answer are
  matched by nothing but their order.

What makes each part correct:

* Write-ahead log: a restart reads back a prefix of what was logged; the loss is
  bounded while the disk is good.
* Replication: shipped orders survive, and a crash takes less than a batch of them
  from a server's file; logs agree; records are what the logs
  add up to; reads are one order behind at most; nothing committed is taken back;
  nobody waits forever.
* Load balancer: one master at a time, never an old one again; deaths are
  noticed; nobody is turned away without need.
* Client: the answer it takes for that to an order is that; what it counts is
  what it did; it ends.
* Messages and sockets: what one end marshals is what the other one gets, in
  whatever pieces it arrives, or nothing.

## 2. Modules

| Module | What it is |
|---|---|
| `CommitLogOps` | the log of one server as a value, and the methods of `CommitLog` as operators on it |
| `CommitLog` | one log and its owner's memory as a state machine: write, sync, crash, restart, stdio's own flushes, damage on disk |
| `DurableLog` | the promise of a write-ahead log; `CommitLog` implements it (`DurableLogSpec`) |
| `CommitLogOpsLemmas`, `CommitLogProofs` | lemmas on the operators; the theorems on `CommitLog` |
| `Replication` | servers, engineer, admin and ifa threads, the connections between servers, crash, restart; of the load balancer the choice of the master and the detection of deaths. Uses `CommitLogOps` for each server's log |
| `OrderLedger` | what customers are promised by all servers together; `Replication` implements it (`OrderLedgerSpec`) |
| `ReplicationProofs` | type correctness of `Replication`; engineer threads and the admin thread agree; what a crash loses of the shipped orders |
| `LockstepProofs` | who is primary, and that all servers that have never died have its log, but for the request on its way |
| `SurvivorProofs` | what follows for logs, files, records and reads; the refinement of `OrderLedger` |
| `LoadBalancer` | session threads, choice of master and worker node, heartbeat, with servers that are just up or down |
| `LoadBalancerProofs` | the theorems on `LoadBalancer` |
| `Client` | the client program composed with the load balancer: extends `LoadBalancer`, whose session steps now depend on what customers send |
| `ClientProofs` | the theorems on the composition; among them, that it implements `LoadBalancer` |
| `Messages` | the message classes as operators |
| `Stream` | sockets and stubs of the load balancer over a connection of bytes. Uses `Messages` |
| `StreamProofs` | the round trip of a message; the theorems on `Stream` |
| `MCCommitLog`, `MCReplication`, `MCLoadBalancer`, `MCClient`, `MCStream` | instances for TLC |

`Replication` contains of the load balancer only what decides which server gets
an order; `LoadBalancer` contains of the servers only whether they run; `Client`
stands on `LoadBalancer`. So the stack is checked in two halves that meet at
"the session's server got the order or the session failed".

### Correspondence

*CommitLog.* `wal` has three places an entry can be in: `batch` (the process's
vector), `buffer` (stdio), `file` (the kernel). `WriteLog` is
`writelogwithcrc`, `Flushed` is `sync`, which only calls `fflush`; `Recovered`
is `Recoverwithcrc`. A record whose checksum is wrong is `Bad`. `Crash` may
tear a record, since stdio writes pages; `Spill` is stdio flushing on its own.

*Replication.* Names are the code's. `smr_log[i]` is `At(smr_log, i)`, indexes
start at 0. `mtx` is not a variable: a server's mutex is held while its admin
thread is not waiting (`admin[n].pc # "wait"`) or an ifa thread is in the middle
of a request (`ifa[n] # None`); code under `mtx` that touches only the server
itself is one step, and each send and receive is a step of its own.

| Code | Action |
|---|---|
| `get_master_node` and accept | `Connect` |
| `engineer_thread_robot_def` up to / after the wait | `PlaceOrder` / `Ship` |
| `engineer_thread_read_def` | `ReadRecord`, an operator: a read changes nothing |
| `engineer_thread_send_commited_index`, end of `engineer_thread_body` | `Hangup`, `Finish`, `CloseReader` |
| `recheckcommit` + `recheckreplsock` | `AdminRecheck` |
| `admin_thread` 374-416 | `AdminTake` |
| the loop over the peers 418-451 | `AdminSkip`, `AdminSend`, `AdminAck`, `AdminPeerGone` |
| 452-459 | `AdminCommit` |
| `ifa_thread_read` up to 350 / 351-360 | `IfaRead`, `IfaStray` / `IfaApply` |
| `initiate_recovery` | `RecoverRead`, `RecoverFail`, `RecoverWrite` |
| `initiate_recovery_from_log`, `start` | `Restart` |
| `HertBeatHandler` | `HeartBeat` |

Where the code is undefined or reads memory it never wrote, the model allows
what can come of it: an insertion beyond the end of `smr_log` adds an entry
`Garbage` (or kills the process, which is a `Crash`); an entry or an
acknowledgement received from a closed socket is `Garbage` or either answer; a
`std::out_of_range` that leaves a thread ends the process (`Die`). When a
process dies, what it had sent is a prefix of what it sent last, and its
acknowledgements may or may not have left.

*LoadBalancer.* One action per locked section and per exchange with a server.
A connection is `open`, `cut` (the server has died; the next send still
succeeds and the `recv` returns 0) or `dead`. A null pointer that is called
through ends the process (`balancer' = FALSE`). What a customer gets is reduced to
`answer`: what it asked for, a refusal, or a record the load balancer never
filled in, since it ignores that its stub failed (`ServerThread.cpp:119, 131`).
A session that ends frees its slot for another customer.

*Client.* The variables of `LoadBalancer` and its actions are taken over; what a
customer sent and was sent travels in `request` and `reply`. `ServerThread.cpp`
serves a session when a request is there (`Serve` conjoins `Order` or `Read`), and
lets it go when the customer closed its end (`HangUp`).

| Code | Action |
|---|---|
| `Client::run`: the loops that start, join and merge (`Client.cpp:53-108`) | `Spawn`, `Join`, `MergeTimers` |
| `ClientStub::Init` | `ConnectToBalancer` |
| `Order`, `ReadRecord` up to / after `send` | `Send` / `Receive` |
| `EndAndMerge`, `Merge` of `ClientTimer` | the operators of that name |
| the session thread's choice of servers / its switch / its end | `Choose` / `Serve` / `HangUp` |

A `recv` of 0 bytes becomes the result `nothing`, which the client times like an
answer, since `ClientStub.h` tests for -1 only. A request takes the time that the
constant `Elapsed` says, an integer; clocks are not modelled.

*Messages and Stream.* A message class is the list of its members; `Marshal`
writes the bytes of each, `Unmarshal` reads them back, with 32-bit two's
complement integers. In `Stream` both ends are in `Socket::Send` or `Socket::Recv`
with the byte offset of its loop as state; each turn of the loop moves any number
of bytes that are there. `Break` ends the connection and may lose the tail of what
was on the way. The session and heartbeat threads of the load balancer use the
`struct_...` functions, which call `send` and `recv` once for a C struct; the
loops, the classes and the stub functions of `Stream` are compiled in and not
called by them. The slip `RecvOnce` shows what one `recv` makes of a piece.

### Assumptions of the models

* Servers end by crashing as processes; hosts and networks do not hang, and a
  connection delivers what was sent before it ends.
* With `SlowReaders = FALSE` what a dead server had sent is read by the others before
  the heartbeat (rounds take seconds) makes the load balancer choose another master:
  `Drained` in the guard of `HeartBeat`. This is an assumption on timing that nothing
  in the code enforces, and every run makes it. It removes the case of a backup that
  still reads a dead primary's requests while the new one sends (section 3 says what
  that case breaks).
* What a dead server had sent is also read before the server runs again (`Drained` in
  the guard of `Restart`, in every run): the model has one connection from a server to
  another, not one per life of the server.
* With `PromptRestart = FALSE` a server is started again only after its death was
  noticed (`node_health` in the guard of `Restart`). Nothing in the code enforces
  that; `replication_overlap` is the run without it.
* `LoadBalancer` and `Client` always assume that (`NodeRestarts`), and that a session
  does not spend a whole restart between the check of the master and its connect. So
  `OneMaster`, checked and proved, holds under this assumption only. With a restart
  that comes sooner, one session can be opened with the restarted server and another,
  after the next heartbeat, with its successor, and both work; what that does to the
  servers is what `replication_overlap` is about.
* `Stream` and `Messages` are about code that is compiled in but called by no thread
  (see above): their properties say nothing of the connections in use.
* A message between servers arrives whole: `ServerStub.h` receives each by one
  `recv`.
* A session with orders announces its commit when it ends; a session whose last
  request was a read does not, and is `CloseReader`.
* The customer id of an entry that was never received is not that of a customer.
* Each server is given all the others at its start (`factories_record`, read from
  the arguments at `Server.cpp:676-707`): `MeshAssumption`.
* All servers start on empty logs, and the load balancer starts after them.
* One session per customer for orders; the order numbers of a customer rise.
* `primary_id` is written and never read, and is left out.

## 3. Runs

Deadlock is not checked: customers place finitely many orders, crashes are
bounded, and after them the system has nothing to do.

| Run | Instance | Shows |
|---|---|---|
| `commitlog_batched` | batches of 3, up to 7 records, damage | `TypeOK`, `RecoverableIsPrefix`, `LossIsBounded`, implements `DurableLog` |
| `commitlog_unbatched` | batches of 1 without fflush, up to 5 records, damage: stdio decides what is written, and tears it | here `SyncIsDurable` holds |
| `commitlog_sync` | batches of 3 | **violated**: `SyncIsDurable` |
| `replication_failover` | 2 servers, two crashes at any moment, one restart; fair threads | `TypeOK`, `LagAtMostOne`, `ReadsLagByOne`, `CommittedIsStable`, implements `OrderLedger` (`OrderLedgerSpec`), `EveryBarrierIsSet` |
| `replication_three` | 3 servers, 2 crashes, 1 restart, no crash in the middle of a broadcast | agreement of logs, records and files, recovery included, and what a crash would cost: `AckedSurvive`, `LogAgreement`, `AckMeansSameLog`, `RecordMatchesLog`, `OrdersInSequence`, `CommittedIsKnown`, `FileMatchesLog`, `LastIndexIsLast`, `ShippedLossIsBounded` |
| `replication_lastfirst` | 3 servers, 3 customers, 2 crashes at any moment, `LBOrder` prefers the peer the first master sends to last | `RecordMatchesLog`, `AckedSurvive`, `LogAgreement` |
| `replication_overlap` | 3 servers, 1 crash at any moment, 1 restart that may come before the death is noticed; fair threads | `BarrierDiscipline`, `AckedAtMaster`, `OnlyMutualWaitBlocks` |
| `recovery_misaligned` | 3 servers, 1 crash at any moment | **violated**: `AckMeansSameLog` |
| `startup_replay` | 2 servers, the backup restarts | **violated**: `StartupReplayInRange` |
| `null_worker` | 2 servers, 1 session | **violated**: `NoWorkerMeansNone` |
| `client` | 2 customers with 2 requests of any of the 3 kinds, load balancer, 2 servers, 1 restart; all threads fair | of the load balancer: `TypeOK`, `OneMaster`, `MasterNeverReturns`, `NegativeIsHonest`, `DeathIsNoticed`; of both: `ClientTypeOK`, `AnswersInStep`, `FailedForGood`, `MetricsAreComplete`, `OnlyRefusedHang` |
| `stream` | an order, a read and an order over one connection that may break; both ends fair | `TypeOK`, `WholeAnswers`, `WholeRequests`, `BothEnd` |

How to read the replication runs together. When the primary dies in the middle
of a broadcast, some backups have its last entry, not yet committed, and others
do not.

* If the new master is a server that lacks the entry, the backups that have
  it come to agree: the next order is inserted at the index of the lost one and
  pushes that behind the last index.
* If the new master has it and another backup does not, the master's next
  request shows that backup a gap of two entries: the pending one and the new
  one. The backup asks for everything behind its committed index but inserts
  what it gets behind its last index (finding `recovery_misaligned`), and
  acknowledges a wrong log.

With three servers and the load balancer's usual order the second case is
reachable, because the new master is the peer that is served first. So
`AckedSurvive` and `LogAgreement` are not claimed there. They are claimed, and
hold, when no crash falls into a broadcast (`replication_three`), and when the
master is replaced by the peer that is served last, so that no other is behind
(`replication_lastfirst`). With two servers there is one backup, and a
shipped order survives any two crashes (`replication_failover`).

What remains true with three servers in the usual order and one crash anywhere, until
a server is started again, is that the one the next session is opened with has every
shipped order (the first part of `AckedAtMaster`, in `replication_overlap`). `GetMasterNode` is that
server: the master while it is healthy, then the first healthy one in the list. A
second crash can refute this: the backup that acknowledged a wrong log in the second
case above may be next.

A prompt restart refutes it with one crash. A master dies, runs again before a
heartbeat, and is still master, without what was in its batch. So shipped orders are
missing at the very server that customers are sent to, and it numbers its next ones as
if they had never been: a backup takes the lower last index over (`Server.cpp:352`),
inserts in front of what it has, and may become master like that. What is left then is
a bound: the server that the next session is opened with lacks fewer of the shipped
orders than a batch holds (the second part of `AckedAtMaster`; in `replication_overlap`
restarts may be prompt and sessions with two masters overlap), for batches of at least
two; with batches of one it can lack one, since a start takes the peer's committed
index for its last index (`Server.cpp:306`).

What is not claimed, because it is not so:

* `AckedAtMaster` for two crashes with three servers, and its first part after a prompt
  restart (see above).
* Hardly anything is left if a death may be noticed before all that the dead server
  had sent is read (`SlowReaders`). Requests do not say which primary is the current
  one (`primary_id` is written at `Server.cpp:351` and never read), so a backup mixes
  those of both. With two servers and one crash `AckedSurvive`, `AckedAtMaster`,
  `CommittedIsStable`, `CommittedIsKnown`, `RecordMatchesLog` and `LagAtMostOne` fail,
  with `replication_lastfirst`'s three also `LogAgreement` and `AckMeansSameLog`.
  Setting `SlowReaders = TRUE` in a `.cfg` shows it. All runs exclude this by
  assumption, so none of their properties is evidence against this hazard.
* `FileMatchesLog` and `LastIndexIsLast` do not hold in `replication_lastfirst`.
  A takeover in the middle of a broadcast leaves an orphan behind `last_index`: in
  memory the next order goes before it, in the file after it.
* In `replication_failover`'s instance one restart is enough for `LogAgreement`,
  `AckMeansSameLog`, `RecordMatchesLog`, `OrdersInSequence` and `CommittedIsKnown` to
  fail. Either the order of a broadcast that reached nobody comes back with the
  primary that died, and is taken for the one others have at its index, or counts
  as committed at once because its peer answers index 0 (`Server.cpp:302`); or a
  server dies in the middle of sending a recovery log and the receiver takes what
  the heap held for an entry (`Garbage`). They are claimed where nobody dies in the
  middle of a broadcast.
* Also there they are claimed for one restart. A start leaves entries in `smr_log`
  behind `last_index` when the peer has committed less than the file has
  (`Server.cpp:306`); the next recovery writes them to the file again, and the next
  start reads back a file that lists an order twice. With batches of one, two crashes
  and two restarts `LogAgreement`, `AckMeansSameLog`, `RecordMatchesLog` and
  `OrdersInSequence` fail even with two servers.
* `CommittedIsKnown` says less of a restarted server than of others. One that
  finds index 0 at its peer takes that for "no peer answered"
  (`Server.cpp:302`), and counts as committed whatever its file holds.
* With a prompt restart nearly all agreement is lost: `LagAtMostOne`,
  `ReadsLagByOne`, `CommittedIsStable`, `OrdersInSequence`, `AckedSurvive`,
  `RecordMatchesLog`, `LogAgreement`, `AckMeansSameLog`, `OrderLedgerSpec` and
  `EveryBarrierIsSet` all fail in `replication_overlap`'s instance, and so does
  the first part of `AckedAtMaster` without its condition. Two servers act as primary at once, and two admin threads can wait for each
  other, each with the `mtx` that the other's ifa thread needs (`MutualWait`).
  `OnlyMutualWaitBlocks` shows that nothing else keeps an engineer thread waiting.
* `OnlyRefusedHang` excepts a customer whose session was refused: it is sent a
  record nobody asked for, and nobody closes its connection
  (`ServerThread.cpp:88-95`). Its next request is never answered.

### Bounds

* Logs: batches of 3 and 7 records give two full batches and a third in
  progress, with a record torn or damaged in any of them. The real batch size
  is 10; nothing but "full or not" depends on it, and the theorems hold for all.
* Replication: two customers with two orders each make four entries and two
  announcements, enough for a session that outlives a change of master's log,
  a backup that misses one, two or three entries, and requests that queue up.
  `Batch = 2` leaves the file behind the memory by one entry at every other
  order. Two crashes are enough to lose two masters in a row; the three customers
  of `replication_lastfirst` give each of three masters in a row an order. A server
  that forgets one of two orders is seen in its reads once a customer's second one
  has shipped.
* Two or three servers: the difference between them is the broadcast that
  reaches some.
* Client and load balancer: two customers make the races on `master_node_id` and
  `current_worker_node` visible, and, since their times differ and overlap, least,
  greatest and sum distinguishable; two requests are one that may fail and one
  after it. Two servers are a master and its replacement, and make
  `current_worker_node` wrap; a restart makes the permanent exclusion visible. The
  safety properties of the load balancer are proved for any number of servers and
  sessions.
* Stream: three calls of both kinds, so that an answer of each length is followed
  by one of the other; the bytes of the ints differ from each other. Pieces of
  any size, a break at any byte.

Servers are ordered by `Peers` and `LBOrder` and so are not symmetric. Customers
are, in `replication_three` and `replication_lastfirst`, which check invariants
only (`CustomerSymmetry`).

### Fairness

`Replication`: weak fairness of every admin and ifa thread and of the engineer
threads' `Ship` and `Finish`: an operating system schedules a runnable thread,
and a send or receive that can go on does. Nothing is assumed of customers, the
load balancer, crashes, or of the lock: a thread that needs a mutex others keep
taking is not promised to get it. `EveryBarrierIsSet` needs nothing more,
because an admin thread that has `mtx` keeps it while it has work.
`Client`: weak fairness of the client's main thread, of each customer's thread, of
each session thread and of the heartbeat thread, an endless loop with nothing to
wait for but answers, which come or fail as servers are alive or dead; nothing is
assumed of servers' deaths.
`Stream`: weak fairness of each end: a `send` or `recv` that can move a byte does.

## 4. Proofs

All theorems hold for every value of the constants that satisfies the `ASSUME`s
of the modules. Those of `CommitLogOps` and `CommitLog` only say that the
parameters are numbers and Booleans and that `Bad` is no entry; those of
`Replication` that the tables of servers are over servers, that each server is
given all the others, and that the special values (`None`, `CommitOnly`,
`Garbage`, `Bad`) are none of the ordinary ones;
those of `LoadBalancer` that there is a server and that `Null` is neither a
server nor a connection; those of `Stream` that there is a call, that all ints have 32
bits, and that no customer has the id -1, which stands for no customer.

*Write-ahead log* (`CommitLogProofs`). `Invariance` proves the inductive
invariant `IInv`. While the process runs, the readable part of the file is a
prefix of `smr_log`, and as long as no record is damaged, file, stdio buffer and
batch put together are `smr_log`. The batch is never full between two calls, and
the stdio buffer is empty if `writelogwithcrc` flushes. None of the checked
invariants is inductive by itself, since none says where the entries that are
*not* in the file are; the write that fills a batch moves them. From `IInv`
follow `TypeCorrect`, `ReadBackIsPrefix`, `CrashLosesLessThanABatch` and the
refinement `ImplementsDurableLog`: each step of `CommitLog` is a step of
`DurableLog` or a stutter. `SyncKeepsWithoutBatches` shows that `SyncIsDurable`,
which `commitlog_sync` refutes for batches of three, does hold for batches of at
most one: the batches are the whole reason.

*Replication, types* (`ReplicationProofs`). `TypesHold` proves `TypeOK`, which is
inductive, one lemma per action. It says more than the shape of values: an admin
thread that waits for an acknowledgement has a peer left to wait for, indexes
never fall below -1, and what is inserted, replayed or received, in range or
not, is an entry.

*Replication, barriers* (`ReplicationProofs`). `BarriersAgree` proves
`BarrierDiscipline`. It is inductive together with `TypeOK` and the fact that a
session which was opened has a server. The argument follows the requests of a
server, that is, the one in the admin thread's hands and its list, as one
sequence: most actions leave it alone (`AdminTake` only moves its head), an
engineer thread that is idle, hence has no request, adds one at the end,
`AdminCommit` drops the first and releases its owner, and a death drops them all
together with the threads that wait.

*Replication, durability* (`ReplicationProofs`). `ShippedOrdersAreWritten` proves
`ShippedLossIsBounded`: on a server that has never died, fewer of the orders it
shipped than a batch holds are missing from its file. The invariant `DInv` follows an
order through the server: what the admin thread has in its hands is logged
(`HandsLogged`), hence what an engineer thread is about to ship (`ReadyLogged`,
which needs `BarrierDiscipline`: the order in the admin thread's hands is the one
its engineer thread waits for), hence what it shipped (`AckedLogged`). The operations
of a log move entries between its places and lose none (`FlushedOk`,
`WrittenOk`), and a full batch leaves it at once (`WalOk`), so what is not in the file
is in a batch that is not full. It holds whatever the server does as a backup in
between and however sessions overlap, also with prompt restarts.

*Replication, agreement* (`LockstepProofs`, `SurvivorProofs`). These theorems assume
`Graceful`, which says of crashes and restarts what section 3 found to be needed:

* a server is started again only after its death was noticed (`~PromptRestart`;
  `replication_overlap` is the run without it),
* by then its peers have read what it sent (`~SlowReaders`), and
* if a primary may die in the middle of a broadcast (`MidBroadcast`), there are at
  most two servers, hence one backup. With more, `recovery_misaligned` refutes
  `AckMeansSameLog`.

Both `replication_failover` and `replication_three` are instances of it;
`replication_lastfirst`, where the order of the peers saves the logs, and
`replication_overlap` are not.

The inductive invariant `SurvivorInv` speaks of the servers the heartbeat still has a
connection to, which are those that have never died. It is built in layers, each
inductive given those before:

1. `RolesInv`: only the load balancer's master has sessions, requests and open
   connections to backups; an ifa thread that works, works for it, or for its
   dead predecessor of whom everything is read before there is another.
2. `Lockstep`: where the one request of the master is with respect to each backup.
   A backup not yet served lacks the order in the master's hands, or has
   just inserted it, and nothing else (`Lagging`); all others have the same log
   (`InStep`); what is on the wire starts exactly where the log of its reader ends
   (`Tidy`), so no survivor ever recovers. Without the last part nothing here is
   inductive: an index in a message says where the receiver inserts, and the code
   never checks it.
3. `BooksKept`: file, buffer and batch list what `smr_log` lists, and
   `customer_record` is what the committed part of it adds up to.
4. `Held`, `Numbers`, `OrderInv`: shipped orders are in every survivor's log; a
   customer's order that is waited for is the successor of one that was shipped, so
   a log has the orders of each customer in sequence, without gaps.
5. `Uncommitted`: nobody applies the order in the master's hands before all
   survivors have it.

From it follow, for any number of servers, customers, orders, crashes and restarts:
`ShippedOrdersSurvive`, `MasterHasShippedOrders`, `ReadsAreRecent`, `FilesMatchLogs`,
`SendersKnowTheirLog`; and, for servers that have never died and whatever others that
were started again do: `SurvivorsStayInStep` (logs and records), `SurvivorsKeepTheSequence`,
`SurvivorsAckTheSameLog`, `SurvivorsTakeNothingBack`.

*Replication, the lag of any server* (`SurvivorProofs`). `LagIsAtMostOne` proves
`LagAtMostOne`, on which `recheckcommit` relies, for all servers, those that were
started again included, whatever their logs hold by then. Such a server takes its
indexes from a request, so `LagInv` says of all requests that are under way, on
the wire or in the hands of an ifa thread, that their two indexes differ by at most
one (`LagOfRequests`). One case escapes this: a request with committed index -1 leaves
the receiver's as it is. `FirstOrder` covers it: as long as the first order is open
(some server that has never died lacks it, or it is in the master's hands and not
committed, or a request that brings it is under way), no server has committed
anything. When the master commits its first order, no such request may be left. That is due
to `Exchanges`: a living primary has one request under way at a time or the answer to
it, also while the backup asks for the log and receives it entry by entry.

Five other checked properties also speak of servers that were started again. They are
proved until the first restart (`restarts = 0 => ...`, when all that run have never
died, `FirstLives`): `LogsAgree`, `RecordsMatchLogs`, `OrdersKeepTheirSequence`,
`AcksMeanSameLog`, `CommittedIsEverywhere`; and `CommittedStays`, which relates two
states, for `MaxRestart = 0`. This hypothesis is no weakness of the proof: under
`Graceful` alone one restart falsifies all five (section 3). For one restart and no crash in
the middle of a broadcast TLC checks them in the runs above. A proof of that would
have to follow the recovery of `initiate_recovery_from_log` and
`initiate_recovery`, in which what is in the log depends on which peer answered
first.

*Replication implements OrderLedger* (`ImplementsOrderLedger`). The ledger of the
refinement, the part that all survivors agree on, is the log up to `last_index` of
any survivor with the least one (`LedgerIs`). Survivors are at most one entry apart,
so in a step it stays or grows by one order (`LedgerGrows`): the last backup applies
the order, or the only one that lacked it dies. In the second case nothing else
changes, since a server's log grows in steps in which nobody dies
(`GrowthIsQuiet`). A shipped order is in the ledger because all survivors hold it, and
the ledger ends with the last of them.

*Load balancer* (`LoadBalancerProofs`). `Invariance` proves `IInv`. Its parts: a
server is unhealthy only if the heartbeat's connection to it is given up, and
connections are never made again (`HealthInv`); every server before the master
in the map is unhealthy (`MasterInv`); a session's connection that still reaches
a server reaches the current master, which is healthy and up (`ConnInv`); who has
no master had no server to choose (`NegativeInv`). From it follow `TypesHold`,
`OneMasterAtATime`, `RefusalsAreHonest` and `NoWayBack`.

*Client and load balancer* (`ClientProofs`). `ClientsImplementSessions` shows that
the composition behaves as `LoadBalancer` says: each of its steps is one of
`LoadBalancer` or leaves its variables alone. So all that is proved there holds
here, and is used. `ClientInvariance` proves the inductive `CInv`. Its main
part, `Talk`, follows the one request of each customer: it is unsent, under way,
answered or taken (`InStep`); if a result is no answer of a server, then the
session's connection to that server is gone, or the session was refused, or the
load balancer has ended (`Final`); and what is neither, is fresh (`Fresh`). From it
follow `AnswersStayInStep` and `FailuresAreFinal`.

*What the client prints* (`ClientProofs`). `ClientTypesHold` proves `ClientTypeOK`, and
`MetricsHold` proves `MetricsAreComplete`: when the main thread is done, `total` has
the shortest, the longest, the sum and the number of the times that were measured.
`MetricsInv` says which requests each timer stands for at any moment (`Holds`): a
running customer's those it has finished, a customer that is not joined yet nothing the
main thread may read, and `total` those of the customers merged so far (`Merged`). A
sum over a finite set is a recursive function in the library, and what it gives for
one more member needs induction. The induction here goes over the subsets of one
finite set (`SubsetInduction`): the strict subset relation is well-founded, so among
the subsets that fail there would be a smallest. This speaks of sets only, and so
needs none of the library's rules whose parameter is an operator.

*Messages* (`StreamProofs`). `RoundTrip`: `Unmarshal(Marshal(s))` is `s`, for a
list of any length of any 32-bit ints. The arithmetic of one int is a lemma of its
own; the rest is that byte `k` belongs to member `(k - 1) \div 4 + 1`.

*Sockets and stubs* (`StreamProofs`). `WholeAnswers` and `WholeRequests` say nothing of
the bytes on the way, and so are far from inductive. `StreamInv` says where each byte of
the current request and answer is. The buffer of an end that reads starts with what
it has of its message (`Starts`), and what is on the way to it is what follows
there, or the beginning of that (`Follows`): a turn of a loop moves bytes from one to
the other, and a break shortens the second (`ClientBytes`, `ServerBytes`). That
the bytes on the way belong to no other message is due to the two ends taking turns
(`Turns`): while the connection is there, either the request is on its way and its
bytes are counted (`Asking`), or its answer is (`Answering`). After a failure the client's
socket is closed, so that its later calls fail at their first byte (`Sockets`). When
a loop is through, `RoundTrip` makes of the buffer the ints that were sent. From it
follow `StreamTypes` (no loop leaves the buffer of 32 bytes), `AnswersAreWhole` and
`RequestsAreWhole`, for any list of requests, any ints in them, any pieces and a break
at any byte.

Only model-checked: `EveryBarrierIsSet`, `OnlyMutualWaitBlocks`, `DeathIsNoticed`,
`OnlyRefusedHang` and `BothEnd` (liveness under fairness is out of the prover's
reach); what the properties of logs and records say of servers that were started
again; and all properties of logs in the instances of
`replication_lastfirst` and `replication_overlap`.

## 5. Where the code and its comments disagree

* `commitlog_sync`: `sync` does not write "all the left over data"
  (`Server.cpp:82`); up to `BATCH_SIZE - 1` entries stay in memory.
* `recovery_misaligned`: sender and receiver of a recovery log count from
  different indexes (`ServerStub.h:251, 272`). When the backup's last entry is
  not yet committed, it inserts that entry a second time, leaves one in the
  stream, and acknowledges.
* `startup_replay`: a log whose size equals the peer's committed index passes the
  test at `Server.cpp:295` and the replay reads beyond its end.
* `null_worker`: the search for a worker node assigns `NULL` to the stub it then
  calls (`load_balancer/ServerThread.cpp:84`).

## 6. Not modelled

* Hung hosts and servers, timeouts (the code has none), and partitions. A
  heartbeat to a hung server would block the only heartbeat thread; a server
  here answers or is dead.
* A recovery entry that arrives in two pieces and is read short by its single
  `recv` (`ServerStub.h:273`): `Replication` has messages, not bytes.
* I/O errors of the file, which end the process; performance statistics; the
  variants compiled out without `CRC_ENABLED`.
* `ClientTimer::PrintStats`, which divides what `total` holds; getters, setters and
  `Print` of the messages; `set_conn_type`, `close_threads` and the generic socket
  functions of the client, which nobody calls.
* `Init`, `Accept`, `NagleOn`, argument parsing, bind and listen: pure I/O.

## 7. What is left

1. The hand-over between engineer threads and the admin thread at the level of
   the mutex and the condition variable, with `recheck_allow` set outside `mtx`
   between the recheck and its reset.
2. Proofs: the log of a server after its first restart where nobody dies in the
   middle of a broadcast, which is all that holds of one (section 3); a condition on
   `Peers` and `LBOrder` instead of `Graceful`'s second one, under which the next
   master is the backup that was served last.
