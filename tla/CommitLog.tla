----------------------------- MODULE CommitLog ------------------------------
(***************************************************************************)
(* The write-ahead log of one server, its owner's copy in memory           *)
(* (smr_log), and what process crashes and damaged storage do to both.     *)
(*                                                                         *)
(* The owner writes an entry to the CommitLog and then inserts it in       *)
(* smr_log, and on a start it fills smr_log from the file.  Here smr_log   *)
(* is only ever extended at its end; Replication.tla models the positions  *)
(* at which the servers really insert.                                     *)
(***************************************************************************)
EXTENDS CommitLogOps

CONSTANTS
    Entry,        \* the log entries (map_op)
    MaxLog,       \* bound: records in the file and on their way to it
    Damageable    \* TRUE: records of the file can go bad on the disk

ASSUME EntryAssumption == Bad \notin Entry
ASSUME MaxLogAssumption == MaxLog \in Nat
ASSUME DamageableAssumption == Damageable \in BOOLEAN

VARIABLES
    up,           \* the process that owns the log is running
    smr_log,      \* its log in memory
    wal,          \* the CommitLog object and its file
    synced        \* history: how many entries the last sync was called for

vars == <<up, smr_log, wal, synced>>

TypeOK ==
    /\ up \in BOOLEAN
    /\ smr_log \in Seq(Entry)
    /\ wal \in Wal(Entry)
    /\ synced \in Nat

\* The first start: CommitLog::Init opens a new file.
Init ==
    /\ up = TRUE
    /\ smr_log = <<>>
    /\ wal = EmptyWal
    /\ synced = 0

-----------------------------------------------------------------------------
(***************************************************************************)
(* The owner's calls.                                                      *)
(***************************************************************************)

\* writelogwithcrc, then the insertion in smr_log.
Write(e) ==
    /\ up
    /\ Len(wal.file) + Len(wal.buffer) + Len(wal.batch) < MaxLog
    /\ wal' = WriteLog(wal, e)
    /\ smr_log' = Append(smr_log, e)
    /\ UNCHANGED <<up, synced>>

\* sync.
Sync ==
    /\ up
    /\ wal' = Flushed(wal)
    /\ synced' = Len(smr_log)
    /\ UNCHANGED <<up, smr_log>>

\* Init on an existing file, then Recoverwithcrc.
Restart ==
    /\ ~up
    /\ up' = TRUE
    /\ smr_log' = Recovered(wal)
    /\ synced' = Len(smr_log')
    /\ UNCHANGED wal

-----------------------------------------------------------------------------
(***************************************************************************)
(* The environment: stdio, the process's end, and the disk.                *)
(***************************************************************************)

\* stdio writes out a part of its buffer on its own when the buffer is full.
Spill ==
    /\ up
    /\ \E n \in 1 .. Len(wal.buffer) :
          wal' = [wal EXCEPT !.file   = @ \o SubSeq(wal.buffer, 1, n),
                             !.buffer = SubSeq(@, n + 1, Len(@))]
    /\ UNCHANGED <<up, smr_log, synced>>

\* The process ends.  stdio writes out whole pages, and a page is not a whole
\* number of records: a torn record can be left at the end of the file.
Crash ==
    /\ up
    /\ up' = FALSE
    /\ smr_log' = <<>>
    /\ \/ wal' = Lost(wal)
       \/ /\ wal.buffer # <<>>
          /\ wal' = [Lost(wal) EXCEPT !.file = Append(@, Bad)]
    /\ UNCHANGED synced

\* A record of the file no longer matches its checksum.
Damage ==
    /\ Damageable
    /\ \E i \in 1 .. Len(wal.file) : wal' = [wal EXCEPT !.file[i] = Bad]
    /\ UNCHANGED <<up, smr_log, synced>>

Next ==
    \/ \E e \in Entry : Write(e)
    \/ Sync
    \/ Restart
    \/ Spill
    \/ Crash
    \/ Damage

Spec == Init /\ [][Next]_vars

-----------------------------------------------------------------------------
(***************************************************************************)
(* Properties.                                                             *)
(***************************************************************************)

\* Every record on disk is readable.
Intact == Damaged(wal.file) = {}

\* What a restart would read back is a prefix of what the running server has
\* in memory: the checksum lets no damaged record through, and nothing that
\* was written after a damaged record is taken for its successor.
RecoverableIsPrefix == up => IsPrefix(Recovered(wal), smr_log)

\* If writelogwithcrc flushes, a crash costs fewer entries than a batch holds,
\* whatever was logged before, as long as every record on disk is readable.
LossIsBounded ==
    (up /\ Flushing /\ Intact) =>
        Len(smr_log) - Len(Recovered(wal)) < BatchSize

\* "call fflush to write all the left over data to disk" (Server.cpp:82): the
\* entries the server had logged when it last called sync are on disk, and
\* stay there across a crash.
SyncIsDurable == Intact => synced <= Len(Recovered(wal))

\* The log keeps the promise of DurableLog.  What a restart will find plays
\* the abstract log while the process is down.  Without a flush the only bound
\* on the loss is the length of the log.
DL == INSTANCE DurableLog WITH
        log     <- IF up THEN smr_log ELSE Recovered(wal),
        damaged <- ~Intact,
        MaxLoss <- IF Flushing THEN BatchSize - 1 ELSE MaxLog

DurableLogSpec == DL!Spec

=============================================================================
