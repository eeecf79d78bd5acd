---------------------------- MODULE CommitLogOps ----------------------------
(***************************************************************************)
(* The write-ahead log of one server as a value, and what each method of   *)
(* the class CommitLog (CommitLog.cpp, compiled with CRC_ENABLED) does to  *)
(* it.  A log is a record with three places where an entry can be:         *)
(*                                                                         *)
(*   batch   commit_log_w_crc_batch, a vector in the process's memory      *)
(*   buffer  what fwrite has put in the stdio buffer of outfile            *)
(*   file    what the kernel has: it outlives the process                  *)
(*                                                                         *)
(* CommitLog.tla is the state machine of one log; Replication.tla keeps    *)
(* one such value per server.                                              *)
(***************************************************************************)
EXTENDS Integers, Sequences, SequencesExt

CONSTANTS
    Batch,    \* BATCH_SIZE as configured in Server.cpp ("should be 1 or greater")
    FFlush,   \* F_FLUSH: TRUE when every fwrite is followed by fflush
    Bad       \* a record of the file whose bytes do not match their checksum

ASSUME BatchAssumption == Batch \in Nat
ASSUME FFlushAssumption == FFlush \in BOOLEAN

\* CommitLog::Init: a batch size that is not above 1 becomes 1.
BatchSize == IF Batch > 1 THEN Batch ELSE 1

\* writelogwithcrc calls fflush for a batch, or if F_FLUSH is set.
Flushing == FFlush \/ BatchSize > 1

\* The values a log of entries from the set Entry can take.
Wal(Entry) == [batch  : Seq(Entry),
               buffer : Seq(Entry),
               file   : Seq(Entry \cup {Bad})]

EmptyWal == [batch |-> <<>>, buffer |-> <<>>, file |-> <<>>]

\* Slip in sync: nothing is flushed.
NotFlushed(w) == w

\* fflush(outfile), which is all that CommitLog::sync does: the stdio buffer
\* reaches the file, the batch stays where it is.
Flushed(w) == [w EXCEPT !.file = @ \o w.buffer, !.buffer = <<>>]

\* Slip in writelogwithcrc: a full batch is left in the stdio buffer.
WriteLogNoFlush(w, e) ==
    LET full == Append(w.batch, e)
    IN  IF Len(full) < BatchSize THEN [w EXCEPT !.batch = full]
        ELSE [w EXCEPT !.batch = <<>>, !.buffer = @ \o full]

\* CommitLog::writelogwithcrc.  The entry joins the batch; a full batch goes
\* to the stdio buffer, and on to the file if F_FLUSH is set or entries are
\* batched.
WriteLog(w, e) ==
    LET full    == Append(w.batch, e)
        written == [w EXCEPT !.batch = <<>>, !.buffer = @ \o full]
    IN  IF Len(full) < BatchSize THEN [w EXCEPT !.batch = full]
        ELSE IF FFlush \/ BatchSize > 1 THEN Flushed(written)
        ELSE written

\* Slip in Recoverwithcrc: the checksum is not looked at.
RecoveredUnchecked(w) == w.file

\* Slip in Recoverwithcrc: a damaged record is skipped and reading goes on.
RecoveredSkipping(w) == SelectSeq(w.file, LAMBDA e : e # Bad)

\* The records of the file whose checksum is wrong.
Damaged(file) == {i \in 1 .. Len(file) : file[i] = Bad}

\* CommitLog::Recoverwithcrc: read the file from its start and stop at its end
\* or at the first record whose checksum is wrong.
Recovered(w) ==
    IF Damaged(w.file) = {} THEN w.file
    ELSE LET first == CHOOSE i \in Damaged(w.file) : \A j \in Damaged(w.file) : i <= j
         IN  SubSeq(w.file, 1, first - 1)

\* The process ends (kill, Ctrl-C or std::terminate: nothing closes the log).
Lost(w) == [w EXCEPT !.batch = <<>>, !.buffer = <<>>]

=============================================================================
