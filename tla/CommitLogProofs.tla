--------------------------- MODULE CommitLogProofs ---------------------------
(***************************************************************************)
(* What holds of the log of one server for every batch size, every set of  *)
(* entries and every bound: type correctness, RecoverableIsPrefix,         *)
(* LossIsBounded, SyncIsDurable without batches, and that CommitLog        *)
(* implements DurableLog.                                                  *)
(***************************************************************************)
EXTENDS CommitLog, CommitLogOpsLemmas

\* What is in the file, in the stdio buffer and in the batch, in this order.
Joined(file, buffer, batch) == file \o (buffer \o batch)
Written(w) == Joined(w.file, w.buffer, w.batch)

\* The batch is never full between two calls, and nothing waits in the stdio
\* buffer if writelogwithcrc flushes it.
Places(w) ==
    /\ Len(w.batch) < BatchSize
    /\ Flushing => w.buffer = <<>>
    /\ Len(w.file) + Len(w.buffer) + Len(w.batch) <= MaxLog

\* The readable part of the file is a prefix of the log in memory; with no
\* damage, the three places together are that log.
Content(w, log) ==
    /\ Len(Recovered(w)) <= Len(log)
    /\ \A i \in 1 .. Len(Recovered(w)) : w.file[i] = log[i]
    /\ Damaged(w.file) = {} => log = Written(w)

\* The inductive invariant.  A process that has ended holds nothing.
IInv ==
    /\ TypeOK
    /\ Places(wal)
    /\ IF up THEN Content(wal, smr_log)
       ELSE wal.buffer = <<>> /\ wal.batch = <<>>

-----------------------------------------------------------------------------
(***************************************************************************)
(* Logs and what they hold.                                                *)
(***************************************************************************)

\* The sequences of a log.
LEMMA WalSeqs ==
    ASSUME NEW w \in Wal(Entry)
    PROVE  /\ w.file \in Seq(Entry \cup {Bad})
           /\ w.buffer \in Seq(Entry) /\ w.buffer \in Seq(Entry \cup {Bad})
           /\ w.batch \in Seq(Entry) /\ w.batch \in Seq(Entry \cup {Bad})
           /\ Recovered(w) \in Seq(Entry)
BY WalType, EntryAssumption, RecoveredCases

\* Their lengths.
LEMMA WalLens ==
    ASSUME NEW w \in Wal(Entry)
    PROVE  /\ Len(w.file) \in Nat /\ Len(w.buffer) \in Nat /\ Len(w.batch) \in Nat
           /\ Len(Recovered(w)) \in Nat /\ Len(Recovered(w)) <= Len(w.file)
<1>1. Len(w.file) \in Nat /\ Len(w.buffer) \in Nat /\ Len(w.batch) \in Nat
  BY WalSeqs, LenProperties
<1>2. Len(Recovered(w)) \in 0 .. Len(w.file)
  BY EntryAssumption, RecoveredPointwise
<1> QED
  BY <1>1, <1>2

\* A record added to the pending batch is a record added to the log.
LEMMA WrittenAppend ==
    ASSUME NEW w \in Wal(Entry), NEW e \in Entry
    PROVE  /\ w.file \o (w.buffer \o Append(w.batch, e)) = Append(Written(w), e)
           /\ (w.file \o (w.buffer \o Append(w.batch, e))) \o (<<>> \o <<>>)
                = Append(Written(w), e)
<1> DEFINE T == Entry \cup {Bad}
           a == w.file
           b == w.buffer
           c == w.batch
           x == Append(c, e)
<1>0. a \in Seq(T) /\ b \in Seq(T) /\ c \in Seq(T) /\ e \in T
  BY WalSeqs
<1>written. Written(w) = a \o (b \o c)
  BY DEF Written, Joined
<1> HIDE DEF T, a, b, c
<1>1. <<e>> \in Seq(T)
  BY <1>0
<1>2. x \in Seq(T) /\ x = c \o <<e>>
  BY <1>0, AppendProperties, AppendIsConcat
<1> HIDE DEF x
<1>3. b \o c \in Seq(T) /\ b \o x \in Seq(T)
  BY <1>0, <1>2, ConcatProperties
<1>whole. a \o (b \o c) \in Seq(T) /\ a \o (b \o x) \in Seq(T)
  BY <1>0, <1>3, ConcatProperties
<1>4. b \o x = (b \o c) \o <<e>>
  BY <1>0, <1>1, <1>2, ConcatAssociative
<1>5. a \o ((b \o c) \o <<e>>) = (a \o (b \o c)) \o <<e>>
  BY <1>0, <1>1, <1>3, ConcatAssociative
<1>6. (a \o (b \o c)) \o <<e>> = Append(a \o (b \o c), e)
  BY <1>0, <1>whole, AppendIsConcat
<1>7. a \o (b \o x) = Append(Written(w), e)
  BY <1>written, <1>4, <1>5, <1>6
<1>8. (a \o (b \o x)) \o (<<>> \o <<>>) = a \o (b \o x)
  BY <1>whole, EmptySeq, ConcatEmptySeq
<1> QED
  BY <1>7, <1>8 DEF a, b, c, x

\* Records that leave the stdio buffer for the file keep their places.
LEMMA JoinedSpill ==
    ASSUME NEW S, NEW a \in Seq(S), NEW b \in Seq(S), NEW c \in Seq(S), NEW d \in Seq(S)
    PROVE  Joined(a \o b, c, d) = Joined(a, b \o c, d)
<1> DEFINE y == c \o d
<1>1. y \in Seq(S)
  BY ConcatProperties
<1>2. (b \o c) \o d = b \o y
  OBVIOUS
<1> HIDE DEF y
<1>3. (a \o b) \o y = a \o (b \o y)
  BY <1>1
<1> QED
  BY <1>2, <1>3 DEF Joined, y

\* The three places of a log that is all readable, as positions of Written.
LEMMA WrittenSplit ==
    ASSUME NEW w \in Wal(Entry)
    PROVE  /\ Len(Written(w)) = Len(w.file) + Len(w.buffer) + Len(w.batch)
           /\ \A i \in 1 .. Len(w.file) : Written(w)[i] = w.file[i]
<1> DEFINE T == Entry \cup {Bad}
           rest == w.buffer \o w.batch
<1>1. w.file \in Seq(T) /\ w.buffer \in Seq(T) /\ w.batch \in Seq(T)
  BY WalSeqs
<1>2. rest \in Seq(T)
  BY <1>1, ConcatProperties
<1>3. Len(rest) = Len(w.buffer) + Len(w.batch)
  BY <1>1, ConcatProperties
<1>4. Len(Written(w)) = Len(w.file) + Len(rest)
  BY <1>1, <1>2, ConcatProperties DEF Written, Joined
<1>5. \A i \in 1 .. Len(w.file) + Len(rest) :
         Written(w)[i] = IF i <= Len(w.file) THEN w.file[i] ELSE rest[i - Len(w.file)]
  BY <1>1, <1>2, ConcatProperties DEF Written, Joined
<1> HIDE DEF rest
<1>6. PICK f \in Nat, b \in Nat, c \in Nat :
         Len(w.file) = f /\ Len(w.buffer) = b /\ Len(w.batch) = c
  BY WalLens
<1>7. Len(Written(w)) = Len(w.file) + Len(w.buffer) + Len(w.batch)
  BY <1>3, <1>4, <1>6
<1>8. ASSUME NEW i \in 1 .. Len(w.file) PROVE Written(w)[i] = w.file[i]
  <2>1. i \in 1 .. Len(w.file) + Len(rest) /\ i <= Len(w.file)
    BY <1>3, <1>6
  <2> QED
    BY <1>5, <2>1
<1> QED
  BY <1>7, <1>8

\* Adding intact records to the file: it stays as damaged as it was, and what
\* reads back stays the same if it was damaged.
LEMMA FileGrows ==
    ASSUME NEW w \in Wal(Entry), NEW v \in Wal(Entry), NEW t \in Seq(Entry),
           v.file = w.file \o t
    PROVE  /\ Damaged(v.file) = Damaged(w.file)
           /\ Len(v.file) = Len(w.file) + Len(t)
           /\ \A i \in 1 .. Len(w.file) : v.file[i] = w.file[i]
           /\ Damaged(w.file) # {} => Recovered(v) = Recovered(w)
<1> DEFINE r == Recovered(w)
<1>0. w.file \in Seq(Entry \cup {Bad}) /\ t \in Seq(Entry \cup {Bad})
  BY WalSeqs, SeqMonotonic
<1>1. Len(w.file) \in Nat /\ Len(t) \in Nat
  BY WalLens, LenProperties
<1>2. Damaged(v.file) = Damaged(w.file)
  <2>1. Damaged(w.file \o t) = Damaged(w.file)
    BY <1>0, EntryAssumption, DamagedConcat
  <2> QED
    BY <2>1
<1>3. /\ Len(v.file) = Len(w.file) + Len(t)
      /\ \A i \in 1 .. Len(w.file) : v.file[i] = w.file[i]
  BY <1>0, <1>1, ConcatProperties
<1>4. ASSUME Damaged(w.file) # {} PROVE Recovered(v) = Recovered(w)
  <2>1. /\ Len(r) \in 0 .. Len(w.file)
        /\ \A i \in 1 .. Len(r) : r[i] = w.file[i] /\ w.file[i] # Bad
        /\ Len(r) = Len(w.file) \/ w.file[Len(r) + 1] = Bad
    BY EntryAssumption, RecoveredPointwise
  <2>2. PICK d \in 1 .. Len(w.file) : w.file[d] = Bad
    BY <1>4 DEF Damaged
  <2> HIDE DEF r
  <2>3. Len(r) # Len(w.file)
    BY <2>1, <2>2
  <2>4. Len(r) + 1 \in 1 .. Len(w.file)
    BY <2>1, <2>3, <1>1
  <2>5. v.file[Len(r) + 1] = w.file[Len(r) + 1]
    BY <1>3, <2>4
  <2>6. Len(r) < Len(v.file) /\ v.file[Len(r) + 1] = Bad
    BY <1>1, <1>3, <2>1, <2>3, <2>5
  <2>7. \A i \in 1 .. Len(r) : v.file[i] = w.file[i]
    BY <1>1, <1>3, <2>1
  <2>8. Len(r) <= Len(v.file)
    BY <1>1, <1>3, <2>1
  <2> QED
    BY <2>6, <2>7, <2>8, EntryAssumption, RecoveredAgree DEF r
<1> QED
  BY <1>2, <1>3, <1>4

\* A log whose file grows while the log in memory keeps what it had.
LEMMA ContentGrows ==
    ASSUME NEW w \in Wal(Entry), NEW v \in Wal(Entry), NEW t \in Seq(Entry),
           NEW log \in Seq(Entry), NEW log2 \in Seq(Entry),
           v.file = w.file \o t,
           Len(log) <= Len(log2),
           \A i \in 1 .. Len(log) : log2[i] = log[i],
           log = Written(w) => log2 = Written(v),
           Content(w, log)
    PROVE  Content(v, log2)
<1>1. /\ Damaged(v.file) = Damaged(w.file)
      /\ Damaged(w.file) # {} => Recovered(v) = Recovered(w)
      /\ \A i \in 1 .. Len(w.file) : v.file[i] = w.file[i]
  BY FileGrows
<1>2. /\ Len(log) \in Nat /\ Len(log2) \in Nat
      /\ Len(w.file) \in Nat /\ Len(v.file) \in Nat
      /\ Len(v.buffer) \in Nat /\ Len(v.batch) \in Nat
      /\ Len(Recovered(w)) \in Nat /\ Len(Recovered(w)) <= Len(w.file)
  BY WalLens, LenProperties
<1>3. CASE Damaged(w.file) = {}
  <2>1. log2 = Written(v) /\ Recovered(v) = v.file
    BY <1>1, <1>3, EntryAssumption, RecoveredCases DEF Content
  <2>2. Len(log2) = Len(v.file) + Len(v.buffer) + Len(v.batch)
    BY <2>1, WrittenSplit
  <2>3. Len(v.file) <= Len(log2)
    <3>1. PICK f \in Nat, b \in Nat, c \in Nat :
             Len(v.file) = f /\ Len(v.buffer) = b /\ Len(v.batch) = c
      BY WalLens
    <3> QED
      BY <2>2, <3>1
  <2>4. \A i \in 1 .. Len(Recovered(v)) : v.file[i] = log2[i]
    BY <2>1, WrittenSplit
  <2> QED
    BY <2>1, <2>3, <2>4 DEF Content
<1>4. CASE Damaged(w.file) # {}
  <2>1. Recovered(v) = Recovered(w) /\ Damaged(v.file) # {}
    BY <1>1, <1>4
  <2>2. /\ Len(Recovered(w)) <= Len(log)
        /\ \A i \in 1 .. Len(Recovered(w)) : w.file[i] = log[i]
    BY DEF Content
  <2>3. Len(Recovered(w)) <= Len(log2)
    BY <1>2, <2>2
  <2>4. \A i \in 1 .. Len(Recovered(w)) : v.file[i] = log2[i]
    <3> TAKE i \in 1 .. Len(Recovered(w))
    <3>1. i \in 1 .. Len(w.file) /\ i \in 1 .. Len(log)
      BY <1>2, <2>2
    <3> QED
      BY <1>1, <2>2, <3>1
  <2> QED
    BY <2>1, <2>3, <2>4 DEF Content
<1> QED
  BY <1>3, <1>4

\* writelogwithcrc, followed by the insertion at the end of the log.
LEMMA WriteKeeps ==
    ASSUME NEW w \in Wal(Entry), NEW log \in Seq(Entry), NEW e \in Entry,
           Places(w), Content(w, log),
           Len(w.file) + Len(w.buffer) + Len(w.batch) < MaxLog
    PROVE  /\ Places(WriteLog(w, e))
           /\ Content(WriteLog(w, e), Append(log, e))
           /\ Damaged(WriteLog(w, e).file) = Damaged(w.file)
<1> DEFINE v == WriteLog(w, e)
           full == Append(w.batch, e)
<1>1. /\ w.file \in Seq(Entry \cup {Bad})
      /\ w.buffer \in Seq(Entry) /\ w.buffer \in Seq(Entry \cup {Bad})
      /\ w.batch \in Seq(Entry) /\ w.batch \in Seq(Entry \cup {Bad})
  BY WalSeqs
<1>2. PICK f \in Nat, b \in Nat, c \in Nat :
         Len(w.file) = f /\ Len(w.buffer) = b /\ Len(w.batch) = c
  BY WalLens
<1>3. /\ full \in Seq(Entry)
      /\ w.buffer \o full \in Seq(Entry)
  BY <1>1, AppendProperties, ConcatProperties
<1>lenFull. Len(full) = Len(w.batch) + 1
  BY <1>1, AppendProperties
<1>lenBuffer. Len(w.buffer \o full) = Len(w.buffer) + Len(full)
  BY <1>1, <1>3, ConcatProperties
<1>4. v \in Wal(Entry)
  BY WriteLogFields
<1>5. /\ Append(log, e) \in Seq(Entry)
      /\ Len(log) \in Nat /\ Len(Append(log, e)) = Len(log) + 1
      /\ \A i \in 1 .. Len(log) : Append(log, e)[i] = log[i]
  BY AppendProperties, LenProperties
<1>6. <<>> \in Seq(Entry) /\ w.file \o <<>> = w.file
  BY <1>1, EmptySeq, ConcatEmptySeq
<1>lenEmpty. Len(<<>>) = 0 /\ BatchSize \in Nat \ {0}
  BY EmptySeq, BatchSizeType
<1>7. \E t \in Seq(Entry) :
         /\ v.file = w.file \o t
         /\ Len(t) + Len(v.buffer) + Len(v.batch) = Len(w.buffer) + Len(w.batch) + 1
         /\ Len(v.batch) < BatchSize
         /\ Flushing => v.buffer = <<>>
         /\ Written(v) = Append(Written(w), e)
  <2>1. CASE Len(w.batch) + 1 < BatchSize
    <3>1. v.file = w.file /\ v.buffer = w.buffer /\ v.batch = full
      BY <2>1, WriteLogFields
    <3>2. w.file \o (w.buffer \o full) = Append(Written(w), e)
      BY WrittenAppend
    <3> HIDE DEF v, full
    <3>3. Written(v) = Append(Written(w), e)
      BY <3>1, <3>2 DEF Written, Joined
    <3>4. Len(<<>>) + Len(v.buffer) + Len(v.batch) = Len(w.buffer) + Len(w.batch) + 1
      BY <1>2, <1>lenFull, <1>lenEmpty, <3>1
    <3>5. /\ Len(v.batch) < BatchSize
          /\ Flushing => v.buffer = <<>>
          /\ v.file = w.file \o <<>>
      BY <1>6, <1>lenFull, <2>1, <3>1 DEF Places
    <3> QED
      BY <1>6, <3>3, <3>4, <3>5
  <2>2. CASE ~(Len(w.batch) + 1 < BatchSize) /\ (FFlush \/ BatchSize > 1)
    <3>1. /\ v.file = w.file \o (w.buffer \o full)
          /\ v.buffer = <<>> /\ v.batch = <<>>
      BY <2>2, WriteLogFields
    <3>2. (w.file \o (w.buffer \o full)) \o (<<>> \o <<>>) = Append(Written(w), e)
      BY WrittenAppend
    <3> HIDE DEF v, full
    <3>3. Written(v) = Append(Written(w), e)
      BY <3>1, <3>2 DEF Written, Joined
    <3>4. /\ Len(w.buffer \o full) + Len(v.buffer) + Len(v.batch)
                = Len(w.buffer) + Len(w.batch) + 1
          /\ Len(v.batch) < BatchSize
      BY <1>2, <1>lenFull, <1>lenBuffer, <1>lenEmpty, <3>1
    <3> QED
      BY <1>3, <3>1, <3>3, <3>4
  <2>3. CASE ~(Len(w.batch) + 1 < BatchSize) /\ ~(FFlush \/ BatchSize > 1)
    <3>1. v.file = w.file /\ v.buffer = w.buffer \o full /\ v.batch = <<>>
      BY <2>3, WriteLogFields
    <3>2. w.file \o ((w.buffer \o full) \o <<>>) = Append(Written(w), e)
      <4>1. (w.buffer \o full) \o <<>> = w.buffer \o full
        BY <1>3, ConcatEmptySeq
      <4> QED
        BY WrittenAppend, <4>1
    <3>3. ~Flushing
      BY <2>3 DEF Flushing
    <3> HIDE DEF v, full
    <3>4. Written(v) = Append(Written(w), e)
      BY <3>1, <3>2 DEF Written, Joined
    <3>5. /\ Len(<<>>) + Len(v.buffer) + Len(v.batch) = Len(w.buffer) + Len(w.batch) + 1
          /\ Len(v.batch) < BatchSize
      BY <1>2, <1>lenFull, <1>lenBuffer, <1>lenEmpty, <3>1
    <3> QED
      BY <1>6, <3>1, <3>3, <3>4, <3>5
  <2> QED
    BY <2>1, <2>2, <2>3
<1> HIDE DEF v
<1>8. PICK t \in Seq(Entry) :
         /\ v.file = w.file \o t
         /\ Len(t) + Len(v.buffer) + Len(v.batch) = Len(w.buffer) + Len(w.batch) + 1
         /\ Len(v.batch) < BatchSize
         /\ Flushing => v.buffer = <<>>
         /\ Written(v) = Append(Written(w), e)
  BY <1>7
<1>9. Damaged(v.file) = Damaged(w.file) /\ Len(v.file) = Len(w.file) + Len(t)
  BY <1>4, <1>8, FileGrows
<1>10. Places(v)
  <2>1. PICK x \in Nat, y \in Nat, z \in Nat :
           Len(t) = x /\ Len(v.buffer) = y /\ Len(v.batch) = z
    BY <1>4, WalLens, LenProperties
  <2>2. /\ Len(v.file) = Len(w.file) + Len(t)
        /\ Len(t) + Len(v.buffer) + Len(v.batch) = Len(w.buffer) + Len(w.batch) + 1
    BY <1>8, <1>9
  <2>3. Len(v.file) + Len(v.buffer) + Len(v.batch) <= MaxLog
    <3>1. f + b + c < MaxLog
      BY <1>2
    <3> QED
      BY <1>2, <2>1, <2>2, <3>1, MaxLogAssumption
  <2> QED
    BY <1>8, <2>3 DEF Places
<1>11. Content(v, Append(log, e))
  <2>1. log = Written(w) => Append(log, e) = Written(v)
    BY <1>8
  <2>2. Len(log) <= Len(Append(log, e))
    BY <1>5
  <2> QED
    BY <1>4, <1>5, <1>8, <2>1, <2>2, ContentGrows
<1> QED
  BY <1>9, <1>10, <1>11 DEF v

\* The stdio buffer, or a part of it, is written out.
LEMMA SpillKeeps ==
    ASSUME NEW w \in Wal(Entry), NEW v \in Wal(Entry), NEW log \in Seq(Entry),
           NEW t \in Seq(Entry), NEW u \in Seq(Entry),
           w.buffer = t \o u,
           v.file = w.file \o t, v.buffer = u, v.batch = w.batch
    PROVE  /\ Places(w) => Places(v)
           /\ Content(w, log) => Content(v, log)
           /\ Damaged(v.file) = Damaged(w.file)
<1>1. /\ w.file \in Seq(Entry \cup {Bad}) /\ w.batch \in Seq(Entry \cup {Bad})
      /\ t \in Seq(Entry \cup {Bad}) /\ u \in Seq(Entry \cup {Bad})
  BY WalSeqs, SeqMonotonic
<1>2. Len(w.buffer) = Len(t) + Len(u)
  BY ConcatProperties
<1>3. Damaged(v.file) = Damaged(w.file) /\ Len(v.file) = Len(w.file) + Len(t)
  BY FileGrows
<1>4. Written(w) = Written(v)
  <2>1. Joined(w.file \o t, u, w.batch) = Joined(w.file, t \o u, w.batch)
    BY <1>1, JoinedSpill
  <2>2. Written(w) = Joined(w.file, t \o u, w.batch)
    BY DEF Written, Joined
  <2>3. Written(v) = Joined(w.file \o t, u, w.batch)
    BY DEF Written, Joined
  <2> QED
    BY <2>1, <2>2, <2>3
<1>5. ASSUME Places(w) PROVE Places(v)
  <2>1. Len(v.file) + Len(v.buffer) + Len(v.batch) <= MaxLog
    <3>1. PICK f \in Nat, c \in Nat, x \in Nat, y \in Nat :
             Len(w.file) = f /\ Len(w.batch) = c /\ Len(t) = x /\ Len(u) = y
      BY WalLens, LenProperties
    <3>2. Len(w.file) + Len(w.buffer) + Len(w.batch) <= MaxLog
      BY <1>5 DEF Places
    <3> QED
      BY <1>2, <1>3, <3>1, <3>2, MaxLogAssumption
  <2>2. t \o u = <<>> => u = <<>>
    BY ConcatEqualIffEmpty
  <2> QED
    BY <1>5, <2>1, <2>2 DEF Places
<1>6. ASSUME Content(w, log) PROVE Content(v, log)
  <2>1. Len(log) <= Len(log)
    BY LenProperties
  <2>2. \A i \in 1 .. Len(log) : log[i] = log[i]
    OBVIOUS
  <2> QED
    BY <1>4, <1>6, <2>1, <2>2, ContentGrows
<1> QED
  BY <1>3, <1>5, <1>6

\* A record goes bad.  What can still be read is a part of what could be read.
LEMMA DamageKeeps ==
    ASSUME NEW w \in Wal(Entry), NEW d \in 1 .. Len(w.file)
    PROVE  LET v == [w EXCEPT !.file[d] = Bad]
           IN  /\ v \in Wal(Entry)
               /\ v.buffer = w.buffer /\ v.batch = w.batch
               /\ Len(v.file) = Len(w.file)
               /\ Damaged(v.file) # {}
               /\ Len(Recovered(v)) <= Len(Recovered(w))
               /\ \A i \in 1 .. Len(Recovered(v)) :
                     v.file[i] = w.file[i] /\ Recovered(v)[i] = Recovered(w)[i]
<1> DEFINE v == [w EXCEPT !.file[d] = Bad]
           g == [w.file EXCEPT ![d] = Bad]
<1>1. w.file \in Seq(Entry \cup {Bad})
  BY WalSeqs
<1>2. /\ g \in Seq(Entry \cup {Bad})
      /\ Len(g) = Len(w.file)
      /\ \A j \in 1 .. Len(w.file) : g[j] = IF j = d THEN Bad ELSE w.file[j]
  <2>1. Bad \in Entry \cup {Bad}
    OBVIOUS
  <2> HIDE DEF g
  <2>2. g = [w.file EXCEPT ![d] = Bad]
    BY DEF g
  <2> QED
    BY <1>1, <2>1, <2>2, ExceptSeq
<1>3. v \in Wal(Entry) /\ v.file = g /\ v.buffer = w.buffer /\ v.batch = w.batch
  <2>1. v = [w EXCEPT !.file = g]
    BY DEF Wal
  <2> HIDE DEF g
  <2> QED
    BY <1>2, <2>1 DEF Wal
<1> HIDE DEF v, g
<1>4. /\ Len(Recovered(v)) \in 0 .. Len(v.file)
      /\ \A i \in 1 .. Len(Recovered(v)) : Recovered(v)[i] = v.file[i] /\ v.file[i] # Bad
  BY <1>3, EntryAssumption, RecoveredPointwise
<1>5. /\ Len(Recovered(w)) \in 0 .. Len(w.file)
      /\ \A i \in 1 .. Len(Recovered(w)) : Recovered(w)[i] = w.file[i] /\ w.file[i] # Bad
      /\ Len(Recovered(w)) = Len(w.file) \/ w.file[Len(Recovered(w)) + 1] = Bad
  BY EntryAssumption, RecoveredPointwise
<1>6. PICK n \in Nat, r \in Nat, s \in Nat :
         Len(w.file) = n /\ Len(Recovered(w)) = r /\ Len(Recovered(v)) = s
  BY <1>3, WalLens
<1>7. \A j \in 1 .. n : v.file[j] # Bad => v.file[j] = w.file[j] /\ w.file[j] # Bad
  BY <1>2, <1>3, <1>6
<1>8. r <= n /\ s <= n
  BY <1>2, <1>3, <1>4, <1>5, <1>6
<1>9. s <= r
  <2> SUFFICES ASSUME r < s PROVE FALSE
    OBVIOUS
  <2>1. r + 1 \in 1 .. s /\ r + 1 \in 1 .. n /\ r # n
    BY <1>8
  <2>2. v.file[r + 1] # Bad
    BY <1>4, <1>6, <2>1
  <2>3. w.file[r + 1] # Bad
    BY <1>7, <2>1, <2>2
  <2> QED
    BY <1>5, <1>6, <2>1, <2>3
<1>10. \A i \in 1 .. s : v.file[i] = w.file[i] /\ Recovered(v)[i] = Recovered(w)[i]
  <2> TAKE i \in 1 .. s
  <2>1. i \in 1 .. n /\ i \in 1 .. r
    BY <1>8, <1>9
  <2>2. v.file[i] # Bad /\ Recovered(v)[i] = v.file[i]
    BY <1>4, <1>6
  <2>3. v.file[i] = w.file[i]
    BY <1>7, <2>1, <2>2
  <2>4. Recovered(w)[i] = w.file[i]
    BY <1>5, <1>6, <2>1
  <2> QED
    BY <2>2, <2>3, <2>4
<1>11. Damaged(v.file) # {}
  <2>1. d \in 1 .. Len(v.file) /\ v.file[d] = Bad
    BY <1>2, <1>3
  <2> QED
    BY <2>1 DEF Damaged
<1>12. Len(v.file) = Len(w.file)
  BY <1>2, <1>3
<1> QED
  BY <1>3, <1>6, <1>9, <1>10, <1>11, <1>12 DEF v

\* A log that has just been read back.
LEMMA RestartContent ==
    ASSUME NEW w \in Wal(Entry), w.buffer = <<>>, w.batch = <<>>
    PROVE  Content(w, Recovered(w))
<1>1. /\ Len(Recovered(w)) \in Nat
      /\ \A i \in 1 .. Len(Recovered(w)) : Recovered(w)[i] = w.file[i]
  BY WalLens, EntryAssumption, RecoveredPointwise
<1>2. ASSUME Damaged(w.file) = {} PROVE Recovered(w) = Written(w)
  <2>1. Recovered(w) = w.file
    BY <1>2, EntryAssumption, RecoveredCases
  <2>2. <<>> \o <<>> = <<>> /\ w.file \o <<>> = w.file
    BY WalSeqs, ConcatEmptySeq
  <2> QED
    BY <2>1, <2>2 DEF Written, Joined
<1> QED
  BY <1>1, <1>2 DEF Content

-----------------------------------------------------------------------------
(***************************************************************************)
(* The inductive invariant: one step per action.                           *)
(***************************************************************************)

LEMMA InitIInv == Init => IInv
<1> SUFFICES ASSUME Init PROVE IInv
  OBVIOUS
<1>1. wal \in Wal(Entry) /\ smr_log = <<>> /\ smr_log \in Seq(Entry) /\ Len(<<>>) = 0
  BY EmptyWalType, EmptySeq DEF Init
<1>2. TypeOK
  BY <1>1 DEF Init, TypeOK
<1>3. wal.file = <<>> /\ wal.buffer = <<>> /\ wal.batch = <<>>
  BY DEF Init, EmptyWal
<1>4. Places(wal)
  BY <1>1, <1>3, BatchSizeType, MaxLogAssumption DEF Places
<1>5. Damaged(wal.file) = {}
  BY <1>1, <1>3 DEF Damaged
<1>6. Recovered(wal) = smr_log
  BY <1>1, <1>3, <1>5, EntryAssumption, RecoveredCases
<1>7. Content(wal, smr_log)
  BY <1>1, <1>3, <1>6, RestartContent
<1> QED
  BY <1>2, <1>4, <1>7 DEF IInv, Init

LEMMA NextIInv == IInv /\ [Next]_vars => IInv'
<1> SUFFICES ASSUME IInv, [Next]_vars PROVE IInv'
  OBVIOUS
<1>1. /\ up \in BOOLEAN /\ smr_log \in Seq(Entry) /\ wal \in Wal(Entry) /\ synced \in Nat
      /\ Places(wal)
      /\ up => Content(wal, smr_log)
      /\ ~up => wal.buffer = <<>> /\ wal.batch = <<>>
  BY DEF IInv, TypeOK
<1>2. ASSUME NEW e \in Entry, Write(e) PROVE IInv'
  <2>1. /\ up /\ up' = up /\ synced' = synced
        /\ wal' = WriteLog(wal, e) /\ smr_log' = Append(smr_log, e)
        /\ Len(wal.file) + Len(wal.buffer) + Len(wal.batch) < MaxLog
    BY <1>2 DEF Write
  <2>2. wal' \in Wal(Entry) /\ smr_log' \in Seq(Entry)
    BY <1>1, <2>1, WriteLogFields, AppendProperties
  <2>3. Places(wal)' /\ Content(wal', smr_log')
    BY <1>1, <2>1, WriteKeeps DEF Places
  <2> QED
    BY <1>1, <2>1, <2>2, <2>3 DEF IInv, TypeOK
<1>3. CASE Sync
  <2>1. up /\ up' = up /\ wal' = Flushed(wal) /\ smr_log' = smr_log /\ synced' = Len(smr_log)
    BY <1>3 DEF Sync
  <2>2. /\ wal' \in Wal(Entry) /\ wal'.file = wal.file \o wal.buffer
        /\ wal'.buffer = <<>> /\ wal'.batch = wal.batch
    BY <1>1, <2>1, FlushedFields
  <2>3. wal.buffer \in Seq(Entry) /\ <<>> \in Seq(Entry) /\ wal.buffer = wal.buffer \o <<>>
    BY <1>1, WalSeqs, EmptySeq, ConcatEmptySeq
  <2>4. Places(wal)' /\ Content(wal', smr_log)
    BY <1>1, <2>1, <2>2, <2>3, SpillKeeps DEF Places
  <2>5. synced' \in Nat
    BY <1>1, <2>1, LenProperties
  <2> QED
    BY <1>1, <2>1, <2>2, <2>4, <2>5 DEF IInv, TypeOK
<1>4. CASE Restart
  <2>1. /\ ~up /\ up' = TRUE /\ wal' = wal /\ smr_log' = Recovered(wal)
        /\ synced' = Len(smr_log')
    BY <1>4 DEF Restart
  <2>2. smr_log' \in Seq(Entry) /\ synced' \in Nat
    BY <1>1, <2>1, WalSeqs, WalLens
  <2>3. Content(wal', smr_log')
    BY <1>1, <2>1, RestartContent
  <2> QED
    BY <1>1, <2>1, <2>2, <2>3 DEF IInv, TypeOK, Places
<1>5. CASE Spill
  <2>1. PICK n \in 1 .. Len(wal.buffer) :
           wal' = [wal EXCEPT !.file   = @ \o SubSeq(wal.buffer, 1, n),
                              !.buffer = SubSeq(@, n + 1, Len(@))]
    BY <1>5 DEF Spill
  <2>2. up /\ up' = up /\ smr_log' = smr_log /\ synced' = synced
    BY <1>5 DEF Spill
  <2> DEFINE t == SubSeq(wal.buffer, 1, n)
             u == SubSeq(wal.buffer, n + 1, Len(wal.buffer))
  <2>3. wal.buffer \in Seq(Entry) /\ Len(wal.buffer) \in Nat /\ wal.file \in Seq(Entry \cup {Bad})
    BY <1>1, WalSeqs, WalLens
  <2>4. t \in Seq(Entry) /\ u \in Seq(Entry)
    BY <2>3, SubSeqProperties, ElementOfSeq
  <2>5. wal.buffer = t \o u
    <3>1. 1 \in 1 .. Len(wal.buffer) + 1 /\ n \in 1 - 1 .. Len(wal.buffer)
          /\ Len(wal.buffer) \in n .. Len(wal.buffer)
      BY <2>3
    <3>2. t \o u = SubSeq(wal.buffer, 1, Len(wal.buffer))
      BY <2>3, <3>1, ConcatAdjacentSubSeq
    <3> QED
      BY <2>3, <3>2, SubSeqFull
  <2>6. wal.file \o t \in Seq(Entry \cup {Bad})
    BY <2>3, <2>4, SeqMonotonic, ConcatProperties
  <2>7. wal' \in Wal(Entry) /\ wal'.file = wal.file \o t /\ wal'.buffer = u /\ wal'.batch = wal.batch
    BY <1>1, <2>1, <2>4, <2>6 DEF Wal
  <2> HIDE DEF t, u
  <2>8. Places(wal') /\ Content(wal', smr_log)
    BY <1>1, <2>2, <2>4, <2>5, <2>7, SpillKeeps
  <2> QED
    BY <1>1, <2>2, <2>7, <2>8 DEF IInv, TypeOK, Places
<1>6. CASE Crash
  <2>1. up' = FALSE /\ smr_log' = <<>> /\ synced' = synced
    BY <1>6 DEF Crash
  <2>2. /\ Lost(wal) \in Wal(Entry) /\ Lost(wal).file = wal.file
        /\ Lost(wal).buffer = <<>> /\ Lost(wal).batch = <<>>
    BY <1>1, LostFields
  <2>3. <<>> \in Seq(Entry) /\ Len(<<>>) = 0 /\ BatchSize \in Nat \ {0}
    BY EmptySeq, BatchSizeType
  <2>4. PICK f \in Nat, b \in Nat, c \in Nat :
           Len(wal.file) = f /\ Len(wal.buffer) = b /\ Len(wal.batch) = c
    BY <1>1, WalLens
  <2>5. f + b + c <= MaxLog
    BY <1>1, <2>4 DEF Places
  <2>6. CASE wal' = Lost(wal)
    <3>1. Places(wal')
      <4>1. Len(wal'.file) = f /\ Len(wal'.buffer) = 0 /\ Len(wal'.batch) = 0
        BY <2>2, <2>3, <2>4, <2>6
      <4>2. f + 0 + 0 <= MaxLog
        BY <2>5, MaxLogAssumption
      <4>3. Len(wal'.file) + Len(wal'.buffer) + Len(wal'.batch) <= MaxLog
        BY <4>1, <4>2
      <4>4. Len(wal'.batch) < BatchSize /\ wal'.buffer = <<>>
        BY <2>2, <2>3, <2>6, <4>1
      <4> QED
        BY <4>3, <4>4 DEF Places
    <3> QED
      BY <1>1, <2>1, <2>2, <2>3, <2>6, <3>1 DEF IInv, TypeOK, Places
  <2>7. CASE wal.buffer # <<>> /\ wal' = [Lost(wal) EXCEPT !.file = Append(@, Bad)]
    <3>1. wal.file \in Seq(Entry \cup {Bad}) /\ wal.buffer \in Seq(Entry)
      BY <1>1, WalSeqs
    <3>2. Append(wal.file, Bad) \in Seq(Entry \cup {Bad})
          /\ Len(Append(wal.file, Bad)) = Len(wal.file) + 1
      BY <3>1, AppendProperties
    <3>3. /\ wal' \in Wal(Entry) /\ wal'.file = Append(wal.file, Bad)
          /\ wal'.buffer = <<>> /\ wal'.batch = <<>>
      BY <2>2, <2>7, <3>2 DEF Wal
    <3>4. b # 0
      BY <2>4, <2>7, <3>1, EmptySeq
    <3>5. Places(wal')
      <4>1. Len(wal'.file) = f + 1 /\ Len(wal'.buffer) = 0 /\ Len(wal'.batch) = 0
        BY <2>3, <2>4, <3>2, <3>3
      <4>2. (f + 1) + 0 + 0 <= MaxLog
        BY <2>5, <3>4, MaxLogAssumption
      <4>3. Len(wal'.batch) < BatchSize
        BY <2>3, <4>1
      <4>4. Len(wal'.file) + Len(wal'.buffer) + Len(wal'.batch) <= MaxLog
        BY <4>1, <4>2
      <4> QED
        BY <3>3, <4>3, <4>4 DEF Places
    <3> QED
      BY <1>1, <2>1, <2>3, <3>3, <3>5 DEF IInv, TypeOK, Places
  <2> QED
    BY <1>6, <2>6, <2>7 DEF Crash
<1>7. CASE Damage
  <2>1. PICK d \in 1 .. Len(wal.file) : wal' = [wal EXCEPT !.file[d] = Bad]
    BY <1>7 DEF Damage
  <2>2. up' = up /\ smr_log' = smr_log /\ synced' = synced
    BY <1>7 DEF Damage
  <2>3. /\ wal' \in Wal(Entry)
        /\ wal'.buffer = wal.buffer /\ wal'.batch = wal.batch
        /\ Len(wal'.file) = Len(wal.file)
        /\ Damaged(wal'.file) # {}
        /\ Len(Recovered(wal')) <= Len(Recovered(wal))
        /\ \A i \in 1 .. Len(Recovered(wal')) : wal'.file[i] = wal.file[i]
    BY <1>1, <2>1, DamageKeeps
  <2>4. Places(wal')
    BY <1>1, <2>3 DEF Places
  <2>5. ASSUME up PROVE Content(wal', smr_log)
    <3>1. Content(wal, smr_log)
      BY <1>1, <2>5
    <3>2. PICK r \in Nat, s \in Nat, n \in Nat :
             Len(Recovered(wal)) = r /\ Len(Recovered(wal')) = s /\ Len(smr_log) = n
      BY <1>1, <2>3, WalLens, LenProperties
    <3>3. s <= r /\ r <= n
      BY <2>3, <3>1, <3>2 DEF Content
    <3>4. \A i \in 1 .. s : wal'.file[i] = smr_log[i]
      BY <2>3, <3>1, <3>2, <3>3 DEF Content
    <3> QED
      BY <2>3, <3>2, <3>3, <3>4 DEF Content
  <2> QED
    BY <1>1, <2>2, <2>3, <2>4, <2>5 DEF IInv, TypeOK, Places
<1>8. CASE UNCHANGED vars
  BY <1>8 DEF vars, IInv, TypeOK, Places, Content
<1> QED
  BY <1>2, <1>3, <1>4, <1>5, <1>6, <1>7, <1>8 DEF Next

\* The invariant holds in every reachable state.
THEOREM Invariance == Spec => []IInv
<1>1. Init => IInv
  BY InitIInv
<1>2. IInv /\ [Next]_vars => IInv'
  BY NextIInv
<1> QED
  BY <1>1, <1>2, PTL DEF Spec

\* Every variable keeps its type, for every batch size and every set of entries.
THEOREM TypeCorrect == Spec => []TypeOK
<1>1. IInv => TypeOK
  BY DEF IInv
<1> QED
  BY <1>1, Invariance, PTL

-----------------------------------------------------------------------------
(***************************************************************************)
(* What the invariant says about restarts and crashes.                     *)
(***************************************************************************)

\* The readable part of the file is the log in memory up to its length.
LEMMA RecoveredIsSubSeq ==
    ASSUME NEW w \in Wal(Entry), NEW log \in Seq(Entry), Content(w, log)
    PROVE  /\ Len(Recovered(w)) \in 0 .. Len(log)
           /\ Recovered(w) = SubSeq(log, 1, Len(Recovered(w)))
<1>1. PICK r \in Nat, n \in Nat : Len(Recovered(w)) = r /\ Len(log) = n
  BY WalLens, LenProperties
<1>2. r <= n /\ \A i \in 1 .. r : w.file[i] = log[i]
  BY <1>1 DEF Content
<1>3. \A i \in 1 .. r : Recovered(w)[i] = log[i]
  BY <1>1, <1>2, EntryAssumption, RecoveredPointwise
<1>4. \A i \in 1 .. r : log[i] \in Entry
  BY <1>1, <1>2, ElementOfSeq
<1>5. /\ SubSeq(log, 1, r) \in Seq(Entry)
      /\ Len(SubSeq(log, 1, r)) = IF 1 <= r THEN r - 1 + 1 ELSE 0
      /\ \A i \in 1 .. r - 1 + 1 : SubSeq(log, 1, r)[i] = log[1 + i - 1]
  BY <1>4, SubSeqProperties
<1>6. Recovered(w) \in Seq(Entry)
  BY WalSeqs
<1>7. Len(SubSeq(log, 1, r)) = Len(Recovered(w))
  BY <1>1, <1>5
<1>8. \A i \in 1 .. Len(Recovered(w)) : Recovered(w)[i] = SubSeq(log, 1, r)[i]
  BY <1>1, <1>3, <1>5
<1>9. Recovered(w) = SubSeq(log, 1, r)
  BY <1>5, <1>6, <1>7, <1>8, SeqEqual
<1> QED
  BY <1>1, <1>2, <1>9

\* What a restart reads back is a prefix of what the running server has logged:
\* no damaged record gets through, and nothing written after one is taken for
\* its successor.
THEOREM ReadBackIsPrefix == Spec => []RecoverableIsPrefix
<1>1. IInv => RecoverableIsPrefix
  <2> SUFFICES ASSUME IInv, up PROVE IsPrefix(Recovered(wal), smr_log)
    BY DEF RecoverableIsPrefix
  <2>1. wal \in Wal(Entry) /\ smr_log \in Seq(Entry) /\ Content(wal, smr_log)
    BY DEF IInv, TypeOK
  <2>2. /\ Len(Recovered(wal)) \in 0 .. Len(smr_log)
        /\ Recovered(wal) = SubSeq(smr_log, 1, Len(Recovered(wal)))
    BY <2>1, RecoveredIsSubSeq
  <2>3. SubSeq(Recovered(wal), 1, Len(Recovered(wal))) = Recovered(wal)
    BY <2>1, WalSeqs, SubSeqFull
  <2>4. Len(Recovered(wal)) <= Len(smr_log)
    BY <2>1, <2>2, LenProperties
  <2> QED
    BY <2>2, <2>3, <2>4 DEF IsPrefix
<1> QED
  BY <1>1, Invariance, PTL

\* How many entries of the log in memory an undamaged file does not have.
LEMMA Shortfall ==
    ASSUME IInv, up, Intact
    PROVE  Len(smr_log) - Len(Recovered(wal)) = Len(wal.buffer) + Len(wal.batch)
<1>1. wal \in Wal(Entry) /\ smr_log = Written(wal)
  BY DEF IInv, TypeOK, Content, Intact
<1>2. Recovered(wal) = wal.file
  BY <1>1, EntryAssumption, RecoveredCases DEF Intact
<1>3. PICK f \in Nat, b \in Nat, c \in Nat :
         Len(wal.file) = f /\ Len(wal.buffer) = b /\ Len(wal.batch) = c
  BY <1>1, WalLens
<1>4. Len(smr_log) = f + b + c
  BY <1>1, <1>3, WrittenSplit
<1> QED
  BY <1>2, <1>3, <1>4

\* When writelogwithcrc flushes, the disk is never a full batch behind.
THEOREM CrashLosesLessThanABatch == Spec => []LossIsBounded
<1>1. IInv => LossIsBounded
  <2> SUFFICES ASSUME IInv, up, Flushing, Intact
               PROVE  Len(smr_log) - Len(Recovered(wal)) < BatchSize
    BY DEF LossIsBounded
  <2>1. wal.buffer = <<>> /\ Len(wal.batch) < BatchSize /\ wal \in Wal(Entry)
    BY DEF IInv, TypeOK, Places
  <2>2. PICK c \in Nat : Len(wal.batch) = c
    BY <2>1, WalLens
  <2>3. Len(wal.buffer) = 0
    BY <2>1, EmptySeq
  <2> QED
    BY <2>1, <2>2, <2>3, Shortfall, BatchSizeType
<1> QED
  BY <1>1, Invariance, PTL

-----------------------------------------------------------------------------
(***************************************************************************)
(* sync without batches.                                                   *)
(***************************************************************************)

\* Everything up to the last sync is in the file.
SyncInv == Intact => synced <= Len(wal.file)

\* A step that only adds entries to the file.
LEMMA SyncGrows ==
    ASSUME IInv, IInv', SyncInv, synced' = synced,
           NEW t \in Seq(Entry), wal'.file = wal.file \o t
    PROVE  SyncInv'
<1>1. wal \in Wal(Entry) /\ wal' \in Wal(Entry) /\ synced \in Nat
  BY DEF IInv, TypeOK
<1>2. Damaged(wal'.file) = Damaged(wal.file) /\ Len(wal'.file) = Len(wal.file) + Len(t)
  BY <1>1, FileGrows
<1>3. Len(wal.file) \in Nat /\ Len(t) \in Nat
  BY <1>1, WalLens, LenProperties
<1> QED
  BY <1>1, <1>2, <1>3 DEF SyncInv, Intact

LEMMA NextSyncInv ==
    ASSUME Batch <= 1, IInv, IInv', SyncInv, [Next]_vars
    PROVE  SyncInv'
<1>1. /\ wal \in Wal(Entry) /\ wal' \in Wal(Entry) /\ synced \in Nat
      /\ smr_log \in Seq(Entry)
      /\ wal.file \in Seq(Entry \cup {Bad}) /\ wal.buffer \in Seq(Entry)
  BY WalSeqs DEF IInv, TypeOK
<1>2. <<>> \in Seq(Entry) /\ wal.file = wal.file \o <<>>
  BY <1>1, EmptySeq, ConcatEmptySeq
<1>3. ASSUME NEW e \in Entry, Write(e) PROVE SyncInv'
  <2>1. wal' = WriteLog(wal, e) /\ synced' = synced
    BY <1>3 DEF Write
  <2>2. wal.buffer \o Append(wal.batch, e) \in Seq(Entry)
    BY <1>1, WalSeqs, AppendProperties, ConcatProperties
  <2>3. \/ wal'.file = wal.file \o <<>>
        \/ wal'.file = wal.file \o (wal.buffer \o Append(wal.batch, e))
    BY <1>1, <1>2, <2>1, WriteLogFields
  <2> QED
    BY <1>2, <2>1, <2>2, <2>3, SyncGrows
<1>4. CASE Sync
  <2> SUFFICES ASSUME Intact' PROVE synced' <= Len(wal'.file)
    BY DEF SyncInv
  <2>1. up /\ wal' = Flushed(wal) /\ synced' = Len(smr_log)
    BY <1>4 DEF Sync
  <2>2. wal'.file = wal.file \o wal.buffer
    BY <1>1, <2>1, FlushedFields
  <2>3. /\ Damaged(wal.file) = {}
        /\ Len(wal'.file) = Len(wal.file) + Len(wal.buffer)
    BY <1>1, <2>2, FileGrows DEF Intact
  <2>4. smr_log = Written(wal) /\ Len(wal.batch) < BatchSize
    BY <2>1, <2>3 DEF IInv, Content, Places
  <2>5. PICK f \in Nat, b \in Nat, c \in Nat :
           Len(wal.file) = f /\ Len(wal.buffer) = b /\ Len(wal.batch) = c
    BY <1>1, WalLens
  <2>6. c = 0
    BY <2>4, <2>5, BatchAssumption DEF BatchSize
  <2>7. Len(smr_log) = f + b + c
    BY <1>1, <2>4, <2>5, WrittenSplit
  <2> QED
    BY <2>1, <2>3, <2>5, <2>6, <2>7
<1>5. CASE Restart
  <2>1. wal' = wal /\ synced' = Len(smr_log') /\ smr_log' = Recovered(wal)
    BY <1>5 DEF Restart
  <2>2. Intact => Recovered(wal) = wal.file
    BY <1>1, EntryAssumption, RecoveredCases DEF Intact
  <2>3. Len(wal.file) \in Nat
    BY <1>1, WalLens
  <2> QED
    BY <2>1, <2>2, <2>3 DEF SyncInv, Intact
<1>6. CASE Spill
  <2>1. PICK n \in 1 .. Len(wal.buffer) :
           wal' = [wal EXCEPT !.file   = @ \o SubSeq(wal.buffer, 1, n),
                              !.buffer = SubSeq(@, n + 1, Len(@))]
    BY <1>6 DEF Spill
  <2>2. synced' = synced /\ wal'.file = wal.file \o SubSeq(wal.buffer, 1, n)
    BY <1>1, <1>6, <2>1 DEF Spill, Wal
  <2>3. SubSeq(wal.buffer, 1, n) \in Seq(Entry)
    BY <1>1, WalLens, SubSeqProperties, ElementOfSeq
  <2> QED
    BY <2>2, <2>3, SyncGrows
<1>7. CASE Crash
  <2>1. synced' = synced
    BY <1>7 DEF Crash
  <2>2. CASE wal' = Lost(wal)
    BY <1>1, <1>2, <2>1, <2>2, LostFields, SyncGrows
  <2>3. CASE wal' = [Lost(wal) EXCEPT !.file = Append(@, Bad)]
    <3>1. wal'.file = Append(wal.file, Bad)
      BY <1>1, <2>3, LostFields DEF Wal
    <3>2. Len(wal'.file) = Len(wal.file) + 1 /\ wal'.file[Len(wal.file) + 1] = Bad
      BY <1>1, <3>1, AppendProperties
    <3>3. Len(wal.file) + 1 \in 1 .. Len(wal'.file)
      BY <1>1, <3>2, WalLens
    <3> QED
      BY <3>2, <3>3 DEF SyncInv, Intact, Damaged
  <2> QED
    BY <1>7, <2>2, <2>3 DEF Crash
<1>8. CASE Damage
  <2>1. PICK d \in 1 .. Len(wal.file) : wal' = [wal EXCEPT !.file[d] = Bad]
    BY <1>8 DEF Damage
  <2>2. Damaged(wal'.file) # {}
    BY <1>1, <2>1, DamageKeeps
  <2> QED
    BY <2>2 DEF SyncInv, Intact
<1>9. CASE UNCHANGED vars
  BY <1>9 DEF vars, SyncInv, Intact
<1> QED
  BY <1>3, <1>4, <1>5, <1>6, <1>7, <1>8, <1>9 DEF Next

\* Without batches, what was logged before a sync (Server.cpp:81-83) stays on the
\* disk until the disk itself damages a record.
THEOREM SyncKeepsWithoutBatches ==
    ASSUME Batch <= 1
    PROVE  Spec => []SyncIsDurable
<1>1. Init => SyncInv
  BY EmptySeq DEF Init, SyncInv, EmptyWal
<1>2. IInv /\ IInv' /\ SyncInv /\ [Next]_vars => SyncInv'
  BY NextSyncInv
<1>3. IInv /\ SyncInv => SyncIsDurable
  <2> SUFFICES ASSUME IInv, SyncInv, Intact PROVE synced <= Len(Recovered(wal))
    BY DEF SyncIsDurable
  <2>1. wal \in Wal(Entry)
    BY DEF IInv, TypeOK
  <2>2. Recovered(wal) = wal.file
    BY <2>1, EntryAssumption, RecoveredCases DEF Intact
  <2> QED
    BY <2>2 DEF SyncInv
<1> QED
  BY <1>1, <1>2, <1>3, Invariance, PTL DEF Spec

-----------------------------------------------------------------------------
(***************************************************************************)
(* CommitLog implements DurableLog.                                        *)
(***************************************************************************)

\* Every step of CommitLog is a step of DurableLog or leaves its variables alone.
LEMMA StepRefines == IInv /\ [Next]_vars => [DL!Next]_(DL!vars)
<1> SUFFICES ASSUME IInv, [Next]_vars PROVE [DL!Next]_(DL!vars)
  OBVIOUS
<1> DEFINE log == IF up THEN smr_log ELSE Recovered(wal)
<1>1. /\ up \in BOOLEAN /\ smr_log \in Seq(Entry) /\ wal \in Wal(Entry)
      /\ Places(wal)
      /\ up => Content(wal, smr_log)
      /\ ~up => wal.buffer = <<>> /\ wal.batch = <<>>
  BY DEF IInv, TypeOK
<1>2. ASSUME NEW e \in Entry, Write(e) PROVE DL!Write(e)
  <2>1. /\ up /\ up' = up
        /\ wal' = WriteLog(wal, e) /\ smr_log' = Append(smr_log, e)
        /\ Len(wal.file) + Len(wal.buffer) + Len(wal.batch) < MaxLog
    BY <1>2 DEF Write
  <2>2. Intact' = Intact
    BY <1>1, <2>1, WriteKeeps DEF Intact
  <2> QED
    BY <2>1, <2>2 DEF DL!Write
<1>3. CASE Sync
  <2>1. up /\ up' = up /\ wal' = Flushed(wal) /\ smr_log' = smr_log
    BY <1>3 DEF Sync
  <2>2. /\ wal' \in Wal(Entry) /\ wal'.file = wal.file \o wal.buffer
        /\ wal'.buffer = <<>> /\ wal'.batch = wal.batch
    BY <1>1, <2>1, FlushedFields
  <2>3. wal.buffer \in Seq(Entry)
    BY <1>1, WalSeqs
  <2>4. Damaged(wal'.file) = Damaged(wal.file)
    BY <1>1, <2>2, <2>3, FileGrows
  <2> QED
    BY <2>1, <2>4 DEF DL!vars, Intact
<1>4. CASE Restart
  <2>1. ~up /\ up' = TRUE /\ wal' = wal /\ smr_log' = Recovered(wal)
    BY <1>4 DEF Restart
  <2> QED
    BY <2>1 DEF DL!Next, DL!Restart, Intact
<1>5. CASE Spill
  <2>1. PICK n \in 1 .. Len(wal.buffer) :
           wal' = [wal EXCEPT !.file   = @ \o SubSeq(wal.buffer, 1, n),
                              !.buffer = SubSeq(@, n + 1, Len(@))]
    BY <1>5 DEF Spill
  <2>2. up /\ up' = up /\ smr_log' = smr_log
    BY <1>5 DEF Spill
  <2> DEFINE t == SubSeq(wal.buffer, 1, n)
             u == SubSeq(wal.buffer, n + 1, Len(wal.buffer))
  <2>3. wal.buffer \in Seq(Entry) /\ Len(wal.buffer) \in Nat /\ wal.file \in Seq(Entry \cup {Bad})
    BY <1>1, WalSeqs, WalLens
  <2>4. t \in Seq(Entry) /\ u \in Seq(Entry)
    BY <2>3, SubSeqProperties, ElementOfSeq
  <2>5. wal.file \o t \in Seq(Entry \cup {Bad})
    BY <2>3, <2>4, SeqMonotonic, ConcatProperties
  <2>6. wal' \in Wal(Entry) /\ wal'.file = wal.file \o t
    BY <1>1, <2>1, <2>4, <2>5 DEF Wal
  <2> HIDE DEF t, u
  <2>7. Damaged(wal'.file) = Damaged(wal.file)
    BY <1>1, <2>4, <2>6, FileGrows
  <2> QED
    BY <2>2, <2>7 DEF DL!vars, Intact
<1>6. CASE Crash
  <2>1. up /\ up' = FALSE /\ smr_log' = <<>>
    BY <1>6 DEF Crash
  <2>2. /\ Lost(wal) \in Wal(Entry) /\ Lost(wal).file = wal.file
        /\ Lost(wal).buffer = <<>> /\ Lost(wal).batch = <<>>
    BY <1>1, LostFields
  <2>3. Content(wal, smr_log)
    BY <1>1, <2>1
  <2>4. CASE wal' = Lost(wal)
    <3>1. Recovered(wal') = Recovered(wal) /\ (Intact' <=> Intact)
      <4>1. wal'.file = wal.file
        BY <2>2, <2>4
      <4>2. Recovered(wal') = Recovered(wal)
        BY <4>1 DEF Recovered
      <4>3. Intact' <=> Intact
        BY <4>1 DEF Intact
      <4> QED
        BY <4>2, <4>3
    <3>2. /\ Len(Recovered(wal)) \in 0 .. Len(smr_log)
          /\ Recovered(wal) = SubSeq(smr_log, 1, Len(Recovered(wal)))
      BY <1>1, <2>3, RecoveredIsSubSeq
    <3>3. ASSUME Intact
          PROVE  Len(smr_log) - Len(Recovered(wal))
                    <= IF Flushing THEN BatchSize - 1 ELSE MaxLog
      <4>1. Len(smr_log) - Len(Recovered(wal)) = Len(wal.buffer) + Len(wal.batch)
        BY <2>1, <3>3, Shortfall
      <4>2. PICK f \in Nat, b \in Nat, c \in Nat :
               Len(wal.file) = f /\ Len(wal.buffer) = b /\ Len(wal.batch) = c
        BY <1>1, WalLens
      <4>3. f + b + c <= MaxLog /\ c < BatchSize
        BY <1>1, <4>2 DEF Places
      <4>4. CASE Flushing
        <5>1. b = 0
          BY <1>1, <4>2, <4>4, EmptySeq DEF Places
        <5> QED
          BY <4>1, <4>2, <4>3, <4>4, <5>1, BatchSizeType
      <4>5. CASE ~Flushing
        <5>1. b + c <= MaxLog
          BY <4>3, MaxLogAssumption
        <5> QED
          BY <4>1, <4>2, <4>5, <5>1
      <4> QED
        BY <4>4, <4>5
    <3>4. DL!Truncate
      BY <2>1, <3>1, <3>2 DEF DL!Truncate
    <3> QED
      BY <2>1, <3>1, <3>3, <3>4 DEF DL!Next, DL!Crash
  <2>5. CASE wal.buffer # <<>> /\ wal' = [Lost(wal) EXCEPT !.file = Append(@, Bad)]
    <3>1. wal.file \in Seq(Entry \cup {Bad}) /\ Len(wal.file) \in Nat
      BY <1>1, WalSeqs, WalLens
    <3>2. /\ Append(wal.file, Bad) \in Seq(Entry \cup {Bad})
          /\ Len(Append(wal.file, Bad)) = Len(wal.file) + 1
          /\ \A i \in 1 .. Len(wal.file) : Append(wal.file, Bad)[i] = wal.file[i]
          /\ Append(wal.file, Bad)[Len(wal.file) + 1] = Bad
      BY <3>1, AppendProperties
    <3>3. wal' \in Wal(Entry) /\ wal'.file = Append(wal.file, Bad)
      BY <2>2, <2>5, <3>2 DEF Wal
    <3>4. Recovered(wal') = Recovered(wal)
      <4>1. /\ Len(Recovered(wal)) \in 0 .. Len(wal.file)
            /\ Len(Recovered(wal)) = Len(wal.file) \/ wal.file[Len(Recovered(wal)) + 1] = Bad
        BY <1>1, EntryAssumption, RecoveredPointwise
      <4>2. PICK n \in Nat, r \in Nat : Len(wal.file) = n /\ Len(Recovered(wal)) = r
        BY <3>1, <4>1
      <4>3. r <= n /\ (r = n \/ wal.file[r + 1] = Bad)
        BY <4>1, <4>2
      <4>4. Len(wal'.file) = n + 1 /\ wal'.file[n + 1] = Bad
            /\ \A i \in 1 .. n : wal'.file[i] = wal.file[i]
        BY <3>2, <3>3, <4>2
      <4>5. r < Len(wal'.file) /\ r <= Len(wal'.file)
        BY <4>3, <4>4
      <4>6. wal'.file[r + 1] = Bad
        <5>1. CASE r = n
          BY <4>4, <5>1
        <5>2. CASE r # n
          <6>1. r + 1 \in 1 .. n
            BY <4>3, <5>2
          <6> QED
            BY <4>3, <4>4, <5>2, <6>1
        <5> QED
          BY <5>1, <5>2
      <4>7. \A i \in 1 .. r : wal'.file[i] = wal.file[i]
        BY <4>3, <4>4
      <4> QED
        BY <1>1, <3>3, <4>2, <4>5, <4>6, <4>7, EntryAssumption, RecoveredAgree
    <3>5. ~Intact'
      <4>1. Len(wal.file) + 1 \in 1 .. Len(wal'.file) /\ wal'.file[Len(wal.file) + 1] = Bad
        BY <3>1, <3>2, <3>3
      <4> QED
        BY <4>1 DEF Intact, Damaged
    <3>6. /\ Len(Recovered(wal)) \in 0 .. Len(smr_log)
          /\ Recovered(wal) = SubSeq(smr_log, 1, Len(Recovered(wal)))
      BY <1>1, <2>3, RecoveredIsSubSeq
    <3>7. DL!Truncate
      BY <2>1, <3>4, <3>6 DEF DL!Truncate
    <3> QED
      BY <2>1, <3>5, <3>7 DEF DL!Next, DL!Crash
  <2> QED
    BY <1>6, <2>4, <2>5 DEF Crash
<1>7. CASE Damage
  <2>1. PICK d \in 1 .. Len(wal.file) : wal' = [wal EXCEPT !.file[d] = Bad]
    BY <1>7 DEF Damage
  <2>2. up' = up /\ smr_log' = smr_log
    BY <1>7 DEF Damage
  <2>3. /\ wal' \in Wal(Entry)
        /\ Damaged(wal'.file) # {}
        /\ Len(Recovered(wal')) <= Len(Recovered(wal))
        /\ \A i \in 1 .. Len(Recovered(wal')) : Recovered(wal')[i] = Recovered(wal)[i]
    BY <1>1, <2>1, DamageKeeps
  <2>4. ~Intact'
    BY <2>3 DEF Intact
  <2>5. CASE up
    BY <2>2, <2>4, <2>5 DEF DL!Next, DL!Damage
  <2>6. CASE ~up
    <3>1. Recovered(wal) \in Seq(Entry) /\ Recovered(wal') \in Seq(Entry)
      BY <1>1, <2>3, WalSeqs
    <3>2. PICK r \in Nat, s \in Nat :
             Len(Recovered(wal)) = r /\ Len(Recovered(wal')) = s
      BY <1>1, <2>3, WalLens
    <3>3. s <= r /\ \A i \in 1 .. s : Recovered(wal')[i] = Recovered(wal)[i]
      BY <2>3, <3>2
    <3>4. \A i \in 1 .. s : Recovered(wal)[i] \in Entry
      BY <3>1, <3>2, <3>3, ElementOfSeq
    <3>5. /\ SubSeq(Recovered(wal), 1, s) \in Seq(Entry)
          /\ Len(SubSeq(Recovered(wal), 1, s)) = IF 1 <= s THEN s - 1 + 1 ELSE 0
          /\ \A i \in 1 .. s - 1 + 1 : SubSeq(Recovered(wal), 1, s)[i] = Recovered(wal)[1 + i - 1]
      BY <3>4, SubSeqProperties
    <3>6. /\ Len(SubSeq(Recovered(wal), 1, s)) = Len(Recovered(wal'))
          /\ \A i \in 1 .. Len(Recovered(wal')) : Recovered(wal')[i] = SubSeq(Recovered(wal), 1, s)[i]
      BY <3>2, <3>3, <3>5
    <3>7. Recovered(wal') = SubSeq(Recovered(wal), 1, s)
      BY <3>1, <3>5, <3>6, SeqEqual
    <3>8. s \in 0 .. Len(Recovered(wal))
      BY <3>2, <3>3
    <3>9. DL!Truncate
      BY <2>2, <2>6, <3>7, <3>8 DEF DL!Truncate
    <3> QED
      BY <2>2, <2>4, <2>6, <3>9 DEF DL!Next, DL!Damage
  <2> QED
    BY <2>5, <2>6
<1>8. CASE UNCHANGED vars
  BY <1>8 DEF vars, DL!vars, Intact
<1> QED
  BY <1>2, <1>3, <1>4, <1>5, <1>6, <1>7, <1>8 DEF Next, DL!Next

\* The log keeps the promise of DurableLog, for every batch size, with and without
\* F_FLUSH, whatever crashes and damage there are.
THEOREM ImplementsDurableLog == Spec => DurableLogSpec
<1>1. Init => DL!Init
  <2> SUFFICES ASSUME Init PROVE DL!Init
    OBVIOUS
  <2>1. up /\ smr_log = <<>> /\ wal.file = <<>> /\ Len(<<>>) = 0
    BY EmptySeq DEF Init, EmptyWal
  <2>2. Intact
    BY <2>1 DEF Intact, Damaged
  <2> QED
    BY <2>1, <2>2 DEF DL!Init, Init
<1>2. IInv /\ [Next]_vars => [DL!Next]_(DL!vars)
  BY StepRefines
<1> QED
  BY <1>1, <1>2, Invariance, PTL DEF Spec, DurableLogSpec, DL!Spec

=============================================================================
