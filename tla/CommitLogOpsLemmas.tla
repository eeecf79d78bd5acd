------------------------- MODULE CommitLogOpsLemmas -------------------------
(***************************************************************************)
(* What the methods of CommitLog do to a log, for every batch size and     *)
(* every set of entries.                                                   *)
(***************************************************************************)
EXTENDS CommitLogOps, SequenceTheorems, WellFoundedInduction, TLAPS

\* A set of natural numbers that is not empty has a least element.
LEMMA LeastExists ==
    ASSUME NEW S \in SUBSET Nat, S # {}
    PROVE  \E x \in S : \A y \in S : x <= y
<1>1. PICK x \in S : \A y \in S : ~ (<<y, x>> \in OpToRel(<, Nat))
  BY NatLessThanWellFounded, WFMin
<1>2. \A y \in S : ~ (y < x)
  BY <1>1 DEF OpToRel
<1> QED
  BY <1>2

\* BatchSize is what CommitLog::Init makes of the configured size.
LEMMA BatchSizeType == BatchSize \in Nat \ {0}
BY BatchAssumption DEF BatchSize

LEMMA WalType ==
    ASSUME NEW E, NEW w \in Wal(E)
    PROVE  /\ w.file \in Seq(E \cup {Bad})
           /\ w.buffer \in Seq(E) /\ w.buffer \in Seq(E \cup {Bad})
           /\ w.batch \in Seq(E)  /\ w.batch \in Seq(E \cup {Bad})
BY SeqMonotonic, SMT DEF Wal

\* fflush moves the stdio buffer to the end of the file.
LEMMA FlushedFields ==
    ASSUME NEW E, NEW w \in Wal(E)
    PROVE  /\ Flushed(w) \in Wal(E)
           /\ Flushed(w).file = w.file \o w.buffer
           /\ Flushed(w).buffer = <<>>
           /\ Flushed(w).batch = w.batch
<1>1. w.file \o w.buffer \in Seq(E \cup {Bad})
  BY WalType, ConcatProperties
<1>2. <<>> \in Seq(E)
  BY EmptySeq
<1> QED
  BY <1>1, <1>2 DEF Flushed, Wal

\* writelogwithcrc in its three cases.
LEMMA WriteLogFields ==
    ASSUME NEW E, NEW w \in Wal(E), NEW e \in E
    PROVE  /\ WriteLog(w, e) \in Wal(E)
           /\ Len(w.batch) + 1 < BatchSize =>
                 /\ WriteLog(w, e).file = w.file
                 /\ WriteLog(w, e).buffer = w.buffer
                 /\ WriteLog(w, e).batch = Append(w.batch, e)
           /\ ~(Len(w.batch) + 1 < BatchSize) =>
                 /\ WriteLog(w, e).batch = <<>>
                 /\ IF FFlush \/ BatchSize > 1
                    THEN /\ WriteLog(w, e).file =
                               w.file \o (w.buffer \o Append(w.batch, e))
                         /\ WriteLog(w, e).buffer = <<>>
                    ELSE /\ WriteLog(w, e).file = w.file
                         /\ WriteLog(w, e).buffer = w.buffer \o Append(w.batch, e)
<1> DEFINE full == Append(w.batch, e)
           written == [w EXCEPT !.batch = <<>>, !.buffer = @ \o full]
<1>1. full \in Seq(E) /\ Len(full) = Len(w.batch) + 1
  <2>1. w.batch \in Seq(E)
    BY WalType
  <2> QED
    BY <2>1, AppendProperties
<1>2. w.buffer \o full \in Seq(E)
  <2>1. w.buffer \in Seq(E)
    BY WalType
  <2> QED
    BY <1>1, <2>1, ConcatProperties
<1>3. <<>> \in Seq(E)
  BY EmptySeq
<1>4. /\ written \in Wal(E)
      /\ written.file = w.file
      /\ written.buffer = w.buffer \o full
      /\ written.batch = <<>>
  BY <1>2, <1>3 DEF Wal
<1>5. /\ Flushed(written) \in Wal(E)
      /\ Flushed(written).file = w.file \o (w.buffer \o full)
      /\ Flushed(written).buffer = <<>>
      /\ Flushed(written).batch = <<>>
  <2> HIDE DEF written
  <2> QED
    BY <1>4, FlushedFields
<1>6. /\ [w EXCEPT !.batch = full] \in Wal(E)
      /\ [w EXCEPT !.batch = full].file = w.file
      /\ [w EXCEPT !.batch = full].buffer = w.buffer
      /\ [w EXCEPT !.batch = full].batch = full
  BY <1>1 DEF Wal
<1>7. CASE Len(full) < BatchSize
  <2>1. WriteLog(w, e) = [w EXCEPT !.batch = full]
    BY <1>7 DEF WriteLog
  <2> QED
    BY <2>1, <1>1, <1>6, <1>7
<1>8. CASE ~(Len(full) < BatchSize) /\ (FFlush \/ BatchSize > 1)
  <2>1. WriteLog(w, e) = Flushed(written)
    BY <1>8 DEF WriteLog
  <2> HIDE DEF written
  <2> QED
    BY <2>1, <1>1, <1>5, <1>8
<1>9. CASE ~(Len(full) < BatchSize) /\ ~(FFlush \/ BatchSize > 1)
  <2>1. WriteLog(w, e) = written
    BY <1>9 DEF WriteLog
  <2> HIDE DEF written
  <2> QED
    BY <2>1, <1>1, <1>4, <1>9
<1> QED
  BY <1>7, <1>8, <1>9

\* The end of the process leaves the file alone and empties the rest.
LEMMA LostFields ==
    ASSUME NEW E, NEW w \in Wal(E)
    PROVE  /\ Lost(w) \in Wal(E)
           /\ Lost(w).file = w.file
           /\ Lost(w).buffer = <<>>
           /\ Lost(w).batch = <<>>
<1>1. <<>> \in Seq(E)
  BY EmptySeq
<1> QED
  BY <1>1 DEF Lost, Wal

LEMMA EmptyWalType ==
    ASSUME NEW E
    PROVE  EmptyWal \in Wal(E)
<1>1. <<>> \in Seq(E) /\ <<>> \in Seq(E \cup {Bad})
  BY EmptySeq
<1> QED
  BY <1>1 DEF EmptyWal, Wal

\* What Recoverwithcrc reads back of a file: all of it, or everything before
\* the first damaged record.
LEMMA RecoveredCases ==
    ASSUME NEW E, Bad \notin E, NEW w \in Wal(E)
    PROVE  /\ Recovered(w) \in Seq(E)
           /\ Damaged(w.file) = {} => Recovered(w) = w.file
           /\ Damaged(w.file) # {} =>
                \E n \in Damaged(w.file) :
                   /\ \A j \in Damaged(w.file) : n <= j
                   /\ Recovered(w) = SubSeq(w.file, 1, n - 1)
<1> DEFINE D == Damaged(w.file)
<1>1. w.file \in Seq(E \cup {Bad}) /\ Len(w.file) \in Nat
  BY WalType, LenProperties
<1>2. \A i \in 1 .. Len(w.file) : w.file[i] \in E \cup {Bad}
  BY <1>1, ElementOfSeq
<1>3. CASE D = {}
  <2>1. \A i \in 1 .. Len(w.file) : w.file[i] \in E
    BY <1>2, <1>3 DEF Damaged
  <2>2. SubSeq(w.file, 1, Len(w.file)) \in Seq(E)
    BY <1>1, <2>1, SubSeqProperties
  <2>3. w.file \in Seq(E)
    BY <1>1, <2>2, SubSeqFull
  <2> QED
    BY <1>3, <2>3 DEF Recovered
<1>4. CASE D # {}
  <2> DEFINE first == CHOOSE i \in D : \A j \in D : i <= j
  <2>1. D \in SUBSET Nat
    BY <1>1 DEF Damaged
  <2>2. \E i \in D : \A j \in D : i <= j
    <3> HIDE DEF D
    <3> QED
      BY <1>4, <2>1, LeastExists
  <2>3. first \in D /\ \A j \in D : first <= j
    <3> HIDE DEF D
    <3> QED
      BY <2>2
  <2>4. Recovered(w) = SubSeq(w.file, 1, first - 1)
    BY <1>4 DEF Recovered
  <2> HIDE DEF first
  <2>5. \A i \in 1 .. first - 1 : w.file[i] \in E
    BY <1>1, <1>2, <2>3 DEF Damaged
  <2>6. SubSeq(w.file, 1, first - 1) \in Seq(E)
    <3>1. first \in Nat
      BY <2>1, <2>3
    <3> QED
      BY <3>1, <2>5, SubSeqProperties
  <2> QED
    BY <1>4, <2>3, <2>4, <2>6
<1> QED
  BY <1>3, <1>4

\* The same, position by position: the part read back ends where the file does
\* or right before a damaged record, and holds none.
LEMMA RecoveredPointwise ==
    ASSUME NEW E, Bad \notin E, NEW w \in Wal(E)
    PROVE  /\ Len(Recovered(w)) \in 0 .. Len(w.file)
           /\ \A i \in 1 .. Len(Recovered(w)) :
                 Recovered(w)[i] = w.file[i] /\ w.file[i] # Bad
           /\ Len(Recovered(w)) = Len(w.file) \/ w.file[Len(Recovered(w)) + 1] = Bad
<1>1. w.file \in Seq(E \cup {Bad}) /\ Len(w.file) \in Nat
  BY WalType, LenProperties
<1>2. CASE Damaged(w.file) = {}
  <2>1. Recovered(w) = w.file
    BY <1>2, RecoveredCases
  <2>2. \A i \in 1 .. Len(w.file) : w.file[i] # Bad
    BY <1>2 DEF Damaged
  <2> QED
    BY <1>1, <2>1, <2>2
<1>3. CASE Damaged(w.file) # {}
  <2>1. PICK n \in Damaged(w.file) :
              /\ \A j \in Damaged(w.file) : n <= j
              /\ Recovered(w) = SubSeq(w.file, 1, n - 1)
    BY <1>3, RecoveredCases
  <2>2. n \in 1 .. Len(w.file) /\ w.file[n] = Bad
    BY <2>1 DEF Damaged
  <2>3. \A i \in 1 .. n - 1 : w.file[i] # Bad
    BY <1>1, <2>1, <2>2 DEF Damaged
  <2>4. \A i \in 1 .. n - 1 : w.file[i] \in E \cup {Bad}
    BY <1>1, <2>2, ElementOfSeq
  <2>5. /\ Len(Recovered(w)) = IF 1 <= n - 1 THEN (n - 1) - 1 + 1 ELSE 0
        /\ \A i \in 1 .. (n - 1) - 1 + 1 : Recovered(w)[i] = w.file[1 + i - 1]
    <3>1. n - 1 \in Int
      BY <1>1, <2>2
    <3> QED
      BY <2>1, <2>4, <3>1, SubSeqProperties
  <2>6. Len(Recovered(w)) = n - 1
    BY <1>1, <2>2, <2>5
  <2>7. \A i \in 1 .. n - 1 : Recovered(w)[i] = w.file[i]
    BY <1>1, <2>2, <2>5
  <2> QED
    BY <1>1, <2>2, <2>3, <2>6, <2>7
<1> QED
  BY <1>2, <1>3

\* Two files that agree up to and including the first damaged record of one, and
\* two equal ones, read back the same.
LEMMA RecoveredAgree ==
    ASSUME NEW E, Bad \notin E, NEW w \in Wal(E), NEW v \in Wal(E),
           Len(Recovered(w)) <= Len(v.file),
           \A i \in 1 .. Len(Recovered(w)) : v.file[i] = w.file[i],
           \/ Len(Recovered(w)) = Len(v.file)
           \/ Len(Recovered(w)) < Len(v.file) /\ v.file[Len(Recovered(w)) + 1] = Bad
    PROVE  Recovered(v) = Recovered(w)
<1> DEFINE r == Recovered(w)
           s == Recovered(v)
<1>1. r \in Seq(E) /\ s \in Seq(E) /\ Len(r) \in Nat /\ Len(s) \in Nat
  BY RecoveredCases, LenProperties
<1>2. Len(w.file) \in Nat /\ Len(v.file) \in Nat
  BY WalType, LenProperties
<1>3. /\ Len(s) <= Len(v.file)
      /\ \A i \in 1 .. Len(s) : s[i] = v.file[i] /\ v.file[i] # Bad
      /\ Len(s) = Len(v.file) \/ v.file[Len(s) + 1] = Bad
  BY <1>2, RecoveredPointwise
<1>4. /\ Len(r) <= Len(w.file)
      /\ \A i \in 1 .. Len(r) : r[i] = w.file[i] /\ w.file[i] # Bad
  BY <1>2, RecoveredPointwise
<1> HIDE DEF r, s
<1>5. ~ (Len(s) < Len(r))
  <2> SUFFICES ASSUME Len(s) < Len(r) PROVE FALSE
    OBVIOUS
  <2>1. Len(s) + 1 \in 1 .. Len(r)
    BY <1>1
  <2>2. v.file[Len(s) + 1] # Bad
    BY <1>4, <2>1 DEF r
  <2>3. Len(s) # Len(v.file)
    BY <1>1, <1>2 DEF r
  <2> QED
    BY <1>3, <2>2, <2>3
<1>6. ~ (Len(r) < Len(s))
  <2> SUFFICES ASSUME Len(r) < Len(s) PROVE FALSE
    OBVIOUS
  <2>1. Len(r) + 1 \in 1 .. Len(s)
    BY <1>1
  <2>2. v.file[Len(r) + 1] # Bad
    BY <1>3, <2>1
  <2>3. Len(r) < Len(v.file)
    BY <1>1, <1>2, <1>3
  <2> QED
    BY <1>1, <1>2, <2>2, <2>3 DEF r
<1>7. Len(s) = Len(r)
  BY <1>1, <1>5, <1>6
<1>8. \A i \in 1 .. Len(s) : s[i] = r[i]
  BY <1>3, <1>4, <1>7 DEF r
<1>9. s = r
  BY <1>1, <1>7, <1>8, SeqEqual
<1> QED
  BY <1>9 DEF r, s

\* The damaged records of a file to which intact ones were added.
LEMMA DamagedConcat ==
    ASSUME NEW E, Bad \notin E, NEW f \in Seq(E \cup {Bad}), NEW t \in Seq(E)
    PROVE  Damaged(f \o t) = Damaged(f)
<1>1. t \in Seq(E \cup {Bad})
  BY SeqMonotonic
<1>2. Len(f) \in Nat /\ Len(t) \in Nat
  BY LenProperties
<1>3. /\ Len(f \o t) = Len(f) + Len(t)
      /\ \A i \in 1 .. Len(f) + Len(t) :
            (f \o t)[i] = IF i <= Len(f) THEN f[i] ELSE t[i - Len(f)]
  BY <1>1, ConcatProperties
<1>4. \A i \in 1 .. Len(t) : t[i] # Bad
  BY ElementOfSeq
<1> QED
  BY <1>2, <1>3, <1>4 DEF Damaged

=============================================================================
