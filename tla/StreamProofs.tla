---------------------------- MODULE StreamProofs ----------------------------
(***************************************************************************)
(* Marshalling loses nothing, whatever the ints are, and the stubs of the  *)
(* load balancer get whole messages out of the bytes between them.  The    *)
(* arithmetic of one int is left to SMT alone: its numerals are too large  *)
(* for Zenon.                                                              *)
(***************************************************************************)
EXTENDS Stream, SequenceTheorems, TLAPS

-----------------------------------------------------------------------------
(***************************************************************************)
(* Messages.                                                               *)
(***************************************************************************)

\* An int is the sum of its bytes, the first of which carries the sign.
LEMMA Bytes ==
    ASSUME NEW x \in Int32
    PROVE  x = ((x \div 16777216) * 16777216) + (((x \div 65536) % 256) * 65536)
                   + (((x \div 256) % 256) * 256) + (x % 256)
<1>1. x \in Int
  BY SMT DEF Int32
<1> QED
  BY SMT, <1>1

\* The sign of an int is that of its first byte.
LEMMA FirstByte ==
    ASSUME NEW x \in Int32
    PROVE  LET high == (x \div 16777216) % 256
           IN  (IF high > 127 THEN high - 256 ELSE high) = x \div 16777216
<1>1. x \in Int /\ -2147483647 - 1 <= x /\ x <= 2147483647
  BY SMT DEF Int32
<1>2. x \div 16777216 \in -128 .. 127
  BY SMT, <1>1
<1> QED
  BY SMT, <1>2

\* ntohl undoes htonl, for negative numbers as well.
LEMMA HtonlRoundTrip ==
    ASSUME NEW x \in Int32, NEW b, NEW from \in Nat,
           \A j \in 1 .. 4 : b[from + j] = Htonl(x)[j]
    PROVE  Ntohl(b, from) = x
<1>1. /\ b[from + 1] = (x \div 16777216) % 256
      /\ b[from + 2] = (x \div 65536) % 256
      /\ b[from + 3] = (x \div 256) % 256
      /\ b[from + 4] = x % 256
  BY SMT DEF Htonl
<1> QED
  BY SMT, <1>1, Bytes, FirstByte DEF Ntohl

\* Unmarshal makes of the bytes of Marshal (Messages.cpp:27-53, 100-143, 168-195)
\* the members that were marshalled, for a class with any number of members.
THEOREM RoundTrip ==
    ASSUME NEW s \in Seq(Int32)
    PROVE  Unmarshal(Marshal(s), Len(s)) = s
<1>1. ASSUME NEW i \in 1 .. Len(s)
      PROVE  Ntohl(Marshal(s), 4 * (i - 1)) = s[i]
  <2>1. s[i] \in Int32 /\ 4 * (i - 1) \in Nat
    BY <1>1
  <2>2. ASSUME NEW j \in 1 .. 4
        PROVE  Marshal(s)[(4 * (i - 1)) + j] = Htonl(s[i])[j]
    <3> DEFINE k == (4 * (i - 1)) + j
    <3>1. /\ k \in 1 .. 4 * Len(s)
          /\ ((k - 1) \div 4) + 1 = i
          /\ ((k - 1) % 4) + 1 = j
      BY <1>1, <2>2, SMT
    <3> QED
      BY <3>1 DEF Marshal
  <2> QED
    BY <2>1, <2>2, HtonlRoundTrip
<1> QED
  BY <1>1 DEF Unmarshal

\* What one end marshals is what Unmarshal finds at the beginning of the buffer of
\* the other one.
LEMMA Understood ==
    ASSUME NEW s \in Seq(Int32), NEW b, \A k \in 1 .. 4 * Len(s) : b[k] = Marshal(s)[k]
    PROVE  Unmarshal(b, Len(s)) = s
<1>1. Unmarshal(b, Len(s)) = Unmarshal(Marshal(s), Len(s))
  <2> SUFFICES ASSUME NEW i \in 1 .. Len(s)
               PROVE  Ntohl(b, 4 * (i - 1)) = Ntohl(Marshal(s), 4 * (i - 1))
    BY DEF Unmarshal
  <2>1. \A j \in 1 .. 4 : 4 * (i - 1) + j \in 1 .. 4 * Len(s)
    BY LenProperties, SMT
  <2> QED
    BY <2>1 DEF Ntohl
<1> QED
  BY <1>1, RoundTrip

LEMMA MarshalType ==
    ASSUME NEW s \in Seq(Int32)
    PROVE  Marshal(s) \in Seq(Byte) /\ Len(Marshal(s)) = 4 * Len(s)
<1>1. ASSUME NEW x \in Int32, NEW j \in 1 .. 4 PROVE Htonl(x)[j] \in Byte
  <2>1. x \in Int
    BY SMT DEF Int32
  <2>2. \A d \in {1, 256, 65536, 16777216} : (x \div d) % 256 \in Byte /\ x % 256 \in Byte
    BY SMT, <2>1 DEF Byte
  <2> QED
    BY SMT, <2>2 DEF Htonl
<1>2. ASSUME NEW k \in 1 .. 4 * Len(s) PROVE Marshal(s)[k] \in Byte
  <2>1. ((k - 1) \div 4) + 1 \in 1 .. Len(s) /\ ((k - 1) % 4) + 1 \in 1 .. 4
    BY LenProperties, SMT
  <2> QED
    BY <1>1, <2>1, ElementOfSeq DEF Marshal
<1>3. 4 * Len(s) \in Nat
  BY LenProperties
<1>4. Marshal(s) \in [1 .. 4 * Len(s) -> Byte]
  BY <1>2 DEF Marshal
<1> QED
  BY <1>3, <1>4

-----------------------------------------------------------------------------
(***************************************************************************)
(* Pieces of messages.                                                     *)
(***************************************************************************)

\* The first k bytes of the buffer b are those of the message m.
Starts(b, m, k) == \A j \in 1 .. k : b[j] = m[j]

\* The bytes p are what comes in m after its first k bytes, or the start of that.
Follows(p, m, k) == k + Len(p) <= Len(m) /\ \A j \in 1 .. Len(p) : p[j] = m[k + j]

\* r is what is left of p without its first j bytes.
Rest(r, p, j, m, k) == r \in Seq(Byte) /\ Len(r) = Len(p) - j /\ Follows(r, m, k + j)

\* recv takes j bytes from the front.
LEMMA FollowsTail ==
    ASSUME NEW p \in Seq(Byte), NEW m \in Seq(Byte), NEW k \in Nat, Follows(p, m, k),
           NEW j \in 0 .. Len(p), NEW r, r = SubSeq(p, j + 1, Len(p))
    PROVE  Rest(r, p, j, m, k)
<1>1. Len(p) \in Nat /\ Len(m) \in Nat /\ \A i \in 1 .. Len(p) : p[i] \in Byte
  BY LenProperties, ElementOfSeq
<1>2. PICK q : q = SubSeq(p, j + 1, Len(p))
  OBVIOUS
<1>3. \A i \in j + 1 .. Len(p) : p[i] \in Byte
  BY <1>1
<1>4. /\ q \in Seq(Byte)
      /\ Len(q) = IF j + 1 <= Len(p) THEN Len(p) - (j + 1) + 1 ELSE 0
      /\ \A i \in 1 .. Len(p) - (j + 1) + 1 : q[i] = p[j + 1 + i - 1]
  BY <1>1, <1>2, <1>3, SubSeqProperties
<1>5. Len(q) = Len(p) - j /\ \A i \in 1 .. Len(q) : q[i] = p[j + i]
  <2>1. Len(q) = Len(p) - j
    BY <1>1, <1>4
  <2>2. ASSUME NEW i \in 1 .. Len(q) PROVE q[i] = p[j + i]
    <3>1. i \in 1 .. Len(p) - (j + 1) + 1 /\ j + 1 + i - 1 = j + i
      BY <1>1, <2>1
    <3> QED
      BY <1>4, <3>1
  <2> QED
    BY <2>1, <2>2
<1>6. \A i \in 1 .. Len(q) : j + i \in 1 .. Len(p) /\ k + (j + i) = (k + j) + i
  BY <1>1, <1>5
<1>7. Follows(q, m, k + j)
  BY <1>1, <1>5, <1>6 DEF Follows
<1> QED
  BY <1>2, <1>4, <1>5, <1>7 DEF Rest

\* The connection keeps the first j bytes.
LEMMA FollowsFront ==
    ASSUME NEW p \in Seq(Byte), NEW m \in Seq(Byte), NEW k \in Nat, Follows(p, m, k),
           NEW j \in 0 .. Len(p), NEW r, r = SubSeq(p, 1, j)
    PROVE  Follows(r, m, k)
<1>1. Len(p) \in Nat /\ Len(m) \in Nat /\ \A i \in 1 .. Len(p) : p[i] \in Byte
  BY LenProperties, ElementOfSeq
<1>2. PICK q : q = SubSeq(p, 1, j)
  OBVIOUS
<1>3. \A i \in 1 .. j : p[i] \in Byte
  BY <1>1
<1>4. /\ q \in Seq(Byte) /\ Len(q) = IF 1 <= j THEN j - 1 + 1 ELSE 0
      /\ \A i \in 1 .. j - 1 + 1 : q[i] = p[1 + i - 1]
  BY <1>1, <1>2, <1>3, SubSeqProperties
<1>5. Len(q) = j /\ \A i \in 1 .. j : q[i] = p[i]
  BY <1>1, <1>4
<1>6. Follows(q, m, k)
  <2>1. k + Len(q) <= Len(m)
    BY <1>1, <1>5 DEF Follows
  <2>2. \A i \in 1 .. Len(q) : i \in 1 .. Len(p)
    BY <1>1, <1>5
  <2> QED
    BY <1>5, <2>1, <2>2 DEF Follows
<1> QED
  BY <1>2, <1>6

LEMMA FrontType ==
    ASSUME NEW p \in Seq(Byte), NEW j \in 0 .. Len(p), NEW r, r = SubSeq(p, 1, j)
    PROVE  r \in Seq(Byte) /\ (p = <<>> => r = <<>>)
<1>1. Len(p) \in Nat /\ \A i \in 1 .. Len(p) : p[i] \in Byte
  BY LenProperties, ElementOfSeq
<1>2. \A i \in 1 .. j : p[i] \in Byte
  BY <1>1
<1>3. r \in Seq(Byte) /\ Len(r) = IF 1 <= j THEN j - 1 + 1 ELSE 0
  BY <1>1, <1>2, SubSeqProperties
<1>4. p = <<>> => j = 0
  BY <1>1, EmptySeq
<1>5. j = 0 => r = <<>>
  BY <1>3, EmptySeq
<1> QED
  BY <1>3, <1>4, <1>5

\* send takes the j bytes after the first o of the buffer ...
LEMMA Piece ==
    ASSUME NEW m \in Seq(Byte), NEW b, Starts(b, m, Len(m)),
           NEW o \in Nat, NEW j \in Nat, o + j <= Len(m)
    PROVE  /\ SubSeq(b, o + 1, o + j) \in Seq(Byte)
           /\ Len(SubSeq(b, o + 1, o + j)) = j
           /\ Follows(SubSeq(b, o + 1, o + j), m, o)
<1>1. Len(m) \in Nat /\ \A i \in 1 .. Len(m) : m[i] \in Byte
  BY LenProperties, ElementOfSeq
<1>2. PICK q : q = SubSeq(b, o + 1, o + j)
  OBVIOUS
<1>3. ASSUME NEW i \in o + 1 .. o + j PROVE b[i] \in Byte /\ b[i] = m[i]
  <2>1. i \in 1 .. Len(m)
    BY <1>1
  <2> QED
    BY <1>1, <2>1 DEF Starts
<1>4. /\ q \in Seq(Byte) /\ Len(q) = IF o + 1 <= o + j THEN o + j - (o + 1) + 1 ELSE 0
      /\ \A i \in 1 .. o + j - (o + 1) + 1 : q[i] = b[o + 1 + i - 1]
  BY <1>2, <1>3, SubSeqProperties
<1>5. Len(q) = j /\ \A i \in 1 .. j : q[i] = m[o + i]
  <2>1. \A i \in 1 .. j : o + i \in o + 1 .. o + j /\ o + 1 + i - 1 = o + i
    OBVIOUS
  <2>2. \A i \in 1 .. j : q[i] = b[o + i]
    BY <1>4, <2>1
  <2>3. Len(q) = j
    BY <1>4
  <2> QED
    BY <1>3, <2>1, <2>2, <2>3
<1> QED
  BY <1>1, <1>2, <1>4, <1>5 DEF Follows

\* ... and appends them to what is on its way.
LEMMA FollowsBoth ==
    ASSUME NEW p \in Seq(Byte), NEW q \in Seq(Byte), NEW m \in Seq(Byte), NEW k \in Nat,
           Follows(p, m, k), Follows(q, m, k + Len(p)), NEW r, r = p \o q
    PROVE  r \in Seq(Byte) /\ Len(r) = Len(p) + Len(q) /\ Follows(r, m, k)
<1>1. Len(p) \in Nat /\ Len(q) \in Nat /\ Len(m) \in Nat
  BY LenProperties
<1>3. /\ r \in Seq(Byte) /\ Len(r) = Len(p) + Len(q)
      /\ \A i \in 1 .. Len(p) + Len(q) : r[i] = IF i <= Len(p) THEN p[i] ELSE q[i - Len(p)]
  BY ConcatProperties
<1>4. ASSUME NEW i \in 1 .. Len(p) + Len(q) PROVE r[i] = m[k + i]
  <2>1. CASE i <= Len(p)
    <3>1. i \in 1 .. Len(p)
      BY <1>1, <1>4, <2>1
    <3>2. r[i] = p[i]
      BY <1>3, <1>4, <2>1
    <3> QED
      BY <3>1, <3>2 DEF Follows
  <2>2. CASE ~(i <= Len(p))
    <3>1. i - Len(p) \in 1 .. Len(q) /\ (k + Len(p)) + (i - Len(p)) = k + i
      BY <1>1, <1>4, <2>2
    <3>2. r[i] = q[i - Len(p)]
      BY <1>3, <1>4, <2>2
    <3> QED
      BY <3>1, <3>2 DEF Follows
  <2> QED
    BY <2>1, <2>2
<1>5. Follows(r, m, k)
  BY <1>1, <1>3, <1>4 DEF Follows
<1> QED
  BY <1>3, <1>5

\* r is p with k more of the bytes that come in m after the first q.
Longer(r, p, k, m, q) == r \in Seq(Byte) /\ Len(r) = Len(p) + k /\ Follows(r, m, q)

\* Together: o bytes of m are sent, of which the first q have arrived; k are added.
LEMMA Sends ==
    ASSUME NEW p \in Seq(Byte), NEW m \in Seq(Byte), NEW b, NEW q \in Nat, NEW o \in Nat,
           NEW k \in Nat, Follows(p, m, q), Starts(b, m, Len(m)), o + k <= Len(m),
           q + Len(p) = o, NEW r, r = p \o SubSeq(b, o + 1, o + k)
    PROVE  Longer(r, p, k, m, q)
<1>1. PICK t : t = SubSeq(b, o + 1, o + k)
  OBVIOUS
<1>2. Follows(t, m, o)
  BY <1>1, Piece
<1>3. t \in Seq(Byte)
  BY <1>1, Piece
<1>4. Len(t) = k
  BY <1>1, Piece
<1>5. Follows(t, m, q + Len(p))
  BY <1>2
<1>6. r = p \o t
  BY <1>1
<1>7. r \in Seq(Byte) /\ Len(r) = Len(p) + Len(t) /\ Follows(r, m, q)
  BY <1>3, <1>5, <1>6, FollowsBoth
<1> QED
  BY <1>4, <1>7 DEF Longer

\* The buffer b has the first n bytes of m.
Got(b, m, n) == b \in [1 .. 32 -> Byte] /\ Starts(b, m, n)

\* recv writes j bytes after the first o of the buffer.
LEMMA StartsMore ==
    ASSUME NEW p \in Seq(Byte), NEW m \in Seq(Byte), NEW o \in Nat, Follows(p, m, o),
           NEW b, Got(b, m, o),
           NEW j \in 1 .. Len(p), o + j <= 32,
           NEW b2, b2 = [i \in 1 .. 32 |-> IF i - o \in 1 .. j THEN p[i - o] ELSE b[i]]
    PROVE  Got(b2, m, o + j)
<1>0. b \in [1 .. 32 -> Byte] /\ Starts(b, m, o)
  BY DEF Got
<1>1. Len(p) \in Nat /\ \A i \in 1 .. Len(p) : p[i] \in Byte
  BY LenProperties, ElementOfSeq
<1>2. ASSUME NEW i \in 1 .. 32
      PROVE  (IF i - o \in 1 .. j THEN p[i - o] ELSE b[i]) \in Byte
  <2>1. i - o \in 1 .. j => i - o \in 1 .. Len(p)
    BY <1>1
  <2>2. i - o \in 1 .. j => p[i - o] \in Byte
    BY <1>1, <2>1
  <2>3. b[i] \in Byte
    BY <1>0
  <2> QED
    BY <2>2, <2>3
<1>3. ASSUME NEW i \in 1 .. o + j PROVE b2[i] = m[i]
  <2>1. i \in 1 .. 32
    BY <1>1, <1>3
  <2>2. CASE i - o \in 1 .. j
    <3>1. i - o \in 1 .. Len(p) /\ o + (i - o) = i
      BY <1>1, <1>3, <2>2
    <3> QED
      BY <2>1, <2>2, <3>1 DEF Follows
  <2>3. CASE ~(i - o \in 1 .. j)
    <3>1. i \in 1 .. o
      BY <1>3, <2>3
    <3> QED
      BY <1>0, <2>1, <2>3, <3>1 DEF Starts
  <2> QED
    BY <2>2, <2>3
<1> QED
  BY <1>2, <1>3 DEF Starts, Got

\* Nothing follows the last byte.
LEMMA FollowsNothing ==
    ASSUME NEW p \in Seq(Byte), NEW m, Follows(p, m, Len(m)), Len(m) \in Nat
    PROVE  p = <<>>
<1>1. Len(p) \in Nat /\ Len(p) <= 0
  BY LenProperties DEF Follows
<1> QED
  BY <1>1, EmptySeq

LEMMA FollowsEmpty == ASSUME NEW m \in Seq(Byte), NEW k \in 0 .. Len(m) PROVE Follows(<<>>, m, k)
BY EmptySeq, LenProperties DEF Follows

\* A message is put into the buffer.
LEMMA FillStarts ==
    ASSUME NEW b \in [1 .. BufferSize -> Byte], NEW m \in Seq(Byte), Len(m) \in 0 .. 32
    PROVE  Fill(b, m) \in [1 .. BufferSize -> Byte] /\ Starts(Fill(b, m), m, Len(m))
<1>1. PICK n \in 0 .. 32 : n = Len(m)
  OBVIOUS
<1>2. \A k \in 1 .. n : m[k] \in Byte
  BY <1>1, ElementOfSeq
<1>3. ASSUME NEW k \in 1 .. 32 PROVE (IF k <= n THEN m[k] ELSE b[k]) \in Byte
  <2>1. b[k] \in Byte
    BY DEF BufferSize
  <2>2. CASE k <= n
    <3>1. k \in 1 .. n
      BY <2>2
    <3> QED
      BY <1>2, <2>2, <3>1
  <2>3. CASE ~(k <= n)
    BY <2>1, <2>3
  <2> QED
    BY <2>2, <2>3
<1>4. \A k \in 1 .. n : k \in 1 .. 32 /\ k <= n
  OBVIOUS
<1> QED
  BY <1>1, <1>3, <1>4 DEF Fill, Starts, BufferSize

-----------------------------------------------------------------------------
(***************************************************************************)
(* Where the bytes of the current messages are.                            *)
(***************************************************************************)

\* The i-th request and its answer as bytes.
Asks(i) == Marshal(RequestInts(Calls[i]))
Answers(i) == Marshal(AnswerInts(Calls[i]))
AnswerSize(i) == 4 * AnswerLength(Calls[i])

\* How many calls there are, how many returned, how many were served, and how many
\* bytes each end has sent that have not arrived.
CallCount == Len(Calls)
Done == Len(returned)
Served == Len(served)
OnWay(e) == Len(pipe[e])

\* The call that is under way.
This == Done + 1

\* The bytes of its request that the client has sent and the server has read, and
\* those of its answer that the server has sent and the client has read.
Sent == IF pc["client"] = "send" THEN offset["client"] ELSE 12
Arrived == IF pc["server"] = "recv" THEN offset["server"] ELSE 0
Answered == IF pc["server"] = "send" THEN offset["server"] ELSE AnswerSize(This)
Taken == IF pc["client"] = "recv" THEN offset["client"] ELSE 0

\* An end that closes its socket ends the connection; the server's thread ends with
\* it, and the client goes on with calls that fail at their first byte.
Sockets ==
    /\ link => open["client"] /\ pc["server"] # "done"
    /\ pc["server"] # "done" => open["server"]
    /\ pc["client"] = "recv" => open["client"]
    /\ pc["client"] = "send" /\ ~open["client"] => size["client"] = 12

\* The client's buffer holds its request, or what it has of the answer; and the
\* rest of the answer, as far as it is there, is all that is on the way to it.
ClientBytes ==
    /\ pc["client"] # "done" => This <= CallCount
    /\ pc["client"] = "send" /\ open["client"] =>
          /\ offset["client"] + size["client"] = 12
          /\ Starts(buffer["client"], Asks(This), 12)
          /\ Follows(pipe["server"], Answers(This), 0)
    /\ pc["client"] = "recv" =>
          /\ offset["client"] + size["client"] = AnswerSize(This)
          /\ Starts(buffer["client"], Answers(This), offset["client"])
          /\ Follows(pipe["server"], Answers(This), offset["client"])

\* The server has k bytes of its next request in its buffer, and the rest, as far
\* as it is there, is all that is on the way to it.
Incoming(k) ==
    IF Served < CallCount
    THEN /\ Starts(buffer["server"], Asks(Served + 1), k)
         /\ Follows(pipe["client"], Asks(Served + 1), k)
    ELSE k = 0 /\ pipe["client"] = <<>>

\* Likewise.  While it answers no next request can have come.
ServerBytes ==
    /\ pc["server"] # "done" =>
          Served <= CallCount /\ \A i \in 1 .. Served : served[i] = Calls[i]
    /\ pc["server"] = "recv" =>
          /\ offset["server"] + size["server"] = 12
          /\ Incoming(offset["server"])
    /\ pc["server"] = "send" =>
          /\ Served >= 1
          /\ offset["server"] + size["server"] = AnswerSize(Served)
          /\ Starts(buffer["server"], Answers(Served), AnswerSize(Served))
          /\ IF size["server"] = 0 THEN Incoming(0) ELSE pipe["client"] = <<>>

\* The request of this call is on its way.
Asking ==
    /\ Served = Done
    /\ Arrived + OnWay("client") = Sent
    /\ pc["server"] = "send" => size["server"] = 0
    /\ Taken = 0 /\ pipe["server"] = <<>>

\* Its answer is.
Answering ==
    /\ Served = This
    /\ Sent = 12 /\ pipe["client"] = <<>> /\ Arrived = 0
    /\ Taken + OnWay("server") = Answered

\* While the connection is there nothing is lost, and the ends take turns.
Turns == link /\ pc["client"] # "done" => Asking \/ Answering

\* As long as no call failed all were answered.
NoneFailed ==
    pc["client"] # "done" /\ open["client"] =>
        \A i \in 1 .. Done : returned[i] = RightAnswer(Calls[i])

StreamInv ==
    /\ TypeOK /\ Sockets /\ ClientBytes /\ ServerBytes /\ Turns
    /\ NoneFailed /\ WholeAnswers /\ WholeRequests

LEMMA RequestFacts ==
    ASSUME NEW r \in CustomerRequest
    PROVE  /\ RequestInts(r) \in Seq(Int32) /\ Len(RequestInts(r)) = 3
           /\ AnswerInts(r) \in Seq(Int32) /\ Len(AnswerInts(r)) = AnswerLength(r)
           /\ AnswerLength(r) \in {2, 5}
           /\ RequestOf(RequestInts(r)) = r
<1>1. r.customer_id \in Int32 /\ r.order_number \in Int32 /\ r.request_type \in Int32
  BY DEF CustomerRequest
<1>2. Engineer \in Int32 /\ Expert \in Int32 /\ LastOrder \in Int32
  BY AnswersAssumption
<1>3. RequestInts(r) \in Seq(Int32) /\ Len(RequestInts(r)) = 3
  BY <1>1 DEF RequestInts
<1>4. AnswerInts(r) \in Seq(Int32) /\ Len(AnswerInts(r)) = AnswerLength(r)
  BY <1>1, <1>2 DEF AnswerInts, AnswerLength
<1>5. RequestOf(RequestInts(r)) = r
  BY DEF CustomerRequest, RequestOf, RequestInts
<1> QED
  BY <1>3, <1>4, <1>5 DEF AnswerLength

LEMMA CallFacts ==
    /\ CallCount \in Nat /\ CallCount >= 1
    /\ \A i \in 1 .. CallCount :
          /\ Calls[i] \in CustomerRequest /\ Calls[i].customer_id # -1
          /\ Asks(i) \in Seq(Byte) /\ Len(Asks(i)) = 12
          /\ Answers(i) \in Seq(Byte) /\ Len(Answers(i)) = AnswerSize(i)
          /\ AnswerSize(i) \in {8, 20}
<1>1. Calls \in Seq(CustomerRequest) /\ Calls # <<>> /\ \A i \in DOMAIN Calls : IsValid(Calls[i])
  BY CallsAssumption
<1>2. CallCount \in Nat /\ CallCount >= 1 /\ DOMAIN Calls = 1 .. CallCount
  BY <1>1, LenProperties, EmptySeq DEF CallCount
<1>3. ASSUME NEW i \in 1 .. CallCount
      PROVE  /\ Calls[i] \in CustomerRequest /\ Calls[i].customer_id # -1
             /\ Asks(i) \in Seq(Byte) /\ Len(Asks(i)) = 12
             /\ Answers(i) \in Seq(Byte) /\ Len(Answers(i)) = AnswerSize(i)
             /\ AnswerSize(i) \in {8, 20}
  <2>1. Calls[i] \in CustomerRequest /\ Calls[i].customer_id # -1
    BY <1>1, <1>2, <1>3, ElementOfSeq DEF IsValid, CallCount
  <2>2. Asks(i) \in Seq(Byte) /\ Len(Asks(i)) = 12
    <3>1. RequestInts(Calls[i]) \in Seq(Int32) /\ Len(RequestInts(Calls[i])) = 3
      BY <2>1, RequestFacts
    <3>2. Asks(i) \in Seq(Byte) /\ Len(Asks(i)) = 4 * Len(RequestInts(Calls[i]))
      BY <3>1, MarshalType DEF Asks
    <3> QED
      BY <3>1, <3>2
  <2>3. Answers(i) \in Seq(Byte) /\ Len(Answers(i)) = AnswerSize(i)
    BY <2>1, RequestFacts, MarshalType DEF Answers, AnswerSize
  <2>4. AnswerSize(i) \in {8, 20}
    BY <2>1, RequestFacts DEF AnswerSize
  <2> QED
    BY <2>1, <2>2, <2>3, <2>4
<1> QED
  BY <1>2, <1>3

\* A whole request in the server's buffer is the one that was sent.
LEMMA RequestRead ==
    ASSUME NEW i \in 1 .. CallCount, NEW b, Starts(b, Asks(i), 12)
    PROVE  RequestOf(Unmarshal(b, 3)) = Calls[i]
<1>1. Calls[i] \in CustomerRequest
  BY CallFacts
<1>2. RequestInts(Calls[i]) \in Seq(Int32) /\ Len(RequestInts(Calls[i])) = 3
  BY <1>1, RequestFacts
<1>3. \A k \in 1 .. 4 * Len(RequestInts(Calls[i])) : b[k] = Marshal(RequestInts(Calls[i]))[k]
  BY <1>2 DEF Starts, Asks
<1>4. Unmarshal(b, 3) = RequestInts(Calls[i])
  BY <1>2, <1>3, Understood
<1> QED
  BY <1>1, <1>4, RequestFacts

\* A whole answer in the client's buffer is the one that was sent, and it is none of
\* those that stand for failures.
LEMMA AnswerRead ==
    ASSUME NEW i \in 1 .. CallCount, NEW b, Starts(b, Answers(i), AnswerSize(i))
    PROVE  /\ AnswerOf(Calls[i], Unmarshal(b, AnswerLength(Calls[i]))) = RightAnswer(Calls[i])
           /\ RightAnswer(Calls[i]) \in Answer
<1>1. Calls[i] \in CustomerRequest
  BY CallFacts
<1>2. /\ AnswerInts(Calls[i]) \in Seq(Int32)
      /\ Len(AnswerInts(Calls[i])) = AnswerLength(Calls[i])
  BY <1>1, RequestFacts
<1>3. \A k \in 1 .. 4 * Len(AnswerInts(Calls[i])) : b[k] = Marshal(AnswerInts(Calls[i]))[k]
  BY <1>2 DEF Starts, Answers, AnswerSize
<1>4. Unmarshal(b, AnswerLength(Calls[i])) = AnswerInts(Calls[i])
  BY <1>2, <1>3, Understood
<1>5. RightAnswer(Calls[i]) \in Answer
  BY <1>1, AnswersAssumption
     DEF CustomerRequest, RightAnswer, AnswerOf, AnswerInts, InfoOf, RecordOf, Answer, RobotInfo,
         CustomerRecord
<1> QED
  BY <1>4, <1>5 DEF RightAnswer

LEMMA NoAnswerFacts ==
    ASSUME NEW i \in 1 .. CallCount
    PROVE  NoAnswer(Calls[i]) \in Answer /\ RightAnswer(Calls[i]) # NoAnswer(Calls[i])
<1>1. Calls[i].customer_id # -1
  BY CallFacts
<1>2. -1 \in Int32
  BY SMT DEF Int32
<1>3. NoAnswer(Calls[i]) \in Answer
  BY <1>2 DEF NoAnswer, NoInfo, NoRecord, InfoOf, RecordOf, Answer, RobotInfo, CustomerRecord
<1>4. NoAnswer(Calls[i]).customer_id = -1
  BY DEF NoAnswer, NoInfo, NoRecord, InfoOf, RecordOf
<1>5. RightAnswer(Calls[i]).customer_id = Calls[i].customer_id
  BY DEF RightAnswer, AnswerOf, AnswerInts, InfoOf, RecordOf
<1> QED
  BY <1>1, <1>3, <1>4, <1>5


-----------------------------------------------------------------------------
(***************************************************************************)
(* Each action keeps the invariant.                                        *)
(***************************************************************************)

LEMMA InitStream == Init => StreamInv
<1> SUFFICES ASSUME Init PROVE StreamInv
  OBVIOUS
<1> DEFINE empty == [k \in 1 .. BufferSize |-> 0]
<1>1. empty \in [1 .. BufferSize -> Byte]
  BY DEF Byte
<1>2. Asks(1) \in Seq(Byte) /\ Len(Asks(1)) = 12 /\ 1 <= CallCount /\ 1 \in 1 .. CallCount
  BY CallFacts
<1>3. Fill(empty, Asks(1)) \in [1 .. BufferSize -> Byte] /\ Starts(Fill(empty, Asks(1)), Asks(1), 12)
  <2> HIDE DEF empty
  <2>1. Len(Asks(1)) \in 0 .. 32
    BY <1>2
  <2>2. Starts(Fill(empty, Asks(1)), Asks(1), Len(Asks(1)))
    BY <1>1, <1>2, <2>1, FillStarts
  <2>3. Fill(empty, Asks(1)) \in [1 .. BufferSize -> Byte]
    BY <1>1, <1>2, <2>1, FillStarts
  <2> QED
    BY <1>2, <2>2, <2>3
<1>4. Fill(empty, <<>>) \in [1 .. BufferSize -> Byte]
  <2> HIDE DEF empty
  <2>1. <<>> \in Seq(Byte) /\ Len(<<>>) \in 0 .. 32
    BY EmptySeq
  <2> QED
    BY <1>1, <2>1, FillStarts
<1>5. /\ pc["client"] = "send" /\ pc["server"] = "recv" /\ link
      /\ offset["client"] = 0 /\ offset["server"] = 0
      /\ size["client"] = 12 /\ size["server"] = 12
      /\ pipe["client"] = <<>> /\ pipe["server"] = <<>>
      /\ open["client"] /\ open["server"] /\ returned = <<>> /\ served = <<>>
      /\ buffer["client"] = Fill(empty, Asks(1))
  BY DEF Init, End, Size, Asks
<1>6. TypeOK
  <2>1. buffer \in [End -> [1 .. BufferSize -> Byte]]
    BY <1>3, <1>4 DEF Init, Asks
  <2>2. NoRequest \in CustomerRequest
    BY SMT DEF NoRequest, RequestOf, CustomerRequest, Int32
  <2>3. /\ offset \in [End -> 0 .. BufferSize] /\ size \in [End -> 0 .. BufferSize]
        /\ \A e \in End : offset[e] + size[e] <= BufferSize
    BY DEF Init, Size, BufferSize
  <2>4. /\ pc \in [End -> {"send", "recv", "done"}] /\ pipe \in [End -> Seq(Byte)]
        /\ link \in BOOLEAN /\ open \in [End -> BOOLEAN]
    BY EmptySeq DEF Init, End
  <2>5. request \in CustomerRequest /\ returned \in Seq(Answer) /\ served \in Seq(CustomerRequest)
    BY <2>2, EmptySeq DEF Init
  <2> QED
    BY <2>1, <2>3, <2>4, <2>5 DEF TypeOK
<1>7. This = 1 /\ Done = 0 /\ Served = 0 /\ OnWay("client") = 0 /\ OnWay("server") = 0
  BY <1>5, EmptySeq DEF This, Done, Served, OnWay
<1>8. Sockets
  BY <1>5 DEF Sockets
<1>9. Follows(<<>>, Answers(1), 0) /\ Follows(<<>>, Asks(1), 0)
  BY <1>2, CallFacts, FollowsEmpty
<1>10. ClientBytes
  BY <1>2, <1>3, <1>5, <1>7, <1>9 DEF ClientBytes
<1>11. ServerBytes
  <2>1. Served <= CallCount /\ Served < CallCount /\ Asks(Served + 1) = Asks(1) /\ 1 .. Served = {}
    BY <1>2, <1>7, CallFacts
  <2>2. Incoming(0)
    BY <1>5, <1>9, <2>1 DEF Incoming, Starts
  <2> QED
    BY <1>5, <2>1, <2>2 DEF ServerBytes
<1>12. Turns
  BY <1>5, <1>7 DEF Turns, Asking, Arrived, Sent, Taken
<1> QED
  BY <1>6, <1>7, <1>8, <1>10, <1>11, <1>12
     DEF StreamInv, NoneFailed, WholeAnswers, WholeRequests, Done, Served


\* The numbers, and the types of the two ends' values.
LEMMA Numbers ==
    ASSUME TypeOK
    PROVE  /\ offset["client"] \in 0 .. 32 /\ size["client"] \in 0 .. 32
           /\ offset["server"] \in 0 .. 32 /\ size["server"] \in 0 .. 32
           /\ OnWay("client") \in Nat /\ OnWay("server") \in Nat
           /\ Done \in Nat /\ Served \in Nat /\ This \in Nat /\ This >= 1
<1>1. Done \in Nat /\ Served \in Nat
  BY LenProperties DEF TypeOK, Done, Served
<1>2. pipe["client"] \in Seq(Byte) /\ pipe["server"] \in Seq(Byte)
  BY DEF TypeOK, End
<1>3. OnWay("client") \in Nat /\ OnWay("server") \in Nat
  BY <1>2, LenProperties DEF OnWay
<1>4. /\ offset["client"] \in 0 .. 32 /\ size["client"] \in 0 .. 32
      /\ offset["server"] \in 0 .. 32 /\ size["server"] \in 0 .. 32
  BY DEF TypeOK, BufferSize, End
<1>5. This \in Nat /\ This >= 1
  BY <1>1 DEF This
<1> QED
  BY <1>1, <1>3, <1>4, <1>5

LEMMA Types ==
    ASSUME TypeOK
    PROVE  /\ pc["client"] \in {"send", "recv", "done"}
           /\ pc["server"] \in {"send", "recv", "done"}
           /\ buffer["client"] \in [1 .. 32 -> Byte] /\ buffer["server"] \in [1 .. 32 -> Byte]
           /\ pipe["client"] \in Seq(Byte) /\ pipe["server"] \in Seq(Byte)
           /\ open["client"] \in BOOLEAN /\ open["server"] \in BOOLEAN /\ link \in BOOLEAN
           /\ returned \in Seq(Answer) /\ served \in Seq(CustomerRequest)
BY DEF TypeOK, End, BufferSize

LEMMA SendClient == StreamInv /\ Send("client") => StreamInv'
<1> SUFFICES ASSUME StreamInv, Send("client") PROVE StreamInv'
  OBVIOUS
<1>1. PICK k \in 1 .. size["client"] :
         /\ pipe' = IF link
                    THEN [pipe EXCEPT !["client"] =
                              @ \o SubSeq(buffer["client"], offset["client"] + 1,
                                          offset["client"] + k)]
                    ELSE pipe
         /\ size' = [size EXCEPT !["client"] = @ - k]
         /\ offset' = [offset EXCEPT !["client"] = @ + k]
  BY DEF Send
<1>2. /\ pc["client"] = "send" /\ open["client"]
      /\ pc' = pc /\ buffer' = buffer /\ link' = link /\ open' = open
      /\ returned' = returned /\ served' = served
      /\ This' = This /\ Done' = Done /\ Served' = Served
  BY DEF Send, This, Done, Served
<1>3. TypeOK /\ Sockets /\ ClientBytes /\ ServerBytes /\ Turns
  BY DEF StreamInv
<1>0. /\ offset["client"] \in 0 .. 32 /\ size["client"] \in 0 .. 32
      /\ offset["server"] \in 0 .. 32 /\ size["server"] \in 0 .. 32
      /\ OnWay("client") \in Nat /\ OnWay("server") \in Nat
      /\ Done \in Nat /\ Served \in Nat /\ This \in Nat /\ This >= 1
  BY <1>3, Numbers
<1>4. /\ size'["client"] = size["client"] - k /\ size'["server"] = size["server"]
      /\ offset'["client"] = offset["client"] + k /\ offset'["server"] = offset["server"]
      /\ pipe'["server"] = pipe["server"]
      /\ ~link => pipe'["client"] = pipe["client"]
  BY <1>1, <1>3 DEF TypeOK, End
<1>5. /\ offset["client"] + size["client"] = 12 /\ This <= CallCount
      /\ Starts(buffer["client"], Asks(This), 12)
      /\ Follows(pipe["server"], Answers(This), 0)
  BY <1>2, <1>3 DEF ClientBytes
<1>6. ClientBytes'
  <2>1. (offset["client"] + size["client"] = 12)'
    BY <1>0, <1>4, <1>5
  <2>2. (Starts(buffer["client"], Asks(This), 12) /\ Follows(pipe["server"], Answers(This), 0))'
    BY <1>2, <1>4, <1>5
  <2>3. (This <= CallCount)'
    BY <1>2, <1>5
  <2>4. pc'["client"] = "send"
    BY <1>2
  <2> QED
    BY <2>1, <2>2, <2>3, <2>4 DEF ClientBytes
<1>7. Sockets'
  BY <1>1, <1>2, <1>3, <1>4 DEF Sockets
<1>8. NoneFailed' /\ WholeAnswers' /\ WholeRequests'
  BY <1>2 DEF NoneFailed, WholeAnswers, WholeRequests, StreamInv
<1>9. /\ pipe'["client"] \in Seq(Byte)
      /\ link => /\ Asking /\ Served + 1 = This
                 /\ OnWay("client")' = OnWay("client") + k
                 /\ Follows(pipe'["client"], Asks(This), Arrived)
  <2>1. CASE ~link
    BY <1>3, <1>4, <2>1, Types
  <2>2. CASE link
    <3>1. Asking
      <4>1. offset["client"] # 12
        BY <1>0, <1>5
      <4> QED
        BY <1>2, <1>3, <2>2, <4>1 DEF Turns, Answering, Sent
    <3>2. Served + 1 = This
      BY <3>1 DEF Asking, This
    <3>3. pipe'["client"] = pipe["client"] \o SubSeq(buffer["client"], offset["client"] + 1,
                                                    offset["client"] + k)
      BY <1>1, <1>3, <2>2 DEF TypeOK, End
    <3>4. Follows(pipe["client"], Asks(This), Arrived)
      <4>1. Served < CallCount
        BY <1>0, <1>5, <3>2, CallFacts
      <4>2. CASE pc["server"] = "recv"
        BY <1>3, <3>2, <4>1, <4>2 DEF ServerBytes, Incoming, Arrived
      <4>3. CASE pc["server"] = "send"
        BY <1>3, <3>1, <3>2, <4>1, <4>3 DEF ServerBytes, Incoming, Asking, Arrived
      <4> QED
        BY <1>3, <2>2, <4>2, <4>3, Types DEF Sockets
    <3>5. Arrived \in Nat /\ Arrived + OnWay("client") = offset["client"]
      <4>1. Arrived \in Nat
        BY <1>0 DEF Arrived
      <4> QED
        BY <1>2, <3>1, <4>1 DEF Asking, Sent
    <3>6. offset["client"] + k <= 12 /\ offset["client"] \in Nat /\ k \in Nat
      BY <1>0, <1>5
    <3>71. This \in 1 .. CallCount /\ 32 \in Nat /\ 12 <= 32
      BY <1>0, <1>5, CallFacts
    <3>7. /\ pipe["client"] \in Seq(Byte) /\ buffer["client"] \in [1 .. 32 -> Byte]
          /\ Asks(This) \in Seq(Byte) /\ Len(Asks(This)) = 12
      BY <1>3, <3>71, CallFacts, Types
    <3>8. /\ pipe'["client"] \in Seq(Byte)
          /\ OnWay("client")' = OnWay("client") + k
          /\ Follows(pipe'["client"], Asks(This), Arrived)
      <4>1. Starts(buffer["client"], Asks(This), Len(Asks(This)))
        BY <1>5, <3>7
      <4>2. PICK p, m, b, o, q :
               /\ p = pipe["client"] /\ m = Asks(This) /\ b = buffer["client"]
               /\ o = offset["client"] /\ q = Arrived
        OBVIOUS
      <4>3. /\ p \in Seq(Byte) /\ m \in Seq(Byte)
            /\ q \in Nat /\ Follows(p, m, q) /\ Starts(b, m, Len(m))
        BY <3>4, <3>5, <3>7, <4>1, <4>2
      <4>4. o \in Nat /\ k \in Nat /\ o + k <= Len(m) /\ q + Len(p) = o
        BY <3>5, <3>6, <3>7, <4>2 DEF OnWay
      <4>5. PICK r : r = p \o SubSeq(b, o + 1, o + k)
        OBVIOUS
      <4>6. Longer(r, p, k, m, q)
        BY <4>3, <4>4, <4>5, Sends
      <4> QED
        BY <3>3, <4>2, <4>5, <4>6 DEF OnWay, Longer
    <3> QED
      BY <2>2, <3>1, <3>2, <3>7, <3>8
  <2> QED
    BY <1>3, <2>1, <2>2, Types
<1>10. Turns'
  <2> SUFFICES ASSUME link' PROVE Asking'
    BY DEF Turns
  <2>1. Asking /\ OnWay("client")' = OnWay("client") + k
    BY <1>2, <1>9
  <2>2. Arrived' = Arrived /\ Taken' = Taken /\ Sent' = Sent + k
    BY <1>2, <1>4 DEF Arrived, Taken, Sent
  <2> QED
    <3>1. (Arrived + OnWay("client") = Sent)'
      <4>1. Arrived \in Nat /\ Sent \in Nat
        BY <1>0, <1>2 DEF Arrived, Sent
      <4>2. Arrived + OnWay("client") = Sent
        BY <2>1 DEF Asking
      <4> QED
        BY <1>0, <2>1, <2>2, <4>1, <4>2
    <3> QED
      BY <1>2, <1>4, <2>1, <2>2, <3>1 DEF Asking
<1>11. ServerBytes'
  <2> SUFFICES ASSUME TRUE
               PROVE  /\ pc["server"] = "recv" => Incoming(offset["server"])'
                      /\ pc["server"] = "send" =>
                            IF size["server"] = 0 THEN Incoming(0)'
                                                  ELSE pipe'["client"] = <<>>
    BY <1>2, <1>3, <1>4 DEF ServerBytes
  <2>1. CASE ~link
    BY <1>2, <1>3, <1>4, <2>1 DEF ServerBytes, Incoming
  <2>2. CASE link
    <3>1. Served < CallCount /\ Served + 1 = This
      BY <1>0, <1>5, <1>9, <2>2, CallFacts
    <3>2. Follows(pipe'["client"], Asks(Served + 1), Arrived)
      BY <1>9, <2>2, <3>1
    <3>3. pc["server"] = "recv" => Starts(buffer["server"], Asks(Served + 1), Arrived)
      BY <1>3, <3>1 DEF ServerBytes, Incoming, Arrived
    <3>4. Starts(buffer["server"], Asks(Served + 1), 0)
      BY DEF Starts
    <3>5. pc["server"] = "send" => size["server"] = 0
      BY <1>9, <2>2 DEF Asking
    <3> QED
      BY <1>2, <1>4, <3>1, <3>2, <3>3, <3>4, <3>5 DEF Incoming, Arrived
  <2> QED
    BY <2>1, <2>2
<1>12. TypeOK'
  <2>1. size["client"] - k \in 0 .. BufferSize /\ offset["client"] + k \in 0 .. BufferSize
    BY <1>0, <1>5 DEF BufferSize
  <2>2. size' \in [End -> 0 .. BufferSize] /\ offset' \in [End -> 0 .. BufferSize]
    BY <1>1, <1>3, <2>1 DEF TypeOK
  <2>3. offset'["client"] + size'["client"] <= BufferSize
    BY <1>0, <1>4, <1>5 DEF BufferSize
  <2>4. \A e \in End : offset'[e] + size'[e] <= BufferSize
    BY <1>3, <1>4, <2>3 DEF TypeOK, End
  <2>5. pipe' \in [End -> Seq(Byte)]
    BY <1>1, <1>3, <1>9 DEF TypeOK, End
  <2> QED
    BY <1>2, <1>3, <2>2, <2>4, <2>5 DEF TypeOK, Send
<1> QED
  BY <1>6, <1>7, <1>8, <1>10, <1>11, <1>12 DEF StreamInv

LEMMA SendServer == StreamInv /\ Send("server") => StreamInv'
<1> SUFFICES ASSUME StreamInv, Send("server") PROVE StreamInv'
  OBVIOUS
<1>1. PICK k \in 1 .. size["server"] :
         /\ pipe' = IF link
                    THEN [pipe EXCEPT !["server"] =
                              @ \o SubSeq(buffer["server"], offset["server"] + 1,
                                          offset["server"] + k)]
                    ELSE pipe
         /\ size' = [size EXCEPT !["server"] = @ - k]
         /\ offset' = [offset EXCEPT !["server"] = @ + k]
  BY DEF Send
<1>2. /\ pc["server"] = "send" /\ open["server"]
      /\ pc' = pc /\ buffer' = buffer /\ link' = link /\ open' = open
      /\ returned' = returned /\ served' = served
      /\ This' = This /\ Done' = Done /\ Served' = Served
  BY DEF Send, This, Done, Served
<1>3. TypeOK /\ Sockets /\ ClientBytes /\ ServerBytes /\ Turns
  BY DEF StreamInv
<1>0. /\ offset["client"] \in 0 .. 32 /\ size["client"] \in 0 .. 32
      /\ offset["server"] \in 0 .. 32 /\ size["server"] \in 0 .. 32
      /\ OnWay("client") \in Nat /\ OnWay("server") \in Nat
      /\ Done \in Nat /\ Served \in Nat /\ This \in Nat /\ This >= 1
  BY <1>3, Numbers
<1>4. /\ size'["server"] = size["server"] - k /\ size'["client"] = size["client"]
      /\ offset'["server"] = offset["server"] + k /\ offset'["client"] = offset["client"]
      /\ pipe'["client"] = pipe["client"]
      /\ ~link => pipe'["server"] = pipe["server"]
  BY <1>1, <1>3 DEF TypeOK, End
<1>5. /\ Served <= CallCount /\ Served >= 1
      /\ offset["server"] + size["server"] = AnswerSize(Served)
      /\ Starts(buffer["server"], Answers(Served), AnswerSize(Served))
      /\ pipe["client"] = <<>>
  BY <1>0, <1>2, <1>3 DEF ServerBytes
<1>6. /\ Served \in 1 .. CallCount /\ AnswerSize(Served) \in {8, 20}
      /\ Answers(Served) \in Seq(Byte) /\ Len(Answers(Served)) = AnswerSize(Served)
  BY <1>0, <1>5, CallFacts
<1>61. offset["server"] + size["server"] = AnswerSize(Served) /\ AnswerSize(Served) \in {8, 20}
  BY <1>5, <1>6
<1>62. offset["server"] \in 0 .. 32 /\ size["server"] \in 0 .. 32
  BY <1>0
<1>63. /\ k \in Nat /\ offset["server"] + k <= AnswerSize(Served) /\ AnswerSize(Served) <= 32
       /\ (offset["server"] + k) + (size["server"] - k) = AnswerSize(Served)
       /\ offset["server"] + k \in 0 .. 32 /\ size["server"] - k \in 0 .. 32
       /\ size["server"] # 0 /\ offset["server"] \in Nat
  <2>1. PICK o, z, n : o = offset["server"] /\ z = size["server"] /\ n = AnswerSize(Served)
    OBVIOUS
  <2>2. o \in 0 .. 32 /\ z \in 0 .. 32 /\ n \in {8, 20} /\ o + z = n /\ k \in 1 .. z
    BY <1>61, <1>62, <2>1
  <2>3. /\ k \in Nat /\ o \in Nat /\ o + k <= n /\ n <= 32 /\ (o + k) + (z - k) = n
        /\ o + k \in 0 .. 32 /\ z - k \in 0 .. 32 /\ z # 0
    BY <2>2
  <2> QED
    BY <2>1, <2>3
<1>7. /\ k \in Nat /\ offset["server"] + k <= AnswerSize(Served) /\ AnswerSize(Served) <= 32
      /\ offset'["server"] + size'["server"] = AnswerSize(Served)
      /\ offset["server"] + k \in 0 .. 32 /\ size["server"] - k \in 0 .. 32
      /\ size["server"] # 0 /\ offset["server"] \in Nat
  BY <1>4, <1>63
<1>8. link /\ pc["client"] # "done" => Answering
  BY <1>2, <1>3, <1>7 DEF Turns, Asking
<1>9. ASSUME link, pc["client"] # "done" PROVE Longer(pipe'["server"], pipe["server"], k, Answers(This), Taken)
  <2>1. Answering /\ Served = This
    BY <1>8, <1>9 DEF Answering
  <2>2. Follows(pipe["server"], Answers(This), Taken)
    BY <1>3, <1>9, Types DEF ClientBytes, Taken, Sockets
  <2>3. Taken \in Nat /\ Taken + OnWay("server") = offset["server"]
    <3>1. Taken \in Nat
      BY <1>0 DEF Taken
    <3> QED
      BY <1>2, <2>1, <3>1 DEF Answering, Answered
  <2>4. pipe'["server"] = pipe["server"] \o SubSeq(buffer["server"], offset["server"] + 1,
                                                  offset["server"] + k)
    BY <1>1, <1>3, <1>9 DEF TypeOK, End
  <2>5. PICK p, m, b, o, q, r :
           /\ p = pipe["server"] /\ m = Answers(This) /\ b = buffer["server"]
           /\ o = offset["server"] /\ q = Taken /\ r = p \o SubSeq(b, o + 1, o + k)
    OBVIOUS
  <2>6. /\ p \in Seq(Byte) /\ m \in Seq(Byte)
        /\ q \in Nat /\ Follows(p, m, q) /\ Starts(b, m, Len(m))
    BY <1>3, <1>5, <1>6, <2>1, <2>2, <2>3, <2>5, Types
  <2>7. o \in Nat /\ k \in Nat /\ o + k <= Len(m) /\ q + Len(p) = o
    <3>1. o \in Nat /\ k \in Nat
      BY <1>7, <2>5
    <3>2. o + k <= Len(m)
      BY <1>6, <1>7, <2>1, <2>5
    <3> QED
      BY <2>3, <2>5, <3>1, <3>2 DEF OnWay
  <2>8. Longer(r, p, k, m, q)
    BY <2>5, <2>6, <2>7, Sends
  <2> QED
    BY <2>4, <2>5, <2>8
<1>10. link => pipe'["server"] \in Seq(Byte)
  <2> SUFFICES ASSUME link PROVE pipe'["server"] \in Seq(Byte)
    OBVIOUS
  <2>1. PICK p, m, b, o, r :
           /\ p = pipe["server"] /\ m = Answers(Served) /\ b = buffer["server"]
           /\ o = offset["server"] /\ r = SubSeq(b, o + 1, o + k)
    OBVIOUS
  <2>2. m \in Seq(Byte) /\ Starts(b, m, Len(m)) /\ o \in Nat /\ k \in Nat /\ o + k <= Len(m)
    <3>1. o \in Nat /\ k \in Nat
      BY <1>7, <2>1
    <3>2. o + k <= Len(m) /\ m \in Seq(Byte) /\ Starts(b, m, Len(m))
      BY <1>5, <1>6, <1>7, <2>1
    <3> QED
      BY <3>1, <3>2
  <2>3. r \in Seq(Byte)
    BY <2>1, <2>2, Piece
  <2>4. p \in Seq(Byte)
    BY <1>3, <2>1, Types
  <2>5. p \o r \in Seq(Byte)
    BY <2>3, <2>4, ConcatProperties
  <2>6. pipe'["server"] = p \o r
    BY <1>1, <1>3, <2>1 DEF TypeOK, End
  <2> QED
    BY <2>5, <2>6
<1>11. TypeOK'
  <2>1. size["server"] - k \in 0 .. BufferSize /\ offset["server"] + k \in 0 .. BufferSize
    BY <1>7 DEF BufferSize
  <2>2. size' \in [End -> 0 .. BufferSize] /\ offset' \in [End -> 0 .. BufferSize]
    BY <1>1, <1>3, <2>1 DEF TypeOK
  <2>3. offset'["server"] + size'["server"] <= BufferSize
    BY <1>6, <1>7 DEF BufferSize
  <2>4. \A e \in End : offset'[e] + size'[e] <= BufferSize
    BY <1>3, <1>4, <2>3 DEF TypeOK, End
  <2>5. pipe' \in [End -> Seq(Byte)]
    BY <1>1, <1>3, <1>10 DEF TypeOK, End
  <2> QED
    BY <1>2, <1>3, <2>2, <2>4, <2>5 DEF TypeOK, Send
<1>12. Sockets'
  BY <1>2, <1>3, <1>4 DEF Sockets
<1>13. ClientBytes'
  <2>1. ASSUME pc["client"] = "send", open["client"]
        PROVE  Follows(pipe'["server"], Answers(This), 0)
    <3>1. CASE link
      BY <1>9, <2>1, <3>1 DEF Longer, Taken
    <3>2. CASE ~link
      BY <1>3, <1>4, <2>1, <3>2 DEF ClientBytes
    <3> QED
      BY <3>1, <3>2
  <2>2. ASSUME pc["client"] = "recv"
        PROVE  Follows(pipe'["server"], Answers(This), offset["client"])
    <3>1. CASE link
      BY <1>9, <2>2, <3>1 DEF Longer, Taken
    <3>2. CASE ~link
      BY <1>3, <1>4, <2>2, <3>2 DEF ClientBytes
    <3> QED
      BY <3>1, <3>2
  <2> QED
    BY <1>2, <1>3, <1>4, <2>1, <2>2 DEF ClientBytes
<1>14. ServerBytes'
  <2>1. Incoming(0)'
    <3>1. Served < CallCount => Served + 1 \in 1 .. CallCount
      BY <1>0, CallFacts
    <3>2. Served < CallCount => Follows(<<>>, Asks(Served + 1), 0)
      BY <3>1, CallFacts, FollowsEmpty
    <3> QED
      BY <1>2, <1>4, <1>5, <3>2 DEF Incoming, Starts
  <2> QED
    BY <1>2, <1>3, <1>4, <1>5, <1>7, <2>1 DEF ServerBytes
<1>15. Turns'
  <2> SUFFICES ASSUME link', pc'["client"] # "done" PROVE Answering'
    BY DEF Turns
  <2>1. Answering /\ OnWay("server")' = OnWay("server") + k
    BY <1>2, <1>8, <1>9 DEF Longer, OnWay
  <2>2. Taken' = Taken /\ Sent' = Sent /\ Arrived' = Arrived /\ Answered' = Answered + k
    BY <1>2, <1>4 DEF Taken, Sent, Arrived, Answered
  <2>3. Taken \in Nat /\ Answered \in Nat /\ Taken + OnWay("server") = Answered
    <3>1. Taken \in Nat
      BY <1>0 DEF Taken
    <3>2. Answered \in Nat
      BY <1>0, <1>2 DEF Answered
    <3> QED
      BY <2>1, <3>1, <3>2 DEF Answering
  <2>4. (Taken + OnWay("server") = Answered)'
    BY <1>0, <2>1, <2>2, <2>3
  <2> QED
    BY <1>2, <1>4, <2>1, <2>2, <2>4 DEF Answering
<1>16. NoneFailed' /\ WholeAnswers' /\ WholeRequests'
  BY <1>2 DEF NoneFailed, WholeAnswers, WholeRequests, StreamInv
<1> QED
  BY <1>11, <1>12, <1>13, <1>14, <1>15, <1>16 DEF StreamInv

LEMMA RecvClient == StreamInv /\ Recv("client") => StreamInv'
<1> SUFFICES ASSUME StreamInv, Recv("client") PROVE StreamInv'
  OBVIOUS
<1>1. PICK k \in 1 .. size["client"] :
         /\ k <= OnWay("server")
         /\ buffer' = [buffer EXCEPT !["client"] =
                          [i \in 1 .. BufferSize |->
                              IF i - offset["client"] \in 1 .. k
                              THEN pipe["server"][i - offset["client"]] ELSE @[i]]]
         /\ pipe' = [pipe EXCEPT !["server"] = SubSeq(@, k + 1, Len(@))]
         /\ offset' = [offset EXCEPT !["client"] = @ + k]
         /\ size' = [size EXCEPT !["client"] = @ - k]
  BY DEF Recv, RecvRest, Other, OnWay
<1>2. /\ pc["client"] = "recv" /\ open["client"]
      /\ pc' = pc /\ link' = link /\ open' = open
      /\ returned' = returned /\ served' = served
      /\ This' = This /\ Done' = Done /\ Served' = Served
  BY DEF Recv, This, Done, Served
<1>3. TypeOK /\ Sockets /\ ClientBytes /\ ServerBytes /\ Turns
  BY DEF StreamInv
<1>0. /\ offset["client"] \in 0 .. 32 /\ size["client"] \in 0 .. 32
      /\ OnWay("client") \in Nat /\ OnWay("server") \in Nat
      /\ Done \in Nat /\ Served \in Nat /\ This \in Nat /\ This >= 1
  BY <1>3, Numbers
<1>4. /\ size'["client"] = size["client"] - k /\ size'["server"] = size["server"]
      /\ offset'["client"] = offset["client"] + k /\ offset'["server"] = offset["server"]
      /\ pipe'["client"] = pipe["client"] /\ buffer'["server"] = buffer["server"]
  BY <1>1, <1>3 DEF TypeOK, End
<1>5. /\ This <= CallCount
      /\ offset["client"] + size["client"] = AnswerSize(This)
      /\ Starts(buffer["client"], Answers(This), offset["client"])
      /\ Follows(pipe["server"], Answers(This), offset["client"])
  BY <1>2, <1>3 DEF ClientBytes
<1>6. /\ AnswerSize(This) \in {8, 20} /\ Answers(This) \in Seq(Byte)
      /\ Len(Answers(This)) = AnswerSize(This)
  BY <1>0, <1>5, CallFacts
<1>7. /\ k \in Nat /\ k >= 1 /\ offset["client"] + k <= 32 /\ offset["client"] \in Nat
      /\ (offset["client"] + k) + (size["client"] - k) = AnswerSize(This)
      /\ offset["client"] + k \in 0 .. 32 /\ size["client"] - k \in 0 .. 32
      /\ AnswerSize(This) <= 32
  <2>1. PICK o, z, n : o = offset["client"] /\ z = size["client"] /\ n = AnswerSize(This)
    OBVIOUS
  <2>2. o \in 0 .. 32 /\ z \in 0 .. 32 /\ n \in {8, 20} /\ o + z = n /\ k \in 1 .. z
    BY <1>0, <1>5, <1>6, <2>1
  <2>3. /\ k \in Nat /\ k >= 1 /\ o + k <= 32 /\ o \in Nat /\ (o + k) + (z - k) = n /\ n <= 32
        /\ o + k \in 0 .. 32 /\ z - k \in 0 .. 32
    BY <2>2
  <2> QED
    BY <2>1, <2>3
<1>8. /\ Rest(pipe'["server"], pipe["server"], k, Answers(This), offset["client"])
      /\ Got(buffer'["client"], Answers(This), offset["client"] + k)
  <2>1. PICK p, m, b, o, r, b2 :
           /\ p = pipe["server"] /\ m = Answers(This) /\ b = buffer["client"]
           /\ o = offset["client"] /\ r = pipe'["server"] /\ b2 = buffer'["client"]
    OBVIOUS
  <2>2. /\ p \in Seq(Byte) /\ m \in Seq(Byte) /\ Follows(p, m, o) /\ Got(b, m, o)
    BY <1>3, <1>5, <1>6, <2>1, Types DEF Got
  <2>3. o \in Nat /\ o + k <= 32
    BY <1>7, <2>1
  <2>4. Len(p) \in Nat /\ k <= Len(p) /\ k \in Nat /\ k >= 1
    BY <1>0, <1>1, <1>7, <2>1 DEF OnWay
  <2>5. k \in 0 .. Len(p) /\ k \in 1 .. Len(p)
    BY <2>4
  <2>6. r = SubSeq(p, k + 1, Len(p))
    BY <1>1, <1>3, <2>1 DEF TypeOK, End
  <2>7. b2 = [i \in 1 .. 32 |-> IF i - o \in 1 .. k THEN p[i - o] ELSE b[i]]
    BY <1>1, <1>3, <2>1 DEF TypeOK, End, BufferSize
  <2>8. Rest(r, p, k, m, o)
    BY <2>2, <2>3, <2>5, <2>6, FollowsTail
  <2>9. Got(b2, m, o + k)
    BY <2>2, <2>3, <2>5, <2>7, StartsMore
  <2> QED
    BY <2>1, <2>8, <2>9
<1>9. link => Answering /\ OnWay("server")' = OnWay("server") - k
  <2> SUFFICES ASSUME link PROVE Answering /\ OnWay("server")' = OnWay("server") - k
    OBVIOUS
  <2>1. pipe["server"] = <<>> => OnWay("server") = 0
    BY EmptySeq DEF OnWay
  <2>2. pipe["server"] # <<>>
    BY <1>0, <1>1, <1>7, <2>1
  <2>3. Answering
    BY <1>2, <1>3, <2>2 DEF Turns, Asking
  <2> QED
    BY <1>8, <2>3 DEF Rest, OnWay
<1>10. TypeOK'
  <2>1. size["client"] - k \in 0 .. BufferSize /\ offset["client"] + k \in 0 .. BufferSize
    BY <1>7 DEF BufferSize
  <2>2. size' \in [End -> 0 .. BufferSize] /\ offset' \in [End -> 0 .. BufferSize]
    BY <1>1, <1>3, <2>1 DEF TypeOK
  <2>3. offset'["client"] + size'["client"] <= BufferSize
    BY <1>4, <1>7 DEF BufferSize
  <2>4. \A e \in End : offset'[e] + size'[e] <= BufferSize
    BY <1>3, <1>4, <2>3 DEF TypeOK, End
  <2>5. pipe' \in [End -> Seq(Byte)]
    BY <1>1, <1>3, <1>8 DEF TypeOK, End, Rest
  <2>6. buffer' \in [End -> [1 .. BufferSize -> Byte]]
    BY <1>1, <1>3, <1>8 DEF TypeOK, End, Got, BufferSize
  <2> QED
    BY <1>2, <1>3, <2>2, <2>4, <2>5, <2>6 DEF TypeOK, Recv
<1>11. Sockets'
  BY <1>2, <1>3, <1>4 DEF Sockets
<1>12. ClientBytes'
  BY <1>2, <1>4, <1>5, <1>7, <1>8 DEF ClientBytes, Rest, Got
<1>13. ServerBytes'
  BY <1>2, <1>3, <1>4 DEF ServerBytes, Incoming
<1>14. Turns'
  <2> SUFFICES ASSUME link' PROVE Answering'
    BY DEF Turns
  <2>1. Answering /\ OnWay("server")' = OnWay("server") - k
    BY <1>2, <1>9
  <2>2. Taken' = Taken + k /\ Sent' = Sent /\ Arrived' = Arrived /\ Answered' = Answered
    BY <1>2, <1>4 DEF Taken, Sent, Arrived, Answered
  <2>3. Taken \in Nat
    BY <1>0 DEF Taken
  <2>4. Taken + OnWay("server") = Answered
    BY <2>1 DEF Answering
  <2>5. (Taken + OnWay("server") = Answered)'
    BY <1>0, <1>7, <2>1, <2>2, <2>3, <2>4
  <2> QED
    BY <1>2, <1>4, <2>1, <2>2, <2>5 DEF Answering
<1>15. NoneFailed' /\ WholeAnswers' /\ WholeRequests'
  BY <1>2 DEF NoneFailed, WholeAnswers, WholeRequests, StreamInv
<1> QED
  BY <1>10, <1>11, <1>12, <1>13, <1>14, <1>15 DEF StreamInv

LEMMA RecvServer == StreamInv /\ Recv("server") => StreamInv'
<1> SUFFICES ASSUME StreamInv, Recv("server") PROVE StreamInv'
  OBVIOUS
<1>1. PICK k \in 1 .. size["server"] :
         /\ k <= OnWay("client")
         /\ buffer' = [buffer EXCEPT !["server"] =
                          [i \in 1 .. BufferSize |->
                              IF i - offset["server"] \in 1 .. k
                              THEN pipe["client"][i - offset["server"]] ELSE @[i]]]
         /\ pipe' = [pipe EXCEPT !["client"] = SubSeq(@, k + 1, Len(@))]
         /\ offset' = [offset EXCEPT !["server"] = @ + k]
         /\ size' = [size EXCEPT !["server"] = @ - k]
  BY DEF Recv, RecvRest, Other, OnWay
<1>2. /\ pc["server"] = "recv" /\ open["server"]
      /\ pc' = pc /\ link' = link /\ open' = open
      /\ returned' = returned /\ served' = served
      /\ This' = This /\ Done' = Done /\ Served' = Served
  BY DEF Recv, This, Done, Served
<1>3. TypeOK /\ Sockets /\ ClientBytes /\ ServerBytes /\ Turns
  BY DEF StreamInv
<1>0. /\ offset["server"] \in 0 .. 32 /\ size["server"] \in 0 .. 32
      /\ OnWay("server") \in Nat /\ OnWay("client") \in Nat
      /\ Done \in Nat /\ Served \in Nat /\ This \in Nat /\ This >= 1
  BY <1>3, Numbers
<1>4. /\ size'["server"] = size["server"] - k /\ size'["client"] = size["client"]
      /\ offset'["server"] = offset["server"] + k /\ offset'["client"] = offset["client"]
      /\ pipe'["server"] = pipe["server"] /\ buffer'["client"] = buffer["client"]
  BY <1>1, <1>3 DEF TypeOK, End
<1>5. /\ Served < CallCount
      /\ offset["server"] + size["server"] = 12
      /\ Starts(buffer["server"], Asks(Served + 1), offset["server"])
      /\ Follows(pipe["client"], Asks(Served + 1), offset["server"])
  <2>1. pipe["client"] = <<>> => OnWay("client") = 0
    BY EmptySeq DEF OnWay
  <2>2. k \in Nat /\ k >= 1
    BY <1>0
  <2>3. pipe["client"] # <<>>
    BY <1>0, <1>1, <2>1, <2>2
  <2> QED
    BY <1>2, <1>3, <2>3 DEF ServerBytes, Incoming
<1>6. Asks(Served + 1) \in Seq(Byte) /\ Len(Asks(Served + 1)) = 12
  <2>1. Served + 1 \in 1 .. CallCount
    BY <1>0, <1>5, CallFacts
  <2> QED
    BY <2>1, CallFacts
<1>7. /\ k \in Nat /\ k >= 1 /\ offset["server"] + k <= 32 /\ offset["server"] \in Nat
      /\ (offset["server"] + k) + (size["server"] - k) = 12
      /\ offset["server"] + k \in 0 .. 32 /\ size["server"] - k \in 0 .. 32
  <2>1. PICK o, z, n : o = offset["server"] /\ z = size["server"] /\ n = 12
    OBVIOUS
  <2>2. o \in 0 .. 32 /\ z \in 0 .. 32 /\ n = 12 /\ o + z = n /\ k \in 1 .. z
    BY <1>0, <1>5, <1>6, <2>1
  <2>3. /\ k \in Nat /\ k >= 1 /\ o + k <= 32 /\ o \in Nat /\ (o + k) + (z - k) = n /\ n <= 32
        /\ o + k \in 0 .. 32 /\ z - k \in 0 .. 32
    BY <2>2
  <2> QED
    BY <2>1, <2>3
<1>8. /\ Rest(pipe'["client"], pipe["client"], k, Asks(Served + 1), offset["server"])
      /\ Got(buffer'["server"], Asks(Served + 1), offset["server"] + k)
  <2>1. PICK p, m, b, o, r, b2 :
           /\ p = pipe["client"] /\ m = Asks(Served + 1) /\ b = buffer["server"]
           /\ o = offset["server"] /\ r = pipe'["client"] /\ b2 = buffer'["server"]
    OBVIOUS
  <2>2. /\ p \in Seq(Byte) /\ m \in Seq(Byte) /\ Follows(p, m, o) /\ Got(b, m, o)
    BY <1>3, <1>5, <1>6, <2>1, Types DEF Got
  <2>3. o \in Nat /\ o + k <= 32
    BY <1>7, <2>1
  <2>4. Len(p) \in Nat /\ k <= Len(p) /\ k \in Nat /\ k >= 1
    BY <1>0, <1>1, <1>7, <2>1 DEF OnWay
  <2>5. k \in 0 .. Len(p) /\ k \in 1 .. Len(p)
    BY <2>4
  <2>6. r = SubSeq(p, k + 1, Len(p))
    BY <1>1, <1>3, <2>1 DEF TypeOK, End
  <2>7. b2 = [i \in 1 .. 32 |-> IF i - o \in 1 .. k THEN p[i - o] ELSE b[i]]
    BY <1>1, <1>3, <2>1 DEF TypeOK, End, BufferSize
  <2>8. Rest(r, p, k, m, o)
    BY <2>2, <2>3, <2>5, <2>6, FollowsTail
  <2>9. Got(b2, m, o + k)
    BY <2>2, <2>3, <2>5, <2>7, StartsMore
  <2> QED
    BY <2>1, <2>8, <2>9
<1>9. OnWay("client")' = OnWay("client") - k
  BY <1>8 DEF Rest, OnWay
<1>10. TypeOK'
  <2>1. size["server"] - k \in 0 .. BufferSize /\ offset["server"] + k \in 0 .. BufferSize
    BY <1>7 DEF BufferSize
  <2>2. size' \in [End -> 0 .. BufferSize] /\ offset' \in [End -> 0 .. BufferSize]
    BY <1>1, <1>3, <2>1 DEF TypeOK
  <2>3. offset'["server"] + size'["server"] <= BufferSize
    BY <1>4, <1>7 DEF BufferSize
  <2>4. \A e \in End : offset'[e] + size'[e] <= BufferSize
    BY <1>3, <1>4, <2>3 DEF TypeOK, End
  <2>5. pipe' \in [End -> Seq(Byte)]
    BY <1>1, <1>3, <1>8 DEF TypeOK, End, Rest
  <2>6. buffer' \in [End -> [1 .. BufferSize -> Byte]]
    BY <1>1, <1>3, <1>8 DEF TypeOK, End, Got, BufferSize
  <2> QED
    BY <1>2, <1>3, <2>2, <2>4, <2>5, <2>6 DEF TypeOK, Recv
<1>11. Sockets'
  BY <1>2, <1>3, <1>4 DEF Sockets
<1>12. ClientBytes'
  BY <1>2, <1>3, <1>4 DEF ClientBytes
<1>13. ServerBytes'
  <2>1. Incoming(offset["server"])'
    BY <1>2, <1>4, <1>5, <1>7, <1>8 DEF Incoming, Rest, Got
  <2> QED
    BY <1>2, <1>3, <1>4, <1>7, <2>1 DEF ServerBytes
<1>14. Turns'
  <2> SUFFICES ASSUME link', pc'["client"] # "done" PROVE Asking'
    BY DEF Turns
  <2>1. Asking
    <3>1. pipe["client"] = <<>> => OnWay("client") = 0
      BY EmptySeq DEF OnWay
    <3>2. pipe["client"] # <<>>
      BY <1>0, <1>1, <1>7, <3>1
    <3> QED
      BY <1>2, <1>3, <3>2 DEF Turns, Answering
  <2>2. Arrived' = Arrived + k /\ Sent' = Sent /\ Taken' = Taken
    BY <1>2, <1>4 DEF Taken, Sent, Arrived
  <2>3. Arrived \in Nat
    BY <1>0 DEF Arrived
  <2>4. Arrived + OnWay("client") = Sent
    BY <2>1 DEF Asking
  <2>5. (Arrived + OnWay("client") = Sent)'
    BY <1>0, <1>7, <1>9, <2>2, <2>3, <2>4
  <2> QED
    BY <1>2, <1>4, <2>1, <2>2, <2>5 DEF Asking
<1>15. NoneFailed' /\ WholeAnswers' /\ WholeRequests'
  BY <1>2 DEF NoneFailed, WholeAnswers, WholeRequests, StreamInv
<1> QED
  BY <1>10, <1>11, <1>12, <1>13, <1>14, <1>15 DEF StreamInv

LEMMA ClientSentKeeps == StreamInv /\ ClientSent => StreamInv'
<1> SUFFICES ASSUME StreamInv, ClientSent PROVE StreamInv'
  OBVIOUS
<1>1. /\ pc["client"] = "send" /\ size["client"] = 0
      /\ pc' = [pc EXCEPT !["client"] = "recv"]
      /\ offset' = [offset EXCEPT !["client"] = 0]
      /\ size' = [size EXCEPT !["client"] = AnswerSize(This)]
      /\ buffer' = buffer /\ pipe' = pipe /\ link' = link /\ open' = open /\ request' = request
      /\ returned' = returned /\ served' = served
      /\ This' = This /\ Done' = Done /\ Served' = Served
      /\ OnWay("client")' = OnWay("client") /\ OnWay("server")' = OnWay("server")
  BY DEF ClientSent, StartRecv, Call, Size, AnswerSize, This, Done, Served, OnWay
<1>2. TypeOK /\ Sockets /\ ClientBytes /\ ServerBytes /\ Turns
  BY DEF StreamInv
<1>3. /\ pc'["client"] = "recv" /\ pc'["server"] = pc["server"]
      /\ offset'["client"] = 0 /\ offset'["server"] = offset["server"]
      /\ size'["client"] = AnswerSize(This) /\ size'["server"] = size["server"]
  BY <1>1, <1>2 DEF TypeOK, End
<1>4. offset["client"] \in 0 .. 32 /\ This \in Nat /\ This >= 1
  BY <1>2, Numbers
<1>5. open["client"]
  BY <1>1, <1>2 DEF Sockets
<1>6. /\ This <= CallCount /\ offset["client"] + size["client"] = 12
      /\ Follows(pipe["server"], Answers(This), 0)
  BY <1>1, <1>2, <1>5 DEF ClientBytes
<1>7. offset["client"] = 12
  BY <1>1, <1>4, <1>6
<1>8. AnswerSize(This) \in {8, 20}
  BY <1>4, <1>6, CallFacts
<1>9. TypeOK'
  <2>1. AnswerSize(This) \in 0 .. BufferSize /\ 0 \in 0 .. BufferSize
    BY <1>8 DEF BufferSize
  <2>2. size' \in [End -> 0 .. BufferSize] /\ offset' \in [End -> 0 .. BufferSize]
    BY <1>1, <1>2, <2>1 DEF TypeOK
  <2>3. offset'["client"] + size'["client"] <= BufferSize
    BY <1>3, <1>8 DEF BufferSize
  <2>4. \A e \in End : offset'[e] + size'[e] <= BufferSize
    BY <1>2, <1>3, <2>3 DEF TypeOK, End
  <2>5. pc' \in [End -> {"send", "recv", "done"}]
    BY <1>1, <1>2 DEF TypeOK
  <2> QED
    BY <1>1, <1>2, <2>2, <2>4, <2>5 DEF TypeOK
<1>10. Sockets'
  BY <1>1, <1>2, <1>3, <1>5 DEF Sockets
<1>11. ClientBytes'
  <2>1. (offset["client"] + size["client"] = AnswerSize(This))'
    BY <1>1, <1>3, <1>8
  <2> QED
    BY <1>1, <1>3, <1>6, <2>1 DEF ClientBytes, Starts
<1>12. ServerBytes'
  BY <1>1, <1>2, <1>3 DEF ServerBytes, Incoming
<1>13. Turns'
  <2>1. Sent' = Sent /\ Taken' = Taken /\ Arrived' = Arrived /\ Answered' = Answered
    BY <1>1, <1>3, <1>7 DEF Sent, Taken, Arrived, Answered
  <2> QED
    BY <1>1, <1>2, <1>3, <2>1 DEF Turns, Asking, Answering
<1>14. NoneFailed' /\ WholeAnswers' /\ WholeRequests'
  BY <1>1, <1>3 DEF NoneFailed, WholeAnswers, WholeRequests, StreamInv
<1> QED
  BY <1>9, <1>10, <1>11, <1>12, <1>13, <1>14 DEF StreamInv

LEMMA ServerSentKeeps == StreamInv /\ ServerSent => StreamInv'
<1> SUFFICES ASSUME StreamInv, ServerSent PROVE StreamInv'
  OBVIOUS
<1>1. /\ pc["server"] = "send" /\ size["server"] = 0
      /\ pc' = [pc EXCEPT !["server"] = "recv"]
      /\ offset' = [offset EXCEPT !["server"] = 0]
      /\ size' = [size EXCEPT !["server"] = 12]
      /\ buffer' = buffer /\ pipe' = pipe /\ link' = link /\ open' = open /\ request' = request
      /\ returned' = returned /\ served' = served
      /\ This' = This /\ Done' = Done /\ Served' = Served
      /\ OnWay("client")' = OnWay("client") /\ OnWay("server")' = OnWay("server")
  BY DEF ServerSent, StartRecv, Size, This, Done, Served, OnWay
<1>2. TypeOK /\ Sockets /\ ClientBytes /\ ServerBytes /\ Turns
  BY DEF StreamInv
<1>3. /\ pc'["server"] = "recv" /\ pc'["client"] = pc["client"]
      /\ offset'["server"] = 0 /\ offset'["client"] = offset["client"]
      /\ size'["server"] = 12 /\ size'["client"] = size["client"]
  BY <1>1, <1>2 DEF TypeOK, End
<1>4. offset["server"] \in 0 .. 32 /\ Served \in Nat /\ This \in Nat
  BY <1>2, Numbers
<1>5. /\ Served >= 1 /\ Served <= CallCount /\ offset["server"] + size["server"] = AnswerSize(Served)
      /\ Incoming(0)
  BY <1>1, <1>2 DEF ServerBytes
<1>6. AnswerSize(Served) \in {8, 20}
  BY <1>4, <1>5, CallFacts
<1>7. offset["server"] = AnswerSize(Served)
  BY <1>1, <1>4, <1>5
<1>8. TypeOK'
  <2>1. 12 \in 0 .. BufferSize /\ 0 \in 0 .. BufferSize
    BY DEF BufferSize
  <2>2. size' \in [End -> 0 .. BufferSize] /\ offset' \in [End -> 0 .. BufferSize]
    BY <1>1, <1>2, <2>1 DEF TypeOK
  <2>3. offset'["server"] + size'["server"] <= BufferSize
    BY <1>3 DEF BufferSize
  <2>4. \A e \in End : offset'[e] + size'[e] <= BufferSize
    BY <1>2, <1>3, <2>3 DEF TypeOK, End
  <2>5. pc' \in [End -> {"send", "recv", "done"}]
    BY <1>1, <1>2 DEF TypeOK
  <2> QED
    BY <1>1, <1>2, <2>2, <2>4, <2>5 DEF TypeOK
<1>9. Sockets'
  BY <1>1, <1>2, <1>3 DEF Sockets
<1>10. ClientBytes'
  BY <1>1, <1>2, <1>3 DEF ClientBytes
<1>11. ServerBytes'
  <2>1. Incoming(offset["server"])'
    BY <1>1, <1>3, <1>5 DEF Incoming
  <2> QED
    BY <1>1, <1>2, <1>3, <2>1 DEF ServerBytes
<1>12. Turns'
  <2> SUFFICES ASSUME link', pc'["client"] # "done" PROVE Asking' \/ Answering'
    BY DEF Turns
  <2>1. Sent' = Sent /\ Taken' = Taken /\ Arrived' = Arrived
    BY <1>1, <1>3, <1>7 DEF Sent, Taken, Arrived
  <2>2. Answered' = AnswerSize(This) /\ Answered = AnswerSize(Served)
    BY <1>1, <1>3, <1>7 DEF Answered
  <2> QED
    BY <1>1, <1>2, <1>3, <2>1, <2>2 DEF Turns, Asking, Answering
<1>13. NoneFailed' /\ WholeAnswers' /\ WholeRequests'
  BY <1>1, <1>3 DEF NoneFailed, WholeAnswers, WholeRequests, StreamInv
<1> QED
  BY <1>8, <1>9, <1>10, <1>11, <1>12, <1>13 DEF StreamInv

\* What Return(a) does to the client.
LEMMA ReturnFacts ==
    ASSUME TypeOK, This <= CallCount, NEW a \in Answer, Return(a)
    PROVE  /\ pc' \in [End -> {"send", "recv", "done"}]
           /\ buffer' \in [End -> [1 .. BufferSize -> Byte]]
           /\ offset' \in [End -> 0 .. BufferSize] /\ size' \in [End -> 0 .. BufferSize]
           /\ \A e \in End : offset'[e] + size'[e] <= BufferSize
           /\ pc'["server"] = pc["server"] /\ buffer'["server"] = buffer["server"]
           /\ offset'["server"] = offset["server"] /\ size'["server"] = size["server"]
           /\ pipe' = pipe /\ request' = request /\ served' = served /\ Served' = Served
           /\ returned' \in Seq(Answer) /\ Done' = This /\ This' = This + 1
           /\ returned'[This] = a /\ \A i \in 1 .. Done : returned'[i] = returned[i]
           /\ \/ /\ This + 1 <= CallCount /\ pc'["client"] = "send"
                 /\ offset'["client"] = 0 /\ size'["client"] = 12
                 /\ Starts(buffer'["client"], Asks(This + 1), 12)
              \/ pc'["client"] = "done"
<1>1. /\ returned' = Append(returned, a) /\ pipe' = pipe /\ request' = request /\ served' = served
      /\ Served' = Served
  BY DEF Return, Served
<1>2. Done \in Nat /\ This \in Nat /\ This >= 1 /\ This = Done + 1
  BY Numbers DEF This
<1>3. /\ returned' \in Seq(Answer) /\ Done' = Done + 1 /\ returned'[Done + 1] = a
      /\ \A i \in 1 .. Done : returned'[i] = returned[i]
  BY <1>1, AppendProperties DEF TypeOK, Done
<1>4. Done' = This /\ This' = This + 1
  BY <1>2, <1>3 DEF This
<1>5. CASE This < CallCount
  <2>1. This + 1 \in 1 .. CallCount /\ Done + 1 < CallCount /\ Done + 2 = This + 1
    BY <1>2, <1>5, CallFacts
  <2>2. Asks(This + 1) \in Seq(Byte) /\ Len(Asks(This + 1)) = 12
    BY <2>1, CallFacts
  <2>3. Len(RequestInts(Calls[This + 1])) = 3
    BY <2>1, CallFacts, RequestFacts
  <2>4. StartSend("client", RequestInts(Calls[This + 1]))
    <3>1. Len(returned) + 1 < Len(Calls) /\ Len(returned) + 2 = This + 1
      BY <2>1 DEF Done, CallCount
    <3> QED
      BY <3>1 DEF Return
  <2>5. /\ pc' = [pc EXCEPT !["client"] = "send"]
        /\ buffer' = [buffer EXCEPT !["client"] = Fill(@, Asks(This + 1))]
        /\ offset' = [offset EXCEPT !["client"] = 0]
        /\ size' = [size EXCEPT !["client"] = 12]
    BY <2>3, <2>4 DEF StartSend, Size, Asks
  <2>6. PICK b, m : b = Fill(buffer["client"], m) /\ m = Asks(This + 1)
    OBVIOUS
  <2>7. m \in Seq(Byte) /\ Len(m) \in 0 .. 32 /\ Len(m) = 12
    BY <2>2, <2>6
  <2>8. buffer["client"] \in [1 .. BufferSize -> Byte]
    BY DEF TypeOK, End
  <2>9. b \in [1 .. BufferSize -> Byte] /\ Starts(b, m, 12)
    BY <2>6, <2>7, <2>8, FillStarts
  <2>10. buffer' = [buffer EXCEPT !["client"] = b]
    BY <2>5, <2>6
  <2>11. /\ pc'["server"] = pc["server"] /\ buffer'["server"] = buffer["server"]
         /\ offset'["server"] = offset["server"] /\ size'["server"] = size["server"]
         /\ pc'["client"] = "send" /\ offset'["client"] = 0 /\ size'["client"] = 12
         /\ buffer'["client"] = b
    BY <2>5, <2>10 DEF TypeOK, End
  <2>12. 12 \in 0 .. BufferSize /\ 0 \in 0 .. BufferSize
    BY DEF BufferSize
  <2>13. /\ offset' \in [End -> 0 .. BufferSize] /\ size' \in [End -> 0 .. BufferSize]
         /\ pc' \in [End -> {"send", "recv", "done"}]
         /\ buffer' \in [End -> [1 .. BufferSize -> Byte]]
    BY <2>5, <2>9, <2>10, <2>12 DEF TypeOK
  <2>14. offset'["client"] + size'["client"] <= BufferSize
    BY <2>11 DEF BufferSize
  <2>15. \A e \in End : offset'[e] + size'[e] <= BufferSize
    BY <2>11, <2>14 DEF TypeOK, End
  <2>16. This + 1 <= CallCount /\ Starts(buffer'["client"], Asks(This + 1), 12)
    BY <1>2, <1>5, <2>1, <2>6, <2>9, <2>11
  <2> QED
    BY <1>1, <1>2, <1>3, <1>4, <2>11, <2>13, <2>15, <2>16
<1>6. CASE ~(This < CallCount)
  <2>1. pc' = [pc EXCEPT !["client"] = "done"] /\ UNCHANGED <<buffer, offset, size>>
    <3>1. ~(Len(returned) + 1 < Len(Calls))
      BY <1>2, <1>6 DEF Done, CallCount
    <3> QED
      BY <3>1 DEF Return
  <2>2. /\ pc'["server"] = pc["server"] /\ pc'["client"] = "done"
        /\ pc' \in [End -> {"send", "recv", "done"}]
    BY <2>1 DEF TypeOK, End
  <2> QED
    BY <1>1, <1>2, <1>3, <1>4, <2>1, <2>2 DEF TypeOK
<1> QED
  BY <1>5, <1>6

LEMMA ClientReceivedKeeps == StreamInv /\ ClientReceived => StreamInv'
<1> SUFFICES ASSUME StreamInv, ClientReceived PROVE StreamInv'
  OBVIOUS
<1>1. /\ pc["client"] = "recv" /\ size["client"] = 0 /\ link' = link /\ open' = open
      /\ Return(AnswerOf(Calls[This], Unmarshal(buffer["client"], AnswerLength(Calls[This]))))
  BY DEF ClientReceived, Call, This, Done
<1>2. /\ TypeOK /\ Sockets /\ ClientBytes /\ ServerBytes /\ Turns
      /\ NoneFailed /\ WholeAnswers /\ WholeRequests
  BY DEF StreamInv
<1>3. /\ This <= CallCount /\ offset["client"] + size["client"] = AnswerSize(This)
      /\ Starts(buffer["client"], Answers(This), offset["client"])
      /\ Follows(pipe["server"], Answers(This), offset["client"])
      /\ open["client"]
  BY <1>1, <1>2 DEF ClientBytes, Sockets
<1>4. /\ offset["client"] \in 0 .. 32 /\ offset["server"] \in 0 .. 32 /\ size["server"] \in 0 .. 32
      /\ OnWay("server") \in Nat /\ Done \in Nat /\ This \in Nat /\ This >= 1
  BY <1>2, Numbers
<1>5. This \in 1 .. CallCount
  BY <1>3, <1>4, CallFacts
<1>6. /\ AnswerSize(This) \in {8, 20} /\ Len(Answers(This)) = AnswerSize(This)
      /\ offset["client"] = AnswerSize(This)
  <2>1. AnswerSize(This) \in {8, 20} /\ Len(Answers(This)) = AnswerSize(This)
    BY <1>5, CallFacts
  <2>2. offset["client"] = AnswerSize(This)
    BY <1>1, <1>3, <1>4
  <2> QED
    BY <2>1, <2>2
<1>7. pipe["server"] = <<>>
  <2>1. Follows(pipe["server"], Answers(This), Len(Answers(This))) /\ Len(Answers(This)) \in Nat
    BY <1>3, <1>6
  <2> QED
    BY <1>2, <2>1, FollowsNothing, Types
<1>8. /\ RightAnswer(Calls[This]) \in Answer
      /\ Return(RightAnswer(Calls[This]))
  BY <1>1, <1>3, <1>5, <1>6, AnswerRead
<1>9. PICK a \in Answer : a = RightAnswer(Calls[This])
  BY <1>8
<1>10. /\ pc' \in [End -> {"send", "recv", "done"}]
       /\ buffer' \in [End -> [1 .. BufferSize -> Byte]]
       /\ offset' \in [End -> 0 .. BufferSize] /\ size' \in [End -> 0 .. BufferSize]
       /\ \A e \in End : offset'[e] + size'[e] <= BufferSize
       /\ returned' \in Seq(Answer)
  BY <1>2, <1>3, <1>8, <1>9, ReturnFacts
<1>11. /\ pc'["server"] = pc["server"] /\ buffer'["server"] = buffer["server"]
       /\ offset'["server"] = offset["server"] /\ size'["server"] = size["server"]
       /\ pipe' = pipe /\ request' = request /\ served' = served /\ Served' = Served
       /\ Done' = This /\ This' = This + 1
       /\ OnWay("client")' = OnWay("client") /\ OnWay("server")' = OnWay("server")
  BY <1>2, <1>3, <1>8, <1>9, ReturnFacts DEF OnWay
<1>12. /\ returned'[This] = RightAnswer(Calls[This])
       /\ \A i \in 1 .. Done : returned'[i] = returned[i]
  BY <1>2, <1>3, <1>8, <1>9, ReturnFacts
<1>13. \/ /\ This + 1 <= CallCount /\ pc'["client"] = "send"
          /\ offset'["client"] = 0 /\ size'["client"] = 12
          /\ Starts(buffer'["client"], Asks(This + 1), 12)
       \/ pc'["client"] = "done"
  BY <1>2, <1>3, <1>8, <1>9, ReturnFacts
<1>14. TypeOK'
  BY <1>1, <1>2, <1>10, <1>11 DEF TypeOK
<1>15. Sockets'
  BY <1>1, <1>2, <1>3, <1>11, <1>13 DEF Sockets
<1>16. ClientBytes'
  <2>1. ASSUME This + 1 <= CallCount PROVE Follows(<<>>, Answers(This + 1), 0)
    <3>1. This + 1 \in 1 .. CallCount
      BY <1>4, <2>1, CallFacts
    <3>2. Answers(This + 1) \in Seq(Byte) /\ Len(Answers(This + 1)) \in {8, 20}
      BY <3>1, CallFacts
    <3>3. 0 \in 0 .. Len(Answers(This + 1))
      BY <3>2
    <3> QED
      BY <3>2, <3>3, FollowsEmpty
  <2> QED
    BY <1>7, <1>11, <1>13, <2>1 DEF ClientBytes
<1>17. ServerBytes'
  BY <1>2, <1>11 DEF ServerBytes, Incoming
<1>18. Turns'
  <2> SUFFICES ASSUME link', pc'["client"] # "done" PROVE Asking'
    BY DEF Turns
  <2>1. link /\ pc'["client"] = "send" /\ offset'["client"] = 0
    BY <1>1, <1>13
  <2>2. Taken = AnswerSize(This) /\ Taken # 0
    BY <1>1, <1>6 DEF Taken
  <2>3. Answering
    BY <1>1, <1>2, <2>1, <2>2 DEF Turns, Asking
  <2>4. Served = This /\ pipe["client"] = <<>> /\ Arrived = 0
    BY <2>3 DEF Answering
  <2>5. OnWay("server") = 0 /\ OnWay("client") = 0
    BY <1>7, <2>4, EmptySeq DEF OnWay
  <2>6. Answered = AnswerSize(This)
    <3>1. Taken + OnWay("server") = Answered
      BY <2>3 DEF Answering
    <3> QED
      BY <1>6, <2>2, <2>5, <3>1
  <2>7. pc["server"] = "send" => size["server"] = 0
    <3> SUFFICES ASSUME pc["server"] = "send" PROVE size["server"] = 0
      OBVIOUS
    <3>1. offset["server"] = AnswerSize(This)
      BY <2>6 DEF Answered
    <3>2. offset["server"] + size["server"] = AnswerSize(This)
      BY <1>2, <2>4 DEF ServerBytes
    <3> QED
      BY <1>4, <3>1, <3>2
  <2>8. Arrived' = 0 /\ Sent' = 0 /\ Taken' = 0
    BY <1>11, <2>1, <2>4 DEF Arrived, Sent, Taken
  <2>9. (Arrived + OnWay("client") = Sent)'
    BY <1>11, <2>5, <2>8
  <2> QED
    BY <1>7, <1>11, <2>4, <2>7, <2>8, <2>9 DEF Asking
<1>19. \A i \in 1 .. Done : returned[i] = RightAnswer(Calls[i])
  BY <1>1, <1>2, <1>3 DEF NoneFailed, Done
<1>20. \A i \in 1 .. This : returned'[i] = RightAnswer(Calls[i])
  <2> SUFFICES ASSUME NEW i \in 1 .. This PROVE returned'[i] = RightAnswer(Calls[i])
    OBVIOUS
  <2>1. i \in 1 .. Done \/ i = This
    BY <1>4 DEF This
  <2> QED
    BY <1>12, <1>19, <2>1
<1>21. Len(returned') = This
  BY <1>11 DEF Done
<1>22. NoneFailed'
  BY <1>11, <1>20 DEF NoneFailed
<1>23. WholeAnswers'
  <2> SUFFICES ASSUME NEW i \in 1 .. This
               PROVE  /\ returned'[i] = RightAnswer(Calls[i])
                      /\ \A j \in 1 .. i : returned'[j] # NoAnswer(Calls[j])
    BY <1>21 DEF WholeAnswers
  <2>1. \A j \in 1 .. i : j \in 1 .. This /\ j \in 1 .. CallCount
    BY <1>3, <1>4, CallFacts
  <2>2. \A j \in 1 .. i : RightAnswer(Calls[j]) # NoAnswer(Calls[j])
    BY <2>1, NoAnswerFacts
  <2> QED
    BY <1>20, <2>1, <2>2
<1>24. WholeRequests'
  BY <1>2, <1>11 DEF WholeRequests
<1> QED
  BY <1>14, <1>15, <1>16, <1>17, <1>18, <1>22, <1>23, <1>24 DEF StreamInv

LEMMA ClientFailsKeeps == StreamInv /\ ClientFails => StreamInv'
<1> SUFFICES ASSUME StreamInv, ClientFails PROVE StreamInv'
  OBVIOUS
<1>1. /\ open' = [open EXCEPT !["client"] = FALSE] /\ link' = FALSE
      /\ Return(NoAnswer(Calls[This]))
      /\ pc["client"] # "done"
  BY DEF ClientFails, Close, Fails, Call, This, Done
<1>2. /\ TypeOK /\ Sockets /\ ClientBytes /\ ServerBytes /\ WholeAnswers /\ WholeRequests
  BY DEF StreamInv
<1>3. This <= CallCount
  BY <1>1, <1>2 DEF ClientBytes
<1>4. Done \in Nat /\ This \in Nat /\ This >= 1
  BY <1>2, Numbers
<1>5. NoAnswer(Calls[This]) \in Answer
  <2>1. This \in 1 .. CallCount
    BY <1>3, <1>4, CallFacts
  <2> QED
    BY <2>1, NoAnswerFacts
<1>6. PICK a \in Answer : a = NoAnswer(Calls[This])
  BY <1>5
<1>7. /\ pc' \in [End -> {"send", "recv", "done"}]
      /\ buffer' \in [End -> [1 .. BufferSize -> Byte]]
      /\ offset' \in [End -> 0 .. BufferSize] /\ size' \in [End -> 0 .. BufferSize]
      /\ \A e \in End : offset'[e] + size'[e] <= BufferSize
      /\ returned' \in Seq(Answer)
  BY <1>1, <1>2, <1>3, <1>6, ReturnFacts
<1>8. /\ pc'["server"] = pc["server"] /\ buffer'["server"] = buffer["server"]
      /\ offset'["server"] = offset["server"] /\ size'["server"] = size["server"]
      /\ pipe' = pipe /\ request' = request /\ served' = served /\ Served' = Served
      /\ Done' = This /\ This' = This + 1
  BY <1>1, <1>2, <1>3, <1>6, ReturnFacts
<1>9. /\ returned'[This] = NoAnswer(Calls[This])
      /\ \A i \in 1 .. Done : returned'[i] = returned[i]
  BY <1>1, <1>2, <1>3, <1>6, ReturnFacts
<1>10. \/ /\ This + 1 <= CallCount /\ pc'["client"] = "send"
          /\ offset'["client"] = 0 /\ size'["client"] = 12
       \/ pc'["client"] = "done"
  BY <1>1, <1>2, <1>3, <1>6, ReturnFacts
<1>11. /\ open' \in [End -> BOOLEAN] /\ ~open'["client"] /\ open'["server"] = open["server"]
  BY <1>1, <1>2 DEF TypeOK, End
<1>12. TypeOK'
  BY <1>1, <1>2, <1>7, <1>8, <1>11 DEF TypeOK
<1>13. Sockets'
  BY <1>1, <1>2, <1>8, <1>10, <1>11 DEF Sockets
<1>14. ClientBytes'
  BY <1>8, <1>10, <1>11 DEF ClientBytes
<1>15. ServerBytes'
  BY <1>2, <1>8 DEF ServerBytes, Incoming
<1>16. Turns' /\ NoneFailed'
  BY <1>1, <1>11 DEF Turns, NoneFailed
<1>17. Len(returned') = This /\ Len(returned) = Done
  BY <1>8 DEF Done
<1>18. WholeAnswers'
  <2> SUFFICES ASSUME NEW i \in 1 .. This
               PROVE  \/ /\ returned'[i] = RightAnswer(Calls[i])
                         /\ \A j \in 1 .. i : returned'[j] # NoAnswer(Calls[j])
                      \/ returned'[i] = NoAnswer(Calls[i])
    BY <1>17 DEF WholeAnswers
  <2>1. CASE i = This
    BY <1>9, <2>1
  <2>2. CASE i # This
    <3>1. i \in 1 .. Done /\ \A j \in 1 .. i : j \in 1 .. Done
      BY <1>4, <2>2 DEF This
    <3> QED
      BY <1>2, <1>9, <1>17, <3>1 DEF WholeAnswers
  <2> QED
    BY <2>1, <2>2
<1>19. WholeRequests'
  BY <1>2, <1>8 DEF WholeRequests
<1> QED
  BY <1>12, <1>13, <1>14, <1>15, <1>16, <1>18, <1>19 DEF StreamInv

LEMMA ServerReceivedKeeps == StreamInv /\ ServerReceived => StreamInv'
<1> SUFFICES ASSUME StreamInv, ServerReceived PROVE StreamInv'
  OBVIOUS
<1>1. /\ pc["server"] = "recv" /\ size["server"] = 0
      /\ request' = RequestOf(Unmarshal(buffer["server"], 3))
      /\ served' = Append(served, RequestOf(Unmarshal(buffer["server"], 3)))
      /\ StartSend("server", AnswerInts(RequestOf(Unmarshal(buffer["server"], 3))))
      /\ pipe' = pipe /\ link' = link /\ open' = open /\ returned' = returned
      /\ Done' = Done /\ This' = This
      /\ OnWay("client")' = OnWay("client") /\ OnWay("server")' = OnWay("server")
  BY DEF ServerReceived, Done, This, OnWay
<1>2. TypeOK /\ Sockets /\ ClientBytes /\ ServerBytes /\ Turns /\ WholeRequests
  BY DEF StreamInv
<1>3. /\ offset["server"] \in 0 .. 32 /\ offset["client"] \in 0 .. 32
      /\ OnWay("client") \in Nat /\ Served \in Nat /\ Done \in Nat /\ This \in Nat
  BY <1>2, Numbers
<1>4. /\ offset["server"] + size["server"] = 12 /\ Incoming(offset["server"])
      /\ Served <= CallCount /\ \A i \in 1 .. Served : served[i] = Calls[i]
  BY <1>1, <1>2 DEF ServerBytes
<1>5. offset["server"] = 12
  <2>1. offset["server"] + 0 = 12 /\ offset["server"] \in 0 .. 32
    BY <1>1, <1>3, <1>4
  <2> QED
    BY <2>1
<1>6. /\ Served < CallCount
      /\ Starts(buffer["server"], Asks(Served + 1), 12)
      /\ Follows(pipe["client"], Asks(Served + 1), 12)
  BY <1>4, <1>5 DEF Incoming
<1>7. PICK n \in 1 .. CallCount : n = Served + 1
  BY <1>3, <1>6, CallFacts
<1>8. /\ Calls[n] \in CustomerRequest
      /\ Asks(n) \in Seq(Byte) /\ Len(Asks(n)) = 12
      /\ Answers(n) \in Seq(Byte) /\ Len(Answers(n)) = AnswerSize(n) /\ AnswerSize(n) \in {8, 20}
  BY CallFacts
<1>9. RequestOf(Unmarshal(buffer["server"], 3)) = Calls[n]
  BY <1>6, <1>7, RequestRead
<1>10. pipe["client"] = <<>>
  <2>1. Follows(pipe["client"], Asks(n), 12)
    BY <1>6, <1>7
  <2>2. Len(Asks(n)) = 12
    BY <1>8
  <2> QED
    <3>1. pipe["client"] \in Seq(Byte)
      BY <1>2, Types
    <3>2. Follows(pipe["client"], Asks(n), Len(Asks(n))) /\ Len(Asks(n)) \in Nat
      BY <2>1, <2>2
    <3> QED
      BY <3>1, <3>2, FollowsNothing
<1>11. /\ request' = Calls[n] /\ served' = Append(served, Calls[n])
       /\ StartSend("server", AnswerInts(Calls[n]))
  BY <1>1, <1>9
<1>12. Len(AnswerInts(Calls[n])) = AnswerLength(Calls[n])
  BY <1>8, RequestFacts
<1>13. /\ pc' = [pc EXCEPT !["server"] = "send"]
       /\ buffer' = [buffer EXCEPT !["server"] = Fill(@, Answers(n))]
       /\ offset' = [offset EXCEPT !["server"] = 0]
       /\ size' = [size EXCEPT !["server"] = AnswerSize(n)]
  BY <1>11, <1>12 DEF StartSend, Size, Answers, AnswerSize
<1>14. PICK b, m : b = Fill(buffer["server"], m) /\ m = Answers(n)
  OBVIOUS
<1>15. m \in Seq(Byte) /\ Len(m) \in 0 .. 32 /\ Len(m) = AnswerSize(n)
  <2>1. m \in Seq(Byte) /\ Len(m) = AnswerSize(n) /\ Len(m) \in {8, 20}
    BY <1>8, <1>14
  <2> QED
    BY <2>1
<1>16. buffer["server"] \in [1 .. BufferSize -> Byte]
  BY <1>2 DEF TypeOK, End
<1>17. b \in [1 .. BufferSize -> Byte] /\ Starts(b, m, AnswerSize(n))
  BY <1>14, <1>15, <1>16, FillStarts
<1>18. buffer' = [buffer EXCEPT !["server"] = b]
  BY <1>13, <1>14
<1>19. /\ pc'["client"] = pc["client"] /\ buffer'["client"] = buffer["client"]
       /\ offset'["client"] = offset["client"] /\ size'["client"] = size["client"]
       /\ pc'["server"] = "send" /\ offset'["server"] = 0 /\ size'["server"] = AnswerSize(n)
       /\ buffer'["server"] = b
  BY <1>2, <1>13, <1>18 DEF TypeOK, End
<1>20. /\ served' \in Seq(CustomerRequest) /\ Served' = n
       /\ \A i \in 1 .. n : served'[i] = Calls[i]
  <2>1. /\ served' \in Seq(CustomerRequest) /\ Served' = Served + 1
        /\ served'[Served + 1] = Calls[n]
        /\ \A i \in 1 .. Served : served'[i] = served[i]
    BY <1>2, <1>8, <1>11, AppendProperties DEF TypeOK, Served
  <2>2. \A i \in 1 .. n : i \in 1 .. Served \/ i = Served + 1
    BY <1>3, <1>7
  <2> QED
    BY <1>4, <1>7, <2>1, <2>2
<1>21. TypeOK'
  <2>1. AnswerSize(n) \in 0 .. BufferSize /\ 0 \in 0 .. BufferSize
    BY <1>8 DEF BufferSize
  <2>2. /\ size' \in [End -> 0 .. BufferSize] /\ offset' \in [End -> 0 .. BufferSize]
        /\ pc' \in [End -> {"send", "recv", "done"}]
        /\ buffer' \in [End -> [1 .. BufferSize -> Byte]]
    BY <1>2, <1>13, <1>17, <1>18, <2>1 DEF TypeOK
  <2>3. offset'["server"] + size'["server"] <= BufferSize
    BY <1>8, <1>19 DEF BufferSize
  <2>4. \A e \in End : offset'[e] + size'[e] <= BufferSize
    BY <1>2, <1>19, <2>3 DEF TypeOK, End
  <2> QED
    BY <1>1, <1>2, <1>8, <1>11, <1>20, <2>2, <2>4 DEF TypeOK
<1>22. Sockets'
  BY <1>1, <1>2, <1>19 DEF Sockets
<1>23. ClientBytes'
  BY <1>1, <1>2, <1>19 DEF ClientBytes
<1>24. ServerBytes'
  <2>1. (/\ Served <= CallCount /\ Served >= 1
         /\ offset["server"] + size["server"] = AnswerSize(Served))'
    BY <1>7, <1>8, <1>19, <1>20
  <2>2. Starts(buffer["server"], Answers(Served), AnswerSize(Served))'
    BY <1>14, <1>17, <1>19, <1>20
  <2>3. size'["server"] # 0
    BY <1>8, <1>19
  <2>4. (\A i \in 1 .. Served : served[i] = Calls[i])'
    BY <1>20
  <2>5. pipe'["client"] = <<>> /\ pc'["server"] = "send"
    BY <1>1, <1>10, <1>19
  <2> QED
    BY <2>1, <2>2, <2>3, <2>4, <2>5 DEF ServerBytes
<1>25. Turns'
  <2> SUFFICES ASSUME link', pc'["client"] # "done" PROVE Answering'
    BY DEF Turns
  <2>1. Arrived = 12
    BY <1>1, <1>5 DEF Arrived
  <2>2. Asking
    BY <1>1, <1>2, <1>19, <2>1 DEF Turns, Answering
  <2>3. OnWay("client") = 0
    BY <1>10, EmptySeq DEF OnWay
  <2>4. Sent = 12
    <3>1. Arrived + OnWay("client") = Sent
      BY <2>2 DEF Asking
    <3> QED
      BY <2>1, <2>3, <3>1
  <2>5. OnWay("server") = 0 /\ Taken = 0 /\ Served = Done
    BY <2>2, EmptySeq DEF Asking, OnWay
  <2>6. Sent' = Sent /\ Taken' = Taken /\ Arrived' = 0 /\ Answered' = 0
    BY <1>1, <1>19 DEF Sent, Taken, Arrived, Answered
  <2>7. Served' = This'
    BY <1>1, <1>7, <1>20, <2>5 DEF This
  <2>8. (Taken + OnWay("server") = Answered)'
    BY <1>1, <2>5, <2>6
  <2> QED
    BY <1>1, <1>10, <2>4, <2>6, <2>7, <2>8 DEF Answering
<1>26. NoneFailed' /\ WholeAnswers'
  BY <1>1, <1>19 DEF NoneFailed, WholeAnswers, StreamInv
<1>27. WholeRequests'
  <2> SUFFICES ASSUME NEW i \in 1 .. n PROVE i <= Len(Calls) /\ served'[i] = Calls[i]
    BY <1>20 DEF WholeRequests, Served
  <2>1. i <= CallCount
    BY <1>7, CallFacts
  <2> QED
    BY <1>20, <2>1 DEF CallCount
<1> QED
  BY <1>21, <1>22, <1>23, <1>24, <1>25, <1>26, <1>27 DEF StreamInv

LEMMA ServerFailsKeeps == StreamInv /\ ServerFails => StreamInv'
<1> SUFFICES ASSUME StreamInv, ServerFails PROVE StreamInv'
  OBVIOUS
<1>1. /\ pc["server"] # "done"
      /\ open' = [open EXCEPT !["server"] = FALSE] /\ link' = FALSE
      /\ served' = IF pc["server"] = "recv" THEN Append(served, NoRequest) ELSE served
      /\ pc' = [pc EXCEPT !["server"] = "done"]
      /\ buffer' = buffer /\ offset' = offset /\ size' = size /\ pipe' = pipe
      /\ request' = request /\ returned' = returned /\ Done' = Done /\ This' = This
  BY DEF ServerFails, Close, Fails, Done, This
<1>2. TypeOK /\ Sockets /\ ClientBytes /\ ServerBytes
  BY DEF StreamInv
<1>3. /\ pc'["server"] = "done" /\ pc'["client"] = pc["client"]
      /\ ~open'["server"] /\ open'["client"] = open["client"]
  BY <1>1, <1>2 DEF TypeOK, End
<1>4. Served \in Nat /\ Served <= CallCount /\ \A i \in 1 .. Served : served[i] = Calls[i]
  BY <1>1, <1>2, Numbers DEF ServerBytes
<1>5. NoRequest \in CustomerRequest
  BY SMT DEF NoRequest, RequestOf, CustomerRequest, Int32
<1>6. CASE pc["server"] = "recv"
  <2>1. /\ served' \in Seq(CustomerRequest) /\ Len(served') = Served + 1
        /\ served'[Served + 1] = NoRequest
        /\ \A i \in 1 .. Served : served'[i] = served[i]
    BY <1>1, <1>2, <1>5, <1>6, AppendProperties DEF TypeOK, Served
  <2>2. WholeRequests'
    <3> SUFFICES ASSUME NEW i \in 1 .. Served + 1
                 PROVE  \/ i <= Len(Calls) /\ served'[i] = Calls[i]
                        \/ i = Served + 1 /\ served'[i] = NoRequest
      BY <2>1 DEF WholeRequests
    <3>1. CASE i = Served + 1
      BY <2>1, <3>1
    <3>2. CASE i # Served + 1
      <4>1. i \in 1 .. Served /\ i <= CallCount
        BY <1>4, <3>2, CallFacts
      <4> QED
        BY <1>4, <2>1, <4>1 DEF CallCount
    <3> QED
      BY <3>1, <3>2
  <2> QED
    <3>1. TypeOK'
      BY <1>1, <1>2, <2>1 DEF TypeOK
    <3>2. Sockets' /\ ClientBytes' /\ ServerBytes' /\ Turns'
      BY <1>1, <1>2, <1>3 DEF Sockets, ClientBytes, ServerBytes, Turns
    <3>3. NoneFailed' /\ WholeAnswers'
      BY <1>1, <1>3 DEF NoneFailed, WholeAnswers, StreamInv
    <3> QED
      BY <2>2, <3>1, <3>2, <3>3 DEF StreamInv
<1>7. CASE pc["server"] # "recv"
  <2>1. TypeOK'
    BY <1>1, <1>2, <1>7 DEF TypeOK
  <2>2. Sockets' /\ ClientBytes' /\ ServerBytes' /\ Turns'
    BY <1>1, <1>2, <1>3 DEF Sockets, ClientBytes, ServerBytes, Turns
  <2>3. NoneFailed' /\ WholeAnswers' /\ WholeRequests'
    BY <1>1, <1>3, <1>7 DEF NoneFailed, WholeAnswers, WholeRequests, StreamInv
  <2> QED
    BY <2>1, <2>2, <2>3 DEF StreamInv
<1> QED
  BY <1>6, <1>7

LEMMA EndsKeeps == ASSUME NEW e \in End PROVE StreamInv /\ Ends(e) => StreamInv'
<1> SUFFICES ASSUME StreamInv, Ends(e) PROVE StreamInv'
  OBVIOUS
<1>1. /\ open' = [open EXCEPT ![e] = FALSE] /\ link' = FALSE
      /\ pc' = [pc EXCEPT ![e] = "done"]
      /\ buffer' = buffer /\ offset' = offset /\ size' = size /\ pipe' = pipe
      /\ request' = request /\ returned' = returned /\ served' = served
      /\ Done' = Done /\ This' = This /\ Served' = Served
  BY DEF Ends, Close, Done, This, Served
<1>2. /\ TypeOK /\ Sockets /\ ClientBytes /\ ServerBytes
      /\ NoneFailed /\ WholeAnswers /\ WholeRequests
  BY DEF StreamInv
<1>3. TypeOK'
  BY <1>1, <1>2 DEF TypeOK
<1>4. WholeAnswers' /\ WholeRequests' /\ Turns'
  BY <1>1, <1>2 DEF WholeAnswers, WholeRequests, Turns
<1>5. CASE e = "client"
  <2>1. /\ pc'["client"] = "done" /\ pc'["server"] = pc["server"]
        /\ open'["server"] = open["server"]
    BY <1>1, <1>2, <1>5 DEF TypeOK, End
  <2> QED
    BY <1>1, <1>2, <1>3, <1>4, <2>1
       DEF StreamInv, Sockets, ClientBytes, ServerBytes, Incoming, NoneFailed
<1>6. CASE e = "server"
  <2>1. /\ pc'["server"] = "done" /\ pc'["client"] = pc["client"]
        /\ open'["client"] = open["client"]
    BY <1>1, <1>2, <1>6 DEF TypeOK, End
  <2> QED
    BY <1>1, <1>2, <1>3, <1>4, <2>1
       DEF StreamInv, Sockets, ClientBytes, ServerBytes, NoneFailed
<1> QED
  BY <1>5, <1>6 DEF End

LEMMA BreakKeeps == StreamInv /\ Break => StreamInv'
<1> SUFFICES ASSUME StreamInv, Break PROVE StreamInv'
  OBVIOUS
<1>1. PICK k \in 0 .. OnWay("client"), j \in 0 .. OnWay("server") :
         pipe' = [pipe EXCEPT !["client"] = SubSeq(@, 1, k), !["server"] = SubSeq(@, 1, j)]
  BY DEF Break, OnWay
<1>2. /\ link' = FALSE /\ pc' = pc /\ buffer' = buffer /\ offset' = offset /\ size' = size /\ open' = open
      /\ request' = request /\ returned' = returned /\ served' = served
      /\ Done' = Done /\ This' = This /\ Served' = Served
  BY DEF Break, Done, This, Served
<1>3. TypeOK /\ Sockets /\ ClientBytes /\ ServerBytes
  BY DEF StreamInv
<1>4. PICK p, q, p2, q2 :
         /\ p = pipe["client"] /\ q = pipe["server"] /\ p2 = pipe'["client"] /\ q2 = pipe'["server"]
  OBVIOUS
<1>5. p2 = SubSeq(p, 1, k) /\ q2 = SubSeq(q, 1, j)
  BY <1>1, <1>3, <1>4 DEF TypeOK, End
<1>6. p \in Seq(Byte) /\ q \in Seq(Byte) /\ k \in 0 .. Len(p) /\ j \in 0 .. Len(q)
  BY <1>1, <1>3, <1>4, Types DEF OnWay
<1>7. /\ p2 \in Seq(Byte) /\ q2 \in Seq(Byte)
      /\ p = <<>> => p2 = <<>>
  BY <1>5, <1>6, FrontType
<1>8. \A m \in Seq(Byte), n \in Nat :
         /\ Follows(p, m, n) => Follows(p2, m, n)
         /\ Follows(q, m, n) => Follows(q2, m, n)
  BY <1>5, <1>6, FollowsFront
<1>9. Done \in Nat /\ Served \in Nat /\ This \in Nat /\ This >= 1
      /\ offset["client"] \in Nat /\ offset["server"] \in Nat
  <2>1. /\ offset["client"] \in 0 .. 32 /\ offset["server"] \in 0 .. 32
        /\ Done \in Nat /\ Served \in Nat /\ This \in Nat /\ This >= 1
    BY <1>3, Numbers
  <2> QED
    BY <2>1
<1>10. TypeOK'
  <2>1. pipe' \in [End -> Seq(Byte)]
    BY <1>1, <1>3, <1>4, <1>7 DEF TypeOK, End
  <2> QED
    BY <1>2, <1>3, <2>1 DEF TypeOK
<1>11. Sockets' /\ Turns' /\ NoneFailed' /\ WholeAnswers' /\ WholeRequests'
  BY <1>2, <1>3 DEF StreamInv, Sockets, Turns, NoneFailed, WholeAnswers, WholeRequests
<1>12. ClientBytes'
  <2>1. pc["client"] # "done" => Answers(This) \in Seq(Byte)
    <3>1. pc["client"] # "done" => This \in 1 .. CallCount
      BY <1>3, <1>9, CallFacts DEF ClientBytes
    <3> QED
      BY <3>1, CallFacts
  <2>2. pc["client"] = "send" /\ open["client"] => Follows(q2, Answers(This), 0)
    BY <1>3, <1>4, <1>8, <2>1 DEF ClientBytes
  <2>3. pc["client"] = "recv" => Follows(q2, Answers(This), offset["client"])
    BY <1>3, <1>4, <1>8, <1>9, <2>1 DEF ClientBytes
  <2> QED
    BY <1>2, <1>3, <1>4, <2>2, <2>3 DEF ClientBytes
<1>13. ASSUME NEW n \in Nat, Incoming(n) PROVE Incoming(n)'
  <2>1. CASE Served < CallCount
    <3>1. Served + 1 \in 1 .. CallCount
      BY <1>9, <2>1, CallFacts
    <3>2. Asks(Served + 1) \in Seq(Byte)
      BY <3>1, CallFacts
    <3>3. Follows(p2, Asks(Served + 1), n)
      BY <1>4, <1>8, <1>13, <2>1, <3>2 DEF Incoming
    <3> QED
      BY <1>2, <1>4, <1>13, <2>1, <3>3 DEF Incoming
  <2>2. CASE ~(Served < CallCount)
    BY <1>2, <1>4, <1>7, <1>13, <2>2 DEF Incoming
  <2> QED
    BY <2>1, <2>2
<1>14. ServerBytes'
  <2>1. pc["server"] = "recv" => Incoming(offset["server"])'
    <3>1. pc["server"] = "recv" => Incoming(offset["server"])
      BY <1>3 DEF ServerBytes
    <3>2. Incoming(offset["server"]) => Incoming(offset["server"])'
      <4>1. \A n \in Nat : Incoming(n) => Incoming(n)'
        BY <1>13
      <4>2. PICK n \in Nat : n = offset["server"]
        BY <1>9
      <4>3. Incoming(n) => Incoming(n)'
        BY <4>1
      <4> QED
        BY <1>2, <4>2, <4>3 DEF Incoming
    <3> QED
      BY <3>1, <3>2
  <2>2. pc["server"] = "send" /\ size["server"] = 0 => Incoming(0)'
    BY <1>3, <1>13 DEF ServerBytes
  <2>3. pc["server"] = "send" /\ size["server"] # 0 => p2 = <<>>
    BY <1>3, <1>4, <1>7 DEF ServerBytes
  <2> QED
    BY <1>2, <1>3, <1>4, <2>1, <2>2, <2>3 DEF ServerBytes
<1> QED
  BY <1>10, <1>11, <1>12, <1>14 DEF StreamInv

-----------------------------------------------------------------------------
(***************************************************************************)
(* The theorems.                                                           *)
(***************************************************************************)

LEMMA StreamStep == StreamInv /\ [Next]_vars => StreamInv'
<1> SUFFICES ASSUME StreamInv, [Next]_vars PROVE StreamInv'
  OBVIOUS
<1>1. CASE Client
  BY <1>1, SendClient, RecvClient, ClientSentKeeps, ClientReceivedKeeps, ClientFailsKeeps, EndsKeeps
     DEF Client, End
<1>2. CASE Server
  BY <1>2, SendServer, RecvServer, ServerSentKeeps, ServerReceivedKeeps, ServerFailsKeeps, EndsKeeps
     DEF Server, End
<1>3. CASE Break
  BY <1>3, BreakKeeps
<1>4. CASE UNCHANGED vars
  BY <1>4 DEF vars, StreamInv, TypeOK, Sockets, ClientBytes, ServerBytes, Incoming, Turns, Asking,
              Answering, Sent, Arrived, Answered, Taken, NoneFailed, WholeAnswers, WholeRequests,
              This, Done, Served, OnWay
<1> QED
  BY <1>1, <1>2, <1>3, <1>4 DEF Next

\* The bytes between the two ends are always those of the messages they are about,
\* and as many as each has still to read: the loops of Socket::Send and Socket::Recv
\* (Socket.cpp:27-74) never mix two messages.
THEOREM StreamIsConsistent == Spec => []StreamInv
BY InitStream, StreamStep, PTL DEF Spec

\* The variables of the model of the stubs have their types: no loop leaves its buffer of
\* 32 bytes (ClientStub.cpp, ServerStub.cpp, Socket.cpp).
THEOREM StreamTypes == Spec => []TypeOK
<1>1. StreamInv => TypeOK
  BY DEF StreamInv
<1> QED
  BY <1>1, StreamIsConsistent, PTL

\* Order and ReadRecord (ClientStub.cpp) return the whole answer to their own request or an
\* object that is not valid, in whatever pieces the bytes come and wherever the
\* connection breaks; after a failure there are no answers.
THEOREM AnswersAreWhole == Spec => []WholeAnswers
<1>1. StreamInv => WholeAnswers
  BY DEF StreamInv
<1> QED
  BY <1>1, StreamIsConsistent, PTL

\* ReceiveRequest (ServerStub.cpp) returns the client's requests, whole and in order, and at
\* the end one that is not valid at most.
THEOREM RequestsAreWhole == Spec => []WholeRequests
<1>1. StreamInv => WholeRequests
  BY DEF StreamInv
<1> QED
  BY <1>1, StreamIsConsistent, PTL

=============================================================================
