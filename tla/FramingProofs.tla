--------------------------- MODULE FramingProofs ----------------------------
(* Theorems about Framing, for any messages and any size of a read. *)
EXTENDS Framing, SequenceTheorems, TLAPS

-----------------------------------------------------------------------------
(* The inductive invariant *)

\* The buffer starts where a message starts; the last message parsed is one of
\* those before it, and the very last of them if the client waits.
Aligned ==
  /\ Ends[done] <= taken
  /\ Stream!Last <= done
  /\ mode = "waiting" =>
       /\ Stream!Last = done /\ Len(parsed) = done
       /\ written <= done + 1

FramingInv == TypeOK /\ Aligned

\* The offsets grow with the messages.
LEMMA EndsGrow ==
  ASSUME NEW j \in 0..N, NEW k \in 0..N, Ends[j] < Ends[k]
  PROVE  j < k
<1>1. Ends[j] \in Nat /\ Ends[k] \in Nat
  BY FramingAssumption
<1>2. ~(k < j) /\ j # k
  BY <1>1, FramingAssumption
<1> QED BY <1>2

LEMMA FramingInit == Init => FramingInv
<1> SUFFICES ASSUME Init PROVE FramingInv
  OBVIOUS
<1> USE FramingAssumption DEF Init
<1>1. parsed = <<>> /\ Len(parsed) = 0 /\ Stream!Last = 0
  BY DEF Stream!Last
<1>2. TypeOK
  BY EmptySeq DEF TypeOK
<1> QED BY <1>1, <1>2 DEF FramingInv, Aligned

\* What a read returns: something, and no more than has arrived.
LEMMA UptoBounds ==
  ASSUME FramingInv
  PROVE  Upto \in taken..arrived
BY FramingAssumption DEF FramingInv, TypeOK, Upto

\* The messages in the buffer, if it ends with message k.
LEMMA MessagesRead ==
  ASSUME FramingInv, NEW k \in (done + 1)..written, FirstOnly(k), Ends[k] = Upto,
         UNCHANGED <<mode, written, open, arrived>>
  PROVE  /\ FramingInv'
         /\ Stream!HandOver(done + 1)
<1>1. /\ N \in Nat /\ written \in 0..N /\ done \in 0..written /\ arrived \in 0..Ends[written]
      /\ k \in 0..N /\ done + 1 \in 1..N /\ parsed \in Seq(1..N)
      /\ Ends \in [0..N -> Nat]
  <2>1. N \in Nat /\ written \in 0..N /\ done \in 0..written /\ Ends \in [0..N -> Nat]
    BY FramingAssumption DEF FramingInv, TypeOK
  <2>2. k \in 0..N /\ done + 1 \in 1..N
    BY <2>1
  <2> QED BY <2>1, <2>2 DEF FramingInv, TypeOK
<1>2. /\ parsed' = Append(parsed, done + 1) /\ parsed' \in Seq(1..N)
      /\ Len(parsed) \in Nat /\ Len(parsed') = Len(parsed) + 1
      /\ parsed'[Len(parsed) + 1] = done + 1
  BY <1>1, AppendProperties, LenProperties DEF FirstOnly
<1>3. Stream!Last' = done + 1
  BY <1>2 DEF Stream!Last
<1>4. TypeOK'
  BY <1>1, <1>2, UptoBounds DEF FramingInv, TypeOK, FirstOnly
<1>5. Aligned'
  BY <1>1, <1>2, <1>3 DEF FramingInv, Aligned, FirstOnly
<1>6. Stream!HandOver(done + 1)
  <2>1. /\ Stream!Last \in Int /\ Stream!Last < done + 1
        /\ mode = "waiting" => done + 1 = Stream!Last + 1
    <3>1. CASE parsed = <<>>
      BY <1>1, <3>1 DEF FramingInv, Aligned, Stream!Last
    <3>2. CASE parsed # <<>>
      <4>1. Len(parsed) \in 1..Len(parsed)
        <5>1. Len(parsed) # 0
          BY <1>1, <3>2, EmptySeq
        <5> QED BY <1>2, <5>1
      <4>2. parsed[Len(parsed)] \in 1..N
        <5>1. parsed \in Seq(1..N)
          BY <1>1
        <5> QED BY <4>1, <5>1, ElementOfSeq
      <4>3. Stream!Last = parsed[Len(parsed)]
        BY <3>2 DEF Stream!Last
      <4>4. Stream!Last \in 1..N
        BY <4>2, <4>3
      <4> QED BY <1>1, <4>4 DEF FramingInv, Aligned
    <3> QED BY <3>1, <3>2
  <2> QED BY <1>2, <2>1 DEF Stream!HandOver
<1> QED BY <1>4, <1>5, <1>6 DEF FramingInv

\* Every other step leaves what was parsed alone.
LEMMA NothingParsed ==
  ASSUME FramingInv, UNCHANGED <<mode, done, parsed>>, TypeOK', taken <= taken',
         mode = "waiting" => written' <= done + 1
  PROVE  FramingInv'
<1>1. Stream!Last' = Stream!Last
  BY DEF Stream!Last
<1>2. Ends[done] \in Nat /\ taken \in Nat /\ taken' \in Nat
  BY FramingAssumption DEF FramingInv, TypeOK
<1> QED BY <1>1, <1>2 DEF FramingInv, Aligned

LEMMA WriteKeeps ==
  ASSUME FramingInv, Write
  PROVE  FramingInv' /\ Stream!WriteMessage
<1>1. /\ written \in 0..N /\ written' = written + 1 /\ written' \in 0..N
      /\ Ends[written] \in Nat /\ Ends[written'] \in Nat /\ Ends[written] <= Ends[written']
  BY FramingAssumption DEF FramingInv, TypeOK, Write
<1>2. TypeOK'
  BY <1>1 DEF FramingInv, TypeOK, Write
<1>3. taken <= taken' /\ (mode = "waiting" => written' <= done + 1)
  BY <1>1 DEF FramingInv, Aligned, TypeOK, Write
<1>4. FramingInv'
  BY <1>2, <1>3, NothingParsed DEF Write
<1>5. Stream!WriteMessage
  BY DEF Write, Stream!WriteMessage
<1> QED BY <1>4, <1>5

LEMMA TransportKeeps ==
  ASSUME FramingInv, Arrive \/ Close
  PROVE  FramingInv' /\ UNCHANGED Stream!streamVars
<1>1. /\ UNCHANGED <<mode, written, taken, done, parsed, reader>>
      /\ open' \in BOOLEAN /\ arrived' \in arrived..Ends[written]
  <2>1. written \in 0..N /\ arrived \in 0..Ends[written] /\ Ends[written] \in Nat
        /\ open \in BOOLEAN
    BY FramingAssumption DEF FramingInv, TypeOK
  <2>2. CASE Arrive
    BY <2>1, <2>2 DEF Arrive
  <2>3. CASE Close
    <3>1. open' \in BOOLEAN
      BY <2>3 DEF Close
    <3>2. UNCHANGED <<mode, written, arrived, taken, done, parsed, reader>>
      BY <2>3 DEF Close
    <3> QED BY <2>1, <3>1, <3>2
  <2> QED BY <2>2, <2>3
<1>2. TypeOK' /\ taken <= taken' /\ (mode = "waiting" => written' <= done + 1)
  BY <1>1, FramingAssumption DEF FramingInv, TypeOK, Aligned
<1> QED BY <1>1, <1>2, NothingParsed DEF Stream!streamVars

LEMMA SilentReadKeeps ==
  ASSUME FramingInv, ReadMore \/ ReadEnds
  PROVE  FramingInv' /\ UNCHANGED Stream!streamVars
<1>1. /\ UNCHANGED <<mode, written, open, arrived, done, parsed>>
      /\ taken' \in taken..arrived /\ reader' \in {"reading", "dead"}
  BY UptoBounds DEF ReadMore, ReadEnds, CanRead
<1>2. TypeOK' /\ taken <= taken' /\ (mode = "waiting" => written' <= done + 1)
  BY <1>1, FramingAssumption DEF FramingInv, TypeOK, Aligned
<1> QED BY <1>1, <1>2, NothingParsed DEF Stream!streamVars

LEMMA FramingStep ==
  FramingInv /\ [Next]_vars => FramingInv' /\ [Stream!StreamNext]_Stream!streamVars
<1> SUFFICES ASSUME FramingInv, [Next]_vars
             PROVE  FramingInv' /\ [Stream!StreamNext]_Stream!streamVars
  OBVIOUS
<1>1. CASE Write
  BY <1>1, WriteKeeps DEF Stream!StreamNext
<1>2. CASE Arrive \/ Close
  BY <1>2, TransportKeeps
<1>3. CASE ReadMore \/ ReadEnds
  BY <1>3, SilentReadKeeps
<1>4. CASE ReadMessage
  <2>1. PICK k \in (done + 1)..written : Ends[k] = Upto /\ FirstOnly(k)
    BY <1>4 DEF ReadMessage
  <2>2. FramingInv' /\ Stream!HandOver(done + 1)
    BY <1>4, <2>1, MessagesRead DEF ReadMessage
  <2>3. done + 1 \in 1..written
    BY <2>1 DEF FramingInv, TypeOK
  <2> QED BY <2>2, <2>3 DEF Stream!StreamNext
<1>5. CASE UNCHANGED vars
  <2>1. Stream!Last' = Stream!Last
    BY <1>5 DEF vars, Stream!Last
  <2> QED BY <1>5, <2>1 DEF vars, FramingInv, TypeOK, Aligned, Stream!streamVars
<1> QED BY <1>1, <1>2, <1>3, <1>4, <1>5 DEF Next, Read

LEMMA FramingAlways == Spec => []FramingInv
BY FramingInit, FramingStep, PTL DEF Spec

-----------------------------------------------------------------------------
(* The theorems *)

\* Type correctness: reads stay within what has arrived and what arrives
\* within what was written.
THEOREM FramingTypeCorrect == Spec => []TypeOK
<1>1. FramingInv => TypeOK
  BY DEF FramingInv
<1> QED BY FramingAlways, <1>1, PTL

\* Whatever the sizes of the messages and of a read, and however TCP cuts the
\* bytes, the reader hands over whole messages in their order, and all of
\* those of a client that waits (recieve, _compute_ldap_message_size).
THEOREM FramingImplementsStream == Spec => ImplementsStream
<1>1. Init => Stream!StreamInit
  BY DEF Init, Stream!StreamInit
<1>2. Spec => Stream!StreamSpec
  BY <1>1, FramingAlways, FramingStep, PTL DEF Spec, Stream!StreamSpec
<1> QED BY <1>2 DEF ImplementsStream

-----------------------------------------------------------------------------
(* What the stream promises *)

StreamInv == written \in Nat /\ parsed \in Seq(Nat) /\ Stream!Delivered

LEMMA StreamInitially == Stream!StreamInit => StreamInv
BY DEF Stream!StreamInit, StreamInv, Stream!Delivered

\* A message that is handed over comes after all that were.
LEMMA HandOverKeeps ==
  ASSUME StreamInv, NEW n \in 1..written, Stream!HandOver(n)
  PROVE  StreamInv'
<1> DEFINE len == Len(parsed)
<1>1. /\ parsed \in Seq(Nat) /\ len \in Nat /\ n \in Nat /\ written \in Nat
      /\ parsed' = Append(parsed, n) /\ written' = written /\ mode' = mode
  BY DEF StreamInv, Stream!HandOver
<1>2. /\ parsed' \in Seq(Nat) /\ Len(parsed') = len + 1 /\ parsed'[len + 1] = n
      /\ \A k \in 1..len : parsed'[k] = parsed[k]
  BY <1>1, AppendProperties
<1>3. \A k \in 1..(len + 1) : k \in 1..len \/ k = len + 1
  BY <1>1
<1>4. \A k \in 1..len : parsed[k] \in Nat /\ parsed[k] < n
  <2>1. \A k \in 1..len : parsed[k] \in Nat /\ parsed[len] \in Nat
    BY <1>1
  <2>2. ASSUME NEW k \in 1..len PROVE parsed[k] <= parsed[len]
    <3>1. CASE k = len
      BY <2>1, <3>1
    <3>2. CASE k # len
      <4>1. k < len /\ len \in 1..len
        BY <1>1, <3>2
      <4>2. parsed[k] < parsed[len]
        BY <4>1 DEF StreamInv, Stream!Delivered
      <4> QED BY <2>1, <4>2
    <3> QED BY <3>1, <3>2
  <2>3. ASSUME NEW k \in 1..len PROVE parsed[len] < n
    <3>1. parsed # <<>>
      BY <1>1
    <3> QED BY <3>1 DEF Stream!HandOver, Stream!Last
  <2> QED BY <1>1, <2>1, <2>2, <2>3
<1>5. mode = "waiting" => n = len + 1
  <2>1. CASE parsed = <<>>
    BY <2>1 DEF Stream!HandOver, Stream!Last
  <2>2. CASE parsed # <<>>
    <3>1. len \in 1..len
      BY <1>1, <2>2, EmptySeq
    <3> QED BY <1>1, <2>2, <3>1 DEF Stream!HandOver, Stream!Last, StreamInv, Stream!Delivered
  <2> QED BY <2>1, <2>2
<1>6. \A k \in 1..(len + 1) : parsed'[k] \in 1..written
  BY <1>2, <1>3 DEF StreamInv, Stream!Delivered
<1>7. \A j, k \in 1..(len + 1) : j < k => parsed'[j] < parsed'[k]
  <2> TAKE j, k \in 1..(len + 1)
  <2> HAVE j < k
  <2>1. j \in 1..len
    BY <1>1
  <2>2. CASE k \in 1..len
    BY <1>2, <2>1, <2>2 DEF StreamInv, Stream!Delivered
  <2>3. CASE k = len + 1
    BY <1>2, <1>4, <2>1, <2>3
  <2> QED BY <1>3, <2>2, <2>3
<1>8. mode = "waiting" => \A k \in 1..(len + 1) : parsed'[k] = k
  BY <1>2, <1>3, <1>5 DEF StreamInv, Stream!Delivered
<1> QED BY <1>1, <1>2, <1>6, <1>7, <1>8 DEF StreamInv, Stream!Delivered

LEMMA StreamStep == StreamInv /\ [Stream!StreamNext]_Stream!streamVars => StreamInv'
<1> SUFFICES ASSUME StreamInv, [Stream!StreamNext]_Stream!streamVars
             PROVE  StreamInv'
  OBVIOUS
<1>1. CASE Stream!WriteMessage
  BY <1>1 DEF Stream!WriteMessage, StreamInv, Stream!Delivered
<1>2. CASE \E n \in 1..written : Stream!HandOver(n)
  BY <1>2, HandOverKeeps
<1>3. CASE UNCHANGED Stream!streamVars
  BY <1>3 DEF Stream!streamVars, StreamInv, Stream!Delivered
<1> QED BY <1>1, <1>2, <1>3 DEF Stream!StreamNext

\* And so a session gets no message twice, none its client did not write and
\* none out of order, and of a client that waits it gets them from the first
\* one on without a gap: the refinement carries what the promise comes to
\* over to the reader (recieve, _handle_request).
THEOREM DeliveredInOrder == Spec => []Stream!Delivered
<1>1. Stream!StreamSpec => []Stream!Delivered
  <2>1. StreamInv => Stream!Delivered
    BY DEF StreamInv
  <2> QED BY <2>1, StreamInitially, StreamStep, PTL DEF Stream!StreamSpec
<1> QED BY <1>1, FramingImplementsStream, PTL DEF ImplementsStream
=============================================================================
