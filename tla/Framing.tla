------------------------------ MODULE Framing -------------------------------
(***************************************************************************)
(* How the server cuts a connection's bytes into LDAP messages:            *)
(* PoolClientHandler.recieve, _compute_ldap_message_size, _handle_request  *)
(* (app/__main__.py) and LDAPRequestMessage.from_bytes.                    *)
(*                                                                         *)
(* recieve() reads up to ReadSize bytes at a time into a new buffer until  *)
(* the BER length of the buffer's first message is reached or the stream   *)
(* ends; from_bytes() decodes the whole buffer, of which only the first    *)
(* message is used.  TCP cuts and joins what the client writes as it       *)
(* likes.  Bytes are counted, their content is that of whole messages      *)
(* until the connection is cut off.                                        *)
(***************************************************************************)
EXTENDS Naturals, Sequences

CONSTANTS
  N,         \* how many messages the client has
  Ends,      \* Ends[k], the offset of the first byte after message k
  HeadSize,  \* HeadSize[k], how many bytes the tag and the length of message k take
  ReadSize,  \* the most that one read() returns (rcv_size)
  Infinity   \* more than any buffer holds

\* A message is longer than its tag and length, and these are 2 bytes in the
\* short form of the length and at least 3 in the long form.
ASSUME FramingAssumption ==
  /\ N \in Nat
  /\ Ends \in [0..N -> Nat]
  /\ Ends[0] = 0
  /\ HeadSize \in [1..N -> Nat \ {0, 1}]
  /\ \A k \in 1..N : Ends[k - 1] + HeadSize[k] < Ends[k]
  /\ \A j, k \in 0..N : j < k => Ends[j] < Ends[k]
  /\ ReadSize \in Nat \ {0}
  /\ Infinity \in Nat /\ Ends[N] < Infinity

VARIABLES
  mode,     \* whether the client waits for each answer or pipelines
  written,  \* how many messages the client has written
  open,     \* whether the client's end is open
  arrived,  \* the bytes that have reached the StreamReader so far
  taken,    \* the bytes read() has returned so far
  done,     \* the messages whose bytes earlier calls of recieve() returned
  parsed,   \* the messages put in the session's queue
  reader    \* the task _handle_request: "reading" or "dead"

vars == <<mode, written, open, arrived, taken, done, parsed, reader>>

TypeOK ==
  /\ mode \in {"waiting", "pipelining"}
  /\ written \in 0..N
  /\ open \in BOOLEAN
  /\ arrived \in 0..Ends[written]
  /\ taken \in 0..arrived
  /\ done \in 0..written
  /\ parsed \in Seq(1..N)
  /\ reader \in {"reading", "dead"}

Init ==
  /\ mode \in {"waiting", "pipelining"}
  /\ written = 0
  /\ open = TRUE
  /\ arrived = 0
  /\ taken = 0
  /\ done = 0
  /\ parsed = <<>>
  /\ reader = "reading"

-----------------------------------------------------------------------------
(* The client and the network *)

\* A client that waits writes again when its last message was answered, which
\* is not before it was parsed.
Write ==
  /\ open
  /\ written < N
  /\ mode = "waiting" => Len(parsed) = written
  /\ written' = written + 1
  /\ UNCHANGED <<mode, open, arrived, taken, done, parsed, reader>>

\* Any part of what is under way reaches the server.
Arrive ==
  /\ open
  /\ \E n \in (arrived + 1)..Ends[written] : arrived' = n
  /\ UNCHANGED <<mode, written, open, taken, done, parsed, reader>>

\* The client closes, or the connection breaks, with bytes under way or not.
Close ==
  /\ open
  /\ open' = FALSE
  /\ UNCHANGED <<mode, written, arrived, taken, done, parsed, reader>>

-----------------------------------------------------------------------------
(* The reader *)

\* Mutant: the head of the long form is not counted in.
ComputedNoHead(size) ==
  IF size > 2 /\ done < N /\ size >= HeadSize[done + 1]
  THEN Ends[done + 1] - Ends[done] - (HeadSize[done + 1] - 2)
  ELSE Infinity

\* _compute_ldap_message_size of a buffer of that size: unknown until the
\* tag and the length of its first message are there.
Computed(size) ==
  IF size > 2 /\ done < N /\ size >= HeadSize[done + 1]
  THEN Ends[done + 1] - Ends[done]
  ELSE Infinity

\* Where the stream is after the next read(), which returns what there is.
Upto == IF arrived - taken < ReadSize THEN arrived ELSE taken + ReadSize

\* read() returns when there is a byte or the stream has ended.
CanRead == reader = "reading" /\ (taken < arrived \/ ~open)

\* recieve() ends here: reader.at_eof() or a whole message is in the buffer.
Complete ==
  \/ ~open /\ Upto = arrived
  \/ Upto - Ends[done] >= Computed(Upto - Ends[done])

\* The buffer has no whole message yet: read again.
ReadMore ==
  /\ CanRead
  /\ ~Complete
  /\ taken' = Upto
  /\ UNCHANGED <<mode, written, open, arrived, done, parsed, reader>>

\* Mutant: the buffer is kept for the next call of recieve().
BufferKept(k) ==
  /\ taken' = Upto
  /\ parsed' = Append(parsed, done + 1)
  /\ UNCHANGED <<done, reader>>

\* The buffer ends with message k. Its first message is put in the queue;
\* those after it are decoded too and dropped, from_bytes uses output[0].
FirstOnly(k) ==
  /\ taken' = Upto
  /\ done' = k
  /\ parsed' = Append(parsed, done + 1)
  /\ UNCHANGED reader

\* Mutant: the empty read at the end of the stream is taken for a message.
EmptyIsMessage ==
  /\ CanRead
  /\ Complete
  /\ Upto = Ends[done]
  /\ parsed' = Append(parsed, done + 1)
  /\ UNCHANGED <<mode, written, open, arrived, taken, done, reader>>

ReadMessage ==
  /\ CanRead
  /\ Complete
  /\ \E k \in (done + 1)..written : Ends[k] = Upto /\ FirstOnly(k)
  /\ UNCHANGED <<mode, written, open, arrived>>

\* The buffer is empty at the end of the stream (ConnectionAbortedError), or
\* it ends in the middle of a message, the first or a later one: decoding it
\* raises asn1.Error and the reader ends (RuntimeError).
ReadEnds ==
  /\ CanRead
  /\ Complete
  /\ \A k \in (done + 1)..written : Ends[k] # Upto
  /\ taken' = Upto
  /\ reader' = "dead"
  /\ UNCHANGED <<mode, written, open, arrived, done, parsed>>

-----------------------------------------------------------------------------
Read == ReadMore \/ ReadMessage \/ ReadEnds

Next == Write \/ Arrive \/ Close \/ Read

Spec == Init /\ [][Next]_vars

\* TCP delivers what was written while the connection lasts, and the event
\* loop wakes the reader.
FairSpec == Spec /\ WF_vars(Arrive) /\ WF_vars(Read)

-----------------------------------------------------------------------------
(* Properties *)

Stream == INSTANCE MessageStream

\* However TCP cuts the bytes, the messages put in the queue are messages the
\* client wrote, whole, in their order and none twice, and a client that
\* waits for its answers misses none (recieve, from_bytes).
ImplementsStream == Stream!StreamSpec

\* A message of a client that waits is parsed: neither the size that is
\* computed from the first bytes nor the 1024 bytes of a read keep the reader
\* waiting for bytes that do not come, or end it early (recieve).
AllParsed ==
  \A k \in 1..N :
    mode = "waiting" /\ written = k ~> ~open \/ Len(parsed) >= k
=============================================================================
