--------------------------- MODULE MessageFraming ---------------------------
(***************************************************************************)
(* The wire format of pkg/message.go and connWrite and connRead of         *)
(* pkg/network/base_connection.go, for one direction of a connection: the  *)
(* writer of one end, the stream of bytes, the reader of the other end.    *)
(*                                                                         *)
(* A cell stands for some bytes: cell <<i, k>> is the k-th of message i.   *)
(* A header has four of them: version, flags and opcode (1), the uuid (2   *)
(* and 3) and the length (4); the others are the payload.  WriteTo makes a *)
(* Write call for cell 1, for cells 2 and 3, for cell 4 and, if the        *)
(* payload is not nil, for the payload.                                    *)
(***************************************************************************)
EXTENDS Naturals, Sequences

CONSTANTS
  Nil,          \* the nil payload
  Sizes,        \* the sizes of the payloads that are not nil, in cells
  LenMod,       \* the length is kept modulo LenMod, 2^32 in the code
  MaxMsgs,      \* number of messages in the write queue
  MaxConns,     \* bound on the connections made
  MaxErrors     \* bound on the transient errors

ASSUME NilAssumption == Nil \notin Nat
ASSUME SizesAssumption == Sizes \subseteq Nat /\ LenMod \in Nat \ {0}
ASSUME BoundsAssumption == MaxMsgs \in Nat /\ MaxConns \in Nat \ {0} /\ MaxErrors \in Nat

VARIABLES
  msgs,         \* the payloads of the messages: Nil, or a size
  next,         \* the message at the head of the write queue, or in the writer's hand
  calls, n,     \* Write calls made for it on this connection, cells they wrote
  writer,       \* the writer goroutine: "write" or "done"
  link,         \* the connection: "up" or "down"
  stream,       \* the cells written and not read yet
  got, need,    \* cells ReadFrom has read, cells it has to read
  reader,       \* the reader goroutine of the other end: "read" or "done"
  here,         \* the frames connRead returned on this connection
  delivered,    \* the messages connRead returned unharmed, on any connection
  conns,        \* number of connections made
  errors,       \* number of transient errors
  first,        \* next, when this connection was made
  torn          \* a transient error cut a message of this connection in two

writerVars == <<next, calls, n, writer>>
readerVars == <<got, need, reader, here, delivered>>
connVars == <<conns, first>>
vars == <<msgs, writerVars, link, stream, readerVars, connVars, errors, torn>>

HeaderLen == 4

\* len(payload), and the length NewMessage puts in the header
Size(i) == IF msgs[i] = Nil THEN 0 ELSE msgs[i]

\* Mutation: the length is wider than the code's
LengthUnbounded(i) == Size(i)

Length(i) == Size(i) % LenMod

Frame(i) == [k \in 1..(HeaderLen + Size(i)) |-> <<i, k>>]

Cell == (1..MaxMsgs) \X Nat

TypeOK ==
  /\ msgs \in [1..MaxMsgs -> Sizes \cup {Nil}]
  /\ next \in 1..(MaxMsgs + 1) /\ first \in 1..next
  /\ calls \in 0..4 /\ n \in Nat /\ need \in HeaderLen..(HeaderLen + LenMod - 1)
  /\ writer \in {"write", "done"} /\ reader \in {"read", "done"} /\ link \in {"up", "down"}
  /\ stream \in Seq(Cell) /\ got \in Seq(Cell) /\ here \in Seq(Seq(Cell))
  /\ delivered \in Seq(1..MaxMsgs)
  /\ conns \in 1..MaxConns /\ errors \in 0..MaxErrors /\ torn \in BOOLEAN

Init ==
  /\ msgs \in [1..MaxMsgs -> Sizes \cup {Nil}]
  /\ next = 1 /\ calls = 0 /\ n = 0 /\ writer = "write"
  /\ link = "up" /\ stream = <<>>
  /\ got = <<>> /\ need = HeaderLen /\ reader = "read" /\ here = <<>> /\ delivered = <<>>
  /\ conns = 1 /\ first = 1 /\ errors = 0 /\ torn = FALSE

-----------------------------------------------------------------------------
(* The writer: connWrite, which calls WriteTo *)

LastCall(i) == IF msgs[i] = Nil THEN 3 ELSE 4

\* The last cell that is written by Write call c for message i
CallEnd(i, c) == <<1, 3, 4, HeaderLen + Size(i)>>[c]

InWriteTo == writer = "write" /\ next <= MaxMsgs /\ calls < LastCall(next)

\* Cells n+1 to k of the message leave.  A broken connection loses them.
Transmit(k) ==
  stream' = IF link = "up" THEN stream \o SubSeq(Frame(next), n + 1, k) ELSE stream

WriteCall ==
  /\ InWriteTo
  /\ calls' = calls + 1
  /\ n' = CallEnd(next, calls + 1)
  /\ Transmit(n')
  /\ UNCHANGED <<next, writer, errors, torn>>

\* What a Write call that fails may have written: less than it was given, or
\* the nothing it was given
CutAt(i) == {k \in n..CallEnd(i, calls + 1) : k < CallEnd(i, calls + 1) \/ k = n}

\* Mutation: the message is not written from its start again
WriteCallFailsResuming ==
  /\ InWriteTo
  /\ \E k \in CutAt(next) : Transmit(k) /\ n' = k
  /\ \/ link = "up" /\ errors < MaxErrors /\ errors' = errors + 1 /\ UNCHANGED <<writer, torn>>
     \/ link = "down" /\ writer' = "done" /\ UNCHANGED <<errors, torn>>
  /\ UNCHANGED <<next, calls>>

\* A Write call fails and the message is prepended to the queue.  After a
\* transient error the writer polls it again; after another one it returns.
WriteCallFails ==
  /\ InWriteTo
  /\ \E k \in CutAt(next) :
       /\ Transmit(k)
       /\ \/ link = "up" /\ errors < MaxErrors
             /\ errors' = errors + 1 /\ torn' = (torn \/ k > 0) /\ UNCHANGED writer
          \/ link = "down" /\ writer' = "done" /\ UNCHANGED <<errors, torn>>
  /\ calls' = 0 /\ n' = 0
  /\ UNCHANGED next

\* Mutation: a message is written again if the connection broke meanwhile
ConnWriteReturnsIfUp ==
  /\ writer = "write" /\ next <= MaxMsgs /\ calls = LastCall(next)
  /\ IF n = HeaderLen + Length(next) /\ link = "up"
       THEN next' = next + 1 /\ UNCHANGED writer
       ELSE writer' = "done" /\ UNCHANGED next
  /\ calls' = 0 /\ n' = 0
  /\ UNCHANGED <<stream, errors, torn>>

\* WriteTo returned no error: connWrite compares the count with the length of
\* the header.  A mismatch is an error that is neither EOF nor transient.
ConnWriteReturns ==
  /\ writer = "write" /\ next <= MaxMsgs /\ calls = LastCall(next)
  /\ IF n = HeaderLen + Length(next)
       THEN next' = next + 1 /\ UNCHANGED writer
       ELSE writer' = "done" /\ UNCHANGED next
  /\ calls' = 0 /\ n' = 0
  /\ UNCHANGED <<stream, errors, torn>>

\* Between two messages the writer sees that its context is closed
WriterQuits ==
  /\ writer = "write" /\ calls = 0 /\ link = "down"
  /\ writer' = "done"
  /\ UNCHANGED <<next, calls, n, stream, errors, torn>>

Writer ==
  /\ WriteCall \/ WriteCallFails \/ ConnWriteReturns \/ WriterQuits
  /\ UNCHANGED <<msgs, link, readerVars, connVars>>

-----------------------------------------------------------------------------
(* The reader: connRead, which calls ReadFrom *)

\* What messageHeaderFromBytes makes of the bytes of cell c, taken for a length
DecodedLength(c) == IF c[2] = HeaderLen THEN {Length(c[1])} ELSE 0..(LenMod - 1)

\* ReadAtLeast gets a cell; the last one of the header tells how many follow
ReadCell ==
  /\ reader = "read" /\ stream # <<>> /\ Len(got) < need
  /\ got' = Append(got, Head(stream))
  /\ stream' = Tail(stream)
  /\ IF Len(got') = HeaderLen
       THEN \E l \in DecodedLength(Head(stream)) : need' = HeaderLen + l
       ELSE UNCHANGED need
  /\ UNCHANGED <<reader, here, delivered, errors, torn>>

\* ReadFrom starts anew, with an empty Message
Restart == got' = <<>> /\ need' = HeaderLen

\* connRead returns the message
ConnReadReturns ==
  /\ reader = "read" /\ Len(got) = need
  /\ here' = Append(here, got)
  /\ delivered' = LET i == got[1][1]
                  IN IF got = Frame(i) THEN Append(delivered, i) ELSE delivered
  /\ Restart
  /\ UNCHANGED <<stream, reader, errors, torn>>

\* Mutation: the reader returns on a transient error
ReadFailsQuitting ==
  /\ reader = "read" /\ Len(got) < need /\ link = "up" /\ errors < MaxErrors
  /\ errors' = errors + 1
  /\ torn' = (torn \/ got # <<>>)
  /\ reader' = "done"
  /\ Restart
  /\ UNCHANGED <<stream, here, delivered>>

\* A transient error: what was read of the message is dropped
ReadFails ==
  /\ reader = "read" /\ Len(got) < need /\ link = "up" /\ errors < MaxErrors
  /\ errors' = errors + 1
  /\ torn' = (torn \/ got # <<>>)
  /\ Restart
  /\ UNCHANGED <<stream, reader, here, delivered>>

\* EOF or another error.  It may come before all that was written is read.
ReaderQuits ==
  /\ reader = "read" /\ Len(got) < need /\ link = "down"
  /\ reader' = "done"
  /\ Restart
  /\ UNCHANGED <<stream, here, delivered, errors, torn>>

Reader ==
  /\ ReadCell \/ ConnReadReturns \/ ReadFails \/ ReaderQuits
  /\ UNCHANGED <<msgs, writerVars, link, connVars>>

-----------------------------------------------------------------------------
(* The connection *)

Breaks ==
  /\ link = "up" /\ conns < MaxConns
  /\ link' = "down"
  /\ UNCHANGED <<msgs, writerVars, stream, readerVars, connVars, errors, torn>>

\* Both ends left consumeConnection and call it again with a new connection
Reconnects ==
  /\ link = "down" /\ writer = "done" /\ reader = "done"
  /\ link' = "up" /\ stream' = <<>>
  /\ writer' = "write" /\ reader' = "read"
  /\ conns' = conns + 1 /\ first' = next
  /\ here' = <<>> /\ torn' = FALSE
  /\ UNCHANGED <<msgs, next, calls, n, got, need, delivered, errors>>

Next == Writer \/ Reader \/ Breaks \/ Reconnects

\* The reader is always there to empty the stream, so that writes do not block
Fairness ==
  /\ WF_vars(WriteCall /\ UNCHANGED <<msgs, link, readerVars, connVars>>)
  /\ WF_vars(ConnWriteReturns /\ UNCHANGED <<msgs, link, readerVars, connVars>>)
  /\ WF_vars((ReadCell \/ ConnReadReturns) /\ UNCHANGED <<msgs, writerVars, link, connVars>>)

Safety == Init /\ [][Next]_vars

Spec == Safety /\ Fairness

-----------------------------------------------------------------------------
(* Properties *)

\* Whatever broke before, what connRead returns on a connection are the messages
\* that connWrite wrote on it, whole and in order from the head of the queue at
\* the time the connection was made.  It fails only after a transient error in
\* the midst of a message of this connection, or once the header of a message
\* cannot tell its length.
FramesIntact ==
  (~torn /\ \A i \in 1..MaxMsgs : i <= next => Size(i) = Length(i))
    => \A j \in 1..Len(here) : first + j - 1 <= MaxMsgs /\ here[j] = Frame(first + j - 1)

\* A message is delivered whole at most once and in order, over all connections
\* and transient errors, although every message whose write failed is written
\* again: a failed Write call leaves a message incomplete.  The one exception is
\* an empty payload that is not nil, whose Write call may fail with the whole
\* message on the wire.
AtMostOnceInOrder ==
  \A j \in 1..(Len(delivered) - 1) :
    \/ delivered[j] < delivered[j + 1]
    \/ delivered[j] = delivered[j + 1] /\ msgs[delivered[j]] = 0

LastDelivered == IF delivered = <<>> THEN 0 ELSE delivered[Len(delivered)]

\* The message that was delivered last is not one that connWrite can still give
\* back to be written again: all its Write calls were made, even if the reader
\* was faster than the writer, and the connection broke before connWrite looked
\* at the count.  Again an empty payload that is not nil is excepted, and so is
\* one whose length does not fit the header.
DeliveredIsFinished ==
  \A i \in 1..MaxMsgs :
    LastDelivered = i /\ msgs[i] # 0 /\ Size(i) = Length(i) => i < next \/ (i = next /\ calls = LastCall(i))

\* A message that was written is read at the other end, unless the connection
\* breaks or a transient error cuts a message in two.
WrittenIsRead ==
  \A i \in 1..MaxMsgs :
    (first <= i /\ i < next)
      ~> ((\E j \in 1..Len(delivered) : delivered[j] = i) \/ link = "down" \/ torn)
=============================================================================
