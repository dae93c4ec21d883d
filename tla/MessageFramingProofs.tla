------------------------ MODULE MessageFramingProofs ------------------------
(***************************************************************************)
(* Proofs about MessageFraming, for any number of messages, sizes of       *)
(* payloads, connections and transient errors: what is read are the        *)
(* messages that were written, whole, in order and at most once, with the  *)
(* exceptions that FramesIntact and AtMostOnceInOrder name.                *)
(***************************************************************************)
EXTENDS MessageFraming, Integers, TLAPS

\* The writer is done with a message when its last Write call is, and n counts
\* the cells of the calls made.
WriterAt ==
  /\ writer = "done" => calls = 0
  /\ next > MaxMsgs => calls = 0
  /\ next <= MaxMsgs => calls <= LastCall(next)
  /\ n = IF calls = 0 THEN 0 ELSE CallEnd(next, calls)

\* ReadFrom asks for the header first, then for as much as the header tells.
ReaderAt ==
  /\ reader = "done" => got = <<>>
  /\ Len(got) <= need
  /\ Len(got) < HeaderLen => need = HeaderLen
  /\ Len(got) >= HeaderLen /\ got[HeaderLen][2] = HeaderLen => need = HeaderLen + Length(got[HeaderLen][1])

\* There is a connection left to make after one that broke.
ConnLeft == link = "down" => conns < MaxConns

\* A message whose length does not fit its header is never taken off the queue.
WrittenTellsLength == \A i \in 1..(next - 1) : Size(i) = Length(i)

\* Messages follow one another in the order of the queue, from what was
\* delivered over what was read to what is on the way, torn or not.
Ordered ==
  /\ LastDelivered <= next
  /\ \A j \in 1..Len(stream) : LastDelivered <= stream[j][1] /\ stream[j][1] <= next
  /\ \A k \in 1..Len(got) : LastDelivered <= got[k][1] /\ got[k][1] <= next
  /\ \A j, l \in 1..Len(stream) : j <= l => stream[j][1] <= stream[l][1]
  /\ \A k \in 1..Len(got), j \in 1..Len(stream) : got[k][1] <= stream[j][1]

\* The cell that ends message i, and where it can be
FinalCell(i) == <<i, HeaderLen + Size(i)>>
FinalOnWay(i) == \E j \in 1..Len(stream) : stream[j] = FinalCell(i)
FinalRead(i) == \E k \in 1..Len(got) : got[k] = FinalCell(i)

\* A message whose header tells its length, and whose last Write call has
\* something to write
Sound(i) == msgs[i] # 0 /\ Size(i) = Length(i)

\* Only the last Write call for a message writes its final cell, and after that
\* call the message is not written again: the cell exists at most once.
Once(i) ==
  /\ FinalOnWay(i) \/ FinalRead(i) \/ LastDelivered = i => i < next \/ (i = next /\ calls = LastCall(i))
  /\ FinalRead(i) => ~FinalOnWay(i)
  /\ LastDelivered = i => ~FinalRead(i) /\ ~FinalOnWay(i)
  /\ \A j, l \in 1..Len(stream) : stream[j] = FinalCell(i) /\ stream[l] = FinalCell(i) => j = l

FinalOnce == \A i \in 1..MaxMsgs : Sound(i) => Once(i)

\* The cell that follows cell k of message i, if nothing is cut
After(i, k) == IF k < HeaderLen \/ k < HeaderLen + Size(i) THEN <<i, k + 1>> ELSE <<i + 1, 1>>
Follows(c) == After(c[1], c[2])

\* The l cells of s follow one another, cell c being the first; the cell that
\* follows them
Linked(s, l, c) == (l # 0 => s[1] = c) /\ \A j \in 1..(l - 1) : s[j + 1] = Follows(s[j])
FollowsAll(s, l, c) == IF l = 0 THEN c ELSE Follows(s[l])

\* The message the reader is at, the cell it expects, the cell the writer is at
At == first + Len(here)
Expected == After(At, Len(got))
Upcoming == After(next, n)

\* What is read and what is on the way are the cells of the messages, one after
\* the other, from the message the reader is at to the cell the writer is at.
InStep ==
  /\ \A k \in 1..Len(got) : got[k] = <<At, k>>
  /\ Linked(stream, Len(stream), Expected)
  /\ link = "up" => Upcoming = FollowsAll(stream, Len(stream), Expected)

\* The headers of the messages up to the one being written tell their lengths.
Fits == \A i \in 1..MaxMsgs : i <= next => Size(i) = Length(i)

Intact == ~torn /\ Fits
ReadInStep == Intact /\ reader = "read" => InStep

IInv ==
  /\ TypeOK /\ WriterAt /\ ReaderAt /\ ConnLeft
  /\ Ordered /\ FinalOnce /\ ReadInStep
  /\ WrittenTellsLength /\ FramesIntact /\ AtMostOnceInOrder

-----------------------------------------------------------------------------
(* Sequences: what an append, a head and a tail, a concatenation and a     *)
(* part of a sequence hold                                                 *)

\* Appending keeps what was there and adds one at the end (the buffer ReadFrom fills).
LEMMA Appended ==
  ASSUME NEW S, NEW s \in Seq(S), NEW e \in S
  PROVE  /\ Append(s, e) \in Seq(S) /\ Len(Append(s, e)) = Len(s) + 1
         /\ \A i \in 1..Len(s) : Append(s, e)[i] = s[i]
         /\ Append(s, e)[Len(s) + 1] = e
OBVIOUS

\* Taking the first leaves the rest, moved up by one (the bytes Read takes off the stream).
LEMMA Taken ==
  ASSUME NEW S, NEW s \in Seq(S), s # <<>>
  PROVE  /\ Head(s) \in S /\ Tail(s) \in Seq(S) /\ Len(Tail(s)) = Len(s) - 1
         /\ \A i \in 1..Len(Tail(s)) : Tail(s)[i] = s[i + 1]
OBVIOUS

\* A concatenation is the one, then the other (the bytes a Write puts on the stream).
LEMMA Joined ==
  ASSUME NEW S, NEW s \in Seq(S), NEW t \in Seq(S)
  PROVE  /\ s \o t \in Seq(S) /\ Len(s \o t) = Len(s) + Len(t)
         /\ \A i \in 1..(Len(s) + Len(t)) : (s \o t)[i] =
              IF i <= Len(s) THEN s[i] ELSE t[i - Len(s)]
OBVIOUS

\* Writing nothing leaves the stream as it was.
LEMMA JoinedEmpty ==
  ASSUME NEW S, NEW s \in Seq(S)
  PROVE  s \o <<>> = s
OBVIOUS

\* A part of a sequence has the cells of its range (the bytes of a frame one Write call covers).
LEMMA PartOf ==
  ASSUME NEW S, NEW s, NEW a \in Int, NEW b \in Int, \A i \in a..b : s[i] \in S
  PROVE  /\ SubSeq(s, a, b) \in Seq(S)
         /\ Len(SubSeq(s, a, b)) = IF a <= b THEN b - a + 1 ELSE 0
         /\ \A i \in 1..(b - a + 1) : SubSeq(s, a, b)[i] = s[a + i - 1]
OBVIOUS

\* An empty range has no cells.
LEMMA EmptyPart ==
  ASSUME NEW s, NEW a \in Int, NEW b \in Int, b < a
  PROVE  SubSeq(s, a, b) = <<>>
OBVIOUS

\* The places of a stream that grew from a to b cells are the old and the new ones.
LEMMA PlacesGrow ==
  ASSUME NEW a \in Nat, NEW b \in Nat, a <= b
  PROVE  \A j \in 1..b : j \in 1..a \/ (j \in (a + 1)..b /\ j > a)
OBVIOUS

\* The places of a buffer of a cells that got one more
LEMMA PlacesAfterAppend ==
  ASSUME NEW a \in Nat
  PROVE  \A j \in 1..(a + 1) : j \in 1..a \/ j = a + 1
OBVIOUS

\* The places of a stream of a cells that lost its first
LEMMA PlacesAfterTail ==
  ASSUME NEW a \in Nat, a # 0
  PROVE  1 \in 1..a /\ \A j \in 1..(a - 1) : j + 1 \in 1..a /\ j + 1 # 1 /\ 1 <= j + 1
OBVIOUS

\* Cells a + 1 to b of a message come after l cells: where place j of them all is.
LEMMA PlacesOfPart ==
  ASSUME NEW l \in Nat, NEW m \in Nat, NEW a \in Nat, NEW b \in Nat, m = l + (b - a), NEW j \in 1..(m - 1)
  PROVE  /\ j < l => j \in 1..(l - 1) /\ j \in 1..l /\ j + 1 \in 1..l
         /\ j = l => l # 0 /\ l \in 1..l /\ m > l
         /\ j > l => /\ j \in (l + 1)..m /\ j + 1 \in (l + 1)..m
                     /\ a + (j - l) \in Nat /\ a + (j - l) < b
                     /\ a + ((j + 1) - l) = (a + (j - l)) + 1
         /\ j < l \/ j = l \/ j > l
OBVIOUS

\* A message delivered is one of the queue's.
LEMMA Member ==
  ASSUME NEW S, NEW s \in Seq(S), NEW i \in 1..Len(s)
  PROVE  s[i] \in S
OBVIOUS

-----------------------------------------------------------------------------
(* What the actions do to the stream of cells *)

\* The sizes of the payloads are numbers, and the length of a header is one
\* that fits.
LEMMA SizeFacts ==
  ASSUME TypeOK, NEW i \in 1..MaxMsgs
  PROVE  Size(i) \in Nat /\ Length(i) \in 0..(LenMod - 1) /\ LastCall(i) \in 3..4
<1>1. msgs[i] \in Sizes \cup {Nil}
  BY Zenon DEF TypeOK
<1>2. Size(i) \in Nat
  BY <1>1, SizesAssumption, Zenon DEF Size
<1>3. Length(i) \in 0..(LenMod - 1)
  BY <1>2, SizesAssumption DEF Length
<1> QED
  BY <1>2, <1>3 DEF LastCall

\* A Write call starts where the one before it ended; the last one ends the
\* message.
LEMMA CallFacts ==
  ASSUME TypeOK, WriterAt, next \in 1..MaxMsgs
  PROVE  /\ n \in 0..(HeaderLen + Size(next))
         /\ calls = LastCall(next) => n = HeaderLen + Size(next)
         /\ calls < LastCall(next) =>
              /\ CallEnd(next, calls + 1) \in n..(HeaderLen + Size(next))
              /\ msgs[next] # 0 /\ CallEnd(next, calls + 1) = HeaderLen + Size(next)
                   => calls + 1 = LastCall(next)
<1> DEFINE s == Size(next)
<1>1. s \in Nat /\ LastCall(next) \in 3..4
  BY SizeFacts
<1>2. calls \in 0..4 /\ calls <= LastCall(next)
  BY DEF TypeOK, WriterAt
<1>3. /\ CallEnd(next, 1) = 1 /\ CallEnd(next, 2) = 3
      /\ CallEnd(next, 3) = 4 /\ CallEnd(next, 4) = 4 + s
  BY DEF CallEnd, HeaderLen
<1>4. /\ calls = 0 => n = 0
      /\ calls = 1 => n = 1
      /\ calls = 2 => n = 3
      /\ calls = 3 => n = 4
      /\ calls = 4 => n = 4 + s
  BY <1>2, <1>3 DEF WriterAt
<1>5. /\ LastCall(next) = 3 => s = 0 /\ msgs[next] = Nil
      /\ LastCall(next) = 4 => s = msgs[next]
  BY DEF LastCall, Size
<1> HIDE DEF s
<1>6. n \in 0..(4 + s)
  BY <1>1, <1>2, <1>4
<1>7. calls = LastCall(next) => n = 4 + s
  BY <1>1, <1>4, <1>5
<1>8. ASSUME calls < LastCall(next)
      PROVE  /\ CallEnd(next, calls + 1) \in n..(4 + s)
             /\ msgs[next] # 0 /\ CallEnd(next, calls + 1) = 4 + s
                  => calls + 1 = LastCall(next)
  <2>1. calls \in 0..3
    BY <1>1, <1>2, <1>8
  <2>2. CASE calls = 0
    BY <2>2, <1>1, <1>3, <1>4
  <2>3. CASE calls = 1
    BY <2>3, <1>1, <1>3, <1>4
  <2>4. CASE calls = 2
    BY <2>4, <1>1, <1>3, <1>4, <1>5
  <2>5. CASE calls = 3
    BY <2>5, <1>1, <1>3, <1>4, <1>8
  <2> QED
    BY <2>1, <2>2, <2>3, <2>4, <2>5
<1> QED
  BY <1>6, <1>7, <1>8 DEF s, HeaderLen

\* A part of a frame is made of its cells.
LEMMA FramePart ==
  ASSUME TypeOK, NEW i \in 1..MaxMsgs, NEW a \in Nat, NEW k \in a..(HeaderLen + Size(i))
  PROVE  /\ SubSeq(Frame(i), a + 1, k) \in Seq(Cell)
         /\ Len(SubSeq(Frame(i), a + 1, k)) = k - a
         /\ \A j \in 1..(k - a) : SubSeq(Frame(i), a + 1, k)[j] = <<i, a + j>>
<1> DEFINE f == Frame(i)
<1>0. Size(i) \in Nat /\ HeaderLen = 4
  BY SizeFacts DEF HeaderLen
<1>1. k \in Nat /\ a + 1 \in Int /\ k \in Int /\ k <= HeaderLen + Size(i)
  BY <1>0
<1>2. \A j \in (a + 1)..k : f[j] = <<i, j>>
  BY <1>0, <1>1 DEF Frame
<1>3. \A j \in (a + 1)..k : f[j] \in Cell
  BY <1>1, <1>2 DEF Cell
<1> HIDE DEF f
<1>4. /\ SubSeq(f, a + 1, k) \in Seq(Cell)
      /\ Len(SubSeq(f, a + 1, k)) = IF a + 1 <= k THEN k - (a + 1) + 1 ELSE 0
      /\ \A j \in 1..(k - (a + 1) + 1) : SubSeq(f, a + 1, k)[j] = f[a + 1 + j - 1]
  <2> DEFINE b == a + 1
  <2>1. b \in Int /\ k \in Int /\ \A j \in b..k : f[j] \in Cell
    BY <1>1, <1>3
  <2> HIDE DEF b
  <2>2. /\ SubSeq(f, b, k) \in Seq(Cell)
        /\ Len(SubSeq(f, b, k)) = IF b <= k THEN k - b + 1 ELSE 0
        /\ \A j \in 1..(k - b + 1) : SubSeq(f, b, k)[j] = f[b + j - 1]
    BY <2>1, PartOf, SMTT(30)
  <2> QED
    BY <2>2, Zenon DEF b
<1>5. Len(SubSeq(f, a + 1, k)) = k - a
  BY <1>1, <1>4
<1>6. ASSUME NEW j \in 1..(k - a)
      PROVE  SubSeq(f, a + 1, k)[j] = <<i, a + j>>
  <2>1. j \in 1..(k - (a + 1) + 1) /\ a + 1 + j - 1 = a + j /\ a + j \in (a + 1)..k
    BY <1>1
  <2>2. SubSeq(f, a + 1, k)[j] = f[a + j]
    BY <2>1, <1>4
  <2> QED
    BY <2>1, <2>2, <1>2
<1> QED
  BY <1>4, <1>5, <1>6 DEF f

\* Transmit adds cells n + 1 to k of the message in hand to the stream of a
\* connection that is up.
LEMMA TransmitFacts ==
  ASSUME TypeOK, next \in 1..MaxMsgs, NEW k \in n..(HeaderLen + Size(next)), Transmit(k)
  PROVE  /\ stream' \in Seq(Cell)
         /\ link # "up" => stream' = stream
         /\ link = "up" => Len(stream') = Len(stream) + (k - n)
         /\ Len(stream') \in Nat /\ Len(stream) \in 0..Len(stream')
         /\ \A j \in 1..Len(stream) : stream'[j] = stream[j]
         /\ \A j \in (Len(stream) + 1)..Len(stream') : stream'[j] = <<next, n + (j - Len(stream))>>
<1> DEFINE p == SubSeq(Frame(next), n + 1, k)
<1>0. stream \in Seq(Cell) /\ Len(stream) \in Nat /\ n \in Nat /\ k \in Nat /\ n <= k
  <2>1. Size(next) \in Nat
    BY SizeFacts
  <2> QED
    BY <2>1 DEF TypeOK, HeaderLen
<1>1. /\ p \in Seq(Cell)
      /\ Len(p) = k - n
      /\ \A j \in 1..(k - n) : p[j] = <<next, n + j>>
  BY <1>0, FramePart, Zenon
<1>2. stream' = IF link = "up" THEN stream \o p ELSE stream
  BY DEF Transmit
<1> HIDE DEF p
<1>3. CASE link = "up"
  <2>1. stream' = stream \o p
    BY <1>2, <1>3
  <2>2. /\ stream \o p \in Seq(Cell)
        /\ Len(stream \o p) = Len(stream) + Len(p)
        /\ \A j \in 1..(Len(stream) + Len(p)) : (stream \o p)[j] =
             IF j <= Len(stream) THEN stream[j] ELSE p[j - Len(stream)]
    BY <1>0, <1>1, Joined, ZenonT(60)
  <2>3. /\ Len(stream') = Len(stream) + (k - n)
        /\ \A j \in 1..(Len(stream) + (k - n)) : stream'[j] =
             IF j <= Len(stream) THEN stream[j] ELSE p[j - Len(stream)]
    BY <2>1, <2>2, <1>1
  <2>4. Len(stream') \in Nat /\ Len(stream) \in 0..Len(stream')
    BY <2>3, <1>0
  <2>5. \A j \in 1..Len(stream) : stream'[j] = stream[j]
    BY <2>3, <1>0
  <2>6. ASSUME NEW j \in (Len(stream) + 1)..Len(stream')
        PROVE  stream'[j] = <<next, n + (j - Len(stream))>>
    <3>1. j - Len(stream) \in 1..(k - n) /\ ~(j <= Len(stream)) /\ j \in 1..(Len(stream) + (k - n))
      BY <2>3, <1>0
    <3> QED
      BY <3>1, <2>3, <1>1
  <2> QED
    BY <2>1, <2>2, <2>3, <2>4, <2>5, <2>6, <1>3, Zenon
<1>4. CASE link # "up"
  <2>1. stream' = stream
    BY <1>2, <1>4
  <2> QED
    BY <2>1, <1>0, <1>4
<1> QED
  BY <1>3, <1>4

\* ReadCell takes the first cell of the stream.
LEMMA ReadCellFacts ==
  ASSUME TypeOK, ReadCell
  PROVE  /\ Len(stream) \in Nat \ {0} /\ Len(got) \in Nat
         /\ stream[1] \in Cell /\ Head(stream) = stream[1]
         /\ got' \in Seq(Cell) /\ Len(got') = Len(got) + 1
         /\ \A k \in 1..Len(got) : got'[k] = got[k]
         /\ got'[Len(got) + 1] = stream[1]
         /\ stream' \in Seq(Cell) /\ Len(stream') = Len(stream) - 1
         /\ \A j \in 1..(Len(stream) - 1) : stream'[j] = stream[j + 1]
<1>1. /\ stream \in Seq(Cell) /\ got \in Seq(Cell) /\ stream # <<>>
      /\ got' = Append(got, Head(stream)) /\ stream' = Tail(stream)
  BY DEF TypeOK, ReadCell
<1>2. Len(stream) \in Nat \ {0} /\ Len(got) \in Nat /\ Head(stream) = stream[1]
  BY <1>1
<1>3. /\ Head(stream) \in Cell /\ Tail(stream) \in Seq(Cell)
      /\ Len(Tail(stream)) = Len(stream) - 1
      /\ \A j \in 1..Len(Tail(stream)) : Tail(stream)[j] = stream[j + 1]
  BY <1>1, Taken, ZenonT(60)
<1>4. /\ got' \in Seq(Cell) /\ Len(got') = Len(got) + 1
      /\ \A k \in 1..Len(got) : got'[k] = got[k]
      /\ got'[Len(got) + 1] = Head(stream)
  BY <1>1, <1>3
<1>5. \A j \in 1..(Len(stream) - 1) : stream'[j] = stream[j + 1]
  BY <1>1, <1>3
<1> QED
  BY <1>1, <1>2, <1>3, <1>4, <1>5

-----------------------------------------------------------------------------
(* The invariants of the two goroutines *)

Core == TypeOK /\ WriterAt /\ ReaderAt /\ ConnLeft /\ WrittenTellsLength

\* No step changes the messages, so sizes, lengths and frames stay.
LEMMA Rigid ==
  ASSUME msgs' = msgs, NEW i
  PROVE  /\ Size(i)' = Size(i) /\ Length(i)' = Length(i) /\ LastCall(i)' = LastCall(i)
         /\ Frame(i)' = Frame(i) /\ FinalCell(i)' = FinalCell(i)
<1>1. Size(i)' = Size(i)
  BY DEF Size
<1> QED
  BY <1>1 DEF Length, LastCall, Frame, FinalCell

\* The invariants of the two goroutines hold when the first connection is made.
LEMMA InitCore ==
  ASSUME Init
  PROVE  Core
<1>1. TypeOK
  <2>1. torn \in BOOLEAN
    BY Zenon DEF Init
  <2>2. stream \in Seq(Cell) /\ got \in Seq(Cell) /\ here \in Seq(Seq(Cell)) /\ delivered \in Seq(1..MaxMsgs)
    BY DEF Init
  <2>3. /\ next \in 1..(MaxMsgs + 1) /\ first \in 1..next /\ calls \in 0..4 /\ n \in Nat
        /\ need \in HeaderLen..(HeaderLen + LenMod - 1)
        /\ conns \in 1..MaxConns /\ errors \in 0..MaxErrors
    BY BoundsAssumption, SizesAssumption DEF Init, HeaderLen
  <2> QED
    BY <2>1, <2>2, <2>3 DEF Init, TypeOK
<1>2. WriterAt
  BY DEF Init, WriterAt, LastCall
<1>3. ReaderAt
  BY DEF Init, ReaderAt, HeaderLen
<1>4. ConnLeft /\ WrittenTellsLength
  BY DEF Init, ConnLeft, WrittenTellsLength
<1> QED
  BY <1>1, <1>2, <1>3, <1>4 DEF Core

\* The writer keeps the invariants of the two goroutines.
LEMMA WriterCore ==
  ASSUME Core, Writer
  PROVE  Core'
<1>0. /\ msgs' = msgs /\ link' = link /\ conns' = conns /\ first' = first
      /\ got' = got /\ need' = need /\ reader' = reader
      /\ here' = here /\ delivered' = delivered
  BY DEF Writer, readerVars, connVars
<1>1. TypeOK /\ WriterAt /\ ReaderAt /\ ConnLeft /\ WrittenTellsLength
  BY DEF Core
<1>2. ReaderAt' /\ ConnLeft'
  <2>1. \A i : Length(i)' = Length(i)
    BY <1>0, Rigid
  <2> QED
    BY <1>0, <1>1, <2>1 DEF ReaderAt, ConnLeft
<1>3. CASE WriteCall
  <2>1. /\ writer = "write" /\ next \in 1..MaxMsgs /\ calls < LastCall(next)
        /\ calls' = calls + 1 /\ next' = next /\ writer' = writer
        /\ errors' = errors /\ torn' = torn
        /\ n' = CallEnd(next, calls + 1)
    BY <1>1, <1>3 DEF WriteCall, InWriteTo, TypeOK
  <2>2. n' \in n..(HeaderLen + Size(next)) /\ Size(next) \in Nat /\ LastCall(next) \in 3..4
    BY <1>1, <2>1, CallFacts, SizeFacts
  <2>3. stream' \in Seq(Cell)
    <3>1. Transmit(n')
      BY <1>3 DEF WriteCall
    <3> QED
      BY <1>1, <2>1, <2>2, <3>1, TransmitFacts
  <2>4. calls' \in 0..4 /\ calls' # 0 /\ calls' <= LastCall(next) /\ n' \in Nat
    <3>1. calls \in Nat /\ n \in Nat
      BY <1>1 DEF TypeOK
    <3>2. calls' \in 0..4 /\ calls' # 0 /\ calls' <= LastCall(next)
      BY <2>1, <2>2, <3>1
    <3>3. n' \in Nat
      BY <2>2, <3>1 DEF HeaderLen
    <3> QED
      BY <3>2, <3>3
  <2>5. TypeOK'
    BY <1>0, <1>1, <2>1, <2>3, <2>4 DEF TypeOK
  <2>6. WriterAt'
    <3>1. LastCall(next)' = LastCall(next)
      BY <1>0, <2>1 DEF LastCall
    <3>2. CallEnd(next, calls)' = CallEnd(next, calls + 1)
      BY <1>0, <2>1 DEF CallEnd, Size
    <3> QED
      BY BoundsAssumption, <2>1, <2>4, <3>1, <3>2 DEF WriterAt
  <2>7. WrittenTellsLength'
    BY <1>0, <1>1, <2>1, Rigid DEF WrittenTellsLength
  <2> QED
    BY <1>2, <2>5, <2>6, <2>7 DEF Core
<1>4. CASE WriteCallFails
  <2>1. /\ next \in 1..MaxMsgs /\ calls < LastCall(next)
        /\ calls' = 0 /\ n' = 0 /\ next' = next
    BY <1>1, <1>4 DEF WriteCallFails, InWriteTo, TypeOK
  <2>2. PICK k \in CutAt(next) :
          /\ Transmit(k)
          /\ \/ link = "up" /\ errors < MaxErrors
                /\ errors' = errors + 1 /\ torn' = (torn \/ k > 0) /\ UNCHANGED writer
             \/ link = "down" /\ writer' = "done" /\ UNCHANGED <<errors, torn>>
    BY <1>4 DEF WriteCallFails
  <2>3. k \in n..(HeaderLen + Size(next))
    <3>1. CallEnd(next, calls + 1) \in n..(HeaderLen + Size(next)) /\ Size(next) \in Nat
      BY <1>1, <2>1, CallFacts, SizeFacts
    <3>2. k \in n..CallEnd(next, calls + 1)
      BY <2>2 DEF CutAt
    <3>3. n \in Nat
      BY <1>1, Zenon DEF TypeOK
    <3> QED
      BY <3>1, <3>2, <3>3 DEF HeaderLen
  <2>4. stream' \in Seq(Cell)
    BY <1>1, <2>1, <2>2, <2>3, TransmitFacts
  <2>5. errors' \in 0..MaxErrors /\ writer' \in {"write", "done"}
    BY <1>1, <2>2, BoundsAssumption DEF TypeOK
  <2>6. torn' \in BOOLEAN
    <3>1. (torn \/ k > 0) \in BOOLEAN
      BY Zenon
    <3> QED
      BY <1>1, <2>2, <3>1, Zenon DEF TypeOK
  <2>7. TypeOK'
    BY <1>0, <1>1, <2>1, <2>4, <2>5, <2>6 DEF TypeOK
  <2>8. WriterAt'
    BY <2>1 DEF WriterAt, LastCall
  <2>9. WrittenTellsLength'
    BY <1>0, <1>1, <2>1, Rigid DEF WrittenTellsLength
  <2> QED
    BY <1>2, <2>7, <2>8, <2>9 DEF Core
<1>5. CASE ConnWriteReturns
  <2>1. /\ writer = "write" /\ next \in 1..MaxMsgs /\ calls = LastCall(next)
        /\ calls' = 0 /\ n' = 0 /\ stream' = stream /\ errors' = errors /\ torn' = torn
    BY <1>1, <1>5 DEF ConnWriteReturns, TypeOK
  <2>2. \/ n = HeaderLen + Length(next) /\ next' = next + 1 /\ writer' = writer
        \/ writer' = "done" /\ next' = next
    BY <1>5 DEF ConnWriteReturns
  <2>3. next' \in 1..(MaxMsgs + 1) /\ first \in 1..next' /\ writer' \in {"write", "done"}
    <3>1. first \in 1..next
      BY <1>1, Zenon DEF TypeOK
    <3> QED
      BY <2>1, <2>2, <3>1, BoundsAssumption
  <2>4. TypeOK'
    BY <1>0, <1>1, <2>1, <2>3 DEF TypeOK
  <2>5. WriterAt'
    BY <2>1 DEF WriterAt, LastCall
  <2>6. n = HeaderLen + Length(next) => Size(next) = Length(next)
    <3>1. n = HeaderLen + Size(next) /\ Size(next) \in Nat /\ Length(next) \in 0..(LenMod - 1)
      BY <1>1, <2>1, CallFacts, SizeFacts
    <3> QED
      BY <3>1, SizesAssumption DEF HeaderLen
  <2>7. WrittenTellsLength'
    <3>1. \A i \in 1..(next' - 1) : Size(i) = Length(i)
      BY <1>1, <2>1, <2>2, <2>6 DEF WrittenTellsLength
    <3> QED
      BY <1>0, <3>1, Rigid DEF WrittenTellsLength
  <2> QED
    BY <1>2, <2>4, <2>5, <2>7 DEF Core
<1>6. CASE WriterQuits
  <2>1. /\ calls = 0 /\ writer' = "done"
        /\ UNCHANGED <<next, calls, n, stream, errors, torn>>
    BY <1>6 DEF WriterQuits
  <2>2. TypeOK'
    BY <1>0, <1>1, <2>1 DEF TypeOK
  <2>3. WriterAt'
    BY <1>1, <2>1 DEF WriterAt, LastCall
  <2>4. WrittenTellsLength'
    BY <1>0, <1>1, <2>1, Rigid DEF WrittenTellsLength
  <2> QED
    BY <1>2, <2>2, <2>3, <2>4 DEF Core
<1> QED
  BY <1>3, <1>4, <1>5, <1>6 DEF Writer

\* The reader keeps the invariants of the two goroutines.
LEMMA ReaderCore ==
  ASSUME Core, Reader
  PROVE  Core'
<1>0. /\ msgs' = msgs /\ link' = link /\ conns' = conns /\ first' = first
      /\ next' = next /\ calls' = calls /\ n' = n /\ writer' = writer
  BY DEF Reader, writerVars, connVars
<1>1. TypeOK /\ WriterAt /\ ReaderAt /\ ConnLeft /\ WrittenTellsLength
  BY DEF Core
<1>2. WriterAt' /\ ConnLeft' /\ WrittenTellsLength'
  <2>1. WriterAt'
    BY <1>0, <1>1 DEF WriterAt, LastCall, CallEnd, Size
  <2>2. ConnLeft'
    BY <1>0, <1>1 DEF ConnLeft
  <2>3. WrittenTellsLength'
    BY <1>0, <1>1, Rigid DEF WrittenTellsLength
  <2> QED
    BY <2>1, <2>2, <2>3
<1>3. CASE ReadCell
  <2>1. /\ reader = "read" /\ reader' = "read" /\ Len(got) < need
        /\ UNCHANGED <<here, delivered, errors, torn>>
    BY <1>3 DEF ReadCell
  <2>2. /\ Len(got) \in Nat /\ Len(got') = Len(got) + 1
        /\ got' \in Seq(Cell) /\ stream' \in Seq(Cell) /\ stream[1] \in Cell
        /\ \A k \in 1..Len(got) : got'[k] = got[k]
        /\ got'[Len(got) + 1] = stream[1]
    BY <1>1, <1>3, ReadCellFacts
  <2>3. CASE Len(got') = HeaderLen
    <3>1. got'[HeaderLen] = stream[1]
      <4>1. Len(got) + 1 = HeaderLen
        BY <2>2, <2>3
      <4> QED
        BY <2>2, <4>1
    <3>2. PICK l \in DecodedLength(stream[1]) : need' = HeaderLen + l
      BY <1>1, <1>3, <2>3, ReadCellFacts DEF ReadCell
    <3>3. stream[1][1] \in 1..MaxMsgs
      BY <2>2 DEF Cell
    <3>4. /\ l \in 0..(LenMod - 1)
          /\ stream[1][2] = HeaderLen => l = Length(stream[1][1])
      BY <1>1, <3>2, <3>3, SizeFacts DEF DecodedLength
    <3>5. need' \in HeaderLen..(HeaderLen + LenMod - 1)
      BY <3>2, <3>4, SizesAssumption DEF HeaderLen
    <3>6. ReaderAt'
      <4>1. Len(got') <= need' /\ ~(Len(got') < HeaderLen)
        BY <2>3, <3>5, SizesAssumption DEF HeaderLen
      <4>2. got'[HeaderLen][2] = HeaderLen => need' = HeaderLen + Length(got'[HeaderLen][1])
        BY <3>1, <3>2, <3>4
      <4>3. Length(got'[HeaderLen][1]) = Length(got[HeaderLen][1])'
        BY <1>0 DEF Length, Size
      <4> QED
        BY <2>1, <4>1, <4>2, <4>3 DEF ReaderAt
    <3>7. TypeOK'
      BY <1>0, <1>1, <2>1, <2>2, <3>5 DEF TypeOK
    <3> QED
      BY <1>2, <3>6, <3>7 DEF Core
  <2>4. CASE Len(got') # HeaderLen
    <3>1. need' = need
      BY <1>3, <2>4 DEF ReadCell
    <3>2. TypeOK'
      BY <1>0, <1>1, <2>1, <2>2, <3>1 DEF TypeOK
    <3>3. need \in Nat
      BY <1>1, SizesAssumption DEF TypeOK, HeaderLen
    <3>4. ReaderAt'
      <4>1. Len(got') <= need'
        BY <2>1, <2>2, <3>1, <3>3
      <4>2. Len(got') < HeaderLen => need' = HeaderLen
        BY <1>1, <2>2, <3>1 DEF ReaderAt, HeaderLen
      <4>3. Len(got') >= HeaderLen => Len(got) >= HeaderLen /\ got'[HeaderLen] = got[HeaderLen]
        BY <2>2, <2>4 DEF HeaderLen
      <4>4. Len(got') >= HeaderLen /\ got'[HeaderLen][2] = HeaderLen
              => need' = HeaderLen + Length(got'[HeaderLen][1])
        BY <1>1, <3>1, <4>3 DEF ReaderAt
      <4>5. Length(got'[HeaderLen][1]) = Length(got[HeaderLen][1])'
        BY <1>0 DEF Length, Size
      <4> QED
        BY <2>1, <4>1, <4>2, <4>4, <4>5 DEF ReaderAt
    <3> QED
      BY <1>2, <3>2, <3>4 DEF Core
  <2> QED
    BY <2>3, <2>4
<1>4. ASSUME Restart
      PROVE  /\ got' = <<>> /\ got' \in Seq(Cell) /\ need' \in HeaderLen..(HeaderLen + LenMod - 1)
             /\ ReaderAt'
  <2>1. got' = <<>> /\ need' = HeaderLen
    BY <1>4 DEF Restart
  <2>2. need' \in HeaderLen..(HeaderLen + LenMod - 1)
    BY <2>1, SizesAssumption DEF HeaderLen
  <2>3. ReaderAt'
    BY <2>1 DEF ReaderAt, HeaderLen
  <2> QED
    BY <2>1, <2>2, <2>3
<1>5. CASE ConnReadReturns
  <2>1. /\ UNCHANGED <<stream, reader, errors, torn>> /\ Restart
        /\ reader = "read" /\ Len(got) = need /\ here' = Append(here, got)
        /\ \/ delivered' = delivered
           \/ delivered' = Append(delivered, got[1][1])
    BY <1>5 DEF ConnReadReturns
  <2>2. got[1][1] \in 1..MaxMsgs
    <3>1. got \in Seq(Cell) /\ 1 \in 1..Len(got)
      BY <1>1, <2>1, SizesAssumption DEF TypeOK, HeaderLen
    <3>2. got[1] \in Cell
      BY <3>1
    <3> QED
      BY <3>2 DEF Cell
  <2>3. here' \in Seq(Seq(Cell))
    BY <1>1, <2>1 DEF TypeOK
  <2>4. delivered' \in Seq(1..MaxMsgs)
    <3>1. delivered \in Seq(1..MaxMsgs)
      BY <1>1 DEF TypeOK
    <3>2. Append(delivered, got[1][1]) \in Seq(1..MaxMsgs)
      BY <2>2, <3>1, Appended, ZenonT(60)
    <3> QED
      BY <2>1, <3>1, <3>2, Zenon
  <2>5. TypeOK'
    BY <1>0, <1>1, <1>4, <2>1, <2>3, <2>4 DEF TypeOK
  <2> QED
    BY <1>2, <1>4, <2>1, <2>5 DEF Core
<1>6. CASE ReadFails
  <2>1. /\ UNCHANGED <<stream, reader, here, delivered>> /\ Restart
        /\ errors < MaxErrors /\ errors' = errors + 1 /\ torn' = (torn \/ got # <<>>)
    BY <1>6 DEF ReadFails
  <2>2. errors' \in 0..MaxErrors
    BY <1>1, <2>1, BoundsAssumption DEF TypeOK
  <2>3. torn' \in BOOLEAN
    <3>1. (torn \/ got # <<>>) \in BOOLEAN
      BY Zenon
    <3> QED
      BY <2>1, <3>1
  <2>4. TypeOK'
    BY <1>0, <1>1, <1>4, <2>1, <2>2, <2>3 DEF TypeOK
  <2> QED
    BY <1>2, <1>4, <2>1, <2>4 DEF Core
<1>7. CASE ReaderQuits
  <2>1. UNCHANGED <<stream, here, delivered, errors, torn>> /\ Restart /\ reader' = "done"
    BY <1>7 DEF ReaderQuits
  <2>2. TypeOK'
    BY <1>0, <1>1, <1>4, <2>1 DEF TypeOK
  <2> QED
    BY <1>2, <1>4, <2>1, <2>2 DEF Core
<1> QED
  BY <1>3, <1>5, <1>6, <1>7 DEF Reader

\* The invariants of the two goroutines hold after every step.
LEMMA CoreInductive ==
  ASSUME Core, [Next]_vars
  PROVE  Core'
<1>1. TypeOK /\ WriterAt /\ ReaderAt /\ ConnLeft /\ WrittenTellsLength
  BY DEF Core
<1>2. CASE Breaks
  <2>1. /\ conns < MaxConns /\ link' = "down"
        /\ UNCHANGED <<msgs, next, calls, n, writer, stream, got, need, reader, here,
                       delivered, conns, first, errors, torn>>
    BY <1>2 DEF Breaks, writerVars, readerVars, connVars
  <2>2. TypeOK'
    BY <1>1, <2>1 DEF TypeOK
  <2>3. WriterAt'
    BY <1>1, <2>1 DEF WriterAt, LastCall, CallEnd, Size
  <2>4. ReaderAt'
    BY <1>1, <2>1 DEF ReaderAt, Length, Size
  <2>5. ConnLeft'
    BY <2>1 DEF ConnLeft
  <2>6. WrittenTellsLength'
    BY <1>1, <2>1, Rigid DEF WrittenTellsLength
  <2> QED
    BY <2>2, <2>3, <2>4, <2>5, <2>6 DEF Core
<1>3. CASE Reconnects
  <2>1. /\ link = "down" /\ link' = "up" /\ stream' = <<>> /\ writer = "done"
        /\ writer' = "write" /\ reader' = "read" /\ reader = "done" /\ conns' = conns + 1
        /\ first' = next /\ here' = <<>> /\ torn' = FALSE
        /\ UNCHANGED <<msgs, next, calls, n, got, need, delivered, errors>>
    BY <1>3 DEF Reconnects
  <2>2. TypeOK'
    <3>1. torn' \in BOOLEAN
      BY <2>1, Zenon
    <3>2. conns' \in 1..MaxConns
      BY <1>1, <2>1, BoundsAssumption DEF TypeOK, ConnLeft
    <3>3. first' \in 1..next'
      BY <1>1, <2>1 DEF TypeOK
    <3> QED
      BY <1>1, <2>1, <3>1, <3>2, <3>3 DEF TypeOK
  <2>3. WriterAt'
    BY <1>1, <2>1 DEF WriterAt, LastCall
  <2>4. ReaderAt'
    BY <1>1, <2>1 DEF ReaderAt, HeaderLen
  <2>5. ConnLeft'
    BY <2>1 DEF ConnLeft
  <2>6. WrittenTellsLength'
    BY <1>1, <2>1, Rigid DEF WrittenTellsLength
  <2> QED
    BY <2>2, <2>3, <2>4, <2>5, <2>6 DEF Core
<1>4. CASE UNCHANGED vars
  <2>1. UNCHANGED <<msgs, next, calls, n, writer, link, stream, got, need, reader, here,
                    delivered, conns, first, errors, torn>>
    BY <1>4 DEF vars, writerVars, readerVars, connVars
  <2>2. TypeOK'
    BY <1>1, <2>1 DEF TypeOK
  <2>3. WriterAt'
    BY <1>1, <2>1, ZenonT(60) DEF WriterAt, LastCall, CallEnd, Size
  <2>4. ReaderAt'
    BY <1>1, <2>1 DEF ReaderAt, Length, Size
  <2>5. ConnLeft' /\ WrittenTellsLength'
    BY <1>1, <2>1, Rigid DEF ConnLeft, WrittenTellsLength
  <2> QED
    BY <2>2, <2>3, <2>4, <2>5 DEF Core
<1> QED
  BY <1>2, <1>3, <1>4, WriterCore, ReaderCore DEF Next

-----------------------------------------------------------------------------
(* The order of the messages, torn or not *)

\* The place in its message of the cell at place j of a stream of l cells to
\* which cells a + 1 to k were added; the message has h cells.
LEMMA CellPlace ==
  ASSUME NEW l \in Nat, NEW a \in Nat, NEW h \in Nat, NEW k \in a..h, NEW j \in (l + 1)..(l + (k - a))
  PROVE  /\ a < k /\ a + (j - l) \in (a + 1)..k
         /\ a + (j - l) = h => k = h /\ j = l + (k - a)
  BY SMTT(30)

\* What a step of the writer adds to the stream are cells of the message in
\* hand, and its final cell only with the last Write call.
LEMMA Sent ==
  ASSUME Core, Writer
  PROVE  /\ Len(stream) \in Nat /\ Len(stream') \in Nat /\ Len(stream) <= Len(stream')
         /\ \A j \in 1..Len(stream) : stream'[j] = stream[j]
         /\ \A j \in (Len(stream) + 1)..Len(stream') : stream'[j] = <<next, n + (j - Len(stream))>>
         /\ next <= next'
         /\ stream' # stream => next \in 1..MaxMsgs /\ next' = next /\ calls < LastCall(next)
         /\ \A j \in (Len(stream) + 1)..Len(stream') :
              msgs[next] # 0 /\ n + (j - Len(stream)) = HeaderLen + Size(next)
                => j = Len(stream') /\ calls' = LastCall(next)
<1>1. TypeOK /\ WriterAt
  BY DEF Core
<1>2. stream \in Seq(Cell) /\ Len(stream) \in Nat /\ next \in Nat /\ n \in Nat
  BY <1>1, BoundsAssumption, SMTT(30) DEF TypeOK
<1>3. CASE WriteCall
  <2>1. next \in 1..MaxMsgs /\ calls < LastCall(next) /\ calls' = calls + 1 /\ next' = next
    BY <1>1, <1>3 DEF WriteCall, InWriteTo, TypeOK
  <2>2. n' = CallEnd(next, calls + 1) /\ Transmit(n')
    BY <1>3 DEF WriteCall
  <2>3. /\ n' \in n..(HeaderLen + Size(next)) /\ Size(next) \in Nat
        /\ msgs[next] # 0 /\ n' = HeaderLen + Size(next) => calls + 1 = LastCall(next)
    BY <1>1, <2>1, <2>2, CallFacts, SizeFacts
  <2>4. /\ link # "up" => stream' = stream
        /\ link = "up" => Len(stream') = Len(stream) + (n' - n)
        /\ Len(stream') \in Nat /\ Len(stream) \in 0..Len(stream')
        /\ \A j \in 1..Len(stream) : stream'[j] = stream[j]
        /\ \A j \in (Len(stream) + 1)..Len(stream') : stream'[j] = <<next, n + (j - Len(stream))>>
    BY <1>1, <2>1, <2>2, <2>3, TransmitFacts, Zenon
  <2>5. ASSUME NEW j \in (Len(stream) + 1)..Len(stream'), msgs[next] # 0,
               n + (j - Len(stream)) = HeaderLen + Size(next)
        PROVE  j = Len(stream') /\ calls' = LastCall(next)
    <3>1. Len(stream') = Len(stream) + (n' - n)
      BY <1>2, <2>4, <2>5
    <3>2. HeaderLen + Size(next) \in Nat /\ j \in (Len(stream) + 1)..(Len(stream) + (n' - n))
      BY <2>3, <2>5, <3>1 DEF HeaderLen
    <3>3. n' = HeaderLen + Size(next) /\ j = Len(stream) + (n' - n)
      <4>1. /\ Len(stream) \in Nat /\ n \in Nat /\ n' \in n..(HeaderLen + Size(next))
            /\ n + (j - Len(stream)) = HeaderLen + Size(next)
        BY <1>2, <2>3, <2>5, Zenon
      <4> QED
        BY <3>2, <4>1, CellPlace
    <3> QED
      BY <2>1, <2>3, <2>5, <3>1, <3>3
  <2>6. Len(stream) <= Len(stream') /\ next <= next'
    BY <1>2, <2>1, <2>4
  <2> QED
    BY <1>2, <2>1, <2>4, <2>5, <2>6, Zenon
<1>4. CASE WriteCallFails
  <2>1. next \in 1..MaxMsgs /\ calls < LastCall(next) /\ next' = next
    BY <1>1, <1>4 DEF WriteCallFails, InWriteTo, TypeOK
  <2>2. PICK k \in CutAt(next) : Transmit(k)
    BY <1>4 DEF WriteCallFails
  <2>3. CallEnd(next, calls + 1) \in n..(HeaderLen + Size(next)) /\ Size(next) \in Nat
    BY <1>1, <2>1, CallFacts, SizeFacts
  <2>4. /\ k \in n..CallEnd(next, calls + 1)
        /\ k < CallEnd(next, calls + 1) \/ k = n
    BY <2>2 DEF CutAt
  <2>5. k \in n..(HeaderLen + Size(next))
    BY <1>2, <2>3, <2>4 DEF HeaderLen
  <2>6. /\ link # "up" => stream' = stream
        /\ link = "up" => Len(stream') = Len(stream) + (k - n)
        /\ Len(stream') \in Nat /\ Len(stream) \in 0..Len(stream')
        /\ \A j \in 1..Len(stream) : stream'[j] = stream[j]
        /\ \A j \in (Len(stream) + 1)..Len(stream') : stream'[j] = <<next, n + (j - Len(stream))>>
    BY <1>1, <2>1, <2>2, <2>5, TransmitFacts
  <2>7. ASSUME NEW j \in (Len(stream) + 1)..Len(stream')
        PROVE  n + (j - Len(stream)) # HeaderLen + Size(next)
    <3>1. Len(stream') = Len(stream) + (k - n)
      BY <1>2, <2>6, <2>7
    <3>2. HeaderLen + Size(next) \in Nat /\ j \in (Len(stream) + 1)..(Len(stream) + (k - n))
      BY <2>3, <2>7, <3>1 DEF HeaderLen
    <3>3. n < k /\ (n + (j - Len(stream)) = HeaderLen + Size(next) => k = HeaderLen + Size(next))
      BY <1>2, <2>5, <3>2, CellPlace
    <3>4. k < HeaderLen + Size(next)
      BY <1>2, <2>3, <2>4, <3>3 DEF HeaderLen
    <3> QED
      BY <1>2, <2>5, <3>2, <3>3, <3>4
  <2>8. Len(stream) <= Len(stream') /\ next <= next'
    BY <1>2, <2>1, <2>6
  <2> QED
    BY <1>2, <2>1, <2>6, <2>7, <2>8, Zenon
<1>5. CASE ConnWriteReturns
  <2>1. stream' = stream /\ next <= next'
    BY <1>2, <1>5 DEF ConnWriteReturns
  <2>2. \A j : j \notin (Len(stream) + 1)..Len(stream)
    BY <1>2
  <2> QED
    BY <1>2, <2>1, <2>2
<1>6. CASE WriterQuits
  <2>1. stream' = stream /\ next <= next'
    BY <1>2, <1>6 DEF WriterQuits
  <2>2. \A j : j \notin (Len(stream) + 1)..Len(stream)
    BY <1>2
  <2> QED
    BY <1>2, <2>1, <2>2
<1> QED
  BY <1>3, <1>4, <1>5, <1>6 DEF Writer

\* What connRead delivers is a message whose header tells its length, with its
\* final cell read.
LEMMA Returned ==
  ASSUME Core, ConnReadReturns, delivered' # delivered
  PROVE  /\ LastDelivered' = got[1][1] /\ Len(delivered') = Len(delivered) + 1
         /\ \A j \in 1..Len(delivered) : delivered'[j] = delivered[j]
         /\ delivered'[Len(delivered) + 1] = got[1][1]
         /\ got[1][1] \in 1..MaxMsgs /\ 1 \in 1..Len(got)
         /\ Size(got[1][1]) = Length(got[1][1]) /\ FinalRead(got[1][1])
<1> DEFINE i == got[1][1]
<1>1. TypeOK /\ ReaderAt
  BY DEF Core
<1>2. Len(got) = need /\ got = Frame(i) /\ delivered' = Append(delivered, i)
  BY DEF ConnReadReturns
<1>3. got \in Seq(Cell) /\ 1 \in 1..Len(got) /\ Len(got) >= HeaderLen /\ Len(got) \in Nat
  BY <1>1, <1>2, SizesAssumption DEF TypeOK, HeaderLen
<1>4. i \in 1..MaxMsgs
  <2>1. got[1] \in Cell
    BY <1>3
  <2> QED
    BY <2>1 DEF Cell
<1> HIDE DEF i
<1>5. delivered \in Seq(1..MaxMsgs) /\ Len(delivered) \in Nat
  BY <1>1 DEF TypeOK
<1>6. /\ delivered' # <<>> /\ Len(delivered') = Len(delivered) + 1
      /\ \A j \in 1..Len(delivered) : delivered'[j] = delivered[j]
      /\ delivered'[Len(delivered) + 1] = i
  BY <1>2, <1>4, <1>5
<1>7. LastDelivered' = i
  BY <1>6 DEF LastDelivered
<1>8. Size(i) \in Nat /\ Length(i) \in 0..(LenMod - 1)
  BY <1>1, <1>4, SizeFacts
<1>9. Len(got) = HeaderLen + Size(i) /\ \A k \in 1..(HeaderLen + Size(i)) : got[k] = <<i, k>>
  <2>1. Len(Frame(i)) = HeaderLen + Size(i)
    BY <1>8 DEF Frame, HeaderLen
  <2>2. \A k \in 1..(HeaderLen + Size(i)) : Frame(i)[k] = <<i, k>>
    BY DEF Frame
  <2> QED
    BY <1>2, <2>1, <2>2
<1>10. got[HeaderLen] = <<i, HeaderLen>>
  BY <1>8, <1>9 DEF HeaderLen
<1>11. need = HeaderLen + Length(i)
  BY <1>1, <1>3, <1>10 DEF ReaderAt
<1>12. Size(i) = Length(i)
  BY <1>2, <1>8, <1>9, <1>11, SizesAssumption DEF HeaderLen
<1>13. FinalRead(i)
  <2>1. HeaderLen + Size(i) \in 1..Len(got)
    BY <1>8, <1>9 DEF HeaderLen
  <2> QED
    BY <1>9, <2>1 DEF FinalRead, FinalCell
<1> QED
  BY <1>3, <1>4, <1>6, <1>7, <1>12, <1>13 DEF i

\* The messages of the cells, and the last one delivered, are numbers.
LEMMA CellTypes ==
  ASSUME TypeOK
  PROVE  /\ Len(stream) \in Nat /\ Len(got) \in Nat /\ next \in Nat /\ LastDelivered \in 0..MaxMsgs
         /\ \A j \in 1..Len(stream) : stream[j][1] \in 1..MaxMsgs
         /\ \A k \in 1..Len(got) : got[k][1] \in 1..MaxMsgs
<1>1. stream \in Seq(Cell) /\ got \in Seq(Cell) /\ delivered \in Seq(1..MaxMsgs) /\ next \in Nat
  BY BoundsAssumption DEF TypeOK
<1>2. \A j \in 1..Len(stream) : stream[j] \in Cell
  BY <1>1
<1>3. \A k \in 1..Len(got) : got[k] \in Cell
  BY <1>1
<1>4. LastDelivered \in 0..MaxMsgs
  <2>1. CASE delivered = <<>>
    BY <2>1, BoundsAssumption DEF LastDelivered
  <2>2. CASE delivered # <<>>
    <3>1. Len(delivered) \in 1..Len(delivered)
      BY <1>1, <2>2
    <3>2. delivered[Len(delivered)] \in 1..MaxMsgs
      BY <1>1, <3>1, Member, ZenonT(60)
    <3> QED
      BY <2>2, <3>2 DEF LastDelivered
  <2> QED
    BY <2>1, <2>2
<1>5. \A c \in Cell : c[1] \in 1..MaxMsgs
  BY DEF Cell
<1>6. Len(stream) \in Nat /\ Len(got) \in Nat
  BY <1>1
<1> QED
  BY <1>1, <1>2, <1>3, <1>4, <1>5, <1>6, Zenon

\* Every step keeps the order of the messages.
LEMMA OrderedInductive ==
  ASSUME Core, Ordered, [Next]_vars
  PROVE  Ordered'
<1>0. TypeOK /\ TypeOK'
  BY CoreInductive DEF Core
<1>1. /\ Len(stream) \in Nat /\ Len(got) \in Nat /\ next \in Nat /\ LastDelivered \in 0..MaxMsgs
      /\ \A j \in 1..Len(stream) : stream[j][1] \in 1..MaxMsgs
      /\ \A k \in 1..Len(got) : got[k][1] \in 1..MaxMsgs
  BY <1>0, CellTypes
<1>2. CASE Writer
  <2>1. got' = got /\ LastDelivered' = LastDelivered
    BY <1>2 DEF Writer, readerVars, LastDelivered
  <2>2. /\ Len(stream') \in Nat /\ Len(stream) <= Len(stream')
        /\ \A j \in 1..Len(stream) : stream'[j] = stream[j]
        /\ \A j \in (Len(stream) + 1)..Len(stream') : stream'[j] = <<next, n + (j - Len(stream))>>
        /\ next <= next' /\ next' \in Nat
    <3>1. next' \in Nat
      BY <1>0, BoundsAssumption DEF TypeOK
    <3> QED
      BY <1>2, <3>1, Sent
  <2>3. \A j \in 1..Len(stream') :
          \/ j \in 1..Len(stream) /\ stream'[j][1] = stream[j][1]
          \/ j > Len(stream) /\ stream'[j][1] = next
    <3>1. \A j \in 1..Len(stream') : j \in 1..Len(stream) \/ (j \in (Len(stream) + 1)..Len(stream') /\ j > Len(stream))
      BY <1>1, <2>2, PlacesGrow, Zenon
    <3>2. \A j \in (Len(stream) + 1)..Len(stream') : stream'[j][1] = next
      BY <2>2
    <3> QED
      BY <2>2, <3>1, <3>2, Zenon
  <2>4. LastDelivered' <= next'
    BY <1>1, <2>1, <2>2, BoundsAssumption DEF Ordered
  <2>5. ASSUME NEW j \in 1..Len(stream')
        PROVE  LastDelivered <= stream'[j][1] /\ stream'[j][1] <= next'
    <3>1. CASE j \in 1..Len(stream) /\ stream'[j][1] = stream[j][1]
      BY <1>1, <2>2, <3>1, BoundsAssumption, SMTT(30) DEF Ordered
    <3>2. CASE stream'[j][1] = next
      BY <1>1, <2>2, <3>2, Zenon DEF Ordered
    <3> QED
      BY <2>3, <3>1, <3>2
  <2>6. \A k \in 1..Len(got) : LastDelivered <= got[k][1] /\ got[k][1] <= next'
    BY <1>1, <2>2, BoundsAssumption DEF Ordered
  <2>7. ASSUME NEW j \in 1..Len(stream'), NEW l \in 1..Len(stream'), j <= l
        PROVE  stream'[j][1] <= stream'[l][1]
    <3>1. CASE l \in 1..Len(stream)
      <4>1. j \in 1..Len(stream) /\ stream'[j][1] = stream[j][1] /\ stream'[l][1] = stream[l][1]
        BY <1>1, <2>2, <2>7, <3>1, SMTT(30)
      <4> QED
        BY <2>7, <3>1, <4>1, Zenon DEF Ordered
    <3>2. CASE stream'[l][1] = next
      BY <1>1, <2>3, <3>2, BoundsAssumption, SMTT(30) DEF Ordered
    <3> QED
      BY <2>3, <3>1, <3>2, Zenon
  <2>8. ASSUME NEW k \in 1..Len(got), NEW j \in 1..Len(stream')
        PROVE  got[k][1] <= stream'[j][1]
    BY <2>3, Zenon DEF Ordered
  <2> QED
    BY <2>1, <2>4, <2>5, <2>6, <2>7, <2>8 DEF Ordered
<1>3. CASE Reader /\ ReadCell
  <2>1. LastDelivered' = LastDelivered /\ next' = next
    BY <1>3 DEF Reader, ReadCell, LastDelivered, writerVars
  <2>2. /\ Len(stream) # 0 /\ Len(got') = Len(got) + 1
        /\ \A k \in 1..Len(got) : got'[k] = got[k]
        /\ got'[Len(got) + 1] = stream[1]
        /\ Len(stream') = Len(stream) - 1
        /\ \A j \in 1..(Len(stream) - 1) : stream'[j] = stream[j + 1]
    BY <1>0, <1>3, ReadCellFacts
  <2>3. \A k \in 1..Len(got') :
          \/ k \in 1..Len(got) /\ got'[k][1] = got[k][1]
          \/ got'[k][1] = stream[1][1]
    BY <1>1, <2>2, PlacesAfterAppend, Zenon
  <2>4. \A j \in 1..Len(stream') : j + 1 \in 1..Len(stream) /\ stream'[j][1] = stream[j + 1][1]
    BY <1>1, <2>2, PlacesAfterTail, Zenon
  <2>5. 1 \in 1..Len(stream)
    BY <1>1, <2>2, PlacesAfterTail, Zenon
  <2>6. \A j \in 1..Len(stream') : LastDelivered <= stream'[j][1] /\ stream'[j][1] <= next
    BY <2>4 DEF Ordered
  <2>7. \A k \in 1..Len(got') : LastDelivered <= got'[k][1] /\ got'[k][1] <= next
    BY <2>3, <2>5 DEF Ordered
  <2>8. ASSUME NEW j \in 1..Len(stream'), NEW l \in 1..Len(stream'), j <= l
        PROVE  stream'[j][1] <= stream'[l][1]
    <3>1. j + 1 <= l + 1
      BY <1>1, <2>2, <2>8
    <3> QED
      BY <2>4, <3>1 DEF Ordered
  <2>9. ASSUME NEW k \in 1..Len(got'), NEW j \in 1..Len(stream')
        PROVE  got'[k][1] <= stream'[j][1]
    <3>1. CASE k \in 1..Len(got) /\ got'[k][1] = got[k][1]
      BY <2>4, <3>1 DEF Ordered
    <3>2. CASE got'[k][1] = stream[1][1]
      <4>1. 1 <= j + 1
        BY <1>1, <2>2, PlacesAfterTail, Zenon
      <4> QED
        BY <2>4, <2>5, <3>2, <4>1 DEF Ordered
    <3> QED
      BY <2>3, <3>1, <3>2
  <2> QED
    BY <2>1, <2>6, <2>7, <2>8, <2>9 DEF Ordered
<1>4. CASE Reader /\ ~ReadCell
  <2>1. got' = <<>> /\ stream' = stream /\ next' = next
    BY <1>4 DEF Reader, ConnReadReturns, ReadFails, ReaderQuits, Restart, writerVars
  <2>2. \/ LastDelivered' = LastDelivered
        \/ /\ 1 \in 1..Len(got) /\ LastDelivered' = got[1][1]
    <3>1. CASE delivered' = delivered
      BY <3>1, ZenonT(60) DEF LastDelivered
    <3>2. CASE delivered' # delivered
      <4>1. ConnReadReturns
        BY <1>4, <3>2 DEF Reader, ReadFails, ReaderQuits
      <4> QED
        BY <3>2, <4>1, Returned
    <3> QED
      BY <3>1, <3>2
  <2>3. LastDelivered' <= next /\ \A j \in 1..Len(stream) : LastDelivered' <= stream[j][1]
    BY <2>2 DEF Ordered
  <2>4. \A k : k \notin 1..Len(got')
    BY <2>1, SMTT(30)
  <2> QED
    BY <2>1, <2>3, <2>4, ZenonT(60) DEF Ordered
<1>5. CASE Breaks \/ UNCHANGED vars
  <2>1. UNCHANGED <<next, stream, got, delivered>>
    BY <1>5, Zenon DEF Breaks, vars, writerVars, readerVars
  <2> QED
    BY <2>1 DEF Ordered, LastDelivered
<1>6. CASE Reconnects
  <2>1. /\ stream' = <<>> /\ got' = got /\ next' = next /\ LastDelivered' = LastDelivered
        /\ got = <<>>
    BY <1>6 DEF Reconnects, LastDelivered, Core, ReaderAt
  <2>2. \A j : j \notin 1..Len(stream') /\ j \notin 1..Len(got')
    BY <2>1
  <2> QED
    BY <2>1, <2>2, ZenonT(60) DEF Ordered
<1> QED
  BY <1>2, <1>3, <1>4, <1>5, <1>6 DEF Next

-----------------------------------------------------------------------------
(* At most once *)

\* A step of the writer after the last Write call counts the message as
\* written, if its header tells its length.
LEMMA CountsAsWritten ==
  ASSUME Core, Writer, next \in 1..MaxMsgs, calls = LastCall(next), Size(next) = Length(next)
  PROVE  next' = next + 1
<1>1. LastCall(next) \in 3..4 /\ n = HeaderLen + Size(next)
  BY SizeFacts, CallFacts DEF Core
<1>2. ~(calls < LastCall(next)) /\ calls # 0
  BY <1>1
<1>3. ConnWriteReturns
  BY <1>2, ZenonT(60) DEF Writer, WriteCall, WriteCallFails, InWriteTo, WriterQuits
<1> QED
  BY <1>1, <1>3 DEF ConnWriteReturns

\* Every step keeps the final cell of a message unique.
LEMMA OnceInductive ==
  ASSUME Core, FinalOnce, [Next]_vars
  PROVE  FinalOnce'
<1>0. TypeOK /\ TypeOK' /\ msgs' = msgs
  BY CoreInductive, Zenon DEF Core, Next, Writer, Reader, Breaks, Reconnects, vars
<1> SUFFICES ASSUME NEW i \in 1..MaxMsgs, Sound(i)'
             PROVE  Once(i)'
  BY DEF FinalOnce
<1> DEFINE f == FinalCell(i)
<1>1. FinalCell(i)' = f /\ LastCall(i)' = LastCall(i) /\ msgs[i] # 0 /\ Size(i) = Length(i)
  BY <1>0, Rigid DEF Sound
<1>2. Once(i)
  BY <1>1 DEF FinalOnce, Sound
<1>3. f = <<i, HeaderLen + Size(i)>> /\ LastCall(i) \in 3..4
  BY <1>0, SizeFacts DEF FinalCell
<1>4. Len(stream) \in Nat /\ Len(got) \in Nat /\ next \in Nat /\ next' \in Nat /\ calls \in Nat
  <2>1. Len(stream) \in Nat /\ Len(got) \in Nat /\ next \in Nat
    BY <1>0, CellTypes
  <2>2. next' \in Nat
    BY <1>0, BoundsAssumption DEF TypeOK
  <2>3. calls \in Nat
    BY <1>0 DEF TypeOK
  <2> QED
    BY <2>1, <2>2, <2>3
<1>5. /\ FinalOnWay(i) <=> \E j \in 1..Len(stream) : stream[j] = f
      /\ FinalRead(i) <=> \E k \in 1..Len(got) : got[k] = f
  BY DEF FinalOnWay, FinalRead
<1>6. /\ FinalOnWay(i)' <=> \E j \in 1..Len(stream') : stream'[j] = f
      /\ FinalRead(i)' <=> \E k \in 1..Len(got') : got'[k] = f
  BY <1>1 DEF FinalOnWay, FinalRead
<1>7. /\ FinalOnWay(i) \/ FinalRead(i) \/ LastDelivered = i
           => i < next \/ (i = next /\ calls = LastCall(i))
      /\ FinalRead(i) => ~FinalOnWay(i)
      /\ LastDelivered = i => ~FinalRead(i) /\ ~FinalOnWay(i)
      /\ \A j, l \in 1..Len(stream) : stream[j] = f /\ stream[l] = f => j = l
  BY <1>2 DEF Once
<1>8. SUFFICES
        /\ FinalOnWay(i)' \/ FinalRead(i)' \/ LastDelivered' = i
             => i < next' \/ (i = next' /\ calls' = LastCall(i))
        /\ FinalRead(i)' => ~FinalOnWay(i)'
        /\ LastDelivered' = i => ~FinalRead(i)' /\ ~FinalOnWay(i)'
        /\ \A j, l \in 1..Len(stream') : stream'[j] = f /\ stream'[l] = f => j = l
  BY <1>1 DEF Once
<1> HIDE DEF f
<1>9. CASE Writer
  <2>1. LastDelivered' = LastDelivered /\ got' = got
    BY <1>9 DEF Writer, readerVars, LastDelivered
  <2>2. /\ Len(stream') \in Nat /\ Len(stream) <= Len(stream')
        /\ \A j \in 1..Len(stream) : stream'[j] = stream[j]
        /\ \A j \in (Len(stream) + 1)..Len(stream') : stream'[j] = <<next, n + (j - Len(stream))>>
        /\ next <= next'
        /\ stream' # stream => next \in 1..MaxMsgs /\ next' = next /\ calls < LastCall(next)
        /\ \A j \in (Len(stream) + 1)..Len(stream') :
             msgs[next] # 0 /\ n + (j - Len(stream)) = HeaderLen + Size(next)
               => j = Len(stream') /\ calls' = LastCall(next)
    BY <1>9, Sent
  <2>3. FinalRead(i)' <=> FinalRead(i)
    BY <1>5, <1>6, <2>1
  <2>4. ASSUME NEW j \in 1..Len(stream'), j \notin 1..Len(stream), stream'[j] = f
        PROVE  j = Len(stream') /\ i = next /\ next' = next /\ calls < LastCall(i) /\ calls' = LastCall(i)
    <3>1. j \in (Len(stream) + 1)..Len(stream') /\ Len(stream') # Len(stream)
      BY <1>4, <2>2, <2>4
    <3>2. <<next, n + (j - Len(stream))>> = <<i, HeaderLen + Size(i)>>
      BY <1>3, <2>2, <2>4, <3>1
    <3>3. i = next /\ n + (j - Len(stream)) = HeaderLen + Size(i)
      BY <3>2, ZenonT(60)
    <3> QED
      BY <1>1, <2>2, <3>1, <3>3
  <2>5. FinalOnWay(i)' => \/ FinalOnWay(i)
                          \/ i = next /\ next' = next /\ calls < LastCall(i) /\ calls' = LastCall(i)
    BY <1>5, <1>6, <2>2, <2>4
  <2>6. i = next /\ calls = LastCall(i) => next' = next + 1
    BY <1>1, <1>9, CountsAsWritten
  <2>7. ~(calls < LastCall(i) /\ i = next /\ (i < next \/ calls = LastCall(i)))
    BY <1>3, <1>4
  <2>8. FinalOnWay(i)' \/ FinalRead(i)' \/ LastDelivered' = i
          => i < next' \/ (i = next' /\ calls' = LastCall(i))
    <3>1. i < next \/ (i = next /\ calls = LastCall(i)) => i < next'
      BY <1>4, <2>2, <2>6
    <3> QED
      BY <1>7, <2>1, <2>3, <2>5, <3>1, ZenonT(60)
  <2>9. FinalRead(i)' => ~FinalOnWay(i)'
    BY <1>7, <2>3, <2>5, <2>7, ZenonT(60)
  <2>10. LastDelivered' = i => ~FinalRead(i)' /\ ~FinalOnWay(i)'
    BY <1>7, <2>1, <2>3, <2>5, <2>7
  <2>11. ASSUME NEW j \in 1..Len(stream'), NEW l \in 1..Len(stream'), stream'[j] = f, stream'[l] = f
         PROVE  j = l
    <3>1. CASE j \in 1..Len(stream) /\ l \in 1..Len(stream)
      BY <1>7, <2>2, <2>11, <3>1
    <3>2. CASE j \notin 1..Len(stream) /\ l \notin 1..Len(stream)
      BY <2>4, <2>11, <3>2
    <3>3. ASSUME FinalOnWay(i), i = next, calls < LastCall(i)
          PROVE  FALSE
      BY <1>7, <2>7, <3>3, Zenon
    <3>4. CASE j \in 1..Len(stream) /\ l \notin 1..Len(stream)
      BY <1>5, <2>2, <2>4, <2>11, <3>3, <3>4, Zenon
    <3>5. CASE j \notin 1..Len(stream) /\ l \in 1..Len(stream)
      BY <1>5, <2>2, <2>4, <2>11, <3>3, <3>5, ZenonT(60)
    <3> QED
      BY <3>1, <3>2, <3>4, <3>5, ZenonT(60)
  <2> QED
    BY <2>8, <2>9, <2>10, <2>11
<1>10. CASE Reader /\ ReadCell
  <2>1. LastDelivered' = LastDelivered /\ next' = next /\ calls' = calls
    BY <1>10, Zenon DEF Reader, ReadCell, LastDelivered, writerVars
  <2>2. /\ Len(stream) # 0 /\ Len(got') = Len(got) + 1
        /\ \A k \in 1..Len(got) : got'[k] = got[k]
        /\ got'[Len(got) + 1] = stream[1]
        /\ Len(stream') = Len(stream) - 1
        /\ \A j \in 1..(Len(stream) - 1) : stream'[j] = stream[j + 1]
    BY <1>0, <1>10, ReadCellFacts, Zenon
  <2>3. FinalRead(i)' => FinalRead(i) \/ stream[1] = f
    <3>1. \A k \in 1..Len(got') : k \in 1..Len(got) \/ k = Len(got) + 1
      BY <1>4, <2>2, PlacesAfterAppend, Zenon
    <3> QED
      BY <1>5, <1>6, <2>2, <3>1, ZenonT(60)
  <2>4. \A j \in 1..Len(stream') :
          /\ stream'[j] = stream[j + 1] /\ j + 1 \in 1..Len(stream) /\ j + 1 # 1
    BY <1>4, <2>2, PlacesAfterTail, Zenon
  <2>5. 1 \in 1..Len(stream)
    BY <1>4, <2>2, PlacesAfterTail, Zenon
  <2>6. FinalOnWay(i)' => FinalOnWay(i)
    BY <1>5, <1>6, <2>4, Zenon
  <2>7. stream[1] = f => FinalOnWay(i)
    BY <1>5, <2>5, Zenon
  <2>8. stream[1] = f => ~FinalOnWay(i)'
    BY <1>6, <1>7, <2>4, <2>5
  <2>9. \A j, l \in 1..Len(stream') : stream'[j] = f /\ stream'[l] = f => j = l
    <3>1. ASSUME NEW j \in 1..Len(stream'), NEW l \in 1..Len(stream'), stream'[j] = f, stream'[l] = f
          PROVE  j = l
      <4>1. j + 1 = l + 1
        BY <1>7, <2>4, <3>1, Zenon
      <4> QED
        BY <1>4, <2>2, <4>1
    <3> QED
      BY <3>1
  <2> QED
    BY <1>7, <2>1, <2>3, <2>6, <2>7, <2>8, <2>9, Zenon
<1>11. CASE Reader /\ ~ReadCell
  <2>1. got' = <<>> /\ stream' = stream /\ next' = next /\ calls' = calls
    BY <1>11 DEF Reader, ConnReadReturns, ReadFails, ReaderQuits, Restart, writerVars
  <2>2. ~FinalRead(i)' /\ (FinalOnWay(i)' <=> FinalOnWay(i))
    BY <1>5, <1>6, <2>1
  <2>3. LastDelivered' = i => LastDelivered = i \/ FinalRead(i)
    <3>1. CASE delivered' = delivered
      BY <3>1 DEF LastDelivered
    <3>2. CASE delivered' # delivered
      <4>1. ConnReadReturns
        BY <1>11, <3>2, Zenon DEF Reader, ReadFails, ReaderQuits
      <4> QED
        BY <3>2, <4>1, Returned
    <3> QED
      BY <3>1, <3>2
  <2> QED
    BY <1>7, <2>1, <2>2, <2>3, Zenon
<1>12. CASE Breaks \/ UNCHANGED vars
  <2>1. UNCHANGED <<next, calls, stream, got>> /\ LastDelivered' = LastDelivered
    BY <1>12 DEF Breaks, vars, writerVars, readerVars, LastDelivered
  <2> QED
    BY <1>5, <1>6, <1>7, <2>1, ZenonT(60)
<1>13. CASE Reconnects
  <2>1. /\ stream' = <<>> /\ got' = got /\ next' = next /\ calls' = calls
        /\ LastDelivered' = LastDelivered /\ got = <<>>
    BY <1>13 DEF Reconnects, LastDelivered, Core, ReaderAt
  <2>2. \A j : j \notin 1..Len(stream') /\ j \notin 1..Len(got')
    BY <2>1
  <2> QED
    BY <1>6, <1>7, <2>1, <2>2, Zenon
<1> QED
  BY <1>9, <1>10, <1>11, <1>12, <1>13 DEF Next

\* What is delivered comes after what was delivered before it.
LEMMA DeliveredInductive ==
  ASSUME Core, Ordered, FinalOnce, AtMostOnceInOrder, [Next]_vars
  PROVE  AtMostOnceInOrder'
<1>0. TypeOK /\ msgs' = msgs
  BY DEF Core, Next, Writer, Reader, Breaks, Reconnects, vars
<1>1. CASE delivered' = delivered
  BY <1>0, <1>1 DEF AtMostOnceInOrder
<1>2. CASE delivered' # delivered
  <2> DEFINE i == got[1][1]
  <2>1. ConnReadReturns
    BY <1>2, Zenon DEF Next, Writer, Reader, Breaks, Reconnects, ReadCell, ReadFails, ReaderQuits, vars, readerVars
  <2>2. /\ Len(delivered') = Len(delivered) + 1
        /\ \A j \in 1..Len(delivered) : delivered'[j] = delivered[j]
        /\ delivered'[Len(delivered) + 1] = i
        /\ i \in 1..MaxMsgs /\ 1 \in 1..Len(got)
        /\ Size(i) = Length(i) /\ FinalRead(i)
    BY <1>2, <2>1, Returned, ZenonT(60)
  <2>3. LastDelivered <= i
    BY <2>2 DEF Ordered
  <2> HIDE DEF i
  <2>4. LastDelivered = i => msgs[i] = 0
    BY <2>2, ZenonT(60) DEF FinalOnce, Sound, Once
  <2>5. Len(delivered) \in Nat /\ LastDelivered \in 0..MaxMsgs
    BY <1>0, CellTypes DEF TypeOK
  <2>6. Len(delivered) # 0 => LastDelivered = delivered[Len(delivered)]
    BY <1>0 DEF LastDelivered, TypeOK
  <2>7. ASSUME NEW j \in 1..(Len(delivered') - 1)
        PROVE  \/ delivered'[j] < delivered'[j + 1]
               \/ delivered'[j] = delivered'[j + 1] /\ msgs[delivered'[j]] = 0
    <3>1. CASE j = Len(delivered)
      <4>1. delivered'[j] = LastDelivered /\ delivered'[j + 1] = i
        BY <2>2, <2>5, <2>6, <2>7, <3>1
      <4>2. LastDelivered < i \/ LastDelivered = i
        BY <2>2, <2>3, <2>5
      <4> QED
        BY <2>4, <4>1, <4>2
    <3>2. CASE j # Len(delivered)
      <4>1. j \in 1..(Len(delivered) - 1) /\ j \in 1..Len(delivered) /\ j + 1 \in 1..Len(delivered)
        BY <2>2, <2>5, <2>7, <3>2
      <4>2. delivered'[j] = delivered[j] /\ delivered'[j + 1] = delivered[j + 1]
        BY <2>2, <4>1
      <4> QED
        BY <4>1, <4>2 DEF AtMostOnceInOrder
    <3> QED
      BY <3>1, <3>2
  <2> QED
    BY <1>0, <2>7, Zenon DEF AtMostOnceInOrder
<1> QED
  BY <1>1, <1>2

-----------------------------------------------------------------------------
(* Frames stay intact *)

\* Within a message the next cell follows, after its end the next message.
LEMMA AfterFacts ==
  ASSUME NEW i, NEW k \in Nat
  PROVE  /\ k < HeaderLen \/ k < HeaderLen + Size(i) => After(i, k) = <<i, k + 1>>
         /\ Size(i) \in Nat /\ k = HeaderLen + Size(i) => After(i, k) = After(i + 1, 0)
         /\ After(i, 0) = <<i, 1>>
  BY DEF After, HeaderLen

\* When the header was read in step, the reader asks for the whole message.
LEMMA HeaderRead ==
  ASSUME Core, Ordered, Fits, InStep, Len(got) >= HeaderLen
  PROVE  /\ At \in 1..MaxMsgs /\ Size(At) \in Nat
         /\ need = HeaderLen + Size(At)
<1>1. TypeOK /\ ReaderAt
  BY DEF Core
<1>2. Len(got) \in Nat /\ HeaderLen \in 1..Len(got)
  <2>1. Len(got) \in Nat
    BY <1>1, CellTypes, ZenonT(60)
  <2> QED
    BY <2>1 DEF HeaderLen
<1>3. got[HeaderLen] = <<At, HeaderLen>>
  BY <1>2 DEF InStep
<1>4. got[HeaderLen][1] = At /\ got[HeaderLen][2] = HeaderLen
  BY <1>3
<1>5. At \in 1..MaxMsgs /\ At <= next
  <2>1. got[HeaderLen][1] \in 1..MaxMsgs
    BY <1>1, <1>2, CellTypes, ZenonT(60)
  <2>2. got[HeaderLen][1] <= next
    BY <1>2 DEF Ordered
  <2> QED
    BY <1>4, <2>1, <2>2
<1>6. need = HeaderLen + Length(At)
  BY <1>1, <1>4 DEF ReaderAt
<1>7. Size(At) = Length(At)
  BY <1>5 DEF Fits
<1> QED
  BY <1>1, <1>5, <1>6, <1>7, SizeFacts

\* On a connection that stays, what is intact was intact before.
LEMMA IntactBefore ==
  ASSUME Core, [Next]_vars, ~Reconnects, Intact'
  PROVE  Intact /\ (reader' = "read" => reader = "read")
<1>0. msgs' = msgs /\ TypeOK /\ TypeOK'
  BY CoreInductive, Zenon DEF Core, Next, Writer, Reader, Breaks, Reconnects, vars
<1>1. next \in Nat /\ next' \in Nat /\ next <= next'
  <2>1. next \in Nat /\ next' \in Nat
    BY <1>0, BoundsAssumption DEF TypeOK
  <2>2. Writer => next <= next'
    BY Sent
  <2>3. ~Writer => next' = next
    BY DEF Next, Reader, Breaks, vars, writerVars
  <2> QED
    BY <2>1, <2>2, <2>3, SMTT(30)
<1>2. Fits
  <2>1. \A i \in 1..MaxMsgs : i <= next' => Size(i) = Length(i)
    BY <1>0, Rigid DEF Intact, Fits
  <2> QED
    BY <1>1, <2>1 DEF Fits
<1>3. ~torn
  BY Zenon DEF Intact, Next, Writer, WriteCall, WriteCallFails, ConnWriteReturns, WriterQuits,
         Reader, ReadCell, ConnReadReturns, ReadFails, ReaderQuits, Breaks, vars
<1>4. reader' = "read" => reader = "read"
  BY Zenon DEF Next, Writer, Reader, ReadCell, ConnReadReturns, ReadFails, ReaderQuits, Breaks,
         vars, readerVars
<1> QED
  BY <1>2, <1>3, <1>4 DEF Intact

\* What InStep says of the cells the reader and the writer are at
LEMMA InStepNow ==
  ASSUME TypeOK, InStep
  PROVE  /\ Len(stream) \in Nat /\ Len(got) \in Nat /\ At \in Nat /\ n \in Nat /\ next \in Nat
         /\ \A k \in 1..Len(got) : got[k] = <<At, k>>
         /\ Linked(stream, Len(stream), After(At, Len(got)))
         /\ link = "up" => After(next, n) = FollowsAll(stream, Len(stream), After(At, Len(got)))
<1>1. here \in Seq(Seq(Cell)) /\ first \in Nat /\ n \in Nat
  BY BoundsAssumption DEF TypeOK
<1>2. At \in Nat
  BY <1>1 DEF At
<1>3. Len(stream) \in Nat /\ Len(got) \in Nat /\ next \in Nat
  BY CellTypes, Zenon
<1> QED
  BY <1>1, <1>2, <1>3, Zenon DEF InStep, Expected, Upcoming

\* The same for the state after a step
LEMMA InStepNext ==
  ASSUME msgs' = msgs,
         \A k \in 1..Len(got') : got'[k] = <<At', k>>,
         Linked(stream', Len(stream'), After(At', Len(got'))),
         link' = "up" => After(next', n') = FollowsAll(stream', Len(stream'), After(At', Len(got')))
  PROVE  InStep'
<1>1. Expected' = After(At', Len(got')) /\ Upcoming' = After(next', n')
  BY Zenon DEF Expected, Upcoming, After, Size
<1>2. Linked(stream, Len(stream), Expected)' = Linked(stream', Len(stream'), Expected')
  BY ZenonT(60) DEF Linked, Follows, After, Size
<1>3. FollowsAll(stream, Len(stream), Expected)' = FollowsAll(stream', Len(stream'), Expected')
  BY DEF FollowsAll, Follows, After, Size
<1> QED
  BY <1>1, <1>2, <1>3, Zenon DEF InStep

\* The m cells of t are the l cells of s and then cells a + 1 to b of message i.
Added(s, l, t, m, i, a, b) ==
  /\ m = l + (b - a)
  /\ \A j \in 1..l : t[j] = s[j]
  /\ \A j \in (l + 1)..m : t[j] = <<i, a + (j - l)>>

\* The l cells of s follow one another from cell c to the cell before cell d.
LinkedTo(s, l, c, d) == Linked(s, l, c) /\ d = FollowsAll(s, l, c)

\* Cells that follow one another still do when the cells that follow are added.
LEMMA Extended ==
  ASSUME NEW i, Size(i) \in Nat, NEW a \in Nat, NEW b \in Nat, a <= b, b <= HeaderLen + Size(i),
         NEW l \in Nat, NEW m \in Nat, NEW s, NEW t, NEW c,
         Added(s, l, t, m, i, a, b), LinkedTo(s, l, c, After(i, a))
  PROVE  LinkedTo(t, m, c, After(i, b))
<1>0. /\ m = l + (b - a)
      /\ \A j \in 1..l : t[j] = s[j]
      /\ \A j \in (l + 1)..m : t[j] = <<i, a + (j - l)>>
      /\ l # 0 => s[1] = c
      /\ \A j \in 1..(l - 1) : s[j + 1] = Follows(s[j])
      /\ After(i, a) = IF l = 0 THEN c ELSE Follows(s[l])
  BY DEF Added, LinkedTo, Linked, FollowsAll
<1>len. m = l + (b - a)
  BY <1>0, Zenon
<1>1. \A k \in Nat : k < b => After(i, k) = <<i, k + 1>>
  <2>1. ASSUME NEW k \in Nat, k < b
        PROVE  k < HeaderLen + Size(i)
    BY <2>1, SMTT(30) DEF HeaderLen
  <2> QED
    BY <2>1, AfterFacts
<1>2. m > l => t[l + 1] = After(i, a)
  <2>1. ASSUME m > l
        PROVE  l + 1 \in (l + 1)..m /\ a + ((l + 1) - l) = a + 1 /\ a < b
    BY <1>len, <2>1
  <2> QED
    BY <1>0, <1>1, <2>1, ZenonT(60)
<1>3. m # 0 => t[1] = c
  <2>1. CASE l = 0
    <3>1. m # 0 => m > l
      BY <1>len, <2>1
    <3> QED
      BY <1>0, <1>2, <2>1, <3>1, SMTT(30)
  <2>2. CASE l # 0
    <3>1. 1 \in 1..l
      BY <1>len, <2>2
    <3> QED
      BY <1>0, <2>2, <3>1, Zenon
  <2> QED
    BY <2>1, <2>2, Zenon
<1>4. ASSUME NEW j \in 1..(m - 1)
      PROVE  t[j + 1] = Follows(t[j])
  <2>0. /\ j < l => j \in 1..(l - 1) /\ j \in 1..l /\ j + 1 \in 1..l
        /\ j = l => l # 0 /\ l \in 1..l /\ m > l
        /\ j > l => /\ j \in (l + 1)..m /\ j + 1 \in (l + 1)..m
                    /\ a + (j - l) \in Nat /\ a + (j - l) < b
                    /\ a + ((j + 1) - l) = (a + (j - l)) + 1
        /\ j < l \/ j = l \/ j > l
    BY <1>len, PlacesOfPart
  <2>1. CASE j < l
    BY <1>0, <2>0, <2>1, Zenon
  <2>2. CASE j = l
    BY <1>0, <1>2, <2>0, <2>2, Zenon
  <2>3. CASE j > l
    <3> DEFINE k == a + (j - l)
    <3>1. j \in (l + 1)..m /\ j + 1 \in (l + 1)..m /\ k \in Nat /\ k < b /\ a + ((j + 1) - l) = k + 1
      BY <2>0, <2>3, Zenon
    <3>2. t[j] = <<i, k>> /\ t[j + 1] = <<i, k + 1>>
      BY <1>0, <3>1
    <3> HIDE DEF k
    <3>3. After(i, k) = <<i, k + 1>>
      BY <1>1, <3>1
    <3> QED
      BY <3>2, <3>3, SMTT(30) DEF Follows
  <2> QED
    BY <2>0, <2>1, <2>2, <2>3, Zenon
<1>5. After(i, b) = IF m = 0 THEN c ELSE Follows(t[m])
  <2>1. CASE m = l
    <3>1. b = a
      BY <1>len, <2>1
    <3>2. m # 0 => m \in 1..l
      BY <1>len, <2>1
    <3> QED
      BY <1>0, <2>1, <3>1, <3>2, Zenon
  <2>2. CASE m # l
    <3>1. m \in (l + 1)..m /\ a + (m - l) = b /\ m # 0
      BY <1>len, <2>2
    <3>2. t[m] = <<i, b>>
      BY <1>0, <3>1
    <3> QED
      BY <3>1, <3>2, SMTT(30) DEF Follows
  <2> QED
    BY <2>1, <2>2, Zenon
<1> QED
  BY <1>3, <1>4, <1>5, ZenonT(60) DEF LinkedTo, Linked, FollowsAll

\* WriteCall keeps the reader in step with the writer.
LEMMA WriteCallInStep ==
  ASSUME TypeOK, WriterAt, InStep, WriteCall, msgs' = msgs,
         got' = got, At' = At, link' = link
  PROVE  InStep'
<1>1. next \in 1..MaxMsgs /\ calls < LastCall(next) /\ next' = next
  BY DEF WriteCall, InWriteTo, TypeOK
<1>2. PICK b : b = CallEnd(next, calls + 1) /\ n' = b
  BY DEF WriteCall
<1>3. Transmit(b)
  BY <1>2 DEF WriteCall
<1>4. b \in n..(HeaderLen + Size(next)) /\ Size(next) \in Nat
  BY <1>1, <1>2, CallFacts, SizeFacts, Zenon
<1>5. /\ link # "up" => stream' = stream
      /\ link = "up" => Len(stream') = Len(stream) + (b - n)
      /\ Len(stream') \in Nat
      /\ \A j \in 1..Len(stream) : stream'[j] = stream[j]
      /\ \A j \in (Len(stream) + 1)..Len(stream') : stream'[j] = <<next, n + (j - Len(stream))>>
  BY <1>1, <1>3, <1>4, TransmitFacts, Zenon
<1>6. /\ Len(stream) \in Nat /\ n \in Nat
      /\ \A k \in 1..Len(got) : got[k] = <<At, k>>
      /\ Linked(stream, Len(stream), After(At, Len(got)))
      /\ link = "up" => After(next, n) = FollowsAll(stream, Len(stream), After(At, Len(got)))
  BY InStepNow, ZenonT(60)
<1>7. CASE link # "up"
  <2>1. stream' = stream /\ link' # "up"
    BY <1>5, <1>7
  <2> QED
    BY <1>6, <2>1, InStepNext
<1>8. CASE link = "up"
  <2>1. b \in Nat /\ n <= b /\ b <= HeaderLen + Size(next)
    <3>1. n \in Nat
      BY <1>6, Zenon
    <3>2. HeaderLen + Size(next) \in Nat
      BY <1>4 DEF HeaderLen
    <3> QED
      BY <1>4, <3>1, <3>2
  <2>2. Added(stream, Len(stream), stream', Len(stream'), next, n, b)
    BY <1>5, <1>8, ZenonT(60) DEF Added
  <2>3. LinkedTo(stream, Len(stream), After(At, Len(got)), After(next, n))
    BY <1>6, <1>8 DEF LinkedTo
  <2>5. LinkedTo(stream', Len(stream'), After(At, Len(got)), After(next, b))
    BY <1>4, <1>5, <1>6, <2>1, <2>2, <2>3, Extended, ZenonT(60)
  <2>4. After(next', n') = After(next, b) /\ After(At', Len(got')) = After(At, Len(got))
    BY <1>1, <1>2, Zenon
  <2> QED
    BY <1>6, <2>4, <2>5, InStepNext, Zenon DEF LinkedTo
<1> QED
  BY <1>7, <1>8

\* A step that leaves the stream and the reader alone, with the writer at the
\* same cell or the connection down, keeps the reader in step with the writer.
LEMMA SameInStep ==
  ASSUME TypeOK, InStep, msgs' = msgs, stream' = stream, got' = got, At' = At,
         link' = "up" => link = "up" /\ After(next', n') = After(next, n)
  PROVE  InStep'
<1>1. /\ \A k \in 1..Len(got) : got[k] = <<At, k>>
      /\ Linked(stream, Len(stream), After(At, Len(got)))
      /\ link = "up" => After(next, n) = FollowsAll(stream, Len(stream), After(At, Len(got)))
  BY InStepNow, Zenon
<1> QED
  BY <1>1, InStepNext, ZenonT(60)

\* The writer keeps the reader in step.
LEMMA WriterInStep ==
  ASSUME Core, InStep, Fits, Intact', Writer
  PROVE  InStep'
<1>0. /\ TypeOK /\ WriterAt /\ msgs' = msgs /\ got' = got /\ At' = At /\ link' = link
      /\ n \in Nat /\ next \in Nat
  <2>1. n \in Nat /\ next \in Nat
    BY BoundsAssumption DEF Core, TypeOK
  <2> QED
    BY <2>1 DEF Core, Writer, readerVars, connVars, At
<1>1. CASE WriteCall
  BY <1>0, <1>1, WriteCallInStep
<1>2. CASE WriteCallFails
  <2>1. next \in 1..MaxMsgs /\ calls < LastCall(next) /\ next' = next /\ n' = 0
    BY <1>0, <1>2 DEF WriteCallFails, InWriteTo, TypeOK
  <2>2. PICK k \in CutAt(next) :
          /\ Transmit(k)
          /\ link = "up" => torn' = (torn \/ k > 0)
    BY <1>2 DEF WriteCallFails
  <2>3. k \in Nat /\ n <= k
    <3>1. CallEnd(next, calls + 1) \in n..(HeaderLen + Size(next)) /\ Size(next) \in Nat
      BY <1>0, <2>1, CallFacts, SizeFacts
    <3>2. k \in n..CallEnd(next, calls + 1)
      BY <2>2 DEF CutAt
    <3> QED
      BY <1>0, <3>1, <3>2 DEF HeaderLen
  <2>4. link = "up" => k = 0 /\ n = 0
    <3>1. link = "up" => ~(k > 0)
      BY <2>2, Zenon DEF Intact
    <3> QED
      BY <1>0, <2>3, <3>1
  <2>5. stream' = stream
    <3>1. CASE link # "up"
      BY <2>2, <3>1 DEF Transmit
    <3>2. CASE link = "up"
      <4>1. SubSeq(Frame(next), n + 1, k) = <<>>
        BY <2>4, <3>2, EmptyPart
      <4>2. stream \o <<>> = stream
        BY <1>0, JoinedEmpty, Zenon DEF TypeOK
      <4> QED
        BY <2>2, <3>2, <4>1, <4>2, Zenon DEF Transmit
    <3> QED
      BY <3>1, <3>2
  <2>6. link' = "up" => link = "up" /\ After(next', n') = After(next, n)
    BY <1>0, <2>1, <2>4
  <2> QED
    BY <1>0, <2>5, <2>6, SameInStep, ZenonT(60)
<1>3. CASE ConnWriteReturns
  <2>1. next \in 1..MaxMsgs /\ calls = LastCall(next) /\ stream' = stream /\ n' = 0
    BY <1>0, <1>3, SMTT(30) DEF ConnWriteReturns, TypeOK
  <2>2. n = HeaderLen + Size(next) /\ Size(next) \in Nat
    BY <1>0, <2>1, CallFacts, SizeFacts
  <2>3. Size(next) = Length(next)
    BY <1>0, <2>1 DEF Fits
  <2>4. next' = next + 1
    BY <1>3, <2>2, <2>3, Zenon DEF ConnWriteReturns
  <2>5. After(next', n') = After(next, n)
    BY <1>0, <2>1, <2>2, <2>4, AfterFacts
  <2> QED
    BY <1>0, <2>1, <2>5, SameInStep, Zenon
<1>4. CASE WriterQuits
  <2>1. stream' = stream /\ link # "up"
    BY <1>4, Zenon DEF WriterQuits
  <2> QED
    BY <1>0, <2>1, SameInStep
<1> QED
  BY <1>1, <1>2, <1>3, <1>4 DEF Writer

\* ReadCell reads the cell that the reader expects.
LEMMA ReadCellInStep ==
  ASSUME Core, Ordered, InStep, Fits, ReadCell, msgs' = msgs,
         At' = At, link' = link, next' = next, n' = n
  PROVE  InStep'
<1> DEFINE g == Len(got)
           l == Len(stream)
<1>0. TypeOK /\ need \in Nat /\ g < need
  BY SizesAssumption, SMTT(30) DEF Core, TypeOK, ReadCell, HeaderLen
<1>1. /\ l \in Nat /\ g \in Nat /\ At \in Nat
      /\ \A k \in 1..g : got[k] = <<At, k>>
      /\ l # 0 => stream[1] = After(At, g)
      /\ \A j \in 1..(l - 1) : stream[j + 1] = Follows(stream[j])
      /\ link = "up" => After(next, n) = IF l = 0 THEN After(At, g) ELSE Follows(stream[l])
  BY <1>0, InStepNow, Zenon DEF Linked, FollowsAll
<1>2. /\ l # 0 /\ Len(got') = g + 1
      /\ \A k \in 1..g : got'[k] = got[k]
      /\ got'[g + 1] = stream[1]
      /\ Len(stream') = l - 1
      /\ \A j \in 1..(l - 1) : stream'[j] = stream[j + 1]
  BY <1>0, ReadCellFacts
<1>3. g >= HeaderLen => need = HeaderLen + Size(At)
  BY HeaderRead
<1> HIDE DEF g, l
<1>len. l \in Nat /\ g \in Nat /\ l # 0 /\ Len(got') = g + 1 /\ Len(stream') = l - 1
  BY <1>1, <1>2, Zenon
<1>4. g < HeaderLen \/ g < HeaderLen + Size(At)
  BY <1>0, <1>len, <1>3 DEF HeaderLen
<1>5. stream[1] = <<At, g + 1>>
  BY <1>1, <1>2, <1>4, AfterFacts, Zenon
<1>6. Follows(stream[1]) = After(At, g + 1)
  BY <1>5, SMTT(30) DEF Follows
<1>7. \A k \in 1..Len(got') : got'[k] = <<At', k>>
  <2>1. \A k \in 1..Len(got') : k \in 1..g \/ k = g + 1
    BY <1>len
  <2> QED
    BY <1>1, <1>2, <1>5, <2>1, Zenon
<1>8. Linked(stream', Len(stream'), After(At', Len(got')))
  <2>1. Len(stream') # 0 => stream'[1] = After(At', Len(got'))
    <3>1. Len(stream') # 0 => 1 \in 1..(l - 1)
      BY <1>len
    <3> QED
      BY <1>1, <1>2, <1>6, <3>1, Zenon
  <2>2. ASSUME NEW j \in 1..(Len(stream') - 1)
        PROVE  stream'[j + 1] = Follows(stream'[j])
    <3>1. j \in 1..(l - 1) /\ j + 1 \in 1..(l - 1)
      BY <1>len
    <3> QED
      BY <1>1, <1>2, <3>1, Zenon
  <2> QED
    BY <2>1, <2>2, Zenon DEF Linked
<1>9. link' = "up" => After(next', n') = FollowsAll(stream', Len(stream'), After(At', Len(got')))
  <2>1. Len(stream') = 0 => l = 1
    BY <1>len
  <2>2. Len(stream') # 0 => Len(stream') \in 1..(l - 1) /\ Len(stream') + 1 = l
    BY <1>len
  <2>3. Len(stream') # 0 => stream'[Len(stream')] = stream[l]
    BY <1>2, <2>2
  <2> QED
    BY <1>1, <1>2, <1>6, <2>1, <2>3, Zenon DEF FollowsAll
<1> QED
  BY <1>7, <1>8, <1>9, InStepNext, Zenon

\* The reader stays in step, or returns.
LEMMA ReaderInStep ==
  ASSUME Core, Ordered, InStep, Fits, Intact', Reader, reader' = "read"
  PROVE  InStep'
<1>0. TypeOK /\ msgs' = msgs /\ link' = link /\ next' = next /\ n' = n /\ first' = first
  BY DEF Core, Reader, writerVars, connVars
<1>1. CASE ReadCell
  <2>1. At' = At
    BY <1>0, <1>1, Zenon DEF ReadCell, At
  <2> QED
    BY <1>0, <1>1, <2>1, ReadCellInStep
<1>2. CASE ConnReadReturns
  <2>1. Len(got) = need /\ here' = Append(here, got) /\ got' = <<>> /\ stream' = stream
    BY <1>2, Zenon DEF ConnReadReturns, Restart
  <2>2. /\ Len(got) \in Nat /\ At \in Nat
        /\ Linked(stream, Len(stream), After(At, Len(got)))
        /\ link = "up" => After(next, n) = FollowsAll(stream, Len(stream), After(At, Len(got)))
    BY <1>0, InStepNow, Zenon
  <2>3. Len(got) >= HeaderLen
    BY <1>0, <2>1, SizesAssumption DEF TypeOK, HeaderLen
  <2>4. Len(got) = HeaderLen + Size(At) /\ Size(At) \in Nat
    BY <2>1, <2>3, HeaderRead
  <2>5. At' = At + 1
    <3>1. here \in Seq(Seq(Cell)) /\ got \in Seq(Cell) /\ first \in Nat
      BY <1>0, BoundsAssumption DEF TypeOK
    <3>2. Len(here') = Len(here) + 1 /\ Len(here) \in Nat
      BY <2>1, <3>1
    <3> QED
      BY <1>0, <3>1, <3>2, SMTT(30) DEF At
  <2>6. After(At', Len(got')) = After(At, Len(got)) /\ \A k : k \notin 1..Len(got')
    <3>1. After(At, Len(got)) = After(At + 1, 0)
      BY <2>2, <2>4, AfterFacts
    <3>2. Len(got') = 0
      BY <2>1
    <3> QED
      BY <2>5, <3>1, <3>2, SMTT(30)
  <2> QED
    BY <1>0, <2>1, <2>2, <2>6, InStepNext, Zenon
<1>3. CASE ReadFails
  <2>1. got = <<>> /\ got' = got /\ stream' = stream /\ At' = At
    BY <1>0, <1>3, Zenon DEF ReadFails, Restart, Intact, At
  <2> QED
    BY <1>0, <2>1, SameInStep
<1>4. CASE ReaderQuits
  BY <1>4, Zenon DEF ReaderQuits
<1> QED
  BY <1>1, <1>2, <1>3, <1>4 DEF Reader

\* Reader and writer start at the same cell of a new connection.
LEMMA ReconnectInStep ==
  ASSUME Core, Reconnects
  PROVE  InStep'
<1>1. /\ stream' = <<>> /\ got' = <<>> /\ here' = <<>> /\ first' = next
      /\ next' = next /\ n' = n /\ msgs' = msgs
  BY ZenonT(60) DEF Core, Reconnects, ReaderAt
<1>2. n = 0 /\ next \in Nat
  BY BoundsAssumption DEF Core, Reconnects, WriterAt, TypeOK
<1>3. At' = next /\ Len(stream') = 0 /\ Len(got') = 0 /\ \A j : j \notin 1..Len(got')
  BY <1>1, <1>2 DEF At
<1>4. /\ Linked(stream', Len(stream'), After(At', Len(got')))
      /\ After(next', n') = FollowsAll(stream', Len(stream'), After(At', Len(got')))
  BY <1>1, <1>2, <1>3 DEF Linked, FollowsAll
<1> QED
  BY <1>1, <1>3, <1>4, InStepNext, ZenonT(60)

\* Every step keeps the reader in step with the writer.
LEMMA InStepInductive ==
  ASSUME Core, Ordered, ReadInStep, [Next]_vars
  PROVE  ReadInStep'
<1> SUFFICES ASSUME Intact', reader' = "read"
             PROVE  InStep'
  BY DEF ReadInStep
<1>0. TypeOK
  BY DEF Core
<1>1. CASE Reconnects
  BY <1>0, <1>1, ReconnectInStep
<1>2. CASE ~Reconnects
  <2>1. InStep /\ Fits
    BY <1>2, IntactBefore, Zenon DEF ReadInStep, Intact
  <2>2. CASE Breaks \/ UNCHANGED vars
    <3>1. /\ stream' = stream /\ got' = got /\ At' = At /\ next' = next /\ n' = n /\ msgs' = msgs
          /\ link' = "up" => link = "up"
      BY <2>2, Zenon DEF Breaks, vars, writerVars, readerVars, connVars, At
    <3> QED
      BY <1>0, <2>1, <3>1, SameInStep, ZenonT(60)
  <2> QED
    BY <1>0, <1>2, <2>1, <2>2, WriterInStep, ReaderInStep DEF Next
<1> QED
  BY <1>1, <1>2

\* Every step keeps the frames that connRead returned intact.
LEMMA FramesInductive ==
  ASSUME Core, Ordered, ReadInStep, FramesIntact, [Next]_vars
  PROVE  FramesIntact'
<1>0. TypeOK /\ msgs' = msgs
  BY Zenon DEF Core, Next, Writer, Reader, Breaks, Reconnects, vars
<1>1. SUFFICES ASSUME Intact'
               PROVE  \A j \in 1..Len(here') :
                        first' + j - 1 <= MaxMsgs /\ here'[j] = Frame(first' + j - 1)
  <2>1. \A i : Frame(i)' = Frame(i)
    BY <1>0, Rigid
  <2> QED
    BY <2>1, ZenonT(60) DEF FramesIntact, Intact, Fits
<1>2. CASE Reconnects
  <2>1. here' = <<>>
    BY <1>2 DEF Reconnects
  <2> QED
    BY <2>1
<1>3. CASE ~Reconnects
  <2>1. /\ Intact
        /\ \A j \in 1..Len(here) : first + j - 1 <= MaxMsgs /\ here[j] = Frame(first + j - 1)
    BY <1>1, <1>3, IntactBefore, ZenonT(60) DEF FramesIntact, Intact, Fits
  <2>2. first' = first
    BY <1>3 DEF Next, Writer, Reader, Breaks, vars, connVars
  <2>3. CASE here' = here
    BY <2>1, <2>2, <2>3, Zenon
  <2>4. CASE here' # here
    <3>1. ConnReadReturns
      BY <1>3, <2>4, ZenonT(60) DEF Next, Writer, Reader, Breaks, ReadCell, ReadFails, ReaderQuits, vars, readerVars
    <3>2. reader = "read" /\ Len(got) = need /\ here' = Append(here, got)
      BY <3>1 DEF ConnReadReturns
    <3>3. InStep /\ Fits
      BY <2>1, <3>2, Zenon DEF ReadInStep, Intact
    <3>4. got \in Seq(Cell) /\ Len(got) \in Nat /\ Len(got) >= HeaderLen
      BY <1>0, <3>2, SizesAssumption, SMTT(30) DEF TypeOK, HeaderLen
    <3>5. At \in 1..MaxMsgs /\ Size(At) \in Nat /\ Len(got) = HeaderLen + Size(At)
      BY <3>2, <3>3, <3>4, HeaderRead
    <3>6. got = Frame(At)
      <4>1. DOMAIN got = 1..(HeaderLen + Size(At)) /\ got = [k \in DOMAIN got |-> got[k]]
        BY <3>4, <3>5, SMTT(30)
      <4>2. \A k \in 1..(HeaderLen + Size(At)) : got[k] = <<At, k>>
        BY <3>3, <3>5, Zenon DEF InStep
      <4> QED
        BY <4>1, <4>2, Zenon DEF Frame
    <3>7. /\ here \in Seq(Seq(Cell)) /\ Len(here) \in Nat /\ first \in Nat
          /\ Len(here') = Len(here) + 1
          /\ \A j \in 1..Len(here) : here'[j] = here[j]
          /\ here'[Len(here) + 1] = got
      <4>1. here \in Seq(Seq(Cell)) /\ Len(here) \in Nat /\ first \in Nat
        BY <1>0, BoundsAssumption DEF TypeOK
      <4> QED
        BY <3>2, <3>4, <4>1, SMTT(30)
    <3>8. At = first + (Len(here) + 1) - 1
      BY <3>7 DEF At
    <3>9. \A j \in 1..Len(here') : j \in 1..Len(here) \/ j = Len(here) + 1
      BY <3>7
    <3>10. At <= MaxMsgs
      BY <3>5, BoundsAssumption
    <3> QED
      BY <2>1, <2>2, <3>6, <3>7, <3>8, <3>9, <3>10, ZenonT(60)
  <2> QED
    BY <2>3, <2>4, Zenon
<1> QED
  BY <1>2, <1>3, Zenon

-----------------------------------------------------------------------------
(* The theorems *)

\* The inductive invariant holds when the first connection is made.
LEMMA InitIInv ==
  ASSUME Init
  PROVE  IInv
<1>0. Core
  BY InitCore
<1>1. /\ next = 1 /\ n = 0 /\ link = "up" /\ stream = <<>> /\ got = <<>> /\ here = <<>>
      /\ delivered = <<>> /\ first = 1
  BY DEF Init
<1>2. LastDelivered = 0 /\ Len(delivered) = 0 /\ \A j : j \notin 1..Len(stream) /\ j \notin 1..Len(got)
  BY <1>1 DEF LastDelivered
<1>3. Ordered
  BY <1>1, <1>2 DEF Ordered
<1>4. FinalOnce
  <2>1. ASSUME NEW i \in 1..MaxMsgs
        PROVE  Once(i)
    <3>1. ~FinalOnWay(i) /\ ~FinalRead(i)
      BY <1>2, Zenon DEF FinalOnWay, FinalRead
    <3>2. LastDelivered # i
      BY <1>2
    <3> QED
      BY <1>2, <3>1, <3>2, Zenon DEF Once
  <2> QED
    BY <2>1, Zenon DEF FinalOnce
<1>5. InStep
  <2>1. At = 1 /\ Len(got) = 0 /\ Len(stream) = 0
    BY <1>1 DEF At
  <2> QED
    BY <1>1, <1>2, <2>1 DEF InStep, Expected, Upcoming, Linked, FollowsAll
<1>6. FramesIntact /\ AtMostOnceInOrder
  BY <1>1 DEF FramesIntact, AtMostOnceInOrder
<1> QED
  BY <1>0, <1>3, <1>4, <1>5, <1>6 DEF IInv, Core, ReadInStep

\* The inductive invariant holds in every state.
LEMMA AlwaysIInv == Safety => []IInv
<1>1. Init => IInv
  BY InitIInv
<1>2. IInv /\ [Next]_vars => IInv'
  <2> SUFFICES ASSUME IInv, [Next]_vars
               PROVE  IInv'
    OBVIOUS
  <2>1. Core /\ Ordered /\ FinalOnce /\ ReadInStep /\ FramesIntact /\ AtMostOnceInOrder
    BY DEF IInv, Core
  <2>2. Core'
    BY <2>1, CoreInductive
  <2>3. Ordered' /\ FinalOnce'
    BY <2>1, OrderedInductive, OnceInductive
  <2>4. ReadInStep'
    BY <2>1, InStepInductive
  <2>5. FramesIntact'
    BY <2>1, FramesInductive
  <2>6. AtMostOnceInOrder'
    BY <2>1, DeliveredInductive
  <2> QED
    BY <2>2, <2>3, <2>4, <2>5, <2>6 DEF IInv, Core
<1> QED
  BY <1>1, <1>2, PTL DEF Safety

\* The state of connWrite, of connRead and of the connection is always of its
\* type; no length that is read asks for more than its width allows.
THEOREM TypeCorrect == Safety => []TypeOK
  BY AlwaysIInv, PTL DEF IInv

\* What connRead returns on a connection are the messages connWrite wrote on it,
\* whole and in order, until a transient error cuts one or a length does not fit.
THEOREM FramesStayIntact == Safety => []FramesIntact
  BY AlwaysIInv, PTL DEF IInv

\* Over any number of connections, and although a message whose write failed is
\* written again, it is delivered whole at most once and in order, unless its
\* payload is empty and not nil.
THEOREM DeliveredAtMostOnce == Safety => []AtMostOnceInOrder
  BY AlwaysIInv, PTL DEF IInv

\* What connRead handed out, connWrite does not give back to be written again.
THEOREM GivenBackIsNotDelivered == Safety => []DeliveredIsFinished
<1>1. IInv => DeliveredIsFinished
  BY Zenon DEF IInv, FinalOnce, Once, Sound, DeliveredIsFinished
<1> QED
  BY AlwaysIInv, <1>1, PTL

=============================================================================
