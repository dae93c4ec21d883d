------------------------- MODULE QueuePollingProofs -------------------------
(***************************************************************************)
(* The safety properties of QueuePolling for every bound on the appends,   *)
(* and its refinement of the safety part of BlockingFifo.                  *)
(***************************************************************************)
EXTENDS QueuePolling, SequenceTheorems, TLAPS

-----------------------------------------------------------------------------
(* Sequences: a message goes from a queue q to the hand h of the polling   *)
(* goroutine and from there to the sequence d of the messages done.  Each  *)
(* lemma says that a step keeps d \o h \o q, or appends to it.             *)

\* Appending to the right operand of a concatenation appends to the whole.
LEMMA ConcatAppend ==
  ASSUME NEW x \in Nat, NEW p \in Seq(Nat), NEW q \in Seq(Nat)
  PROVE  p \o Append(q, x) = Append(p \o q, x)
<1>1. <<x>> \in Seq(Nat)
  OBVIOUS
<1>2. Append(q, x) = q \o <<x>>
  BY AppendIsConcat
<1>3. (p \o q) \o <<x>> = p \o (q \o <<x>>)
  BY <1>1, ConcatAssociative, SMTT(30)
<1>4. p \o q \in Seq(Nat)
  BY ConcatProperties
<1>5. Append(p \o q, x) = (p \o q) \o <<x>>
  BY <1>4, AppendIsConcat, Zenon
<1> QED
  BY <1>2, <1>3, <1>5

\* append puts a message behind all the others.
LEMMA PipelineAppend ==
  ASSUME NEW x \in Nat, NEW d \in Seq(Nat), NEW h \in Seq(Nat), NEW q \in Seq(Nat)
  PROVE  d \o h \o Append(q, x) = Append(d \o h \o q, x)
<1>1. d \o h \in Seq(Nat)
  BY ConcatProperties
<1> QED
  BY <1>1, ConcatAppend, SMTT(30)

\* Messages 1 to n, and then message n + 1, are messages 1 to n + 1.
LEMMA NumbersAppend ==
  ASSUME NEW n \in Nat
  PROVE  Append([i \in 1..n |-> i], n + 1) = [i \in 1..(n + 1) |-> i]
<1> DEFINE one == [i \in 1..n |-> i]
           all == [i \in 1..(n + 1) |-> i]
<1>1. n + 1 \in Nat /\ one \in Seq(Nat) /\ all \in Seq(Nat)
  OBVIOUS
<1>2. Len(one) = n /\ Len(all) = n + 1 /\ \A i \in 1..(n + 1) : all[i] = i
  OBVIOUS
<1>3. \A i \in 1..n : Append(one, n + 1)[i] = i
  BY <1>1, <1>2, AppendProperties
<1>4. Append(one, n + 1)[n + 1] = n + 1
  BY <1>1, <1>2, AppendProperties
<1>5. Len(Append(one, n + 1)) = n + 1 /\ Append(one, n + 1) \in Seq(Nat)
  BY <1>1, <1>2, AppendProperties
<1> HIDE DEF one, all
<1>6. \A i \in 1..(n + 1) : Append(one, n + 1)[i] = all[i]
  BY <1>2, <1>3, <1>4
<1>7. Append(one, n + 1) = all
  BY <1>1, <1>2, <1>5, <1>6, SeqEqual
<1> QED
  BY <1>7 DEF one, all

\* blockingPoll takes the head into an empty hand.
LEMMA PipelineTake ==
  ASSUME NEW d \in Seq(Nat), NEW q \in Seq(Nat), q # <<>>
  PROVE  /\ Head(q) \in Nat
         /\ Tail(q) \in Seq(Nat)
         /\ d \o <<Head(q)>> \o Tail(q) = d \o <<>> \o q
<1>1. Head(q) \in Nat /\ Tail(q) \in Seq(Nat) /\ <<Head(q)>> \in Seq(Nat)
  BY HeadTailProperties
<1>2. <<Head(q)>> \o Tail(q) = q
  <2>1. Len(<<Head(q)>>) = 1 /\ <<Head(q)>>[1] = Head(q)
    OBVIOUS
  <2>2. Len(q) \in Nat \ {0} /\ Len(Tail(q)) = Len(q) - 1
    BY EmptySeq, HeadTailProperties
  <2>3. /\ <<Head(q)>> \o Tail(q) \in Seq(Nat)
        /\ Len(<<Head(q)>> \o Tail(q)) = Len(q)
    BY <1>1, <2>1, <2>2, ConcatProperties
  <2>4. Head(q) = q[1]
    BY <2>2
  <2>5. \A i \in 1..Len(q) : (<<Head(q)>> \o Tail(q))[i] = IF i <= 1 THEN Head(q) ELSE Tail(q)[i - 1]
    BY <1>1, <2>1, <2>2, ConcatProperties
  <2>6. \A i \in 1..(Len(q) - 1) : Tail(q)[i] = q[i + 1]
    BY <2>2, HeadTailProperties
  <2>7. ASSUME NEW i \in 1..Len(q) PROVE (<<Head(q)>> \o Tail(q))[i] = q[i]
    <3>1. CASE i = 1
      BY <3>1, <2>2, <2>4, <2>5
    <3>2. CASE i # 1
      <4>1. i - 1 \in 1..(Len(q) - 1) /\ ~(i <= 1) /\ (i - 1) + 1 = i
        BY <3>2, <2>2
      <4> QED
        BY <4>1, <2>5, <2>6
    <3> QED
      BY <3>1, <3>2
  <2> QED
    BY <2>3, <2>7, SeqEqual
<1>3. (d \o <<Head(q)>>) \o Tail(q) = d \o (<<Head(q)>> \o Tail(q))
  BY <1>1, ConcatAssociative, SMTT(30)
<1>4. d \o <<>> = d
  BY ConcatEmptySeq
<1> QED
  BY <1>1, <1>2, <1>3, <1>4, SMTT(30)

\* The message in the hand is done.
LEMMA PipelineUse ==
  ASSUME NEW d \in Seq(Nat), NEW x \in Nat, NEW q \in Seq(Nat)
  PROVE  Append(d, x) \in Seq(Nat) /\ Append(d, x) \o <<>> \o q = d \o <<x>> \o q
<1>1. Append(d, x) = d \o <<x>> /\ Append(d, x) \in Seq(Nat)
  BY AppendIsConcat, AppendProperties
<1>2. Append(d, x) \o <<>> = Append(d, x)
  BY <1>1, ConcatEmptySeq
<1> QED
  BY <1>1, <1>2

\* prepend puts the message in the hand back in front of the queue.
LEMMA PipelineGiveBack ==
  ASSUME NEW d \in Seq(Nat), NEW x \in Nat, NEW q \in Seq(Nat)
  PROVE  <<x>> \o q \in Seq(Nat) /\ d \o <<>> \o (<<x>> \o q) = d \o <<x>> \o q
<1>1. <<x>> \in Seq(Nat)
  OBVIOUS
<1>2. d \o <<>> = d
  BY ConcatEmptySeq
<1>3. (d \o <<x>>) \o q = d \o (<<x>> \o q)
  BY <1>1, ConcatAssociative, SMTT(30)
<1> QED
  BY <1>1, <1>2, <1>3, ConcatProperties, Zenon

-----------------------------------------------------------------------------
(* The queue *)

\* The inductive invariant: the four properties need each other's types, and
\* nothing more.
IInv == TypeOK /\ Fifo /\ NoMissedMessage /\ NilOnlyIfClosed

\* What the poller holds is a sequence of at most one message.
LEMMA InHandType == ASSUME TypeOK PROVE InHand \in Seq(Nat)
BY DEF TypeOK, QueueTypeOK, InHand

\* newUnboundedMessageQueue establishes the invariant.
LEMMA InitIInv == Init => IInv
<1> SUFFICES ASSUME Init PROVE IInv
  OBVIOUS
<1>1. TypeOK
  <2>1. ctxDone \in BOOLEAN /\ unblocked \in BOOLEAN
    BY Zenon DEF Init
  <2> QED
    BY <2>1 DEF Init, QueueInit, TypeOK, QueueTypeOK, PollStates
<1>2. Fifo
  <2>1. used = <<>> /\ InHand = <<>> /\ queue = <<>> /\ produced = 0
    BY DEF Init, QueueInit, InHand
  <2>2. <<>> \o <<>> \o <<>> = <<>>
    OBVIOUS
  <2>3. [i \in 1..0 |-> i] = <<>>
    OBVIOUS
  <2> QED
    BY <2>1, <2>2, <2>3 DEF Fifo
<1> QED
  BY <1>1, <1>2 DEF Init, QueueInit, IInv, NoMissedMessage, NilOnlyIfClosed

\* Every step of a producer, the poller or the closing side keeps the types.
LEMMA NextTypeOK == TypeOK /\ [Next]_vars => TypeOK'
<1> SUFFICES ASSUME TypeOK, [Next]_vars PROVE TypeOK'
  OBVIOUS
<1> USE DEF TypeOK, QueueTypeOK, PollStates, queueVars
<1>1. CASE Produce
  BY <1>1 DEF Produce, AppendMsg
<1>2. CASE ProducerSignal
  BY <1>2 DEF ProducerSignal, Signal, Wake
<1>3. CASE StartPolling
  BY <1>3 DEF StartPolling, PollCall
<1>4. CASE PollerStep
  <2>1. CASE PollCheck(ctxDone)
    BY <1>4, <2>1 DEF PollerStep, PollCheck
  <2>2. CASE PollTake
    <3>1. Head(queue) \in Nat /\ Tail(queue) \in Seq(Nat)
      BY <2>2, HeadTailProperties DEF PollTake
    <3> QED
      BY <1>4, <2>2, <3>1 DEF PollerStep, PollTake
  <2>3. CASE PollWait
    BY <1>4, <2>3 DEF PollerStep, PollWait
  <2>4. CASE PollWakeUp(ctxDone)
    BY <1>4, <2>4 DEF PollerStep, PollWakeUp
  <2> QED
    BY <1>4, <2>1, <2>2, <2>3, <2>4 DEF PollerStep, PollStep
<1>5. CASE Use
  BY <1>5 DEF Use, PollCall
<1>6. CASE GiveBack
  <2>1. ret \in Nat
    BY <1>6 DEF GiveBack
  <2>2. <<ret>> \o queue \in Seq(Nat)
    BY <2>1, PipelineGiveBack
  <2> QED
    BY <1>6, <2>2 DEF GiveBack, PrependMsg
<1>7. CASE Cancel
  BY <1>7 DEF Cancel
<1>8. CASE Unblock
  BY <1>8 DEF Unblock, UnblockPoll, Wake
<1>9. CASE UNCHANGED vars
  BY <1>9 DEF vars
<1> QED
  BY <1>1, <1>2, <1>3, <1>4, <1>5, <1>6, <1>7, <1>8, <1>9 DEF Next

\* Every step keeps the messages in their order.
LEMMA NextFifo == TypeOK /\ Fifo /\ [Next]_vars => Fifo'
<1> SUFFICES ASSUME TypeOK, Fifo, [Next]_vars PROVE Fifo'
  OBVIOUS
<1>1. /\ queue \in Seq(Nat) /\ used \in Seq(Nat) /\ produced \in Nat
      /\ ret \in Nat \cup {Nil} /\ InHand \in Seq(Nat)
  BY InHandType DEF TypeOK, QueueTypeOK
<1>2. CASE Produce
  <2>1. InHand' = InHand
    BY <1>2 DEF Produce, AppendMsg, InHand
  <2>2. used \o InHand \o Append(queue, produced + 1) = [i \in 1..(produced + 1) |-> i]
    <3>1. \A x \in Nat : used \o InHand \o Append(queue, x) = Append(used \o InHand \o queue, x)
      BY <1>1, PipelineAppend, SMTT(30)
    <3>2. used \o InHand \o Append(queue, produced + 1) = Append(used \o InHand \o queue, produced + 1)
      BY <1>1, <3>1, SMTT(30)
    <3>3. Append([i \in 1..produced |-> i], produced + 1) = [i \in 1..(produced + 1) |-> i]
      BY <1>1, NumbersAppend
    <3> QED
      BY <3>2, <3>3, Zenon DEF Fifo
  <2> QED
    BY <1>2, <2>1, <2>2, Zenon DEF Produce, AppendMsg, Fifo
<1>3. ASSUME UNCHANGED <<queue, used, produced, ret>>, (poll = "returned") <=> (poll' = "returned")
      PROVE  Fifo'
  BY <1>3, Zenon DEF Fifo, InHand
<1>4. CASE ProducerSignal
  BY <1>3, <1>4 DEF ProducerSignal, Signal, Wake
<1>5. CASE StartPolling
  BY <1>3, <1>5 DEF StartPolling, PollCall
<1>6. CASE PollerStep
  <2>1. CASE PollCheck(ctxDone) \/ PollWakeUp(ctxDone)
    <3>1. InHand = <<>> /\ InHand' = <<>>
      BY <2>1 DEF PollCheck, PollWakeUp, InHand
    <3> QED
      BY <1>6, <2>1, <3>1 DEF PollerStep, PollCheck, PollWakeUp, Fifo
  <2>2. CASE PollTake
    <3>1. Head(queue) \in Nat /\ used \o <<Head(queue)>> \o Tail(queue) = used \o <<>> \o queue
      BY <1>1, <2>2, PipelineTake, Zenon DEF PollTake
    <3>2. InHand = <<>> /\ InHand' = <<Head(queue)>>
      BY <2>2, <3>1, NilAssumption DEF PollTake, InHand
    <3> QED
      BY <1>6, <2>2, <3>1, <3>2, Zenon DEF PollerStep, PollTake, Fifo
  <2>3. CASE PollWait
    BY <1>3, <1>6, <2>3 DEF PollerStep, PollWait
  <2> QED
    BY <1>6, <2>1, <2>2, <2>3 DEF PollerStep, PollStep
<1>7. CASE Use
  <2>1. InHand = <<ret>> /\ ret \in Nat /\ InHand' = <<>>
    BY <1>1, <1>7 DEF Use, PollCall, InHand
  <2> QED
    BY <1>1, <1>7, <2>1, PipelineUse, ZenonT(60) DEF Use, PollCall, Fifo
<1>8. CASE GiveBack
  <2>1. InHand = <<ret>> /\ ret \in Nat /\ InHand' = <<>>
    BY <1>1, <1>8 DEF GiveBack, PrependMsg, InHand
  <2> QED
    BY <1>1, <1>8, <2>1, PipelineGiveBack, ZenonT(60) DEF GiveBack, PrependMsg, Fifo
<1>9. CASE Cancel
  BY <1>3, <1>9 DEF Cancel, queueVars
<1>10. CASE Unblock
  BY <1>3, <1>10 DEF Unblock, UnblockPoll, Wake
<1>11. CASE UNCHANGED vars
  BY <1>3, <1>11 DEF vars
<1> QED
  BY <1>2, <1>4, <1>5, <1>6, <1>7, <1>8, <1>9, <1>10, <1>11 DEF Next

\* Every step keeps the wake-up of a parked poller due, and nil for a closed
\* context.
LEMMA NextWakeups ==
  TypeOK /\ NoMissedMessage /\ NilOnlyIfClosed /\ [Next]_vars
    => NoMissedMessage' /\ NilOnlyIfClosed'
<1> SUFFICES ASSUME TypeOK, NoMissedMessage, NilOnlyIfClosed, [Next]_vars
             PROVE  NoMissedMessage' /\ NilOnlyIfClosed'
  OBVIOUS
<1> USE DEF NoMissedMessage, NilOnlyIfClosed
<1>1. signals \in Nat /\ ret \in Nat \cup {Nil} /\ queue \in Seq(Nat)
  BY DEF TypeOK, QueueTypeOK
<1>2. CASE Produce
  BY <1>1, <1>2 DEF Produce, AppendMsg
<1>3. CASE ProducerSignal
  BY <1>1, <1>3 DEF ProducerSignal, Signal, Wake
<1>4. CASE StartPolling
  BY <1>4 DEF StartPolling, PollCall
<1>5. CASE PollerStep
  <2>1. CASE PollTake
    <3>1. Head(queue) \in Nat
      BY <1>1, <2>1, PipelineTake DEF PollTake
    <3> QED
      BY <1>5, <2>1, <3>1, NilAssumption DEF PollerStep, PollTake
  <2> QED
    BY <1>5, <2>1 DEF PollerStep, PollStep, PollCheck, PollWait, PollWakeUp
<1>6. CASE Use \/ GiveBack
  BY <1>6 DEF Use, GiveBack, PollCall, PrependMsg
<1>7. CASE Cancel
  BY <1>7 DEF Cancel, queueVars
<1>8. CASE Unblock
  BY <1>8 DEF Unblock, UnblockPoll, Wake
<1>9. CASE UNCHANGED vars
  BY <1>9 DEF vars
<1> QED
  BY <1>2, <1>3, <1>4, <1>5, <1>6, <1>7, <1>8, <1>9 DEF Next

\* The invariant holds in every reachable state.
LEMMA AlwaysIInv == Safety => []IInv
<1>1. IInv /\ [Next]_vars => IInv'
  BY NextTypeOK, NextFifo, NextWakeups DEF IInv
<1> QED
  BY InitIInv, <1>1, PTL DEF Safety

\* The queue, the poller and the history variables keep their types.
THEOREM TypeCorrect == Safety => []TypeOK
<1>1. IInv => TypeOK
  BY DEF IInv
<1> QED
  BY AlwaysIInv, <1>1, PTL

\* No message is lost, duplicated or reordered between append and its use by
\* the goroutine that polls, whatever number of messages is appended and
\* however often that goroutine prepends one after a failed write.
THEOREM NoMessageLost == Safety => []Fifo
<1>1. IInv => Fifo
  BY DEF IInv
<1> QED
  BY AlwaysIInv, <1>1, PTL

\* A goroutine parked in blockingPoll next to a message has a Signal of append
\* coming.
THEOREM WakeupIsComing == Safety => []NoMissedMessage
<1>1. IInv => NoMissedMessage
  BY DEF IInv
<1> QED
  BY AlwaysIInv, <1>1, PTL

\* blockingPoll returns nil for a closed context only.
THEOREM NilMeansClosed == Safety => []NilOnlyIfClosed
<1>1. IInv => NilOnlyIfClosed
  BY DEF IInv
<1> QED
  BY AlwaysIInv, <1>1, PTL

\* Every step of the queue is a step of BlockingFifo or changes nothing of it:
\* the mutex, the condition variable and the wake-ups do not show.
THEOREM RefinesBlockingFifo == Safety => Promise!Safety
<1>1. Init => Promise!Init
  <2> SUFFICES ASSUME Init PROVE Promise!Init
    OBVIOUS
  <2>1. (poll # "returned") = TRUE
    BY DEF Init, QueueInit
  <2> QED
    BY <2>1 DEF Init, QueueInit, Promise!Init
<1>2. IInv /\ [Next]_vars => [Promise!Next]_Promise!vars
  <2> SUFFICES ASSUME IInv, [Next]_vars PROVE [Promise!Next]_Promise!vars
    OBVIOUS
  <2>1. produced \in Nat /\ ret \in Nat \cup {Nil}
    BY DEF IInv, TypeOK, QueueTypeOK
  <2>2. ASSUME UNCHANGED <<queue, ret, ctxDone>>, (poll = "returned") <=> (poll' = "returned")
        PROVE  UNCHANGED Promise!vars
    BY <2>2 DEF Promise!vars
  <2>3. CASE Produce
    <3>1. produced + 1 \in 1..MaxMsgs
      BY <2>1, <2>3, MaxMsgsAssumption DEF Produce
    <3>2. Promise!Put
      BY <2>3, <3>1 DEF Produce, AppendMsg, Promise!Put
    <3> QED
      BY <3>2 DEF Promise!Next
  <2>4. CASE ProducerSignal
    BY <2>2, <2>4 DEF ProducerSignal, Signal, Wake
  <2>5. CASE StartPolling
    BY <2>2, <2>5 DEF StartPolling, PollCall
  <2>6. CASE PollerStep
    <3>1. CASE (PollCheck(ctxDone) \/ PollWakeUp(ctxDone)) /\ ctxDone
      <4>1. Promise!TakeNil
        BY <2>6, <3>1 DEF PollerStep, PollCheck, PollWakeUp, Promise!TakeNil
      <4> QED
        BY <4>1 DEF Promise!Next
    <3>2. CASE PollTake
      <4>1. Promise!Take
        BY <2>6, <3>2 DEF PollerStep, PollTake, Promise!Take
      <4> QED
        BY <4>1 DEF Promise!Next
    <3>3. CASE (PollCheck(ctxDone) \/ PollWakeUp(ctxDone)) /\ ~ctxDone
      BY <2>2, <2>6, <3>3 DEF PollerStep, PollCheck, PollWakeUp
    <3>4. CASE PollWait
      BY <2>2, <2>6, <3>4 DEF PollerStep, PollWait
    <3> QED
      BY <2>6, <3>1, <3>2, <3>3, <3>4 DEF PollerStep, PollStep
  <2>7. CASE Use
    <3>1. Promise!PollAgain
      BY <2>7 DEF Use, PollCall, Promise!PollAgain
    <3> QED
      BY <3>1 DEF Promise!Next
  <2>8. CASE GiveBack
    <3>1. Promise!PutBack
      BY <2>8 DEF GiveBack, PrependMsg, Promise!PutBack
    <3> QED
      BY <3>1 DEF Promise!Next
  <2>9. CASE Cancel
    <3>1. Promise!Close
      BY <2>9 DEF Cancel, queueVars, Promise!Close
    <3> QED
      BY <3>1 DEF Promise!Next
  <2>10. CASE Unblock
    BY <2>2, <2>10 DEF Unblock, UnblockPoll, Wake
  <2>11. CASE UNCHANGED vars
    BY <2>2, <2>11 DEF vars
  <2> QED
    BY <2>3, <2>4, <2>5, <2>6, <2>7, <2>8, <2>9, <2>10, <2>11 DEF Next
<1> QED
  BY AlwaysIInv, <1>1, <1>2, PTL DEF Safety, Promise!Safety
=============================================================================
