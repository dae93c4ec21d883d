------------------------ MODULE BaseConnectionProofs ------------------------
(***************************************************************************)
(* What a baseTcpConnection keeps true, whoever owns it: the lemmas that   *)
(* the proofs about client and server in ConnectionProofs share.           *)
(***************************************************************************)
EXTENDS BaseConnection, TLAPS

\* For its lemmas about sequences
QP == INSTANCE QueuePollingProofs WITH
        MaxMsgs <- MaxOut, queue <- wqueue, signals <- wsignals, poll <- wpoll, ret <- wret,
        ctxDone <- connCtx, unblocked <- connCtx, produced <- nOut, used <- written

\* The closer is the last to hold the net.Conn.
ClosedWhenDone == closer = "done" => conn \in {"none", "closed"}

\* Closing the errors channel is the last thing cleanup does.
ErrsClosedLast == ~errsOpen => owner \in {"closed", "exited"}

\* A queue is polled only by the writer of the current connection, and only once
\* the service started: no poll starts with a message in hand.
PolledByOne ==
  /\ writer # "poll" => wpoll = "idle"
  /\ errLoop = "none" => rpoll = "idle"

\* What the two pollers hold
WHand == InHand(wpoll, wret)
RHand == InHand(rpoll, rret)

Control == OneConnAtATime /\ ClosedWhenDone /\ ErrsClosedLast /\ PolledByOne

BaseInv == BaseTypeOK /\ Control /\ OutboundInOrder /\ InboundInOrder

\* The capacity of the errors channel and the bounds are numbers
LEMMA Numbers == ErrCap \in Nat /\ MaxOut \in Nat /\ MaxIn \in Nat
  BY ErrCapAssumption, BoundsAssumption

-----------------------------------------------------------------------------
(* The lemmas of QueuePollingProofs about sequences: a queue q, a hand h of *)
(* its poller, and d done                                                  *)

\* append puts a message behind all the others.
LEMMA PipelineAppend ==
  ASSUME NEW x \in Nat, NEW d \in Seq(Nat), NEW h \in Seq(Nat), NEW q \in Seq(Nat)
  PROVE  d \o h \o Append(q, x) = Append(d \o h \o q, x)
  BY QP!PipelineAppend, NilAssumption, BoundsAssumption, ZenonT(60)

\* Message n + 1 comes after the messages 1 to n.
LEMMA NumbersAppend ==
  ASSUME NEW n \in Nat PROVE Append([i \in 1..n |-> i], n + 1) = [i \in 1..(n + 1) |-> i]
  BY QP!NumbersAppend, NilAssumption, BoundsAssumption

\* A poll takes the head of the queue into an empty hand.
LEMMA PipelineTake ==
  ASSUME NEW d \in Seq(Nat), NEW q \in Seq(Nat), q # <<>>
  PROVE  Head(q) \in Nat /\ Tail(q) \in Seq(Nat) /\ d \o <<Head(q)>> \o Tail(q) = d \o <<>> \o q
  BY QP!PipelineTake, NilAssumption, BoundsAssumption, Zenon

\* The message in the hand is used.
LEMMA PipelineUse ==
  ASSUME NEW d \in Seq(Nat), NEW x \in Nat, NEW q \in Seq(Nat)
  PROVE  Append(d, x) \in Seq(Nat) /\ Append(d, x) \o <<>> \o q = d \o <<x>> \o q
  BY QP!PipelineUse, NilAssumption, BoundsAssumption, ZenonT(60)

\* prepend puts it back.
LEMMA PipelineGiveBack ==
  ASSUME NEW d \in Seq(Nat), NEW x \in Nat, NEW q \in Seq(Nat)
  PROVE  <<x>> \o q \in Seq(Nat) /\ d \o <<>> \o (<<x>> \o q) = d \o <<x>> \o q
  BY QP!PipelineGiveBack, NilAssumption, BoundsAssumption, ZenonT(60)

-----------------------------------------------------------------------------
(* Types *)

\* A step of a poll, a wake-up and a call keep the types of the write queue.
LEMMA WriteQueueType ==
  ASSUME WQ!QueueTypeOK(Nat),
         \/ WQ!PollStep(connCtx) \/ WQ!Signal \/ WQ!UnblockPoll \/ WQ!PollCall
         \/ UNCHANGED wVars
  PROVE  WQ!QueueTypeOK(Nat)'
  <1> USE DEF WQ!QueueTypeOK, WQ!PollStates, wVars
  <1>1. CASE WQ!PollTake
    <2>1. Head(wqueue) \in Nat /\ Tail(wqueue) \in Seq(Nat)
      BY <1>1 DEF WQ!PollTake
    <2> QED
      BY <1>1, <2>1 DEF WQ!PollTake
  <1>2. CASE WQ!PollCheck(connCtx) \/ WQ!PollWait \/ WQ!PollWakeUp(connCtx)
    BY <1>2 DEF WQ!PollCheck, WQ!PollWait, WQ!PollWakeUp
  <1>3. CASE WQ!Signal \/ WQ!UnblockPoll \/ WQ!PollCall
    BY <1>3 DEF WQ!Signal, WQ!UnblockPoll, WQ!PollCall, WQ!Wake
  <1> QED
    BY <1>1, <1>2, <1>3 DEF WQ!PollStep

\* The same for the read queue.
LEMMA ReadQueueType ==
  ASSUME RQ!QueueTypeOK(Nat),
         \/ RQ!PollStep(ctxDone) \/ RQ!Signal \/ RQ!UnblockPoll \/ RQ!PollCall
         \/ UNCHANGED rVars
  PROVE  RQ!QueueTypeOK(Nat)'
  <1> USE DEF RQ!QueueTypeOK, RQ!PollStates, rVars
  <1>1. CASE RQ!PollTake
    <2>1. Head(rqueue) \in Nat /\ Tail(rqueue) \in Seq(Nat)
      BY <1>1 DEF RQ!PollTake
    <2> QED
      BY <1>1, <2>1 DEF RQ!PollTake
  <1>2. CASE RQ!PollCheck(ctxDone) \/ RQ!PollWait \/ RQ!PollWakeUp(ctxDone)
    BY <1>2 DEF RQ!PollCheck, RQ!PollWait, RQ!PollWakeUp
  <1>3. CASE RQ!Signal \/ RQ!UnblockPoll \/ RQ!PollCall
    BY <1>3, SMTT(30) DEF RQ!Signal, RQ!UnblockPoll, RQ!PollCall, RQ!Wake
  <1> QED
    BY <1>1, <1>2, <1>3 DEF RQ!PollStep

\* Every step of the goroutines keeps the types: the errors channel is never
\* over its capacity.
LEMMA BaseNextTypeOK == ASSUME BaseTypeOK, BaseNext PROVE BaseTypeOK'
  <1> DEFINE QueuesOK == WQ!QueueTypeOK(Nat) /\ RQ!QueueTypeOK(Nat)
             FlagsOK == ctxDone \in BOOLEAN /\ errsOpen \in BOOLEAN /\ connCtx \in BOOLEAN
             RestOK == /\ errs \in 0..ErrCap /\ errLoop \in {"none", "run", "done"}
                       /\ conn \in ConnStates
                       /\ closer \in {"done", "select", "unblock", "close"}
                       /\ writer \in {"done", "poll", "errTransient", "errFatal"}
                       /\ reader \in {"done", "read", "signal", "errTransient", "errFatal", "checkCtx"}
                       /\ nOut \in Nat /\ nIn \in Nat
                       /\ written \in Seq(Nat) /\ accepted \in Seq(Nat)
  <1>0. QueuesOK /\ FlagsOK /\ RestOK
    BY DEF BaseTypeOK
  <1> SUFFICES QueuesOK' /\ FlagsOK' /\ RestOK'
    BY DEF BaseTypeOK
  <1>1. FlagsOK'
    <2>1. /\ ctxDone' \in {ctxDone, TRUE} /\ errsOpen' \in {errsOpen, FALSE} /\ connCtx' \in {connCtx, TRUE}
      <3>1. CASE Closer
        BY <3>1, Zenon DEF Closer, CloserSelect, CloserUnblock, CloserClose, errVars
      <3>2. CASE Writer
        BY <3>2 DEF Writer
      <3>3. CASE Reader
        BY <3>3, Zenon DEF Reader, ReadSucceeds, ReaderSignals, ReadFails, ReaderSendsTransient, ReaderGoesOn, ReaderQuits
      <3>4. CASE ServiceLoops \/ ServiceWrites
        BY <3>4, Zenon DEF ServiceLoops, ServiceWrites
      <3>5. CASE Cleanup \/ Environment
        BY <3>5, Zenon DEF Cleanup, CleanupUnblocks, CleanupClosesErrors, Environment, errVars
      <3> QED
        BY <3>1, <3>2, <3>3, <3>4, <3>5, Zenon DEF BaseNext
    <2> QED
      BY <1>0, <2>1, ZenonT(60)
  <1> HIDE DEF FlagsOK
  <1>2. CASE Closer
    <2>1. QueuesOK'
      BY <1>0, <1>2, WriteQueueType, ReadQueueType DEF Closer, CloserSelect, CloserUnblock, CloserClose
    <2>2. RestOK'
      BY <1>0, <1>2, ZenonT(60) DEF Closer, CloserSelect, CloserUnblock, CloserClose, errVars, histVars, ConnStates
    <2> QED
      BY <1>1, <2>1, <2>2
  <1>3. CASE Writer
    <2>1. RQ!QueueTypeOK(Nat)'
      BY <1>0, <1>3, ReadQueueType, ZenonT(60) DEF Writer
    <2>2. CASE WriterPolls
      BY <1>0, <1>1, <1>3, <2>1, <2>2, WriteQueueType, ZenonT(60) DEF WriterPolls, Writer
    <2>3. CASE WriterQuits
      BY <1>0, <1>1, <1>3, <2>1, <2>3, ZenonT(60) DEF WriterQuits, Writer, WQ!QueueTypeOK, WQ!PollStates
    <2>4. CASE WriteSucceeds
      <3>1. wret \in Nat
        BY <1>0, <2>4, ZenonT(60) DEF WriteSucceeds, Writing, WQ!QueueTypeOK
      <3>2. written' \in Seq(Nat)
        BY <1>0, <2>4, <3>1 DEF WriteSucceeds
      <3>3. WQ!QueueTypeOK(Nat)'
        BY <1>0, <2>4, WriteQueueType, ZenonT(60) DEF WriteSucceeds
      <3> QED
        BY <1>0, <1>1, <1>3, <2>1, <2>4, <3>2, <3>3, ZenonT(60) DEF WriteSucceeds, Writer
    <2>5. CASE WriteFails
      <3>1. wret \in Nat /\ wqueue \in Seq(Nat)
        BY <1>0, <2>5 DEF WriteFails, Writing, WQ!QueueTypeOK
      <3>2. wqueue' \in Seq(Nat)
        BY <2>5, <3>1, SMTT(30) DEF WriteFails, WQ!PrependMsg
      <3>3. WQ!QueueTypeOK(Nat)'
        BY <1>0, <2>5, <3>2, Zenon DEF WriteFails, WQ!PrependMsg, WQ!QueueTypeOK, WQ!PollStates
      <3>4. writer' \in {"done", "poll", "errTransient", "errFatal"}
        BY <2>5 DEF WriteFails, WriteErrors
      <3> QED
        BY <1>0, <1>1, <1>3, <2>1, <2>5, <3>3, <3>4, ZenonT(60) DEF WriteFails, Writer
    <2>6. CASE WriterSendsError
      <3>1. WQ!QueueTypeOK(Nat)'
        BY <1>0, <2>6, WriteQueueType, Zenon DEF WriterSendsError
      <3>2. errs' \in 0..ErrCap
        BY <1>0, <2>6, Numbers, SMTT(30) DEF WriterSendsError, SendError
      <3> QED
        BY <1>0, <1>1, <1>3, <2>1, <2>6, <3>1, <3>2, Zenon DEF WriterSendsError, Writer
    <2> QED
      BY <1>3, <2>2, <2>3, <2>4, <2>5, <2>6, ZenonT(60) DEF Writer
  <1>4. CASE Reader
    <2>1. WQ!QueueTypeOK(Nat)'
      BY <1>0, <1>4, WriteQueueType, Zenon DEF Reader
    <2>2. CASE ReadSucceeds
      <3>1. rqueue' \in Seq(Nat) /\ nIn' \in Nat
        BY <1>0, <2>2 DEF ReadSucceeds, RQ!AppendMsg, RQ!QueueTypeOK
      <3>2. RQ!QueueTypeOK(Nat)'
        BY <1>0, <2>2, <3>1, SMTT(30) DEF ReadSucceeds, RQ!AppendMsg, RQ!QueueTypeOK
      <3> QED
        BY <1>0, <1>1, <1>4, <2>1, <2>2, <3>1, <3>2, Zenon DEF ReadSucceeds, Reader
    <2>3. CASE ~ReadSucceeds
      <3>1. RQ!QueueTypeOK(Nat)'
        BY <1>0, <1>4, <2>3, ReadQueueType, Zenon DEF Reader, ReaderSignals, ReadFails, ReaderSendsTransient, ReaderGoesOn,
                                               ReaderQuits
      <3>2. errs' \in 0..ErrCap
        BY <1>0, <1>4, <2>3, Numbers, SMTT(30) DEF Reader, ReaderSignals, ReadFails, ReaderSendsTransient, ReaderGoesOn,
                                         ReaderQuits, SendError
      <3> QED
        BY <1>0, <1>1, <1>4, <2>1, <2>3, <3>1, <3>2, ZenonT(60) DEF Reader, ReaderSignals, ReadFails, ReaderSendsTransient,
                                                       ReaderGoesOn, ReaderQuits
    <2> QED
      BY <2>2, <2>3
  <1>5. CASE ServiceLoops
    <2>1. QueuesOK'
      BY <1>0, <1>5, WriteQueueType, ReadQueueType, Zenon
         DEF ServiceLoops, WriteMessageSignals, ReadLoopPolls, ReadLoopAccepts, ErrorLoopTakes, ErrorLoopQuits
    <2>2. accepted' \in Seq(Nat)
      <3>1. CASE ReadLoopAccepts
        <4>1. rret \in Nat
          BY <1>0, <3>1, ZenonT(60) DEF ReadLoopAccepts, RQ!QueueTypeOK
        <4> QED
          BY <1>0, <3>1, <4>1 DEF ReadLoopAccepts
      <3>2. CASE ~ReadLoopAccepts
        BY <1>0, <1>5, <3>2, ZenonT(60) DEF ServiceLoops, WriteMessageSignals, ReadLoopPolls, ErrorLoopTakes, ErrorLoopQuits
      <3> QED
        BY <3>1, <3>2
    <2>3. errs' \in 0..ErrCap
      BY <1>0, <1>5, Numbers, SMTT(30) DEF ServiceLoops, WriteMessageSignals, ReadLoopPolls, ReadLoopAccepts, ErrorLoopTakes,
                                 ErrorLoopQuits
    <2>4. nOut' = nOut /\ errLoop' \in {errLoop, "done"}
      BY <1>5, Zenon DEF ServiceLoops, WriteMessageSignals, ReadLoopPolls, ReadLoopAccepts, ErrorLoopTakes, ErrorLoopQuits
    <2> QED
      BY <1>0, <1>1, <1>5, <2>1, <2>2, <2>3, <2>4, Zenon DEF ServiceLoops, goVars
  <1>6. CASE ServiceWrites
    <2>1. wqueue' \in Seq(Nat) /\ nOut' \in Nat
      BY <1>0, <1>6, SMTT(30) DEF ServiceWrites, WriteMessage, WQ!AppendMsg, WQ!QueueTypeOK
    <2>2. WQ!QueueTypeOK(Nat)'
      BY <1>0, <1>6, <2>1, SMTT(30) DEF ServiceWrites, WriteMessage, WQ!AppendMsg, WQ!QueueTypeOK
    <2>3. RQ!QueueTypeOK(Nat)'
      BY <1>0, <1>6, ReadQueueType, Zenon DEF ServiceWrites, WriteMessage
    <2> QED
      BY <1>0, <1>1, <1>6, <2>1, <2>2, <2>3, ZenonT(60) DEF ServiceWrites, WriteMessage, goVars
  <1>7. CASE Cleanup
    <2>1. QueuesOK'
      BY <1>0, <1>7, WriteQueueType, ReadQueueType, Zenon DEF Cleanup, CleanupUnblocks, CleanupClosesErrors
    <2> QED
      BY <1>0, <1>1, <1>7, <2>1, ZenonT(60) DEF Cleanup, goVars, histVars
  <1>8. CASE Environment
    <2>1. QueuesOK'
      BY <1>0, <1>8, WriteQueueType, ReadQueueType, ZenonT(60) DEF Environment
    <2> QED
      BY <1>0, <1>1, <1>8, <2>1, ZenonT(60) DEF Environment, errVars, goVars, histVars, ConnStates
  <1> QED
    BY <1>2, <1>3, <1>4, <1>5, <1>6, <1>7, <1>8, ZenonT(60) DEF BaseNext

-----------------------------------------------------------------------------
(* The goroutines and their net.Conn *)

\* No goroutine of consumeConnection moves once the owner went on, and none ends
\* with a message in hand.
LEMMA BaseNextControl == ASSUME BaseTypeOK, Control, BaseNext PROVE Control'
  <1> USE DEF Control, OneConnAtATime, Consuming, ClosedWhenDone, ErrsClosedLast, PolledByOne
  <1>1. CASE Closer
    BY <1>1 DEF Closer, CloserSelect, CloserUnblock, CloserClose, WQ!UnblockPoll, WQ!Wake, errVars, wVars, rVars
  <1>2. CASE Writer
    <2>1. CASE WriterPolls
      BY <1>2, <2>1 DEF Writer, WriterPolls, rVars
    <2>2. CASE WriterQuits
      BY <1>2, <2>2 DEF Writer, WriterQuits, rVars
    <2>3. CASE WriteSucceeds
      BY <1>2, <2>3 DEF Writer, WriteSucceeds, Writing, rVars
    <2>4. CASE WriteFails
      BY <1>2, <2>4, ZenonT(60) DEF Writer, WriteFails, Writing, rVars
    <2>5. CASE WriterSendsError
      BY <1>2, <2>5 DEF Writer, WriterSendsError, wVars, rVars
    <2> QED
      BY <1>2, <2>1, <2>2, <2>3, <2>4, <2>5, ZenonT(60) DEF Writer
  <1>3. CASE Reader
    <2>1. reader # "done" /\ (rpoll = "idle" => rpoll' = "idle")
      BY <1>3 DEF Reader, ReadSucceeds, ReaderSignals, ReadFails, ReaderSendsTransient, ReaderGoesOn, ReaderQuits,
                  RQ!AppendMsg, RQ!Signal, RQ!Wake, rVars
    <2> QED
      BY <1>3, <2>1 DEF Reader, wVars
  <1>4. CASE ServiceLoops \/ ServiceWrites
    <2>1. /\ wpoll = "idle" => wpoll' = "idle"
          /\ errLoop' = "none" => errLoop = "none"
          /\ rpoll = "idle" => rpoll' = "idle"
      <3>1. CASE WriteMessageSignals \/ ErrorLoopTakes \/ ErrorLoopQuits \/ WriteMessage
        BY <3>1 DEF WriteMessageSignals, ErrorLoopTakes, ErrorLoopQuits, WriteMessage, WQ!AppendMsg, WQ!Signal, WQ!Wake,
                    wVars, rVars
      <3>2. CASE ReadLoopPolls \/ ReadLoopAccepts
        BY <3>2 DEF ReadLoopPolls, ReadLoopAccepts, RQ!PollStep, RQ!PollCheck, RQ!PollTake, RQ!PollWait, RQ!PollWakeUp,
                    wVars
      <3> QED
        BY <1>4, <3>1, <3>2, ZenonT(60) DEF ServiceLoops, ServiceWrites
    <2> QED
      BY <1>4, <2>1 DEF ServiceLoops, ServiceWrites, goVars
  <1>5. CASE Cleanup
    BY <1>5 DEF Cleanup, CleanupUnblocks, CleanupClosesErrors, WQ!UnblockPoll, RQ!UnblockPoll, WQ!Wake, RQ!Wake,
                goVars, wVars, rVars
  <1>6. CASE Environment
    BY <1>6 DEF Environment, errVars, goVars, wVars, rVars
  <1> QED
    BY <1>1, <1>2, <1>3, <1>4, <1>5, <1>6, ZenonT(60) DEF BaseNext

-----------------------------------------------------------------------------
(* The order of messages *)

\* Every step keeps the outbound messages in their order.
LEMMA BaseNextOutbound == ASSUME BaseTypeOK, PolledByOne, OutboundInOrder, BaseNext PROVE OutboundInOrder'
  <1>0. /\ wqueue \in Seq(Nat) /\ written \in Seq(Nat) /\ wret \in Nat \cup {Nil} /\ nOut \in Nat
        /\ WHand \in Seq(Nat)
    BY DEF BaseTypeOK, WQ!QueueTypeOK, WHand, InHand
  <1> DEFINE Whole == written \o WHand \o wqueue
  <1>a. Whole = [i \in 1..nOut |-> i]
    BY DEF OutboundInOrder, WHand
  <1>b. SUFFICES Whole' = [i \in 1..nOut' |-> i]
    BY DEF OutboundInOrder, WHand
  <1>1. ASSUME UNCHANGED <<written, wqueue, wret, nOut>>,
               (wpoll = "returned" <=> wpoll' = "returned") \/ wret = Nil
        PROVE  Whole' = [i \in 1..nOut' |-> i]
    BY <1>a, <1>1, Zenon DEF WHand, InHand
  <1>2. CASE Closer
    BY <1>1, <1>2 DEF Closer, CloserSelect, CloserUnblock, CloserClose, WQ!UnblockPoll, WQ!Wake, wVars, histVars
  <1>3. CASE Writer
    <2>1. CASE WriterPolls
      <3>1. CASE WQ!PollTake
        <4>1. Head(wqueue) \in Nat /\ written \o <<Head(wqueue)>> \o Tail(wqueue) = written \o <<>> \o wqueue
          BY <1>0, <3>1, PipelineTake, ZenonT(60) DEF WQ!PollTake
        <4>2. WHand = <<>> /\ WHand' = <<Head(wqueue)>>
          BY <3>1, <4>1, NilAssumption DEF WQ!PollTake, WHand, InHand
        <4> QED
          BY <1>a, <1>3, <2>1, <3>1, <4>1, <4>2, Zenon DEF Writer, WriterPolls, WQ!PollTake
      <3>2. CASE WQ!PollCheck(connCtx) \/ WQ!PollWakeUp(connCtx)
        <4>1. WHand = <<>> /\ WHand' = <<>>
          BY <3>2 DEF WQ!PollCheck, WQ!PollWakeUp, WHand, InHand
        <4> QED
          BY <1>a, <1>3, <2>1, <3>2, <4>1 DEF Writer, WriterPolls, WQ!PollCheck, WQ!PollWakeUp
      <3>3. CASE WQ!PollWait
        <4>1. WHand = <<>> /\ WHand' = <<>>
          BY <3>3 DEF WQ!PollWait, WHand, InHand
        <4> QED
          BY <1>a, <1>3, <2>1, <3>3, <4>1, ZenonT(60) DEF Writer, WriterPolls, WQ!PollWait
      <3> QED
        BY <2>1, <3>1, <3>2, <3>3 DEF WriterPolls, WQ!PollStep
    <2>2. CASE WriterQuits
      BY <1>1, <1>3, <2>2 DEF Writer, WriterQuits
    <2>3. CASE WriteSucceeds
      <3>1. wret \in Nat /\ WHand = <<wret>> /\ WHand' = <<>>
        BY <1>0, <2>3 DEF WriteSucceeds, Writing, WQ!PollCall, WHand, InHand
      <3> QED
        BY <1>0, <1>a, <1>3, <2>3, <3>1, PipelineUse, ZenonT(60) DEF Writer, WriteSucceeds, WQ!PollCall
    <2>4. CASE WriteFails
      <3>1. wret \in Nat /\ WHand = <<wret>> /\ WHand' = <<>>
        BY <1>0, <2>4 DEF WriteFails, Writing, WHand, InHand
      <3> QED
        BY <1>0, <1>a, <1>3, <2>4, <3>1, PipelineGiveBack, ZenonT(60) DEF Writer, WriteFails, WQ!PrependMsg
    <2>5. CASE WriterSendsError
      BY <1>1, <1>3, <2>5 DEF Writer, WriterSendsError, PolledByOne, WQ!PollCall, wVars
    <2> QED
      BY <1>3, <2>1, <2>2, <2>3, <2>4, <2>5 DEF Writer
  <1>4. CASE Reader
    BY <1>1, <1>4 DEF Reader, wVars
  <1>5. CASE ServiceLoops
    BY <1>1, <1>5 DEF ServiceLoops, WriteMessageSignals, ReadLoopPolls, ReadLoopAccepts, ErrorLoopTakes,
                      ErrorLoopQuits, WQ!Signal, WQ!Wake, wVars
  <1>6. CASE ServiceWrites
    <2>1. WHand' = WHand /\ written' = written /\ wqueue' = Append(wqueue, nOut + 1) /\ nOut' = nOut + 1
      BY <1>6 DEF ServiceWrites, WriteMessage, WQ!AppendMsg, WHand, InHand
    <2>2. \A x \in Nat : written \o WHand \o Append(wqueue, x) = Append(Whole, x)
      BY <1>0, PipelineAppend, ZenonT(60)
    <2>3. written \o WHand \o Append(wqueue, nOut + 1) = Append(Whole, nOut + 1)
      BY <1>0, <2>2, SMTT(30)
    <2>4. Append([i \in 1..nOut |-> i], nOut + 1) = [i \in 1..(nOut + 1) |-> i]
      BY <1>0, NumbersAppend
    <2> QED
      BY <1>a, <2>1, <2>3, <2>4, ZenonT(60)
  <1>7. CASE Cleanup \/ Environment
    BY <1>1, <1>7 DEF Cleanup, CleanupUnblocks, CleanupClosesErrors, Environment, WQ!UnblockPoll, WQ!Wake, wVars, histVars
  <1> QED
    BY <1>2, <1>3, <1>4, <1>5, <1>6, <1>7, ZenonT(60) DEF BaseNext

\* Every step keeps the inbound messages in their order.
LEMMA BaseNextInbound == ASSUME BaseTypeOK, InboundInOrder, BaseNext PROVE InboundInOrder'
  <1>0. /\ rqueue \in Seq(Nat) /\ accepted \in Seq(Nat) /\ rret \in Nat \cup {Nil} /\ nIn \in Nat
        /\ RHand \in Seq(Nat)
    BY DEF BaseTypeOK, RQ!QueueTypeOK, RHand, InHand
  <1> DEFINE Whole == accepted \o RHand \o rqueue
  <1>a. Whole = [i \in 1..nIn |-> i]
    BY DEF InboundInOrder, RHand
  <1>b. SUFFICES Whole' = [i \in 1..nIn' |-> i]
    BY DEF InboundInOrder, RHand
  <1>1. ASSUME UNCHANGED <<accepted, rqueue, rret, nIn>>,
               (rpoll = "returned" <=> rpoll' = "returned") \/ rret = Nil
        PROVE  Whole' = [i \in 1..nIn' |-> i]
    BY <1>a, <1>1, Zenon DEF RHand, InHand
  <1>2. CASE Closer \/ Writer
    BY <1>1, <1>2 DEF Closer, Writer, rVars, histVars
  <1>3. CASE Reader
    <2>1. CASE ReadSucceeds
      <3>1. RHand' = RHand /\ accepted' = accepted /\ rqueue' = Append(rqueue, nIn + 1) /\ nIn' = nIn + 1
        BY <1>3, <2>1 DEF Reader, ReadSucceeds, RQ!AppendMsg, RHand, InHand
      <3>2. \A x \in Nat : accepted \o RHand \o Append(rqueue, x) = Append(Whole, x)
        BY <1>0, PipelineAppend, ZenonT(60)
      <3>3. accepted \o RHand \o Append(rqueue, nIn + 1) = Append(Whole, nIn + 1)
        BY <1>0, <3>2, SMTT(30)
      <3>4. Append([i \in 1..nIn |-> i], nIn + 1) = [i \in 1..(nIn + 1) |-> i]
        BY <1>0, NumbersAppend
      <3> QED
        BY <1>a, <3>1, <3>3, <3>4, Zenon
    <2>2. CASE ~ReadSucceeds
      BY <1>1, <1>3, <2>2, ZenonT(60) DEF Reader, ReaderSignals, ReadFails, ReaderSendsTransient, ReaderGoesOn, ReaderQuits,
                              RQ!Signal, RQ!Wake, rVars
    <2> QED
      BY <2>1, <2>2
  <1>4. CASE ServiceLoops
    <2>1. CASE WriteMessageSignals \/ ErrorLoopTakes \/ ErrorLoopQuits
      BY <1>1, <1>4, <2>1 DEF ServiceLoops, WriteMessageSignals, ErrorLoopTakes, ErrorLoopQuits, rVars
    <2>2. CASE ReadLoopPolls
      <3>1. CASE RQ!PollTake
        <4>1. Head(rqueue) \in Nat /\ accepted \o <<Head(rqueue)>> \o Tail(rqueue) = accepted \o <<>> \o rqueue
          BY <1>0, <3>1, PipelineTake, Zenon DEF RQ!PollTake
        <4>2. RHand = <<>> /\ RHand' = <<Head(rqueue)>>
          BY <3>1, <4>1, NilAssumption DEF RQ!PollTake, RHand, InHand
        <4> QED
          BY <1>a, <1>4, <2>2, <3>1, <4>1, <4>2, Zenon DEF ServiceLoops, ReadLoopPolls, RQ!PollTake
      <3>2. CASE RQ!PollCheck(ctxDone) \/ RQ!PollWakeUp(ctxDone)
        <4>1. RHand = <<>> /\ RHand' = <<>>
          BY <3>2, ZenonT(60) DEF RQ!PollCheck, RQ!PollWakeUp, RHand, InHand
        <4> QED
          BY <1>a, <1>4, <2>2, <3>2, <4>1, ZenonT(60) DEF ServiceLoops, ReadLoopPolls, RQ!PollCheck, RQ!PollWakeUp
      <3>3. CASE RQ!PollWait
        <4>1. RHand = <<>> /\ RHand' = <<>>
          BY <3>3 DEF RQ!PollWait, RHand, InHand
        <4> QED
          BY <1>a, <1>4, <2>2, <3>3, <4>1, ZenonT(60) DEF ServiceLoops, ReadLoopPolls, RQ!PollWait
      <3> QED
        BY <2>2, <3>1, <3>2, <3>3, ZenonT(60) DEF ReadLoopPolls, RQ!PollStep
    <2>3. CASE ReadLoopAccepts
      <3>1. rret \in Nat /\ RHand = <<rret>> /\ RHand' = <<>>
        BY <1>0, <2>3 DEF ReadLoopAccepts, RQ!PollCall, RHand, InHand
      <3> QED
        BY <1>0, <1>a, <1>4, <2>3, <3>1, PipelineUse, ZenonT(60) DEF ServiceLoops, ReadLoopAccepts, RQ!PollCall
    <2> QED
      BY <1>4, <2>1, <2>2, <2>3, ZenonT(60) DEF ServiceLoops
  <1>5. CASE ServiceWrites
    BY <1>1, <1>5 DEF ServiceWrites, WriteMessage, rVars
  <1>6. CASE Cleanup \/ Environment
    BY <1>1, <1>6 DEF Cleanup, CleanupUnblocks, CleanupClosesErrors, Environment, RQ!UnblockPoll, RQ!Wake, rVars, histVars
  <1> QED
    BY <1>2, <1>3, <1>4, <1>5, <1>6, ZenonT(60) DEF BaseNext

-----------------------------------------------------------------------------
(* What the owners rely on *)

\* A step of the goroutines, the service, cleanup or the environment
LEMMA BaseNextInv == ASSUME BaseInv, BaseNext PROVE BaseInv'
  BY BaseNextTypeOK, BaseNextControl, BaseNextOutbound, BaseNextInbound, ZenonT(60) DEF BaseInv, Control

\* Nothing happens
LEMMA BaseStutters == ASSUME BaseInv, UNCHANGED baseVars PROVE BaseInv'
  <1> USE DEF BaseInv, baseVars, wVars, rVars, errVars, goVars, histVars
  <1>1. BaseTypeOK'
    BY DEF BaseTypeOK, WQ!QueueTypeOK, RQ!QueueTypeOK
  <1>2. Control'
    BY ZenonT(60) DEF Control, OneConnAtATime, Consuming, ClosedWhenDone, ErrsClosedLast, PolledByOne
  <1>3. OutboundInOrder' /\ InboundInOrder'
    BY Zenon DEF OutboundInOrder, InboundInOrder, InHand
  <1> QED
    BY <1>1, <1>2, <1>3, ZenonT(60)

\* newClientTcpConnection, newServerTcpConnection
LEMMA BaseInitInv == ASSUME BaseInit, owner # "consume" PROVE BaseInv
  <1>1. ctxDone \in BOOLEAN /\ errsOpen \in BOOLEAN /\ connCtx \in BOOLEAN /\ errsOpen
    BY Zenon DEF BaseInit
  <1>2. BaseTypeOK
    BY <1>1, Numbers DEF BaseInit, BaseTypeOK, WQ!QueueInit, RQ!QueueInit, WQ!QueueTypeOK, RQ!QueueTypeOK,
                         WQ!PollStates, RQ!PollStates, ConnStates
  <1>3. Control
    BY <1>1 DEF BaseInit, WQ!QueueInit, RQ!QueueInit, Control, OneConnAtATime, Consuming, ClosedWhenDone,
                ErrsClosedLast, PolledByOne
  <1>4. <<>> \o <<>> \o <<>> = [i \in 1..0 |-> i]
    OBVIOUS
  <1>5. OutboundInOrder
    <2>1. written = <<>> /\ wqueue = <<>> /\ nOut = 0 /\ InHand(wpoll, wret) = <<>>
      BY DEF BaseInit, WQ!QueueInit, InHand
    <2> QED
      BY <1>4, <2>1, ZenonT(60) DEF OutboundInOrder
  <1>6. InboundInOrder
    <2>1. accepted = <<>> /\ rqueue = <<>> /\ nIn = 0 /\ InHand(rpoll, rret) = <<>>
      BY DEF BaseInit, RQ!QueueInit, InHand
    <2> QED
      BY <1>4, <2>1, ZenonT(60) DEF InboundInOrder
  <1> QED
    BY <1>2, <1>3, <1>5, <1>6 DEF BaseInv

\* The read queue when the service starts to poll it, or is left alone
LEMMA ServiceStartsInbound ==
  ASSUME BaseInv, UNCHANGED <<accepted, nIn>>,
         UNCHANGED <<errLoop, rVars>> \/ (errLoop = "none" /\ ServiceStarts)
  PROVE  /\ InboundInOrder' /\ RQ!QueueTypeOK(Nat)' /\ errLoop' \in {"none", "run", "done"}
         /\ errLoop' = "none" => rpoll' = "idle"
  <1>1. RQ!QueueTypeOK(Nat) /\ errLoop \in {"none", "run", "done"} /\ (errLoop = "none" => rpoll = "idle")
    BY DEF BaseInv, BaseTypeOK, Control, PolledByOne
  <1>2. RQ!QueueTypeOK(Nat)'
    BY <1>1, ReadQueueType, ZenonT(60) DEF ServiceStarts
  <1>3. InboundInOrder'
    BY <1>1, ZenonT(60) DEF BaseInv, InboundInOrder, InHand, ServiceStarts, RQ!PollCall, rVars
  <1> QED
    BY <1>1, <1>2, <1>3, ZenonT(60) DEF ServiceStarts, rVars

\* The owner calls consumeConnection: the goroutines of the last one have ended,
\* so that the new writer starts with empty hands.
LEMMA ConsumeStartsInv ==
  ASSUME BaseInv, owner \notin {"consume", "closed", "exited"}, ConsumeStarts,
         UNCHANGED <<ctxDone, errs, errsOpen, histVars>>,
         UNCHANGED <<errLoop, rVars>> \/ (errLoop = "none" /\ ServiceStarts)
  PROVE  BaseInv'
  <1>1. BaseTypeOK /\ wpoll = "idle" /\ errsOpen
    BY DEF BaseInv, Control, OneConnAtATime, Consuming, PolledByOne, ErrsClosedLast
  <1>2. /\ InboundInOrder' /\ RQ!QueueTypeOK(Nat)' /\ errLoop' \in {"none", "run", "done"}
        /\ errLoop' = "none" => rpoll' = "idle"
    BY ServiceStartsInbound DEF histVars
  <1>3. WQ!QueueTypeOK(Nat)'
    BY <1>1, WriteQueueType DEF BaseTypeOK, ConsumeStarts
  <1>4. connCtx' \in BOOLEAN
    BY ZenonT(60) DEF ConsumeStarts
  <1>5. BaseTypeOK'
    BY <1>1, <1>2, <1>3, <1>4, ZenonT(60) DEF BaseTypeOK, ConsumeStarts, ConnStates, histVars
  <1>6. OutboundInOrder'
    BY <1>1, ZenonT(60) DEF BaseInv, OutboundInOrder, InHand, ConsumeStarts, WQ!PollCall, histVars
  <1>7. Control'
    BY <1>1, <1>2, ZenonT(60) DEF Control, OneConnAtATime, ClosedWhenDone, ErrsClosedLast, PolledByOne, ConsumeStarts
  <1> QED
    BY <1>2, <1>5, <1>6, <1>7 DEF BaseInv

\* The owner goes from one thing to another, and is not in consumeConnection.
LEMMA OwnerMovesInv ==
  ASSUME BaseInv, owner = "consume" => ConsumeReturns, owner' # "consume",
         owner \in {"closed", "exited"} => owner' \in {"closed", "exited"},
         errs' \in 0..ErrCap,
         UNCHANGED <<ctxDone, wVars, errsOpen, conn, connCtx, goVars, histVars>>,
         UNCHANGED <<errLoop, rVars>> \/ (errLoop = "none" /\ ServiceStarts)
  PROVE  BaseInv'
  <1> USE DEF goVars, histVars, wVars
  <1>1. /\ InboundInOrder' /\ RQ!QueueTypeOK(Nat)' /\ errLoop' \in {"none", "run", "done"}
        /\ errLoop' = "none" => rpoll' = "idle"
    BY ServiceStartsInbound, ZenonT(60)
  <1>2. BaseTypeOK'
    <2>1. WQ!QueueTypeOK(Nat)'
      BY WriteQueueType, Zenon DEF BaseInv, BaseTypeOK
    <2> QED
      BY <1>1, <2>1, ZenonT(60) DEF BaseInv, BaseTypeOK
  <1>3. OutboundInOrder'
    BY Zenon DEF BaseInv, OutboundInOrder, InHand
  <1>4. Control'
    BY <1>1 DEF BaseInv, Control, OneConnAtATime, Consuming, ConsumeReturns, ClosedWhenDone, ErrsClosedLast, PolledByOne
  <1> QED
    BY <1>1, <1>2, <1>3, <1>4, ZenonT(60) DEF BaseInv

\* The errors channel is open while somebody may send on it.
LEMMA BaseInvSafe == BaseInv => NoSendOnClosedErrors /\ OneConnAtATime /\ OutboundInOrder /\ InboundInOrder
  BY DEF BaseInv, Control, ErrsClosedLast, OneConnAtATime, NoSendOnClosedErrors
=============================================================================
