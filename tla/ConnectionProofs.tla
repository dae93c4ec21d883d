-------------------------- MODULE ConnectionProofs --------------------------
(***************************************************************************)
(* The safety properties of a clientTcpConnection and of a                 *)
(* serverTcpConnection, for every capacity of the errors channel, numbers  *)
(* of retries and of messages.  A theorem about the one says nothing of    *)
(* the variables of the other.                                             *)
(***************************************************************************)
EXTENDS ClientConnection, ServerConnection, BaseConnectionProofs

\* The other goroutines leave the owner alone, but for cleanup, which is a part of
\* it, and do not start the service.
LEMMA BaseNextOwner ==
  ASSUME BaseNext
  PROVE  /\ \/ owner' = owner
            \/ owner = "cleanup" /\ owner' = "closeErrs"
            \/ owner = "closeErrs" /\ owner' = "closed"
         /\ (errLoop = "none") <=> (errLoop' = "none")
  <1>1. \/ owner' = owner
        \/ owner = "cleanup" /\ owner' = "closeErrs"
        \/ owner = "closeErrs" /\ owner' = "closed"
    BY DEF BaseNext, Closer, Writer, Reader, ServiceLoops, ServiceWrites, Cleanup, CleanupUnblocks, CleanupClosesErrors,
           Environment
  <1>2. (errLoop = "none") <=> (errLoop' = "none")
    BY DEF BaseNext, Closer, Writer, Reader, ServiceLoops, WriteMessageSignals, ReadLoopPolls, ReadLoopAccepts,
           ErrorLoopTakes, ErrorLoopQuits, ServiceWrites, WriteMessage, Cleanup, Environment, errVars
  <1> QED
    BY <1>1, <1>2

-----------------------------------------------------------------------------
(* The two queues of a connection, whoever owns it *)

ReadPromise == INSTANCE BlockingFifo WITH
               Message <- 1..MaxIn,
               items <- rqueue,
               polling <- rpoll # "returned",
               result <- rret,
               closed <- ctxDone

\* No goroutine is parked in blockingPoll next to a message, unless the Signal of
\* its append is still to come: over all connections, and although messages are
\* given back to the write queue without waking anybody.
WakeupsComing ==
  /\ wpoll = "wait" /\ wqueue # <<>> => wsignals > 0
  /\ rpoll = "wait" /\ rqueue # <<>> => rsignals > 0

\* The writer ends its loop only if the context of its own connection is closed,
\* the read loop of the service only if t.ctx is: no nil of an earlier poll, and
\* no context of an earlier connection, ends a loop.
NilOnlyIfClosed ==
  /\ wpoll = "returned" /\ wret = Nil => connCtx
  /\ rpoll = "returned" /\ rret = Nil => ctxDone

\* What may happen to the write queue, the poll being in the context of the
\* connection, which is a new one only if the poll is
WriteQueueMoves ==
  /\ \/ \E m : WQ!AppendMsg(m)
     \/ WQ!Signal \/ WQ!PollStep(connCtx) \/ WQ!UnblockPoll \/ WQ!PollCall
     \/ wpoll' = "idle"
     \/ UNCHANGED wVars
  /\ connCtx => connCtx' \/ wpoll' = "check"

\* What may happen to the read queue and to t.ctx
ReadQueueMoves ==
  \/ /\ \/ \E m \in 1..MaxIn : RQ!AppendMsg(m)
        \/ RQ!Signal \/ RQ!PollStep(ctxDone) \/ RQ!UnblockPoll
        \/ RQ!PollCall /\ (rpoll = "idle" \/ rret # Nil)
        \/ UNCHANGED rVars
     /\ UNCHANGED ctxDone
  \/ ctxDone' = TRUE /\ UNCHANGED rVars

\* These are all the moves of the goroutines of a connection and of its service.
LEMMA BaseNextMoves ==
  ASSUME BaseTypeOK, BaseNext
  PROVE  WriteQueueMoves /\ ReadQueueMoves
  <1>1. CASE Closer
    BY <1>1 DEF Closer, CloserSelect, CloserUnblock, CloserClose, WriteQueueMoves, ReadQueueMoves
  <1>2. CASE Writer
    BY <1>2 DEF Writer, WriterPolls, WriterQuits, WriteSucceeds, WriteFails, WriterSendsError,
                WriteQueueMoves, ReadQueueMoves
  <1>3. CASE Reader
    <2>1. ReadQueueMoves
      <3>1. CASE ReadSucceeds
        <4>1. nIn + 1 \in 1..MaxIn
          BY <3>1, Numbers, SMTT(30) DEF ReadSucceeds, BaseTypeOK
        <4> QED
          BY <1>3, <3>1, <4>1, ZenonT(60) DEF Reader, ReadSucceeds, ReadQueueMoves
      <3>2. CASE ~ReadSucceeds
        BY <1>3, <3>2, Zenon DEF Reader, ReaderSignals, ReadFails, ReaderSendsTransient, ReaderGoesOn,
                          ReaderQuits, ReadQueueMoves
      <3> QED
        BY <3>1, <3>2
    <2>2. WriteQueueMoves
      BY <1>3, SMTT(30) DEF Reader, ReadSucceeds, ReaderSignals, ReadFails, ReaderSendsTransient, ReaderGoesOn,
                  ReaderQuits, WriteQueueMoves
    <2> QED
      BY <2>1, <2>2
  <1>4. CASE ServiceLoops \/ ServiceWrites
    BY <1>4 DEF ServiceLoops, ServiceWrites, WriteMessage, WriteMessageSignals, ReadLoopPolls,
                ReadLoopAccepts, ErrorLoopTakes, ErrorLoopQuits, WriteQueueMoves, ReadQueueMoves
  <1>5. CASE Cleanup \/ Environment
    BY <1>5 DEF Cleanup, CleanupUnblocks, CleanupClosesErrors, Environment, WriteQueueMoves, ReadQueueMoves
  <1> QED
    BY <1>1, <1>2, <1>3, <1>4, <1>5, ZenonT(60) DEF BaseNext

\* A new connection and its service: no poll starts with a message in hand.
LEMMA StartMoves ==
  ASSUME PolledByOne, ConsumeStarts \/ UNCHANGED <<wVars, connCtx>>,
         (errLoop = "none" /\ ServiceStarts) \/ UNCHANGED rVars, UNCHANGED ctxDone
  PROVE  WriteQueueMoves /\ ReadQueueMoves
  <1>1. WriteQueueMoves
    BY DEF ConsumeStarts, WriteQueueMoves, WQ!PollCall, wVars
  <1>2. ReadQueueMoves
    BY DEF ServiceStarts, ReadQueueMoves, PolledByOne
  <1> QED
    BY <1>1, <1>2, Zenon

\* No move of the write queue misses a message or a context.
LEMMA WriteQueueWakes ==
  ASSUME WQ!QueueTypeOK(Nat), connCtx \in BOOLEAN, WriteQueueMoves,
         wpoll = "wait" /\ wqueue # <<>> => wsignals > 0,
         wpoll = "returned" /\ wret = Nil => connCtx
  PROVE  /\ wpoll' = "wait" /\ wqueue' # <<>> => wsignals' > 0
         /\ wpoll' = "returned" /\ wret' = Nil => connCtx'
  <1> USE DEF WQ!QueueTypeOK, WQ!PollStates
  <1>0. connCtx => connCtx' \/ wpoll' = "check"
    BY DEF WriteQueueMoves
  <1>1. CASE \E m : WQ!AppendMsg(m)
    BY <1>0, <1>1, SMTT(30) DEF WQ!AppendMsg
  <1>2. CASE WQ!Signal \/ WQ!UnblockPoll \/ WQ!PollCall
    BY <1>0, <1>2, ZenonT(60) DEF WQ!Signal, WQ!UnblockPoll, WQ!PollCall, WQ!Wake
  <1>3. CASE WQ!PollCheck(connCtx) \/ WQ!PollWait \/ WQ!PollWakeUp(connCtx)
    BY <1>0, <1>3, ZenonT(60) DEF WQ!PollCheck, WQ!PollWait, WQ!PollWakeUp
  <1>4. CASE WQ!PollTake
    <2>1. Head(wqueue) \in Nat
      BY <1>4 DEF WQ!PollTake
    <2> QED
      BY <1>4, <2>1, NilAssumption, ZenonT(60) DEF WQ!PollTake
  <1>5. CASE wpoll' = "idle" \/ UNCHANGED wVars
    BY <1>0, <1>5, ZenonT(60) DEF wVars
  <1> QED
    BY <1>1, <1>2, <1>3, <1>4, <1>5, Zenon DEF WriteQueueMoves, WQ!PollStep

\* No move of the read queue does.
LEMMA ReadQueueWakes ==
  ASSUME RQ!QueueTypeOK(Nat), ctxDone \in BOOLEAN, ReadQueueMoves,
         rpoll = "wait" /\ rqueue # <<>> => rsignals > 0,
         rpoll = "returned" /\ rret = Nil => ctxDone
  PROVE  /\ rpoll' = "wait" /\ rqueue' # <<>> => rsignals' > 0
         /\ rpoll' = "returned" /\ rret' = Nil => ctxDone'
  <1> USE DEF RQ!QueueTypeOK, RQ!PollStates
  <1>0. ctxDone => ctxDone'
    BY Zenon DEF ReadQueueMoves
  <1>1. CASE \E m \in 1..MaxIn : RQ!AppendMsg(m)
    BY <1>0, <1>1 DEF RQ!AppendMsg
  <1>2. CASE RQ!Signal \/ RQ!UnblockPoll \/ RQ!PollCall
    BY <1>0, <1>2 DEF RQ!Signal, RQ!UnblockPoll, RQ!PollCall, RQ!Wake
  <1>3. CASE RQ!PollCheck(ctxDone) \/ RQ!PollWait \/ RQ!PollWakeUp(ctxDone)
    BY <1>0, <1>3 DEF RQ!PollCheck, RQ!PollWait, RQ!PollWakeUp
  <1>4. CASE RQ!PollTake
    <2>1. Head(rqueue) \in Nat
      BY <1>4 DEF RQ!PollTake
    <2> QED
      BY <1>4, <2>1, NilAssumption DEF RQ!PollTake
  <1>5. CASE UNCHANGED rVars
    BY <1>0, <1>5 DEF rVars
  <1> QED
    BY <1>1, <1>2, <1>3, <1>4, <1>5, ZenonT(60) DEF ReadQueueMoves, RQ!PollStep

\* So neither queue does.
LEMMA QueuesWake ==
  ASSUME BaseTypeOK, WakeupsComing /\ NilOnlyIfClosed, WriteQueueMoves, ReadQueueMoves
  PROVE  (WakeupsComing /\ NilOnlyIfClosed)'
  <1>1. WQ!QueueTypeOK(Nat) /\ RQ!QueueTypeOK(Nat) /\ connCtx \in BOOLEAN /\ ctxDone \in BOOLEAN
    BY DEF BaseTypeOK
  <1>2. /\ wpoll' = "wait" /\ wqueue' # <<>> => wsignals' > 0
        /\ wpoll' = "returned" /\ wret' = Nil => connCtx'
    BY <1>1, WriteQueueWakes DEF WakeupsComing, NilOnlyIfClosed
  <1>3. /\ rpoll' = "wait" /\ rqueue' # <<>> => rsignals' > 0
        /\ rpoll' = "returned" /\ rret' = Nil => ctxDone'
    BY <1>1, ReadQueueWakes DEF WakeupsComing, NilOnlyIfClosed
  <1> QED
    BY <1>2, <1>3 DEF WakeupsComing, NilOnlyIfClosed

\* A move of the read queue is a step of BlockingFifo, or none.
LEMMA ReadQueueRefines ==
  ASSUME ReadQueueMoves
  PROVE  [ReadPromise!Next]_ReadPromise!vars
  <1>1. ASSUME UNCHANGED <<rqueue, rret, ctxDone>>, (rpoll = "returned") <=> (rpoll' = "returned")
        PROVE  UNCHANGED ReadPromise!vars
    BY <1>1 DEF ReadPromise!vars
  <1>2. CASE (\E m \in 1..MaxIn : RQ!AppendMsg(m)) /\ UNCHANGED ctxDone
    <2>1. ReadPromise!Put
      BY <1>2 DEF RQ!AppendMsg, ReadPromise!Put
    <2> QED
      BY <2>1 DEF ReadPromise!Next
  <1>3. CASE (RQ!Signal \/ RQ!UnblockPoll) /\ UNCHANGED ctxDone
    BY <1>1, <1>3, ZenonT(60) DEF RQ!Signal, RQ!UnblockPoll, RQ!Wake
  <1>4. CASE RQ!PollStep(ctxDone) /\ UNCHANGED ctxDone
    <2>1. CASE (RQ!PollCheck(ctxDone) \/ RQ!PollWakeUp(ctxDone)) /\ ctxDone
      <3>1. ReadPromise!TakeNil
        BY <1>4, <2>1, ZenonT(60) DEF RQ!PollCheck, RQ!PollWakeUp, ReadPromise!TakeNil
      <3> QED
        BY <3>1, ZenonT(60) DEF ReadPromise!Next
    <2>2. CASE RQ!PollTake
      <3>1. ReadPromise!Take
        BY <1>4, <2>2, ZenonT(60) DEF RQ!PollTake, ReadPromise!Take
      <3> QED
        BY <3>1 DEF ReadPromise!Next
    <2>3. CASE (RQ!PollCheck(ctxDone) \/ RQ!PollWakeUp(ctxDone)) /\ ~ctxDone
      BY <1>1, <1>4, <2>3, ZenonT(60) DEF RQ!PollCheck, RQ!PollWakeUp
    <2>4. CASE RQ!PollWait
      BY <1>1, <1>4, <2>4, ZenonT(60) DEF RQ!PollWait
    <2> QED
      BY <1>4, <2>1, <2>2, <2>3, <2>4, ZenonT(60) DEF RQ!PollStep
  <1>5. CASE RQ!PollCall /\ (rpoll = "idle" \/ rret # Nil) /\ UNCHANGED ctxDone
    <2>1. CASE rpoll = "idle"
      BY <1>1, <1>5, <2>1, ZenonT(60) DEF RQ!PollCall
    <2>2. CASE rpoll # "idle"
      <3>1. ReadPromise!PollAgain
        BY <1>5, <2>2, ZenonT(60) DEF RQ!PollCall, ReadPromise!PollAgain
      <3> QED
        BY <3>1 DEF ReadPromise!Next
    <2> QED
      BY <2>1, <2>2
  <1>6. CASE UNCHANGED rVars /\ UNCHANGED ctxDone
    BY <1>1, <1>6, ZenonT(60) DEF rVars
  <1>7. CASE ctxDone' = TRUE /\ UNCHANGED rVars
    <2>1. ReadPromise!Close
      BY <1>7 DEF rVars, ReadPromise!Close
    <2> QED
      BY <2>1 DEF ReadPromise!Next
  <1> QED
    BY <1>2, <1>3, <1>4, <1>5, <1>6, <1>7, Zenon DEF ReadQueueMoves

\* The queues start empty, with nobody parked.
LEMMA QueuesInit ==
  ASSUME BaseInit
  PROVE  WakeupsComing /\ NilOnlyIfClosed /\ ReadPromise!Init
  <1>1. (rpoll # "returned") = TRUE
    BY DEF BaseInit, RQ!QueueInit
  <1> QED
    BY <1>1 DEF BaseInit, WQ!QueueInit, RQ!QueueInit, WakeupsComing, NilOnlyIfClosed, ReadPromise!Init

-----------------------------------------------------------------------------
(* The client *)

\* Once the service runs, a redial has counted no failures but its own, and less
\* than ReconnectionRetry when it dials.
Counts ==
  errLoop # "none" => /\ owner = "dial" => tries < ReconnectionRetry
                      /\ owner = "backoff" => tries <= ReconnectionRetry
                      /\ owner \in {"consume", "redial"} => tries = 0

\* The service runs when the loop of consume and redial does.
ServiceFirst == errLoop = "none" => owner \in {"dial", "backoff", "failed"}

ClientInv == ClientTypeOK /\ BaseInv /\ Counts /\ ServiceFirst /\ GivesUpAfterRetries

\* newClientTcpConnection establishes the invariant.
LEMMA ClientInitInv == ClientInit => ClientInv
  <1> SUFFICES ASSUME ClientInit PROVE ClientInv
      OBVIOUS
  <1>1. BaseInv
    BY BaseInitInv DEF ClientInit
  <1> QED
    BY <1>1 DEF ClientInit, BaseInit, BaseInv, ClientInv, ClientTypeOK, ClientStates, Counts, ServiceFirst,
                GivesUpAfterRetries

\* The goroutine of the client moves, from one dial or connection to another.
LEMMA ClientOwnerInv == ASSUME ClientInv, ClientOwner PROVE ClientInv'
  <1>0. /\ BaseInv /\ tries \in Nat /\ ReconnectionRetry \in Nat \ {0} /\ errs \in 0..ErrCap
        /\ ctxDone \in BOOLEAN /\ owner \in ClientStates /\ BaseTypeOK
    BY RetryAssumption DEF ClientInv, ClientTypeOK, BaseTypeOK
  <1>1. BaseInv'
    <2>1. CASE DialSucceeds
      BY <1>0, <2>1, ConsumeStartsInv, ZenonT(60) DEF DialSucceeds, InitialDial
    <2>2. CASE DialFails \/ DialsAgain \/ DialGivesUp \/ ClientConsumeDone \/ ReDialLoop
      <3>1. errs' \in 0..ErrCap
        BY <1>0, <2>2, ZenonT(60) DEF DialFails, DialsAgain, DialGivesUp, ClientConsumeDone, ReDialLoop, errVars
      <3>2. owner' # "consume" /\ owner \notin {"closed", "exited"} /\ (owner = "consume" => ConsumeReturns)
        BY <2>2, ZenonT(60) DEF DialFails, DialsAgain, DialGivesUp, ClientConsumeDone, ReDialLoop
      <3>3. UNCHANGED <<ctxDone, wVars, errsOpen, conn, connCtx, goVars, histVars>> /\ UNCHANGED <<errLoop, rVars>>
        BY <2>2, ZenonT(60) DEF DialFails, DialsAgain, DialGivesUp, ClientConsumeDone, ReDialLoop, errVars
      <3> QED
        BY <1>0, <3>1, <3>2, <3>3, OwnerMovesInv, ZenonT(60)
    <2> QED
      BY <2>1, <2>2, ZenonT(60) DEF ClientOwner
  <1>2. ClientTypeOK'
    <2>1. owner' \in ClientStates /\ tries' \in Nat
      BY <1>0, SMTT(30) DEF ClientOwner, DialSucceeds, DialFails, DialsAgain, DialGivesUp, ClientConsumeDone,
                            ReDialLoop, ConsumeStarts,
                  ClientStates
    <2> QED
      BY <1>1, <2>1, ZenonT(60) DEF ClientTypeOK, BaseInv
  <1>3. Counts' /\ ServiceFirst' /\ GivesUpAfterRetries'
    <2> USE <1>0 DEF ClientInv, Counts, ServiceFirst, GivesUpAfterRetries, errVars
    <2>1. CASE DialSucceeds
      BY <2>1, Zenon DEF DialSucceeds, InitialDial, ConsumeStarts, ServiceStarts
    <2>2. CASE DialFails
      BY <2>2, SMTT(30) DEF DialFails
    <2>3. CASE DialsAgain
      BY <2>3, Zenon DEF DialsAgain, Retries, InitialDial
    <2>4. CASE DialGivesUp
      BY <2>4, SMTT(30) DEF DialGivesUp, Retries, InitialDial
    <2>5. CASE ClientConsumeDone
      BY <2>5, Zenon DEF ClientConsumeDone
    <2>6. CASE ReDialLoop
      BY <2>6, SMTT(30) DEF ReDialLoop
    <2> QED
      BY <2>1, <2>2, <2>3, <2>4, <2>5, <2>6, Zenon DEF ClientOwner
  <1> QED
    BY <1>1, <1>2, <1>3, ZenonT(60) DEF ClientInv

\* The other goroutines leave the dials alone.
LEMMA ClientBaseInv == ASSUME ClientInv, BaseNext, UNCHANGED tries PROVE ClientInv'
  <1>1. BaseInv'
    BY BaseNextInv, Zenon DEF ClientInv
  <1>2. \/ owner' = owner
        \/ owner = "cleanup" /\ owner' = "closeErrs"
        \/ owner = "closeErrs" /\ owner' = "closed"
    BY BaseNextOwner
  <1>3. (errLoop = "none") <=> (errLoop' = "none")
    BY BaseNextOwner, Zenon
  <1>4. ctxDone => ctxDone'
    BY ZenonT(60) DEF BaseNext, Closer, Writer, Reader, ServiceLoops, ServiceWrites, Cleanup, Environment
  <1>5. ClientTypeOK'
    BY <1>1, <1>2 DEF ClientInv, ClientTypeOK, BaseInv, ClientStates
  <1>6. Counts' /\ ServiceFirst' /\ GivesUpAfterRetries'
    BY <1>2, <1>3, <1>4, ZenonT(60) DEF ClientInv, Counts, ServiceFirst, GivesUpAfterRetries
  <1> QED
    BY <1>1, <1>5, <1>6, Zenon DEF ClientInv

\* The invariant holds in every reachable state.
LEMMA ClientAlwaysInv == ClientSafety => []ClientInv
  <1>1. ClientInv /\ [ClientNext]_clientVars => ClientInv'
    <2> SUFFICES ASSUME ClientInv, [ClientNext]_clientVars PROVE ClientInv'
        BY ZenonT(60)
    <2>1. CASE UNCHANGED clientVars
      <3>1. BaseInv'
        BY <2>1, BaseStutters, ZenonT(60) DEF ClientInv, clientVars
      <3> QED
        BY <2>1, <3>1, ZenonT(60) DEF ClientInv, ClientTypeOK, BaseInv, Counts, ServiceFirst, GivesUpAfterRetries,
                                    clientVars, baseVars, errVars
    <2> QED
      BY <2>1, ClientOwnerInv, ClientBaseInv, ZenonT(60) DEF ClientNext
  <1> QED
    BY ClientInitInv, <1>1, PTL DEF ClientSafety

\* The variables keep their types: the errors channel is never over its capacity.
THEOREM ClientTypeCorrect == ClientSafety => []ClientTypeOK
  <1>1. ClientInv => ClientTypeOK
    BY DEF ClientInv
  <1> QED
    BY ClientAlwaysInv, <1>1, PTL

\* The client loses, reorders and duplicates no message on its side of the wire,
\* neither those it writes nor those it reads, over any number of connections.
THEOREM ClientMessagesInOrder == ClientSafety => [](OutboundInOrder /\ InboundInOrder)
  <1>1. ClientInv => OutboundInOrder /\ InboundInOrder
    BY BaseInvSafe DEF ClientInv
  <1> QED
    BY ClientAlwaysInv, <1>1, PTL

\* The client never sends on its errors channel after cleanup closed it.
THEOREM ClientErrorsNeverPanic == ClientSafety => []NoSendOnClosedErrors
  <1>1. ClientInv => NoSendOnClosedErrors
    BY BaseInvSafe DEF ClientInv
  <1> QED
    BY ClientAlwaysInv, <1>1, PTL

\* The client has one net.Conn at a time, and leaves none open.
THEOREM ClientConnsOneByOne == ClientSafety => []OneConnAtATime
  <1>1. ClientInv => OneConnAtATime
    BY BaseInvSafe DEF ClientInv
  <1> QED
    BY ClientAlwaysInv, <1>1, PTL

\* A client whose context is open gives up after ReconnectionRetry failures of
\* the current redial, no more and no less.
THEOREM RedialsEnough == ClientSafety => []GivesUpAfterRetries
  <1>1. ClientInv => GivesUpAfterRetries
    BY DEF ClientInv
  <1> QED
    BY ClientAlwaysInv, <1>1, PTL

\* What the client does to its queues
LEMMA ClientMoves ==
  ASSUME ClientInv, [ClientNext]_clientVars
  PROVE  WriteQueueMoves /\ ReadQueueMoves
  <1>0. BaseTypeOK /\ PolledByOne
    BY DEF ClientInv, BaseInv, Control
  <1>1. CASE DialSucceeds
    BY <1>0, <1>1, StartMoves, ZenonT(60) DEF DialSucceeds, InitialDial
  <1>2. CASE DialFails \/ DialsAgain \/ DialGivesUp \/ ClientConsumeDone \/ ReDialLoop
    <2>1. UNCHANGED <<wVars, connCtx>> /\ UNCHANGED rVars /\ UNCHANGED ctxDone
      BY <1>2 DEF DialFails, DialsAgain, DialGivesUp, ClientConsumeDone, ReDialLoop
    <2> QED
      BY <1>0, <2>1, StartMoves, ZenonT(60)
  <1>3. CASE BaseNext
    BY <1>0, <1>3, BaseNextMoves, ZenonT(60)
  <1>4. CASE UNCHANGED clientVars
    <2>1. UNCHANGED <<wVars, connCtx>> /\ UNCHANGED rVars /\ UNCHANGED ctxDone
      BY <1>4 DEF clientVars, baseVars
    <2> QED
      BY <1>0, <2>1, StartMoves, ZenonT(60)
  <1> QED
    BY <1>1, <1>2, <1>3, <1>4, ZenonT(60) DEF ClientNext, ClientOwner

\* The writer and the read loop of a client miss no message, and end only when
\* the context they poll with is closed, over any number of connections.
THEOREM ClientQueuesWake == ClientSafety => [](WakeupsComing /\ NilOnlyIfClosed)
  <1>1. ClientInit => WakeupsComing /\ NilOnlyIfClosed
    BY QueuesInit DEF ClientInit
  <1>2. ClientInv /\ WakeupsComing /\ NilOnlyIfClosed /\ [ClientNext]_clientVars => (WakeupsComing /\ NilOnlyIfClosed)'
    <2> SUFFICES ASSUME ClientInv, WakeupsComing /\ NilOnlyIfClosed, [ClientNext]_clientVars
                 PROVE  (WakeupsComing /\ NilOnlyIfClosed)'
        OBVIOUS
    <2>1. BaseTypeOK /\ WriteQueueMoves /\ ReadQueueMoves
      BY ClientMoves DEF ClientInv, BaseInv
    <2> QED
      BY <2>1, QueuesWake, ZenonT(60)
  <1> QED
    BY ClientAlwaysInv, <1>1, <1>2, PTL DEF ClientSafety

\* ReadMessage of a client does what BlockingFifo says of a poll, whatever
\* happens to its connections: the service on top need not know of them.
THEOREM ClientReadsFromFifo == ClientSafety => ReadPromise!Safety
  <1>1. ClientInit => ReadPromise!Init
    BY QueuesInit DEF ClientInit
  <1>2. ClientInv /\ [ClientNext]_clientVars => [ReadPromise!Next]_ReadPromise!vars
    BY ClientMoves, ReadQueueRefines, ZenonT(60)
  <1> QED
    BY ClientAlwaysInv, <1>1, <1>2, PTL DEF ClientSafety, ReadPromise!Safety

-----------------------------------------------------------------------------
(* The server *)

\* The service is created by StartControlServer.
ServiceNotYet == owner = "start" => errLoop = "none"

ServerInv == ServerTypeOK /\ BaseInv /\ ServiceNotYet

\* newServerTcpConnection establishes the invariant.
LEMMA ServerInitInv == ServerInit => ServerInv
  <1> SUFFICES ASSUME ServerInit PROVE ServerInv
      OBVIOUS
  <1>1. BaseInv
    BY BaseInitInv DEF ServerInit
  <1> QED
    BY <1>1 DEF ServerInit, BaseInit, BaseInv, ServerInv, ServerTypeOK, ServerStates, ServiceNotYet

\* StartControlServer and the loop that accepts.
LEMMA ServerOwnerInv == ASSUME ServerInv, StartControlServer \/ ServerOwner PROVE ServerInv'
  <1>0. BaseInv /\ errs \in 0..ErrCap /\ owner \in ServerStates /\ listener \in {"open", "closed"} /\ ServiceNotYet
    BY DEF ServerInv, ServerTypeOK, BaseTypeOK
  <1>1. BaseInv'
    <2>1. CASE UpgradeSucceeds
      BY <1>0, <2>1, ConsumeStartsInv, ZenonT(60) DEF UpgradeSucceeds, errVars
    <2>2. CASE StartControlServer
      <3>1. errs' \in 0..ErrCap /\ owner = "start" /\ owner' # "consume" /\ errLoop = "none"
        BY <1>0, <2>2, ZenonT(60) DEF StartControlServer, ServiceNotYet
      <3>2. UNCHANGED <<ctxDone, wVars, errsOpen, conn, connCtx, goVars, histVars>>
        BY <2>2 DEF StartControlServer, idleVars
      <3>3. UNCHANGED <<errLoop, rVars>> \/ ServiceStarts
        BY <2>2, ZenonT(60) DEF StartControlServer
      <3> QED
        BY <1>0, <3>1, <3>2, <3>3, OwnerMovesInv, ZenonT(60)
    <2>3. CASE ListenLoop \/ AcceptSucceeds \/ AcceptFails \/ UpgradeFails \/ SendsTlsError \/ ServerConsumeDone \/ ClosesClosedCh
      <3>1. errs' \in 0..ErrCap
        BY <1>0, <2>3, Numbers, SMTT(30) DEF ListenLoop, AcceptSucceeds, AcceptFails, UpgradeFails, SendsTlsError,
                                             ServerConsumeDone,
                                   ClosesClosedCh, SendError, errVars
      <3>2. /\ owner' # "consume" /\ (owner = "consume" => ConsumeReturns)
            /\ owner \in {"closed", "exited"} => owner' \in {"closed", "exited"}
        BY <2>3, ZenonT(60) DEF ListenLoop, AcceptSucceeds, AcceptFails, UpgradeFails, SendsTlsError,
                              ServerConsumeDone, ClosesClosedCh
      <3>3. /\ UNCHANGED <<ctxDone, wVars, errsOpen, conn, connCtx, goVars, histVars>>
            /\ UNCHANGED <<errLoop, rVars>>
        BY <2>3, ZenonT(60) DEF ListenLoop, AcceptSucceeds, AcceptFails, UpgradeFails, SendsTlsError,
                              ServerConsumeDone, ClosesClosedCh,
                    idleVars, errVars
      <3> QED
        BY <1>0, <3>1, <3>2, <3>3, OwnerMovesInv, ZenonT(60)
    <2> QED
      BY <2>1, <2>2, <2>3, ZenonT(60) DEF ServerOwner
  <1>2. owner' \in ServerStates \ {"start"} /\ listener' \in {"open", "closed"}
    BY <1>0 DEF StartControlServer, ServerOwner, ListenLoop, AcceptSucceeds, AcceptFails, UpgradeSucceeds, UpgradeFails,
                SendsTlsError, ServerConsumeDone, ClosesClosedCh, ConsumeStarts, ServerStates
  <1> QED
    BY <1>1, <1>2, ZenonT(60) DEF ServerInv, ServerTypeOK, BaseInv, ServiceNotYet

\* The other goroutines leave the loop that accepts alone.
LEMMA ServerBaseInv == ASSUME ServerInv, BaseNext, UNCHANGED listener PROVE ServerInv'
  <1>1. BaseInv'
    BY BaseNextInv, ZenonT(60) DEF ServerInv
  <1>2. \/ owner' = owner
        \/ owner = "cleanup" /\ owner' = "closeErrs"
        \/ owner = "closeErrs" /\ owner' = "closed"
    BY BaseNextOwner
  <1>3. (errLoop = "none") <=> (errLoop' = "none")
    BY BaseNextOwner, ZenonT(60)
  <1> QED
    BY <1>1, <1>2, <1>3, ZenonT(60) DEF ServerInv, ServerTypeOK, BaseInv, ServerStates, ServiceNotYet

\* The invariant holds in every reachable state.
LEMMA ServerAlwaysInv == ServerSafety => []ServerInv
  <1>1. ServerInv /\ [ServerNext]_serverVars => ServerInv'
    <2> SUFFICES ASSUME ServerInv, [ServerNext]_serverVars PROVE ServerInv'
        BY ZenonT(60)
    <2>1. CASE UNCHANGED baseVars /\ listener' \in {listener, "closed"}
      <3>1. BaseInv'
        BY <2>1, BaseStutters, ZenonT(60) DEF ServerInv
      <3> QED
        BY <2>1, <3>1, ZenonT(60) DEF ServerInv, ServerTypeOK, BaseInv, ServiceNotYet, baseVars, errVars
    <2> QED
      BY <2>1, ServerOwnerInv, ServerBaseInv, ZenonT(60) DEF ServerNext, ClosesListener, serverVars
  <1> QED
    BY ServerInitInv, <1>1, PTL DEF ServerSafety

\* The variables keep their types: the errors channel is never over its capacity.
THEOREM ServerTypeCorrect == ServerSafety => []ServerTypeOK
  <1>1. ServerInv => ServerTypeOK
    BY DEF ServerInv
  <1> QED
    BY ServerAlwaysInv, <1>1, PTL

\* The server loses, reorders and duplicates no message on its side of the wire,
\* neither those it writes nor those it reads, over any number of connections.
THEOREM ServerMessagesInOrder == ServerSafety => [](OutboundInOrder /\ InboundInOrder)
  <1>1. ServerInv => OutboundInOrder /\ InboundInOrder
    BY BaseInvSafe DEF ServerInv
  <1> QED
    BY ServerAlwaysInv, <1>1, PTL

\* The server never sends on its errors channel after cleanup closed it, not for
\* a failed tls configuration either.
THEOREM ServerErrorsNeverPanic == ServerSafety => []NoSendOnClosedErrors
  <1>1. ServerInv => NoSendOnClosedErrors
    BY BaseInvSafe DEF ServerInv
  <1> QED
    BY ServerAlwaysInv, <1>1, PTL

\* The server consumes one net.Conn at a time, and leaves none open.
THEOREM ServerConnsOneByOne == ServerSafety => []OneConnAtATime
  <1>1. ServerInv => OneConnAtATime
    BY BaseInvSafe DEF ServerInv
  <1> QED
    BY ServerAlwaysInv, <1>1, PTL

\* What the server does to its queues
LEMMA ServerMoves ==
  ASSUME ServerInv, [ServerNext]_serverVars
  PROVE  WriteQueueMoves /\ ReadQueueMoves
  <1>0. BaseTypeOK /\ PolledByOne /\ ServiceNotYet
    BY DEF ServerInv, BaseInv, Control
  <1>1. CASE UpgradeSucceeds
    BY <1>0, <1>1, StartMoves, ZenonT(60) DEF UpgradeSucceeds
  <1>2. CASE StartControlServer
    <2>1. UNCHANGED <<wVars, connCtx>> /\ UNCHANGED ctxDone
      BY <1>2, ZenonT(60) DEF StartControlServer, idleVars
    <2>2. (errLoop = "none" /\ ServiceStarts) \/ UNCHANGED rVars
      BY <1>0, <1>2, ZenonT(60) DEF StartControlServer, ServiceNotYet
    <2> QED
      BY <1>0, <2>1, <2>2, StartMoves, ZenonT(60)
  <1>3. CASE \/ ListenLoop \/ AcceptSucceeds \/ AcceptFails \/ UpgradeFails \/ SendsTlsError
             \/ ServerConsumeDone \/ ClosesClosedCh
    <2>1. UNCHANGED <<wVars, connCtx>> /\ UNCHANGED rVars /\ UNCHANGED ctxDone
      BY <1>3, ZenonT(60) DEF ListenLoop, AcceptSucceeds, AcceptFails, UpgradeFails, SendsTlsError,
                  ServerConsumeDone, ClosesClosedCh, idleVars
    <2> QED
      BY <1>0, <2>1, StartMoves, ZenonT(60)
  <1>4. CASE BaseNext
    BY <1>0, <1>4, BaseNextMoves, ZenonT(60)
  <1>5. CASE UNCHANGED baseVars
    <2>1. UNCHANGED <<wVars, connCtx>> /\ UNCHANGED rVars /\ UNCHANGED ctxDone
      BY <1>5 DEF baseVars
    <2> QED
      BY <1>0, <2>1, StartMoves, ZenonT(60)
  <1> QED
    BY <1>1, <1>2, <1>3, <1>4, <1>5, ZenonT(60) DEF ServerNext, ServerOwner, ClosesListener, serverVars

\* The writer and the read loop of a server miss no message, and end only when
\* the context they poll with is closed, over any number of connections.
THEOREM ServerQueuesWake == ServerSafety => [](WakeupsComing /\ NilOnlyIfClosed)
  <1>1. ServerInit => WakeupsComing /\ NilOnlyIfClosed
    BY QueuesInit, ZenonT(60) DEF ServerInit
  <1>2. ServerInv /\ WakeupsComing /\ NilOnlyIfClosed /\ [ServerNext]_serverVars => (WakeupsComing /\ NilOnlyIfClosed)'
    <2> SUFFICES ASSUME ServerInv, WakeupsComing /\ NilOnlyIfClosed, [ServerNext]_serverVars
                 PROVE  (WakeupsComing /\ NilOnlyIfClosed)'
        OBVIOUS
    <2>1. BaseTypeOK /\ WriteQueueMoves /\ ReadQueueMoves
      BY ServerMoves DEF ServerInv, BaseInv
    <2> QED
      BY <2>1, QueuesWake, ZenonT(60)
  <1> QED
    BY ServerAlwaysInv, <1>1, <1>2, PTL DEF ServerSafety

\* ReadMessage of a server does what BlockingFifo says of a poll, whatever
\* happens to its connections: the service on top need not know of them.
THEOREM ServerReadsFromFifo == ServerSafety => ReadPromise!Safety
  <1>1. ServerInit => ReadPromise!Init
    BY QueuesInit, ZenonT(60) DEF ServerInit
  <1>2. ServerInv /\ [ServerNext]_serverVars => [ReadPromise!Next]_ReadPromise!vars
    BY ServerMoves, ReadQueueRefines, ZenonT(60)
  <1> QED
    BY ServerAlwaysInv, <1>1, <1>2, PTL DEF ServerSafety, ReadPromise!Safety
=============================================================================
