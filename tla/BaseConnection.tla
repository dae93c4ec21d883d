--------------------------- MODULE BaseConnection ---------------------------
(***************************************************************************)
(* baseTcpConnection of pkg/network/base_connection.go, one end of the     *)
(* control connection.  consumeConnection runs three goroutines on a       *)
(* net.Conn: the closer, the writer and the reader.  The goroutine that    *)
(* calls it (the owner: the redial loop of the client, the listen loop of  *)
(* the server) waits for all three and then goes on to the next net.Conn.  *)
(* The service on top polls the read queue and the errors channel.         *)
(*                                                                         *)
(* ClientConnection and ServerConnection EXTEND this module with their     *)
(* owner.  The net.Conn is external: it is modelled by the outcomes the    *)
(* code tells apart (a message, EOF, a transient error, any other error).  *)
(***************************************************************************)
EXTENDS Naturals, Sequences

CONSTANTS
  Nil,          \* the nil message
  ErrCap,       \* capacity of unrecoverableErrors, 10 in the code
  MaxOut,       \* bound on the messages handed to WriteMessage
  MaxIn         \* bound on the messages the other end sends

ASSUME NilAssumption == Nil \notin Nat
ASSUME ErrCapAssumption == ErrCap \in Nat \ {0}
ASSUME BoundsAssumption == MaxOut \in Nat /\ MaxIn \in Nat

VARIABLES
  ctxDone,      \* t.ctx, also the context of the service, is closed
  wqueue, wsignals, wpoll, wret,     \* t.writeQueue, polled by the writer
  rqueue, rsignals, rpoll, rret,     \* t.readQueue, polled by the service
  errs,         \* number of errors in t.unrecoverableErrors
  errsOpen,     \* FALSE once the channel is closed
  errLoop,      \* the error loop of the service
  conn,         \* the net.Conn being consumed
  connCtx,      \* closedConnCtx is closed
  closer, writer, reader,            \* the goroutines of consumeConnection
  owner,        \* the goroutine that calls consumeConnection
  nOut,         \* number of calls of WriteMessage; the i-th writes message i
  written,      \* the messages connWrite wrote, in order
  nIn,          \* number of messages read from the other end, in order
  accepted      \* the messages the service took, in order

WQ == INSTANCE MessageQueue WITH
        queue <- wqueue, signals <- wsignals, poll <- wpoll, ret <- wret
RQ == INSTANCE MessageQueue WITH
        queue <- rqueue, signals <- rsignals, poll <- rpoll, ret <- rret

wVars == <<wqueue, wsignals, wpoll, wret>>
rVars == <<rqueue, rsignals, rpoll, rret>>
errVars == <<errs, errsOpen, errLoop>>
goVars == <<closer, writer, reader>>
histVars == <<nOut, written, nIn, accepted>>
baseVars == <<ctxDone, wVars, rVars, errVars, conn, connCtx, goVars, owner, histVars>>

\* "down": the wire or the other end broke; "closed": conn.Close was called
ConnStates == {"none", "up", "down", "closed"}

BaseTypeOK ==
  /\ ctxDone \in BOOLEAN
  /\ WQ!QueueTypeOK(Nat) /\ RQ!QueueTypeOK(Nat)
  /\ errs \in 0..ErrCap /\ errsOpen \in BOOLEAN
  /\ errLoop \in {"none", "run", "done"}
  /\ conn \in ConnStates /\ connCtx \in BOOLEAN
  /\ closer \in {"done", "select", "unblock", "close"}
  /\ writer \in {"done", "poll", "errTransient", "errFatal"}
  /\ reader \in {"done", "read", "signal", "errTransient", "errFatal", "checkCtx"}
  /\ nOut \in Nat /\ nIn \in Nat
  /\ written \in Seq(Nat) /\ accepted \in Seq(Nat)

\* newClientTcpConnection, newServerTcpConnection: no net.Conn yet
BaseInit ==
  /\ ctxDone = FALSE
  /\ WQ!QueueInit /\ RQ!QueueInit
  /\ errs = 0 /\ errsOpen = TRUE /\ errLoop = "none"
  /\ conn = "none" /\ connCtx = FALSE
  /\ closer = "done" /\ writer = "done" /\ reader = "done"
  /\ nOut = 0 /\ written = <<>> /\ nIn = 0 /\ accepted = <<>>

-----------------------------------------------------------------------------
(* consumeConnection *)

\* The call: a fresh closedConnCtx, and the three goroutines
ConsumeStarts ==
  /\ owner' = "consume"
  /\ conn' = "up" /\ connCtx' = FALSE
  /\ closer' = "select" /\ writer' = "poll" /\ reader' = "read"
  /\ WQ!PollCall

\* Mutation: the owner goes on without wg.Wait for the reader
ConsumeReturnsEarly == closer = "done" /\ writer = "done"

\* wg.Wait returns
ConsumeReturns == closer = "done" /\ writer = "done" /\ reader = "done"

(* The closer *)

\* Mutation: the closer does not look at t.ctx
CloserSelectNoCtx ==
  /\ closer = "select" /\ connCtx
  /\ closer' = "unblock"
  /\ UNCHANGED <<wVars, conn, connCtx>>

CloserSelect ==
  /\ closer = "select" /\ (connCtx \/ ctxDone)
  /\ closer' = "unblock"
  /\ connCtx' = TRUE
  /\ UNCHANGED <<wVars, conn>>

CloserUnblock ==
  /\ closer = "unblock"
  /\ closer' = "close"
  /\ WQ!UnblockPoll
  /\ UNCHANGED <<connCtx, conn>>

CloserClose ==
  /\ closer = "close"
  /\ closer' = "done"
  /\ conn' = "closed"
  /\ UNCHANGED <<wVars, connCtx>>

Closer ==
  /\ UNCHANGED <<ctxDone, rVars, errVars, writer, reader, owner, histVars>>
  /\ CloserSelect \/ CloserUnblock \/ CloserClose

-----------------------------------------------------------------------------
(* The writer *)

WriterPolls == writer = "poll" /\ WQ!PollStep(connCtx) /\ UNCHANGED <<writer, errs, written>>

\* blockingPoll returned nil
WriterQuits ==
  /\ writer = "poll" /\ wpoll = "returned" /\ wret = Nil
  /\ writer' = "done" /\ wpoll' = "idle"
  /\ UNCHANGED <<wqueue, wsignals, wret, errs, written>>

\* It returned the message that connWrite is now given
Writing == writer = "poll" /\ wpoll = "returned" /\ wret # Nil

\* A write on a broken connection may still end up in the kernel's buffer
WriteSucceeds ==
  /\ Writing /\ conn \in {"up", "down"}
  /\ written' = Append(written, wret)
  /\ WQ!PollCall
  /\ UNCHANGED <<writer, errs>>

\* Where isEOF and isTransientError send the writer: it returns on EOF, else
\* it goes on to signal the error.  On a connection that is up, this is the
\* fatal one of a message whose length does not fit its header: the writer
\* returns and the connection stays.
WriteErrors ==
  CASE conn = "up" -> {"errTransient", "errFatal"}
    [] conn = "down" -> {"done", "errFatal"}
    [] OTHER -> {"errFatal"}

\* Mutation: the message of a failed write is dropped
WriteFailsDropping ==
  /\ Writing
  /\ writer' \in WriteErrors
  /\ wpoll' = "idle"
  /\ UNCHANGED <<wqueue, wsignals, wret, errs, written>>

\* connWrite fails and the message is re-enqueued
WriteFails ==
  /\ Writing
  /\ writer' \in WriteErrors
  /\ WQ!PrependMsg(wret) /\ wpoll' = "idle"
  /\ UNCHANGED <<errs, written>>

\* t.unrecoverableErrors <- err: waits while the channel is full
SendError == errs < ErrCap /\ errs' = errs + 1

WriterSendsError ==
  /\ SendError
  /\ \/ writer = "errTransient" /\ writer' = "poll" /\ WQ!PollCall
     \/ writer = "errFatal" /\ writer' = "done" /\ UNCHANGED wVars
  /\ UNCHANGED written

Writer ==
  /\ UNCHANGED <<ctxDone, rVars, errsOpen, errLoop, conn, connCtx, closer, reader, owner,
                 nOut, nIn, accepted>>
  /\ WriterPolls \/ WriterQuits \/ WriteSucceeds \/ WriteFails \/ WriterSendsError

-----------------------------------------------------------------------------
(* The reader *)

\* connRead returns a message, which is appended to the read queue
ReadSucceeds ==
  /\ reader = "read" /\ conn \in {"up", "down"} /\ nIn < MaxIn
  /\ reader' = "signal"
  /\ nIn' = nIn + 1
  /\ RQ!AppendMsg(nIn + 1)
  /\ UNCHANGED <<errs, connCtx>>

\* The Signal of that append
ReaderSignals == reader = "signal" /\ reader' = "checkCtx" /\ RQ!Signal
                   /\ UNCHANGED <<errs, connCtx, nIn>>

\* connRead fails, but not with EOF
ReadFails ==
  /\ reader = "read"
  /\ \/ conn = "up" /\ reader' = "errTransient"
     \/ conn \in {"down", "closed"} /\ reader' = "errFatal"
  /\ UNCHANGED <<rVars, errs, connCtx, nIn>>

ReaderSendsTransient ==
  /\ reader = "errTransient" /\ SendError
  /\ reader' = "checkCtx"
  /\ UNCHANGED <<rVars, connCtx, nIn>>

\* Line 146, with t.ctx open
ReaderGoesOn ==
  /\ reader = "checkCtx" /\ ~ctxDone
  /\ reader' = "read"
  /\ UNCHANGED <<rVars, errs, connCtx, nIn>>

\* Mutation: the reader returns without closedConnCancel
ReaderQuitsNoCancel ==
  /\ \/ reader = "read" /\ conn = "down" /\ UNCHANGED errs
     \/ reader = "errFatal" /\ SendError
     \/ reader = "checkCtx" /\ ctxDone /\ UNCHANGED errs
  /\ reader' = "done"
  /\ UNCHANGED <<rVars, connCtx, nIn>>

\* The reader returns: on EOF, after another error that is not transient, or
\* at line 146 with t.ctx closed.  Its deferred closedConnCancel runs.
ReaderQuits ==
  /\ \/ reader = "read" /\ conn = "down" /\ UNCHANGED errs
     \/ reader = "errFatal" /\ SendError
     \/ reader = "checkCtx" /\ ctxDone /\ UNCHANGED errs
  /\ reader' = "done"
  /\ connCtx' = TRUE
  /\ UNCHANGED <<rVars, nIn>>

Reader ==
  /\ UNCHANGED <<ctxDone, wVars, errsOpen, errLoop, conn, closer, writer, owner, nOut,
                 written, accepted>>
  /\ ReadSucceeds \/ ReaderSignals \/ ReadFails \/ ReaderSendsTransient \/ ReaderGoesOn
       \/ ReaderQuits

-----------------------------------------------------------------------------
(* The service: its calls of WriteMessage, and its two loops *)

\* NewService
ServiceStarts == errLoop' = "run" /\ RQ!PollCall

WriteMessage ==
  /\ errLoop # "none" /\ nOut < MaxOut
  /\ nOut' = nOut + 1
  /\ WQ!AppendMsg(nOut + 1)
  /\ UNCHANGED <<rVars, errs, errLoop, accepted>>

WriteMessageSignals == WQ!Signal /\ UNCHANGED <<rVars, errs, errLoop, nOut, accepted>>

\* ReadMessage
ReadLoopPolls == RQ!PollStep(ctxDone) /\ UNCHANGED <<wVars, errs, errLoop, nOut, accepted>>

\* ReadMessage returned a message: go c.accept(msg), and the next ReadMessage.
\* The loop ends on nil.
ReadLoopAccepts ==
  /\ rpoll = "returned" /\ rret # Nil
  /\ accepted' = Append(accepted, rret)
  /\ RQ!PollCall
  /\ UNCHANGED <<wVars, errs, errLoop, nOut>>

ErrorLoopTakes ==
  /\ errLoop = "run" /\ errs > 0
  /\ errs' = errs - 1
  /\ UNCHANGED <<wVars, rVars, errLoop, nOut, accepted>>

ErrorLoopQuits ==
  /\ errLoop = "run" /\ (ctxDone \/ (~errsOpen /\ errs = 0))
  /\ errLoop' = "done"
  /\ UNCHANGED <<wVars, rVars, errs, nOut, accepted>>

ServiceLoops ==
  /\ WriteMessageSignals \/ ReadLoopPolls \/ ReadLoopAccepts \/ ErrorLoopTakes \/ ErrorLoopQuits
  /\ UNCHANGED <<ctxDone, errsOpen, conn, connCtx, goVars, owner, written, nIn>>

ServiceWrites ==
  /\ WriteMessage
  /\ UNCHANGED <<ctxDone, errsOpen, conn, connCtx, goVars, owner, written, nIn>>

-----------------------------------------------------------------------------
(* cleanup, run by the owner when it is done *)

CleanupUnblocks ==
  /\ owner = "cleanup"
  /\ owner' = "closeErrs"
  /\ WQ!UnblockPoll /\ RQ!UnblockPoll
  /\ UNCHANGED errsOpen

CleanupClosesErrors ==
  /\ owner = "closeErrs"
  /\ owner' = "closed"
  /\ errsOpen' = FALSE
  /\ UNCHANGED <<wVars, rVars>>

Cleanup ==
  /\ UNCHANGED <<ctxDone, errs, errLoop, conn, connCtx, goVars, histVars>>
  /\ CleanupUnblocks \/ CleanupClosesErrors

-----------------------------------------------------------------------------
(* The environment: the caller closes the context, the connection breaks *)

Environment ==
  /\ \/ ~ctxDone /\ ctxDone' = TRUE /\ UNCHANGED conn
     \/ conn = "up" /\ conn' = "down" /\ UNCHANGED ctxDone
  /\ UNCHANGED <<wVars, rVars, errVars, connCtx, goVars, owner, histVars>>

\* Everything but the owner
BaseNext ==
  Closer \/ Writer \/ Reader \/ ServiceLoops \/ ServiceWrites \/ Cleanup \/ Environment

\* Every goroutine that can run is scheduled.  A read or a write on a connection
\* that is up may block for ever; on one that broke or was closed it returns.
BaseFairness ==
  LET service == <<ctxDone, errsOpen, conn, connCtx, goVars, owner, written, nIn>>
  IN /\ WF_baseVars(Closer)
     /\ WF_baseVars((Writing => conn # "up") /\ Writer)
     /\ WF_baseVars((reader = "read" => conn # "up") /\ Reader)
     /\ WF_baseVars(UNCHANGED service /\ WriteMessageSignals)
     /\ WF_baseVars(UNCHANGED service /\ (ReadLoopPolls \/ ReadLoopAccepts))
     /\ WF_baseVars(UNCHANGED service /\ (ErrorLoopTakes \/ ErrorLoopQuits))
     /\ WF_baseVars(Cleanup)

-----------------------------------------------------------------------------
(* Properties of both ends *)

\* The goroutines of consumeConnection
Consuming == closer # "done" \/ writer # "done" \/ reader # "done"

InHand(poll, ret) == IF poll = "returned" /\ ret # Nil THEN <<ret>> ELSE <<>>

\* Broken connections, failed writes and reconnections lose no message on this
\* side of the wire, and never reorder or duplicate one: what connWrite wrote,
\* what the writer holds and what is queued are the messages given to
\* WriteMessage, in order.
OutboundInOrder == written \o InHand(wpoll, wret) \o wqueue = [i \in 1..nOut |-> i]

\* The same for the messages read, whatever connection they were read from.
InboundInOrder == accepted \o InHand(rpoll, rret) \o rqueue = [i \in 1..nIn |-> i]

\* The errors channel is closed only after every goroutine that sends on it
\* has ended: no send on a closed channel, which panics.
NoSendOnClosedErrors == ~errsOpen => ~Consuming /\ owner # "errTls"

\* One net.Conn at a time: the owner is elsewhere only when the goroutines of
\* the last consumeConnection have ended and its net.Conn is closed, so that no
\* two writers poll the write queue and no connection is left open.
OneConnAtATime == owner # "consume" => ~Consuming /\ conn \in {"none", "closed"}

\* The writer is parked although its context is closed and unblockPoll was
\* called: the Broadcast came between its look at the context and cond.Wait.
WakeupMissed == wpoll = "wait" /\ connCtx /\ closer \in {"close", "done"}

\* A goroutine waits to send on a full errors channel that nobody reads
StuckOnErrors ==
  /\ errs = ErrCap /\ errLoop = "done"
  /\ {writer, reader, owner} \cap {"errTransient", "errFatal", "errTls"} # {}

ConsumeMustEnd == owner = "consume" /\ (conn \in {"down", "closed"} \/ ctxDone)

\* Once the connection broke or the context is closed, consumeConnection returns
\* unless the writer missed its wake-up or the errors channel is full and
\* abandoned: these two are the only ways it can hang.
ConsumeEndsOrHangs == ConsumeMustEnd ~> (owner # "consume" \/ WakeupMissed \/ StuckOnErrors)

\* A hung consumeConnection whose writer missed its wake-up is freed by the next
\* WriteMessage: its Signal wakes the writer, which then sees the context.
WriteFreesWriter == (WakeupMissed /\ wqueue # <<>>) ~> writer = "done"
=============================================================================
