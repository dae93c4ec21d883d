------------------------------- MODULE Service -------------------------------
(***************************************************************************)
(* service of pkg/service/service.go, at both ends of a connection: calls  *)
(* of SendAndWaitForAck, the goroutine that accepts each inbound message,  *)
(* handlers and their acks, and the lock around the handler.               *)
(*                                                                         *)
(* The connection between the two is the one of BaseConnection: it loses   *)
(* the messages on the wire when it breaks, so a message in transit is not *)
(* sure to be delivered.  Every message read is given to a goroutine of    *)
(* its own, so the order of delivery does not matter and the messages in   *)
(* transit are a set.  A message may be acked more than once: nothing in   *)
(* ServiceMessage keeps a handler from it, and one with an empty payload   *)
(* that is not nil may be delivered, and so handled and acked, twice       *)
(* (AtMostOnceInOrder of MessageFraming).                                  *)
(***************************************************************************)
EXTENDS Naturals

CONSTANTS
  Ends,         \* the two ends of the connection
  Calls,        \* calls of SendAndWaitForAck; each draws a UUID of its own
  From,         \* From[c] is the end that calls
  Within,       \* Within[c] is the call whose handler makes call c, or NoCall
  NoCall,
  Setters,      \* ends that may read a message before MessageHandler was called
  Cancellable,  \* ends whose context may be closed
  Kinds,        \* Kinds[c] is how the user's handler of the message of c may ack
  MaxAcks       \* MaxAcks[c] bounds the acks of the message of c

ASSUME CallsAssumption ==
  /\ From \in [Calls -> Ends]
  /\ \A c \in Calls : Ends \ {From[c]} # {}
  /\ NoCall \notin Calls
  /\ Within \in [Calls -> Calls \cup {NoCall}]
  /\ \A c \in Calls : Within[c] # NoCall => From[c] # From[Within[c]]
  /\ Setters \subseteq Ends /\ Cancellable \subseteq Ends
  /\ Kinds \in [Calls -> SUBSET {"ok", "err", "emptyErr"}] /\ MaxAcks \in [Calls -> Nat]

VARIABLES
  call,         \* where each call is in sendBinaryAndWaitForAck
  result,       \* what its select chose
  waitingAcks,  \* the UUIDs in waitingAcks, of both ends
  ackCh,        \* content of the ack channel of each call
  ackClosed,    \* the ack channels that are closed
  net,          \* messages written at one end and not read at the other
  handler,      \* the goroutine that accepts the message of each call
  handledBy,    \* what that goroutine found to handle the message, see Handlers
  verdict,      \* the ways in which its handler acked
  acks,         \* how many times it did
  ackers,       \* goroutines that accept an ack
  panicked,     \* the calls whose ack made accept panic
  setter,       \* a call of MessageHandler at each end
  ctxDone       \* the context of the service of each end is closed

vars == <<call, result, waitingAcks, ackCh, ackClosed, net, handler, handledBy, verdict, acks, ackers,
          panicked, setter, ctxDone>>
ackVars == <<verdict, acks, panicked>>
callVars == <<call, result, waitingAcks>>
chanVars == <<ackCh, ackClosed>>

\* The other end, where call c is handled
To(c) == CHOOSE e \in Ends : e # From[c]

\* Ack(), AckWithError with a text, AckWithError with an error whose text is ""
AckKinds == {"ok", "err", "emptyErr"}

\* newAckMessage: the payload is the text of the error
HasText(kind) == kind = "err"

\* n tells the acks of one message apart; text is TRUE if the payload is not empty
Ack(c, n, kind) == [call |-> c, n |-> n, text |-> HasText(kind)]
Messages == [call : Calls]

\* NoopMessageHandler, which a service starts with, the handler that a
\* MessageRouter has for the opcode, or that router, which has none
Handlers == {"noop", "routed", "unknownOpCode"}
Acks == [call : Calls, n : Nat, text : BOOLEAN]

TypeOK ==
  /\ call \in [Calls -> {"idle", "registered", "waiting", "leaving", "returned"}]
  /\ result \in [Calls -> {"none", "refused", "ok", "error", "timeout", "ctx"}]
  /\ waitingAcks \in SUBSET Calls
  /\ ackCh \in [Calls -> {"empty", "text", "nil"}]
  /\ ackClosed \in SUBSET Calls
  /\ net \in SUBSET (Messages \cup Acks)
  /\ handler \in [Calls -> {"none", "spawned", "running", "done"}]
  /\ handledBy \in [Calls -> Handlers \cup {"none"}]
  /\ verdict \in [Calls -> SUBSET AckKinds] /\ acks \in [Calls -> Nat]
  /\ panicked \in SUBSET Calls
  /\ ackers \in SUBSET [ack : Acks, pc : {"lookup", "send", "close"}]
  /\ setter \in [Ends -> {"idle", "waiting", "done"}]
  /\ ctxDone \in [Ends -> BOOLEAN]

Init ==
  /\ call = [c \in Calls |-> "idle"]
  /\ result = [c \in Calls |-> "none"]
  /\ waitingAcks = {}
  /\ ackCh = [c \in Calls |-> "empty"]
  /\ ackClosed = {}
  /\ net = {}
  /\ handler = [c \in Calls |-> "none"]
  /\ handledBy = [c \in Calls |-> "none"]
  /\ verdict = [c \in Calls |-> {}] /\ acks = [c \in Calls |-> 0] /\ panicked = {}
  /\ ackers = {}
  /\ setter = [e \in Ends |-> IF e \in Setters THEN "idle" ELSE "done"]
  /\ ctxDone = [e \in Ends |-> FALSE]

-----------------------------------------------------------------------------
(* sendBinaryAndWaitForAck *)

\* A call within a handler is made while that handler runs
Allowed(c) ==
  Within[c] # NoCall => handler[Within[c]] = "running" /\ handledBy[Within[c]] = "routed"

\* Lines 67-70 and 77-79: the payload cannot be marshalled, or the opcode is
\* that of acks
Refuse(c) ==
  /\ call[c] = "idle" /\ Allowed(c)
  /\ call' = [call EXCEPT ![c] = "returned"]
  /\ result' = [result EXCEPT ![c] = "refused"]
  /\ UNCHANGED <<waitingAcks, chanVars, net, handler, handledBy, ackVars, ackers, setter, ctxDone>>

\* Mutation: the ack is not registered
RegisterMissing(c) ==
  /\ call[c] = "idle" /\ Allowed(c)
  /\ call' = [call EXCEPT ![c] = "registered"]
  /\ UNCHANGED <<result, waitingAcks, chanVars, net, handler, handledBy, ackVars, ackers, setter, ctxDone>>

\* Lines 80-88
Register(c) ==
  /\ call[c] = "idle" /\ Allowed(c)
  /\ call' = [call EXCEPT ![c] = "registered"]
  /\ waitingAcks' = waitingAcks \cup {c}
  /\ UNCHANGED <<result, chanVars, net, handler, handledBy, ackVars, ackers, setter, ctxDone>>

\* Line 96
WriteMsg(c) ==
  /\ call[c] = "registered"
  /\ call' = [call EXCEPT ![c] = "waiting"]
  /\ net' = net \cup {[call |-> c]}
  /\ UNCHANGED <<result, waitingAcks, chanVars, handler, handledBy, ackVars, ackers, setter, ctxDone>>

Choose(c, r) ==
  /\ call' = [call EXCEPT ![c] = "leaving"]
  /\ result' = [result EXCEPT ![c] = r]
  /\ UNCHANGED <<waitingAcks, ackClosed, net, handler, handledBy, ackVars, ackers, setter, ctxDone>>

\* Mutation: the error of the ack is not returned
SelectAckNoError(c) ==
  /\ call[c] = "waiting"
  /\ ackCh[c] # "empty" \/ c \in ackClosed
  /\ Choose(c, "ok")
  /\ ackCh' = [ackCh EXCEPT ![c] = "empty"]

\* Line 99: a closed channel that was emptied yields nil
SelectAck(c) ==
  /\ call[c] = "waiting"
  /\ ackCh[c] # "empty" \/ c \in ackClosed
  /\ Choose(c, IF ackCh[c] = "text" THEN "error" ELSE "ok")
  /\ ackCh' = [ackCh EXCEPT ![c] = "empty"]

\* Line 101
SelectCtx(c) == call[c] = "waiting" /\ ctxDone[From[c]] /\ Choose(c, "ctx") /\ UNCHANGED ackCh

\* Mutation: no timer
SelectTimeoutNever(c) == FALSE

\* Line 104: the timer may fire whatever else happened
SelectTimeout(c) == call[c] = "waiting" /\ Choose(c, "timeout") /\ UNCHANGED ackCh

\* Mutation: the entry is not deleted
UnregisterForgotten(c) ==
  /\ call[c] = "leaving"
  /\ call' = [call EXCEPT ![c] = "returned"]
  /\ UNCHANGED <<result, waitingAcks, chanVars, net, handler, handledBy, ackVars, ackers, setter, ctxDone>>

\* Mutation: the caller closes the channel it stops waiting on
UnregisterCloses(c) ==
  /\ call[c] = "leaving"
  /\ call' = [call EXCEPT ![c] = "returned"]
  /\ waitingAcks' = waitingAcks \ {c} /\ ackClosed' = ackClosed \cup {c}
  /\ UNCHANGED <<result, ackCh, net, handler, handledBy, ackVars, ackers, setter, ctxDone>>

\* The deferred function
Unregister(c) ==
  /\ call[c] = "leaving"
  /\ call' = [call EXCEPT ![c] = "returned"]
  /\ waitingAcks' = waitingAcks \ {c}
  /\ UNCHANGED <<result, chanVars, net, handler, handledBy, ackVars, ackers, setter, ctxDone>>

-----------------------------------------------------------------------------
(* The read loop, and accept of an ack *)

\* ReadMessage returns a message, and go c.accept(msg).  A closed context does
\* not exclude it: blockingPoll may have looked at the context before.
Deliver(c) ==
  /\ [call |-> c] \in net
  /\ net' = net \ {[call |-> c]}
  /\ handler' = [handler EXCEPT ![c] = "spawned"]
  /\ UNCHANGED <<callVars, chanVars, handledBy, ackVars, ackers, setter, ctxDone>>

DeliverAck(a) ==
  /\ a \in net
  /\ net' = net \ {a}
  /\ ackers' = ackers \cup {[ack |-> a, pc |-> "lookup"]}
  /\ UNCHANGED <<callVars, chanVars, handler, handledBy, ackVars, setter, ctxDone>>

\* Mutation: the channel is closed without the error sent on it
AckLookupNoSend(g) ==
  /\ g.pc = "lookup"
  /\ ackers' = (ackers \ {g})
       \cup (IF g.ack.call \in waitingAcks THEN {[g EXCEPT !.pc = "close"]} ELSE {})
  /\ UNCHANGED <<callVars, chanVars, net, handler, handledBy, ackVars, setter, ctxDone>>

\* Lines 155-157: the goroutine ends if the call is not registered
AckLookup(g) ==
  /\ g.pc = "lookup"
  /\ ackers' = (ackers \ {g})
       \cup (IF g.ack.call \in waitingAcks THEN {[g EXCEPT !.pc = "send"]} ELSE {})
  /\ UNCHANGED <<callVars, chanVars, net, handler, handledBy, ackVars, setter, ctxDone>>

\* Mutation: the ack channel has no buffer
AckSendUnbuffered(g) ==
  /\ g.pc = "send" /\ g.ack.call \notin ackClosed /\ call[g.ack.call] = "waiting"
  /\ ackCh[g.ack.call] = "empty"
  /\ ackCh' = [ackCh EXCEPT ![g.ack.call] = IF g.ack.text THEN "text" ELSE "nil"]
  /\ ackers' = (ackers \ {g}) \cup {[g EXCEPT !.pc = "close"]}
  /\ UNCHANGED <<callVars, ackClosed, net, handler, handledBy, ackVars, setter, ctxDone>>

\* Line 163: the buffer of the channel has room for one
AckSend(g) ==
  /\ g.pc = "send" /\ g.ack.call \notin ackClosed
  /\ ackCh[g.ack.call] = "empty"
  /\ ackCh' = [ackCh EXCEPT ![g.ack.call] = IF g.ack.text THEN "text" ELSE "nil"]
  /\ ackers' = (ackers \ {g}) \cup {[g EXCEPT !.pc = "close"]}
  /\ UNCHANGED <<callVars, ackClosed, net, handler, handledBy, ackVars, setter, ctxDone>>

\* Line 164
AckClose(g) ==
  /\ g.pc = "close" /\ g.ack.call \notin ackClosed
  /\ ackClosed' = ackClosed \cup {g.ack.call}
  /\ ackers' = ackers \ {g}
  /\ UNCHANGED <<callVars, ackCh, net, handler, handledBy, ackVars, setter, ctxDone>>

\* The channel is closed already, or was while the send waited for room: the
\* process ends, and the model with it
AckPanics(g) ==
  /\ g.pc \in {"send", "close"} /\ g.ack.call \in ackClosed
  /\ panicked' = panicked \cup {g.ack.call}
  /\ UNCHANGED <<callVars, chanVars, net, handler, handledBy, verdict, acks, ackers, setter, ctxDone>>

-----------------------------------------------------------------------------
(* accept of a message, and the lock around the handler *)

\* What handles a message that arrives at end e now
HandlersOf(e) == IF setter[e] = "done" THEN {"routed", "unknownOpCode"} ELSE {"noop"}

\* RLock: waits for a call of MessageHandler that waits for the lock
HandlerStarts(c) ==
  /\ handler[c] = "spawned" /\ setter[To(c)] # "waiting"
  /\ handler' = [handler EXCEPT ![c] = "running"]
  /\ \E h \in HandlersOf(To(c)) : handledBy' = [handledBy EXCEPT ![c] = h]
  /\ UNCHANGED <<callVars, chanVars, net, ackVars, ackers, setter, ctxDone>>

\* NoopMessageHandler acks whatever it gets, a router acks an opcode it does not
\* know with an error, and the other handlers are the user's
Answers(c) ==
  CASE handledBy[c] = "noop" -> {"ok"}
    [] handledBy[c] = "unknownOpCode" -> {"err"}
    [] OTHER -> Kinds[c]

\* Ack or AckWithError, which a handler may call again
HandlerAcks(c) ==
  /\ handler[c] = "running" /\ acks[c] < MaxAcks[c]
  /\ acks' = [acks EXCEPT ![c] = @ + 1]
  /\ \E kind \in Answers(c) :
       /\ verdict' = [verdict EXCEPT ![c] = @ \cup {kind}]
       /\ net' = net \cup {Ack(c, acks[c] + 1, kind)}
  /\ UNCHANGED <<callVars, chanVars, handler, handledBy, ackers, panicked, setter, ctxDone>>

\* The handler returns, not before the calls it made: RUnlock.  Only a handler
\* of the user's may have left the message without an ack.
HandlerReturns(c) ==
  /\ handler[c] = "running"
  /\ handledBy[c] = "routed" \/ acks[c] > 0
  /\ \A d \in Calls : Within[d] = c => call[d] \in {"idle", "returned"}
  /\ handler' = [handler EXCEPT ![c] = "done"]
  /\ UNCHANGED <<callVars, chanVars, net, handledBy, ackVars, ackers, setter, ctxDone>>

\* MessageHandler is called: Lock waits for the running handlers, and keeps
\* new ones from starting
SetHandler(e) ==
  /\ setter[e] = "idle"
  /\ setter' = [setter EXCEPT ![e] = "waiting"]
  /\ UNCHANGED <<callVars, chanVars, net, handler, handledBy, ackVars, ackers, ctxDone>>

\* Mutation: no RUnlock
RunningForever(e) == {c \in Calls : To(c) = e /\ handler[c] \in {"running", "done"}}

Running(e) == {c \in Calls : To(c) = e /\ handler[c] = "running"}

\* Mutation: the handler is replaced without the lock
HandlerSetUnlocked(e) ==
  /\ setter[e] = "waiting"
  /\ setter' = [setter EXCEPT ![e] = "done"]
  /\ UNCHANGED <<callVars, chanVars, net, handler, handledBy, ackVars, ackers, ctxDone>>

HandlerSet(e) ==
  /\ setter[e] = "waiting" /\ Running(e) = {}
  /\ setter' = [setter EXCEPT ![e] = "done"]
  /\ UNCHANGED <<callVars, chanVars, net, handler, handledBy, ackVars, ackers, ctxDone>>

Cancel(e) ==
  /\ ~ctxDone[e] /\ e \in Cancellable
  /\ ctxDone' = [ctxDone EXCEPT ![e] = TRUE]
  /\ UNCHANGED <<callVars, chanVars, net, handler, handledBy, ackVars, ackers, setter>>

-----------------------------------------------------------------------------
CallStep(c) == WriteMsg(c) \/ SelectAck(c) \/ SelectCtx(c) \/ SelectTimeout(c) \/ Unregister(c)

AckerStep == \E g \in ackers : AckLookup(g) \/ AckSend(g) \/ AckClose(g) \/ AckPanics(g)

Alive == panicked = {}

Step ==
  \/ \E c \in Calls : Refuse(c) \/ Register(c) \/ CallStep(c) \/ Deliver(c) \/ HandlerStarts(c)
                        \/ HandlerAcks(c) \/ HandlerReturns(c)
  \/ \E m \in net : m \in Acks /\ DeliverAck(m)
  \/ AckerStep
  \/ \E e \in Ends : SetHandler(e) \/ HandlerSet(e) \/ Cancel(e)

Next == Alive /\ Step

Safety == Init /\ [][Next]_vars

\* Goroutines that can run are scheduled, the 15 s timer fires, and a handler
\* returns once its own calls did; only the handlers of the repository have to
\* ack.  Nobody has to call, deliver or cancel.
Fairness ==
  /\ \A c \in Calls :
       /\ WF_vars(Alive /\ CallStep(c))
       /\ WF_vars(Alive /\ HandlerStarts(c)) /\ WF_vars(Alive /\ HandlerReturns(c))
       /\ WF_vars(Alive /\ handledBy[c] # "routed" /\ acks[c] = 0 /\ HandlerAcks(c))
  /\ WF_vars(Alive /\ AckerStep)
  /\ \A e \in Ends : WF_vars(Alive /\ HandlerSet(e))

Spec == Safety /\ Fairness

-----------------------------------------------------------------------------
\* SendAndWaitForAck reports what the handler of this very message said: nil
\* only if it called Ack, an error of an ack only if it called AckWithError,
\* which "propagates an error" (pkg/service.go:53).  Timeouts, late acks and lost
\* messages never turn into either.
ResultMatchesVerdict ==
  \A c \in Calls :
    /\ result[c] = "ok" => "ok" \in verdict[c]
    /\ result[c] = "error" => verdict[c] \cap {"err", "emptyErr"} # {}

\* accept sends on a closed ack channel, or closes one twice, which panics, only
\* if the message was acked more than once: no timeout, late ack or call that
\* returned between lookup and send leads there.
NoPanic == \A c \in panicked : acks[c] > 1

\* No entry of waitingAcks outlives its call, however the call ends.
NoLeakedWaiter == \A c \in waitingAcks : call[c] \notin {"idle", "returned"}

\* An ack is dropped for want of a channel only if the call has returned:
\* registering comes before writing.
AckDroppedOnlyAfterReturn ==
  [][\A g \in ackers :
       (g.pc = "lookup" /\ g \notin ackers' /\ [g EXCEPT !.pc = "send"] \notin ackers')
         => call[g.ack.call] = "returned"]_vars

\* Every call returns: a lost message, a handler that does not ack, and one that
\* waits for the lock of MessageHandler end in the timeout.  Here and below, unless
\* a second ack ends the process; calls, acks and handlers are finite in number.
CallReturns == []<>(Alive => \A c \in Calls : call[c] \in {"idle", "returned"})

\* No goroutine that accepts an ack hangs, even if the caller is gone between
\* its lookup and its send.
AckerEnds == []<>(Alive => ackers = {})

\* A call of MessageHandler returns, and the messages that wait for the lock
\* meanwhile are handled.
SetterReturns == []<>(Alive => \A e \in Ends : setter[e] # "waiting")

\* Once MessageHandler has returned, no goroutine is left in the handler it
\* replaced: the lock held while a handler runs sees to that.
ReplacedHandlerIsGone ==
  \A c \in Calls : setter[To(c)] = "done" /\ handler[c] = "running" => handledBy[c] # "noop"

Promise == INSTANCE SendPromise WITH outcome <- result

\* SendAndWaitForAck implements SendPromise.
ImplementsSendPromise == Promise!Spec
=============================================================================
