---------------------------- MODULE QueuePolling ----------------------------
(***************************************************************************)
(* One unboundedMessageQueue in use: producers append, one goroutine polls *)
(* in a loop and gives a message back when it could not use it, and one    *)
(* goroutine, once the context is closed, calls unblockPoll.  This is the  *)
(* write queue during one consumeConnection; the read queue is the same    *)
(* without the giving back.                                                *)
(***************************************************************************)
EXTENDS MessageQueue

CONSTANT MaxMsgs      \* bound on the number of appends

ASSUME MaxMsgsAssumption == MaxMsgs \in Nat
ASSUME NilAssumption == Nil \notin Nat

VARIABLES
  ctxDone,      \* the context given to blockingPoll is closed
  unblocked,    \* unblockPoll was called
  produced,     \* number of appends; the i-th appends message i
  used          \* the messages the poller used, in order

vars == <<queue, signals, poll, ret, ctxDone, unblocked, produced, used>>

TypeOK ==
  /\ QueueTypeOK(Nat)
  /\ ctxDone \in BOOLEAN
  /\ unblocked \in BOOLEAN
  /\ produced \in Nat
  /\ used \in Seq(Nat)

Init ==
  /\ QueueInit
  /\ ctxDone = FALSE
  /\ unblocked = FALSE
  /\ produced = 0
  /\ used = <<>>

Produce ==
  /\ produced < MaxMsgs
  /\ AppendMsg(produced + 1)
  /\ produced' = produced + 1
  /\ UNCHANGED <<ctxDone, unblocked, used>>

ProducerSignal ==
  /\ Signal
  /\ UNCHANGED <<ctxDone, unblocked, produced, used>>

\* The loop starts: base_connection.go:97
StartPolling ==
  /\ poll = "idle"
  /\ PollCall
  /\ UNCHANGED <<ctxDone, unblocked, produced, used>>

PollerStep ==
  /\ PollStep(ctxDone)
  /\ UNCHANGED <<ctxDone, unblocked, produced, used>>

\* connWrite succeeded, and the loop polls again
Use ==
  /\ poll = "returned" /\ ret # Nil
  /\ used' = Append(used, ret)
  /\ PollCall
  /\ UNCHANGED <<ctxDone, unblocked, produced>>

\* connWrite failed with a transient error: prepend, and the loop polls again
GiveBack ==
  /\ poll = "returned" /\ ret # Nil
  /\ PrependMsg(ret)
  /\ poll' = "check"
  /\ UNCHANGED <<ctxDone, unblocked, produced, used>>

Cancel ==
  /\ ~ctxDone
  /\ ctxDone' = TRUE
  /\ UNCHANGED <<queueVars, unblocked, produced, used>>

\* base_connection.go:85
Unblock ==
  /\ ctxDone /\ ~unblocked
  /\ unblocked' = TRUE
  /\ UnblockPoll
  /\ UNCHANGED <<ctxDone, produced, used>>

Next == Produce \/ ProducerSignal \/ StartPolling \/ PollerStep \/ Use \/ GiveBack
          \/ Cancel \/ Unblock

\* A goroutine that can run is scheduled.  Nothing makes a producer append or
\* the context close.
Fairness ==
  /\ WF_vars(ProducerSignal)
  /\ WF_vars(StartPolling)
  /\ WF_vars(PollerStep)
  /\ WF_vars(Use \/ GiveBack)
  /\ WF_vars(Unblock)

Safety == Init /\ [][Next]_vars

Spec == Safety /\ Fairness

-----------------------------------------------------------------------------
InPoll == poll \in {"check", "lock", "wait", "woken", "held"}

InHand == IF poll = "returned" /\ ret # Nil THEN <<ret>> ELSE <<>>

\* No message is lost, duplicated or reordered between append and its use,
\* however often the poller gives messages back: what was used, what the
\* poller holds and what is queued are the appended messages in their order.
Fifo == used \o InHand \o queue = [i \in 1..produced |-> i]

\* append sends its Signal after it released the mutex and blockingPoll looks
\* at the queue under the mutex, so no poller is parked next to a message
\* unless a Signal is still to come.
NoMissedMessage == poll = "wait" /\ queue # <<>> => signals > 0

\* blockingPoll returns nil only if the context it was given is closed.
NilOnlyIfClosed == poll = "returned" /\ ret = Nil => ctxDone

\* message_queue.go:39, "If the provided context get closed, this method
\* unblocks and return nil", for the caller that also calls unblockPoll, as
\* base_connection.go:85 does.  The code does not keep this promise: a context
\* closed, and a Broadcast sent, between line 41 and line 46 are both missed.
CloseEndsPoll == (InPoll /\ ctxDone) ~> ~InPoll

Promise == INSTANCE BlockingFifo WITH
           Message <- 1..MaxMsgs,
           items <- queue,
           polling <- poll # "returned",
           result <- ret,
           closed <- ctxDone

\* The queue, with its mutex, condition variable and wake-ups, implements the
\* promise of BlockingFifo, that a message ends a poll included.
ImplementsBlockingFifo == Promise!Spec
=============================================================================
