---------------------------- MODULE MessageQueue ----------------------------
(***************************************************************************)
(* unboundedMessageQueue of pkg/network/message_queue.go: a slice guarded  *)
(* by a mutex and a condition variable.  Any number of goroutines append.  *)
(* One goroutine at a time polls: the write loop of consumeConnection for  *)
(* the write queue, the read loop of the service for the read queue.       *)
(*                                                                         *)
(* The module gives one action per step between two points where another   *)
(* goroutine can interfere.  It is instantiated once for each queue, and   *)
(* takes the poller's context as an argument: each new connection polls    *)
(* the write queue with a context of its own.                              *)
(***************************************************************************)
EXTENDS Naturals, Sequences

CONSTANT Nil      \* the nil message of blockingPoll

VARIABLES
  queue,          \* q.queue
  signals,        \* appends that released the lock and did not Signal yet
  poll,           \* where the polling goroutine is in blockingPoll
  ret             \* what its last blockingPoll returned

queueVars == <<queue, signals, poll, ret>>

\* "check":    at line 41, before the first look at the context
\* "lock":     the context was open, at line 44, before the mutex is taken
\* "wait":     parked in cond.Wait
\* "woken":    notified, not yet out of cond.Wait
\* "held":     out of cond.Wait, context open, holds the mutex, at line 45
\* "returned": blockingPoll returned ret
\* "idle":     no goroutine polls this queue
PollStates == {"idle", "check", "lock", "wait", "woken", "held", "returned"}

QueueTypeOK(Msg) ==
  /\ queue \in Seq(Msg)
  /\ signals \in Nat
  /\ poll \in PollStates
  /\ ret \in Msg \cup {Nil}

QueueInit ==
  /\ queue = <<>>
  /\ signals = 0
  /\ poll = "idle"
  /\ ret = Nil

\* "held" is the one state between two actions in which the mutex is taken
MutexFree == poll # "held"

\* A broadcast, or a signal: with one poller they wake the same goroutine
Wake == poll' = IF poll = "wait" THEN "woken" ELSE poll

-----------------------------------------------------------------------------
\* Mutation: append does not signal
AppendMsgNoSignal(m) ==
  /\ MutexFree
  /\ queue' = Append(queue, m)
  /\ UNCHANGED <<signals, poll, ret>>

\* append, up to the Unlock
AppendMsg(m) ==
  /\ MutexFree
  /\ queue' = Append(queue, m)
  /\ signals' = signals + 1
  /\ UNCHANGED <<poll, ret>>

\* The Signal that ends append
Signal ==
  /\ signals > 0
  /\ signals' = signals - 1
  /\ Wake
  /\ UNCHANGED <<queue, ret>>

\* Mutation: the failed message goes to the back of the queue
PrependMsgAtBack(m) ==
  /\ MutexFree
  /\ queue' = Append(queue, m)
  /\ UNCHANGED <<signals, ret>>

\* prepend.  Its one caller is the polling goroutine itself, which is not in
\* blockingPoll then: the Signal that ends prepend finds nobody to wake.
PrependMsg(m) ==
  /\ MutexFree
  /\ queue' = <<m>> \o queue
  /\ UNCHANGED <<signals, ret>>

\* blockingPoll is called
PollCall ==
  /\ poll \in {"idle", "returned"}
  /\ poll' = "check"
  /\ UNCHANGED <<queue, signals, ret>>

\* Line 41
PollCheck(ctxDone) ==
  /\ poll = "check"
  /\ IF ctxDone THEN poll' = "returned" /\ ret' = Nil
                ELSE poll' = "lock" /\ UNCHANGED ret
  /\ UNCHANGED <<queue, signals>>

\* Mutation: the message is returned and stays in the queue
PollTakeKeeping ==
  /\ poll \in {"lock", "held"}
  /\ queue # <<>>
  /\ ret' = Head(queue)
  /\ poll' = "returned"
  /\ UNCHANGED <<queue, signals>>

\* Lines 44, 45 and 52-55, with something in the queue
PollTake ==
  /\ poll \in {"lock", "held"}
  /\ queue # <<>>
  /\ ret' = Head(queue)
  /\ queue' = Tail(queue)
  /\ poll' = "returned"
  /\ UNCHANGED signals

\* Lines 44-46, with nothing in it.  cond.Wait joins the list of waiters
\* before it releases the mutex.
PollWait ==
  /\ poll \in {"lock", "held"}
  /\ queue = <<>>
  /\ poll' = "wait"
  /\ UNCHANGED <<queue, signals, ret>>

\* cond.Wait returns with the mutex, and line 47 looks at the context
PollWakeUp(ctxDone) ==
  /\ poll = "woken"
  /\ IF ctxDone THEN poll' = "returned" /\ ret' = Nil
                ELSE poll' = "held" /\ UNCHANGED ret
  /\ UNCHANGED <<queue, signals>>

\* One step of a blockingPoll that was called
PollStep(ctxDone) ==
  PollCheck(ctxDone) \/ PollTake \/ PollWait \/ PollWakeUp(ctxDone)

\* unblockPoll: a Broadcast, without the mutex
UnblockPoll ==
  /\ Wake
  /\ UNCHANGED <<queue, signals, ret>>
=============================================================================
