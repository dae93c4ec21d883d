----------------------------- MODULE AsyncCommand -----------------------------
(***************************************************************************)
(* The async command pattern, end to end: a reconciler sends a command     *)
(* through a caching service (service_caching_wrapper.go), the data plane  *)
(* acks, executes and notifies (async_command_handler.go), and the result  *)
(* goes to the notification store (notification_store.go and               *)
(* async_command_notification_store.go), which enqueues the key again.     *)
(*                                                                         *)
(* One resource and one pod; a command is known by its generation.  The    *)
(* calls of SendAndWaitForAck keep the promise of SendPromise: a message   *)
(* is handled at most once, and a call that fails says nothing about       *)
(* whether it was.  Every message is handled by a goroutine of its own, so *)
(* commands are executed and results stored in any order.                  *)
(***************************************************************************)
EXTENDS Naturals

CONSTANTS
  None,         \* nil, no value
  MaxGen,       \* bound on the generations of the resource
  MaxSends,     \* bound on the commands sent
  Outcomes,     \* how executions end
  Lossy,        \* messages may be lost, calls time out and the data plane restart
  Cleans        \* CleanPodNotification may be called

ASSUME AsyncAssumption ==
  /\ None \notin Nat /\ MaxGen \in Nat \ {0}
  /\ MaxSends \in Nat /\ Lossy \in BOOLEAN /\ Cleans \in BOOLEAN
  /\ Outcomes \subseteq {"ok", "failed", "failedNoText"}

VARIABLES
  gen,          \* generation of the resource
  queued,       \* the key is in the work queue
  rec,          \* where the worker is in its reconcile
  recGen,       \* the generation it works on
  sent,         \* sentMessages[opcode] of the caching service
  n,            \* number of commands sent; message i is the i-th
  cmdGen,       \* generation of the command in message i
  failures,     \* generations for which a call failed
  cmd,          \* where message i is
  acked,        \* how the data plane acked message i
  outcome,      \* how the execution of message i ended
  res,          \* where the result message of that execution is
  changed,      \* shouldRunReconcile of the goroutine that handles it
  store,        \* notificationStore[srcName][pod]
  status        \* what the reconciler last wrote in the status of the resource

recVars == <<gen, rec, recGen, sent, n, cmdGen, failures, status>>
vars == <<recVars, queued, cmd, acked, outcome, res, changed, store>>

Gens == 1..MaxGen
Sends == 1..MaxSends

\* IsFailed, after MarshalBinary and UnmarshalBinary: an error is sent only if
\* its text is not empty
Failed(o) == o = "failed"

Results == [gen : Gens, failed : BOOLEAN]

TypeOK ==
  /\ gen \in Gens /\ queued \in BOOLEAN
  /\ rec \in {"idle", "check", "wait", "remember", "get"}
  /\ recGen \in Gens /\ sent \in Gens \cup {None}
  /\ n \in 0..MaxSends
  /\ cmdGen \in [Sends -> Gens \cup {None}]
  /\ failures \in SUBSET Gens
  /\ cmd \in [Sends -> {"none", "net", "lost", "spawned", "processing", "done", "crashed"}]
  /\ acked \in [Sends -> {"none", "ok", "error"}]
  /\ outcome \in [Sends -> Outcomes \cup {"none"}]
  /\ res \in [Sends -> {"none", "net", "lost", "spawned", "enqueue", "done"}]
  /\ changed \in [Sends -> BOOLEAN]
  /\ store \in Results \cup {None}
  /\ status \in [gen : Gens \cup {None}, is : {"none", "processing", "succeeded", "failed"}]

Init ==
  /\ gen = 1 /\ queued = TRUE
  /\ rec = "idle" /\ recGen = 1 /\ sent = None /\ n = 0
  /\ cmdGen = [i \in Sends |-> None] /\ failures = {}
  /\ cmd = [i \in Sends |-> "none"] /\ acked = [i \in Sends |-> "none"]
  /\ outcome = [i \in Sends |-> "none"] /\ res = [i \in Sends |-> "none"]
  /\ changed = [i \in Sends |-> FALSE]
  /\ store = None /\ status = [gen |-> None, is |-> "none"]

-----------------------------------------------------------------------------
(* The controller *)

UserUpdates ==
  /\ gen < MaxGen
  /\ gen' = gen + 1 /\ queued' = TRUE
  /\ UNCHANGED <<rec, recGen, sent, n, cmdGen, failures, status, cmd, acked, outcome, res, changed, store>>

ReconcileStarts ==
  /\ rec = "idle" /\ queued
  /\ queued' = FALSE
  /\ rec' = "check" /\ recGen' = gen
  /\ UNCHANGED <<gen, sent, n, cmdGen, failures, status, cmd, acked, outcome, res, changed, store>>

\* Mutation: the cache is not consulted
AlreadySentNever == FALSE

AlreadySent == sent # None /\ sent = recGen

\* SendAndWaitForAck of the caching service returns nil at once
CacheHit ==
  /\ rec = "check" /\ AlreadySent
  /\ rec' = "get"
  /\ UNCHANGED <<gen, recGen, sent, n, cmdGen, failures, status, queued, cmd, acked, outcome, res, changed, store>>

\* It calls SendAndWaitForAck of the service it wraps
SendsCommand ==
  /\ rec = "check" /\ ~AlreadySent /\ n < MaxSends
  /\ rec' = "wait"
  /\ n' = n + 1
  /\ cmdGen' = [cmdGen EXCEPT ![n + 1] = recGen]
  /\ cmd' = [cmd EXCEPT ![n + 1] = "net"]
  /\ UNCHANGED <<gen, recGen, sent, failures, status, queued, acked, outcome, res, changed, store>>

SendSucceeds ==
  /\ rec = "wait" /\ acked[n] = "ok"
  /\ rec' = "remember"
  /\ UNCHANGED <<gen, recGen, sent, n, cmdGen, failures, status, queued, cmd, acked, outcome, res, changed, store>>

\* Mutation: a call that failed is cached too
SendFailsCached ==
  /\ rec = "wait" /\ (acked[n] = "error" \/ Lossy)
  /\ rec' = "remember"
  /\ failures' = failures \cup {recGen}
  /\ UNCHANGED <<gen, recGen, sent, n, cmdGen, status, queued, cmd, acked, outcome, res, changed, store>>

\* The error of an ack, or a timeout: the reconcile fails and is retried
SendFails ==
  /\ rec = "wait" /\ (acked[n] = "error" \/ Lossy)
  /\ rec' = "idle" /\ queued' = TRUE
  /\ failures' = failures \cup {recGen}
  /\ UNCHANGED <<gen, recGen, sent, n, cmdGen, status, cmd, acked, outcome, res, changed, store>>

\* Lines 65-67 of the caching service
Remembers ==
  /\ rec = "remember"
  /\ rec' = "get" /\ sent' = recGen
  /\ UNCHANGED <<gen, recGen, n, cmdGen, failures, status, queued, cmd, acked, outcome, res, changed, store>>

\* Mutation: the command id is not compared
GetCommandResultAny(g) == store

GetCommandResult(g) == IF store # None /\ store.gen = g THEN store ELSE None

\* The end of the reconcile: nil short-circuits it
GetsResult ==
  /\ rec = "get"
  /\ rec' = "idle"
  /\ LET r == GetCommandResult(recGen)
     IN status' = [gen |-> recGen,
                   is |-> CASE r = None -> "processing"
                            [] r # None /\ r.failed -> "failed"
                            [] OTHER -> "succeeded"]
  /\ UNCHANGED <<gen, recGen, sent, n, cmdGen, failures, queued, cmd, acked, outcome, res, changed, store>>

CleanPodNotification ==
  /\ Cleans /\ rec = "idle"
  /\ store' = None
  /\ UNCHANGED <<recVars, queued, cmd, acked, outcome, res, changed>>

Reconcile ==
  ReconcileStarts \/ CacheHit \/ SendsCommand \/ SendSucceeds \/ SendFails \/ Remembers \/ GetsResult

-----------------------------------------------------------------------------
(* The data plane: accept, then HandleServiceMessage of asyncCommandHandler *)

CommandArrives(i) ==
  /\ cmd[i] = "net"
  /\ \/ cmd' = [cmd EXCEPT ![i] = "spawned"]
     \/ Lossy /\ cmd' = [cmd EXCEPT ![i] = "lost"]
  /\ UNCHANGED <<recVars, queued, acked, outcome, res, changed, store>>

\* The payload cannot be parsed: AckWithError, and the command is not executed
ParseFails(i) ==
  /\ cmd[i] = "spawned"
  /\ cmd' = [cmd EXCEPT ![i] = "done"] /\ acked' = [acked EXCEPT ![i] = "error"]
  /\ UNCHANGED <<recVars, queued, outcome, res, changed, store>>

\* Ack, and the handler of the user starts
Accepts(i) ==
  /\ cmd[i] = "spawned"
  /\ cmd' = [cmd EXCEPT ![i] = "processing"] /\ acked' = [acked EXCEPT ![i] = "ok"]
  /\ UNCHANGED <<recVars, queued, outcome, res, changed, store>>

\* NotifySuccess or NotifyFailed.  What their SendAndWaitForAck returns is
\* logged and nothing else.
Notifies(i) ==
  /\ cmd[i] = "processing"
  /\ cmd' = [cmd EXCEPT ![i] = "done"]
  /\ \E o \in Outcomes : outcome' = [outcome EXCEPT ![i] = o]
  /\ res' = [res EXCEPT ![i] = "net"]
  /\ UNCHANGED <<recVars, queued, acked, changed, store>>

\* The process of the data plane ends and starts again behind the same pod: the
\* commands it was at are forgotten.  The controller's end of the connection,
\* and the caching service on top of it, stay.
DataPlaneRestarts ==
  /\ Lossy
  /\ cmd' = [i \in Sends |-> IF cmd[i] \in {"spawned", "processing"} THEN "crashed" ELSE cmd[i]]
  /\ UNCHANGED <<recVars, queued, acked, outcome, res, changed, store>>

-----------------------------------------------------------------------------
(* MessageHandler of the notification store *)

ResultArrives(i) ==
  /\ res[i] = "net"
  /\ \/ res' = [res EXCEPT ![i] = "spawned"]
     \/ Lossy /\ res' = [res EXCEPT ![i] = "lost"]
  /\ UNCHANGED <<recVars, queued, cmd, acked, outcome, changed, store>>

\* The parser returns an error: the handler returns without an ack, the data
\* plane logs the timeout, and the result is gone.  That is the path of the
\* store, for any parser it is given.  ParseAsyncCommandResult itself takes all
\* that MarshalBinary makes; it returns no error for anything else, which is not
\* sent here, but panics where the data is too short for the lengths in it.
ParsePayloadFails(i) ==
  /\ res[i] = "spawned"
  /\ res' = [res EXCEPT ![i] = "lost"]
  /\ UNCHANGED <<recVars, queued, cmd, acked, outcome, changed, store>>

\* The value of a result message, as ParseAsyncCommandResult returns it
ResultOf(i) == [gen |-> cmdGen[i], failed |-> Failed(outcome[i])]

\* The merger of the async command store
PassNewValue(old, new) == new

\* Mutation: the value to store is compared with itself
storeNewValueUnchanged(old, new) ==
  [value |-> IF old = None THEN new ELSE PassNewValue(old, new), reconcile |-> FALSE]

\* What is stored, and whether the reconciler has to run
storeNewValue(old, new) ==
  LET v == IF old = None THEN new ELSE PassNewValue(old, new)
  IN [value |-> v, reconcile |-> v = None \/ v # old]

StoresResult(i) ==
  /\ res[i] = "spawned"
  /\ LET s == storeNewValue(store, ResultOf(i))
     IN store' = s.value /\ changed' = [changed EXCEPT ![i] = s.reconcile]
  /\ res' = [res EXCEPT ![i] = "enqueue"]
  /\ UNCHANGED <<recVars, queued, cmd, acked, outcome>>

\* The ack, and enqueueKey
EnqueuesKey(i) ==
  /\ res[i] = "enqueue"
  /\ res' = [res EXCEPT ![i] = "done"]
  /\ queued' = (queued \/ changed[i])
  /\ UNCHANGED <<recVars, cmd, acked, outcome, changed, store>>

HandlesResult(i) == ParsePayloadFails(i) \/ StoresResult(i) \/ EnqueuesKey(i)

-----------------------------------------------------------------------------
Next ==
  \/ UserUpdates \/ Reconcile \/ CleanPodNotification \/ DataPlaneRestarts
  \/ \E i \in Sends : CommandArrives(i) \/ ParseFails(i) \/ Accepts(i) \/ Notifies(i) \/ ResultArrives(i)
                        \/ HandlesResult(i)

Safety == Init /\ [][Next]_vars

\* The worker and the goroutines that handle results run, and the handler of the
\* user notifies the result of every command in the end
Fairness ==
  /\ WF_vars(Reconcile)
  /\ \A i \in Sends : /\ WF_vars(Notifies(i)) /\ WF_vars(ResultArrives(i))
                       /\ WF_vars(HandlesResult(i))

Spec == Safety /\ Fairness

-----------------------------------------------------------------------------
\* A status that says succeeded or failed comes from an execution of a command
\* of that very generation that ended so, whatever results of other commands
\* are stored in between.
ResultIsReal ==
  status.is \in {"succeeded", "failed"} =>
    \E i \in Sends : /\ cmdGen[i] = status.gen /\ outcome[i] # "none"
                     /\ Failed(outcome[i]) <=> status.is = "failed"

\* The caching service sends a command again only after a call for it failed:
\* reconciling again does not.
SentAgainOnlyAfterFailure ==
  \A i, j \in Sends : i < j /\ cmdGen[i] # None /\ cmdGen[i] = cmdGen[j] => cmdGen[i] \in failures

\* What the caching service takes for sent was acked by the data plane.
CachedIsAccepted == sent # None => \E i \in Sends : cmdGen[i] = sent /\ acked[i] = "ok"

\* A result in the store for the current command reaches the status: every
\* change of the store is followed by a reconcile that sees it, unless the
\* reconcile never gets that far, its calls for the command failing up to the
\* bound on them.
StoredIsSeen ==
  LET Unseen == store # None /\ store.gen = gen
                  /\ status # [gen |-> gen, is |-> IF store.failed THEN "failed" ELSE "succeeded"]
      Exhausted == rec = "check" /\ ~AlreadySent /\ n = MaxSends
  IN Unseen ~> ~Unseen \/ Exhausted

\* The cache keeps a command that was acked from being sent again, so that its
\* result is all that can end the processing.  It does, unless the data plane
\* restarted while it was at the command, the result was lost on the way (the
\* data plane only logs that) or could not be parsed, another result took its
\* place in the store, or it was cleaned.
CachedIsAnswered ==
  \A g \in Gens :
    LET Gone(i) == \/ cmd[i] = "crashed" \/ res[i] = "lost"
                   \/ res[i] = "done" /\ GetCommandResult(g) = None
    IN sent = g ~> \/ status.gen = g /\ status.is \in {"succeeded", "failed"}
                   \/ gen # g \/ \E i \in Sends : cmdGen[i] = g /\ Gone(i)

\* docs/async_command_pattern.md, "commandResult == nil": "the data plane is
\* still processing the message".  A command sent, executed and notified, with
\* its result handled, is not being processed; yet the store keeps one result
\* for each pod, and the late result of another command takes its place.
NilMeansProcessing ==
  rec = "get" /\ GetCommandResult(recGen) = None =>
    \E i \in Sends : cmdGen[i] = recGen /\ (cmd[i] # "done" \/ res[i] # "done")
=============================================================================
