------------------------- MODULE AsyncCommandProofs -------------------------
(***************************************************************************)
(* Proofs about AsyncCommand, for any number of generations and commands   *)
(* and however messages are lost and the data plane restarts: results are  *)
(* real, what is cached was accepted, and a command is repeated only after *)
(* a failure.                                                              *)
(***************************************************************************)
EXTENDS AsyncCommand, TLAPS

\* Message i exists once it is sent; it is acked once it is handled and has an
\* outcome once its execution ended, and its result is sent after that.
Progress ==
  \A i \in Sends :
    /\ i <= n <=> cmdGen[i] # None
    /\ i > n => cmd[i] = "none"
    /\ acked[i] # "none" => cmd[i] \in {"processing", "done", "crashed"}
    /\ outcome[i] # "none" => cmd[i] = "done"
    /\ res[i] # "none" => outcome[i] # "none"

\* The call the worker is in is that of the last message.
InCall ==
  /\ rec \in {"wait", "remember"} => n \in Sends /\ cmdGen[n] = recGen
  /\ rec = "remember" => acked[n] = "ok"

\* The store holds what some execution sent.
Stored ==
  store # None =>
    \E i \in Sends : /\ cmdGen[i] = store.gen /\ outcome[i] # "none"
                     /\ Failed(outcome[i]) <=> store.failed

\* Generations grow, and a command of the current one that was sent, with no
\* call for it failed, is in the call that sent it or in the cache.
Tracked ==
  /\ recGen <= gen
  /\ \A i \in Sends : cmdGen[i] # None =>
       /\ cmdGen[i] <= recGen
       /\ cmdGen[i] = recGen /\ recGen \notin failures =>
            (rec \in {"wait", "remember"} /\ i = n) \/ sent = recGen

IInv ==
  /\ TypeOK /\ Progress /\ InCall /\ Stored /\ Tracked
  /\ ResultIsReal /\ CachedIsAccepted /\ SentAgainOnlyAfterFailure

-----------------------------------------------------------------------------
\* None and "none" are not values
LEMMA NoValue ==
  /\ None \notin Gens /\ "none" \notin Outcomes /\ 1 \in Gens /\ Gens \subseteq Nat /\ Sends \subseteq Nat
  /\ MaxGen \in Nat /\ MaxSends \in Nat
  BY AsyncAssumption DEF Gens, Sends

\* The invariant holds before anything is sent.
LEMMA InitIInv == Init => IInv
  <1> SUFFICES ASSUME Init PROVE IInv
      OBVIOUS
  <1> USE NoValue DEF Init
  <1>1. TypeOK
    <2>1. TRUE \in BOOLEAN /\ FALSE \in BOOLEAN
      BY Zenon
    <2> QED
      BY <2>1 DEF TypeOK
  <1>2. Progress /\ InCall /\ Stored /\ Tracked
    BY DEF Progress, InCall, Stored, Tracked, Sends
  <1>3. ResultIsReal /\ CachedIsAccepted /\ SentAgainOnlyAfterFailure
    BY DEF ResultIsReal, CachedIsAccepted, SentAgainOnlyAfterFailure
  <1> QED
    BY <1>1, <1>2, <1>3 DEF IInv

\* A result that was sent is that of a command that was sent.
LEMMA ResultType ==
  ASSUME TypeOK, Progress, NEW i \in Sends, res[i] # "none"
  PROVE  ResultOf(i) \in Results /\ i <= n
  <1>1. i <= n /\ cmdGen[i] \in Gens
    BY NoValue DEF TypeOK, Progress
  <1>2. Failed(outcome[i]) \in BOOLEAN
    BY Zenon DEF Failed
  <1> QED
    BY <1>1, <1>2 DEF ResultOf, Results

\* Every step keeps the types.
LEMMA NextTypeOK ==
  ASSUME TypeOK, Progress, Next PROVE TypeOK'
  <1> USE NoValue DEF recVars
  <1>1. CASE UserUpdates
    <2>1. queued' \in BOOLEAN
      BY <1>1, Zenon DEF UserUpdates
    <2>2. gen' \in Gens
      BY <1>1 DEF UserUpdates, TypeOK, Gens
    <2> QED
      BY <1>1, <2>1, <2>2 DEF UserUpdates, TypeOK
  <1>2. CASE ReconcileStarts
    <2>1. queued' \in BOOLEAN
      BY <1>2, Zenon DEF ReconcileStarts
    <2> QED
      BY <1>2, <2>1 DEF ReconcileStarts, TypeOK
  <1>3. CASE CacheHit \/ SendSucceeds \/ Remembers
    <2>1. CASE CacheHit
      BY <2>1 DEF CacheHit, TypeOK
    <2>2. CASE SendSucceeds
      BY <2>2 DEF SendSucceeds, TypeOK
    <2>3. CASE Remembers
      BY <2>3 DEF Remembers, TypeOK
    <2> QED
      BY <1>3, <2>1, <2>2, <2>3
  <1>4. CASE SendsCommand
    <2>1. n' \in 0..MaxSends
      BY <1>4 DEF SendsCommand, TypeOK
    <2> QED
      BY <1>4, <2>1, Zenon DEF SendsCommand, TypeOK
  <1>5. CASE SendFails
    <2>1. queued' \in BOOLEAN
      BY <1>5, Zenon DEF SendFails
    <2>2. failures' \in SUBSET Gens
      BY <1>5 DEF SendFails, TypeOK
    <2> QED
      BY <1>5, <2>1, <2>2 DEF SendFails, TypeOK
  <1>6. CASE GetsResult
    <2>1. status' \in [gen : Gens \cup {None}, is : {"none", "processing", "succeeded", "failed"}]
      BY <1>6 DEF GetsResult, TypeOK
    <2> QED
      BY <1>6, <2>1 DEF GetsResult, TypeOK
  <1>7. CASE CleanPodNotification
    BY <1>7 DEF CleanPodNotification, TypeOK
  <1>8. ASSUME NEW i \in Sends, CommandArrives(i) \/ ParseFails(i) \/ Accepts(i) PROVE TypeOK'
    BY <1>8, ZenonT(60) DEF CommandArrives, ParseFails, Accepts, TypeOK
  <1>9. ASSUME NEW i \in Sends, Notifies(i) \/ ResultArrives(i) PROVE TypeOK'
    <2>1. CASE Notifies(i)
      BY <2>1 DEF Notifies, TypeOK
    <2>2. CASE ResultArrives(i)
      BY <2>2 DEF ResultArrives, TypeOK
    <2> QED
      BY <1>9, <2>1, <2>2
  <1>10. ASSUME NEW i \in Sends, StoresResult(i) PROVE TypeOK'
    <2>1. ResultOf(i) \in Results
      BY <1>10, ResultType DEF StoresResult
    <2>2. store' = ResultOf(i)
      BY <1>10 DEF StoresResult, storeNewValue, PassNewValue
    <2>3. storeNewValue(store, ResultOf(i)).reconcile \in BOOLEAN
      <3>1. storeNewValue(store, ResultOf(i)).reconcile = (ResultOf(i) = None \/ ResultOf(i) # store)
        BY DEF storeNewValue, PassNewValue
      <3> QED
        BY <3>1, Zenon
    <2>4. changed' \in [Sends -> BOOLEAN]
      BY <1>10, <2>3 DEF StoresResult, TypeOK
    <2>5. res' \in [Sends -> {"none", "net", "lost", "spawned", "enqueue", "done"}]
      BY <1>10 DEF StoresResult, TypeOK
    <2>6. UNCHANGED <<recVars, queued, cmd, acked, outcome>>
      BY <1>10 DEF StoresResult
    <2> QED
      BY <2>1, <2>2, <2>4, <2>5, <2>6 DEF TypeOK
  <1>11. ASSUME NEW i \in Sends, EnqueuesKey(i) PROVE TypeOK'
    <2>1. queued' \in BOOLEAN
      BY <1>11, Zenon DEF EnqueuesKey
    <2> QED
      BY <1>11, <2>1 DEF EnqueuesKey, TypeOK
  <1>12. ASSUME NEW i \in Sends, ParsePayloadFails(i) PROVE TypeOK'
    BY <1>12 DEF ParsePayloadFails, TypeOK
  <1>13. CASE DataPlaneRestarts
    BY <1>13 DEF DataPlaneRestarts, TypeOK
  <1> QED
    BY <1>1, <1>2, <1>3, <1>4, <1>5, <1>6, <1>7, <1>8, <1>9, <1>10, <1>11, <1>12, <1>13 DEF Next, Reconcile, HandlesResult

\* Every step keeps the order of the life of a message.
LEMMA NextProgress ==
  ASSUME TypeOK, Progress, Next PROVE Progress'
  <1> USE NoValue DEF TypeOK, Progress, recVars
  <1>1. CASE SendsCommand
    BY <1>1 DEF SendsCommand
  <1>2. CASE UserUpdates \/ ReconcileStarts \/ CacheHit \/ SendSucceeds \/ SendFails \/ Remembers \/ GetsResult
               \/ CleanPodNotification
    BY <1>2 DEF UserUpdates, ReconcileStarts, CacheHit, SendSucceeds, SendFails, Remembers, GetsResult,
                CleanPodNotification
  <1>3. ASSUME NEW i \in Sends, CommandArrives(i) PROVE Progress'
    BY <1>3 DEF CommandArrives
  <1>4. ASSUME NEW i \in Sends, ParseFails(i) \/ Accepts(i) PROVE Progress'
    BY <1>4 DEF ParseFails, Accepts
  <1>5. ASSUME NEW i \in Sends, Notifies(i) PROVE Progress'
    BY <1>5 DEF Notifies
  <1>6. ASSUME NEW i \in Sends, ResultArrives(i) \/ ParsePayloadFails(i) \/ StoresResult(i) \/ EnqueuesKey(i)
        PROVE  Progress'
    BY <1>6 DEF ResultArrives, ParsePayloadFails, StoresResult, EnqueuesKey
  <1>7. CASE DataPlaneRestarts
    BY <1>7 DEF DataPlaneRestarts
  <1> QED
    BY <1>1, <1>2, <1>3, <1>4, <1>5, <1>6, <1>7 DEF Next, Reconcile, HandlesResult

\* What a step leaves alone: a message sent keeps its command, an ack and an
\* outcome stay, and generations only grow.
LEMMA Stable ==
  ASSUME TypeOK, Progress, Next, NEW i \in Sends
  PROVE  /\ cmdGen[i] # None => cmdGen'[i] = cmdGen[i]
         /\ acked[i] # "none" => acked'[i] = acked[i]
         /\ outcome[i] # "none" => outcome'[i] = outcome[i]
  <1> USE NoValue DEF TypeOK, Progress, recVars
  <1>1. CASE SendsCommand
    BY <1>1 DEF SendsCommand
  <1>2. CASE UserUpdates \/ ReconcileStarts \/ CacheHit \/ SendSucceeds \/ SendFails \/ Remembers \/ GetsResult
               \/ CleanPodNotification
    BY <1>2 DEF UserUpdates, ReconcileStarts, CacheHit, SendSucceeds, SendFails, Remembers, GetsResult,
                CleanPodNotification
  <1>3. CASE \E j \in Sends : CommandArrives(j) \/ ParseFails(j) \/ Accepts(j)
    BY <1>3 DEF CommandArrives, ParseFails, Accepts
  <1>4. CASE \E j \in Sends : \/ Notifies(j) \/ ResultArrives(j) \/ ParsePayloadFails(j) \/ StoresResult(j)
                             \/ EnqueuesKey(j)
    BY <1>4 DEF Notifies, ResultArrives, ParsePayloadFails, StoresResult, EnqueuesKey
  <1>5. CASE DataPlaneRestarts
    BY <1>5 DEF DataPlaneRestarts
  <1> QED
    BY <1>1, <1>2, <1>3, <1>4, <1>5 DEF Next, Reconcile, HandlesResult

\* The data plane, and the goroutines that handle results, leave the worker
\* alone.
LEMMA Elsewhere ==
  /\ DataPlaneRestarts => UNCHANGED recVars
  /\ \A i \in Sends :
       CommandArrives(i) \/ ParseFails(i) \/ Accepts(i) \/ Notifies(i) \/ ResultArrives(i) \/ HandlesResult(i)
         => UNCHANGED recVars
  BY DEF DataPlaneRestarts, CommandArrives, ParseFails, Accepts, Notifies, ResultArrives, HandlesResult,
         ParsePayloadFails, StoresResult, EnqueuesKey

\* The worker waits for the message it sent last, and remembers it if acked.
LEMMA NextInCall ==
  ASSUME TypeOK, Progress, InCall, Next PROVE InCall'
  <1> USE NoValue DEF TypeOK, InCall
  <1>1. CASE SendsCommand
    BY <1>1 DEF SendsCommand, Sends
  <1>2. CASE UserUpdates \/ ReconcileStarts \/ CacheHit \/ SendSucceeds \/ SendFails \/ Remembers \/ GetsResult
               \/ CleanPodNotification
    BY <1>2 DEF UserUpdates, ReconcileStarts, CacheHit, SendSucceeds, SendFails, Remembers, GetsResult,
                CleanPodNotification, recVars
  <1>3. CASE UNCHANGED recVars
    BY <1>3, Stable DEF recVars
  <1> QED
    BY <1>1, <1>2, <1>3, Elsewhere DEF Next, Reconcile

\* Only StoresResult fills the store, with the result of an execution.
LEMMA NextStored ==
  ASSUME TypeOK, Progress, Stored, Next PROVE Stored'
  <1>1. ASSUME NEW i \in Sends, StoresResult(i) PROVE Stored'
    <2>1. store' = ResultOf(i)
      BY <1>1 DEF StoresResult, storeNewValue, PassNewValue
    <2>2. outcome[i] # "none" /\ UNCHANGED <<outcome, cmdGen>>
      BY <1>1 DEF StoresResult, recVars, Progress
    <2> QED
      BY <2>1, <2>2 DEF Stored, ResultOf
  <1>2. CASE store' \in {store, None}
    <2> SUFFICES ASSUME store' = store, store # None PROVE Stored'
        BY <1>2 DEF Stored
    <2>1. PICK i \in Sends : cmdGen[i] = store.gen /\ outcome[i] # "none" /\ (Failed(outcome[i]) <=> store.failed)
      BY DEF Stored
    <2>2. cmdGen[i] # None
      BY <2>1 DEF Progress, TypeOK, Sends
    <2>3. cmdGen'[i] = cmdGen[i] /\ outcome'[i] = outcome[i]
      BY <2>1, <2>2, Stable
    <2> QED
      BY <2>1, <2>3 DEF Stored, Failed
  <1>3. CASE UserUpdates \/ Reconcile \/ CleanPodNotification
    BY <1>2, <1>3 DEF UserUpdates, Reconcile, ReconcileStarts, CacheHit, SendsCommand, SendSucceeds, SendFails,
                      Remembers, GetsResult, CleanPodNotification
  <1>4. ASSUME NEW i \in Sends, \/ CommandArrives(i) \/ ParseFails(i) \/ Accepts(i) \/ Notifies(i)
                                \/ ResultArrives(i) \/ ParsePayloadFails(i) \/ EnqueuesKey(i)
        PROVE  Stored'
    BY <1>2, <1>4 DEF CommandArrives, ParseFails, Accepts, Notifies, ResultArrives, ParsePayloadFails, EnqueuesKey
  <1>5. CASE DataPlaneRestarts
    BY <1>2, <1>5 DEF DataPlaneRestarts
  <1> QED
    BY <1>1, <1>3, <1>4, <1>5 DEF Next, HandlesResult

\* A new generation has not been sent; a call that ends without a failure ends
\* in the cache.
LEMMA NextTracked ==
  ASSUME TypeOK, Progress, InCall, Tracked, Next PROVE Tracked'
  <1> USE NoValue DEF TypeOK, Tracked
  <1>1. CASE UserUpdates
    BY <1>1 DEF UserUpdates, Gens
  <1>2. CASE ReconcileStarts
    <2>1. recGen \in Nat /\ gen \in Nat /\ \A i \in Sends : cmdGen[i] # None => cmdGen[i] \in Nat
      BY ZenonT(60)
    <2> QED
      BY <1>2, <2>1 DEF ReconcileStarts
  <1>3. CASE CacheHit \/ SendSucceeds
    BY <1>3 DEF CacheHit, SendSucceeds
  <1>4. CASE SendsCommand
    BY <1>4 DEF SendsCommand, AlreadySent, Progress
  <1>5. CASE SendFails
    BY <1>5 DEF SendFails
  <1>6. CASE Remembers \/ GetsResult
    BY <1>6 DEF Remembers, GetsResult
  <1>7. CASE UNCHANGED recVars
    BY <1>7 DEF recVars
  <1> QED
    BY <1>1, <1>2, <1>3, <1>4, <1>5, <1>6, <1>7, Elsewhere DEF Next, Reconcile, CleanPodNotification

\* Only GetsResult writes a result in the status, and takes it from the store.
LEMMA NextResultIsReal ==
  ASSUME TypeOK, Progress, Stored, ResultIsReal, Next PROVE ResultIsReal'
  <1>1. CASE GetsResult
    <2> SUFFICES ASSUME status'.is \in {"succeeded", "failed"} PROVE ResultIsReal'
        BY DEF ResultIsReal
    <2>1. store # None /\ store.gen = recGen
      BY <1>1 DEF GetsResult, GetCommandResult
    <2>2. status'.gen = recGen /\ (store.failed <=> status'.is = "failed")
      BY <1>1, <2>1 DEF GetsResult, GetCommandResult
    <2>3. UNCHANGED <<cmdGen, outcome>>
      BY <1>1 DEF GetsResult
    <2>4. PICK i \in Sends : cmdGen[i] = store.gen /\ outcome[i] # "none" /\ (Failed(outcome[i]) <=> store.failed)
      BY <2>1 DEF Stored
    <2> QED
      BY <2>1, <2>2, <2>3, <2>4 DEF ResultIsReal, Failed
  <1>2. CASE UNCHANGED status
    <2> SUFFICES ASSUME status.is \in {"succeeded", "failed"} PROVE ResultIsReal'
        BY <1>2 DEF ResultIsReal
    <2>1. PICK i \in Sends : /\ cmdGen[i] = status.gen /\ outcome[i] # "none"
                             /\ Failed(outcome[i]) <=> status.is = "failed"
      BY DEF ResultIsReal
    <2>2. cmdGen[i] # None
      BY <2>1 DEF Progress, TypeOK, Sends
    <2>3. cmdGen'[i] = cmdGen[i] /\ outcome'[i] = outcome[i]
      BY <2>1, <2>2, Stable
    <2> QED
      BY <1>2, <2>1, <2>3 DEF ResultIsReal, Failed
  <1> QED
    BY <1>1, <1>2, Elsewhere DEF Next, UserUpdates, Reconcile, ReconcileStarts, CacheHit, SendsCommand, SendSucceeds,
                                 SendFails, Remembers, CleanPodNotification, recVars

\* Only Remembers fills the cache, after an ack.
LEMMA NextCachedIsAccepted ==
  ASSUME TypeOK, Progress, InCall, CachedIsAccepted, Next PROVE CachedIsAccepted'
  <1>1. CASE Remembers
    BY <1>1 DEF Remembers, InCall, CachedIsAccepted
  <1>2. CASE UNCHANGED sent
    <2> SUFFICES ASSUME sent # None PROVE CachedIsAccepted'
        BY <1>2 DEF CachedIsAccepted
    <2>1. PICK i \in Sends : cmdGen[i] = sent /\ acked[i] = "ok"
      BY DEF CachedIsAccepted
    <2>2. cmdGen'[i] = cmdGen[i] /\ acked'[i] = acked[i]
      BY <2>1, Stable
    <2> QED
      BY <1>2, <2>1, <2>2 DEF CachedIsAccepted
  <1> QED
    BY <1>1, <1>2, Elsewhere DEF Next, UserUpdates, Reconcile, ReconcileStarts, CacheHit, SendsCommand, SendSucceeds,
                                 SendFails, GetsResult, CleanPodNotification, recVars

\* Only SendsCommand sends, and Tracked tells what was sent before.
LEMMA NextSentAgain ==
  ASSUME TypeOK, Progress, InCall, Tracked, SentAgainOnlyAfterFailure, Next PROVE SentAgainOnlyAfterFailure'
  <1> USE NoValue DEF TypeOK, SentAgainOnlyAfterFailure
  <1>1. CASE SendsCommand
    <2>1. \A i \in Sends : cmdGen[i] = recGen => recGen \in failures
      BY <1>1 DEF SendsCommand, AlreadySent, Tracked
    <2>2. \A i \in Sends : i <= n <=> cmdGen[i] # None
      BY DEF Progress
    <2>3. UNCHANGED failures /\ n + 1 \in Sends /\ cmdGen' = [cmdGen EXCEPT ![n + 1] = recGen]
      BY <1>1 DEF SendsCommand, Sends
    <2> QED
      BY <2>1, <2>2, <2>3
  <1>2. CASE SendFails
    BY <1>2 DEF SendFails
  <1>3. CASE UNCHANGED <<cmdGen, failures>>
    BY <1>3
  <1> QED
    BY <1>1, <1>2, <1>3, Elsewhere DEF Next, UserUpdates, Reconcile, ReconcileStarts, CacheHit, SendSucceeds,
                                       Remembers, GetsResult, CleanPodNotification, recVars

\* The invariant holds in every reachable state.
LEMMA AlwaysIInv == Safety => []IInv
  <1>1. IInv /\ [Next]_vars => IInv'
    <2> SUFFICES ASSUME IInv, [Next]_vars PROVE IInv'
        OBVIOUS
    <2>1. CASE Next
      BY SMTT(30), <2>1, NextTypeOK, NextProgress, NextInCall, NextStored, NextTracked, NextResultIsReal,
         NextCachedIsAccepted, NextSentAgain DEF IInv
    <2>2. CASE UNCHANGED vars
      BY <2>2 DEF vars, recVars, IInv, TypeOK, Progress, InCall, Stored, Tracked, ResultIsReal, CachedIsAccepted,
                  SentAgainOnlyAfterFailure, Failed
    <2> QED
      BY <2>1, <2>2
  <1> QED
    BY InitIInv, <1>1, PTL DEF Safety

\* The variables of the controller, the data plane and the store keep their types.
THEOREM TypeCorrect == Safety => []TypeOK
  <1>1. IInv => TypeOK
    BY DEF IInv
  <1> QED
    BY AlwaysIInv, <1>1, PTL

\* What storeNewValue keeps for the pod is the result of a command that was sent
\* and whose execution ended that way.
THEOREM StoreIsReal == Safety => []Stored
  <1>1. IInv => Stored
    BY DEF IInv
  <1> QED
    BY AlwaysIInv, <1>1, PTL

\* GetCommandResult, and the status made of it, report the execution of the
\* command asked for, whichever results are stored in whatever order.
THEOREM StatusIsReal == Safety => []ResultIsReal
  <1>1. IInv => ResultIsReal
    BY DEF IInv
  <1> QED
    BY AlwaysIInv, <1>1, PTL

\* The caching service skips no command that was not acked.
THEOREM CacheIsRight == Safety => []CachedIsAccepted
  <1>1. IInv => CachedIsAccepted
    BY DEF IInv
  <1> QED
    BY AlwaysIInv, <1>1, PTL

\* The caching service sends no command twice, unless a call for it failed.
THEOREM RepeatedOnlyAfterFailure == Safety => []SentAgainOnlyAfterFailure
  <1>1. IInv => SentAgainOnlyAfterFailure
    BY DEF IInv
  <1> QED
    BY AlwaysIInv, <1>1, PTL
=============================================================================
