------------------------ MODULE ConnectionPoolProofs ------------------------
(***************************************************************************)
(* Proofs about ConnectionPool, for any keys, hosts and numbers of dials   *)
(* and calls of Close: the pool leaks no service but those of hosts listed *)
(* repeatedly, hands out none that it cancelled, announces those it        *)
(* connects, and connects those wanted.                                    *)
(***************************************************************************)
EXTENDS ConnectionPool, TLAPS

\* What DialControlService overwrites: nothing, or the service of a host that
\* is listed repeatedly.
Replaceable(s) == s = None \/ s \in relisted

\* What the worker of a key relies on between its look at the connected hosts
\* and its Adds: the hosts still to dial are not connected, unless they were
\* dialed before by the same call.
ReadyToDial(k) ==
  /\ rec[k] \in {"dial", "add", "newCb"} => \A h \in Hosts : todo[k][h] <= want[k][h]
  /\ rec[k] \in {"dial", "add"} => \A h \in Hosts : todo[k][h] > 0 => Replaceable(conns[k][h])
  /\ rec[k] = "newCb" => \A h \in Hosts \ {host[k]} : todo[k][h] > 0 => Replaceable(conns[k][h])
  /\ rec[k] \in {"add", "newCb"} =>
       /\ host[k] \in Hosts /\ todo[k][host[k]] > 0 /\ svc[k] \in Services
       /\ want[k][host[k]] > 1 => svc[k] \in relisted
  /\ rec[k] = "newCb" => conns[k][host[k]] \in {svc[k], None}
  /\ rec[k] = "remove" => host[k] \in Hosts

NotYetConnected == \A k \in Keys : ReadyToDial(k)

\* A service about to be added is known to its worker only.
Unshared ==
  \A k \in Keys :
    rec[k] = "add" =>
      /\ svc[k] \in Services /\ svc[k] \notin cancelled
      /\ \A l \in Keys, h \in Hosts : conns[l][h] # svc[k]
      /\ \A l \in Keys \ {k} : rec[l] = "add" => svc[l] # svc[k]

\* NoLeak and PooledIsLive, without the set of pooled services.
Kept ==
  \A s \in Services :
    s \in cancelled \cup relisted \/ (\E k \in Keys, h \in Hosts : conns[k][h] = s)
      \/ (\E k \in Keys : rec[k] = "add" /\ svc[k] = s)

Live ==
  /\ \A k \in Keys, h \in Hosts : conns[k][h] \notin cancelled
  /\ \A k, l \in Keys, g, h \in Hosts : conns[k][g] = conns[l][h] /\ conns[k][g] # None => k = l /\ g = h

IInv == TypeOK /\ NotYetConnected /\ Unshared /\ Kept /\ Live

-----------------------------------------------------------------------------
\* GetConnectedHosts and HoldersOf, as they are used below
LEMMA PooledIs ==
  ASSUME TypeOK
  PROVE  /\ \A s : s \in Pooled <=> s # None /\ \E k \in Keys, h \in Hosts : conns[k][h] = s
         /\ \A k \in Keys : \A s : s \in HoldersOf(k) <=> s # None /\ \E h \in Hosts : conns[k][h] = s
  BY DEF Pooled, HoldersOf, GetConnectedHosts

\* Services are numbers, and None is not one
LEMMA NoneIsNoService ==
  ASSUME TypeOK
  PROVE  None \notin Services /\ Services \subseteq Nat /\ None \notin Hosts
  BY PoolAssumption DEF TypeOK, Services

\* An empty pool satisfies the invariant.
LEMMA InitIInv == Init => IInv
  <1> SUFFICES ASSUME Init PROVE IInv
      OBVIOUS
  <1>1. TypeOK
    <2>1. TRUE \in BOOLEAN
      BY Zenon
    <2> QED
      BY <2>1, PoolAssumption DEF Init, TypeOK, NoConns, NoHosts, Lists, RecStates, Services
  <1>2. NotYetConnected /\ Unshared /\ Live
    BY DEF Init, NotYetConnected, ReadyToDial, Unshared, Live, NoConns
  <1>3. Kept
    BY DEF Init, Kept, Services
  <1> QED
    BY <1>1, <1>2, <1>3 DEF IInv

\* Every step of a worker and of Close keeps the types.
LEMMA NextTypeOK == ASSUME TypeOK, NotYetConnected, Unshared, Next PROVE TypeOK'
  <1> USE DEF TypeOK, RecStates
  <1>0. TRUE \in BOOLEAN /\ FALSE \in BOOLEAN
    BY Zenon
  <1>1. ASSUME NEW k \in Keys, NEW w \in Lists, Reconcile(k, w) PROVE TypeOK'
    <2>1. [h \in Hosts |-> IF conns[k][h] = None THEN w[h] ELSE 0] \in Lists
      BY PoolAssumption DEF Lists
    <2>2. {h \in GetConnectedHosts(k) : w[h] = 0} \in SUBSET Hosts
      BY DEF GetConnectedHosts
    <2> QED
      BY <1>1, <2>1, <2>2, Zenon DEF Reconcile, Services
  <1>2. ASSUME NEW k \in Keys, NEW h \in Hosts, DialSucceeds(k, h) PROVE TypeOK'
    BY <1>2 DEF DialSucceeds, Services
  <1>3. ASSUME NEW k \in Keys, NEW h \in Hosts, CallsOldServiceCb(k, h) PROVE TypeOK'
    BY <1>3, Zenon DEF CallsOldServiceCb, Services
  <1>a. ASSUME NEW k \in Keys, AllDialed(k) PROVE TypeOK'
    BY <1>a, Zenon DEF AllDialed, recVars, Services
  <1>4. ASSUME NEW k \in Keys, DialFails(k) \/ Returns(k) PROVE TypeOK'
    <2>1. NoHosts \in Lists
      BY PoolAssumption DEF NoHosts, Lists
    <2>2. ReturnsToWorker(k) /\ UNCHANGED <<conns, dialed, cancelled, told, relisted, closes>>
      BY <1>4, Zenon DEF DialFails, Returns
    <2> QED
      BY <1>0, <2>1, <2>2 DEF ReturnsToWorker, Services
  <1>5. ASSUME NEW k \in Keys, Adds(k) PROVE TypeOK'
    BY <1>5 DEF Adds, recVars, Services, NotYetConnected, ReadyToDial, Unshared
  <1>6. ASSUME NEW k \in Keys, CallsNewServiceCb(k) PROVE TypeOK'
    <2>1. host[k] \in Hosts /\ todo[k][host[k]] > 0 /\ svc[k] \in Services
      BY <1>6 DEF CallsNewServiceCb, NotYetConnected, ReadyToDial
    <2>2. [todo[k] EXCEPT ![host[k]] = @ - 1] \in Lists
      BY <2>1, PoolAssumption DEF Lists
    <2>3. todo' \in [Keys -> Lists]
      BY <1>6, <2>2 DEF CallsNewServiceCb
    <2> QED
      BY <1>6, <2>1, <2>3, Zenon DEF CallsNewServiceCb, Services
  <1>7. ASSUME NEW k \in Keys, Removes(k) PROVE TypeOK'
    <2>1. host[k] \in Hosts
      BY <1>7 DEF Removes, NotYetConnected, ReadyToDial
    <2>2. {conns[k][host[k]]} \ {None} \subseteq Services
      BY <2>1
    <2> QED
      BY <1>7, <2>1, <2>2, Zenon DEF Removes, Services
  <1>h. Pooled \subseteq Services /\ \A k \in Keys : HoldersOf(k) \subseteq Services
    BY PooledIs
  <1>n. NoConns \in [Hosts -> Services \cup {None}]
    BY DEF NoConns
  <1>8. ASSUME NEW k \in Keys, RemoveAllConnections(k) PROVE TypeOK'
    <2>1. HoldersOf(k) \subseteq Services
      BY <1>h
    <2> QED
      BY <1>8, <1>n, <2>1, Zenon DEF RemoveAllConnections, Services, recVars
  <1>9. ASSUME Close PROVE TypeOK'
    <2>1. cancelled' = cancelled \cup Pooled
      BY <1>9 DEF Close, Pooled
    <2>2. cancelled' \in SUBSET Services
      BY <1>h, <2>1
    <2>3. conns' \in [Keys -> [Hosts -> Services \cup {None}]]
      BY <1>9, <1>n DEF Close
    <2>4. undisturbed' \in [Keys -> BOOLEAN]
      BY <1>0, <1>9 DEF Close
    <2>5. UNCHANGED <<dialed, rec, want, todo, drop, host, svc, told, relisted>> /\ closes' \in Nat
      BY <1>9 DEF Close, recVars
    <2> QED
      BY <2>2, <2>3, <2>4, <2>5 DEF Services
  <1> QED
    BY <1>1, <1>2, <1>3, <1>a, <1>4, <1>5, <1>6, <1>7, <1>8, <1>9, Zenon DEF Next, ReconcileStep

\* The worker of a key is undisturbed by what leaves its call alone and takes
\* entries out of the pool at most.
LEMMA StaysReady ==
  ASSUME NEW k \in Keys, ReadyToDial(k),
         rec'[k] = rec[k], want'[k] = want[k], todo'[k] = todo[k], host'[k] = host[k], svc'[k] = svc[k],
         \A h \in Hosts : conns'[k][h] \in {conns[k][h], None},
         relisted \subseteq relisted', Services \subseteq Services'
  PROVE  ReadyToDial(k)'
  <1> USE DEF ReadyToDial, Replaceable
  <1>1. ASSUME NEW h \in Hosts, Replaceable(conns[k][h]) PROVE Replaceable(conns[k][h])'
    BY <1>1
  <1> QED
    BY <1>1

\* A worker has only its own call to look after, and Close only empties
\* entries.
LEMMA NextNotYetConnected ==
  ASSUME TypeOK, NotYetConnected, Next PROVE NotYetConnected'
  <1> DEFINE Others(k) == /\ \A l \in Keys \ {k} : /\ rec'[l] = rec[l] /\ want'[l] = want[l] /\ todo'[l] = todo[l]
                                                   /\ host'[l] = host[l] /\ svc'[l] = svc[l] /\ conns'[l] = conns[l]
                          /\ relisted \subseteq relisted' /\ Services \subseteq Services'
  <1>0. ASSUME NEW k \in Keys, Others(k), ReadyToDial(k)' PROVE NotYetConnected'
    <2>1. ASSUME NEW l \in Keys \ {k} PROVE ReadyToDial(l)'
      <3>1. ReadyToDial(l)
        BY Zenon DEF NotYetConnected
      <3>2. \A h \in Hosts : conns'[l][h] \in {conns[l][h], None}
        BY <1>0
      <3> HIDE DEF Others
      <3>3. /\ rec'[l] = rec[l] /\ want'[l] = want[l] /\ todo'[l] = todo[l]
            /\ host'[l] = host[l] /\ svc'[l] = svc[l] /\ relisted \subseteq relisted' /\ Services \subseteq Services'
        BY <1>0, Zenon DEF Others
      <3> QED
        BY <3>1, <3>2, <3>3, StaysReady, Zenon
    <2> QED
      BY <1>0, <2>1, Zenon DEF NotYetConnected
  <1>o. \A k \in Keys : ReadyToDial(k)
    BY Zenon DEF NotYetConnected
  <1>d. ASSUME UNCHANGED dialed PROVE Services \subseteq Services'
    BY <1>d DEF Services
  <1>1. ASSUME NEW k \in Keys, NEW w \in Lists, Reconcile(k, w) PROVE NotYetConnected'
    <2>1. Others(k)
      BY <1>1, <1>d DEF Reconcile, TypeOK
    <2>2. /\ rec'[k] = "dial" /\ want'[k] = w /\ conns' = conns
          /\ todo'[k] = [h \in Hosts |-> IF conns[k][h] = None THEN w[h] ELSE 0]
      BY <1>1 DEF Reconcile, TypeOK
    <2>3. ReadyToDial(k)'
      BY <2>2, PoolAssumption DEF ReadyToDial, Replaceable, Lists
    <2> QED
      BY <1>0, <2>1, <2>3
  <1>2. ASSUME NEW k \in Keys, NEW h \in Hosts, DialSucceeds(k, h) PROVE NotYetConnected'
    <2>1. Others(k)
      BY <1>2 DEF DialSucceeds, TypeOK, Services
    <2>2. /\ rec[k] = "dial" /\ todo[k][h] > 0
          /\ rec'[k] = "add" /\ host'[k] = h /\ svc'[k] = dialed + 1 /\ svc'[k] \in Services'
          /\ UNCHANGED <<conns, want, todo>> /\ (want[k][h] > 1 => svc'[k] \in relisted')
      BY <1>2 DEF DialSucceeds, TypeOK, Services
    <2>3. ReadyToDial(k)'
      BY <1>o, <2>1, <2>2 DEF ReadyToDial, Replaceable
    <2> QED
      BY <1>0, <2>1, <2>3
  <1>3. ASSUME NEW k \in Keys, NEW h \in Hosts, CallsOldServiceCb(k, h) PROVE NotYetConnected'
    <2>1. Others(k)
      BY <1>3, <1>d DEF CallsOldServiceCb, TypeOK
    <2>2. ReadyToDial(k)'
      BY <1>3 DEF CallsOldServiceCb, ReadyToDial, TypeOK
    <2> QED
      BY <1>0, <2>1, <2>2
  <1>4. ASSUME NEW k \in Keys, DialFails(k) \/ Returns(k) PROVE NotYetConnected'
    <2>1. Others(k)
      BY <1>4, <1>d DEF DialFails, Returns, ReturnsToWorker, TypeOK
    <2>2. ReadyToDial(k)'
      BY <1>4 DEF DialFails, Returns, ReturnsToWorker, ReadyToDial, TypeOK
    <2> QED
      BY <1>0, <2>1, <2>2
  <1>5. ASSUME NEW k \in Keys, AllDialed(k) PROVE NotYetConnected'
    <2>1. Others(k)
      BY <1>5, <1>d DEF AllDialed, recVars, TypeOK
    <2>2. ReadyToDial(k)'
      BY <1>5 DEF AllDialed, ReadyToDial, TypeOK
    <2> QED
      BY <1>0, <2>1, <2>2
  <1>6. ASSUME NEW k \in Keys, Adds(k) PROVE NotYetConnected'
    <2>1. Others(k)
      BY <1>6, <1>d DEF Adds, recVars, TypeOK
    <2>2. rec[k] = "add" /\ rec'[k] = "newCb" /\ UNCHANGED <<want, todo, host, svc, relisted, dialed>>
      BY <1>6 DEF Adds, recVars, TypeOK
    <2>3. \A h \in Hosts : conns'[k][h] = IF h = host[k] THEN svc[k] ELSE conns[k][h]
      BY <1>6 DEF Adds, TypeOK
    <2>4. ReadyToDial(k)'
      BY <1>o, <2>2, <2>3 DEF ReadyToDial, Replaceable, Services
    <2> QED
      BY <1>0, <2>1, <2>4
  <1>7. ASSUME NEW k \in Keys, CallsNewServiceCb(k) PROVE NotYetConnected'
    <2>1. Others(k)
      BY <1>7, <1>d DEF CallsNewServiceCb, TypeOK
    <2>2. rec[k] = "newCb" /\ rec'[k] = "dial" /\ UNCHANGED <<conns, want, host, svc, relisted, dialed>>
      BY <1>7 DEF CallsNewServiceCb, TypeOK
    <2>3. \A h \in Hosts : /\ todo'[k][h] = IF h = host[k] THEN todo[k][h] - 1 ELSE todo[k][h]
                           /\ todo[k][h] \in Nat /\ want[k][h] \in Nat
      BY <1>7, PoolAssumption DEF CallsNewServiceCb, TypeOK, Lists
    <2>4. ReadyToDial(k)'
      BY <1>o, <2>2, <2>3 DEF ReadyToDial, Replaceable
    <2> QED
      BY <1>0, <2>1, <2>4
  <1>8. ASSUME NEW k \in Keys, Removes(k) PROVE NotYetConnected'
    <2>1. Others(k)
      BY <1>8, <1>d DEF Removes, TypeOK
    <2>2. ReadyToDial(k)'
      BY <1>8 DEF Removes, ReadyToDial, TypeOK
    <2> QED
      BY <1>0, <2>1, <2>2
  <1>9. CASE Close \/ \E k \in Keys : RemoveAllConnections(k)
    <2>1. UNCHANGED <<rec, want, todo, host, svc, relisted, dialed>>
      BY <1>9, Zenon DEF Close, RemoveAllConnections, recVars
    <2>2. \A k \in Keys, h \in Hosts : conns'[k][h] \in {conns[k][h], None}
      BY <1>9 DEF Close, RemoveAllConnections, NoConns, TypeOK
    <2>3. ASSUME NEW k \in Keys PROVE ReadyToDial(k)'
      BY <1>o, <1>d, <2>1, <2>2, StaysReady
    <2> QED
      BY <2>3, Zenon DEF NotYetConnected
  <1> QED
    BY <1>1, <1>2, <1>3, <1>4, <1>5, <1>6, <1>7, <1>8, <1>9, Zenon DEF Next, ReconcileStep

\* A worker that returns, or has dialed everything, leaves the pool alone.
LEMMA LoopEnds ==
  ASSUME TypeOK, NEW k \in Keys, DialFails(k) \/ AllDialed(k) \/ Returns(k)
  PROVE  /\ UNCHANGED <<conns, dialed, cancelled, told, relisted>>
         /\ rec[k] \in {"dial", "drop"} /\ rec'[k] \in {"idle", "drop"}
         /\ rec'[k] = "drop" => /\ rec[k] = "dial" /\ todo[k] = NoHosts
                                /\ UNCHANGED <<want, todo, drop, host, svc, undisturbed>>
         /\ \A l \in Keys \ {k} : /\ rec'[l] = rec[l] /\ want'[l] = want[l] /\ todo'[l] = todo[l]
                                   /\ drop'[l] = drop[l] /\ host'[l] = host[l] /\ svc'[l] = svc[l]
                                   /\ undisturbed'[l] = undisturbed[l]
  <1> USE DEF TypeOK
  <1>1. CASE AllDialed(k)
    BY <1>1 DEF AllDialed, recVars
  <1>2. CASE DialFails(k) \/ Returns(k)
    BY <1>2 DEF DialFails, Returns, Returned, ReturnsToWorker
  <1> QED
    BY <1>1, <1>2

\* A new entry of todo is no more than was asked for, and what is connected is
\* not dialed.
LEMMA WhatIsDialed ==
  ASSUME TypeOK, NEW k \in Keys, NEW w \in Lists, Reconcile(k, w)
  PROVE  /\ rec[k] = "idle" /\ rec'[k] = "dial" /\ want'[k] = w /\ UNCHANGED conns
         /\ \A h \in Hosts : /\ w[h] \in Nat
                             /\ todo'[k][h] = IF conns[k][h] = None THEN w[h] ELSE 0
                             /\ h \in drop'[k] <=> conns[k][h] # None /\ w[h] = 0
         /\ \A l \in Keys \ {k} : /\ rec'[l] = rec[l] /\ want'[l] = want[l] /\ todo'[l] = todo[l]
                                   /\ drop'[l] = drop[l]
         /\ UNCHANGED <<host, svc, undisturbed>>
  <1>1. \A h \in Hosts : w[h] \in Nat
    BY PoolAssumption DEF Lists
  <1> QED
    BY <1>1 DEF TypeOK, Reconcile, GetConnectedHosts

\* A dialed service is new; only the pool's own services are cancelled
LEMMA NextUnshared ==
  ASSUME TypeOK, NotYetConnected, Unshared, Next PROVE Unshared'
  <1> USE NoneIsNoService DEF TypeOK, RecStates, Unshared
  <1>1. ASSUME NEW k \in Keys, NEW w \in Lists, Reconcile(k, w) PROVE Unshared'
    BY <1>1 DEF Reconcile, Services
  <1>2. ASSUME NEW k \in Keys, NEW h \in Hosts, DialSucceeds(k, h) PROVE Unshared'
    <2>1. dialed + 1 \notin Services
      BY DEF Services
    <2>2. \A l \in Keys, g \in Hosts : conns[l][g] # dialed + 1
      BY <2>1, PoolAssumption
    <2>3. svc'[k] = dialed + 1 /\ svc'[k] \in Services' /\ Services \subseteq Services'
      BY <1>2 DEF DialSucceeds, Services
    <2>4. \A l \in Keys \ {k} : svc'[l] = svc[l] /\ rec'[l] = rec[l]
      BY <1>2 DEF DialSucceeds
    <2>5. UNCHANGED <<conns, cancelled>> /\ relisted \subseteq relisted'
      BY <1>2 DEF DialSucceeds
    <2>6. \A l \in Keys \ {k} : rec[l] = "add" => svc[l] # dialed + 1
      BY <2>1
    <2>7. ASSUME NEW l \in Keys, rec'[l] = "add"
          PROVE  /\ svc'[l] \in Services' /\ svc'[l] \notin cancelled'
                 /\ \A m \in Keys, g \in Hosts : conns'[m][g] # svc'[l]
                 /\ \A m \in Keys \ {l} : rec'[m] = "add" => svc'[m] # svc'[l]
      <3>1. CASE l = k
        BY <2>1, <2>2, <2>3, <2>4, <2>5, <2>6, <3>1
      <3>2. CASE l # k
        <4>1. rec[l] = "add" /\ svc'[l] = svc[l] /\ svc[l] # dialed + 1
          BY <2>4, <2>6, <2>7, <3>2
        <4> QED
          BY <2>3, <2>4, <2>5, <4>1, SMTT(30)
      <3> QED
        BY <3>1, <3>2
    <2> QED
      BY <2>7
  <1>3. ASSUME NEW k \in Keys, NEW h \in Hosts, CallsOldServiceCb(k, h) PROVE Unshared'
    BY <1>3 DEF CallsOldServiceCb, Services
  <1>4. ASSUME NEW k \in Keys, DialFails(k) \/ AllDialed(k) \/ Returns(k) PROVE Unshared'
    <2>1. UNCHANGED <<conns, cancelled, Services>>
      BY <1>4, LoopEnds DEF Services
    <2>2. \A l \in Keys : rec'[l] = "add" => rec[l] = "add" /\ svc'[l] = svc[l]
      BY <1>4, LoopEnds
    <2> QED
      BY <2>1, <2>2
  <1>5. ASSUME NEW k \in Keys, Adds(k) PROVE Unshared'
    BY <1>5 DEF Adds, recVars, Services, NotYetConnected, ReadyToDial
  <1>6. ASSUME NEW k \in Keys, CallsNewServiceCb(k) PROVE Unshared'
    BY <1>6 DEF CallsNewServiceCb, Services
  <1>7. ASSUME NEW k \in Keys, Removes(k) PROVE Unshared'
    BY <1>7 DEF Removes, Services, NotYetConnected, ReadyToDial
  <1>8. ASSUME NEW k \in Keys, RemoveAllConnections(k) PROVE Unshared'
    BY <1>8, PooledIs DEF RemoveAllConnections, recVars, NoConns, Services
  <1>9. ASSUME Close PROVE Unshared'
    <2>1. cancelled' = cancelled \cup Pooled
      BY <1>9, Zenon DEF Close, Pooled
    <2> QED
      BY <1>9, <2>1, PooledIs DEF Close, recVars, NoConns, Services
  <1> QED
    BY <1>1, <1>2, <1>3, <1>4, <1>5, <1>6, <1>7, <1>8, <1>9, Zenon DEF Next, ReconcileStep

\* Every step keeps its services: what leaves the pool is cancelled, and what
\* is added takes the place of nothing, or of a host listed repeatedly.
LEMMA NextKept ==
  ASSUME TypeOK, NotYetConnected, Unshared, Kept, Next PROVE Kept'
  <1> USE NoneIsNoService DEF TypeOK, RecStates, Kept
  <1>1. ASSUME NEW k \in Keys, NEW w \in Lists, Reconcile(k, w) PROVE Kept'
    BY <1>1, ZenonT(60) DEF Reconcile, Services
  <1>2. ASSUME NEW k \in Keys, NEW h \in Hosts, DialSucceeds(k, h) PROVE Kept'
    <2>1. \A s \in Services' : s \in Services \/ s = dialed + 1
      BY <1>2 DEF DialSucceeds, Services
    <2>2. rec[k] # "add" /\ rec'[k] = "add" /\ svc'[k] = dialed + 1
      BY <1>2 DEF DialSucceeds
    <2>3. \A l \in Keys \ {k} : svc'[l] = svc[l] /\ rec'[l] = rec[l]
      BY <1>2 DEF DialSucceeds
    <2>4. UNCHANGED <<conns, cancelled>> /\ relisted \subseteq relisted'
      BY <1>2 DEF DialSucceeds
    <2> SUFFICES ASSUME NEW s \in Services'
                 PROVE  s \in (cancelled \cup relisted)' \/ (\E l \in Keys, g \in Hosts : conns'[l][g] = s)
                          \/ (\E l \in Keys : rec'[l] = "add" /\ svc'[l] = s)
        BY Zenon
    <2>5. CASE s = dialed + 1
      BY <2>2, <2>5
    <2>6. CASE s \in Services
      <3>1. ASSUME NEW l \in Keys, rec[l] = "add", svc[l] = s PROVE rec'[l] = "add" /\ svc'[l] = s
        BY <2>2, <2>3, <3>1
      <3> QED
        BY <2>4, <2>6, <3>1
    <2> QED
      BY <2>1, <2>5, <2>6
  <1>3. ASSUME NEW k \in Keys, NEW h \in Hosts, CallsOldServiceCb(k, h) PROVE Kept'
    BY <1>3, ZenonT(60) DEF CallsOldServiceCb, Services
  <1>4. ASSUME NEW k \in Keys, DialFails(k) \/ AllDialed(k) \/ Returns(k) PROVE Kept'
    <2>1. UNCHANGED <<conns, cancelled, relisted, Services>>
      BY <1>4, LoopEnds DEF Services
    <2>2. \A l \in Keys : rec[l] = "add" => rec'[l] = "add" /\ svc'[l] = svc[l]
      BY <1>4, LoopEnds
    <2>3. ASSUME NEW s \in Services
          PROVE  s \in (cancelled \cup relisted)' \/ (\E l \in Keys, g \in Hosts : conns'[l][g] = s)
                   \/ (\E l \in Keys : rec'[l] = "add" /\ svc'[l] = s)
      <3>1. CASE \E l \in Keys : rec[l] = "add" /\ svc[l] = s
        BY <2>2, <3>1
      <3> QED
        BY <2>1, <3>1
    <2>4. Services' = Services
      BY <2>1
    <2> QED
      BY <2>3, <2>4, Zenon
  <1>5. ASSUME NEW k \in Keys, Adds(k) PROVE Kept'
    <2>1. host[k] \in Hosts /\ (conns[k][host[k]] = None \/ conns[k][host[k]] \in relisted)
      BY <1>5 DEF Adds, NotYetConnected, ReadyToDial, Replaceable
    <2> QED
      BY <1>5, <2>1, SMTT(30) DEF Adds, recVars, Services
  <1>6. ASSUME NEW k \in Keys, CallsNewServiceCb(k) PROVE Kept'
    BY <1>6, ZenonT(60) DEF CallsNewServiceCb, Services
  <1>7. ASSUME NEW k \in Keys, Removes(k) PROVE Kept'
    <2>1. host[k] \in Hosts
      BY <1>7 DEF Removes, NotYetConnected, ReadyToDial
    <2> QED
      BY <1>7, <2>1, SMTT(30) DEF Removes, Services
  <1>8. ASSUME NEW k \in Keys, RemoveAllConnections(k) PROVE Kept'
    BY <1>8, PooledIs DEF RemoveAllConnections, recVars, NoConns, Services
  <1>9. ASSUME Close PROVE Kept'
    <2>1. cancelled' = cancelled \cup Pooled
      BY <1>9, Zenon DEF Close, Pooled
    <2> QED
      BY <1>9, <2>1, PooledIs DEF Close, recVars, NoConns, Services
  <1> QED
    BY <1>1, <1>2, <1>3, <1>4, <1>5, <1>6, <1>7, <1>8, <1>9, Zenon DEF Next, ReconcileStep

\* A service is cancelled in the step that takes it out of the pool, and was
\* nowhere else in it.
LEMMA NextLive ==
  ASSUME TypeOK, NotYetConnected, Unshared, Live, Next PROVE Live'
  <1> USE NoneIsNoService DEF TypeOK, RecStates, Live
  <1>1. ASSUME UNCHANGED <<conns, cancelled>> PROVE Live'
    BY <1>1, SMTT(30)
  <1>2. ASSUME NEW k \in Keys, Adds(k) PROVE Live'
    <2>1. host[k] \in Hosts /\ rec[k] = "add"
      BY <1>2 DEF Adds, NotYetConnected, ReadyToDial
    <2>2. svc[k] \notin cancelled /\ \A l \in Keys, h \in Hosts : conns[l][h] # svc[k]
      BY <2>1, Zenon DEF Unshared
    <2> QED
      BY <1>2, <2>1, <2>2, SMTT(30) DEF Adds
  <1>3. ASSUME NEW k \in Keys, Removes(k) PROVE Live'
    <2>1. host[k] \in Hosts
      BY <1>3, Zenon DEF Removes, NotYetConnected, ReadyToDial
    <2> QED
      BY <1>3, <2>1, SMTT(30) DEF Removes
  <1>4. ASSUME NEW k \in Keys, RemoveAllConnections(k) PROVE Live'
    BY <1>4, PooledIs, SMTT(30) DEF RemoveAllConnections, NoConns
  <1>5. ASSUME Close PROVE Live'
    <2>1. cancelled' = cancelled \cup Pooled
      BY <1>5, Zenon DEF Close, Pooled
    <2> QED
      BY <1>5, <2>1, PooledIs DEF Close, NoConns
  <1>r. ASSUME NEW k \in Keys, NEW w \in Lists, Reconcile(k, w) PROVE UNCHANGED <<conns, cancelled>>
    BY <1>r DEF Reconcile
  <1>6. ASSUME NEW k \in Keys, DialFails(k) \/ AllDialed(k) \/ Returns(k) \/ CallsNewServiceCb(k)
        PROVE  UNCHANGED <<conns, cancelled>>
    BY <1>6 DEF DialFails, AllDialed, Returns, CallsNewServiceCb
  <1>7. ASSUME NEW k \in Keys, NEW h \in Hosts, DialSucceeds(k, h) \/ CallsOldServiceCb(k, h)
        PROVE  UNCHANGED <<conns, cancelled>>
    BY <1>7 DEF DialSucceeds, CallsOldServiceCb
  <1> QED
    BY <1>1, <1>2, <1>3, <1>4, <1>5, <1>r, <1>6, <1>7, Zenon DEF Next, ReconcileStep

\* The invariant holds in every reachable state.
LEMMA AlwaysIInv == Spec => []IInv
  <1>1. IInv /\ [Next]_vars => IInv'
    <2> SUFFICES ASSUME IInv, [Next]_vars PROVE IInv'
        OBVIOUS
    <2>1. CASE Next
      BY <2>1, NextTypeOK, NextNotYetConnected, NextUnshared, NextKept, NextLive, ZenonT(60) DEF IInv
    <2>2. CASE UNCHANGED vars
      BY <2>2 DEF vars, IInv, TypeOK, NotYetConnected, ReadyToDial, Replaceable, Unshared, Kept, Live, Services
    <2> QED
      BY <2>1, <2>2
  <1> QED
    BY InitIInv, <1>1, PTL DEF Spec

\* The pool keeps its types: what is in it and what was cancelled are services
\* that were dialed.
THEOREM TypeCorrect == Spec => []TypeOK
  <1>1. IInv => TypeOK
    BY DEF IInv
  <1> QED
    BY AlwaysIInv, <1>1, PTL

\* No service of a host that is listed once is left behind by
\* ReconcileConnections, RemoveConnection, RemoveAllConnections and Close, in
\* whatever order they run for different keys.
THEOREM PoolLeaksOnlyRelisted == Spec => []NoLeak
  <1>1. IInv => NoLeak
    BY PooledIs, NoneIsNoService DEF IInv, Kept, NoLeak
  <1> QED
    BY AlwaysIInv, <1>1, PTL

\* GetServices and ResolveControlInterface hand out no service that the pool
\* cancelled, and none for two hosts.
THEOREM PoolIsLive == Spec => []PooledIsLive
  <1>1. IInv => PooledIsLive
    BY PooledIs, SMTT(30) DEF IInv, Live, PooledIsLive
  <1> QED
    BY AlwaysIInv, <1>1, PTL

-----------------------------------------------------------------------------
(* What ReconcileConnections leaves behind *)

\* What a worker has still to do, by where it is.
Shape ==
  \A k \in Keys : rec[k] # "idle" =>
    /\ \A h \in Hosts : todo[k][h] <= want[k][h] /\ (h \in drop[k] => want[k][h] = 0)
    /\ rec[k] \in {"drop", "remove"} => \A h \in Hosts : todo[k][h] = 0
    /\ rec[k] = "remove" => host[k] \in drop[k]

\* The connected hosts are the wanted ones but for those still to dial, and the
\* ones still to drop: no failure of an earlier call shows.
Exact ==
  \A k \in Keys : rec[k] # "idle" /\ undisturbed[k] =>
    \A h \in Hosts :
      conns[k][h] # None <=> \/ todo[k][h] < want[k][h]
                             \/ h \in drop[k]
                             \/ rec[k] = "newCb" /\ h = host[k]

\* Announced, host by host
Told ==
  \A k \in Keys, h \in Hosts : conns[k][h] # None =>
    conns[k][h] \in told \/ (host[k] = h /\ rec[k] \in {"newCb", "remove"})

\* The callbacks are called next to the change they announce.
LEMMA NextTold == ASSUME TypeOK, NotYetConnected, Live, Told, Next PROVE Told'
  <1> USE DEF TypeOK, Told
  <1>1. ASSUME NEW k \in Keys, NEW w \in Lists, Reconcile(k, w) PROVE Told'
    BY <1>1 DEF Reconcile
  <1>2. ASSUME NEW k \in Keys, NEW h \in Hosts, DialSucceeds(k, h) PROVE Told'
    BY <1>2 DEF DialSucceeds
  <1>3. ASSUME NEW k \in Keys, NEW h \in Hosts, CallsOldServiceCb(k, h) PROVE Told'
    BY <1>3 DEF CallsOldServiceCb, Live
  <1>4. ASSUME NEW k \in Keys, DialFails(k) \/ AllDialed(k) \/ Returns(k) PROVE Told'
    BY <1>4, ZenonT(60) DEF DialFails, AllDialed, Returns, ReturnsToWorker, Returned, recVars
  <1>5. ASSUME NEW k \in Keys, Adds(k) PROVE Told'
    BY <1>5 DEF Adds, recVars
  <1>6. ASSUME NEW k \in Keys, CallsNewServiceCb(k) PROVE Told'
    BY <1>6 DEF CallsNewServiceCb, NotYetConnected, ReadyToDial
  <1>7. ASSUME NEW k \in Keys, Removes(k) PROVE Told'
    BY <1>7 DEF Removes
  <1>8. ASSUME NEW k \in Keys, RemoveAllConnections(k) PROVE Told'
    BY <1>8 DEF RemoveAllConnections, recVars, NoConns
  <1>9. ASSUME Close PROVE Told'
    BY <1>9, Zenon DEF Close, recVars, NoConns
  <1> QED
    BY <1>1, <1>2, <1>3, <1>4, <1>5, <1>6, <1>7, <1>8, <1>9, Zenon DEF Next, ReconcileStep

\* The rest of the work shrinks from either end.
LEMMA NextShape == ASSUME TypeOK, NotYetConnected, Shape, Next PROVE Shape'
  <1> USE DEF TypeOK, Shape
  <1>1. ASSUME NEW k \in Keys, NEW w \in Lists, Reconcile(k, w) PROVE Shape'
    <2>1. \A h \in Hosts : todo'[k][h] <= want'[k][h] /\ (h \in drop'[k] => want'[k][h] = 0)
      BY <1>1, WhatIsDialed
    <2>2. rec'[k] = "dial" /\ UNCHANGED host
      BY <1>1, WhatIsDialed
    <2>3. \A l \in Keys \ {k} : rec'[l] = rec[l] /\ want'[l] = want[l] /\ todo'[l] = todo[l] /\ drop'[l] = drop[l]
      BY <1>1, WhatIsDialed
    <2> QED
      BY <2>1, <2>2, <2>3
  <1>2. ASSUME NEW k \in Keys, NEW h \in Hosts, DialSucceeds(k, h) PROVE Shape'
    BY <1>2 DEF DialSucceeds
  <1>3. ASSUME NEW k \in Keys, NEW h \in Hosts, CallsOldServiceCb(k, h) PROVE Shape'
    BY <1>3 DEF CallsOldServiceCb
  <1>4. ASSUME NEW k \in Keys, DialFails(k) \/ AllDialed(k) \/ Returns(k) PROVE Shape'
    BY <1>4, LoopEnds DEF NoHosts
  <1>5. ASSUME NEW k \in Keys, Adds(k) PROVE Shape'
    BY <1>5 DEF Adds, recVars
  <1>6. ASSUME NEW k \in Keys, CallsNewServiceCb(k) PROVE Shape'
    <2>1. host[k] \in Hosts /\ todo[k][host[k]] > 0
      BY <1>6 DEF CallsNewServiceCb, NotYetConnected, ReadyToDial
    <2>2. \A h \in Hosts : todo[k][h] \in Nat /\ want[k][h] \in Nat
      BY PoolAssumption DEF Lists
    <2>3. \A h \in Hosts : todo'[k][h] \in {todo[k][h], todo[k][h] - 1}
      BY <1>6, <2>1 DEF CallsNewServiceCb, Lists
    <2>4. \A l \in Keys \ {k} : rec'[l] = rec[l] /\ todo'[l] = todo[l]
      BY <1>6 DEF CallsNewServiceCb
    <2>5. rec[k] = "newCb" /\ rec'[k] = "dial" /\ UNCHANGED <<want, drop, host>>
      BY <1>6 DEF CallsNewServiceCb
    <2>6. \A h \in Hosts : todo'[k][h] <= want'[k][h] /\ (h \in drop'[k] => want'[k][h] = 0)
      <3>1. \A h \in Hosts : todo[k][h] <= want[k][h] /\ (h \in drop[k] => want[k][h] = 0)
        BY <2>5
      <3> QED
        BY <2>2, <2>3, <2>5, <3>1, SMTT(30)
    <2> QED
      BY <2>4, <2>5, <2>6
  <1>7. ASSUME NEW k \in Keys, Removes(k) PROVE Shape'
    BY <1>7 DEF Removes
  <1>8. CASE Close \/ \E k \in Keys : RemoveAllConnections(k)
    BY <1>8, ZenonT(60) DEF RemoveAllConnections, Close, recVars
  <1> QED
    BY <1>1, <1>2, <1>3, <1>4, <1>5, <1>6, <1>7, <1>8, Zenon DEF Next, ReconcileStep

\* Every host dialed, added, announced and removed is accounted for.
LEMMA NextExact == ASSUME TypeOK, NotYetConnected, Shape, Exact, Next PROVE Exact'
  <1> USE DEF TypeOK, Exact
  <1>1. ASSUME NEW k \in Keys, NEW w \in Lists, Reconcile(k, w) PROVE Exact'
    BY <1>1, WhatIsDialed
  <1>2. ASSUME NEW k \in Keys, NEW h \in Hosts, DialSucceeds(k, h) PROVE Exact'
    BY <1>2 DEF DialSucceeds
  <1>3. ASSUME NEW k \in Keys, NEW h \in Hosts, CallsOldServiceCb(k, h) PROVE Exact'
    BY <1>3 DEF CallsOldServiceCb
  <1>4. ASSUME NEW k \in Keys, DialFails(k) \/ AllDialed(k) \/ Returns(k) PROVE Exact'
    BY <1>4, LoopEnds, SMTT(30)
  <1>5. ASSUME NEW k \in Keys, Adds(k) PROVE Exact'
    <2>1. svc[k] # None
      BY <1>5, NoneIsNoService, ZenonT(60) DEF Adds, NotYetConnected, ReadyToDial
    <2> QED
      BY <1>5, <2>1, SMTT(30) DEF Adds, recVars
  <1>6. ASSUME NEW k \in Keys, CallsNewServiceCb(k) PROVE Exact'
    <2>1. host[k] \in Hosts /\ todo[k][host[k]] > 0 /\ todo[k][host[k]] <= want[k][host[k]]
      BY <1>6 DEF CallsNewServiceCb, NotYetConnected, ReadyToDial
    <2>2. \A h \in Hosts : todo[k][h] \in Nat /\ want[k][h] \in Nat
      BY PoolAssumption DEF Lists
    <2>3. \A h \in Hosts : todo'[k][h] = IF h = host[k] THEN todo[k][h] - 1 ELSE todo[k][h]
      BY <1>6, <2>1 DEF CallsNewServiceCb, Lists
    <2>4. \A l \in Keys \ {k} : rec'[l] = rec[l] /\ todo'[l] = todo[l]
      BY <1>6 DEF CallsNewServiceCb
    <2>5. rec[k] = "newCb" /\ rec'[k] = "dial" /\ UNCHANGED <<conns, want, drop, host, undisturbed>>
      BY <1>6 DEF CallsNewServiceCb
    <2> QED
      BY <2>1, <2>2, <2>3, <2>4, <2>5
  <1>7. ASSUME NEW k \in Keys, Removes(k) PROVE Exact'
    BY <1>7 DEF Removes, Shape
  <1>8. ASSUME NEW k \in Keys, RemoveAllConnections(k) PROVE Exact'
    BY <1>8 DEF RemoveAllConnections, recVars, NoConns
  <1>9. ASSUME Close PROVE Exact'
    BY <1>9, Zenon DEF Close, recVars, NoConns
  <1> QED
    BY <1>1, <1>2, <1>3, <1>4, <1>5, <1>6, <1>7, <1>8, <1>9, ZenonT(60) DEF Next, ReconcileStep

\* The three hold in every reachable state.
LEMMA AlwaysAccounted == Spec => [](IInv /\ Told /\ Shape /\ Exact)
  <1>1. Init => Told /\ Shape /\ Exact
    BY DEF Init, NoConns, Told, Shape, Exact
  <1>2. IInv /\ Told /\ Shape /\ Exact /\ [Next]_vars => Told' /\ Shape' /\ Exact'
    <2> SUFFICES ASSUME IInv, Told, Shape, Exact, [Next]_vars PROVE Told' /\ Shape' /\ Exact'
        OBVIOUS
    <2>1. CASE Next
      BY <2>1, NextTold, NextShape, NextExact, Zenon DEF IInv
    <2>2. CASE UNCHANGED vars
      BY <2>2, SMTT(30) DEF vars, Told, Shape, Exact
    <2> QED
      BY <2>1, <2>2
  <1> QED
    BY AlwaysIInv, <1>1, <1>2, PTL DEF Spec

\* A ReconcileConnections that returns without an error, and was not overtaken
\* by Close, leaves exactly the wanted hosts connected.
THEOREM ReconcileConverges == Spec => []Converges
  <1>1. IInv /\ Shape /\ Exact => Converges
    BY SMTT(30) DEF IInv, TypeOK, Shape, Exact, Converges, Returned, GetConnectedHosts
  <1> QED
    BY AlwaysAccounted, <1>1, PTL

\* Every host in the pool was announced by newServiceCb, or is about to be.
THEOREM ConnectedIsAnnounced == Spec => []Announced
  <1>1. Told => Announced
    BY DEF Told, Announced, GetConnectedHosts
  <1> QED
    BY AlwaysAccounted, <1>1, PTL
=============================================================================
