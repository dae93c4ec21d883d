------------------------- MODULE CertificatesProofs -------------------------
(***************************************************************************)
(* Proofs about Certificates, for any replicas, secrets, labels, intervals *)
(* and bounds: types, that a valid CA is kept, that a controller that is   *)
(* caught up has nothing left undone, and that neither a leaf nor the CA   *)
(* expires.                                                                *)
(***************************************************************************)
EXTENDS Certificates, TLAPS

\* What a lister, or a worker that validates, has of the CA secret is its
\* current version or an older one.
IsPast(c) == c # None => ca # None /\ (c.rv < ca.rv \/ c = ca)

Versions ==
  /\ \A r \in Replicas : IsPast(caSeen[r])
  /\ \A w \in Workers : pc[w] = "validate" => IsPast(caSecret[w])

\* A worker about to replace the CA found the version its update is made from
\* invalid.  If this is still the current version, it still is invalid: time
\* only passes.
FoundInvalid ==
  \A w \in Workers : pc[w] = "commitCA" =>
    caSecret[w].rv <= ca.rv /\ (caSecret[w].rv = ca.rv => ~ValidCA(ca))

\* A certificate about to be stored has an expiration, which is not sooner than
\* the threshold.
Created ==
  \A w \in Workers : pc[w] = "commit" => secret[w].exp \in Nat /\ secret[w].exp + 1 >= rotationThreshold

\* What a worker copied from its lister is what the lister holds, or its key is
\* in the queue again.
CopyIsFresh == \A w \in Workers : pc[w] \in {"getCA", "validate"} => secret[w] = leafSeen[w] \/ w \in queue

\* A lister has the current version of a leaf, or an older one.  A leaf with a
\* certificate has a label, and there is a CA.
LeafVersions ==
  /\ \A w \in Workers : leafSeen[w].rv <= leaf[w[2]].rv
  /\ \A s \in Secrets : leaf[s].exp # None => leaf[s].label # None /\ ca # None

\* The leaf of s is a current one, the timer of r for it is set in time, and r
\* resyncs before less than rotationThreshold, and one period, is left to the CA.
Settled(r, s) ==
  /\ ca.exp # None /\ resync[r] + rotationThreshold < ca.exp + ResyncPeriod
  /\ leaf[s].exp # None /\ leaf[s].ca = ca.rv /\ leaf[s].san = leaf[s].label
  /\ timer[<<r, s>>] # None /\ timer[<<r, s>>] + rotationThreshold <= leaf[s].exp + 1

\* The leader has something to do for each leaf, or it is settled: nothing falls
\* between the informer, the queue, the workers, and a change of leader.
Covered(s) ==
  LET w == <<leader, s>>
  IN leader # None /\ ca # None /\ leaf[s].label # None =>
       \/ caSeen[leader] # ca \/ leafSeen[w] # leaf[s] \/ w \in queue \/ pc[w] # "idle"
       \/ Settled(leader, s)

\* The next resync is at most a period away.
ResyncAhead == \A r \in Replicas : resync[r] <= now + ResyncPeriod

\* When the controller last was caught up, now - late, no leaf was due.
InTime(exp) == now + rotationThreshold <= exp + late + 1

LeavesInTime ==
  /\ \A s \in Secrets : leaf[s].exp # None => InTime(leaf[s].exp)
  /\ \A w \in Workers : pc[w] = "commit" => InTime(secret[w].exp)

\* A version of the CA that is not the current one is invalid.
OldInvalid ==
  /\ \A r \in Replicas : caSeen[r] # None /\ caSeen[r] # ca => ~ValidCA(caSeen[r])
  /\ \A w \in Workers : pc[w] = "validate" /\ caSecret[w] # ca => ~ValidCA(caSecret[w])

\* A CA about to be stored lasts longer than the one it replaces.
CALasts ==
  \A w \in Workers : pc[w] = "commitCA" =>
    /\ caSecret[w].exp \in Nat
    /\ caSecret[w].rv = ca.rv /\ ca.exp # None => ca.exp <= caSecret[w].exp

\* When the controller last was caught up, the CA had its rotationThreshold left,
\* less one period of the resync.
CAInTime == ca.exp # None /\ now + rotationThreshold < ca.exp + ResyncPeriod + late

CALooksInTime ==
  /\ \A s \in Secrets : leaf[s].exp # None => CAInTime
  /\ \A w \in Workers : pc[w] = "commit" => CAInTime

IInv == TypeOK /\ Versions /\ FoundInvalid /\ Created

\* The invariant about time
TInv ==
  /\ IInv /\ CopyIsFresh /\ LeafVersions /\ \A s \in Secrets : Covered(s)
  /\ ResyncAhead /\ LeavesInTime /\ OldInvalid /\ CALasts /\ CALooksInTime

-----------------------------------------------------------------------------
\* The intervals and bounds are numbers
LEMMA Numbers ==
  /\ caExpirationInterval \in Nat /\ expirationInterval \in Nat /\ rotationThreshold \in Nat
  /\ ResyncPeriod \in Nat /\ MaxTime \in Nat /\ MaxLate \in Nat /\ MaxEvents \in Nat
  BY CertificatesAssumption

\* The clock, and how far the controller is behind, are numbers
LEMMA ClockNumbers == ASSUME TypeOK PROVE now \in Nat /\ late \in Nat /\ late <= MaxLate
  <1>1. now \in Seconds /\ late \in 0..MaxLate
    BY DEF TypeOK
  <1> QED
    BY <1>1, Numbers DEF Seconds

\* A version is newer than the one it replaces
LEMMA NewerVersion == \A rv \in Nat : ~(rv + 1 <= rv) /\ ~(rv + 1 < rv) /\ rv + 1 # rv
  OBVIOUS

\* A valid certificate that expires at e, a timer at (e + 1) - rotationThreshold
\* or before, and what it means for the clock that it is not due
LEMMA TimerArithmetic ==
  /\ \A n, e \in Nat : e > n + rotationThreshold => e + 1 >= rotationThreshold
  /\ \A t, e \in Nat : t <= (e + 1) - rotationThreshold => t + rotationThreshold <= e + 1
  /\ \A n, t, e \in Nat : n + 1 <= t /\ t + rotationThreshold <= e + 1 => (n + 1) + rotationThreshold <= e + 0 + 1
  BY Numbers

\* A worker is one of a replica, for a secret
LEMMA WorkerParts ==
  /\ \A w \in Workers : w[1] \in Replicas /\ w[2] \in Secrets
  /\ \A r \in Replicas : {r} \X Secrets \subseteq Workers
  BY DEF Workers

\* What editing the label writes to a leaf: without a label or anew, no certificate.
LEMMA EditedLeaf ==
  /\ \A rv, label : Uncertified(rv, label).rv = rv /\ Uncertified(rv, label).exp = None
  /\ \A l, label : /\ Relabelled(l, label).rv = l.rv + 1
                    /\ Relabelled(l, label).label = label /\ Relabelled(l, label).exp = l.exp
  BY DEF Uncertified, Relabelled

\* A certificate lasts for its full interval, whatever is left of the CA's
LEMMA CreatedExpires == \A l, c : CreateCert(l, c).exp = now + expirationInterval
  BY DEF CreateCert

\* What is created and stored is a secret
LEMMA CreatedType ==
  ASSUME TypeOK
  PROVE  /\ \A c \in CASecret : CreateCACerts(c) \in CASecret /\ CreateCACerts(c).rv = c.rv
         /\ \A l \in LeafSecret, c \in CASecret :
              /\ CreateCert(l, c) \in LeafSecret /\ CreateCert(l, c).label = l.label
              /\ CreateCert(l, c).exp = now + expirationInterval
         /\ \A c \in CASecret : Updated(c) \in CASecret /\ Updated(c).rv = c.rv + 1
         /\ \A l \in LeafSecret : Updated(l) \in LeafSecret
         /\ \A rv \in Nat, l \in Labels \cup {None} : Uncertified(rv, l) \in LeafSecret
  <1>1. now \in Nat
    BY Numbers DEF TypeOK, Seconds
  <1>2. \A c \in CASecret : CreateCACerts(c) \in CASecret /\ CreateCACerts(c).rv = c.rv
    BY <1>1, Numbers DEF CreateCACerts, CASecret
  <1>3. \A l \in LeafSecret, c \in CASecret :
              /\ CreateCert(l, c) \in LeafSecret /\ CreateCert(l, c).label = l.label
              /\ CreateCert(l, c).exp = now + expirationInterval
    BY <1>1, Numbers DEF CreateCert, CASecret, LeafSecret
  <1>4. \A c \in CASecret : Updated(c) \in CASecret /\ Updated(c).rv = c.rv + 1
    BY DEF Updated, CASecret
  <1>5. \A l \in LeafSecret : Updated(l) \in LeafSecret
    BY DEF Updated, LeafSecret
  <1>6. \A rv \in Nat, l \in Labels \cup {None} : Uncertified(rv, l) \in LeafSecret
    BY DEF Uncertified, LeafSecret
  <1> QED
    BY <1>2, <1>3, <1>4, <1>5, <1>6

\* enqueueBeforeExpiration sets a timer to a time that is not negative
LEMMA TimerType ==
  ASSUME TypeOK, NEW w \in Workers, NEW exp \in Nat, exp + 1 >= rotationThreshold, enqueueBeforeExpiration(w, exp)
  PROVE  timer' \in [Workers -> Nat \cup {None}]
  <1>1. (exp + 1) - rotationThreshold \in Nat
    BY Numbers
  <1> QED
    BY <1>1 DEF enqueueBeforeExpiration, TypeOK

\* A reconcile that returns has nothing in hand
LEMMA ReturnsType ==
  ASSUME TypeOK, NEW w \in Workers, Returns(w)
  PROVE  /\ pc' \in [Workers -> PC] /\ pc'[w] = "idle"
         /\ caSecret' \in [Workers -> CASecret \cup {None}] /\ secret' \in [Workers -> LeafSecret \cup {None}]
         /\ \A v \in Workers : v # w => pc'[v] = pc[v] /\ caSecret'[v] = caSecret[v] /\ secret'[v] = secret[v]
  BY DEF Returns, TypeOK, PC

\* The part of TypeOK that relates what a worker holds to where it is
Holds(w) ==
  /\ pc[w] # "idle" => secret[w] # None /\ secret[w].label # None
  /\ pc[w] \notin {"idle", "getCA"} => caSecret[w] # None /\ ca # None

\* Empty secrets and no CA satisfy the invariant.
LEMMA InitIInv == Init => IInv
  <1> SUFFICES ASSUME Init PROVE IInv
      OBVIOUS
  <1>1. TypeOK
    <2>1. Uncertified(0, FirstLabel) \in LeafSecret
      BY CertificatesAssumption DEF LeafSecret, Uncertified
    <2>2. now \in Seconds /\ late \in 0..MaxLate /\ events \in 0..MaxEvents
      BY Numbers DEF Init, Seconds
    <2> QED
      BY <2>1, <2>2, Numbers DEF Init, TypeOK, PC
  <1> QED
    BY <1>1 DEF Init, IInv, Versions, IsPast, FoundInvalid, Created

-----------------------------------------------------------------------------
\* The cluster, the informers and time keep the types.
LEMMA ClusterTypeOK ==
  ASSUME TypeOK, \/ InstallCA \/ Tick
                 \/ \E s \in Secrets : Change(s)
                 \/ \E r \in Replicas : InformCA(r) \/ Resync(r)
                 \/ \E w \in Workers : Inform(w) \/ TimerFires(w)
  PROVE  TypeOK'
  <1> USE CertificatesAssumption, Numbers DEF envVars, apiVars, seenVars, workVars
  <1>1. CASE InstallCA
    <2>1. ca' \in CASecret /\ ca' # None
      BY <1>1 DEF InstallCA, CASecret
    <2> QED
      BY <1>1, <2>1 DEF InstallCA, TypeOK
  <1>2. CASE Tick
    <2>1. now' \in Seconds /\ late' \in 0..MaxLate
      BY <1>2 DEF Tick, Seconds, TypeOK
    <2> QED
      BY <1>2, <2>1 DEF Tick, TypeOK
  <1>3. ASSUME NEW s \in Secrets, Change(s) PROVE TypeOK'
    <2>1. leaf[s] \in LeafSecret /\ leaf[s].rv + 1 \in Nat
      BY DEF TypeOK, LeafSecret
    <2>2. PICK l \in Labels \cup {None} :
            \/ leaf' = [leaf EXCEPT ![s] = Uncertified(leaf[s].rv + 1, l)]
            \/ leaf' = [leaf EXCEPT ![s] = Relabelled(leaf[s], l)]
      BY <1>3, Zenon DEF Change
    <2>3. Uncertified(leaf[s].rv + 1, l) \in LeafSecret
      BY <2>1, CreatedType
    <2>4. Relabelled(leaf[s], l) \in LeafSecret
      BY <2>1 DEF LeafSecret, Relabelled
    <2>5. leaf' \in [Secrets -> LeafSecret]
      BY <2>2, <2>3, <2>4 DEF TypeOK
    <2>6. events' \in 0..MaxEvents
      BY <1>3 DEF Change, Event, TypeOK
    <2> QED
      BY <1>3, <2>5, <2>6 DEF Change, TypeOK
  <1>4. ASSUME NEW r \in Replicas, InformCA(r) PROVE TypeOK'
    <2>1. Listed(r) \subseteq Workers
      BY WorkerParts DEF Listed
    <2> QED
      BY <1>4, <2>1 DEF InformCA, TypeOK
  <1>5. ASSUME NEW w \in Workers, Inform(w) PROVE TypeOK'
    BY <1>5, WorkerParts DEF Inform, TypeOK
  <1>6. ASSUME NEW w \in Workers, TimerFires(w) PROVE TypeOK'
    BY <1>6 DEF TimerFires, TypeOK
  <1>7. ASSUME NEW r \in Replicas, Resync(r) PROVE TypeOK'
    <2>1. Listed(r) \subseteq Workers
      BY WorkerParts DEF Listed
    <2>2. now + ResyncPeriod \in Nat
      BY ClockNumbers
    <2> QED
      BY <1>7, <2>1, <2>2 DEF Resync, TypeOK
  <1> QED
    BY <1>1, <1>2, <1>3, <1>4, <1>5, <1>6, <1>7

\* So do leader election and crashes.
LEMMA ReplicaTypeOK ==
  ASSUME TypeOK, LosesLease \/ \E r \in Replicas : Promote(r) \/ Crash(r)
  PROVE  TypeOK'
  <1> USE CertificatesAssumption, Numbers DEF envVars, apiVars, seenVars, workVars
  <1>1. CASE LosesLease
    <2>1. events' \in 0..MaxEvents
      BY <1>1 DEF LosesLease, Event, TypeOK
    <2> QED
      BY <1>1, <2>1 DEF LosesLease, TypeOK
  <1>2. ASSUME NEW r \in Replicas, Promote(r) PROVE TypeOK'
    <2>1. Listed(r) \subseteq Workers
      BY WorkerParts DEF Listed
    <2> QED
      BY <1>2, <2>1 DEF Promote, TypeOK
  <1>3. ASSUME NEW r \in Replicas, Crash(r) PROVE TypeOK'
    <2>1. events' \in 0..MaxEvents /\ leader' \in Replicas \cup {None}
      BY <1>3, SMTT(30) DEF Crash, Event, TypeOK
    <2>2. caSeen' \in [Replicas -> CASecret \cup {None}]
      BY <1>3 DEF Crash, TypeOK
    <2>3. leafSeen' \in [Workers -> LeafSecret] /\ queue' \subseteq Workers
      BY <1>3, WorkerParts DEF Crash, TypeOK
    <2>4. timer' \in [Workers -> Nat \cup {None}]
      BY <1>3 DEF Crash, TypeOK
    <2>5. pc' \in [Workers -> PC]
      BY <1>3 DEF Crash, TypeOK, PC
    <2>6. caSecret' \in [Workers -> CASecret \cup {None}] /\ secret' \in [Workers -> LeafSecret \cup {None}]
      BY <1>3, Zenon DEF Crash, TypeOK
    <2>7. ASSUME NEW w \in Workers PROVE Holds(w)'
      <3>1. pc'[w] = "idle" \/ UNCHANGED <<pc[w], caSecret[w], secret[w]>>
        BY <1>3, Zenon DEF Crash, TypeOK
      <3> QED
        BY <1>3, <3>1 DEF Crash, TypeOK, Holds
    <2>8. UNCHANGED <<now, late, ca, leaf>>
      BY <1>3 DEF Crash
    <2>9. resync' \in [Replicas -> Nat]
      <3>1. now + ResyncPeriod \in Nat
        BY ClockNumbers
      <3> QED
        BY <1>3, <3>1 DEF Crash, TypeOK
    <2> QED
      BY <2>1, <2>2, <2>3, <2>4, <2>5, <2>6, <2>7, <2>8, <2>9, Zenon DEF TypeOK, Holds
  <1> QED
    BY <1>1, <1>2, <1>3

\* And so do the steps of Reconcile and ReconcileKind.
LEMMA ReconcileTypeOK ==
  ASSUME TypeOK, Versions, Created, NEW w \in Workers, ReconcileKind(w) PROVE TypeOK'
  <1> USE CertificatesAssumption, Numbers DEF envVars, apiVars, seenVars, workVars
  <1>1. w[1] \in Replicas /\ w[2] \in Secrets
    BY WorkerParts
  <1>2. CASE ReconcileStarts(w)
    <2>1. leafSeen[w] # None
      BY DEF TypeOK
    <2>2. CASE UNCHANGED <<secret, pc>>
      BY <1>2, <2>2 DEF ReconcileStarts, TypeOK
    <2>3. CASE /\ leafSeen[w].label # None
               /\ secret' = [secret EXCEPT ![w] = leafSeen[w]] /\ pc' = [pc EXCEPT ![w] = "getCA"]
      BY <1>2, <2>1, <2>3 DEF ReconcileStarts, TypeOK, PC
    <2> QED
      BY <1>2, <2>2, <2>3 DEF ReconcileStarts
  <1>3. CASE GetsCA(w)
    <2>1. CASE Returns(w)
      BY <1>3, <2>1, ReturnsType DEF GetsCA, TypeOK
    <2>2. CASE /\ caSeen[w[1]] # None
               /\ pc' = [pc EXCEPT ![w] = "validate"]
               /\ caSecret' = [caSecret EXCEPT ![w] = caSeen[w[1]]] /\ UNCHANGED secret
      <3>1. ca # None /\ caSeen[w[1]] \in CASecret
        BY <1>1, <2>2 DEF Versions, IsPast, TypeOK
      <3> QED
        BY <1>3, <2>2, <3>1 DEF GetsCA, TypeOK, PC
    <2> QED
      BY <1>3, <2>1, <2>2, Zenon DEF GetsCA
  <1>4. CASE Validates(w)
    <2>1. caSecret[w] \in CASecret /\ secret[w] \in LeafSecret /\ now \in Nat /\ secret[w].label # None
      BY <1>4, SMTT(30) DEF Validates, TypeOK, Seconds
    <2>2. CASE /\ pc' = [pc EXCEPT ![w] = "commitCA"]
               /\ caSecret' = [caSecret EXCEPT ![w] = CreateCACerts(@)] /\ UNCHANGED <<timer, secret>>
      <3>1. CreateCACerts(caSecret[w]) \in CASecret
        BY <2>1, CreatedType, Zenon
      <3> QED
        BY <1>4, <2>2, <3>1 DEF Validates, TypeOK, PC
    <2>3. CASE /\ pc' = [pc EXCEPT ![w] = "commit"]
               /\ secret' = [secret EXCEPT ![w] = CreateCert(@, caSecret[w])] /\ UNCHANGED <<timer, caSecret>>
      <3>1. CreateCert(secret[w], caSecret[w]) \in LeafSecret /\ CreateCert(secret[w], caSecret[w]).label # None
        BY <2>1, CreatedType, Zenon
      <3> QED
        BY <1>4, <2>3, <3>1 DEF Validates, TypeOK, PC
    <2>4. CASE Returns(w) /\ ValidLeaf(secret[w], caSecret[w]) /\ enqueueBeforeExpiration(w, secret[w].exp)
      <3>1. secret[w].exp \in Nat /\ secret[w].exp + 1 >= rotationThreshold
        BY <2>1, <2>4 DEF ValidLeaf, ValidateCert, LeafSecret
      <3>2. timer' \in [Workers -> Nat \cup {None}]
        BY <2>4, <3>1, TimerType, Zenon
      <3> QED
        BY <1>4, <2>4, <3>2, ReturnsType DEF Validates, TypeOK
    <2> QED
      BY <1>4, <2>2, <2>3, <2>4 DEF Validates
  <1>5. CASE CommitsCA(w)
    <2>1. ca \in CASecret /\ caSecret[w] \in CASecret /\ Returns(w)
      BY <1>5 DEF CommitsCA, TypeOK
    <2>2. ca' \in CASecret /\ ca' # None
      <3>1. Updated(caSecret[w]) \in CASecret
        BY <2>1, CreatedType
      <3>2. ca' = ca \/ ca' = Updated(caSecret[w])
        BY <1>5, Zenon DEF CommitsCA
      <3> QED
        BY <2>1, <3>1, <3>2
    <2>3. queue' \subseteq Workers /\ events' \in 0..MaxEvents
      BY <1>5 DEF CommitsCA, UpdateFails, Event, TypeOK
    <2>4. UNCHANGED <<now, late, leader, leaf, caSeen, leafSeen, resync, timer>>
      BY <1>5 DEF CommitsCA
    <2> QED
      BY <2>1, <2>2, <2>3, <2>4, ReturnsType, ZenonT(60) DEF TypeOK
  <1>6. CASE Commits(w)
    <2>1. secret[w] \in LeafSecret /\ Returns(w) /\ now \in Nat
      BY <1>6, SMTT(30) DEF Commits, TypeOK, Seconds
    <2>2. leaf' \in [Secrets -> LeafSecret]
      <3>1. Updated(secret[w]) \in LeafSecret
        BY <2>1, CreatedType
      <3> QED
        BY <1>1, <1>6, <3>1, Zenon DEF Commits, TypeOK
    <2>3. timer' \in [Workers -> Nat \cup {None}]
      <3>1. secret[w].exp \in Nat /\ secret[w].exp + 1 >= rotationThreshold
        BY <1>6 DEF Commits, Created
      <3>2. CASE enqueueBeforeExpiration(w, secret[w].exp)
        BY <3>1, <3>2, TimerType, Zenon
      <3> QED
        BY <1>6, <3>2, Zenon DEF Commits, TypeOK
    <2>4. queue' \subseteq Workers /\ events' \in 0..MaxEvents
      BY <1>6, SMTT(30) DEF Commits, UpdateFails, Event, TypeOK
    <2>5. UNCHANGED <<now, late, leader, ca, caSeen, leafSeen, resync>>
      BY <1>6, Zenon DEF Commits
    <2> QED
      BY <2>1, <2>2, <2>3, <2>4, <2>5, ReturnsType, ZenonT(60) DEF TypeOK
  <1> QED
    BY <1>2, <1>3, <1>4, <1>5, <1>6 DEF ReconcileKind

-----------------------------------------------------------------------------
\* Only a crash and the steps of its own reconcile move a worker
LEMMA Elsewhere ==
  ASSUME TypeOK, NEW v \in Workers,
         \/ InstallCA \/ Tick \/ LosesLease
         \/ \E s \in Secrets : Change(s)
         \/ \E r \in Replicas : InformCA(r) \/ Resync(r) \/ Promote(r) \/ Crash(r)
         \/ \E w \in Workers : Inform(w) \/ TimerFires(w)
         \/ \E w \in Workers \ {v} : ReconcileKind(w)
  PROVE  pc'[v] = "idle" \/ (pc'[v] = pc[v] /\ caSecret'[v] = caSecret[v] /\ secret'[v] = secret[v])
  <1> USE DEF workVars
  <1>1. CASE InstallCA \/ Tick \/ LosesLease
    BY <1>1, Zenon DEF InstallCA, Tick, LosesLease
  <1>2. ASSUME NEW s \in Secrets, Change(s) PROVE UNCHANGED workVars
    BY <1>2, Zenon DEF Change
  <1>3. ASSUME NEW r \in Replicas, InformCA(r) \/ Resync(r) \/ Promote(r) PROVE UNCHANGED workVars
    BY <1>3, Zenon DEF InformCA, Resync, Promote
  <1>4. ASSUME NEW r \in Replicas, Crash(r)
        PROVE  pc'[v] = "idle" \/ (pc'[v] = pc[v] /\ caSecret'[v] = caSecret[v] /\ secret'[v] = secret[v])
    BY <1>4 DEF Crash, TypeOK
  <1>5. ASSUME NEW w \in Workers, Inform(w) \/ TimerFires(w) PROVE UNCHANGED workVars
    BY <1>5, Zenon DEF Inform, TimerFires
  <1>6. ASSUME NEW w \in Workers \ {v}, ReconcileKind(w)
        PROVE  pc'[v] = pc[v] /\ caSecret'[v] = caSecret[v] /\ secret'[v] = secret[v]
    <2>1. CASE ReconcileStarts(w) \/ GetsCA(w)
      BY <1>6, <2>1, ZenonT(60) DEF ReconcileStarts, GetsCA, Returns, TypeOK
    <2>2. CASE Validates(w)
      BY <1>6, <2>2, ZenonT(60) DEF Validates, Returns, TypeOK
    <2>3. CASE (CommitsCA(w) \/ Commits(w)) /\ Returns(w)
      BY <1>6, <2>3, Zenon DEF Returns, TypeOK
    <2> QED
      BY <1>6, <2>1, <2>2, <2>3, ZenonT(60) DEF ReconcileKind, CommitsCA, Commits
  <1> QED
    BY <1>1, <1>2, <1>3, <1>4, <1>5, <1>6

\* How a worker gets to validate, to commit the CA, and to commit a leaf.
LEMMA Phases ==
  ASSUME TypeOK, Next, NEW v \in Workers
  PROVE  /\ pc'[v] = "validate" =>
              \/ pc[v] = "validate" /\ caSecret'[v] = caSecret[v]
              \/ GetsCA(v) /\ caSecret'[v] = caSeen[v[1]]
         /\ pc'[v] = "commitCA" =>
              \/ pc[v] = "commitCA" /\ caSecret'[v] = caSecret[v]
              \/ Validates(v) /\ ~ValidCA(caSecret[v]) /\ caSecret'[v] = CreateCACerts(caSecret[v])
         /\ pc'[v] = "commit" =>
              \/ pc[v] = "commit" /\ secret'[v] = secret[v]
              \/ Validates(v) /\ ValidCA(caSecret[v]) /\ secret'[v] = CreateCert(secret[v], caSecret[v])
  <1>1. CASE ReconcileStarts(v) \/ GetsCA(v)
    BY <1>1, ZenonT(60) DEF ReconcileStarts, GetsCA, Returns, TypeOK
  <1>2. CASE Validates(v)
    BY <1>2, ZenonT(60) DEF Validates, Returns, TypeOK
  <1>3. CASE (CommitsCA(v) \/ Commits(v)) /\ Returns(v)
    BY <1>3, Zenon DEF Returns, TypeOK
  <1>4. CASE ~ReconcileKind(v)
    BY <1>4, Elsewhere, ZenonT(60) DEF Next
  <1> QED
    BY <1>1, <1>2, <1>3, <1>4, ZenonT(60) DEF ReconcileKind, CommitsCA, Commits

\* The CA secret is created once, and changed by a worker that commits it
LEMMA CAChanges ==
  ASSUME TypeOK, Next, ca' # ca
  PROVE  \/ InstallCA
         \/ \E w \in Workers : CommitsCA(w) /\ ca.rv = caSecret[w].rv /\ ca' = Updated(caSecret[w])
  BY ZenonT(60) DEF Next, Tick, LosesLease, Change, InformCA, Resync, Promote, Crash, Inform, TimerFires, ReconcileKind,
         ReconcileStarts, GetsCA, Validates, CommitsCA, Commits, apiVars

\* Its version only grows: what is past stays so.
LEMMA PastStays ==
  ASSUME TypeOK, Next, NEW c \in CASecret, IsPast(c)
  PROVE  /\ IsPast(c)'
         /\ ca' # ca => c.rv < ca'.rv
  <1>1. c # None /\ ca # None /\ ca \in CASecret /\ (c.rv < ca.rv \/ c = ca)
    BY CertificatesAssumption DEF IsPast, TypeOK
  <1>2. CASE ca' = ca
    BY <1>1, <1>2 DEF IsPast
  <1>3. CASE ca' # ca
    <2>1. PICK w \in Workers : CommitsCA(w) /\ ca.rv = caSecret[w].rv /\ ca' = Updated(caSecret[w])
      BY <1>1, <1>3, CAChanges, ZenonT(60) DEF InstallCA
    <2>2. caSecret[w] \in CASecret
      BY <2>1 DEF CommitsCA, TypeOK
    <2>3. ca' \in CASecret /\ ca' # None /\ ca'.rv = ca.rv + 1
      BY <2>1, <2>2, CreatedType, CertificatesAssumption, ZenonT(60)
    <2>4. c.rv \in Nat /\ ca.rv \in Nat
      BY <1>1 DEF CASecret
    <2>5. c.rv < ca'.rv
      BY <1>1, <2>3, <2>4
    <2> QED
      BY <2>3, <2>5 DEF IsPast
  <1> QED
    BY <1>2, <1>3

\* The versions that listers and workers have stay current or old.
LEMMA NextVersions ==
  ASSUME TypeOK, Versions, Next PROVE Versions'
  <1>1. ASSUME NEW r \in Replicas PROVE IsPast(caSeen[r])'
    <2>1. caSeen'[r] = caSeen[r] \/ (caSeen'[r] = ca /\ ca' = ca)
      <3>1. CASE \E q \in Replicas : InformCA(q) \/ Crash(q)
        BY <3>1 DEF InformCA, Crash, TypeOK, apiVars
      <3>2. CASE ~\E q \in Replicas : InformCA(q) \/ Crash(q)
        <4>1. UNCHANGED caSeen
          BY <3>2, ZenonT(60) DEF Next, InstallCA, Tick, LosesLease, Change, Resync, Promote, Inform, TimerFires, ReconcileKind,
                      ReconcileStarts, GetsCA, Validates, CommitsCA, Commits, seenVars
        <4> QED
          BY <4>1, Zenon
      <3> QED
        BY <3>1, <3>2
    <2>2. CASE caSeen'[r] = caSeen[r] /\ caSeen[r] # None
      <3>1. caSeen[r] \in CASecret /\ IsPast(caSeen[r])
        BY <2>2 DEF TypeOK, Versions
      <3>2. PICK c \in CASecret : c = caSeen[r]
        BY <3>1
      <3>3. IsPast(c)'
        BY <3>1, <3>2, PastStays
      <3> QED
        BY <2>2, <3>2, <3>3 DEF IsPast
    <2>3. CASE caSeen'[r] = None \/ (caSeen'[r] = ca /\ ca' = ca)
      BY <2>3 DEF IsPast
    <2> QED
      BY <2>1, <2>2, <2>3
  <1>2. ASSUME NEW v \in Workers, pc'[v] = "validate" PROVE IsPast(caSecret[v])'
    <2>1. \/ pc[v] = "validate" /\ caSecret'[v] = caSecret[v]
          \/ caSecret'[v] = caSeen[v[1]] /\ ca' = ca
      <3>1. CASE ReconcileKind(v)
        BY <1>2, <3>1, ZenonT(60) DEF ReconcileKind, ReconcileStarts, GetsCA, Validates, CommitsCA, Commits, Returns, TypeOK,
                          apiVars
      <3>2. CASE ~ReconcileKind(v)
        BY <1>2, <3>2, Elsewhere, Zenon DEF Next
      <3> QED
        BY <3>1, <3>2, Zenon
    <2>2. CASE pc[v] = "validate" /\ caSecret'[v] = caSecret[v]
      <3>1. caSecret[v] \in CASecret /\ IsPast(caSecret[v])
        BY <2>2 DEF TypeOK, Versions
      <3>2. PICK c \in CASecret : c = caSecret[v]
        BY <3>1
      <3>3. IsPast(c)'
        BY <3>1, <3>2, PastStays, ZenonT(60)
      <3> QED
        BY <2>2, <3>2, <3>3 DEF IsPast
    <2>3. CASE caSecret'[v] = caSeen[v[1]] /\ ca' = ca
      BY <2>3, WorkerParts DEF Versions, IsPast
    <2> QED
      BY <2>1, <2>2, <2>3
  <1> QED
    BY <1>1, <1>2 DEF Versions

\* Only Tick moves the clock.
LEMMA ClockStands ==
  ASSUME Next, ~Tick PROVE now' = now /\ late' = late
  BY ZenonT(60) DEF Next, InstallCA, LosesLease, Change, InformCA, Resync, Promote, Crash, Inform, TimerFires,
         ReconcileKind, ReconcileStarts, GetsCA, Validates, CommitsCA, Commits, envVars

\* The clock does not go back.
LEMMA ClockAdvances ==
  ASSUME Next PROVE now' = now \/ now' = now + 1
  BY ClockStands, Zenon DEF Tick

\* What was invalid stays so: time only passes.
LEMMA InvalidStays ==
  ASSUME TypeOK, Next, NEW c \in CASecret, ValidCA(c)' PROVE ValidCA(c)
  <1>1. now \in Nat /\ now' \in Nat /\ now <= now'
    <2>1. now \in Nat
      BY Numbers, SMTT(30) DEF TypeOK, Seconds
    <2>2. now' = now \/ now' = now + 1
      BY ClockAdvances
    <2> QED
      BY <2>1, <2>2
  <1> QED
    BY <1>1, Numbers DEF ValidCA, ValidateCert, CASecret

\* A worker goes to commit the CA from validating it, and the CA it found
\* invalid stays so, or is replaced by a newer version.
LEMMA NextFoundInvalid ==
  ASSUME TypeOK, Versions, FoundInvalid, Next PROVE FoundInvalid'
  <1> DEFINE Goal(rv) == rv <= ca'.rv /\ (rv = ca'.rv => ~ValidCA(ca)')
  <1> SUFFICES ASSUME NEW v \in Workers, pc'[v] = "commitCA" PROVE Goal(caSecret'[v].rv)
      BY Zenon DEF FoundInvalid
  <1>1. \/ pc[v] = "commitCA" /\ caSecret'[v] = caSecret[v]
        \/ Validates(v) /\ ~ValidCA(caSecret[v]) /\ caSecret'[v] = CreateCACerts(caSecret[v])
    BY Phases, Zenon
  <1>2. ca \in CASecret /\ caSecret[v] \in CASecret /\ ca.rv \in Nat /\ caSecret[v].rv \in Nat
    BY <1>1, Zenon DEF Validates, TypeOK, CASecret
  <1>3. CASE Validates(v) /\ ~ValidCA(caSecret[v]) /\ caSecret'[v] = CreateCACerts(caSecret[v])
    <2>1. caSecret'[v].rv = caSecret[v].rv /\ ca' = ca /\ now' = now
      BY <1>2, <1>3, CreatedType, Zenon DEF Validates, apiVars, envVars
    <2>2. caSecret[v].rv < ca.rv \/ caSecret[v] = ca
      BY <1>2, <1>3, CertificatesAssumption DEF Validates, Versions, IsPast
    <2> QED
      BY <1>2, <1>3, <2>1, <2>2, SMTT(30) DEF ValidCA, ValidateCert
  <1>4. CASE pc[v] = "commitCA" /\ caSecret'[v] = caSecret[v]
    <2>1. caSecret[v].rv <= ca.rv /\ (caSecret[v].rv = ca.rv => ~ValidCA(ca))
      BY <1>4, Zenon DEF FoundInvalid
    <2>2. CASE ca' = ca
      <3>1. PICK c \in CASecret : c = ca
        BY <1>2
      <3>2. ~ValidCA(c) => ~ValidCA(c)'
        BY InvalidStays
      <3> QED
        BY <1>4, <2>1, <2>2, <3>1, <3>2 DEF ValidCA, ValidateCert
    <2>3. CASE ca' # ca
      <3>1. IsPast(ca)
        BY DEF IsPast
      <3>2. ca.rv < ca'.rv
        BY <1>2, <2>3, <3>1, PastStays, Zenon
      <3>3. ca'.rv \in Nat
        <4>1. PICK w \in Workers : CommitsCA(w) /\ ca' = Updated(caSecret[w])
          BY <1>2, <2>3, CAChanges, CertificatesAssumption, Zenon DEF InstallCA
        <4>2. caSecret[w] \in CASecret
          BY <4>1, Zenon DEF CommitsCA, TypeOK
        <4> QED
          BY <4>1, <4>2, CreatedType, Zenon DEF CASecret
      <3> QED
        BY <1>2, <1>4, <2>1, <3>2, <3>3
    <2> QED
      BY <2>2, <2>3
  <1> QED
    BY <1>1, <1>3, <1>4, Zenon

\* A worker goes to commit a leaf from creating it.
LEMMA NextCreated ==
  ASSUME TypeOK, Created, Next PROVE Created'
  <1> SUFFICES ASSUME NEW v \in Workers, pc'[v] = "commit"
               PROVE  secret'[v].exp \in Nat /\ secret'[v].exp + 1 >= rotationThreshold
      BY Zenon DEF Created
  <1>1. \/ pc[v] = "commit" /\ secret'[v] = secret[v]
        \/ Validates(v) /\ secret'[v] = CreateCert(secret[v], caSecret[v])
    BY Phases
  <1>2. CASE Validates(v) /\ secret'[v] = CreateCert(secret[v], caSecret[v])
    <2>1. secret'[v].exp = now + expirationInterval
      BY <1>2, SMTT(30) DEF CreateCert
    <2>2. now \in Nat
      BY Numbers DEF TypeOK, Seconds
    <2> QED
      BY <2>1, <2>2, Numbers, CertificatesAssumption, SMTT(30)
  <1> QED
    BY <1>1, <1>2, Zenon DEF Created

\* The invariant holds in every reachable state.
LEMMA AlwaysIInv == Safety => []IInv
  <1>1. IInv /\ [Next]_vars => IInv'
    <2> SUFFICES ASSUME IInv, [Next]_vars PROVE IInv'
        OBVIOUS
    <2>1. CASE Next
      <3>1. TypeOK'
        BY <2>1, ClusterTypeOK, ReplicaTypeOK, ReconcileTypeOK, Zenon DEF Next, IInv
      <3> QED
        BY <2>1, <3>1, NextVersions, NextFoundInvalid, NextCreated DEF IInv
    <2>2. CASE UNCHANGED vars
      BY <2>2 DEF vars, envVars, apiVars, seenVars, workVars, IInv, TypeOK, Versions, IsPast, FoundInvalid,
                  Created, ValidCA, ValidateCert
    <2> QED
      BY <2>1, <2>2
  <1> QED
    BY InitIInv, <1>1, PTL DEF Safety

\* ReconcileKind works on what it has: past the look-up of the CA secret there
\* is one, and a timer is never set to a time before the start.
THEOREM TypeCorrect == Safety => []TypeOK
  <1>1. IInv => TypeOK
    BY DEF IInv
  <1> QED
    BY AlwaysIInv, <1>1, PTL

\* ReconcileKind never replaces a CA that is valid, with any number of replicas
\* and workers that work on old versions of it, deposed leaders included.
THEOREM ValidCANotReplaced == Safety => ValidCAIsKept
  <1>1. IInv /\ Next => (ca # None /\ ca' # ca => ~ValidCA(ca))
    <2> SUFFICES ASSUME IInv, Next, ca # None, ca' # ca PROVE ~ValidCA(ca)
        OBVIOUS
    <2>1. PICK w \in Workers : CommitsCA(w) /\ ca.rv = caSecret[w].rv
      BY CAChanges DEF InstallCA, IInv
    <2> QED
      BY <2>1, Zenon DEF CommitsCA, IInv, FoundInvalid
  <1>2. IInv /\ [Next]_vars => [ca # None /\ ca' # ca => ~ValidCA(ca)]_vars
    BY <1>1, Zenon
  <1> QED
    BY AlwaysIInv, <1>2, PTL DEF Safety, ValidCAIsKept
-----------------------------------------------------------------------------
(* Time: no leaf expires, and how long a CA is expired.                    *)

\* What a step does to one worker: a step of its own, a crash, a timer, or
\* nothing but news.
LEMMA WorkerSteps ==
  ASSUME TypeOK, Next, NEW v \in Workers
  PROVE  \/ ReconcileKind(v)
         \/ Crash(v[1]) /\ pc'[v] = "idle"
         \/ TimerFires(v)
         \/ /\ pc'[v] = pc[v] /\ caSecret'[v] = caSecret[v] /\ secret'[v] = secret[v] /\ timer'[v] = timer[v]
            /\ v \in queue => v \in queue'
            /\ leafSeen'[v] = leafSeen[v] \/ Inform(v)
  <1> DEFINE News == /\ pc'[v] = pc[v] /\ caSecret'[v] = caSecret[v] /\ secret'[v] = secret[v]
                     /\ timer'[v] = timer[v]
                     /\ v \in queue => v \in queue'
                     /\ leafSeen'[v] = leafSeen[v] \/ Inform(v)
  <1> USE DEF TypeOK, envVars, apiVars, seenVars, workVars
  <1>1. ASSUME InstallCA \/ Tick \/ LosesLease PROVE News
    BY <1>1, Zenon DEF InstallCA, Tick, LosesLease
  <1>2. ASSUME NEW s \in Secrets, Change(s) PROVE News
    BY <1>2, Zenon DEF Change
  <1>3. ASSUME NEW r \in Replicas, InformCA(r) \/ Resync(r) \/ Promote(r) PROVE News
    BY <1>3, Zenon DEF InformCA, Resync, Promote
  <1>4. ASSUME NEW r \in Replicas, Crash(r) PROVE News \/ (Crash(v[1]) /\ pc'[v] = "idle")
    <2>1. CASE v[1] = r
      <3>1. v \in {r} \X Secrets
        BY <2>1, Zenon DEF Workers
      <3> QED
        BY <1>4, <2>1, <3>1, ZenonT(60) DEF Crash
    <2>2. CASE v[1] # r
      <3>1. v \notin {r} \X Secrets
        BY <2>2, Zenon
      <3> QED
        BY <1>4, <3>1, ZenonT(60) DEF Crash
    <2> QED
      BY <2>1, <2>2, Zenon
  <1>5. ASSUME NEW w \in Workers, Inform(w) PROVE News
    BY <1>5, ZenonT(60) DEF Inform
  <1>6. ASSUME NEW w \in Workers, TimerFires(w), w # v PROVE News
    BY <1>6 DEF TimerFires
  <1>7. ASSUME NEW w \in Workers, ReconcileKind(w), w # v PROVE News
    <2>1. pc'[v] = pc[v] /\ caSecret'[v] = caSecret[v] /\ secret'[v] = secret[v]
      <3>1. CASE ReconcileStarts(w) \/ GetsCA(w)
        BY <1>7, <3>1, ZenonT(60) DEF ReconcileStarts, GetsCA, Returns
      <3>2. CASE Validates(w)
        BY <1>7, <3>2, ZenonT(60) DEF Validates, Returns
      <3>3. CASE (CommitsCA(w) \/ Commits(w)) /\ Returns(w)
        BY <1>7, <3>3, ZenonT(60) DEF Returns
      <3> QED
        BY <1>7, <3>1, <3>2, <3>3, ZenonT(60) DEF ReconcileKind, CommitsCA, Commits
    <2>2. leafSeen' = leafSeen /\ (v \in queue => v \in queue')
      BY <1>7, ZenonT(60) DEF ReconcileKind, ReconcileStarts, GetsCA, Validates, CommitsCA, Commits, UpdateFails
    <2>3. timer'[v] = timer[v]
      BY <1>7, ZenonT(60) DEF ReconcileKind, ReconcileStarts, GetsCA, Validates, CommitsCA, Commits, enqueueBeforeExpiration
    <2> QED
      BY <2>1, <2>2, <2>3, ZenonT(60)
  <1> HIDE DEF TypeOK, envVars, apiVars, seenVars, workVars, News
  <1>8. News \/ ReconcileKind(v) \/ (Crash(v[1]) /\ pc'[v] = "idle") \/ TimerFires(v)
    BY <1>1, <1>2, <1>3, <1>4, <1>5, <1>6, <1>7, ZenonT(60) DEF Next
  <1> QED
    BY <1>8, Zenon DEF News

\* A leaf is changed by a user, or by a worker that commits it.
LEMMA LeafChanges ==
  ASSUME TypeOK, Next, NEW s \in Secrets, leaf'[s] # leaf[s]
  PROVE  /\ leaf'[s].rv = leaf[s].rv + 1 /\ UNCHANGED <<caSeen, leafSeen, leader, ca, now, late>>
         /\ leaf'[s].exp # None =>
              \/ leaf'[s].exp = leaf[s].exp /\ leaf'[s].label # None
              \/ \E w \in Workers : pc[w] = "commit" /\ leaf'[s].exp = secret[w].exp /\ leaf'[s].label = secret[w].label
  <1> USE DEF envVars, apiVars, seenVars
  <1>1. \/ \E t \in Secrets : Change(t)
        \/ \E w \in Workers : Commits(w)
    BY ZenonT(60) DEF Next, InstallCA, Tick, LosesLease, InformCA, Resync, Promote, Crash, Inform, TimerFires, ReconcileKind,
           ReconcileStarts, GetsCA, Validates, CommitsCA
  <1>2. ASSUME NEW t \in Secrets, Change(t)
        PROVE  /\ leaf'[s].rv = leaf[s].rv + 1 /\ UNCHANGED <<caSeen, leafSeen, leader, ca, now, late>>
               /\ leaf'[s].exp # None => leaf'[s].exp = leaf[s].exp /\ leaf'[s].label # None
    <2>1. PICK l \in Labels \cup {None} :
            leaf' = [leaf EXCEPT ![t] = IF None \in {l, leaf[t].label} THEN Uncertified(leaf[t].rv + 1, l)
                                                                       ELSE Relabelled(leaf[t], l)]
      BY <1>2, ZenonT(60) DEF Change
    <2>2. t = s /\ leaf'[s] = IF None \in {l, leaf[s].label} THEN Uncertified(leaf[s].rv + 1, l)
                                                              ELSE Relabelled(leaf[s], l)
      BY <2>1, Zenon DEF TypeOK
    <2>3. UNCHANGED <<caSeen, leafSeen, leader, ca, now, late>>
      BY <1>2, Zenon DEF Change
    <2>4. CASE None \in {l, leaf[s].label}
      <3>1. leaf'[s] = Uncertified(leaf[s].rv + 1, l)
        BY <2>2, <2>4, Zenon
      <3>2. leaf'[s].rv = leaf[s].rv + 1 /\ leaf'[s].exp = None
        BY <3>1, EditedLeaf
      <3> QED
        BY <2>3, <3>2, Zenon
    <2>5. CASE None \notin {l, leaf[s].label}
      <3>1. leaf'[s] = Relabelled(leaf[s], l) /\ l # None
        BY <2>2, <2>5, Zenon
      <3>2. leaf'[s].rv = leaf[s].rv + 1 /\ leaf'[s].label = l /\ leaf'[s].exp = leaf[s].exp
        BY <3>1, EditedLeaf
      <3> QED
        BY <2>3, <3>1, <3>2, Zenon
    <2> QED
      BY <2>4, <2>5, ZenonT(60)
  <1>3. ASSUME NEW w \in Workers, Commits(w)
        PROVE  /\ leaf'[s].rv = leaf[s].rv + 1 /\ UNCHANGED <<caSeen, leafSeen, leader, ca, now, late>>
               /\ pc[w] = "commit" /\ leaf'[s].exp = secret[w].exp /\ leaf'[s].label = secret[w].label
    <2>1. secret[w] \in LeafSecret /\ pc[w] = "commit"
      BY <1>3, Zenon DEF Commits, TypeOK
    <2>2. w[2] = s /\ leaf'[s] = Updated(secret[w]) /\ leaf[s].rv = secret[w].rv
      BY <1>3, ZenonT(60) DEF Commits, TypeOK
    <2>3. /\ Updated(secret[w]).rv = secret[w].rv + 1 /\ Updated(secret[w]).exp = secret[w].exp
          /\ Updated(secret[w]).label = secret[w].label
      BY <2>1 DEF Updated, LeafSecret
    <2>4. UNCHANGED <<caSeen, leafSeen, leader, ca, now, late>>
      BY <1>3, Zenon DEF Commits
    <2> QED
      BY <2>1, <2>2, <2>3, <2>4, ZenonT(60)
  <1> QED
    BY <1>1, <1>2, <1>3, ZenonT(60)

\* An informer brings news of the CA with a resync, or a crash does.
LEMMA CASeenChanges ==
  ASSUME TypeOK, Next, NEW r \in Replicas, caSeen'[r] # caSeen[r]
  PROVE  InformCA(r) \/ Crash(r)
  <1>1. CASE \E q \in Replicas : InformCA(q) \/ Crash(q)
    <2>1. PICK q \in Replicas : InformCA(q) \/ Crash(q)
      BY <1>1
    <2>2. CASE q = r
      BY <2>1, <2>2, Zenon
    <2>3. CASE q # r
      <3>1. CASE InformCA(q)
        BY <2>3, <3>1, ZenonT(60) DEF InformCA, TypeOK
      <3>2. CASE Crash(q)
        BY <2>3, <3>2, ZenonT(60) DEF Crash, TypeOK
      <3> QED
        BY <2>1, <3>1, <3>2, Zenon
    <2> QED
      BY <2>2, <2>3, ZenonT(60)
  <1>2. CASE ~\E q \in Replicas : InformCA(q) \/ Crash(q)
    BY <1>2, ZenonT(60) DEF Next, InstallCA, Tick, LosesLease, Change, Resync, Promote, Inform, TimerFires, ReconcileKind,
                ReconcileStarts, GetsCA, Validates, CommitsCA, Commits, seenVars
  <1> QED
    BY <1>1, <1>2, Zenon

\* The next resync of a replica is set by a resync, or by its start.
LEMMA ResyncChanges ==
  ASSUME TypeOK, Next, NEW r \in Replicas, resync'[r] # resync[r]
  PROVE  Resync(r) \/ Crash(r)
  <1>1. CASE \E q \in Replicas : Resync(q) \/ Crash(q)
    <2>1. PICK q \in Replicas : Resync(q) \/ Crash(q)
      BY <1>1
    <2>2. CASE q = r
      BY <2>1, <2>2, Zenon
    <2>3. CASE q # r
      <3>1. CASE Resync(q)
        BY <2>3, <3>1, ZenonT(60) DEF Resync, TypeOK
      <3>2. CASE Crash(q)
        BY <2>3, <3>2, ZenonT(60) DEF Crash, TypeOK
      <3> QED
        BY <2>1, <3>1, <3>2, Zenon
    <2> QED
      BY <2>2, <2>3, ZenonT(60)
  <1>2. CASE ~\E q \in Replicas : Resync(q) \/ Crash(q)
    BY <1>2, ZenonT(60) DEF Next, InstallCA, Tick, LosesLease, Change, InformCA, Promote, Inform, TimerFires, ReconcileKind,
                ReconcileStarts, GetsCA, Validates, CommitsCA, Commits, seenVars
  <1> QED
    BY <1>1, <1>2, Zenon

\* The next resync stays at most a period away.
LEMMA NextResyncAhead ==
  ASSUME TypeOK, ResyncAhead, Next PROVE ResyncAhead'
  <1> SUFFICES ASSUME NEW r \in Replicas PROVE resync'[r] <= now' + ResyncPeriod
      BY Zenon DEF ResyncAhead
  <1>1. now \in Nat /\ ResyncPeriod \in Nat /\ resync[r] \in Nat /\ resync[r] <= now + ResyncPeriod
    BY ClockNumbers, Numbers, Zenon DEF TypeOK, ResyncAhead
  <1>2. CASE resync'[r] = resync[r]
    BY <1>1, <1>2, ClockAdvances, SMTT(30)
  <1>3. CASE resync'[r] # resync[r]
    <2>1. Resync(r) \/ Crash(r)
      BY <1>3, ResyncChanges, Zenon
    <2>2. resync'[r] = now + ResyncPeriod /\ now' = now
      BY <2>1, ZenonT(60) DEF Resync, Crash, envVars, TypeOK
    <2> QED
      BY <1>1, <2>2, SMTT(30)
  <1> QED
    BY <1>2, <1>3, Zenon

\* Every change of the CA gives it a new version, and is news to all.
LEMMA CANews ==
  ASSUME IInv, Next, ca' # ca
  PROVE  /\ ca' \in CASecret /\ ca' # None /\ UNCHANGED <<caSeen, now>>
         /\ \A r \in Replicas : caSeen[r] # ca'
         /\ ca # None => ca.rv < ca'.rv /\ ~ValidCA(ca)
  <1>1. CASE InstallCA
    <2>1. ca = None /\ ca' \in CASecret /\ UNCHANGED <<caSeen, now>>
      <3>1. ca = None /\ UNCHANGED <<caSeen, now>>
        BY <1>1, Zenon DEF InstallCA, seenVars, envVars
      <3>2. ca' \in CASecret
        BY <1>1, CertificatesAssumption DEF InstallCA, CASecret
      <3> QED
        BY <3>1, <3>2
    <2> QED
      BY <2>1, CertificatesAssumption DEF IInv, Versions, IsPast
  <1>2. ASSUME NEW w \in Workers, CommitsCA(w), ca.rv = caSecret[w].rv, ca' = Updated(caSecret[w])
        PROVE  /\ ca' \in CASecret /\ ca' # None /\ UNCHANGED <<caSeen, now>>
               /\ \A r \in Replicas : caSeen[r] # ca'
               /\ ca # None => ca.rv < ca'.rv /\ ~ValidCA(ca)
    <2>1. ca \in CASecret /\ caSecret[w] \in CASecret /\ pc[w] = "commitCA" /\ ca # None
      BY <1>2, ZenonT(60) DEF CommitsCA, IInv, TypeOK
    <2>2. ca' \in CASecret /\ ca'.rv = ca.rv + 1 /\ ca.rv \in Nat
      BY <1>2, <2>1, CreatedType DEF IInv, CASecret
    <2>3. ASSUME NEW r \in Replicas PROVE caSeen[r] # ca'
      <3>1. ca' # None
        BY <2>2, CertificatesAssumption
      <3>2. IsPast(caSeen[r])
        BY Zenon DEF IInv, Versions
      <3> QED
        BY <2>2, <3>1, <3>2, NewerVersion, Zenon DEF IsPast
    <2>4. ~ValidCA(ca)
      BY <1>2, <2>1, Zenon DEF IInv, FoundInvalid
    <2>5. UNCHANGED <<caSeen, now>>
      BY <1>2, ZenonT(60) DEF CommitsCA, seenVars
    <2> QED
      BY <2>2, <2>3, <2>4, <2>5, CertificatesAssumption, SMTT(30)
  <1> QED
    BY <1>1, <1>2, CAChanges, ZenonT(60) DEF IInv

\* The copy of a leaf stays fresh or is due for another reconcile.
LEMMA NextCopyIsFresh ==
  ASSUME IInv, CopyIsFresh, Next PROVE CopyIsFresh'
  <1> SUFFICES ASSUME NEW v \in Workers, pc'[v] \in {"getCA", "validate"}
               PROVE  secret'[v] = leafSeen'[v] \/ v \in queue'
      BY Zenon DEF CopyIsFresh
  <1>1. CASE ReconcileKind(v)
    <2>1. CASE ReconcileStarts(v)
      BY <2>1, ZenonT(60) DEF ReconcileStarts, IInv, TypeOK, CopyIsFresh, seenVars
    <2>2. CASE GetsCA(v)
      BY <2>2, ZenonT(60) DEF GetsCA, Returns, IInv, TypeOK, CopyIsFresh, seenVars
    <2>3. CASE Validates(v)
      BY <2>3, ZenonT(60) DEF Validates, Returns, IInv, TypeOK
    <2>4. CASE (CommitsCA(v) \/ Commits(v)) /\ Returns(v)
      BY <2>4, Zenon DEF Returns, IInv, TypeOK
    <2> QED
      BY <1>1, <2>1, <2>2, <2>3, <2>4, ZenonT(60) DEF ReconcileKind, CommitsCA, Commits
  <1>2. CASE TimerFires(v)
    BY <1>2, Zenon DEF TimerFires
  <1>3. CASE /\ pc'[v] = pc[v] /\ secret'[v] = secret[v]
             /\ v \in queue => v \in queue'
             /\ leafSeen'[v] = leafSeen[v] \/ Inform(v)
    BY <1>3, ZenonT(60) DEF CopyIsFresh, Inform
  <1> QED
    BY <1>1, <1>2, <1>3, WorkerSteps DEF IInv

\* The versions of a leaf grow.
LEMMA NextLeafVersions ==
  ASSUME IInv, LeafVersions, Next PROVE LeafVersions'
  <1>1. ASSUME NEW w \in Workers PROVE leafSeen'[w].rv <= leaf'[w[2]].rv
    <2>1. w[2] \in Secrets /\ leafSeen[w].rv <= leaf[w[2]].rv
      BY WorkerParts, Zenon DEF LeafVersions
    <2>2. leaf[w[2]].rv \in Nat /\ leafSeen[w].rv \in Nat
      BY <2>1, ZenonT(60) DEF IInv, TypeOK, LeafSecret
    <2>3. CASE leaf'[w[2]] # leaf[w[2]]
      BY <2>1, <2>2, <2>3, LeafChanges DEF IInv
    <2>4. CASE leaf'[w[2]] = leaf[w[2]]
      <3>1. leafSeen'[w] = leafSeen[w] \/ leafSeen'[w] = leaf[w[2]]
        <4>1. CASE ReconcileKind(w) \/ TimerFires(w)
          BY <4>1, ZenonT(60) DEF TimerFires, ReconcileKind, ReconcileStarts, GetsCA, Validates, CommitsCA, Commits, seenVars
        <4>2. CASE Crash(w[1])
          BY <4>2, ZenonT(60) DEF Crash
        <4>3. CASE leafSeen'[w] = leafSeen[w] \/ Inform(w)
          BY <4>3 DEF Inform, IInv, TypeOK
        <4> QED
          BY <4>1, <4>2, <4>3, WorkerSteps, Zenon DEF IInv
      <3> QED
        BY <2>1, <2>2, <2>4, <3>1, SMTT(30)
    <2> QED
      BY <2>3, <2>4
  <1>2. ca # None => ca' # None
    BY CANews
  <1>3. ASSUME NEW s \in Secrets, leaf'[s].exp # None PROVE leaf'[s].label # None /\ ca # None
    <2>1. CASE leaf'[s] = leaf[s]
      BY <1>3, <2>1, Zenon DEF LeafVersions
    <2>2. CASE leaf'[s] # leaf[s]
      BY <1>3, <2>2, LeafChanges, ZenonT(60) DEF LeafVersions, IInv, TypeOK
    <2> QED
      BY <2>1, <2>2
  <1> QED
    BY <1>1, <1>2, <1>3 DEF LeafVersions

\* The leader stays with something to do for each leaf, or the leaf is settled.
LEMMA NextCovered ==
  ASSUME IInv, CopyIsFresh, LeafVersions, OldInvalid, ResyncAhead, Next, NEW s \in Secrets, Covered(s) PROVE Covered(s)'
  <1> DEFINE r == leader'
             w == <<r, s>>
             Pending == caSeen'[r] # ca' \/ leafSeen'[w] # leaf'[s] \/ w \in queue' \/ pc'[w] # "idle"
             Current == leaf[s].exp # None /\ leaf[s].ca = ca.rv /\ leaf[s].san = leaf[s].label
             CAThen(t) == ca.exp # None /\ t + rotationThreshold < ca.exp + ResyncPeriod
             Timed(t) == t # None /\ t + rotationThreshold <= leaf[s].exp + 1
             Todo == Pending \/ (leaf'[s] = leaf[s] /\ ca' = ca /\ Current /\ CAThen(resync'[r]) /\ Timed(timer'[w]))
  <1> SUFFICES ASSUME r # None, ca' # None, leaf'[s].label # None PROVE Todo
      BY Zenon DEF Covered, Settled
  <1>0. r \in Replicas /\ w \in Workers /\ w[1] = r /\ w[2] = s
    <2>1. r \in Replicas
      BY ClusterTypeOK, ReplicaTypeOK, ReconcileTypeOK, ZenonT(60) DEF Next, IInv, TypeOK
    <2> QED
      BY <2>1, Zenon DEF Workers
  <1> HIDE DEF r, w
  <1>1. CASE ca' # ca
    BY <1>0, <1>1, CANews, Zenon
  <1>2. CASE leaf'[s] # leaf[s]
    <2>1. leafSeen'[w].rv <= leaf[s].rv /\ leaf'[s].rv = leaf[s].rv + 1 /\ leaf[s].rv \in Nat
      BY <1>0, <1>2, LeafChanges, Zenon DEF IInv, LeafVersions, TypeOK, LeafSecret
    <2>2. ~(leaf'[s].rv <= leaf[s].rv)
      BY <2>1, NewerVersion, Zenon
    <2>3. leafSeen'[w] # leaf'[s]
      BY <2>1, <2>2, ZenonT(60)
    <2> QED
      BY <2>3, ZenonT(60)
  <1>3. CASE leaf'[s] = leaf[s] /\ ca' = ca
    <2>1. leaf[s].label # None /\ ca # None /\ leaf[s] \in LeafSecret /\ ca \in CASecret
      BY <1>3, Zenon DEF IInv, TypeOK
    <2>2. leafSeen[w].label # None \/ leafSeen[w] # leaf[s]
      BY <2>1, Zenon
    <2>3. CASE leader' # leader
      <3>1. PICK q \in Replicas : Promote(q) /\ q = r
        BY <2>3, ZenonT(60) DEF r, Next, InstallCA, Tick, LosesLease, Change, InformCA, Resync, Promote, Crash, Inform, TimerFires,
                    ReconcileKind, ReconcileStarts, GetsCA, Validates, CommitsCA, Commits, envVars
      <3>2. w \in {r} \X Secrets
        BY Zenon DEF w
      <3> QED
        BY <1>3, <2>2, <3>1, <3>2, ZenonT(60) DEF Promote, Listed, seenVars
    <2>4. CASE leader' = leader
      <3>1. CASE ReconcileKind(w)
        <4>1. CASE ReconcileStarts(w)
          BY <1>0, <1>3, <2>2, <2>4, <4>1, ZenonT(60) DEF r, ReconcileStarts, isNotLeaderNorObserver, IInv, TypeOK, seenVars
        <4>2. CASE GetsCA(w)
          BY <1>0, <1>3, <2>1, <4>2, ZenonT(60) DEF GetsCA, IInv, TypeOK, seenVars
        <4>3. CASE Validates(w) /\ pc'[w] # "idle"
          BY <4>3, Zenon
        <4>4. CASE /\ Validates(w) /\ enqueueBeforeExpiration(w, secret[w].exp)
                   /\ ValidCA(caSecret[w]) /\ ValidLeaf(secret[w], caSecret[w])
          <5>1. CASE w \in queue \/ leafSeen[w] # leaf[s]
            BY <1>0, <1>3, <4>4, <5>1, Zenon DEF Validates, seenVars
          <5>2. CASE w \notin queue /\ leafSeen[w] = leaf[s]
            <6>1. secret[w] = leaf[s] /\ caSecret[w] = ca
              BY <1>0, <4>4, <5>2, ZenonT(60) DEF Validates, CopyIsFresh, OldInvalid
            <6>2. ValidLeaf(leaf[s], ca) /\ ValidCA(ca) /\ enqueueBeforeExpiration(w, leaf[s].exp)
              BY <4>4, <6>1, Zenon
            <6>3. Current /\ ValidateCert(leaf[s].exp) /\ leaf[s].exp \in Nat
              BY <2>1, <6>2, ZenonT(60) DEF ValidLeaf, LeafSecret
            <6>4. now \in Nat
              BY ClockNumbers, Zenon DEF IInv
            <6>5. CAThen(resync'[r])
              <7>1. resync'[r] = resync[r] /\ resync[r] \in Nat /\ resync[r] <= now + ResyncPeriod
                BY <1>0, <4>4, Zenon DEF Validates, seenVars, ResyncAhead, IInv, TypeOK
              <7>2. ca.exp # None /\ ca.exp \in Nat /\ ca.exp > now + rotationThreshold
                BY <2>1, <6>2, Zenon DEF ValidCA, ValidateCert, CASecret
              <7>3. resync[r] + rotationThreshold < ca.exp + ResyncPeriod
                BY <6>4, <7>1, <7>2, Numbers, SMTT(30)
              <7> QED
                BY <7>1, <7>2, <7>3, Zenon
            <6>6. Timed(timer'[w])
              <7>1. timer[w] \in Nat \cup {None} /\ w \in DOMAIN timer
                BY <1>0, Zenon DEF IInv, TypeOK
              <7>2. leaf[s].exp + 1 >= rotationThreshold
                BY <6>3, <6>4, TimerArithmetic, Zenon DEF ValidateCert
              <7>3. (leaf[s].exp + 1) - rotationThreshold \in Nat
                BY <6>3, <7>2, Numbers
              <7>4. /\ timer'[w] \in Nat
                    /\ timer'[w] <= (leaf[s].exp + 1) - rotationThreshold
                BY <6>2, <7>1, <7>3 DEF enqueueBeforeExpiration
              <7>5. timer'[w] + rotationThreshold <= leaf[s].exp + 1
                BY <6>3, <7>4, TimerArithmetic, ZenonT(60)
              <7>6. timer'[w] # None
                BY <7>4, CertificatesAssumption, Zenon
              <7> QED
                BY <7>5, <7>6, Zenon
            <6> QED
              BY <1>3, <6>3, <6>5, <6>6, ZenonT(60)
          <5> QED
            BY <5>1, <5>2, ZenonT(60)
        <4>5. CASE CommitsCA(w)
          <5>1. caSecret[w] \in CASecret /\ ca \in CASecret
            BY <1>0, <4>5, ZenonT(60) DEF CommitsCA, IInv, TypeOK
          <5>2. ca.rv = caSecret[w].rv => ca # Updated(caSecret[w])
            BY <5>1, CreatedType, SMTT(30) DEF IInv, CASecret
          <5> QED
            BY <1>3, <4>5, <5>2, Zenon DEF CommitsCA, UpdateFails
        <4>6. CASE Commits(w)
          <5>1. secret[w] \in LeafSecret /\ s \in DOMAIN leaf
            BY <1>0, <4>6, Zenon DEF Commits, IInv, TypeOK
          <5>2. Updated(secret[w]).rv = secret[w].rv + 1 /\ secret[w].rv \in Nat
            BY <5>1 DEF Updated, LeafSecret
          <5>3. leaf[s].rv = secret[w].rv => leaf' # [leaf EXCEPT ![s] = Updated(secret[w])]
            BY <1>3, <5>1, <5>2
          <5> QED
            BY <1>0, <4>6, <5>3, ZenonT(60) DEF Commits, UpdateFails
        <4> QED
          BY <1>0, <3>1, <4>1, <4>2, <4>3, <4>4, <4>5, <4>6, ZenonT(60) DEF ReconcileKind, Validates, IInv, TypeOK
      <3>2. ~Crash(r)
        BY <2>4, Zenon DEF r, Crash
      <3>3. CASE TimerFires(w) \/ Inform(w)
        BY <3>3, Zenon DEF TimerFires, Inform
      <3>4. CASE /\ pc'[w] = pc[w] /\ timer'[w] = timer[w] /\ leafSeen'[w] = leafSeen[w]
                 /\ w \in queue => w \in queue'
        <4>1. CASE caSeen'[r] # caSeen[r]
          <5>1. InformCA(r)
            BY <1>0, <3>2, <4>1, CASeenChanges DEF IInv
          <5>2. w \in {r} \X Secrets
            BY Zenon DEF w
          <5> QED
            BY <1>3, <2>2, <3>4, <5>1, <5>2, ZenonT(60) DEF InformCA, Listed
        <4>2. CASE resync'[r] # resync[r]
          <5>1. Resync(r)
            BY <1>0, <3>2, <4>2, ResyncChanges, Zenon DEF IInv
          <5>2. w \in {r} \X Secrets
            BY Zenon DEF w
          <5> QED
            BY <1>3, <2>2, <3>4, <5>1, <5>2, ZenonT(60) DEF Resync, Listed
        <4>3. CASE caSeen'[r] = caSeen[r] /\ resync'[r] = resync[r]
          <5>1. \/ caSeen[r] # ca \/ leafSeen[w] # leaf[s] \/ w \in queue \/ pc[w] # "idle"
                \/ Current /\ CAThen(resync[r]) /\ Timed(timer[w])
            BY <2>1, <2>4, Zenon DEF Covered, Settled, r, w
          <5> QED
            BY <1>3, <3>4, <4>3, <5>1, ZenonT(60)
        <4> QED
          BY <4>1, <4>2, <4>3, ZenonT(60)
      <3> QED
        BY <1>0, <3>1, <3>2, <3>3, <3>4, WorkerSteps, ZenonT(60) DEF IInv
    <2> QED
      BY <2>3, <2>4, Zenon
  <1> QED
    BY <1>1, <1>2, <1>3, ZenonT(60)

\* A controller that is caught up has settled every leaf.
LEMMA CaughtUpSettled ==
  ASSUME TypeOK, CaughtUp, NEW s \in Secrets, Covered(s), ca # None, leaf[s].label # None
  PROVE  Settled(leader, s)
  <1>1. leader \in Replicas /\ <<leader, s>> \in Workers /\ <<leader, s>>[2] = s
    BY Zenon DEF CaughtUp, TypeOK, Workers
  <1>2. /\ caSeen[leader] = ca /\ leafSeen[<<leader, s>>] = leaf[s]
        /\ <<leader, s>> \notin queue /\ pc[<<leader, s>>] = "idle"
    BY <1>1, Zenon DEF CaughtUp
  <1> QED
    BY <1>1, <1>2, Zenon DEF CaughtUp, Covered

\* No leaf gets due for longer than the controller is late.
LEMMA NextLeavesInTime ==
  ASSUME IInv, LeafVersions, \A s \in Secrets : Covered(s), LeavesInTime, Next PROVE LeavesInTime'
  <1>0. /\ now \in Nat /\ late \in Nat /\ rotationThreshold \in Nat /\ expirationInterval \in Nat
        /\ \A s \in Secrets : leaf[s].exp \in Nat \cup {None}
        /\ \A w \in Workers : pc[w] = "commit" => secret[w].exp \in Nat
    <2>1. now \in Nat /\ late \in Nat
      BY ClockNumbers, Zenon DEF IInv
    <2>2. \A s \in Secrets : leaf[s].exp \in Nat \cup {None}
      BY DEF IInv, TypeOK, LeafSecret
    <2>3. \A w \in Workers : pc[w] = "commit" => secret[w].exp \in Nat
      BY Zenon DEF IInv, Created
    <2> QED
      BY <2>1, <2>2, <2>3, Numbers
  <1>1. CASE Tick /\ CaughtUp
    <2>1. ASSUME NEW s \in Secrets, leaf'[s].exp # None PROVE InTime(leaf[s].exp)'
      <3> DEFINE w == <<leader, s>>
      <3>1. w \in Workers /\ w[2] = s /\ leader # None /\ leaf' = leaf
        BY <1>1, Zenon DEF CaughtUp, Tick, apiVars, Workers, IInv, TypeOK
      <3>2. timer[w] # None /\ timer[w] + rotationThreshold <= leaf[s].exp + 1
        BY <1>1, <2>1, <3>1, CaughtUpSettled, Zenon DEF Settled, LeafVersions, IInv
      <3>3. timer[w] \in Nat /\ now + 1 <= timer[w]
        <4>1. timer[w] \in Nat
          BY <3>1, <3>2 DEF IInv, TypeOK
        <4>2. ~(timer[w] <= now)
          BY <1>1, <3>1, <3>2, Zenon DEF CaughtUp, Due
        <4> QED
          BY <1>0, <4>1, <4>2, SMTT(30)
      <3>4. now' = now + 1 /\ late' = 0
        BY <1>1, Zenon DEF Tick
      <3> QED
        <4>1. leaf[s].exp \in Nat
          BY <1>0, <2>1, <3>1
        <4>2. (now + 1) + rotationThreshold <= leaf[s].exp + 0 + 1
          BY <1>0, <3>2, <3>3, <4>1, TimerArithmetic, ZenonT(60)
        <4> QED
          BY <3>1, <3>4, <4>2, ZenonT(60) DEF InTime
    <2>2. \A w \in Workers : pc'[w] = "idle"
      BY <1>1, ZenonT(60) DEF Tick, CaughtUp, workVars
    <2> QED
      BY <2>1, <2>2, Zenon DEF LeavesInTime
  <1>2. CASE Tick /\ ~CaughtUp
    <2>1. now' = now + 1 /\ late' = late + 1 /\ UNCHANGED <<leaf, pc, secret>>
      BY <1>2 DEF Tick, apiVars, workVars
    <2>2. ASSUME NEW exp \in Nat, now + rotationThreshold <= exp + late + 1
          PROVE  now' + rotationThreshold <= exp + late' + 1
      BY <1>0, <2>1, <2>2, SMTT(30)
    <2>3. ASSUME NEW s \in Secrets, leaf'[s].exp # None PROVE now' + rotationThreshold <= leaf'[s].exp + late' + 1
      BY <1>0, <2>1, <2>2, <2>3, Zenon DEF LeavesInTime, InTime
    <2>4. ASSUME NEW w \in Workers, pc'[w] = "commit"
          PROVE  now' + rotationThreshold <= secret'[w].exp + late' + 1
      BY <1>0, <2>1, <2>2, <2>4, Zenon DEF LeavesInTime, InTime
    <2> QED
      BY <2>3, <2>4 DEF LeavesInTime, InTime
  <1>3. CASE ~Tick
    <2>1. now' = now /\ late' = late
      BY <1>3, ClockStands
    <2>2. ASSUME NEW s \in Secrets, leaf'[s].exp # None PROVE InTime(leaf'[s].exp)
      BY <2>2, LeafChanges, ZenonT(60) DEF LeavesInTime, IInv
    <2>3. ASSUME NEW w \in Workers, pc'[w] = "commit" PROVE InTime(secret'[w].exp)
      <3>1. CASE pc[w] = "commit" /\ secret'[w] = secret[w]
        BY <3>1 DEF LeavesInTime
      <3>2. CASE secret'[w] = CreateCert(secret[w], caSecret[w])
        <4>1. secret'[w].exp = now + expirationInterval
          BY <3>2, CreatedExpires, Zenon
        <4>2. rotationThreshold <= expirationInterval
          BY CertificatesAssumption
        <4>3. now + rotationThreshold <= (now + expirationInterval) + late + 1
          BY <1>0, <4>2, SMTT(30)
        <4> QED
          BY <4>1, <4>3 DEF InTime
      <3> QED
        BY <2>3, <3>1, <3>2, Phases, ZenonT(60) DEF IInv
    <2> QED
      BY <2>1, <2>2, <2>3, ZenonT(60) DEF LeavesInTime, InTime
  <1> QED
    BY <1>1, <1>2, <1>3, Zenon

\* An old version of the CA stays invalid, and the one just replaced is.
LEMMA NextOldInvalid ==
  ASSUME IInv, OldInvalid, Next PROVE OldInvalid'
  <1>1. ASSUME NEW c \in CASecret, c # ca => ~ValidCA(c), ca # None, c # ca' PROVE ~ValidCA(c)'
    BY <1>1, InvalidStays, CANews DEF IInv
  <1>2. ASSUME NEW r \in Replicas, caSeen'[r] # None, caSeen'[r] # ca' PROVE ~ValidCA(caSeen[r])'
    <2>1. caSeen'[r] = caSeen[r]
      <3> SUFFICES ASSUME caSeen'[r] # caSeen[r] PROVE FALSE
          OBVIOUS
      <3>1. InformCA(r) \/ Crash(r)
        BY CASeenChanges, ZenonT(60) DEF IInv
      <3>2. r \in DOMAIN caSeen
        BY DEF IInv, TypeOK
      <3>3. CASE InformCA(r)
        <4>1. caSeen'[r] = ca /\ ca' = ca
          BY <3>2, <3>3 DEF InformCA, apiVars
        <4> QED
          BY <1>2, <4>1, Zenon
      <3>4. CASE Crash(r)
        <4>1. caSeen'[r] = ca /\ ca' = ca
          BY <3>2, <3>4, Zenon DEF Crash, apiVars
        <4> QED
          BY <1>2, <4>1, ZenonT(60)
      <3> QED
        BY <3>1, <3>3, <3>4, Zenon
    <2>2. PICK c \in CASecret : c = caSeen[r]
      BY <1>2, <2>1, Zenon DEF IInv, TypeOK
    <2>3. ~ValidCA(c)'
      BY <1>1, <1>2, <2>1, <2>2, Zenon DEF OldInvalid, IInv, Versions, IsPast
    <2> QED
      BY <2>1, <2>2, <2>3 DEF ValidCA, ValidateCert
  <1>3. ASSUME NEW w \in Workers, pc'[w] = "validate", caSecret'[w] # ca' PROVE ~ValidCA(caSecret[w])'
    <2>1. PICK c \in CASecret : c = caSecret'[w] /\ (c # ca => ~ValidCA(c)) /\ ca # None
      <3>1. CASE pc[w] = "validate" /\ caSecret'[w] = caSecret[w]
        BY <3>1, Zenon DEF OldInvalid, IInv, TypeOK
      <3>2. CASE GetsCA(w) /\ caSecret'[w] = caSeen[w[1]]
        <4>1. caSeen[w[1]] # None /\ w[1] \in Replicas
          BY <1>3, <3>2, WorkerParts, Zenon DEF GetsCA, Returns, IInv, TypeOK
        <4> QED
          BY <3>2, <4>1, ZenonT(60) DEF OldInvalid, IInv, Versions, IsPast, TypeOK
      <3> QED
        BY <1>3, <3>1, <3>2, Phases, ZenonT(60) DEF IInv
    <2>2. ~ValidCA(c)'
      BY <1>1, <1>3, <2>1, Zenon
    <2> QED
      BY <2>1, <2>2, Zenon DEF ValidCA, ValidateCert
  <1> QED
    BY <1>2, <1>3, ZenonT(60) DEF OldInvalid

\* A CA is made to replace one that lasts no longer than the threshold.
LEMMA NextCALasts ==
  ASSUME IInv, CALasts, Next PROVE CALasts'
  <1> SUFFICES ASSUME NEW w \in Workers, pc'[w] = "commitCA"
               PROVE  /\ caSecret'[w].exp \in Nat
                      /\ caSecret'[w].rv = ca'.rv /\ ca'.exp # None => ca'.exp <= caSecret'[w].exp
      BY ZenonT(60) DEF CALasts
  <1>1. CASE pc[w] = "commitCA" /\ caSecret'[w] = caSecret[w]
    <2>1. CASE ca' = ca
      BY <1>1, <2>1, Zenon DEF CALasts
    <2>2. CASE ca' # ca
      <3>1. ca # None /\ ca \in CASecret /\ caSecret[w] \in CASecret /\ caSecret[w].rv <= ca.rv
        BY <1>1, Zenon DEF IInv, TypeOK, FoundInvalid
      <3>2. ca.rv < ca'.rv /\ ca' \in CASecret
        BY <2>2, <3>1, CANews, Zenon
      <3> QED
        BY <1>1, <3>1, <3>2, SMTT(30) DEF CALasts, CASecret
    <2> QED
      BY <2>1, <2>2, Zenon
  <1>2. CASE Validates(w) /\ ~ValidCA(caSecret[w]) /\ caSecret'[w] = CreateCACerts(caSecret[w])
    <2>1. caSecret[w] \in CASecret /\ ca \in CASecret /\ IsPast(caSecret[w]) /\ ca' = ca
      BY <1>2, Zenon DEF Validates, IInv, TypeOK, Versions, apiVars
    <2>2. caSecret'[w].rv = caSecret[w].rv /\ caSecret'[w].exp = now + caExpirationInterval
      BY <1>2, <2>1 DEF CreateCACerts, CASecret
    <2>3. now \in Nat
      BY ClockNumbers, Zenon DEF IInv
    <2>4. caSecret[w].rv = ca.rv => caSecret[w] = ca
      BY <2>1, CertificatesAssumption, SMTT(30) DEF IsPast, CASecret
    <2> QED
      BY <1>2, <2>1, <2>2, <2>3, <2>4, Numbers, CertificatesAssumption, SMTT(30) DEF ValidCA, ValidateCert, CASecret
  <1> QED
    BY <1>1, <1>2, Phases, ZenonT(60) DEF IInv

\* The CA is looked at often enough, and its expiration never gets earlier.
LEMMA NextCALooksInTime ==
  ASSUME IInv, LeafVersions, \A s \in Secrets : Covered(s), OldInvalid, CALasts, CALooksInTime, Next
  PROVE  CALooksInTime'
  <1>0. /\ now \in Nat /\ late \in Nat /\ rotationThreshold \in Nat /\ ResyncPeriod \in Nat
        /\ ca # None => ca \in CASecret
    BY ClockNumbers, Numbers, Zenon DEF IInv, TypeOK
  <1>1. CASE Tick /\ CaughtUp
    <2>1. ASSUME NEW s \in Secrets, leaf'[s].exp # None PROVE CAInTime'
      <3>1. leaf' = leaf /\ ca' = ca /\ now' = now + 1 /\ late' = 0
        BY <1>1, Zenon DEF Tick, apiVars
      <3>2. leaf[s].label # None /\ ca # None
        BY <2>1, <3>1, Zenon DEF LeafVersions
      <3>3. ca.exp # None /\ resync[leader] + rotationThreshold < ca.exp + ResyncPeriod
        BY <1>1, <3>2, CaughtUpSettled, Zenon DEF Settled, IInv
      <3>4. leader \in Replicas /\ ~(resync[leader] <= now) /\ resync[leader] \in Nat
        <4>1. leader \in Replicas /\ resync[leader] \in Nat /\ resync[leader] > now
          BY <1>1, Zenon DEF CaughtUp, IInv, TypeOK
        <4> QED
          BY <1>0, <4>1, SMTT(30)
      <3>5. ca.exp \in Nat
        BY <1>0, <3>2, <3>3, Zenon DEF CASecret
      <3>6. (now + 1) + rotationThreshold < ca.exp + ResyncPeriod + 0
        BY <1>0, <3>3, <3>4, <3>5, SMTT(30)
      <3> QED
        BY <3>1, <3>3, <3>6, Zenon DEF CAInTime
    <2>2. \A w \in Workers : pc'[w] = "idle"
      BY <1>1, ZenonT(60) DEF Tick, CaughtUp, workVars
    <2> QED
      BY <2>1, <2>2, Zenon DEF CALooksInTime
  <1>2. ASSUME ca # None, CAInTime, ~(Tick /\ CaughtUp) PROVE CAInTime'
    <2>1. ca \in CASecret /\ ca.exp \in Nat /\ now + rotationThreshold < ca.exp + ResyncPeriod + late
      BY <1>0, <1>2, Zenon DEF CASecret, CAInTime
    <2>2. CASE Tick
      <3>1. now' = now + 1 /\ late' = late + 1 /\ ca' = ca
        BY <1>2, <2>2, Zenon DEF Tick, apiVars
      <3>2. (now + 1) + rotationThreshold < ca.exp + ResyncPeriod + (late + 1)
        BY <1>0, <2>1, SMTT(30)
      <3> QED
        BY <1>2, <3>1, <3>2, Zenon DEF CAInTime
    <2>3. CASE ~Tick
      <3>1. now' = now /\ late' = late
        BY <2>3, ClockStands, Zenon DEF IInv
      <3>2. CASE ca' = ca
        BY <1>2, <3>1, <3>2, Zenon DEF CAInTime
      <3>3. CASE ca' # ca
        <4>1. PICK w \in Workers : CommitsCA(w) /\ ca.rv = caSecret[w].rv /\ ca' = Updated(caSecret[w])
          BY <1>2, <3>3, CAChanges, Zenon DEF InstallCA, IInv
        <4>2. caSecret[w] \in CASecret /\ pc[w] = "commitCA"
          BY <4>1, Zenon DEF CommitsCA, IInv, TypeOK
        <4>3. ca'.exp = caSecret[w].exp
          BY <4>1, <4>2, Zenon DEF Updated, CASecret
        <4>4. ca'.exp \in Nat /\ ca.exp <= ca'.exp
          BY <1>2, <4>1, <4>2, <4>3, ZenonT(60) DEF CALasts, CAInTime
        <4>5. now + rotationThreshold < ca'.exp + ResyncPeriod + late
          BY <1>0, <2>1, <4>4, SMTT(30)
        <4>6. ca'.exp # None
          BY <4>4, CertificatesAssumption, Zenon
        <4> QED
          BY <3>1, <4>5, <4>6, Zenon DEF CAInTime
      <3> QED
        BY <3>2, <3>3, Zenon
    <2> QED
      BY <2>2, <2>3, Zenon
  <1>3. CASE ~(Tick /\ CaughtUp)
    <2>1. ASSUME NEW s \in Secrets, leaf'[s].exp # None PROVE CAInTime'
      <3>1. CASE leaf'[s].exp = leaf[s].exp
        BY <1>2, <1>3, <2>1, <3>1, Zenon DEF CALooksInTime, LeafVersions
      <3>2. CASE leaf'[s] # leaf[s] /\ leaf'[s].exp # leaf[s].exp
        <4>1. PICK w \in Workers : pc[w] = "commit"
          BY <2>1, <3>2, LeafChanges, ZenonT(60) DEF IInv
        <4> QED
          BY <1>2, <1>3, <4>1, Zenon DEF CALooksInTime, IInv, TypeOK
      <3> QED
        BY <3>1, <3>2, Zenon
    <2>2. ASSUME NEW w \in Workers, pc'[w] = "commit" PROVE CAInTime'
      <3>1. CASE pc[w] = "commit"
        BY <1>2, <1>3, <3>1, Zenon DEF CALooksInTime, IInv, TypeOK
      <3>2. CASE Validates(w) /\ ValidCA(caSecret[w])
        <4>1. ca # None /\ ca' = ca /\ ValidCA(ca) /\ now' = now /\ late' = late
          BY <3>2, Zenon DEF Validates, OldInvalid, IInv, TypeOK, apiVars, envVars
        <4>2. ca.exp # None /\ ca.exp \in Nat /\ ca.exp > now + rotationThreshold
          BY <1>0, <4>1, Zenon DEF ValidCA, ValidateCert, CASecret
        <4>3. now + rotationThreshold < ca.exp + ResyncPeriod + late
          BY <1>0, <4>2, SMTT(30)
        <4> QED
          BY <4>1, <4>2, <4>3, Zenon DEF CAInTime
      <3> QED
        BY <2>2, <3>1, <3>2, Phases, ZenonT(60) DEF IInv
    <2> QED
      BY <2>1, <2>2, Zenon DEF CALooksInTime
  <1> QED
    BY <1>1, <1>3, Zenon

\* Nothing has a certificate at the start.
LEMMA InitTInv == Init => TInv
  <1> SUFFICES ASSUME Init PROVE TInv
      BY Zenon
  <1>1. \A s \in Secrets : leaf[s].exp = None /\ leaf[s].rv = 0
    BY Zenon DEF Init, Uncertified
  <1>2. CopyIsFresh /\ LeavesInTime /\ OldInvalid /\ CALasts /\ CALooksInTime /\ \A s \in Secrets : Covered(s)
    BY <1>1, Zenon DEF Init, CopyIsFresh, LeavesInTime, OldInvalid, CALasts, CALooksInTime, Covered
  <1>3. LeafVersions
    BY <1>1, WorkerParts, SMTT(30) DEF Init, Uncertified, LeafVersions
  <1>4. ResyncAhead
    <2>1. now = 0 /\ \A r \in Replicas : resync[r] = ResyncPeriod
      BY Zenon DEF Init
    <2>2. ResyncPeriod <= 0 + ResyncPeriod
      BY Numbers, SMT
    <2> QED
      BY <2>1, <2>2, Zenon DEF ResyncAhead
  <1> QED
    BY <1>2, <1>3, <1>4, InitIInv, Zenon DEF TInv

\* The invariant about time holds in every reachable state.
LEMMA AlwaysTInv == Safety => []TInv
  <1>1. TInv /\ IInv' /\ [Next]_vars => TInv'
    <2> SUFFICES ASSUME TInv, IInv', [Next]_vars PROVE TInv'
        OBVIOUS
    <2>1. CASE Next
      <3>1. CopyIsFresh' /\ LeafVersions' /\ LeavesInTime' /\ OldInvalid' /\ CALasts' /\ CALooksInTime' /\ ResyncAhead'
        BY <2>1, NextCopyIsFresh, NextLeafVersions, NextLeavesInTime, NextOldInvalid, NextCALasts,
           NextCALooksInTime, NextResyncAhead, Zenon DEF TInv, IInv
      <3>2. \A s \in Secrets : Covered(s)'
        BY <2>1, NextCovered, Zenon DEF TInv
      <3> QED
        BY <3>1, <3>2 DEF TInv
    <2>2. CASE UNCHANGED vars
      <3> USE <2>2 DEF vars, envVars, apiVars, seenVars, workVars, TInv
      <3>1. CopyIsFresh' /\ LeafVersions' /\ CALasts'
        BY ZenonT(60) DEF CopyIsFresh, LeafVersions, CALasts
      <3>2. LeavesInTime' /\ CALooksInTime' /\ ResyncAhead'
        BY ZenonT(60) DEF LeavesInTime, InTime, CALooksInTime, CAInTime, ResyncAhead
      <3>3. OldInvalid'
        BY ZenonT(60) DEF OldInvalid, ValidCA, ValidateCert
      <3>4. \A s \in Secrets : Covered(s)'
        BY ZenonT(60) DEF Covered, Settled
      <3> QED
        BY <3>1, <3>2, <3>3, <3>4, Zenon
    <2> QED
      BY <2>1, <2>2
  <1> QED
    BY InitTInv, AlwaysIInv, <1>1, PTL DEF Safety

\* Every leaf is renewed with the rotation threshold left, less the delays of the
\* controller, whatever the changes by users, the crashes, the changes of leader
\* and the failed updates: enqueueBeforeExpiration and PromoteFunc leave none
\* without a timer, or work, of the leader.
THEOREM LeavesRenewedInTime == Safety => []RenewedInTime
  <1>1. TInv => RenewedInTime
    <2> SUFFICES ASSUME TInv, NEW s \in Secrets, leaf[s].exp # None
                 PROVE  now + rotationThreshold <= leaf[s].exp + MaxLate + 1
        BY DEF RenewedInTime
    <2>0. now \in Nat /\ late \in Nat /\ late <= MaxLate
      BY ClockNumbers, Zenon DEF TInv, IInv
    <2>1. leaf[s].exp \in Nat
      BY ZenonT(60) DEF TInv, IInv, TypeOK, LeafSecret
    <2>2. now + rotationThreshold <= leaf[s].exp + late + 1
      BY DEF TInv, LeavesInTime, InTime
    <2> QED
      BY <2>0, <2>1, <2>2, Numbers, SMTT(30)
  <1> QED
    BY AlwaysTInv, <1>1, PTL

\* With nothing in the informers, the queue and the workers, every labelled
\* secret has a certificate of the current CA for the names of its label.
THEOREM NothingLeftUndone == Safety => []CaughtUpIsCurrent
  <1>1. TInv => CaughtUpIsCurrent
    BY CaughtUpSettled, Zenon DEF TInv, IInv, CaughtUpIsCurrent, Settled
  <1> QED
    BY AlwaysTInv, <1>1, PTL

\* The CA, which ReconcileKind looks at only together with a leaf, never expires
\* while there is one, if the resyncs of the informers come often enough: one
\* period and the delays of the controller fit in the rotation threshold.
THEOREM ResyncKeepsCA ==
  ASSUME ResyncPeriod + MaxLate <= rotationThreshold
  PROVE  Safety => []CANeverExpires
  <1>1. TInv => CANeverExpires
    <2> SUFFICES ASSUME TInv, NEW s \in Secrets, leaf[s].exp # None PROVE ca.exp > now
        BY Zenon DEF CANeverExpires
    <2>0. now \in Nat /\ late \in Nat /\ late <= MaxLate
      BY ClockNumbers, Zenon DEF TInv, IInv
    <2>1. ca.exp # None /\ now + rotationThreshold < ca.exp + ResyncPeriod + late
      BY Zenon DEF TInv, CALooksInTime, CAInTime
    <2>2. ca.exp \in Nat
      BY <2>1, Zenon DEF TInv, LeafVersions, IInv, TypeOK, CASecret
    <2> QED
      BY <2>0, <2>1, <2>2, Numbers, SMTT(30)
  <1> QED
    BY AlwaysTInv, <1>1, PTL
=============================================================================
