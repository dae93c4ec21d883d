----------------------------- MODULE Certificates -----------------------------
(***************************************************************************)
(* The certificates reconciler (certificates/reconciler/certificates.go and *)
(* controller.go), with the creation and validation of certificates of     *)
(* certs.go and the generated Reconcile and PromoteFunc of reconciler.go.  *)
(* Every replica of the controller reads the secrets from the lister of    *)
(* its informer, which lags behind the API server, has a work queue and    *)
(* one worker for each secret, and writes to the API server, which refuses *)
(* an update made from an old version.  Every ResyncPeriod the informer    *)
(* hands all it holds to the handlers, changed or not.  Only the leader    *)
(* starts to reconcile; a replica that lost the lease ends what it started. *)
(*                                                                         *)
(* The CA certificate is known by the version of the CA secret that holds  *)
(* it.  A certificate secret holds the CA that signed it and the names it  *)
(* was made for, which follow from its label; one that was deleted has no  *)
(* label.  A secret never populated has no expiration.  The unit of time   *)
(* is the second of enqueueBeforeExpiration; the intervals are scaled      *)
(* down.                                                                   *)
(***************************************************************************)
EXTENDS Naturals

CONSTANTS
  Replicas,             \* the replicas of the controller
  Secrets,              \* the labelled secrets
  Labels,               \* values of their label that ReconcileKind knows
  FirstLabel,           \* the one they are created with
  None,
  caExpirationInterval,
  expirationInterval,
  rotationThreshold,
  ResyncPeriod,         \* DefaultResyncPeriod of the informers
  InstalledCAs,         \* when the CA expires that the CA secret is created with
  MaxTime,              \* bound on time
  MaxInstall,           \* bound on the time at which the CA secret is created
  MaxLate,              \* how long the controller may take to catch up
  MaxEvents             \* bound on changes by users, crashes, lost leases and failed updates

Seconds == 0..MaxTime

CASecret == [rv : Nat, exp : Nat \cup {None}]
LeafSecret == [rv : Nat, label : Labels \cup {None}, san : Labels \cup {None}, ca : Nat, exp : Nat \cup {None}]

ASSUME CertificatesAssumption ==
  /\ None \notin Nat \cup Labels \cup CASecret \cup LeafSecret \cup Replicas /\ FirstLabel \in Labels
  /\ {caExpirationInterval, expirationInterval, rotationThreshold, ResyncPeriod} \subseteq Nat
  /\ InstalledCAs \subseteq Nat \cup {None}
  /\ rotationThreshold <= expirationInterval /\ rotationThreshold <= caExpirationInterval
  /\ {MaxTime, MaxInstall, MaxLate, MaxEvents} \subseteq Nat

VARIABLES
  now, late, events,
  leader,               \* the replica that holds the lease
  ca, leaf,             \* the secrets in the API server
  caSeen, leafSeen,     \* the secrets in the lister of each replica
  resync,               \* when its informer resyncs next
  queue,                \* its work queue
  timer,                \* when each key is added to the queue, by EnqueueKeyAfter
  pc,                   \* where the worker of each secret is
  caSecret, secret      \* the objects it works on

apiVars == <<ca, leaf>>
seenVars == <<caSeen, leafSeen, resync>>
workVars == <<pc, caSecret, secret>>
envVars == <<now, late, events, leader>>
vars == <<envVars, apiVars, seenVars, queue, timer, workVars>>

Workers == Replicas \X Secrets
PC == {"idle", "getCA", "validate", "commitCA", "commit"}

TypeOK ==
  /\ now \in Seconds /\ late \in 0..MaxLate /\ events \in 0..MaxEvents
  /\ leader \in Replicas \cup {None}
  /\ ca \in CASecret \cup {None} /\ leaf \in [Secrets -> LeafSecret]
  /\ caSeen \in [Replicas -> CASecret \cup {None}] /\ leafSeen \in [Workers -> LeafSecret]
  /\ resync \in [Replicas -> Nat]
  /\ queue \subseteq Workers /\ timer \in [Workers -> Nat \cup {None}]
  /\ pc \in [Workers -> PC]
  /\ caSecret \in [Workers -> CASecret \cup {None}] /\ secret \in [Workers -> LeafSecret \cup {None}]
  /\ \A w \in Workers :
       /\ pc[w] # "idle" => secret[w] # None /\ secret[w].label # None
       /\ pc[w] \notin {"idle", "getCA"} => caSecret[w] # None /\ ca # None

Uncertified(rv, label) == [rv |-> rv, label |-> label, san |-> None, ca |-> 0, exp |-> None]

Relabelled(l, label) == [rv |-> l.rv + 1, label |-> label, san |-> l.san, ca |-> l.ca, exp |-> l.exp]

Init ==
  /\ now = 0 /\ late = 0 /\ events = 0 /\ leader = None
  /\ ca = None /\ leaf = [s \in Secrets |-> Uncertified(0, FirstLabel)]
  /\ caSeen = [r \in Replicas |-> None] /\ leafSeen = [w \in Workers |-> Uncertified(0, FirstLabel)]
  /\ resync = [r \in Replicas |-> ResyncPeriod]
  /\ queue = Workers /\ timer = [w \in Workers |-> None]
  /\ pc = [w \in Workers |-> "idle"]
  /\ caSecret = [w \in Workers |-> None] /\ secret = [w \in Workers |-> None]

-----------------------------------------------------------------------------
(* The cluster *)

\* The CA secret is created by a higher-level system, empty, or with the CA that
\* an earlier installation of the controller made
InstallCA ==
  /\ ca = None /\ now <= MaxInstall
  /\ \E exp \in InstalledCAs : ca' = [rv |-> 1, exp |-> exp]
  /\ UNCHANGED <<envVars, leaf, seenVars, queue, timer, workVars>>

Event == events < MaxEvents /\ events' = events + 1

\* A secret gets another label, is deleted, or is created again
Change(s) ==
  /\ Event
  /\ \E l \in (Labels \cup {None}) \ {leaf[s].label} :
       leaf' = [leaf EXCEPT ![s] = IF None \in {l, leaf[s].label} THEN Uncertified(leaf[s].rv + 1, l)
                                                                  ELSE Relabelled(leaf[s], l)]
  /\ UNCHANGED <<now, late, leader, ca, seenVars, queue, timer, workVars>>

\* The keys of the secrets in the lister of r
Listed(r) == {w \in {r} \X Secrets : leafSeen[w].label # None}

\* Mutation: the leaves are not resynced
InformCANoResync(r) ==
  /\ caSeen[r] # ca
  /\ caSeen' = [caSeen EXCEPT ![r] = ca]
  /\ UNCHANGED <<envVars, apiVars, leafSeen, resync, queue, timer, workVars>>

\* The handlers of NewControllerFactory: the CA secret changed, global resync
InformCA(r) ==
  /\ caSeen[r] # ca
  /\ caSeen' = [caSeen EXCEPT ![r] = ca] /\ queue' = queue \cup Listed(r)
  /\ UNCHANGED <<envVars, apiVars, leafSeen, resync, timer, workVars>>

\* A labelled secret changed, and is enqueued
Inform(w) ==
  /\ leafSeen[w] # leaf[w[2]]
  /\ leafSeen' = [leafSeen EXCEPT ![w] = leaf[w[2]]] /\ queue' = queue \cup {w}
  /\ UNCHANGED <<envVars, apiVars, caSeen, resync, timer, workVars>>

\* Mutation: the handlers ignore what did not change
ResyncChangedOnly(r) ==
  /\ resync[r] <= now
  /\ resync' = [resync EXCEPT ![r] = now + ResyncPeriod]
  /\ UNCHANGED <<envVars, apiVars, caSeen, leafSeen, queue, timer, workVars>>

\* HandleAll passes on the updates of a resync, which change nothing
Resync(r) ==
  /\ resync[r] <= now
  /\ resync' = [resync EXCEPT ![r] = now + ResyncPeriod] /\ queue' = queue \cup Listed(r)
  /\ UNCHANGED <<envVars, apiVars, caSeen, leafSeen, timer, workVars>>

Due(w) == timer[w] # None /\ timer[w] <= now

TimerFires(w) ==
  /\ Due(w)
  /\ timer' = [timer EXCEPT ![w] = None] /\ queue' = queue \cup {w}
  /\ UNCHANGED <<envVars, apiVars, seenVars, workVars>>

CaughtUp ==
  /\ leader # None /\ queue = {}
  /\ \A r \in Replicas : caSeen[r] = ca /\ resync[r] > now
  /\ \A w \in Workers : leafSeen[w] = leaf[w[2]] /\ pc[w] = "idle" /\ ~Due(w)

\* Time passes; the controller is never busy, or without a leader, for more than
\* MaxLate seconds
Tick ==
  /\ now < MaxTime /\ (CaughtUp \/ late < MaxLate)
  /\ now' = now + 1
  /\ late' = IF CaughtUp THEN 0 ELSE late + 1
  /\ UNCHANGED <<events, leader, apiVars, seenVars, queue, timer, workVars>>

-----------------------------------------------------------------------------
(* Leader election, crashes *)

\* Mutation: the new leader relies on the events of its informer
PromoteNoEnqueue(r) ==
  /\ leader = None
  /\ leader' = r
  /\ UNCHANGED <<now, late, events, apiVars, seenVars, queue, timer, workVars>>

\* PromoteFunc: the new leader enqueues what its lister holds
Promote(r) ==
  /\ leader = None
  /\ leader' = r /\ queue' = queue \cup Listed(r)
  /\ UNCHANGED <<now, late, events, apiVars, seenVars, timer, workVars>>

LosesLease ==
  /\ leader # None /\ Event
  /\ leader' = None
  /\ UNCHANGED <<now, late, apiVars, seenVars, queue, timer, workVars>>

\* The process of r ends and starts again: its timers and what its workers were
\* at are gone, and its informer adds every secret there is
Crash(r) ==
  /\ Event
  /\ leader' = IF leader = r THEN None ELSE leader
  /\ LET mine == {r} \X Secrets
         Reset(f, v) == [w \in Workers |-> IF w \in mine THEN v ELSE f[w]]
     IN /\ caSeen' = [caSeen EXCEPT ![r] = ca] /\ resync' = [resync EXCEPT ![r] = now + ResyncPeriod]
        /\ leafSeen' = [w \in Workers |-> IF w \in mine THEN leaf[w[2]] ELSE leafSeen[w]]
        /\ queue' = (queue \ mine) \cup {w \in mine : leaf[w[2]].label # None}
        /\ timer' = Reset(timer, None) /\ pc' = Reset(pc, "idle")
        /\ caSecret' = Reset(caSecret, None) /\ secret' = Reset(secret, None)
  /\ UNCHANGED <<now, late, apiVars>>

-----------------------------------------------------------------------------
(* Reconcile and ReconcileKind *)

ValidateCert(exp) == exp > now + rotationThreshold

\* parseAndValidateSecret, of the CA secret and of a leaf
ValidCA(c) == c.exp # None /\ ValidateCert(c.exp)

ValidLeaf(l, c) == l.exp # None /\ l.ca = c.rv /\ ValidateCert(l.exp) /\ l.san = l.label

\* The copy that commitUpdatedSecret sends, of the version it was made from
CreateCACerts(c) == [c EXCEPT !.exp = now + caExpirationInterval]

CreateCert(l, c) ==
  [rv |-> l.rv, label |-> l.label, san |-> l.label, ca |-> c.rv, exp |-> now + expirationInterval]

\* EnqueueKeyAfter keeps the earlier of two times
enqueueBeforeExpiration(w, exp) ==
  LET when == (exp + 1) - rotationThreshold
  IN timer' = [timer EXCEPT ![w] = IF @ = None \/ when < @ THEN when ELSE @]

\* newState: whether this replica holds the lease.  The reconciler is no
\* observer.
isNotLeaderNorObserver(w) == leader # w[1]

\* reconcilerImpl.Reconcile: a copy of the secret, from the lister.  The key is
\* skipped by a replica that is not the leader, or if there is no such secret.
ReconcileStarts(w) ==
  /\ pc[w] = "idle" /\ w \in queue
  /\ queue' = queue \ {w}
  /\ \/ /\ ~isNotLeaderNorObserver(w) /\ leafSeen[w].label # None
        /\ secret' = [secret EXCEPT ![w] = leafSeen[w]] /\ pc' = [pc EXCEPT ![w] = "getCA"]
     \/ /\ isNotLeaderNorObserver(w) \/ leafSeen[w].label = None
        /\ UNCHANGED <<secret, pc>>
  /\ UNCHANGED <<envVars, apiVars, seenVars, timer, caSecret>>

\* ReconcileKind returned, and Reconcile returns its error
Returns(w) ==
  /\ pc' = [pc EXCEPT ![w] = "idle"]
  /\ caSecret' = [caSecret EXCEPT ![w] = None] /\ secret' = [secret EXCEPT ![w] = None]

\* Not found: nothing to do
GetsCA(w) ==
  /\ pc[w] = "getCA"
  /\ \/ caSeen[w[1]] = None /\ Returns(w)
     \/ /\ caSeen[w[1]] # None
        /\ pc' = [pc EXCEPT ![w] = "validate"]
        /\ caSecret' = [caSecret EXCEPT ![w] = caSeen[w[1]]] /\ UNCHANGED secret
  /\ UNCHANGED <<envVars, apiVars, seenVars, queue, timer>>

\* Both certificates are parsed and validated, and the one that has to be
\* replaced is created
Validates(w) ==
  /\ pc[w] = "validate"
  /\ \/ /\ ~ValidCA(caSecret[w])
        /\ pc' = [pc EXCEPT ![w] = "commitCA"]
        /\ caSecret' = [caSecret EXCEPT ![w] = CreateCACerts(@)] /\ UNCHANGED <<timer, secret>>
     \/ /\ ValidCA(caSecret[w]) /\ ~ValidLeaf(secret[w], caSecret[w])
        /\ pc' = [pc EXCEPT ![w] = "commit"]
        /\ secret' = [secret EXCEPT ![w] = CreateCert(@, caSecret[w])] /\ UNCHANGED <<timer, caSecret>>
     \/ /\ ValidCA(caSecret[w]) /\ ValidLeaf(secret[w], caSecret[w])
        /\ Returns(w) /\ enqueueBeforeExpiration(w, secret[w].exp)
  /\ UNCHANGED <<envVars, apiVars, seenVars, queue>>

\* Update fails, and the error has the key reconciled again: the version is old,
\* or the call failed, which says nothing about whether the update was made
UpdateFails(w, old) == queue' = queue \cup {w} /\ IF old THEN UNCHANGED events ELSE Event

Updated(o) == [o EXCEPT !.rv = @ + 1]

\* Mutation: the update carries no resource version
CommitsCAUnversioned(w) ==
  /\ pc[w] = "commitCA" /\ Returns(w)
  /\ ca' = [caSecret[w] EXCEPT !.rv = ca.rv + 1]
  /\ UNCHANGED <<envVars, leaf, seenVars, queue, timer>>

\* commitUpdatedSecret of the CA
CommitsCA(w) ==
  /\ pc[w] = "commitCA" /\ Returns(w)
  /\ LET old == ca.rv # caSecret[w].rv
     IN \/ ~old /\ ca' = Updated(caSecret[w]) /\ UNCHANGED <<queue, events>>
        \/ ~old /\ ca' = Updated(caSecret[w]) /\ UpdateFails(w, FALSE)
        \/ UNCHANGED ca /\ UpdateFails(w, old)
  /\ UNCHANGED <<now, late, leader, leaf, seenVars, timer>>

\* commitUpdatedSecret of the leaf, enqueueBeforeExpiration
Commits(w) ==
  /\ pc[w] = "commit" /\ Returns(w)
  /\ LET s == w[2]
         old == leaf[s].rv # secret[w].rv
         updated == [leaf EXCEPT ![s] = Updated(secret[w])]
     IN \/ ~old /\ leaf' = updated /\ enqueueBeforeExpiration(w, secret[w].exp) /\ UNCHANGED <<queue, events>>
        \/ ~old /\ leaf' = updated /\ UpdateFails(w, FALSE) /\ UNCHANGED timer
        \/ UNCHANGED <<leaf, timer>> /\ UpdateFails(w, old)
  /\ UNCHANGED <<now, late, leader, ca, seenVars>>

ReconcileKind(w) == ReconcileStarts(w) \/ GetsCA(w) \/ Validates(w) \/ CommitsCA(w) \/ Commits(w)

-----------------------------------------------------------------------------
Next ==
  \/ InstallCA \/ Tick \/ LosesLease
  \/ \E s \in Secrets : Change(s)
  \/ \E r \in Replicas : InformCA(r) \/ Resync(r) \/ Promote(r) \/ Crash(r)
  \/ \E w \in Workers : Inform(w) \/ TimerFires(w) \/ ReconcileKind(w)

Safety == Init /\ [][Next]_vars

-----------------------------------------------------------------------------
\* A CA that is valid is never replaced, however many workers found an older
\* one invalid at the same time, a replica that lost the lease since included:
\* replacing it would invalidate every leaf.
ValidCAIsKept == [][ca # None /\ ca' # ca => ~ValidCA(ca)]_vars

\* Every certificate is renewed with rotationThreshold left to it, less the time
\* the controller takes and the second of enqueueBeforeExpiration, and so never
\* expires.  The timers are in memory: those of a leader that crashed or was
\* deposed are set again by the next one.
RenewedInTime == \A s \in Secrets : leaf[s].exp # None => now + rotationThreshold <= leaf[s].exp + MaxLate + 1

\* A controller with nothing left to do leaves nothing undone: once the CA secret
\* is there, every labelled secret has a certificate of the current CA for the
\* names its label asks for, whatever was rotated, relabelled or lost before.
CaughtUpIsCurrent ==
  CaughtUp /\ ca # None => \A s \in Secrets : leaf[s].label # None =>
                              ca.exp # None /\ leaf[s].ca = ca.rv /\ leaf[s].san = leaf[s].label

\* The CA does not expire while a leaf has a certificate.  It has no timer of
\* its own, and is looked at only when a leaf is, which may be valid for longer:
\* what saves it is that the leaves are reconciled at every resync, with less
\* than rotationThreshold, the delays of the controller included, in between.
CANeverExpires == \A s \in Secrets : leaf[s].exp # None => ca.exp > now
=============================================================================
