---------------------------- MODULE ConnectionPool ----------------------------
(***************************************************************************)
(* controlPlaneConnectionPoolImpl of pkg/reconciler/connection_pool.go.    *)
(* A pool is shared by the reconcilers of many keys.  The work queue of a  *)
(* controller hands a key to one worker at a time, so that the operations  *)
(* on one key do not overlap; those on different keys do, and Close        *)
(* overlaps everything.  ReconcileConnections takes the lock several       *)
(* times, and dials and calls back without it.                             *)
(*                                                                         *)
(* The wanted hosts are a list that may hold a host more than once, and    *)
(* setDifference keeps what is repeated.  The order in which they are      *)
(* dialed is left open, so that a list is how often it holds each host.    *)
(***************************************************************************)
EXTENDS Naturals

CONSTANTS
  Keys, Hosts,
  None,         \* no service, no host
  MaxListed,    \* bound on how often wantConnections holds a host
  MaxDials,     \* bound on the successful dials
  MaxCloses     \* bound on the calls of Close

ASSUME PoolAssumption ==
  None \notin Nat \cup Hosts /\ MaxListed \in Nat /\ MaxDials \in Nat /\ MaxCloses \in Nat

VARIABLES
  conns,        \* conns[k][h] is the service of host h for key k, or None
  dialed,       \* number of services created; they are numbered
  cancelled,    \* services whose cancelFn was called
  rec,          \* where the worker of each key is in ReconcileConnections
  want,         \* wantConnections of each key: how often it holds each host
  todo,         \* the rest of newConnections, the host being dialed included
  drop,         \* the rest of oldConnections
  host,         \* the host being dialed or removed
  svc,          \* the service it was dialed to
  told,         \* services newServiceCb was called with, and oldServiceCb not
  relisted,     \* services of hosts that their wantConnections held repeatedly
  undisturbed,  \* no Close since this ReconcileConnections started
  closes        \* number of calls of Close

vars == <<conns, dialed, cancelled, rec, want, todo, drop, host, svc, told, relisted, undisturbed, closes>>
recVars == <<want, todo, drop, host, svc>>

Services == 1..dialed

Lists == [Hosts -> 0..MaxListed]

\* "dial":  at the head of the loop over newConnections
\* "add":   StartControlClient returned a service
\* "newCb": the service is in the pool, newServiceCb is next
\* "drop":  at the head of the loop over oldConnections
\* "remove": oldServiceCb returned, RemoveConnection is next
RecStates == {"idle", "dial", "add", "newCb", "drop", "remove"}

TypeOK ==
  /\ dialed \in Nat
  /\ conns \in [Keys -> [Hosts -> Services \cup {None}]]
  /\ cancelled \in SUBSET Services
  /\ rec \in [Keys -> RecStates]
  /\ want \in [Keys -> Lists]
  /\ todo \in [Keys -> Lists]
  /\ drop \in [Keys -> SUBSET Hosts]
  /\ host \in [Keys -> Hosts \cup {None}]
  /\ svc \in [Keys -> Services \cup {None}]
  /\ told \in SUBSET Services
  /\ relisted \in SUBSET Services
  /\ undisturbed \in [Keys -> BOOLEAN]
  /\ closes \in Nat

NoConns == [h \in Hosts |-> None]
NoHosts == [h \in Hosts |-> 0]

Init ==
  /\ conns = [k \in Keys |-> NoConns]
  /\ dialed = 0 /\ cancelled = {} /\ closes = 0
  /\ rec = [k \in Keys |-> "idle"]
  /\ want = [k \in Keys |-> NoHosts] /\ todo = [k \in Keys |-> NoHosts] /\ drop = [k \in Keys |-> {}]
  /\ host = [k \in Keys |-> None] /\ svc = [k \in Keys |-> None]
  /\ told = {} /\ relisted = {} /\ undisturbed = [k \in Keys |-> TRUE]

GetConnectedHosts(k) == {h \in Hosts : conns[k][h] # None}

HoldersOf(k) == {conns[k][h] : h \in GetConnectedHosts(k)}

-----------------------------------------------------------------------------
(* ReconcileConnections *)

\* The local variables of a call are gone once it returns
ReturnsToWorker(k) ==
  /\ rec' = [rec EXCEPT ![k] = "idle"]
  /\ want' = [want EXCEPT ![k] = NoHosts] /\ todo' = [todo EXCEPT ![k] = NoHosts]
  /\ drop' = [drop EXCEPT ![k] = {}]
  /\ host' = [host EXCEPT ![k] = None] /\ svc' = [svc EXCEPT ![k] = None]
  /\ undisturbed' = [undisturbed EXCEPT ![k] = TRUE]

\* Mutation: the arguments of setDifference are exchanged
ReconcileSwapped(k, w) ==
  /\ rec[k] = "idle"
  /\ rec' = [rec EXCEPT ![k] = "dial"]
  /\ want' = [want EXCEPT ![k] = w]
  /\ todo' = [todo EXCEPT ![k] = [h \in Hosts |-> IF conns[k][h] # None /\ w[h] = 0 THEN 1 ELSE 0]]
  /\ drop' = [drop EXCEPT ![k] = {h \in Hosts : w[h] > 0} \ GetConnectedHosts(k)]
  /\ UNCHANGED <<conns, dialed, cancelled, host, svc, told, relisted, undisturbed, closes>>

\* Lines 171-174: the connected hosts are read once
Reconcile(k, w) ==
  /\ rec[k] = "idle"
  /\ rec' = [rec EXCEPT ![k] = "dial"]
  /\ want' = [want EXCEPT ![k] = w]
  /\ todo' = [todo EXCEPT ![k] = [h \in Hosts |-> IF conns[k][h] = None THEN w[h] ELSE 0]]
  /\ drop' = [drop EXCEPT ![k] = {h \in GetConnectedHosts(k) : w[h] = 0}]
  /\ UNCHANGED <<conns, dialed, cancelled, host, svc, told, relisted, undisturbed, closes>>

\* DialControlService, up to the lock
DialSucceeds(k, h) ==
  /\ rec[k] = "dial" /\ todo[k][h] > 0 /\ dialed < MaxDials
  /\ rec' = [rec EXCEPT ![k] = "add"]
  /\ host' = [host EXCEPT ![k] = h]
  /\ dialed' = dialed + 1
  /\ svc' = [svc EXCEPT ![k] = dialed + 1]
  /\ relisted' = IF want[k][h] > 1 THEN relisted \cup {dialed + 1} ELSE relisted
  /\ UNCHANGED <<conns, cancelled, want, todo, drop, told, undisturbed, closes>>

\* GenerateTLSDialer or StartControlClient fails: ReconcileConnections returns,
\* and leaves the rest undone, the old connections included
DialFails(k) ==
  /\ rec[k] = "dial" /\ todo[k] # NoHosts
  /\ ReturnsToWorker(k)
  /\ UNCHANGED <<conns, dialed, cancelled, told, relisted, closes>>

\* Mutation: newServiceCb is left for the end of the loop
AddsUnannounced(k) ==
  /\ rec[k] = "add"
  /\ rec' = [rec EXCEPT ![k] = "dial"]
  /\ conns' = [conns EXCEPT ![k][host[k]] = svc[k]]
  /\ todo' = [todo EXCEPT ![k][host[k]] = @ - 1]
  /\ UNCHANGED <<dialed, cancelled, want, drop, host, svc, told, relisted, undisturbed, closes>>

\* DialControlService, under the lock
Adds(k) ==
  /\ rec[k] = "add"
  /\ rec' = [rec EXCEPT ![k] = "newCb"]
  /\ conns' = [conns EXCEPT ![k][host[k]] = svc[k]]
  /\ UNCHANGED <<dialed, cancelled, recVars, told, relisted, undisturbed, closes>>

CallsNewServiceCb(k) ==
  /\ rec[k] = "newCb"
  /\ rec' = [rec EXCEPT ![k] = "dial"]
  /\ told' = told \cup {svc[k]}
  /\ todo' = [todo EXCEPT ![k][host[k]] = @ - 1]
  /\ UNCHANGED <<conns, dialed, cancelled, want, drop, host, svc, relisted, undisturbed, closes>>

AllDialed(k) ==
  /\ rec[k] = "dial" /\ todo[k] = NoHosts
  /\ rec' = [rec EXCEPT ![k] = "drop"]
  /\ UNCHANGED <<conns, dialed, cancelled, recVars, told, relisted, undisturbed, closes>>

CallsOldServiceCb(k, h) ==
  /\ rec[k] = "drop" /\ h \in drop[k]
  /\ rec' = [rec EXCEPT ![k] = "remove"]
  /\ host' = [host EXCEPT ![k] = h]
  /\ told' = told \ {conns[k][h]}
  /\ UNCHANGED <<conns, dialed, cancelled, want, todo, drop, svc, relisted, undisturbed, closes>>

\* Mutation: the service is cancelled and stays in the pool
RemovesKeeping(k) ==
  /\ rec[k] = "remove"
  /\ rec' = [rec EXCEPT ![k] = "drop"]
  /\ drop' = [drop EXCEPT ![k] = @ \ {host[k]}]
  /\ cancelled' = cancelled \cup ({conns[k][host[k]]} \ {None})
  /\ UNCHANGED <<conns, dialed, want, todo, host, svc, told, relisted, undisturbed, closes>>

\* RemoveConnection: nothing if a Close removed the host meanwhile
Removes(k) ==
  /\ rec[k] = "remove"
  /\ rec' = [rec EXCEPT ![k] = "drop"]
  /\ drop' = [drop EXCEPT ![k] = @ \ {host[k]}]
  /\ cancelled' = cancelled \cup ({conns[k][host[k]]} \ {None})
  /\ conns' = [conns EXCEPT ![k][host[k]] = None]
  /\ UNCHANGED <<dialed, want, todo, host, svc, told, relisted, undisturbed, closes>>

Returned(k) == rec[k] = "drop" /\ drop[k] = {}

\* Line 203
Returns(k) ==
  /\ Returned(k)
  /\ ReturnsToWorker(k)
  /\ UNCHANGED <<conns, dialed, cancelled, told, relisted, closes>>

-----------------------------------------------------------------------------
(* The other operations *)

\* Mutation: the services of the key are not cancelled
RemoveAllConnectionsLeaking(k) ==
  /\ rec[k] = "idle"
  /\ conns' = [conns EXCEPT ![k] = NoConns]
  /\ UNCHANGED <<dialed, cancelled, rec, recVars, told, relisted, undisturbed, closes>>

\* Called by the worker of the key, in place of ReconcileConnections
RemoveAllConnections(k) ==
  /\ rec[k] = "idle" /\ GetConnectedHosts(k) # {}
  /\ cancelled' = cancelled \cup HoldersOf(k)
  /\ conns' = [conns EXCEPT ![k] = NoConns]
  /\ UNCHANGED <<dialed, rec, recVars, told, relisted, undisturbed, closes>>

Close ==
  /\ closes < MaxCloses
  /\ closes' = closes + 1
  /\ cancelled' = cancelled \cup UNION {HoldersOf(k) : k \in Keys}
  /\ conns' = [k \in Keys |-> NoConns]
  /\ undisturbed' = [k \in Keys |-> rec[k] = "idle"]
  /\ UNCHANGED <<dialed, rec, recVars, told, relisted>>

ReconcileStep(k) ==
  \/ \E h \in Hosts : DialSucceeds(k, h) \/ CallsOldServiceCb(k, h)
  \/ DialFails(k) \/ Adds(k) \/ CallsNewServiceCb(k) \/ AllDialed(k) \/ Removes(k) \/ Returns(k)

Next ==
  \/ \E k \in Keys : ReconcileStep(k) \/ RemoveAllConnections(k) \/ \E w \in Lists : Reconcile(k, w)
  \/ Close

Spec == Init /\ [][Next]_vars

-----------------------------------------------------------------------------
Pooled == UNION {HoldersOf(k) : k \in Keys}

\* No connection is left behind but those of a host that wantConnections lists
\* more than once, of which the last one dialed takes the others' place: any
\* other service that was not cancelled is in the pool, where a later reconcile
\* finds it, or about to be put there.
NoLeak ==
  \A s \in Services \ (cancelled \cup relisted) :
    s \in Pooled \/ \E k \in Keys : rec[k] = "add" /\ svc[k] = s

\* What GetServices and ResolveControlInterface hand out was not cancelled by
\* the pool, and belongs to one host of one key.
PooledIsLive ==
  /\ Pooled \cap cancelled = {}
  /\ \A k, l \in Keys, g, h \in Hosts : conns[k][g] = conns[l][h] /\ conns[k][g] # None => k = l /\ g = h

\* A ReconcileConnections that returns without an error, and was not overtaken
\* by Close, leaves the wanted hosts connected and no other, however often they
\* are listed and however many attempts before it failed half way.
Converges ==
  \A k \in Keys : Returned(k) /\ undisturbed[k] => GetConnectedHosts(k) = {h \in Hosts : want[k][h] > 0}

\* Every service in the pool was given to newServiceCb, which is where its
\* message handlers are set, a service dialed again after a Close included: a
\* ReconcileConnections that fails half way leaves no host behind that the next
\* one would take for announced and skip.
Announced ==
  \A k \in Keys : \A h \in GetConnectedHosts(k) :
    conns[k][h] \in told \/ (host[k] = h /\ rec[k] \in {"newCb", "remove"})
=============================================================================
