-------------------------- MODULE ClientConnection --------------------------
(***************************************************************************)
(* clientTcpConnection of pkg/network/client_connection.go: the initial    *)
(* dial, then a goroutine that consumes one connection after another and   *)
(* redials in between, until the context is closed or a redial gives up.   *)
(***************************************************************************)
EXTENDS BaseConnection

CONSTANTS
  InitialRetry,         \* clientInitialDialRetry, 5 in the code
  ReconnectionRetry     \* clientReconnectionRetry, 10 in the code

ASSUME RetryAssumption == InitialRetry \in Nat \ {0} /\ ReconnectionRetry \in Nat \ {0}

VARIABLE tries          \* i of the loop of tryDial

clientVars == <<baseVars, tries>>

\* "dial":    in DialContext, called by tryDial
\* "backoff": in the select of tryDial, after a failed dial
\* "redial":  in the select of reDialLoop
\* "failed":  StartControlClient returned an error
ClientStates == {"dial", "backoff", "failed", "consume", "redial", "cleanup", "closeErrs", "closed"}

ClientTypeOK ==
  /\ BaseTypeOK
  /\ owner \in ClientStates
  /\ tries \in Nat

ClientInit == BaseInit /\ owner = "dial" /\ tries = 0

\* StartControlClient has not created the service yet
InitialDial == errLoop = "none"

\* Mutation: the failures before a connection count for the next redial
DialSucceedsCounting ==
  /\ owner = "dial"
  /\ ConsumeStarts
  /\ IF InitialDial THEN ServiceStarts ELSE UNCHANGED <<errLoop, rVars>>
  /\ UNCHANGED <<ctxDone, errs, errsOpen, histVars, tries>>

\* tryDial returns a connection, and its i is gone.  After the initial dial the
\* service starts.
DialSucceeds ==
  /\ owner = "dial"
  /\ ConsumeStarts
  /\ IF InitialDial THEN ServiceStarts ELSE UNCHANGED <<errLoop, rVars>>
  /\ tries' = 0
  /\ UNCHANGED <<ctxDone, errs, errsOpen, histVars>>

DialFails ==
  /\ owner = "dial"
  /\ owner' = "backoff"
  /\ tries' = tries + 1
  /\ UNCHANGED <<ctxDone, wVars, rVars, errVars, conn, connCtx, goVars, histVars>>

Retries == IF InitialDial THEN InitialRetry ELSE ReconnectionRetry

\* Line 68: the interval elapsed
DialsAgain ==
  /\ owner = "backoff" /\ tries < Retries
  /\ owner' = "dial"
  /\ UNCHANGED <<ctxDone, wVars, rVars, errVars, conn, connCtx, goVars, histVars, tries>>

\* tryDial returns an error
DialGivesUp ==
  /\ owner = "backoff" /\ (ctxDone \/ tries >= Retries)
  /\ owner' = IF InitialDial THEN "failed" ELSE "cleanup"
  /\ UNCHANGED <<ctxDone, wVars, rVars, errVars, conn, connCtx, goVars, histVars, tries>>

ClientConsumeDone ==
  /\ owner = "consume" /\ ConsumeReturns
  /\ owner' = "redial"
  /\ UNCHANGED <<ctxDone, wVars, rVars, errVars, conn, connCtx, goVars, histVars, tries>>

\* The select of reDialLoop
ReDialLoop ==
  /\ owner = "redial"
  /\ owner' = IF ctxDone THEN "cleanup" ELSE "dial"
  /\ UNCHANGED <<ctxDone, wVars, rVars, errVars, conn, connCtx, goVars, histVars, tries>>

ClientOwner == DialSucceeds \/ DialFails \/ DialsAgain \/ DialGivesUp \/ ClientConsumeDone \/ ReDialLoop

ClientNext == ClientOwner \/ (BaseNext /\ UNCHANGED tries)

\* A dial ends, one way or the other
ClientFairness == BaseFairness /\ WF_clientVars(ClientOwner)

ClientSafety == ClientInit /\ [][ClientNext]_clientVars

ClientSpec == ClientSafety /\ ClientFairness

-----------------------------------------------------------------------------
\* Closing the context closes the client, unless consumeConnection hangs.
ClientEndsOrHangs ==
  ctxDone ~> (owner \in {"closed", "failed"} \/ WakeupMissed \/ StuckOnErrors)

\* A client gives up with its context open only after ReconnectionRetry failed
\* dials since the connection broke: failures of earlier dials, those of
\* StartControlClient included, do not count.
GivesUpAfterRetries ==
  owner \in {"cleanup", "closeErrs", "closed"} => ctxDone \/ tries = ReconnectionRetry

\* connection.go:27, ReadMessage "Returns nil if the Connection is closed", for
\* the connection that closed because its redial gave up.
ReadEndsWhenGivenUp == (owner = "closed" /\ ~ctxDone) ~> (rpoll = "returned" /\ rret = Nil)
=============================================================================
