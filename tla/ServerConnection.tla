-------------------------- MODULE ServerConnection --------------------------
(***************************************************************************)
(* serverTcpConnection of pkg/network/server_connection.go: a goroutine    *)
(* accepts and consumes one connection after another, and another one      *)
(* closes the listener when the context is closed.                         *)
(***************************************************************************)
EXTENDS BaseConnection

VARIABLE listener       \* t.listener is "open" or "closed"

serverVars == <<baseVars, listener>>

\* "listen": in the select of listenLoop     "accept": in listener.Accept
\* "upgrade": got a conn, before the tls upgrade
\* "errTls": sends the error of tlsConfigLoader
\* "exited": the closed channel of the server is closed
ServerStates == {"start", "failed", "listen", "accept", "upgrade", "errTls", "consume", "cleanup",
                "closeErrs", "closed", "exited"}

ServerTypeOK ==
  /\ BaseTypeOK
  /\ owner \in ServerStates
  /\ listener \in {"open", "closed"}

ServerInit == BaseInit /\ owner = "start" /\ listener = "closed"

idleVars == <<ctxDone, wVars, conn, connCtx, goVars, histVars>>

\* StartControlServer: Listen, NewService and startAcceptPolling; or the error of
\* Listen, or of parsing the port, which leaves the listener open
StartControlServer ==
  /\ owner = "start"
  /\ \/ owner' = "listen" /\ listener' = "open" /\ ServiceStarts
     \/ owner' = "failed" /\ listener' \in {"closed", "open"} /\ UNCHANGED <<rVars, errLoop>>
  /\ UNCHANGED <<idleVars, errs, errsOpen>>

\* The select of listenLoop
ListenLoop ==
  /\ owner = "listen"
  /\ owner' = IF ctxDone THEN "cleanup" ELSE "accept"
  /\ UNCHANGED <<idleVars, rVars, errVars, listener>>

AcceptSucceeds ==
  /\ owner = "accept" /\ listener = "open"
  /\ owner' = "upgrade"
  /\ UNCHANGED <<idleVars, rVars, errVars, listener>>

\* Accept fails because the listener is closed, or for another reason
AcceptFails ==
  /\ owner = "accept"
  /\ owner' = "cleanup"
  /\ UNCHANGED <<idleVars, rVars, errVars, listener>>

\* tlsConfigLoader is nil, or returns a configuration
UpgradeSucceeds ==
  /\ owner = "upgrade"
  /\ ConsumeStarts
  /\ UNCHANGED <<ctxDone, rVars, errVars, histVars, listener>>

UpgradeFails ==
  /\ owner = "upgrade"
  /\ owner' = "errTls"
  /\ UNCHANGED <<idleVars, rVars, errVars, listener>>

\* Line 171, then the connection is closed and the loop continues
SendsTlsError ==
  /\ owner = "errTls" /\ SendError
  /\ owner' = "listen"
  /\ UNCHANGED <<idleVars, rVars, errsOpen, errLoop, listener>>

ServerConsumeDone ==
  /\ owner = "consume" /\ ConsumeReturns
  /\ owner' = "listen"
  /\ UNCHANGED <<idleVars, rVars, errVars, listener>>

\* close(closedServerChannel)
ClosesClosedCh ==
  /\ owner = "closed"
  /\ owner' = "exited"
  /\ UNCHANGED <<idleVars, rVars, errVars, listener>>

\* The goroutine at line 136
ClosesListener ==
  /\ ctxDone /\ listener = "open" /\ owner # "failed"
  /\ listener' = "closed"
  /\ UNCHANGED baseVars

ServerOwner == ListenLoop \/ AcceptSucceeds \/ AcceptFails \/ UpgradeSucceeds \/ UpgradeFails
           \/ SendsTlsError \/ ServerConsumeDone \/ ClosesClosedCh

ServerNext == StartControlServer \/ ServerOwner \/ ClosesListener \/ (BaseNext /\ UNCHANGED listener)

\* Accept waits for as long as nobody connects and the listener is open
ServerFairness ==
  /\ BaseFairness
  /\ WF_serverVars(ServerOwner /\ (owner = "accept" => listener = "closed"))
  /\ WF_serverVars(ClosesListener)

ServerSafety == ServerInit /\ [][ServerNext]_serverVars

ServerSpec == ServerSafety /\ ServerFairness

-----------------------------------------------------------------------------
\* Closing the context closes the channel of ClosedCh, unless consumeConnection
\* hangs or the accept loop is stuck on the errors channel.
ServerEndsOrHangs ==
  (ctxDone /\ owner # "start")
    ~> (owner \in {"exited", "failed"} \/ WakeupMissed \/ StuckOnErrors)
=============================================================================
