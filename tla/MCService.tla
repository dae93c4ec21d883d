------------------------------ MODULE MCService ------------------------------
(***************************************************************************)
(* TLC instances of Service: a controller and a data plane.  The handler   *)
(* of a command sends its result back before it returns, as the handlers   *)
(* of AsyncCommandHandler do.                                              *)
(***************************************************************************)
EXTENDS Service

CONSTANTS controller, dataplane, command, commandResult

MCFrom == [c \in Calls |-> IF c = command THEN controller ELSE dataplane]

MCWithin == [c \in Calls |-> IF c = commandResult THEN command ELSE NoCall]

\* The command may fail; its result is acked without an error, and perhaps twice
MCKinds == [c \in Calls |-> IF c = command THEN {"ok", "err"} ELSE {"ok"}]
MCKindsEmptyError == [c \in Calls |-> {"ok", "emptyErr"}]

MCMaxAcks == [c \in Calls |-> IF c = commandResult THEN 2 ELSE 1]
=============================================================================
