----------------------------- MODULE SendPromise -----------------------------
(***************************************************************************)
(* What SendAndWaitForAck promises, with no message, goroutine or channel  *)
(* in it: a call ends once, and its outcome stays.  It ends without an     *)
(* error only if the handler of the other end acked the message, with the  *)
(* error of an ack only if the handler acked with an error, and it may end *)
(* for want of an ack at any time.  What was refused is never handled.     *)
(***************************************************************************)
CONSTANT Calls

VARIABLES
  verdict,    \* the ways in which the handler of the other end acked
  outcome     \* how the call ended, "none" before that

vars == <<verdict, outcome>>

Errors == {"err", "emptyErr"}

Init == verdict = [c \in Calls |-> {}] /\ outcome = [c \in Calls |-> "none"]

Ack(c) ==
  /\ outcome[c] # "refused"
  /\ \E kind \in {"ok"} \cup Errors : verdict' = [verdict EXCEPT ![c] = @ \cup {kind}]
  /\ UNCHANGED outcome

End(c) ==
  /\ outcome[c] = "none"
  /\ \E o \in {"refused", "ok", "error", "timeout", "ctx"} :
       /\ o = "refused" => verdict[c] = {}
       /\ o = "ok" => "ok" \in verdict[c]
       /\ o = "error" => verdict[c] \cap Errors # {}
       /\ outcome' = [outcome EXCEPT ![c] = o]
  /\ UNCHANGED verdict

Next == \E c \in Calls : Ack(c) \/ End(c)

Spec == Init /\ [][Next]_vars
=============================================================================
