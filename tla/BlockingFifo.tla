---------------------------- MODULE BlockingFifo ----------------------------
(***************************************************************************)
(* What unboundedMessageQueue promises its users, with no mutex, condition *)
(* variable or wake-up in it: a poll hands out the first message, and      *)
(* hands out nil only once the context is closed.  A poller that could not *)
(* use a message puts it back where it was.  Messages are never left in    *)
(* the queue while a goroutine polls it.                                   *)
(***************************************************************************)
EXTENDS Sequences

CONSTANTS
  Message,      \* the messages that can be put in the queue
  Nil           \* the nil message

VARIABLES
  items,        \* the messages in the queue
  polling,      \* TRUE while a poll is in progress
  result,       \* what the last poll returned
  closed        \* the context of the poller is closed

vars == <<items, polling, result, closed>>

Init ==
  /\ items = <<>>
  /\ polling = TRUE
  /\ result = Nil
  /\ closed = FALSE

Put ==
  /\ \E m \in Message : items' = Append(items, m)
  /\ UNCHANGED <<polling, result, closed>>

Take ==
  /\ polling
  /\ items # <<>>
  /\ result' = Head(items)
  /\ items' = Tail(items)
  /\ polling' = FALSE
  /\ UNCHANGED closed

TakeNil ==
  /\ polling
  /\ closed
  /\ result' = Nil
  /\ polling' = FALSE
  /\ UNCHANGED <<items, closed>>

\* The message was used, and the next one is asked for
PollAgain ==
  /\ ~polling
  /\ result # Nil
  /\ polling' = TRUE
  /\ UNCHANGED <<items, result, closed>>

\* The message could not be used
PutBack ==
  /\ ~polling
  /\ result # Nil
  /\ items' = <<result>> \o items
  /\ polling' = TRUE
  /\ UNCHANGED <<result, closed>>

Close ==
  /\ closed' = TRUE
  /\ UNCHANGED <<items, polling, result>>

Next == Put \/ Take \/ TakeNil \/ PollAgain \/ PutBack \/ Close

Safety == Init /\ [][Next]_vars

Spec == Safety /\ WF_vars(Take)
=============================================================================
