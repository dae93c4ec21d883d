---------------------------- MODULE ServiceProofs ----------------------------
(***************************************************************************)
(* Proofs about Service, for any number of calls at either end, nested in  *)
(* handlers in any way: a call reports what the handler of its message     *)
(* said, and the bookkeeping of acks leaks nothing, and panics over a      *)
(* second ack only.                                                        *)
(***************************************************************************)
EXTENDS Service, TLAPS

\* What travels as an ack, on the connection, in a goroutine or in the ack
\* channel, is what the handler said.
Says(c, text) == \E kind \in verdict[c] : text <=> HasText(kind)

Truthful ==
  /\ \A a \in net : a \in Acks => Says(a.call, a.text)
  /\ \A g \in ackers : Says(g.ack.call, g.ack.text)
  /\ \A c \in Calls : ackCh[c] # "empty" => Says(c, ackCh[c] = "text")
  /\ \A c \in ackClosed : verdict[c] # {}
  /\ \A c \in Calls : verdict[c] # {} => acks[c] > 0

\* There is one ack, in one place, of a message that was acked once.
Once(c) == ~(acks[c] > 1)

OneAck ==
  /\ \A a \in net : a \in Acks /\ Once(a.call) => a.call \notin ackClosed /\ ackCh[a.call] = "empty"
  /\ \A a, b \in net : a \in Acks /\ b \in Acks /\ a.call = b.call /\ Once(a.call) => a = b
  /\ \A g \in ackers : Once(g.ack.call) =>
       /\ g.ack.call \notin ackClosed
       /\ g.pc # "close" => ackCh[g.ack.call] = "empty"
       /\ \A a \in net : a \in Acks => a.call # g.ack.call
  /\ \A g, h \in ackers : g.ack.call = h.ack.call /\ Once(g.ack.call) => g = h

\* The ack channel is closed with the ack in it, unless the call has left its
\* select: what a call receives is never the zero value of a closed channel.
AckInChannel ==
  \A c \in Calls :
    (c \in ackClosed \/ \E g \in ackers : g.ack.call = c /\ g.pc = "close") =>
      ackCh[c] # "empty" \/ call[c] \in {"leaving", "returned"}

\* A call has a result once it left its select, or was refused.
Undecided ==
  \A c \in Calls : call[c] \in {"idle", "registered", "waiting"} => result[c] = "none"

\* A message is written, and so handled and acked, after its call registered.
Registered ==
  \A c \in Calls :
    /\ call[c] \in {"registered", "waiting", "leaving"} => c \in waitingAcks
    /\ [call |-> c] \in net \/ handler[c] # "none" => call[c] \notin {"idle", "registered"}
    /\ verdict[c] # {} => handler[c] # "none"

\* A refused call has no message, now or later.
RefusedIsOver ==
  \A c \in Calls : result[c] = "refused" => call[c] = "returned" /\ handler[c] = "none" /\ [call |-> c] \notin net

\* What a call reports is in an ack of its message, by its text.
Reported ==
  \A c \in Calls :
    /\ result[c] = "ok" => Says(c, FALSE)
    /\ result[c] = "error" => Says(c, TRUE)

\* How messages are acked.
Answered == \A c \in Calls : verdict[c] \subseteq Kinds[c] \cup {"ok", "err"}

IInv ==
  /\ TypeOK /\ Truthful /\ OneAck /\ NoPanic /\ AckInChannel /\ Undecided /\ Reported /\ Answered
  /\ NoLeakedWaiter /\ ReplacedHandlerIsGone /\ Registered /\ RefusedIsOver

-----------------------------------------------------------------------------
\* A message is no ack, and acks are what Ack makes.
LEMMA MessageIsNoAck ==
  ASSUME NEW c \in Calls
  PROVE  /\ [call |-> c] \notin Acks
         /\ \A n \in Nat, kind \in AckKinds : Ack(c, n, kind) \in Acks /\ Ack(c, n, kind).call = c
  <1>1. [call |-> c] \notin Acks
    BY DEF Acks
  <1>2. \A kind \in AckKinds : HasText(kind) \in BOOLEAN
    BY Zenon DEF HasText
  <1> QED
    BY <1>1, <1>2 DEF Acks, Ack

\* Every handler acks in one of the ways there are.
LEMMA AnswersAreAcks ==
  ASSUME NEW c \in Calls PROVE Answers(c) \subseteq AckKinds /\ Answers(c) \subseteq Kinds[c] \cup {"ok", "err"}
  BY CallsAssumption DEF Answers, AckKinds

\* A message is handled at an end of the connection, by what is set there.
LEMMA HandledSomewhere ==
  ASSUME NEW c \in Calls PROVE To(c) \in Ends /\ HandlersOf(To(c)) \subseteq Handlers
  <1>1. \E e \in Ends : e # From[c]
    BY CallsAssumption
  <1>2. To(c) \in Ends
    BY <1>1, Zenon DEF To
  <1> QED
    BY <1>2 DEF HandlersOf, Handlers

\* The invariant holds before any call.
LEMMA InitIInv == Init => IInv
  <1> SUFFICES ASSUME Init PROVE IInv
      OBVIOUS
  <1>1. FALSE \in BOOLEAN
    BY Zenon
  <1>2. TypeOK
    BY <1>1 DEF Init, TypeOK
  <1> QED
    BY <1>2 DEF Init, IInv, Truthful, OneAck, NoPanic, AckInChannel, Undecided, Reported, Answered, NoLeakedWaiter,
                   ReplacedHandlerIsGone, Registered, RefusedIsOver

\* What a handler that acks changes
Acked(c, kind) ==
  /\ verdict' = [verdict EXCEPT ![c] = @ \cup {kind}]
  /\ acks' = [acks EXCEPT ![c] = @ + 1]
  /\ net' = net \cup {Ack(c, acks[c] + 1, kind)}

\* A handler acks in one of its ways.
LEMMA AckedSome ==
  ASSUME NEW c \in Calls, HandlerAcks(c)
  PROVE  \E kind \in AckKinds : kind \in Kinds[c] \cup {"ok", "err"} /\ Acked(c, kind)
  BY AnswersAreAcks, Zenon DEF HandlerAcks, Acked

\* The steps of a call keep the types.
LEMMA CallTypeOK ==
  ASSUME TypeOK, NEW c \in Calls, Refuse(c) \/ Register(c) \/ CallStep(c) PROVE TypeOK'
  <1> USE DEF TypeOK, callVars, chanVars, ackVars
  <1>1. CASE Refuse(c) \/ Register(c)
    BY <1>1 DEF Refuse, Register
  <1>2. CASE WriteMsg(c)
    <2>1. [call |-> c] \in Messages
      BY DEF Messages
    <2> QED
      BY <1>2, <2>1 DEF WriteMsg
  <1>3. CASE SelectAck(c)
    BY <1>3 DEF SelectAck, Choose
  <1>4. CASE SelectCtx(c) \/ SelectTimeout(c)
    BY <1>4 DEF SelectCtx, SelectTimeout, Choose
  <1>5. CASE Unregister(c)
    BY <1>5 DEF Unregister
  <1> QED
    BY <1>1, <1>2, <1>3, <1>4, <1>5 DEF CallStep

\* So do the goroutines that accept messages and acks, and the rest.
LEMMA AcceptTypeOK ==
  ASSUME TypeOK,
         \/ \E c \in Calls : Deliver(c) \/ HandlerStarts(c) \/ HandlerAcks(c) \/ HandlerReturns(c)
         \/ \E m \in net : m \in Acks /\ DeliverAck(m)
         \/ AckerStep
         \/ \E e \in Ends : SetHandler(e) \/ HandlerSet(e) \/ Cancel(e)
  PROVE  TypeOK'
  <1> USE DEF TypeOK, callVars, chanVars, ackVars
  <1>1. ASSUME NEW c \in Calls, Deliver(c) \/ HandlerStarts(c) \/ HandlerReturns(c) PROVE TypeOK'
    BY <1>1, HandledSomewhere DEF Deliver, HandlerStarts, HandlerReturns
  <1>2. ASSUME NEW c \in Calls, HandlerAcks(c) PROVE TypeOK'
    <2>1. PICK kind \in AckKinds : Acked(c, kind)
      BY <1>2, AckedSome
    <2>2. acks[c] + 1 \in Nat
      OBVIOUS
    <2>3. Ack(c, acks[c] + 1, kind) \in Acks
      BY <2>2, MessageIsNoAck, Zenon
    <2>4. net' \in SUBSET (Messages \cup Acks)
      BY <2>1, <2>3 DEF Acked
    <2>5. verdict' \in [Calls -> SUBSET AckKinds] /\ acks' \in [Calls -> Nat]
      BY <2>1, <2>2 DEF Acked
    <2> QED
      BY <1>2, <2>4, <2>5 DEF HandlerAcks
  <1>4. ASSUME NEW m \in net, m \in Acks, DeliverAck(m) PROVE TypeOK'
    BY <1>4 DEF DeliverAck
  <1>5. ASSUME NEW g \in ackers, AckLookup(g) PROVE TypeOK'
    BY <1>5 DEF AckLookup
  <1>6. ASSUME NEW g \in ackers, AckSend(g) PROVE TypeOK'
    <2>1. g.ack.call \in Calls
      BY DEF Acks
    <2> QED
      BY <1>6, <2>1 DEF AckSend
  <1>7. ASSUME NEW g \in ackers, AckClose(g) PROVE TypeOK'
    <2>1. g.ack.call \in Calls
      BY DEF Acks
    <2> QED
      BY <1>7, <2>1 DEF AckClose
  <1>10. ASSUME NEW g \in ackers, AckPanics(g) PROVE TypeOK'
    <2>1. g.ack.call \in Calls
      BY DEF Acks
    <2> QED
      BY <1>10, <2>1 DEF AckPanics
  <1>8. ASSUME NEW e \in Ends, SetHandler(e) \/ HandlerSet(e) PROVE TypeOK'
    BY <1>8 DEF SetHandler, HandlerSet
  <1>9. ASSUME NEW e \in Ends, Cancel(e) PROVE TypeOK'
    <2>1. TRUE \in BOOLEAN
      BY Zenon
    <2> QED
      BY <1>9, <2>1 DEF Cancel
  <1> QED
    BY <1>1, <1>2, <1>4, <1>5, <1>6, <1>7, <1>8, <1>9, <1>10, ZenonT(60) DEF AckerStep

\* The steps that leave acks alone, or lose some.
Quiet ==
  \/ \E c \in Calls : \/ Refuse(c) \/ Register(c) \/ WriteMsg(c) \/ SelectCtx(c) \/ SelectTimeout(c)
                       \/ Unregister(c) \/ Deliver(c) \/ HandlerStarts(c) \/ HandlerReturns(c)
  \/ \E e \in Ends : SetHandler(e) \/ HandlerSet(e) \/ Cancel(e)
  \/ \E g \in ackers : AckPanics(g)

\* Every other step concerns an ack.
LEMMA NextCases ==
  ASSUME Next
  PROVE  \/ Quiet
         \/ \E c \in Calls : SelectAck(c) \/ HandlerAcks(c)
         \/ \E m \in net : m \in Acks /\ DeliverAck(m)
         \/ \E g \in ackers : AckLookup(g) \/ AckSend(g) \/ AckClose(g)
  BY DEF Next, Step, Quiet, CallStep, AckerStep

\* A quiet step adds no ack and takes no call back to its select.
LEMMA QuietStep ==
  ASSUME TypeOK, Quiet
  PROVE  /\ UNCHANGED <<ackCh, ackClosed, verdict, acks, ackers>>
         /\ \A a \in net' : a \in Acks => a \in net
         /\ \A c \in Calls : call[c] \in {"leaving", "returned"} => call'[c] \in {"leaving", "returned"}
  <1> USE DEF callVars, chanVars, ackVars
  <1>1. CASE \E c \in Calls : WriteMsg(c)
    <2>1. PICK c \in Calls : WriteMsg(c)
      BY <1>1
    <2>2. [call |-> c] \notin Acks
      BY MessageIsNoAck
    <2> QED
      BY <2>1, <2>2 DEF WriteMsg, TypeOK
  <1>2. CASE \E c \in Calls : Refuse(c) \/ Register(c) \/ SelectCtx(c) \/ SelectTimeout(c) \/ Unregister(c)
    BY <1>2, SMTT(30) DEF Refuse, Register, SelectCtx, SelectTimeout, Choose, Unregister, TypeOK
  <1>3. CASE \E c \in Calls : Deliver(c) \/ HandlerStarts(c) \/ HandlerReturns(c)
    BY <1>3 DEF Deliver, HandlerStarts, HandlerReturns
  <1>5. CASE \E e \in Ends : SetHandler(e) \/ HandlerSet(e) \/ Cancel(e)
    BY <1>5 DEF SetHandler, HandlerSet, Cancel
  <1>6. CASE \E g \in ackers : AckPanics(g)
    BY <1>6 DEF AckPanics
  <1> QED
    BY <1>1, <1>2, <1>3, <1>5, <1>6 DEF Quiet

\* The calls of acks that are under way
LEMMA AckerType ==
  ASSUME TypeOK
  PROVE  /\ \A g \in ackers : g.ack \in Acks /\ g.ack.call \in Calls /\ g.pc \in {"lookup", "send", "close"}
         /\ \A g \in ackers, p \in {"send", "close"} : [g EXCEPT !.pc = p].ack = g.ack /\ [g EXCEPT !.pc = p].pc = p
         /\ \A a \in Acks : a.call \in Calls
  BY DEF TypeOK, Acks

\* An ack is made of the verdict, and passed on as it is.
LEMMA NextTruthful ==
  ASSUME TypeOK, Truthful, Next PROVE Truthful'
  <1> USE AckerType DEF callVars, chanVars, ackVars, Says, HasText
  <1>1. CASE Quiet
    BY <1>1, QuietStep DEF Truthful
  <1>2. ASSUME NEW c \in Calls, SelectAck(c) PROVE Truthful'
    BY <1>2 DEF SelectAck, Choose, Truthful, TypeOK
  <1>3. ASSUME NEW c \in Calls, HandlerAcks(c) PROVE Truthful'
    <2>1. PICK kind \in AckKinds : Acked(c, kind)
      BY <1>3, AckedSome
    <2>2. /\ kind \in verdict'[c] /\ \A d \in Calls : verdict[d] \subseteq verdict'[d]
          /\ \A d \in Calls \ {c} : verdict'[d] = verdict[d]
      BY <2>1 DEF Acked, TypeOK
    <2>3. Ack(c, acks[c] + 1, kind).call = c /\ (Ack(c, acks[c] + 1, kind).text <=> HasText(kind))
      BY Zenon DEF Ack
    <2>4. \A d \in Calls : \A text : Says(d, text) => Says(d, text)'
      BY <2>2, Zenon
    <2>5. UNCHANGED <<ackCh, ackClosed, ackers>> /\ ackClosed \subseteq Calls
      BY <1>3 DEF HandlerAcks, TypeOK
    <2>7. ASSUME NEW a \in net', a \in Acks PROVE Says(a.call, a.text)'
      <3>1. CASE a \in net
        BY <2>4, <2>7, <3>1, Zenon DEF Truthful
      <3>2. CASE a = Ack(c, acks[c] + 1, kind)
        <4>1. a.call = c /\ (a.text <=> HasText(kind))
          BY <2>3, <3>2
        <4> QED
          BY <2>2, <4>1, Zenon
      <3> QED
        BY <2>1, <3>1, <3>2 DEF Acked
    <2>8. \A d \in Calls : verdict'[d] # {} => acks'[d] > 0
      BY <2>1, <2>2 DEF Truthful, Acked, TypeOK
    <2> QED
      BY <2>2, <2>4, <2>5, <2>7, <2>8 DEF Truthful
  <1>4. ASSUME NEW m \in net, m \in Acks, DeliverAck(m) PROVE Truthful'
    BY <1>4 DEF DeliverAck, Truthful
  <1>5. ASSUME NEW g \in ackers, AckLookup(g) PROVE Truthful'
    <2>1. \A h \in ackers' : h \in ackers \/ h.ack = g.ack
      BY <1>5, Zenon DEF AckLookup
    <2> QED
      BY <1>5, <2>1 DEF AckLookup, Truthful
  <1>6. ASSUME NEW g \in ackers, AckSend(g) PROVE Truthful'
    <2>1. \A h \in ackers' : h \in ackers \/ h.ack = g.ack
      BY <1>6, Zenon DEF AckSend
    <2>2. Says(g.ack.call, g.ack.text)
      BY DEF Truthful
    <2>3. \A c \in Calls : ackCh'[c] # "empty" => Says(c, ackCh'[c] = "text")
      BY <1>6, <2>2 DEF AckSend, Truthful, TypeOK
    <2> QED
      BY <1>6, <2>1, <2>3 DEF AckSend, Truthful
  <1>7. ASSUME NEW g \in ackers, AckClose(g) PROVE Truthful'
    <2>1. ackers' \subseteq ackers /\ \A c \in ackClosed' : c \in ackClosed \/ c = g.ack.call
      BY <1>7 DEF AckClose
    <2> QED
      BY <1>7, <2>1 DEF AckClose, Truthful
  <1> QED
    BY <1>1, <1>2, <1>3, <1>4, <1>5, <1>6, <1>7, NextCases

\* A handler acks once, and an ack moves from one place to the next.
LEMMA NextOneAck ==
  ASSUME TypeOK, Truthful, OneAck, Next PROVE OneAck'
  <1> USE AckerType DEF callVars, chanVars, ackVars, Once
  <1>1. CASE Quiet
    BY <1>1, QuietStep DEF OneAck
  <1>2. ASSUME NEW c \in Calls, SelectAck(c) PROVE OneAck'
    BY <1>2 DEF SelectAck, Choose, OneAck, TypeOK
  <1>3. ASSUME NEW c \in Calls, HandlerAcks(c) PROVE OneAck'
    <2>1. PICK kind \in AckKinds : Acked(c, kind)
      BY <1>3, AckedSome
    <2> DEFINE new == Ack(c, acks[c] + 1, kind)
    <2>2. new.call = c /\ net' = net \cup {new}
      BY <2>1 DEF Ack, Acked
    <2>3. UNCHANGED <<ackCh, ackClosed, ackers>> /\ \A d \in Calls \ {c} : acks'[d] = acks[d]
      BY <1>3, <2>1 DEF HandlerAcks, Acked, TypeOK
    <2>4. CASE acks[c] > 0
      <3>1. acks'[c] > 1
        BY <2>1, <2>4 DEF Acked, TypeOK
      <3> HIDE DEF new
      <3> QED
        BY <2>2, <2>3, <3>1 DEF OneAck
    <2>5. CASE ~(acks[c] > 0)
      <3>1. verdict[c] = {}
        BY <2>5 DEF Truthful
      <3>2. /\ \A a \in net : a \in Acks => a.call # c
            /\ \A g \in ackers : g.ack.call # c
            /\ c \notin ackClosed /\ ackCh[c] = "empty"
        BY <3>1 DEF Truthful, Says
      <3> HIDE DEF new
      <3> QED
        BY <2>2, <2>3, <3>2 DEF OneAck
    <2> QED
      BY <2>4, <2>5
  <1>4. ASSUME NEW m \in net, m \in Acks, DeliverAck(m) PROVE OneAck'
    <2> DEFINE new == [ack |-> m, pc |-> "lookup"]
    <2>1. new.ack = m /\ new.pc = "lookup"
      OBVIOUS
    <2>2. net' = net \ {m} /\ ackers' = ackers \cup {new} /\ UNCHANGED <<ackCh, ackClosed, acks>>
      BY <1>4 DEF DeliverAck
    <2> HIDE DEF new
    <2> QED
      BY <1>4, <2>1, <2>2 DEF OneAck
  <1>5. ASSUME NEW g \in ackers, AckLookup(g) PROVE OneAck'
    <2> DEFINE new == [g EXCEPT !.pc = "send"]
    <2>1. new.ack = g.ack /\ new.pc = "send"
      OBVIOUS
    <2>2. ackers' \subseteq (ackers \ {g}) \cup {new} /\ UNCHANGED <<net, ackCh, ackClosed, acks>> /\ g.pc = "lookup"
      BY <1>5 DEF AckLookup
    <2> HIDE DEF new
    <2> QED
      BY <2>1, <2>2 DEF OneAck
  <1>6. ASSUME NEW g \in ackers, AckSend(g) PROVE OneAck'
    <2> DEFINE new == [g EXCEPT !.pc = "close"]
    <2>1. new.ack = g.ack /\ new.pc = "close"
      OBVIOUS
    <2>2. ackers' = (ackers \ {g}) \cup {new} /\ UNCHANGED <<net, ackClosed, acks>>
      BY <1>6 DEF AckSend
    <2>3. \A c \in Calls \ {g.ack.call} : ackCh'[c] = ackCh[c]
      BY <1>6 DEF AckSend, TypeOK
    <2> HIDE DEF new
    <2> QED
      BY <2>1, <2>2, <2>3 DEF OneAck
  <1>7. ASSUME NEW g \in ackers, AckClose(g) PROVE OneAck'
    BY <1>7 DEF AckClose, OneAck
  <1> QED
    BY <1>1, <1>2, <1>3, <1>4, <1>5, <1>6, <1>7, NextCases

\* The channel is closed after the ack was sent on it.
LEMMA NextAckInChannel ==
  ASSUME TypeOK, OneAck, AckInChannel, Next PROVE AckInChannel'
  <1> USE AckerType DEF callVars, chanVars, ackVars
  <1>1. CASE Quiet
    BY <1>1, QuietStep DEF AckInChannel
  <1>2. ASSUME NEW c \in Calls, SelectAck(c) PROVE AckInChannel'
    BY <1>2 DEF SelectAck, Choose, AckInChannel, TypeOK
  <1>3. ASSUME NEW c \in Calls, HandlerAcks(c) PROVE AckInChannel'
    BY <1>3 DEF HandlerAcks, AckInChannel
  <1>4. ASSUME NEW m \in net, m \in Acks, DeliverAck(m) PROVE AckInChannel'
    BY <1>4 DEF DeliverAck, AckInChannel
  <1>5. ASSUME NEW g \in ackers, AckLookup(g) PROVE AckInChannel'
    <2>1. \A h \in ackers' : h \in ackers \/ h.pc = "send"
      BY <1>5, Zenon DEF AckLookup
    <2> QED
      BY <1>5, <2>1 DEF AckLookup, AckInChannel
  <1>6. ASSUME NEW g \in ackers, AckSend(g) PROVE AckInChannel'
    <2>1. \A h \in ackers' : h \in ackers \/ h.ack = g.ack
      BY <1>6, Zenon DEF AckSend
    <2>2. ackCh'[g.ack.call] # "empty" /\ \A c \in Calls \ {g.ack.call} : ackCh'[c] = ackCh[c]
      BY <1>6 DEF AckSend, TypeOK
    <2> QED
      BY <1>6, <2>1, <2>2 DEF AckSend, AckInChannel
  <1>7. ASSUME NEW g \in ackers, AckClose(g) PROVE AckInChannel'
    BY <1>7, ZenonT(60) DEF AckClose, AckInChannel
  <1> QED
    BY <1>1, <1>2, <1>3, <1>4, <1>5, <1>6, <1>7, NextCases

\* How the steps move calls and their results: a call is refused, goes on
\* without a result, or leaves its select with one.
LEMMA CallMoves ==
  ASSUME TypeOK, Truthful, AckInChannel, Next
  PROVE  \/ UNCHANGED <<call, result, waitingAcks>>
         \/ \E c \in Calls : Register(c) \/ WriteMsg(c) \/ Unregister(c)
         \/ \E c \in Calls, r \in {"refused", "ok", "error", "timeout", "ctx"} :
              /\ UNCHANGED <<verdict, waitingAcks>>
              /\ r = "refused" => call[c] = "idle"
              /\ result' = [result EXCEPT ![c] = r]
              /\ (call[c] = "idle" /\ call' = [call EXCEPT ![c] = "returned"])
                   \/ (call[c] = "waiting" /\ call' = [call EXCEPT ![c] = "leaving"])
              /\ r = "ok" => Says(c, FALSE)
              /\ r = "error" => Says(c, TRUE)
  <1>1. ASSUME NEW c \in Calls, SelectAck(c)
        PROVE  LET r == IF ackCh[c] = "text" THEN "error" ELSE "ok"
               IN /\ r = "ok" => Says(c, FALSE)
                  /\ r = "error" => Says(c, TRUE)
    <2>1. ackCh[c] # "empty"
      BY <1>1 DEF SelectAck, AckInChannel
    <2> QED
      BY <2>1 DEF Truthful, Says
  <1>2. CASE \E c \in Calls : SelectAck(c)
    BY <1>1, <1>2, Zenon DEF SelectAck, Choose, ackVars
  <1>3. CASE \E c \in Calls : Refuse(c) \/ SelectCtx(c) \/ SelectTimeout(c)
    BY <1>3, Zenon DEF Refuse, SelectCtx, SelectTimeout, Choose, ackVars
  <1>4. CASE \/ \E c \in Calls : Deliver(c) \/ HandlerStarts(c) \/ HandlerReturns(c) \/ HandlerAcks(c)
             \/ \E m \in net : DeliverAck(m)
    BY <1>4, Zenon DEF Deliver, HandlerStarts, HandlerReturns, HandlerAcks, DeliverAck, callVars
  <1>5. CASE \/ \E e \in Ends : SetHandler(e) \/ HandlerSet(e) \/ Cancel(e)
             \/ \E g \in ackers : AckLookup(g) \/ AckSend(g) \/ AckClose(g) \/ AckPanics(g)
    BY <1>5, Zenon DEF SetHandler, HandlerSet, Cancel, AckLookup, AckSend, AckClose, AckPanics, callVars
  <1> QED
    BY <1>2, <1>3, <1>4, <1>5, NextCases, Zenon DEF Quiet

\* How a handler acked stays.
LEMMA VerdictStays ==
  ASSUME TypeOK, Answered, Next
  PROVE  /\ \A c \in Calls : verdict[c] \subseteq verdict'[c] /\ acks[c] <= acks'[c]
         /\ Answered'
  <1> USE DEF TypeOK, Answered
  <1>1. ASSUME UNCHANGED <<verdict, acks>>
        PROVE  (\A c \in Calls : verdict[c] \subseteq verdict'[c] /\ acks[c] <= acks'[c]) /\ Answered'
    BY <1>1
  <1>2. CASE Quiet
    BY <1>1, <1>2, QuietStep
  <1>3. ASSUME NEW c \in Calls, HandlerAcks(c)
        PROVE  (\A d \in Calls : verdict[d] \subseteq verdict'[d] /\ acks[d] <= acks'[d]) /\ Answered'
    <2>1. PICK kind \in AckKinds : kind \in Kinds[c] \cup {"ok", "err"} /\ Acked(c, kind)
      BY <1>3, AckedSome, Zenon
    <2> QED
      BY <2>1 DEF Acked
  <1>4. CASE \E c \in Calls : SelectAck(c)
    BY <1>1, <1>4 DEF SelectAck, Choose, ackVars
  <1>5. CASE \E m \in net : DeliverAck(m)
    BY <1>1, <1>5 DEF DeliverAck, ackVars
  <1>6. CASE \E g \in ackers : AckLookup(g) \/ AckSend(g) \/ AckClose(g)
    BY <1>1, <1>6 DEF AckLookup, AckSend, AckClose, ackVars
  <1> QED
    BY <1>2, <1>3, <1>4, <1>5, <1>6, NextCases

\* accept panics over an ack that is not the only one of its message.
LEMMA NextNoPanic ==
  ASSUME TypeOK, OneAck, NoPanic, Answered, Next PROVE NoPanic'
  <1> USE DEF TypeOK, NoPanic
  <1>1. \A c \in Calls : acks[c] > 1 => acks'[c] > 1
    <2>1. \A c \in Calls : acks[c] <= acks'[c]
      BY VerdictStays
    <2>2. \A c \in Calls : acks'[c] \in Nat
      BY CallTypeOK, AcceptTypeOK DEF Next, Step
    <2> QED
      BY <2>1, <2>2
  <1>2. ASSUME NEW g \in ackers, AckPanics(g) PROVE NoPanic'
    <2>1. g.ack.call \in Calls /\ acks[g.ack.call] > 1
      BY <1>2, AckerType, Zenon DEF AckPanics, OneAck, Once
    <2> QED
      BY <1>1, <1>2, <2>1 DEF AckPanics
  <1>3. CASE UNCHANGED panicked
    BY <1>1, <1>3
  <1>4. CASE \E c \in Calls : Refuse(c) \/ Register(c) \/ CallStep(c) \/ Deliver(c)
    BY <1>3, <1>4, Zenon DEF Refuse, Register, CallStep, WriteMsg, SelectAck, SelectCtx, SelectTimeout, Choose,
                             Unregister, Deliver, ackVars
  <1>5. CASE \E c \in Calls : HandlerStarts(c) \/ HandlerAcks(c) \/ HandlerReturns(c)
    BY <1>3, <1>5, Zenon DEF HandlerStarts, HandlerAcks, HandlerReturns, ackVars
  <1>6. CASE \/ \E m \in net : DeliverAck(m)
             \/ \E e \in Ends : SetHandler(e) \/ HandlerSet(e) \/ Cancel(e)
             \/ \E g \in ackers : AckLookup(g) \/ AckSend(g) \/ AckClose(g)
    BY <1>3, <1>6, Zenon DEF DeliverAck, SetHandler, HandlerSet, Cancel, AckLookup, AckSend, AckClose, ackVars
  <1> QED
    BY <1>2, <1>4, <1>5, <1>6, Zenon DEF Next, Step, AckerStep

\* A result is decided once, and a call that returned is registered no more.
LEMMA NextCalls ==
  ASSUME TypeOK, Truthful, AckInChannel, Undecided, Reported, Answered, NoLeakedWaiter, Next
  PROVE  Undecided' /\ Reported' /\ NoLeakedWaiter'
  <1> USE DEF TypeOK, Undecided, NoLeakedWaiter
  <1>0. \A c \in Calls : \A text : Says(c, text) => Says(c, text)'
    BY VerdictStays, Zenon DEF Says, HasText
  <1>1. CASE UNCHANGED <<call, result, waitingAcks>>
    BY <1>0, <1>1, Zenon DEF Reported
  <1>2. CASE \E c \in Calls : Register(c) \/ WriteMsg(c) \/ Unregister(c)
    <2>1. result' = result
      BY <1>2, Zenon DEF Register, WriteMsg, Unregister
    <2>2. Reported'
      BY <1>0, <2>1, Zenon DEF Reported
    <2>3. Undecided' /\ NoLeakedWaiter'
      BY <1>2 DEF Register, WriteMsg, Unregister
    <2> QED
      BY <2>2, <2>3
  <1>3. ASSUME NEW c \in Calls, NEW r \in {"refused", "ok", "error", "timeout", "ctx"},
               UNCHANGED <<verdict, waitingAcks>>,
               result' = [result EXCEPT ![c] = r],
               (call[c] = "idle" /\ call' = [call EXCEPT ![c] = "returned"])
                 \/ (call[c] = "waiting" /\ call' = [call EXCEPT ![c] = "leaving"]),
               r = "ok" => Says(c, FALSE),
               r = "error" => Says(c, TRUE)
        PROVE  Undecided' /\ Reported' /\ NoLeakedWaiter'
    <2>1. Undecided' /\ NoLeakedWaiter'
      BY <1>3
    <2>2. Reported'
      BY <1>0, <1>3, ZenonT(60) DEF Reported
    <2> QED
      BY <2>1, <2>2
  <1> QED
    BY <1>1, <1>2, <1>3, CallMoves, Zenon

\* A handler is replaced when none is running, and what starts later finds the
\* new one.
LEMMA NextGone ==
  ASSUME TypeOK, ReplacedHandlerIsGone, Next PROVE ReplacedHandlerIsGone'
  <1> USE HandledSomewhere DEF ReplacedHandlerIsGone, callVars
  <1>1. ASSUME NEW e \in Ends, HandlerSet(e) PROVE ReplacedHandlerIsGone'
    BY <1>1 DEF HandlerSet, Running, TypeOK
  <1>2. ASSUME NEW e \in Ends, SetHandler(e) \/ Cancel(e) PROVE ReplacedHandlerIsGone'
    BY <1>2 DEF SetHandler, Cancel, TypeOK
  <1>3. ASSUME NEW c \in Calls, HandlerStarts(c) PROVE ReplacedHandlerIsGone'
    BY <1>3 DEF HandlerStarts, HandlersOf, TypeOK
  <1>4. ASSUME NEW c \in Calls, Deliver(c) \/ HandlerReturns(c) \/ HandlerAcks(c) PROVE ReplacedHandlerIsGone'
    BY <1>4, SMTT(30) DEF Deliver, HandlerReturns, HandlerAcks, TypeOK
  <1>5. ASSUME NEW c \in Calls, Refuse(c) \/ Register(c) \/ CallStep(c) PROVE ReplacedHandlerIsGone'
    BY <1>5, Zenon DEF Refuse, Register, CallStep, WriteMsg, SelectAck, SelectCtx, SelectTimeout, Choose, Unregister
  <1>6. ASSUME NEW m \in net, DeliverAck(m) PROVE ReplacedHandlerIsGone'
    BY <1>6, Zenon DEF DeliverAck
  <1>7. ASSUME NEW g \in ackers, AckLookup(g) \/ AckSend(g) \/ AckClose(g) \/ AckPanics(g)
        PROVE  ReplacedHandlerIsGone'
    BY <1>7, Zenon DEF AckLookup, AckSend, AckClose, AckPanics
  <1> QED
    BY <1>1, <1>2, <1>3, <1>4, <1>5, <1>6, <1>7 DEF Next, Step, AckerStep

\* Registering comes first, and unregistering last.
LEMMA NextRegistered ==
  ASSUME TypeOK, Registered, Next PROVE Registered'
  <1> USE DEF Registered, callVars, chanVars, ackVars
  <1>1. ASSUME NEW c \in Calls, Refuse(c) \/ Register(c) PROVE Registered'
    <2>1. /\ UNCHANGED <<net, handler, verdict>> /\ waitingAcks \subseteq waitingAcks'
          /\ call[c] = "idle"
          /\ call'[c] = "returned" \/ (call'[c] = "registered" /\ c \in waitingAcks')
          /\ \A d \in Calls \ {c} : call'[d] = call[d]
      BY <1>1 DEF Refuse, Register, TypeOK
    <2> QED
      BY <2>1, Zenon
  <1>2. ASSUME NEW c \in Calls, WriteMsg(c) PROVE Registered'
    BY <1>2, ZenonT(60) DEF WriteMsg, TypeOK
  <1>3. ASSUME NEW c \in Calls, SelectAck(c) \/ SelectCtx(c) \/ SelectTimeout(c) PROVE Registered'
    <2>1. call[c] = "waiting" /\ \E r : Choose(c, r)
      BY <1>3, Zenon DEF SelectAck, SelectCtx, SelectTimeout
    <2>2. /\ UNCHANGED <<waitingAcks, net, handler, verdict>>
          /\ call'[c] = "leaving" /\ \A d \in Calls \ {c} : call'[d] = call[d]
      BY <2>1 DEF Choose, TypeOK
    <2> QED
      BY <2>1, <2>2, Zenon
  <1>4. ASSUME NEW c \in Calls, Unregister(c) PROVE Registered'
    BY <1>4, ZenonT(60) DEF Unregister, TypeOK
  <1>5. ASSUME NEW c \in Calls, Deliver(c) \/ HandlerStarts(c) \/ HandlerReturns(c) PROVE Registered'
    <2>1. /\ UNCHANGED <<call, waitingAcks, verdict>> /\ net' \subseteq net
          /\ [call |-> c] \in net \/ handler[c] # "none"
          /\ handler'[c] # "none"
          /\ \A d \in Calls \ {c} : handler'[d] = handler[d]
      BY <1>5 DEF Deliver, HandlerStarts, HandlerReturns, TypeOK
    <2> QED
      BY <2>1, Zenon
  <1>6. ASSUME NEW c \in Calls, HandlerAcks(c) PROVE Registered'
    <2>1. PICK kind \in AckKinds : Acked(c, kind)
      BY <1>6, AckedSome
    <2>2. acks[c] + 1 \in Nat
      BY DEF TypeOK
    <2>3. \A d \in Calls : [call |-> d] # Ack(c, acks[c] + 1, kind)
      <3>1. Ack(c, acks[c] + 1, kind) \in Acks
        BY <2>2, MessageIsNoAck, Zenon
      <3>2. \A d \in Calls : [call |-> d] \notin Acks
        BY MessageIsNoAck, Zenon
      <3> QED
        BY <3>1, <3>2, Zenon
    <2>4. \A d \in Calls : [call |-> d] \in net' => [call |-> d] \in net
      BY <2>1, <2>3 DEF Acked
    <2>5. \A d \in Calls : verdict'[d] # {} => verdict[d] # {} \/ handler[d] # "none"
      BY <1>6, <2>1 DEF HandlerAcks, Acked, TypeOK
    <2> QED
      BY <1>6, <2>4, <2>5, ZenonT(60) DEF HandlerAcks
  <1>7. ASSUME NEW m \in net, DeliverAck(m) PROVE Registered'
    BY <1>7, Zenon DEF DeliverAck
  <1>8. ASSUME NEW g \in ackers, AckLookup(g) \/ AckSend(g) \/ AckClose(g) \/ AckPanics(g) PROVE Registered'
    BY <1>8, ZenonT(60) DEF AckLookup, AckSend, AckClose, AckPanics
  <1>9. ASSUME NEW e \in Ends, SetHandler(e) \/ HandlerSet(e) \/ Cancel(e) PROVE Registered'
    BY <1>9, Zenon DEF SetHandler, HandlerSet, Cancel
  <1> QED
    BY <1>1, <1>2, <1>3, <1>4, <1>5, <1>6, <1>7, <1>8, <1>9, Zenon DEF Next, Step, CallStep, AckerStep

\* A message is written, and handled, for a call that was not refused.
LEMMA NextRefused ==
  ASSUME TypeOK, Undecided, Registered, RefusedIsOver, Next PROVE RefusedIsOver'
  <1> USE DEF RefusedIsOver, callVars, chanVars, ackVars
  <1>1. ASSUME NEW c \in Calls, Refuse(c) PROVE RefusedIsOver'
    <2>1. handler[c] = "none" /\ [call |-> c] \notin net
      BY <1>1, Zenon DEF Refuse, Registered
    <2> QED
      BY <1>1, <2>1, SMTT(30) DEF Refuse, TypeOK
  <1>2. ASSUME NEW c \in Calls, Register(c) \/ Unregister(c) PROVE RefusedIsOver'
    BY <1>2, SMTT(30) DEF Register, Unregister, TypeOK
  <1>3. ASSUME NEW c \in Calls, WriteMsg(c) PROVE RefusedIsOver'
    <2>1. call[c] = "registered" /\ result[c] # "refused"
      BY <1>3, Zenon DEF WriteMsg
    <2>2. \A d \in Calls \ {c} : [call |-> d] # [call |-> c]
      BY Zenon
    <2> QED
      BY <1>3, <2>1, <2>2, SMTT(30) DEF WriteMsg, TypeOK
  <1>4. ASSUME NEW c \in Calls, SelectAck(c) \/ SelectCtx(c) \/ SelectTimeout(c) PROVE RefusedIsOver'
    <2>1. call[c] = "waiting" /\ \E r \in {"ok", "error", "timeout", "ctx"} : Choose(c, r)
      BY <1>4, Zenon DEF SelectAck, SelectCtx, SelectTimeout
    <2> QED
      BY <2>1, SMTT(30) DEF Choose, TypeOK
  <1>5. ASSUME NEW c \in Calls, Deliver(c) \/ HandlerStarts(c) \/ HandlerReturns(c) PROVE RefusedIsOver'
    <2>1. /\ UNCHANGED <<call, result>> /\ net' \subseteq net
          /\ [call |-> c] \in net \/ handler[c] # "none"
          /\ \A d \in Calls \ {c} : handler'[d] = handler[d]
      BY <1>5 DEF Deliver, HandlerStarts, HandlerReturns, TypeOK
    <2> QED
      BY <2>1, Zenon
  <1>6. ASSUME NEW c \in Calls, HandlerAcks(c) PROVE RefusedIsOver'
    <2>1. PICK kind \in AckKinds : Acked(c, kind)
      BY <1>6, AckedSome
    <2>2. acks[c] + 1 \in Nat
      BY DEF TypeOK
    <2>3. \A d \in Calls : [call |-> d] # Ack(c, acks[c] + 1, kind)
      <3>1. Ack(c, acks[c] + 1, kind) \in Acks
        BY <2>2, MessageIsNoAck, Zenon
      <3>2. \A d \in Calls : [call |-> d] \notin Acks
        BY MessageIsNoAck, Zenon
      <3> QED
        BY <3>1, <3>2, Zenon
    <2>4. \A d \in Calls : [call |-> d] \in net' => [call |-> d] \in net
      BY <2>1, <2>3 DEF Acked
    <2> QED
      BY <1>6, <2>4, ZenonT(60) DEF HandlerAcks
  <1>7. ASSUME NEW m \in net, DeliverAck(m) PROVE RefusedIsOver'
    BY <1>7, Zenon DEF DeliverAck
  <1>8. ASSUME NEW g \in ackers, AckLookup(g) \/ AckSend(g) \/ AckClose(g) \/ AckPanics(g) PROVE RefusedIsOver'
    BY <1>8, ZenonT(60) DEF AckLookup, AckSend, AckClose, AckPanics
  <1>9. ASSUME NEW e \in Ends, SetHandler(e) \/ HandlerSet(e) \/ Cancel(e) PROVE RefusedIsOver'
    BY <1>9, Zenon DEF SetHandler, HandlerSet, Cancel
  <1> QED
    BY <1>1, <1>2, <1>3, <1>4, <1>5, <1>6, <1>7, <1>8, <1>9, Zenon DEF Next, Step, CallStep, AckerStep

\* The invariant holds in every reachable state.
LEMMA AlwaysIInv == Safety => []IInv
  <1>1. IInv /\ [Next]_vars => IInv'
    <2> SUFFICES ASSUME IInv, [Next]_vars PROVE IInv'
        OBVIOUS
    <2>1. CASE Next
      <3>1. TypeOK'
        BY <2>1, CallTypeOK, AcceptTypeOK DEF Next, Step, IInv
      <3>2. Truthful' /\ OneAck' /\ NoPanic' /\ AckInChannel'
        BY <2>1, NextTruthful, NextOneAck, NextNoPanic, NextAckInChannel DEF IInv
      <3>3. Undecided' /\ Reported' /\ Answered' /\ NoLeakedWaiter'
        BY <2>1, NextCalls, VerdictStays DEF IInv
      <3>4. ReplacedHandlerIsGone' /\ Registered' /\ RefusedIsOver'
        BY <2>1, NextGone, NextRegistered, NextRefused DEF IInv
      <3> QED
        BY <3>1, <3>2, <3>3, <3>4, Zenon DEF IInv
    <2>2. CASE UNCHANGED vars
      <3>1. TypeOK'
        BY <2>2, ZenonT(60) DEF vars, IInv, TypeOK
      <3>2. Truthful' /\ OneAck' /\ NoPanic'
        BY <2>2 DEF vars, IInv, Truthful, Says, HasText, OneAck, Once, NoPanic
      <3>3. AckInChannel' /\ Undecided' /\ Registered' /\ RefusedIsOver'
        BY <2>2, ZenonT(60) DEF vars, IInv, AckInChannel, Undecided, Registered, RefusedIsOver
      <3>4. Reported' /\ Answered' /\ NoLeakedWaiter' /\ ReplacedHandlerIsGone'
        BY <2>2 DEF vars, IInv, Reported, Says, HasText, Answered, NoLeakedWaiter, ReplacedHandlerIsGone
      <3> QED
        BY <3>1, <3>2, <3>3, <3>4, Zenon DEF IInv
    <2> QED
      BY <2>1, <2>2
  <1> QED
    BY InitIInv, <1>1, PTL DEF Safety

\* sendBinaryAndWaitForAck, accept and the acks keep their types.
THEOREM TypeCorrect == Safety => []TypeOK
  <1>1. IInv => TypeOK
    BY DEF IInv
  <1> QED
    BY AlwaysIInv, <1>1, PTL

\* A message acked with errors that have a text, or without one, is reported as
\* it was acked.
LEMMA ReportedIsVerdict ==
  ASSUME \A c \in Calls : "emptyErr" \notin Kinds[c], TypeOK, Answered, NEW c \in Calls
  PROVE  /\ Says(c, FALSE) => "ok" \in verdict[c]
         /\ Says(c, TRUE) => "err" \in verdict[c]
  <1>1. verdict[c] \subseteq {"ok", "err"}
    BY CallsAssumption DEF Answered, TypeOK, AckKinds
  <1>2. \A kind : HasText(kind) <=> kind = "err"
    BY Zenon DEF HasText
  <1>3. ASSUME Says(c, FALSE) PROVE "ok" \in verdict[c]
    <2>1. PICK kind \in verdict[c] : ~HasText(kind)
      BY <1>3, Zenon DEF Says
    <2> QED
      BY <1>1, <1>2, <2>1
  <1>4. ASSUME Says(c, TRUE) PROVE "err" \in verdict[c]
    <2>1. PICK kind \in verdict[c] : HasText(kind)
      BY <1>4, Zenon DEF Says
    <2> QED
      BY <1>1, <1>2, <2>1
  <1> QED
    BY <1>3, <1>4, Zenon

\* SendAndWaitForAck returns nil only if the handler of its own message called
\* Ack, and the error of an ack only if it called AckWithError, however often
\* messages are acked, provided that no error has an empty text.
THEOREM ResultIsVerdict ==
  ASSUME \A c \in Calls : "emptyErr" \notin Kinds[c] PROVE Safety => []ResultMatchesVerdict
  <1>1. IInv => ResultMatchesVerdict
    <2> SUFFICES ASSUME IInv, NEW c \in Calls
                 PROVE  /\ result[c] = "ok" => "ok" \in verdict[c]
                        /\ result[c] = "error" => verdict[c] \cap {"err", "emptyErr"} # {}
        BY DEF ResultMatchesVerdict
    <2>1. (Says(c, FALSE) => "ok" \in verdict[c]) /\ (Says(c, TRUE) => "err" \in verdict[c])
      BY ReportedIsVerdict, Zenon DEF IInv
    <2> QED
      BY <2>1, Zenon DEF IInv, Reported
  <1> QED
    BY AlwaysIInv, <1>1, PTL

\* accept panics, by a send on a closed ack channel or by closing it twice, only
\* over a message that was acked more than once: a timeout, a late ack, or a
\* call that returned between lookup and send does not lead there.
THEOREM AcceptPanicsOnSecondAckOnly == Safety => []NoPanic
  <1>1. IInv => NoPanic
    BY DEF IInv
  <1> QED
    BY AlwaysIInv, <1>1, PTL

\* waitingAcks holds calls that have not returned, and no others.
THEOREM NoWaiterLeaks == Safety => []NoLeakedWaiter
  <1>1. IInv => NoLeakedWaiter
    BY DEF IInv
  <1> QED
    BY AlwaysIInv, <1>1, PTL

\* MessageHandler returns when no goroutine is left in the handler it replaced,
\* and none enters it later.
THEOREM HandlerIsReplaced == Safety => []ReplacedHandlerIsGone
  <1>1. IInv => ReplacedHandlerIsGone
    BY DEF IInv
  <1> QED
    BY AlwaysIInv, <1>1, PTL

\* accept drops an ack for want of a channel only if the call has returned.
THEOREM AcksFindTheirCall == Safety => AckDroppedOnlyAfterReturn
  <1> DEFINE Late == \A g \in ackers :
               (g.pc = "lookup" /\ g \notin ackers' /\ [g EXCEPT !.pc = "send"] \notin ackers')
                 => call[g.ack.call] = "returned"
  <1>1. IInv /\ [Next]_vars => [Late]_vars
    <2> SUFFICES ASSUME IInv, Next, NEW g \in ackers, g.pc = "lookup", g \notin ackers',
                        [g EXCEPT !.pc = "send"] \notin ackers'
                 PROVE  call[g.ack.call] = "returned"
        OBVIOUS
    <2> USE DEF IInv
    <2>1. AckLookup(g)
      <3>1. CASE Quiet
        BY <3>1, QuietStep
      <3>2. CASE \E c \in Calls : SelectAck(c) \/ HandlerAcks(c)
        BY <3>2 DEF SelectAck, Choose, HandlerAcks
      <3>3. CASE \E m \in net : DeliverAck(m)
        BY <3>3 DEF DeliverAck
      <3>4. ASSUME NEW h \in ackers, AckLookup(h) \/ AckSend(h) \/ AckClose(h) PROVE h = g /\ AckLookup(h)
        BY <3>4 DEF AckLookup, AckSend, AckClose
      <3> QED
        BY <3>1, <3>2, <3>3, <3>4, NextCases
    <2>2. g.ack.call \in Calls /\ g.ack.call \notin waitingAcks
      BY <2>1, AckerType DEF AckLookup
    <2>3. verdict[g.ack.call] # {}
      BY DEF Truthful, Says
    <2>6. handler[g.ack.call] # "none"
      BY <2>2, <2>3, Zenon DEF Registered
    <2>4. call[g.ack.call] \notin {"idle", "registered", "waiting", "leaving"}
      BY <2>2, <2>6, Zenon DEF Registered
    <2>5. call[g.ack.call] \in {"idle", "registered", "waiting", "leaving", "returned"}
      BY <2>2 DEF TypeOK
    <2> QED
      BY <2>4, <2>5
  <1> QED
    BY <1>1, AlwaysIInv, PTL DEF Safety, AckDroppedOnlyAfterReturn

\* The service implements SendPromise, provided that no error has an empty
\* text: a call that leaves its select, or is refused, ends there; a handler
\* that acks, acks there; nothing else shows.
THEOREM RefinesSendPromise ==
  ASSUME \A c \in Calls : "emptyErr" \notin Kinds[c] PROVE Safety => ImplementsSendPromise
  <1>1. Init => Promise!Init
    BY DEF Init, Promise!Init
  <1>2. IInv /\ [Next]_vars => [Promise!Next]_(Promise!vars)
    <2> SUFFICES ASSUME IInv, [Next]_vars PROVE Promise!Next \/ UNCHANGED <<verdict, result>>
        BY DEF Promise!vars
    <2>1. CASE UNCHANGED vars
      BY <2>1 DEF vars
    <2>2. ASSUME NEW c \in Calls, HandlerAcks(c) PROVE Promise!Next
      <3>1. PICK kind \in AckKinds : Acked(c, kind)
        BY <2>2, AckedSome
      <3>2. result[c] # "refused"
        BY <2>2, Zenon DEF HandlerAcks, IInv, RefusedIsOver
      <3>3. kind \in {"ok"} \cup Promise!Errors
        BY DEF AckKinds, Promise!Errors
      <3>4. UNCHANGED result
        BY <2>2 DEF HandlerAcks, callVars
      <3>5. Promise!Ack(c)
        BY <3>1, <3>2, <3>3, <3>4, Zenon DEF Acked, Promise!Ack
      <3> QED
        BY <3>5 DEF Promise!Next
    <2>3. CASE \E c \in Calls : Register(c) \/ WriteMsg(c) \/ Unregister(c)
      BY <2>3 DEF Register, WriteMsg, Unregister, ackVars
    <2>4. ASSUME NEW c \in Calls, NEW r \in {"refused", "ok", "error", "timeout", "ctx"},
                 UNCHANGED verdict,
                 result' = [result EXCEPT ![c] = r],
                 call[c] \in {"idle", "waiting"},
                 r = "refused" => call[c] = "idle",
                 r = "ok" => Says(c, FALSE),
                 r = "error" => Says(c, TRUE)
          PROVE  Promise!Next
      <3>1. result[c] = "none"
        BY <2>4 DEF IInv, Undecided
      <3>2. r = "refused" => verdict[c] = {}
        BY <2>4, Zenon DEF IInv, Registered
      <3>3. (r = "ok" => "ok" \in verdict[c]) /\ (r = "error" => "err" \in verdict[c])
        BY <2>4, ReportedIsVerdict, Zenon DEF IInv
      <3>4. r = "error" => verdict[c] \cap Promise!Errors # {}
        BY <3>3 DEF Promise!Errors
      <3>5. Promise!End(c)
        BY <2>4, <3>1, <3>2, <3>3, <3>4, Zenon DEF Promise!End
      <3> QED
        BY <3>5 DEF Promise!Next
    <2>5. ASSUME Next, UNCHANGED <<call, result, waitingAcks>>, ~\E c \in Calls : HandlerAcks(c)
          PROVE  UNCHANGED <<verdict, result>>
      <3>1. CASE Quiet
        BY <2>5, <3>1, QuietStep DEF IInv
      <3>2. CASE \E c \in Calls : SelectAck(c)
        BY <2>5, <3>2 DEF SelectAck, Choose, ackVars
      <3>3. CASE \E m \in net : DeliverAck(m)
        BY <2>5, <3>3 DEF DeliverAck, ackVars
      <3>4. CASE \E g \in ackers : AckLookup(g) \/ AckSend(g) \/ AckClose(g)
        BY <2>5, <3>4 DEF AckLookup, AckSend, AckClose, ackVars
      <3> QED
        BY <2>5, <3>1, <3>2, <3>3, <3>4, NextCases
    <2> QED
      BY <2>1, <2>2, <2>3, <2>4, <2>5, CallMoves, Zenon DEF IInv
  <1> QED
    BY <1>1, <1>2, AlwaysIInv, PTL DEF Safety, ImplementsSendPromise, Promise!Spec
=============================================================================
