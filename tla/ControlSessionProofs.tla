------------------------ MODULE ControlSessionProofs ------------------------
(***************************************************************************)
(* Proofs about the control session: types, that the ends of an            *)
(* authenticated connection agree, that honest frames are accepted, and    *)
(* that no loss of a session is silent while one user asks.                *)
(*                                                                         *)
(* What travels to a phone on a connection is a fixed stream: the event    *)
(* "connected" at the end that was dialled, then the partner's hello, then *)
(* its sealed messages, numbered from one; the loss of the connection ends *)
(* it.  The invariant says how much of its stream a phone has handled, and *)
(* how much of it its partner has said (Link).                             *)
(*                                                                         *)
(* For the losses, what every outcome leaves in the fields that the        *)
(* subscribers depend on: an operation that greets nobody keeps a session  *)
(* or says that it is over (Fine), and who asks is alone at its phone      *)
(* (SoundPhones).                                                          *)
(***************************************************************************)
EXTENDS ControlSessionProperties, SequenceTheorems, FiniteSetTheorems, TLAPS

SessionOrNone == 0..MaxSession

Event ==
  [kind : {"connected", "closed", "error"}]
    \cup [kind : {"hello1", "hello2"}, sessionId : SessionOrNone]
    \cup [kind : {"sealed"}, sessionId : SessionOrNone, sequence : Nat, body : Body]

\* The steps of an initiator that has not sent its hello.
Early == {"dialled", "adopted", "rejected"}
IsEarly(o, w, c) == o[w].step \in Early /\ o[w].connectionId = c
EarlyOn(o, c) == \E w \in Caller : IsEarly(o, w, c)

-----------------------------------------------------------------------------
(* The streams of connection c, for the session s. *)

Last == {Closed, Failed}

\* The event e is the k-th of what a phone of that role gets.
IsNth(e, k, role, s) ==
  \/ k = 1 /\ e = Connected
  \/ k = 2 /\ e = IF role = "initiator" THEN Hello2(s) ELSE Hello1(s)
  \/ k >= 3 /\ e.kind = "sealed" /\ e.sessionId = s /\ e.sequence = k - 2

\* x waits at a phone that has handled h events of its stream.
Flow(x, h, role, s) ==
  \A i \in 1..Len(x) : IsNth(x[i], h + i, role, s) \/ (i = Len(x) /\ x[i] \in Last)

Whole(x) == \A i \in 1..Len(x) : x[i] \notin Last
Void(x) == \A i \in 1..Len(x) : i = Len(x) /\ x[i] \in Last
NoConnected(x) == \A i \in 1..Len(x) : x[i] # Connected

\* The events that the end of an active connection has handled, and those its
\* partner has been sent, "connected" included.
Handled(a) == IF a.keyed THEN 2 + a.lastSequence ELSE 1

Said(c, a, o) ==
  IF a.keyed THEN 1 + a.nextSendSequence
  ELSE IF a.role = "initiator" /\ ~EarlyOn(o, c) THEN 2 ELSE 1

\* A phone that was dialled can still handle its stream, and has handled so much.
Hears(c, b, y, K) == c \in K \/ b.connectionId = c \/ (Len(y) > 0 /\ y[1] = Connected)
Heard(c, b, K) == IF c \in K THEN 1 ELSE IF b.connectionId = c THEN Handled(b) ELSE 0

-----------------------------------------------------------------------------
(***************************************************************************)
(* A connection: the active connection a, b of the phone that dialled and  *)
(* of the other one, what waits for them (x, y), their native slots (n,    *)
(* m), the sockets not classified yet (J, K) and what they are opening (o, *)
(* u).                                                                     *)
(***************************************************************************)
DiallerOK(c, s, a, x, n, J, o) ==
  /\ c \notin J
  /\ NoConnected(x)
  /\ a.connectionId = c =>
       a.role = "initiator" /\ a.sessionId = s /\ Flow(x, Handled(a), "initiator", s)
  /\ n = c => Whole(x)
  /\ \A w \in Caller : IsEarly(o, w, c) =>
       /\ o[w].sessionId = s
       /\ Void(x)
       /\ a.connectionId = c => ~a.keyed /\ o[w].step # "dialled"

DialledOK(c, s, b, y, m, K, u) ==
  /\ \A i \in 2..Len(y) : y[i] # Connected
  /\ b.connectionId = c => c \notin K /\ b.role = "responder" /\ (b.keyed => b.sessionId = s)
  /\ Hears(c, b, y, K) => Flow(y, Heard(c, b, K), "responder", s)
  /\ c \in K => Whole(y) /\ Len(y) <= 1 /\ m # c
  /\ m = c => Whole(y)
  /\ \A w \in Caller : ~IsEarly(u, w, c)

BothOK(c, a, x, n, o, b, y, m, K) ==
  /\ EarlyOn(o, c) => Len(y) = 0 /\ m # c /\ b.connectionId # c
  /\ a.connectionId = c /\ Hears(c, b, y, K) /\ Heard(c, b, K) < 2 => ~a.keyed /\ Void(x)
  /\ n = c /\ a.connectionId = c /\ (m = c \/ c \in K) /\ Hears(c, b, y, K)
       => Heard(c, b, K) + Len(y) = Said(c, a, o)
  /\ n = c /\ a.connectionId = c /\ m = c /\ b.connectionId = c
       => Handled(a) + Len(x) = IF b.keyed THEN 1 + b.nextSendSequence ELSE 1

Link(c, s, a, x, n, J, o, b, y, m, K, u) ==
  /\ DiallerOK(c, s, a, x, n, J, o)
  /\ DialledOK(c, s, b, y, m, K, u)
  /\ BothOK(c, a, x, n, o, b, y, m, K)

LinkOf(c, d, r, s) ==
  Link(c, s, ctl[d].active, inbox[d][c], native[d], knocks[d], opening[d],
             ctl[r].active, inbox[r][c], native[r], knocks[r], opening[r])

Unused(c) == \A p \in Phone : inbox[p][c] = <<>> /\ c \notin knocks[p]

Links ==
  \A c \in Conn :
    IF c > lastConn THEN Unused(c)
    ELSE \E d \in Phone, s \in Session : LinkOf(c, d, Other(d), s)

-----------------------------------------------------------------------------
(* Types, with the bounds that the connections so far set. *)

ActiveOK(a, n) ==
  /\ a \in Active
  /\ a.connectionId \in 0..n /\ a.sessionId \in SessionOrNone
  /\ a.connectionId = 0 => a = NoActive
  /\ a.nextSendSequence > 0
  /\ ~a.keyed => a.nextSendSequence = 1 /\ a.lastSequence = 0

ControlOK(x, n) ==
  /\ x \in Control
  /\ ActiveOK(x.active, n)
  /\ x.resumeSessionId \in SessionOrNone
  /\ x.reconnectAttempt <= MaxTries
  /\ ~x.context => x.active.connectionId = 0

OpeningOK(o, n) ==
  /\ o \in [Caller -> Opening]
  /\ \A w \in Caller :
       /\ o[w].sessionId \in SessionOrNone /\ o[w].connectionId \in 0..n
       /\ o[w].step # "none" => o[w].sessionId # 0
       /\ o[w].step \in Early => o[w].connectionId # 0
  /\ o["connect"].step \in Early /\ o["reconnect"].step \in Early
       => o["connect"].connectionId # o["reconnect"].connectionId

PhoneOK(x, o, t, n, K, i, l) ==
  /\ ControlOK(x, l) /\ OpeningOK(o, l)
  /\ t \in SessionOrNone /\ n \in 0..l /\ K \subseteq 1..l
  /\ i \in [Conn -> Seq(Event)]
  /\ ~x.context => \A w \in Caller : o[w].step = "none"

Types ==
  /\ ctl \in [Phone -> Control] /\ opening \in [Phone -> [Caller -> Opening]]
  /\ told \in [Phone -> SessionOrNone] /\ native \in [Phone -> Nat]
  /\ knocks \in [Phone -> SUBSET Conn] /\ inbox \in [Phone -> [Conn -> Seq(Event)]]
  /\ lastConn \in 0..MaxConn /\ opener \in Seq(Phone) /\ lastSession <= MaxSession
  /\ \A p \in Phone :
       PhoneOK(ctl[p], opening[p], told[p], native[p], knocks[p], inbox[p], lastConn)

IInv == Types /\ Links
-----------------------------------------------------------------------------
(***************************************************************************)
(* Streams.                                                                *)
(***************************************************************************)

\* What kinds of events there are.
LEMMA Kinds ==
  /\ Connected.kind = "connected" /\ Closed.kind = "closed" /\ Failed.kind = "error"
  /\ \A s : Hello1(s).kind = "hello1" /\ Hello1(s).sessionId = s
  /\ \A s : Hello2(s).kind = "hello2" /\ Hello2(s).sessionId = s
  /\ \A e \in Last : e.kind \in {"closed", "error"}
  BY DEF Connected, Closed, Failed, Hello1, Hello2, Last

\* An event of a stream is not its end, and only the first is "connected".
LEMMA NthKinds ==
  ASSUME NEW e, NEW k \in Nat, NEW role, NEW s, IsNth(e, k, role, s)
  PROVE  e \notin Last /\ (k # 1 => e # Connected)
<1>1. e.kind \in {"connected", "hello1", "hello2", "sealed"} /\ (k # 1 => e.kind # "connected")
  BY Kinds DEF IsNth
<1> QED
  BY <1>1, Kinds

\* After an event the stream goes on.
LEMMA FlowTail ==
  ASSUME NEW x \in Seq(Event), Len(x) > 0, NEW h \in Nat, NEW role, NEW s, Flow(x, h, role, s)
  PROVE  Flow(Tail(x), h + 1, role, s)
<1>1. Len(Tail(x)) = Len(x) - 1 /\ \A i \in 1..Len(Tail(x)) : Tail(x)[i] = x[i + 1]
  BY HeadTailProperties, EmptySeq
<1>2. ASSUME NEW i \in 1..Len(Tail(x))
      PROVE  \/ IsNth(Tail(x)[i], (h + 1) + i, role, s)
             \/ i = Len(Tail(x)) /\ Tail(x)[i] \in Last
  <2>1. i + 1 \in 1..Len(x) /\ h + (i + 1) = (h + 1) + i
    BY <1>1
  <2>2. Tail(x)[i] = x[i + 1]
    BY <1>1
  <2>3. \/ IsNth(x[i + 1], h + (i + 1), role, s)
        \/ i + 1 = Len(x) /\ x[i + 1] \in Last
    BY <2>1 DEF Flow
  <2>4. i + 1 = Len(x) => i = Len(Tail(x))
    BY <1>1
  <2> QED
    BY <2>1, <2>2, <2>3, <2>4
<1> QED
  BY <1>2 DEF Flow

\* Nothing follows the end.
LEMMA EndIsLast ==
  ASSUME NEW x \in Seq(Event), Len(x) > 0, NEW h \in Nat, NEW role, NEW s, Flow(x, h, role, s), x[1] \in Last
  PROVE  Len(x) = 1
<1>1. 1 \in 1..Len(x) /\ h + 1 \in Nat
  OBVIOUS
<1>2. ~IsNth(x[1], h + 1, role, s)
  BY <1>1, NthKinds
<1> QED
  BY <1>1, <1>2 DEF Flow

\* An event that is sent is the next of the stream.
LEMMA FlowSent ==
  ASSUME NEW x \in Seq(Event), NEW h \in Nat, NEW role, NEW s, NEW e \in Event,
         Flow(x, h, role, s), Whole(x), IsNth(e, h + Len(x) + 1, role, s)
  PROVE  /\ Flow(x \o <<e>>, h, role, s) /\ Whole(x \o <<e>>)
         /\ x \o <<e>> \in Seq(Event) /\ Len(x \o <<e>>) = Len(x) + 1
<1>1. <<e>> \in Seq(Event) /\ Len(<<e>>) = 1 /\ <<e>>[1] = e
  OBVIOUS
<1>2. /\ x \o <<e>> \in Seq(Event) /\ Len(x \o <<e>>) = Len(x) + 1
      /\ \A i \in 1..Len(x) : (x \o <<e>>)[i] = x[i]
      /\ (x \o <<e>>)[Len(x) + 1] = e
  BY <1>1, ConcatProperties
<1>3. ASSUME NEW i \in 1..Len(x) + 1
      PROVE  IsNth((x \o <<e>>)[i], h + i, role, s)
  <2>1. CASE i \in 1..Len(x)
    BY <1>2, <2>1 DEF Flow, Whole
  <2>2. CASE i = Len(x) + 1
    <3>1. h + i = h + Len(x) + 1
      BY <2>2
    <3> QED
      BY <1>2, <2>2, <3>1
  <2> QED
    BY <2>1, <2>2
<1>4. \A i \in 1..Len(x) + 1 : (x \o <<e>>)[i] \notin Last
  <2>1. ASSUME NEW i \in 1..Len(x) + 1 PROVE h + i \in Nat
    OBVIOUS
  <2> QED
    BY <1>3, <2>1, NthKinds
<1> QED
  BY <1>2, <1>3, <1>4 DEF Flow, Whole

\* A stream that is cut ends there.
LEMMA FlowCut ==
  ASSUME NEW x \in Seq(Event), NEW k \in 0..Len(x), NEW l \in Last, Whole(x)
  PROVE  LET y == SubSeq(x, 1, k) \o <<l>> IN
         /\ y \in Seq(Event) /\ Len(y) = k + 1 /\ y[k + 1] = l
         /\ \A i \in 1..k : y[i] = x[i]
         /\ \A h \in Nat : \A role, s : Flow(x, h, role, s) => Flow(y, h, role, s)
         /\ NoConnected(x) => NoConnected(y)
         /\ Len(x) = 0 => Void(y)
<1> DEFINE z == SubSeq(x, 1, k)
           y == z \o <<l>>
<1>1. \A i \in 1..k : x[i] \in Event
  OBVIOUS
<1>2. z \in Seq(Event) /\ Len(z) = k /\ \A i \in 1..k : z[i] = x[i]
  BY <1>1, SubSeqProperties
<1>3. l \in Event /\ l # Connected
  BY Kinds DEF Last, Event, Closed, Failed
<1>4. <<l>> \in Seq(Event) /\ Len(<<l>>) = 1 /\ <<l>>[1] = l
  BY <1>3
<1>5. /\ y \in Seq(Event) /\ Len(y) = k + 1 /\ y[k + 1] = l
      /\ \A i \in 1..k : y[i] = z[i]
  BY <1>2, <1>4, ConcatProperties
<1> HIDE DEF y, z
<1>6. \A i \in 1..k : y[i] = x[i]
  BY <1>2, <1>5
<1>7. ASSUME NEW h \in Nat, NEW role, NEW s, Flow(x, h, role, s)
      PROVE  Flow(y, h, role, s)
  <2>1. \A i \in 1..k : IsNth(x[i], h + i, role, s)
    BY <1>7 DEF Flow, Whole
  <2> QED
    BY <2>1, <1>5, <1>6 DEF Flow
<1>8. NoConnected(x) => NoConnected(y)
  BY <1>3, <1>5, <1>6 DEF NoConnected
<1>9. Len(x) = 0 => Void(y)
  BY <1>5 DEF Void
<1> QED
  BY <1>5, <1>6, <1>7, <1>8, <1>9 DEF y, z

\* What is left of a stream that is handled in part, or dropped.
Part(x, x2) == x2 = x \/ x2 = <<>> \/ (Len(x) > 0 /\ x2 = Tail(x))

\* What is left of the events that wait for a phone keeps their order, and a
\* "connected" can only be lost with the whole of them (Delivered, Reset).
LEMMA PartIs ==
  ASSUME NEW x \in Seq(Event), NEW x2, Part(x, x2)
  PROVE  /\ x2 \in Seq(Event) /\ Len(x2) <= Len(x)
         /\ NoConnected(x) => NoConnected(x2)
         /\ Whole(x) => Whole(x2)
         /\ Void(x) => Void(x2)
         /\ (\A i \in 2..Len(x) : x[i] # Connected)
              => (\A i \in 2..Len(x2) : x2[i] # Connected) /\ (x2 = x \/ NoConnected(x2))
<1>1. CASE x2 = x
  BY <1>1
<1>2. CASE x2 = <<>>
  BY <1>2 DEF NoConnected, Whole, Void
<1>3. CASE Len(x) > 0 /\ x2 = Tail(x)
  <2>1. /\ x2 \in Seq(Event) /\ Len(x2) = Len(x) - 1
        /\ \A i \in 1..Len(x2) : x2[i] = x[i + 1] /\ i + 1 \in 2..Len(x) /\ i + 1 \in 1..Len(x)
    BY <1>3, HeadTailProperties, EmptySeq
  <2>2. /\ NoConnected(x) => NoConnected(x2)
        /\ Whole(x) => Whole(x2)
    BY <2>1 DEF NoConnected, Whole
  <2>3. Void(x) => Void(x2)
    <3>1. ASSUME Void(x), NEW i \in 1..Len(x2) PROVE i = Len(x2) /\ x2[i] \in Last
      BY <2>1, <3>1 DEF Void
    <3> QED
      BY <3>1 DEF Void
  <2>4. (\A i \in 2..Len(x) : x[i] # Connected) => NoConnected(x2)
    BY <2>1 DEF NoConnected
  <2>5. NoConnected(x2) => \A i \in 2..Len(x2) : x2[i] # Connected
    BY <2>1 DEF NoConnected
  <2> QED
    BY <2>1, <2>2, <2>3, <2>4, <2>5
<1> QED
  BY <1>1, <1>2, <1>3 DEF Part

\* Openings on connection c that remain.
Fewer(c, o, o2) ==
  \A w \in Caller : IsEarly(o2, w, c) =>
    IsEarly(o, w, c) /\ o2[w].sessionId = o[w].sessionId
      /\ (o2[w].step = "dialled" => o[w].step = "dialled")

-----------------------------------------------------------------------------
(***************************************************************************)
(* What the steps of one end do to a connection.                           *)
(***************************************************************************)

\* The phone that dialled has another active connection, or none.
LEMMA DiallerQuits ==
  ASSUME NEW c, NEW s, NEW a, NEW x \in Seq(Event), NEW n, NEW J, NEW o, NEW b, NEW y, NEW m, NEW K, NEW u,
         Link(c, s, a, x, n, J, o, b, y, m, K, u),
         NEW a2, NEW x2, NEW n2, NEW J2, NEW o2,
         a2.connectionId # c, Part(x, x2), n2 = n \/ n2 # c, c \notin J2, Fewer(c, o, o2)
  PROVE  Link(c, s, a2, x2, n2, J2, o2, b, y, m, K, u)
<1>1. DiallerOK(c, s, a2, x2, n2, J2, o2)
  BY PartIs DEF Link, DiallerOK, Fewer
<1>2. BothOK(c, a2, x2, n2, o2, b, y, m, K)
  BY DEF Link, BothOK, Fewer, EarlyOn
<1> QED
  BY <1>1, <1>2 DEF Link

\* It keeps its end as it is, or loses its native slot.
LEMMA DiallerStays ==
  ASSUME NEW c, NEW s, NEW a, NEW x, NEW n, NEW J, NEW o, NEW b, NEW y, NEW m, NEW K, NEW u,
         Link(c, s, a, x, n, J, o, b, y, m, K, u),
         NEW n2, NEW J2, NEW o2,
         n2 = n \/ n2 # c, c \notin J2, Fewer(c, o, o2),
         n2 = c /\ a.connectionId = c => (EarlyOn(o, c) <=> EarlyOn(o2, c))
  PROVE  Link(c, s, a, x, n2, J2, o2, b, y, m, K, u)
<1>1. DiallerOK(c, s, a, x, n2, J2, o2)
  BY DEF Link, DiallerOK, Fewer
<1>2. BothOK(c, a, x, n2, o2, b, y, m, K)
  BY DEF Link, BothOK, Fewer, EarlyOn, Said
<1> QED
  BY <1>1, <1>2 DEF Link

\* The phone that was dialled has another active connection, or none.
LEMMA DialledQuits ==
  ASSUME NEW c, NEW s, NEW a, NEW x, NEW n, NEW J, NEW o, NEW b \in Active, NEW y \in Seq(Event), NEW m, NEW K, NEW u,
         Link(c, s, a, x, n, J, o, b, y, m, K, u),
         NEW b2, NEW y2, NEW m2, NEW K2, NEW u2,
         b2.connectionId # c, Part(y, y2), m2 = m \/ m2 # c,
         c \in K2 => c \in K /\ y2 = y,
         c \in K => c \in K2 \/ y2 = <<>>,
         \A w \in Caller : ~IsEarly(u2, w, c)
  PROVE  Link(c, s, a, x, n, J, o, b2, y2, m2, K2, u2)
<1>1. DialledOK(c, s, b, y, m, K, u) /\ BothOK(c, a, x, n, o, b, y, m, K)
  BY DEF Link
<1>2. /\ y2 \in Seq(Event) /\ Len(y2) <= Len(y)
      /\ Whole(y) => Whole(y2)
      /\ \A i \in 2..Len(y2) : y2[i] # Connected
      /\ y2 = y \/ NoConnected(y2)
  BY <1>1, PartIs DEF DialledOK
<1>3. b.connectionId = c => NoConnected(y2)
  <2>1. CASE b.connectionId = c
    <3>1. Flow(y, Handled(b), "responder", s) /\ Handled(b) \in Nat /\ Handled(b) >= 1
      BY <1>1, <2>1 DEF DialledOK, Hears, Heard, Handled, Active
    <3>2. \A i \in 1..Len(y) : y[i] # Connected
      <4>1. ASSUME NEW i \in 1..Len(y) PROVE y[i] # Connected
        <5>1. Handled(b) + i \in Nat /\ Handled(b) + i # 1
          BY <3>1
        <5>2. IsNth(y[i], Handled(b) + i, "responder", s) => y[i] # Connected
          BY <5>1, NthKinds
        <5>3. y[i] \in Last => y[i] # Connected
          BY Kinds
        <5> QED
          BY <3>1, <5>2, <5>3 DEF Flow
      <4> QED
        BY <4>1
    <3> QED
      BY <3>2, PartIs DEF NoConnected
  <2> QED
    BY <2>1
<1>4. Hears(c, b2, y2, K2) =>
        y2 = y /\ Hears(c, b, y, K) /\ Heard(c, b2, K2) = Heard(c, b, K) /\ (c \in K2 <=> c \in K)
  <2>1. CASE c \in K2
    BY <2>1 DEF Hears, Heard
  <2>2. CASE c \notin K2 /\ Hears(c, b2, y2, K2)
    <3>1. Len(y2) > 0 /\ y2[1] = Connected
      BY <2>2 DEF Hears
    <3>2. ~NoConnected(y2)
      BY <1>2, <3>1 DEF NoConnected
    <3>3. y2 = y /\ b.connectionId # c /\ y2 # <<>>
      BY <1>2, <1>3, <3>1, <3>2
    <3> QED
      BY <2>2, <3>1, <3>3 DEF Hears, Heard
  <2> QED
    BY <2>1, <2>2
<1>5. DialledOK(c, s, b2, y2, m2, K2, u2)
  BY <1>1, <1>2, <1>4 DEF DialledOK
<1>6. BothOK(c, a, x, n, o, b2, y2, m2, K2)
  <2>1. EarlyOn(o, c) => Len(y2) = 0 /\ m2 # c /\ b2.connectionId # c
    BY <1>1, <1>2 DEF BothOK
  <2>2. a.connectionId = c /\ Hears(c, b2, y2, K2) /\ Heard(c, b2, K2) < 2 => ~a.keyed /\ Void(x)
    BY <1>1, <1>4 DEF BothOK
  <2>3. n = c /\ a.connectionId = c /\ (m2 = c \/ c \in K2) /\ Hears(c, b2, y2, K2)
          => Heard(c, b2, K2) + Len(y2) = Said(c, a, o)
    BY <1>1, <1>4 DEF BothOK
  <2> QED
    BY <2>1, <2>2, <2>3 DEF BothOK
<1> QED
  BY <1>5, <1>6 DEF Link

\* It keeps its end as it is, or loses its native slot.
LEMMA DialledStays ==
  ASSUME NEW c, NEW s, NEW a, NEW x, NEW n, NEW J, NEW o, NEW b, NEW y, NEW m, NEW K, NEW u,
         Link(c, s, a, x, n, J, o, b, y, m, K, u),
         NEW m2, NEW K2, NEW u2,
         m2 = m \/ m2 # c, c \in K2 <=> c \in K,
         \A w \in Caller : ~IsEarly(u2, w, c)
  PROVE  Link(c, s, a, x, n, J, o, b, y, m2, K2, u2)
<1>1. DialledOK(c, s, b, y, m2, K2, u2)
  BY DEF Link, DialledOK, Hears, Heard
<1>2. BothOK(c, a, x, n, o, b, y, m2, K2)
  BY DEF Link, BothOK, Hears, Heard
<1> QED
  BY <1>1, <1>2 DEF Link

\* It handles the end of its stream.
LEMMA DiallerEnds ==
  ASSUME NEW c, NEW s, NEW a \in Active, NEW x \in Seq(Event), NEW n, NEW J, NEW o,
         NEW b, NEW y, NEW m, NEW K, NEW u,
         Link(c, s, a, x, n, J, o, b, y, m, K, u), a.connectionId = c,
         Len(x) > 0, x[1] \in Last, NEW o2, Fewer(c, o, o2)
  PROVE  Link(c, s, a, Tail(x), n, J, o2, b, y, m, K, u)
<1>1. DiallerOK(c, s, a, x, n, J, o) /\ BothOK(c, a, x, n, o, b, y, m, K)
  BY DEF Link
<1>2. Part(x, Tail(x))
  BY DEF Part
<1>3. Len(x) = 1
  <2>1. Handled(a) \in Nat
    BY DEF Handled, Active
  <2>2. Flow(x, Handled(a), "initiator", s)
    BY <1>1 DEF DiallerOK
  <2> QED
    BY <2>1, <2>2, EndIsLast
<1>4. Len(Tail(x)) = 0
  BY <1>3, HeadTailProperties, EmptySeq
<1>5. n # c
  BY <1>1 DEF DiallerOK, Whole
<1>6. Flow(Tail(x), Handled(a), "initiator", s) /\ Void(Tail(x)) /\ NoConnected(Tail(x))
  BY <1>4 DEF Flow, Void, NoConnected
<1>7. DiallerOK(c, s, a, Tail(x), n, J, o2)
  BY <1>1, <1>5, <1>6 DEF DiallerOK, Fewer
<1>8. BothOK(c, a, Tail(x), n, o2, b, y, m, K)
  BY <1>1, <1>5, <1>6 DEF BothOK, Fewer, EarlyOn
<1> QED
  BY <1>7, <1>8 DEF Link

\* The end of its stream reaches the phone that was dialled (handleClosed and
\* handleError): what it has handled counts no more.
LEMMA DialledEnds ==
  ASSUME NEW c, NEW s, NEW a, NEW x, NEW n, NEW J, NEW o,
         NEW b \in Active, NEW y \in Seq(Event), NEW m, NEW K, NEW u,
         Link(c, s, a, x, n, J, o, b, y, m, K, u), b.connectionId = c,
         Len(y) > 0, y[1] \in Last, NEW u2, \A w \in Caller : ~IsEarly(u2, w, c)
  PROVE  Link(c, s, a, x, n, J, o, b, Tail(y), m, K, u2)
<1>1. DialledOK(c, s, b, y, m, K, u) /\ BothOK(c, a, x, n, o, b, y, m, K)
  BY DEF Link
<1>2. Hears(c, b, y, K) /\ Heard(c, b, K) = Handled(b) /\ c \notin K
  BY <1>1 DEF Hears, Heard, DialledOK
<1>3. Len(y) = 1
  <2>1. Handled(b) \in Nat
    BY DEF Handled, Active
  <2>2. Flow(y, Handled(b), "responder", s)
    BY <1>1, <1>2 DEF DialledOK
  <2> QED
    BY <2>1, <2>2, EndIsLast
<1>4. Len(Tail(y)) = 0
  BY <1>3, HeadTailProperties, EmptySeq
<1>5. m # c
  BY <1>1 DEF DialledOK, Whole
<1>6. Flow(Tail(y), Handled(b), "responder", s) /\ \A i \in 2..Len(Tail(y)) : Tail(y)[i] # Connected
  BY <1>4 DEF Flow
<1>7. DialledOK(c, s, b, Tail(y), m, K, u2)
  BY <1>1, <1>2, <1>5, <1>6 DEF DialledOK, Heard
<1>8. BothOK(c, a, x, n, o, b, Tail(y), m, K)
  BY <1>1, <1>2, <1>4, <1>5 DEF BothOK, Heard
<1> QED
  BY <1>7, <1>8 DEF Link

\* Its native connection is lost.
LEMMA DiallerBreaks ==
  ASSUME NEW c, NEW s, NEW a \in Active, NEW x \in Seq(Event), NEW J, NEW o,
         NEW b, NEW y, NEW m, NEW K, NEW u,
         Link(c, s, a, x, c, J, o, b, y, m, K, u),
         NEW k \in 0..Len(x), NEW l \in Last, NEW n2, n2 # c
  PROVE  Link(c, s, a, SubSeq(x, 1, k) \o <<l>>, n2, J, o, b, y, m, K, u)
<1>1. DiallerOK(c, s, a, x, c, J, o) /\ BothOK(c, a, x, c, o, b, y, m, K)
  BY DEF Link
<1>2. Whole(x) /\ NoConnected(x) /\ (Void(x) => Len(x) = 0)
  BY <1>1 DEF DiallerOK, Void, Whole
<1>3. PICK z : z = SubSeq(x, 1, k) \o <<l>>
  OBVIOUS
<1>4. Handled(a) \in Nat
  BY DEF Handled, Active
<1>5. /\ NoConnected(z) /\ (Void(x) => Void(z))
      /\ Flow(x, Handled(a), "initiator", s) => Flow(z, Handled(a), "initiator", s)
  BY <1>2, <1>3, <1>4, FlowCut
<1>6. DiallerOK(c, s, a, z, n2, J, o)
  BY <1>1, <1>5 DEF DiallerOK
<1>7. BothOK(c, a, z, n2, o, b, y, m, K)
  BY <1>1, <1>5 DEF BothOK
<1> QED
  BY <1>3, <1>6, <1>7 DEF Link

\* The connection breaks at the phone that was dialled (EndOfStream, Reset).
LEMMA DialledBreaks ==
  ASSUME NEW c, NEW s, NEW a, NEW x, NEW n, NEW J, NEW o,
         NEW b \in Active, NEW y \in Seq(Event), NEW K, NEW u,
         Link(c, s, a, x, n, J, o, b, y, c, K, u),
         NEW k \in 0..Len(y), NEW l \in Last, NEW m2, m2 # c
  PROVE  Link(c, s, a, x, n, J, o, b, SubSeq(y, 1, k) \o <<l>>, m2, K, u)
<1>1. DialledOK(c, s, b, y, c, K, u) /\ BothOK(c, a, x, n, o, b, y, c, K)
  BY DEF Link
<1>2. Whole(y) /\ c \notin K /\ ~EarlyOn(o, c)
  BY <1>1 DEF DialledOK, BothOK
<1>3. PICK z : z = SubSeq(y, 1, k) \o <<l>>
  OBVIOUS
<1>4. Heard(c, b, K) \in Nat
  BY <1>2 DEF Handled, Active, Heard
<1>5. /\ Len(z) = k + 1 /\ z[k + 1] = l /\ \A i \in 1..k : z[i] = y[i]
      /\ Flow(y, Heard(c, b, K), "responder", s) => Flow(z, Heard(c, b, K), "responder", s)
  BY <1>2, <1>3, <1>4, FlowCut
<1>6. l # Connected
  BY Kinds
<1>7. \A i \in 2..Len(z) : z[i] # Connected
  <2>1. ASSUME NEW i \in 2..Len(z) PROVE z[i] # Connected
    <3>1. CASE i = k + 1
      BY <1>5, <1>6, <3>1
    <3>2. CASE i \in 2..k
      <4>1. i \in 1..k /\ i \in 2..Len(y)
        BY <3>2
      <4> QED
        BY <4>1, <1>5, <1>1 DEF DialledOK
    <3> QED
      BY <1>5, <3>1, <3>2
  <2> QED
    BY <2>1
<1>8. Hears(c, b, z, K) => Hears(c, b, y, K)
  <2>1. CASE Len(z) > 0 /\ z[1] = Connected
    <3>1. k # 0
      BY <1>5, <1>6, <2>1
    <3>2. y[1] = Connected /\ Len(y) > 0
      BY <1>5, <2>1, <3>1
    <3> QED
      BY <3>2 DEF Hears
  <2> QED
    BY <2>1 DEF Hears
<1>9. DialledOK(c, s, b, z, m2, K, u)
  BY <1>1, <1>2, <1>5, <1>7, <1>8 DEF DialledOK
<1>10. BothOK(c, a, x, n, o, b, z, m2, K)
  BY <1>1, <1>2, <1>8 DEF BothOK
<1> QED
  BY <1>3, <1>9, <1>10 DEF Link

\* Keyed, it handles the next sealed message.
LEMMA DiallerReads ==
  ASSUME NEW c, NEW s, NEW a \in Active, NEW x \in Seq(Event), NEW n, NEW J, NEW o,
         NEW b, NEW y, NEW m, NEW K, NEW u,
         Link(c, s, a, x, n, J, o, b, y, m, K, u), a.connectionId = c, a.keyed, Len(x) > 0,
         NEW a2, a2.connectionId = c, a2.keyed, a2.role = a.role, a2.sessionId = a.sessionId,
         a2.nextSendSequence = a.nextSendSequence, a2.lastSequence = a.lastSequence + 1,
         NEW o2, Fewer(c, o, o2)
  PROVE  Link(c, s, a2, Tail(x), n, J, o2, b, y, m, K, u)
<1>1. DiallerOK(c, s, a, x, n, J, o) /\ BothOK(c, a, x, n, o, b, y, m, K)
  BY DEF Link
<1>2. Part(x, Tail(x)) /\ Len(Tail(x)) = Len(x) - 1
  BY HeadTailProperties, EmptySeq DEF Part
<1>3. ~EarlyOn(o, c) /\ ~EarlyOn(o2, c)
  BY <1>1 DEF DiallerOK, Fewer, EarlyOn
<1>4. Handled(a) \in Nat /\ Handled(a2) = Handled(a) + 1
  BY DEF Handled, Active
<1>5. Flow(Tail(x), Handled(a2), "initiator", s)
  BY <1>1, <1>4, FlowTail DEF DiallerOK
<1>6. NoConnected(Tail(x)) /\ (Whole(x) => Whole(Tail(x)))
  BY <1>1, <1>2, PartIs DEF DiallerOK
<1>7. DiallerOK(c, s, a2, Tail(x), n, J, o2)
  BY <1>1, <1>3, <1>5, <1>6 DEF DiallerOK, EarlyOn
<1>8. Said(c, a2, o2) = Said(c, a, o)
  BY DEF Said
<1>9. ~(Hears(c, b, y, K) /\ Heard(c, b, K) < 2)
  BY <1>1 DEF BothOK
<1>10. n = c /\ m = c /\ b.connectionId = c =>
         Handled(a2) + Len(Tail(x)) = IF b.keyed THEN 1 + b.nextSendSequence ELSE 1
  <2>1. Handled(a2) + Len(Tail(x)) = Handled(a) + Len(x)
    BY <1>2, <1>4
  <2> QED
    BY <2>1, <1>1 DEF BothOK
<1>11. BothOK(c, a2, Tail(x), n, o2, b, y, m, K)
  BY <1>1, <1>3, <1>8, <1>9, <1>10 DEF BothOK
<1> QED
  BY <1>7, <1>11 DEF Link

\* The phone that was dialled handles a sealed message (handleFrame).
LEMMA DialledReads ==
  ASSUME NEW c, NEW s, NEW a, NEW x, NEW n, NEW J, NEW o,
         NEW b \in Active, NEW y \in Seq(Event), NEW m, NEW K, NEW u,
         Link(c, s, a, x, n, J, o, b, y, m, K, u), b.connectionId = c, b.keyed, Len(y) > 0,
         NEW b2, b2.connectionId = c, b2.keyed, b2.role = b.role, b2.sessionId = b.sessionId,
         b2.nextSendSequence = b.nextSendSequence, b2.lastSequence = b.lastSequence + 1,
         NEW u2, \A w \in Caller : ~IsEarly(u2, w, c)
  PROVE  Link(c, s, a, x, n, J, o, b2, Tail(y), m, K, u2)
<1>1. DialledOK(c, s, b, y, m, K, u) /\ BothOK(c, a, x, n, o, b, y, m, K)
  BY DEF Link
<1>2. Part(y, Tail(y)) /\ Len(Tail(y)) = Len(y) - 1
  BY HeadTailProperties, EmptySeq DEF Part
<1>3. c \notin K /\ Hears(c, b, y, K) /\ Hears(c, b2, Tail(y), K)
  BY <1>1 DEF DialledOK, Hears
<1>4. /\ Handled(b) \in Nat /\ Handled(b2) = Handled(b) + 1 /\ Handled(b) >= 2
      /\ Heard(c, b, K) = Handled(b) /\ Heard(c, b2, K) = Handled(b2)
  BY <1>3 DEF Handled, Heard, Active
<1>5. Flow(Tail(y), Handled(b2), "responder", s)
  BY <1>1, <1>3, <1>4, FlowTail DEF DialledOK
<1>6. (\A i \in 2..Len(Tail(y)) : Tail(y)[i] # Connected) /\ (Whole(y) => Whole(Tail(y)))
  BY <1>1, <1>2, PartIs DEF DialledOK
<1>7. DialledOK(c, s, b2, Tail(y), m, K, u2)
  BY <1>1, <1>3, <1>4, <1>5, <1>6 DEF DialledOK
<1>8. ~EarlyOn(o, c)
  BY <1>1 DEF BothOK
<1>9. Heard(c, b2, K) + Len(Tail(y)) = Heard(c, b, K) + Len(y) /\ ~(Heard(c, b2, K) < 2)
  BY <1>2, <1>4
<1>10. BothOK(c, a, x, n, o, b2, Tail(y), m, K)
  BY <1>1, <1>3, <1>8, <1>9 DEF BothOK
<1> QED
  BY <1>7, <1>10 DEF Link

\* The initiator handles the hello2 that answers its hello.
LEMMA DiallerKeyed ==
  ASSUME NEW c, NEW s, NEW a \in Active, NEW x \in Seq(Event), NEW n, NEW J, NEW o,
         NEW b, NEW y, NEW m, NEW K, NEW u,
         Link(c, s, a, x, n, J, o, b, y, m, K, u), a.connectionId = c, ~a.keyed,
         a.nextSendSequence = 1, a.lastSequence = 0, Len(x) > 0, x[1] \notin Last,
         NEW a2, a2.connectionId = c, a2.keyed, a2.role = a.role, a2.sessionId = a.sessionId,
         a2.nextSendSequence = 1, a2.lastSequence = 0, NEW o2, Fewer(c, o, o2)
  PROVE  Link(c, s, a2, Tail(x), n, J, o2, b, y, m, K, u)
<1>1. DiallerOK(c, s, a, x, n, J, o) /\ BothOK(c, a, x, n, o, b, y, m, K)
  BY DEF Link
<1>2. Part(x, Tail(x)) /\ Len(Tail(x)) = Len(x) - 1
  BY HeadTailProperties, EmptySeq DEF Part
<1>3. ~Void(x)
  BY DEF Void
<1>4. ~EarlyOn(o, c) /\ ~EarlyOn(o2, c)
  BY <1>1, <1>3 DEF DiallerOK, Fewer, EarlyOn
<1>5. Handled(a) = 1 /\ Handled(a2) = 2
  BY DEF Handled
<1>6. Flow(Tail(x), Handled(a2), "initiator", s)
  <2>1. Flow(x, 1, "initiator", s)
    BY <1>1, <1>5 DEF DiallerOK
  <2>2. Flow(Tail(x), 1 + 1, "initiator", s)
    BY <2>1, FlowTail
  <2> QED
    BY <2>2, <1>5
<1>7. NoConnected(Tail(x)) /\ (Whole(x) => Whole(Tail(x)))
  BY <1>1, <1>2, PartIs DEF DiallerOK
<1>8. DiallerOK(c, s, a2, Tail(x), n, J, o2)
  BY <1>1, <1>4, <1>6, <1>7 DEF DiallerOK, EarlyOn
<1>9. Said(c, a, o) = 2 /\ Said(c, a2, o2) = 2
  BY <1>1, <1>4 DEF Said, DiallerOK
<1>10. ~(Hears(c, b, y, K) /\ Heard(c, b, K) < 2)
  BY <1>1, <1>3 DEF BothOK
<1>11. n = c /\ m = c /\ b.connectionId = c =>
         Handled(a2) + Len(Tail(x)) = IF b.keyed THEN 1 + b.nextSendSequence ELSE 1
  <2>1. Handled(a2) + Len(Tail(x)) = Handled(a) + Len(x)
    BY <1>2, <1>5
  <2> QED
    BY <2>1, <1>1 DEF BothOK
<1>12. BothOK(c, a2, Tail(x), n, o2, b, y, m, K)
  BY <1>1, <1>4, <1>9, <1>10, <1>11 DEF BothOK
<1> QED
  BY <1>8, <1>12 DEF Link

\* The phone that was dialled handles "connected".
LEMMA DialledConnects ==
  ASSUME NEW c, NEW s, NEW a, NEW x \in Seq(Event), NEW n, NEW J, NEW o,
         NEW b, NEW y \in Seq(Event), NEW m, NEW K, NEW u,
         Link(c, s, a, x, n, J, o, b, y, m, K, u), b.connectionId # c, c \notin K,
         Len(y) > 0, y[1] = Connected,
         NEW b2, b2.connectionId = c, ~b2.keyed, b2.role = "responder",
         NEW u2, \A w \in Caller : ~IsEarly(u2, w, c)
  PROVE  Link(c, s, a, x, n, J, o, b2, Tail(y), m, K, u2)
<1>1. DiallerOK(c, s, a, x, n, J, o) /\ DialledOK(c, s, b, y, m, K, u) /\ BothOK(c, a, x, n, o, b, y, m, K)
  BY DEF Link
<1>2. Part(y, Tail(y)) /\ Len(Tail(y)) = Len(y) - 1
  BY HeadTailProperties, EmptySeq DEF Part
<1>3. /\ Hears(c, b, y, K) /\ Heard(c, b, K) = 0
      /\ Hears(c, b2, Tail(y), K) /\ Heard(c, b2, K) = 1
  BY DEF Hears, Heard, Handled
<1>4. Flow(Tail(y), 1, "responder", s)
  <2>1. Flow(y, 0, "responder", s)
    BY <1>1, <1>3 DEF DialledOK
  <2>2. Flow(Tail(y), 0 + 1, "responder", s)
    BY <2>1, FlowTail
  <2> QED
    BY <2>2
<1>5. (\A i \in 2..Len(Tail(y)) : Tail(y)[i] # Connected) /\ (Whole(y) => Whole(Tail(y)))
  BY <1>1, <1>2, PartIs DEF DialledOK
<1>6. DialledOK(c, s, b2, Tail(y), m, K, u2)
  BY <1>1, <1>3, <1>4, <1>5 DEF DialledOK
<1>7. ~EarlyOn(o, c)
  BY <1>1 DEF BothOK
<1>8. a.connectionId = c => ~a.keyed /\ Void(x)
  BY <1>1, <1>3 DEF BothOK
<1>9. n = c /\ a.connectionId = c => Handled(a) + Len(x) = 1
  <2>1. CASE n = c /\ a.connectionId = c
    <3>1. Whole(x) /\ Void(x) /\ Handled(a) = 1
      BY <1>1, <1>8, <2>1 DEF DiallerOK, Handled
    <3>2. Len(x) = 0
      BY <3>1 DEF Whole, Void
    <3> QED
      BY <3>1, <3>2
  <2> QED
    BY <2>1
<1>10. n = c /\ a.connectionId = c /\ m = c => 1 + Len(Tail(y)) = Said(c, a, o)
  <2>1. 1 + Len(Tail(y)) = 0 + Len(y)
    BY <1>2
  <2> QED
    BY <2>1, <1>1, <1>3 DEF BothOK
<1>11. BothOK(c, a, x, n, o, b2, Tail(y), m, K)
  BY <1>3, <1>7, <1>8, <1>9, <1>10 DEF BothOK
<1> QED
  BY <1>1, <1>6, <1>11 DEF Link

\* The responder answers the initiator's hello.
LEMMA DialledAnswers ==
  ASSUME NEW c, NEW s, s \in SessionOrNone, NEW a, NEW x \in Seq(Event), NEW n, NEW J, NEW o,
         NEW b, NEW y \in Seq(Event), NEW K, NEW u,
         Link(c, s, a, x, n, J, o, b, y, c, K, u), b.connectionId = c, ~b.keyed,
         Len(y) > 0,
         NEW b2, b2.connectionId = c, b2.keyed, b2.role = b.role, b2.sessionId = s,
         b2.nextSendSequence = 1, b2.lastSequence = 0,
         NEW u2, \A w \in Caller : ~IsEarly(u2, w, c),
         NEW x2, x2 = IF n = c \/ c \in J THEN x \o <<Hello2(s)>> ELSE x
  PROVE  Link(c, s, a, x2, n, J, o, b2, Tail(y), c, K, u2)
<1>1. DiallerOK(c, s, a, x, n, J, o) /\ DialledOK(c, s, b, y, c, K, u) /\ BothOK(c, a, x, n, o, b, y, c, K)
  BY DEF Link
<1>2. Part(y, Tail(y)) /\ Len(Tail(y)) = Len(y) - 1
  BY HeadTailProperties, EmptySeq DEF Part
<1>3. /\ Hears(c, b, y, K) /\ Heard(c, b, K) = 1 /\ c \notin K
      /\ Hears(c, b2, Tail(y), K) /\ Heard(c, b2, K) = 2
  BY <1>1 DEF DialledOK, Hears, Heard, Handled
<1>4. Flow(Tail(y), 2, "responder", s)
  <2>1. Flow(y, 1, "responder", s)
    BY <1>1, <1>3 DEF DialledOK
  <2>2. Flow(Tail(y), 1 + 1, "responder", s)
    BY <2>1, FlowTail
  <2> QED
    BY <2>2
<1>5. (\A i \in 2..Len(Tail(y)) : Tail(y)[i] # Connected) /\ (Whole(y) => Whole(Tail(y)))
  BY <1>1, <1>2, PartIs DEF DialledOK
<1>6. DialledOK(c, s, b2, Tail(y), c, K, u2)
  BY <1>1, <1>3, <1>4, <1>5 DEF DialledOK
<1>7. ~EarlyOn(o, c)
  BY <1>1 DEF BothOK
<1>8. a.connectionId = c => ~a.keyed /\ Void(x)
  BY <1>1, <1>3 DEF BothOK
<1>9. CASE n # c
  <2>1. x2 = x
    BY <1>1, <1>9 DEF DiallerOK
  <2>2. BothOK(c, a, x, n, o, b2, Tail(y), c, K)
    BY <1>3, <1>7, <1>8, <1>9 DEF BothOK
  <2> QED
    BY <1>1, <1>6, <2>1, <2>2 DEF Link
<1>10. CASE n = c
  <2>1. x2 = x \o <<Hello2(s)>> /\ Hello2(s) \in Event
    BY <1>10 DEF Hello2, Event
  <2>2. Whole(x) /\ NoConnected(x)
    BY <1>1, <1>10 DEF DiallerOK
  <2>3. /\ Len(x2) = Len(x) + 1
        /\ \A i \in 1..Len(x) : x2[i] = x[i]
        /\ x2[Len(x) + 1] = Hello2(s)
    BY <2>1, ConcatProperties
  <2>4. Hello2(s) # Connected /\ Hello2(s) \notin Last
    BY Kinds
  <2>5. Whole(x2) /\ NoConnected(x2)
    BY <2>2, <2>3, <2>4 DEF Whole, NoConnected
  <2>6. a.connectionId = c => Len(x) = 0 /\ Handled(a) = 1
    BY <1>8, <2>2 DEF Whole, Void, Handled
  <2>7. a.connectionId = c => Flow(x2, Handled(a), "initiator", s)
    BY <2>3, <2>6 DEF Flow, IsNth
  <2>8. DiallerOK(c, s, a, x2, n, J, o)
    BY <1>1, <1>7, <2>5, <2>7 DEF DiallerOK, EarlyOn
  <2>9. a.connectionId = c => 2 + Len(Tail(y)) = Said(c, a, o)
    <3>1. 2 + Len(Tail(y)) = 1 + Len(y)
      BY <1>2
    <3> QED
      BY <3>1, <1>1, <1>3, <1>10 DEF BothOK
  <2>10. BothOK(c, a, x2, n, o, b2, Tail(y), c, K)
    BY <1>3, <1>7, <2>3, <2>6, <2>9 DEF BothOK
  <2> QED
    BY <1>6, <2>8, <2>10 DEF Link
<1> QED
  BY <1>9, <1>10

\* The n-th message of session s reaches the other end of c, if it receives.
Gets(c, y, y2, m, K, s, n, body) ==
  y2 = IF m = c \/ c \in K THEN y \o <<Sealed(s, n, body)>> ELSE y

\* A phone sends a sealed message.
LEMMA DiallerSends ==
  ASSUME NEW c, NEW s, s \in SessionOrNone, NEW a \in Active, NEW x, NEW J, NEW o,
         NEW b \in Active, NEW y \in Seq(Event), NEW m, NEW K, NEW u,
         Link(c, s, a, x, c, J, o, b, y, m, K, u), a.connectionId = c, a.keyed, NEW body \in Body,
         NEW a2, a2.connectionId = c, a2.keyed, a2.role = a.role, a2.sessionId = a.sessionId,
         a2.nextSendSequence = a.nextSendSequence + 1, a2.lastSequence = a.lastSequence,
         NEW o2, Fewer(c, o, o2),
         NEW y2, Gets(c, y, y2, m, K, s, a.nextSendSequence, body)
  PROVE  Link(c, s, a2, x, c, J, o2, b, y2, m, K, u)
<1>1. DiallerOK(c, s, a, x, c, J, o) /\ DialledOK(c, s, b, y, m, K, u) /\ BothOK(c, a, x, c, o, b, y, m, K)
  BY DEF Link
<1>2. ~EarlyOn(o, c) /\ ~EarlyOn(o2, c)
  BY <1>1 DEF DiallerOK, Fewer, EarlyOn
<1>3. Handled(a2) = Handled(a)
  BY DEF Handled
<1>4. DiallerOK(c, s, a2, x, c, J, o2)
  BY <1>1, <1>2, <1>3 DEF DiallerOK, EarlyOn
<1>5. Hears(c, b, y, K) => Heard(c, b, K) >= 2 /\ Heard(c, b, K) \in Nat
  <2>1. Heard(c, b, K) \in Nat
    BY DEF Heard, Handled, Active
  <2> QED
    BY <2>1, <1>1 DEF BothOK
<1>6. c \notin K
  BY <1>5 DEF Hears, Heard
<1>7. a.nextSendSequence \in Nat
  BY DEF Active
<1>8. CASE m # c
  <2>1. y2 = y
    BY <1>6, <1>8 DEF Gets
  <2>2. BothOK(c, a2, x, c, o2, b, y, m, K)
    BY <1>1, <1>2, <1>5, <1>6, <1>8 DEF BothOK
  <2> QED
    BY <1>1, <1>4, <2>1, <2>2 DEF Link
<1>9. CASE m = c
  <2>1. PICK e : e = Sealed(s, a.nextSendSequence, body)
    OBVIOUS
  <2>2. /\ e \in Event /\ e.kind = "sealed" /\ e.sessionId = s /\ e.sequence = a.nextSendSequence
        /\ y2 = y \o <<e>>
    BY <1>7, <1>9, <2>1 DEF Sealed, Event, Gets
  <2>3. /\ y2 \in Seq(Event) /\ Len(y2) = Len(y) + 1
        /\ \A i \in 1..Len(y) : y2[i] = y[i]
        /\ y2[Len(y) + 1] = e
    BY <2>2, ConcatProperties
  <2>4. e # Connected /\ e \notin Last
    BY <2>2, Kinds
  <2>5. Whole(y2) /\ \A i \in 2..Len(y2) : y2[i] # Connected
    <3>1. Whole(y) /\ \A i \in 2..Len(y) : y[i] # Connected
      BY <1>1, <1>9 DEF DialledOK
    <3> QED
      BY <3>1, <2>3, <2>4 DEF Whole
  <2>6. Hears(c, b, y2, K) => Hears(c, b, y, K)
    <3>1. Len(y2) > 0 /\ y2[1] = Connected => Len(y) > 0 /\ y[1] = Connected
      BY <2>3, <2>4
    <3> QED
      BY <3>1 DEF Hears
  <2>7. Hears(c, b, y, K) => Heard(c, b, K) + Len(y) = 1 + a.nextSendSequence
    BY <1>1, <1>9 DEF BothOK, Said
  <2>8. Hears(c, b, y2, K) => Flow(y2, Heard(c, b, K), "responder", s)
    <3>1. CASE Hears(c, b, y2, K)
      <4>1. Heard(c, b, K) + Len(y) + 1 >= 3 /\ (Heard(c, b, K) + Len(y) + 1) - 2 = a.nextSendSequence
        BY <1>5, <1>7, <2>6, <2>7, <3>1
      <4>2. IsNth(e, Heard(c, b, K) + Len(y) + 1, "responder", s)
        BY <2>2, <4>1 DEF IsNth
      <4>3. Flow(y, Heard(c, b, K), "responder", s) /\ Whole(y)
        BY <1>1, <1>9, <2>6, <3>1 DEF DialledOK
      <4> QED
        BY <1>5, <2>2, <2>6, <3>1, <4>2, <4>3, FlowSent
    <3> QED
      BY <3>1
  <2>9. DialledOK(c, s, b, y2, m, K, u)
    BY <1>1, <1>6, <2>5, <2>8 DEF DialledOK
  <2>10. Hears(c, b, y2, K) => Heard(c, b, K) + Len(y2) = Said(c, a2, o2)
    <3>1. Said(c, a2, o2) = 1 + (a.nextSendSequence + 1)
      BY DEF Said
    <3>2. Len(y) \in Nat
      OBVIOUS
    <3> QED
      BY <3>1, <3>2, <1>5, <1>7, <2>3, <2>6, <2>7
  <2>11. BothOK(c, a2, x, c, o2, b, y2, m, K)
    BY <1>1, <1>2, <1>3, <1>5, <1>6, <2>6, <2>10 DEF BothOK
  <2> QED
    BY <1>4, <2>9, <2>11 DEF Link
<1> QED
  BY <1>8, <1>9

\* The phone that was dialled sends a sealed message (send).
LEMMA DialledSends ==
  ASSUME NEW c, NEW s, s \in SessionOrNone, NEW a \in Active, NEW x \in Seq(Event), NEW n, NEW J, NEW o,
         NEW b \in Active, NEW y, NEW K, NEW u,
         Link(c, s, a, x, n, J, o, b, y, c, K, u), b.connectionId = c, b.keyed,
         b.nextSendSequence > 0, NEW body \in Body,
         NEW b2, b2.connectionId = c, b2.keyed, b2.role = b.role, b2.sessionId = b.sessionId,
         b2.nextSendSequence = b.nextSendSequence + 1, b2.lastSequence = b.lastSequence,
         NEW u2, \A w \in Caller : ~IsEarly(u2, w, c),
         NEW x2, Gets(c, x, x2, n, J, s, b.nextSendSequence, body)
  PROVE  Link(c, s, a, x2, n, J, o, b2, y, c, K, u2)
<1>1. DiallerOK(c, s, a, x, n, J, o) /\ DialledOK(c, s, b, y, c, K, u) /\ BothOK(c, a, x, n, o, b, y, c, K)
  BY DEF Link
<1>2. ~EarlyOn(o, c)
  BY <1>1 DEF BothOK
<1>3. Handled(b2) = Handled(b)
  BY DEF Handled
<1>4. /\ Hears(c, b, y, K) /\ Hears(c, b2, y, K) /\ c \notin K
      /\ Heard(c, b2, K) = Heard(c, b, K)
  BY <1>1, <1>3 DEF DialledOK, Hears, Heard
<1>5. DialledOK(c, s, b2, y, c, K, u2)
  BY <1>1, <1>4 DEF DialledOK
<1>6. b.nextSendSequence \in Nat
  BY DEF Active
<1>7. CASE n # c
  <2>1. x2 = x
    BY <1>1, <1>7 DEF DiallerOK, Gets
  <2>2. BothOK(c, a, x, n, o, b2, y, c, K)
    BY <1>1, <1>2, <1>4, <1>7 DEF BothOK
  <2> QED
    BY <1>1, <1>5, <2>1, <2>2 DEF Link
<1>8. CASE n = c
  <2>1. PICK e : e = Sealed(s, b.nextSendSequence, body)
    OBVIOUS
  <2>2. /\ e \in Event /\ e.kind = "sealed" /\ e.sessionId = s /\ e.sequence = b.nextSendSequence
        /\ x2 = x \o <<e>>
    BY <1>6, <1>8, <2>1 DEF Sealed, Event, Gets
  <2>3. /\ x2 \in Seq(Event) /\ Len(x2) = Len(x) + 1
        /\ \A i \in 1..Len(x) : x2[i] = x[i]
        /\ x2[Len(x) + 1] = e
    BY <2>2, ConcatProperties
  <2>4. e # Connected /\ e \notin Last
    BY <2>2, Kinds
  <2>5. Whole(x) /\ Whole(x2) /\ NoConnected(x2)
    <3>1. Whole(x) /\ NoConnected(x)
      BY <1>1, <1>8 DEF DiallerOK
    <3> QED
      BY <3>1, <2>3, <2>4 DEF Whole, NoConnected
  <2>6. Handled(a) \in Nat
    BY DEF Handled, Active
  <2>7. a.connectionId = c => Handled(a) + Len(x) = 1 + b.nextSendSequence
    BY <1>1, <1>8 DEF BothOK
  <2>8. a.connectionId = c => Flow(x2, Handled(a), "initiator", s)
    <3>1. CASE a.connectionId = c
      <4>1. Handled(a) + Len(x) + 1 >= 3 /\ (Handled(a) + Len(x) + 1) - 2 = b.nextSendSequence
        BY <1>6, <2>6, <2>7, <3>1
      <4>2. IsNth(e, Handled(a) + Len(x) + 1, "initiator", s)
        BY <2>2, <4>1 DEF IsNth
      <4>3. Flow(x, Handled(a), "initiator", s)
        BY <1>1, <3>1 DEF DiallerOK
      <4> QED
        BY <2>2, <2>5, <2>6, <4>2, <4>3, FlowSent
    <3> QED
      BY <3>1
  <2>9. DiallerOK(c, s, a, x2, n, J, o)
    BY <1>1, <1>2, <2>5, <2>8 DEF DiallerOK, EarlyOn
  <2>10. a.connectionId = c => Handled(a) + Len(x2) = 1 + b2.nextSendSequence
    BY <1>6, <2>3, <2>6, <2>7
  <2>11. ~(Heard(c, b, K) < 2)
    BY <1>4 DEF Heard, Handled, Active
  <2>12. BothOK(c, a, x2, n, o, b2, y, c, K)
    BY <1>1, <1>2, <1>4, <2>10, <2>11 DEF BothOK
  <2> QED
    BY <1>5, <2>9, <2>12 DEF Link
<1> QED
  BY <1>7, <1>8

\* The initiator takes the connection it dialled for its active one.
LEMMA DiallerAdopts ==
  ASSUME NEW c, NEW s, NEW a, NEW x, NEW n, NEW J, NEW o, NEW b, NEW y, NEW m, NEW K, NEW u,
         Link(c, s, a, x, n, J, o, b, y, m, K, u),
         NEW w \in Caller, o[w].step = "dialled", o[w].connectionId = c,
         \A v \in Caller : IsEarly(o, v, c) => v = w,
         NEW a2, a2.connectionId = c, ~a2.keyed, a2.role = "initiator", a2.sessionId = o[w].sessionId,
         NEW o2, o2[w].step = "adopted", o2[w].connectionId = c, o2[w].sessionId = o[w].sessionId,
         \A v \in Caller \ {w} : o2[v] = o[v]
  PROVE  Link(c, s, a2, x, n, J, o2, b, y, m, K, u)
<1>1. DiallerOK(c, s, a, x, n, J, o) /\ DialledOK(c, s, b, y, m, K, u) /\ BothOK(c, a, x, n, o, b, y, m, K)
  BY DEF Link
<1>2. IsEarly(o, w, c) /\ IsEarly(o2, w, c) /\ \A v \in Caller : IsEarly(o2, v, c) => v = w
  BY DEF IsEarly, Early
<1>3. Void(x) /\ o[w].sessionId = s /\ Handled(a2) = 1
  BY <1>1, <1>2 DEF DiallerOK, Handled
<1>4. Flow(x, 1, "initiator", s)
  BY <1>3 DEF Void, Flow
<1>5. DiallerOK(c, s, a2, x, n, J, o2)
  BY <1>1, <1>2, <1>3, <1>4 DEF DiallerOK
<1>6. EarlyOn(o, c) /\ EarlyOn(o2, c)
  BY <1>2 DEF EarlyOn
<1>7. Len(y) = 0 /\ m # c /\ b.connectionId # c
  BY <1>1, <1>6 DEF BothOK
<1>8. c \in K => Heard(c, b, K) + Len(y) = Said(c, a2, o2)
  BY <1>6, <1>7 DEF Heard, Said
<1>9. BothOK(c, a2, x, n, o2, b, y, m, K)
  BY <1>3, <1>6, <1>7, <1>8 DEF BothOK
<1> QED
  BY <1>1, <1>5, <1>9 DEF Link

\* The initiator sends its hello.
LEMMA DiallerGreets ==
  ASSUME NEW c, NEW s, s \in SessionOrNone, NEW a, NEW x, NEW n, NEW J, NEW o,
         NEW b, NEW y \in Seq(Event), NEW m, NEW K, NEW u,
         Link(c, s, a, x, n, J, o, b, y, m, K, u), EarlyOn(o, c),
         NEW o2, ~EarlyOn(o2, c),
         NEW y2, y2 = IF m = c \/ c \in K THEN y \o <<Hello1(s)>> ELSE y
  PROVE  Link(c, s, a, x, n, J, o2, b, y2, m, K, u)
<1>1. DiallerOK(c, s, a, x, n, J, o) /\ DialledOK(c, s, b, y, m, K, u) /\ BothOK(c, a, x, n, o, b, y, m, K)
  BY DEF Link
<1>2. /\ Len(y) = 0 /\ m # c /\ b.connectionId # c /\ Void(x)
      /\ a.connectionId = c => ~a.keyed /\ a.role = "initiator"
  BY <1>1 DEF DiallerOK, BothOK, EarlyOn
<1>3. DiallerOK(c, s, a, x, n, J, o2)
  BY <1>1 DEF DiallerOK, EarlyOn
<1>4. CASE c \notin K
  <2>1. y2 = y
    BY <1>2, <1>4
  <2>2. BothOK(c, a, x, n, o2, b, y, m, K)
    BY <1>2, <1>4 DEF BothOK
  <2> QED
    BY <1>1, <1>3, <2>1, <2>2 DEF Link
<1>5. CASE c \in K
  <2>1. Hello1(s) \in Event /\ Hello1(s) # Connected /\ Hello1(s) \notin Last
    BY Kinds DEF Hello1, Event
  <2>2. y2 = y \o <<Hello1(s)>>
    BY <1>5
  <2>3. Len(y2) = 1 /\ y2[1] = Hello1(s)
    BY <1>2, <2>1, <2>2, ConcatProperties
  <2>4. Heard(c, b, K) = 1 /\ Hears(c, b, y, K)
    BY <1>5 DEF Heard, Hears
  <2>5. Whole(y2) /\ Flow(y2, 1, "responder", s)
    BY <2>1, <2>3 DEF Whole, Flow, IsNth
  <2>6. DialledOK(c, s, b, y2, m, K, u)
    BY <1>1, <1>2, <2>3, <2>4, <2>5 DEF DialledOK
  <2>7. a.connectionId = c => Said(c, a, o2) = 2
    BY <1>2 DEF Said
  <2>8. BothOK(c, a, x, n, o2, b, y2, m, K)
    BY <1>2, <2>3, <2>4, <2>7 DEF BothOK
  <2> QED
    BY <1>3, <2>6, <2>8 DEF Link
<1> QED
  BY <1>4, <1>5

\* classifyInbound hands the socket to the phone that was dialled.
LEMMA DialledClassifies ==
  ASSUME NEW c, NEW s, NEW a, NEW x, NEW n, NEW J, NEW o,
         NEW b, NEW y \in Seq(Event), NEW m, NEW K, NEW u,
         Link(c, s, a, x, n, J, o, b, y, m, K, u), c \in K, Len(y) > 0
  PROVE  /\ Link(c, s, a, x, n, J, o, b, <<Connected>> \o y, c, K \ {c}, u)
         /\ <<Connected>> \o y \in Seq(Event)
<1>1. DiallerOK(c, s, a, x, n, J, o) /\ DialledOK(c, s, b, y, m, K, u) /\ BothOK(c, a, x, n, o, b, y, m, K)
  BY DEF Link
<1>2. /\ Hears(c, b, y, K) /\ Heard(c, b, K) = 1 /\ b.connectionId # c
      /\ Heard(c, b, K \ {c}) = 0
  BY <1>1 DEF DialledOK, Hears, Heard
<1>3. Len(y) = 1 /\ Whole(y) /\ Flow(y, 1, "responder", s)
  <2>1. Len(y) <= 1 /\ Whole(y)
    BY <1>1 DEF DialledOK
  <2>2. Flow(y, Heard(c, b, K), "responder", s)
    BY <1>1, <1>2 DEF DialledOK
  <2>3. Len(y) = 1
    <3>1. Len(y) \in Nat
      OBVIOUS
    <3>2. PICK k \in Nat : k = Len(y)
      BY <3>1
    <3>3. k <= 1 /\ k > 0
      BY <2>1, <3>2
    <3>4. k = 1
      BY <3>3
    <3> QED
      BY <3>2, <3>4
  <2>4. Flow(y, 1, "responder", s)
    BY <1>2, <2>2
  <2> QED
    BY <2>1, <2>3, <2>4
<1>4. PICK z : z = <<Connected>> \o y
  OBVIOUS
<1>5. Connected \in Event /\ Connected \notin Last
  BY Kinds DEF Connected, Event
<1>6. z \in Seq(Event) /\ Len(z) = 2 /\ z[1] = Connected /\ z[2] = y[1]
  <2>1. <<Connected>> \in Seq(Event) /\ Len(<<Connected>>) = 1 /\ <<Connected>>[1] = Connected
    BY <1>5
  <2>2. /\ z \in Seq(Event) /\ Len(z) = 1 + Len(y)
        /\ \A i \in 1..1 + Len(y) : z[i] = IF i <= 1 THEN <<Connected>>[i] ELSE y[i - 1]
    BY <1>4, <2>1, ConcatProperties
  <2> QED
    BY <1>3, <2>1, <2>2
<1>7. IsNth(y[1], 2, "responder", s) /\ y[1] \notin Last /\ y[1] # Connected
  <2>1. IsNth(y[1], 1 + 1, "responder", s)
    BY <1>3 DEF Flow, Whole
  <2>2. IsNth(y[1], 2, "responder", s)
    BY <2>1
  <2> QED
    BY <2>2, NthKinds
<1>8. Flow(z, 0, "responder", s) /\ Whole(z) /\ \A i \in 2..Len(z) : z[i] # Connected
  <2>1. IsNth(z[1], 0 + 1, "responder", s) /\ IsNth(z[2], 0 + 2, "responder", s)
    BY <1>6, <1>7 DEF IsNth
  <2>2. \A i \in 1..Len(z) : i = 1 \/ i = 2
    BY <1>6
  <2> QED
    BY <1>5, <1>6, <1>7, <2>1, <2>2 DEF Flow, Whole
<1>9. DialledOK(c, s, b, z, c, K \ {c}, u)
  BY <1>1, <1>2, <1>8 DEF DialledOK
<1>10. ~EarlyOn(o, c)
  BY <1>1, <1>3 DEF BothOK
<1>11. a.connectionId = c => ~a.keyed /\ Void(x)
  BY <1>1, <1>2 DEF BothOK
<1>12. n = c /\ a.connectionId = c => 0 + Len(z) = Said(c, a, o)
  <2>1. 0 + Len(z) = 1 + Len(y)
    BY <1>3, <1>6
  <2> QED
    BY <2>1, <1>1, <1>2 DEF BothOK
<1>13. BothOK(c, a, x, n, o, b, z, c, K \ {c})
  BY <1>2, <1>10, <1>11, <1>12 DEF BothOK
<1> QED
  BY <1>1, <1>4, <1>6, <1>9, <1>13 DEF Link

\* A connection is dialled.
LEMMA Dialled ==
  ASSUME NEW c, NEW s, NEW a, NEW x, Len(x) = 0, NEW J, NEW o, NEW b, NEW y, Len(y) = 0, NEW m, NEW K, NEW u,
         a.connectionId # c, b.connectionId # c, m # c, c \notin J, c \in K,
         \A w \in Caller : ~IsEarly(u, w, c),
         \A w \in Caller : IsEarly(o, w, c) => o[w].sessionId = s
  PROVE  Link(c, s, a, x, c, J, o, b, y, m, K, u)
<1>1. DiallerOK(c, s, a, x, c, J, o)
  BY DEF DiallerOK, NoConnected, Whole, Void
<1>2. DialledOK(c, s, b, y, m, K, u)
  BY DEF DialledOK, Whole, Flow
<1>3. BothOK(c, a, x, c, o, b, y, m, K)
  BY DEF BothOK
<1> QED
  BY <1>1, <1>2, <1>3 DEF Link
-----------------------------------------------------------------------------
(***************************************************************************)
(* Outcomes of operations.                                                 *)
(***************************************************************************)
News == {"authenticated", "reconnected", "error", "closed"}
Notice == [type : News \cup {"message"}, sessionId : SessionOrNone, body : Body \cup News]

Outcome == [ctl : Control, drop : SUBSET Nat, connect : {"pending", "resolve", "reject"},
            wire : Nat, frames : Seq(Event), emit : Seq(Notice), told : SessionOrNone]

\* Nothing is sent, and only connections of D are closed.
Loose(o, D, context) ==
  /\ o \in Outcome /\ ControlOK(o.ctl, lastConn)
  /\ o.wire = 0 /\ o.frames = <<>> /\ o.ctl.context = context /\ o.drop \subseteq D

\* The active connection a is kept, or it is let go.
Gentle(o, a, D, context) ==
  /\ Loose(o, D, context)
  /\ \/ o.ctl.active = a /\ o.drop = {} /\ o.connect = "pending"
     \/ o.ctl.active = NoActive

\* The bounds are numbers, and no session is the session 0.
LEMMA Bounds == MaxConn \in Nat /\ MaxSession \in Nat /\ MaxTries \in Nat /\ 0 \in SessionOrNone
  BY BoundAssumption DEF SessionOrNone

\* A phone without a connection (NO_ACTIVE) is typed.
LEMMA NoActiveOK == ASSUME NEW l \in Nat PROVE ActiveOK(NoActive, l)
  BY Bounds DEF ActiveOK, NoActive, Active, Role, SessionOrNone

\* Fields of the control session change that are not the active connection.
LEMMA ControlStays ==
  ASSUME NEW x, NEW l, ControlOK(x, l), NEW y \in Control,
         y.active = x.active, y.context = x.context,
         y.resumeSessionId \in SessionOrNone, y.reconnectAttempt <= MaxTries
  PROVE  ControlOK(y, l)
  BY DEF ControlOK

\* The active connection is forgotten.
LEMMA ControlForgets ==
  ASSUME NEW x, NEW l \in Nat, ControlOK(x, l), NEW y \in Control,
         y.active = NoActive, y.context = x.context,
         y.resumeSessionId \in SessionOrNone, y.reconnectAttempt <= MaxTries
  PROVE  ControlOK(y, l)
  BY NoActiveOK DEF ControlOK, NoActive

\* The operation starts.
LEMMA StartGentle ==
  ASSUME Types, NEW p \in Phone, NEW D
  PROVE  Gentle(Unchanged(p), ctl[p].active, D, ctl[p].context) /\ Unchanged(p).ctl = ctl[p]
<1>1. ctl[p] \in Control /\ told[p] \in SessionOrNone /\ ControlOK(ctl[p], lastConn)
  BY DEF Types, PhoneOK
<1>2. PICK o : o = Unchanged(p)
  OBVIOUS
<1>3. /\ o \in Outcome /\ o.ctl = ctl[p] /\ o.drop = {} /\ o.connect = "pending" /\ o.wire = 0
      /\ o.frames = <<>>
  BY <1>1, <1>2 DEF Unchanged, Outcome
<1> QED
  BY <1>1, <1>2, <1>3 DEF Gentle, Loose

\* Events are emitted (emit).
LEMMA EmitGentle ==
  ASSUME NEW o, NEW a, NEW D, NEW t, Gentle(o, a, D, t), NEW type \in News, NEW s \in SessionOrNone
  PROVE  Gentle(Emit(o, type, s), a, D, t) /\ Emit(o, type, s).ctl = o.ctl
<1>1. [type |-> type, sessionId |-> s, body |-> type] \in Notice
  BY DEF Notice
<1>2. o \in Outcome /\ o.told \in SessionOrNone
  BY DEF Gentle, Loose, Outcome
<1>3. Append(o.emit, [type |-> type, sessionId |-> s, body |-> type]) \in Seq(Notice)
  BY <1>1, <1>2 DEF Outcome
<1>4. PICK e : e = Append(o.emit, [type |-> type, sessionId |-> s, body |-> type])
  OBVIOUS
<1>5. PICK told2 \in SessionOrNone : Emit(o, type, s) = [o EXCEPT !.emit = e, !.told = told2]
  BY <1>2, <1>4, Bounds DEF Emit
<1>6. e \in Seq(Notice)
  BY <1>3, <1>4
<1>7. PICK f : f = [o EXCEPT !.emit = e, !.told = told2]
  OBVIOUS
<1>8. /\ f \in Outcome /\ f.ctl = o.ctl /\ f.drop = o.drop /\ f.wire = o.wire
      /\ f.frames = o.frames /\ f.connect = o.connect
  BY <1>2, <1>6, <1>7 DEF Outcome
<1> QED
  BY <1>5, <1>7, <1>8 DEF Gentle, Loose

\* The caller of connect() gets its error.
LEMMA AuthRejectLoose ==
  ASSUME NEW o, NEW D, NEW t, Loose(o, D, t), NEW b
  PROVE  Loose(AuthReject(o, b), D, t) /\ AuthReject(o, b).ctl = o.ctl
<1>1. PICK f : f = [o EXCEPT !.connect = "reject"]
  OBVIOUS
<1>2. /\ f \in Outcome /\ f.ctl = o.ctl /\ f.drop = o.drop /\ f.wire = o.wire
      /\ f.frames = o.frames
  BY <1>1 DEF Outcome, Loose
<1> QED
  BY <1>1, <1>2 DEF AuthReject, Loose

\* Fields of ctl change that are not the active connection.
LEMMA FieldsGentle ==
  ASSUME NEW o, NEW a, NEW D, NEW t, Gentle(o, a, D, t), NEW y \in Control,
         y.active = o.ctl.active, y.context = o.ctl.context,
         y.resumeSessionId \in SessionOrNone, y.reconnectAttempt <= MaxTries
  PROVE  Gentle([o EXCEPT !.ctl = y], a, D, t) /\ [o EXCEPT !.ctl = y].ctl = y
<1>1. PICK f : f = [o EXCEPT !.ctl = y]
  OBVIOUS
<1>2. /\ f \in Outcome /\ f.ctl = y /\ f.drop = o.drop /\ f.wire = o.wire
      /\ f.frames = o.frames /\ f.connect = o.connect
  BY <1>1 DEF Outcome, Gentle, Loose
<1>3. ControlOK(y, lastConn)
  BY ControlStays DEF Gentle, Loose
<1> QED
  BY <1>1, <1>2, <1>3 DEF Gentle, Loose

\* The timers and the interrupted session are cleared.
LEMMA ClearGentle ==
  ASSUME NEW o, NEW a, NEW D, NEW t, Gentle(o, a, D, t)
  PROVE  LET e == ClearReconnectState(o) IN
         /\ Gentle(e, a, D, t) /\ e.ctl.active = o.ctl.active /\ e.ctl.resumeSessionId = 0
<1>1. PICK y : y = [o.ctl EXCEPT !.reconnectTimer = FALSE, !.responderReconnectTimer = FALSE,
            !.resumeSessionId = 0, !.resumeRole = "none", !.reconnectAttempt = 0]
  OBVIOUS
<1>2. o \in Outcome /\ o.ctl \in Control
  BY DEF Gentle, Loose, Outcome
<1>3. /\ y \in Control /\ y.active = o.ctl.active /\ y.context = o.ctl.context
      /\ y.resumeSessionId = 0 /\ y.reconnectAttempt = 0
  BY <1>1, <1>2 DEF Control, Role
<1>4. ClearReconnectState(o) = [o EXCEPT !.ctl = y]
  BY <1>1, <1>2 DEF ClearReconnectState, Outcome, Control
<1> QED
  BY <1>3, <1>4, FieldsGentle, Bounds

\* The active connection is forgotten, and connection b closed.
LEMMA ForgetGentle ==
  ASSUME lastConn \in Nat, NEW o, NEW D, NEW t, Loose(o, D, t),
         NEW b, b.connectionId \in Nat, b.connectionId \in D
  PROVE  (\A a : Gentle(Forget(o, b), a, D, t)) /\ Forget(o, b).ctl.active = NoActive
<1>1. PICK y : y = [o.ctl EXCEPT !.active = NoActive]
  OBVIOUS
<1>2. o \in Outcome /\ o.ctl \in Control /\ NoActive \in Active
  BY NoActiveOK DEF Loose, Outcome, ActiveOK
<1>3. /\ y \in Control /\ y.active = NoActive /\ y.context = o.ctl.context
      /\ y.resumeSessionId = o.ctl.resumeSessionId /\ y.reconnectAttempt = o.ctl.reconnectAttempt
  BY <1>1, <1>2 DEF Control
<1>4. ControlOK(y, lastConn)
  BY <1>3, ControlForgets DEF Loose, ControlOK
<1>5. PICK f : f = [o EXCEPT !.ctl = y, !.drop = o.drop \cup {b.connectionId}]
  OBVIOUS
<1>6. Forget(o, b) = f
  BY <1>1, <1>2, <1>5 DEF Forget, Outcome
<1>7. /\ f \in Outcome /\ f.ctl = y /\ f.drop = o.drop \cup {b.connectionId} /\ f.wire = o.wire
      /\ f.frames = o.frames
  BY <1>2, <1>3, <1>5 DEF Outcome
<1>8. f.drop \subseteq D
  BY <1>7 DEF Loose
<1> QED
  BY <1>1, <1>3, <1>4, <1>6, <1>7, <1>8 DEF Gentle, Loose

\* The same, and an awaiting connect() throws (closeActive).
LEMMA LeaveGentle ==
  ASSUME lastConn \in Nat, NEW o, NEW a, NEW D, NEW t, Gentle(o, a, D, t),
         NEW b, b.connectionId \in Nat, b.connectionId \in D
  PROVE  /\ Gentle(Forget(AuthReject(o, b), b), a, D, t)
         /\ Forget(AuthReject(o, b), b).ctl.active = NoActive
<1>1. PICK f : f = AuthReject(o, b)
  OBVIOUS
<1>2. Loose(f, D, t) /\ f.ctl = o.ctl
  BY <1>1, AuthRejectLoose DEF Gentle
<1> QED
  BY <1>1, <1>2, ForgetGentle

\* closeActive lets the active connection go.
LEMMA CloseActiveGentle ==
  ASSUME lastConn \in Nat, NEW o, NEW a, NEW D, NEW t, Gentle(o, a, D, t),
         o.ctl.active.connectionId \in D
  PROVE  Gentle(CloseActive(o), a, D, t) /\ CloseActive(o).ctl.active = NoActive
<1>1. ActiveOK(o.ctl.active, lastConn)
  BY DEF Gentle, Loose, ControlOK
<1>2. o.ctl.active.connectionId \in Nat /\ (o.ctl.active.connectionId = 0 => o.ctl.active = NoActive)
  BY <1>1 DEF ActiveOK, Active
<1>3. CASE o.ctl.active.connectionId = 0
  BY <1>2, <1>3 DEF CloseActive
<1>4. CASE o.ctl.active.connectionId # 0
  <2>1. PICK b : b = o.ctl.active
    OBVIOUS
  <2>2. /\ Gentle(Forget(AuthReject(o, b), b), a, D, t)
        /\ Forget(AuthReject(o, b), b).ctl.active = NoActive
    <3>1. b.connectionId \in Nat /\ b.connectionId \in D
      BY <1>2, <2>1
    <3> QED
      BY <3>1, LeaveGentle
  <2>3. CloseActive(o) = Forget(AuthReject(o, b), b)
    <3>1. o.ctl.active.connectionId # 0 /\ b = o.ctl.active
      BY <1>4, <2>1
    <3> QED
      BY <3>1, Zenon DEF CloseActive
  <2> QED
    BY <2>2, <2>3
<1> QED
  BY <1>3, <1>4

\* scheduleInitiatorReconnect leaves the active connection alone.
LEMMA ScheduleGentle ==
  ASSUME NEW o, NEW a, NEW D, NEW t, Gentle(o, a, D, t)
  PROVE  /\ Gentle(ScheduleInitiatorReconnect(o), a, D, t)
         /\ ScheduleInitiatorReconnect(o).ctl.active = o.ctl.active
<1>1. o \in Outcome /\ o.ctl \in Control /\ ControlOK(o.ctl, lastConn)
  BY DEF Gentle, Loose, Outcome
<1>2. PICK y : y = [o.ctl EXCEPT !.queued = Append(@, "fail")]
  OBVIOUS
<1>3. /\ y \in Control /\ y.active = o.ctl.active /\ y.context = o.ctl.context
      /\ y.resumeSessionId = o.ctl.resumeSessionId
      /\ y.reconnectAttempt = o.ctl.reconnectAttempt
  <2>1. Append(o.ctl.queued, "fail") \in Seq({"fail", "reconnect"})
    BY <1>1 DEF Control
  <2>2. PICK r : r = Append(o.ctl.queued, "fail")
    OBVIOUS
  <2>3. y = [o.ctl EXCEPT !.queued = r] /\ r \in Seq({"fail", "reconnect"})
    BY <1>2, <2>1, <2>2
  <2> QED
    BY <1>1, <2>3 DEF Control
<1>4. [o EXCEPT !.ctl.queued = Append(@, "fail")] = [o EXCEPT !.ctl = y]
  BY <1>1, <1>2 DEF Outcome
<1>5. PICK z : z = [o.ctl EXCEPT !.reconnectAttempt = @ + 1, !.reconnectTimer = TRUE]
  OBVIOUS
<1>6. /\ z \in Control /\ z.active = o.ctl.active /\ z.context = o.ctl.context
      /\ z.resumeSessionId = o.ctl.resumeSessionId
      /\ z.reconnectAttempt = o.ctl.reconnectAttempt + 1
  <2>1. o.ctl.reconnectAttempt + 1 \in Nat
    BY <1>1 DEF Control
  <2>2. PICK r : r = o.ctl.reconnectAttempt + 1
    OBVIOUS
  <2>3. z = [o.ctl EXCEPT !.reconnectAttempt = r, !.reconnectTimer = TRUE] /\ r \in Nat
    BY <1>5, <2>1, <2>2
  <2> QED
    BY <1>1, <2>2, <2>3 DEF Control
<1>7. [o EXCEPT !.ctl.reconnectAttempt = @ + 1, !.ctl.reconnectTimer = TRUE] = [o EXCEPT !.ctl = z]
  BY <1>1, <1>5 DEF Outcome, Control
<1>8. Gentle([o EXCEPT !.ctl = y], a, D, t) /\ [o EXCEPT !.ctl = y].ctl = y
  BY <1>1, <1>3, FieldsGentle DEF ControlOK
<1>9. o.ctl.reconnectAttempt < MaxTries => Gentle([o EXCEPT !.ctl = z], a, D, t) /\ [o EXCEPT !.ctl = z].ctl = z
  <2>1. ASSUME o.ctl.reconnectAttempt < MaxTries PROVE z.reconnectAttempt <= MaxTries
    BY <1>1, <1>6, <2>1, Bounds DEF Control
  <2>2. z.resumeSessionId \in SessionOrNone /\ z.active = o.ctl.active /\ z.context = o.ctl.context
    BY <1>1, <1>6 DEF ControlOK
  <2> QED
    BY <1>6, <2>1, <2>2, FieldsGentle
<1>10. o.ctl.reconnectAttempt >= MaxTries \/ o.ctl.reconnectAttempt < MaxTries
  BY <1>1, Bounds DEF Control
<1> QED
  BY <1>3, <1>4, <1>6, <1>7, <1>8, <1>9, <1>10 DEF ScheduleInitiatorReconnect

\* The connection b is lost and its session may resume.
LEMMA BeginGentle ==
  ASSUME lastConn \in Nat, NEW o, NEW a, NEW D, NEW t, Gentle(o, a, D, t),
         NEW b, b.connectionId \in Nat, b.connectionId \in D, b.role \in Role, b.sessionId \in SessionOrNone
  PROVE  Gentle(BeginReconnect(o, b), a, D, t)
<1>1. PICK r : r = Forget(AuthReject(o, b), b)
  OBVIOUS
<1>2. Gentle(r, a, D, t) /\ r.ctl.active = NoActive
  BY <1>1, LeaveGentle
<1>3. r \in Outcome /\ r.ctl \in Control
  BY <1>2 DEF Gentle, Loose, Outcome
<1>4. PICK y : y = [r.ctl EXCEPT !.resumeSessionId = b.sessionId, !.resumeRole = b.role, !.reconnectAttempt = 0]
  OBVIOUS
<1>5. /\ y \in Control /\ y.active = r.ctl.active /\ y.context = r.ctl.context
      /\ y.resumeSessionId = b.sessionId /\ y.reconnectAttempt = 0
  <2>1. b.sessionId \in Nat
    BY Bounds DEF SessionOrNone
  <2>2. PICK q, l : q = b.sessionId /\ l = b.role
    OBVIOUS
  <2>3. q \in Nat /\ l \in Role /\ y = [r.ctl EXCEPT !.resumeSessionId = q, !.resumeRole = l, !.reconnectAttempt = 0]
    BY <1>4, <2>1, <2>2
  <2> QED
    BY <1>3, <2>2, <2>3 DEF Control
<1>6. PICK e : e = [r EXCEPT !.ctl.resumeSessionId = b.sessionId, !.ctl.resumeRole = b.role,
                             !.ctl.reconnectAttempt = 0]
  OBVIOUS
<1>7. e = [r EXCEPT !.ctl = y]
  BY <1>3, <1>4, <1>6 DEF Outcome, Control
<1>8. Gentle(e, a, D, t) /\ e.ctl = y
  BY <1>2, <1>5, <1>7, FieldsGentle, Bounds
<1>9. PICK z : z = [y EXCEPT !.responderReconnectTimer = TRUE]
  OBVIOUS
<1>10. /\ z \in Control /\ z.active = e.ctl.active /\ z.context = e.ctl.context
       /\ z.resumeSessionId = b.sessionId /\ z.reconnectAttempt = 0
  BY <1>5, <1>8, <1>9 DEF Control
<1>11. Gentle([e EXCEPT !.ctl = z], a, D, t)
  BY <1>8, <1>10, FieldsGentle, Bounds
<1>12. e \in Outcome
  BY <1>8 DEF Gentle, Loose
<1>13. [e EXCEPT !.ctl.responderReconnectTimer = TRUE] = [e EXCEPT !.ctl = z]
  BY <1>8, <1>9, <1>12 DEF Outcome
<1>14. Gentle(ScheduleInitiatorReconnect(e), a, D, t)
  BY <1>8, ScheduleGentle
<1>15. BeginReconnect(o, b) = IF b.sessionId = 0 \/ o.ctl.resumeSessionId # 0 THEN o
         ELSE IF b.role = "initiator" THEN ScheduleInitiatorReconnect(e)
         ELSE [e EXCEPT !.ctl.responderReconnectTimer = TRUE]
  BY <1>1, <1>6 DEF BeginReconnect
<1> QED
  BY <1>11, <1>13, <1>14, <1>15

\* A handshake is refused.
LEMMA RefuseGentle ==
  ASSUME lastConn \in Nat, NEW o, NEW a, NEW D, NEW t, Gentle(o, a, D, t), o.ctl.active.connectionId \in D
  PROVE  Gentle(RefuseHandshake(o), a, D, t) /\ RefuseHandshake(o).ctl.active = NoActive
<1>1. PICK b : b = o.ctl.active
  OBVIOUS
<1>2. b.connectionId \in Nat /\ b.connectionId \in D
  BY <1>1 DEF Gentle, Loose, ControlOK, ActiveOK, Active
<1>3. Gentle(Forget(o, b), a, D, t) /\ Forget(o, b).ctl.active = NoActive
  BY <1>2, ForgetGentle DEF Gentle
<1>4. PICK r : r = Forget(AuthReject(o, b), b)
  OBVIOUS
<1>5. Gentle(r, a, D, t) /\ r.ctl.active = NoActive
  BY <1>2, <1>4, LeaveGentle
<1>6. Gentle(ScheduleInitiatorReconnect(r), a, D, t) /\ ScheduleInitiatorReconnect(r).ctl.active = NoActive
  BY <1>5, ScheduleGentle
<1>7. PICK e : e = Emit(o, "error", 0)
  OBVIOUS
<1>8. Gentle(e, a, D, t) /\ e.ctl = o.ctl
  BY <1>7, EmitGentle, Bounds DEF News
<1>9. Gentle(CloseActive(e), a, D, t) /\ CloseActive(e).ctl.active = NoActive
  <2>1. e.ctl.active.connectionId \in D
    BY <1>8
  <2> QED
    BY <1>8, <2>1, CloseActiveGentle
<1>10. RefuseHandshake(o) = IF o.ctl.resumeSessionId # 0
         THEN IF b.role = "initiator" THEN ScheduleInitiatorReconnect(r) ELSE Forget(o, b)
         ELSE CloseActive(e)
  BY <1>1, <1>4, <1>7, Zenon DEF RefuseHandshake
<1> QED
  BY <1>3, <1>6, <1>9, <1>10

\* The session does not come back.
LEMMA FailGentle ==
  ASSUME NEW o, NEW a, NEW D, NEW t, Gentle(o, a, D, t)
  PROVE  Gentle(FailReconnect(o), a, D, t)
<1>1. PICK r : r = ClearReconnectState(o)
  OBVIOUS
<1>2. Gentle(r, a, D, t)
  BY <1>1, ClearGentle
<1>3. PICK e : e = Emit(r, "error", 0)
  OBVIOUS
<1>4. Gentle(e, a, D, t)
  BY <1>2, <1>3, EmitGentle, Bounds DEF News
<1>5. o.ctl.resumeSessionId \in SessionOrNone
  BY DEF Gentle, Loose, ControlOK
<1>6. Gentle(Emit(e, "closed", o.ctl.resumeSessionId), a, D, t)
  BY <1>4, <1>5, EmitGentle DEF News
<1>7. FailReconnect(o) = IF o.ctl.resumeSessionId = 0 THEN o ELSE Emit(e, "closed", o.ctl.resumeSessionId)
  BY <1>1, <1>3, Zenon DEF FailReconnect
<1> QED
  BY <1>6, <1>7

\* The active connection is lost.
LEMMA ClosedGentle ==
  ASSUME lastConn \in Nat, NEW o, NEW a, NEW D, NEW t, Gentle(o, a, D, t), o.ctl.active.connectionId \in D
  PROVE  Gentle(HandleClosed(o), a, D, t)
<1>1. PICK b : b = o.ctl.active
  OBVIOUS
<1>2. /\ b.connectionId \in Nat /\ b.connectionId \in D /\ b.role \in Role
      /\ b.sessionId \in SessionOrNone
  BY <1>1 DEF Gentle, Loose, ControlOK, ActiveOK, Active
<1>3. Gentle(BeginReconnect(o, b), a, D, t)
  BY <1>2, BeginGentle
<1>4. PICK y : y = [o.ctl EXCEPT !.active = NoActive]
  OBVIOUS
<1>5. o \in Outcome /\ o.ctl \in Control /\ NoActive \in Active
  BY NoActiveOK DEF Gentle, Loose, Outcome, ActiveOK
<1>6. /\ y \in Control /\ y.active = NoActive /\ y.context = o.ctl.context
      /\ y.resumeSessionId = o.ctl.resumeSessionId /\ y.reconnectAttempt = o.ctl.reconnectAttempt
  BY <1>4, <1>5 DEF Control
<1>7. ControlOK(y, lastConn)
  BY <1>6, ControlForgets DEF Gentle, Loose, ControlOK
<1>8. PICK f : f = [o EXCEPT !.ctl = y]
  OBVIOUS
<1>9. [o EXCEPT !.ctl.active = NoActive] = f
  BY <1>4, <1>5, <1>8 DEF Outcome
<1>10. /\ f \in Outcome /\ f.ctl = y /\ f.drop = o.drop /\ f.wire = o.wire
       /\ f.frames = o.frames
  BY <1>5, <1>6, <1>8 DEF Outcome
<1>11. Loose(f, D, t) /\ f.ctl.active = NoActive
  BY <1>6, <1>7, <1>10 DEF Gentle, Loose
<1>12. PICK l : l = AuthReject(f, b)
  OBVIOUS
<1>13. Gentle(l, a, D, t)
  BY <1>11, <1>12, AuthRejectLoose DEF Gentle
<1>14. Gentle(Emit(l, "closed", b.sessionId), a, D, t)
  BY <1>2, <1>13, EmitGentle DEF News
<1>15. Gentle(ScheduleInitiatorReconnect(l), a, D, t)
  BY <1>13, ScheduleGentle
<1>16. l = AuthReject([o EXCEPT !.ctl.active = NoActive], b)
  BY <1>9, <1>12
<1>17. HandleClosed(o) = IF b.keyed THEN BeginReconnect(o, b)
         ELSE IF o.ctl.resumeSessionId = 0 THEN Emit(l, "closed", b.sessionId)
         ELSE IF b.role = "initiator" THEN ScheduleInitiatorReconnect(l) ELSE l
  BY <1>1, <1>16, Zenon DEF HandleClosed
<1> QED
  BY <1>3, <1>13, <1>14, <1>15, <1>17

\* handleError keeps the active connection or lets it go.
LEMMA ErrorGentle ==
  ASSUME lastConn \in Nat, NEW o, NEW a, NEW D, NEW t, Gentle(o, a, D, t), o.ctl.active.connectionId \in D
  PROVE  Gentle(HandleError(o), a, D, t)
<1>1. PICK b : b = o.ctl.active
  OBVIOUS
<1>2. /\ b.connectionId \in Nat /\ b.connectionId \in D /\ b.role \in Role
      /\ b.sessionId \in SessionOrNone
  BY <1>1 DEF Gentle, Loose, ControlOK, ActiveOK, Active
<1>3. Gentle(BeginReconnect(o, b), a, D, t)
  BY <1>2, BeginGentle
<1>4. Gentle(Forget(o, b), a, D, t)
  BY <1>2, ForgetGentle DEF Gentle
<1>5. Gentle(ScheduleInitiatorReconnect(Forget(o, b)), a, D, t)
  BY <1>4, ScheduleGentle
<1>6. PICK e : e = Emit(o, "error", 0)
  OBVIOUS
<1>7. Gentle(e, a, D, t) /\ e.ctl = o.ctl
  BY <1>6, EmitGentle, Bounds DEF News
<1>8. Gentle(CloseActive(e), a, D, t)
  <2>1. e.ctl.active.connectionId \in D
    BY <1>7
  <2> QED
    BY <1>7, <2>1, CloseActiveGentle
<1>9. HandleError(o) = IF b.keyed THEN BeginReconnect(o, b)
         ELSE IF o.ctl.resumeSessionId # 0 THEN ScheduleInitiatorReconnect(Forget(o, b))
         ELSE CloseActive(e)
  BY <1>1, <1>6, Zenon DEF HandleError
<1> QED
  BY <1>3, <1>5, <1>8, <1>9

\* close(), and what every call of it leaves.
LEMMA ClosingGentle ==
  ASSUME Types, NEW p \in Phone
  PROVE  /\ Gentle(Closing(p), ctl[p].active, {ctl[p].active.connectionId}, ctl[p].context)
         /\ Closing(p).ctl.active = NoActive
<1>1. PICK a : a = ctl[p].active
  OBVIOUS
<1>2. PICK D : D = {a.connectionId}
  OBVIOUS
<1>3. PICK t : t = ctl[p].context
  OBVIOUS
<1>4. PICK o : o = Unchanged(p)
  OBVIOUS
<1>5. Gentle(o, a, D, t) /\ o.ctl.active = a
  BY <1>1, <1>3, <1>4, StartGentle
<1>6. PICK e : e = ClearReconnectState(o)
  OBVIOUS
<1>7. Gentle(e, a, D, t) /\ e.ctl.active = a
  BY <1>5, <1>6, ClearGentle
<1>8. lastConn \in Nat
  BY Bounds DEF Types
<1>9. PICK f : f = CloseActive(e)
  OBVIOUS
<1>10. Gentle(f, a, D, t) /\ f.ctl.active = NoActive
  <2>1. e.ctl.active.connectionId \in D
    BY <1>2, <1>7
  <2> QED
    BY <1>7, <1>8, <1>9, <2>1, CloseActiveGentle
<1>11. PICK g : g = [f EXCEPT !.told = 0]
  OBVIOUS
<1>12. f \in Outcome
  BY <1>10 DEF Gentle, Loose
<1>13. /\ g \in Outcome /\ g.ctl = f.ctl /\ g.drop = f.drop /\ g.connect = f.connect
       /\ g.wire = f.wire /\ g.frames = f.frames
  BY <1>11, <1>12, Bounds DEF Outcome
<1>14. Gentle(g, a, D, t) /\ g.ctl.active = NoActive
  BY <1>10, <1>13 DEF Gentle, Loose
<1>15. Closing(p) = g
  BY <1>4, <1>6, <1>9, <1>11, Zenon DEF Closing
<1> QED
  BY <1>1, <1>2, <1>3, <1>14, <1>15

-----------------------------------------------------------------------------
(***************************************************************************)
(* A step of phone p, seen from connection c.                              *)
(***************************************************************************)
Others(p) ==
  \A q \in Phone \ {p} :
    /\ ctl'[q] = ctl[q] /\ opening'[q] = opening[q]
    /\ native'[q] = native[q] /\ knocks'[q] = knocks[q]

Silent(p, c) == \A q \in Phone \ {p} : inbox'[q][c] = inbox[q][c]

\* p lets c go, or does not hold it.
Quits(p, c) ==
  /\ ctl'[p].active.connectionId # c
  /\ Part(inbox[p][c], inbox'[p][c])
  /\ native'[p] = native[p] \/ native'[p] # c
  /\ c \in knocks'[p] => c \in knocks[p] /\ inbox'[p][c] = inbox[p][c]
  /\ c \in knocks[p] => c \in knocks'[p] \/ inbox'[p][c] = <<>>
  /\ Fewer(c, opening[p], opening'[p])

\* p leaves c as it is.
Stays(p, c) ==
  /\ ctl'[p].active = ctl[p].active
  /\ inbox'[p][c] = inbox[p][c]
  /\ native'[p] = native[p] \/ native'[p] # c
  /\ c \in knocks'[p] <=> c \in knocks[p]
  /\ Fewer(c, opening[p], opening'[p])
  /\ native'[p] = c /\ ctl[p].active.connectionId = c
       => (EarlyOn(opening[p], c) <=> EarlyOn(opening'[p], c))

\* p handles the end of c's stream and keeps c.
Ends(p, c) ==
  /\ ctl[p].active.connectionId = c
  /\ Len(inbox[p][c]) > 0 /\ inbox[p][c][1] \in Last
  /\ ctl'[p].active = ctl[p].active
  /\ inbox'[p][c] = Tail(inbox[p][c])
  /\ native'[p] = native[p] /\ knocks'[p] = knocks[p]
  /\ Fewer(c, opening[p], opening'[p])

\* The invariant of connection c survives the step.
Kept(c) == \A d \in Phone, s \in Session : LinkOf(c, d, Other(d), s) => LinkOf(c, d, Other(d), s)'

\* The partner is the other one of two.
LEMMA TwoPhones ==
  ASSUME NEW p \in Phone
  PROVE  /\ Other(p) \in Phone /\ Other(p) # p /\ Other(Other(p)) = p
         /\ \A q \in Phone : q # p => q = Other(p)
<1>1. IsFiniteSet(Phone \ {p}) /\ Cardinality(Phone \ {p}) = 1
  BY FS_RemoveElement, PhoneAssumption
<1>2. PICK q : Phone \ {p} = {q}
  BY <1>1, FS_Singleton
<1>3. Other(p) = q /\ q \in Phone /\ q # p /\ \A r \in Phone : r = p \/ r = q
  BY <1>2 DEF Other
<1>4. Other(q) = p
  BY <1>3 DEF Other
<1> QED
  BY <1>3, <1>4

\* What the types say about one end of a connection.
LEMMA EndTypes ==
  ASSUME Types, NEW p \in Phone
  PROVE  /\ ctl[p] \in Control /\ ctl[p].active \in Active /\ ActiveOK(ctl[p].active, lastConn)
         /\ \A c \in Conn : inbox[p][c] \in Seq(Event)
         /\ lastConn \in Nat /\ lastConn <= MaxConn
         /\ PhoneOK(ctl[p], opening[p], told[p], native[p], knocks[p], inbox[p], lastConn)
<1>1. PhoneOK(ctl[p], opening[p], told[p], native[p], knocks[p], inbox[p], lastConn)
  BY DEF Types
<1>2. ActiveOK(ctl[p].active, lastConn) /\ ctl[p] \in Control
  BY <1>1 DEF PhoneOK, ControlOK
<1>3. ctl[p].active \in Active
  BY <1>2 DEF ActiveOK
<1>4. \A c \in Conn : inbox[p][c] \in Seq(Event)
  BY <1>1 DEF PhoneOK
<1>5. lastConn \in Nat /\ lastConn <= MaxConn
  BY Bounds DEF Types
<1> QED
  BY <1>1, <1>2, <1>3, <1>4, <1>5

\* No phone is about to greet on a connection that it did not dial.
LEMMA NotDialled ==
  ASSUME NEW d \in Phone, NEW r \in Phone, NEW c, NEW s, LinkOf(c, d, r, s), NEW o2, Fewer(c, opening[r], o2)
  PROVE  \A w \in Caller : ~IsEarly(o2, w, c)
<1>1. \A w \in Caller : ~IsEarly(opening[r], w, c)
  BY DEF LinkOf, Link, DialledOK
<1> QED
  BY <1>1 DEF Fewer

\* A step that lets connection c of p go keeps the link of c.
LEMMA QuitsKept ==
  ASSUME Types, NEW p \in Phone, NEW c \in Conn, Others(p), Silent(p, c), Quits(p, c)
  PROVE  Kept(c)
<1> SUFFICES ASSUME NEW d \in Phone, NEW s \in Session, LinkOf(c, d, Other(d), s)
             PROVE  LinkOf(c, d, Other(d), s)'
  BY DEF Kept
<1>1. PICK r \in Phone : r = Other(d) /\ r # d /\ \A q \in Phone : q = d \/ q = r
  BY TwoPhones
<1>2. Link(c, s, ctl[d].active, inbox[d][c], native[d], knocks[d], opening[d],
                 ctl[r].active, inbox[r][c], native[r], knocks[r], opening[r])
  BY <1>1 DEF LinkOf
<1>3. /\ ctl[d].active \in Active /\ inbox[d][c] \in Seq(Event)
      /\ ctl[r].active \in Active /\ inbox[r][c] \in Seq(Event)
  BY <1>1, EndTypes
<1>4. CASE p = d
  <2>1. /\ ctl'[r] = ctl[r] /\ opening'[r] = opening[r] /\ native'[r] = native[r]
        /\ knocks'[r] = knocks[r] /\ inbox'[r][c] = inbox[r][c]
    BY <1>1, <1>4 DEF Others, Silent
  <2>2. c \notin knocks'[d]
    BY <1>2, <1>4 DEF Quits, Link, DiallerOK
  <2>3. Link(c, s, ctl'[d].active, inbox'[d][c], native'[d], knocks'[d], opening'[d],
                 ctl[r].active, inbox[r][c], native[r], knocks[r], opening[r])
    BY <1>2, <1>3, <1>4, <2>2, DiallerQuits DEF Quits
  <2> QED
    BY <1>1, <2>1, <2>3 DEF LinkOf
<1>5. CASE p = r
  <2>1. /\ ctl'[d] = ctl[d] /\ opening'[d] = opening[d] /\ native'[d] = native[d]
        /\ knocks'[d] = knocks[d] /\ inbox'[d][c] = inbox[d][c]
    BY <1>1, <1>5 DEF Others, Silent
  <2>2. \A w \in Caller : ~IsEarly(opening'[r], w, c)
    BY <1>1, <1>5, NotDialled DEF Quits
  <2>3. Link(c, s, ctl[d].active, inbox[d][c], native[d], knocks[d], opening[d],
                 ctl'[r].active, inbox'[r][c], native'[r], knocks'[r], opening'[r])
    BY <1>2, <1>3, <1>5, <2>2, DialledQuits DEF Quits
  <2> QED
    BY <1>1, <2>1, <2>3 DEF LinkOf
<1> QED
  BY <1>1, <1>4, <1>5

\* A step of p that leaves its end of c as it is keeps the link of c.
LEMMA StaysKept ==
  ASSUME Types, NEW p \in Phone, NEW c \in Conn, Others(p), Silent(p, c), Stays(p, c)
  PROVE  Kept(c)
<1> SUFFICES ASSUME NEW d \in Phone, NEW s \in Session, LinkOf(c, d, Other(d), s)
             PROVE  LinkOf(c, d, Other(d), s)'
  BY DEF Kept
<1>1. PICK r \in Phone : r = Other(d) /\ r # d /\ \A q \in Phone : q = d \/ q = r
  BY TwoPhones
<1>2. Link(c, s, ctl[d].active, inbox[d][c], native[d], knocks[d], opening[d],
                 ctl[r].active, inbox[r][c], native[r], knocks[r], opening[r])
  BY <1>1 DEF LinkOf
<1>4. CASE p = d
  <2>1. /\ ctl'[r] = ctl[r] /\ opening'[r] = opening[r] /\ native'[r] = native[r]
        /\ knocks'[r] = knocks[r] /\ inbox'[r][c] = inbox[r][c]
    BY <1>1, <1>4 DEF Others, Silent
  <2>2. c \notin knocks'[d]
    BY <1>2, <1>4 DEF Stays, Link, DiallerOK
  <2>3. Link(c, s, ctl[d].active, inbox[d][c], native'[d], knocks'[d], opening'[d],
                 ctl[r].active, inbox[r][c], native[r], knocks[r], opening[r])
    BY <1>2, <1>4, <2>2, DiallerStays DEF Stays
  <2>4. ctl'[d].active = ctl[d].active /\ inbox'[d][c] = inbox[d][c]
    BY <1>4 DEF Stays
  <2> QED
    BY <1>1, <2>1, <2>3, <2>4 DEF LinkOf
<1>5. CASE p = r
  <2>1. /\ ctl'[d] = ctl[d] /\ opening'[d] = opening[d] /\ native'[d] = native[d]
        /\ knocks'[d] = knocks[d] /\ inbox'[d][c] = inbox[d][c]
    BY <1>1, <1>5 DEF Others, Silent
  <2>2. \A w \in Caller : ~IsEarly(opening'[r], w, c)
    BY <1>1, <1>5, NotDialled DEF Stays
  <2>3. Link(c, s, ctl[d].active, inbox[d][c], native[d], knocks[d], opening[d],
                 ctl[r].active, inbox[r][c], native'[r], knocks'[r], opening'[r])
    BY <1>2, <1>5, <2>2, DialledStays DEF Stays
  <2>4. ctl'[r].active = ctl[r].active /\ inbox'[r][c] = inbox[r][c]
    BY <1>5 DEF Stays
  <2> QED
    BY <1>1, <2>1, <2>3, <2>4 DEF LinkOf
<1> QED
  BY <1>1, <1>4, <1>5

\* A step in which p handles the end of the stream of c keeps the link of c.
LEMMA EndsKept ==
  ASSUME Types, NEW p \in Phone, NEW c \in Conn, Others(p), Silent(p, c), Ends(p, c)
  PROVE  Kept(c)
<1> SUFFICES ASSUME NEW d \in Phone, NEW s \in Session, LinkOf(c, d, Other(d), s)
             PROVE  LinkOf(c, d, Other(d), s)'
  BY DEF Kept
<1>1. PICK r \in Phone : r = Other(d) /\ r # d /\ \A q \in Phone : q = d \/ q = r
  BY TwoPhones
<1>2. Link(c, s, ctl[d].active, inbox[d][c], native[d], knocks[d], opening[d],
                 ctl[r].active, inbox[r][c], native[r], knocks[r], opening[r])
  BY <1>1 DEF LinkOf
<1>3. /\ ctl[d].active \in Active /\ inbox[d][c] \in Seq(Event)
      /\ ctl[r].active \in Active /\ inbox[r][c] \in Seq(Event)
  BY <1>1, EndTypes
<1>4. CASE p = d
  <2>1. /\ ctl'[r] = ctl[r] /\ opening'[r] = opening[r] /\ native'[r] = native[r]
        /\ knocks'[r] = knocks[r] /\ inbox'[r][c] = inbox[r][c]
    BY <1>1, <1>4 DEF Others, Silent
  <2>2. Link(c, s, ctl[d].active, Tail(inbox[d][c]), native[d], knocks[d], opening'[d],
                 ctl[r].active, inbox[r][c], native[r], knocks[r], opening[r])
    BY <1>2, <1>3, <1>4, DiallerEnds DEF Ends
  <2>3. /\ ctl'[d].active = ctl[d].active /\ inbox'[d][c] = Tail(inbox[d][c])
        /\ native'[d] = native[d] /\ knocks'[d] = knocks[d]
    BY <1>4 DEF Ends
  <2> QED
    BY <1>1, <2>1, <2>2, <2>3 DEF LinkOf
<1>5. CASE p = r
  <2>1. /\ ctl'[d] = ctl[d] /\ opening'[d] = opening[d] /\ native'[d] = native[d]
        /\ knocks'[d] = knocks[d] /\ inbox'[d][c] = inbox[d][c]
    BY <1>1, <1>5 DEF Others, Silent
  <2>2. \A w \in Caller : ~IsEarly(opening'[r], w, c)
    BY <1>1, <1>5, NotDialled DEF Ends
  <2>3. Link(c, s, ctl[d].active, inbox[d][c], native[d], knocks[d], opening[d],
                 ctl[r].active, Tail(inbox[r][c]), native[r], knocks[r], opening'[r])
    BY <1>2, <1>3, <1>5, <2>2, DialledEnds DEF Ends
  <2>4. /\ ctl'[r].active = ctl[r].active /\ inbox'[r][c] = Tail(inbox[r][c])
        /\ native'[r] = native[r] /\ knocks'[r] = knocks[r]
    BY <1>5 DEF Ends
  <2> QED
    BY <1>1, <2>1, <2>3, <2>4 DEF LinkOf
<1> QED
  BY <1>1, <1>4, <1>5

\* The connections of a step that opens none.
LEMMA LinksKept ==
  ASSUME Types, Links, lastConn' = lastConn,
         \A c \in Conn : IF c > lastConn THEN Unused(c)' ELSE Kept(c)
  PROVE  Links'
<1> SUFFICES ASSUME NEW c \in Conn
             PROVE  IF c > lastConn THEN Unused(c)'
                    ELSE \E d \in Phone, s \in Session : LinkOf(c, d, Other(d), s)'
  BY DEF Links
<1>1. CASE c > lastConn
  BY <1>1
<1>2. CASE ~(c > lastConn)
  <2>1. PICK d \in Phone, s \in Session : LinkOf(c, d, Other(d), s)
    BY <1>2 DEF Links
  <2>2. LinkOf(c, d, Other(d), s)'
    BY <1>2, <2>1 DEF Kept
  <2> QED
    BY <1>2, <2>2
<1> QED
  BY <1>1, <1>2

-----------------------------------------------------------------------------
(***************************************************************************)
(* What an operation does to the types and to the connections that it does *)
(* not use.                                                                *)
(***************************************************************************)
OnlyOf(p) ==
  /\ ctl' = [ctl EXCEPT ![p] = ctl'[p]] /\ opening' = [opening EXCEPT ![p] = opening'[p]]
  /\ told' = [told EXCEPT ![p] = told'[p]] /\ native' = [native EXCEPT ![p] = native'[p]]
  /\ knocks' = [knocks EXCEPT ![p] = knocks'[p]] /\ lastConn' = lastConn

Domains ==
  /\ ctl \in [Phone -> Control] /\ opening \in [Phone -> [Caller -> Opening]]
  /\ told \in [Phone -> SessionOrNone] /\ native \in [Phone -> Nat]
  /\ knocks \in [Phone -> SUBSET Conn] /\ inbox \in [Phone -> [Conn -> Seq(Event)]]

\* A step of p's own fields leaves the other phone alone.
LEMMA OnlyOthers ==
  ASSUME Types, NEW p \in Phone, OnlyOf(p)
  PROVE  Others(p)
<1>1. Domains
  BY DEF Types, Domains
<1>2. ASSUME NEW q \in Phone \ {p}
      PROVE  /\ ctl'[q] = ctl[q] /\ opening'[q] = opening[q]
             /\ native'[q] = native[q] /\ knocks'[q] = knocks[q]
  BY <1>1 DEF Domains, OnlyOf
<1> QED
  BY <1>2 DEF Others

\* A phone's step keeps the types of the other one.
LEMMA TypesKept ==
  ASSUME Types, NEW p \in Phone, OnlyOf(p),
         inbox' \in [Phone -> [Conn -> Seq(Event)]],
         opener' \in Seq(Phone), Len(opener') <= MaxSession,
         PhoneOK(ctl'[p], opening'[p], told'[p], native'[p], knocks'[p], inbox'[p], lastConn)
  PROVE  Types'
<1>1. Domains /\ lastConn \in 0..MaxConn
  BY DEF Types, Domains
<1>2. /\ ctl'[p] \in Control /\ opening'[p] \in [Caller -> Opening] /\ told'[p] \in SessionOrNone
      /\ native'[p] \in Nat /\ knocks'[p] \in SUBSET Conn
  BY <1>1, Bounds DEF PhoneOK, ControlOK, OpeningOK, Conn
<1>3. ctl' \in [Phone -> Control] /\ opening' \in [Phone -> [Caller -> Opening]]
  BY <1>1, <1>2 DEF Domains, OnlyOf
<1>4. /\ told' \in [Phone -> SessionOrNone] /\ native' \in [Phone -> Nat]
      /\ knocks' \in [Phone -> SUBSET Conn]
  BY <1>1, <1>2 DEF Domains, OnlyOf
<1>5. ASSUME NEW q \in Phone
      PROVE  PhoneOK(ctl'[q], opening'[q], told'[q], native'[q], knocks'[q], inbox'[q], lastConn)
  <2>1. CASE q = p
    BY <2>1
  <2>2. CASE q # p
    <3>1. ctl'[q] = ctl[q] /\ opening'[q] = opening[q]
      BY <1>1, <2>2 DEF Domains, OnlyOf
    <3>2. told'[q] = told[q] /\ native'[q] = native[q] /\ knocks'[q] = knocks[q]
      BY <1>1, <2>2 DEF Domains, OnlyOf
    <3>3. inbox'[q] \in [Conn -> Seq(Event)]
      OBVIOUS
    <3>4. PhoneOK(ctl[q], opening[q], told[q], native[q], knocks[q], inbox[q], lastConn)
      BY DEF Types
    <3> QED
      BY <3>1, <3>2, <3>3, <3>4 DEF PhoneOK
  <2> QED
    BY <2>1, <2>2
<1>6. lastConn' = lastConn
  BY DEF OnlyOf
<1> QED
  BY <1>1, <1>3, <1>4, <1>5, <1>6 DEF Types, lastSession

\* What an operation with outcome o does.
LEMMA PerformsDoes ==
  ASSUME Types, NEW p \in Phone, NEW o, NEW d, Performs(p, o, d)
  PROVE  /\ OnlyOf(p) /\ knocks' = knocks /\ opener' = opener
         /\ ctl'[p] = o.ctl /\ told'[p] = o.told
         /\ opening'[p] = [opening[p] EXCEPT !["connect"] = Settled(p, o)]
         /\ native'[p] = IF native[p] \in o.drop THEN 0 ELSE native[p]
         /\ \A c \in Conn : inbox'[p][c] = IF c \in o.drop THEN <<>>
                                           ELSE IF c = d THEN Tail(inbox[p][c]) ELSE inbox[p][c]
         /\ \A q \in Phone \ {p} : \A c \in Conn :
              inbox'[q][c] = IF c = o.wire /\ Receives(q, c) THEN inbox[q][c] \o o.frames
                             ELSE inbox[q][c]
<1>1. Domains
  BY DEF Types, Domains
<1>2. ctl' = [ctl EXCEPT ![p] = o.ctl] /\ told' = [told EXCEPT ![p] = o.told]
  BY DEF Performs
<1>3. ctl'[p] = o.ctl /\ told'[p] = o.told
  BY <1>1, <1>2 DEF Domains
<1>4. PICK l : l = [opening[p] EXCEPT !["connect"] = Settled(p, o)]
  OBVIOUS
<1>5. opening' = [opening EXCEPT ![p] = l] /\ opening'[p] = l
  BY <1>1, <1>4 DEF Domains, Performs
<1>6. PICK n : n = IF native[p] \in o.drop THEN 0 ELSE native[p]
  OBVIOUS
<1>7. native' = [native EXCEPT ![p] = n] /\ native'[p] = n
  BY <1>1, <1>6 DEF Domains, Performs
<1>8. knocks' = knocks /\ opener' = opener /\ lastConn' = lastConn
  BY DEF Performs
<1>9. knocks' = [knocks EXCEPT ![p] = knocks'[p]]
  BY <1>1, <1>8 DEF Domains
<1>10. OnlyOf(p)
  BY <1>2, <1>3, <1>5, <1>7, <1>8, <1>9 DEF OnlyOf
<1>11. inbox' = Delivered(p, o.wire, o.frames, d, o.drop)
  BY DEF Performs
<1>12. ASSUME NEW c \in Conn
       PROVE  inbox'[p][c] = IF c \in o.drop THEN <<>>
                             ELSE IF c = d THEN Tail(inbox[p][c]) ELSE inbox[p][c]
  BY <1>11 DEF Delivered
<1>13. ASSUME NEW q \in Phone \ {p}, NEW c \in Conn
       PROVE  inbox'[q][c] = IF c = o.wire /\ Receives(q, c) THEN inbox[q][c] \o o.frames
                             ELSE inbox[q][c]
  BY <1>11 DEF Delivered
<1> QED
  BY <1>3, <1>4, <1>5, <1>6, <1>7, <1>8, <1>10, <1>12, <1>13

\* What becomes of the call of connect().
LEMMA SettledIs ==
  ASSUME Types, NEW p \in Phone, NEW o
  PROVE  LET l == [opening[p] EXCEPT !["connect"] = Settled(p, o)] IN
         /\ OpeningOK(l, lastConn)
         /\ \A c : Fewer(c, opening[p], l)
         /\ o.connect = "pending" => l = opening[p]
         /\ (\A w \in Caller : opening[p][w].step = "none") => \A w \in Caller : l[w].step = "none"
<1> DEFINE l == [opening[p] EXCEPT !["connect"] = Settled(p, o)]
           k == opening[p]["connect"]
<1>1. opening[p] \in [Caller -> Opening] /\ OpeningOK(opening[p], lastConn) /\ lastConn \in Nat
  BY Bounds DEF Types, PhoneOK, OpeningOK
<1>2. k \in Opening /\ NoOpening \in Opening /\ NoOpening.step = "none"
      /\ NoOpening.sessionId = 0 /\ NoOpening.connectionId = 0
  BY <1>1 DEF Caller, NoOpening, Opening
<1>3. \/ Settled(p, o) = k
      \/ /\ Settled(p, o) = [k EXCEPT !.step = "rejected"] /\ k.step = "adopted"
      \/ Settled(p, o) = NoOpening
  BY DEF Settled
<1>4. PICK e : e = Settled(p, o)
  OBVIOUS
<1>5. /\ e \in Opening
      /\ \/ e = k
         \/ e.step = "rejected" /\ k.step = "adopted" /\ e.sessionId = k.sessionId /\ e.connectionId = k.connectionId
         \/ e.step = "none" /\ e.sessionId = 0 /\ e.connectionId = 0
  BY <1>2, <1>3, <1>4 DEF Opening
<1>6. l["connect"] = e /\ l["reconnect"] = opening[p]["reconnect"] /\ l \in [Caller -> Opening]
  BY <1>1, <1>4, <1>5 DEF Caller
<1> HIDE DEF l
<1>7. \A w \in Caller : w = "connect" \/ w = "reconnect"
  BY DEF Caller
<1>8. "connect" \in Caller /\ "reconnect" \in Caller
  BY DEF Caller
<1>9. OpeningOK(l, lastConn)
  <2>1. ASSUME NEW w \in Caller
        PROVE  /\ l[w].sessionId \in SessionOrNone /\ l[w].connectionId \in 0..lastConn
               /\ l[w].step # "none" => l[w].sessionId # 0
               /\ l[w].step \in Early => l[w].connectionId # 0
    BY <1>1, <1>5, <1>6, <1>7, <1>8, Bounds DEF OpeningOK, Early
  <2>2. l["connect"].step \in Early /\ l["reconnect"].step \in Early
          => l["connect"].connectionId # l["reconnect"].connectionId
    BY <1>1, <1>5, <1>6 DEF OpeningOK, Early
  <2> QED
    BY <1>6, <2>1, <2>2 DEF OpeningOK
<1>10. ASSUME NEW c PROVE Fewer(c, opening[p], l)
  BY <1>5, <1>6, <1>7 DEF Fewer, IsEarly, Early
<1>11. o.connect = "pending" => l = opening[p]
  BY <1>1 DEF Settled, l
<1>12. (\A w \in Caller : opening[p][w].step = "none") => \A w \in Caller : l[w].step = "none"
  BY <1>5, <1>6, <1>7, <1>8
<1> QED
  BY <1>9, <1>10, <1>11, <1>12 DEF l

\* An operation keeps the types.
LEMMA PerformsTypes ==
  ASSUME Types, NEW p \in Phone, NEW o \in Outcome, NEW d, Performs(p, o, d),
         ControlOK(o.ctl, lastConn),
         o.ctl.context = ctl[p].context \/ \A w \in Caller : opening[p][w].step = "none",
         d \in Conn => Len(inbox[p][d]) > 0
  PROVE  Types'
<1>1. /\ OnlyOf(p) /\ knocks' = knocks /\ opener' = opener
      /\ ctl'[p] = o.ctl /\ told'[p] = o.told
      /\ opening'[p] = [opening[p] EXCEPT !["connect"] = Settled(p, o)]
      /\ native'[p] = IF native[p] \in o.drop THEN 0 ELSE native[p]
  BY PerformsDoes
<1>2. inbox' \in [Phone -> [Conn -> Seq(Event)]]
  <2>1. inbox' = Delivered(p, o.wire, o.frames, d, o.drop)
    BY DEF Performs
  <2>2. ASSUME NEW q \in Phone, NEW e \in Conn
        PROVE  (IF q = p THEN IF e \in o.drop THEN <<>> ELSE IF e = d THEN Tail(inbox[p][e]) ELSE inbox[p][e]
                ELSE IF e = o.wire /\ Receives(q, e) THEN inbox[q][e] \o o.frames ELSE inbox[q][e])
               \in Seq(Event)
    <3>1. inbox[q][e] \in Seq(Event) /\ inbox[p][e] \in Seq(Event) /\ o.frames \in Seq(Event)
      BY EndTypes DEF Outcome
    <3>2. inbox[q][e] \o o.frames \in Seq(Event)
      BY <3>1, ConcatProperties
    <3>3. e = d => Tail(inbox[p][e]) \in Seq(Event)
      BY <3>1, HeadTailProperties, EmptySeq
    <3> QED
      BY <3>1, <3>2, <3>3
  <2> QED
    BY <2>1, <2>2 DEF Delivered
<1>3. opener' \in Seq(Phone) /\ Len(opener') <= MaxSession
  BY <1>1 DEF Types, lastSession
<1>4. PhoneOK(ctl[p], opening[p], told[p], native[p], knocks[p], inbox[p], lastConn) /\ lastConn \in Nat
  BY EndTypes
<1>5. PICK l : l = [opening[p] EXCEPT !["connect"] = Settled(p, o)]
  OBVIOUS
<1>6. /\ OpeningOK(l, lastConn)
      /\ (\A w \in Caller : opening[p][w].step = "none") => \A w \in Caller : l[w].step = "none"
  BY <1>5, SettledIs
<1>7. ~o.ctl.context => \A w \in Caller : l[w].step = "none"
  BY <1>4, <1>6 DEF PhoneOK
<1>8. o.told \in SessionOrNone
  BY DEF Outcome
<1>9. inbox'[p] \in [Conn -> Seq(Event)]
  BY <1>2
<1>10. native'[p] \in 0..lastConn /\ knocks'[p] \subseteq 1..lastConn
  BY <1>1, <1>4 DEF PhoneOK
<1>11. opening'[p] = l
  BY <1>1, <1>5
<1>12. PhoneOK(ctl'[p], opening'[p], told'[p], native'[p], knocks'[p], inbox'[p], lastConn)
  BY <1>1, <1>6, <1>7, <1>8, <1>9, <1>10, <1>11 DEF PhoneOK
<1> QED
  BY <1>1, <1>2, <1>3, <1>12, TypesKept

\* The active connection is no socket that waits to be classified.
LEMMA ActiveClassified ==
  ASSUME Types, Links, NEW p \in Phone
  PROVE  ctl[p].active.connectionId \notin knocks[p]
<1>1. SUFFICES ASSUME NEW c, c = ctl[p].active.connectionId, c \in knocks[p] PROVE FALSE
  OBVIOUS
<1>2. c \in 1..lastConn /\ lastConn \in Nat /\ lastConn <= MaxConn
  BY <1>1, EndTypes DEF PhoneOK
<1>3. c \in Conn /\ ~(c > lastConn)
  BY <1>2, Bounds DEF Conn
<1>4. PICK d \in Phone, s \in Session : LinkOf(c, d, Other(d), s)
  BY <1>3 DEF Links
<1>5. PICK r : r = Other(d) /\ (p = d \/ p = r)
  BY TwoPhones
<1> QED
  BY <1>1, <1>4, <1>5 DEF LinkOf, Link, DiallerOK, DialledOK

\* An operation, seen from a connection that is not the active one after it.
LEMMA PerformsQuits ==
  ASSUME Types, Links, NEW p \in Phone, NEW o, NEW d, Performs(p, o, d),
         NEW c \in Conn, o.wire # c, o.ctl.active.connectionId # c, o.drop \cap knocks[p] = {},
         d = c => c \notin knocks[p] /\ Len(inbox[p][c]) > 0
  PROVE  Kept(c)
<1>1. /\ OnlyOf(p) /\ knocks' = knocks
      /\ ctl'[p] = o.ctl
      /\ opening'[p] = [opening[p] EXCEPT !["connect"] = Settled(p, o)]
      /\ native'[p] = IF native[p] \in o.drop THEN 0 ELSE native[p]
      /\ inbox'[p][c] = IF c \in o.drop THEN <<>>
                        ELSE IF c = d THEN Tail(inbox[p][c]) ELSE inbox[p][c]
      /\ \A q \in Phone \ {p} : inbox'[q][c] = inbox[q][c]
  BY PerformsDoes
<1>2. Others(p) /\ Silent(p, c)
  BY <1>1, OnlyOthers DEF Silent
<1>3. Fewer(c, opening[p], opening'[p])
  <2>1. PICK l : l = [opening[p] EXCEPT !["connect"] = Settled(p, o)]
    OBVIOUS
  <2>2. Fewer(c, opening[p], l)
    BY <2>1, SettledIs
  <2> QED
    BY <1>1, <2>1, <2>2
<1>4. Part(inbox[p][c], inbox'[p][c])
  BY <1>1 DEF Part
<1>5. 0 # c
  BY DEF Conn
<1>6. Quits(p, c)
  BY <1>1, <1>3, <1>4, <1>5 DEF Quits
<1> QED
  BY <1>2, <1>6, QuitsKept

\* An operation, seen from a connection that it leaves.
LEMMA PerformsStays ==
  ASSUME Types, NEW p \in Phone, NEW o, NEW d, Performs(p, o, d),
         NEW c \in Conn, o.wire # c, o.ctl.active = ctl[p].active, o.connect = "pending",
         c \notin o.drop, d # c
  PROVE  Kept(c)
<1>1. /\ OnlyOf(p) /\ knocks' = knocks
      /\ ctl'[p] = o.ctl
      /\ opening'[p] = [opening[p] EXCEPT !["connect"] = Settled(p, o)]
      /\ native'[p] = IF native[p] \in o.drop THEN 0 ELSE native[p]
      /\ inbox'[p][c] = inbox[p][c]
      /\ \A q \in Phone \ {p} : inbox'[q][c] = inbox[q][c]
  BY PerformsDoes
<1>2. Others(p) /\ Silent(p, c)
  BY <1>1, OnlyOthers DEF Silent
<1>3. Fewer(c, opening[p], opening'[p]) /\ opening'[p] = opening[p]
  BY <1>1, SettledIs
<1>4. 0 # c
  BY DEF Conn
<1>5. Stays(p, c)
  BY <1>1, <1>3, <1>4 DEF Stays
<1> QED
  BY <1>2, <1>5, StaysKept

\* An operation of a connection that is open opens none.
LEMMA PerformsUnused ==
  ASSUME Types, NEW p \in Phone, NEW o, NEW d, Performs(p, o, d),
         NEW c \in Conn, Unused(c), o.wire # c, d # c
  PROVE  Unused(c)'
<1>1. /\ knocks' = knocks
      /\ opening'[p] = [opening[p] EXCEPT !["connect"] = Settled(p, o)]
      /\ inbox'[p][c] = IF c \in o.drop THEN <<>> ELSE inbox[p][c]
      /\ \A q \in Phone \ {p} : inbox'[q][c] = inbox[q][c]
  BY PerformsDoes
<1>2. \A q \in Phone : inbox[q][c] = <<>> /\ c \notin knocks[q]
  BY DEF Unused
<1> QED
  BY <1>1, <1>2 DEF Unused

\* An operation that sends nothing, and keeps its active connection or lets it go.
LEMMA GentleStep ==
  ASSUME Types, Links, NEW p \in Phone, NEW o, NEW d, Performs(p, o, d),
         NEW a, a = ctl[p].active, NEW t, Gentle(o, a, {a.connectionId}, t),
         t = ctl[p].context \/ \A w \in Caller : opening[p][w].step = "none",
         d = 0 \/ d \in Conn,
         d \in Conn => d \notin knocks[p] /\ Len(inbox[p][d]) > 0,
         d \in Conn => \/ o.ctl.active = NoActive \/ a.connectionId # d
                       \/ inbox[p][d][1] \in Last
  PROVE  Types' /\ Links'
<1>1. /\ o \in Outcome /\ ControlOK(o.ctl, lastConn) /\ o.ctl.context = t
      /\ o.wire = 0 /\ o.drop \subseteq {a.connectionId}
      /\ \/ o.ctl.active = a /\ o.drop = {} /\ o.connect = "pending"
         \/ o.ctl.active = NoActive
  BY DEF Gentle, Loose
<1>2. Types'
  BY <1>1, PerformsTypes
<1>3. o.drop \cap knocks[p] = {}
  BY <1>1, ActiveClassified
<1>4. lastConn' = lastConn
  BY DEF Performs
<1>5. ASSUME NEW c \in Conn, Unused(c) PROVE Unused(c)'
  <2>1. inbox[p][c] = <<>>
    BY <1>5 DEF Unused
  <2>2. d # c /\ o.wire # c
    BY <2>1, <1>1 DEF Conn
  <2> QED
    BY <1>5, <2>2, PerformsUnused
<1>6. ASSUME NEW c \in Conn PROVE Kept(c)
  <2>1. 0 # c /\ o.wire # c
    BY <1>1 DEF Conn
  <2>2. CASE o.ctl.active.connectionId # c
    BY <1>3, <2>1, <2>2, PerformsQuits
  <2>3. CASE o.ctl.active.connectionId = c
    <3>1. o.ctl.active # NoActive
      BY <2>1, <2>3 DEF NoActive
    <3>2. o.ctl.active = a /\ o.drop = {} /\ o.connect = "pending" /\ a.connectionId = c
      BY <1>1, <2>3, <3>1
    <3>3. CASE d # c
      BY <2>1, <3>2, <3>3, PerformsStays
    <3>4. CASE d = c
      <4>1. inbox[p][c][1] \in Last /\ Len(inbox[p][c]) > 0
        BY <3>1, <3>2, <3>4
      <4>2. /\ OnlyOf(p) /\ knocks' = knocks
            /\ ctl'[p] = o.ctl
            /\ opening'[p] = [opening[p] EXCEPT !["connect"] = Settled(p, o)]
            /\ native'[p] = IF native[p] \in o.drop THEN 0 ELSE native[p]
            /\ inbox'[p][c] = IF c \in o.drop THEN <<>>
                              ELSE IF c = d THEN Tail(inbox[p][c]) ELSE inbox[p][c]
            /\ \A q \in Phone \ {p} : inbox'[q][c] = inbox[q][c]
        BY <2>1, PerformsDoes
      <4>3. Others(p) /\ Silent(p, c)
        BY <4>2, OnlyOthers DEF Silent
      <4>4. Fewer(c, opening[p], opening'[p])
        <5>1. PICK l : l = [opening[p] EXCEPT !["connect"] = Settled(p, o)]
          OBVIOUS
        <5>2. Fewer(c, opening[p], l)
          BY <5>1, SettledIs
        <5> QED
          BY <4>2, <5>1, <5>2
      <4>5. Ends(p, c)
        BY <3>2, <3>4, <4>1, <4>2, <4>4 DEF Ends
      <4> QED
        BY <4>3, <4>5, EndsKept
    <3> QED
      BY <3>3, <3>4
  <2> QED
    BY <2>2, <2>3
<1>7. \A c \in Conn : IF c > lastConn THEN Unused(c)' ELSE Kept(c)
  BY <1>5, <1>6 DEF Links
<1> QED
  BY <1>2, <1>4, <1>7, LinksKept

-----------------------------------------------------------------------------
(***************************************************************************)
(* The actions.                                                            *)
(***************************************************************************)

\* close() ends the session.
LEMMA CloseStep ==
  ASSUME Types, Links, NEW p \in Phone, Close(p)
  PROVE  Types' /\ Links'
<1>1. PICK o : o = Closing(p)
  OBVIOUS
<1>2. PICK a : a = ctl[p].active
  OBVIOUS
<1>3. Gentle(o, a, {a.connectionId}, ctl[p].context)
  BY <1>1, <1>2, ClosingGentle
<1>4. Performs(p, o, 0)
  BY <1>1 DEF Close
<1>5. 0 \notin Conn
  BY DEF Conn
<1> QED
  BY <1>2, <1>3, <1>4, <1>5, GentleStep

\* deactivate() ends it too.
LEMMA DeactivateStep ==
  ASSUME Types, Links, NEW p \in Phone, Deactivate(p)
  PROVE  Types' /\ Links'
<1>1. PICK e : e = Closing(p)
  OBVIOUS
<1>2. PICK a : a = ctl[p].active
  OBVIOUS
<1>3. Gentle(e, a, {a.connectionId}, ctl[p].context) /\ e.ctl.active = NoActive
  BY <1>1, <1>2, ClosingGentle
<1>4. PICK o : o = [e EXCEPT !.ctl.context = FALSE]
  OBVIOUS
<1>5. e \in Outcome /\ e.ctl \in Control
  BY <1>3 DEF Gentle, Loose, Outcome
<1>6. PICK y : y = [e.ctl EXCEPT !.context = FALSE]
  OBVIOUS
<1>7. /\ y \in Control /\ y.active = NoActive /\ ~y.context /\ y.context = FALSE
      /\ y.resumeSessionId = e.ctl.resumeSessionId /\ y.reconnectAttempt = e.ctl.reconnectAttempt
  BY <1>3, <1>5, <1>6 DEF Control
<1>8. o = [e EXCEPT !.ctl = y]
  BY <1>4, <1>5, <1>6 DEF Outcome
<1>9. /\ o \in Outcome /\ o.ctl = y /\ o.drop = e.drop /\ o.wire = e.wire /\ o.frames = e.frames
  BY <1>5, <1>7, <1>8 DEF Outcome
<1>10. ControlOK(y, lastConn)
  <2>1. ControlOK(e.ctl, lastConn)
    BY <1>3 DEF Gentle, Loose
  <2>2. NoActive.connectionId = 0
    BY DEF NoActive
  <2> QED
    BY <1>3, <1>7, <2>1, <2>2 DEF ControlOK
<1>11. Gentle(o, a, {a.connectionId}, FALSE)
  BY <1>3, <1>7, <1>9, <1>10 DEF Gentle, Loose
<1>12. Performs(p, o, 0)
  BY <1>1, <1>4 DEF Deactivate
<1>13. \A w \in Caller : opening[p][w].step = "none"
  BY DEF Deactivate, ApiFree, QueueFree, Caller
<1>14. 0 \notin Conn
  BY DEF Conn
<1> QED
  BY <1>2, <1>11, <1>12, <1>13, <1>14, GentleStep

\* activate() takes the context.
LEMMA ActivateStep ==
  ASSUME Types, Links, NEW p \in Phone, Activate(p)
  PROVE  Types' /\ Links'
<1>1. PICK e : e = Unchanged(p)
  OBVIOUS
<1>2. PICK a : a = ctl[p].active
  OBVIOUS
<1>3. Gentle(e, a, {a.connectionId}, ctl[p].context) /\ e.ctl = ctl[p]
  BY <1>1, <1>2, StartGentle
<1>4. PICK o : o = [e EXCEPT !.ctl.context = TRUE]
  OBVIOUS
<1>5. e \in Outcome /\ e.ctl \in Control
  BY <1>3 DEF Gentle, Loose, Outcome
<1>6. PICK y : y = [e.ctl EXCEPT !.context = TRUE]
  OBVIOUS
<1>7. /\ y \in Control /\ y.active = a /\ y.context = TRUE
      /\ y.resumeSessionId = e.ctl.resumeSessionId /\ y.reconnectAttempt = e.ctl.reconnectAttempt
  BY <1>2, <1>3, <1>5, <1>6 DEF Control
<1>8. o = [e EXCEPT !.ctl = y]
  BY <1>4, <1>5, <1>6 DEF Outcome
<1>9. /\ o \in Outcome /\ o.ctl = y /\ o.drop = e.drop /\ o.wire = e.wire /\ o.frames = e.frames
      /\ o.connect = e.connect
  BY <1>5, <1>7, <1>8 DEF Outcome
<1>10. ControlOK(y, lastConn)
  <2>1. ControlOK(e.ctl, lastConn)
    BY <1>3 DEF Gentle, Loose
  <2> QED
    BY <1>2, <1>3, <1>7, <2>1 DEF ControlOK
<1>11. e.drop = {} /\ e.connect = "pending"
  BY <1>1 DEF Unchanged
<1>12. Gentle(o, a, {a.connectionId}, TRUE)
  BY <1>3, <1>7, <1>9, <1>10, <1>11 DEF Gentle, Loose
<1>13. Performs(p, o, 0)
  BY <1>1, <1>4 DEF Activate
<1>14. \A w \in Caller : opening[p][w].step = "none"
  BY DEF Activate, ApiFree, QueueFree, Caller
<1>15. 0 \notin Conn
  BY DEF Conn
<1> QED
  BY <1>2, <1>12, <1>13, <1>14, <1>15, GentleStep

\* The handshake did not come in time.
LEMMA HandshakeTimeoutStep ==
  ASSUME Types, Links, NEW p \in Phone, HandshakeTimeout(p)
  PROVE  Types' /\ Links'
<1>1. PICK e : e = Unchanged(p)
  OBVIOUS
<1>2. PICK a : a = ctl[p].active
  OBVIOUS
<1>3. Gentle(e, a, {a.connectionId}, ctl[p].context) /\ e.ctl.active = a
  BY <1>1, <1>2, StartGentle
<1>4. PICK o : o = RefuseHandshake(e)
  OBVIOUS
<1>5. Gentle(o, a, {a.connectionId}, ctl[p].context)
  <2>1. lastConn \in Nat
    BY EndTypes
  <2>2. e.ctl.active.connectionId \in {a.connectionId}
    BY <1>3
  <2>3. PICK D : D = {a.connectionId}
    OBVIOUS
  <2>4. PICK t : t = ctl[p].context
    OBVIOUS
  <2>5. Gentle(e, a, D, t) /\ e.ctl.active.connectionId \in D
    BY <1>3, <2>2, <2>3, <2>4
  <2>6. Gentle(RefuseHandshake(e), a, D, t)
    BY <2>1, <2>5, RefuseGentle
  <2> QED
    BY <1>4, <2>3, <2>4, <2>6
<1>6. Performs(p, o, 0)
  BY <1>1, <1>4 DEF HandshakeTimeout, TimeoutOutcome
<1>7. 0 \notin Conn
  BY DEF Conn
<1> QED
  BY <1>2, <1>5, <1>6, <1>7, GentleStep

\* An operation of the queue starts.
LEMMA DequeuedGentle ==
  ASSUME Types, NEW p \in Phone, ctl[p].queued # <<>>
  PROVE  /\ \A D : Gentle(Dequeued(p), ctl[p].active, D, ctl[p].context)
         /\ Dequeued(p).ctl.active = ctl[p].active
         /\ Dequeued(p).ctl.resumeSessionId = ctl[p].resumeSessionId
<1>1. PICK e : e = Unchanged(p)
  OBVIOUS
<1>2. \A D : Gentle(e, ctl[p].active, D, ctl[p].context)
  BY <1>1, StartGentle
<1>3. e.ctl = ctl[p] /\ ctl[p] \in Control /\ ControlOK(ctl[p], lastConn)
  BY <1>1, StartGentle, EndTypes DEF PhoneOK
<1>4. e \in Outcome
  BY <1>2 DEF Gentle, Loose
<1>5. Tail(ctl[p].queued) \in Seq({"fail", "reconnect"})
  BY <1>3 DEF Control
<1>6. PICK r : r = Tail(ctl[p].queued)
  OBVIOUS
<1>7. PICK y : y = [e.ctl EXCEPT !.queued = r]
  OBVIOUS
<1>8. /\ y \in Control /\ y.active = e.ctl.active /\ y.context = e.ctl.context
      /\ y.resumeSessionId = e.ctl.resumeSessionId /\ y.reconnectAttempt = e.ctl.reconnectAttempt
  BY <1>3, <1>5, <1>6, <1>7 DEF Control
<1>9. Dequeued(p) = [e EXCEPT !.ctl = y]
  BY <1>1, <1>3, <1>4, <1>6, <1>7 DEF Dequeued, Outcome
<1>10. y.resumeSessionId \in SessionOrNone /\ y.reconnectAttempt <= MaxTries
  BY <1>3, <1>8 DEF ControlOK
<1>11. ASSUME NEW D PROVE Gentle([e EXCEPT !.ctl = y], ctl[p].active, D, ctl[p].context)
  BY <1>2, <1>8, <1>10, FieldsGentle
<1>12. [e EXCEPT !.ctl = y].ctl = y
  BY <1>4 DEF Outcome
<1> QED
  BY <1>3, <1>8, <1>9, <1>11, <1>12

\* The interrupted session did not come back.
LEMMA RunFailReconnectStep ==
  ASSUME Types, Links, NEW p \in Phone, RunFailReconnect(p)
  PROVE  Types' /\ Links'
<1>1. PICK e : e = Dequeued(p)
  OBVIOUS
<1>2. PICK a : a = ctl[p].active
  OBVIOUS
<1>3. PICK t : t = ctl[p].context
  OBVIOUS
<1>4. PICK D : D = {a.connectionId}
  OBVIOUS
<1>5. ctl[p].queued # <<>>
  BY DEF RunFailReconnect
<1>6. Gentle(e, a, D, t)
  BY <1>1, <1>2, <1>3, <1>5, DequeuedGentle
<1>7. PICK o : o = FailReconnect(e)
  OBVIOUS
<1>8. Gentle(o, a, D, t)
  BY <1>6, <1>7, FailGentle
<1>9. Performs(p, o, 0)
  BY <1>1, <1>7 DEF RunFailReconnect, FailOutcome
<1>10. 0 \notin Conn
  BY DEF Conn
<1> QED
  BY <1>2, <1>3, <1>4, <1>8, <1>9, <1>10, GentleStep

\* A step of one phone that nobody else sees.
LEMMA QuietStep ==
  ASSUME Types, Links, NEW p \in Phone, OnlyOf(p),
         native' = native, knocks' = knocks, inbox' = inbox, told' = told,
         opener' \in Seq(Phone), Len(opener') <= MaxSession,
         ControlOK(ctl'[p], lastConn), OpeningOK(opening'[p], lastConn),
         ~ctl'[p].context => \A w \in Caller : opening'[p][w].step = "none",
         \A c \in Conn : Fewer(c, opening[p], opening'[p]),
         \/ ctl'[p].active = NoActive
         \/ /\ ctl'[p].active = ctl[p].active
            /\ \A c \in Conn : native[p] = c => (EarlyOn(opening[p], c) <=> EarlyOn(opening'[p], c))
  PROVE  Types' /\ Links'
<1>1. inbox' \in [Phone -> [Conn -> Seq(Event)]]
  BY DEF Types
<1>2. PhoneOK(ctl[p], opening[p], told[p], native[p], knocks[p], inbox[p], lastConn)
  BY EndTypes
<1>3. PhoneOK(ctl'[p], opening'[p], told'[p], native'[p], knocks'[p], inbox'[p], lastConn)
  BY <1>2 DEF PhoneOK
<1>4. Types'
  BY <1>1, <1>3, TypesKept
<1>5. lastConn' = lastConn
  BY DEF OnlyOf
<1>6. Others(p)
  BY OnlyOthers
<1>7. ASSUME NEW c \in Conn PROVE Kept(c)
  <2>1. Silent(p, c)
    BY DEF Silent
  <2>2. CASE ctl'[p].active = NoActive
    <3>1. ctl'[p].active.connectionId # c
      BY <2>2 DEF NoActive, Conn
    <3>2. Quits(p, c)
      BY <3>1 DEF Quits, Part
    <3> QED
      BY <1>6, <2>1, <3>2, QuitsKept
  <2>3. CASE ctl'[p].active # NoActive
    <3>1. Stays(p, c)
      BY <2>3 DEF Stays
    <3> QED
      BY <1>6, <2>1, <3>1, StaysKept
  <2> QED
    BY <2>2, <2>3
<1>8. \A c \in Conn : Unused(c) => Unused(c)'
  BY DEF Unused
<1>9. \A c \in Conn : IF c > lastConn THEN Unused(c)' ELSE Kept(c)
  BY <1>7, <1>8 DEF Links
<1> QED
  BY <1>4, <1>5, <1>9, LinksKept

\* The opening of caller w becomes e.
LEMMA OpeningChanges ==
  ASSUME Types, NEW p \in Phone, NEW w \in Caller, NEW e \in Opening, Opens(p, w, e)
  PROVE  /\ opening' = [opening EXCEPT ![p] = opening'[p]]
         /\ opening'[p] \in [Caller -> Opening]
         /\ opening'[p][w] = e /\ \A v \in Caller \ {w} : opening'[p][v] = opening[p][v]
<1>1. opening \in [Phone -> [Caller -> Opening]]
  BY DEF Types
<1>2. PICK l : l = [opening[p] EXCEPT ![w] = e]
  OBVIOUS
<1>3. opening' = [opening EXCEPT ![p] = l]
  BY <1>1, <1>2 DEF Opens
<1>4. opening'[p] = l
  BY <1>1, <1>3
<1> QED
  BY <1>1, <1>2, <1>3, <1>4

\* It is no step of an initiator that has not sent its hello.
LEMMA OpeningLeaves ==
  ASSUME Types, NEW p \in Phone, NEW w \in Caller, NEW e \in Opening, Opens(p, w, e),
         e.step \notin Early, e.sessionId \in SessionOrNone, e.connectionId \in 0..lastConn,
         e.step # "none" => e.sessionId # 0
  PROVE  /\ OpeningOK(opening'[p], lastConn)
         /\ \A c : Fewer(c, opening[p], opening'[p])
         /\ \A c : ~IsEarly(opening[p], w, c) => (EarlyOn(opening[p], c) <=> EarlyOn(opening'[p], c))
<1>1. PICK l : l = opening'[p]
  OBVIOUS
<1>2. /\ l \in [Caller -> Opening]
      /\ l[w] = e /\ \A v \in Caller \ {w} : l[v] = opening[p][v]
  BY <1>1, OpeningChanges
<1>3. OpeningOK(opening[p], lastConn)
  BY EndTypes DEF PhoneOK
<1>4. ASSUME NEW v \in Caller
      PROVE  /\ l[v].sessionId \in SessionOrNone /\ l[v].connectionId \in 0..lastConn
             /\ l[v].step # "none" => l[v].sessionId # 0
             /\ l[v].step \in Early => l[v].connectionId # 0
             /\ l[v].step \in Early => l[v] = opening[p][v]
  BY <1>2, <1>3 DEF OpeningOK
<1>5. l["connect"].step \in Early /\ l["reconnect"].step \in Early
        => l["connect"].connectionId # l["reconnect"].connectionId
  <2>1. "connect" \in Caller /\ "reconnect" \in Caller
    BY DEF Caller
  <2> QED
    BY <1>3, <1>4, <2>1 DEF OpeningOK
<1>6. OpeningOK(l, lastConn)
  BY <1>2, <1>4, <1>5 DEF OpeningOK
<1>7. \A c : \A v \in Caller : IsEarly(l, v, c) => v # w /\ l[v] = opening[p][v]
  BY <1>2 DEF IsEarly
<1>8. \A c : Fewer(c, opening[p], l)
  BY <1>7 DEF Fewer, IsEarly
<1>9. ASSUME NEW c, ~IsEarly(opening[p], w, c)
      PROVE  EarlyOn(opening[p], c) <=> EarlyOn(l, c)
  <2>1. ASSUME NEW v \in Caller PROVE IsEarly(opening[p], v, c) <=> IsEarly(l, v, c)
    <3>1. CASE v = w
      BY <1>7, <1>9, <3>1
    <3>2. CASE v # w
      BY <1>2, <3>2 DEF IsEarly
    <3> QED
      BY <3>1, <3>2
  <2> QED
    BY <2>1 DEF EarlyOn
<1> QED
  BY <1>1, <1>6, <1>8, <1>9

\* A caller that opens holds a context.
LEMMA OpensInContext ==
  ASSUME Types, NEW p \in Phone, NEW w \in Caller, opening[p][w].step # "none"
  PROVE  ctl[p].context
  BY EndTypes DEF PhoneOK

\* connect() starts.
LEMMA ConnectStep ==
  ASSUME Types, Links, NEW p \in Phone, Connect(p)
  PROVE  Types' /\ Links'
<1>1. "connect" \in Caller /\ lastSession \in Nat /\ lastSession < MaxSession
  BY DEF Connect, Caller, Types, lastSession
<1>2. PICK s : s = lastSession + 1
  OBVIOUS
<1>3. s \in SessionOrNone /\ s # 0 /\ s \in Nat
  BY <1>1, <1>2, Bounds DEF SessionOrNone
<1>4. PICK e : e = [NoOpening EXCEPT !.step = "dialling", !.sessionId = s]
  OBVIOUS
<1>5. e \in Opening /\ e.step = "dialling" /\ e.sessionId = s /\ e.connectionId = 0
  BY <1>3, <1>4 DEF NoOpening, Opening
<1>6. Opens(p, "connect", e)
  BY <1>2, <1>4 DEF Connect, Opens
<1>7. lastConn \in Nat
  BY EndTypes
<1>8. e.step \notin Early /\ e.connectionId \in 0..lastConn
  BY <1>5, <1>7 DEF Early
<1>9. /\ OpeningOK(opening'[p], lastConn)
      /\ \A c : Fewer(c, opening[p], opening'[p])
      /\ \A c : ~IsEarly(opening[p], "connect", c) => (EarlyOn(opening[p], c) <=> EarlyOn(opening'[p], c))
  BY <1>1, <1>3, <1>5, <1>6, <1>8, OpeningLeaves
<1>10. \A c : ~IsEarly(opening[p], "connect", c)
  BY DEF Connect, IsEarly, Early
<1>11. opening' = [opening EXCEPT ![p] = opening'[p]]
  BY <1>1, <1>5, <1>6, OpeningChanges
<1>12. ctl' = ctl /\ told' = told /\ native' = native /\ knocks' = knocks /\ inbox' = inbox /\ lastConn' = lastConn
  BY DEF Connect, network
<1>13. Domains
  BY DEF Types, Domains
<1>14. OnlyOf(p)
  BY <1>11, <1>12, <1>13 DEF OnlyOf, Domains
<1>15. opener' \in Seq(Phone) /\ Len(opener') <= MaxSession
  <2>1. opener \in Seq(Phone)
    BY DEF Types
  <2>2. opener' = Append(opener, p)
    BY DEF Connect
  <2>3. Len(opener') = Len(opener) + 1 /\ opener' \in Seq(Phone)
    BY <2>1, <2>2
  <2> QED
    BY <1>1, <2>3, Bounds DEF lastSession
<1>16. ControlOK(ctl'[p], lastConn) /\ ctl'[p].context
  BY <1>12, EndTypes DEF PhoneOK, Connect
<1> QED
  BY <1>9, <1>10, <1>12, <1>14, <1>15, <1>16, QuietStep

\* openInitiator gives up: caller w's opening ends while the fields become y.
LEMMA GivesUp ==
  ASSUME Types, Links, NEW p \in Phone, NEW w \in Caller, Opens(p, w, NoOpening),
         NEW y, ctl' = [ctl EXCEPT ![p] = y], ControlOK(y, lastConn), y.context = ctl[p].context,
         y.active = NoActive \/ y.active = ctl[p].active,
         \A c \in Conn : native[p] = c => ~IsEarly(opening[p], w, c),
         UNCHANGED <<told, network, opener>>
  PROVE  Types' /\ Links'
<1>1. NoOpening \in Opening /\ NoOpening.step = "none" /\ NoOpening.sessionId = 0 /\ NoOpening.connectionId = 0
  BY DEF NoOpening, Opening
<1>2. lastConn \in Nat
  BY EndTypes
<1>3. /\ OpeningOK(opening'[p], lastConn)
      /\ \A c : Fewer(c, opening[p], opening'[p])
      /\ \A c : ~IsEarly(opening[p], w, c) => (EarlyOn(opening[p], c) <=> EarlyOn(opening'[p], c))
  BY <1>1, <1>2, Bounds, OpeningLeaves DEF Early
<1>4. /\ opening' = [opening EXCEPT ![p] = opening'[p]]
      /\ opening'[p][w] = NoOpening /\ \A v \in Caller \ {w} : opening'[p][v] = opening[p][v]
  BY <1>1, OpeningChanges
<1>5. Domains
  BY DEF Types, Domains
<1>6. ctl'[p] = y
  BY <1>5 DEF Domains
<1>7. /\ told' = told /\ native' = native /\ knocks' = knocks /\ inbox' = inbox
      /\ lastConn' = lastConn /\ opener' = opener
  BY DEF network
<1>8. OnlyOf(p)
  BY <1>4, <1>5, <1>6, <1>7 DEF OnlyOf, Domains
<1>9. ~y.context => \A v \in Caller : opening'[p][v].step = "none"
  <2>1. ~ctl[p].context => \A v \in Caller : opening[p][v].step = "none"
    BY EndTypes DEF PhoneOK
  <2> QED
    BY <1>1, <1>4, <2>1
<1>10. opener' \in Seq(Phone) /\ Len(opener') <= MaxSession
  BY <1>7 DEF Types, lastSession
<1> QED
  BY <1>3, <1>6, <1>7, <1>8, <1>9, <1>10, QuietStep

\* transport.connect throws.
LEMMA DialFailsStep ==
  ASSUME Types, Links, NEW p \in Phone, NEW w \in Caller, DialFails(p, w)
  PROVE  Types' /\ Links'
<1>1. PICK o : o = Unchanged(p)
  OBVIOUS
<1>2. PICK a : a = ctl[p].active
  OBVIOUS
<1>3. PICK t : t = ctl[p].context
  OBVIOUS
<1>4. Gentle(o, a, {}, t) /\ o.ctl = ctl[p]
  BY <1>1, <1>2, <1>3, StartGentle
<1>5. PICK r : r = ScheduleInitiatorReconnect(o)
  OBVIOUS
<1>6. Gentle(r, a, {}, t) /\ r.ctl.active = o.ctl.active
  BY <1>4, <1>5, ScheduleGentle
<1>7. PICK y : y = IF w = "connect" THEN ctl[p] ELSE r.ctl
  OBVIOUS
<1>8. ctl' = [ctl EXCEPT ![p] = y]
  BY <1>1, <1>5, <1>7 DEF DialFails
<1>9. ControlOK(y, lastConn) /\ y.context = ctl[p].context /\ y.active = ctl[p].active
  BY <1>3, <1>4, <1>6, <1>7 DEF Gentle, Loose
<1>10. \A c \in Conn : ~IsEarly(opening[p], w, c)
  BY DEF DialFails, IsEarly, Early
<1>11. Opens(p, w, NoOpening) /\ UNCHANGED <<told, network, opener>>
  BY DEF DialFails
<1> QED
  BY <1>8, <1>9, <1>10, <1>11, GivesUp

\* transport.send throws.
LEMMA HelloFailsStep ==
  ASSUME Types, Links, NEW p \in Phone, NEW w \in Caller, HelloFails(p, w)
  PROVE  Types' /\ Links'
<1>1. PICK o : o = Unchanged(p)
  OBVIOUS
<1>2. PICK a : a = ctl[p].active
  OBVIOUS
<1>3. PICK t : t = ctl[p].context
  OBVIOUS
<1>4. PICK at : at = opening[p][w]
  OBVIOUS
<1>5. PICK b : b = NewActive(at.connectionId, "initiator", at.sessionId, FALSE)
  OBVIOUS
<1>6. PICK D : D = {at.connectionId}
  OBVIOUS
<1>7. Gentle(o, a, D, t) /\ o.ctl = ctl[p]
  BY <1>1, <1>2, <1>3, StartGentle
<1>8. /\ at.connectionId \in 0..lastConn /\ at.sessionId \in SessionOrNone /\ lastConn \in Nat
  BY <1>4, EndTypes DEF PhoneOK, OpeningOK
<1>9. b.connectionId = at.connectionId /\ b.role = "initiator" /\ b.sessionId = at.sessionId
  BY <1>5 DEF NewActive, NoActive
<1>10. PICK e : e = BeginReconnect(o, b)
  OBVIOUS
<1>11. Gentle(e, a, D, t)
  <2>1. b.connectionId \in Nat /\ b.connectionId \in D /\ b.role \in Role /\ b.sessionId \in SessionOrNone
    BY <1>6, <1>8, <1>9 DEF Role
  <2> QED
    BY <1>7, <1>8, <1>10, <2>1, BeginGentle
<1>12. PICK r : r = ScheduleInitiatorReconnect(e)
  OBVIOUS
<1>13. Gentle(r, a, D, t)
  BY <1>11, <1>12, ScheduleGentle
<1>14. PICK y : y = IF w = "connect" THEN e.ctl ELSE r.ctl
  OBVIOUS
<1>15. ctl' = [ctl EXCEPT ![p] = y]
  BY <1>1, <1>4, <1>5, <1>10, <1>12, <1>14 DEF HelloFails
<1>16. /\ ControlOK(y, lastConn) /\ y.context = ctl[p].context
       /\ y.active = NoActive \/ y.active = ctl[p].active
  BY <1>2, <1>3, <1>11, <1>13, <1>14 DEF Gentle, Loose
<1>17. \A c \in Conn : native[p] = c => ~IsEarly(opening[p], w, c)
  BY DEF HelloFails, IsEarly
<1>18. Opens(p, w, NoOpening) /\ UNCHANGED <<told, network, opener>>
  BY DEF HelloFails
<1> QED
  BY <1>15, <1>16, <1>17, <1>18, GivesUp

\* Only fields of p change, and its active connection is not one of them.
LEMMA FieldsStep ==
  ASSUME Types, Links, NEW p \in Phone, NEW y, ctl' = [ctl EXCEPT ![p] = y],
         y \in Control, y.active = ctl[p].active, y.context = ctl[p].context,
         y.resumeSessionId = ctl[p].resumeSessionId, y.reconnectAttempt = ctl[p].reconnectAttempt,
         UNCHANGED <<opening, told, network, opener>>
  PROVE  Types' /\ Links'
<1>1. ControlOK(ctl[p], lastConn) /\ OpeningOK(opening[p], lastConn)
  BY EndTypes DEF PhoneOK
<1>2. ControlOK(y, lastConn)
  BY <1>1, ControlStays DEF ControlOK
<1>3. Domains
  BY DEF Types, Domains
<1>4. ctl'[p] = y
  BY <1>3 DEF Domains
<1>5. /\ told' = told /\ native' = native /\ knocks' = knocks /\ inbox' = inbox
      /\ lastConn' = lastConn /\ opener' = opener /\ opening' = opening
  BY DEF network
<1>6. OnlyOf(p)
  BY <1>3, <1>4, <1>5 DEF OnlyOf, Domains
<1>7. ~y.context => \A v \in Caller : opening'[p][v].step = "none"
  BY <1>5, EndTypes DEF PhoneOK
<1>8. opener' \in Seq(Phone) /\ Len(opener') <= MaxSession
  BY <1>5 DEF Types, lastSession
<1>9. \A c \in Conn : Fewer(c, opening[p], opening'[p])
  BY <1>5 DEF Fewer
<1> QED
  BY <1>1, <1>2, <1>4, <1>5, <1>6, <1>7, <1>8, <1>9, QuietStep

\* The next attempt is due.
LEMMA ReconnectTimerStep ==
  ASSUME Types, Links, NEW p \in Phone, ReconnectTimer(p)
  PROVE  Types' /\ Links'
<1>1. ctl[p] \in Control /\ ctl \in [Phone -> Control]
  BY EndTypes DEF Types
<1>2. PICK r : r = Append(ctl[p].queued, "reconnect")
  OBVIOUS
<1>3. r \in Seq({"fail", "reconnect"})
  BY <1>1, <1>2 DEF Control
<1>4. PICK y : y = [ctl[p] EXCEPT !.reconnectTimer = FALSE, !.queued = r]
  OBVIOUS
<1>5. /\ y \in Control /\ y.active = ctl[p].active /\ y.context = ctl[p].context
      /\ y.resumeSessionId = ctl[p].resumeSessionId /\ y.reconnectAttempt = ctl[p].reconnectAttempt
  BY <1>1, <1>3, <1>4 DEF Control
<1>6. ctl' = [ctl EXCEPT ![p] = y]
  BY <1>1, <1>2, <1>4 DEF ReconnectTimer, Control
<1>7. UNCHANGED <<opening, told, network, opener>>
  BY DEF ReconnectTimer
<1> QED
  BY <1>5, <1>6, <1>7, FieldsStep

\* The responder has waited long enough.
LEMMA ResponderTimerStep ==
  ASSUME Types, Links, NEW p \in Phone, ResponderReconnectTimer(p)
  PROVE  Types' /\ Links'
<1>1. ctl[p] \in Control /\ ctl \in [Phone -> Control]
  BY EndTypes DEF Types
<1>2. PICK r : r = Append(ctl[p].queued, "fail")
  OBVIOUS
<1>3. r \in Seq({"fail", "reconnect"})
  BY <1>1, <1>2 DEF Control
<1>4. PICK y : y = [ctl[p] EXCEPT !.responderReconnectTimer = FALSE, !.queued = r]
  OBVIOUS
<1>5. /\ y \in Control /\ y.active = ctl[p].active /\ y.context = ctl[p].context
      /\ y.resumeSessionId = ctl[p].resumeSessionId /\ y.reconnectAttempt = ctl[p].reconnectAttempt
  BY <1>1, <1>3, <1>4 DEF Control
<1>6. ctl' = [ctl EXCEPT ![p] = y]
  BY <1>1, <1>2, <1>4 DEF ResponderReconnectTimer, Control
<1>7. UNCHANGED <<opening, told, network, opener>>
  BY DEF ResponderReconnectTimer
<1> QED
  BY <1>5, <1>6, <1>7, FieldsStep

\* The next attempt starts.
LEMMA RunReconnectStep ==
  ASSUME Types, Links, NEW p \in Phone, RunReconnect(p)
  PROVE  Types' /\ Links'
<1>1. PICK y : y = Dequeued(p).ctl
  OBVIOUS
<1>2. /\ ControlOK(y, lastConn) /\ y.active = ctl[p].active /\ y.context = ctl[p].context
  <2>1. ctl[p].queued # <<>>
    BY DEF RunReconnect
  <2>2. Gentle(Dequeued(p), ctl[p].active, {}, ctl[p].context) /\ Dequeued(p).ctl.active = ctl[p].active
    BY <2>1, DequeuedGentle
  <2> QED
    BY <1>1, <2>2 DEF Gentle, Loose
<1>3. ctl' = [ctl EXCEPT ![p] = y]
  BY <1>1 DEF RunReconnect
<1>4. PICK e : e = IF CanReconnect(ctl[p])
                   THEN [NoOpening EXCEPT !.step = "dialling", !.sessionId = ctl[p].resumeSessionId]
                   ELSE NoOpening
  OBVIOUS
<1>5. ctl[p].resumeSessionId \in SessionOrNone /\ lastConn \in Nat
  BY EndTypes DEF PhoneOK, ControlOK
<1>6. /\ e \in Opening /\ e.sessionId \in SessionOrNone /\ e.connectionId = 0
      /\ e.step \in {"none", "dialling"}
      /\ e.step # "none" => e.sessionId # 0 /\ ctl[p].context
  <2>1. CASE CanReconnect(ctl[p])
    <3>1. PICK s : s = ctl[p].resumeSessionId
      OBVIOUS
    <3>2. s \in Nat /\ s # 0 /\ s \in SessionOrNone /\ ctl[p].context
      BY <1>5, <2>1, <3>1, Bounds DEF CanReconnect, SessionOrNone
    <3>3. e = [NoOpening EXCEPT !.step = "dialling", !.sessionId = s]
      BY <1>4, <2>1, <3>1
    <3> QED
      BY <3>2, <3>3 DEF NoOpening, Opening
  <2>2. CASE ~CanReconnect(ctl[p])
    <3>1. e = NoOpening
      BY <1>4, <2>2
    <3> QED
      BY <3>1, Bounds DEF NoOpening, Opening
  <2> QED
    BY <2>1, <2>2
<1>7. Opens(p, "reconnect", e) /\ "reconnect" \in Caller
  BY <1>4 DEF RunReconnect, Caller
<1>8. e.step \notin Early /\ e.connectionId \in 0..lastConn
  BY <1>5, <1>6 DEF Early
<1>9. /\ OpeningOK(opening'[p], lastConn)
      /\ \A c : Fewer(c, opening[p], opening'[p])
      /\ \A c : ~IsEarly(opening[p], "reconnect", c) => (EarlyOn(opening[p], c) <=> EarlyOn(opening'[p], c))
  BY <1>6, <1>7, <1>8, OpeningLeaves
<1>10. \A c : ~IsEarly(opening[p], "reconnect", c)
  BY DEF RunReconnect, QueueFree, IsEarly, Early
<1>11. /\ opening' = [opening EXCEPT ![p] = opening'[p]]
       /\ opening'[p]["reconnect"] = e
       /\ \A v \in Caller \ {"reconnect"} : opening'[p][v] = opening[p][v]
  BY <1>6, <1>7, OpeningChanges
<1>12. Domains
  BY DEF Types, Domains
<1>13. ctl'[p] = y
  BY <1>3, <1>12 DEF Domains
<1>14. /\ told' = told /\ native' = native /\ knocks' = knocks /\ inbox' = inbox
       /\ lastConn' = lastConn /\ opener' = opener
  BY DEF RunReconnect, network
<1>15. OnlyOf(p)
  BY <1>3, <1>11, <1>12, <1>13, <1>14 DEF OnlyOf, Domains
<1>16. ~y.context => \A v \in Caller : opening'[p][v].step = "none"
  <2>1. ~ctl[p].context => \A v \in Caller : opening[p][v].step = "none"
    BY EndTypes DEF PhoneOK
  <2> QED
    BY <1>2, <1>6, <1>11, <2>1
<1>17. opener' \in Seq(Phone) /\ Len(opener') <= MaxSession
  BY <1>14 DEF Types, lastSession
<1> QED
  BY <1>2, <1>9, <1>10, <1>13, <1>14, <1>15, <1>16, <1>17, QuietStep

\* An initiator greets on a connection that it has dialled itself.
LEMMA EarlyDials ==
  ASSUME NEW p \in Phone, NEW w \in Caller, NEW c, IsEarly(opening[p], w, c),
         NEW d \in Phone, NEW s, LinkOf(c, d, Other(d), s)
  PROVE  d = p /\ opening[p][w].sessionId = s
<1>1. PICK r \in Phone : r = Other(d) /\ r # d /\ \A q \in Phone : q = d \/ q = r
  BY TwoPhones
<1>2. ~IsEarly(opening[r], w, c)
  BY <1>1 DEF LinkOf, Link, DialledOK
<1>3. d = p
  BY <1>1, <1>2
<1> QED
  BY <1>3 DEF LinkOf, Link, DiallerOK

\* The two callers of openInitiator greet on connections of their own.
LEMMA EarlyAlone ==
  ASSUME Types, NEW p \in Phone, NEW w \in Caller, NEW c, IsEarly(opening[p], w, c)
  PROVE  /\ \A v \in Caller : IsEarly(opening[p], v, c) => v = w
         /\ c \in Conn /\ c \in 1..lastConn
         /\ opening[p][w].sessionId \in SessionOrNone /\ opening[p][w].sessionId # 0
         /\ ctl[p].context
<1>1. OpeningOK(opening[p], lastConn) /\ lastConn \in Nat /\ lastConn <= MaxConn
  BY EndTypes DEF PhoneOK
<1>2. \A v \in Caller : IsEarly(opening[p], v, c) => v = w
  BY <1>1 DEF OpeningOK, IsEarly, Caller
<1>3. c \in 0..lastConn /\ c # 0 /\ opening[p][w].step # "none"
  BY <1>1 DEF OpeningOK, IsEarly, Early
<1>4. c \in Conn /\ c \in 1..lastConn
  BY <1>1, <1>3, Bounds DEF Conn
<1> QED
  BY <1>1, <1>2, <1>3, <1>4, OpensInContext DEF OpeningOK

\* The connection that was dialled becomes the active one.
LEMMA AdoptStep ==
  ASSUME Types, Links, NEW p \in Phone, NEW w \in Caller, Adopt(p, w)
  PROVE  Types' /\ Links'
<1>1. PICK at : at = opening[p][w]
  OBVIOUS
<1>2. PICK k : k = at.connectionId
  OBVIOUS
<1>3. at.step = "dialled" /\ IsEarly(opening[p], w, k)
  BY <1>1, <1>2 DEF Adopt, IsEarly, Early
<1>4. /\ \A v \in Caller : IsEarly(opening[p], v, k) => v = w
      /\ k \in Conn /\ k \in 1..lastConn
      /\ at.sessionId \in SessionOrNone /\ at.sessionId # 0
      /\ ctl[p].context
  BY <1>1, <1>3, EarlyAlone
<1>5. PICK a2 : a2 = NewActive(k, "initiator", at.sessionId, w = "connect")
  OBVIOUS
<1>6. /\ a2.connectionId = k /\ a2.role = "initiator" /\ a2.sessionId = at.sessionId /\ ~a2.keyed
      /\ ActiveOK(a2, lastConn) /\ a2 \in Active
  <2>1. k \in Nat /\ at.sessionId \in Nat /\ k # 0 /\ k \in 0..lastConn
    BY <1>4, Bounds, EndTypes DEF SessionOrNone
  <2>2. /\ a2.connectionId = k /\ a2.role = "initiator" /\ a2.sessionId = at.sessionId
        /\ a2.keyed = FALSE /\ a2.nextSendSequence = 1 /\ a2.lastSequence = 0
    BY <1>5 DEF NewActive, NoActive
  <2>3. a2 \in Active
    BY <1>5, <2>1 DEF NewActive, NoActive, Active, Role
  <2> QED
    BY <1>4, <2>1, <2>2, <2>3 DEF ActiveOK
<1>7. PICK e : e = [at EXCEPT !.step = "adopted"]
  OBVIOUS
<1>8. /\ opening[p] \in [Caller -> Opening] /\ OpeningOK(opening[p], lastConn)
      /\ ctl[p] \in Control /\ ControlOK(ctl[p], lastConn)
      /\ lastConn \in Nat
  BY EndTypes DEF PhoneOK, OpeningOK
<1>9. e \in Opening /\ e.step = "adopted" /\ e.connectionId = k /\ e.sessionId = at.sessionId
  BY <1>1, <1>2, <1>7, <1>8 DEF Opening
<1>10. Opens(p, w, e)
  BY <1>1, <1>7 DEF Adopt
<1>11. PICK l : l = opening'[p]
  OBVIOUS
<1>12. /\ opening' = [opening EXCEPT ![p] = l] /\ l \in [Caller -> Opening]
       /\ l[w] = e /\ \A v \in Caller \ {w} : l[v] = opening[p][v]
  BY <1>9, <1>10, <1>11, OpeningChanges
<1>13. OpeningOK(l, lastConn)
  <2>1. \A v \in Caller : l[v].sessionId = opening[p][v].sessionId /\ l[v].connectionId = opening[p][v].connectionId
    BY <1>1, <1>2, <1>9, <1>12
  <2>2. \A v \in Caller : (l[v].step \in Early <=> opening[p][v].step \in Early)
                          /\ (l[v].step # "none" <=> opening[p][v].step # "none")
    BY <1>1, <1>3, <1>9, <1>12 DEF Early
  <2>3. "connect" \in Caller /\ "reconnect" \in Caller
    BY DEF Caller
  <2> QED
    BY <1>8, <1>12, <2>1, <2>2, <2>3 DEF OpeningOK
<1>14. PICK y : y = [ctl[p] EXCEPT !.active = a2]
  OBVIOUS
<1>15. ControlOK(y, lastConn) /\ y.active = a2 /\ y.context
  <2>1. /\ y \in Control /\ y.active = a2 /\ y.context = ctl[p].context
        /\ y.resumeSessionId = ctl[p].resumeSessionId /\ y.reconnectAttempt = ctl[p].reconnectAttempt
    BY <1>6, <1>8, <1>14 DEF Control
  <2> QED
    BY <1>4, <1>6, <1>8, <2>1 DEF ControlOK
<1>16. ctl' = [ctl EXCEPT ![p] = y]
  BY <1>1, <1>2, <1>5, <1>8, <1>14 DEF Adopt
<1>17. Domains
  BY DEF Types, Domains
<1>18. ctl'[p] = y
  BY <1>16, <1>17 DEF Domains
<1>19. /\ told' = told /\ native' = native /\ knocks' = knocks /\ inbox' = inbox
       /\ lastConn' = lastConn /\ opener' = opener
  BY DEF Adopt, network
<1>20. OnlyOf(p)
  BY <1>11, <1>12, <1>16, <1>17, <1>18, <1>19 DEF OnlyOf, Domains
<1>21. opener' \in Seq(Phone) /\ Len(opener') <= MaxSession /\ inbox' \in [Phone -> [Conn -> Seq(Event)]]
  BY <1>19 DEF Types, lastSession
<1>22. PhoneOK(ctl'[p], opening'[p], told'[p], native'[p], knocks'[p], inbox'[p], lastConn)
  <2>1. PhoneOK(ctl[p], opening[p], told[p], native[p], knocks[p], inbox[p], lastConn)
    BY EndTypes
  <2> QED
    BY <1>11, <1>13, <1>15, <1>18, <1>19, <2>1 DEF PhoneOK
<1>23. Types'
  BY <1>20, <1>21, <1>22, TypesKept
<1>24. Others(p)
  BY <1>20, OnlyOthers
<1>25. ASSUME NEW c \in Conn, c # k PROVE Kept(c)
  <2>1. Silent(p, c)
    BY <1>19 DEF Silent
  <2>2. Fewer(c, opening[p], l)
    <3>1. ASSUME NEW v \in Caller, IsEarly(l, v, c) PROVE v # w
      BY <1>9, <1>12, <1>25, <3>1 DEF IsEarly
    <3> QED
      BY <1>12, <3>1 DEF Fewer, IsEarly
  <2>3. Quits(p, c)
    BY <1>6, <1>11, <1>15, <1>18, <1>19, <1>25, <2>2 DEF Quits, Part
  <2> QED
    BY <1>24, <2>1, <2>3, QuitsKept
<1>26. Kept(k)
  <2> SUFFICES ASSUME NEW d \in Phone, NEW s \in Session, LinkOf(k, d, Other(d), s)
               PROVE  LinkOf(k, d, Other(d), s)'
    BY DEF Kept
  <2>1. d = p
    BY <1>3, EarlyDials
  <2>2. PICK r \in Phone : r = Other(p) /\ r # p
    BY TwoPhones
  <2>3. Link(k, s, ctl[p].active, inbox[p][k], native[p], knocks[p], opening[p],
                   ctl[r].active, inbox[r][k], native[r], knocks[r], opening[r])
    BY <2>1, <2>2 DEF LinkOf
  <2>4. Link(k, s, a2, inbox[p][k], native[p], knocks[p], l,
                   ctl[r].active, inbox[r][k], native[r], knocks[r], opening[r])
    <3>1. opening[p][w].step = "dialled" /\ opening[p][w].connectionId = k
      BY <1>1, <1>2, <1>3
    <3>2. /\ a2.sessionId = opening[p][w].sessionId /\ l[w].step = "adopted"
          /\ l[w].connectionId = k /\ l[w].sessionId = opening[p][w].sessionId
      BY <1>1, <1>6, <1>9, <1>12
    <3> QED
      BY <1>4, <1>6, <1>12, <2>3, <3>1, <3>2, DiallerAdopts
  <2>5. /\ ctl'[r] = ctl[r] /\ opening'[r] = opening[r] /\ native'[r] = native[r] /\ knocks'[r] = knocks[r]
    BY <1>24, <2>2 DEF Others
  <2> QED
    BY <1>11, <1>15, <1>18, <1>19, <2>1, <2>2, <2>4, <2>5 DEF LinkOf
<1>27. \A c \in Conn : IF c > lastConn THEN Unused(c)' ELSE Kept(c)
  <2>1. \A c \in Conn : Unused(c) => Unused(c)'
    BY <1>19 DEF Unused
  <2> QED
    BY <1>25, <1>26, <2>1 DEF Links
<1> QED
  BY <1>19, <1>23, <1>27, LinksKept

\* The hello goes out.
LEMMA HelloStep ==
  ASSUME Types, Links, NEW p \in Phone, NEW w \in Caller, Hello(p, w)
  PROVE  Types' /\ Links'
<1>1. PICK at : at = opening[p][w]
  OBVIOUS
<1>2. PICK k : k = at.connectionId
  OBVIOUS
<1>3. /\ at.step \in {"adopted", "rejected"} /\ IsEarly(opening[p], w, k) /\ native[p] = k
  BY <1>1, <1>2 DEF Hello, IsEarly, Early
<1>4. /\ \A v \in Caller : IsEarly(opening[p], v, k) => v = w
      /\ k \in Conn /\ k \in 1..lastConn
      /\ at.sessionId \in SessionOrNone /\ at.sessionId # 0
      /\ ctl[p].context
  BY <1>1, <1>3, EarlyAlone
<1>5. PICK e : e = IF w = "connect" /\ at.step = "adopted" THEN [at EXCEPT !.step = "waiting"] ELSE NoOpening
  OBVIOUS
<1>6. /\ opening[p] \in [Caller -> Opening] /\ lastConn \in Nat /\ at \in Opening
  BY <1>1, EndTypes DEF PhoneOK, OpeningOK
<1>7. /\ e \in Opening /\ e.step \notin Early /\ e.sessionId \in SessionOrNone
      /\ e.connectionId \in 0..lastConn /\ (e.step # "none" => e.sessionId # 0)
  <2>1. CASE w = "connect" /\ at.step = "adopted"
    <3>1. e = [at EXCEPT !.step = "waiting"]
      BY <1>5, <2>1
    <3>2. e \in Opening /\ e.step = "waiting" /\ e.sessionId = at.sessionId /\ e.connectionId = k
      BY <1>2, <1>6, <3>1 DEF Opening
    <3> QED
      BY <1>4, <3>2 DEF Early
  <2>2. CASE ~(w = "connect" /\ at.step = "adopted")
    <3>1. e = NoOpening
      BY <1>5, <2>2
    <3> QED
      BY <1>6, <3>1, Bounds DEF NoOpening, Opening, Early
  <2> QED
    BY <2>1, <2>2
<1>8. Opens(p, w, e)
  BY <1>1, <1>5 DEF Hello
<1>9. PICK l : l = opening'[p]
  OBVIOUS
<1>10. /\ opening' = [opening EXCEPT ![p] = l]
       /\ l[w] = e /\ \A v \in Caller \ {w} : l[v] = opening[p][v]
  BY <1>7, <1>8, <1>9, OpeningChanges
<1>11. /\ OpeningOK(l, lastConn)
       /\ \A c : Fewer(c, opening[p], l)
       /\ \A c : ~IsEarly(opening[p], w, c) => (EarlyOn(opening[p], c) <=> EarlyOn(l, c))
  BY <1>7, <1>8, <1>9, OpeningLeaves
<1>12. inbox' = Delivered(p, k, <<Hello1(at.sessionId)>>, 0, {})
  BY <1>1, <1>2 DEF Hello
<1>13. /\ ctl' = ctl /\ told' = told /\ native' = native /\ knocks' = knocks
       /\ lastConn' = lastConn /\ opener' = opener
  BY DEF Hello
<1>14. Domains
  BY DEF Types, Domains
<1>15. OnlyOf(p)
  BY <1>9, <1>10, <1>13, <1>14 DEF OnlyOf, Domains
<1>16. Hello1(at.sessionId) \in Event
  BY <1>4 DEF Hello1, Event
<1>17. PICK h : h = <<Hello1(at.sessionId)>>
  OBVIOUS
<1>18. h \in Seq(Event)
  BY <1>16, <1>17
<1>19. inbox' \in [Phone -> [Conn -> Seq(Event)]]
  <2>1. ASSUME NEW q \in Phone, NEW f \in Conn
        PROVE  (IF q = p THEN IF f \in {} THEN <<>> ELSE IF f = 0 THEN Tail(inbox[p][f]) ELSE inbox[p][f]
                ELSE IF f = k /\ Receives(q, f) THEN inbox[q][f] \o h ELSE inbox[q][f])
               \in Seq(Event)
    <3>1. inbox[q][f] \in Seq(Event) /\ inbox[p][f] \in Seq(Event) /\ f # 0
      BY EndTypes DEF Conn
    <3>2. inbox[q][f] \o h \in Seq(Event)
      BY <1>18, <3>1, ConcatProperties
    <3> QED
      BY <3>1, <3>2
  <2> QED
    BY <1>12, <1>17, <2>1 DEF Delivered
<1>20. /\ \A c \in Conn : inbox'[p][c] = inbox[p][c]
       /\ \A q \in Phone \ {p} : \A c \in Conn :
            inbox'[q][c] = IF c = k /\ Receives(q, c) THEN inbox[q][c] \o h ELSE inbox[q][c]
  BY <1>12, <1>17 DEF Delivered, Conn
<1>21. opener' \in Seq(Phone) /\ Len(opener') <= MaxSession
  BY <1>13 DEF Types, lastSession
<1>22. PhoneOK(ctl'[p], opening'[p], told'[p], native'[p], knocks'[p], inbox'[p], lastConn)
  <2>1. PhoneOK(ctl[p], opening[p], told[p], native[p], knocks[p], inbox[p], lastConn)
    BY EndTypes
  <2>2. inbox'[p] \in [Conn -> Seq(Event)]
    BY <1>19
  <2> QED
    BY <1>4, <1>9, <1>11, <1>13, <2>1, <2>2 DEF PhoneOK
<1>23. Types'
  BY <1>15, <1>19, <1>21, <1>22, TypesKept
<1>24. Others(p)
  BY <1>15, OnlyOthers
<1>25. ASSUME NEW c \in Conn, c # k PROVE Kept(c)
  <2>1. Silent(p, c)
    BY <1>20, <1>25 DEF Silent
  <2>2. ~IsEarly(opening[p], w, c)
    BY <1>1, <1>2, <1>25 DEF IsEarly
  <2>3. Stays(p, c)
    BY <1>9, <1>11, <1>13, <1>20, <2>2 DEF Stays
  <2> QED
    BY <1>24, <2>1, <2>3, StaysKept
<1>26. Kept(k)
  <2> SUFFICES ASSUME NEW d \in Phone, NEW s \in Session, LinkOf(k, d, Other(d), s)
               PROVE  LinkOf(k, d, Other(d), s)'
    BY DEF Kept
  <2>1. d = p /\ at.sessionId = s
    BY <1>1, <1>3, EarlyDials
  <2>2. PICK r \in Phone : r = Other(p) /\ r # p
    BY TwoPhones
  <2>3. Link(k, s, ctl[p].active, inbox[p][k], native[p], knocks[p], opening[p],
                   ctl[r].active, inbox[r][k], native[r], knocks[r], opening[r])
    BY <2>1, <2>2 DEF LinkOf
  <2>4. EarlyOn(opening[p], k) /\ ~EarlyOn(l, k)
    <3>1. EarlyOn(opening[p], k)
      BY <1>3 DEF EarlyOn
    <3>2. ASSUME NEW v \in Caller PROVE ~IsEarly(l, v, k)
      BY <1>4, <1>7, <1>10 DEF IsEarly
    <3> QED
      BY <3>1, <3>2 DEF EarlyOn
  <2>5. inbox'[r][k] = IF native[r] = k \/ k \in knocks[r] THEN inbox[r][k] \o <<Hello1(s)>> ELSE inbox[r][k]
    BY <1>4, <1>17, <1>20, <2>1, <2>2 DEF Receives
  <2>6. inbox[r][k] \in Seq(Event)
    BY <1>4, <2>2, EndTypes
  <2>7. Link(k, s, ctl[p].active, inbox[p][k], native[p], knocks[p], l,
                   ctl[r].active, inbox'[r][k], native[r], knocks[r], opening[r])
    BY <1>4, <2>1, <2>3, <2>4, <2>5, <2>6, DiallerGreets
  <2>8. /\ ctl'[r] = ctl[r] /\ opening'[r] = opening[r] /\ native'[r] = native[r] /\ knocks'[r] = knocks[r]
    BY <1>24, <2>2 DEF Others
  <2> QED
    BY <1>4, <1>9, <1>13, <1>20, <2>1, <2>2, <2>7, <2>8 DEF LinkOf
<1>27. \A c \in Conn : IF c > lastConn THEN Unused(c)' ELSE Kept(c)
  <2>1. ASSUME NEW c \in Conn, c > lastConn, Unused(c) PROVE Unused(c)'
    <3>1. c # k
      BY <1>4, <1>6, <2>1
    <3> QED
      BY <1>13, <1>20, <2>1, <3>1 DEF Unused
  <2> QED
    BY <1>25, <1>26, <2>1 DEF Links
<1> QED
  BY <1>13, <1>23, <1>27, LinksKept

\* A step of p's native module on connection k: z waits there now, n is its
\* connection and K its sockets.
NativeMoves(p, k, z, n, K) ==
  /\ inbox' = [inbox EXCEPT ![p][k] = z]
  /\ native' = [native EXCEPT ![p] = n]
  /\ knocks' = [knocks EXCEPT ![p] = K]
  /\ UNCHANGED <<ctl, opening, told, lastConn, opener>>

\* A step of the native module on connection k keeps types and links when it
\* keeps the link of k.
LEMMA NativeStepKeeps ==
  ASSUME Types, Links, NEW p \in Phone, NEW k \in Conn, ~(k > lastConn), Kept(k),
         NEW z \in Seq(Event), NEW n \in {0, k, native[p]}, NEW K \in {knocks[p], knocks[p] \ {k}},
         NativeMoves(p, k, z, n, K)
  PROVE  Types' /\ Links'
<1>1. Domains /\ lastConn \in Nat
  BY EndTypes DEF Types, Domains
<1>2. /\ ctl' = ctl /\ told' = told /\ opening' = opening /\ lastConn' = lastConn /\ opener' = opener
      /\ inbox' = [inbox EXCEPT ![p][k] = z]
      /\ native' = [native EXCEPT ![p] = n]
      /\ knocks' = [knocks EXCEPT ![p] = K]
  BY DEF NativeMoves
<1>3. native'[p] = n /\ knocks'[p] = K
  BY <1>1, <1>2 DEF Domains
<1>4. OnlyOf(p)
  BY <1>1, <1>2, <1>3 DEF OnlyOf, Domains
<1>5. PICK f : f = [inbox[p] EXCEPT ![k] = z]
  OBVIOUS
<1>6. inbox[p] \in [Conn -> Seq(Event)] /\ inbox \in [Phone -> [Conn -> Seq(Event)]]
  BY <1>1 DEF Domains
<1>7. f \in [Conn -> Seq(Event)] /\ inbox' = [inbox EXCEPT ![p] = f]
  BY <1>2, <1>5, <1>6
<1>8. inbox' \in [Phone -> [Conn -> Seq(Event)]] /\ inbox'[p] = f
      /\ \A q \in Phone \ {p} : inbox'[q] = inbox[q]
  BY <1>6, <1>7
<1>9. \A c \in Conn \ {k} : inbox'[p][c] = inbox[p][c]
  BY <1>5, <1>6, <1>8
<1>10. opener' \in Seq(Phone) /\ Len(opener') <= MaxSession
  BY <1>2 DEF Types, lastSession
<1>11. PhoneOK(ctl'[p], opening'[p], told'[p], native'[p], knocks'[p], inbox'[p], lastConn)
  <2>1. PhoneOK(ctl[p], opening[p], told[p], native[p], knocks[p], inbox[p], lastConn)
    BY EndTypes
  <2>2. k \in 0..lastConn /\ 0 \in 0..lastConn
    BY <1>1 DEF Conn
  <2>3. n \in 0..lastConn /\ K \subseteq 1..lastConn
    BY <2>1, <2>2 DEF PhoneOK
  <2> QED
    BY <1>2, <1>3, <1>7, <1>8, <2>1, <2>3 DEF PhoneOK
<1>12. Types'
  BY <1>4, <1>8, <1>10, <1>11, TypesKept
<1>13. Others(p)
  BY <1>4, OnlyOthers
<1>14. ASSUME NEW c \in Conn, c # k PROVE Kept(c)
  <2>1. Silent(p, c)
    BY <1>8 DEF Silent
  <2>2. 0 # c
    BY DEF Conn
  <2>3. native'[p] = native[p] \/ native'[p] # c
    BY <1>3, <1>14, <2>2
  <2>4. c \in knocks'[p] <=> c \in knocks[p]
    BY <1>3, <1>14
  <2>5. Stays(p, c)
    BY <1>2, <1>9, <1>14, <2>3, <2>4 DEF Stays, Fewer
  <2> QED
    BY <1>13, <2>1, <2>5, StaysKept
<1>15. ASSUME NEW c \in Conn, Unused(c), c # k PROVE Unused(c)'
  <2>1. ASSUME NEW q \in Phone PROVE inbox'[q][c] = <<>> /\ c \notin knocks'[q]
    <3>1. CASE q = p
      BY <1>3, <1>9, <1>15, <3>1 DEF Unused
    <3>2. CASE q # p
      <4>1. knocks'[q] = knocks[q]
        BY <1>13, <3>2 DEF Others
      <4> QED
        BY <1>8, <1>15, <3>2, <4>1 DEF Unused
    <3> QED
      BY <3>1, <3>2
  <2> QED
    BY <2>1 DEF Unused
<1>16. \A c \in Conn : IF c > lastConn THEN Unused(c)' ELSE Kept(c)
  BY <1>14, <1>15 DEF Links
<1> QED
  BY <1>2, <1>12, <1>16, LinksKept

\* What such a step changes.
LEMMA NativeChanges ==
  ASSUME Types, NEW p \in Phone, NEW k \in Conn, NEW z \in Seq(Event), NEW n, NEW K,
         NativeMoves(p, k, z, n, K)
  PROVE  /\ Others(p) /\ Silent(p, k)
         /\ ctl'[p] = ctl[p] /\ opening'[p] = opening[p] /\ native'[p] = n /\ knocks'[p] = K
         /\ inbox'[p][k] = z
<1>1. Domains
  BY DEF Types, Domains
<1>2. /\ ctl' = ctl /\ opening' = opening
      /\ inbox' = [inbox EXCEPT ![p][k] = z]
      /\ native' = [native EXCEPT ![p] = n]
      /\ knocks' = [knocks EXCEPT ![p] = K]
  BY DEF NativeMoves
<1>3. native'[p] = n /\ knocks'[p] = K
  BY <1>1, <1>2 DEF Domains
<1>4. Others(p)
  BY <1>1, <1>2 DEF Others, Domains
<1>5. PICK f : f = [inbox[p] EXCEPT ![k] = z]
  OBVIOUS
<1>6. inbox[p] \in [Conn -> Seq(Event)] /\ inbox \in [Phone -> [Conn -> Seq(Event)]]
  BY <1>1 DEF Domains
<1>7. f[k] = z /\ inbox' = [inbox EXCEPT ![p] = f]
  BY <1>2, <1>5, <1>6
<1>8. inbox'[p] = f /\ \A q \in Phone \ {p} : inbox'[q] = inbox[q]
  BY <1>6, <1>7
<1>9. Silent(p, k)
  BY <1>8 DEF Silent
<1> QED
  BY <1>2, <1>3, <1>4, <1>7, <1>8, <1>9

\* The native connection is lost, with what p has not handled from j on.
LEMMA BreaksKept ==
  ASSUME Types, NEW p \in Phone, NEW k \in Conn, native[p] = k, Others(p), Silent(p, k),
         ctl'[p] = ctl[p], opening'[p] = opening[p], knocks'[p] = knocks[p], native'[p] = 0,
         NEW j \in 0..Len(inbox[p][k]), NEW l \in Last,
         inbox'[p][k] = SubSeq(inbox[p][k], 1, j) \o <<l>>
  PROVE  Kept(k)
<1> SUFFICES ASSUME NEW d \in Phone, NEW s \in Session, LinkOf(k, d, Other(d), s)
             PROVE  LinkOf(k, d, Other(d), s)'
  BY DEF Kept
<1>1. PICK r \in Phone : r = Other(d) /\ r # d /\ \A q \in Phone : q = d \/ q = r
  BY TwoPhones
<1>2. Link(k, s, ctl[d].active, inbox[d][k], native[d], knocks[d], opening[d],
                 ctl[r].active, inbox[r][k], native[r], knocks[r], opening[r])
  BY <1>1 DEF LinkOf
<1>3. /\ ctl[d].active \in Active /\ inbox[d][k] \in Seq(Event)
      /\ ctl[r].active \in Active /\ inbox[r][k] \in Seq(Event)
  BY <1>1, EndTypes
<1>4. 0 # k
  BY DEF Conn
<1>5. CASE p = d
  <2>1. /\ ctl'[r] = ctl[r] /\ opening'[r] = opening[r] /\ native'[r] = native[r]
        /\ knocks'[r] = knocks[r] /\ inbox'[r][k] = inbox[r][k]
    BY <1>1, <1>5 DEF Others, Silent
  <2>2. Link(k, s, ctl[d].active, SubSeq(inbox[d][k], 1, j) \o <<l>>, 0, knocks[d], opening[d],
                   ctl[r].active, inbox[r][k], native[r], knocks[r], opening[r])
    BY <1>2, <1>3, <1>4, <1>5, DiallerBreaks
  <2> QED
    BY <1>1, <1>5, <2>1, <2>2 DEF LinkOf
<1>6. CASE p = r
  <2>1. /\ ctl'[d] = ctl[d] /\ opening'[d] = opening[d] /\ native'[d] = native[d]
        /\ knocks'[d] = knocks[d] /\ inbox'[d][k] = inbox[d][k]
    BY <1>1, <1>6 DEF Others, Silent
  <2>2. Link(k, s, ctl[d].active, inbox[d][k], native[d], knocks[d], opening[d],
                   ctl[r].active, SubSeq(inbox[r][k], 1, j) \o <<l>>, 0, knocks[r], opening[r])
    BY <1>2, <1>3, <1>4, <1>6, DialledBreaks
  <2> QED
    BY <1>1, <1>6, <2>1, <2>2 DEF LinkOf
<1> QED
  BY <1>1, <1>5, <1>6

\* classifyInbound takes the socket.
LEMMA ClassifyStep ==
  ASSUME Types, Links, NEW p \in Phone, NEW k \in Conn, Classify(p, k)
  PROVE  Types' /\ Links'
<1>1. PICK z : z = <<Connected>> \o inbox[p][k]
  OBVIOUS
<1>2. inbox[p][k] \in Seq(Event) /\ Connected \in Event
  BY EndTypes DEF Connected, Event
<1>3. z \in Seq(Event)
  <2>1. <<Connected>> \in Seq(Event)
    BY <1>2
  <2> QED
    BY <1>1, <1>2, <2>1, ConcatProperties
<1>4. Domains
  BY DEF Types, Domains
<1>5. inbox' = [inbox EXCEPT ![p][k] = z]
  BY <1>1, <1>4 DEF Classify, Domains
<1>6. PICK K : K = knocks[p] \ {k}
  OBVIOUS
<1>7. NativeMoves(p, k, z, k, K)
  BY <1>4, <1>5, <1>6 DEF Classify, Domains, NativeMoves
<1>8. /\ Others(p) /\ Silent(p, k)
      /\ ctl'[p] = ctl[p] /\ opening'[p] = opening[p] /\ native'[p] = k /\ knocks'[p] = K
      /\ inbox'[p][k] = z
  BY <1>3, <1>7, NativeChanges
<1>9. k \in knocks[p] /\ inbox[p][k] # <<>>
  BY DEF Classify
<1>10. Kept(k)
  <2> SUFFICES ASSUME NEW d \in Phone, NEW s \in Session, LinkOf(k, d, Other(d), s)
               PROVE  LinkOf(k, d, Other(d), s)'
    BY DEF Kept
  <2>1. PICK r \in Phone : r = Other(d) /\ r # d /\ \A q \in Phone : q = d \/ q = r
    BY TwoPhones
  <2>2. Link(k, s, ctl[d].active, inbox[d][k], native[d], knocks[d], opening[d],
                   ctl[r].active, inbox[r][k], native[r], knocks[r], opening[r])
    BY <2>1 DEF LinkOf
  <2>3. p = r
    BY <1>9, <2>1, <2>2 DEF Link, DiallerOK
  <2>4. Len(inbox[r][k]) > 0 /\ inbox[r][k] \in Seq(Event) /\ k \in knocks[r]
    BY <1>2, <1>9, <2>3, EmptySeq
  <2>5. Link(k, s, ctl[d].active, inbox[d][k], native[d], knocks[d], opening[d],
                   ctl[r].active, <<Connected>> \o inbox[r][k], k, knocks[r] \ {k}, opening[r])
    BY <2>2, <2>4, DialledClassifies
  <2>6. /\ ctl'[d] = ctl[d] /\ opening'[d] = opening[d] /\ native'[d] = native[d]
        /\ knocks'[d] = knocks[d] /\ inbox'[d][k] = inbox[d][k]
    BY <1>8, <2>1, <2>3 DEF Others, Silent
  <2> QED
    BY <1>1, <1>6, <1>8, <2>1, <2>3, <2>5, <2>6 DEF LinkOf
<1>11. ~(k > lastConn)
  BY <1>9, EndTypes DEF PhoneOK
<1> QED
  BY <1>3, <1>6, <1>7, <1>10, <1>11, NativeStepKeeps

\* The socket is refused, or its first frame does not come.
LEMMA ClassifyRejectsStep ==
  ASSUME Types, Links, NEW p \in Phone, NEW k \in Conn, ClassifyRejects(p, k)
  PROVE  Types' /\ Links'
<1>1. PICK z : z = <<>>
  OBVIOUS
<1>2. z \in Seq(Event)
  BY <1>1
<1>3. Domains
  BY DEF Types, Domains
<1>4. inbox' = [inbox EXCEPT ![p][k] = z]
  BY <1>1, <1>3 DEF ClassifyRejects, Domains
<1>5. PICK K : K = knocks[p] \ {k}
  OBVIOUS
<1>6. PICK n : n = native[p]
  OBVIOUS
<1>7. NativeMoves(p, k, z, n, K)
  BY <1>3, <1>4, <1>5, <1>6 DEF ClassifyRejects, Domains, NativeMoves
<1>8. /\ Others(p) /\ Silent(p, k)
      /\ ctl'[p] = ctl[p] /\ opening'[p] = opening[p] /\ native'[p] = n /\ knocks'[p] = K
      /\ inbox'[p][k] = z
  BY <1>2, <1>4, <1>7, NativeChanges
<1>9. k \in knocks[p]
  BY DEF ClassifyRejects
<1>10. ctl[p].active.connectionId # k
  BY <1>9, ActiveClassified
<1>11. Fewer(k, opening[p], opening'[p])
  BY <1>8 DEF Fewer
<1>12. Quits(p, k)
  BY <1>1, <1>5, <1>6, <1>8, <1>9, <1>10, <1>11 DEF Quits, Part
<1>13. Kept(k)
  BY <1>8, <1>12, QuitsKept
<1>14. ~(k > lastConn)
  BY <1>9, EndTypes DEF PhoneOK
<1> QED
  BY <1>2, <1>5, <1>6, <1>7, <1>13, <1>14, NativeStepKeeps

\* The connection of p's native module ends with l after j of the waiting events.
LEMMA BreakMoves ==
  ASSUME Types, Links, NEW p \in Phone, NEW k \in Conn, native[p] = k, ~(k > lastConn),
         NEW j \in 0..Len(inbox[p][k]), NEW l \in Last,
         NEW z \in Seq(Event) \cap {SubSeq(inbox[p][k], 1, j) \o <<l>>},
         NEW n \in {0}, NEW K \in {knocks[p]}, NativeMoves(p, k, z, n, K)
  PROVE  Types' /\ Links'
<1>1. /\ Others(p) /\ Silent(p, k)
      /\ ctl'[p] = ctl[p] /\ opening'[p] = opening[p] /\ native'[p] = n /\ knocks'[p] = K
      /\ inbox'[p][k] = z
  BY NativeChanges
<1>2. Kept(k)
  BY <1>1, BreaksKept
<1>3. n \in {0, k, native[p]} /\ K \in {knocks[p], knocks[p] \ {k}}
  OBVIOUS
<1> QED
  BY <1>2, <1>3, NativeStepKeeps

\* The same, seen as the step of an action.
LEMMA BreakStep ==
  ASSUME Types, Links, NEW p \in Phone, native[p] # 0,
         NEW k, k = native[p], NEW j \in 0..Len(inbox[p][k]), NEW l \in Last,
         NEW z, z = SubSeq(inbox[p][k], 1, j) \o <<l>>,
         inbox' = [inbox EXCEPT ![p][k] = z], native' = [native EXCEPT ![p] = 0],
         UNCHANGED <<ctl, opening, told, knocks, lastConn, opener>>
  PROVE  Types' /\ Links'
<1>1. k \in 1..lastConn /\ lastConn \in Nat /\ lastConn <= MaxConn
  BY EndTypes DEF PhoneOK
<1>2. k \in Conn /\ ~(k > lastConn)
  BY <1>1, Bounds DEF Conn
<1>3. inbox[p][k] \in Seq(Event)
  BY <1>2, EndTypes
<1>4. z \in Seq(Event)
  <2>1. \A i \in 1..j : inbox[p][k][i] \in Event
    BY <1>3
  <2>2. SubSeq(inbox[p][k], 1, j) \in Seq(Event)
    BY <1>3, <2>1, SubSeqProperties
  <2>3. l \in Event
    BY DEF Last, Event, Closed, Failed
  <2>4. <<l>> \in Seq(Event)
    BY <2>3
  <2> QED
    BY <2>2, <2>4, ConcatProperties
<1>5. PICK K : K = knocks[p]
  OBVIOUS
<1>6. PICK n : n = 0
  OBVIOUS
<1>7. knocks' = knocks /\ knocks \in [Phone -> SUBSET Conn]
  BY DEF Types
<1>8. NativeMoves(p, k, z, n, K)
  <2>1. knocks' = [knocks EXCEPT ![p] = K]
    BY <1>5, <1>7
  <2> QED
    BY <1>6, <2>1 DEF NativeMoves
<1> QED
  BY <1>2, <1>4, <1>5, <1>6, <1>8, BreakMoves

\* readLoop reads the end of the stream.
LEMMA EndOfStreamStep ==
  ASSUME Types, Links, NEW p \in Phone, EndOfStream(p)
  PROVE  Types' /\ Links'
<1>1. PICK k : k = native[p]
  OBVIOUS
<1>2. k \in Conn
  <2>1. k \in 1..lastConn /\ lastConn \in Nat /\ lastConn <= MaxConn
    BY <1>1, EndTypes DEF PhoneOK, EndOfStream
  <2> QED
    BY <2>1, Bounds DEF Conn
<1>3. PICK x : x = inbox[p][k]
  OBVIOUS
<1>4. x \in Seq(Event) /\ Closed \in Event /\ Closed \in Last
  BY <1>2, <1>3, EndTypes DEF Closed, Event, Last
<1>5. Append(x, Closed) = SubSeq(x, 1, Len(x)) \o <<Closed>>
  <2>1. SubSeq(x, 1, Len(x)) = x
    BY <1>4, SubSeqFull
  <2>2. Append(x, Closed) = x \o <<Closed>>
    BY <1>4
  <2> QED
    BY <2>1, <2>2
<1>6. PICK z : z = SubSeq(inbox[p][k], 1, Len(x)) \o <<Closed>>
  OBVIOUS
<1>7. inbox' = [inbox EXCEPT ![p][k] = z]
  BY <1>1, <1>3, <1>5, <1>6 DEF EndOfStream, Types
<1>8. native[p] # 0 /\ native' = [native EXCEPT ![p] = 0]
      /\ UNCHANGED <<ctl, opening, told, knocks, lastConn, opener>>
  BY DEF EndOfStream
<1>9. Len(x) \in 0..Len(inbox[p][k])
  BY <1>3, <1>4
<1> QED
  BY <1>1, <1>4, <1>6, <1>7, <1>8, <1>9, BreakStep

\* The connection breaks.
LEMMA ResetStep ==
  ASSUME Types, Links, NEW p \in Phone, Reset(p)
  PROVE  Types' /\ Links'
<1>1. PICK k : k = native[p]
  OBVIOUS
<1>2. k \in Conn
  <2>1. k \in 1..lastConn /\ lastConn \in Nat /\ lastConn <= MaxConn
    BY <1>1, EndTypes DEF PhoneOK, Reset
  <2> QED
    BY <2>1, Bounds DEF Conn
<1>3. PICK x : x = inbox[p][k]
  OBVIOUS
<1>4. x \in Seq(Event) /\ Failed \in Event /\ Failed \in Last
  BY <1>2, <1>3, EndTypes DEF Failed, Event, Last
<1>5. PICK j \in 0..Len(x) : inbox' = [inbox EXCEPT ![p][k] = Append(SubSeq(@, 1, j), Failed)]
  BY <1>1, <1>3 DEF Reset
<1>6. Append(SubSeq(x, 1, j), Failed) = SubSeq(x, 1, j) \o <<Failed>>
  <2>1. \A i \in 1..j : x[i] \in Event
    BY <1>4
  <2>2. SubSeq(x, 1, j) \in Seq(Event)
    BY <1>4, <2>1, SubSeqProperties
  <2>3. PICK y \in Seq(Event) : y = SubSeq(x, 1, j)
    BY <2>2
  <2>4. Append(y, Failed) = y \o <<Failed>>
    BY <1>4
  <2> QED
    BY <2>3, <2>4
<1>7. PICK z : z = SubSeq(inbox[p][k], 1, j) \o <<Failed>>
  OBVIOUS
<1>8. inbox' = [inbox EXCEPT ![p][k] = z]
  BY <1>3, <1>5, <1>6, <1>7 DEF Types
<1>9. native[p] # 0 /\ native' = [native EXCEPT ![p] = 0]
      /\ UNCHANGED <<ctl, opening, told, knocks, lastConn, opener>>
  BY DEF Reset
<1>10. j \in 0..Len(inbox[p][k])
  BY <1>3
<1> QED
  BY <1>1, <1>4, <1>7, <1>8, <1>9, <1>10, BreakStep

\* Fresh fields and no opening have their types.
LEMMA FreshOK ==
  ASSUME NEW l \in Nat
  PROVE  /\ ControlOK(Fresh, l) /\ Fresh.active = NoActive
         /\ \A o : o = [w \in Caller |-> NoOpening] =>
              OpeningOK(o, l) /\ \A w \in Caller : o[w].step = "none"
<1>1. PICK f : f = Fresh
  OBVIOUS
<1>2. ActiveOK(NoActive, l) /\ NoActive.connectionId = 0
  BY NoActiveOK DEF NoActive
<1>3. NoActive \in Active
  BY <1>2 DEF ActiveOK
<1>4. PICK e : e = <<>> /\ e \in Seq({"fail", "reconnect"})
  <2>1. <<>> \in Seq({"fail", "reconnect"})
    BY EmptySeq
  <2> QED
    BY <2>1, Zenon
<1>5. f = [context |-> TRUE, active |-> NoActive, resumeSessionId |-> 0, resumeRole |-> "none",
           reconnectAttempt |-> 0, reconnectTimer |-> FALSE,
           responderReconnectTimer |-> FALSE, queued |-> e]
  BY <1>1, <1>4 DEF Fresh
<1>6. f \in Control
  BY <1>3, <1>4, <1>5 DEF Control, Role
<1>7. /\ f.active = NoActive /\ f.context /\ f.resumeSessionId = 0
      /\ f.reconnectAttempt = 0
  BY <1>5
<1>8. ControlOK(f, l)
  BY <1>2, <1>6, <1>7, Bounds DEF ControlOK
<1>9. NoOpening \in Opening /\ NoOpening.step = "none" /\ NoOpening.sessionId = 0 /\ NoOpening.connectionId = 0
  BY DEF NoOpening, Opening
<1>10. ASSUME NEW o, o = [w \in Caller |-> NoOpening]
       PROVE  OpeningOK(o, l) /\ \A w \in Caller : o[w].step = "none"
  <2>1. "connect" \in Caller /\ "reconnect" \in Caller
    BY DEF Caller
  <2>2. o \in [Caller -> Opening] /\ \A w \in Caller : o[w] = NoOpening
    BY <1>9, <1>10
  <2>3. ~(o["connect"].step \in Early)
    BY <1>9, <2>1, <2>2 DEF Early
  <2> QED
    BY <1>9, <2>2, <2>3, Bounds DEF OpeningOK, Early
<1> QED
  BY <1>1, <1>7, <1>8, <1>10

\* The process dies and starts again.
LEMMA CrashStep ==
  ASSUME Types, Links, NEW p \in Phone, Crash(p)
  PROVE  Types' /\ Links'
<1>1. Domains /\ lastConn \in Nat
  BY EndTypes DEF Types, Domains
<1>2. PICK o : o = [w \in Caller |-> NoOpening]
  OBVIOUS
<1>3. PICK i : i = [c \in Conn |-> <<>>]
  OBVIOUS
<1>4. PICK f : f = Fresh
  OBVIOUS
<1>5. /\ ctl' = [ctl EXCEPT ![p] = f] /\ opening' = [opening EXCEPT ![p] = o]
      /\ told' = [told EXCEPT ![p] = 0] /\ native' = [native EXCEPT ![p] = 0]
      /\ knocks' = [knocks EXCEPT ![p] = {}] /\ inbox' = [inbox EXCEPT ![p] = i]
      /\ lastConn' = lastConn /\ opener' = opener
  BY <1>2, <1>3, <1>4 DEF Crash
<1>6. /\ ctl'[p] = f /\ opening'[p] = o /\ told'[p] = 0 /\ native'[p] = 0 /\ knocks'[p] = {}
      /\ inbox'[p] = i
  BY <1>1, <1>5 DEF Domains
<1>7. OnlyOf(p)
  BY <1>5, <1>6 DEF OnlyOf
<1>8. <<>> \in Seq(Event)
  OBVIOUS
<1>9. i \in [Conn -> Seq(Event)] /\ \A c \in Conn : i[c] = <<>>
  BY <1>3, <1>8
<1>10. inbox' \in [Phone -> [Conn -> Seq(Event)]] /\ \A q \in Phone \ {p} : inbox'[q] = inbox[q]
  BY <1>1, <1>5, <1>9 DEF Domains
<1>11. /\ ControlOK(f, lastConn) /\ f.active.connectionId = 0 /\ OpeningOK(o, lastConn)
       /\ \A w \in Caller : o[w].step = "none"
  BY <1>1, <1>2, <1>4, FreshOK DEF NoActive
<1>12. PhoneOK(ctl'[p], opening'[p], told'[p], native'[p], knocks'[p], inbox'[p], lastConn)
  BY <1>1, <1>6, <1>9, <1>11, Bounds DEF PhoneOK
<1>13. opener' \in Seq(Phone) /\ Len(opener') <= MaxSession
  BY <1>5 DEF Types, lastSession
<1>14. Types'
  BY <1>7, <1>10, <1>12, <1>13, TypesKept
<1>15. Others(p)
  BY <1>7, OnlyOthers
<1>16. ASSUME NEW c \in Conn PROVE Kept(c)
  <2>1. 0 # c
    BY DEF Conn
  <2>2. Silent(p, c)
    BY <1>10 DEF Silent
  <2>3. Fewer(c, opening[p], opening'[p])
    BY <1>6, <1>11 DEF Fewer, IsEarly, Early
  <2>4. Quits(p, c)
    BY <1>6, <1>9, <1>11, <2>1, <2>3 DEF Quits, Part
  <2> QED
    BY <1>15, <2>2, <2>4, QuitsKept
<1>17. ASSUME NEW c \in Conn, Unused(c) PROVE Unused(c)'
  <2>1. ASSUME NEW q \in Phone PROVE inbox'[q][c] = <<>> /\ c \notin knocks'[q]
    <3>1. CASE q = p
      BY <1>6, <1>9, <3>1
    <3>2. CASE q # p
      BY <1>10, <1>15, <1>17, <3>2 DEF Others, Unused
    <3> QED
      BY <3>1, <3>2
  <2> QED
    BY <2>1 DEF Unused
<1>18. \A c \in Conn : IF c > lastConn THEN Unused(c)' ELSE Kept(c)
  BY <1>16, <1>17 DEF Links
<1> QED
  BY <1>5, <1>14, <1>18, LinksKept

\* The types allow more when there are more connections.
LEMMA MoreConnections ==
  ASSUME NEW x, NEW o, NEW t, NEW n, NEW K, NEW i, NEW l \in Nat,
         PhoneOK(x, o, t, n, K, i, l)
  PROVE  PhoneOK(x, o, t, n, K, i, l + 1) /\ ControlOK(x, l + 1) /\ OpeningOK(o, l + 1)
<1>1. ActiveOK(x.active, l + 1)
  BY DEF PhoneOK, ControlOK, ActiveOK
<1>2. ControlOK(x, l + 1)
  BY <1>1 DEF PhoneOK, ControlOK
<1>3. OpeningOK(o, l + 1)
  <2>1. \A w \in Caller : o[w].connectionId \in 0..(l + 1)
    BY DEF PhoneOK, OpeningOK
  <2> QED
    BY <2>1 DEF PhoneOK, OpeningOK
<1>4. n \in 0..(l + 1) /\ K \subseteq 1..(l + 1)
  BY DEF PhoneOK
<1> QED
  BY <1>2, <1>3, <1>4 DEF PhoneOK

\* Phone p dials connection k for caller w.
Dials(p, w, k, e) ==
  /\ lastConn' = k /\ native' = [native EXCEPT ![p] = k]
  /\ knocks' = [knocks EXCEPT ![Other(p)] = knocks[Other(p)] \cup {k}]
  /\ Opens(p, w, e)
  /\ ctl' = ctl /\ told' = told /\ inbox' = inbox /\ opener' = opener

\* A number that is not in use yet.
LEMMA Unheard ==
  ASSUME Types, Links, NEW k \in Conn, k = lastConn + 1, NEW q \in Phone
  PROVE  /\ inbox[q][k] = <<>> /\ k \notin knocks[q] /\ native[q] # k
         /\ ctl[q].active.connectionId # k /\ \A v \in Caller : ~IsEarly(opening[q], v, k)
<1>1. lastConn \in Nat /\ k > lastConn
  BY EndTypes
<1>2. Unused(k)
  BY <1>1 DEF Links
<1>3. PhoneOK(ctl[q], opening[q], told[q], native[q], knocks[q], inbox[q], lastConn)
  BY EndTypes
<1>4. native[q] \in 0..lastConn /\ ctl[q].active.connectionId \in 0..lastConn
  BY <1>3 DEF PhoneOK, ControlOK, ActiveOK
<1>5. \A v \in Caller : opening[q][v].connectionId \in 0..lastConn
  BY <1>3 DEF PhoneOK, OpeningOK
<1> QED
  BY <1>1, <1>2, <1>4, <1>5 DEF Unused, IsEarly

\* Dialling keeps the types.
LEMMA DialsTypes ==
  ASSUME Types, Links, NEW p \in Phone, NEW w \in Caller, NEW k \in Conn, k = lastConn + 1,
         NEW e \in Opening, e.step = "dialled", e.connectionId = k,
         e.sessionId \in SessionOrNone, e.sessionId # 0, ctl[p].context, Dials(p, w, k, e)
  PROVE  /\ Types'
         /\ Fewer(0, opening[p], opening[p])
         /\ opening'[p][w] = e /\ \A v \in Caller \ {w} : opening'[p][v] = opening[p][v]
         /\ native'[p] = k /\ knocks'[p] = knocks[p]
         /\ knocks'[Other(p)] = knocks[Other(p)] \cup {k}
         /\ opening'[Other(p)] = opening[Other(p)] /\ native'[Other(p)] = native[Other(p)]
<1>1. Domains /\ lastConn \in Nat /\ k \in Nat /\ k \in 0..MaxConn
  BY EndTypes, Bounds DEF Types, Domains, Conn
<1>2. PICK r \in Phone : r = Other(p) /\ r # p /\ \A q \in Phone : q = p \/ q = r
  BY TwoPhones
<1>3. PICK K : K = knocks[r] \cup {k}
  OBVIOUS
<1>4. /\ lastConn' = k /\ native' = [native EXCEPT ![p] = k] /\ knocks' = [knocks EXCEPT ![r] = K]
      /\ ctl' = ctl /\ told' = told /\ inbox' = inbox /\ opener' = opener /\ Opens(p, w, e)
  BY <1>2, <1>3 DEF Dials
<1>5. PICK l : l = opening'[p]
  OBVIOUS
<1>6. /\ opening' = [opening EXCEPT ![p] = l] /\ l \in [Caller -> Opening]
      /\ l[w] = e /\ \A v \in Caller \ {w} : l[v] = opening[p][v]
  BY <1>4, <1>5, OpeningChanges
<1>7. opening' \in [Phone -> [Caller -> Opening]] /\ opening'[r] = opening[r]
  BY <1>1, <1>2, <1>6 DEF Domains
<1>8. native' \in [Phone -> Nat] /\ native'[p] = k /\ native'[r] = native[r]
  BY <1>1, <1>2, <1>4 DEF Domains
<1>9. K \in SUBSET Conn
  BY <1>1, <1>3 DEF Domains
<1>10. knocks' \in [Phone -> SUBSET Conn] /\ knocks'[p] = knocks[p] /\ knocks'[r] = K
  BY <1>1, <1>2, <1>4, <1>9 DEF Domains
<1>11. /\ PhoneOK(ctl[p], opening[p], told[p], native[p], knocks[p], inbox[p], lastConn)
       /\ PhoneOK(ctl[r], opening[r], told[r], native[r], knocks[r], inbox[r], lastConn)
  BY EndTypes
<1>12. /\ PhoneOK(ctl[p], opening[p], told[p], native[p], knocks[p], inbox[p], k)
       /\ PhoneOK(ctl[r], opening[r], told[r], native[r], knocks[r], inbox[r], k)
       /\ OpeningOK(opening[p], k)
  BY <1>1, <1>11, MoreConnections
<1>13. OpeningOK(l, k)
  <2>1. ASSUME NEW v \in Caller
        PROVE  /\ l[v].sessionId \in SessionOrNone /\ l[v].connectionId \in 0..k
               /\ l[v].step # "none" => l[v].sessionId # 0
               /\ l[v].step \in Early => l[v].connectionId # 0
    <3>1. CASE v = w
      BY <1>1, <1>6, <3>1 DEF Conn
    <3>2. CASE v # w
      BY <1>6, <1>12, <3>2 DEF OpeningOK
    <3> QED
      BY <3>1, <3>2
  <2>2. l["connect"].connectionId # l["reconnect"].connectionId
          \/ l["connect"].step \notin Early \/ l["reconnect"].step \notin Early
    <3>1. "connect" \in Caller /\ "reconnect" \in Caller /\ (w = "connect" \/ w = "reconnect")
      BY DEF Caller
    <3>2. \A v \in Caller : ~IsEarly(opening[p], v, k)
      BY Unheard
    <3>3. CASE w = "connect"
      BY <1>6, <3>1, <3>2, <3>3 DEF IsEarly
    <3>4. CASE w = "reconnect"
      BY <1>6, <3>1, <3>2, <3>4 DEF IsEarly
    <3> QED
      BY <3>1, <3>3, <3>4
  <2> QED
    BY <1>6, <2>1, <2>2 DEF OpeningOK
<1>14. PhoneOK(ctl[p], l, told[p], k, knocks[p], inbox[p], k)
  BY <1>1, <1>12, <1>13 DEF PhoneOK
<1>15. PhoneOK(ctl[r], opening[r], told[r], native[r], K, inbox[r], k)
  <2>1. k \in 1..k
    BY <1>1 DEF Conn
  <2>2. K \subseteq 1..k
    BY <1>3, <1>12, <2>1 DEF PhoneOK
  <2> QED
    BY <1>12, <2>2 DEF PhoneOK
<1>16. ASSUME NEW q \in Phone
       PROVE  PhoneOK(ctl'[q], opening'[q], told'[q], native'[q], knocks'[q], inbox'[q], lastConn')
  BY <1>2, <1>4, <1>5, <1>7, <1>8, <1>10, <1>14, <1>15
<1>17. Types'
  BY <1>1, <1>4, <1>7, <1>8, <1>10, <1>16 DEF Types, lastSession
<1> QED
  BY <1>2, <1>3, <1>5, <1>6, <1>7, <1>8, <1>10, <1>17 DEF Fewer

\* The partner's listener accepts a new socket.
LEMMA DialStep ==
  ASSUME Types, Links, NEW p \in Phone, NEW w \in Caller, Dial(p, w)
  PROVE  Types' /\ Links'
<1>1. PICK k : k = lastConn + 1
  OBVIOUS
<1>2. PICK at : at = opening[p][w]
  OBVIOUS
<1>3. lastConn \in Nat /\ lastConn < MaxConn /\ MaxConn \in Nat
  BY EndTypes, Bounds DEF Dial
<1>4. k \in Conn /\ k > lastConn /\ k \in Nat
  BY <1>1, <1>3 DEF Conn
<1>5. PICK e : e = [at EXCEPT !.step = "dialled", !.connectionId = k]
  OBVIOUS
<1>6. OpeningOK(opening[p], lastConn) /\ at \in Opening /\ at.step = "dialling"
  BY <1>2, EndTypes DEF PhoneOK, OpeningOK, Dial
<1>7. /\ e \in Opening /\ e.step = "dialled" /\ e.connectionId = k /\ e.sessionId = at.sessionId
      /\ at.sessionId \in SessionOrNone /\ at.sessionId # 0
  <2>1. e \in Opening /\ e.step = "dialled" /\ e.connectionId = k /\ e.sessionId = at.sessionId
    BY <1>4, <1>5, <1>6 DEF Opening
  <2> QED
    BY <1>2, <1>6, <2>1 DEF OpeningOK
<1>8. ctl[p].context
  BY <1>2, <1>6, OpensInContext
<1>9. Dials(p, w, k, e)
  <2>1. knocks' = [knocks EXCEPT ![Other(p)] = knocks[Other(p)] \cup {k}]
    BY <1>1, TwoPhones DEF Dial, Types
  <2> QED
    BY <1>1, <1>2, <1>5, <2>1 DEF Dial, Dials
<1>10. PICK r \in Phone : r = Other(p) /\ r # p /\ Other(r) = p /\ \A q \in Phone : q = p \/ q = r
  BY TwoPhones
<1>11. PICK l : l = opening'[p]
  OBVIOUS
<1>12. PICK K : K = knocks[r] \cup {k}
  OBVIOUS
<1>13. /\ Types' /\ l[w] = e /\ \A v \in Caller \ {w} : l[v] = opening[p][v]
       /\ native'[p] = k /\ knocks'[p] = knocks[p] /\ knocks'[r] = K
       /\ opening'[r] = opening[r] /\ native'[r] = native[r]
  BY <1>1, <1>4, <1>7, <1>8, <1>9, <1>10, <1>11, <1>12, DialsTypes
<1>14. ctl' = ctl /\ inbox' = inbox /\ lastConn' = k
  BY <1>9 DEF Dials
<1>15. /\ inbox[p][k] = <<>> /\ k \notin knocks[p] /\ native[p] # k
       /\ ctl[p].active.connectionId # k /\ \A v \in Caller : ~IsEarly(opening[p], v, k)
  BY <1>1, <1>4, Unheard
<1>16. /\ inbox[r][k] = <<>> /\ k \notin knocks[r] /\ native[r] # k
       /\ ctl[r].active.connectionId # k /\ \A v \in Caller : ~IsEarly(opening[r], v, k)
  BY <1>1, <1>4, Unheard
<1>17. PICK s \in Session : s = at.sessionId
  BY <1>7, Bounds DEF SessionOrNone, Session
<1>18. LinkOf(k, p, r, s)'
  <2>1. \A v \in Caller : IsEarly(l, v, k) => l[v].sessionId = s
    BY <1>7, <1>13, <1>15, <1>17 DEF IsEarly
  <2>2. Len(inbox[p][k]) = 0 /\ Len(inbox[r][k]) = 0
    BY <1>15, <1>16, EmptySeq
  <2>3. k \in K
    BY <1>12
  <2>4. Link(k, s, ctl[p].active, inbox[p][k], k, knocks[p], l,
                   ctl[r].active, inbox[r][k], native[r], K, opening[r])
    BY <1>15, <1>16, <2>1, <2>2, <2>3, Dialled
  <2> QED
    BY <1>11, <1>13, <1>14, <2>4 DEF LinkOf
<1>19. ASSUME NEW c \in Conn, c # k, NEW d \in Phone, NEW t \in Session, LinkOf(c, d, Other(d), t)
       PROVE  LinkOf(c, d, Other(d), t)'
  <2>1. Fewer(c, opening[p], l)
    <3>1. ~IsEarly(l, w, c)
      BY <1>7, <1>13, <1>19 DEF IsEarly
    <3> QED
      BY <1>13, <3>1 DEF Fewer, IsEarly
  <2>2. c \in K <=> c \in knocks[r]
    BY <1>12, <1>19
  <2>3. CASE d = p
    <3>1. Link(c, t, ctl[p].active, inbox[p][c], native[p], knocks[p], opening[p],
                     ctl[r].active, inbox[r][c], native[r], knocks[r], opening[r])
      BY <1>10, <1>19, <2>3 DEF LinkOf
    <3>2. c \notin knocks[p]
      BY <3>1 DEF Link, DiallerOK
    <3>3. Link(c, t, ctl[p].active, inbox[p][c], k, knocks[p], l,
                     ctl[r].active, inbox[r][c], native[r], knocks[r], opening[r])
      BY <1>19, <2>1, <3>1, <3>2, DiallerStays
    <3>4. \A v \in Caller : ~IsEarly(opening[r], v, c)
      BY <3>1 DEF Link, DialledOK
    <3>5. Link(c, t, ctl[p].active, inbox[p][c], k, knocks[p], l,
                     ctl[r].active, inbox[r][c], native[r], K, opening[r])
      BY <2>2, <3>3, <3>4, DialledStays
    <3> QED
      BY <1>10, <1>11, <1>13, <1>14, <2>3, <3>5 DEF LinkOf
  <2>4. CASE d = r
    <3>1. Link(c, t, ctl[r].active, inbox[r][c], native[r], knocks[r], opening[r],
                     ctl[p].active, inbox[p][c], native[p], knocks[p], opening[p])
      BY <1>10, <1>19, <2>4 DEF LinkOf
    <3>2. \A v \in Caller : ~IsEarly(l, v, c)
      BY <2>1, <3>1 DEF Link, DialledOK, Fewer
    <3>3. Link(c, t, ctl[r].active, inbox[r][c], native[r], knocks[r], opening[r],
                     ctl[p].active, inbox[p][c], k, knocks[p], l)
      BY <1>19, <3>1, <3>2, DialledStays
    <3>4. c \notin K /\ Fewer(c, opening[r], opening[r])
      BY <2>2, <3>1 DEF Link, DiallerOK, Fewer
    <3>5. Link(c, t, ctl[r].active, inbox[r][c], native[r], K, opening[r],
                     ctl[p].active, inbox[p][c], k, knocks[p], l)
      BY <3>3, <3>4, DiallerStays
    <3> QED
      BY <1>10, <1>11, <1>13, <1>14, <2>4, <3>5 DEF LinkOf
  <2> QED
    BY <1>10, <2>3, <2>4
<1>20. ASSUME NEW c \in Conn, c > k PROVE Unused(c)'
  <2>1. Unused(c)
    BY <1>1, <1>3, <1>20 DEF Links, Conn
  <2>2. c # k
    BY <1>4, <1>20
  <2>3. ASSUME NEW q \in Phone PROVE inbox'[q][c] = <<>> /\ c \notin knocks'[q]
    BY <1>10, <1>12, <1>13, <1>14, <2>1, <2>2 DEF Unused
  <2> QED
    BY <2>3 DEF Unused
<1>21. Links'
  <2> SUFFICES ASSUME NEW c \in Conn
               PROVE  IF c > lastConn' THEN Unused(c)'
                      ELSE \E d \in Phone, t \in Session : LinkOf(c, d, Other(d), t)'
    BY DEF Links
  <2>1. CASE c > k
    BY <1>14, <1>20, <2>1
  <2>2. CASE c = k
    <3>1. ~(c > lastConn')
      BY <1>4, <1>14, <2>2
    <3>2. LinkOf(c, p, Other(p), s)'
      BY <1>10, <1>18, <2>2
    <3> QED
      BY <3>1, <3>2
  <2>3. CASE ~(c > k) /\ c # k
    <3>1. ~(c > lastConn)
      BY <1>1, <1>3, <2>3 DEF Conn
    <3>2. PICK d \in Phone, t \in Session : LinkOf(c, d, Other(d), t)
      BY <3>1 DEF Links
    <3>3. LinkOf(c, d, Other(d), t)'
      BY <1>19, <2>3, <3>2
    <3> QED
      BY <1>14, <2>3, <3>3
  <2> QED
    BY <2>1, <2>2, <2>3
<1> QED
  BY <1>13, <1>21

\* An operation that leaves every connection in order.
LEMMA PerformsKeeps ==
  ASSUME Types, Links, NEW p \in Phone, NEW o, NEW d, Performs(p, o, d),
         o \in Outcome, ControlOK(o.ctl, lastConn), o.ctl.context = ctl[p].context,
         o.drop \cap knocks[p] = {}, o.wire \in 0..lastConn, d = 0 \/ d \in Conn,
         d \in Conn => d \notin knocks[p] /\ Len(inbox[p][d]) > 0,
         \A c \in Conn : (c # o.wire /\ c # o.ctl.active.connectionId) \/ Kept(c)
  PROVE  Types' /\ Links'
<1>1. Types'
  BY PerformsTypes
<1>2. lastConn' = lastConn /\ lastConn \in Nat
  BY EndTypes DEF Performs
<1>3. ASSUME NEW c \in Conn, c > lastConn PROVE Unused(c)'
  <2>1. Unused(c)
    BY <1>3 DEF Links
  <2>2. d # c /\ o.wire # c
    BY <1>2, <1>3, <2>1 DEF Unused, Conn
  <2> QED
    BY <2>1, <2>2, PerformsUnused
<1>4. ASSUME NEW c \in Conn PROVE Kept(c)
  <2>1. CASE c # o.wire /\ c # o.ctl.active.connectionId
    BY <2>1, PerformsQuits
  <2> QED
    BY <2>1
<1>5. \A c \in Conn : IF c > lastConn THEN Unused(c)' ELSE Kept(c)
  BY <1>3, <1>4
<1> QED
  BY <1>1, <1>2, <1>5, LinksKept

\* A phone that has lost its native connection counts one message more.
LEMMA DiallerCounts ==
  ASSUME NEW c, NEW s, NEW a, NEW x, NEW n, NEW J, NEW o, NEW b, NEW y, NEW m, NEW K, NEW u,
         Link(c, s, a, x, n, J, o, b, y, m, K, u), n # c, a.connectionId = c,
         NEW a2, a2.connectionId = c, a2.keyed = a.keyed, a2.role = a.role, a2.sessionId = a.sessionId,
         a2.lastSequence = a.lastSequence, NEW o2, Fewer(c, o, o2)
  PROVE  Link(c, s, a2, x, n, J, o2, b, y, m, K, u)
<1>1. Handled(a2) = Handled(a)
  BY DEF Handled
<1>2. DiallerOK(c, s, a2, x, n, J, o2)
  BY <1>1 DEF Link, DiallerOK, Fewer
<1>3. BothOK(c, a2, x, n, o2, b, y, m, K)
  BY DEF Link, BothOK, Fewer, EarlyOn
<1> QED
  BY <1>2, <1>3 DEF Link

\* The same at the phone that was dialled.
LEMMA DialledCounts ==
  ASSUME NEW c, NEW s, NEW a, NEW x, NEW n, NEW J, NEW o, NEW b, NEW y, NEW m, NEW K, NEW u,
         Link(c, s, a, x, n, J, o, b, y, m, K, u), m # c, b.connectionId = c,
         NEW b2, b2.connectionId = c, b2.keyed = b.keyed, b2.role = b.role, b2.sessionId = b.sessionId,
         b2.lastSequence = b.lastSequence, NEW u2, \A w \in Caller : ~IsEarly(u2, w, c)
  PROVE  Link(c, s, a, x, n, J, o, b2, y, m, K, u2)
<1>1. /\ Heard(c, b2, K) = Heard(c, b, K)
      /\ Hears(c, b2, y, K) <=> Hears(c, b, y, K)
  BY DEF Handled, Heard, Hears
<1>2. DialledOK(c, s, b2, y, m, K, u2)
  BY <1>1 DEF Link, DialledOK
<1>3. BothOK(c, a, x, n, o, b2, y, m, K)
  BY <1>1 DEF Link, BothOK
<1> QED
  BY <1>2, <1>3 DEF Link

\* Phone e has dialled k, r is the other one, and p performs o, which handles
\* the first event of d: both ends of k before and after.
AtEnds(p, o, d, k, e, r, s) ==
  /\ r = Other(e) /\ r # e /\ p \in {e, r}
  /\ Link(k, s, ctl[e].active, inbox[e][k], native[e], knocks[e], opening[e],
                ctl[r].active, inbox[r][k], native[r], knocks[r], opening[r])
  /\ ctl'[p] = o.ctl /\ native'[p] = native[p] /\ knocks'[p] = knocks[p]
  /\ Fewer(k, opening[p], opening'[p])
  /\ p = r => \A w \in Caller : ~IsEarly(opening'[r], w, k)
  /\ inbox'[p][k] = IF k = d THEN Tail(inbox[p][k]) ELSE inbox[p][k]
  /\ \A q \in {e, r} : q # p =>
       /\ ctl'[q] = ctl[q] /\ native'[q] = native[q] /\ knocks'[q] = knocks[q]
       /\ opening'[q] = opening[q]
       /\ inbox'[q][k] = IF k = o.wire /\ Receives(q, k) THEN inbox[q][k] \o o.frames
                         ELSE inbox[q][k]
  /\ ctl[e].active \in Active /\ ctl[r].active \in Active
  /\ inbox[e][k] \in Seq(Event) /\ inbox[r][k] \in Seq(Event)

\* What both ends of connection k are before and after an operation of p that
\* does not close it.
LEMMA PerformsAt ==
  ASSUME Types, Links, NEW p \in Phone, NEW o, NEW d, Performs(p, o, d), o.drop = {},
         NEW k \in Conn, NEW e \in Phone, NEW s, LinkOf(k, e, Other(e), s)
  PROVE  \E r \in Phone : AtEnds(p, o, d, k, e, r, s)
<1>1. PICK r \in Phone : r = Other(e) /\ r # e /\ \A q \in Phone : q = e \/ q = r
  BY TwoPhones
<1>2. Link(k, s, ctl[e].active, inbox[e][k], native[e], knocks[e], opening[e],
                 ctl[r].active, inbox[r][k], native[r], knocks[r], opening[r])
  BY <1>1 DEF LinkOf
<1>3. /\ OnlyOf(p) /\ knocks' = knocks
      /\ ctl'[p] = o.ctl
      /\ opening'[p] = [opening[p] EXCEPT !["connect"] = Settled(p, o)]
      /\ native'[p] = IF native[p] \in o.drop THEN 0 ELSE native[p]
      /\ inbox'[p][k] = IF k \in o.drop THEN <<>>
                        ELSE IF k = d THEN Tail(inbox[p][k]) ELSE inbox[p][k]
      /\ \A q \in Phone \ {p} :
           inbox'[q][k] = IF k = o.wire /\ Receives(q, k) THEN inbox[q][k] \o o.frames
                          ELSE inbox[q][k]
  BY PerformsDoes
<1>4. Fewer(k, opening[p], opening'[p])
  <2>1. PICK l : l = [opening[p] EXCEPT !["connect"] = Settled(p, o)]
    OBVIOUS
  <2>2. Fewer(k, opening[p], l)
    BY <2>1, SettledIs
  <2> QED
    BY <1>3, <2>1, <2>2
<1>5. p = r => \A w \in Caller : ~IsEarly(opening'[r], w, k)
  BY <1>1, <1>4, NotDialled
<1>6. Others(p)
  BY <1>3, OnlyOthers
<1>7. \A q \in {e, r} : q # p =>
        /\ ctl'[q] = ctl[q] /\ native'[q] = native[q] /\ knocks'[q] = knocks[q]
        /\ opening'[q] = opening[q]
        /\ inbox'[q][k] = IF k = o.wire /\ Receives(q, k) THEN inbox[q][k] \o o.frames
                          ELSE inbox[q][k]
  BY <1>1, <1>3, <1>6 DEF Others
<1>8. /\ ctl[e].active \in Active /\ ctl[r].active \in Active
      /\ inbox[e][k] \in Seq(Event) /\ inbox[r][k] \in Seq(Event)
  BY <1>1, EndTypes
<1>9. /\ ctl'[p] = o.ctl /\ native'[p] = native[p] /\ knocks'[p] = knocks[p]
      /\ inbox'[p][k] = IF k = d THEN Tail(inbox[p][k]) ELSE inbox[p][k]
  BY <1>3
<1>10. p \in {e, r}
  BY <1>1
<1>11. AtEnds(p, o, d, k, e, r, s)
  BY <1>1, <1>2, <1>4, <1>5, <1>7, <1>8, <1>9, <1>10 DEF AtEnds
<1> QED
  BY <1>11

\* Outcome o of p puts a sealed message on connection k: the active connection
\* a becomes a2.
PutsSealed(p, k, o, a, a2, body) ==
  /\ a = ctl[p].active /\ a.connectionId = k /\ a.keyed /\ native[p] = k
  /\ o.drop = {} /\ o.wire = k
  /\ o.frames = <<Sealed(a.sessionId, a.nextSendSequence, body)>>
  /\ o.ctl.active = a2 /\ a2.connectionId = k /\ a2.keyed /\ a2.role = a.role
  /\ a2.sessionId = a.sessionId /\ a2.nextSendSequence = a.nextSendSequence + 1
  /\ a2.lastSequence = a.lastSequence

\* A sealed message goes out on the connection of p.
LEMMA SealedGoes ==
  ASSUME Types, Links, NEW p \in Phone, NEW o, Performs(p, o, 0), NEW k \in Conn, NEW a, NEW a2,
         NEW body \in Body, PutsSealed(p, k, o, a, a2, body)
  PROVE  Kept(k)
<1> SUFFICES ASSUME NEW e \in Phone, NEW s \in Session, LinkOf(k, e, Other(e), s)
             PROVE  LinkOf(k, e, Other(e), s)'
  BY DEF Kept
<1>1. PICK r \in Phone : AtEnds(p, o, 0, k, e, r, s)
  <2>1. o.drop = {}
    BY DEF PutsSealed
  <2> QED
    BY <2>1, PerformsAt
<1>2. s \in SessionOrNone /\ k # 0
  BY Bounds DEF Session, SessionOrNone, Conn
<1>3. /\ a.connectionId = k /\ a.keyed /\ a \in Active /\ a.nextSendSequence > 0
      /\ a2.connectionId = k /\ a2.keyed /\ a2.role = a.role
      /\ a2.sessionId = a.sessionId /\ a2.nextSendSequence = a.nextSendSequence + 1
      /\ a2.lastSequence = a.lastSequence
  BY EndTypes DEF ActiveOK, PutsSealed
<1>6. /\ ctl[e].active \in Active /\ ctl[r].active \in Active
      /\ inbox[e][k] \in Seq(Event) /\ inbox[r][k] \in Seq(Event)
  BY <1>1 DEF AtEnds
<1>4. CASE p = e
  <2>1. a.sessionId = s
    BY <1>1, <1>4 DEF Link, DiallerOK, PutsSealed, AtEnds
  <2>2. /\ ctl'[r] = ctl[r] /\ native'[r] = native[r] /\ knocks'[r] = knocks[r]
        /\ opening'[r] = opening[r]
        /\ inbox'[r][k] = IF native[r] = k \/ k \in knocks[r]
                          THEN inbox[r][k] \o <<Sealed(s, a.nextSendSequence, body)>>
                          ELSE inbox[r][k]
    BY <1>1, <1>4, <2>1 DEF Receives, PutsSealed, AtEnds
  <2>3. PICK o2 : o2 = opening'[e]
    OBVIOUS
  <2>4. PICK y2 : y2 = inbox'[r][k]
    OBVIOUS
  <2>5. Link(k, s, a2, inbox[e][k], k, knocks[e], o2,
                   ctl[r].active, y2, native[r], knocks[r], opening[r])
    <3>1. Link(k, s, a, inbox[e][k], k, knocks[e], opening[e],
                   ctl[r].active, inbox[r][k], native[r], knocks[r], opening[r])
      BY <1>1, <1>4 DEF PutsSealed, AtEnds
    <3>2. Fewer(k, opening[e], o2)
      BY <1>1, <1>4, <2>3 DEF AtEnds
    <3>3. Gets(k, inbox[r][k], y2, native[r], knocks[r], s, a.nextSendSequence, body)
      BY <2>2, <2>4 DEF Gets
    <3> QED
      BY <1>2, <1>3, <1>6, <3>1, <3>2, <3>3, DiallerSends
  <2> QED
    BY <1>1, <1>2, <1>4, <2>2, <2>3, <2>4, <2>5 DEF LinkOf, PutsSealed, AtEnds
<1>5. CASE p = r
  <2>1. a.sessionId = s
    BY <1>1, <1>5 DEF Link, DialledOK, PutsSealed, AtEnds
  <2>2. /\ ctl'[e] = ctl[e] /\ native'[e] = native[e] /\ knocks'[e] = knocks[e]
        /\ opening'[e] = opening[e]
        /\ inbox'[e][k] = IF native[e] = k \/ k \in knocks[e]
                          THEN inbox[e][k] \o <<Sealed(s, a.nextSendSequence, body)>>
                          ELSE inbox[e][k]
    BY <1>1, <1>5, <2>1 DEF Receives, PutsSealed, AtEnds
  <2>3. PICK u2 : u2 = opening'[r]
    OBVIOUS
  <2>4. PICK x2 : x2 = inbox'[e][k]
    OBVIOUS
  <2>5. Link(k, s, ctl[e].active, x2, native[e], knocks[e], opening[e],
                   a2, inbox[r][k], k, knocks[r], u2)
    <3>1. Link(k, s, ctl[e].active, inbox[e][k], native[e], knocks[e], opening[e],
                   a, inbox[r][k], k, knocks[r], opening[r])
      BY <1>1, <1>5 DEF PutsSealed, AtEnds
    <3>2. \A w \in Caller : ~IsEarly(u2, w, k)
      BY <1>1, <1>5, <2>3 DEF AtEnds
    <3>3. Gets(k, inbox[e][k], x2, native[e], knocks[e], s, a.nextSendSequence, body)
      BY <2>2, <2>4 DEF Gets
    <3> QED
      BY <1>2, <1>3, <1>6, <3>1, <3>2, <3>3, DialledSends
  <2> QED
    BY <1>1, <1>2, <1>5, <2>2, <2>3, <2>4, <2>5 DEF LinkOf, PutsSealed, AtEnds
<1> QED
  BY <1>1, <1>4, <1>5 DEF AtEnds

\* Outcome o of p counts a message that has no connection to go out on.
Counts(p, k, o, a, a2) ==
  /\ a = ctl[p].active /\ a.connectionId = k /\ native[p] # k
  /\ o.drop = {} /\ o.wire = 0
  /\ o.ctl.active = a2 /\ a2.connectionId = k /\ a2.keyed = a.keyed /\ a2.role = a.role
  /\ a2.sessionId = a.sessionId /\ a2.lastSequence = a.lastSequence

\* The number of a message is used up without a connection to send it on.
LEMMA NumberIsLost ==
  ASSUME Types, Links, NEW p \in Phone, NEW o, Performs(p, o, 0), NEW k \in Conn, NEW a, NEW a2,
         Counts(p, k, o, a, a2)
  PROVE  Kept(k)
<1> SUFFICES ASSUME NEW e \in Phone, NEW s \in Session, LinkOf(k, e, Other(e), s)
             PROVE  LinkOf(k, e, Other(e), s)'
  BY DEF Kept
<1>1. PICK r \in Phone : AtEnds(p, o, 0, k, e, r, s)
  <2>1. o.drop = {}
    BY DEF Counts
  <2> QED
    BY <2>1, PerformsAt
<1>2. k # 0
  BY DEF Conn
<1>3. PICK o2 : o2 = opening'[p]
  OBVIOUS
<1>6. /\ a.connectionId = k /\ native[p] # k
      /\ a2.connectionId = k /\ a2.keyed = a.keyed /\ a2.role = a.role
      /\ a2.sessionId = a.sessionId /\ a2.lastSequence = a.lastSequence
  BY DEF Counts
<1>4. CASE p = e
  <2>1. Link(k, s, a2, inbox[e][k], native[e], knocks[e], o2,
                   ctl[r].active, inbox[r][k], native[r], knocks[r], opening[r])
    <3>1. Link(k, s, a, inbox[e][k], native[e], knocks[e], opening[e],
                     ctl[r].active, inbox[r][k], native[r], knocks[r], opening[r])
      BY <1>1, <1>4 DEF Counts, AtEnds
    <3>2. Fewer(k, opening[e], o2) /\ native[e] # k
      BY <1>1, <1>3, <1>4, <1>6 DEF AtEnds
    <3> QED
      BY <1>6, <3>1, <3>2, DiallerCounts
  <2> QED
    BY <1>1, <1>2, <1>3, <1>4, <2>1 DEF LinkOf, Counts, AtEnds
<1>5. CASE p = r
  <2>1. Link(k, s, ctl[e].active, inbox[e][k], native[e], knocks[e], opening[e],
                   a2, inbox[r][k], native[r], knocks[r], o2)
    <3>1. Link(k, s, ctl[e].active, inbox[e][k], native[e], knocks[e], opening[e],
                     a, inbox[r][k], native[r], knocks[r], opening[r])
      BY <1>1, <1>5 DEF Counts, AtEnds
    <3>2. (\A w \in Caller : ~IsEarly(o2, w, k)) /\ native[r] # k
      BY <1>1, <1>3, <1>5, <1>6 DEF AtEnds
    <3> QED
      BY <1>6, <3>1, <3>2, DialledCounts
  <2> QED
    BY <1>1, <1>2, <1>3, <1>5, <2>1 DEF LinkOf, Counts, AtEnds
<1> QED
  BY <1>1, <1>4, <1>5 DEF AtEnds

\* send() of the control session.
LEMMA SendStep ==
  ASSUME Types, Links, NEW p \in Phone, NEW body \in Body, Send(p, body)
  PROVE  Types' /\ Links'
<1>1. PICK a : a = ctl[p].active
  OBVIOUS
<1>2. PICK k : k = a.connectionId
  OBVIOUS
<1>3. /\ ctl[p] \in Control /\ a \in Active /\ ActiveOK(a, lastConn) /\ a.keyed
      /\ lastConn \in Nat /\ lastConn <= MaxConn /\ ControlOK(ctl[p], lastConn)
      /\ a.sessionId \in SessionOrNone /\ a.role \in Role
  BY <1>1, EndTypes DEF Send, PhoneOK, ActiveOK, Active
<1>4. k \in Conn /\ k \in 1..lastConn
  <2>1. k # 0
    BY <1>2, <1>3 DEF ActiveOK, NoActive
  <2>2. k \in 0..lastConn
    BY <1>2, <1>3 DEF ActiveOK
  <2> QED
    BY <1>3, <2>1, <2>2, Bounds DEF Conn
<1>5. PICK a2 : a2 = [a EXCEPT !.nextSendSequence = @ + 1]
  OBVIOUS
<1>6. /\ a2 \in Active /\ a2.connectionId = k /\ a2.keyed = a.keyed /\ a2.role = a.role
      /\ a2.sessionId = a.sessionId /\ a2.nextSendSequence = a.nextSendSequence + 1
      /\ a2.lastSequence = a.lastSequence
  <2>1. a.nextSendSequence + 1 \in Nat
    BY <1>3 DEF Active
  <2>2. PICK n : n = a.nextSendSequence + 1
    OBVIOUS
  <2>3. a2 = [a EXCEPT !.nextSendSequence = n] /\ n \in Nat
    BY <1>5, <2>1, <2>2
  <2> QED
    BY <1>2, <1>3, <2>2, <2>3 DEF Active
<1>7. ActiveOK(a2, lastConn)
  BY <1>2, <1>3, <1>4, <1>6 DEF ActiveOK, Active
<1>8. PICK y : y = [ctl[p] EXCEPT !.active = a2]
  OBVIOUS
<1>9. /\ y \in Control /\ y.active = a2 /\ y.context = ctl[p].context
      /\ y.resumeSessionId = ctl[p].resumeSessionId /\ y.reconnectAttempt = ctl[p].reconnectAttempt
  BY <1>3, <1>6, <1>8 DEF Control
<1>10. ControlOK(y, lastConn)
  BY <1>1, <1>2, <1>3, <1>4, <1>6, <1>7, <1>9 DEF ControlOK, Conn
<1>11. PICK v : v = Unchanged(p)
  OBVIOUS
<1>12. /\ v \in Outcome /\ v.ctl = ctl[p] /\ v.drop = {} /\ v.connect = "pending" /\ v.wire = 0
       /\ v.frames = <<>>
  <2>1. Gentle(v, ctl[p].active, {}, ctl[p].context) /\ v.ctl = ctl[p]
    BY <1>11, StartGentle
  <2>2. v \in Outcome
    BY <2>1 DEF Gentle, Loose
  <2> QED
    BY <1>11, <2>1, <2>2 DEF Unchanged
<1>13. PICK u : u = [v EXCEPT !.ctl = y]
  OBVIOUS
<1>14. /\ u \in Outcome /\ u.ctl = y /\ u.drop = {} /\ u.connect = "pending" /\ u.wire = 0
       /\ u.frames = <<>>
  BY <1>9, <1>12, <1>13 DEF Outcome
<1>15. u = [Unchanged(p) EXCEPT !.ctl.active.nextSendSequence = @ + 1]
  BY <1>1, <1>3, <1>5, <1>8, <1>11, <1>12, <1>13 DEF Outcome, Control, Active
<1>16. PICK f : f = <<Sealed(a.sessionId, a.nextSendSequence, body)>>
  OBVIOUS
<1>17. Sending(p, body) = IF native[p] = k THEN [u EXCEPT !.wire = k, !.frames = f]
                          ELSE BeginReconnect(u, a)
  BY <1>1, <1>2, <1>6, <1>9, <1>14, <1>15, <1>16 DEF Sending, Sends
<1>18. PICK o : o = Sending(p, body)
  OBVIOUS
<1>19. Performs(p, o, 0) /\ 0 \notin Conn
  BY <1>18 DEF Send, Conn
<1>20. CASE native[p] = k
  <2>1. f \in Seq(Event)
    <3>1. Sealed(a.sessionId, a.nextSendSequence, body) \in Event
      BY <1>3 DEF Sealed, Event, Active
    <3> QED
      BY <1>16, <3>1
  <2>2. /\ o \in Outcome /\ o.ctl = y /\ o.drop = {} /\ o.wire = k /\ o.frames = f
    <3>1. o = [u EXCEPT !.wire = k, !.frames = f] /\ k \in Nat
      BY <1>4, <1>17, <1>18, <1>20 DEF Conn
    <3> QED
      BY <1>14, <2>1, <3>1 DEF Outcome
  <2>3. Kept(k)
    <3>1. PutsSealed(p, k, o, a, a2, body)
      BY <1>1, <1>2, <1>3, <1>6, <1>9, <1>16, <1>20, <2>2 DEF PutsSealed
    <3> QED
      BY <1>4, <1>19, <3>1, SealedGoes
  <2>4. \A c \in Conn : (c # o.wire /\ c # o.ctl.active.connectionId) \/ Kept(c)
    BY <1>6, <1>9, <2>2, <2>3
  <2>5. o.drop \cap knocks[p] = {} /\ o.wire \in 0..lastConn /\ ControlOK(o.ctl, lastConn)
        /\ o.ctl.context = ctl[p].context
    BY <1>3, <1>4, <1>9, <1>10, <2>2
  <2> QED
    BY <1>19, <2>2, <2>4, <2>5, PerformsKeeps
<1>21. CASE native[p] # k
  <2>1. PICK D : D = {k}
    OBVIOUS
  <2>2. PICK t : t = ctl[p].context
    OBVIOUS
  <2>3. Gentle(u, a2, D, t)
    BY <1>9, <1>10, <1>14, <2>2 DEF Gentle, Loose
  <2>4. Gentle(BeginReconnect(u, a), a2, D, t)
    <3>1. a.connectionId \in Nat /\ a.connectionId \in D
      BY <1>2, <1>3, <2>1 DEF Active
    <3> QED
      BY <1>3, <2>3, <3>1, BeginGentle
  <2>5. Gentle(o, a2, D, t)
    BY <1>17, <1>18, <1>21, <2>4
  <2>6. /\ o \in Outcome /\ ControlOK(o.ctl, lastConn) /\ o.wire = 0 /\ o.ctl.context = t
        /\ o.drop \subseteq {k}
        /\ (o.ctl.active = a2 /\ o.drop = {}) \/ o.ctl.active = NoActive
    BY <2>1, <2>5 DEF Gentle, Loose
  <2>7. o.drop \cap knocks[p] = {}
    BY <1>1, <1>2, <2>6, ActiveClassified
  <2>8. ASSUME NEW c \in Conn PROVE (c # o.wire /\ c # o.ctl.active.connectionId) \/ Kept(c)
    <3>1. CASE o.ctl.active = NoActive
      BY <1>19, <2>6, <2>8, <3>1 DEF NoActive
    <3>2. CASE o.ctl.active = a2 /\ o.drop = {}
      <4>1. Kept(k)
        <5>1. Counts(p, k, o, a, a2)
          BY <1>1, <1>2, <1>6, <1>21, <2>6, <3>2 DEF Counts
        <5> QED
          BY <1>4, <1>19, <5>1, NumberIsLost
      <4> QED
        BY <1>6, <1>19, <2>6, <2>8, <3>2, <4>1
    <3> QED
      BY <2>6, <3>1, <3>2
  <2>9. o.wire \in 0..lastConn
    BY <1>3, <2>6
  <2> QED
    BY <1>19, <2>2, <2>6, <2>7, <2>8, <2>9, PerformsKeeps
<1> QED
  BY <1>20, <1>21

-----------------------------------------------------------------------------
(***************************************************************************)
(* Transport events.                                                       *)
(***************************************************************************)

\* An active connection sees no second "connected".
LEMMA ConnectedOnce ==
  ASSUME Types, Links, NEW p \in Phone, NEW k \in Conn, ctl[p].active.connectionId = k,
         Len(inbox[p][k]) > 0
  PROVE  inbox[p][k][1] # Connected
<1>1. PICK a : a = ctl[p].active
  OBVIOUS
<1>2. PICK x : x = inbox[p][k]
  OBVIOUS
<1>3. a \in Active /\ ActiveOK(a, lastConn) /\ x \in Seq(Event) /\ lastConn \in Nat /\ a.connectionId = k
  BY <1>1, <1>2, EndTypes
<1>4. ~(k > lastConn)
  BY <1>3 DEF ActiveOK
<1>5. PICK d \in Phone, s \in Session : LinkOf(k, d, Other(d), s)
  BY <1>4 DEF Links
<1>6. PICK r : r = Other(d) /\ (p = d \/ p = r)
  BY TwoPhones
<1>7. CASE p = d
  <2>1. NoConnected(x) /\ 1 \in 1..Len(x)
    BY <1>2, <1>3, <1>5, <1>7 DEF LinkOf, Link, DiallerOK
  <2> QED
    BY <1>2, <2>1 DEF NoConnected
<1>8. CASE p = r
  <2>1. Flow(x, Handled(a), "responder", s)
    <3>1. DialledOK(k, s, a, x, native[r], knocks[r], opening[r])
      BY <1>1, <1>2, <1>5, <1>6, <1>8 DEF LinkOf, Link
    <3>2. k \notin knocks[r] /\ Hears(k, a, x, knocks[r])
      BY <1>3, <3>1 DEF DialledOK, Hears
    <3> QED
      BY <1>3, <3>1, <3>2 DEF DialledOK, Heard
  <2>2. Handled(a) \in Nat /\ Handled(a) + 1 # 1 /\ Handled(a) + 1 \in Nat
    BY <1>3 DEF Handled, Active
  <2>3. 1 \in 1..Len(x)
    BY <1>2, <1>3
  <2>4. IsNth(x[1], Handled(a) + 1, "responder", s) \/ x[1] \in Last
    BY <2>1, <2>3 DEF Flow
  <2>5. x[1] # Connected
    BY <2>2, <2>4, NthKinds, Kinds
  <2> QED
    BY <1>2, <2>5
<1> QED
  BY <1>6, <1>7, <1>8

\* A connection that has an end is one of those opened so far.
LEMMA KnownConnection ==
  ASSUME Types, Links, NEW p \in Phone, NEW k \in Conn, inbox[p][k] # <<>>
  PROVE  k \in 1..lastConn
<1>1. lastConn \in Nat /\ ~Unused(k)
  BY EndTypes DEF Unused
<1> QED
  BY <1>1 DEF Links, Conn

\* The active connection of p becomes a2.
LEMMA ActiveChanges ==
  ASSUME Types, NEW p \in Phone, NEW a2 \in Active, ActiveOK(a2, lastConn), ctl[p].context,
         NEW y, y = [ctl[p] EXCEPT !.active = a2]
  PROVE  /\ y \in Control /\ ControlOK(y, lastConn) /\ y.active = a2
         /\ y.context = ctl[p].context /\ y.resumeSessionId = ctl[p].resumeSessionId
<1>1. ctl[p] \in Control /\ ControlOK(ctl[p], lastConn)
  BY EndTypes DEF PhoneOK
<1>2. /\ y \in Control /\ y.active = a2 /\ y.context = ctl[p].context
      /\ y.resumeSessionId = ctl[p].resumeSessionId /\ y.reconnectAttempt = ctl[p].reconnectAttempt
  BY <1>1 DEF Control
<1> QED
  BY <1>1, <1>2 DEF ControlOK

\* Outcome f tells more than o and is otherwise alike.
Alike(f, o) ==
  /\ f \in Outcome /\ ControlOK(f.ctl, lastConn)
  /\ f.ctl.active = o.ctl.active /\ f.ctl.context = o.ctl.context
  /\ f.drop = o.drop /\ f.wire = o.wire /\ f.frames = o.frames /\ f.connect = o.connect

\* What emit() changes in an outcome.
LEMMA EmitAlike ==
  ASSUME NEW o \in Outcome, ControlOK(o.ctl, lastConn), NEW type \in News, NEW s \in SessionOrNone
  PROVE  Alike(Emit(o, type, s), o)
<1>1. [type |-> type, sessionId |-> s, body |-> type] \in Notice
  BY DEF Notice
<1>2. o.told \in SessionOrNone
  BY DEF Outcome
<1>3. Append(o.emit, [type |-> type, sessionId |-> s, body |-> type]) \in Seq(Notice)
  BY <1>1, <1>2 DEF Outcome
<1>4. PICK e : e = Append(o.emit, [type |-> type, sessionId |-> s, body |-> type])
  OBVIOUS
<1>5. PICK told2 \in SessionOrNone : Emit(o, type, s) = [o EXCEPT !.emit = e, !.told = told2]
  BY <1>2, <1>4, Bounds DEF Emit
<1>6. e \in Seq(Notice)
  BY <1>3, <1>4
<1>7. PICK f : f = [o EXCEPT !.emit = e, !.told = told2]
  OBVIOUS
<1>8. /\ f \in Outcome /\ f.ctl = o.ctl /\ f.drop = o.drop /\ f.wire = o.wire
      /\ f.frames = o.frames /\ f.connect = o.connect
  BY <1>6, <1>7 DEF Outcome
<1> QED
  BY <1>5, <1>7, <1>8 DEF Alike

\* What announcing a keyed connection changes in an outcome.
LEMMA AnnounceAlike ==
  ASSUME NEW o \in Outcome, ControlOK(o.ctl, lastConn), NEW s \in SessionOrNone
  PROVE  Alike(Announce(o, s), o)
<1>1. PICK y : y = [o.ctl EXCEPT !.reconnectTimer = FALSE, !.responderReconnectTimer = FALSE,
            !.resumeSessionId = 0, !.resumeRole = "none", !.reconnectAttempt = 0]
  OBVIOUS
<1>2. o.ctl \in Control
  BY DEF Outcome
<1>3. /\ y \in Control /\ y.active = o.ctl.active /\ y.context = o.ctl.context
      /\ y.resumeSessionId = 0 /\ y.reconnectAttempt = 0
  BY <1>1, <1>2 DEF Control, Role
<1>4. PICK r : r = [o EXCEPT !.ctl = y]
  OBVIOUS
<1>5. ClearReconnectState(o) = r
  BY <1>1, <1>2, <1>4 DEF ClearReconnectState, Outcome, Control
<1>6. ControlOK(y, lastConn)
  BY <1>3, Bounds DEF ControlOK
<1>7. /\ r \in Outcome /\ r.ctl = y /\ r.drop = o.drop /\ r.wire = o.wire
      /\ r.frames = o.frames /\ r.connect = o.connect
  BY <1>3, <1>4 DEF Outcome
<1>8. Alike(Emit(r, "reconnected", s), r)
  BY <1>6, <1>7, EmitAlike DEF News
<1>9. Alike(Emit(o, "authenticated", s), o)
  BY EmitAlike DEF News
<1>10. Alike(Emit(r, "reconnected", s), o)
  BY <1>3, <1>7, <1>8 DEF Alike
<1>11. Announce(o, s) = IF o.ctl.resumeSessionId # 0 THEN Emit(r, "reconnected", s)
                        ELSE Emit(o, "authenticated", s)
  BY <1>5, Zenon DEF Announce
<1> QED
  BY <1>9, <1>10, <1>11

\* An accepted event: what happens to its connection decides.
LEMMA AcceptedStep ==
  ASSUME Types, Links, NEW p \in Phone, NEW c \in Conn, NEW o, Performs(p, o, c),
         c \notin knocks[p], Len(inbox[p][c]) > 0, c \in 1..lastConn,
         o \in Outcome, ControlOK(o.ctl, lastConn), o.ctl.context = ctl[p].context,
         o.drop = {}, o.wire \in {0, c}, o.ctl.active.connectionId = c, Kept(c)
  PROVE  Types' /\ Links'
<1>1. lastConn \in Nat
  BY EndTypes
<1>2. o.wire \in 0..lastConn
  BY <1>1
<1>3. \A e \in Conn : (e # o.wire /\ e # o.ctl.active.connectionId) \/ Kept(e)
  BY DEF Conn
<1> QED
  BY <1>2, <1>3, PerformsKeeps

\* Outcome o of p takes connection c for its active one.
Connects(p, c, o) ==
  /\ o.drop = {} /\ o.wire = 0 /\ c \notin knocks[p] /\ ctl[p].active.connectionId = 0
  /\ Len(inbox[p][c]) > 0 /\ inbox[p][c][1] = Connected
  /\ o.ctl.active.connectionId = c /\ ~o.ctl.active.keyed /\ o.ctl.active.role = "responder"

\* handleTransportEvent of "connected", seen from the connection.
LEMMA ConnectsKept ==
  ASSUME Types, Links, NEW p \in Phone, NEW c \in Conn, NEW o, Performs(p, o, c), Connects(p, c, o)
  PROVE  Kept(c)
<1> SUFFICES ASSUME NEW e \in Phone, NEW s \in Session, LinkOf(c, e, Other(e), s)
             PROVE  LinkOf(c, e, Other(e), s)'
  BY DEF Kept
<1>1. PICK r \in Phone : AtEnds(p, o, c, c, e, r, s)
  <2>1. o.drop = {}
    BY DEF Connects
  <2> QED
    BY <2>1, PerformsAt
<1>2. /\ ctl[e].active \in Active /\ ctl[r].active \in Active /\ r = Other(e)
      /\ inbox[e][c] \in Seq(Event) /\ inbox[r][c] \in Seq(Event)
      /\ Link(c, s, ctl[e].active, inbox[e][c], native[e], knocks[e], opening[e],
                    ctl[r].active, inbox[r][c], native[r], knocks[r], opening[r])
  BY <1>1 DEF AtEnds
<1>3. p = r
  <2>1. CASE p = e
    <3>1. NoConnected(inbox[e][c]) /\ 1 \in 1..Len(inbox[e][c])
      BY <1>2, <2>1 DEF Link, DiallerOK, Connects
    <3> QED
      BY <2>1, <3>1 DEF NoConnected, Connects
  <2> QED
    BY <1>1, <2>1 DEF AtEnds
<1>4. PICK b2 : b2 = o.ctl.active
  OBVIOUS
<1>5. PICK u2 : u2 = opening'[r]
  OBVIOUS
<1>6. /\ ctl[r].active.connectionId # c /\ c \notin knocks[r]
      /\ Len(inbox[r][c]) > 0 /\ inbox[r][c][1] = Connected
      /\ b2.connectionId = c /\ ~b2.keyed /\ b2.role = "responder"
  BY <1>3, <1>4 DEF Connects, Conn
<1>7. \A w \in Caller : ~IsEarly(u2, w, c)
  BY <1>1, <1>3, <1>5 DEF AtEnds
<1>8. Link(c, s, ctl[e].active, inbox[e][c], native[e], knocks[e], opening[e],
                 b2, Tail(inbox[r][c]), native[r], knocks[r], u2)
  BY <1>2, <1>6, <1>7, DialledConnects
<1>9. 0 # c
  BY DEF Conn
<1>10. /\ ctl'[r].active = b2 /\ native'[r] = native[r] /\ knocks'[r] = knocks[r]
       /\ inbox'[r][c] = Tail(inbox[r][c])
  BY <1>1, <1>3, <1>4 DEF AtEnds
<1>11. /\ ctl'[e] = ctl[e] /\ native'[e] = native[e] /\ knocks'[e] = knocks[e]
       /\ opening'[e] = opening[e] /\ inbox'[e][c] = inbox[e][c]
  BY <1>1, <1>3, <1>9 DEF AtEnds, Connects
<1> QED
  BY <1>2, <1>5, <1>8, <1>10, <1>11 DEF LinkOf

\* Outcome o of p accepts the hello1 of session t on its connection c and
\* answers it.
Answers(p, c, o, t) ==
  /\ o.drop = {} /\ o.wire = c /\ o.frames = <<Hello2(t)>> /\ native[p] = c
  /\ ctl[p].active.connectionId = c /\ ~ctl[p].active.keyed /\ ctl[p].active.role = "responder"
  /\ Len(inbox[p][c]) > 0 /\ inbox[p][c][1].kind = "hello1" /\ inbox[p][c][1].sessionId = t
  /\ o.ctl.active.connectionId = c /\ o.ctl.active.keyed /\ o.ctl.active.role = ctl[p].active.role
  /\ o.ctl.active.sessionId = t
  /\ o.ctl.active.nextSendSequence = 1 /\ o.ctl.active.lastSequence = 0

\* The responder's end of a handshake.
LEMMA AnswersKept ==
  ASSUME Types, Links, NEW p \in Phone, NEW c \in Conn, NEW o, Performs(p, o, c), NEW t, Answers(p, c, o, t)
  PROVE  Kept(c)
<1> SUFFICES ASSUME NEW e \in Phone, NEW s \in Session, LinkOf(c, e, Other(e), s)
             PROVE  LinkOf(c, e, Other(e), s)'
  BY DEF Kept
<1>1. PICK r \in Phone : AtEnds(p, o, c, c, e, r, s)
  <2>1. o.drop = {}
    BY DEF Answers
  <2> QED
    BY <2>1, PerformsAt
<1>2. /\ ctl[e].active \in Active /\ ctl[r].active \in Active /\ r = Other(e)
      /\ inbox[e][c] \in Seq(Event) /\ inbox[r][c] \in Seq(Event)
      /\ Link(c, s, ctl[e].active, inbox[e][c], native[e], knocks[e], opening[e],
                    ctl[r].active, inbox[r][c], native[r], knocks[r], opening[r])
  BY <1>1 DEF AtEnds
<1>3. p = r
  <2>1. p # e
    BY <1>2 DEF Link, DiallerOK, Answers
  <2> QED
    BY <1>1, <2>1 DEF AtEnds
<1>4. PICK b2 : b2 = o.ctl.active
  OBVIOUS
<1>5. PICK u2 : u2 = opening'[r]
  OBVIOUS
<1>6. PICK b, y : b = ctl[r].active /\ y = inbox[r][c]
  OBVIOUS
<1>7. /\ b.connectionId = c /\ ~b.keyed /\ b.role = "responder" /\ native[r] = c
      /\ Len(y) > 0 /\ y[1].kind = "hello1" /\ y[1].sessionId = t
      /\ b2.connectionId = c /\ b2.keyed /\ b2.role = b.role /\ b2.sessionId = t
      /\ b2.nextSendSequence = 1 /\ b2.lastSequence = 0
  BY <1>3, <1>4, <1>6 DEF Answers
<1>8. t = s
  <2>1. DialledOK(c, s, b, y, native[r], knocks[r], opening[r])
    BY <1>2, <1>6 DEF Link
  <2>2. Flow(y, 1, "responder", s)
    <3>1. Hears(c, b, y, knocks[r]) /\ Heard(c, b, knocks[r]) = 1
      BY <1>7 DEF Hears, Heard, Handled
    <3> QED
      BY <2>1, <3>1 DEF DialledOK
  <2>3. 1 \in 1..Len(y)
    BY <1>2, <1>6, <1>7
  <2>4. IsNth(y[1], 1 + 1, "responder", s) \/ y[1] \in Last
    BY <2>2, <2>3 DEF Flow
  <2>5. y[1] \notin Last
    BY <1>7, Kinds
  <2>6. y[1] = Hello1(s)
    BY <2>4, <2>5 DEF IsNth
  <2> QED
    BY <1>7, <2>6, Kinds
<1>9. \A w \in Caller : ~IsEarly(u2, w, c)
  BY <1>1, <1>3, <1>5 DEF AtEnds
<1>10. PICK x2 : x2 = IF native[e] = c \/ c \in knocks[e] THEN inbox[e][c] \o <<Hello2(s)>> ELSE inbox[e][c]
  OBVIOUS
<1>11. Link(c, s, ctl[e].active, x2, native[e], knocks[e], opening[e],
                  b2, Tail(y), c, knocks[r], u2)
  <2>1. Link(c, s, ctl[e].active, inbox[e][c], native[e], knocks[e], opening[e],
                   b, y, c, knocks[r], opening[r])
    BY <1>2, <1>6, <1>7
  <2>2. s \in SessionOrNone /\ y \in Seq(Event)
    BY <1>2, <1>6, Bounds DEF Session, SessionOrNone
  <2> QED
    BY <1>2, <1>7, <1>8, <1>9, <1>10, <2>1, <2>2, DialledAnswers
<1>12. /\ ctl'[r].active = b2 /\ native'[r] = c /\ knocks'[r] = knocks[r]
       /\ inbox'[r][c] = Tail(y)
  BY <1>1, <1>3, <1>4, <1>6, <1>7 DEF AtEnds
<1>13. /\ ctl'[e] = ctl[e] /\ native'[e] = native[e] /\ knocks'[e] = knocks[e]
       /\ opening'[e] = opening[e] /\ inbox'[e][c] = x2
  BY <1>1, <1>3, <1>8, <1>10 DEF AtEnds, Answers, Receives
<1> QED
  BY <1>2, <1>5, <1>11, <1>12, <1>13 DEF LinkOf

\* Outcome o of p accepts the hello2 on its connection c.
Keys(p, c, o) ==
  /\ o.drop = {} /\ o.wire = 0
  /\ ctl[p].active.connectionId = c /\ ~ctl[p].active.keyed /\ ctl[p].active.role = "initiator"
  /\ ctl[p].active.nextSendSequence = 1 /\ ctl[p].active.lastSequence = 0
  /\ Len(inbox[p][c]) > 0 /\ inbox[p][c][1].kind = "hello2"
  /\ o.ctl.active.connectionId = c /\ o.ctl.active.keyed /\ o.ctl.active.role = ctl[p].active.role
  /\ o.ctl.active.sessionId = ctl[p].active.sessionId
  /\ o.ctl.active.nextSendSequence = 1 /\ o.ctl.active.lastSequence = 0

\* The initiator's end of a handshake.
LEMMA KeysKept ==
  ASSUME Types, Links, NEW p \in Phone, NEW c \in Conn, NEW o, Performs(p, o, c), Keys(p, c, o)
  PROVE  Kept(c)
<1> SUFFICES ASSUME NEW e \in Phone, NEW s \in Session, LinkOf(c, e, Other(e), s)
             PROVE  LinkOf(c, e, Other(e), s)'
  BY DEF Kept
<1>1. PICK r \in Phone : AtEnds(p, o, c, c, e, r, s)
  <2>1. o.drop = {}
    BY DEF Keys
  <2> QED
    BY <2>1, PerformsAt
<1>2. /\ ctl[e].active \in Active /\ ctl[r].active \in Active /\ r = Other(e) /\ r # e
      /\ inbox[e][c] \in Seq(Event) /\ inbox[r][c] \in Seq(Event)
      /\ Link(c, s, ctl[e].active, inbox[e][c], native[e], knocks[e], opening[e],
                    ctl[r].active, inbox[r][c], native[r], knocks[r], opening[r])
  BY <1>1 DEF AtEnds
<1>3. p = e
  <2>1. p # r
    BY <1>2 DEF Link, DialledOK, Keys
  <2> QED
    BY <1>1, <2>1 DEF AtEnds
<1>4. PICK a2 : a2 = o.ctl.active
  OBVIOUS
<1>5. PICK o2 : o2 = opening'[e]
  OBVIOUS
<1>6. PICK a, x : a = ctl[e].active /\ x = inbox[e][c]
  OBVIOUS
<1>7. /\ a.connectionId = c /\ ~a.keyed /\ a.nextSendSequence = 1 /\ a.lastSequence = 0
      /\ Len(x) > 0 /\ x[1].kind = "hello2"
      /\ a2.connectionId = c /\ a2.keyed /\ a2.role = a.role /\ a2.sessionId = a.sessionId
      /\ a2.nextSendSequence = 1 /\ a2.lastSequence = 0
  BY <1>3, <1>4, <1>6 DEF Keys
<1>8. x[1] \notin Last
  BY <1>7, Kinds
<1>9. Fewer(c, opening[e], o2)
  BY <1>1, <1>3, <1>5 DEF AtEnds
<1>10. Link(c, s, a2, Tail(x), native[e], knocks[e], o2,
                  ctl[r].active, inbox[r][c], native[r], knocks[r], opening[r])
  <2>1. Link(c, s, a, x, native[e], knocks[e], opening[e],
                   ctl[r].active, inbox[r][c], native[r], knocks[r], opening[r])
    BY <1>2, <1>6
  <2>2. a \in Active /\ x \in Seq(Event)
    BY <1>2, <1>6
  <2> QED
    BY <1>7, <1>8, <1>9, <2>1, <2>2, DiallerKeyed
<1>11. 0 # c
  BY DEF Conn
<1>12. /\ ctl'[e].active = a2 /\ native'[e] = native[e] /\ knocks'[e] = knocks[e]
       /\ inbox'[e][c] = Tail(x)
  BY <1>1, <1>3, <1>4, <1>6 DEF AtEnds
<1>13. /\ ctl'[r] = ctl[r] /\ native'[r] = native[r] /\ knocks'[r] = knocks[r]
       /\ opening'[r] = opening[r] /\ inbox'[r][c] = inbox[r][c]
  BY <1>1, <1>2, <1>3, <1>11 DEF AtEnds, Keys
<1> QED
  BY <1>2, <1>5, <1>10, <1>12, <1>13 DEF LinkOf

\* Outcome o of p accepts the next sealed message on its connection c.
Reads(p, c, o) ==
  /\ o.drop = {} /\ o.wire = 0
  /\ ctl[p].active.connectionId = c /\ ctl[p].active.keyed /\ Len(inbox[p][c]) > 0
  /\ o.ctl.active.connectionId = c /\ o.ctl.active.keyed /\ o.ctl.active.role = ctl[p].active.role
  /\ o.ctl.active.sessionId = ctl[p].active.sessionId
  /\ o.ctl.active.nextSendSequence = ctl[p].active.nextSendSequence
  /\ o.ctl.active.lastSequence = ctl[p].active.lastSequence + 1

\* A sealed message is accepted, seen from the connection.
LEMMA ReadsKept ==
  ASSUME Types, Links, NEW p \in Phone, NEW c \in Conn, NEW o, Performs(p, o, c), Reads(p, c, o)
  PROVE  Kept(c)
<1> SUFFICES ASSUME NEW e \in Phone, NEW s \in Session, LinkOf(c, e, Other(e), s)
             PROVE  LinkOf(c, e, Other(e), s)'
  BY DEF Kept
<1>1. PICK r \in Phone : AtEnds(p, o, c, c, e, r, s)
  <2>1. o.drop = {}
    BY DEF Reads
  <2> QED
    BY <2>1, PerformsAt
<1>2. /\ ctl[e].active \in Active /\ ctl[r].active \in Active /\ r = Other(e) /\ r # e /\ p \in {e, r}
      /\ inbox[e][c] \in Seq(Event) /\ inbox[r][c] \in Seq(Event)
      /\ Link(c, s, ctl[e].active, inbox[e][c], native[e], knocks[e], opening[e],
                    ctl[r].active, inbox[r][c], native[r], knocks[r], opening[r])
  BY <1>1 DEF AtEnds
<1>3. PICK a2 : a2 = o.ctl.active
  OBVIOUS
<1>4. PICK o2 : o2 = opening'[p]
  OBVIOUS
<1>5. PICK a, x : a = ctl[p].active /\ x = inbox[p][c]
  OBVIOUS
<1>6. /\ a.connectionId = c /\ a.keyed /\ Len(x) > 0
      /\ a2.connectionId = c /\ a2.keyed /\ a2.role = a.role /\ a2.sessionId = a.sessionId
      /\ a2.nextSendSequence = a.nextSendSequence /\ a2.lastSequence = a.lastSequence + 1
  BY <1>3, <1>5 DEF Reads
<1>7. a \in Active /\ x \in Seq(Event)
  BY <1>2, <1>5
<1>8. 0 # c
  BY DEF Conn
<1>9. /\ ctl'[p].active = a2 /\ native'[p] = native[p] /\ knocks'[p] = knocks[p]
      /\ inbox'[p][c] = Tail(x)
  BY <1>1, <1>3, <1>5 DEF AtEnds
<1>10. \A q \in {e, r} : q # p =>
         /\ ctl'[q] = ctl[q] /\ native'[q] = native[q] /\ knocks'[q] = knocks[q]
         /\ opening'[q] = opening[q] /\ inbox'[q][c] = inbox[q][c]
  BY <1>1, <1>8 DEF AtEnds, Reads
<1>11. CASE p = e
  <2>1. Link(c, s, a, x, native[e], knocks[e], opening[e],
                   ctl[r].active, inbox[r][c], native[r], knocks[r], opening[r])
    BY <1>2, <1>5, <1>11
  <2>2. Fewer(c, opening[e], o2)
    BY <1>1, <1>4, <1>11 DEF AtEnds
  <2>3. Link(c, s, a2, Tail(x), native[e], knocks[e], o2,
                   ctl[r].active, inbox[r][c], native[r], knocks[r], opening[r])
    BY <1>6, <1>7, <2>1, <2>2, DiallerReads
  <2> QED
    BY <1>2, <1>4, <1>9, <1>10, <1>11, <2>3 DEF LinkOf
<1>12. CASE p = r
  <2>1. Link(c, s, ctl[e].active, inbox[e][c], native[e], knocks[e], opening[e],
                   a, x, native[r], knocks[r], opening[r])
    BY <1>2, <1>5, <1>12
  <2>2. \A w \in Caller : ~IsEarly(o2, w, c)
    BY <1>1, <1>4, <1>12 DEF AtEnds
  <2>3. Link(c, s, ctl[e].active, inbox[e][c], native[e], knocks[e], opening[e],
                   a2, Tail(x), native[r], knocks[r], o2)
    BY <1>6, <1>7, <2>1, <2>2, DialledReads
  <2> QED
    BY <1>2, <1>4, <1>9, <1>10, <1>12, <2>3 DEF LinkOf
<1> QED
  BY <1>2, <1>11, <1>12

(* Nested fields of the active connection that change. *)

\* Outcome u with active connection a becomes v with b, of the session of e.
Answered(p, u, a, b, e, v) ==
  /\ u \in Outcome /\ u.ctl \in Control /\ a \in Active /\ u.ctl.active = a
  /\ native[p] = a.connectionId
  /\ b = [a EXCEPT !.sessionId = e.sessionId, !.keyed = TRUE]
  /\ v = [u EXCEPT !.ctl = [u.ctl EXCEPT !.active = b]]

\* acceptHello1 keys the connection with the session of the hello.
LEMMA AnswerIs ==
  ASSUME NEW p, NEW e, NEW u, NEW a, NEW b, NEW v, Answered(p, u, a, b, e, v)
  PROVE  AcceptHello1(u, p, e) = Announce(Sends(v, Hello2(e.sessionId)), e.sessionId)
<1>1. [u EXCEPT !.ctl.active.sessionId = e.sessionId, !.ctl.active.keyed = TRUE] = v
  <2>1. PICK s : s = e.sessionId
    OBVIOUS
  <2>2. PICK x : x = u.ctl
    OBVIOUS
  <2>3. u \in Outcome /\ x \in Control /\ a \in Active /\ x.active = a
    BY <2>2 DEF Answered
  <2>4. [u EXCEPT !.ctl.active.sessionId = s, !.ctl.active.keyed = TRUE]
          = [u EXCEPT !.ctl = [x EXCEPT !.active = [a EXCEPT !.sessionId = s, !.keyed = TRUE]]]
    BY <2>2, <2>3 DEF Outcome, Control, Active
  <2> QED
    BY <2>1, <2>2, <2>4, Zenon DEF Answered
<1>2. native[p] = u.ctl.active.connectionId
  BY DEF Answered
<1> QED
  BY <1>1, <1>2, Zenon DEF AcceptHello1

\* Outcome u with active connection a becomes v with b, its caller told g.
KeyedBy(u, a, b, g, v) ==
  /\ u \in Outcome /\ u.ctl \in Control /\ a \in Active /\ u.ctl.active = a
  /\ g = IF a.awaited THEN "resolve" ELSE u.connect
  /\ b = [a EXCEPT !.keyed = TRUE, !.awaited = FALSE]
  /\ v = [u EXCEPT !.ctl = [u.ctl EXCEPT !.active = b], !.connect = g]

\* acceptHello2 keys the connection and settles the call of connect().
LEMMA KeyIs ==
  ASSUME NEW u, NEW a, NEW b, NEW g, NEW v, KeyedBy(u, a, b, g, v)
  PROVE  AcceptHello2(u) = Announce(v, a.sessionId)
<1>1. [u EXCEPT !.ctl.active.keyed = TRUE, !.ctl.active.awaited = FALSE, !.connect = g] = v
  <2>1. PICK x : x = u.ctl
    OBVIOUS
  <2>2. u \in Outcome /\ x \in Control /\ a \in Active /\ x.active = a
    BY <2>1 DEF KeyedBy
  <2>3. [u EXCEPT !.ctl.active.keyed = TRUE, !.ctl.active.awaited = FALSE, !.connect = g]
          = [u EXCEPT !.ctl = [x EXCEPT !.active = [a EXCEPT !.keyed = TRUE, !.awaited = FALSE]],
                      !.connect = g]
    BY <2>1, <2>2 DEF Outcome, Control, Active
  <2> QED
    BY <2>1, <2>3, Zenon DEF KeyedBy
<1>2. (IF u.ctl.active.awaited THEN "resolve" ELSE u.connect) = g /\ u.ctl.active.sessionId = a.sessionId
  BY Zenon DEF KeyedBy
<1> QED
  BY <1>1, <1>2, Zenon DEF AcceptHello2

\* handleFrame counts the message and emits it.
LEMMA ReadFields ==
  ASSUME NEW u \in Outcome, NEW n, NEW m, NEW x \in Control, NEW a \in Active,
         u.ctl = x, x.active = a
  PROVE  [u EXCEPT !.ctl.active.lastSequence = n, !.emit = m]
           = [u EXCEPT !.ctl = [x EXCEPT !.active = [a EXCEPT !.lastSequence = n]], !.emit = m]
  BY DEF Outcome, Control, Active

\* The outcome that an operation starts from.
LEMMA StartIs ==
  ASSUME Types, NEW p \in Phone, NEW v, v = Unchanged(p)
  PROVE  /\ v \in Outcome /\ v.ctl = ctl[p] /\ v.drop = {} /\ v.connect = "pending" /\ v.wire = 0
         /\ v.frames = <<>> /\ v.emit \in Seq(Notice)
<1>1. Gentle(v, ctl[p].active, {}, ctl[p].context) /\ v.ctl = ctl[p]
  BY StartGentle
<1>2. v \in Outcome
  BY <1>1 DEF Gentle, Loose
<1>3. v.emit \in Seq(Notice)
  BY <1>2 DEF Outcome
<1> QED
  BY <1>1, <1>2, <1>3 DEF Unchanged

\* "connected" is refused, or takes the active place.
LEMMA ConnectedStep ==
  ASSUME Types, Links, NEW p \in Phone, NEW c \in Conn, c \notin knocks[p],
         Len(inbox[p][c]) > 0, inbox[p][c][1] = Connected, c \in 1..lastConn,
         NEW u, u = Unchanged(p), NEW o, o = HandleConnected(u, c), Performs(p, o, c)
  PROVE  Types' /\ Links'
<1>1. /\ u \in Outcome /\ u.ctl = ctl[p] /\ u.drop = {} /\ u.connect = "pending" /\ u.wire = 0
      /\ u.frames = <<>>
  BY StartIs
<1>2. /\ ctl[p] \in Control /\ ControlOK(ctl[p], lastConn) /\ lastConn \in Nat /\ c # 0 /\ c \in Nat
  BY EndTypes DEF PhoneOK, Conn
<1>3. PICK y : y = [ctl[p] EXCEPT !.active = NewActive(c, "responder", ctl[p].resumeSessionId, FALSE)]
  OBVIOUS
<1>4. PICK refused : refused = (~ctl[p].context \/ ctl[p].active.connectionId # 0 \/ ctl[p].resumeRole = "initiator")
  OBVIOUS
<1>5. o = IF refused THEN [u EXCEPT !.drop = {c}] ELSE [u EXCEPT !.ctl = y]
  BY <1>1, <1>3, <1>4 DEF HandleConnected, Outcome
<1>6. CASE refused
  <2>1. /\ o \in Outcome /\ o.ctl = ctl[p] /\ o.drop = {c} /\ o.connect = "pending" /\ o.wire = 0
    BY <1>1, <1>2, <1>5, <1>6 DEF Outcome
  <2>2. ctl[p].active.connectionId # c
    BY ConnectedOnce
  <2>3. ASSUME NEW e \in Conn PROVE (e # o.wire /\ e # o.ctl.active.connectionId) \/ Kept(e)
    <3>1. CASE e # ctl[p].active.connectionId
      BY <2>1, <3>1 DEF Conn
    <3>2. CASE e = ctl[p].active.connectionId
      <4>1. o.wire # e /\ o.ctl.active = ctl[p].active /\ o.connect = "pending" /\ e \notin o.drop /\ c # e
        BY <2>1, <2>2, <3>2 DEF Conn
      <4> QED
        BY <4>1, PerformsStays
    <3> QED
      BY <3>1, <3>2
  <2>4. o.drop \cap knocks[p] = {} /\ o.wire \in 0..lastConn /\ o.ctl.context = ctl[p].context
        /\ ControlOK(o.ctl, lastConn)
    BY <1>2, <2>1
  <2> QED
    BY <2>1, <2>3, <2>4, PerformsKeeps
<1>7. CASE ~refused
  <2>1. ctl[p].context /\ ctl[p].active.connectionId = 0
    BY <1>4, <1>7
  <2>2. PICK a2 : a2 = NewActive(c, "responder", ctl[p].resumeSessionId, FALSE)
    OBVIOUS
  <2>3. /\ a2.connectionId = c /\ a2.keyed = FALSE /\ a2.role = "responder"
        /\ a2.sessionId = ctl[p].resumeSessionId
        /\ a2.nextSendSequence = 1 /\ a2.lastSequence = 0
    BY <2>2 DEF NewActive, NoActive
  <2>4. ctl[p].resumeSessionId \in SessionOrNone /\ ctl[p].resumeSessionId \in Nat
    BY <1>2, Bounds DEF ControlOK, SessionOrNone
  <2>5. a2 \in Active
    BY <1>2, <2>2, <2>4 DEF NewActive, NoActive, Active, Role
  <2>6. ActiveOK(a2, lastConn)
    BY <1>2, <2>3, <2>4, <2>5 DEF ActiveOK
  <2>7. /\ y \in Control /\ ControlOK(y, lastConn) /\ y.active = a2 /\ y.context = ctl[p].context
    <3>1. y = [ctl[p] EXCEPT !.active = a2]
      BY <1>3, <2>2
    <3>2. y \in Control /\ y.active = a2 /\ y.context = ctl[p].context
          /\ y.resumeSessionId = ctl[p].resumeSessionId
          /\ y.reconnectAttempt = ctl[p].reconnectAttempt
      BY <1>2, <2>5, <3>1 DEF Control
    <3> QED
      BY <1>2, <2>1, <2>6, <3>2 DEF ControlOK
  <2>8. /\ o \in Outcome /\ o.ctl = y /\ o.drop = {} /\ o.wire = 0
    BY <1>1, <1>5, <1>7, <2>7 DEF Outcome
  <2>9. Connects(p, c, o)
    BY <2>1, <2>3, <2>7, <2>8 DEF Connects
  <2>10. Kept(c)
    BY <2>9, ConnectsKept
  <2> QED
    BY <2>3, <2>7, <2>8, <2>10, AcceptedStep
<1> QED
  BY <1>4, <1>6, <1>7

\* A hello1 that is accepted.
LEMMA AnswerStep ==
  ASSUME Types, Links, NEW p \in Phone, NEW c \in Conn, c \notin knocks[p],
         Len(inbox[p][c]) > 0, c \in 1..lastConn, ctl[p].active.connectionId = c,
         NEW e, e = inbox[p][c][1], e.kind = "hello1", ~ctl[p].active.keyed,
         ctl[p].active.role = "responder", native[p] = c, ctl[p].context,
         NEW u, u = Unchanged(p), NEW o, o = AcceptHello1(u, p, e), Performs(p, o, c)
  PROVE  Types' /\ Links'
<1>1. /\ u \in Outcome /\ u.ctl = ctl[p] /\ u.drop = {} /\ u.connect = "pending" /\ u.wire = 0
      /\ u.frames = <<>>
  BY StartIs
<1>2. PICK a : a = ctl[p].active
  OBVIOUS
<1>3. /\ ctl[p] \in Control /\ a \in Active /\ ActiveOK(a, lastConn) /\ lastConn \in Nat
      /\ c # 0 /\ c \in Nat /\ a.nextSendSequence = 1 /\ a.lastSequence = 0 /\ ControlOK(ctl[p], lastConn)
  BY <1>2, EndTypes DEF Conn, ActiveOK, PhoneOK
<1>4. PICK t : t = e.sessionId
  OBVIOUS
<1>5. t \in SessionOrNone /\ t \in Nat
  <2>1. inbox[p][c] \in Seq(Event)
    BY EndTypes
  <2>2. 1 \in 1..Len(inbox[p][c])
    BY <2>1
  <2>3. e \in Event
    BY <2>1, <2>2
  <2>4. e \in [kind : {"hello1", "hello2"}, sessionId : SessionOrNone]
    BY <2>3 DEF Event
  <2> QED
    BY <1>4, <2>4, Bounds DEF SessionOrNone
<1>6. PICK a2 : a2 = [a EXCEPT !.sessionId = t, !.keyed = TRUE]
  OBVIOUS
<1>7. /\ a2 \in Active /\ a2.connectionId = c /\ a2.keyed /\ a2.role = a.role
      /\ a2.sessionId = t /\ a2.nextSendSequence = 1 /\ a2.lastSequence = 0
  BY <1>2, <1>3, <1>5, <1>6 DEF Active
<1>8. ActiveOK(a2, lastConn)
  BY <1>3, <1>5, <1>7 DEF ActiveOK
<1>9. PICK y : y = [ctl[p] EXCEPT !.active = a2]
  OBVIOUS
<1>10. y \in Control /\ ControlOK(y, lastConn) /\ y.active = a2 /\ y.context = ctl[p].context
  <2>1. y \in Control /\ y.active = a2 /\ y.context = ctl[p].context
        /\ y.resumeSessionId = ctl[p].resumeSessionId /\ y.reconnectAttempt = ctl[p].reconnectAttempt
    BY <1>3, <1>7, <1>9 DEF Control
  <2> QED
    BY <1>3, <1>7, <1>8, <2>1 DEF ControlOK
<1>11. PICK f : f = <<Hello2(t)>>
  OBVIOUS
<1>12. f \in Seq(Event)
  <2>1. Hello2(t) \in Event
    BY <1>5 DEF Hello2, Event
  <2> QED
    BY <1>11, <2>1
<1>13. PICK v : v = [u EXCEPT !.ctl = y]
  OBVIOUS
<1>14. /\ v \in Outcome /\ v.ctl = y /\ v.drop = {}
  BY <1>1, <1>10, <1>13 DEF Outcome
<1>15. PICK w : w = [v EXCEPT !.wire = c, !.frames = f]
  OBVIOUS
<1>16. /\ w \in Outcome /\ w.ctl = y /\ w.drop = {} /\ w.wire = c /\ w.frames = f
  BY <1>3, <1>12, <1>14, <1>15 DEF Outcome
<1>17. o = Announce(w, t)
  <2>1. Answered(p, u, a, a2, e, v)
    BY <1>1, <1>2, <1>3, <1>4, <1>6, <1>9, <1>13, Zenon DEF Answered
  <2>2. AcceptHello1(u, p, e) = Announce(Sends(v, Hello2(e.sessionId)), e.sessionId)
    BY <2>1, AnswerIs
  <2>3. Sends(v, Hello2(e.sessionId)) = w
    BY <1>4, <1>7, <1>10, <1>11, <1>14, <1>15 DEF Sends
  <2> QED
    BY <1>4, <2>2, <2>3, Zenon
<1>18. Alike(o, w)
  BY <1>5, <1>10, <1>16, <1>17, AnnounceAlike
<1>19. /\ o \in Outcome /\ ControlOK(o.ctl, lastConn) /\ o.ctl.active = a2
       /\ o.ctl.context = ctl[p].context /\ o.drop = {} /\ o.wire = c /\ o.frames = <<Hello2(t)>>
  BY <1>10, <1>11, <1>16, <1>18 DEF Alike
<1>20. Answers(p, c, o, t)
  BY <1>2, <1>4, <1>7, <1>19 DEF Answers
<1>21. Kept(c)
  BY <1>20, AnswersKept
<1> QED
  BY <1>7, <1>19, <1>21, AcceptedStep

\* A hello2 that is accepted.
LEMMA KeyStep ==
  ASSUME Types, Links, NEW p \in Phone, NEW c \in Conn, c \notin knocks[p],
         Len(inbox[p][c]) > 0, c \in 1..lastConn, ctl[p].active.connectionId = c,
         NEW e, e = inbox[p][c][1], e.kind = "hello2", ~ctl[p].active.keyed,
         ctl[p].active.role = "initiator", ctl[p].context,
         NEW u, u = Unchanged(p), NEW o, o = AcceptHello2(u), Performs(p, o, c)
  PROVE  Types' /\ Links'
<1>1. /\ u \in Outcome /\ u.ctl = ctl[p] /\ u.drop = {} /\ u.connect = "pending" /\ u.wire = 0
      /\ u.frames = <<>>
  BY StartIs
<1>2. PICK a : a = ctl[p].active
  OBVIOUS
<1>3. /\ ctl[p] \in Control /\ a \in Active /\ ActiveOK(a, lastConn) /\ lastConn \in Nat
      /\ c # 0 /\ c \in Nat /\ a.nextSendSequence = 1 /\ a.lastSequence = 0 /\ a.sessionId \in SessionOrNone /\ ControlOK(ctl[p], lastConn)
  BY <1>2, EndTypes DEF Conn, ActiveOK, PhoneOK
<1>4. PICK a2 : a2 = [a EXCEPT !.keyed = TRUE, !.awaited = FALSE]
  OBVIOUS
<1>5. /\ a2 \in Active /\ a2.connectionId = c /\ a2.keyed /\ a2.role = a.role
      /\ a2.sessionId = a.sessionId /\ a2.nextSendSequence = 1 /\ a2.lastSequence = 0
  BY <1>2, <1>3, <1>4 DEF Active
<1>6. ActiveOK(a2, lastConn)
  BY <1>3, <1>5 DEF ActiveOK
<1>7. PICK y : y = [ctl[p] EXCEPT !.active = a2]
  OBVIOUS
<1>8. y \in Control /\ ControlOK(y, lastConn) /\ y.active = a2 /\ y.context = ctl[p].context
  <2>1. y \in Control /\ y.active = a2 /\ y.context = ctl[p].context
        /\ y.resumeSessionId = ctl[p].resumeSessionId /\ y.reconnectAttempt = ctl[p].reconnectAttempt
    BY <1>3, <1>5, <1>7 DEF Control
  <2> QED
    BY <1>3, <1>5, <1>6, <2>1 DEF ControlOK
<1>9. PICK g : g = IF a.awaited THEN "resolve" ELSE "pending"
  OBVIOUS
<1>10. PICK w : w = [u EXCEPT !.ctl = y, !.connect = g]
  OBVIOUS
<1>11. /\ w \in Outcome /\ w.ctl = y /\ w.drop = {} /\ w.wire = 0
  BY <1>1, <1>8, <1>9, <1>10 DEF Outcome
<1>12. o = Announce(w, a.sessionId)
  <2>1. KeyedBy(u, a, a2, g, w)
    BY <1>1, <1>2, <1>3, <1>4, <1>7, <1>9, <1>10, Zenon DEF KeyedBy
  <2>2. AcceptHello2(u) = Announce(w, a.sessionId)
    BY <2>1, KeyIs
  <2> QED
    BY <2>2
<1>13. Alike(o, w)
  BY <1>3, <1>8, <1>11, <1>12, AnnounceAlike
<1>14. /\ o \in Outcome /\ ControlOK(o.ctl, lastConn) /\ o.ctl.active = a2
       /\ o.ctl.context = ctl[p].context /\ o.drop = {} /\ o.wire = 0
  BY <1>8, <1>11, <1>13 DEF Alike
<1>15. Keys(p, c, o)
  BY <1>2, <1>3, <1>5, <1>14 DEF Keys
<1>16. Kept(c)
  BY <1>15, KeysKept
<1> QED
  BY <1>5, <1>14, <1>16, AcceptedStep

\* A sealed message that is accepted.
LEMMA ReadStep ==
  ASSUME Types, Links, NEW p \in Phone, NEW c \in Conn, c \notin knocks[p],
         Len(inbox[p][c]) > 0, c \in 1..lastConn, ctl[p].active.connectionId = c,
         NEW e, e = inbox[p][c][1], e.kind = "sealed", e.sequence = ctl[p].active.lastSequence + 1,
         ctl[p].active.keyed, ctl[p].context,
         NEW u, u = Unchanged(p),
         NEW o, o = [u EXCEPT !.ctl.active.lastSequence = e.sequence,
                              !.emit = Append(@, [type |-> "message", sessionId |-> e.sessionId,
                                                  body |-> e.body])],
         Performs(p, o, c)
  PROVE  Types' /\ Links'
<1>1. /\ u \in Outcome /\ u.ctl = ctl[p] /\ u.drop = {} /\ u.connect = "pending" /\ u.wire = 0
      /\ u.frames = <<>> /\ u.emit \in Seq(Notice)
  BY StartIs
<1>2. PICK a : a = ctl[p].active
  OBVIOUS
<1>3. /\ ctl[p] \in Control /\ a \in Active /\ ActiveOK(a, lastConn) /\ lastConn \in Nat
      /\ c # 0 /\ c \in Nat /\ a.keyed
  BY <1>2, EndTypes DEF Conn
<1>4. PICK n : n = e.sequence
  OBVIOUS
<1>5. e.sessionId \in SessionOrNone /\ e.body \in Body /\ n \in Nat
  <2>1. inbox[p][c] \in Seq(Event)
    BY EndTypes
  <2>2. 1 \in 1..Len(inbox[p][c])
    BY <2>1
  <2>3. e \in Event
    BY <2>1, <2>2
  <2>4. e \in [kind : {"sealed"}, sessionId : SessionOrNone, sequence : Nat, body : Body]
    BY <2>3 DEF Event
  <2> QED
    BY <1>4, <2>4
<1>6. PICK a2 : a2 = [a EXCEPT !.lastSequence = n]
  OBVIOUS
<1>7. /\ a2 \in Active /\ a2.connectionId = c /\ a2.keyed /\ a2.role = a.role
      /\ a2.sessionId = a.sessionId /\ a2.nextSendSequence = a.nextSendSequence /\ a2.lastSequence = n
  BY <1>2, <1>3, <1>5, <1>6 DEF Active
<1>8. ActiveOK(a2, lastConn)
  BY <1>3, <1>7 DEF ActiveOK
<1>9. PICK y : y = [ctl[p] EXCEPT !.active = a2]
  OBVIOUS
<1>10. y \in Control /\ ControlOK(y, lastConn) /\ y.active = a2 /\ y.context = ctl[p].context
  BY <1>7, <1>8, <1>9, ActiveChanges
<1>11. PICK m : m = Append(u.emit, [type |-> "message", sessionId |-> e.sessionId, body |-> e.body])
  OBVIOUS
<1>12. m \in Seq(Notice)
  <2>1. [type |-> "message", sessionId |-> e.sessionId, body |-> e.body] \in Notice
    BY <1>5 DEF Notice
  <2> QED
    BY <1>1, <1>11, <2>1
<1>13. o = [u EXCEPT !.ctl = y, !.emit = m]
  <2>1. o = [u EXCEPT !.ctl.active.lastSequence = n, !.emit = m]
    BY <1>4, <1>11, Zenon
  <2>2. [u EXCEPT !.ctl.active.lastSequence = n, !.emit = m]
          = [u EXCEPT !.ctl = [ctl[p] EXCEPT !.active = [a EXCEPT !.lastSequence = n]], !.emit = m]
    BY <1>1, <1>2, <1>3, ReadFields, Zenon
  <2> QED
    BY <1>6, <1>9, <2>1, <2>2, Zenon
<1>14. /\ o \in Outcome /\ o.ctl = y /\ o.drop = {} /\ o.wire = 0
  <2>1. PICK w : w = [u EXCEPT !.ctl = y, !.emit = m]
    OBVIOUS
  <2>2. /\ w \in Outcome /\ w.ctl = y /\ w.drop = {} /\ w.wire = 0
    BY <1>1, <1>10, <1>12, <2>1 DEF Outcome
  <2> QED
    BY <1>13, <2>1, <2>2
<1>15. Reads(p, c, o)
  BY <1>2, <1>4, <1>7, <1>10, <1>14 DEF Reads
<1>16. Kept(c)
  BY <1>15, ReadsKept
<1>17. /\ ControlOK(o.ctl, lastConn) /\ o.ctl.context = ctl[p].context
       /\ o.wire \in {0, c} /\ o.ctl.active.connectionId = c
  BY <1>7, <1>10, <1>14
<1> QED
  BY <1>14, <1>16, <1>17, AcceptedStep

\* What handleFrame does with a frame while the pair is active.
LEMMA FrameIs ==
  ASSUME NEW u, NEW p, NEW e, u.ctl.context
  PROVE  /\ ~u.ctl.active.keyed /\ ~Handshakes(u.ctl, e) => HandleFrame(u, p, e) = RefuseHandshake(u)
         /\ ~u.ctl.active.keyed /\ Handshakes(u.ctl, e) /\ e.kind = "hello1"
              => HandleFrame(u, p, e) = AcceptHello1(u, p, e)
         /\ ~u.ctl.active.keyed /\ Handshakes(u.ctl, e) /\ e.kind # "hello1"
              => HandleFrame(u, p, e) = AcceptHello2(u)
         /\ u.ctl.active.keyed /\ ~Validates(u.ctl, e)
              => HandleFrame(u, p, e) = CloseActive(Emit(u, "error", 0))
         /\ u.ctl.active.keyed /\ Validates(u.ctl, e)
              => HandleFrame(u, p, e)
                   = [u EXCEPT !.ctl.active.lastSequence = e.sequence,
                               !.emit = Append(@, [type |-> "message", sessionId |-> e.sessionId,
                                                   body |-> e.body])]
<1>1. ~u.ctl.active.keyed /\ ~Handshakes(u.ctl, e) => HandleFrame(u, p, e) = RefuseHandshake(u)
  BY Zenon DEF HandleFrame
<1>2. ~u.ctl.active.keyed /\ Handshakes(u.ctl, e) /\ e.kind = "hello1"
        => HandleFrame(u, p, e) = AcceptHello1(u, p, e)
  BY Zenon DEF HandleFrame
<1>3. ~u.ctl.active.keyed /\ Handshakes(u.ctl, e) /\ e.kind # "hello1"
        => HandleFrame(u, p, e) = AcceptHello2(u)
  BY Zenon DEF HandleFrame
<1>4. u.ctl.active.keyed /\ ~Validates(u.ctl, e)
        => HandleFrame(u, p, e) = CloseActive(Emit(u, "error", 0))
  BY Zenon DEF HandleFrame
<1>5. u.ctl.active.keyed /\ Validates(u.ctl, e)
        => HandleFrame(u, p, e)
             = [u EXCEPT !.ctl.active.lastSequence = e.sequence,
                         !.emit = Append(@, [type |-> "message", sessionId |-> e.sessionId,
                                             body |-> e.body])]
  BY Zenon DEF HandleFrame
<1> QED
  BY <1>1, <1>2, <1>3, <1>4, <1>5, Zenon

\* A transport event is handled.
LEMMA TransportEventStep ==
  ASSUME Types, Links, NEW p \in Phone, NEW c \in Conn, TransportEvent(p, c)
  PROVE  Types' /\ Links'
<1>1. PICK x : x = inbox[p][c]
  OBVIOUS
<1>2. x \in Seq(Event) /\ x # <<>> /\ c \notin knocks[p]
  BY <1>1, EndTypes DEF TransportEvent
<1>3. Len(inbox[p][c]) > 0 /\ Head(inbox[p][c]) = inbox[p][c][1]
  BY <1>1, <1>2
<1>4. c \in 1..lastConn
  BY <1>1, <1>2, KnownConnection
<1>5. PICK e : e = inbox[p][c][1]
  OBVIOUS
<1>6. PICK u : u = Unchanged(p)
  OBVIOUS
<1>7. PICK o : o = HandleTransportEvent(u, p, c, e)
  OBVIOUS
<1>8. Performs(p, o, c)
  BY <1>3, <1>5, <1>6, <1>7 DEF TransportEvent, EventOutcome
<1>9. PICK a : a = ctl[p].active
  OBVIOUS
<1>10. PICK D : D = {a.connectionId}
  OBVIOUS
<1>11. PICK t : t = ctl[p].context
  OBVIOUS
<1>12. /\ Gentle(u, a, D, t) /\ u.ctl = ctl[p] /\ u.ctl.active = a
       /\ u.ctl.active.connectionId \in D /\ lastConn \in Nat
  BY <1>6, <1>9, <1>10, <1>11, StartGentle, EndTypes
<1>13. e \in Event
  <2>1. 1 \in 1..Len(x) /\ e = x[1]
    BY <1>1, <1>2, <1>3, <1>5
  <2> QED
    BY <1>2, <2>1
<1>14. ASSUME Gentle(o, a, D, t), o.ctl.active = NoActive \/ a.connectionId # c \/ e \in Last
       PROVE  Types' /\ Links'
  <2>1. Gentle(o, a, {a.connectionId}, t)
    BY <1>10, <1>14
  <2>2. o.ctl.active = NoActive \/ a.connectionId # c \/ inbox[p][c][1] \in Last
    BY <1>5, <1>14
  <2> QED
    BY <1>2, <1>3, <1>8, <1>9, <1>11, <2>1, <2>2, GentleStep
<1>15. CASE e.kind = "connected"
  <2>1. o = HandleConnected(u, c)
    BY <1>7, <1>15 DEF HandleTransportEvent
  <2>2. inbox[p][c][1] = Connected
    <3>1. e \in [kind : {"connected", "closed", "error"}]
      BY <1>13, <1>15 DEF Event
    <3> QED
      BY <1>5, <1>15, <3>1 DEF Connected
  <2> QED
    BY <1>2, <1>3, <1>4, <1>6, <1>8, <2>1, <2>2, ConnectedStep
<1>16. CASE e.kind # "connected" /\ a.connectionId # c
  <2>1. o = u
    BY <1>7, <1>12, <1>16 DEF HandleTransportEvent
  <2> QED
    BY <1>12, <1>14, <1>16, <2>1
<1>17. CASE a.connectionId = c /\ e.kind = "closed"
  <2>1. o = HandleClosed(u)
    BY <1>7, <1>12, <1>17 DEF HandleTransportEvent
  <2>2. e \in Last
    <3>1. e \in [kind : {"connected", "closed", "error"}]
      BY <1>13, <1>17 DEF Event
    <3> QED
      BY <1>17, <3>1 DEF Last, Closed
  <2>3. Gentle(HandleClosed(u), a, D, t)
    BY <1>12, ClosedGentle
  <2> QED
    BY <1>14, <2>1, <2>2, <2>3
<1>18. CASE a.connectionId = c /\ e.kind = "error"
  <2>1. o = HandleError(u)
    BY <1>7, <1>12, <1>18 DEF HandleTransportEvent
  <2>2. e \in Last
    <3>1. e \in [kind : {"connected", "closed", "error"}]
      BY <1>13, <1>18 DEF Event
    <3> QED
      BY <1>18, <3>1 DEF Last, Failed
  <2>3. Gentle(HandleError(u), a, D, t)
    BY <1>12, ErrorGentle
  <2> QED
    BY <1>14, <2>1, <2>2, <2>3
<1>19. CASE a.connectionId = c /\ e.kind \notin {"connected", "closed", "error"}
  <2>1. o = HandleFrame(u, p, e)
    BY <1>7, <1>12, <1>19 DEF HandleTransportEvent
  <2>2. ctl[p].context /\ c # 0
    BY <1>9, <1>19, EndTypes DEF PhoneOK, ControlOK, Conn
  <2>3. u.ctl.context
    BY <1>12, <2>2
  <2>4. ASSUME HandleFrame(u, p, e) = RefuseHandshake(u) PROVE Types' /\ Links'
    <3>1. Gentle(RefuseHandshake(u), a, D, t) /\ RefuseHandshake(u).ctl.active = NoActive
      BY <1>12, RefuseGentle
    <3> QED
      BY <1>14, <2>1, <2>4, <3>1
  <2>5. CASE ~a.keyed /\ ~Handshakes(ctl[p], e)
    <3>1. HandleFrame(u, p, e) = RefuseHandshake(u)
      BY <1>12, <2>3, <2>5, FrameIs
    <3> QED
      BY <2>4, <3>1
  <2>6. CASE ~a.keyed /\ Handshakes(ctl[p], e) /\ e.kind = "hello1"
    <3>1. HandleFrame(u, p, e) = AcceptHello1(u, p, e)
      <4>1. ~u.ctl.active.keyed /\ Handshakes(u.ctl, e) /\ e.kind = "hello1"
        BY <1>12, <2>6
      <4> QED
        BY <2>3, <4>1, Zenon DEF HandleFrame
    <3>2. CASE native[p] # c
      <4>1. AcceptHello1(u, p, e) = RefuseHandshake(u)
        BY <1>12, <1>19, <3>2 DEF AcceptHello1
      <4> QED
        BY <2>4, <3>1, <4>1
    <3>3. CASE native[p] = c
      <4>1. a.role = "responder"
        BY <1>9, <2>6 DEF Handshakes
      <4>2. /\ ctl[p].active.connectionId = c /\ ~ctl[p].active.keyed
            /\ ctl[p].active.role = "responder" /\ o = AcceptHello1(u, p, e)
        BY <1>9, <1>19, <2>1, <2>6, <3>1, <4>1
      <4> QED
        BY <1>2, <1>3, <1>4, <1>5, <1>6, <1>8, <2>2, <2>6, <3>3, <4>2, AnswerStep
    <3> QED
      BY <3>2, <3>3
  <2>7. CASE ~a.keyed /\ Handshakes(ctl[p], e) /\ e.kind # "hello1"
    <3>1. HandleFrame(u, p, e) = AcceptHello2(u)
      <4>1. ~u.ctl.active.keyed /\ Handshakes(u.ctl, e) /\ e.kind # "hello1"
        BY <1>12, <2>7
      <4> QED
        BY <2>3, <4>1, FrameIs, Zenon
    <3>2. e.kind = "hello2" /\ a.role = "initiator"
      BY <1>9, <2>7 DEF Handshakes
    <3>3. /\ ctl[p].active.connectionId = c /\ ~ctl[p].active.keyed
          /\ ctl[p].active.role = "initiator" /\ o = AcceptHello2(u)
      BY <1>9, <1>19, <2>1, <2>7, <3>1, <3>2
    <3> QED
      BY <1>2, <1>3, <1>4, <1>5, <1>6, <1>8, <2>2, <3>2, <3>3, KeyStep
  <2>8. CASE a.keyed /\ ~Validates(ctl[p], e)
    <3>1. HandleFrame(u, p, e) = CloseActive(Emit(u, "error", 0))
      <4>1. u.ctl.active.keyed /\ ~Validates(u.ctl, e)
        BY <1>12, <2>8
      <4> QED
        BY <2>3, <4>1, FrameIs, Zenon
    <3>2. PICK f : f = Emit(u, "error", 0)
      OBVIOUS
    <3>3. Gentle(f, a, D, t) /\ f.ctl = u.ctl
      <4>1. "error" \in News /\ 0 \in SessionOrNone
        BY Bounds DEF News
      <4> QED
        BY <1>12, <3>2, <4>1, EmitGentle
    <3>4. Gentle(CloseActive(f), a, D, t) /\ CloseActive(f).ctl.active = NoActive
      BY <1>12, <3>3, CloseActiveGentle
    <3> QED
      BY <1>14, <2>1, <3>1, <3>2, <3>4
  <2>9. CASE a.keyed /\ Validates(ctl[p], e)
    <3>1. o = [u EXCEPT !.ctl.active.lastSequence = e.sequence,
                        !.emit = Append(@, [type |-> "message", sessionId |-> e.sessionId,
                                            body |-> e.body])]
      <4>1. u.ctl.active.keyed /\ Validates(u.ctl, e)
        BY <1>12, <2>9
      <4> QED
        BY <2>1, <2>3, <4>1, FrameIs, Zenon
    <3>2. e.kind = "sealed" /\ e.sequence = ctl[p].active.lastSequence + 1
      BY <2>9 DEF Validates, ReplayAccepts
    <3>3. ctl[p].active.connectionId = c /\ ctl[p].active.keyed
      BY <1>9, <1>19, <2>9
    <3> QED
      BY <1>2, <1>3, <1>4, <1>5, <1>6, <1>8, <2>2, <3>1, <3>2, <3>3, ReadStep, Zenon
  <2> QED
    BY <2>5, <2>6, <2>7, <2>8, <2>9
<1> QED
  BY <1>15, <1>16, <1>17, <1>18, <1>19

-----------------------------------------------------------------------------
(* The specification. *)

\* Nothing has happened.
LEMMA Start ==
  ASSUME Init
  PROVE  Types /\ Links
<1>1. lastConn = 0 /\ opener = <<>> /\ opener \in Seq(Phone) /\ Len(opener) = 0
  <2>1. <<>> \in Seq(Phone)
    BY EmptySeq
  <2> QED
    BY <2>1 DEF Init
<1>2. PICK f : f = Fresh
  OBVIOUS
<1>3. PICK o : o = [w \in Caller |-> NoOpening]
  OBVIOUS
<1>4. PICK i : i = [c \in Conn |-> <<>>]
  OBVIOUS
<1>5. ControlOK(f, 0) /\ OpeningOK(o, 0) /\ \A w \in Caller : o[w].step = "none"
  BY <1>2, <1>3, FreshOK
<1>6. f \in Control /\ o \in [Caller -> Opening]
  BY <1>5 DEF ControlOK, OpeningOK
<1>7. i \in [Conn -> Seq(Event)]
  <2>1. <<>> \in Seq(Event)
    BY EmptySeq
  <2> QED
    BY <1>4, <2>1
<1>8. /\ ctl = [p \in Phone |-> f] /\ opening = [p \in Phone |-> o] /\ told = [p \in Phone |-> 0]
      /\ native = [p \in Phone |-> 0] /\ knocks = [p \in Phone |-> {}] /\ inbox = [p \in Phone |-> i]
  BY <1>2, <1>3, <1>4 DEF Init
<1>9. Types
  <2>1. lastConn \in 0..MaxConn /\ lastSession <= MaxSession
    BY <1>1, Bounds DEF lastSession
  <2>2. ASSUME NEW p \in Phone
        PROVE  PhoneOK(ctl[p], opening[p], told[p], native[p], knocks[p], inbox[p], lastConn)
    <3>1. PhoneOK(f, o, 0, 0, {}, i, 0)
      BY <1>5, <1>7, Bounds DEF PhoneOK
    <3> QED
      BY <1>1, <1>8, <3>1
  <2>3. /\ ctl \in [Phone -> Control] /\ opening \in [Phone -> [Caller -> Opening]]
        /\ told \in [Phone -> SessionOrNone] /\ native \in [Phone -> Nat]
        /\ knocks \in [Phone -> SUBSET Conn] /\ inbox \in [Phone -> [Conn -> Seq(Event)]]
    BY <1>6, <1>7, <1>8, Bounds
  <2> QED
    BY <1>1, <2>1, <2>2, <2>3 DEF Types
<1>10. ASSUME NEW c \in Conn PROVE c > lastConn /\ Unused(c)
  BY <1>1, <1>4, <1>8 DEF Conn, Unused
<1> QED
  BY <1>9, <1>10 DEF Links

\* No step of the channel breaks the invariant.
LEMMA Inductive ==
  ASSUME IInv, [Next]_vars
  PROVE  IInv'
<1> USE DEF IInv
<1>1. ASSUME NEW p \in Phone, ApiCall(p) PROVE IInv'
  <2>1. CASE Connect(p)
    BY <2>1, ConnectStep
  <2>2. CASE \E body \in Body : Send(p, body)
    BY <2>2, SendStep
  <2>3. CASE Close(p)
    BY <2>3, CloseStep
  <2>4. CASE Deactivate(p)
    BY <2>4, DeactivateStep
  <2>5. CASE Activate(p)
    BY <2>5, ActivateStep
  <2> QED
    BY <1>1, <2>1, <2>2, <2>3, <2>4, <2>5 DEF ApiCall
<1>2. ASSUME NEW p \in Phone, OpeningStep(p) PROVE IInv'
  <2>1. PICK w \in Caller : Dial(p, w) \/ DialFails(p, w) \/ Adopt(p, w) \/ Hello(p, w) \/ HelloFails(p, w)
    BY <1>2 DEF OpeningStep
  <2>2. CASE Dial(p, w)
    BY <2>2, DialStep
  <2>3. CASE DialFails(p, w)
    BY <2>3, DialFailsStep
  <2>4. CASE Adopt(p, w)
    BY <2>4, AdoptStep
  <2>5. CASE Hello(p, w)
    BY <2>5, HelloStep
  <2>6. CASE HelloFails(p, w)
    BY <2>6, HelloFailsStep
  <2> QED
    BY <2>1, <2>2, <2>3, <2>4, <2>5, <2>6
<1>3. ASSUME NEW p \in Phone, QueueStep(p) PROVE IInv'
  <2>1. CASE \E c \in Conn : TransportEvent(p, c)
    BY <2>1, TransportEventStep
  <2>2. CASE RunFailReconnect(p)
    BY <2>2, RunFailReconnectStep
  <2>3. CASE RunReconnect(p)
    BY <2>3, RunReconnectStep
  <2> QED
    BY <1>3, <2>1, <2>2, <2>3 DEF QueueStep
<1>4. ASSUME NEW p \in Phone, TimerStep(p) PROVE IInv'
  <2>1. CASE HandshakeTimeout(p)
    BY <2>1, HandshakeTimeoutStep
  <2>2. CASE ReconnectTimer(p)
    BY <2>2, ReconnectTimerStep
  <2>3. CASE ResponderReconnectTimer(p)
    BY <2>3, ResponderTimerStep
  <2> QED
    BY <1>4, <2>1, <2>2, <2>3 DEF TimerStep
<1>5. ASSUME NEW p \in Phone, NativeStep(p) PROVE IInv'
  <2>1. CASE \E c \in Conn : Classify(p, c) \/ ClassifyRejects(p, c)
    <3>1. PICK c \in Conn : Classify(p, c) \/ ClassifyRejects(p, c)
      BY <2>1
    <3>2. CASE Classify(p, c)
      BY <3>2, ClassifyStep
    <3>3. CASE ClassifyRejects(p, c)
      BY <3>3, ClassifyRejectsStep
    <3> QED
      BY <3>1, <3>2, <3>3
  <2>2. CASE EndOfStream(p)
    BY <2>2, EndOfStreamStep
  <2> QED
    BY <1>5, <2>1, <2>2 DEF NativeStep
<1>6. ASSUME NEW p \in Phone, Reset(p) PROVE IInv'
  BY <1>6, ResetStep
<1>7. ASSUME NEW p \in Phone, Crash(p) PROVE IInv'
  BY <1>7, CrashStep
<1>8. CASE UNCHANGED vars
  <2>1. UNCHANGED <<ctl, opening, told, native, knocks, inbox, lastConn, opener>>
    BY <1>8 DEF vars, network
  <2>2. Types'
    BY <2>1 DEF Types, lastSession
  <2>3. Links'
    BY <2>1 DEF Links, LinkOf, Unused
  <2> QED
    BY <2>2, <2>3
<1> QED
  BY <1>1, <1>2, <1>3, <1>4, <1>5, <1>6, <1>7, <1>8 DEF Next

\* The invariant of the channel.
THEOREM ChannelInvariant == Spec => []IInv
<1>1. Init => IInv
  BY Start DEF IInv
<1>2. IInv /\ [Next]_vars => IInv'
  BY Inductive
<1> QED
  BY <1>1, <1>2, PTL DEF Spec

\* Whatever the number of phones' calls, connections, breaks and restarts, the
\* fields of ControlSession stay in their domains and reconnectAttempt never
\* leaves the table of delays (scheduleInitiatorReconnect).
THEOREM TypesHold == Spec => []TypeOK
<1>1. IInv => TypeOK
  <2> SUFFICES ASSUME IInv PROVE TypeOK
    OBVIOUS
  <2>1. Types
    BY DEF IInv
  <2>2. ASSUME NEW p \in Phone
        PROVE  ctl[p].reconnectAttempt <= MaxTries /\ native[p] \in 0..MaxConn /\ DOMAIN inbox[p] = Conn
    <3>1. /\ ControlOK(ctl[p], lastConn) /\ native[p] \in 0..lastConn
          /\ inbox[p] \in [Conn -> Seq(Event)] /\ lastConn \in Nat /\ lastConn <= MaxConn
      BY <2>1, EndTypes DEF PhoneOK
    <3>2. ctl[p].reconnectAttempt <= MaxTries
      BY <3>1 DEF ControlOK
    <3> QED
      BY <3>1, <3>2, Bounds
  <2>3. native \in [Phone -> 0..MaxConn]
    BY <2>1, <2>2 DEF Types
  <2> QED
    BY <2>1, <2>2, <2>3 DEF Types, TypeOK, SessionOrNone
<1> QED
  BY <1>1, ChannelInvariant, PTL

\* An active connection is one of those that were opened, and p is an end of it.
LEMMA ActiveLink ==
  ASSUME IInv, NEW p \in Phone, ctl[p].active.connectionId # 0
  PROVE  /\ ctl[p].active.connectionId \in Conn
         /\ \E d \in Phone, s \in Session : LinkOf(ctl[p].active.connectionId, d, Other(d), s)
<1>1. PICK c : c = ctl[p].active.connectionId
  OBVIOUS
<1>2. c \in 0..lastConn /\ lastConn \in Nat /\ lastConn <= MaxConn
  BY <1>1, EndTypes DEF IInv, ActiveOK
<1>3. c \in Conn /\ ~(c > lastConn)
  BY <1>1, <1>2, Bounds DEF Conn
<1>4. \E d \in Phone, s \in Session : LinkOf(c, d, Other(d), s)
  BY <1>3 DEF IInv, Links
<1> QED
  BY <1>1, <1>3, <1>4

\* An initiator that authenticated and the phone at the other end hold the same
\* session in opposite roles (acceptHello1, acceptHello2), whatever is in flight.
THEOREM EndsAlwaysAgree == Spec => []EndsAgree
<1>1. IInv => EndsAgree
  <2> SUFFICES ASSUME IInv PROVE EndsAgree
    OBVIOUS
  <2>1. ASSUME NEW p \in Phone, NEW q \in Phone, NEW a, a = ctl[p].active, NEW b, b = ctl[q].active,
               p # q, a.keyed, a.role = "initiator", b.connectionId = a.connectionId
        PROVE  b.keyed /\ b.role = "responder" /\ b.sessionId = a.sessionId
    <3>1. ActiveOK(a, lastConn) /\ a \in Active /\ ActiveOK(b, lastConn)
      BY <2>1, EndTypes DEF IInv
    <3>2. PICK c : c = a.connectionId
      OBVIOUS
    <3>3. c # 0 /\ c \in Nat
      BY <2>1, <3>1, <3>2 DEF ActiveOK, NoActive, Active
    <3>4. PICK d \in Phone, s \in Session : LinkOf(c, d, Other(d), s)
      BY <2>1, <3>2, <3>3, ActiveLink
    <3>5. p = d
      <4>1. CASE p = Other(d)
        <5>1. c = ctl[p].active.connectionId => ctl[p].active.role = "responder"
          BY <3>4, <4>1 DEF LinkOf, Link, DialledOK
        <5> QED
          BY <2>1, <3>2, <5>1
      <4> QED
        BY <4>1, TwoPhones
    <3>6. q = Other(d)
      BY <2>1, <3>5, TwoPhones
    <3>7. Link(c, s, a, inbox[p][c], native[p], knocks[p], opening[p],
                     b, inbox[q][c], native[q], knocks[q], opening[q])
      BY <2>1, <3>4, <3>5, <3>6 DEF LinkOf
    <3>8. a.sessionId = s
      BY <3>2, <3>7 DEF Link, DiallerOK
    <3>9. c \notin knocks[q] /\ b.role = "responder" /\ (b.keyed => b.sessionId = s)
      BY <2>1, <3>2, <3>7 DEF Link, DialledOK
    <3>10. b.keyed
      <4>1. SUFFICES ASSUME ~b.keyed PROVE FALSE
        OBVIOUS
      <4>2. Heard(c, b, knocks[q]) = 1 /\ Hears(c, b, inbox[q][c], knocks[q])
        BY <2>1, <3>2, <3>9, <4>1 DEF Heard, Hears, Handled
      <4>3. a.connectionId = c /\ Hears(c, b, inbox[q][c], knocks[q]) /\ Heard(c, b, knocks[q]) < 2
              => ~a.keyed
        BY <3>7 DEF Link, BothOK
      <4> QED
        BY <2>1, <3>2, <4>2, <4>3
    <3> QED
      BY <3>8, <3>9, <3>10
  <2> QED
    BY <2>1 DEF EndsAgree
<1> QED
  BY <1>1, ChannelInvariant, PTL

\* What a phone handles next on its active connection, as the stream has it.
LEMMA NextOfStream ==
  ASSUME IInv, NEW p \in Phone, NEW f \in Upcoming(p)
  PROVE  LET a == ctl[p].active IN
         \E s \in Session :
           /\ a.role \in {"initiator", "responder"}
           /\ a.keyed \/ a.role = "initiator" => a.sessionId = s
           /\ IsNth(f, Handled(a) + 1, a.role, s)
<1>1. PICK a : a = ctl[p].active
  OBVIOUS
<1>2. PICK c : c = a.connectionId
  OBVIOUS
<1>3. PICK x : x = inbox[p][c]
  OBVIOUS
<1>4. c # 0 /\ c \notin knocks[p] /\ x # <<>> /\ f = Head(x) /\ f.kind \in {"hello1", "hello2", "sealed"}
  BY <1>1, <1>2, <1>3 DEF Upcoming
<1>5. c \in Conn
  BY <1>1, <1>2, <1>4, ActiveLink
<1>6. PICK d \in Phone, s \in Session : LinkOf(c, d, Other(d), s)
  BY <1>1, <1>2, <1>4, ActiveLink
<1>7. x \in Seq(Event) /\ a \in Active /\ Len(x) > 0 /\ f = x[1] /\ 1 \in 1..Len(x)
  <2>1. x \in Seq(Event) /\ a \in Active
    BY <1>1, <1>3, <1>5, EndTypes DEF IInv
  <2> QED
    BY <1>4, <2>1
<1>8. f \notin Last
  BY <1>4, Kinds
<1>9. \A role : Flow(x, Handled(a), role, s) => IsNth(f, Handled(a) + 1, role, s)
  BY <1>7, <1>8 DEF Flow
<1>10. /\ a.role \in {"initiator", "responder"} /\ (a.keyed \/ a.role = "initiator" => a.sessionId = s)
       /\ Flow(x, Handled(a), a.role, s)
  <2>1. CASE p = d
    <3>1. DiallerOK(c, s, a, x, native[p], knocks[p], opening[p])
      BY <1>1, <1>3, <1>6, <2>1 DEF LinkOf, Link
    <3> QED
      BY <1>2, <3>1 DEF DiallerOK
  <2>2. CASE p = Other(d)
    <3>1. DialledOK(c, s, a, x, native[p], knocks[p], opening[p])
      BY <1>1, <1>3, <1>6, <2>2 DEF LinkOf, Link
    <3>2. Hears(c, a, x, knocks[p]) /\ Heard(c, a, knocks[p]) = Handled(a)
      BY <1>2, <1>4 DEF Hears, Heard
    <3> QED
      BY <1>2, <3>1, <3>2 DEF DialledOK
  <2> QED
    BY <2>1, <2>2, TwoPhones
<1> QED
  BY <1>1, <1>9, <1>10

\* A phone never refuses a frame of its honest partner, whatever breaks,
\* reconnects or restarts, the hello1 of a new session excepted while the old
\* one may still be resumed (handleFrame, ReplayGuard.accept).
THEOREM HonestFramesAlwaysAccepted == Spec => []HonestFramesAccepted
<1>1. IInv => HonestFramesAccepted
  <2> SUFFICES ASSUME IInv, NEW p \in Phone, NEW f \in Upcoming(p)
               PROVE  \/ Keyed(p) /\ Validates(ctl[p], f)
                      \/ ~Keyed(p) /\ Handshakes(ctl[p], f)
                      \/ f.kind = "hello1" /\ ctl[p].resumeSessionId \notin {0, f.sessionId}
    BY DEF HonestFramesAccepted
  <2>1. PICK a : a = ctl[p].active
    OBVIOUS
  <2>2. PICK s \in Session : /\ a.role \in {"initiator", "responder"}
                             /\ a.keyed \/ a.role = "initiator" => a.sessionId = s
                             /\ IsNth(f, Handled(a) + 1, a.role, s)
    BY <2>1, NextOfStream
  <2>3. a \in Active
    BY <2>1, EndTypes DEF IInv
  <2>4. CASE a.keyed
    <3>1. Handled(a) + 1 = 3 + a.lastSequence /\ a.lastSequence \in Nat
      BY <2>3, <2>4 DEF Handled, Active
    <3>2. f.kind = "sealed" /\ f.sessionId = s /\ f.sequence = a.lastSequence + 1
      BY <2>2, <3>1 DEF IsNth
    <3> QED
      BY <2>1, <2>2, <2>4, <3>2 DEF Keyed, Validates, ReplayAccepts
  <2>5. CASE ~a.keyed
    <3>1. Handled(a) + 1 = 2
      BY <2>5 DEF Handled
    <3>2. f = IF a.role = "initiator" THEN Hello2(s) ELSE Hello1(s)
      BY <2>2, <3>1 DEF IsNth
    <3>3. CASE a.role = "initiator"
      <4>1. f.kind = "hello2" /\ f.sessionId = a.sessionId
        BY <2>2, <3>2, <3>3, Kinds
      <4> QED
        BY <2>1, <2>5, <3>3, <4>1 DEF Keyed, Handshakes
    <3>4. CASE a.role = "responder"
      <4>1. f.kind = "hello1"
        BY <3>2, <3>4, Kinds
      <4> QED
        BY <2>1, <2>5, <3>4, <4>1 DEF Keyed, Handshakes
    <3> QED
      BY <2>2, <3>3, <3>4
  <2> QED
    BY <2>4, <2>5
<1> QED
  BY <1>1, ChannelInvariant, PTL

-----------------------------------------------------------------------------
(***************************************************************************)
(* What the operators leave in the fields of an outcome.                   *)
(***************************************************************************)

\* Only the fields of the control session change.
LEMMA ControlFields ==
  ASSUME NEW o \in Outcome, NEW y \in Control
  PROVE  /\ [o EXCEPT !.ctl = y] \in Outcome /\ [o EXCEPT !.ctl = y].ctl = y
         /\ [o EXCEPT !.ctl = y].told = o.told /\ [o EXCEPT !.ctl = y].drop = o.drop
         /\ [o EXCEPT !.ctl = y].connect = o.connect
         /\ [o EXCEPT !.ctl = y].wire = o.wire /\ [o EXCEPT !.ctl = y].frames = o.frames
  BY DEF Outcome

\* What emit() tells the subscribers.
LEMMA EmitFields ==
  ASSUME NEW o \in Outcome, NEW type \in News, NEW s \in SessionOrNone
  PROVE  /\ Emit(o, type, s) \in Outcome /\ Emit(o, type, s).ctl = o.ctl
         /\ Emit(o, type, s).drop = o.drop /\ Emit(o, type, s).connect = o.connect
         /\ Emit(o, type, s).wire = o.wire /\ Emit(o, type, s).frames = o.frames
         /\ type \in {"authenticated", "reconnected"} => Emit(o, type, s).told = s
         /\ type \in {"error", "closed"} => Emit(o, type, s).told = 0
<1>1. [type |-> type, sessionId |-> s, body |-> type] \in Notice
  BY DEF Notice
<1>2. Append(o.emit, [type |-> type, sessionId |-> s, body |-> type]) \in Seq(Notice)
  BY <1>1 DEF Outcome
<1>3. PICK e \in Seq(Notice) : e = Append(o.emit, [type |-> type, sessionId |-> s, body |-> type])
  BY <1>2
<1>4. PICK t \in SessionOrNone :
        /\ t = IF type \in {"authenticated", "reconnected"} THEN s
               ELSE IF type \in {"error", "closed"} THEN 0 ELSE o.told
        /\ type \in {"authenticated", "reconnected"} => t = s
        /\ type \in {"error", "closed"} => t = 0
  BY Bounds DEF Outcome, News
<1>5. PICK f : f = [o EXCEPT !.emit = e, !.told = t]
  OBVIOUS
<1>6. Emit(o, type, s) = f
  BY <1>3, <1>4, <1>5 DEF Emit, Outcome
<1>7. /\ f \in Outcome /\ f.ctl = o.ctl /\ f.drop = o.drop /\ f.wire = o.wire
      /\ f.frames = o.frames /\ f.connect = o.connect /\ f.told = t
  BY <1>5 DEF Outcome
<1> QED
  BY <1>4, <1>6, <1>7

\* The caller of connect() that still waits gets its error.
LEMMA RejectFields ==
  ASSUME NEW o \in Outcome, NEW b
  PROVE  /\ AuthReject(o, b) \in Outcome /\ AuthReject(o, b).ctl = o.ctl
         /\ AuthReject(o, b).told = o.told /\ AuthReject(o, b).drop = o.drop
         /\ AuthReject(o, b).wire = o.wire /\ AuthReject(o, b).frames = o.frames
         /\ AuthReject(o, b).connect = IF b.awaited THEN "reject" ELSE o.connect
<1>1. PICK f : f = [o EXCEPT !.connect = "reject"]
  OBVIOUS
<1>2. /\ f \in Outcome /\ f.ctl = o.ctl /\ f.drop = o.drop /\ f.wire = o.wire
      /\ f.frames = o.frames /\ f.told = o.told /\ f.connect = "reject"
  BY <1>1 DEF Outcome
<1>3. AuthReject(o, b) = IF b.awaited THEN f ELSE o
  BY <1>1 DEF AuthReject
<1> QED
  BY <1>2, <1>3

\* clearReconnectState forgets the interrupted session.
LEMMA ClearFields ==
  ASSUME NEW o \in Outcome
  PROVE  /\ ClearReconnectState(o) \in Outcome
         /\ ClearReconnectState(o).told = o.told /\ ClearReconnectState(o).drop = o.drop
         /\ ClearReconnectState(o).wire = o.wire /\ ClearReconnectState(o).frames = o.frames
         /\ ClearReconnectState(o).connect = o.connect
         /\ ClearReconnectState(o).ctl.active = o.ctl.active
         /\ ClearReconnectState(o).ctl.context = o.ctl.context
         /\ ClearReconnectState(o).ctl.resumeSessionId = 0
         /\ ClearReconnectState(o).ctl.resumeRole = "none"
<1>1. PICK y : y = [o.ctl EXCEPT !.reconnectTimer = FALSE, !.responderReconnectTimer = FALSE,
            !.resumeSessionId = 0, !.resumeRole = "none", !.reconnectAttempt = 0]
  OBVIOUS
<1>2. o.ctl \in Control
  BY DEF Outcome
<1>3. /\ y \in Control /\ y.active = o.ctl.active /\ y.context = o.ctl.context
      /\ y.resumeSessionId = 0 /\ y.resumeRole = "none"
  BY <1>1, <1>2 DEF Control, Role
<1>4. ClearReconnectState(o) = [o EXCEPT !.ctl = y]
  BY <1>1, <1>2 DEF ClearReconnectState, Outcome, Control
<1>5. PICK f : f = [o EXCEPT !.ctl = y]
  OBVIOUS
<1>6. /\ f \in Outcome /\ f.ctl = y /\ f.drop = o.drop /\ f.wire = o.wire
      /\ f.frames = o.frames /\ f.told = o.told /\ f.connect = o.connect
  BY <1>3, <1>5, ControlFields
<1> QED
  BY <1>3, <1>4, <1>5, <1>6

\* The active connection is forgotten, and connection b closed.
LEMMA ForgetFields ==
  ASSUME NEW o \in Outcome, NEW b, b.connectionId \in Nat
  PROVE  /\ Forget(o, b) \in Outcome
         /\ Forget(o, b).told = o.told /\ Forget(o, b).connect = o.connect
         /\ Forget(o, b).wire = o.wire /\ Forget(o, b).frames = o.frames
         /\ Forget(o, b).drop = o.drop \cup {b.connectionId}
         /\ Forget(o, b).ctl.active = NoActive
         /\ Forget(o, b).ctl.context = o.ctl.context
         /\ Forget(o, b).ctl.resumeSessionId = o.ctl.resumeSessionId
         /\ Forget(o, b).ctl.resumeRole = o.ctl.resumeRole
<1>1. PICK y : y = [o.ctl EXCEPT !.active = NoActive]
  OBVIOUS
<1>2. o.ctl \in Control /\ NoActive \in Active
  BY NoActiveOK DEF Outcome, ActiveOK
<1>3. /\ y \in Control /\ y.active = NoActive /\ y.context = o.ctl.context
      /\ y.resumeSessionId = o.ctl.resumeSessionId /\ y.resumeRole = o.ctl.resumeRole
  BY <1>1, <1>2 DEF Control
<1>4. PICK D : D = o.drop \cup {b.connectionId}
  OBVIOUS
<1>5. D \in SUBSET Nat
  BY <1>4 DEF Outcome
<1>6. PICK f : f = [o EXCEPT !.ctl = y, !.drop = D]
  OBVIOUS
<1>7. Forget(o, b) = f
  BY <1>1, <1>2, <1>4, <1>6 DEF Forget, Outcome
<1>8. /\ f \in Outcome /\ f.ctl = y /\ f.drop = D /\ f.wire = o.wire
      /\ f.frames = o.frames /\ f.told = o.told /\ f.connect = o.connect
  BY <1>3, <1>5, <1>6 DEF Outcome
<1> QED
  BY <1>3, <1>4, <1>7, <1>8

\* scheduleInitiatorReconnect arms a timer or queues the end of the attempts.
LEMMA ScheduleFields ==
  ASSUME NEW o \in Outcome
  PROVE  /\ ScheduleInitiatorReconnect(o) \in Outcome
         /\ ScheduleInitiatorReconnect(o).told = o.told
         /\ ScheduleInitiatorReconnect(o).drop = o.drop
         /\ ScheduleInitiatorReconnect(o).connect = o.connect
         /\ ScheduleInitiatorReconnect(o).wire = o.wire
         /\ ScheduleInitiatorReconnect(o).frames = o.frames
         /\ ScheduleInitiatorReconnect(o).ctl.active = o.ctl.active
         /\ ScheduleInitiatorReconnect(o).ctl.context = o.ctl.context
         /\ ScheduleInitiatorReconnect(o).ctl.resumeSessionId = o.ctl.resumeSessionId
         /\ ScheduleInitiatorReconnect(o).ctl.resumeRole = o.ctl.resumeRole
<1>1. o.ctl \in Control
  BY DEF Outcome
<1>2. PICK r : r = Append(o.ctl.queued, "fail")
  OBVIOUS
<1>3. r \in Seq({"fail", "reconnect"})
  BY <1>1, <1>2 DEF Control
<1>4. PICK y : y = [o.ctl EXCEPT !.queued = r]
  OBVIOUS
<1>5. /\ y \in Control /\ y.active = o.ctl.active /\ y.context = o.ctl.context
      /\ y.resumeSessionId = o.ctl.resumeSessionId /\ y.resumeRole = o.ctl.resumeRole
  BY <1>1, <1>3, <1>4 DEF Control
<1>6. PICK n : n = o.ctl.reconnectAttempt + 1
  OBVIOUS
<1>7. n \in Nat
  BY <1>1, <1>6 DEF Control
<1>8. PICK z : z = [o.ctl EXCEPT !.reconnectAttempt = n, !.reconnectTimer = TRUE]
  OBVIOUS
<1>9. /\ z \in Control /\ z.active = o.ctl.active /\ z.context = o.ctl.context
      /\ z.resumeSessionId = o.ctl.resumeSessionId /\ z.resumeRole = o.ctl.resumeRole
  BY <1>1, <1>7, <1>8 DEF Control
<1>10. PICK f : f = [o EXCEPT !.ctl = y]
  OBVIOUS
<1>11. /\ f \in Outcome /\ f.ctl = y /\ f.drop = o.drop /\ f.wire = o.wire
       /\ f.frames = o.frames /\ f.told = o.told /\ f.connect = o.connect
  BY <1>5, <1>10, ControlFields
<1>12. PICK g : g = [o EXCEPT !.ctl = z]
  OBVIOUS
<1>13. /\ g \in Outcome /\ g.ctl = z /\ g.drop = o.drop /\ g.wire = o.wire
       /\ g.frames = o.frames /\ g.told = o.told /\ g.connect = o.connect
  BY <1>9, <1>12, ControlFields
<1>14. [o EXCEPT !.ctl.queued = Append(@, "fail")] = f
  BY <1>1, <1>2, <1>4, <1>10 DEF Outcome
<1>15. [o EXCEPT !.ctl.reconnectAttempt = @ + 1, !.ctl.reconnectTimer = TRUE] = g
  BY <1>1, <1>6, <1>8, <1>12 DEF Outcome, Control
<1>16. ScheduleInitiatorReconnect(o) \in {o, f, g}
  BY <1>14, <1>15, Zenon DEF ScheduleInitiatorReconnect
<1> QED
  BY <1>5, <1>9, <1>11, <1>13, <1>16

\* The interrupted session of connection b waits to be resumed.
LEMMA BeginFields ==
  ASSUME NEW o \in Outcome, NEW b, b.connectionId \in Nat, b.role \in Role, b.sessionId \in SessionOrNone
  PROVE  /\ b.sessionId = 0 \/ o.ctl.resumeSessionId # 0 => BeginReconnect(o, b) = o
         /\ b.sessionId # 0 /\ o.ctl.resumeSessionId = 0 =>
              /\ BeginReconnect(o, b) \in Outcome
              /\ BeginReconnect(o, b).told = o.told
              /\ BeginReconnect(o, b).drop = o.drop \cup {b.connectionId}
              /\ BeginReconnect(o, b).connect = IF b.awaited THEN "reject" ELSE o.connect
              /\ BeginReconnect(o, b).wire = o.wire /\ BeginReconnect(o, b).frames = o.frames
              /\ BeginReconnect(o, b).ctl.active = NoActive
              /\ BeginReconnect(o, b).ctl.context = o.ctl.context
              /\ BeginReconnect(o, b).ctl.resumeSessionId = b.sessionId
              /\ BeginReconnect(o, b).ctl.resumeRole = b.role
<1>1. PICK q : q = AuthReject(o, b)
  OBVIOUS
<1>2. /\ q \in Outcome /\ q.ctl = o.ctl /\ q.told = o.told /\ q.drop = o.drop
      /\ q.wire = o.wire /\ q.frames = o.frames
      /\ q.connect = IF b.awaited THEN "reject" ELSE o.connect
  BY <1>1, RejectFields
<1>3. PICK r : r = Forget(q, b)
  OBVIOUS
<1>4. /\ r \in Outcome /\ r.told = q.told /\ r.connect = q.connect
      /\ r.wire = q.wire /\ r.frames = q.frames /\ r.drop = q.drop \cup {b.connectionId}
      /\ r.ctl.active = NoActive /\ r.ctl.context = q.ctl.context
  BY <1>2, <1>3, ForgetFields
<1>5. r.ctl \in Control
  BY <1>4 DEF Outcome
<1>6. PICK s, l : s = b.sessionId /\ l = b.role
  OBVIOUS
<1>7. s \in Nat /\ l \in Role
  BY <1>6, Bounds DEF SessionOrNone
<1>8. PICK y : y = [r.ctl EXCEPT !.resumeSessionId = s, !.resumeRole = l, !.reconnectAttempt = 0]
  OBVIOUS
<1>9. /\ y \in Control /\ y.active = NoActive /\ y.context = o.ctl.context
      /\ y.resumeSessionId = s /\ y.resumeRole = l
  BY <1>2, <1>4, <1>5, <1>7, <1>8 DEF Control
<1>10. PICK e : e = [r EXCEPT !.ctl.resumeSessionId = b.sessionId, !.ctl.resumeRole = b.role,
                              !.ctl.reconnectAttempt = 0]
  OBVIOUS
<1>11. e = [r EXCEPT !.ctl = y]
  BY <1>4, <1>5, <1>6, <1>8, <1>10 DEF Outcome, Control
<1>12. /\ e \in Outcome /\ e.ctl = y /\ e.drop = r.drop /\ e.wire = r.wire
       /\ e.frames = r.frames /\ e.told = r.told /\ e.connect = r.connect
  BY <1>4, <1>9, <1>11, ControlFields
<1>13. PICK z : z = [y EXCEPT !.responderReconnectTimer = TRUE]
  OBVIOUS
<1>14. /\ z \in Control /\ z.active = NoActive /\ z.context = o.ctl.context
       /\ z.resumeSessionId = s /\ z.resumeRole = l
  BY <1>9, <1>13 DEF Control
<1>15. PICK f : f = [e EXCEPT !.ctl = z]
  OBVIOUS
<1>16. /\ f \in Outcome /\ f.ctl = z /\ f.drop = e.drop /\ f.wire = e.wire
       /\ f.frames = e.frames /\ f.told = e.told /\ f.connect = e.connect
  BY <1>12, <1>14, <1>15, ControlFields
<1>17. [e EXCEPT !.ctl.responderReconnectTimer = TRUE] = f
  BY <1>12, <1>13, <1>15 DEF Outcome
<1>18. PICK g : g = ScheduleInitiatorReconnect(e)
  OBVIOUS
<1>19. /\ g \in Outcome /\ g.told = e.told /\ g.drop = e.drop /\ g.connect = e.connect
       /\ g.wire = e.wire /\ g.frames = e.frames /\ g.ctl.active = e.ctl.active
       /\ g.ctl.context = e.ctl.context /\ g.ctl.resumeSessionId = e.ctl.resumeSessionId
       /\ g.ctl.resumeRole = e.ctl.resumeRole
  BY <1>12, <1>18, ScheduleFields
<1>20. b.sessionId = 0 \/ o.ctl.resumeSessionId # 0 => BeginReconnect(o, b) = o
  BY DEF BeginReconnect
<1>21. b.sessionId # 0 /\ o.ctl.resumeSessionId = 0 => BeginReconnect(o, b) \in {f, g}
  BY <1>1, <1>3, <1>10, <1>17, <1>18 DEF BeginReconnect
<1> QED
  BY <1>2, <1>4, <1>6, <1>9, <1>12, <1>14, <1>16, <1>19, <1>20, <1>21

-----------------------------------------------------------------------------
(***************************************************************************)
(* What subscribers take for alive is held or resumed, and no resumption   *)
(* waits beside an authenticated connection.                               *)
(***************************************************************************)
Sound(x, t) ==
  /\ t # 0 => (x.active.keyed /\ x.active.sessionId = t) \/ x.resumeSessionId = t
  /\ x.active.keyed => x.resumeSessionId = 0

\* The outcome g of an operation that began as u and greets nobody.
Fine(g, u) ==
  /\ g \in Outcome /\ Sound(g.ctl, g.told) /\ g.frames = u.frames
  /\ g.ctl.active \in {u.ctl.active, NoActive}
  /\ g.ctl.resumeRole = "initiator" => "initiator" \in {u.ctl.resumeRole, u.ctl.active.role}
  /\ u.told = 0 /\ u.ctl.resumeSessionId = 0 /\ ~u.ctl.active.keyed
       => g.told = 0 /\ g.ctl.resumeSessionId = 0

\* The active connection is gone without being closed (handleClosed).
LEMMA LostFields ==
  ASSUME NEW o \in Outcome
  PROVE  LET e == [o EXCEPT !.ctl.active = NoActive] IN
         /\ e \in Outcome /\ e.told = o.told /\ e.frames = o.frames
         /\ e.ctl.active = NoActive
         /\ e.ctl.resumeSessionId = o.ctl.resumeSessionId /\ e.ctl.resumeRole = o.ctl.resumeRole
<1>1. PICK y : y = [o.ctl EXCEPT !.active = NoActive]
  OBVIOUS
<1>2. o.ctl \in Control /\ NoActive \in Active
  BY NoActiveOK DEF Outcome, ActiveOK
<1>3. /\ y \in Control /\ y.active = NoActive
      /\ y.resumeSessionId = o.ctl.resumeSessionId /\ y.resumeRole = o.ctl.resumeRole
  BY <1>1, <1>2 DEF Control
<1>4. PICK f : f = [o EXCEPT !.ctl = y]
  OBVIOUS
<1>5. f \in Outcome /\ f.ctl = y /\ f.told = o.told /\ f.frames = o.frames
  BY <1>3, <1>4, ControlFields
<1>6. [o EXCEPT !.ctl.active = NoActive] = f
  BY <1>1, <1>4 DEF Outcome
<1> QED
  BY <1>3, <1>5, <1>6

\* Closing the active connection (closeActive).
LEMMA CloseFields ==
  ASSUME NEW o \in Outcome
  PROVE  /\ CloseActive(o) \in Outcome
         /\ CloseActive(o).told = o.told /\ CloseActive(o).frames = o.frames
         /\ CloseActive(o).ctl.active \in {o.ctl.active, NoActive}
         /\ o.ctl.active.connectionId # 0 => CloseActive(o).ctl.active = NoActive
         /\ CloseActive(o).ctl.context = o.ctl.context
         /\ CloseActive(o).ctl.resumeSessionId = o.ctl.resumeSessionId
         /\ CloseActive(o).ctl.resumeRole = o.ctl.resumeRole
<1>1. PICK a : a = o.ctl.active
  OBVIOUS
<1>2. a.connectionId \in Nat
  BY <1>1 DEF Outcome, Control, Active
<1>3. PICK q : q = AuthReject(o, a)
  OBVIOUS
<1>4. q \in Outcome /\ q.ctl = o.ctl /\ q.told = o.told /\ q.frames = o.frames
  BY <1>3, RejectFields
<1>5. PICK r : r = Forget(q, a)
  OBVIOUS
<1>6. /\ r \in Outcome /\ r.told = q.told /\ r.frames = q.frames /\ r.ctl.active = NoActive
      /\ r.ctl.context = q.ctl.context
      /\ r.ctl.resumeSessionId = q.ctl.resumeSessionId /\ r.ctl.resumeRole = q.ctl.resumeRole
  BY <1>2, <1>4, <1>5, ForgetFields
<1>7. CloseActive(o) = IF a.connectionId = 0 THEN o ELSE r
  BY <1>1, <1>3, <1>5 DEF CloseActive
<1> QED
  BY <1>1, <1>4, <1>6, <1>7

\* An interrupted session is resumed, or nothing happens (beginReconnect).
LEMMA BeginFine ==
  ASSUME NEW o \in Outcome, Sound(o.ctl, o.told), o.ctl.active.keyed,
         NEW b, b.connectionId \in Nat, b.role = o.ctl.active.role,
         b.sessionId = o.ctl.active.sessionId, b.sessionId \in SessionOrNone
  PROVE  Fine(BeginReconnect(o, b), o)
<1>1. o.ctl.resumeSessionId = 0
  BY DEF Sound
<1>2. b.role \in Role
  BY DEF Outcome, Control, Active
<1>3. PICK g : g = BeginReconnect(o, b)
  OBVIOUS
<1>4. CASE b.sessionId = 0
  <2>1. g = o
    BY <1>3, <1>4, BeginFields, <1>2
  <2> QED
    BY <1>3, <2>1 DEF Fine
<1>5. CASE b.sessionId # 0
  <2>1. /\ g \in Outcome /\ g.told = o.told /\ g.frames = o.frames
        /\ g.ctl.active = NoActive /\ g.ctl.resumeSessionId = b.sessionId
        /\ g.ctl.resumeRole = b.role
    BY <1>1, <1>2, <1>3, <1>5, BeginFields
  <2>2. ~NoActive.keyed
    BY DEF NoActive
  <2>3. Sound(g.ctl, g.told)
    BY <1>1, <2>1, <2>2 DEF Sound
  <2> QED
    BY <1>3, <2>1, <2>3 DEF Fine
<1> QED
  BY <1>4, <1>5

\* A session that ended in an error is reported, then closed (fail).
LEMMA ReportFine ==
  ASSUME NEW o \in Outcome, Sound(o.ctl, o.told)
  PROVE  Fine(CloseActive(Emit(o, "error", 0)), o)
<1>1. PICK e : e = Emit(o, "error", 0)
  OBVIOUS
<1>2. e \in Outcome /\ e.ctl = o.ctl /\ e.frames = o.frames /\ e.told = 0
  BY <1>1, EmitFields, Bounds DEF News
<1>3. PICK g : g = CloseActive(e)
  OBVIOUS
<1>4. /\ g \in Outcome /\ g.told = 0 /\ g.frames = o.frames
      /\ g.ctl.active \in {o.ctl.active, NoActive}
      /\ g.ctl.resumeSessionId = o.ctl.resumeSessionId /\ g.ctl.resumeRole = o.ctl.resumeRole
  BY <1>2, <1>3, CloseFields
<1>5. ~NoActive.keyed
  BY DEF NoActive
<1>6. Sound(g.ctl, g.told)
  BY <1>4, <1>5 DEF Sound
<1> QED
  BY <1>1, <1>3, <1>4, <1>6 DEF Fine

\* A handshake that is refused while a session is resumed leaves it so.
LEMMA RefuseFine ==
  ASSUME NEW o \in Outcome, Sound(o.ctl, o.told)
  PROVE  Fine(RefuseHandshake(o), o)
<1>1. PICK a : a = o.ctl.active
  OBVIOUS
<1>2. a.connectionId \in Nat
  BY <1>1 DEF Outcome, Control, Active
<1>3. PICK q : q = AuthReject(o, a)
  OBVIOUS
<1>4. q \in Outcome /\ q.ctl = o.ctl /\ q.told = o.told /\ q.frames = o.frames
  BY <1>3, RejectFields
<1>5. PICK r : r = Forget(q, a)
  OBVIOUS
<1>6. /\ r \in Outcome /\ r.told = o.told /\ r.frames = o.frames /\ r.ctl.active = NoActive
      /\ r.ctl.resumeSessionId = o.ctl.resumeSessionId /\ r.ctl.resumeRole = o.ctl.resumeRole
  BY <1>2, <1>4, <1>5, ForgetFields
<1>7. PICK s : s = ScheduleInitiatorReconnect(r)
  OBVIOUS
<1>8. /\ s \in Outcome /\ s.told = o.told /\ s.frames = o.frames /\ s.ctl.active = NoActive
      /\ s.ctl.resumeSessionId = o.ctl.resumeSessionId /\ s.ctl.resumeRole = o.ctl.resumeRole
  BY <1>6, <1>7, ScheduleFields
<1>9. PICK f : f = Forget(o, a)
  OBVIOUS
<1>10. /\ f \in Outcome /\ f.told = o.told /\ f.frames = o.frames /\ f.ctl.active = NoActive
       /\ f.ctl.resumeSessionId = o.ctl.resumeSessionId /\ f.ctl.resumeRole = o.ctl.resumeRole
  BY <1>2, <1>9, ForgetFields
<1>11. ~NoActive.keyed
  BY DEF NoActive
<1>12. o.ctl.resumeSessionId # 0 => Fine(s, o) /\ Fine(f, o)
  BY <1>8, <1>10, <1>11 DEF Fine, Sound
<1>13. o.ctl.resumeSessionId # 0 => RefuseHandshake(o) \in {s, f}
  BY <1>1, <1>3, <1>5, <1>7, <1>9 DEF RefuseHandshake
<1>14. o.ctl.resumeSessionId = 0 => RefuseHandshake(o) = CloseActive(Emit(o, "error", 0))
  BY DEF RefuseHandshake
<1> QED
  BY <1>12, <1>13, <1>14, ReportFine

\* The end of the active connection (handleClosed).
LEMMA ClosedFine ==
  ASSUME NEW o \in Outcome, Sound(o.ctl, o.told), o.ctl.active.sessionId \in SessionOrNone
  PROVE  Fine(HandleClosed(o), o)
<1>1. PICK a : a = o.ctl.active
  OBVIOUS
<1>2. a.connectionId \in Nat
  BY <1>1 DEF Outcome, Control, Active
<1>3. PICK l : l = [o EXCEPT !.ctl.active = NoActive]
  OBVIOUS
<1>4. /\ l \in Outcome /\ l.told = o.told /\ l.frames = o.frames /\ l.ctl.active = NoActive
      /\ l.ctl.resumeSessionId = o.ctl.resumeSessionId /\ l.ctl.resumeRole = o.ctl.resumeRole
  BY <1>3, LostFields
<1>5. PICK r : r = AuthReject(l, a)
  OBVIOUS
<1>6. /\ r \in Outcome /\ r.told = o.told /\ r.frames = o.frames /\ r.ctl.active = NoActive
      /\ r.ctl.resumeSessionId = o.ctl.resumeSessionId /\ r.ctl.resumeRole = o.ctl.resumeRole
  BY <1>4, <1>5, RejectFields
<1>7. PICK e : e = Emit(r, "closed", a.sessionId)
  OBVIOUS
<1>8. /\ e \in Outcome /\ e.told = 0 /\ e.frames = o.frames /\ e.ctl = r.ctl
  BY <1>1, <1>6, <1>7, EmitFields DEF News
<1>9. PICK s : s = ScheduleInitiatorReconnect(r)
  OBVIOUS
<1>10. /\ s \in Outcome /\ s.told = o.told /\ s.frames = o.frames /\ s.ctl.active = NoActive
       /\ s.ctl.resumeSessionId = o.ctl.resumeSessionId /\ s.ctl.resumeRole = o.ctl.resumeRole
  BY <1>6, <1>9, ScheduleFields
<1>11. ~NoActive.keyed
  BY DEF NoActive
<1>12. o.ctl.resumeSessionId = 0 => Fine(e, o)
  BY <1>6, <1>8, <1>11 DEF Fine, Sound
<1>13. o.ctl.resumeSessionId # 0 => Fine(r, o) /\ Fine(s, o)
  BY <1>6, <1>10, <1>11 DEF Fine, Sound
<1>14. a.keyed => HandleClosed(o) = BeginReconnect(o, a)
  BY <1>1 DEF HandleClosed
<1>15. a.keyed => Fine(HandleClosed(o), o)
  BY <1>1, <1>2, <1>14, BeginFine
<1>16. ~a.keyed => HandleClosed(o) = IF o.ctl.resumeSessionId = 0 THEN e
                                     ELSE IF a.role = "initiator" THEN s ELSE r
  BY <1>1, <1>3, <1>5, <1>7, <1>9 DEF HandleClosed
<1> QED
  BY <1>12, <1>13, <1>15, <1>16

\* An error of the active connection (handleError).
LEMMA ErrorFine ==
  ASSUME NEW o \in Outcome, Sound(o.ctl, o.told), o.ctl.active.sessionId \in SessionOrNone
  PROVE  Fine(HandleError(o), o)
<1>1. PICK a : a = o.ctl.active
  OBVIOUS
<1>2. a.connectionId \in Nat
  BY <1>1 DEF Outcome, Control, Active
<1>3. PICK f : f = Forget(o, a)
  OBVIOUS
<1>4. /\ f \in Outcome /\ f.told = o.told /\ f.frames = o.frames /\ f.ctl.active = NoActive
      /\ f.ctl.resumeSessionId = o.ctl.resumeSessionId /\ f.ctl.resumeRole = o.ctl.resumeRole
  BY <1>2, <1>3, ForgetFields
<1>5. PICK s : s = ScheduleInitiatorReconnect(f)
  OBVIOUS
<1>6. /\ s \in Outcome /\ s.told = o.told /\ s.frames = o.frames /\ s.ctl.active = NoActive
      /\ s.ctl.resumeSessionId = o.ctl.resumeSessionId /\ s.ctl.resumeRole = o.ctl.resumeRole
  BY <1>4, <1>5, ScheduleFields
<1>7. ~NoActive.keyed
  BY DEF NoActive
<1>8. o.ctl.resumeSessionId # 0 => Fine(s, o)
  BY <1>6, <1>7 DEF Fine, Sound
<1>9. a.keyed => HandleError(o) = BeginReconnect(o, a)
  BY <1>1 DEF HandleError
<1>10. a.keyed => Fine(HandleError(o), o)
  BY <1>1, <1>2, <1>9, BeginFine
<1>11. ~a.keyed /\ o.ctl.resumeSessionId # 0 => HandleError(o) = s
  BY <1>1, <1>3, <1>5 DEF HandleError
<1>12. ~a.keyed /\ o.ctl.resumeSessionId = 0 => HandleError(o) = CloseActive(Emit(o, "error", 0))
  BY <1>1 DEF HandleError
<1> QED
  BY <1>8, <1>10, <1>11, <1>12, ReportFine

\* The end of the attempts (failReconnect).
LEMMA FailFine ==
  ASSUME NEW o \in Outcome, Sound(o.ctl, o.told), o.ctl.resumeSessionId \in SessionOrNone
  PROVE  Fine(FailReconnect(o), o)
<1>1. PICK r : r = ClearReconnectState(o)
  OBVIOUS
<1>2. /\ r \in Outcome /\ r.told = o.told /\ r.frames = o.frames
      /\ r.ctl.active = o.ctl.active /\ r.ctl.resumeSessionId = 0 /\ r.ctl.resumeRole = "none"
  BY <1>1, ClearFields
<1>3. PICK e : e = Emit(r, "error", 0)
  OBVIOUS
<1>4. e \in Outcome /\ e.ctl = r.ctl /\ e.frames = o.frames
  BY <1>2, <1>3, EmitFields, Bounds DEF News
<1>5. PICK g : g = Emit(e, "closed", o.ctl.resumeSessionId)
  OBVIOUS
<1>6. g \in Outcome /\ g.ctl = r.ctl /\ g.frames = o.frames /\ g.told = 0
  BY <1>4, <1>5, EmitFields DEF News
<1>7. FailReconnect(o) = IF o.ctl.resumeSessionId = 0 THEN o ELSE g
  BY <1>1, <1>3, <1>5 DEF FailReconnect
<1>8. Fine(o, o)
  BY DEF Fine
<1>9. Fine(g, o)
  BY <1>2, <1>6 DEF Fine, Sound
<1> QED
  BY <1>7, <1>8, <1>9

-----------------------------------------------------------------------------
\* connect() is under way and has not sent its hello.
Asking(o) == o["connect"].step \in {"dialling"} \cup Early

\* While connect() dials, nothing else goes on at its phone.
Alone(x, t, o) ==
  /\ Asking(o) =>
       /\ t = 0 /\ x.resumeSessionId = 0 /\ ~x.active.keyed
       /\ o["reconnect"].step = "none"
       /\ \/ x.active.connectionId = 0
          \/ /\ o["connect"].step # "dialling"
             /\ x.active.connectionId = o["connect"].connectionId
  /\ o["reconnect"].step # "none" => x.resumeSessionId # 0

\* A phone whose user asks for nothing dials nobody, and nobody dials its
\* partner.
Passive(x, o) ==
  /\ \A w \in Caller : o[w].step = "none"
  /\ x.resumeRole # "initiator" /\ x.active.role # "initiator"
Undialled(K, i) == K = {} /\ \A c \in Conn : NoConnected(i[c])

SoundPhone(p, x, t, o, K, i) ==
  /\ Sound(x, t) /\ Alone(x, t, o)
  /\ p \notin Requesters => Passive(x, o)
  /\ Other(p) \notin Requesters => Undialled(K, i)

SoundPhones == \A p \in Phone : SoundPhone(p, ctl[p], told[p], opening[p], knocks[p], inbox[p])

\* Only one user asks for the partner's screen.
OneAsks == \A p, q \in Requesters : p = q

\* What a step of p keeps at the other phone.
Apart(p) ==
  \A q \in Phone \ {p} :
    /\ ctl'[q] = ctl[q] /\ opening'[q] = opening[q] /\ told'[q] = told[q]
    /\ p \notin Requesters /\ Undialled(knocks[q], inbox[q]) => Undialled(knocks'[q], inbox'[q])

\* A step of one phone concerns that phone.
LEMMA SoundStep ==
  ASSUME SoundPhones, NEW p \in Phone, Apart(p),
         SoundPhone(p, ctl'[p], told'[p], opening'[p], knocks'[p], inbox'[p])
  PROVE  SoundPhones'
<1> SUFFICES ASSUME NEW q \in Phone
             PROVE  SoundPhone(q, ctl'[q], told'[q], opening'[q], knocks'[q], inbox'[q])
  BY DEF SoundPhones
<1>1. CASE q = p
  BY <1>1
<1>2. CASE q # p
  <2>1. Other(q) = p
    BY <1>2, TwoPhones
  <2>2. SoundPhone(q, ctl[q], told[q], opening[q], knocks[q], inbox[q])
    BY DEF SoundPhones
  <2>3. /\ ctl'[q] = ctl[q] /\ opening'[q] = opening[q] /\ told'[q] = told[q]
        /\ p \notin Requesters /\ Undialled(knocks[q], inbox[q]) => Undialled(knocks'[q], inbox'[q])
    BY <1>2 DEF Apart
  <2> QED
    BY <2>1, <2>2, <2>3 DEF SoundPhone
<1> QED
  BY <1>1, <1>2

\* Events that are no "connected" may follow; what is left of a stream without
\* a "connected" has none.
LEMMA NoConnectedJoins ==
  ASSUME NEW x \in Seq(Event), NEW y \in Seq(Event), NoConnected(x), NoConnected(y)
  PROVE  NoConnected(x \o y)
<1>1. Len(x \o y) = Len(x) + Len(y)
  BY ConcatProperties
<1>2. \A i \in 1..Len(x) + Len(y) : (x \o y)[i] = IF i <= Len(x) THEN x[i] ELSE y[i - Len(x)]
  BY ConcatProperties
<1>3. ASSUME NEW i \in 1..Len(x \o y) PROVE (x \o y)[i] # Connected
  <2>1. CASE i <= Len(x)
    BY <1>1, <1>2, <2>1 DEF NoConnected
  <2>2. CASE ~(i <= Len(x))
    <3>1. i - Len(x) \in 1..Len(y)
      BY <1>1, <2>2
    <3> QED
      BY <1>1, <1>2, <2>2, <3>1 DEF NoConnected
  <2> QED
    BY <2>1, <2>2
<1> QED
  BY <1>3 DEF NoConnected

\* What an operation of p does to the other phone.
LEMMA PerformsApart ==
  ASSUME Types, NEW p \in Phone, NEW o \in Outcome, NEW d, Performs(p, o, d), NoConnected(o.frames)
  PROVE  Apart(p)
<1>0. OnlyOf(p) /\ knocks' = knocks
  BY PerformsDoes
<1>1. ASSUME NEW q \in Phone \ {p}, NEW c \in Conn
      PROVE  inbox'[q][c] = IF c = o.wire /\ Receives(q, c) THEN inbox[q][c] \o o.frames
                            ELSE inbox[q][c]
  <2>1. inbox' = Delivered(p, o.wire, o.frames, d, o.drop)
    BY DEF Performs
  <2> QED
    BY <2>1, Zenon DEF Delivered
<1>2. Others(p)
  BY <1>0, OnlyOthers
<1>3. told' = [told EXCEPT ![p] = told'[p]] /\ told \in [Phone -> SessionOrNone]
  BY <1>0 DEF OnlyOf, Types
<1> SUFFICES ASSUME NEW q \in Phone \ {p}
             PROVE  /\ ctl'[q] = ctl[q] /\ opening'[q] = opening[q] /\ told'[q] = told[q]
                    /\ Undialled(knocks[q], inbox[q]) => Undialled(knocks'[q], inbox'[q])
  BY DEF Apart
<1>4. /\ ctl'[q] = ctl[q] /\ opening'[q] = opening[q] /\ told'[q] = told[q]
  BY <1>2, <1>3 DEF Others
<1>5. ASSUME NEW c \in Conn, NoConnected(inbox[q][c]) PROVE NoConnected(inbox'[q][c])
  <2>1. inbox[q][c] \in Seq(Event) /\ o.frames \in Seq(Event)
    BY EndTypes DEF Outcome
  <2>2. NoConnected(inbox[q][c] \o o.frames)
    BY <1>5, <2>1, NoConnectedJoins
  <2> QED
    BY <1>1, <1>5, <2>2
<1> QED
  BY <1>0, <1>4, <1>5 DEF Undialled

\* A call of connect() that is settled asks no more, or still has to greet.
LEMMA SettledAsks ==
  ASSUME Types, NEW p \in Phone, NEW o, NEW l, l = [opening[p] EXCEPT !["connect"] = Settled(p, o)]
  PROVE  /\ l["reconnect"] = opening[p]["reconnect"]
         /\ Asking(l) => /\ Asking(opening[p])
                         /\ l["connect"].connectionId = opening[p]["connect"].connectionId
                         /\ l["connect"].step = "dialling" => opening[p]["connect"].step = "dialling"
         /\ opening[p]["connect"].step = "none" => l["connect"].step = "none"
<1>1. opening[p] \in [Caller -> Opening] /\ "connect" \in Caller /\ "reconnect" \in Caller
  BY DEF Types, Caller
<1>2. PICK k : k = opening[p]["connect"]
  OBVIOUS
<1>3. k \in Opening
  BY <1>1, <1>2
<1>4. PICK e : e = [k EXCEPT !.step = "rejected"]
  OBVIOUS
<1>5. e.step = "rejected" /\ e.connectionId = k.connectionId
  BY <1>3, <1>4 DEF Opening
<1>6. l["connect"] = Settled(p, o) /\ l["reconnect"] = opening[p]["reconnect"]
  BY <1>1
<1>7. Settled(p, o) = IF o.connect = "pending" THEN k
                      ELSE IF k.step = "adopted" THEN e ELSE NoOpening
  BY <1>2, <1>4 DEF Settled
<1>8. NoOpening.step = "none"
  BY DEF NoOpening
<1> QED
  BY <1>2, <1>5, <1>6, <1>7, <1>8 DEF Asking, Early

\* An operation keeps what subscribers believe when its outcome does.
LEMMA PerformsSound ==
  ASSUME Types, SoundPhones, NEW p \in Phone, NEW o \in Outcome, NEW d, Performs(p, o, d),
         QueueFree(p), NoConnected(o.frames), Sound(o.ctl, o.told),
         p \notin Requesters => o.ctl.resumeRole # "initiator" /\ o.ctl.active.role # "initiator",
         Asking(opening[p]) =>
           /\ o.told = 0 /\ o.ctl.resumeSessionId = 0 /\ ~o.ctl.active.keyed
           /\ o.ctl.active.connectionId \in {0, ctl[p].active.connectionId},
         d \in Conn => Len(inbox[p][d]) > 0
  PROVE  SoundPhones'
<1>1. /\ OnlyOf(p) /\ knocks' = knocks /\ opener' = opener
      /\ ctl'[p] = o.ctl /\ told'[p] = o.told
      /\ opening'[p] = [opening[p] EXCEPT !["connect"] = Settled(p, o)]
      /\ native'[p] = IF native[p] \in o.drop THEN 0 ELSE native[p]
  BY PerformsDoes
<1>2. PICK l : l = [opening[p] EXCEPT !["connect"] = Settled(p, o)]
  OBVIOUS
<1>3. /\ l["reconnect"] = opening[p]["reconnect"]
      /\ Asking(l) => /\ Asking(opening[p])
                      /\ l["connect"].connectionId = opening[p]["connect"].connectionId
                      /\ l["connect"].step = "dialling" => opening[p]["connect"].step = "dialling"
      /\ opening[p]["connect"].step = "none" => l["connect"].step = "none"
  BY <1>2, SettledAsks
<1>4. SoundPhone(p, ctl[p], told[p], opening[p], knocks[p], inbox[p])
  BY DEF SoundPhones
<1>5. l["reconnect"].step = "none"
  BY <1>3 DEF QueueFree
<1>6. Alone(o.ctl, o.told, l)
  <2>1. Alone(ctl[p], told[p], opening[p])
    BY <1>4 DEF SoundPhone
  <2> QED
    BY <1>3, <1>5, <2>1 DEF Alone
<1>7. p \notin Requesters => Passive(o.ctl, l)
  <2>1. p \notin Requesters => \A w \in Caller : opening[p][w].step = "none"
    BY <1>4 DEF SoundPhone, Passive
  <2> QED
    BY <1>3, <1>5, <2>1 DEF Passive, Caller
<1>8. Undialled(knocks[p], inbox[p]) => Undialled(knocks'[p], inbox'[p])
  <2>1. ASSUME NEW c \in Conn, NoConnected(inbox[p][c]) PROVE NoConnected(inbox'[p][c])
    <3>1. inbox' = Delivered(p, o.wire, o.frames, d, o.drop)
      BY DEF Performs
    <3>2. inbox'[p][c] = IF c \in o.drop THEN <<>>
                         ELSE IF c = d THEN Tail(inbox[p][c]) ELSE inbox[p][c]
      BY <3>1, Zenon DEF Delivered
    <3>3. Part(inbox[p][c], inbox'[p][c])
      BY <2>1, <3>2 DEF Part
    <3>4. inbox[p][c] \in Seq(Event)
      BY EndTypes
    <3> QED
      BY <2>1, <3>3, <3>4, PartIs
  <2> QED
    BY <1>1, <2>1 DEF Undialled
<1>9. SoundPhone(p, ctl'[p], told'[p], opening'[p], knocks'[p], inbox'[p])
  BY <1>1, <1>2, <1>4, <1>6, <1>7, <1>8 DEF SoundPhone
<1>10. Apart(p)
  BY PerformsApart
<1> QED
  BY <1>9, <1>10, SoundStep

\* So does an operation that greets nobody.
LEMMA FineSound ==
  ASSUME Types, SoundPhones, NEW p \in Phone, NEW u, u.ctl.active = ctl[p].active,
         u.ctl.resumeSessionId = ctl[p].resumeSessionId, u.ctl.resumeRole = ctl[p].resumeRole,
         u.told = told[p], u.frames = <<>>,
         NEW g, Fine(g, u), NEW d, Performs(p, g, d), QueueFree(p),
         d \in Conn => Len(inbox[p][d]) > 0
  PROVE  SoundPhones'
<1>1. SoundPhone(p, ctl[p], told[p], opening[p], knocks[p], inbox[p])
  BY DEF SoundPhones
<1>2. NoActive.role = "none" /\ ~NoActive.keyed /\ NoActive.connectionId = 0
  BY DEF NoActive
<1>3. NoConnected(g.frames)
  BY DEF Fine, NoConnected
<1>4. p \notin Requesters => g.ctl.resumeRole # "initiator" /\ g.ctl.active.role # "initiator"
  BY <1>1, <1>2 DEF Fine, SoundPhone, Passive
<1>5. Asking(opening[p]) =>
        /\ g.told = 0 /\ g.ctl.resumeSessionId = 0 /\ ~g.ctl.active.keyed
        /\ g.ctl.active.connectionId \in {0, ctl[p].active.connectionId}
  BY <1>1, <1>2 DEF Fine, SoundPhone, Alone
<1>6. g \in Outcome /\ Sound(g.ctl, g.told)
  BY DEF Fine
<1> QED
  BY <1>3, <1>4, <1>5, <1>6, PerformsSound

\* v is how an operation of p begins: as Unchanged(p) or Dequeued(p).
Begins(v, p) ==
  /\ v \in Outcome /\ Sound(v.ctl, v.told) /\ v.told = told[p] /\ v.frames = <<>> /\ v.wire = 0
  /\ v.ctl.active = ctl[p].active /\ v.ctl.context = ctl[p].context
  /\ v.ctl.resumeSessionId = ctl[p].resumeSessionId /\ v.ctl.resumeRole = ctl[p].resumeRole
  /\ v.ctl.active.sessionId \in SessionOrNone /\ v.ctl.active.connectionId \in Nat
  /\ v.ctl.resumeSessionId \in SessionOrNone

\* An operation begins with what there is.
LEMMA StartBegins ==
  ASSUME Types, SoundPhones, NEW p \in Phone, NEW v, v = Unchanged(p)
  PROVE  Begins(v, p) /\ v.ctl = ctl[p]
<1>1. v \in Outcome /\ v.ctl = ctl[p] /\ v.frames = <<>> /\ v.wire = 0
  BY StartIs
<1>2. v.told = told[p]
  BY DEF Unchanged
<1>3. Sound(ctl[p], told[p])
  BY DEF SoundPhones, SoundPhone
<1>4. ctl[p].active.sessionId \in SessionOrNone /\ ctl[p].active \in Active
  BY EndTypes DEF ActiveOK
<1>5. ctl[p].resumeSessionId \in SessionOrNone
  BY EndTypes DEF PhoneOK, ControlOK
<1>6. ctl[p].active.connectionId \in Nat
  BY <1>4 DEF Active
<1> QED
  BY <1>1, <1>2, <1>3, <1>4, <1>5, <1>6 DEF Begins

\* So does an operation of the queue.
LEMMA DequeuedBegins ==
  ASSUME Types, SoundPhones, NEW p \in Phone, ctl[p].queued # <<>>, NEW v, v = Dequeued(p)
  PROVE  Begins(v, p)
<1>1. PICK u : u = Unchanged(p)
  OBVIOUS
<1>2. Begins(u, p) /\ u.ctl = ctl[p] /\ u \in Outcome
  BY <1>1, StartBegins DEF Begins
<1>3. u.ctl \in Control
  BY <1>2 DEF Outcome
<1>4. PICK r : r = Tail(u.ctl.queued)
  OBVIOUS
<1>5. r \in Seq({"fail", "reconnect"})
  BY <1>2, <1>3, <1>4 DEF Control
<1>6. PICK y : y = [u.ctl EXCEPT !.queued = r]
  OBVIOUS
<1>7. /\ y \in Control /\ y.active = u.ctl.active /\ y.context = u.ctl.context
      /\ y.resumeSessionId = u.ctl.resumeSessionId /\ y.resumeRole = u.ctl.resumeRole
  BY <1>3, <1>5, <1>6 DEF Control
<1>8. PICK f : f = [u EXCEPT !.ctl = y]
  OBVIOUS
<1>9. /\ f \in Outcome /\ f.ctl = y /\ f.wire = u.wire /\ f.frames = u.frames /\ f.told = u.told
  BY <1>2, <1>7, <1>8, ControlFields
<1>10. v = f
  BY <1>1, <1>2, <1>3, <1>4, <1>6, <1>8 DEF Dequeued, Outcome
<1>11. Sound(y, f.told)
  BY <1>2, <1>7, <1>9 DEF Begins, Sound
<1> QED
  BY <1>2, <1>7, <1>9, <1>10, <1>11 DEF Begins

\* What the subscribers of p take for alive stays so in an operation that
\* greets nobody.
LEMMA FineStep ==
  ASSUME Types, SoundPhones, NEW p \in Phone, NEW u, Begins(u, p), NEW g, Fine(g, u),
         NEW d, Performs(p, g, d), QueueFree(p), d \in Conn => Len(inbox[p][d]) > 0
  PROVE  SoundPhones'
  BY FineSound DEF Begins

\* Who calls close() knows that the session is over.
LEMMA ClosingFine ==
  ASSUME NEW p, NEW o \in Outcome, o = Unchanged(p), Sound(o.ctl, o.told)
  PROVE  Fine(Closing(p), o)
<1>1. PICK r : r = ClearReconnectState(o)
  OBVIOUS
<1>2. /\ r \in Outcome /\ r.frames = o.frames /\ r.ctl.active = o.ctl.active
      /\ r.ctl.resumeSessionId = 0 /\ r.ctl.resumeRole = "none"
  BY <1>1, ClearFields
<1>3. PICK f : f = CloseActive(r)
  OBVIOUS
<1>4. /\ f \in Outcome /\ f.frames = r.frames /\ f.ctl.active \in {r.ctl.active, NoActive}
      /\ f.ctl.resumeSessionId = r.ctl.resumeSessionId /\ f.ctl.resumeRole = r.ctl.resumeRole
  BY <1>2, <1>3, CloseFields
<1>5. PICK g : g = [f EXCEPT !.told = 0]
  OBVIOUS
<1>6. g \in Outcome /\ g.ctl = f.ctl /\ g.frames = f.frames /\ g.told = 0
  BY <1>4, <1>5, Bounds DEF Outcome
<1>7. Closing(p) = g
  BY <1>1, <1>3, <1>5, Zenon DEF Closing
<1>8. Fine(g, o)
  BY <1>2, <1>4, <1>6 DEF Fine, Sound
<1> QED
  BY <1>7, <1>8

\* The context is no concern of the subscribers.
LEMMA ContextFine ==
  ASSUME NEW u, NEW o, Fine(o, u), NEW b \in BOOLEAN
  PROVE  Fine([o EXCEPT !.ctl.context = b], u)
<1>1. o \in Outcome /\ o.ctl \in Control
  BY DEF Fine, Outcome
<1>2. PICK y : y = [o.ctl EXCEPT !.context = b]
  OBVIOUS
<1>3. /\ y \in Control /\ y.active = o.ctl.active
      /\ y.resumeSessionId = o.ctl.resumeSessionId /\ y.resumeRole = o.ctl.resumeRole
  BY <1>1, <1>2 DEF Control
<1>4. PICK f : f = [o EXCEPT !.ctl = y]
  OBVIOUS
<1>5. f \in Outcome /\ f.ctl = y /\ f.told = o.told /\ f.frames = o.frames
  BY <1>1, <1>3, <1>4, ControlFields
<1>6. [o EXCEPT !.ctl.context = b] = f
  BY <1>1, <1>2, <1>4 DEF Outcome
<1>7. Fine(f, u)
  BY <1>3, <1>5 DEF Fine, Sound
<1> QED
  BY <1>6, <1>7

-----------------------------------------------------------------------------
(* Operations that greet nobody. *)

\* close() tells its caller.
LEMMA CloseSound ==
  ASSUME Types, SoundPhones, NEW p \in Phone, Close(p)
  PROVE  SoundPhones'
<1>1. PICK u : u = Unchanged(p)
  OBVIOUS
<1>2. Begins(u, p)
  BY <1>1, StartBegins
<1>3. Fine(Closing(p), u)
  BY <1>1, <1>2, ClosingFine DEF Begins
<1>4. Performs(p, Closing(p), 0) /\ QueueFree(p)
  BY DEF Close, ApiFree
<1>5. 0 \notin Conn
  BY DEF Conn
<1> QED
  BY <1>2, <1>3, <1>4, <1>5, FineStep

\* deactivate() as well.
LEMMA DeactivateSound ==
  ASSUME Types, SoundPhones, NEW p \in Phone, Deactivate(p)
  PROVE  SoundPhones'
<1>1. PICK u : u = Unchanged(p)
  OBVIOUS
<1>2. Begins(u, p)
  BY <1>1, StartBegins
<1>3. PICK o : o = Closing(p)
  OBVIOUS
<1>4. Fine(o, u)
  BY <1>1, <1>2, <1>3, ClosingFine DEF Begins
<1>5. PICK g : g = [o EXCEPT !.ctl.context = FALSE]
  OBVIOUS
<1>6. Fine(g, u)
  BY <1>4, <1>5, ContextFine
<1>7. Performs(p, g, 0) /\ QueueFree(p)
  BY <1>3, <1>5 DEF Deactivate, ApiFree
<1>8. 0 \notin Conn
  BY DEF Conn
<1> QED
  BY <1>2, <1>6, <1>7, <1>8, FineStep

\* activate() finds no session.
LEMMA ActivateSound ==
  ASSUME Types, SoundPhones, NEW p \in Phone, Activate(p)
  PROVE  SoundPhones'
<1>1. PICK u : u = Unchanged(p)
  OBVIOUS
<1>2. Begins(u, p)
  BY <1>1, StartBegins
<1>3. Fine(u, u)
  BY <1>2 DEF Begins, Fine
<1>4. PICK g : g = [u EXCEPT !.ctl.context = TRUE]
  OBVIOUS
<1>5. Fine(g, u)
  BY <1>3, <1>4, ContextFine
<1>6. Performs(p, g, 0) /\ QueueFree(p)
  BY <1>1, <1>4 DEF Activate, ApiFree
<1>7. 0 \notin Conn
  BY DEF Conn
<1> QED
  BY <1>2, <1>5, <1>6, <1>7, FineStep

\* The handshake did not come in time.
LEMMA HandshakeTimeoutSound ==
  ASSUME Types, SoundPhones, NEW p \in Phone, HandshakeTimeout(p)
  PROVE  SoundPhones'
<1>1. PICK u : u = Unchanged(p)
  OBVIOUS
<1>2. Begins(u, p)
  BY <1>1, StartBegins
<1>3. PICK g : g = RefuseHandshake(u)
  OBVIOUS
<1>4. Fine(g, u)
  BY <1>2, <1>3, RefuseFine DEF Begins
<1>5. Performs(p, g, 0) /\ QueueFree(p)
  BY <1>1, <1>3 DEF HandshakeTimeout, TimeoutOutcome
<1>6. 0 \notin Conn
  BY DEF Conn
<1> QED
  BY <1>2, <1>4, <1>5, <1>6, FineStep

\* The interrupted session did not come back.
LEMMA RunFailReconnectSound ==
  ASSUME Types, SoundPhones, NEW p \in Phone, RunFailReconnect(p)
  PROVE  SoundPhones'
<1>1. PICK u : u = Dequeued(p)
  OBVIOUS
<1>2. Begins(u, p)
  BY <1>1, DequeuedBegins DEF RunFailReconnect
<1>3. PICK g : g = FailReconnect(u)
  OBVIOUS
<1>4. Fine(g, u)
  BY <1>2, <1>3, FailFine DEF Begins
<1>5. Performs(p, g, 0) /\ QueueFree(p)
  BY <1>1, <1>3 DEF RunFailReconnect, FailOutcome
<1>6. 0 \notin Conn
  BY DEF Conn
<1> QED
  BY <1>2, <1>4, <1>5, <1>6, FineStep

-----------------------------------------------------------------------------
(* Operations that change the active connection. *)

\* A session that authenticates is the one the subscribers are told of.
LEMMA AnnounceSound ==
  ASSUME NEW o \in Outcome, NEW s \in SessionOrNone,
         o.ctl.active.keyed, o.ctl.active.sessionId = s
  PROVE  LET g == Announce(o, s) IN
         /\ g \in Outcome /\ Sound(g.ctl, g.told) /\ g.frames = o.frames
         /\ g.ctl.active = o.ctl.active /\ g.ctl.resumeRole \in {"none", o.ctl.resumeRole}
<1>1. PICK r : r = ClearReconnectState(o)
  OBVIOUS
<1>2. /\ r \in Outcome /\ r.frames = o.frames /\ r.ctl.active = o.ctl.active
      /\ r.ctl.resumeSessionId = 0 /\ r.ctl.resumeRole = "none"
  BY <1>1, ClearFields
<1>3. PICK e : e = Emit(r, "reconnected", s)
  OBVIOUS
<1>4. e \in Outcome /\ e.ctl = r.ctl /\ e.frames = r.frames /\ e.told = s
  BY <1>2, <1>3, EmitFields DEF News
<1>5. PICK f : f = Emit(o, "authenticated", s)
  OBVIOUS
<1>6. f \in Outcome /\ f.ctl = o.ctl /\ f.frames = o.frames /\ f.told = s
  BY <1>5, EmitFields DEF News
<1>7. Announce(o, s) = IF o.ctl.resumeSessionId # 0 THEN e ELSE f
  BY <1>1, <1>3, <1>5 DEF Announce
<1>8. Sound(e.ctl, e.told)
  BY <1>2, <1>4 DEF Sound
<1>9. o.ctl.resumeSessionId = 0 => Sound(f.ctl, f.told)
  BY <1>6 DEF Sound
<1> QED
  BY <1>2, <1>4, <1>6, <1>7, <1>8, <1>9

\* connect() hears nothing of the connection that it dials, but its end.
LEMMA HearsNothing ==
  ASSUME Types, Links, SoundPhones, NEW p \in Phone, NEW c \in Conn,
         ctl[p].active.connectionId = c, Len(inbox[p][c]) > 0, inbox[p][c][1] \notin Last
  PROVE  ~Asking(opening[p])
<1> SUFFICES ASSUME Asking(opening[p]) PROVE FALSE
  OBVIOUS
<1>1. c # 0 /\ inbox[p][c] \in Seq(Event)
  BY EndTypes DEF Conn
<1>2. Alone(ctl[p], told[p], opening[p])
  BY DEF SoundPhones, SoundPhone
<1>3. IsEarly(opening[p], "connect", c) /\ "connect" \in Caller
  BY <1>1, <1>2 DEF Alone, Asking, IsEarly, Caller
<1>4. c \in 1..lastConn
  BY <1>3, EarlyAlone
<1>5. PICK d \in Phone, s \in Session : LinkOf(c, d, Other(d), s)
  <2>1. ~(c > lastConn)
    BY <1>4, EndTypes
  <2> QED
    BY <2>1 DEF Links
<1>6. d = p
  BY <1>3, <1>5, EarlyDials
<1>7. Void(inbox[p][c])
  BY <1>3, <1>5, <1>6 DEF LinkOf, Link, DiallerOK
<1>8. 1 \in 1..Len(inbox[p][c])
  BY <1>1
<1> QED
  BY <1>7, <1>8 DEF Void

\* A phone whose user asks is not dialled when nobody else asks.
LEMMA AskerNotDialled ==
  ASSUME OneAsks, SoundPhones, NEW p \in Phone, NEW w \in Caller, opening[p][w].step # "none"
  PROVE  p \in Requesters /\ Undialled(knocks[p], inbox[p])
<1>1. SoundPhone(p, ctl[p], told[p], opening[p], knocks[p], inbox[p])
  BY DEF SoundPhones
<1>2. p \in Requesters
  BY <1>1 DEF SoundPhone, Passive
<1>3. Other(p) \notin Requesters
  BY <1>2, TwoPhones DEF OneAsks
<1> QED
  BY <1>1, <1>2, <1>3 DEF SoundPhone

\* A connection that is taken is no session yet.
LEMMA ConnectedSound ==
  ASSUME OneAsks, Types, Links, SoundPhones, NEW p \in Phone, NEW c \in Conn, QueueFree(p),
         Len(inbox[p][c]) > 0, inbox[p][c][1] = Connected,
         NEW u, u = Unchanged(p), NEW o, o = HandleConnected(u, c), Performs(p, o, c)
  PROVE  SoundPhones'
<1>1. Begins(u, p) /\ u \in Outcome /\ u.ctl = ctl[p]
  BY StartBegins DEF Begins
<1>2. PICK y : y = [ctl[p] EXCEPT !.active = NewActive(c, "responder", ctl[p].resumeSessionId, FALSE)]
  OBVIOUS
<1>3. PICK refused : refused = (~ctl[p].context \/ ctl[p].active.connectionId # 0 \/ ctl[p].resumeRole = "initiator")
  OBVIOUS
<1>4. o = IF refused THEN [u EXCEPT !.drop = {c}] ELSE [u EXCEPT !.ctl = y]
  BY <1>1, <1>2, <1>3 DEF HandleConnected, Outcome
<1>5. CASE refused
  <2>1. PICK g : g = [u EXCEPT !.drop = {c}]
    OBVIOUS
  <2>2. g \in Outcome /\ g.ctl = u.ctl /\ g.told = u.told /\ g.frames = u.frames
    BY <1>1, <2>1 DEF Outcome, Conn
  <2>3. Fine(g, u)
    BY <1>1, <2>2 DEF Begins, Fine
  <2>4. Performs(p, g, c)
    BY <1>4, <1>5, <2>1
  <2> QED
    BY <1>1, <2>3, <2>4, FineStep
<1>6. CASE ~refused
  <2>1. PICK a2 : a2 = NewActive(c, "responder", ctl[p].resumeSessionId, FALSE)
    OBVIOUS
  <2>2. /\ a2.keyed = FALSE /\ a2.role = "responder"
    BY <2>1 DEF NewActive, NoActive
  <2>3. a2 \in Active
    <3>1. ctl[p].resumeSessionId \in Nat /\ c \in Nat
      BY EndTypes DEF Control, Conn
    <3> QED
      BY <2>1, <3>1 DEF NewActive, NoActive, Active, Role
  <2>4. /\ y \in Control /\ y.active = a2
        /\ y.resumeSessionId = ctl[p].resumeSessionId /\ y.resumeRole = ctl[p].resumeRole
    <3>1. ctl[p] \in Control
      BY EndTypes
    <3> QED
      BY <1>2, <2>1, <2>3, <3>1 DEF Control
  <2>5. PICK g : g = [u EXCEPT !.ctl = y]
    OBVIOUS
  <2>6. g \in Outcome /\ g.ctl = y /\ g.told = u.told /\ g.frames = u.frames
    BY <1>1, <2>4, <2>5, ControlFields
  <2>7. ~ctl[p].active.keyed
    <3>1. ctl[p].active = NoActive
      BY <1>3, <1>6, EndTypes DEF ActiveOK
    <3> QED
      BY <3>1 DEF NoActive
  <2>8. Sound(g.ctl, g.told)
    BY <1>1, <2>2, <2>4, <2>6, <2>7 DEF Begins, Sound
  <2>9. ~Asking(opening[p])
    <3>1. ~NoConnected(inbox[p][c])
      <4>1. 1 \in 1..Len(inbox[p][c])
        BY EndTypes
      <4> QED
        BY <4>1 DEF NoConnected
    <3>2. ~Undialled(knocks[p], inbox[p])
      BY <3>1 DEF Undialled
    <3>3. opening[p]["connect"].step = "none"
      BY <3>2, AskerNotDialled DEF Caller
    <3> QED
      BY <3>3 DEF Asking, Early
  <2>10. p \notin Requesters => g.ctl.resumeRole # "initiator" /\ g.ctl.active.role # "initiator"
    BY <2>2, <2>4, <2>6 DEF SoundPhones, SoundPhone, Passive
  <2>11. NoConnected(g.frames)
    BY <1>1, <2>6 DEF Begins, NoConnected
  <2>12. Performs(p, g, c)
    BY <1>4, <1>6, <2>5
  <2> QED
    BY <2>6, <2>8, <2>9, <2>10, <2>11, <2>12, PerformsSound
<1> QED
  BY <1>3, <1>5, <1>6

\* An operation that announces session s on the active connection of p.
LEMMA AnnouncedSound ==
  ASSUME Types, Links, SoundPhones, NEW p \in Phone, NEW c \in Conn, QueueFree(p),
         Len(inbox[p][c]) > 0, inbox[p][c][1] \notin Last, ctl[p].active.connectionId = c,
         NEW s \in SessionOrNone, NEW w \in Outcome, w.ctl.active.keyed, w.ctl.active.sessionId = s,
         w.ctl.active.role = ctl[p].active.role, w.ctl.resumeRole = ctl[p].resumeRole,
         NoConnected(w.frames),
         NEW o, o = Announce(w, s), Performs(p, o, c)
  PROVE  SoundPhones'
<1>1. /\ o \in Outcome /\ Sound(o.ctl, o.told) /\ o.frames = w.frames
      /\ o.ctl.active = w.ctl.active /\ o.ctl.resumeRole \in {"none", w.ctl.resumeRole}
  BY AnnounceSound
<1>2. ~Asking(opening[p])
  BY HearsNothing
<1>3. p \notin Requesters => o.ctl.resumeRole # "initiator" /\ o.ctl.active.role # "initiator"
  BY <1>1 DEF SoundPhones, SoundPhone, Passive
<1>4. NoConnected(o.frames)
  BY <1>1
<1> QED
  BY <1>1, <1>2, <1>3, <1>4, PerformsSound

\* A hello1 is accepted.
LEMMA AnswerSound ==
  ASSUME Types, Links, SoundPhones, NEW p \in Phone, NEW c \in Conn, QueueFree(p),
         Len(inbox[p][c]) > 0, ctl[p].active.connectionId = c,
         NEW e, e = inbox[p][c][1], e.kind = "hello1", native[p] = c,
         NEW u, u = Unchanged(p), NEW o, o = AcceptHello1(u, p, e), Performs(p, o, c)
  PROVE  SoundPhones'
<1>1. /\ u \in Outcome /\ u.ctl = ctl[p]
  BY StartIs
<1>2. PICK a : a = ctl[p].active
  OBVIOUS
<1>3. ctl[p] \in Control /\ a \in Active /\ c \in Nat
  BY <1>2, EndTypes DEF Conn
<1>4. PICK t : t = e.sessionId
  OBVIOUS
<1>5. t \in SessionOrNone /\ t \in Nat
  <2>1. inbox[p][c] \in Seq(Event)
    BY EndTypes
  <2>2. 1 \in 1..Len(inbox[p][c])
    BY <2>1
  <2>3. e \in Event
    BY <2>1, <2>2
  <2>4. e \in [kind : {"hello1", "hello2"}, sessionId : SessionOrNone]
    BY <2>3 DEF Event
  <2> QED
    BY <1>4, <2>4, Bounds DEF SessionOrNone
<1>6. PICK a2 : a2 = [a EXCEPT !.sessionId = t, !.keyed = TRUE]
  OBVIOUS
<1>7. /\ a2 \in Active /\ a2.connectionId = c /\ a2.keyed /\ a2.role = a.role /\ a2.sessionId = t
  BY <1>2, <1>3, <1>5, <1>6 DEF Active
<1>8. PICK y : y = [ctl[p] EXCEPT !.active = a2]
  OBVIOUS
<1>9. y \in Control /\ y.active = a2 /\ y.resumeRole = ctl[p].resumeRole
  BY <1>3, <1>7, <1>8 DEF Control
<1>10. PICK f : f = <<Hello2(t)>>
  OBVIOUS
<1>11. f \in Seq(Event) /\ NoConnected(f)
  <2>1. Hello2(t) \in Event
    BY <1>5 DEF Hello2, Event
  <2>2. Hello2(t) # Connected
    BY Kinds
  <2>3. Len(f) = 1 /\ f[1] = Hello2(t)
    BY <1>10
  <2> QED
    BY <1>10, <2>1, <2>2, <2>3 DEF NoConnected
<1>12. PICK v : v = [u EXCEPT !.ctl = y]
  OBVIOUS
<1>13. v \in Outcome /\ v.ctl = y
  BY <1>1, <1>9, <1>12, ControlFields
<1>14. PICK w : w = [v EXCEPT !.wire = c, !.frames = f]
  OBVIOUS
<1>15. /\ w \in Outcome /\ w.ctl = y /\ w.frames = f
  BY <1>3, <1>11, <1>13, <1>14 DEF Outcome
<1>16. o = Announce(w, t)
  <2>1. Answered(p, u, a, a2, e, v)
    BY <1>1, <1>2, <1>3, <1>4, <1>6, <1>8, <1>12, Zenon DEF Answered
  <2>2. AcceptHello1(u, p, e) = Announce(Sends(v, Hello2(e.sessionId)), e.sessionId)
    BY <2>1, AnswerIs
  <2>3. Sends(v, Hello2(e.sessionId)) = w
    BY <1>4, <1>7, <1>9, <1>10, <1>13, <1>14 DEF Sends
  <2> QED
    BY <1>4, <2>2, <2>3, Zenon
<1>17. /\ w.ctl.active.keyed /\ w.ctl.active.sessionId = t
       /\ w.ctl.active.role = ctl[p].active.role /\ w.ctl.resumeRole = ctl[p].resumeRole
       /\ NoConnected(w.frames)
  BY <1>2, <1>7, <1>9, <1>11, <1>15
<1>18. inbox[p][c][1] \notin Last
  BY Kinds
<1> QED
  BY <1>5, <1>15, <1>16, <1>17, <1>18, AnnouncedSound

\* A hello2 is accepted.
LEMMA KeySound ==
  ASSUME Types, Links, SoundPhones, NEW p \in Phone, NEW c \in Conn, QueueFree(p),
         Len(inbox[p][c]) > 0, inbox[p][c][1] \notin Last, ctl[p].active.connectionId = c,
         NEW u, u = Unchanged(p), NEW o, o = AcceptHello2(u), Performs(p, o, c)
  PROVE  SoundPhones'
<1>1. /\ u \in Outcome /\ u.ctl = ctl[p] /\ u.connect = "pending" /\ u.frames = <<>>
  BY StartIs
<1>2. PICK a : a = ctl[p].active
  OBVIOUS
<1>3. ctl[p] \in Control /\ a \in Active /\ a.sessionId \in SessionOrNone
  BY <1>2, EndTypes DEF ActiveOK
<1>4. PICK a2 : a2 = [a EXCEPT !.keyed = TRUE, !.awaited = FALSE]
  OBVIOUS
<1>5. a2 \in Active /\ a2.keyed /\ a2.role = a.role /\ a2.sessionId = a.sessionId
  BY <1>3, <1>4 DEF Active
<1>6. PICK y : y = [ctl[p] EXCEPT !.active = a2]
  OBVIOUS
<1>7. y \in Control /\ y.active = a2 /\ y.resumeRole = ctl[p].resumeRole
  BY <1>3, <1>5, <1>6 DEF Control
<1>8. PICK g : g = IF a.awaited THEN "resolve" ELSE "pending"
  OBVIOUS
<1>9. PICK w : w = [u EXCEPT !.ctl = y, !.connect = g]
  OBVIOUS
<1>10. w \in Outcome /\ w.ctl = y /\ w.frames = <<>>
  BY <1>1, <1>7, <1>8, <1>9 DEF Outcome
<1>11. o = Announce(w, a.sessionId)
  <2>1. KeyedBy(u, a, a2, g, w)
    BY <1>1, <1>2, <1>3, <1>4, <1>6, <1>8, <1>9, Zenon DEF KeyedBy
  <2> QED
    BY <2>1, KeyIs
<1>12. PICK s : s = a.sessionId
  OBVIOUS
<1>13. /\ w.ctl.active.keyed /\ w.ctl.active.sessionId = s /\ s \in SessionOrNone
       /\ w.ctl.active.role = ctl[p].active.role /\ w.ctl.resumeRole = ctl[p].resumeRole
       /\ NoConnected(w.frames) /\ o = Announce(w, s)
  BY <1>2, <1>3, <1>5, <1>7, <1>10, <1>11, <1>12 DEF NoConnected
<1> QED
  BY <1>10, <1>13, AnnouncedSound

\* An operation whose outcome differs from what there was in the counters of
\* the active connection only.
LEMMA CountsSound ==
  ASSUME Types, SoundPhones, NEW p \in Phone, NEW o \in Outcome, NEW d, Performs(p, o, d),
         QueueFree(p), d \in Conn => Len(inbox[p][d]) > 0, NoConnected(o.frames),
         ctl[p].active.keyed, o.ctl.active.keyed, o.ctl.active.role = ctl[p].active.role,
         o.ctl.active.sessionId = ctl[p].active.sessionId, o.told = told[p],
         o.ctl.resumeSessionId = ctl[p].resumeSessionId, o.ctl.resumeRole = ctl[p].resumeRole
  PROVE  SoundPhones'
<1>1. SoundPhone(p, ctl[p], told[p], opening[p], knocks[p], inbox[p])
  BY DEF SoundPhones
<1>2. Sound(o.ctl, o.told)
  BY <1>1 DEF SoundPhone, Sound
<1>3. ~Asking(opening[p])
  BY <1>1 DEF SoundPhone, Alone
<1>4. p \notin Requesters => o.ctl.resumeRole # "initiator" /\ o.ctl.active.role # "initiator"
  BY <1>1 DEF SoundPhone, Passive
<1> QED
  BY <1>2, <1>3, <1>4, PerformsSound

\* A sealed message is accepted.
LEMMA ReadSound ==
  ASSUME Types, SoundPhones, NEW p \in Phone, NEW c \in Conn, QueueFree(p), Len(inbox[p][c]) > 0,
         NEW e, e = inbox[p][c][1], e.kind = "sealed", ctl[p].active.keyed,
         NEW u, u = Unchanged(p),
         NEW o, o = [u EXCEPT !.ctl.active.lastSequence = e.sequence,
                              !.emit = Append(@, [type |-> "message", sessionId |-> e.sessionId,
                                                  body |-> e.body])],
         Performs(p, o, c)
  PROVE  SoundPhones'
<1>1. /\ u \in Outcome /\ u.ctl = ctl[p] /\ u.frames = <<>> /\ u.emit \in Seq(Notice)
  BY StartIs
<1>2. u.told = told[p]
  BY DEF Unchanged
<1>3. PICK a : a = ctl[p].active
  OBVIOUS
<1>4. ctl[p] \in Control /\ a \in Active /\ a.keyed
  BY <1>3, EndTypes
<1>5. PICK n : n = e.sequence
  OBVIOUS
<1>6. e.sessionId \in SessionOrNone /\ e.body \in Body /\ n \in Nat
  <2>1. inbox[p][c] \in Seq(Event)
    BY EndTypes
  <2>2. 1 \in 1..Len(inbox[p][c])
    BY <2>1
  <2>3. e \in Event
    BY <2>1, <2>2
  <2>4. e \in [kind : {"sealed"}, sessionId : SessionOrNone, sequence : Nat, body : Body]
    BY <2>3 DEF Event
  <2> QED
    BY <1>5, <2>4
<1>7. PICK a2 : a2 = [a EXCEPT !.lastSequence = n]
  OBVIOUS
<1>8. /\ a2 \in Active /\ a2.keyed /\ a2.role = a.role /\ a2.sessionId = a.sessionId
  BY <1>4, <1>6, <1>7 DEF Active
<1>9. PICK y : y = [ctl[p] EXCEPT !.active = a2]
  OBVIOUS
<1>10. /\ y \in Control /\ y.active = a2
       /\ y.resumeSessionId = ctl[p].resumeSessionId /\ y.resumeRole = ctl[p].resumeRole
  BY <1>4, <1>8, <1>9 DEF Control
<1>11. PICK m : m = Append(u.emit, [type |-> "message", sessionId |-> e.sessionId, body |-> e.body])
  OBVIOUS
<1>12. m \in Seq(Notice)
  <2>1. [type |-> "message", sessionId |-> e.sessionId, body |-> e.body] \in Notice
    BY <1>6 DEF Notice
  <2> QED
    BY <1>1, <1>11, <2>1
<1>13. PICK w : w = [u EXCEPT !.ctl = y, !.emit = m]
  OBVIOUS
<1>14. o = w
  <2>1. o = [u EXCEPT !.ctl.active.lastSequence = n, !.emit = m]
    BY <1>5, <1>11, Zenon
  <2>2. [u EXCEPT !.ctl.active.lastSequence = n, !.emit = m]
          = [u EXCEPT !.ctl = [ctl[p] EXCEPT !.active = [a EXCEPT !.lastSequence = n]], !.emit = m]
    BY <1>1, <1>3, <1>4, ReadFields, Zenon
  <2> QED
    BY <1>7, <1>9, <1>13, <2>1, <2>2, Zenon
<1>15. /\ w \in Outcome /\ w.ctl = y /\ w.told = told[p] /\ w.frames = <<>>
  BY <1>1, <1>2, <1>10, <1>12, <1>13 DEF Outcome
<1>16. NoConnected(w.frames) /\ Performs(p, w, c)
  BY <1>14, <1>15 DEF NoConnected
<1>17. /\ w.ctl.active.keyed /\ w.ctl.active.role = ctl[p].active.role
       /\ w.ctl.active.sessionId = ctl[p].active.sessionId
       /\ w.ctl.resumeSessionId = ctl[p].resumeSessionId /\ w.ctl.resumeRole = ctl[p].resumeRole
  BY <1>3, <1>8, <1>10, <1>15
<1> QED
  BY <1>15, <1>16, <1>17, CountsSound

\* A message goes out, or the dead connection is found and resumed.
LEMMA SendSound ==
  ASSUME Types, SoundPhones, NEW p \in Phone, NEW body \in Body, Send(p, body)
  PROVE  SoundPhones'
<1>1. PICK a : a = ctl[p].active
  OBVIOUS
<1>2. PICK k : k = a.connectionId
  OBVIOUS
<1>3. /\ ctl[p] \in Control /\ a \in Active /\ a.keyed /\ a.sessionId \in SessionOrNone /\ k \in Nat
  BY <1>1, <1>2, EndTypes DEF Send, ActiveOK, Active
<1>4. PICK n : n = a.nextSendSequence + 1
  OBVIOUS
<1>5. PICK a2 : a2 = [a EXCEPT !.nextSendSequence = n]
  OBVIOUS
<1>6. /\ a2 \in Active /\ a2.connectionId = k /\ a2.keyed /\ a2.role = a.role
      /\ a2.sessionId = a.sessionId
  BY <1>2, <1>3, <1>4, <1>5 DEF Active
<1>7. PICK y : y = [ctl[p] EXCEPT !.active = a2]
  OBVIOUS
<1>8. /\ y \in Control /\ y.active = a2
      /\ y.resumeSessionId = ctl[p].resumeSessionId /\ y.resumeRole = ctl[p].resumeRole
  BY <1>3, <1>6, <1>7 DEF Control
<1>9. PICK v : v = Unchanged(p)
  OBVIOUS
<1>10. v \in Outcome /\ v.ctl = ctl[p] /\ v.frames = <<>> /\ v.told = told[p] /\ Begins(v, p)
  BY <1>9, StartBegins DEF Begins
<1>11. PICK u : u = [v EXCEPT !.ctl = y]
  OBVIOUS
<1>12. u \in Outcome /\ u.ctl = y /\ u.frames = <<>> /\ u.told = told[p]
  BY <1>8, <1>10, <1>11, ControlFields
<1>13. u = [Unchanged(p) EXCEPT !.ctl.active.nextSendSequence = @ + 1]
  BY <1>1, <1>3, <1>4, <1>5, <1>7, <1>9, <1>10, <1>11 DEF Outcome, Control, Active
<1>14. PICK f : f = <<Sealed(a.sessionId, a.nextSendSequence, body)>>
  OBVIOUS
<1>15. PICK w : w = [u EXCEPT !.wire = k, !.frames = f]
  OBVIOUS
<1>16. Sending(p, body) = IF native[p] = k THEN w ELSE BeginReconnect(u, a)
  BY <1>1, <1>2, <1>6, <1>8, <1>12, <1>13, <1>14, <1>15 DEF Sending, Sends
<1>17. Performs(p, Sending(p, body), 0) /\ QueueFree(p) /\ 0 \notin Conn
  BY DEF Send, ApiFree, Conn
<1>18. CASE native[p] = k
  <2>1. f \in Seq(Event) /\ NoConnected(f)
    <3>1. PICK e : e = Sealed(a.sessionId, a.nextSendSequence, body)
      OBVIOUS
    <3>2. e \in Event /\ e.kind = "sealed"
      BY <1>3, <3>1 DEF Sealed, Event, Active
    <3>3. e # Connected
      BY <3>2, Kinds
    <3>4. f = <<e>> /\ Len(<<e>>) = 1 /\ <<e>>[1] = e
      BY <1>14, <3>1
    <3> QED
      BY <3>2, <3>3, <3>4 DEF NoConnected
  <2>2. w \in Outcome /\ w.ctl = y /\ w.frames = f /\ w.told = told[p]
    BY <1>3, <1>12, <1>15, <2>1 DEF Outcome
  <2>3. Performs(p, w, 0)
    BY <1>16, <1>17, <1>18
  <2>4. /\ ctl[p].active.keyed /\ w.ctl.active.keyed /\ w.ctl.active.role = ctl[p].active.role
        /\ w.ctl.active.sessionId = ctl[p].active.sessionId
        /\ w.ctl.resumeSessionId = ctl[p].resumeSessionId /\ w.ctl.resumeRole = ctl[p].resumeRole
        /\ NoConnected(w.frames)
    BY <1>1, <1>3, <1>6, <1>8, <2>1, <2>2
  <2> QED
    BY <1>17, <2>2, <2>3, <2>4, CountsSound
<1>19. CASE native[p] # k
  <2>1. PICK g : g = BeginReconnect(u, a)
    OBVIOUS
  <2>2. Sound(u.ctl, u.told)
    BY <1>1, <1>3, <1>6, <1>8, <1>10, <1>12 DEF Begins, Sound
  <2>3. Fine(g, u)
    BY <1>2, <1>3, <1>6, <1>8, <1>12, <2>1, <2>2, BeginFine
  <2>4. Performs(p, g, 0)
    BY <1>16, <1>17, <1>19, <2>1
  <2>5. SoundPhone(p, ctl[p], told[p], opening[p], knocks[p], inbox[p])
    BY DEF SoundPhones
  <2>6. NoActive.role = "none"
    BY DEF NoActive
  <2>7. p \notin Requesters => g.ctl.resumeRole # "initiator" /\ g.ctl.active.role # "initiator"
    BY <1>1, <1>6, <1>8, <1>12, <2>3, <2>5, <2>6 DEF Fine, SoundPhone, Passive
  <2>8. ~Asking(opening[p])
    BY <1>1, <1>3, <2>5 DEF SoundPhone, Alone
  <2>9. g \in Outcome /\ Sound(g.ctl, g.told) /\ NoConnected(g.frames)
    BY <1>12, <2>3 DEF Fine, NoConnected
  <2> QED
    BY <1>17, <2>4, <2>7, <2>8, <2>9, PerformsSound
<1> QED
  BY <1>18, <1>19

\* A transport event is handled.
LEMMA TransportEventSound ==
  ASSUME OneAsks, Types, Links, SoundPhones, NEW p \in Phone, NEW c \in Conn, TransportEvent(p, c)
  PROVE  SoundPhones'
<1>1. PICK x : x = inbox[p][c]
  OBVIOUS
<1>2. x \in Seq(Event) /\ x # <<>> /\ QueueFree(p)
  BY <1>1, EndTypes DEF TransportEvent
<1>3. Len(inbox[p][c]) > 0 /\ Head(inbox[p][c]) = inbox[p][c][1]
  BY <1>1, <1>2
<1>4. PICK e : e = inbox[p][c][1]
  OBVIOUS
<1>5. PICK u : u = Unchanged(p)
  OBVIOUS
<1>6. PICK o : o = HandleTransportEvent(u, p, c, e)
  OBVIOUS
<1>7. Performs(p, o, c)
  BY <1>3, <1>4, <1>5, <1>6 DEF TransportEvent, EventOutcome
<1>8. PICK a : a = ctl[p].active
  OBVIOUS
<1>9. Begins(u, p) /\ u.ctl = ctl[p] /\ u.ctl.active = a
  BY <1>5, <1>8, StartBegins
<1>10. u \in Outcome /\ Sound(u.ctl, u.told) /\ u.ctl.active.sessionId \in SessionOrNone
  BY <1>9 DEF Begins
<1>11. e \in Event
  <2>1. 1 \in 1..Len(x) /\ e = x[1]
    BY <1>1, <1>2, <1>3, <1>4
  <2> QED
    BY <1>2, <2>1
<1>12. ASSUME Fine(o, u) PROVE SoundPhones'
  BY <1>2, <1>3, <1>7, <1>9, <1>12, FineStep
<1>13. CASE e.kind = "connected"
  <2>1. o = HandleConnected(u, c)
    BY <1>6, <1>13 DEF HandleTransportEvent
  <2>2. inbox[p][c][1] = Connected
    <3>1. e \in [kind : {"connected", "closed", "error"}]
      BY <1>11, <1>13 DEF Event
    <3> QED
      BY <1>4, <1>13, <3>1 DEF Connected
  <2> QED
    BY <1>2, <1>3, <1>5, <1>7, <2>1, <2>2, ConnectedSound
<1>14. CASE e.kind # "connected" /\ a.connectionId # c
  <2>1. o = u
    BY <1>6, <1>9, <1>14 DEF HandleTransportEvent
  <2>2. Fine(u, u)
    BY <1>10 DEF Fine
  <2> QED
    BY <1>12, <2>1, <2>2
<1>15. CASE a.connectionId = c /\ e.kind = "closed"
  <2>1. o = HandleClosed(u)
    BY <1>6, <1>9, <1>15 DEF HandleTransportEvent
  <2>2. Fine(HandleClosed(u), u)
    BY <1>10, ClosedFine
  <2> QED
    BY <1>12, <2>1, <2>2
<1>16. CASE a.connectionId = c /\ e.kind = "error"
  <2>1. o = HandleError(u)
    BY <1>6, <1>9, <1>16 DEF HandleTransportEvent
  <2>2. Fine(HandleError(u), u)
    BY <1>10, ErrorFine
  <2> QED
    BY <1>12, <2>1, <2>2
<1>17. CASE a.connectionId = c /\ e.kind \notin {"connected", "closed", "error"}
  <2>1. o = HandleFrame(u, p, e)
    BY <1>6, <1>9, <1>17 DEF HandleTransportEvent
  <2>2. u.ctl.context
    <3>1. ctl[p].context
      BY <1>8, <1>17, EndTypes DEF PhoneOK, ControlOK, Conn
    <3> QED
      BY <1>9, <3>1
  <2>3. ctl[p].active.connectionId = c /\ inbox[p][c][1] \notin Last
    BY <1>4, <1>8, <1>17, Kinds
  <2>4. ASSUME HandleFrame(u, p, e) = RefuseHandshake(u) PROVE SoundPhones'
    <3>1. Fine(RefuseHandshake(u), u)
      BY <1>10, RefuseFine
    <3> QED
      BY <1>12, <2>1, <2>4, <3>1
  <2>5. CASE ~u.ctl.active.keyed /\ ~Handshakes(u.ctl, e)
    <3>1. HandleFrame(u, p, e) = RefuseHandshake(u)
      BY <2>2, <2>5, FrameIs, Zenon
    <3> QED
      BY <2>4, <3>1
  <2>6. CASE ~u.ctl.active.keyed /\ Handshakes(u.ctl, e) /\ e.kind = "hello1"
    <3>1. HandleFrame(u, p, e) = AcceptHello1(u, p, e)
      BY <2>2, <2>6, Zenon DEF HandleFrame
    <3>2. CASE native[p] # c
      <4>1. AcceptHello1(u, p, e) = RefuseHandshake(u)
        BY <1>9, <1>17, <3>2 DEF AcceptHello1
      <4> QED
        BY <2>4, <3>1, <4>1
    <3>3. CASE native[p] = c
      <4>1. o = AcceptHello1(u, p, e)
        BY <2>1, <3>1
      <4> QED
        BY <1>2, <1>3, <1>4, <1>5, <1>7, <2>3, <2>6, <3>3, <4>1, AnswerSound
    <3> QED
      BY <3>2, <3>3
  <2>7. CASE ~u.ctl.active.keyed /\ Handshakes(u.ctl, e) /\ e.kind # "hello1"
    <3>1. o = AcceptHello2(u)
      BY <2>1, <2>2, <2>7, FrameIs, Zenon
    <3> QED
      BY <1>2, <1>3, <1>5, <1>7, <2>3, <3>1, KeySound
  <2>8. CASE u.ctl.active.keyed /\ ~Validates(u.ctl, e)
    <3>1. HandleFrame(u, p, e) = CloseActive(Emit(u, "error", 0))
      BY <2>2, <2>8, FrameIs, Zenon
    <3>2. Fine(CloseActive(Emit(u, "error", 0)), u)
      BY <1>10, ReportFine
    <3> QED
      BY <1>12, <2>1, <3>1, <3>2
  <2>9. CASE u.ctl.active.keyed /\ Validates(u.ctl, e)
    <3>1. o = [u EXCEPT !.ctl.active.lastSequence = e.sequence,
                        !.emit = Append(@, [type |-> "message", sessionId |-> e.sessionId,
                                            body |-> e.body])]
      BY <2>1, <2>2, <2>9, FrameIs, Zenon
    <3>2. e.kind = "sealed"
      BY <2>9 DEF Validates
    <3>3. ctl[p].active.keyed
      BY <1>8, <1>9, <2>9
    <3> QED
      BY <1>2, <1>3, <1>4, <1>5, <1>7, <3>1, <3>2, <3>3, ReadSound, Zenon
  <2> QED
    BY <2>5, <2>6, <2>7, <2>8, <2>9
<1> QED
  BY <1>13, <1>14, <1>15, <1>16, <1>17

-----------------------------------------------------------------------------
(* Steps that change one phone's own fields. *)

\* A step of p's fields and calls alone.
LEMMA OwnSound ==
  ASSUME Types, SoundPhones, NEW p \in Phone, NEW y, ctl' = [ctl EXCEPT ![p] = y],
         NEW l, opening' = [opening EXCEPT ![p] = l],
         told' = told, knocks' = knocks, inbox' = inbox,
         Sound(y, told[p]), Alone(y, told[p], l), p \notin Requesters => Passive(y, l)
  PROVE  SoundPhones'
<1>1. Domains
  BY DEF Types, Domains
<1>2. ctl'[p] = y /\ opening'[p] = l
  BY <1>1 DEF Domains
<1>3. \A q \in Phone \ {p} : ctl'[q] = ctl[q] /\ opening'[q] = opening[q]
  BY <1>1 DEF Domains
<1>4. Apart(p)
  BY <1>3 DEF Apart
<1>5. SoundPhone(p, ctl[p], told[p], opening[p], knocks[p], inbox[p])
  BY DEF SoundPhones
<1>6. SoundPhone(p, ctl'[p], told'[p], opening'[p], knocks'[p], inbox'[p])
  BY <1>2, <1>5 DEF SoundPhone
<1> QED
  BY <1>4, <1>6, SoundStep

\* The fields that the subscribers do not depend on.
LEMMA SameSession ==
  ASSUME SoundPhones, NEW p \in Phone, NEW y, y.active = ctl[p].active,
         y.resumeSessionId = ctl[p].resumeSessionId, y.resumeRole = ctl[p].resumeRole
  PROVE  /\ Sound(y, told[p]) /\ Alone(y, told[p], opening[p])
         /\ p \notin Requesters => Passive(y, opening[p])
<1>1. SoundPhone(p, ctl[p], told[p], opening[p], knocks[p], inbox[p])
  BY DEF SoundPhones
<1>2. Sound(y, told[p])
  BY <1>1 DEF SoundPhone, Sound
<1>3. Alone(y, told[p], opening[p])
  BY <1>1 DEF SoundPhone, Alone
<1>4. p \notin Requesters => Passive(y, opening[p])
  BY <1>1 DEF SoundPhone, Passive
<1> QED
  BY <1>2, <1>3, <1>4

\* The next attempt is due.
LEMMA ReconnectTimerSound ==
  ASSUME Types, SoundPhones, NEW p \in Phone, ReconnectTimer(p)
  PROVE  SoundPhones'
<1>1. ctl[p] \in Control /\ ctl \in [Phone -> Control] /\ opening \in [Phone -> [Caller -> Opening]]
  BY EndTypes DEF Types
<1>2. PICK r : r = Append(ctl[p].queued, "reconnect")
  OBVIOUS
<1>3. PICK y : y = [ctl[p] EXCEPT !.reconnectTimer = FALSE, !.queued = r]
  OBVIOUS
<1>4. /\ y.active = ctl[p].active /\ y.resumeSessionId = ctl[p].resumeSessionId
      /\ y.resumeRole = ctl[p].resumeRole
  BY <1>1, <1>3 DEF Control
<1>5. ctl' = [ctl EXCEPT ![p] = y]
  BY <1>1, <1>2, <1>3 DEF ReconnectTimer, Control
<1>6. /\ opening' = opening /\ told' = told /\ knocks' = knocks /\ inbox' = inbox
  BY DEF ReconnectTimer, network
<1>7. opening' = [opening EXCEPT ![p] = opening[p]]
  BY <1>1, <1>6
<1>8. /\ Sound(y, told[p]) /\ Alone(y, told[p], opening[p])
      /\ p \notin Requesters => Passive(y, opening[p])
  BY <1>4, SameSession
<1> QED
  BY <1>5, <1>6, <1>7, <1>8, OwnSound

\* The responder has waited long enough.
LEMMA ResponderTimerSound ==
  ASSUME Types, SoundPhones, NEW p \in Phone, ResponderReconnectTimer(p)
  PROVE  SoundPhones'
<1>1. ctl[p] \in Control /\ ctl \in [Phone -> Control] /\ opening \in [Phone -> [Caller -> Opening]]
  BY EndTypes DEF Types
<1>2. PICK r : r = Append(ctl[p].queued, "fail")
  OBVIOUS
<1>3. PICK y : y = [ctl[p] EXCEPT !.responderReconnectTimer = FALSE, !.queued = r]
  OBVIOUS
<1>4. /\ y.active = ctl[p].active /\ y.resumeSessionId = ctl[p].resumeSessionId
      /\ y.resumeRole = ctl[p].resumeRole
  BY <1>1, <1>3 DEF Control
<1>5. ctl' = [ctl EXCEPT ![p] = y]
  BY <1>1, <1>2, <1>3 DEF ResponderReconnectTimer, Control
<1>6. /\ opening' = opening /\ told' = told /\ knocks' = knocks /\ inbox' = inbox
  BY DEF ResponderReconnectTimer, network
<1>7. opening' = [opening EXCEPT ![p] = opening[p]]
  BY <1>1, <1>6
<1>8. /\ Sound(y, told[p]) /\ Alone(y, told[p], opening[p])
      /\ p \notin Requesters => Passive(y, opening[p])
  BY <1>4, SameSession
<1> QED
  BY <1>5, <1>6, <1>7, <1>8, OwnSound

\* connect() starts where there is no session.
LEMMA ConnectSound ==
  ASSUME Types, SoundPhones, NEW p \in Phone, Connect(p)
  PROVE  SoundPhones'
<1>1. PICK l : l = opening'[p]
  OBVIOUS
<1>2. PICK e : e = [NoOpening EXCEPT !.step = "dialling", !.sessionId = lastSession + 1]
  OBVIOUS
<1>3. lastSession + 1 \in Nat
  BY DEF Types, lastSession
<1>4. e \in Opening /\ e.step = "dialling"
  BY <1>2, <1>3 DEF NoOpening, Opening
<1>5. Opens(p, "connect", e) /\ "connect" \in Caller /\ "reconnect" \in Caller
  BY <1>2 DEF Connect, Opens, Caller
<1>6. /\ opening' = [opening EXCEPT ![p] = l] /\ l["connect"] = e
      /\ \A v \in Caller \ {"connect"} : l[v] = opening[p][v]
  BY <1>1, <1>4, <1>5, OpeningChanges
<1>7. l["reconnect"] = opening[p]["reconnect"]
  BY <1>5, <1>6
<1>8. /\ p \in Requesters /\ ctl[p].active.connectionId = 0 /\ ctl[p].resumeSessionId = 0
      /\ ctl' = ctl /\ told' = told /\ knocks' = knocks /\ inbox' = inbox
  BY DEF Connect, network
<1>9. SoundPhone(p, ctl[p], told[p], opening[p], knocks[p], inbox[p])
  BY DEF SoundPhones
<1>10. ~ctl[p].active.keyed
  <2>1. ActiveOK(ctl[p].active, lastConn)
    BY EndTypes
  <2>2. ctl[p].active = NoActive
    BY <1>8, <2>1 DEF ActiveOK
  <2> QED
    BY <2>2 DEF NoActive
<1>11. told[p] = 0
  <2>1. told[p] \in SessionOrNone
    BY DEF Types
  <2> QED
    BY <1>8, <1>9, <1>10, <2>1 DEF SoundPhone, Sound
<1>12. Alone(ctl[p], told[p], l)
  BY <1>7, <1>8, <1>9, <1>10, <1>11 DEF SoundPhone, Alone
<1>13. ctl' = [ctl EXCEPT ![p] = ctl[p]]
  BY <1>8 DEF Types
<1> QED
  BY <1>6, <1>8, <1>9, <1>12, <1>13, OwnSound DEF SoundPhone

\* Who opens has a user that asks.
LEMMA OpenerAsks ==
  ASSUME SoundPhones, NEW p \in Phone, NEW w \in Caller, opening[p][w].step # "none"
  PROVE  p \in Requesters
  BY DEF SoundPhones, SoundPhone, Passive

\* transport.connect throws.
LEMMA DialFailsSound ==
  ASSUME Types, SoundPhones, NEW p \in Phone, NEW w \in Caller, DialFails(p, w)
  PROVE  SoundPhones'
<1>1. PICK o : o = Unchanged(p)
  OBVIOUS
<1>2. Begins(o, p) /\ o \in Outcome /\ o.ctl = ctl[p]
  BY <1>1, StartBegins DEF Begins
<1>3. PICK r : r = ScheduleInitiatorReconnect(o)
  OBVIOUS
<1>4. PICK y : y = IF w = "connect" THEN ctl[p] ELSE r.ctl
  OBVIOUS
<1>5. ctl' = [ctl EXCEPT ![p] = y]
  BY <1>1, <1>3, <1>4 DEF DialFails
<1>6. /\ y.active = ctl[p].active /\ y.resumeSessionId = ctl[p].resumeSessionId
      /\ y.resumeRole = ctl[p].resumeRole
  BY <1>2, <1>3, <1>4, ScheduleFields
<1>7. PICK l : l = opening'[p]
  OBVIOUS
<1>8. NoOpening \in Opening /\ NoOpening.step = "none"
  BY DEF NoOpening, Opening
<1>9. /\ opening' = [opening EXCEPT ![p] = l] /\ l[w] = NoOpening
      /\ \A v \in Caller \ {w} : l[v] = opening[p][v]
  BY <1>7, <1>8, OpeningChanges DEF DialFails
<1>10. told' = told /\ knocks' = knocks /\ inbox' = inbox /\ opening[p][w].step # "none"
  BY DEF DialFails, network
<1>11. Sound(y, told[p]) /\ Alone(y, told[p], opening[p])
  BY <1>6, SameSession
<1>12. Alone(y, told[p], l)
  <2>1. l["connect"] \in {opening[p]["connect"], NoOpening}
        /\ l["reconnect"] \in {opening[p]["reconnect"], NoOpening}
    BY <1>9 DEF Caller
  <2> QED
    BY <1>8, <1>11, <2>1 DEF Alone, Asking, Early
<1>13. p \in Requesters
  BY <1>10, OpenerAsks
<1> QED
  BY <1>5, <1>9, <1>10, <1>11, <1>12, <1>13, OwnSound

\* The connection that was dialled becomes the active one.
LEMMA AdoptSound ==
  ASSUME Types, SoundPhones, NEW p \in Phone, NEW w \in Caller, Adopt(p, w)
  PROVE  SoundPhones'
<1>1. PICK at : at = opening[p][w]
  OBVIOUS
<1>2. at.step = "dialled" /\ told' = told /\ knocks' = knocks /\ inbox' = inbox
  BY <1>1 DEF Adopt, network
<1>3. PICK a2 : a2 = NewActive(at.connectionId, "initiator", at.sessionId, w = "connect")
  OBVIOUS
<1>4. a2.connectionId = at.connectionId /\ ~a2.keyed
  BY <1>3 DEF NewActive, NoActive
<1>5. PICK e : e = [at EXCEPT !.step = "adopted"]
  OBVIOUS
<1>6. opening[p] \in [Caller -> Opening] /\ ctl[p] \in Control /\ ctl \in [Phone -> Control]
  BY EndTypes DEF Types
<1>7. e \in Opening /\ e.step = "adopted" /\ e.connectionId = at.connectionId
  BY <1>1, <1>5, <1>6 DEF Opening
<1>8. PICK l : l = opening'[p]
  OBVIOUS
<1>9. /\ opening' = [opening EXCEPT ![p] = l] /\ l[w] = e
      /\ \A v \in Caller \ {w} : l[v] = opening[p][v]
  BY <1>1, <1>5, <1>7, <1>8, OpeningChanges DEF Adopt
<1>10. PICK y : y = [ctl[p] EXCEPT !.active = a2]
  OBVIOUS
<1>11. y.active = a2 /\ y.resumeSessionId = ctl[p].resumeSessionId
  BY <1>6, <1>10 DEF Control
<1>12. ctl' = [ctl EXCEPT ![p] = y]
  BY <1>1, <1>3, <1>6, <1>10 DEF Adopt
<1>13. SoundPhone(p, ctl[p], told[p], opening[p], knocks[p], inbox[p])
  BY DEF SoundPhones
<1>14. p \in Requesters
  BY <1>1, <1>2, OpenerAsks
<1>15. CASE w = "connect"
  <2>1. l["connect"] = e /\ l["reconnect"] = opening[p]["reconnect"]
    BY <1>9, <1>15 DEF Caller
  <2>2. Asking(opening[p])
    BY <1>1, <1>2, <1>15 DEF Asking, Early
  <2>3. told[p] = 0 /\ ctl[p].resumeSessionId = 0 /\ opening[p]["reconnect"].step = "none"
    BY <1>13, <2>2 DEF SoundPhone, Alone
  <2>4. Sound(y, told[p]) /\ Alone(y, told[p], l)
    BY <1>4, <1>7, <1>11, <2>1, <2>3 DEF Sound, Alone
  <2> QED
    BY <1>2, <1>9, <1>12, <1>14, <2>4, OwnSound
<1>16. CASE w = "reconnect"
  <2>1. l["reconnect"] = e /\ l["connect"] = opening[p]["connect"]
    BY <1>9, <1>16 DEF Caller
  <2>2. ctl[p].resumeSessionId # 0 /\ ~Asking(opening[p])
    BY <1>1, <1>2, <1>13, <1>16 DEF SoundPhone, Alone
  <2>3. ~Asking(l)
    BY <2>1, <2>2 DEF Asking
  <2>4. Sound(y, told[p]) /\ Alone(y, told[p], l)
    BY <1>4, <1>11, <1>13, <2>2, <2>3 DEF SoundPhone, Sound, Alone
  <2> QED
    BY <1>2, <1>9, <1>12, <1>14, <2>4, OwnSound
<1> QED
  BY <1>15, <1>16 DEF Caller

\* transport.send throws: what connect() opened waits to be resumed, and a
\* resumption waits for its next attempt.
LEMMA HelloFailsSound ==
  ASSUME Types, SoundPhones, NEW p \in Phone, NEW w \in Caller, HelloFails(p, w)
  PROVE  SoundPhones'
<1>1. PICK o : o = Unchanged(p)
  OBVIOUS
<1>2. Begins(o, p) /\ o \in Outcome /\ o.ctl = ctl[p]
  BY <1>1, StartBegins DEF Begins
<1>3. PICK at : at = opening[p][w]
  OBVIOUS
<1>4. PICK b : b = NewActive(at.connectionId, "initiator", at.sessionId, FALSE)
  OBVIOUS
<1>5. b.connectionId = at.connectionId /\ b.role = "initiator" /\ b.sessionId = at.sessionId
  BY <1>4 DEF NewActive, NoActive
<1>6. b.connectionId \in Nat /\ b.role \in Role /\ b.sessionId \in SessionOrNone
  <2>1. at.connectionId \in 0..lastConn /\ at.sessionId \in SessionOrNone /\ lastConn \in Nat
    BY <1>3, EndTypes DEF PhoneOK, OpeningOK
  <2> QED
    BY <1>5, <2>1 DEF Role
<1>7. PICK g : g = BeginReconnect(o, b)
  OBVIOUS
<1>8. PICK r : r = ScheduleInitiatorReconnect(g)
  OBVIOUS
<1>9. PICK y : y = IF w = "connect" THEN g.ctl ELSE r.ctl
  OBVIOUS
<1>10. ctl' = [ctl EXCEPT ![p] = y]
  BY <1>1, <1>3, <1>4, <1>7, <1>8, <1>9 DEF HelloFails
<1>11. PICK l : l = opening'[p]
  OBVIOUS
<1>12. NoOpening \in Opening /\ NoOpening.step = "none"
  BY DEF NoOpening, Opening
<1>13. /\ opening' = [opening EXCEPT ![p] = l] /\ l[w] = NoOpening
       /\ \A v \in Caller \ {w} : l[v] = opening[p][v]
  BY <1>11, <1>12, OpeningChanges DEF HelloFails
<1>14. told' = told /\ knocks' = knocks /\ inbox' = inbox /\ at.step \in {"adopted", "rejected"}
  BY <1>3 DEF HelloFails, network
<1>15. p \in Requesters
  BY <1>3, <1>14, OpenerAsks
<1>16. SoundPhone(p, ctl[p], told[p], opening[p], knocks[p], inbox[p])
  BY DEF SoundPhones
<1>17. CASE w = "connect"
  <2>1. l["connect"] = NoOpening /\ l["reconnect"] = opening[p]["reconnect"]
    BY <1>13, <1>17 DEF Caller
  <2>2. Asking(opening[p])
    BY <1>3, <1>14, <1>17 DEF Asking, Early
  <2>3. /\ told[p] = 0 /\ ctl[p].resumeSessionId = 0 /\ ~ctl[p].active.keyed
        /\ opening[p]["reconnect"].step = "none"
    BY <1>16, <2>2 DEF SoundPhone, Alone
  <2>4. ~NoActive.keyed
    BY DEF NoActive
  <2>5. ~y.active.keyed
    <3>1. b.sessionId = 0 => g = o
      BY <1>6, <1>7, <1>2, BeginFields
    <3>2. b.sessionId # 0 => g.ctl.active = NoActive
      BY <1>2, <1>6, <1>7, <2>3, BeginFields
    <3> QED
      BY <1>2, <1>9, <1>17, <2>3, <2>4, <3>1, <3>2
  <2>6. Sound(y, told[p]) /\ Alone(y, told[p], l)
    BY <1>12, <2>1, <2>3, <2>5 DEF Sound, Alone, Asking, Early
  <2> QED
    BY <1>10, <1>13, <1>14, <1>15, <2>6, OwnSound
<1>18. CASE w = "reconnect"
  <2>1. l["reconnect"] = NoOpening /\ l["connect"] = opening[p]["connect"]
    BY <1>13, <1>18 DEF Caller
  <2>2. ctl[p].resumeSessionId # 0 /\ ~Asking(opening[p])
    BY <1>3, <1>14, <1>16, <1>18 DEF SoundPhone, Alone
  <2>3. g = o
    BY <1>2, <1>6, <1>7, <2>2, BeginFields
  <2>4. /\ y.active = ctl[p].active /\ y.resumeSessionId = ctl[p].resumeSessionId
        /\ y.resumeRole = ctl[p].resumeRole
    BY <1>2, <1>8, <1>9, <1>18, <2>3, ScheduleFields
  <2>5. Sound(y, told[p])
    BY <2>4, SameSession
  <2>6. Alone(y, told[p], l)
    BY <1>12, <2>1, <2>2 DEF Alone, Asking
  <2> QED
    BY <1>10, <1>13, <1>14, <1>15, <2>5, <2>6, OwnSound
<1> QED
  BY <1>17, <1>18 DEF Caller

\* The next attempt starts for a session that waits to be resumed.
LEMMA RunReconnectSound ==
  ASSUME Types, SoundPhones, NEW p \in Phone, RunReconnect(p)
  PROVE  SoundPhones'
<1>1. PICK v : v = Dequeued(p)
  OBVIOUS
<1>2. PICK y : y = v.ctl
  OBVIOUS
<1>3. Begins(v, p)
  BY <1>1, DequeuedBegins DEF RunReconnect
<1>4. /\ y.active = ctl[p].active /\ y.resumeSessionId = ctl[p].resumeSessionId
      /\ y.resumeRole = ctl[p].resumeRole
  BY <1>2, <1>3 DEF Begins
<1>5. ctl' = [ctl EXCEPT ![p] = y] /\ told' = told /\ knocks' = knocks /\ inbox' = inbox
  BY <1>1, <1>2 DEF RunReconnect, network
<1>6. PICK e : e = IF CanReconnect(ctl[p])
                   THEN [NoOpening EXCEPT !.step = "dialling", !.sessionId = ctl[p].resumeSessionId]
                   ELSE NoOpening
  OBVIOUS
<1>7. ctl[p].resumeSessionId \in Nat
  BY EndTypes, Bounds DEF PhoneOK, ControlOK, SessionOrNone
<1>8. e \in Opening /\ (e.step # "none" => CanReconnect(ctl[p]))
  <2>1. NoOpening \in Opening /\ NoOpening.step = "none"
    BY DEF NoOpening, Opening
  <2>2. [NoOpening EXCEPT !.step = "dialling", !.sessionId = ctl[p].resumeSessionId] \in Opening
    BY <1>7 DEF NoOpening, Opening
  <2> QED
    BY <1>6, <2>1, <2>2
<1>9. PICK l : l = opening'[p]
  OBVIOUS
<1>10. Opens(p, "reconnect", e) /\ "reconnect" \in Caller /\ "connect" \in Caller
  BY <1>6 DEF RunReconnect, Caller
<1>11. /\ opening' = [opening EXCEPT ![p] = l] /\ l["reconnect"] = e
       /\ \A u \in Caller \ {"reconnect"} : l[u] = opening[p][u]
  BY <1>8, <1>9, <1>10, OpeningChanges
<1>12. l["connect"] = opening[p]["connect"]
  BY <1>10, <1>11
<1>13. /\ Sound(y, told[p]) /\ Alone(y, told[p], opening[p])
       /\ p \notin Requesters => Passive(y, opening[p])
  BY <1>4, SameSession
<1>14. Alone(y, told[p], l)
  BY <1>4, <1>8, <1>11, <1>12, <1>13 DEF Alone, Asking, CanReconnect
<1>15. p \notin Requesters => Passive(y, l)
  BY <1>4, <1>8, <1>11, <1>12, <1>13 DEF Passive, CanReconnect, Caller
<1> QED
  BY <1>5, <1>11, <1>13, <1>14, <1>15, OwnSound

-----------------------------------------------------------------------------
(* Steps of the streams. *)

\* The hello goes out; nobody is dialled by it.
LEMMA HelloSound ==
  ASSUME Types, SoundPhones, NEW p \in Phone, NEW w \in Caller, Hello(p, w)
  PROVE  SoundPhones'
<1>1. PICK at : at = opening[p][w]
  OBVIOUS
<1>2. PICK k : k = at.connectionId
  OBVIOUS
<1>3. PICK h : h = <<Hello1(at.sessionId)>>
  OBVIOUS
<1>4. /\ at.step \in {"adopted", "rejected"} /\ inbox' = Delivered(p, k, h, 0, {})
      /\ ctl' = ctl /\ told' = told /\ knocks' = knocks
  BY <1>1, <1>2, <1>3 DEF Hello
<1>5. PICK e : e = IF w = "connect" /\ at.step = "adopted" THEN [at EXCEPT !.step = "waiting"] ELSE NoOpening
  OBVIOUS
<1>6. at \in Opening /\ at.sessionId \in SessionOrNone
  BY <1>1, EndTypes DEF PhoneOK, OpeningOK
<1>7. e \in Opening /\ e.step \in {"waiting", "none"} /\ (w = "reconnect" => e.step = "none")
  <2>1. NoOpening \in Opening /\ NoOpening.step = "none"
    BY DEF NoOpening, Opening
  <2>2. PICK f : f = [at EXCEPT !.step = "waiting"]
    OBVIOUS
  <2>3. f \in Opening /\ f.step = "waiting"
    BY <1>6, <2>2 DEF Opening
  <2>4. e = IF w = "connect" /\ at.step = "adopted" THEN f ELSE NoOpening
    BY <1>5, <2>2
  <2> QED
    BY <2>1, <2>3, <2>4
<1>8. Opens(p, w, e)
  BY <1>1, <1>5 DEF Hello
<1>9. PICK l : l = opening'[p]
  OBVIOUS
<1>10. /\ opening' = [opening EXCEPT ![p] = l] /\ l[w] = e
       /\ \A v \in Caller \ {w} : l[v] = opening[p][v]
  BY <1>7, <1>8, <1>9, OpeningChanges
<1>11. SoundPhone(p, ctl[p], told[p], opening[p], knocks[p], inbox[p])
  BY DEF SoundPhones
<1>12. p \in Requesters
  BY <1>1, <1>4, OpenerAsks
<1>13. Alone(ctl[p], told[p], l)
  <2>1. CASE w = "connect"
    <3>1. l["connect"] = e /\ l["reconnect"] = opening[p]["reconnect"]
      BY <1>10, <2>1 DEF Caller
    <3>2. ~Asking(l)
      BY <1>7, <3>1 DEF Asking, Early
    <3> QED
      BY <1>11, <3>1, <3>2 DEF SoundPhone, Alone
  <2>2. CASE w = "reconnect"
    <3>1. l["reconnect"].step = "none" /\ l["connect"] = opening[p]["connect"]
      BY <1>7, <1>10, <2>2 DEF Caller
    <3>2. ~Asking(opening[p])
      BY <1>1, <1>4, <1>11, <2>2 DEF SoundPhone, Alone
    <3> QED
      BY <1>11, <3>1, <3>2 DEF Alone, Asking
  <2> QED
    BY <2>1, <2>2 DEF Caller
<1>14. NoConnected(h) /\ h \in Seq(Event)
  <2>1. PICK g : g = Hello1(at.sessionId)
    OBVIOUS
  <2>2. g \in Event /\ g.kind = "hello1"
    BY <1>6, <2>1 DEF Hello1, Event
  <2>3. g # Connected
    BY <2>2, Kinds
  <2>4. h = <<g>> /\ Len(<<g>>) = 1 /\ <<g>>[1] = g
    BY <1>3, <2>1
  <2> QED
    BY <2>2, <2>3, <2>4 DEF NoConnected
<1>15. ASSUME NEW q \in Phone, NEW c \in Conn, NoConnected(inbox[q][c])
       PROVE  NoConnected(inbox'[q][c])
  <2>1. inbox'[q][c] = IF q = p THEN IF c \in {} THEN <<>> ELSE IF c = 0 THEN Tail(inbox[p][c]) ELSE inbox[p][c]
                       ELSE IF c = k /\ Receives(q, c) THEN inbox[q][c] \o h ELSE inbox[q][c]
    BY <1>4, Zenon DEF Delivered
  <2>2. c # 0
    BY DEF Conn
  <2>3. inbox[q][c] \in Seq(Event)
    BY EndTypes
  <2>4. NoConnected(inbox[q][c] \o h)
    BY <1>14, <1>15, <2>3, NoConnectedJoins
  <2> QED
    BY <1>15, <2>1, <2>2, <2>4
<1>16. Domains
  BY DEF Types, Domains
<1>17. opening'[p] = l /\ \A q \in Phone \ {p} : opening'[q] = opening[q]
  BY <1>10, <1>16 DEF Domains
<1>18. Apart(p)
  BY <1>4, <1>15, <1>17 DEF Apart, Undialled
<1>19. SoundPhone(p, ctl'[p], told'[p], opening'[p], knocks'[p], inbox'[p])
  BY <1>4, <1>11, <1>12, <1>13, <1>15, <1>17 DEF SoundPhone, Undialled
<1> QED
  BY <1>18, <1>19, SoundStep

\* The native module dials.
LEMMA DialSound ==
  ASSUME Types, SoundPhones, NEW p \in Phone, NEW w \in Caller, Dial(p, w)
  PROVE  SoundPhones'
<1>1. PICK at : at = opening[p][w]
  OBVIOUS
<1>2. PICK k : k = lastConn + 1
  OBVIOUS
<1>3. PICK e : e = [at EXCEPT !.step = "dialled", !.connectionId = k]
  OBVIOUS
<1>4. at \in Opening /\ k \in Nat
  BY <1>1, <1>2, EndTypes DEF PhoneOK, OpeningOK
<1>5. e \in Opening /\ e.step = "dialled"
  BY <1>3, <1>4 DEF Opening
<1>6. at.step = "dialling" /\ Opens(p, w, e) /\ ctl' = ctl /\ told' = told /\ inbox' = inbox
  BY <1>1, <1>2, <1>3 DEF Dial
<1>7. PICK l : l = opening'[p]
  OBVIOUS
<1>8. /\ opening' = [opening EXCEPT ![p] = l] /\ l[w] = e
      /\ \A v \in Caller \ {w} : l[v] = opening[p][v]
  BY <1>5, <1>6, <1>7, OpeningChanges
<1>9. SoundPhone(p, ctl[p], told[p], opening[p], knocks[p], inbox[p])
  BY DEF SoundPhones
<1>10. p \in Requesters
  BY <1>1, <1>6, OpenerAsks
<1>11. Alone(ctl[p], told[p], l)
  <2>1. CASE w = "connect"
    <3>1. l["connect"] = e /\ l["reconnect"] = opening[p]["reconnect"]
      BY <1>8, <2>1 DEF Caller
    <3>2. Asking(opening[p])
      BY <1>1, <1>6, <2>1 DEF Asking
    <3>3. opening[p]["connect"].step = "dialling"
      BY <1>1, <1>6, <2>1
    <3> QED
      BY <1>9, <3>1, <3>2, <3>3 DEF SoundPhone, Alone
  <2>2. CASE w = "reconnect"
    <3>1. l["connect"] = opening[p]["connect"]
      BY <1>8, <2>2 DEF Caller
    <3>2. ctl[p].resumeSessionId # 0 /\ ~Asking(opening[p])
      BY <1>1, <1>6, <1>9, <2>2 DEF SoundPhone, Alone
    <3> QED
      BY <3>1, <3>2 DEF Alone, Asking
  <2> QED
    BY <2>1, <2>2 DEF Caller
<1>12. Domains
  BY DEF Types, Domains
<1>13. opening'[p] = l /\ \A q \in Phone \ {p} : opening'[q] = opening[q]
  BY <1>8, <1>12 DEF Domains
<1>14. knocks'[p] = knocks[p]
  <2>1. Other(p) # p
    BY TwoPhones
  <2> QED
    BY <1>12, <2>1 DEF Dial, Domains
<1>15. Apart(p)
  BY <1>6, <1>10, <1>13 DEF Apart
<1>16. SoundPhone(p, ctl'[p], told'[p], opening'[p], knocks'[p], inbox'[p])
  BY <1>6, <1>9, <1>10, <1>11, <1>13, <1>14 DEF SoundPhone
<1> QED
  BY <1>15, <1>16, SoundStep

\* A step of p's native module dials nobody.
LEMMA NativeSound ==
  ASSUME Types, SoundPhones, NEW p \in Phone, NEW k \in Conn, NEW z \in Seq(Event), NEW n, NEW K,
         NativeMoves(p, k, z, n, K),
         Undialled(knocks[p], inbox[p]) => K = {} /\ NoConnected(z)
  PROVE  SoundPhones'
<1>1. Domains
  BY DEF Types, Domains
<1>2. PICK f : f = [inbox[p] EXCEPT ![k] = z]
  OBVIOUS
<1>3. inbox[p] \in [Conn -> Seq(Event)] /\ inbox \in [Phone -> [Conn -> Seq(Event)]]
  BY <1>1 DEF Domains
<1>4. f[k] = z /\ \A c \in Conn \ {k} : f[c] = inbox[p][c]
  BY <1>2, <1>3
<1>5. inbox' = [inbox EXCEPT ![p] = f]
  BY <1>2, <1>3 DEF NativeMoves
<1>6. inbox'[p] = f /\ \A q \in Phone \ {p} : inbox'[q] = inbox[q]
  BY <1>3, <1>5
<1>7. /\ ctl' = ctl /\ told' = told /\ opening' = opening
      /\ knocks'[p] = K /\ \A q \in Phone \ {p} : knocks'[q] = knocks[q]
  BY <1>1 DEF NativeMoves, Domains
<1>8. Apart(p)
  BY <1>6, <1>7 DEF Apart
<1>9. Undialled(knocks[p], inbox[p]) => Undialled(K, f)
  BY <1>4 DEF Undialled
<1>10. SoundPhone(p, ctl[p], told[p], opening[p], knocks[p], inbox[p])
  BY DEF SoundPhones
<1>11. SoundPhone(p, ctl'[p], told'[p], opening'[p], knocks'[p], inbox'[p])
  BY <1>6, <1>7, <1>9, <1>10 DEF SoundPhone
<1> QED
  BY <1>8, <1>11, SoundStep

\* classifyInbound takes a socket.
LEMMA ClassifySound ==
  ASSUME Types, SoundPhones, NEW p \in Phone, NEW k \in Conn, Classify(p, k)
  PROVE  SoundPhones'
<1>1. PICK z : z = <<Connected>> \o inbox[p][k]
  OBVIOUS
<1>2. inbox[p][k] \in Seq(Event) /\ Connected \in Event
  BY EndTypes DEF Connected, Event
<1>3. z \in Seq(Event)
  <2>1. <<Connected>> \in Seq(Event)
    BY <1>2
  <2> QED
    BY <1>1, <1>2, <2>1, ConcatProperties
<1>4. Domains
  BY DEF Types, Domains
<1>5. inbox' = [inbox EXCEPT ![p][k] = z]
  BY <1>1, <1>4 DEF Classify, Domains
<1>6. PICK K : K = knocks[p] \ {k}
  OBVIOUS
<1>7. NativeMoves(p, k, z, k, K)
  BY <1>4, <1>5, <1>6 DEF Classify, Domains, NativeMoves
<1>8. ~Undialled(knocks[p], inbox[p])
  BY DEF Classify, Undialled
<1> QED
  BY <1>3, <1>7, <1>8, NativeSound

\* It refuses one.
LEMMA ClassifyRejectsSound ==
  ASSUME Types, SoundPhones, NEW p \in Phone, NEW k \in Conn, ClassifyRejects(p, k)
  PROVE  SoundPhones'
<1>1. PICK z : z = <<>>
  OBVIOUS
<1>2. z \in Seq(Event)
  BY <1>1
<1>3. Domains
  BY DEF Types, Domains
<1>4. inbox' = [inbox EXCEPT ![p][k] = z]
  BY <1>1, <1>3 DEF ClassifyRejects, Domains
<1>5. PICK K : K = knocks[p] \ {k}
  OBVIOUS
<1>6. PICK n : n = native[p]
  OBVIOUS
<1>7. NativeMoves(p, k, z, n, K)
  BY <1>3, <1>4, <1>5, <1>6 DEF ClassifyRejects, Domains, NativeMoves
<1>8. ~Undialled(knocks[p], inbox[p])
  BY DEF ClassifyRejects, Undialled
<1> QED
  BY <1>2, <1>7, <1>8, NativeSound

\* A connection that ends brings no "connected".
LEMMA BreakSound ==
  ASSUME Types, SoundPhones, NEW p \in Phone, NEW k \in Conn, NEW y \in Seq(Event),
         NoConnected(inbox[p][k]) => NoConnected(y), NEW l \in Last, NEW z, z = Append(y, l),
         inbox' = [inbox EXCEPT ![p][k] = z], native' = [native EXCEPT ![p] = 0],
         UNCHANGED <<ctl, opening, told, knocks, lastConn, opener>>
  PROVE  SoundPhones'
<1>1. l \in Event /\ l # Connected
  BY Kinds DEF Last, Event, Closed, Failed, Connected
<1>2. z = y \o <<l>> /\ <<l>> \in Seq(Event)
  BY <1>1
<1>3. z \in Seq(Event)
  BY <1>1
<1>4. NoConnected(<<l>>)
  BY <1>1 DEF NoConnected
<1>5. NoConnected(inbox[p][k]) => NoConnected(z)
  BY <1>2, <1>4, NoConnectedJoins
<1>6. PICK K : K = knocks[p]
  OBVIOUS
<1>7. PICK n : n = 0
  OBVIOUS
<1>8. NativeMoves(p, k, z, n, K)
  <2>1. knocks' = [knocks EXCEPT ![p] = K]
    BY <1>6 DEF Types
  <2> QED
    BY <1>7, <2>1 DEF NativeMoves
<1>9. Undialled(knocks[p], inbox[p]) => K = {} /\ NoConnected(z)
  BY <1>5, <1>6 DEF Undialled
<1> QED
  BY <1>3, <1>8, <1>9, NativeSound

\* readLoop reads the end of the stream.
LEMMA EndOfStreamSound ==
  ASSUME Types, SoundPhones, NEW p \in Phone, EndOfStream(p)
  PROVE  SoundPhones'
<1>1. PICK k : k = native[p]
  OBVIOUS
<1>2. k \in Conn
  <2>1. k \in 1..lastConn /\ lastConn \in Nat /\ lastConn <= MaxConn
    BY <1>1, EndTypes DEF PhoneOK, EndOfStream
  <2> QED
    BY <2>1, Bounds DEF Conn
<1>3. PICK y : y = inbox[p][k]
  OBVIOUS
<1>4. y \in Seq(Event) /\ Closed \in Last
  BY <1>2, <1>3, EndTypes DEF Last
<1>5. PICK z : z = Append(y, Closed)
  OBVIOUS
<1>6. inbox' = [inbox EXCEPT ![p][k] = z]
  BY <1>1, <1>3, <1>5 DEF EndOfStream, Types
<1>7. /\ native' = [native EXCEPT ![p] = 0]
      /\ UNCHANGED <<ctl, opening, told, knocks, lastConn, opener>>
  BY DEF EndOfStream
<1> QED
  BY <1>2, <1>3, <1>4, <1>5, <1>6, <1>7, BreakSound

\* The connection breaks.
LEMMA ResetSound ==
  ASSUME Types, SoundPhones, NEW p \in Phone, Reset(p)
  PROVE  SoundPhones'
<1>1. PICK k : k = native[p]
  OBVIOUS
<1>2. k \in Conn
  <2>1. k \in 1..lastConn /\ lastConn \in Nat /\ lastConn <= MaxConn
    BY <1>1, EndTypes DEF PhoneOK, Reset
  <2> QED
    BY <2>1, Bounds DEF Conn
<1>3. PICK x : x = inbox[p][k]
  OBVIOUS
<1>4. x \in Seq(Event) /\ Failed \in Last
  BY <1>2, <1>3, EndTypes DEF Last
<1>5. PICK j \in 0..Len(x) : inbox' = [inbox EXCEPT ![p][k] = Append(SubSeq(@, 1, j), Failed)]
  BY <1>1, <1>3 DEF Reset
<1>6. PICK y : y = SubSeq(x, 1, j)
  OBVIOUS
<1>7. y \in Seq(Event) /\ Len(y) = j /\ \A i \in 1..j : y[i] = x[i]
  <2>1. \A i \in 1..j : x[i] \in Event
    BY <1>4
  <2> QED
    BY <1>4, <1>6, <2>1, SubSeqProperties
<1>8. NoConnected(x) => NoConnected(y)
  BY <1>4, <1>7 DEF NoConnected
<1>9. PICK z : z = Append(y, Failed)
  OBVIOUS
<1>10. inbox' = [inbox EXCEPT ![p][k] = z]
  BY <1>3, <1>5, <1>6, <1>9 DEF Types
<1>11. /\ native' = [native EXCEPT ![p] = 0]
       /\ UNCHANGED <<ctl, opening, told, knocks, lastConn, opener>>
  BY DEF Reset
<1> QED
  BY <1>2, <1>3, <1>4, <1>7, <1>8, <1>9, <1>10, <1>11, BreakSound

\* A restarted process knows of no session.
LEMMA CrashSound ==
  ASSUME Types, SoundPhones, NEW p \in Phone, Crash(p)
  PROVE  SoundPhones'
<1>1. Domains
  BY DEF Types, Domains
<1>2. PICK o : o = [w \in Caller |-> NoOpening]
  OBVIOUS
<1>3. PICK i : i = [c \in Conn |-> <<>>]
  OBVIOUS
<1>4. PICK f : f = Fresh
  OBVIOUS
<1>5. /\ ctl' = [ctl EXCEPT ![p] = f] /\ opening' = [opening EXCEPT ![p] = o]
      /\ told' = [told EXCEPT ![p] = 0]
      /\ knocks' = [knocks EXCEPT ![p] = {}] /\ inbox' = [inbox EXCEPT ![p] = i]
  BY <1>2, <1>3, <1>4 DEF Crash
<1>6. /\ ctl'[p] = f /\ opening'[p] = o /\ told'[p] = 0 /\ knocks'[p] = {} /\ inbox'[p] = i
      /\ \A q \in Phone \ {p} : /\ ctl'[q] = ctl[q] /\ opening'[q] = opening[q] /\ told'[q] = told[q]
                                /\ knocks'[q] = knocks[q] /\ inbox'[q] = inbox[q]
  BY <1>1, <1>5 DEF Domains
<1>7. f.active = NoActive /\ f.resumeSessionId = 0 /\ f.resumeRole = "none"
  BY <1>4 DEF Fresh
<1>8. ~NoActive.keyed /\ NoActive.role = "none"
  BY DEF NoActive
<1>9. o["connect"].step = "none" /\ o["reconnect"].step = "none" /\ \A w \in Caller : o[w].step = "none"
  BY <1>2 DEF Caller, NoOpening
<1>10. Sound(f, 0) /\ Alone(f, 0, o) /\ Passive(f, o)
  BY <1>7, <1>8, <1>9 DEF Sound, Alone, Passive, Asking, Early
<1>11. Undialled({}, i)
  <2>1. \A c \in Conn : Len(i[c]) = 0
    BY <1>3
  <2> QED
    BY <2>1 DEF Undialled, NoConnected
<1>12. SoundPhone(p, ctl'[p], told'[p], opening'[p], knocks'[p], inbox'[p])
  BY <1>6, <1>10, <1>11 DEF SoundPhone
<1>13. Apart(p)
  BY <1>6 DEF Apart
<1> QED
  BY <1>12, <1>13, SoundStep

-----------------------------------------------------------------------------
(* The specification. *)

\* Nobody believes in a session yet.
LEMMA StartSound ==
  ASSUME Init
  PROVE  SoundPhones
<1>1. PICK f : f = Fresh
  OBVIOUS
<1>2. PICK o : o = [w \in Caller |-> NoOpening]
  OBVIOUS
<1>3. PICK i : i = [c \in Conn |-> <<>>]
  OBVIOUS
<1>4. /\ ctl = [p \in Phone |-> f] /\ opening = [p \in Phone |-> o] /\ told = [p \in Phone |-> 0]
      /\ knocks = [p \in Phone |-> {}] /\ inbox = [p \in Phone |-> i]
  BY <1>1, <1>2, <1>3 DEF Init
<1>5. f.active = NoActive /\ f.resumeSessionId = 0 /\ f.resumeRole = "none"
  BY <1>1 DEF Fresh
<1>6. ~NoActive.keyed /\ NoActive.role = "none"
  BY DEF NoActive
<1>7. o["connect"].step = "none" /\ o["reconnect"].step = "none" /\ \A w \in Caller : o[w].step = "none"
  BY <1>2 DEF Caller, NoOpening
<1>8. Sound(f, 0) /\ Alone(f, 0, o) /\ Passive(f, o)
  BY <1>5, <1>6, <1>7 DEF Sound, Alone, Passive, Asking, Early
<1>9. Undialled({}, i)
  <2>1. \A c \in Conn : Len(i[c]) = 0
    BY <1>3
  <2> QED
    BY <2>1 DEF Undialled, NoConnected
<1> QED
  BY <1>4, <1>8, <1>9 DEF SoundPhones, SoundPhone

\* No step makes the subscribers believe in a session that is gone.
LEMMA SoundInductive ==
  ASSUME OneAsks, IInv, SoundPhones, [Next]_vars
  PROVE  SoundPhones'
<1>0. Types /\ Links
  BY DEF IInv
<1>1. ASSUME NEW p \in Phone, ApiCall(p) PROVE SoundPhones'
  <2>1. CASE Connect(p)
    BY <1>0, <2>1, ConnectSound
  <2>2. CASE \E body \in Body : Send(p, body)
    BY <1>0, <2>2, SendSound
  <2>3. CASE Close(p)
    BY <1>0, <2>3, CloseSound
  <2>4. CASE Deactivate(p)
    BY <1>0, <2>4, DeactivateSound
  <2>5. CASE Activate(p)
    BY <1>0, <2>5, ActivateSound
  <2> QED
    BY <1>1, <2>1, <2>2, <2>3, <2>4, <2>5 DEF ApiCall
<1>2. ASSUME NEW p \in Phone, OpeningStep(p) PROVE SoundPhones'
  <2>1. PICK w \in Caller : Dial(p, w) \/ DialFails(p, w) \/ Adopt(p, w) \/ Hello(p, w) \/ HelloFails(p, w)
    BY <1>2 DEF OpeningStep
  <2>2. CASE Dial(p, w)
    BY <1>0, <2>2, DialSound
  <2>3. CASE DialFails(p, w)
    BY <1>0, <2>3, DialFailsSound
  <2>4. CASE Adopt(p, w)
    BY <1>0, <2>4, AdoptSound
  <2>5. CASE Hello(p, w)
    BY <1>0, <2>5, HelloSound
  <2>6. CASE HelloFails(p, w)
    BY <1>0, <2>6, HelloFailsSound
  <2> QED
    BY <2>1, <2>2, <2>3, <2>4, <2>5, <2>6
<1>3. ASSUME NEW p \in Phone, QueueStep(p) PROVE SoundPhones'
  <2>1. CASE \E c \in Conn : TransportEvent(p, c)
    BY <1>0, <2>1, TransportEventSound
  <2>2. CASE RunFailReconnect(p)
    BY <1>0, <2>2, RunFailReconnectSound
  <2>3. CASE RunReconnect(p)
    BY <1>0, <2>3, RunReconnectSound
  <2> QED
    BY <1>3, <2>1, <2>2, <2>3 DEF QueueStep
<1>4. ASSUME NEW p \in Phone, TimerStep(p) PROVE SoundPhones'
  <2>1. CASE HandshakeTimeout(p)
    BY <1>0, <2>1, HandshakeTimeoutSound
  <2>2. CASE ReconnectTimer(p)
    BY <1>0, <2>2, ReconnectTimerSound
  <2>3. CASE ResponderReconnectTimer(p)
    BY <1>0, <2>3, ResponderTimerSound
  <2> QED
    BY <1>4, <2>1, <2>2, <2>3 DEF TimerStep
<1>5. ASSUME NEW p \in Phone, NativeStep(p) PROVE SoundPhones'
  <2>1. CASE \E c \in Conn : Classify(p, c) \/ ClassifyRejects(p, c)
    <3>1. PICK c \in Conn : Classify(p, c) \/ ClassifyRejects(p, c)
      BY <2>1
    <3>2. CASE Classify(p, c)
      BY <1>0, <3>2, ClassifySound
    <3>3. CASE ClassifyRejects(p, c)
      BY <1>0, <3>3, ClassifyRejectsSound
    <3> QED
      BY <3>1, <3>2, <3>3
  <2>2. CASE EndOfStream(p)
    BY <1>0, <2>2, EndOfStreamSound
  <2> QED
    BY <1>5, <2>1, <2>2 DEF NativeStep
<1>6. ASSUME NEW p \in Phone, Reset(p) PROVE SoundPhones'
  BY <1>0, <1>6, ResetSound
<1>7. ASSUME NEW p \in Phone, Crash(p) PROVE SoundPhones'
  BY <1>0, <1>7, CrashSound
<1>8. CASE UNCHANGED vars
  <2>1. UNCHANGED <<ctl, opening, told, knocks, inbox>>
    BY <1>8 DEF vars, network
  <2> QED
    BY <2>1 DEF SoundPhones
<1> QED
  BY <1>1, <1>2, <1>3, <1>4, <1>5, <1>6, <1>7, <1>8 DEF Next

\* While only one of the two users asks for the partner's screen, no loss of a
\* session is silent: what subscribers were last told is alive is what the phone
\* holds or resumes (emit, and every place that drops the active connection).
THEOREM NoLossIsSilent ==
  ASSUME OneAsks
  PROVE  Spec => []NoSilentLoss
<1>1. Init => SoundPhones
  BY StartSound
<1>2. IInv /\ SoundPhones /\ [Next]_vars => SoundPhones'
  BY SoundInductive
<1>3. SoundPhones => NoSilentLoss
  BY DEF SoundPhones, SoundPhone, Sound, NoSilentLoss, Keyed
<1> QED
  BY <1>1, <1>2, <1>3, ChannelInvariant, PTL DEF Spec
=============================================================================
