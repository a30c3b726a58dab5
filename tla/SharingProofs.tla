---------------------------- MODULE SharingProofs ----------------------------
(***************************************************************************)
(* Proofs about the session controllers of two phones, for any number of   *)
(* sessions, any disturbances and any length of the queues: whoever        *)
(* watches was admitted (ViewerWasAdmitted), every request on a screen has *)
(* its time-out (RequestsAreTimed), and the first session on a screen has  *)
(* its channel (SessionHasChannel).                                        *)
(*                                                                         *)
(* An acceptance carries the session that the channel holds, not that of   *)
(* the request, so the invariant speaks of messages: a request comes from  *)
(* the phone that opened its session and an acceptance from a phone whose  *)
(* user agreed on that session, wherever they wait.                        *)
(*                                                                         *)
(* For the first session it also speaks of order: the request is the first *)
(* thing said, to a phone that does nothing yet, and what ends the session *)
(* comes after it.                                                         *)
(***************************************************************************)
EXTENDS SharingProperties, FiniteSetTheorems, SequenceTheorems, TLAPS

Letter == [sessionId : Session, body : Bodies]

\* The control events and time-outs that wait in a queue.
Notice ==
  [type : {"message"}, sessionId : Session, body : Bodies]
    \cup [type : {"timeout"}, sessionId : Session, body : {"timeout"}]
    \cup [type : {"error", "closed"}, sessionId : SessionOrNone, body : {"error", "closed"}]

States ==
  {Unpaired, Paired, ErrorShown}
    \cup {Outgoing(s) : s \in Session} \cup {Incoming(s) : s \in Session}
    \cup {Sharing(s, r) : s \in Session, r \in {"requester", "sharer"}}

Askings ==
  {NotAsking} \cup [step : {"calling", "returned", "threw"}, sessionId : Session]

\* A message to phone p says what is so: its session was opened (by the partner,
\* if it asks), and the partner's user agreed on it (if it accepts).
Honest(m, p, op, ad) ==
  /\ m.sessionId <= Len(op)
  /\ m.body = "request" => op[m.sessionId] = Other(p)
  /\ m.body = "accept" => m.sessionId \in ad[Other(p)]

Letters(p, op, ad) == {m \in Letter : Honest(m, p, op, ad)}
Notices(p, op, ad) == {e \in Notice : e.type = "message" => Honest(e, p, op, ad)}

-----------------------------------------------------------------------------
(* The inductive invariant. *)

\* A phone's end of the channel and the hellos to it know opened sessions only.
Knows(end, hellos, op) ==
  /\ {end.call, end.session, end.resume} \subseteq 0..Len(op)
  /\ \A s \in Session : hellos[s] # 0 => s <= Len(op)

Channel ==
  /\ chan \in [Phone -> End] /\ hello \in [Phone -> [Session -> 0..MaxHello]]
  /\ mail \in [Phone -> Seq(Letter)]
  /\ opener \in Seq(Phone) /\ Len(opener) <= MaxSession
  /\ admitted \in [Phone -> SUBSET Session]
  /\ \A p \in Phone : Knows(chan[p], hello[p], opener)
  /\ \A p \in Phone : mail[p] \in Seq(Letters(p, opener, admitted))

Controllers ==
  /\ product \in [Phone -> States] /\ timeout \in [Phone -> SessionOrNone]
  /\ asking \in [Phone -> Askings] /\ ending \in [Phone -> States \cup {Nothing}]
  /\ events \in [Phone -> Seq(Notice)]

\* connect() is under way for the session it opened, and the session it returned
\* is the one the channel holds when the request is sent.
Calls(p) ==
  /\ asking[p].step = "calling" <=> chan[p].call # 0
  /\ asking[p].step = "calling" => chan[p].call = asking[p].sessionId
  /\ asking[p].step = "returned" => chan[p].session = asking[p].sessionId
  /\ asking[p].step # "no" =>
       /\ product[p] = Paired /\ ending[p] = Nothing
       /\ asking[p].sessionId <= Len(opener) /\ opener[asking[p].sessionId] = p

\* Whoever asked opened the session; whoever watches was admitted to it.
Plays(p) ==
  Active(p) =>
    LET s == product[p].sessionId IN
    /\ s <= Len(opener)
    /\ product[p].role = "requester" <=> opener[s] = p
    /\ product[p] = Sharing(s, "requester") => s \in admitted[Other(p)]

\* The time-out of session s waits in a queue.
Rings(q, s) == \E i \in DOMAIN q : q[i].type = "timeout" /\ q[i].sessionId = s

\* A request that is not about to end has its time-out, also while a busy phone
\* sends another one away (ending leads back to the same state).
Timed(p) ==
  /\ InRequest(p) /\ ending[p] \in {Nothing, product[p]} =>
       timeout[p] = product[p].sessionId \/ Rings(events[p], product[p].sessionId)
  /\ timeout[p] # 0 => InRequest(p) /\ timeout[p] = product[p].sessionId
  /\ IsActive(ending[p]) => ending[p] = product[p]

\* A time-out that is armed, and a request to come, have a place in the queue.
Room(p) ==
  Len(events[p]) + (IF timeout[p] = 0 THEN 0 ELSE 1) + (IF asking[p].step = "no" THEN 0 ELSE 1)
    <= MaxEvents + 2

Mine(p) ==
  /\ Calls(p) /\ Plays(p) /\ Timed(p) /\ Room(p)
  /\ events[p] \in Seq(Notices(p, opener, admitted))

IInv == Channel /\ Controllers /\ \A p \in Phone : Mine(p)
-----------------------------------------------------------------------------
(* The two phones, and what messages say. *)

\* The partner is the other one of two.
LEMMA TwoPhones ==
  ASSUME NEW p \in Phone
  PROVE  Other(p) \in Phone /\ Other(p) # p /\ \A q \in Phone : q # p => q = Other(p)
<1>1. IsFiniteSet(Phone \ {p}) /\ Cardinality(Phone \ {p}) = 1
  BY FS_RemoveElement, PhoneAssumption
<1>2. PICK q : Phone \ {p} = {q}
  BY <1>1, FS_Singleton
<1> QED
  BY <1>2 DEF Other

LEMMA Bounds == MaxSession \in Nat /\ MaxHello \in Nat /\ MaxEvents \in Nat
  BY BoundAssumption, SharingAssumption

\* The history op of sessions goes on as op2.
Goes(op, op2) ==
  /\ op \in Seq(Phone) /\ op2 \in Seq(Phone)
  /\ Len(op) <= Len(op2) /\ \A s \in 1..Len(op) : op2[s] = op[s]

\* What was so stays so, in a longer history.
LEMMA StillHonest ==
  ASSUME NEW p \in Phone, NEW op, NEW op2, Goes(op, op2),
         NEW ad, NEW ad2, \A q \in Phone : ad[q] \subseteq ad2[q]
  PROVE  /\ Letters(p, op, ad) \subseteq Letters(p, op2, ad2)
         /\ Notices(p, op, ad) \subseteq Notices(p, op2, ad2)
<1>1. ASSUME NEW m, m.sessionId \in Session, Honest(m, p, op, ad)
      PROVE  Honest(m, p, op2, ad2)
  BY <1>1, TwoPhones, Bounds DEF Honest, Goes, Session
<1>2. \A m \in Letter : m.sessionId \in Session
  BY DEF Letter
<1>3. \A e \in Notice : e.type = "message" => e.sessionId \in Session
  BY DEF Notice
<1> QED
  BY <1>1, <1>2, <1>3 DEF Letters, Notices

\* Sequences over a larger set.
LEMMA Wider ==
  ASSUME NEW S, NEW T, S \subseteq T, NEW q \in Seq(S)
  PROVE  q \in Seq(T)
  BY SeqDef

LEMMA EmptyQueue == ASSUME NEW S PROVE <<>> \in Seq(S)
  OBVIOUS

LEMMA ShorterQueue ==
  ASSUME NEW S, NEW q \in Seq(S), q # <<>>
  PROVE  Tail(q) \in Seq(S) /\ Head(q) \in S /\ Len(Tail(q)) = Len(q) - 1
  OBVIOUS

LEMMA LongerQueue ==
  ASSUME NEW S, NEW q \in Seq(S), NEW r \in Seq(S)
  PROVE  q \o r \in Seq(S) /\ Len(q \o r) = Len(q) + Len(r)
  BY ConcatProperties

\* A time-out that waits goes on waiting behind others, and until it is handled.
LEMMA RingsOn ==
  ASSUME NEW S, NEW q \in Seq(S), NEW r \in Seq(S), NEW s
  PROVE  /\ Rings(q, s) => Rings(q \o r, s)
         /\ q # <<>> /\ Rings(q, s) /\ ~(Head(q).type = "timeout" /\ Head(q).sessionId = s)
              => Rings(Tail(q), s)
<1>1. ASSUME Rings(q, s) PROVE Rings(q \o r, s)
  <2>1. PICK i \in DOMAIN q : q[i].type = "timeout" /\ q[i].sessionId = s
    BY <1>1 DEF Rings
  <2>2. i \in DOMAIN (q \o r) /\ (q \o r)[i] = q[i]
    BY ConcatProperties
  <2> QED
    BY <2>1, <2>2 DEF Rings
<1>2. ASSUME q # <<>>, Rings(q, s), ~(Head(q).type = "timeout" /\ Head(q).sessionId = s)
      PROVE  Rings(Tail(q), s)
  <2>1. PICK i \in DOMAIN q : q[i].type = "timeout" /\ q[i].sessionId = s
    BY <1>2 DEF Rings
  <2>2. i # 1
    BY <2>1, <1>2
  <2>3. i - 1 \in DOMAIN Tail(q) /\ Tail(q)[i - 1] = q[i]
    BY <2>1, <2>2, <1>2
  <2> QED
    BY <2>1, <2>3 DEF Rings
<1> QED
  BY <1>1, <1>2
-----------------------------------------------------------------------------
(* What the steps of the channel leave. *)

Hellos(h) ==
  /\ h \in [Phone -> [Session -> 0..MaxHello]]
  /\ \A q \in Phone, s \in Session : h[q][s] # 0 => s <= Len(opener)

Mails(m) ==
  /\ m \in [Phone -> Seq(Letter)]
  /\ \A q \in Phone : m[q] \in Seq(Letters(q, opener, admitted))

Sides(c, p) ==
  /\ c \in [Phone -> End]
  /\ \A q \in Phone : {c[q].call, c[q].session, c[q].resume} \subseteq 0..Len(opener)
  /\ \A q \in Phone \ {p} : c[q] = chan[q]

\* A step of the channel of phone p that opens no session.
Moved(p) == Hellos(hello') /\ Mails(mail') /\ Sides(chan', p) /\ opener' = opener

LEMMA ChannelParts ==
  ASSUME Channel, NEW p \in Phone
  PROVE  /\ Hellos(hello) /\ Mails(mail) /\ Sides(chan, p)
         /\ chan[p] \in End /\ opener \in Seq(Phone) /\ Len(opener) \in 0..MaxSession
         /\ 0..Len(opener) \subseteq SessionOrNone
<1> USE Bounds
<1>1. Hellos(hello)
  BY DEF Channel, Hellos, Knows
<1>2. Mails(mail)
  BY DEF Channel, Mails
<1>3. Sides(chan, p)
  BY DEF Channel, Sides, Knows
<1>4. opener \in Seq(Phone) /\ Len(opener) \in 0..MaxSession
  BY DEF Channel
<1>5. chan[p] \in End
  BY DEF Channel
<1> QED
  BY <1>1, <1>2, <1>3, <1>4, <1>5 DEF SessionOrNone

\* The end of phone p, for the steps that change it.
LEMMA MyEnd ==
  ASSUME Channel, NEW p \in Phone
  PROVE  /\ chan[p] \in End /\ 0 \in SessionOrNone /\ 0 \in 0..Len(opener)
         /\ \A s \in 1..Len(opener) : s \in SessionOrNone
         /\ chan[p].call \in 0..Len(opener) /\ chan[p].session \in 0..Len(opener)
         /\ chan[p].resume \in 0..Len(opener)
<1>1. {chan[p].call, chan[p].session, chan[p].resume} \subseteq 0..Len(opener)
  BY DEF Channel, Knows
<1> QED
  BY <1>1, ChannelParts, Bounds DEF SessionOrNone

\* Fewer hellos are hellos.
LEMMA HellosStay ==
  ASSUME Channel, NEW p \in Phone, HellosFade(p)
  PROVE  Hellos(hello')
<1>1. PICK left \in [Session -> 0..MaxHello] :
        /\ \A s \in Session : left[s] <= hello[p][s]
        /\ hello' = [hello EXCEPT ![p] = left]
  BY DEF HellosFade
<1>2. Hellos(hello)
  BY ChannelParts
<1>3. hello' \in [Phone -> [Session -> 0..MaxHello]]
  BY <1>1, <1>2 DEF Hellos
<1>4. ASSUME NEW q \in Phone, NEW s \in Session, hello'[q][s] # 0
      PROVE  s <= Len(opener)
  <2>1. CASE q = p
    <3>1. left[s] \in 0..MaxHello /\ left[s] <= hello[p][s] /\ left[s] # 0
      BY <1>1, <1>2, <1>4, <2>1 DEF Hellos
    <3>2. hello[p][s] \in 0..MaxHello /\ hello[p][s] # 0
      BY <3>1, <1>2, Bounds DEF Hellos
    <3> QED
      BY <3>2, <1>2 DEF Hellos
  <2>2. CASE q # p
    <3>1. hello'[q] = hello[q]
      BY <1>1, <1>2, <2>2 DEF Hellos
    <3> QED
      BY <3>1, <1>2, <1>4 DEF Hellos
  <2> QED
    BY <2>1, <2>2
<1> QED
  BY <1>3, <1>4 DEF Hellos

\* Dropping the mail of a phone, or all behind or before some message.
LEMMA MailDrops ==
  ASSUME Channel, NEW p \in Phone
  PROVE  /\ Mails([mail EXCEPT ![p] = <<>>])
         /\ mail[p] # <<>> => Mails([mail EXCEPT ![p] = Tail(mail[p])])
         /\ \A n \in 0..Len(mail[p]) : Mails([mail EXCEPT ![p] = SubSeq(mail[p], 1, n)])
<1>1. ASSUME NEW r, r \in Seq(Letters(p, opener, admitted))
      PROVE  Mails([mail EXCEPT ![p] = r])
  <2>1. r \in Seq(Letter)
    BY <1>1, Wider DEF Letters
  <2> QED
    BY <1>1, <2>1, ChannelParts DEF Mails
<1>2. mail[p] \in Seq(Letters(p, opener, admitted))
  BY DEF Channel
<1>3. Mails([mail EXCEPT ![p] = <<>>])
  BY <1>1, EmptyQueue
<1>4. mail[p] # <<>> => Mails([mail EXCEPT ![p] = Tail(mail[p])])
  <2>1. SUFFICES ASSUME mail[p] # <<>>
                 PROVE  Tail(mail[p]) \in Seq(Letters(p, opener, admitted))
    BY <1>1
  <2> QED
    BY <1>2, <2>1, ShorterQueue
<1>5. ASSUME NEW n \in 0..Len(mail[p])
      PROVE  Mails([mail EXCEPT ![p] = SubSeq(mail[p], 1, n)])
  <2>1. SubSeq(mail[p], 1, n) \in Seq(Letters(p, opener, admitted))
    BY <1>2, SubSeqProperties
  <2> QED
    BY <1>1, <2>1
<1> QED
  BY <1>3, <1>4, <1>5

\* A changed end of phone p.
LEMMA SidesWith ==
  ASSUME Channel, NEW p \in Phone, NEW e \in End,
         {e.call, e.session, e.resume} \subseteq 0..Len(opener)
  PROVE  Sides([chan EXCEPT ![p] = e], p)
  BY ChannelParts DEF Sides
-----------------------------------------------------------------------------
(* One lemma per step of the channel. *)

\* A connect() that is over has returned the session it opened.
Settles(p) ==
  /\ chan'[p].call \in {0, chan[p].call}
  /\ chan'[p].call # chan[p].call => chan'[p].session = chan[p].call

LEMMA AuthenticatedMoves ==
  ASSUME Channel, NEW p \in Phone, NEW s \in 1..Len(opener), Authenticated(p, s),
         Hellos(hello')
  PROVE  Moved(p) /\ Settles(p)
<1> DEFINE e == [chan[p] EXCEPT !.session = s, !.told = s, !.resume = 0,
                                !.call = IF @ = s THEN 0 ELSE @]
<1>1. e \in End /\ e.session = s /\ e.resume = 0 /\ e.call \in {0, chan[p].call}
      /\ (e.call # chan[p].call => s = chan[p].call)
  BY MyEnd DEF End
<1>2. {chan[p].call, chan[p].session, chan[p].resume} \subseteq 0..Len(opener)
  BY MyEnd
<1>3. Sides([chan EXCEPT ![p] = e], p)
  <2> HIDE DEF e
  <2>1. {e.call, e.session, e.resume} \subseteq 0..Len(opener)
    BY <1>1, <1>2, ChannelParts
  <2> QED
    BY <1>1, <2>1, SidesWith
<1>4. chan' = [chan EXCEPT ![p] = e] /\ chan'[p] = e
  BY ChannelParts DEF Authenticated, Sides
<1>5. Moved(p)
  <2> HIDE DEF e
  <2> QED
    BY <1>3, <1>4, ChannelParts DEF Authenticated, Moved
<1> QED
  BY <1>1, <1>4, <1>5 DEF Settles

LEMMA ConnectReturnsMoves ==
  ASSUME Channel, NEW p \in Phone, ConnectReturns(p)
  PROVE  Moved(p) /\ Settles(p)
<1>1. chan[p].call \in 1..Len(opener)
  BY ChannelParts DEF ConnectReturns, Channel, Knows
<1> QED
  BY <1>1, AuthenticatedMoves, ChannelParts DEF ConnectReturns

LEMMA ResumesMoves ==
  ASSUME Channel, NEW p \in Phone, Resumes(p)
  PROVE  Moved(p) /\ Settles(p)
<1>1. chan[p].resume \in 1..Len(opener)
  BY ChannelParts DEF Resumes, Channel, Knows
<1> QED
  BY <1>1, AuthenticatedMoves, ChannelParts DEF Resumes

LEMMA AcceptsMoves ==
  ASSUME Channel, NEW p \in Phone, NEW s \in Session, Accepts(p, s)
  PROVE  Moved(p) /\ Settles(p)
<1>1. hello[p] \in [Session -> 0..MaxHello] /\ hello[p][s] \in 0..MaxHello \ {0}
  BY DEF Channel, Accepts
<1>2. s \in 1..Len(opener)
  BY <1>1, ChannelParts, Bounds DEF Hellos, Accepts, Session
<1>3. Hellos(hello')
  <2>1. hello' = [hello EXCEPT ![p] = [hello[p] EXCEPT ![s] = hello[p][s] - 1]]
    BY ChannelParts DEF Accepts, Hellos
  <2>2. [hello[p] EXCEPT ![s] = hello[p][s] - 1] \in [Session -> 0..MaxHello]
    BY <1>1, Bounds
  <2>3. hello' \in [Phone -> [Session -> 0..MaxHello]]
    BY <2>1, <2>2, ChannelParts DEF Hellos
  <2>4. ASSUME NEW q \in Phone, NEW t \in Session, hello'[q][t] # 0
        PROVE  t <= Len(opener)
    <3>1. (q = p /\ t = s) \/ hello'[q][t] = hello[q][t]
      BY <1>1, <2>1, ChannelParts DEF Hellos
    <3> QED
      BY <1>2, <2>4, <3>1, ChannelParts DEF Hellos
  <2> QED
    BY <2>3, <2>4 DEF Hellos
<1> QED
  BY <1>2, <1>3, AuthenticatedMoves DEF Accepts

\* Phone p lets go of connections: its end is e, and its mail is gone.
LEMMA LetsGo ==
  ASSUME Channel, NEW p \in Phone, HellosFade(p), UNCHANGED opener,
         NEW e \in End, {e.call, e.session, e.resume} \subseteq 0..Len(opener),
         chan' = [chan EXCEPT ![p] = e],
         mail' = mail \/ mail' = [mail EXCEPT ![p] = <<>>]
  PROVE  Moved(p) /\ chan'[p] = e
<1>1. Sides(chan', p)
  BY SidesWith
<1>2. chan'[p] = e
  BY ChannelParts DEF Sides
<1>3. Hellos(hello')
  BY HellosStay
<1>4. Mails(mail')
  BY MailDrops, ChannelParts
<1> QED
  BY <1>1, <1>2, <1>3, <1>4 DEF Moved

LEMMA CloseMoves ==
  ASSUME Channel, NEW p \in Phone, Close(p) \/ Deactivate(p)
  PROVE  Moved(p) /\ chan[p].call = 0 /\ chan'[p].call = 0
<1> DEFINE e == Closed(p)
           d == [Closed(p) EXCEPT !.context = FALSE]
<1>1. /\ e \in End /\ e.session = 0 /\ e.resume = 0 /\ e.call = chan[p].call
      /\ d \in End /\ d.session = 0 /\ d.resume = 0 /\ d.call = chan[p].call
  BY MyEnd DEF End, Closed
<1> HIDE DEF e, d
<1>2. chan[p].call = 0 /\ HellosFade(p) /\ UNCHANGED opener
      /\ mail' = [mail EXCEPT ![p] = <<>>]
  BY DEF Close, Deactivate
<1>3. /\ {e.call, e.session, e.resume} \subseteq 0..Len(opener)
      /\ {d.call, d.session, d.resume} \subseteq 0..Len(opener)
  BY <1>1, MyEnd
<1>4. CASE Close(p)
  <2>1. chan' = [chan EXCEPT ![p] = e]
    BY <1>4 DEF Close, e
  <2> QED
    BY <1>1, <1>2, <1>3, <2>1, LetsGo
<1>5. CASE Deactivate(p)
  <2>1. chan' = [chan EXCEPT ![p] = d]
    BY <1>5 DEF Deactivate, d
  <2> QED
    BY <1>1, <1>2, <1>3, <2>1, LetsGo
<1> QED
  BY <1>4, <1>5

LEMMA RestartsMoves ==
  ASSUME Channel, NEW p \in Phone, Restarts(p)
  PROVE  Moved(p) /\ chan'[p].call = 0
<1>1. NewEnd \in End /\ NewEnd.session = 0 /\ NewEnd.resume = 0 /\ NewEnd.call = 0
  BY MyEnd DEF End, NewEnd
<1>2. {NewEnd.call, NewEnd.session, NewEnd.resume} \subseteq 0..Len(opener)
  BY <1>1, MyEnd
<1> QED
  BY <1>1, <1>2, LetsGo DEF Restarts

LEMMA InterruptedMoves ==
  ASSUME Channel, NEW p \in Phone, Interrupted(p)
  PROVE  Moved(p) /\ chan'[p].call = chan[p].call
<1> DEFINE e == [chan[p] EXCEPT !.resume = chan[p].session, !.session = 0]
<1>1. e \in End /\ e.session = 0 /\ e.resume = chan[p].session /\ e.call = chan[p].call
  BY MyEnd DEF End
<1>2. chan' = [chan EXCEPT ![p] = e]
  BY DEF Interrupted
<1> HIDE DEF e
<1>3. {e.call, e.session, e.resume} \subseteq 0..Len(opener)
  BY <1>1, MyEnd
<1> QED
  BY <1>1, <1>2, <1>3, LetsGo DEF Interrupted

LEMMA ThrowsMoves ==
  ASSUME Channel, NEW p \in Phone, ConnectThrows(p) \/ ConnectThrowsAndResumes(p)
  PROVE  Moved(p) /\ chan[p].call # 0 /\ chan'[p].call = 0
<1> DEFINE e == [chan[p] EXCEPT !.call = 0]
           d == [chan[p] EXCEPT !.resume = chan[p].call, !.call = 0, !.session = 0]
<1>1. /\ e \in End /\ e.session = chan[p].session /\ e.resume = chan[p].resume /\ e.call = 0
      /\ d \in End /\ d.session = 0 /\ d.resume = chan[p].call /\ d.call = 0
  BY MyEnd DEF End
<1>2. chan[p].call # 0 /\ HellosFade(p) /\ UNCHANGED opener
      /\ (mail' = mail \/ mail' = [mail EXCEPT ![p] = <<>>])
  BY DEF ConnectThrows, ConnectThrowsAndResumes
<1>3. ConnectThrows(p) => chan' = [chan EXCEPT ![p] = e]
  BY DEF ConnectThrows
<1>4. ConnectThrowsAndResumes(p) => chan' = [chan EXCEPT ![p] = d]
  BY DEF ConnectThrowsAndResumes
<1> HIDE DEF e, d
<1>5. /\ {e.call, e.session, e.resume} \subseteq 0..Len(opener)
      /\ {d.call, d.session, d.resume} \subseteq 0..Len(opener)
  BY <1>1, MyEnd
<1>6. CASE ConnectThrows(p)
  BY <1>1, <1>2, <1>3, <1>5, <1>6, LetsGo
<1>7. CASE ConnectThrowsAndResumes(p)
  BY <1>1, <1>2, <1>4, <1>5, <1>7, LetsGo
<1> QED
  BY <1>6, <1>7

LEMMA ReplacesMoves ==
  ASSUME Channel, NEW p \in Phone, ConnectReplaces(p)
  PROVE  Moved(p) /\ chan'[p].call = chan[p].call
<1> DEFINE e == [chan[p] EXCEPT !.session = 0]
<1>1. e \in End /\ e.session = 0 /\ e.resume = chan[p].resume /\ e.call = chan[p].call
  BY MyEnd DEF End
<1>2. chan' = [chan EXCEPT ![p] = e]
  BY DEF ConnectReplaces
<1> HIDE DEF e
<1>3. {e.call, e.session, e.resume} \subseteq 0..Len(opener)
  BY <1>1, MyEnd
<1> QED
  BY <1>1, <1>2, <1>3, LetsGo DEF ConnectReplaces

LEMMA GivesUpMoves ==
  ASSUME Channel, NEW p \in Phone, GivesUp(p)
  PROVE  Moved(p) /\ chan'[p].call = chan[p].call
<1> DEFINE e == [chan[p] EXCEPT !.resume = 0, !.told = 0]
<1>1. e \in End /\ e.session = chan[p].session /\ e.resume = 0 /\ e.call = chan[p].call
  BY MyEnd DEF End
<1>2. chan' = [chan EXCEPT ![p] = e]
  BY DEF GivesUp
<1> HIDE DEF e
<1>3. {e.call, e.session, e.resume} \subseteq 0..Len(opener)
  BY <1>1, MyEnd
<1> QED
  BY <1>1, <1>2, <1>3, LetsGo DEF GivesUp

LEMMA HandshakeFailsMoves ==
  ASSUME Channel, NEW p \in Phone, HandshakeFails(p)
  PROVE  Moved(p) /\ chan'[p].call \in {0, chan[p].call}
<1>1. PICK call \in {0, chan[p].call} :
        chan' = [chan EXCEPT ![p].call = call, ![p].told = 0]
  BY DEF HandshakeFails
<1> DEFINE e == [chan[p] EXCEPT !.call = call, !.told = 0]
<1>2. e \in End /\ e.session = chan[p].session /\ e.resume = chan[p].resume /\ e.call = call
  BY MyEnd DEF End
<1>3. chan' = [chan EXCEPT ![p] = e]
  BY <1>1, ChannelParts DEF Sides
<1> HIDE DEF e
<1>4. {e.call, e.session, e.resume} \subseteq 0..Len(opener)
  BY <1>2, MyEnd
<1> QED
  BY <1>2, <1>3, <1>4, LetsGo DEF HandshakeFails
LEMMA NothingMoves ==
  ASSUME Channel, NEW p \in Phone, UNCHANGED channelVars
  PROVE  Moved(p) /\ chan' = chan
  BY ChannelParts DEF channelVars, Moved

LEMMA DialsMoves ==
  ASSUME Channel, NEW p \in Phone, Dials(p)
  PROVE  Moved(p) /\ chan' = chan
<1>1. PICK s \in {chan[p].call, chan[p].resume} \ {0} :
        hello[Other(p)][s] < MaxHello /\ hello' = [hello EXCEPT ![Other(p)][s] = @ + 1]
  BY DEF Dials
<1>2. s \in 1..Len(opener) /\ s \in Session
  BY <1>1, MyEnd, ChannelParts, Bounds DEF Session
<1>3. hello[Other(p)] \in [Session -> 0..MaxHello] /\ hello[Other(p)][s] \in 0..MaxHello
  BY <1>2, TwoPhones DEF Channel
<1> DEFINE h == [hello[Other(p)] EXCEPT ![s] = hello[Other(p)][s] + 1]
<1>4. hello' = [hello EXCEPT ![Other(p)] = h] /\ h \in [Session -> 0..MaxHello]
  <2>1. hello[Other(p)][s] + 1 \in 0..MaxHello
    BY <1>1, <1>3, Bounds
  <2>2. hello' = [hello EXCEPT ![Other(p)] = h]
    BY <1>1
  <2> QED
    BY <1>3, <2>1, <2>2
<1>5. ASSUME NEW q \in Phone, NEW t \in Session, hello'[q][t] # 0
      PROVE  t <= Len(opener)
  <2>1. (q = Other(p) /\ t = s) \/ hello'[q][t] = hello[q][t]
    BY <1>3, <1>4, TwoPhones, ChannelParts DEF Hellos
  <2> QED
    BY <1>2, <1>5, <2>1, ChannelParts DEF Hellos
<1>6. Hellos(hello')
  <2> HIDE DEF h
  <2>1. hello' \in [Phone -> [Session -> 0..MaxHello]]
    BY <1>4, TwoPhones, ChannelParts DEF Hellos
  <2> QED
    BY <1>5, <2>1 DEF Hellos
<1>7. Mails(mail')
  <2>1. mail' = [mail EXCEPT ![p] = <<>>] \/ mail' = mail
    BY ChannelParts DEF Dials, Mails
  <2> QED
    BY <2>1, MailDrops, ChannelParts
<1> QED
  BY <1>6, <1>7, ChannelParts DEF Moved, Dials

LEMMA LosesMoves ==
  ASSUME Channel, NEW p \in Phone, Loses(p)
  PROVE  Moved(p) /\ chan' = chan
<1>1. Hellos(hello')
  BY HellosStay DEF Loses
<1>2. PICK n \in 0..Len(mail[p]) : mail' = [mail EXCEPT ![p] = SubSeq(mail[p], 1, n)]
  BY DEF Loses
<1>3. Mails(mail')
  BY <1>2, MailDrops
<1> QED
  BY <1>1, <1>3, ChannelParts DEF Moved, Loses

LEMMA DeliversMoves ==
  ASSUME Channel, NEW p \in Phone, Delivers(p)
  PROVE  Moved(p) /\ chan' = chan /\ Head(mail[p]) \in Letters(p, opener, admitted)
<1>1. mail[p] # <<>> /\ mail[p] \in Seq(Letters(p, opener, admitted))
  BY DEF Delivers, Channel
<1>2. Mails(mail')
  BY <1>1, MailDrops DEF Delivers
<1>3. Head(mail[p]) \in Letters(p, opener, admitted)
  BY <1>1, ShorterQueue
<1> QED
  BY <1>2, <1>3, ChannelParts DEF Moved, Delivers

\* The letters that phone p may send without a user's agreement.
LEMMA SentMoves ==
  ASSUME Channel, NEW p \in Phone, NEW body \in Bodies \ {"accept"}, Sent(p, body),
         body = "request" => opener[chan[p].session] = p
  PROVE  Moved(p) /\ chan' = chan
<1> DEFINE m == [sessionId |-> chan[p].session, body |-> body]
           q == Other(p)
<1>1. chan[p].session \in 1..Len(opener) /\ chan[p].session \in Session
  BY MyEnd, ChannelParts, Bounds DEF Sent, Session
<1>2. m \in Letter
  BY <1>1 DEF Letter
<1>3. q \in Phone /\ Other(q) = p
  BY TwoPhones
<1>4. m \in Letters(q, opener, admitted)
  BY <1>1, <1>2, <1>3 DEF Letters, Honest
<1>5. mail' = mail \/ mail' = [mail EXCEPT ![q] = Append(mail[q], m)]
  BY DEF Sent
<1>6. Mails(mail')
  <2> HIDE DEF m, q
  <2>1. Append(mail[q], m) \in Seq(Letter)
    BY <1>2, <1>3 DEF Channel
  <2>2. mail[q] \in Seq(Letters(q, opener, admitted))
    BY <1>3 DEF Channel
  <2>3. Append(mail[q], m) \in Seq(Letters(q, opener, admitted))
    BY <1>4, <2>2, AppendProperties
  <2> QED
    BY <1>3, <1>5, <2>1, <2>3, ChannelParts DEF Mails
<1> QED
  BY <1>6, ChannelParts DEF Moved, Sent

LEMMA TrySendMoves ==
  ASSUME Channel, NEW p \in Phone, NEW body \in Bodies \ {"accept"},
         TrySend(p, body) \/ Sends(p, body) \/ SendThrows(p),
         body = "request" => opener[chan[p].session] = p
  PROVE  Moved(p) /\ chan'[p].call = chan[p].call
<1>1. CASE Sends(p, body)
  BY <1>1, SentMoves DEF Sends
<1>2. CASE SendThrows(p)
  BY <1>2, NothingMoves, InterruptedMoves DEF SendThrows
<1> QED
  BY <1>1, <1>2 DEF TrySend
-----------------------------------------------------------------------------
(* The states of a controller. *)

LEMMA Kinds ==
  /\ {Unpaired, Paired, ErrorShown} \subseteq States
  /\ Unpaired.type = "Unpaired" /\ Paired.type = "Paired" /\ ErrorShown.type = "Error"
  /\ Nothing.type = "Nothing" /\ Nothing \notin States
  /\ \A s \in Session :
       /\ Outgoing(s) \in States /\ Incoming(s) \in States
       /\ Sharing(s, "requester") \in States /\ Sharing(s, "sharer") \in States
  /\ \A s : /\ Outgoing(s).type = "OutgoingRequest" /\ Outgoing(s).sessionId = s
            /\ Outgoing(s).role = "requester"
            /\ Incoming(s).type = "IncomingRequest" /\ Incoming(s).sessionId = s
            /\ Incoming(s).role = "sharer"
  /\ \A s, r : /\ Sharing(s, r).type = "Connected" /\ Sharing(s, r).sessionId = s
               /\ Sharing(s, r).role = r
<1>1. /\ Unpaired.type = "Unpaired" /\ Paired.type = "Paired" /\ ErrorShown.type = "Error"
      /\ Nothing.type = "Nothing"
  BY DEF Unpaired, Paired, ErrorShown, Nothing, State
<1>2. \A s : /\ Outgoing(s).type = "OutgoingRequest" /\ Outgoing(s).sessionId = s
            /\ Outgoing(s).role = "requester"
            /\ Incoming(s).type = "IncomingRequest" /\ Incoming(s).sessionId = s
            /\ Incoming(s).role = "sharer"
  BY DEF Outgoing, Incoming, State
<1>3. \A s, r : /\ Sharing(s, r).type = "Connected" /\ Sharing(s, r).sessionId = s
               /\ Sharing(s, r).role = r
  BY DEF Sharing, State
<1>4. /\ {Unpaired, Paired, ErrorShown} \subseteq States
      /\ \A s \in Session :
           /\ Outgoing(s) \in States /\ Incoming(s) \in States
           /\ Sharing(s, "requester") \in States /\ Sharing(s, "sharer") \in States
  BY DEF States
<1>5. Nothing \notin States
  BY <1>1, <1>2, <1>3 DEF States
<1> QED
  BY <1>1, <1>2, <1>3, <1>4, <1>5

LEMMA KindsActive ==
  /\ ~IsActive(Unpaired) /\ ~IsActive(Paired) /\ ~IsActive(ErrorShown) /\ ~IsActive(Nothing)
  /\ \A s : IsActive(Outgoing(s)) /\ IsActive(Incoming(s))
  /\ \A s, r : IsActive(Sharing(s, r))
  BY Kinds DEF IsActive, ActiveTypes

LEMMA KindOf ==
  ASSUME NEW x \in States
  PROVE  /\ x.type = "Paired" <=> x = Paired
         /\ x.type = "IncomingRequest" => x = Incoming(x.sessionId)
         /\ x.type = "OutgoingRequest" => x = Outgoing(x.sessionId)
         /\ x.type = "Connected" =>
              x = Sharing(x.sessionId, "requester") \/ x = Sharing(x.sessionId, "sharer")
         /\ IsActive(x) => x.sessionId \in Session
         /\ ~IsActive(x) => x \in {Unpaired, Paired, ErrorShown}
         /\ x # Nothing
<1>1. x # Nothing
  BY Kinds
<1>2. CASE x \in {Unpaired, Paired, ErrorShown}
  BY <1>1, <1>2, Kinds, KindsActive
<1>3. CASE \E s \in Session : x = Outgoing(s)
  BY <1>1, <1>3, Kinds, KindsActive
<1>4. CASE \E s \in Session : x = Incoming(s)
  BY <1>1, <1>4, Kinds, KindsActive
<1>5. CASE \E s \in Session : x = Sharing(s, "requester") \/ x = Sharing(s, "sharer")
  BY <1>1, <1>5, Kinds, KindsActive
<1> QED
  BY <1>2, <1>3, <1>4, <1>5 DEF States

\* The controller of one phone.
LEMMA MyParts ==
  ASSUME IInv, NEW p \in Phone
  PROVE  /\ product[p] \in States /\ timeout[p] \in SessionOrNone /\ asking[p] \in Askings
         /\ ending[p] \in States \cup {Nothing} /\ events[p] \in Seq(Notice)
         /\ Calls(p) /\ Plays(p) /\ Timed(p) /\ Room(p)
         /\ events[p] \in Seq(Notices(p, opener, admitted))
  BY DEF IInv, Controllers, Mine

LEMMA MyAsking ==
  ASSUME IInv, NEW p \in Phone
  PROVE  /\ asking[p].step = "no" <=> asking[p] = NotAsking
         /\ asking[p].step \in {"no", "calling", "returned", "threw"}
         /\ asking[p].step # "no" => asking[p].sessionId \in Session
  BY MyParts DEF Askings, NotAsking

LEMMA NoticesAre ==
  ASSUME NEW p, NEW op, NEW ad, NEW e \in Notices(p, op, ad)
  PROVE  /\ e.type \in {"message", "timeout", "error", "closed"}
         /\ e.type = "message" => e.sessionId \in Session /\ e.body \in Bodies
                                    /\ Honest(e, p, op, ad)
  BY DEF Notices, Notice

-----------------------------------------------------------------------------
(* A step of one phone, put together. *)

\* The controllers of the other phones do nothing.
Elsewhere(p) ==
  \A q \in Phone \ {p} :
    /\ product'[q] = product[q] /\ timeout'[q] = timeout[q] /\ asking'[q] = asking[q]
    /\ ending'[q] = ending[q] /\ events'[q] = events[q]

LEMMA OthersStay ==
  ASSUME IInv, NEW p \in Phone, Elsewhere(p), NEW q \in Phone \ {p},
         chan'[q] = chan[q], Goes(opener, opener'),
         \A r \in Phone : admitted[r] \subseteq admitted'[r]
  PROVE  Mine(q)'
<1>1. /\ product'[q] = product[q] /\ timeout'[q] = timeout[q] /\ asking'[q] = asking[q]
      /\ ending'[q] = ending[q] /\ events'[q] = events[q]
  BY DEF Elsewhere
<1>2. Calls(q) /\ Plays(q) /\ Timed(q) /\ Room(q) /\ product[q] \in States
      /\ events[q] \in Seq(Notices(q, opener, admitted))
  BY MyParts
<1>3. Calls(q)'
  <2>1. asking[q].step # "no" => asking[q].sessionId \in Session
    BY MyAsking
  <2> QED
    BY <1>1, <1>2, <2>1, Bounds DEF Calls, Goes, Session
<1>4. Plays(q)'
  <2>1. Active(q) => product[q].sessionId \in Session
    BY KindOf, <1>2 DEF Active
  <2>2. Other(q) \in Phone
    BY TwoPhones
  <2> QED
    BY <1>1, <1>2, <2>1, <2>2, Bounds DEF Plays, Active, Goes, Session
<1>5. Timed(q)' /\ Room(q)'
  BY <1>1, <1>2 DEF Timed, Room, InRequest, Active
<1>6. events'[q] \in Seq(Notices(q, opener', admitted'))
  BY <1>1, <1>2, StillHonest, Wider
<1> QED
  BY <1>3, <1>4, <1>5, <1>6 DEF Mine

LEMMA Assembled ==
  ASSUME IInv, NEW p \in Phone, Moved(p), admitted' = admitted, Controllers',
         Elsewhere(p), Mine(p)'
  PROVE  IInv'
<1>1. Channel'
  <2>1. opener' = opener
    BY DEF Moved
  <2>2. \A q \in Phone : Knows(chan'[q], hello'[q], opener)
    BY DEF Moved, Hellos, Sides, Knows
  <2>3. \A q \in Phone : mail'[q] \in Seq(Letters(q, opener, admitted))
    BY DEF Moved, Mails
  <2>4. Channel
    BY DEF IInv
  <2> QED
    BY <2>1, <2>2, <2>3, <2>4 DEF Moved, Hellos, Mails, Sides, Channel
<1>2. ASSUME NEW q \in Phone \ {p} PROVE Mine(q)'
  <2>1. chan'[q] = chan[q] /\ opener' = opener /\ opener \in Seq(Phone)
    BY DEF Moved, Sides, IInv, Channel
  <2>2. Goes(opener, opener')
    BY <2>1 DEF Goes
  <2> QED
    BY <2>1, <2>2, OthersStay
<1> QED
  BY <1>1, <1>2 DEF IInv
\* Function f is changed for phone p at most, to a value of S.
Writes(f, g, p, S) == g = f \/ \E v \in S : g = [f EXCEPT ![p] = v]

Turns(p) ==
  /\ Writes(product, product', p, States) /\ Writes(timeout, timeout', p, SessionOrNone)
  /\ Writes(asking, asking', p, Askings) /\ Writes(ending, ending', p, States \cup {Nothing})
  /\ Writes(events, events', p, Seq(Notice))

LEMMA TurnedAlone ==
  ASSUME IInv, NEW p \in Phone, Turns(p)
  PROVE  Controllers' /\ Elsewhere(p)
<1>1. Controllers
  BY DEF IInv
<1>2. product' \in [Phone -> States] /\ \A q \in Phone \ {p} : product'[q] = product[q]
  <2>1. Writes(product, product', p, States) /\ product \in [Phone -> States]
    BY <1>1 DEF Turns, Controllers
  <2> QED
    BY <2>1 DEF Writes
<1>3. timeout' \in [Phone -> SessionOrNone] /\ \A q \in Phone \ {p} : timeout'[q] = timeout[q]
  <2>1. Writes(timeout, timeout', p, SessionOrNone) /\ timeout \in [Phone -> SessionOrNone]
    BY <1>1 DEF Turns, Controllers
  <2> QED
    BY <2>1 DEF Writes
<1>4. asking' \in [Phone -> Askings] /\ \A q \in Phone \ {p} : asking'[q] = asking[q]
  <2>1. Writes(asking, asking', p, Askings) /\ asking \in [Phone -> Askings]
    BY <1>1 DEF Turns, Controllers
  <2> QED
    BY <2>1 DEF Writes
<1>5. ending' \in [Phone -> States \cup {Nothing}]
      /\ \A q \in Phone \ {p} : ending'[q] = ending[q]
  <2>1. Writes(ending, ending', p, States \cup {Nothing}) /\ ending \in [Phone -> States \cup {Nothing}]
    BY <1>1 DEF Turns, Controllers
  <2> QED
    BY <2>1 DEF Writes
<1>6. events' \in [Phone -> Seq(Notice)] /\ \A q \in Phone \ {p} : events'[q] = events[q]
  <2>1. Writes(events, events', p, Seq(Notice)) /\ events \in [Phone -> Seq(Notice)]
    BY <1>1 DEF Turns, Controllers
  <2> QED
    BY <2>1 DEF Writes
<1> QED
  BY <1>2, <1>3, <1>4, <1>5, <1>6 DEF Controllers, Elsewhere

\* The variables of a controller, typed, for the steps that write some of them.
LEMMA MyTables ==
  ASSUME IInv
  PROVE  /\ product \in [Phone -> States] /\ timeout \in [Phone -> SessionOrNone]
         /\ asking \in [Phone -> Askings] /\ ending \in [Phone -> States \cup {Nothing}]
         /\ events \in [Phone -> Seq(Notice)]
         /\ 0 \in SessionOrNone /\ NotAsking \in Askings /\ <<>> \in Seq(Notice) /\ Channel
  BY Bounds DEF IInv, Controllers, SessionOrNone, Askings

\* A controller that is left without a request or a session.
LEMMA ComesToRest ==
  ASSUME IInv, NEW p \in Phone, Moved(p), Turns(p), admitted' = admitted,
         product'[p] \in {Unpaired, Paired, ErrorShown}, timeout'[p] = 0,
         asking'[p] = NotAsking, chan'[p].call = 0, ~IsActive(ending'[p]),
         Len(events'[p]) <= MaxEvents + 2,
         events'[p] \in Seq(Notices(p, opener, admitted))
  PROVE  IInv'
<1>1. ~IsActive(product'[p]) /\ product'[p].type \notin {"IncomingRequest", "OutgoingRequest"}
  BY Kinds, KindsActive
<1>2. NotAsking.step = "no"
  BY DEF NotAsking
<1>3. Calls(p)'
  BY <1>2 DEF Calls
<1>4. Plays(p)'
  BY <1>1 DEF Plays, Active
<1>5. Timed(p)'
  BY <1>1 DEF Timed, InRequest
<1>6. Room(p)'
  <2>1. Len(events'[p]) \in Nat
    BY LenProperties
  <2> QED
    BY <1>2, <2>1, Bounds DEF Room
<1>7. opener' = opener
  BY DEF Moved
<1> QED
  BY <1>3, <1>4, <1>5, <1>6, <1>7, TurnedAlone, Assembled DEF Mine

\* A controller that stays in its state: its request keeps the time-out, unless
\* it is about to end.
LEMMA StaysInState ==
  ASSUME IInv, NEW p \in Phone, Moved(p), Turns(p), admitted' = admitted,
         product'[p] = product[p], timeout'[p] \in {0, timeout[p]},
         asking[p] = NotAsking, asking'[p] = NotAsking, chan'[p].call = chan[p].call,
         InRequest(p) /\ ending'[p] \in {Nothing, product[p]} =>
           timeout'[p] = product[p].sessionId \/ Rings(events'[p], product[p].sessionId),
         IsActive(ending'[p]) => ending'[p] = product[p],
         Len(events'[p]) <= Len(events[p]),
         events'[p] \in Seq(Notices(p, opener, admitted))
  PROVE  IInv'
<1>1. NotAsking.step = "no"
  BY DEF NotAsking
<1>2. Calls(p) /\ Plays(p) /\ Timed(p) /\ Room(p) /\ events[p] \in Seq(Notice)
  BY MyParts
<1>3. Calls(p)'
  BY <1>1, <1>2 DEF Calls
<1>4. opener' = opener
  BY DEF Moved
<1>5. Plays(p)'
  BY <1>2, <1>4 DEF Plays, Active
<1>6. Timed(p)'
  BY <1>2 DEF Timed, InRequest
<1>7. Room(p)'
  <2>1. Len(events'[p]) \in Nat /\ Len(events[p]) \in Nat
    BY <1>2, LenProperties
  <2> DEFINE a == IF timeout[p] = 0 THEN 0 ELSE 1
             b == IF timeout'[p] = 0 THEN 0 ELSE 1
  <2>2. a \in {0, 1} /\ b \in {0, 1} /\ b <= a
    OBVIOUS
  <2>3. Len(events[p]) + a + 0 <= MaxEvents + 2
    BY <1>1, <1>2 DEF Room
  <2>4. Room(p)' <=> Len(events'[p]) + b + 0 <= MaxEvents + 2
    BY <1>1 DEF Room
  <2> HIDE DEF a, b
  <2> QED
    BY <2>1, <2>2, <2>3, <2>4, Bounds
<1> QED
  BY <1>3, <1>4, <1>5, <1>6, <1>7, TurnedAlone, Assembled DEF Mine

\* The room in a queue, as numbers.
LEMMA RoomIs ==
  ASSUME IInv, NEW p \in Phone
  PROVE  /\ Len(events[p]) \in 0..(MaxEvents + 2)
         /\ timeout[p] # 0 \/ asking[p].step # "no" => Len(events[p]) + 1 <= MaxEvents + 2
<1>1. Len(events[p]) \in Nat
  BY MyParts, LenProperties
<1> DEFINE a == IF timeout[p] = 0 THEN 0 ELSE 1
           b == IF asking[p].step = "no" THEN 0 ELSE 1
<1>2. /\ a \in {0, 1} /\ b \in {0, 1}
      /\ timeout[p] # 0 => a = 1
      /\ asking[p].step # "no" => b = 1
  OBVIOUS
<1>3. Room(p)
  BY MyParts
<1>4. Len(events[p]) + a + b <= MaxEvents + 2
  BY <1>3 DEF Room
<1> HIDE DEF a, b
<1> QED
  BY <1>1, <1>2, <1>4, Bounds

\* What an idle controller has.
LEMMA WhenIdle ==
  ASSUME IInv, NEW p \in Phone, Idle(p) \/ ending[p] # Nothing
  PROVE  /\ asking[p] = NotAsking /\ chan[p].call = 0
         /\ product[p] = Paired \/ ~InRequest(p) => timeout[p] = 0
         /\ Len(events[p]) \in 0..(MaxEvents + 2)
<1>1. asking[p] = NotAsking
  BY MyParts, MyAsking DEF Idle, Calls
<1>2. chan[p].call = 0
  BY <1>1, MyParts DEF Calls, NotAsking
<1>3. product[p] = Paired \/ ~InRequest(p) => timeout[p] = 0
  BY MyParts, Kinds DEF Timed, InRequest
<1>4. Len(events[p]) \in 0..(MaxEvents + 2)
  BY RoomIs
<1> QED
  BY <1>1, <1>2, <1>3, <1>4-----------------------------------------------------------------------------
(* requestScreen. *)

LEMMA AskKeeps ==
  ASSUME IInv, NEW p \in Phone, Ask(p)
  PROVE  IInv'
<1> DEFINE n == Len(opener) + 1
           e == [chan[p] EXCEPT !.call = n]
<1>1. Channel /\ opener \in Seq(Phone) /\ Len(opener) \in Nat /\ n \in Session
  BY MyTables, ChannelParts, Bounds DEF Ask, Connect, Session, lastSession
<1>2. /\ opener' = Append(opener, p) /\ opener' \in Seq(Phone) /\ Len(opener') = n
      /\ opener'[n] = p /\ Goes(opener, opener')
  BY <1>1 DEF Ask, Connect, Goes
<1>3. chan' = [chan EXCEPT ![p] = e] /\ UNCHANGED <<mail, hello, admitted>>
  BY DEF Ask, Connect, lastSession
<1>4. /\ e \in End /\ e.call = n /\ e.session = chan[p].session /\ e.resume = chan[p].resume
      /\ chan' \in [Phone -> End] /\ chan'[p] = e /\ \A q \in Phone \ {p} : chan'[q] = chan[q]
  <2>1. chan[p] \in End /\ n \in SessionOrNone
    BY <1>1, ChannelParts DEF Session, SessionOrNone
  <2>2. e \in End /\ e.call = n /\ e.session = chan[p].session /\ e.resume = chan[p].resume
    BY <2>1 DEF End
  <2> HIDE DEF e
  <2> QED
    BY <1>1, <1>3, <2>2 DEF Channel
<1> HIDE DEF e
<1>5. Channel'
  <2>1. ASSUME NEW q \in Phone PROVE Knows(chan'[q], hello'[q], opener')
    <3>1. Knows(chan[q], hello[q], opener)
      BY <1>1 DEF Channel
    <3>2. 0..Len(opener) \subseteq 0..n /\ n \in 0..n /\ \A s \in Session : s <= Len(opener) => s <= n
      BY <1>1 DEF Session
    <3>3. {chan'[q].call, chan'[q].session, chan'[q].resume} \subseteq 0..n
      <4>1. CASE q = p
        BY <1>4, <3>1, <3>2, <4>1 DEF Knows
      <4>2. CASE q # p
        BY <1>4, <3>1, <3>2, <4>2 DEF Knows
      <4> QED
        BY <4>1, <4>2
    <3> HIDE DEF n
    <3> QED
      BY <1>2, <1>3, <3>1, <3>2, <3>3 DEF Knows
  <2>2. ASSUME NEW q \in Phone PROVE mail'[q] \in Seq(Letters(q, opener', admitted'))
    <3>1. mail[q] \in Seq(Letters(q, opener, admitted))
      BY <1>1 DEF Channel
    <3>2. Letters(q, opener, admitted) \subseteq Letters(q, opener', admitted')
      BY <1>2, <1>3, StillHonest
    <3> QED
      BY <1>3, <3>1, <3>2, Wider
  <2>3. n <= MaxSession
    BY <1>1 DEF Session
  <2> HIDE DEF n
  <2> QED
    BY <1>1, <1>2, <1>3, <1>4, <2>1, <2>2, <2>3 DEF Channel
<1>6. /\ product[p] = Paired /\ ending[p] = Nothing /\ events[p] = <<>>
      /\ UNCHANGED <<product, timeout, ending, events>>
      /\ asking' = [asking EXCEPT ![p] = [step |-> "calling", sessionId |-> n]]
  BY DEF Ask, Ready, Idle, lastSession
<1>7. [step |-> "calling", sessionId |-> n] \in Askings
  BY <1>1 DEF Askings
<1>8. Turns(p)
  BY <1>6, <1>7 DEF Turns, Writes
<1>9. asking'[p].step = "calling" /\ asking'[p].sessionId = n
  BY <1>6, MyTables
<1>10. Mine(p)'
  <2>1. Calls(p)'
    BY <1>1, <1>2, <1>4, <1>6, <1>9, <1>5 DEF Calls
  <2>2. timeout'[p] = 0 /\ ~IsActive(product'[p]) /\ ~InRequest(p)' /\ ~IsActive(ending'[p])
    BY <1>6, MyParts, Kinds, KindsActive DEF Timed, InRequest
  <2>3. Plays(p)'
    BY <2>2 DEF Plays, Active
  <2>4. Timed(p)'
    BY <2>2 DEF Timed
  <2>5. Room(p)'
    <3>1. Len(events'[p]) = 0 /\ timeout'[p] = 0 /\ asking'[p].step # "no"
      BY <1>6, <2>2, <1>9
    <3> QED
      BY <3>1, Bounds DEF Room
  <2>6. events'[p] \in Seq(Notices(p, opener', admitted'))
    BY <1>6, EmptyQueue
  <2> QED
    BY <2>1, <2>3, <2>4, <2>5, <2>6 DEF Mine
<1>11. ASSUME NEW q \in Phone \ {p} PROVE Mine(q)'
  BY <1>2, <1>3, <1>4, <1>8, TurnedAlone, OthersStay
<1> QED
  BY <1>5, <1>8, <1>10, <1>11, TurnedAlone DEF IInv
\* What closing the channel and showing a state at rest leaves.
LEMMA ClosedToRest ==
  ASSUME IInv, NEW p \in Phone, Close(p) \/ Deactivate(p), Turns(p),
         product'[p] \in {Unpaired, Paired, ErrorShown}, timeout'[p] = 0,
         asking'[p] = NotAsking, ending'[p] = Nothing, admitted' = admitted,
         Len(events'[p]) <= MaxEvents + 2, events'[p] \in Seq(Notices(p, opener, admitted))
  PROVE  IInv'
<1>1. Moved(p) /\ chan'[p].call = 0
  BY CloseMoves, MyTables
<1>2. ~IsActive(ending'[p])
  BY KindsActive
<1> QED
  BY <1>1, <1>2, ComesToRest

LEMMA AskRefusedKeeps ==
  ASSUME IInv, NEW p \in Phone, AskRefused(p)
  PROVE  IInv'
<1>1. Idle(p) /\ product[p] = Paired /\ CloseInto(p, ErrorShown)
      /\ UNCHANGED <<timeout, asking, ending, events, admitted>>
  BY DEF AskRefused, Ready
<1>2. Close(p) /\ Turns(p) /\ product'[p] = ErrorShown
  BY <1>1, Kinds, MyTables DEF Turns, Writes, CloseInto
<1>3. timeout'[p] = 0 /\ asking'[p] = NotAsking /\ ending'[p] = Nothing
  BY <1>1, WhenIdle DEF Idle
<1>4. Len(events'[p]) <= MaxEvents + 2 /\ events'[p] \in Seq(Notices(p, opener, admitted))
  BY <1>1, RoomIs, MyParts, Bounds
<1> QED
  BY <1>1, <1>2, <1>3, <1>4, ClosedToRest

LEMMA AskThrewKeeps ==
  ASSUME IInv, NEW p \in Phone, AskThrew(p)
  PROVE  IInv'
<1>1. /\ asking[p].step = "threw" /\ CloseInto(p, ErrorShown)
      /\ asking' = [asking EXCEPT ![p] = NotAsking]
      /\ UNCHANGED <<timeout, ending, events, admitted>>
  BY DEF AskThrew
<1>2. Close(p) /\ Turns(p) /\ product'[p] = ErrorShown
  BY <1>1, Kinds, MyTables DEF Turns, Writes, CloseInto
<1>3. product[p] = Paired /\ ending[p] = Nothing
  BY <1>1, MyParts DEF Calls
<1>4. timeout'[p] = 0
  BY <1>1, <1>3, MyParts, Kinds DEF Timed, InRequest
<1>5. asking'[p] = NotAsking /\ ending'[p] = Nothing
  BY <1>1, <1>3, MyTables
<1>6. Len(events'[p]) <= MaxEvents + 2 /\ events'[p] \in Seq(Notices(p, opener, admitted))
  BY <1>1, RoomIs, MyParts, Bounds
<1> QED
  BY <1>1, <1>2, <1>4, <1>5, <1>6, ClosedToRest

LEMMA AskReturnedKeeps ==
  ASSUME IInv, NEW p \in Phone, AskReturned(p)
  PROVE  IInv'
<1> DEFINE s == asking[p].sessionId
<1>1. /\ asking[p].step = "returned" /\ asking' = [asking EXCEPT ![p] = NotAsking]
      /\ UNCHANGED <<events, admitted>>
  BY DEF AskReturned
<1>2. /\ s \in Session /\ chan[p].session = s /\ opener[s] = p /\ s <= Len(opener)
      /\ product[p] = Paired /\ ending[p] = Nothing /\ chan[p].call = 0
  BY <1>1, MyParts, MyAsking DEF Calls
<1>3. asking'[p] = NotAsking /\ NotAsking.step = "no" /\ events' = events
  BY <1>1, MyTables DEF NotAsking
<1>4. Len(events[p]) + 1 <= MaxEvents + 2 /\ Len(events[p]) \in Nat
      /\ events'[p] \in Seq(Notices(p, opener, admitted))
  BY <1>1, RoomIs, MyParts
<1>5. "request" \in Bodies \ {"accept"}
  BY DEF Bodies
<1>6. CASE /\ Sends(p, "request")
           /\ product' = [product EXCEPT ![p] = Outgoing(s)]
           /\ timeout' = [timeout EXCEPT ![p] = s]
           /\ UNCHANGED ending
  <2>1. Moved(p) /\ chan'[p].call = 0
    BY <1>2, <1>5, <1>6, MyTables, TrySendMoves
  <2>2. Turns(p)
    <3>1. s \in SessionOrNone /\ Outgoing(s) \in States
      BY <1>2, Kinds, Bounds DEF SessionOrNone, Session
    <3> HIDE DEF s
    <3> QED
      BY <1>1, <1>6, <3>1, MyTables DEF Turns, Writes
  <2>3. product'[p] = Outgoing(s) /\ timeout'[p] = s /\ ending'[p] = Nothing
        /\ opener' = opener
    BY <1>2, <1>6, <2>1, MyTables DEF Moved
  <2>4. /\ product'[p].type = "OutgoingRequest" /\ product'[p].sessionId = s
        /\ product'[p].role = "requester"
    BY <2>3, Kinds
  <2>5. Calls(p)'
    BY <1>3, <2>1 DEF Calls
  <2>6. Plays(p)'
    <3>1. product'[p] # Sharing(s, "requester")
      BY <2>4, Kinds
    <3> HIDE DEF s
    <3> QED
      BY <1>2, <2>3, <2>4, <3>1 DEF Plays
  <2>7. Timed(p)'
    BY <2>3, <2>4, KindsActive DEF Timed, InRequest
  <2>8. Room(p)'
    <3>1. s # 0
      BY <1>2 DEF Session
    <3>2. asking'[p].step = "no" /\ timeout'[p] # 0
      BY <1>3, <2>3, <3>1
    <3>3. Room(p)' <=> Len(events'[p]) + 1 + 0 <= MaxEvents + 2
      BY <3>2 DEF Room
    <3> QED
      BY <1>3, <1>4, <3>3, Bounds
  <2>9. Mine(p)'
    BY <1>4, <2>3, <2>5, <2>6, <2>7, <2>8, <1>1 DEF Mine
  <2> QED
    BY <1>1, <2>1, <2>2, <2>9, TurnedAlone, Assembled
<1>7. CASE /\ SendThrows(p)
           /\ ending' = [ending EXCEPT ![p] = ErrorShown]
           /\ UNCHANGED <<product, timeout>>
  <2>1. Moved(p) /\ chan'[p].call = 0
    BY <1>2, <1>5, <1>7, MyTables, TrySendMoves
  <2>2. Turns(p)
    BY <1>1, <1>7, Kinds, MyTables DEF Turns, Writes
  <2>3. product'[p] = Paired /\ ~IsActive(ending'[p])
    BY <1>2, <1>7, KindsActive, MyTables
  <2>4. timeout'[p] = 0
    BY <1>2, <1>7, MyParts, Kinds DEF Timed, InRequest
  <2>5. Len(events'[p]) <= MaxEvents + 2
    BY <1>3, <1>4, Bounds
  <2> QED
    BY <1>1, <1>3, <1>4, <2>1, <2>2, <2>3, <2>4, <2>5, ComesToRest
<1> QED
  BY <1>6, <1>7 DEF AskReturned-----------------------------------------------------------------------------
(* Calls of the user and of the media session. *)

\* A queue that stays, or whose first event is handled.
LEMMA QueueMoves ==
  ASSUME IInv, NEW p \in Phone,
         events' = events \/ (events[p] # <<>> /\ events' = [events EXCEPT ![p] = Tail(events[p])])
  PROVE  /\ events' = events \/ (\E v \in Seq(Notice) : events' = [events EXCEPT ![p] = v])
         /\ Len(events'[p]) <= Len(events[p]) /\ Len(events'[p]) <= MaxEvents + 2
         /\ events'[p] \in Seq(Notices(p, opener, admitted))
<1>1. /\ events[p] \in Seq(Notice) /\ events[p] \in Seq(Notices(p, opener, admitted))
      /\ events \in [Phone -> Seq(Notice)] /\ Len(events[p]) \in 0..(MaxEvents + 2)
  BY MyParts, MyTables, RoomIs
<1>2. CASE events' = events
  BY <1>1, <1>2, Bounds
<1>3. CASE events[p] # <<>> /\ events' = [events EXCEPT ![p] = Tail(events[p])]
  <2>1. Tail(events[p]) \in Seq(Notice) /\ Len(Tail(events[p])) = Len(events[p]) - 1
    BY <1>1, <1>3, ShorterQueue
  <2>2. Tail(events[p]) \in Seq(Notices(p, opener, admitted))
    BY <1>1, <1>3, ShorterQueue
  <2>3. events'[p] = Tail(events[p])
    BY <1>1, <1>3
  <2> QED
    <3>1. Len(events'[p]) = Len(events[p]) - 1
      BY <2>1, <2>3
    <3>2. Len(events'[p]) <= Len(events[p]) /\ Len(events'[p]) <= MaxEvents + 2
      BY <1>1, <3>1, Bounds
    <3> QED
      BY <1>3, <2>1, <2>2, <2>3, <3>2
<1> QED
  BY <1>2, <1>3

\* What the partner is told before the channel is closed.
LEMMA LastWords ==
  ASSUME IInv, NEW p \in Phone, Idle(p),
         NEW body \in Bodies \ {"accept", "request"}, NEW next \in {Paired, ErrorShown},
         SayLast(p, body, next), UNCHANGED timeout \/ ForgetRequest(p), UNCHANGED admitted,
         events' = events \/ (events[p] # <<>> /\ events' = [events EXCEPT ![p] = Tail(events[p])])
  PROVE  IInv'
<1>1. /\ TrySend(p, body) /\ ending' = [ending EXCEPT ![p] = next]
      /\ product' = product /\ asking' = asking
  BY DEF SayLast
<1>2. Moved(p) /\ chan'[p].call = chan[p].call
  BY <1>1, MyTables, TrySendMoves
<1>3. asking[p] = NotAsking /\ asking'[p] = NotAsking /\ product'[p] = product[p]
      /\ ending'[p] = next /\ timeout'[p] \in {0, timeout[p]}
  BY <1>1, MyTables DEF Idle, ForgetRequest
<1>4. next \in States /\ next # Nothing /\ ~IsActive(next)
      /\ next.type \notin {"IncomingRequest", "OutgoingRequest"}
  BY Kinds, KindsActive
<1>5. ~(InRequest(p) /\ ending'[p] \in {Nothing, product[p]})
  BY <1>3, <1>4 DEF InRequest
<1>6. Turns(p)
  <2>1. Writes(events, events', p, Seq(Notice))
    BY QueueMoves DEF Writes
  <2>2. Writes(timeout, timeout', p, SessionOrNone)
    BY MyTables DEF Writes, ForgetRequest
  <2> QED
    BY <1>1, <1>4, <2>1, <2>2 DEF Turns, Writes
<1>7. Len(events'[p]) <= Len(events[p]) /\ events'[p] \in Seq(Notices(p, opener, admitted))
  BY QueueMoves
<1> QED
  BY <1>2, <1>3, <1>4, <1>5, <1>6, <1>7, StaysInState

LEMMA FinishRequestKeeps ==
  ASSUME IInv, NEW p \in Phone, DeclineRequest(p) \/ CancelRequest(p)
  PROVE  IInv'
<1>1. "decline" \in Bodies \ {"accept", "request"} /\ "cancel" \in Bodies \ {"accept", "request"}
  BY DEF Bodies
<1>2. /\ SayLast(p, "decline", Paired) \/ SayLast(p, "cancel", Paired)
      /\ Idle(p) /\ ForgetRequest(p) /\ events' = events /\ UNCHANGED admitted
  BY DEF DeclineRequest, CancelRequest, FinishRequest, Ready
<1> QED
  BY <1>1, <1>2, LastWords

LEMMA FinishSessionKeeps ==
  ASSUME IInv, NEW p \in Phone, EndSession(p) \/ CaptureDenied(p) \/ FailConnectedSession(p)
  PROVE  IInv'
<1>1. {"end", "denied", "failed"} \subseteq Bodies \ {"accept", "request"}
  BY DEF Bodies
<1>2. /\ SayLast(p, "end", Paired) \/ SayLast(p, "denied", Paired)
           \/ SayLast(p, "failed", ErrorShown)
      /\ Idle(p) /\ UNCHANGED timeout /\ events' = events /\ UNCHANGED admitted
  BY DEF EndSession, CaptureDenied, FailConnectedSession, FinishSession, Ready
<1> QED
  BY <1>1, <1>2, LastWords

\* An idle controller of which only the channel changes.
LEMMA OnlyChannel ==
  ASSUME IInv, NEW p \in Phone, Idle(p), Moved(p), chan'[p].call = chan[p].call,
         UNCHANGED productVars
  PROVE  IInv'
<1>1. product' = product /\ timeout' = timeout /\ asking' = asking /\ ending' = ending
      /\ events' = events /\ admitted' = admitted
  BY DEF productVars
<1>2. Turns(p)
  BY <1>1 DEF Turns, Writes
<1>3. asking[p] = NotAsking /\ ending[p] = Nothing /\ Timed(p) /\ ~IsActive(Nothing)
  BY MyParts, KindsActive DEF Idle
<1>4. Len(events'[p]) <= Len(events[p]) /\ events'[p] \in Seq(Notices(p, opener, admitted))
  BY <1>1, QueueMoves
<1> QED
  BY <1>1, <1>2, <1>3, <1>4, StaysInState DEF Timed

LEMMA SendMediaKeeps ==
  ASSUME IInv, NEW p \in Phone, SendMedia(p)
  PROVE  IInv'
<1>1. "media" \in Bodies \ {"accept"} /\ "media" # "request"
  BY DEF Bodies
<1>2. TrySend(p, "media") /\ Idle(p) /\ UNCHANGED productVars
  BY DEF SendMedia, Ready
<1>3. Moved(p) /\ chan'[p].call = chan[p].call
  BY <1>1, <1>2, MyTables, TrySendMoves
<1> QED
  BY <1>2, <1>3, OnlyChannel

LEMMA ClearErrorKeeps ==
  ASSUME IInv, NEW p \in Phone, ClearError(p) \/ DeactivatePair(p)
  PROVE  IInv'
<1>1. /\ \/ Close(p) /\ product' = [product EXCEPT ![p] = Paired]
         \/ Deactivate(p) /\ product' = [product EXCEPT ![p] = Unpaired]
      /\ Idle(p) /\ timeout' = [timeout EXCEPT ![p] = 0]
      /\ asking' = asking /\ ending' = ending /\ events' = events /\ admitted' = admitted
  BY DEF ClearError, DeactivatePair, Ready, CloseInto, ForgetRequest
<1>2. Turns(p)
  BY <1>1, Kinds, MyTables DEF Turns, Writes
<1>3. /\ product'[p] \in {Unpaired, Paired, ErrorShown} /\ timeout'[p] = 0
      /\ asking'[p] = NotAsking /\ ending'[p] = Nothing
  BY <1>1, MyTables DEF Idle
<1>4. Len(events'[p]) <= MaxEvents + 2 /\ events'[p] \in Seq(Notices(p, opener, admitted))
  BY <1>1, QueueMoves
<1> QED
  BY <1>1, <1>2, <1>3, <1>4, ClosedToRest

LEMMA FinishEndingKeeps ==
  ASSUME IInv, NEW p \in Phone, FinishEnding(p)
  PROVE  IInv'
<1> DEFINE x == ending[p]
<1>1. /\ Close(p) /\ product' = [product EXCEPT ![p] = x] /\ x # Nothing
      /\ ending' = [ending EXCEPT ![p] = Nothing]
      /\ asking' = asking /\ events' = events /\ admitted' = admitted
      /\ IF IsActive(x) THEN timeout' = timeout ELSE timeout' = [timeout EXCEPT ![p] = 0]
  BY DEF FinishEnding, CloseInto, ForgetRequest
<1>2. x \in States /\ ending'[p] = Nothing /\ ~IsActive(Nothing)
  BY <1>1, MyParts, MyTables, KindsActive
<1>3. asking[p] = NotAsking /\ asking'[p] = NotAsking /\ chan[p].call = 0
  BY <1>1, WhenIdle
<1> HIDE DEF x
<1>4. Turns(p)
  BY <1>1, <1>2, MyTables DEF Turns, Writes
<1>5. Len(events'[p]) <= Len(events[p]) /\ Len(events'[p]) <= MaxEvents + 2
      /\ events'[p] \in Seq(Notices(p, opener, admitted))
  BY <1>1, QueueMoves
<1>6. Moved(p) /\ chan'[p].call = 0
  BY <1>1, MyTables, CloseMoves
<1>7. product'[p] = x
  BY <1>1, MyTables
<1>8. CASE IsActive(x)
  <2>1. x = product[p] /\ Timed(p)
    BY <1>8, MyParts DEF Timed, x
  <2>2. timeout' = timeout /\ product'[p] = product[p]
    BY <1>1, <1>7, <1>8, <2>1
  <2>3. InRequest(p) => timeout'[p] = product[p].sessionId \/ Rings(events'[p], product[p].sessionId)
    BY <1>1, <2>1, <2>2 DEF Timed, x
  <2> QED
    BY <1>1, <1>2, <1>3, <1>4, <1>5, <1>6, <2>2, <2>3, StaysInState
<1>9. CASE ~IsActive(x)
  <2>1. x \in {Unpaired, Paired, ErrorShown}
    BY <1>2, <1>9, KindOf
  <2>2. timeout'[p] = 0
    BY <1>1, <1>9, MyTables
  <2> QED
    BY <1>1, <1>2, <1>3, <1>4, <1>5, <1>7, <2>1, <2>2, ClosedToRest
<1> QED
  BY <1>8, <1>9
\* The acceptance: its session is admitted from now on.
LEMMA AcceptRequestKeeps ==
  ASSUME IInv, NEW p \in Phone, AcceptRequest(p)
  PROVE  IInv'
<1> DEFINE s == chan[p].session
           x == product[p]
           q == Other(p)
           m == [sessionId |-> s, body |-> "accept"]
<1>1. /\ Idle(p) /\ events[p] = <<>> /\ x.type = "IncomingRequest"
      /\ asking' = asking /\ ending' = ending /\ events' = events
  BY DEF AcceptRequest, Ready
<1>2. /\ asking[p] = NotAsking /\ ending[p] = Nothing /\ chan[p].call = 0
      /\ Calls(p) /\ Plays(p) /\ Timed(p) /\ Room(p) /\ x \in States /\ Channel
  BY <1>1, MyParts, MyTables, WhenIdle DEF Idle
<1>3. x.sessionId \in Session /\ IsActive(x) /\ x = Incoming(x.sessionId)
  BY <1>1, <1>2, KindOf DEF IsActive, ActiveTypes
<1>4. CASE /\ Sends(p, "accept")
           /\ ForgetRequest(p)
           /\ product' = [product EXCEPT ![p] = Sharing(x.sessionId, "sharer")]
           /\ admitted' = [admitted EXCEPT ![p] = @ \cup {s}]
  <2>1. /\ Sent(p, "accept") /\ s # 0 /\ s \in 1..Len(opener) /\ s \in Session
        /\ chan' = chan /\ hello' = hello /\ opener' = opener
        /\ (mail' = mail \/ mail' = [mail EXCEPT ![q] = Append(mail[q], m)])
    <3>1. /\ Sent(p, "accept") /\ s # 0 /\ chan' = chan /\ hello' = hello /\ opener' = opener
          /\ (mail' = mail \/ mail' = [mail EXCEPT ![q] = Append(mail[q], m)])
      BY <1>4 DEF Sends, Sent
    <3> QED
      BY <3>1, <1>2, MyEnd, ChannelParts, Bounds DEF Session
  <2>2. /\ admitted \in [Phone -> SUBSET Session] /\ admitted' \in [Phone -> SUBSET Session]
        /\ s \in admitted'[p] /\ \A r \in Phone : admitted[r] \subseteq admitted'[r]
    BY <1>2, <1>4, <2>1 DEF Channel
  <2>3. Goes(opener, opener') /\ q \in Phone /\ Other(q) = p
    BY <1>2, <2>1, TwoPhones DEF Goes, Channel
  <2>4. m \in Letters(q, opener, admitted') /\ m \in Letter
    BY <2>1, <2>2, <2>3, Bounds DEF Letters, Letter, Honest, Bodies
  <2>5. ASSUME NEW r \in Phone
        PROVE  mail[r] \in Seq(Letters(r, opener, admitted')) /\ mail[r] \in Seq(Letter)
    <3>1. mail[r] \in Seq(Letters(r, opener, admitted)) /\ mail[r] \in Seq(Letter)
      BY <1>2 DEF Channel
    <3>2. Letters(r, opener, admitted) \subseteq Letters(r, opener, admitted')
      BY <2>1, <2>2, <2>3, StillHonest
    <3> QED
      BY <3>1, <3>2, Wider
  <2> HIDE DEF m, q
  <2>6. Append(mail[q], m) \in Seq(Letters(q, opener, admitted')) /\ Append(mail[q], m) \in Seq(Letter)
    BY <2>3, <2>4, <2>5, AppendProperties
  <2>7. /\ mail' \in [Phone -> Seq(Letter)]
        /\ \A r \in Phone : mail'[r] \in Seq(Letters(r, opener, admitted'))
    BY <1>2, <2>1, <2>3, <2>5, <2>6 DEF Channel
  <2>8. Channel'
    BY <1>2, <2>1, <2>2, <2>7 DEF Channel
  <2>9. Sharing(x.sessionId, "sharer") \in States
    BY <1>3, Kinds
  <2>10. Turns(p)
    BY <1>1, <1>4, <2>9, MyTables DEF Turns, Writes, ForgetRequest
  <2>11. product'[p] = Sharing(x.sessionId, "sharer") /\ timeout'[p] = 0
    BY <1>4, MyTables DEF ForgetRequest
  <2>12. /\ product'[p].type = "Connected" /\ product'[p].sessionId = x.sessionId
         /\ product'[p].role = "sharer"
    BY <2>11, Kinds
  <2>13. Calls(p)'
    BY <1>1, <1>2, <2>1 DEF Calls, NotAsking
  <2>14. Plays(p)'
    <3>1. x.role = "sharer"
      BY <1>3, Kinds
    <3>2. x.sessionId <= Len(opener) /\ opener[x.sessionId] # p
      BY <1>2, <1>3, <3>1 DEF Plays, Active
    <3>3. product'[p] # Sharing(x.sessionId, "requester")
      BY <2>12, Kinds
    <3> HIDE DEF x
    <3> QED
      BY <2>1, <2>12, <3>2, <3>3 DEF Plays
  <2>15. Timed(p)'
    BY <1>1, <1>2, <2>11, <2>12, KindsActive DEF Timed, InRequest
  <2>16. Room(p)'
    <3>1. Len(events'[p]) = 0 /\ asking'[p].step = "no"
      BY <1>1, <1>2 DEF NotAsking
    <3> QED
      BY <2>11, <3>1, Bounds DEF Room
  <2>17. events'[p] \in Seq(Notices(p, opener', admitted'))
    BY <1>1, EmptyQueue
  <2>18. Mine(p)'
    BY <2>13, <2>14, <2>15, <2>16, <2>17 DEF Mine
  <2>19. ASSUME NEW r \in Phone \ {p} PROVE Mine(r)'
    BY <2>1, <2>2, <2>3, <2>10, TurnedAlone, OthersStay
  <2> QED
    BY <2>8, <2>10, <2>18, <2>19, TurnedAlone DEF IInv
<1>5. CASE SendThrows(p) /\ UNCHANGED <<product, timeout, admitted>>
  <2>1. "media" \in Bodies \ {"accept"} /\ "media" # "request"
    BY DEF Bodies
  <2>2. Moved(p) /\ chan'[p].call = chan[p].call
    BY <1>5, <2>1, MyTables, TrySendMoves
  <2> QED
    BY <1>1, <1>5, <2>2, OnlyChannel DEF productVars
<1> QED
  BY <1>4, <1>5 DEF AcceptRequest
-----------------------------------------------------------------------------
(* Control events and time-outs. *)

\* An event that changes nothing is taken from the queue.
LEMMA EventPasses ==
  ASSUME IInv, NEW p \in Phone, Idle(p), events[p] # <<>>,
         events' = [events EXCEPT ![p] = Tail(events[p])],
         Moved(p), chan'[p].call = chan[p].call,
         UNCHANGED <<product, timeout, asking, admitted>>,
         ending' = ending \/ ending' = [ending EXCEPT ![p] = product[p]],
         ~(/\ Head(events[p]).type = "timeout"
           /\ Head(events[p]).sessionId = product[p].sessionId /\ InRequest(p))
  PROVE  IInv'
<1>1. asking[p] = NotAsking /\ asking'[p] = NotAsking /\ ending'[p] \in {Nothing, product[p]}
      /\ product[p] \in States /\ ending[p] = Nothing
  BY MyTables DEF Idle
<1>2. /\ events' = events \/ (\E v \in Seq(Notice) : events' = [events EXCEPT ![p] = v])
      /\ Len(events'[p]) <= Len(events[p]) /\ events'[p] \in Seq(Notices(p, opener, admitted))
  BY QueueMoves
<1>3. Turns(p)
  BY <1>1, <1>2 DEF Turns, Writes
<1>4. IsActive(ending'[p]) => ending'[p] = product[p]
  BY <1>1, KindsActive
<1>5. ASSUME InRequest(p)
      PROVE  timeout'[p] = product[p].sessionId \/ Rings(events'[p], product[p].sessionId)
  <2>1. timeout[p] = product[p].sessionId \/ Rings(events[p], product[p].sessionId)
    BY <1>1, <1>5, MyParts DEF Timed
  <2>2. events[p] \in Seq(Notice) /\ events'[p] = Tail(events[p]) /\ <<>> \in Seq(Notice)
    BY MyParts, MyTables
  <2>3. Rings(events[p], product[p].sessionId) => Rings(Tail(events[p]), product[p].sessionId)
    BY <1>5, <2>2, RingsOn
  <2> QED
    BY <2>1, <2>2, <2>3
<1> QED
  BY <1>1, <1>2, <1>3, <1>4, <1>5, StaysInState
\* An event takes the controller to rest: the channel is closed, or was not there.
LEMMA EventEnds ==
  ASSUME IInv, NEW p \in Phone, Idle(p), events[p] # <<>>,
         events' = [events EXCEPT ![p] = Tail(events[p])],
         Close(p) \/ UNCHANGED channelVars,
         NEW x \in {Unpaired, Paired, ErrorShown}, product' = [product EXCEPT ![p] = x],
         ForgetRequest(p) \/ (~InRequest(p) /\ timeout' = timeout),
         UNCHANGED <<asking, ending, admitted>>
  PROVE  IInv'
<1>1. asking'[p] = NotAsking /\ ending'[p] = Nothing /\ chan[p].call = 0
  BY WhenIdle DEF Idle
<1>2. Moved(p) /\ chan'[p].call = 0
  BY <1>1, MyTables, CloseMoves, NothingMoves
<1>3. product'[p] = x /\ timeout'[p] = 0
  BY MyTables, WhenIdle DEF ForgetRequest
<1>4. /\ events' = events \/ (\E v \in Seq(Notice) : events' = [events EXCEPT ![p] = v])
      /\ Len(events'[p]) <= MaxEvents + 2 /\ events'[p] \in Seq(Notices(p, opener, admitted))
  BY QueueMoves
<1>5. Turns(p)
  BY <1>4, MyTables, Kinds DEF Turns, Writes, ForgetRequest
<1>6. ~IsActive(ending'[p])
  BY <1>1, KindsActive
<1> QED
  BY <1>1, <1>2, <1>3, <1>4, <1>5, <1>6, ComesToRest

LEMMA HandleTimeoutKeeps ==
  ASSUME IInv, NEW p \in Phone, Idle(p), events[p] # <<>>,
         events' = [events EXCEPT ![p] = Tail(events[p])], UNCHANGED admitted,
         HandleTimeout(p, Head(events[p]))
  PROVE  IInv'
<1> DEFINE e == Head(events[p])
<1>1. e.type = "timeout"
  BY DEF HandleTimeout
<1>2. CASE InRequest(p) /\ product[p].sessionId = e.sessionId
  <2>1. UNCHANGED timeout /\ (SayLast(p, "cancel", Paired) \/ SayLast(p, "end", Paired))
    BY <1>2 DEF HandleTimeout, InRequest
  <2>2. "cancel" \in Bodies \ {"accept", "request"} /\ "end" \in Bodies \ {"accept", "request"}
    BY DEF Bodies
  <2> QED
    BY <2>1, <2>2, LastWords
<1>3. CASE ~(InRequest(p) /\ product[p].sessionId = e.sessionId)
  <2>1. UNCHANGED <<channelVars, product, timeout, asking, ending>>
    BY <1>3 DEF HandleTimeout, InRequest
  <2>2. Moved(p) /\ chan'[p].call = chan[p].call
    BY <2>1, MyTables, NothingMoves
  <2> QED
    BY <1>3, <2>1, <2>2, EventPasses
<1> QED
  BY <1>2, <1>3

LEMMA HandleEndKeeps ==
  ASSUME IInv, NEW p \in Phone, Idle(p), events[p] # <<>>,
         events' = [events EXCEPT ![p] = Tail(events[p])], UNCHANGED admitted,
         HandleSessionClosed(p, Head(events[p])) \/ HandleControlError(p, Head(events[p]))
  PROVE  IInv'
<1> DEFINE e == Head(events[p])
<1>1. e.type # "timeout"
  BY DEF HandleSessionClosed, HandleControlError
<1>2. CASE IsActive(product[p])
  <2>1. /\ Close(p) \/ UNCHANGED channelVars
        /\ product' = [product EXCEPT ![p] = Paired] /\ ForgetRequest(p)
        /\ UNCHANGED <<asking, ending>>
    BY <1>2 DEF HandleSessionClosed, HandleControlError, Becomes, CloseInto
  <2> QED
    BY <2>1, EventEnds
<1>3. CASE ~IsActive(product[p])
  <2>1. UNCHANGED <<channelVars, product, timeout, asking, ending>>
    BY <1>3 DEF HandleSessionClosed, HandleControlError
  <2>2. Moved(p) /\ chan'[p].call = chan[p].call
    BY <2>1, MyTables, NothingMoves
  <2> QED
    BY <1>1, <2>1, <2>2, EventPasses
<1> QED
  BY <1>2, <1>3

\* A request that the phone shows: the partner opened its session.
LEMMA RequestShown ==
  ASSUME IInv, NEW p \in Phone, Idle(p), events[p] # <<>>,
         events' = [events EXCEPT ![p] = Tail(events[p])], UNCHANGED admitted,
         NEW s, s = Head(events[p]).sessionId,
         Head(events[p]).type = "message", Head(events[p]).body = "request",
         product[p] = Paired, Becomes(p, Incoming(s)), timeout' = [timeout EXCEPT ![p] = s]
  PROVE  IInv'
<1>1. /\ product' = [product EXCEPT ![p] = Incoming(s)] /\ UNCHANGED channelVars
      /\ asking' = asking /\ ending' = ending
  BY DEF Becomes
<1>2. asking'[p] = NotAsking /\ ending'[p] = Nothing /\ chan[p].call = 0
      /\ NotAsking.step = "no"
  BY <1>1, WhenIdle DEF Idle, NotAsking
<1>3. Moved(p) /\ chan'[p].call = 0 /\ opener' = opener
  BY <1>1, <1>2, MyTables, NothingMoves DEF Moved
<1>4. s \in Session /\ s <= Len(opener) /\ opener[s] = Other(p)
  <2>1. Head(events[p]) \in Notices(p, opener, admitted)
    BY MyParts, ShorterQueue
  <2>2. Honest(Head(events[p]), p, opener, admitted) /\ s \in Session
    BY <2>1, NoticesAre
  <2> QED
    BY <2>2 DEF Honest
<1>5. s \in SessionOrNone /\ s # 0 /\ Incoming(s) \in States
  BY <1>4, Kinds, Bounds DEF Session, SessionOrNone
<1>6. product'[p] = Incoming(s) /\ timeout'[p] = s
  BY <1>1, MyTables
<1>7. /\ product'[p].type = "IncomingRequest" /\ product'[p].sessionId = s
      /\ product'[p].role = "sharer"
  BY <1>6, Kinds
<1>8. /\ events' = events \/ (\E v \in Seq(Notice) : events' = [events EXCEPT ![p] = v])
      /\ events'[p] \in Seq(Notices(p, opener, admitted))
  BY QueueMoves
<1>9. Turns(p)
  BY <1>1, <1>5, <1>8 DEF Turns, Writes
<1>10. Calls(p)'
  BY <1>2, <1>3 DEF Calls
<1>11. Plays(p)'
  <2>1. product'[p] # Sharing(s, "requester") /\ Other(p) # p
    BY <1>7, Kinds, TwoPhones
  <2> QED
    BY <1>3, <1>4, <1>7, <2>1 DEF Plays
<1>12. Timed(p)'
  BY <1>2, <1>6, <1>7, KindsActive DEF Timed, InRequest
<1>13. Room(p)'
  <2>1. Len(events[p]) \in 0..(MaxEvents + 2) /\ Len(events'[p]) = Len(events[p]) - 1
    <3>1. events'[p] = Tail(events[p])
      BY MyTables
    <3> QED
      BY <3>1, RoomIs, MyParts, ShorterQueue
  <2>2. asking'[p].step = "no" /\ timeout'[p] # 0
    BY <1>2, <1>5, <1>6
  <2>3. Room(p)' <=> Len(events'[p]) + 1 + 0 <= MaxEvents + 2
    BY <2>2 DEF Room
  <2> QED
    BY <2>1, <2>3, Bounds
<1>14. Mine(p)'
  BY <1>3, <1>8, <1>10, <1>11, <1>12, <1>13 DEF Mine
<1> QED
  BY <1>3, <1>9, <1>14, TurnedAlone, Assembled

LEMMA HandleRequestKeeps ==
  ASSUME IInv, NEW p \in Phone, Idle(p), events[p] # <<>>,
         events' = [events EXCEPT ![p] = Tail(events[p])], UNCHANGED admitted,
         Head(events[p]).type = "message", Head(events[p]).body = "request",
         HandleRequest(p, Head(events[p]).sessionId)
  PROVE  IInv'
<1>1. "decline" \in Bodies \ {"accept", "request"} /\ "end" \in Bodies \ {"accept", "request"}
  BY DEF Bodies
<1>2. CASE SayLast(p, "decline", product[p]) /\ UNCHANGED timeout
  <2>1. /\ TrySend(p, "decline") /\ ending' = [ending EXCEPT ![p] = product[p]]
        /\ UNCHANGED <<product, timeout, asking, admitted>>
    BY <1>2 DEF SayLast
  <2>2. Moved(p) /\ chan'[p].call = chan[p].call
    BY <1>1, <2>1, MyTables, TrySendMoves
  <2>3. Head(events[p]).type # "timeout"
    OBVIOUS
  <2> QED
    BY <2>1, <2>2, <2>3, EventPasses
<1>3. CASE SayLast(p, "end", Paired) /\ UNCHANGED timeout
  BY <1>1, <1>3, LastWords
<1>4. CASE UNCHANGED <<channelVars, product, timeout, asking, ending>>
  <2>1. Moved(p) /\ chan'[p].call = chan[p].call
    BY <1>4, MyTables, NothingMoves
  <2>2. Head(events[p]).type # "timeout"
    OBVIOUS
  <2> QED
    BY <1>4, <2>1, <2>2, EventPasses
<1>5. CASE /\ product[p] = Paired
           /\ Becomes(p, Incoming(Head(events[p]).sessionId))
           /\ timeout' = [timeout EXCEPT ![p] = Head(events[p]).sessionId]
  BY <1>5, RequestShown
<1> QED
  BY <1>2, <1>3, <1>4, <1>5 DEF HandleRequest
\* What a message makes of a state: it stays, watching begins, or it is given up.
LEMMA ReactionIs ==
  ASSUME NEW x \in States, NEW e
  PROVE  /\ Reaction(x, e).how \in {"open", "close", "reject"}
         /\ Reaction(x, e).how = "open" =>
              \/ Reaction(x, e).next = x
              \/ /\ e.body = "accept" /\ x.type = "OutgoingRequest"
                 /\ e.sessionId = x.sessionId
                 /\ Reaction(x, e).next = Sharing(e.sessionId, "requester")
         /\ Reaction(x, e).how = "close" => Reaction(x, e).next \in {Paired, ErrorShown}
         /\ Reaction(x, e).how = "reject" => Reaction(x, e).next = Paired
<1>1. x.type = "OutgoingRequest" => IsActive(x)
  BY DEF IsActive, ActiveTypes
<1> QED
  BY <1>1 DEF Reaction

\* The acceptance comes for the request on the screen.
LEMMA WatchingBegins ==
  ASSUME IInv, NEW p \in Phone, Idle(p), events[p] # <<>>,
         events' = [events EXCEPT ![p] = Tail(events[p])], UNCHANGED admitted,
         NEW s, s = product[p].sessionId, product[p].type = "OutgoingRequest",
         Head(events[p]).type = "message", Head(events[p]).body = "accept",
         Head(events[p]).sessionId = s,
         Becomes(p, Sharing(s, "requester")), ForgetRequest(p)
  PROVE  IInv'
<1>1. /\ product' = [product EXCEPT ![p] = Sharing(s, "requester")] /\ UNCHANGED channelVars
      /\ asking' = asking /\ ending' = ending /\ timeout' = [timeout EXCEPT ![p] = 0]
  BY DEF Becomes, ForgetRequest
<1>2. asking'[p] = NotAsking /\ ending'[p] = Nothing /\ chan[p].call = 0
      /\ NotAsking.step = "no"
  BY <1>1, WhenIdle DEF Idle, NotAsking
<1>3. Moved(p) /\ chan'[p].call = 0 /\ opener' = opener
  BY <1>1, <1>2, MyTables, NothingMoves DEF Moved
<1>4. s \in Session /\ s <= Len(opener) /\ opener[s] = p
  <2>1. product[p] \in States /\ Plays(p)
    BY MyParts
  <2>2. IsActive(product[p]) /\ product[p].role = "requester" /\ s \in Session
    BY <2>1, KindOf, Kinds DEF IsActive, ActiveTypes
  <2> QED
    BY <2>1, <2>2 DEF Plays, Active
<1>5. s \in admitted[Other(p)]
  <2>1. Head(events[p]) \in Notices(p, opener, admitted)
    BY MyParts, ShorterQueue
  <2>2. Honest(Head(events[p]), p, opener, admitted)
    BY <2>1, NoticesAre
  <2> QED
    BY <2>2 DEF Honest
<1>6. product'[p] = Sharing(s, "requester") /\ timeout'[p] = 0
      /\ Sharing(s, "requester") \in States
  BY <1>1, <1>4, MyTables, Kinds
<1>7. /\ product'[p].type = "Connected" /\ product'[p].sessionId = s
      /\ product'[p].role = "requester"
  BY <1>6, Kinds
<1>8. /\ events' = events \/ (\E v \in Seq(Notice) : events' = [events EXCEPT ![p] = v])
      /\ events'[p] \in Seq(Notices(p, opener, admitted)) /\ Len(events'[p]) <= MaxEvents + 2
  BY QueueMoves
<1>9. Turns(p)
  BY <1>1, <1>6, <1>8, MyTables DEF Turns, Writes
<1>10. Calls(p)'
  BY <1>2, <1>3 DEF Calls
<1>11. Plays(p)'
  BY <1>3, <1>4, <1>5, <1>7 DEF Plays
<1>12. Timed(p)'
  BY <1>2, <1>6, <1>7, KindsActive DEF Timed, InRequest
<1>13. Room(p)'
  <2>1. asking'[p].step = "no" /\ Len(events'[p]) \in Nat
    BY <1>2, <1>8, LenProperties
  <2> QED
    BY <1>6, <1>8, <2>1, Bounds DEF Room
<1>14. Mine(p)'
  BY <1>3, <1>8, <1>10, <1>11, <1>12, <1>13 DEF Mine
<1> QED
  BY <1>3, <1>9, <1>14, TurnedAlone, Assembled

LEMMA HandleOtherMessageKeeps ==
  ASSUME IInv, NEW p \in Phone, Idle(p), events[p] # <<>>,
         events' = [events EXCEPT ![p] = Tail(events[p])], UNCHANGED admitted,
         Head(events[p]).type = "message", HandleOtherMessage(p, Head(events[p]))
  PROVE  IInv'
<1> DEFINE e == Head(events[p])
           r == Reaction(product[p], e)
<1>1. product[p] \in States
  BY MyParts
<1>2. CASE /\ r.how = "open" /\ Becomes(p, r.next)
           /\ IF r.next = product[p] THEN UNCHANGED timeout ELSE ForgetRequest(p)
  <2>1. CASE r.next = product[p]
    <3>1. UNCHANGED <<product, timeout, asking, ending, channelVars>>
      <4>1. product' = [product EXCEPT ![p] = product[p]]
        BY <1>2, <2>1 DEF Becomes
      <4>2. product' = product
        BY <4>1, MyTables
      <4> QED
        BY <1>2, <2>1, <4>2 DEF Becomes
    <3>2. Moved(p) /\ chan'[p].call = chan[p].call
      BY <3>1, MyTables, NothingMoves
    <3>3. e.type # "timeout"
      OBVIOUS
    <3> QED
      BY <3>1, <3>2, <3>3, EventPasses
  <2>2. CASE r.next # product[p]
    <3>1. /\ e.body = "accept" /\ product[p].type = "OutgoingRequest"
          /\ e.sessionId = product[p].sessionId
          /\ r.next = Sharing(product[p].sessionId, "requester")
      BY <1>1, <1>2, <2>2, ReactionIs
    <3> QED
      BY <1>2, <2>2, <3>1, WatchingBegins
  <2> QED
    BY <2>1, <2>2
<1>3. CASE /\ r.how = "close" /\ CloseInto(p, r.next) /\ ForgetRequest(p)
           /\ UNCHANGED <<asking, ending>>
  <2>1. r.next \in {Unpaired, Paired, ErrorShown}
    BY <1>1, <1>3, ReactionIs
  <2> HIDE DEF r
  <2> QED
    BY <1>3, <2>1, EventEnds DEF CloseInto
<1>4. CASE r.how = "reject" /\ SayLast(p, "end", r.next) /\ UNCHANGED timeout
  <2>1. r.next = Paired /\ "end" \in Bodies \ {"accept", "request"}
    BY <1>1, <1>4, ReactionIs DEF Bodies
  <2> QED
    BY <1>4, <2>1, LastWords
<1> QED
  BY <1>2, <1>3, <1>4 DEF HandleOtherMessage

LEMMA HandleEventKeeps ==
  ASSUME IInv, NEW p \in Phone, HandleEvent(p)
  PROVE  IInv'
<1> DEFINE e == Head(events[p])
<1>1. /\ Idle(p) /\ events[p] # <<>> /\ UNCHANGED admitted
      /\ events' = [events EXCEPT ![p] = Tail(events[p])]
  BY DEF HandleEvent
<1>2. CASE HandleSessionClosed(p, e) \/ HandleControlError(p, e)
  BY <1>1, <1>2, HandleEndKeeps
<1>3. CASE HandleTimeout(p, e)
  BY <1>1, <1>3, HandleTimeoutKeeps
<1>4. CASE HandleMessage(p, e)
  <2>1. e.type = "message"
    BY <1>4 DEF HandleMessage
  <2>2. CASE product[p] = Unpaired
    <3>1. /\ Close(p) /\ product' = [product EXCEPT ![p] = Unpaired]
          /\ timeout' = timeout /\ UNCHANGED <<asking, ending, admitted>>
      BY <1>1, <1>4, <2>2 DEF HandleMessage, CloseInto
    <3>2. ~InRequest(p)
      BY <2>2, Kinds DEF InRequest
    <3> QED
      BY <1>1, <3>1, <3>2, EventEnds
  <2>3. CASE product[p] # Unpaired /\ e.body = "request"
    <3>1. HandleRequest(p, e.sessionId)
      BY <1>4, <2>3 DEF HandleMessage
    <3> QED
      BY <1>1, <2>1, <2>3, <3>1, HandleRequestKeeps
  <2>4. CASE product[p] # Unpaired /\ e.body # "request"
    <3>1. HandleOtherMessage(p, e)
      BY <1>4, <2>4 DEF HandleMessage
    <3> QED
      BY <1>1, <2>1, <3>1, HandleOtherMessageKeeps
  <2> QED
    BY <2>2, <2>3, <2>4
<1> QED
  BY <1>2, <1>3, <1>4 DEF HandleEvent

\* The time-out becomes an event.
LEMMA TimeoutFiresKeeps ==
  ASSUME IInv, NEW p \in Phone, TimeoutFires(p)
  PROVE  IInv'
<1> DEFINE s == timeout[p]
           e == [type |-> "timeout", sessionId |-> s, body |-> "timeout"]
<1>1. /\ s # 0 /\ timeout' = [timeout EXCEPT ![p] = 0]
      /\ events' = [events EXCEPT ![p] = Append(events[p], e)]
      /\ product' = product /\ asking' = asking /\ ending' = ending /\ admitted' = admitted
      /\ UNCHANGED channelVars
  BY DEF TimeoutFires
<1>2. Calls(p) /\ Plays(p) /\ Timed(p) /\ events[p] \in Seq(Notice)
      /\ events[p] \in Seq(Notices(p, opener, admitted))
      /\ s \in Session /\ InRequest(p) /\ product[p].sessionId = s
  BY <1>1, MyParts, Bounds DEF Timed, SessionOrNone, Session
<1>3. Moved(p) /\ opener' = opener /\ chan' = chan
  BY <1>1, MyTables, NothingMoves DEF Moved
<1>4. e \in Notice /\ e \in Notices(p, opener, admitted)
  BY <1>2 DEF Notice, Notices
<1>5. e.type = "timeout" /\ e.sessionId = s
  OBVIOUS
<1> HIDE DEF e
<1>6. Append(events[p], e) \in Seq(Notice)
      /\ Len(Append(events[p], e)) = Len(events[p]) + 1
      /\ Append(events[p], e)[Len(events[p]) + 1] = e
      /\ Len(events[p]) + 1 \in DOMAIN Append(events[p], e)
  BY <1>2, <1>4
<1>7. Append(events[p], e) \in Seq(Notices(p, opener, admitted))
  BY <1>2, <1>4, AppendProperties
<1>8. events'[p] = Append(events[p], e) /\ timeout'[p] = 0
  BY <1>1, MyTables
<1>9. Turns(p)
  BY <1>1, <1>6, MyTables DEF Turns, Writes
<1>10. Calls(p)' /\ Plays(p)'
  BY <1>1, <1>2, <1>3 DEF Calls, Plays, Active
<1>11. Timed(p)'
  <2>1. Rings(events'[p], s)
    BY <1>5, <1>6, <1>8 DEF Rings
  <2> QED
    BY <1>1, <1>2, <1>8, <2>1 DEF Timed, InRequest
<1>12. Room(p)'
  <2>1. asking[p].step = "no"
    <3>1. asking[p].step # "no" => product[p] = Paired
      BY <1>2 DEF Calls
    <3> QED
      BY <1>2, <3>1, Kinds DEF InRequest
  <2>2. Len(events[p]) + 1 <= MaxEvents + 2 /\ Len(events[p]) \in Nat
    BY <1>1, RoomIs
  <2> QED
    BY <1>1, <1>6, <1>8, <2>1, <2>2, Bounds DEF Room
<1>13. Mine(p)'
  BY <1>1, <1>3, <1>7, <1>8, <1>10, <1>11, <1>12 DEF Mine
<1> QED
  BY <1>1, <1>3, <1>9, <1>13, TurnedAlone, Assembled-----------------------------------------------------------------------------
(* Steps of the channel, and a restart. *)

\* How a step of the channel answers connect(): not at all, or its call is over.
Replied(p) ==
  \/ asking' = asking /\ chan'[p].call = chan[p].call
  \/ /\ chan[p].call # 0 /\ chan'[p].call = 0
     /\ \E how \in {"returned", "threw"} :
          /\ asking' = [asking EXCEPT ![p] = [step |-> how, sessionId |-> asking[p].sessionId]]
          /\ how = "returned" => chan'[p].session = chan[p].call

LEMMA AnsweredIs ==
  ASSUME IInv, NEW p \in Phone, asking[p].step \notin {"returned", "threw"},
         NEW how \in {"returned", "threw"}, Answered(p, how),
         chan'[p].call \in {0, chan[p].call},
         how = "returned" /\ chan'[p].call # chan[p].call => chan'[p].session = chan[p].call
  PROVE  Replied(p)
<1>1. asking \in [Phone -> Askings]
  BY MyTables
<1>2. CASE chan'[p].call = chan[p].call
  <2>1. asking' = [asking EXCEPT ![p].step = asking[p].step]
    BY <1>2 DEF Answered
  <2>2. asking' = asking
    BY <1>1, <2>1 DEF Askings, NotAsking
  <2> QED
    BY <1>2, <2>2 DEF Replied
<1>3. CASE chan'[p].call # chan[p].call
  <2>1. chan[p].call # 0 /\ chan'[p].call = 0
    BY <1>3
  <2>2. asking' = [asking EXCEPT ![p].step = how]
    BY <2>1 DEF Answered
  <2>3. asking[p] \in [step : {"calling", "returned", "threw"}, sessionId : Session]
    BY <1>1, <2>1, MyParts DEF Askings, NotAsking, Calls
  <2>4. [asking[p] EXCEPT !.step = how] = [step |-> how, sessionId |-> asking[p].sessionId]
    BY <2>3
  <2>5. asking' = [asking EXCEPT ![p] = [asking[p] EXCEPT !.step = how]]
    BY <1>1, <2>2
  <2>6. asking' = [asking EXCEPT ![p] = [step |-> how, sessionId |-> asking[p].sessionId]]
    BY <2>4, <2>5
  <2> QED
    BY <1>3, <2>1, <2>6 DEF Replied
<1> QED
  BY <1>2, <1>3

\* What the controller hears of a step of the channel: at most two events.
Told(p) ==
  \/ events' = events
  \/ /\ Len(events[p]) < MaxEvents
     /\ \E r \in Seq(Notices(p, opener, admitted)) :
          Len(r) <= 2 /\ events' = [events EXCEPT ![p] = events[p] \o r]

LEMMA ChannelKeeps ==
  ASSUME IInv, NEW p \in Phone, asking[p].step \notin {"returned", "threw"},
         Moved(p), Replied(p), Told(p), UNCHANGED <<product, timeout, ending, admitted>>
  PROVE  IInv'
<1>1. Calls(p) /\ Plays(p) /\ Timed(p) /\ opener' = opener
  BY MyParts DEF Moved
<1>2. \/ asking'[p] = asking[p]
      \/ /\ asking[p].step = "calling" /\ asking'[p].step \in {"returned", "threw"}
         /\ asking'[p].sessionId = asking[p].sessionId
  BY <1>1, MyAsking, MyTables DEF Replied, Calls
<1>3. asking'[p].step = "no" <=> asking[p].step = "no"
  BY <1>2
<1>4. Calls(p)'
  <2>1. CASE asking' = asking /\ chan'[p].call = chan[p].call
    BY <1>1, <2>1 DEF Calls
  <2>2. CASE /\ chan[p].call # 0 /\ chan'[p].call = 0
             /\ \E how \in {"returned", "threw"} :
                  /\ asking' = [asking EXCEPT ![p] = [step |-> how, sessionId |-> asking[p].sessionId]]
                  /\ how = "returned" => chan'[p].session = chan[p].call
    <3>1. PICK how \in {"returned", "threw"} :
            /\ asking' = [asking EXCEPT ![p] = [step |-> how, sessionId |-> asking[p].sessionId]]
            /\ how = "returned" => chan'[p].session = chan[p].call
      BY <2>2
    <3>2. asking'[p].step = how /\ asking'[p].sessionId = asking[p].sessionId
      BY <3>1, MyTables
    <3>3. asking[p].step = "calling" /\ chan[p].call = asking[p].sessionId
      BY <1>1, <2>2 DEF Calls
    <3>4. /\ product[p] = Paired /\ ending[p] = Nothing
          /\ asking[p].sessionId <= Len(opener) /\ opener[asking[p].sessionId] = p
      BY <1>1, <3>3 DEF Calls
    <3> QED
      BY <1>1, <2>2, <3>1, <3>2, <3>3, <3>4 DEF Calls
  <2> QED
    BY <2>1, <2>2 DEF Replied
<1>5. Plays(p)'
  BY <1>1 DEF Plays, Active
<1>6. /\ events' \in [Phone -> Seq(Notice)]
      /\ events' = events \/ \E v \in Seq(Notice) : events' = [events EXCEPT ![p] = v]
      /\ events'[p] \in Seq(Notices(p, opener, admitted))
      /\ \A s : Rings(events[p], s) => Rings(events'[p], s)
      /\ \/ Len(events'[p]) = Len(events[p])
         \/ Len(events[p]) < MaxEvents /\ Len(events'[p]) <= Len(events[p]) + 2
  <2>1. events[p] \in Seq(Notice) /\ events[p] \in Seq(Notices(p, opener, admitted))
        /\ events \in [Phone -> Seq(Notice)]
    BY MyParts, MyTables
  <2>2. CASE events' = events
    BY <2>1, <2>2
  <2>3. CASE /\ Len(events[p]) < MaxEvents
             /\ \E r \in Seq(Notices(p, opener, admitted)) :
                  Len(r) <= 2 /\ events' = [events EXCEPT ![p] = events[p] \o r]
    <3>1. PICK r \in Seq(Notices(p, opener, admitted)) :
            Len(r) <= 2 /\ events' = [events EXCEPT ![p] = events[p] \o r]
      BY <2>3
    <3>2. r \in Seq(Notice)
      BY Wider DEF Notices
    <3>3. events[p] \o r \in Seq(Notice) /\ Len(events[p] \o r) = Len(events[p]) + Len(r)
      BY <2>1, <3>2, LongerQueue
    <3>4. events[p] \o r \in Seq(Notices(p, opener, admitted))
      BY <2>1, LongerQueue
    <3>5. \A s : Rings(events[p], s) => Rings(events[p] \o r, s)
      BY <2>1, <3>2, RingsOn
    <3>6. events'[p] = events[p] \o r
      BY <2>1, <3>1
    <3>7. Len(events'[p]) <= Len(events[p]) + 2
      BY <2>1, <3>1, <3>2, <3>3, <3>6, LenProperties
    <3> QED
      BY <2>1, <2>3, <3>1, <3>3, <3>4, <3>5, <3>6, <3>7
  <2> QED
    BY <2>2, <2>3 DEF Told
<1>7. Timed(p)'
  BY <1>1, <1>6 DEF Timed, InRequest
<1>8. Room(p)'
  <2> DEFINE a == IF timeout[p] = 0 THEN 0 ELSE 1
             b == IF asking[p].step = "no" THEN 0 ELSE 1
  <2>1. timeout[p] = 0 \/ asking[p].step = "no"
    BY <1>1, Kinds DEF Calls, Timed, InRequest
  <2>2. a \in {0, 1} /\ b \in {0, 1} /\ a + b <= 1
    BY <2>1
  <2>3. Room(p)
    BY MyParts
  <2>4. Len(events[p]) + a + b <= MaxEvents + 2
    BY <2>3 DEF Room
  <2>5. Room(p)' <=> Len(events'[p]) + a + b <= MaxEvents + 2
    BY <1>3 DEF Room
  <2>6. Len(events[p]) \in Nat /\ Len(events'[p]) \in Nat
    BY <1>6, MyParts, LenProperties
  <2> HIDE DEF a, b
  <2> QED
    BY <1>6, <2>2, <2>4, <2>5, <2>6, Bounds
<1>9. Turns(p)
  <2>1. Writes(asking, asking', p, Askings)
    <3>1. ASSUME NEW how \in {"returned", "threw"}, chan[p].call # 0
          PROVE  [step |-> how, sessionId |-> asking[p].sessionId] \in Askings
      BY <1>1, <3>1, MyAsking DEF Calls, Askings
    <3> QED
      BY <3>1 DEF Replied, Writes
  <2> QED
    BY <1>6, <2>1 DEF Turns, Writes
<1>10. Mine(p)'
  BY <1>1, <1>4, <1>5, <1>6, <1>7, <1>8 DEF Mine
<1> QED
  BY <1>9, <1>10, TurnedAlone, Assembled
LEMMA ChannelChangeKeeps ==
  ASSUME IInv, NEW p \in Phone, ChannelChange(p)
  PROVE  IInv'
<1>1. asking[p].step \notin {"returned", "threw"}
      /\ UNCHANGED <<product, timeout, ending, admitted>>
  BY DEF ChannelChange
<1>2. Channel /\ chan[p].call \in 0..Len(opener)
  BY MyTables, MyEnd
<1>3. ASSUME NEW e \in Notices(p, opener, admitted) PROVE <<e>> \in Seq(Notices(p, opener, admitted))
  OBVIOUS
<1>4. CASE ChannelOpens(p)
  <2>1. Moved(p) /\ Settles(p)
    <3>1. ASSUME NEW s \in 1..MaxSession, Accepts(p, s) PROVE Moved(p) /\ Settles(p)
      BY <1>2, <3>1, AcceptsMoves DEF Session
    <3> QED
      BY <1>2, <1>4, <3>1, ConnectReturnsMoves, ResumesMoves DEF ChannelOpens
  <2>2. Answered(p, "returned") /\ events' = events
    BY <1>4 DEF ChannelOpens
  <2>3. Replied(p)
    BY <1>1, <2>1, <2>2, AnsweredIs DEF Settles
  <2>4. Told(p)
    BY <2>2 DEF Told
  <2> QED
    BY <1>1, <2>1, <2>3, <2>4, ChannelKeeps
<1>5. CASE CallThrows(p)
  <2>1. Moved(p) /\ chan'[p].call = 0
    BY <1>2, <1>5, ThrowsMoves DEF CallThrows
  <2>2. Answered(p, "threw") /\ events' = events
    BY <1>5 DEF CallThrows
  <2>3. Replied(p)
    BY <1>1, <2>1, <2>2, AnsweredIs
  <2>4. Told(p)
    BY <2>2 DEF Told
  <2> QED
    BY <1>1, <2>1, <2>3, <2>4, ChannelKeeps
<1>6. CASE ChannelReplaced(p) \/ ChannelInterrupted(p) \/ ChannelDials(p) \/ ChannelLoses(p)
  <2>1. Moved(p) /\ chan'[p].call = chan[p].call
    BY <1>2, <1>6, ReplacesMoves, InterruptedMoves, DialsMoves, LosesMoves
    DEF ChannelReplaced, ChannelInterrupted, ChannelDials, ChannelLoses
  <2>2. asking' = asking /\ events' = events
    BY <1>6 DEF ChannelReplaced, ChannelInterrupted, ChannelDials, ChannelLoses
  <2>3. Replied(p) /\ Told(p)
    BY <2>1, <2>2 DEF Replied, Told
  <2> QED
    BY <1>1, <2>1, <2>3, ChannelKeeps
<1>7. CASE ChannelGivesUp(p)
  <2> DEFINE e == Event("error", 0, "error")
             c == Event("closed", chan[p].resume, "closed")
  <2>1. Moved(p) /\ chan'[p].call = chan[p].call
    BY <1>2, <1>7, GivesUpMoves DEF ChannelGivesUp
  <2>2. /\ Len(events[p]) < MaxEvents /\ events' = [events EXCEPT ![p] = events[p] \o <<e, c>>]
        /\ asking' = asking
    BY <1>7 DEF ChannelGivesUp, Hears
  <2>3. e \in Notices(p, opener, admitted) /\ c \in Notices(p, opener, admitted)
    <3>1. chan[p].resume \in SessionOrNone /\ 0 \in SessionOrNone
      BY <1>2, MyTables, ChannelParts DEF End
    <3> QED
      BY <3>1 DEF Notices, Notice, Event
  <2> HIDE DEF e, c
  <2>4. <<e, c>> \in Seq(Notices(p, opener, admitted)) /\ Len(<<e, c>>) <= 2
    BY <2>3
  <2>5. Replied(p) /\ Told(p)
    BY <2>1, <2>2, <2>4 DEF Replied, Told
  <2> QED
    BY <1>1, <2>1, <2>5, ChannelKeeps
<1>8. CASE ChannelFails(p)
  <2>1. Moved(p) /\ chan'[p].call \in {0, chan[p].call}
    BY <1>2, <1>8, HandshakeFailsMoves DEF ChannelFails
  <2>2. PICK type \in {"error", "closed"} : Hears(p, <<Event(type, 0, type)>>)
    BY <1>8 DEF ChannelFails
  <2> DEFINE e == Event(type, 0, type)
  <2>3. Len(events[p]) < MaxEvents /\ events' = [events EXCEPT ![p] = events[p] \o <<e>>]
    BY <2>2 DEF Hears
  <2>4. e \in Notices(p, opener, admitted)
    BY MyTables DEF Notices, Notice, Event
  <2> HIDE DEF e
  <2>5. <<e>> \in Seq(Notices(p, opener, admitted)) /\ Len(<<e>>) <= 2
    BY <2>4
  <2>6. Answered(p, "threw")
    BY <1>8 DEF ChannelFails
  <2>7. Replied(p)
    BY <1>1, <2>1, <2>6, AnsweredIs
  <2>8. Told(p)
    BY <2>3, <2>5 DEF Told
  <2> QED
    BY <1>1, <2>1, <2>7, <2>8, ChannelKeeps
<1>9. CASE ChannelDelivers(p)
  <2> DEFINE m == Head(mail[p])
             e == Event("message", m.sessionId, m.body)
  <2>1. Moved(p) /\ chan'[p].call = chan[p].call /\ m \in Letters(p, opener, admitted)
    BY <1>2, <1>9, DeliversMoves DEF ChannelDelivers
  <2>2. /\ Len(events[p]) < MaxEvents /\ events' = [events EXCEPT ![p] = events[p] \o <<e>>]
        /\ asking' = asking
    BY <1>9 DEF ChannelDelivers, Hears
  <2>3. e \in Notices(p, opener, admitted)
    <3>1. m.sessionId \in Session /\ m.body \in Bodies /\ Honest(m, p, opener, admitted)
      BY <2>1 DEF Letters, Letter
    <3>2. /\ e \in [type : {"message"}, sessionId : Session, body : Bodies]
          /\ e.sessionId = m.sessionId /\ e.body = m.body
      BY <3>1 DEF Event
    <3> HIDE DEF e, m
    <3> QED
      BY <3>1, <3>2 DEF Notices, Notice, Honest
  <2> HIDE DEF e, m
  <2>4. <<e>> \in Seq(Notices(p, opener, admitted)) /\ Len(<<e>>) <= 2
    BY <2>3
  <2>5. Replied(p) /\ Told(p)
    BY <2>1, <2>2, <2>4 DEF Replied, Told
  <2> QED
    BY <1>1, <2>1, <2>5, ChannelKeeps
<1> QED
  BY <1>4, <1>5, <1>6, <1>7, <1>8, <1>9 DEF ChannelChange

LEMMA RestartKeeps ==
  ASSUME IInv, NEW p \in Phone, Restart(p)
  PROVE  IInv'
<1>1. /\ Restarts(p) /\ timeout' = [timeout EXCEPT ![p] = 0]
      /\ product' = [product EXCEPT ![p] = Paired]
      /\ asking' = [asking EXCEPT ![p] = NotAsking]
      /\ ending' = [ending EXCEPT ![p] = Nothing]
      /\ events' = [events EXCEPT ![p] = <<>>] /\ admitted' = admitted
  BY DEF Restart, ForgetRequest
<1>2. Moved(p) /\ chan'[p].call = 0
  BY <1>1, MyTables, RestartsMoves
<1>3. /\ product'[p] = Paired /\ timeout'[p] = 0 /\ asking'[p] = NotAsking
      /\ ending'[p] = Nothing /\ events'[p] = <<>>
  BY <1>1, MyTables
<1>4. Turns(p)
  BY <1>1, MyTables, Kinds DEF Turns, Writes
<1>5. Len(events'[p]) <= MaxEvents + 2 /\ events'[p] \in Seq(Notices(p, opener, admitted))
  BY <1>3, EmptyQueue, Bounds
<1>6. ~IsActive(ending'[p])
  BY <1>3, KindsActive
<1> QED
  BY <1>1, <1>2, <1>3, <1>4, <1>5, <1>6, ComesToRest
-----------------------------------------------------------------------------
(* The invariant holds. *)

LEMMA InitGood == Init => IInv
<1> SUFFICES ASSUME Init PROVE IInv
  OBVIOUS
<1>1. Channel
  <2>1. NewEnd \in End /\ NewEnd.call = 0 /\ NewEnd.session = 0 /\ NewEnd.resume = 0
    BY Bounds DEF NewEnd, End, SessionOrNone
  <2>2. opener \in Seq(Phone) /\ Len(opener) = 0 /\ Len(opener) <= MaxSession
    BY Bounds DEF Init, ChannelInit
  <2>3. chan \in [Phone -> End] /\ mail \in [Phone -> Seq(Letter)]
        /\ hello \in [Phone -> [Session -> 0..MaxHello]] /\ admitted \in [Phone -> SUBSET Session]
    BY <2>1, Bounds DEF Init, ChannelInit
  <2>4. ASSUME NEW p \in Phone
        PROVE  Knows(chan[p], hello[p], opener) /\ mail[p] \in Seq(Letters(p, opener, admitted))
    <3>1. chan[p] = NewEnd /\ mail[p] = <<>> /\ \A s \in Session : hello[p][s] = 0
      BY DEF Init, ChannelInit
    <3> QED
      BY <2>1, <2>2, <3>1, EmptyQueue DEF Knows
  <2> QED
    BY <2>2, <2>3, <2>4 DEF Channel
<1>2. Controllers
  BY Kinds, EmptyQueue, Bounds DEF Init, Controllers, SessionOrNone, Askings
<1>3. ASSUME NEW p \in Phone PROVE Mine(p)
  <2>1. /\ product[p] = Paired /\ timeout[p] = 0 /\ asking[p] = NotAsking
        /\ ending[p] = Nothing /\ events[p] = <<>> /\ chan[p] = NewEnd
    BY DEF Init, ChannelInit
  <2>2. asking[p].step = "no" /\ chan[p].call = 0
    BY <2>1 DEF NotAsking, NewEnd
  <2>3. Calls(p)
    BY <2>2 DEF Calls
  <2>4. Plays(p)
    BY <2>1, KindsActive DEF Plays, Active
  <2>5. Timed(p)
    BY <2>1, Kinds, KindsActive DEF Timed, InRequest
  <2>6. Room(p)
    <3>1. Len(events[p]) = 0
      BY <2>1
    <3> QED
      BY <2>1, <2>2, <3>1, Bounds DEF Room
  <2> QED
    BY <2>1, <2>3, <2>4, <2>5, <2>6, EmptyQueue DEF Mine
<1> QED
  BY <1>1, <1>2, <1>3 DEF IInv

LEMMA NextGood ==
  ASSUME IInv, Next
  PROVE  IInv'
<1>1. PICK p \in Phone : UserCall(p) \/ ControllerStep(p) \/ ChannelChange(p) \/ Restart(p)
  BY DEF Next
<1>2. CASE UserCall(p)
  BY <1>2, AskKeeps, AskRefusedKeeps, AcceptRequestKeeps, FinishRequestKeeps,
     FinishSessionKeeps, SendMediaKeeps, ClearErrorKeeps DEF UserCall
<1>3. CASE ControllerStep(p)
  BY <1>3, AskThrewKeeps, AskReturnedKeeps, FinishEndingKeeps, HandleEventKeeps,
     TimeoutFiresKeeps DEF ControllerStep
<1> QED
  BY <1>1, <1>2, <1>3, ChannelChangeKeeps, RestartKeeps

LEMMA StutterGood ==
  ASSUME IInv, UNCHANGED vars
  PROVE  IInv'
<1>1. UNCHANGED <<chan, mail, hello, opener, product, timeout, asking, ending, events, admitted>>
  BY DEF vars, channelVars, productVars
<1>2. Channel' /\ Controllers'
  BY <1>1 DEF IInv, Channel, Controllers
<1>3. ASSUME NEW p \in Phone PROVE Mine(p)'
  <2>1. Mine(p)
    BY DEF IInv
  <2>2. Calls(p)' /\ Plays(p)' /\ Timed(p)' /\ Room(p)'
    BY <1>1, <2>1 DEF Mine, Calls, Plays, Timed, Room, InRequest, Active
  <2> QED
    BY <1>1, <2>1, <2>2 DEF Mine
<1> QED
  BY <1>2, <1>3 DEF IInv

\* Every reachable state of the two controllers and their channel satisfies IInv.
THEOREM SharingInvariant == Spec => []IInv
<1>1. IInv /\ [Next]_vars => IInv'
  BY NextGood, StutterGood
<1> QED
  BY InitGood, <1>1, PTL DEF Spec

\* Whoever watches asked for it, and the partner's user agreed: the role tells who
\* opened the session, and a requester is Connected only on a session on which the
\* other phone's user sent an acceptance (requestScreen, acceptRequest,
\* handleMessage), for any number of sessions, losses, breaks and restarts.
THEOREM ViewersWereAdmitted == Spec => []ViewerWasAdmitted
<1>1. ASSUME IInv PROVE ViewerWasAdmitted
  <2>1. ASSUME NEW p \in Phone
        PROVE  /\ chan[p] \in End /\ mail[p] \in Seq([sessionId : Session, body : Bodies])
               /\ product[p].sessionId \in SessionOrNone /\ timeout[p] \in SessionOrNone
               /\ asking[p].step \in {"no", "calling", "returned", "threw"}
               /\ Len(events[p]) <= MaxEvents + 2
    <3>1. product[p].sessionId \in SessionOrNone
      <4>1. product[p] \in States
        BY <1>1, MyParts
      <4>2. ~IsActive(product[p]) => product[p].sessionId = 0
        BY <4>1, KindOf DEF Unpaired, Paired, ErrorShown, State
      <4> QED
        BY <4>1, <4>2, KindOf, Bounds DEF Session, SessionOrNone
    <3> QED
      <4>1. chan[p] \in End /\ mail[p] \in Seq([sessionId : Session, body : Bodies])
        BY <1>1, MyTables DEF Channel, Letter
      <4>2. timeout[p] \in SessionOrNone /\ asking[p].step \in {"no", "calling", "returned", "threw"}
        BY <1>1, MyParts, MyAsking
      <4>3. Len(events[p]) <= MaxEvents + 2
        BY <1>1, RoomIs, Bounds
      <4> QED
        BY <3>1, <4>1, <4>2, <4>3
  <2>2. ASSUME NEW p \in Phone PROVE Plays(p)
    BY <1>1, MyParts
  <2> QED
    BY <2>1, <2>2 DEF ViewerWasAdmitted, TypeOK, Plays
<1> QED
  BY SharingInvariant, <1>1, PTL

\* A request on the screen has a time-out that ends it, armed or waiting to be
\* handled, and no time-out is armed for anything else (scheduleTimeout and every
\* clearTimeout), however calls, messages and time-outs interleave.
THEOREM RequestsAreAlwaysTimed == Spec => []RequestsAreTimed
<1>1. ASSUME IInv PROVE RequestsAreTimed
  <2>1. ASSUME NEW p \in Phone PROVE Timed(p)
    BY <1>1, MyParts
  <2> QED
    BY <2>1 DEF RequestsAreTimed, Timed, Rings
<1> QED
  BY SharingInvariant, <1>1, PTL
-----------------------------------------------------------------------------
(* The first session has its channel. *)

Holds(p) == 1 \in {chan[p].session, chan[p].resume}
Waits(p) == ~Active(p) /\ ending[p] = Nothing
Silent(q) == \A i \in DOMAIN q : q[i].type # "message"
Asks(e) == e.type = "message" /\ e.body = "request"
Unasked(p) == Waits(p) /\ Silent(events[p])

\* What SessionHasChannel says of one phone.
Outlasts(p) ==
  Active(p) => \/ Holds(p) \/ ending[p] # Nothing
               \/ \E i \in DOMAIN events[p] : Ends(events[p][i])

\* The request is the first thing said, to a phone that does nothing yet.
FirstLetter(p) ==
  \A i \in DOMAIN mail[p] : mail[p][i].body = "request" => i = 1 /\ Unasked(p)
FirstNotice(p) ==
  \A i \in DOMAIN events[p] : Asks(events[p][i]) =>
    /\ Waits(p)
    /\ Holds(p) \/ \E j \in DOMAIN events[p] : j > i /\ Ends(events[p][j])
    /\ \A j \in DOMAIN events[p] : j < i => events[p][j].type # "message"
    /\ \A j \in DOMAIN events[p] : j > i => ~Asks(events[p][j])

\* While nobody opened a second session: the phone that is to be asked waits for
\* it, and what it is asked for still has a channel, or an end that follows.
Begin(p) ==
  /\ Outlasts(p)
  /\ ~IsActive(ending[p])
  /\ lastSession = 0 => ending[p] = Nothing
  /\ asking[Other(p)].step # "no" => Unasked(p) /\ mail[p] = <<>>
  /\ FirstLetter(p)
  /\ FirstNotice(p)

FirstGood == lastSession <= 1 => \A p \in Phone : Begin(p)

\* The mail and the queue of a phone, as sequences.
LEMMA MyQueues ==
  ASSUME IInv, NEW p \in Phone
  PROVE  /\ mail[p] \in Seq(Letters(p, opener, admitted))
         /\ events[p] \in Seq(Notices(p, opener, admitted))
         /\ lastSession \in Nat
         /\ \A i \in DOMAIN mail[p] :
              mail[p][i].sessionId \in 1..lastSession /\ Honest(mail[p][i], p, opener, admitted)
         /\ \A i \in DOMAIN events[p] : events[p][i].type = "message" =>
              events[p][i].sessionId \in 1..lastSession /\ Honest(events[p][i], p, opener, admitted)
<1>1. mail[p] \in Seq(Letters(p, opener, admitted)) /\ lastSession \in Nat
  BY MyTables, ChannelParts DEF Channel, lastSession
<1>2. events[p] \in Seq(Notices(p, opener, admitted))
  BY MyParts
<1>3. \A i \in DOMAIN mail[p] :
        mail[p][i].sessionId \in Session /\ Honest(mail[p][i], p, opener, admitted)
  BY <1>1 DEF Letters, Letter
<1>4. \A i \in DOMAIN events[p] : events[p][i].type = "message" =>
        events[p][i].sessionId \in Session /\ Honest(events[p][i], p, opener, admitted)
  <2>1. \A i \in DOMAIN events[p] : events[p][i] \in Notices(p, opener, admitted)
    BY <1>2
  <2> QED
    BY <2>1, NoticesAre
<1> QED
  BY <1>1, <1>2, <1>3, <1>4, Bounds DEF Honest, Session, lastSession

\* Before anybody asked nothing has been said.
LEMMA NothingYet ==
  ASSUME IInv, lastSession = 0, NEW p \in Phone
  PROVE  /\ ~Active(p) /\ mail[p] = <<>> /\ Silent(events[p]) /\ asking[p].step = "no"
<1>1. mail[p] = <<>> /\ Silent(events[p])
  <2>1. 1..lastSession = {}
    OBVIOUS
  <2>2. 1 \notin DOMAIN mail[p]
    BY <2>1, MyQueues
  <2>3. mail[p] = <<>>
    <3>1. PICK S : mail[p] \in Seq(S)
      BY MyQueues
    <3>2. Len(mail[p]) \in Nat /\ DOMAIN mail[p] = 1..Len(mail[p])
      BY <3>1, LenProperties
    <3>3. Len(mail[p]) = 0
      BY <2>2, <3>2
    <3> QED
      BY <3>1, <3>3, EmptySeq
  <2>4. Silent(events[p])
    BY <2>1, MyQueues DEF Silent
  <2> QED
    BY <2>3, <2>4
<1>2. ~Active(p)
  <2>1. product[p] \in States /\ Plays(p)
    BY MyParts
  <2>2. Active(p) => product[p].sessionId \in Session
    BY <2>1, KindOf DEF Active
  <2>3. Active(p) => product[p].sessionId <= lastSession
    BY <2>1 DEF Plays, lastSession
  <2> QED
    BY <2>2, <2>3, Bounds DEF Session
<1>3. asking[p].step = "no"
  BY MyAsking, MyParts, Bounds DEF Calls, Session, lastSession
<1> QED
  BY <1>1, <1>2, <1>3

\* The phone that asks for the first session is not asked itself.
LEMMA AskerIsFirst ==
  ASSUME IInv, lastSession <= 1, NEW p \in Phone, asking[p].step # "no"
  PROVE  /\ \A i \in DOMAIN mail[p] : mail[p][i].body # "request"
         /\ \A i \in DOMAIN events[p] : ~Asks(events[p][i])
         /\ asking[Other(p)].step = "no"
<1>1. /\ Other(p) \in Phone /\ Other(p) # p /\ lastSession \in Nat
  BY TwoPhones, MyQueues
<1>2. \A q \in Phone : asking[q].step # "no" => opener[1] = q
  <2>1. \A q \in Phone : asking[q].step # "no" =>
          asking[q].sessionId \in 1..lastSession /\ opener[asking[q].sessionId] = q
    BY MyAsking, MyParts, Bounds DEF Calls, Session, lastSession
  <2> QED
    BY <1>1, <2>1
<1>3. opener[1] = p
  BY <1>2
<1>4. \A i \in DOMAIN mail[p] : mail[p][i].body # "request"
  BY <1>1, <1>3, MyQueues DEF Honest
<1>5. \A i \in DOMAIN events[p] : ~Asks(events[p][i])
  BY <1>1, <1>3, MyQueues DEF Honest, Asks
<1> QED
  BY <1>1, <1>2, <1>3, <1>4, <1>5

-----------------------------------------------------------------------------
(* What a step of one phone has to keep. *)

\* Phone p does not touch the other one, but for what it says to it.
Apart(p) ==
  LET q == Other(p) IN
  /\ product'[q] = product[q] /\ ending'[q] = ending[q] /\ events'[q] = events[q]
  /\ chan'[q] = chan[q] /\ asking'[q] = asking[q] /\ opener' = opener

\* Phone p says something else than a request.
Tells(p) ==
  LET q == Other(p) IN
  \/ mail'[q] = mail[q]
  \/ \E m : m.body # "request" /\ mail'[q] = Append(mail[q], m)

\* The mail of phone p is lost from its end.
Fewer(p) ==
  \A i \in DOMAIN mail'[p] : i \in DOMAIN mail[p] /\ mail'[p][i] = mail[p][i]

LEMMA PartnerBegins ==
  ASSUME IInv, NEW p \in Phone, Apart(p), Begin(Other(p)),
         \/ mail'[Other(p)] = mail[Other(p)]
         \/ /\ asking'[p].step = "no"
            /\ \E m : /\ m.body = "request" => asking[p].step # "no"
                      /\ mail'[Other(p)] = Append(mail[Other(p)], m),
         asking'[p].step # "no" => asking[p].step # "no"
  PROVE  Begin(Other(p))'
<1> DEFINE q == Other(p)
<1>1. q \in Phone /\ Other(q) = p
  BY TwoPhones
<1>2. PICK S : mail[q] \in Seq(S)
  BY <1>1, MyQueues
<1>3. /\ Active(q)' = Active(q) /\ Holds(q)' = Holds(q) /\ Waits(q)' = Waits(q)
      /\ Unasked(q)' = Unasked(q) /\ lastSession' = lastSession
  BY DEF Apart, Active, Holds, Waits, Unasked, Silent, lastSession
<1>4. Outlasts(q)' /\ FirstNotice(q)'
  BY <1>3 DEF Begin, Outlasts, FirstNotice, Apart
<1>5. FirstLetter(q)' /\ (asking'[p].step # "no" => mail'[q] = mail[q])
  <2>1. CASE mail'[q] = mail[q]
    BY <1>3, <2>1 DEF Begin, FirstLetter
  <2>2. CASE /\ asking'[p].step = "no"
             /\ \E m : /\ m.body = "request" => asking[p].step # "no"
                       /\ mail'[q] = Append(mail[q], m)
    <3>1. PICK m : /\ m.body = "request" => asking[p].step # "no"
                   /\ mail'[q] = Append(mail[q], m)
      BY <2>2
    <3>2. ASSUME NEW i \in DOMAIN mail'[q], mail'[q][i].body = "request"
          PROVE  i = 1 /\ Unasked(q)
      <4>1. CASE i \in DOMAIN mail[q]
        <5>1. mail'[q][i] = mail[q][i]
          BY <1>2, <3>1, <4>1
        <5> QED
          BY <3>2, <4>1, <5>1 DEF Begin, FirstLetter
      <4>2. CASE i \notin DOMAIN mail[q]
        <5>1. mail'[q][i] = m /\ i = Len(mail[q]) + 1
          BY <1>2, <3>1, <3>2, <4>2
        <5>2. mail[q] = <<>> /\ Unasked(q)
          BY <1>1, <3>1, <3>2, <5>1 DEF Begin
        <5> QED
          BY <5>1, <5>2
      <4> QED
        BY <4>1, <4>2
    <3> QED
      BY <1>3, <2>2, <3>2 DEF FirstLetter
  <2> QED
    BY <2>1, <2>2
<1>6. /\ ~IsActive(ending[q])' /\ (lastSession = 0 => ending[q] = Nothing)'
      /\ (asking[Other(q)].step # "no" => Unasked(q) /\ mail[q] = <<>>)'
  BY <1>1, <1>3, <1>5 DEF Begin, Apart
<1> QED
  BY <1>4, <1>5, <1>6 DEF Begin

LEMMA JointBegins ==
  ASSUME IInv, IInv', NEW p \in Phone, Apart(p), Begin(p), Begin(Other(p)), Fewer(p),
         Tells(p), mail'[Other(p)] = mail[Other(p)] \/ asking'[p].step = "no",
         asking'[p].step # "no" => asking[p].step # "no",
         Unasked(p) => Unasked(p)', Outlasts(p)', FirstNotice(p)',
         ~IsActive(ending'[p]), lastSession = 0 => ending'[p] = Nothing
  PROVE  Begin(p)' /\ Begin(Other(p))'
<1>1. lastSession' = lastSession /\ asking'[Other(p)] = asking[Other(p)]
  BY DEF Apart, lastSession
<1>2. FirstLetter(p)'
  BY DEF Begin, FirstLetter, Fewer
<1>3. mail[p] = <<>> => mail'[p] = <<>>
  <2>1. mail'[p] \in Seq(Letter)
    BY DEF IInv, Channel
  <2>2. mail[p] = <<>> => 1 \notin DOMAIN mail'[p]
    BY DEF Fewer
  <2> QED
    BY <2>1, <2>2, EmptySeq, LenProperties
<1>4. Begin(p)'
  BY <1>1, <1>2, <1>3 DEF Begin
<1>5. Begin(Other(p))'
  BY PartnerBegins DEF Tells
<1> QED
  BY <1>4, <1>5

-----------------------------------------------------------------------------
(* What the operators of the channel leave to a session and to the partner. *)

LEMMA CloseLeaves ==
  ASSUME IInv, NEW p \in Phone, Close(p) \/ Deactivate(p) \/ Restarts(p)
  PROVE  /\ chan'[Other(p)] = chan[Other(p)] /\ opener' = opener
         /\ mail'[Other(p)] = mail[Other(p)] /\ mail'[p] = <<>> /\ Fewer(p) /\ Tells(p)
<1>1. /\ \E e : chan' = [chan EXCEPT ![p] = e]
      /\ mail' = [mail EXCEPT ![p] = <<>>] /\ opener' = opener
  BY DEF Close, Deactivate, Restarts
<1>2. mail \in [Phone -> Seq(Letter)] /\ chan \in [Phone -> End]
  BY MyTables DEF Channel
<1> QED
  BY <1>1, <1>2, TwoPhones DEF Fewer, Tells

LEMMA InterruptedLeaves ==
  ASSUME IInv, NEW p \in Phone, Interrupted(p)
  PROVE  /\ chan'[Other(p)] = chan[Other(p)] /\ opener' = opener
         /\ mail'[Other(p)] = mail[Other(p)] /\ mail'[p] = <<>> /\ Fewer(p) /\ Tells(p)
         /\ Holds(p) => Holds(p)'
<1>1. PICK e : e = [chan[p] EXCEPT !.resume = chan[p].session, !.session = 0]
  OBVIOUS
<1>2. mail \in [Phone -> Seq(Letter)] /\ chan \in [Phone -> End] /\ chan[p] \in End
  BY MyTables DEF Channel
<1>3. e.resume = chan[p].session
  BY <1>1, <1>2 DEF End
<1>4. chan' = [chan EXCEPT ![p] = e] /\ mail' = [mail EXCEPT ![p] = <<>>] /\ opener' = opener
  BY <1>1, <1>2 DEF Interrupted
<1>5. chan'[p] = e /\ chan[p].resume = 0
  BY <1>2, <1>4 DEF Interrupted
<1>6. Holds(p) => Holds(p)'
  BY <1>3, <1>5 DEF Holds
<1> QED
  BY <1>2, <1>4, <1>6, TwoPhones DEF Fewer, Tells

LEMMA SendLeaves ==
  ASSUME IInv, NEW p \in Phone, NEW body,
         TrySend(p, body) \/ Sends(p, body) \/ SendThrows(p)
  PROVE  /\ chan'[Other(p)] = chan[Other(p)] /\ opener' = opener /\ Fewer(p)
         /\ Holds(p) => Holds(p)'
         /\ \/ mail'[Other(p)] = mail[Other(p)]
            \/ \E m : m.body = body /\ mail'[Other(p)] = Append(mail[Other(p)], m)
<1>1. mail \in [Phone -> Seq(Letter)] /\ Other(p) \in Phone /\ Other(p) # p
  BY MyTables, TwoPhones DEF Channel
<1>2. CASE Sent(p, body)
  <2>1. chan' = chan /\ opener' = opener
    BY <1>2 DEF Sent
  <2>2. PICK m : m = [sessionId |-> chan[p].session, body |-> body]
    OBVIOUS
  <2>3. m.body = body
    BY <2>2
  <2>4. mail' = mail \/ mail' = [mail EXCEPT ![Other(p)] = Append(mail[Other(p)], m)]
    BY <1>2, <2>2 DEF Sent
  <2>5. mail'[p] = mail[p]
    BY <1>1, <2>4
  <2>6. mail'[Other(p)] = mail[Other(p)] \/ mail'[Other(p)] = Append(mail[Other(p)], m)
    BY <1>1, <2>4
  <2> QED
    BY <2>1, <2>3, <2>5, <2>6 DEF Fewer, Holds
<1>3. CASE UNCHANGED channelVars
  BY <1>3 DEF channelVars, Fewer, Holds
<1>4. CASE Interrupted(p)
  BY <1>4, InterruptedLeaves
<1> QED
  BY <1>2, <1>3, <1>4 DEF TrySend, Sends, SendThrows

-----------------------------------------------------------------------------
(* One lemma per kind of step. *)

\* A call of the user or of the media session, with nothing left to handle.
LEMMA CallBegins ==
  ASSUME IInv, IInv', NEW p \in Phone, Ready(p), Begin(p), Begin(Other(p)), Fewer(p), Tells(p),
         UNCHANGED <<asking, events, opener>>, chan'[Other(p)] = chan[Other(p)],
         product'[Other(p)] = product[Other(p)], ending'[Other(p)] = ending[Other(p)],
         \/ ~Active(p)' /\ ending'[p] = Nothing
         \/ Active(p) /\ ending'[p] = Nothing /\ (Holds(p) => Holds(p)')
         \/ Active(p) /\ ending'[p] \in {Paired, ErrorShown}
  PROVE  Begin(p)' /\ Begin(Other(p))'
<1>1. asking[p].step = "no" /\ ending[p] = Nothing /\ events[p] = <<>> /\ events'[p] = <<>>
  BY DEF Ready, Idle, NotAsking
<1>2. Apart(p)
  BY DEF Apart
<1>3. FirstNotice(p)' /\ Silent(events'[p])
  BY <1>1 DEF FirstNotice, Silent
<1>4. ~IsActive(Nothing) /\ ~IsActive(Paired) /\ ~IsActive(ErrorShown)
      /\ Paired # Nothing /\ ErrorShown # Nothing
  BY Kinds, KindsActive
<1>5. Unasked(p) => Unasked(p)'
  BY <1>3 DEF Unasked, Waits
<1>6. lastSession = 0 => ending'[p] = Nothing
  BY NothingYet
<1>7. Active(p) => Holds(p)
  BY <1>1 DEF Begin, Outlasts
<1>8. Outlasts(p)'
  BY <1>4, <1>7 DEF Outlasts
<1> QED
  BY <1>1, <1>2, <1>3, <1>4, <1>5, <1>6, <1>8, JointBegins

LEMMA UserCallBegins ==
  ASSUME IInv, IInv', NEW p \in Phone, Begin(p), Begin(Other(p)), UserCall(p), ~Ask(p)
  PROVE  Begin(p)' /\ Begin(Other(p))'
<1>1. /\ product \in [Phone -> States] /\ ending \in [Phone -> States \cup {Nothing}]
      /\ Other(p) \in Phone /\ Other(p) # p /\ product[p] \in States
  BY MyTables, MyParts, TwoPhones
<1>2. ~IsActive(Paired) /\ ~IsActive(ErrorShown) /\ ~IsActive(Unpaired)
  BY KindsActive
<1>3. CASE AskRefused(p) \/ ClearError(p) \/ DeactivatePair(p)
  <2>1. /\ Ready(p) /\ UNCHANGED <<asking, ending, events>>
        /\ Close(p) \/ Deactivate(p)
        /\ \E next \in {Paired, ErrorShown, Unpaired} : product' = [product EXCEPT ![p] = next]
    BY <1>3 DEF AskRefused, ClearError, DeactivatePair, CloseInto
  <2>2. product'[p] \in {Paired, ErrorShown, Unpaired} /\ product'[Other(p)] = product[Other(p)]
    BY <1>1, <2>1
  <2>3. ~Active(p)' /\ ending'[p] = Nothing
    BY <1>2, <2>1, <2>2 DEF Active, Ready, Idle
  <2> QED
    BY <2>1, <2>2, <2>3, CloseLeaves, CallBegins
<1>4. CASE AcceptRequest(p)
  <2>1. /\ Ready(p) /\ UNCHANGED <<asking, ending, events>>
        /\ Sends(p, "accept") \/ SendThrows(p)
        /\ product' = product \/ \E x : product' = [product EXCEPT ![p] = x]
        /\ product[p].type = "IncomingRequest"
    BY <1>4 DEF AcceptRequest
  <2>2. Active(p) /\ ending'[p] = Nothing /\ product'[Other(p)] = product[Other(p)]
    BY <1>1, <2>1 DEF Active, IsActive, ActiveTypes, Ready, Idle
  <2>3. "accept" # "request"
    OBVIOUS
  <2>4. Tells(p)
    BY <2>1, <2>3, SendLeaves DEF Tells
  <2> QED
    BY <2>1, <2>2, <2>4, SendLeaves, CallBegins
<1>5. CASE SendMedia(p)
  <2>1. /\ Ready(p) /\ UNCHANGED <<product, asking, ending, events>> /\ TrySend(p, "media")
        /\ product[p].type = "Connected"
    BY <1>5 DEF SendMedia, productVars
  <2>2. Active(p) /\ ending'[p] = Nothing
    BY <1>1, <2>1 DEF Active, IsActive, ActiveTypes, Ready, Idle
  <2>3. "media" # "request"
    OBVIOUS
  <2>4. Tells(p)
    BY <2>1, <2>3, SendLeaves DEF Tells
  <2> QED
    BY <2>1, <2>2, <2>4, SendLeaves, CallBegins
<1>6. CASE DeclineRequest(p) \/ CancelRequest(p) \/ EndSession(p) \/ CaptureDenied(p)
             \/ FailConnectedSession(p)
  <2>1. PICK body \in Bodies \ {"request"}, next \in {Paired, ErrorShown} : SayLast(p, body, next)
    BY <1>6 DEF DeclineRequest, CancelRequest, EndSession, CaptureDenied, FailConnectedSession,
       FinishRequest, FinishSession, Bodies
  <2>2. Ready(p) /\ Active(p) /\ events' = events
    BY <1>6 DEF DeclineRequest, CancelRequest, EndSession, CaptureDenied, FailConnectedSession,
       FinishRequest, FinishSession, Active, IsActive, ActiveTypes
  <2>3. /\ TrySend(p, body) /\ UNCHANGED <<product, asking>>
        /\ ending' = [ending EXCEPT ![p] = next]
    BY <2>1 DEF SayLast
  <2>4. ending'[p] = next /\ ending'[Other(p)] = ending[Other(p)]
    BY <1>1, <2>3
  <2>5. Tells(p)
    BY <2>1, <2>3, SendLeaves DEF Tells
  <2> QED
    BY <2>1, <2>2, <2>3, <2>4, <2>5, SendLeaves, CallBegins
<1> QED
  BY <1>3, <1>4, <1>5, <1>6 DEF UserCall

\* requestScreen: the first session is opened while the partner waits.
LEMMA AskBegins ==
  ASSUME IInv, IInv', NEW p \in Phone, lastSession = 0, Begin(p), Begin(Other(p)), Ask(p)
  PROVE  Begin(p)' /\ Begin(Other(p))'
<1>1. /\ Ready(p) /\ Connect(p) /\ UNCHANGED <<product, ending, events>>
      /\ \E x : asking' = [asking EXCEPT ![p] = x]
  BY DEF Ask
<1>2. /\ Other(p) \in Phone /\ Other(p) # p /\ Other(Other(p)) = p /\ lastSession' = 1
      /\ mail' = mail /\ asking'[Other(p)] = asking[Other(p)]
  <2>1. opener' = Append(opener, p) /\ opener \in Seq(Phone) /\ mail' = mail
    BY <1>1, MyTables DEF Connect, Channel
  <2> QED
    BY <1>1, <2>1, TwoPhones, MyTables DEF lastSession
<1>3. ASSUME NEW q \in {p, Other(p)} PROVE Begin(q)'
  <2>1. /\ q \in Phone /\ Begin(q)
    BY <1>2
  <2>2. ~Active(q) /\ mail[q] = <<>> /\ Silent(events[q]) /\ ending[q] = Nothing
    BY <2>1, NothingYet DEF Begin
  <2>3. ~Active(q)' /\ mail'[q] = <<>> /\ Silent(events'[q]) /\ ending'[q] = Nothing
    BY <1>1, <1>2, <2>2 DEF Active
  <2>4. ~IsActive(Nothing)
    BY KindsActive
  <2>5. Unasked(q)'
    BY <2>3 DEF Unasked, Waits
  <2>6. FirstNotice(q)' /\ FirstLetter(q)' /\ Outlasts(q)'
    BY <2>3 DEF FirstNotice, FirstLetter, Outlasts, Silent, Asks
  <2> QED
    BY <1>2, <2>3, <2>4, <2>5, <2>6 DEF Begin
<1> QED
  BY <1>2, <1>3

\* requestScreen goes on: the request is the first thing said, on the session that
\* connect() returned.
LEMMA AskEndsBegins ==
  ASSUME IInv, IInv', NEW p \in Phone, lastSession <= 1, Begin(p), Begin(Other(p)),
         AskThrew(p) \/ AskReturned(p)
  PROVE  Begin(p)' /\ Begin(Other(p))'
<1>1. /\ product \in [Phone -> States] /\ ending \in [Phone -> States \cup {Nothing}]
      /\ asking \in [Phone -> Askings] /\ Other(p) \in Phone /\ Other(p) # p
  BY MyTables, TwoPhones
<1>2. asking[p].step # "no" /\ lastSession # 0 /\ lastSession = 1 /\ NotAsking.step = "no"
  BY NothingYet, MyQueues DEF AskThrew, AskReturned, NotAsking
<1>3. /\ \A i \in DOMAIN mail[p] : mail[p][i].body # "request"
      /\ \A i \in DOMAIN events[p] : ~Asks(events[p][i])
      /\ asking[Other(p)].step = "no"
  BY <1>2, AskerIsFirst
<1>4. /\ events' = events /\ asking' = [asking EXCEPT ![p] = NotAsking]
      /\ Calls(p) /\ ending[p] = Nothing
  BY <1>2, MyParts DEF AskThrew, AskReturned, Calls
<1>5. asking'[Other(p)].step = "no" /\ asking'[p].step = "no"
  BY <1>1, <1>2, <1>3, <1>4
<1>6. FirstNotice(p)'
  BY <1>3, <1>4 DEF FirstNotice
<1>7. ~IsActive(Nothing) /\ ~IsActive(ErrorShown) /\ ErrorShown # Nothing
  BY Kinds, KindsActive
<1>8. CASE AskThrew(p)
  <2>1. Close(p) /\ product' = [product EXCEPT ![p] = ErrorShown] /\ ending' = ending
    BY <1>8 DEF AskThrew, CloseInto
  <2>2. Apart(p)
    BY <1>1, <1>4, <2>1, CloseLeaves DEF Apart
  <2>3. Fewer(p) /\ mail'[Other(p)] = mail[Other(p)] /\ lastSession' = 1
    BY <1>2, <2>1, CloseLeaves DEF lastSession
  <2>4. ~Active(p)'
    BY <1>1, <1>7, <2>1 DEF Active
  <2>5. Outlasts(p)' /\ FirstLetter(p)'
    BY <1>3, <2>3, <2>4 DEF Outlasts, FirstLetter, Fewer
  <2>6. Begin(p)'
    BY <1>4, <1>5, <1>6, <1>7, <2>1, <2>3, <2>5 DEF Begin
  <2>7. Begin(Other(p))'
    BY <1>5, <2>2, <2>3, PartnerBegins
  <2> QED
    BY <2>6, <2>7
<1>9. CASE AskReturned(p)
  <2>1. \/ /\ Sends(p, "request") /\ ending' = ending
           /\ \E x : product' = [product EXCEPT ![p] = x]
        \/ /\ SendThrows(p) /\ ending' = [ending EXCEPT ![p] = ErrorShown]
           /\ product' = product
    BY <1>9 DEF AskReturned
  <2>2. /\ Fewer(p) /\ chan'[Other(p)] = chan[Other(p)] /\ opener' = opener
        /\ Holds(p) => Holds(p)'
        /\ \/ mail'[Other(p)] = mail[Other(p)]
           \/ \E m : m.body = "request" /\ mail'[Other(p)] = Append(mail[Other(p)], m)
    BY <2>1, SendLeaves
  <2>3. Apart(p)
    BY <1>1, <1>4, <2>1, <2>2 DEF Apart
  <2>4. Holds(p)
    <3>1. chan[p].session = asking[p].sessionId /\ asking[p].sessionId <= lastSession
          /\ asking[p].sessionId \in Session
      BY <1>2, <1>4, <1>9, MyAsking DEF AskReturned, Calls, lastSession
    <3>2. asking[p].sessionId = 1
      BY <1>2, <3>1, Bounds DEF Session
    <3> QED
      BY <3>1, <3>2 DEF Holds
  <2>5. Outlasts(p)' /\ FirstLetter(p)' /\ lastSession' = 1
    BY <1>2, <1>3, <2>2, <2>4 DEF Outlasts, FirstLetter, Fewer, lastSession
  <2>6. ~IsActive(ending'[p])
    BY <1>1, <1>4, <1>7, <2>1
  <2>7. Begin(p)'
    BY <1>5, <1>6, <2>5, <2>6 DEF Begin
  <2>8. Begin(Other(p))'
    BY <1>2, <1>5, <2>2, <2>3, PartnerBegins
  <2> QED
    BY <2>7, <2>8
<1> QED
  BY <1>8, <1>9

LEMMA FinishEndingBegins ==
  ASSUME IInv, IInv', NEW p \in Phone, Begin(p), Begin(Other(p)), FinishEnding(p)
  PROVE  Begin(p)' /\ Begin(Other(p))'
<1>1. /\ product \in [Phone -> States] /\ ending \in [Phone -> States \cup {Nothing}]
      /\ Other(p) \in Phone /\ Other(p) # p
  BY MyTables, TwoPhones
<1>2. /\ ending[p] # Nothing /\ Close(p) /\ product' = [product EXCEPT ![p] = ending[p]]
      /\ ending' = [ending EXCEPT ![p] = Nothing] /\ asking' = asking /\ events' = events
  BY DEF FinishEnding, CloseInto
<1>3. Apart(p)
  BY <1>1, <1>2, CloseLeaves DEF Apart
<1>4. ~Waits(p) /\ ~Active(p)' /\ ending'[p] = Nothing /\ ~IsActive(Nothing)
  BY <1>1, <1>2, KindsActive DEF Waits, Active, Begin
<1>5. \A i \in DOMAIN events[p] : ~Asks(events[p][i])
  BY <1>4 DEF Begin, FirstNotice
<1>6. Outlasts(p)' /\ FirstNotice(p)' /\ (Unasked(p) => Unasked(p)')
  BY <1>2, <1>4, <1>5 DEF Outlasts, FirstNotice, Unasked
<1> QED
  BY <1>2, <1>3, <1>4, <1>6, CloseLeaves, JointBegins

\* A queue whose first event is taken.
LEMMA RestOf ==
  ASSUME NEW S, NEW q \in Seq(S), q # <<>>
  PROVE  /\ 1 \in DOMAIN q /\ Head(q) = q[1]
         /\ \A i \in DOMAIN Tail(q) : i \in Nat /\ i + 1 \in DOMAIN q /\ Tail(q)[i] = q[i + 1]
         /\ \A i \in DOMAIN q : i # 1 => i - 1 \in DOMAIN Tail(q) /\ Tail(q)[i - 1] = q[i]
<1>1. Len(q) \in Nat \ {0} /\ DOMAIN q = 1..Len(q)
  BY EmptySeq, LenProperties
<1>2. /\ Head(q) = q[1] /\ DOMAIN Tail(q) = 1..(Len(q) - 1)
      /\ \A i \in 1..(Len(q) - 1) : Tail(q)[i] = q[i + 1]
  BY <1>1
<1> QED
  BY <1>1, <1>2

\* The next request is still in front, and what ends a session still follows.
LEMMA NoticeTaken ==
  ASSUME IInv, NEW p \in Phone, Begin(p), events[p] # <<>>, events'[p] = Tail(events[p]),
         Waits(p) /\ Head(events[p]).type # "message" =>
           Waits(p)' /\ (Holds(p) => Holds(p)')
  PROVE  /\ FirstNotice(p)'
         /\ ~Ends(Head(events[p])) =>
              ((\E i \in DOMAIN events[p] : Ends(events[p][i]))
                 => \E i \in DOMAIN events'[p] : Ends(events'[p][i]))
         /\ Silent(events[p]) => Head(events[p]).type # "message" /\ Silent(events'[p])
<1> DEFINE q == events[p]
<1>1. PICK S : q \in Seq(S)
  BY MyQueues
<1>2. /\ 1 \in DOMAIN q /\ Head(q) = q[1]
      /\ \A i \in DOMAIN Tail(q) : i \in Nat /\ i + 1 \in DOMAIN q /\ Tail(q)[i] = q[i + 1]
      /\ \A i \in DOMAIN q : i # 1 => i - 1 \in DOMAIN Tail(q) /\ Tail(q)[i - 1] = q[i]
  BY <1>1, RestOf
<1>3. ASSUME NEW i \in DOMAIN Tail(q), Asks(Tail(q)[i])
      PROVE  /\ Waits(p)'
             /\ Holds(p)' \/ \E j \in DOMAIN Tail(q) : j > i /\ Ends(Tail(q)[j])
             /\ \A j \in DOMAIN Tail(q) : j < i => Tail(q)[j].type # "message"
             /\ \A j \in DOMAIN Tail(q) : j > i => ~Asks(Tail(q)[j])
  <2>1. i \in Nat /\ i + 1 \in DOMAIN q /\ Asks(q[i + 1]) /\ i + 1 > 1
    <3>1. i \in Nat /\ i + 1 \in DOMAIN q /\ Tail(q)[i] = q[i + 1] /\ i >= 1
      BY <1>1, <1>2
    <3> QED
      BY <1>3, <3>1
  <2>2. /\ Waits(p)
        /\ Holds(p) \/ \E j \in DOMAIN q : j > i + 1 /\ Ends(q[j])
        /\ \A j \in DOMAIN q : j < i + 1 => q[j].type # "message"
        /\ \A j \in DOMAIN q : j > i + 1 => ~Asks(q[j])
    BY <2>1 DEF Begin, FirstNotice
  <2>3. Waits(p)' /\ (Holds(p) => Holds(p)')
    BY <1>2, <2>1, <2>2
  <2>4. ASSUME NEW j \in DOMAIN q, j > i + 1, Ends(q[j])
        PROVE  \E k \in DOMAIN Tail(q) : k > i /\ Ends(Tail(q)[k])
    <3>1. j \in Nat /\ j # 1
      BY <1>1, <2>1, <2>4
    <3>2. j - 1 \in DOMAIN Tail(q) /\ Tail(q)[j - 1] = q[j] /\ j - 1 > i
      BY <1>2, <2>1, <2>4, <3>1
    <3> QED
      BY <2>4, <3>2
  <2> QED
    BY <1>2, <2>1, <2>2, <2>3, <2>4
<1>4. FirstNotice(p)'
  BY <1>3 DEF FirstNotice
<1>5. ASSUME ~Ends(Head(q)), NEW i \in DOMAIN q, Ends(q[i])
      PROVE  \E k \in DOMAIN Tail(q) : Ends(Tail(q)[k])
  BY <1>2, <1>5
<1>6. Silent(q) => Head(q).type # "message" /\ Silent(Tail(q))
  BY <1>2 DEF Silent
<1> QED
  BY <1>4, <1>5, <1>6

\* What the controller does of an event, in the end.
LEMMA EventBegins ==
  ASSUME IInv, IInv', NEW p \in Phone, Begin(p), Begin(Other(p)), Idle(p), events[p] # <<>>,
         Apart(p), Fewer(p), Tells(p), events'[p] = Tail(events[p]), asking'[p] = asking[p],
         Waits(p) /\ Head(events[p]).type # "message" =>
           Waits(p)' /\ (Holds(p) => Holds(p)'),
         \/ ~Active(p)' /\ ending'[p] = Nothing
         \/ ending'[p] \in {Paired, ErrorShown, Unpaired} /\ lastSession # 0
         \/ /\ ending'[p] = Nothing /\ (Holds(p) => Holds(p)')
            /\ \/ Active(p) /\ ~Ends(Head(events[p]))
               \/ Asks(Head(events[p]))
  PROVE  Begin(p)' /\ Begin(Other(p))'
<1>1. asking'[p].step = "no" /\ ending[p] = Nothing
  BY DEF Idle, NotAsking
<1>2. /\ ~IsActive(Nothing) /\ ~IsActive(Paired) /\ ~IsActive(ErrorShown) /\ ~IsActive(Unpaired)
      /\ Paired # Nothing /\ ErrorShown # Nothing /\ Unpaired # Nothing
  BY Kinds, KindsActive
<1>3. /\ FirstNotice(p)'
      /\ ~Ends(Head(events[p])) =>
           ((\E i \in DOMAIN events[p] : Ends(events[p][i]))
              => \E i \in DOMAIN events'[p] : Ends(events'[p][i]))
      /\ Silent(events[p]) => Head(events[p]).type # "message" /\ Silent(events'[p])
  BY NoticeTaken
<1>4. Unasked(p) => Unasked(p)'
  BY <1>3 DEF Unasked
<1>5. Outlasts(p)'
  <2>1. CASE ~Active(p)' \/ ending'[p] # Nothing
    BY <2>1 DEF Outlasts
  <2>2. CASE (Holds(p) => Holds(p)') /\ Active(p) /\ ~Ends(Head(events[p]))
    BY <1>1, <1>3, <2>2 DEF Begin, Outlasts
  <2>3. CASE (Holds(p) => Holds(p)') /\ Asks(Head(events[p]))
    <3>1. PICK S : events[p] \in Seq(S)
      BY MyQueues
    <3>2. 1 \in DOMAIN events[p] /\ Head(events[p]) = events[p][1]
      BY <3>1, RestOf
    <3>3. Holds(p) \/ \E j \in DOMAIN events[p] : Ends(events[p][j])
      BY <2>3, <3>2 DEF Begin, FirstNotice
    <3>4. ~Ends(Head(events[p]))
      BY <2>3 DEF Ends, Asks
    <3> QED
      BY <1>3, <2>3, <3>3, <3>4 DEF Outlasts
  <2> QED
    BY <1>2, <2>1, <2>2, <2>3
<1>6. ~IsActive(ending'[p]) /\ (lastSession = 0 => ending'[p] = Nothing)
  BY <1>2
<1> QED
  BY <1>1, <1>3, <1>4, <1>5, <1>6, JointBegins

\* An event that is passed over.
LEMMA PassedBegins ==
  ASSUME IInv, IInv', NEW p \in Phone, Begin(p), Begin(Other(p)), Idle(p), events[p] # <<>>,
         events' = [events EXCEPT ![p] = Tail(events[p])],
         UNCHANGED <<channelVars, product, asking, ending>>,
         Ends(Head(events[p])) => ~Active(p)
  PROVE  Begin(p)' /\ Begin(Other(p))'
<1>1. events'[p] = Tail(events[p]) /\ events'[Other(p)] = events[Other(p)]
  BY MyTables, TwoPhones
<1>2. /\ Apart(p) /\ Fewer(p) /\ Tells(p) /\ asking'[p] = asking[p]
      /\ Holds(p)' = Holds(p) /\ Waits(p)' = Waits(p) /\ Active(p)' = Active(p)
      /\ ending'[p] = Nothing
  BY <1>1 DEF Apart, Fewer, Tells, Holds, Waits, Active, channelVars, Idle
<1>3. ~Active(p)' \/ (Active(p) /\ ~Ends(Head(events[p])))
  BY <1>2
<1> QED
  BY <1>1, <1>2, <1>3, EventBegins

\* An event that ends a session, or clears what is left of one.
LEMMA ClosedBegins ==
  ASSUME IInv, IInv', NEW p \in Phone, Begin(p), Begin(Other(p)), Idle(p), events[p] # <<>>,
         events' = [events EXCEPT ![p] = Tail(events[p])], UNCHANGED <<asking, ending>>,
         Active(p) \/ Head(events[p]).type = "message",
         Close(p) \/ UNCHANGED channelVars,
         NEW next \in {Unpaired, Paired, ErrorShown}, product' = [product EXCEPT ![p] = next]
  PROVE  Begin(p)' /\ Begin(Other(p))'
<1>1. events'[p] = Tail(events[p]) /\ events'[Other(p)] = events[Other(p)]
      /\ product'[p] = next /\ product'[Other(p)] = product[Other(p)]
  BY MyTables, TwoPhones
<1>2. ~Active(p)'
  BY <1>1, KindsActive DEF Active
<1>3. /\ chan'[Other(p)] = chan[Other(p)] /\ opener' = opener /\ Fewer(p) /\ Tells(p)
  BY CloseLeaves DEF channelVars, Fewer, Tells
<1>4. Apart(p) /\ asking'[p] = asking[p] /\ ending'[p] = Nothing
  BY <1>1, <1>3 DEF Apart, Idle
<1>5. Waits(p) => Head(events[p]).type = "message"
  BY DEF Waits
<1> QED
  BY <1>1, <1>2, <1>3, <1>4, <1>5, EventBegins

\* An event after which the partner is told something and the session is closed.
LEMMA SaidBegins ==
  ASSUME IInv, IInv', NEW p \in Phone, Begin(p), Begin(Other(p)), Idle(p), events[p] # <<>>,
         events' = [events EXCEPT ![p] = Tail(events[p])],
         Active(p) \/ Head(events[p]).type = "message",
         NEW body, body # "request",
         NEW next \in {Unpaired, Paired, ErrorShown}, SayLast(p, body, next)
  PROVE  Begin(p)' /\ Begin(Other(p))'
<1>1. /\ TrySend(p, body) /\ ending' = [ending EXCEPT ![p] = next]
      /\ product' = product /\ asking' = asking
  BY DEF SayLast
<1>2. /\ events'[p] = Tail(events[p]) /\ events'[Other(p)] = events[Other(p)]
      /\ ending'[p] = next /\ ending'[Other(p)] = ending[Other(p)]
  BY <1>1, MyTables, TwoPhones
<1>3. chan'[Other(p)] = chan[Other(p)] /\ opener' = opener /\ Fewer(p) /\ Tells(p)
  BY <1>1, SendLeaves DEF Tells
<1>4. Apart(p)
  BY <1>1, <1>2, <1>3 DEF Apart
<1>5. Waits(p) => Head(events[p]).type = "message"
  BY DEF Waits
<1>6. lastSession # 0
  <2>1. PICK S : events[p] \in Seq(S)
    BY MyQueues
  <2>2. 1 \in DOMAIN events[p] /\ Head(events[p]) = events[p][1]
    BY <2>1, RestOf
  <2> QED
    BY <2>2, NothingYet DEF Silent
<1> QED
  BY <1>1, <1>2, <1>3, <1>4, <1>5, <1>6, EventBegins

\* An event that changes the state that is shown, with the session it is about.
LEMMA ShownBegins ==
  ASSUME IInv, IInv', NEW p \in Phone, Begin(p), Begin(Other(p)), Idle(p), events[p] # <<>>,
         events' = [events EXCEPT ![p] = Tail(events[p])],
         NEW next, Becomes(p, next), Head(events[p]).type = "message",
         Active(p) \/ Asks(Head(events[p]))
  PROVE  Begin(p)' /\ Begin(Other(p))'
<1>1. /\ UNCHANGED <<channelVars, asking, ending>> /\ product' = [product EXCEPT ![p] = next]
  BY DEF Becomes
<1>2. /\ events'[p] = Tail(events[p]) /\ events'[Other(p)] = events[Other(p)]
      /\ product'[Other(p)] = product[Other(p)]
  BY <1>1, MyTables, TwoPhones
<1>3. /\ Apart(p) /\ Fewer(p) /\ Tells(p) /\ asking'[p] = asking[p]
      /\ Holds(p)' = Holds(p) /\ ending'[p] = Nothing
  BY <1>1, <1>2 DEF Apart, Fewer, Tells, Holds, channelVars, Idle
<1>4. ~Ends(Head(events[p]))
  BY DEF Ends
<1> QED
  BY <1>1, <1>2, <1>3, <1>4, EventBegins

LEMMA HandleEventBegins ==
  ASSUME IInv, IInv', NEW p \in Phone, Begin(p), Begin(Other(p)), HandleEvent(p)
  PROVE  Begin(p)' /\ Begin(Other(p))'
<1> DEFINE e == Head(events[p])
<1>1. /\ Idle(p) /\ events[p] # <<>> /\ product[p] \in States
      /\ events' = [events EXCEPT ![p] = Tail(events[p])]
  BY MyParts DEF HandleEvent
<1>2. CASE HandleSessionClosed(p, e) \/ HandleControlError(p, e)
  <2>1. CASE Active(p)
    <3>1. /\ UNCHANGED <<asking, ending>> /\ product' = [product EXCEPT ![p] = Paired]
          /\ Close(p) \/ UNCHANGED channelVars
      BY <1>2, <2>1 DEF HandleSessionClosed, HandleControlError, CloseInto, Becomes, Active
    <3> QED
      BY <1>1, <2>1, <3>1, ClosedBegins
  <2>2. CASE ~Active(p)
    <3>1. UNCHANGED <<channelVars, product, asking, ending>>
      BY <1>2, <2>2 DEF HandleSessionClosed, HandleControlError, Active
    <3> QED
      BY <1>1, <2>2, <3>1, PassedBegins
  <2> QED
    BY <2>1, <2>2
<1>3. CASE HandleTimeout(p, e)
  <2>1. CASE /\ product[p].type \in {"IncomingRequest", "OutgoingRequest"}
             /\ product[p].sessionId = e.sessionId
    <3>1. Active(p)
      BY <2>1 DEF Active, IsActive, ActiveTypes
    <3>2. PICK body \in {"cancel", "end"} : SayLast(p, body, Paired)
      BY <1>3, <2>1 DEF HandleTimeout
    <3>3. body # "request"
      BY <3>2
    <3> QED
      BY <1>1, <3>1, <3>2, <3>3, SaidBegins
  <2>2. CASE ~ /\ product[p].type \in {"IncomingRequest", "OutgoingRequest"}
               /\ product[p].sessionId = e.sessionId
    <3>1. UNCHANGED <<channelVars, product, asking, ending>> /\ ~Ends(e)
      BY <1>3, <2>2 DEF HandleTimeout, Ends
    <3> QED
      BY <1>1, <3>1, PassedBegins
  <2> QED
    BY <2>1, <2>2
<1>4. CASE HandleMessage(p, e)
  <2>1. e.type = "message" /\ ~Ends(e)
    BY <1>4 DEF HandleMessage, Ends
  <2>2. CASE product[p] = Unpaired
    <3>1. Close(p) /\ product' = [product EXCEPT ![p] = Unpaired] /\ UNCHANGED <<asking, ending>>
      BY <1>4, <2>2 DEF HandleMessage, CloseInto
    <3> QED
      BY <1>1, <2>1, <3>1, ClosedBegins
  <2>3. CASE product[p] # Unpaired /\ e.body = "request"
    <3>1. HandleRequest(p, e.sessionId) /\ Asks(e)
      BY <1>4, <2>1, <2>3 DEF HandleMessage, Asks
    <3>2. ~Active(p)
      <4>1. PICK S : events[p] \in Seq(S)
        BY MyQueues
      <4>2. 1 \in DOMAIN events[p] /\ e = events[p][1]
        BY <1>1, <4>1, RestOf
      <4> QED
        BY <3>1, <4>2 DEF Begin, FirstNotice, Waits
    <3>3. product[p] \in {Unpaired, Paired, ErrorShown}
      BY <1>1, <3>2, KindOf DEF Active
    <3>4. CASE SayLast(p, "decline", product[p]) \/ SayLast(p, "end", Paired)
      <4>1. "decline" # "request" /\ "end" # "request"
        OBVIOUS
      <4> QED
        BY <1>1, <2>1, <3>3, <3>4, <4>1, SaidBegins
    <3>5. CASE UNCHANGED <<channelVars, product, asking, ending>>
      BY <1>1, <2>1, <3>5, PassedBegins
    <3>6. CASE Becomes(p, Incoming(e.sessionId))
      BY <1>1, <2>1, <3>1, <3>6, ShownBegins
    <3> QED
      BY <3>1, <3>4, <3>5, <3>6 DEF HandleRequest
  <2>4. CASE product[p] # Unpaired /\ e.body # "request"
    <3>1. HandleOtherMessage(p, e)
      BY <1>4, <2>4 DEF HandleMessage
    <3>2. PICK r : r = Reaction(product[p], e)
      OBVIOUS
    <3>3. /\ r.how = "open" => r.next = product[p] \/ product[p].type = "OutgoingRequest"
          /\ r.how = "close" => r.next \in {Paired, ErrorShown}
          /\ r.how = "reject" => r.next = Paired
      BY <1>1, <3>2, ReactionIs
    <3>4. CASE r.how = "open" /\ Becomes(p, r.next)
      <4>1. CASE r.next = product[p]
        <5>1. product' = product
          BY <3>4, <4>1, MyTables DEF Becomes
        <5> QED
          BY <1>1, <2>1, <3>4, <5>1, PassedBegins DEF Becomes
      <4>2. CASE product[p].type = "OutgoingRequest"
        <5>1. Active(p)
          BY <4>2 DEF Active, IsActive, ActiveTypes
        <5> QED
          BY <1>1, <2>1, <3>4, <5>1, ShownBegins
      <4> QED
        BY <3>3, <3>4, <4>1, <4>2
    <3>5. CASE r.how = "close" /\ CloseInto(p, r.next) /\ UNCHANGED <<asking, ending>>
      BY <1>1, <2>1, <3>3, <3>5, ClosedBegins DEF CloseInto
    <3>6. CASE r.how = "reject" /\ SayLast(p, "end", r.next)
      <4>1. "end" # "request"
        OBVIOUS
      <4> QED
        BY <1>1, <2>1, <3>3, <3>6, <4>1, SaidBegins
    <3> QED
      BY <3>1, <3>2, <3>4, <3>5, <3>6 DEF HandleOtherMessage
  <2> QED
    BY <2>2, <2>3, <2>4
<1> QED
  BY <1>2, <1>3, <1>4 DEF HandleEvent

\* What joins the queue behind the next request.
LEMMA NoticesAdded ==
  ASSUME IInv, NEW p \in Phone, Begin(p), NEW S, NEW n \in Seq(S), Silent(n),
         events[p] \in Seq(S), events'[p] = events[p] \o n, Waits(p) => Waits(p)',
         Active(p) \/ (\E i \in DOMAIN events[p] : Asks(events[p][i])) =>
           (Holds(p) => Holds(p)' \/ \E i \in DOMAIN n : Ends(n[i]))
  PROVE  /\ FirstNotice(p)'
         /\ Active(p) =>
              \/ Holds(p)' \/ ending[p] # Nothing
              \/ \E i \in DOMAIN events'[p] : Ends(events'[p][i])
         /\ Silent(events[p]) => Silent(events'[p])
<1> DEFINE q == events[p]
<1>1. /\ Len(q) \in Nat /\ DOMAIN q = 1..Len(q) /\ Len(n) \in Nat /\ DOMAIN n = 1..Len(n)
      /\ DOMAIN (q \o n) = 1..(Len(q) + Len(n))
      /\ \A i \in 1..(Len(q) + Len(n)) :
           (q \o n)[i] = IF i <= Len(q) THEN q[i] ELSE n[i - Len(q)]
  BY ConcatProperties, LenProperties
<1>2. /\ \A i \in DOMAIN q : i \in DOMAIN (q \o n) /\ (q \o n)[i] = q[i]
      /\ \A i \in DOMAIN n : /\ i + Len(q) \in DOMAIN (q \o n) /\ (q \o n)[i + Len(q)] = n[i]
                             /\ \A j \in DOMAIN q : i + Len(q) > j
      /\ \A i \in DOMAIN (q \o n) :
           i \in DOMAIN q \/ (i - Len(q) \in DOMAIN n /\ (q \o n)[i] = n[i - Len(q)])
  BY <1>1
<1>3. \A i \in DOMAIN (q \o n) : (q \o n)[i].type = "message" => i \in DOMAIN q
  BY <1>2 DEF Silent
<1>4. ASSUME NEW i \in DOMAIN (q \o n), Asks((q \o n)[i])
      PROVE  /\ Waits(p)'
             /\ Holds(p)' \/ \E j \in DOMAIN (q \o n) : j > i /\ Ends((q \o n)[j])
             /\ \A j \in DOMAIN (q \o n) : j < i => (q \o n)[j].type # "message"
             /\ \A j \in DOMAIN (q \o n) : j > i => ~Asks((q \o n)[j])
  <2>1. i \in DOMAIN q /\ Asks(q[i])
    BY <1>2, <1>3, <1>4 DEF Asks
  <2>2. /\ Waits(p)
        /\ Holds(p) \/ \E j \in DOMAIN q : j > i /\ Ends(q[j])
        /\ \A j \in DOMAIN q : j < i => q[j].type # "message"
        /\ \A j \in DOMAIN q : j > i => ~Asks(q[j])
    BY <2>1 DEF Begin, FirstNotice
  <2>3. Holds(p)' \/ \E j \in DOMAIN (q \o n) : j > i /\ Ends((q \o n)[j])
    <3>1. (\E j \in DOMAIN q : j > i /\ Ends(q[j]))
            => \E j \in DOMAIN (q \o n) : j > i /\ Ends((q \o n)[j])
      BY <1>2
    <3>2. (\E j \in DOMAIN n : Ends(n[j]))
            => \E j \in DOMAIN (q \o n) : j > i /\ Ends((q \o n)[j])
      BY <1>2, <2>1
    <3> QED
      BY <2>1, <2>2, <3>1, <3>2
  <2>4. \A j \in DOMAIN (q \o n) : j < i => (q \o n)[j].type # "message"
    BY <1>2, <1>3, <2>2
  <2>5. \A j \in DOMAIN (q \o n) : j > i => ~Asks((q \o n)[j])
    BY <1>2, <1>3, <2>2 DEF Asks
  <2> QED
    BY <2>2, <2>3, <2>4, <2>5
<1>5. FirstNotice(p)'
  BY <1>4 DEF FirstNotice
<1>6. Active(p) => \/ Holds(p)' \/ ending[p] # Nothing
                   \/ \E i \in DOMAIN (q \o n) : Ends((q \o n)[i])
  BY <1>2 DEF Begin, Outlasts
<1>7. Silent(q) => Silent(q \o n)
  BY <1>2 DEF Silent
<1> QED
  BY <1>5, <1>6, <1>7

\* A step of the channel, or the timer, that delivers no message.
LEMMA QuietBegins ==
  ASSUME IInv, IInv', NEW p \in Phone, Begin(p), Begin(Other(p)), Apart(p), Fewer(p),
         mail'[Other(p)] = mail[Other(p)],
         product'[p] = product[p], ending'[p] = ending[p],
         asking'[p].step # "no" => asking[p].step # "no",
         NEW S, NEW n \in Seq(S), Silent(n), events[p] \in Seq(S), events'[p] = events[p] \o n,
         Active(p) \/ (\E i \in DOMAIN events[p] : Asks(events[p][i])) =>
           (Holds(p) => Holds(p)' \/ \E i \in DOMAIN n : Ends(n[i]))
  PROVE  Begin(p)' /\ Begin(Other(p))'
<1>1. Active(p)' = Active(p) /\ Waits(p)' = Waits(p)
  BY DEF Active, Waits
<1>2. /\ FirstNotice(p)'
      /\ Active(p) =>
           \/ Holds(p)' \/ ending[p] # Nothing
           \/ \E i \in DOMAIN events'[p] : Ends(events'[p][i])
      /\ Silent(events[p]) => Silent(events'[p])
  BY <1>1, NoticesAdded
<1>3. Outlasts(p)' /\ (Unasked(p) => Unasked(p)')
  BY <1>1, <1>2 DEF Outlasts, Unasked
<1>4. ~IsActive(ending'[p]) /\ (lastSession = 0 => ending'[p] = Nothing)
  BY DEF Begin
<1> QED
  BY <1>2, <1>3, <1>4, JointBegins DEF Tells

LEMMA TimeoutFiresBegins ==
  ASSUME IInv, IInv', NEW p \in Phone, Begin(p), Begin(Other(p)), TimeoutFires(p)
  PROVE  Begin(p)' /\ Begin(Other(p))'
<1>1. PICK e : e = [type |-> "timeout", sessionId |-> timeout[p], body |-> "timeout"]
  OBVIOUS
<1>2. /\ events' = [events EXCEPT ![p] = Append(events[p], e)] /\ e.type # "message"
      /\ UNCHANGED <<channelVars, product, asking, ending>>
  BY <1>1 DEF TimeoutFires
<1>3. /\ events \in [Phone -> Seq(Notice)] /\ Other(p) \in Phone /\ Other(p) # p
      /\ e \in Notice
  <2>1. timeout[p] \in Session
    BY MyParts, Bounds DEF TimeoutFires, SessionOrNone, Session
  <2> QED
    BY <1>1, <2>1, MyTables, TwoPhones DEF Notice
<1>4. /\ <<e>> \in Seq(Notice) /\ Silent(<<e>>) /\ events[p] \in Seq(Notice)
      /\ events'[p] = events[p] \o <<e>> /\ events'[Other(p)] = events[Other(p)]
  BY <1>2, <1>3 DEF Silent
<1>5. /\ Apart(p) /\ Fewer(p) /\ mail'[Other(p)] = mail[Other(p)] /\ Holds(p)' = Holds(p)
      /\ product'[p] = product[p] /\ ending'[p] = ending[p] /\ asking'[p] = asking[p]
  BY <1>2, <1>4 DEF Apart, Fewer, Holds, channelVars
<1> QED
  BY <1>4, <1>5, QuietBegins

LEMMA RestartBegins ==
  ASSUME IInv, IInv', NEW p \in Phone, Begin(p), Begin(Other(p)), Restart(p)
  PROVE  Begin(p)' /\ Begin(Other(p))'
<1>1. /\ Restarts(p) /\ product' = [product EXCEPT ![p] = Paired]
      /\ asking' = [asking EXCEPT ![p] = NotAsking] /\ ending' = [ending EXCEPT ![p] = Nothing]
      /\ events' = [events EXCEPT ![p] = <<>>]
  BY DEF Restart
<1>2. /\ product'[p] = Paired /\ asking'[p] = NotAsking /\ ending'[p] = Nothing
      /\ events'[p] = <<>> /\ product'[Other(p)] = product[Other(p)]
      /\ asking'[Other(p)] = asking[Other(p)] /\ ending'[Other(p)] = ending[Other(p)]
      /\ events'[Other(p)] = events[Other(p)]
  BY <1>1, MyTables, TwoPhones
<1>3. Apart(p)
  BY <1>1, <1>2, CloseLeaves DEF Apart
<1>4. ~Active(p)' /\ ~IsActive(Nothing) /\ NotAsking.step = "no" /\ Silent(events'[p])
  BY <1>2, KindsActive DEF Active, NotAsking, Silent
<1>5. Outlasts(p)' /\ FirstNotice(p)' /\ Unasked(p)'
  BY <1>2, <1>4 DEF Outlasts, FirstNotice, Unasked, Waits
<1> QED
  BY <1>1, <1>2, <1>3, <1>4, <1>5, CloseLeaves, JointBegins

\* Where a step of the channel leaves everything else, and the session.
Spares(p) ==
  /\ chan'[Other(p)] = chan[Other(p)] /\ opener' = opener
  /\ mail'[Other(p)] = mail[Other(p)] /\ Fewer(p)
KeepsHold(p) == chan[p].call = 0 /\ Holds(p) => Holds(p)'

LEMMA AuthenticatedSpares ==
  ASSUME IInv, NEW p \in Phone, NEW s, Authenticated(p, s),
         chan[p].call # 0 \/ chan[p].resume \in {0, s}
  PROVE  Spares(p) /\ KeepsHold(p)
<1>1. PICK e : e = [chan[p] EXCEPT !.session = s, !.told = s, !.resume = 0,
                                   !.call = IF @ = s THEN 0 ELSE @]
  OBVIOUS
<1>2. chan \in [Phone -> End] /\ chan[p] \in End /\ Other(p) # p
  BY MyTables, TwoPhones DEF Channel
<1>3. e.session = s
  BY <1>1, <1>2 DEF End
<1>4. /\ chan' = [chan EXCEPT ![p] = e] /\ mail' = mail /\ opener' = opener
      /\ chan[p].session = 0
  BY <1>1, <1>2 DEF Authenticated
<1>5. chan'[p] = e /\ chan'[Other(p)] = chan[Other(p)]
  BY <1>2, <1>4
<1>6. KeepsHold(p)
  BY <1>3, <1>4, <1>5 DEF KeepsHold, Holds
<1> QED
  BY <1>4, <1>5, <1>6 DEF Spares, Fewer

LEMMA OpensSpares ==
  ASSUME IInv, NEW p \in Phone, ChannelOpens(p)
  PROVE  Spares(p) /\ KeepsHold(p)
<1>1. CASE ConnectReturns(p)
  BY <1>1, AuthenticatedSpares DEF ConnectReturns
<1>2. CASE Resumes(p)
  BY <1>2, AuthenticatedSpares DEF Resumes
<1>3. ASSUME NEW s \in 1..MaxSession, Accepts(p, s) PROVE Spares(p) /\ KeepsHold(p)
  BY <1>3, AuthenticatedSpares DEF Accepts
<1> QED
  BY <1>1, <1>2, <1>3 DEF ChannelOpens

LEMMA GivesUpSpares ==
  ASSUME IInv, NEW p \in Phone, GivesUp(p)
  PROVE  Spares(p)
<1>1. mail \in [Phone -> Seq(Letter)] /\ chan \in [Phone -> End] /\ Other(p) # p /\ Other(p) \in Phone
  BY MyTables, TwoPhones DEF Channel
<1>2. /\ \E e : chan' = [chan EXCEPT ![p] = e]
      /\ mail' = mail /\ opener' = opener
  BY DEF GivesUp
<1> QED
  BY <1>1, <1>2 DEF Spares, Fewer

LEMMA OthersSpare ==
  ASSUME IInv, NEW p \in Phone,
         \/ ConnectThrows(p) \/ ConnectThrowsAndResumes(p) \/ ConnectReplaces(p)
         \/ Interrupted(p) \/ HandshakeFails(p) \/ Dials(p) \/ Loses(p)
  PROVE  Spares(p) /\ KeepsHold(p)
<1>1. mail \in [Phone -> Seq(Letter)] /\ chan \in [Phone -> End] /\ Other(p) # p /\ Other(p) \in Phone
  BY MyTables, TwoPhones DEF Channel
<1>2. CASE ConnectThrows(p) \/ ConnectThrowsAndResumes(p) \/ ConnectReplaces(p)
  <2>1. /\ \E e : chan' = [chan EXCEPT ![p] = e]
        /\ mail' = mail \/ mail' = [mail EXCEPT ![p] = <<>>]
        /\ opener' = opener /\ chan[p].call # 0
    BY <1>2 DEF ConnectThrows, ConnectThrowsAndResumes, ConnectReplaces
  <2> QED
    BY <1>1, <2>1 DEF Spares, KeepsHold, Fewer
<1>3. CASE Interrupted(p)
  BY <1>3, InterruptedLeaves DEF Spares, KeepsHold
<1>4. CASE HandshakeFails(p)
  <2>1. /\ \E e : chan' = [chan EXCEPT ![p] = e]
        /\ mail' = [mail EXCEPT ![p] = <<>>] /\ opener' = opener
    BY <1>4 DEF HandshakeFails
  <2>2. ~Holds(p)
    BY <1>4 DEF HandshakeFails, Holds
  <2> QED
    BY <1>1, <2>1, <2>2 DEF Spares, KeepsHold, Fewer
<1>5. CASE Dials(p)
  <2>1. /\ chan' = chan /\ opener' = opener
        /\ mail' = mail \/ mail' = [mail EXCEPT ![p] = <<>>]
    <3>1. PICK m : m = IF chan[p].session = 0 THEN <<>> ELSE mail[p]
      OBVIOUS
    <3>2. mail' = [mail EXCEPT ![p] = m] /\ chan' = chan /\ opener' = opener
      BY <1>1, <1>5, <3>1 DEF Dials
    <3> QED
      BY <1>1, <3>1, <3>2
  <2> QED
    BY <1>1, <2>1 DEF Spares, KeepsHold, Holds, Fewer
<1>6. CASE Loses(p)
  <2>1. PICK n \in 0..Len(mail[p]) : mail' = [mail EXCEPT ![p] = SubSeq(mail[p], 1, n)]
    BY <1>6 DEF Loses
  <2>2. mail[p] \in Seq(Letter) /\ Len(mail[p]) \in Nat /\ mail'[p] = SubSeq(mail[p], 1, n)
    BY <1>1, <2>1
  <2>3. Fewer(p)
    <3>1. DOMAIN mail'[p] = 1..n /\ \A i \in 1..n : mail'[p][i] = mail[p][i]
      BY <2>2
    <3>2. 1..n \subseteq DOMAIN mail[p]
      BY <2>2
    <3> QED
      BY <3>1, <3>2 DEF Fewer
  <2>4. chan' = chan /\ opener' = opener /\ mail'[Other(p)] = mail[Other(p)]
    BY <1>1, <1>6, <2>1 DEF Loses
  <2> QED
    BY <2>3, <2>4 DEF Spares, KeepsHold, Holds
<1> QED
  BY <1>2, <1>3, <1>4, <1>5, <1>6

\* A message joins the queue: the request, to a phone that waits for it.
LEMMA DeliversBegins ==
  ASSUME IInv, IInv', NEW p \in Phone, lastSession <= 1, Begin(p), Begin(Other(p)),
         ChannelDelivers(p), UNCHANGED <<product, ending>>
  PROVE  Begin(p)' /\ Begin(Other(p))'
<1> DEFINE q == events[p]
           l == mail[p]
<1>1. PICK e : e = Event("message", Head(l).sessionId, Head(l).body)
  OBVIOUS
<1>2. /\ mail \in [Phone -> Seq(Letter)] /\ events \in [Phone -> Seq(Notice)]
      /\ Other(p) # p /\ Other(p) \in Phone
  BY MyTables, TwoPhones DEF Channel
<1>3. /\ chan' = chan /\ opener' = opener /\ asking' = asking
      /\ l # <<>> /\ mail' = [mail EXCEPT ![p] = Tail(l)]
      /\ events' = [events EXCEPT ![p] = q \o <<e>>]
      /\ e.type = "message" /\ e.body = Head(l).body /\ Head(l).sessionId = chan[p].session
  BY <1>1, <1>2 DEF ChannelDelivers, Delivers, Hears, Event
<1>4. /\ mail'[p] = Tail(l) /\ mail'[Other(p)] = mail[Other(p)]
      /\ events'[p] = q \o <<e>> /\ events'[Other(p)] = events[Other(p)]
  BY <1>2, <1>3
<1>5. Apart(p)
  BY <1>3, <1>4 DEF Apart
<1>6. Begin(Other(p))'
  BY <1>3, <1>4, <1>5, PartnerBegins
<1>7. /\ Waits(p)' = Waits(p) /\ Active(p)' = Active(p) /\ Holds(p)' = Holds(p)
      /\ ending'[p] = ending[p] /\ lastSession' = lastSession /\ asking'[Other(p)] = asking[Other(p)]
  BY <1>3 DEF Waits, Active, Holds, lastSession
<1>8. /\ 1 \in DOMAIN l /\ Head(l) = l[1]
      /\ \A i \in DOMAIN Tail(l) : i \in Nat /\ i + 1 \in DOMAIN l /\ Tail(l)[i] = l[i + 1]
  <2>1. l \in Seq(Letter)
    BY <1>2
  <2> QED
    BY <1>3, <2>1, RestOf
<1>9. FirstLetter(p)'
  <2>1. ASSUME NEW i \in DOMAIN Tail(l), Tail(l)[i].body = "request" PROVE FALSE
    <3>1. i + 1 \in DOMAIN l /\ l[i + 1].body = "request" /\ i \in Nat /\ i >= 1
      BY <1>2, <1>8, <2>1
    <3>2. i + 1 = 1
      BY <3>1 DEF Begin, FirstLetter
    <3> QED
      BY <3>1, <3>2
  <2> QED
    BY <1>4, <2>1 DEF FirstLetter
<1>10. asking[Other(p)].step = "no"
  BY <1>3 DEF Begin
<1>11. /\ q \in Seq(Notice) /\ Len(q) \in Nat /\ DOMAIN q = 1..Len(q)
       /\ DOMAIN (q \o <<e>>) = 1..(Len(q) + 1) /\ (q \o <<e>>)[Len(q) + 1] = e
       /\ \A i \in DOMAIN q : i \in DOMAIN (q \o <<e>>) /\ (q \o <<e>>)[i] = q[i]
       /\ \A i \in DOMAIN (q \o <<e>>) : i \in DOMAIN q \/ i = Len(q) + 1
  <2>1. q \in Seq(Notice)
    BY <1>2
  <2> QED
    BY <2>1
<1>12. Outlasts(p)'
  BY <1>4, <1>7, <1>11 DEF Begin, Outlasts
<1>13. Asks(e) => Waits(p) /\ Silent(q) /\ Holds(p)
  <2>1. Asks(e) => Unasked(p)
    BY <1>3, <1>8 DEF Asks, Begin, FirstLetter
  <2>2. chan[p].session = 1
    BY <1>3, <1>8, MyQueues
  <2> QED
    BY <2>1, <2>2 DEF Unasked, Holds
<1>14. FirstNotice(p)'
  <2>1. ASSUME NEW i \in DOMAIN (q \o <<e>>), Asks((q \o <<e>>)[i])
        PROVE  /\ Waits(p)
               /\ Holds(p) \/ \E j \in DOMAIN (q \o <<e>>) : j > i /\ Ends((q \o <<e>>)[j])
               /\ \A j \in DOMAIN (q \o <<e>>) : j < i => (q \o <<e>>)[j].type # "message"
               /\ \A j \in DOMAIN (q \o <<e>>) : j > i => ~Asks((q \o <<e>>)[j])
    <3>1. CASE i = Len(q) + 1
      <4>1. Waits(p) /\ Silent(q) /\ Holds(p)
        BY <1>11, <1>13, <2>1, <3>1
      <4> QED
        BY <1>11, <3>1, <4>1 DEF Silent
    <3>2. CASE i \in DOMAIN q
      <4>1. /\ Waits(p)
            /\ Holds(p) \/ \E j \in DOMAIN q : j > i /\ Ends(q[j])
            /\ \A j \in DOMAIN q : j < i => q[j].type # "message"
            /\ \A j \in DOMAIN q : j > i => ~Asks(q[j])
        BY <1>11, <2>1, <3>2 DEF Begin, FirstNotice
      <4>2. ~Asks(e)
        BY <1>11, <1>13, <2>1, <3>2 DEF Silent, Asks
      <4>3. i < Len(q) + 1
        BY <1>11, <3>2
      <4>4. Holds(p) \/ \E j \in DOMAIN (q \o <<e>>) : j > i /\ Ends((q \o <<e>>)[j])
        BY <1>11, <4>1
      <4>5. \A j \in DOMAIN (q \o <<e>>) : j < i => (q \o <<e>>)[j].type # "message"
        BY <1>11, <4>1, <4>3
      <4>6. \A j \in DOMAIN (q \o <<e>>) : j > i => ~Asks((q \o <<e>>)[j])
        BY <1>11, <4>1, <4>2
      <4> QED
        BY <4>1, <4>4, <4>5, <4>6
    <3> QED
      BY <1>11, <3>1, <3>2
  <2> QED
    BY <1>4, <1>7, <2>1 DEF FirstNotice
<1> QED
  BY <1>6, <1>7, <1>9, <1>10, <1>12, <1>14 DEF Begin

LEMMA ChannelBegins ==
  ASSUME IInv, IInv', NEW p \in Phone, lastSession <= 1, Begin(p), Begin(Other(p)),
         ChannelChange(p)
  PROVE  Begin(p)' /\ Begin(Other(p))'
<1>1. product' = product /\ ending' = ending
  BY DEF ChannelChange
<1>2. /\ events \in [Phone -> Seq(Notice)] /\ asking \in [Phone -> Askings]
      /\ Other(p) # p /\ Other(p) \in Phone /\ Calls(p)
  BY MyTables, MyParts, TwoPhones
<1>3. CASE ChannelDelivers(p)
  BY <1>1, <1>3, DeliversBegins
<1>4. CASE ~ChannelDelivers(p)
  <2>1. /\ Spares(p)
        /\ asking' = asking \/ \E how \in {"returned", "threw"} : Answered(p, how)
        /\ \/ events' = events /\ KeepsHold(p)
           \/ (\E type \in {"error", "closed"} : Hears(p, <<Event(type, 0, type)>>)) /\ KeepsHold(p)
           \/ ChannelGivesUp(p)
    <3>1. CASE ChannelOpens(p)
      BY <3>1, OpensSpares DEF ChannelOpens
    <3>2. CASE CallThrows(p) \/ ChannelReplaced(p) \/ ChannelInterrupted(p) \/ ChannelDials(p)
                 \/ ChannelLoses(p)
      BY <3>2, OthersSpare
      DEF CallThrows, ChannelReplaced, ChannelInterrupted, ChannelDials, ChannelLoses
    <3>3. CASE ChannelGivesUp(p)
      BY <3>3, GivesUpSpares DEF ChannelGivesUp
    <3>4. CASE ChannelFails(p)
      BY <3>4, OthersSpare DEF ChannelFails
    <3> QED
      BY <1>4, <3>1, <3>2, <3>3, <3>4 DEF ChannelChange
  <2>2. PICK n \in Seq(Notice) :
          /\ Silent(n) /\ events' = [events EXCEPT ![p] = events[p] \o n]
          /\ KeepsHold(p) \/ \E i \in DOMAIN n : Ends(n[i])
    <3>1. CASE events' = events /\ KeepsHold(p)
      <4>1. events[p] \o <<>> = events[p] /\ <<>> \in Seq(Notice) /\ Silent(<<>>)
        BY <1>2, EmptyQueue, ConcatEmptySeq DEF Silent
      <4>2. events' = [events EXCEPT ![p] = events[p] \o <<>>]
        BY <1>2, <3>1, <4>1
      <4> QED
        BY <3>1, <4>1, <4>2
    <3>2. CASE \E type \in {"error", "closed"} : Hears(p, <<Event(type, 0, type)>>)
      <4>1. PICK type \in {"error", "closed"} : Hears(p, <<Event(type, 0, type)>>)
        BY <3>2
      <4>2. PICK e : e = Event(type, 0, type)
        OBVIOUS
      <4>3. e \in Notice /\ Ends(e) /\ e.type # "message"
        BY <4>2, MyTables DEF Notice, Event, Ends
      <4>4. events' = [events EXCEPT ![p] = events[p] \o <<e>>]
        BY <4>1, <4>2 DEF Hears
      <4>5. <<e>> \in Seq(Notice) /\ Silent(<<e>>) /\ \E i \in DOMAIN <<e>> : Ends(<<e>>[i])
        BY <4>3 DEF Silent
      <4> QED
        BY <4>4, <4>5
    <3>3. CASE ChannelGivesUp(p)
      <4>1. PICK e, c : e = Event("error", 0, "error") /\ c = Event("closed", chan[p].resume, "closed")
        OBVIOUS
      <4>2. /\ e \in Notice /\ Ends(e) /\ e.type # "message"
            /\ c \in Notice /\ Ends(c) /\ c.type # "message"
        <5>1. chan[p].resume \in SessionOrNone /\ 0 \in SessionOrNone
          BY MyTables DEF Channel, End
        <5> QED
          BY <4>1, <5>1 DEF Notice, Event, Ends
      <4>3. events' = [events EXCEPT ![p] = events[p] \o <<e, c>>]
        BY <3>3, <4>1 DEF ChannelGivesUp, Hears
      <4>4. /\ <<e, c>> \in Seq(Notice) /\ Silent(<<e, c>>)
            /\ \E i \in DOMAIN <<e, c>> : Ends(<<e, c>>[i])
        BY <4>2 DEF Silent
      <4> QED
        BY <4>3, <4>4
    <3> QED
      BY <2>1, <3>1, <3>2, <3>3
  <2>3. /\ events'[p] = events[p] \o n /\ events'[Other(p)] = events[Other(p)]
        /\ events[p] \in Seq(Notice)
    BY <1>2, <2>2
  <2>4. asking'[Other(p)] = asking[Other(p)]
    BY <1>2, <2>1 DEF Answered
  <2>5. asking'[p].step # "no" => asking[p].step # "no"
    <3>1. ASSUME NEW how \in {"returned", "threw"}, Answered(p, how), asking[p].step = "no"
          PROVE  asking'[p].step = "no"
      <4>1. chan[p].call = 0
        BY <1>2, <3>1 DEF Calls
      <4>2. asking' = [asking EXCEPT ![p].step = asking[p].step]
        BY <3>1, <4>1 DEF Answered
      <4>3. asking[p] = NotAsking
        BY <3>1, MyAsking
      <4> QED
        BY <1>2, <4>2, <4>3 DEF NotAsking
    <3> QED
      BY <2>1, <3>1
  <2>6. Apart(p)
    BY <1>1, <2>1, <2>3, <2>4 DEF Apart, Spares
  <2>7. Active(p) \/ (\E i \in DOMAIN events[p] : Asks(events[p][i])) => chan[p].call = 0
    <3>1. asking[p].step # "no" => ~Active(p)
      BY <1>2, KindsActive DEF Calls, Active
    <3>2. asking[p].step # "no" => \A i \in DOMAIN events[p] : ~Asks(events[p][i])
      BY AskerIsFirst
    <3>3. asking[p].step = "no" => chan[p].call = 0
      BY <1>2 DEF Calls
    <3> QED
      BY <3>1, <3>2, <3>3
  <2>8. Active(p) \/ (\E i \in DOMAIN events[p] : Asks(events[p][i])) =>
          (Holds(p) => Holds(p)' \/ \E i \in DOMAIN n : Ends(n[i]))
    BY <2>2, <2>7 DEF KeepsHold
  <2>9. Fewer(p) /\ mail'[Other(p)] = mail[Other(p)]
    BY <2>1 DEF Spares
  <2> QED
    BY <1>1, <2>2, <2>3, <2>5, <2>6, <2>8, <2>9, QuietBegins
<1> QED
  BY <1>3, <1>4
-----------------------------------------------------------------------------
(* The invariant of the first session holds. *)

\* Nothing but requestScreen opens a session.
LEMMA OnlyAskOpens ==
  ASSUME NEW p \in Phone, ~Ask(p),
         UserCall(p) \/ ControllerStep(p) \/ ChannelChange(p) \/ Restart(p)
  PROVE  opener' = opener
<1>1. Close(p) \/ Deactivate(p) \/ Restarts(p) => opener' = opener
  BY DEF Close, Deactivate, Restarts
<1>2. ASSUME NEW body, TrySend(p, body) \/ Sends(p, body) \/ SendThrows(p)
      PROVE  opener' = opener
  BY <1>2 DEF TrySend, Sends, SendThrows, Sent, Interrupted, channelVars
<1>3. UNCHANGED channelVars => opener' = opener
  BY DEF channelVars
<1>4. CASE UserCall(p)
  BY <1>1, <1>2, <1>4
  DEF UserCall, AskRefused, CloseInto, AcceptRequest, DeclineRequest, CancelRequest, FinishRequest,
      EndSession, CaptureDenied, FailConnectedSession, FinishSession, SayLast, SendMedia,
      ClearError, DeactivatePair
<1>5. CASE AskThrew(p) \/ AskReturned(p) \/ FinishEnding(p) \/ TimeoutFires(p)
  BY <1>1, <1>2, <1>3, <1>5 DEF AskThrew, AskReturned, FinishEnding, CloseInto, TimeoutFires
<1>6. CASE HandleEvent(p)
  <2>1. ASSUME NEW next, Becomes(p, next) \/ CloseInto(p, next) PROVE opener' = opener
    BY <1>1, <1>3, <2>1 DEF Becomes, CloseInto
  <2>2. ASSUME NEW body, NEW next, SayLast(p, body, next) PROVE opener' = opener
    BY <1>2, <2>2 DEF SayLast
  <2>3. ASSUME NEW e, HandleOtherMessage(p, e) PROVE opener' = opener
    BY <2>1, <2>2, <2>3 DEF HandleOtherMessage
  <2>4. ASSUME NEW s, HandleRequest(p, s) PROVE opener' = opener
    BY <1>3, <2>1, <2>2, <2>4 DEF HandleRequest
  <2> QED
    BY <1>3, <1>6, <2>1, <2>2, <2>3, <2>4
    DEF HandleEvent, HandleSessionClosed, HandleControlError, HandleTimeout, HandleMessage
<1>7. CASE ChannelChange(p)
  BY <1>7
  DEF ChannelChange, ChannelOpens, ConnectReturns, Resumes, Accepts, Authenticated, CallThrows,
      ConnectThrows, ConnectThrowsAndResumes, ChannelReplaced, ConnectReplaces, ChannelInterrupted,
      Interrupted, ChannelGivesUp, GivesUp, ChannelFails, HandshakeFails, ChannelDelivers, Delivers,
      ChannelDials, Dials, ChannelLoses, Loses
<1> QED
  BY <1>1, <1>4, <1>5, <1>6, <1>7 DEF ControllerStep, Restart

LEMMA FirstNext ==
  ASSUME IInv, IInv', FirstGood, Next
  PROVE  FirstGood'
<1>1. PICK p \in Phone : UserCall(p) \/ ControllerStep(p) \/ ChannelChange(p) \/ Restart(p)
  BY DEF Next
<1>2. Other(p) \in Phone /\ \A r \in Phone : r \in {p, Other(p)}
  BY TwoPhones
<1>3. CASE Ask(p)
  <2>1. lastSession' = lastSession + 1 /\ lastSession \in Nat
    <3>1. opener' = Append(opener, p) /\ opener \in Seq(Phone)
      BY <1>3, MyTables DEF Ask, Connect, Channel
    <3> QED
      BY <3>1 DEF lastSession
  <2>2. lastSession = 0 => Begin(p)' /\ Begin(Other(p))'
    BY <1>2, <1>3, AskBegins DEF FirstGood
  <2> QED
    BY <1>2, <2>1, <2>2 DEF FirstGood
<1>4. CASE ~Ask(p)
  <2>1. ASSUME lastSession <= 1 PROVE Begin(p)' /\ Begin(Other(p))'
    <3>1. Begin(p) /\ Begin(Other(p))
      BY <1>2, <2>1 DEF FirstGood
    <3>2. CASE UserCall(p)
      BY <1>4, <3>1, <3>2, UserCallBegins
    <3>3. CASE ControllerStep(p)
      BY <2>1, <3>1, <3>3, AskEndsBegins, FinishEndingBegins, HandleEventBegins,
         TimeoutFiresBegins DEF ControllerStep
    <3> QED
      BY <1>1, <2>1, <3>1, <3>2, <3>3, ChannelBegins, RestartBegins
  <2>2. lastSession' <= 1 => lastSession <= 1
    BY <1>1, <1>4, OnlyAskOpens DEF lastSession
  <2> QED
    BY <1>2, <2>1, <2>2 DEF FirstGood
<1> QED
  BY <1>3, <1>4

LEMMA FirstInit == Init => FirstGood
<1> SUFFICES ASSUME Init, NEW p \in Phone PROVE Begin(p)
  BY DEF FirstGood
<1>1. /\ product[p] = Paired /\ ending[p] = Nothing /\ events[p] = <<>> /\ mail[p] = <<>>
      /\ asking[Other(p)] = NotAsking
  BY TwoPhones DEF Init, ChannelInit
<1>2. ~Active(p) /\ ~IsActive(Nothing) /\ asking[Other(p)].step = "no"
  BY <1>1, KindsActive DEF Active, NotAsking
<1>3. Outlasts(p) /\ FirstLetter(p) /\ FirstNotice(p)
  BY <1>1, <1>2 DEF Outlasts, FirstLetter, FirstNotice
<1> QED
  BY <1>1, <1>2, <1>3 DEF Begin

\* A controller in the first session has a control session that holds it or looks
\* for it, or the event that ends it waits in the queue (handleControlEvent and
\* every close()), whatever breaks, restarts or is said too late, for any length
\* of the mail and the queues.
THEOREM SessionsHaveChannels == Spec => []SessionHasChannel
<1>1. IInv /\ IInv' /\ FirstGood /\ [Next]_vars => FirstGood'
  <2>1. CASE UNCHANGED vars
    <3>1. UNCHANGED <<chan, mail, hello, opener, product, timeout, asking, ending, events>>
      BY <2>1 DEF vars, channelVars, productVars
    <3> QED
      BY <3>1 DEF FirstGood, Begin, Outlasts, FirstLetter, FirstNotice, Unasked, Waits, Holds,
         Silent, Active, lastSession
  <2> QED
    BY <2>1, FirstNext
<1>2. FirstGood => SessionHasChannel
  BY DEF FirstGood, Begin, Outlasts, Holds, SessionHasChannel
<1> QED
  BY FirstInit, SharingInvariant, <1>1, <1>2, PTL DEF Spec
=============================================================================
