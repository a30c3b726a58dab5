--------------------------- MODULE ControlChannel ---------------------------
(***************************************************************************)
(* What a ControlSession promises to the SessionController above it: a     *)
(* session at a time, messages in the order they were sent, interruptions  *)
(* that end in the same session or in a notice that it is over.            *)
(*                                                                         *)
(* Connections, handshakes, attempts and timers of ControlSession are left *)
(* out; ControlSession implements this specification.                      *)
(***************************************************************************)
EXTENDS Naturals, Sequences, FiniteSets

CONSTANTS
  Phone,       \* the two phones of one pair
  Requesters,  \* phones whose user asks for the partner's screen
  Body,        \* what a message may say
  MaxSession,  \* bound: calls of connect() that may start
  MaxHello     \* bound: hellos for a session on their way at the same time

ASSUME PhoneAssumption == IsFiniteSet(Phone) /\ Cardinality(Phone) = 2
ASSUME RequestersAssumption == Requesters \subseteq Phone
ASSUME BoundAssumption == MaxSession \in Nat /\ MaxHello \in Nat

VARIABLES
  chan,        \* each phone's end of the channel
  mail,        \* messages on their way to each phone
  hello,       \* how many connections bring each phone a hello for a session
  opener       \* the phone that opened each session so far

channelVars == <<chan, mail, hello, opener>>
lastSession == Len(opener)

Other(p) == CHOOSE q \in Phone : q # p
Session == 1..MaxSession
SessionOrNone == 0..MaxSession

\* context: the pair is trusted; call: session of a connect() under way;
\* session: the authenticated session; resume: the interrupted one;
\* told: the session that the emitted events say is alive.
End == [context : BOOLEAN, call : SessionOrNone, session : SessionOrNone,
        resume : SessionOrNone, told : SessionOrNone]

NewEnd == [context |-> TRUE, call |-> 0, session |-> 0, resume |-> 0, told |-> 0]

Message == [sessionId : SessionOrNone, body : Body]

ChannelInit ==
  /\ chan = [p \in Phone |-> NewEnd]
  /\ mail = [p \in Phone |-> <<>>]
  /\ hello = [p \in Phone |-> [s \in Session |-> 0]]
  /\ opener = <<>>

\* Phone p lets go of connections: hellos they brought may be lost.
HellosFade(p) ==
  \E left \in [Session -> 0..MaxHello] :
    /\ \A s \in Session : left[s] <= hello[p][s]
    /\ hello' = [hello EXCEPT ![p] = left]

-----------------------------------------------------------------------------
(* Calls of the controller. *)

Connect(p) ==
  /\ p \in Requesters
  /\ chan[p].context /\ chan[p].call = 0
  /\ chan[p].session = 0 /\ chan[p].resume = 0
  /\ lastSession < MaxSession
  /\ opener' = Append(opener, p)
  /\ chan' = [chan EXCEPT ![p].call = lastSession + 1]
  /\ UNCHANGED <<mail, hello>>

\* A message of session s still finds phone p at the other end.
Reaches(p, s) ==
  \/ chan[p].session = s
  \/ chan[p].session = 0 /\ s \in {chan[p].call, chan[p].resume} /\ opener[s] = p

\* send() resolves once the frame is written; it may still get lost.
Sent(p, body) ==
  LET s == chan[p].session
      q == Other(p)
  IN /\ s # 0
     /\ \/ Reaches(q, s) /\ mail' = [mail EXCEPT ![q] = Append(@, [sessionId |-> s, body |-> body])]
        \/ UNCHANGED mail
     /\ UNCHANGED <<chan, hello, opener>>

\* close() leaves nothing behind and emits nothing.
Closed(p) == [chan[p] EXCEPT !.session = 0, !.resume = 0, !.told = 0]

Close(p) ==
  /\ chan[p].call = 0
  /\ chan' = [chan EXCEPT ![p] = Closed(p)]
  /\ mail' = [mail EXCEPT ![p] = <<>>]
  /\ HellosFade(p) /\ UNCHANGED opener

Deactivate(p) ==
  /\ chan[p].call = 0
  /\ chan' = [chan EXCEPT ![p] = [Closed(p) EXCEPT !.context = FALSE]]
  /\ mail' = [mail EXCEPT ![p] = <<>>]
  /\ HellosFade(p) /\ UNCHANGED opener

Activate(p) ==
  /\ ~chan[p].context
  /\ chan' = [chan EXCEPT ![p].context = TRUE]
  /\ UNCHANGED <<mail, hello, opener>>

-----------------------------------------------------------------------------
(* What happens to a phone's end by itself. *)

\* p dialled for its call or to resume, and a hello is on its way.
Dials(p) ==
  /\ \E s \in {chan[p].call, chan[p].resume} \ {0} :
       /\ opener[s] = p /\ hello[Other(p)][s] < MaxHello
       /\ hello' = [hello EXCEPT ![Other(p)][s] = @ + 1]
  /\ mail' = [mail EXCEPT ![p] = IF chan[p].session = 0 THEN <<>> ELSE @]
  /\ UNCHANGED <<chan, opener>>

Authenticated(p, s) ==
  /\ chan[p].context /\ chan[p].session = 0
  /\ chan' = [chan EXCEPT ![p].session = s, ![p].told = s, ![p].resume = 0,
                          ![p].call = IF @ = s THEN 0 ELSE @]
  /\ UNCHANGED <<mail, opener>>

\* connect() returns.
ConnectReturns(p) == chan[p].call # 0 /\ Authenticated(p, chan[p].call) /\ UNCHANGED hello

\* The session that p opened is back after an interruption.
Resumes(p) ==
  LET s == chan[p].resume
  IN s # 0 /\ opener[s] = p /\ Authenticated(p, s) /\ UNCHANGED hello

\* The partner opened session s or came back to it; p may have given it up.
Accepts(p, s) ==
  /\ chan[p].resume \in {0, s}
  /\ hello[p][s] # 0 /\ hello' = [hello EXCEPT ![p][s] = @ - 1]
  /\ Authenticated(p, s)

\* A call that fails takes nothing else along.
ConnectThrows(p) ==
  /\ chan[p].call # 0
  /\ chan' = [chan EXCEPT ![p].call = 0]
  /\ mail' \in {mail, [mail EXCEPT ![p] = <<>>]}
  /\ HellosFade(p) /\ UNCHANGED opener

\* connect() throws, but ControlSession goes on looking for its session.
ConnectThrowsAndResumes(p) ==
  /\ chan[p].call # 0 /\ chan[p].resume = 0
  /\ chan' = [chan EXCEPT ![p].resume = chan[p].call, ![p].call = 0, ![p].session = 0]
  /\ mail' = [mail EXCEPT ![p] = <<>>]
  /\ HellosFade(p) /\ UNCHANGED opener

\* connect() takes the place of a session that the partner opened meanwhile.
ConnectReplaces(p) ==
  /\ chan[p].call # 0 /\ chan[p].session # 0
  /\ chan' = [chan EXCEPT ![p].session = 0]
  /\ mail' = [mail EXCEPT ![p] = <<>>]
  /\ HellosFade(p) /\ UNCHANGED opener

\* The connection is lost: the session waits to be resumed.
Interrupted(p) ==
  /\ chan[p].session # 0 /\ chan[p].resume = 0
  /\ chan' = [chan EXCEPT ![p].resume = chan[p].session, ![p].session = 0]
  /\ mail' = [mail EXCEPT ![p] = <<>>]
  /\ HellosFade(p) /\ UNCHANGED opener

\* "error" and "closed" are emitted: the session will not come back.
GivesUp(p) ==
  /\ chan[p].resume # 0
  /\ chan' = [chan EXCEPT ![p].resume = 0, ![p].told = 0]
  /\ HellosFade(p) /\ UNCHANGED <<mail, opener>>

\* A handshake fails while nothing is to be resumed: "error" or "closed".
HandshakeFails(p) ==
  /\ chan[p].session = 0 /\ chan[p].resume = 0
  /\ \E call \in {0, chan[p].call} :
       chan' = [chan EXCEPT ![p].call = call, ![p].told = 0]
  /\ mail' = [mail EXCEPT ![p] = <<>>]
  /\ HellosFade(p) /\ UNCHANGED opener

\* "message" is emitted.
Delivers(p) ==
  /\ chan[p].context
  /\ mail[p] # <<>> /\ Head(mail[p]).sessionId = chan[p].session
  /\ mail' = [mail EXCEPT ![p] = Tail(@)]
  /\ UNCHANGED <<chan, hello, opener>>

\* What was sent last is lost first; a hello may be lost or in vain.
Loses(p) ==
  /\ \E n \in 0..Len(mail[p]) : mail' = [mail EXCEPT ![p] = SubSeq(@, 1, n)]
  /\ HellosFade(p) /\ UNCHANGED <<chan, opener>>

Restarts(p) ==
  /\ chan' = [chan EXCEPT ![p] = NewEnd]
  /\ mail' = [mail EXCEPT ![p] = <<>>]
  /\ HellosFade(p) /\ UNCHANGED opener

-----------------------------------------------------------------------------
ChannelCall(p) ==
  \/ Connect(p) \/ (\E body \in Body : Sent(p, body))
  \/ Close(p) \/ Deactivate(p) \/ Activate(p)

ChannelStep(p) ==
  \/ Dials(p) \/ ConnectReturns(p) \/ Resumes(p) \/ (\E s \in Session : Accepts(p, s))
  \/ ConnectThrows(p) \/ ConnectThrowsAndResumes(p) \/ ConnectReplaces(p)
  \/ Interrupted(p) \/ GivesUp(p) \/ HandshakeFails(p)
  \/ Delivers(p) \/ Loses(p) \/ Restarts(p)

ChannelNext == \E p \in Phone : ChannelCall(p) \/ ChannelStep(p)

ChannelSpec == ChannelInit /\ [][ChannelNext]_channelVars
=============================================================================
