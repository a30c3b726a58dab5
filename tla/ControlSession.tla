--------------------------- MODULE ControlSession ---------------------------
(***************************************************************************)
(* The authenticated control channel between the two phones of a pair.     *)
(*                                                                         *)
(* Each phone runs a ControlSession above a native module that holds at    *)
(* most one connection.  Transport events, timers and API calls go through *)
(* one promise queue: one action is one queued operation.  connect() does  *)
(* not go through the queue, and dialling takes several steps, so both are *)
(* split where they wait.                                                  *)
(*                                                                         *)
(* A handshake derives a fresh key on every connection, so the connection  *)
(* names its key, its nonces and its MACs; honest frames always verify.    *)
(***************************************************************************)
EXTENDS Naturals, Sequences, FiniteSets

CONSTANTS
  Phone,         \* the two phones of one pair
  Requesters,    \* phones whose user asks for the partner's screen
  Body,          \* what a sealed message may say
  MaxConn,       \* bound: connections that may be opened
  MaxSession,    \* bound: calls of connect() that may start
  MaxSequence,   \* bound: messages a phone may send on one connection
  MaxTries,      \* length of RECONNECT_DELAYS_MS
  Disturbances   \* which of "reset", "crash" and "unreachable" may happen

ASSUME PhoneAssumption == IsFiniteSet(Phone) /\ Cardinality(Phone) = 2
ASSUME RequestersAssumption == Requesters \subseteq Phone
ASSUME BoundAssumption == {MaxConn, MaxSession, MaxSequence, MaxTries} \subseteq Nat

VARIABLES
  ctl,       \* fields of each phone's ControlSession
  opening,   \* how far openInitiator got, for connect() and for a reconnect
  told,      \* session each phone's subscribers take for alive, 0 if none
  native,    \* the connection registered in each phone's native module
  knocks,    \* sockets a phone's listener accepted and has not classified
  inbox,     \* transport events and frames on their way to each phone
  lastConn,  \* connections opened so far
  opener     \* the phone that opened each session so far

network == <<native, knocks, inbox, lastConn>>
vars == <<ctl, opening, told, network, opener>>
lastSession == Len(opener)

Conn == 1..MaxConn
Session == 1..MaxSession
Other(p) == CHOOSE q \in Phone : q # p

-----------------------------------------------------------------------------
Role == {"none", "initiator", "responder"}
Caller == {"connect", "reconnect"}

Active == [connectionId : Nat, role : Role, sessionId : Nat, keyed : BOOLEAN,
           nextSendSequence : Nat, lastSequence : Nat, awaited : BOOLEAN]

\* Mutant: the sender counts from zero, the validator from one.
NoActiveFromZero ==
  [connectionId |-> 0, role |-> "none", sessionId |-> 0, keyed |-> FALSE,
   nextSendSequence |-> 0, lastSequence |-> 0, awaited |-> FALSE]

\* awaited: authResolve and authReject still belong to a caller of connect().
NoActive == [connectionId |-> 0, role |-> "none", sessionId |-> 0, keyed |-> FALSE,
             nextSendSequence |-> 1, lastSequence |-> 0, awaited |-> FALSE]

NewActive(c, r, s, isAwaited) ==
  [NoActive EXCEPT !.connectionId = c, !.role = r, !.sessionId = s, !.awaited = isAwaited]

Control == [context : BOOLEAN, active : Active, resumeSessionId : Nat, resumeRole : Role,
            reconnectAttempt : Nat, reconnectTimer : BOOLEAN,
            responderReconnectTimer : BOOLEAN, queued : Seq({"fail", "reconnect"})]

\* activate() has run: the phone is paired and trusts its partner.
Fresh == [context |-> TRUE, active |-> NoActive, resumeSessionId |-> 0, resumeRole |-> "none",
          reconnectAttempt |-> 0, reconnectTimer |-> FALSE,
          responderReconnectTimer |-> FALSE, queued |-> <<>>]

Opening == [step : {"none", "dialling", "dialled", "adopted", "rejected", "waiting"},
            sessionId : Nat, connectionId : Nat]
NoOpening == [step |-> "none", sessionId |-> 0, connectionId |-> 0]

Hello1(s) == [kind |-> "hello1", sessionId |-> s]
Hello2(s) == [kind |-> "hello2", sessionId |-> s]
Sealed(s, n, body) == [kind |-> "sealed", sessionId |-> s, sequence |-> n, body |-> body]
Connected == [kind |-> "connected"]
Closed == [kind |-> "closed"]
Failed == [kind |-> "error"]

-----------------------------------------------------------------------------
(***************************************************************************)
(* An operation yields an outcome: the new fields, the connections it      *)
(* closes, what becomes of an awaited connect(), the frames it sends and   *)
(* on which connection, and the events it emits with what they tell the    *)
(* subscribers.                                                            *)
(***************************************************************************)
Unchanged(p) ==
  [ctl |-> ctl[p], drop |-> {}, connect |-> "pending", wire |-> 0, frames |-> <<>>,
   emit |-> <<>>, told |-> told[p]]

Sends(o, frame) == [o EXCEPT !.wire = o.ctl.active.connectionId, !.frames = <<frame>>]

Emit(o, type, s) ==
  [o EXCEPT !.emit = Append(@, [type |-> type, sessionId |-> s, body |-> type]),
            !.told = IF type \in {"authenticated", "reconnected"} THEN s
                     ELSE IF type \in {"error", "closed"} THEN 0 ELSE @]

\* authReject of connection a, if a call of connect() still awaits it.
AuthReject(o, a) == IF a.awaited THEN [o EXCEPT !.connect = "reject"] ELSE o

ClearReconnectState(o) ==
  [o EXCEPT !.ctl.reconnectTimer = FALSE, !.ctl.responderReconnectTimer = FALSE,
            !.ctl.resumeSessionId = 0, !.ctl.resumeRole = "none", !.ctl.reconnectAttempt = 0]

\* Mutant: the connection is forgotten but not closed.
ForgetWithoutClose(o, a) == [o EXCEPT !.ctl.active = NoActive]

Forget(o, a) == [o EXCEPT !.ctl.active = NoActive, !.drop = @ \cup {a.connectionId}]

\* Mutant: closing leaves the caller of connect() waiting.
CloseActiveUnsettled(o) ==
  IF o.ctl.active.connectionId = 0 THEN o ELSE Forget(o, o.ctl.active)

CloseActive(o) ==
  LET a == o.ctl.active
  IN IF a.connectionId = 0 THEN o ELSE Forget(AuthReject(o, a), a)

\* Mutant: off by one at the end of the table of delays.
ScheduleOneTooMany(o) ==
  IF o.ctl.resumeSessionId = 0 \/ o.ctl.resumeRole # "initiator" \/ o.ctl.reconnectTimer
  THEN o
  ELSE IF o.ctl.reconnectAttempt > MaxTries
  THEN [o EXCEPT !.ctl.queued = Append(@, "fail")]
  ELSE [o EXCEPT !.ctl.reconnectAttempt = @ + 1, !.ctl.reconnectTimer = TRUE]

\* Mutant: when the delays are used up nobody gives up.
ScheduleWithoutEnd(o) ==
  IF \/ o.ctl.resumeSessionId = 0 \/ o.ctl.resumeRole # "initiator" \/ o.ctl.reconnectTimer
     \/ o.ctl.reconnectAttempt >= MaxTries
  THEN o
  ELSE [o EXCEPT !.ctl.reconnectAttempt = @ + 1, !.ctl.reconnectTimer = TRUE]

ScheduleInitiatorReconnect(o) ==
  IF o.ctl.resumeSessionId = 0 \/ o.ctl.resumeRole # "initiator" \/ o.ctl.reconnectTimer
  THEN o
  ELSE IF o.ctl.reconnectAttempt >= MaxTries
  THEN [o EXCEPT !.ctl.queued = Append(@, "fail")]
  ELSE [o EXCEPT !.ctl.reconnectAttempt = @ + 1, !.ctl.reconnectTimer = TRUE]

BeginReconnect(o, a) ==
  IF a.sessionId = 0 \/ o.ctl.resumeSessionId # 0 THEN o
  ELSE LET resuming == [Forget(AuthReject(o, a), a) EXCEPT
                          !.ctl.resumeSessionId = a.sessionId,
                          !.ctl.resumeRole = a.role, !.ctl.reconnectAttempt = 0]
       IN IF a.role = "initiator" THEN ScheduleInitiatorReconnect(resuming)
          ELSE [resuming EXCEPT !.ctl.responderReconnectTimer = TRUE]

\* A handshake that was refused or timed out.
RefuseHandshake(o) ==
  LET a == o.ctl.active
  IN IF o.ctl.resumeSessionId # 0
     THEN IF a.role = "initiator" THEN ScheduleInitiatorReconnect(Forget(AuthReject(o, a), a))
          ELSE Forget(o, a)
     ELSE CloseActive(Emit(o, "error", 0))

\* Mutant: giving up tells nobody.
FailReconnectQuietly(o) == ClearReconnectState(o)

FailReconnect(o) ==
  IF o.ctl.resumeSessionId = 0 THEN o
  ELSE Emit(Emit(ClearReconnectState(o), "error", 0), "closed", o.ctl.resumeSessionId)

\* The keyed connection is announced as new or as the resumed one.
Announce(o, s) ==
  IF o.ctl.resumeSessionId # 0
  THEN Emit(ClearReconnectState(o), "reconnected", s)
  ELSE Emit(o, "authenticated", s)

\* Mutant: the responder keeps the session it had in mind.
AcceptHello1KeepsId(o, p, hello) ==
  IF native[p] # o.ctl.active.connectionId THEN RefuseHandshake(o)
  ELSE Announce(Sends([o EXCEPT !.ctl.active.keyed = TRUE], Hello2(hello.sessionId)),
                hello.sessionId)

AcceptHello1(o, p, hello) ==
  IF native[p] # o.ctl.active.connectionId THEN RefuseHandshake(o)   \* send throws
  ELSE Announce(Sends([o EXCEPT !.ctl.active.sessionId = hello.sessionId,
                                !.ctl.active.keyed = TRUE],
                      Hello2(hello.sessionId)),
                hello.sessionId)

AcceptHello2(o) ==
  Announce([o EXCEPT !.ctl.active.keyed = TRUE, !.ctl.active.awaited = FALSE,
                     !.connect = IF o.ctl.active.awaited THEN "resolve" ELSE @],
           o.ctl.active.sessionId)

\* Mutant: any hello1 of the partner will do while resuming.
HandshakesAnySession(x, frame) ==
  \/ x.active.role = "responder" /\ frame.kind = "hello1"
  \/ x.active.role = "initiator" /\ frame.kind = "hello2"

Handshakes(x, frame) ==
  \/ /\ x.active.role = "responder" /\ frame.kind = "hello1"
     /\ x.resumeSessionId \in {0, frame.sessionId}
  \/ /\ x.active.role = "initiator" /\ frame.kind = "hello2"
     /\ frame.sessionId = x.active.sessionId

\* ReplayGuard.accept; message ids are never reused.
ReplayAccepts(a, frame) == frame.sequence = a.lastSequence + 1

\* MessageValidator.validate of an opened frame.
Validates(x, frame) ==
  /\ frame.kind = "sealed"
  /\ frame.sessionId = x.active.sessionId
  /\ ReplayAccepts(x.active, frame)

HandleFrame(o, p, frame) ==
  LET x == o.ctl
  IN IF ~x.context THEN o
     ELSE IF ~x.active.keyed
     THEN IF ~Handshakes(x, frame) THEN RefuseHandshake(o)
          ELSE IF frame.kind = "hello1" THEN AcceptHello1(o, p, frame) ELSE AcceptHello2(o)
     ELSE IF Validates(x, frame)
     THEN [o EXCEPT !.ctl.active.lastSequence = frame.sequence,
                    !.emit = Append(@, [type |-> "message", sessionId |-> frame.sessionId,
                                        body |-> frame.body])]
     ELSE CloseActive(Emit(o, "error", 0))

HandleConnected(o, c) ==
  LET x == o.ctl
  IN IF ~x.context \/ x.active.connectionId # 0 \/ x.resumeRole = "initiator"
     THEN [o EXCEPT !.drop = {c}]
     ELSE [o EXCEPT !.ctl.active = NewActive(c, "responder", x.resumeSessionId, FALSE)]

HandleClosed(o) ==
  LET a == o.ctl.active
      lost == AuthReject([o EXCEPT !.ctl.active = NoActive], a)
  IN IF a.keyed THEN BeginReconnect(o, a)
     ELSE IF o.ctl.resumeSessionId = 0 THEN Emit(lost, "closed", a.sessionId)
     ELSE IF a.role = "initiator" THEN ScheduleInitiatorReconnect(lost) ELSE lost

HandleError(o) ==
  LET a == o.ctl.active
  IN IF a.keyed THEN BeginReconnect(o, a)
     ELSE IF o.ctl.resumeSessionId # 0 THEN ScheduleInitiatorReconnect(Forget(o, a))
     ELSE CloseActive(Emit(o, "error", 0))

\* handleTransportEvent of event e of connection c.
HandleTransportEvent(o, p, c, e) ==
  IF e.kind = "connected" THEN HandleConnected(o, c)
  ELSE IF o.ctl.active.connectionId # c THEN o
  ELSE IF e.kind = "closed" THEN HandleClosed(o)
  ELSE IF e.kind = "error" THEN HandleError(o)
  ELSE HandleFrame(o, p, e)

-----------------------------------------------------------------------------
\* The end of connection c at p can still receive.
Receives(p, c) == native[p] = c \/ c \in knocks[p]

\* p sends the frames out on c, the first event of d having been handled and
\* the connections drop closed.  A socket without its peer swallows data.
Delivered(p, c, out, d, drop) ==
  [q \in Phone |->
     [e \in Conn |->
        IF q = p THEN IF e \in drop THEN <<>> ELSE IF e = d THEN Tail(inbox[p][e]) ELSE inbox[p][e]
        ELSE IF e = c /\ Receives(q, c) THEN inbox[q][e] \o out ELSE inbox[q][e]]]

\* connect() returns or throws as outcome o says.
Settled(p, o) ==
  LET call == opening[p]["connect"]
  IN IF o.connect = "pending" THEN call
     ELSE IF call.step = "adopted" THEN [call EXCEPT !.step = "rejected"]
     ELSE NoOpening

\* p performs an operation with outcome o that handled the first event of d.
Performs(p, o, d) ==
  /\ ctl' = [ctl EXCEPT ![p] = o.ctl]
  /\ told' = [told EXCEPT ![p] = o.told]
  /\ opening' = [opening EXCEPT ![p]["connect"] = Settled(p, o)]
  /\ native' = [native EXCEPT ![p] = IF @ \in o.drop THEN 0 ELSE @]
  /\ inbox' = Delivered(p, o.wire, o.frames, d, o.drop)
  /\ UNCHANGED <<knocks, lastConn, opener>>

\* A reconnect holds the promise queue until its hello is out.
QueueFree(p) == opening[p]["reconnect"].step = "none"

\* SessionController calls one method at a time and awaits it; an API call
\* waits for the operations queued before it.
ApiFree(p) == QueueFree(p) /\ opening[p]["connect"].step = "none" /\ ctl[p].queued = <<>>

Init ==
  /\ ctl = [p \in Phone |-> Fresh]
  /\ opening = [p \in Phone |-> [w \in Caller |-> NoOpening]]
  /\ told = [p \in Phone |-> 0]
  /\ native = [p \in Phone |-> 0]
  /\ knocks = [p \in Phone |-> {}]
  /\ inbox = [p \in Phone |-> [c \in Conn |-> <<>>]]
  /\ lastConn = 0
  /\ opener = <<>>

-----------------------------------------------------------------------------
(* Calls of the API. *)

\* connect() up to its check; it does not wait for the queue.
Connect(p) ==
  /\ p \in Requesters
  /\ opening[p]["connect"].step = "none"
  /\ ctl[p].context /\ ctl[p].active.connectionId = 0 /\ ctl[p].resumeSessionId = 0
  /\ lastSession < MaxSession
  /\ opener' = Append(opener, p)
  /\ opening' = [opening EXCEPT ![p]["connect"] =
                   [NoOpening EXCEPT !.step = "dialling", !.sessionId = lastSession + 1]]
  /\ UNCHANGED <<ctl, told, network>>

Sending(p, body) ==
  LET a == ctl[p].active
      o == [Unchanged(p) EXCEPT !.ctl.active.nextSendSequence = @ + 1]
  IN IF native[p] = a.connectionId
     THEN Sends(o, Sealed(a.sessionId, a.nextSendSequence, body))
     ELSE BeginReconnect(o, a)

Send(p, body) ==
  /\ ApiFree(p)
  /\ ctl[p].context /\ ctl[p].active.keyed
  /\ ctl[p].active.nextSendSequence <= MaxSequence
  /\ Performs(p, Sending(p, body), 0)

\* close(); the caller knows that the session is over.
Closing(p) == [CloseActive(ClearReconnectState(Unchanged(p))) EXCEPT !.told = 0]

Close(p) ==
  /\ ApiFree(p)
  /\ ctl[p].active.connectionId # 0 \/ ctl[p].resumeSessionId # 0
  /\ Performs(p, Closing(p), 0)

Deactivate(p) ==
  /\ ApiFree(p)
  /\ ctl[p].context
  /\ Performs(p, [Closing(p) EXCEPT !.ctl.context = FALSE], 0)

\* activate() for the same pair, or the first one after deactivate().
Activate(p) ==
  /\ ApiFree(p)
  /\ ~ctl[p].context
  /\ Performs(p, [Unchanged(p) EXCEPT !.ctl.context = TRUE], 0)

-----------------------------------------------------------------------------
(* openInitiator, on behalf of w. *)

Opens(p, w, next) == opening' = [opening EXCEPT ![p][w] = next]

\* The native module connects: the partner's listener accepts the socket.
Dial(p, w) ==
  /\ opening[p][w].step = "dialling"
  /\ native[p] = 0
  /\ lastConn < MaxConn
  /\ lastConn' = lastConn + 1
  /\ native' = [native EXCEPT ![p] = lastConn + 1]
  /\ knocks' = [knocks EXCEPT ![Other(p)] = @ \cup {lastConn + 1}]
  /\ Opens(p, w, [opening[p][w] EXCEPT !.step = "dialled", !.connectionId = lastConn + 1])
  /\ UNCHANGED <<ctl, told, inbox, opener>>

\* transport.connect throws: a connection is registered, or the partner cannot
\* be reached (it never can once the bound MaxConn is spent).
DialFails(p, w) ==
  /\ opening[p][w].step = "dialling"
  /\ native[p] # 0 \/ lastConn = MaxConn \/ "unreachable" \in Disturbances
  /\ Opens(p, w, NoOpening)
  /\ ctl' = [ctl EXCEPT ![p] = IF w = "connect" THEN @
                               ELSE ScheduleInitiatorReconnect(Unchanged(p)).ctl]
  /\ UNCHANGED <<told, network, opener>>

Adopt(p, w) ==
  /\ opening[p][w].step = "dialled"
  /\ Opens(p, w, [opening[p][w] EXCEPT !.step = "adopted"])
  /\ ctl' = [ctl EXCEPT ![p].active =
               NewActive(opening[p][w].connectionId, "initiator", opening[p][w].sessionId,
                         w = "connect")]
  /\ UNCHANGED <<told, network, opener>>

\* hello1 is out: a reconnect is done, connect() awaits authentication.
Hello(p, w) ==
  LET at == opening[p][w] IN
  /\ at.step \in {"adopted", "rejected"}
  /\ native[p] = at.connectionId
  /\ Opens(p, w, IF w = "connect" /\ at.step = "adopted" THEN [at EXCEPT !.step = "waiting"]
                 ELSE NoOpening)
  /\ inbox' = Delivered(p, at.connectionId, <<Hello1(at.sessionId)>>, 0, {})
  /\ UNCHANGED <<ctl, told, native, knocks, lastConn, opener>>

\* transport.send throws: the connection is gone.
HelloFails(p, w) ==
  LET at == opening[p][w]
      opened == NewActive(at.connectionId, "initiator", at.sessionId, FALSE)
      o == BeginReconnect(Unchanged(p), opened)
  IN /\ at.step \in {"adopted", "rejected"}
     /\ native[p] # at.connectionId
     /\ Opens(p, w, NoOpening)
     /\ ctl' = [ctl EXCEPT ![p] = IF w = "connect" THEN o.ctl
                                  ELSE ScheduleInitiatorReconnect(o).ctl]
     /\ UNCHANGED <<told, network, opener>>

-----------------------------------------------------------------------------
(* Transport events, timers and the operations they queue. *)

EventOutcome(p, c) == HandleTransportEvent(Unchanged(p), p, c, Head(inbox[p][c]))

TransportEvent(p, c) ==
  /\ QueueFree(p)
  /\ c \notin knocks[p] /\ inbox[p][c] # <<>>
  /\ Performs(p, EventOutcome(p, c), c)

TimeoutOutcome(p) == RefuseHandshake(Unchanged(p))

\* The timer of armHandshakeTimeout and the operation it queues.  Its 10 s
\* outlast the MAC and the native send (5 s) that hello1 takes.
HandshakeTimeout(p) ==
  /\ QueueFree(p)
  /\ opening[p]["connect"].step # "adopted"
  /\ ctl[p].active.connectionId # 0 /\ ~ctl[p].active.keyed
  /\ Performs(p, TimeoutOutcome(p), 0)

ReconnectTimer(p) ==
  /\ ctl[p].reconnectTimer
  /\ ctl' = [ctl EXCEPT ![p].reconnectTimer = FALSE, ![p].queued = Append(@, "reconnect")]
  /\ UNCHANGED <<opening, told, network, opener>>

ResponderReconnectTimer(p) ==
  /\ ctl[p].responderReconnectTimer
  /\ ctl' = [ctl EXCEPT ![p].responderReconnectTimer = FALSE, ![p].queued = Append(@, "fail")]
  /\ UNCHANGED <<opening, told, network, opener>>

Dequeued(p) == [Unchanged(p) EXCEPT !.ctl.queued = Tail(@)]

FailOutcome(p) == FailReconnect(Dequeued(p))

RunFailReconnect(p) ==
  /\ QueueFree(p)
  /\ ctl[p].queued # <<>> /\ Head(ctl[p].queued) = "fail"
  /\ Performs(p, FailOutcome(p), 0)

CanReconnect(x) ==
  /\ x.context /\ x.resumeSessionId # 0
  /\ x.resumeRole = "initiator" /\ x.active.connectionId = 0

RunReconnect(p) ==
  /\ QueueFree(p)
  /\ ctl[p].queued # <<>> /\ Head(ctl[p].queued) = "reconnect"
  /\ ctl' = [ctl EXCEPT ![p] = Dequeued(p).ctl]
  /\ Opens(p, "reconnect",
           IF CanReconnect(ctl[p])
           THEN [NoOpening EXCEPT !.step = "dialling", !.sessionId = ctl[p].resumeSessionId]
           ELSE NoOpening)
  /\ UNCHANGED <<told, network, opener>>

-----------------------------------------------------------------------------
(* The native module. *)

\* classifyInbound read the first frame and the slot is free.
Classify(p, c) ==
  /\ c \in knocks[p] /\ inbox[p][c] # <<>>
  /\ native[p] = 0
  /\ native' = [native EXCEPT ![p] = c]
  /\ knocks' = [knocks EXCEPT ![p] = @ \ {c}]
  /\ inbox' = [inbox EXCEPT ![p][c] = <<Connected>> \o @]
  /\ UNCHANGED <<ctl, opening, told, lastConn, opener>>

\* The slot is taken, or no first frame came in time.
ClassifyRejects(p, c) ==
  /\ c \in knocks[p]
  /\ native[p] # 0 \/ inbox[p][c] = <<>>
  /\ knocks' = [knocks EXCEPT ![p] = @ \ {c}]
  /\ inbox' = [inbox EXCEPT ![p][c] = <<>>]
  /\ UNCHANGED <<ctl, opening, told, native, lastConn, opener>>

\* readLoop reads the end of the stream after everything that was sent.
EndOfStream(p) ==
  /\ native[p] # 0 /\ ~Receives(Other(p), native[p])
  /\ inbox' = [inbox EXCEPT ![p][native[p]] = Append(@, Closed)]
  /\ native' = [native EXCEPT ![p] = 0]
  /\ UNCHANGED <<ctl, opening, told, knocks, lastConn, opener>>

\* The connection breaks at p; what p has not handled may be lost.
Reset(p) ==
  /\ "reset" \in Disturbances
  /\ native[p] # 0
  /\ \E n \in 0..Len(inbox[p][native[p]]) :
       inbox' = [inbox EXCEPT ![p][native[p]] = Append(SubSeq(@, 1, n), Failed)]
  /\ native' = [native EXCEPT ![p] = 0]
  /\ UNCHANGED <<ctl, opening, told, knocks, lastConn, opener>>

\* The process dies and starts again; activatePair() restores the context.
Crash(p) ==
  /\ "crash" \in Disturbances
  /\ ctl' = [ctl EXCEPT ![p] = Fresh]
  /\ opening' = [opening EXCEPT ![p] = [w \in Caller |-> NoOpening]]
  /\ told' = [told EXCEPT ![p] = 0]
  /\ native' = [native EXCEPT ![p] = 0]
  /\ knocks' = [knocks EXCEPT ![p] = {}]
  /\ inbox' = [inbox EXCEPT ![p] = [c \in Conn |-> <<>>]]
  /\ UNCHANGED <<lastConn, opener>>

-----------------------------------------------------------------------------
ApiCall(p) ==
  Connect(p) \/ (\E body \in Body : Send(p, body)) \/ Close(p) \/ Deactivate(p) \/ Activate(p)

OpeningStep(p) ==
  \E w \in Caller :
    Dial(p, w) \/ DialFails(p, w) \/ Adopt(p, w) \/ Hello(p, w) \/ HelloFails(p, w)

QueueStep(p) ==
  (\E c \in Conn : TransportEvent(p, c)) \/ RunFailReconnect(p) \/ RunReconnect(p)

TimerStep(p) == HandshakeTimeout(p) \/ ReconnectTimer(p) \/ ResponderReconnectTimer(p)

NativeStep(p) ==
  (\E c \in Conn : Classify(p, c) \/ ClassifyRejects(p, c)) \/ EndOfStream(p)

Next ==
  \E p \in Phone :
    ApiCall(p) \/ OpeningStep(p) \/ QueueStep(p) \/ TimerStep(p) \/ NativeStep(p)
    \/ Reset(p) \/ Crash(p)

Spec == Init /\ [][Next]_vars
=============================================================================
