--------------------------- MODULE SharingSession ---------------------------
(***************************************************************************)
(* Requests and sharing sessions of the two phones of a pair: the          *)
(* SessionController of each phone above the channel that its              *)
(* ControlSession provides.                                                *)
(*                                                                         *)
(* A controller runs one operation at a time: a call of the user or of the *)
(* media session, a control event or a time-out.  An operation is split    *)
(* where it waits for something that other operations overtake: connect()  *)
(* and the send before a close.                                            *)
(*                                                                         *)
(* Whether the partner is available is left to the user's choice to ask:   *)
(* PairedAvailable and PairedOffline are both "Paired" here.               *)
(***************************************************************************)
EXTENDS ControlChannel

CONSTANTS
  Disturbances,  \* which of "break", "crash", "media", "late", "storage", "revoke" may happen
  MaxMail,       \* bound: media is sent while fewer messages are on their way
  MaxEvents      \* bound: a phone's channel emits while fewer events wait

ASSUME SharingAssumption == MaxMail \in Nat /\ MaxEvents \in Nat

VARIABLES
  product,   \* each controller's SessionState
  timeout,   \* session whose request time-out is armed, 0 if none
  asking,    \* how far connect() got for requestScreen
  ending,    \* state to take after the close of a session, Nothing if none
  events,    \* control events and time-outs waiting in each controller's queue
  admitted   \* history: sessions on which each user's acceptance was sent

productVars == <<product, timeout, asking, ending, events, admitted>>
vars == <<channelVars, productVars>>

Bodies == {"request", "accept", "decline", "cancel", "end", "denied", "failed", "media"}

State(t, s, r) == [type |-> t, sessionId |-> s, role |-> r]
Unpaired == State("Unpaired", 0, "none")
Paired == State("Paired", 0, "none")
ErrorShown == State("Error", 0, "none")
Outgoing(s) == State("OutgoingRequest", s, "requester")
Incoming(s) == State("IncomingRequest", s, "sharer")
Sharing(s, r) == State("Connected", s, r)
Nothing == State("Nothing", 0, "none")

NotAsking == [step |-> "no", sessionId |-> 0]

ActiveTypes == {"OutgoingRequest", "IncomingRequest", "Connected"}
IsActive(x) == x.type \in ActiveTypes

Init ==
  /\ ChannelInit
  /\ product = [p \in Phone |-> Paired]
  /\ timeout = [p \in Phone |-> 0]
  /\ asking = [p \in Phone |-> NotAsking]
  /\ ending = [p \in Phone |-> Nothing]
  /\ events = [p \in Phone |-> <<>>]
  /\ admitted = [p \in Phone |-> {}]

-----------------------------------------------------------------------------
(* Operations of one controller, and what they are made of. *)

\* The controller may start its next operation.  A call queues up behind the
\* events that wait, so it starts when there are none.
Idle(p) == asking[p] = NotAsking /\ ending[p] = Nothing
Ready(p) == Idle(p) /\ events[p] = <<>>

Disturbed == "break" \in Disturbances
Alone(p) == ~Reaches(Other(p), chan[p].session)

\* The connection to the partner may be lost: it breaks, or the partner left
\* and everything it sent has been read.
MayBreak(p) == Disturbed \/ (Alone(p) /\ mail[p] = <<>>)

\* control.send throws: there is no session, or its connection is lost.
SendThrows(p) ==
  \/ chan[p].session = 0 /\ UNCHANGED channelVars
  \/ chan[p].session # 0 /\ chan[p].resume # 0 /\ MayBreak(p) /\ UNCHANGED channelVars
  \/ MayBreak(p) /\ Interrupted(p)

\* control.send resolves; without a break the message does not get lost.
Sends(p, body) == Sent(p, body) /\ (mail' # mail \/ Disturbed \/ Alone(p))

\* A send whose failure does not matter.
TrySend(p, body) == Sends(p, body) \/ SendThrows(p)

\* Mutant: the timer runs on.
ForgetRequestNotTimer(p) == UNCHANGED timeout

\* The request of p is over.
ForgetRequest(p) == timeout' = [timeout EXCEPT ![p] = 0]

\* Tell the partner; the close and the state follow (FinishEnding).
SayLast(p, body, next) ==
  /\ TrySend(p, body)
  /\ ending' = [ending EXCEPT ![p] = next]
  /\ UNCHANGED <<product, asking>>

CloseInto(p, next) ==
  /\ Close(p)
  /\ product' = [product EXCEPT ![p] = next]

Becomes(p, next) ==
  /\ product' = [product EXCEPT ![p] = next]
  /\ UNCHANGED <<channelVars, asking, ending>>

FinishEnding(p) ==
  /\ ending[p] # Nothing
  /\ CloseInto(p, ending[p])
  /\ ending' = [ending EXCEPT ![p] = Nothing]
  /\ IF IsActive(ending[p]) THEN UNCHANGED timeout ELSE ForgetRequest(p)
  /\ UNCHANGED <<asking, events, admitted>>

-----------------------------------------------------------------------------
(* requestScreen. *)

Ask(p) ==
  /\ Ready(p) /\ product[p] = Paired
  /\ Connect(p)
  /\ asking' = [asking EXCEPT ![p] = [step |-> "calling", sessionId |-> lastSession + 1]]
  /\ UNCHANGED <<product, timeout, ending, events, admitted>>

\* connect() throws at its first check.
AskRefused(p) ==
  /\ Ready(p) /\ product[p] = Paired /\ p \in Requesters
  /\ chan[p].session # 0 \/ chan[p].resume # 0
  /\ CloseInto(p, ErrorShown)
  /\ UNCHANGED <<timeout, asking, ending, events, admitted>>

AskThrew(p) ==
  /\ asking[p].step = "threw"
  /\ CloseInto(p, ErrorShown)
  /\ asking' = [asking EXCEPT ![p] = NotAsking]
  /\ UNCHANGED <<timeout, ending, events, admitted>>

\* Mutant: the request counts as granted once it is sent.
AskPresumesConsent(p) ==
  LET s == asking[p].sessionId IN
  /\ asking[p].step = "returned"
  /\ asking' = [asking EXCEPT ![p] = NotAsking]
  /\ Sends(p, "request")
  /\ product' = [product EXCEPT ![p] = Sharing(s, "requester")]
  /\ UNCHANGED <<timeout, ending, events, admitted>>

\* connect() returned a session; the request goes out, or cannot be sent.
AskReturned(p) ==
  LET s == asking[p].sessionId IN
  /\ asking[p].step = "returned"
  /\ asking' = [asking EXCEPT ![p] = NotAsking]
  /\ \/ /\ Sends(p, "request")
        /\ product' = [product EXCEPT ![p] = Outgoing(s)]
        /\ timeout' = [timeout EXCEPT ![p] = s]
        /\ UNCHANGED ending
     \/ /\ SendThrows(p)
        /\ ending' = [ending EXCEPT ![p] = ErrorShown]
        /\ UNCHANGED <<product, timeout>>
  /\ UNCHANGED <<events, admitted>>

-----------------------------------------------------------------------------
(* Calls of the user and of the media session. *)

\* The acceptance goes out on the session that the channel holds by now.  A
\* failed send leaves the request where it is.
AcceptRequest(p) ==
  /\ Ready(p) /\ product[p].type = "IncomingRequest"
  /\ \/ /\ Sends(p, "accept")
        /\ ForgetRequest(p)
        /\ product' = [product EXCEPT ![p] = Sharing(@.sessionId, "sharer")]
        /\ admitted' = [admitted EXCEPT ![p] = @ \cup {chan[p].session}]
     \/ SendThrows(p) /\ UNCHANGED <<product, timeout, admitted>>
  /\ UNCHANGED <<asking, ending, events>>

\* declineRequest and cancelRequest.
FinishRequest(p, type, body) ==
  /\ Ready(p) /\ product[p].type = type
  /\ SayLast(p, body, Paired)
  /\ ForgetRequest(p)
  /\ UNCHANGED <<events, admitted>>

\* Mutant: the session is closed without a word to the partner.
FinishSessionSilently(p, body, next) ==
  /\ Ready(p) /\ product[p].type = "Connected"
  /\ CloseInto(p, next)
  /\ UNCHANGED <<timeout, asking, ending, events, admitted>>

\* endSession, captureDenied (by the sharer) and failConnectedSession.
FinishSession(p, body, next) ==
  /\ Ready(p) /\ product[p].type = "Connected"
  /\ SayLast(p, body, next)
  /\ UNCHANGED <<timeout, events, admitted>>

DeclineRequest(p) == FinishRequest(p, "IncomingRequest", "decline")
CancelRequest(p) == FinishRequest(p, "OutgoingRequest", "cancel")
EndSession(p) == FinishSession(p, "end", Paired)
CaptureDenied(p) ==
  "media" \in Disturbances /\ product[p].role = "sharer" /\ FinishSession(p, "denied", Paired)
FailConnectedSession(p) == "media" \in Disturbances /\ FinishSession(p, "failed", ErrorShown)

SendMedia(p) ==
  /\ Ready(p) /\ product[p].type = "Connected"
  /\ Len(mail[Other(p)]) < MaxMail
  /\ TrySend(p, "media")
  /\ UNCHANGED productVars

ClearError(p) ==
  /\ Ready(p) /\ product[p] = ErrorShown
  /\ CloseInto(p, Paired)
  /\ ForgetRequest(p)
  /\ UNCHANGED <<asking, ending, events, admitted>>

\* The user forgets the partner.
DeactivatePair(p) ==
  /\ "revoke" \in Disturbances
  /\ Ready(p) /\ product[p] # Unpaired
  /\ Deactivate(p)
  /\ product' = [product EXCEPT ![p] = Unpaired]
  /\ ForgetRequest(p)
  /\ UNCHANGED <<asking, ending, events, admitted>>

-----------------------------------------------------------------------------
(* Control events and time-outs. *)

HandleSessionClosed(p, e) ==
  /\ e.type = "closed"
  /\ IF IsActive(product[p]) THEN Becomes(p, Paired) /\ ForgetRequest(p)
     ELSE UNCHANGED <<channelVars, product, timeout, asking, ending>>

HandleControlError(p, e) ==
  /\ e.type = "error"
  /\ IF IsActive(product[p])
     THEN CloseInto(p, Paired) /\ ForgetRequest(p) /\ UNCHANGED <<asking, ending>>
     ELSE UNCHANGED <<channelVars, product, timeout, asking, ending>>

\* Mutant: the partner is told, the request stays on the screen.
HandleTimeoutStays(p, e) ==
  /\ e.type = "timeout"
  /\ IF product[p].type \in {"IncomingRequest", "OutgoingRequest"}
        /\ product[p].sessionId = e.sessionId
     THEN SayLast(p, "cancel", product[p]) /\ UNCHANGED timeout
     ELSE UNCHANGED <<channelVars, product, timeout, asking, ending>>

HandleTimeout(p, e) ==
  /\ e.type = "timeout"
  /\ IF product[p].type \in {"IncomingRequest", "OutgoingRequest"}
        /\ product[p].sessionId = e.sessionId
     THEN /\ SayLast(p, IF product[p].role = "requester" THEN "cancel" ELSE "end", Paired)
          /\ UNCHANGED timeout
     ELSE UNCHANGED <<channelVars, product, timeout, asking, ending>>

\* A request is stored and shown; it may have come too late, or the store
\* may refuse it.
HandleRequest(p, s) ==
  \/ /\ product[p] # Paired
     /\ SayLast(p, "decline", product[p])
     /\ UNCHANGED timeout
  \/ /\ product[p] = Paired /\ "late" \in Disturbances
     /\ SayLast(p, "end", Paired)
     /\ UNCHANGED timeout
  \/ /\ product[p] = Paired /\ "storage" \in Disturbances
     /\ UNCHANGED <<channelVars, product, timeout, asking, ending>>
  \/ /\ product[p] = Paired
     /\ Becomes(p, Incoming(s))
     /\ timeout' = [timeout EXCEPT ![p] = s]

\* What any other message of the partner makes of state x: it stays open, is
\* closed, or the message is out of place.
Reaction(x, e) ==
  LET To(how, next) == [how |-> how, next |-> next] IN
  IF IsActive(x) /\ e.sessionId # x.sessionId THEN To("open", x) ELSE
  CASE e.body = "cancel" /\ x.type = "IncomingRequest" -> To("close", Paired)
    [] e.body = "accept" /\ x.type = "OutgoingRequest" ->
         To("open", Sharing(e.sessionId, "requester"))
    [] e.body = "decline" /\ x.type = "OutgoingRequest" -> To("close", Paired)
    [] e.body = "denied" /\ x.type = "Connected" /\ x.role = "requester" ->
         To("close", ErrorShown)
    [] e.body = "media" /\ x.type = "Connected" -> To("open", x)
    [] e.body = "end" /\ IsActive(x) -> To("close", Paired)
    [] e.body = "failed" /\ IsActive(x) -> To("close", ErrorShown)
    [] OTHER -> To("reject", Paired)

HandleOtherMessage(p, e) ==
  LET r == Reaction(product[p], e) IN
  \/ r.how = "open" /\ Becomes(p, r.next)
     /\ IF r.next = product[p] THEN UNCHANGED timeout ELSE ForgetRequest(p)
  \/ r.how = "close" /\ CloseInto(p, r.next) /\ ForgetRequest(p) /\ UNCHANGED <<asking, ending>>
  \/ r.how = "reject" /\ SayLast(p, "end", r.next) /\ UNCHANGED timeout

HandleMessage(p, e) ==
  /\ e.type = "message"
  /\ IF product[p] = Unpaired
     THEN CloseInto(p, Unpaired) /\ UNCHANGED <<timeout, asking, ending>>
     ELSE IF e.body = "request" THEN HandleRequest(p, e.sessionId)
     ELSE HandleOtherMessage(p, e)

HandleEvent(p) ==
  /\ Idle(p) /\ events[p] # <<>>
  /\ events' = [events EXCEPT ![p] = Tail(@)] /\ UNCHANGED admitted
  /\ LET e == Head(events[p])
     IN \/ HandleSessionClosed(p, e) \/ HandleControlError(p, e)
        \/ HandleTimeout(p, e) \/ HandleMessage(p, e)

TimeoutFires(p) ==
  /\ timeout[p] # 0
  /\ timeout' = [timeout EXCEPT ![p] = 0]
  /\ events' = [events EXCEPT ![p] =
                  Append(@, [type |-> "timeout", sessionId |-> timeout[p], body |-> "timeout"])]
  /\ UNCHANGED <<channelVars, product, asking, ending, admitted>>

-----------------------------------------------------------------------------
(* Steps of the control session and the events that the controller hears. *)

Event(t, s, body) == [type |-> t, sessionId |-> s, body |-> body]
Hears(p, emitted) ==
  Len(events[p]) < MaxEvents /\ events' = [events EXCEPT ![p] = @ \o emitted]

\* connect() returned or threw in this step.
Answered(p, how) ==
  asking' = [asking EXCEPT ![p].step = IF chan[p].call # 0 /\ chan'[p].call = 0 THEN how ELSE @]

ChannelOpens(p) ==
  /\ ConnectReturns(p) \/ Resumes(p) \/ \E s \in 1..MaxSession : Accepts(p, s)
  /\ Answered(p, "returned")
  /\ UNCHANGED events

CallThrows(p) ==
  /\ Disturbed \/ Other(p) \in Requesters
  /\ ConnectThrows(p) \/ ConnectThrowsAndResumes(p)
  /\ Answered(p, "threw")
  /\ UNCHANGED events

ChannelReplaced(p) == ConnectReplaces(p) /\ UNCHANGED <<asking, events>>

ChannelInterrupted(p) == MayBreak(p) /\ Interrupted(p) /\ UNCHANGED <<asking, events>>

ChannelGivesUp(p) ==
  /\ GivesUp(p)
  /\ Hears(p, <<Event("error", 0, "error"), Event("closed", chan[p].resume, "closed")>>)
  /\ UNCHANGED asking

ChannelFails(p) ==
  /\ Disturbed \/ hello[p] # [s \in Session |-> 0]
  /\ HandshakeFails(p)
  /\ \E type \in {"error", "closed"} : Hears(p, <<Event(type, 0, type)>>)
  /\ Answered(p, "threw")

ChannelDelivers(p) ==
  /\ Delivers(p)
  /\ Hears(p, <<Event("message", Head(mail[p]).sessionId, Head(mail[p]).body)>>)
  /\ UNCHANGED asking

ChannelDials(p) == Dials(p) /\ UNCHANGED <<asking, events>>

ChannelLoses(p) ==
  /\ Loses(p) /\ (Disturbed \/ mail' = mail)
  /\ UNCHANGED <<asking, events>>

\* requestScreen goes on before anything else reaches its phone.
ChannelChange(p) ==
  /\ asking[p].step \notin {"returned", "threw"}
  /\ \/ ChannelOpens(p) \/ CallThrows(p) \/ ChannelReplaced(p) \/ ChannelInterrupted(p)
     \/ ChannelGivesUp(p) \/ ChannelFails(p) \/ ChannelDelivers(p)
     \/ ChannelDials(p) \/ ChannelLoses(p)
  /\ UNCHANGED <<product, timeout, ending, admitted>>

\* A restart finds the pair again, clears the stored request and is idle.
Restart(p) ==
  /\ "crash" \in Disturbances
  /\ product[p] # Unpaired
  /\ Restarts(p)
  /\ ForgetRequest(p)
  /\ product' = [product EXCEPT ![p] = Paired]
  /\ asking' = [asking EXCEPT ![p] = NotAsking]
  /\ ending' = [ending EXCEPT ![p] = Nothing]
  /\ events' = [events EXCEPT ![p] = <<>>] /\ UNCHANGED admitted

-----------------------------------------------------------------------------
UserCall(p) ==
  \/ Ask(p) \/ AskRefused(p)
  \/ AcceptRequest(p) \/ DeclineRequest(p) \/ CancelRequest(p)
  \/ EndSession(p) \/ CaptureDenied(p) \/ FailConnectedSession(p) \/ SendMedia(p)
  \/ ClearError(p) \/ DeactivatePair(p)

ControllerStep(p) ==
  AskThrew(p) \/ AskReturned(p) \/ FinishEnding(p) \/ HandleEvent(p) \/ TimeoutFires(p)

Next == \E p \in Phone : UserCall(p) \/ ControllerStep(p) \/ ChannelChange(p) \/ Restart(p)

Spec == Init /\ [][Next]_vars
=============================================================================
