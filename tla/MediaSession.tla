---------------------------- MODULE MediaSession ----------------------------
(***************************************************************************)
(* MediaSession of the two phones of a pair: the sharer's capture consent, *)
(* the offer and answer exchange over the control session, and the loop    *)
(* that recovers a lost video connection.                                  *)
(*                                                                         *)
(* phone[p] is one phone: its SessionController's view (product) and the   *)
(* fields of its MediaSession.  The handlers are functions from a phone to *)
(* a phone.  Each MediaSession runs one queued operation at a time, split  *)
(* where it waits: for Android's consent and for a message to be sent.     *)
(* Transport events, timers and the statistics poll run beside the queue.  *)
(* WebRTC is external: an offer is its number, an answer and a candidate   *)
(* carry the number of the offer they belong to.                           *)
(***************************************************************************)
EXTENDS Naturals, Sequences

CONSTANTS
  Phone,
  Sharer(_),     \* the phone that shares in a session
  MaxSession,    \* bound: sessions one after the other
  MaxRestarts,   \* MEDIA_RESTART_DELAYS_MS.length
  MaxFaults      \* bound: disturbances in a behaviour

ASSUME MediaAssumption ==
  /\ \E p, q \in Phone : p # q /\ Phone = {p, q}
  /\ MaxSession \in Nat /\ MaxRestarts \in Nat \ {0}
  /\ MaxFaults \in Nat
  /\ \A s \in 1..MaxSession : Sharer(s) \in Phone

VARIABLES
  phone,
  session,   \* sessions accepted so far
  offers,    \* offers created so far
  path,      \* whether packets pass between the peers, or do so again
  link,      \* whether the control connection stands
  torn,      \* whether a break of it has cost a message
  faults     \* disturbances so far

network == <<path, link, torn>>
vars == <<phone, session, offers, network, faults>>

Other(p) == CHOOSE q \in Phone : q # p

-----------------------------------------------------------------------------
(* A phone. *)

\* transport and the descriptions of an RTCPeerConnection, by offer number;
\* added: a candidate was given to it, waiting: one is kept for it, gathered: its
\* own was sent.  Only the first exchange is followed candidate by candidate.
\* polled: the statistics of the requester's peer are polled.
NewPeer == [transport |-> "pending", offered |-> FALSE, local |-> 0, remote |-> 0,
            added |-> FALSE, waiting |-> FALSE, gathered |-> FALSE, polled |-> FALSE]
NoPeer == [NewPeer EXCEPT !.transport = "none"]

NoTimer == [kind |-> "none", session |-> 0, attempt |-> 0]
Timer(kind, s, attempt) == [kind |-> kind, session |-> s, attempt |-> attempt]

\* What the running operation waits for.
Waits(step, s, attempt) == [step |-> step, session |-> s, attempt |-> attempt]
Idle == Waits("idle", 0, 0)

\* state and of are MediaState's type and sessionId, owner is peerSessionId,
\* capture the session whose granted stream is localStream.
Quiet == [state |-> "idle", of |-> 0, owner |-> 0, capture |-> 0, peer |-> NoPeer,
          attempt |-> 0, restart |-> NoTimer, grace |-> FALSE, frame |-> FALSE]

Start == [product |-> 0, media |-> Quiet, queue |-> <<>>, running |-> Idle,
          dialogs |-> {}, screens |-> {}, ending |-> Idle, entered |-> 0, started |-> 0]

Init ==
  /\ phone = [p \in Phone |-> Start]
  /\ session = 0 /\ offers = 0 /\ faults = 0
  /\ path = "good" /\ link = "up" /\ torn = FALSE

Op(op, s) == [op |-> op, session |-> s]
Enqueue(f, op) == [f EXCEPT !.queue = Append(@, op)]
Await(f, step, s, attempt) == [f EXCEPT !.running = Waits(step, s, attempt)]
Shares(p, s) == s # 0 /\ Sharer(s) = p

\* SessionController enters or leaves a session; its listeners hear of it.
Enter(f, s) == Enqueue([f EXCEPT !.product = s, !.entered = s], Op("sync", 0))
Leave(f) == Enqueue([f EXCEPT !.product = 0], Op("sync", 0))

\* Mutant: the restart timer survives.
ResetKeepsTimer(f) ==
  [f EXCEPT !.media = [Quiet EXCEPT !.restart = f.media.restart], !.screens = @ \ {f.media.capture}]

\* resetMedia: everything the session owned is stopped and forgotten.
ResetMedia(f) == [f EXCEPT !.media = Quiet, !.screens = @ \ {f.media.capture}]

Active(f) == f.media.owner # 0 \/ f.media.state # "idle" \/ f.media.peer # NoPeer

Show(f, state, s) == [f EXCEPT !.media.state = state, !.media.of = s]

\* The controller ends the session only if it is still the current one.
EndProduct(f, s) == IF f.product = s THEN Leave(f) ELSE f

\* useSession.endSession: MediaSession.stop first, then the controller.
End(f, s) ==
  IF f.ending # Idle THEN f ELSE [Enqueue(f, Op("stop", 0)) EXCEPT !.ending = Waits("stop", s, 0)]

Fail(f, s) == ResetMedia(EndProduct(Show(f, "error", s), s))
DenyCapture(f, s) == EndProduct(Show(f, "error", s), s)

-----------------------------------------------------------------------------
(* Recovery. *)

ScheduleRecovery(f, s) ==
  IF f.product # s \/ f.media.restart # NoTimer THEN f
  ELSE IF f.media.attempt >= MaxRestarts THEN Fail(f, s)
  ELSE LET n == f.media.attempt + 1
       IN [Show(f, "recovering", s) EXCEPT !.media.attempt = n,
                                           !.media.restart = Timer("attempt", s, n)]

\* Mutant: a restart that could not be sent is not tried again.
GiveUpQuietly(f, s, n) == IF f.media.attempt = n THEN [f EXCEPT !.media.attempt = n - 1] ELSE f

\* The restart could not be sent: the attempt is given back and tried later.
RetryLater(f, s, n) ==
  LET back == IF f.media.attempt = n THEN [f EXCEPT !.media.attempt = n - 1] ELSE f
  IN IF f.media.owner # s \/ f.media.restart # NoTimer THEN back
     ELSE [back EXCEPT !.media.restart = Timer("retry", s, n)]

\* createOffer and setLocalDescription; the offer is sent in a later step.
Offering(f, step, s, n) ==
  [Await(f, step, s, n) EXCEPT !.media.peer.local = offers + 1,
                                  !.media.peer.offered = TRUE]

CanPublish(f) == f.media.peer # NoPeer /\ f.media.capture # 0

\* The restart timer's operation, unless the attempt it was armed for is over.
Restart(f, p, s, n) ==
  IF f.product # s \/ f.media.attempt # n THEN f
  ELSE IF ~Shares(p, s) THEN Await(f, "ask", s, n)
  ELSE IF CanPublish(f) /\ f.media.owner = s THEN Offering(f, "offer", s, n) ELSE RetryLater(f, s, n)

-----------------------------------------------------------------------------
(* Operations of the queue. *)

WithPeer(f, s, state) ==
  [Show(f, state, s) EXCEPT !.media.owner = s, !.media.peer = NewPeer]

SyncSession(f, p) ==
  IF f.product = 0 THEN IF Active(f) THEN ResetMedia(f) ELSE f
  ELSE IF ~Shares(p, f.product)
  THEN IF f.media.owner = f.product THEN f 
       ELSE [WithPeer(ResetMedia(f), f.product, "connecting") EXCEPT !.media.peer.polled = TRUE]
  ELSE IF f.media.owner \in {0, f.product} THEN f ELSE ResetMedia(f)

\* startSharing up to Android's consent dialog.  Its caller ends the session when
\* it throws, as it does where the phone no longer shares.
StartSharing(f, p, called) ==
  LET s == f.product
  IN IF ~Shares(p, s) THEN End(f, called)
     ELSE IF f.media.capture # 0 /\ f.media.owner = s THEN f
     ELSE [Await(Show(ResetMedia(f), "awaiting_permission", s), "consent", s, 0)
             EXCEPT !.media.owner = s, !.dialogs = @ \cup {s}]

Stop(f) == [ResetMedia(f) EXCEPT !.ending.step = "leave"]

\* Android ended the capture of session s.
CaptureEnded(f, s) ==
  IF f.media.owner # s THEN f ELSE ResetMedia(EndProduct(Show(f, "error", s), s))

GraceIsOver(f, s) ==
  IF f.media.owner = s /\ f.media.peer.transport = "disconnected" THEN ScheduleRecovery(f, s) ELSE f

\* A description of the other side; ICE starts over on a lost transport.
Described(peer, n) ==
  [peer EXCEPT !.remote = n, !.waiting = FALSE, !.added = @ \/ peer.waiting,
               !.transport = IF @ = "connected" THEN @ ELSE "pending"]

\* Mutant: a candidate that comes before the description is dropped.
DropEarlyCandidate(f, s) ==
  IF f.media.owner = s /\ f.media.peer.remote # 0 THEN [f EXCEPT !.media.peer.added = TRUE] ELSE f

HandleCandidate(f, s) ==
  IF f.media.owner # s \/ f.media.peer = NoPeer THEN f
  ELSE IF f.media.peer.remote = 0 THEN [f EXCEPT !.media.peer.waiting = TRUE]
  ELSE [f EXCEPT !.media.peer.added = TRUE]

\* The requester applies the offer and its own answer; sending it comes later.  A
\* peer made here, because a stale stop took the one of syncSession, is not polled.
HandleOffer(f, s, n) ==
  LET g == IF f.media.owner = s /\ f.media.peer # NoPeer THEN f
           ELSE [f EXCEPT !.media.owner = s, !.media.peer = NewPeer]
  IN [Await(g, "answer", s, 0) EXCEPT
        !.media.peer = [Described(@, n) EXCEPT !.local = n]]

\* An answer with no offer outstanding is refused by WebRTC.
HandleAnswer(f, s, n) ==
  IF f.media.owner = s /\ f.media.peer.offered
  THEN [f EXCEPT !.media.peer = [Described(@, n) EXCEPT !.offered = FALSE]]
  ELSE ScheduleRecovery(f, s)

HandleRestartRequest(f, s) ==
  IF CanPublish(f) /\ f.media.owner = s THEN Offering(f, "offer", s, 0) ELSE ScheduleRecovery(f, s)

\* A phone accepts only the messages that its role in the session expects.
HandleSignal(f, p, m) ==
  IF f.product # m.session THEN f
  ELSE CASE m.kind = "candidate" -> HandleCandidate(f, m.session)
         [] m.kind = "offer" -> HandleOffer(f, m.session, m.offer)
         [] m.kind = "answer" -> HandleAnswer(f, m.session, m.offer)
         [] m.kind = "restart" -> HandleRestartRequest(f, m.session)

Handled(f, p, op) ==
  CASE op.op = "sync" -> SyncSession(f, p)
    [] op.op = "start" -> StartSharing(f, p, op.session)
    [] op.op = "stop" -> Stop(f)
    [] op.op = "ended" -> CaptureEnded(f, op.session)
    [] op.op = "grace" -> GraceIsOver(f, op.session)
    [] op.op = "recover" -> ScheduleRecovery(f, op.session)
    [] op.op = "restart" -> Restart(f, p, op.session, op.attempt)
    [] op.op = "signal" -> HandleSignal(f, p, op.message)
    [] op.op = "lost" -> f

Popped(f) == [f EXCEPT !.queue = Tail(@)]

Handle(p) ==
  /\ phone[p].running = Idle /\ phone[p].queue # <<>>
  /\ phone' = [phone EXCEPT ![p] = Handled(Popped(@), p, Head(@.queue))]
  /\ offers' = IF phone'[p].running.step = "offer" THEN offers + 1 ELSE offers
  /\ UNCHANGED <<session, network, faults>>

-----------------------------------------------------------------------------
(* Messages.  sendMedia works in the session's own controller state and while *)
(* the control connection stands. *)

Message(s, kind, n) == [session |-> s, kind |-> kind, offer |-> n]
CanSend(p, s) == phone[p].product = s /\ link = "up"
Receive(f, batch) ==
  [f EXCEPT !.queue = @ \o [i \in DOMAIN batch |-> [op |-> "signal", message |-> batch[i]]]]

\* The channel keeps the order: the acceptance of a session came before.
Deliver(f, s, batch) ==
  Receive(IF f.product = 0 /\ f.entered < s THEN Enter(f, s) ELSE f, batch)

\* What the caller of a failed sendMedia does: the session ends with the first
\* offer; a restart is retried; a requested offer or an answer is recovered.
SendFailed(f, w) ==
  IF w.step = "first" THEN End(f, w.session)
  ELSE IF w.attempt # 0 THEN RetryLater(f, w.session, w.attempt)
  ELSE ScheduleRecovery(f, w.session)

\* The first description of a peer goes out before or after its candidate.
Batches(f, w) ==
  LET n == f.media.peer.local
      c == Message(w.session, "candidate", n)
      m == CASE w.step \in {"first", "offer"} -> Message(w.session, "offer", n)
             [] w.step = "answer" -> Message(w.session, "answer", n)
             [] w.step = "ask" -> Message(w.session, "restart", 0)
  IN IF w.step = "ask" \/ f.media.peer.gathered THEN {<<m>>} ELSE {<<c, m>>, <<m, c>>}

Done(f) == [f EXCEPT !.running = Idle]

Send(p) ==
  LET w == phone[p].running
      done == Done(phone[p])
  IN /\ w.step \in {"first", "offer", "answer", "ask"}
     /\ IF CanSend(p, w.session)
        THEN \E batch \in Batches(done, w) :
               phone' = [phone EXCEPT
                 ![p] = IF w.step = "ask" THEN done ELSE [done EXCEPT !.media.peer.gathered = TRUE],
                 ![Other(p)] = Deliver(@, w.session, batch)]
        ELSE phone' = [phone EXCEPT ![p] = SendFailed(done, w)]
     /\ UNCHANGED <<session, offers, network, faults>>

-----------------------------------------------------------------------------
(* Android's consent.  The dialog outlives the time-out of the code. *)

Pending(p, s) == phone[p].running.step = "consent" /\ phone[p].running.session = s
Answered(f, s) == [f EXCEPT !.running = Idle, !.dialogs = @ \ {s}]

\* The stream is adopted if the phone is still sharing in that session.
Adopt(f, s) ==
  Offering([WithPeer(f, s, "connecting") EXCEPT !.media.capture = s, !.screens = @ \cup {s}],
           "first", s, 0)

\* Mutant: the session is not looked at again.
AdoptUnchecked(f, s) == Adopt(f, s)

Granted(f, s) ==
  IF f.product = s THEN Adopt(f, s)
  ELSE IF f.media.owner = s THEN ResetMedia(f) ELSE f

\* Mutant: a late stream is not released.
KeepLateStream(f, s) == [f EXCEPT !.dialogs = @ \ {s}, !.screens = @ \cup {s}]

\* A stream granted after the time-out is released at once.
ReleaseLateStream(f, s) == [f EXCEPT !.dialogs = @ \ {s}]

UserGrants(p) ==
  \E s \in phone[p].dialogs :
    /\ phone' = [phone EXCEPT ![p] =
         IF Pending(p, s) THEN Granted(Answered(@, s), s) ELSE ReleaseLateStream(@, s)]
    /\ offers' = IF Pending(p, s) /\ phone[p].product = s THEN offers + 1 ELSE offers
    /\ UNCHANGED <<session, network, faults>>

UserRefuses(p) ==
  \E s \in phone[p].dialogs :
    /\ phone' = [phone EXCEPT ![p] =
         IF Pending(p, s) THEN DenyCapture(Answered(@, s), s) ELSE ReleaseLateStream(@, s)]
    /\ UNCHANGED <<session, offers, network, faults>>

ConsentTimesOut(p) ==
  /\ phone[p].running.step = "consent"
  /\ phone' = [phone EXCEPT ![p] = DenyCapture(Done(@), @.running.session)]
  /\ UNCHANGED <<session, offers, network, faults>>

\* Android grants a stream without a video track.
GrantHasNoTrack(p) ==
  \E s \in phone[p].dialogs :
    /\ Pending(p, s) /\ phone[p].product = s
    /\ phone' = [phone EXCEPT ![p] = Fail(Answered(@, s), s)]

-----------------------------------------------------------------------------
(* Beside the queue: transport events, timers, statistics. *)

Lost(f) == Enqueue([f EXCEPT !.media.grace = FALSE], Op("recover", f.media.owner))
Degraded(f) == [f EXCEPT !.media.grace = TRUE]

Connected(f, p) ==
  [Show(f, IF Shares(p, f.media.owner) \/ f.media.frame THEN "live" ELSE "connecting", f.media.owner)
     EXCEPT !.media.grace = FALSE, !.media.restart = NoTimer, !.media.attempt = 0]

Turned(f, transport) == [f EXCEPT !.media.peer.transport = transport]

\* handlePeerTransportState, with the transport just reported.
Reports(p, transport) ==
  phone' = [phone EXCEPT ![p] =
    LET f == Turned(@, transport)
    IN CASE transport = "failed" -> Lost(f)
         [] transport = "disconnected" -> Degraded(f)
         [] transport = "connected" -> Connected(f, p)]

PeerOf(p, s) == IF phone[p].media.owner = s THEN phone[p].media.peer ELSE NoPeer

\* Both ends are there and packets pass.
Reachable(s) ==
  path # "bad" /\ \A p \in Phone : PeerOf(p, s) # NoPeer

\* Both ends hold the same descriptions, and one knows a candidate of the other.
CanConnect(s) ==
  LET sharing == PeerOf(Sharer(s), s)
      viewing == PeerOf(Other(Sharer(s)), s)
  IN /\ Reachable(s) /\ ~sharing.offered
     /\ sharing.local = sharing.remote /\ viewing.local = sharing.local
     /\ (sharing.added \/ viewing.added)

\* Nothing is under way that could still complete the exchange.
Settled(s) == \A p \in Phone :
  /\ phone[p].running = Idle /\ phone[p].queue = <<>>
  /\ phone[p].media.restart = NoTimer /\ PeerOf(p, s).remote # 0

Transport(p) ==
  LET peer == phone[p].media.peer
      s == phone[p].media.owner
  IN /\ peer # NoPeer
     /\ \/ peer.transport # "connected" /\ CanConnect(s) /\ Reports(p, "connected")
        \/ peer.transport = "connected" /\ ~Reachable(s) /\ Reports(p, "disconnected")
        \/ /\ peer.transport = "disconnected" \/ (peer.transport = "pending" /\ Settled(s))
           /\ ~CanConnect(s) /\ Reports(p, "failed")
     /\ UNCHANGED <<session, offers, network, faults>>

GraceFires(f) == Enqueue([f EXCEPT !.media.grace = FALSE], Op("grace", f.media.owner))

RestartFires(f) ==
  LET t == f.media.restart
      g == [f EXCEPT !.media.restart = NoTimer]
  IN IF t.kind = "retry" THEN Enqueue(g, Op("recover", t.session))
     ELSE Enqueue(g, [op |-> "restart", session |-> t.session, attempt |-> t.attempt])

TimerFires(p) ==
  /\ \/ phone[p].media.grace /\ phone' = [phone EXCEPT ![p] = GraceFires(@)]
     \/ phone[p].media.restart # NoTimer /\ phone' = [phone EXCEPT ![p] = RestartFires(@)]
  /\ UNCHANGED <<session, offers, network, faults>>

Seen(f) == [f EXCEPT !.media.frame = TRUE]

\* The poll of the requester finds the first decoded frame.
FirstFrame(p) ==
  LET m == phone[p].media
  IN /\ m.owner # 0 /\ m.owner = phone[p].product /\ m.peer.polled /\ ~m.frame
     /\ m.peer.transport \in {"connected", "disconnected"}
     /\ phone' = [phone EXCEPT ![p] =
          IF m.peer.transport = "connected" THEN Show(Seen(@), "live", m.owner) ELSE Seen(@)]
     /\ UNCHANGED <<session, offers, network, faults>>

-----------------------------------------------------------------------------
(* Users, the session controllers, Android, the network. *)

\* The sharer accepts; what was sent in an earlier session is gone.
Accept ==
  /\ session < MaxSession /\ path = "good"
  /\ \A p \in Phone : phone[p].product = 0
  /\ session' = session + 1
  /\ phone' = [phone EXCEPT ![Sharer(session')] = Enter(@, session')] /\ link' = "up"
  /\ UNCHANGED <<offers, path, torn, faults>>

\* The requester learns of it, perhaps when it is over already.
Accepted(p) ==
  /\ phone[p].product = 0 /\ ~Shares(p, session) /\ phone[p].entered < session
  /\ phone' = [phone EXCEPT ![p] = Enter(@, session)]
  /\ UNCHANGED <<session, offers, network, faults>>

\* acceptRequest goes on with startSharing once the phone shares.
AskToShare(f) == [Enqueue(f, Op("start", f.product)) EXCEPT !.started = f.product]

ShareScreen(p) ==
  /\ Shares(p, phone[p].product) /\ phone[p].started < phone[p].product
  /\ phone' = [phone EXCEPT ![p] = AskToShare(@)]

\* The controller's endSession, after the media session stopped.
Ended(f) == [EndProduct(f, f.ending.session) EXCEPT !.ending = Idle]

EndSession(p) ==
  /\ phone[p].ending.step = "leave"
  /\ phone' = [phone EXCEPT ![p] = Ended(@)]

\* The controller hears that the partner left.
PartnerLeft(p) ==
  /\ phone[p].product # 0 /\ phone[Other(p)].product # phone[p].product
  /\ phone[Other(p)].entered = phone[p].product
  /\ phone' = [phone EXCEPT ![p] = Leave(@)]

\* What the session controllers and the acceptance still owe.
Follows(p) ==
  /\ ShareScreen(p) \/ EndSession(p) \/ PartnerLeft(p)
  /\ UNCHANGED <<session, offers, network, faults>>

UserEnds(p) ==
  /\ phone[p].product # 0 /\ phone[p].ending = Idle
  /\ phone' = [phone EXCEPT ![p] = End(@, @.product)]

\* The control session is given up.
SessionLost(p) ==
  /\ phone[p].product # 0
  /\ phone' = [phone EXCEPT ![p] = Leave(@)]

\* Android takes the capture back.
Revoked(f) ==
  [Enqueue(f, Op("ended", f.media.capture)) EXCEPT !.screens = f.screens \ {f.media.capture}]

Revoke(p) ==
  /\ phone[p].media.capture \in phone[p].screens
  /\ phone' = [phone EXCEPT ![p] = Revoked(@)]

\* The messages on their way are gone; the operations queued for them do nothing.
Emptied(queue) ==
  [i \in DOMAIN queue |-> IF queue[i].op = "signal" THEN Op("lost", 0) ELSE queue[i]]

\* The control connection breaks: it is found again, but what was on its way may
\* have gone with it.
LinkBreaks ==
  /\ link = "up" /\ link' = "down"
  /\ \/ UNCHANGED <<phone, torn>>
     \/ /\ torn' = TRUE
        /\ \E p \in Phone :
             phone' = [phone EXCEPT ![p].queue = Emptied(@)]

\* Bound: an outage of the path is followed in the first session, to its end.
PathBreaks == session = 1 /\ path = "good" /\ path' = "bad"

Fault ==
  /\ faults < MaxFaults /\ faults' = faults + 1
  /\ \/ /\ \E p \in Phone : UserEnds(p) \/ SessionLost(p) \/ Revoke(p) \/ GrantHasNoTrack(p)
        /\ UNCHANGED network
     \/ LinkBreaks /\ UNCHANGED path
     \/ PathBreaks /\ UNCHANGED <<phone, link, torn>>
  /\ UNCHANGED <<session, offers>>

LinkMends ==
  /\ link = "down" /\ link' = "up"
  /\ UNCHANGED <<phone, session, offers, path, torn, faults>>

PathMends ==
  /\ path = "bad" /\ path' = "mended"
  /\ UNCHANGED <<phone, session, offers, link, torn, faults>>

\* What the operation at the head of a phone's queue does next.
Works(p) == Handle(p) \/ Send(p) \/ ConsentTimesOut(p)

Next ==
  \/ \E p \in Phone :
       \/ Works(p) \/ UserGrants(p) \/ UserRefuses(p)
       \/ Transport(p) \/ TimerFires(p) \/ FirstFrame(p)
       \/ Accepted(p) \/ Follows(p)
  \/ Accept \/ Fault \/ LinkMends \/ PathMends

Spec == Init /\ [][Next]_vars

\* JavaScript runs its queue and its timers, the native calls return, ICE
\* reports, and a control session that is not given up finds its connection.
FairSpec ==
  /\ Spec
  /\ WF_vars(LinkMends)
  /\ \A p \in Phone :
       /\ WF_vars(Works(p)) /\ WF_vars(Transport(p)) /\ WF_vars(TimerFires(p))
       /\ WF_vars(Follows(p)) /\ WF_vars(FirstFrame(p))
=============================================================================
