----------------------- MODULE MediaSessionProperties -----------------------
(***************************************************************************)
(* What the media sessions of the two phones promise while sessions follow *)
(* each other, users and Android answer late, and both networks break.     *)
(***************************************************************************)
EXTENDS MediaSession

Known == 0..MaxSession
Numbered == 0..offers

Medium ==
  [state : {"idle", "awaiting_permission", "connecting", "live", "recovering", "error"},
   of : Known, owner : Known, capture : Known, attempt : 0..MaxRestarts,
   peer : [transport : {"none", "pending", "connected", "disconnected", "failed"},
           offered : BOOLEAN, local : Numbered, remote : Numbered, added : BOOLEAN,
           waiting : BOOLEAN, gathered : BOOLEAN, polled : BOOLEAN],
   restart : [kind : {"none", "attempt", "retry"}, session : Known, attempt : 0..MaxRestarts],
   grace : BOOLEAN, frame : BOOLEAN]

\* The types of the two phones and of the network.
TypeOK ==
  /\ \A p \in Phone :
       /\ phone[p].media \in Medium
       /\ phone[p].product \in Known /\ phone[p].entered \in Known /\ phone[p].started \in Known
       /\ phone[p].running \in [step : {"idle", "consent", "first", "offer", "answer", "ask"},
                                session : Known, attempt : 0..MaxRestarts]
       /\ phone[p].ending \in [step : {"idle", "stop", "leave"}, session : Known, attempt : {0}]
       /\ phone[p].dialogs \subseteq 1..MaxSession /\ phone[p].screens \subseteq 1..MaxSession
  /\ session \in Known /\ faults \in 0..MaxFaults
  /\ path \in {"good", "bad", "mended"} /\ link \in {"up", "down"} /\ torn \in BOOLEAN

\* Android captures the screen only for the stream that the media session holds,
\* and it holds one only with its peer and for the session it serves.  A consent
\* dialog outlives the time-out of the code and even its session: a stream that
\* nobody installed would go on capturing with nothing on the screen to stop it.
CaptureIsOwned ==
  /\ TypeOK
  /\ \A p \in Phone :
       LET m == phone[p].media
       IN /\ phone[p].screens \subseteq {m.capture}
          /\ m.capture # 0 => m.owner = m.capture /\ m.peer # NoPeer

\* A phone without a session whose media queue is empty is back at the start: no
\* stream, no peer, no timer, no attempt of the old session.  The session ends
\* behind the back of whatever operation, timer or dialog is under way.
SettledIsQuiet ==
  \A p \in Phone :
    phone[p].product = 0 /\ phone[p].queue = <<>> /\ phone[p].running = Idle
      => phone[p].media = Quiet

\* A capture starts only while the phone shares in the session the user was
\* asked for, however long Android's dialog stood and whatever ended meanwhile.
CaptureStartsInSession ==
  [][\A p \in Phone :
       phone'[p].media.capture \notin {0, phone[p].media.capture}
         => phone'[p].product = phone'[p].media.capture]_vars

\* A lost video connection does not stay lost: it connects again or the session
\* fails, though restarts collide, time out, or cannot be sent for a while.  The
\* one exception is a message that the control connection took with it.
RecoveryEnds ==
  \A p \in Phone :
    LET transport == phone[p].media.peer.transport
        troubled == transport = "failed" \/ phone[p].media.state = "recovering"
    IN troubled ~> (~troubled \/ transport = "connected" \/ torn)

\* Without a disturbance a granted capture becomes a video on both phones, in
\* whichever order acceptance, offer, answer, candidates and frames come.
VideoComes ==
  session > 0 /\ phone[Sharer(session)].media.capture = session ~>
    faults > 0 \/ \A p \in Phone : phone[p].media.state = "live" /\ phone[p].media.of = session
=============================================================================
