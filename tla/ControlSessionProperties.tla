---------------------- MODULE ControlSessionProperties ----------------------
(***************************************************************************)
(* What the control channel must guarantee to the phones that use it.      *)
(***************************************************************************)
EXTENDS ControlSession

\* Every variable stays in its domain; the attempt never leaves the table of
\* delays (ControlSession.scheduleInitiatorReconnect).
TypeOK ==
  /\ ctl \in [Phone -> Control]
  /\ \A p \in Phone : ctl[p].reconnectAttempt <= MaxTries
  /\ opening \in [Phone -> [Caller -> Opening]]
  /\ told \in [Phone -> 0..MaxSession]
  /\ native \in [Phone -> 0..MaxConn]
  /\ knocks \in [Phone -> SUBSET Conn]
  /\ DOMAIN inbox = Phone /\ \A p \in Phone : DOMAIN inbox[p] = Conn
  /\ lastConn \in 0..MaxConn /\ opener \in Seq(Phone) /\ lastSession <= MaxSession

Keyed(p) == ctl[p].active.keyed

\* The frame that p handles next on its active connection, if any.
Upcoming(p) ==
  LET c == ctl[p].active.connectionId
  IN IF c = 0 \/ c \in knocks[p] \/ inbox[p][c] = <<>> THEN {}
     ELSE {f \in {Head(inbox[p][c])} : f.kind \in {"hello1", "hello2", "sealed"}}

\* Whatever breaks, reconnects or restarts, a phone never refuses a frame of
\* its honest partner: handshakes come when they are expected and sealed
\* messages in sequence.  The exception is the hello1 of a new session while
\* the old one may still be resumed (ControlSession.handleFrame).
HonestFramesAccepted ==
  \A p \in Phone : \A f \in Upcoming(p) :
    \/ ~ctl[p].context
    \/ Keyed(p) /\ Validates(ctl[p], f)
    \/ ~Keyed(p) /\ Handshakes(ctl[p], f)
    \/ f.kind = "hello1" /\ ctl[p].resumeSessionId \notin {0, f.sessionId}

\* An initiator that authenticated on a connection and the phone at its other
\* end hold the same session in opposite roles (acceptHello1, acceptHello2).
EndsAgree ==
  \A p, q \in Phone :
    LET a == ctl[p].active  b == ctl[q].active IN
    p # q /\ a.keyed /\ a.role = "initiator" /\ b.connectionId = a.connectionId
      => b.keyed /\ b.role = "responder" /\ b.sessionId = a.sessionId

\* Subscribers are told when a session ends: the one they believe alive is the
\* one the phone holds or resumes (ControlSession.emit and every place that
\* drops the active connection).  Two users asking at the same time break it:
\* connect() dials outside the queue and replaces what came in meanwhile.
NoSilentLoss ==
  \A p \in Phone :
    told[p] # 0 => \/ Keyed(p) /\ ctl[p].active.sessionId = told[p]
                   \/ ctl[p].resumeSessionId = told[p]

-----------------------------------------------------------------------------
\* The end of the channel that each phone's controller sees, and the messages
\* on their way to it.
EndOf(p) ==
  [context |-> ctl[p].context, call |-> opening[p]["connect"].sessionId,
   session |-> IF Keyed(p) THEN ctl[p].active.sessionId ELSE 0,
   resume |-> ctl[p].resumeSessionId, told |-> told[p]]

MailOf(p) ==
  LET c == ctl[p].active.connectionId
      sealed == IF c = 0 THEN <<>> ELSE SelectSeq(inbox[p][c], LAMBDA f : f.kind = "sealed")
  IN [i \in DOMAIN sealed |-> [sessionId |-> sealed[i].sessionId, body |-> sealed[i].body]]

HellosOf(p, s) ==
  Cardinality({c \in Conn : \E i \in DOMAIN inbox[p][c] : inbox[p][c][i] = Hello1(s)})

Channel == INSTANCE ControlChannel WITH
  chan <- [p \in Phone |-> EndOf(p)], mail <- [p \in Phone |-> MailOf(p)],
  hello <- [p \in Phone |-> [s \in Session |-> HellosOf(p, s)]], MaxHello <- MaxConn

\* ControlSession implements ControlChannel: whatever connections, handshakes
\* and timers do, the controller only sees the steps of a channel.  A session
\* that comes back is the one that was interrupted (acceptHello1,
\* scheduleInitiatorReconnect), and nothing is delivered twice or in disorder.
ImplementsChannel == Channel!ChannelSpec

-----------------------------------------------------------------------------
\* The event loop of each phone runs, its timers fire and its native threads
\* make progress; nothing is assumed of users, breaks and crashes.
Fairness ==
  \A p \in Phone :
    WF_vars(OpeningStep(p) \/ QueueStep(p) \/ TimerStep(p) \/ NativeStep(p))

FairSpec == Spec /\ Fairness

\* connect() returns or throws; SessionController's queue waits for it.
ConnectReturns ==
  \A p \in Phone :
    opening[p]["connect"].step # "none" ~> opening[p]["connect"].step = "none"

\* A phone does not look for an interrupted session for ever: it comes back or
\* the subscribers are told that it ended (failReconnect).
ResumeEnds ==
  \A p \in Phone : ctl[p].resumeSessionId # 0 ~> ctl[p].resumeSessionId = 0

\* The native module's only slot is not lost to a connection that nobody
\* uses: no phone could dial or be reached again (connectionLock).
SlotUsed(p) == native[p] = 0 \/ native[p] = ctl[p].active.connectionId
SlotFreed == \A p \in Phone : ~SlotUsed(p) ~> SlotUsed(p)
=============================================================================
