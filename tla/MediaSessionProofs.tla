------------------------- MODULE MediaSessionProofs -------------------------
(***************************************************************************)
(* The capture of a media session is owned: the proofs of CaptureIsOwned,  *)
(* SettledIsQuiet and CaptureStartsInSession for every pair of phones,     *)
(* every number of sessions, restarts and disturbances.  The invariant     *)
(* follows one phone: what its media session holds, what its queue is      *)
(* still going to do about a session that is over, and that a stream of an *)
(* old session is stopped before a message of the next one is handled.     *)
(***************************************************************************)
EXTENDS MediaSessionProperties, TLAPS

Sessions == 1..MaxSession
Attempts == 0..MaxRestarts

-----------------------------------------------------------------------------
(* Types, with offers of any number. *)

Peers ==
  [transport : {"none", "pending", "connected", "disconnected", "failed"},
   offered : BOOLEAN, local : Nat, remote : Nat, added : BOOLEAN,
   waiting : BOOLEAN, gathered : BOOLEAN, polled : BOOLEAN]

States == {"idle", "awaiting_permission", "connecting", "live", "recovering", "error"}

Timers ==
  [kind : {"attempt", "retry"}, session : Sessions, attempt : 1..MaxRestarts] \cup {NoTimer}

Media ==
  [state : States, of : Known, owner : Known, capture : Known, peer : Peers,
   attempt : Attempts, restart : Timers, grace : BOOLEAN, frame : BOOLEAN]

Messages ==
  [session : Sessions, kind : {"candidate", "offer", "answer", "restart"}, offer : Nat]

\* The operations of the queue: those of the phone itself, and a message.
Calls ==
  [op : {"sync", "start", "stop", "lost"}, session : Known]
    \cup [op : {"ended", "grace", "recover"}, session : Sessions]
    \cup [op : {"restart"}, session : Sessions, attempt : 1..MaxRestarts]
Signals == [op : {"signal"}, message : Messages]
Operations == Calls \cup Signals

Steps == {"consent", "first", "offer", "answer", "ask"}
Pauses == [step : Steps, session : Sessions, attempt : Attempts] \cup {Idle}

Phones ==
  [product : Known, media : Media, queue : Seq(Operations), running : Pauses,
   dialogs : SUBSET Sessions, screens : SUBSET Sessions,
   ending : [step : {"idle", "stop", "leave"}, session : Known, attempt : {0}],
   entered : Known, started : Known]

-----------------------------------------------------------------------------
(* The invariant of one phone. *)

\* A queue that still hears that the session changed.
Pends(q) == \E i \in DOMAIN q : q[i].op = "sync"

\* It hears of it before it handles any message of session s.
Ahead(q, s) ==
  \E j \in DOMAIN q :
    /\ q[j].op = "sync"
    /\ \A i \in DOMAIN q : q[i].op = "signal" /\ q[i].message.session = s => j < i

\* The messages in a queue belong to sessions the phone p entered, up to e, and
\* to offers up to n; an offer comes from the phone that shares.
Carried(q, p, e, n) ==
  \A i \in DOMAIN q : q[i].op = "signal" =>
    /\ q[i].message.session <= e /\ q[i].message.offer <= n
    /\ q[i].message.kind = "offer" => Sharer(q[i].message.session) # p

\* What a media session holds belongs together, and one that holds nothing is
\* as new.
Held(m, p, n) ==
  /\ m.capture # 0 => m.owner = m.capture /\ m.peer # NoPeer /\ Sharer(m.capture) = p
  /\ m.peer # NoPeer => m.owner # 0
  /\ m.grace => m.owner # 0
  /\ m.owner # 0 \/ m.state # "idle" \/ m.peer # NoPeer \/ m = Quiet
  /\ m.peer.local <= n /\ m.peer.remote <= n

\* The running operation of a phone is one of its role.  While Android asks there
\* is no stream, and a session that ends meanwhile is heard of; a description that
\* is still to be sent is that of a peer.
Runs(f, p) ==
  /\ f.running.step \in {"first", "offer", "answer"} => f.media.peer # NoPeer
  /\ f.running.step \in {"consent", "first", "offer"} => Sharer(f.running.session) = p
  /\ f.running.step = "consent" =>
       f.media.capture = 0 /\ (f.product = f.running.session \/ Pends(f.queue))

\* The phone is in the session accepted last or in none; what is left of another
\* one is going to be stopped, before anything of the new one is handled.
Follow(f, top) ==
  /\ f.product \in {0, top} /\ f.product <= f.entered /\ f.entered <= top
  /\ f.product = 0 => f.media = Quiet \/ Pends(f.queue)
  /\ f.product # 0 /\ f.media.capture \notin {0, f.product} => Ahead(f.queue, f.product)

Sound(f, p, top, n) ==
  /\ f \in Phones
  /\ Held(f.media, p, n) /\ f.screens \subseteq {f.media.capture}
  /\ Carried(f.queue, p, f.entered, n)
  /\ Runs(f, p) /\ Follow(f, top)

Network ==
  /\ session \in Known /\ offers \in Nat /\ faults \in 0..MaxFaults
  /\ path \in {"good", "bad", "mended"} /\ link \in {"up", "down"} /\ torn \in BOOLEAN

IInv ==
  /\ Network
  /\ phone \in [Phone -> Phones]
  /\ \A p \in Phone : Sound(phone[p], p, session, offers)

\* A step from phone f to phone g starts no capture.
Sheds(f, g) == g.media.capture \in {0, f.media.capture}

\* They differ in what the queue and the session are, or in the media, only.
Rest(f, g) ==
  /\ g.running = f.running /\ g.dialogs = f.dialogs /\ g.screens = f.screens
  /\ g.ending = f.ending /\ g.entered = f.entered /\ g.started = f.started

-----------------------------------------------------------------------------
(* The two phones, and the values a media session starts from. *)

\* The partner of a phone is another phone.
LEMMA TwoPhones ==
  ASSUME NEW p \in Phone
  PROVE  Other(p) \in Phone \ {p}
<1>1. \E q \in Phone : q # p
  BY MediaAssumption
<1> QED
  BY <1>1 DEF Other

LEMMA Bounds == MaxSession \in Nat /\ MaxRestarts \in Nat \ {0} /\ MaxFaults \in Nat
  BY MediaAssumption

\* The values of a new media session have the types.
LEMMA NewTypes ==
  /\ NewPeer \in Peers /\ NoPeer \in Peers /\ NewPeer # NoPeer
  /\ Quiet \in Media /\ Idle \in Pauses /\ NoTimer \in Timers
  /\ Quiet.capture = 0 /\ Quiet.peer = NoPeer /\ Quiet.owner = 0 /\ ~Quiet.grace
  /\ Quiet.peer.local = 0 /\ Quiet.peer.remote = 0
<1>1. NewPeer \in Peers
  BY DEF NewPeer, Peers
<1>2. NoPeer \in Peers /\ NoPeer.transport = "none" /\ NewPeer.transport = "pending"
      /\ NoPeer.local = 0 /\ NoPeer.remote = 0
  BY <1>1 DEF NoPeer, NewPeer, Peers
<1>3. NoTimer \in Timers /\ Idle \in Pauses
  BY DEF Timers, Pauses
<1>4. Quiet \in Media
  BY <1>2, <1>3, Bounds DEF Quiet, Media, States, Known, Attempts
<1> QED
  BY <1>1, <1>2, <1>3, <1>4 DEF Quiet
-----------------------------------------------------------------------------
(* Queues. *)

\* What is queued behind a queue leaves what it carries and awaits in place.
LEMMA AppendKeeps ==
  ASSUME NEW q \in Seq(Operations), NEW o \in Calls, NEW p, NEW e \in Nat, NEW n \in Nat
  PROVE  /\ Append(q, o) \in Seq(Operations)
         /\ Carried(q, p, e, n) => Carried(Append(q, o), p, e, n)
         /\ Pends(q) \/ o.op = "sync" => Pends(Append(q, o))
         /\ \A s \in Sessions : Ahead(q, s) => Ahead(Append(q, o), s)
<1> DEFINE r == Append(q, o)
<1>1. /\ r \in Seq(Operations) /\ DOMAIN q = 1..Len(q) /\ Len(q) \in Nat
      /\ DOMAIN r = 1..(Len(q) + 1) /\ r[Len(q) + 1] = o
      /\ \A i \in DOMAIN q : r[i] = q[i] /\ i \in DOMAIN r
  BY DEF Operations
<1>2. o.op # "signal"
  BY DEF Calls
<1>3. \A i \in DOMAIN r : i \in DOMAIN q \/ i = Len(q) + 1
  BY <1>1
<1> HIDE DEF r
<1>4. Carried(q, p, e, n) => Carried(r, p, e, n)
  BY <1>1, <1>2, <1>3 DEF Carried
<1>5. Pends(q) \/ o.op = "sync" => Pends(r)
  BY <1>1, Len(q) + 1 \in 1..(Len(q) + 1) DEF Pends
<1>6. ASSUME NEW s \in Sessions, Ahead(q, s) PROVE Ahead(r, s)
  <2>1. PICK j \in DOMAIN q :
          /\ q[j].op = "sync"
          /\ \A i \in DOMAIN q : q[i].op = "signal" /\ q[i].message.session = s => j < i
    BY <1>6 DEF Ahead
  <2>2. \A i \in DOMAIN r : r[i].op = "signal" /\ r[i].message.session = s => j < i
    BY <2>1, <1>1, <1>2, <1>3
  <2> QED
    BY <2>1, <2>2, <1>1 DEF Ahead
<1> QED
  BY <1>1, <1>4, <1>5, <1>6 DEF r

\* The operation that hears of a session comes before every message of it.
LEMMA SyncIsAhead ==
  ASSUME NEW q \in Seq(Operations), NEW p, NEW e \in Nat, NEW n \in Nat,
         Carried(q, p, e, n), NEW s \in Nat, e < s
  PROVE  Ahead(Append(q, Op("sync", 0)), s)
<1> DEFINE o == Op("sync", 0)
           r == Append(q, o)
<1>1. /\ DOMAIN q = 1..Len(q) /\ Len(q) \in Nat
      /\ DOMAIN r = 1..(Len(q) + 1) /\ r[Len(q) + 1] = o
      /\ \A i \in DOMAIN q : r[i] = q[i]
  BY DEF Operations, Op
<1>2. o.op = "sync"
  BY DEF Op
<1>3. \A i \in DOMAIN q : q[i].op = "signal" => q[i].message.session \in Nat
  BY Bounds DEF Operations, Signals, Calls, Messages, Sessions
<1>4. ASSUME NEW i \in DOMAIN r, r[i].op = "signal" PROVE r[i].message.session # s
  <2>1. i \in DOMAIN q
    BY <1>1, <1>2, <1>4
  <2> QED
    BY <2>1, <1>1, <1>3, <1>4 DEF Carried
<1> HIDE DEF o
<1>5. Len(q) + 1 \in DOMAIN r /\ r[Len(q) + 1].op = "sync"
  BY <1>1, <1>2
<1> HIDE DEF r
<1>6. Ahead(r, s)
  BY <1>4, <1>5 DEF Ahead
<1> QED
  BY <1>6 DEF r, o

\* A queue whose head is done, if the head does not hear of a session.
LEMMA TailKeeps ==
  ASSUME NEW q \in Seq(Operations), q # <<>>, NEW p, NEW e \in Nat, NEW n \in Nat
  PROVE  /\ Tail(q) \in Seq(Operations) /\ Head(q) \in Operations /\ Head(q) = q[1]
         /\ 1 \in DOMAIN q
         /\ Carried(q, p, e, n) => Carried(Tail(q), p, e, n)
         /\ Head(q).op # "sync" /\ Pends(q) => Pends(Tail(q))
         /\ Head(q).op # "sync" => \A s \in Sessions : Ahead(q, s) => Ahead(Tail(q), s)
<1> DEFINE r == Tail(q)
<1>1. /\ r \in Seq(Operations) /\ Len(q) \in Nat /\ DOMAIN q = 1..Len(q)
      /\ 1 \in DOMAIN q /\ Head(q) = q[1] /\ Head(q) \in Operations
      /\ DOMAIN r = 1..(Len(q) - 1)
      /\ \A i \in DOMAIN r : r[i] = q[i + 1] /\ i + 1 \in DOMAIN q
  OBVIOUS
<1>2. \A i \in DOMAIN q : i # 1 => i - 1 \in DOMAIN r /\ r[i - 1] = q[i]
  BY <1>1
<1>3. DOMAIN r \subseteq Nat /\ DOMAIN q \subseteq Nat
  BY <1>1
<1> HIDE DEF r
<1>4. Carried(q, p, e, n) => Carried(r, p, e, n)
  BY <1>1 DEF Carried
<1>5. Head(q).op # "sync" /\ Pends(q) => Pends(r)
  BY <1>1, <1>2 DEF Pends
<1>6. ASSUME Head(q).op # "sync", NEW s \in Sessions, Ahead(q, s) PROVE Ahead(r, s)
  <2>1. PICK j \in DOMAIN q :
          /\ q[j].op = "sync"
          /\ \A i \in DOMAIN q : q[i].op = "signal" /\ q[i].message.session = s => j < i
    BY <1>6 DEF Ahead
  <2>2. j - 1 \in DOMAIN r /\ r[j - 1].op = "sync"
    BY <2>1, <1>1, <1>2, <1>6
  <2>3. ASSUME NEW i \in DOMAIN r, r[i].op = "signal", r[i].message.session = s
        PROVE  j - 1 < i
    <3>1. j < i + 1
      BY <2>1, <2>3, <1>1
    <3> QED
      BY <3>1, <1>3
  <2> QED
    BY <2>2, <2>3 DEF Ahead
<1> QED
  BY <1>1, <1>4, <1>5, <1>6 DEF r

\* Messages that arrive come behind everything in the queue.
LEMMA ReceiveKeeps ==
  ASSUME NEW q \in Seq(Operations), NEW b \in Seq(Messages), NEW p, NEW e \in Nat, NEW n \in Nat
  PROVE  LET r == q \o [i \in DOMAIN b |-> [op |-> "signal", message |-> b[i]]]
         IN /\ r \in Seq(Operations)
            /\ Pends(q) => Pends(r)
            /\ \A s \in Sessions : Ahead(q, s) => Ahead(r, s)
            /\ Carried(q, p, e, n)
               /\ (\A i \in DOMAIN b : /\ b[i].session <= e /\ b[i].offer <= n
                                       /\ b[i].kind = "offer" => Sharer(b[i].session) # p)
               => Carried(r, p, e, n)
<1> DEFINE a == [i \in DOMAIN b |-> [op |-> "signal", message |-> b[i]]]
           r == q \o a
<1>1. /\ DOMAIN b = 1..Len(b) /\ Len(b) \in Nat
      /\ \A i \in DOMAIN b : b[i] \in Messages
  OBVIOUS
<1>2. \A i \in DOMAIN b : [op |-> "signal", message |-> b[i]] \in Operations
  BY <1>1 DEF Operations, Signals
<1>3. a \in Seq(Operations) /\ Len(a) = Len(b)
  BY <1>1, <1>2
<1>4. \A i \in DOMAIN b : a[i].op = "signal" /\ a[i].message = b[i]
  OBVIOUS
<1> HIDE DEF a
<1>5. /\ r \in Seq(Operations) /\ Len(q) \in Nat /\ DOMAIN q = 1..Len(q)
      /\ DOMAIN r = 1..(Len(q) + Len(b))
      /\ \A i \in DOMAIN q : i \in DOMAIN r /\ r[i] = q[i]
      /\ \A i \in DOMAIN r : i \notin DOMAIN q => i - Len(q) \in DOMAIN b /\ r[i] = a[i - Len(q)]
  BY <1>1, <1>3
<1>6. \A i \in DOMAIN r : \/ i \in DOMAIN q /\ r[i] = q[i]
                          \/ /\ \A j \in DOMAIN q : j < i
                             /\ \E k \in DOMAIN b : r[i].op = "signal" /\ r[i].message = b[k]
  BY <1>4, <1>5
<1> HIDE DEF r
<1>7. Pends(q) => Pends(r)
  BY <1>5 DEF Pends
<1>8. ASSUME NEW s \in Sessions, Ahead(q, s) PROVE Ahead(r, s)
  BY <1>5, <1>6, <1>8 DEF Ahead
<1>9. ASSUME Carried(q, p, e, n),
             \A i \in DOMAIN b : /\ b[i].session <= e /\ b[i].offer <= n
                                 /\ b[i].kind = "offer" => Sharer(b[i].session) # p
      PROVE  Carried(r, p, e, n)
  BY <1>6, <1>9 DEF Carried
<1> QED
  BY <1>5, <1>7, <1>8, <1>9 DEF r, a

\* A break of the control connection takes messages and nothing else.
LEMMA EmptiedKeeps ==
  ASSUME NEW q \in Seq(Operations), NEW p, NEW e \in Nat, NEW n \in Nat
  PROVE  /\ Emptied(q) \in Seq(Operations)
         /\ Carried(Emptied(q), p, e, n)
         /\ Pends(q) => Pends(Emptied(q))
         /\ \A s \in Sessions : Ahead(q, s) => Ahead(Emptied(q), s)
<1> DEFINE r == Emptied(q)
<1>1. DOMAIN q = 1..Len(q) /\ Len(q) \in Nat /\ \A i \in DOMAIN q : q[i] \in Operations
  OBVIOUS
<1>2. Op("lost", 0) \in Operations /\ Op("lost", 0).op = "lost"
  BY Bounds DEF Op, Operations, Calls, Known
<1>3. /\ DOMAIN r = DOMAIN q
      /\ \A i \in DOMAIN q : r[i] = IF q[i].op = "signal" THEN Op("lost", 0) ELSE q[i]
  BY DEF Emptied
<1>4. r \in Seq(Operations)
  BY <1>1, <1>2 DEF Emptied
<1>5. \A i \in DOMAIN q : r[i].op # "signal" /\ (q[i].op = "sync" => r[i].op = "sync")
  BY <1>2, <1>3
<1> HIDE DEF r
<1> QED
  <2>1. Carried(r, p, e, n)
    BY <1>3, <1>5 DEF Carried
  <2>2. Pends(q) => Pends(r)
    BY <1>3, <1>5 DEF Pends
  <2>3. \A s \in Sessions : Ahead(q, s) => Ahead(r, s)
    BY <1>3, <1>5 DEF Ahead
  <2> QED
    BY <1>4, <2>1, <2>2, <2>3 DEF r
-----------------------------------------------------------------------------
(* Parts of a phone that change. *)

\* The media of a phone change and keep the stream: the phone stays sound unless
\* it has no session and nothing tells it to stop them.
LEMMA MediaChange ==
  ASSUME NEW p \in Phone, NEW top \in Known, NEW n \in Nat, NEW f, Sound(f, p, top, n),
         NEW m \in Media, Held(m, p, n), m.capture = f.media.capture,
         f.media.peer # NoPeer => m.peer # NoPeer,
         f.product # 0 \/ f.media # Quiet \/ Pends(f.queue) \/ m = f.media
  PROVE  Sound([f EXCEPT !.media = m], p, top, n)
<1> DEFINE g == [f EXCEPT !.media = m]
<1>1. /\ g \in Phones /\ g.media = m /\ g.product = f.product /\ g.queue = f.queue
      /\ g.running = f.running /\ g.screens = f.screens /\ g.entered = f.entered
  BY DEF Sound, Phones
<1> HIDE DEF g
<1>2. Runs(g, p)
  BY <1>1 DEF Sound, Runs
<1>3. Follow(g, top)
  BY <1>1 DEF Sound, Follow
<1> QED
  BY <1>1, <1>2, <1>3 DEF Sound, g

\* resetMedia leaves a sound phone with nothing.
LEMMA ResetSound ==
  ASSUME NEW p \in Phone, NEW top \in Known, NEW n \in Nat, NEW f, Sound(f, p, top, n),
         f.running = Idle
  PROVE  /\ Sound(ResetMedia(f), p, top, n) /\ Sheds(f, ResetMedia(f))
         /\ ResetMedia(f).media = Quiet /\ ResetMedia(f).screens = {}
         /\ ResetMedia(f).product = f.product /\ ResetMedia(f).queue = f.queue
         /\ ResetMedia(f).running = f.running
<1> DEFINE g == ResetMedia(f)
<1>1. /\ g \in Phones /\ g.media = Quiet /\ g.product = f.product /\ g.queue = f.queue
      /\ g.running = f.running /\ g.screens = f.screens \ {f.media.capture}
      /\ g.entered = f.entered /\ g.ending = f.ending /\ g.dialogs = f.dialogs
  BY NewTypes DEF Sound, Phones, ResetMedia
<1> HIDE DEF g
<1>2. g.screens = {}
  BY <1>1 DEF Sound
<1>3. Held(g.media, p, n)
  BY <1>1, NewTypes DEF Held
<1>4. Runs(g, p)
  BY <1>1, NewTypes DEF Runs, Idle, Waits
<1>5. Follow(g, top)
  BY <1>1, NewTypes DEF Sound, Follow
<1> QED
  BY <1>1, <1>2, <1>3, <1>4, <1>5, NewTypes DEF Sound, g, Sheds

\* An operation of its own is queued.
LEMMA EnqueueSound ==
  ASSUME NEW p \in Phone, NEW top \in Known, NEW n \in Nat, NEW f, Sound(f, p, top, n),
         NEW o \in Calls
  PROVE  /\ Sound(Enqueue(f, o), p, top, n)
         /\ o.op = "sync" => Pends(Enqueue(f, o).queue)
         /\ Rest(f, Enqueue(f, o)) /\ Enqueue(f, o).media = f.media
         /\ Enqueue(f, o).product = f.product
<1> DEFINE g == Enqueue(f, o)
<1>1. f.queue \in Seq(Operations) /\ f.product \in Known /\ f.entered \in Known
  BY DEF Sound, Phones
<1>2. f.entered \in Nat /\ (f.product # 0 => f.product \in Sessions)
  BY <1>1, Bounds DEF Known, Sessions
<1>3. /\ Append(f.queue, o) \in Seq(Operations)
      /\ Carried(Append(f.queue, o), p, f.entered, n)
      /\ Pends(f.queue) \/ o.op = "sync" => Pends(Append(f.queue, o))
      /\ \A s \in Sessions : Ahead(f.queue, s) => Ahead(Append(f.queue, o), s)
  BY <1>1, <1>2, AppendKeeps DEF Sound
<1>4. /\ g \in Phones /\ g.media = f.media /\ g.product = f.product
      /\ g.queue = Append(f.queue, o) /\ Rest(f, g)
      /\ g.running = f.running /\ g.screens = f.screens /\ g.entered = f.entered
  BY <1>3 DEF Sound, Phones, Enqueue, Rest
<1> HIDE DEF g
<1>5. Runs(g, p)
  BY <1>3, <1>4 DEF Sound, Runs
<1>6. Follow(g, top)
  BY <1>2, <1>3, <1>4 DEF Sound, Follow
<1> QED
  BY <1>3, <1>4, <1>5, <1>6 DEF Sound, g

\* The phone leaves its session, whichever it is; its queue hears of it.
LEMMA LeaveSound ==
  ASSUME NEW p \in Phone, NEW top \in Known, NEW n \in Nat, NEW f, Sound(f, p, top, n)
  PROVE  /\ Sound(Leave(f), p, top, n)
         /\ Pends(Leave(f).queue) /\ Leave(f).product = 0
         /\ Rest(f, Leave(f)) /\ Leave(f).media = f.media
<1> DEFINE g == Leave(f)
           o == Op("sync", 0)
<1>1. f.queue \in Seq(Operations) /\ f.product \in Known /\ f.entered \in Known
  BY DEF Sound, Phones
<1>2. f.entered \in Nat /\ 0 \in Known
  BY <1>1, Bounds DEF Known
<1>3. o \in Calls /\ o.op = "sync"
  BY <1>2 DEF Op, Calls
<1> HIDE DEF o
<1>4. /\ Append(f.queue, o) \in Seq(Operations)
      /\ Carried(Append(f.queue, o), p, f.entered, n)
      /\ Pends(Append(f.queue, o))
  BY <1>1, <1>2, <1>3, AppendKeeps DEF Sound
<1>5. /\ g \in Phones /\ g.media = f.media /\ g.product = 0
      /\ g.queue = Append(f.queue, o)
      /\ Rest(f, g)
      /\ g.running = f.running /\ g.screens = f.screens /\ g.entered = f.entered
  BY <1>2, <1>4 DEF Sound, Phones, Enqueue, Leave, o, Rest
<1> HIDE DEF g
<1>6. Runs(g, p)
  BY <1>4, <1>5 DEF Sound, Runs
<1>7. Follow(g, top)
  BY <1>2, <1>4, <1>5 DEF Sound, Follow
<1> QED
  BY <1>4, <1>5, <1>6, <1>7 DEF Sound, g

\* The phone enters a session it has not been in; what is left of an older one
\* is stopped before anything of the new one is handled.
LEMMA EnterSound ==
  ASSUME NEW p \in Phone, NEW top \in Known, NEW n \in Nat, NEW f, Sound(f, p, top, n),
         NEW s \in Sessions, top <= s, f.product = 0, f.entered < s
  PROVE  /\ Sound(Enter(f, s), p, s, n)
         /\ Enter(f, s).product = s /\ Enter(f, s).entered = s
         /\ Enter(f, s).media = f.media
<1> DEFINE g == Enter(f, s)
           o == Op("sync", 0)
<1>1. f.queue \in Seq(Operations) /\ f.entered \in Known /\ f.entered \in Nat /\ s \in Nat
      /\ s \in Known /\ s # 0 /\ 0 \in Known
  BY Bounds DEF Sound, Phones, Known, Sessions
<1>2. o \in Calls /\ o.op = "sync"
  BY <1>1 DEF Op, Calls
<1>3. Ahead(Append(f.queue, o), s)
  BY <1>1, SyncIsAhead DEF Sound
<1> HIDE DEF o
<1>4. /\ Append(f.queue, o) \in Seq(Operations)
      /\ Carried(Append(f.queue, o), p, f.entered, n)
      /\ Pends(Append(f.queue, o))
  BY <1>1, <1>2, AppendKeeps DEF Sound
<1>5. /\ g \in Phones /\ g.media = f.media /\ g.product = s
      /\ g.queue = Append(f.queue, o) /\ g.entered = s
      /\ g.running = f.running /\ g.screens = f.screens
  BY <1>1, <1>4 DEF Sound, Phones, Enqueue, Enter, o
<1> HIDE DEF g
<1>6. Runs(g, p)
  BY <1>4, <1>5 DEF Sound, Runs
<1>7. Follow(g, s)
  BY <1>1, <1>3, <1>5 DEF Sound, Follow
<1>8. Carried(g.queue, p, g.entered, n)
  <2>1. \A i \in DOMAIN g.queue : g.queue[i] \in Operations
    BY <1>4, <1>5
  <2>2. \A i \in DOMAIN g.queue : g.queue[i].op = "signal" => g.queue[i].message.session \in Nat
    BY <2>1, Bounds DEF Operations, Calls, Signals, Messages, Sessions
  <2> QED
    BY <1>1, <1>4, <1>5, <2>2 DEF Carried
<1> QED
  BY <1>5, <1>6, <1>7, <1>8 DEF Sound, g
-----------------------------------------------------------------------------
(* The handlers the operations are made of. *)

\* A state other than idle is shown.
LEMMA ShowSound ==
  ASSUME NEW p \in Phone, NEW top \in Known, NEW n \in Nat, NEW f, Sound(f, p, top, n),
         NEW state \in States, state # "idle", NEW s \in Known,
         f.product # 0 \/ f.media # Quiet \/ Pends(f.queue)
  PROVE  /\ Sound(Show(f, state, s), p, top, n)
         /\ Show(f, state, s).media.capture = f.media.capture
         /\ Show(f, state, s).media.owner = f.media.owner
         /\ Show(f, state, s).media.peer = f.media.peer
         /\ Show(f, state, s).media.state = state
         /\ Rest(f, Show(f, state, s)) /\ Show(f, state, s).product = f.product
         /\ Show(f, state, s).queue = f.queue
<1> DEFINE m == [f.media EXCEPT !.state = state, !.of = s]
<1>1. f \in Phones /\ f.media \in Media /\ Held(f.media, p, n)
  BY DEF Sound, Phones
<1>2. /\ m \in Media /\ m.state = state /\ m.capture = f.media.capture /\ m.owner = f.media.owner
      /\ m.peer = f.media.peer /\ m.grace = f.media.grace
  BY <1>1 DEF Media
<1>3. Show(f, state, s) = [f EXCEPT !.media = m]
  BY <1>1 DEF Show, Phones, Media
<1> HIDE DEF m
<1>4. Held(m, p, n)
  BY <1>1, <1>2 DEF Held
<1>5. Sound([f EXCEPT !.media = m], p, top, n)
  BY <1>2, <1>4, MediaChange
<1>6. [f EXCEPT !.media = m].media = m /\ Rest(f, [f EXCEPT !.media = m])
      /\ [f EXCEPT !.media = m].product = f.product /\ [f EXCEPT !.media = m].queue = f.queue
  BY <1>1, <1>2 DEF Phones, Rest
<1> QED
  BY <1>2, <1>3, <1>5, <1>6 DEF m

\* The controller ends a session of the phone.
LEMMA EndProductSound ==
  ASSUME NEW p \in Phone, NEW top \in Known, NEW n \in Nat, NEW f, Sound(f, p, top, n), NEW s
  PROVE  /\ Sound(EndProduct(f, s), p, top, n)
         /\ Pends(f.queue) \/ f.product = s => Pends(EndProduct(f, s).queue)
         /\ EndProduct(f, s).product \in {0, f.product}
         /\ Rest(f, EndProduct(f, s)) /\ EndProduct(f, s).media = f.media
<1>1. CASE f.product = s
  BY <1>1, LeaveSound DEF EndProduct
<1>2. CASE f.product # s
  BY <1>2 DEF EndProduct, Rest
<1> QED
  BY <1>1, <1>2

\* useSession.endSession queues the stop.
LEMMA EndSound ==
  ASSUME NEW p \in Phone, NEW top \in Known, NEW n \in Nat, NEW f, Sound(f, p, top, n),
         NEW s \in Known
  PROVE  Sound(End(f, s), p, top, n) /\ End(f, s).media = f.media
         /\ End(f, s).running = f.running
<1> DEFINE o == Op("stop", 0)
           e == Enqueue(f, o)
           g == [e EXCEPT !.ending = Waits("stop", s, 0)]
<1>1. o \in Calls
  BY Bounds DEF Op, Calls, Known
<1> HIDE DEF o
<1>2. /\ Sound(e, p, top, n) /\ e.media = f.media /\ e.running = f.running
  BY <1>1, EnqueueSound DEF Rest
<1> HIDE DEF e
<1>3. /\ g \in Phones /\ g.media = e.media /\ g.product = e.product /\ g.queue = e.queue
      /\ g.running = e.running /\ g.screens = e.screens /\ g.entered = e.entered
  BY <1>2 DEF Sound, Phones, Waits
<1> HIDE DEF g
<1>4. Sound(g, p, top, n)
  BY <1>2, <1>3 DEF Sound, Runs, Follow
<1>5. End(f, s) = f \/ End(f, s) = g
  BY DEF End, g, e, o
<1> QED
  BY <1>2, <1>3, <1>4, <1>5

\* A failure of the session a phone serves stops everything.
LEMMA FailSound ==
  ASSUME NEW p \in Phone, NEW top \in Known, NEW n \in Nat, NEW f, Sound(f, p, top, n),
         NEW s \in Known, f.product # 0 \/ f.media # Quiet, f.running = Idle
  PROVE  /\ Sound(Fail(f, s), p, top, n) /\ Sheds(f, Fail(f, s))
         /\ Fail(f, s).media = Quiet /\ Fail(f, s).running = f.running
<1> DEFINE g == Show(f, "error", s)
           h == EndProduct(g, s)
<1>1. Sound(g, p, top, n) /\ g.media.capture = f.media.capture /\ g.running = f.running
  <2>1. "error" \in States
    BY DEF States
  <2>2. Sound(g, p, top, n)
    BY <2>1, ShowSound
  <2>3. g.media.capture = f.media.capture
    BY <2>1, ShowSound
  <2>4. g.running = f.running
    BY <2>1, ShowSound DEF Rest
  <2> QED
    BY <2>2, <2>3, <2>4
<1> HIDE DEF g
<1>2. Sound(h, p, top, n) /\ h.media = g.media /\ h.running = g.running
  BY <1>1, EndProductSound DEF Rest
<1> HIDE DEF h
<1>3. Sound(ResetMedia(h), p, top, n) /\ Sheds(h, ResetMedia(h)) /\ ResetMedia(h).media = Quiet
      /\ ResetMedia(h).running = h.running
  BY <1>1, <1>2, ResetSound
<1> QED
  BY <1>1, <1>2, <1>3 DEF Fail, g, h, Sheds

\* A consent that is refused ends the session if it still runs.
LEMMA DenySound ==
  ASSUME NEW p \in Phone, NEW top \in Known, NEW n \in Nat, NEW f, Sound(f, p, top, n),
         NEW s \in Sessions, f.product = s \/ Pends(f.queue)
  PROVE  Sound(DenyCapture(f, s), p, top, n) /\ Sheds(f, DenyCapture(f, s))
<1> DEFINE g == Show(f, "error", s)
<1>1. s \in Known /\ s # 0
  BY Bounds DEF Sessions, Known
<1>2. Sound(g, p, top, n) /\ g.media.capture = f.media.capture
  <2>1. "error" \in States
    BY DEF States
  <2>2. Sound(g, p, top, n)
    BY <1>1, <2>1, ShowSound
  <2>3. g.media.capture = f.media.capture
    BY <1>1, <2>1, ShowSound
  <2> QED
    BY <2>2, <2>3
<1> HIDE DEF g
<1>3. Sound(EndProduct(g, s), p, top, n) /\ EndProduct(g, s).media = g.media
  BY <1>2, EndProductSound DEF Rest
<1> QED
  BY <1>2, <1>3 DEF DenyCapture, g, Sheds
\* A phone stays sound while the other one creates offers.
LEMMA LaterOffers ==
  ASSUME NEW p \in Phone, NEW top \in Known, NEW n \in Nat, NEW k \in Nat, n <= k,
         NEW f, Sound(f, p, top, n)
  PROVE  Sound(f, p, top, k)
<1>1. f \in Phones /\ f.queue \in Seq(Operations) /\ f.media.peer \in Peers
  BY DEF Sound, Phones, Media
<1>2. f.media.peer.local \in Nat /\ f.media.peer.remote \in Nat
  BY <1>1 DEF Peers
<1>3. Held(f.media, p, k)
  BY <1>2 DEF Sound, Held
<1>4. Carried(f.queue, p, f.entered, k)
  <2>1. \A i \in DOMAIN f.queue : f.queue[i] \in Operations
    BY <1>1
  <2>2. \A i \in DOMAIN f.queue : f.queue[i].op = "signal" => f.queue[i].message.offer \in Nat
    BY <2>1 DEF Operations, Calls, Signals, Messages
  <2> QED
    BY <2>2 DEF Sound, Carried
<1> QED
  BY <1>1, <1>3, <1>4 DEF Sound

\* The operation that runs goes on to send a message.
LEMMA AwaitSound ==
  ASSUME NEW p \in Phone, NEW top \in Known, NEW n \in Nat, NEW f, Sound(f, p, top, n),
         NEW step \in Steps \ {"consent"}, NEW s \in Sessions, NEW a \in Attempts,
         step \in {"first", "offer"} => Sharer(s) = p,
         step \in {"first", "offer", "answer"} => f.media.peer # NoPeer
  PROVE  /\ Sound(Await(f, step, s, a), p, top, n)
         /\ Await(f, step, s, a).media = f.media /\ Await(f, step, s, a).product = f.product
         /\ Await(f, step, s, a).running.step = step
<1> DEFINE g == Await(f, step, s, a)
<1>1. /\ g \in Phones /\ g.media = f.media /\ g.product = f.product /\ g.queue = f.queue
      /\ g.running.step = step /\ g.running.session = s
      /\ g.screens = f.screens /\ g.entered = f.entered
  BY DEF Sound, Phones, Await, Waits, Pauses
<1> HIDE DEF g
<1>2. Runs(g, p)
  BY <1>1 DEF Runs
<1>3. Follow(g, top)
  BY <1>1 DEF Sound, Follow
<1> QED
  BY <1>1, <1>2, <1>3 DEF Sound, g

\* A message was sent, or could not be: the operation is over.
LEMMA DoneSound ==
  ASSUME NEW p \in Phone, NEW top \in Known, NEW n \in Nat, NEW f, Sound(f, p, top, n)
  PROVE  /\ Sound(Done(f), p, top, n)
         /\ Done(f).media = f.media
         /\ Done(f).product = f.product
         /\ Done(f).queue = f.queue
         /\ Done(f).running = Idle
         /\ Done(f).dialogs = f.dialogs
<1> DEFINE g == Done(f)
<1>1. /\ g \in Phones /\ g.media = f.media /\ g.product = f.product /\ g.queue = f.queue
      /\ g.running = Idle /\ g.screens = f.screens /\ g.entered = f.entered
      /\ g.dialogs = f.dialogs
  BY DEF Sound, Phones, Pauses, Done
<1> HIDE DEF g
<1>2. Runs(g, p)
  BY <1>1 DEF Runs, Idle, Waits
<1>3. Follow(g, top)
  BY <1>1 DEF Sound, Follow
<1> QED
  BY <1>1, <1>2, <1>3 DEF Sound, g

\* The next attempt is armed, or the session fails after the last one.
LEMMA ScheduleSound ==
  ASSUME NEW p \in Phone, NEW top \in Known, NEW n \in Nat, NEW f, Sound(f, p, top, n),
         NEW s \in Sessions, f.running = Idle
  PROVE  /\ Sound(ScheduleRecovery(f, s), p, top, n) /\ Sheds(f, ScheduleRecovery(f, s))
         /\ ScheduleRecovery(f, s).running = f.running
<1>1. s \in Known /\ s # 0 /\ f \in Phones /\ f.media \in Media /\ Held(f.media, p, n)
  BY Bounds DEF Sessions, Known, Sound, Phones
<1>2. CASE f.product # s \/ f.media.restart # NoTimer
  BY <1>2 DEF ScheduleRecovery, Sheds
<1>3. CASE /\ ~(f.product # s \/ f.media.restart # NoTimer)
           /\ f.media.attempt >= MaxRestarts
  BY <1>1, <1>3, FailSound DEF ScheduleRecovery
<1>4. CASE /\ ~(f.product # s \/ f.media.restart # NoTimer)
           /\ ~(f.media.attempt >= MaxRestarts)
  <2> DEFINE a == f.media.attempt + 1
             m == [f.media EXCEPT !.state = "recovering", !.of = s, !.attempt = a,
                                  !.restart = Timer("attempt", s, a)]
             g == [f EXCEPT !.media = m]
  <2>1. a \in Attempts /\ a \in 1..MaxRestarts
    BY <1>1, <1>4, Bounds DEF Media, Attempts
  <2> HIDE DEF a
  <2>2. Timer("attempt", s, a) \in Timers
    BY <2>1 DEF Timer, Timers
  <2>3. /\ m \in Media /\ m.state = "recovering" /\ m.capture = f.media.capture
        /\ m.owner = f.media.owner /\ m.peer = f.media.peer /\ m.grace = f.media.grace
    BY <1>1, <2>1, <2>2 DEF Media, States
  <2>4. ScheduleRecovery(f, s) = g
    BY <1>1, <1>4 DEF ScheduleRecovery, Show, Phones, Media, a
  <2> HIDE DEF m
  <2>5. Held(m, p, n)
    BY <1>1, <2>3 DEF Held
  <2>6. Sound(g, p, top, n)
    BY <1>1, <1>4, <2>3, <2>5, MediaChange
  <2>7. g.media = m /\ g.running = f.running
    BY <1>1 DEF Phones
  <2> QED
    BY <2>3, <2>4, <2>6, <2>7 DEF Sheds
<1> QED
  BY <1>2, <1>3, <1>4

\* An attempt that could not be sent is given back, and tried later.
LEMMA RetrySound ==
  ASSUME NEW p \in Phone, NEW top \in Known, NEW n \in Nat, NEW f, Sound(f, p, top, n),
         NEW s \in Sessions, NEW a \in 1..MaxRestarts
  PROVE  /\ Sound(RetryLater(f, s, a), p, top, n) /\ Sheds(f, RetryLater(f, s, a))
         /\ RetryLater(f, s, a).running = f.running
<1> DEFINE b == IF f.media.attempt = a THEN [f.media EXCEPT !.attempt = a - 1] ELSE f.media
           r == IF f.media.owner # s \/ f.media.restart # NoTimer THEN f.media.restart
                ELSE Timer("retry", s, a)
           m == [b EXCEPT !.restart = r]
           g == [f EXCEPT !.media = m]
<1>1. s \in Known /\ s # 0 /\ f \in Phones /\ f.media \in Media /\ Held(f.media, p, n)
  BY Bounds DEF Sessions, Known, Sound, Phones
<1>2. Timer("retry", s, a) \in Timers /\ a - 1 \in Attempts /\ a # 0
  BY Bounds DEF Timer, Timers, Attempts
<1>3. /\ b \in Media /\ b.capture = f.media.capture /\ b.owner = f.media.owner
      /\ b.peer = f.media.peer /\ b.grace = f.media.grace /\ b.state = f.media.state
      /\ b.restart = f.media.restart /\ (f.media.attempt # a => b = f.media)
  BY <1>1, <1>2 DEF Media
<1>4. RetryLater(f, s, a) = g
  BY <1>1 DEF RetryLater, Phones, Media
<1> HIDE DEF b
<1>5. r \in Timers
  BY <1>1, <1>2 DEF Media
<1> HIDE DEF r
<1>6. /\ m \in Media /\ m.capture = b.capture /\ m.owner = b.owner
      /\ m.peer = b.peer /\ m.grace = b.grace /\ m.state = b.state
      /\ (r = b.restart => m = b)
  BY <1>3, <1>5 DEF Media
<1> HIDE DEF m
<1>7. Quiet.attempt = 0 /\ Quiet.owner = 0
  BY DEF Quiet
<1>8. f.media = Quiet => m = f.media
  BY <1>1, <1>2, <1>3, <1>6, <1>7 DEF r
<1>9. Held(m, p, n)
  BY <1>1, <1>3, <1>6, <1>8 DEF Held
<1>10. Sound(g, p, top, n)
  BY <1>3, <1>6, <1>8, <1>9, MediaChange
<1>11. g.media = m /\ g.running = f.running
  BY <1>1 DEF Phones
<1> QED
  BY <1>3, <1>4, <1>6, <1>10, <1>11 DEF Sheds
-----------------------------------------------------------------------------
(* The handlers of the queue. *)

\* The peer of a media session is given a description, and keeps its owner.
LEMMA PeerChange ==
  ASSUME NEW p \in Phone, NEW top \in Known, NEW n \in Nat, NEW f, Sound(f, p, top, n),
         f.media.owner # 0, NEW peer \in Peers, peer # NoPeer, peer.local <= n, peer.remote <= n
  PROVE  /\ Sound([f EXCEPT !.media = [f.media EXCEPT !.peer = peer]], p, top, n)
         /\ Sheds(f, [f EXCEPT !.media = [f.media EXCEPT !.peer = peer]])
         /\ [f EXCEPT !.media = [f.media EXCEPT !.peer = peer]].running = f.running
<1> DEFINE m == [f.media EXCEPT !.peer = peer]
           g == [f EXCEPT !.media = m]
<1>1. f \in Phones /\ f.media \in Media /\ Held(f.media, p, n)
  BY DEF Sound, Phones
<1>2. /\ m \in Media /\ m.capture = f.media.capture /\ m.owner = f.media.owner
      /\ m.peer = peer /\ m.grace = f.media.grace
  BY <1>1 DEF Media
<1> HIDE DEF m
<1>3. Held(m, p, n)
  BY <1>1, <1>2 DEF Held
<1>4. f.media # Quiet
  BY NewTypes
<1>5. Sound(g, p, top, n)
  BY <1>2, <1>3, <1>4, MediaChange
<1>6. g.media = m /\ g.running = f.running
  BY <1>1 DEF Phones
<1> QED
  BY <1>2, <1>5, <1>6 DEF Sheds, m

\* A peer made in an operation that goes on has a number of its own.
LEMMA OfferingSound ==
  ASSUME NEW p \in Phone, NEW top \in Known, NEW n \in Nat, n = offers, NEW f, Sound(f, p, top, n),
         NEW step \in {"first", "offer"}, NEW s \in Sessions, NEW a \in Attempts,
         Sharer(s) = p, f.media.owner # 0, f.media.peer # NoPeer
  PROVE  /\ Sound(Offering(f, step, s, a), p, top, n + 1)
         /\ Sheds(f, Offering(f, step, s, a))
         /\ Offering(f, step, s, a).running.step = step
<1> DEFINE g == Await(f, step, s, a)
           peer == [f.media.peer EXCEPT !.local = n + 1, !.offered = TRUE]
           h == [g EXCEPT !.media = [g.media EXCEPT !.peer = peer]]
<1>1. step \in Steps \ {"consent"} /\ (step \in {"first", "offer"} => Sharer(s) = p)
  BY DEF Steps
<1>2. Sound(g, p, top, n) /\ g.media = f.media /\ g.running.step = step
  BY <1>1, AwaitSound
<1>3. Sound(g, p, top, n + 1) /\ n + 1 \in Nat
  BY <1>2, n + 1 \in Nat, n <= n + 1, LaterOffers
<1>4. g \in Phones /\ g.media \in Media /\ g.media.peer \in Peers /\ f.media.peer = g.media.peer
  BY <1>2 DEF Sound, Phones, Media
<1>5. Held(g.media, p, n)
  BY <1>2 DEF Sound
<1>6. /\ peer \in Peers /\ peer.local = n + 1 /\ peer.remote = f.media.peer.remote
      /\ f.media.peer.remote \in Nat
  <2>1. f.media.peer \in Peers /\ n + 1 \in Nat
    BY <1>4
  <2> QED
    BY <2>1 DEF Peers
<1>7. peer # NoPeer /\ peer.local <= n + 1 /\ peer.remote <= n + 1
  <2>1. NoPeer.local = 0
    BY DEF NoPeer, NewPeer
  <2>2. f.media.peer.remote <= n
    BY <1>2, <1>5 DEF Held
  <2> HIDE DEF peer
  <2> QED
    BY <1>6, <2>1, <2>2
<1>8. Offering(f, step, s, a) = h
  BY <1>2, <1>4 DEF Offering, Phones, Media, Peers
<1> HIDE DEF g, peer
<1>9. Sound(h, p, top, n + 1) /\ Sheds(g, h) /\ h.running = g.running
  BY <1>2, <1>3, <1>6, <1>7, PeerChange
<1> QED
  BY <1>2, <1>8, <1>9 DEF Sheds

\* What an operation leaves: a sound phone that started no capture, with a new
\* offer if it goes on to send one.
Handles(f, g, p, top) ==
  /\ Sound(g, p, top, IF g.running.step = "offer" THEN offers + 1 ELSE offers)
  /\ Sheds(f, g)

\* An operation that does not go on.
LEMMA HandlesAtOnce ==
  ASSUME NEW p, NEW top, NEW f, NEW g, Sound(g, p, top, offers), Sheds(f, g),
         g.running = Idle
  PROVE  Handles(f, g, p, top)
  BY DEF Handles, Idle, Waits

\* A description is not empty.
LEMMA DescribedPeer ==
  ASSUME NEW peer \in Peers, NEW n \in Nat
  PROVE  /\ Described(peer, n) \in Peers /\ Described(peer, n).remote = n
         /\ Described(peer, n).local = peer.local
         /\ Described(peer, n) # NoPeer
<1>1. /\ Described(peer, n) \in Peers /\ Described(peer, n).remote = n
      /\ Described(peer, n).local = peer.local
      /\ Described(peer, n).transport # "none"
  BY DEF Described, Peers
<1>2. NoPeer.transport = "none"
  BY DEF NoPeer, NewPeer
<1> QED
  BY <1>1, <1>2

\* A candidate is added or kept.
LEMMA CandidateSound ==
  ASSUME NEW p \in Phone, NEW top \in Known, NEW n \in Nat, NEW f, Sound(f, p, top, n),
         NEW s \in Sessions
  PROVE  /\ Sound(HandleCandidate(f, s), p, top, n) /\ Sheds(f, HandleCandidate(f, s))
         /\ HandleCandidate(f, s).running = f.running
<1>1. s # 0 /\ f \in Phones /\ f.media \in Media /\ f.media.peer \in Peers /\ Held(f.media, p, n)
  BY Bounds DEF Sessions, Sound, Phones, Media
<1>2. CASE f.media.owner # s \/ f.media.peer = NoPeer
  BY <1>2 DEF HandleCandidate, Sheds
<1>3. CASE ~(f.media.owner # s \/ f.media.peer = NoPeer)
  <2> DEFINE peer == IF f.media.peer.remote = 0 THEN [f.media.peer EXCEPT !.waiting = TRUE]
                     ELSE [f.media.peer EXCEPT !.added = TRUE]
             g == [f EXCEPT !.media = [f.media EXCEPT !.peer = peer]]
  <2>1. /\ peer \in Peers /\ peer.local = f.media.peer.local /\ peer.remote = f.media.peer.remote
        /\ (peer.waiting \/ peer.added)
    BY <1>1 DEF Peers
  <2>2. ~NoPeer.waiting /\ ~NoPeer.added
    BY DEF NoPeer, NewPeer
  <2>3. HandleCandidate(f, s) = g
    BY <1>1, <1>3 DEF HandleCandidate, Phones, Media, Peers
  <2> HIDE DEF peer
  <2>4. peer # NoPeer /\ peer.local <= n /\ peer.remote <= n
    BY <1>1, <2>1, <2>2 DEF Held
  <2>5. Sound(g, p, top, n) /\ Sheds(f, g) /\ g.running = f.running
    BY <1>1, <1>3, <2>1, <2>4, PeerChange
  <2> QED
    BY <2>3, <2>5
<1> QED
  BY <1>2, <1>3

\* An answer completes the offer it belongs to, or the connection is recovered.
LEMMA AnswerSound ==
  ASSUME NEW p \in Phone, NEW top \in Known, NEW n \in Nat, NEW f, Sound(f, p, top, n),
         NEW s \in Sessions, NEW k \in Nat, k <= n, f.running = Idle
  PROVE  /\ Sound(HandleAnswer(f, s, k), p, top, n) /\ Sheds(f, HandleAnswer(f, s, k))
         /\ HandleAnswer(f, s, k).running = f.running
<1>1. s # 0 /\ f \in Phones /\ f.media \in Media /\ f.media.peer \in Peers /\ Held(f.media, p, n)
  BY Bounds DEF Sessions, Sound, Phones, Media
<1>2. CASE ~(f.media.owner = s /\ f.media.peer.offered)
  BY <1>2, ScheduleSound DEF HandleAnswer
<1>3. CASE f.media.owner = s /\ f.media.peer.offered
  <2> DEFINE d == Described(f.media.peer, k)
             peer == [d EXCEPT !.offered = FALSE]
             g == [f EXCEPT !.media = [f.media EXCEPT !.peer = peer]]
  <2>1. d \in Peers /\ d.remote = k /\ d.local = f.media.peer.local /\ d # NoPeer
    BY <1>1, DescribedPeer
  <2>2. HandleAnswer(f, s, k) = g
    BY <1>1, <1>3 DEF HandleAnswer, Phones, Media
  <2>3. d.transport # "none" /\ NoPeer.transport = "none"
    BY <1>1 DEF Described, Peers, NoPeer, NewPeer
  <2> HIDE DEF d
  <2>4. /\ peer \in Peers /\ peer.remote = k /\ peer.local = f.media.peer.local
        /\ peer.transport = d.transport
    BY <2>1 DEF Peers
  <2> HIDE DEF peer
  <2>5. peer # NoPeer /\ peer.local <= n /\ peer.remote <= n
    BY <1>1, <2>3, <2>4 DEF Held
  <2>6. Sound(g, p, top, n) /\ Sheds(f, g) /\ g.running = f.running
    BY <1>1, <1>3, <2>4, <2>5, PeerChange
  <2> QED
    BY <2>2, <2>6
<1> QED
  BY <1>2, <1>3
\* An offer reaches the requester, which has no stream: what was left of an older
\* session in which it shared has been stopped.
LEMMA OfferSound ==
  ASSUME NEW p \in Phone, NEW top \in Known, NEW n \in Nat, NEW f, Sound(f, p, top, n),
         NEW s \in Sessions, NEW k \in Nat, k <= n, f.product = s, Sharer(s) # p,
         f.media.capture \in {0, s}
  PROVE  /\ Sound(HandleOffer(f, s, k), p, top, n) /\ Sheds(f, HandleOffer(f, s, k))
         /\ HandleOffer(f, s, k).running.step = "answer"
<1> DEFINE old == IF f.media.owner = s /\ f.media.peer # NoPeer THEN f.media.peer ELSE NewPeer
           d == Described(old, k)
           peer == [d EXCEPT !.local = k]
           m == [f.media EXCEPT !.owner = s, !.peer = peer]
           e == [f EXCEPT !.media = m]
           g == Await(e, "answer", s, 0)
<1>1. /\ s \in Known /\ s # 0 /\ f \in Phones /\ f.media \in Media /\ f.media.peer \in Peers
      /\ Held(f.media, p, n) /\ 0 \in Attempts
  BY Bounds DEF Sessions, Known, Attempts, Sound, Phones, Media
<1>2. f.media.capture = 0
  BY <1>1 DEF Held
<1>3. old \in Peers
  BY <1>1, NewTypes
<1>4. HandleOffer(f, s, k) = g
  <2> DEFINE x == IF f.media.owner = s /\ f.media.peer # NoPeer THEN f
                  ELSE [f EXCEPT !.media.owner = s, !.media.peer = NewPeer]
             w == Waits("answer", s, 0)
  <2>1. HandleOffer(f, s, k)
          = [[x EXCEPT !.running = w] EXCEPT !.media.peer = [Described(@, k) EXCEPT !.local = k]]
    BY DEF HandleOffer, Await
  <2>2. x \in Phones /\ x.media.peer = old /\ [x EXCEPT !.running = w].media.peer = old
    BY <1>1, NewTypes DEF Phones, Media
  <2>3. HandleOffer(f, s, k) = [[x EXCEPT !.running = w] EXCEPT !.media.peer = peer]
    BY <2>1, <2>2
  <2> HIDE DEF peer, w, old
  <2>4. CASE f.media.owner = s /\ f.media.peer # NoPeer
    <3>1. m = [f.media EXCEPT !.peer = peer]
      BY <1>1, <2>4 DEF Media
    <3>2. [[f EXCEPT !.running = w] EXCEPT !.media.peer = peer]
            = [[f EXCEPT !.media = m] EXCEPT !.running = w]
      BY <1>1, <3>1 DEF Phones
    <3> QED
      BY <2>3, <2>4, <3>2 DEF Await, w
  <2>5. CASE ~(f.media.owner = s /\ f.media.peer # NoPeer)
    <3> DEFINE y == [f EXCEPT !.media.owner = s, !.media.peer = NewPeer]
    <3>1. [[y EXCEPT !.running = w] EXCEPT !.media.peer = peer]
            = [f EXCEPT !.running = w, !.media = [f.media EXCEPT !.owner = s, !.peer = peer]]
      BY <1>1 DEF Phones, Media
    <3>2. [[f EXCEPT !.media = m] EXCEPT !.running = w]
            = [f EXCEPT !.running = w, !.media = [f.media EXCEPT !.owner = s, !.peer = peer]]
      BY <1>1 DEF Phones
    <3>3. x = y
      BY <2>5
    <3> HIDE DEF x, y, m
    <3> QED
      BY <2>3, <3>1, <3>2, <3>3 DEF Await, w
  <2> QED
    BY <2>4, <2>5
<1> HIDE DEF old
<1>5. d \in Peers /\ d.remote = k /\ d.transport # "none" /\ NoPeer.transport = "none"
  BY <1>3 DEF Described, Peers, NoPeer, NewPeer
<1> HIDE DEF d
<1>6. peer \in Peers /\ peer.remote = k /\ peer.local = k /\ peer.transport = d.transport
  BY <1>5 DEF Peers
<1> HIDE DEF peer
<1>7. /\ m \in Media /\ m.owner = s /\ m.capture = f.media.capture /\ m.peer = peer
      /\ m.grace = f.media.grace /\ peer # NoPeer
  BY <1>1, <1>5, <1>6 DEF Media
<1> HIDE DEF m
<1>8. Held(m, p, n)
  BY <1>1, <1>2, <1>6, <1>7 DEF Held
<1>9. Sound(e, p, top, n)
  BY <1>1, <1>7, <1>8, MediaChange
<1>10. e.media = m
  BY <1>1 DEF Phones
<1> HIDE DEF e
<1>11. "answer" \in Steps \ {"consent"} /\ "answer" \notin {"first", "offer"}
  BY DEF Steps
<1>12. Sound(g, p, top, n) /\ g.media = m /\ g.running.step = "answer"
  BY <1>1, <1>7, <1>9, <1>10, <1>11, AwaitSound
<1> QED
  BY <1>4, <1>7, <1>12 DEF Sheds

\* The requester asks for a restart: the sharer makes a new offer, if it can.
LEMMA RestartRequestSound ==
  ASSUME NEW p \in Phone, NEW top \in Known, offers \in Nat, NEW f, Sound(f, p, top, offers),
         NEW s \in Sessions, f.running = Idle
  PROVE  Handles(f, HandleRestartRequest(f, s), p, top)
<1>1. s # 0 /\ Held(f.media, p, offers) /\ 0 \in Attempts
  BY Bounds DEF Sessions, Sound, Attempts
<1>2. CASE CanPublish(f) /\ f.media.owner = s
  <2>1. Sharer(s) = p /\ f.media.owner # 0 /\ f.media.peer # NoPeer
    BY <1>1, <1>2 DEF CanPublish, Held
  <2> DEFINE g == Offering(f, "offer", s, 0)
  <2>2. Sound(g, p, top, offers + 1) /\ Sheds(f, g) /\ g.running.step = "offer"
    BY <1>1, <2>1, OfferingSound
  <2>3. HandleRestartRequest(f, s) = g
    BY <1>2 DEF HandleRestartRequest
  <2> HIDE DEF g
  <2> QED
    BY <2>2, <2>3 DEF Handles
<1>3. CASE ~(CanPublish(f) /\ f.media.owner = s)
  BY <1>3, ScheduleSound, HandlesAtOnce DEF HandleRestartRequest
<1> QED
  BY <1>2, <1>3

\* The restart timer's operation.
LEMMA RestartSound ==
  ASSUME NEW p \in Phone, NEW top \in Known, offers \in Nat, NEW f, Sound(f, p, top, offers),
         NEW s \in Sessions, NEW a \in 1..MaxRestarts, f.running = Idle
  PROVE  Handles(f, Restart(f, p, s, a), p, top)
<1>1. s # 0 /\ a \in Attempts
  BY Bounds DEF Sessions, Attempts
<1>2. CASE f.product # s \/ f.media.attempt # a
  BY <1>2, HandlesAtOnce DEF Restart, Sheds
<1>3. CASE ~(f.product # s \/ f.media.attempt # a) /\ ~Shares(p, s)
  <2> DEFINE g == Await(f, "ask", s, a)
  <2>1. "ask" \in Steps \ {"consent"} /\ "ask" \notin {"first", "offer"}
    BY DEF Steps
  <2>2. Sound(g, p, top, offers) /\ g.media = f.media /\ g.running.step = "ask"
    BY <1>1, <2>1, AwaitSound
  <2>3. Restart(f, p, s, a) = g
    BY <1>3 DEF Restart
  <2> HIDE DEF g
  <2> QED
    BY <2>2, <2>3 DEF Handles, Sheds
<1>4. CASE /\ ~(f.product # s \/ f.media.attempt # a) /\ Shares(p, s)
           /\ CanPublish(f) /\ f.media.owner = s
  <2> DEFINE g == Offering(f, "offer", s, a)
  <2>1. Sharer(s) = p /\ f.media.owner # 0 /\ f.media.peer # NoPeer
    BY <1>1, <1>4 DEF Shares, CanPublish
  <2>2. Sound(g, p, top, offers + 1) /\ Sheds(f, g) /\ g.running.step = "offer"
    BY <1>1, <2>1, OfferingSound
  <2>3. Restart(f, p, s, a) = g
    BY <1>4 DEF Restart
  <2> HIDE DEF g
  <2> QED
    BY <2>2, <2>3 DEF Handles
<1>5. CASE /\ ~(f.product # s \/ f.media.attempt # a) /\ Shares(p, s)
           /\ ~(CanPublish(f) /\ f.media.owner = s)
  <2>1. Restart(f, p, s, a) = RetryLater(f, s, a)
    BY <1>5 DEF Restart
  <2> QED
    BY <2>1, RetrySound, HandlesAtOnce
<1> QED
  BY <1>2, <1>3, <1>4, <1>5

\* A message of the other phone; an offer needs a phone without a stream.
LEMMA SignalSound ==
  ASSUME NEW p \in Phone, NEW top \in Known, offers \in Nat, NEW f, Sound(f, p, top, offers),
         NEW m \in Messages, m.offer <= offers, m.kind = "offer" => Sharer(m.session) # p,
         f.product = m.session => f.media.capture \in {0, m.session}, f.running = Idle
  PROVE  Handles(f, HandleSignal(f, p, m), p, top)
<1>1. /\ m.session \in Sessions /\ m.offer \in Nat
      /\ m.kind \in {"candidate", "offer", "answer", "restart"}
  BY DEF Messages
<1>2. CASE f.product # m.session
  BY <1>2, HandlesAtOnce DEF HandleSignal, Sheds
<1>3. CASE f.product = m.session /\ m.kind = "candidate"
  <2>1. HandleSignal(f, p, m) = HandleCandidate(f, m.session)
    BY <1>3 DEF HandleSignal
  <2> QED
    BY <1>1, <2>1, CandidateSound, HandlesAtOnce
<1>4. CASE f.product = m.session /\ m.kind = "offer"
  <2>1. HandleSignal(f, p, m) = HandleOffer(f, m.session, m.offer)
    BY <1>4 DEF HandleSignal
  <2> DEFINE g == HandleOffer(f, m.session, m.offer)
  <2>2. Sound(g, p, top, offers) /\ Sheds(f, g) /\ g.running.step = "answer"
    BY <1>1, <1>4, OfferSound
  <2> HIDE DEF g
  <2>3. Handles(f, g, p, top)
    BY <2>2 DEF Handles
  <2> QED
    BY <2>1, <2>3 DEF g
<1>5. CASE f.product = m.session /\ m.kind = "answer"
  <2>1. HandleSignal(f, p, m) = HandleAnswer(f, m.session, m.offer)
    BY <1>5 DEF HandleSignal
  <2> QED
    BY <1>1, <2>1, AnswerSound, HandlesAtOnce
<1>6. CASE f.product = m.session /\ m.kind = "restart"
  <2>1. HandleSignal(f, p, m) = HandleRestartRequest(f, m.session)
    BY <1>6 DEF HandleSignal
  <2> QED
    BY <1>1, <2>1, RestartRequestSound
<1> QED
  BY <1>1, <1>2, <1>3, <1>4, <1>5, <1>6
\* syncSession: the phone that hears of its session holds nothing of another one.
LEMMA SyncSound ==
  ASSUME NEW p \in Phone, NEW top \in Known, offers \in Nat, NEW f,
         f \in Phones, Held(f.media, p, offers), f.screens \subseteq {f.media.capture},
         Carried(f.queue, p, f.entered, offers), f.running = Idle,
         f.product \in {0, top}, f.product <= f.entered, f.entered <= top
  PROVE  Handles(f, SyncSession(f, p), p, top)
<1> DEFINE g == SyncSession(f, p)
           r == ResetMedia(f)
<1>1. /\ f.product \in Known /\ f.media \in Media
      /\ f.media.capture # 0 => f.media.owner = f.media.capture
  BY DEF Phones, Held
<1>2. f.running.step \notin {"consent", "first", "offer", "answer"}
  BY DEF Idle, Waits
<1>3. ASSUME f.media.capture \in {0, f.product}, f.product = 0 => f.media = Quiet
      PROVE  Handles(f, f, p, top)
  <2>1. Sound(f, p, top, offers)
    BY <1>2, <1>3 DEF Sound, Runs, Follow
  <2> QED
    BY <2>1, HandlesAtOnce DEF Sheds
<1>4. /\ r \in Phones /\ r.media = Quiet /\ r.product = f.product /\ r.queue = f.queue
      /\ r.running = Idle /\ r.screens = {} /\ r.entered = f.entered
  BY NewTypes DEF Phones, ResetMedia
<1>5. r.media.capture = 0 /\ Held(r.media, p, offers)
  BY <1>4, NewTypes DEF Held
<1>6. Handles(f, r, p, top)
  <2> HIDE DEF r
  <2>1. Sound(r, p, top, offers)
    BY <1>2, <1>4, <1>5 DEF Sound, Runs, Follow
  <2> QED
    BY <1>4, <1>5, <2>1, HandlesAtOnce DEF Sheds
<1>7. CASE f.product = 0
  <2>1. ~Active(f) => f.media = Quiet
    BY DEF Active, Held
  <2>2. f.media = Quiet => f.media.capture = 0
    BY NewTypes
  <2> QED
    BY <1>3, <1>6, <1>7, <2>1, <2>2 DEF SyncSession
<1>8. CASE f.product # 0 /\ ~Shares(p, f.product) /\ f.media.owner = f.product
  BY <1>1, <1>3, <1>8 DEF SyncSession
<1>9. CASE f.product # 0 /\ ~Shares(p, f.product) /\ f.media.owner # f.product
  <2> DEFINE peer == [NewPeer EXCEPT !.polled = TRUE]
             m == [r.media EXCEPT !.state = "connecting", !.of = f.product,
                                  !.owner = f.product, !.peer = peer]
             h == [r EXCEPT !.media = m]
  <2>1. /\ peer \in Peers /\ peer.local = 0 /\ peer.remote = 0
    BY NewTypes DEF NewPeer, Peers
  <2>2. g = h
    <3> DEFINE x == WithPeer(r, f.product, "connecting")
               m0 == [r.media EXCEPT !.state = "connecting", !.of = f.product,
                                     !.owner = f.product, !.peer = NewPeer]
    <3>1. g = [x EXCEPT !.media.peer.polled = TRUE]
      BY <1>9 DEF SyncSession
    <3>2. r \in Phones /\ r.media \in Media
      BY <1>4 DEF Phones
    <3> HIDE DEF g, r
    <3>3. x = [r EXCEPT !.media = m0]
      BY <3>2 DEF WithPeer, Show, Phones, Media
    <3>4. [x EXCEPT !.media.peer.polled = TRUE] = [r EXCEPT !.media = [m0 EXCEPT !.peer.polled = TRUE]]
      BY <3>2, <3>3 DEF Phones
    <3>5. [m0 EXCEPT !.peer.polled = TRUE] = m
      BY <3>2 DEF Media
    <3> QED
      BY <3>1, <3>4, <3>5
  <2> HIDE DEF peer, r
  <2>3. /\ m \in Media /\ m.capture = 0 /\ m.owner = f.product /\ ~m.grace
        /\ m.peer = peer
    BY <1>1, <1>4, <2>1, NewTypes DEF Media, States
  <2> HIDE DEF m
  <2>4. Held(m, p, offers)
    BY <1>9, <2>1, <2>3, NewTypes DEF Held
  <2>5. /\ h \in Phones /\ h.media = m /\ h.product = f.product /\ h.queue = f.queue
        /\ h.running = Idle /\ h.screens = {} /\ h.entered = f.entered
    BY <1>4, <2>3 DEF Phones
  <2> HIDE DEF h
  <2>6. Sound(h, p, top, offers)
    BY <1>2, <1>9, <2>3, <2>4, <2>5 DEF Sound, Runs, Follow
  <2>7. Handles(f, h, p, top)
    BY <2>3, <2>5, <2>6, HandlesAtOnce DEF Sheds
  <2> QED
    BY <2>2, <2>7
<1>10. CASE f.product # 0 /\ Shares(p, f.product) /\ f.media.owner \in {0, f.product}
  BY <1>1, <1>3, <1>10 DEF SyncSession
<1>11. CASE f.product # 0 /\ Shares(p, f.product) /\ f.media.owner \notin {0, f.product}
  BY <1>6, <1>11 DEF SyncSession
<1> QED
  BY <1>7, <1>8, <1>9, <1>10, <1>11

\* startSharing asks Android, and the session it asks for is the phone's own.
LEMMA StartSound ==
  ASSUME NEW p \in Phone, NEW top \in Known, offers \in Nat, NEW f, Sound(f, p, top, offers),
         NEW called \in Known, f.running = Idle
  PROVE  Handles(f, StartSharing(f, p, called), p, top)
<1> DEFINE s == f.product
           r == ResetMedia(f)
           m == [r.media EXCEPT !.state = "awaiting_permission", !.of = s, !.owner = s]
           w == Waits("consent", s, 0)
           h == [r EXCEPT !.media = m, !.running = w, !.dialogs = @ \cup {s}]
<1>1. CASE ~Shares(p, s)
  BY <1>1, EndSound, HandlesAtOnce DEF StartSharing, Sheds
<1>2. CASE Shares(p, s) /\ f.media.capture # 0 /\ f.media.owner = s
  BY <1>2, HandlesAtOnce DEF StartSharing, Sheds
<1>3. CASE Shares(p, s) /\ ~(f.media.capture # 0 /\ f.media.owner = s)
  <2>1. s \in Known /\ s \in Sessions /\ s # 0 /\ Sharer(s) = p /\ 0 \in Attempts
    BY <1>3, Bounds DEF Sound, Phones, Shares, Known, Sessions, Attempts
  <2>2. /\ Sound(r, p, top, offers) /\ r.media = Quiet /\ r.screens = {} /\ r \in Phones
        /\ r.product = f.product /\ r.queue = f.queue /\ r.running = f.running
    BY ResetSound DEF Sound
  <2>3. w \in Pauses /\ w.step = "consent" /\ w.session = s
    BY <2>1 DEF Waits, Pauses, Steps
  <2>4. StartSharing(f, p, called) = h
    BY <1>3, <2>2, NewTypes DEF StartSharing, Await, Show, Phones, Media
  <2> HIDE DEF r, w
  <2>5. /\ m \in Media /\ m.capture = 0 /\ m.owner = s /\ ~m.grace /\ m.peer = NoPeer
    BY <2>1, <2>2, NewTypes DEF Media, States
  <2>6. /\ h \in Phones /\ h.media = m /\ h.product = r.product /\ h.queue = r.queue
        /\ h.running = w /\ h.screens = r.screens /\ h.entered = r.entered
    BY <2>1, <2>2, <2>3, <2>5 DEF Phones
  <2> HIDE DEF m
  <2>7. Held(m, p, offers)
    <3>1. NoPeer.local = 0 /\ NoPeer.remote = 0
      BY DEF NoPeer, NewPeer
    <3> QED
      BY <2>1, <2>5, <3>1 DEF Held
  <2> HIDE DEF h
  <2>8. Runs(h, p)
    BY <2>1, <2>2, <2>3, <2>5, <2>6 DEF Runs
  <2>9. Follow(h, top)
    BY <2>1, <2>2, <2>5, <2>6 DEF Sound, Follow
  <2>10. Sound(h, p, top, offers)
    BY <2>2, <2>6, <2>7, <2>8, <2>9 DEF Sound
  <2>11. Sheds(f, h) /\ h.running.step # "offer"
    BY <2>3, <2>5, <2>6 DEF Sheds
  <2> HIDE DEF s
  <2>12. Handles(f, h, p, top)
    BY <2>10, <2>11 DEF Handles
  <2> QED
    BY <2>4, <2>12
<1> QED
  BY <1>1, <1>2, <1>3

\* The stop of endSession; the controller leaves the session later.
LEMMA StopSound ==
  ASSUME NEW p \in Phone, NEW top \in Known, offers \in Nat, NEW f, Sound(f, p, top, offers),
         f.running = Idle
  PROVE  Handles(f, Stop(f), p, top)
<1> DEFINE r == ResetMedia(f)
           h == [r EXCEPT !.ending.step = "leave"]
<1>1. /\ Sound(r, p, top, offers) /\ Sheds(f, r) /\ r.running = Idle /\ r \in Phones
  BY ResetSound DEF Sound
<1>2. Stop(f) = h
  BY DEF Stop
<1> HIDE DEF r
<1>3. /\ h \in Phones /\ h.media = r.media /\ h.product = r.product /\ h.queue = r.queue
      /\ h.running = r.running /\ h.screens = r.screens /\ h.entered = r.entered
  BY <1>1 DEF Phones
<1> HIDE DEF h
<1>4. Sound(h, p, top, offers) /\ Sheds(f, h)
  BY <1>1, <1>3 DEF Sound, Runs, Follow, Sheds
<1> QED
  BY <1>1, <1>2, <1>3, <1>4, HandlesAtOnce

\* Android ended a capture.
LEMMA EndedSound ==
  ASSUME NEW p \in Phone, NEW top \in Known, NEW n \in Nat, NEW f, Sound(f, p, top, n),
         NEW s \in Sessions, f.running = Idle
  PROVE  /\ Sound(CaptureEnded(f, s), p, top, n) /\ Sheds(f, CaptureEnded(f, s))
         /\ CaptureEnded(f, s).running = f.running
<1>1. CASE f.media.owner # s
  BY <1>1 DEF CaptureEnded, Sheds
<1>2. CASE f.media.owner = s
  <2>1. s \in Known /\ s # 0
    BY Bounds DEF Sessions, Known
  <2>2. f.media # Quiet
    BY <1>2, <2>1, NewTypes
  <2>3. CaptureEnded(f, s) = Fail(f, s)
    BY <1>2 DEF CaptureEnded, Fail
  <2> QED
    BY <2>1, <2>2, <2>3, FailSound
<1> QED
  BY <1>1, <1>2
-----------------------------------------------------------------------------
(* The actions. *)

\* A capture starts only in the session of the phone.
Starts(f, g) == g.media.capture \notin {0, f.media.capture} => g.product = g.media.capture

Good == IInv' /\ \A p \in Phone : Starts(phone[p], phone'[p])

\* A step of one phone.
LEMMA OnePhone ==
  ASSUME IInv, NEW p \in Phone, NEW g, phone' = [phone EXCEPT ![p] = g],
         session' = session, offers' \in {offers, offers + 1}, Network',
         Sound(g, p, session, offers'), Starts(phone[p], g)
  PROVE  Good
<1>1. phone' \in [Phone -> Phones] /\ phone'[p] = g /\ \A q \in Phone \ {p} : phone'[q] = phone[q]
  BY DEF IInv, Sound
<1>2. offers \in Nat /\ offers' \in Nat /\ offers <= offers' /\ session \in Known
  BY DEF IInv, Network
<1>3. ASSUME NEW q \in Phone \ {p} PROVE Sound(phone'[q], q, session, offers')
  <2>1. Sound(phone[q], q, session, offers)
    BY DEF IInv
  <2> QED
    BY <1>1, <1>2, <2>1, LaterOffers
<1>4. ASSUME NEW q \in Phone PROVE Sound(phone'[q], q, session', offers')
  BY <1>1, <1>3
<1>5. ASSUME NEW q \in Phone PROVE Starts(phone[q], phone'[q])
  <2>1. CASE q = p
    BY <1>1, <2>1
  <2>2. CASE q # p
    BY <1>1, <2>2 DEF Starts
  <2> QED
    BY <2>1, <2>2
<1> QED
  BY <1>1, <1>4, <1>5 DEF Good, IInv

\* What holds of a phone before every step of it.
LEMMA Before ==
  ASSUME IInv, NEW p \in Phone
  PROVE  /\ Sound(phone[p], p, session, offers) /\ phone[p] \in Phones
         /\ session \in Known /\ offers \in Nat
         /\ phone[p].media \in Media /\ phone[p].queue \in Seq(Operations)
  BY DEF IInv, Sound, Network, Phones

LEMMA ShedsStarts ==
  ASSUME NEW f, NEW g, Sheds(f, g)
  PROVE  Starts(f, g)
  BY DEF Sheds, Starts

\* The network is left alone.
LEMMA SameNetwork ==
  ASSUME IInv, session' = session, offers' \in {offers, offers + 1},
         UNCHANGED <<network, faults>>
  PROVE  Network'
  BY DEF IInv, Network, network

\* The head of the queue is taken off it.
LEMMA PopSound ==
  ASSUME NEW p \in Phone, NEW top \in Known, NEW n \in Nat, NEW f, Sound(f, p, top, n),
         f.queue # <<>>
  PROVE  LET g == Popped(f)
         IN /\ g \in Phones /\ g.media = f.media /\ g.product = f.product /\ g.running = f.running
            /\ g.screens = f.screens /\ g.entered = f.entered
            /\ Carried(g.queue, p, g.entered, n)
            /\ Head(f.queue) \in Operations
            /\ Head(f.queue).op # "sync" => Sound(g, p, top, n)
            /\ Head(f.queue).op = "signal" =>
                 LET m == Head(f.queue).message
                 IN /\ m \in Messages /\ m.offer <= n
                    /\ m.kind = "offer" => Sharer(m.session) # p
                    /\ f.product = m.session => f.media.capture \in {0, m.session}
<1> DEFINE q == f.queue
           g == Popped(f)
<1>1. f \in Phones /\ q \in Seq(Operations) /\ f.entered \in Nat /\ f.product \in Known
  BY Bounds DEF Sound, Phones, Known
<1>2. /\ Tail(q) \in Seq(Operations) /\ Head(q) \in Operations /\ Head(q) = q[1] /\ 1 \in DOMAIN q
      /\ Carried(q, p, f.entered, n) => Carried(Tail(q), p, f.entered, n)
      /\ Head(q).op # "sync" /\ Pends(q) => Pends(Tail(q))
      /\ Head(q).op # "sync" => \A s \in Sessions : Ahead(q, s) => Ahead(Tail(q), s)
  BY <1>1, TailKeeps
<1>3. /\ g \in Phones /\ g.media = f.media /\ g.product = f.product /\ g.running = f.running
      /\ g.screens = f.screens /\ g.entered = f.entered /\ g.queue = Tail(q)
  BY <1>1, <1>2 DEF Phones, Popped
<1> HIDE DEF g
<1>4. Carried(q, p, f.entered, n)
  BY DEF Sound
<1>5. ASSUME Head(q).op # "sync" PROVE Sound(g, p, top, n)
  <2>1. Pends(q) => Pends(g.queue)
    BY <1>2, <1>3, <1>5
  <2>2. f.product # 0 => (Ahead(q, f.product) => Ahead(g.queue, f.product))
    BY <1>1, <1>2, <1>3, <1>5, Bounds DEF Known, Sessions
  <2>3. Runs(g, p)
    BY <1>3, <2>1 DEF Sound, Runs
  <2>4. Follow(g, top)
    BY <1>3, <2>1, <2>2 DEF Sound, Follow
  <2> QED
    BY <1>2, <1>3, <1>4, <2>3, <2>4 DEF Sound
<1>6. ASSUME Head(q).op = "signal"
      PROVE  LET m == Head(q).message
             IN /\ m \in Messages /\ m.offer <= n
                /\ m.kind = "offer" => Sharer(m.session) # p
                /\ f.product = m.session => f.media.capture \in {0, m.session}
  <2>1. Head(q) \in Signals
    BY <1>2, <1>6 DEF Operations, Calls
  <2>2. Head(q).message \in Messages /\ Head(q).message.session # 0
    BY <2>1, Bounds DEF Signals, Messages, Sessions
  <2>3. Head(q).message.offer <= n
        /\ (Head(q).message.kind = "offer" => Sharer(Head(q).message.session) # p)
    BY <1>2, <1>4, <1>6 DEF Carried
  <2>4. ~Ahead(q, Head(q).message.session)
    <3>1. DOMAIN q \subseteq Nat /\ \A j \in DOMAIN q : ~(j < 1)
      BY <1>1
    <3> QED
      BY <1>2, <1>6, <3>1 DEF Ahead
  <2> QED
    BY <2>2, <2>3, <2>4 DEF Sound, Follow
<1> QED
  BY <1>2, <1>3, <1>4, <1>5, <1>6 DEF g

\* One operation of the queue.
LEMMA HandledSound ==
  ASSUME NEW p \in Phone, NEW top \in Known, offers \in Nat, NEW f, Sound(f, p, top, offers),
         f.queue # <<>>, f.running = Idle
  PROVE  Handles(f, Handled(Popped(f), p, Head(f.queue)), p, top)
<1> DEFINE g == Popped(f)
           o == Head(f.queue)
           h == Handled(g, p, o)
<1>1. /\ g \in Phones /\ g.media = f.media /\ g.product = f.product /\ g.running = Idle
      /\ g.screens = f.screens /\ g.entered = f.entered
      /\ Carried(g.queue, p, g.entered, offers)
      /\ o \in Operations
      /\ o.op # "sync" => Sound(g, p, top, offers)
  BY PopSound
<1>2. o.op = "signal" =>
        /\ o.message \in Messages /\ o.message.offer <= offers
        /\ o.message.kind = "offer" => Sharer(o.message.session) # p
        /\ g.product = o.message.session => g.media.capture \in {0, o.message.session}
  <2>1. o.op = "signal" =>
          /\ o.message \in Messages /\ o.message.offer <= offers
          /\ o.message.kind = "offer" => Sharer(o.message.session) # p
          /\ f.product = o.message.session => f.media.capture \in {0, o.message.session}
    BY PopSound
  <2> QED
    BY <1>1, <2>1
<1>3. Held(g.media, p, offers) /\ g.screens \subseteq {g.media.capture}
      /\ g.product \in {0, top} /\ g.product <= g.entered /\ g.entered <= top
  BY <1>1 DEF Sound, Follow
<1> HIDE DEF g, o
<1>4. SUFFICES Handles(g, h, p, top)
  <2>1. \A x : Handles(g, x, p, top) => Handles(f, x, p, top)
    BY <1>1 DEF Handles, Sheds
  <2> QED
    BY <2>1 DEF g, o
<1>5. CASE o.op = "sync"
  <2>1. h = SyncSession(g, p)
    BY <1>5 DEF Handled
  <2> QED
    BY <1>1, <1>3, <2>1, SyncSound
<1>6. CASE o.op = "signal"
  <2>1. h = HandleSignal(g, p, o.message)
    BY <1>6 DEF Handled
  <2> QED
    BY <1>1, <1>2, <1>6, <2>1, SignalSound
<1>7. CASE o.op \notin {"sync", "signal"}
  <2>1. o \in Calls /\ Sound(g, p, top, offers)
    BY <1>1, <1>7 DEF Operations, Signals
  <2>2. CASE o.op = "start"
    <3>1. h = StartSharing(g, p, o.session) /\ o.session \in Known
      BY <2>1, <2>2 DEF Handled, Calls
    <3> QED
      BY <1>1, <2>1, <3>1, StartSound
  <2>3. CASE o.op = "stop"
    <3>1. h = Stop(g)
      BY <2>3 DEF Handled
    <3> QED
      BY <1>1, <2>1, <3>1, StopSound
  <2>4. CASE o.op = "lost"
    <3>1. h = g
      BY <2>4 DEF Handled
    <3> QED
      BY <1>1, <2>1, <3>1, HandlesAtOnce DEF Sheds
  <2>5. CASE o.op = "ended"
    <3>1. h = CaptureEnded(g, o.session) /\ o.session \in Sessions
      BY <2>1, <2>5 DEF Handled, Calls
    <3> QED
      BY <1>1, <2>1, <3>1, EndedSound, HandlesAtOnce
  <2>6. CASE o.op = "grace"
    <3>1. h = GraceIsOver(g, o.session) /\ o.session \in Sessions
      BY <2>1, <2>6 DEF Handled, Calls
    <3>2. CASE h = ScheduleRecovery(g, o.session)
      BY <1>1, <2>1, <3>1, <3>2, ScheduleSound, HandlesAtOnce
    <3>3. CASE h = g
      BY <1>1, <2>1, <3>3, HandlesAtOnce DEF Sheds
    <3> QED
      BY <3>1, <3>2, <3>3 DEF GraceIsOver
  <2>7. CASE o.op = "recover"
    <3>1. h = ScheduleRecovery(g, o.session) /\ o.session \in Sessions
      BY <2>1, <2>7 DEF Handled, Calls
    <3> QED
      BY <1>1, <2>1, <3>1, ScheduleSound, HandlesAtOnce
  <2>8. CASE o.op = "restart"
    <3>1. h = Restart(g, p, o.session, o.attempt) /\ o.session \in Sessions
          /\ o.attempt \in 1..MaxRestarts
      BY <2>1, <2>8 DEF Handled, Calls
    <3> QED
      BY <1>1, <2>1, <3>1, RestartSound
  <2> QED
    BY <2>1, <2>2, <2>3, <2>4, <2>5, <2>6, <2>7, <2>8, <1>7 DEF Calls
<1> QED
  BY <1>5, <1>6, <1>7
LEMMA HandleGood ==
  ASSUME IInv, NEW p \in Phone, Handle(p)
  PROVE  Good
<1> DEFINE g == Handled(Popped(phone[p]), p, Head(phone[p].queue))
<1>1. /\ phone[p].running = Idle /\ phone[p].queue # <<>>
      /\ phone' = [phone EXCEPT ![p] = g]
      /\ offers' = IF phone'[p].running.step = "offer" THEN offers + 1 ELSE offers
      /\ UNCHANGED <<session, network, faults>>
  <2>1. phone[p].running = Idle /\ phone[p].queue # <<>>
    BY DEF Handle
  <2>2. phone' = [phone EXCEPT ![p] = g]
    BY DEF Handle
  <2>3. offers' = IF phone'[p].running.step = "offer" THEN offers + 1 ELSE offers
    BY DEF Handle
  <2>4. UNCHANGED <<session, network, faults>>
    BY DEF Handle
  <2> QED
    BY <2>1, <2>2, <2>3, <2>4
<1>2. Handles(phone[p], g, p, session)
  BY <1>1, Before, HandledSound
<1> HIDE DEF g
<1>3. phone'[p] = g
  BY <1>1 DEF IInv
<1>4. Sound(g, p, session, offers') /\ Sheds(phone[p], g)
  BY <1>1, <1>2, <1>3 DEF Handles
<1>5. Network'
  BY <1>1, SameNetwork
<1> QED
  BY <1>1, <1>4, <1>5, OnePhone, ShedsStarts

\* A message reaches a phone that is in its session, or enters it, or has left it.
LEMMA DeliverSound ==
  ASSUME NEW q \in Phone, NEW s \in Known, s # 0, NEW n \in Nat, NEW f, Sound(f, q, s, n),
         NEW b \in Seq(Messages),
         \A i \in DOMAIN b : /\ b[i].session = s /\ b[i].offer <= n
                             /\ b[i].kind = "offer" => Sharer(s) # q
  PROVE  Sound(Deliver(f, s, b), q, s, n) /\ Deliver(f, s, b).media = f.media
<1> DEFINE e == IF f.product = 0 /\ f.entered < s THEN Enter(f, s) ELSE f
           a == [i \in DOMAIN b |-> [op |-> "signal", message |-> b[i]]]
           g == [e EXCEPT !.queue = @ \o a]
<1>1. s \in Sessions /\ s \in Nat
  BY Bounds DEF Known, Sessions
<1>2. Sound(e, q, s, n) /\ s <= e.entered /\ e.media = f.media
  <2>1. f.entered \in Nat
    BY Bounds DEF Sound, Phones, Known
  <2>2. CASE f.product = 0 /\ f.entered < s
    <3>1. Sound(Enter(f, s), q, s, n) /\ Enter(f, s).entered = s /\ Enter(f, s).media = f.media
      BY <1>1, <2>2, EnterSound
    <3> QED
      BY <1>1, <2>2, <3>1
  <2>3. CASE ~(f.product = 0 /\ f.entered < s)
    BY <1>1, <2>1, <2>3 DEF Sound, Follow
  <2> QED
    BY <2>2, <2>3
<1>3. Deliver(f, s, b) = g
  BY DEF Deliver, Receive
<1> HIDE DEF e
<1>4. e \in Phones /\ e.queue \in Seq(Operations) /\ e.entered \in Nat /\ e.product \in Known
  BY <1>2, Bounds DEF Sound, Phones, Known
<1>5. /\ e.queue \o a \in Seq(Operations)
      /\ Pends(e.queue) => Pends(e.queue \o a)
      /\ \A t \in Sessions : Ahead(e.queue, t) => Ahead(e.queue \o a, t)
      /\ Carried(e.queue, q, e.entered, n)
         /\ (\A i \in DOMAIN b : /\ b[i].session <= e.entered /\ b[i].offer <= n
                                 /\ b[i].kind = "offer" => Sharer(b[i].session) # q)
         => Carried(e.queue \o a, q, e.entered, n)
  BY <1>4, ReceiveKeeps
<1> HIDE DEF a
<1>6. Carried(e.queue \o a, q, e.entered, n)
  BY <1>2, <1>5 DEF Sound
<1>7. /\ g \in Phones /\ g.media = e.media /\ g.product = e.product /\ g.running = e.running
      /\ g.screens = e.screens /\ g.entered = e.entered /\ g.queue = e.queue \o a
  BY <1>4, <1>5 DEF Phones
<1> HIDE DEF g
<1>8. Runs(g, q)
  BY <1>2, <1>5, <1>7 DEF Sound, Runs
<1>9. e.product # 0 => e.product \in Sessions
  BY <1>4, Bounds DEF Known, Sessions
<1>10. Follow(g, s)
  BY <1>2, <1>5, <1>7, <1>9 DEF Sound, Follow
<1> QED
  BY <1>2, <1>3, <1>6, <1>7, <1>8, <1>10 DEF Sound

\* The operation that waited to send a message.
LEMMA Sending ==
  ASSUME IInv, NEW p \in Phone, phone[p].running.step \in {"first", "offer", "answer", "ask"}
  PROVE  /\ phone[p].running.session \in Sessions /\ phone[p].running.session \in Known
         /\ phone[p].running.session # 0
         /\ phone[p].running.attempt \in Attempts
         /\ phone[p].running.step \in {"first", "offer"} => Sharer(phone[p].running.session) = p
         /\ phone[p].running.step # "ask" => phone[p].media.peer # NoPeer
         /\ phone[p].media.peer \in Peers /\ phone[p].media.peer.local <= offers
  BY Before, Bounds DEF Sound, Phones, Media, Pauses, Idle, Waits, Steps, Sessions, Known, Runs, Held

\* What it sends belongs to its session, and an offer goes to the other phone.
LEMMA BatchCarried ==
  ASSUME IInv, NEW p \in Phone, phone[p].running.step \in {"first", "offer", "answer", "ask"},
         NEW f, f.media = phone[p].media, NEW b \in Batches(f, phone[p].running)
  PROVE  /\ b \in Seq(Messages)
         /\ \A i \in DOMAIN b :
              /\ b[i].session = phone[p].running.session /\ b[i].offer <= offers
              /\ b[i].kind = "offer" => Sharer(phone[p].running.session) # Other(p)
<1> DEFINE w == phone[p].running
           k == f.media.peer.local
           c == Message(w.session, "candidate", k)
           m == CASE w.step \in {"first", "offer"} -> Message(w.session, "offer", k)
                  [] w.step = "answer" -> Message(w.session, "answer", k)
                  [] w.step = "ask" -> Message(w.session, "restart", 0)
           Fits(x) == /\ x \in Messages /\ x.session = w.session /\ x.offer <= offers
                      /\ x.kind = "offer" => Sharer(w.session) # Other(p)
<1>1. w.session \in Sessions /\ k \in Nat /\ k <= offers /\ offers \in Nat
  BY Sending, Before DEF Peers
<1>2. w.step \in {"first", "offer"} => Sharer(w.session) # Other(p)
  BY Sending, TwoPhones
<1>3. Fits(c)
  BY <1>1 DEF Message, Messages
<1>4. Fits(m)
  <2>1. CASE w.step \in {"first", "offer"}
    BY <1>1, <1>2, <2>1 DEF Message, Messages
  <2>2. CASE w.step = "answer"
    BY <1>1, <2>2 DEF Message, Messages
  <2>3. CASE w.step = "ask"
    BY <1>1, <2>3 DEF Message, Messages
  <2> QED
    BY <2>1, <2>2, <2>3
<1>5. b \in {<<m>>, <<c, m>>, <<m, c>>}
  BY DEF Batches
<1> HIDE DEF m, c
<1>6. CASE b = <<m>>
  BY <1>4, <1>6
<1>7. CASE b = <<c, m>>
  BY <1>3, <1>4, <1>7
<1>8. CASE b = <<m, c>>
  BY <1>3, <1>4, <1>8
<1> QED
  BY <1>5, <1>6, <1>7, <1>8

LEMMA SendGood ==
  ASSUME IInv, NEW p \in Phone, Send(p)
  PROVE  Good
<1> DEFINE w == phone[p].running
           done == Done(phone[p])
           sent == IF w.step = "ask" THEN done ELSE [done EXCEPT !.media.peer.gathered = TRUE]
<1>1. w.step \in {"first", "offer", "answer", "ask"} /\ UNCHANGED <<session, offers, network, faults>>
  BY DEF Send
<1>2. /\ Sound(done, p, session, offers) /\ done.media = phone[p].media
      /\ done.product = phone[p].product /\ done.running = Idle
  BY Before, DoneSound
<1>3. /\ w.session \in Sessions /\ w.session \in Known /\ w.session # 0 /\ w.attempt \in Attempts
      /\ w.step # "ask" => phone[p].media.peer # NoPeer
  BY <1>1, Sending
<1>4. Network' /\ offers' = offers /\ session' = session /\ offers \in Nat /\ session \in Known
  BY <1>1, SameNetwork, Before
<1>5. ASSUME NEW b \in Batches(done, w), CanSend(p, w.session),
             phone' = [phone EXCEPT ![p] = sent, ![Other(p)] = Deliver(@, w.session, b)]
      PROVE  Good
  <2> DEFINE q == Other(p)
             r == Deliver(phone[q], w.session, b)
  <2>1. q \in Phone /\ q # p
    BY TwoPhones
  <2>2. w.session = session
    BY <1>3, <1>5, Before DEF CanSend, Sound, Follow
  <2>3. /\ b \in Seq(Messages)
        /\ \A i \in DOMAIN b : /\ b[i].session = w.session /\ b[i].offer <= offers
                               /\ b[i].kind = "offer" => Sharer(w.session) # q
    BY <1>1, <1>2, <1>5, BatchCarried
  <2>4. Sound(phone[q], q, session, offers)
    BY <2>1, Before
  <2>5. Sound(r, q, session, offers) /\ r.media = phone[q].media
    BY <1>3, <1>4, <2>1, <2>2, <2>3, <2>4, DeliverSound
  <2>6. Sound(sent, p, session, offers) /\ Sheds(phone[p], sent)
    <3>1. CASE w.step = "ask"
      BY <1>2, <3>1 DEF Sheds
    <3>2. CASE w.step # "ask"
      <4> DEFINE peer == [done.media.peer EXCEPT !.gathered = TRUE]
      <4>1. /\ done \in Phones /\ done.media \in Media /\ done.media.peer \in Peers
            /\ Held(done.media, p, offers)
        BY <1>2 DEF Sound, Phones, Media
      <4>2. /\ peer \in Peers /\ peer.gathered /\ peer.local = done.media.peer.local
            /\ peer.remote = done.media.peer.remote
        BY <4>1 DEF Peers
      <4>3. peer # NoPeer /\ peer.local <= offers /\ peer.remote <= offers
        <5>1. ~NoPeer.gathered
          BY DEF NoPeer, NewPeer
        <5> HIDE DEF peer
        <5> QED
          BY <4>1, <4>2, <5>1 DEF Held
      <4>4. sent = [done EXCEPT !.media = [done.media EXCEPT !.peer = peer]]
        <5> HIDE DEF done
        <5> QED
          BY <3>2, <4>1 DEF Phones, Media
      <4>5. done.media.owner # 0
        BY <1>2, <1>3, <3>2, <4>1 DEF Held
      <4> HIDE DEF sent, done, peer
      <4> QED
        BY <1>2, <1>4, <4>2, <4>3, <4>4, <4>5, PeerChange DEF Sheds
    <3> QED
      BY <3>1, <3>2
  <2> HIDE DEF sent, r, q
  <2>7. /\ phone' \in [Phone -> Phones] /\ phone'[p] = sent /\ phone'[q] = r
        /\ \A x \in Phone \ {p, q} : phone'[x] = phone[x]
    <3>1. phone' = [phone EXCEPT ![p] = sent, ![q] = r]
      BY <1>5, <2>1 DEF q, r
    <3> QED
      BY <2>1, <2>5, <2>6, <3>1 DEF IInv, Sound
  <2>8. ASSUME NEW x \in Phone
        PROVE  Sound(phone'[x], x, session', offers') /\ Starts(phone[x], phone'[x])
    <3>1. CASE x = p
      BY <1>4, <2>6, <2>7, <3>1, ShedsStarts
    <3>2. CASE x = q
      BY <1>4, <2>5, <2>7, <3>2 DEF Starts
    <3>3. CASE x \in Phone \ {p, q}
      BY <1>4, <2>7, <3>3, Before DEF Starts
    <3> QED
      BY <3>1, <3>2, <3>3
  <2> QED
    BY <1>4, <2>7, <2>8 DEF Good, IInv
<1>6. ASSUME phone' = [phone EXCEPT ![p] = SendFailed(done, w)]
      PROVE  Good
  <2> DEFINE g == SendFailed(done, w)
  <2>1. Sound(g, p, session, offers) /\ Sheds(phone[p], g)
    <3> HIDE DEF done, w
    <3>1. CASE w.step = "first"
      <4>1. g = End(done, w.session)
        BY <3>1 DEF SendFailed
      <4>2. Sound(End(done, w.session), p, session, offers) /\ End(done, w.session).media = done.media
        BY <1>2, <1>3, <1>4, EndSound
      <4> QED
        BY <1>2, <4>1, <4>2 DEF Sheds
    <3>2. CASE w.step # "first" /\ w.attempt # 0
      <4>1. g = RetryLater(done, w.session, w.attempt)
        BY <3>2 DEF SendFailed
      <4>2. w.attempt \in 1..MaxRestarts
        BY <1>3, <3>2, Bounds DEF Attempts
      <4> QED
        BY <1>2, <1>3, <1>4, <4>1, <4>2, RetrySound DEF Sheds
    <3>3. CASE w.step # "first" /\ w.attempt = 0
      <4>1. g = ScheduleRecovery(done, w.session)
        BY <3>3 DEF SendFailed
      <4> QED
        BY <1>2, <1>3, <1>4, <4>1, ScheduleSound DEF Sheds
    <3> QED
      BY <3>1, <3>2, <3>3
  <2> HIDE DEF g
  <2> QED
    BY <1>4, <1>6, <2>1, OnePhone, ShedsStarts DEF g
<1> QED
  BY <1>5, <1>6 DEF Send
\* The dialog is gone, and with it the operation that waited for it.
LEMMA AnsweredSound ==
  ASSUME NEW p \in Phone, NEW top \in Known, NEW n \in Nat, NEW f, Sound(f, p, top, n), NEW s
  PROVE  /\ Sound(Answered(f, s), p, top, n) /\ Answered(f, s).media = f.media
         /\ Answered(f, s).product = f.product /\ Answered(f, s).queue = f.queue
         /\ Answered(f, s).running = Idle
<1> DEFINE g == Answered(f, s)
<1>1. /\ g \in Phones /\ g.media = f.media /\ g.product = f.product /\ g.queue = f.queue
      /\ g.running = Idle /\ g.screens = f.screens /\ g.entered = f.entered
  BY DEF Sound, Phones, Pauses, Answered
<1> HIDE DEF g
<1>2. Runs(g, p)
  BY <1>1 DEF Runs, Idle, Waits
<1>3. Follow(g, top)
  BY <1>1 DEF Sound, Follow
<1> QED
  BY <1>1, <1>2, <1>3 DEF Sound, g

LEMMA ReleaseSound ==
  ASSUME NEW p \in Phone, NEW top \in Known, NEW n \in Nat, NEW f, Sound(f, p, top, n), NEW s
  PROVE  Sound(ReleaseLateStream(f, s), p, top, n) /\ Sheds(f, ReleaseLateStream(f, s))
         /\ ReleaseLateStream(f, s).running = f.running
<1> DEFINE g == ReleaseLateStream(f, s)
<1>1. /\ g \in Phones /\ g.media = f.media /\ g.product = f.product /\ g.queue = f.queue
      /\ g.running = f.running /\ g.screens = f.screens /\ g.entered = f.entered
  BY DEF Sound, Phones, ReleaseLateStream
<1> HIDE DEF g
<1> QED
  BY <1>1 DEF Sound, Runs, Follow, Sheds, g

\* The stream of the dialog is adopted by a phone that has none.
LEMMA AdoptSound ==
  ASSUME NEW p \in Phone, NEW top \in Known, NEW n \in Nat, n = offers, NEW f,
         Sound(f, p, top, n), NEW s \in Sessions, Sharer(s) = p, f.product = s,
         f.media.capture = 0, f.running = Idle
  PROVE  /\ Sound(Adopt(f, s), p, top, n + 1) /\ Starts(f, Adopt(f, s))
         /\ Adopt(f, s).running.step = "first"
<1> DEFINE m == [f.media EXCEPT !.state = "connecting", !.of = s, !.owner = s, !.peer = NewPeer,
                                !.capture = s]
           e == [f EXCEPT !.media = m, !.screens = @ \cup {s}]
<1>1. /\ s \in Known /\ s # 0 /\ f \in Phones /\ f.media \in Media /\ 0 \in Attempts
      /\ Held(f.media, p, n) /\ f.screens = {}
  BY Bounds DEF Sessions, Known, Attempts, Sound, Phones
<1>2. Adopt(f, s) = Offering(e, "first", s, 0)
  <2>1. [WithPeer(f, s, "connecting") EXCEPT !.media.capture = s, !.screens = @ \cup {s}] = e
    BY <1>1 DEF WithPeer, Show, Phones, Media
  <2> QED
    BY <2>1 DEF Adopt
<1>3. /\ m \in Media /\ m.owner = s /\ m.capture = s /\ m.peer = NewPeer
      /\ m.grace = f.media.grace
  BY <1>1, NewTypes DEF Media, States
<1> HIDE DEF m
<1>4. Held(m, p, n)
  <2>1. NewPeer.local = 0 /\ NewPeer.remote = 0
    BY DEF NewPeer
  <2> QED
    BY <1>1, <1>3, <2>1, NewTypes DEF Held
<1>5. /\ e \in Phones /\ e.media = m /\ e.product = f.product /\ e.queue = f.queue
      /\ e.running = f.running /\ e.screens = {s} /\ e.entered = f.entered
  BY <1>1, <1>3 DEF Phones
<1> HIDE DEF e
<1>6. Runs(e, p)
  BY <1>5 DEF Runs, Idle, Waits
<1>7. Follow(e, top)
  BY <1>1, <1>3, <1>5 DEF Sound, Follow
<1>8. Sound(e, p, top, n)
  BY <1>3, <1>4, <1>5, <1>6, <1>7 DEF Sound
<1> DEFINE g == Offering(e, "first", s, 0)
<1>9. Sound(g, p, top, n + 1) /\ Sheds(e, g) /\ g.running.step = "first"
  BY <1>1, <1>3, <1>5, <1>8, NewTypes, OfferingSound
<1>10. g.product = e.product
  <2>1. Await(e, "first", s, 0).product = e.product /\ Await(e, "first", s, 0) \in Phones
    BY <1>1, <1>5 DEF Await, Waits, Phones, Pauses, Steps
  <2> QED
    BY <2>1 DEF Offering, Phones
<1> HIDE DEF g
<1>11. Starts(f, g)
  BY <1>1, <1>3, <1>5, <1>9, <1>10 DEF Sheds, Starts
<1> QED
  BY <1>2, <1>9, <1>11 DEF g

\* What a phone that waits for a dialog is.
LEMMA Asking ==
  ASSUME IInv, NEW p \in Phone, NEW s, Pending(p, s)
  PROVE  /\ s \in Sessions /\ s \in Known /\ s # 0 /\ Sharer(s) = p
         /\ phone[p].media.capture = 0
         /\ phone[p].product = s \/ Pends(phone[p].queue)
<1>1. phone[p].running.step = "consent" /\ phone[p].running.session = s
  BY DEF Pending
<1>2. phone[p].running \in Pauses /\ phone[p].running # Idle
  BY <1>1, Before DEF Phones, Idle, Waits
<1>3. s \in Sessions
  BY <1>1, <1>2 DEF Pauses
<1> QED
  BY <1>1, <1>3, Before, Bounds DEF Sound, Runs, Sessions, Known

LEMMA UserGrantsGood ==
  ASSUME IInv, NEW p \in Phone, UserGrants(p)
  PROVE  Good
<1>1. PICK s \in phone[p].dialogs :
        /\ phone' = [phone EXCEPT ![p] =
             IF Pending(p, s) THEN Granted(Answered(@, s), s) ELSE ReleaseLateStream(@, s)]
        /\ offers' = IF Pending(p, s) /\ phone[p].product = s THEN offers + 1 ELSE offers
        /\ UNCHANGED <<session, network, faults>>
  BY DEF UserGrants
<1>3. Sound(phone[p], p, session, offers) /\ offers \in Nat /\ session \in Known
  BY Before
<1>4. ASSUME NEW g, phone' = [phone EXCEPT ![p] = g], Starts(phone[p], g),
             Sound(g, p, session, offers')
      PROVE  Good
  <2>1. offers' \in {offers, offers + 1}
    BY <1>1
  <2>2. Network' /\ session' = session
    BY <1>1, <2>1, SameNetwork
  <2> QED
    BY <1>4, <2>1, <2>2, OnePhone
<1>5. CASE Pending(p, s)
  <2> DEFINE f == Answered(phone[p], s)
             g == Granted(f, s)
  <2>1. phone' = [phone EXCEPT ![p] = g]
    BY <1>1, <1>5
  <2>2. /\ Sound(f, p, session, offers) /\ f.media = phone[p].media /\ f.running = Idle
        /\ f.product = phone[p].product
    BY <1>3, AnsweredSound
  <2>3. s \in Sessions /\ Sharer(s) = p /\ phone[p].media.capture = 0
    BY <1>5, Asking
  <2> HIDE DEF f
  <2>4. CASE f.product = s
    <3>1. g = Adopt(f, s)
      BY <2>4 DEF Granted
    <3>2. Sound(g, p, session, offers + 1) /\ Starts(f, g)
      BY <1>3, <2>2, <2>3, <2>4, <3>1, AdoptSound
    <3> HIDE DEF g
    <3>3. Starts(phone[p], g) /\ offers' = offers + 1
      BY <1>1, <1>5, <2>2, <2>4, <3>2 DEF Starts
    <3> QED
      BY <1>4, <2>1, <3>2, <3>3
  <2>5. CASE f.product # s /\ f.media.owner = s
    <3>1. g = ResetMedia(f)
      BY <2>5 DEF Granted
    <3>2. Sound(g, p, session, offers) /\ Sheds(f, g)
      BY <1>3, <2>2, <3>1, ResetSound
    <3> HIDE DEF g
    <3>3. Starts(phone[p], g) /\ offers' = offers
      BY <1>1, <2>2, <2>5, <3>2 DEF Starts, Sheds
    <3> QED
      BY <1>4, <2>1, <3>2, <3>3
  <2>6. CASE f.product # s /\ f.media.owner # s
    <3>1. g = f
      BY <2>6 DEF Granted
    <3> HIDE DEF g
    <3>2. Starts(phone[p], g) /\ offers' = offers
      BY <1>1, <2>2, <2>6, <3>1 DEF Starts
    <3> QED
      BY <1>4, <2>1, <2>2, <3>1, <3>2
  <2> QED
    BY <2>4, <2>5, <2>6
<1>6. CASE ~Pending(p, s)
  <2> DEFINE g == ReleaseLateStream(phone[p], s)
  <2>1. phone' = [phone EXCEPT ![p] = g]
    BY <1>1, <1>6
  <2>2. Sound(g, p, session, offers) /\ Sheds(phone[p], g)
    BY <1>3, ReleaseSound
  <2> HIDE DEF g
  <2>3. offers' = offers
    BY <1>1, <1>6
  <2> QED
    BY <1>4, <2>1, <2>2, <2>3, ShedsStarts
<1> QED
  BY <1>5, <1>6
\* A step of one phone that leaves everything else alone.
LEMMA QuietStep ==
  ASSUME IInv, NEW p \in Phone, NEW g, phone' = [phone EXCEPT ![p] = g],
         UNCHANGED <<session, offers>>, Network', Sound(g, p, session, offers),
         Sheds(phone[p], g)
  PROVE  Good
  BY OnePhone, ShedsStarts

LEMMA UserRefusesGood ==
  ASSUME IInv, NEW p \in Phone, UserRefuses(p)
  PROVE  Good
<1>1. PICK s \in phone[p].dialogs :
        /\ phone' = [phone EXCEPT ![p] =
             IF Pending(p, s) THEN DenyCapture(Answered(@, s), s) ELSE ReleaseLateStream(@, s)]
        /\ UNCHANGED <<session, offers, network, faults>>
  BY DEF UserRefuses
<1>2. Sound(phone[p], p, session, offers) /\ offers \in Nat /\ session \in Known
  BY Before
<1>3. Network' /\ UNCHANGED <<session, offers>>
  BY <1>1, SameNetwork
<1>4. CASE Pending(p, s)
  <2> DEFINE f == Answered(phone[p], s)
             g == DenyCapture(f, s)
  <2>1. phone' = [phone EXCEPT ![p] = g]
    BY <1>1, <1>4
  <2>2. /\ Sound(f, p, session, offers) /\ f.media = phone[p].media
        /\ f.product = phone[p].product /\ f.queue = phone[p].queue
    BY <1>2, AnsweredSound
  <2>3. s \in Sessions /\ (f.product = s \/ Pends(f.queue))
    BY <1>4, <2>2, Asking
  <2> HIDE DEF f
  <2>4. Sound(g, p, session, offers) /\ Sheds(f, g)
    BY <1>2, <2>2, <2>3, DenySound
  <2> HIDE DEF g
  <2>5. Sheds(phone[p], g)
    BY <2>2, <2>4 DEF Sheds
  <2> QED
    BY <1>3, <2>1, <2>4, <2>5, QuietStep
<1>5. CASE ~Pending(p, s)
  <2> DEFINE g == ReleaseLateStream(phone[p], s)
  <2>1. phone' = [phone EXCEPT ![p] = g]
    BY <1>1, <1>5
  <2>2. Sound(g, p, session, offers) /\ Sheds(phone[p], g)
    BY <1>2, ReleaseSound
  <2> HIDE DEF g
  <2> QED
    BY <1>3, <2>1, <2>2, QuietStep
<1> QED
  BY <1>4, <1>5

LEMMA ConsentTimesOutGood ==
  ASSUME IInv, NEW p \in Phone, ConsentTimesOut(p)
  PROVE  Good
<1> DEFINE s == phone[p].running.session
           f == Done(phone[p])
           g == DenyCapture(f, s)
<1>1. /\ Pending(p, s) /\ phone' = [phone EXCEPT ![p] = g]
      /\ UNCHANGED <<session, offers, network, faults>>
  BY DEF ConsentTimesOut, Pending
<1>2. Sound(phone[p], p, session, offers) /\ offers \in Nat /\ session \in Known
  BY Before
<1>3. Network' /\ UNCHANGED <<session, offers>>
  BY <1>1, SameNetwork
<1>4. /\ Sound(f, p, session, offers) /\ f.media = phone[p].media
      /\ f.product = phone[p].product /\ f.queue = phone[p].queue
  BY <1>2, DoneSound
<1>5. s \in Sessions /\ (f.product = s \/ Pends(f.queue))
  BY <1>1, <1>4, Asking
<1> HIDE DEF f, s
<1>6. Sound(g, p, session, offers) /\ Sheds(f, g)
  BY <1>2, <1>4, <1>5, DenySound
<1> HIDE DEF g
<1>7. Sheds(phone[p], g)
  BY <1>4, <1>6 DEF Sheds
<1> QED
  BY <1>1, <1>3, <1>6, <1>7, QuietStep

\* The transport of a peer that is there reports a change.
LEMMA ReportsGood ==
  ASSUME IInv, NEW p \in Phone, NEW t \in {"connected", "disconnected", "failed"},
         phone[p].media.peer # NoPeer, Reports(p, t), UNCHANGED <<session, offers, network, faults>>
  PROVE  Good
<1> DEFINE f == Turned(phone[p], t)
           peer == [phone[p].media.peer EXCEPT !.transport = t]
           e == phone[p]
<1>1. /\ Sound(e, p, session, offers) /\ offers \in Nat /\ session \in Known
      /\ e \in Phones /\ e.media \in Media /\ e.media.peer \in Peers /\ Held(e.media, p, offers)
      /\ e.media.owner \in Sessions /\ e.media.owner # 0
  BY Before, Bounds DEF Sound, Phones, Media, Held, Sessions, Known
<1>2. Network' /\ UNCHANGED <<session, offers>>
  BY SameNetwork
<1>3. peer \in Peers /\ peer.transport = t /\ peer.local = e.media.peer.local
      /\ peer.remote = e.media.peer.remote
  BY <1>1 DEF Peers
<1>4. peer # NoPeer /\ peer.local <= offers /\ peer.remote <= offers
  <2>1. NoPeer.transport = "none"
    BY DEF NoPeer, NewPeer
  <2> QED
    BY <1>1, <1>3, <2>1 DEF Held
<1>5. f = [e EXCEPT !.media = [e.media EXCEPT !.peer = peer]]
  BY <1>1 DEF Turned, Phones, Media
<1>6. Sound(f, p, session, offers) /\ Sheds(e, f)
  <2> HIDE DEF e, peer, f
  <2> QED
    BY <1>1, <1>3, <1>4, <1>5, PeerChange
<1>7. f.media.owner = e.media.owner /\ f.media.peer = peer
  BY <1>1, <1>3, <1>5 DEF Phones, Media
<1> DEFINE g == CASE t = "failed" -> Lost(f)
                  [] t = "disconnected" -> Degraded(f)
                  [] t = "connected" -> Connected(f, p)
<1>8. phone' = [phone EXCEPT ![p] = g]
  BY DEF Reports
<1>9. f \in Phones /\ f.media \in Media /\ Held(f.media, p, offers) /\ f.media # Quiet
  BY <1>1, <1>6, <1>7, NewTypes DEF Sound, Phones
<1> HIDE DEF f
\* The media after the report, but for what is queued.
<1>10. ASSUME NEW m \in Media, m.owner = f.media.owner, m.peer = f.media.peer,
              m.capture = f.media.capture
       PROVE  LET h == [f EXCEPT !.media = m]
              IN Sound(h, p, session, offers) /\ Sheds(f, h) /\ h.media = m
  <2>1. Held(m, p, offers)
    BY <1>1, <1>7, <1>9, <1>10 DEF Held
  <2>2. Sound([f EXCEPT !.media = m], p, session, offers)
    BY <1>1, <1>6, <1>9, <1>10, <2>1, MediaChange
  <2>3. [f EXCEPT !.media = m].media = m
    BY <1>9 DEF Phones
  <2> QED
    BY <1>10, <2>2, <2>3 DEF Sheds
<1>11. Sound(g, p, session, offers) /\ Sheds(f, g)
  <2>1. CASE t = "failed"
    <3> DEFINE m == [f.media EXCEPT !.grace = FALSE]
               o == Op("recover", f.media.owner)
               h == [f EXCEPT !.media = m]
    <3>1. m \in Media /\ m.owner = f.media.owner /\ m.peer = f.media.peer
          /\ m.capture = f.media.capture
      BY <1>9 DEF Media
    <3>2. o \in Calls
      BY <1>1, <1>7 DEF Op, Calls
    <3>3. g = Enqueue(h, o)
      BY <1>9, <2>1 DEF Lost, Phones, Media
    <3> HIDE DEF m, o
    <3>4. Sound(h, p, session, offers) /\ Sheds(f, h)
      BY <1>10, <3>1
    <3> HIDE DEF h, g
    <3> QED
      BY <1>1, <3>2, <3>3, <3>4, EnqueueSound DEF Sheds
  <2>2. CASE t = "disconnected"
    <3> DEFINE m == [f.media EXCEPT !.grace = TRUE]
    <3>1. m \in Media /\ m.owner = f.media.owner /\ m.peer = f.media.peer
          /\ m.capture = f.media.capture
      BY <1>9 DEF Media
    <3>2. g = [f EXCEPT !.media = m]
      BY <1>9, <2>2 DEF Degraded, Phones, Media
    <3> HIDE DEF m, g
    <3> QED
      BY <1>10, <3>1, <3>2
  <2>3. CASE t = "connected"
    <3> DEFINE state == IF Shares(p, f.media.owner) \/ f.media.frame THEN "live" ELSE "connecting"
               m == [f.media EXCEPT !.state = state, !.of = f.media.owner, !.grace = FALSE,
                                    !.restart = NoTimer, !.attempt = 0]
    <3>1. state \in States /\ 0 \in Attempts
      BY Bounds DEF States, Attempts
    <3>2. g = [f EXCEPT !.media = m]
      <4>1. g = Connected(f, p)
        BY <2>3
      <4>2. Connected(f, p)
              = [Show(f, state, f.media.owner)
                  EXCEPT !.media.grace = FALSE, !.media.restart = NoTimer, !.media.attempt = 0]
        BY DEF Connected
      <4> HIDE DEF state, g
      <4>3. [Show(f, state, f.media.owner)
               EXCEPT !.media.grace = FALSE, !.media.restart = NoTimer, !.media.attempt = 0]
              = [f EXCEPT !.media = m]
        BY <1>9 DEF Show, Phones, Media
      <4> QED
        BY <4>1, <4>2, <4>3
    <3> HIDE DEF state
    <3>3. m \in Media /\ m.owner = f.media.owner /\ m.peer = f.media.peer
          /\ m.capture = f.media.capture
      BY <1>9, <3>1, NewTypes DEF Media
    <3> HIDE DEF m, g
    <3> QED
      BY <1>10, <3>2, <3>3
  <2> QED
    BY <2>1, <2>2, <2>3
<1> HIDE DEF g
<1>12. Sheds(phone[p], g)
  BY <1>6, <1>11 DEF Sheds
<1> QED
  BY <1>2, <1>8, <1>11, <1>12, QuietStep

LEMMA TransportGood ==
  ASSUME IInv, NEW p \in Phone, Transport(p)
  PROVE  Good
<1>1. phone[p].media.peer # NoPeer /\ UNCHANGED <<session, offers, network, faults>>
  BY DEF Transport
<1>2. Reports(p, "connected") \/ Reports(p, "disconnected") \/ Reports(p, "failed")
  BY DEF Transport
<1> QED
  BY <1>1, <1>2, ReportsGood
LEMMA TimerGood ==
  ASSUME IInv, NEW p \in Phone, TimerFires(p)
  PROVE  Good
<1> DEFINE f == phone[p]
<1>1. /\ Sound(f, p, session, offers) /\ offers \in Nat /\ session \in Known
      /\ f \in Phones /\ f.media \in Media /\ Held(f.media, p, offers)
  BY Before DEF Sound
<1>2. Network' /\ UNCHANGED <<session, offers>>
  BY SameNetwork DEF TimerFires
<1>3. ASSUME NEW m \in Media, m.owner = f.media.owner, m.peer = f.media.peer,
             m.capture = f.media.capture, m.state = f.media.state, m.grace => f.media.grace,
             f.media # Quiet, NEW o \in Calls, f.media.owner # 0 \/ m.state # "idle" \/ m = Quiet,
             phone' = [phone EXCEPT ![p] = Enqueue([f EXCEPT !.media = m], o)]
      PROVE  Good
  <2> DEFINE h == [f EXCEPT !.media = m]
             g == Enqueue(h, o)
  <2>1. Held(m, p, offers)
    BY <1>1, <1>3 DEF Held
  <2>2. Sound(h, p, session, offers)
    BY <1>1, <1>3, <2>1, MediaChange
  <2>3. h.media = m
    BY <1>1 DEF Phones
  <2> HIDE DEF h
  <2>4. Sound(g, p, session, offers) /\ g.media = h.media
    BY <1>1, <1>3, <2>2, EnqueueSound
  <2> HIDE DEF g
  <2>5. Sheds(phone[p], g)
    BY <1>3, <2>3, <2>4 DEF Sheds
  <2> QED
    BY <1>2, <1>3, <2>4, <2>5, QuietStep DEF g, h
<1>4. CASE f.media.grace /\ phone' = [phone EXCEPT ![p] = GraceFires(@)]
  <2> DEFINE m == [f.media EXCEPT !.grace = FALSE]
             o == Op("grace", f.media.owner)
  <2>1. f.media.owner # 0 /\ f.media # Quiet /\ f.media.owner \in Sessions
    BY <1>1, <1>4, NewTypes, Bounds DEF Held, Media, Known, Sessions
  <2>2. /\ m \in Media /\ m.owner = f.media.owner /\ m.peer = f.media.peer
        /\ m.capture = f.media.capture /\ m.state = f.media.state /\ ~m.grace
    BY <1>1 DEF Media
  <2>3. o \in Calls
    BY <2>1 DEF Op, Calls
  <2>4. GraceFires(f) = Enqueue([f EXCEPT !.media = m], o)
    BY <1>1 DEF GraceFires, Phones, Media
  <2> HIDE DEF m, o
  <2>5. phone' = [phone EXCEPT ![p] = Enqueue([f EXCEPT !.media = m], o)]
    BY <1>4, <2>4
  <2> HIDE DEF f
  <2> QED
    BY <1>3, <2>1, <2>2, <2>3, <2>5
<1>5. CASE f.media.restart # NoTimer /\ phone' = [phone EXCEPT ![p] = RestartFires(@)]
  <2> DEFINE t == f.media.restart
             m == [f.media EXCEPT !.restart = NoTimer]
             o == IF t.kind = "retry" THEN Op("recover", t.session)
                  ELSE [op |-> "restart", session |-> t.session, attempt |-> t.attempt]
  <2>1. t.session \in Sessions /\ t.attempt \in 1..MaxRestarts
    BY <1>1, <1>5 DEF Media, Timers
  <2>2. Quiet.restart = NoTimer
    BY DEF Quiet
  <2>3. /\ m \in Media /\ m.owner = f.media.owner /\ m.peer = f.media.peer
        /\ m.capture = f.media.capture /\ m.state = f.media.state /\ m.grace = f.media.grace
    BY <1>1, NewTypes DEF Media
  <2>4. o \in Calls
    BY <2>1 DEF Op, Calls
  <2>5. RestartFires(f) = Enqueue([f EXCEPT !.media = m], o)
    BY <1>1 DEF RestartFires, Phones, Media
  <2>6. f.media.owner # 0 \/ f.media.state # "idle"
    BY <1>1, <1>5, <2>2 DEF Held
  <2> HIDE DEF m, o
  <2>7. phone' = [phone EXCEPT ![p] = Enqueue([f EXCEPT !.media = m], o)]
    BY <1>5, <2>5
  <2> HIDE DEF f
  <2> QED
    BY <1>3, <1>5, <2>2, <2>3, <2>4, <2>6, <2>7
<1> QED
  BY <1>4, <1>5 DEF TimerFires

LEMMA FirstFrameGood ==
  ASSUME IInv, NEW p \in Phone, FirstFrame(p)
  PROVE  Good
<1> DEFINE e == phone[p]
           f == Seen(e)
           m == [e.media EXCEPT !.frame = TRUE]
           g == Show(f, "live", e.media.owner)
<1>1. /\ Sound(e, p, session, offers) /\ offers \in Nat /\ session \in Known
      /\ e \in Phones /\ e.media \in Media /\ Held(e.media, p, offers)
      /\ e.media.owner \in Known
  BY Before DEF Sound, Media
<1>2. Network' /\ UNCHANGED <<session, offers>>
  BY SameNetwork DEF FirstFrame
<1>3. e.media.owner # 0 /\ e.media # Quiet
  BY NewTypes DEF FirstFrame
<1>4. phone' = [phone EXCEPT ![p] = f] \/ phone' = [phone EXCEPT ![p] = g]
  BY DEF FirstFrame
<1>5. /\ m \in Media /\ m.owner = e.media.owner /\ m.peer = e.media.peer
      /\ m.capture = e.media.capture /\ m.grace = e.media.grace
  BY <1>1 DEF Media
<1>6. f = [e EXCEPT !.media = m]
  BY <1>1 DEF Seen, Phones, Media
<1>7. [e EXCEPT !.media = m].media = m
  BY <1>1 DEF Phones
<1> HIDE DEF m
<1>8. Held(m, p, offers)
  BY <1>1, <1>3, <1>5 DEF Held
<1>9. Sound(f, p, session, offers) /\ f.media = m
  BY <1>1, <1>3, <1>5, <1>6, <1>7, <1>8, MediaChange
<1>10. "live" \in States /\ f.media # Quiet
  BY <1>3, <1>5, <1>9, NewTypes DEF States
<1> HIDE DEF f
<1>11. Sound(g, p, session, offers)
  BY <1>1, <1>9, <1>10, ShowSound
<1>12. g.media.capture = f.media.capture
  BY <1>1, <1>9, <1>10, ShowSound
<1>13. Sheds(phone[p], f) /\ Sheds(phone[p], g)
  BY <1>5, <1>9, <1>12 DEF Sheds
<1> HIDE DEF g
<1> QED
  BY <1>2, <1>4, <1>9, <1>11, <1>13, QuietStep

LEMMA AcceptedGood ==
  ASSUME IInv, NEW p \in Phone, Accepted(p)
  PROVE  Good
<1> DEFINE g == Enter(phone[p], session)
<1>1. /\ phone[p].product = 0 /\ phone[p].entered < session
      /\ phone' = [phone EXCEPT ![p] = g]
      /\ UNCHANGED <<session, offers, network, faults>>
  BY DEF Accepted
<1>2. Sound(phone[p], p, session, offers) /\ offers \in Nat /\ session \in Known
      /\ phone[p].entered \in Nat
  BY Before, Bounds DEF Phones, Known
<1>3. session \in Sessions /\ session <= session
  BY <1>1, <1>2, Bounds DEF Known, Sessions
<1>4. Sound(g, p, session, offers) /\ g.media = phone[p].media
  BY <1>1, <1>2, <1>3, EnterSound
<1>5. Network' /\ Sheds(phone[p], g)
  BY <1>1, <1>4, SameNetwork DEF Sheds
<1> HIDE DEF g
<1> QED
  BY <1>1, <1>4, <1>5, QuietStep

\* Fields that no part of the invariant is about.
LEMMA OtherFields ==
  ASSUME NEW p, NEW top, NEW n, NEW f, Sound(f, p, top, n), NEW g \in Phones,
         g.media = f.media, g.product = f.product, g.queue = f.queue,
         g.running = f.running, g.screens \subseteq f.screens, g.entered = f.entered
  PROVE  Sound(g, p, top, n) /\ Sheds(f, g)
  BY DEF Sound, Runs, Follow, Sheds

LEMMA FollowsGood ==
  ASSUME IInv, NEW p \in Phone, Follows(p)
  PROVE  Good
<1>1. /\ Sound(phone[p], p, session, offers) /\ offers \in Nat /\ session \in Known
      /\ phone[p] \in Phones
  BY Before
<1>2. Network' /\ UNCHANGED <<session, offers>>
  BY SameNetwork DEF Follows
<1>3. CASE ShareScreen(p)
  <2> DEFINE s == phone[p].product
             o == Op("start", s)
             e == Enqueue(phone[p], o)
             g == [e EXCEPT !.started = s]
  <2>1. phone' = [phone EXCEPT ![p] = g]
    BY <1>3 DEF ShareScreen, AskToShare
  <2>2. s \in Known
    BY <1>1 DEF Phones
  <2>3. o \in Calls
    BY <2>2 DEF Op, Calls
  <2> HIDE DEF o
  <2>4. Sound(e, p, session, offers) /\ e.media = phone[p].media
    BY <1>1, <2>3, EnqueueSound
  <2> HIDE DEF e
  <2>5. /\ g \in Phones /\ g.media = e.media /\ g.product = e.product /\ g.queue = e.queue
        /\ g.running = e.running /\ g.screens = e.screens /\ g.entered = e.entered
    BY <2>2, <2>4 DEF Sound, Phones
  <2> HIDE DEF g
  <2>6. Sound(g, p, session, offers) /\ Sheds(phone[p], g)
    BY <2>4, <2>5, OtherFields DEF Sheds
  <2> QED
    BY <1>2, <2>1, <2>6, QuietStep
<1>4. CASE EndSession(p)
  <2> DEFINE e == EndProduct(phone[p], phone[p].ending.session)
             g == [e EXCEPT !.ending = Idle]
  <2>1. phone' = [phone EXCEPT ![p] = g]
    BY <1>4 DEF EndSession, Ended
  <2>2. Sound(e, p, session, offers) /\ e.media = phone[p].media
    BY <1>1, EndProductSound
  <2> HIDE DEF e
  <2>3. Idle \in [step : {"idle", "stop", "leave"}, session : Known, attempt : {0}]
    BY Bounds DEF Idle, Waits, Known
  <2>4. /\ g \in Phones /\ g.media = e.media /\ g.product = e.product /\ g.queue = e.queue
        /\ g.running = e.running /\ g.screens = e.screens /\ g.entered = e.entered
    BY <2>2, <2>3 DEF Sound, Phones
  <2> HIDE DEF g
  <2>5. Sound(g, p, session, offers) /\ Sheds(phone[p], g)
    BY <2>2, <2>4, OtherFields DEF Sheds
  <2> QED
    BY <1>2, <2>1, <2>5, QuietStep
<1>5. CASE PartnerLeft(p)
  <2> DEFINE g == Leave(phone[p])
  <2>1. phone' = [phone EXCEPT ![p] = g]
    BY <1>5 DEF PartnerLeft
  <2>2. Sound(g, p, session, offers) /\ g.media = phone[p].media
    BY <1>1, LeaveSound
  <2> HIDE DEF g
  <2> QED
    BY <1>2, <2>1, <2>2, QuietStep DEF Sheds
<1> QED
  BY <1>3, <1>4, <1>5 DEF Follows

\* The sharer accepts the next session: the phones have none.
LEMMA AcceptGood ==
  ASSUME IInv, Accept
  PROVE  Good
<1> DEFINE s == session + 1
           q == Sharer(s)
           g == Enter(phone[q], s)
<1>1. /\ session < MaxSession /\ \A p \in Phone : phone[p].product = 0
      /\ session' = s /\ phone' = [phone EXCEPT ![q] = g] /\ link' = "up"
      /\ UNCHANGED <<offers, path, torn, faults>>
  BY DEF Accept
<1>2. /\ session \in Known /\ session \in Nat /\ s \in Sessions /\ s \in Known /\ session <= s
      /\ offers \in Nat
  BY <1>1, Bounds DEF IInv, Network, Known, Sessions
<1>3. q \in Phone
  BY <1>2, MediaAssumption DEF Sessions
<1>4. Network'
  BY <1>1, <1>2 DEF IInv, Network
<1>5. ASSUME NEW p \in Phone PROVE phone[p].entered \in Nat /\ phone[p].entered <= session
  BY Before, Bounds DEF Sound, Follow, Phones, Known
<1>6. Sound(g, q, s, offers) /\ g.media = phone[q].media
  <2>1. phone[q].entered < s
    BY <1>2, <1>3, <1>5
  <2> QED
    BY <1>1, <1>2, <1>3, <2>1, Before, EnterSound
<1> HIDE DEF q, s, g
<1>7. /\ phone' \in [Phone -> Phones] /\ phone'[q] = g
      /\ \A p \in Phone \ {q} : phone'[p] = phone[p]
  BY <1>1, <1>3, <1>6 DEF IInv, Sound
<1>8. ASSUME NEW p \in Phone \ {q} PROVE Sound(phone[p], p, s, offers)
  <2>1. Sound(phone[p], p, session, offers) /\ phone[p].product = 0
        /\ phone[p].entered <= s
    BY <1>1, <1>2, <1>5, Before DEF s
  <2> QED
    BY <2>1 DEF Sound, Follow
<1>9. ASSUME NEW p \in Phone
      PROVE  Sound(phone'[p], p, session', offers') /\ Starts(phone[p], phone'[p])
  <2>1. CASE p = q
    BY <1>1, <1>6, <1>7, <2>1 DEF Starts
  <2>2. CASE p # q
    BY <1>1, <1>7, <1>8, <2>2 DEF Starts
  <2> QED
    BY <2>1, <2>2
<1> QED
  BY <1>4, <1>7, <1>9 DEF Good, IInv
\* Nothing happens to the phones.
LEMMA StillGood ==
  ASSUME IInv, UNCHANGED <<phone, session, offers>>, Network'
  PROVE  Good
<1>1. ASSUME NEW p \in Phone PROVE Sound(phone'[p], p, session', offers') /\ Starts(phone[p], phone'[p])
  BY Before DEF Starts
<1> QED
  BY <1>1 DEF Good, IInv

LEMMA FaultGood ==
  ASSUME IInv, Fault
  PROVE  Good
<1>1. faults < MaxFaults /\ faults' = faults + 1 /\ UNCHANGED <<session, offers>>
  BY DEF Fault
<1>2. session' \in Known /\ offers' \in Nat /\ faults' \in 0..MaxFaults
  BY <1>1, Bounds DEF IInv, Network
<1>3. CASE LinkBreaks /\ UNCHANGED path
  <2>1. Network'
    BY <1>2, <1>3 DEF IInv, Network, LinkBreaks
  <2>2. CASE UNCHANGED <<phone, torn>>
    BY <1>1, <2>1, <2>2, StillGood
  <2>3. CASE \E p \in Phone : phone' = [phone EXCEPT ![p].queue = Emptied(@)]
    <3>1. PICK p \in Phone : phone' = [phone EXCEPT ![p].queue = Emptied(@)]
      BY <2>3
    <3> DEFINE f == phone[p]
               g == [f EXCEPT !.queue = Emptied(f.queue)]
    <3>2. phone' = [phone EXCEPT ![p] = g]
      BY <3>1
    <3>3. /\ Sound(f, p, session, offers) /\ offers \in Nat /\ session \in Known /\ f \in Phones
          /\ f.queue \in Seq(Operations) /\ f.entered \in Nat /\ f.product \in Known
      BY Before, Bounds DEF Phones, Known
    <3>4. /\ Emptied(f.queue) \in Seq(Operations)
          /\ Carried(Emptied(f.queue), p, f.entered, offers)
          /\ Pends(f.queue) => Pends(Emptied(f.queue))
          /\ \A s \in Sessions : Ahead(f.queue, s) => Ahead(Emptied(f.queue), s)
      BY <3>3, EmptiedKeeps
    <3>5. /\ g \in Phones /\ g.media = f.media /\ g.product = f.product
          /\ g.queue = Emptied(f.queue)
          /\ g.running = f.running /\ g.screens = f.screens /\ g.entered = f.entered
      BY <3>3, <3>4 DEF Phones
    <3> HIDE DEF f, g
    <3>6. Runs(g, p)
      BY <3>3, <3>4, <3>5 DEF Sound, Runs
    <3>7. f.product # 0 => f.product \in Sessions
      BY <3>3, Bounds DEF Known, Sessions
    <3>8. Follow(g, session)
      BY <3>3, <3>4, <3>5, <3>7 DEF Sound, Follow
    <3>9. Sound(g, p, session, offers) /\ Sheds(f, g)
      BY <3>3, <3>4, <3>5, <3>6, <3>8 DEF Sound, Sheds
    <3> QED
      BY <1>1, <2>1, <3>2, <3>9, QuietStep DEF f
  <2> QED
    BY <1>3, <2>2, <2>3 DEF LinkBreaks
<1>4. CASE PathBreaks /\ UNCHANGED <<phone, link, torn>>
  <2>1. Network'
    BY <1>2, <1>4 DEF IInv, Network, PathBreaks
  <2> QED
    BY <1>1, <1>4, <2>1, StillGood
<1>5. ASSUME NEW p \in Phone, UserEnds(p) \/ SessionLost(p) \/ Revoke(p) \/ GrantHasNoTrack(p),
             UNCHANGED network
      PROVE  Good
  <2>1. Network'
    BY <1>2, <1>5 DEF IInv, Network, network
  <2>2. /\ Sound(phone[p], p, session, offers) /\ offers \in Nat /\ session \in Known
        /\ phone[p] \in Phones /\ phone[p].product \in Known
    BY Before DEF Phones
  <2>3. CASE UserEnds(p)
    <3> DEFINE g == End(phone[p], phone[p].product)
    <3>1. phone' = [phone EXCEPT ![p] = g]
      BY <2>3 DEF UserEnds
    <3>2. Sound(g, p, session, offers) /\ g.media = phone[p].media
      BY <2>2, EndSound
    <3> HIDE DEF g
    <3> QED
      BY <1>1, <2>1, <3>1, <3>2, QuietStep DEF Sheds
  <2>4. CASE SessionLost(p)
    <3> DEFINE g == Leave(phone[p])
    <3>1. phone' = [phone EXCEPT ![p] = g]
      BY <2>4 DEF SessionLost
    <3>2. Sound(g, p, session, offers) /\ g.media = phone[p].media
      BY <2>2, LeaveSound
    <3> HIDE DEF g
    <3> QED
      BY <1>1, <2>1, <3>1, <3>2, QuietStep DEF Sheds
  <2>5. CASE Revoke(p)
    <3> DEFINE f == phone[p]
               o == Op("ended", f.media.capture)
               e == Enqueue(f, o)
               g == [e EXCEPT !.screens = f.screens \ {f.media.capture}]
    <3>1. phone' = [phone EXCEPT ![p] = g]
      BY <2>5 DEF Revoke, Revoked
    <3>2. f.media.capture \in Sessions
      BY <2>2, <2>5 DEF Revoke, Phones
    <3>3. o \in Calls
      BY <3>2 DEF Op, Calls
    <3> HIDE DEF o
    <3>4. Sound(e, p, session, offers) /\ e.media = f.media /\ e.screens = f.screens
      BY <2>2, <3>3, EnqueueSound DEF Rest
    <3> HIDE DEF e
    <3>5. /\ g \in Phones /\ g.media = e.media /\ g.product = e.product /\ g.queue = e.queue
          /\ g.running = e.running /\ g.screens \subseteq e.screens /\ g.entered = e.entered
      BY <3>4 DEF Sound, Phones
    <3> HIDE DEF g
    <3>6. Sound(g, p, session, offers) /\ Sheds(phone[p], g)
      BY <3>4, <3>5, OtherFields DEF Sheds
    <3> QED
      BY <1>1, <2>1, <3>1, <3>6, QuietStep
  <2>6. CASE GrantHasNoTrack(p)
    <3>1. PICK s \in phone[p].dialogs :
            /\ Pending(p, s) /\ phone[p].product = s
            /\ phone' = [phone EXCEPT ![p] = Fail(Answered(@, s), s)]
      BY <2>6 DEF GrantHasNoTrack
    <3> DEFINE f == Answered(phone[p], s)
               g == Fail(f, s)
    <3>2. phone' = [phone EXCEPT ![p] = g]
      BY <3>1
    <3>3. /\ Sound(f, p, session, offers) /\ f.media = phone[p].media /\ f.running = Idle
          /\ f.product = phone[p].product
      BY <2>2, AnsweredSound
    <3>4. s \in Known /\ s # 0
      BY <3>1, Asking
    <3> HIDE DEF f
    <3>5. Sound(g, p, session, offers) /\ Sheds(f, g)
      BY <2>2, <3>1, <3>3, <3>4, FailSound
    <3> HIDE DEF g
    <3>6. Sheds(phone[p], g)
      BY <3>3, <3>5 DEF Sheds
    <3> QED
      BY <1>1, <2>1, <3>2, <3>5, <3>6, QuietStep
  <2> QED
    BY <1>5, <2>3, <2>4, <2>5, <2>6
<1> QED
  BY <1>3, <1>4, <1>5 DEF Fault

-----------------------------------------------------------------------------
(* The theorems. *)

LEMMA InitGood == Init => IInv
<1> SUFFICES ASSUME Init PROVE IInv
  OBVIOUS
<1>1. 0 \in Known /\ 0 \in Attempts /\ 0 \in 0..MaxFaults
  BY Bounds DEF Known, Attempts
<1>2. Start \in Phones
  <2>1. <<>> \in Seq(Operations)
    OBVIOUS
  <2>2. Idle \in [step : {"idle", "stop", "leave"}, session : Known, attempt : {0}]
    BY <1>1 DEF Idle, Waits
  <2> QED
    BY <1>1, <2>1, <2>2, NewTypes DEF Start, Phones
<1>3. /\ Start.media = Quiet /\ Start.product = 0 /\ Start.queue = <<>> /\ Start.running = Idle
      /\ Start.screens = {} /\ Start.entered = 0
  BY DEF Start
<1>4. ASSUME NEW p \in Phone PROVE Sound(Start, p, 0, 0)
  <2>1. Held(Quiet, p, 0)
    BY NewTypes DEF Held
  <2>2. Carried(<<>>, p, 0, 0)
    BY DEF Carried
  <2> QED
    BY <1>2, <1>3, <2>1, <2>2, NewTypes DEF Sound, Runs, Follow, Idle, Waits
<1>5. Network
  BY <1>1 DEF Init, Network
<1>6. phone = [p \in Phone |-> Start] /\ session = 0 /\ offers = 0
  BY DEF Init
<1> QED
  BY <1>2, <1>4, <1>5, <1>6 DEF IInv

LEMMA NextGood ==
  ASSUME IInv, Next
  PROVE  Good
<1>1. ASSUME NEW p \in Phone,
             \/ Works(p) \/ UserGrants(p) \/ UserRefuses(p)
             \/ Transport(p) \/ TimerFires(p) \/ FirstFrame(p)
             \/ Accepted(p) \/ Follows(p)
      PROVE  Good
  BY <1>1, HandleGood, SendGood, ConsentTimesOutGood, UserGrantsGood, UserRefusesGood,
     TransportGood, TimerGood, FirstFrameGood, AcceptedGood, FollowsGood DEF Works
<1>2. CASE Accept
  BY <1>2, AcceptGood
<1>3. CASE Fault
  BY <1>3, FaultGood
<1>4. CASE LinkMends
  <2>1. Network'
    BY <1>4 DEF IInv, Network, LinkMends
  <2> QED
    BY <1>4, <2>1, StillGood DEF LinkMends
<1>5. CASE PathMends
  <2>1. Network'
    BY <1>5 DEF IInv, Network, PathMends
  <2> QED
    BY <1>5, <2>1, StillGood DEF PathMends
<1> QED
  BY <1>1, <1>2, <1>3, <1>4, <1>5 DEF Next

LEMMA StutterGood ==
  ASSUME IInv, UNCHANGED vars
  PROVE  Good
<1>1. Network'
  BY DEF IInv, Network, vars, network
<1> QED
  BY <1>1, StillGood DEF vars

\* Each phone stays sound, whatever the users, Android, the timers and the two
\* networks do.
THEOREM MediaInvariant == Spec => []IInv
<1>1. IInv /\ [Next]_vars => IInv'
  BY NextGood, StutterGood DEF Good
<1> QED
  BY <1>1, InitGood, PTL DEF Spec

\* Android captures the screen only for the stream the media session holds, with
\* its peer and for the session it serves.
THEOREM CaptureOwned == Spec => []CaptureIsOwned
<1>1. IInv => CaptureIsOwned
  <2> SUFFICES ASSUME IInv PROVE CaptureIsOwned
    OBVIOUS
  <2>1. ASSUME NEW p \in Phone
        PROVE  phone[p].media \in Medium
    <3>1. phone[p].media \in Media /\ Held(phone[p].media, p, offers) /\ offers \in Nat
      BY Before DEF Sound
    <3>2. phone[p].media.peer \in Peers
      BY <3>1 DEF Media
    <3>3. phone[p].media.peer.local \in Numbered /\ phone[p].media.peer.remote \in Numbered
      BY <3>1, <3>2 DEF Held, Peers, Numbered
    <3>4. phone[p].media.peer \in
            [transport : {"none", "pending", "connected", "disconnected", "failed"},
             offered : BOOLEAN, local : Numbered, remote : Numbered, added : BOOLEAN,
             waiting : BOOLEAN, gathered : BOOLEAN, polled : BOOLEAN]
      BY <3>2, <3>3 DEF Peers
    <3>5. phone[p].media.restart
            \in [kind : {"none", "attempt", "retry"}, session : Known, attempt : 0..MaxRestarts]
      <4>1. phone[p].media.restart \in Timers
        BY <3>1 DEF Media
      <4> QED
        BY <4>1, Bounds DEF Timers, NoTimer, Sessions, Known
    <3> QED
      BY <3>1, <3>4, <3>5 DEF Media, Medium, States, Attempts
  <2>2. ASSUME NEW p \in Phone
        PROVE  /\ phone[p].product \in Known /\ phone[p].entered \in Known
               /\ phone[p].started \in Known
               /\ phone[p].ending \in [step : {"idle", "stop", "leave"}, session : Known,
                                       attempt : {0}]
               /\ phone[p].dialogs \subseteq 1..MaxSession
               /\ phone[p].screens \subseteq 1..MaxSession
    BY Before DEF Phones, Sessions
  <2>3. ASSUME NEW p \in Phone
        PROVE  phone[p].running \in [step : {"idle", "consent", "first", "offer", "answer", "ask"},
                                     session : Known, attempt : 0..MaxRestarts]
    <3>1. phone[p].running \in Pauses
      BY Before DEF Phones
    <3> QED
      BY <3>1, Bounds DEF Pauses, Steps, Idle, Waits, Sessions, Attempts, Known
  <2>4. TypeOK
    BY <2>1, <2>2, <2>3 DEF TypeOK, IInv, Network
  <2>5. ASSUME NEW p \in Phone
        PROVE  /\ phone[p].screens \subseteq {phone[p].media.capture}
               /\ phone[p].media.capture # 0 =>
                    phone[p].media.owner = phone[p].media.capture /\ phone[p].media.peer # NoPeer
    BY Before DEF Sound, Held
  <2> QED
    BY <2>4, <2>5 DEF CaptureIsOwned
<1> QED
  BY <1>1, MediaInvariant, PTL

\* A phone without a session that has worked off its media queue holds nothing of
\* the session that ended.
THEOREM SettledQuiet == Spec => []SettledIsQuiet
<1>1. IInv => SettledIsQuiet
  <2> SUFFICES ASSUME IInv, NEW p \in Phone, phone[p].product = 0, phone[p].queue = <<>>
               PROVE  phone[p].media = Quiet
    BY DEF SettledIsQuiet
  <2>1. ~Pends(phone[p].queue)
    BY DEF Pends
  <2> QED
    BY <2>1, Before DEF Sound, Follow
<1> QED
  BY <1>1, MediaInvariant, PTL

\* A capture starts only in the session that the phone shares in, however late the
\* user answers.
THEOREM CaptureStarts == Spec => CaptureStartsInSession
<1>1. IInv /\ [Next]_vars =>
        [\A p \in Phone :
           phone'[p].media.capture \notin {0, phone[p].media.capture}
             => phone'[p].product = phone'[p].media.capture]_vars
  BY NextGood DEF Good, Starts
<1> QED
  BY <1>1, MediaInvariant, PTL DEF Spec, CaptureStartsInSession
=============================================================================
