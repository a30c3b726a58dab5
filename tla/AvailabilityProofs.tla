------------------------- MODULE AvailabilityProofs -------------------------
(***************************************************************************)
(* Proofs that what Availability shows is real, and that only the newest   *)
(* answer can change it: AvailableIsReal and NewestAnswerCounts hold for   *)
(* any names, ports, addresses, pairs and disturbances.                    *)
(*                                                                         *)
(* A late answer could revive an endpoint after the service was stopped,   *)
(* so the invariant says that an answer which still counts finds a running *)
(* advertisement (CurrentIsActive), that an activation under way has none  *)
(* (StartsWithNothing) and that the probe of a lease holds the endpoint it *)
(* probes on the screen (ReprobeHolds).                                    *)
(***************************************************************************)
EXTENDS AvailabilityProperties, SequenceTheorems, FiniteSetTheorems, TLAPS

\* The operations that wait in a queue.
Elements(q) == {q[i] : i \in DOMAIN q}

\* An answer that may still change what is shown, and a lease that will probe a port.
Counts(e) == e.op = "proved" /\ e.current
Renews(e, port) == e.op = "lease" /\ e.current /\ e.port = port

Starting == {"load", "prepare", "listen", "start"}

\* A running advertisement has a secret, and so has an activation that read one;
\* what an activation is about to advertise is a port of the control listener.
Prepared ==
  /\ active # NoActive => active.secret # 0
  /\ running.step \in {"prepare", "listen", "start"} => running.secret # 0
  /\ running.step = "start" => running.port \in LocalPort \cup {NoPort}

\* An activation begins by stopping what ran.
StartsWithNothing == running.step \in Starting => active = NoActive

\* An answer that counts finds the advertisement it was asked for.
CurrentIsActive ==
  /\ \A p \in probes : p.current => active # NoActive
  /\ \A e \in Elements(queue) : Counts(e) => active # NoActive

\* The endpoint whose lease is probed stays shown until the answer.
ReprobeHolds ==
  running.step = "reprobe" => state.kind = "available" /\ state.port = running.port

\* LeaseIsDue, in terms of what waits in the queue.
LeaseDue ==
  state.kind = "available" =>
    \/ lease = state.port \/ running.step = "reprobe"
    \/ \E e \in Elements(queue) : Renews(e, state.port)

ServiceOK ==
  /\ state \in Snapshots /\ active \in Browsings /\ lease \in Port \cup {NoPort}
  /\ queue \in Seq(Ops) /\ running \in Activations
  /\ probes \subseteq [service : Service, current : BOOLEAN] /\ advert \in Adverts

PhoneOK ==
  /\ lastPair \in MaybePair /\ listener \in Listeners /\ context \in MaybePair
  /\ turns \in 0..MaxTurns /\ turn \in Turns /\ trust \in MaybePair
  /\ paired \in 0..MaxPairs /\ partner \in Port \cup {NoPort}

\* A turn that activates has a pair to activate.
TurnHasPair == turn.step \in {"activatePair", "activate", "wait"} => turn.pair # 0

Core ==
  /\ ServiceOK /\ AvailableIsProven /\ Prepared /\ StartsWithNothing
  /\ CurrentIsActive /\ ReprobeHolds /\ LeaseDue

IInv == Core /\ PhoneOK /\ TurnHasPair

-----------------------------------------------------------------------------
(* The queue. *)

LEMMA AppendElements ==
  ASSUME NEW q \in Seq(Ops), NEW op \in Ops
  PROVE  Append(q, op) \in Seq(Ops) /\ Elements(Append(q, op)) = Elements(q) \cup {op}
<1>1. Append(q, op) \in Seq(Ops)
  BY AppendProperties
<1>2. /\ Len(q) \in Nat /\ DOMAIN q = 1..Len(q)
      /\ DOMAIN Append(q, op) = 1..(Len(q) + 1)
  BY <1>1, AppendProperties, LenProperties
<1>3. /\ \A i \in 1..Len(q) : Append(q, op)[i] = q[i]
      /\ Append(q, op)[Len(q) + 1] = op
  BY AppendProperties
<1>4. 1..(Len(q) + 1) = 1..Len(q) \cup {Len(q) + 1}
  BY <1>2
<1> QED
  BY <1>1, <1>2, <1>3, <1>4 DEF Elements

LEMMA TailElements ==
  ASSUME NEW q \in Seq(Ops), q # <<>>
  PROVE  /\ Head(q) \in Ops /\ Tail(q) \in Seq(Ops)
         /\ Elements(q) = {Head(q)} \cup Elements(Tail(q))
<1>1. Head(q) \in Ops /\ Tail(q) \in Seq(Ops)
  BY HeadTailProperties
<1>2. \A i \in 1..Len(Tail(q)) : Tail(q)[i] = q[i + 1]
  BY HeadTailProperties
<1>3. Head(q) = q[1] /\ Len(q) \in Nat \ {0} /\ Len(Tail(q)) = Len(q) - 1
  BY HeadTailProperties, EmptySeq
<1>4. DOMAIN q = 1..Len(q) /\ DOMAIN Tail(q) = 1..Len(Tail(q))
  BY <1>1, LenProperties
<1>5. \A i \in 1..Len(Tail(q)) : i + 1 \in 1..Len(q)
  BY <1>3
<1>6. \A i \in 1..Len(q) : i = 1 \/ (i - 1 \in 1..Len(Tail(q)) /\ (i - 1) + 1 = i)
  BY <1>3
<1>7. 1 \in 1..Len(q)
  BY <1>3
<1>8. ASSUME NEW e \in Elements(q) PROVE e \in {Head(q)} \cup Elements(Tail(q))
  <2>1. PICK i \in 1..Len(q) : e = q[i]
    BY <1>4 DEF Elements
  <2>2. CASE i = 1
    BY <1>3, <2>1, <2>2
  <2>3. CASE i - 1 \in 1..Len(Tail(q)) /\ (i - 1) + 1 = i
    <3>1. Tail(q)[i - 1] = e
      BY <1>2, <2>1, <2>3
    <3> QED
      BY <1>4, <2>3, <3>1 DEF Elements
  <2> QED
    BY <1>6, <2>2, <2>3
<1>9. Elements(Tail(q)) \subseteq Elements(q)
  BY <1>2, <1>4, <1>5 DEF Elements
<1>10. Head(q) \in Elements(q)
  BY <1>3, <1>4, <1>7 DEF Elements
<1> QED
  BY <1>1, <1>8, <1>9, <1>10

LEMMA OpFields ==
  ASSUME NEW e \in Ops
  PROVE  /\ e.op = "activate" => e.pair \in Pair /\ e.awaited \in BOOLEAN
         /\ e.op \in {"resolved", "proved"} => e.service \in Service
         /\ e.op = "lost" => e.name \in Name
         /\ e.op \in {"lease", "unreachable"} => e.port \in Port
         /\ e.op \in {"lease", "proved"} =>
              /\ e.current \in BOOLEAN /\ [e EXCEPT !.current = FALSE] \in Ops
              /\ [e EXCEPT !.current = FALSE].op = e.op
              /\ [e EXCEPT !.current = FALSE].current = FALSE
  BY DEF Ops

LEMMA OutdateElements ==
  ASSUME NEW q \in Seq(Ops), NEW kinds \in SUBSET {"proved", "lease"}
  PROVE  /\ Outdate(q, kinds) \in Seq(Ops)
         /\ \A e \in Elements(Outdate(q, kinds)) :
              \/ e \in Elements(q) /\ e.op \notin kinds
              \/ e.op \in kinds /\ ~Counts(e)
         /\ \A e \in Elements(q) : e.op \notin kinds => e \in Elements(Outdate(q, kinds))
<1> DEFINE o == Outdate(q, kinds)
<1>1. DOMAIN o = DOMAIN q
  BY DEF Outdate
<1>2. \A i \in DOMAIN q : o[i] = IF q[i].op \in kinds THEN [q[i] EXCEPT !.current = FALSE] ELSE q[i]
  BY DEF Outdate
<1>3. DOMAIN q = 1..Len(q) /\ Len(q) \in Nat /\ \A i \in DOMAIN q : q[i] \in Ops
  BY LenProperties
<1> HIDE DEF o
<1>4. \A i \in DOMAIN q : o[i] \in Ops
  BY <1>2, <1>3, OpFields
<1>5. o \in Seq(Ops)
  <2>1. o = [i \in 1..Len(q) |-> o[i]]
    BY <1>1, <1>3 DEF o, Outdate
  <2>2. o \in [1..Len(q) -> Ops]
    BY <1>3, <1>4, <2>1
  <2> QED
    BY <1>3, <2>2, SeqDef
<1>6. ASSUME NEW e \in Elements(o)
      PROVE  \/ e \in Elements(q) /\ e.op \notin kinds
             \/ e.op \in kinds /\ ~Counts(e)
  <2>1. PICK i \in DOMAIN q : e = o[i]
    BY <1>1 DEF Elements
  <2>2. CASE q[i].op \in kinds
    <3>1. e = [q[i] EXCEPT !.current = FALSE]
      BY <1>2, <2>1, <2>2
    <3>2. e.op \in kinds /\ e.current = FALSE
      BY <1>3, <2>2, <3>1, OpFields
    <3> QED
      BY <3>2, Zenon DEF Counts
  <2>3. CASE q[i].op \notin kinds
    BY <1>2, <2>1, <2>3 DEF Elements
  <2> QED
    BY <2>2, <2>3
<1>7. ASSUME NEW e \in Elements(q), e.op \notin kinds PROVE e \in Elements(o)
  <2>1. PICK i \in DOMAIN q : e = q[i]
    BY DEF Elements
  <2>2. o[i] = e
    BY <1>2, <1>7, <2>1
  <2> QED
    BY <1>1, <2>2 DEF Elements
<1> QED
  BY <1>5, <1>6, <1>7 DEF o
-----------------------------------------------------------------------------
(* What the operators that handlers share do. *)

LEMMA SnapshotFields ==
  ASSUME NEW p \in MaybePair
  PROVE  /\ Inactive \in Snapshots /\ Offline(p) \in Snapshots /\ Unadvertised(p) \in Snapshots
         /\ Snapshot("starting", p) \in Snapshots
         /\ \A s \in {Inactive, Offline(p), Unadvertised(p), Snapshot("starting", p)} :
              s.name = NoName /\ s.port = NoPort
         /\ Inactive.kind = "inactive" /\ Offline(p).kind = "offline" /\ Offline(p).pair = p
         /\ Unadvertised(p).kind = "unadvertised" /\ Snapshot("starting", p).kind = "starting"
<1>1. MaybePair = Pair \cup {0}
  BY DEF MaybePair
<1> QED
  BY <1>1 DEF Inactive, Offline, Unadvertised, Snapshot, Snapshots

LEMMA NothingFields ==
  /\ NoActive \in Browsings /\ NoActive.secret = 0
  /\ NoActive.matched = NoName /\ NoActive.proven = NoPort
  /\ NoAdvert \in Adverts /\ NoAdvert.secret = 0
  /\ Idle \in Activations /\ Idle.step = "idle"
  BY DEF NoActive, Browse, Browsings, NoAdvert, Adverts, Idle, Activation, Activations,
         MaybePair, LocalHost

LEMMA UnmatchFields ==
  ASSUME ServiceOK, Prepared, active # NoActive, Unmatch
  PROVE  /\ active' \in Browsings /\ active' # NoActive
         /\ active'.pair = active.pair /\ active'.secret = active.secret
         /\ active'.matched = NoName /\ active'.proven = NoPort
         /\ state' = Offline(active.pair) /\ state' \in Snapshots
         /\ state'.kind = "offline" /\ state'.pair = active.pair
         /\ state'.name = NoName /\ state'.port = NoPort
<1>1. active \in Browsings /\ active.secret # 0 /\ active.pair \in MaybePair
  BY DEF ServiceOK, Prepared, Browsings
<1>2. active' = [active EXCEPT !.matched = NoName, !.proven = NoPort] /\ state' = Offline(active.pair)
  BY DEF Unmatch
<1>3. /\ active' \in Browsings
      /\ active'.pair = active.pair /\ active'.secret = active.secret
      /\ active'.matched = NoName /\ active'.proven = NoPort
  BY <1>1, <1>2 DEF Browsings
<1>4. active' # NoActive
  BY <1>1, <1>3, NothingFields
<1> QED
  BY <1>1, <1>2, <1>3, <1>4, SnapshotFields

LEMMA SupersededProbes ==
  ASSUME ServiceOK
  PROVE  /\ Superseded \subseteq [service : Service, current : BOOLEAN]
         /\ \A p \in Superseded : p.current = FALSE
<1>1. \A p \in probes : /\ [p EXCEPT !.current = FALSE] \in [service : Service, current : BOOLEAN]
                       /\ [p EXCEPT !.current = FALSE].current = FALSE
  BY DEF ServiceOK
<1> QED
  BY <1>1 DEF Superseded

LEMMA OutdatedProved ==
  ASSUME NEW q \in Seq(Ops)
  PROVE  /\ OutdateProved(q) \in Seq(Ops)
         /\ \A e \in Elements(OutdateProved(q)) : ~Counts(e)
         /\ \A e \in Elements(q) : e.op = "lease" => e \in Elements(OutdateProved(q))
<1>1. \A e \in Elements(q) : e.op # "proved" => ~Counts(e)
  BY DEF Counts
<1> QED
  BY <1>1, OutdateElements DEF OutdateProved

LEMMA StoppedQueue ==
  ASSUME NEW q \in Seq(Ops)
  PROVE  /\ Outdate(q, {"proved", "lease"}) \in Seq(Ops)
         /\ \A e \in Elements(Outdate(q, {"proved", "lease"})) : ~Counts(e)
<1>1. \A e \in Elements(q) : e.op # "proved" => ~Counts(e)
  BY DEF Counts
<1> QED
  BY <1>1, OutdateElements

-----------------------------------------------------------------------------
(* The operations of the queue. *)

LEMMA SkipKeeps ==
  ASSUME Core, NEW op \in Ops, NEW rest \in Seq(Ops),
         Elements(queue) = {op} \cup Elements(rest), Skip(rest),
         state.kind = "available" => ~Renews(op, state.port)
  PROVE  Core'
<1>1. queue' = rest /\ UNCHANGED <<state, active, lease, running, probes, advert>>
  BY DEF Skip
<1>2. ServiceOK'
  BY <1>1 DEF Core, ServiceOK
<1>3. AvailableIsProven' /\ Prepared' /\ StartsWithNothing' /\ ReprobeHolds'
  BY <1>1 DEF Core, AvailableIsProven, Prepared, StartsWithNothing, ReprobeHolds
<1>4. CurrentIsActive'
  BY <1>1 DEF Core, CurrentIsActive
<1>5. LeaseDue'
  BY <1>1 DEF Core, LeaseDue
<1> QED
  BY <1>2, <1>3, <1>4, <1>5 DEF Core

LEMMA DemoteKeeps ==
  ASSUME Core, running = Idle, NEW rest \in Seq(Ops), active # NoActive, Demote(rest)
  PROVE  Core'
<1>1. /\ Unmatch /\ lease' = NoPort /\ UNCHANGED <<running, advert>>
      /\ probes' = Superseded /\ queue' = OutdateProved(rest)
  BY DEF Demote, SupersedeProbes
<1>2. ServiceOK /\ Prepared /\ AvailableIsProven
  BY DEF Core
<1>3. ServiceOK'
  BY <1>1, <1>2, UnmatchFields, SupersededProbes, OutdatedProved DEF ServiceOK
<1>4. AvailableIsProven'
  BY <1>1, <1>2, UnmatchFields DEF AvailableIsProven
<1>5. Prepared' /\ StartsWithNothing' /\ ReprobeHolds'
  BY <1>1, <1>2, UnmatchFields, NothingFields
     DEF Prepared, StartsWithNothing, ReprobeHolds, Starting
<1>6. CurrentIsActive'
  BY <1>1, <1>2, UnmatchFields DEF CurrentIsActive
<1>7. LeaseDue'
  BY <1>1, <1>2, UnmatchFields DEF LeaseDue
<1> QED
  BY <1>3, <1>4, <1>5, <1>6, <1>7 DEF Core

\* What both ActivateNow and DeactivateNow do before they show anything.
LEMMA StopActiveKeeps ==
  ASSUME ServiceOK, NEW rest \in Seq(Ops), StopActive(rest),
         state' \in Snapshots, state'.kind \notin {"offline", "available"},
         state'.name = NoName, state'.port = NoPort,
         running' \in Activations, running'.step \in {"idle", "load"}
  PROVE  Core'
<1>1. /\ active' = NoActive /\ lease' = NoPort /\ advert' = NoAdvert
      /\ probes' = Superseded /\ queue' = Outdate(rest, {"proved", "lease"})
  BY DEF StopActive
<1>2. ServiceOK'
  BY <1>1, SupersededProbes, StoppedQueue, NothingFields DEF ServiceOK
<1>3. AvailableIsProven'
  BY <1>1, NothingFields DEF AvailableIsProven
<1>4. Prepared' /\ StartsWithNothing' /\ ReprobeHolds'
  BY <1>1 DEF Prepared, StartsWithNothing, ReprobeHolds
<1>5. CurrentIsActive'
  <2>1. \A p \in probes' : p.current = FALSE
    BY <1>1, SupersededProbes
  <2>2. \A e \in Elements(queue') : ~Counts(e)
    BY <1>1, StoppedQueue
  <2> QED
    BY <2>1, <2>2, Zenon DEF CurrentIsActive
<1>6. LeaseDue'
  BY DEF LeaseDue
<1> QED
  BY <1>2, <1>3, <1>4, <1>5, <1>6 DEF Core

LEMMA ActivateNowKeeps ==
  ASSUME Core, running = Idle, NEW op \in Ops, op.op = "activate", NEW rest \in Seq(Ops),
         Elements(queue) = {op} \cup Elements(rest), ActivateNow(op, rest)
  PROVE  Core'
<1>1. CASE Skip(rest)
  <2>1. ~Renews(op, state.port)
    BY DEF Renews
  <2> QED
    BY <1>1, <2>1, SkipKeeps
<1>2. CASE /\ StopActive(rest) /\ state' = Snapshot("starting", op.pair)
           /\ running' = Activation("load", op)
  <2>1. op.pair \in MaybePair /\ op.awaited \in BOOLEAN
    BY OpFields DEF MaybePair
  <2>2. Activation("load", op) \in Activations /\ Activation("load", op).step = "load"
    BY <2>1 DEF Activation, Activations, MaybePair, LocalHost
  <2> QED
    BY <1>2, <2>1, <2>2, SnapshotFields, StopActiveKeeps DEF Core
<1> QED
  BY <1>1, <1>2 DEF ActivateNow

LEMMA DeactivateNowKeeps ==
  ASSUME Core, running = Idle, NEW rest \in Seq(Ops), DeactivateNow(rest)
  PROVE  Core'
<1>1. StopActive(rest) /\ state' = Inactive /\ running' = Idle
  BY DEF DeactivateNow
<1>2. /\ Inactive \in Snapshots /\ Inactive.kind = "inactive"
      /\ Inactive.name = NoName /\ Inactive.port = NoPort
  BY DEF Inactive, Snapshot, Snapshots, MaybePair
<1> QED
  BY <1>1, <1>2, NothingFields, StopActiveKeeps DEF Core

LEMMA HandleResolvedKeeps ==
  ASSUME Core, running = Idle, NEW op \in Ops, op.op = "resolved", NEW rest \in Seq(Ops),
         Elements(queue) = {op} \cup Elements(rest), HandleResolved(op.service, rest)
  PROVE  Core'
<1>1. CASE Skip(rest)
  <2>1. ~Renews(op, state.port)
    BY DEF Renews
  <2> QED
    BY <1>1, <2>1, SkipKeeps
<1>2. CASE /\ active # NoActive
           /\ IF Matched(op.service) THEN Unmatch ELSE UNCHANGED <<active, state>>
           /\ probes' = Superseded \cup {[service |-> op.service, current |-> TRUE]}
           /\ queue' = OutdateProved(rest) /\ UNCHANGED <<lease, running, advert>>
  <2>1. ServiceOK /\ Prepared /\ AvailableIsProven /\ LeaseDue
    BY DEF Core
  <2>2. op.service \in Service
    BY OpFields
  <2>3. queue' \in Seq(Ops) /\ probes' \subseteq [service : Service, current : BOOLEAN]
    <3>1. [service |-> op.service, current |-> TRUE] \in [service : Service, current : BOOLEAN]
      BY <2>2
    <3>2. queue' \in Seq(Ops)
      BY <1>2, OutdatedProved
    <3> QED
      BY <1>2, <2>1, <3>1, <3>2, SupersededProbes
  <2>4. CASE Unmatch
    <3>1. ServiceOK'
      BY <1>2, <2>1, <2>3, <2>4, UnmatchFields DEF ServiceOK
    <3>2. AvailableIsProven'
      BY <1>2, <2>1, <2>4, UnmatchFields DEF AvailableIsProven
    <3>3. Prepared' /\ StartsWithNothing' /\ ReprobeHolds'
      BY <1>2, <2>1, <2>4, UnmatchFields, NothingFields
         DEF Prepared, StartsWithNothing, ReprobeHolds, Starting
    <3>4. CurrentIsActive' /\ LeaseDue'
      BY <1>2, <2>1, <2>4, UnmatchFields DEF CurrentIsActive, LeaseDue
    <3> QED
      BY <3>1, <3>2, <3>3, <3>4 DEF Core
  <2>5. CASE UNCHANGED <<active, state>>
    <3>1. ServiceOK'
      BY <1>2, <2>1, <2>3, <2>5 DEF ServiceOK
    <3>2. AvailableIsProven' /\ Prepared' /\ StartsWithNothing' /\ ReprobeHolds'
      BY <1>2, <2>5 DEF Core, AvailableIsProven, Prepared, StartsWithNothing, ReprobeHolds
    <3>3. CurrentIsActive'
      BY <1>2, <2>5 DEF CurrentIsActive
    <3>4. LeaseDue'
      <4> SUFFICES ASSUME state.kind = "available", lease # state.port
                   PROVE  \E e \in Elements(queue') : Renews(e, state.port)
        BY <1>2, <2>5 DEF LeaseDue
      <4>1. PICK e \in Elements(queue) : Renews(e, state.port)
        BY <2>1, NothingFields DEF LeaseDue
      <4>2. e.op = "lease" /\ e \in Elements(rest)
        BY <4>1 DEF Renews
      <4> QED
        BY <1>2, <4>1, <4>2, OutdatedProved
    <3> QED
      BY <3>1, <3>2, <3>3, <3>4 DEF Core
  <2> QED
    BY <1>2, <2>4, <2>5
<1> QED
  BY <1>1, <1>2 DEF HandleResolved, Trusted

LEMMA HandleLostKeeps ==
  ASSUME Core, running = Idle, NEW op \in Ops, op.op = "lost", NEW rest \in Seq(Ops),
         Elements(queue) = {op} \cup Elements(rest), HandleLost(op.name, rest)
  PROVE  Core'
<1>1. ~Renews(op, state.port)
  BY DEF Renews
<1> QED
  BY <1>1, SkipKeeps, DemoteKeeps DEF HandleLost

LEMMA HandleErrorKeeps ==
  ASSUME Core, running = Idle, NEW op \in Ops, op.op = "error", NEW rest \in Seq(Ops),
         Elements(queue) = {op} \cup Elements(rest), HandleError(rest)
  PROVE  Core'
<1>1. ~Renews(op, state.port)
  BY DEF Renews
<1> QED
  BY <1>1, SkipKeeps, DemoteKeeps DEF HandleError

LEMMA UnreachableKeeps ==
  ASSUME Core, running = Idle, NEW op \in Ops, op.op = "unreachable", NEW rest \in Seq(Ops),
         Elements(queue) = {op} \cup Elements(rest), MarkPartnerUnreachable(op.port, rest)
  PROVE  Core'
<1>1. ~Renews(op, state.port)
  BY DEF Renews
<1>2. state.kind = "available" => active # NoActive
  BY DEF Core, AvailableIsProven
<1> QED
  BY <1>1, <1>2, SkipKeeps, DemoteKeeps DEF MarkPartnerUnreachable

LEMMA HandleProvedKeeps ==
  ASSUME Core, running = Idle, NEW op \in Ops, op.op = "proved", NEW rest \in Seq(Ops),
         Elements(queue) = {op} \cup Elements(rest), HandleProved(op.service, op.current, rest)
  PROVE  Core'
<1>1. CASE Skip(rest)
  <2>1. ~Renews(op, state.port)
    BY DEF Renews
  <2> QED
    BY <1>1, <2>1, SkipKeeps
<1>2. CASE /\ op.current
           /\ active' = [active EXCEPT !.matched = op.service.name, !.proven = op.service.port]
           /\ state' = Available(active.pair, op.service) /\ lease' = op.service.port
           /\ queue' = rest /\ UNCHANGED <<running, probes, advert>>
  <2>1. ServiceOK /\ Prepared /\ AvailableIsProven
    BY DEF Core
  <2>2. active # NoActive
    <3>1. Counts(op)
      BY <1>2 DEF Counts
    <3> QED
      BY <3>1 DEF Core, CurrentIsActive
  <2>3. op.service \in Service
    BY OpFields
  <2>4. op.service.name \in Name /\ op.service.port \in Port /\ op.service.port # NoPort
    BY <2>3, AvailabilityAssumption DEF Service
  <2>5. /\ active' \in Browsings /\ active'.secret = active.secret /\ active'.pair = active.pair
        /\ active'.matched = op.service.name /\ active'.proven = op.service.port
    BY <1>2, <2>1, <2>4 DEF ServiceOK, Browsings
  <2>6. /\ state' \in Snapshots /\ state'.kind = "available" /\ state'.pair = active.pair
        /\ state'.name = op.service.name /\ state'.port = op.service.port
    <3>1. active.pair \in MaybePair
      BY <2>1 DEF ServiceOK, Browsings
    <3> QED
      BY <1>2, <2>4, <3>1 DEF Available, Snapshots
  <2>7. active' # NoActive
    BY <2>4, <2>5, NothingFields
  <2>8. ServiceOK'
    BY <1>2, <2>1, <2>4, <2>5, <2>6 DEF ServiceOK
  <2>9. AvailableIsProven'
    BY <1>2, <2>1, <2>2, <2>4, <2>5, <2>6, <2>7 DEF AvailableIsProven
  <2>10. Prepared' /\ StartsWithNothing' /\ ReprobeHolds'
    BY <1>2, <2>1, <2>2, <2>5, <2>6, NothingFields
       DEF Prepared, StartsWithNothing, ReprobeHolds, Starting
  <2>11. CurrentIsActive' /\ LeaseDue'
    BY <1>2, <2>6, <2>7 DEF CurrentIsActive, LeaseDue
  <2> QED
    BY <2>8, <2>9, <2>10, <2>11 DEF Core
<1> QED
  BY <1>1, <1>2 DEF HandleProved

LEMMA ReprobeLeaseKeeps ==
  ASSUME Core, running = Idle, NEW op \in Ops, op.op = "lease", NEW rest \in Seq(Ops),
         Elements(queue) = {op} \cup Elements(rest), ReprobeLease(op, rest)
  PROVE  Core'
<1>1. CASE op.current /\ state.kind = "available" /\ state.port = op.port
  <2>1. /\ running' = [Idle EXCEPT !.step = "reprobe", !.port = op.port] /\ queue' = rest
        /\ UNCHANGED <<state, active, lease, probes, advert>>
    BY <1>1 DEF ReprobeLease
  <2>2. op.port \in Port
    BY OpFields
  <2>3. running' \in Activations /\ running'.step = "reprobe" /\ running'.port = op.port
    BY <2>1, <2>2, NothingFields DEF Activations
  <2>4. ServiceOK'
    BY <2>1, <2>3 DEF Core, ServiceOK
  <2>5. AvailableIsProven'
    BY <2>1 DEF Core, AvailableIsProven
  <2>6. Prepared' /\ StartsWithNothing' /\ ReprobeHolds'
    BY <1>1, <2>1, <2>3 DEF Core, Prepared, StartsWithNothing, ReprobeHolds, Starting
  <2>7. CurrentIsActive' /\ LeaseDue'
    BY <2>1, <2>3 DEF Core, CurrentIsActive, LeaseDue
  <2> QED
    BY <2>4, <2>5, <2>6, <2>7 DEF Core
<1>2. CASE ~(op.current /\ state.kind = "available" /\ state.port = op.port)
  <2>1. state.kind = "available" => ~Renews(op, state.port)
    BY <1>2, Zenon DEF Renews
  <2>2. Skip(rest)
    BY <1>2 DEF ReprobeLease
  <2> QED
    BY <2>1, <2>2, SkipKeeps
<1> QED
  BY <1>1, <1>2

LEMMA HandleKeeps == Core /\ Handle => Core'
<1> SUFFICES ASSUME Core, Handle PROVE Core'
  OBVIOUS
<1> DEFINE op == Head(queue)
           rest == Tail(queue)
<1>1. running = Idle /\ queue # <<>> /\ queue \in Seq(Ops)
  BY DEF Handle, Core, ServiceOK
<1>2. op \in Ops /\ rest \in Seq(Ops) /\ Elements(queue) = {op} \cup Elements(rest)
  BY <1>1, TailElements
<1>3. \/ op.op = "activate" /\ ActivateNow(op, rest)
      \/ op.op = "deactivate" /\ DeactivateNow(rest)
      \/ op.op = "resolved" /\ HandleResolved(op.service, rest)
      \/ op.op = "lost" /\ HandleLost(op.name, rest)
      \/ op.op = "error" /\ HandleError(rest)
      \/ op.op = "proved" /\ HandleProved(op.service, op.current, rest)
      \/ op.op = "lease" /\ ReprobeLease(op, rest)
      \/ op.op = "unreachable" /\ MarkPartnerUnreachable(op.port, rest)
  BY DEF Handle
<1> HIDE DEF op, rest
<1> QED
  BY <1>1, <1>2, <1>3, ActivateNowKeeps, DeactivateNowKeeps, HandleResolvedKeeps, HandleLostKeeps,
     HandleErrorKeeps, HandleProvedKeeps, ReprobeLeaseKeeps, UnreachableKeeps

-----------------------------------------------------------------------------
(* The answers an operation waits for. *)

\* Nothing is put into the queue that could change what is shown.
HarmlessQueue ==
  queue' \in Seq(Ops) /\ \A e \in Elements(queue') : e \in Elements(queue) \/ ~Counts(e)

LEMMA ActivateIsHarmless ==
  ASSUME queue \in Seq(Ops), NEW p \in Pair, NEW force \in BOOLEAN, NEW awaited \in BOOLEAN,
         Enqueue(Activate(p, force, awaited))
  PROVE  HarmlessQueue /\ Elements(queue) \subseteq Elements(queue')
<1> DEFINE op == Activate(p, force, awaited)
<1>1. op \in Ops /\ op.op = "activate"
  BY DEF Activate, Ops
<1>2. ~Counts(op)
  BY <1>1 DEF Counts
<1> HIDE DEF op
<1>3. queue' = Append(queue, op)
  BY DEF Enqueue, op
<1> QED
  BY <1>1, <1>2, <1>3, AppendElements DEF HarmlessQueue

LEMMA ListenerChangedIsHarmless ==
  ASSUME ServiceOK, lastPair \in MaybePair, ListenerChanged
  PROVE  HarmlessQueue /\ Elements(queue) \subseteq Elements(queue')
<1>1. queue \in Seq(Ops) /\ active.pair \in MaybePair
  BY DEF ServiceOK, Browsings
<1> DEFINE p == IF lastPair # 0 THEN lastPair ELSE active.pair
<1>2. p # 0 => p \in Pair
  BY <1>1 DEF MaybePair
<1>3. CASE p # 0
  <2>1. Enqueue(Activate(p, TRUE, FALSE))
    BY <1>3 DEF ListenerChanged
  <2> QED
    BY <1>1, <1>2, <1>3, <2>1, ActivateIsHarmless
<1>4. CASE p = 0
  BY <1>1, <1>4 DEF ListenerChanged, HarmlessQueue
<1> QED
  BY <1>3, <1>4

LEMMA ActivationFailsKeeps ==
  ASSUME Core, running.step \in Starting, ActivationFails, HarmlessQueue, UNCHANGED <<lease, probes>>
  PROVE  Core'
<1>1. /\ advert' = NoAdvert /\ active' = NoActive
      /\ state' = Unadvertised(running.pair) /\ running' = Idle
  BY DEF ActivationFails
<1>2. running.pair \in MaybePair
  BY DEF Core, ServiceOK, Activations
<1>3. /\ state' \in Snapshots /\ state'.kind = "unadvertised"
      /\ state'.name = NoName /\ state'.port = NoPort
  BY <1>1, <1>2, SnapshotFields
<1>4. ServiceOK'
  BY <1>1, <1>3, NothingFields DEF Core, ServiceOK, HarmlessQueue
<1>5. AvailableIsProven'
  BY <1>1, <1>3, NothingFields DEF AvailableIsProven
<1>6. Prepared' /\ StartsWithNothing' /\ ReprobeHolds' /\ LeaseDue'
  BY <1>1, <1>3, NothingFields DEF Prepared, StartsWithNothing, ReprobeHolds, LeaseDue
<1>7. CurrentIsActive'
  BY <1>1 DEF Core, StartsWithNothing, CurrentIsActive, HarmlessQueue
<1> QED
  BY <1>4, <1>5, <1>6, <1>7 DEF Core

LEMMA ActivationProceeds ==
  ASSUME Core, running.step \in Starting, running' \in Activations, running'.step \in Starting,
         running'.secret # 0, running'.step = "start" => running'.port \in LocalPort \cup {NoPort},
         HarmlessQueue, UNCHANGED <<state, active, advert, lease, probes>>
  PROVE  Core'
<1>1. active = NoActive /\ state.kind # "available"
  BY DEF Core, StartsWithNothing, AvailableIsProven
<1>2. ServiceOK'
  BY DEF Core, ServiceOK, HarmlessQueue
<1>3. AvailableIsProven'
  BY DEF Core, AvailableIsProven
<1>4. Prepared' /\ StartsWithNothing' /\ ReprobeHolds' /\ LeaseDue'
  BY <1>1 DEF Prepared, StartsWithNothing, ReprobeHolds, LeaseDue, Starting
<1>5. CurrentIsActive'
  BY DEF Core, CurrentIsActive, HarmlessQueue
<1> QED
  BY <1>2, <1>3, <1>4, <1>5 DEF Core

LEMMA LoadPairSecretKeeps ==
  ASSUME Core, PhoneOK, LoadPairSecret, UNCHANGED <<lease, probes>>
  PROVE  Core' /\ UNCHANGED listener
<1>1. running.step = "load" /\ running.step \in Starting /\ UNCHANGED <<queue, listener>>
  BY DEF LoadPairSecret, Starting
<1>2. HarmlessQueue
  BY <1>1 DEF HarmlessQueue, Core, ServiceOK
<1>3. CASE trust # 0
  <2>1. /\ running' = [running EXCEPT !.step = "prepare", !.secret = trust]
        /\ UNCHANGED <<state, active, advert>>
    BY <1>3 DEF LoadPairSecret, Proceed
  <2>2. running' \in Activations /\ running'.step = "prepare" /\ running'.secret = trust
    BY <2>1 DEF Core, ServiceOK, PhoneOK, Activations
  <2> QED
    BY <1>1, <1>2, <1>3, <2>1, <2>2, ActivationProceeds DEF Starting
<1>4. CASE ActivationFails
  BY <1>1, <1>2, <1>4, ActivationFailsKeeps
<1> QED
  BY <1>3, <1>4 DEF LoadPairSecret

LEMMA PrepareAdvertisementKeeps ==
  ASSUME Core, PrepareAdvertisement, UNCHANGED <<lease, probes>>
  PROVE  Core' /\ UNCHANGED listener
<1>1. /\ running.step = "prepare" /\ running.step \in Starting /\ running.secret # 0
      /\ UNCHANGED <<queue, listener>>
  BY DEF PrepareAdvertisement, Starting, Core, Prepared
<1>2. HarmlessQueue
  BY <1>1 DEF HarmlessQueue, Core, ServiceOK
<1>3. ASSUME NEW host \in Host, Proceed([running EXCEPT !.step = "listen", !.host = host])
      PROVE  Core'
  <2>1. /\ running' = [running EXCEPT !.step = "listen", !.host = host]
        /\ UNCHANGED <<state, active, advert>>
    BY <1>3 DEF Proceed
  <2>2. running' \in Activations /\ running'.step = "listen" /\ running'.secret = running.secret
    BY <2>1 DEF Core, ServiceOK, Activations, LocalHost
  <2> QED
    BY <1>1, <1>2, <2>1, <2>2, ActivationProceeds DEF Starting
<1>4. CASE ActivationFails
  BY <1>1, <1>2, <1>4, ActivationFailsKeeps
<1> QED
  BY <1>1, <1>3, <1>4 DEF PrepareAdvertisement

LEMMA ListeningKeeps ==
  ASSUME Core, running.step = "listen", NEW port \in LocalPort \cup {NoPort}, Listening(port),
         HarmlessQueue, UNCHANGED <<lease, probes>>
  PROVE  Core'
<1>1. running' = [running EXCEPT !.step = "start", !.port = port] /\ UNCHANGED <<state, active, advert>>
  BY DEF Listening, Proceed
<1>2. /\ running' \in Activations /\ running'.step = "start"
      /\ running'.secret = running.secret /\ running.secret # 0 /\ running'.port = port
  BY <1>1 DEF Core, ServiceOK, Prepared, Activations
<1> QED
  BY <1>1, <1>2, ActivationProceeds DEF Starting

LEMMA EnsureListeningKeeps ==
  ASSUME Core, PhoneOK, EnsureListening, UNCHANGED <<lease, probes>>
  PROVE  Core' /\ listener' \in Listeners
<1>1. /\ running.step = "listen" /\ running.step \in Starting
      /\ listener \in Listeners /\ ServiceOK /\ lastPair \in MaybePair
  BY DEF EnsureListening, Starting, PhoneOK, Core
<1>2. UNCHANGED queue => HarmlessQueue
  BY <1>1 DEF HarmlessQueue, ServiceOK
<1>3. CASE ActivationFails /\ UNCHANGED <<queue, listener>>
  BY <1>1, <1>2, <1>3, ActivationFailsKeeps
<1>4. CASE Listening(listener.port) /\ UNCHANGED <<queue, listener>>
  <2>1. listener.port \in LocalPort \cup {NoPort}
    BY <1>1 DEF Listeners
  <2> QED
    BY <1>1, <1>2, <1>4, <2>1, ListeningKeeps
<1>5. CASE ReplaceListener
  <2>1. HarmlessQueue
    BY <1>1, <1>2, <1>5, ListenerChangedIsHarmless DEF ReplaceListener
  <2>2. CASE listener' = NoListener /\ ActivationFails
    <3>1. NoListener \in Listeners
      BY DEF NoListener, Listeners, LocalHost
    <3> QED
      BY <1>1, <2>1, <2>2, <3>1, ActivationFailsKeeps
  <2>3. CASE /\ listener' \in [host : Host, port : LocalPort \ {listener.port}]
             /\ IF listener'.host = running.host THEN Listening(listener'.port) ELSE ActivationFails
    <3>1. listener' \in Listeners /\ listener'.port \in LocalPort
      BY <2>3 DEF Listeners, LocalHost
    <3> QED
      BY <1>1, <2>1, <2>3, <3>1, ListeningKeeps, ActivationFailsKeeps
  <2> QED
    BY <1>5, <2>2, <2>3 DEF ReplaceListener
<1> QED
  BY <1>3, <1>4, <1>5 DEF EnsureListening

LEMMA StartDiscoveryKeeps ==
  ASSUME Core, StartDiscovery, UNCHANGED <<lease, probes>>
  PROVE  Core' /\ UNCHANGED listener
<1>1. /\ running.step = "start" /\ running.step \in Starting /\ running.secret # 0
      /\ UNCHANGED <<queue, listener>> /\ running \in Activations
      /\ running.port \in LocalPort \cup {NoPort}
  BY DEF StartDiscovery, Starting, Core, Prepared, ServiceOK
<1>2. HarmlessQueue
  BY <1>1 DEF HarmlessQueue, Core, ServiceOK
<1>3. CASE /\ advert' = [secret |-> running.secret, host |-> running.host, port |-> running.port]
           /\ active' = Browse(running.pair, running.secret)
           /\ state' = Offline(running.pair) /\ running' = Idle
  <2>1. /\ running.pair \in MaybePair /\ running.secret \in MaybePair
        /\ running.host \in LocalHost
    BY <1>1 DEF Activations
  <2>2. /\ active' \in Browsings /\ active'.pair = running.pair /\ active'.secret = running.secret
        /\ active'.matched = NoName /\ active'.proven = NoPort
    BY <1>3, <2>1 DEF Browse, Browsings
  <2>3. /\ state' \in Snapshots /\ state'.kind = "offline" /\ state'.pair = running.pair
        /\ state'.name = NoName /\ state'.port = NoPort
    BY <1>3, <2>1, SnapshotFields
  <2>4. active' # NoActive
    BY <1>1, <2>2, NothingFields
  <2>5. advert'.secret = running.secret /\ advert' # NoAdvert
    BY <1>1, <1>3, NothingFields
  <2>6. advert' \in Adverts
    BY <1>1, <1>3, <2>1 DEF Adverts
  <2>7. ServiceOK'
    BY <1>1, <1>3, <2>2, <2>3, <2>6, NothingFields DEF Core, ServiceOK
  <2>8. AvailableIsProven'
    BY <2>2, <2>3, <2>4, <2>5 DEF AvailableIsProven
  <2>9. Prepared' /\ StartsWithNothing' /\ ReprobeHolds' /\ LeaseDue'
    BY <1>1, <1>3, <2>2, <2>3, NothingFields
       DEF Prepared, StartsWithNothing, ReprobeHolds, LeaseDue, Starting
  <2>10. CurrentIsActive'
    BY <2>4 DEF CurrentIsActive
  <2> QED
    BY <1>1, <2>7, <2>8, <2>9, <2>10 DEF Core
<1>4. CASE ActivationFails
  BY <1>1, <1>2, <1>4, ActivationFailsKeeps
<1> QED
  BY <1>1, <1>3, <1>4 DEF StartDiscovery

LEMMA ReprobeAnswersKeeps ==
  ASSUME Core, ReprobeAnswers
  PROVE  Core'
<1>1. /\ running.step = "reprobe" /\ running' = Idle /\ UNCHANGED advert
      /\ state.kind = "available" /\ active # NoActive /\ ServiceOK /\ Prepared
      /\ AvailableIsProven
  BY DEF ReprobeAnswers, Core, ReprobeHolds, AvailableIsProven
<1>2. CASE lease' = active.proven /\ UNCHANGED <<state, active, queue, probes>>
  <2>1. ServiceOK'
    BY <1>1, <1>2, NothingFields DEF ServiceOK, Browsings
  <2>2. AvailableIsProven' /\ CurrentIsActive'
    BY <1>1, <1>2 DEF Core, AvailableIsProven, CurrentIsActive
  <2>3. Prepared' /\ StartsWithNothing' /\ ReprobeHolds' /\ LeaseDue'
    BY <1>1, <1>2, NothingFields
       DEF Prepared, StartsWithNothing, ReprobeHolds, LeaseDue, Starting, AvailableIsProven
  <2> QED
    BY <2>1, <2>2, <2>3 DEF Core
<1>3. CASE Unmatch /\ SupersedeProbes(queue) /\ UNCHANGED lease
  <2>1. probes' = Superseded /\ queue' = OutdateProved(queue) /\ queue \in Seq(Ops)
    BY <1>1, <1>3 DEF SupersedeProbes, ServiceOK
  <2>2. ServiceOK'
    BY <1>1, <1>3, <2>1, UnmatchFields, SupersededProbes, OutdatedProved, NothingFields DEF ServiceOK
  <2>3. AvailableIsProven'
    BY <1>1, <1>3, UnmatchFields DEF AvailableIsProven
  <2>4. Prepared' /\ StartsWithNothing' /\ ReprobeHolds' /\ LeaseDue' /\ CurrentIsActive'
    BY <1>1, <1>3, UnmatchFields, NothingFields
       DEF Prepared, StartsWithNothing, ReprobeHolds, LeaseDue, CurrentIsActive, Starting
  <2> QED
    BY <2>2, <2>3, <2>4 DEF Core
<1> QED
  BY <1>2, <1>3 DEF ReprobeAnswers
LEMMA AnswerKeeps == Core /\ PhoneOK /\ Answer => Core' /\ listener' \in Listeners
<1> SUFFICES ASSUME Core, PhoneOK, Answer PROVE Core' /\ listener' \in Listeners
  OBVIOUS
<1>1. listener \in Listeners
  BY DEF PhoneOK
<1>2. CASE ReprobeAnswers
  <2>1. UNCHANGED listener
    BY <1>2 DEF ReprobeAnswers
  <2> QED
    BY <1>1, <1>2, <2>1, ReprobeAnswersKeeps
<1>3. CASE /\ LoadPairSecret \/ PrepareAdvertisement \/ EnsureListening \/ StartDiscovery
           /\ UNCHANGED <<lease, probes, outside>>
  <2>1. UNCHANGED <<lease, probes>>
    BY <1>3
  <2> QED
    BY <1>1, <1>3, <2>1, LoadPairSecretKeeps, PrepareAdvertisementKeeps, EnsureListeningKeeps,
       StartDiscoveryKeeps
<1> QED
  BY <1>2, <1>3 DEF Answer

LEMMA ProbeAnswersKeeps == Core /\ ProbeAnswers => Core'
<1> SUFFICES ASSUME Core, ProbeAnswers PROVE Core'
  OBVIOUS
<1>1. PICK p \in probes :
        /\ probes' = probes \ {p}
        /\ IF partner = p.service.port
           THEN Enqueue([op |-> "proved", service |-> p.service, current |-> p.current])
           ELSE UNCHANGED queue
  BY DEF ProbeAnswers
<1>2. UNCHANGED <<state, active, lease, running, advert>>
  BY DEF ProbeAnswers
<1> DEFINE op == [op |-> "proved", service |-> p.service, current |-> p.current]
<1>3. p.service \in Service /\ p.current \in BOOLEAN /\ queue \in Seq(Ops)
  BY DEF Core, ServiceOK
<1>4. op \in Ops /\ (op.current <=> p.current)
  BY <1>3 DEF Ops
<1>5. Counts(op) => active # NoActive
  BY <1>4, Zenon DEF Core, CurrentIsActive, Counts
<1> HIDE DEF op
<1>6. /\ queue' \in Seq(Ops) /\ Elements(queue) \subseteq Elements(queue')
      /\ \A e \in Elements(queue') : e \in Elements(queue) \/ e = op
  <2>1. CASE queue' = Append(queue, op)
    BY <1>3, <1>4, <2>1, AppendElements
  <2>2. CASE queue' = queue
    BY <1>3, <2>2
  <2> QED
    BY <1>1, <2>1, <2>2 DEF Enqueue, op
<1>7. ServiceOK'
  BY <1>1, <1>2, <1>6 DEF Core, ServiceOK
<1>8. AvailableIsProven' /\ Prepared' /\ StartsWithNothing' /\ ReprobeHolds'
  BY <1>2 DEF Core, AvailableIsProven, Prepared, StartsWithNothing, ReprobeHolds
<1>9. CurrentIsActive'
  BY <1>1, <1>2, <1>5, <1>6 DEF Core, CurrentIsActive
<1>10. LeaseDue'
  BY <1>2, <1>6 DEF Core, LeaseDue
<1> QED
  BY <1>7, <1>8, <1>9, <1>10 DEF Core

LEMMA LeaseFiresKeeps == Core /\ LeaseFires => Core'
<1> SUFFICES ASSUME Core, LeaseFires PROVE Core'
  OBVIOUS
<1> DEFINE op == [op |-> "lease", port |-> lease, current |-> TRUE]
<1>1. /\ lease # NoPort /\ lease' = NoPort /\ queue' = Append(queue, op)
      /\ UNCHANGED <<state, active, running, probes, advert>>
  BY DEF LeaseFires, Enqueue
<1>2. queue \in Seq(Ops) /\ lease \in Port
  BY <1>1 DEF Core, ServiceOK
<1>3. op \in Ops
  BY <1>2 DEF Ops
<1>4. ~Counts(op) /\ Renews(op, lease)
  BY DEF Counts, Renews
<1> HIDE DEF op
<1>5. queue' \in Seq(Ops) /\ Elements(queue') = Elements(queue) \cup {op}
  BY <1>1, <1>2, <1>3, AppendElements
<1>6. ServiceOK'
  BY <1>1, <1>5 DEF Core, ServiceOK
<1>7. AvailableIsProven' /\ Prepared' /\ StartsWithNothing' /\ ReprobeHolds'
  BY <1>1 DEF Core, AvailableIsProven, Prepared, StartsWithNothing, ReprobeHolds
<1>8. CurrentIsActive'
  BY <1>1, <1>4, <1>5 DEF Core, CurrentIsActive
<1>9. LeaseDue'
  BY <1>1, <1>4, <1>5 DEF Core, LeaseDue
<1> QED
  BY <1>6, <1>7, <1>8, <1>9 DEF Core

-----------------------------------------------------------------------------
(* Everything else leaves the service alone, except for what it queues. *)

LEMMA QueueOnly ==
  ASSUME Core, HarmlessQueue, Elements(queue) \subseteq Elements(queue'),
         UNCHANGED <<state, active, lease, running, probes, advert>>
  PROVE  Core'
<1>1. ServiceOK'
  BY DEF Core, ServiceOK, HarmlessQueue
<1>2. AvailableIsProven' /\ Prepared' /\ StartsWithNothing' /\ ReprobeHolds'
  BY DEF Core, AvailableIsProven, Prepared, StartsWithNothing, ReprobeHolds
<1>3. CurrentIsActive'
  BY DEF Core, CurrentIsActive, HarmlessQueue
<1>4. LeaseDue'
  BY DEF Core, LeaseDue
<1> QED
  BY <1>1, <1>2, <1>3, <1>4 DEF Core

LEMMA EnqueueIsHarmless ==
  ASSUME queue \in Seq(Ops), NEW op \in Ops, op.op # "proved", Enqueue(op)
  PROVE  HarmlessQueue /\ Elements(queue) \subseteq Elements(queue')
<1>1. ~Counts(op)
  BY DEF Counts
<1> QED
  BY <1>1, AppendElements DEF Enqueue, HarmlessQueue

LEMMA SameQueueIsHarmless ==
  ASSUME queue \in Seq(Ops), UNCHANGED queue
  PROVE  HarmlessQueue /\ Elements(queue) \subseteq Elements(queue')
  BY DEF HarmlessQueue

LEMMA TurnTypes ==
  ASSUME PhoneOK
  PROVE  /\ turn.pair \in MaybePair /\ NoTurn \in Turns /\ NoTurn.step = "none"
         /\ \A step \in {"activate", "wait", "deactivate", "waitStop"} :
              /\ [turn EXCEPT !.step = step] \in Turns
              /\ [turn EXCEPT !.step = step].step = step
              /\ [turn EXCEPT !.step = step].pair = turn.pair
         /\ NoListener \in Listeners
<1>1. turn \in Turns /\ 0 \in MaybePair
  BY DEF PhoneOK, MaybePair
<1>2. NoTurn \in Turns /\ NoTurn.step = "none"
  BY <1>1 DEF NoTurn, Turns
<1>3. NoListener \in Listeners
  BY DEF NoListener, Listeners, LocalHost
<1>4. turn.pair \in MaybePair
  BY <1>1 DEF Turns
<1>5. ASSUME NEW step \in {"activate", "wait", "deactivate", "waitStop"}
      PROVE  /\ [turn EXCEPT !.step = step] \in Turns
             /\ [turn EXCEPT !.step = step].step = step
             /\ [turn EXCEPT !.step = step].pair = turn.pair
  BY <1>1 DEF Turns
<1> QED
  BY <1>2, <1>3, <1>4, <1>5

LEMMA LifecycleKeeps == IInv /\ Lifecycle => IInv'
<1> SUFFICES ASSUME IInv, Lifecycle PROVE IInv'
  OBVIOUS
<1>1. /\ Core /\ PhoneOK /\ TurnHasPair /\ queue \in Seq(Ops)
      /\ UNCHANGED <<state, active, lease, running, probes, advert, trust, paired, partner>>
  BY DEF IInv, Core, ServiceOK, Lifecycle, worldVars
<1>2. /\ lastPair \in MaybePair /\ listener \in Listeners /\ context \in MaybePair
      /\ turns \in 0..MaxTurns /\ trust \in MaybePair /\ 0 \in MaybePair
  BY <1>1 DEF PhoneOK, MaybePair
<1>3. SUFFICES /\ HarmlessQueue /\ Elements(queue) \subseteq Elements(queue')
               /\ lastPair' \in MaybePair /\ listener' \in Listeners /\ context' \in MaybePair
               /\ turns' \in 0..MaxTurns /\ turn' \in Turns /\ TurnHasPair'
  BY <1>1, QueueOnly DEF IInv, PhoneOK
<1>4. CASE TurnStarts
  <2>1. turns' = turns - 1 /\ turns > 0 /\ UNCHANGED <<context, listener, lastPair, queue>>
    BY <1>4 DEF TurnStarts
  <2>2. turn' = [step |-> IF trust # 0 THEN "activatePair" ELSE "stopMedia", pair |-> trust]
    BY <1>4 DEF TurnStarts
  <2>3. turn' \in Turns /\ TurnHasPair'
    BY <1>2, <2>2 DEF Turns, TurnHasPair
  <2>4. turns' \in 0..MaxTurns
    BY <1>2, <2>1, AvailabilityAssumption
  <2> QED
    BY <1>1, <1>2, <2>1, <2>3, <2>4, SameQueueIsHarmless
<1>5. CASE ActivatePair
  <2>1. turn.step = "activatePair" /\ turn.pair # 0 /\ UNCHANGED <<turns, lastPair, queue>>
    BY <1>1, <1>5 DEF ActivatePair, TurnHasPair
  <2>2. context' \in MaybePair /\ listener' \in Listeners
    BY <1>1, <1>2, <1>5, TurnTypes DEF ActivatePair
  <2>3. turn' = NoTurn \/ turn' = [turn EXCEPT !.step = "activate"]
    BY <1>5 DEF ActivatePair, Later
  <2>4. turn' \in Turns /\ TurnHasPair'
    BY <1>1, <2>1, <2>3, TurnTypes DEF TurnHasPair
  <2> QED
    BY <1>1, <1>2, <2>1, <2>2, <2>4, SameQueueIsHarmless
<1>6. CASE ActivateAvailability
  <2>1. /\ turn.pair # 0 /\ turn' = [turn EXCEPT !.step = "wait"] /\ lastPair' = turn.pair
        /\ Enqueue(Activate(turn.pair, FALSE, TRUE)) /\ UNCHANGED <<turns, context, listener>>
    BY <1>1, <1>6 DEF ActivateAvailability, TurnHasPair, Later
  <2>2. turn.pair \in Pair
    BY <1>1, <2>1, TurnTypes DEF MaybePair
  <2>3. turn' \in Turns /\ TurnHasPair'
    BY <1>1, <2>1, TurnTypes DEF TurnHasPair
  <2>4. HarmlessQueue /\ Elements(queue) \subseteq Elements(queue')
    BY <1>1, <2>1, <2>2, ActivateIsHarmless
  <2> QED
    BY <1>1, <1>2, <2>1, <2>3, <2>4, TurnTypes
<1>7. CASE MediaStopped
  <2>1. turn' = [turn EXCEPT !.step = "deactivate"] /\ UNCHANGED <<turns, context, listener, lastPair, queue>>
    BY <1>7 DEF MediaStopped, Later
  <2>2. turn' \in Turns /\ TurnHasPair'
    BY <1>1, <2>1, TurnTypes DEF TurnHasPair
  <2> QED
    BY <1>1, <1>2, <2>1, <2>2, SameQueueIsHarmless
<1>8. CASE DeactivateAvailability
  <2>1. /\ turn' = [turn EXCEPT !.step = "waitStop"] /\ lastPair' = 0
        /\ Enqueue(Deactivate) /\ UNCHANGED <<turns, context, listener>>
    BY <1>8 DEF DeactivateAvailability, Later
  <2>2. Deactivate \in Ops /\ Deactivate.op # "proved"
    BY DEF Deactivate, Ops
  <2>3. turn' \in Turns /\ TurnHasPair'
    BY <1>1, <2>1, TurnTypes DEF TurnHasPair
  <2> QED
    BY <1>1, <1>2, <2>1, <2>2, <2>3, EnqueueIsHarmless
<1>9. CASE TurnEnds
  <2>1. turn' = NoTurn /\ UNCHANGED <<turns, lastPair, queue>>
    BY <1>9 DEF TurnEnds
  <2>2. context' \in MaybePair /\ listener' \in Listeners
    BY <1>1, <1>2, <1>9, TurnTypes DEF TurnEnds
  <2>3. turn' \in Turns /\ TurnHasPair'
    BY <1>1, <2>1, TurnTypes DEF TurnHasPair
  <2> QED
    BY <1>1, <1>2, <2>1, <2>2, <2>3, SameQueueIsHarmless
<1> QED
  BY <1>4, <1>5, <1>6, <1>7, <1>8, <1>9 DEF Lifecycle

LEMMA CallKeeps == IInv /\ Call => IInv'
<1> SUFFICES ASSUME IInv, Call PROVE IInv'
  OBVIOUS
<1>1. /\ Core /\ ServiceOK /\ PhoneOK /\ TurnHasPair /\ queue \in Seq(Ops)
      /\ UNCHANGED <<state, active, lease, running, probes, advert, outside>>
  BY DEF IInv, Core, ServiceOK, Call
<1>2. lastPair \in MaybePair /\ listener \in Listeners
  BY <1>1 DEF PhoneOK
<1>3. SUFFICES HarmlessQueue /\ Elements(queue) \subseteq Elements(queue') /\ listener' \in Listeners
  BY <1>1, QueueOnly DEF IInv, PhoneOK, TurnHasPair, outside, lifecycleVars, worldVars
<1>4. CASE Retry /\ UNCHANGED listener
  <2>1. lastPair \in Pair /\ Enqueue(Activate(lastPair, TRUE, FALSE))
    BY <1>2, <1>4 DEF Retry, MaybePair
  <2> QED
    BY <1>1, <1>2, <1>4, <2>1, ActivateIsHarmless
<1>5. CASE ConnectFails /\ UNCHANGED listener
  <2> DEFINE op == [op |-> "unreachable", port |-> state.port]
  <2>1. Enqueue(op) /\ state.port # NoPort
    BY <1>1, <1>5 DEF ConnectFails, Core, AvailableIsProven
  <2>2. state.port \in Port
    BY <1>1, <2>1 DEF ServiceOK, Snapshots
  <2>3. op \in Ops /\ op.op # "proved"
    BY <2>2 DEF Ops
  <2> QED
    BY <1>1, <1>2, <1>5, <2>1, <2>3, EnqueueIsHarmless
<1>6. CASE DiscoveryEvent /\ UNCHANGED listener
  <2>1. \/ \E s \in Service : Enqueue([op |-> "resolved", service |-> s])
        \/ \E n \in Name : Enqueue([op |-> "lost", name |-> n])
        \/ Enqueue([op |-> "error"])
    BY <1>6 DEF DiscoveryEvent
  <2>2. /\ \A s \in Service : /\ [op |-> "resolved", service |-> s] \in Ops
                             /\ [op |-> "resolved", service |-> s].op # "proved"
        /\ \A n \in Name : /\ [op |-> "lost", name |-> n] \in Ops
                          /\ [op |-> "lost", name |-> n].op # "proved"
        /\ [op |-> "error"] \in Ops /\ [op |-> "error"].op # "proved"
    BY DEF Ops
  <2> QED
    BY <1>1, <1>2, <1>6, <2>1, <2>2, EnqueueIsHarmless
<1>7. CASE ListenerFails
  <2>1. listener' = NoListener /\ ListenerChanged
    BY <1>7 DEF ListenerFails
  <2> QED
    BY <1>1, <1>2, <2>1, ListenerChangedIsHarmless, TurnTypes
<1> QED
  BY <1>4, <1>5, <1>6, <1>7 DEF Call

LEMMA WorldKeeps == IInv /\ World => IInv'
<1> SUFFICES ASSUME IInv, World PROVE IInv'
  OBVIOUS
<1>1. /\ Core /\ PhoneOK /\ TurnHasPair /\ queue \in Seq(Ops)
      /\ UNCHANGED <<state, active, lease, queue, running, probes, advert>>
      /\ UNCHANGED <<listener, lastPair, context, turn>>
  BY DEF IInv, Core, ServiceOK, World, serviceVars
<1>2. turns \in 0..MaxTurns /\ paired \in 0..MaxPairs /\ trust \in MaybePair /\ partner \in Port \cup {NoPort}
  BY <1>1 DEF PhoneOK
<1>3. Core'
  BY <1>1, SameQueueIsHarmless, QueueOnly
<1>4. CASE PairingChanges
  <2>1. turns' \in 0..MaxTurns
    BY <1>2, <1>4, AvailabilityAssumption DEF PairingChanges
  <2>2. paired' \in 0..MaxPairs /\ trust' \in MaybePair
    BY <1>2, <1>4, AvailabilityAssumption DEF PairingChanges, MaybePair, Pair
  <2> QED
    BY <1>1, <1>3, <1>4, <2>1, <2>2 DEF IInv, PhoneOK, TurnHasPair, PairingChanges
<1>5. CASE PartnerChanges
  BY <1>1, <1>3, <1>5 DEF IInv, PhoneOK, TurnHasPair, PartnerChanges
<1> QED
  BY <1>4, <1>5 DEF World

-----------------------------------------------------------------------------
(* The invariant and what follows from it. *)

LEMMA InitInv == Init => IInv
<1> SUFFICES ASSUME Init PROVE IInv
  OBVIOUS
<1>1. /\ state = Inactive /\ active = NoActive /\ lastPair = 0 /\ lease = NoPort
      /\ queue = <<>> /\ running = Idle /\ probes = {} /\ advert = NoAdvert
      /\ listener = NoListener /\ context = 0 /\ turn = NoTurn /\ turns = 0
      /\ trust = 0 /\ paired = 0 /\ partner \in Port
  BY DEF Init
<1>2. 0 \in MaybePair /\ queue \in Seq(Ops) /\ Elements(queue) = {}
  BY <1>1, EmptySeq DEF MaybePair, Elements
<1>3. /\ Inactive \in Snapshots /\ Inactive.kind = "inactive"
      /\ Inactive.name = NoName /\ Inactive.port = NoPort
  BY <1>2, SnapshotFields
<1>4. ServiceOK /\ AvailableIsProven
  BY <1>1, <1>2, <1>3, NothingFields DEF ServiceOK, AvailableIsProven
<1>5. Prepared /\ StartsWithNothing /\ CurrentIsActive /\ ReprobeHolds /\ LeaseDue
  BY <1>1, <1>2, <1>3, NothingFields
     DEF Prepared, StartsWithNothing, CurrentIsActive, ReprobeHolds, LeaseDue
<1>6. NoTurn \in Turns /\ NoTurn.step = "none" /\ NoListener \in Listeners
  BY <1>2 DEF NoTurn, Turns, NoListener, Listeners, LocalHost
<1>7. PhoneOK /\ TurnHasPair
  BY <1>1, <1>2, <1>6, AvailabilityAssumption DEF PhoneOK, TurnHasPair
<1> QED
  BY <1>4, <1>5, <1>7 DEF IInv, Core

LEMMA StepInv == IInv /\ [Next]_vars => IInv'
<1> SUFFICES ASSUME IInv, [Next]_vars PROVE IInv'
  OBVIOUS
<1>1. Core /\ PhoneOK /\ TurnHasPair
  BY DEF IInv
<1>2. CASE Handle
  <2>1. UNCHANGED <<listener, lastPair, context, turn, turns, trust, paired, partner>>
    BY <1>2 DEF Handle, outside, lifecycleVars, worldVars
  <2> QED
    BY <1>1, <1>2, <2>1, HandleKeeps DEF IInv, PhoneOK, TurnHasPair
<1>3. CASE Answer
  <2>1. UNCHANGED <<lastPair, context, turn, turns, trust, paired, partner>>
    BY <1>3 DEF Answer, ReprobeAnswers, outside, lifecycleVars, worldVars
  <2> QED
    BY <1>1, <1>3, <2>1, AnswerKeeps DEF IInv, PhoneOK, TurnHasPair
<1>4. CASE ProbeAnswers
  <2>1. UNCHANGED <<listener, lastPair, context, turn, turns, trust, paired, partner>>
    BY <1>4 DEF ProbeAnswers, outside, lifecycleVars, worldVars
  <2> QED
    BY <1>1, <1>4, <2>1, ProbeAnswersKeeps DEF IInv, PhoneOK, TurnHasPair
<1>5. CASE LeaseFires
  <2>1. UNCHANGED <<listener, lastPair, context, turn, turns, trust, paired, partner>>
    BY <1>5 DEF LeaseFires, outside, lifecycleVars, worldVars
  <2> QED
    BY <1>1, <1>5, <2>1, LeaseFiresKeeps DEF IInv, PhoneOK, TurnHasPair
<1>6. CASE UNCHANGED vars
  <2>1. /\ UNCHANGED <<state, active, lease, queue, running, probes, advert>>
        /\ UNCHANGED <<listener, lastPair, context, turn, turns, trust, paired, partner>>
    BY <1>6 DEF vars, serviceVars, outside, lifecycleVars, worldVars
  <2>2. queue \in Seq(Ops)
    BY <1>1 DEF Core, ServiceOK
  <2>3. Core'
    BY <1>1, <2>1, <2>2, SameQueueIsHarmless, QueueOnly
  <2> QED
    BY <1>1, <2>1, <2>3 DEF IInv, PhoneOK, TurnHasPair
<1> QED
  BY <1>2, <1>3, <1>4, <1>5, <1>6, LifecycleKeeps, CallKeeps, WorldKeeps DEF Next

LEMMA InvAlways == Spec => []IInv
  BY InitInv, StepInv, PTL DEF Spec

\* Whatever discovery reports and however late its probes are answered, what is
\* shown as available was proved, and its lease is armed, queued or probing
\* (handleProvedEndpoint, armPartnerLease, reprobePartnerLease, stopActive).
THEOREM AvailableIsAlwaysReal == Spec => []AvailableIsReal
<1>1. IInv => AvailableIsReal
  <2> SUFFICES ASSUME IInv PROVE AvailableIsReal
    OBVIOUS
  <2>1. TypeOK /\ AvailableIsProven
    BY DEF IInv, Core, ServiceOK, PhoneOK, TypeOK
  <2>2. ASSUME state.kind = "available" PROVE LeaseIsDue(state.port)
    <3>1. CASE lease = state.port
      BY <3>1 DEF LeaseIsDue
    <3>2. CASE running.step = "reprobe"
      BY <3>2 DEF LeaseIsDue, IInv, Core, ReprobeHolds
    <3>3. CASE \E e \in Elements(queue) : Renews(e, state.port)
      BY <3>3, Zenon DEF LeaseIsDue, Elements, Renews
    <3> QED
      BY <2>2, <3>1, <3>2, <3>3 DEF IInv, Core, LeaseDue
  <2> QED
    BY <2>1, <2>2 DEF AvailableIsReal
<1> QED
  BY <1>1, InvAlways, PTL
-----------------------------------------------------------------------------
(* Only the newest answer counts. *)

Quiet(q) == \A i \in DOMAIN q : ~Counts(q[i])
OneWaits(q) == \A i, j \in DOMAIN q : Counts(q[i]) /\ Counts(q[j]) => i = j
OneFlies == \A p, r \in probes : p.current /\ r.current => p = r

\* Answers that count wait one at a time, and not while their probe is in flight.
OneCounts ==
  /\ OneWaits(queue) /\ OneFlies
  /\ (\E p \in probes : p.current) => Quiet(queue)

LEMMA QuietElements ==
  ASSUME NEW q, \A e \in Elements(q) : ~Counts(e)
  PROVE  Quiet(q) /\ OneWaits(q)
  BY DEF Quiet, OneWaits, Elements

LEMMA OneWaitsTail ==
  ASSUME NEW q \in Seq(Ops), q # <<>>
  PROVE  /\ OneWaits(q) => OneWaits(Tail(q))
         /\ Quiet(q) => Quiet(Tail(q))
<1>1. /\ Tail(q) \in Seq(Ops) /\ Len(Tail(q)) = Len(q) - 1 /\ Len(q) \in Nat
      /\ \A i \in 1..Len(Tail(q)) : Tail(q)[i] = q[i + 1]
  BY HeadTailProperties, LenProperties
<1>2. DOMAIN q = 1..Len(q) /\ DOMAIN Tail(q) = 1..Len(Tail(q))
  BY <1>1, LenProperties
<1>3. \A i \in DOMAIN Tail(q) : i \in Nat /\ i + 1 \in DOMAIN q /\ Tail(q)[i] = q[i + 1]
  BY <1>1, <1>2
<1>4. ASSUME OneWaits(q), NEW i \in DOMAIN Tail(q), NEW j \in DOMAIN Tail(q),
             Counts(Tail(q)[i]), Counts(Tail(q)[j])
      PROVE  i = j
  <2>1. i + 1 = j + 1
    BY <1>3, <1>4 DEF OneWaits
  <2> QED
    BY <1>3, <2>1
<1>5. Quiet(q) => Quiet(Tail(q))
  BY <1>3 DEF Quiet
<1> QED
  BY <1>4, <1>5 DEF OneWaits

LEMMA OneWaitsAppend ==
  ASSUME NEW q \in Seq(Ops), NEW op \in Ops
  PROVE  /\ Quiet(q) => OneWaits(Append(q, op))
         /\ ~Counts(op) /\ OneWaits(q) => OneWaits(Append(q, op))
         /\ ~Counts(op) /\ Quiet(q) => Quiet(Append(q, op))
<1>1. /\ Append(q, op) \in Seq(Ops) /\ Len(Append(q, op)) = Len(q) + 1 /\ Len(q) \in Nat
      /\ \A i \in 1..Len(q) : Append(q, op)[i] = q[i]
      /\ Append(q, op)[Len(q) + 1] = op
  BY AppendProperties, LenProperties
<1>2. DOMAIN q = 1..Len(q) /\ DOMAIN Append(q, op) = 1..(Len(q) + 1)
  BY <1>1, LenProperties
<1>3. \A i \in DOMAIN Append(q, op) :
        \/ i \in DOMAIN q /\ Append(q, op)[i] = q[i]
        \/ i = Len(q) + 1 /\ Append(q, op)[i] = op
  BY <1>1, <1>2
<1>4. ASSUME Quiet(q) PROVE OneWaits(Append(q, op))
  <2>1. \A i \in DOMAIN Append(q, op) : Counts(Append(q, op)[i]) => i = Len(q) + 1
    BY <1>3, <1>4 DEF Quiet
  <2> QED
    BY <2>1 DEF OneWaits
<1>5. ASSUME ~Counts(op) PROVE OneWaits(q) => OneWaits(Append(q, op))
  <2>1. \A i \in DOMAIN Append(q, op) :
          Counts(Append(q, op)[i]) => i \in DOMAIN q /\ Counts(q[i])
    BY <1>3, <1>5
  <2> QED
    BY <2>1 DEF OneWaits
<1>6. ASSUME ~Counts(op), Quiet(q) PROVE Quiet(Append(q, op))
  BY <1>3, <1>6 DEF Quiet
<1> QED
  BY <1>4, <1>5, <1>6

\* A queue that only moved on or grew by an operation that cannot count.
Quieter(q) == q = queue \/ \E op \in Ops : ~Counts(op) /\ q = Append(queue, op)

LEMMA QuieterKeeps ==
  ASSUME queue \in Seq(Ops), OneCounts, Quieter(queue'), UNCHANGED probes
  PROVE  OneCounts'
<1>1. OneWaits(queue') /\ (Quiet(queue) => Quiet(queue'))
  BY OneWaitsAppend DEF Quieter, OneCounts
<1> QED
  BY <1>1 DEF OneCounts, OneFlies

LEMMA SupersededKeeps ==
  ASSUME ServiceOK, Quiet(queue'), OneWaits(queue'),
         \/ probes' = Superseded
         \/ \E s \in Service : probes' = Superseded \cup {[service |-> s, current |-> TRUE]}
  PROVE  OneCounts'
<1>1. \A p \in Superseded : p.current = FALSE
  BY SupersededProbes
<1>2. OneFlies'
  <2>1. CASE probes' = Superseded
    BY <1>1, <2>1 DEF OneFlies
  <2>2. ASSUME NEW s \in Service, probes' = Superseded \cup {[service |-> s, current |-> TRUE]}
        PROVE  OneFlies'
    <3>1. \A p \in probes' : p.current => p = [service |-> s, current |-> TRUE]
      BY <1>1, <2>2
    <3> QED
      BY <3>1, Zenon DEF OneFlies
  <2> QED
    BY <2>1, <2>2
<1> QED
  BY <1>2 DEF OneCounts

\* A handler takes its operation off the queue, or supersedes every answer.
LEMMA HandleAnswers ==
  ASSUME ServiceOK, Handle
  PROVE  \/ queue # <<>> /\ queue' = Tail(queue) /\ UNCHANGED probes
         \/ /\ Quiet(queue') /\ OneWaits(queue')
            /\ \/ probes' = Superseded
               \/ \E s \in Service : probes' = Superseded \cup {[service |-> s, current |-> TRUE]}
<1> DEFINE op == Head(queue)
           rest == Tail(queue)
<1>1. queue # <<>> /\ op \in Ops /\ rest \in Seq(Ops)
  BY TailElements DEF Handle, ServiceOK
<1>2. \/ op.op = "activate" /\ ActivateNow(op, rest)
      \/ op.op = "deactivate" /\ DeactivateNow(rest)
      \/ op.op = "resolved" /\ HandleResolved(op.service, rest)
      \/ op.op = "lost" /\ HandleLost(op.name, rest)
      \/ op.op = "error" /\ HandleError(rest)
      \/ op.op = "proved" /\ HandleProved(op.service, op.current, rest)
      \/ op.op = "lease" /\ ReprobeLease(op, rest)
      \/ op.op = "unreachable" /\ MarkPartnerUnreachable(op.port, rest)
  BY DEF Handle
<1>3. /\ Quiet(Outdate(rest, {"proved", "lease"})) /\ OneWaits(Outdate(rest, {"proved", "lease"}))
      /\ Quiet(OutdateProved(rest)) /\ OneWaits(OutdateProved(rest))
  BY <1>1, StoppedQueue, OutdatedProved, QuietElements
<1> DEFINE Moves == queue' = rest /\ UNCHANGED probes
           Supersedes == /\ Quiet(queue') /\ OneWaits(queue')
                         /\ \/ probes' = Superseded
                            \/ \E s \in Service :
                                 probes' = Superseded \cup {[service |-> s, current |-> TRUE]}
<1> HIDE DEF op, rest
<1>4. /\ Skip(rest) => Moves
      /\ Demote(rest) => Supersedes
      /\ StopActive(rest) => Supersedes
  BY <1>3 DEF Skip, Demote, SupersedeProbes, StopActive
<1>5. op.op = "resolved" /\ HandleResolved(op.service, rest) => Moves \/ Supersedes
  <2> SUFFICES ASSUME op.op = "resolved", HandleResolved(op.service, rest) PROVE Moves \/ Supersedes
    OBVIOUS
  <2>1. op.service \in Service
    BY <1>1, OpFields
  <2> QED
    BY <1>3, <1>4, <2>1 DEF HandleResolved
<1>6. ActivateNow(op, rest) \/ DeactivateNow(rest) => Moves \/ Supersedes
  BY <1>4 DEF ActivateNow, DeactivateNow
<1>7. HandleLost(op.name, rest) \/ HandleError(rest) \/ MarkPartnerUnreachable(op.port, rest)
        => Moves \/ Supersedes
  BY <1>4 DEF HandleLost, HandleError, MarkPartnerUnreachable
<1>8. HandleProved(op.service, op.current, rest) \/ ReprobeLease(op, rest) => Moves
  BY <1>4 DEF HandleProved, ReprobeLease
<1>9. Moves \/ Supersedes
  BY <1>2, <1>5, <1>6, <1>7, <1>8
<1> QED
  BY <1>1, <1>9 DEF rest

LEMMA ActivateIsQuieter ==
  ASSUME NEW p \in Pair, NEW force \in BOOLEAN, NEW awaited \in BOOLEAN,
         Enqueue(Activate(p, force, awaited))
  PROVE  Quieter(queue')
<1> DEFINE op == Activate(p, force, awaited)
<1>1. op \in Ops /\ op.op = "activate"
  BY DEF Activate, Ops
<1>2. ~Counts(op)
  BY <1>1 DEF Counts
<1>3. queue' = Append(queue, op)
  BY DEF Enqueue
<1> HIDE DEF op
<1> QED
  BY <1>1, <1>2, <1>3 DEF Quieter

LEMMA EnqueueIsQuieter ==
  ASSUME NEW op \in Ops, op.op # "proved", Enqueue(op)
  PROVE  Quieter(queue')
  BY DEF Counts, Enqueue, Quieter

LEMMA ListenerChangedIsQuieter ==
  ASSUME ServiceOK, lastPair \in MaybePair, ListenerChanged
  PROVE  Quieter(queue')
<1>1. active.pair \in MaybePair
  BY DEF ServiceOK, Browsings
<1> DEFINE p == IF lastPair # 0 THEN lastPair ELSE active.pair
<1>2. p # 0 => p \in Pair
  BY <1>1 DEF MaybePair
<1>3. CASE p # 0
  <2>1. Enqueue(Activate(p, TRUE, FALSE))
    BY <1>3 DEF ListenerChanged
  <2> QED
    BY <1>2, <1>3, <2>1, ActivateIsQuieter
<1>4. CASE p = 0
  BY <1>4 DEF ListenerChanged, Quieter
<1> QED
  BY <1>3, <1>4
LEMMA AnswerAnswers ==
  ASSUME ServiceOK, PhoneOK, OneCounts, Answer
  PROVE  OneCounts'
<1>1. queue \in Seq(Ops) /\ lastPair \in MaybePair
  BY DEF ServiceOK, PhoneOK
<1>2. CASE UNCHANGED <<queue, probes>>
  BY <1>1, <1>2, QuieterKeeps DEF Quieter
<1>3. CASE ReprobeAnswers
  <2>1. CASE SupersedeProbes(queue)
    <3>1. probes' = Superseded /\ queue' = OutdateProved(queue)
      BY <2>1 DEF SupersedeProbes
    <3>2. Quiet(queue') /\ OneWaits(queue')
      BY <1>1, <3>1, OutdatedProved, QuietElements
    <3> QED
      BY <3>1, <3>2, SupersededKeeps
  <2> QED
    BY <1>2, <1>3, <2>1 DEF ReprobeAnswers
<1>4. CASE EnsureListening /\ UNCHANGED probes
  <2>1. UNCHANGED queue \/ ListenerChanged
    BY <1>4 DEF EnsureListening, ReplaceListener
  <2>2. Quieter(queue')
    BY <1>1, <2>1, ListenerChangedIsQuieter DEF Quieter
  <2> QED
    BY <1>1, <1>4, <2>2, QuieterKeeps
<1>5. CASE (LoadPairSecret \/ PrepareAdvertisement \/ StartDiscovery) /\ UNCHANGED probes
  BY <1>2, <1>5 DEF LoadPairSecret, PrepareAdvertisement, StartDiscovery
<1> QED
  BY <1>3, <1>4, <1>5 DEF Answer

LEMMA ProbeAnswersAnswers ==
  ASSUME ServiceOK, OneCounts, ProbeAnswers
  PROVE  OneCounts'
<1>1. PICK p \in probes :
        /\ probes' = probes \ {p}
        /\ IF partner = p.service.port
           THEN Enqueue([op |-> "proved", service |-> p.service, current |-> p.current])
           ELSE UNCHANGED queue
  BY DEF ProbeAnswers
<1> DEFINE op == [op |-> "proved", service |-> p.service, current |-> p.current]
<1>2. p.service \in Service /\ p.current \in BOOLEAN /\ queue \in Seq(Ops)
  BY DEF ServiceOK
<1>3. op \in Ops
  BY <1>2 DEF Ops
<1>4. Counts(op) => p.current
  BY Zenon DEF Counts
<1> HIDE DEF op
<1>5. OneFlies'
  BY <1>1 DEF OneCounts, OneFlies
<1>6. CASE UNCHANGED queue
  BY <1>1, <1>5, <1>6 DEF OneCounts
<1>7. CASE queue' = Append(queue, op)
  <2>1. CASE p.current
    <3>1. \A r \in probes' : ~r.current
      BY <1>1, <2>1 DEF OneCounts, OneFlies
    <3>2. OneWaits(queue')
      BY <1>2, <1>3, <1>7, <2>1, OneWaitsAppend DEF OneCounts
    <3> QED
      BY <1>5, <3>1, <3>2 DEF OneCounts
  <2>2. CASE ~p.current
    <3>1. OneWaits(queue') /\ (Quiet(queue) => Quiet(queue'))
      BY <1>2, <1>3, <1>4, <1>7, <2>2, OneWaitsAppend DEF OneCounts
    <3> QED
      BY <1>1, <1>5, <3>1 DEF OneCounts
  <2> QED
    BY <2>1, <2>2
<1> QED
  BY <1>1, <1>6, <1>7 DEF Enqueue, op

LEMMA LifecycleIsQuieter ==
  ASSUME PhoneOK, TurnHasPair, Lifecycle
  PROVE  Quieter(queue') /\ UNCHANGED probes
<1>1. UNCHANGED queue \/ ActivateAvailability \/ DeactivateAvailability
  BY DEF Lifecycle, TurnStarts, ActivatePair, MediaStopped, TurnEnds
<1>2. CASE ActivateAvailability
  <2>1. turn.pair \in Pair /\ Enqueue(Activate(turn.pair, FALSE, TRUE))
    BY <1>2, TurnTypes DEF ActivateAvailability, TurnHasPair, MaybePair
  <2> QED
    BY <2>1, ActivateIsQuieter DEF Lifecycle
<1>3. CASE DeactivateAvailability
  <2>1. Enqueue(Deactivate)
    BY <1>3 DEF DeactivateAvailability
  <2>2. Deactivate \in Ops /\ Deactivate.op # "proved"
    BY DEF Deactivate, Ops
  <2> QED
    BY <2>1, <2>2, EnqueueIsQuieter DEF Lifecycle
<1> QED
  BY <1>1, <1>2, <1>3 DEF Quieter, Lifecycle

LEMMA CallIsQuieter ==
  ASSUME ServiceOK, AvailableIsProven, PhoneOK, Call
  PROVE  Quieter(queue') /\ UNCHANGED probes
<1>1. lastPair \in MaybePair
  BY DEF PhoneOK
<1>2. CASE Retry
  <2>1. lastPair \in Pair /\ Enqueue(Activate(lastPair, TRUE, FALSE))
    BY <1>1, <1>2 DEF Retry, MaybePair
  <2> QED
    BY <2>1, ActivateIsQuieter DEF Call
<1>3. CASE ConnectFails
  <2> DEFINE op == [op |-> "unreachable", port |-> state.port]
  <2>1. Enqueue(op) /\ state.port \in Port
    BY <1>3 DEF ConnectFails, AvailableIsProven, ServiceOK, Snapshots
  <2>2. op \in Ops /\ op.op # "proved"
    BY <2>1 DEF Ops
  <2> QED
    BY <2>1, <2>2, EnqueueIsQuieter DEF Call
<1>4. CASE DiscoveryEvent
  <2>1. \/ \E s \in Service : Enqueue([op |-> "resolved", service |-> s])
        \/ \E n \in Name : Enqueue([op |-> "lost", name |-> n])
        \/ Enqueue([op |-> "error"])
    BY <1>4 DEF DiscoveryEvent
  <2>2. /\ \A s \in Service : /\ [op |-> "resolved", service |-> s] \in Ops
                             /\ [op |-> "resolved", service |-> s].op # "proved"
        /\ \A n \in Name : /\ [op |-> "lost", name |-> n] \in Ops
                          /\ [op |-> "lost", name |-> n].op # "proved"
        /\ [op |-> "error"] \in Ops /\ [op |-> "error"].op # "proved"
    BY DEF Ops
  <2> QED
    BY <2>1, <2>2, EnqueueIsQuieter DEF Call
<1>5. CASE ListenerFails
  BY <1>1, <1>5, ListenerChangedIsQuieter DEF ListenerFails, Call
<1> QED
  BY <1>2, <1>3, <1>4, <1>5 DEF Call

LEMMA OneCountsStep == IInv /\ OneCounts /\ [Next]_vars => OneCounts'
<1> SUFFICES ASSUME IInv, OneCounts, [Next]_vars PROVE OneCounts'
  OBVIOUS
<1>1. ServiceOK /\ AvailableIsProven /\ PhoneOK /\ TurnHasPair /\ queue \in Seq(Ops)
  BY DEF IInv, Core, ServiceOK
<1>2. CASE Handle
  <2>1. CASE queue # <<>> /\ queue' = Tail(queue) /\ UNCHANGED probes
    BY <1>1, <2>1, OneWaitsTail DEF OneCounts, OneFlies
  <2> QED
    BY <1>1, <1>2, <2>1, HandleAnswers, SupersededKeeps
<1>3. CASE Answer
  BY <1>1, <1>3, AnswerAnswers
<1>4. CASE ProbeAnswers
  BY <1>1, <1>4, ProbeAnswersAnswers
<1>5. CASE LeaseFires
  <2> DEFINE op == [op |-> "lease", port |-> lease, current |-> TRUE]
  <2>1. Enqueue(op) /\ lease \in Port /\ UNCHANGED probes
    BY <1>1, <1>5 DEF LeaseFires, ServiceOK
  <2>2. op \in Ops /\ op.op # "proved"
    BY <2>1 DEF Ops
  <2> QED
    BY <1>1, <2>1, <2>2, EnqueueIsQuieter, QuieterKeeps
<1>6. CASE Lifecycle
  BY <1>1, <1>6, LifecycleIsQuieter, QuieterKeeps
<1>7. CASE Call
  BY <1>1, <1>7, CallIsQuieter, QuieterKeeps
<1>8. CASE World \/ UNCHANGED vars
  <2>1. UNCHANGED <<queue, probes>>
    BY <1>8 DEF World, vars, serviceVars
  <2> QED
    BY <1>1, <2>1, QuieterKeeps DEF Quieter
<1> QED
  BY <1>2, <1>3, <1>4, <1>5, <1>6, <1>7, <1>8 DEF Next

LEMMA InitOneCounts == Init => OneCounts
<1> SUFFICES ASSUME Init PROVE OneCounts
  OBVIOUS
<1>1. queue = <<>> /\ probes = {}
  BY DEF Init
<1>2. DOMAIN queue = {}
  BY <1>1
<1> QED
  BY <1>1, <1>2 DEF OneCounts, OneWaits, OneFlies

LEMMA AtMostOne ==
  ASSUME NEW S, \A x, y \in S : x = y
  PROVE  Cardinality(S) \in {0, 1} /\ (Cardinality(S) = 1 => S # {})
<1>1. CASE S = {}
  BY <1>1, FS_EmptySet
<1>2. CASE S # {}
  <2>1. PICK x \in S : S = {x}
    BY <1>2
  <2> QED
    BY <1>2, <2>1, FS_Singleton
<1> QED
  BY <1>1, <1>2

\* However resolutions, withdrawals and slow probes interleave, only the answer
\* for the service resolved last can change what is shown (probeGeneration).
THEOREM NewestAnswerAlwaysCounts == Spec => []NewestAnswerCounts
<1>1. OneCounts => NewestAnswerCounts
  <2> SUFFICES ASSUME OneCounts PROVE NewestAnswerCounts
    OBVIOUS
  <2> DEFINE waiting == {i \in DOMAIN queue : queue[i].op = "proved" /\ queue[i].current}
             flying == {p \in probes : p.current}
  <2>1. \A i, j \in waiting : i = j
    BY Zenon DEF OneCounts, OneWaits, Counts
  <2>2. \A p, r \in flying : p = r
    BY DEF OneCounts, OneFlies
  <2>3. waiting = {} \/ flying = {}
    BY Zenon DEF OneCounts, Quiet, Counts
  <2> HIDE DEF waiting, flying
  <2>4. /\ Cardinality(waiting) \in {0, 1} /\ (Cardinality(waiting) = 1 => waiting # {})
        /\ Cardinality(flying) \in {0, 1} /\ (Cardinality(flying) = 1 => flying # {})
    BY <2>1, <2>2, AtMostOne
  <2>5. Cardinality(waiting) + Cardinality(flying) <= 1
    BY <2>3, <2>4
  <2> QED
    BY <2>5 DEF NewestAnswerCounts, waiting, flying
<1>2. Spec => [](IInv /\ OneCounts)
  BY InitInv, StepInv, InitOneCounts, OneCountsStep, PTL DEF Spec
<1> QED
  BY <1>1, <1>2, PTL

-----------------------------------------------------------------------------
(* SettledAdvertIsTrue: once nothing is pending, the phone advertises the   *)
(* trust it stores and the listener that listens.  TLC checks it with one   *)
(* pair; here pairs may be revoked and made anew.                           *)
(*                                                                          *)
(* An advertisement is made of a secret, a pair and a listener that were    *)
(* read at different moments.  The invariant says of each that it is still  *)
(* the current one, or that something which will replace the advertisement  *)
(* is queued or about to be queued (Replaced).  Pairs are never trusted     *)
(* twice (PairsKnown), which is why an activation for the pair that is      *)
(* already advertised may be skipped.                                       *)

\* The activations and deactivations that wait in a queue.
Orders(q) == {e \in Elements(q) : e.op \in {"activate", "deactivate"}}

\* Orders that put another advertisement in the place of pair p's.
Refreshes(e, p) ==
  \/ e.op = "deactivate"
  \/ e.op = "activate" /\ (e.force \/ e.pair # p)

\* Pairs whose advertisement is about to be replaced or withdrawn.
Replaced == {p \in Pair :
  \/ turns > 0 /\ p # trust
  \/ turn.step \in {"stopMedia", "deactivate"}
  \/ turn.step \in {"activatePair", "activate"} /\ turn.pair # p
  \/ \E e \in Orders(queue) : Refreshes(e, p)}

Reading == {"prepare", "listen", "start"}

\* The lifecycle follows the trust, one turn for each change.
Follows ==
  /\ trust \in {0, paired} /\ context <= paired /\ turn.pair <= paired
  /\ turn.step = "none" => turn = NoTurn
  /\ turns = 0 /\ turn.step # "none" => turn.pair = trust
  /\ turns = 0 /\ turn.step \in {"none", "wait", "waitStop"} => lastPair = trust
  /\ turn.step = "activatePair" => context <= turn.pair
  /\ turn.step \in {"activate", "wait"} => context = turn.pair
  /\ turn.step \in {"stopMedia", "deactivate", "waitStop"} =>
       turn.pair = 0 /\ (trust # 0 => context < trust)

\* The pairs that the service works for or has been told to.
InUse == {p \in Pair :
  \/ p = lastPair \/ p = active.pair
  \/ running.step \in Starting /\ p = running.pair
  \/ \E e \in Orders(queue) : e.op = "activate" /\ e.pair = p}

\* Pairs that will never be trusted again.
Old == {p \in Pair :
  p <= paired /\ (trust # 0 => p < trust) /\ (turn.step = "activatePair" => p < turn.pair)}

\* A pair in use is that of the control session or an old one.
PairsKnown ==
  /\ active # NoActive => active.pair # 0
  /\ running.step \in Starting => running.pair # 0
  /\ \A p \in InUse : (p = context \/ p \in Old) /\ (p = trust => lastPair = p)

\* A secret that was read is the stored one, or about to be replaced.
SecretFresh ==
  /\ active # NoActive => /\ active.secret = trust \/ active.pair \in Replaced
                          /\ active.pair = trust => active.secret = trust
  /\ running.step \in Reading => /\ running.secret = trust \/ running.pair \in Replaced
                                 /\ running.pair = trust => running.secret = trust

\* So is the listener that an advertisement names.
ListenerFresh ==
  /\ active # NoActive =>
       [host |-> advert.host, port |-> advert.port] = listener \/ active.pair \in Replaced
  /\ running.step = "start" =>
       [host |-> running.host, port |-> running.port] = listener \/ running.pair \in Replaced

\* A turn waits for the activation it has queued.
Awaited ==
  \A e \in Orders(queue) : e.op = "activate" /\ ~e.force => e.awaited /\ turn.step = "wait"

Leads(e, p) == e.op = "deactivate" \/ (e.op = "activate" /\ e.pair # p)
Activates(e, p) == e.op = "activate" /\ e.pair = p

\* Whatever leads away from pair p is followed by its activation.
EndsWith(q, p) ==
  \A k \in DOMAIN q : Leads(q[k], p) => \E j \in DOMAIN q : j > k /\ Activates(q[j], p)

CaughtUp == turns = 0 /\ turn.step \in {"none", "wait", "waitStop"}
Current == IF running.step \in Starting THEN running.pair ELSE active.pair

\* Once the lifecycle has caught up, the queue ends with the trusted pair.
QueueEndsRight ==
  CaughtUp /\ trust # 0 =>
    /\ EndsWith(queue, trust)
    /\ Current \in {0, trust} \/ \E e \in Orders(queue) : Activates(e, trust)

AdvertInv ==
  /\ Follows /\ PairsKnown /\ SecretFresh /\ ListenerFresh /\ Awaited /\ QueueEndsRight

-----------------------------------------------------------------------------
(* Orders in the queue. *)

LEMMA OrdersAppend ==
  ASSUME NEW q \in Seq(Ops), NEW op \in Ops
  PROVE  /\ op.op \in {"activate", "deactivate"} => Orders(Append(q, op)) = Orders(q) \cup {op}
         /\ op.op \notin {"activate", "deactivate"} => Orders(Append(q, op)) = Orders(q)
  BY AppendElements DEF Orders

LEMMA OrdersTail ==
  ASSUME NEW q \in Seq(Ops), q # <<>>
  PROVE  /\ Head(q).op \in {"activate", "deactivate"} => Orders(q) = Orders(Tail(q)) \cup {Head(q)}
         /\ Head(q).op \notin {"activate", "deactivate"} => Orders(q) = Orders(Tail(q))
  BY TailElements DEF Orders

LEMMA OrdersOutdate ==
  ASSUME NEW q \in Seq(Ops), NEW kinds \in SUBSET {"proved", "lease"}
  PROVE  Orders(Outdate(q, kinds)) = Orders(q)
<1>1. \A e \in Elements(q) : e.op \in {"activate", "deactivate"} => e.op \notin kinds
  OBVIOUS
<1>2. Orders(q) \subseteq Orders(Outdate(q, kinds))
  BY <1>1, OutdateElements DEF Orders
<1>3. Orders(Outdate(q, kinds)) \subseteq Orders(q)
  BY OutdateElements DEF Orders
<1> QED
  BY <1>2, <1>3

LEMMA EndsAppend ==
  ASSUME NEW q \in Seq(Ops), NEW op \in Ops, NEW p
  PROVE  /\ Activates(op, p) => EndsWith(Append(q, op), p)
         /\ ~Leads(op, p) /\ EndsWith(q, p) => EndsWith(Append(q, op), p)
<1> DEFINE a == Append(q, op)
<1>1. /\ a \in Seq(Ops) /\ Len(a) = Len(q) + 1 /\ Len(q) \in Nat
      /\ \A i \in 1..Len(q) : a[i] = q[i]
      /\ a[Len(q) + 1] = op
  BY AppendProperties, LenProperties
<1>2. DOMAIN q = 1..Len(q) /\ DOMAIN a = 1..(Len(q) + 1)
  BY <1>1, LenProperties
<1> HIDE DEF a
<1>3. \A i \in DOMAIN a : (i \in DOMAIN q /\ a[i] = q[i]) \/ (i = Len(q) + 1 /\ a[i] = op)
  BY <1>1, <1>2
<1>4. /\ \A i \in DOMAIN q : i \in DOMAIN a /\ a[i] = q[i] /\ Len(q) + 1 > i
      /\ Len(q) + 1 \in DOMAIN a
  BY <1>1, <1>2
<1>5. ASSUME Activates(op, p) PROVE EndsWith(a, p)
  <2>1. ~Leads(op, p)
    BY <1>5 DEF Activates, Leads
  <2>2. ASSUME NEW k \in DOMAIN a, Leads(a[k], p)
        PROVE  \E j \in DOMAIN a : j > k /\ Activates(a[j], p)
    <3>1. k \in DOMAIN q
      BY <1>3, <2>1, <2>2
    <3> QED
      BY <1>1, <1>4, <1>5, <3>1
  <2> QED
    BY <2>2 DEF EndsWith
<1>6. ASSUME ~Leads(op, p), EndsWith(q, p) PROVE EndsWith(a, p)
  <2>1. ASSUME NEW k \in DOMAIN a, Leads(a[k], p)
        PROVE  \E j \in DOMAIN a : j > k /\ Activates(a[j], p)
    <3>1. k \in DOMAIN q /\ Leads(q[k], p)
      BY <1>3, <1>6, <2>1
    <3>2. PICK j \in DOMAIN q : j > k /\ Activates(q[j], p)
      BY <1>6, <3>1 DEF EndsWith
    <3> QED
      BY <1>4, <3>2
  <2> QED
    BY <2>1 DEF EndsWith
<1> QED
  BY <1>5, <1>6 DEF a

LEMMA EndsTail ==
  ASSUME NEW q \in Seq(Ops), q # <<>>, NEW p, EndsWith(q, p)
  PROVE  /\ EndsWith(Tail(q), p)
         /\ Leads(Head(q), p) => \E e \in Orders(Tail(q)) : Activates(e, p)
<1> DEFINE t == Tail(q)
<1>1. /\ t \in Seq(Ops) /\ Len(t) = Len(q) - 1 /\ Len(q) \in Nat \ {0}
      /\ \A i \in 1..Len(t) : t[i] = q[i + 1]
  BY HeadTailProperties, EmptySeq
<1>2. DOMAIN q = 1..Len(q) /\ DOMAIN t = 1..Len(t) /\ Head(q) = q[1]
  BY <1>1, LenProperties
<1> HIDE DEF t
<1>3. \A i \in DOMAIN t : i \in Nat /\ i + 1 \in DOMAIN q /\ t[i] = q[i + 1]
  BY <1>1, <1>2
<1>4. ASSUME NEW k \in Nat, NEW j \in DOMAIN q, k > 0, j > k
      PROVE  j - 1 \in DOMAIN t /\ t[j - 1] = q[j] /\ j - 1 > k - 1
  <2>1. j \in Nat /\ j > 1 /\ j <= Len(q)
    BY <1>1, <1>2, <1>4
  <2>2. j - 1 \in 1..Len(t) /\ (j - 1) + 1 = j
    BY <1>1, <2>1
  <2> QED
    BY <1>1, <1>2, <1>4, <2>1, <2>2
<1>5. ASSUME NEW k \in DOMAIN t, Leads(t[k], p)
      PROVE  \E j \in DOMAIN t : j > k /\ Activates(t[j], p)
  <2>1. PICK j \in DOMAIN q : j > k + 1 /\ Activates(q[j], p)
    BY <1>3, <1>5 DEF EndsWith
  <2>2. k + 1 \in Nat /\ k + 1 > 0 /\ (k + 1) - 1 = k
    BY <1>3
  <2>3. j - 1 \in DOMAIN t /\ t[j - 1] = q[j] /\ j - 1 > (k + 1) - 1
    BY <1>4, <2>1, <2>2
  <2> QED
    BY <2>1, <2>2, <2>3
<1>6. ASSUME Leads(Head(q), p) PROVE \E e \in Orders(t) : Activates(e, p)
  <2>1. 1 \in DOMAIN q
    BY <1>1, <1>2
  <2>2. PICK j \in DOMAIN q : j > 1 /\ Activates(q[j], p)
    BY <1>2, <1>6, <2>1 DEF EndsWith
  <2>3. j - 1 \in DOMAIN t /\ t[j - 1] = q[j]
    BY <1>4, <2>2
  <2> QED
    BY <2>2, <2>3 DEF Orders, Elements, Activates
<1> QED
  BY <1>5, <1>6 DEF t, EndsWith

LEMMA EndsOutdate ==
  ASSUME NEW q \in Seq(Ops), NEW kinds \in SUBSET {"proved", "lease"}, NEW p, EndsWith(q, p)
  PROVE  EndsWith(Outdate(q, kinds), p)
<1> DEFINE o == Outdate(q, kinds)
<1>1. /\ DOMAIN o = DOMAIN q
      /\ \A i \in DOMAIN q : o[i] = IF q[i].op \in kinds THEN [q[i] EXCEPT !.current = FALSE] ELSE q[i]
  BY DEF Outdate
<1>2. \A i \in DOMAIN q : q[i] \in Ops
  BY LenProperties
<1> HIDE DEF o
<1>3. \A i \in DOMAIN q : o[i].op = q[i].op /\ (q[i].op \in {"activate", "deactivate"} => o[i] = q[i])
  BY <1>1, <1>2, OpFields
<1>4. \A i \in DOMAIN q : (Leads(o[i], p) => Leads(q[i], p)) /\ (Activates(q[i], p) => Activates(o[i], p))
  BY <1>3 DEF Leads, Activates
<1> QED
  BY <1>1, <1>4 DEF EndsWith, o

-----------------------------------------------------------------------------
(* Steps of the service that touch no order and no advertisement. *)

LEMMA Known ==
  ASSUME IInv
  PROVE  /\ queue \in Seq(Ops) /\ trust \in Nat /\ paired \in Nat /\ context \in Nat
         /\ turns \in Nat /\ turn.pair \in Nat /\ turn \in Turns /\ listener \in Listeners
         /\ active.pair # 0 => active.pair \in Pair
         /\ running.pair # 0 => running.pair \in Pair
         /\ lastPair # 0 => lastPair \in Pair
         /\ \A p \in Pair : p \in Nat /\ p # 0
         /\ NoActive.pair = 0
<1>1. Core /\ PhoneOK /\ ServiceOK
  BY DEF IInv, Core
<1>2. MaybePair \subseteq Nat /\ \A p \in MaybePair : p # 0 => p \in Pair
  BY AvailabilityAssumption DEF MaybePair, Pair
<1>3. turn.pair \in MaybePair /\ active.pair \in MaybePair /\ running.pair \in MaybePair
  BY <1>1 DEF PhoneOK, Turns, ServiceOK, Browsings, Activations
<1>4. \A p \in Pair : p \in Nat /\ p # 0
  BY DEF Pair
<1>5. /\ queue \in Seq(Ops) /\ turn \in Turns /\ listener \in Listeners
      /\ trust \in MaybePair /\ context \in MaybePair /\ lastPair \in MaybePair
  BY <1>1 DEF ServiceOK, PhoneOK
<1>6. turns \in Nat /\ paired \in Nat
  BY <1>1, AvailabilityAssumption DEF PhoneOK
<1>7. NoActive.pair = 0
  BY DEF NoActive, Browse
<1> QED
  BY <1>2, <1>3, <1>4, <1>5, <1>6, <1>7

LEMMA NeutralKeeps ==
  ASSUME AdvertInv, UNCHANGED <<lastPair, lifecycleVars, trust, paired, listener, advert>>,
         active'.pair = active.pair, active'.secret = active.secret,
         active = NoActive => active' = NoActive,
         \/ UNCHANGED running
         \/ running.step \notin Starting /\ running'.step \notin Starting,
         Orders(queue') = Orders(queue),
         \A p : EndsWith(queue, p) => EndsWith(queue', p)
  PROVE  AdvertInv'
<1>1. Replaced' = Replaced /\ InUse' = InUse /\ Old' = Old /\ Current' = Current
  BY DEF Replaced, InUse, Old, Current, lifecycleVars
<1>2. Follows' /\ Awaited'
  BY DEF AdvertInv, Follows, Awaited, lifecycleVars
<1>3. PairsKnown'
  BY <1>1 DEF AdvertInv, PairsKnown, lifecycleVars
<1>4. SecretFresh' /\ ListenerFresh'
  BY <1>1 DEF AdvertInv, SecretFresh, ListenerFresh, Starting, Reading
<1>5. QueueEndsRight'
  BY <1>1 DEF AdvertInv, QueueEndsRight, CaughtUp, lifecycleVars
<1> QED
  BY <1>2, <1>3, <1>4, <1>5 DEF AdvertInv

LEMMA IdleFields == Idle.step \notin Starting /\ Idle.step \notin Reading
  BY DEF Idle, Activation, Starting, Reading

-----------------------------------------------------------------------------
(* The head of the queue is handled. *)

LEMMA SkipOther ==
  ASSUME IInv, AdvertInv, running = Idle, queue # <<>>, Skip(Tail(queue)),
         UNCHANGED <<listener, outside>>,
         \/ Head(queue).op \notin {"activate", "deactivate"}
         \/ /\ Head(queue).op = "activate" /\ ~Head(queue).force
            /\ Head(queue).pair = active.pair
  PROVE  AdvertInv'
<1> DEFINE op == Head(queue)
           rest == Tail(queue)
<1>1. /\ queue' = rest
      /\ UNCHANGED <<active, running, advert, listener, lastPair, context, turn, turns, trust, paired>>
  BY DEF Skip, outside, lifecycleVars, worldVars
<1>2. queue \in Seq(Ops)
  BY Known
<1>3. \A p : EndsWith(queue, p) =>
        EndsWith(rest, p) /\ (Leads(op, p) => \E e \in Orders(rest) : Activates(e, p))
  BY <1>2, EndsTail
<1>4. CASE op.op \notin {"activate", "deactivate"}
  <2>1. Orders(queue) = Orders(rest)
    BY <1>2, <1>4, OrdersTail
  <2> QED
    BY <1>1, <1>3, <2>1, NeutralKeeps DEF lifecycleVars
<1>5. CASE op.op = "activate" /\ ~op.force /\ op.pair = active.pair
  <2>1. Orders(queue) = Orders(rest) \cup {op}
    BY <1>2, <1>5, OrdersTail
  <2>2. ~Refreshes(op, active.pair)
    BY <1>5, Zenon DEF Refreshes
  <2> HIDE DEF op, rest
  <2>3. active.pair \in Replaced => active.pair \in Replaced'
    BY <1>1, <2>1, <2>2 DEF Replaced
  <2>4. InUse' \subseteq InUse /\ Old' = Old /\ Current' = Current
    BY <1>1, <2>1 DEF InUse, Old, Current
  <2>5. Follows'
    BY <1>1 DEF AdvertInv, Follows
  <2>6. PairsKnown'
    BY <1>1, <2>4 DEF AdvertInv, PairsKnown
  <2>7. SecretFresh' /\ ListenerFresh'
    BY <1>1, <2>3, IdleFields DEF AdvertInv, SecretFresh, ListenerFresh, Reading
  <2>8. Awaited'
    BY <1>1, <2>1 DEF AdvertInv, Awaited
  <2>9. QueueEndsRight'
    <3> SUFFICES ASSUME CaughtUp', trust' # 0
                 PROVE  /\ EndsWith(queue', trust)
                        /\ Current \in {0, trust} \/ \E e \in Orders(queue') : Activates(e, trust)
      BY <1>1, <2>4 DEF QueueEndsRight
    <3>1. EndsWith(queue, trust)
      BY <1>1 DEF AdvertInv, QueueEndsRight, CaughtUp
    <3>2. Current = op.pair
      BY <1>1, <1>5, IdleFields DEF Current
    <3>3. op.pair # trust => Leads(op, trust)
      BY <1>5 DEF Leads
    <3> QED
      BY <1>1, <1>3, <3>1, <3>2, <3>3
  <2> QED
    BY <2>5, <2>6, <2>7, <2>8, <2>9 DEF AdvertInv
<1> QED
  BY <1>4, <1>5 DEF op

\* Stopping removes the advertisement, and the order's own pair is what follows.
LEMMA StopKeeps ==
  ASSUME IInv, AdvertInv, running = Idle, queue # <<>>, StopActive(Tail(queue)),
         UNCHANGED <<listener, outside>>,
         \/ Head(queue).op = "activate" /\ running' = Activation("load", Head(queue))
         \/ Head(queue).op = "deactivate" /\ UNCHANGED running
  PROVE  AdvertInv'
<1> DEFINE op == Head(queue)
           rest == Tail(queue)
<1>1. /\ queue' = Outdate(rest, {"proved", "lease"}) /\ active' = NoActive
      /\ UNCHANGED <<listener, lastPair, context, turn, turns, trust, paired>>
  BY DEF StopActive, outside, lifecycleVars, worldVars
<1>2. /\ queue \in Seq(Ops) /\ NoActive.pair = 0 /\ rest \in Seq(Ops) /\ op \in Ops
      /\ \A p \in Pair : p # 0
  BY Known, TailElements
<1>3. Orders(queue) = Orders(queue') \cup {op}
  <2>1. Orders(queue') = Orders(rest)
    BY <1>1, <1>2, OrdersOutdate
  <2> QED
    BY <1>2, <2>1, OrdersTail
<1>4. \A p : EndsWith(queue, p) =>
        EndsWith(queue', p) /\ (Leads(op, p) => \E e \in Orders(queue') : Activates(e, p))
  <2>1. ASSUME NEW p, EndsWith(queue, p)
        PROVE  EndsWith(queue', p) /\ (Leads(op, p) => \E e \in Orders(queue') : Activates(e, p))
    <3>1. EndsWith(rest, p) /\ (Leads(op, p) => \E e \in Orders(rest) : Activates(e, p))
      BY <1>2, <2>1, EndsTail
    <3>2. Orders(queue') = Orders(rest)
      BY <1>1, <1>2, OrdersOutdate
    <3>3. EndsWith(queue', p)
      BY <1>1, <1>2, <3>1, EndsOutdate
    <3> QED
      BY <3>1, <3>2, <3>3
  <2> QED
    BY <2>1
<1>5. \/ /\ op.op = "activate" /\ op.pair \in Pair
         /\ running'.pair = op.pair /\ running'.step = "load"
      \/ op.op = "deactivate" /\ running' = Idle
  <2>1. op.op = "activate" => op.pair \in Pair
    BY <1>2, OpFields
  <2>2. Activation("load", op).pair = op.pair /\ Activation("load", op).step = "load"
    BY DEF Activation
  <2> QED
    BY <2>1, <2>2
<1> HIDE DEF op, rest
<1>6. InUse' \subseteq InUse /\ Old' = Old
  BY <1>1, <1>2, <1>3, <1>5, IdleFields DEF InUse, Old
<1>7. Follows'
  BY <1>1 DEF AdvertInv, Follows
<1>8. PairsKnown'
  BY <1>1, <1>2, <1>5, <1>6, IdleFields DEF AdvertInv, PairsKnown
<1>9. SecretFresh' /\ ListenerFresh'
  BY <1>1, <1>5, IdleFields DEF SecretFresh, ListenerFresh, Reading
<1>10. Awaited'
  BY <1>1, <1>3 DEF AdvertInv, Awaited
<1>11. QueueEndsRight'
  <2> SUFFICES ASSUME CaughtUp', trust # 0
               PROVE  /\ EndsWith(queue', trust)
                      /\ Current' \in {0, trust} \/ \E e \in Orders(queue') : Activates(e, trust)
    BY <1>1 DEF QueueEndsRight
  <2>1. EndsWith(queue, trust)
    BY <1>1 DEF AdvertInv, QueueEndsRight, CaughtUp
  <2>2. (Current' = op.pair /\ op.op = "activate") \/ Current' = 0
    BY <1>1, <1>2, <1>5, IdleFields DEF Current, Starting
  <2>3. op.op = "activate" /\ op.pair # trust => Leads(op, trust)
    BY DEF Leads
  <2> QED
    BY <1>4, <2>1, <2>2, <2>3
<1> QED
  BY <1>7, <1>8, <1>9, <1>10, <1>11 DEF AdvertInv

LEMMA OtherKeeps ==
  ASSUME IInv, AdvertInv, running = Idle, queue # <<>>,
         Head(queue).op \notin {"activate", "deactivate"},
         queue' \in {Tail(queue), OutdateProved(Tail(queue))},
         active # NoActive => active'.pair = active.pair /\ active'.secret = active.secret,
         active = NoActive => active' = NoActive,
         running' = Idle \/ running'.step = "reprobe",
         UNCHANGED <<advert, listener, outside>>
  PROVE  AdvertInv'
<1> DEFINE rest == Tail(queue)
<1>1. queue \in Seq(Ops) /\ rest \in Seq(Ops)
  BY Known, TailElements
<1>2. Orders(queue) = Orders(rest) /\ \A p : EndsWith(queue, p) => EndsWith(rest, p)
  BY <1>1, OrdersTail, EndsTail
<1>3. Orders(queue') = Orders(queue) /\ \A p : EndsWith(queue, p) => EndsWith(queue', p)
  <2>1. CASE queue' = rest
    BY <1>2, <2>1
  <2>2. CASE queue' = Outdate(rest, {"proved"})
    <3>1. Orders(queue') = Orders(rest)
      BY <1>1, <2>2, OrdersOutdate
    <3>2. ASSUME NEW p, EndsWith(rest, p) PROVE EndsWith(queue', p)
      BY <1>1, <2>2, <3>2, EndsOutdate
    <3> QED
      BY <1>2, <3>1, <3>2
  <2> QED
    BY <2>1, <2>2 DEF OutdateProved
<1>4. active'.pair = active.pair /\ active'.secret = active.secret
  OBVIOUS
<1>5. running.step \notin Starting /\ running'.step \notin Starting
  BY IdleFields DEF Starting
<1> QED
  BY <1>3, <1>4, <1>5, NeutralKeeps DEF outside, lifecycleVars, worldVars

LEMMA UnmatchPair ==
  ASSUME IInv, active # NoActive, Unmatch
  PROVE  active'.pair = active.pair /\ active'.secret = active.secret
  BY UnmatchFields DEF IInv, Core

LEMMA DemoteOther ==
  ASSUME IInv, AdvertInv, running = Idle, queue # <<>>, active # NoActive,
         Head(queue).op \notin {"activate", "deactivate"}, Demote(Tail(queue)),
         UNCHANGED <<listener, outside>>
  PROVE  AdvertInv'
<1>1. Unmatch /\ queue' = OutdateProved(Tail(queue)) /\ UNCHANGED <<running, advert>>
  BY DEF Demote, SupersedeProbes
<1> QED
  BY <1>1, UnmatchPair, OtherKeeps

LEMMA HandleAdvert == IInv /\ AdvertInv /\ Handle => AdvertInv'
<1> SUFFICES ASSUME IInv, AdvertInv, Handle PROVE AdvertInv'
  OBVIOUS
<1> DEFINE op == Head(queue)
           rest == Tail(queue)
<1>1. running = Idle /\ queue # <<>> /\ UNCHANGED <<listener, outside>>
  BY DEF Handle
<1>2. \/ op.op = "activate" /\ ActivateNow(op, rest)
      \/ op.op = "deactivate" /\ DeactivateNow(rest)
      \/ op.op = "resolved" /\ HandleResolved(op.service, rest)
      \/ op.op = "lost" /\ HandleLost(op.name, rest)
      \/ op.op = "error" /\ HandleError(rest)
      \/ op.op = "proved" /\ HandleProved(op.service, op.current, rest)
      \/ op.op = "lease" /\ ReprobeLease(op, rest)
      \/ op.op = "unreachable" /\ MarkPartnerUnreachable(op.port, rest)
  BY DEF Handle
<1>3. CASE op.op = "activate" /\ ActivateNow(op, rest)
  BY <1>1, <1>3, SkipOther, StopKeeps DEF ActivateNow
<1>4. CASE op.op = "deactivate" /\ DeactivateNow(rest)
  BY <1>1, <1>4, StopKeeps DEF DeactivateNow
<1>5. CASE op.op = "resolved" /\ HandleResolved(op.service, rest)
  <2>1. op.op \notin {"activate", "deactivate"}
    BY <1>5
  <2>2. CASE Skip(rest)
    BY <1>1, <2>1, <2>2, SkipOther
  <2>3. CASE /\ (active # NoActive /\ Unmatch) \/ UNCHANGED active
             /\ queue' = OutdateProved(rest) /\ UNCHANGED <<running, advert>>
    <3>1. active # NoActive => active'.pair = active.pair /\ active'.secret = active.secret
      BY <2>3, UnmatchPair
    <3> QED
      BY <1>1, <2>1, <2>3, <3>1, OtherKeeps
  <2> QED
    BY <1>5, <2>2, <2>3 DEF HandleResolved, Trusted
<1>6. CASE op.op = "lost" /\ HandleLost(op.name, rest)
  <2>1. op.op \notin {"activate", "deactivate"}
    BY <1>6
  <2> QED
    BY <1>1, <1>6, <2>1, SkipOther, DemoteOther DEF HandleLost
<1>7. CASE op.op = "error" /\ HandleError(rest)
  <2>1. op.op \notin {"activate", "deactivate"}
    BY <1>7
  <2> QED
    BY <1>1, <1>7, <2>1, SkipOther, DemoteOther DEF HandleError
<1>8. CASE op.op = "proved" /\ HandleProved(op.service, op.current, rest)
  <2>1. op.op \notin {"activate", "deactivate"}
    BY <1>8
  <2>2. CASE Skip(rest)
    BY <1>1, <2>1, <2>2, SkipOther
  <2>3. CASE /\ op.current /\ queue' = rest /\ UNCHANGED <<running, advert>>
             /\ active' = [active EXCEPT !.matched = op.service.name, !.proven = op.service.port]
    <3>1. queue \in Seq(Ops) /\ Core /\ active \in Browsings
      BY Known DEF IInv, Core, ServiceOK
    <3>2. op \in Elements(queue)
      BY <1>1, <3>1, TailElements
    <3>3. Counts(op)
      BY <1>8, <2>3 DEF Counts
    <3>4. active # NoActive
      BY <3>1, <3>2, <3>3 DEF Core, CurrentIsActive
    <3>5. active'.pair = active.pair /\ active'.secret = active.secret
      BY <2>3, <3>1 DEF Browsings
    <3> QED
      BY <1>1, <2>1, <2>3, <3>4, <3>5, OtherKeeps
  <2> QED
    BY <1>8, <2>2, <2>3 DEF HandleProved
<1>9. CASE op.op = "lease" /\ ReprobeLease(op, rest)
  <2>1. op.op \notin {"activate", "deactivate"}
    BY <1>9
  <2>2. CASE Skip(rest)
    BY <1>1, <2>1, <2>2, SkipOther
  <2>3. CASE /\ running' = [Idle EXCEPT !.step = "reprobe", !.port = op.port] /\ queue' = rest
             /\ UNCHANGED <<active, advert>>
    <3>1. running'.step = "reprobe"
      BY <2>3 DEF Idle, Activation
    <3> QED
      BY <1>1, <2>1, <2>3, <3>1, OtherKeeps
  <2> QED
    BY <1>9, <2>2, <2>3 DEF ReprobeLease
<1>10. CASE op.op = "unreachable" /\ MarkPartnerUnreachable(op.port, rest)
  <2>1. op.op \notin {"activate", "deactivate"}
    BY <1>10
  <2>2. state.kind = "available" => active # NoActive
    BY DEF IInv, Core, AvailableIsProven
  <2> QED
    BY <1>1, <1>10, <2>1, <2>2, SkipOther, DemoteOther DEF MarkPartnerUnreachable
<1> QED
  BY <1>2, <1>3, <1>4, <1>5, <1>6, <1>7, <1>8, <1>9, <1>10

-----------------------------------------------------------------------------
(* Activations that the listener and the user queue. *)

LEMMA ActivateFields ==
  ASSUME NEW p \in Pair, NEW force \in BOOLEAN, NEW awaited \in BOOLEAN
  PROVE  /\ Activate(p, force, awaited) \in Ops
         /\ Activate(p, force, awaited).op = "activate"
         /\ Activate(p, force, awaited).pair = p
         /\ Activate(p, force, awaited).force = force
         /\ Activate(p, force, awaited).awaited = awaited
         /\ Activates(Activate(p, force, awaited), p)
  BY DEF Activate, Ops, Activates

\* A re-advertisement is queued, for a pair in use, unless there is none; and once
\* the lifecycle has caught up, it is for the trusted pair.
Reannounces ==
  \/ UNCHANGED queue
  \/ \E e \in Ops : /\ Orders(queue') = Orders(queue) \cup {e}
                    /\ e.op = "activate" /\ e.force /\ e.pair \in InUse

LEMMA ReannounceQueue ==
  ASSUME IInv, AdvertInv, UNCHANGED <<lastPair, turn, turns, trust>>,
         NEW p \in Pair, p = lastPair \/ (lastPair = 0 /\ p = active.pair),
         Enqueue(Activate(p, TRUE, FALSE))
  PROVE  /\ Reannounces /\ Replaced' = Pair
         /\ CaughtUp /\ trust # 0 => /\ EndsWith(queue', trust)
                                     /\ \E e \in Orders(queue') : Activates(e, trust)
<1> DEFINE op == Activate(p, TRUE, FALSE)
<1>1. queue \in Seq(Ops) /\ queue' = Append(queue, op)
  BY Known DEF Enqueue
<1>2. op \in Ops /\ op.op = "activate" /\ op.pair = p /\ op.force = TRUE /\ Activates(op, p)
  BY ActivateFields
<1> HIDE DEF op
<1>3. Orders(queue') = Orders(queue) \cup {op}
  BY <1>1, <1>2, OrdersAppend
<1>4. p \in InUse
  BY DEF InUse
<1>5. Reannounces
  BY <1>2, <1>3, <1>4 DEF Reannounces
<1>6. Replaced' = Pair
  <2>1. \A r : Refreshes(op, r)
    BY <1>2, Zenon DEF Refreshes
  <2> QED
    BY <1>3, <2>1 DEF Replaced
<1>7. ASSUME CaughtUp, trust # 0
      PROVE  EndsWith(queue', trust) /\ \E e \in Orders(queue') : Activates(e, trust)
  <2>1. p = trust
    BY <1>7 DEF AdvertInv, Follows, CaughtUp
  <2> QED
    BY <1>1, <1>2, <1>3, <2>1, EndsAppend
<1> QED
  BY <1>5, <1>6, <1>7

\* The queue as ListenerChanged leaves it.
Announced ==
  /\ Reannounces /\ Replaced \subseteq Replaced'
  /\ CaughtUp /\ trust # 0 => EndsWith(queue', trust) /\ Orders(queue) \subseteq Orders(queue')

LEMMA SameQueueAnnounced ==
  ASSUME AdvertInv, UNCHANGED <<queue, turn, turns, trust>>
  PROVE  Announced
<1>1. Reannounces /\ Replaced' = Replaced
  BY DEF Reannounces, Replaced
<1> QED
  BY <1>1 DEF Announced, AdvertInv, QueueEndsRight

LEMMA ListenerChangedAnnounced ==
  ASSUME IInv, AdvertInv, ListenerChanged, UNCHANGED <<lastPair, turn, turns, trust>>
  PROVE  Announced /\ (lastPair # 0 \/ active # NoActive => Replaced' = Pair)
<1> DEFINE p == IF lastPair # 0 THEN lastPair ELSE active.pair
<1>1. active # NoActive => active.pair # 0
  BY DEF AdvertInv, PairsKnown
<1>2. CASE p # 0
  <2>1. p \in Pair /\ Enqueue(Activate(p, TRUE, FALSE))
    BY <1>2, Known DEF ListenerChanged
  <2>2. p = lastPair \/ (lastPair = 0 /\ p = active.pair)
    OBVIOUS
  <2> HIDE DEF p
  <2>3. /\ Reannounces /\ Replaced' = Pair
        /\ CaughtUp /\ trust # 0 => EndsWith(queue', trust)
    BY <2>1, <2>2, ReannounceQueue
  <2>4. Orders(queue) \subseteq Orders(queue')
    BY <2>3 DEF Reannounces
  <2>5. Replaced \subseteq Pair
    BY DEF Replaced
  <2> QED
    BY <2>3, <2>4, <2>5 DEF Announced
<1>3. CASE p = 0
  <2>1. UNCHANGED queue
    BY <1>3 DEF ListenerChanged
  <2> QED
    BY <1>1, <1>3, <2>1, SameQueueAnnounced
<1> QED
  BY <1>2, <1>3

\* What an activation under way is to advertise, with no pair told to the service,
\* is about to be replaced: the trust it read is that of a turn to come.
LEMMA NoLastPair ==
  ASSUME IInv, AdvertInv, lastPair = 0, running.step \in Reading
  PROVE  running.pair \in Replaced
<1>1. running.secret # 0 /\ running.step \in Starting
  BY DEF IInv, Core, Prepared, Reading, Starting
<1>2. running.pair \in Pair
  BY <1>1, Known DEF AdvertInv, PairsKnown
<1>3. running.pair # trust
  BY <1>1, <1>2, Known DEF AdvertInv, PairsKnown, InUse
<1>4. CASE running.secret = trust
  <2>1. ~CaughtUp
    BY <1>1, <1>4 DEF AdvertInv, Follows, CaughtUp
  <2>2. CASE turns > 0
    BY <1>2, <1>3, <2>2 DEF Replaced
  <2>3. CASE turns = 0
    <3>1. turn.step \in {"activatePair", "activate", "stopMedia", "deactivate"}
      BY <2>1, <2>3, Known DEF CaughtUp, Turns
    <3>2. turn.pair = trust
      BY <2>3, <3>1 DEF AdvertInv, Follows
    <3> QED
      BY <1>2, <1>3, <3>1, <3>2 DEF Replaced
  <2> QED
    BY <2>2, <2>3, Known
<1> QED
  BY <1>4 DEF AdvertInv, SecretFresh

\* A step that only announces, and may change the listener if it does.
LEMMA AnnounceKeeps ==
  ASSUME IInv, AdvertInv, Announced, UNCHANGED <<active, running, advert, outside>>,
         UNCHANGED listener \/ (active # NoActive => active.pair \in Replaced'),
         UNCHANGED listener \/ (running.step = "start" => running.pair \in Replaced')
  PROVE  AdvertInv'
<1>1. UNCHANGED <<lastPair, context, turn, turns, trust, paired>>
  BY DEF outside, lifecycleVars, worldVars
<1>2. Replaced \subseteq Replaced' /\ Reannounces
  BY DEF Announced
<1>3. InUse' \subseteq InUse /\ Old' = Old /\ Current' = Current
  BY <1>1, <1>2 DEF Reannounces, InUse, Old, Current
<1>4. Follows'
  BY <1>1 DEF AdvertInv, Follows
<1>5. PairsKnown'
  BY <1>1, <1>3 DEF AdvertInv, PairsKnown
<1>6. SecretFresh'
  BY <1>1, <1>2 DEF AdvertInv, SecretFresh
<1>7. ListenerFresh'
  BY <1>2 DEF AdvertInv, ListenerFresh
<1>8. Awaited'
  BY <1>1, <1>2 DEF AdvertInv, Awaited, Reannounces
<1>9. QueueEndsRight'
  BY <1>1, <1>3 DEF AdvertInv, QueueEndsRight, CaughtUp, Announced
<1> QED
  BY <1>4, <1>5, <1>6, <1>7, <1>8, <1>9 DEF AdvertInv

LEMMA NewsKeeps ==
  ASSUME IInv, AdvertInv, NEW op \in Ops, op.op \notin {"activate", "deactivate"},
         Enqueue(op), UNCHANGED <<active, running, advert, listener, outside>>
  PROVE  AdvertInv'
<1>1. queue \in Seq(Ops) /\ queue' = Append(queue, op)
  BY Known DEF Enqueue
<1>2. Orders(queue') = Orders(queue)
  BY <1>1, OrdersAppend
<1>3. \A p : ~Leads(op, p)
  BY DEF Leads
<1>4. ASSUME NEW p, EndsWith(queue, p) PROVE EndsWith(queue', p)
  BY <1>1, <1>3, <1>4, EndsAppend
<1> QED
  BY <1>2, <1>4, NeutralKeeps DEF outside, lifecycleVars, worldVars

LEMMA CallAdvert == IInv /\ AdvertInv /\ Call => AdvertInv'
<1> SUFFICES ASSUME IInv, AdvertInv, Call PROVE AdvertInv'
  OBVIOUS
<1>1. /\ UNCHANGED <<active, running, advert, outside>>
      /\ UNCHANGED <<lastPair, turn, turns, trust>>
  BY DEF Call, outside, lifecycleVars, worldVars
<1>2. CASE Retry /\ UNCHANGED listener
  <2>1. lastPair \in Pair /\ Enqueue(Activate(lastPair, TRUE, FALSE))
    BY <1>2, Known DEF Retry
  <2>2. Reannounces /\ Replaced' = Pair /\ (CaughtUp /\ trust # 0 => EndsWith(queue', trust))
    BY <1>1, <2>1, ReannounceQueue
  <2>3. Announced
    <3>1. Replaced \subseteq Pair /\ Orders(queue) \subseteq Orders(queue')
      BY <2>2 DEF Replaced, Reannounces
    <3> QED
      BY <2>2, <3>1 DEF Announced
  <2> QED
    BY <1>1, <1>2, <2>3, AnnounceKeeps
<1>3. CASE ConnectFails /\ UNCHANGED listener
  <2> DEFINE op == [op |-> "unreachable", port |-> state.port]
  <2>1. Enqueue(op) /\ state.port \in Port
    BY <1>3 DEF ConnectFails, IInv, Core, AvailableIsProven, ServiceOK, Snapshots
  <2>2. op \in Ops /\ op.op \notin {"activate", "deactivate"}
    BY <2>1 DEF Ops
  <2> QED
    BY <1>1, <1>3, <2>1, <2>2, NewsKeeps
<1>4. CASE DiscoveryEvent /\ UNCHANGED listener
  <2>1. \/ \E s \in Service : Enqueue([op |-> "resolved", service |-> s])
        \/ \E n \in Name : Enqueue([op |-> "lost", name |-> n])
        \/ Enqueue([op |-> "error"])
    BY <1>4 DEF DiscoveryEvent
  <2>2. /\ \A s \in Service : /\ [op |-> "resolved", service |-> s] \in Ops
                             /\ [op |-> "resolved", service |-> s].op \notin {"activate", "deactivate"}
        /\ \A n \in Name : /\ [op |-> "lost", name |-> n] \in Ops
                          /\ [op |-> "lost", name |-> n].op \notin {"activate", "deactivate"}
        /\ [op |-> "error"] \in Ops /\ [op |-> "error"].op \notin {"activate", "deactivate"}
    BY DEF Ops
  <2> QED
    BY <1>1, <1>4, <2>1, <2>2, NewsKeeps
<1>5. CASE ListenerFails
  <2>1. Announced /\ (lastPair # 0 \/ active # NoActive => Replaced' = Pair)
    BY <1>1, <1>5, ListenerChangedAnnounced DEF ListenerFails
  <2>2. active # NoActive => active.pair \in Replaced'
    BY <2>1, Known DEF AdvertInv, PairsKnown
  <2>3. running.step = "start" => running.pair \in Replaced'
    <3> SUFFICES ASSUME running.step = "start" PROVE running.pair \in Replaced'
      OBVIOUS
    <3>1. running.pair \in Pair
      BY Known DEF AdvertInv, PairsKnown, Starting
    <3>2. lastPair = 0 => running.pair \in Replaced
      BY NoLastPair DEF Reading
    <3> QED
      BY <2>1, <3>1, <3>2 DEF Announced
  <2> QED
    BY <1>1, <2>1, <2>2, <2>3, AnnounceKeeps
<1> QED
  BY <1>2, <1>3, <1>4, <1>5 DEF Call

LEMMA ProbeAnswersAdvert == IInv /\ AdvertInv /\ ProbeAnswers => AdvertInv'
<1> SUFFICES ASSUME IInv, AdvertInv, ProbeAnswers PROVE AdvertInv'
  OBVIOUS
<1>1. UNCHANGED <<active, running, advert, listener, outside>>
  BY DEF ProbeAnswers
<1>2. CASE UNCHANGED queue
  BY <1>1, <1>2, NeutralKeeps DEF outside, lifecycleVars, worldVars
<1>3. ASSUME NEW p \in probes,
             Enqueue([op |-> "proved", service |-> p.service, current |-> p.current])
      PROVE  AdvertInv'
  <2> DEFINE op == [op |-> "proved", service |-> p.service, current |-> p.current]
  <2>1. p.service \in Service /\ p.current \in BOOLEAN
    BY DEF IInv, Core, ServiceOK
  <2>2. op \in Ops /\ op.op \notin {"activate", "deactivate"}
    BY <2>1 DEF Ops
  <2> QED
    BY <1>1, <1>3, <2>2, NewsKeeps
<1> QED
  BY <1>2, <1>3 DEF ProbeAnswers

LEMMA LeaseFiresAdvert == IInv /\ AdvertInv /\ LeaseFires => AdvertInv'
<1> SUFFICES ASSUME IInv, AdvertInv, LeaseFires PROVE AdvertInv'
  OBVIOUS
<1> DEFINE op == [op |-> "lease", port |-> lease, current |-> TRUE]
<1>1. Enqueue(op) /\ lease \in Port /\ UNCHANGED <<active, running, advert, listener, outside>>
  BY DEF LeaseFires, IInv, Core, ServiceOK
<1>2. op \in Ops /\ op.op \notin {"activate", "deactivate"}
  BY <1>1 DEF Ops
<1> QED
  BY <1>1, <1>2, NewsKeeps

-----------------------------------------------------------------------------
(* The answers that an activation waits for. *)

\* The activation goes on, ends in an advertisement, or fails.
LEMMA ActivationKeeps ==
  ASSUME IInv, AdvertInv, running.step \in Starting, Announced, UNCHANGED outside,
         \/ /\ UNCHANGED <<active, advert>>
            /\ running'.step \in Reading /\ running'.pair = running.pair
            /\ \/ running'.secret = trust
               \/ running.step \in Reading /\ running'.secret = running.secret
            /\ running'.step = "start" =>
                 [host |-> running'.host, port |-> running'.port] = listener'
         \/ active' = NoActive /\ running' = Idle
         \/ /\ running.step = "start" /\ UNCHANGED listener
            /\ active' = Browse(running.pair, running.secret)
            /\ advert' = [secret |-> running.secret, host |-> running.host, port |-> running.port]
            /\ running' = Idle
  PROVE  AdvertInv'
<1>1. UNCHANGED <<lastPair, context, turn, turns, trust, paired>>
  BY DEF outside, lifecycleVars, worldVars
<1>2. Replaced \subseteq Replaced' /\ Reannounces
  BY DEF Announced
<1>3. /\ active = NoActive /\ running.pair # 0 /\ NoActive.pair = 0
      /\ Browse(running.pair, running.secret).pair = running.pair
      /\ Browse(running.pair, running.secret).secret = running.secret
      /\ \A p \in Pair : p # 0
  BY Known DEF IInv, Core, StartsWithNothing, AdvertInv, PairsKnown, Browse
<1>4. InUse' \subseteq InUse /\ Old' = Old
  BY <1>1, <1>2, <1>3, IdleFields DEF Reannounces, InUse, Old, Starting, Reading
<1>5. Current' = Current \/ Current' = 0
  BY <1>3, IdleFields DEF Current, Starting, Reading
<1>6. Follows'
  BY <1>1 DEF AdvertInv, Follows
<1>7. PairsKnown'
  BY <1>1, <1>3, <1>4, IdleFields DEF AdvertInv, PairsKnown, Starting, Reading
<1>8. SecretFresh'
  BY <1>1, <1>2, <1>3, IdleFields DEF AdvertInv, SecretFresh, Reading
<1>9. ListenerFresh'
  BY <1>2, <1>3, IdleFields DEF AdvertInv, ListenerFresh, Reading
<1>10. Awaited'
  BY <1>1, <1>2 DEF AdvertInv, Awaited, Reannounces
<1>11. QueueEndsRight'
  BY <1>1, <1>5 DEF AdvertInv, QueueEndsRight, CaughtUp, Announced
<1> QED
  BY <1>6, <1>7, <1>8, <1>9, <1>10, <1>11 DEF AdvertInv

LEMMA AnswerAdvert == IInv /\ AdvertInv /\ Answer => AdvertInv'
<1> SUFFICES ASSUME IInv, AdvertInv, Answer PROVE AdvertInv'
  OBVIOUS
<1>1. /\ ServiceOK /\ queue \in Seq(Ops) /\ listener \in Listeners /\ UNCHANGED outside
      /\ UNCHANGED <<lastPair, turn, turns, trust>>
  BY Known DEF IInv, Core, Answer, ReprobeAnswers, outside, lifecycleVars, worldVars
<1>2. UNCHANGED queue => Announced
  BY <1>1, SameQueueAnnounced
<1>3. CASE ReprobeAnswers
  <2>1. /\ running.step = "reprobe" /\ running' = Idle /\ active # NoActive
        /\ UNCHANGED <<advert, listener>>
    BY <1>3 DEF ReprobeAnswers, IInv, Core, ReprobeHolds, AvailableIsProven
  <2>2. /\ active'.pair = active.pair /\ active'.secret = active.secret
        /\ UNCHANGED queue \/ queue' = OutdateProved(queue)
    BY <1>3, <2>1, UnmatchPair DEF ReprobeAnswers, SupersedeProbes
  <2>3. Orders(queue') = Orders(queue) /\ \A p : EndsWith(queue, p) => EndsWith(queue', p)
    <3>1. CASE queue' = Outdate(queue, {"proved"})
      <4>1. Orders(queue') = Orders(queue)
        BY <1>1, <3>1, OrdersOutdate
      <4>2. ASSUME NEW p, EndsWith(queue, p) PROVE EndsWith(queue', p)
        BY <1>1, <3>1, <4>2, EndsOutdate
      <4> QED
        BY <4>1, <4>2
    <3> QED
      BY <2>2, <3>1 DEF OutdateProved
  <2>4. running.step \notin Starting /\ running'.step \notin Starting
    BY <2>1, IdleFields DEF Starting
  <2> QED
    BY <1>1, <2>1, <2>2, <2>3, <2>4, NeutralKeeps DEF outside, lifecycleVars, worldVars
<1>4. ASSUME running.step \in Starting, Announced, ActivationFails PROVE AdvertInv'
  BY <1>1, <1>4, ActivationKeeps DEF ActivationFails
<1>5. CASE LoadPairSecret
  <2>1. running.step \in Starting /\ UNCHANGED <<queue, listener>>
    BY <1>5 DEF LoadPairSecret, Starting
  <2>2. CASE Proceed([running EXCEPT !.step = "prepare", !.secret = trust])
    <3>1. /\ running'.step = "prepare" /\ running'.pair = running.pair /\ running'.secret = trust
          /\ UNCHANGED <<active, advert>>
      BY <1>1, <2>2 DEF Proceed, ServiceOK, Activations
    <3> QED
      BY <1>1, <1>2, <2>1, <3>1, ActivationKeeps DEF Reading
  <2> QED
    BY <1>2, <1>4, <1>5, <2>1, <2>2 DEF LoadPairSecret
<1>6. CASE PrepareAdvertisement
  <2>1. /\ running.step \in Starting /\ running.step \in Reading /\ UNCHANGED <<queue, listener>>
    BY <1>6 DEF PrepareAdvertisement, Starting, Reading
  <2>2. ASSUME NEW host \in Host, Proceed([running EXCEPT !.step = "listen", !.host = host])
        PROVE  AdvertInv'
    <3>1. /\ running'.step = "listen" /\ running'.pair = running.pair
          /\ running'.secret = running.secret /\ UNCHANGED <<active, advert>>
      BY <1>1, <2>2 DEF Proceed, ServiceOK, Activations
    <3> QED
      BY <1>1, <1>2, <2>1, <3>1, ActivationKeeps DEF Reading
  <2> QED
    BY <1>2, <1>4, <1>6, <2>1, <2>2 DEF PrepareAdvertisement
<1>7. CASE EnsureListening
  <2>1. running.step \in Starting /\ running.step \in Reading
    BY <1>7 DEF EnsureListening, Starting, Reading
  <2>2. Announced
    BY <1>1, <1>2, <1>7, ListenerChangedAnnounced DEF EnsureListening, ReplaceListener
  <2>3. ASSUME listener' \in Listeners, listener'.host = running.host, Listening(listener'.port)
        PROVE  AdvertInv'
    <3>1. /\ running'.step = "start" /\ running'.pair = running.pair
          /\ running'.secret = running.secret /\ running'.host = running.host
          /\ running'.port = listener'.port /\ UNCHANGED <<active, advert>>
      BY <1>1, <2>3 DEF Listening, Proceed, ServiceOK, Activations
    <3>2. listener' = [host |-> listener'.host, port |-> listener'.port]
      BY <2>3 DEF Listeners
    <3> QED
      BY <1>1, <2>1, <2>2, <2>3, <3>1, <3>2, ActivationKeeps DEF Reading
  <2>4. CASE listener.host = running.host /\ Listening(listener.port) /\ UNCHANGED listener
    BY <1>1, <2>3, <2>4
  <2>5. CASE /\ listener' \in [host : Host, port : LocalPort \ {listener.port}]
             /\ listener'.host = running.host /\ Listening(listener'.port)
    <3>1. listener' \in Listeners
      BY <2>5 DEF Listeners, LocalHost
    <3> QED
      BY <2>3, <2>5, <3>1
  <2> QED
    BY <1>4, <1>7, <2>1, <2>2, <2>4, <2>5 DEF EnsureListening, ReplaceListener
<1>8. CASE StartDiscovery
  <2>1. running.step \in Starting /\ running.step = "start" /\ UNCHANGED <<queue, listener>>
    BY <1>8 DEF StartDiscovery, Starting
  <2> QED
    BY <1>1, <1>2, <1>4, <1>8, <2>1, ActivationKeeps DEF StartDiscovery
<1> QED
  BY <1>3, <1>5, <1>6, <1>7, <1>8 DEF Answer

-----------------------------------------------------------------------------
(* The lifecycle. *)

LEMMA LaterFields ==
  ASSUME turn \in Turns, NEW step, Later(step)
  PROVE  turn'.step = step /\ turn'.pair = turn.pair
  BY DEF Later, Turns

LEMMA NoTurnFields == NoTurn.step = "none" /\ NoTurn.pair = 0
  BY DEF NoTurn

\* What is advertised stays fresh while nothing but turns change.
LEMMA FreshKeeps ==
  ASSUME AdvertInv, UNCHANGED <<active, running, advert, listener, trust>>, Replaced \subseteq Replaced'
  PROVE  SecretFresh' /\ ListenerFresh'
  BY DEF AdvertInv, SecretFresh, ListenerFresh

LEMMA TurnStartsAdvert ==
  ASSUME IInv, AdvertInv, TurnStarts, UNCHANGED <<active, running, advert, trust, paired>>
  PROVE  AdvertInv'
<1>1. /\ turn.step = "none" /\ turns > 0 /\ turns' = turns - 1
      /\ turn'.step = (IF trust # 0 THEN "activatePair" ELSE "stopMedia") /\ turn'.pair = trust
      /\ UNCHANGED <<context, listener, lastPair, queue>>
  BY NoTurnFields DEF TurnStarts
<1>2. Replaced \subseteq Replaced' /\ InUse' = InUse
  BY <1>1 DEF Replaced, InUse
<1>3. Old \subseteq Old'
  BY <1>1 DEF Old
<1>4. Follows'
  BY <1>1, Known DEF AdvertInv, Follows
<1>5. PairsKnown'
  BY <1>1, <1>2, <1>3 DEF AdvertInv, PairsKnown
<1>6. SecretFresh' /\ ListenerFresh'
  BY <1>1, <1>2, FreshKeeps
<1>7. Awaited' /\ QueueEndsRight'
  BY <1>1 DEF AdvertInv, Awaited, QueueEndsRight, CaughtUp
<1> QED
  BY <1>4, <1>5, <1>6, <1>7 DEF AdvertInv

\* A listener of another pair is dropped: nothing advertised is of the new one.
LEMMA ActivatePairAdvert ==
  ASSUME IInv, AdvertInv, ActivatePair, UNCHANGED <<active, running, advert, trust, paired>>
  PROVE  AdvertInv'
<1>1. /\ turn.step = "activatePair" /\ turn.pair # 0 /\ turn \in Turns
      /\ UNCHANGED <<turns, lastPair, queue>>
      /\ turns = 0 => turn.pair = trust
      /\ context <= turn.pair /\ turn.pair <= paired /\ trust \in {0, paired}
  BY Known DEF ActivatePair, IInv, TurnHasPair, AdvertInv, Follows
<1>2. CASE trust # 0
  <2>1. /\ context' = turn.pair /\ turn'.step = "activate" /\ turn'.pair = turn.pair
        /\ context = turn.pair \/ listener' = NoListener
        /\ context = turn.pair => UNCHANGED listener
    BY <1>1, <1>2, LaterFields DEF ActivatePair
  <2>2. Replaced' = Replaced /\ InUse' = InUse
    BY <1>1, <2>1 DEF Replaced, InUse
  <2>3. \A p \in InUse : p = context' \/ p \in Old'
    <3>1. Old \subseteq Old'
      BY <1>1, <2>1 DEF Old
    <3>2. context < turn.pair /\ context \in Pair => context \in Old'
      BY <1>1, <1>2, <2>1, Known DEF Old
    <3>3. \A p \in InUse : p \in Pair /\ (p = context \/ p \in Old)
      BY DEF AdvertInv, PairsKnown, InUse
    <3> QED
      BY <1>1, <2>1, <3>1, <3>2, <3>3, Known
  <2>4. Follows'
    BY <1>1, <2>1, Known DEF AdvertInv, Follows
  <2>5. PairsKnown'
    BY <1>1, <2>2, <2>3 DEF AdvertInv, PairsKnown
  <2>6. SecretFresh'
    BY <1>1, <2>2 DEF AdvertInv, SecretFresh
  <2>7. ListenerFresh'
    <3>1. CASE context = turn.pair
      BY <1>1, <2>1, <2>2, <3>1 DEF AdvertInv, ListenerFresh
    <3>2. CASE context # turn.pair
      <4>1. \A p \in InUse : p # turn.pair
        BY <1>1, <3>2, Known DEF AdvertInv, PairsKnown, Old
      <4>2. \A p \in InUse : p \in Replaced
        BY <1>1, <4>1 DEF Replaced, InUse
      <4>3. /\ active # NoActive => active.pair \in InUse
            /\ running.step = "start" => running.pair \in InUse
        BY Known DEF AdvertInv, PairsKnown, InUse, Starting
      <4> QED
        BY <2>2, <4>2, <4>3 DEF ListenerFresh
    <3> QED
      BY <3>1, <3>2
  <2>8. Awaited' /\ QueueEndsRight'
    BY <1>1, <2>1 DEF AdvertInv, Awaited, QueueEndsRight, CaughtUp
  <2> QED
    BY <2>4, <2>5, <2>6, <2>7, <2>8 DEF AdvertInv
<1>3. CASE trust = 0
  <2>1. /\ turn' = NoTurn /\ turn'.step = "none" /\ turn'.pair = 0
        /\ turns > 0 /\ UNCHANGED <<context, listener>>
    BY <1>1, <1>3, Known, NoTurnFields DEF ActivatePair
  <2>2. Replaced \subseteq Replaced' /\ InUse' = InUse /\ Old \subseteq Old'
    BY <1>1, <1>3, <2>1, Known DEF Replaced, InUse, Old
  <2>3. Follows'
    BY <1>1, <2>1, Known DEF AdvertInv, Follows
  <2>4. PairsKnown'
    BY <1>1, <2>1, <2>2 DEF AdvertInv, PairsKnown
  <2>5. SecretFresh' /\ ListenerFresh'
    BY <2>1, <2>2, FreshKeeps
  <2>6. Awaited' /\ QueueEndsRight'
    BY <1>1, <2>1 DEF AdvertInv, Awaited, QueueEndsRight, CaughtUp
  <2> QED
    BY <2>3, <2>4, <2>5, <2>6 DEF AdvertInv
<1> QED
  BY <1>2, <1>3

LEMMA ActivateAvailabilityAdvert ==
  ASSUME IInv, AdvertInv, ActivateAvailability, UNCHANGED <<active, running, advert, trust, paired>>
  PROVE  AdvertInv'
<1> DEFINE op == Activate(turn.pair, FALSE, TRUE)
<1>1. /\ turn.step = "activate" /\ turn.pair \in Pair /\ turn \in Turns
      /\ turns = 0 => turn.pair = trust
      /\ context = turn.pair /\ lastPair' = turn.pair
      /\ UNCHANGED <<turns, context, listener>>
  BY Known DEF ActivateAvailability, IInv, TurnHasPair, AdvertInv, Follows, PhoneOK, Turns, MaybePair
<1>2. turn'.step = "wait" /\ turn'.pair = turn.pair
  BY <1>1, LaterFields DEF ActivateAvailability
<1>3. queue \in Seq(Ops) /\ queue' = Append(queue, op)
  BY Known DEF ActivateAvailability, Enqueue
<1>4. /\ op \in Ops /\ op.op = "activate" /\ op.pair = turn.pair /\ op.awaited = TRUE
      /\ Activates(op, turn.pair)
  BY <1>1, ActivateFields
<1> HIDE DEF op
<1>5. Orders(queue') = Orders(queue) \cup {op}
  BY <1>3, <1>4, OrdersAppend
<1>6. Replaced \subseteq Replaced'
  <2>1. \A p : turn.pair # p => Refreshes(op, p)
    BY <1>4, Zenon DEF Refreshes
  <2> QED
    BY <1>1, <1>2, <1>5, <2>1 DEF Replaced
<1>7. InUse' \subseteq InUse \cup {turn.pair} /\ Old' = Old
  BY <1>1, <1>2, <1>4, <1>5 DEF InUse, Old
<1>8. Follows'
  BY <1>1, <1>2 DEF AdvertInv, Follows
<1>9. PairsKnown'
  <2>1. \A p \in InUse : (p = context \/ p \in Old) /\ p # 0
    BY Known DEF AdvertInv, PairsKnown, InUse
  <2>2. \A p \in Old : trust # 0 => p # trust
    BY Known DEF Old
  <2>3. \A p \in InUse' : (p = context' \/ p \in Old') /\ (p = trust => lastPair' = p)
    BY <1>1, <1>7, <2>1, <2>2
  <2> QED
    BY <2>3 DEF AdvertInv, PairsKnown
<1>10. SecretFresh' /\ ListenerFresh'
  BY <1>1, <1>6, FreshKeeps
<1>11. Awaited'
  BY <1>1, <1>2, <1>4, <1>5 DEF AdvertInv, Awaited
<1>12. QueueEndsRight'
  <2> SUFFICES ASSUME CaughtUp', trust # 0
               PROVE  EndsWith(queue', trust) /\ \E e \in Orders(queue') : Activates(e, trust)
    BY DEF QueueEndsRight
  <2>1. turn.pair = trust
    BY <1>1 DEF CaughtUp
  <2> QED
    BY <1>3, <1>4, <1>5, <2>1, EndsAppend
<1> QED
  BY <1>8, <1>9, <1>10, <1>11, <1>12 DEF AdvertInv

LEMMA MediaStoppedAdvert ==
  ASSUME IInv, AdvertInv, MediaStopped, UNCHANGED <<active, running, advert, trust, paired>>
  PROVE  AdvertInv'
<1>1. /\ turn.step = "stopMedia" /\ UNCHANGED <<turns, context, listener, lastPair, queue>>
      /\ turn'.step = "deactivate" /\ turn'.pair = turn.pair
  BY Known, LaterFields DEF MediaStopped
<1>2. Replaced' = Replaced /\ InUse' = InUse /\ Old' = Old
  BY <1>1 DEF Replaced, InUse, Old
<1>3. Follows' /\ PairsKnown'
  BY <1>1, <1>2 DEF AdvertInv, Follows, PairsKnown
<1>4. SecretFresh' /\ ListenerFresh'
  BY <1>1, <1>2, FreshKeeps
<1>5. Awaited' /\ QueueEndsRight'
  BY <1>1 DEF AdvertInv, Awaited, QueueEndsRight, CaughtUp
<1> QED
  BY <1>3, <1>4, <1>5 DEF AdvertInv

LEMMA DeactivateAvailabilityAdvert ==
  ASSUME IInv, AdvertInv, DeactivateAvailability, UNCHANGED <<active, running, advert, trust, paired>>
  PROVE  AdvertInv'
<1>1. /\ turn.step = "deactivate" /\ UNCHANGED <<turns, context, listener>> /\ lastPair' = 0
      /\ turn'.step = "waitStop" /\ turn'.pair = turn.pair /\ turn.pair = 0
      /\ turns = 0 => trust = 0
      /\ trust # 0 => context < trust
  BY Known, LaterFields DEF DeactivateAvailability, AdvertInv, Follows
<1>2. queue \in Seq(Ops) /\ queue' = Append(queue, Deactivate)
  BY Known DEF DeactivateAvailability, Enqueue
<1>3. Deactivate \in Ops /\ Deactivate.op = "deactivate"
  BY DEF Deactivate, Ops
<1>4. Orders(queue') = Orders(queue) \cup {Deactivate}
  BY <1>2, <1>3, OrdersAppend
<1>5. Replaced' = Pair
  <2>1. \A p : Refreshes(Deactivate, p)
    BY <1>3 DEF Refreshes
  <2> QED
    BY <1>4, <2>1 DEF Replaced
<1>6. InUse' \subseteq InUse /\ Old' = Old /\ Replaced \subseteq Replaced'
  BY <1>1, <1>3, <1>4, <1>5, Known DEF InUse, Old, Replaced
<1>7. Follows'
  BY <1>1 DEF AdvertInv, Follows
<1>8. PairsKnown'
  <2>1. \A p \in InUse : (p = context \/ p \in Old) /\ p # 0
    BY Known DEF AdvertInv, PairsKnown, InUse
  <2>2. \A p \in InUse : p # trust
    BY <1>1, <2>1, Known DEF Old
  <2> QED
    BY <1>1, <1>6, <2>1, <2>2 DEF AdvertInv, PairsKnown
<1>9. SecretFresh' /\ ListenerFresh'
  BY <1>1, <1>6, FreshKeeps
<1>10. Awaited' /\ QueueEndsRight'
  BY <1>1, <1>3, <1>4 DEF AdvertInv, Awaited, QueueEndsRight, CaughtUp
<1> QED
  BY <1>7, <1>8, <1>9, <1>10 DEF AdvertInv

\* After a withdrawal, what is advertised again belongs to a pair or a trust that
\* is gone, so the turn that is to come replaces it.
LEMMA WithdrawnIsReplaced ==
  ASSUME IInv, AdvertInv, turn.step = "waitStop", NEW p \in InUse, NEW secret,
         secret # 0, secret = trust \/ p \in Replaced
  PROVE  p \in Replaced
<1>1. /\ turn.pair = 0 /\ (trust # 0 => context < trust)
      /\ turns = 0 => trust = 0
  BY DEF AdvertInv, Follows
<1>2. CASE trust = 0
  BY <1>2
<1>3. CASE trust # 0
  <2>1. p # trust
    BY <1>1, <1>3, Known DEF AdvertInv, PairsKnown, Old
  <2>2. p \in Pair /\ turns > 0
    BY <1>1, <1>3, Known DEF InUse
  <2> QED
    BY <2>1, <2>2 DEF Replaced
<1> QED
  BY <1>2, <1>3

LEMMA TurnEndsAdvert ==
  ASSUME IInv, AdvertInv, TurnEnds, UNCHANGED <<active, running, advert, trust, paired>>
  PROVE  AdvertInv'
<1>1. /\ turn.step \in {"wait", "waitStop"} /\ turn' = NoTurn /\ turn'.step = "none"
      /\ turn'.pair = 0 /\ UNCHANGED <<turns, lastPair, queue>> /\ ~Awaiting
  BY NoTurnFields DEF TurnEnds
<1>2. Replaced' = Replaced /\ InUse' = InUse /\ Old' = Old
  BY <1>1 DEF Replaced, InUse, Old
<1>3. Awaited'
  <2>1. \A e \in Orders(queue) : ~e.awaited
    BY <1>1, Zenon DEF Awaiting, Orders, Elements
  <2>2. \A e \in Orders(queue) : ~(e.op = "activate" /\ ~e.force)
    BY <2>1, Zenon DEF AdvertInv, Awaited
  <2> QED
    BY <1>1, <2>2 DEF Awaited
<1>4. QueueEndsRight'
  BY <1>1 DEF AdvertInv, QueueEndsRight, CaughtUp, Current
<1>5. CASE turn.step = "wait"
  <2>1. UNCHANGED <<context, listener>>
    BY <1>5 DEF TurnEnds
  <2>2. Follows' /\ PairsKnown'
    BY <1>1, <1>2, <1>5, <2>1, Known DEF AdvertInv, Follows, PairsKnown
  <2>3. SecretFresh' /\ ListenerFresh'
    BY <1>2, <2>1, FreshKeeps
  <2> QED
    BY <1>3, <1>4, <2>2, <2>3 DEF AdvertInv
<1>6. CASE turn.step = "waitStop"
  <2>1. context' = 0 /\ listener' = NoListener
    BY <1>6 DEF TurnEnds
  <2>2. Follows'
    BY <1>1, <1>6, <2>1, Known DEF AdvertInv, Follows
  <2>3. PairsKnown'
    <3>1. context \in Pair => context \in Old'
      BY <1>1, <1>6, Known DEF AdvertInv, Follows, Old
    <3>2. \A p \in InUse : p \in Pair /\ (p = context \/ p \in Old)
      BY DEF AdvertInv, PairsKnown, InUse
    <3> QED
      BY <1>1, <1>2, <3>1, <3>2 DEF AdvertInv, PairsKnown
  <2>4. SecretFresh'
    BY <1>2 DEF AdvertInv, SecretFresh
  <2>5. active # NoActive => active.pair \in Replaced
    <3>1. active # NoActive => active.pair \in InUse /\ active.secret # 0
      BY Known DEF AdvertInv, PairsKnown, InUse, IInv, Core, Prepared
    <3> QED
      BY <1>6, <3>1, WithdrawnIsReplaced DEF AdvertInv, SecretFresh
  <2>6. running.step = "start" => running.pair \in Replaced
    <3>1. running.step = "start" => running.pair \in InUse /\ running.secret # 0
      BY Known DEF AdvertInv, PairsKnown, InUse, Starting, IInv, Core, Prepared
    <3> QED
      BY <1>6, <3>1, WithdrawnIsReplaced DEF AdvertInv, SecretFresh, Reading
  <2>7. ListenerFresh'
    BY <1>2, <2>5, <2>6 DEF ListenerFresh
  <2> QED
    BY <1>3, <1>4, <2>2, <2>3, <2>4, <2>7 DEF AdvertInv
<1> QED
  BY <1>1, <1>5, <1>6

LEMMA LifecycleAdvert == IInv /\ AdvertInv /\ Lifecycle => AdvertInv'
<1> SUFFICES ASSUME IInv, AdvertInv, Lifecycle PROVE AdvertInv'
  OBVIOUS
<1>1. UNCHANGED <<active, running, advert, trust, paired>>
  BY DEF Lifecycle, worldVars
<1> QED
  BY <1>1, TurnStartsAdvert, ActivatePairAdvert, ActivateAvailabilityAdvert, MediaStoppedAdvert,
     DeactivateAvailabilityAdvert, TurnEndsAdvert DEF Lifecycle

-----------------------------------------------------------------------------
(* The pairing, and the theorem. *)

LEMMA PairingChangesAdvert ==
  ASSUME IInv, AdvertInv, PairingChanges,
         UNCHANGED <<active, queue, running, advert, listener, lastPair, context, turn>>
  PROVE  AdvertInv'
<1>1. turns' = turns + 1 /\ turns' > 0
  BY Known DEF PairingChanges
<1>2. \/ trust = 0 /\ paired' = paired + 1 /\ trust' = paired'
      \/ trust # 0 /\ trust' = 0 /\ paired' = paired
  BY DEF PairingChanges
<1>3. InUse' = InUse
  BY DEF InUse
<1>4. \A p \in InUse : p \in Pair /\ p <= paired /\ p # trust'
  <2>1. \A p \in InUse : p \in Pair /\ p <= paired
    BY DEF AdvertInv, PairsKnown, Follows, InUse, Old
  <2> QED
    BY <1>2, <2>1, Known
<1>5. \A p \in InUse : p \in Replaced'
  BY <1>1, <1>4 DEF Replaced
<1>6. Old \subseteq Old'
  BY <1>2, Known DEF Old
<1>7. Follows'
  BY <1>1, <1>2, Known DEF AdvertInv, Follows
<1>8. PairsKnown'
  BY <1>3, <1>4, <1>6 DEF AdvertInv, PairsKnown
<1>9. /\ active # NoActive => active.pair \in InUse
      /\ running.step \in Starting => running.pair \in InUse
  BY Known DEF AdvertInv, PairsKnown, InUse
<1>10. SecretFresh' /\ ListenerFresh'
  BY <1>4, <1>5, <1>9 DEF SecretFresh, ListenerFresh, Reading, Starting
<1>11. Awaited' /\ QueueEndsRight'
  BY <1>1 DEF AdvertInv, Awaited, QueueEndsRight, CaughtUp
<1> QED
  BY <1>7, <1>8, <1>10, <1>11 DEF AdvertInv

LEMMA InitAdvert == Init => AdvertInv
<1> SUFFICES ASSUME Init PROVE AdvertInv
  OBVIOUS
<1>1. /\ active = NoActive /\ NoActive.pair = 0 /\ lastPair = 0 /\ running = Idle
      /\ context = 0 /\ trust = 0 /\ paired = 0 /\ turns = 0
      /\ turn = NoTurn /\ turn.step = "none" /\ turn.pair = 0
  BY NoTurnFields DEF Init, NoActive, Browse
<1>2. Orders(queue) = {}
  BY DEF Init, Orders, Elements
<1>3. InUse = {}
  BY <1>1, <1>2, IdleFields DEF InUse, Pair
<1>4. Follows /\ PairsKnown
  BY <1>1, <1>3, IdleFields DEF Follows, PairsKnown
<1>5. SecretFresh /\ ListenerFresh /\ Awaited /\ QueueEndsRight
  BY <1>1, <1>2, IdleFields DEF SecretFresh, ListenerFresh, Awaited, QueueEndsRight, Reading
<1> QED
  BY <1>4, <1>5 DEF AdvertInv

LEMMA StepAdvert == IInv /\ AdvertInv /\ [Next]_vars => AdvertInv'
<1> SUFFICES ASSUME IInv, AdvertInv, [Next]_vars PROVE AdvertInv'
  OBVIOUS
<1>1. CASE World
  <2>1. /\ UNCHANGED <<active, queue, running, advert, listener, lastPair, context, turn>>
        /\ PairingChanges \/ UNCHANGED <<turns, trust, paired>>
    BY <1>1 DEF World, serviceVars, PartnerChanges
  <2> QED
    BY <2>1, PairingChangesAdvert, NeutralKeeps DEF lifecycleVars
<1>2. CASE UNCHANGED vars
  <2>1. UNCHANGED <<active, queue, running, advert, listener, lastPair, lifecycleVars, trust, paired>>
    BY <1>2 DEF vars, serviceVars, outside, worldVars
  <2> QED
    BY <2>1, NeutralKeeps
<1> QED
  BY <1>1, <1>2, HandleAdvert, AnswerAdvert, ProbeAnswersAdvert, LeaseFiresAdvert, LifecycleAdvert,
     CallAdvert DEF Next

LEMMA SettledIsTrue ==
  ASSUME IInv, AdvertInv
  PROVE  SettledAdvertIsTrue
<1> SUFFICES ASSUME ~ChangePending, advert # NoAdvert
             PROVE  /\ advert.secret = trust /\ state.pair = trust
                    /\ [host |-> advert.host, port |-> advert.port] = listener
  BY DEF SettledAdvertIsTrue
<1>1. /\ active # NoActive /\ active.secret # 0
      /\ state.pair = active.pair /\ advert.secret = active.secret /\ active.pair # 0
  BY DEF IInv, Core, AvailableIsProven, Prepared, AdvertInv, PairsKnown
<1>2. /\ turns = 0 /\ turn.step = "none" /\ turn.pair = 0
  BY Known, NoTurnFields DEF ChangePending
<1>3. running.step \notin Starting
  BY DEF ChangePending, IInv, Core, StartsWithNothing, AvailableIsProven
<1>4. Orders(queue) = {}
  <2>1. \A e \in Orders(queue) : e.op = "activate" /\ ~e.force
    BY Zenon DEF ChangePending, Orders, Elements
  <2> QED
    BY <1>2, <2>1 DEF AdvertInv, Awaited
<1>5. Replaced = {}
  BY <1>2, <1>4 DEF Replaced
<1>6. active.secret = trust /\ [host |-> advert.host, port |-> advert.port] = listener
  BY <1>1, <1>5 DEF AdvertInv, SecretFresh, ListenerFresh
<1>7. active.pair = trust
  <2>1. CaughtUp /\ Current = active.pair
    BY <1>2, <1>3 DEF CaughtUp, Current
  <2> QED
    BY <1>1, <1>4, <1>6, <2>1 DEF AdvertInv, QueueEndsRight
<1> QED
  BY <1>1, <1>6, <1>7

\* However revocations, new pairs, listener failures, address changes and retries
\* interleave with activations, once nothing is pending the phone advertises the
\* trust it stores and the listener that listens (AvailabilityService.activateNow,
\* AppServices.pairedLifecycle).
THEOREM SettledAdvertIsAlwaysTrue == Spec => []SettledAdvertIsTrue
<1>1. Spec => [](IInv /\ AdvertInv)
  BY InitInv, StepInv, InitAdvert, StepAdvert, PTL DEF Spec
<1> QED
  BY <1>1, SettledIsTrue, PTL
=============================================================================
