---------------------------- MODULE Availability ----------------------------
(***************************************************************************)
(* AvailabilityService of one phone, with what drives it: the lifecycle of *)
(* AppServices, the control listener whose replacement re-advertises,      *)
(* Android's service discovery and the probes of the partner's endpoint.   *)
(*                                                                         *)
(* The service runs one queued operation at a time.  An operation is split *)
(* where the rest of the phone can overtake it: at the awaited steps of an *)
(* activation and at the probe of a lease.  The probe of a newly resolved  *)
(* service runs beside the queue.  The service tells a late answer by the  *)
(* counters generation and probeGeneration; they only grow and are only    *)
(* compared for equality, so the model keeps with each outstanding answer  *)
(* whether its counters are still current.                                 *)
(***************************************************************************)
EXTENDS Naturals, Sequences, FiniteSets

CONSTANTS
  Name, Port,       \* names and control ports a partner's service may have
  Host, LocalPort,  \* Wi-Fi addresses, and listener ports, of this phone
  Disturbances,     \* which of the actions that name one may happen
  MaxPairs,         \* bound: pairs confirmed over time
  MaxQueue,         \* bound: nothing from outside is queued beyond this length
  MaxProbes,        \* bound: Android reports while fewer probes are in flight
  MaxTurns,         \* bound: pairing changes the lifecycle has yet to look at
  NoName, NoPort, NoHost

ASSUME AvailabilityAssumption ==
  /\ NoName \notin Name /\ NoPort \notin Port \cup LocalPort /\ NoHost \notin Host
  /\ MaxPairs \in Nat /\ MaxQueue \in Nat /\ MaxProbes \in Nat /\ MaxTurns \in Nat

VARIABLES
  state,     \* the published AvailabilitySnapshot
  active,    \* ActiveAvailability, NoActive if null
  lastPair,  \* pair of the last activate, 0 after deactivate
  lease,     \* port whose lease timer is armed, NoPort if none
  queue,     \* operations waiting in operationQueue
  running,   \* the operation that waits for an answer
  probes,    \* probes of resolved services in flight
  advert,    \* what Android advertises for this phone
  listener,  \* control listener of this phone
  context,   \* pair of the control session's trust context
  turn,      \* step of the lifecycle turn that runs
  turns,     \* turns waiting in the pairedLifecycle chain
  trust,     \* pair whose confirmed trust is stored, 0 if none
  paired,    \* pairs confirmed so far
  partner    \* port the partner's control listener answers on

worldVars == <<trust, paired, partner>>
lifecycleVars == <<context, turn, turns>>
\* What the handlers of the queue leave alone.
outside == <<lastPair, lifecycleVars, worldVars>>
serviceVars == <<state, active, lease, queue, running, probes, advert>>
vars == <<serviceVars, listener, outside>>

Pair == 1..MaxPairs
Service == [name : Name, port : Port, pair : Pair]
Browse(p, s) == [pair |-> p, secret |-> s, matched |-> NoName, proven |-> NoPort]
NoActive == Browse(0, 0)

Snapshot(kind, p) == [kind |-> kind, pair |-> p, name |-> NoName, port |-> NoPort]
Inactive == Snapshot("inactive", 0)
Offline(p) == Snapshot("offline", p)           \* with localAdvertised
Unadvertised(p) == Snapshot("unadvertised", p) \* offline, not localAdvertised
Available(p, s) == [kind |-> "available", pair |-> p, name |-> s.name, port |-> s.port]

Activation(step, op) == [step |-> step, pair |-> op.pair, awaited |-> op.awaited,
                         secret |-> 0, host |-> NoHost, port |-> NoPort]
Idle == Activation("idle", [pair |-> 0, awaited |-> FALSE])
NoListener == [host |-> NoHost, port |-> NoPort]
NoAdvert == [secret |-> 0, host |-> NoHost, port |-> NoPort]
NoTurn == [step |-> "none", pair |-> 0]

Activate(p, force, awaited) ==
  [op |-> "activate", pair |-> p, force |-> force, awaited |-> awaited]
Deactivate == [op |-> "deactivate", awaited |-> TRUE]

Init ==
  /\ state = Inactive /\ active = NoActive /\ lastPair = 0 /\ lease = NoPort
  /\ queue = <<>> /\ running = Idle /\ probes = {} /\ advert = NoAdvert
  /\ listener = NoListener /\ context = 0 /\ turn = NoTurn /\ turns = 0
  /\ trust = 0 /\ paired = 0 /\ partner \in Port

-----------------------------------------------------------------------------
(* The queue, and the counters that make late answers recognisable. *)

Enqueue(op) == queue' = Append(queue, op)
HasRoom == Len(queue) < MaxQueue

Outdate(q, kinds) == [i \in DOMAIN q |->
  IF q[i].op \in kinds THEN [q[i] EXCEPT !.current = FALSE] ELSE q[i]]

\* Mutant: an older probe stays current.
NotSuperseded == probes

\* ++probeGeneration
Superseded == {[p EXCEPT !.current = FALSE] : p \in probes}
OutdateProved(q) == Outdate(q, {"proved"})
SupersedeProbes(rest) == probes' = Superseded /\ queue' = OutdateProved(rest)

\* The operation has nothing to do.
Skip(rest) == queue' = rest /\ UNCHANGED <<state, active, lease, running, probes, advert>>

\* stopActive: the timer is cleared, both counters move on, Android stops.
StopActive(rest) ==
  /\ active' = NoActive /\ lease' = NoPort /\ advert' = NoAdvert
  /\ probes' = Superseded /\ queue' = Outdate(rest, {"proved", "lease"})

\* Mutant: the proved endpoint is remembered.
ShowOffline == state' = Offline(active.pair) /\ UNCHANGED active

Unmatch ==
  /\ active' = [active EXCEPT !.matched = NoName, !.proven = NoPort]
  /\ state' = Offline(active.pair)

\* The partner is gone: offline, and no probe in flight counts any more.
Demote(rest) ==
  /\ Unmatch /\ SupersedeProbes(rest) /\ lease' = NoPort
  /\ UNCHANGED <<running, advert>>

-----------------------------------------------------------------------------
(* Operations of the queue: op is the head, rest what waits behind it. *)

ActivateNow(op, rest) ==
  IF ~op.force /\ active.pair = op.pair
  THEN Skip(rest)
  ELSE /\ StopActive(rest)
       /\ state' = Snapshot("starting", op.pair)
       /\ running' = Activation("load", op)

\* Mutant: Android goes on advertising.
DeactivateShown(rest) ==
  state' = Inactive /\ queue' = rest /\ UNCHANGED <<active, lease, probes, advert, running>>

DeactivateNow(rest) == StopActive(rest) /\ state' = Inactive /\ UNCHANGED running

Matched(s) == state.kind = "available" /\ active.matched = s.name
Trusted(s) == active # NoActive /\ s.pair = active.secret

\* A service that proves the pair secret is probed, unless it is the one shown.
\* The same service with another endpoint ends the availability at once.
HandleResolved(s, rest) ==
  IF ~Trusted(s) \/ (Matched(s) /\ state.port = s.port)
  THEN Skip(rest)
  ELSE /\ IF Matched(s) THEN Unmatch ELSE UNCHANGED <<active, state>>
       /\ probes' = Superseded \cup {[service |-> s, current |-> TRUE]}
       /\ queue' = OutdateProved(rest)
       /\ UNCHANGED <<lease, running, advert>>

HandleLost(n, rest) ==
  IF active # NoActive /\ active.matched = n THEN Demote(rest) ELSE Skip(rest)

HandleError(rest) == IF active # NoActive THEN Demote(rest) ELSE Skip(rest)

\* The answer of a probe beside the queue, applied if it is still current.
HandleProved(s, current, rest) ==
  IF ~current THEN Skip(rest)
  ELSE /\ active' = [active EXCEPT !.matched = s.name, !.proven = s.port]
       /\ state' = Available(active.pair, s) /\ lease' = s.port /\ queue' = rest
       /\ UNCHANGED <<running, probes, advert>>

\* reprobePartnerLease holds the queue while it probes.
ReprobeLease(op, rest) ==
  IF op.current /\ state.kind = "available" /\ state.port = op.port
  THEN /\ running' = [Idle EXCEPT !.step = "reprobe", !.port = op.port] /\ queue' = rest
       /\ UNCHANGED <<state, active, lease, probes, advert>>
  ELSE Skip(rest)

MarkPartnerUnreachable(port, rest) ==
  IF state.kind = "available" /\ state.port = port THEN Demote(rest) ELSE Skip(rest)

Handle ==
  /\ running = Idle /\ queue # <<>>
  /\ LET op == Head(queue)
         rest == Tail(queue)
     IN \/ op.op = "activate" /\ ActivateNow(op, rest)
        \/ op.op = "deactivate" /\ DeactivateNow(rest)
        \/ op.op = "resolved" /\ HandleResolved(op.service, rest)
        \/ op.op = "lost" /\ HandleLost(op.name, rest)
        \/ op.op = "error" /\ HandleError(rest)
        \/ op.op = "proved" /\ HandleProved(op.service, op.current, rest)
        \/ op.op = "lease" /\ ReprobeLease(op, rest)
        \/ op.op = "unreachable" /\ MarkPartnerUnreachable(op.port, rest)
  /\ UNCHANGED <<listener, outside>>

-----------------------------------------------------------------------------
(* Answers an operation waits for. *)

Proceed(next) == running' = next /\ UNCHANGED <<state, active, advert>>

ActivationFails ==
  /\ advert' = NoAdvert /\ active' = NoActive
  /\ state' = Unadvertised(running.pair) /\ running' = Idle

\* The secret of the trust stored now, whichever pair the activation names.
LoadPairSecret ==
  /\ running.step = "load"
  /\ IF trust # 0 THEN Proceed([running EXCEPT !.step = "prepare", !.secret = trust])
                  ELSE ActivationFails
  /\ UNCHANGED <<queue, listener>>

\* The phone's Wi-Fi address, or none: it may change between any two reads.
PrepareAdvertisement ==
  /\ running.step = "prepare"
  /\ \/ \E host \in Host : Proceed([running EXCEPT !.step = "listen", !.host = host])
     \/ ActivationFails
  /\ UNCHANGED <<queue, listener>>

\* Mutant: nobody hears that the listener was replaced.
SilentListenerChange == UNCHANGED queue

\* The callback of subscribeListenerChanges.
ListenerChanged ==
  LET p == IF lastPair # 0 THEN lastPair ELSE active.pair
  IN IF p # 0 THEN Enqueue(Activate(p, TRUE, FALSE)) ELSE UNCHANGED queue

Listening(port) == Proceed([running EXCEPT !.step = "start", !.port = port])

\* A listener on another address is dropped, announced and replaced by one on
\* the Wi-Fi address of this moment, which may not be the expected one either.
ReplaceListener ==
  /\ IF listener = NoListener THEN UNCHANGED queue ELSE ListenerChanged
  /\ \/ listener' = NoListener /\ ActivationFails
     \/ /\ listener' \in [host : Host, port : LocalPort \ {listener.port}]
        /\ IF listener'.host = running.host THEN Listening(listener'.port) ELSE ActivationFails

EnsureListening ==
  /\ running.step = "listen"
  /\ IF context = 0 THEN ActivationFails /\ UNCHANGED <<queue, listener>>
     ELSE IF listener.host = running.host
     THEN Listening(listener.port) /\ UNCHANGED <<queue, listener>>
     ELSE ReplaceListener

\* discovery.start: Android advertises and browses, or refuses.
StartDiscovery ==
  /\ running.step = "start"
  /\ \/ /\ advert' = [secret |-> running.secret, host |-> running.host, port |-> running.port]
        /\ active' = Browse(running.pair, running.secret)
        /\ state' = Offline(running.pair) /\ running' = Idle
     \/ "native" \in Disturbances /\ ActivationFails
  /\ UNCHANGED <<queue, listener>>

\* Mutant: an endpoint that still answers is not probed again.
ReprobeOnce ==
  /\ running.step = "reprobe" /\ running' = Idle
  /\ IF partner = running.port THEN UNCHANGED <<state, active, queue, probes>>
                               ELSE Unmatch /\ SupersedeProbes(queue)
  /\ UNCHANGED <<lease, advert, listener, outside>>

\* The probe of the lease; the timer, if one was armed since, is left alone.
ReprobeAnswers ==
  /\ running.step = "reprobe" /\ running' = Idle
  /\ IF partner = running.port
     THEN lease' = active.proven /\ UNCHANGED <<state, active, queue, probes>>
     ELSE Unmatch /\ SupersedeProbes(queue) /\ UNCHANGED lease
  /\ UNCHANGED <<advert, listener, outside>>

Answer ==
  \/ ReprobeAnswers
  \/ /\ LoadPairSecret \/ PrepareAdvertisement \/ EnsureListening \/ StartDiscovery
     /\ UNCHANGED <<lease, probes, outside>>

\* A probe beside the queue answers; a failure is only recorded.
ProbeAnswers ==
  /\ \E p \in probes :
       /\ probes' = probes \ {p}
       /\ IF partner = p.service.port
          THEN Enqueue([op |-> "proved", service |-> p.service, current |-> p.current])
          ELSE UNCHANGED queue
  /\ UNCHANGED <<state, active, lease, running, advert, listener, outside>>

LeaseFires ==
  /\ lease # NoPort /\ lease' = NoPort
  /\ Enqueue([op |-> "lease", port |-> lease, current |-> TRUE])
  /\ UNCHANGED <<state, active, running, probes, advert, listener, outside>>

-----------------------------------------------------------------------------
(* The lifecycle of AppServices: one turn for each change of the pairing. *)

Awaiting == \/ running.awaited
            \/ \E i \in DOMAIN queue :
                 queue[i].op \in {"activate", "deactivate"} /\ queue[i].awaited
Later(step) == turn' = [turn EXCEPT !.step = step]

\* A turn looks at the pairing snapshot of the moment it starts.
TurnStarts ==
  /\ turn = NoTurn /\ turns > 0 /\ turns' = turns - 1
  /\ turn' = [step |-> IF trust # 0 THEN "activatePair" ELSE "stopMedia", pair |-> trust]
  /\ UNCHANGED <<context, listener, lastPair, queue>>

\* control.activate for another pair drops the listener and announces nothing.
ActivatePair ==
  /\ turn.step = "activatePair"
  /\ IF trust # 0
     THEN /\ context' = turn.pair /\ Later("activate")
          /\ listener' = IF context = turn.pair THEN listener ELSE NoListener
     ELSE turn' = NoTurn /\ UNCHANGED <<context, listener>>
  /\ UNCHANGED <<turns, lastPair, queue>>

ActivateAvailability ==
  /\ turn.step = "activate" /\ Later("wait")
  /\ lastPair' = turn.pair /\ Enqueue(Activate(turn.pair, FALSE, TRUE))
  /\ UNCHANGED <<turns, context, listener>>

\* mediaSession.stop may have to wait for a consent dialog.
MediaStopped ==
  /\ turn.step = "stopMedia" /\ Later("deactivate")
  /\ UNCHANGED <<turns, context, listener, lastPair, queue>>

DeactivateAvailability ==
  /\ turn.step = "deactivate" /\ Later("waitStop")
  /\ lastPair' = 0 /\ Enqueue(Deactivate)
  /\ UNCHANGED <<turns, context, listener>>

\* The awaited operation is done; deactivatePair follows a deactivation.
TurnEnds ==
  /\ turn.step \in {"wait", "waitStop"} /\ ~Awaiting /\ turn' = NoTurn
  /\ IF turn.step = "waitStop" THEN context' = 0 /\ listener' = NoListener
                               ELSE UNCHANGED <<context, listener>>
  /\ UNCHANGED <<turns, lastPair, queue>>

Lifecycle ==
  /\ TurnStarts \/ ActivatePair \/ ActivateAvailability \/ MediaStopped
     \/ DeactivateAvailability \/ TurnEnds
  /\ UNCHANGED <<state, active, lease, running, probes, advert, worldVars>>

-----------------------------------------------------------------------------
(* The world around: users, Android's reports, the partner. *)

\* The retry button, and every return of the app to the foreground.
Retry == "retry" \in Disturbances /\ lastPair # 0 /\ Enqueue(Activate(lastPair, TRUE, FALSE))

\* connect() failed on the endpoint shown.
ConnectFails ==
  /\ "connect" \in Disturbances /\ state.kind = "available"
  /\ Enqueue([op |-> "unreachable", port |-> state.port])

\* Android reports a service, any it ever saw, or a loss; a report sent before
\* the browsing stopped may still come in while the next one starts.
DiscoveryEvent ==
  /\ advert # NoAdvert \/ running # Idle
  /\ Cardinality(probes) < MaxProbes
  /\ \/ \E s \in Service : s.pair <= paired /\ Enqueue([op |-> "resolved", service |-> s])
     \/ "lost" \in Disturbances /\ \E n \in Name : Enqueue([op |-> "lost", name |-> n])
     \/ "error" \in Disturbances /\ Enqueue([op |-> "error"])

\* Android reports an error of the listening socket.
ListenerFails ==
  /\ "listener" \in Disturbances /\ listener # NoListener
  /\ listener' = NoListener /\ ListenerChanged

Call ==
  /\ HasRoom
  /\ \/ (Retry \/ ConnectFails \/ DiscoveryEvent) /\ UNCHANGED listener
     \/ ListenerFails
  /\ UNCHANGED <<state, active, lease, running, probes, advert, outside>>

PairingChanges ==
  /\ turns < MaxTurns /\ turns' = turns + 1
  /\ \/ trust = 0 /\ paired < MaxPairs /\ paired' = paired + 1 /\ trust' = paired'
     \/ "revoke" \in Disturbances /\ trust # 0 /\ trust' = 0 /\ UNCHANGED paired
  /\ UNCHANGED partner

PartnerChanges ==
  /\ "partner" \in Disturbances /\ partner' \in (Port \cup {NoPort}) \ {partner}
  /\ UNCHANGED <<turns, trust, paired>>

World ==
  /\ PairingChanges \/ PartnerChanges
  /\ UNCHANGED <<serviceVars, listener, lastPair, context, turn>>

Next == Handle \/ Answer \/ ProbeAnswers \/ LeaseFires \/ Lifecycle \/ Call \/ World

Spec == Init /\ [][Next]_vars

\* JavaScript runs its queues, promises and timers; Android answers each call.
FairSpec == /\ Spec
            /\ WF_vars(Handle) /\ WF_vars(Answer) /\ WF_vars(ProbeAnswers)
            /\ WF_vars(LeaseFires) /\ WF_vars(Lifecycle)
=============================================================================
