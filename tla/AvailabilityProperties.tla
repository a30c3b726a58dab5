----------------------- MODULE AvailabilityProperties -----------------------
(***************************************************************************)
(* What the availability of one phone promises, whatever discovery, the    *)
(* listener, the pairing and the network do meanwhile.                     *)
(***************************************************************************)
EXTENDS Availability

Ops ==
  [op : {"activate"}, pair : Pair, force : BOOLEAN, awaited : BOOLEAN]
    \cup [op : {"deactivate"}, awaited : {TRUE}]
    \cup [op : {"resolved"}, service : Service]
    \cup [op : {"lost"}, name : Name]
    \cup [op : {"error"}]
    \cup [op : {"proved"}, service : Service, current : BOOLEAN]
    \cup [op : {"lease"}, port : Port, current : BOOLEAN]
    \cup [op : {"unreachable"}, port : Port]

MaybePair == Pair \cup {0}
LocalHost == Host \cup {NoHost}

Snapshots == [kind : {"inactive", "starting", "offline", "unadvertised", "available"},
              pair : MaybePair, name : Name \cup {NoName}, port : Port \cup {NoPort}]
Browsings == [pair : MaybePair, secret : MaybePair,
              matched : Name \cup {NoName}, proven : Port \cup {NoPort}]
Activations == [step : {"idle", "load", "prepare", "listen", "start", "reprobe"},
                pair : MaybePair, awaited : BOOLEAN, secret : MaybePair, host : LocalHost,
                port : Port \cup LocalPort \cup {NoPort}]
Adverts == [secret : MaybePair, host : LocalHost, port : LocalPort \cup {NoPort}]
Listeners == [host : LocalHost, port : LocalPort \cup {NoPort}]
Turns == [step : {"none", "activatePair", "activate", "wait", "stopMedia", "deactivate", "waitStop"},
          pair : MaybePair]

\* The types of the service's and the phone's state.
TypeOK ==
  /\ state \in Snapshots /\ active \in Browsings /\ lastPair \in MaybePair
  /\ lease \in Port \cup {NoPort} /\ queue \in Seq(Ops) /\ running \in Activations
  /\ probes \subseteq [service : Service, current : BOOLEAN] /\ advert \in Adverts
  /\ listener \in Listeners /\ context \in MaybePair /\ turns \in 0..MaxTurns /\ turn \in Turns
  /\ trust \in MaybePair /\ paired \in 0..MaxPairs /\ partner \in Port \cup {NoPort}

\* The partner is shown as available exactly while the running advertisement
\* has matched a service and proved its endpoint, and it is that endpoint that
\* is shown; and a phone that advertises is shown as offline or available.
\* Eight handlers set the three fields, each on its own.
AvailableIsProven ==
  /\ state.kind = "available" <=> active.proven # NoPort
  /\ state.name = active.matched /\ state.port = active.proven
  /\ (state.kind \in {"offline", "available"}) <=> active # NoActive
  /\ active # NoActive <=> advert # NoAdvert
  /\ active # NoActive => state.pair = active.pair /\ advert.secret = active.secret

\* Of the probes in flight and the answers that wait, at most one can still
\* change what is shown: the answer for the service resolved last.  A second
\* one would let an older service overwrite a newer (the counters exist for it).
NewestAnswerCounts ==
  LET waiting == {i \in DOMAIN queue : queue[i].op = "proved" /\ queue[i].current}
      flying == {p \in probes : p.current}
  IN Cardinality(waiting) + Cardinality(flying) <= 1

LeaseIsDue(port) ==
  \/ lease = port
  \/ running.step = "reprobe" /\ running.port = port
  \/ \E i \in DOMAIN queue :
       queue[i].op = "lease" /\ queue[i].current /\ queue[i].port = port

\* What is shown is proved, and an endpoint shown as available will be probed
\* again: its lease timer is armed, or the probe of the lease is queued or
\* running.  A path that showed an endpoint without one would show a partner who
\* left for ever.
AvailableIsReal ==
  /\ TypeOK /\ AvailableIsProven
  /\ state.kind = "available" => LeaseIsDue(state.port)

\* The pair is about to be withdrawn or activated anew.
ChangePending ==
  \/ turns > 0 \/ turn # NoTurn
  \/ running # Idle /\ running.step # "reprobe"
  \/ \E i \in DOMAIN queue :
       queue[i].op = "deactivate" \/ (queue[i].op = "activate" /\ queue[i].force)

\* Once nothing is pending, what the phone advertises is proved with the secret
\* of the trust that is stored, names the control listener that really listens,
\* and is shown under that pair.  The listener may have failed, been replaced
\* for another Wi-Fi address or been dropped with the old trust at any moment.
SettledAdvertIsTrue ==
  ~ChangePending /\ advert # NoAdvert =>
    /\ advert.secret = trust /\ state.pair = trust
    /\ [host |-> advert.host, port |-> advert.port] = listener

\* An endpoint the partner stopped answering on does not stay shown: the lease
\* withdraws it, however resolutions, losses and retries interleave.
DeadEndpointIsWithdrawn ==
  \A port \in Port :
    []<>(~(state.kind = "available" /\ state.port = port) \/ partner = port)

\* A phone whose trust was removed stops advertising, whatever operation was
\* running and whatever re-activations the listener has queued.
RevokedIsWithdrawn == (trust = 0) ~> (advert = NoAdvert \/ trust # 0)

=============================================================================
