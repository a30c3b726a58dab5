--------------------------- MODULE PairingProofs ---------------------------
(***************************************************************************)
(* Proofs about the stored trust and about Pairing, for any set of phones, *)
(* any number of attempts, any disturbances and any storage faults.        *)
(***************************************************************************)
EXTENDS PairingProperties, TLAPS

-----------------------------------------------------------------------------
(***************************************************************************)
(* What the methods of PairTrustRepository can and cannot do to the stored *)
(* keys.                                                                   *)
(***************************************************************************)

\* s only lost material of t, or kept it.
Within(s, t) == s \in Store /\ Material(s) \subseteq Material(t) \cup {NoPair}

\* Removing pending keys, wholly or in part, adds no material.
LEMMA PartlyNoPendingWithin ==
  ASSUME NEW s \in Store, NEW t \in PartlyNoPending(s)
  PROVE  Within(t, s) /\ t.meta = s.meta /\ t.secret = s.secret /\ t.status = s.status
  BY DEF PartlyNoPending, NoPendingMeta, NoPendingSecret, NoPending, Store,
         PairOrNone, Within, Material

\* Removing durable keys, wholly or in part, adds no material.
LEMMA PartlyNoDurableWithin ==
  ASSUME NEW s \in Store, NEW t \in PartlyNoDurable(s)
  PROVE  Within(t, s)
  BY DEF PartlyNoDurable, NoMeta, NoSecret, NoDurable, Store, PairOrNone, Within, Material

\* Losing material in two steps.
LEMMA WithinTransitive ==
  ASSUME NEW s \in Store, NEW t \in Store, NEW u, Within(t, s), Within(u, t)
  PROVE  Within(u, s)
  BY DEF Within

\* abortPairAttempt and revoke, even when they fail or are interrupted.
LEMMA RemnantsWithin ==
  ASSUME NEW s \in Store, NEW t \in Remnants(s)
  PROVE  Within(t, s)
<1>1. PICK u \in PartlyNoPending(s) : t \in PartlyNoDurable(u)
  BY DEF Remnants
<1>2. Within(u, s)
  BY <1>1, PartlyNoPendingWithin
<1>3. Within(t, u)
  BY <1>1, <1>2, PartlyNoDurableWithin DEF Within
<1> QED
  BY <1>2, <1>3, WithinTransitive DEF Within

\* abortPairAttempt leaves only material that was there, and none if it succeeds.
THEOREM AbortRemoves ==
  ASSUME NEW s \in Store, NEW r \in AbortPairAttempt(s)
  PROVE  /\ r.ok \in BOOLEAN
         /\ Within(r.store, s)
         /\ r.ok => r.store = EmptyStore
<1>1. CASE r = Result(NoDurable(NoPending(s)), TRUE)
  BY <1>1 DEF Result, NoDurable, NoPending, NoMeta, NoSecret, NoPendingMeta,
              NoPendingSecret, Within, Material, Store, EmptyStore, PairOrNone
<1>2. ASSUME NEW t \in Remnants(s), r = Result(t, FALSE)
      PROVE  r.ok = FALSE /\ Within(r.store, s)
  BY <1>2, RemnantsWithin DEF Result
<1> QED
  BY <1>1, <1>2 DEF AbortPairAttempt, IfFaulty, Result

\* What stage writes, step by step, is the staged pair on top of what was there.
LEMMA StageWritesType ==
  ASSUME NEW s \in Store, NEW a \in PairOrNone, NEW w \in StageWrites(s, a)
  PROVE  /\ w \in Store
         /\ Material(w) \subseteq Material(s) \cup {a, NoPair}
         /\ w.meta = s.meta /\ w.secret = s.secret /\ w.status = s.status
  BY DEF StageWrites, Store, Material, PairOrNone

\* stage adds the staged pair and nothing else, and refuses a phone that holds
\* durable material.
THEOREM StageAddsOnlyItsPair ==
  ASSUME NEW s \in Store, NEW a \in PairOrNone, NEW r \in Stage(s, a)
  PROVE  /\ r.ok \in BOOLEAN
         /\ r.store \in Store
         /\ Material(r.store) \subseteq Material(s) \cup {a, NoPair}
         /\ r.ok => ~HasDurableMaterial(s) /\ r.store = Staged(s, a)
<1>1. CASE r = Result(s, FALSE)
  BY <1>1 DEF Result, Material
<1>2. CASE r = Result(Staged(s, a), TRUE) /\ ~HasDurableMaterial(s)
  BY <1>2 DEF Result, Staged, Material, Store, PairOrNone
<1>3. ASSUME NEW w \in StageWrites(s, a), NEW t \in PartlyNoPending(w), r = Result(t, FALSE)
      PROVE  /\ r.ok = FALSE
             /\ r.store \in Store
             /\ Material(r.store) \subseteq Material(s) \cup {a, NoPair}
  <2>1. w \in Store /\ Material(w) \subseteq Material(s) \cup {a, NoPair}
    BY StageWritesType
  <2>2. Within(t, w)
    BY <2>1, PartlyNoPendingWithin
  <2> QED
    BY <1>3, <2>1, <2>2 DEF Result, Within
<1> QED
  BY <1>1, <1>2, <1>3 DEF Stage, IfFaulty, Result

\* What installCommitted writes, step by step, is material the phone had pending.
LEMMA InstallWritesWithin ==
  ASSUME NEW s \in Store, NEW w \in InstallWrites(s)
  PROVE  Within(w, s)
<1>1. Within(s, s)
  BY DEF Within
<1>2. Within(Committed(s), s)
  BY DEF Within, Committed, Store, Material, PairOrNone
<1>3. CASE w = [s EXCEPT !.secret = s.pendingSecret]
  BY <1>3 DEF Within, Store, Material, PairOrNone
<1>4. CASE w \in PartlyNoPending(Committed(s))
  <2>1. Within(w, Committed(s))
    BY <1>4, <1>2, PartlyNoPendingWithin DEF Within
  <2> QED
    BY <2>1, <1>2, WithinTransitive DEF Within
<1> QED
  BY <1>1, <1>3, <1>4 DEF InstallWrites

\* installCommitted only moves material.
THEOREM InstallMovesMaterial ==
  ASSUME NEW s \in Store, NEW r \in InstallCommitted(s)
  PROVE  /\ r.ok \in BOOLEAN
         /\ Within(r.store, s)
         /\ r.ok => r.store = NoPending(Committed(s)) /\ HasPending(s)
<1>1. ASSUME NEW q \in DiscardPending(s)
      PROVE  Within(q.store, s)
  <2>1. NoPending(s) \in PartlyNoPending(s)
    BY DEF PartlyNoPending
  <2> QED
    BY <2>1, PartlyNoPendingWithin DEF DiscardPending, IfFaulty, Result
<1>2. Within(s, s)
  BY DEF Within
<1>3. ASSUME NEW w \in InstallWrites(s), NEW u \in PartlyNoDurable(w), NEW t \in PartlyNoPending(u)
      PROVE  Within(t, s)
  <2>1. Within(w, s)
    BY InstallWritesWithin
  <2>2. Within(u, w)
    BY <2>1, PartlyNoDurableWithin DEF Within
  <2>3. Within(t, u)
    BY <2>2, PartlyNoPendingWithin DEF Within
  <2> QED
    BY <2>1, <2>2, <2>3, WithinTransitive DEF Within
<1>4. Within(NoPending(Committed(s)), s)
  <2>1. NoPending(Committed(s)) \in PartlyNoPending(Committed(s))
    BY DEF PartlyNoPending
  <2> QED
    BY <2>1, InstallWritesWithin DEF InstallWrites
<1>5. CASE ~HasPending(s)
  <2>1. \/ \E q \in DiscardPending(s) : r = Result(q.store, FALSE)
        \/ r = Result(s, FALSE)
    BY <1>5 DEF InstallCommitted, IfFaulty
  <2>2. r.ok = FALSE /\ Within(r.store, s)
    BY <2>1, <1>1, <1>2 DEF Result
  <2> QED
    BY <2>2
<1>6. CASE HasPending(s)
  <2>1. CASE r = Result(NoPending(Committed(s)), TRUE)
    BY <2>1, <1>4, <1>6 DEF Result
  <2>2. ASSUME NEW w \in InstallWrites(s), NEW u \in PartlyNoDurable(w),
               NEW t \in PartlyNoPending(u), r = Result(t, FALSE)
        PROVE  r.ok = FALSE /\ Within(r.store, s)
    BY <2>2, <1>3 DEF Result
  <2> QED
    BY <1>6, <2>1, <2>2 DEF InstallCommitted, IfFaulty, Result
<1> QED
  BY <1>5, <1>6

\* markConfirmed changes no key but the status of a complete committed pair.
THEOREM MarkConfirmedKeepsMaterial ==
  ASSUME NEW s \in Store, NEW r \in MarkConfirmed(s)
  PROVE  /\ r.ok \in BOOLEAN
         /\ Within(r.store, s)
         /\ r.ok => r.store = Confirmed(s) /\ s.meta # NoPair /\ s.secret # NoPair
<1>1. Within(s, s) /\ Within(Confirmed(s), s)
  BY DEF Within, Confirmed, Store, Material, PairOrNone
<1>2. CASE s.meta # NoPair /\ s.secret # NoPair /\ s.status = "committed"
  <2>1. \/ r = Result(Confirmed(s), TRUE)
        \/ r = Result(s, FALSE)
        \/ r = Result(Confirmed(s), FALSE)
    BY <1>2 DEF MarkConfirmed, IfFaulty
  <2>2. CASE r = Result(Confirmed(s), TRUE)
    BY <2>2, <1>1, <1>2 DEF Result
  <2>3. CASE r = Result(s, FALSE) \/ r = Result(Confirmed(s), FALSE)
    <3>1. r.ok = FALSE /\ Within(r.store, s)
      BY <2>3, <1>1 DEF Result
    <3> QED
      BY <3>1
  <2> QED
    BY <2>1, <2>2, <2>3
<1>3. CASE ~(s.meta # NoPair /\ s.secret # NoPair /\ s.status = "committed")
  <2>1. r.ok = FALSE /\ Within(r.store, s)
    BY <1>1, <1>3 DEF MarkConfirmed, Result
  <2> QED
    BY <2>1
<1> QED
  BY <1>2, <1>3

\* discardIncomplete, at start-up or reset, only removes.
THEOREM DiscardIncompleteRemoves ==
  ASSUME NEW s \in Store, NEW r \in DiscardIncomplete(s)
  PROVE  r.ok \in BOOLEAN /\ Within(r.store, s)
<1>1. ASSUME NEW q \in DiscardPending(s)
      PROVE  Within(q.store, s) /\ q.ok \in BOOLEAN
  <2>1. NoPending(s) \in PartlyNoPending(s)
    BY DEF PartlyNoPending
  <2>2. \E t \in PartlyNoPending(s), b \in BOOLEAN : q = Result(t, b)
    BY <2>1 DEF DiscardPending, IfFaulty
  <2> QED
    BY <2>2, PartlyNoPendingWithin DEF Result
<1>2. ASSUME NEW t \in Store, NEW q \in SettleDurable(t)
      PROVE  Within(q.store, t) /\ q.ok \in BOOLEAN
  <2>1. NoDurable(t) \in PartlyNoDurable(t) /\ t \in PartlyNoDurable(t)
    BY DEF PartlyNoDurable
  <2>2. \E u \in PartlyNoDurable(t), b \in BOOLEAN : q = Result(u, b)
    BY <2>1 DEF SettleDurable, DeleteDurable, IfFaulty
  <2> QED
    BY <2>2, PartlyNoDurableWithin DEF Result
<1>3. PICK q \in DiscardPending(s) :
        r \in IF q.ok THEN SettleDurable(q.store) \cup IfFaulty({Result(q.store, FALSE)})
                      ELSE {q}
  BY DEF DiscardIncomplete
<1>4. q.store \in Store /\ Within(q.store, s)
  BY <1>1 DEF Within
<1>5. CASE r = q
  BY <1>5, <1>1
<1>6. CASE r \in SettleDurable(q.store)
  <2>1. Within(r.store, q.store) /\ r.ok \in BOOLEAN
    BY <1>6, <1>4, <1>2
  <2> QED
    BY <2>1, <1>4, WithinTransitive DEF Within
<1>7. CASE r = Result(q.store, FALSE)
  BY <1>7, <1>4 DEF Result
<1> QED
  BY <1>3, <1>5, <1>6, <1>7 DEF IfFaulty

\* discardIncomplete never costs a phone its confirmed pair, faults or not.
THEOREM DiscardIncompleteKeepsConfirmed ==
  ASSUME NEW s \in Store, LoadResult(s) = "confirmed", NEW r \in DiscardIncomplete(s)
  PROVE  LoadResult(r.store) = "confirmed" /\ r.store.meta = s.meta /\ r.store.secret = s.secret
<1> DEFINE Same(t) == t \in Store /\ t.meta = s.meta /\ t.secret = s.secret /\ t.status = s.status
<1>1. ASSUME NEW q \in DiscardPending(s)
      PROVE  Same(q.store)
  <2>1. NoPending(s) \in PartlyNoPending(s)
    BY DEF PartlyNoPending
  <2>2. \E t \in PartlyNoPending(s), b \in BOOLEAN : q = Result(t, b)
    BY <2>1 DEF DiscardPending, IfFaulty
  <2> QED
    BY <2>2, PartlyNoPendingWithin DEF Result, Within
<1>2. s.meta # NoPair /\ s.secret # NoPair /\ s.status = "confirmed"
  BY DEF LoadResult, HasDurableMaterial
<1>3. ASSUME NEW t, Same(t), NEW q \in SettleDurable(t)
      PROVE  Same(q.store)
  BY <1>2, <1>3 DEF SettleDurable, Result
<1>4. PICK q \in DiscardPending(s) :
        r \in IF q.ok THEN SettleDurable(q.store) \cup IfFaulty({Result(q.store, FALSE)})
                      ELSE {q}
  BY DEF DiscardIncomplete
<1>5. Same(q.store)
  BY <1>1
<1>6. \/ r = q
      \/ r \in SettleDurable(q.store)
      \/ r = Result(q.store, FALSE)
  BY <1>4 DEF IfFaulty
<1>7. Same(r.store)
  BY <1>3, <1>5, <1>6 DEF Result
<1> QED
  BY <1>2, <1>7 DEF LoadResult, HasDurableMaterial

-----------------------------------------------------------------------------
(***************************************************************************)
(* Pairing: types, and consent.                                            *)
(***************************************************************************)


NetworkOK ==
  /\ attempt \in [Phone -> Attempt]
  /\ owner \in [Pair -> Phone \cup {NoPhone}]
  /\ joiner \in [Pair -> Phone \cup {NoPhone}]
  /\ listener \in [Pair -> {"none", "open", "taken", "failed", "closed"}]
  /\ sock \in [Phone -> PairOrNone]
  /\ up \subseteq Pair
  /\ inbox \in [Phone -> Seq(Message)]

TrustOK == store \in [Phone -> Store] /\ ui \in [Phone -> UiKind]

HistoryOK ==
  /\ agreed \in [Pair -> SUBSET Phone]
  /\ pledged \in [Pair -> SUBSET Phone]
  /\ cancelled \subseteq Pair

\* TypeOK in the three parts the steps touch separately.
LEMMA TypeOKParts == TypeOK <=> NetworkOK /\ TrustOK /\ HistoryOK
  BY DEF TypeOK, NetworkOK, TrustOK, HistoryOK

\* A phone without an attempt is well-formed.
LEMMA NoAttemptType == NoAttempt \in Attempt
  BY DEF NoAttempt, Attempt, PairOrNone, Phase

\* One-frame messages are sequences of messages.
LEMMA FramesType ==
  /\ <<>> \in Seq(Message)
  /\ \A m \in Message : <<m>> \in Seq(Message)
  /\ \A m, n \in Message : <<m, n>> \in Seq(Message)
  OBVIOUS

\* Delivering frames keeps every inbox a sequence of messages.
LEMMA DeliveredType ==
  ASSUME inbox \in [Phone -> Seq(Message)], NEW p \in Phone, NEW a,
         NEW rest \in Seq(Message), NEW out \in Seq(Message)
  PROVE  Delivered(a, p, rest, out) \in [Phone -> Seq(Message)]
<1>1. \A q \in Phone : inbox[q] \o out \in Seq(Message)
  OBVIOUS
<1> QED
  BY <1>1 DEF Delivered

\* cleanupAttempt keeps the network well-formed.
LEMMA ReleaseType ==
  ASSUME NetworkOK, NEW p \in Phone, NEW out \in Seq(Message), Release(p, out)
  PROVE  NetworkOK'
<1>1. Delivered(attempt[p].id, p, <<>>, out) \in [Phone -> Seq(Message)]
  BY DeliveredType, FramesType DEF NetworkOK
<1>2. attempt[p] \in Attempt /\ attempt[p].linked \in BOOLEAN
  BY DEF NetworkOK, Attempt
<1>3. attempt' \in [Phone -> Attempt]
  BY NoAttemptType DEF NetworkOK, Release
<1>4. listener' \in [Pair -> {"none", "open", "taken", "failed", "closed"}]
  BY DEF NetworkOK, Release
<1>5. sock' \in [Phone -> PairOrNone] /\ up' \subseteq Pair
  BY <1>2 DEF NetworkOK, Release, PairOrNone
<1>6. inbox' \in [Phone -> Seq(Message)]
  BY <1>1, <1>2 DEF NetworkOK, Release
<1> QED
  BY <1>3, <1>4, <1>5, <1>6 DEF NetworkOK, Release

\* failAttempt keeps network and trust well-formed.
LEMMA FailAttemptType ==
  ASSUME NetworkOK, TrustOK, NEW p \in Phone, NEW s \in Store, NEW conv \in BOOLEAN,
         NEW notify \in BOOLEAN, FailAttempt(p, s, conv, notify)
  PROVE  NetworkOK' /\ TrustOK'
<1>1. PICK loaded \in LoadConfirmed(s) :
        IF conv /\ loaded = "confirmed"
        THEN Complete(p, s, <<>>)
        ELSE \E r \in AbortPairAttempt(s) :
               /\ SetTrust(p, r.store, "error")
               /\ Release(p, IF notify THEN <<"PAIR_ERROR">> ELSE <<>>)
  BY DEF FailAttempt
<1>2. <<>> \in Seq(Message) /\ <<"PAIR_ERROR">> \in Seq(Message)
  BY FramesType DEF Message
<1>3. CASE conv /\ loaded = "confirmed"
  BY <1>1, <1>2, <1>3, ReleaseType DEF Complete, SetTrust, TrustOK, UiKind
<1>4. CASE ~(conv /\ loaded = "confirmed")
  <2>1. PICK r \in AbortPairAttempt(s) :
          /\ SetTrust(p, r.store, "error")
          /\ Release(p, IF notify THEN <<"PAIR_ERROR">> ELSE <<>>)
    BY <1>1, <1>4
  <2>2. r.store \in Store
    BY AbortRemoves DEF Within
  <2>3. NetworkOK'
    BY <2>1, <1>2, ReleaseType
  <2> QED
    BY <2>1, <2>2, <2>3 DEF SetTrust, TrustOK, UiKind
<1> QED
  BY <1>3, <1>4

\* An operation that goes on, or fails to send, keeps every variable well-formed.
LEMMA ProceedType ==
  ASSUME NetworkOK, TrustOK, NEW p \in Phone, NEW rest \in Seq(Message),
         NEW at \in Attempt, NEW s \in Store, NEW kind \in UiKind,
         NEW out \in Seq(Message), Proceed(p, rest, at, s, kind, out)
  PROVE  NetworkOK' /\ TrustOK'
<1>1. Delivered(at.id, p, rest, out) \in [Phone -> Seq(Message)]
  BY DeliveredType DEF NetworkOK
<1>2. at.converged \in BOOLEAN
  BY DEF Attempt
<1>3. CASE FailAttempt(p, s, at.converged, TRUE)
  BY <1>2, <1>3, FailAttemptType
<1>4. CASE /\ attempt' = [attempt EXCEPT ![p] = at]
           /\ SetTrust(p, s, kind)
           /\ inbox' = Delivered(at.id, p, rest, out)
           /\ UNCHANGED <<owner, joiner, listener, sock, up>>
  BY <1>1, <1>4 DEF SetTrust, NetworkOK, TrustOK
<1> QED
  BY <1>3, <1>4 DEF Proceed

\* The same for an operation that stores first.
LEMMA WithStoredType ==
  ASSUME NetworkOK, TrustOK, NEW p \in Phone, NEW results,
         \A r \in results : r.store \in Store,
         NEW rest \in Seq(Message), NEW at \in Attempt, NEW kind \in UiKind,
         NEW out \in Seq(Message), WithStored(p, results, rest, at, kind, out)
  PROVE  NetworkOK' /\ TrustOK'
<1>1. PICK r \in results : IF r.ok THEN Proceed(p, rest, at, r.store, kind, out)
                           ELSE FailAttempt(p, r.store, at.converged, TRUE)
  BY DEF WithStored
<1>2. r.store \in Store /\ at.converged \in BOOLEAN
  BY DEF Attempt
<1> QED
  BY <1>1, <1>2, ProceedType, FailAttemptType

-----------------------------------------------------------------------------
\* A user that confirms keeps the history well-formed.
LEMMA AgreedType ==
  ASSUME HistoryOK, NEW p \in Phone, NEW a,
         agreed' = [agreed EXCEPT ![a] = @ \cup {p}], UNCHANGED <<pledged, cancelled>>
  PROVE  HistoryOK'
  BY DEF HistoryOK

\* User operations keep every variable in its domain.
LEMMA UserStepType ==
  ASSUME NetworkOK, TrustOK, HistoryOK, NEW p \in Phone, UserStep(p)
  PROVE  NetworkOK' /\ TrustOK' /\ HistoryOK'
<1>0. /\ attempt[p] \in Attempt
      /\ store[p] \in Store
      /\ inbox[p] \in Seq(Message)
  BY DEF NetworkOK, TrustOK
<1>m. /\ <<>> \in Seq(Message)
      /\ <<"PAIR_CONFIRM">> \in Seq(Message)
      /\ <<"PAIR_CANCEL">> \in Seq(Message)
      /\ <<"PAIR_CONFIRM", "PAIR_COMMIT">> \in Seq(Message)
  BY FramesType DEF Message
<1>1. ASSUME NEW a \in Pair, CreateQr(p, a) PROVE NetworkOK' /\ TrustOK' /\ HistoryOK'
  <2>1. NewAttempt(a, "creator", FALSE) \in Attempt
    BY DEF NewAttempt, Attempt, Phase, PairOrNone
  <2> QED
    BY <1>1, <2>1 DEF CreateQr, NetworkOK, TrustOK, HistoryOK, history, UiKind
<1>2. ASSUME NEW a \in Pair, ScanConnect(p, a) PROVE NetworkOK' /\ TrustOK' /\ HistoryOK'
  <2>1. NewAttempt(a, "scanner", TRUE) \in Attempt
    BY DEF NewAttempt, Attempt, Phase, PairOrNone
  <2>2. <<"connected", "PAIR_HELLO">> \in Seq(Message)
    BY FramesType DEF Message
  <2>3. TrustOK' /\ HistoryOK'
    BY <1>2 DEF ScanConnect, TrustOK, HistoryOK, history, UiKind
  <2>4. CASE sock[owner[a]] = NoPair
    <3>1. owner[a] \in Phone
      BY <1>2 DEF ScanConnect
    <3>2. inbox' \in [Phone -> Seq(Message)]
      BY <1>2, <2>2, <2>4 DEF ScanConnect, NetworkOK
    <3>3. sock' \in [Phone -> PairOrNone]
      BY <1>2, <2>4 DEF ScanConnect, NetworkOK, PairOrNone
    <3>4. attempt' \in [Phone -> Attempt]
      BY <1>2, <2>1 DEF ScanConnect, NetworkOK
    <3>5. /\ owner' \in [Pair -> Phone \cup {NoPhone}]
          /\ joiner' \in [Pair -> Phone \cup {NoPhone}]
          /\ listener' \in [Pair -> {"none", "open", "taken", "failed", "closed"}]
          /\ up' \subseteq Pair
      BY <1>2, <2>4 DEF ScanConnect, NetworkOK
    <3>6. NetworkOK'
      BY <3>2, <3>3, <3>4, <3>5 DEF NetworkOK
    <3> QED
      BY <2>3, <3>6
  <2>5. CASE sock[owner[a]] # NoPair
    BY <1>2, <2>1, <2>3, <2>5 DEF ScanConnect, NetworkOK, PairOrNone
  <2> QED
    BY <2>4, <2>5
<1>3. ASSUME NEW a \in Pair, ScanUnreachable(p, a) PROVE NetworkOK' /\ TrustOK' /\ HistoryOK'
  <2>1. PICK r \in AbortPairAttempt(store[p]) : SetTrust(p, r.store, "error")
    BY <1>3 DEF ScanUnreachable
  <2>2. r.store \in Store
    BY <1>0, AbortRemoves DEF Within
  <2> QED
    BY <1>3, <2>1, <2>2 DEF ScanUnreachable, SetTrust, NetworkOK, TrustOK, HistoryOK,
                            network, history, UiKind
<1>4. CASE StartRefused(p)
  BY <1>4 DEF StartRefused, NetworkOK, TrustOK, HistoryOK, network, history, UiKind
<1>5. CASE ScannerConfirms(p)
  <2>1. PICK ph \in Phase :
          Proceed(p, inbox[p], [attempt[p] EXCEPT !.phase = ph], store[p],
                  "waiting_partner", <<"PAIR_CONFIRM">>)
    BY <1>5 DEF ScannerConfirms
  <2>2. [attempt[p] EXCEPT !.phase = ph] \in Attempt /\ "waiting_partner" \in UiKind
    BY <1>0 DEF Attempt, UiKind
  <2>3. NetworkOK' /\ TrustOK'
    BY <2>1, <2>2, <1>0, <1>m, ProceedType
  <2> QED
    BY <1>5, <2>3, AgreedType DEF ScannerConfirms
<1>6. CASE CreatorConfirms(p)
  <2>1. PICK ph \in Phase :
          WithStored(p, Stage(store[p], attempt[p].id), inbox[p],
                     [attempt[p] EXCEPT !.phase = ph], "finalizing",
                     <<"PAIR_CONFIRM", "PAIR_COMMIT">>)
    BY <1>6 DEF CreatorConfirms
  <2>2. [attempt[p] EXCEPT !.phase = ph] \in Attempt /\ "finalizing" \in UiKind
    BY <1>0 DEF Attempt, UiKind
  <2>3. \A r \in Stage(store[p], attempt[p].id) : r.store \in Store
    BY <1>0, StageAddsOnlyItsPair DEF Attempt
  <2>4. NetworkOK' /\ TrustOK'
    BY <2>1, <2>2, <2>3, <1>0, <1>m, WithStoredType
  <2> QED
    BY <1>6, <2>4, AgreedType DEF CreatorConfirms
<1>7. CASE ConfirmOutOfTurn(p)
  <2>1. attempt[p].converged \in BOOLEAN
    BY <1>0 DEF Attempt
  <2> QED
    BY <1>7, <1>0, <2>1, FailAttemptType DEF ConfirmOutOfTurn, HistoryOK, history
<1>8. CASE Cancel(p)
  <2>1. PICK r \in AbortPairAttempt(store[p]) :
          SetTrust(p, r.store, IF r.ok THEN "unpaired" ELSE "error")
    BY <1>8 DEF Cancel, AbandonAttempt
  <2>2. r.store \in Store
    BY <1>0, AbortRemoves DEF Within
  <2>3. NetworkOK'
    BY <1>8, <1>m, ReleaseType DEF Cancel, AbandonAttempt
  <2>4. attempt[p].id \in Pair
    BY <1>8, <1>0 DEF Cancel, Active, Attempt, PairOrNone
  <2> QED
    BY <1>8, <2>1, <2>2, <2>3, <2>4 DEF Cancel, SetTrust, TrustOK, HistoryOK, UiKind
<1>9. CASE Revoke(p)
  <2>1. PICK r \in AbortPairAttempt(store[p]) :
          SetTrust(p, r.store, IF r.ok THEN "unpaired" ELSE "error")
    BY <1>9 DEF Revoke, RevokePair
  <2>2. r.store \in Store
    BY <1>0, AbortRemoves DEF Within
  <2> QED
    BY <1>9, <2>1, <2>2 DEF Revoke, SetTrust, NetworkOK, TrustOK, HistoryOK, network,
                            history, UiKind
<1>10. CASE ResetError(p)
  <2>1. PICK r \in DiscardIncomplete(store[p]), kind \in UiKind : SetTrust(p, r.store, kind)
    BY <1>10 DEF ResetError, Revalidate, UiKind
  <2>2. r.store \in Store
    BY <1>0, DiscardIncompleteRemoves DEF Within
  <2> QED
    BY <1>10, <2>1, <2>2 DEF ResetError, SetTrust, NetworkOK, TrustOK, HistoryOK, network, history
<1> QED
  BY <1>1, <1>2, <1>3, <1>4, <1>5, <1>6, <1>7, <1>8, <1>9, <1>10 DEF UserStep

-----------------------------------------------------------------------------
\* A handled socket event leaves a typed inbox behind.
LEMMA RestType ==
  ASSUME NetworkOK, NEW p \in Phone, inbox[p] # <<>>
  PROVE  Rest(p) \in Seq(Message)
  BY DEF NetworkOK, Rest

\* Answering a frame keeps every variable in its domain.
LEMMA AnswerType ==
  ASSUME NetworkOK, TrustOK, HistoryOK, NEW p \in Phone, NEW m, NEW at \in Attempt,
         NEW kind \in UiKind, NEW out \in Seq(Message), Answer(p, m, at, kind, out)
  PROVE  NetworkOK' /\ TrustOK' /\ HistoryOK'
<1>1. Rest(p) \in Seq(Message)
  BY RestType DEF Answer, Arrives
<1>2. store[p] \in Store
  BY DEF TrustOK
<1>3. NetworkOK' /\ TrustOK'
  BY <1>1, <1>2, ProceedType DEF Answer
<1>4. HistoryOK'
  BY DEF Answer, HistoryOK, history
<1> QED
  BY <1>3, <1>4

\* Storing and acknowledging keeps network and trust well-formed.
LEMMA StoreAndAckType ==
  ASSUME NetworkOK, TrustOK, NEW p \in Phone, inbox[p] # <<>>, NEW results,
         \A r \in results : r.store \in Store, NEW at \in Attempt, NEW ack \in Message,
         StoreAndAck(p, results, at, ack)
  PROVE  NetworkOK' /\ TrustOK'
<1>1. Rest(p) \in Seq(Message) /\ <<ack>> \in Seq(Message)
  BY RestType, FramesType
<1>2. "finalizing" \in UiKind
  BY DEF UiKind
<1> QED
  BY <1>1, <1>2, WithStoredType DEF StoreAndAck

\* A phase the state machine enters is a phase.
LEMMA ReceiveIdentityType ==
  ASSUME NetworkOK, TrustOK, HistoryOK, NEW p \in Phone, ReceiveIdentity(p)
  PROVE  NetworkOK' /\ TrustOK' /\ HistoryOK'
<1>1. PICK ph \in Phase :
        IF attempt[p].role = "scanner"
        THEN Answer(p, "PAIR_IDENTITY", [attempt[p] EXCEPT !.phase = ph],
                    "confirm_partner", <<"PAIR_IDENTITY">>)
        ELSE Answer(p, "PAIR_IDENTITY", [attempt[p] EXCEPT !.phase = ph],
                    "waiting_partner", <<>>)
  BY DEF ReceiveIdentity
<1>2. [attempt[p] EXCEPT !.phase = ph] \in Attempt
  BY DEF NetworkOK, Attempt
<1>3. <<"PAIR_IDENTITY">> \in Seq(Message) /\ <<>> \in Seq(Message)
  BY FramesType DEF Message
<1>4. "confirm_partner" \in UiKind /\ "waiting_partner" \in UiKind
  BY DEF UiKind
<1> QED
  BY <1>1, <1>2, <1>3, <1>4, AnswerType

\* The partner's confirmation keeps every variable in its domain.
LEMMA ReceiveConfirmType ==
  ASSUME NetworkOK, TrustOK, HistoryOK, NEW p \in Phone, ReceiveConfirm(p)
  PROVE  NetworkOK' /\ TrustOK' /\ HistoryOK'
<1> DEFINE kind == IF attempt[p].role = "creator" THEN "confirm_partner" ELSE "finalizing"
<1>1. PICK ph \in Phase :
        Answer(p, "PAIR_CONFIRM", [attempt[p] EXCEPT !.phase = ph], kind, <<>>)
  BY DEF ReceiveConfirm
<1>2. [attempt[p] EXCEPT !.phase = ph] \in Attempt
  BY DEF NetworkOK, Attempt
<1>3. <<>> \in Seq(Message)
  BY FramesType
<1>4. kind \in UiKind
  BY DEF UiKind
<1> QED
  BY <1>1, <1>2, <1>3, <1>4, AnswerType

\* Installing the pair keeps every variable in its domain.
LEMMA InstallOnType ==
  ASSUME NetworkOK, TrustOK, HistoryOK, NEW p \in Phone, NEW r, NEW m,
         NEW ack \in Message, InstallOn(p, r, m, ack)
  PROVE  NetworkOK' /\ TrustOK' /\ HistoryOK'
<1>1. PICK res \in InstallCommitted(store[p]) :
        /\ StoreAndAck(p, {res}, attempt[p], ack)
        /\ pledged' = IF res.ok THEN [pledged EXCEPT ![attempt[p].id] = @ \cup {p}]
                      ELSE pledged
  BY DEF InstallOn
<1>2. res.store \in Store
  BY InstallMovesMaterial DEF TrustOK, Within
<1>3. inbox[p] # <<>> /\ attempt[p] \in Attempt
  BY DEF InstallOn, Finalizing, Arrives, NetworkOK
<1>4. NetworkOK' /\ TrustOK'
  BY <1>1, <1>2, <1>3, StoreAndAckType
<1>5. HistoryOK'
  BY <1>1 DEF InstallOn, HistoryOK
<1> QED
  BY <1>4, <1>5

\* Handlers that run one storage method and acknowledge it.
LEMMA AckStepType ==
  ASSUME NetworkOK, TrustOK, HistoryOK, NEW p \in Phone,
         \/ ReceiveCommit(p) \/ ReceiveCreatorCommitted(p)
  PROVE  NetworkOK' /\ TrustOK' /\ HistoryOK'
<1>0. store[p] \in Store /\ attempt[p] \in Attempt /\ attempt[p].id \in PairOrNone
  BY DEF NetworkOK, TrustOK, Attempt
<1>1. CASE ReceiveCommit(p)
  <2>1. \A r \in Stage(store[p], attempt[p].id) : r.store \in Store
    BY <1>0, StageAddsOnlyItsPair
  <2>2. "scanner_staged" \in Message
    BY DEF Message
  <2>3. NetworkOK' /\ TrustOK'
    BY <1>0, <1>1, <2>1, <2>2, StoreAndAckType DEF ReceiveCommit, Finalizing, Arrives
  <2> QED
    BY <1>1, <2>3 DEF ReceiveCommit, HistoryOK, history
<1>2. CASE ReceiveCreatorCommitted(p)
  <2>1. \A r \in MarkConfirmed(store[p]) : r.store \in Store
    BY <1>0, MarkConfirmedKeepsMaterial DEF Within
  <2>2. "scanner_confirmed" \in Message
    BY DEF Message
  <2>3. NetworkOK' /\ TrustOK'
    BY <1>0, <1>2, <2>1, <2>2, StoreAndAckType
       DEF ReceiveCreatorCommitted, Finalizing, Arrives
  <2> QED
    BY <1>2, <2>3 DEF ReceiveCreatorCommitted, HistoryOK, history
<1> QED
  BY <1>1, <1>2

\* The two steps after the trust of a phone became durable, and the last one.
LEMMA FinishStepType ==
  ASSUME NetworkOK, TrustOK, HistoryOK, NEW p \in Phone,
         \/ ReceiveScannerConfirmed(p) \/ ReceiveCreatorConfirmed(p) \/ ReceiveConverged(p)
  PROVE  NetworkOK' /\ TrustOK' /\ HistoryOK'
<1>0. /\ store[p] \in Store
      /\ attempt[p] \in Attempt
      /\ attempt[p].converged \in BOOLEAN
  BY DEF NetworkOK, TrustOK, Attempt
<1>m. /\ <<>> \in Seq(Message)
      /\ <<"creator_confirmed">> \in Seq(Message)
      /\ <<"converged">> \in Seq(Message)
      /\ "finalizing" \in UiKind
  BY FramesType DEF Message, UiKind
<1>h. HistoryOK'
  BY DEF ReceiveScannerConfirmed, ReceiveCreatorConfirmed, ReceiveConverged, HistoryOK, history
<1>c. ASSUME NEW out \in Seq(Message), Complete(p, store[p], out)
      PROVE  NetworkOK' /\ TrustOK'
  <2>1. NetworkOK'
    BY <1>c, ReleaseType DEF Complete
  <2> QED
    BY <1>0, <1>c, <2>1 DEF Complete, SetTrust, TrustOK, UiKind
<1>1. CASE ReceiveScannerConfirmed(p)
  <2>1. PICK r \in MarkConfirmed(store[p]) :
          IF r.ok
          THEN Proceed(p, Rest(p), [attempt[p] EXCEPT !.converged = TRUE], r.store,
                       "finalizing", <<"creator_confirmed">>)
          ELSE FailAttempt(p, r.store, attempt[p].converged, TRUE)
    BY <1>1 DEF ReceiveScannerConfirmed
  <2>2. r.store \in Store
    BY <1>0, MarkConfirmedKeepsMaterial DEF Within
  <2>3. Rest(p) \in Seq(Message)
    BY <1>1, RestType DEF ReceiveScannerConfirmed, Finalizing, Arrives
  <2>4. [attempt[p] EXCEPT !.converged = TRUE] \in Attempt
    BY <1>0 DEF Attempt
  <2>5. NetworkOK' /\ TrustOK'
    BY <1>0, <1>m, <2>1, <2>2, <2>3, <2>4, ProceedType, FailAttemptType
  <2> QED
    BY <2>5, <1>h
<1>2. CASE ReceiveCreatorConfirmed(p)
  <2>1. \/ FailAttempt(p, store[p], FALSE, TRUE)
        \/ FailAttempt(p, store[p], TRUE, TRUE)
        \/ Complete(p, store[p], <<"converged">>)
    BY <1>2 DEF ReceiveCreatorConfirmed
  <2>2. NetworkOK' /\ TrustOK'
    BY <1>0, <1>m, <1>c, <2>1, FailAttemptType
  <2> QED
    BY <2>2, <1>h
<1>3. CASE ReceiveConverged(p)
  <2>1. \/ FailAttempt(p, store[p], attempt[p].converged, TRUE)
        \/ Complete(p, store[p], <<>>)
    BY <1>3 DEF ReceiveConverged
  <2>2. NetworkOK' /\ TrustOK'
    BY <1>0, <1>m, <1>c, <2>1, FailAttemptType
  <2> QED
    BY <2>2, <1>h
<1> QED
  BY <1>1, <1>2, <1>3

\* Service steps keep every variable in its domain.
LEMMA ServiceStepType ==
  ASSUME NetworkOK, TrustOK, HistoryOK, NEW p \in Phone, ServiceStep(p)
  PROVE  NetworkOK' /\ TrustOK' /\ HistoryOK'
<1>0. /\ store[p] \in Store
      /\ attempt[p] \in Attempt
      /\ attempt[p].converged \in BOOLEAN
      /\ ui[p] \in UiKind
  BY DEF NetworkOK, TrustOK, Attempt
<1>m. /\ <<>> \in Seq(Message)
      /\ <<"PAIR_IDENTITY">> \in Seq(Message)
      /\ <<"creator_ready">> \in Seq(Message)
      /\ "scanner_committed" \in Message
      /\ "creator_committed" \in Message
  BY FramesType DEF Message
<1>1. CASE Initialize(p)
  <2>1. PICK r \in DiscardIncomplete(store[p]), kind \in UiKind : SetTrust(p, r.store, kind)
    BY <1>1 DEF Initialize, Revalidate, UiKind
  <2>2. r.store \in Store
    BY <1>0, DiscardIncompleteRemoves DEF Within
  <2> QED
    BY <1>1, <2>1, <2>2 DEF Initialize, SetTrust, NetworkOK, TrustOK, HistoryOK, network, history
<1>2. CASE ReceiveConnected(p)
  <2>1. [attempt EXCEPT ![p].linked = TRUE] \in [Phone -> Attempt]
    BY DEF NetworkOK, Attempt
  <2>2. Rest(p) \in Seq(Message)
    BY <1>2, RestType DEF ReceiveConnected
  <2> QED
    BY <1>2, <2>1, <2>2 DEF ReceiveConnected, NetworkOK, TrustOK, HistoryOK, history
<1>3. CASE ReceiveHello(p) \/ ReceiveScannerStaged(p)
  BY <1>0, <1>m, <1>3, AnswerType DEF ReceiveHello, ReceiveScannerStaged
<1>4. CASE ReceiveIdentity(p) \/ ReceiveConfirm(p)
  BY <1>4, ReceiveIdentityType, ReceiveConfirmType
<1>5. CASE ReceiveCommit(p) \/ ReceiveCreatorCommitted(p)
  BY <1>5, AckStepType
<1>6. CASE ReceiveCreatorReady(p) \/ ReceiveScannerCommitted(p)
  BY <1>m, <1>6, InstallOnType DEF ReceiveCreatorReady, ReceiveScannerCommitted
<1>7. CASE ReceiveScannerConfirmed(p) \/ ReceiveCreatorConfirmed(p) \/ ReceiveConverged(p)
  BY <1>7, FinishStepType
<1>8. CASE ReceiveCancel(p)
  <2>1. PICK r \in AbortPairAttempt(store[p]) :
          SetTrust(p, r.store, IF r.ok THEN "unpaired" ELSE "error")
    BY <1>8 DEF ReceiveCancel, AbandonAttempt
  <2>2. r.store \in Store
    BY <1>0, AbortRemoves DEF Within
  <2>3. NetworkOK'
    BY <1>8, <1>m, ReleaseType DEF ReceiveCancel, AbandonAttempt
  <2> QED
    BY <1>8, <2>1, <2>2, <2>3 DEF ReceiveCancel, SetTrust, TrustOK, HistoryOK, history, UiKind
<1>9. CASE ReceiveError(p) \/ ReceiveClosed(p) \/ ReceiveListenerError(p)
  <2>1. FailAttempt(p, store[p], attempt[p].converged, FALSE) /\ UNCHANGED history
    BY <1>9 DEF ReceiveError, ReceiveClosed, ReceiveListenerError
  <2> QED
    BY <1>0, <2>1, FailAttemptType DEF HistoryOK, history
<1>10. CASE OrphanClosed(p)
  BY <1>m, <1>10 DEF OrphanClosed, NetworkOK, TrustOK, HistoryOK, service, history, PairOrNone
<1> QED
  BY <1>1, <1>2, <1>3, <1>4, <1>5, <1>6, <1>7, <1>8, <1>9, <1>10 DEF ServiceStep

\* A process death leaves well-formed keys.
LEMMA InterruptedType ==
  ASSUME NetworkOK, TrustOK, NEW p \in Phone, NEW s \in Interrupted(p)
  PROVE  s \in Store
<1>1. store[p] \in Store /\ attempt[p].id \in PairOrNone
  BY DEF NetworkOK, TrustOK, Attempt
<1>2. \/ s \in StageWrites(store[p], attempt[p].id)
      \/ s \in InstallWrites(store[p])
      \/ s \in Remnants(store[p])
      \/ s \in PartlyNoPending(store[p])
  BY DEF Interrupted
<1> QED
  BY <1>1, <1>2, StageWritesType, InstallWritesWithin, RemnantsWithin,
     PartlyNoPendingWithin DEF Within

\* The environment keeps every variable in its domain.
LEMMA EnvironmentType ==
  ASSUME NetworkOK, TrustOK, HistoryOK, Environment
  PROVE  NetworkOK' /\ TrustOK' /\ HistoryOK'
<1>1. ASSUME NEW a \in Pair, LinkBreaks(a) PROVE NetworkOK' /\ TrustOK' /\ HistoryOK'
  BY <1>1 DEF LinkBreaks, NetworkOK, TrustOK, HistoryOK, service, history
<1>2. ASSUME NEW a \in Pair, ListenerBreaks(a) PROVE NetworkOK' /\ TrustOK' /\ HistoryOK'
  BY <1>2 DEF ListenerBreaks, NetworkOK, TrustOK, HistoryOK, service, history
<1>3. ASSUME NEW p \in Phone, Crash(p) PROVE NetworkOK' /\ TrustOK' /\ HistoryOK'
  <2>1. PICK s \in Interrupted(p) :
          /\ SetTrust(p, s, "loading")
          /\ agreed' = IF attempt[p].role = "creator" /\ s.pendingSecret = attempt[p].id
                       THEN [agreed EXCEPT ![attempt[p].id] = @ \cup {p}] ELSE agreed
    BY <1>3 DEF Crash
  <2>2. TrustOK'
    BY <2>1, InterruptedType DEF SetTrust, TrustOK, UiKind
  <2>3. HistoryOK'
    BY <1>3, <2>1 DEF Crash, HistoryOK
  <2>4. attempt' \in [Phone -> Attempt] /\ listener' \in [Pair -> {"none", "open", "taken", "failed", "closed"}]
    BY <1>3, NoAttemptType DEF Crash, NetworkOK
  <2>5. inbox' \in [Phone -> Seq(Message)]
    BY <1>3, FramesType DEF Crash, NetworkOK
  <2>6. NetworkOK'
    BY <1>3, <2>4, <2>5 DEF Crash, NetworkOK, PairOrNone
  <2> QED
    BY <2>2, <2>3, <2>6
<1> QED
  BY <1>1, <1>2, <1>3 DEF Environment

\* The expiry timer keeps every variable in its domain.
LEMMA ExpireType ==
  ASSUME NetworkOK, TrustOK, HistoryOK, NEW p \in Phone, Expire(p)
  PROVE  NetworkOK' /\ TrustOK' /\ HistoryOK'
<1>1. store[p] \in Store /\ attempt[p].converged \in BOOLEAN
  BY DEF NetworkOK, TrustOK, Attempt
<1> QED
  BY <1>1, FailAttemptType DEF Expire, HistoryOK, history

\* A first start is well-formed.
LEMMA InitType == Init => TypeOK
<1>1. EmptyStore \in Store /\ NoAttempt \in Attempt /\ <<>> \in Seq(Message)
  BY NoAttemptType, FramesType DEF EmptyStore, Store, PairOrNone
<1> QED
  BY <1>1 DEF Init, TypeOK, UiKind, PairOrNone

\* TypeOK is inductive.
LEMMA NextType == TypeOK /\ [Next]_vars => TypeOK'
<1> SUFFICES ASSUME TypeOK, [Next]_vars PROVE TypeOK'
  OBVIOUS
<1>1. NetworkOK /\ TrustOK /\ HistoryOK
  BY TypeOKParts
<1>2. NetworkOK' /\ TrustOK' /\ HistoryOK'
  <2>1. CASE Next
    BY <1>1, <2>1, UserStepType, ServiceStepType, ExpireType, EnvironmentType DEF Next
  <2>2. CASE UNCHANGED vars
    BY <1>1, <2>2 DEF vars, service, network, history, NetworkOK, TrustOK, HistoryOK
  <2> QED
    BY <2>1, <2>2
<1> QED
  BY <1>2 DEF TypeOK, NetworkOK, TrustOK, HistoryOK

\* Every reachable state is well-formed: every phone's attempt, screen, keys,
\* sockets and inbox stay in their domains whatever interleaves.
THEOREM TypeCorrect == Spec => []TypeOK
  BY InitType, NextType, PTL DEF Spec

-----------------------------------------------------------------------------
(***************************************************************************)
(* Trust material needs both users: the proof that MaterialNeedsBothUsers  *)
(* holds in every reachable state, for any phones, attempts, disturbances  *)
(* and storage faults.  The invariant is ConsentInv of PairingProperties:  *)
(* the consent of a user is what a phase and a frame on its way stand for, *)
(* and material appears only in phases that stand for both.                *)
(***************************************************************************)

\* The store s of phone p holds only pairs its users agreed on, given the
\* consents ag.
Backed(p, s, ag) ==
  \A a \in Pair : a \in Material(s) => /\ p \in {owner[a], joiner[a]}
                                       /\ {owner[a], joiner[a]} \subseteq ag[a]

\* The phase of attempt at of phone p stands for the consents ag.
PhaseBacked(p, at, ag) ==
  /\ at.phase = "creator_can_confirm" => at.role = "creator" /\ joiner[at.id] \in ag[at.id]
  /\ at.phase = "waiting_creator_confirmation" => p \in ag[at.id]
  /\ at.phase = "finalizing" => {owner[at.id], joiner[at.id]} \subseteq ag[at.id]

\* The frames out that p sends on attempt a stand for the consents ag.
FramesBacked(p, a, out, ag) ==
  \A i \in DOMAIN out :
    /\ out[i] = "PAIR_CONFIRM" => p \in ag[a]
    /\ out[i] = "PAIR_COMMIT" => {owner[a], joiner[a]} \subseteq ag[a]

\* Consents are never taken back.
Grows == agreed' \in [Pair -> SUBSET Phone] /\ \A a \in Pair : agreed[a] \subseteq agreed'[a]

Sound == NetworkOK /\ TrustOK /\ HistoryOK /\ ConsentInv

\* What the running attempt of a phone says about its socket.
LEMMA AttemptEnds ==
  ASSUME Sound, NEW p \in Phone, attempt[p] # NoAttempt
  PROVE  /\ attempt[p].id \in Pair
         /\ p \in {owner[attempt[p].id], joiner[attempt[p].id]}
         /\ owner[attempt[p].id] \in Phone
         /\ attempt[p].linked => sock[p] = attempt[p].id /\ TwoPhones(attempt[p].id)
<1>1. attempt[p].id \in Pair
  BY DEF Sound, ConsentInv, Roles
<1>2. owner[attempt[p].id] \in Phone /\ p \in {owner[attempt[p].id], joiner[attempt[p].id]}
  BY DEF Sound, ConsentInv, Roles
<1>3. attempt[p].linked => sock[p] = attempt[p].id
  BY DEF Sound, ConsentInv, Roles
<1>4. sock[p] # NoPair => TwoPhones(sock[p])
  BY DEF Sound, ConsentInv, Sockets
<1>5. attempt[p].id # NoPair
  BY <1>1, PairAssumption
<1> QED
  BY <1>1, <1>2, <1>3, <1>4, <1>5

\* The two ends of a live socket.
LEMMA SocketEnds ==
  ASSUME Sound, NEW p \in Phone, NEW a \in up, p \in {owner[a], joiner[a]}
  PROVE  /\ TwoPhones(a) /\ a \in Pair
         /\ sock[p] = a
         /\ Peer(a, p) \in Phone \ {p}
         /\ sock[Peer(a, p)] = a
         /\ Peer(a, Peer(a, p)) = p
         /\ {owner[a], joiner[a]} = {p, Peer(a, p)}
  BY DEF Sound, NetworkOK, ConsentInv, Sockets, TwoPhones, Peer

\* A frame of another phone's inbox after a delivery was there or was sent.
LEMMA DeliveredFrame ==
  ASSUME NetworkOK, NEW p \in Phone, NEW a, NEW rest,
         NEW out \in Seq(Message), inbox' = Delivered(a, p, rest, out),
         NEW q \in Phone, q # p, NEW i \in DOMAIN inbox'[q]
  PROVE  \/ i \in DOMAIN inbox[q] /\ inbox'[q][i] = inbox[q][i]
         \/ \E j \in DOMAIN out : inbox'[q][i] = out[j]
<1>1. inbox[q] \in Seq(Message)
  BY DEF NetworkOK
<1>2. CASE q = Peer(a, p) /\ a \in up
  <2>1. inbox'[q] = inbox[q] \o out
    BY <1>2 DEF Delivered
  <2>2. i \in 1 .. Len(inbox[q]) + Len(out)
    BY <1>1, <2>1
  <2>3. CASE i \in 1 .. Len(inbox[q])
    BY <1>1, <2>1, <2>3
  <2>4. CASE i \notin 1 .. Len(inbox[q])
    <3>1. i - Len(inbox[q]) \in DOMAIN out
      BY <1>1, <2>2, <2>4
    <3>2. (inbox[q] \o out)[i] = out[i - Len(inbox[q])]
      BY <1>1, <2>2, <2>4
    <3> QED
      BY <1>2, <2>1, <3>1, <3>2
  <2> QED
    BY <2>3, <2>4
<1>3. CASE ~(q = Peer(a, p) /\ a \in up)
  BY <1>3 DEF Delivered
<1> QED
  BY <1>2, <1>3

\* A phone without a socket receives nothing.
LEMMA DeliveredNothing ==
  ASSUME Sound, NEW p \in Phone, NEW a, NEW rest, NEW out, NEW q \in Phone \ {p},
         p \in {owner[a], joiner[a]}, sock[q] = NoPair
  PROVE  Delivered(a, p, rest, out)[q] = <<>>
<1>1. inbox[q] = <<>>
  BY PairAssumption DEF Sound, ConsentInv, Sockets
<1>2. CASE q = Peer(a, p) /\ a \in up
  BY <1>2, SocketEnds, PairAssumption
<1> QED
  BY <1>1, <1>2 DEF Delivered

\* What the frames in the inbox of phone q say, as ConsentOfFrames has it.
InboxBacked(q) ==
  \A i \in DOMAIN inbox[q] :
    /\ inbox[q][i] = "PAIR_CONFIRM" => Peer(sock[q], q) \in agreed[sock[q]]
    /\ inbox[q][i] = "PAIR_COMMIT" =>
         {owner[sock[q]], joiner[sock[q]]} \subseteq agreed[sock[q]]

\* A phone whose inbox lost frames, or kept them, and whose ends did not move.
LEMMA InboxKept ==
  ASSUME Sound, Grows, UNCHANGED <<owner, joiner>>, NEW q \in Phone, sock'[q] = sock[q],
         \A i \in DOMAIN inbox'[q] : \E j \in DOMAIN inbox[q] : inbox'[q][i] = inbox[q][j]
  PROVE  InboxBacked(q)'
<1>1. CASE sock[q] = NoPair
  <2>1. inbox[q] = <<>>
    BY <1>1, PairAssumption DEF Sound, ConsentInv, Sockets
  <2> QED
    BY <2>1 DEF InboxBacked
<1>2. CASE sock[q] \in Pair
  <2>1. InboxBacked(q)
    BY DEF Sound, ConsentInv, ConsentOfFrames, InboxBacked
  <2>2. Peer(sock[q], q)' = Peer(sock[q], q)
    BY DEF Peer
  <2> QED
    BY <1>2, <2>1, <2>2 DEF InboxBacked, Grows
<1>3. sock[q] = NoPair \/ sock[q] \in Pair
  BY DEF Sound, ConsentInv, Sockets
<1> QED
  BY <1>1, <1>2, <1>3

\* The other phones, after p sent frames that stand for the consents.
LEMMA DeliveryBacked ==
  ASSUME Sound, Grows, UNCHANGED <<owner, joiner>>, NEW p \in Phone, NEW a,
         p \in {owner[a], joiner[a]}, NEW rest, NEW out \in Seq(Message),
         FramesBacked(p, a, out, agreed'), inbox' = Delivered(a, p, rest, out),
         NEW q \in Phone, q # p, sock'[q] = sock[q]
  PROVE  InboxBacked(q)'
<1>1. CASE q = Peer(a, p) /\ a \in up
  <2>1. /\ sock[q] = a /\ a \in Pair /\ Peer(a, q) = p
        /\ Peer(a, q)' = p
    BY <1>1, SocketEnds DEF Peer
  <2>2. ASSUME NEW i \in DOMAIN inbox'[q]
        PROVE  /\ inbox'[q][i] = "PAIR_CONFIRM" => p \in agreed'[a]
               /\ inbox'[q][i] = "PAIR_COMMIT" => {owner[a], joiner[a]} \subseteq agreed'[a]
    <3>1. CASE i \in DOMAIN inbox[q] /\ inbox'[q][i] = inbox[q][i]
      BY <2>1, <3>1 DEF Sound, ConsentInv, ConsentOfFrames, Grows
    <3>2. CASE \E j \in DOMAIN out : inbox'[q][i] = out[j]
      BY <3>2 DEF FramesBacked
    <3>3. NetworkOK
      BY DEF Sound
    <3>4. \/ i \in DOMAIN inbox[q] /\ inbox'[q][i] = inbox[q][i]
          \/ \E j \in DOMAIN out : inbox'[q][i] = out[j]
      BY <3>3, DeliveredFrame
    <3> QED
      BY <3>1, <3>2, <3>4
  <2> QED
    BY <2>1, <2>2 DEF InboxBacked
<1>2. CASE ~(q = Peer(a, p) /\ a \in up)
  <2>1. inbox'[q] = inbox[q]
    BY <1>2 DEF Delivered
  <2>2. \A i \in DOMAIN inbox'[q] : \E j \in DOMAIN inbox[q] : inbox'[q][i] = inbox[q][j]
    BY <2>1
  <2> QED
    BY <2>2, InboxKept
<1> QED
  BY <1>1, <1>2

\* What Roles says of phone q.
RoleOK(q) ==
  attempt[q] # NoAttempt =>
    /\ attempt[q].id \in Pair
    /\ attempt[q].linked => sock[q] = attempt[q].id
    /\ \/ attempt[q].role = "creator" /\ owner[attempt[q].id] = q
       \/ /\ attempt[q].role = "scanner" /\ joiner[attempt[q].id] = q
          /\ owner[attempt[q].id] \in Phone \ {q}

\* Roles, phone by phone.
LEMMA RolesParts == Roles <=> \A q \in Phone : RoleOK(q)
  BY DEF Roles, RoleOK

\* ConsentOfFrames, phone by phone.
LEMMA ConsentOfFramesParts == ConsentOfFrames <=> \A q \in Phone : InboxBacked(q)
  BY DEF ConsentOfFrames, InboxBacked

\* MaterialNeedsBothUsers, phone by phone.
LEMMA MaterialParts == MaterialNeedsBothUsers <=> \A q \in Phone : Backed(q, store[q], agreed)
  BY DEF MaterialNeedsBothUsers, Backed, Holds

\* ConsentOfPhase, phone by phone.
LEMMA PhaseParts == ConsentOfPhase <=> \A q \in Phone : PhaseBacked(q, attempt[q], agreed)
  BY DEF ConsentOfPhase, PhaseBacked

\* A phone without an attempt says nothing of consent.
LEMMA NoAttemptBacked ==
  ASSUME NEW p, NEW ag
  PROVE  PhaseBacked(p, NoAttempt, ag)
  BY DEF PhaseBacked, NoAttempt

\* What stands for the consents now stands for them after a step.
LEMMA BackedGrows ==
  ASSUME Sound, Grows, UNCHANGED <<owner, joiner>>, NEW q \in Phone
  PROVE  /\ attempt'[q] = attempt[q] => PhaseBacked(q, attempt[q], agreed')
         /\ Backed(q, store[q], agreed')
<1>1. Backed(q, store[q], agreed) /\ PhaseBacked(q, attempt[q], agreed)
  BY MaterialParts, PhaseParts DEF Sound, ConsentInv
<1>2. attempt[q] # NoAttempt => attempt[q].id \in Pair
  BY AttemptEnds
<1>3. attempt[q] = NoAttempt => PhaseBacked(q, attempt[q], agreed')
  BY NoAttemptBacked
<1> QED
  BY <1>1, <1>2, <1>3 DEF Backed, PhaseBacked, Grows

\* cleanupAttempt closes the phone's own ends and says nothing of consent.
LEMMA ReleaseSound ==
  ASSUME Sound, Grows, NEW p \in Phone, attempt[p] # NoAttempt, NEW out \in Seq(Message),
         FramesBacked(p, attempt[p].id, out, agreed'), Release(p, out)
  PROVE  (Roles /\ Sockets /\ Fresh /\ ConsentOfPhase /\ ConsentOfFrames)'
<1> DEFINE a == attempt[p].id
<1>1. /\ a \in Pair /\ p \in {owner[a], joiner[a]} /\ owner[a] \in Phone
      /\ attempt[p].linked => sock[p] = a
  BY AttemptEnds
<1>2. UNCHANGED <<owner, joiner>>
  BY DEF Release
<1>3. /\ attempt'[p] = NoAttempt
      /\ \A q \in Phone \ {p} : attempt'[q] = attempt[q] /\ sock'[q] = sock[q]
  BY DEF Release, Sound, NetworkOK
<1>4. Roles'
  BY <1>2, <1>3 DEF Roles, Sound, ConsentInv
<1>5. Fresh'
  BY <1>1, <1>2 DEF Release, Fresh, Sound, ConsentInv, NetworkOK
<1>6. ConsentOfPhase'
  <2>1. \A q \in Phone : PhaseBacked(q, attempt'[q], agreed')
    BY <1>2, <1>3, NoAttemptBacked, BackedGrows
  <2> QED
    BY <2>1, <1>2 DEF ConsentOfPhase, PhaseBacked
<1>7. CASE attempt[p].linked
  <2>1. /\ sock' = [sock EXCEPT ![p] = NoPair]
        /\ up' = up \ {a}
        /\ inbox' = Delivered(a, p, <<>>, out)
    BY <1>7 DEF Release
  <2>2. sock'[p] = NoPair /\ inbox'[p] = <<>>
    BY <2>1 DEF Delivered, Sound, NetworkOK
  <2>3. \A q \in Phone : InboxBacked(q)'
    <3>1. ASSUME NEW q \in Phone \ {p} PROVE InboxBacked(q)'
      <4>1. q \in Phone /\ q # p /\ sock'[q] = sock[q]
        BY <1>3
      <4> QED
        BY <1>1, <1>2, <2>1, <4>1, DeliveryBacked
    <3>2. InboxBacked(p)'
      BY <2>2 DEF InboxBacked
    <3> QED
      BY <3>1, <3>2
  <2>4. ASSUME NEW q \in Phone
        PROVE  \/ sock'[q] = NoPair /\ inbox'[q] = <<>>
               \/ sock'[q] \in Pair /\ TwoPhones(sock'[q]) /\ q \in {owner[sock'[q]], joiner[sock'[q]]}
    <3>1. CASE q = p
      BY <2>2, <3>1
    <3>2. CASE q # p /\ sock[q] = NoPair
      BY <1>1, <1>3, <2>1, <3>2, DeliveredNothing
    <3>3. CASE q # p /\ sock[q] # NoPair
      BY <1>3, <3>3 DEF Sound, ConsentInv, Sockets
    <3> QED
      BY <3>1, <3>2, <3>3
  <2>5. ASSUME NEW b \in up'
        PROVE  TwoPhones(b) /\ sock'[owner[b]] = b /\ sock'[joiner[b]] = b
    <3>1. b \in up /\ b # a
      BY <2>1
    <3>2. TwoPhones(b) /\ sock[owner[b]] = b /\ sock[joiner[b]] = b
      BY <3>1 DEF Sound, ConsentInv, Sockets
    <3> QED
      BY <1>1, <1>3, <1>7, <3>1, <3>2 DEF TwoPhones
  <2>6. Sockets'
    BY <1>2, <2>4, <2>5 DEF Sockets, TwoPhones
  <2> QED
    BY <1>4, <1>5, <1>6, <2>3, <2>6, ConsentOfFramesParts DEF ConsentOfFrames, InboxBacked
<1>8. CASE ~attempt[p].linked
  <2>1. UNCHANGED <<sock, up, inbox>>
    BY <1>8 DEF Release
  <2>2. ASSUME NEW q \in Phone PROVE InboxBacked(q)'
    <3>1. sock'[q] = sock[q] /\ inbox'[q] = inbox[q]
      BY <2>1
    <3> QED
      BY <1>2, <3>1, InboxKept
  <2>3. Sockets'
    BY <1>2, <2>1 DEF Sockets, TwoPhones, Sound, ConsentInv
  <2> QED
    BY <1>4, <1>5, <1>6, <2>2, <2>3 DEF ConsentOfFrames, InboxBacked
<1> QED
  BY <1>7, <1>8

\* ConsentInv of a step, from its network part and the store of the phone that
\* took it.
LEMMA StoreSound ==
  ASSUME Sound, Grows, UNCHANGED <<owner, joiner>>, NEW p \in Phone,
         NEW s \in Store, Backed(p, s, agreed'), store' = [store EXCEPT ![p] = s],
         (Roles /\ Sockets /\ Fresh /\ ConsentOfPhase /\ ConsentOfFrames)'
  PROVE  ConsentInv'
<1>1. \A q \in Phone : Backed(q, store'[q], agreed')
  BY BackedGrows DEF Sound, TrustOK
<1>2. MaterialNeedsBothUsers'
  BY <1>1 DEF MaterialNeedsBothUsers, Backed, Holds
<1> QED
  BY <1>2 DEF ConsentInv

\* A store that only lost material stays backed.
LEMMA BackedWithin ==
  ASSUME NEW p, NEW ag, NEW s, NEW t, Within(t, s), Backed(p, s, ag)
  PROVE  Backed(p, t, ag) /\ t \in Store
  BY PairAssumption DEF Within, Backed

\* Nor does anything a phone sends before it closes its socket.
LEMMA LastWordsBacked ==
  ASSUME NEW p, NEW a, NEW ag
  PROVE  /\ FramesBacked(p, a, <<>>, ag)
         /\ FramesBacked(p, a, <<"PAIR_ERROR">>, ag)
         /\ FramesBacked(p, a, <<"PAIR_CANCEL">>, ag)
         /\ FramesBacked(p, a, <<"converged">>, ag)
  BY DEF FramesBacked

\* completeConvergedAttempt keeps the consents behind what the phone holds.
LEMMA CompleteSound ==
  ASSUME Sound, Grows, NEW p \in Phone, attempt[p] # NoAttempt, NEW s \in Store,
         Backed(p, s, agreed'), NEW out \in Seq(Message),
         FramesBacked(p, attempt[p].id, out, agreed'), Complete(p, s, out)
  PROVE  ConsentInv'
<1>1. Release(p, out) /\ store' = [store EXCEPT ![p] = s]
  BY DEF Complete, SetTrust
<1>2. UNCHANGED <<owner, joiner>>
  BY <1>1 DEF Release
<1> QED
  BY <1>1, <1>2, ReleaseSound, StoreSound

\* failAttempt completes the attempt or removes material: neither adds any.
LEMMA FailAttemptSound ==
  ASSUME Sound, Grows, NEW p \in Phone, attempt[p] # NoAttempt, NEW s \in Store,
         Backed(p, s, agreed'), NEW conv, NEW notify, FailAttempt(p, s, conv, notify)
  PROVE  ConsentInv'
<1>1. \/ Complete(p, s, <<>>)
      \/ \E r \in AbortPairAttempt(s) :
           /\ SetTrust(p, r.store, "error")
           /\ Release(p, IF notify THEN <<"PAIR_ERROR">> ELSE <<>>)
  BY DEF FailAttempt
<1>2. CASE Complete(p, s, <<>>)
  <2>1. <<>> \in Seq(Message) /\ FramesBacked(p, attempt[p].id, <<>>, agreed')
    BY FramesType, LastWordsBacked
  <2> QED
    BY <1>2, <2>1, CompleteSound
<1>3. ASSUME NEW r \in AbortPairAttempt(s), SetTrust(p, r.store, "error"),
             NEW out \in {<<"PAIR_ERROR">>, <<>>}, Release(p, out)
      PROVE  ConsentInv'
  <2>1. out \in Seq(Message) /\ FramesBacked(p, attempt[p].id, out, agreed')
    BY <1>3, FramesType, LastWordsBacked DEF Message
  <2>2. (Roles /\ Sockets /\ Fresh /\ ConsentOfPhase /\ ConsentOfFrames)'
    BY <1>3, <2>1, ReleaseSound
  <2>3. r.store \in Store /\ Backed(p, r.store, agreed')
    BY AbortRemoves, BackedWithin
  <2>4. store' = [store EXCEPT ![p] = r.store] /\ UNCHANGED <<owner, joiner>>
    BY <1>3 DEF SetTrust, Release
  <2> QED
    BY <2>2, <2>3, <2>4, StoreSound
<1> QED
  BY <1>1, <1>2, <1>3

\* An operation that goes on: the new phase, the frames left and the frames
\* sent stand for the consents.
LEMMA ProceedSound ==
  ASSUME Sound, Grows, NEW p \in Phone, attempt[p] # NoAttempt, NEW rest,
         \A i \in DOMAIN rest : \E j \in DOMAIN inbox[p] : rest[i] = inbox[p][j],
         inbox[p] = <<>> => rest = <<>>,
         NEW at \in Attempt, at.id = attempt[p].id, at.role = attempt[p].role,
         at.linked = attempt[p].linked, PhaseBacked(p, at, agreed'),
         NEW s \in Store, Backed(p, s, agreed'), NEW kind, NEW out \in Seq(Message),
         FramesBacked(p, at.id, out, agreed'), Proceed(p, rest, at, s, kind, out)
  PROVE  ConsentInv'
<1> DEFINE a == attempt[p].id
<1>0. /\ a \in Pair /\ p \in {owner[a], joiner[a]} /\ owner[a] \in Phone
      /\ attempt[p].linked => sock[p] = a
  BY AttemptEnds
<1>1. CASE FailAttempt(p, s, at.converged, TRUE)
  BY <1>1, FailAttemptSound
<1>2. CASE /\ attempt' = [attempt EXCEPT ![p] = at]
           /\ SetTrust(p, s, kind)
           /\ inbox' = Delivered(at.id, p, rest, out)
           /\ UNCHANGED <<owner, joiner, listener, sock, up>>
  <2>1. inbox'[p] = rest /\ attempt'[p] = at
    BY <1>2 DEF Delivered, Sound, NetworkOK
  <2>2. \A q \in Phone : q # p => attempt'[q] = attempt[q]
    BY <1>2 DEF Sound, NetworkOK
  <2>3. Roles'
    <3>1. /\ at.id \in Pair
          /\ at.linked => sock[p] = at.id
          /\ \/ at.role = "creator" /\ owner[at.id] = p
             \/ at.role = "scanner" /\ joiner[at.id] = p /\ owner[at.id] \in Phone \ {p}
      BY <1>0 DEF Roles, Sound, ConsentInv
    <3>2. ASSUME NEW q \in Phone, q # p, attempt[q] # NoAttempt
          PROVE  /\ attempt[q].id \in Pair
                 /\ attempt[q].linked => sock[q] = attempt[q].id
                 /\ \/ attempt[q].role = "creator" /\ owner[attempt[q].id] = q
                    \/ /\ attempt[q].role = "scanner" /\ joiner[attempt[q].id] = q
                       /\ owner[attempt[q].id] \in Phone \ {q}
      BY <3>2 DEF Roles, Sound, ConsentInv
    <3> QED
      BY <1>2, <2>1, <2>2, <3>1, <3>2 DEF Roles
  <2>4. Fresh'
    BY <1>2 DEF Fresh, Sound, ConsentInv
  <2>5. ConsentOfPhase'
    <3>1. \A q \in Phone : PhaseBacked(q, attempt'[q], agreed')
      BY <1>2, <2>1, <2>2, BackedGrows
    <3> QED
      BY <1>2, <3>1 DEF ConsentOfPhase, PhaseBacked
  <2>6. ASSUME NEW q \in Phone PROVE InboxBacked(q)'
    <3>1. CASE q = p
      BY <1>2, <2>1, <3>1, InboxKept
    <3>2. CASE q # p
      BY <1>0, <1>2, <3>2, DeliveryBacked
    <3> QED
      BY <3>1, <3>2
  <2>7. ASSUME NEW q \in Phone, sock[q] = NoPair PROVE inbox'[q] = <<>>
    <3>1. CASE q = p
      BY <2>1, <2>7, <3>1, PairAssumption DEF Sound, ConsentInv, Sockets
    <3>2. CASE q # p
      BY <1>0, <1>2, <2>7, <3>2, DeliveredNothing
    <3> QED
      BY <3>1, <3>2
  <2>8. Sockets'
    BY <1>2, <2>7 DEF Sockets, TwoPhones, Sound, ConsentInv
  <2>9. (Roles /\ Sockets /\ Fresh /\ ConsentOfPhase /\ ConsentOfFrames)'
    BY <2>3, <2>4, <2>5, <2>6, <2>8 DEF ConsentOfFrames, InboxBacked
  <2> QED
    BY <1>2, <2>9, StoreSound DEF SetTrust
<1> QED
  BY <1>1, <1>2 DEF Proceed

\* An operation that stores first, and then goes on or fails.
LEMMA WithStoredSound ==
  ASSUME Sound, Grows, NEW p \in Phone, attempt[p] # NoAttempt, NEW rest,
         \A i \in DOMAIN rest : \E j \in DOMAIN inbox[p] : rest[i] = inbox[p][j],
         inbox[p] = <<>> => rest = <<>>,
         NEW at \in Attempt, at.id = attempt[p].id, at.role = attempt[p].role,
         at.linked = attempt[p].linked, PhaseBacked(p, at, agreed'),
         NEW results, \A r \in results : r.store \in Store /\ Backed(p, r.store, agreed'),
         NEW kind, NEW out \in Seq(Message), FramesBacked(p, at.id, out, agreed'),
         WithStored(p, results, rest, at, kind, out)
  PROVE  ConsentInv'
<1>1. PICK r \in results : IF r.ok THEN Proceed(p, rest, at, r.store, kind, out)
                           ELSE FailAttempt(p, r.store, at.converged, TRUE)
  BY DEF WithStored
<1>2. r.store \in Store /\ Backed(p, r.store, agreed')
  OBVIOUS
<1>3. CASE r.ok
  BY <1>1, <1>2, <1>3, ProceedSound
<1>4. CASE ~r.ok
  BY <1>1, <1>2, <1>4, FailAttemptSound
<1> QED
  BY <1>3, <1>4

-----------------------------------------------------------------------------
(***************************************************************************)
(* The steps.                                                              *)
(***************************************************************************)
LEMMA SameConsent ==
  ASSUME HistoryOK, agreed' = agreed
  PROVE  Grows
  BY DEF HistoryOK, Grows

\* A user that confirms adds one consent.
LEMMA NewConsent ==
  ASSUME HistoryOK, NEW p \in Phone, NEW a \in Pair,
         agreed' = [agreed EXCEPT ![a] = @ \cup {p}]
  PROVE  Grows /\ agreed'[a] = agreed[a] \cup {p}
  BY DEF HistoryOK, Grows

\* A step that only loses material of one phone.
LEMMA LossSound ==
  ASSUME Sound, NEW p \in Phone, NEW s, Within(s, store[p]),
         store' = [store EXCEPT ![p] = s], UNCHANGED <<attempt, network, history>>
  PROVE  ConsentInv'
<1>1. Grows /\ UNCHANGED <<owner, joiner>>
  BY SameConsent DEF Sound, network, history
<1>2. s \in Store /\ Backed(p, s, agreed')
  BY <1>1, BackedGrows, BackedWithin
<1>3. (Roles /\ Sockets /\ Fresh /\ ConsentOfPhase /\ ConsentOfFrames)'
  BY DEF Sound, ConsentInv, Roles, Sockets, TwoPhones, Fresh, ConsentOfPhase,
         ConsentOfFrames, Peer, network, history
<1> QED
  BY <1>1, <1>2, <1>3, StoreSound

\* Nothing says anything of an attempt nobody created.
LEMMA UnusedAttempt ==
  ASSUME Sound, NEW a \in Pair, joiner[a] \notin Phone
  PROVE  /\ \A q \in Phone : sock[q] # a /\ ~Holds(q, a)
         /\ a \notin up
         /\ \A q \in Phone : attempt[q] # NoAttempt /\ attempt[q].id = a
              => /\ owner[a] = q /\ attempt[q].role = "creator"
                 /\ attempt[q].phase \notin {"creator_can_confirm", "finalizing"}
<1>1. \A q \in Phone : sock[q] # a
  BY PairAssumption DEF Sound, ConsentInv, Sockets, TwoPhones
<1>2. a \notin up
  BY DEF Sound, ConsentInv, Sockets, TwoPhones
<1>3. joiner[a] \notin agreed[a]
  BY DEF Sound, HistoryOK
<1>4. \A q \in Phone : ~Holds(q, a)
  BY <1>3 DEF Sound, ConsentInv, MaterialNeedsBothUsers
<1>5. ASSUME NEW q \in Phone, attempt[q] # NoAttempt, attempt[q].id = a
      PROVE  /\ owner[a] = q /\ attempt[q].role = "creator"
             /\ attempt[q].phase \notin {"creator_can_confirm", "finalizing"}
  <2>1. owner[a] = q /\ attempt[q].role = "creator"
    BY <1>5 DEF Sound, ConsentInv, Roles
  <2>2. attempt[q].phase \notin {"creator_can_confirm", "finalizing"}
    BY <1>3, <1>5 DEF Sound, ConsentInv, ConsentOfPhase
  <2> QED
    BY <2>1, <2>2
<1> QED
  BY <1>1, <1>2, <1>4, <1>5

\* A new attempt has no partner, so nothing claims one yet.
LEMMA CreateQrSound ==
  ASSUME Sound, NEW p \in Phone, NEW a \in Pair, CreateQr(p, a)
  PROVE  ConsentInv'
<1> DEFINE at == NewAttempt(a, "creator", FALSE)
<1>0. /\ owner[a] = NoPhone /\ joiner[a] = NoPhone /\ joiner[a] \notin Phone
      /\ owner' = [owner EXCEPT ![a] = p] /\ joiner' = joiner
      /\ attempt' = [attempt EXCEPT ![p] = at]
      /\ UNCHANGED <<sock, up, inbox, store, agreed>>
      /\ listener' = [listener EXCEPT ![a] = "open"]
  BY PhoneAssumption DEF CreateQr, Sound, ConsentInv, Fresh, history
<1>1. /\ at.id = a /\ at.role = "creator" /\ at.linked = FALSE
      /\ at.phase = "waiting_remote_identity"
  BY DEF NewAttempt
<1>2. /\ \A q \in Phone : sock[q] # a /\ ~Holds(q, a)
      /\ a \notin up
      /\ \A q \in Phone : attempt[q] = NoAttempt \/ attempt[q].id # a
  BY <1>0, UnusedAttempt, PhoneAssumption
<1>3. owner'[a] = p /\ \A b \in Pair \ {a} : owner'[b] = owner[b]
  BY <1>0 DEF Sound, NetworkOK
<1>4. attempt'[p] = at /\ \A q \in Phone \ {p} : attempt'[q] = attempt[q]
  BY <1>0 DEF Sound, NetworkOK
<1>5. Roles'
  <2>1. ASSUME NEW q \in Phone, q # p, attempt[q] # NoAttempt
        PROVE  /\ attempt[q].id \in Pair
               /\ owner'[attempt[q].id] = owner[attempt[q].id]
               /\ attempt[q].linked => sock[q] = attempt[q].id
               /\ \/ attempt[q].role = "creator" /\ owner[attempt[q].id] = q
                  \/ /\ attempt[q].role = "scanner" /\ joiner[attempt[q].id] = q
                     /\ owner[attempt[q].id] \in Phone \ {q}
    BY <1>2, <1>3, <2>1 DEF Roles, Sound, ConsentInv
  <2>2. ASSUME NEW q \in Phone PROVE RoleOK(q)'
    <3>1. CASE q = p
      <4> HIDE DEF at
      <4>1. attempt'[q] = at /\ at.id = a /\ at.role = "creator" /\ ~at.linked /\ owner'[a] = q
        BY <1>1, <1>3, <1>4, <3>1
      <4> QED
        BY <4>1 DEF RoleOK
    <3>2. CASE q # p
      BY <1>0, <1>4, <2>1, <3>2 DEF RoleOK
    <3> QED
      BY <3>1, <3>2
  <2> QED
    BY <2>2 DEF Roles, RoleOK
<1>6. Sockets'
  BY <1>0, <1>2, <1>3 DEF Sockets, TwoPhones, Sound, ConsentInv, NetworkOK
<1>7. Fresh'
  BY <1>0, <1>3, PhoneAssumption DEF Fresh, Sound, ConsentInv, NetworkOK
<1>8. ConsentOfPhase'
  <2>1. ASSUME NEW q \in Phone PROVE PhaseBacked(q, attempt[q], agreed)'
    <3>1. CASE q = p
      BY <1>1, <1>4, <3>1 DEF PhaseBacked
    <3>2. CASE q # p /\ attempt[q] = NoAttempt
      BY <1>4, <3>2 DEF PhaseBacked, NoAttempt
    <3>3. CASE q # p /\ attempt[q] # NoAttempt
      <4>1. attempt[q].id \in Pair \ {a}
        BY <1>2, <3>3, AttemptEnds
      <4> QED
        BY <1>0, <1>3, <1>4, <3>3, <4>1 DEF PhaseBacked, Sound, ConsentInv, ConsentOfPhase
    <3> QED
      BY <3>1, <3>2, <3>3
  <2> QED
    BY <2>1 DEF ConsentOfPhase, PhaseBacked
<1>9. ConsentOfFrames'
  <2>1. ASSUME NEW q \in Phone PROVE InboxBacked(q)'
    <3>1. CASE sock[q] = NoPair
      BY <1>0, <3>1, PairAssumption DEF InboxBacked, Sound, ConsentInv, Sockets
    <3>2. CASE sock[q] \in Pair
      <4>1. owner'[sock[q]] = owner[sock[q]]
        BY <1>2, <1>3, <3>2
      <4> QED
        BY <1>0, <4>1 DEF InboxBacked, Sound, ConsentInv, ConsentOfFrames, Peer
    <3> QED
      BY <3>1, <3>2 DEF Sound, ConsentInv, Sockets
  <2> QED
    BY <2>1 DEF ConsentOfFrames, InboxBacked
<1>10. MaterialNeedsBothUsers'
  BY <1>0, <1>2, <1>3 DEF MaterialNeedsBothUsers, Holds, Sound, ConsentInv
<1> QED
  BY <1>5, <1>6, <1>7, <1>8, <1>9, <1>10 DEF ConsentInv

\* The scanner joins an attempt that nothing spoke of before.
LEMMA ScanConnectSound ==
  ASSUME Sound, NEW p \in Phone, NEW a \in Pair, ScanConnect(p, a)
  PROVE  ConsentInv'
<1> DEFINE at == NewAttempt(a, "scanner", TRUE)
           c == owner[a]
<1>0. /\ c \in Phone /\ c # p /\ sock[p] = NoPair
      /\ joiner[a] = NoPhone /\ joiner[a] \notin Phone
      /\ joiner' = [joiner EXCEPT ![a] = p] /\ owner' = owner
      /\ attempt' = [attempt EXCEPT ![p] = at]
      /\ UNCHANGED <<store, agreed>>
      /\ \/ /\ sock[c] = NoPair
            /\ sock' = [sock EXCEPT ![p] = a, ![c] = a]
            /\ up' = up \cup {a}
            /\ listener' = [listener EXCEPT ![a] = "taken"]
            /\ inbox' = [inbox EXCEPT ![c] = <<"connected", "PAIR_HELLO">>]
         \/ /\ sock' = [sock EXCEPT ![p] = a]
            /\ listener' = [listener EXCEPT ![a] = "failed"]
            /\ UNCHANGED <<up, inbox>>
  BY PhoneAssumption DEF ScanConnect, Sound, ConsentInv, Fresh, history
<1>1. /\ at.id = a /\ at.role = "scanner" /\ at.phase = "waiting_remote_identity"
  BY DEF NewAttempt
<1>2. /\ \A q \in Phone : sock[q] # a /\ ~Holds(q, a)
      /\ a \notin up
      /\ \A q \in Phone : attempt[q] # NoAttempt /\ attempt[q].id = a
           => /\ owner[a] = q /\ attempt[q].role = "creator"
              /\ attempt[q].phase \notin {"creator_can_confirm", "finalizing"}
  BY <1>0, UnusedAttempt
<1>3. joiner'[a] = p /\ \A b \in Pair \ {a} : joiner'[b] = joiner[b]
  BY <1>0 DEF Sound, NetworkOK
<1>4. attempt'[p] = at /\ \A q \in Phone \ {p} : attempt'[q] = attempt[q]
  BY <1>0 DEF Sound, NetworkOK
<1>5. /\ sock'[p] = a /\ inbox[p] = <<>>
      /\ \A q \in Phone : sock'[q] = sock[q] \/ (q \in {p, c} /\ sock[q] = NoPair /\ sock'[q] = a)
  BY <1>0, PairAssumption DEF Sound, NetworkOK, ConsentInv, Sockets
<1>6. Roles'
  <2>1. ASSUME NEW q \in Phone, q # p, attempt[q] # NoAttempt
        PROVE  /\ attempt[q].id \in Pair
               /\ attempt[q].linked => sock'[q] = attempt[q].id
               /\ \/ attempt[q].role = "creator" /\ owner[attempt[q].id] = q
                  \/ /\ attempt[q].role = "scanner" /\ joiner'[attempt[q].id] = q
                     /\ owner[attempt[q].id] \in Phone \ {q}
    <3>1. attempt[q].id \in Pair /\ (attempt[q].linked => sock[q] = attempt[q].id)
      BY <2>1, AttemptEnds
    <3>2. attempt[q].linked => sock'[q] = attempt[q].id
      BY <1>5, <3>1, PairAssumption
    <3> QED
      BY <1>2, <1>3, <2>1, <3>1, <3>2 DEF Roles, Sound, ConsentInv
  <2>2. ASSUME NEW q \in Phone PROVE RoleOK(q)'
    <3>1. CASE q = p
      <4>1. owner'[a] \in Phone \ {p}
        BY <1>0
      <4> QED
        BY <1>1, <1>3, <1>4, <1>5, <3>1, <4>1 DEF RoleOK
    <3>2. CASE q # p
      BY <1>0, <1>4, <2>1, <3>2 DEF RoleOK
    <3> QED
      BY <3>1, <3>2
  <2> QED
    BY <2>2 DEF Roles, RoleOK
<1>7. Sockets'
  <2>1. TwoPhones(a)' /\ p \in {owner'[a], joiner'[a]} /\ c \in {owner'[a], joiner'[a]}
    BY <1>0, <1>3 DEF TwoPhones
  <2>2. ASSUME NEW q \in Phone
        PROVE  \/ sock'[q] = NoPair /\ inbox'[q] = <<>>
               \/ sock'[q] \in Pair /\ TwoPhones(sock[q])' /\ q \in {owner'[sock'[q]], joiner'[sock'[q]]}
    <3>1. CASE sock'[q] = a
      <4>1. q \in {p, c}
        BY <1>2, <1>5, <3>1
      <4> QED
        BY <2>1, <3>1, <4>1 DEF TwoPhones
    <3>2. CASE sock'[q] # a
      <4>1. sock'[q] = sock[q] /\ q # p
        BY <1>5, <3>2
      <4>2. inbox'[q] = inbox[q]
        BY <1>0, <3>2, <4>1 DEF Sound, NetworkOK
      <4>3. sock[q] \in Pair => sock[q] \in Pair \ {a}
        BY <3>2, <4>1
      <4> QED
        BY <1>0, <1>3, <4>1, <4>2, <4>3 DEF Sound, ConsentInv, Sockets, TwoPhones
    <3> QED
      BY <3>1, <3>2
  <2>3. ASSUME NEW b \in up'
        PROVE  TwoPhones(b)' /\ sock'[owner'[b]] = b /\ sock'[joiner'[b]] = b
    <3>1. CASE b = a
      BY <1>0, <1>2, <1>3, <2>1, <3>1 DEF Sound, NetworkOK
    <3>2. CASE b # a
      <4>1. b \in up /\ b \in Pair
        BY <1>0, <3>2 DEF Sound, NetworkOK
      <4>2. TwoPhones(b) /\ sock[owner[b]] = b /\ sock[joiner[b]] = b
        BY <4>1 DEF Sound, ConsentInv, Sockets
      <4>3. joiner'[b] = joiner[b] /\ owner'[b] = owner[b]
        BY <1>0, <1>3, <3>2, <4>1
      <4>4. sock'[owner[b]] = b /\ sock'[joiner[b]] = b
        BY <1>5, <4>1, <4>2, PairAssumption DEF TwoPhones
      <4> QED
        BY <4>2, <4>3, <4>4 DEF TwoPhones
    <3> QED
      BY <3>1, <3>2
  <2> QED
    BY <2>2, <2>3 DEF Sockets, TwoPhones
<1>8. Fresh'
  BY <1>0, <1>3 DEF Fresh, Sound, ConsentInv, NetworkOK
<1>9. ConsentOfPhase'
  <2>1. ASSUME NEW q \in Phone PROVE PhaseBacked(q, attempt[q], agreed)'
    <3>1. CASE q = p
      BY <1>1, <1>4, <3>1 DEF PhaseBacked
    <3>2. CASE q # p /\ attempt[q] = NoAttempt
      BY <1>4, <3>2 DEF PhaseBacked, NoAttempt
    <3>3. CASE q # p /\ attempt[q] # NoAttempt /\ attempt[q].id # a
      <4>1. attempt[q].id \in Pair \ {a}
        BY <3>3, AttemptEnds
      <4> QED
        BY <1>0, <1>3, <1>4, <3>3, <4>1 DEF PhaseBacked, Sound, ConsentInv, ConsentOfPhase
    <3>4. CASE q # p /\ attempt[q] # NoAttempt /\ attempt[q].id = a
      BY <1>0, <1>2, <1>4, <3>4 DEF PhaseBacked, Sound, ConsentInv, ConsentOfPhase
    <3> QED
      BY <3>1, <3>2, <3>3, <3>4
  <2> QED
    BY <2>1 DEF ConsentOfPhase, PhaseBacked
<1>10. ConsentOfFrames'
  <2>1. ASSUME NEW q \in Phone PROVE InboxBacked(q)'
    <3>1. CASE inbox'[q] = <<>> \/ inbox'[q] = <<"connected", "PAIR_HELLO">>
      BY <3>1 DEF InboxBacked
    <3>2. CASE inbox'[q] = inbox[q] /\ inbox[q] # <<>>
      <4>1. sock[q] \in Pair \ {a} /\ sock'[q] = sock[q]
        BY <1>2, <1>5, <3>2, PairAssumption DEF Sound, ConsentInv, Sockets
      <4> QED
        BY <1>0, <1>3, <3>2, <4>1 DEF InboxBacked, Sound, ConsentInv, ConsentOfFrames, Peer
    <3> QED
      BY <1>0, <3>1, <3>2 DEF Sound, NetworkOK
  <2> QED
    BY <2>1 DEF ConsentOfFrames, InboxBacked
<1>11. MaterialNeedsBothUsers'
  BY <1>0, <1>2, <1>3 DEF MaterialNeedsBothUsers, Holds, Sound, ConsentInv
<1> QED
  BY <1>6, <1>7, <1>8, <1>9, <1>10, <1>11 DEF ConsentInv

\* A cancel only removes material.
LEMMA AbandonSound ==
  ASSUME Sound, Grows, NEW p \in Phone, attempt[p] # NoAttempt,
         NEW out \in {<<>>, <<"PAIR_CANCEL">>}, AbandonAttempt(p, out)
  PROVE  ConsentInv'
<1>1. PICK r \in AbortPairAttempt(store[p]) : store' = [store EXCEPT ![p] = r.store]
  BY DEF AbandonAttempt, SetTrust
<1>2. Release(p, out) /\ UNCHANGED <<owner, joiner>>
  BY DEF AbandonAttempt, Release
<1>3. out \in Seq(Message) /\ FramesBacked(p, attempt[p].id, out, agreed')
  BY FramesType, LastWordsBacked DEF Message
<1>4. store[p] \in Store /\ Backed(p, store[p], agreed')
  BY <1>2, BackedGrows DEF Sound, TrustOK
<1>5. r.store \in Store /\ Backed(p, r.store, agreed')
  BY <1>4, AbortRemoves, BackedWithin
<1>6. (Roles /\ Sockets /\ Fresh /\ ConsentOfPhase /\ ConsentOfFrames)'
  BY <1>2, <1>3, ReleaseSound
<1> QED
  BY <1>1, <1>2, <1>5, <1>6, StoreSound

\* failAttempt on the store as it is.
LEMMA FailHereSound ==
  ASSUME Sound, NEW p \in Phone, attempt[p] # NoAttempt, NEW conv, NEW notify,
         FailAttempt(p, store[p], conv, notify), UNCHANGED history
  PROVE  ConsentInv'
<1>1. Grows
  BY SameConsent DEF Sound, history
<1>2. UNCHANGED <<owner, joiner>>
  BY DEF FailAttempt, Complete, Release
<1>3. store[p] \in Store /\ Backed(p, store[p], agreed')
  BY <1>1, <1>2, BackedGrows DEF Sound, TrustOK
<1> QED
  BY <1>1, <1>3, FailAttemptSound

\* The phases a phone confirms from and to.
LEMMA ConfirmTransitions ==
  ASSUME NEW at, NEW ph, Enters(at, "LOCAL_CONFIRM", ph)
  PROVE  /\ at.role = "scanner" => ph = "waiting_creator_confirmation"
         /\ at.role = "creator" => at.phase = "creator_can_confirm" /\ ph = "finalizing"
  BY DEF Enters, Transitions

\* The scanner's PAIR_CONFIRM stands for its own consent.
LEMMA ScannerConfirmsSound ==
  ASSUME Sound, NEW p \in Phone, ScannerConfirms(p)
  PROVE  ConsentInv'
<1>1. attempt[p] # NoAttempt /\ attempt[p].role = "scanner"
  BY DEF ScannerConfirms, NoAttempt
<1>2. attempt[p].id \in Pair /\ attempt[p] \in Attempt
  BY <1>1, AttemptEnds DEF Sound, NetworkOK
<1>3. PICK ph \in Phase :
        /\ Enters(attempt[p], "LOCAL_CONFIRM", ph)
        /\ Proceed(p, inbox[p], [attempt[p] EXCEPT !.phase = ph], store[p],
                   "waiting_partner", <<"PAIR_CONFIRM">>)
  BY DEF ScannerConfirms
<1>4. agreed' = [agreed EXCEPT ![attempt[p].id] = @ \cup {p}]
  BY DEF ScannerConfirms
<1>5. Grows /\ agreed'[attempt[p].id] = agreed[attempt[p].id] \cup {p}
  BY <1>2, <1>4, NewConsent DEF Sound
<1> DEFINE at == [attempt[p] EXCEPT !.phase = ph]
<1>6. /\ at \in Attempt /\ at.id = attempt[p].id /\ at.role = attempt[p].role
      /\ at.linked = attempt[p].linked /\ at.phase = "waiting_creator_confirmation"
  BY <1>1, <1>2, <1>3, ConfirmTransitions DEF Attempt
<1>7. PhaseBacked(p, at, agreed') /\ FramesBacked(p, at.id, <<"PAIR_CONFIRM">>, agreed')
  BY <1>5, <1>6 DEF PhaseBacked, FramesBacked
<1>8. UNCHANGED <<owner, joiner>>
  BY <1>3 DEF Proceed, FailAttempt, Complete, Release
<1>9. store[p] \in Store /\ Backed(p, store[p], agreed')
  BY <1>5, <1>8, BackedGrows DEF Sound, TrustOK
<1>10. <<"PAIR_CONFIRM">> \in Seq(Message)
  BY FramesType DEF Message
<1> HIDE DEF at
<1> QED
  BY <1>1, <1>3, <1>5, <1>6, <1>7, <1>9, <1>10, ProceedSound DEF at

\* Staging the pair of a running attempt that both users agreed to.
LEMMA StageBacked ==
  ASSUME Sound, Grows, UNCHANGED <<owner, joiner>>, NEW p \in Phone, attempt[p] # NoAttempt,
         {owner[attempt[p].id], joiner[attempt[p].id]} \subseteq agreed'[attempt[p].id],
         NEW r \in Stage(store[p], attempt[p].id)
  PROVE  r.store \in Store /\ Backed(p, r.store, agreed')
<1>1. store[p] \in Store /\ Backed(p, store[p], agreed')
  BY BackedGrows DEF Sound, TrustOK
<1>2. attempt[p].id \in Pair /\ p \in {owner[attempt[p].id], joiner[attempt[p].id]}
  BY AttemptEnds
<1>3. r.store \in Store /\ Material(r.store) \subseteq Material(store[p]) \cup {attempt[p].id, NoPair}
  BY <1>1, <1>2, StageAddsOnlyItsPair DEF PairOrNone
<1> QED
  BY <1>1, <1>2, <1>3, PairAssumption DEF Backed

\* The creator confirms last, so the pair it stages and the PAIR_COMMIT it sends
\* stand for both consents.
LEMMA CreatorConfirmsSound ==
  ASSUME Sound, NEW p \in Phone, CreatorConfirms(p)
  PROVE  ConsentInv'
<1>1. attempt[p] # NoAttempt /\ attempt[p].role = "creator"
  BY DEF CreatorConfirms, NoAttempt
<1>2. attempt[p].id \in Pair /\ attempt[p] \in Attempt /\ owner[attempt[p].id] = p
  BY <1>1, AttemptEnds DEF Sound, NetworkOK, ConsentInv, Roles
<1>3. PICK ph \in Phase :
        /\ Enters(attempt[p], "LOCAL_CONFIRM", ph)
        /\ WithStored(p, Stage(store[p], attempt[p].id), inbox[p],
                      [attempt[p] EXCEPT !.phase = ph], "finalizing",
                      <<"PAIR_CONFIRM", "PAIR_COMMIT">>)
  BY DEF CreatorConfirms
<1>4. agreed' = [agreed EXCEPT ![attempt[p].id] = @ \cup {p}]
  BY DEF CreatorConfirms
<1>5. Grows /\ agreed'[attempt[p].id] = agreed[attempt[p].id] \cup {p}
  BY <1>2, <1>4, NewConsent DEF Sound
<1>6. attempt[p].phase = "creator_can_confirm" /\ ph = "finalizing"
  BY <1>1, <1>3, ConfirmTransitions
<1>7. {owner[attempt[p].id], joiner[attempt[p].id]} \subseteq agreed'[attempt[p].id]
  BY <1>2, <1>5, <1>6 DEF Sound, ConsentInv, ConsentOfPhase
<1> DEFINE at == [attempt[p] EXCEPT !.phase = ph]
<1>8. /\ at \in Attempt /\ at.id = attempt[p].id /\ at.role = attempt[p].role
      /\ at.linked = attempt[p].linked /\ at.phase = "finalizing"
  BY <1>2, <1>6 DEF Attempt
<1>9. /\ PhaseBacked(p, at, agreed')
      /\ FramesBacked(p, at.id, <<"PAIR_CONFIRM", "PAIR_COMMIT">>, agreed')
  BY <1>2, <1>5, <1>7, <1>8 DEF PhaseBacked, FramesBacked
<1>10. UNCHANGED <<owner, joiner>>
  BY <1>3 DEF WithStored, Proceed, FailAttempt, Complete, Release
<1>11. \A r \in Stage(store[p], attempt[p].id) : r.store \in Store /\ Backed(p, r.store, agreed')
  BY <1>1, <1>5, <1>7, <1>10, StageBacked
<1>12. <<"PAIR_CONFIRM", "PAIR_COMMIT">> \in Seq(Message)
  BY FramesType DEF Message
<1> HIDE DEF at
<1> QED
  BY <1>1, <1>3, <1>5, <1>8, <1>9, <1>11, <1>12, WithStoredSound DEF at

\* No user operation leaves material without both consents.
LEMMA UserStepSound ==
  ASSUME Sound, NEW p \in Phone, UserStep(p)
  PROVE  ConsentInv'
<1>0. store[p] \in Store
  BY DEF Sound, TrustOK
<1>1. CASE \E a \in Pair : CreateQr(p, a) \/ ScanConnect(p, a)
  BY <1>1, CreateQrSound, ScanConnectSound
<1>2. ASSUME NEW a \in Pair, ScanUnreachable(p, a) PROVE ConsentInv'
  <2>1. PICK r \in AbortPairAttempt(store[p]) : store' = [store EXCEPT ![p] = r.store]
    BY <1>2 DEF ScanUnreachable, SetTrust
  <2> QED
    BY <1>0, <1>2, <2>1, AbortRemoves, LossSound DEF ScanUnreachable
<1>3. CASE StartRefused(p)
  BY <1>3 DEF StartRefused, Sound, ConsentInv, Roles, Sockets, TwoPhones, Fresh, Holds,
     ConsentOfPhase, ConsentOfFrames, MaterialNeedsBothUsers, Peer, network, history
<1>4. CASE ScannerConfirms(p) \/ CreatorConfirms(p)
  BY <1>4, ScannerConfirmsSound, CreatorConfirmsSound
<1>5. CASE ConfirmOutOfTurn(p)
  <2>1. attempt[p] # NoAttempt
    BY <1>5 DEF ConfirmOutOfTurn, Active, NoAttempt
  <2> QED
    BY <1>5, <2>1, FailHereSound DEF ConfirmOutOfTurn
<1>6. CASE Cancel(p)
  <2>1. attempt[p] # NoAttempt /\ agreed' = agreed
    BY <1>6 DEF Cancel, Active, NoAttempt
  <2> QED
    BY <1>6, <2>1, SameConsent, AbandonSound DEF Cancel, Sound
<1>7. CASE Revoke(p)
  <2>1. PICK r \in AbortPairAttempt(store[p]) : store' = [store EXCEPT ![p] = r.store]
    BY <1>7 DEF Revoke, RevokePair, SetTrust
  <2> QED
    BY <1>0, <1>7, <2>1, AbortRemoves, LossSound DEF Revoke
<1>8. CASE ResetError(p)
  <2>1. PICK r \in DiscardIncomplete(store[p]) : store' = [store EXCEPT ![p] = r.store]
    BY <1>8 DEF ResetError, Revalidate, SetTrust
  <2> QED
    BY <1>0, <1>8, <2>1, DiscardIncompleteRemoves, LossSound DEF ResetError
<1> QED
  BY <1>1, <1>2, <1>3, <1>4, <1>5, <1>6, <1>7, <1>8 DEF UserStep

-----------------------------------------------------------------------------
(***************************************************************************)
(* Steps of the event loop.                                                *)
(***************************************************************************)

\* What is left of an inbox was in it.
LEMMA RestFrames ==
  ASSUME NetworkOK, NEW p \in Phone, inbox[p] # <<>>
  PROVE  \A i \in DOMAIN Rest(p) : \E j \in DOMAIN inbox[p] : Rest(p)[i] = inbox[p][j]
<1>1. inbox[p] \in Seq(Message)
  BY DEF NetworkOK
<1> SUFFICES ASSUME NEW i \in DOMAIN Rest(p)
             PROVE  \E j \in DOMAIN inbox[p] : Rest(p)[i] = inbox[p][j]
  OBVIOUS
<1>2. i + 1 \in DOMAIN inbox[p] /\ Rest(p)[i] = inbox[p][i + 1]
  BY <1>1 DEF Rest
<1> QED
  BY <1>2

\* A frame that arrives says what ConsentOfFrames says of it.
LEMMA FrameHeard ==
  ASSUME Sound, NEW p \in Phone, NEW m, Arrives(p, m)
  PROVE  LET a == attempt[p].id IN
         /\ attempt[p] # NoAttempt
         /\ m = "PAIR_CONFIRM" => Peer(a, p) \in agreed[a]
         /\ m = "PAIR_COMMIT" => {owner[a], joiner[a]} \subseteq agreed[a]
<1>1. attempt[p] # NoAttempt /\ inbox[p] # <<>> /\ Head(inbox[p]) = m
  BY DEF Arrives, NoAttempt
<1>2. sock[p] = attempt[p].id
  BY <1>1, AttemptEnds DEF Arrives
<1>3. inbox[p] \in Seq(Message)
  BY DEF Sound, NetworkOK
<1>4. 1 \in DOMAIN inbox[p] /\ inbox[p][1] = m
  BY <1>1, <1>3
<1>5. InboxBacked(p)
  BY ConsentOfFramesParts DEF Sound, ConsentInv
<1> QED
  BY <1>1, <1>2, <1>4, <1>5 DEF InboxBacked

\* A step that leaves the consents and the ends of the attempts alone.
LEMMA QuietStep ==
  ASSUME Sound, NEW p \in Phone, UNCHANGED <<owner, joiner, agreed>>
  PROVE  /\ Grows
         /\ store[p] \in Store /\ Backed(p, store[p], agreed')
         /\ PhaseBacked(p, attempt[p], agreed)
<1>1. Grows
  BY SameConsent DEF Sound
<1>2. PhaseBacked(p, attempt[p], agreed)
  BY PhaseParts DEF Sound, ConsentInv
<1> QED
  BY <1>1, <1>2, BackedGrows DEF Sound, TrustOK

\* A frame that is answered without touching the store.
LEMMA AnswerSound ==
  ASSUME Sound, NEW p \in Phone, NEW m, NEW at \in Attempt, at.id = attempt[p].id,
         at.role = attempt[p].role, at.linked = attempt[p].linked,
         PhaseBacked(p, at, agreed), NEW kind, NEW out \in Seq(Message),
         FramesBacked(p, at.id, out, agreed), Answer(p, m, at, kind, out)
  PROVE  ConsentInv'
<1>1. /\ Proceed(p, Rest(p), at, store[p], kind, out)
      /\ inbox[p] # <<>> /\ attempt[p] # NoAttempt /\ agreed' = agreed
  BY DEF Answer, Arrives, NoAttempt, history
<1>2. UNCHANGED <<owner, joiner, agreed>>
  BY <1>1 DEF Proceed, FailAttempt, Complete, Release
<1>3. \A i \in DOMAIN Rest(p) : \E j \in DOMAIN inbox[p] : Rest(p)[i] = inbox[p][j]
  BY <1>1, RestFrames DEF Sound
<1>4. Grows /\ store[p] \in Store /\ Backed(p, store[p], agreed')
  BY <1>2, QuietStep
<1>5. PhaseBacked(p, at, agreed') /\ FramesBacked(p, at.id, out, agreed')
  BY <1>1
<1> QED
  BY <1>1, <1>3, <1>4, <1>5, ProceedSound

\* Frames that say nothing of consent.
PlainFrames == Message \ {"PAIR_CONFIRM", "PAIR_COMMIT"}

\* A plain frame stands for nothing.
LEMMA PlainBacked ==
  ASSUME NEW p, NEW a, NEW ag, NEW m \in PlainFrames
  PROVE  <<m>> \in Seq(Message) /\ FramesBacked(p, a, <<m>>, ag)
  BY DEF FramesBacked, PlainFrames

\* The creator learns of the socket it already holds.
LEMMA ReceiveConnectedSound ==
  ASSUME Sound, NEW p \in Phone, ReceiveConnected(p)
  PROVE  ConsentInv'
<1>0. /\ attempt' = [attempt EXCEPT ![p].linked = TRUE]
      /\ inbox' = [inbox EXCEPT ![p] = Rest(p)]
      /\ UNCHANGED <<owner, joiner, listener, sock, up, store, agreed>>
      /\ attempt[p].id = sock[p] /\ attempt[p].id # NoPair /\ inbox[p] # <<>>
  BY DEF ReceiveConnected, Active, history
<1>1. Grows
  BY <1>0, QuietStep
<1>2. ASSUME NEW q \in Phone
      PROVE  /\ attempt'[q] = NoAttempt => attempt[q] = NoAttempt
             /\ attempt'[q].id = attempt[q].id /\ attempt'[q].role = attempt[q].role
             /\ attempt'[q].phase = attempt[q].phase
             /\ attempt'[q].linked => attempt[q].linked \/ sock[q] = attempt[q].id
             /\ attempt[q] = NoAttempt => attempt'[q] = NoAttempt
  <2>1. attempt[q] \in Attempt
    BY DEF Sound, NetworkOK
  <2>2. CASE q = p
    BY <1>0, <2>1, <2>2 DEF Attempt, NoAttempt, Sound, NetworkOK
  <2>3. CASE q # p
    BY <1>0, <2>3 DEF Sound, NetworkOK
  <2> QED
    BY <2>2, <2>3
<1>3. Roles'
  <2>1. ASSUME NEW q \in Phone PROVE RoleOK(q)'
    <3>1. RoleOK(q)
      BY RolesParts DEF Sound, ConsentInv
    <3> QED
      BY <1>0, <1>2, <3>1 DEF RoleOK
  <2> QED
    BY <2>1 DEF Roles, RoleOK
<1>4. Sockets'
  BY <1>0, PairAssumption DEF Sockets, TwoPhones, Sound, ConsentInv, NetworkOK
<1>5. Fresh'
  BY <1>0 DEF Fresh, Sound, ConsentInv
<1>6. ConsentOfPhase'
  BY <1>0, <1>2 DEF ConsentOfPhase, Sound, ConsentInv
<1>7. ASSUME NEW q \in Phone PROVE InboxBacked(q)'
  <2>1. CASE q = p
    <3>1. inbox'[p] = Rest(p)
      BY <1>0 DEF Sound, NetworkOK
    <3>2. \A i \in DOMAIN inbox'[p] : \E j \in DOMAIN inbox[p] : inbox'[p][i] = inbox[p][j]
      BY <1>0, <3>1, RestFrames DEF Sound
    <3> QED
      BY <1>0, <1>1, <2>1, <3>2, InboxKept
  <2>2. CASE q # p
    <3>1. inbox'[q] = inbox[q]
      BY <1>0, <2>2 DEF Sound, NetworkOK
    <3> QED
      BY <1>0, <1>1, <3>1, InboxKept
  <2> QED
    BY <2>1, <2>2
<1>8. MaterialNeedsBothUsers'
  BY <1>0 DEF MaterialNeedsBothUsers, Holds, Sound, ConsentInv
<1> QED
  BY <1>3, <1>4, <1>5, <1>6, <1>7, <1>8 DEF ConsentInv, ConsentOfFrames, InboxBacked

\* An authenticated identity leads to a phase that stands for nothing.
LEMMA ReceiveIdentitySound ==
  ASSUME Sound, NEW p \in Phone, ReceiveIdentity(p)
  PROVE  ConsentInv'
<1>1. PICK ph \in Phase :
        /\ Enters(attempt[p], "REMOTE_AUTHENTICATED", ph)
        /\ \/ Answer(p, "PAIR_IDENTITY", [attempt[p] EXCEPT !.phase = ph],
                     "confirm_partner", <<"PAIR_IDENTITY">>)
           \/ Answer(p, "PAIR_IDENTITY", [attempt[p] EXCEPT !.phase = ph],
                     "waiting_partner", <<>>)
  BY DEF ReceiveIdentity
<1>2. ph \in {"waiting_scanner_confirmation", "scanner_can_confirm"}
  BY <1>1 DEF Enters, Transitions
<1> DEFINE at == [attempt[p] EXCEPT !.phase = ph]
<1>3. /\ at \in Attempt /\ at.id = attempt[p].id /\ at.role = attempt[p].role
      /\ at.linked = attempt[p].linked /\ at.phase = ph
  BY DEF Attempt, Sound, NetworkOK
<1>4. PhaseBacked(p, at, agreed)
  BY <1>2, <1>3 DEF PhaseBacked
<1>5. "PAIR_IDENTITY" \in PlainFrames
  BY DEF PlainFrames, Message
<1>6. /\ <<"PAIR_IDENTITY">> \in Seq(Message) /\ <<>> \in Seq(Message)
      /\ FramesBacked(p, at.id, <<"PAIR_IDENTITY">>, agreed)
      /\ FramesBacked(p, at.id, <<>>, agreed)
  BY <1>5, PlainBacked, FramesType, LastWordsBacked
<1> HIDE DEF at
<1>7. CASE Answer(p, "PAIR_IDENTITY", at, "confirm_partner", <<"PAIR_IDENTITY">>)
  BY <1>3, <1>4, <1>6, <1>7, AnswerSound
<1>8. CASE Answer(p, "PAIR_IDENTITY", at, "waiting_partner", <<>>)
  BY <1>3, <1>4, <1>6, <1>8, AnswerSound
<1> QED
  BY <1>1, <1>7, <1>8 DEF at

\* The partner's confirmation completes what the phase stands for: the scanner
\* finalizes once both users confirmed, the creator may confirm once the
\* scanner's user has.
LEMMA ReceiveConfirmSound ==
  ASSUME Sound, NEW p \in Phone, ReceiveConfirm(p)
  PROVE  ConsentInv'
<1>1. PICK ph \in Phase, kind \in UiKind :
        /\ Enters(attempt[p], "REMOTE_CONFIRM", ph)
        /\ Answer(p, "PAIR_CONFIRM", [attempt[p] EXCEPT !.phase = ph], kind, <<>>)
  BY DEF ReceiveConfirm, UiKind
<1>2. \/ attempt[p].role = "creator" /\ ph = "creator_can_confirm"
      \/ /\ attempt[p].role = "scanner" /\ ph = "finalizing"
         /\ attempt[p].phase = "waiting_creator_confirmation"
  BY <1>1 DEF Enters, Transitions
<1>3. attempt[p] # NoAttempt /\ Peer(attempt[p].id, p) \in agreed[attempt[p].id]
      /\ attempt[p].linked
  BY <1>1, FrameHeard DEF Answer, Arrives
<1>4. /\ attempt[p].id \in Pair /\ TwoPhones(attempt[p].id)
      /\ attempt[p].role = "creator" => owner[attempt[p].id] = p
      /\ attempt[p].role = "scanner" => joiner[attempt[p].id] = p
  BY <1>3, AttemptEnds DEF Sound, ConsentInv, Roles
<1>5. attempt[p].phase = "waiting_creator_confirmation" => p \in agreed[attempt[p].id]
  BY DEF Sound, ConsentInv, ConsentOfPhase
<1> DEFINE at == [attempt[p] EXCEPT !.phase = ph]
<1>6. /\ at \in Attempt /\ at.id = attempt[p].id /\ at.role = attempt[p].role
      /\ at.linked = attempt[p].linked /\ at.phase = ph
  BY DEF Attempt, Sound, NetworkOK
<1> HIDE DEF at
<1>7. PhaseBacked(p, at, agreed)
  <2>1. CASE attempt[p].role = "creator" /\ ph = "creator_can_confirm"
    BY <1>3, <1>4, <1>6, <2>1 DEF PhaseBacked, Peer
  <2>2. CASE /\ attempt[p].role = "scanner" /\ ph = "finalizing"
             /\ attempt[p].phase = "waiting_creator_confirmation"
    BY <1>3, <1>4, <1>5, <1>6, <2>2 DEF PhaseBacked, Peer, TwoPhones
  <2> QED
    BY <1>2, <2>1, <2>2
<1>8. <<>> \in Seq(Message) /\ FramesBacked(p, at.id, <<>>, agreed)
  BY FramesType, LastWordsBacked
<1> QED
  BY <1>1, <1>6, <1>7, <1>8, AnswerSound DEF at

\* The steps of finalizing: whatever a storage method does to the store, it is
\* backed, and an acknowledgement says nothing of consent.
LEMMA StoreAndAckSound ==
  ASSUME Sound, NEW p \in Phone, NEW m, Arrives(p, m), UNCHANGED agreed, NEW results,
         \A r \in results : r.store \in Store /\ Backed(p, r.store, agreed),
         NEW ack \in PlainFrames, StoreAndAck(p, results, attempt[p], ack)
  PROVE  ConsentInv'
<1>1. inbox[p] # <<>> /\ attempt[p] # NoAttempt /\ attempt[p] \in Attempt
  BY DEF Arrives, NoAttempt, Sound, NetworkOK
<1>2. WithStored(p, results, Rest(p), attempt[p], "finalizing", <<ack>>)
  BY DEF StoreAndAck
<1>3. UNCHANGED <<owner, joiner, agreed>>
  BY <1>2 DEF WithStored, Proceed, FailAttempt, Complete, Release
<1>4. Grows /\ PhaseBacked(p, attempt[p], agreed')
  BY <1>3, QuietStep
<1>5. \A i \in DOMAIN Rest(p) : \E j \in DOMAIN inbox[p] : Rest(p)[i] = inbox[p][j]
  BY <1>1, RestFrames DEF Sound
<1>6. <<ack>> \in Seq(Message) /\ FramesBacked(p, attempt[p].id, <<ack>>, agreed')
  BY PlainBacked
<1>7. \A r \in results : r.store \in Store /\ Backed(p, r.store, agreed')
  BY <1>3 DEF Backed
<1> QED
  BY <1>1, <1>2, <1>4, <1>5, <1>6, <1>7, WithStoredSound

\* What the store of a phone holds now is backed.
LEMMA StoreBacked ==
  ASSUME Sound, NEW p \in Phone
  PROVE  store[p] \in Store /\ Backed(p, store[p], agreed)
  BY MaterialParts DEF Sound, TrustOK, ConsentInv

\* The scanner stages on a PAIR_COMMIT, which stands for both consents.
LEMMA ReceiveCommitSound ==
  ASSUME Sound, NEW p \in Phone, ReceiveCommit(p)
  PROVE  ConsentInv'
<1>1. /\ Arrives(p, "PAIR_COMMIT") /\ UNCHANGED agreed
      /\ StoreAndAck(p, Stage(store[p], attempt[p].id), attempt[p], "scanner_staged")
  BY DEF ReceiveCommit, Finalizing, history
<1>2. /\ attempt[p] # NoAttempt
      /\ {owner[attempt[p].id], joiner[attempt[p].id]} \subseteq agreed[attempt[p].id]
  BY <1>1, FrameHeard
<1>3. UNCHANGED <<owner, joiner, agreed>>
  BY <1>1 DEF StoreAndAck, WithStored, Proceed, FailAttempt, Complete, Release
<1>4. Grows
  BY <1>3, QuietStep
<1>5. ASSUME NEW r \in Stage(store[p], attempt[p].id)
      PROVE  r.store \in Store /\ Backed(p, r.store, agreed)
  BY <1>2, <1>3, <1>4, StageBacked DEF Backed
<1>6. "scanner_staged" \in PlainFrames
  BY DEF PlainFrames, Message
<1> QED
  BY <1>1, <1>5, <1>6, StoreAndAckSound

\* installCommitted moves material the phone already holds.
LEMMA InstallOnSound ==
  ASSUME Sound, NEW p \in Phone, NEW r, NEW m, NEW ack \in PlainFrames, InstallOn(p, r, m, ack)
  PROVE  ConsentInv'
<1>1. PICK res \in InstallCommitted(store[p]) : StoreAndAck(p, {res}, attempt[p], ack)
  BY DEF InstallOn
<1>2. Arrives(p, m) /\ UNCHANGED agreed
  BY DEF InstallOn, Finalizing
<1>3. store[p] \in Store /\ Backed(p, store[p], agreed)
  BY StoreBacked
<1>4. res.store \in Store /\ Backed(p, res.store, agreed)
  BY <1>3, InstallMovesMaterial, BackedWithin
<1>5. \A x \in {res} : x.store \in Store /\ Backed(p, x.store, agreed)
  BY <1>4
<1> QED
  BY <1>1, <1>2, <1>5, StoreAndAckSound

\* markConfirmed on the scanner adds no material.
LEMMA ReceiveCreatorCommittedSound ==
  ASSUME Sound, NEW p \in Phone, ReceiveCreatorCommitted(p)
  PROVE  ConsentInv'
<1>1. /\ Arrives(p, "creator_committed") /\ UNCHANGED agreed
      /\ StoreAndAck(p, MarkConfirmed(store[p]), attempt[p], "scanner_confirmed")
  BY DEF ReceiveCreatorCommitted, Finalizing, history
<1>2. \A r \in MarkConfirmed(store[p]) : r.store \in Store /\ Backed(p, r.store, agreed)
  BY StoreBacked, MarkConfirmedKeepsMaterial, BackedWithin
<1>3. "scanner_confirmed" \in PlainFrames
  BY DEF PlainFrames, Message
<1> QED
  BY <1>1, <1>2, <1>3, StoreAndAckSound

\* markConfirmed on the creator adds no material.
LEMMA ReceiveScannerConfirmedSound ==
  ASSUME Sound, NEW p \in Phone, ReceiveScannerConfirmed(p)
  PROVE  ConsentInv'
<1> DEFINE at == [attempt[p] EXCEPT !.converged = TRUE]
<1>1. PICK r \in MarkConfirmed(store[p]) :
        \/ Proceed(p, Rest(p), at, r.store, "finalizing", <<"creator_confirmed">>)
        \/ FailAttempt(p, r.store, attempt[p].converged, TRUE)
  BY DEF ReceiveScannerConfirmed
<1>2. /\ inbox[p] # <<>> /\ attempt[p] # NoAttempt /\ agreed' = agreed
  BY DEF ReceiveScannerConfirmed, Finalizing, Arrives, NoAttempt, history
<1>3. UNCHANGED <<owner, joiner, agreed>>
  BY <1>1, <1>2 DEF Proceed, FailAttempt, Complete, Release
<1>4. Grows /\ PhaseBacked(p, attempt[p], agreed)
  BY <1>3, QuietStep
<1>5. r.store \in Store /\ Backed(p, r.store, agreed')
  BY <1>2, StoreBacked, MarkConfirmedKeepsMaterial, BackedWithin
<1>6. /\ at \in Attempt /\ at.id = attempt[p].id /\ at.role = attempt[p].role
      /\ at.linked = attempt[p].linked /\ at.phase = attempt[p].phase
  BY DEF Attempt, Sound, NetworkOK
<1> HIDE DEF at
<1>7. PhaseBacked(p, at, agreed')
  BY <1>2, <1>4, <1>6 DEF PhaseBacked
<1>8. "creator_confirmed" \in PlainFrames
  BY DEF PlainFrames, Message
<1>9. /\ <<"creator_confirmed">> \in Seq(Message)
      /\ FramesBacked(p, at.id, <<"creator_confirmed">>, agreed')
  BY <1>8, PlainBacked
<1>10. \A i \in DOMAIN Rest(p) : \E j \in DOMAIN inbox[p] : Rest(p)[i] = inbox[p][j]
  BY <1>2, RestFrames DEF Sound
<1>11. CASE Proceed(p, Rest(p), at, r.store, "finalizing", <<"creator_confirmed">>)
  BY <1>2, <1>4, <1>5, <1>6, <1>7, <1>9, <1>10, <1>11, ProceedSound
<1>12. CASE FailAttempt(p, r.store, attempt[p].converged, TRUE)
  BY <1>2, <1>4, <1>5, <1>12, FailAttemptSound
<1> QED
  BY <1>1, <1>11, <1>12

\* The two frames that end an attempt.
LEMMA LastFrameSound ==
  ASSUME Sound, NEW p \in Phone, ReceiveCreatorConfirmed(p) \/ ReceiveConverged(p)
  PROVE  ConsentInv'
<1>0. attempt[p] # NoAttempt
  <2>1. attempt[p].linked
    BY Zenon DEF ReceiveCreatorConfirmed, ReceiveConverged, Finalizing, Arrives
  <2> QED
    BY <2>1 DEF NoAttempt
<1>1. /\ UNCHANGED history
      /\ \/ \E conv : FailAttempt(p, store[p], conv, TRUE)
         \/ Complete(p, store[p], <<"converged">>)
         \/ Complete(p, store[p], <<>>)
  BY Zenon DEF ReceiveCreatorConfirmed, ReceiveConverged
<1>2. CASE \E conv : FailAttempt(p, store[p], conv, TRUE)
  BY <1>0, <1>1, <1>2, FailHereSound
<1>3. ASSUME NEW out \in {<<>>, <<"converged">>}, Complete(p, store[p], out)
      PROVE  ConsentInv'
  <2>1. UNCHANGED <<owner, joiner, agreed>>
    BY <1>1, <1>3 DEF Complete, Release, history
  <2>2. Grows /\ store[p] \in Store /\ Backed(p, store[p], agreed')
    BY <2>1, QuietStep
  <2>3. out \in Seq(Message) /\ FramesBacked(p, attempt[p].id, out, agreed')
    BY <1>3, FramesType, LastWordsBacked DEF Message
  <2> QED
    BY <1>0, <1>3, <2>2, <2>3, CompleteSound
<1> QED
  BY <1>1, <1>2, <1>3

\* A dead socket without an attempt takes its frames with it.
LEMMA OrphanClosedSound ==
  ASSUME Sound, NEW p \in Phone, OrphanClosed(p)
  PROVE  ConsentInv'
<1>0. /\ sock' = [sock EXCEPT ![p] = NoPair] /\ inbox' = [inbox EXCEPT ![p] = <<>>]
      /\ sock[p] \notin up /\ sock[p] # attempt[p].id
      /\ UNCHANGED <<attempt, store, owner, joiner, listener, up, agreed>>
  BY DEF OrphanClosed, service, history
<1>1. Grows
  BY <1>0, QuietStep
<1>2. /\ sock'[p] = NoPair /\ inbox'[p] = <<>>
      /\ \A q \in Phone : q # p => sock'[q] = sock[q] /\ inbox'[q] = inbox[q]
  BY <1>0 DEF Sound, NetworkOK
<1>3. Roles'
  <2>1. ASSUME NEW q \in Phone PROVE RoleOK(q)'
    <3>1. RoleOK(q)
      BY RolesParts DEF Sound, ConsentInv
    <3> QED
      BY <1>0, <1>2, <3>1 DEF RoleOK
  <2> QED
    BY <2>1 DEF Roles, RoleOK
<1>4. Sockets'
  BY <1>0, <1>2 DEF Sockets, TwoPhones, Sound, ConsentInv
<1>5. (Fresh /\ ConsentOfPhase /\ MaterialNeedsBothUsers)'
  BY <1>0 DEF Fresh, ConsentOfPhase, MaterialNeedsBothUsers, Holds, Sound, ConsentInv
<1>6. ASSUME NEW q \in Phone PROVE InboxBacked(q)'
  <2>1. CASE q = p
    BY <1>2, <2>1 DEF InboxBacked
  <2>2. CASE q # p
    BY <1>0, <1>1, <1>2, <2>2, InboxKept
  <2> QED
    BY <2>1, <2>2
<1> QED
  BY <1>3, <1>4, <1>5, <1>6 DEF ConsentInv, ConsentOfFrames, InboxBacked

\* No step of the event loop leaves material without both consents.
LEMMA ServiceStepSound ==
  ASSUME Sound, NEW p \in Phone, ServiceStep(p)
  PROVE  ConsentInv'
<1>0. store[p] \in Store /\ attempt[p] \in Attempt /\ PhaseBacked(p, attempt[p], agreed)
  BY PhaseParts DEF Sound, TrustOK, NetworkOK, ConsentInv
<1>1. CASE Initialize(p)
  <2>1. PICK r \in DiscardIncomplete(store[p]) : store' = [store EXCEPT ![p] = r.store]
    BY <1>1 DEF Initialize, Revalidate, SetTrust
  <2> QED
    BY <1>0, <1>1, <2>1, DiscardIncompleteRemoves, LossSound DEF Initialize
<1>2. CASE ReceiveConnected(p) \/ ReceiveIdentity(p) \/ ReceiveConfirm(p) \/ ReceiveCommit(p)
  BY <1>2, ReceiveConnectedSound, ReceiveIdentitySound, ReceiveConfirmSound, ReceiveCommitSound
<1>3. CASE ReceiveHello(p) \/ ReceiveScannerStaged(p)
  <2>1. "PAIR_IDENTITY" \in PlainFrames /\ "creator_ready" \in PlainFrames
    BY DEF PlainFrames, Message
  <2>2. ASSUME NEW m, NEW ack \in PlainFrames, Answer(p, m, attempt[p], ui[p], <<ack>>)
        PROVE  ConsentInv'
    <3>1. <<ack>> \in Seq(Message) /\ FramesBacked(p, attempt[p].id, <<ack>>, agreed)
      BY PlainBacked
    <3> QED
      BY <1>0, <2>2, <3>1, AnswerSound
  <2> QED
    BY <1>3, <2>1, <2>2 DEF ReceiveHello, ReceiveScannerStaged
<1>4. CASE ReceiveCreatorReady(p) \/ ReceiveScannerCommitted(p)
  <2>1. "scanner_committed" \in PlainFrames /\ "creator_committed" \in PlainFrames
    BY DEF PlainFrames, Message
  <2> QED
    BY <1>4, <2>1, InstallOnSound DEF ReceiveCreatorReady, ReceiveScannerCommitted
<1>5. CASE ReceiveCreatorCommitted(p) \/ ReceiveScannerConfirmed(p)
  BY <1>5, ReceiveCreatorCommittedSound, ReceiveScannerConfirmedSound
<1>6. CASE ReceiveCreatorConfirmed(p) \/ ReceiveConverged(p)
  BY <1>6, LastFrameSound
<1>7. CASE ReceiveCancel(p)
  <2>1. AbandonAttempt(p, <<>>) /\ attempt[p] # NoAttempt /\ agreed' = agreed
    BY <1>7 DEF ReceiveCancel, Arrives, NoAttempt, history
  <2> QED
    BY <2>1, SameConsent, AbandonSound DEF Sound
<1>8. CASE ReceiveError(p) \/ ReceiveClosed(p) \/ ReceiveListenerError(p)
  <2>1. attempt[p] # NoAttempt
    <3>1. attempt[p].linked \/ attempt[p].role = "creator"
      BY <1>8, Zenon DEF ReceiveError, ReceiveClosed, ReceiveListenerError, Arrives
    <3> QED
      BY <3>1 DEF NoAttempt
  <2>2. UNCHANGED history /\ FailAttempt(p, store[p], attempt[p].converged, FALSE)
    BY <1>8, Zenon DEF ReceiveError, ReceiveClosed, ReceiveListenerError
  <2> QED
    BY <2>1, <2>2, FailHereSound
<1>9. CASE OrphanClosed(p)
  BY <1>9, OrphanClosedSound
<1> QED
  BY <1>1, <1>2, <1>3, <1>4, <1>5, <1>6, <1>7, <1>8, <1>9 DEF ServiceStep

\* The expiry timer fails the attempt like any other error.
LEMMA ExpireSound ==
  ASSUME Sound, NEW p \in Phone, Expire(p)
  PROVE  ConsentInv'
<1>1. attempt[p] # NoAttempt
  BY DEF Expire, Active, NoAttempt
<1>2. UNCHANGED history /\ FailAttempt(p, store[p], attempt[p].converged, TRUE)
  BY Zenon DEF Expire
<1> QED
  BY <1>1, <1>2, FailHereSound

-----------------------------------------------------------------------------
(***************************************************************************)
(* The environment, and the theorem.                                       *)
(***************************************************************************)

\* A process death while the creator stages, or while the scanner handles
\* PAIR_COMMIT, is the only one that leaves new material behind.
LEMMA InterruptedBacked ==
  ASSUME Sound, NEW p \in Phone, NEW s \in Interrupted(p),
         agreed' = IF attempt[p].role = "creator" /\ s.pendingSecret = attempt[p].id
                   THEN [agreed EXCEPT ![attempt[p].id] = @ \cup {p}] ELSE agreed
  PROVE  Grows /\ s \in Store /\ Backed(p, s, agreed')
<1> DEFINE at == attempt[p]
           a == at.id
           next == IF at.linked /\ inbox[p] # <<>> THEN Head(inbox[p]) ELSE "none"
           staging == at.phase = "creator_can_confirm" \/ next = "PAIR_COMMIT"
<1>1. store[p] \in Store /\ Backed(p, store[p], agreed)
  BY StoreBacked
<1>2. Grows
  <2>1. CASE at.role = "creator" /\ s.pendingSecret = a
    <3>1. at # NoAttempt
      BY <2>1 DEF NoAttempt
    <3> QED
      BY <2>1, <3>1, AttemptEnds, NewConsent DEF Sound
  <2>2. CASE ~(at.role = "creator" /\ s.pendingSecret = a)
    BY <2>2, SameConsent DEF Sound
  <2> QED
    BY <2>1, <2>2
<1>3. Backed(p, store[p], agreed')
  BY <1>1, <1>2 DEF Backed, Grows
<1>4. CASE Within(s, store[p])
  BY <1>2, <1>3, <1>4, BackedWithin
<1>5. CASE staging /\ s \in StageWrites(store[p], a)
  <2>1. at # NoAttempt
    BY <1>5 DEF NoAttempt
  <2>2. a \in Pair /\ p \in {owner[a], joiner[a]}
    BY <2>1, AttemptEnds
  <2>3. s \in Store /\ Material(s) \subseteq Material(store[p]) \cup {a, NoPair}
    BY <1>1, <1>5, <2>2, StageWritesType DEF PairOrNone
  <2>4. s = store[p] \/ s.pendingSecret = a
    BY <1>1, <1>5 DEF StageWrites, Store
  <2>5. s = store[p] \/ {owner[a], joiner[a]} \subseteq agreed'[a]
    <3>1. CASE at.phase = "creator_can_confirm"
      <4>1. at.role = "creator" /\ joiner[a] \in agreed[a]
        BY <3>1 DEF Sound, ConsentInv, ConsentOfPhase
      <4>2. owner[a] = p
        BY <2>1, <4>1 DEF Sound, ConsentInv, Roles
      <4>3. CASE s.pendingSecret = a
        <5>1. agreed' = [agreed EXCEPT ![a] = @ \cup {p}]
          BY <4>1, <4>3
        <5>2. agreed'[a] = agreed[a] \cup {p}
          BY <2>2, <5>1, NewConsent DEF Sound
        <5> QED
          BY <4>1, <4>2, <5>2
      <4> QED
        BY <2>4, <4>3
    <3>2. CASE next = "PAIR_COMMIT"
      <4>1. Arrives(p, "PAIR_COMMIT")
        BY <3>2 DEF Arrives
      <4>2. {owner[a], joiner[a]} \subseteq agreed[a]
        BY <4>1, FrameHeard
      <4> QED
        BY <1>2, <2>2, <4>2 DEF Grows
    <3> QED
      BY <1>5, <3>1, <3>2
  <2>6. CASE s = store[p]
    BY <1>1, <1>2, <1>3, <2>6
  <2>7. CASE {owner[a], joiner[a]} \subseteq agreed'[a]
    BY <1>2, <1>3, <2>2, <2>3, <2>7, PairAssumption DEF Backed
  <2> QED
    BY <2>5, <2>6, <2>7
<1>6. \/ staging /\ s \in StageWrites(store[p], a)
      \/ s \in InstallWrites(store[p])
      \/ s \in Remnants(store[p])
      \/ s \in PartlyNoPending(store[p])
  BY DEF Interrupted
<1>7. s \in InstallWrites(store[p]) => Within(s, store[p])
  BY <1>1, InstallWritesWithin
<1>8. s \in Remnants(store[p]) => Within(s, store[p])
  BY <1>1, RemnantsWithin
<1>9. s \in PartlyNoPending(store[p]) => Within(s, store[p])
  BY <1>1, PartlyNoPendingWithin
<1> QED
  BY <1>4, <1>5, <1>6, <1>7, <1>8, <1>9

\* A process death takes the phone's end of the network with it.
LEMMA CrashSound ==
  ASSUME Sound, NEW p \in Phone, Crash(p)
  PROVE  ConsentInv'
<1>1. PICK s \in Interrupted(p) :
        /\ store' = [store EXCEPT ![p] = s]
        /\ agreed' = IF attempt[p].role = "creator" /\ s.pendingSecret = attempt[p].id
                     THEN [agreed EXCEPT ![attempt[p].id] = @ \cup {p}] ELSE agreed
  BY DEF Crash, SetTrust
<1>2. Grows /\ s \in Store /\ Backed(p, s, agreed')
  BY <1>1, InterruptedBacked
<1>3. /\ attempt' = [attempt EXCEPT ![p] = NoAttempt]
      /\ listener' = [a \in Pair |-> IF owner[a] = p /\ listener[a] = "open"
                                     THEN "closed" ELSE listener[a]]
      /\ sock' = [sock EXCEPT ![p] = NoPair]
      /\ up' = up \ {sock[p]}
      /\ inbox' = [inbox EXCEPT ![p] = <<>>]
      /\ UNCHANGED <<owner, joiner>>
  BY DEF Crash
<1>4. /\ attempt'[p] = NoAttempt /\ sock'[p] = NoPair /\ inbox'[p] = <<>>
      /\ \A q \in Phone : q # p => /\ attempt'[q] = attempt[q]
                                   /\ sock'[q] = sock[q] /\ inbox'[q] = inbox[q]
  BY <1>3 DEF Sound, NetworkOK
<1>5. Roles'
  <2>1. ASSUME NEW q \in Phone PROVE RoleOK(q)'
    <3>1. RoleOK(q)
      BY RolesParts DEF Sound, ConsentInv
    <3> QED
      BY <1>3, <1>4, <3>1 DEF RoleOK
  <2> QED
    BY <2>1 DEF Roles, RoleOK
<1>6. Sockets'
  BY <1>3, <1>4 DEF Sockets, TwoPhones, Sound, ConsentInv
<1>7. Fresh'
  BY <1>3, PhoneAssumption DEF Fresh, Sound, ConsentInv
<1>8. ConsentOfPhase'
  <2>1. ASSUME NEW q \in Phone PROVE PhaseBacked(q, attempt[q], agreed)'
    <3>1. CASE q = p
      BY <1>4, <3>1 DEF PhaseBacked, NoAttempt
    <3>2. CASE q # p
      <4>1. PhaseBacked(q, attempt[q], agreed')
        BY <1>2, <1>3, <1>4, <3>2, BackedGrows
      <4> QED
        BY <1>3, <1>4, <3>2, <4>1 DEF PhaseBacked
    <3> QED
      BY <3>1, <3>2
  <2> QED
    BY <2>1 DEF ConsentOfPhase, PhaseBacked
<1>9. ConsentOfFrames'
  <2>1. ASSUME NEW q \in Phone PROVE InboxBacked(q)'
    <3>1. CASE q = p
      BY <1>4, <3>1 DEF InboxBacked
    <3>2. CASE q # p
      BY <1>2, <1>3, <1>4, <3>2, InboxKept
    <3> QED
      BY <3>1, <3>2
  <2> QED
    BY <2>1 DEF ConsentOfFrames, InboxBacked
<1> QED
  BY <1>1, <1>2, <1>3, <1>5, <1>6, <1>7, <1>8, <1>9, StoreSound

\* A link or a listener that breaks takes nothing back and adds nothing.
LEMMA EnvironmentSound ==
  ASSUME Sound, Environment
  PROVE  ConsentInv'
<1>1. ASSUME NEW a \in Pair, LinkBreaks(a) PROVE ConsentInv'
  <2>1. up' \subseteq up /\ UNCHANGED <<attempt, store, owner, joiner, listener, sock, inbox, agreed>>
    BY <1>1 DEF LinkBreaks, service, history
  <2> QED
    BY <2>1 DEF Sound, ConsentInv, Roles, Sockets, TwoPhones, Fresh, ConsentOfPhase,
       ConsentOfFrames, Peer, MaterialNeedsBothUsers, Holds
<1>2. ASSUME NEW a \in Pair, ListenerBreaks(a) PROVE ConsentInv'
  <2>1. /\ listener[a] = "open" /\ listener' = [listener EXCEPT ![a] = "failed"]
        /\ UNCHANGED <<attempt, store, owner, joiner, sock, up, inbox, agreed>>
    BY <1>2 DEF ListenerBreaks, service, history
  <2>2. Fresh'
    BY <2>1 DEF Fresh, Sound, ConsentInv, NetworkOK
  <2> QED
    BY <2>1, <2>2 DEF Sound, ConsentInv, Roles, Sockets, TwoPhones, ConsentOfPhase,
       ConsentOfFrames, Peer, MaterialNeedsBothUsers, Holds
<1> QED
  BY <1>1, <1>2, CrashSound DEF Environment

\* A first start holds no material and knows no attempt.
LEMMA InitSound == Init => ConsentInv
<1> SUFFICES ASSUME Init PROVE ConsentInv
  OBVIOUS
<1>1. \A p \in Phone, a \in Pair : ~Holds(p, a)
  BY PairAssumption DEF Init, EmptyStore, Material, Holds
<1>2. Roles /\ Sockets /\ Fresh
  BY DEF Init, Roles, Sockets, Fresh
<1>3. ConsentOfPhase /\ ConsentOfFrames
  BY DEF Init, ConsentOfPhase, ConsentOfFrames, NoAttempt
<1> QED
  BY <1>1, <1>2, <1>3 DEF ConsentInv, MaterialNeedsBothUsers

\* ConsentInv is inductive on well-typed states.
LEMMA NextSound == TypeOK /\ ConsentInv /\ [Next]_vars => ConsentInv'
<1> SUFFICES ASSUME TypeOK, ConsentInv, [Next]_vars PROVE ConsentInv'
  OBVIOUS
<1>1. Sound
  BY TypeOKParts DEF Sound
<1>2. CASE \E p \in Phone : UserStep(p) \/ ServiceStep(p) \/ Expire(p)
  BY <1>1, <1>2, UserStepSound, ServiceStepSound, ExpireSound
<1>3. CASE Environment
  BY <1>1, <1>3, EnvironmentSound
<1>4. CASE UNCHANGED vars
  BY <1>4 DEF vars, service, network, history, ConsentInv, Roles, Sockets, TwoPhones, Fresh,
     ConsentOfPhase, ConsentOfFrames, Peer, MaterialNeedsBothUsers, Holds
<1> QED
  BY <1>2, <1>3, <1>4 DEF Next

\* The strengthening holds throughout: what phases and frames stand for is what
\* the users did (PairingService.routeMessage, confirmPartnerNow).
THEOREM ConsentInvariant == Spec => []ConsentInv
<1>1. Spec => [](TypeOK /\ ConsentInv)
  BY InitType, NextType, InitSound, NextSound, PTL DEF Spec
<1> QED
  BY <1>1, PTL

\* Whatever the users, the link, the storage and process deaths do, trust
\* material on a phone belongs to one of its own attempts and both users of
\* that attempt confirmed the partner.
THEOREM ConsentCorrect == Spec => []MaterialNeedsBothUsers
<1>1. ConsentInv => MaterialNeedsBothUsers
  BY DEF ConsentInv
<1> QED
  BY <1>1, ConsentInvariant, PTL
=============================================================================
