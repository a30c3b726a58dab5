------------------------- MODULE PairingProperties -------------------------
(***************************************************************************)
(* What pairing must guarantee, whatever the users, the link and the       *)
(* storage do.                                                             *)
(***************************************************************************)
EXTENDS Pairing

\* Every variable stays in its domain.
TypeOK ==
  /\ attempt \in [Phone -> Attempt]
  /\ ui \in [Phone -> UiKind]
  /\ store \in [Phone -> Store]
  /\ owner \in [Pair -> Phone \cup {NoPhone}]
  /\ joiner \in [Pair -> Phone \cup {NoPhone}]
  /\ listener \in [Pair -> {"none", "open", "taken", "failed", "closed"}]
  /\ sock \in [Phone -> PairOrNone]
  /\ up \subseteq Pair
  /\ inbox \in [Phone -> Seq(Message)]
  /\ agreed \in [Pair -> SUBSET Phone]
  /\ pledged \in [Pair -> SUBSET Phone]
  /\ cancelled \subseteq Pair

Holds(p, a) == a \in Material(store[p])

\* Trust material, even provisional or left over by a crash, exists only for
\* the two phones of an attempt, and only after both of their users confirmed
\* (PairingService.confirmPartnerNow, the PAIR_COMMIT case of routeMessage).
MaterialNeedsBothUsers ==
  \A p \in Phone, a \in Pair :
    Holds(p, a) => /\ p \in {owner[a], joiner[a]}
                   /\ {owner[a], joiner[a]} \subseteq agreed[a]

(***************************************************************************)
(* The strengthening of MaterialNeedsBothUsers that is inductive: whose    *)
(* attempt it is, which end of which socket a phone holds, and what the    *)
(* phase of an attempt or a frame on its way says about the users.         *)
(***************************************************************************)
Roles ==
  \A p \in Phone :
    \/ attempt[p] = NoAttempt
    \/ LET at == attempt[p] IN
       /\ at.id \in Pair
       /\ at.linked => sock[p] = at.id
       /\ \/ at.role = "creator" /\ owner[at.id] = p
          \/ at.role = "scanner" /\ joiner[at.id] = p /\ owner[at.id] \in Phone \ {p}

TwoPhones(a) == owner[a] \in Phone /\ joiner[a] \in Phone /\ owner[a] # joiner[a]

Sockets ==
  /\ \A p \in Phone :
       \/ sock[p] = NoPair /\ inbox[p] = <<>>
       \/ sock[p] \in Pair /\ TwoPhones(sock[p]) /\ p \in {owner[sock[p]], joiner[sock[p]]}
  /\ \A a \in up : TwoPhones(a) /\ sock[owner[a]] = a /\ sock[joiner[a]] = a

Fresh ==
  \A a \in Pair :
    /\ owner[a] = NoPhone => joiner[a] = NoPhone /\ listener[a] = "none"
    /\ listener[a] = "open" => joiner[a] = NoPhone

ConsentOfPhase ==
  \A p \in Phone :
    LET at == attempt[p] IN
    /\ at.phase = "creator_can_confirm" =>
         at.role = "creator" /\ joiner[at.id] \in agreed[at.id]
    /\ at.phase = "waiting_creator_confirmation" => p \in agreed[at.id]
    /\ at.phase = "finalizing" => {owner[at.id], joiner[at.id]} \subseteq agreed[at.id]

ConsentOfFrames ==
  \A p \in Phone : \A i \in DOMAIN inbox[p] :
    /\ inbox[p][i] = "PAIR_CONFIRM" => Peer(sock[p], p) \in agreed[sock[p]]
    /\ inbox[p][i] = "PAIR_COMMIT" =>
         {owner[sock[p]], joiner[sock[p]]} \subseteq agreed[sock[p]]

ConsentInv ==
  Roles /\ Sockets /\ Fresh /\ ConsentOfPhase /\ ConsentOfFrames /\ MaterialNeedsBothUsers

\* The two durable halves belong to the same pairing: a phone never combines
\* the secret of one attempt with the partner of another, although a failed
\* clean-up can leave either half of either pair behind for the next attempt.
SecretBelongsToMetadata ==
  \A p \in Phone :
    store[p].meta # NoPair /\ store[p].secret # NoPair
      => store[p].meta = store[p].secret

\* The order of the acknowledgement chain: while the creator's attempt runs,
\* the scanner is never confirmed without the creator at least committed, and
\* while the scanner's attempt runs the creator is never confirmed first.
ConfirmationOrder ==
  \A a \in Pair :
    owner[a] \in Phone /\ joiner[a] \in Phone =>
      /\ attempt[owner[a]].id = a /\ Trusts(store[joiner[a]], a)
           => store[owner[a]].meta = a /\ store[owner[a]].secret = a
      /\ attempt[joiner[a]].id = a /\ Trusts(store[owner[a]], a)
           => Trusts(store[joiner[a]], a)

\* What the screen says is what the trust store holds, with no attempt behind
\* it: "paired" is a loadable confirmed pair, "unpaired" is no material at all.
ScreenMatchesTrust ==
  \A p \in Phone :
    /\ ui[p] = "paired" => LoadResult(store[p]) = "confirmed"
    /\ ui[p] = "unpaired" => store[p] = EmptyStore
    /\ ui[p] \in {"paired", "unpaired", "error", "loading"} => ~Active(p)

\* No honest frame is ever refused: whatever is next in the inbox of a running
\* attempt is expected in its role and phase, so the PairingProtocolError and
\* PairingStateError paths of routeMessage are for foreign frames only.
Expected(at) ==
  LET r == at.role  ph == at.phase IN
  {"PAIR_CANCEL", "PAIR_ERROR"} \cup
  CASE r = "creator" /\ ph = "waiting_remote_identity" -> {"PAIR_HELLO", "PAIR_IDENTITY"}
    [] r = "creator" /\ ph = "waiting_scanner_confirmation" -> {"PAIR_CONFIRM"}
    [] r = "creator" /\ ph = "finalizing" ->
         {"scanner_staged", "scanner_committed", "scanner_confirmed", "converged"}
    [] r = "scanner" /\ ph = "waiting_remote_identity" -> {"PAIR_IDENTITY"}
    [] r = "scanner" /\ ph = "waiting_creator_confirmation" -> {"PAIR_CONFIRM"}
    [] r = "scanner" /\ ph = "finalizing" ->
         {"PAIR_COMMIT", "creator_ready", "creator_committed", "creator_confirmed"}
    [] OTHER -> {}

FramesArriveInPhase ==
  \A p \in Phone :
    attempt[p].linked /\ inbox[p] # <<>> => Head(inbox[p]) \in Expected(attempt[p])

\* A confirmed pair is removed only by the attempt that made it or by the user
\* forgetting it: scanning or showing another QR while paired never costs it.
TrustOutlivesOtherAttempts ==
  [][\A p \in Phone, a \in Pair :
       Trusts(store[p], a) /\ ~Trusts(store'[p], a)
         => attempt[p].id = a \/ (ui[p] = "paired" /\ ~Active(p) /\ ui'[p] \in {"unpaired", "error", "loading"})]_vars

\* Once the creator has recorded durable convergence, no failure rolls the
\* pair back: only a cancel, a process death or broken storage ends the attempt
\* in anything but "paired".
ConvergedCompletes ==
  [][\A p \in Phone :
       attempt[p].converged /\ ~Active(p)' /\ ~StorageFaults
         => \/ ui'[p] = "paired"
            \/ ui'[p] = "loading"
            \/ attempt[p].id \in cancelled']_vars

\* Every attempt ends, whatever its users and its link do: the timer is armed
\* before anything can wait.
AttemptsEnd == \A p \in Phone : Active(p) ~> ~Active(p)

\* A socket that outlives its attempt, because the attempt was cancelled before
\* the "connected" event was handled, is closed in the end, so that the phone
\* can pair again.
OrphanSocketsClose ==
  \A p \in Phone : (sock[p] # NoPair /\ sock[p] # attempt[p].id)
                     ~> (sock[p] = NoPair \/ sock[p] = attempt[p].id)

\* A phone trusts a pair only along the agreement of TrustAgreement: both users
\* consented, then both phones pledged, and only then either one trusts.
Agreement ==
  INSTANCE TrustAgreement
    WITH host <- owner, guest <- joiner, consent <- agreed, pledged <- pledged,
         trust <- [p \in Phone |-> IF LoadResult(store[p]) = "confirmed"
                                   THEN store[p].meta ELSE NoPair]

ImplementsAgreement == Agreement!Spec

\* A user's cancel, while the two phones are still finalizing, leaves neither of
\* them trusting the pair once both are done with it (the promise in the title
\* of tests/pairing-service.test.ts:242).
CancelClearsBoth ==
  \A a \in cancelled, p \in Phone :
    Trusts(store[p], a) => \E q \in Phone : attempt[q].id = a

\* Restarting or resetting after an interrupted removal repairs the trust store:
\* with storage working again, discardIncomplete does not fail (the advice in
\* the error messages of PairingService.cancelNow and failAttempt).
RestartRepairs ==
  \A p \in Phone : LoadResult(store[p]) = "error"
                      => \A r \in SettleDurable(NoPending(store[p])) : r.ok
=============================================================================
