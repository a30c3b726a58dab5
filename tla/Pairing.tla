------------------------------ MODULE Pairing ------------------------------
(***************************************************************************)
(* One-time pairing of phones over a QR code and a temporary TCP socket.   *)
(*                                                                         *)
(* Each phone runs a PairingService whose operations (user calls, socket   *)
(* events, the expiry timer) go through one promise queue, so one action   *)
(* of this module is one queued operation, run to its end.  Interleaving   *)
(* is between the phones, their sockets and process deaths.                *)
(*                                                                         *)
(* An attempt is identified by its pairAttemptId.  A creator generates at  *)
(* most one pairId/pairKey per attempt, so the attempt also names the pair.*)
(* The listener of an attempt accepts one socket, so the attempt also      *)
(* names its connection.                                                   *)
(***************************************************************************)
EXTENDS PairTrust, Naturals, Sequences

CONSTANTS Phone, NoPhone,
          Disturbances   \* which of AllDisturbances may happen in a behaviour

AllDisturbances == {"link", "crash", "cancel", "expiry", "revoke"}

ASSUME PhoneAssumption == NoPhone \notin Phone
ASSUME DisturbancesAssumption == Disturbances \subseteq AllDisturbances

VARIABLES
  attempt,    \* AttemptContext of each phone, or NoAttempt
  ui,         \* kind of PairingUiState of each phone
  store,      \* keys of PairTrustRepository on each phone
  owner,      \* phone that created an attempt and shows its QR
  joiner,     \* phone whose socket was accepted by the attempt's listener
  listener,   \* native one-shot listener of an attempt
  sock,       \* attempt whose socket the native module of a phone holds
  up,         \* attempts whose socket still carries data both ways
  inbox,      \* socket events not yet handled by a phone, oldest first
  agreed,     \* history: phones whose user confirmed the partner
  pledged,    \* history: phones that installed the pair as committed
  cancelled   \* history: attempts some user cancelled

service == <<attempt, ui, store>>
network == <<owner, joiner, listener, sock, up, inbox>>
history == <<agreed, pledged, cancelled>>
vars == <<service, network, history>>

-----------------------------------------------------------------------------
Phase == {"idle", "waiting_remote_identity", "waiting_scanner_confirmation",
          "scanner_can_confirm", "waiting_creator_confirmation",
          "creator_can_confirm", "finalizing"}

UiKind == {"loading", "unpaired", "paired", "creator_qr", "waiting_partner",
           "confirm_partner", "finalizing", "error"}

\* Messages; a PAIR_COMMIT_ACK is named by the phase it carries.  "connected"
\* is the event the creator's native listener emits when it accepts.
Message == {"connected", "PAIR_HELLO", "PAIR_IDENTITY", "PAIR_CONFIRM",
            "PAIR_COMMIT", "PAIR_CANCEL", "PAIR_ERROR",
            "scanner_staged", "creator_ready", "scanner_committed",
            "creator_committed", "scanner_confirmed", "creator_confirmed",
            "converged"}

Attempt == [id : PairOrNone, role : {"none", "creator", "scanner"},
            phase : Phase, linked : BOOLEAN, converged : BOOLEAN]

NoAttempt == [id |-> NoPair, role |-> "none", phase |-> "idle",
              linked |-> FALSE, converged |-> FALSE]

NewAttempt(a, r, isLinked) ==
  [id |-> a, role |-> r, phase |-> "waiting_remote_identity",
   linked |-> isLinked, converged |-> FALSE]

\* Mutant: the creator need not wait for the scanner's confirmation.
TransitionsUnordered ==
  {<<"creator", "waiting_remote_identity", "REMOTE_AUTHENTICATED", "creator_can_confirm">>,
   <<"creator", "creator_can_confirm", "LOCAL_CONFIRM", "finalizing">>,
   <<"scanner", "waiting_remote_identity", "REMOTE_AUTHENTICATED", "scanner_can_confirm">>,
   <<"scanner", "scanner_can_confirm", "LOCAL_CONFIRM", "waiting_creator_confirmation">>,
   <<"scanner", "waiting_creator_confirmation", "REMOTE_CONFIRM", "finalizing">>}

\* transitionPairingState, without the edges that only set up an attempt.
Transitions ==
  {<<"creator", "waiting_remote_identity", "REMOTE_AUTHENTICATED", "waiting_scanner_confirmation">>,
   <<"creator", "waiting_scanner_confirmation", "REMOTE_CONFIRM", "creator_can_confirm">>,
   <<"creator", "creator_can_confirm", "LOCAL_CONFIRM", "finalizing">>,
   <<"scanner", "waiting_remote_identity", "REMOTE_AUTHENTICATED", "scanner_can_confirm">>,
   <<"scanner", "scanner_can_confirm", "LOCAL_CONFIRM", "waiting_creator_confirmation">>,
   <<"scanner", "waiting_creator_confirmation", "REMOTE_CONFIRM", "finalizing">>}

Enters(at, event, ph) == <<at.role, at.phase, event, ph>> \in Transitions

CanLocalConfirm(at) == at.phase \in {"scanner_can_confirm", "creator_can_confirm"}

Active(p) == attempt[p].id # NoPair
Idle(p) == ~Active(p) /\ ui[p] # "loading"

\* The other end of the socket of attempt a.
Peer(a, p) == IF p = owner[a] THEN joiner[a] ELSE owner[a]

-----------------------------------------------------------------------------
\* What is left of the inboxes after p sent the messages out on attempt a and
\* its own inbox became rest.  A dead socket swallows what is sent.
Delivered(a, p, rest, out) ==
  [q \in Phone |-> IF q = p THEN rest
                   ELSE IF q = Peer(a, p) /\ a \in up THEN inbox[q] \o out
                   ELSE inbox[q]]

\* Mutant: cleanupAttempt forgets to close the socket.
ReleaseWithoutClose(p, lastWords) ==
  LET at == attempt[p] IN
  /\ attempt' = [attempt EXCEPT ![p] = NoAttempt]
  /\ listener' = IF at.role = "creator" /\ listener[at.id] = "open"
                 THEN [listener EXCEPT ![at.id] = "closed"] ELSE listener
  /\ UNCHANGED <<owner, joiner, sock, up, inbox>>

(***************************************************************************)
(* cleanupAttempt without its trust part: forget the attempt, close its    *)
(* socket if the service knows it, and stop the creator's listener.  A     *)
(* socket that was accepted but whose "connected" event is still queued is *)
(* not known, and stays open.  lastWords go out before the socket closes.  *)
(***************************************************************************)
Release(p, lastWords) ==
  LET at == attempt[p] IN
  /\ attempt' = [attempt EXCEPT ![p] = NoAttempt]
  /\ listener' = IF at.role = "creator" /\ listener[at.id] = "open"
                 THEN [listener EXCEPT ![at.id] = "closed"] ELSE listener
  /\ IF at.linked
     THEN /\ sock' = [sock EXCEPT ![p] = NoPair]
          /\ up' = up \ {at.id}
          /\ inbox' = Delivered(at.id, p, <<>>, lastWords)
     ELSE UNCHANGED <<sock, up, inbox>>
  /\ UNCHANGED <<owner, joiner>>

SetTrust(p, s, kind) ==
  /\ store' = [store EXCEPT ![p] = s]
  /\ ui' = [ui EXCEPT ![p] = kind]

\* completeConvergedAttempt once the confirmed pair has been loaded.
Complete(p, s, lastWords) == SetTrust(p, s, "paired") /\ Release(p, lastWords)

\* Mutant: failAttempt rolls back whether or not the creator has converged.
FailAttemptRollsBack(p, s, conv, notifyPeer) ==
  \E r \in AbortPairAttempt(s) :
    /\ SetTrust(p, r.store, "error")
    /\ Release(p, IF notifyPeer THEN <<"PAIR_ERROR">> ELSE <<>>)

(***************************************************************************)
(* failAttempt, when the trust store is s and the attempt's flag is conv:  *)
(* a converged attempt is completed; any other is aborted, which removes   *)
(* pending and durable trust, and the peer may be told.                    *)
(***************************************************************************)
FailAttempt(p, s, conv, notifyPeer) ==
  \E loaded \in LoadConfirmed(s) :
    IF conv /\ loaded = "confirmed"
    THEN Complete(p, s, <<>>)
    ELSE \E r \in AbortPairAttempt(s) :
           /\ SetTrust(p, r.store, "error")
           /\ Release(p, IF notifyPeer THEN <<"PAIR_ERROR">> ELSE <<>>)

(***************************************************************************)
(* An operation that ends with attempt at, store s and screen kind after   *)
(* sending out.  On a dead socket the send is lost, or it throws and the   *)
(* attempt fails.                                                          *)
(***************************************************************************)
Proceed(p, rest, at, s, kind, out) ==
  \/ /\ attempt' = [attempt EXCEPT ![p] = at]
     /\ SetTrust(p, s, kind)
     /\ inbox' = Delivered(at.id, p, rest, out)
     /\ UNCHANGED <<owner, joiner, listener, sock, up>>
  \/ /\ out # <<>>
     /\ at.id \notin up
     /\ FailAttempt(p, s, at.converged, TRUE)

\* A storage operation of the running attempt: go on, or fail and tell the peer.
WithStored(p, results, rest, at, kind, out) ==
  \E r \in results :
    IF r.ok THEN Proceed(p, rest, at, r.store, kind, out)
            ELSE FailAttempt(p, r.store, at.converged, TRUE)

-----------------------------------------------------------------------------
(***************************************************************************)
(* User operations.                                                        *)
(***************************************************************************)

\* startCreatorNow: the listener is up and the QR is shown.
CreateQr(p, a) ==
  /\ Idle(p)
  /\ owner[a] = NoPhone
  /\ "none" \in LoadConfirmed(store[p])
  /\ owner' = [owner EXCEPT ![a] = p]
  /\ listener' = [listener EXCEPT ![a] = "open"]
  /\ attempt' = [attempt EXCEPT ![p] = NewAttempt(a, "creator", FALSE)]
  /\ ui' = [ui EXCEPT ![p] = "creator_qr"]
  /\ UNCHANGED <<store, joiner, sock, up, inbox, history>>

\* startCreatorNow or startScannerNow before an attempt exists: already paired,
\* trust storage unreadable, no Wi-Fi, or a QR that is expired or one's own.
StartRefused(p) ==
  /\ Idle(p)
  /\ ui' = [ui EXCEPT ![p] = "error"]
  /\ UNCHANGED <<attempt, store, network, history>>

\* startScannerNow up to the PAIR_HELLO.  If the creator's native module still
\* holds another socket, its accept is answered with "busy" and closed.
ScanConnect(p, a) ==
  /\ Idle(p)
  /\ owner[a] \in Phone \ {p}
  /\ "none" \in LoadConfirmed(store[p])
  /\ listener[a] = "open"
  /\ sock[p] = NoPair
  /\ joiner' = [joiner EXCEPT ![a] = p]
  /\ attempt' = [attempt EXCEPT ![p] = NewAttempt(a, "scanner", TRUE)]
  /\ ui' = [ui EXCEPT ![p] = "waiting_partner"]
  /\ IF sock[owner[a]] = NoPair
     THEN /\ sock' = [sock EXCEPT ![p] = a, ![owner[a]] = a]
          /\ listener' = [listener EXCEPT ![a] = "taken"]
          /\ up' = up \cup {a}
          /\ inbox' = [inbox EXCEPT ![owner[a]] = <<"connected", "PAIR_HELLO">>]
     ELSE /\ sock' = [sock EXCEPT ![p] = a]
          /\ listener' = [listener EXCEPT ![a] = "failed"]
          /\ UNCHANGED <<up, inbox>>
  /\ UNCHANGED <<store, owner, history>>

\* Mutant: startScannerNow does not look for a confirmed pair first.
ScanUnreachableUnchecked(p, a) ==
  /\ Idle(p)
  /\ owner[a] \in Phone \ {p}
  /\ listener[a] # "open" \/ sock[p] # NoPair \/ "link" \in Disturbances
  /\ \E r \in AbortPairAttempt(store[p]) : SetTrust(p, r.store, "error")
  /\ UNCHANGED <<attempt, network, history>>

\* startScannerNow when the connection cannot be made: the fresh attempt fails.
ScanUnreachable(p, a) ==
  /\ Idle(p)
  /\ owner[a] \in Phone \ {p}
  /\ "none" \in LoadConfirmed(store[p])
  /\ listener[a] # "open" \/ sock[p] # NoPair \/ "link" \in Disturbances
  /\ \E r \in AbortPairAttempt(store[p]) : SetTrust(p, r.store, "error")
  /\ UNCHANGED <<attempt, network, history>>

\* confirmPartnerNow on the scanner.
ScannerConfirms(p) ==
  /\ attempt[p].role = "scanner"
  /\ \E ph \in Phase :
       /\ Enters(attempt[p], "LOCAL_CONFIRM", ph)
       /\ Proceed(p, inbox[p], [attempt[p] EXCEPT !.phase = ph], store[p],
                  "waiting_partner", <<"PAIR_CONFIRM">>)
  /\ agreed' = [agreed EXCEPT ![attempt[p].id] = @ \cup {p}]
  /\ UNCHANGED <<pledged, cancelled>>

\* Mutant: the creator sends the commit before its confirmation.
CreatorCommitsFirst(p) ==
  /\ attempt[p].role = "creator"
  /\ \E ph \in Phase :
       /\ Enters(attempt[p], "LOCAL_CONFIRM", ph)
       /\ WithStored(p, Stage(store[p], attempt[p].id), inbox[p],
                     [attempt[p] EXCEPT !.phase = ph], "finalizing",
                     <<"PAIR_COMMIT", "PAIR_CONFIRM">>)
  /\ agreed' = [agreed EXCEPT ![attempt[p].id] = @ \cup {p}]
  /\ UNCHANGED <<pledged, cancelled>>

\* confirmPartnerNow on the creator: stage the new pair, then tell the scanner.
CreatorConfirms(p) ==
  /\ attempt[p].role = "creator"
  /\ \E ph \in Phase :
       /\ Enters(attempt[p], "LOCAL_CONFIRM", ph)
       /\ WithStored(p, Stage(store[p], attempt[p].id), inbox[p],
                     [attempt[p] EXCEPT !.phase = ph], "finalizing",
                     <<"PAIR_CONFIRM", "PAIR_COMMIT">>)
  /\ agreed' = [agreed EXCEPT ![attempt[p].id] = @ \cup {p}]
  /\ UNCHANGED <<pledged, cancelled>>

\* confirmPartnerNow when it is not this phone's turn, such as a second tap.
ConfirmOutOfTurn(p) ==
  /\ "cancel" \in Disturbances
  /\ Active(p)
  /\ ~CanLocalConfirm(attempt[p])
  /\ FailAttempt(p, store[p], attempt[p].converged, TRUE)
  /\ UNCHANGED history

\* Mutant: a failed clean-up is not shown.
AbandonAttemptSilently(p, lastWords) ==
  /\ \E r \in AbortPairAttempt(store[p]) : SetTrust(p, r.store, "unpaired")
  /\ Release(p, lastWords)

\* cleanupAttempt with its trust part, as cancelNow and PAIR_CANCEL use it.
AbandonAttempt(p, lastWords) ==
  /\ \E r \in AbortPairAttempt(store[p]) :
       SetTrust(p, r.store, IF r.ok THEN "unpaired" ELSE "error")
  /\ Release(p, lastWords)

Cancel(p) ==
  /\ "cancel" \in Disturbances
  /\ Active(p)
  /\ AbandonAttempt(p, <<"PAIR_CANCEL">>)
  /\ cancelled' = cancelled \cup {attempt[p].id}
  /\ UNCHANGED <<agreed, pledged>>

\* revokePairNow, offered while the phone shows a trusted partner.
Revoke(p) ==
  /\ "revoke" \in Disturbances
  /\ ui[p] = "paired"
  /\ \E r \in RevokePair(store[p]) :
       SetTrust(p, r.store, IF r.ok THEN "unpaired" ELSE "error")
  /\ UNCHANGED <<attempt, network, history>>

\* discardIncomplete and loadConfirmed, shared by start-up and reset.
Revalidate(p) ==
  \E r \in DiscardIncomplete(store[p]) :
    \E loaded \in IF r.ok THEN LoadConfirmed(r.store) ELSE {"error"} :
      SetTrust(p, r.store, CASE loaded = "confirmed" -> "paired"
                             [] loaded = "none" -> "unpaired"
                             [] OTHER -> "error")

Initialize(p) ==
  ui[p] = "loading" /\ Revalidate(p) /\ UNCHANGED <<attempt, network, history>>

ResetError(p) ==
  ui[p] = "error" /\ Revalidate(p) /\ UNCHANGED <<attempt, network, history>>

-----------------------------------------------------------------------------
(***************************************************************************)
(* Socket events.  The oldest one is handled by the attempt that owns the  *)
(* socket; events of a socket no attempt owns are ignored.                 *)
(***************************************************************************)
Arrives(p, m) ==
  /\ attempt[p].linked
  /\ inbox[p] # <<>>
  /\ Head(inbox[p]) = m

Rest(p) == Tail(inbox[p])

\* Handling m changes the attempt to at and the screen to kind, and sends out.
Answer(p, m, at, kind, out) ==
  /\ Arrives(p, m)
  /\ Proceed(p, Rest(p), at, store[p], kind, out)
  /\ UNCHANGED history

\* "connected" for the listener of the running attempt.
ReceiveConnected(p) ==
  /\ Active(p)
  /\ attempt[p].id = sock[p]
  /\ inbox[p] # <<>>
  /\ Head(inbox[p]) = "connected"
  /\ attempt' = [attempt EXCEPT ![p].linked = TRUE]
  /\ inbox' = [inbox EXCEPT ![p] = Rest(p)]
  /\ UNCHANGED <<ui, store, owner, joiner, listener, sock, up, history>>

ReceiveHello(p) ==
  /\ attempt[p].role = "creator"
  /\ attempt[p].phase = "waiting_remote_identity"
  /\ Answer(p, "PAIR_HELLO", attempt[p], ui[p], <<"PAIR_IDENTITY">>)

ReceiveIdentity(p) ==
  \E ph \in Phase :
    /\ Enters(attempt[p], "REMOTE_AUTHENTICATED", ph)
    /\ IF attempt[p].role = "scanner"
       THEN Answer(p, "PAIR_IDENTITY", [attempt[p] EXCEPT !.phase = ph],
                   "confirm_partner", <<"PAIR_IDENTITY">>)
       ELSE Answer(p, "PAIR_IDENTITY", [attempt[p] EXCEPT !.phase = ph],
                   "waiting_partner", <<>>)

ReceiveConfirm(p) ==
  \E ph \in Phase :
    /\ Enters(attempt[p], "REMOTE_CONFIRM", ph)
    /\ Answer(p, "PAIR_CONFIRM", [attempt[p] EXCEPT !.phase = ph],
              IF attempt[p].role = "creator" THEN "confirm_partner" ELSE "finalizing",
              <<>>)

Finalizing(p, r, m) ==
  /\ Arrives(p, m)
  /\ attempt[p].role = r
  /\ attempt[p].phase = "finalizing"

\* A finalization step that runs a storage method and acknowledges it.
StoreAndAck(p, results, at, ack) ==
  WithStored(p, results, Rest(p), at, "finalizing", <<ack>>)

ReceiveCommit(p) ==
  /\ Finalizing(p, "scanner", "PAIR_COMMIT")
  /\ StoreAndAck(p, Stage(store[p], attempt[p].id), attempt[p], "scanner_staged")
  /\ UNCHANGED history

ReceiveScannerStaged(p) ==
  /\ Finalizing(p, "creator", "scanner_staged")
  /\ Answer(p, "scanner_staged", attempt[p], ui[p], <<"creator_ready">>)

\* creator_ready on the scanner, scanner_committed on the creator.
InstallOn(p, r, m, ack) ==
  /\ Finalizing(p, r, m)
  /\ \E res \in InstallCommitted(store[p]) :
       /\ StoreAndAck(p, {res}, attempt[p], ack)
       /\ pledged' = IF res.ok THEN [pledged EXCEPT ![attempt[p].id] = @ \cup {p}]
                     ELSE pledged
  /\ UNCHANGED <<agreed, cancelled>>

\* Mutant: the creator acknowledges its commit without installing it.
AcknowledgeUninstalled(p) ==
  /\ Finalizing(p, "creator", "scanner_committed")
  /\ Answer(p, "scanner_committed", attempt[p], "finalizing", <<"creator_committed">>)

ReceiveCreatorReady(p) == InstallOn(p, "scanner", "creator_ready", "scanner_committed")
ReceiveScannerCommitted(p) == InstallOn(p, "creator", "scanner_committed", "creator_committed")

ReceiveCreatorCommitted(p) ==
  /\ Finalizing(p, "scanner", "creator_committed")
  /\ StoreAndAck(p, MarkConfirmed(store[p]), attempt[p], "scanner_confirmed")
  /\ UNCHANGED history

\* The creator's trust is now durable: from here a failure completes the attempt.
ReceiveScannerConfirmed(p) ==
  /\ Finalizing(p, "creator", "scanner_confirmed")
  /\ \E r \in MarkConfirmed(store[p]) :
       IF r.ok
       THEN Proceed(p, Rest(p), [attempt[p] EXCEPT !.converged = TRUE], r.store,
                    "finalizing", <<"creator_confirmed">>)
       ELSE FailAttempt(p, r.store, attempt[p].converged, TRUE)
  /\ UNCHANGED history

ReceiveCreatorConfirmed(p) ==
  /\ Finalizing(p, "scanner", "creator_confirmed")
  /\ \E loaded \in LoadConfirmed(store[p]) :
       IF loaded # "confirmed"
       THEN FailAttempt(p, store[p], FALSE, TRUE)
       ELSE \/ Complete(p, store[p], <<"converged">>)
            \/ /\ attempt[p].id \notin up
               /\ FailAttempt(p, store[p], TRUE, TRUE)
  /\ UNCHANGED history

ReceiveConverged(p) ==
  /\ Finalizing(p, "creator", "converged")
  /\ \E loaded \in LoadConfirmed(store[p]) :
       IF loaded = "confirmed"
       THEN Complete(p, store[p], <<>>)
       ELSE FailAttempt(p, store[p], attempt[p].converged, TRUE)
  /\ UNCHANGED history

ReceiveCancel(p) ==
  Arrives(p, "PAIR_CANCEL") /\ AbandonAttempt(p, <<>>) /\ UNCHANGED history

ReceiveError(p) ==
  /\ Arrives(p, "PAIR_ERROR")
  /\ FailAttempt(p, store[p], attempt[p].converged, FALSE)
  /\ UNCHANGED history

\* "closed" or "error" of the running attempt's socket.  Frames the dead
\* socket still held are lost.
ReceiveClosed(p) ==
  /\ attempt[p].linked
  /\ attempt[p].id \notin up
  /\ FailAttempt(p, store[p], attempt[p].converged, FALSE)
  /\ UNCHANGED history

\* The native module drops a dead socket that no attempt owns.
OrphanClosed(p) ==
  /\ sock[p] # NoPair
  /\ sock[p] \notin up
  /\ sock[p] # attempt[p].id
  /\ sock' = [sock EXCEPT ![p] = NoPair]
  /\ inbox' = [inbox EXCEPT ![p] = <<>>]
  /\ UNCHANGED <<service, owner, joiner, listener, up, history>>

\* A listener "error" without a connection: it broke, or it answered "busy".
ReceiveListenerError(p) ==
  /\ attempt[p].role = "creator"
  /\ listener[attempt[p].id] = "failed"
  /\ FailAttempt(p, store[p], attempt[p].converged, FALSE)
  /\ UNCHANGED history

\* Mutant: the expiry timer is cancelled once the phones are connected.
ExpireUnconnected(p) ==
  /\ "expiry" \in Disturbances
  /\ Active(p) /\ ~attempt[p].linked
  /\ FailAttempt(p, store[p], attempt[p].converged, TRUE)
  /\ UNCHANGED history

\* The expiry timer of an attempt, armed when the attempt starts.
Expire(p) ==
  /\ "expiry" \in Disturbances
  /\ Active(p)
  /\ FailAttempt(p, store[p], attempt[p].converged, TRUE)
  /\ UNCHANGED history

-----------------------------------------------------------------------------
(***************************************************************************)
(* The environment.                                                        *)
(***************************************************************************)
LinkBreaks(a) ==
  /\ "link" \in Disturbances
  /\ a \in up
  /\ up' = up \ {a}
  /\ UNCHANGED <<service, owner, joiner, listener, sock, inbox, history>>

ListenerBreaks(a) ==
  /\ "link" \in Disturbances
  /\ listener[a] = "open"
  /\ listener' = [listener EXCEPT ![a] = "failed"]
  /\ UNCHANGED <<service, owner, joiner, sock, up, inbox, history>>

\* Stores a process death can leave in the middle of the operation p may be in.
Interrupted(p) ==
  LET at == attempt[p]
      s == store[p]
      next == IF at.linked /\ inbox[p] # <<>> THEN Head(inbox[p]) ELSE "none"
      staging == at.phase = "creator_can_confirm" \/ next = "PAIR_COMMIT"
      installing == next \in {"creator_ready", "scanner_committed"}
      removing == \/ Active(p)
                  \/ ui[p] = "paired" /\ "revoke" \in Disturbances
                  \/ ui[p] \in {"loading", "error"} /\ s.status # "confirmed"
  IN  (IF staging THEN StageWrites(s, at.id) ELSE {})
        \cup (IF installing THEN InstallWrites(s) ELSE {})
        \cup (IF removing THEN Remnants(s) ELSE PartlyNoPending(s))

Crash(p) ==
  /\ "crash" \in Disturbances
  /\ \E s \in Interrupted(p) :
       /\ SetTrust(p, s, "loading")
       /\ agreed' = IF attempt[p].role = "creator" /\ s.pendingSecret = attempt[p].id
                    THEN [agreed EXCEPT ![attempt[p].id] = @ \cup {p}] ELSE agreed
  /\ attempt' = [attempt EXCEPT ![p] = NoAttempt]
  /\ listener' = [a \in Pair |-> IF owner[a] = p /\ listener[a] = "open"
                                 THEN "closed" ELSE listener[a]]
  /\ sock' = [sock EXCEPT ![p] = NoPair]
  /\ up' = up \ {sock[p]}
  /\ inbox' = [inbox EXCEPT ![p] = <<>>]
  /\ UNCHANGED <<owner, joiner, pledged, cancelled>>

-----------------------------------------------------------------------------
Init ==
  /\ attempt = [p \in Phone |-> NoAttempt]
  /\ ui = [p \in Phone |-> "loading"]
  /\ store = [p \in Phone |-> EmptyStore]
  /\ owner = [a \in Pair |-> NoPhone]
  /\ joiner = [a \in Pair |-> NoPhone]
  /\ listener = [a \in Pair |-> "none"]
  /\ sock = [p \in Phone |-> NoPair]
  /\ up = {}
  /\ inbox = [p \in Phone |-> <<>>]
  /\ agreed = [a \in Pair |-> {}]
  /\ pledged = [a \in Pair |-> {}]
  /\ cancelled = {}

UserStep(p) ==
  \/ \E a \in Pair : CreateQr(p, a) \/ ScanConnect(p, a) \/ ScanUnreachable(p, a)
  \/ StartRefused(p)
  \/ ScannerConfirms(p) \/ CreatorConfirms(p) \/ ConfirmOutOfTurn(p)
  \/ Cancel(p) \/ Revoke(p) \/ ResetError(p)

\* Steps the event loop of a phone takes by itself.
ServiceStep(p) ==
  \/ Initialize(p)
  \/ ReceiveConnected(p) \/ ReceiveHello(p) \/ ReceiveIdentity(p)
  \/ ReceiveConfirm(p) \/ ReceiveCommit(p)
  \/ ReceiveScannerStaged(p) \/ ReceiveCreatorReady(p)
  \/ ReceiveScannerCommitted(p) \/ ReceiveCreatorCommitted(p)
  \/ ReceiveScannerConfirmed(p) \/ ReceiveCreatorConfirmed(p)
  \/ ReceiveConverged(p) \/ ReceiveCancel(p) \/ ReceiveError(p)
  \/ ReceiveClosed(p) \/ OrphanClosed(p) \/ ReceiveListenerError(p)

Environment ==
  \/ \E a \in Pair : LinkBreaks(a) \/ ListenerBreaks(a)
  \/ \E p \in Phone : Crash(p)

Next ==
  \/ \E p \in Phone : UserStep(p) \/ ServiceStep(p) \/ Expire(p)
  \/ Environment

Spec == Init /\ [][Next]_vars

\* The event loop of a phone runs, and an armed timer fires.
FairSpec == Spec /\ \A p \in Phone : WF_vars(ServiceStep(p)) /\ WF_vars(Expire(p))
=============================================================================
