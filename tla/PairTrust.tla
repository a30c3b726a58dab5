----------------------------- MODULE PairTrust -----------------------------
(***************************************************************************)
(* The trust store of one phone, at the granularity of the public methods  *)
(* of PairTrustRepository.  Four keys hold the trust material: a pending   *)
(* metadata/secret pair while the phones finalize, and a durable pair      *)
(* afterwards.  A pair is identified by the attempt that created it; the   *)
(* value stored in a secret key is the pair the secret belongs to.         *)
(*                                                                         *)
(* Every method is the set of its possible results.  With StorageFaults a  *)
(* read may be rejected, and a rejected write or removal may or may not    *)
(* have reached the disk, which is all the platform stores promise.  The   *)
(* module PairTrustRepository checks these sets against the key-by-key     *)
(* order of the code.                                                      *)
(***************************************************************************)

CONSTANTS Pair, NoPair, StorageFaults

ASSUME PairAssumption == NoPair \notin Pair
ASSUME StorageFaultsAssumption == StorageFaults \in BOOLEAN

PairOrNone == Pair \cup {NoPair}

\* status is part of the durable metadata document: "none" iff it is absent.
Store == [pendingMeta : PairOrNone, pendingSecret : PairOrNone,
          meta : PairOrNone, status : {"none", "committed", "confirmed"},
          secret : PairOrNone]

EmptyStore == [pendingMeta |-> NoPair, pendingSecret |-> NoPair,
               meta |-> NoPair, status |-> "none", secret |-> NoPair]

Result(s, ok) == [store |-> s, ok |-> ok]

\* Results that need a rejected storage call.
IfFaulty(S) == IF StorageFaults THEN S ELSE {}

(***************************************************************************)
(* Removals settle independently (Promise.allSettled), so a failed one, or *)
(* a process death in the middle, leaves any subset of the two keys.       *)
(***************************************************************************)
NoPendingMeta(s)   == [s EXCEPT !.pendingMeta = NoPair]
NoPendingSecret(s) == [s EXCEPT !.pendingSecret = NoPair]
NoPending(s)       == NoPendingMeta(NoPendingSecret(s))
NoMeta(s)          == [s EXCEPT !.meta = NoPair, !.status = "none"]
NoSecret(s)        == [s EXCEPT !.secret = NoPair]
NoDurable(s)       == NoMeta(NoSecret(s))

PartlyNoPending(s) == {s, NoPendingMeta(s), NoPendingSecret(s), NoPending(s)}
PartlyNoDurable(s) == {s, NoMeta(s), NoSecret(s), NoDurable(s)}

\* discardPendingVerified and deleteDurableVerified
DiscardPending(s) ==
  {Result(NoPending(s), TRUE)}
    \cup IfFaulty({Result(t, FALSE) : t \in PartlyNoPending(s)})

DeleteDurable(s) ==
  {Result(NoDurable(s), TRUE)}
    \cup IfFaulty({Result(t, FALSE) : t \in PartlyNoDurable(s)})

HasDurableMaterial(s) == s.meta # NoPair \/ s.secret # NoPair

\* Mutant: a committed pair is handed out like a confirmed one.
LoadResultAnyStatus(s) ==
  IF ~HasDurableMaterial(s) THEN "none"
  ELSE IF s.meta = NoPair \/ s.secret = NoPair THEN "error" ELSE "confirmed"

(***************************************************************************)
(* loadConfirmed: "error" when one half is missing or a read is rejected.  *)
(***************************************************************************)
LoadResult(s) ==
  IF ~HasDurableMaterial(s) THEN "none"
  ELSE IF s.meta = NoPair \/ s.secret = NoPair THEN "error"
  ELSE IF s.status = "confirmed" THEN "confirmed" ELSE "none"

LoadConfirmed(s) == {LoadResult(s)} \cup IfFaulty({"error"})

(***************************************************************************)
(* stage: secret first, then metadata; a failure discards both.            *)
(***************************************************************************)
StageWrites(s, a) ==
  LET withSecret == [s EXCEPT !.pendingSecret = a]
  IN {s, withSecret, [withSecret EXCEPT !.pendingMeta = a]}

Staged(s, a) == [s EXCEPT !.pendingSecret = a, !.pendingMeta = a]

\* Mutant: stage does not look for durable material.
StageUnchecked(s, a) ==
  {Result(Staged(s, a), TRUE)}
    \cup IfFaulty({Result(t, FALSE) :
                     t \in UNION {PartlyNoPending(w) : w \in StageWrites(s, a)}})

Stage(s, a) ==
  IF HasDurableMaterial(s)
  THEN {Result(s, FALSE)}
  ELSE {Result(Staged(s, a), TRUE)}
         \cup IfFaulty({Result(t, FALSE) :
                          t \in UNION {PartlyNoPending(w) : w \in StageWrites(s, a)}})

(***************************************************************************)
(* installCommitted: durable secret, durable metadata, then the pending    *)
(* pair is discarded; a failure deletes the durable and the pending pair.  *)
(***************************************************************************)
HasPending(s) == s.pendingMeta # NoPair /\ s.pendingSecret # NoPair

Committed(s) == [s EXCEPT !.secret = s.pendingSecret,
                          !.meta = s.pendingMeta, !.status = "committed"]

InstallWrites(s) ==
  {s, [s EXCEPT !.secret = s.pendingSecret]} \cup PartlyNoPending(Committed(s))

InstallCommitted(s) ==
  IF ~HasPending(s)
  THEN {Result(r.store, FALSE) : r \in DiscardPending(s)}
         \cup IfFaulty({Result(s, FALSE)})
  ELSE {Result(NoPending(Committed(s)), TRUE)}
         \cup IfFaulty({Result(t, FALSE) : t \in
                UNION {PartlyNoPending(u) : u \in
                  UNION {PartlyNoDurable(w) : w \in InstallWrites(s)}}})

(***************************************************************************)
(* markConfirmed: one metadata write on top of a complete committed pair.  *)
(***************************************************************************)
Confirmed(s) == [s EXCEPT !.status = "confirmed"]

MarkConfirmed(s) ==
  IF s.meta # NoPair /\ s.secret # NoPair /\ s.status = "committed"
  THEN {Result(Confirmed(s), TRUE)}
         \cup IfFaulty({Result(s, FALSE), Result(Confirmed(s), FALSE)})
  ELSE {Result(s, FALSE)}

(***************************************************************************)
(* discardIncomplete, run at start-up and by "Reset pairing state".        *)
(***************************************************************************)
SettleDurable(s) ==
  IF s.status = "committed" \/ (s.meta = NoPair /\ s.secret # NoPair)
  THEN DeleteDurable(s)
  ELSE {Result(s, s.meta = NoPair \/ s.secret # NoPair)}

DiscardIncomplete(s) ==
  UNION {IF r.ok THEN SettleDurable(r.store) \cup IfFaulty({Result(r.store, FALSE)})
                 ELSE {r} : r \in DiscardPending(s)}

(***************************************************************************)
(* abortPairAttempt and revoke remove all four keys; they differ only in   *)
(* the order of the two removals.                                          *)
(***************************************************************************)
Remnants(s) == UNION {PartlyNoDurable(t) : t \in PartlyNoPending(s)}

AbortPairAttempt(s) ==
  {Result(NoDurable(NoPending(s)), TRUE)}
    \cup IfFaulty({Result(t, FALSE) : t \in Remnants(s)})

RevokePair(s) == AbortPairAttempt(s)

\* The pairs some key of s belongs to.
Material(s) == {s.pendingMeta, s.pendingSecret, s.meta, s.secret}

\* Trust that loadConfirmed hands out for pair a.
Trusts(s, a) == LoadResult(s) = "confirmed" /\ s.meta = a
=============================================================================
