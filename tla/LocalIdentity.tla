---------------------------- MODULE LocalIdentity ----------------------------
(***************************************************************************)
(* The identity of one phone: IdentityRepository, which creates it once    *)
(* and renames it, and LocalIdentityService, which caches it for the       *)
(* screens.  All callers of the repository's bootstrap share one promise;  *)
(* renames wait in mutationQueue.  Storage may fail on any call, a failed  *)
(* or interrupted write may have landed all the same, and the process may  *)
(* die at any moment.                                                      *)
(***************************************************************************)
EXTENDS Naturals, Sequences

CONSTANTS
  DeviceName,  \* names the user may type
  MaxIds,      \* bound: device ids made
  MaxCalls     \* bound: renames of a run of the process

VARIABLES
  stored,     \* the persisted document
  ids,        \* device ids made so far
  current,    \* IdentityRepository.current
  boot,       \* the bootstrapOnce that bootstrapPromise stands for
  cached,     \* LocalIdentityService.cachedIdentity
  loading,    \* bootstrapInFlight is set
  held,       \* renames that wait for bootstrapInFlight
  renames,    \* renames in mutationQueue
  renaming,   \* the rename that runs
  calls       \* renames of this run of the process

identityVars == <<stored, ids, current, boot, cached, loading, held, renames, renaming, calls>>

Identity(id, name) == [id |-> id, name |-> name]
Unnamed == "unnamed"
None == Identity(0, Unnamed)          \* null, and nothing stored
Corrupt == Identity(0, "corrupt")

NoBoot == [step |-> "none", id |-> 0]
NoRename == [step |-> "none", name |-> Unnamed, of |-> None]

IdentityInit ==
  /\ stored \in {None, Corrupt, Identity(1, Unnamed)} /\ ids = 1
  /\ current = None /\ boot = NoBoot /\ cached = None /\ loading = FALSE
  /\ held = <<>> /\ renames = <<>> /\ renaming = NoRename /\ calls = 0

-----------------------------------------------------------------------------
(* IdentityRepository.bootstrap and its callers. *)

\* The promise is shared: only the first caller reads.
ShareBoot == IF boot = NoBoot THEN boot' = [step |-> "read", id |-> 0] ELSE UNCHANGED boot

\* The service's bootstrap; an identity in memory is returned at once.
Bootstrap ==
  /\ cached = None /\ ~loading
  /\ IF current # None THEN cached' = current /\ UNCHANGED <<boot, loading>>
     ELSE loading' = TRUE /\ ShareBoot /\ UNCHANGED cached
  /\ UNCHANGED <<stored, ids, current, held, renames, renaming, calls>>

\* The other services ask the repository directly.
AskRepository ==
  /\ current = None /\ ShareBoot
  /\ UNCHANGED <<stored, ids, current, cached, loading, held, renames, renaming, calls>>

\* The promise settles for all who wait: the service, a rename, others.
BootSucceeds(identity) ==
  /\ boot' = NoBoot /\ current' = identity
  /\ cached' = IF loading THEN identity ELSE cached
  /\ loading' = FALSE /\ renames' = renames \o held /\ held' = <<>>
  /\ renaming' = IF renaming.step = "boot" THEN [renaming EXCEPT !.step = "write", !.of = identity]
                 ELSE renaming

BootFails ==
  /\ boot' = NoBoot /\ loading' = FALSE /\ renames' = renames \o held /\ held' = <<>>
  /\ renaming' = IF renaming.step = "boot" THEN NoRename ELSE renaming
  /\ UNCHANGED <<current, cached>>

CreateIdentity ==
  /\ ids < MaxIds /\ ids' = ids + 1
  /\ boot' = [step |-> "write", id |-> ids']
  /\ UNCHANGED <<current, cached, loading, held, renames, renaming>>

\* Mutant: what cannot be read is created anew.
CreateOnError == CreateIdentity

\* A document that cannot be read, or is corrupt, is left alone.
ReadFails == BootFails /\ UNCHANGED ids

BootReads ==
  /\ boot.step = "read"
  /\ \/ stored = None /\ CreateIdentity
     \/ stored \notin {None, Corrupt} /\ BootSucceeds(stored) /\ UNCHANGED ids
     \/ ReadFails
  /\ UNCHANGED <<stored, calls>>

BootWrites ==
  /\ boot.step = "write"
  /\ \/ stored' = Identity(boot.id, Unnamed) /\ BootSucceeds(stored')
     \/ stored' \in {stored, Identity(boot.id, Unnamed)} /\ BootFails
  /\ UNCHANGED <<ids, calls>>

-----------------------------------------------------------------------------
(* Renames. *)

\* The service lets a bootstrap in flight finish first.
Rename ==
  /\ calls < MaxCalls /\ calls' = calls + 1
  /\ \E name \in DeviceName :
       IF loading THEN held' = Append(held, name) /\ UNCHANGED renames
                  ELSE renames' = Append(renames, name) /\ UNCHANGED held
  /\ UNCHANGED <<stored, ids, current, boot, cached, loading, renaming>>

\* The repository's operation: the identity first, then the name is looked at.
RenameStarts ==
  /\ renaming = NoRename /\ renames # <<>> /\ renames' = Tail(renames)
  /\ \/ /\ current = None /\ ShareBoot
        /\ renaming' = [NoRename EXCEPT !.step = "boot", !.name = Head(renames)]
     \/ /\ current # None /\ UNCHANGED boot
        /\ renaming' = [step |-> "write", name |-> Head(renames), of |-> current]
  /\ UNCHANGED <<stored, ids, current, cached, loading, held, calls>>

Renamed == [renaming.of EXCEPT !.name = renaming.name]

\* Mutant: the screens' copy keeps the old name.
CacheKept(identity) == current' = identity /\ UNCHANGED cached

Adopted(identity) == current' = identity /\ cached' = identity

RenameWrites ==
  /\ renaming.step = "write" /\ renaming' = NoRename
  /\ \/ stored' = Renamed /\ Adopted(Renamed)
     \/ stored' \in {stored, Renamed} /\ UNCHANGED <<current, cached>>
  /\ UNCHANGED <<ids, boot, loading, held, renames, calls>>

\* A name that normalizeDeviceName refuses ends the rename.
RenameRefused ==
  /\ renaming.step = "write" /\ renaming' = NoRename
  /\ UNCHANGED <<stored, ids, current, boot, cached, loading, held, renames, calls>>

-----------------------------------------------------------------------------
\* The process dies; a write that was under way has landed or not.
IdentityRestarts ==
  /\ stored' \in {stored}
        \cup (IF boot.step = "write" THEN {Identity(boot.id, Unnamed)} ELSE {})
        \cup (IF renaming.step = "write" THEN {Renamed} ELSE {})
  /\ current' = None /\ boot' = NoBoot /\ cached' = None /\ loading' = FALSE
  /\ held' = <<>> /\ renames' = <<>> /\ renaming' = NoRename /\ calls' = 0
  /\ UNCHANGED ids

IdentityNext ==
  \/ Bootstrap \/ AskRepository \/ BootReads \/ BootWrites
  \/ Rename \/ RenameStarts \/ RenameWrites \/ RenameRefused \/ IdentityRestarts

IdentitySpec == IdentityInit /\ [][IdentityNext]_identityVars

-----------------------------------------------------------------------------
\* A phone that has an identity keeps its device id for good, and a corrupt
\* document is never replaced: not by a rename, a read error, a creation whose
\* write failed but landed, or a death of the process between any two of them.
DeviceIdIsStable == [][stored # None => stored'.id = stored.id]_identityVars

\* Whoever asks sees the same phone: the repository, the service's cache and the
\* rename under way name the stored device id, and the cache of the screens never
\* lags behind the repository once it is filled.
IdentitiesAgree ==
  /\ current # None => current.id = stored.id
  /\ cached # None => cached = current
  /\ renaming.step = "write" => renaming.of = current
=============================================================================
