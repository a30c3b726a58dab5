------------------------- MODULE PhoneServicesProofs -------------------------
(***************************************************************************)
(* Proofs about three small services of one phone, each alone:             *)
(* LocalIdentity, IncomingRequestNotifier and Diagnostics.                 *)
(***************************************************************************)
EXTENDS LocalIdentity, IncomingRequestNotifier, Diagnostics, SequenceTheorems, FiniteSetTheorems,
        TLAPS

(***************************************************************************)
(* A phone keeps its device id, and everybody who holds a copy of the      *)
(* identity holds the same one.  An id is only created while nothing is    *)
(* stored (CreatesOnce) and only while the repository has no identity in   *)
(* memory (OneSource), and a rename writes the identity that is in memory  *)
(* (RenamesCurrent).  So a creation and a rename never write at once, and  *)
(* each of them keeps the stored id.                                       *)
(***************************************************************************)
Names == DeviceName \cup {Unnamed, "corrupt"}
Identities == [id : Nat, name : Names]

IdentityTypes ==
  /\ stored \in Identities /\ current \in Identities /\ cached \in Identities /\ ids \in Nat
  /\ boot \in [step : {"none", "read", "write"}, id : Nat]
  /\ held \in Seq(DeviceName) /\ renames \in Seq(DeviceName)
  /\ renaming \in [step : {"none", "boot", "write"}, name : Names, of : Identities]

CreatesOnce == boot.step = "write" => stored = None /\ boot.id > 0
OneSource == boot.step # "none" => current = None
SameId == current # None => current.id = stored.id
CacheFollows == cached # None => cached = current
RenamesCurrent == renaming.step = "write" => renaming.of = current /\ current # None

IdentityInv == IdentityTypes /\ CreatesOnce /\ OneSource /\ SameId /\ CacheFollows /\ RenamesCurrent

-----------------------------------------------------------------------------
LEMMA IdentityType ==
  ASSUME NEW i \in Nat, NEW n \in Names
  PROVE  Identity(i, n) \in Identities /\ Identity(i, n).id = i
  BY DEF Identity, Identities

LEMMA NoneType ==
  /\ None \in Identities /\ None.id = 0 /\ Corrupt \in Identities
  /\ NoBoot \in [step : {"none", "read", "write"}, id : Nat] /\ NoBoot.step = "none"
  /\ NoRename \in [step : {"none", "boot", "write"}, name : Names, of : Identities]
  /\ NoRename.step = "none"
  BY DEF None, Corrupt, Identity, Identities, Names, Unnamed, NoBoot, NoRename

\* Renaming keeps the id of the identity in memory.
LEMMA RenamedType ==
  IdentityTypes => Renamed \in Identities /\ Renamed.id = renaming.of.id
  BY DEF IdentityTypes, Renamed, Identities

LEMMA IdentityInitInv == IdentityInit => IdentityInv
<1> SUFFICES ASSUME IdentityInit PROVE IdentityInv
  OBVIOUS
<1>1. Identity(1, Unnamed) \in Identities
  BY IdentityType DEF Names
<1>2. IdentityTypes
  BY <1>1, NoneType DEF IdentityInit, IdentityTypes
<1> QED
  BY <1>2, NoneType DEF IdentityInit, IdentityInv, CreatesOnce, OneSource, SameId, CacheFollows, RenamesCurrent

-----------------------------------------------------------------------------
\* A call that at most starts a read disturbs nothing.
LEMMA ShareStep ==
  ASSUME IdentityInv, ShareBoot, current = None
  PROVE  /\ boot' \in [step : {"none", "read", "write"}, id : Nat]
         /\ boot'.step = "write" => boot' = boot
  BY DEF ShareBoot, IdentityInv, IdentityTypes

LEMMA AskStep == IdentityInv /\ (Bootstrap \/ AskRepository) => IdentityInv'
<1> SUFFICES ASSUME IdentityInv, Bootstrap \/ AskRepository PROVE IdentityInv'
  OBVIOUS
<1>1. /\ UNCHANGED <<stored, ids, current, held, renames, renaming>>
      /\ cached' \in {cached, current}
      /\ cached' # cached => cached' = current
      /\ UNCHANGED boot \/ (ShareBoot /\ current = None)
  BY DEF Bootstrap, AskRepository
<1>2. /\ boot' \in [step : {"none", "read", "write"}, id : Nat]
      /\ boot'.step = "write" => boot' = boot
      /\ boot' = boot \/ current = None
  BY <1>1, ShareStep DEF IdentityInv, IdentityTypes
<1>3. IdentityTypes'
  BY <1>1, <1>2 DEF IdentityInv, IdentityTypes
<1>4. CreatesOnce' /\ OneSource'
  BY <1>1, <1>2 DEF IdentityInv, CreatesOnce, OneSource
<1>5. SameId' /\ CacheFollows' /\ RenamesCurrent'
  BY <1>1 DEF IdentityInv, SameId, CacheFollows, RenamesCurrent
<1> QED
  BY <1>3, <1>4, <1>5 DEF IdentityInv

\* Where a bootstrap succeeds, everybody who waited gets what is stored.
LEMMA SuccessStep ==
  ASSUME IdentityInv, NEW identity \in Identities, BootSucceeds(identity),
         boot.step # "none", identity # None, stored' = identity, UNCHANGED ids
  PROVE  IdentityInv'
<1>1. current = None /\ cached = None /\ renaming.step # "write"
  BY DEF IdentityInv, OneSource, CacheFollows, RenamesCurrent
<1>2. /\ boot' = NoBoot /\ current' = identity /\ cached' \in {identity, None}
      /\ renames' = renames \o held /\ held' = <<>>
      /\ renaming' = IF renaming.step = "boot"
                     THEN [renaming EXCEPT !.step = "write", !.of = identity] ELSE renaming
  BY <1>1 DEF BootSucceeds
<1>3. /\ renaming' \in [step : {"none", "boot", "write"}, name : Names, of : Identities]
      /\ renaming'.step = "write" => renaming'.of = identity
  BY <1>1, <1>2 DEF IdentityInv, IdentityTypes
<1>4. renames' \in Seq(DeviceName) /\ held' \in Seq(DeviceName)
  BY <1>2 DEF IdentityInv, IdentityTypes
<1>5. IdentityTypes'
  BY <1>2, <1>3, <1>4, NoneType DEF IdentityInv, IdentityTypes
<1> QED
  BY <1>2, <1>3, <1>5, NoneType
     DEF IdentityInv, CreatesOnce, OneSource, SameId, CacheFollows, RenamesCurrent

\* Where it fails nothing but the waiting ends.
LEMMA FailureStep ==
  ASSUME IdentityInv, BootFails, boot.step # "none", stored' \in Identities, UNCHANGED ids
  PROVE  IdentityInv'
<1>1. current = None /\ cached = None /\ renaming.step # "write"
  BY DEF IdentityInv, OneSource, CacheFollows, RenamesCurrent
<1>2. /\ boot' = NoBoot /\ UNCHANGED <<current, cached>>
      /\ renames' = renames \o held /\ held' = <<>> /\ renaming' \in {renaming, NoRename}
  BY DEF BootFails
<1>3. renames' \in Seq(DeviceName) /\ held' \in Seq(DeviceName)
  BY <1>2 DEF IdentityInv, IdentityTypes
<1>4. IdentityTypes'
  BY <1>2, <1>3, NoneType DEF IdentityInv, IdentityTypes
<1> QED
  BY <1>1, <1>2, <1>4, NoneType
     DEF IdentityInv, CreatesOnce, OneSource, SameId, CacheFollows, RenamesCurrent

LEMMA CreateStep ==
  ASSUME IdentityInv, CreateIdentity, stored = None, boot.step # "none", UNCHANGED stored
  PROVE  IdentityInv'
<1>1. /\ ids' = ids + 1 /\ boot' = [step |-> "write", id |-> ids']
      /\ UNCHANGED <<current, cached, held, renames, renaming>>
  BY DEF CreateIdentity
<1>2. /\ ids' \in Nat /\ ids' > 0 /\ boot' \in [step : {"none", "read", "write"}, id : Nat]
      /\ boot'.step = "write" /\ boot'.id > 0
  BY <1>1 DEF IdentityInv, IdentityTypes
<1>3. IdentityTypes'
  BY <1>1, <1>2 DEF IdentityInv, IdentityTypes
<1> QED
  BY <1>1, <1>2, <1>3 DEF IdentityInv, CreatesOnce, OneSource, SameId, CacheFollows, RenamesCurrent, None

LEMMA BootStep == IdentityInv /\ (BootReads \/ BootWrites) => IdentityInv'
<1> SUFFICES ASSUME IdentityInv, BootReads \/ BootWrites PROVE IdentityInv'
  OBVIOUS
<1>1. stored \in Identities /\ Identity(boot.id, Unnamed) \in Identities
      /\ Identity(boot.id, Unnamed).id = boot.id
  BY IdentityType DEF IdentityInv, IdentityTypes, Names
<1>2. CASE BootReads
  BY <1>1, <1>2, CreateStep, SuccessStep, FailureStep DEF BootReads, ReadFails
<1>3. CASE BootWrites
  <2>1. boot.step # "none" /\ UNCHANGED ids /\ Identity(boot.id, Unnamed) # None
    BY <1>1, <1>3, NoneType DEF BootWrites, IdentityInv, CreatesOnce
  <2> QED
    BY <1>1, <1>3, <2>1, SuccessStep, FailureStep DEF BootWrites
<1> QED
  BY <1>2, <1>3

-----------------------------------------------------------------------------
LEMMA RenameStep == IdentityInv /\ (Rename \/ RenameStarts \/ RenameRefused) => IdentityInv'
<1> SUFFICES ASSUME IdentityInv, Rename \/ RenameStarts \/ RenameRefused PROVE IdentityInv'
  OBVIOUS
<1> USE DEF IdentityInv
<1>1. UNCHANGED <<stored, ids, current, cached>>
  BY DEF Rename, RenameStarts, RenameRefused
<1>2. CASE Rename
  <2>1. PICK name \in DeviceName :
          \/ held' = Append(held, name) /\ UNCHANGED renames
          \/ renames' = Append(renames, name) /\ UNCHANGED held
    BY <1>2 DEF Rename
  <2>2. held' \in Seq(DeviceName) /\ renames' \in Seq(DeviceName)
    <3>1. held \in Seq(DeviceName) /\ renames \in Seq(DeviceName)
      BY DEF IdentityTypes
    <3>2. Append(held, name) \in Seq(DeviceName) /\ Append(renames, name) \in Seq(DeviceName)
      BY <3>1
    <3> QED
      BY <2>1, <3>1, <3>2
  <2> QED
    BY <1>1, <1>2, <2>2
       DEF Rename, IdentityTypes, CreatesOnce, OneSource, SameId, CacheFollows, RenamesCurrent
<1>3. CASE RenameRefused
  BY <1>1, <1>3, NoneType
     DEF RenameRefused, IdentityTypes, CreatesOnce, OneSource, SameId, CacheFollows, RenamesCurrent
<1>4. CASE RenameStarts
  <2>1. /\ renames' = Tail(renames) /\ renames # <<>> /\ UNCHANGED held
        /\ \/ /\ current = None /\ ShareBoot
              /\ renaming' = [NoRename EXCEPT !.step = "boot", !.name = Head(renames)]
           \/ /\ current # None /\ UNCHANGED boot
              /\ renaming' = [step |-> "write", name |-> Head(renames), of |-> current]
    BY <1>4 DEF RenameStarts
  <2>2. renames' \in Seq(DeviceName) /\ Head(renames) \in Names
    BY <2>1 DEF IdentityTypes, Names
  <2>3. /\ renaming' \in [step : {"none", "boot", "write"}, name : Names, of : Identities]
        /\ renaming'.step = "write" => renaming'.of = current /\ current # None
    <3>1. CASE current = None
      <4>1. renaming' = [step |-> "boot", name |-> Head(renames), of |-> None]
        BY <2>1, <3>1 DEF NoRename
      <4> QED
        BY <2>2, <4>1, NoneType
    <3>2. CASE current # None
      <4>1. renaming' = [step |-> "write", name |-> Head(renames), of |-> current]
        BY <2>1, <3>2
      <4> QED
        BY <2>2, <3>2, <4>1 DEF IdentityTypes
    <3> QED
      BY <3>1, <3>2
  <2>4. /\ boot' \in [step : {"none", "read", "write"}, id : Nat]
        /\ boot'.step = "write" => boot' = boot
        /\ boot' = boot \/ current = None
    BY <2>1, ShareStep DEF IdentityTypes
  <2>5. IdentityTypes'
    BY <1>1, <2>1, <2>2, <2>3, <2>4 DEF IdentityTypes
  <2> QED
    BY <1>1, <2>3, <2>4, <2>5 DEF CreatesOnce, OneSource, SameId, CacheFollows, RenamesCurrent
<1> QED
  BY <1>2, <1>3, <1>4

LEMMA RenameWritesStep == IdentityInv /\ RenameWrites => IdentityInv' /\ stored'.id = stored.id
<1> SUFFICES ASSUME IdentityInv, RenameWrites PROVE IdentityInv' /\ stored'.id = stored.id
  OBVIOUS
<1>1. /\ renaming.step = "write" /\ renaming' = NoRename
      /\ UNCHANGED <<ids, boot, held, renames>>
      /\ \/ stored' = Renamed /\ current' = Renamed /\ cached' = Renamed
         \/ stored' \in {stored, Renamed} /\ UNCHANGED <<current, cached>>
  BY DEF RenameWrites, Adopted
<1>2. Renamed \in Identities /\ Renamed.id = current.id /\ current.id = stored.id /\ current # None
  BY <1>1, RenamedType DEF IdentityInv, RenamesCurrent, SameId
<1>3. boot.step = "none"
  BY <1>2 DEF IdentityInv, OneSource, IdentityTypes
<1>4. IdentityTypes'
  BY <1>1, <1>2, NoneType DEF IdentityInv, IdentityTypes
<1>5. SameId' /\ stored'.id = stored.id
  BY <1>1, <1>2 DEF SameId
<1>6. CacheFollows' /\ RenamesCurrent' /\ CreatesOnce' /\ OneSource'
  BY <1>1, <1>3, NoneType DEF IdentityInv, CacheFollows, RenamesCurrent, CreatesOnce, OneSource
<1> QED
  BY <1>4, <1>5, <1>6 DEF IdentityInv

\* What a death of the process may leave has the stored id, if there was one.
LEMMA RestartStep == IdentityInv /\ IdentityRestarts => IdentityInv' /\ (stored # None => stored'.id = stored.id)
<1> SUFFICES ASSUME IdentityInv, IdentityRestarts PROVE IdentityInv' /\ (stored # None => stored'.id = stored.id)
  OBVIOUS
<1>1. /\ current' = None /\ boot' = NoBoot /\ cached' = None
      /\ held' = <<>> /\ renames' = <<>> /\ renaming' = NoRename /\ UNCHANGED ids
      /\ \/ stored' = stored
         \/ boot.step = "write" /\ stored' = Identity(boot.id, Unnamed)
         \/ renaming.step = "write" /\ stored' = Renamed
  BY DEF IdentityRestarts
<1>2. stored' \in Identities
  BY <1>1, IdentityType, RenamedType DEF IdentityInv, IdentityTypes, Names
<1>3. stored # None => stored'.id = stored.id
  BY <1>1, RenamedType DEF IdentityInv, CreatesOnce, RenamesCurrent, SameId
<1>4. IdentityTypes'
  BY <1>1, <1>2, NoneType DEF IdentityInv, IdentityTypes
<1> QED
  BY <1>1, <1>3, <1>4, NoneType
     DEF IdentityInv, CreatesOnce, OneSource, SameId, CacheFollows, RenamesCurrent

LEMMA IdentityStepInv == IdentityInv /\ [IdentityNext]_identityVars => IdentityInv'
<1> SUFFICES ASSUME IdentityInv, [IdentityNext]_identityVars PROVE IdentityInv'
  OBVIOUS
<1>1. CASE UNCHANGED identityVars
  BY <1>1 DEF IdentityInv, IdentityTypes, CreatesOnce, OneSource, SameId, CacheFollows, RenamesCurrent,
              identityVars
<1>2. CASE IdentityNext
  BY <1>2, AskStep, BootStep, RenameStep, RenameWritesStep, RestartStep DEF IdentityNext
<1> QED
  BY <1>1, <1>2

LEMMA IdentityAlways == IdentitySpec => []IdentityInv
  BY IdentityInitInv, IdentityStepInv, PTL DEF IdentitySpec

\* The repository, the cache of the screens and the rename under way agree,
\* whatever callers race and whatever storage does (bootstrap, rename).
THEOREM IdentitiesAlwaysAgree == IdentitySpec => []IdentitiesAgree
<1>1. IdentityInv => IdentitiesAgree
  BY DEF IdentityInv, IdentitiesAgree, SameId, CacheFollows, RenamesCurrent
<1> QED
  BY <1>1, IdentityAlways, PTL

\* No step of the services, of storage or of the process changes the device id
\* of a phone that has one (bootstrapOnce, rename).
THEOREM DeviceIdNeverChanges == IdentitySpec => DeviceIdIsStable
<1>1. IdentityInv /\ [IdentityNext]_identityVars => [stored # None => stored'.id = stored.id]_identityVars
  <2> SUFFICES ASSUME IdentityInv, IdentityNext, stored # None PROVE stored'.id = stored.id
    OBVIOUS
  <2>1. CASE BootWrites
    BY <2>1 DEF BootWrites, IdentityInv, CreatesOnce
  <2>2. CASE UNCHANGED stored
    BY <2>2
  <2> QED
    BY <2>1, <2>2, RenameWritesStep, RestartStep
       DEF IdentityNext, Bootstrap, AskRepository, BootReads, Rename, RenameStarts, RenameRefused
<1> QED
  BY <1>1, IdentityAlways, PTL DEF IdentitySpec, DeviceIdIsStable

-----------------------------------------------------------------------------
(***************************************************************************)
(* The notifier leaves no stale notification behind.  NoStaleNotification  *)
(* speaks of moments with an empty queue; what carries it there is that    *)
(* the last sync of the queue is always the one with the desired           *)
(* generation, so the sync that empties the queue is current, and that the *)
(* notifier is only mistaken about Android (Known) while it waits for the  *)
(* clearing that will correct it.                                          *)
(***************************************************************************)
\* The newest sync is the last of the queue.
NewestIsLast == syncs # <<>> => syncs[Len(syncs)] = desiredGeneration

\* Unless it is about to clear it, the notifier knows what Android shows.
Known == sync.call # "clearNative" => shown = activeSessionId \/ stuck

\* With nothing left to do, it believes in the open request or in nothing.
Settled == sync = Done /\ syncs = <<>> => activeSessionId \in {0, request}

NotifierInv == NotifierTypeOK /\ NewestIsLast /\ Known /\ Settled

LEMMA DoneIsDone == Done.call = "none" /\ Done \in [call : {"none"}, generation : Nat, session : Nat]
  BY DEF Done, Waits

LEMMA AppendSeq ==
  ASSUME NEW s \in Seq(Nat), NEW n \in Nat
  PROVE  /\ Append(s, n) \in Seq(Nat) /\ Append(s, n) # <<>>
         /\ Append(s, n)[Len(Append(s, n))] = n
  BY AppendProperties

LEMMA OneLeft == \A m, n \in Nat : m = n - 1 /\ m = 0 => n = 1
  OBVIOUS

LEMMA TailSeq ==
  ASSUME NEW s \in Seq(Nat), s # <<>>
  PROVE  /\ Head(s) \in Nat /\ Tail(s) \in Seq(Nat)
         /\ Tail(s) # <<>> => Tail(s)[Len(Tail(s))] = s[Len(s)]
         /\ Tail(s) = <<>> => Head(s) = s[Len(s)]
<1>1. \A i \in 1..Len(Tail(s)) : Tail(s)[i] = s[i + 1]
  BY HeadTailProperties
<1>2. Len(s) \in Nat /\ Len(Tail(s)) = Len(s) - 1
  BY HeadTailProperties, LenProperties
<1>3. Head(s) = s[1] /\ Head(s) \in Nat /\ Tail(s) \in Seq(Nat)
  BY HeadTailProperties
<1>4. ASSUME Tail(s) # <<>> PROVE Tail(s)[Len(Tail(s))] = s[Len(s)]
  <2>1. Len(Tail(s)) \in Nat \ {0}
    BY <1>3, <1>4, EmptySeq
  <2>2. Len(Tail(s)) \in 1..Len(Tail(s)) /\ Len(Tail(s)) + 1 = Len(s)
    BY <1>2, <2>1
  <2> QED
    BY <1>1, <2>2
<1>5. ASSUME Tail(s) = <<>> PROVE Head(s) = s[Len(s)]
  <2>1. Len(Tail(s)) = 0
    BY <1>5, EmptySeq
  <2>2. Len(Tail(s)) \in Nat
    BY <2>1
  <2>3. Len(s) = 1
    BY <1>2, <2>1, <2>2, OneLeft, Zenon
  <2> QED
    BY <1>3, <2>3
<1> QED
  BY <1>3, <1>4, <1>5

LEMMA NotifierInitInv == NotifierInit => NotifierInv
<1> SUFFICES ASSUME NotifierInit PROVE NotifierInv
  OBVIOUS
<1>1. /\ syncs = <<1>> /\ desiredGeneration = 1 /\ sync = Done /\ stuck = FALSE
      /\ request = 0 /\ changes = 0 /\ shown = 0 /\ activeSessionId = 0 /\ mayRefuse \in BOOLEAN
  BY DEF NotifierInit
<1>2. syncs \in Seq(Nat) /\ Len(syncs) = 1 /\ syncs[1] = 1
  BY <1>1
<1>3. NotifierTypeOK
  BY <1>1, <1>2, DoneIsDone DEF NotifierTypeOK
<1>4. NewestIsLast /\ Known /\ Settled
  BY <1>1, <1>2 DEF NewestIsLast, Known, Settled
<1> QED
  BY <1>3, <1>4 DEF NotifierInv

LEMMA ChangeStep == NotifierInv /\ SessionChanges => NotifierInv'
<1> SUFFICES ASSUME NotifierInv, SessionChanges PROVE NotifierInv'
  OBVIOUS
<1>1. /\ changes \in Nat /\ shown \in Nat /\ activeSessionId \in Nat
      /\ desiredGeneration \in Nat /\ syncs \in Seq(Nat)
      /\ mayRefuse \in BOOLEAN /\ stuck \in BOOLEAN
      /\ sync \in [call : {"none", "show", "clear", "clearNative"}, generation : Nat, session : Nat]
  BY DEF NotifierInv, NotifierTypeOK
<1>2. /\ changes' = changes + 1 /\ request' \in {0, changes'}
      /\ desiredGeneration' = desiredGeneration + 1
      /\ syncs' = Append(syncs, desiredGeneration')
      /\ UNCHANGED <<shown, activeSessionId, sync, mayRefuse, stuck>>
  BY DEF SessionChanges
<1>3. changes' \in Nat /\ request' \in Nat /\ desiredGeneration' \in Nat
  BY <1>1, <1>2
<1>4. syncs' \in Seq(Nat) /\ syncs' # <<>> /\ syncs'[Len(syncs')] = desiredGeneration'
  BY <1>1, <1>2, <1>3, AppendSeq
<1>5. NotifierTypeOK'
  BY <1>1, <1>2, <1>3, <1>4 DEF NotifierTypeOK
<1>6. NewestIsLast'
  BY <1>4 DEF NewestIsLast
<1>7. Known' /\ Settled'
  BY <1>2, <1>4 DEF NotifierInv, Known, Settled
<1> QED
  BY <1>5, <1>6, <1>7 DEF NotifierInv

LEMMA StartStep == NotifierInv /\ SyncStarts => NotifierInv'
<1> SUFFICES ASSUME NotifierInv, SyncStarts PROVE NotifierInv'
  OBVIOUS
<1> DEFINE generation == Head(syncs)
           Syncs == [call : {"none", "show", "clear", "clearNative"}, generation : Nat, session : Nat]
<1>1. /\ sync = Done /\ syncs # <<>> /\ syncs' = Tail(syncs)
      /\ UNCHANGED <<request, changes, shown, activeSessionId, desiredGeneration, mayRefuse, stuck>>
  BY DEF SyncStarts
<1>2. /\ request \in Nat /\ changes \in Nat /\ shown \in Nat /\ activeSessionId \in Nat
      /\ desiredGeneration \in Nat /\ syncs \in Seq(Nat)
      /\ mayRefuse \in BOOLEAN /\ stuck \in BOOLEAN
  BY DEF NotifierInv, NotifierTypeOK
<1>3. /\ generation \in Nat /\ syncs' \in Seq(Nat)
      /\ syncs' # <<>> => syncs'[Len(syncs')] = syncs[Len(syncs)]
      /\ syncs' = <<>> => generation = syncs[Len(syncs)]
  BY <1>1, <1>2, TailSeq
<1>4. syncs[Len(syncs)] = desiredGeneration
  BY <1>1 DEF NotifierInv, NewestIsLast
<1>5. \/ sync' = Done /\ (generation # desiredGeneration \/ request = activeSessionId)
      \/ sync' = Waits("show", generation, request)
      \/ sync' = Waits("clear", generation, 0)
  BY DEF SyncStarts, IsCurrent, ShownAlready
<1> HIDE DEF generation
<1>6. sync' \in Syncs
  <2>1. Waits("show", generation, request) \in Syncs /\ Waits("clear", generation, 0) \in Syncs
    BY <1>2, <1>3 DEF Waits
  <2>2. Done \in Syncs
    BY DoneIsDone
  <2> QED
    BY <1>5, <2>1, <2>2
<1>7. NotifierTypeOK'
  BY <1>1, <1>2, <1>3, <1>6 DEF NotifierTypeOK
<1>8. NewestIsLast'
  BY <1>1, <1>3, <1>4 DEF NewestIsLast
<1>9. Known'
  <2>1. shown = activeSessionId \/ stuck
    BY <1>1, DoneIsDone DEF NotifierInv, Known
  <2> QED
    BY <1>1, <2>1 DEF Known
<1>10. Settled'
  <2> SUFFICES ASSUME sync' = Done, syncs' = <<>> PROVE activeSessionId = request
    BY <1>1 DEF Settled
  <2>1. generation = desiredGeneration
    BY <1>3, <1>4
  <2>2. sync'.call = "none"
    BY DoneIsDone
  <2>3. sync' # Waits("show", generation, request) /\ sync' # Waits("clear", generation, 0)
    BY <2>2 DEF Waits
  <2> QED
    BY <1>5, <2>1, <2>3
<1> QED
  BY <1>7, <1>8, <1>9, <1>10 DEF NotifierInv

LEMMA ReturnStep == NotifierInv /\ NativeReturns => NotifierInv'
<1> SUFFICES ASSUME NotifierInv, NativeReturns PROVE NotifierInv'
  OBVIOUS
<1> DEFINE Syncs == [call : {"none", "show", "clear", "clearNative"}, generation : Nat, session : Nat]
<1>1. /\ request \in Nat /\ changes \in Nat /\ shown \in Nat /\ activeSessionId \in Nat
      /\ desiredGeneration \in Nat /\ syncs \in Seq(Nat)
      /\ mayRefuse \in BOOLEAN /\ stuck \in BOOLEAN /\ sync \in Syncs
  BY DEF NotifierInv, NotifierTypeOK
<1>2. UNCHANGED <<request, changes, desiredGeneration, syncs, mayRefuse>>
  BY DEF NativeReturns
<1>3. [sync EXCEPT !.call = "clearNative"] \in Syncs /\ [sync EXCEPT !.call = "clearNative"].call = "clearNative"
  BY <1>1
<1>4. NewestIsLast'
  BY <1>2 DEF NotifierInv, NewestIsLast
<1>5. /\ shown' \in Nat /\ stuck' \in BOOLEAN /\ activeSessionId' \in Nat
      /\ \/ /\ sync' = Done /\ activeSessionId' \in {0, request}
            /\ shown' = activeSessionId' \/ stuck'
         \/ sync' = [sync EXCEPT !.call = "clearNative"]
  <2>1. CASE ShowReturns
    <3>1. /\ shown' \in {shown, sync.session} /\ stuck' \in BOOLEAN
          /\ \/ /\ sync' = Done /\ activeSessionId' = sync.session /\ request = sync.session
                /\ shown' = sync.session
             \/ sync' = [sync EXCEPT !.call = "clearNative"] /\ activeSessionId' = activeSessionId
      BY <1>1, <2>1 DEF ShowReturns, ShowSettles
    <3>2. sync.session \in Nat
      BY <1>1
    <3> QED
      BY <1>1, <3>1, <3>2
  <2>2. CASE ClearReturns
    <3>1. Cleared
      BY <2>2 DEF ClearReturns
    <3>2. (shown' = 0 /\ stuck' = FALSE) \/ (stuck' = TRUE /\ shown' = shown)
      BY <3>1 DEF Cleared
    <3>3. \/ sync' = Done /\ activeSessionId' = 0
          \/ sync' = [sync EXCEPT !.call = "clearNative"] /\ activeSessionId' = activeSessionId
      BY <2>2 DEF ClearReturns, ClearSettles
    <3>4. shown' \in Nat /\ activeSessionId' \in Nat
      BY <1>1, <3>2, <3>3
    <3>5. stuck' \in BOOLEAN /\ (shown' = 0 \/ stuck')
      BY <3>2, Zenon
    <3> QED
      BY <3>3, <3>4, <3>5, Zenon
  <2> QED
    BY <2>1, <2>2 DEF NativeReturns
<1> HIDE DEF Syncs
<1>6. sync' \in Syncs
  BY <1>3, <1>5, DoneIsDone DEF Syncs
<1>7. NotifierTypeOK'
  BY <1>1, <1>2, <1>5, <1>6 DEF NotifierTypeOK, Syncs
<1>8. Known'
  BY <1>3, <1>5 DEF Known
<1>9. Settled'
  <2>1. Done.call # "clearNative"
    BY DoneIsDone
  <2> QED
    BY <1>2, <1>3, <1>5, <2>1 DEF Settled
<1> QED
  BY <1>4, <1>7, <1>8, <1>9 DEF NotifierInv

LEMMA NotifierStepInv == NotifierInv /\ [NotifierNext]_noticeVars => NotifierInv'
<1> SUFFICES ASSUME NotifierInv, [NotifierNext]_noticeVars PROVE NotifierInv'
  OBVIOUS
<1>1. CASE UNCHANGED noticeVars
  BY <1>1 DEF NotifierInv, NotifierTypeOK, NewestIsLast, Known, Settled, noticeVars
<1>2. CASE NotifierNext
  BY <1>2, ChangeStep, StartStep, ReturnStep DEF NotifierNext, Works
<1> QED
  BY <1>1, <1>2

LEMMA NotifierAlways == NotifierSpec => []NotifierInv
  BY NotifierInitInv, NotifierStepInv, PTL DEF NotifierSpec

\* Whatever requests come and go while Android is slow or refuses calls, the
\* notifier leaves no stale notification behind (sync, clearNativeNotification).
THEOREM NothingStale == NotifierSpec => []NoStaleNotification
<1>1. NotifierInv => NoStaleNotification
  BY DoneIsDone DEF NotifierInv, Known, Settled, NoStaleNotification
<1> QED
  BY <1>1, NotifierAlways, PTL

-----------------------------------------------------------------------------
(***************************************************************************)
(* The log of Diagnostics loses nothing it need not.  Every log, in        *)
(* memory, on the disk or in the queue, has its ordinary events in order   *)
(* and at most one event of statistics (GoodLogs), and the appends that    *)
(* have yet to go on are younger than what is held (WaitInOrder).  So the  *)
(* event a full log drops is the oldest.  Until the log is loaded nothing  *)
(* writes, and every event of this run waits (NotYetLoaded).               *)
(***************************************************************************)
LogEvents == [at : Nat, stats : BOOLEAN]

InOrder(s) ==
  \A i, j \in DOMAIN s : i < j /\ ~s[i].stats /\ ~s[j].stats => s[i].at < s[j].at
OneStats(s) == \A i, j \in DOMAIN s : s[i].stats /\ s[j].stats => i = j
UpTo(s, n) == \A x \in Ordinary(s) : x <= n
GoodLog(s, n) ==
  s \in Seq(LogEvents) /\ Len(s) <= MaxLog /\ InOrder(s) /\ OneStats(s) /\ UpTo(s, n)
Before(s, t) == \A x \in Ordinary(s), y \in Ordinary(t) : x < y

LogTypes ==
  /\ waiting \in Seq(LogEvents) /\ writes \in Seq(Seq(LogEvents))
  /\ events \in Nat /\ born \in 0..events
  /\ corrupt \in BOOLEAN /\ timer \in BOOLEAN /\ writeFailed \in BOOLEAN
  /\ load \in {"no", "loading", "yes", "rejected"}

GoodLogs ==
  /\ GoodLog(log, events) /\ GoodLog(memory, events)
  /\ \A i \in DOMAIN writes : GoodLog(writes[i], events)
WaitInOrder ==
  /\ InOrder(waiting) /\ Ordinary(waiting) \subseteq born + 1..events
  /\ load = "yes" => Before(memory, waiting)
NotYetLoaded ==
  load \in {"no", "loading"} =>
    /\ writes = <<>> /\ ~timer /\ UpTo(log, born) /\ Ordinary(waiting) = born + 1..events

Held == {n \in Ordinary(memory) : n > born} \cup Ordinary(waiting)
HoldsNewest ==
  load = "yes" =>
    /\ \E first \in born + 1..events + 1 : Held = first..events
    /\ Len(memory) < MaxLog => Held = born + 1..events
SnapshotIsNewest ==
  load = "yes" /\ ~timer =>
    /\ writes # <<>> => writes[Len(writes)] = memory
    /\ writes = <<>> /\ ~writeFailed /\ memory # <<>> => log = memory

LogInv ==
  LogTypes /\ GoodLogs /\ WaitInOrder /\ NotYetLoaded /\ HoldsNewest /\ SnapshotIsNewest

\* t is s without its p-th event.
Removed(s, p, t) ==
  /\ t \in Seq(LogEvents) /\ Len(s) = Len(t) + 1
  /\ \A k \in 1..Len(t) : t[k] = IF k < p THEN s[k] ELSE s[k + 1]

-----------------------------------------------------------------------------
LEMMA OrdinaryOf ==
  ASSUME NEW s \in Seq(LogEvents), NEW x
  PROVE  x \in Ordinary(s) <=> \E i \in 1..Len(s) : ~s[i].stats /\ x = s[i].at
<1>1. DOMAIN s = 1..Len(s)
  BY LenProperties
<1> QED
  BY <1>1 DEF Ordinary

LEMMA OrdinaryNat == ASSUME NEW s \in Seq(LogEvents) PROVE Ordinary(s) \subseteq Nat
<1> SUFFICES ASSUME NEW x \in Ordinary(s) PROVE x \in Nat
  OBVIOUS
<1>1. PICK i \in 1..Len(s) : x = s[i].at
  BY OrdinaryOf
<1>2. s[i] \in LogEvents
  BY ElementOfSeq
<1> QED
  BY <1>1, <1>2 DEF LogEvents

LEMMA NothingOrdinary ==
  /\ Ordinary(<<>>) = {} /\ InOrder(<<>>) /\ OneStats(<<>>) /\ <<>> \in Seq(LogEvents) /\ Len(<<>>) = 0
  /\ \A n : UpTo(<<>>, n)
  BY EmptySeq, LenProperties DEF Ordinary, InOrder, OneStats, UpTo

LEMMA EmptyIsGood == ASSUME NEW n PROVE GoodLog(<<>>, n)
  BY NothingOrdinary, LogAssumption DEF GoodLog

\* An event taken away leaves the order alone and takes only itself.
LEMMA RemovalKeeps ==
  ASSUME NEW s \in Seq(LogEvents), NEW p \in 1..Len(s), NEW t, Removed(s, p, t), InOrder(s)
  PROVE  /\ InOrder(t) /\ (OneStats(s) => OneStats(t))
         /\ Ordinary(t) = (IF s[p].stats THEN Ordinary(s) ELSE Ordinary(s) \ {s[p].at})
         /\ OneStats(s) /\ s[p].stats => \A i \in 1..Len(t) : ~t[i].stats
<1>0. t \in Seq(LogEvents) /\ Len(s) = Len(t) + 1 /\ Len(t) \in Nat /\ Len(s) \in Nat
      /\ DOMAIN s = 1..Len(s) /\ DOMAIN t = 1..Len(t)
  BY LenProperties DEF Removed
<1> DEFINE At(k) == IF k < p THEN k ELSE k + 1
<1>1. \A k \in 1..Len(t) : At(k) \in 1..Len(s) /\ t[k] = s[At(k)] /\ At(k) # p
  BY <1>0 DEF Removed
<1>2. \A i, j \in 1..Len(t) : i < j => At(i) < At(j)
  BY <1>0
<1>3. \A k \in 1..Len(s) : k # p => \E i \in 1..Len(t) : At(i) = k
  <2> SUFFICES ASSUME NEW k \in 1..Len(s), k # p PROVE \E i \in 1..Len(t) : At(i) = k
    OBVIOUS
  <2>1. CASE k < p
    BY <2>1, <1>0
  <2>2. CASE k > p
    <3>1. k - 1 \in 1..Len(t) /\ At(k - 1) = k
      BY <2>2, <1>0
    <3> QED
      BY <3>1
  <2> QED
    BY <2>1, <2>2
<1>4. \A i, j \in 1..Len(t) : At(i) = At(j) => i = j
  BY <1>0
<1> HIDE DEF At
<1>5. InOrder(t)
  BY <1>0, <1>1, <1>2 DEF InOrder
<1>6. OneStats(s) => OneStats(t)
  BY <1>0, <1>1, <1>4 DEF OneStats
<1>7. OneStats(s) /\ s[p].stats => \A i \in 1..Len(t) : ~t[i].stats
  BY <1>0, <1>1 DEF OneStats
<1>8. Ordinary(t) \subseteq Ordinary(s)
  BY <1>0, <1>1, OrdinaryOf
<1>9. \A x \in Ordinary(s) : x \in Ordinary(t) \/ (~s[p].stats /\ x = s[p].at)
  <2> TAKE x \in Ordinary(s)
  <2>1. PICK k \in 1..Len(s) : ~s[k].stats /\ x = s[k].at
    BY OrdinaryOf
  <2>2. CASE k = p
    BY <2>1, <2>2
  <2>3. CASE k # p
    <3>1. PICK i \in 1..Len(t) : At(i) = k
      BY <1>3, <2>3
    <3> QED
      BY <3>1, <2>1, <1>0, <1>1, OrdinaryOf
  <2> QED
    BY <2>2, <2>3
<1>10. ~s[p].stats => s[p].at \notin Ordinary(t)
  <2> SUFFICES ASSUME ~s[p].stats, s[p].at \in Ordinary(t) PROVE FALSE
    OBVIOUS
  <2>1. PICK i \in 1..Len(t) : ~t[i].stats /\ s[p].at = t[i].at
    BY <1>0, OrdinaryOf
  <2>2. At(i) \in 1..Len(s) /\ t[i] = s[At(i)] /\ At(i) # p
    BY <1>1
  <2>3. At(i) < p \/ p < At(i)
    BY <2>2, <1>0
  <2>4. s[At(i)].at < s[p].at \/ s[p].at < s[At(i)].at
    BY <2>1, <2>2, <2>3, <1>0 DEF InOrder
  <2>5. s[p] \in LogEvents
    BY ElementOfSeq
  <2>6. s[p].at \in Nat
    BY <2>5 DEF LogEvents
  <2> QED
    BY <2>1, <2>2, <2>4, <2>6
<1> QED
  BY <1>5, <1>6, <1>7, <1>8, <1>9, <1>10

LEMMA TailIsRemoval ==
  ASSUME NEW s \in Seq(LogEvents), s # <<>>
  PROVE  1 \in 1..Len(s) /\ Removed(s, 1, Tail(s)) /\ Head(s) = s[1]
  BY HeadTailProperties, LenProperties, EmptySeq DEF Removed

LEMMA HeadIsOldest ==
  ASSUME NEW s \in Seq(LogEvents), s # <<>>, InOrder(s), ~Head(s).stats
  PROVE  Head(s).at \in Ordinary(s) /\ \A x \in Ordinary(Tail(s)) : Head(s).at < x
<1> DEFINE t == Tail(s)
<1>1. 1 \in 1..Len(s) /\ Removed(s, 1, t) /\ Head(s) = s[1]
  BY TailIsRemoval
<1> HIDE DEF t
<1>2. t \in Seq(LogEvents) /\ Len(s) = Len(t) + 1 /\ Len(t) \in Nat /\ DOMAIN s = 1..Len(s)
  BY <1>1, LenProperties DEF Removed
<1>3. ASSUME NEW x \in Ordinary(t) PROVE s[1].at < x
  <2>1. PICK i \in 1..Len(t) : ~t[i].stats /\ x = t[i].at
    BY <1>2, OrdinaryOf
  <2>2. i + 1 \in 1..Len(s) /\ 1 < i + 1 /\ t[i] = s[i + 1]
    BY <1>1, <1>2 DEF Removed
  <2> QED
    BY <1>1, <1>2, <2>1, <2>2 DEF InOrder
<1>4. s[1].at \in Ordinary(s)
  BY <1>1, OrdinaryOf
<1> QED
  BY <1>1, <1>3, <1>4 DEF t

LEMMA AppendKeeps ==
  ASSUME NEW s \in Seq(LogEvents), NEW e \in LogEvents, InOrder(s)
  PROVE  /\ Append(s, e) \in Seq(LogEvents) /\ Len(Append(s, e)) = Len(s) + 1
         /\ Ordinary(Append(s, e)) = Ordinary(s) \cup (IF e.stats THEN {} ELSE {e.at})
         /\ (e.stats \/ \A x \in Ordinary(s) : x < e.at) => InOrder(Append(s, e))
         /\ (\A i \in 1..Len(s) : ~s[i].stats) => OneStats(Append(s, e))
         /\ OneStats(s) /\ ~e.stats => OneStats(Append(s, e))
<1> DEFINE t == Append(s, e)
           n == Len(s)
<1>1. t \in Seq(LogEvents) /\ Len(t) = n + 1 /\ n \in Nat /\ t[n + 1] = e
      /\ DOMAIN s = 1..n /\ DOMAIN t = 1..n + 1 /\ \A i \in 1..n : t[i] = s[i]
  BY AppendProperties, LenProperties
<1> HIDE DEF t
<1>2. \A x : x \in Ordinary(t) <=> x \in Ordinary(s) \/ (~e.stats /\ x = e.at)
  <2> TAKE x
  <2>1. x \in Ordinary(t) <=> \E i \in 1..n + 1 : ~t[i].stats /\ x = t[i].at
    BY <1>1, OrdinaryOf
  <2>2. x \in Ordinary(s) <=> \E i \in 1..n : ~s[i].stats /\ x = s[i].at
    BY OrdinaryOf
  <2> QED
    BY <1>1, <2>1, <2>2
<1>3. ASSUME e.stats \/ \A x \in Ordinary(s) : x < e.at PROVE InOrder(t)
  <2> SUFFICES ASSUME NEW i \in 1..n + 1, NEW j \in 1..n + 1, i < j, ~t[i].stats, ~t[j].stats
               PROVE  t[i].at < t[j].at
    BY <1>1 DEF InOrder
  <2>1. CASE j = n + 1
    <3>1. i \in 1..n
      BY <2>1, <1>1
    <3>2. s[i].at \in Ordinary(s)
      BY <3>1, <1>1, OrdinaryOf
    <3> QED
      BY <1>1, <1>3, <2>1, <3>1, <3>2
  <2>2. CASE j # n + 1
    <3>1. i \in 1..n /\ j \in 1..n
      BY <2>2, <1>1
    <3> QED
      BY <1>1, <3>1 DEF InOrder
  <2> QED
    BY <2>1, <2>2
<1>4. ASSUME \A i \in 1..n : ~s[i].stats PROVE OneStats(t)
  BY <1>1, <1>4 DEF OneStats
<1>5. OneStats(s) /\ ~e.stats => OneStats(t)
  BY <1>1 DEF OneStats
<1> QED
  BY <1>1, <1>2, <1>3, <1>4, <1>5 DEF t

LEMMA LastOfCases ==
  ASSUME NEW s \in Seq(LogEvents), Len(s) <= MaxLog + 1
  PROVE  \/ Len(s) <= MaxLog /\ LastOf(s) = s
         \/ Len(s) = MaxLog + 1 /\ s # <<>> /\ LastOf(s) = Tail(s)
<1>1. Len(s) \in Nat
  BY LenProperties
<1>2. CASE Len(s) <= MaxLog
  <2>1. ~(Len(s) > MaxLog)
    BY <1>1, <1>2, LogAssumption
  <2>2. LastOf(s) = SubSeq(s, 1, Len(s))
    BY <2>1, Zenon DEF LastOf
  <2> QED
    BY <1>2, <2>2, SubSeqFull
<1>3. CASE Len(s) = MaxLog + 1
  <2>1. s # <<>>
    BY <1>3, LogAssumption, EmptySeq
  <2> QED
    BY <1>3, <2>1, TailIsSubSeq, LogAssumption DEF LastOf
<1> QED
  BY <1>1, <1>2, <1>3, LogAssumption

-----------------------------------------------------------------------------
LEMMA KthIs ==
  ASSUME NEW S, NEW k, NEW i \in S, Cardinality({j \in S : j <= i}) = k,
         \A l \in S : Cardinality({j \in S : j <= l}) = k => l = i
  PROVE  KthOf(S, k) = i
  BY DEF KthOf

\* In an interval without p, the k-th number is k up to p and k + 1 from there.
LEMMA KthBut ==
  ASSUME NEW n \in Nat, NEW p \in 1..n + 1, NEW k \in 1..(IF p = n + 1 THEN n ELSE n - 1)
  PROVE  KthOf((1..n) \ {p}, k) = (IF k < p THEN k ELSE k + 1)
<1> DEFINE S == (1..n) \ {p}
           x == IF k < p THEN k ELSE k + 1
<1>1. x \in S
  OBVIOUS
<1>2. ASSUME NEW i \in S PROVE Cardinality({j \in S : j <= i}) = IF p <= i THEN i - 1 ELSE i
  <2>1. {j \in S : j <= i} = (1..i) \ {p}
    OBVIOUS
  <2>2. IsFiniteSet(1..i) /\ Cardinality(1..i) = i
    BY FS_Interval
  <2>3. Cardinality((1..i) \ {p}) = IF p \in 1..i THEN i - 1 ELSE i
    BY <2>2, FS_RemoveElement
  <2> QED
    BY <2>1, <2>3
<1>3. Cardinality({j \in S : j <= x}) = k
  BY <1>1, <1>2
<1>4. ASSUME NEW l \in S, Cardinality({j \in S : j <= l}) = k PROVE l = x
  <2>1. k = IF p <= l THEN l - 1 ELSE l
    BY <1>2, <1>4
  <2> QED
    BY <2>1
<1> HIDE DEF S, x
<1>5. KthOf(S, k) = x
  BY <1>1, <1>3, <1>4, KthIs
<1> QED
  BY <1>5 DEF S, x

\* Taking the statistics out of a log takes out at most one event.
LEMMA WithoutStatsRemoves ==
  ASSUME NEW s \in Seq(LogEvents), OneStats(s)
  PROVE  \/ WithoutStats(s) = s /\ \A i \in 1..Len(s) : ~s[i].stats
         \/ \E p \in 1..Len(s) : s[p].stats /\ Removed(s, p, WithoutStats(s))
<1> DEFINE n == Len(s)
           kept == {i \in DOMAIN s : ~s[i].stats}
<1>1. n \in Nat /\ DOMAIN s = 1..n /\ s \in [1..n -> LogEvents]
  BY LenProperties
<1> HIDE DEF n
<1>2. \A i \in 1..n : s[i] \in LogEvents
  BY <1>1
<1>3. WithoutStats(s) = [k \in 1..Cardinality(kept) |-> s[KthOf(kept, k)]]
  BY DEF WithoutStats
<1>4. PICK p \in 1..n + 1 :
        /\ kept = (1..n) \ {p}
        /\ IF p = n + 1 THEN \A i \in 1..n : ~s[i].stats ELSE s[p].stats
  <2>1. CASE \E p \in 1..n : s[p].stats
    <3>1. PICK p \in 1..n : s[p].stats
      BY <2>1
    <3>2. kept = (1..n) \ {p}
      BY <1>1, <3>1 DEF OneStats
    <3> QED
      BY <1>1, <3>1, <3>2
  <2>2. CASE ~\E p \in 1..n : s[p].stats
    <3>1. kept = (1..n) \ {n + 1}
      BY <1>1, <2>2
    <3>2. n + 1 \in 1..n + 1
      BY <1>1
    <3> QED
      BY <2>2, <3>1, <3>2
  <2> QED
    BY <2>1, <2>2
<1> DEFINE m == IF p = n + 1 THEN n ELSE n - 1
<1>5. Cardinality(kept) = m /\ m \in Nat
  <2>1. IsFiniteSet(1..n) /\ Cardinality(1..n) = n
    BY <1>1, FS_Interval
  <2>2. Cardinality((1..n) \ {p}) = IF p \in 1..n THEN n - 1 ELSE n
    BY <2>1, FS_RemoveElement
  <2>3. kept = (1..n) \ {p}
    BY <1>4
  <2>4. Cardinality(kept) = IF p \in 1..n THEN n - 1 ELSE n
    BY <2>2, <2>3
  <2> HIDE DEF kept
  <2> QED
    BY <1>1, <2>4
<1> DEFINE At(k) == IF k < p THEN k ELSE k + 1
<1>6. \A k \in 1..m : KthOf(kept, k) = At(k)
  BY <1>1, <1>4, KthBut
<1>7. \A k \in 1..m : At(k) \in 1..n
  BY <1>1
<1> HIDE DEF kept
<1>8. WithoutStats(s) = [k \in 1..m |-> s[At(k)]]
  BY <1>3, <1>5, <1>6
<1>9. [k \in 1..m |-> s[At(k)]] \in [1..m -> LogEvents]
  BY <1>2, <1>7
<1> HIDE DEF m, At
<1>10. /\ WithoutStats(s) \in Seq(LogEvents) /\ Len(WithoutStats(s)) = m
       /\ \A k \in 1..m : WithoutStats(s)[k] = s[At(k)]
  BY <1>5, <1>8, <1>9
<1>11. CASE p = n + 1
  <2>1. m = n /\ \A k \in 1..n : At(k) = k
    BY <1>1, <1>11 DEF m, At
  <2>2. WithoutStats(s) = s
    BY <1>10, <2>1, SeqEqual DEF n
  <2> QED
    BY <1>4, <1>11, <2>2 DEF n
<1>12. CASE p # n + 1
  <2>1. p \in 1..n /\ n = m + 1
    BY <1>1, <1>12 DEF m
  <2>2. Removed(s, p, WithoutStats(s))
    BY <1>10, <2>1 DEF Removed, At, n
  <2> QED
    BY <1>4, <1>12, <2>1, <2>2 DEF n
<1> QED
  BY <1>11, <1>12

\* Recording an event in a log keeps the log good and drops at most its oldest
\* ordinary event, and none unless the log is full.
LEMMA RecordedLog ==
  ASSUME NEW n \in Nat, NEW m, GoodLog(m, n), NEW e \in LogEvents,
         e.stats \/ (e.at <= n /\ \A x \in Ordinary(m) : x < e.at)
  PROVE  LET O == Ordinary(m) \cup (IF e.stats THEN {} ELSE {e.at})
             r == Recorded(m, e)
         IN /\ GoodLog(r, n) /\ r # <<>> /\ Len(m) <= Len(r)
            /\ \/ Ordinary(r) = O
               \/ Len(r) = MaxLog /\ \E h \in O : (\A x \in O : h <= x) /\ Ordinary(r) = O \ {h}
<1> DEFINE O == Ordinary(m) \cup (IF e.stats THEN {} ELSE {e.at})
           b == IF e.stats THEN WithoutStats(m) ELSE m
           a == Append(b, e)
           r == LastOf(a)
<1>1. m \in Seq(LogEvents) /\ Len(m) <= MaxLog /\ InOrder(m) /\ OneStats(m) /\ UpTo(m, n)
      /\ Len(m) \in Nat
  BY LenProperties DEF GoodLog
<1>2. /\ b \in Seq(LogEvents) /\ InOrder(b) /\ OneStats(b) /\ Ordinary(b) = Ordinary(m)
      /\ Len(b) <= Len(m) /\ Len(m) <= Len(b) + 1 /\ Len(b) \in Nat
      /\ e.stats => (\A i \in 1..Len(b) : ~b[i].stats)
      /\ ~e.stats => Len(b) = Len(m)
  <2>1. CASE ~e.stats
    BY <1>1, <2>1
  <2>2. CASE e.stats /\ WithoutStats(m) = m /\ \A i \in 1..Len(m) : ~m[i].stats
    BY <1>1, <2>2
  <2>3. CASE e.stats /\ \E p \in 1..Len(m) : m[p].stats /\ Removed(m, p, WithoutStats(m))
    <3>1. PICK p \in 1..Len(m) : m[p].stats /\ Removed(m, p, WithoutStats(m))
      BY <2>3
    <3>2. /\ InOrder(WithoutStats(m)) /\ OneStats(WithoutStats(m))
          /\ Ordinary(WithoutStats(m)) = Ordinary(m)
          /\ \A i \in 1..Len(WithoutStats(m)) : ~WithoutStats(m)[i].stats
      BY <1>1, <3>1, RemovalKeeps
    <3>3. WithoutStats(m) \in Seq(LogEvents) /\ Len(m) = Len(WithoutStats(m)) + 1
      BY <3>1 DEF Removed
    <3>4. Len(WithoutStats(m)) \in Nat
      BY <3>3, LenProperties
    <3> QED
      BY <2>3, <3>2, <3>3, <3>4
  <2> QED
    BY <1>1, <2>1, <2>2, <2>3, WithoutStatsRemoves
<1> HIDE DEF b
<1>3. /\ a \in Seq(LogEvents) /\ Len(a) = Len(b) + 1 /\ InOrder(a) /\ OneStats(a)
      /\ Ordinary(a) = O
  BY <1>2, AppendKeeps
<1>4. \A x \in O : x <= n
  BY <1>1 DEF UpTo
<1>5. O \subseteq Nat
  <2>1. e.at \in Nat
    BY DEF LogEvents
  <2> QED
    BY <1>1, <2>1, OrdinaryNat
<1>6. Recorded(m, e) = r
  BY DEF Recorded, b
<1> HIDE DEF a
<1>7. CASE Len(a) <= MaxLog /\ r = a
  <2>1. a # <<>>
    BY <1>2, <1>3, EmptySeq
  <2>2. GoodLog(r, n)
    BY <1>3, <1>4, <1>7 DEF GoodLog, UpTo
  <2>3. Len(m) <= Len(r)
    BY <1>1, <1>2, <1>3, <1>7
  <2> QED
    BY <1>3, <1>6, <1>7, <2>1, <2>2, <2>3
<1>8. CASE Len(a) = MaxLog + 1 /\ a # <<>> /\ r = Tail(a)
  <2>1. 1 \in 1..Len(a) /\ Removed(a, 1, r)
    BY <1>3, <1>8, TailIsRemoval
  <2>2. r \in Seq(LogEvents) /\ Len(r) = MaxLog
    <3>1. r \in Seq(LogEvents) /\ Len(a) = Len(r) + 1 /\ Len(r) \in Nat
      BY <2>1, LenProperties DEF Removed
    <3>2. Len(a) = MaxLog + 1
      BY <1>8
    <3> HIDE DEF r
    <3> QED
      BY <3>1, <3>2, LogAssumption
  <2>3. /\ InOrder(r) /\ OneStats(r)
        /\ Ordinary(r) = (IF a[1].stats THEN O ELSE O \ {a[1].at})
    BY <1>3, <2>1, RemovalKeeps
  <2>4. GoodLog(r, n)
    BY <1>4, <2>2, <2>3, LogAssumption DEF GoodLog, UpTo
  <2>5. r # <<>> /\ Len(m) <= Len(r)
    BY <1>1, <2>2, LogAssumption, EmptySeq
  <2>6. ASSUME ~a[1].stats PROVE a[1].at \in O /\ \A x \in O : a[1].at <= x
    <3>1. Head(a) = a[1]
      BY <1>3, <1>8, TailIsRemoval
    <3>2. a[1].at \in O /\ \A x \in Ordinary(r) : a[1].at < x
      BY <1>3, <1>8, <2>6, <3>1, HeadIsOldest
    <3>3. \A x \in O : x = a[1].at \/ a[1].at < x
      BY <2>3, <2>6, <3>2
    <3>4. \A x \in O : x \in Nat
      BY <1>5
    <3>5. a[1].at \in Nat
      BY <3>2, <3>4
    <3> HIDE DEF O
    <3> QED
      BY <3>2, <3>3, <3>4, <3>5
  <2>7. Ordinary(r) = O \/ \E h \in O : (\A x \in O : h <= x) /\ Ordinary(r) = O \ {h}
    BY <2>3, <2>6
  <2> QED
    BY <1>6, <2>2, <2>4, <2>5, <2>7
<1>9. Len(a) <= MaxLog + 1
  BY <1>1, <1>2, <1>3, LogAssumption
<1> QED
  BY <1>3, <1>7, <1>8, <1>9, LastOfCases

-----------------------------------------------------------------------------
LEMMA LogInitInv == LogInit => LogInv
<1> SUFFICES ASSUME LogInit PROVE LogInv
  OBVIOUS
<1>1. <<>> \in Seq(LogEvents) /\ <<>> \in Seq(Seq(LogEvents))
  BY EmptySeq
<1>2. LogTypes
  <2>1. waiting \in Seq(LogEvents) /\ writes \in Seq(Seq(LogEvents))
    BY <1>1 DEF LogInit
  <2>2. events \in Nat /\ born \in 0..events
    BY DEF LogInit
  <2> QED
    BY <2>1, <2>2 DEF LogInit, LogTypes
<1>3. \A n : GoodLog(<<>>, n)
  BY EmptyIsGood
<1>4. DOMAIN writes = {}
  BY LenProperties, NothingOrdinary DEF LogInit
<1>5. GoodLogs
  BY <1>3, <1>4 DEF LogInit, GoodLogs
<1>6. born + 1..events = {}
  BY DEF LogInit
<1> QED
  BY <1>5, <1>6, <1>2, NothingOrdinary
  DEF LogInit, LogInv, WaitInOrder, NotYetLoaded, HoldsNewest, SnapshotIsNewest

LEMMA EventsGrow == ASSUME NEW n \in Nat, NEW s, GoodLog(s, n) PROVE GoodLog(s, n + 1)
<1>1. Ordinary(s) \subseteq Nat
  BY OrdinaryNat DEF GoodLog
<1> QED
  BY <1>1 DEF GoodLog, UpTo

LEMMA ListStep == LogInv /\ List => LogInv'
<1> SUFFICES ASSUME LogInv, List PROVE LogInv'
  OBVIOUS
<1> QED
  BY DEF List, LogInv, LogTypes, GoodLogs, WaitInOrder, NotYetLoaded, HoldsNewest, SnapshotIsNewest,
         Held

LEMMA AwaitStep ==
  ASSUME LogInv, AppendEvent PROVE LogInv'
<1>1. PICK new \in LogEvents :
        /\ waiting' = Append(waiting, new)
        /\ IF new.stats THEN events' = events ELSE events' = events + 1 /\ new.at = events'
  <2>1. events \in Nat
    BY DEF LogInv, LogTypes
  <2>2. CASE events' = events + 1 /\ Awaits(Event(events', FALSE))
    <3>1. Event(events', FALSE) \in LogEvents /\ Event(events', FALSE).at = events'
          /\ ~Event(events', FALSE).stats
      BY <2>1, <2>2 DEF Event, LogEvents
    <3> QED
      BY <2>2, <3>1 DEF Awaits
  <2>3. CASE Awaits(Event(events, TRUE)) /\ UNCHANGED events
    <3>1. Event(events, TRUE) \in LogEvents /\ Event(events, TRUE).stats
      BY <2>1 DEF Event, LogEvents
    <3> QED
      BY <2>3, <3>1 DEF Awaits
  <2> QED
    BY <2>2, <2>3 DEF AppendEvent
<1>2. /\ load' = (IF load = "no" THEN "loading" ELSE load)
      /\ UNCHANGED <<log, corrupt, memory, timer, writes, born, writeFailed>>
  BY DEF AppendEvent, Awaits
<1>3. LogTypes /\ GoodLogs /\ WaitInOrder /\ NotYetLoaded /\ HoldsNewest /\ SnapshotIsNewest
  BY DEF LogInv
<1>4. /\ waiting' \in Seq(LogEvents)
      /\ Ordinary(waiting') = Ordinary(waiting) \cup (IF new.stats THEN {} ELSE {new.at})
      /\ InOrder(waiting')
  <2>1. new.stats \/ \A x \in Ordinary(waiting) : x < new.at
    BY <1>1, <1>3 DEF WaitInOrder, LogTypes
  <2> QED
    BY <1>1, <1>3, <2>1, AppendKeeps DEF WaitInOrder, LogTypes
<1>5. events' = events \/ events' = events + 1
  BY <1>1
<1>6. LogTypes'
  BY <1>2, <1>3, <1>4, <1>5 DEF LogTypes
<1>7. GoodLogs'
  BY <1>2, <1>3, <1>5, EventsGrow DEF GoodLogs, LogTypes
<1>8. CASE new.stats
  <2>1. events' = events /\ Ordinary(waiting') = Ordinary(waiting)
    BY <1>1, <1>4, <1>8
  <2>2. WaitInOrder'
    BY <1>2, <1>3, <1>4, <2>1 DEF WaitInOrder, Before
  <2>3. NotYetLoaded'
    BY <1>2, <1>3, <2>1 DEF NotYetLoaded
  <2>4. Held' = Held
    BY <1>2, <2>1 DEF Held
  <2>5. HoldsNewest'
    BY <1>2, <1>3, <2>1, <2>4 DEF HoldsNewest
  <2>6. SnapshotIsNewest'
    BY <1>2, <1>3 DEF SnapshotIsNewest
  <2> QED
    BY <1>6, <1>7, <2>2, <2>3, <2>5, <2>6 DEF LogInv
<1>9. CASE ~new.stats
  <2>1. events' = events + 1 /\ Ordinary(waiting') = Ordinary(waiting) \cup {events + 1}
    BY <1>1, <1>4, <1>9
  <2>2. born \in Nat /\ events \in Nat /\ born <= events
    BY <1>3 DEF LogTypes
  <2>3. \A k \in born + 1..events + 1 : k..events + 1 = (k..events) \cup {events + 1}
    BY <2>2
  <2>4. born + 1..events + 1 = (born + 1..events) \cup {events + 1}
    BY <2>2
  <2>5. WaitInOrder'
    <3>1. \A x \in Ordinary(memory) : x <= events
      BY <1>3 DEF GoodLogs, GoodLog, UpTo
    <3>2. Ordinary(memory) \subseteq Nat
      BY <1>3, OrdinaryNat DEF GoodLogs, GoodLog
    <3>3. load' = "yes" => Before(memory, waiting)
      BY <1>2, <1>3 DEF WaitInOrder
    <3>4. load' = "yes" => Before(memory', waiting')
      BY <1>2, <2>1, <2>2, <3>1, <3>2, <3>3 DEF Before
    <3> QED
      BY <1>2, <1>3, <1>4, <2>1, <2>4, <3>4 DEF WaitInOrder
  <2>6. NotYetLoaded'
    BY <1>2, <1>3, <2>1, <2>4 DEF NotYetLoaded
  <2>7. Held' = Held \cup {events + 1}
    BY <1>2, <2>1 DEF Held
  <2>8. HoldsNewest'
    <3> SUFFICES ASSUME load' = "yes" PROVE HoldsNewest'
      BY DEF HoldsNewest
    <3>1. PICK first \in born + 1..events + 1 : Held = first..events
      BY <1>2, <1>3 DEF HoldsNewest
    <3>2. Held' = first..events' /\ first \in born' + 1..events' + 1
      BY <1>2, <2>1, <2>2, <2>3, <2>7, <3>1
    <3>3. Len(memory') < MaxLog => Held' = born' + 1..events'
      BY <1>2, <1>3, <2>1, <2>4, <2>7 DEF HoldsNewest
    <3> QED
      BY <3>2, <3>3 DEF HoldsNewest
  <2>9. SnapshotIsNewest'
    BY <1>2, <1>3 DEF SnapshotIsNewest
  <2> QED
    BY <1>6, <1>7, <2>5, <2>6, <2>8, <2>9 DEF LogInv
<1> QED
  BY <1>8, <1>9

LEMMA RecordStep ==
  ASSUME LogInv, Record PROVE LogInv'
<1>1. LogTypes /\ GoodLogs /\ WaitInOrder /\ NotYetLoaded /\ HoldsNewest /\ SnapshotIsNewest
  BY DEF LogInv
<1>2. /\ load \in {"yes", "rejected"} /\ waiting # <<>> /\ waiting' = Tail(waiting)
      /\ UNCHANGED <<log, corrupt, load, writes, events, born, writeFailed>>
  BY DEF Record
<1> DEFINE e == Head(waiting)
           here == IF e.stats THEN {} ELSE {e.at}
<1>3. /\ e \in LogEvents /\ waiting' \in Seq(LogEvents) /\ InOrder(waiting')
      /\ Ordinary(waiting') = Ordinary(waiting) \ here
      /\ here \subseteq Ordinary(waiting)
  <2>1. 1 \in 1..Len(waiting) /\ Removed(waiting, 1, waiting') /\ e = waiting[1]
    BY <1>1, <1>2, TailIsRemoval DEF LogTypes
  <2>2. e \in LogEvents /\ waiting' \in Seq(LogEvents)
    BY <1>1, <2>1, ElementOfSeq DEF LogTypes, Removed
  <2>3. InOrder(waiting')
        /\ Ordinary(waiting') = (IF e.stats THEN Ordinary(waiting) ELSE Ordinary(waiting) \ {e.at})
    BY <1>1, <2>1, RemovalKeeps DEF LogTypes, WaitInOrder
  <2>4. ~e.stats => e.at \in Ordinary(waiting)
    BY <1>1, <2>1, OrdinaryOf DEF LogTypes
  <2> QED
    BY <2>2, <2>3, <2>4
<1>4. \A x \in here, y \in Ordinary(waiting') : x < y
  BY <1>1, <1>2, HeadIsOldest DEF LogTypes, WaitInOrder
<1>5. here \subseteq born + 1..events /\ Ordinary(waiting') \subseteq born + 1..events
  BY <1>1, <1>3 DEF WaitInOrder
<1>6. born \in Nat /\ events \in Nat
  BY <1>1 DEF LogTypes
<1> HIDE DEF here
<1>7. timer' \in BOOLEAN
  BY <1>1 DEF Record, LogTypes
<1>8. LogTypes'
  BY <1>1, <1>2, <1>3, <1>7 DEF LogTypes
<1>9. CASE load = "rejected"
  <2>1. UNCHANGED memory
    BY <1>9 DEF Record
  <2>2. load' = "rejected"
    BY <1>2, <1>9
  <2>3. GoodLogs'
    BY <1>1, <1>2, <2>1 DEF GoodLogs
  <2> QED
    BY <1>2, <1>3, <1>5, <1>8, <2>2, <2>3
    DEF LogInv, WaitInOrder, NotYetLoaded, HoldsNewest, SnapshotIsNewest
<1>10. CASE load = "yes"
  <2> DEFINE O == Ordinary(memory) \cup here
  <2>1. memory' = Recorded(memory, e) /\ timer' = TRUE /\ load' = "yes"
    BY <1>2, <1>10 DEF Record
  <2>2. e.stats \/ (e.at <= events /\ \A x \in Ordinary(memory) : x < e.at)
    <3>1. CASE ~e.stats
      <4>1. e.at \in here
        BY <3>1 DEF here
      <4>0. e.at \in born + 1..events
        BY <1>5, <4>1
      <4>2. e.at <= events
        BY <1>6, <4>0
      <4>3. e.at \in Ordinary(waiting) /\ Before(memory, waiting)
        BY <1>1, <1>3, <1>10, <4>1 DEF WaitInOrder
      <4>4. \A x \in Ordinary(memory) : x < e.at
        BY <4>3 DEF Before
      <4> QED
        BY <4>2, <4>4
    <3> QED
      BY <3>1
  <2>3. /\ GoodLog(memory', events) /\ memory' # <<>> /\ Len(memory) <= Len(memory')
        /\ \/ Ordinary(memory') = O
           \/ Len(memory') = MaxLog
              /\ \E h \in O : (\A x \in O : h <= x) /\ Ordinary(memory') = O \ {h}
    BY <1>1, <1>3, <1>6, <2>1, <2>2, RecordedLog DEF GoodLogs, here
  <2>4. GoodLogs'
    BY <1>1, <1>2, <2>3 DEF GoodLogs
  <2>5. \A x \in O, y \in Ordinary(waiting') : x < y
    BY <1>1, <1>3, <1>4, <1>10 DEF WaitInOrder, Before
  <2>6. WaitInOrder'
    BY <1>2, <1>3, <1>5, <2>3, <2>5 DEF WaitInOrder, Before
  <2>7. {n \in O : n > born} \cup Ordinary(waiting') = Held
    <3>1. \A x \in here : x > born
      BY <1>5, <1>6
    <3> QED
      BY <1>3, <3>1 DEF Held
  <2>8. PICK first \in born + 1..events + 1 : Held = first..events
    BY <1>1, <1>10 DEF HoldsNewest
  <2>9. Held' = {n \in Ordinary(memory') : n > born} \cup Ordinary(waiting')
    BY <1>2 DEF Held
  <2>10. Len(memory) \in Nat /\ Len(memory') \in Nat
    BY <1>1, <2>3, LenProperties DEF GoodLogs, GoodLog
  <2>11. ASSUME Ordinary(memory') = O PROVE HoldsNewest'
    <3>1. Held' = Held
      BY <2>7, <2>9, <2>11
    <3>2. Len(memory') < MaxLog => Len(memory) < MaxLog
      BY <2>3, <2>10, LogAssumption
    <3>3. born' = born /\ events' = events
      BY <1>2
    <3>4. \E k \in born + 1..events + 1 : Held' = k..events
      BY <2>8, <3>1
    <3>5. Len(memory') < MaxLog => Held' = born + 1..events
      BY <1>1, <1>10, <3>1, <3>2 DEF HoldsNewest
    <3> QED
      BY <3>3, <3>4, <3>5 DEF HoldsNewest
  <2>12. ASSUME Len(memory') = MaxLog,
                \E h \in O : (\A x \in O : h <= x) /\ Ordinary(memory') = O \ {h}
         PROVE  HoldsNewest'
    <3>1. PICK h \in O : (\A x \in O : h <= x) /\ Ordinary(memory') = O \ {h}
      BY <2>12
    <3>2. Held' = Held \/ (h > born /\ Held' = Held \ {h})
      BY <2>5, <2>7, <2>9, <3>1
    <3>3. ASSUME h > born, Held' = Held \ {h}
          PROVE  \E k \in born + 1..events + 1 : Held' = k..events
      <4>0. h \in {n \in O : n > born}
        BY <3>1, <3>3
      <4>1. h \in Held
        BY <2>7, <4>0
      <4>2. \A x \in Held : h <= x
        <5>1. \A x \in O : h <= x
          BY <3>1
        <5>2. \A x \in Ordinary(waiting') : h < x
          BY <2>5, <3>1
        <5>3. \A x \in Held : x \in O \/ x \in Ordinary(waiting')
          BY <2>7
        <5>4. h \in Nat /\ Held \subseteq Nat
          BY <1>6, <2>8, <4>1
        <5> HIDE DEF O
        <5> QED
          BY <5>1, <5>2, <5>3, <5>4
      <4>3. h = first
        BY <1>6, <2>8, <4>1, <4>2
      <4>4. Held' = first + 1..events /\ first + 1 \in born + 1..events + 1
        BY <1>6, <2>8, <3>3, <4>1, <4>3
      <4> QED
        BY <4>4
    <3>4. ASSUME Held' = Held PROVE \E k \in born + 1..events + 1 : Held' = k..events
      BY <2>8, <3>4
    <3>5. \E k \in born + 1..events + 1 : Held' = k..events
      BY <3>2, <3>3, <3>4
    <3>6. born' = born /\ events' = events /\ ~(Len(memory') < MaxLog)
      BY <1>2, <2>12, LogAssumption
    <3> QED
      BY <3>5, <3>6 DEF HoldsNewest
  <2>13. HoldsNewest'
    BY <2>3, <2>11, <2>12
  <2>14. NotYetLoaded' /\ SnapshotIsNewest'
    BY <2>1 DEF NotYetLoaded, SnapshotIsNewest
  <2> QED
    BY <1>8, <2>4, <2>6, <2>13, <2>14 DEF LogInv
<1> QED
  BY <1>2, <1>9, <1>10

LEMMA LoadStep ==
  ASSUME LogInv, LoadReturns PROVE LogInv'
<1>1. LogTypes /\ GoodLogs /\ WaitInOrder /\ NotYetLoaded
  BY DEF LogInv
<1>2. load = "loading" /\ UNCHANGED <<log, corrupt, waiting, timer, writes, events, born, writeFailed>>
  BY DEF LoadReturns
<1>3. writes = <<>> /\ ~timer /\ UpTo(log, born) /\ Ordinary(waiting) = born + 1..events
  BY <1>1, <1>2 DEF NotYetLoaded
<1>4. CASE load' = "rejected" /\ UNCHANGED memory
  <2>1. LogTypes' /\ GoodLogs'
    BY <1>1, <1>2, <1>4 DEF LogTypes, GoodLogs
  <2> QED
    BY <1>1, <1>2, <1>4, <2>1 DEF LogInv, WaitInOrder, NotYetLoaded, HoldsNewest, SnapshotIsNewest
<1>5. CASE Loaded(log) \/ Loaded(<<>>)
  <2>1. load' = "yes" /\ (memory' = log \/ memory' = <<>>)
    BY <1>5 DEF Loaded
  <2>2. GoodLog(memory', events) /\ UpTo(memory', born)
    BY <1>1, <1>3, <2>1, EmptyIsGood, NothingOrdinary DEF GoodLogs
  <2>3. LogTypes'
    BY <1>1, <1>2, <2>1 DEF LogTypes
  <2>4. GoodLogs'
    BY <1>1, <1>2, <2>2 DEF GoodLogs
  <2>5. born \in Nat /\ events \in Nat /\ born <= events /\ Ordinary(memory') \subseteq Nat
    BY <1>1, <2>2, OrdinaryNat DEF LogTypes, GoodLog
  <2>6. WaitInOrder'
    <3>1. \A x \in Ordinary(memory'), y \in born + 1..events : x < y
      BY <2>2, <2>5 DEF UpTo
    <3> QED
      BY <1>1, <1>2, <1>3, <3>1 DEF WaitInOrder, Before
  <2>7. Held' = born' + 1..events'
    <3>1. {n \in Ordinary(memory') : n > born} = {}
      BY <2>2, <2>5 DEF UpTo
    <3> QED
      BY <1>2, <1>3, <3>1 DEF Held
  <2>8. HoldsNewest'
    <3>1. born' + 1 \in born' + 1..events' + 1
      BY <1>2, <2>5
    <3> QED
      BY <2>7, <3>1 DEF HoldsNewest
  <2>9. NotYetLoaded' /\ SnapshotIsNewest'
    BY <1>2, <1>3, <2>1 DEF NotYetLoaded, SnapshotIsNewest
  <2> QED
    BY <2>3, <2>4, <2>6, <2>8, <2>9 DEF LogInv
<1> QED
  BY <1>4, <1>5 DEF LoadReturns

LEMMA TimerStep ==
  ASSUME LogInv, TimerFires PROVE LogInv'
<1>1. LogTypes /\ GoodLogs /\ WaitInOrder /\ NotYetLoaded /\ HoldsNewest
  BY DEF LogInv
<1>2. /\ timer /\ timer' = FALSE /\ writes' = Append(writes, memory)
      /\ UNCHANGED <<log, corrupt, memory, load, waiting, events, born, writeFailed>>
  BY DEF TimerFires, QueueSnapshot
<1>3. /\ writes' \in Seq(Seq(LogEvents)) /\ writes' # <<>> /\ Len(writes') = Len(writes) + 1
      /\ \A i \in 1..Len(writes) : writes'[i] = writes[i]
      /\ writes'[Len(writes')] = memory /\ Len(writes) \in Nat
      /\ DOMAIN writes = 1..Len(writes) /\ DOMAIN writes' = 1..Len(writes')
  <2>1. memory \in Seq(LogEvents)
    BY <1>1 DEF GoodLogs, GoodLog
  <2>2. writes' \in Seq(Seq(LogEvents))
    BY <1>1, <1>2, <2>1, AppendProperties DEF LogTypes
  <2> QED
    BY <1>1, <1>2, <2>1, <2>2, AppendProperties, LenProperties DEF LogTypes
<1>4. LogTypes'
  BY <1>1, <1>2, <1>3 DEF LogTypes
<1>5. GoodLogs'
  <2>1. ASSUME NEW i \in DOMAIN writes' PROVE GoodLog(writes'[i], events)
    <3>1. i \in 1..Len(writes) \/ i = Len(writes')
      BY <1>3
    <3> QED
      BY <1>1, <1>3, <3>1 DEF GoodLogs
  <2> QED
    BY <1>1, <1>2, <2>1 DEF GoodLogs
<1>6. WaitInOrder' /\ NotYetLoaded' /\ SnapshotIsNewest'
  BY <1>1, <1>2, <1>3 DEF WaitInOrder, NotYetLoaded, SnapshotIsNewest
<1>7. HoldsNewest'
  BY <1>1, <1>2 DEF HoldsNewest, Held
<1> QED
  BY <1>4, <1>5, <1>6, <1>7 DEF LogInv

LEMMA PersistStep ==
  ASSUME LogInv, Persist PROVE LogInv'
<1>1. LogTypes /\ GoodLogs /\ WaitInOrder /\ NotYetLoaded /\ HoldsNewest /\ SnapshotIsNewest
  BY DEF LogInv
<1>2. /\ writes # <<>> /\ writes' = Tail(writes)
      /\ UNCHANGED <<memory, load, waiting, timer, events, born>>
  BY DEF Persist
<1>3. \/ log' = Head(writes) /\ corrupt' = FALSE /\ writeFailed' = FALSE
      \/ writeFailed' = TRUE /\ UNCHANGED <<log, corrupt>>
  BY DEF Persist
<1>4. load \notin {"no", "loading"}
  BY <1>1, <1>2 DEF NotYetLoaded
<1>5. /\ writes' \in Seq(Seq(LogEvents)) /\ Len(writes) = Len(writes') + 1 /\ Len(writes') \in Nat
      /\ \A i \in 1..Len(writes') : writes'[i] = writes[i + 1]
      /\ DOMAIN writes = 1..Len(writes) /\ DOMAIN writes' = 1..Len(writes')
      /\ Head(writes) = writes[1]
  <2>1. writes' \in Seq(Seq(LogEvents)) /\ Len(writes') = Len(writes) - 1
        /\ \A i \in 1..Len(writes') : writes'[i] = writes[i + 1]
    BY <1>1, <1>2, HeadTailProperties DEF LogTypes
  <2>2. Len(writes) \in Nat /\ Len(writes') \in Nat
        /\ DOMAIN writes = 1..Len(writes) /\ DOMAIN writes' = 1..Len(writes')
    BY <1>1, <2>1, LenProperties DEF LogTypes
  <2>3. Head(writes) = writes[1]
    BY <1>1, <1>2, HeadTailProperties DEF LogTypes
  <2> QED
    BY <2>1, <2>2, <2>3
<1>6. LogTypes'
  BY <1>1, <1>2, <1>3, <1>5 DEF LogTypes
<1>7. GoodLogs'
  <2>1. GoodLog(writes[1], events)
    BY <1>1, <1>5 DEF GoodLogs
  <2>2. GoodLog(log', events)
    BY <1>1, <1>3, <1>5, <2>1 DEF GoodLogs
  <2>3. ASSUME NEW i \in DOMAIN writes' PROVE GoodLog(writes'[i], events)
    <3>1. i + 1 \in DOMAIN writes /\ writes'[i] = writes[i + 1]
      BY <1>5
    <3> QED
      BY <1>1, <3>1 DEF GoodLogs
  <2> QED
    BY <1>1, <1>2, <2>2, <2>3 DEF GoodLogs
<1>8. WaitInOrder' /\ NotYetLoaded'
  BY <1>1, <1>2, <1>4 DEF WaitInOrder, NotYetLoaded
<1>9. HoldsNewest'
  BY <1>1, <1>2 DEF HoldsNewest, Held
<1>10. SnapshotIsNewest'
  <2> SUFFICES ASSUME load = "yes", ~timer
               PROVE  /\ writes' # <<>> => writes'[Len(writes')] = memory
                      /\ writes' = <<>> /\ ~writeFailed' /\ memory # <<>> => log' = memory
    BY <1>2 DEF SnapshotIsNewest
  <2>1. writes[Len(writes)] = memory
    BY <1>1, <1>2 DEF SnapshotIsNewest
  <2>2. ASSUME writes' # <<>> PROVE writes'[Len(writes')] = memory
    <3>1. Len(writes') # 0
      BY <1>5, <2>2, EmptySeq
    <3>2. Len(writes') \in 1..Len(writes') /\ Len(writes') + 1 = Len(writes)
      BY <1>5, <3>1
    <3> QED
      BY <1>5, <2>1, <3>2
  <2>3. ASSUME writes' = <<>>, ~writeFailed' PROVE log' = memory
    <3>1. Len(writes') = 0
      BY <2>3, EmptySeq
    <3>2. Len(writes) = 1
      BY <1>5, <3>1
    <3> QED
      BY <1>3, <1>5, <2>1, <2>3, <3>2
  <2> QED
    BY <2>2, <2>3
<1> QED
  BY <1>6, <1>7, <1>8, <1>9, <1>10 DEF LogInv

LEMMA LogRestartStep ==
  ASSUME LogInv, LogRestarts PROVE LogInv'
<1>1. LogTypes /\ GoodLogs
  BY DEF LogInv
<1>2. /\ memory' = <<>> /\ load' = "no" /\ waiting' = <<>> /\ timer' = FALSE
      /\ writes' = <<>> /\ born' = events /\ writeFailed' = FALSE
      /\ UNCHANGED <<log, corrupt, events>>
  BY DEF LogRestarts
<1>3. <<>> \in Seq(LogEvents) /\ <<>> \in Seq(Seq(LogEvents))
  BY EmptySeq
<1>4. LogTypes'
  <2>1. waiting' \in Seq(LogEvents) /\ writes' \in Seq(Seq(LogEvents))
    BY <1>2, <1>3
  <2>2. events' \in Nat /\ born' \in 0..events'
    BY <1>1, <1>2 DEF LogTypes
  <2> QED
    BY <1>1, <1>2, <2>1, <2>2 DEF LogTypes
<1>5. DOMAIN writes' = {}
  BY <1>2, <1>3, LenProperties, NothingOrdinary
<1>6. GoodLogs'
  BY <1>1, <1>2, <1>5, EmptyIsGood DEF GoodLogs
<1>7. events + 1..events = {} /\ UpTo(log, events)
  BY <1>1 DEF LogTypes, GoodLogs, GoodLog
<1> QED
  BY <1>2, <1>4, <1>6, <1>7, NothingOrdinary
  DEF LogInv, WaitInOrder, NotYetLoaded, HoldsNewest, SnapshotIsNewest

LEMMA LogStepInv == LogInv /\ [LogNext]_logVars => LogInv'
<1> SUFFICES ASSUME LogInv, [LogNext]_logVars PROVE LogInv'
  OBVIOUS
<1>1. CASE UNCHANGED logVars
  BY <1>1 DEF LogInv, LogTypes, GoodLogs, WaitInOrder, NotYetLoaded, HoldsNewest, SnapshotIsNewest,
              Held, logVars
<1>2. CASE LogNext
  BY <1>2, ListStep, AwaitStep, RecordStep, LoadStep, TimerStep, PersistStep, LogRestartStep
  DEF LogNext
<1> QED
  BY <1>1, <1>2

\* However long the load, the writes and the appends of this run take, fail or
\* are cut short, the log of DiagnosticsRepository loses only its oldest events,
\* only when it is full, and the disk ends with the newest snapshot (append,
\* ensureLoaded, schedulePersist).
THEOREM LogKeepsTheNewest == LogSpec => []LogIsFaithful
<1>1. LogInv => LogIsFaithful
  BY DEF LogInv, HoldsNewest, SnapshotIsNewest, LogIsFaithful, Held
<1>2. LogSpec => []LogInv
  BY LogInitInv, LogStepInv, PTL DEF LogSpec
<1> QED
  BY <1>1, <1>2, PTL
=============================================================================
