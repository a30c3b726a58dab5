------------------------ MODULE PairTrustRepository ------------------------
(***************************************************************************)
(* PairTrustRepository of one phone, one storage call at a time.           *)
(*                                                                         *)
(* PairingService runs one method at a time (its promise queue); the other *)
(* services call loadConfirmed whenever they like, so a reader runs        *)
(* alongside.  The process may die between any two storage calls.          *)
(***************************************************************************)
EXTENDS PairTrust, Sequences

CONSTANT Crashes   \* may the process die

ASSUME CrashesAssumption == Crashes \in BOOLEAN

VARIABLES
  keys,      \* the stored keys
  last,      \* the method that returned last, "none" if it threw
  op, pair,  \* running method, or "idle", and the pair it stages
  start,     \* the keys when the method began
  todo,      \* storage steps the method still has to take
  left,      \* keys whose removal in the current step has not settled
  cleaning,  \* every remaining step is taken whatever fails
  failed,    \* the method is going to throw
  read,      \* what a concurrent loadConfirmed has read so far
  trusted    \* history: pairs that were trusted at some moment of that read

vars == <<keys, last, op, pair, start, todo, left, cleaning, failed, read, trusted>>

Methods == {"stage", "installCommitted", "markConfirmed", "discardIncomplete",
            "abortPairAttempt", "revoke"}

DropSteps == {"dropPending", "dropDurable"}
WriteSteps == {"pendingSecret", "pendingMeta", "secret", "meta", "confirmed"}

\* What a read has found of a key it has not looked at yet: no pair.
Unread == "unread"

ASSUME UnreadAssumption == Unread \notin PairOrNone

NoRead == [active |-> FALSE, meta |-> Unread, status |-> "none", secret |-> Unread]

-----------------------------------------------------------------------------
\* The steps of method m on pair a, and whether it has failed already.
Plan(m, s, a) ==
  CASE m = "stage" /\ ~HasDurableMaterial(s) ->
         [todo |-> <<"pendingSecret", "pendingMeta">>, failed |-> FALSE]
    [] m = "installCommitted" /\ HasPending(s) ->
         [todo |-> <<"secret", "meta", "dropPending">>, failed |-> FALSE]
    [] m = "installCommitted" /\ ~HasPending(s) ->
         [todo |-> <<"dropPending">>, failed |-> TRUE]
    [] m = "markConfirmed" /\ s.meta # NoPair /\ s.secret # NoPair /\ s.status = "committed" ->
         [todo |-> <<"confirmed">>, failed |-> FALSE]
    [] m = "discardIncomplete" ->
         [todo |-> <<"dropPending", "examine">>, failed |-> FALSE]
    [] m = "abortPairAttempt" ->
         [todo |-> <<"dropPending", "dropDurable">>, failed |-> FALSE]
    [] m = "revoke" ->
         [todo |-> <<"dropDurable", "dropPending">>, failed |-> FALSE]
    [] OTHER -> [todo |-> <<>>, failed |-> TRUE]

\* The catch block of a method that was writing.
CleanUp ==
  CASE op = "stage" -> <<"dropPending">>
    [] op = "installCommitted" -> <<"dropDurable", "dropPending">>
    [] OTHER -> <<>>

Written(s, step) ==
  CASE step = "pendingSecret" -> [s EXCEPT !.pendingSecret = pair]
    [] step = "pendingMeta" -> [s EXCEPT !.pendingMeta = pair]
    [] step = "secret" -> [s EXCEPT !.secret = start.pendingSecret]
    [] step = "meta" -> [s EXCEPT !.meta = start.pendingMeta, !.status = "committed"]
    [] step = "confirmed" -> [s EXCEPT !.status = "confirmed"]

Removed(s, step, half) ==
  CASE step = "dropPending" /\ half = "meta" -> NoPendingMeta(s)
    [] step = "dropPending" /\ half = "secret" -> NoPendingSecret(s)
    [] step = "dropDurable" /\ half = "meta" -> NoMeta(s)
    [] step = "dropDurable" /\ half = "secret" -> NoSecret(s)

-----------------------------------------------------------------------------
\* Assumption on time: staging a pair takes a QR scan and two confirmations by
\* people, so no load that has read one key is still waiting for the other.
\* PairingService installs only what it staged and confirms what it installed.
Begin(m, a) ==
  /\ op = "idle"
  /\ m = "stage" => read.meta = Unread /\ read.secret = Unread
  /\ m = "installCommitted" => last = "stage"
  /\ m = "markConfirmed" => last = "installCommitted"
  /\ op' = m
  /\ pair' = a
  /\ start' = keys
  /\ left' = {}
  /\ LET plan == Plan(m, keys, a) IN
     \/ todo' = plan.todo /\ failed' = plan.failed
     \/ /\ StorageFaults                    \* the first read is rejected
        /\ m \in {"stage", "installCommitted", "markConfirmed"}
        /\ todo' = <<>> /\ failed' = TRUE
  /\ cleaning' = (failed' \/ m \in {"abortPairAttempt", "revoke"})
  /\ UNCHANGED <<keys, last, read>>

\* Mutant: the outcomes Promise.allSettled collects are not examined.
AdvanceUnverified(threw) ==
  /\ todo' = IF threw /\ ~cleaning THEN CleanUp ELSE Tail(todo)
  /\ cleaning' = (cleaning \/ threw)
  /\ UNCHANGED failed

\* Step over the current step, or run the catch block after it threw.
Advance(threw) ==
  /\ todo' = IF threw /\ ~cleaning THEN CleanUp ELSE Tail(todo)
  /\ cleaning' = (cleaning \/ threw)
  /\ failed' = (failed \/ threw)

Write ==
  /\ todo # <<>>
  /\ Head(todo) \in WriteSteps
  /\ \E threw \in IF StorageFaults THEN BOOLEAN ELSE {FALSE} :
       /\ \/ keys' = Written(keys, Head(todo))
          \/ threw /\ UNCHANGED keys
       /\ Advance(threw)
  /\ UNCHANGED <<last, op, pair, start, left, read>>

\* Both removals of a step are issued together (Promise.allSettled).
IssueRemovals ==
  /\ todo # <<>>
  /\ Head(todo) \in DropSteps
  /\ left = {}
  /\ left' = {"meta", "secret"}
  /\ UNCHANGED <<keys, last, op, pair, start, todo, cleaning, failed, read>>

\* One of them settles; the step ends, or throws, with the last one.  A half
\* whose removal was rejected is remembered as "rejected" until then.
SettleRemoval(half) ==
  /\ half \in left
  /\ \E rejected \in IF StorageFaults THEN BOOLEAN ELSE {FALSE} :
       LET rest == (left \ {half}) \cup (IF rejected THEN {"rejected"} ELSE {}) IN
       /\ \/ keys' = Removed(keys, Head(todo), half)
          \/ rejected /\ UNCHANGED keys
       /\ IF rest \subseteq {"rejected"}
          THEN left' = {} /\ Advance(rest # {})
          ELSE left' = rest /\ UNCHANGED <<todo, cleaning, failed>>
  /\ UNCHANGED <<last, op, pair, start, read>>

\* The second half of discardIncomplete: look at the durable keys.
Examine ==
  /\ todo # <<>>
  /\ Head(todo) = "examine"
  /\ \/ /\ keys.status = "committed" \/ (keys.meta = NoPair /\ keys.secret # NoPair)
        /\ todo' = <<"dropDurable">>
        /\ UNCHANGED failed
     \/ /\ ~(keys.status = "committed" \/ (keys.meta = NoPair /\ keys.secret # NoPair))
        /\ todo' = <<>>
        /\ failed' = (keys.meta # NoPair /\ keys.secret = NoPair)
     \/ /\ StorageFaults
        /\ todo' = <<>>
        /\ failed' = TRUE
  /\ UNCHANGED <<keys, last, op, pair, start, left, cleaning, read>>

Finished == op # "idle" /\ todo = <<>> /\ left = {}

Return ==
  /\ Finished
  /\ last' = IF failed THEN "none" ELSE op
  /\ op' = "idle"
  /\ pair' = NoPair
  /\ start' = EmptyStore
  /\ failed' = FALSE
  /\ cleaning' = FALSE
  /\ UNCHANGED <<keys, todo, left, read>>

\* The process dies: promises and readers are gone, the keys stay.
Die ==
  /\ Crashes
  /\ last' = "none"
  /\ op' = "idle" /\ pair' = NoPair /\ start' = EmptyStore
  /\ todo' = <<>> /\ left' = {} /\ cleaning' = FALSE /\ failed' = FALSE
  /\ read' = NoRead
  /\ UNCHANGED keys

-----------------------------------------------------------------------------
(***************************************************************************)
(* loadConfirmed from another service: the two keys are read at different  *)
(* moments, in either order.                                               *)
(***************************************************************************)
BeginLoad ==
  /\ ~read.active
  /\ read' = [NoRead EXCEPT !.active = TRUE]
  /\ UNCHANGED <<keys, last, op, pair, start, todo, left, cleaning, failed>>

LoadMeta ==
  /\ read.active /\ read.meta = Unread
  /\ read' = [read EXCEPT !.meta = keys.meta, !.status = keys.status]
  /\ UNCHANGED <<keys, last, op, pair, start, todo, left, cleaning, failed>>

LoadSecret ==
  /\ read.active /\ read.secret = Unread
  /\ read' = [read EXCEPT !.secret = keys.secret]
  /\ UNCHANGED <<keys, last, op, pair, start, todo, left, cleaning, failed>>

EndLoad ==
  /\ read.meta # Unread /\ read.secret # Unread
  /\ read' = NoRead
  /\ UNCHANGED <<keys, last, op, pair, start, todo, left, cleaning, failed>>

\* Mutant: loadConfirmed ignores the status of the metadata.
LoadedPairAnyStatus ==
  IF read.meta \in Pair /\ read.secret \in Pair THEN read.meta ELSE NoPair

\* What the finished read returns to its caller.
LoadedPair ==
  IF read.meta \in Pair /\ read.secret \in Pair /\ read.status = "confirmed"
  THEN read.meta ELSE NoPair

-----------------------------------------------------------------------------
Init ==
  /\ keys = EmptyStore
  /\ last = "none"
  /\ op = "idle" /\ pair = NoPair /\ start = EmptyStore
  /\ todo = <<>> /\ left = {} /\ cleaning = FALSE /\ failed = FALSE
  /\ read = NoRead
  /\ trusted = {}

MethodStep ==
  \/ Write \/ IssueRemovals \/ Examine \/ Return
  \/ \E half \in {"meta", "secret"} : SettleRemoval(half)

Step ==
  \/ \E m \in Methods \ {"stage"} : Begin(m, NoPair)
  \/ \E a \in Pair : Begin("stage", a)
  \/ MethodStep \/ Die
  \/ BeginLoad \/ LoadMeta \/ LoadSecret \/ EndLoad

\* The history of a read: the pairs trusted while it is going on.
Watch ==
  trusted' = IF ~read'.active THEN {}
             ELSE (IF read.active THEN trusted ELSE {})
                    \cup {a \in Pair : Trusts(keys, a) \/ Trusts(keys', a)}

Next == Step /\ Watch

Spec == Init /\ [][Next]_vars

-----------------------------------------------------------------------------
Contract(m, s, a) ==
  CASE m = "stage" -> Stage(s, a)
    [] m = "installCommitted" -> InstallCommitted(s)
    [] m = "markConfirmed" -> MarkConfirmed(s)
    [] m = "discardIncomplete" -> DiscardIncomplete(s)
    [] m = "abortPairAttempt" -> AbortPairAttempt(s)
    [] m = "revoke" -> RevokePair(s)

\* The stores a method passes through before anything fails are the ones that
\* Pairing lets a process death leave behind.
MidwayStores(m, s, a) ==
  CASE m = "stage" -> StageWrites(s, a)
    [] m = "installCommitted" -> InstallWrites(s)
    [] m = "markConfirmed" -> {s, Confirmed(s)}
    [] m = "discardIncomplete" /\ s.status = "confirmed" -> PartlyNoPending(s)
    [] OTHER -> Remnants(s)

\* The atomic methods Pairing is built on are sound: whatever storage calls are
\* rejected, in whatever order the two removals of a step settle, a method ends
\* in a store and an outcome that PairTrust allows it, and a process that dies
\* in the middle of one leaves a store that Pairing reckons with.
MethodsAreAtomic ==
  /\ Finished => Result(keys, ~failed) \in Contract(op, start, pair)
  /\ op # "idle" /\ ~failed => keys \in MidwayStores(op, start, pair)

\* A service that loads the pair while trust is being installed, confirmed or
\* revoked gets a partner only if that partner was trusted at some moment of
\* the load: two reads of a changing store never add up to trust that never was.
LoadsSeeRealTrust == LoadedPair # NoPair => LoadedPair \in trusted
=============================================================================
