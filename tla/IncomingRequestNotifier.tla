----------------------- MODULE IncomingRequestNotifier -----------------------
(***************************************************************************)
(* IncomingRequestNotifier of one phone: it keeps Android's notification   *)
(* in step with the session controller's incoming request.  Every change   *)
(* of the session queues a sync with a new generation; the syncs run one   *)
(* after the other and each waits for Android while the session goes on.   *)
(* Android may refuse a call, or carry it out and fail all the same.       *)
(***************************************************************************)
EXTENDS Naturals, Sequences

CONSTANT MaxChanges   \* bound: changes of the session

VARIABLES
  request,            \* session of the IncomingRequest, 0 in any other state
  changes,            \* changes of the session so far
  shown,              \* session of the notification on the device, 0 if none
  activeSessionId,    \* what the notifier believes is shown, 0 if nothing
  desiredGeneration,
  syncs,              \* generations of the syncs in operationQueue
  sync,               \* the running sync and the call it waits for
  mayRefuse,          \* whether Android refuses calls in this behaviour
  stuck               \* the last clear was refused

noticeVars ==
  <<request, changes, shown, activeSessionId, desiredGeneration, syncs, sync, mayRefuse, stuck>>

Waits(call, generation, session) ==
  [call |-> call, generation |-> generation, session |-> session]
Done == Waits("none", 0, 0)

\* The constructor queues the first sync.
NotifierInit ==
  /\ request = 0 /\ changes = 0 /\ shown = 0 /\ activeSessionId = 0
  /\ desiredGeneration = 1 /\ syncs = <<1>> /\ sync = Done /\ mayRefuse \in BOOLEAN /\ stuck = FALSE

\* The session changes, to the request of a new session or to another state.
SessionChanges ==
  /\ changes < MaxChanges /\ changes' = changes + 1
  /\ request' \in {0} \cup (IF request = 0 THEN {changes'} ELSE {})
  /\ desiredGeneration' = desiredGeneration + 1
  /\ syncs' = Append(syncs, desiredGeneration')
  /\ UNCHANGED <<shown, activeSessionId, sync, mayRefuse, stuck>>

IsCurrent(generation) == generation = desiredGeneration

\* Mutant: one request is taken for another.
ShownAlreadyLoosely == (request = 0) <=> (activeSessionId = 0)

ShownAlready == request = activeSessionId

\* sync(generation) up to its first native call.
SyncStarts ==
  /\ sync = Done /\ syncs # <<>> /\ syncs' = Tail(syncs)
  /\ LET generation == Head(syncs)
     IN sync' = IF ~IsCurrent(generation) \/ ShownAlready THEN Done
                ELSE IF request # 0 THEN Waits("show", generation, request)
                ELSE Waits("clear", generation, 0)
  /\ UNCHANGED <<request, changes, shown, activeSessionId, desiredGeneration, mayRefuse, stuck>>

\* Mutant: what a stale show left on the device is forgotten.
ForgetStaleShow(ok) ==
  /\ sync' = Done
  /\ activeSessionId' = IF ok /\ IsCurrent(sync.generation) THEN sync.session ELSE activeSessionId

\* A show counts if it succeeded and nothing has changed since.
ShowSettles(ok) ==
  IF ok /\ IsCurrent(sync.generation) /\ request = sync.session
  THEN sync' = Done /\ activeSessionId' = sync.session
  ELSE sync' = [sync EXCEPT !.call = "clearNative"] /\ UNCHANGED activeSessionId

\* A notification replaces the one that is shown.
ShowReturns ==
  /\ sync.call = "show"
  /\ \/ shown' = sync.session /\ stuck' = FALSE /\ ShowSettles(TRUE)
     \/ /\ mayRefuse /\ shown' \in {shown, sync.session} /\ ShowSettles(FALSE)
        /\ UNCHANGED stuck

\* The clearing of a request that is over.
ClearSettles ==
  IF IsCurrent(sync.generation) THEN sync' = Done /\ activeSessionId' = 0
  ELSE sync' = [sync EXCEPT !.call = "clearNative"] /\ UNCHANGED activeSessionId

Cleared ==
  \/ shown' = 0 /\ stuck' = FALSE
  \/ mayRefuse /\ stuck' = TRUE /\ UNCHANGED shown

ClearReturns ==
  \/ sync.call = "clear" /\ Cleared /\ ClearSettles
  \/ sync.call = "clearNative" /\ Cleared /\ sync' = Done /\ activeSessionId' = 0

NativeReturns ==
  /\ ShowReturns \/ ClearReturns
  /\ UNCHANGED <<request, changes, desiredGeneration, syncs, mayRefuse>>

Works == SyncStarts \/ NativeReturns

NotifierNext == SessionChanges \/ Works

NotifierSpec == NotifierInit /\ [][NotifierNext]_noticeVars

\* JavaScript runs its queue and Android answers every call.
NotifierFairness == WF_noticeVars(Works)

-----------------------------------------------------------------------------
\* The types of the notifier's fields.
NotifierTypeOK ==
  /\ request \in Nat /\ changes \in Nat /\ shown \in Nat /\ activeSessionId \in Nat
  /\ desiredGeneration \in Nat /\ syncs \in Seq(Nat)
  /\ mayRefuse \in BOOLEAN /\ stuck \in BOOLEAN
  /\ sync \in [call : {"none", "show", "clear", "clearNative"}, generation : Nat, session : Nat]

\* With no sync waiting or running, Android shows no notification but that of the
\* request that is open now, and the notifier knows whether it does: a request
\* that came, went and came again while show and clear were under way leaves
\* nothing stale to be tapped.  Only a clear that Android refuses can.
NoStaleNotification ==
  sync = Done /\ syncs = <<>> =>
    /\ activeSessionId \in {0, request}
    /\ shown = activeSessionId \/ stuck

\* An open request gets its notification unless Android refuses calls.
RequestIsShown == request # 0 /\ ~mayRefuse ~> request = 0 \/ shown = request
=============================================================================
