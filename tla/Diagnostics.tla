----------------------------- MODULE Diagnostics -----------------------------
(***************************************************************************)
(* DiagnosticsRepository of one phone: the bounded log of events, kept in  *)
(* memory and written back by a timer.  Callers append from every service  *)
(* at once; the first of them loads the persisted log, all of them await   *)
(* the load and go on one at a time, in the order they were called.  Reads *)
(* and writes may fail and the process may die.                            *)
(***************************************************************************)
EXTENDS Naturals, Sequences, FiniteSets

CONSTANTS
  MaxLog,     \* MAX_DIAGNOSTIC_EVENTS
  MaxEvents,  \* bound: ordinary events over time
  MaxWaiting, \* bound: an event is appended while fewer wait
  MaxWrites   \* bound: the timer fires while fewer snapshots are queued

ASSUME LogAssumption == MaxLog \in Nat \ {0}

VARIABLES
  log,         \* the persisted log
  corrupt,     \* the persisted log cannot be parsed
  memory,      \* DiagnosticsRepository.memory
  load,        \* the state of loadPromise
  waiting,     \* events whose append awaits loadPromise
  timer,       \* persistTimer is set
  writes,      \* snapshots in writeQueue
  events,      \* ordinary events appended so far
  born,        \* events appended before this run of the process
  writeFailed  \* the last write failed

logVars == <<log, corrupt, memory, load, waiting, timer, writes, events, born, writeFailed>>

Event(n, stats) == [at |-> n, stats |-> stats]

LogInit ==
  /\ log = <<>> /\ corrupt \in BOOLEAN /\ memory = <<>> /\ load = "no" /\ waiting = <<>>
  /\ timer = FALSE /\ writes = <<>> /\ events = 0 /\ born = 0 /\ writeFailed = FALSE

LastOf(s) == SubSeq(s, IF Len(s) > MaxLog THEN Len(s) - MaxLog + 1 ELSE 1, Len(s))

KthOf(S, k) == CHOOSE i \in S : Cardinality({j \in S : j <= i}) = k

WithoutStats(m) ==
  LET kept == {i \in DOMAIN m : ~m[i].stats}
  IN [k \in 1..Cardinality(kept) |-> m[KthOf(kept, k)]]

\* Statistics replace earlier ones, the oldest goes first.
Recorded(m, e) == LastOf(Append(IF e.stats THEN WithoutStats(m) ELSE m, e))

\* Mutant: an append that only starts the load and does not await it.
Hurries(e) ==
  /\ memory' = Recorded(memory, e) /\ load' = (IF load = "no" THEN "loading" ELSE load)
  /\ timer' = TRUE /\ UNCHANGED waiting

Awaits(e) ==
  /\ waiting' = Append(waiting, e) /\ load' = (IF load = "no" THEN "loading" ELSE load)
  /\ UNCHANGED <<memory, timer>>

\* list: it starts the load like an append and changes nothing else.
List ==
  /\ load = "no" /\ load' = "loading"
  /\ UNCHANGED <<log, corrupt, memory, waiting, timer, writes, events, born, writeFailed>>

\* append, up to its await.
AppendEvent ==
  /\ Len(waiting) < MaxWaiting
  /\ \/ events < MaxEvents /\ events' = events + 1 /\ Awaits(Event(events', FALSE))
     \/ Awaits(Event(events, TRUE)) /\ UNCHANGED events
  /\ UNCHANGED <<log, corrupt, writes, born, writeFailed>>

\* append, from its await: it fails if the load did.
Record ==
  /\ load \in {"yes", "rejected"} /\ waiting # <<>> /\ waiting' = Tail(waiting)
  /\ IF load = "yes" THEN memory' = Recorded(memory, Head(waiting)) /\ timer' = TRUE
     ELSE UNCHANGED <<memory, timer>>
  /\ UNCHANGED <<log, corrupt, load, writes, events, born, writeFailed>>

Loaded(m) == load' = "yes" /\ memory' = m

\* A corrupt log is left alone and every append fails; an unreadable one counts
\* as empty.
LoadReturns ==
  /\ load = "loading"
  /\ \/ ~corrupt /\ Loaded(log)
     \/ corrupt /\ load' = "rejected" /\ UNCHANGED memory
     \/ Loaded(<<>>)
  /\ UNCHANGED <<log, corrupt, waiting, timer, writes, events, born, writeFailed>>

QueueSnapshot == writes' = Append(writes, memory)

TimerFires ==
  /\ timer /\ Len(writes) < MaxWrites /\ timer' = FALSE /\ QueueSnapshot
  /\ UNCHANGED <<log, corrupt, memory, load, waiting, events, born, writeFailed>>

Persist ==
  /\ writes # <<>> /\ writes' = Tail(writes)
  /\ \/ log' = Head(writes) /\ corrupt' = FALSE /\ writeFailed' = FALSE
     \/ writeFailed' = TRUE /\ UNCHANGED <<log, corrupt>>
  /\ UNCHANGED <<memory, load, waiting, timer, events, born>>

LogRestarts ==
  /\ memory' = <<>> /\ load' = "no" /\ waiting' = <<>> /\ timer' = FALSE
  /\ writes' = <<>> /\ born' = events /\ writeFailed' = FALSE
  /\ UNCHANGED <<log, corrupt, events>>

LogNext == List \/ AppendEvent \/ Record \/ LoadReturns \/ TimerFires \/ Persist \/ LogRestarts

LogSpec == LogInit /\ [][LogNext]_logVars

-----------------------------------------------------------------------------
Ordinary(s) == {s[i].at : i \in {j \in DOMAIN s : ~s[j].stats}}

\* The log loses nothing it need not.  While the process runs it forgets only the
\* oldest events: the ordinary events of this run that it holds, or whose append
\* has yet to go on, end with the newest, have no gap, and are all of them while
\* the log is not full; appends that raced for the first load are among them, and
\* statistics push out nothing but statistics until then.  And what is persisted
\* catches up: when no timer and no write is left, the newest snapshot is the one
\* on the disk.
LogIsFaithful ==
  load = "yes" =>
    LET own == {n \in Ordinary(memory) : n > born} \cup Ordinary(waiting)
    IN /\ \E first \in born + 1..events + 1 : own = first..events
       /\ Len(memory) < MaxLog => own = born + 1..events
       /\ ~timer /\ writes = <<>> /\ ~writeFailed /\ memory # <<>> => log = memory
=============================================================================
