--------------------- MODULE PairTrustRepositoryProofs ---------------------
(***************************************************************************)
(* Proofs about PairTrustRepository, key by key, for every set of pairs    *)
(* and with or without storage faults and process deaths.                  *)
(*                                                                         *)
(* That the methods are atomic: between its storage calls a method is in   *)
(* one of few positions, and at each of them the keys are those it wrote   *)
(* so far, less the removals that settled (Dropping).  At the last one its *)
(* outcome is one that PairTrust allows.                                   *)
(*                                                                         *)
(* That loads see real trust: a phone gets a durable secret only by        *)
(* installing what it staged while it had no durable material, so confirmed*)
(* metadata without a secret stays without one while a load waits for it   *)
(* (NoSecretComes), and it was trusted before the secret was removed.      *)
(***************************************************************************)
EXTENDS PairTrustRepository, TLAPS

-----------------------------------------------------------------------------
\* The keys, a removal of step having begun at the keys b.
Dropping(b, step) ==
  \/ left \in {{}, {"meta", "secret"}} /\ keys = b
  \/ left = {"meta"} /\ keys = Removed(b, step, "secret")
  \/ left = {"secret"} /\ keys = Removed(b, step, "meta")
  \/ StorageFaults /\ left = {"meta", "rejected"} /\ keys \in {b, Removed(b, step, "secret")}
  \/ StorageFaults /\ left = {"secret", "rejected"} /\ keys \in {b, Removed(b, step, "meta")}

\* The end of a method is one that PairTrust allows.
Outcome ==
  /\ Result(keys, ~failed) \in Contract(op, start, pair)
  /\ ~failed => keys \in MidwayStores(op, start, pair)

Ended == todo = <<>> /\ left = {} /\ Outcome

\* Where each method can be.
Writing(s, t) == ~failed /\ ~cleaning /\ left = {} /\ keys = s /\ todo = t
Undoing(B, t) == /\ StorageFaults /\ failed /\ cleaning /\ todo = t
                 /\ \E b \in B : Dropping(b, Head(t))

AtStage ==
  \/ Ended
  \/ /\ ~HasDurableMaterial(start)
     /\ \/ Writing(start, <<"pendingSecret", "pendingMeta">>)
        \/ Writing([start EXCEPT !.pendingSecret = pair], <<"pendingMeta">>)
        \/ Undoing(StageWrites(start, pair), <<"dropPending">>)

AtInstall ==
  \/ Ended
  \/ /\ HasPending(start)
     /\ \/ Writing(start, <<"secret", "meta", "dropPending">>)
        \/ Writing([start EXCEPT !.secret = start.pendingSecret], <<"meta", "dropPending">>)
        \/ /\ ~failed /\ ~cleaning /\ todo = <<"dropPending">>
           /\ Dropping(Committed(start), "dropPending")
        \/ Undoing(InstallWrites(start), <<"dropDurable", "dropPending">>)
        \/ Undoing(UNION {PartlyNoDurable(w) : w \in InstallWrites(start)}, <<"dropPending">>)
  \/ /\ ~HasPending(start)
     /\ failed /\ cleaning /\ todo = <<"dropPending">> /\ Dropping(start, "dropPending")

AtConfirm ==
  \/ Ended
  \/ /\ start.meta # NoPair /\ start.secret # NoPair /\ start.status = "committed"
     /\ Writing(start, <<"confirmed">>)

AtDiscard ==
  \/ Ended
  \/ /\ ~failed /\ ~cleaning
     /\ \/ todo = <<"dropPending", "examine">> /\ Dropping(start, "dropPending")
        \/ Writing(NoPending(start), <<"examine">>)
        \/ /\ start.status = "committed" \/ (start.meta = NoPair /\ start.secret # NoPair)
           /\ todo = <<"dropDurable">> /\ Dropping(NoPending(start), "dropDurable")

AtAbort ==
  \/ Ended
  \/ /\ ~failed /\ cleaning
     /\ \/ todo = <<"dropPending", "dropDurable">> /\ Dropping(start, "dropPending")
        \/ todo = <<"dropDurable">> /\ Dropping(NoPending(start), "dropDurable")
  \/ Undoing(PartlyNoPending(start), <<"dropDurable">>)

AtRevoke ==
  \/ Ended
  \/ /\ ~failed /\ cleaning
     /\ \/ todo = <<"dropDurable", "dropPending">> /\ Dropping(start, "dropDurable")
        \/ todo = <<"dropPending">> /\ Dropping(NoDurable(start), "dropPending")
  \/ Undoing(PartlyNoDurable(start), <<"dropPending">>)

\* The position of the running method.
Position ==
  /\ op = "idle" => todo = <<>> /\ left = {} /\ ~failed
  /\ op = "stage" => AtStage
  /\ op = "installCommitted" => AtInstall
  /\ op = "markConfirmed" => AtConfirm
  /\ op = "discardIncomplete" => AtDiscard
  /\ op = "abortPairAttempt" => AtAbort
  /\ op = "revoke" => AtRevoke

\* The status is part of the metadata document.
WellFormed(s) == s \in Store /\ (s.status = "none" <=> s.meta = NoPair)

RepositoryTypeOK ==
  /\ WellFormed(keys) /\ WellFormed(start)
  /\ op \in Methods \cup {"idle"} /\ last \in Methods \cup {"none"}
  /\ pair \in PairOrNone /\ (op = "stage" => pair \in Pair)
  /\ cleaning \in BOOLEAN /\ failed \in BOOLEAN
  /\ read \in [active : BOOLEAN, meta : PairOrNone \cup {Unread},
               status : {"none", "committed", "confirmed"}, secret : PairOrNone \cup {Unread}]

AtomicInv == RepositoryTypeOK /\ Position
-----------------------------------------------------------------------------
\* A phone that staged a pair, or installs one, has no durable material yet.
StagedOnNothing ==
  /\ op = "idle" /\ last = "stage" => ~HasDurableMaterial(keys)
  /\ op = "installCommitted" => ~HasDurableMaterial(start)

\* No durable secret, and none on its way.
NoSecretComes ==
  /\ keys.secret = NoPair
  /\ op = "idle" => last # "stage"
  /\ op = "stage" => failed
  /\ op = "installCommitted" => failed

\* What a load has read so far stands for trust it has seen.
SeenTrust ==
  /\ read.meta \in Pair /\ read.status = "confirmed" =>
       read.meta \in trusted \/ (read.secret = Unread /\ NoSecretComes) \/ read.secret = NoPair
  /\ read.secret \in Pair /\ read.meta = Unread /\ keys.status = "confirmed" /\ keys.secret = NoPair
       => keys.meta \in trusted
  /\ ~read.active => read.meta = Unread /\ read.secret = Unread

LoadInv == AtomicInv /\ StagedOnNothing /\ SeenTrust
-----------------------------------------------------------------------------
LEMMA Plans ==
  /\ \A x, y, z : /\ Head(<<x, y, z>>) = x /\ Tail(<<x, y, z>>) = <<y, z>> /\ <<x, y, z>> # <<>>
                  /\ Head(<<x, y>>) = x /\ Tail(<<x, y>>) = <<y>> /\ <<x, y>> # <<>>
                  /\ Head(<<x>>) = x /\ Tail(<<x>>) = <<>> /\ <<x>> # <<>>
                  /\ <<x, y>> # <<z>>
  OBVIOUS

\* The keys after both removals of a step, and after some of them.
Dropped(b, step) == Removed(Removed(b, step, "meta"), step, "secret")
Partly(b, step) == {b, Removed(b, step, "meta"), Removed(b, step, "secret"), Dropped(b, step)}

\* Removals keep the keys well-formed, commute, and are those of PairTrust.
LEMMA Removals ==
  ASSUME NEW b, WellFormed(b)
  PROVE  /\ \A step \in DropSteps, half \in {"meta", "secret"} :
              /\ WellFormed(Removed(b, step, half))
              /\ Removed(Removed(b, step, half), step, half) = Removed(b, step, half)
              /\ Removed(Removed(b, step, "secret"), step, "meta") = Dropped(b, step)
         /\ Dropped(b, "dropPending") = NoPending(b) /\ Dropped(b, "dropDurable") = NoDurable(b)
         /\ Partly(b, "dropPending") = PartlyNoPending(b)
         /\ Partly(b, "dropDurable") = PartlyNoDurable(b)
         /\ WellFormed(NoPending(b)) /\ WellFormed(NoDurable(b))
<1> DEFINE pm == NoPendingMeta(b)
           ps == NoPendingSecret(b)
           m == NoMeta(b)
           n == NoSecret(b)
<1>1. /\ Removed(b, "dropPending", "meta") = pm /\ Removed(b, "dropPending", "secret") = ps
      /\ Removed(b, "dropDurable", "meta") = m /\ Removed(b, "dropDurable", "secret") = n
      /\ Removed(ps, "dropPending", "meta") = NoPending(b) /\ Removed(n, "dropDurable", "meta") = NoDurable(b)
      /\ Removed(pm, "dropPending", "secret") = NoPendingSecret(pm)
      /\ Removed(m, "dropDurable", "secret") = NoSecret(m)
  BY DEF Removed, NoPending, NoDurable
<1>2. /\ Removed(pm, "dropPending", "meta") = NoPendingMeta(pm)
      /\ Removed(ps, "dropPending", "secret") = NoPendingSecret(ps)
      /\ Removed(m, "dropDurable", "meta") = NoMeta(m) /\ Removed(n, "dropDurable", "secret") = NoSecret(n)
  BY DEF Removed
<1>3. /\ NoPendingMeta(pm) = pm /\ NoPendingSecret(ps) = ps /\ NoMeta(m) = m /\ NoSecret(n) = n
      /\ NoPendingSecret(pm) = NoPending(b) /\ NoSecret(m) = NoDurable(b)
  BY DEF NoPending, NoDurable, NoPendingMeta, NoPendingSecret, NoMeta, NoSecret, WellFormed, Store
<1>4. WellFormed(pm) /\ WellFormed(ps) /\ WellFormed(m) /\ WellFormed(n)
  BY DEF WellFormed, Store, NoPendingMeta, NoPendingSecret, NoMeta, NoSecret, PairOrNone
<1>5. WellFormed(NoPending(b)) /\ WellFormed(NoDurable(b))
  BY <1>4 DEF WellFormed, Store, NoPending, NoDurable, NoPendingMeta, NoMeta, PairOrNone
<1> HIDE DEF pm, ps, m, n
<1>6. Dropped(b, "dropPending") = NoPending(b) /\ Dropped(b, "dropDurable") = NoDurable(b)
  BY <1>1, <1>3 DEF Dropped
<1>7. Partly(b, "dropPending") = PartlyNoPending(b) /\ Partly(b, "dropDurable") = PartlyNoDurable(b)
  BY <1>1, <1>6 DEF Partly, PartlyNoPending, PartlyNoDurable, pm, ps, m, n
<1>8. ASSUME NEW step \in DropSteps, NEW half \in {"meta", "secret"}
      PROVE  /\ WellFormed(Removed(b, step, half))
             /\ Removed(Removed(b, step, half), step, half) = Removed(b, step, half)
             /\ Removed(Removed(b, step, "secret"), step, "meta") = Dropped(b, step)
  BY <1>1, <1>2, <1>3, <1>4, <1>6 DEF DropSteps
<1> QED
  BY <1>5, <1>6, <1>7, <1>8

\* How a removal settles: the step goes on, has succeeded, or throws.
LEMMA Settles ==
  ASSUME NEW b, WellFormed(b), NEW half \in {"meta", "secret"}, SettleRemoval(half),
         NEW step \in DropSteps, Head(todo) = step, Dropping(b, step)
  PROVE  \/ Dropping(b, step)' /\ UNCHANGED <<todo, cleaning, failed>>
         \/ left' = {} /\ keys' = Dropped(b, step) /\ Advance(FALSE)
         \/ StorageFaults /\ left' = {} /\ keys' \in Partly(b, step) /\ Advance(TRUE)
<1> DEFINE k(h) == Removed(b, step, h)
<1>0. /\ \A h \in {"meta", "secret"} : Removed(k(h), step, h) = k(h)
      /\ Removed(k("secret"), step, "meta") = Dropped(b, step)
      /\ Removed(k("meta"), step, "secret") = Dropped(b, step)
  BY Removals DEF Dropped
<1>1. PICK rejected \in IF StorageFaults THEN BOOLEAN ELSE {FALSE} :
        LET rest == (left \ {half}) \cup (IF rejected THEN {"rejected"} ELSE {}) IN
        /\ \/ keys' = Removed(keys, step, half)
           \/ rejected /\ UNCHANGED keys
        /\ IF rest \subseteq {"rejected"}
           THEN left' = {} /\ Advance(rest # {})
           ELSE left' = rest /\ UNCHANGED <<todo, cleaning, failed>>
  BY DEF SettleRemoval
<1>2. half \in left /\ (rejected => StorageFaults) /\ rejected \in BOOLEAN
  BY <1>1 DEF SettleRemoval
<1>3. CASE left = {"meta", "secret"}
  <2>1. keys = b
    BY <1>3 DEF Dropping
  <2>2. CASE half = "meta"
    <3>1. left' = IF rejected THEN {"secret", "rejected"} ELSE {"secret"}
      BY <1>1, <1>3, <2>2
    <3> QED
      BY <1>1, <1>2, <1>3, <2>1, <2>2, <3>1 DEF Dropping
  <2>3. CASE half = "secret"
    <3>1. left' = IF rejected THEN {"meta", "rejected"} ELSE {"meta"}
      BY <1>1, <1>3, <2>3
    <3> QED
      BY <1>1, <1>2, <1>3, <2>1, <2>3, <3>1 DEF Dropping
  <2> QED
    BY <2>2, <2>3
<1>4. ASSUME NEW h \in {"meta", "secret"}, NEW g \in {"meta", "secret"}, h # g, left = {h}
      PROVE  \/ left' = {} /\ keys' = Dropped(b, step) /\ Advance(FALSE)
             \/ StorageFaults /\ left' = {} /\ keys' \in Partly(b, step) /\ Advance(TRUE)
  <2>1. keys = k(g) /\ half = h
    BY <1>2, <1>4 DEF Dropping
  <2>2. left' = {} /\ Advance(rejected)
    BY <1>1, <1>2, <1>4, <2>1
  <2>3. keys' = Dropped(b, step) \/ (rejected /\ keys' = k(g))
    BY <1>0, <1>1, <1>4, <2>1
  <2> QED
    BY <1>2, <2>2, <2>3 DEF Partly
<1>5. ASSUME NEW h \in {"meta", "secret"}, NEW g \in {"meta", "secret"}, h # g, left = {h, "rejected"}
      PROVE  StorageFaults /\ left' = {} /\ keys' \in Partly(b, step) /\ Advance(TRUE)
  <2>1. keys \in {b, k(g)} /\ half = h /\ StorageFaults
    BY <1>2, <1>5 DEF Dropping
  <2>2. left' = {} /\ Advance(TRUE)
    <3>1. (left \ {half}) \cup (IF rejected THEN {"rejected"} ELSE {}) = {"rejected"}
      BY <1>5, <2>1
    <3>2. {"rejected"} # {} /\ {"rejected"} \subseteq {"rejected"}
      OBVIOUS
    <3>3. ({"rejected"} # {}) = TRUE
      BY <3>2
    <3> QED
      BY <1>1, <3>1, <3>2, <3>3
  <2>3. keys' \in {b, k("meta"), k("secret"), Dropped(b, step)}
    BY <1>0, <1>1, <1>5, <2>1
  <2> QED
    BY <2>1, <2>2, <2>3 DEF Partly
<1>6. left # {}
  BY <1>2
<1> QED
  BY <1>3, <1>4, <1>5, <1>6 DEF Dropping
-----------------------------------------------------------------------------
\* What the methods write is well-formed.
LEMMA Writes ==
  ASSUME NEW s, WellFormed(s), NEW a \in PairOrNone
  PROVE  /\ \A w \in StageWrites(s, a) : WellFormed(w)
         /\ \A w \in PartlyNoPending(s) \cup PartlyNoDurable(s) : WellFormed(w)
         /\ HasPending(s) => WellFormed(Committed(s)) /\ \A w \in InstallWrites(s) : WellFormed(w)
<1>1. \A w \in StageWrites(s, a) : WellFormed(w)
  BY DEF StageWrites, WellFormed, Store, PairOrNone
<1>2. ASSUME NEW t, WellFormed(t), NEW w \in PartlyNoPending(t) \cup PartlyNoDurable(t) PROVE WellFormed(w)
  BY <1>2, Removals DEF Partly, DropSteps, Dropped
<1>3. ASSUME HasPending(s) PROVE WellFormed(Committed(s)) /\ WellFormed([s EXCEPT !.secret = s.pendingSecret])
  BY <1>3, PairAssumption DEF HasPending, Committed, WellFormed, Store, PairOrNone
<1> QED
  BY <1>1, <1>2, <1>3 DEF InstallWrites

LEMMA SettleStage ==
  ASSUME AtomicInv, op = "stage", NEW half \in {"meta", "secret"}, SettleRemoval(half)
  PROVE  AtStage'
<1> USE DEF AtomicInv, RepositoryTypeOK
<1>1. left # {} /\ UNCHANGED <<op, pair, start>>
  BY DEF SettleRemoval
<1>2. failed /\ cleaning /\ todo = <<"dropPending">> /\ StorageFaults /\ ~HasDurableMaterial(start)
      /\ \E b \in StageWrites(start, pair) : Dropping(b, "dropPending")
  BY <1>1, Plans DEF Position, AtStage, Ended, Writing, Undoing
<1>3. PICK b \in StageWrites(start, pair) : Dropping(b, "dropPending")
  BY <1>2
<1>4. WellFormed(b)
  BY Writes
<1>5. CASE Dropping(b, "dropPending")' /\ UNCHANGED <<todo, cleaning, failed>>
  <2>1. Undoing(StageWrites(start, pair), <<"dropPending">>)'
    BY <1>1, <1>2, <1>5, Plans DEF Undoing
  <2> QED
    BY <1>1, <1>2, <2>1 DEF AtStage
<1>6. CASE left' = {} /\ keys' \in Partly(b, "dropPending") /\ (Advance(TRUE) \/ Advance(FALSE))
  <2>1. todo' = <<>> /\ failed'
    BY <1>2, <1>6, Plans DEF Advance
  <2>2. Result(keys', FALSE) \in Stage(start, pair)
    <3>1. keys' \in PartlyNoPending(b)
      BY <1>4, <1>6, Removals
    <3>2. keys' \in UNION {PartlyNoPending(w) : w \in StageWrites(start, pair)}
      BY <3>1
    <3> QED
      BY <1>2, <3>2 DEF Stage, IfFaulty
  <2>3. (~failed') = FALSE
    BY <2>1
  <2>4. Outcome'
    BY <1>1, <2>1, <2>2, <2>3 DEF Outcome, Contract
  <2> QED
    BY <1>6, <2>1, <2>4 DEF AtStage, Ended
<1>7. keys' = Dropped(b, "dropPending") => keys' \in Partly(b, "dropPending")
  BY DEF Partly
<1>8. "dropPending" \in DropSteps /\ Head(todo) = "dropPending"
  BY <1>2, Plans DEF DropSteps
<1> QED
  BY <1>3, <1>4, <1>5, <1>6, <1>7, <1>8, Settles
\* A method that undoes its writes, as one of its removals settles: it goes on
\* with the same removal or with the next.
LEMMA SettleUndoing ==
  ASSUME NEW half \in {"meta", "secret"}, SettleRemoval(half), NEW step \in DropSteps, NEW t,
         NEW B, \A b \in B : WellFormed(b),
         Undoing(B, t), Head(t) = step
  PROVE  \/ Undoing(B, t)'
         \/ /\ StorageFaults /\ failed' /\ cleaning' /\ left' = {} /\ todo' = Tail(todo)
            /\ \E b \in B : keys' \in Partly(b, step)
<1>1. PICK b \in B : Dropping(b, step)
  BY DEF Undoing
<1>2. StorageFaults /\ failed /\ cleaning /\ Head(todo) = step /\ todo = t
  BY DEF Undoing
<1>3. CASE Dropping(b, step)' /\ UNCHANGED <<todo, cleaning, failed>>
  BY <1>2, <1>3 DEF Undoing
<1>4. CASE left' = {} /\ keys' \in Partly(b, step) /\ (Advance(TRUE) \/ Advance(FALSE))
  BY <1>2, <1>4 DEF Advance
<1>5. keys' = Dropped(b, step) => keys' \in Partly(b, step)
  BY DEF Partly
<1> QED
  BY <1>1, <1>2, <1>3, <1>4, <1>5, Settles

LEMMA SettleInstall ==
  ASSUME AtomicInv, op = "installCommitted", NEW half \in {"meta", "secret"}, SettleRemoval(half)
  PROVE  AtInstall'
<1> USE DEF AtomicInv, RepositoryTypeOK
<1> DEFINE W == InstallWrites(start)
           D == UNION {PartlyNoDurable(w) : w \in W}
<1>1. left # {} /\ UNCHANGED <<op, pair, start>> /\ ~Ended /\ \A s, t : ~Writing(s, t)
  BY DEF SettleRemoval, Ended, Writing
<1>2. "dropPending" \in DropSteps /\ "dropDurable" \in DropSteps /\ WellFormed(start)
  BY DEF DropSteps
<1>3. HasPending(start) => (\A b \in W : WellFormed(b)) /\ WellFormed(Committed(start))
  BY Writes
<1>4. HasPending(start) => \A b \in D : WellFormed(b)
  BY <1>3, Writes
<1>5. ASSUME failed', todo' = <<>>, left' = {}, Result(keys', FALSE) \in InstallCommitted(start)
      PROVE  AtInstall'
  <2>1. (~failed') = FALSE
    BY <1>5
  <2>2. Outcome'
    BY <1>1, <1>5, <2>1 DEF Outcome, Contract
  <2> QED
    BY <1>5, <2>2 DEF AtInstall, Ended
<1>6. ASSUME HasPending(start), ~failed, ~cleaning, todo = <<"dropPending">>,
             Dropping(Committed(start), "dropPending")
      PROVE  AtInstall'
  <2>1. Head(todo) = "dropPending" /\ Tail(todo) = <<>>
    BY <1>6, Plans
  <2>2. CASE Dropping(Committed(start), "dropPending")' /\ UNCHANGED <<todo, cleaning, failed>>
    BY <1>1, <1>6, <2>2 DEF AtInstall
  <2>3. CASE left' = {} /\ keys' = Dropped(Committed(start), "dropPending") /\ Advance(FALSE)
    <3>1. todo' = <<>> /\ ~failed' /\ keys' = NoPending(Committed(start))
      BY <1>3, <1>6, <2>1, <2>3, Removals DEF Advance
    <3>2. Result(keys', TRUE) \in InstallCommitted(start) /\ keys' \in InstallWrites(start)
      BY <1>6, <3>1 DEF InstallCommitted, InstallWrites, PartlyNoPending
    <3>3. (~failed') = TRUE
      BY <3>1
    <3>4. Outcome'
      BY <1>1, <3>2, <3>3 DEF Outcome, Contract, MidwayStores
    <3> QED
      BY <2>3, <3>1, <3>4 DEF AtInstall, Ended
  <2>4. CASE StorageFaults /\ left' = {} /\ keys' \in Partly(Committed(start), "dropPending") /\ Advance(TRUE)
    <3>1. keys' \in InstallWrites(start)
      BY <1>3, <1>6, <2>4, Removals DEF InstallWrites
    <3>2. todo' = <<"dropDurable", "dropPending">> /\ failed' /\ cleaning'
      BY <1>6, <2>4 DEF Advance, CleanUp
    <3>3. Dropping(keys, "dropDurable")'
      BY <2>4 DEF Dropping
    <3>4. Undoing(W, <<"dropDurable", "dropPending">>)'
      BY <1>1, <2>4, <3>1, <3>2, <3>3, Plans DEF Undoing
    <3> QED
      BY <1>1, <1>6, <3>4 DEF AtInstall
  <2>5. \/ Dropping(Committed(start), "dropPending")' /\ UNCHANGED <<todo, cleaning, failed>>
        \/ left' = {} /\ keys' = Dropped(Committed(start), "dropPending") /\ Advance(FALSE)
        \/ StorageFaults /\ left' = {} /\ keys' \in Partly(Committed(start), "dropPending") /\ Advance(TRUE)
    <3>1. PICK b : b = Committed(start)
      OBVIOUS
    <3>2. WellFormed(b) /\ Head(todo) = "dropPending" /\ "dropPending" \in DropSteps
      BY <1>2, <1>3, <1>6, <2>1, <3>1
    <3>3. b = Committed(start)' /\ Dropping(b, "dropPending")
      BY <1>1, <1>6, <3>1 DEF Committed
    <3>4. \/ Dropping(b, "dropPending")' /\ UNCHANGED <<todo, cleaning, failed>>
          \/ left' = {} /\ keys' = Dropped(b, "dropPending") /\ Advance(FALSE)
          \/ StorageFaults /\ left' = {} /\ keys' \in Partly(b, "dropPending") /\ Advance(TRUE)
      BY <3>2, <3>3, Settles
    <3>5. Dropping(b, "dropPending")' => Dropping(Committed(start), "dropPending")'
      BY <3>3
    <3> QED
      BY <3>1, <3>4, <3>5
  <2> QED
    BY <2>2, <2>3, <2>4, <2>5
<1>7. ASSUME HasPending(start), Undoing(W, <<"dropDurable", "dropPending">>) PROVE AtInstall'
  <2>1. Head(<<"dropDurable", "dropPending">>) = "dropDurable" /\ todo = <<"dropDurable", "dropPending">>
        /\ Tail(todo) = <<"dropPending">>
    BY <1>7, Plans DEF Undoing
  <2>2. CASE Undoing(W, <<"dropDurable", "dropPending">>)'
    BY <1>1, <1>7, <2>2 DEF AtInstall
  <2>3. CASE /\ StorageFaults /\ failed' /\ cleaning' /\ left' = {} /\ todo' = Tail(todo)
             /\ \E b \in W : keys' \in Partly(b, "dropDurable")
    <3>1. keys' \in D
      BY <1>3, <1>7, <2>3, Removals
    <3>2. Dropping(keys, "dropPending")'
      BY <2>3 DEF Dropping
    <3>3. Undoing(D, <<"dropPending">>)'
      BY <1>1, <2>1, <2>3, <3>1, <3>2, Plans DEF Undoing
    <3> QED
      BY <1>1, <1>7, <3>3 DEF AtInstall
  <2>4. \/ Undoing(W, <<"dropDurable", "dropPending">>)'
        \/ /\ StorageFaults /\ failed' /\ cleaning' /\ left' = {} /\ todo' = Tail(todo)
           /\ \E b \in W : keys' \in Partly(b, "dropDurable")
    <3>1. PICK B : B = W
      OBVIOUS
    <3>2. B = W'
      BY <1>1, <3>1
    <3> HIDE DEF W
    <3>3. (\A b \in B : WellFormed(b)) /\ Undoing(B, <<"dropDurable", "dropPending">>)
      BY <1>3, <1>7, <3>1
    <3>4. \/ Undoing(B, <<"dropDurable", "dropPending">>)'
          \/ /\ StorageFaults /\ failed' /\ cleaning' /\ left' = {} /\ todo' = Tail(todo)
             /\ \E b \in B : keys' \in Partly(b, "dropDurable")
      BY <1>2, <2>1, <3>3, SettleUndoing
    <3>5. Undoing(B, <<"dropDurable", "dropPending">>)' => Undoing(W, <<"dropDurable", "dropPending">>)'
      BY <3>2
    <3> QED
      BY <3>1, <3>4, <3>5
  <2> QED
    BY <2>2, <2>3, <2>4
<1>8. ASSUME HasPending(start), Undoing(D, <<"dropPending">>) PROVE AtInstall'
  <2>1. Head(<<"dropPending">>) = "dropPending" /\ todo = <<"dropPending">> /\ Tail(todo) = <<>>
    BY <1>8, Plans DEF Undoing
  <2>2. CASE Undoing(D, <<"dropPending">>)'
    BY <1>1, <1>8, <2>2 DEF AtInstall
  <2>3. CASE /\ StorageFaults /\ failed' /\ cleaning' /\ left' = {} /\ todo' = Tail(todo)
             /\ \E b \in D : keys' \in Partly(b, "dropPending")
    <3>1. PICK b \in D : keys' \in PartlyNoPending(b)
      BY <1>4, <1>8, <2>3, Removals
    <3>2. Result(keys', FALSE) \in InstallCommitted(start)
      BY <1>8, <2>3, <3>1 DEF InstallCommitted, IfFaulty
    <3> QED
      BY <1>5, <2>1, <2>3, <3>2
  <2>4. \/ Undoing(D, <<"dropPending">>)'
        \/ /\ StorageFaults /\ failed' /\ cleaning' /\ left' = {} /\ todo' = Tail(todo)
           /\ \E b \in D : keys' \in Partly(b, "dropPending")
    <3>1. PICK B : B = D
      OBVIOUS
    <3>2. B = D'
      BY <1>1, <3>1
    <3> HIDE DEF D
    <3>3. (\A b \in B : WellFormed(b)) /\ Undoing(B, <<"dropPending">>)
      BY <1>4, <1>8, <3>1
    <3>4. \/ Undoing(B, <<"dropPending">>)'
          \/ /\ StorageFaults /\ failed' /\ cleaning' /\ left' = {} /\ todo' = Tail(todo)
             /\ \E b \in B : keys' \in Partly(b, "dropPending")
      BY <1>2, <2>1, <3>3, SettleUndoing
    <3>5. Undoing(B, <<"dropPending">>)' => Undoing(D, <<"dropPending">>)'
      BY <3>2
    <3> QED
      BY <3>1, <3>4, <3>5
  <2> QED
    BY <2>2, <2>3, <2>4
<1>9. ASSUME ~HasPending(start), failed, cleaning, todo = <<"dropPending">>, Dropping(start, "dropPending")
      PROVE  AtInstall'
  <2>1. Head(todo) = "dropPending" /\ Tail(todo) = <<>>
    BY <1>9, Plans
  <2>2. CASE Dropping(start, "dropPending")' /\ UNCHANGED <<todo, cleaning, failed>>
    BY <1>1, <1>9, <2>2 DEF AtInstall
  <2>3. CASE /\ left' = {} /\ (Advance(FALSE) \/ Advance(TRUE))
             /\ keys' = Dropped(start, "dropPending") \/ (StorageFaults /\ keys' \in Partly(start, "dropPending"))
    <3>1. todo' = <<>> /\ failed'
      BY <1>9, <2>1, <2>3 DEF Advance
    <3>2. keys' = NoPending(start) \/ (StorageFaults /\ keys' \in PartlyNoPending(start))
      BY <1>2, <2>3, Removals
    <3>3. Result(keys', TRUE) \in DiscardPending(start) \/ Result(keys', FALSE) \in DiscardPending(start)
      BY <3>2 DEF DiscardPending, IfFaulty
    <3>4. Result(keys', FALSE) \in InstallCommitted(start)
      <4>1. Result(keys', TRUE).store = keys' /\ Result(keys', FALSE).store = keys'
        BY DEF Result
      <4>2. \E r \in DiscardPending(start) : r.store = keys'
        BY <3>3, <4>1
      <4> QED
        BY <1>9, <4>2 DEF InstallCommitted
    <3> QED
      BY <1>5, <2>3, <3>1, <3>4
  <2>4. \/ Dropping(start, "dropPending")' /\ UNCHANGED <<todo, cleaning, failed>>
        \/ left' = {} /\ keys' = Dropped(start, "dropPending") /\ Advance(FALSE)
        \/ StorageFaults /\ left' = {} /\ keys' \in Partly(start, "dropPending") /\ Advance(TRUE)
    <3>1. PICK b : b = start
      OBVIOUS
    <3>2. b = start' /\ Dropping(b, "dropPending") /\ WellFormed(b)
      BY <1>1, <1>2, <1>9, <3>1
    <3>3. \/ Dropping(b, "dropPending")' /\ UNCHANGED <<todo, cleaning, failed>>
          \/ left' = {} /\ keys' = Dropped(b, "dropPending") /\ Advance(FALSE)
          \/ StorageFaults /\ left' = {} /\ keys' \in Partly(b, "dropPending") /\ Advance(TRUE)
      BY <1>2, <2>1, <3>2, Settles
    <3>4. Dropping(b, "dropPending")' => Dropping(start, "dropPending")'
      BY <3>2
    <3> QED
      BY <3>1, <3>3, <3>4
  <2> QED
    BY <2>2, <2>3, <2>4
<1> QED
  BY <1>1, <1>6, <1>7, <1>8, <1>9 DEF Position, AtInstall
\* The ends of discardIncomplete, by the half that decides them.
LEMMA DiscardEnds ==
  ASSUME NEW s
  PROVE  /\ SettleDurable(NoPending(s)) \subseteq DiscardIncomplete(s)
         /\ StorageFaults => Result(NoPending(s), FALSE) \in DiscardIncomplete(s)
         /\ StorageFaults => \A t \in PartlyNoPending(s) : Result(t, FALSE) \in DiscardIncomplete(s)
<1> DEFINE F(r) == IF r.ok THEN SettleDurable(r.store) \cup IfFaulty({Result(r.store, FALSE)}) ELSE {r}
<1>1. \A r \in DiscardPending(s) : F(r) \subseteq DiscardIncomplete(s)
  BY DEF DiscardIncomplete
<1>2. F(Result(NoPending(s), TRUE)) = SettleDurable(NoPending(s)) \cup IfFaulty({Result(NoPending(s), FALSE)})
  BY DEF Result
<1>3. \A t : F(Result(t, FALSE)) = {Result(t, FALSE)}
  BY DEF Result
<1> HIDE DEF F
<1>4. Result(NoPending(s), TRUE) \in DiscardPending(s)
  BY DEF DiscardPending
<1>5. StorageFaults => \A t \in PartlyNoPending(s) : Result(t, FALSE) \in DiscardPending(s)
  BY DEF DiscardPending, IfFaulty
<1>6. StorageFaults => Result(NoPending(s), FALSE) \in IfFaulty({Result(NoPending(s), FALSE)})
  BY DEF IfFaulty
<1>7. SettleDurable(NoPending(s)) \cup IfFaulty({Result(NoPending(s), FALSE)}) \subseteq DiscardIncomplete(s)
  BY <1>1, <1>2, <1>4
<1>8. ASSUME StorageFaults, NEW t \in PartlyNoPending(s) PROVE Result(t, FALSE) \in DiscardIncomplete(s)
  BY <1>1, <1>3, <1>5, <1>8
<1> QED
  BY <1>6, <1>7, <1>8

LEMMA SettleDiscard ==
  ASSUME AtomicInv, op = "discardIncomplete", NEW half \in {"meta", "secret"}, SettleRemoval(half)
  PROVE  AtDiscard'
<1> USE DEF AtomicInv, RepositoryTypeOK
<1>1. left # {} /\ UNCHANGED <<op, pair, start>> /\ ~Ended /\ \A s, t : ~Writing(s, t)
  BY DEF SettleRemoval, Ended, Writing
<1>2. "dropPending" \in DropSteps /\ "dropDurable" \in DropSteps /\ WellFormed(start)
  BY DEF DropSteps
<1>3. ~failed /\ ~cleaning
  BY <1>1 DEF Position, AtDiscard
<1>4. CASE todo = <<"dropPending", "examine">> /\ Dropping(start, "dropPending")
  <2>1. PICK b : b = start
    OBVIOUS
  <2>2. b = start' /\ Dropping(b, "dropPending") /\ WellFormed(b)
    BY <1>1, <1>2, <1>4, <2>1
  <2>3. Head(todo) = "dropPending" /\ Tail(todo) = <<"examine">>
    BY <1>4, Plans
  <2>4. CASE Dropping(b, "dropPending")' /\ UNCHANGED <<todo, cleaning, failed>>
    <3>1. Dropping(start, "dropPending")'
      BY <2>2, <2>4
    <3> QED
      BY <1>1, <1>3, <1>4, <2>4, <3>1 DEF AtDiscard
  <2>5. CASE left' = {} /\ keys' = Dropped(b, "dropPending") /\ Advance(FALSE)
    <3>1. Writing(NoPending(start), <<"examine">>)'
      BY <1>3, <2>2, <2>3, <2>5, Removals DEF Writing, Advance
    <3> QED
      BY <1>1, <1>3, <2>5, <3>1 DEF AtDiscard, Writing
  <2>6. CASE StorageFaults /\ left' = {} /\ keys' \in Partly(b, "dropPending") /\ Advance(TRUE)
    <3>1. failed' /\ todo' = <<>>
      BY <1>3, <2>6 DEF Advance, CleanUp
    <3>2. keys' \in PartlyNoPending(b)
      BY <2>2, <2>6, Removals
    <3>3. Result(keys', FALSE) \in DiscardIncomplete(b)
      BY <2>6, <3>2, DiscardEnds
    <3>4. (~failed') = FALSE
      BY <3>1
    <3>5. Outcome'
      BY <1>1, <2>2, <3>1, <3>3, <3>4 DEF Outcome, Contract
    <3> QED
      BY <2>6, <3>1, <3>5 DEF AtDiscard, Ended
  <2> QED
    BY <1>2, <2>2, <2>3, <2>4, <2>5, <2>6, Settles
<1>5. CASE /\ start.status = "committed" \/ (start.meta = NoPair /\ start.secret # NoPair)
           /\ todo = <<"dropDurable">> /\ Dropping(NoPending(start), "dropDurable")
  <2>1. PICK b : b = NoPending(start)
    OBVIOUS
  <2>2. b = NoPending(start)' /\ Dropping(b, "dropDurable") /\ WellFormed(b)
    BY <1>1, <1>2, <1>5, <2>1, Removals DEF NoPending, NoPendingMeta, NoPendingSecret
  <2>3. Head(todo) = "dropDurable" /\ Tail(todo) = <<>>
    BY <1>5, Plans
  <2>4. CASE Dropping(b, "dropDurable")' /\ UNCHANGED <<todo, cleaning, failed>>
    <3>1. Dropping(NoPending(start), "dropDurable")'
      BY <2>2, <2>4
    <3> QED
      BY <1>1, <1>3, <1>5, <2>4, <3>1 DEF AtDiscard
  <2>6. SettleDurable(b) \subseteq DiscardIncomplete(start)
    BY <2>1, DiscardEnds
  <2>7. SettleDurable(b) = DeleteDurable(b)
    BY <1>2, <1>5, <2>1 DEF SettleDurable, NoPending, NoPendingMeta, NoPendingSecret, WellFormed, Store
  <2>8. CASE left' = {} /\ keys' = Dropped(b, "dropDurable") /\ Advance(FALSE)
    <3>1. todo' = <<>> /\ ~failed' /\ keys' = NoDurable(b)
      BY <1>3, <2>2, <2>3, <2>8, Removals DEF Advance
    <3>2. Result(keys', TRUE) \in DiscardIncomplete(start)
      BY <2>6, <2>7, <3>1 DEF DeleteDurable
    <3>3. keys' \in MidwayStores("discardIncomplete", start, pair)
      <4>1. start.status # "confirmed"
        BY <1>2, <1>5 DEF WellFormed
      <4>2. keys' \in Remnants(start)
        BY <2>1, <3>1 DEF Remnants, PartlyNoPending, PartlyNoDurable
      <4> QED
        BY <4>1, <4>2 DEF MidwayStores
    <3>4. (~failed') = TRUE
      BY <3>1
    <3>5. Outcome'
      BY <1>1, <3>2, <3>3, <3>4 DEF Outcome, Contract
    <3> QED
      BY <2>8, <3>1, <3>5 DEF AtDiscard, Ended
  <2>9. CASE StorageFaults /\ left' = {} /\ keys' \in Partly(b, "dropDurable") /\ Advance(TRUE)
    <3>1. failed' /\ todo' = <<>>
      BY <1>3, <2>9 DEF Advance, CleanUp
    <3>2. Result(keys', FALSE) \in DiscardIncomplete(start)
      <4>1. keys' \in PartlyNoDurable(b)
        BY <2>2, <2>9, Removals
      <4> QED
        BY <2>6, <2>7, <2>9, <4>1 DEF DeleteDurable, IfFaulty
    <3>3. (~failed') = FALSE
      BY <3>1
    <3>4. Outcome'
      BY <1>1, <3>1, <3>2, <3>3 DEF Outcome, Contract
    <3> QED
      BY <2>9, <3>1, <3>4 DEF AtDiscard, Ended
  <2> QED
    BY <1>2, <2>2, <2>3, <2>4, <2>8, <2>9, Settles
<1> QED
  BY <1>1, <1>4, <1>5 DEF Position, AtDiscard
\* Removals of one pair of keys do not mind those of the other.
LEMMA PartlyCommute ==
  ASSUME NEW s, WellFormed(s), NEW u \in PartlyNoDurable(s), NEW t \in PartlyNoPending(u)
  PROVE  t \in Remnants(s)
<1>1. ASSUME NEW v \in {s, NoMeta(s), NoSecret(s), NoDurable(s)}
      PROVE  PartlyNoPending(v) \subseteq Remnants(s)
  <2>1. /\ v = s => v \in PartlyNoDurable(s)
        /\ \A w \in PartlyNoPending(s) : PartlyNoDurable(w) \subseteq Remnants(s)
    BY DEF Remnants, PartlyNoDurable
  <2>2. CASE v = s
    <3>1. \A w \in PartlyNoPending(s) : w \in PartlyNoDurable(w)
      BY DEF PartlyNoDurable
    <3> QED
      BY <2>1, <2>2, <3>1
  <2>3. CASE v = NoMeta(s)
    <3>1. /\ NoPendingMeta(v) = NoMeta(NoPendingMeta(s)) /\ NoPendingSecret(v) = NoMeta(NoPendingSecret(s))
          /\ NoPending(v) = NoMeta(NoPending(s))
      BY <2>3 DEF WellFormed, Store, NoPending, NoPendingMeta, NoPendingSecret, NoMeta
    <3> QED
      BY <2>1, <2>3, <3>1 DEF PartlyNoPending, PartlyNoDurable
  <2>4. CASE v = NoSecret(s)
    <3>1. /\ NoPendingMeta(v) = NoSecret(NoPendingMeta(s)) /\ NoPendingSecret(v) = NoSecret(NoPendingSecret(s))
          /\ NoPending(v) = NoSecret(NoPending(s))
      BY <2>4 DEF WellFormed, Store, NoPending, NoPendingMeta, NoPendingSecret, NoSecret
    <3> QED
      BY <2>1, <2>4, <3>1 DEF PartlyNoPending, PartlyNoDurable
  <2>5. CASE v = NoDurable(s)
    <3>1. /\ NoPendingMeta(v) = NoDurable(NoPendingMeta(s))
          /\ NoPendingSecret(v) = NoDurable(NoPendingSecret(s))
          /\ NoPending(v) = NoDurable(NoPending(s))
      BY <2>5 DEF WellFormed, Store, NoPending, NoDurable, NoPendingMeta, NoPendingSecret, NoMeta, NoSecret
    <3> QED
      BY <2>1, <2>5, <3>1 DEF PartlyNoPending, PartlyNoDurable
  <2> QED
    BY <2>2, <2>3, <2>4, <2>5
<1> QED
  BY <1>1 DEF PartlyNoDurable

\* The ends of abortPairAttempt and revoke, whichever half goes first.
LEMMA AbortEnds ==
  ASSUME NEW s, WellFormed(s)
  PROVE  /\ NoPending(NoDurable(s)) = NoDurable(NoPending(s))
         /\ NoDurable(NoPending(s)) \in Remnants(s)
         /\ Result(NoDurable(NoPending(s)), TRUE) \in AbortPairAttempt(s)
         /\ Result(NoDurable(NoPending(s)), TRUE) \in RevokePair(s)
         /\ StorageFaults => \A u \in PartlyNoPending(s) : \A t \in PartlyNoDurable(u) :
              Result(t, FALSE) \in AbortPairAttempt(s)
         /\ StorageFaults => \A u \in PartlyNoDurable(s) : \A t \in PartlyNoPending(u) :
              Result(t, FALSE) \in RevokePair(s)
<1>1. NoPending(NoDurable(s)) = NoDurable(NoPending(s))
  BY DEF WellFormed, Store, NoPending, NoDurable, NoPendingMeta, NoPendingSecret, NoMeta, NoSecret
<1>2. NoDurable(NoPending(s)) \in Remnants(s)
  BY DEF Remnants, PartlyNoPending, PartlyNoDurable
<1>3. \A u \in PartlyNoDurable(s) : \A t \in PartlyNoPending(u) : t \in Remnants(s)
  BY PartlyCommute
<1>4. RevokePair(s) = AbortPairAttempt(s)
  BY DEF RevokePair
<1>5. StorageFaults => \A t \in Remnants(s) : Result(t, FALSE) \in AbortPairAttempt(s)
  BY DEF AbortPairAttempt, IfFaulty
<1>6. \A u \in PartlyNoPending(s) : \A t \in PartlyNoDurable(u) : t \in Remnants(s)
  BY DEF Remnants
<1> QED
  BY <1>1, <1>2, <1>3, <1>4, <1>5, <1>6 DEF AbortPairAttempt

LEMMA SettleAbort ==
  ASSUME AtomicInv, op = "abortPairAttempt", NEW half \in {"meta", "secret"}, SettleRemoval(half)
  PROVE  AtAbort'
<1> USE DEF AtomicInv, RepositoryTypeOK
<1>1. left # {} /\ UNCHANGED <<op, pair, start>> /\ ~Ended /\ \A s, t : ~Writing(s, t)
  BY DEF SettleRemoval, Ended, Writing
<1>2. "dropPending" \in DropSteps /\ "dropDurable" \in DropSteps /\ WellFormed(start)
  BY DEF DropSteps
<1>3. CASE ~failed /\ cleaning /\ todo = <<"dropPending", "dropDurable">> /\ Dropping(start, "dropPending")
  <2>1. PICK b : b = start
    OBVIOUS
  <2>2. b = start' /\ Dropping(b, "dropPending") /\ WellFormed(b)
    BY <1>1, <1>2, <1>3, <2>1
  <2>3. Head(todo) = "dropPending" /\ Tail(todo) = <<"dropDurable">>
    BY <1>3, Plans
  <2>4. CASE Dropping(b, "dropPending")' /\ UNCHANGED <<todo, cleaning, failed>>
    <3>1. Dropping(start, "dropPending")'
      BY <2>2, <2>4
    <3> QED
      BY <1>1, <1>3, <2>4, <3>1 DEF AtAbort
  <2>5. CASE left' = {} /\ keys' = Dropped(b, "dropPending") /\ Advance(FALSE)
    <3>1. keys' = NoPending(start') /\ ~failed' /\ cleaning' /\ todo' = <<"dropDurable">>
      BY <1>3, <2>2, <2>3, <2>5, Removals DEF Advance
    <3>2. Dropping(NoPending(start), "dropDurable")'
      BY <2>5, <3>1 DEF Dropping
    <3> QED
      BY <1>1, <3>1, <3>2 DEF AtAbort
  <2>6. CASE StorageFaults /\ left' = {} /\ keys' \in Partly(b, "dropPending") /\ Advance(TRUE)
    <3>1. failed' /\ cleaning' /\ todo' = <<"dropDurable">>
      BY <1>3, <2>3, <2>6 DEF Advance
    <3>2. keys' \in PartlyNoPending(start')
      BY <2>2, <2>6, Removals
    <3>3. Dropping(keys, "dropDurable")'
      BY <2>6 DEF Dropping
    <3>4. Undoing(PartlyNoPending(start), <<"dropDurable">>)'
      BY <2>6, <3>1, <3>2, <3>3, Plans DEF Undoing
    <3> QED
      BY <1>1, <3>4 DEF AtAbort
  <2> QED
    BY <1>2, <2>2, <2>3, <2>4, <2>5, <2>6, Settles
<1>4. CASE ~failed /\ cleaning /\ todo = <<"dropDurable">> /\ Dropping(NoPending(start), "dropDurable")
  <2>1. PICK b : b = NoPending(start)
    OBVIOUS
  <2>2. b = NoPending(start') /\ Dropping(b, "dropDurable") /\ WellFormed(b)
    BY <1>1, <1>2, <1>4, <2>1, Removals
  <2>3. Head(todo) = "dropDurable" /\ Tail(todo) = <<>>
    BY <1>4, Plans
  <2>4. CASE Dropping(b, "dropDurable")' /\ UNCHANGED <<todo, cleaning, failed>>
    <3>1. Dropping(NoPending(start), "dropDurable")'
      BY <2>2, <2>4
    <3> QED
      BY <1>1, <1>4, <2>4, <3>1 DEF AtAbort
  <2>5. b \in PartlyNoPending(start)
    BY <2>1 DEF PartlyNoPending
  <2>6. CASE left' = {} /\ keys' = Dropped(b, "dropDurable") /\ Advance(FALSE)
    <3>1. todo' = <<>> /\ ~failed' /\ keys' = NoDurable(NoPending(start))
      BY <1>2, <1>4, <2>1, <2>2, <2>3, <2>6, Removals, AbortEnds DEF Advance
    <3>2. Result(keys', TRUE) \in AbortPairAttempt(start) /\ keys' \in Remnants(start)
      BY <1>2, <3>1, AbortEnds
    <3>3. (~failed') = TRUE
      BY <3>1
    <3>4. Outcome'
      BY <1>1, <3>2, <3>3 DEF Outcome, Contract, MidwayStores
    <3> QED
      BY <2>6, <3>1, <3>4 DEF AtAbort, Ended
  <2>7. CASE StorageFaults /\ left' = {} /\ keys' \in Partly(b, "dropDurable") /\ Advance(TRUE)
    <3>1. failed' /\ todo' = <<>>
      BY <1>4, <2>3, <2>7 DEF Advance
    <3>2. keys' \in PartlyNoDurable(b)
      BY <2>2, <2>7, Removals
    <3>3. Result(keys', FALSE) \in AbortPairAttempt(start)
      BY <1>2, <2>5, <2>7, <3>2, AbortEnds
    <3>4. (~failed') = FALSE
      BY <3>1
    <3>5. Outcome'
      BY <1>1, <3>3, <3>4 DEF Outcome, Contract
    <3> QED
      BY <2>7, <3>1, <3>5 DEF AtAbort, Ended
  <2> QED
    BY <1>2, <2>2, <2>3, <2>4, <2>6, <2>7, Settles
<1>5. CASE Undoing(PartlyNoPending(start), <<"dropDurable">>)
  <2>1. PICK B : B = PartlyNoPending(start)
    OBVIOUS
  <2>2. B = PartlyNoPending(start') /\ (\A b \in B : WellFormed(b)) /\ Undoing(B, <<"dropDurable">>)
    BY <1>1, <1>2, <1>5, <2>1, Writes, PairAssumption DEF PairOrNone
  <2>3. Head(<<"dropDurable">>) = "dropDurable" /\ todo = <<"dropDurable">> /\ Tail(todo) = <<>>
    BY <1>5, Plans DEF Undoing
  <2>4. CASE Undoing(B, <<"dropDurable">>)'
    <3>1. Undoing(PartlyNoPending(start), <<"dropDurable">>)'
      BY <2>2, <2>4
    <3> QED
      BY <1>1, <3>1 DEF AtAbort
  <2>5. CASE /\ StorageFaults /\ failed' /\ cleaning' /\ left' = {} /\ todo' = Tail(todo)
             /\ \E b \in B : keys' \in Partly(b, "dropDurable")
    <3>1. PICK b \in B : keys' \in PartlyNoDurable(b)
      BY <2>2, <2>5, Removals
    <3>2. Result(keys', FALSE) \in AbortPairAttempt(start)
      BY <1>2, <2>1, <2>5, <3>1, AbortEnds
    <3>3. (~failed') = FALSE
      BY <2>5
    <3>4. Outcome'
      BY <1>1, <3>2, <3>3 DEF Outcome, Contract
    <3> QED
      BY <2>3, <2>5, <3>4 DEF AtAbort, Ended
  <2> QED
    BY <1>2, <2>2, <2>3, <2>4, <2>5, SettleUndoing
<1> QED
  BY <1>1, <1>3, <1>4, <1>5 DEF Position, AtAbort

LEMMA SettleRevoke ==
  ASSUME AtomicInv, op = "revoke", NEW half \in {"meta", "secret"}, SettleRemoval(half)
  PROVE  AtRevoke'
<1> USE DEF AtomicInv, RepositoryTypeOK
<1>1. left # {} /\ UNCHANGED <<op, pair, start>> /\ ~Ended /\ \A s, t : ~Writing(s, t)
  BY DEF SettleRemoval, Ended, Writing
<1>2. "dropPending" \in DropSteps /\ "dropDurable" \in DropSteps /\ WellFormed(start)
  BY DEF DropSteps
<1>3. CASE ~failed /\ cleaning /\ todo = <<"dropDurable", "dropPending">> /\ Dropping(start, "dropDurable")
  <2>1. PICK b : b = start
    OBVIOUS
  <2>2. b = start' /\ Dropping(b, "dropDurable") /\ WellFormed(b)
    BY <1>1, <1>2, <1>3, <2>1
  <2>3. Head(todo) = "dropDurable" /\ Tail(todo) = <<"dropPending">>
    BY <1>3, Plans
  <2>4. CASE Dropping(b, "dropDurable")' /\ UNCHANGED <<todo, cleaning, failed>>
    <3>1. Dropping(start, "dropDurable")'
      BY <2>2, <2>4
    <3> QED
      BY <1>1, <1>3, <2>4, <3>1 DEF AtRevoke
  <2>5. CASE left' = {} /\ keys' = Dropped(b, "dropDurable") /\ Advance(FALSE)
    <3>1. keys' = NoDurable(start') /\ ~failed' /\ cleaning' /\ todo' = <<"dropPending">>
      BY <1>3, <2>2, <2>3, <2>5, Removals DEF Advance
    <3>2. Dropping(NoDurable(start), "dropPending")'
      BY <2>5, <3>1 DEF Dropping
    <3> QED
      BY <1>1, <3>1, <3>2 DEF AtRevoke
  <2>6. CASE StorageFaults /\ left' = {} /\ keys' \in Partly(b, "dropDurable") /\ Advance(TRUE)
    <3>1. failed' /\ cleaning' /\ todo' = <<"dropPending">>
      BY <1>3, <2>3, <2>6 DEF Advance
    <3>2. keys' \in PartlyNoDurable(start')
      BY <2>2, <2>6, Removals
    <3>3. Dropping(keys, "dropPending")'
      BY <2>6 DEF Dropping
    <3>4. Undoing(PartlyNoDurable(start), <<"dropPending">>)'
      BY <2>6, <3>1, <3>2, <3>3, Plans DEF Undoing
    <3> QED
      BY <1>1, <3>4 DEF AtRevoke
  <2> QED
    BY <1>2, <2>2, <2>3, <2>4, <2>5, <2>6, Settles
<1>4. CASE ~failed /\ cleaning /\ todo = <<"dropPending">> /\ Dropping(NoDurable(start), "dropPending")
  <2>1. PICK b : b = NoDurable(start)
    OBVIOUS
  <2>2. b = NoDurable(start') /\ Dropping(b, "dropPending") /\ WellFormed(b)
    BY <1>1, <1>2, <1>4, <2>1, Removals
  <2>3. Head(todo) = "dropPending" /\ Tail(todo) = <<>>
    BY <1>4, Plans
  <2>4. CASE Dropping(b, "dropPending")' /\ UNCHANGED <<todo, cleaning, failed>>
    <3>1. Dropping(NoDurable(start), "dropPending")'
      BY <2>2, <2>4
    <3> QED
      BY <1>1, <1>4, <2>4, <3>1 DEF AtRevoke
  <2>5. b \in PartlyNoDurable(start)
    BY <2>1 DEF PartlyNoDurable
  <2>6. CASE left' = {} /\ keys' = Dropped(b, "dropPending") /\ Advance(FALSE)
    <3>1. todo' = <<>> /\ ~failed' /\ keys' = NoDurable(NoPending(start))
      BY <1>2, <1>4, <2>1, <2>2, <2>3, <2>6, Removals, AbortEnds DEF Advance
    <3>2. Result(keys', TRUE) \in RevokePair(start) /\ keys' \in Remnants(start)
      BY <1>2, <3>1, AbortEnds
    <3>3. (~failed') = TRUE
      BY <3>1
    <3>4. Outcome'
      BY <1>1, <3>2, <3>3 DEF Outcome, Contract, MidwayStores
    <3> QED
      BY <2>6, <3>1, <3>4 DEF AtRevoke, Ended
  <2>7. CASE StorageFaults /\ left' = {} /\ keys' \in Partly(b, "dropPending") /\ Advance(TRUE)
    <3>1. failed' /\ todo' = <<>>
      BY <1>4, <2>3, <2>7 DEF Advance
    <3>2. keys' \in PartlyNoPending(b)
      BY <2>2, <2>7, Removals
    <3>3. Result(keys', FALSE) \in RevokePair(start)
      BY <1>2, <2>5, <2>7, <3>2, AbortEnds
    <3>4. (~failed') = FALSE
      BY <3>1
    <3>5. Outcome'
      BY <1>1, <3>3, <3>4 DEF Outcome, Contract
    <3> QED
      BY <2>7, <3>1, <3>5 DEF AtRevoke, Ended
  <2> QED
    BY <1>2, <2>2, <2>3, <2>4, <2>6, <2>7, Settles
<1>5. CASE Undoing(PartlyNoDurable(start), <<"dropPending">>)
  <2>1. PICK B : B = PartlyNoDurable(start)
    OBVIOUS
  <2>2. B = PartlyNoDurable(start') /\ (\A b \in B : WellFormed(b)) /\ Undoing(B, <<"dropPending">>)
    BY <1>1, <1>2, <1>5, <2>1, Writes, PairAssumption DEF PairOrNone
  <2>3. Head(<<"dropPending">>) = "dropPending" /\ todo = <<"dropPending">> /\ Tail(todo) = <<>>
    BY <1>5, Plans DEF Undoing
  <2>4. CASE Undoing(B, <<"dropPending">>)'
    <3>1. Undoing(PartlyNoDurable(start), <<"dropPending">>)'
      BY <2>2, <2>4
    <3> QED
      BY <1>1, <3>1 DEF AtRevoke
  <2>5. CASE /\ StorageFaults /\ failed' /\ cleaning' /\ left' = {} /\ todo' = Tail(todo)
             /\ \E b \in B : keys' \in Partly(b, "dropPending")
    <3>1. PICK b \in B : keys' \in PartlyNoPending(b)
      BY <2>2, <2>5, Removals
    <3>2. Result(keys', FALSE) \in RevokePair(start)
      BY <1>2, <2>1, <2>5, <3>1, AbortEnds
    <3>3. (~failed') = FALSE
      BY <2>5
    <3>4. Outcome'
      BY <1>1, <3>2, <3>3 DEF Outcome, Contract
    <3> QED
      BY <2>3, <2>5, <3>4 DEF AtRevoke, Ended
  <2> QED
    BY <1>2, <2>2, <2>3, <2>4, <2>5, SettleUndoing
<1> QED
  BY <1>1, <1>3, <1>4, <1>5 DEF Position, AtRevoke
-----------------------------------------------------------------------------
\* The removal steps are the only ones that IssueRemovals takes.
LEMMA IssueStep == AtomicInv /\ IssueRemovals => AtomicInv'
<1> SUFFICES ASSUME AtomicInv, IssueRemovals PROVE AtomicInv'
  OBVIOUS
<1>1. /\ todo # <<>> /\ Head(todo) \in DropSteps /\ left = {} /\ left' = {"meta", "secret"}
      /\ UNCHANGED <<keys, last, op, pair, start, todo, cleaning, failed, read>>
  BY DEF IssueRemovals
<1>2. RepositoryTypeOK'
  BY <1>1 DEF AtomicInv, RepositoryTypeOK
<1>3. ~Ended /\ \A b, step : Dropping(b, step) => keys = b
  BY <1>1 DEF Ended, Dropping
<1>4. \A b, step : keys = b => Dropping(b, step)'
  BY <1>1 DEF Dropping
<1>5. \A s, t : Writing(s, t) => Head(t) \in DropSteps /\ todo = t
  BY <1>1 DEF Writing
<1>6. /\ \A x : ~Writing(x, <<"pendingSecret", "pendingMeta">>) /\ ~Writing(x, <<"pendingMeta">>)
      /\ \A x : ~Writing(x, <<"secret", "meta", "dropPending">>) /\ ~Writing(x, <<"meta", "dropPending">>)
      /\ \A x : ~Writing(x, <<"confirmed">>) /\ ~Writing(x, <<"examine">>)
  BY <1>5, Plans DEF DropSteps
<1>7. \A B, t : Undoing(B, t) => Undoing(B, t)'
  BY <1>1, <1>3, <1>4 DEF Undoing
<1>8. ASSUME op = "stage" PROVE AtStage'
  <2>1. ~HasDurableMaterial(start) /\ Undoing(StageWrites(start, pair), <<"dropPending">>)
    BY <1>3, <1>6, <1>8 DEF AtomicInv, Position, AtStage
  <2>2. Undoing(StageWrites(start, pair), <<"dropPending">>)'
    <3>1. PICK B : B = StageWrites(start, pair) /\ B = StageWrites(start', pair')
      BY <1>1
    <3> QED
      BY <1>7, <2>1, <3>1
  <2> QED
    BY <1>1, <2>1, <2>2 DEF AtStage
<1>9. ASSUME op = "installCommitted" PROVE AtInstall'
  <2>1. \/ /\ HasPending(start)
           /\ \/ /\ ~failed /\ ~cleaning /\ todo = <<"dropPending">>
                 /\ Dropping(Committed(start), "dropPending")
              \/ Undoing(InstallWrites(start), <<"dropDurable", "dropPending">>)
              \/ Undoing(UNION {PartlyNoDurable(w) : w \in InstallWrites(start)}, <<"dropPending">>)
        \/ /\ ~HasPending(start)
           /\ failed /\ cleaning /\ todo = <<"dropPending">> /\ Dropping(start, "dropPending")
    BY <1>3, <1>6, <1>9 DEF AtomicInv, Position, AtInstall
  <2>2. ASSUME HasPending(start), Dropping(Committed(start), "dropPending"), ~failed, ~cleaning,
               todo = <<"dropPending">>
        PROVE  AtInstall'
    <3>1. Dropping(Committed(start), "dropPending")'
      BY <1>1, <1>3, <1>4, <2>2
    <3> QED
      BY <1>1, <2>2, <3>1 DEF AtInstall
  <2>3. ASSUME HasPending(start), Undoing(InstallWrites(start), <<"dropDurable", "dropPending">>)
        PROVE  AtInstall'
    <3>1. PICK B : B = InstallWrites(start) /\ B = InstallWrites(start')
      BY <1>1
    <3>2. Undoing(InstallWrites(start), <<"dropDurable", "dropPending">>)'
      BY <1>7, <2>3, <3>1
    <3> QED
      BY <1>1, <2>3, <3>2 DEF AtInstall
  <2>4. ASSUME HasPending(start),
               Undoing(UNION {PartlyNoDurable(w) : w \in InstallWrites(start)}, <<"dropPending">>)
        PROVE  AtInstall'
    <3>1. PICK B : /\ B = UNION {PartlyNoDurable(w) : w \in InstallWrites(start)}
                   /\ B = UNION {PartlyNoDurable(w) : w \in InstallWrites(start')}
      BY <1>1
    <3>2. Undoing(UNION {PartlyNoDurable(w) : w \in InstallWrites(start)}, <<"dropPending">>)'
      BY <1>7, <2>4, <3>1
    <3> QED
      BY <1>1, <2>4, <3>2 DEF AtInstall
  <2>5. ASSUME ~HasPending(start), failed, cleaning, todo = <<"dropPending">>, Dropping(start, "dropPending")
        PROVE  AtInstall'
    <3>1. Dropping(start, "dropPending")'
      BY <1>1, <1>3, <1>4, <2>5
    <3> QED
      BY <1>1, <2>5, <3>1 DEF AtInstall
  <2> QED
    BY <2>1, <2>2, <2>3, <2>4, <2>5
<1>10. ASSUME op = "markConfirmed" PROVE AtConfirm'
  BY <1>3, <1>6, <1>10 DEF AtomicInv, Position, AtConfirm
<1>11. ASSUME op = "discardIncomplete" PROVE AtDiscard'
  <2>1. \/ Dropping(start, "dropPending") /\ Dropping(start, "dropPending")'
           /\ todo = <<"dropPending", "examine">>
        \/ /\ start.status = "committed" \/ (start.meta = NoPair /\ start.secret # NoPair)
           /\ todo = <<"dropDurable">> /\ Dropping(NoPending(start), "dropDurable")'
    BY <1>1, <1>3, <1>4, <1>6, <1>11 DEF AtomicInv, Position, AtDiscard
  <2>2. ~failed /\ ~cleaning
    BY <1>3, <1>11 DEF AtomicInv, Position, AtDiscard
  <2> QED
    BY <1>1, <2>1, <2>2 DEF AtDiscard
<1>12. ASSUME op = "abortPairAttempt" PROVE AtAbort'
  <2>1. CASE /\ ~failed /\ cleaning
             /\ \/ todo = <<"dropPending", "dropDurable">> /\ Dropping(start, "dropPending")
                \/ todo = <<"dropDurable">> /\ Dropping(NoPending(start), "dropDurable")
    <3>1. \/ todo = <<"dropPending", "dropDurable">> /\ Dropping(start, "dropPending")'
          \/ todo = <<"dropDurable">> /\ Dropping(NoPending(start), "dropDurable")'
      BY <1>1, <1>3, <1>4, <2>1
    <3> QED
      BY <1>1, <2>1, <3>1 DEF AtAbort
  <2>2. CASE Undoing(PartlyNoPending(start), <<"dropDurable">>)
    <3>1. PICK B : B = PartlyNoPending(start) /\ B = PartlyNoPending(start')
      BY <1>1
    <3>2. Undoing(PartlyNoPending(start), <<"dropDurable">>)'
      BY <1>7, <2>2, <3>1
    <3> QED
      BY <1>1, <3>2 DEF AtAbort
  <2> QED
    BY <1>3, <1>12, <2>1, <2>2 DEF AtomicInv, Position, AtAbort
<1>13. ASSUME op = "revoke" PROVE AtRevoke'
  <2>1. CASE /\ ~failed /\ cleaning
             /\ \/ todo = <<"dropDurable", "dropPending">> /\ Dropping(start, "dropDurable")
                \/ todo = <<"dropPending">> /\ Dropping(NoDurable(start), "dropPending")
    <3>1. \/ todo = <<"dropDurable", "dropPending">> /\ Dropping(start, "dropDurable")'
          \/ todo = <<"dropPending">> /\ Dropping(NoDurable(start), "dropPending")'
      BY <1>1, <1>3, <1>4, <2>1
    <3> QED
      BY <1>1, <2>1, <3>1 DEF AtRevoke
  <2>2. CASE Undoing(PartlyNoDurable(start), <<"dropPending">>)
    <3>1. PICK B : B = PartlyNoDurable(start) /\ B = PartlyNoDurable(start')
      BY <1>1
    <3>2. Undoing(PartlyNoDurable(start), <<"dropPending">>)'
      BY <1>7, <2>2, <3>1
    <3> QED
      BY <1>1, <3>2 DEF AtRevoke
  <2> QED
    BY <1>3, <1>13, <2>1, <2>2 DEF AtomicInv, Position, AtRevoke
<1>14. op # "idle"
  BY <1>1 DEF AtomicInv, Position
<1>15. Position'
  BY <1>1, <1>8, <1>9, <1>10, <1>11, <1>12, <1>13, <1>14 DEF Position
<1> QED
  BY <1>2, <1>15 DEF AtomicInv
\* A storage write, and what the catch block makes of its failure.
LEMMA WriteStep == AtomicInv /\ Write => AtomicInv'
<1> SUFFICES ASSUME AtomicInv, Write PROVE AtomicInv'
  OBVIOUS
<1>1. PICK threw \in IF StorageFaults THEN BOOLEAN ELSE {FALSE} :
        /\ \/ keys' = Written(keys, Head(todo))
           \/ threw /\ UNCHANGED keys
        /\ Advance(threw)
  BY DEF Write
<1>2. /\ todo # <<>> /\ Head(todo) \in WriteSteps /\ (threw => StorageFaults) /\ threw \in BOOLEAN
      /\ UNCHANGED <<last, op, pair, start, left, read>>
  BY <1>1 DEF Write
<1>3. /\ cleaning \in BOOLEAN /\ failed \in BOOLEAN /\ pair \in PairOrNone
      /\ WellFormed(keys) /\ WellFormed(start) /\ (op = "stage" => pair \in Pair)
  BY DEF AtomicInv, RepositoryTypeOK
<1>4. ~Ended /\ \A B, t : Undoing(B, t) => Head(t) \in WriteSteps /\ todo = t
  BY <1>2 DEF Ended, Undoing
<1>5. \A s, t : Writing(s, t) => Head(t) \in WriteSteps
  BY <1>2 DEF Writing
<1>6. "dropPending" \notin WriteSteps /\ "dropDurable" \notin WriteSteps /\ "examine" \notin WriteSteps
  BY DEF WriteSteps
<1>7. ~failed /\ ~cleaning /\ left = {}
      /\ (\/ op = "stage" /\ ~HasDurableMaterial(start)
             /\ (\/ keys = start /\ todo = <<"pendingSecret", "pendingMeta">>
                 \/ keys = [start EXCEPT !.pendingSecret = pair] /\ todo = <<"pendingMeta">>)
          \/ op = "installCommitted" /\ HasPending(start)
             /\ (\/ keys = start /\ todo = <<"secret", "meta", "dropPending">>
                 \/ keys = [start EXCEPT !.secret = start.pendingSecret] /\ todo = <<"meta", "dropPending">>)
          \/ op = "markConfirmed" /\ start.meta # NoPair /\ start.secret # NoPair
             /\ start.status = "committed" /\ keys = start /\ todo = <<"confirmed">>)
  <2>1. op # "idle" /\ op # "abortPairAttempt" /\ op # "revoke" /\ op # "discardIncomplete"
    BY <1>2, <1>4, <1>5, <1>6, Plans DEF AtomicInv, Position, AtAbort, AtRevoke, AtDiscard
  <2>2. op = "stage" => ~HasDurableMaterial(start) /\
          (\/ Writing(start, <<"pendingSecret", "pendingMeta">>)
           \/ Writing([start EXCEPT !.pendingSecret = pair], <<"pendingMeta">>))
    BY <1>4, <1>6, Plans DEF AtomicInv, Position, AtStage
  <2>3. op = "installCommitted" => HasPending(start) /\
          (\/ Writing(start, <<"secret", "meta", "dropPending">>)
           \/ Writing([start EXCEPT !.secret = start.pendingSecret], <<"meta", "dropPending">>))
    BY <1>2, <1>4, <1>6, Plans DEF AtomicInv, Position, AtInstall
  <2>4. op = "markConfirmed" => start.meta # NoPair /\ start.secret # NoPair /\ start.status = "committed"
                                 /\ Writing(start, <<"confirmed">>)
    BY <1>4 DEF AtomicInv, Position, AtConfirm
  <2>5. op \in {"stage", "installCommitted", "markConfirmed"}
    BY <2>1 DEF AtomicInv, RepositoryTypeOK, Methods
  <2> QED
    BY <2>2, <2>3, <2>4, <2>5 DEF Writing
<1>8. (threw /\ todo' = CleanUp /\ cleaning' /\ failed') \/ (~threw /\ todo' = Tail(todo) /\ ~cleaning' /\ ~failed')
  BY <1>1, <1>2, <1>7 DEF Advance
<1>9. cleaning' \in BOOLEAN /\ failed' \in BOOLEAN
  BY <1>1, <1>3 DEF Advance
<1>10. Dropping(keys, "dropPending")' /\ Dropping(keys, "dropDurable")'
  BY <1>2, <1>7 DEF Dropping
<1>11. ASSUME op = "stage" PROVE WellFormed(keys') /\ AtStage'
  <2>1. /\ keys' \in StageWrites(start, pair)
        /\ ~threw => \/ keys' = [start EXCEPT !.pendingSecret = pair] /\ todo = <<"pendingSecret", "pendingMeta">>
                     \/ keys' = Staged(start, pair) /\ todo = <<"pendingMeta">>
    <3>1. Head(todo) = "pendingSecret" => Written(keys, Head(todo)) = [keys EXCEPT !.pendingSecret = pair]
      BY DEF Written
    <3>2. Head(todo) = "pendingMeta" => Written(keys, Head(todo)) = [keys EXCEPT !.pendingMeta = pair]
      BY DEF Written
    <3>3. [[start EXCEPT !.pendingSecret = pair] EXCEPT !.pendingMeta = pair] = Staged(start, pair)
      BY <1>3 DEF Staged, WellFormed, Store
    <3>4. Staged(start, pair) \in StageWrites(start, pair)
      BY <3>3 DEF StageWrites
    <3>5. start \in StageWrites(start, pair) /\ [start EXCEPT !.pendingSecret = pair] \in StageWrites(start, pair)
      BY DEF StageWrites
    <3>6. CASE todo = <<"pendingSecret", "pendingMeta">> /\ keys = start
      BY <1>1, <3>1, <3>5, <3>6, Plans
    <3>7. CASE todo = <<"pendingMeta">> /\ keys = [start EXCEPT !.pendingSecret = pair]
      BY <1>1, <3>2, <3>3, <3>4, <3>5, <3>7, Plans
    <3> QED
      BY <1>7, <1>11, <3>6, <3>7
  <2>2. WellFormed(keys')
    BY <1>3, <2>1, Writes
  <2>3. CASE threw
    <3>1. Undoing(StageWrites(start, pair), <<"dropPending">>)'
      BY <1>2, <1>8, <1>10, <1>11, <2>1, <2>3, Plans DEF Undoing, CleanUp
    <3> QED
      BY <1>2, <1>7, <1>11, <2>2, <3>1 DEF AtStage
  <2>4. CASE ~threw /\ todo = <<"pendingSecret", "pendingMeta">>
    <3>1. Writing([start EXCEPT !.pendingSecret = pair], <<"pendingMeta">>)'
      BY <1>2, <1>7, <1>8, <2>1, <2>4, Plans DEF Writing
    <3> QED
      BY <1>2, <1>7, <1>11, <2>2, <3>1 DEF AtStage
  <2>5. CASE ~threw /\ todo = <<"pendingMeta">>
    <3>1. todo' = <<>> /\ ~failed' /\ keys' = Staged(start, pair)
      BY <1>8, <2>1, <2>5, Plans
    <3>2. Result(keys', TRUE) \in Stage(start, pair)
      BY <1>7, <1>11, <3>1 DEF Stage
    <3>3. (~failed') = TRUE
      BY <3>1
    <3>4. Outcome'
      BY <1>2, <1>11, <2>1, <3>2, <3>3 DEF Outcome, Contract, MidwayStores
    <3> QED
      BY <1>2, <1>7, <2>2, <3>1, <3>4 DEF AtStage, Ended
  <2> QED
    BY <1>7, <1>11, <2>3, <2>4, <2>5
<1>12. ASSUME op = "installCommitted" PROVE WellFormed(keys') /\ AtInstall'
  <2>1. /\ keys' \in InstallWrites(start)
        /\ ~threw => \/ keys' = [start EXCEPT !.secret = start.pendingSecret]
                        /\ todo = <<"secret", "meta", "dropPending">>
                     \/ keys' = Committed(start) /\ todo = <<"meta", "dropPending">>
    <3>1. Head(todo) = "secret" => Written(keys, Head(todo)) = [keys EXCEPT !.secret = start.pendingSecret]
      BY DEF Written
    <3>2. Head(todo) = "meta" =>
            Written(keys, Head(todo)) = [keys EXCEPT !.meta = start.pendingMeta, !.status = "committed"]
      BY DEF Written
    <3>3. [[start EXCEPT !.secret = start.pendingSecret] EXCEPT !.meta = start.pendingMeta, !.status = "committed"]
            = Committed(start)
      BY <1>3 DEF Committed, WellFormed, Store
    <3>4. Committed(start) \in InstallWrites(start)
      BY DEF InstallWrites, PartlyNoPending
    <3>5. start \in InstallWrites(start) /\ [start EXCEPT !.secret = start.pendingSecret] \in InstallWrites(start)
      BY DEF InstallWrites
    <3>6. CASE todo = <<"secret", "meta", "dropPending">> /\ keys = start
      BY <1>1, <3>1, <3>5, <3>6, Plans
    <3>7. CASE todo = <<"meta", "dropPending">> /\ keys = [start EXCEPT !.secret = start.pendingSecret]
      BY <1>1, <3>2, <3>3, <3>4, <3>5, <3>7, Plans
    <3> QED
      BY <1>7, <1>12, <3>6, <3>7
  <2>2. WellFormed(keys') /\ HasPending(start)
    BY <1>3, <1>7, <1>12, <2>1, Writes
  <2>3. CASE threw
    <3>1. Undoing(InstallWrites(start), <<"dropDurable", "dropPending">>)'
      BY <1>2, <1>8, <1>10, <1>12, <2>1, <2>3, Plans DEF Undoing, CleanUp
    <3> QED
      BY <1>2, <2>2, <3>1 DEF AtInstall
  <2>4. CASE ~threw /\ todo = <<"secret", "meta", "dropPending">>
    <3>1. Writing([start EXCEPT !.secret = start.pendingSecret], <<"meta", "dropPending">>)'
      BY <1>2, <1>7, <1>8, <2>1, <2>4, Plans DEF Writing
    <3> QED
      BY <1>2, <2>2, <3>1 DEF AtInstall
  <2>5. CASE ~threw /\ todo = <<"meta", "dropPending">>
    <3>1. todo' = <<"dropPending">> /\ keys' = Committed(start)
      BY <1>8, <2>1, <2>5, Plans
    <3>2. Dropping(Committed(start), "dropPending")'
      BY <1>2, <1>7, <3>1 DEF Dropping
    <3> QED
      BY <1>2, <1>8, <2>2, <2>5, <3>1, <3>2 DEF AtInstall
  <2> QED
    BY <1>7, <1>12, <2>3, <2>4, <2>5
<1>13. ASSUME op = "markConfirmed" PROVE WellFormed(keys') /\ AtConfirm'
  <2>1. keys' \in {start, Confirmed(start)} /\ (~threw => keys' = Confirmed(start))
    BY <1>1, <1>7, <1>13, Plans DEF Written, Confirmed
  <2>2. WellFormed(keys')
    BY <1>3, <1>7, <1>13, <2>1, PairAssumption DEF WellFormed, Confirmed, Store
  <2>3. todo' = <<>> /\ left' = {}
    BY <1>2, <1>7, <1>8, <1>13, Plans DEF CleanUp
  <2>4. CASE threw
    <3>1. Result(keys', FALSE) \in MarkConfirmed(start)
      BY <1>2, <1>7, <1>13, <2>1, <2>4 DEF MarkConfirmed, IfFaulty
    <3>2. (~failed') = FALSE
      BY <1>8, <2>4
    <3>3. Outcome'
      BY <1>2, <1>13, <3>1, <3>2 DEF Outcome, Contract
    <3> QED
      BY <2>2, <2>3, <3>3 DEF AtConfirm, Ended
  <2>5. CASE ~threw
    <3>1. Result(keys', TRUE) \in MarkConfirmed(start)
      BY <1>7, <1>13, <2>1, <2>5 DEF MarkConfirmed
    <3>2. (~failed') = TRUE
      BY <1>8, <2>5
    <3>3. Outcome'
      BY <1>2, <1>13, <2>1, <3>1, <3>2 DEF Outcome, Contract, MidwayStores
    <3> QED
      BY <2>2, <2>3, <3>3 DEF AtConfirm, Ended
  <2> QED
    BY <2>4, <2>5
<1>14. WellFormed(keys') /\ Position'
  BY <1>2, <1>7, <1>11, <1>12, <1>13 DEF Position
<1>15. RepositoryTypeOK'
  BY <1>2, <1>9, <1>14 DEF AtomicInv, RepositoryTypeOK
<1> QED
  BY <1>14, <1>15 DEF AtomicInv
\* Only discardIncomplete looks at the durable keys.
LEMMA ExamineDiscards ==
  ASSUME AtomicInv, Examine
  PROVE  op = "discardIncomplete" /\ Writing(NoPending(start), <<"examine">>) /\ ~failed /\ ~cleaning
<1>11. todo # <<>> /\ Head(todo) = "examine"
  BY DEF Examine
<1>13. ~Ended /\ \A B, t : (Undoing(B, t) => Head(t) = "examine") /\ (Writing(B, t) => Head(t) = "examine")
  BY <1>11 DEF Ended, Undoing, Writing
<1>1. op # "stage" /\ op # "markConfirmed" /\ op # "idle"
  BY <1>11, <1>13, Plans DEF AtomicInv, Position, AtStage, AtConfirm
<1>2. op # "abortPairAttempt" /\ op # "revoke"
  BY <1>11, <1>13, Plans DEF AtomicInv, Position, AtAbort, AtRevoke
<1>3. op # "installCommitted"
  BY <1>11, <1>13, Plans DEF AtomicInv, Position, AtInstall
<1>4. op = "discardIncomplete"
  BY <1>1, <1>2, <1>3 DEF AtomicInv, RepositoryTypeOK, Methods
<1> QED
  BY <1>11, <1>13, <1>4, Plans DEF AtomicInv, Position, AtDiscard

\* The look at the durable keys.
LEMMA ExamineStep == AtomicInv /\ Examine => AtomicInv'
<1> SUFFICES ASSUME AtomicInv, Examine PROVE AtomicInv'
  OBVIOUS
<1>1. /\ todo # <<>> /\ Head(todo) = "examine"
      /\ UNCHANGED <<keys, last, op, pair, start, left, cleaning, read>>
  BY DEF Examine
<1>2. RepositoryTypeOK'
  <2>1. failed' \in BOOLEAN
    BY DEF Examine, AtomicInv, RepositoryTypeOK
  <2> QED
    BY <1>1, <2>1 DEF AtomicInv, RepositoryTypeOK
<1>3. ~Ended /\ \A B, t : (Undoing(B, t) => Head(t) = "examine") /\ (Writing(B, t) => Head(t) = "examine")
  BY <1>1 DEF Ended, Undoing, Writing
<1>4. op = "discardIncomplete" /\ Writing(NoPending(start), <<"examine">>) /\ ~failed /\ ~cleaning
  BY ExamineDiscards
<1>5. keys = NoPending(start) /\ left = {} /\ WellFormed(start)
  BY <1>4 DEF Writing, AtomicInv, RepositoryTypeOK
<1>6. keys.meta = start.meta /\ keys.secret = start.secret /\ keys.status = start.status
  BY <1>5 DEF NoPending, NoPendingMeta, NoPendingSecret, WellFormed, Store
<1>7. CASE /\ keys.status = "committed" \/ (keys.meta = NoPair /\ keys.secret # NoPair)
           /\ todo' = <<"dropDurable">>
           /\ UNCHANGED failed
  <2>1. Dropping(NoPending(start), "dropDurable")'
    BY <1>1, <1>5 DEF Dropping
  <2>2. AtDiscard'
    BY <1>1, <1>4, <1>6, <1>7, <2>1 DEF AtDiscard
  <2> QED
    BY <1>1, <1>2, <1>4, <2>2 DEF AtomicInv, Position
<1>8. CASE /\ ~(keys.status = "committed" \/ (keys.meta = NoPair /\ keys.secret # NoPair))
           /\ todo' = <<>>
           /\ failed' = (keys.meta # NoPair /\ keys.secret = NoPair)
  <2>1. SettleDurable(keys) = {Result(keys, keys.meta = NoPair \/ keys.secret # NoPair)}
    BY <1>8 DEF SettleDurable
  <2>2. (~failed') = (keys.meta = NoPair \/ keys.secret # NoPair)
    BY <1>8
  <2>3. Result(keys', ~failed') \in DiscardIncomplete(start)
    BY <1>1, <1>5, <2>1, <2>2, DiscardEnds
  <2>4. keys' \in MidwayStores("discardIncomplete", start, pair)
    <3>1. keys' \in PartlyNoPending(start) /\ (\A t : t \in PartlyNoDurable(t))
      BY <1>1, <1>5 DEF PartlyNoPending, PartlyNoDurable
    <3>2. keys' \in Remnants(start)
      BY <3>1 DEF Remnants
    <3> QED
      BY <3>1, <3>2 DEF MidwayStores
  <2>5. Outcome'
    BY <1>1, <1>4, <2>3, <2>4 DEF Outcome, Contract
  <2>6. AtDiscard'
    BY <1>1, <1>5, <1>8, <2>5 DEF AtDiscard, Ended
  <2> QED
    BY <1>1, <1>2, <1>4, <2>6 DEF AtomicInv, Position
<1>9. CASE StorageFaults /\ todo' = <<>> /\ failed' = TRUE
  <2>1. Result(keys', ~failed') \in DiscardIncomplete(start)
    BY <1>1, <1>5, <1>9, DiscardEnds
  <2>2. Outcome'
    BY <1>1, <1>4, <1>9, <2>1 DEF Outcome, Contract
  <2>3. AtDiscard'
    BY <1>1, <1>5, <1>9, <2>2 DEF AtDiscard, Ended
  <2> QED
    BY <1>1, <1>2, <1>4, <2>3 DEF AtomicInv, Position
<1> QED
  BY <1>7, <1>8, <1>9 DEF Examine

\* A method begins with its plan.
LEMMA BeginStep ==
  ASSUME AtomicInv, NEW m \in Methods, NEW a \in PairOrNone, m = "stage" => a \in Pair, Begin(m, a)
  PROVE  AtomicInv'
<1>1. /\ op = "idle" /\ op' = m /\ pair' = a /\ start' = keys /\ left' = {} /\ keys' = keys
      /\ last' = last /\ read' = read
      /\ cleaning' = (failed' \/ m \in {"abortPairAttempt", "revoke"})
  BY DEF Begin
<1>2. \/ todo' = Plan(m, keys, a).todo /\ failed' = Plan(m, keys, a).failed
      \/ /\ StorageFaults /\ m \in {"stage", "installCommitted", "markConfirmed"}
         /\ todo' = <<>> /\ failed' = TRUE
  BY DEF Begin
<1>3. WellFormed(keys) /\ left = {}
  BY <1>1 DEF AtomicInv, RepositoryTypeOK, Position
<1>4. Dropping(start, "dropPending")' /\ Dropping(start, "dropDurable")'
  BY <1>1 DEF Dropping
<1>5. ASSUME failed' = TRUE, todo' = <<>>, Result(keys, FALSE) \in Contract(m, keys, a) PROVE Ended'
  <2>1. (~failed') = FALSE
    BY <1>5
  <2>2. Outcome'
    BY <1>1, <1>5, <2>1 DEF Outcome
  <2> QED
    BY <1>1, <1>5, <2>2 DEF Ended
<1>6. failed' \in BOOLEAN
  BY <1>2 DEF Plan, Methods
<1>7. RepositoryTypeOK'
  BY <1>1, <1>6 DEF AtomicInv, RepositoryTypeOK
<1>8. keys \in StageWrites(keys, a) /\ keys \in InstallWrites(keys) /\ (\A t : t \in PartlyNoPending(t) /\ t \in PartlyNoDurable(t))
  BY DEF StageWrites, InstallWrites, PartlyNoPending, PartlyNoDurable
<1>9. ASSUME m = "stage" PROVE AtStage'
  <2>1. CASE ~HasDurableMaterial(keys) /\ todo' = <<"pendingSecret", "pendingMeta">> /\ failed' = FALSE
    <3>1. Writing(start, <<"pendingSecret", "pendingMeta">>)'
      BY <1>1, <1>9, <2>1 DEF Writing
    <3> QED
      BY <1>1, <2>1, <3>1 DEF AtStage
  <2>2. CASE todo' = <<>> /\ failed' = TRUE /\ (StorageFaults \/ HasDurableMaterial(keys))
    <3>1. keys \in UNION {PartlyNoPending(w) : w \in StageWrites(keys, a)}
      BY <1>8
    <3>2. Result(keys, FALSE) \in Contract(m, keys, a)
      BY <1>9, <2>2, <3>1 DEF Contract, Stage, IfFaulty
    <3> QED
      BY <1>5, <2>2, <3>2 DEF AtStage
  <2> QED
    BY <1>2, <1>9, <2>1, <2>2 DEF Plan
<1>10. ASSUME m = "installCommitted" PROVE AtInstall'
  <2>1. CASE HasPending(keys) /\ todo' = <<"secret", "meta", "dropPending">> /\ failed' = FALSE
    <3>1. Writing(start, <<"secret", "meta", "dropPending">>)'
      BY <1>1, <1>10, <2>1 DEF Writing
    <3> QED
      BY <1>1, <2>1, <3>1 DEF AtInstall
  <2>2. CASE ~HasPending(keys) /\ todo' = <<"dropPending">> /\ failed' = TRUE
    BY <1>1, <1>4, <2>2 DEF AtInstall
  <2>3. CASE StorageFaults /\ todo' = <<>> /\ failed' = TRUE
    <3>1. keys \in UNION {PartlyNoDurable(w) : w \in InstallWrites(keys)}
      BY <1>8
    <3>2. keys \in UNION {PartlyNoPending(u) : u \in UNION {PartlyNoDurable(w) : w \in InstallWrites(keys)}}
      BY <1>8, <3>1
    <3>3. Result(keys, FALSE) \in Contract(m, keys, a)
      BY <1>10, <2>3, <3>2 DEF Contract, InstallCommitted, IfFaulty
    <3> QED
      BY <1>5, <2>3, <3>3 DEF AtInstall
  <2> QED
    BY <1>2, <1>10, <2>1, <2>2, <2>3 DEF Plan
<1>11. ASSUME m = "markConfirmed" PROVE AtConfirm'
  <2>1. CASE /\ keys.meta # NoPair /\ keys.secret # NoPair /\ keys.status = "committed"
             /\ todo' = <<"confirmed">> /\ failed' = FALSE
    <3>1. Writing(start, <<"confirmed">>)'
      BY <1>1, <1>11, <2>1 DEF Writing
    <3> QED
      BY <1>1, <2>1, <3>1 DEF AtConfirm
  <2>2. CASE /\ todo' = <<>> /\ failed' = TRUE
             /\ \/ StorageFaults
                \/ ~(keys.meta # NoPair /\ keys.secret # NoPair /\ keys.status = "committed")
    <3>1. Result(keys, FALSE) \in Contract(m, keys, a)
      BY <1>11, <2>2 DEF Contract, MarkConfirmed, IfFaulty
    <3> QED
      BY <1>5, <2>2, <3>1 DEF AtConfirm
  <2> QED
    BY <1>2, <1>11, <2>1, <2>2 DEF Plan
<1>12. ASSUME m = "discardIncomplete" PROVE AtDiscard'
  <2>1. todo' = <<"dropPending", "examine">> /\ failed' = FALSE
    BY <1>2, <1>12 DEF Plan
  <2> QED
    BY <1>1, <1>4, <1>12, <2>1 DEF AtDiscard
<1>13. ASSUME m = "abortPairAttempt" PROVE AtAbort'
  <2>1. todo' = <<"dropPending", "dropDurable">> /\ failed' = FALSE
    BY <1>2, <1>13 DEF Plan
  <2> QED
    BY <1>1, <1>4, <1>13, <2>1 DEF AtAbort
<1>14. ASSUME m = "revoke" PROVE AtRevoke'
  <2>1. todo' = <<"dropDurable", "dropPending">> /\ failed' = FALSE
    BY <1>2, <1>14 DEF Plan
  <2> QED
    BY <1>1, <1>4, <1>14, <2>1 DEF AtRevoke
<1>15. Position'
  BY <1>1, <1>9, <1>10, <1>11, <1>12, <1>13, <1>14 DEF Position, Methods
<1> QED
  BY <1>7, <1>15 DEF AtomicInv

\* Only a removal step is settled.
LEMMA SettleTakesDrops ==
  ASSUME AtomicInv, NEW half \in {"meta", "secret"}, SettleRemoval(half)
  PROVE  Head(todo) \in DropSteps
<1>1. left # {} /\ ~Ended /\ \A s, t : ~Writing(s, t)
  BY DEF SettleRemoval, Ended, Writing
<1>2. \A B, t : Undoing(B, t) => todo = t
  BY DEF Undoing
<1>3. op = "stage" => Head(todo) \in DropSteps
  BY <1>1, <1>2, Plans DEF AtomicInv, Position, AtStage, DropSteps
<1>4. op = "installCommitted" => Head(todo) \in DropSteps
  BY <1>1, <1>2, Plans DEF AtomicInv, Position, AtInstall, DropSteps
<1>5. op = "discardIncomplete" => Head(todo) \in DropSteps
  BY <1>1, <1>2, Plans DEF AtomicInv, Position, AtDiscard, DropSteps
<1>6. op \in {"abortPairAttempt", "revoke"} => Head(todo) \in DropSteps
  BY <1>1, <1>2, Plans DEF AtomicInv, Position, AtAbort, AtRevoke, DropSteps
<1>7. op # "idle" /\ op # "markConfirmed"
  BY <1>1 DEF AtomicInv, Position, AtConfirm
<1> QED
  BY <1>3, <1>4, <1>5, <1>6, <1>7 DEF AtomicInv, RepositoryTypeOK, Methods

\* A removal settles.
LEMMA SettleStep == \A half \in {"meta", "secret"} : AtomicInv /\ SettleRemoval(half) => AtomicInv'
<1> SUFFICES ASSUME NEW half \in {"meta", "secret"}, AtomicInv, SettleRemoval(half) PROVE AtomicInv'
  OBVIOUS
<1>1. left # {} /\ UNCHANGED <<last, op, pair, start, read>>
  BY DEF SettleRemoval
<1>2. op # "idle" /\ op # "markConfirmed"
  BY <1>1 DEF AtomicInv, Position, AtConfirm, Ended, Writing
<1>3. /\ op = "stage" => AtStage'
      /\ op = "installCommitted" => AtInstall'
      /\ op = "discardIncomplete" => AtDiscard'
      /\ op = "abortPairAttempt" => AtAbort'
      /\ op = "revoke" => AtRevoke'
  BY SettleStage, SettleInstall, SettleDiscard, SettleAbort, SettleRevoke
<1>4. Position'
  BY <1>1, <1>2, <1>3 DEF Position
<1>5. Head(todo) \in DropSteps
  BY SettleTakesDrops
<1>6. WellFormed(keys')
  <2>1. keys' \in {keys, Removed(keys, Head(todo), half)}
    BY DEF SettleRemoval
  <2> QED
    BY <1>5, <2>1, Removals DEF AtomicInv, RepositoryTypeOK
<1>7. cleaning' \in BOOLEAN /\ failed' \in BOOLEAN
  <2>1. \/ UNCHANGED <<cleaning, failed>>
        \/ Advance(TRUE) \/ Advance(FALSE)
    BY DEF SettleRemoval
  <2> QED
    BY <2>1 DEF Advance, AtomicInv, RepositoryTypeOK
<1>8. RepositoryTypeOK'
  BY <1>1, <1>6, <1>7 DEF AtomicInv, RepositoryTypeOK
<1> QED
  BY <1>4, <1>8 DEF AtomicInv
LEMMA EmptyStoreFits == WellFormed(EmptyStore)
  BY DEF WellFormed, EmptyStore, Store, PairOrNone

LEMMA NoReadFits ==
  NoRead \in [active : BOOLEAN, meta : PairOrNone \cup {Unread},
              status : {"none", "committed", "confirmed"}, secret : PairOrNone \cup {Unread}]
  BY DEF NoRead

\* The method returns, or the process dies.
LEMMA ReturnStep == AtomicInv /\ (Return \/ Die) => AtomicInv'
<1> SUFFICES ASSUME AtomicInv, Return \/ Die PROVE AtomicInv'
  OBVIOUS
<1>1. /\ keys' = keys /\ op' = "idle" /\ pair' = NoPair /\ start' = EmptyStore
      /\ cleaning' = FALSE /\ failed' = FALSE /\ todo' = <<>> /\ left' = {}
      /\ last' \in {"none", op} /\ op \in Methods \cup {"idle"} /\ (Return => op # "idle")
      /\ read' \in {read, NoRead} /\ (Die => last' = "none")
  BY DEF Return, Finished, Die, AtomicInv, RepositoryTypeOK
<1>2. RepositoryTypeOK'
  <2>1. last' \in Methods \cup {"none"}
    BY <1>1
  <2> QED
    BY <1>1, <2>1, EmptyStoreFits, NoReadFits DEF AtomicInv, RepositoryTypeOK, PairOrNone
<1>3. Position'
  BY <1>1 DEF Position
<1> QED
  BY <1>2, <1>3 DEF AtomicInv

\* A load leaves the method alone.
LEMMA LoadKeepsPosition ==
  AtomicInv /\ (BeginLoad \/ LoadMeta \/ LoadSecret \/ EndLoad) => AtomicInv'
<1> SUFFICES ASSUME AtomicInv, BeginLoad \/ LoadMeta \/ LoadSecret \/ EndLoad PROVE AtomicInv'
  OBVIOUS
<1>1. UNCHANGED <<keys, last, op, pair, start, todo, left, cleaning, failed>>
  BY DEF BeginLoad, LoadMeta, LoadSecret, EndLoad
<1>2. read' \in [active : BOOLEAN, meta : PairOrNone \cup {Unread},
                 status : {"none", "committed", "confirmed"}, secret : PairOrNone \cup {Unread}]
  <2>1. CASE BeginLoad
    BY <2>1, NoReadFits DEF BeginLoad
  <2>2. CASE LoadMeta
    BY <2>2 DEF LoadMeta, AtomicInv, RepositoryTypeOK, WellFormed, Store
  <2>3. CASE LoadSecret
    BY <2>3 DEF LoadSecret, AtomicInv, RepositoryTypeOK, WellFormed, Store
  <2>4. CASE EndLoad
    BY <2>4, NoReadFits DEF EndLoad
  <2> QED
    BY <2>1, <2>2, <2>3, <2>4
<1>3. RepositoryTypeOK'
  BY <1>1, <1>2 DEF AtomicInv, RepositoryTypeOK
<1>4. Position'
  BY <1>1 DEF AtomicInv, Position, AtStage, AtInstall, AtConfirm, AtDiscard, AtAbort, AtRevoke,
              Ended, Outcome, Writing, Undoing, Dropping
<1> QED
  BY <1>3, <1>4 DEF AtomicInv

LEMMA StepAtomic == AtomicInv /\ Step => AtomicInv'
  BY BeginStep, WriteStep, IssueStep, ExamineStep, SettleStep, ReturnStep, LoadKeepsPosition
     DEF Step, MethodStep, Methods, PairOrNone

LEMMA AtomicInit == Init => AtomicInv
<1> SUFFICES ASSUME Init PROVE AtomicInv
  OBVIOUS
<1>1. RepositoryTypeOK
  BY EmptyStoreFits, NoReadFits DEF Init, RepositoryTypeOK, PairOrNone
<1>2. Position
  BY DEF Init, Position
<1> QED
  BY <1>1, <1>2 DEF AtomicInv

LEMMA AtomicStutter == AtomicInv /\ UNCHANGED vars => AtomicInv'
  BY DEF AtomicInv, RepositoryTypeOK, Position, AtStage, AtInstall, AtConfirm, AtDiscard, AtAbort,
         AtRevoke, Ended, Outcome, Writing, Undoing, Dropping, vars

LEMMA AtomicAlways == Spec => []AtomicInv
<1>1. AtomicInv /\ [Next]_vars => AtomicInv'
  BY AtomicStutter, StepAtomic DEF Next
<1> QED
  BY <1>1, AtomicInit, PTL DEF Spec

\* Between two storage calls, and at its end, a method is where it may be.
LEMMA AtomicImplies == AtomicInv => MethodsAreAtomic
<1> SUFFICES ASSUME AtomicInv PROVE MethodsAreAtomic
  OBVIOUS
<1>1. WellFormed(start) /\ WellFormed(keys) /\ op \in Methods \cup {"idle"}
  BY DEF AtomicInv, RepositoryTypeOK
<1>2. ASSUME NEW b, NEW step \in DropSteps, WellFormed(b), Dropping(b, step)
      PROVE  keys \in Partly(b, step)
  BY <1>2 DEF Dropping, Partly
<1>3. /\ Dropping(start, "dropPending") => keys \in PartlyNoPending(start)
      /\ Dropping(start, "dropDurable") => keys \in PartlyNoDurable(start)
      /\ Dropping(NoPending(start), "dropDurable") => keys \in PartlyNoDurable(NoPending(start))
      /\ Dropping(NoDurable(start), "dropPending") => keys \in PartlyNoPending(NoDurable(start))
      /\ HasPending(start) /\ Dropping(Committed(start), "dropPending")
           => keys \in PartlyNoPending(Committed(start))
  <2>1. "dropPending" \in DropSteps /\ "dropDurable" \in DropSteps
    BY DEF DropSteps
  <2>2. WellFormed(NoPending(start)) /\ WellFormed(NoDurable(start))
    BY <1>1, Removals
  <2>3. HasPending(start) => WellFormed(Committed(start))
    BY <1>1, Writes, PairAssumption DEF PairOrNone
  <2> QED
    BY <1>1, <1>2, <2>1, <2>2, <2>3, Removals
<1>4. ASSUME op # "idle", ~failed PROVE keys \in MidwayStores(op, start, pair)
  <2>1. CASE Ended
    BY <1>4, <2>1 DEF Ended, Outcome
  <2>2. ASSUME ~Ended, op = "stage" PROVE keys \in MidwayStores(op, start, pair)
    BY <1>4, <2>2 DEF AtomicInv, Position, AtStage, Writing, Undoing, MidwayStores, StageWrites
  <2>3. ASSUME ~Ended, op = "installCommitted" PROVE keys \in MidwayStores(op, start, pair)
    BY <1>3, <1>4, <2>3 DEF AtomicInv, Position, AtInstall, Writing, Undoing, MidwayStores, InstallWrites
  <2>4. ASSUME ~Ended, op = "markConfirmed" PROVE keys \in MidwayStores(op, start, pair)
    BY <2>4 DEF AtomicInv, Position, AtConfirm, Writing, MidwayStores
  <2>5. ASSUME ~Ended, op = "discardIncomplete" PROVE keys \in MidwayStores(op, start, pair)
    <3>1. keys \in PartlyNoPending(start) \/
            (keys \in PartlyNoDurable(NoPending(start)) /\ start.status # "confirmed")
      BY <1>1, <1>3, <1>4, <2>5
         DEF AtomicInv, Position, AtDiscard, Writing, PartlyNoPending, WellFormed
    <3>2. \A t : t \in PartlyNoDurable(t)
      BY DEF PartlyNoDurable
    <3>3. keys \in Remnants(start)
      BY <3>1, <3>2 DEF Remnants, PartlyNoPending
    <3> QED
      BY <2>5, <3>1, <3>3 DEF MidwayStores
  <2>6. ASSUME ~Ended, op \in {"abortPairAttempt", "revoke"} PROVE keys \in MidwayStores(op, start, pair)
    <3>1. \/ keys \in PartlyNoPending(start) \/ keys \in PartlyNoDurable(start)
          \/ keys \in PartlyNoDurable(NoPending(start)) \/ keys \in PartlyNoPending(NoDurable(start))
      BY <1>3, <1>4, <2>6 DEF AtomicInv, Position, AtAbort, AtRevoke, Undoing
    <3>2. \A t : t \in PartlyNoDurable(t) /\ t \in PartlyNoPending(t)
      BY DEF PartlyNoDurable, PartlyNoPending
    <3>3. NoDurable(start) \in PartlyNoDurable(start) /\ NoPending(start) \in PartlyNoPending(start)
      BY DEF PartlyNoDurable, PartlyNoPending
    <3>4. keys \in Remnants(start)
      <4>1. \A u \in PartlyNoPending(start) : PartlyNoDurable(u) \subseteq Remnants(start)
        BY DEF Remnants
      <4>2. \A u \in PartlyNoDurable(start) : PartlyNoPending(u) \subseteq Remnants(start)
        BY <1>1, PartlyCommute
      <4> QED
        BY <3>1, <3>2, <3>3, <4>1, <4>2
    <3> QED
      BY <2>6, <3>4 DEF MidwayStores
  <2> QED
    BY <1>1, <1>4, <2>1, <2>2, <2>3, <2>4, <2>5, <2>6 DEF Methods
<1>5. ASSUME Finished PROVE Result(keys, ~failed) \in Contract(op, start, pair)
  <2>1. todo = <<>> /\ op # "idle"
    BY <1>5 DEF Finished
  <2>2. (\A s, t : Writing(s, t) => t = <<>>) /\ (\A B, t : Undoing(B, t) => t = <<>>)
    BY <2>1 DEF Writing, Undoing
  <2>3. Ended
    <3>1. op = "stage" => Ended
      BY <2>1, <2>2, Plans DEF AtomicInv, Position, AtStage
    <3>2. op = "installCommitted" => Ended
      BY <2>1, <2>2, Plans DEF AtomicInv, Position, AtInstall
    <3>3. op = "markConfirmed" => Ended
      BY <2>1, <2>2, Plans DEF AtomicInv, Position, AtConfirm
    <3>4. op = "discardIncomplete" => Ended
      BY <2>1, <2>2, Plans DEF AtomicInv, Position, AtDiscard
    <3>5. op = "abortPairAttempt" => Ended
      BY <2>1, <2>2, Plans DEF AtomicInv, Position, AtAbort
    <3>6. op = "revoke" => Ended
      BY <2>1, <2>2, Plans DEF AtomicInv, Position, AtRevoke
    <3> QED
      BY <1>1, <2>1, <3>1, <3>2, <3>3, <3>4, <3>5, <3>6 DEF Methods
  <2> QED
    BY <2>3 DEF Ended, Outcome
<1> QED
  BY <1>4, <1>5 DEF MethodsAreAtomic

\* What PairTrust says of a method as one atomic step holds of its storage calls
\* one by one, whatever is rejected, however removals interleave and wherever
\* the process dies (all methods of PairTrustRepository).
THEOREM MethodsAlwaysAtomic == Spec => []MethodsAreAtomic
  BY AtomicImplies, AtomicAlways, PTL
-----------------------------------------------------------------------------
\* While a method stages and has not failed, there is no durable material.
LEMMA StagesOnNothing ==
  ASSUME AtomicInv, op = "stage", ~failed
  PROVE  ~HasDurableMaterial(keys)
<1>1. CASE Ended
  <2>1. Result(keys, TRUE) \in Stage(start, pair)
    <3>1. (~failed) = TRUE
      OBVIOUS
    <3> QED
      BY <1>1, <3>1 DEF Ended, Outcome, Contract
  <2>2. \A t : Result(keys, TRUE) # Result(t, FALSE)
    <3>1. Result(keys, TRUE).ok = TRUE /\ \A t : Result(t, FALSE).ok = FALSE
      BY DEF Result
    <3> QED
      BY <3>1
  <2>3. ~HasDurableMaterial(start) /\ Result(keys, TRUE) = Result(Staged(start, pair), TRUE)
    BY <2>1, <2>2 DEF Stage, IfFaulty
  <2>4. keys = Staged(start, pair)
    BY <2>3 DEF Result
  <2> QED
    BY <2>3, <2>4 DEF Staged, HasDurableMaterial, AtomicInv, RepositoryTypeOK, WellFormed, Store
<1>2. CASE ~Ended
  <2>1. ~HasDurableMaterial(start) /\ keys \in {start, [start EXCEPT !.pendingSecret = pair]}
    BY <1>2 DEF AtomicInv, Position, AtStage, Writing, Undoing
  <2> QED
    BY <2>1 DEF HasDurableMaterial, AtomicInv, RepositoryTypeOK, WellFormed, Store
<1> QED
  BY <1>1, <1>2

\* A pair is staged, and installed, only on a phone without durable material.
LEMMA StagedStep == AtomicInv /\ StagedOnNothing /\ Step => StagedOnNothing'
<1> SUFFICES ASSUME AtomicInv, StagedOnNothing, Step PROVE StagedOnNothing'
  OBVIOUS
<1>1. ASSUME op' # "idle", op # "idle" => UNCHANGED <<op, start>>,
             op = "idle" => (op' = "installCommitted" => last = "stage" /\ start' = keys)
      PROVE  StagedOnNothing'
  BY <1>1 DEF StagedOnNothing
<1>2. CASE Return
  <2>1. op' = "idle" /\ keys' = keys /\ last' = (IF failed THEN "none" ELSE op) /\ Finished
    BY <1>2 DEF Return
  <2>2. ASSUME last' = "stage" PROVE ~HasDurableMaterial(keys)
    <3>1. ~failed /\ op = "stage"
      BY <2>1, <2>2
    <3> QED
      BY <3>1, StagesOnNothing
  <2> QED
    BY <2>1, <2>2 DEF StagedOnNothing
<1>3. CASE Die
  BY <1>3 DEF Die, StagedOnNothing
<1>4. CASE Write
  <2>1. op # "idle" /\ UNCHANGED <<op, start>>
    BY <1>4 DEF Write, AtomicInv, Position
  <2> QED
    BY <1>1, <2>1
<1>5. CASE IssueRemovals \/ Examine \/ \E half \in {"meta", "secret"} : SettleRemoval(half)
  <2>1. op # "idle" /\ UNCHANGED <<op, start>>
    BY <1>5 DEF IssueRemovals, Examine, SettleRemoval, AtomicInv, Position
  <2> QED
    BY <1>1, <2>1
<1>6. CASE BeginLoad \/ LoadMeta \/ LoadSecret \/ EndLoad
  <2>1. UNCHANGED <<keys, last, op, start>>
    BY <1>6 DEF BeginLoad, LoadMeta, LoadSecret, EndLoad
  <2> QED
    BY <2>1 DEF StagedOnNothing
<1>7. ASSUME NEW m \in Methods, NEW a, Begin(m, a) PROVE StagedOnNothing'
  <2>1. op = "idle" /\ op' = m /\ start' = keys /\ (m = "installCommitted" => last = "stage") /\ op' # "idle"
    BY <1>7 DEF Begin, Methods
  <2> QED
    BY <1>1, <2>1
<1> QED
  BY <1>2, <1>3, <1>4, <1>5, <1>6, <1>7 DEF Step, MethodStep, Methods

\* How a step of a method touches durable trust: it writes a secret only by
\* installing, and it makes trust confirmed only on top of a durable secret.
LEMMA MethodTouches ==
  ASSUME AtomicInv, Step
  PROVE  /\ keys.secret = NoPair /\ keys'.secret # NoPair => op = "installCommitted" /\ ~failed
         /\ keys'.status = "confirmed" =>
              /\ (keys.status = "confirmed" /\ keys'.meta = keys.meta) \/ keys'.secret # NoPair
              /\ keys.status = "confirmed" => keys'.meta = keys.meta
              /\ keys'.meta \in Pair
<1> USE DEF AtomicInv, RepositoryTypeOK
<1>1. WellFormed(keys) /\ WellFormed(keys')
  BY StepAtomic
<1>2. keys'.status = "confirmed" => keys'.meta \in Pair
  BY <1>1 DEF WellFormed, Store, PairOrNone
<1>3. CASE keys' = keys
  BY <1>2, <1>3
<1>4. CASE Write
  <2>1. PICK threw \in BOOLEAN : keys' = Written(keys, Head(todo)) \/ keys' = keys
    BY <1>4 DEF Write
  <2>2. Head(todo) \in WriteSteps /\ todo # <<>>
    BY <1>4 DEF Write
  <2>3. Head(todo) = "secret" \/ Head(todo) = "meta" => op = "installCommitted" /\ ~failed
    <3>1. ~Ended /\ (\A B, t : Undoing(B, t) => todo = t) /\ (\A s, t : Writing(s, t) => todo = t /\ ~failed)
      BY <2>2 DEF Ended, Undoing, Writing
    <3>2. op = "stage" => Head(todo) # "secret" /\ Head(todo) # "meta"
      BY <3>1, Plans DEF Position, AtStage
    <3>3. op = "markConfirmed" => Head(todo) # "secret" /\ Head(todo) # "meta"
      BY <3>1, Plans DEF Position, AtConfirm
    <3>4. op = "discardIncomplete" => Head(todo) # "secret" /\ Head(todo) # "meta"
      BY <3>1, Plans DEF Position, AtDiscard
    <3>5. op \in {"abortPairAttempt", "revoke"} => Head(todo) # "secret" /\ Head(todo) # "meta"
      BY <3>1, Plans DEF Position, AtAbort, AtRevoke
    <3>6. op = "installCommitted" /\ (Head(todo) = "secret" \/ Head(todo) = "meta") => ~failed
      BY <3>1, Plans DEF Position, AtInstall
    <3> QED
      BY <2>2, <3>2, <3>3, <3>4, <3>5, <3>6 DEF Position, Methods
  <2>4. Head(todo) = "confirmed" => keys.meta # NoPair /\ keys.secret # NoPair
    <3>1. ~Ended /\ (\A B, t : Undoing(B, t) => todo = t)
          /\ (\A s, t : Writing(s, t) => todo = t /\ keys = s)
      BY <2>2 DEF Ended, Undoing, Writing
    <3>2. op = "stage" => Head(todo) # "confirmed"
      BY <3>1, Plans DEF Position, AtStage
    <3>3. op = "installCommitted" => Head(todo) # "confirmed"
      BY <3>1, Plans DEF Position, AtInstall
    <3>4. op = "discardIncomplete" => Head(todo) # "confirmed"
      BY <3>1, Plans DEF Position, AtDiscard
    <3>5. op \in {"abortPairAttempt", "revoke"} => Head(todo) # "confirmed"
      BY <3>1, Plans DEF Position, AtAbort, AtRevoke
    <3>6. op = "markConfirmed" => keys.meta # NoPair /\ keys.secret # NoPair
      BY <3>1, Plans DEF Position, AtConfirm
    <3> QED
      BY <2>2, <3>2, <3>3, <3>4, <3>5, <3>6 DEF Position, Methods
  <2>5. CASE keys' = Written(keys, Head(todo)) /\ Head(todo) \in {"pendingSecret", "pendingMeta"}
    <3>1. keys'.secret = keys.secret /\ keys'.status = keys.status /\ keys'.meta = keys.meta
      BY <1>1, <2>5 DEF Written, WellFormed, Store
    <3> QED
      BY <1>2, <3>1
  <2>6. CASE keys' = Written(keys, Head(todo)) /\ Head(todo) = "secret"
    <3>1. keys'.status = keys.status /\ keys'.meta = keys.meta
      BY <1>1, <2>6 DEF Written, WellFormed, Store
    <3> QED
      BY <1>2, <2>3, <2>6, <3>1
  <2>7. CASE keys' = Written(keys, Head(todo)) /\ Head(todo) = "meta"
    <3>1. keys'.status = "committed" /\ keys'.secret = keys.secret
      BY <1>1, <2>7 DEF Written, WellFormed, Store
    <3> QED
      BY <3>1
  <2>8. CASE keys' = Written(keys, Head(todo)) /\ Head(todo) = "confirmed"
    <3>1. keys'.meta = keys.meta /\ keys'.secret = keys.secret
      BY <1>1, <2>8 DEF Written, WellFormed, Store
    <3> QED
      BY <1>2, <2>4, <2>8, <3>1
  <2> QED
    BY <1>3, <2>1, <2>2, <2>5, <2>6, <2>7, <2>8 DEF WriteSteps
<1>5. ASSUME NEW half \in {"meta", "secret"}, SettleRemoval(half)
      PROVE  /\ keys.secret = NoPair => keys'.secret = NoPair
             /\ keys'.status = "confirmed" => keys.status = "confirmed" /\ keys'.meta = keys.meta
  <2>1. keys' = keys \/ keys' = Removed(keys, Head(todo), half)
    BY <1>5 DEF SettleRemoval
  <2>2. Head(todo) \in DropSteps
    BY <1>5, SettleTakesDrops
  <2>3. Removed(keys, Head(todo), half) \in
          {NoPendingMeta(keys), NoPendingSecret(keys), NoMeta(keys), NoSecret(keys)}
    BY <2>2 DEF Removed, DropSteps
  <2>4. keys' = NoPendingMeta(keys) \/ keys' = NoPendingSecret(keys) =>
          keys'.secret = keys.secret /\ keys'.status = keys.status /\ keys'.meta = keys.meta
    BY <1>1 DEF NoPendingMeta, NoPendingSecret, WellFormed, Store
  <2>5. keys' = NoMeta(keys) => keys'.secret = keys.secret /\ keys'.status = "none"
    BY <1>1 DEF NoMeta, WellFormed, Store
  <2>6. keys' = NoSecret(keys) =>
          keys'.secret = NoPair /\ keys'.status = keys.status /\ keys'.meta = keys.meta
    BY <1>1 DEF NoSecret, WellFormed, Store
  <2> QED
    BY <2>1, <2>3, <2>4, <2>5, <2>6
<1>6. CASE ~Write /\ ~\E half \in {"meta", "secret"} : SettleRemoval(half)
  <2>1. keys' = keys
    BY <1>6 DEF Step, MethodStep, Begin, IssueRemovals, Examine, Return, Die, BeginLoad, LoadMeta,
                LoadSecret, EndLoad
  <2> QED
    BY <1>3, <2>1
<1> QED
  BY <1>2, <1>4, <1>5, <1>6
\* Confirmed metadata beside a durable secret is trust.
LEMMA TrustIs ==
  ASSUME NEW s, WellFormed(s), s.status = "confirmed", s.secret # NoPair
  PROVE  s.meta \in Pair /\ Trusts(s, s.meta)
  BY DEF WellFormed, Store, PairOrNone, Trusts, LoadResult, HasDurableMaterial

\* A step of a method under a load: what the load has seen stays true.
LEMMA SeenUnderMethod ==
  ASSUME LoadInv, Step, Watch, UNCHANGED read, read.active
  PROVE  SeenTrust'
<1> USE DEF LoadInv, SeenTrust
<1>1. WellFormed(keys) /\ WellFormed(keys') /\ AtomicInv /\ StagedOnNothing
  BY StepAtomic DEF AtomicInv, RepositoryTypeOK
<1>2. trusted \subseteq trusted' /\ \A a \in Pair : Trusts(keys, a) \/ Trusts(keys', a) => a \in trusted'
  BY DEF Watch
<1>3. ASSUME read.meta \in Pair, NoSecretComes PROVE NoSecretComes'
  <2>1. read.meta # Unread
    BY <1>3, UnreadAssumption DEF PairOrNone
  <2>2. keys'.secret = NoPair
    BY <1>1, <1>3, MethodTouches DEF NoSecretComes
  <2>3. CASE \E m \in Methods : \E a : Begin(m, a)
    <3>1. PICK m \in Methods : \E a : Begin(m, a)
      BY <2>3
    <3>2. op = "idle" /\ op' = m /\ m # "stage" /\ (m = "installCommitted" => last = "stage") /\ m # "idle"
      BY <2>1, <3>1 DEF Begin, Methods
    <3> QED
      BY <1>3, <2>2, <3>2 DEF NoSecretComes
  <2>4. CASE Return
    <3>1. op' = "idle" /\ last' = (IF failed THEN "none" ELSE op)
      BY <2>4 DEF Return
    <3> QED
      BY <1>3, <2>2, <3>1 DEF NoSecretComes
  <2>5. CASE Die
    BY <2>1, <2>5 DEF Die, NoRead
  <2>6. CASE Examine
    <3>1. op = "discardIncomplete" /\ op' = op
      BY <1>1, <2>6, ExamineDiscards DEF Examine
    <3> QED
      BY <2>2, <3>1 DEF NoSecretComes
  <2>7. CASE Write \/ IssueRemovals \/ \E half \in {"meta", "secret"} : SettleRemoval(half)
    <3>1. op' = op /\ last' = last /\ (failed => failed')
      BY <2>7 DEF Write, IssueRemovals, SettleRemoval, Advance
    <3> QED
      BY <1>3, <2>2, <3>1 DEF NoSecretComes
  <2>8. CASE BeginLoad \/ LoadMeta \/ LoadSecret \/ EndLoad
    <3>1. UNCHANGED <<keys, last, op, failed>>
      BY <2>8 DEF BeginLoad, LoadMeta, LoadSecret, EndLoad
    <3> QED
      BY <1>3, <3>1 DEF NoSecretComes
  <2> QED
    BY <2>3, <2>4, <2>5, <2>6, <2>7, <2>8 DEF Step, MethodStep, Methods
<1>4. ASSUME read.secret \in Pair, read.meta = Unread, keys'.status = "confirmed", keys'.secret = NoPair
      PROVE  keys'.meta \in trusted'
  <2>1. keys.status = "confirmed" /\ keys'.meta = keys.meta
    BY <1>1, <1>4, MethodTouches
  <2>2. CASE keys.secret = NoPair
    BY <1>2, <1>4, <2>1, <2>2
  <2>3. CASE keys.secret # NoPair
    BY <1>1, <1>2, <2>1, <2>3, TrustIs
  <2> QED
    BY <2>2, <2>3
<1>5. ASSUME read.meta \in Pair, read.status = "confirmed"
      PROVE  read.meta \in trusted' \/ (read.secret = Unread /\ NoSecretComes') \/ read.secret = NoPair
  BY <1>2, <1>3, <1>5
<1> QED
  BY <1>4, <1>5

\* A load begins, reads a key, ends, or dies with its process.
LEMMA SeenByLoad ==
  ASSUME LoadInv, Watch, BeginLoad \/ LoadMeta \/ LoadSecret \/ EndLoad \/ Die
  PROVE  SeenTrust'
<1> USE DEF LoadInv, SeenTrust
<1>1. WellFormed(keys) /\ AtomicInv /\ StagedOnNothing /\ Unread \notin Pair /\ keys' = keys /\ Unread # NoPair
  BY UnreadAssumption DEF AtomicInv, RepositoryTypeOK, PairOrNone, BeginLoad, LoadMeta, LoadSecret, EndLoad, Die
<1>2. ASSUME read'.meta = Unread, read'.secret = Unread PROVE SeenTrust'
  BY <1>1, <1>2
<1>3. NoRead.meta = Unread /\ NoRead.secret = Unread /\ [NoRead EXCEPT !.active = TRUE].meta = Unread
      /\ [NoRead EXCEPT !.active = TRUE].secret = Unread
  BY DEF NoRead
<1>4. CASE BeginLoad \/ EndLoad \/ Die
  BY <1>2, <1>3, <1>4 DEF BeginLoad, EndLoad, Die
<1>5. read \in [active : BOOLEAN, meta : PairOrNone \cup {Unread},
                status : {"none", "committed", "confirmed"}, secret : PairOrNone \cup {Unread}]
  BY <1>1 DEF AtomicInv, RepositoryTypeOK
<1>6. CASE LoadMeta
  <2>1. /\ read.active /\ read.meta = Unread /\ read'.active /\ read'.meta = keys.meta
        /\ read'.status = keys.status /\ read'.secret = read.secret
        /\ UNCHANGED <<keys, last, op, start, failed>>
    BY <1>5, <1>6 DEF LoadMeta
  <2>2. trusted \subseteq trusted' /\ \A a \in Pair : Trusts(keys, a) => a \in trusted'
    BY <2>1 DEF Watch
  <2>3. read'.meta # Unread
    BY <1>1, <2>1, UnreadAssumption DEF WellFormed, Store
  <2>4. ASSUME keys.meta \in Pair, keys.status = "confirmed", keys.secret = NoPair
        PROVE  NoSecretComes'
    <3>1. HasDurableMaterial(keys)
      BY <2>4, PairAssumption DEF HasDurableMaterial
    <3>2. op = "idle" => last # "stage"
      BY <1>1, <3>1 DEF StagedOnNothing
    <3>3. op = "stage" => failed
      BY <1>1, <3>1, StagesOnNothing
    <3>4. op = "installCommitted" => failed
      <4>1. SUFFICES ASSUME op = "installCommitted", ~failed PROVE FALSE
        OBVIOUS
      <4>2. keys \in InstallWrites(start)
        BY <1>1, <4>1, AtomicImplies DEF MethodsAreAtomic, MidwayStores
      <4>3. WellFormed(start) /\ start.status = "none"
        BY <1>1, <4>1 DEF StagedOnNothing, HasDurableMaterial, AtomicInv, RepositoryTypeOK, WellFormed
      <4>4. keys = start \/ keys = [start EXCEPT !.secret = start.pendingSecret]
            \/ keys \in PartlyNoPending(Committed(start))
        BY <4>2 DEF InstallWrites
      <4>5. Committed(start).status = "committed" /\ Committed(start) \in Store
        BY <4>3 DEF Committed, WellFormed, Store
      <4>6. keys \in PartlyNoPending(Committed(start)) => keys.status = "committed"
        BY <4>5 DEF PartlyNoPending, NoPending, NoPendingMeta, NoPendingSecret, Store
      <4> QED
        BY <2>4, <4>3, <4>4, <4>6 DEF WellFormed, Store
    <3> QED
      BY <2>1, <2>4, <3>2, <3>3, <3>4 DEF NoSecretComes
  <2>5. ASSUME keys.meta \in Pair, keys.status = "confirmed"
        PROVE  keys.meta \in trusted' \/ (read.secret = Unread /\ NoSecretComes') \/ read.secret = NoPair
    <3>1. CASE keys.secret # NoPair
      BY <1>1, <2>2, <2>5, <3>1, TrustIs
    <3>2. CASE keys.secret = NoPair /\ read.secret \in Pair
      BY <2>1, <2>2, <2>5, <3>2
    <3>3. CASE keys.secret = NoPair /\ read.secret \notin Pair
      <4>1. read.secret = Unread \/ read.secret = NoPair
        BY <1>5, <3>3 DEF PairOrNone
      <4> QED
        BY <2>4, <2>5, <3>3, <4>1
    <3> QED
      BY <3>1, <3>2, <3>3
  <2> QED
    BY <2>1, <2>3, <2>5
<1>7. CASE LoadSecret
  <2>1. /\ read.active /\ read.secret = Unread /\ read'.active /\ read'.meta = read.meta
        /\ read'.status = read.status /\ read'.secret = keys.secret
    BY <1>5, <1>7 DEF LoadSecret
  <2>2. trusted \subseteq trusted'
    BY <2>1 DEF Watch
  <2>3. read.meta \in Pair /\ read.status = "confirmed" => read.meta \in trusted' \/ keys.secret = NoPair
    BY <1>1, <2>1, <2>2 DEF NoSecretComes
  <2>4. ~(read'.secret \in Pair /\ keys'.secret = NoPair)
    BY <1>1, <2>1, PairAssumption
  <2> QED
    BY <2>1, <2>3, <2>4
<1> QED
  BY <1>4, <1>6, <1>7

LEMMA LoadAlways == Spec => []LoadInv
<1>1. Init => LoadInv
  <2> SUFFICES ASSUME Init PROVE LoadInv
    OBVIOUS
  <2>1. AtomicInv
    BY AtomicInit
  <2>2. StagedOnNothing
    BY DEF Init, StagedOnNothing
  <2>3. read.meta = Unread /\ read.secret = Unread /\ Unread \notin Pair
    BY UnreadAssumption DEF Init, NoRead, PairOrNone
  <2> QED
    BY <2>1, <2>2, <2>3 DEF LoadInv, SeenTrust
<1>2. LoadInv /\ UNCHANGED vars => LoadInv'
  <2> SUFFICES ASSUME LoadInv, UNCHANGED vars PROVE LoadInv'
    OBVIOUS
  <2>1. AtomicInv'
    BY AtomicStutter DEF LoadInv
  <2> QED
    BY <2>1 DEF LoadInv, StagedOnNothing, SeenTrust, NoSecretComes, vars
<1>3. LoadInv /\ Next => LoadInv'
  <2> SUFFICES ASSUME LoadInv, Next PROVE LoadInv'
    OBVIOUS
  <2>1. AtomicInv' /\ StagedOnNothing'
    BY StepAtomic, StagedStep DEF LoadInv, Next
  <2>2. CASE BeginLoad \/ LoadMeta \/ LoadSecret \/ EndLoad \/ Die
    BY <2>1, <2>2, SeenByLoad DEF LoadInv, Next
  <2>3. CASE ~(BeginLoad \/ LoadMeta \/ LoadSecret \/ EndLoad \/ Die)
    <3>1. UNCHANGED read
      BY <2>3 DEF Next, Step, MethodStep, Begin, Write, IssueRemovals, Examine, Return, SettleRemoval
    <3>2. CASE read.active
      BY <2>1, <3>1, <3>2, SeenUnderMethod DEF LoadInv, Next
    <3>3. CASE ~read.active
      <4>1. read'.meta = Unread /\ read'.secret = Unread /\ Unread \notin Pair
        BY <3>1, <3>3, UnreadAssumption DEF LoadInv, SeenTrust, PairOrNone
      <4> QED
        BY <2>1, <4>1 DEF LoadInv, SeenTrust
    <3> QED
      BY <3>2, <3>3
  <2> QED
    BY <2>2, <2>3
<1> QED
  BY <1>1, <1>2, <1>3, PTL DEF Spec

\* Two reads of a changing store never add up to trust that never was, for any
\* pairs, interleaving, fault and process death (loadConfirmed).
THEOREM LoadsSeeOnlyRealTrust == Spec => []LoadsSeeRealTrust
<1>1. LoadInv => LoadsSeeRealTrust
  BY PairAssumption, UnreadAssumption DEF LoadInv, SeenTrust, LoadsSeeRealTrust, LoadedPair, PairOrNone
<1> QED
  BY <1>1, LoadAlways, PTL
=============================================================================
