------------------------- MODULE FinalizationProofs -------------------------
(***************************************************************************)
(* Proofs about how the two phones of an attempt finalize a pair: which    *)
(* frame can be next, what is in their trust stores when it is, and that   *)
(* pairing implements TrustAgreement.                                      *)
(*                                                                         *)
(* The two phones take turns.  While their socket carries data, their      *)
(* phases, their stores and the frames on the way are one of few           *)
(* combinations (Joint).  Once it does not, each phone still handles the   *)
(* frames it has, so what they say of the other phone is kept separately   *)
(* (Script for the phone itself, Order and Pledges for the pair of them).  *)
(***************************************************************************)
EXTENDS PairingProofs, SequenceTheorems

-----------------------------------------------------------------------------
\* The durable and the pending half of a store.
Blank(s) == LoadResult(s) = "none"
IsStaged(s, a) == s.pendingMeta = a /\ s.pendingSecret = a /\ ~HasDurableMaterial(s)
IsInstalled(s, a, status) ==
  /\ s.meta = a /\ s.secret = a /\ s.status = status
  /\ s.pendingMeta = NoPair /\ s.pendingSecret = NoPair

StoreFits(s) ==
  /\ s.status = "none" <=> s.meta = NoPair
  /\ s.meta # NoPair /\ s.secret # NoPair => s.meta = s.secret

\* Frames on their way, and the last word of a phone that ended its attempt.
LastWord == {"PAIR_CANCEL", "PAIR_ERROR"}
Said0(x) == x = <<>> \/ \E w \in LastWord : x = <<w>>
Said1(x, m) == x = <<m>> \/ \E w \in LastWord : x = <<m, w>>
Said2(x, m, n) == x = <<m, n>> \/ \E w \in LastWord : x = <<m, n, w>>

\* How far an attempt with the store s has come.
Came(w, at, s) ==
  \/ w \in Phase \ {"finalizing"} /\ at.phase = w /\ Blank(s) /\ ~at.converged
  \/ w = "finalizing" /\ at.phase = w /\ Blank(s) /\ ~at.converged
  \/ w = "staged" /\ at.phase = "finalizing" /\ IsStaged(s, at.id) /\ ~at.converged
  \/ w = "committed" /\ at.phase = "finalizing" /\ IsInstalled(s, at.id, w) /\ ~at.converged
  \/ w = "confirmed" /\ at.phase = "finalizing" /\ IsInstalled(s, at.id, w)
       /\ (at.converged <=> at.role = "creator")

CreatorScript(at, s, x) ==
  \/ /\ Came("waiting_remote_identity", at, s)
     /\ \/ Said1(x, "PAIR_HELLO") \/ Said0(x) \/ Said1(x, "PAIR_IDENTITY")
        \/ Said2(x, "PAIR_IDENTITY", "PAIR_CONFIRM")
  \/ Came("waiting_scanner_confirmation", at, s) /\ (Said0(x) \/ Said1(x, "PAIR_CONFIRM"))
  \/ Came("creator_can_confirm", at, s) /\ Said0(x)
  \/ Came("staged", at, s) /\ (Said0(x) \/ Said1(x, "scanner_staged") \/ Said1(x, "scanner_committed"))
  \/ Came("committed", at, s) /\ (Said0(x) \/ Said1(x, "scanner_confirmed"))
  \/ Came("confirmed", at, s) /\ (Said0(x) \/ x = <<"converged">>)

ScannerScript(at, s, x) ==
  \/ Came("waiting_remote_identity", at, s) /\ (Said0(x) \/ Said1(x, "PAIR_IDENTITY"))
  \/ Came("scanner_can_confirm", at, s) /\ Said0(x)
  \/ Came("waiting_creator_confirmation", at, s) /\ (Said0(x) \/ Said2(x, "PAIR_CONFIRM", "PAIR_COMMIT"))
  \/ Came("finalizing", at, s) /\ Said1(x, "PAIR_COMMIT")
  \/ Came("staged", at, s) /\ (Said0(x) \/ Said1(x, "creator_ready"))
  \/ Came("committed", at, s) /\ (Said0(x) \/ Said1(x, "creator_committed"))
  \/ Came("confirmed", at, s) /\ (Said0(x) \/ Said1(x, "creator_confirmed"))

\* A phone, its store and its inbox.
Script(at, s, x, sk) ==
  \/ at = NoAttempt
  \/ /\ ~at.linked /\ at.role = "creator" /\ Came("waiting_remote_identity", at, s)
     /\ sk = at.id => Said2(x, "connected", "PAIR_HELLO")
  \/ at.linked /\ at.role = "creator" /\ CreatorScript(at, s, x)
  \/ at.linked /\ at.role = "scanner" /\ ScannerScript(at, s, x)

\* The two phones of an attempt whose socket carries data.
Turns(ac, sc, xc, aj, sj, xj) ==
  LET At(w, x, v, y) == Came(w, ac, sc) /\ xc = x /\ Came(v, aj, sj) /\ xj = y IN
  \/ At("waiting_remote_identity", <<"PAIR_HELLO">>, "waiting_remote_identity", <<>>)
  \/ At("waiting_remote_identity", <<>>, "waiting_remote_identity", <<"PAIR_IDENTITY">>)
  \/ At("waiting_remote_identity", <<"PAIR_IDENTITY">>, "scanner_can_confirm", <<>>)
  \/ At("waiting_remote_identity", <<"PAIR_IDENTITY", "PAIR_CONFIRM">>, "waiting_creator_confirmation", <<>>)
  \/ At("waiting_scanner_confirmation", <<>>, "scanner_can_confirm", <<>>)
  \/ At("waiting_scanner_confirmation", <<"PAIR_CONFIRM">>, "waiting_creator_confirmation", <<>>)
  \/ At("creator_can_confirm", <<>>, "waiting_creator_confirmation", <<>>)
  \/ At("staged", <<>>, "waiting_creator_confirmation", <<"PAIR_CONFIRM", "PAIR_COMMIT">>)
  \/ At("staged", <<>>, "finalizing", <<"PAIR_COMMIT">>)
  \/ At("staged", <<"scanner_staged">>, "staged", <<>>)
  \/ At("staged", <<>>, "staged", <<"creator_ready">>)
  \/ At("staged", <<"scanner_committed">>, "committed", <<>>)
  \/ At("committed", <<>>, "committed", <<"creator_committed">>)
  \/ At("committed", <<"scanner_confirmed">>, "confirmed", <<>>)
  \/ At("confirmed", <<>>, "confirmed", <<"creator_confirmed">>)

JointAt(a, ac, sc, xc, aj, sj, xj) ==
  /\ aj.id = a /\ aj.linked
  /\ \/ ac.id = a /\ ac.linked /\ Turns(ac, sc, xc, aj, sj, xj)
     \/ /\ ac.id = a => ~ac.linked
        /\ xc = <<"connected", "PAIR_HELLO">> /\ xj = <<>> /\ Came("waiting_remote_identity", aj, sj)

Joint ==
  \A a \in up : JointAt(a, attempt[owner[a]], store[owner[a]], inbox[owner[a]],
                        attempt[joiner[a]], store[joiner[a]], inbox[joiner[a]])

\* The screen shows an attempt iff there is one, and otherwise the trust.
AttemptKinds == {"creator_qr", "waiting_partner", "confirm_partner", "finalizing"}
Screen(at, s, kind) ==
  /\ kind \in AttemptKinds <=> at.id # NoPair
  /\ kind = "paired" => LoadResult(s) = "confirmed"
  /\ kind = "unpaired" => s = EmptyStore

Phones ==
  \A p \in Phone : /\ StoreFits(store[p])
                   /\ Script(attempt[p], store[p], inbox[p], sock[p])
                   /\ Screen(attempt[p], store[p], ui[p])

\* A frame of the socket of a that waits at p.
Waits(m, a, p) == sock[p] = a /\ m \in {inbox[p][i] : i \in DOMAIN inbox[p]}

\* What a phone trusts, or is told of the other phone's trust, is so.
Order ==
  \A a \in Pair :
    owner[a] \in Phone /\ joiner[a] \in Phone =>
      /\ attempt[owner[a]].id = a /\ (Trusts(store[joiner[a]], a) \/ Waits("creator_committed", a, joiner[a]))
           => store[owner[a]].meta = a /\ store[owner[a]].secret = a
      /\ attempt[joiner[a]].id = a /\ (Trusts(store[owner[a]], a) \/ Waits("scanner_confirmed", a, owner[a]))
           => Trusts(store[joiner[a]], a)

\* Who has pledged by then.
Pledges ==
  /\ \A p \in Phone :
       attempt[p].id # NoPair /\ store[p].meta = attempt[p].id =>
         /\ p \in pledged[attempt[p].id]
         /\ attempt[p].role = "creator" => joiner[attempt[p].id] \in pledged[attempt[p].id]
  /\ \A a \in Pair :
       owner[a] \in Phone /\ joiner[a] \in Phone =>
         /\ Waits("scanner_committed", a, owner[a]) => joiner[a] \in pledged[a]
         /\ Waits("creator_committed", a, joiner[a]) => {owner[a], joiner[a]} \subseteq pledged[a]

\* A PAIR_CANCEL on its way was sent by a user's cancel.
Cancels == \A a \in Pair, p \in Phone : Waits("PAIR_CANCEL", a, p) => a \in cancelled

FinalInv == Phones /\ Joint /\ Order /\ Pledges /\ Cancels
-----------------------------------------------------------------------------
(***************************************************************************)
(* Values: frames, scripts and turns.                                      *)
(***************************************************************************)

\* A concatenation, read off its elements.
LEMMA ConcatIs ==
  ASSUME NEW S, NEW x \in Seq(S), NEW y \in Seq(S), NEW z \in Seq(S), Len(z) = Len(x) + Len(y),
         \A i \in 1 .. Len(z) : z[i] = IF i <= Len(x) THEN x[i] ELSE y[i - Len(x)]
  PROVE  x \o y = z
<1>1. /\ x \o y \in Seq(S) /\ Len(x \o y) = Len(x) + Len(y)
      /\ \A i \in 1 .. Len(x) + Len(y) : (x \o y)[i] = IF i <= Len(x) THEN x[i] ELSE y[i - Len(x)]
  BY ConcatProperties
<1>2. \A i \in 1 .. Len(z) : (x \o y)[i] = z[i]
  BY <1>1
<1> QED
  BY <1>1, <1>2, SeqEqual

\* Two and three frames, put together.
LEMMA TwoOne ==
  ASSUME NEW m, NEW n, NEW w
  PROVE  <<m>> \o <<n>> = <<m, n>> /\ <<m, n>> \o <<w>> = <<m, n, w>>
<1> DEFINE S == {m, n, w}
<1>2. <<m>> \in Seq(S) /\ <<n>> \in Seq(S) /\ <<w>> \in Seq(S) /\ <<m, n>> \in Seq(S) /\ <<m, n, w>> \in Seq(S)
  OBVIOUS
<1>3. <<m>> \o <<n>> = <<m, n>>
  <2> DEFINE x == <<m>>
             y == <<n>>
             z == <<m, n>>
  <2>1. \A i \in 1 .. 2 : z[i] = IF i <= 1 THEN x[i] ELSE y[i - 1]
    OBVIOUS
  <2>2. Len(x) = 1 /\ Len(y) = 1 /\ Len(z) = 2
    OBVIOUS
  <2>3. x \in Seq(S) /\ y \in Seq(S) /\ z \in Seq(S)
    BY <1>2
  <2> HIDE DEF S, x, y, z
  <2>4. \A i \in 1 .. Len(z) : z[i] = IF i <= Len(x) THEN x[i] ELSE y[i - Len(x)]
    BY <2>1, <2>2
  <2>5. Len(z) = Len(x) + Len(y)
    BY <2>2
  <2>6. x \o y = z
    BY ConcatIs, <2>3, <2>4, <2>5, Zenon
  <2> QED
    BY <2>6 DEF x, y, z
<1>4. <<m, n>> \o <<w>> = <<m, n, w>>
  <2> DEFINE x == <<m, n>>
             y == <<w>>
             z == <<m, n, w>>
  <2>1. \A i \in 1 .. 3 : z[i] = IF i <= 2 THEN x[i] ELSE y[i - 2]
    OBVIOUS
  <2>2. Len(x) = 2 /\ Len(y) = 1 /\ Len(z) = 3
    OBVIOUS
  <2>3. x \in Seq(S) /\ y \in Seq(S) /\ z \in Seq(S)
    BY <1>2
  <2> HIDE DEF S, x, y, z
  <2>4. \A i \in 1 .. Len(z) : z[i] = IF i <= Len(x) THEN x[i] ELSE y[i - Len(x)]
    BY <2>1, <2>2
  <2>5. Len(z) = Len(x) + Len(y)
    BY <2>2
  <2>6. x \o y = z
    BY ConcatIs, <2>3, <2>4, <2>5, Zenon
  <2> QED
    BY <2>6 DEF x, y, z
<1> QED
  BY <1>3, <1>4

\* Inboxes of one, two and three frames.
LEMMA Literals ==
  ASSUME NEW m, NEW n, NEW w
  PROVE  /\ <<m>> # <<>> /\ Head(<<m>>) = m /\ Tail(<<m>>) = <<>>
         /\ <<m, n>> # <<>> /\ Head(<<m, n>>) = m /\ Tail(<<m, n>>) = <<n>>
         /\ <<m, n, w>> # <<>> /\ Head(<<m, n, w>>) = m /\ Tail(<<m, n, w>>) = <<n, w>>
         /\ <<>> \o <<m>> = <<m>> /\ <<>> \o <<m, n>> = <<m, n>> /\ <<>> \o <<>> = <<>>
         /\ <<m>> \o <<>> = <<m>> /\ <<m, n>> \o <<>> = <<m, n>>
         /\ <<m>> \o <<n>> = <<m, n>> /\ <<m, n>> \o <<w>> = <<m, n, w>>
<1>1. <<m>> \o <<n>> = <<m, n>> /\ <<m, n>> \o <<w>> = <<m, n, w>>
  BY TwoOne
<1>2. /\ <<m>> # <<>> /\ Head(<<m>>) = m /\ Tail(<<m>>) = <<>>
      /\ <<m, n>> # <<>> /\ Head(<<m, n>>) = m /\ Tail(<<m, n>>) = <<n>>
      /\ <<m, n, w>> # <<>> /\ Head(<<m, n, w>>) = m /\ Tail(<<m, n, w>>) = <<n, w>>
  OBVIOUS
<1>3. /\ <<>> \o <<m>> = <<m>> /\ <<>> \o <<m, n>> = <<m, n>> /\ <<>> \o <<>> = <<>>
      /\ <<m>> \o <<>> = <<m>> /\ <<m, n>> \o <<>> = <<m, n>>
  OBVIOUS
<1> QED
  BY <1>1, <1>2, <1>3

\* What is left when the next frame is taken.
LEMMA SaidRest ==
  ASSUME NEW x, NEW m, NEW n
  PROVE  /\ Said0(x) /\ x # <<>> => Head(x) \in LastWord /\ Tail(x) = <<>>
         /\ Said1(x, m) => x # <<>> /\ Head(x) = m /\ Said0(Tail(x))
         /\ Said2(x, m, n) => x # <<>> /\ Head(x) = m /\ Said1(Tail(x), n)
<1>1. ASSUME Said0(x), x # <<>> PROVE Head(x) \in LastWord /\ Tail(x) = <<>>
  <2>1. PICK w \in LastWord : x = <<w>>
    BY <1>1 DEF Said0
  <2> QED
    BY <2>1, Literals
<1>2. ASSUME Said1(x, m) PROVE x # <<>> /\ Head(x) = m /\ Said0(Tail(x))
  <2>1. CASE x = <<m>>
    BY <2>1, Literals DEF Said0
  <2>2. ASSUME NEW w \in LastWord, x = <<m, w>>
        PROVE  x # <<>> /\ Head(x) = m /\ Said0(Tail(x))
    <3>1. Tail(x) = <<w>>
      BY <2>2, Literals
    <3> QED
      BY <2>2, <3>1, Literals DEF Said0
  <2> QED
    BY <1>2, <2>1, <2>2 DEF Said1
<1>3. ASSUME Said2(x, m, n) PROVE x # <<>> /\ Head(x) = m /\ Said1(Tail(x), n)
  <2>1. CASE x = <<m, n>>
    BY <2>1, Literals DEF Said1
  <2>2. ASSUME NEW w \in LastWord, x = <<m, n, w>>
        PROVE  x # <<>> /\ Head(x) = m /\ Said1(Tail(x), n)
    BY <2>2, Literals DEF Said1
  <2> QED
    BY <1>3, <2>1, <2>2 DEF Said2
<1> QED
  BY <1>1, <1>2, <1>3

\* The last word of the other phone, or nothing, after what it said before.
LEMMA SaidMore ==
  ASSUME NEW m, NEW n, NEW out \in {<<>>} \cup {<<w>> : w \in LastWord}
  PROVE  /\ Said0(<<>> \o out)
         /\ Said1(<<m>> \o out, m)
         /\ Said2(<<m, n>> \o out, m, n)
<1>1. CASE out = <<>>
  BY <1>1, Literals DEF Said0, Said1, Said2
<1>2. ASSUME NEW w \in LastWord, out = <<w>>
      PROVE  Said0(<<>> \o out) /\ Said1(<<m>> \o out, m) /\ Said2(<<m, n>> \o out, m, n)
  <2>1. <<>> \o <<w>> = <<w>> /\ <<m>> \o <<w>> = <<m, w>> /\ <<m, n>> \o <<w>> = <<m, n, w>>
    <3>1. <<>> \o <<w>> = <<w>>
      BY Literals
    <3> QED
      BY <3>1, TwoOne
  <2>2. <<>> \o out = <<w>> /\ <<m>> \o out = <<m, w>> /\ <<m, n>> \o out = <<m, n, w>>
    BY <1>2, <2>1
  <2> QED
    BY <2>2 DEF Said0, Said1, Said2
<1> QED
  BY <1>1, <1>2

\* What a creator can hear next, where it is then, and what may follow.
LEMMA CreatorHears ==
  ASSUME NEW at, NEW s, NEW x, CreatorScript(at, s, x), x # <<>>
  PROVE  \/ Head(x) \in LastWord
         \/ Head(x) = "PAIR_HELLO" /\ Came("waiting_remote_identity", at, s) /\ Said0(Tail(x))
         \/ Head(x) = "PAIR_IDENTITY" /\ Came("waiting_remote_identity", at, s)
              /\ (Said0(Tail(x)) \/ Said1(Tail(x), "PAIR_CONFIRM"))
         \/ Head(x) = "PAIR_CONFIRM" /\ Came("waiting_scanner_confirmation", at, s) /\ Said0(Tail(x))
         \/ Head(x) = "scanner_staged" /\ Came("staged", at, s) /\ Said0(Tail(x))
         \/ Head(x) = "scanner_committed" /\ Came("staged", at, s) /\ Said0(Tail(x))
         \/ Head(x) = "scanner_confirmed" /\ Came("committed", at, s) /\ Said0(Tail(x))
         \/ Head(x) = "converged" /\ Came("confirmed", at, s) /\ Said0(Tail(x))
<1>1. Said0(x) => Head(x) \in LastWord
  BY SaidRest
<1>2. \A m : Said1(x, m) => Head(x) = m /\ Said0(Tail(x))
  BY SaidRest
<1>3. \A m, n : Said2(x, m, n) => Head(x) = m /\ Said1(Tail(x), n)
  BY SaidRest
<1>4. x = <<"converged">> => Head(x) = "converged" /\ Said0(Tail(x))
  BY Literals DEF Said0
<1>5. CASE Came("waiting_remote_identity", at, s)
           /\ \/ Said1(x, "PAIR_HELLO") \/ Said0(x) \/ Said1(x, "PAIR_IDENTITY")
              \/ Said2(x, "PAIR_IDENTITY", "PAIR_CONFIRM")
  <2>1. CASE Said1(x, "PAIR_HELLO")
    BY <1>2, <1>5, <2>1
  <2>2. CASE Said0(x)
    BY <1>1, <2>2
  <2>3. CASE Said1(x, "PAIR_IDENTITY")
    BY <1>2, <1>5, <2>3
  <2>4. CASE Said2(x, "PAIR_IDENTITY", "PAIR_CONFIRM")
    BY <1>3, <1>5, <2>4
  <2> QED
    BY <1>5, <2>1, <2>2, <2>3, <2>4
<1>6. CASE Came("waiting_scanner_confirmation", at, s) /\ (Said0(x) \/ Said1(x, "PAIR_CONFIRM"))
  BY <1>1, <1>2, <1>6
<1>7. CASE Came("creator_can_confirm", at, s) /\ Said0(x)
  BY <1>1, <1>7
<1>8. CASE Came("staged", at, s)
           /\ (Said0(x) \/ Said1(x, "scanner_staged") \/ Said1(x, "scanner_committed"))
  BY <1>1, <1>2, <1>8
<1>9. CASE Came("committed", at, s) /\ (Said0(x) \/ Said1(x, "scanner_confirmed"))
  BY <1>1, <1>2, <1>9
<1>10. CASE Came("confirmed", at, s) /\ (Said0(x) \/ x = <<"converged">>)
  BY <1>1, <1>4, <1>10
<1> QED
  BY <1>5, <1>6, <1>7, <1>8, <1>9, <1>10 DEF CreatorScript

\* What a scanner can hear next, where it is then, and what may follow.
LEMMA ScannerHears ==
  ASSUME NEW at, NEW s, NEW x, ScannerScript(at, s, x), x # <<>>
  PROVE  \/ Head(x) \in LastWord
         \/ Head(x) = "PAIR_IDENTITY" /\ Came("waiting_remote_identity", at, s) /\ Said0(Tail(x))
         \/ Head(x) = "PAIR_CONFIRM" /\ Came("waiting_creator_confirmation", at, s)
              /\ Said1(Tail(x), "PAIR_COMMIT")
         \/ Head(x) = "PAIR_COMMIT" /\ Came("finalizing", at, s) /\ Said0(Tail(x))
         \/ Head(x) = "creator_ready" /\ Came("staged", at, s) /\ Said0(Tail(x))
         \/ Head(x) = "creator_committed" /\ Came("committed", at, s) /\ Said0(Tail(x))
         \/ Head(x) = "creator_confirmed" /\ Came("confirmed", at, s) /\ Said0(Tail(x))
<1>1. Said0(x) => Head(x) \in LastWord
  BY SaidRest
<1>2. \A m : Said1(x, m) => Head(x) = m /\ Said0(Tail(x))
  BY SaidRest
<1>3. \A m, n : Said2(x, m, n) => Head(x) = m /\ Said1(Tail(x), n)
  BY SaidRest
<1> QED
  BY <1>1, <1>2, <1>3 DEF ScannerScript

\* The two phones of a turn follow their scripts, also when one of them ends
\* its attempt and says so.
LEMMA TurnsFollow ==
  ASSUME NEW ac, NEW sc, NEW xc, NEW aj, NEW sj, NEW xj, Turns(ac, sc, xc, aj, sj, xj),
         NEW out \in {<<>>} \cup {<<w>> : w \in LastWord}
  PROVE  CreatorScript(ac, sc, xc \o out) /\ ScannerScript(aj, sj, xj \o out)
<1>1. /\ Said0(<<>> \o out)
      /\ \A m : Said1(<<m>> \o out, m)
      /\ \A m, n : Said2(<<m, n>> \o out, m, n)
  BY SaidMore
<1>2. CreatorScript(ac, sc, xc \o out)
  BY <1>1 DEF Turns, CreatorScript
<1>3. ScannerScript(aj, sj, xj \o out)
  BY <1>1 DEF Turns, ScannerScript
<1> QED
  BY <1>2, <1>3

\* The same when nothing is said.
LEMMA TurnsScripts ==
  ASSUME NEW ac, NEW sc, NEW xc, NEW aj, NEW sj, NEW xj, Turns(ac, sc, xc, aj, sj, xj)
  PROVE  CreatorScript(ac, sc, xc) /\ ScannerScript(aj, sj, xj)
<1>1. /\ Said0(<<>>)
      /\ \A m : Said1(<<m>>, m)
      /\ \A m, n : Said2(<<m, n>>, m, n)
  BY DEF Said0, Said1, Said2
<1>2. CreatorScript(ac, sc, xc)
  BY <1>1 DEF Turns, CreatorScript
<1>3. ScannerScript(aj, sj, xj)
  BY <1>1 DEF Turns, ScannerScript
<1> QED
  BY <1>2, <1>3

\* Only the creator of a turn in which both are confirmed is told of it.
LEMMA TurnsConverge ==
  ASSUME NEW ac, NEW sc, NEW xc, NEW aj, NEW sj, NEW xj, Turns(ac, sc, xc, aj, sj, xj),
         xj # <<>>, Head(xj) = "creator_confirmed"
  PROVE  CreatorScript(ac, sc, xc \o <<"converged">>)
<1>1. Came("confirmed", ac, sc) /\ xc = <<>>
  BY Literals DEF Turns
<1>2. xc \o <<"converged">> = <<"converged">>
  BY <1>1, Literals
<1> QED
  BY <1>1, <1>2 DEF CreatorScript

\* The turns in which the creator has a frame to handle.
LEMMA CreatorsTurn ==
  ASSUME NEW ac, NEW sc, NEW xc, NEW aj, NEW sj, NEW xj, Turns(ac, sc, xc, aj, sj, xj), xc # <<>>
  PROVE  \/ Head(xc) = "PAIR_HELLO" /\ Came("waiting_remote_identity", ac, sc) /\ xc = <<"PAIR_HELLO">> /\ Came("waiting_remote_identity", aj, sj) /\ xj = <<>>
         \/ Head(xc) = "PAIR_IDENTITY" /\ Came("waiting_remote_identity", ac, sc) /\ xc = <<"PAIR_IDENTITY">> /\ Came("scanner_can_confirm", aj, sj) /\ xj = <<>>
         \/ Head(xc) = "PAIR_IDENTITY" /\ Came("waiting_remote_identity", ac, sc) /\ xc = <<"PAIR_IDENTITY", "PAIR_CONFIRM">> /\ Came("waiting_creator_confirmation", aj, sj) /\ xj = <<>>
         \/ Head(xc) = "PAIR_CONFIRM" /\ Came("waiting_scanner_confirmation", ac, sc) /\ xc = <<"PAIR_CONFIRM">> /\ Came("waiting_creator_confirmation", aj, sj) /\ xj = <<>>
         \/ Head(xc) = "scanner_staged" /\ Came("staged", ac, sc) /\ xc = <<"scanner_staged">> /\ Came("staged", aj, sj) /\ xj = <<>>
         \/ Head(xc) = "scanner_committed" /\ Came("staged", ac, sc) /\ xc = <<"scanner_committed">> /\ Came("committed", aj, sj) /\ xj = <<>>
         \/ Head(xc) = "scanner_confirmed" /\ Came("committed", ac, sc) /\ xc = <<"scanner_confirmed">> /\ Came("confirmed", aj, sj) /\ xj = <<>>
<1>1. /\ Head(<<"PAIR_HELLO">>) = "PAIR_HELLO"
      /\ Head(<<"PAIR_IDENTITY">>) = "PAIR_IDENTITY"
      /\ Head(<<"PAIR_IDENTITY", "PAIR_CONFIRM">>) = "PAIR_IDENTITY"
      /\ Head(<<"PAIR_CONFIRM">>) = "PAIR_CONFIRM"
      /\ Head(<<"scanner_staged">>) = "scanner_staged"
      /\ Head(<<"scanner_committed">>) = "scanner_committed"
      /\ Head(<<"scanner_confirmed">>) = "scanner_confirmed"
  BY Literals
<1> QED
  BY <1>1 DEF Turns

\* The turns in which the scanner has a frame to handle.
LEMMA ScannersTurn ==
  ASSUME NEW ac, NEW sc, NEW xc, NEW aj, NEW sj, NEW xj, Turns(ac, sc, xc, aj, sj, xj), xj # <<>>
  PROVE  \/ Head(xj) = "PAIR_IDENTITY" /\ Came("waiting_remote_identity", ac, sc) /\ xc = <<>> /\ Came("waiting_remote_identity", aj, sj) /\ xj = <<"PAIR_IDENTITY">>
         \/ Head(xj) = "PAIR_CONFIRM" /\ Came("staged", ac, sc) /\ xc = <<>> /\ Came("waiting_creator_confirmation", aj, sj) /\ xj = <<"PAIR_CONFIRM", "PAIR_COMMIT">>
         \/ Head(xj) = "PAIR_COMMIT" /\ Came("staged", ac, sc) /\ xc = <<>> /\ Came("finalizing", aj, sj) /\ xj = <<"PAIR_COMMIT">>
         \/ Head(xj) = "creator_ready" /\ Came("staged", ac, sc) /\ xc = <<>> /\ Came("staged", aj, sj) /\ xj = <<"creator_ready">>
         \/ Head(xj) = "creator_committed" /\ Came("committed", ac, sc) /\ xc = <<>> /\ Came("committed", aj, sj) /\ xj = <<"creator_committed">>
         \/ Head(xj) = "creator_confirmed" /\ Came("confirmed", ac, sc) /\ xc = <<>> /\ Came("confirmed", aj, sj) /\ xj = <<"creator_confirmed">>
<1>1. /\ Head(<<"PAIR_IDENTITY">>) = "PAIR_IDENTITY"
      /\ Head(<<"PAIR_CONFIRM", "PAIR_COMMIT">>) = "PAIR_CONFIRM"
      /\ Head(<<"PAIR_COMMIT">>) = "PAIR_COMMIT"
      /\ Head(<<"creator_ready">>) = "creator_ready"
      /\ Head(<<"creator_committed">>) = "creator_committed"
      /\ Head(<<"creator_confirmed">>) = "creator_confirmed"
  BY Literals
<1> QED
  BY <1>1 DEF Turns

\* What the creator does next leads to the next turn.
LEMMA CreatorTurns ==
  ASSUME NEW ac, NEW sc, NEW xc, NEW aj, NEW sj, NEW xj, Turns(ac, sc, xc, aj, sj, xj),
         NEW at, NEW s
  PROVE  /\ xc # <<>> /\ Head(xc) = "PAIR_HELLO" /\ Came("waiting_remote_identity", at, s)
           => Turns(at, s, Tail(xc), aj, sj, xj \o <<"PAIR_IDENTITY">>)
         /\ xc # <<>> /\ Head(xc) = "PAIR_IDENTITY" /\ Came("waiting_scanner_confirmation", at, s)
           => Turns(at, s, Tail(xc), aj, sj, xj \o <<>>)
         /\ xc # <<>> /\ Head(xc) = "PAIR_CONFIRM" /\ Came("creator_can_confirm", at, s)
           => Turns(at, s, Tail(xc), aj, sj, xj \o <<>>)
         /\ xc # <<>> /\ Head(xc) = "scanner_staged" /\ Came("staged", at, s)
           => Turns(at, s, Tail(xc), aj, sj, xj \o <<"creator_ready">>)
         /\ xc # <<>> /\ Head(xc) = "scanner_committed" /\ Came("committed", at, s)
           => Turns(at, s, Tail(xc), aj, sj, xj \o <<"creator_committed">>)
         /\ xc # <<>> /\ Head(xc) = "scanner_confirmed" /\ Came("confirmed", at, s)
           => Turns(at, s, Tail(xc), aj, sj, xj \o <<"creator_confirmed">>)
         /\ Came("creator_can_confirm", ac, sc) /\ Came("staged", at, s)
           => Turns(at, s, xc, aj, sj, xj \o <<"PAIR_CONFIRM", "PAIR_COMMIT">>)
<1>1. ASSUME xc # <<>>, Head(xc) = "PAIR_HELLO", Came("waiting_remote_identity", at, s)
      PROVE  Turns(at, s, Tail(xc), aj, sj, xj \o <<"PAIR_IDENTITY">>)
  <2>1. Came("waiting_remote_identity", ac, sc) /\ xc = <<"PAIR_HELLO">> /\ Came("waiting_remote_identity", aj, sj) /\ xj = <<>>
    BY <1>1, CreatorsTurn
  <2>2. Tail(<<"PAIR_HELLO">>) = <<>> /\ <<>> \o <<"PAIR_IDENTITY">> = <<"PAIR_IDENTITY">>
    BY Literals
  <2> QED
    BY <1>1, <2>1, <2>2 DEF Turns
<1>2. ASSUME xc # <<>>, Head(xc) = "PAIR_IDENTITY", Came("waiting_scanner_confirmation", at, s)
      PROVE  Turns(at, s, Tail(xc), aj, sj, xj \o <<>>)
  <2>1. \/ Came("waiting_remote_identity", ac, sc) /\ xc = <<"PAIR_IDENTITY">> /\ Came("scanner_can_confirm", aj, sj) /\ xj = <<>>
        \/ Came("waiting_remote_identity", ac, sc) /\ xc = <<"PAIR_IDENTITY", "PAIR_CONFIRM">> /\ Came("waiting_creator_confirmation", aj, sj) /\ xj = <<>>
    BY <1>2, CreatorsTurn
  <2>2. Tail(<<"PAIR_IDENTITY", "PAIR_CONFIRM">>) = <<"PAIR_CONFIRM">> /\ Tail(<<"PAIR_IDENTITY">>) = <<>> /\ <<>> \o <<>> = <<>>
    BY Literals
  <2> QED
    BY <1>2, <2>1, <2>2 DEF Turns
<1>3. ASSUME xc # <<>>, Head(xc) = "PAIR_CONFIRM", Came("creator_can_confirm", at, s)
      PROVE  Turns(at, s, Tail(xc), aj, sj, xj \o <<>>)
  <2>1. Came("waiting_scanner_confirmation", ac, sc) /\ xc = <<"PAIR_CONFIRM">> /\ Came("waiting_creator_confirmation", aj, sj) /\ xj = <<>>
    BY <1>3, CreatorsTurn
  <2>2. Tail(<<"PAIR_CONFIRM">>) = <<>> /\ <<>> \o <<>> = <<>>
    BY Literals
  <2> QED
    BY <1>3, <2>1, <2>2 DEF Turns
<1>4. ASSUME xc # <<>>, Head(xc) = "scanner_staged", Came("staged", at, s)
      PROVE  Turns(at, s, Tail(xc), aj, sj, xj \o <<"creator_ready">>)
  <2>1. Came("staged", ac, sc) /\ xc = <<"scanner_staged">> /\ Came("staged", aj, sj) /\ xj = <<>>
    BY <1>4, CreatorsTurn
  <2>2. Tail(<<"scanner_staged">>) = <<>> /\ <<>> \o <<"creator_ready">> = <<"creator_ready">>
    BY Literals
  <2> QED
    BY <1>4, <2>1, <2>2 DEF Turns
<1>5. ASSUME xc # <<>>, Head(xc) = "scanner_committed", Came("committed", at, s)
      PROVE  Turns(at, s, Tail(xc), aj, sj, xj \o <<"creator_committed">>)
  <2>1. Came("staged", ac, sc) /\ xc = <<"scanner_committed">> /\ Came("committed", aj, sj) /\ xj = <<>>
    BY <1>5, CreatorsTurn
  <2>2. Tail(<<"scanner_committed">>) = <<>> /\ <<>> \o <<"creator_committed">> = <<"creator_committed">>
    BY Literals
  <2> QED
    BY <1>5, <2>1, <2>2 DEF Turns
<1>6. ASSUME xc # <<>>, Head(xc) = "scanner_confirmed", Came("confirmed", at, s)
      PROVE  Turns(at, s, Tail(xc), aj, sj, xj \o <<"creator_confirmed">>)
  <2>1. Came("committed", ac, sc) /\ xc = <<"scanner_confirmed">> /\ Came("confirmed", aj, sj) /\ xj = <<>>
    BY <1>6, CreatorsTurn
  <2>2. Tail(<<"scanner_confirmed">>) = <<>> /\ <<>> \o <<"creator_confirmed">> = <<"creator_confirmed">>
    BY Literals
  <2> QED
    BY <1>6, <2>1, <2>2 DEF Turns
<1>7. ASSUME Came("creator_can_confirm", ac, sc), Came("staged", at, s)
      PROVE  Turns(at, s, xc, aj, sj, xj \o <<"PAIR_CONFIRM", "PAIR_COMMIT">>)
  <2>1. Came("creator_can_confirm", ac, sc) /\ xc = <<>> /\ Came("waiting_creator_confirmation", aj, sj) /\ xj = <<>>
    BY <1>7 DEF Turns, Came
  <2>2. <<>> \o <<"PAIR_CONFIRM", "PAIR_COMMIT">> = <<"PAIR_CONFIRM", "PAIR_COMMIT">>
    BY Literals
  <2> QED
    BY <1>7, <2>1, <2>2 DEF Turns
<1> QED
  BY <1>1, <1>2, <1>3, <1>4, <1>5, <1>6, <1>7

\* What the scanner does next leads to the next turn.
LEMMA ScannerTurns ==
  ASSUME NEW ac, NEW sc, NEW xc, NEW aj, NEW sj, NEW xj, Turns(ac, sc, xc, aj, sj, xj),
         NEW at, NEW s
  PROVE  /\ xj # <<>> /\ Head(xj) = "PAIR_IDENTITY" /\ Came("scanner_can_confirm", at, s)
           => Turns(ac, sc, xc \o <<"PAIR_IDENTITY">>, at, s, Tail(xj))
         /\ xj # <<>> /\ Head(xj) = "PAIR_CONFIRM" /\ Came("finalizing", at, s)
           => Turns(ac, sc, xc \o <<>>, at, s, Tail(xj))
         /\ xj # <<>> /\ Head(xj) = "PAIR_COMMIT" /\ Came("staged", at, s)
           => Turns(ac, sc, xc \o <<"scanner_staged">>, at, s, Tail(xj))
         /\ xj # <<>> /\ Head(xj) = "creator_ready" /\ Came("committed", at, s)
           => Turns(ac, sc, xc \o <<"scanner_committed">>, at, s, Tail(xj))
         /\ xj # <<>> /\ Head(xj) = "creator_committed" /\ Came("confirmed", at, s)
           => Turns(ac, sc, xc \o <<"scanner_confirmed">>, at, s, Tail(xj))
         /\ Came("scanner_can_confirm", aj, sj) /\ Came("waiting_creator_confirmation", at, s)
           => Turns(ac, sc, xc \o <<"PAIR_CONFIRM">>, at, s, xj)
<1>1. ASSUME xj # <<>>, Head(xj) = "PAIR_IDENTITY", Came("scanner_can_confirm", at, s)
      PROVE  Turns(ac, sc, xc \o <<"PAIR_IDENTITY">>, at, s, Tail(xj))
  <2>1. Came("waiting_remote_identity", ac, sc) /\ xc = <<>> /\ Came("waiting_remote_identity", aj, sj) /\ xj = <<"PAIR_IDENTITY">>
    BY <1>1, ScannersTurn
  <2>2. Tail(<<"PAIR_IDENTITY">>) = <<>> /\ <<>> \o <<"PAIR_IDENTITY">> = <<"PAIR_IDENTITY">>
    BY Literals
  <2> QED
    BY <1>1, <2>1, <2>2 DEF Turns
<1>2. ASSUME xj # <<>>, Head(xj) = "PAIR_CONFIRM", Came("finalizing", at, s)
      PROVE  Turns(ac, sc, xc \o <<>>, at, s, Tail(xj))
  <2>1. Came("staged", ac, sc) /\ xc = <<>> /\ Came("waiting_creator_confirmation", aj, sj) /\ xj = <<"PAIR_CONFIRM", "PAIR_COMMIT">>
    BY <1>2, ScannersTurn
  <2>2. Tail(<<"PAIR_CONFIRM", "PAIR_COMMIT">>) = <<"PAIR_COMMIT">> /\ <<>> \o <<>> = <<>>
    BY Literals
  <2> QED
    BY <1>2, <2>1, <2>2 DEF Turns
<1>3. ASSUME xj # <<>>, Head(xj) = "PAIR_COMMIT", Came("staged", at, s)
      PROVE  Turns(ac, sc, xc \o <<"scanner_staged">>, at, s, Tail(xj))
  <2>1. Came("staged", ac, sc) /\ xc = <<>> /\ Came("finalizing", aj, sj) /\ xj = <<"PAIR_COMMIT">>
    BY <1>3, ScannersTurn
  <2>2. Tail(<<"PAIR_COMMIT">>) = <<>> /\ <<>> \o <<"scanner_staged">> = <<"scanner_staged">>
    BY Literals
  <2> QED
    BY <1>3, <2>1, <2>2 DEF Turns
<1>4. ASSUME xj # <<>>, Head(xj) = "creator_ready", Came("committed", at, s)
      PROVE  Turns(ac, sc, xc \o <<"scanner_committed">>, at, s, Tail(xj))
  <2>1. Came("staged", ac, sc) /\ xc = <<>> /\ Came("staged", aj, sj) /\ xj = <<"creator_ready">>
    BY <1>4, ScannersTurn
  <2>2. Tail(<<"creator_ready">>) = <<>> /\ <<>> \o <<"scanner_committed">> = <<"scanner_committed">>
    BY Literals
  <2> QED
    BY <1>4, <2>1, <2>2 DEF Turns
<1>5. ASSUME xj # <<>>, Head(xj) = "creator_committed", Came("confirmed", at, s)
      PROVE  Turns(ac, sc, xc \o <<"scanner_confirmed">>, at, s, Tail(xj))
  <2>1. Came("committed", ac, sc) /\ xc = <<>> /\ Came("committed", aj, sj) /\ xj = <<"creator_committed">>
    BY <1>5, ScannersTurn
  <2>2. Tail(<<"creator_committed">>) = <<>> /\ <<>> \o <<"scanner_confirmed">> = <<"scanner_confirmed">>
    BY Literals
  <2> QED
    BY <1>5, <2>1, <2>2 DEF Turns
<1>6. ASSUME Came("scanner_can_confirm", aj, sj), Came("waiting_creator_confirmation", at, s)
      PROVE  Turns(ac, sc, xc \o <<"PAIR_CONFIRM">>, at, s, xj)
  <2>1. \/ Came("waiting_remote_identity", ac, sc) /\ xc = <<"PAIR_IDENTITY">> /\ Came("scanner_can_confirm", aj, sj) /\ xj = <<>>
        \/ Came("waiting_scanner_confirmation", ac, sc) /\ xc = <<>> /\ Came("scanner_can_confirm", aj, sj) /\ xj = <<>>
    <3>1. \A w : Came(w, aj, sj) => w = "scanner_can_confirm"
      BY <1>6 DEF Came, Phase
    <3> QED
      BY <3>1 DEF Turns
  <2>2. /\ <<"PAIR_IDENTITY">> \o <<"PAIR_CONFIRM">> = <<"PAIR_IDENTITY", "PAIR_CONFIRM">>
        /\ <<>> \o <<"PAIR_CONFIRM">> = <<"PAIR_CONFIRM">>
    <3>1. <<"PAIR_IDENTITY">> \o <<"PAIR_CONFIRM">> = <<"PAIR_IDENTITY", "PAIR_CONFIRM">>
      BY TwoOne
    <3>2. <<>> \o <<"PAIR_CONFIRM">> = <<"PAIR_CONFIRM">>
      BY Literals
    <3> QED
      BY <3>1, <3>2
  <2>3. CASE Came("waiting_remote_identity", ac, sc) /\ xc = <<"PAIR_IDENTITY">> /\ xj = <<>>
    BY <1>6, <2>2, <2>3 DEF Turns
  <2>4. CASE Came("waiting_scanner_confirmation", ac, sc) /\ xc = <<>> /\ xj = <<>>
    BY <1>6, <2>2, <2>4 DEF Turns
  <2> QED
    BY <2>1, <2>3, <2>4
<1> QED
  BY <1>1, <1>2, <1>3, <1>4, <1>5, <1>6

\* A phone that handles what it hears next follows its script.
LEMMA CreatorFollows ==
  ASSUME NEW ac, NEW sc, NEW xc, CreatorScript(ac, sc, xc), NEW at, NEW s
  PROVE  /\ xc # <<>> /\ Head(xc) = "PAIR_HELLO" /\ Came("waiting_remote_identity", at, s)
           => CreatorScript(at, s, Tail(xc))
         /\ xc # <<>> /\ Head(xc) = "PAIR_IDENTITY" /\ Came("waiting_scanner_confirmation", at, s)
           => CreatorScript(at, s, Tail(xc))
         /\ xc # <<>> /\ Head(xc) = "PAIR_CONFIRM" /\ Came("creator_can_confirm", at, s)
           => CreatorScript(at, s, Tail(xc))
         /\ xc # <<>> /\ Head(xc) = "scanner_staged" /\ Came("staged", at, s)
           => CreatorScript(at, s, Tail(xc))
         /\ xc # <<>> /\ Head(xc) = "scanner_committed" /\ Came("committed", at, s)
           => CreatorScript(at, s, Tail(xc))
         /\ xc # <<>> /\ Head(xc) = "scanner_confirmed" /\ Came("confirmed", at, s)
           => CreatorScript(at, s, Tail(xc))
         /\ Came("creator_can_confirm", ac, sc) /\ Came("staged", at, s)
           => CreatorScript(at, s, xc)
<1>1. xc # <<>> =>
        \/ Head(xc) \in LastWord
        \/ Head(xc) = "PAIR_IDENTITY" /\ (Said0(Tail(xc)) \/ Said1(Tail(xc), "PAIR_CONFIRM"))
        \/ Head(xc) # "PAIR_IDENTITY" /\ Said0(Tail(xc))
  BY CreatorHears
<1>2. Came("creator_can_confirm", ac, sc) => Said0(xc)
  BY DEF CreatorScript, Came
<1> QED
  BY <1>1, <1>2 DEF CreatorScript, LastWord

\* The same for the scanner.
LEMMA ScannerFollows ==
  ASSUME NEW aj, NEW sj, NEW xj, ScannerScript(aj, sj, xj), NEW at, NEW s
  PROVE  /\ xj # <<>> /\ Head(xj) = "PAIR_IDENTITY" /\ Came("scanner_can_confirm", at, s)
           => ScannerScript(at, s, Tail(xj))
         /\ xj # <<>> /\ Head(xj) = "PAIR_CONFIRM" /\ Came("finalizing", at, s)
           => ScannerScript(at, s, Tail(xj))
         /\ xj # <<>> /\ Head(xj) = "PAIR_COMMIT" /\ Came("staged", at, s)
           => ScannerScript(at, s, Tail(xj))
         /\ xj # <<>> /\ Head(xj) = "creator_ready" /\ Came("committed", at, s)
           => ScannerScript(at, s, Tail(xj))
         /\ xj # <<>> /\ Head(xj) = "creator_committed" /\ Came("confirmed", at, s)
           => ScannerScript(at, s, Tail(xj))
         /\ Came("scanner_can_confirm", aj, sj) /\ Came("waiting_creator_confirmation", at, s)
           => ScannerScript(at, s, xj)
<1>1. xj # <<>> =>
        \/ Head(xj) \in LastWord
        \/ Head(xj) = "PAIR_CONFIRM" /\ Said1(Tail(xj), "PAIR_COMMIT")
        \/ Head(xj) # "PAIR_CONFIRM" /\ Said0(Tail(xj))
  BY ScannerHears
<1>2. Came("scanner_can_confirm", aj, sj) => Said0(xj)
  BY DEF ScannerScript, Came
<1> QED
  BY <1>1, <1>2 DEF ScannerScript, LastWord

-----------------------------------------------------------------------------
(***************************************************************************)
(* Stores: the durable halves fit together whatever a method leaves, and   *)
(* trust appears in markConfirmed only.                                    *)
(***************************************************************************)

\* t fits if s does, and trusts no pair that s does not.
Lesser(t, s) ==
  /\ t \in Store
  /\ StoreFits(s) => StoreFits(t)
  /\ \A a \in Pair : Trusts(t, a) => Trusts(s, a)

\* Losing keys, or pending keys that change, brings no trust.
LEMMA PendingLesser ==
  ASSUME NEW s \in Store, NEW t \in Store,
         t.meta = s.meta, t.secret = s.secret, t.status = s.status
  PROVE  Lesser(t, s)
  BY DEF Lesser, StoreFits, Trusts, LoadResult, HasDurableMaterial

\* Losing one durable half, or both.
LEMMA DurableLesser ==
  ASSUME NEW s \in Store, NEW t \in PartlyNoDurable(s)
  PROVE  Lesser(t, s)
<1>1. t \in Store
  BY PartlyNoDurableWithin DEF Within
<1>2. \/ t = s
      \/ t.meta = NoPair /\ t.status = "none" /\ t.secret = s.secret
      \/ t.meta = s.meta /\ t.status = s.status /\ t.secret = NoPair
      \/ t.meta = NoPair /\ t.status = "none" /\ t.secret = NoPair
  BY DEF PartlyNoDurable, NoMeta, NoSecret, NoDurable, Store
<1>3. StoreFits(s) => StoreFits(t)
  BY <1>2 DEF StoreFits
<1>4. \A a \in Pair : Trusts(t, a) => Trusts(s, a)
  BY <1>2, PairAssumption DEF Trusts, LoadResult, HasDurableMaterial
<1> QED
  BY <1>1, <1>3, <1>4 DEF Lesser

\* In two steps.
LEMMA LesserTransitive ==
  ASSUME NEW s, NEW t, NEW u, Lesser(t, s), Lesser(u, t)
  PROVE  Lesser(u, s)
  BY DEF Lesser

\* What is left of a removal that failed or was interrupted.
LEMMA RemnantsLesser ==
  ASSUME NEW s \in Store, NEW t \in Remnants(s)
  PROVE  Lesser(t, s)
<1>1. PICK u \in PartlyNoPending(s) : t \in PartlyNoDurable(u)
  BY DEF Remnants
<1>2. u \in Store /\ Lesser(u, s)
  BY <1>1, PartlyNoPendingWithin, PendingLesser DEF Within
<1>3. Lesser(t, u)
  BY <1>1, <1>2, DurableLesser
<1> QED
  BY <1>2, <1>3, LesserTransitive

\* abortPairAttempt and revoke.
LEMMA AbortLesser ==
  ASSUME NEW s \in Store, NEW r \in AbortPairAttempt(s)
  PROVE  Lesser(r.store, s)
<1>1. NoDurable(NoPending(s)) \in Remnants(s)
  BY DEF Remnants, PartlyNoPending, PartlyNoDurable
<1>2. \E t \in Remnants(s) : r.store = t
  BY <1>1 DEF AbortPairAttempt, IfFaulty, Result
<1> QED
  BY <1>2, RemnantsLesser

\* The stores a death in stage can leave.
LEMMA StageWritesLesser ==
  ASSUME NEW s \in Store, NEW a \in PairOrNone, NEW w \in StageWrites(s, a)
  PROVE  Lesser(w, s)
  BY StageWritesType, PendingLesser

\* stage leaves a staged pair, or the durable halves as they were.
LEMMA StageFits ==
  ASSUME NEW s \in Store, NEW a \in Pair, NEW r \in Stage(s, a)
  PROVE  Lesser(r.store, s) /\ (r.ok => IsStaged(r.store, a))
<1>1. r.ok => ~HasDurableMaterial(s) /\ r.store = Staged(s, a)
  BY StageAddsOnlyItsPair DEF PairOrNone
<1>2. r.store \in Store
  BY StageAddsOnlyItsPair DEF PairOrNone
<1>3. r.store.meta = s.meta /\ r.store.secret = s.secret /\ r.store.status = s.status
  <2>1. CASE r = Result(s, FALSE)
    BY <2>1 DEF Result
  <2>2. CASE r = Result(Staged(s, a), TRUE)
    BY <2>2 DEF Result, Staged, Store
  <2>3. ASSUME NEW w \in StageWrites(s, a), NEW t \in PartlyNoPending(w), r = Result(t, FALSE)
        PROVE  r.store.meta = s.meta /\ r.store.secret = s.secret /\ r.store.status = s.status
    <3>1. w \in Store /\ w.meta = s.meta /\ w.secret = s.secret /\ w.status = s.status
      BY StageWritesType DEF PairOrNone
    <3>2. t.meta = w.meta /\ t.secret = w.secret /\ t.status = w.status
      BY <3>1, PartlyNoPendingWithin
    <3> QED
      BY <2>3, <3>1, <3>2 DEF Result
  <2> QED
    BY <2>1, <2>2, <2>3 DEF Stage, IfFaulty
<1>4. r.ok => IsStaged(r.store, a)
  BY <1>1 DEF IsStaged, Staged, Store, HasDurableMaterial
<1> QED
  BY <1>2, <1>3, <1>4, PendingLesser

\* The stores a death in installCommitted can leave, when the pair is staged.
LEMMA InstallWritesLesser ==
  ASSUME NEW s \in Store, NEW a \in Pair, IsStaged(s, a), NEW w \in InstallWrites(s)
  PROVE  Lesser(w, s)
<1>0. s.pendingMeta = a /\ s.pendingSecret = a /\ s.meta = NoPair /\ s.secret = NoPair /\ a # NoPair
  BY PairAssumption DEF IsStaged, HasDurableMaterial
<1>1. w \in Store
  BY InstallWritesWithin DEF Within
<1>2. \/ w = s
      \/ w.meta = NoPair /\ w.status = s.status /\ w.secret = a
      \/ w.meta = a /\ w.status = "committed" /\ w.secret = a
  <2>1. CASE w = s
    BY <2>1
  <2>2. CASE w = [s EXCEPT !.secret = s.pendingSecret]
    BY <1>0, <2>2 DEF Store
  <2>3. CASE w \in PartlyNoPending(Committed(s))
    <3>1. Committed(s).meta = a /\ Committed(s).status = "committed" /\ Committed(s).secret = a
      BY <1>0 DEF Committed, Store
    <3>2. Committed(s) \in Store
      BY <1>0 DEF Committed, Store, PairOrNone
    <3> QED
      BY <2>3, <3>1, <3>2, PartlyNoPendingWithin
  <2> QED
    BY <2>1, <2>2, <2>3 DEF InstallWrites
<1>3. StoreFits(s) => StoreFits(w)
  BY <1>0, <1>2 DEF StoreFits
<1>4. \A b \in Pair : Trusts(w, b) => Trusts(s, b)
  BY <1>0, <1>2 DEF Trusts, LoadResult, HasDurableMaterial
<1> QED
  BY <1>1, <1>3, <1>4 DEF Lesser

\* installCommitted of a staged pair installs it, or leaves what brings no trust.
LEMMA InstallFits ==
  ASSUME NEW s \in Store, NEW a \in Pair, IsStaged(s, a), NEW r \in InstallCommitted(s)
  PROVE  Lesser(r.store, s) /\ (r.ok => IsInstalled(r.store, a, "committed"))
<1>0. s.pendingMeta = a /\ s.pendingSecret = a /\ a # NoPair /\ HasPending(s)
  BY PairAssumption DEF IsStaged, HasPending
<1>1. CASE r = Result(NoPending(Committed(s)), TRUE)
  <2>1. r.store = NoPending(Committed(s)) /\ r.store \in PartlyNoPending(Committed(s))
    BY <1>1 DEF Result, PartlyNoPending
  <2>2. Lesser(r.store, s)
    BY <2>1, InstallWritesLesser DEF InstallWrites
  <2>3. IsInstalled(r.store, a, "committed")
    BY <1>0, <2>1 DEF IsInstalled, NoPending, NoPendingMeta, NoPendingSecret, Committed, Store
  <2> QED
    BY <2>2, <2>3
<1>2. ASSUME NEW w \in InstallWrites(s), NEW u \in PartlyNoDurable(w), NEW t \in PartlyNoPending(u),
             r = Result(t, FALSE)
      PROVE  Lesser(r.store, s) /\ (r.ok => IsInstalled(r.store, a, "committed"))
  <2>1. w \in Store /\ Lesser(w, s)
    BY InstallWritesLesser DEF Lesser
  <2>2. u \in Store /\ Lesser(u, w)
    BY <2>1, DurableLesser DEF Lesser
  <2>3. Lesser(t, u)
    BY <2>2, PartlyNoPendingWithin, PendingLesser DEF Within
  <2>4. Lesser(t, s)
    BY <2>1, <2>2, <2>3, LesserTransitive
  <2> QED
    BY <1>2, <2>4 DEF Result
<1> QED
  BY <1>0, <1>1, <1>2 DEF InstallCommitted, IfFaulty

\* markConfirmed of the installed pair a trusts at most that pair, and does if
\* it succeeds.
LEMMA MarkFits ==
  ASSUME NEW s \in Store, NEW a \in Pair, IsInstalled(s, a, "committed"), NEW r \in MarkConfirmed(s)
  PROVE  /\ r.store \in Store /\ StoreFits(r.store)
         /\ \A b \in Pair : Trusts(r.store, b) => b = a
         /\ r.ok => IsInstalled(r.store, a, "confirmed")
<1>0. s.meta = a /\ s.secret = a /\ s.status = "committed" /\ a # NoPair
  BY PairAssumption DEF IsInstalled
<1>1. r.store \in Store
  BY MarkConfirmedKeepsMaterial DEF Within
<1>2. r.store = s \/ r.store = Confirmed(s)
  BY DEF MarkConfirmed, IfFaulty, Result
<1>3. r.ok => r.store = Confirmed(s)
  BY MarkConfirmedKeepsMaterial
<1>4. /\ Confirmed(s).meta = a /\ Confirmed(s).secret = a /\ Confirmed(s).status = "confirmed"
      /\ Confirmed(s).pendingMeta = s.pendingMeta /\ Confirmed(s).pendingSecret = s.pendingSecret
  BY <1>0 DEF Confirmed, Store
<1>5. StoreFits(r.store) /\ \A b \in Pair : Trusts(r.store, b) => b = a
  BY <1>0, <1>2, <1>4 DEF StoreFits, Trusts
<1>6. r.ok => IsInstalled(r.store, a, "confirmed")
  BY <1>3, <1>4 DEF IsInstalled
<1> QED
  BY <1>1, <1>5, <1>6

\* A store without a key is the empty one.
LEMMA EmptyIs ==
  ASSUME NEW s \in Store, s.pendingMeta = NoPair, s.pendingSecret = NoPair,
         s.meta = NoPair, s.secret = NoPair, s.status = "none"
  PROVE  s = EmptyStore
  BY DEF Store, EmptyStore

\* discardIncomplete brings no trust, and leaves nothing at all when it succeeds
\* and no pair is loaded afterwards.
LEMMA DiscardFits ==
  ASSUME NEW s \in Store, StoreFits(s), NEW r \in DiscardIncomplete(s)
  PROVE  Lesser(r.store, s) /\ (r.ok /\ LoadResult(r.store) = "none" => r.store = EmptyStore)
<1>1. ASSUME NEW q \in DiscardPending(s)
      PROVE  /\ q.store \in Store /\ Lesser(q.store, s) /\ q.ok \in BOOLEAN
             /\ q.ok => q.store.pendingMeta = NoPair /\ q.store.pendingSecret = NoPair
  <2>1. NoPending(s) \in PartlyNoPending(s)
    BY DEF PartlyNoPending
  <2>2. q = Result(NoPending(s), TRUE) \/ \E t \in PartlyNoPending(s) : q = Result(t, FALSE)
    BY DEF DiscardPending, IfFaulty
  <2>3. q.store \in PartlyNoPending(s) /\ q.ok \in BOOLEAN /\ (q.ok => q.store = NoPending(s))
    <3>1. CASE q = Result(NoPending(s), TRUE)
      <4>1. q.store = NoPending(s) /\ q.ok = TRUE
        BY <3>1 DEF Result
      <4> QED
        BY <2>1, <4>1
    <3>2. ASSUME NEW t \in PartlyNoPending(s), q = Result(t, FALSE)
          PROVE  q.store \in PartlyNoPending(s) /\ q.ok = FALSE
      BY <3>2 DEF Result
    <3> QED
      BY <2>2, <3>1, <3>2
  <2>4. NoPending(s).pendingMeta = NoPair /\ NoPending(s).pendingSecret = NoPair
    BY DEF NoPending, NoPendingMeta, NoPendingSecret, Store
  <2> QED
    BY <2>3, <2>4, PartlyNoPendingWithin, PendingLesser DEF Within
<1>2. ASSUME NEW t \in Store, StoreFits(t), t.pendingMeta = NoPair, t.pendingSecret = NoPair,
             NEW q \in SettleDurable(t)
      PROVE  Lesser(q.store, t) /\ (q.ok /\ LoadResult(q.store) = "none" => q.store = EmptyStore)
  <2>1. CASE t.status = "committed" \/ (t.meta = NoPair /\ t.secret # NoPair)
    <3>1. q = Result(NoDurable(t), TRUE) \/ \E u \in PartlyNoDurable(t) : q = Result(u, FALSE)
      BY <2>1 DEF SettleDurable, DeleteDurable, IfFaulty
    <3>2. NoDurable(t) \in PartlyNoDurable(t)
      BY DEF PartlyNoDurable
    <3>3. q.store \in PartlyNoDurable(t) /\ (q.ok => q.store = NoDurable(t))
      BY <3>1, <3>2 DEF Result
    <3>4. NoDurable(t) = EmptyStore
      <4>1. /\ NoDurable(t).pendingMeta = NoPair /\ NoDurable(t).pendingSecret = NoPair
            /\ NoDurable(t).meta = NoPair /\ NoDurable(t).secret = NoPair
            /\ NoDurable(t).status = "none" /\ NoDurable(t) \in Store
        BY <1>2 DEF NoDurable, NoMeta, NoSecret, Store, PairOrNone
      <4> QED
        BY <4>1, EmptyIs
    <3> QED
      BY <3>3, <3>4, DurableLesser
  <2>2. CASE ~(t.status = "committed" \/ (t.meta = NoPair /\ t.secret # NoPair))
    <3>1. q = Result(t, t.meta = NoPair \/ t.secret # NoPair)
      BY <2>2 DEF SettleDurable
    <3>2. q.store = t /\ q.ok = (t.meta = NoPair \/ t.secret # NoPair)
      BY <3>1 DEF Result
    <3>3. Lesser(t, t)
      BY DEF Lesser
    <3>4. ASSUME q.ok, LoadResult(t) = "none" PROVE t = EmptyStore
      <4>1. t.meta = NoPair \/ t.secret # NoPair
        BY <3>2, <3>4
      <4>2. t.status \in {"none", "committed", "confirmed"}
        BY DEF Store
      <4>3. t.meta = NoPair /\ t.secret = NoPair /\ t.status = "none"
        BY <1>2, <2>2, <3>4, <4>1, <4>2 DEF LoadResult, HasDurableMaterial, StoreFits
      <4> QED
        BY <1>2, <4>3, EmptyIs
    <3> QED
      BY <3>2, <3>3, <3>4
  <2> QED
    BY <2>1, <2>2
<1>3. PICK q \in DiscardPending(s) :
        r \in (IF q.ok THEN SettleDurable(q.store) \cup IfFaulty({Result(q.store, FALSE)}) ELSE {q})
  BY DEF DiscardIncomplete
<1>4. q.store \in Store /\ Lesser(q.store, s) /\ StoreFits(q.store)
  BY <1>1 DEF Lesser
<1>5. CASE r = q /\ ~q.ok
  BY <1>4, <1>5
<1>6. CASE q.ok /\ r = Result(q.store, FALSE)
  BY <1>4, <1>6 DEF Result
<1>7. CASE q.ok /\ r \in SettleDurable(q.store)
  <2>1. q.store.pendingMeta = NoPair /\ q.store.pendingSecret = NoPair
    BY <1>1, <1>7
  <2>2. Lesser(r.store, q.store) /\ (r.ok /\ LoadResult(r.store) = "none" => r.store = EmptyStore)
    BY <1>2, <1>4, <1>7, <2>1
  <2> QED
    BY <1>4, <2>2, LesserTransitive
<1> QED
  BY <1>3, <1>5, <1>6, <1>7 DEF IfFaulty
-----------------------------------------------------------------------------
(***************************************************************************)
(* States: the conjuncts of FinalInv for one phone and for one attempt.    *)
(***************************************************************************)
PhoneFits(p) == /\ StoreFits(store[p])
                /\ Script(attempt[p], store[p], inbox[p], sock[p])
                /\ Screen(attempt[p], store[p], ui[p])

JointOK(a) == JointAt(a, attempt[owner[a]], store[owner[a]], inbox[owner[a]],
                      attempt[joiner[a]], store[joiner[a]], inbox[joiner[a]])

Joined(a) == owner[a] \in Phone /\ joiner[a] \in Phone

\* Order: why the creator, and why the scanner, of attempt a has the pair.
CreatorHas(a) ==
  attempt[owner[a]].id = a /\ (Trusts(store[joiner[a]], a) \/ Waits("creator_committed", a, joiner[a]))
    => store[owner[a]].meta = a /\ store[owner[a]].secret = a
ScannerHas(a) ==
  attempt[joiner[a]].id = a /\ (Trusts(store[owner[a]], a) \/ Waits("scanner_confirmed", a, owner[a]))
    => Trusts(store[joiner[a]], a)

\* Pledges: of the phone p, and of the frames of attempt a.
PledgedBy(p) ==
  attempt[p].id # NoPair /\ store[p].meta = attempt[p].id =>
    /\ p \in pledged[attempt[p].id]
    /\ attempt[p].role = "creator" => joiner[attempt[p].id] \in pledged[attempt[p].id]
PledgedFrames(a) ==
  /\ Waits("scanner_committed", a, owner[a]) => joiner[a] \in pledged[a]
  /\ Waits("creator_committed", a, joiner[a]) => {owner[a], joiner[a]} \subseteq pledged[a]

\* FinalInv in these parts.
LEMMA FinalParts ==
  FinalInv <=> /\ \A p \in Phone : PhoneFits(p) /\ PledgedBy(p)
               /\ \A a \in up : JointOK(a)
               /\ \A a \in Pair : Joined(a) => CreatorHas(a) /\ ScannerHas(a) /\ PledgedFrames(a)
               /\ Cancels
<1>1. Phones <=> \A p \in Phone : PhoneFits(p)
  BY DEF Phones, PhoneFits
<1>2. Joint <=> \A a \in up : JointOK(a)
  BY DEF Joint, JointOK
<1>3. Order <=> \A a \in Pair : Joined(a) => CreatorHas(a) /\ ScannerHas(a)
  BY DEF Order, Joined, CreatorHas, ScannerHas
<1>4. Pledges <=> /\ \A p \in Phone : PledgedBy(p)
                  /\ \A a \in Pair : Joined(a) => PledgedFrames(a)
  BY DEF Pledges, Joined, PledgedBy, PledgedFrames
<1> QED
  BY <1>1, <1>2, <1>3, <1>4 DEF FinalInv

\* The same of the next state.
LEMMA FinalPartsNext ==
  ASSUME \A p \in Phone : PhoneFits(p)' /\ PledgedBy(p)', \A a \in up' : JointOK(a)',
         \A a \in Pair : Joined(a)' => CreatorHas(a)' /\ ScannerHas(a)' /\ PledgedFrames(a)',
         Cancels'
  PROVE  FinalInv'
<1>1. (\A p \in Phone : PhoneFits(p) /\ PledgedBy(p))'
  OBVIOUS
<1>2. (\A a \in up : JointOK(a))'
  OBVIOUS
<1>3. (\A a \in Pair : Joined(a) => CreatorHas(a) /\ ScannerHas(a) /\ PledgedFrames(a))'
  OBVIOUS
<1>4. Phones'
  BY <1>1 DEF Phones, PhoneFits
<1>5. Joint'
  BY <1>2 DEF Joint, JointOK
<1>6. Order'
  BY <1>3 DEF Order, Joined, CreatorHas, ScannerHas
<1>7. Pledges'
  BY <1>1, <1>3 DEF Pledges, Joined, PledgedBy, PledgedFrames
<1> QED
  BY <1>4, <1>5, <1>6, <1>7 DEF FinalInv

Final == Sound /\ FinalInv

\* The phone of a running attempt and its place in it.
LEMMA AttemptRole ==
  ASSUME Sound, NEW p \in Phone, attempt[p].id # NoPair
  PROVE  /\ attempt[p] # NoAttempt /\ attempt[p].id \in Pair /\ attempt[p] \in Attempt
         /\ attempt[p].linked => sock[p] = attempt[p].id /\ TwoPhones(attempt[p].id)
         /\ \/ attempt[p].role = "creator" /\ owner[attempt[p].id] = p
            \/ /\ attempt[p].role = "scanner" /\ joiner[attempt[p].id] = p
               /\ owner[attempt[p].id] \in Phone \ {p}
<1>1. attempt[p] # NoAttempt
  BY DEF NoAttempt
<1> QED
  BY <1>1, AttemptEnds DEF Sound, ConsentInv, Roles, NetworkOK

\* A phone without an attempt has none of its fields.
LEMMA NoRole ==
  ASSUME Sound, NEW p \in Phone, attempt[p].id = NoPair
  PROVE  attempt[p] = NoAttempt /\ ~attempt[p].linked /\ attempt[p].role = "none"
<1>1. attempt[p] = NoAttempt \/ attempt[p].id \in Pair
  BY DEF Sound, ConsentInv, Roles
<1>2. attempt[p] = NoAttempt
  BY <1>1, PairAssumption
<1>3. NoAttempt.linked = FALSE /\ NoAttempt.role = "none"
  BY DEF NoAttempt
<1> QED
  BY <1>2, <1>3

\* A linked attempt and a scanner's attempt have their pair.
LEMMA LinkedActive ==
  ASSUME Sound, NEW p \in Phone, attempt[p].linked \/ attempt[p].role \in {"creator", "scanner"}
  PROVE  attempt[p].id # NoPair
  BY NoRole

\* A scanner's attempt is linked, and one that is not linked has not come far.
LEMMA ScannerLinked ==
  ASSUME Final, NEW p \in Phone, attempt[p].id # NoPair
  PROVE  /\ attempt[p].role = "scanner" => attempt[p].linked
         /\ ~attempt[p].linked => /\ attempt[p].role = "creator"
                                  /\ Came("waiting_remote_identity", attempt[p], store[p])
         /\ attempt[p].linked /\ attempt[p].role = "creator"
              => CreatorScript(attempt[p], store[p], inbox[p])
         /\ attempt[p].linked /\ attempt[p].role = "scanner"
              => ScannerScript(attempt[p], store[p], inbox[p])
<1>1. Script(attempt[p], store[p], inbox[p], sock[p]) /\ attempt[p] # NoAttempt
  BY FinalParts DEF Final, PhoneFits, NoAttempt
<1> QED
  BY <1>1 DEF Script

\* An attempt whose socket carries data and that does not own phone p's socket
\* has other ends.
LEMMA NotAnEnd ==
  ASSUME Sound, NEW p \in Phone, NEW a \in up, sock[p] # a
  PROVE  p # owner[a] /\ p # joiner[a]
  BY DEF Sound, ConsentInv, Sockets

\* The turn of a linked attempt whose socket carries data, with its phones.
LEMMA JointOf ==
  ASSUME Final, NEW a \in up
  PROVE  /\ a \in Pair /\ TwoPhones(a) /\ sock[owner[a]] = a /\ sock[joiner[a]] = a
         /\ attempt[joiner[a]].id = a /\ attempt[joiner[a]].linked /\ attempt[joiner[a]].role = "scanner"
         /\ \/ /\ attempt[owner[a]].id = a /\ attempt[owner[a]].linked
               /\ Turns(attempt[owner[a]], store[owner[a]], inbox[owner[a]],
                        attempt[joiner[a]], store[joiner[a]], inbox[joiner[a]])
            \/ /\ attempt[owner[a]].id = a => ~attempt[owner[a]].linked
               /\ inbox[owner[a]] = <<"connected", "PAIR_HELLO">> /\ inbox[joiner[a]] = <<>>
               /\ Came("waiting_remote_identity", attempt[joiner[a]], store[joiner[a]])
<1>1. JointOK(a)
  BY FinalParts DEF Final
<1>2. a \in Pair /\ TwoPhones(a) /\ sock[owner[a]] = a /\ sock[joiner[a]] = a
  BY DEF Final, Sound, NetworkOK, ConsentInv, Sockets
<1>3. attempt[joiner[a]].id = a /\ attempt[joiner[a]].linked
  BY <1>1 DEF JointOK, JointAt
<1>4. attempt[joiner[a]].role = "scanner"
  BY <1>2, <1>3, AttemptRole, PairAssumption DEF Final, TwoPhones
<1>5. \/ /\ attempt[owner[a]].id = a /\ attempt[owner[a]].linked
         /\ Turns(attempt[owner[a]], store[owner[a]], inbox[owner[a]],
                  attempt[joiner[a]], store[joiner[a]], inbox[joiner[a]])
      \/ /\ attempt[owner[a]].id = a => ~attempt[owner[a]].linked
         /\ inbox[owner[a]] = <<"connected", "PAIR_HELLO">> /\ inbox[joiner[a]] = <<>>
         /\ Came("waiting_remote_identity", attempt[joiner[a]], store[joiner[a]])
  BY <1>1 DEF JointOK, JointAt
<1> QED
  BY <1>2, <1>3, <1>4, <1>5

\* What p may say when it ends its attempt.
Parting(p, out) ==
  \/ out \in {<<>>} \cup {<<w>> : w \in LastWord}
  \/ /\ out = <<"converged">> /\ attempt[p].role = "scanner"
     /\ inbox[p] # <<>> /\ Head(inbox[p]) = "creator_confirmed"

\* The other phone can hear it.
LEMMA PartingHeard ==
  ASSUME Final, NEW p \in Phone, attempt[p].linked, NEW a, a = attempt[p].id, a \in up,
         NEW out, Parting(p, out), NEW q, q = Peer(a, p)
  PROVE  Script(attempt[q], store[q], inbox[q] \o out, sock[q])
<1>1. attempt[p].id # NoPair /\ attempt[p] # NoAttempt
  BY LinkedActive DEF Final, NoAttempt
<1>2. CASE p = owner[a]
  <2>1. q = joiner[a] /\ attempt[p].role = "creator"
    BY <1>1, <1>2, AttemptRole DEF Peer, Final
  <2>2. Turns(attempt[p], store[p], inbox[p], attempt[q], store[q], inbox[q])
    BY <1>2, <2>1, JointOf
  <2>3. ScannerScript(attempt[q], store[q], inbox[q] \o out)
    BY <2>1, <2>2, TurnsFollow DEF Parting
  <2>4. attempt[q].linked /\ attempt[q].role = "scanner"
    BY <2>1, JointOf
  <2> QED
    BY <2>3, <2>4 DEF Script
<1>3. CASE p # owner[a]
  <2>1. q = owner[a] /\ p = joiner[a] /\ attempt[p].role = "scanner" /\ q \in Phone /\ sock[q] = a
    BY <1>1, <1>3, AttemptRole, JointOf DEF Peer, Final
  <2>2. CASE attempt[q].id = a /\ attempt[q].linked
              /\ Turns(attempt[q], store[q], inbox[q], attempt[p], store[p], inbox[p])
    <3>1. attempt[q].role = "creator"
      <4>1. attempt[q].id # NoPair /\ joiner[attempt[q].id] # q
        BY <1>1, <1>3, <2>1, <2>2
      <4> QED
        BY <2>1, <4>1, AttemptRole DEF Final
    <3>2. CreatorScript(attempt[q], store[q], inbox[q] \o out)
      BY <2>2, TurnsFollow, TurnsConverge DEF Parting
    <3> QED
      BY <2>2, <3>1, <3>2 DEF Script
  <2>3. CASE /\ attempt[q].id = a => ~attempt[q].linked
             /\ inbox[q] = <<"connected", "PAIR_HELLO">> /\ inbox[p] = <<>>
    <3>1. out \in {<<>>} \cup {<<w>> : w \in LastWord}
      BY <2>3 DEF Parting
    <3>2. Said2(inbox[q] \o out, "connected", "PAIR_HELLO")
      BY <2>3, <3>1, SaidMore
    <3>3. Script(attempt[q], store[q], inbox[q], sock[q])
      BY <2>1, FinalParts DEF Final, PhoneFits
    <3>4. attempt[q] = NoAttempt \/ (~attempt[q].linked /\ attempt[q].role = "creator"
            /\ Came("waiting_remote_identity", attempt[q], store[q]))
      <4>1. attempt[q].linked => attempt[q].id = a
        BY <2>1, LinkedActive, AttemptRole DEF Final
      <4> QED
        BY <2>3, <3>3, <4>1 DEF Script
    <3> QED
      BY <3>2, <3>4 DEF Script
  <2>4. \/ /\ attempt[q].id = a /\ attempt[q].linked
           /\ Turns(attempt[q], store[q], inbox[q], attempt[p], store[p], inbox[p])
        \/ /\ attempt[q].id = a => ~attempt[q].linked
           /\ inbox[q] = <<"connected", "PAIR_HELLO">> /\ inbox[p] = <<>>
    <3>1. JointOK(a)
      BY FinalParts DEF Final
    <3>2. JointAt(a, attempt[q], store[q], inbox[q], attempt[p], store[p], inbox[p])
      BY <2>1, <3>1 DEF JointOK
    <3> QED
      BY <3>2 DEF JointAt
  <2> QED
    BY <2>2, <2>3, <2>4
<1> QED
  BY <1>2, <1>3

\* Waits after the step.
WillWait(m, a, p) == sock'[p] = a /\ m \in {inbox'[p][i] : i \in DOMAIN inbox'[p]}

\* A phone learns that it may trust b.
Told(p, b) ==
  /\ attempt[p].id = b
  /\ \/ attempt[p].role = "creator" /\ Waits("scanner_confirmed", b, p)
     \/ attempt[p].role = "scanner" /\ Waits("creator_committed", b, p)

\* A turn of two phones that a step does not touch.
LEMMA JointKept ==
  ASSUME Final, NEW a \in up, UNCHANGED <<owner, joiner>>,
         \A q \in {owner[a], joiner[a]} :
           attempt'[q] = attempt[q] /\ store'[q] = store[q] /\ inbox'[q] = inbox[q]
  PROVE  JointOK(a)'
<1>1. JointOK(a)
  BY FinalParts DEF Final
<1> QED
  BY <1>1 DEF JointOK

Carried == {"scanner_committed", "creator_committed", "scanner_confirmed", "PAIR_CANCEL"}
Sends(out, m) == m \in {out[i] : i \in DOMAIN out}

\* A step of phone p in the attempt it has: what is left to show is about p
\* itself, the frames out it sends, and the turns.
LEMMA StepOfPhone ==
  ASSUME Final, NEW p \in Phone, NEW out, UNCHANGED <<owner, joiner>>,
         \A q \in Phone \ {p} : /\ attempt'[q] = attempt[q] /\ store'[q] = store[q]
                                /\ ui'[q] = ui[q] /\ sock'[q] = sock[q]
                                /\ Script(attempt[q], store[q], inbox'[q], sock[q]),
         PhoneFits(p)', PledgedBy(p)',
         \A a \in up' : JointOK(a)',
         \A a \in Pair : pledged[a] \subseteq pledged'[a],
         cancelled \subseteq cancelled',
         \A b \in Pair : Trusts(store'[p], b) => Trusts(store[p], b) \/ Told(p, b),
         \A q \in Phone, b \in Pair, m \in Carried :
           WillWait(m, b, q) => \/ Waits(m, b, q)
                                \/ q # p /\ b = attempt[p].id /\ q = Peer(b, p) /\ Sends(out, m),
         Sends(out, "scanner_committed") =>
           attempt[p].role = "scanner" /\ p \in pledged'[attempt[p].id],
         Sends(out, "creator_committed") =>
           /\ attempt[p].role = "creator"
           /\ store'[p].meta = attempt[p].id /\ store'[p].secret = attempt[p].id
           /\ {p, joiner[attempt[p].id]} \subseteq pledged'[attempt[p].id],
         Sends(out, "scanner_confirmed") =>
           attempt[p].role = "scanner" /\ Trusts(store'[p], attempt[p].id),
         Sends(out, "PAIR_CANCEL") => attempt[p].id \in cancelled',
         attempt'[p].id # NoPair =>
           /\ attempt'[p].id = attempt[p].id
           /\ store[p].meta = attempt[p].id /\ store[p].secret = attempt[p].id
                => store'[p].meta = attempt[p].id /\ store'[p].secret = attempt[p].id
           /\ Trusts(store[p], attempt[p].id) => Trusts(store'[p], attempt[p].id)
  PROVE  FinalInv'
<1>0. Sound /\ \A q \in Phone : PhoneFits(q) /\ PledgedBy(q)
  BY FinalParts DEF Final
<1>1. ASSUME NEW q \in Phone PROVE PhoneFits(q)' /\ PledgedBy(q)'
  <2>1. CASE q = p
    BY <2>1
  <2>2. CASE q # p
    <3>1. /\ attempt'[q] = attempt[q] /\ store'[q] = store[q] /\ ui'[q] = ui[q] /\ sock'[q] = sock[q]
          /\ Script(attempt[q], store[q], inbox'[q], sock[q])
      BY <2>2
    <3>2. PhoneFits(q)'
      BY <1>0, <3>1 DEF PhoneFits
    <3>3. attempt[q].id # NoPair => attempt[q].id \in Pair
      BY <1>0, AttemptRole
    <3>4. PledgedBy(q)'
      BY <1>0, <3>1, <3>3 DEF PledgedBy
    <3> QED
      BY <3>2, <3>4
  <2> QED
    BY <2>1, <2>2
<1>2. ASSUME NEW a \in Pair, Joined(a)'
      PROVE  CreatorHas(a)' /\ ScannerHas(a)' /\ PledgedFrames(a)'
  <2> DEFINE o == owner[a]
             j == joiner[a]
  <2>0. /\ o \in Phone /\ j \in Phone /\ owner'[a] = o /\ joiner'[a] = j
        /\ a # NoPair
    BY <1>2, PairAssumption DEF Joined
  <2>1. CreatorHas(a) /\ ScannerHas(a) /\ PledgedFrames(a)
    BY <2>0, FinalParts DEF Final, Joined
  <2>2. ASSUME NEW q \in Phone, NEW m, Waits(m, a, q) PROVE TwoPhones(a) /\ q \in {o, j}
    BY <2>0, <2>2 DEF Waits, Final, Sound, ConsentInv, Sockets
  <2>3. attempt[p].id = a => /\ attempt[p].role = "creator" => p = o
                             /\ attempt[p].role = "scanner" => p = j /\ o # j
                             /\ attempt[p].role \in {"creator", "scanner"}
    BY <1>0, <2>0, AttemptRole
  <2>4. ASSUME NEW q \in Phone, attempt'[q].id = a PROVE attempt[q].id = a
    BY <2>0, <2>4
  <2>5. ASSUME NEW q \in Phone, attempt'[q].id = a, store[q].meta = a, store[q].secret = a
        PROVE  store'[q].meta = a /\ store'[q].secret = a
    BY <2>0, <2>5
  <2>6. ASSUME NEW q \in Phone, attempt'[q].id = a, Trusts(store[q], a)
        PROVE  Trusts(store'[q], a)
    BY <2>0, <2>6
  <2>7. ASSUME attempt'[o].id = a, Trusts(store'[j], a) \/ WillWait("creator_committed", a, j)
        PROVE  store'[o].meta = a /\ store'[o].secret = a
    <3>1. CASE Trusts(store[j], a) \/ Waits("creator_committed", a, j)
      <4>1. store[o].meta = a /\ store[o].secret = a
        BY <2>0, <2>1, <2>4, <2>7, <3>1 DEF CreatorHas
      <4> QED
        BY <2>0, <2>5, <2>7, <4>1
    <3>2. CASE ~(Trusts(store[j], a) \/ Waits("creator_committed", a, j))
      <4>1. CASE Trusts(store'[j], a)
        <5>1. j = p /\ Told(p, a)
          BY <2>0, <3>2, <4>1
        <5>2. attempt[p].role = "creator" /\ Waits("scanner_confirmed", a, p)
          BY <3>2, <5>1 DEF Told
        <5>3. o = j
          BY <2>3, <5>1, <5>2 DEF Told
        <5> QED
          BY <2>2, <5>2, <5>3 DEF TwoPhones
      <4>2. CASE WillWait("creator_committed", a, j)
        <5>1. "creator_committed" \in Carried
          BY DEF Carried
        <5>2. a = attempt[p].id /\ Sends(out, "creator_committed")
          BY <2>0, <3>2, <4>2, <5>1
        <5>3. p = o
          BY <2>3, <5>2
        <5> QED
          BY <5>2, <5>3
      <4> QED
        BY <2>7, <4>1, <4>2
    <3> QED
      BY <3>1, <3>2
  <2>8. ASSUME attempt'[j].id = a, Trusts(store'[o], a) \/ WillWait("scanner_confirmed", a, o)
        PROVE  Trusts(store'[j], a)
    <3>1. CASE Trusts(store[o], a) \/ Waits("scanner_confirmed", a, o)
      <4>1. Trusts(store[j], a)
        BY <2>0, <2>1, <2>4, <2>8, <3>1 DEF ScannerHas
      <4> QED
        BY <2>0, <2>6, <2>8, <4>1
    <3>2. CASE ~(Trusts(store[o], a) \/ Waits("scanner_confirmed", a, o))
      <4>1. CASE Trusts(store'[o], a)
        <5>1. o = p /\ Told(p, a)
          BY <2>0, <3>2, <4>1
        <5>2. attempt[p].role = "scanner"
          BY <3>2, <5>1 DEF Told
        <5> QED
          BY <2>3, <5>1, <5>2 DEF Told
      <4>2. CASE WillWait("scanner_confirmed", a, o)
        <5>1. "scanner_confirmed" \in Carried
          BY DEF Carried
        <5>2. a = attempt[p].id /\ Sends(out, "scanner_confirmed")
          BY <2>0, <3>2, <4>2, <5>1
        <5>3. p = j
          BY <2>3, <5>2
        <5> QED
          BY <5>2, <5>3
      <4> QED
        BY <2>8, <4>1, <4>2
    <3> QED
      BY <3>1, <3>2
  <2>9. WillWait("scanner_committed", a, o) => j \in pledged'[a]
    <3>1. "scanner_committed" \in Carried
      BY DEF Carried
    <3>2. CASE Waits("scanner_committed", a, o)
      BY <2>0, <2>1, <3>2 DEF PledgedFrames
    <3>3. CASE a = attempt[p].id /\ Sends(out, "scanner_committed")
      BY <2>3, <3>3
    <3> QED
      BY <2>0, <3>1, <3>2, <3>3
  <2>10. WillWait("creator_committed", a, j) => {o, j} \subseteq pledged'[a]
    <3>1. "creator_committed" \in Carried
      BY DEF Carried
    <3>2. CASE Waits("creator_committed", a, j)
      BY <2>0, <2>1, <3>2 DEF PledgedFrames
    <3>3. CASE a = attempt[p].id /\ Sends(out, "creator_committed")
      BY <2>3, <3>3
    <3> QED
      BY <2>0, <3>1, <3>2, <3>3
  <2> QED
    BY <2>0, <2>7, <2>8, <2>9, <2>10
       DEF CreatorHas, ScannerHas, PledgedFrames, Waits, WillWait
<1>3. Cancels'
  <2>1. "PAIR_CANCEL" \in Carried
    BY DEF Carried
  <2>2. ASSUME NEW a \in Pair, NEW q \in Phone, WillWait("PAIR_CANCEL", a, q)
        PROVE  a \in cancelled'
    <3>1. CASE Waits("PAIR_CANCEL", a, q)
      BY <3>1, FinalParts DEF Final, Cancels
    <3>2. CASE a = attempt[p].id /\ Sends(out, "PAIR_CANCEL")
      BY <3>2
    <3> QED
      BY <2>1, <2>2, <3>1, <3>2
  <2> QED
    BY <2>2 DEF Cancels, Waits, WillWait
<1> QED
  BY <1>1, <1>2, <1>3, FinalPartsNext

\* The frames of two inboxes that differ by a delivery.
LEMMA DeliveredWaits ==
  ASSUME Sound, NEW p \in Phone, NEW a \in Pair, p \in {owner[a], joiner[a]}, NEW rest,
         NEW out \in Seq(Message), inbox' = Delivered(a, p, rest, out),
         NEW q \in Phone \ {p}, sock'[q] = sock[q], NEW b, NEW m, WillWait(m, b, q)
  PROVE  Waits(m, b, q) \/ (b = a /\ q = Peer(b, p) /\ Sends(out, m))
<1>1. PICK i \in DOMAIN inbox'[q] : inbox'[q][i] = m
  BY DEF WillWait
<1>2. sock[q] = b
  BY DEF WillWait
<1>3. CASE i \in DOMAIN inbox[q] /\ inbox'[q][i] = inbox[q][i]
  BY <1>1, <1>2, <1>3 DEF Waits
<1>4. CASE ~(i \in DOMAIN inbox[q] /\ inbox'[q][i] = inbox[q][i])
  <2>1. PICK k \in DOMAIN out : inbox'[q][i] = out[k]
    BY <1>4, DeliveredFrame DEF Sound
  <2>2. CASE q = Peer(a, p) /\ a \in up
    <3>1. sock[q] = a
      BY <2>2, SocketEnds
    <3> QED
      BY <1>1, <1>2, <2>1, <2>2, <3>1 DEF Sends
  <2>3. CASE ~(q = Peer(a, p) /\ a \in up)
    <3>1. inbox'[q] = inbox[q]
      BY <2>3 DEF Delivered
    <3> QED
      BY <1>4, <3>1
  <2> QED
    BY <2>2, <2>3
<1> QED
  BY <1>3, <1>4

\* What an attempt that ends leaves of the network.
LEMMA ReleaseLeaves ==
  ASSUME Sound, NEW p \in Phone, attempt[p].id # NoPair, NEW out \in Seq(Message), Release(p, out)
  PROVE  /\ attempt'[p] = NoAttempt
         /\ \A q \in Phone \ {p} : attempt'[q] = attempt[q] /\ sock'[q] = sock[q]
         /\ UNCHANGED <<owner, joiner>>
         /\ attempt[p].linked =>
              /\ sock'[p] = NoPair /\ inbox'[p] = <<>>
              /\ up' = up \ {attempt[p].id}
              /\ inbox' = Delivered(attempt[p].id, p, <<>>, out)
         /\ ~attempt[p].linked => UNCHANGED <<sock, up, inbox>>
<1>1. attempt' = [attempt EXCEPT ![p] = NoAttempt] /\ UNCHANGED <<owner, joiner>>
  BY DEF Release
<1>2. CASE attempt[p].linked
  <2>1. /\ sock' = [sock EXCEPT ![p] = NoPair] /\ up' = up \ {attempt[p].id}
        /\ inbox' = Delivered(attempt[p].id, p, <<>>, out)
    BY <1>2 DEF Release
  <2>2. inbox'[p] = <<>>
    BY <2>1 DEF Delivered
  <2> QED
    BY <1>1, <1>2, <2>1, <2>2 DEF Sound, NetworkOK
<1>3. CASE ~attempt[p].linked
  <2>1. UNCHANGED <<sock, up, inbox>>
    BY <1>3 DEF Release
  <2> QED
    BY <1>1, <1>3, <2>1 DEF Sound, NetworkOK
<1> QED
  BY <1>2, <1>3

\* A screen without an attempt that says what the store s is.
Shows(s, kind) ==
  /\ kind \notin AttemptKinds
  /\ kind = "paired" => LoadResult(s) = "confirmed"
  /\ kind = "unpaired" => s = EmptyStore

\* A store p may have when its attempt is over.
Leaves(p, s) ==
  /\ s \in Store /\ StoreFits(s)
  /\ \A b \in Pair : Trusts(s, b) => Trusts(store[p], b) \/ Told(p, b)

\* The turns of the other attempts, when that of p ends.
LEMMA EndsJoint ==
  ASSUME Final, NEW p \in Phone, attempt[p].id # NoPair, NEW out \in Seq(Message), Release(p, out),
         \A q \in Phone \ {p} : store'[q] = store[q], NEW b \in up'
  PROVE  JointOK(b)'
<1> DEFINE a == attempt[p].id
<1>1. /\ attempt'[p] = NoAttempt /\ UNCHANGED <<owner, joiner>>
      /\ \A q \in Phone \ {p} : attempt'[q] = attempt[q] /\ store'[q] = store[q]
      /\ attempt[p].linked => up' = up \ {a} /\ inbox' = Delivered(a, p, <<>>, out)
      /\ ~attempt[p].linked => UNCHANGED <<sock, up, inbox>>
  BY ReleaseLeaves DEF Final
<1>2. b \in up
  BY <1>1
<1>3. b \in Pair /\ TwoPhones(b) /\ sock[owner[b]] = b /\ sock[joiner[b]] = b
  BY <1>2, JointOf
<1>4. a \in Pair /\ p \in {owner[a], joiner[a]} /\ attempt[p] # NoAttempt
  BY AttemptRole DEF Final
<1>5. CASE attempt[p].linked
  <2>1. b # a /\ sock[p] = a
    BY <1>1, <1>5, AttemptRole DEF Final
  <2>2. p # owner[b] /\ p # joiner[b]
    BY <1>3, <2>1
  <2>3. ASSUME NEW q \in {owner[b], joiner[b]} PROVE inbox'[q] = inbox[q]
    <3>1. q \in Phone \ {p} /\ sock[q] = b
      BY <1>3, <2>2, <2>3 DEF TwoPhones
    <3>2. ~(q = Peer(a, p) /\ a \in up)
      BY <1>4, <2>1, <3>1, SocketEnds DEF Final
    <3> QED
      BY <1>1, <1>5, <3>1, <3>2 DEF Delivered
  <2>4. \A q \in {owner[b], joiner[b]} : q \in Phone \ {p}
    BY <1>3, <2>2 DEF TwoPhones
  <2> QED
    BY <1>1, <1>2, <2>3, <2>4, JointKept
<1>6. CASE ~attempt[p].linked
  <2>1. p # joiner[b]
    BY <1>2, <1>6, JointOf
  <2>2. CASE p # owner[b]
    BY <1>1, <1>2, <1>3, <1>6, <2>1, <2>2, JointKept DEF TwoPhones
  <2>3. CASE p = owner[b]
    <3>1. JointOK(b)
      BY <1>2, FinalParts DEF Final
    <3>2. /\ inbox[p] = <<"connected", "PAIR_HELLO">> /\ inbox[joiner[b]] = <<>>
          /\ attempt[joiner[b]].id = b /\ attempt[joiner[b]].linked
          /\ Came("waiting_remote_identity", attempt[joiner[b]], store[joiner[b]])
      BY <1>6, <2>3, <3>1 DEF JointOK, JointAt
    <3>3. attempt'[p].id # b
      BY <1>1, <1>3, PairAssumption DEF NoAttempt
    <3>4. /\ owner'[b] = p /\ joiner'[b] = joiner[b] /\ inbox' = inbox
          /\ attempt'[joiner[b]] = attempt[joiner[b]] /\ store'[joiner[b]] = store[joiner[b]]
      BY <1>1, <1>3, <1>6, <2>1, <2>3 DEF TwoPhones
    <3> QED
      BY <3>2, <3>3, <3>4 DEF JointOK, JointAt
  <2> QED
    BY <2>2, <2>3
<1> QED
  BY <1>5, <1>6

\* An attempt ends: its phone forgets it, and may say so.
LEMMA EndsFinal ==
  ASSUME Final, NEW p \in Phone, attempt[p].id # NoPair, NEW out \in Seq(Message), Release(p, out),
         Parting(p, out), NEW s, NEW kind, SetTrust(p, s, kind), Shows(s, kind), Leaves(p, s),
         \A a \in Pair : pledged[a] \subseteq pledged'[a], cancelled \subseteq cancelled',
         out = <<"PAIR_CANCEL">> => attempt[p].id \in cancelled'
  PROVE  FinalInv'
<1> DEFINE a == attempt[p].id
<1>1. /\ attempt'[p] = NoAttempt /\ UNCHANGED <<owner, joiner>>
      /\ \A q \in Phone \ {p} : attempt'[q] = attempt[q] /\ sock'[q] = sock[q]
      /\ attempt[p].linked =>
           /\ sock'[p] = NoPair /\ inbox'[p] = <<>>
           /\ inbox' = Delivered(a, p, <<>>, out)
      /\ ~attempt[p].linked => UNCHANGED <<sock, up, inbox>>
  BY ReleaseLeaves DEF Final
<1>2. /\ store'[p] = s /\ ui'[p] = kind
      /\ \A q \in Phone \ {p} : store'[q] = store[q] /\ ui'[q] = ui[q]
  BY DEF SetTrust, Final, Sound, TrustOK
<1>3. a \in Pair /\ p \in {owner[a], joiner[a]} /\ attempt[p] # NoAttempt
  BY AttemptRole DEF Final
<1>4. ASSUME NEW q \in Phone \ {p}
      PROVE  Script(attempt[q], store[q], inbox'[q], sock[q])
  <2>1. Script(attempt[q], store[q], inbox[q], sock[q])
    BY FinalParts DEF Final, PhoneFits
  <2>2. CASE inbox'[q] = inbox[q]
    BY <2>1, <2>2
  <2>3. CASE inbox'[q] # inbox[q]
    <3>1. attempt[p].linked /\ q = Peer(a, p) /\ a \in up /\ inbox'[q] = inbox[q] \o out
      BY <1>1, <2>3 DEF Delivered
    <3>2. Script(attempt[q], store[q], inbox[q] \o out, sock[q])
      BY <3>1, PartingHeard
    <3> QED
      BY <3>1, <3>2
  <2> QED
    BY <2>2, <2>3
<1>5. PhoneFits(p)' /\ PledgedBy(p)'
  <2>1. NoAttempt.id = NoPair
    BY DEF NoAttempt
  <2>2. Screen(NoAttempt, s, kind)
    BY <2>1 DEF Screen, Shows
  <2> QED
    BY <1>1, <1>2, <2>1, <2>2 DEF PhoneFits, PledgedBy, Leaves, Script
<1>6. \A b \in up' : JointOK(b)'
  BY <1>2, EndsJoint
<1>7. ASSUME NEW q \in Phone, NEW b \in Pair, NEW m \in Carried, WillWait(m, b, q)
      PROVE  \/ Waits(m, b, q)
             \/ q # p /\ b = a /\ q = Peer(b, p) /\ Sends(out, m)
  <2>1. CASE ~attempt[p].linked
    BY <1>1, <1>7, <2>1 DEF Waits, WillWait
  <2>2. CASE attempt[p].linked /\ q = p
    BY <1>1, <1>7, <2>2, PairAssumption DEF WillWait
  <2>3. CASE attempt[p].linked /\ q # p
    BY <1>1, <1>3, <1>7, <2>3, DeliveredWaits DEF Final
  <2> QED
    BY <2>1, <2>2, <2>3
<1>8. /\ ~Sends(out, "scanner_committed") /\ ~Sends(out, "creator_committed")
      /\ ~Sends(out, "scanner_confirmed")
      /\ Sends(out, "PAIR_CANCEL") => out = <<"PAIR_CANCEL">>
  BY DEF Sends, Parting, LastWord
<1>9. attempt'[p].id = NoPair
  BY <1>1 DEF NoAttempt
<1> QED
  BY <1>1, <1>2, <1>4, <1>5, <1>6, <1>7, <1>8, <1>9, StepOfPhone DEF Leaves

\* The attempt of p becomes at, its store s and its inbox rest, and out is sent:
\* p follows its script, and the other phone can follow its own.
Follows(p, rest, at, s, out) ==
  /\ attempt[p].linked /\ at.linked /\ at.id = attempt[p].id /\ at.role = attempt[p].role
  /\ inbox[p] # <<>> \/ ~Came("waiting_remote_identity", attempt[p], store[p])
  /\ attempt[p].role = "creator" =>
       /\ CreatorScript(at, s, rest)
       /\ \A aj, sj, xj : Turns(attempt[p], store[p], inbox[p], aj, sj, xj)
                            => Turns(at, s, rest, aj, sj, xj \o out)
  /\ attempt[p].role = "scanner" =>
       /\ ScannerScript(at, s, rest)
       /\ \A ac, sc, xc : Turns(ac, sc, xc, attempt[p], store[p], inbox[p])
                            => Turns(ac, sc, xc \o out, at, s, rest)

\* What the store s and the frames out of p stand for.
Means(p, s, out) ==
  LET a == attempt[p].id IN
  /\ Leaves(p, s)
  /\ s.meta = a => /\ p \in pledged'[a]
                   /\ attempt[p].role = "creator" => joiner[a] \in pledged'[a]
  /\ store[p].meta = a /\ store[p].secret = a => s.meta = a /\ s.secret = a
  /\ Trusts(store[p], a) => Trusts(s, a)
  /\ Sends(out, "scanner_committed") => attempt[p].role = "scanner" /\ p \in pledged'[a]
  /\ Sends(out, "creator_committed") =>
       /\ attempt[p].role = "creator" /\ s.meta = a /\ s.secret = a
       /\ {p, joiner[a]} \subseteq pledged'[a]
  /\ Sends(out, "scanner_confirmed") => attempt[p].role = "scanner" /\ Trusts(s, a)
  /\ ~Sends(out, "PAIR_CANCEL")

\* What is left of the inbox of p is rest, and nothing is cancelled.
Handles(p, rest) ==
  /\ \A i \in DOMAIN rest : \E k \in DOMAIN inbox[p] : rest[i] = inbox[p][k]
  /\ \A a \in Pair : pledged[a] \subseteq pledged'[a]
  /\ UNCHANGED cancelled

\* The turns, when p takes its own.
GoesJoint(p, rest, at, s, out) ==
  /\ attempt' = [attempt EXCEPT ![p] = at]
  /\ store' = [store EXCEPT ![p] = s]
  /\ inbox' = Delivered(at.id, p, rest, out)
  /\ UNCHANGED <<owner, joiner, sock, up>>

\* The turn of p's attempt, when p takes it.
LEMMA OwnTurn ==
  ASSUME Final, NEW p \in Phone, NEW rest, NEW at, NEW s, NEW out,
         GoesJoint(p, rest, at, s, out), Follows(p, rest, at, s, out), attempt[p].id \in up
  PROVE  /\ JointOK(attempt[p].id)'
         /\ LET q == Peer(attempt[p].id, p) IN
            Script(attempt[q], store[q], inbox[q] \o out, sock[q])
<1>0. PICK a \in up : a = attempt[p].id
  OBVIOUS
<1>1. attempt[p].linked /\ at.linked /\ at.id = a /\ at.role = attempt[p].role
  BY <1>0 DEF Follows
<1>2. /\ a \in Pair /\ TwoPhones(a) /\ a # NoPair
      /\ attempt[joiner[a]].id = a /\ attempt[joiner[a]].linked /\ attempt[joiner[a]].role = "scanner"
  BY JointOf, PairAssumption
<1>3. owner'[a] = owner[a] /\ joiner'[a] = joiner[a]
  BY DEF GoesJoint
<1>4. CASE attempt[p].role = "creator"
  <2>1. p = owner[a]
    BY <1>0, <1>2, <1>4, AttemptRole DEF Final
  <2> DEFINE q == joiner[a]
  <2>2. q \in Phone \ {p} /\ Peer(a, p) = q
    BY <1>2, <2>1 DEF TwoPhones, Peer
  <2>3. Turns(attempt[p], store[p], inbox[p], attempt[q], store[q], inbox[q])
    BY <1>0, <1>1, <2>1, JointOf
  <2>4. Turns(at, s, rest, attempt[q], store[q], inbox[q] \o out)
    BY <1>4, <2>3 DEF Follows
  <2>5. /\ attempt'[p] = at /\ store'[p] = s /\ inbox'[p] = rest
        /\ attempt'[q] = attempt[q] /\ store'[q] = store[q] /\ inbox'[q] = inbox[q] \o out
    BY <1>1, <2>2 DEF GoesJoint, Delivered, Final, Sound, NetworkOK, TrustOK
  <2>6. JointAt(a, at, s, rest, attempt[q], store[q], inbox[q] \o out)
    BY <1>1, <1>2, <2>4 DEF JointAt
  <2>7. owner'[a] = p /\ joiner'[a] = q
    BY <1>3, <2>1
  <2> HIDE DEF q
  <2>8. JointOK(a)'
    BY <2>5, <2>6, <2>7 DEF JointOK
  <2>9. ScannerScript(attempt[q], store[q], inbox[q] \o out)
    BY <2>4, TurnsScripts
  <2>10. Script(attempt[q], store[q], inbox[q] \o out, sock[q])
    BY <1>2, <2>9 DEF Script, q
  <2> QED
    <3>1. attempt'[p].id = a
      BY <1>1, <2>5
    <3>2. JointOK(attempt[p].id)'
      BY <2>8, <3>1 DEF JointOK
    <3> QED
      BY <1>0, <2>2, <2>10, <3>2
<1>5. CASE attempt[p].role # "creator"
  <2>1. p = joiner[a] /\ attempt[p].role = "scanner"
    BY <1>0, <1>2, <1>5, AttemptRole DEF Final
  <2> DEFINE q == owner[a]
  <2>2. q \in Phone \ {p} /\ Peer(a, p) = q
    BY <1>2, <2>1 DEF TwoPhones, Peer
  <2>3. /\ attempt[q].id = a /\ attempt[q].linked
        /\ Turns(attempt[q], store[q], inbox[q], attempt[p], store[p], inbox[p])
    BY <2>1, JointOf DEF Follows
  <2>4. Turns(attempt[q], store[q], inbox[q] \o out, at, s, rest)
    BY <2>1, <2>3 DEF Follows
  <2>5. /\ attempt'[p] = at /\ store'[p] = s /\ inbox'[p] = rest
        /\ attempt'[q] = attempt[q] /\ store'[q] = store[q] /\ inbox'[q] = inbox[q] \o out
    BY <1>1, <2>2 DEF GoesJoint, Delivered, Final, Sound, NetworkOK, TrustOK
  <2>6. JointAt(a, attempt[q], store[q], inbox[q] \o out, at, s, rest)
    BY <1>1, <2>3, <2>4 DEF JointAt
  <2>7. owner'[a] = q /\ joiner'[a] = p
    BY <1>3, <2>1
  <2>8. attempt[q].role = "creator"
    <3>1. attempt[q].id # NoPair /\ joiner[attempt[q].id] # q
      BY <1>2, <2>1, <2>2, <2>3
    <3> QED
      BY <2>2, <3>1, AttemptRole DEF Final
  <2> HIDE DEF q
  <2>9. JointOK(a)'
    BY <2>5, <2>6, <2>7 DEF JointOK
  <2>10. CreatorScript(attempt[q], store[q], inbox[q] \o out)
    BY <2>4, TurnsScripts
  <2>11. Script(attempt[q], store[q], inbox[q] \o out, sock[q])
    BY <2>3, <2>8, <2>10 DEF Script
  <2> QED
    <3>1. attempt'[p].id = a
      BY <1>1, <2>5
    <3>2. JointOK(attempt[p].id)'
      BY <2>9, <3>1 DEF JointOK
    <3> QED
      BY <1>0, <2>2, <2>11, <3>2
<1> QED
  BY <1>4, <1>5

\* An operation of p goes on.
LEMMA GoesFinal ==
  ASSUME Final, NEW p \in Phone, NEW rest, NEW at, NEW s, NEW kind \in AttemptKinds,
         NEW out \in Seq(Message), GoesJoint(p, rest, at, s, out), ui' = [ui EXCEPT ![p] = kind],
         Follows(p, rest, at, s, out), Means(p, s, out), Handles(p, rest)
  PROVE  FinalInv'
<1>0. PICK a : a = attempt[p].id
  OBVIOUS
<1>1. /\ attempt[p].linked /\ at.linked /\ at.id = a /\ at.role = attempt[p].role
      /\ a # NoPair /\ sock[p] = a
  BY <1>0, LinkedActive, AttemptRole DEF Follows, Final
<1>2. /\ a \in Pair /\ p \in {owner[a], joiner[a]}
      /\ attempt[p].role \in {"creator", "scanner"}
  BY <1>0, <1>1, AttemptRole DEF Final
<1>3. /\ attempt'[p] = at /\ store'[p] = s /\ ui'[p] = kind /\ inbox'[p] = rest
      /\ \A q \in Phone \ {p} : attempt'[q] = attempt[q] /\ store'[q] = store[q] /\ ui'[q] = ui[q]
      /\ inbox' = Delivered(a, p, rest, out) /\ UNCHANGED <<owner, joiner, sock, up>>
  BY <1>1 DEF GoesJoint, Delivered, Final, Sound, NetworkOK, TrustOK
<1>4. ASSUME NEW q \in Phone \ {p}
      PROVE  Script(attempt[q], store[q], inbox'[q], sock[q])
  <2>1. Script(attempt[q], store[q], inbox[q], sock[q])
    BY FinalParts DEF Final, PhoneFits
  <2>2. CASE q = Peer(a, p) /\ a \in up
    <3>1. inbox'[q] = inbox[q] \o out
      BY <1>3, <2>2 DEF Delivered
    <3> QED
      BY <1>0, <2>2, <3>1, OwnTurn
  <2>3. CASE ~(q = Peer(a, p) /\ a \in up)
    BY <1>3, <2>1, <2>3 DEF Delivered
  <2> QED
    BY <2>2, <2>3
<1>5. PhoneFits(p)' /\ PledgedBy(p)'
  <2>1. Script(at, s, rest, sock[p])
    BY <1>1, <1>2 DEF Script, Follows
  <2>2. Screen(at, s, kind)
    BY <1>1 DEF Screen, AttemptKinds
  <2>3. PhoneFits(p)'
    BY <1>3, <2>1, <2>2 DEF PhoneFits, Means, Leaves
  <2>4. s.meta = a => /\ p \in pledged'[a]
                      /\ attempt[p].role = "creator" => joiner[a] \in pledged'[a]
    BY <1>0 DEF Means
  <2>5. attempt'[p].id = a /\ attempt'[p].role = attempt[p].role /\ joiner'[a] = joiner[a]
        /\ store'[p].meta = s.meta
    BY <1>1, <1>3
  <2>6. PledgedBy(p)'
    BY <2>4, <2>5 DEF PledgedBy
  <2> QED
    BY <2>3, <2>6
<1>6. ASSUME NEW b \in up' PROVE JointOK(b)'
  <2>1. b \in up /\ b \in Pair /\ TwoPhones(b) /\ sock[owner[b]] = b /\ sock[joiner[b]] = b
    BY <1>3, <1>6, JointOf
  <2>2. CASE b = a
    <3>1. JointOK(attempt[p].id)'
      BY <1>0, <2>1, <2>2, OwnTurn
    <3>2. attempt'[p].id = attempt[p].id
      BY <1>0, <1>1, <1>3
    <3> QED
      BY <1>0, <2>2, <3>1, <3>2 DEF JointOK
  <2>3. CASE b # a
    <3>1. p # owner[b] /\ p # joiner[b]
      BY <1>1, <2>1, <2>3
    <3>2. ASSUME NEW q \in {owner[b], joiner[b]}
          PROVE  attempt'[q] = attempt[q] /\ store'[q] = store[q] /\ inbox'[q] = inbox[q]
      <4>1. q \in Phone \ {p} /\ sock[q] = b
        BY <2>1, <3>1, <3>2 DEF TwoPhones
      <4>2. ~(q = Peer(a, p) /\ a \in up)
        BY <1>2, <2>3, <4>1, SocketEnds DEF Final
      <4> QED
        BY <1>3, <4>1, <4>2 DEF Delivered
    <3> QED
      BY <1>3, <2>1, <3>2, JointKept
  <2> QED
    BY <2>2, <2>3
<1>7. ASSUME NEW q \in Phone, NEW b \in Pair, NEW m \in Carried, WillWait(m, b, q)
      PROVE  \/ Waits(m, b, q)
             \/ q # p /\ b = a /\ q = Peer(b, p) /\ Sends(out, m)
  <2>1. CASE q = p
    BY <1>3, <1>7, <2>1 DEF WillWait, Waits, Handles
  <2>2. CASE q # p
    BY <1>2, <1>3, <1>7, <2>2, DeliveredWaits DEF Final
  <2> QED
    BY <2>1, <2>2
<1>8. \A q \in Phone \ {p} : /\ attempt'[q] = attempt[q] /\ store'[q] = store[q]
                             /\ ui'[q] = ui[q] /\ sock'[q] = sock[q]
                             /\ Script(attempt[q], store[q], inbox'[q], sock[q])
  BY <1>3, <1>4
<1>9. /\ \A b \in Pair : Trusts(store'[p], b) => Trusts(store[p], b) \/ Told(p, b)
      /\ Sends(out, "scanner_committed") =>
           attempt[p].role = "scanner" /\ p \in pledged'[attempt[p].id]
      /\ Sends(out, "creator_committed") =>
           /\ attempt[p].role = "creator"
           /\ store'[p].meta = attempt[p].id /\ store'[p].secret = attempt[p].id
           /\ {p, joiner[attempt[p].id]} \subseteq pledged'[attempt[p].id]
      /\ Sends(out, "scanner_confirmed") =>
           attempt[p].role = "scanner" /\ Trusts(store'[p], attempt[p].id)
      /\ ~Sends(out, "PAIR_CANCEL")
      /\ store[p].meta = attempt[p].id /\ store[p].secret = attempt[p].id
           => store'[p].meta = attempt[p].id /\ store'[p].secret = attempt[p].id
      /\ Trusts(store[p], attempt[p].id) => Trusts(store'[p], attempt[p].id)
  BY <1>3 DEF Means, Leaves
<1>10. attempt'[p].id = attempt[p].id
  BY <1>0, <1>1, <1>3
<1> QED
  BY <1>0, <1>3, <1>5, <1>6, <1>7, <1>8, <1>9, <1>10, StepOfPhone DEF Handles

\* Losing trust is always allowed.
LEMMA LesserLeaves ==
  ASSUME Final, NEW p \in Phone, NEW s
  PROVE  /\ Lesser(s, store[p]) => Leaves(p, s)
         /\ Leaves(p, store[p])
         /\ \A t : Leaves(p, s) /\ Lesser(t, s) => Leaves(p, t)
<1>1. StoreFits(store[p]) /\ store[p] \in Store
  BY FinalParts DEF Final, PhoneFits, Sound, TrustOK
<1> QED
  BY <1>1 DEF Lesser, Leaves

\* failAttempt ends the attempt, whatever the store is when it starts.
LEMMA FailFinal ==
  ASSUME Final, NEW p \in Phone, attempt[p].id # NoPair, NEW s, Leaves(p, s),
         NEW conv, NEW notify, FailAttempt(p, s, conv, notify),
         \A a \in Pair : pledged[a] \subseteq pledged'[a], UNCHANGED cancelled
  PROVE  FinalInv'
<1>1. PICK loaded \in LoadConfirmed(s) :
        IF conv /\ loaded = "confirmed"
        THEN Complete(p, s, <<>>)
        ELSE \E r \in AbortPairAttempt(s) :
               /\ SetTrust(p, r.store, "error")
               /\ Release(p, IF notify THEN <<"PAIR_ERROR">> ELSE <<>>)
  BY DEF FailAttempt
<1>2. CASE conv /\ loaded = "confirmed"
  <2>1. SetTrust(p, s, "paired") /\ Release(p, <<>>)
    BY <1>1, <1>2 DEF Complete
  <2>2. LoadResult(s) = "confirmed"
    BY <1>2 DEF LoadConfirmed, IfFaulty
  <2>3. Shows(s, "paired")
    BY <2>2 DEF Shows, AttemptKinds
  <2>4. Parting(p, <<>>) /\ <<>> # <<"PAIR_CANCEL">> /\ <<>> \in Seq(Message)
    BY FramesType DEF Parting
  <2> QED
    BY <2>1, <2>3, <2>4, EndsFinal
<1>3. CASE ~(conv /\ loaded = "confirmed")
  <2> DEFINE out == IF notify THEN <<"PAIR_ERROR">> ELSE <<>>
  <2>1. PICK r \in AbortPairAttempt(s) : SetTrust(p, r.store, "error") /\ Release(p, out)
    BY <1>1, <1>3
  <2>2. Leaves(p, r.store)
    BY AbortLesser, LesserLeaves DEF Leaves
  <2>3. Shows(r.store, "error")
    BY DEF Shows, AttemptKinds
  <2>4. CASE notify
    <3>1. Parting(p, <<"PAIR_ERROR">>) /\ <<"PAIR_ERROR">> # <<"PAIR_CANCEL">>
          /\ <<"PAIR_ERROR">> \in Seq(Message)
      BY FramesType DEF Parting, LastWord, Message
    <3>2. Release(p, <<"PAIR_ERROR">>)
      BY <2>1, <2>4
    <3> QED
      BY <2>1, <2>2, <2>3, <3>1, <3>2, EndsFinal
  <2>5. CASE ~notify
    <3>1. Parting(p, <<>>) /\ <<>> # <<"PAIR_CANCEL">> /\ <<>> \in Seq(Message)
      BY FramesType DEF Parting
    <3>2. Release(p, <<>>)
      BY <2>1, <2>5
    <3> QED
      BY <2>1, <2>2, <2>3, <3>1, <3>2, EndsFinal
  <2> QED
    BY <2>4, <2>5
<1> QED
  BY <1>2, <1>3

\* cancelNow and PAIR_CANCEL leave an empty store, or an error.
LEMMA AbandonFinal ==
  ASSUME Final, NEW p \in Phone, attempt[p].id # NoPair,
         NEW out \in {<<>>, <<"PAIR_CANCEL">>}, AbandonAttempt(p, out),
         UNCHANGED pledged, cancelled \subseteq cancelled',
         out = <<"PAIR_CANCEL">> => attempt[p].id \in cancelled'
  PROVE  FinalInv'
<1>1. PICK r \in AbortPairAttempt(store[p]) :
        SetTrust(p, r.store, IF r.ok THEN "unpaired" ELSE "error") /\ Release(p, out)
  BY DEF AbandonAttempt
<1>2. PICK s : s = store[p]
  OBVIOUS
<1>3. s \in Store
  BY <1>2 DEF Final, Sound, TrustOK
<1>4. Leaves(p, r.store)
  BY <1>1, <1>2, <1>3, AbortLesser, LesserLeaves
<1>5. r.ok => r.store = EmptyStore
  BY <1>1, <1>2, <1>3, AbortRemoves
<1>6. PICK kind : kind = IF r.ok THEN "unpaired" ELSE "error"
  OBVIOUS
<1>7. Shows(r.store, kind)
  BY <1>5, <1>6 DEF Shows, AttemptKinds
<1>8. Parting(p, out) /\ out \in Seq(Message)
  <2>1. "PAIR_CANCEL" \in Message
    BY DEF Message
  <2> QED
    BY <2>1, FramesType DEF Parting, LastWord
<1>9. SetTrust(p, r.store, kind) /\ Release(p, out)
  BY <1>1, <1>6
<1> QED
  BY <1>4, <1>7, <1>8, <1>9, EndsFinal

\* An operation goes on, or fails because its socket is dead.
LEMMA ProceedFinal ==
  ASSUME Final, NEW p \in Phone, NEW rest, NEW at, NEW s, NEW kind \in AttemptKinds,
         NEW out \in Seq(Message), Proceed(p, rest, at, s, kind, out),
         Follows(p, rest, at, s, out), Means(p, s, out), Handles(p, rest)
  PROVE  FinalInv'
<1>1. attempt[p].id # NoPair
  BY LinkedActive DEF Follows, Final
<1>2. CASE /\ attempt' = [attempt EXCEPT ![p] = at]
           /\ SetTrust(p, s, kind)
           /\ inbox' = Delivered(at.id, p, rest, out)
           /\ UNCHANGED <<owner, joiner, listener, sock, up>>
  <2>1. GoesJoint(p, rest, at, s, out) /\ ui' = [ui EXCEPT ![p] = kind]
    BY <1>2 DEF GoesJoint, SetTrust
  <2> QED
    BY <2>1, GoesFinal
<1>3. CASE FailAttempt(p, s, at.converged, TRUE)
  BY <1>1, <1>3, FailFinal DEF Means, Handles
<1> QED
  BY <1>2, <1>3 DEF Proceed
-----------------------------------------------------------------------------
(***************************************************************************)
(* Handlers: what a phone does with the frame it hears, as a step of its   *)
(* script.                                                                 *)
(***************************************************************************)

\* What the creator comes to, and answers, when it hears m.
CreatorStep(m, w, out) ==
  \/ m = "PAIR_HELLO" /\ w = "waiting_remote_identity" /\ out = <<"PAIR_IDENTITY">>
  \/ m = "PAIR_IDENTITY" /\ w = "waiting_scanner_confirmation" /\ out = <<>>
  \/ m = "PAIR_CONFIRM" /\ w = "creator_can_confirm" /\ out = <<>>
  \/ m = "scanner_staged" /\ w = "staged" /\ out = <<"creator_ready">>
  \/ m = "scanner_committed" /\ w = "committed" /\ out = <<"creator_committed">>
  \/ m = "scanner_confirmed" /\ w = "confirmed" /\ out = <<"creator_confirmed">>

ScannerStep(m, w, out) ==
  \/ m = "PAIR_IDENTITY" /\ w = "scanner_can_confirm" /\ out = <<"PAIR_IDENTITY">>
  \/ m = "PAIR_CONFIRM" /\ w = "finalizing" /\ out = <<>>
  \/ m = "PAIR_COMMIT" /\ w = "staged" /\ out = <<"scanner_staged">>
  \/ m = "creator_ready" /\ w = "committed" /\ out = <<"scanner_committed">>
  \/ m = "creator_committed" /\ w = "confirmed" /\ out = <<"scanner_confirmed">>

\* A linked attempt is the creator's or the scanner's.
Continues(at, old) == at.linked /\ at.id = old.id /\ at.role = old.role

\* A creator that takes its step of the script stays in turn with the scanner.
LEMMA CreatorGoes ==
  ASSUME Final, NEW p \in Phone, NEW m, Arrives(p, m), attempt[p].role = "creator",
         NEW at, Continues(at, attempt[p]), NEW s, NEW w, Came(w, at, s),
         NEW out, CreatorStep(m, w, out)
  PROVE  Follows(p, Rest(p), at, s, out)
<1>1. attempt[p].linked /\ inbox[p] # <<>> /\ Head(inbox[p]) = m /\ Rest(p) = Tail(inbox[p])
  BY DEF Arrives, Rest
<1>2. CreatorScript(attempt[p], store[p], inbox[p])
  BY <1>1, LinkedActive, ScannerLinked DEF Final
<1>3. PICK ac, sc, xc : ac = attempt[p] /\ sc = store[p] /\ xc = inbox[p]
  OBVIOUS
<1>4. CreatorScript(at, s, Tail(xc))
  BY <1>1, <1>2, <1>3, CreatorFollows DEF CreatorStep
<1>5. ASSUME NEW aj, NEW sj, NEW xj, Turns(ac, sc, xc, aj, sj, xj)
      PROVE  Turns(at, s, Tail(xc), aj, sj, xj \o out)
  BY <1>1, <1>3, <1>5, CreatorTurns DEF CreatorStep
<1>6. /\ at.linked /\ at.id = attempt[p].id /\ at.role = attempt[p].role
      /\ attempt[p].role # "scanner"
  BY DEF Continues
<1> QED
  BY <1>1, <1>3, <1>4, <1>5, <1>6 DEF Follows

\* A scanner that takes its step of the script stays in turn with the creator.
LEMMA ScannerGoes ==
  ASSUME Final, NEW p \in Phone, NEW m, Arrives(p, m), attempt[p].role = "scanner",
         NEW at, Continues(at, attempt[p]), NEW s, NEW w, Came(w, at, s),
         NEW out, ScannerStep(m, w, out)
  PROVE  Follows(p, Rest(p), at, s, out)
<1>1. attempt[p].linked /\ inbox[p] # <<>> /\ Head(inbox[p]) = m /\ Rest(p) = Tail(inbox[p])
  BY DEF Arrives, Rest
<1>2. ScannerScript(attempt[p], store[p], inbox[p])
  BY <1>1, LinkedActive, ScannerLinked DEF Final
<1>3. PICK aj, sj, xj : aj = attempt[p] /\ sj = store[p] /\ xj = inbox[p]
  OBVIOUS
<1>4. ScannerScript(at, s, Tail(xj))
  BY <1>1, <1>2, <1>3, ScannerFollows DEF ScannerStep
<1>5. ASSUME NEW ac, NEW sc, NEW xc, Turns(ac, sc, xc, aj, sj, xj)
      PROVE  Turns(ac, sc, xc \o out, at, s, Tail(xj))
  BY <1>1, <1>3, <1>5, ScannerTurns DEF ScannerStep
<1>6. /\ at.linked /\ at.id = attempt[p].id /\ at.role = attempt[p].role
      /\ attempt[p].role # "creator"
  BY DEF Continues
<1> QED
  BY <1>1, <1>3, <1>4, <1>5, <1>6 DEF Follows

\* A frame that says nothing of pledges, trust or a cancel.
Plain(out) == \A m \in Carried : ~Sends(out, m)

\* Frames that say nothing of trust or cancelling.
LEMMA PlainFramesAre ==
  ASSUME NEW m \in Message \ Carried, NEW n \in Message \ Carried
  PROVE  Plain(<<>>) /\ Plain(<<m>>) /\ Plain(<<m, n>>)
  BY DEF Plain, Sends

\* An answer that leaves the store alone means what was meant before.
LEMMA SameMeans ==
  ASSUME Final, NEW p \in Phone, attempt[p].linked, NEW s, s = store[p], NEW out, Plain(out),
         \A a \in Pair : pledged[a] \subseteq pledged'[a]
  PROVE  Means(p, s, out)
<1>1. attempt[p].id # NoPair /\ attempt[p].id \in Pair
  BY LinkedActive, AttemptRole DEF Final
<1>2. PledgedBy(p)
  BY FinalParts DEF Final
<1>3. pledged[attempt[p].id] \subseteq pledged'[attempt[p].id]
  BY <1>1
<1>4. Leaves(p, s)
  BY LesserLeaves
<1>5. /\ ~Sends(out, "scanner_committed") /\ ~Sends(out, "creator_committed")
      /\ ~Sends(out, "scanner_confirmed") /\ ~Sends(out, "PAIR_CANCEL")
  BY DEF Plain, Carried
<1> QED
  BY <1>1, <1>2, <1>3, <1>4, <1>5 DEF PledgedBy, Means

\* So does staging a pair.
LEMMA StageMeans ==
  ASSUME Final, NEW p \in Phone, attempt[p].linked, NEW r \in Stage(store[p], attempt[p].id), r.ok,
         NEW out, Plain(out)
  PROVE  Means(p, r.store, out) /\ IsStaged(r.store, attempt[p].id)
<1>1. attempt[p].id # NoPair /\ attempt[p].id \in Pair
  BY LinkedActive, AttemptRole DEF Final
<1>2. store[p] \in Store
  BY DEF Final, Sound, TrustOK
<1>3. PICK s, a : s = store[p] /\ a = attempt[p].id
  OBVIOUS
<1>4. Lesser(r.store, s) /\ IsStaged(r.store, a)
  BY <1>1, <1>2, <1>3, StageFits
<1>5. ~HasDurableMaterial(s)
  BY <1>1, <1>2, <1>3, StageAddsOnlyItsPair DEF PairOrNone
<1>6. Leaves(p, r.store)
  BY <1>3, <1>4, LesserLeaves
<1>7. r.store.meta # a /\ s.meta # a /\ ~Trusts(s, a)
  BY <1>1, <1>3, <1>4, <1>5 DEF IsStaged, HasDurableMaterial, Trusts
<1>8. /\ ~Sends(out, "scanner_committed") /\ ~Sends(out, "creator_committed")
      /\ ~Sends(out, "scanner_confirmed") /\ ~Sends(out, "PAIR_CANCEL")
  BY DEF Plain, Carried
<1> QED
  BY <1>3, <1>4, <1>6, <1>7, <1>8 DEF Means

\* What the head of the inbox says, and that the attempt is linked.
LEMMA Hears ==
  ASSUME Final, NEW p \in Phone, NEW m, Arrives(p, m)
  PROVE  /\ attempt[p].id # NoPair /\ attempt[p].id \in Pair /\ attempt[p].linked
         /\ inbox[p] # <<>> /\ Head(inbox[p]) = m /\ Waits(m, attempt[p].id, p)
         /\ \/ attempt[p].role = "creator" /\ attempt[p].role # "scanner"
                 /\ CreatorScript(attempt[p], store[p], inbox[p])
            \/ attempt[p].role = "scanner" /\ attempt[p].role # "creator"
                 /\ ScannerScript(attempt[p], store[p], inbox[p])
<1>1. attempt[p].linked /\ inbox[p] # <<>> /\ Head(inbox[p]) = m
  BY DEF Arrives
<1>2. attempt[p].id # NoPair /\ attempt[p].id \in Pair /\ sock[p] = attempt[p].id
  BY <1>1, LinkedActive, AttemptRole DEF Final
<1>3. 1 \in DOMAIN inbox[p] /\ inbox[p][1] = m
  BY <1>1 DEF Final, Sound, NetworkOK
<1>4. Waits(m, attempt[p].id, p)
  BY <1>2, <1>3 DEF Waits
<1>5. attempt[p].role \in {"creator", "scanner"}
  BY <1>2, AttemptRole DEF Final
<1> QED
  BY <1>1, <1>2, <1>4, <1>5, ScannerLinked

\* An attempt that goes to another phase is the same attempt.
LEMMA PhaseChange ==
  ASSUME NEW at \in Attempt, NEW ph
  PROVE  LET t == [at EXCEPT !.phase = ph] IN
         /\ t.id = at.id /\ t.role = at.role /\ t.linked = at.linked
         /\ t.converged = at.converged /\ t.phase = ph
  BY DEF Attempt

\* The rest of the inbox, when a handler takes the next frame.
LEMMA HandlesRest ==
  ASSUME Final, NEW p \in Phone, inbox[p] # <<>>,
         \A a \in Pair : pledged[a] \subseteq pledged'[a], UNCHANGED cancelled
  PROVE  Handles(p, Rest(p))
  BY RestFrames DEF Handles, Final, Sound

\* A handler that leaves the store alone.
LEMMA AnswerFinal ==
  ASSUME Final, NEW p \in Phone, NEW m, NEW at, NEW kind \in AttemptKinds,
         NEW out \in Seq(Message), Plain(out), Answer(p, m, at, kind, out),
         Follows(p, Rest(p), at, store[p], out)
  PROVE  FinalInv'
<1>1. /\ Arrives(p, m) /\ Proceed(p, Rest(p), at, store[p], kind, out)
      /\ pledged' = pledged /\ cancelled' = cancelled
  BY DEF Answer, history
<1>2. PICK s, rest : s = store[p] /\ rest = Rest(p)
  OBVIOUS
<1>3. Proceed(p, rest, at, s, kind, out) /\ Follows(p, rest, at, s, out)
  BY <1>1, <1>2
<1>4. \A a \in Pair : pledged[a] \subseteq pledged'[a]
  BY <1>1
<1>5. attempt[p].linked /\ inbox[p] # <<>>
  BY <1>1 DEF Arrives
<1>6. Handles(p, rest)
  BY <1>1, <1>2, <1>4, <1>5, HandlesRest
<1>7. Means(p, s, out)
  BY <1>2, <1>4, <1>5, SameMeans
<1> QED
  BY <1>3, <1>6, <1>7, ProceedFinal

\* A handler that runs a storage method.
LEMMA StoredFinal ==
  ASSUME Final, NEW p \in Phone, NEW m, Arrives(p, m), NEW at,
         NEW out \in Seq(Message), NEW results,
         WithStored(p, results, Rest(p), at, "finalizing", out),
         \A a \in Pair : pledged[a] \subseteq pledged'[a], UNCHANGED cancelled,
         \A r \in results : IF r.ok THEN Follows(p, Rest(p), at, r.store, out) /\ Means(p, r.store, out)
                                    ELSE Leaves(p, r.store)
  PROVE  FinalInv'
<1>1. PICK r \in results : IF r.ok THEN Proceed(p, Rest(p), at, r.store, "finalizing", out)
                                   ELSE FailAttempt(p, r.store, at.converged, TRUE)
  BY DEF WithStored
<1>2. attempt[p].id # NoPair /\ inbox[p] # <<>>
  BY Hears
<1>3. CASE r.ok
  <2>1. PICK rest : rest = Rest(p)
    OBVIOUS
  <2>2. Proceed(p, rest, at, r.store, "finalizing", out) /\ Follows(p, rest, at, r.store, out)
        /\ Means(p, r.store, out)
    BY <1>1, <1>3, <2>1
  <2>3. Handles(p, rest)
    BY <1>2, <2>1, HandlesRest
  <2>4. "finalizing" \in AttemptKinds
    BY DEF AttemptKinds
  <2> QED
    BY <2>2, <2>3, <2>4, ProceedFinal
<1>4. CASE ~r.ok
  BY <1>1, <1>2, <1>4, FailFinal
<1> QED
  BY <1>3, <1>4

\* Frames of one message.
LEMMA OneFrame ==
  /\ \A m \in {"PAIR_IDENTITY", "PAIR_CONFIRM", "creator_ready", "scanner_staged",
               "creator_confirmed"} : <<m>> \in Seq(Message) /\ Plain(<<m>>)
  /\ <<>> \in Seq(Message) /\ Plain(<<>>)
  /\ <<"PAIR_CONFIRM", "PAIR_COMMIT">> \in Seq(Message) /\ Plain(<<"PAIR_CONFIRM", "PAIR_COMMIT">>)
  /\ \A m \in Carried : <<m>> \in Seq(Message) /\ \A n : Sends(<<m>>, n) => n = m
<1>1. \A m \in {"PAIR_IDENTITY", "PAIR_CONFIRM", "creator_ready", "scanner_staged",
                "creator_confirmed", "PAIR_COMMIT"} : m \in Message \ Carried
  BY DEF Message, Carried
<1>2. \A m \in Carried : m \in Message
  BY DEF Message, Carried
<1>3. \A m, n : Sends(<<m>>, n) => n = m
  BY DEF Sends
<1> QED
  BY <1>1, <1>2, <1>3, PlainFramesAre, FramesType

\* PAIR_HELLO on the creator.
LEMMA ReceiveHelloFinal ==
  ASSUME Final, NEW p \in Phone, ReceiveHello(p)
  PROVE  FinalInv'
<1>1. /\ Answer(p, "PAIR_HELLO", attempt[p], ui[p], <<"PAIR_IDENTITY">>)
      /\ Arrives(p, "PAIR_HELLO") /\ attempt[p].role = "creator"
  BY DEF ReceiveHello, Answer
<1>2. PICK at, kind : at = attempt[p] /\ kind = ui[p]
  OBVIOUS
<1>3. Came("waiting_remote_identity", at, store[p])
  BY <1>1, <1>2, Hears, CreatorHears DEF LastWord
<1>4. Follows(p, Rest(p), at, store[p], <<"PAIR_IDENTITY">>)
  <2>1. Continues(at, attempt[p])
    BY <1>1, <1>2, Hears DEF Continues
  <2>2. CreatorStep("PAIR_HELLO", "waiting_remote_identity", <<"PAIR_IDENTITY">>)
    BY DEF CreatorStep
  <2> QED
    BY <1>1, <1>3, <2>1, <2>2, CreatorGoes
<1>5. kind \in AttemptKinds
  BY <1>1, <1>2, Hears, FinalParts DEF Final, PhoneFits, Screen
<1>6. Answer(p, "PAIR_HELLO", at, kind, <<"PAIR_IDENTITY">>)
  BY <1>1, <1>2
<1> QED
  BY <1>4, <1>5, <1>6, OneFrame, AnswerFinal

\* scanner_staged on the creator.
LEMMA ReceiveScannerStagedFinal ==
  ASSUME Final, NEW p \in Phone, ReceiveScannerStaged(p)
  PROVE  FinalInv'
<1>1. /\ Answer(p, "scanner_staged", attempt[p], ui[p], <<"creator_ready">>)
      /\ Arrives(p, "scanner_staged") /\ attempt[p].role = "creator"
  BY DEF ReceiveScannerStaged, Finalizing
<1>2. PICK at, kind : at = attempt[p] /\ kind = ui[p]
  OBVIOUS
<1>3. Came("staged", at, store[p])
  BY <1>1, <1>2, Hears, CreatorHears DEF LastWord
<1>4. Follows(p, Rest(p), at, store[p], <<"creator_ready">>)
  <2>1. Continues(at, attempt[p])
    BY <1>1, <1>2, Hears DEF Continues
  <2>2. CreatorStep("scanner_staged", "staged", <<"creator_ready">>)
    BY DEF CreatorStep
  <2> QED
    BY <1>1, <1>3, <2>1, <2>2, CreatorGoes
<1>5. kind \in AttemptKinds
  BY <1>1, <1>2, Hears, FinalParts DEF Final, PhoneFits, Screen
<1>6. Answer(p, "scanner_staged", at, kind, <<"creator_ready">>)
  BY <1>1, <1>2
<1> QED
  BY <1>4, <1>5, <1>6, OneFrame, AnswerFinal

\* PAIR_IDENTITY on either phone.
LEMMA ReceiveIdentityFinal ==
  ASSUME Final, NEW p \in Phone, ReceiveIdentity(p)
  PROVE  FinalInv'
<1>1. PICK ph \in Phase :
        /\ Enters(attempt[p], "REMOTE_AUTHENTICATED", ph)
        /\ IF attempt[p].role = "scanner"
           THEN Answer(p, "PAIR_IDENTITY", [attempt[p] EXCEPT !.phase = ph],
                       "confirm_partner", <<"PAIR_IDENTITY">>)
           ELSE Answer(p, "PAIR_IDENTITY", [attempt[p] EXCEPT !.phase = ph],
                       "waiting_partner", <<>>)
  BY DEF ReceiveIdentity
<1>2. Arrives(p, "PAIR_IDENTITY")
  BY <1>1 DEF Answer
<1>3. PICK at : at = [attempt[p] EXCEPT !.phase = ph]
  OBVIOUS
<1>4. attempt[p] \in Attempt
  BY <1>2, Hears, AttemptRole DEF Final
<1>5. /\ at.id = attempt[p].id /\ at.role = attempt[p].role /\ at.linked = attempt[p].linked
      /\ at.converged = attempt[p].converged /\ at.phase = ph
  BY <1>3, <1>4, PhaseChange
<1>6. Continues(at, attempt[p])
  BY <1>2, <1>5, Hears DEF Continues
<1>7. CASE attempt[p].role = "scanner"
  <2>1. Came("waiting_remote_identity", attempt[p], store[p])
    BY <1>2, <1>7, Hears, ScannerHears DEF LastWord
  <2>2. ph = "scanner_can_confirm"
    BY <1>1, <1>7 DEF Enters, Transitions
  <2>3. Came("scanner_can_confirm", at, store[p])
    BY <1>5, <2>1, <2>2 DEF Came, Phase
  <2>4. ScannerStep("PAIR_IDENTITY", "scanner_can_confirm", <<"PAIR_IDENTITY">>)
    BY DEF ScannerStep
  <2>5. Follows(p, Rest(p), at, store[p], <<"PAIR_IDENTITY">>)
    BY <1>2, <1>6, <1>7, <2>3, <2>4, ScannerGoes
  <2>6. Answer(p, "PAIR_IDENTITY", at, "confirm_partner", <<"PAIR_IDENTITY">>)
        /\ "confirm_partner" \in AttemptKinds
    BY <1>1, <1>3, <1>7 DEF AttemptKinds
  <2> QED
    BY <2>5, <2>6, OneFrame, AnswerFinal
<1>8. CASE attempt[p].role # "scanner"
  <2>0. attempt[p].role = "creator"
    BY <1>2, <1>8, Hears
  <2>1. Came("waiting_remote_identity", attempt[p], store[p])
    BY <1>2, <1>8, Hears, CreatorHears DEF LastWord
  <2>2. ph = "waiting_scanner_confirmation"
    BY <1>1, <2>0 DEF Enters, Transitions
  <2>3. Came("waiting_scanner_confirmation", at, store[p])
    BY <1>5, <2>1, <2>2 DEF Came, Phase
  <2>4. CreatorStep("PAIR_IDENTITY", "waiting_scanner_confirmation", <<>>)
    BY DEF CreatorStep
  <2>5. Follows(p, Rest(p), at, store[p], <<>>)
    BY <1>2, <1>6, <2>0, <2>3, <2>4, CreatorGoes
  <2>6. Answer(p, "PAIR_IDENTITY", at, "waiting_partner", <<>>) /\ "waiting_partner" \in AttemptKinds
    BY <1>1, <1>3, <1>8 DEF AttemptKinds
  <2> QED
    BY <2>5, <2>6, OneFrame, AnswerFinal
<1> QED
  BY <1>7, <1>8

\* PAIR_CONFIRM on either phone.
LEMMA ReceiveConfirmFinal ==
  ASSUME Final, NEW p \in Phone, ReceiveConfirm(p)
  PROVE  FinalInv'
<1>1. PICK ph \in Phase :
        /\ Enters(attempt[p], "REMOTE_CONFIRM", ph)
        /\ Answer(p, "PAIR_CONFIRM", [attempt[p] EXCEPT !.phase = ph],
                  IF attempt[p].role = "creator" THEN "confirm_partner" ELSE "finalizing", <<>>)
  BY DEF ReceiveConfirm
<1>2. Arrives(p, "PAIR_CONFIRM")
  BY <1>1 DEF Answer
<1>3. PICK at, kind : /\ at = [attempt[p] EXCEPT !.phase = ph]
                      /\ kind = IF attempt[p].role = "creator" THEN "confirm_partner" ELSE "finalizing"
  OBVIOUS
<1>4. attempt[p] \in Attempt
  BY <1>2, Hears, AttemptRole DEF Final
<1>5. /\ at.id = attempt[p].id /\ at.role = attempt[p].role /\ at.linked = attempt[p].linked
      /\ at.converged = attempt[p].converged /\ at.phase = ph
  BY <1>3, <1>4, PhaseChange
<1>6. Continues(at, attempt[p])
  BY <1>2, <1>5, Hears DEF Continues
<1>7. Follows(p, Rest(p), at, store[p], <<>>)
  <2>1. CASE attempt[p].role = "scanner"
    <3>1. Came("waiting_creator_confirmation", attempt[p], store[p])
      BY <1>2, <2>1, Hears, ScannerHears DEF LastWord
    <3>2. ph = "finalizing"
      BY <1>1, <2>1 DEF Enters, Transitions
    <3>3. Came("finalizing", at, store[p])
      BY <1>5, <3>1, <3>2 DEF Came, Phase
    <3>4. ScannerStep("PAIR_CONFIRM", "finalizing", <<>>)
      BY DEF ScannerStep
    <3> QED
      BY <1>2, <1>6, <2>1, <3>3, <3>4, ScannerGoes
  <2>2. CASE attempt[p].role # "scanner"
    <3>0. attempt[p].role = "creator"
      BY <1>2, <2>2, Hears
    <3>1. Came("waiting_scanner_confirmation", attempt[p], store[p])
      BY <1>2, <2>2, Hears, CreatorHears DEF LastWord
    <3>2. ph = "creator_can_confirm"
      BY <1>1, <3>0 DEF Enters, Transitions
    <3>3. Came("creator_can_confirm", at, store[p])
      BY <1>5, <3>1, <3>2 DEF Came, Phase
    <3>4. CreatorStep("PAIR_CONFIRM", "creator_can_confirm", <<>>)
      BY DEF CreatorStep
    <3> QED
      BY <1>2, <1>6, <3>0, <3>3, <3>4, CreatorGoes
  <2> QED
    BY <2>1, <2>2
<1>8. Answer(p, "PAIR_CONFIRM", at, kind, <<>>) /\ kind \in AttemptKinds
  BY <1>1, <1>3 DEF AttemptKinds
<1> QED
  BY <1>7, <1>8, OneFrame, AnswerFinal

\* PAIR_COMMIT on the scanner: it stages the pair.
LEMMA ReceiveCommitFinal ==
  ASSUME Final, NEW p \in Phone, ReceiveCommit(p)
  PROVE  FinalInv'
<1>1. /\ Arrives(p, "PAIR_COMMIT") /\ attempt[p].role = "scanner" /\ attempt[p].phase = "finalizing"
      /\ WithStored(p, Stage(store[p], attempt[p].id), Rest(p), attempt[p], "finalizing",
                    <<"scanner_staged">>)
      /\ pledged' = pledged /\ cancelled' = cancelled
  BY DEF ReceiveCommit, Finalizing, StoreAndAck, history
<1>2. PICK at, results : at = attempt[p] /\ results = Stage(store[p], attempt[p].id)
  OBVIOUS
<1>3. WithStored(p, results, Rest(p), at, "finalizing", <<"scanner_staged">>)
  BY <1>1, <1>2
<1>4. attempt[p].linked /\ attempt[p].id \in Pair /\ ~attempt[p].converged
  <2>1. Came("finalizing", attempt[p], store[p])
    BY <1>1, Hears, ScannerHears DEF LastWord
  <2> QED
    BY <1>1, <2>1, Hears DEF Came
<1>5. Continues(at, attempt[p]) /\ ScannerStep("PAIR_COMMIT", "staged", <<"scanner_staged">>)
  BY <1>2, <1>4 DEF Continues, ScannerStep
<1>6. ASSUME NEW r \in results
      PROVE  IF r.ok THEN Follows(p, Rest(p), at, r.store, <<"scanner_staged">>)
                            /\ Means(p, r.store, <<"scanner_staged">>)
             ELSE Leaves(p, r.store)
  <2>1. CASE r.ok
    <3>1. Means(p, r.store, <<"scanner_staged">>) /\ IsStaged(r.store, attempt[p].id)
      BY <1>2, <1>4, <2>1, StageMeans, OneFrame
    <3>2. Came("staged", at, r.store)
      BY <1>1, <1>2, <1>4, <3>1 DEF Came
    <3>3. Follows(p, Rest(p), at, r.store, <<"scanner_staged">>)
      BY <1>1, <1>5, <3>2, ScannerGoes
    <3> QED
      BY <2>1, <3>1, <3>3
  <2>2. CASE ~r.ok
    <3>1. store[p] \in Store
      BY DEF Final, Sound, TrustOK
    <3>2. Lesser(r.store, store[p])
      BY <1>2, <1>4, <3>1, StageFits
    <3> QED
      BY <2>2, <3>2, LesserLeaves
  <2> QED
    BY <2>1, <2>2
<1>7. \A a \in Pair : pledged[a] \subseteq pledged'[a]
  BY <1>1
<1> QED
  BY <1>1, <1>3, <1>6, <1>7, OneFrame, StoredFinal

\* How far an attempt has come once it finalizes.
LEMMA CameTo ==
  ASSUME NEW at, NEW s
  PROVE  /\ Came("staged", at, s) <=>
              at.phase = "finalizing" /\ IsStaged(s, at.id) /\ ~at.converged
         /\ Came("committed", at, s) <=>
              at.phase = "finalizing" /\ IsInstalled(s, at.id, "committed") /\ ~at.converged
         /\ Came("confirmed", at, s) <=>
              /\ at.phase = "finalizing" /\ IsInstalled(s, at.id, "confirmed")
              /\ at.converged <=> at.role = "creator"
  BY DEF Came, Phase

\* The pledges of a phone that installs its pair.
LEMMA NewPledge ==
  ASSUME HistoryOK, NEW p \in Phone, NEW a \in Pair,
         pledged' = [pledged EXCEPT ![a] = @ \cup {p}]
  PROVE  /\ \A b \in Pair : pledged[b] \subseteq pledged'[b]
         /\ pledged'[a] = pledged[a] \cup {p}
  BY DEF HistoryOK

\* creator_ready on the scanner, scanner_committed on the creator.
LEMMA InstallOnFinal ==
  ASSUME Final, NEW p \in Phone, NEW role, NEW m, NEW ack, InstallOn(p, role, m, ack),
         \/ role = "scanner" /\ m = "creator_ready" /\ ack = "scanner_committed"
         \/ role = "creator" /\ m = "scanner_committed" /\ ack = "creator_committed"
  PROVE  FinalInv'
<1>1. /\ Arrives(p, m) /\ attempt[p].role = role /\ attempt[p].phase = "finalizing"
      /\ cancelled' = cancelled
      /\ \E res \in InstallCommitted(store[p]) :
           /\ WithStored(p, {res}, Rest(p), attempt[p], "finalizing", <<ack>>)
           /\ pledged' = IF res.ok THEN [pledged EXCEPT ![attempt[p].id] = @ \cup {p}] ELSE pledged
  BY DEF InstallOn, Finalizing, StoreAndAck
<1>2. PICK res \in InstallCommitted(store[p]) :
        /\ WithStored(p, {res}, Rest(p), attempt[p], "finalizing", <<ack>>)
        /\ pledged' = IF res.ok THEN [pledged EXCEPT ![attempt[p].id] = @ \cup {p}] ELSE pledged
  BY <1>1
<1>3. PICK at, a : at = attempt[p] /\ a = attempt[p].id
  OBVIOUS
<1>4. /\ attempt[p].linked /\ a \in Pair /\ a # NoPair
      /\ Waits(m, a, p) /\ Came("staged", attempt[p], store[p])
  BY <1>1, <1>3, Hears, ScannerHears, CreatorHears DEF LastWord
<1>5. IsStaged(store[p], a) /\ ~attempt[p].converged /\ store[p] \in Store
  BY <1>3, <1>4, CameTo DEF Final, Sound, TrustOK
<1>6. Lesser(res.store, store[p]) /\ (res.ok => IsInstalled(res.store, a, "committed"))
  BY <1>2, <1>4, <1>5, InstallFits
<1>7. PICK results : results = {res} /\ WithStored(p, results, Rest(p), at, "finalizing", <<ack>>)
  BY <1>2, <1>3
<1>8. /\ \A b \in Pair : pledged[b] \subseteq pledged'[b]
      /\ res.ok => pledged'[a] = pledged[a] \cup {p}
  BY <1>2, <1>3, <1>4, NewPledge DEF Final, Sound
<1>9. Leaves(p, res.store)
  BY <1>6, LesserLeaves
<1>10. ack \in Carried /\ <<ack>> \in Seq(Message) /\ \A n : Sends(<<ack>>, n) => n = ack
  <2>1. ack \in Carried
    BY DEF Carried
  <2> QED
    BY <2>1, OneFrame
<1>11. ASSUME res.ok PROVE Means(p, res.store, <<ack>>)
  <2>1. /\ res.store.meta = a /\ res.store.secret = a /\ store[p].meta # a /\ ~Trusts(store[p], a)
        /\ p \in pledged'[a]
    BY <1>4, <1>5, <1>6, <1>8, <1>11 DEF IsInstalled, IsStaged, HasDurableMaterial, Trusts
  <2>2. CASE role = "scanner"
    <3>1. ack = "scanner_committed" /\ attempt[p].role # "creator"
      BY <1>1, <2>2
    <3> QED
      BY <1>1, <1>3, <1>9, <1>10, <2>1, <2>2, <3>1 DEF Means
  <2>3. CASE role = "creator"
    <3>1. ack = "creator_committed" /\ m = "scanner_committed" /\ attempt[p].role # "scanner"
      BY <1>1, <2>3
    <3>2. owner[a] = p /\ Joined(a)
      BY <1>1, <1>3, <1>4, <2>3, AttemptRole DEF Final, Joined, TwoPhones
    <3>3. joiner[a] \in pledged[a]
      BY <1>4, <3>1, <3>2, FinalParts DEF Final, PledgedFrames
    <3>4. {p, joiner[a]} \subseteq pledged'[a]
      BY <1>4, <1>8, <2>1, <3>3
    <3> QED
      BY <1>1, <1>3, <1>9, <1>10, <2>1, <2>3, <3>1, <3>4 DEF Means
  <2> QED
    BY <2>2, <2>3
<1>12. ASSUME res.ok PROVE Follows(p, Rest(p), at, res.store, <<ack>>)
  <2>1. Came("committed", at, res.store) /\ Continues(at, attempt[p])
    BY <1>1, <1>3, <1>4, <1>5, <1>6, <1>12 DEF Came, Continues
  <2>2. role = "scanner" => ScannerStep(m, "committed", <<ack>>)
    BY DEF ScannerStep
  <2>3. role = "creator" => CreatorStep(m, "committed", <<ack>>)
    BY DEF CreatorStep
  <2> QED
    BY <1>1, <2>1, <2>2, <2>3, ScannerGoes, CreatorGoes
<1>13. ASSUME NEW r \in results
       PROVE  IF r.ok THEN Follows(p, Rest(p), at, r.store, <<ack>>) /\ Means(p, r.store, <<ack>>)
              ELSE Leaves(p, r.store)
  BY <1>7, <1>9, <1>11, <1>12
<1> QED
  BY <1>1, <1>7, <1>8, <1>10, <1>13, StoredFinal

\* What a phone that has installed its pair says when it marks it.
LEMMA MarkMeans ==
  ASSUME Final, NEW p \in Phone, NEW m, Arrives(p, m), NEW a, a = attempt[p].id,
         Came("committed", attempt[p], store[p]), Told(p, a), NEW r \in MarkConfirmed(store[p]),
         UNCHANGED pledged
  PROVE  /\ Leaves(p, r.store)
         /\ r.ok => /\ IsInstalled(r.store, a, "confirmed")
                    /\ \A out : /\ ~Sends(out, "scanner_committed") /\ ~Sends(out, "creator_committed")
                                /\ Sends(out, "scanner_confirmed") => attempt[p].role = "scanner"
                                /\ ~Sends(out, "PAIR_CANCEL")
                                => Means(p, r.store, out)
<1>1. a \in Pair /\ a # NoPair /\ IsInstalled(store[p], a, "committed") /\ store[p] \in Store
  BY Hears, CameTo DEF Final, Sound, TrustOK
<1>2. /\ r.store \in Store /\ StoreFits(r.store)
      /\ \A b \in Pair : Trusts(r.store, b) => b = a
      /\ r.ok => IsInstalled(r.store, a, "confirmed")
  BY <1>1, MarkFits
<1>3. Leaves(p, r.store)
  BY <1>2 DEF Leaves
<1>4. r.ok => /\ Trusts(r.store, a) /\ r.store.meta = a /\ r.store.secret = a
  BY <1>1, <1>2 DEF IsInstalled, Trusts, LoadResult, HasDurableMaterial
<1>5. PledgedBy(p) /\ store[p].meta = a
  BY <1>1, FinalParts DEF Final, IsInstalled
<1>6. p \in pledged'[a] /\ (attempt[p].role = "creator" => joiner[a] \in pledged'[a])
  BY <1>1, <1>5 DEF PledgedBy
<1>7. ASSUME r.ok, NEW out, ~Sends(out, "scanner_committed"), ~Sends(out, "creator_committed"),
             Sends(out, "scanner_confirmed") => attempt[p].role = "scanner",
             ~Sends(out, "PAIR_CANCEL")
      PROVE  Means(p, r.store, out)
  BY <1>3, <1>4, <1>6, <1>7 DEF Means
<1> QED
  BY <1>2, <1>3, <1>7

\* creator_committed on the scanner: it marks its pair confirmed.
LEMMA ReceiveCreatorCommittedFinal ==
  ASSUME Final, NEW p \in Phone, ReceiveCreatorCommitted(p)
  PROVE  FinalInv'
<1>1. /\ Arrives(p, "creator_committed") /\ attempt[p].role = "scanner"
      /\ attempt[p].phase = "finalizing"
      /\ WithStored(p, MarkConfirmed(store[p]), Rest(p), attempt[p], "finalizing",
                    <<"scanner_confirmed">>)
      /\ pledged' = pledged /\ cancelled' = cancelled
  BY DEF ReceiveCreatorCommitted, Finalizing, StoreAndAck, history
<1>2. PICK at, a, results : at = attempt[p] /\ a = attempt[p].id /\ results = MarkConfirmed(store[p])
  OBVIOUS
<1>3. WithStored(p, results, Rest(p), at, "finalizing", <<"scanner_confirmed">>)
  BY <1>1, <1>2
<1>4. attempt[p].linked /\ Waits("creator_committed", a, p) /\ Came("committed", attempt[p], store[p])
  BY <1>1, <1>2, Hears, ScannerHears DEF LastWord
<1>5. Told(p, a)
  BY <1>1, <1>2, <1>4 DEF Told
<1>6. Continues(at, attempt[p]) /\ ScannerStep("creator_committed", "confirmed", <<"scanner_confirmed">>)
  BY <1>2, <1>4 DEF Continues, ScannerStep
<1>7. <<"scanner_confirmed">> \in Seq(Message) /\ \A n : Sends(<<"scanner_confirmed">>, n) => n = "scanner_confirmed"
  BY OneFrame DEF Carried
<1>8. ASSUME NEW r \in results
      PROVE  IF r.ok THEN Follows(p, Rest(p), at, r.store, <<"scanner_confirmed">>)
                            /\ Means(p, r.store, <<"scanner_confirmed">>)
             ELSE Leaves(p, r.store)
  <2>1. CASE r.ok
    <3>1. Means(p, r.store, <<"scanner_confirmed">>) /\ IsInstalled(r.store, a, "confirmed")
      BY <1>1, <1>2, <1>4, <1>5, <1>7, <2>1, MarkMeans
    <3>2. ~attempt[p].converged
      BY <1>4 DEF Came
    <3>3. Came("confirmed", at, r.store)
      BY <1>1, <1>2, <3>1, <3>2 DEF Came
    <3>4. Follows(p, Rest(p), at, r.store, <<"scanner_confirmed">>)
      BY <1>1, <1>6, <3>3, ScannerGoes
    <3> QED
      BY <2>1, <3>1, <3>4
  <2>2. CASE ~r.ok
    BY <1>1, <1>2, <1>4, <1>5, <2>2, MarkMeans
  <2> QED
    BY <2>1, <2>2
<1>9. \A b \in Pair : pledged[b] \subseteq pledged'[b]
  BY <1>1
<1> QED
  BY <1>1, <1>3, <1>7, <1>8, <1>9, StoredFinal

\* scanner_confirmed on the creator: it marks its pair and has converged.
LEMMA ReceiveScannerConfirmedFinal ==
  ASSUME Final, NEW p \in Phone, ReceiveScannerConfirmed(p)
  PROVE  FinalInv'
<1>1. /\ Arrives(p, "scanner_confirmed") /\ attempt[p].role = "creator"
      /\ attempt[p].phase = "finalizing"
      /\ pledged' = pledged /\ cancelled' = cancelled
  BY DEF ReceiveScannerConfirmed, Finalizing, history
<1>2. PICK r \in MarkConfirmed(store[p]) :
        IF r.ok
        THEN Proceed(p, Rest(p), [attempt[p] EXCEPT !.converged = TRUE], r.store,
                     "finalizing", <<"creator_confirmed">>)
        ELSE FailAttempt(p, r.store, attempt[p].converged, TRUE)
  BY DEF ReceiveScannerConfirmed
<1>3. PICK at, a, rest, conv : /\ at = [attempt[p] EXCEPT !.converged = TRUE] /\ a = attempt[p].id
                               /\ rest = Rest(p) /\ conv = attempt[p].converged
  OBVIOUS
<1>4. /\ attempt[p].linked /\ Waits("scanner_confirmed", a, p)
      /\ Came("committed", attempt[p], store[p]) /\ attempt[p].id # NoPair /\ attempt[p] \in Attempt
      /\ inbox[p] # <<>>
  BY <1>1, <1>3, Hears, CreatorHears, AttemptRole DEF LastWord, Final
<1>5. Told(p, a)
  BY <1>1, <1>3, <1>4 DEF Told
<1>6. Leaves(p, r.store)
  BY <1>1, <1>3, <1>4, <1>5, MarkMeans
<1>7. \A b \in Pair : pledged[b] \subseteq pledged'[b]
  BY <1>1
<1>8. CASE r.ok
  <2>1. /\ at.id = a /\ at.role = attempt[p].role /\ at.linked = attempt[p].linked
        /\ at.phase = "finalizing" /\ at.converged
    BY <1>1, <1>3, <1>4 DEF Attempt
  <2>2. Continues(at, attempt[p]) /\ CreatorStep("scanner_confirmed", "confirmed", <<"creator_confirmed">>)
    BY <1>3, <1>4, <2>1 DEF Continues, CreatorStep
  <2>3. Plain(<<"creator_confirmed">>) /\ <<"creator_confirmed">> \in Seq(Message)
    BY OneFrame
  <2>4. Means(p, r.store, <<"creator_confirmed">>) /\ IsInstalled(r.store, a, "confirmed")
    <3>1. /\ ~Sends(<<"creator_confirmed">>, "scanner_committed")
          /\ ~Sends(<<"creator_confirmed">>, "creator_committed")
          /\ ~Sends(<<"creator_confirmed">>, "scanner_confirmed")
          /\ ~Sends(<<"creator_confirmed">>, "PAIR_CANCEL")
      BY <2>3 DEF Plain, Carried
    <3> QED
      BY <1>1, <1>3, <1>4, <1>5, <1>8, <3>1, MarkMeans
  <2>5. Came("confirmed", at, r.store)
    BY <1>1, <2>1, <2>4 DEF Came
  <2>6. Follows(p, Rest(p), at, r.store, <<"creator_confirmed">>)
    BY <1>1, <2>2, <2>5, CreatorGoes
  <2>7. Follows(p, rest, at, r.store, <<"creator_confirmed">>) /\ Handles(p, rest)
    BY <1>1, <1>3, <1>4, <1>7, <2>6, HandlesRest
  <2>8. Proceed(p, rest, at, r.store, "finalizing", <<"creator_confirmed">>)
    BY <1>2, <1>3, <1>8
  <2>9. "finalizing" \in AttemptKinds
    BY DEF AttemptKinds
  <2> QED
    BY <2>3, <2>4, <2>7, <2>8, <2>9, ProceedFinal
<1>9. CASE ~r.ok
  <2>1. FailAttempt(p, r.store, conv, TRUE)
    BY <1>2, <1>3, <1>9
  <2> QED
    BY <1>1, <1>4, <1>6, <1>7, <2>1, FailFinal
<1> QED
  BY <1>8, <1>9

\* failAttempt on the store the phone has.
LEMMA FailHereFinal ==
  ASSUME Final, NEW p \in Phone, attempt[p].id # NoPair, NEW conv, NEW notify,
         FailAttempt(p, store[p], conv, notify), UNCHANGED history
  PROVE  FinalInv'
<1>1. PICK s : s = store[p]
  OBVIOUS
<1>2. FailAttempt(p, s, conv, notify) /\ Leaves(p, s)
  BY <1>1, LesserLeaves
<1>3. pledged' = pledged /\ cancelled' = cancelled
  BY DEF history
<1>4. \A a \in Pair : pledged[a] \subseteq pledged'[a]
  BY <1>3
<1> QED
  BY <1>2, <1>3, <1>4, FailFinal

\* The phone whose user can confirm is at that point of its script.
LEMMA ConfirmTurn ==
  ASSUME Final, NEW p \in Phone, NEW ph, Enters(attempt[p], "LOCAL_CONFIRM", ph)
  PROVE  /\ attempt[p].linked /\ attempt[p].id # NoPair /\ attempt[p] \in Attempt
         /\ attempt[p].role = "scanner" =>
              /\ ph = "waiting_creator_confirmation"
              /\ Came("scanner_can_confirm", attempt[p], store[p])
              /\ ScannerScript(attempt[p], store[p], inbox[p])
         /\ attempt[p].role = "creator" =>
              /\ ph = "finalizing"
              /\ Came("creator_can_confirm", attempt[p], store[p])
              /\ CreatorScript(attempt[p], store[p], inbox[p])
<1>1. \/ attempt[p].role = "creator" /\ attempt[p].phase = "creator_can_confirm" /\ ph = "finalizing"
      \/ /\ attempt[p].role = "scanner" /\ attempt[p].phase = "scanner_can_confirm"
         /\ ph = "waiting_creator_confirmation"
  BY DEF Enters, Transitions
<1>2. attempt[p].id # NoPair
  BY <1>1, LinkedActive DEF Final
<1>3. attempt[p].linked
  <2>1. Came("waiting_remote_identity", attempt[p], store[p]) => attempt[p].phase = "waiting_remote_identity"
    BY DEF Came
  <2> QED
    BY <1>1, <1>2, <2>1, ScannerLinked
<1>4. PICK at, s, x : at = attempt[p] /\ s = store[p] /\ x = inbox[p]
  OBVIOUS
<1>5. CASE attempt[p].role = "scanner"
  <2>1. ScannerScript(at, s, x) /\ at.phase = "scanner_can_confirm"
    BY <1>1, <1>2, <1>3, <1>4, <1>5, ScannerLinked
  <2>2. Came("scanner_can_confirm", at, s)
    BY <2>1 DEF ScannerScript, Came, Phase
  <2> QED
    BY <1>1, <1>2, <1>3, <1>4, <1>5, <2>1, <2>2, AttemptRole DEF Final
<1>6. CASE attempt[p].role = "creator"
  <2>1. CreatorScript(at, s, x) /\ at.phase = "creator_can_confirm"
    BY <1>1, <1>2, <1>3, <1>4, <1>6, ScannerLinked
  <2>2. Came("creator_can_confirm", at, s)
    BY <2>1 DEF CreatorScript, Came, Phase
  <2> QED
    BY <1>1, <1>2, <1>3, <1>4, <1>6, <2>1, <2>2, AttemptRole DEF Final
<1> QED
  BY <1>1, <1>5, <1>6

\* confirmPartnerNow on the scanner.
LEMMA ScannerConfirmsFinal ==
  ASSUME Final, NEW p \in Phone, ScannerConfirms(p)
  PROVE  FinalInv'
<1>1. PICK ph \in Phase :
        /\ Enters(attempt[p], "LOCAL_CONFIRM", ph)
        /\ Proceed(p, inbox[p], [attempt[p] EXCEPT !.phase = ph], store[p],
                   "waiting_partner", <<"PAIR_CONFIRM">>)
  BY DEF ScannerConfirms
<1>2. attempt[p].role = "scanner" /\ pledged' = pledged /\ cancelled' = cancelled
  BY DEF ScannerConfirms
<1>3. /\ attempt[p].linked /\ attempt[p] \in Attempt /\ ph = "waiting_creator_confirmation"
      /\ Came("scanner_can_confirm", attempt[p], store[p])
      /\ ScannerScript(attempt[p], store[p], inbox[p])
  BY <1>1, <1>2, ConfirmTurn
<1>4. PICK at, s, rest : at = [attempt[p] EXCEPT !.phase = ph] /\ s = store[p] /\ rest = inbox[p]
  OBVIOUS
<1>5. Proceed(p, rest, at, s, "waiting_partner", <<"PAIR_CONFIRM">>)
  BY <1>1, <1>4
<1>6. /\ at.id = attempt[p].id /\ at.role = attempt[p].role /\ at.linked = attempt[p].linked
      /\ at.converged = attempt[p].converged /\ at.phase = ph
  <2>1. attempt[p] \in Attempt
    BY <1>3
  <2> QED
    BY <1>4, <2>1, PhaseChange
<1>7. Came("waiting_creator_confirmation", at, s)
  BY <1>3, <1>4, <1>6 DEF Came, Phase
<1>8. PICK aj, sj, xj : aj = attempt[p] /\ sj = store[p] /\ xj = inbox[p]
  OBVIOUS
<1>9. ScannerScript(at, s, xj)
  BY <1>3, <1>7, <1>8, ScannerFollows
<1>10. ASSUME NEW ac, NEW sc, NEW xc, Turns(ac, sc, xc, aj, sj, xj)
       PROVE  Turns(ac, sc, xc \o <<"PAIR_CONFIRM">>, at, s, xj)
  BY <1>3, <1>7, <1>8, <1>10, ScannerTurns
<1>11. ~Came("waiting_remote_identity", attempt[p], store[p])
  BY <1>3 DEF Came, Phase
<1>12. Follows(p, rest, at, s, <<"PAIR_CONFIRM">>)
  BY <1>2, <1>3, <1>4, <1>6, <1>8, <1>9, <1>10, <1>11 DEF Follows
<1>13. \A a \in Pair : pledged[a] \subseteq pledged'[a]
  BY <1>2
<1>14. Plain(<<"PAIR_CONFIRM">>) /\ <<"PAIR_CONFIRM">> \in Seq(Message)
  BY OneFrame
<1>15. Means(p, s, <<"PAIR_CONFIRM">>)
  BY <1>3, <1>4, <1>13, <1>14, SameMeans
<1>16. Handles(p, rest) /\ "waiting_partner" \in AttemptKinds
  BY <1>2, <1>4, <1>13 DEF Handles, AttemptKinds
<1> QED
  BY <1>5, <1>12, <1>14, <1>15, <1>16, ProceedFinal

\* confirmPartnerNow on the creator: it stages the pair first.
LEMMA CreatorConfirmsFinal ==
  ASSUME Final, NEW p \in Phone, CreatorConfirms(p)
  PROVE  FinalInv'
<1> DEFINE out == <<"PAIR_CONFIRM", "PAIR_COMMIT">>
<1>1. PICK ph \in Phase :
        /\ Enters(attempt[p], "LOCAL_CONFIRM", ph)
        /\ WithStored(p, Stage(store[p], attempt[p].id), inbox[p],
                      [attempt[p] EXCEPT !.phase = ph], "finalizing", out)
  BY DEF CreatorConfirms
<1>2. attempt[p].role = "creator" /\ pledged' = pledged /\ cancelled' = cancelled
  BY DEF CreatorConfirms
<1>3. /\ attempt[p].linked /\ attempt[p] \in Attempt /\ attempt[p].id # NoPair /\ ph = "finalizing"
      /\ Came("creator_can_confirm", attempt[p], store[p])
      /\ CreatorScript(attempt[p], store[p], inbox[p])
  BY <1>1, <1>2, ConfirmTurn
<1>4. PICK at, rest : at = [attempt[p] EXCEPT !.phase = ph] /\ rest = inbox[p]
  OBVIOUS
<1>5. PICK r \in Stage(store[p], attempt[p].id) :
        IF r.ok THEN Proceed(p, rest, at, r.store, "finalizing", out)
                ELSE FailAttempt(p, r.store, at.converged, TRUE)
  BY <1>1, <1>4 DEF WithStored
<1>6. /\ at.id = attempt[p].id /\ at.role = attempt[p].role /\ at.linked = attempt[p].linked
      /\ at.converged = attempt[p].converged /\ at.phase = ph
  <2>1. attempt[p] \in Attempt
    BY <1>3
  <2> QED
    BY <1>4, <2>1, PhaseChange
<1>7. \A a \in Pair : pledged[a] \subseteq pledged'[a]
  BY <1>2
<1>8. Plain(out) /\ out \in Seq(Message)
  BY OneFrame
<1> HIDE DEF out
<1>9. CASE r.ok
  <2>1. Means(p, r.store, out) /\ IsStaged(r.store, attempt[p].id)
    BY <1>3, <1>8, <1>9, StageMeans
  <2>2. Came("staged", at, r.store)
    <3>1. ~attempt[p].converged
      BY <1>3 DEF Came
    <3> QED
      BY <1>3, <1>6, <2>1, <3>1, CameTo
  <2>3. PICK ac, sc, xc : ac = attempt[p] /\ sc = store[p] /\ xc = inbox[p]
    OBVIOUS
  <2>4. CreatorScript(at, r.store, xc)
    BY <1>3, <2>2, <2>3, CreatorFollows
  <2>5. ASSUME NEW aj, NEW sj, NEW xj, Turns(ac, sc, xc, aj, sj, xj)
        PROVE  Turns(at, r.store, xc, aj, sj, xj \o out)
    BY <1>3, <2>2, <2>3, <2>5, CreatorTurns DEF out
  <2>6. ~Came("waiting_remote_identity", attempt[p], store[p])
    BY <1>3 DEF Came, Phase
  <2>7. Follows(p, rest, at, r.store, out)
    BY <1>2, <1>3, <1>4, <1>6, <2>3, <2>4, <2>5, <2>6 DEF Follows
  <2>8. Handles(p, rest) /\ "finalizing" \in AttemptKinds
    BY <1>2, <1>4, <1>7 DEF Handles, AttemptKinds
  <2> QED
    BY <1>5, <1>8, <1>9, <2>1, <2>7, <2>8, ProceedFinal
<1>10. CASE ~r.ok
  <2>1. PICK conv : conv = at.converged
    OBVIOUS
  <2>2. store[p] \in Store /\ attempt[p].id \in Pair
    BY <1>3, AttemptRole DEF Final, Sound, TrustOK
  <2>3. Leaves(p, r.store)
    BY <2>2, StageFits, LesserLeaves
  <2>4. FailAttempt(p, r.store, conv, TRUE)
    BY <1>5, <1>10, <2>1
  <2> QED
    BY <1>2, <1>3, <1>7, <2>3, <2>4, FailFinal
<1> QED
  BY <1>9, <1>10

\* creator_confirmed on the scanner: it completes, and says so.
LEMMA ReceiveCreatorConfirmedFinal ==
  ASSUME Final, NEW p \in Phone, ReceiveCreatorConfirmed(p)
  PROVE  FinalInv'
<1>1. /\ Arrives(p, "creator_confirmed") /\ attempt[p].role = "scanner"
      /\ UNCHANGED history /\ pledged' = pledged /\ cancelled' = cancelled
  BY DEF ReceiveCreatorConfirmed, Finalizing, history
<1>2. attempt[p].id # NoPair /\ inbox[p] # <<>> /\ Head(inbox[p]) = "creator_confirmed"
  BY <1>1, Hears
<1>3. PICK loaded \in LoadConfirmed(store[p]) :
        IF loaded # "confirmed"
        THEN FailAttempt(p, store[p], FALSE, TRUE)
        ELSE \/ Complete(p, store[p], <<"converged">>)
             \/ FailAttempt(p, store[p], TRUE, TRUE)
  BY DEF ReceiveCreatorConfirmed
<1>4. CASE FailAttempt(p, store[p], FALSE, TRUE) \/ FailAttempt(p, store[p], TRUE, TRUE)
  BY <1>1, <1>2, <1>4, FailHereFinal
<1>5. CASE loaded = "confirmed" /\ Complete(p, store[p], <<"converged">>)
  <2>1. PICK s : s = store[p]
    OBVIOUS
  <2>2. SetTrust(p, s, "paired") /\ Release(p, <<"converged">>)
    BY <1>5, <2>1 DEF Complete
  <2>3. LoadResult(s) = "confirmed"
    BY <1>3, <1>5, <2>1 DEF LoadConfirmed, IfFaulty
  <2>4. Shows(s, "paired") /\ Leaves(p, s)
    BY <2>1, <2>3, LesserLeaves DEF Shows, AttemptKinds
  <2>5. Parting(p, <<"converged">>)
    BY <1>1, <1>2 DEF Parting
  <2>6. <<"converged">> \in Seq(Message) /\ <<"converged">> # <<"PAIR_CANCEL">>
    BY FramesType DEF Message
  <2>7. \A a \in Pair : pledged[a] \subseteq pledged'[a]
    BY <1>1
  <2> QED
    BY <1>1, <1>2, <2>2, <2>4, <2>5, <2>6, <2>7, EndsFinal
<1> QED
  BY <1>3, <1>4, <1>5

\* converged on the creator: it completes.
LEMMA ReceiveConvergedFinal ==
  ASSUME Final, NEW p \in Phone, ReceiveConverged(p)
  PROVE  FinalInv'
<1>1. /\ Arrives(p, "converged") /\ UNCHANGED history
      /\ pledged' = pledged /\ cancelled' = cancelled
  BY DEF ReceiveConverged, Finalizing, history
<1>2. attempt[p].id # NoPair
  BY <1>1, Hears
<1>3. PICK loaded, conv :
        /\ loaded \in LoadConfirmed(store[p]) /\ conv = attempt[p].converged
        /\ IF loaded = "confirmed" THEN Complete(p, store[p], <<>>)
                                   ELSE FailAttempt(p, store[p], conv, TRUE)
  BY DEF ReceiveConverged
<1>4. CASE loaded # "confirmed"
  BY <1>1, <1>2, <1>3, <1>4, FailHereFinal
<1>5. CASE loaded = "confirmed"
  <2>1. PICK s : s = store[p]
    OBVIOUS
  <2>2. SetTrust(p, s, "paired") /\ Release(p, <<>>)
    BY <1>3, <1>5, <2>1 DEF Complete
  <2>3. LoadResult(s) = "confirmed"
    BY <1>3, <1>5, <2>1 DEF LoadConfirmed, IfFaulty
  <2>4. Shows(s, "paired") /\ Leaves(p, s)
    BY <2>1, <2>3, LesserLeaves DEF Shows, AttemptKinds
  <2>5. Parting(p, <<>>) /\ <<>> \in Seq(Message) /\ <<>> # <<"PAIR_CANCEL">>
    BY FramesType DEF Parting
  <2>6. \A a \in Pair : pledged[a] \subseteq pledged'[a]
    BY <1>1
  <2> QED
    BY <1>1, <1>2, <2>2, <2>4, <2>5, <2>6, EndsFinal
<1> QED
  BY <1>4, <1>5

\* The other ways an attempt ends: cancelNow, PAIR_CANCEL, PAIR_ERROR, a dead
\* socket or listener, the timer, and a confirmation out of turn.
LEMMA OtherEndsFinal ==
  ASSUME Final, NEW p \in Phone,
         \/ Cancel(p) \/ ReceiveCancel(p) \/ ReceiveError(p) \/ ReceiveClosed(p)
         \/ ReceiveListenerError(p) \/ Expire(p) \/ ConfirmOutOfTurn(p)
  PROVE  FinalInv'
<1>1. CASE Cancel(p)
  <2>1. /\ attempt[p].id # NoPair /\ AbandonAttempt(p, <<"PAIR_CANCEL">>)
        /\ cancelled' = cancelled \cup {attempt[p].id} /\ pledged' = pledged
    BY <1>1 DEF Cancel, Active
  <2> QED
    BY <2>1, AbandonFinal
<1>2. CASE ReceiveCancel(p)
  <2>1. /\ Arrives(p, "PAIR_CANCEL") /\ AbandonAttempt(p, <<>>)
        /\ cancelled' = cancelled /\ pledged' = pledged
    BY <1>2 DEF ReceiveCancel, history
  <2>2. attempt[p].id # NoPair
    BY <2>1, Hears
  <2>3. <<>> # <<"PAIR_CANCEL">>
    OBVIOUS
  <2> QED
    BY <2>1, <2>2, <2>3, AbandonFinal
<1>3. PICK conv : conv = attempt[p].converged
  OBVIOUS
<1>4. CASE ReceiveError(p)
  <2>1. Arrives(p, "PAIR_ERROR") /\ FailAttempt(p, store[p], conv, FALSE) /\ UNCHANGED history
    BY <1>3, <1>4 DEF ReceiveError
  <2> QED
    BY <2>1, Hears, FailHereFinal
<1>5. CASE ReceiveClosed(p)
  <2>1. attempt[p].linked /\ FailAttempt(p, store[p], conv, FALSE) /\ UNCHANGED history
    BY <1>3, <1>5 DEF ReceiveClosed
  <2> QED
    BY <2>1, LinkedActive, FailHereFinal DEF Final
<1>6. CASE ReceiveListenerError(p)
  <2>1. attempt[p].role = "creator" /\ FailAttempt(p, store[p], conv, FALSE) /\ UNCHANGED history
    BY <1>3, <1>6 DEF ReceiveListenerError
  <2> QED
    BY <2>1, LinkedActive, FailHereFinal DEF Final
<1>7. CASE Expire(p)
  <2>1. attempt[p].id # NoPair /\ FailAttempt(p, store[p], conv, TRUE) /\ UNCHANGED history
    BY <1>3, <1>7 DEF Expire, Active
  <2> QED
    BY <2>1, FailHereFinal
<1>8. CASE ConfirmOutOfTurn(p)
  <2>1. attempt[p].id # NoPair /\ FailAttempt(p, store[p], conv, TRUE) /\ UNCHANGED history
    BY <1>3, <1>8 DEF ConfirmOutOfTurn, Active
  <2> QED
    BY <2>1, FailHereFinal
<1> QED
  BY <1>1, <1>2, <1>4, <1>5, <1>6, <1>7, <1>8
-----------------------------------------------------------------------------
(***************************************************************************)
(* The steps of a phone without an attempt, and of the environment.        *)
(***************************************************************************)

\* A phone without an attempt changes its store and its screen.
LEMMA IdleFinal ==
  ASSUME Final, NEW p \in Phone, attempt[p].id = NoPair, UNCHANGED <<attempt, network, history>>,
         NEW s, NEW kind, SetTrust(p, s, kind), Shows(s, kind), Leaves(p, s)
  PROVE  FinalInv'
<1>1. /\ UNCHANGED <<attempt, owner, joiner, sock, up, inbox, pledged, cancelled>>
      /\ store'[p] = s /\ ui'[p] = kind
      /\ \A q \in Phone \ {p} : store'[q] = store[q] /\ ui'[q] = ui[q]
  BY DEF SetTrust, network, history, Final, Sound, TrustOK
<1>2. attempt[p] = NoAttempt
  BY NoRole DEF Final
<1>3. \A q \in Phone \ {p} : Script(attempt[q], store[q], inbox'[q], sock[q])
  BY <1>1, FinalParts DEF Final, PhoneFits
<1>4. PhoneFits(p)' /\ PledgedBy(p)'
  BY <1>1, <1>2 DEF PhoneFits, PledgedBy, Script, Screen, Shows, Leaves
<1>5. ASSUME NEW a \in up' PROVE JointOK(a)'
  <2>1. a \in up /\ JointOK(a)
    BY <1>1, FinalParts DEF Final
  <2>2. /\ TwoPhones(a) /\ p # joiner[a] /\ a # NoPair
    BY <1>2, <2>1, JointOf, PairAssumption
  <2>3. CASE p # owner[a]
    BY <1>1, <2>1, <2>2, <2>3, JointKept DEF TwoPhones
  <2>4. CASE p = owner[a]
    <3>1. attempt[p].id # a
      BY <2>2
    <3>2. store'[joiner[a]] = store[joiner[a]]
      BY <1>1, <2>2 DEF TwoPhones
    <3> QED
      BY <1>1, <2>1, <2>4, <3>1, <3>2 DEF JointOK, JointAt
  <2> QED
    BY <2>3, <2>4
<1>6. PICK out : out = <<>>
  OBVIOUS
<1>7. \A m \in Carried : ~Sends(out, m)
  BY <1>6, OneFrame DEF Plain
<1>8. \A q \in Phone, b \in Pair, m \in Carried : WillWait(m, b, q) => Waits(m, b, q)
  BY <1>1 DEF WillWait, Waits
<1>9. /\ ~Sends(out, "scanner_committed") /\ ~Sends(out, "creator_committed")
      /\ ~Sends(out, "scanner_confirmed") /\ ~Sends(out, "PAIR_CANCEL")
  BY <1>7 DEF Carried
<1>10. \A b \in Pair : Trusts(store'[p], b) => Trusts(store[p], b) \/ Told(p, b)
  BY <1>1 DEF Leaves
<1> QED
  BY <1>1, <1>3, <1>4, <1>5, <1>8, <1>9, <1>10, StepOfPhone

\* discardIncomplete and loadConfirmed, at a start or a reset.
LEMMA RevalidateFinal ==
  ASSUME Final, NEW p \in Phone, attempt[p].id = NoPair, UNCHANGED <<attempt, network, history>>,
         Revalidate(p)
  PROVE  FinalInv'
<1>0. PICK r \in DiscardIncomplete(store[p]) :
        \E loaded \in IF r.ok THEN LoadConfirmed(r.store) ELSE {"error"} :
          SetTrust(p, r.store, CASE loaded = "confirmed" -> "paired"
                                 [] loaded = "none" -> "unpaired"
                                 [] OTHER -> "error")
  BY DEF Revalidate
<1>1. PICK loaded, kind :
        /\ loaded \in IF r.ok THEN LoadConfirmed(r.store) ELSE {"error"}
        /\ kind = CASE loaded = "confirmed" -> "paired"
                    [] loaded = "none" -> "unpaired"
                    [] OTHER -> "error"
        /\ SetTrust(p, r.store, kind)
  BY <1>0
<1>2. store[p] \in Store /\ StoreFits(store[p])
  BY FinalParts DEF Final, Sound, TrustOK, PhoneFits
<1>3. Lesser(r.store, store[p]) /\ (r.ok /\ LoadResult(r.store) = "none" => r.store = EmptyStore)
  BY <1>2, DiscardFits
<1>4. Leaves(p, r.store)
  BY <1>3, LesserLeaves
<1>5. loaded # "error" => r.ok /\ loaded = LoadResult(r.store)
  BY <1>1 DEF LoadConfirmed, IfFaulty
<1>6. Shows(r.store, kind)
  BY <1>1, <1>3, <1>5 DEF Shows, AttemptKinds
<1> QED
  BY <1>1, <1>4, <1>6, IdleFinal

\* revokePairNow, initialize and resetError, and the start of an attempt that
\* cannot be made.
LEMMA IdleStepsFinal ==
  ASSUME Final, NEW p \in Phone,
         \/ Revoke(p) \/ Initialize(p) \/ ResetError(p) \/ StartRefused(p)
         \/ \E a \in Pair : ScanUnreachable(p, a)
  PROVE  FinalInv'
<1>1. /\ UNCHANGED <<attempt, network, history>>
      /\ \/ ui[p] \in {"paired", "loading", "error"}
         \/ Idle(p)
  BY DEF Revoke, Initialize, ResetError, StartRefused, ScanUnreachable
<1>2. attempt[p].id = NoPair
  <2>1. Screen(attempt[p], store[p], ui[p])
    BY FinalParts DEF Final, PhoneFits
  <2> QED
    BY <1>1, <2>1 DEF Screen, AttemptKinds, Idle, Active
<1>3. store[p] \in Store
  BY DEF Final, Sound, TrustOK
<1>4. CASE Revoke(p)
  <2>0. PICK r \in AbortPairAttempt(store[p]) :
          SetTrust(p, r.store, IF r.ok THEN "unpaired" ELSE "error")
    BY <1>4 DEF Revoke, RevokePair
  <2>1. PICK kind : kind = (IF r.ok THEN "unpaired" ELSE "error") /\ SetTrust(p, r.store, kind)
    BY <2>0
  <2>2. Leaves(p, r.store)
    BY <1>3, AbortLesser, LesserLeaves
  <2>3. Shows(r.store, kind)
    BY <1>3, <2>1, AbortRemoves DEF Shows, AttemptKinds
  <2> QED
    BY <1>1, <1>2, <2>1, <2>2, <2>3, IdleFinal
<1>5. CASE Initialize(p) \/ ResetError(p)
  <2>1. Revalidate(p)
    BY <1>5 DEF Initialize, ResetError
  <2> QED
    BY <1>1, <1>2, <2>1, RevalidateFinal
<1>6. CASE StartRefused(p)
  <2>1. PICK s : s = store[p]
    OBVIOUS
  <2>2. SetTrust(p, s, "error")
    BY <1>6, <2>1 DEF StartRefused, SetTrust, Final, Sound, TrustOK
  <2>3. Leaves(p, s) /\ Shows(s, "error")
    BY <2>1, LesserLeaves DEF Shows, AttemptKinds
  <2> QED
    BY <1>1, <1>2, <2>2, <2>3, IdleFinal
<1>7. ASSUME NEW a \in Pair, ScanUnreachable(p, a) PROVE FinalInv'
  <2>1. PICK r \in AbortPairAttempt(store[p]) : SetTrust(p, r.store, "error")
    BY <1>7 DEF ScanUnreachable
  <2>2. Leaves(p, r.store) /\ Shows(r.store, "error")
    BY <1>3, AbortLesser, LesserLeaves DEF Shows, AttemptKinds
  <2> QED
    BY <1>1, <1>2, <2>1, <2>2, IdleFinal
<1> QED
  BY <1>4, <1>5, <1>6, <1>7

\* A link or a listener breaks, or nothing happens.
LEMMA LinkFinal ==
  ASSUME Final, UNCHANGED <<attempt, ui, store, owner, joiner, sock, inbox, pledged, cancelled>>,
         up' \subseteq up
  PROVE  FinalInv'
<1>1. /\ \A p \in Phone : PhoneFits(p) /\ PledgedBy(p)
      /\ \A a \in up : JointOK(a)
      /\ \A a \in Pair : Joined(a) => CreatorHas(a) /\ ScannerHas(a) /\ PledgedFrames(a)
      /\ Cancels
  BY FinalParts DEF Final
<1>2. \A p \in Phone : PhoneFits(p)' /\ PledgedBy(p)'
  BY <1>1 DEF PhoneFits, PledgedBy
<1>3. \A a \in up' : JointOK(a)'
  BY <1>1 DEF JointOK
<1>4. \A a \in Pair : Joined(a)' => CreatorHas(a)' /\ ScannerHas(a)' /\ PledgedFrames(a)'
  BY <1>1 DEF Joined, CreatorHas, ScannerHas, PledgedFrames, Waits
<1>5. Cancels'
  BY <1>1 DEF Cancels, Waits
<1> QED
  BY <1>2, <1>3, <1>4, <1>5, FinalPartsNext

\* The creator learns of its socket: its turns begin.
LEMMA ReceiveConnectedFinal ==
  ASSUME Final, NEW p \in Phone, ReceiveConnected(p)
  PROVE  FinalInv'
<1> DEFINE a == attempt[p].id
<1>1. /\ a # NoPair /\ a = sock[p] /\ inbox[p] # <<>> /\ Head(inbox[p]) = "connected"
      /\ attempt' = [attempt EXCEPT ![p].linked = TRUE] /\ inbox' = [inbox EXCEPT ![p] = Rest(p)]
      /\ UNCHANGED <<ui, store, owner, joiner, sock, up, pledged, cancelled>>
  BY DEF ReceiveConnected, Active, history
<1>2. ~attempt[p].linked
  <2>1. attempt[p].linked => Arrives(p, "connected")
    BY <1>1 DEF Arrives
  <2> QED
    BY <2>1, Hears, CreatorHears, ScannerHears DEF LastWord
<1>3. attempt[p].role = "creator" /\ Came("waiting_remote_identity", attempt[p], store[p])
  BY <1>1, <1>2, ScannerLinked
<1>4. a \in Pair /\ owner[a] = p /\ attempt[p] \in Attempt
  BY <1>1, <1>3, AttemptRole DEF Final
<1>5. Said2(inbox[p], "connected", "PAIR_HELLO")
  <2>1. Script(attempt[p], store[p], inbox[p], sock[p]) /\ attempt[p] # NoAttempt
    BY <1>1, FinalParts DEF Final, PhoneFits, NoAttempt
  <2> QED
    BY <1>1, <1>2, <2>1 DEF Script
<1>6. /\ attempt'[p].linked /\ attempt'[p].id = a /\ attempt'[p].role = "creator"
      /\ attempt'[p].phase = attempt[p].phase /\ attempt'[p].converged = attempt[p].converged
      /\ inbox'[p] = Tail(inbox[p])
      /\ \A q \in Phone \ {p} : attempt'[q] = attempt[q] /\ inbox'[q] = inbox[q]
  <2>1. attempt[p].role = "creator"
    BY <1>3
  <2>2. attempt'[p] = [attempt[p] EXCEPT !.linked = TRUE]
        /\ \A q \in Phone \ {p} : attempt'[q] = attempt[q]
    BY <1>1 DEF Final, Sound, NetworkOK
  <2>3. inbox'[p] = Tail(inbox[p]) /\ \A q \in Phone \ {p} : inbox'[q] = inbox[q]
    BY <1>1 DEF Final, Sound, NetworkOK, Rest
  <2> QED
    BY <1>4, <2>1, <2>2, <2>3 DEF Attempt
<1>7. Came("waiting_remote_identity", attempt'[p], store[p])
  BY <1>3, <1>6 DEF Came
<1>8. PhoneFits(p)' /\ PledgedBy(p)'
  <2>1. Said1(Tail(inbox[p]), "PAIR_HELLO")
    BY <1>5, SaidRest
  <2>2. CreatorScript(attempt'[p], store[p], inbox'[p])
    BY <1>6, <1>7, <2>1 DEF CreatorScript
  <2>3. Script(attempt'[p], store'[p], inbox'[p], sock'[p])
    BY <1>1, <1>6, <2>2 DEF Script
  <2>4. StoreFits(store[p]) /\ Screen(attempt[p], store[p], ui[p]) /\ PledgedBy(p)
    BY FinalParts DEF Final, PhoneFits
  <2>5. Screen(attempt'[p], store'[p], ui'[p])
    BY <1>1, <1>6, <2>4 DEF Screen
  <2>6. PhoneFits(p)'
    BY <1>1, <2>3, <2>4, <2>5 DEF PhoneFits
  <2>7. PledgedBy(p)'
    BY <1>1, <1>3, <1>6, <2>4 DEF PledgedBy
  <2> QED
    BY <2>6, <2>7
<1>9. ASSUME NEW b \in up' PROVE JointOK(b)'
  <2>1. b \in up /\ TwoPhones(b) /\ sock[owner[b]] = b /\ sock[joiner[b]] = b
    BY <1>1, <1>9, JointOf
  <2>2. CASE b = a
    <3>1. /\ attempt[joiner[a]].id = a /\ attempt[joiner[a]].linked
          /\ inbox[p] = <<"connected", "PAIR_HELLO">> /\ inbox[joiner[a]] = <<>>
          /\ Came("waiting_remote_identity", attempt[joiner[a]], store[joiner[a]])
      BY <1>2, <1>4, <2>1, <2>2, JointOf
    <3>2. joiner[a] \in Phone \ {p}
      BY <1>4, <2>1, <2>2 DEF TwoPhones
    <3>3. inbox'[p] = <<"PAIR_HELLO">>
      BY <1>6, <3>1, Literals
    <3>4. /\ owner'[b] = p /\ joiner'[b] = joiner[a] /\ store' = store
          /\ attempt'[joiner[a]] = attempt[joiner[a]] /\ inbox'[joiner[a]] = <<>>
      BY <1>1, <1>4, <1>6, <2>2, <3>1, <3>2
    <3>5. Turns(attempt'[p], store[p], inbox'[p], attempt[joiner[a]], store[joiner[a]], <<>>)
      BY <1>7, <3>1, <3>3 DEF Turns
    <3>6. JointAt(b, attempt'[p], store[p], inbox'[p], attempt[joiner[a]], store[joiner[a]], <<>>)
      BY <1>6, <2>2, <3>1, <3>5 DEF JointAt
    <3> QED
      BY <3>4, <3>6 DEF JointOK
  <2>3. CASE b # a
    <3>1. \A q \in {owner[b], joiner[b]} : q \in Phone \ {p}
      BY <1>1, <2>1, <2>3 DEF TwoPhones
    <3> QED
      BY <1>1, <1>6, <2>1, <3>1, JointKept
  <2> QED
    BY <2>2, <2>3
<1>10. PICK out : out = <<>>
  OBVIOUS
<1>11. /\ ~Sends(out, "scanner_committed") /\ ~Sends(out, "creator_committed")
       /\ ~Sends(out, "scanner_confirmed") /\ ~Sends(out, "PAIR_CANCEL")
  BY <1>10, OneFrame DEF Plain, Carried
<1>12. ASSUME NEW q \in Phone, NEW b, NEW m, WillWait(m, b, q)
       PROVE  Waits(m, b, q)
  <2>1. CASE q = p
    <3>1. inbox'[p] = Rest(p)
      BY <1>6 DEF Rest
    <3> QED
      BY <1>1, <1>12, <2>1, <3>1, RestFrames DEF WillWait, Waits, Final, Sound
  <2>2. CASE q # p
    BY <1>1, <1>6, <1>12, <2>2 DEF WillWait, Waits
  <2> QED
    BY <2>1, <2>2
<1>13. \A q \in Phone \ {p} :
         /\ attempt'[q] = attempt[q] /\ store'[q] = store[q] /\ ui'[q] = ui[q] /\ sock'[q] = sock[q]
         /\ Script(attempt[q], store[q], inbox'[q], sock[q])
  BY <1>1, <1>6, FinalParts DEF Final, PhoneFits
<1> QED
  BY <1>1, <1>6, <1>8, <1>9, <1>11, <1>12, <1>13, StepOfPhone

\* A phone drops a socket, and what it heard on it, that it no longer uses, or
\* dies: its attempt and its store may be lost with it.
LEMMA DropsFinal ==
  ASSUME Final, NEW p \in Phone, UNCHANGED <<owner, joiner, pledged, cancelled>>,
         sock' = [sock EXCEPT ![p] = NoPair], up' = up \ {sock[p]}, inbox' = [inbox EXCEPT ![p] = <<>>],
         \A q \in Phone \ {p} : attempt'[q] = attempt[q] /\ store'[q] = store[q] /\ ui'[q] = ui[q],
         PhoneFits(p)', PledgedBy(p)',
         \A b \in Pair : Trusts(store'[p], b) => Trusts(store[p], b),
         attempt'[p] = NoAttempt \/ (attempt'[p] = attempt[p] /\ store'[p] = store[p])
  PROVE  FinalInv'
<1>1. /\ sock'[p] = NoPair /\ inbox'[p] = <<>>
      /\ \A q \in Phone \ {p} : sock'[q] = sock[q] /\ inbox'[q] = inbox[q]
  BY DEF Final, Sound, NetworkOK
<1>2. ASSUME NEW b \in up' PROVE JointOK(b)'
  <2>1. b \in up /\ TwoPhones(b) /\ p # owner[b] /\ p # joiner[b]
    BY <1>2, JointOf
  <2>2. \A q \in {owner[b], joiner[b]} : q \in Phone \ {p}
    BY <2>1 DEF TwoPhones
  <2> QED
    BY <1>1, <2>1, <2>2, JointKept
<1>3. PICK out : out = <<>>
  OBVIOUS
<1>4. /\ ~Sends(out, "scanner_committed") /\ ~Sends(out, "creator_committed")
      /\ ~Sends(out, "scanner_confirmed") /\ ~Sends(out, "PAIR_CANCEL")
  BY <1>3, OneFrame DEF Plain, Carried
<1>5. ASSUME NEW q \in Phone, NEW b \in Pair, NEW m \in Carried, WillWait(m, b, q)
      PROVE  Waits(m, b, q)
  <2>1. CASE q = p
    BY <1>1, <1>5, <2>1, PairAssumption DEF WillWait
  <2>2. CASE q # p
    BY <1>1, <1>5, <2>2 DEF WillWait, Waits
  <2> QED
    BY <2>1, <2>2
<1>6. \A q \in Phone \ {p} :
         /\ attempt'[q] = attempt[q] /\ store'[q] = store[q] /\ ui'[q] = ui[q] /\ sock'[q] = sock[q]
         /\ Script(attempt[q], store[q], inbox'[q], sock[q])
  BY <1>1, FinalParts DEF Final, PhoneFits
<1>7. attempt'[p].id # NoPair => attempt'[p] = attempt[p] /\ store'[p] = store[p]
  BY DEF NoAttempt
<1> QED
  BY <1>2, <1>4, <1>5, <1>6, <1>7, StepOfPhone

\* The native module drops a socket that no attempt owns.
LEMMA OrphanClosedFinal ==
  ASSUME Final, NEW p \in Phone, OrphanClosed(p)
  PROVE  FinalInv'
<1>1. /\ sock[p] \notin up /\ sock[p] # NoPair /\ sock[p] # attempt[p].id
      /\ sock' = [sock EXCEPT ![p] = NoPair] /\ inbox' = [inbox EXCEPT ![p] = <<>>]
      /\ UNCHANGED <<attempt, ui, store, owner, joiner, up, pledged, cancelled>>
  BY DEF OrphanClosed, service, history
<1>2. sock'[p] = NoPair /\ up' = up \ {sock[p]}
  BY <1>1 DEF Final, Sound, NetworkOK
<1>3. PhoneFits(p) /\ PledgedBy(p)
  BY FinalParts DEF Final
<1>4. ~attempt[p].linked
  BY <1>1, LinkedActive, AttemptRole DEF Final
<1>5. attempt[p] # NoAttempt => attempt[p].id # NoPair
  BY NoRole DEF Final
<1>6. PhoneFits(p)'
  <2>1. Script(attempt[p], store[p], <<>>, NoPair)
    BY <1>3, <1>4, <1>5 DEF PhoneFits, Script
  <2>2. inbox'[p] = <<>>
    BY <1>1 DEF Final, Sound, NetworkOK
  <2> QED
    BY <1>1, <1>2, <1>3, <2>1, <2>2 DEF PhoneFits
<1>7. PledgedBy(p)'
  BY <1>1, <1>3 DEF PledgedBy
<1> QED
  BY <1>1, <1>2, <1>6, <1>7, DropsFinal

\* The store a process death can leave brings no trust.
LEMMA InterruptedLesser ==
  ASSUME Final, NEW p \in Phone, NEW w \in Interrupted(p)
  PROVE  Lesser(w, store[p])
<1>1. PICK s, at, next : /\ s = store[p] /\ at = attempt[p]
                         /\ next = IF at.linked /\ inbox[p] # <<>> THEN Head(inbox[p]) ELSE "none"
  OBVIOUS
<1>2. s \in Store /\ at \in Attempt
  BY <1>1 DEF Final, Sound, TrustOK, NetworkOK
<1>3. \/ w \in StageWrites(s, at.id)
      \/ next \in {"creator_ready", "scanner_committed"} /\ w \in InstallWrites(s)
      \/ w \in Remnants(s)
      \/ w \in PartlyNoPending(s)
  BY <1>1 DEF Interrupted
<1>4. CASE w \in StageWrites(s, at.id)
  BY <1>1, <1>2, <1>4, StageWritesLesser DEF Attempt
<1>5. CASE next \in {"creator_ready", "scanner_committed"} /\ w \in InstallWrites(s)
  <2>1. Arrives(p, next)
    BY <1>1, <1>5 DEF Arrives
  <2>2. Came("staged", at, s) /\ at.id \in Pair
    BY <1>1, <1>5, <2>1, Hears, CreatorHears, ScannerHears DEF LastWord
  <2>3. IsStaged(s, at.id)
    BY <2>2, CameTo
  <2> QED
    BY <1>1, <1>2, <1>5, <2>2, <2>3, InstallWritesLesser
<1>6. CASE w \in Remnants(s)
  BY <1>1, <1>2, <1>6, RemnantsLesser
<1>7. CASE w \in PartlyNoPending(s)
  BY <1>1, <1>2, <1>7, PartlyNoPendingWithin, PendingLesser DEF Within
<1> QED
  BY <1>3, <1>4, <1>5, <1>6, <1>7

\* A process death takes the attempt and its socket, and leaves less trust.
LEMMA CrashFinal ==
  ASSUME Final, NEW p \in Phone, Crash(p)
  PROVE  FinalInv'
<1>1. PICK s \in Interrupted(p) : SetTrust(p, s, "loading")
  BY DEF Crash
<1>2. /\ attempt' = [attempt EXCEPT ![p] = NoAttempt] /\ sock' = [sock EXCEPT ![p] = NoPair]
      /\ up' = up \ {sock[p]} /\ inbox' = [inbox EXCEPT ![p] = <<>>]
      /\ UNCHANGED <<owner, joiner, pledged, cancelled>>
  BY DEF Crash
<1>3. /\ attempt'[p] = NoAttempt /\ store'[p] = s /\ ui'[p] = "loading"
      /\ \A q \in Phone \ {p} : attempt'[q] = attempt[q] /\ store'[q] = store[q] /\ ui'[q] = ui[q]
  BY <1>1, <1>2 DEF SetTrust, Final, Sound, TrustOK, NetworkOK
<1>4. Lesser(s, store[p]) /\ StoreFits(store[p])
  BY InterruptedLesser, FinalParts DEF Final, PhoneFits
<1>5. NoAttempt.id = NoPair
  BY DEF NoAttempt
<1>6. PhoneFits(p)' /\ PledgedBy(p)'
  BY <1>3, <1>4, <1>5 DEF PhoneFits, PledgedBy, Script, Screen, AttemptKinds, Lesser
<1>7. \A b \in Pair : Trusts(store'[p], b) => Trusts(store[p], b)
  BY <1>3, <1>4 DEF Lesser
<1> QED
  BY <1>2, <1>3, <1>6, <1>7, DropsFinal

\* A phone that starts an attempt has no attempt, and no pair is loaded.
LEMMA StartIs ==
  ASSUME Final, NEW p \in Phone, Idle(p), "none" \in LoadConfirmed(store[p])
  PROVE  /\ attempt[p] = NoAttempt /\ attempt[p].id = NoPair
         /\ Blank(store[p]) /\ StoreFits(store[p])
         /\ \A a \in up : p # joiner[a]
<1>1. attempt[p].id = NoPair
  BY DEF Idle, Active
<1>2. LoadResult(store[p]) = "none"
  BY DEF LoadConfirmed, IfFaulty
<1>3. \A a \in up : p # joiner[a]
  BY <1>1, JointOf, PairAssumption
<1> QED
  BY <1>1, <1>2, <1>3, NoRole, FinalParts DEF Final, PhoneFits, Blank



\* startCreatorNow: the QR is up, and nobody has joined.
LEMMA CreateQrFinal ==
  ASSUME Final, NEW p \in Phone, NEW a \in Pair, CreateQr(p, a)
  PROVE  FinalInv'
<1>1. /\ Idle(p) /\ owner[a] = NoPhone /\ "none" \in LoadConfirmed(store[p])
      /\ owner' = [owner EXCEPT ![a] = p]
      /\ attempt' = [attempt EXCEPT ![p] = NewAttempt(a, "creator", FALSE)]
      /\ ui' = [ui EXCEPT ![p] = "creator_qr"]
      /\ UNCHANGED <<store, joiner, sock, up, inbox, pledged, cancelled>>
  BY DEF CreateQr, history
<1>2. /\ attempt[p] = NoAttempt /\ attempt[p].id = NoPair /\ Blank(store[p]) /\ StoreFits(store[p])
      /\ \A b \in up : p # joiner[b]
  BY <1>1, StartIs
<1>3. joiner[a] = NoPhone /\ a # NoPair
  BY <1>1, PairAssumption DEF Final, Sound, ConsentInv, Fresh
<1>4. /\ \A q \in Phone : sock[q] # a /\ ~Holds(q, a) /\ attempt[q].id # a
      /\ a \notin up
  <2>1. joiner[a] \notin Phone
    BY <1>3, PhoneAssumption
  <2>2. \A q \in Phone : attempt[q] # NoAttempt /\ attempt[q].id = a => owner[a] = q
    BY <2>1, UnusedAttempt DEF Final
  <2>3. \A q \in Phone : attempt[q].id # a
    BY <1>1, <1>3, <2>2, PhoneAssumption DEF NoAttempt
  <2> QED
    BY <2>1, <2>3, UnusedAttempt DEF Final
<1>5. PICK at : at = NewAttempt(a, "creator", FALSE)
  OBVIOUS
<1>6. /\ at.id = a /\ at.role = "creator" /\ ~at.linked
      /\ Came("waiting_remote_identity", at, store[p])
  BY <1>2, <1>5 DEF NewAttempt, Came, Phase
<1>7. /\ attempt'[p] = at /\ ui'[p] = "creator_qr" /\ owner'[a] = p
      /\ \A q \in Phone \ {p} : attempt'[q] = attempt[q] /\ ui'[q] = ui[q]
      /\ \A b \in Pair \ {a} : owner'[b] = owner[b]
  BY <1>1, <1>5 DEF Final, Sound, NetworkOK, TrustOK
<1>8. ASSUME NEW q \in Phone PROVE PhoneFits(q)' /\ PledgedBy(q)'
  <2>1. CASE q = p
    <3>1. Script(at, store[p], inbox[p], sock[p])
      BY <1>4, <1>6 DEF Script
    <3>2. Screen(at, store[p], "creator_qr")
      BY <1>3, <1>6 DEF Screen, AttemptKinds
    <3>3. store[p].meta # a
      BY <1>4 DEF Holds, Material
    <3> QED
      BY <1>1, <1>2, <1>6, <1>7, <2>1, <3>1, <3>2, <3>3 DEF PhoneFits, PledgedBy
  <2>2. CASE q # p
    BY <1>1, <1>7, <2>2, FinalParts DEF Final, PhoneFits, PledgedBy
  <2> QED
    BY <2>1, <2>2
<1>9. ASSUME NEW b \in up' PROVE JointOK(b)'
  <2>1. b \in up /\ b \in Pair \ {a} /\ TwoPhones(b) /\ p # joiner[b] /\ JointOK(b)
    BY <1>1, <1>2, <1>4, <1>9, JointOf, FinalParts DEF Final
  <2>2. owner'[b] = owner[b] /\ joiner'[b] = joiner[b] /\ attempt'[joiner[b]] = attempt[joiner[b]]
    BY <1>1, <1>7, <2>1 DEF TwoPhones
  <2>3. CASE p # owner[b]
    <3>1. attempt'[owner[b]] = attempt[owner[b]]
      BY <1>7, <2>1, <2>3 DEF TwoPhones
    <3> QED
      BY <1>1, <2>1, <2>2, <3>1 DEF JointOK
  <2>4. CASE p = owner[b]
    <3>1. attempt[p].id # b /\ attempt'[p].id # b
      BY <1>2, <1>6, <1>7, <2>1, PairAssumption
    <3> QED
      BY <1>1, <2>1, <2>2, <2>4, <3>1 DEF JointOK, JointAt
  <2> QED
    BY <2>3, <2>4
<1>10. ASSUME NEW b \in Pair, Joined(b)'
       PROVE  CreatorHas(b)' /\ ScannerHas(b)' /\ PledgedFrames(b)'
  <2>1. b # a
    BY <1>1, <1>3, <1>10, PhoneAssumption DEF Joined
  <2>2. owner'[b] = owner[b] /\ joiner'[b] = joiner[b] /\ Joined(b)
    BY <1>1, <1>7, <1>10, <2>1 DEF Joined
  <2>3. CreatorHas(b) /\ ScannerHas(b) /\ PledgedFrames(b)
    BY <2>2, FinalParts DEF Final
  <2>4. \A q \in Phone : attempt'[q].id = b => attempt[q].id = b
    BY <1>6, <1>7, <2>1
  <2> QED
    BY <1>1, <2>2, <2>3, <2>4 DEF Joined, CreatorHas, ScannerHas, PledgedFrames, Waits
<1>11. Cancels'
  BY <1>1, FinalParts DEF Final, Cancels, Waits
<1> QED
  BY <1>8, <1>9, <1>10, <1>11, FinalPartsNext

\* startScannerNow: the scanner is linked, and the creator's listener has
\* accepted it, or refused it.
LEMMA ScanConnectFinal ==
  ASSUME Final, NEW p \in Phone, NEW a \in Pair, ScanConnect(p, a)
  PROVE  FinalInv'
<1> DEFINE o == owner[a]
           hello == <<"connected", "PAIR_HELLO">>
<1>1. /\ Idle(p) /\ o \in Phone \ {p} /\ "none" \in LoadConfirmed(store[p])
      /\ listener[a] = "open" /\ sock[p] = NoPair
      /\ joiner' = [joiner EXCEPT ![a] = p]
      /\ attempt' = [attempt EXCEPT ![p] = NewAttempt(a, "scanner", TRUE)]
      /\ ui' = [ui EXCEPT ![p] = "waiting_partner"]
      /\ UNCHANGED <<store, owner, pledged, cancelled>>
      /\ \/ /\ sock[o] = NoPair /\ sock' = [sock EXCEPT ![p] = a, ![o] = a]
            /\ up' = up \cup {a} /\ inbox' = [inbox EXCEPT ![o] = hello]
         \/ sock' = [sock EXCEPT ![p] = a] /\ UNCHANGED <<up, inbox>>
  BY DEF ScanConnect, history
<1>2. /\ attempt[p] = NoAttempt /\ attempt[p].id = NoPair /\ Blank(store[p]) /\ StoreFits(store[p])
      /\ \A b \in up : p # joiner[b]
  BY <1>1, StartIs
<1>3. joiner[a] = NoPhone /\ a # NoPair
  BY <1>1, PairAssumption DEF Final, Sound, ConsentInv, Fresh
<1>4. /\ \A q \in Phone : sock[q] # a /\ ~Holds(q, a)
      /\ a \notin up
      /\ \A q \in Phone : attempt[q].id = a => q = o
  <2>1. joiner[a] \notin Phone
    BY <1>3, PhoneAssumption
  <2>2. \A q \in Phone : attempt[q] # NoAttempt /\ attempt[q].id = a => owner[a] = q
    BY <2>1, UnusedAttempt DEF Final
  <2>3. \A q \in Phone : attempt[q].id = a => q = o
    BY <1>3, <2>2 DEF NoAttempt
  <2> QED
    BY <2>1, <2>3, UnusedAttempt DEF Final
<1>5. PICK at : at = NewAttempt(a, "scanner", TRUE)
  OBVIOUS
<1>6. /\ at.id = a /\ at.role = "scanner" /\ at.linked
      /\ Came("waiting_remote_identity", at, store[p])
  BY <1>2, <1>5 DEF NewAttempt, Came, Phase
<1>7. /\ attempt'[p] = at /\ ui'[p] = "waiting_partner" /\ joiner'[a] = p
      /\ \A q \in Phone \ {p} : attempt'[q] = attempt[q] /\ ui'[q] = ui[q]
      /\ \A b \in Pair \ {a} : joiner'[b] = joiner[b]
  BY <1>1, <1>5 DEF Final, Sound, NetworkOK, TrustOK
<1>8. inbox[p] = <<>> /\ (sock[o] = NoPair => inbox[o] = <<>>)
  BY <1>1, PairAssumption DEF Final, Sound, ConsentInv, Sockets
<1>9. /\ sock'[p] = a /\ inbox'[p] = <<>>
      /\ \A q \in Phone \ {p, o} : sock'[q] = sock[q] /\ inbox'[q] = inbox[q]
      /\ \/ sock[o] = NoPair /\ sock'[o] = a /\ inbox'[o] = hello /\ up' = up \cup {a}
         \/ sock'[o] = sock[o] /\ inbox'[o] = inbox[o] /\ up' = up
  <2>1. CASE /\ sock[o] = NoPair /\ sock' = [sock EXCEPT ![p] = a, ![o] = a]
             /\ up' = up \cup {a} /\ inbox' = [inbox EXCEPT ![o] = hello]
    BY <1>1, <1>8, <2>1 DEF Final, Sound, NetworkOK
  <2>2. CASE sock' = [sock EXCEPT ![p] = a] /\ UNCHANGED <<up, inbox>>
    BY <1>1, <1>8, <2>2 DEF Final, Sound, NetworkOK
  <2> QED
    BY <1>1, <2>1, <2>2
<1>10. sock[o] = NoPair => ~attempt[o].linked
  BY <1>1, LinkedActive, AttemptRole DEF Final
<1> HIDE DEF o, hello
<1>11. ASSUME NEW q \in Phone PROVE PhoneFits(q)' /\ PledgedBy(q)'
  <2>1. CASE q = p
    <3>1. Script(at, store[p], <<>>, a)
      BY <1>6 DEF Script, ScannerScript, Said0
    <3>2. Screen(at, store[p], "waiting_partner")
      BY <1>3, <1>6 DEF Screen, AttemptKinds
    <3>3. store[p].meta # a
      BY <1>4 DEF Holds, Material
    <3>4. /\ attempt'[p] = at /\ ui'[p] = "waiting_partner" /\ store'[p] = store[p]
          /\ sock'[p] = a /\ inbox'[p] = <<>>
      BY <1>1, <1>7, <1>9
    <3>5. PhoneFits(p)'
      BY <1>2, <3>1, <3>2, <3>4 DEF PhoneFits
    <3>6. PledgedBy(p)'
      BY <1>6, <3>3, <3>4 DEF PledgedBy
    <3> QED
      BY <2>1, <3>5, <3>6
  <2>2. CASE q # p
    <3>1. PhoneFits(q) /\ PledgedBy(q) /\ attempt'[q] = attempt[q] /\ ui'[q] = ui[q] /\ store'[q] = store[q]
      BY <1>1, <1>7, <2>2, FinalParts DEF Final
    <3>2. Script(attempt[q], store[q], inbox'[q], sock'[q])
      <4>1. CASE sock'[q] = sock[q] /\ inbox'[q] = inbox[q]
        BY <3>1, <4>1 DEF PhoneFits
      <4>2. CASE q = o /\ sock[o] = NoPair /\ sock'[o] = a /\ inbox'[o] = hello
        <5>1. Said2(hello, "connected", "PAIR_HELLO")
          BY DEF Said2, hello
        <5> QED
          BY <1>10, <3>1, <4>2, <5>1 DEF PhoneFits, Script
      <4> QED
        BY <1>9, <2>2, <4>1, <4>2
    <3>3. PhoneFits(q)'
      BY <3>1, <3>2 DEF PhoneFits
    <3>4. PledgedBy(q)'
      <4>1. store[q].meta # a
        BY <1>4 DEF Holds, Material
      <4>2. attempt[q].id # NoPair => attempt[q].id \in Pair
        BY AttemptRole DEF Final
      <4>3. CASE attempt[q].id = a
        BY <3>1, <4>1, <4>3 DEF PledgedBy
      <4>4. CASE attempt[q].id # a
        <5>1. CASE attempt[q].id = NoPair
          BY <1>1, <3>1, <5>1 DEF PledgedBy
        <5>2. CASE attempt[q].id # NoPair
          <6>1. joiner'[attempt[q].id] = joiner[attempt[q].id]
            BY <1>7, <4>2, <4>4, <5>2
          <6> QED
            BY <1>1, <3>1, <6>1 DEF PledgedBy
        <5> QED
          BY <5>1, <5>2
      <4> QED
        BY <4>3, <4>4
    <3> QED
      BY <3>3, <3>4
  <2> QED
    BY <2>1, <2>2
<1>12. ASSUME NEW b \in up' PROVE JointOK(b)'
  <2>1. CASE b = a
    <3>1. sock[o] = NoPair /\ inbox'[o] = hello
      BY <1>4, <1>9, <1>12, <2>1
    <3>2. /\ owner'[b] = o /\ joiner'[b] = p /\ attempt'[o] = attempt[o] /\ ~attempt[o].linked
      BY <1>1, <1>7, <1>10, <2>1, <3>1 DEF o
    <3>3. JointAt(a, attempt[o], store[o], hello, at, store[p], <<>>)
      BY <1>6, <3>2 DEF JointAt, hello
    <3> QED
      BY <1>1, <1>7, <1>9, <2>1, <3>1, <3>2, <3>3 DEF JointOK
  <2>2. CASE b # a
    <3>1. b \in up /\ b \in Pair \ {a} /\ TwoPhones(b) /\ sock[owner[b]] = b /\ sock[joiner[b]] = b
          /\ b # NoPair /\ JointOK(b)
      BY <1>9, <1>12, <2>2, JointOf, PairAssumption, FinalParts DEF Final
    <3>2. ASSUME NEW q \in {owner[b], joiner[b]}
          PROVE  attempt'[q] = attempt[q] /\ store'[q] = store[q] /\ inbox'[q] = inbox[q]
      <4>1. q \in Phone /\ sock[q] = b /\ q # p
        BY <1>1, <3>1, <3>2 DEF TwoPhones
      <4>2. inbox'[q] = inbox[q]
        BY <1>9, <3>1, <4>1
      <4> QED
        BY <1>1, <1>7, <4>1, <4>2
    <3>3. owner'[b] = owner[b] /\ joiner'[b] = joiner[b]
      BY <1>1, <1>7, <3>1
    <3> QED
      BY <3>1, <3>2, <3>3 DEF JointOK
  <2> QED
    BY <2>1, <2>2
<1>13. ASSUME NEW q \in Phone, NEW b \in Pair, NEW m \in Carried, WillWait(m, b, q)
       PROVE  b # a /\ Waits(m, b, q)
  <2>1. ~Sends(hello, m)
    BY <1>13 DEF Sends, hello, Carried
  <2>2. CASE q = p
    BY <1>9, <1>13, <2>2 DEF WillWait
  <2>3. CASE q # p /\ sock'[q] = sock[q] /\ inbox'[q] = inbox[q]
    BY <1>4, <1>13, <2>3 DEF WillWait, Waits
  <2>4. CASE q = o /\ inbox'[o] = hello
    BY <1>13, <2>1, <2>4 DEF WillWait, Sends
  <2> QED
    BY <1>9, <2>2, <2>3, <2>4
<1>14. ASSUME NEW b \in Pair, Joined(b)'
       PROVE  CreatorHas(b)' /\ ScannerHas(b)' /\ PledgedFrames(b)'
  <2>0. /\ "creator_committed" \in Carried /\ "scanner_confirmed" \in Carried
        /\ "scanner_committed" \in Carried
    BY DEF Carried
  <2>1. CASE b = a
    <3>1. /\ owner'[b] = o /\ joiner'[b] = p /\ o \in Phone
      BY <1>1, <1>7, <2>1 DEF o
    <3>2. \A q \in Phone : store'[q] = store[q] /\ ~Trusts(store[q], a)
      BY <1>1, <1>4 DEF Trusts, Holds, Material
    <3>3. \A q \in Phone, m \in Carried : ~WillWait(m, a, q)
      BY <1>13
    <3> QED
      BY <2>0, <2>1, <3>1, <3>2, <3>3 DEF CreatorHas, ScannerHas, PledgedFrames, Waits, WillWait
  <2>2. CASE b # a
    <3>1. owner'[b] = owner[b] /\ joiner'[b] = joiner[b] /\ Joined(b)
      BY <1>1, <1>7, <1>14, <2>2 DEF Joined
    <3>2. CreatorHas(b) /\ ScannerHas(b) /\ PledgedFrames(b)
      BY <3>1, FinalParts DEF Final
    <3>3. \A q \in Phone : attempt'[q].id = b => attempt[q].id = b
      BY <1>6, <1>7, <2>2
    <3>4. \A q \in Phone, m \in Carried : WillWait(m, b, q) => Waits(m, b, q)
      BY <1>13
    <3>5. owner[b] \in Phone /\ joiner[b] \in Phone
      BY <3>1, PhoneAssumption DEF Joined, Final, Sound, NetworkOK
    <3>6. CreatorHas(b)'
      <4>1. WillWait("creator_committed", b, joiner[b]) => Waits("creator_committed", b, joiner[b])
        BY <2>0, <3>4, <3>5
      <4>2. attempt'[owner[b]].id = b => attempt[owner[b]].id = b
        BY <3>3, <3>5
      <4>3. store' = store
        BY <1>1
      <4> QED
        BY <3>1, <3>2, <4>1, <4>2, <4>3 DEF CreatorHas, WillWait, Waits
    <3>7. ScannerHas(b)'
      <4>1. WillWait("scanner_confirmed", b, owner[b]) => Waits("scanner_confirmed", b, owner[b])
        BY <2>0, <3>4, <3>5
      <4>2. attempt'[joiner[b]].id = b => attempt[joiner[b]].id = b
        BY <3>3, <3>5
      <4> QED
        BY <1>1, <3>1, <3>2, <4>1, <4>2 DEF ScannerHas, WillWait, Waits
    <3>8. PledgedFrames(b)'
      BY <1>1, <2>0, <3>1, <3>2, <3>3, <3>4, <3>5 DEF PledgedFrames, Waits, WillWait
    <3> QED
      BY <3>6, <3>7, <3>8
  <2> QED
    BY <2>1, <2>2
<1>15. Cancels'
  <2>1. "PAIR_CANCEL" \in Carried
    BY DEF Carried
  <2> QED
    BY <1>1, <1>13, <2>1, FinalParts DEF Final, Cancels, Waits, WillWait
<1> QED
  BY <1>11, <1>12, <1>14, <1>15, FinalPartsNext

\* At the start nothing is stored, sent or shown.
LEMMA InitFinal == Init => FinalInv
<1> SUFFICES ASSUME Init PROVE FinalInv
  OBVIOUS
<1>1. \A p \in Phone : /\ attempt[p] = NoAttempt /\ store[p] = EmptyStore /\ ui[p] = "loading"
                       /\ sock[p] = NoPair /\ inbox[p] = <<>>
  BY DEF Init
<1>2. NoAttempt.id = NoPair
  BY DEF NoAttempt
<1>3. StoreFits(EmptyStore) /\ EmptyStore.meta = NoPair
  BY DEF StoreFits, EmptyStore
<1>4. \A p \in Phone : PhoneFits(p) /\ PledgedBy(p)
  BY <1>1, <1>2, <1>3 DEF PhoneFits, PledgedBy, Script, Screen, AttemptKinds
<1>5. \A a \in Pair : ~Joined(a)
  BY PhoneAssumption DEF Init, Joined
<1>6. \A a \in up : JointOK(a)
  BY DEF Init
<1>7. Cancels
  BY <1>1, PairAssumption DEF Cancels, Waits
<1> QED
  BY <1>4, <1>5, <1>6, <1>7, FinalParts

\* Every step keeps the two phones of an attempt in turn.
LEMMA NextFinal == TypeOK /\ ConsentInv /\ FinalInv /\ [Next]_vars => FinalInv'
<1> SUFFICES ASSUME TypeOK, ConsentInv, FinalInv, [Next]_vars PROVE FinalInv'
  OBVIOUS
<1>0. Final
  BY TypeOKParts DEF Final, Sound
<1>1. ASSUME NEW p \in Phone, UserStep(p) PROVE FinalInv'
  BY <1>0, <1>1, CreateQrFinal, ScanConnectFinal, IdleStepsFinal, ScannerConfirmsFinal,
     CreatorConfirmsFinal, OtherEndsFinal DEF UserStep
<1>2. ASSUME NEW p \in Phone, ServiceStep(p) PROVE FinalInv'
  <2>1. CASE ReceiveCreatorReady(p) \/ ReceiveScannerCommitted(p)
    BY <1>0, <2>1, InstallOnFinal DEF ReceiveCreatorReady, ReceiveScannerCommitted
  <2>2. CASE \/ Initialize(p) \/ ReceiveConnected(p) \/ ReceiveHello(p) \/ ReceiveIdentity(p)
             \/ ReceiveConfirm(p) \/ ReceiveCommit(p) \/ ReceiveScannerStaged(p)
    BY <1>0, <2>2, IdleStepsFinal, ReceiveConnectedFinal, ReceiveHelloFinal, ReceiveIdentityFinal,
       ReceiveConfirmFinal, ReceiveCommitFinal, ReceiveScannerStagedFinal
  <2>3. CASE \/ ReceiveCreatorCommitted(p) \/ ReceiveScannerConfirmed(p)
             \/ ReceiveCreatorConfirmed(p) \/ ReceiveConverged(p) \/ OrphanClosed(p)
    BY <1>0, <2>3, ReceiveCreatorCommittedFinal, ReceiveScannerConfirmedFinal,
       ReceiveCreatorConfirmedFinal, ReceiveConvergedFinal, OrphanClosedFinal
  <2>4. CASE \/ ReceiveCancel(p) \/ ReceiveError(p) \/ ReceiveClosed(p) \/ ReceiveListenerError(p)
    BY <1>0, <2>4, OtherEndsFinal
  <2> QED
    BY <1>2, <2>1, <2>2, <2>3, <2>4 DEF ServiceStep
<1>3. ASSUME NEW p \in Phone, Expire(p) PROVE FinalInv'
  BY <1>0, <1>3, OtherEndsFinal
<1>4. ASSUME Environment PROVE FinalInv'
  <2>1. ASSUME NEW a \in Pair, LinkBreaks(a) \/ ListenerBreaks(a) PROVE FinalInv'
    <3>1. /\ UNCHANGED <<attempt, ui, store, owner, joiner, sock, inbox, pledged, cancelled>>
          /\ up' \subseteq up
      BY <2>1 DEF LinkBreaks, ListenerBreaks, service, history
    <3> QED
      BY <1>0, <3>1, LinkFinal
  <2>2. ASSUME NEW p \in Phone, Crash(p) PROVE FinalInv'
    BY <1>0, <2>2, CrashFinal
  <2> QED
    BY <1>4, <2>1, <2>2 DEF Environment
<1>5. CASE UNCHANGED vars
  <2>1. /\ UNCHANGED <<attempt, ui, store, owner, joiner, sock, inbox, pledged, cancelled>>
        /\ up' \subseteq up
    BY <1>5 DEF vars, service, network, history
  <2> QED
    BY <1>0, <2>1, LinkFinal
<1> QED
  BY <1>1, <1>2, <1>3, <1>4, <1>5 DEF Next

\* The two phones of an attempt take turns, and what one trusts, installs or
\* sends stands for what the other one has (the acknowledgement chain of
\* routeMessage), for any phones, attempts, disturbances and storage faults.
THEOREM FinalInvariant == Spec => []FinalInv
<1>1. Init => FinalInv
  BY InitFinal
<1>2. TypeOK /\ ConsentInv /\ FinalInv /\ [Next]_vars => FinalInv'
  BY NextFinal
<1>3. Spec => [](TypeOK /\ ConsentInv)
  BY TypeCorrect, ConsentInvariant, PTL
<1> QED
  BY <1>1, <1>2, <1>3, PTL DEF Spec
-----------------------------------------------------------------------------
(***************************************************************************)
(* What follows in every reachable state.                                  *)
(***************************************************************************)

\* Whatever a failed clean-up leaves, a phone never holds the secret of one
\* pair with the metadata of another (PairTrustRepository.installCommitted
\* writes the two halves one after the other, deleteDurableVerified removes
\* them independently).
THEOREM SecretsBelong == Spec => []SecretBelongsToMetadata
<1>1. FinalInv => SecretBelongsToMetadata
  BY FinalParts DEF PhoneFits, StoreFits, SecretBelongsToMetadata
<1> QED
  BY <1>1, FinalInvariant, PTL

\* The order of the acknowledgement chain (routeMessage, PAIR_COMMIT_ACK): the
\* scanner confirms only on a committed creator, the creator only on a
\* confirmed scanner, as long as the other one's attempt runs.
THEOREM ConfirmationsOrdered == Spec => []ConfirmationOrder
<1>1. FinalInv => ConfirmationOrder
  BY DEF FinalInv, Order, ConfirmationOrder
<1> QED
  BY <1>1, FinalInvariant, PTL

\* What the screen shows is what the trust store holds, and no attempt runs
\* behind it (setState of cleanupAttempt, completeConvergedAttempt, initialize).
THEOREM ScreensMatch == Spec => []ScreenMatchesTrust
<1>1. ASSUME FinalInv, NEW p \in Phone
      PROVE  /\ ui[p] = "paired" => LoadResult(store[p]) = "confirmed"
             /\ ui[p] = "unpaired" => store[p] = EmptyStore
             /\ ui[p] \in {"paired", "unpaired", "error", "loading"} => ~Active(p)
  <2>1. Screen(attempt[p], store[p], ui[p])
    BY <1>1, FinalParts DEF PhoneFits
  <2> QED
    BY <2>1 DEF Screen, AttemptKinds, Active
<1>2. FinalInv => ScreenMatchesTrust
  BY <1>1 DEF ScreenMatchesTrust
<1> QED
  BY <1>2, FinalInvariant, PTL

\* What a phone in phase ph, and how far, expects.
LEMMA ExpectedIs ==
  ASSUME NEW at, NEW m, NEW s,
         \/ m \in LastWord
         \/ /\ at.role = "creator"
            /\ \/ m \in {"PAIR_HELLO", "PAIR_IDENTITY"} /\ Came("waiting_remote_identity", at, s)
               \/ m = "PAIR_CONFIRM" /\ Came("waiting_scanner_confirmation", at, s)
               \/ m \in {"scanner_staged", "scanner_committed", "scanner_confirmed", "converged"}
                    /\ at.phase = "finalizing"
         \/ /\ at.role = "scanner"
            /\ \/ m = "PAIR_IDENTITY" /\ Came("waiting_remote_identity", at, s)
               \/ m = "PAIR_CONFIRM" /\ Came("waiting_creator_confirmation", at, s)
               \/ m \in {"PAIR_COMMIT", "creator_ready", "creator_committed", "creator_confirmed"}
                    /\ at.phase = "finalizing"
  PROVE  m \in Expected(at)
<1>1. /\ Came("waiting_remote_identity", at, s) => at.phase = "waiting_remote_identity"
      /\ Came("waiting_scanner_confirmation", at, s) => at.phase = "waiting_scanner_confirmation"
      /\ Came("waiting_creator_confirmation", at, s) => at.phase = "waiting_creator_confirmation"
  BY DEF Came
<1> QED
  BY <1>1 DEF Expected, LastWord

\* No honest frame is refused, whatever order the two phones run in and
\* wherever their socket breaks: the PairingProtocolError and PairingStateError
\* paths of routeMessage are for foreign frames only.
THEOREM FramesInPhase == Spec => []FramesArriveInPhase
<1>1. ASSUME Final, NEW p \in Phone, attempt[p].linked, inbox[p] # <<>>
      PROVE  Head(inbox[p]) \in Expected(attempt[p])
  <2>1. PICK m : m = Head(inbox[p])
    OBVIOUS
  <2>2. Arrives(p, m)
    BY <1>1, <2>1 DEF Arrives
  <2>3. \/ attempt[p].role = "creator" /\ CreatorScript(attempt[p], store[p], inbox[p])
        \/ attempt[p].role = "scanner" /\ ScannerScript(attempt[p], store[p], inbox[p])
    BY <1>1, <2>2, Hears
  <2>4. \A w \in {"finalizing", "staged", "committed", "confirmed"} :
          Came(w, attempt[p], store[p]) => attempt[p].phase = "finalizing"
    BY DEF Came, Phase
  <2>5. CASE attempt[p].role = "creator" /\ CreatorScript(attempt[p], store[p], inbox[p])
    BY <1>1, <2>1, <2>4, <2>5, CreatorHears, ExpectedIs
  <2>6. CASE attempt[p].role = "scanner" /\ ScannerScript(attempt[p], store[p], inbox[p])
    BY <1>1, <2>1, <2>4, <2>6, ScannerHears, ExpectedIs
  <2> QED
    BY <2>3, <2>5, <2>6
<1>2. TypeOK /\ ConsentInv /\ FinalInv => FramesArriveInPhase
  BY <1>1, TypeOKParts DEF Final, Sound, FramesArriveInPhase
<1> QED
  BY <1>2, FinalInvariant, TypeCorrect, ConsentInvariant, PTL
-----------------------------------------------------------------------------
(***************************************************************************)
(* What a step does to trust: which stores it can leave.                   *)
(***************************************************************************)

\* The phone p is left with part of what the store s trusts.
Keeps(p, s) == \E t : store' = [store EXCEPT ![p] = t] /\ Lesser(t, s)

\* A store trusts no more than itself.
LEMMA LesserSelf == ASSUME NEW s \in Store PROVE Lesser(s, s)
  BY DEF Lesser

\* setState leaves the store it is given.
LEMMA SetTrustKeeps ==
  ASSUME NEW p, NEW s, NEW t, NEW kind, SetTrust(p, t, kind), Lesser(t, s)
  PROVE  Keeps(p, s)
  BY DEF SetTrust, Keeps

\* A step that leaves the store of p alone.
LEMMA SameKeeps ==
  ASSUME TrustOK, NEW p \in Phone, UNCHANGED store
  PROVE  Keeps(p, store[p])
<1>1. store' = [store EXCEPT ![p] = store[p]]
  BY DEF TrustOK
<1>2. Lesser(store[p], store[p])
  BY LesserSelf DEF TrustOK
<1> QED
  BY <1>1, <1>2 DEF Keeps

\* failAttempt
LEMMA FailKeeps ==
  ASSUME NEW p, NEW s \in Store, NEW conv, NEW notify, FailAttempt(p, s, conv, notify)
  PROVE  Keeps(p, s) /\ UNCHANGED <<owner, joiner>>
<1>1. PICK loaded \in LoadConfirmed(s) :
        IF conv /\ loaded = "confirmed"
        THEN Complete(p, s, <<>>)
        ELSE \E r \in AbortPairAttempt(s) :
               /\ SetTrust(p, r.store, "error")
               /\ Release(p, IF notify THEN <<"PAIR_ERROR">> ELSE <<>>)
  BY DEF FailAttempt
<1>2. CASE conv /\ loaded = "confirmed"
  <2>1. SetTrust(p, s, "paired") /\ Release(p, <<>>)
    BY <1>1, <1>2 DEF Complete
  <2> QED
    BY <2>1, LesserSelf, SetTrustKeeps DEF Release
<1>3. CASE ~(conv /\ loaded = "confirmed")
  <2>1. PICK r \in AbortPairAttempt(s) :
          /\ SetTrust(p, r.store, "error")
          /\ Release(p, IF notify THEN <<"PAIR_ERROR">> ELSE <<>>)
    BY <1>1, <1>3
  <2>2. Keeps(p, s)
    BY <2>1, AbortLesser, SetTrustKeeps
  <2> QED
    BY <2>1, <2>2 DEF Release
<1> QED
  BY <1>2, <1>3

\* cleanupAttempt of a cancel.
LEMMA AbandonKeeps ==
  ASSUME NEW p \in Phone, TrustOK, NEW out, AbandonAttempt(p, out)
  PROVE  Keeps(p, store[p]) /\ UNCHANGED <<owner, joiner>>
<1>1. PICK r \in AbortPairAttempt(store[p]) :
        SetTrust(p, r.store, IF r.ok THEN "unpaired" ELSE "error")
  BY DEF AbandonAttempt
<1>2. Keeps(p, store[p])
  BY <1>1, AbortLesser, SetTrustKeeps DEF TrustOK
<1> QED
  BY <1>2 DEF AbandonAttempt, Release

\* An operation that goes on, or fails to send.
LEMMA ProceedKeeps ==
  ASSUME NEW p, NEW rest, NEW at, NEW s \in Store, NEW kind, NEW out,
         Proceed(p, rest, at, s, kind, out)
  PROVE  Keeps(p, s) /\ UNCHANGED <<owner, joiner>>
<1>1. CASE SetTrust(p, s, kind) /\ UNCHANGED <<owner, joiner>>
  BY <1>1, LesserSelf, SetTrustKeeps
<1>2. CASE FailAttempt(p, s, at.converged, TRUE)
  BY <1>2, FailKeeps
<1> QED
  BY <1>1, <1>2 DEF Proceed

\* A storage operation.
LEMMA WithStoredKeeps ==
  ASSUME NEW p, NEW results, NEW rest, NEW at, NEW kind, NEW out,
         \A r \in results : r.store \in Store,
         WithStored(p, results, rest, at, kind, out)
  PROVE  (\E r \in results : Keeps(p, r.store)) /\ UNCHANGED <<owner, joiner>>
<1>1. PICK r \in results :
        IF r.ok THEN Proceed(p, rest, at, r.store, kind, out)
                ELSE FailAttempt(p, r.store, at.converged, TRUE)
  BY DEF WithStored
<1>2. r.store \in Store
  BY <1>1
<1>3. CASE r.ok
  BY <1>1, <1>2, <1>3, ProceedKeeps
<1>4. CASE ~r.ok
  BY <1>1, <1>2, <1>4, FailKeeps
<1> QED
  BY <1>3, <1>4

\* Parts of parts.
LEMMA KeepsLesser ==
  ASSUME NEW p, NEW s, NEW t, Keeps(p, t), Lesser(t, s)
  PROVE  Keeps(p, s)
  BY LesserTransitive DEF Keeps

\* The steps that bring a phone no trust.
Quiet(p) ==
  \/ Revoke(p) \/ Initialize(p) \/ ResetError(p) \/ StartRefused(p)
  \/ \E a \in Pair : ScanUnreachable(p, a)
  \/ Cancel(p) \/ ConfirmOutOfTurn(p)
  \/ ReceiveConnected(p) \/ ReceiveHello(p) \/ ReceiveIdentity(p) \/ ReceiveConfirm(p)
  \/ ReceiveCommit(p) \/ ReceiveScannerStaged(p)
  \/ ReceiveCreatorConfirmed(p) \/ ReceiveConverged(p)
  \/ ReceiveCancel(p) \/ ReceiveError(p) \/ ReceiveClosed(p)
  \/ OrphanClosed(p) \/ ReceiveListenerError(p) \/ Expire(p)

\* The idle phone's steps.
LEMMA IdleQuiet ==
  ASSUME Final, NEW p \in Phone,
         \/ Revoke(p) \/ Initialize(p) \/ ResetError(p) \/ StartRefused(p)
         \/ \E a \in Pair : ScanUnreachable(p, a)
  PROVE  Keeps(p, store[p]) /\ UNCHANGED <<owner, joiner, agreed, pledged>>
<1>1. UNCHANGED <<owner, joiner, agreed, pledged>>
  BY DEF Revoke, Initialize, ResetError, StartRefused, ScanUnreachable, network, history
<1>2. store[p] \in Store /\ StoreFits(store[p]) /\ TrustOK
  BY FinalParts DEF Final, Sound, TrustOK, PhoneFits
<1>3. CASE Revoke(p)
  BY <1>1, <1>2, <1>3, AbortLesser, SetTrustKeeps DEF Revoke, RevokePair
<1>4. CASE Initialize(p) \/ ResetError(p)
  <2>1. PICK r \in DiscardIncomplete(store[p]) :
          \E loaded \in IF r.ok THEN LoadConfirmed(r.store) ELSE {"error"} :
            SetTrust(p, r.store, CASE loaded = "confirmed" -> "paired"
                                   [] loaded = "none" -> "unpaired"
                                   [] OTHER -> "error")
    BY <1>4 DEF Initialize, ResetError, Revalidate
  <2> QED
    BY <1>1, <1>2, <2>1, DiscardFits, SetTrustKeeps
<1>5. CASE StartRefused(p)
  BY <1>1, <1>2, <1>5, SameKeeps DEF StartRefused
<1>6. ASSUME NEW a \in Pair, ScanUnreachable(p, a) PROVE Keeps(p, store[p])
  BY <1>2, <1>6, AbortLesser, SetTrustKeeps DEF ScanUnreachable
<1> QED
  BY <1>1, <1>3, <1>4, <1>5, <1>6

\* The others.
LEMMA QuietKeeps ==
  ASSUME Final, NEW p \in Phone, Quiet(p)
  PROVE  Keeps(p, store[p]) /\ UNCHANGED <<owner, joiner, agreed, pledged>>
<1>1. store[p] \in Store /\ TrustOK
  BY DEF Final, Sound, TrustOK
<1>2. CASE Cancel(p) \/ ReceiveCancel(p)
  BY <1>1, <1>2, AbandonKeeps DEF Cancel, ReceiveCancel, history
<1>3. CASE \/ ConfirmOutOfTurn(p) \/ ReceiveError(p) \/ ReceiveClosed(p)
           \/ ReceiveListenerError(p) \/ Expire(p)
  BY <1>1, <1>3, FailKeeps DEF ConfirmOutOfTurn, ReceiveError, ReceiveClosed,
     ReceiveListenerError, Expire, history
<1>4. CASE ReceiveConnected(p) \/ OrphanClosed(p)
  BY <1>1, <1>4, SameKeeps DEF ReceiveConnected, OrphanClosed, service, history
<1>5. ASSUME NEW m, NEW at, NEW kind, NEW out, Answer(p, m, at, kind, out)
      PROVE  Keeps(p, store[p]) /\ UNCHANGED <<owner, joiner, agreed, pledged>>
  BY <1>1, <1>5, ProceedKeeps DEF Answer, history
<1>6. CASE ReceiveHello(p) \/ ReceiveScannerStaged(p)
  BY <1>5, <1>6 DEF ReceiveHello, ReceiveScannerStaged
<1>7. CASE ReceiveIdentity(p)
  BY <1>5, <1>7 DEF ReceiveIdentity
<1>8. CASE ReceiveConfirm(p)
  BY <1>5, <1>8 DEF ReceiveConfirm
<1>9. CASE ReceiveCommit(p)
  <2>1. PICK a, results :
          /\ a = attempt[p].id /\ results = Stage(store[p], a)
          /\ WithStored(p, results, Rest(p), attempt[p], "finalizing", <<"scanner_staged">>)
          /\ UNCHANGED history
    BY <1>9 DEF ReceiveCommit, StoreAndAck
  <2>2. a \in Pair
    BY <1>9, <2>1, Hears DEF ReceiveCommit, Finalizing
  <2>3. \A r \in results : r.store \in Store /\ Lesser(r.store, store[p])
    BY <1>1, <2>1, <2>2, StageFits DEF Lesser
  <2>4. (\E r \in results : Keeps(p, r.store)) /\ UNCHANGED <<owner, joiner>>
    BY <2>1, <2>3, WithStoredKeeps
  <2> QED
    BY <2>1, <2>3, <2>4, KeepsLesser DEF history
<1>10. CASE ReceiveCreatorConfirmed(p) \/ ReceiveConverged(p)
  <2>1. /\ UNCHANGED <<agreed, pledged>>
        /\ \/ \E conv : FailAttempt(p, store[p], conv, TRUE)
           \/ \E out : Complete(p, store[p], out)
    BY <1>10 DEF ReceiveCreatorConfirmed, ReceiveConverged, history
  <2>2. CASE \E conv : FailAttempt(p, store[p], conv, TRUE)
    BY <1>1, <2>1, <2>2, FailKeeps
  <2>3. CASE \E out : Complete(p, store[p], out)
    <3>1. Keeps(p, store[p])
      BY <1>1, <2>3, LesserSelf, SetTrustKeeps DEF Complete
    <3> QED
      BY <2>1, <2>3, <3>1 DEF Complete, Release
  <2> QED
    BY <2>1, <2>2, <2>3
<1> QED
  BY <1>2, <1>3, <1>4, <1>6, <1>7, <1>8, <1>9, <1>10, IdleQuiet DEF Quiet
-----------------------------------------------------------------------------
(***************************************************************************)
(* Pairing implements TrustAgreement.                                      *)
(***************************************************************************)

\* The pair a store trusts, and what every phone does.
TrustOf(s) == IF LoadResult(s) = "confirmed" THEN s.meta ELSE NoPair
View == [p \in Phone |-> TrustOf(store[p])]

\* A step of the agreement, or none.
Agrees == Agreement!Next \/ UNCHANGED Agreement!vars

\* Less trust is the same or none.
LEMMA TrustOfLesser ==
  ASSUME NEW s \in Store, NEW t, Lesser(t, s)
  PROVE  TrustOf(t) = NoPair \/ TrustOf(t) = TrustOf(s)
<1>1. CASE LoadResult(t) = "confirmed"
  <2>1. t.meta \in Pair
    BY <1>1 DEF Lesser, Store, PairOrNone, LoadResult, HasDurableMaterial
  <2>2. Trusts(s, t.meta)
    BY <1>1, <2>1 DEF Lesser, Trusts
  <2> QED
    BY <1>1, <2>2 DEF Trusts, TrustOf
<1> QED
  BY <1>1 DEF TrustOf

\* A phone without durable material, or with a committed pair, trusts none.
LEMMA NoTrust ==
  ASSUME NEW s, Blank(s) \/ ~HasDurableMaterial(s) \/ s.status = "committed"
  PROVE  TrustOf(s) = NoPair
  BY DEF TrustOf, Blank, LoadResult

\* What the phones trust after p's store has changed.
LEMMA ViewAfter ==
  ASSUME TrustOK, NEW p \in Phone, NEW t, store' = [store EXCEPT ![p] = t]
  PROVE  /\ View' = [View EXCEPT ![p] = TrustOf(t)]
         /\ TrustOf(t) = TrustOf(store[p]) => View' = View
<1>1. store'[p] = t /\ \A q \in Phone \ {p} : store'[q] = store[q]
  BY DEF TrustOK
<1>2. View' = [q \in Phone |-> TrustOf(store'[q])]
  BY DEF View, TrustOf
<1>3. View = [q \in Phone |-> TrustOf(store[q])]
  BY DEF View
<1> QED
  BY <1>1, <1>2, <1>3

\* The agreement's state in terms of View.
LEMMA AgreementIs ==
  /\ UNCHANGED Agreement!vars <=> UNCHANGED <<owner, joiner, agreed, pledged, View>>
  /\ \A p : Agreement!Forget(p) <=>
       View' = [View EXCEPT ![p] = NoPair] /\ UNCHANGED <<owner, joiner, agreed, pledged>>
  /\ \A p, a : Agreement!Offer(p, a) <=>
       /\ owner[a] = NoPhone /\ owner' = [owner EXCEPT ![a] = p]
       /\ UNCHANGED <<joiner, agreed, pledged, View>>
  /\ \A p, a : Agreement!Join(p, a) <=>
       /\ owner[a] \in Phone \ {p} /\ joiner[a] = NoPhone
       /\ joiner' = [joiner EXCEPT ![a] = p]
       /\ UNCHANGED <<owner, agreed, pledged, View>>
  /\ \A p, a : Agreement!Consent(p, a) <=>
       /\ p \in {owner[a], joiner[a]} /\ (p = owner[a] => joiner[a] \in agreed[a])
       /\ agreed' = [agreed EXCEPT ![a] = @ \cup {p}]
       /\ UNCHANGED <<owner, joiner, pledged, View>>
  /\ \A p, a : Agreement!Pledge(p, a) <=>
       /\ p \in {owner[a], joiner[a]} /\ {owner[a], joiner[a]} \subseteq agreed[a]
       /\ p = owner[a] => joiner[a] \in pledged[a]
       /\ pledged' = [pledged EXCEPT ![a] = @ \cup {p}]
       /\ UNCHANGED <<owner, joiner, agreed, View>>
  /\ \A p, a : Agreement!Trust(p, a) <=>
       /\ p \in {owner[a], joiner[a]} /\ {owner[a], joiner[a]} \subseteq pledged[a]
       /\ View[p] = NoPair /\ View' = [View EXCEPT ![p] = a]
       /\ UNCHANGED <<owner, joiner, agreed, pledged>>
  BY DEF Agreement!vars, Agreement!Forget, Agreement!Offer, Agreement!Join, Agreement!Consent,
         Agreement!Pledge, Agreement!Trust, Agreement!Both, View, TrustOf

\* Trust is given up, or nothing changes.
LEMMA Forgets ==
  ASSUME Final, NEW p \in Phone, Keeps(p, store[p]), UNCHANGED <<owner, joiner, agreed, pledged>>
  PROVE  Agrees
<1>1. TrustOK /\ store[p] \in Store
  BY DEF Final, Sound, TrustOK
<1>2. PICK t : store' = [store EXCEPT ![p] = t] /\ Lesser(t, store[p])
  BY DEF Keeps
<1>3. TrustOf(t) = NoPair \/ TrustOf(t) = TrustOf(store[p])
  BY <1>1, <1>2, TrustOfLesser
<1>4. View' = [View EXCEPT ![p] = NoPair] \/ View' = View
  BY <1>1, <1>2, <1>3, ViewAfter
<1>5. CASE View' = View
  BY <1>5, AgreementIs DEF Agrees
<1>6. CASE View' = [View EXCEPT ![p] = NoPair]
  <2>1. Agreement!Forget(p)
    BY <1>6, AgreementIs
  <2> QED
    BY <2>1 DEF Agrees, Agreement!Next
<1> QED
  BY <1>4, <1>5, <1>6

\* Without trust before, there is none after.
LEMMA NoView ==
  ASSUME Final, NEW p \in Phone, Keeps(p, store[p]), TrustOf(store[p]) = NoPair
  PROVE  View' = View
<1>1. TrustOK /\ store[p] \in Store
  BY DEF Final, Sound, TrustOK
<1>2. PICK t : store' = [store EXCEPT ![p] = t] /\ Lesser(t, store[p])
  BY DEF Keeps
<1>3. TrustOf(t) = TrustOf(store[p])
  BY <1>1, <1>2, TrustOfLesser
<1> QED
  BY <1>1, <1>2, <1>3, ViewAfter

\* startCreatorNow offers a pair.
LEMMA CreateQrAgrees ==
  ASSUME Final, NEW p \in Phone, NEW a \in Pair, CreateQr(p, a)
  PROVE  Agrees
<1>1. /\ owner[a] = NoPhone /\ owner' = [owner EXCEPT ![a] = p]
      /\ UNCHANGED <<joiner, agreed, pledged, store>>
  BY DEF CreateQr, history
<1>2. View' = View
  BY <1>1 DEF View
<1>3. Agreement!Offer(p, a)
  BY <1>1, <1>2, AgreementIs
<1> QED
  BY <1>3 DEF Agrees, Agreement!Next

\* startScannerNow joins it.
LEMMA ScanConnectAgrees ==
  ASSUME Final, NEW p \in Phone, NEW a \in Pair, ScanConnect(p, a)
  PROVE  Agrees
<1>1. /\ owner[a] \in Phone \ {p} /\ listener[a] = "open"
      /\ joiner' = [joiner EXCEPT ![a] = p]
      /\ UNCHANGED <<owner, agreed, pledged, store>>
  BY DEF ScanConnect, history
<1>2. joiner[a] = NoPhone
  BY <1>1 DEF Final, Sound, ConsentInv, Fresh
<1>3. View' = View
  BY <1>1 DEF View
<1>4. Agreement!Join(p, a)
  BY <1>1, <1>2, <1>3, AgreementIs
<1> QED
  BY <1>4 DEF Agrees, Agreement!Next

\* A user consents, while the phone trusts nothing.
LEMMA ConsentAgrees ==
  ASSUME Final, NEW p \in Phone, NEW a \in Pair, Keeps(p, store[p]), TrustOf(store[p]) = NoPair,
         p \in {owner[a], joiner[a]}, p = owner[a] => joiner[a] \in agreed[a],
         agreed' = [agreed EXCEPT ![a] = @ \cup {p}], UNCHANGED <<owner, joiner, pledged>>
  PROVE  Agrees
<1>1. View' = View
  BY NoView
<1>2. Agreement!Consent(p, a)
  BY <1>1, AgreementIs
<1> QED
  BY <1>2 DEF Agrees, Agreement!Next

\* confirmPartnerNow on the scanner.
LEMMA ScannerConfirmsAgrees ==
  ASSUME Final, NEW p \in Phone, ScannerConfirms(p)
  PROVE  Agrees
<1>1. PICK ph \in Phase :
        /\ Enters(attempt[p], "LOCAL_CONFIRM", ph)
        /\ Proceed(p, inbox[p], [attempt[p] EXCEPT !.phase = ph], store[p],
                   "waiting_partner", <<"PAIR_CONFIRM">>)
  BY DEF ScannerConfirms
<1>2. /\ attempt[p].role = "scanner" /\ UNCHANGED pledged
      /\ agreed' = [agreed EXCEPT ![attempt[p].id] = @ \cup {p}]
  BY DEF ScannerConfirms
<1>3. attempt[p].id # NoPair /\ Came("scanner_can_confirm", attempt[p], store[p])
  BY <1>1, <1>2, ConfirmTurn
<1>4. PICK a : a = attempt[p].id
  OBVIOUS
<1>5. a \in Pair /\ joiner[a] = p /\ owner[a] # p
  BY <1>2, <1>3, <1>4, AttemptRole DEF Final
<1>6. TrustOf(store[p]) = NoPair
  BY <1>3, NoTrust DEF Came, Phase
<1>7. Keeps(p, store[p]) /\ UNCHANGED <<owner, joiner>>
  BY <1>1, ProceedKeeps DEF Final, Sound, TrustOK
<1> QED
  BY <1>2, <1>4, <1>5, <1>6, <1>7, ConsentAgrees

\* confirmPartnerNow on the creator.
LEMMA CreatorConfirmsAgrees ==
  ASSUME Final, NEW p \in Phone, CreatorConfirms(p)
  PROVE  Agrees
<1>1. PICK ph \in Phase :
        /\ Enters(attempt[p], "LOCAL_CONFIRM", ph)
        /\ WithStored(p, Stage(store[p], attempt[p].id), inbox[p],
                      [attempt[p] EXCEPT !.phase = ph], "finalizing",
                      <<"PAIR_CONFIRM", "PAIR_COMMIT">>)
  BY DEF CreatorConfirms
<1>2. /\ attempt[p].role = "creator" /\ UNCHANGED pledged
      /\ agreed' = [agreed EXCEPT ![attempt[p].id] = @ \cup {p}]
  BY DEF CreatorConfirms
<1>3. attempt[p].id # NoPair /\ Came("creator_can_confirm", attempt[p], store[p])
  BY <1>1, <1>2, ConfirmTurn
<1>4. PICK a : a = attempt[p].id
  OBVIOUS
<1>5. a \in Pair /\ owner[a] = p
  BY <1>2, <1>3, <1>4, AttemptRole DEF Final
<1>6. attempt[p].phase = "creator_can_confirm" /\ TrustOf(store[p]) = NoPair
  BY <1>3, NoTrust DEF Came, Phase
<1>7. joiner[a] \in agreed[a]
  BY <1>4, <1>6 DEF Final, Sound, ConsentInv, ConsentOfPhase
<1>8. \A r \in Stage(store[p], attempt[p].id) : r.store \in Store /\ Lesser(r.store, store[p])
  BY <1>4, <1>5, StageFits DEF Lesser, Final, Sound, TrustOK
<1>9. Keeps(p, store[p]) /\ UNCHANGED <<owner, joiner>>
  BY <1>1, <1>8, WithStoredKeeps, KeepsLesser
<1> QED
  BY <1>2, <1>4, <1>5, <1>6, <1>7, <1>9, ConsentAgrees

\* installCommitted, after creator_ready or scanner_committed, pledges.
LEMMA InstallOnAgrees ==
  ASSUME Final, NEW p \in Phone, NEW role, NEW m, NEW ack, InstallOn(p, role, m, ack),
         \/ role = "scanner" /\ m = "creator_ready"
         \/ role = "creator" /\ m = "scanner_committed"
  PROVE  Agrees
<1>1. /\ Arrives(p, m) /\ attempt[p].role = role /\ attempt[p].phase = "finalizing"
      /\ UNCHANGED agreed
  BY DEF InstallOn, Finalizing
<1>2. PICK res \in InstallCommitted(store[p]) :
        /\ WithStored(p, {res}, Rest(p), attempt[p], "finalizing", <<ack>>)
        /\ pledged' = IF res.ok THEN [pledged EXCEPT ![attempt[p].id] = @ \cup {p}] ELSE pledged
  BY DEF InstallOn, StoreAndAck
<1>3. PICK a : a = attempt[p].id
  OBVIOUS
<1>4. /\ attempt[p].linked /\ a \in Pair /\ a # NoPair
      /\ Waits(m, a, p) /\ Came("staged", attempt[p], store[p])
  BY <1>1, <1>3, Hears, ScannerHears, CreatorHears DEF LastWord
<1>5. IsStaged(store[p], a) /\ store[p] \in Store
  BY <1>3, <1>4, CameTo DEF Final, Sound, TrustOK
<1>6. Lesser(res.store, store[p]) /\ res.store \in Store
  BY <1>2, <1>4, <1>5, InstallFits DEF Lesser
<1>7. Keeps(p, store[p]) /\ UNCHANGED <<owner, joiner>>
  <2>1. PICK results : results = {res}
    OBVIOUS
  <2>2. (\E r \in results : Keeps(p, r.store)) /\ UNCHANGED <<owner, joiner>>
    BY <1>2, <1>6, <2>1, WithStoredKeeps
  <2> QED
    BY <1>6, <2>1, <2>2, KeepsLesser
<1>8. TrustOf(store[p]) = NoPair
  BY <1>5, NoTrust DEF IsStaged
<1>9. {owner[a], joiner[a]} \subseteq agreed[a]
  BY <1>1, <1>3 DEF Final, Sound, ConsentInv, ConsentOfPhase
<1>10. p \in {owner[a], joiner[a]} /\ Joined(a)
  BY <1>3, <1>4, AttemptRole DEF Final, TwoPhones, Joined
<1>11. p = owner[a] => joiner[a] \in pledged[a]
  <2>1. CASE role = "creator"
    BY <1>4, <1>10, <2>1, FinalParts DEF Final, PledgedFrames
  <2>2. CASE role = "scanner"
    BY <1>1, <1>3, <1>4, <2>2, AttemptRole DEF Final
  <2> QED
    BY <2>1, <2>2
<1>12. CASE res.ok
  <2>1. View' = View
    BY <1>7, <1>8, NoView
  <2>2. Agreement!Pledge(p, a)
    BY <1>1, <1>2, <1>3, <1>7, <1>9, <1>10, <1>11, <1>12, <2>1, AgreementIs
  <2> QED
    BY <1>4, <2>2 DEF Agrees, Agreement!Next
<1>13. CASE ~res.ok
  BY <1>1, <1>2, <1>7, <1>13, Forgets
<1> QED
  BY <1>12, <1>13

\* A phone comes to trust a pair that both phones pledged to.
LEMMA TrustAgrees ==
  ASSUME Final, NEW p \in Phone, NEW a \in Pair, NEW s, Keeps(p, s),
         \A b \in Pair : Trusts(s, b) => b = a, s \in Store,
         TrustOf(store[p]) = NoPair, p \in {owner[a], joiner[a]},
         {owner[a], joiner[a]} \subseteq pledged[a],
         UNCHANGED <<owner, joiner, agreed, pledged>>
  PROVE  Agrees
<1>1. PICK t : store' = [store EXCEPT ![p] = t] /\ Lesser(t, s)
  BY DEF Keeps
<1>2. TrustOf(s) = NoPair \/ TrustOf(s) = a
  BY DEF TrustOf, Trusts, Store, PairOrNone
<1>3. TrustOf(t) = NoPair \/ TrustOf(t) = a
  BY <1>1, <1>2, TrustOfLesser
<1>4. View[p] = NoPair
  BY DEF View
<1>5. View' = [View EXCEPT ![p] = TrustOf(t)] /\ (TrustOf(t) = NoPair => View' = View)
  BY <1>1, ViewAfter DEF Final, Sound
<1>6. CASE TrustOf(t) = NoPair
  BY <1>5, <1>6, AgreementIs DEF Agrees
<1>7. CASE TrustOf(t) = a
  <2>1. Agreement!Trust(p, a)
    BY <1>4, <1>5, <1>7, AgreementIs
  <2> QED
    BY <2>1 DEF Agrees, Agreement!Next
<1> QED
  BY <1>3, <1>6, <1>7

\* markConfirmed, after creator_committed or scanner_confirmed, trusts.
LEMMA MarkAgrees ==
  ASSUME Final, NEW p \in Phone,
         ReceiveCreatorCommitted(p) \/ ReceiveScannerConfirmed(p)
  PROVE  Agrees
<1>1. PICK a : a = attempt[p].id
  OBVIOUS
<1>2. /\ attempt[p].linked /\ a \in Pair /\ a # NoPair
      /\ Came("committed", attempt[p], store[p])
      /\ ReceiveCreatorCommitted(p) => attempt[p].role = "scanner" /\ Waits("creator_committed", a, p)
      /\ ReceiveScannerConfirmed(p) => attempt[p].role = "creator"
  <2>1. CASE ReceiveCreatorCommitted(p)
    <3>1. Arrives(p, "creator_committed") /\ attempt[p].role = "scanner"
      BY <2>1 DEF ReceiveCreatorCommitted, Finalizing
    <3>2. ~ReceiveScannerConfirmed(p)
      BY <3>1 DEF ReceiveScannerConfirmed, Finalizing
    <3> QED
      BY <1>1, <3>1, <3>2, Hears, ScannerHears DEF LastWord
  <2>2. CASE ReceiveScannerConfirmed(p)
    <3>1. Arrives(p, "scanner_confirmed") /\ attempt[p].role = "creator"
      BY <2>2 DEF ReceiveScannerConfirmed, Finalizing
    <3>2. ~ReceiveCreatorCommitted(p)
      BY <3>1 DEF ReceiveCreatorCommitted, Finalizing
    <3> QED
      BY <1>1, <3>1, <3>2, Hears, CreatorHears DEF LastWord
  <2> QED
    BY <2>1, <2>2
<1>3. IsInstalled(store[p], a, "committed") /\ store[p] \in Store
  BY <1>1, <1>2, CameTo DEF Final, Sound, TrustOK
<1>4. TrustOf(store[p]) = NoPair /\ store[p].meta = a
  BY <1>3, NoTrust DEF IsInstalled
<1>5. p \in {owner[a], joiner[a]} /\ Joined(a)
  BY <1>1, <1>2, AttemptRole DEF Final, TwoPhones, Joined
<1>6. {owner[a], joiner[a]} \subseteq pledged[a]
  <2>1. CASE ReceiveCreatorCommitted(p)
    <3>1. joiner[a] = p
      BY <1>1, <1>2, <2>1, AttemptRole DEF Final
    <3> QED
      BY <1>2, <1>5, <2>1, <3>1, FinalParts DEF Final, PledgedFrames
  <2>2. CASE ReceiveScannerConfirmed(p)
    <3>1. owner[a] = p
      BY <1>1, <1>2, <2>2, AttemptRole DEF Final
    <3> QED
      BY <1>1, <1>2, <1>4, <2>2, <3>1, FinalParts DEF Final, PledgedBy
  <2> QED
    BY <2>1, <2>2
<1>7. ASSUME NEW r \in MarkConfirmed(store[p])
      PROVE  r.store \in Store /\ \A b \in Pair : Trusts(r.store, b) => b = a
  BY <1>2, <1>3, MarkFits
<1>8. /\ \E r \in MarkConfirmed(store[p]) : Keeps(p, r.store)
      /\ UNCHANGED <<owner, joiner, agreed, pledged>>
  <2>1. CASE ReceiveCreatorCommitted(p)
    BY <1>7, <2>1, WithStoredKeeps DEF ReceiveCreatorCommitted, StoreAndAck, history
  <2>2. CASE ReceiveScannerConfirmed(p)
    <3>1. PICK r \in MarkConfirmed(store[p]) :
            \/ \E at : Proceed(p, Rest(p), at, r.store, "finalizing", <<"creator_confirmed">>)
            \/ \E conv : FailAttempt(p, r.store, conv, TRUE)
      BY <2>2 DEF ReceiveScannerConfirmed
    <3>2. UNCHANGED <<agreed, pledged>>
      BY <2>2 DEF ReceiveScannerConfirmed, history
    <3> QED
      BY <1>7, <3>1, <3>2, ProceedKeeps, FailKeeps
  <2> QED
    BY <2>1, <2>2
<1> QED
  BY <1>2, <1>4, <1>5, <1>6, <1>7, <1>8, TrustAgrees

\* A process death keeps trust or loses it, and counts as the creator's consent
\* if it leaves what the creator was staging.
LEMMA CrashAgrees ==
  ASSUME Final, NEW p \in Phone, Crash(p)
  PROVE  Agrees
<1>1. PICK s \in Interrupted(p) :
        /\ SetTrust(p, s, "loading")
        /\ agreed' = IF attempt[p].role = "creator" /\ s.pendingSecret = attempt[p].id
                     THEN [agreed EXCEPT ![attempt[p].id] = @ \cup {p}] ELSE agreed
  BY DEF Crash
<1>2. UNCHANGED <<owner, joiner, pledged>>
  BY DEF Crash
<1>3. store[p] \in Store /\ Keeps(p, store[p])
  BY <1>1, InterruptedLesser, SetTrustKeeps DEF Final, Sound, TrustOK
<1>4. PICK a : a = attempt[p].id
  OBVIOUS
<1>5. CASE ~(attempt[p].role = "creator" /\ s.pendingSecret = attempt[p].id)
  BY <1>1, <1>2, <1>3, <1>5, Forgets
<1>6. CASE attempt[p].role = "creator" /\ s.pendingSecret = attempt[p].id
  <2>1. a \in Pair /\ owner[a] = p /\ attempt[p].id # NoPair
    BY <1>4, <1>6, LinkedActive, AttemptRole DEF Final
  <2>2. agreed' = [agreed EXCEPT ![a] = @ \cup {p}]
    BY <1>1, <1>4, <1>6
  <2>3. CASE attempt[p].phase = "creator_can_confirm"
    <3>1. Enters(attempt[p], "LOCAL_CONFIRM", "finalizing")
      BY <1>6, <2>3 DEF Enters, Transitions
    <3>2. Came("creator_can_confirm", attempt[p], store[p])
      BY <1>6, <3>1, ConfirmTurn
    <3>3. TrustOf(store[p]) = NoPair
      BY <3>2, NoTrust DEF Came, Phase
    <3>4. joiner[a] \in agreed[a]
      BY <1>4, <2>3 DEF Final, Sound, ConsentInv, ConsentOfPhase
    <3> QED
      BY <1>2, <1>3, <2>1, <2>2, <3>3, <3>4, ConsentAgrees
  <2>4. CASE attempt[p].phase # "creator_can_confirm"
    <3>1. ~Arrives(p, "PAIR_COMMIT")
      <4>1. ASSUME Arrives(p, "PAIR_COMMIT") PROVE FALSE
        <5>1. CreatorScript(attempt[p], store[p], inbox[p]) /\ inbox[p] # <<>>
              /\ Head(inbox[p]) = "PAIR_COMMIT"
          BY <1>6, <4>1, Hears
        <5> QED
          BY <5>1, CreatorHears DEF LastWord
      <4> QED
        BY <4>1
    <3>2. \/ s \in InstallWrites(store[p])
          \/ s \in Remnants(store[p])
          \/ s \in PartlyNoPending(store[p])
      BY <1>1, <2>4, <3>1 DEF Interrupted, Arrives
    <3>3. Within(s, store[p])
      BY <1>3, <3>2, InstallWritesWithin, RemnantsWithin, PartlyNoPendingWithin
    <3>4. Holds(p, a)
      BY <1>4, <1>6, <2>1, <3>3, PairAssumption DEF Within, Material, Holds
    <3>5. p \in agreed[a]
      BY <2>1, <3>4 DEF Final, Sound, ConsentInv, MaterialNeedsBothUsers
    <3>6. agreed' = agreed
      BY <2>1, <2>2, <3>5 DEF Final, Sound, HistoryOK
    <3> QED
      BY <1>2, <1>3, <3>6, Forgets
  <2> QED
    BY <2>3, <2>4
<1> QED
  BY <1>5, <1>6

\* Every step is one of the agreement.
LEMMA NextAgrees ==
  TypeOK /\ ConsentInv /\ FinalInv /\ [Next]_vars => [Agreement!Next]_(Agreement!vars)
<1> SUFFICES ASSUME TypeOK, ConsentInv, FinalInv, [Next]_vars
             PROVE  Agrees
  BY DEF Agrees
<1>0. Final
  BY TypeOKParts DEF Final, Sound
<1>1. ASSUME NEW p \in Phone, Quiet(p) PROVE Agrees
  BY <1>0, <1>1, QuietKeeps, Forgets
<1>2. ASSUME NEW p \in Phone, UserStep(p) PROVE Agrees
  BY <1>0, <1>1, <1>2, CreateQrAgrees, ScanConnectAgrees, ScannerConfirmsAgrees,
     CreatorConfirmsAgrees DEF UserStep, Quiet
<1>3. ASSUME NEW p \in Phone, ServiceStep(p) PROVE Agrees
  <2>1. CASE ReceiveCreatorReady(p) \/ ReceiveScannerCommitted(p)
    BY <1>0, <2>1, InstallOnAgrees DEF ReceiveCreatorReady, ReceiveScannerCommitted
  <2>2. CASE ReceiveCreatorCommitted(p) \/ ReceiveScannerConfirmed(p)
    BY <1>0, <2>2, MarkAgrees
  <2>3. CASE Quiet(p)
    BY <1>1, <2>3
  <2> QED
    BY <1>3, <2>1, <2>2, <2>3 DEF ServiceStep, Quiet
<1>4. ASSUME NEW p \in Phone, Expire(p) PROVE Agrees
  BY <1>1, <1>4 DEF Quiet
<1>5. CASE UNCHANGED <<owner, joiner, agreed, pledged, store>>
  <2>1. View' = View
    BY <1>5 DEF View
  <2> QED
    BY <1>5, <2>1, AgreementIs DEF Agrees
<1>6. ASSUME Environment PROVE Agrees
  <2>1. ASSUME NEW a \in Pair, LinkBreaks(a) \/ ListenerBreaks(a) PROVE Agrees
    BY <1>5, <2>1 DEF LinkBreaks, ListenerBreaks, service, history
  <2>2. ASSUME NEW p \in Phone, Crash(p) PROVE Agrees
    BY <1>0, <2>2, CrashAgrees
  <2> QED
    BY <1>6, <2>1, <2>2 DEF Environment
<1>7. CASE UNCHANGED vars
  BY <1>5, <1>7 DEF vars, service, network, history
<1> QED
  BY <1>2, <1>3, <1>4, <1>6, <1>7 DEF Next

\* At the start nothing is offered or trusted.
LEMMA InitAgrees == Init => Agreement!Init
<1>1. LoadResult(EmptyStore) = "none"
  BY DEF LoadResult, HasDurableMaterial, EmptyStore
<1> QED
  BY <1>1 DEF Init, Agreement!Init

\* Pairing implements the agreement: both users consent, the creator after the
\* scanner, then both phones pledge, the scanner first, and only then does
\* either phone trust the pair, one pair at a time (confirmPartnerNow,
\* routeMessage), whatever the users, the links and the storage do.
THEOREM PairingImplementsAgreement == Spec => ImplementsAgreement
<1>1. Init => Agreement!Init
  BY InitAgrees
<1>2. TypeOK /\ ConsentInv /\ FinalInv /\ [Next]_vars => [Agreement!Next]_(Agreement!vars)
  BY NextAgrees
<1>3. Spec => [](TypeOK /\ ConsentInv /\ FinalInv)
  BY TypeCorrect, ConsentInvariant, FinalInvariant, PTL
<1> QED
  BY <1>1, <1>2, <1>3, PTL DEF Spec, ImplementsAgreement, Agreement!Spec
-----------------------------------------------------------------------------
(***************************************************************************)
(* What a step may never do to trust.                                      *)
(***************************************************************************)

\* A step of p is no step of another phone.
Alone(p) == \A q \in Phone \ {p} : store'[q] = store[q] /\ attempt'[q] = attempt[q]

\* failAttempt, and the operations that may end with it.
LEMMA FailAlone ==
  ASSUME Final, NEW p \in Phone, NEW s, NEW conv, NEW notify, FailAttempt(p, s, conv, notify)
  PROVE  Alone(p)
<1>1. \E t, kind, out : SetTrust(p, t, kind) /\ Release(p, out)
  BY DEF FailAttempt, Complete
<1> QED
  BY <1>1 DEF SetTrust, Release, Alone, Final, Sound, TrustOK, NetworkOK

\* An operation that goes on, or fails to send.
LEMMA ProceedAlone ==
  ASSUME Final, NEW p \in Phone, NEW rest, NEW at, NEW s, NEW kind, NEW out,
         Proceed(p, rest, at, s, kind, out)
  PROVE  Alone(p)
<1>1. CASE FailAttempt(p, s, at.converged, TRUE)
  BY <1>1, FailAlone
<1>2. CASE attempt' = [attempt EXCEPT ![p] = at] /\ SetTrust(p, s, kind)
  BY <1>2 DEF SetTrust, Alone, Final, Sound, TrustOK, NetworkOK
<1> QED
  BY <1>1, <1>2 DEF Proceed

\* A storage operation.
LEMMA WithStoredAlone ==
  ASSUME Final, NEW p \in Phone, NEW results, NEW rest, NEW at, NEW kind, NEW out,
         WithStored(p, results, rest, at, kind, out)
  PROVE  Alone(p)
<1>1. PICK r \in results :
        IF r.ok THEN Proceed(p, rest, at, r.store, kind, out)
                ELSE FailAttempt(p, r.store, at.converged, TRUE)
  BY DEF WithStored
<1> QED
  BY <1>1, ProceedAlone, FailAlone

\* A phone with no attempt: the steps that write its store, or another one's.
LEMMA IdleAlone ==
  ASSUME Final, NEW p \in Phone,
         \/ Revoke(p) \/ Initialize(p) \/ ResetError(p) \/ StartRefused(p)
         \/ \E a \in Pair : CreateQr(p, a) \/ ScanConnect(p, a) \/ ScanUnreachable(p, a)
  PROVE  Alone(p)
<1>1. \/ UNCHANGED attempt
      \/ \E at : attempt' = [attempt EXCEPT ![p] = at]
  BY DEF Revoke, Initialize, ResetError, StartRefused, CreateQr, ScanConnect, ScanUnreachable
<1>2. \/ UNCHANGED store
      \/ \E t : store' = [store EXCEPT ![p] = t]
  BY DEF Revoke, Initialize, ResetError, StartRefused, CreateQr, ScanConnect, ScanUnreachable,
         Revalidate, SetTrust
<1> QED
  BY <1>1, <1>2 DEF Alone, Final, Sound, TrustOK, NetworkOK

\* What a user does on one phone.
LEMMA UserAlone ==
  ASSUME Final, NEW p \in Phone, UserStep(p)
  PROVE  Alone(p)
<1>1. CASE ScannerConfirms(p)
  BY <1>1, ProceedAlone DEF ScannerConfirms
<1>2. CASE CreatorConfirms(p)
  BY <1>2, WithStoredAlone DEF CreatorConfirms
<1>3. CASE ConfirmOutOfTurn(p)
  BY <1>3, FailAlone DEF ConfirmOutOfTurn
<1>4. CASE Cancel(p)
  BY <1>4 DEF Cancel, AbandonAttempt, SetTrust, Release, Alone, Final, Sound, TrustOK, NetworkOK
<1> QED
  BY <1>1, <1>2, <1>3, <1>4, IdleAlone DEF UserStep

\* What one phone's event loop does.
LEMMA ServiceAlone ==
  ASSUME Final, NEW p \in Phone, ServiceStep(p)
  PROVE  Alone(p)
<1>1. CASE Initialize(p)
  BY <1>1, IdleAlone
<1>2. CASE ReceiveConnected(p) \/ OrphanClosed(p)
  BY <1>2 DEF ReceiveConnected, OrphanClosed, service, Alone, Final, Sound, TrustOK, NetworkOK
<1>3. ASSUME NEW m, NEW at, NEW kind, NEW out, Answer(p, m, at, kind, out)
      PROVE  Alone(p)
  BY <1>3, ProceedAlone DEF Answer
<1>4. CASE ReceiveHello(p) \/ ReceiveIdentity(p) \/ ReceiveConfirm(p) \/ ReceiveScannerStaged(p)
  BY <1>3, <1>4 DEF ReceiveHello, ReceiveIdentity, ReceiveConfirm, ReceiveScannerStaged
<1>5. CASE ReceiveCommit(p) \/ ReceiveCreatorReady(p) \/ ReceiveScannerCommitted(p)
           \/ ReceiveCreatorCommitted(p)
  BY <1>5, WithStoredAlone DEF ReceiveCommit, ReceiveCreatorReady, ReceiveScannerCommitted,
     ReceiveCreatorCommitted, InstallOn, StoreAndAck
<1>6. CASE ReceiveScannerConfirmed(p)
  <2>1. \/ \E rest, at, s, kind, out : Proceed(p, rest, at, s, kind, out)
        \/ \E s, conv : FailAttempt(p, s, conv, TRUE)
    BY <1>6 DEF ReceiveScannerConfirmed
  <2> QED
    BY <2>1, ProceedAlone, FailAlone
<1>7. CASE ReceiveCreatorConfirmed(p) \/ ReceiveConverged(p)
  <2>1. \/ \E s, conv : FailAttempt(p, s, conv, TRUE)
        \/ \E s, out : SetTrust(p, s, "paired") /\ Release(p, out)
    BY <1>7 DEF ReceiveCreatorConfirmed, ReceiveConverged, Complete
  <2> QED
    BY <2>1, FailAlone DEF SetTrust, Release, Alone, Final, Sound, TrustOK, NetworkOK
<1>8. CASE ReceiveCancel(p)
  BY <1>8 DEF ReceiveCancel, AbandonAttempt, SetTrust, Release, Alone, Final, Sound, TrustOK, NetworkOK
<1>9. CASE ReceiveError(p) \/ ReceiveClosed(p) \/ ReceiveListenerError(p)
  BY <1>9, FailAlone DEF ReceiveError, ReceiveClosed, ReceiveListenerError
<1> QED
  BY <1>1, <1>2, <1>4, <1>5, <1>6, <1>7, <1>8, <1>9 DEF ServiceStep

\* A process death.
LEMMA CrashAlone ==
  ASSUME Final, NEW p \in Phone, Crash(p)
  PROVE  Alone(p)
  BY DEF Crash, SetTrust, Alone, Final, Sound, TrustOK, NetworkOK

\* While an attempt runs, the only pair its phone can trust is its own.
LEMMA OwnTrust ==
  ASSUME Final, NEW p \in Phone, NEW a \in Pair, attempt[p].id # NoPair, Trusts(store[p], a)
  PROVE  attempt[p].id = a
<1>1. PICK at, s, x : at = attempt[p] /\ s = store[p] /\ x = inbox[p]
  OBVIOUS
<1>2. \E w : Came(w, at, s)
  <2>1. \/ ~at.linked /\ Came("waiting_remote_identity", at, s)
        \/ CreatorScript(at, s, x)
        \/ ScannerScript(at, s, x)
    BY <1>1, ScannerLinked, AttemptRole DEF Final
  <2> QED
    BY <2>1 DEF CreatorScript, ScannerScript
<1>3. LoadResult(s) = "confirmed" /\ s.meta = a /\ HasDurableMaterial(s)
  BY <1>1 DEF Trusts, LoadResult
<1>4. s.meta = at.id
  BY <1>2, <1>3 DEF Came, Blank, IsStaged, IsInstalled
<1> QED
  BY <1>1, <1>3, <1>4

\* What an idle phone's own steps can do to the pair it trusts.
LEMMA IdleTrust ==
  ASSUME Final, NEW p \in Phone, NEW a \in Pair, attempt[p].id = NoPair, Trusts(store[p], a),
         UserStep(p) \/ ServiceStep(p) \/ Expire(p) \/ Crash(p)
  PROVE  Trusts(store'[p], a) \/ (ui[p] = "paired" /\ ui'[p] \in {"unpaired", "error", "loading"})
<1>1. /\ ~attempt[p].linked /\ attempt[p].role = "none" /\ attempt[p].phase = "idle"
      /\ LoadResult(store[p]) = "confirmed" /\ store[p].meta = a /\ store[p] \in Store
  BY NoRole DEF Final, Sound, TrustOK, Trusts, NoAttempt
<1>2. \A m : ~Arrives(p, m)
  BY <1>1 DEF Arrives
<1>3. \/ Revoke(p) \/ Initialize(p) \/ ResetError(p) \/ Crash(p)
      \/ UNCHANGED store \/ \E b \in Pair : ScanUnreachable(p, b)
  <2>1. CASE UserStep(p)
    <3>1. ~ScannerConfirms(p) /\ ~CreatorConfirms(p) /\ ~ConfirmOutOfTurn(p) /\ ~Cancel(p)
      BY <1>1 DEF ScannerConfirms, CreatorConfirms, ConfirmOutOfTurn, Cancel, Active
    <3> QED
      BY <2>1, <3>1 DEF UserStep, CreateQr, ScanConnect, StartRefused
  <2>2. CASE ServiceStep(p)
    <3>1. /\ ~ReceiveHello(p) /\ ~ReceiveIdentity(p) /\ ~ReceiveConfirm(p)
          /\ ~ReceiveScannerStaged(p) /\ ~ReceiveCancel(p) /\ ~ReceiveError(p)
      BY <1>2 DEF ReceiveHello, ReceiveIdentity, ReceiveConfirm, ReceiveScannerStaged,
         ReceiveCancel, ReceiveError, Answer
    <3>2. /\ ~ReceiveCommit(p) /\ ~ReceiveCreatorReady(p) /\ ~ReceiveScannerCommitted(p)
          /\ ~ReceiveCreatorCommitted(p) /\ ~ReceiveScannerConfirmed(p)
          /\ ~ReceiveCreatorConfirmed(p) /\ ~ReceiveConverged(p)
      BY <1>2 DEF ReceiveCommit, ReceiveCreatorReady, ReceiveScannerCommitted,
         ReceiveCreatorCommitted, ReceiveScannerConfirmed, ReceiveCreatorConfirmed,
         ReceiveConverged, InstallOn, Finalizing
    <3>3. ~ReceiveClosed(p) /\ ~ReceiveListenerError(p)
      BY <1>1 DEF ReceiveClosed, ReceiveListenerError
    <3> QED
      BY <2>2, <3>1, <3>2, <3>3 DEF ServiceStep, ReceiveConnected, OrphanClosed, service
  <2>3. CASE Expire(p)
    BY <2>3 DEF Expire, Active
  <2> QED
    BY <2>1, <2>2, <2>3
<1>4. CASE Revoke(p)
  <2>1. PICK t, kind : SetTrust(p, t, kind) /\ kind \in {"unpaired", "error"}
    BY <1>4 DEF Revoke
  <2> QED
    BY <1>4, <2>1 DEF Revoke, SetTrust, Final, Sound, TrustOK
<1>5. CASE Initialize(p) \/ ResetError(p)
  <2>1. PICK r \in DiscardIncomplete(store[p]) : store' = [store EXCEPT ![p] = r.store]
    BY <1>5 DEF Initialize, ResetError, Revalidate, SetTrust
  <2>2. LoadResult(r.store) = "confirmed" /\ r.store.meta = store[p].meta
    BY <1>1, DiscardIncompleteKeepsConfirmed
  <2>3. store'[p] = r.store
    BY <2>1 DEF Final, Sound, TrustOK
  <2> QED
    BY <1>1, <2>2, <2>3 DEF Trusts
<1>6. CASE UNCHANGED store
  BY <1>6
<1>7. ASSUME NEW b \in Pair, ScanUnreachable(p, b) PROVE FALSE
  BY <1>1, <1>7 DEF ScanUnreachable, LoadConfirmed, IfFaulty
<1>8. CASE Crash(p)
  <2>1. PICK s \in Interrupted(p) : SetTrust(p, s, "loading")
    BY <1>8 DEF Crash
  <2>2. store'[p] = s /\ ui'[p] = "loading"
    BY <2>1 DEF SetTrust, Final, Sound, TrustOK
  <2>3. CASE ui[p] = "paired"
    BY <2>2, <2>3
  <2>4. CASE ui[p] # "paired"
    <3>1. store[p].status = "confirmed"
      BY <1>1 DEF LoadResult
    <3>2. s \in PartlyNoPending(store[p])
      BY <1>1, <2>4, <3>1 DEF Interrupted, Active
    <3>3. s.meta = store[p].meta /\ s.secret = store[p].secret /\ s.status = store[p].status
      BY <1>1, <3>2, PartlyNoPendingWithin
    <3> QED
      BY <1>1, <2>2, <3>3 DEF Trusts, LoadResult, HasDurableMaterial
  <2> QED
    BY <2>3, <2>4
<1> QED
  BY <1>3, <1>4, <1>5, <1>6, <1>7, <1>8

\* Who takes a step.
LEMMA StepOfOne ==
  ASSUME Final, Next
  PROVE  \/ UNCHANGED <<store, attempt>>
         \/ \E q \in Phone : /\ UserStep(q) \/ ServiceStep(q) \/ Expire(q) \/ Crash(q)
                             /\ Alone(q)
<1>1. ASSUME NEW q \in Phone, UserStep(q) \/ ServiceStep(q) \/ Expire(q) \/ Crash(q)
      PROVE  Alone(q)
  <2>1. CASE Expire(q)
    BY <2>1, FailAlone DEF Expire
  <2> QED
    BY <1>1, <2>1, UserAlone, ServiceAlone, CrashAlone
<1>2. ASSUME NEW a \in Pair, LinkBreaks(a) \/ ListenerBreaks(a)
      PROVE  UNCHANGED <<store, attempt>>
  BY <1>2 DEF LinkBreaks, ListenerBreaks, service
<1> QED
  BY <1>1, <1>2 DEF Next, Environment

\* A confirmed pair is removed only by the attempt that made it or by the user
\* forgetting it: neither scanning nor showing another QR, nor a start, reset
\* or process death costs it (startCreatorNow, startScannerNow, initialize).
THEOREM TrustOutlives == Spec => TrustOutlivesOtherAttempts
<1>1. ASSUME Final, [Next]_vars, NEW p \in Phone, NEW a \in Pair,
             Trusts(store[p], a), ~Trusts(store'[p], a)
      PROVE  \/ attempt[p].id = a
             \/ ui[p] = "paired" /\ ~Active(p) /\ ui'[p] \in {"unpaired", "error", "loading"}
  <2>1. store'[p] # store[p]
    BY <1>1
  <2>2. Next
    BY <1>1, <2>1 DEF vars, service
  <2>3. UserStep(p) \/ ServiceStep(p) \/ Expire(p) \/ Crash(p)
    BY <1>1, <2>1, <2>2, StepOfOne DEF Alone
  <2>4. CASE attempt[p].id # NoPair
    BY <1>1, <2>4, OwnTrust
  <2>5. CASE attempt[p].id = NoPair
    BY <1>1, <2>3, <2>5, IdleTrust DEF Active
  <2> QED
    BY <2>4, <2>5
<1>2. TypeOK /\ ConsentInv /\ FinalInv /\ [Next]_vars =>
        [\A p \in Phone, a \in Pair :
           Trusts(store[p], a) /\ ~Trusts(store'[p], a)
             => attempt[p].id = a \/ (ui[p] = "paired" /\ ~Active(p) /\ ui'[p] \in {"unpaired", "error", "loading"})]_vars
  BY <1>1, TypeOKParts DEF Final, Sound
<1>3. Spec => [](TypeOK /\ ConsentInv /\ FinalInv)
  BY TypeCorrect, ConsentInvariant, FinalInvariant, PTL
<1> QED
  BY <1>2, <1>3, PTL DEF Spec, TrustOutlivesOtherAttempts

\* Only a creator whose pair is confirmed has converged.
LEMMA ConvergedIs ==
  ASSUME Final, NEW p \in Phone, attempt[p].converged
  PROVE  /\ attempt[p].id # NoPair /\ attempt[p].linked /\ attempt[p].role = "creator"
         /\ attempt[p].phase = "finalizing" /\ LoadResult(store[p]) = "confirmed"
         /\ CreatorScript(attempt[p], store[p], inbox[p])
<1>1. attempt[p].id # NoPair
  BY NoRole DEF NoAttempt, Final
<1>2. PICK at, s, x : at = attempt[p] /\ s = store[p] /\ x = inbox[p]
  OBVIOUS
<1>3. \A w : Came(w, at, s) => /\ at.role = "creator" /\ at.phase = "finalizing"
                               /\ w = "confirmed" /\ IsInstalled(s, at.id, "confirmed")
  BY <1>2 DEF Came
<1>4. at.linked
  BY <1>1, <1>2, <1>3, ScannerLinked
<1>5. at.role = "creator"
  BY <1>1, <1>2, <1>3, <1>4, ScannerLinked, AttemptRole DEF Final, ScannerScript
<1>6. CreatorScript(at, s, x)
  BY <1>1, <1>2, <1>4, <1>5, ScannerLinked
<1>7. at.phase = "finalizing" /\ IsInstalled(s, at.id, "confirmed")
  BY <1>3, <1>6 DEF CreatorScript
<1>8. LoadResult(s) = "confirmed"
  BY <1>1, <1>2, <1>7 DEF LoadResult, HasDurableMaterial, IsInstalled
<1> QED
  BY <1>1, <1>2, <1>4, <1>5, <1>6, <1>7, <1>8

\* failAttempt of a converged attempt completes it, if the pair can be loaded.
LEMMA FailCompletes ==
  ASSUME Final, NEW p \in Phone, ~StorageFaults, attempt[p].converged, NEW conv, conv = TRUE,
         NEW notify, FailAttempt(p, store[p], conv, notify)
  PROVE  ui'[p] = "paired"
<1>1. LoadConfirmed(store[p]) = {"confirmed"}
  BY ConvergedIs DEF LoadConfirmed, IfFaulty
<1>2. SetTrust(p, store[p], "paired")
  BY <1>1 DEF FailAttempt, Complete
<1> QED
  BY <1>2 DEF SetTrust, Final, Sound, TrustOK

\* The steps of a phone that has converged.
LEMMA ConvergedSteps ==
  ASSUME Final, NEW p \in Phone, attempt[p].converged,
         UserStep(p) \/ ServiceStep(p) \/ Expire(p) \/ Crash(p)
  PROVE  \/ Cancel(p) \/ ReceiveCancel(p) \/ Crash(p) \/ ReceiveConverged(p)
         \/ ConfirmOutOfTurn(p) \/ ReceiveError(p) \/ ReceiveClosed(p)
         \/ ReceiveListenerError(p) \/ Expire(p)
         \/ ReceiveConnected(p) \/ OrphanClosed(p)
<1>1. /\ attempt[p].id # NoPair /\ attempt[p].role = "creator" /\ attempt[p].phase = "finalizing"
      /\ CreatorScript(attempt[p], store[p], inbox[p])
  BY ConvergedIs
<1>2. ui[p] \in AttemptKinds
  BY <1>1, FinalParts DEF Final, PhoneFits, Screen
<1>3. \A ph, event : ~Enters(attempt[p], event, ph)
  BY <1>1 DEF Enters, Transitions
<1>4. \A m \in {"scanner_staged", "scanner_committed", "scanner_confirmed"} : ~Arrives(p, m)
  <2>1. ASSUME NEW m \in {"scanner_staged", "scanner_committed", "scanner_confirmed"}, Arrives(p, m)
        PROVE  FALSE
    <3>1. inbox[p] # <<>> /\ Head(inbox[p]) = m
      BY <2>1 DEF Arrives
    <3>2. Came("staged", attempt[p], store[p]) \/ Came("committed", attempt[p], store[p])
      BY <1>1, <2>1, <3>1, CreatorHears DEF LastWord
    <3> QED
      BY <3>2, CameTo
  <2> QED
    BY <2>1
<1>5. CASE UserStep(p)
  <2>1. ~Idle(p) /\ ui[p] \notin {"paired", "error", "loading"}
    BY <1>1, <1>2 DEF Idle, Active, AttemptKinds
  <2> QED
    BY <1>3, <1>5, <2>1 DEF UserStep, CreateQr, ScanConnect, ScanUnreachable, StartRefused,
       Revoke, ResetError, ScannerConfirms, CreatorConfirms
<1>6. CASE ServiceStep(p)
  <2>1. ~Initialize(p)
    BY <1>2 DEF Initialize, AttemptKinds
  <2>2. ~ReceiveHello(p) /\ ~ReceiveIdentity(p) /\ ~ReceiveConfirm(p)
    BY <1>1, <1>3 DEF ReceiveHello, ReceiveIdentity, ReceiveConfirm
  <2>3. ~ReceiveCommit(p) /\ ~ReceiveCreatorReady(p) /\ ~ReceiveCreatorCommitted(p)
        /\ ~ReceiveCreatorConfirmed(p)
    BY <1>1 DEF ReceiveCommit, ReceiveCreatorReady, ReceiveCreatorCommitted,
       ReceiveCreatorConfirmed, InstallOn, Finalizing
  <2>4. ~ReceiveScannerStaged(p) /\ ~ReceiveScannerCommitted(p) /\ ~ReceiveScannerConfirmed(p)
    BY <1>4 DEF ReceiveScannerStaged, ReceiveScannerCommitted, ReceiveScannerConfirmed,
       InstallOn, Finalizing
  <2> QED
    BY <1>6, <2>1, <2>2, <2>3, <2>4 DEF ServiceStep
<1> QED
  BY <1>5, <1>6

\* Once the creator has recorded durable convergence, no failure rolls the pair
\* back (failAttempt): unless its user or the other one cancels, its process
\* dies or its storage is broken, its attempt ends in "paired".
THEOREM ConvergedAttemptsComplete == Spec => ConvergedCompletes
<1>1. ASSUME Final, [Next]_vars, NEW p \in Phone, attempt[p].converged, ~Active(p)', ~StorageFaults
      PROVE  ui'[p] = "paired" \/ ui'[p] = "loading" \/ attempt[p].id \in cancelled'
  <2>1. attempt[p].id # NoPair /\ attempt'[p].id = NoPair
    BY <1>1, ConvergedIs DEF Active
  <2>2. attempt'[p] # attempt[p]
    BY <2>1
  <2>3. Next
    BY <1>1, <2>2 DEF vars, service
  <2>4. UserStep(p) \/ ServiceStep(p) \/ Expire(p) \/ Crash(p)
    BY <1>1, <2>2, <2>3, StepOfOne DEF Alone
  <2>5. CASE Cancel(p)
    BY <2>5 DEF Cancel
  <2>6. CASE ReceiveCancel(p)
    <3>1. Arrives(p, "PAIR_CANCEL") /\ cancelled' = cancelled
      BY <2>6 DEF ReceiveCancel, history
    <3>2. attempt[p].id \in Pair /\ Waits("PAIR_CANCEL", attempt[p].id, p)
      BY <1>1, <3>1, Hears
    <3> QED
      BY <1>1, <3>1, <3>2, FinalParts DEF Final, Cancels
  <2>7. CASE Crash(p)
    BY <1>1, <2>7 DEF Crash, SetTrust, Final, Sound, TrustOK
  <2>8. CASE ReceiveConverged(p)
    <3>1. LoadConfirmed(store[p]) = {"confirmed"}
      BY <1>1, ConvergedIs DEF LoadConfirmed, IfFaulty
    <3>2. SetTrust(p, store[p], "paired")
      BY <2>8, <3>1 DEF ReceiveConverged, Complete
    <3> QED
      BY <1>1, <3>2 DEF SetTrust, Final, Sound, TrustOK
  <2>9. CASE ConfirmOutOfTurn(p) \/ ReceiveError(p) \/ ReceiveClosed(p)
             \/ ReceiveListenerError(p) \/ Expire(p)
    <3>1. PICK conv, notify : conv = attempt[p].converged /\ FailAttempt(p, store[p], conv, notify)
      BY <2>9 DEF ConfirmOutOfTurn, ReceiveError, ReceiveClosed, ReceiveListenerError, Expire
    <3>2. attempt[p] \in Attempt
      BY <1>1, <2>1, AttemptRole DEF Final
    <3>3. conv = TRUE
      BY <1>1, <3>1, <3>2 DEF Attempt
    <3> QED
      BY <1>1, <3>1, <3>3, FailCompletes
  <2>10. CASE ReceiveConnected(p) \/ OrphanClosed(p)
    <3>1. attempt'[p].id = attempt[p].id
      BY <1>1, <2>1, <2>10, AttemptRole DEF ReceiveConnected, OrphanClosed, service, Attempt,
         Final, Sound, NetworkOK
    <3> QED
      BY <2>1, <3>1
  <2> QED
    BY <1>1, <2>4, <2>5, <2>6, <2>7, <2>8, <2>9, <2>10, ConvergedSteps
<1>2. TypeOK /\ ConsentInv /\ FinalInv /\ [Next]_vars =>
        [\A p \in Phone :
           attempt[p].converged /\ ~Active(p)' /\ ~StorageFaults
             => \/ ui'[p] = "paired"
                \/ ui'[p] = "loading"
                \/ attempt[p].id \in cancelled']_vars
  BY <1>1, TypeOKParts DEF Final, Sound
<1>3. Spec => [](TypeOK /\ ConsentInv /\ FinalInv)
  BY TypeCorrect, ConsentInvariant, FinalInvariant, PTL
<1> QED
  BY <1>2, <1>3, PTL DEF Spec, ConvergedCompletes
=============================================================================
