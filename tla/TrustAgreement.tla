--------------------------- MODULE TrustAgreement ---------------------------
(***************************************************************************)
(* What pairing promises about trust, with nothing of how: a pair has a    *)
(* host and a guest, both users consent to it, then both phones pledge to  *)
(* it, and only then may either of them trust it.  Trust can be given up   *)
(* at any time, on one phone alone, and no pair is trusted twice over.     *)
(***************************************************************************)
CONSTANTS Phone, Pair, NoPhone, NoPair

VARIABLES host, guest,  \* the two phones of a pair
          consent,      \* phones whose user consented to a pair
          pledged,      \* phones that have the pair's secret and can trust it
          trust         \* the pair each phone trusts, or NoPair

vars == <<host, guest, consent, pledged, trust>>

Both(a) == {host[a], guest[a]}

Init ==
  /\ host = [a \in Pair |-> NoPhone]
  /\ guest = [a \in Pair |-> NoPhone]
  /\ consent = [a \in Pair |-> {}]
  /\ pledged = [a \in Pair |-> {}]
  /\ trust = [p \in Phone |-> NoPair]

Offer(p, a) ==
  /\ host[a] = NoPhone
  /\ host' = [host EXCEPT ![a] = p]
  /\ UNCHANGED <<guest, consent, pledged, trust>>

Join(p, a) ==
  /\ host[a] \in Phone \ {p}
  /\ guest[a] = NoPhone
  /\ guest' = [guest EXCEPT ![a] = p]
  /\ UNCHANGED <<host, consent, pledged, trust>>

\* The guest consents first, the host only after it.
Consent(p, a) ==
  /\ p \in Both(a)
  /\ p = host[a] => guest[a] \in consent[a]
  /\ consent' = [consent EXCEPT ![a] = @ \cup {p}]
  /\ UNCHANGED <<host, guest, pledged, trust>>

\* The guest also pledges first.
Pledge(p, a) ==
  /\ p \in Both(a)
  /\ Both(a) \subseteq consent[a]
  /\ p = host[a] => guest[a] \in pledged[a]
  /\ pledged' = [pledged EXCEPT ![a] = @ \cup {p}]
  /\ UNCHANGED <<host, guest, consent, trust>>

Trust(p, a) ==
  /\ p \in Both(a)
  /\ Both(a) \subseteq pledged[a]
  /\ trust[p] = NoPair
  /\ trust' = [trust EXCEPT ![p] = a]
  /\ UNCHANGED <<host, guest, consent, pledged>>

Forget(p) ==
  /\ trust' = [trust EXCEPT ![p] = NoPair]
  /\ UNCHANGED <<host, guest, consent, pledged>>

Next ==
  \E p \in Phone :
    \/ Forget(p)
    \/ \E a \in Pair : Offer(p, a) \/ Join(p, a) \/ Consent(p, a)
                         \/ Pledge(p, a) \/ Trust(p, a)

Spec == Init /\ [][Next]_vars
=============================================================================
