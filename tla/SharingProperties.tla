-------------------------- MODULE SharingProperties --------------------------
(***************************************************************************)
(* What the two users of a pair may rely on when they request, share and   *)
(* end a screen session.                                                   *)
(***************************************************************************)
EXTENDS SharingSession

InRequest(p) == product[p].type \in {"IncomingRequest", "OutgoingRequest"}
Active(p) == IsActive(product[p])

\* Every variable stays in its domain.
TypeOK ==
  /\ \A p \in Phone : chan[p] \in End /\ mail[p] \in Seq([sessionId : Session, body : Bodies])
  /\ \A p \in Phone : product[p].sessionId \in SessionOrNone /\ timeout[p] \in SessionOrNone
  /\ \A p \in Phone : asking[p].step \in {"no", "calling", "returned", "threw"}
  /\ \A p \in Phone : Len(events[p]) <= MaxEvents + 2

\* The phone that watches is the one that asked, and the user of the other one
\* agreed: a requester opened the session, a sharer did not, and whoever is
\* Connected as requester watches on a session on which the partner's user, with
\* a request of this phone on the screen, sent an acceptance (requestScreen,
\* acceptRequest, handleMessage).
ViewerWasAdmitted ==
  /\ TypeOK
  /\ \A p \in Phone : Active(p) =>
       LET s == product[p].sessionId IN
       /\ product[p].role = "requester" <=> opener[s] = p
       /\ product[p] = Sharing(s, "requester") => s \in admitted[Other(p)]

\* What tells the controller that its session ended is on its way.
Ends(e) == e.type \in {"closed", "error"}

\* A controller does not believe in a session of which nothing is left: the
\* control session holds it or looks for it, or the event that ends it waits
\* in the queue (handleControlEvent and every close()).  The leftovers of one
\* session can cut the next one off, so this is said of the first.
SessionHasChannel ==
  \A p \in Phone :
    Active(p) /\ lastSession = 1 =>
      \/ 1 \in {chan[p].session, chan[p].resume}
      \/ ending[p] # Nothing
      \/ \E i \in DOMAIN events[p] : Ends(events[p][i])

\* A request on the screen always has a time-out that ends it, and no time-out
\* is armed for anything else (scheduleTimeout and every clearTimeout).
RequestsAreTimed ==
  \A p \in Phone :
    /\ InRequest(p) /\ ending[p] = Nothing =>
         \/ timeout[p] = product[p].sessionId
         \/ \E i \in DOMAIN events[p] :
              events[p][i].type = "timeout" /\ events[p][i].sessionId = product[p].sessionId
    /\ timeout[p] # 0 => InRequest(p) /\ timeout[p] = product[p].sessionId

-----------------------------------------------------------------------------
\* Each controller runs its operations; its channel delivers, notices that the
\* partner is gone, and a call or a search for a lost session ends.
ChannelProgress(p) ==
  /\ asking[p].step \notin {"returned", "threw"}
  /\ \/ ChannelOpens(p) \/ CallThrows(p) \/ ChannelInterrupted(p)
     \/ ChannelGivesUp(p) \/ ChannelDelivers(p)
  /\ UNCHANGED <<product, timeout, ending, admitted>>

Fairness == \A p \in Phone : WF_vars(ControllerStep(p)) /\ WF_vars(ChannelProgress(p))

FairSpec == Spec /\ Fairness

\* A request is answered, withdrawn or times out.
RequestsEnd == \A p \in Phone : InRequest(p) ~> ~InRequest(p)

\* When one phone leaves a session the other one leaves it too.
In(p, s) == Active(p) /\ product[p].sessionId = s
EndsTogether ==
  \A p \in Phone, s \in Session :
    product[p].type = "Connected" /\ In(p, s) /\ ~In(Other(p), s) ~> ~In(p, s)
=============================================================================
