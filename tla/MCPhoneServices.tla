--------------------------- MODULE MCPhoneServices ---------------------------
(***************************************************************************)
(* Four services of one phone for TLC: PairTrustRepository, LocalIdentity, *)
(* IncomingRequestNotifier and Diagnostics.  They share nothing, so each   *)
(* behaviour is about one of them and leaves the others alone.             *)
(***************************************************************************)
EXTENDS PairTrustRepository, LocalIdentity, IncomingRequestNotifier, Diagnostics

VARIABLE part   \* the service this behaviour is about

partVars == <<vars, identityVars, noticeVars, logVars, part>>

PartsInit ==
  /\ Init /\ IdentityInit /\ NotifierInit /\ LogInit
  /\ part \in {"trust", "identity", "notifier", "log"}
  /\ part # "identity" => stored = None
  /\ part # "notifier" => ~mayRefuse
  /\ part # "log" => ~corrupt

Trust == part = "trust" /\ Next /\ UNCHANGED <<identityVars, noticeVars, logVars, part>>

Identify == part = "identity" /\ IdentityNext /\ UNCHANGED <<vars, noticeVars, logVars, part>>

Notices(A) == part = "notifier" /\ A /\ UNCHANGED <<vars, identityVars, logVars, part>>

Diagnose == part = "log" /\ LogNext /\ UNCHANGED <<vars, identityVars, noticeVars, part>>

PartsNext == Trust \/ Identify \/ Notices(NotifierNext) \/ Diagnose

\* NotifierFairness in the behaviours that are about the notifier.
PartsSpec == PartsInit /\ [][PartsNext]_partVars /\ WF_partVars(Notices(Works))
=============================================================================
