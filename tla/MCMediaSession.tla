--------------------------- MODULE MCMediaSession ---------------------------
(***************************************************************************)
(* MediaSession on small instances.                                        *)
(***************************************************************************)
EXTENDS MediaSessionProperties, TLC

CONSTANTS A, B

\* The phones take turns.
TakeTurns(s) == IF s % 2 = 1 THEN A ELSE B
=============================================================================
