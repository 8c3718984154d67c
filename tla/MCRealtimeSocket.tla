-------------------------- MODULE MCRealtimeSocket --------------------------
(* A url the cookie reaches, another, and one that it does not.             *)
EXTENDS RealtimeSocket

CONSTANTS chat, presence, foreign
=============================================================================
