-------------------------- MODULE MCBrowserSession --------------------------
(* A browser that can hold the cookies of two sessions.                      *)
EXTENDS BrowserSession

CONSTANTS t1, t2
=============================================================================
