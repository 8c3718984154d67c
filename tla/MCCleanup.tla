----------------------------- MODULE MCCleanup -----------------------------
(* Runs of scripts/cleanup.js over four features, and over all of them.    *)
EXTENDS Cleanup
=============================================================================
