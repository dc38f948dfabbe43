----------------------------- MODULE MCShutdown -----------------------------
(* Shutdown with model values for the requests.                            *)
EXTENDS ShutdownInduction
=============================================================================
