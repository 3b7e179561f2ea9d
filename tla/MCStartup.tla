----------------------------- MODULE MCStartup -----------------------------
(* Two instances that start, one of which is searched through its breaker. *)
EXTENDS Startup
=============================================================================
