--------------------------- MODULE MC_ThreadPool ---------------------------
(* ThreadPool on a few workers, for TLC. *)
EXTENDS ThreadPool
=============================================================================
