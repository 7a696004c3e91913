----------------------------- MODULE MCThreadPool -----------------------------
(* A small machine for TLC: three threads, ratios small enough that both      *)
(* counters run out, and enough changes of priority to fill the three queues. *)
EXTENDS ThreadPool
=============================================================================
