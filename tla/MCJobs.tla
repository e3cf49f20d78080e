------------------------------- MODULE MCJobs -------------------------------
(* JobSystem on a small pool: model values for its threads. *)
EXTENDS JobSystem

CONSTANTS w1, w2, t1
MCWorker == {w1, w2}
MCThread == {t1}
MCMainOnly == {Main}
MCMainAndWorkers == {Main} \cup MCWorker
MCThreadOnly == {t1}
=============================================================================
