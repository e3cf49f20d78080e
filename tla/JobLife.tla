------------------------------- MODULE JobLife -------------------------------
(***************************************************************************)
(* What the job system promises of its jobs, without queues, workers or     *)
(* locks (docs/threading.md): a body runs at most once, and not when its    *)
(* token was cancelled before; a job is done only after its completion was  *)
(* handed over, which is after its body; a completion runs once; the handle *)
(* of a parallel_for is done when every chunk has run.  None of this is     *)
(* ever taken back.                                                         *)
(***************************************************************************)
EXTENDS Naturals, FiniteSets

CONSTANTS
    Job, Group,   \* handles: of jobs, and of the parallel_for
    NumChunks     \* chunks of the parallel_for

VARIABLES
    submitted,  \* jobs dispatched
    chunks,     \* those of them that are chunks of the parallel_for
    cancelled,  \* handles cancelled
    bodies,     \* per job: times its body was entered
    returned,   \* jobs whose body has come to its end
    posted,     \* jobs that are over, with their completion handed over
    done,       \* jobs whose handle is done
    joined,     \* whether the handle of the parallel_for is done
    completed   \* per job: times its completion ran

lifeVars == << submitted, chunks, cancelled, bodies, returned, posted, done, joined, completed >>

Init ==
    /\ submitted = {} /\ chunks = {} /\ cancelled = {}
    /\ bodies = [j \in Job |-> 0] /\ returned = {}
    /\ posted = {} /\ done = {} /\ joined = FALSE
    /\ completed = [j \in Job |-> 0]

\* The chunks of a parallel_for share its token.
Cancelled(j) == (IF j \in chunks THEN Group ELSE j) \in cancelled

Submit(j) ==
    /\ j \notin submitted
    /\ submitted' = submitted \cup {j}
    /\ \/ UNCHANGED chunks
       \/ Cardinality(chunks) < NumChunks /\ chunks' = chunks \cup {j}
    /\ UNCHANGED << cancelled, bodies, returned, posted, done, joined, completed >>

Cancel(h) ==
    /\ cancelled' = cancelled \cup {h}
    /\ UNCHANGED << submitted, chunks, bodies, returned, posted, done, joined, completed >>

Start(j) ==
    /\ j \in submitted \ posted /\ bodies[j] = 0 /\ ~Cancelled(j)
    /\ bodies' = [bodies EXCEPT ![j] = 1]
    /\ UNCHANGED << submitted, chunks, cancelled, returned, posted, done, joined, completed >>

Return(j) ==
    /\ bodies[j] = 1 /\ j \notin returned \cup posted
    /\ returned' = returned \cup {j}
    /\ UNCHANGED << submitted, chunks, cancelled, bodies, posted, done, joined, completed >>

\* After its body, or without it when it was cancelled before it started.
Post(j) ==
    /\ j \in submitted \ posted
    /\ j \in returned \/ (bodies[j] = 0 /\ Cancelled(j))
    /\ posted' = posted \cup {j}
    /\ UNCHANGED << submitted, chunks, cancelled, bodies, returned, done, joined, completed >>

Finish(j) ==
    /\ j \in posted \ done
    /\ done' = done \cup {j}
    /\ UNCHANGED << submitted, chunks, cancelled, bodies, returned, posted, joined, completed >>

\* Chunks have no completion.
Complete(j) ==
    /\ j \in posted \ chunks /\ completed[j] = 0
    /\ completed' = [completed EXCEPT ![j] = 1]
    /\ UNCHANGED << submitted, chunks, cancelled, bodies, returned, posted, done, joined >>

Join ==
    /\ Cardinality(chunks) = NumChunks /\ chunks \subseteq returned
    /\ joined' = TRUE
    /\ UNCHANGED << submitted, chunks, cancelled, bodies, returned, posted, done, completed >>

Next ==
    \/ \E j \in Job : Submit(j) \/ Start(j) \/ Return(j) \/ Post(j) \/ Finish(j) \/ Complete(j)
    \/ \E h \in Job \cup {Group} : Cancel(h)
    \/ Join

Spec == Init /\ [][Next]_lifeVars
==============================================================================
