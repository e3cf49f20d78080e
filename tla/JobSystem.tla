----------------------------- MODULE JobSystem -----------------------------
(***************************************************************************)
(* The worker pool of code/sys/threading/job_system.cpp with the reliable   *)
(* lane of code/sys/threading/main_thread_queue.cpp that carries the        *)
(* completions of its jobs to the main thread.                              *)
(*                                                                         *)
(* One action is one critical section of the pool's mutex_, of the mutex of *)
(* a job's state or of the reliable lane, or one atomic load or store.  The *)
(* bodies of jobs and their completions are opaque: a body returns or       *)
(* throws, a completion runs to its end, neither calls wait().  A thread in *)
(* Dispatchers submits through Sys_JobSubmit, whose handle may be waited    *)
(* for and cancelled as a JobHandle can.  The main thread also calls        *)
(* parallel_for, once, whose combined handle is Combined.                   *)
(*                                                                         *)
(* The lossy lane is not part of this module: with a budget a drain may end *)
(* after any task, so the model lets the main thread run one task per step. *)
(***************************************************************************)
EXTENDS Integers, FiniteSets, SequencesExt

CONSTANTS
    Worker,            \* bound: identities of worker threads
    PoolSize,          \* worker_count of init
    Thread,            \* threads that are neither the main thread nor workers
    Dispatchers,       \* who calls Sys_JobSubmit: Main, threads, workers (from a body)
    Priorities,        \* the queues in use, a subset of 0..2
    MaxJobs,           \* bound: jobs ever dispatched, chunks included
    NumChunks,         \* chunks of the parallel_for
    MaxResizes,        \* bound: calls of resize
    DisturbChunks      \* whether fn of parallel_for may throw, or its handle be cancelled

Main == "main"
Combined == 0
Job == 1..MaxJobs
Handle == Job \cup {Combined}
Caller == {Main} \cup Thread \cup Worker

ASSUME PoolAssumption ==
    /\ PoolSize \in Nat \ {0} /\ IsFiniteSet(Worker) /\ PoolSize <= Cardinality(Worker)
    /\ Main \notin Worker \cup Thread /\ Worker \cap Thread = {}
    /\ Dispatchers \subseteq Caller
    /\ Priorities \subseteq 0..2 /\ 1 \in Priorities
    /\ MaxJobs \in Nat /\ NumChunks \in 1..MaxJobs /\ MaxResizes \in Nat
    /\ DisturbChunks \in BOOLEAN

VARIABLES
    pool,       \* queues_, stopping_, initialized_, workers_
    worker,     \* per worker thread: where it is in worker_loop, and its item's job
    state,      \* JobState of every handle: done, cancelled
    dispatched, \* number of jobs dispatched
    chunks,     \* the jobs that are chunks of the parallel_for
    remaining,  \* its counting latch
    bodies,     \* per job: times its body was entered
    tasks,      \* reliable lane: jobs whose completion waits for the main thread
    completed,  \* per job: times its completion ran
    handles,    \* s_c_handles
    main,       \* the main thread
    call,       \* per caller: the Sys_JobSubmit or dispatch it is inside
    thread      \* per other thread: the wait() it is inside

vars == << pool, worker, state, dispatched, chunks, remaining, bodies, tasks,
           completed, handles, main, call, thread >>

NoWait == [pc |-> "idle", handle |-> Combined]
NoCall == [step |-> "none", job |-> Combined, priority |-> 1]

Init ==
    /\ pool = [queues |-> [p \in 0..2 |-> << >>], stopping |-> FALSE,
               initialized |-> FALSE, workers |-> {}]
    /\ worker = [w \in Worker |-> [pc |-> "none", job |-> Combined]]
    /\ state = [h \in Handle |-> [done |-> FALSE, cancelled |-> FALSE]]
    /\ dispatched = 0 /\ chunks = {} /\ remaining = NumChunks
    /\ bodies = [j \in Job |-> 0]
    /\ tasks = << >> /\ completed = [j \in Job |-> 0] /\ handles = {}
    /\ main = [pc |-> "idle", handle |-> Combined, chunksLeft |-> NumChunks,
               joining |-> {}, resizes |-> 0]
    /\ call = [c \in Caller |-> NoCall]
    /\ thread = [t \in Thread |-> NoWait]

-----------------------------------------------------------------------------
\* Helpers.

QueuesEmpty == \A p \in 0..2 : pool.queues[p] = << >>
Asleep(workers) == {w \in Worker : workers[w].pc = "asleep"}

\* The cancel token of a job's item: the chunks share the combined one.
Cancelled(j) == state[IF j \in chunks THEN Combined ELSE j].cancelled

\* A caller can start something new: a worker from inside a body, a thread outside wait().
Free(c) ==
    /\ call[c].step = "none"
    /\ c = Main => main.pc = "idle"
    /\ c \in Thread => thread[c].pc = "idle"
    /\ c \in Worker => worker[c].pc = "body"

\* notify_one: some sleeping worker, if any, looks at the queues again.
NotifyOne(workers) ==
    IF Asleep(workers) = {}
    THEN worker' = workers
    ELSE \E w \in Asleep(workers) : worker' = [workers EXCEPT ![w].pc = "loop"]

\* Mutant: notify_one where shutdown needs notify_all.
NotifyAllButOne(workers) ==
    LET woken == IF Asleep(workers) = {} THEN {} ELSE {CHOOSE w \in Asleep(workers) : TRUE}
    IN [w \in Worker |-> IF w \in woken THEN [workers[w] EXCEPT !.pc = "loop"] ELSE workers[w]]

NotifyAll(workers) ==
    [w \in Worker |-> IF workers[w].pc = "asleep"
                      THEN [workers[w] EXCEPT !.pc = "loop"] ELSE workers[w]]

\* init: nothing if the pool runs; otherwise stopping_ is reset and threads start.
InitPool ==
    IF pool.initialized
    THEN UNCHANGED << pool, worker >>
    ELSE \E fresh \in kSubset(PoolSize, {w \in Worker : worker[w].pc = "none"}) :
        /\ pool' = [pool EXCEPT !.stopping = FALSE, !.initialized = TRUE, !.workers = @ \cup fresh]
        /\ worker' = [w \in Worker |-> IF w \in fresh THEN [worker[w] EXCEPT !.pc = "loop"]
                                       ELSE worker[w]]

PushItem(j, p) ==
    /\ pool' = [pool EXCEPT !.queues[p] = Append(@, j)]
    /\ NotifyOne(worker)

-----------------------------------------------------------------------------
\* dispatch, parallel_for, and the C interface.

\* dispatch up to its critical section: the item is queued at once, unless the pool is not
\* initialised, in which case init(0) and the push are critical sections of their own.
Enter(c, j, p, after) ==
    IF pool.initialized
    THEN /\ PushItem(j, p)
         /\ call' = [call EXCEPT ![c] = after]
    ELSE /\ call' = [call EXCEPT ![c] = [step |-> "init", job |-> j, priority |-> p]]
         /\ UNCHANGED << pool, worker >>

Dispatch(c) ==
    /\ c \in Dispatchers /\ Free(c) /\ dispatched < MaxJobs
    /\ dispatched' = dispatched + 1
    /\ \E p \in Priorities :
        Enter(c, dispatched + 1, p, [step |-> "register", job |-> dispatched + 1, priority |-> p])
    /\ UNCHANGED << state, chunks, remaining, bodies, tasks, completed, handles,
                    main, thread >>

DispatchInit(c) ==
    /\ call[c].step = "init"
    /\ InitPool
    /\ call' = [call EXCEPT ![c].step = "push"]
    /\ UNCHANGED << state, dispatched, chunks, remaining, bodies, tasks, completed,
                    handles, main, thread >>

DispatchPush(c) ==
    /\ call[c].step = "push"
    /\ PushItem(call[c].job, call[c].priority)
    /\ call' = [call EXCEPT ![c] = IF @.job \in chunks THEN NoCall ELSE [@ EXCEPT !.step = "register"]]
    /\ UNCHANGED << state, dispatched, chunks, remaining, bodies, tasks, completed,
                    handles, main, thread >>

\* The last part of Sys_JobSubmit: the handle enters the table after the job was queued.
Register(c) ==
    /\ call[c].step = "register"
    /\ handles' = handles \cup {call[c].job}
    /\ call' = [call EXCEPT ![c] = NoCall]
    /\ UNCHANGED << pool, worker, state, dispatched, chunks, remaining, bodies, tasks,
                    completed, main, thread >>

ParallelFor ==
    /\ Free(Main) /\ chunks = {} /\ dispatched + NumChunks <= MaxJobs
    /\ main' = [main EXCEPT !.pc = "chunks"]
    /\ UNCHANGED << pool, worker, state, dispatched, chunks, remaining, bodies, tasks,
                    completed, handles, call, thread >>

DispatchChunk ==
    /\ main.pc = "chunks" /\ call[Main].step = "none" /\ dispatched < MaxJobs
    /\ dispatched' = dispatched + 1
    /\ chunks' = chunks \cup {dispatched + 1}
    /\ Enter(Main, dispatched + 1, 1, NoCall)
    /\ main' = [main EXCEPT !.chunksLeft = @ - 1,
                            !.pc = IF main.chunksLeft = 1 THEN "idle" ELSE @]
    /\ UNCHANGED << state, remaining, bodies, tasks, completed, handles, thread >>

\* A handle its caller holds: of a job that Sys_JobSubmit returned, or of the parallel_for.
Held(h) ==
    IF h = Combined THEN main.chunksLeft = 0 /\ main.pc # "chunks" /\ call[Main].step = "none"
    ELSE h <= dispatched /\ h \notin chunks /\ \A c \in Caller : call[c].job # h

Cancel(c, h) ==
    /\ c \in {Main} \cup Thread /\ Free(c) /\ Held(h)
    /\ h = Combined => DisturbChunks
    /\ ~state[h].cancelled
    /\ state' = [state EXCEPT ![h].cancelled = TRUE]
    /\ UNCHANGED << pool, worker, dispatched, chunks, remaining, bodies, tasks, completed,
                    handles, main, call, thread >>

-----------------------------------------------------------------------------
\* worker_loop.

\* Mutant: a stopping worker leaves the queues as they are.
WorkerExitAtOnce(w) ==
    /\ worker[w].pc = "loop" /\ pool.stopping
    /\ worker' = [worker EXCEPT ![w].pc = "exited"]
    /\ UNCHANGED << pool, state, dispatched, chunks, remaining, bodies, tasks, completed,
                    handles, main, call, thread >>

WorkerExit(w) ==
    /\ worker[w].pc = "loop" /\ pool.stopping /\ QueuesEmpty
    /\ worker' = [worker EXCEPT ![w].pc = "exited"]
    /\ UNCHANGED << pool, state, dispatched, chunks, remaining, bodies, tasks, completed,
                    handles, main, call, thread >>

\* Mutant: the item is read from the front of its queue in one critical section, and removed
\* by nobody while another item is behind it.
WorkerTakeFront(w) ==
    /\ worker[w].pc = "loop"
    /\ \E p \in 0..2 :
        /\ pool.queues[p] # << >>
        /\ \A q \in 0..(p - 1) : pool.queues[q] = << >>
        /\ worker' = [worker EXCEPT ![w] = [pc |-> "taken", job |-> Head(pool.queues[p])]]
        /\ pool' = IF Len(pool.queues[p]) > 1 THEN pool ELSE [pool EXCEPT !.queues[p] = Tail(@)]
    /\ UNCHANGED << state, dispatched, chunks, remaining, bodies, tasks, completed,
                    handles, main, call, thread >>

WorkerTake(w) ==
    /\ worker[w].pc = "loop"
    /\ \E p \in 0..2 :
        /\ pool.queues[p] # << >>
        /\ \A q \in 0..(p - 1) : pool.queues[q] = << >>
        /\ worker' = [worker EXCEPT ![w] = [pc |-> "taken", job |-> Head(pool.queues[p])]]
        /\ pool' = [pool EXCEPT !.queues[p] = Tail(@)]
    /\ UNCHANGED << state, dispatched, chunks, remaining, bodies, tasks, completed,
                    handles, main, call, thread >>

WorkerSleep(w) ==
    /\ worker[w].pc = "loop" /\ ~pool.stopping /\ QueuesEmpty
    /\ worker' = [worker EXCEPT ![w].pc = "asleep"]
    /\ UNCHANGED << pool, state, dispatched, chunks, remaining, bodies, tasks, completed,
                    handles, main, call, thread >>

\* Mutant: a cancelled job skips its completion too.
WorkerStartSkipsCompletion(w) ==
    /\ worker[w].pc = "taken"
    /\ LET j == worker[w].job IN
        IF Cancelled(j)
        THEN worker' = [worker EXCEPT ![w].pc = "done"] /\ UNCHANGED bodies
        ELSE /\ worker' = [worker EXCEPT ![w].pc = "body"]
             /\ bodies' = [bodies EXCEPT ![j] = @ + 1]
    /\ UNCHANGED << pool, state, dispatched, chunks, remaining, tasks, completed,
                    handles, main, call, thread >>

\* Mutant: the token is not looked at before the body.
WorkerStartAnyway(w) ==
    /\ worker[w].pc = "taken"
    /\ worker' = [worker EXCEPT ![w].pc = "body"]
    /\ bodies' = [bodies EXCEPT ![worker[w].job] = @ + 1]
    /\ UNCHANGED << pool, state, dispatched, chunks, remaining, tasks, completed,
                    handles, main, call, thread >>

\* A cancelled job skips its body, but not what follows it.
WorkerStart(w) ==
    /\ worker[w].pc = "taken"
    /\ LET j == worker[w].job IN
        IF Cancelled(j)
        THEN worker' = [worker EXCEPT ![w].pc = "post"] /\ UNCHANGED bodies
        ELSE /\ worker' = [worker EXCEPT ![w].pc = "body"]
             /\ bodies' = [bodies EXCEPT ![j] = @ + 1]
    /\ UNCHANGED << pool, state, dispatched, chunks, remaining, tasks, completed,
                    handles, main, call, thread >>

\* Mutant: the latch compares what fetch_sub leaves instead of what it returns.
BodyReturnsLatchEarly(w) ==
    /\ worker[w].pc = "body" /\ call[w].step = "none"
    /\ IF worker[w].job \in chunks
       THEN /\ remaining' = remaining - 1
            /\ worker' = [worker EXCEPT ![w].pc = IF remaining - 1 = 1 THEN "latch" ELSE "post"]
       ELSE /\ worker' = [worker EXCEPT ![w].pc = "post"]
            /\ UNCHANGED remaining
    /\ UNCHANGED << pool, state, dispatched, chunks, bodies, tasks, completed, handles,
                    main, call, thread >>

\* Mutant: a chunk counts the latch down by the two indices of its range, not by one.
BodyReturnsByIndex(w) ==
    /\ worker[w].pc = "body" /\ call[w].step = "none"
    /\ IF worker[w].job \in chunks
       THEN /\ remaining' = remaining - 2
            /\ worker' = [worker EXCEPT ![w].pc = IF remaining = 1 THEN "latch" ELSE "post"]
       ELSE /\ worker' = [worker EXCEPT ![w].pc = "post"]
            /\ UNCHANGED remaining
    /\ UNCHANGED << pool, state, dispatched, chunks, bodies, tasks, completed, handles,
                    main, call, thread >>

\* The body returns.  The body of a chunk ends by counting down the latch: the last one goes
\* on to set the combined handle done.
BodyReturns(w) ==
    /\ worker[w].pc = "body" /\ call[w].step = "none"
    /\ IF worker[w].job \in chunks
       THEN /\ remaining' = remaining - 1
            /\ worker' = [worker EXCEPT ![w].pc = IF remaining = 1 THEN "latch" ELSE "post"]
       ELSE /\ worker' = [worker EXCEPT ![w].pc = "post"]
            /\ UNCHANGED remaining
    /\ UNCHANGED << pool, state, dispatched, chunks, bodies, tasks, completed, handles,
                    main, call, thread >>

\* The exception stays in the item's state: the end of a chunk's body, the latch, is skipped.
BodyThrows(w) ==
    /\ worker[w].pc = "body" /\ call[w].step = "none"
    /\ worker[w].job \in chunks => DisturbChunks
    /\ worker' = [worker EXCEPT ![w].pc = "post"]
    /\ UNCHANGED << pool, state, dispatched, chunks, remaining, bodies, tasks, completed, handles,
                    main, call, thread >>

\* post: chunks have no completion.
PostCompletion(w) ==
    /\ worker[w].pc = "post"
    /\ worker' = [worker EXCEPT ![w].pc = "done"]
    /\ tasks' = IF worker[w].job \in chunks THEN tasks ELSE Append(tasks, worker[w].job)
    /\ UNCHANGED << pool, state, dispatched, chunks, remaining, bodies, completed, handles,
                    main, call, thread >>

\* The two release stores of done: of the item's state, and of the combined state.
StoreDone(w) ==
    /\ \/ /\ worker[w].pc = "done"
          /\ state' = [state EXCEPT ![worker[w].job].done = TRUE]
          /\ worker' = [worker EXCEPT ![w].pc = "notify"]
       \/ /\ worker[w].pc = "latch"
          /\ state' = [state EXCEPT ![Combined].done = TRUE]
          /\ worker' = [worker EXCEPT ![w].pc = "latchNotify"]
    /\ UNCHANGED << pool, dispatched, chunks, remaining, bodies, tasks, completed, handles,
                    main, call, thread >>

\* Mutant: done is published without the mutex.
MutexFreeAlways(h) == h \in Handle

\* The mutex of a handle's state: a thread that found done unset keeps it until it sleeps.
MutexFree(h) == \A t \in Thread : ~(thread[t].pc = "checked" /\ thread[t].handle = h)

Woken(h) ==
    [t \in Thread |-> IF thread[t].pc = "asleep" /\ thread[t].handle = h
                      THEN [thread[t] EXCEPT !.pc = "check"] ELSE thread[t]]

NotifyWaiters(w) ==
    /\ \/ /\ worker[w].pc = "notify" /\ MutexFree(worker[w].job)
          /\ thread' = Woken(worker[w].job)
          /\ worker' = [worker EXCEPT ![w] = [pc |-> "loop", job |-> Combined]]
       \/ /\ worker[w].pc = "latchNotify" /\ MutexFree(Combined)
          /\ thread' = Woken(Combined)
          /\ worker' = [worker EXCEPT ![w].pc = "post"]
    /\ UNCHANGED << pool, state, dispatched, chunks, remaining, bodies, tasks, completed,
                    handles, main, call >>

-----------------------------------------------------------------------------
\* JobHandle::wait off the main thread.

ThreadWait(t, h) ==
    /\ Free(t) /\ Held(h)
    /\ thread' = [thread EXCEPT ![t] = [pc |-> "check", handle |-> h]]
    /\ UNCHANGED << pool, worker, state, dispatched, chunks, remaining, bodies, tasks,
                    completed, handles, main, call >>

\* The predicate of cv.wait, with the mutex taken: it is released by returning or by sleeping.
ThreadCheck(t) ==
    /\ thread[t].pc = "check" /\ MutexFree(thread[t].handle)
    /\ thread' = [thread EXCEPT ![t] = IF state[@.handle].done THEN NoWait ELSE [@ EXCEPT !.pc = "checked"]]
    /\ UNCHANGED << pool, worker, state, dispatched, chunks, remaining, bodies, tasks,
                    completed, handles, main, call >>

ThreadSleep(t) ==
    /\ thread[t].pc = "checked"
    /\ thread' = [thread EXCEPT ![t].pc = "asleep"]
    /\ UNCHANGED << pool, worker, state, dispatched, chunks, remaining, bodies, tasks,
                    completed, handles, main, call >>

-----------------------------------------------------------------------------
\* The main thread.

SubsystemInit ==
    /\ Free(Main) /\ ~pool.initialized
    /\ InitPool
    /\ UNCHANGED << state, dispatched, chunks, remaining, bodies, tasks, completed,
                    handles, main, call, thread >>

\* Mutant: the completion does not drop the handle.
RunTaskKeepsHandle ==
    /\ main.pc \in {"idle", "wait", "lastDrain", "drainAll"} /\ call[Main].step = "none"
    /\ tasks # << >>
    /\ completed' = [completed EXCEPT ![Head(tasks)] = @ + 1]
    /\ tasks' = Tail(tasks)
    /\ UNCHANGED << pool, worker, state, dispatched, chunks, remaining, bodies, handles, main,
                    call, thread >>

\* A task of a drain: the completion runs, and the C interface drops the handle.
RunTask ==
    /\ main.pc \in {"idle", "wait", "lastDrain", "drainAll"} /\ call[Main].step = "none"
    /\ tasks # << >>
    /\ completed' = [completed EXCEPT ![Head(tasks)] = @ + 1]
    /\ handles' = handles \ {Head(tasks)}
    /\ tasks' = Tail(tasks)
    /\ UNCHANGED << pool, worker, state, dispatched, chunks, remaining, bodies, main, call,
                    thread >>

MainWait(h) ==
    /\ Free(Main) /\ Held(h)
    /\ main' = [main EXCEPT !.pc = "wait", !.handle = h]
    /\ UNCHANGED << pool, worker, state, dispatched, chunks, remaining, bodies, tasks,
                    completed, handles, call, thread >>

\* The loop of wait() sees done, and drains once more.
MainSeesDone ==
    /\ main.pc = "wait" /\ state[main.handle].done
    /\ main' = [main EXCEPT !.pc = "lastDrain"]
    /\ UNCHANGED << pool, worker, state, dispatched, chunks, remaining, bodies, tasks,
                    completed, handles, call, thread >>

\* Mutant: wait() returns as soon as it has seen done.
MainWaitReturnsAtDone ==
    /\ main.pc = "lastDrain"
    /\ main' = [main EXCEPT !.pc = "idle", !.handle = Combined]
    /\ UNCHANGED << pool, worker, state, dispatched, chunks, remaining, bodies, tasks,
                    completed, handles, call, thread >>

MainWaitReturns ==
    /\ main.pc = "lastDrain" /\ tasks = << >>
    /\ main' = [main EXCEPT !.pc = "idle", !.handle = Combined]
    /\ UNCHANGED << pool, worker, state, dispatched, chunks, remaining, bodies, tasks,
                    completed, handles, call, thread >>

\* shutdown, from resize or from Sys_SubsystemShutdown.
Shutdown ==
    /\ Free(Main) /\ pool.initialized
    /\ pool' = [pool EXCEPT !.stopping = TRUE, !.initialized = FALSE, !.workers = {}]
    /\ worker' = NotifyAll(worker)
    /\ \/ /\ main.resizes < MaxResizes
          /\ main' = [main EXCEPT !.pc = "joinResize", !.joining = pool.workers,
                                  !.resizes = @ + 1]
       \/ main' = [main EXCEPT !.pc = "joinExit", !.joining = pool.workers]
    /\ UNCHANGED << state, dispatched, chunks, remaining, bodies, tasks, completed,
                    handles, call, thread >>

\* Mutant: the workers are detached instead of joined.
JoinedDetached ==
    /\ main.pc \in {"joinResize", "joinExit"}
    /\ worker' = [w \in Worker |-> IF w \in main.joining /\ worker[w].pc = "exited"
                                   THEN [worker[w] EXCEPT !.pc = "none"] ELSE worker[w]]
    /\ pool' = [pool EXCEPT !.queues = [p \in 0..2 |-> << >>]]
    /\ main' = [main EXCEPT !.joining = {}, !.pc = IF @ = "joinResize" THEN "resize" ELSE "drainAll"]
    /\ UNCHANGED << state, dispatched, chunks, remaining, bodies, tasks, completed,
                    handles, call, thread >>

\* Every worker has been joined: what is left in the queues is dropped.
Joined ==
    /\ main.pc \in {"joinResize", "joinExit"}
    /\ \A w \in main.joining : worker[w].pc = "exited"
    /\ worker' = [w \in Worker |-> IF w \in main.joining THEN [worker[w] EXCEPT !.pc = "none"]
                                   ELSE worker[w]]
    /\ pool' = [pool EXCEPT !.queues = [p \in 0..2 |-> << >>]]
    /\ main' = [main EXCEPT !.joining = {}, !.pc = IF @ = "joinResize" THEN "resize" ELSE "drainAll"]
    /\ UNCHANGED << state, dispatched, chunks, remaining, bodies, tasks, completed,
                    handles, call, thread >>

ResizeInit ==
    /\ main.pc = "resize"
    /\ InitPool
    /\ main' = [main EXCEPT !.pc = "idle"]
    /\ UNCHANGED << state, dispatched, chunks, remaining, bodies, tasks, completed,
                    handles, call, thread >>

\* drain_all has emptied the queue.
Exit ==
    /\ main.pc = "drainAll" /\ tasks = << >>
    /\ main' = [main EXCEPT !.pc = "exited"]
    /\ UNCHANGED << pool, worker, state, dispatched, chunks, remaining, bodies, tasks,
                    completed, handles, call, thread >>

-----------------------------------------------------------------------------
CallStep(c) == DispatchInit(c) \/ DispatchPush(c) \/ Register(c)

WorkerStep(w) ==
    \/ WorkerExit(w) \/ WorkerTake(w) \/ WorkerSleep(w) \/ WorkerStart(w)
    \/ BodyReturns(w) \/ BodyThrows(w)
    \/ PostCompletion(w) \/ StoreDone(w) \/ NotifyWaiters(w)

ThreadStep(t) == ThreadCheck(t) \/ ThreadSleep(t)

MainStep ==
    \/ DispatchChunk \/ RunTask \/ MainSeesDone \/ MainWaitReturns
    \/ Joined \/ ResizeInit \/ Exit

Next ==
    \/ \E c \in Caller : Dispatch(c) \/ CallStep(c)
    \/ \E c \in {Main} \cup Thread, h \in Handle : Cancel(c, h)
    \/ \E w \in Worker : WorkerStep(w)
    \/ \E t \in Thread : ThreadStep(t) \/ \E h \in Handle : ThreadWait(t, h)
    \/ ParallelFor \/ SubsystemInit \/ Shutdown
    \/ \E h \in Handle : MainWait(h)
    \/ MainStep

Spec == Init /\ [][Next]_vars

(***************************************************************************)
(* Every thread is scheduled, every body ends, and the main thread goes on  *)
(* draining: Sys_SubsystemFrame drains in every frame, wait() while it      *)
(* waits.  Nobody has to dispatch, wait, cancel, resize or shut down.       *)
(***************************************************************************)
Fairness ==
    /\ \A c \in Dispatchers \cup {Main} : WF_vars(CallStep(c))
    /\ \A w \in Worker : WF_vars(WorkerStep(w))
    /\ \A t \in Thread : WF_vars(ThreadStep(t))
    /\ WF_vars(MainStep)

FairSpec == Spec /\ Fairness
-----------------------------------------------------------------------------
\* Properties.

TypeOK ==
    /\ pool \in [queues : [0..2 -> Seq(Job)], stopping : BOOLEAN, initialized : BOOLEAN,
                 workers : SUBSET Worker]
    /\ worker \in [Worker -> [pc : {"none", "loop", "asleep", "taken", "body", "latch",
                                    "latchNotify", "post", "done", "notify", "exited"},
                              job : Handle]]
    /\ state \in [Handle -> [done : BOOLEAN, cancelled : BOOLEAN]]
    /\ dispatched \in 0..MaxJobs /\ chunks \subseteq 1..dispatched /\ remaining \in 0..NumChunks
    /\ bodies \in [Job -> Nat] /\ tasks \in Seq(Job) /\ completed \in [Job -> Nat]
    /\ handles \subseteq 1..dispatched
    /\ main \in [pc : {"idle", "chunks", "wait", "lastDrain", "joinResize", "joinExit", "resize",
                      "drainAll", "exited"},
                 handle : Handle, chunksLeft : 0..NumChunks, joining : SUBSET Worker,
                 resizes : 0..MaxResizes]
    /\ call \in [Caller -> [step : {"none", "init", "push", "register"}, job : Handle,
                            priority : 0..2]]
    /\ thread \in [Thread -> [pc : {"idle", "check", "checked", "asleep"}, handle : Handle]]

\* Where a job that is not done is: in a call that has not queued it, in a queue, with a worker.
Places(j) ==
    Cardinality({c \in Caller : call[c].step \in {"init", "push"} /\ call[c].job = j})
    + Cardinality({at \in UNION {{p} \X DOMAIN pool.queues[p] : p \in 0..2} :
                    pool.queues[at[1]][at[2]] = j})
    + Cardinality({w \in Worker : worker[w].job = j /\ worker[w].pc # "notify"})

\* No interleaving of dispatch, the workers and shutdown or resize loses a job or hands it to
\* two workers: it is in exactly one place until it is done, and then in none.
JobKept == \A j \in 1..dispatched : Places(j) = IF state[j].done THEN 0 ELSE 1

\* A job is done only after its body ran, or its token was cancelled; body and completion run
\* at most once.
DoneOnce ==
    \A j \in 1..dispatched :
        /\ state[j].done => bodies[j] = 1 \/ Cancelled(j)
        /\ bodies[j] <= 1 /\ completed[j] <= 1

\* docs/threading.md on wait(): on the main thread "it drains once more before returning, so
\* the completion has run by then".
WaitSeesCompletion ==
    [][main.pc = "lastDrain" /\ main'.pc = "idle" =>
        /\ state[main.handle].done
        /\ main.handle # Combined => completed[main.handle] = 1]_vars

\* The handle of a parallel_for is done only when every chunk was dispatched and has run.
LatchCounts ==
    state[Combined].done =>
        /\ Cardinality(chunks) = NumChunks
        /\ \A j \in chunks : bodies[j] = 1
        /\ \A w \in Worker : worker[w].job \in chunks => worker[w].pc # "body"

\* When shutdown returns, to resize or to the last drain, every job dispatched before it is
\* done; when the subsystem has shut down, every completion has run.
ShutdownDrains ==
    /\ main.pc \in {"resize", "drainAll", "exited"} => \A j \in 1..dispatched : state[j].done
    /\ main.pc = "exited" => \A j \in (1..dispatched) \ chunks : completed[j] = 1

\* docs/threading.md on Sys_JobSubmit: "The handle is released when the completion runs on the
\* main thread".
HandlesReleased ==
    \A j \in handles : completed[j] = 1 => \E c \in Caller : call[c].job = j

\* docs/threading.md: "wait() blocks until the job is done": it returns then, on the main
\* thread, which polls, and on any other, which sleeps on the condition variable.
WaitReturns ==
    /\ main.pc \in {"wait", "lastDrain"} ~> main.pc \notin {"wait", "lastDrain"}
    /\ \A t \in Thread : thread[t].pc # "idle" ~> thread[t].pc = "idle"

\* job_system.hpp: shutdown is to "stop all workers and wait for existing jobs": it ends.
ShutdownReturns ==
    main.pc \in {"joinResize", "joinExit"} ~> main.pc \notin {"joinResize", "joinExit"}

\* docs/threading.md: cancelled or not, "the completion still runs".
CompletionsRun ==
    \A j \in Job : (j <= dispatched /\ j \notin chunks) ~> completed[j] = 1

\* The jobs as JobLife sees them: a body is over when no worker is in it any more, and a
\* completion is handed over with the last step before done.
InBody(j) == \E w \in Worker : worker[w].pc = "body" /\ worker[w].job = j
Posted(j) == state[j].done \/ \E w \in Worker : worker[w].pc = "done" /\ worker[w].job = j

Life == INSTANCE JobLife WITH
    Group <- Combined,
    submitted <- 1..dispatched,
    cancelled <- {i \in Handle : state[i].cancelled},
    returned <- {i \in Job : bodies[i] > 0 /\ ~InBody(i)},
    posted <- {i \in Job : Posted(i)},
    done <- {i \in Job : state[i].done},
    joined <- state[Combined].done

\* docs/threading.md: whatever dispatch, the workers, cancel and shutdown interleave, every
\* step of the pool is a step in the life of one job, of the parallel_for, or of neither.
ImplementsLife == Life!Spec
-----------------------------------------------------------------------------
(***************************************************************************)
(* The inductive invariant, whoever dispatches.                             *)
(***************************************************************************)

IdlePc == {"none", "loop", "asleep", "exited"}

\* Where a job can be: in a call that has not queued it yet, in a queue, with a worker.
Queuing(c) == call[c].step \in {"init", "push"}
InQueue(p, j) == j \in Range(pool.queues[p])
Busy(w) == worker[w].pc \notin IdlePc
Holds(w) == Busy(w) /\ worker[w].pc # "notify"

WorkerInv ==
    \A w \in Worker :
        /\ ~Busy(w) => worker[w].job = Combined
        /\ Busy(w) => worker[w].job \in 1..dispatched
        /\ worker[w].pc \in {"latch", "latchNotify"} => worker[w].job \in chunks
        /\ worker[w].pc = "notify" => state[worker[w].job].done

CallInv ==
    \A c \in Caller :
        /\ call[c].step = "none" => call[c].job = Combined
        /\ call[c].step # "none" => call[c].job \in 1..dispatched
        /\ call[c].step = "register" => call[c].job \notin chunks

\* A job is in one place at most, and in none when it is done.
QueueInv ==
    \A p \in 0..2 :
        /\ IsInjective(pool.queues[p])
        /\ \A j \in Job : InQueue(p, j) =>
            /\ j <= dispatched /\ ~state[j].done
            /\ \A q \in 0..2 : InQueue(q, j) => p = q

QueuingInv ==
    \A c \in Caller : Queuing(c) =>
        /\ ~state[call[c].job].done
        /\ \A p \in 0..2 : ~InQueue(p, call[c].job)
        /\ \A d \in Caller : Queuing(d) /\ call[d].job = call[c].job => c = d

HoldsInv ==
    \A w \in Worker : Holds(w) =>
        /\ ~state[worker[w].job].done
        /\ \A p \in 0..2 : ~InQueue(p, worker[w].job)
        /\ \A c \in Caller : Queuing(c) => call[c].job # worker[w].job
        /\ \A v \in Worker : Holds(v) /\ worker[v].job = worker[w].job => v = w

\* A body runs between taking the job and being done with it, unless it is cancelled.
Ran(j) == bodies[j] = 1 \/ Cancelled(j)

BodyInv ==
    /\ \A j \in Job :
        /\ bodies[j] \in {0, 1}
        /\ j > dispatched => bodies[j] = 0 /\ ~state[j].done
        /\ \A p \in 0..2 : InQueue(p, j) => bodies[j] = 0
        /\ state[j].done => Ran(j)
    /\ \A c \in Caller : Queuing(c) => bodies[call[c].job] = 0
    /\ \A w \in Worker :
        /\ worker[w].pc = "taken" => bodies[worker[w].job] = 0
        /\ worker[w].pc \in {"body", "latch", "latchNotify"} => bodies[worker[w].job] = 1
        /\ worker[w].pc \in {"post", "done"} => Ran(worker[w].job)

\* A completion is posted once, with the last step before done, and then waits or has run.
CompletionInv ==
    /\ IsInjective(tasks)
    /\ \A j \in Job :
        /\ completed[j] \in {0, 1}
        /\ j \in Range(tasks) => completed[j] = 0
        /\ (j \in Range(tasks) \/ completed[j] = 1) <=> (Posted(j) /\ j \notin chunks)

\* The chunks whose body has come to its end, by returning or by an exception.
Counted == {j \in chunks : bodies[j] = 1 /\ ~InBody(j)}

LatchInv ==
    /\ Cardinality(chunks) + main.chunksLeft = NumChunks
    /\ main.pc = "chunks" => main.chunksLeft > 0
    /\ NumChunks <= remaining + Cardinality(Counted)
    /\ state[Combined].done => remaining = 0
    /\ \A w \in Worker : worker[w].pc \in {"latch", "latchNotify"} => remaining = 0

WaitInv ==
    main.pc \in {"wait", "lastDrain"} =>
        /\ main.handle # Combined => main.handle <= dispatched /\ main.handle \notin chunks
        /\ main.pc = "lastDrain" => state[main.handle].done

IInv ==
    /\ TypeOK /\ WorkerInv /\ CallInv /\ QueueInv /\ QueuingInv /\ HoldsInv
    /\ BodyInv /\ CompletionInv /\ LatchInv /\ WaitInv

(***************************************************************************)
(* What is true besides when only the main thread dispatches, as it does in *)
(* this repository: the pool is then started and stopped by that thread     *)
(* alone, and no job is dropped when it stops.                              *)
(***************************************************************************)

Joining == main.pc \in {"joinResize", "joinExit"}
Stopped == main.pc \in {"resize", "drainAll", "exited"}
Started == {w \in Worker : worker[w].pc # "none"}

PoolInv ==
    /\ \A c \in Caller : c # Main => call[c].step = "none"
    /\ call[Main].step # "none" => ~Joining /\ ~Stopped
    /\ call[Main].step = "push" => pool.initialized
    /\ pool.initialized =>
        /\ ~pool.stopping /\ ~Joining /\ ~Stopped
        /\ Started = pool.workers /\ Started # {}
        /\ \A w \in Worker : worker[w].pc # "exited"
    /\ ~pool.initialized => pool.workers = {}
    /\ ~pool.initialized /\ ~Joining => Started = {} /\ QueuesEmpty
    /\ Joining =>
        /\ pool.stopping
        /\ Started = main.joining /\ Started # {}
        /\ (\E w \in Worker : worker[w].pc = "exited") => QueuesEmpty
    /\ main.pc = "exited" => tasks = << >>

\* Every job that is not done is somewhere.
Somewhere(j) ==
    \/ \E c \in Caller : Queuing(c) /\ call[c].job = j
    \/ \E p \in 0..2 : InQueue(p, j)
    \/ \E w \in Worker : Holds(w) /\ worker[w].job = j

KeptInv == \A j \in 1..dispatched : state[j].done \/ Somewhere(j)

HandleInv ==
    /\ \A j \in handles : completed[j] = 0
    /\ call[Main].step # "none" => completed[call[Main].job] = 0

MainOnlyInv == IInv /\ PoolInv /\ KeptInv /\ HandleInv
=============================================================================
