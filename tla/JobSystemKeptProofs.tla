------------------------- MODULE JobSystemKeptProofs -------------------------
(***************************************************************************)
(* Proofs about JobSystem when only the main thread dispatches, as it does  *)
(* in this repository: no job is lost, and shutdown leaves nothing behind.  *)
(***************************************************************************)
EXTENDS JobSystemProofs

USE PoolAssumption

OnlyMain == Dispatchers = {Main}
-----------------------------------------------------------------------------
(* The life of the pool.                                                   *)

\* A step of the workers that starts none and stops none.
KeepsStarted ==
    \A w \in Worker : /\ worker'[w].pc = "none" <=> worker[w].pc = "none"
                      /\ worker'[w].pc = "exited" <=> worker[w].pc = "exited"

LEMMA StartedSame ==
    ASSUME KeepsStarted
    PROVE  /\ Started' = Started
           /\ (\E w \in Worker : worker[w].pc = "exited")' <=> \E w \in Worker : worker[w].pc = "exited"
BY DEF KeepsStarted, Started

LEMMA OnePcKeepsStarted ==
    ASSUME worker \in [Worker -> WorkerState], NEW w \in Worker, NEW x \in Pc,
           x \notin {"none", "exited"}, worker[w].pc \notin {"none", "exited"},
           worker' = [worker EXCEPT ![w].pc = x]
    PROVE  KeepsStarted
BY OneWorker DEF KeepsStarted

LEMMA NotifyOneKeepsStarted ==
    ASSUME worker \in [Worker -> WorkerState], NotifyOne(worker)
    PROVE  KeepsStarted
<1>1. CASE worker' = worker
    BY <1>1 DEF KeepsStarted
<1>2. CASE \E w \in Asleep(worker) : worker' = [worker EXCEPT ![w].pc = "loop"]
    BY <1>2, OnePcKeepsStarted DEF Asleep, Pc
<1>3. QED
    BY <1>1, <1>2 DEF NotifyOne

LEMMA NotifyAllKeepsStarted ==
    ASSUME worker \in [Worker -> WorkerState], worker' = NotifyAll(worker)
    PROVE  KeepsStarted
BY DEF NotifyAll, KeepsStarted, WorkerState

\* What the main thread does while the pool neither starts nor stops.
MainGoesOn ==
    \/ UNCHANGED main
    \/ /\ main.pc \in {"idle", "chunks", "wait", "lastDrain"}
       /\ main'.pc \in {"idle", "chunks", "wait", "lastDrain"}
       /\ main'.joining = main.joining

LEMMA PoolGoesOn ==
    ASSUME PoolInv, KeepsStarted, MainGoesOn,
           pool'.initialized = pool.initialized, pool'.stopping = pool.stopping,
           pool'.workers = pool.workers,
           QueuesEmpty => QueuesEmpty',
           \A c \in Caller : c # Main => call'[c].step = "none",
           call'[Main].step # "none" => ~Joining /\ ~Stopped,
           call'[Main].step = "push" => pool.initialized,
           main.pc = "exited" => tasks' = << >>
    PROVE  PoolInv'
<1>1. /\ Joining' <=> Joining
      /\ Stopped' <=> Stopped
      /\ main'.pc = "exited" <=> main.pc = "exited"
      /\ Joining => main'.joining = main.joining
    BY DEF MainGoesOn, Joining, Stopped
<1>2. /\ Started' = Started
      /\ \A w \in Worker : worker'[w].pc = "exited" <=> worker[w].pc = "exited"
    BY StartedSame DEF KeepsStarted
<1>3. QED
    BY <1>1, <1>2 DEF PoolInv

\* The pool starts: a set of workers that were not running.
LEMMA PoolStarted ==
    ASSUME TypeOK, PoolInv, InitPool, ~Joining
    PROVE  /\ Started' = pool'.workers /\ Started' # {}
           /\ pool'.initialized /\ ~pool'.stopping
           /\ \A w \in Worker : worker'[w].pc # "exited"
<1>1. CASE pool.initialized
    <2>1. pool' = pool /\ worker' = worker
        BY <1>1 DEF InitPool
    <2>2. QED
        BY <1>1, <2>1 DEF PoolInv, Started
<1>2. CASE ~pool.initialized
    <2>1. PICK fresh \in kSubset(PoolSize, {w \in Worker : worker[w].pc = "none"}) :
            /\ pool' = [pool EXCEPT !.stopping = FALSE, !.initialized = TRUE, !.workers = @ \cup fresh]
            /\ worker' = [w \in Worker |-> IF w \in fresh THEN [worker[w] EXCEPT !.pc = "loop"]
                                           ELSE worker[w]]
        BY <1>2 DEF InitPool
    <2>2. fresh \subseteq Worker /\ Cardinality(fresh) = PoolSize
        BY DEF kSubset
    <2>3. fresh # {}
        BY <2>2, FS_EmptySet DEF PoolAssumption
    <2>4. pool.workers = {} /\ Started = {}
        BY <1>2 DEF PoolInv
    <2>5. ~pool'.stopping /\ pool'.initialized /\ pool'.workers = fresh
        BY <2>1, <2>4 DEF TypeOK
    <2>6. \A w \in Worker : worker'[w].pc = IF w \in fresh THEN "loop" ELSE "none"
        <3>1. \A w \in Worker : worker[w].pc = "none" /\ worker[w] \in WorkerState
            BY <2>4, TypeFacts DEF Started
        <3>2. QED
            BY <2>1, <3>1 DEF WorkerState
    <2>7. Started' = fresh
        BY <2>2, <2>6 DEF Started
    <2>8. QED
        BY <2>3, <2>5, <2>6, <2>7
<1>3. QED
    BY <1>1, <1>2

LEMMA PushKeepsPool ==
    ASSUME TypeOK, NEW j, NEW p \in 0..2, PushItem(j, p)
    PROVE  /\ KeepsStarted
           /\ pool'.initialized = pool.initialized /\ pool'.stopping = pool.stopping
           /\ pool'.workers = pool.workers
<1>1. KeepsStarted
    BY TypeFacts, NotifyOneKeepsStarted DEF PushItem
<1>2. QED
    BY <1>1 DEF PushItem, TypeOK

\* A call: it begins and goes on only while the pool is not being stopped.
LEMMA CallPoolStep ==
    ASSUME OnlyMain, TypeOK, CallInv, PoolInv, NEW c \in Caller, Dispatch(c) \/ CallStep(c)
    PROVE  PoolInv'
<1>0. call \in [Caller -> [step : {"none", "init", "push", "register"}, job : Handle,
                           priority : 0..2]]
    BY DEF TypeOK
<1>1. c = Main
    BY DEF OnlyMain, PoolInv, Dispatch, CallStep, DispatchInit, DispatchPush, Register
<1>2. UNCHANGED << main, tasks >>
    BY DEF Dispatch, CallStep, DispatchInit, DispatchPush, Register
<1>3. \A d \in Caller : d # Main => call'[d] = call[d] /\ call'[d].step = "none"
    <2>1. \A d \in Caller : d # Main => call'[d] = call[d]
        BY <1>0, <1>1
           DEF Dispatch, Enter, CallStep, DispatchInit, DispatchPush, Register, NoCall
    <2>2. QED
        BY <2>1 DEF PoolInv
<1>4. CASE Dispatch(c)
    <2>1. /\ call[Main].step = "none" /\ main.pc = "idle"
          /\ \E p \in 0..2 :
               \/ /\ pool.initialized /\ PushItem(dispatched + 1, p)
                  /\ call' = [call EXCEPT ![Main] = [step |-> "register", job |-> dispatched + 1,
                                                     priority |-> p]]
               \/ /\ call' = [call EXCEPT ![Main] = [step |-> "init", job |-> dispatched + 1,
                                                     priority |-> p]]
                  /\ UNCHANGED << pool, worker >>
        BY <1>1, <1>4 DEF Dispatch, Enter, Free, PoolAssumption
    <2>2. ~Joining /\ ~Stopped /\ MainGoesOn
        BY <1>2, <2>1 DEF Joining, Stopped, MainGoesOn
    <2>3. CASE /\ pool.initialized /\ \E p \in 0..2 : PushItem(dispatched + 1, p)
               /\ call'[Main].step = "register"
        <3>1. /\ KeepsStarted
              /\ pool'.initialized = pool.initialized /\ pool'.stopping = pool.stopping
              /\ pool'.workers = pool.workers
            BY <2>3, PushKeepsPool
        <3>2. ~pool'.initialized => pool'.workers = {}
            BY <2>3, <3>1
        <3>3. /\ Joining' <=> Joining
              /\ Stopped' <=> Stopped
              /\ Started' = Started
              /\ \A w \in Worker : worker'[w].pc = "exited" <=> worker[w].pc = "exited"
            BY <1>2, <3>1, StartedSame DEF Joining, Stopped, KeepsStarted
        <3>4. QED
            BY <1>2, <1>3, <2>1, <2>2, <2>3, <3>1, <3>3 DEF PoolInv
    <2>4. CASE call'[Main].step = "init" /\ UNCHANGED << pool, worker >>
        <3>1. KeepsStarted /\ (QueuesEmpty => QueuesEmpty')
            BY <2>4 DEF KeepsStarted, QueuesEmpty
        <3>2. QED
            BY <1>2, <1>3, <2>1, <2>2, <2>4, <3>1, PoolGoesOn
    <2>5. QED
        BY <1>0, <2>1, <2>3, <2>4 DEF Caller
<1>5. CASE DispatchInit(c)
    <2>1. call[Main].step = "init" /\ InitPool
        BY <1>1, <1>5 DEF DispatchInit
    <2>2. ~Joining /\ ~Stopped
        BY <2>1 DEF PoolInv
    <2>3. call'[Main].step = "push"
        BY <1>0, <1>1, <1>5 DEF DispatchInit, Caller
    <2>4. pool'.initialized
        BY <2>1 DEF InitPool, TypeOK
    <2>5. /\ Joining' <=> Joining
          /\ Stopped' <=> Stopped
        BY <1>2 DEF Joining, Stopped
    <2>6. Started' = pool'.workers /\ Started' # {} /\ ~pool'.stopping
          /\ \A w \in Worker : worker'[w].pc # "exited"
        BY <2>1, <2>2, <2>4, PoolStarted
    <2>7. QED
        BY <1>2, <1>3, <2>2, <2>3, <2>4, <2>5, <2>6 DEF PoolInv
<1>6. CASE DispatchPush(c)
    <2>1. /\ call[Main].step = "push" /\ pool.initialized /\ ~Joining /\ ~Stopped
          /\ PushItem(call[Main].job, call[Main].priority)
        BY <1>1, <1>6 DEF DispatchPush, PoolInv
    <2>2. call'[Main].step # "push"
        BY <1>0, <1>1, <1>6 DEF DispatchPush, Caller, NoCall
    <2>3. /\ KeepsStarted
          /\ pool'.initialized = pool.initialized /\ pool'.stopping = pool.stopping
          /\ pool'.workers = pool.workers
        BY <2>1, TypeFacts, PushKeepsPool DEF Caller
    <2>4. /\ Joining' <=> Joining
          /\ Stopped' <=> Stopped
          /\ Started' = Started
          /\ \A w \in Worker : worker'[w].pc = "exited" <=> worker[w].pc = "exited"
        BY <1>2, <2>3, StartedSame DEF Joining, Stopped, KeepsStarted
    <2>5. QED
        BY <1>2, <1>3, <2>1, <2>2, <2>3, <2>4 DEF PoolInv
<1>7. CASE Register(c)
    <2>1. call'[Main].step = "none" /\ UNCHANGED << pool, worker >>
        BY <1>0, <1>1, <1>7 DEF Register, Caller, NoCall
    <2>2. KeepsStarted /\ (QueuesEmpty => QueuesEmpty') /\ MainGoesOn
        BY <1>2, <2>1 DEF KeepsStarted, QueuesEmpty, MainGoesOn
    <2>3. main.pc = "exited" => tasks' = << >>
        BY <1>2 DEF PoolInv
    <2>4. QED
        BY <1>2, <1>3, <2>1, <2>2, <2>3, PoolGoesOn
<1>8. QED
    BY <1>4, <1>5, <1>6, <1>7 DEF CallStep

\* A running worker belongs to a pool that runs or is being stopped.
LEMMA WorkerRuns ==
    ASSUME PoolInv, NEW w \in Worker, worker[w].pc # "none"
    PROVE  (pool.initialized \/ Joining) /\ main.pc # "exited"
BY DEF PoolInv, Started, Stopped, Joining

LEMMA WorkerPoolStep ==
    ASSUME TypeOK, PoolInv, NEW w \in Worker, WorkerStep(w)
    PROVE  PoolInv'
<1>0. worker \in [Worker -> WorkerState] /\ Combined \in Handle
    BY TypeFacts
<1>1. UNCHANGED << main, call >> /\ worker[w].pc # "none"
    BY DEF WorkerStep, WorkerExit, WorkerTake, WorkerSleep, WorkerStart, BodyReturns, BodyThrows,
           PostCompletion, StoreDone, NotifyWaiters
<1>2. (pool.initialized \/ Joining) /\ main.pc # "exited"
    BY <1>1, WorkerRuns
<1>3. MainGoesOn
    BY <1>1 DEF MainGoesOn
<1>4. /\ \A c \in Caller : c # Main => call'[c].step = "none"
      /\ call'[Main].step # "none" => ~Joining /\ ~Stopped
      /\ call'[Main].step = "push" => pool.initialized
    BY <1>1 DEF PoolInv
<1>5. ASSUME KeepsStarted, pool'.initialized = pool.initialized, pool'.stopping = pool.stopping,
             pool'.workers = pool.workers, QueuesEmpty => QueuesEmpty'
      PROVE  PoolInv'
    BY <1>2, <1>3, <1>4, <1>5, PoolGoesOn
<1>6. CASE WorkerExit(w)
    <2>1. /\ pool.stopping /\ QueuesEmpty /\ pool' = pool
          /\ worker[w].pc = "loop" /\ worker' = [worker EXCEPT ![w].pc = "exited"]
        BY <1>6 DEF WorkerExit
    <2>2. ~pool.initialized /\ Joining
        BY <2>1, <1>2 DEF PoolInv
    <2>3. \A v \in Worker : worker'[v].pc = "none" <=> worker[v].pc = "none"
        BY <1>0, <2>1, OneWorker DEF Pc
    <2>4. Started' = Started
        BY <2>3 DEF Started
    <2>5. QueuesEmpty'
        BY <2>1 DEF QueuesEmpty
    <2>6. /\ Joining' <=> Joining
          /\ Stopped' <=> Stopped
        BY <1>1 DEF Joining, Stopped
    <2>7. QED
        BY <1>1, <1>2, <1>4, <2>1, <2>2, <2>4, <2>5, <2>6 DEF PoolInv
<1>7. CASE WorkerTake(w)
    <2>1. PICK p \in 0..2 : \E j :
            /\ pool.queues[p] # << >> /\ worker[w].pc = "loop"
            /\ worker' = [worker EXCEPT ![w] = [pc |-> "taken", job |-> j]]
            /\ pool' = [pool EXCEPT !.queues[p] = Tail(@)]
        BY <1>7 DEF WorkerTake
    <2>2. ~QueuesEmpty
        BY <2>1 DEF QueuesEmpty
    <2>3. KeepsStarted
        BY <1>0, <2>1 DEF KeepsStarted
    <2>4. /\ pool'.initialized = pool.initialized /\ pool'.stopping = pool.stopping
          /\ pool'.workers = pool.workers
        BY <2>1 DEF TypeOK
    <2>5. QED
        BY <1>5, <2>2, <2>3, <2>4
<1>8. CASE /\ pool' = pool
           /\ \/ \E x \in Pc : /\ x \notin {"none", "exited"} /\ worker[w].pc \notin {"none", "exited"}
                               /\ worker' = [worker EXCEPT ![w].pc = x]
              \/ /\ worker[w].pc = "notify"
                 /\ worker' = [worker EXCEPT ![w] = [pc |-> "loop", job |-> Combined]]
    <2>1. CASE \E x \in Pc : /\ x \notin {"none", "exited"} /\ worker[w].pc \notin {"none", "exited"}
                             /\ worker' = [worker EXCEPT ![w].pc = x]
        BY <1>0, <1>5, <1>8, <2>1, OnePcKeepsStarted DEF QueuesEmpty
    <2>2. CASE /\ worker[w].pc = "notify"
               /\ worker' = [worker EXCEPT ![w] = [pc |-> "loop", job |-> Combined]]
        <3>1. KeepsStarted
            BY <1>0, <2>2 DEF KeepsStarted
        <3>2. QED
            BY <1>5, <1>8, <3>1 DEF QueuesEmpty
    <2>3. QED
        BY <1>8, <2>1, <2>2
<1>9. QED
    BY <1>6, <1>7, <1>8
       DEF WorkerStep, WorkerSleep, WorkerStart, BodyReturns, BodyThrows,
           PostCompletion, StoreDone, NotifyWaiters, Pc

LEMMA OtherPoolStep ==
    ASSUME TypeOK, PoolInv,
           \/ \E c \in {Main} \cup Thread, h \in Handle : Cancel(c, h)
           \/ \E t \in Thread : ThreadStep(t) \/ \E h \in Handle : ThreadWait(t, h)
           \/ UNCHANGED vars
    PROVE  PoolInv'
<1>1. UNCHANGED << pool, worker, main, call, tasks >>
    BY DEF Cancel, ThreadStep, ThreadCheck, ThreadSleep, ThreadWait, vars
<1>2. KeepsStarted /\ MainGoesOn /\ (QueuesEmpty => QueuesEmpty')
    BY <1>1 DEF KeepsStarted, MainGoesOn, QueuesEmpty
<1>3. QED
    BY <1>1, <1>2, PoolGoesOn DEF PoolInv

LEMMA MainPoolStep ==
    ASSUME OnlyMain, TypeOK, CallInv, PoolInv,
           \/ ParallelFor \/ SubsystemInit \/ Shutdown \/ \E h \in Handle : MainWait(h)
           \/ MainStep
    PROVE  PoolInv'
<1>0. /\ main \in MainState /\ worker \in [Worker -> WorkerState]
      /\ call \in [Caller -> [step : {"none", "init", "push", "register"}, job : Handle,
                              priority : 0..2]]
    BY TypeFacts DEF TypeOK, MainState
<1>1. CASE ParallelFor \/ (\E h \in Handle : MainWait(h)) \/ MainSeesDone \/ MainWaitReturns
    <2>1. UNCHANGED << pool, worker, call, tasks >>
        BY <1>1 DEF ParallelFor, MainWait, MainSeesDone, MainWaitReturns
    <2>2. KeepsStarted /\ (QueuesEmpty => QueuesEmpty')
        BY <2>1 DEF KeepsStarted, QueuesEmpty
    <2>3. MainGoesOn
        BY <1>0, <1>1 DEF ParallelFor, MainWait, MainSeesDone, MainWaitReturns, Free, MainGoesOn,
                          MainState
    <2>4. QED
        BY <2>1, <2>2, <2>3, PoolGoesOn DEF PoolInv
<1>2. CASE DispatchChunk
    <2>1. /\ main.pc = "chunks" /\ call[Main].step = "none"
          /\ Enter(Main, dispatched + 1, 1, NoCall) /\ tasks' = tasks
          /\ main' = [main EXCEPT !.chunksLeft = @ - 1,
                                  !.pc = IF main.chunksLeft = 1 THEN "idle" ELSE @]
        BY <1>2 DEF DispatchChunk
    <2>2. /\ main'.joining = main.joining
          /\ main'.pc = IF main.chunksLeft = 1 THEN "idle" ELSE main.pc
        BY <1>0, <2>1 DEF MainState
    <2>3. MainGoesOn /\ ~Joining /\ ~Stopped /\ ~Joining' /\ ~Stopped' /\ main'.pc # "exited"
        BY <2>1, <2>2 DEF MainGoesOn, Joining, Stopped
    <2>4. CASE /\ pool.initialized /\ PushItem(dispatched + 1, 1)
               /\ call' = [call EXCEPT ![Main] = NoCall]
        <3>1. /\ KeepsStarted
              /\ pool'.initialized = pool.initialized /\ pool'.stopping = pool.stopping
              /\ pool'.workers = pool.workers
            BY <2>4, PushKeepsPool
        <3>2. \A c \in Caller : call'[c].step = "none"
            BY <1>0, <2>4 DEF NoCall, PoolInv
        <3>3. Main \in Caller
            BY DEF Caller
        <3>4. /\ Started' = Started
              /\ \A w \in Worker : worker'[w].pc = "exited" <=> worker[w].pc = "exited"
            BY <3>1, StartedSame DEF KeepsStarted
        <3>5. QED
            BY <2>3, <2>4, <3>1, <3>2, <3>3, <3>4 DEF PoolInv
    <2>5. CASE /\ call' = [call EXCEPT ![Main] = [step |-> "init", job |-> dispatched + 1,
                                                  priority |-> 1]]
               /\ UNCHANGED << pool, worker >>
        <3>1. KeepsStarted /\ (QueuesEmpty => QueuesEmpty')
            BY <2>5 DEF KeepsStarted, QueuesEmpty
        <3>2. call'[Main].step = "init" /\ \A c \in Caller : c # Main => call'[c] = call[c]
            BY <1>0, <2>5 DEF Caller
        <3>3. \A c \in Caller : c # Main => call'[c].step = "none"
            BY <3>2 DEF PoolInv
        <3>4. QED
            BY <2>1, <2>3, <2>5, <3>1, <3>2, <3>3, PoolGoesOn
    <2>6. QED
        BY <2>1, <2>4, <2>5 DEF Enter
<1>3. CASE RunTask
    <2>1. UNCHANGED << pool, worker, call, main >> /\ main.pc # "exited"
        BY <1>3 DEF RunTask
    <2>2. KeepsStarted /\ MainGoesOn /\ (QueuesEmpty => QueuesEmpty')
        BY <2>1 DEF KeepsStarted, MainGoesOn, QueuesEmpty
    <2>3. QED
        BY <2>1, <2>2, PoolGoesOn DEF PoolInv
<1>4. CASE SubsystemInit \/ ResizeInit
    <2>1. /\ InitPool /\ call' = call /\ main'.pc = "idle" /\ ~Joining
          /\ main.pc \in {"idle", "resize"}
        BY <1>0, <1>4 DEF SubsystemInit, ResizeInit, Free, Joining, MainState
    <2>2. /\ Started' = pool'.workers /\ Started' # {}
          /\ pool'.initialized /\ ~pool'.stopping
          /\ \A w \in Worker : worker'[w].pc # "exited"
        BY <2>1, PoolStarted
    <2>3. ~Joining' /\ ~Stopped' /\ main'.pc # "exited"
        BY <2>1 DEF Joining, Stopped
    <2>4. QED
        BY <2>1, <2>2, <2>3 DEF PoolInv
<1>5. CASE Shutdown
    <2>1. /\ pool.initialized /\ call[Main].step = "none" /\ call' = call
          /\ pool' = [pool EXCEPT !.stopping = TRUE, !.initialized = FALSE, !.workers = {}]
          /\ worker' = NotifyAll(worker)
        BY <1>5 DEF Shutdown, Free
    <2>2. main'.pc \in {"joinResize", "joinExit"} /\ main'.joining = pool.workers
        <3>1. \/ main' = [main EXCEPT !.pc = "joinResize", !.joining = pool.workers,
                                      !.resizes = @ + 1]
              \/ main' = [main EXCEPT !.pc = "joinExit", !.joining = pool.workers]
            BY <1>5 DEF Shutdown
        <3>2. QED
            BY <1>0, <3>1 DEF MainState
    <2>3. KeepsStarted
        BY <1>0, <2>1, NotifyAllKeepsStarted
    <2>4. pool'.stopping /\ ~pool'.initialized /\ pool'.workers = {}
        BY <2>1 DEF TypeOK
    <2>5. /\ Started' = Started /\ Started = pool.workers /\ Started # {}
          /\ \A w \in Worker : worker'[w].pc # "exited"
        BY <2>1, <2>3, StartedSame DEF PoolInv, KeepsStarted
    <2>6. Joining' /\ ~Stopped' /\ main'.pc # "exited"
        BY <2>2 DEF Joining, Stopped
    <2>7. QED
        BY <2>1, <2>2, <2>4, <2>5, <2>6 DEF PoolInv
<1>6. CASE Joined
    <2>1. /\ Joining /\ call' = call
          /\ pool' = [pool EXCEPT !.queues = [p \in 0..2 |-> << >>]]
          /\ main'.pc \in {"resize", "drainAll"}
        BY <1>0, <1>6 DEF Joined, Joining, MainState
    <2>2. Started' = {}
        <3>1. Started = main.joining
            BY <2>1 DEF PoolInv
        <3>2. \A w \in Worker : /\ worker[w] \in WorkerState
                                /\ w \in Started => worker'[w] = [worker[w] EXCEPT !.pc = "none"]
                                /\ w \notin Started => worker'[w] = worker[w]
            BY <1>0, <1>6, <3>1 DEF Joined
        <3>3. \A w \in Worker : w \in Started => worker'[w].pc = "none"
            BY <3>2 DEF WorkerState
        <3>4. \A w \in Worker : w \notin Started => worker'[w].pc = "none"
            BY <3>2 DEF Started
        <3>5. QED
            BY <3>3, <3>4 DEF Started
    <2>3. /\ QueuesEmpty' /\ pool'.initialized = pool.initialized
          /\ pool'.workers = pool.workers
        BY <2>1 DEF QueuesEmpty, TypeOK
    <2>4. ~Joining' /\ Stopped' /\ main'.pc # "exited"
        BY <2>1 DEF Joining, Stopped
    <2>5. ~pool.initialized /\ pool.workers = {} /\ call[Main].step = "none"
        BY <2>1 DEF PoolInv
    <2>6. QED
        BY <2>1, <2>2, <2>3, <2>4, <2>5 DEF PoolInv
<1>7. CASE Exit
    <2>1. /\ UNCHANGED << pool, worker, call, tasks >> /\ tasks = << >>
          /\ main.pc = "drainAll" /\ main'.pc = "exited"
        BY <1>0, <1>7 DEF Exit, MainState
    <2>2. Stopped /\ ~Joining /\ Stopped' /\ ~Joining'
        BY <2>1 DEF Stopped, Joining
    <2>3. QED
        BY <2>1, <2>2 DEF PoolInv, Started, QueuesEmpty
<1>8. QED
    BY <1>1, <1>2, <1>3, <1>4, <1>5, <1>6, <1>7 DEF MainStep

LEMMA PoolInvStep ==
    ASSUME OnlyMain, TypeOK, CallInv, PoolInv, [Next]_vars
    PROVE  PoolInv'
BY CallPoolStep, WorkerPoolStep, OtherPoolStep, MainPoolStep DEF Next
-----------------------------------------------------------------------------
(* No job is lost.                                                         *)

LEMMA JoinedDropsNothing ==
    ASSUME PoolInv, Joined
    PROVE  QueuesEmpty
<1>1. Joining
    BY DEF Joined, Joining
<1>2. PICK w \in main.joining : w \in Worker
    BY <1>1 DEF PoolInv, Started
<1>3. worker[w].pc = "exited"
    BY <1>2 DEF Joined
<1>4. QED
    BY <1>1, <1>2, <1>3 DEF PoolInv

\* So a calm step leaves every job in its queue.
LEMMA CalmQueuesKept ==
    ASSUME TypeOK, CallInv, PoolInv, Calm, [Next]_vars, NEW p \in 0..2, NEW j
    PROVE  InQueue(p, j) => InQueue(p, j)'
<1>1. CASE pool'.queues[p] = pool.queues[p]
    BY <1>1 DEF InQueue
<1>2. CASE Joined
    BY <1>2, JoinedDropsNothing, RangeEmpty DEF QueuesEmpty, InQueue
<1>3. CASE InitPool \/ Shutdown
    BY <1>1, <1>3 DEF InitPool, Shutdown, TypeOK
<1>4. CASE \E w \in Worker : WorkerTake(w)
    <2>1. PICK w \in Worker : \E i :
            worker[w].pc = "loop" /\ worker' = [worker EXCEPT ![w] = [pc |-> "taken", job |-> i]]
        BY <1>4 DEF WorkerTake
    <2>2. worker'[w].pc = "taken"
        BY <2>1 DEF TypeOK
    <2>3. QED
        BY <2>1, <2>2 DEF Calm, IdleMoves, IdlePc
<1>5. CASE (\E c \in Caller : Dispatch(c)) \/ DispatchChunk
    BY <1>5, TypeFacts DEF Calm, Dispatch, DispatchChunk
<1>6. CASE \E c \in Caller : DispatchPush(c)
    <2>1. PICK c \in Caller : DispatchPush(c)
        BY <1>6
    <2>2. Queuing(c) /\ ~Queuing(c)'
        BY <2>1 DEF DispatchPush, Queuing, NoCall, TypeOK
    <2>3. QED
        BY <2>2 DEF Calm
<1>7. QED
    BY <1>1, <1>2, <1>3, <1>4, <1>5, <1>6
       DEF Next, vars, CallStep, WorkerStep, ThreadStep, MainStep, Cancel, StoreDone,
           WorkerExit, WorkerSleep, WorkerStart, BodyReturns,
           BodyThrows, PostCompletion, NotifyWaiters, ThreadCheck, ThreadSleep, ThreadWait,
           SubsystemInit, RunTask, DispatchInit, Register, ParallelFor,
           MainWait, MainSeesDone, MainWaitReturns, ResizeInit, Exit

\* A job stays where it is while its worker goes on, or leaves it done.
LEMMA WorkerKeeps ==
    ASSUME TypeOK, NEW w \in Worker,
           UNCHANGED << pool, call >>,
           \A v \in Worker : v # w => worker'[v] = worker[v],
           \A h \in Handle : state[h].done => state'[h].done,
           Holds(w) => \/ Holds(w)' /\ worker'[w].job = worker[w].job
                       \/ state'[worker[w].job].done,
           NEW j \in Job, state[j].done \/ Somewhere(j)
    PROVE  state'[j].done \/ Somewhere(j)'
<1>1. CASE state[j].done
    BY <1>1, TypeFacts
<1>2. CASE (\E c \in Caller : Queuing(c) /\ call[c].job = j) \/ (\E p \in 0..2 : InQueue(p, j))
    BY <1>2 DEF Somewhere, Queuing, InQueue
<1>3. CASE \E v \in Worker : Holds(v) /\ worker[v].job = j
    <2>1. PICK v \in Worker : Holds(v) /\ worker[v].job = j
        BY <1>3
    <2>2. CASE v # w
        <3>1. Holds(v)' /\ worker'[v].job = j
            BY <2>1, <2>2 DEF Holds, Busy
        <3>2. QED
            BY <3>1 DEF Somewhere
    <2>3. CASE v = w
        BY <2>1, <2>3 DEF Somewhere
    <2>4. QED
        BY <2>2, <2>3
<1>4. QED
    BY <1>1, <1>2, <1>3 DEF Somewhere

\* A new job is in a queue or in its call.
LEMMA DispatchKeeps ==
    ASSUME TypeOK, CallInv, JobsInv, KeptInv, NEW c \in Caller, NEW n, Dispatches(c, n)
    PROVE  KeptInv'
<1>0. dispatched \in Nat /\ \A j \in 1..dispatched : j \in Job
    BY TypeFacts
<1>1. /\ n = dispatched + 1 /\ dispatched' = n /\ n \in Job /\ ~Queuing(c) /\ state' = state
      /\ \A d \in Caller : d # c => call'[d] = call[d]
    BY DEF Dispatches
<1>2. /\ \A i \in 1..dispatched' : i \in 1..dispatched \/ i = n
      /\ \A p \in 0..2 : ~InQueue(p, n)
    BY <1>0, <1>1 DEF JobsInv, QueueInv
<1>3. \A d \in Caller : Queuing(d) => Queuing(d)' /\ call'[d].job = call[d].job
    BY <1>1 DEF Queuing
<1>4. CASE \E p \in 0..2 : PushItem(n, p)
    <2>1. PICK p \in 0..2 : PushItem(n, p)
        BY <1>4
    <2>2. /\ IdleMoves
          /\ \A q \in 0..2 : \A i : InQueue(q, i)' <=> InQueue(q, i) \/ (q = p /\ i = n)
        BY <1>1, <1>2, <2>1, PushQueue DEF JobsInv
    <2>3. Somewhere(n)'
        BY <2>2 DEF Somewhere
    <2>4. \A j \in 1..dispatched : Somewhere(j) => Somewhere(j)'
        BY <1>3, <2>2, IdleMovesKeep DEF Somewhere
    <2>5. QED
        BY <1>1, <1>2, <2>3, <2>4 DEF KeptInv
<1>5. CASE /\ worker' = worker /\ pool' = pool
           /\ \A d \in Caller : Queuing(d)' <=> Queuing(d) \/ d = c
           /\ call'[c].job = n
    <2>1. Somewhere(n)'
        BY <1>5 DEF Somewhere
    <2>2. \A j \in 1..dispatched : Somewhere(j) => Somewhere(j)'
        BY <1>3, <1>5 DEF Somewhere, InQueue, Holds, Busy
    <2>3. QED
        BY <1>1, <1>2, <2>1, <2>2 DEF KeptInv
<1>6. QED
    BY <1>4, <1>5 DEF Dispatches, DispatchesTo

LEMMA PushKeeps ==
    ASSUME TypeOK, CallInv, JobsInv, KeptInv, NEW c \in Caller, DispatchPush(c)
    PROVE  KeptInv'
<1>1. call[c].job \in Job /\ call[c].priority \in 0..2 /\ Queuing(c)
    BY TypeFacts DEF CallInv, Queuing, DispatchPush
<1>2. \A p \in 0..2 : ~InQueue(p, call[c].job)
    BY <1>1 DEF JobsInv, QueuingInv
<1>3. PushItem(call[c].job, call[c].priority) /\ UNCHANGED << state, dispatched >>
    BY DEF DispatchPush
<1>4. /\ IdleMoves
      /\ \E p \in 0..2 : \A q \in 0..2 :
            \A i : InQueue(q, i)' <=> InQueue(q, i) \/ (q = p /\ i = call[c].job)
    BY <1>1, <1>2, <1>3, PushQueue DEF JobsInv
<1>5. \A d \in Caller : d # c => call'[d] = call[d]
    BY DEF DispatchPush, TypeOK
<1>6. ASSUME NEW j \in 1..dispatched, Somewhere(j)
      PROVE  Somewhere(j)'
    <2>1. CASE \E d \in Caller : Queuing(d) /\ call[d].job = j
        <3>1. PICK d \in Caller : Queuing(d) /\ call[d].job = j
            BY <2>1
        <3>2. CASE d = c
            BY <1>4, <3>1, <3>2 DEF Somewhere
        <3>3. CASE d # c
            BY <1>5, <3>1, <3>3 DEF Somewhere, Queuing
        <3>4. QED
            BY <3>2, <3>3
    <2>2. CASE \E p \in 0..2 : InQueue(p, j)
        BY <1>4, <2>2 DEF Somewhere
    <2>3. CASE \E w \in Worker : Holds(w) /\ worker[w].job = j
        BY <1>4, <2>3, IdleMovesKeep DEF Somewhere
    <2>4. QED
        BY <1>6, <2>1, <2>2, <2>3 DEF Somewhere
<1>7. QED
    BY <1>3, <1>6 DEF KeptInv

LEMMA TakeKeeps ==
    ASSUME TypeOK, CallInv, JobsInv, KeptInv, NEW w \in Worker, WorkerTake(w)
    PROVE  KeptInv'
<1>1. PICK n \in Job, p \in 0..2 :
         /\ worker' = [worker EXCEPT ![w] = [pc |-> "taken", job |-> n]]
         /\ \A q \in 0..2 : \A i : InQueue(q, i)' <=> InQueue(q, i) /\ ~(q = p /\ i = n)
    BY TakeQueue DEF JobsInv
<1>2. UNCHANGED << state, dispatched, call >> /\ ~Holds(w)
    BY DEF WorkerTake, Holds, Busy, IdlePc
<1>3. /\ Holds(w)' /\ worker'[w].job = n
      /\ \A v \in Worker : v # w => worker'[v] = worker[v]
    BY <1>1 DEF TypeOK, Holds, Busy, IdlePc
<1>4. ASSUME NEW j \in 1..dispatched, Somewhere(j)
      PROVE  Somewhere(j)'
    <2>1. CASE \E d \in Caller : Queuing(d) /\ call[d].job = j
        BY <1>2, <2>1 DEF Somewhere, Queuing
    <2>2. CASE \E q \in 0..2 : InQueue(q, j)
        BY <1>1, <1>3, <2>2 DEF Somewhere
    <2>3. CASE \E v \in Worker : Holds(v) /\ worker[v].job = j
        BY <1>2, <1>3, <2>3 DEF Somewhere, Holds, Busy
    <2>4. QED
        BY <1>4, <2>1, <2>2, <2>3 DEF Somewhere
<1>5. QED
    BY <1>2, <1>4 DEF KeptInv

LEMMA KeptInvStep ==
    ASSUME TypeOK, CallInv, JobsInv, PoolInv, KeptInv, [Next]_vars
    PROVE  KeptInv'
<1>0. /\ \A j \in 1..dispatched : j \in Job /\ j \in Handle
      /\ worker \in [Worker -> WorkerState]
    BY TypeFacts
<1>1. \A h \in Handle : state[h].done => state'[h].done
    BY DoneGrows
<1>2. CASE Calm
    <2> SUFFICES ASSUME NEW j \in 1..dispatched
                 PROVE  state'[j].done \/ Somewhere(j)'
        BY <1>2 DEF Calm, KeptInv
    <2>1. CASE state[j].done
        BY <1>0, <1>1, <2>1
    <2>2. CASE \E c \in Caller : Queuing(c) /\ call[c].job = j
        BY <1>2, <2>2 DEF Calm, Somewhere
    <2>3. CASE \E p \in 0..2 : InQueue(p, j)
        BY <1>2, <2>3, CalmQueuesKept DEF Somewhere
    <2>4. CASE \E w \in Worker : Holds(w) /\ worker[w].job = j
        BY <1>2, <2>4, IdleMovesKeep DEF Calm, Somewhere
    <2>5. QED
        BY <2>1, <2>2, <2>3, <2>4 DEF KeptInv, Somewhere
<1>3. CASE RunTask
    <2>1. UNCHANGED << pool, worker, call, dispatched >>
        BY <1>3 DEF RunTask
    <2>2. \A j : Somewhere(j)' <=> Somewhere(j)
        BY <2>1 DEF Somewhere, Queuing, InQueue, Holds, Busy
    <2>3. QED
        BY <1>0, <1>1, <2>1, <2>2 DEF KeptInv
<1>4. ASSUME NEW w \in Worker,
             \/ WorkerStart(w) \/ BodyReturns(w) \/ BodyThrows(w)
             \/ PostCompletion(w) \/ StoreDone(w) \/ NotifyWaiters(w)
      PROVE  KeptInv'
    <2>1. UNCHANGED << pool, call, dispatched >>
        BY <1>4 DEF WorkerStart, BodyReturns, BodyThrows, PostCompletion, StoreDone, NotifyWaiters
    <2>2. CASE /\ worker[w].pc = "notify"
               /\ worker' = [worker EXCEPT ![w] = [pc |-> "loop", job |-> Combined]]
        <3>1. ~Holds(w) /\ \A v \in Worker : v # w => worker'[v] = worker[v]
            BY <1>0, <2>2 DEF Holds
        <3>2. QED
            BY <1>0, <1>1, <2>1, <3>1, WorkerKeeps DEF KeptInv
    <2>3. ASSUME NEW x \in Pc \ IdlePc,
                 worker' = [worker EXCEPT ![w].pc = x],
                 x = "notify" => state' = [state EXCEPT ![worker[w].job].done = TRUE]
          PROVE  KeptInv'
        <3>1. /\ worker'[w].pc = x /\ worker'[w].job = worker[w].job
              /\ \A v \in Worker : v # w => worker'[v] = worker[v]
            BY <1>0, <2>3 DEF WorkerState
        <3>2. x = "notify" => state'[worker[w].job].done
            BY <2>3, TypeFacts DEF TypeOK
        <3>3. x # "notify" => Holds(w)'
            BY <2>3, <3>1 DEF Holds, Busy
        <3>4. QED
            BY <1>0, <1>1, <2>1, <3>1, <3>2, <3>3, WorkerKeeps DEF KeptInv
    <2>4. CASE WorkerStart(w) \/ BodyReturns(w) \/ BodyThrows(w) \/ PostCompletion(w)
        <3>1. PICK x \in {"body", "post", "latch", "done"} : worker' = [worker EXCEPT ![w].pc = x]
            BY <2>4 DEF WorkerStart, BodyReturns, BodyThrows, PostCompletion
        <3>2. x \in Pc \ IdlePc /\ x # "notify"
            BY DEF Pc, IdlePc
        <3>3. QED
            BY <2>3, <3>1, <3>2
    <2>5. CASE StoreDone(w)
        <3>1. "notify" \in Pc \ IdlePc /\ "latchNotify" \in Pc \ IdlePc
            BY DEF Pc, IdlePc
        <3>2. QED
            BY <2>3, <2>5, <3>1 DEF StoreDone
    <2>6. CASE NotifyWaiters(w)
        <3>1. "post" \in Pc \ IdlePc
            BY DEF Pc, IdlePc
        <3>2. QED
            BY <2>2, <2>3, <2>6, <3>1 DEF NotifyWaiters
    <2>7. QED
        BY <1>4, <2>4, <2>5, <2>6
<1>5. QED
    BY <1>2, <1>3, <1>4, DispatchKeeps, PushKeeps, TakeKeeps, StepKinds
-----------------------------------------------------------------------------
(* Handles.                                                                *)

\* A job that is still in its call, or was never dispatched, has had no completion.
LEMMA FreshJob ==
    ASSUME TypeOK, JobsInv, NEW j \in Job, j > dispatched
    PROVE  completed[j] = 0
<1>1. ~state[j].done
    BY DEF JobsInv, BodyInv
<1>2. \A w \in Worker : worker[w].pc = "done" => worker[w].job # j
    <2>1. \A w \in Worker : worker[w].pc = "done" => worker[w].job \in 1..dispatched
        BY DEF JobsInv, WorkerInv, Busy, IdlePc
    <2>2. j \notin 1..dispatched
        BY TypeFacts DEF Job
    <2>3. QED
        BY <2>1, <2>2
<1>3. QED
    BY <1>1, <1>2 DEF JobsInv, CompletionInv, Posted

LEMMA HandleInvStep ==
    ASSUME OnlyMain, TypeOK, CallInv, JobsInv, PoolInv, HandleInv, [Next]_vars
    PROVE  HandleInv'
<1>0. /\ call \in [Caller -> [step : {"none", "init", "push", "register"}, job : Handle,
                              priority : 0..2]]
      /\ Main \in Caller /\ \A j \in handles : j \in Job
    BY TypeFacts DEF TypeOK, Caller
<1>1. CASE RunTask
    <2>1. PICK j \in Job : /\ completed' = [completed EXCEPT ![j] = 1]
                           /\ handles' = handles \ {j}
        BY <1>1, TaskEffect
    <2>2. call' = call /\ call[Main].step = "none"
        BY <1>1 DEF RunTask
    <2>3. \A i \in Job : i # j => completed'[i] = completed[i]
        BY <2>1 DEF TypeOK
    <2>4. QED
        BY <1>0, <2>1, <2>2, <2>3 DEF HandleInv
<1>2. CASE \E c \in Caller : Register(c)
    <2>1. Register(Main)
        BY <1>2 DEF Register, PoolInv
    <2>2. /\ call[Main].step # "none" /\ handles' = handles \cup {call[Main].job}
          /\ completed' = completed /\ call'[Main].step = "none"
        BY <1>0, <2>1 DEF Register, NoCall
    <2>3. QED
        BY <2>2 DEF HandleInv
<1>3. CASE \E c \in Caller : DispatchInit(c) \/ DispatchPush(c)
    <2>1. PICK c \in Caller : DispatchInit(c) \/ DispatchPush(c)
        BY <1>3
    <2>2. c = Main /\ call[Main].step # "none"
        BY <2>1 DEF DispatchInit, DispatchPush, PoolInv
    <2>3. /\ handles' = handles /\ completed' = completed
          /\ call'[Main].step = "none" \/ call'[Main].job = call[Main].job
        BY <1>0, <2>1, <2>2 DEF DispatchInit, DispatchPush, NoCall
    <2>4. QED
        BY <2>2, <2>3 DEF HandleInv
<1>4. CASE (\E c \in Caller : Dispatch(c)) \/ DispatchChunk
    <2>1. /\ handles' = handles /\ completed' = completed /\ dispatched < MaxJobs
        BY <1>4 DEF Dispatch, DispatchChunk
    <2>2. call'[Main].step = "none" \/ call'[Main].job = dispatched + 1
        <3>1. CASE \E c \in Caller : Dispatch(c)
            <4>1. PICK c \in Caller : Dispatch(c)
                BY <3>1
            <4>2. c = Main
                BY <4>1 DEF Dispatch, OnlyMain
            <4>3. PICK p \in Priorities, s \in {"init", "register"} :
                    call' = [call EXCEPT ![Main] = [step |-> s, job |-> dispatched + 1, priority |-> p]]
                BY <4>1, <4>2 DEF Dispatch, Enter
            <4>4. QED
                BY <1>0, <4>3
        <3>2. CASE DispatchChunk
            <4>1. PICK x \in {NoCall, [step |-> "init", job |-> dispatched + 1, priority |-> 1]} :
                    call' = [call EXCEPT ![Main] = x]
                BY <3>2 DEF DispatchChunk, Enter
            <4>2. QED
                BY <1>0, <4>1 DEF NoCall
        <3>3. QED
            BY <1>4, <3>1, <3>2
    <2>3. completed[dispatched + 1] = 0
        BY <2>1, NextJob, FreshJob, TypeFacts
    <2>4. QED
        BY <2>1, <2>2, <2>3 DEF HandleInv
<1>5. CASE UNCHANGED << handles, completed, call >>
    BY <1>5 DEF HandleInv
<1>6. QED
    BY <1>1, <1>2, <1>3, <1>4, <1>5
       DEF Next, vars, CallStep, WorkerStep, ThreadStep, MainStep, Cancel, StoreDone,
           WorkerExit, WorkerTake, WorkerSleep, WorkerStart, BodyReturns,
           BodyThrows, PostCompletion, NotifyWaiters, ThreadCheck, ThreadSleep, ThreadWait,
           SubsystemInit, ParallelFor, Shutdown, Joined,
           MainWait, MainSeesDone, MainWaitReturns, ResizeInit, Exit
-----------------------------------------------------------------------------
(* The places of a job, as sets.                                           *)

QueuingAs(j) == {c \in Caller : call[c].step \in {"init", "push"} /\ call[c].job = j}
QueuedAs(j) == {at \in UNION {{p} \X DOMAIN pool.queues[p] : p \in 0..2} :
                    pool.queues[at[1]][at[2]] = j}
HeldAs(j) == {w \in Worker : worker[w].job = j /\ worker[w].pc # "notify"}

LEMMA QueuingPlace ==
    ASSUME IInv, NEW j \in 1..dispatched
    PROVE  IF \E c \in Caller : Queuing(c) /\ call[c].job = j
           THEN Cardinality(QueuingAs(j)) = 1 ELSE Cardinality(QueuingAs(j)) = 0
<1>1. CASE \E c \in Caller : Queuing(c) /\ call[c].job = j
    <2>1. PICK c \in Caller : Queuing(c) /\ call[c].job = j
        BY <1>1
    <2>2. QueuingAs(j) = {c}
        BY <2>1 DEF QueuingAs, Queuing, IInv, QueuingInv
    <2>3. QED
        BY <1>1, <2>2, FS_Singleton
<1>2. CASE ~\E c \in Caller : Queuing(c) /\ call[c].job = j
    <2>1. QueuingAs(j) = {}
        BY <1>2 DEF QueuingAs, Queuing
    <2>2. QED
        BY <1>2, <2>1, FS_EmptySet
<1>3. QED
    BY <1>1, <1>2

LEMMA QueuedPlace ==
    ASSUME IInv, NEW j \in 1..dispatched
    PROVE  IF \E p \in 0..2 : InQueue(p, j)
           THEN Cardinality(QueuedAs(j)) = 1 ELSE Cardinality(QueuedAs(j)) = 0
<1>0. j \in Job /\ QueueInv
    BY TypeFacts DEF IInv
<1>1. ASSUME NEW at
      PROVE  at \in QueuedAs(j) <=> \E p \in 0..2 : \E i \in DOMAIN pool.queues[p] :
                                        at = << p, i >> /\ pool.queues[p][i] = j
    BY DEF QueuedAs
<1>2. CASE \E p \in 0..2 : InQueue(p, j)
    <2>1. PICK p \in 0..2 : InQueue(p, j)
        BY <1>2
    <2>2. PICK i \in DOMAIN pool.queues[p] : pool.queues[p][i] = j
        BY <2>1 DEF InQueue, Range
    <2>3. ASSUME NEW q \in 0..2, NEW k \in DOMAIN pool.queues[q], pool.queues[q][k] = j
          PROVE  q = p /\ k = i
        <3>1. InQueue(q, j)
            BY <2>3 DEF InQueue, Range
        <3>2. q = p
            BY <1>0, <2>1, <3>1 DEF QueueInv
        <3>3. IsInjective(pool.queues[p])
            BY <1>0 DEF QueueInv
        <3>4. QED
            BY <2>2, <2>3, <3>2, <3>3 DEF IsInjective
    <2>4. QueuedAs(j) = {<< p, i >>}
        BY <1>1, <2>2, <2>3
    <2>5. QED
        BY <1>2, <2>4, FS_Singleton
<1>3. CASE ~\E p \in 0..2 : InQueue(p, j)
    <2>1. \A p \in 0..2 : \A i \in DOMAIN pool.queues[p] : pool.queues[p][i] # j
        BY <1>3 DEF InQueue, Range
    <2>2. QueuedAs(j) = {}
        BY <1>1, <2>1
    <2>3. QED
        BY <1>3, <2>2, FS_EmptySet
<1>4. QED
    BY <1>2, <1>3

LEMMA HeldPlace ==
    ASSUME IInv, NEW j \in 1..dispatched
    PROVE  IF \E w \in Worker : Holds(w) /\ worker[w].job = j
           THEN Cardinality(HeldAs(j)) = 1 ELSE Cardinality(HeldAs(j)) = 0
<1>1. \A w \in Worker : w \in HeldAs(j) <=> Holds(w) /\ worker[w].job = j
    <2>1. j # Combined
        BY TypeFacts DEF IInv
    <2>2. \A w \in Worker : worker[w].job = j => Busy(w)
        BY <2>1 DEF IInv, WorkerInv
    <2>3. QED
        BY <2>2 DEF HeldAs, Holds
<1>2. HeldAs(j) \subseteq Worker
    BY DEF HeldAs
<1>3. CASE \E w \in Worker : Holds(w) /\ worker[w].job = j
    <2>1. PICK w \in Worker : Holds(w) /\ worker[w].job = j
        BY <1>3
    <2>2. \A v \in Worker : Holds(v) /\ worker[v].job = j => v = w
        BY <2>1 DEF IInv, HoldsInv
    <2>3. HeldAs(j) = {w}
        BY <1>1, <1>2, <2>1, <2>2
    <2>4. QED
        BY <1>3, <2>3, FS_Singleton
<1>4. CASE ~\E w \in Worker : Holds(w) /\ worker[w].job = j
    <2>1. HeldAs(j) = {}
        BY <1>1, <1>2, <1>4
    <2>2. QED
        BY <1>4, <2>1, FS_EmptySet
<1>5. QED
    BY <1>3, <1>4

\* At most one kind of place at a time, and none for a job that is done.
LEMMA OnePlace ==
    ASSUME IInv, NEW j \in 1..dispatched
    PROVE  /\ state[j].done => ~Somewhere(j)
           /\ (\E c \in Caller : Queuing(c) /\ call[c].job = j) =>
                /\ ~\E p \in 0..2 : InQueue(p, j)
                /\ ~\E w \in Worker : Holds(w) /\ worker[w].job = j
           /\ (\E p \in 0..2 : InQueue(p, j)) =>
                ~\E w \in Worker : Holds(w) /\ worker[w].job = j
<1>1. j \in Job
    BY TypeFacts DEF IInv
<1>2. \A p \in 0..2 : InQueue(p, j) => ~state[j].done
    BY <1>1 DEF IInv, QueueInv
<1>3. \A c \in Caller : Queuing(c) /\ call[c].job = j =>
        /\ ~state[j].done
        /\ \A p \in 0..2 : ~InQueue(p, j)
    BY DEF IInv, QueuingInv
<1>4. \A w \in Worker : Holds(w) /\ worker[w].job = j =>
        /\ ~state[j].done
        /\ \A p \in 0..2 : ~InQueue(p, j)
        /\ \A c \in Caller : Queuing(c) => call[c].job # j
    BY DEF IInv, HoldsInv
<1>5. QED
    BY <1>2, <1>3, <1>4 DEF Somewhere

LEMMA KeptInOnePlace ==
    ASSUME IInv, KeptInv
    PROVE  JobKept
<1> SUFFICES ASSUME NEW j \in 1..dispatched
             PROVE  Places(j) = IF state[j].done THEN 0 ELSE 1
    BY DEF JobKept
<1>1. Places(j) = Cardinality(QueuingAs(j)) + Cardinality(QueuedAs(j)) + Cardinality(HeldAs(j))
    BY DEF Places, QueuingAs, QueuedAs, HeldAs
<1>2. CASE state[j].done
    <2>1. ~Somewhere(j)
        BY <1>2, OnePlace
    <2>2. /\ Cardinality(QueuingAs(j)) = 0 /\ Cardinality(QueuedAs(j)) = 0
          /\ Cardinality(HeldAs(j)) = 0
        BY <2>1, QueuingPlace, QueuedPlace, HeldPlace DEF Somewhere
    <2>3. QED
        BY <1>1, <1>2, <2>2
<1>3. CASE ~state[j].done
    <2>1. Somewhere(j)
        BY <1>3 DEF KeptInv
    <2>2. \/ /\ Cardinality(QueuingAs(j)) = 1 /\ Cardinality(QueuedAs(j)) = 0
             /\ Cardinality(HeldAs(j)) = 0
          \/ /\ Cardinality(QueuingAs(j)) = 0 /\ Cardinality(QueuedAs(j)) = 1
             /\ Cardinality(HeldAs(j)) = 0
          \/ /\ Cardinality(QueuingAs(j)) = 0 /\ Cardinality(QueuedAs(j)) = 0
             /\ Cardinality(HeldAs(j)) = 1
        BY <2>1, OnePlace, QueuingPlace, QueuedPlace, HeldPlace DEF Somewhere
    <2>3. QED
        BY <1>1, <1>3, <2>2
<1>4. QED
    BY <1>2, <1>3
-----------------------------------------------------------------------------
(* The theorems.                                                           *)

LEMMA InitiallyKept == Init => PoolInv /\ KeptInv /\ HandleInv
<1> SUFFICES ASSUME Init
             PROVE  PoolInv /\ KeptInv /\ HandleInv
    OBVIOUS
<1>1. HandleInv /\ KeptInv
    BY DEF Init, HandleInv, KeptInv, NoCall, Caller
<1>2. Started = {} /\ QueuesEmpty
    BY DEF Init, Started, QueuesEmpty
<1>3. PoolInv
    BY <1>2 DEF Init, PoolInv, NoCall, Joining, Stopped, Caller
<1>4. QED
    BY <1>1, <1>3

\* What holds besides IInv when only the main thread dispatches is inductive with it.
THEOREM KeptInductive ==
    ASSUME OnlyMain
    PROVE  Spec => []MainOnlyInv
<1>1. Init => MainOnlyInv
    BY Initially, InitiallyKept DEF MainOnlyInv
<1>2. MainOnlyInv /\ [Next]_vars => MainOnlyInv'
    <2> SUFFICES ASSUME MainOnlyInv, [Next]_vars
                 PROVE  MainOnlyInv'
        OBVIOUS
    <2>1. /\ IInv /\ TypeOK /\ CallInv /\ JobsInv /\ LatchInv /\ WaitInv
          /\ PoolInv /\ KeptInv /\ HandleInv
        BY DEF MainOnlyInv, IInv, JobsInv
    <2>2. IInv'
        BY <2>1, TypeStep, CallInvStep, JobsStep, LatchInvStep, WaitInvStep DEF IInv, JobsInv
    <2>3. PoolInv' /\ KeptInv' /\ HandleInv'
        BY <2>1, PoolInvStep, KeptInvStep, HandleInvStep
    <2>4. QED
        BY <2>2, <2>3 DEF MainOnlyInv
<1>3. QED
    BY <1>1, <1>2, PTL DEF Spec

\* JobKept: a job that was dispatched is in one place until it is done, and then in none: no
\* interleaving of dispatch, the workers, shutdown and resize loses it or runs it twice.
THEOREM JobsKept ==
    ASSUME OnlyMain
    PROVE  Spec => []JobKept
<1>1. MainOnlyInv => JobKept
    BY KeptInOnePlace DEF MainOnlyInv
<1>2. QED
    BY <1>1, KeptInductive, PTL

\* ShutdownDrains: when shutdown has joined the workers every job is done, and when the
\* subsystem has shut down every completion has run.
THEOREM ShutdownComplete ==
    ASSUME OnlyMain
    PROVE  Spec => []ShutdownDrains
<1>1. ASSUME MainOnlyInv
      PROVE  ShutdownDrains
    <2>1. /\ TypeOK /\ WorkerInv /\ CompletionInv /\ PoolInv /\ KeptInv
          /\ \A j \in 1..dispatched : j \in Job
        BY <1>1, TypeFacts DEF MainOnlyInv, IInv
    <2>2. ASSUME Stopped, NEW j \in 1..dispatched
          PROVE  state[j].done
        <3>1. ~Joining /\ ~pool.initialized /\ \A c \in Caller : call[c].step = "none"
            BY <2>1, <2>2 DEF PoolInv, Joining, Stopped
        <3>2. Started = {} /\ QueuesEmpty
            BY <2>1, <3>1 DEF PoolInv
        <3>3. /\ ~\E c \in Caller : Queuing(c) /\ call[c].job = j
              /\ ~\E w \in Worker : Holds(w) /\ worker[w].job = j
            BY <3>1, <3>2 DEF Queuing, Started, Holds, Busy, IdlePc
        <3>4. ~\E p \in 0..2 : InQueue(p, j)
            BY <3>2, RangeEmpty DEF QueuesEmpty, InQueue
        <3>5. QED
            BY <2>1, <3>3, <3>4 DEF KeptInv, Somewhere
    <2>3. ASSUME main.pc = "exited", NEW j \in (1..dispatched) \ chunks
          PROVE  completed[j] = 1
        <3>1. state[j].done /\ tasks = << >>
            BY <2>1, <2>2, <2>3 DEF Stopped, PoolInv
        <3>2. j \notin Range(tasks)
            BY <3>1, RangeEmpty
        <3>3. QED
            BY <2>1, <3>1, <3>2 DEF CompletionInv, Posted
    <2>4. QED
        BY <2>2, <2>3 DEF ShutdownDrains, Stopped
<1>2. QED
    BY <1>1, KeptInductive, PTL

\* HandlesReleased: a handle of Sys_JobSubmit is in the table only until its completion runs:
\* the completion, which needs the main thread, cannot overtake the registration.
THEOREM HandlesGone ==
    ASSUME OnlyMain
    PROVE  Spec => []HandlesReleased
<1>1. MainOnlyInv => HandlesReleased
    BY DEF MainOnlyInv, HandleInv, HandlesReleased
<1>2. QED
    BY <1>1, KeptInductive, PTL
=============================================================================
