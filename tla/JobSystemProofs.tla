--------------------------- MODULE JobSystemProofs ---------------------------
(***************************************************************************)
(* Proofs about JobSystem for every number of workers, threads and jobs and *)
(* any set of dispatchers.                                                  *)
(***************************************************************************)
EXTENDS JobSystem, SequenceTheorems, FiniteSetTheorems, TLAPS

USE PoolAssumption
-----------------------------------------------------------------------------
(* Queues.                                                                 *)

LEMMA RangeAppend ==
    ASSUME NEW S, NEW s \in Seq(S), NEW x \in S
    PROVE  /\ Append(s, x) \in Seq(S)
           /\ Range(Append(s, x)) = Range(s) \cup {x}
           /\ IsInjective(s) /\ x \notin Range(s) => IsInjective(Append(s, x))
<1>1. /\ Append(s, x) \in Seq(S) /\ Len(Append(s, x)) = Len(s) + 1 /\ Len(s) \in Nat
      /\ \A i \in 1..Len(s) : Append(s, x)[i] = s[i]
      /\ Append(s, x)[Len(s) + 1] = x
    BY AppendProperties, LenProperties
<1>2. DOMAIN s = 1..Len(s) /\ DOMAIN Append(s, x) = 1..(Len(s) + 1)
    BY <1>1, LenProperties
<1>3. Range(Append(s, x)) = Range(s) \cup {x}
    <2>1. Range(Append(s, x)) \subseteq Range(s) \cup {x}
        BY <1>1, <1>2 DEF Range
    <2>2. \A y \in Range(s) : y \in Range(Append(s, x))
        BY <1>1, <1>2 DEF Range
    <2>3. x \in Range(Append(s, x))
        BY <1>1, <1>2 DEF Range
    <2>4. QED
        BY <2>1, <2>2, <2>3
<1>4. IsInjective(s) /\ x \notin Range(s) => IsInjective(Append(s, x))
    BY <1>1, <1>2 DEF IsInjective, Range
<1>5. QED
    BY <1>1, <1>3, <1>4

LEMMA RangeTail ==
    ASSUME NEW S, NEW s \in Seq(S), s # << >>
    PROVE  /\ Tail(s) \in Seq(S) /\ Head(s) \in S /\ Head(s) \in Range(s)
           /\ IsInjective(s) => /\ IsInjective(Tail(s))
                                /\ Range(Tail(s)) = Range(s) \ {Head(s)}
<1>1. /\ Tail(s) \in Seq(S) /\ Head(s) \in S /\ Len(s) \in Nat /\ Len(s) > 0
      /\ Len(Tail(s)) = Len(s) - 1 /\ Head(s) = s[1]
      /\ \A i \in 1..Len(Tail(s)) : Tail(s)[i] = s[i + 1]
    BY HeadTailProperties, LenProperties, EmptySeq
<1>2. DOMAIN s = 1..Len(s) /\ DOMAIN Tail(s) = 1..(Len(s) - 1)
    BY <1>1, LenProperties
<1>3. Head(s) \in Range(s)
    BY <1>1, <1>2 DEF Range
<1>4. ASSUME IsInjective(s)
      PROVE  IsInjective(Tail(s)) /\ Range(Tail(s)) = Range(s) \ {Head(s)}
    <2>1. IsInjective(Tail(s))
        BY <1>1, <1>2, <1>4 DEF IsInjective
    <2>2. \A i \in 1..(Len(s) - 1) : Tail(s)[i] \in Range(s) \ {Head(s)}
        BY <1>1, <1>2, <1>4 DEF IsInjective, Range
    <2>3. ASSUME NEW y \in Range(s) \ {Head(s)}
          PROVE  y \in Range(Tail(s))
        <3>1. PICK i \in 1..Len(s) : y = s[i] /\ i # 1
            BY <1>1, <1>2, <2>3 DEF Range
        <3>2. i - 1 \in 1..(Len(s) - 1) /\ (i - 1) + 1 = i
            BY <3>1, <1>1
        <3>3. Tail(s)[i - 1] = y
            BY <3>1, <3>2, <1>1
        <3>4. QED
            BY <3>2, <3>3, <1>2 DEF Range
    <2>4. QED
        BY <1>2, <2>1, <2>2, <2>3 DEF Range
<1>5. QED
    BY <1>1, <1>3, <1>4

LEMMA RangeEmpty == Range(<< >>) = {} /\ IsInjective(<< >>) /\ << >> \in Seq(Job)
    BY EmptySeq DEF Range, IsInjective
-----------------------------------------------------------------------------
(* Steps that only start, stop, wake or put to sleep idle workers.          *)

Pc == {"none", "loop", "asleep", "taken", "body", "latch", "latchNotify", "post", "done",
       "notify", "exited"}
WorkerState == [pc : Pc, job : Handle]

IdleMoves ==
    /\ worker' \in [Worker -> WorkerState]
    /\ \A w \in Worker :
        /\ worker'[w].job = worker[w].job
        /\ \/ worker'[w].pc = worker[w].pc
           \/ worker[w].pc \in IdlePc /\ worker'[w].pc \in IdlePc

\* A step that gives one worker another place in worker_loop.
LEMMA OneWorker ==
    ASSUME worker \in [Worker -> WorkerState], NEW w \in Worker, NEW x \in Pc,
           worker' = [worker EXCEPT ![w].pc = x]
    PROVE  /\ worker' \in [Worker -> WorkerState]
           /\ \A v \in Worker : worker'[v].job = worker[v].job
           /\ worker'[w].pc = x
           /\ \A v \in Worker : v # w => worker'[v].pc = worker[v].pc
BY DEF WorkerState

LEMMA OneIdleMove ==
    ASSUME worker \in [Worker -> WorkerState], NEW w \in Worker, NEW x \in IdlePc,
           worker[w].pc \in IdlePc, worker' = [worker EXCEPT ![w].pc = x]
    PROVE  IdleMoves
BY OneWorker DEF IdleMoves, IdlePc, Pc

LEMMA NotifyOneMoves ==
    ASSUME worker \in [Worker -> WorkerState], NotifyOne(worker)
    PROVE  IdleMoves
<1>1. CASE worker' = worker
    BY <1>1 DEF IdleMoves
<1>2. CASE \E w \in Asleep(worker) : worker' = [worker EXCEPT ![w].pc = "loop"]
    BY <1>2, OneIdleMove DEF Asleep, IdlePc
<1>3. QED
    BY <1>1, <1>2 DEF NotifyOne

LEMMA NotifyAllMoves ==
    ASSUME worker \in [Worker -> WorkerState], worker' = NotifyAll(worker)
    PROVE  IdleMoves
BY DEF NotifyAll, IdleMoves, WorkerState, IdlePc, Pc

LEMMA InitPoolMoves ==
    ASSUME worker \in [Worker -> WorkerState], InitPool
    PROVE  IdleMoves
<1>1. CASE worker' = worker
    BY <1>1 DEF IdleMoves
<1>2. CASE \E fresh \in kSubset(PoolSize, {w \in Worker : worker[w].pc = "none"}) :
              worker' = [w \in Worker |-> IF w \in fresh THEN [worker[w] EXCEPT !.pc = "loop"]
                                          ELSE worker[w]]
    BY <1>2 DEF IdleMoves, WorkerState, IdlePc, Pc, kSubset
<1>3. QED
    BY <1>1, <1>2 DEF InitPool
-----------------------------------------------------------------------------
(* Calm steps: no job moves, starts or ends, though queues may be dropped. *)

\* What the types say of each variable, pointwise.
LEMMA TypeFacts ==
    ASSUME TypeOK
    PROVE  /\ \A p \in 0..2 : pool.queues[p] \in Seq(Job)
           /\ worker \in [Worker -> WorkerState]
           /\ \A w \in Worker : worker[w].pc \in Pc /\ worker[w].job \in Handle
           /\ \A h \in Handle : state[h].done \in BOOLEAN /\ state[h].cancelled \in BOOLEAN
           /\ dispatched \in Nat /\ dispatched <= MaxJobs /\ chunks \subseteq 1..dispatched
           /\ remaining \in Nat /\ remaining <= NumChunks
           /\ \A j \in Job : bodies[j] \in Nat /\ completed[j] \in Nat
           /\ tasks \in Seq(Job)
           /\ main.handle \in Handle /\ main.chunksLeft \in Nat /\ main.chunksLeft <= NumChunks
           /\ \A c \in Caller : call[c].job \in Handle /\ call[c].priority \in 0..2
           /\ \A c \in Caller : call[c].step \in {"none", "init", "push", "register"}
           /\ \A j \in 1..dispatched : j \in Job /\ j \in Handle
           /\ \A j \in Job : j \in Handle
           /\ Combined \in Handle /\ Combined \notin Job
<1> USE DEF TypeOK
<1>1. dispatched \in Nat /\ dispatched <= MaxJobs /\ chunks \subseteq 1..dispatched
    BY DEF PoolAssumption
<1>2. remaining \in Nat /\ remaining <= NumChunks
    BY DEF PoolAssumption
<1>3. main.handle \in Handle /\ main.chunksLeft \in Nat /\ main.chunksLeft <= NumChunks
    BY DEF PoolAssumption
<1>4. /\ worker \in [Worker -> WorkerState]
      /\ \A w \in Worker : worker[w].pc \in Pc /\ worker[w].job \in Handle
    BY DEF WorkerState, Pc
<1>5. /\ \A j \in 1..dispatched : j \in Job /\ j \in Handle
      /\ \A j \in Job : j \in Handle
      /\ Combined \in Handle /\ Combined \notin Job
    BY <1>1 DEF Job, Handle, Combined, PoolAssumption
<1>6. QED
    BY <1>1, <1>2, <1>3, <1>4, <1>5

Calm ==
    /\ IdleMoves
    /\ \A p \in 0..2 : pool'.queues[p] = pool.queues[p] \/ pool'.queues[p] = << >>
    /\ \A h \in Handle : state'[h].done = state[h].done
    /\ \A h \in Handle : state[h].cancelled => state'[h].cancelled
    /\ \A c \in Caller : /\ Queuing(c)' <=> Queuing(c)
                         /\ Queuing(c) => call'[c].job = call[c].job
    /\ UNCHANGED << dispatched, chunks, remaining, bodies, tasks, completed >>

JobsInv == WorkerInv /\ QueueInv /\ QueuingInv /\ HoldsInv /\ BodyInv /\ CompletionInv

LEMMA IdleMovesKeep ==
    ASSUME IdleMoves, NEW w \in Worker
    PROVE  /\ worker'[w].job = worker[w].job
           /\ Busy(w)' <=> Busy(w)
           /\ Holds(w)' <=> Holds(w)
           /\ \A x \in Pc \ IdlePc : worker'[w].pc = x <=> worker[w].pc = x
BY DEF IdleMoves, Busy, Holds, IdlePc

LEMMA CalmQueues ==
    ASSUME Calm, NEW p \in 0..2, NEW j
    PROVE  InQueue(p, j)' => InQueue(p, j)
BY RangeEmpty DEF Calm, InQueue

LEMMA CalmStep ==
    ASSUME TypeOK, CallInv, JobsInv, Calm
    PROVE  JobsInv'
<1> DEFINE Jobs == 1..dispatched
<1>1. /\ \A w \in Worker : worker[w].pc \in Pc /\ worker[w].job \in Handle
      /\ dispatched \in Nat /\ chunks \subseteq Jobs /\ \A j \in Jobs : j \in Job
      /\ \A j \in Job : j \in Handle
      /\ Combined \in Handle
    BY TypeFacts
<1>2. /\ \A h \in Handle : state'[h].done = state[h].done
      /\ dispatched' = dispatched /\ Jobs' = Jobs /\ chunks' = chunks
      /\ bodies' = bodies /\ tasks' = tasks /\ completed' = completed
    BY DEF Calm
<1>3. \A w \in Worker : /\ worker'[w].job = worker[w].job
                        /\ Busy(w)' <=> Busy(w)
                        /\ Holds(w)' <=> Holds(w)
                        /\ Busy(w) => worker'[w].pc = worker[w].pc
                        /\ ~Busy(w) => worker'[w].pc \in IdlePc
    BY DEF Calm, IdleMoves, Busy, Holds
<1>4. \A c \in Caller : Queuing(c)' => Queuing(c) /\ call'[c].job = call[c].job
    BY DEF Calm
<1>5. \A c \in Caller : Queuing(c) => call[c].job \in Jobs
    BY DEF CallInv, Queuing
<1>6. \A w \in Worker : Busy(w) => worker[w].job \in Jobs
    BY DEF JobsInv, WorkerInv
<1> HIDE DEF Jobs
<1>11. WorkerInv'
    <2> SUFFICES ASSUME NEW w \in Worker
                 PROVE  /\ ~Busy(w)' => worker'[w].job = Combined
                        /\ Busy(w)' => worker'[w].job \in Jobs'
                        /\ worker'[w].pc \in {"latch", "latchNotify"} => worker'[w].job \in chunks'
                        /\ worker'[w].pc = "notify" => state'[worker'[w].job].done
        BY DEF WorkerInv, Jobs
    <2>1. CASE Busy(w)
        BY <2>1, <1>1, <1>2, <1>3, <1>6 DEF JobsInv, WorkerInv
    <2>2. CASE ~Busy(w)
        BY <2>2, <1>1, <1>2, <1>3, <1>6 DEF JobsInv, WorkerInv, IdlePc
    <2>3. QED
        BY <2>1, <2>2
<1>12. QueueInv'
    BY CalmQueues, RangeEmpty, <1>1, <1>2 DEF JobsInv, QueueInv, Calm
<1>13. QueuingInv'
    BY CalmQueues, <1>1, <1>2, <1>4, <1>5 DEF JobsInv, QueuingInv
<1>14. HoldsInv'
    BY CalmQueues, <1>1, <1>2, <1>3, <1>4, <1>6 DEF JobsInv, HoldsInv
<1>15. BodyInv'
    <2>1. \A j \in Job : Ran(j) => Ran(j)'
        BY <1>1, <1>2 DEF Ran, Cancelled, Calm
    <2>2. \A j \in Job :
            /\ bodies'[j] \in {0, 1}
            /\ j > dispatched' => bodies'[j] = 0 /\ ~state'[j].done
            /\ \A p \in 0..2 : InQueue(p, j)' => bodies'[j] = 0
            /\ state'[j].done => Ran(j)'
        BY CalmQueues, <2>1, <1>1, <1>2 DEF JobsInv, BodyInv
    <2>3. \A c \in Caller : Queuing(c)' => bodies'[call'[c].job] = 0
        BY <1>2, <1>4, <1>5 DEF JobsInv, BodyInv
    <2>4. ASSUME NEW w \in Worker
          PROVE  /\ worker'[w].pc = "taken" => bodies'[worker'[w].job] = 0
                 /\ worker'[w].pc \in {"body", "latch", "latchNotify"} => bodies'[worker'[w].job] = 1
                 /\ worker'[w].pc \in {"post", "done"} => Ran(worker[w].job)'
        <3>1. CASE Busy(w)
            BY <3>1, <2>1, <1>1, <1>2, <1>3, <1>6 DEF JobsInv, BodyInv
        <3>2. CASE ~Busy(w)
            BY <3>2, <1>3 DEF IdlePc
        <3>3. QED
            BY <3>1, <3>2
    <2>5. QED
        BY <2>2, <2>3, <2>4, <1>3 DEF BodyInv
<1>16. CompletionInv'
    <2>1. \A j \in Job : Posted(j)' <=> Posted(j)
        BY <1>1, <1>2, <1>3 DEF Posted, Busy, IdlePc
    <2>2. QED
        BY <2>1, <1>1, <1>2 DEF JobsInv, CompletionInv
<1>17. QED
    BY <1>11, <1>12, <1>13, <1>14, <1>15, <1>16 DEF JobsInv
-----------------------------------------------------------------------------
(* A job enters a queue or a call.                                         *)

LEMMA PushQueue ==
    ASSUME TypeOK, QueueInv, NEW j \in Job, NEW p \in 0..2, PushItem(j, p),
           \A q \in 0..2 : ~InQueue(q, j)
    PROVE  /\ IdleMoves
           /\ \A q \in 0..2 : /\ pool'.queues[q] \in Seq(Job) /\ IsInjective(pool'.queues[q])
                              /\ \A i : InQueue(q, i)' <=> InQueue(q, i) \/ (q = p /\ i = j)
<1>1. IdleMoves
    BY TypeFacts, NotifyOneMoves DEF PushItem
<1>2. \A q \in 0..2 : pool.queues[q] \in Seq(Job) /\ IsInjective(pool.queues[q])
    BY TypeFacts DEF QueueInv
<1>3. pool'.queues[p] = Append(pool.queues[p], j)
    BY DEF PushItem, TypeOK
<1>4. \A q \in 0..2 : q # p => pool'.queues[q] = pool.queues[q]
    BY DEF PushItem, TypeOK
<1>5. j \notin Range(pool.queues[p])
    BY DEF InQueue
<1>6. /\ pool'.queues[p] \in Seq(Job) /\ IsInjective(pool'.queues[p])
      /\ Range(pool'.queues[p]) = Range(pool.queues[p]) \cup {j}
    BY <1>2, <1>3, <1>5, RangeAppend
<1>7. QED
    BY <1>1, <1>2, <1>4, <1>6 DEF InQueue

\* A new job, in queue p or in a call of c.
DispatchesTo(c, j) ==
    \/ /\ \E p \in 0..2 : PushItem(j, p)
       /\ \A d \in Caller : Queuing(d)' <=> Queuing(d)
    \/ /\ worker' = worker /\ pool' = pool
       /\ \A d \in Caller : Queuing(d)' <=> Queuing(d) \/ d = c
       /\ call'[c].job = j

Dispatches(c, j) ==
    /\ j = dispatched + 1 /\ j \in Job /\ dispatched' = j
    /\ chunks \subseteq chunks' /\ chunks' \subseteq chunks \cup {j}
    /\ ~Queuing(c) /\ \A d \in Caller : d # c => call'[d] = call[d]
    /\ UNCHANGED << state, remaining, bodies, tasks, completed >>
    /\ DispatchesTo(c, j)

LEMMA DispatchStep ==
    ASSUME TypeOK, CallInv, JobsInv, NEW c \in Caller, NEW j, Dispatches(c, j)
    PROVE  JobsInv'
<1> DEFINE Jobs == 1..dispatched
<1>1. /\ \A w \in Worker : worker[w].pc \in Pc /\ worker[w].job \in Handle
      /\ dispatched \in Nat /\ chunks \subseteq Jobs /\ \A i \in Jobs : i \in Job
      /\ \A i \in Job : i \in Handle
      /\ Combined \in Handle
    BY TypeFacts
<1>2. /\ j \in Job /\ j \notin Jobs /\ Jobs' = Jobs \cup {j} /\ dispatched' = j
      /\ j = dispatched + 1
      /\ state' = state /\ bodies' = bodies /\ tasks' = tasks /\ completed' = completed
      /\ \A i \in Job : i # j => (i \in chunks' <=> i \in chunks)
      /\ chunks \subseteq chunks'
    <2>1. j = dispatched + 1 /\ dispatched' = j /\ j \in Job
        BY DEF Dispatches
    <2>2. dispatched + 1 \notin Jobs /\ 1..(dispatched + 1) = Jobs \cup {dispatched + 1}
        BY <1>1
    <2>3. Jobs' = 1..(dispatched + 1)
        BY <2>1
    <2>4. QED
        BY <2>1, <2>2, <2>3 DEF Dispatches
<1>3. ~state[j].done /\ bodies[j] = 0
    BY <1>1, <1>2 DEF JobsInv, BodyInv
<1>4. \A p \in 0..2 : ~InQueue(p, j)
    BY <1>1, <1>2 DEF JobsInv, QueueInv
<1>5. \A d \in Caller : Queuing(d) => call[d].job \in Jobs
    BY DEF CallInv, Queuing
<1>6. \A w \in Worker : Busy(w) => worker[w].job \in Jobs
    BY DEF JobsInv, WorkerInv
<1>7. IdleMoves
    BY <1>4, <1>2, TypeFacts, PushQueue DEF Dispatches, DispatchesTo, JobsInv, IdleMoves
<1>8. \A w \in Worker : /\ worker'[w].job = worker[w].job
                        /\ Busy(w)' <=> Busy(w)
                        /\ Holds(w)' <=> Holds(w)
                        /\ Busy(w) => worker'[w].pc = worker[w].pc
                        /\ ~Busy(w) => worker'[w].pc \in IdlePc
    BY <1>7 DEF IdleMoves, Busy, Holds
<1>9. \A p \in 0..2 : IsInjective(pool'.queues[p])
    BY <1>4, <1>2, PushQueue DEF Dispatches, DispatchesTo, JobsInv, QueueInv
<1>10. \A p \in 0..2 : \A i : InQueue(p, i)' => InQueue(p, i) \/ i = j
    BY <1>4, <1>2, PushQueue DEF Dispatches, DispatchesTo, JobsInv, InQueue
<1>11. \A p, q \in 0..2 : InQueue(p, j)' /\ InQueue(q, j)' => p = q
    BY <1>4, <1>2, PushQueue DEF Dispatches, DispatchesTo, JobsInv, InQueue
<1>12. \A d \in Caller : Queuing(d)' =>
          \/ Queuing(d) /\ call'[d].job = call[d].job /\ d # c
          \/ d = c /\ call'[d].job = j /\ \A p \in 0..2 : ~InQueue(p, j)'
    BY <1>4 DEF Dispatches, DispatchesTo, InQueue
<1> HIDE DEF Jobs
<1>21. WorkerInv'
    <2> SUFFICES ASSUME NEW w \in Worker
                 PROVE  /\ ~Busy(w)' => worker'[w].job = Combined
                        /\ Busy(w)' => worker'[w].job \in Jobs'
                        /\ worker'[w].pc \in {"latch", "latchNotify"} => worker'[w].job \in chunks'
                        /\ worker'[w].pc = "notify" => state'[worker'[w].job].done
        BY DEF WorkerInv, Jobs
    <2>1. CASE Busy(w)
        BY <2>1, <1>1, <1>2, <1>8, <1>6 DEF JobsInv, WorkerInv
    <2>2. CASE ~Busy(w)
        BY <2>2, <1>1, <1>2, <1>8, <1>6 DEF JobsInv, WorkerInv, IdlePc
    <2>3. QED
        BY <2>1, <2>2
<1>22. QueueInv'
    <2>1. \A p \in 0..2, i \in Job : InQueue(p, i) => i <= dispatched' /\ ~state'[i].done
        BY <1>1, <1>2 DEF JobsInv, QueueInv, Job
    <2>2. \A p \in 0..2, i \in Job : InQueue(p, i)' => i <= dispatched' /\ ~state'[i].done
        BY <2>1, <1>1, <1>2, <1>3, <1>10
    <2>3. \A p, q \in 0..2, i \in Job : InQueue(p, i)' /\ InQueue(q, i)' => p = q
        BY <1>10, <1>11 DEF JobsInv, QueueInv
    <2>4. QED
        BY <2>2, <2>3, <1>9 DEF QueueInv
<1>23. QueuingInv'
    <2>1. \A d \in Caller : Queuing(d)' => ~state'[call'[d].job].done
        BY <1>2, <1>3, <1>12 DEF JobsInv, QueuingInv
    <2>2. \A d \in Caller, p \in 0..2 : Queuing(d)' => ~InQueue(p, call[d].job)'
        BY <1>2, <1>5, <1>10, <1>12 DEF JobsInv, QueuingInv
    <2>3. \A d, e \in Caller : Queuing(d)' /\ Queuing(e)' /\ call'[d].job = call'[e].job => d = e
        BY <1>2, <1>5, <1>12 DEF JobsInv, QueuingInv
    <2>4. QED
        BY <2>1, <2>2, <2>3 DEF QueuingInv
<1>24. HoldsInv'
    <2>1. \A w \in Worker : Holds(w) => worker[w].job \in Jobs
        BY <1>6 DEF Holds
    <2>2. QED
        BY <2>1, <1>2, <1>8, <1>10, <1>12 DEF JobsInv, HoldsInv
<1>25. BodyInv'
    <2>1. \A i \in Jobs : Ran(i) => Ran(i)'
        BY <1>1, <1>2 DEF Ran, Cancelled, Calm
    <2>2. \A i \in Job : state[i].done => i \in Jobs
        BY <1>1 DEF JobsInv, BodyInv, Job, Jobs
    <2>3. \A i \in Job :
            /\ bodies'[i] \in {0, 1}
            /\ i > dispatched' => bodies'[i] = 0 /\ ~state'[i].done
            /\ \A p \in 0..2 : InQueue(p, i)' => bodies'[i] = 0
            /\ state'[i].done => Ran(i)'
        <3>1. \A i \in Job : i > dispatched' => i > dispatched
            BY <1>1, <1>2 DEF Job
        <3>2. QED
            BY <2>1, <2>2, <3>1, <1>2, <1>3, <1>10 DEF JobsInv, BodyInv
    <2>4. \A d \in Caller : Queuing(d)' => bodies'[call'[d].job] = 0
        BY <1>2, <1>3, <1>12 DEF JobsInv, BodyInv
    <2>5. ASSUME NEW w \in Worker
          PROVE  /\ worker'[w].pc = "taken" => bodies'[worker'[w].job] = 0
                 /\ worker'[w].pc \in {"body", "latch", "latchNotify"} => bodies'[worker'[w].job] = 1
                 /\ worker'[w].pc \in {"post", "done"} => Ran(worker[w].job)'
        <3>1. CASE Busy(w)
            BY <3>1, <2>1, <1>1, <1>2, <1>8, <1>6 DEF JobsInv, BodyInv
        <3>2. CASE ~Busy(w)
            BY <3>2, <1>8 DEF IdlePc
        <3>3. QED
            BY <3>1, <3>2
    <2>6. QED
        BY <2>3, <2>4, <2>5, <1>8 DEF BodyInv
<1>26. CompletionInv'
    <2>1. \A i \in Job : Posted(i)' <=> Posted(i)
        BY <1>1, <1>2, <1>8 DEF Posted, Busy, IdlePc
    <2>2. ~Posted(j)
        BY <1>2, <1>3, <1>6 DEF Posted, Busy, IdlePc
    <2>3. QED
        BY <2>1, <2>2, <1>1, <1>2 DEF JobsInv, CompletionInv
<1>27. QED
    BY <1>21, <1>22, <1>23, <1>24, <1>25, <1>26 DEF JobsInv

\* The job of a call is queued.
LEMMA PushStep ==
    ASSUME TypeOK, CallInv, JobsInv, NEW c \in Caller, DispatchPush(c)
    PROVE  JobsInv'
<1> DEFINE Jobs == 1..dispatched
           j == call[c].job
<1>1. /\ \A w \in Worker : worker[w].pc \in Pc /\ worker[w].job \in Handle
      /\ dispatched \in Nat /\ chunks \subseteq Jobs /\ \A i \in Jobs : i \in Job
      /\ \A i \in Job : i \in Handle
      /\ Combined \in Handle
    BY TypeFacts
<1>2. /\ dispatched' = dispatched /\ chunks' = chunks /\ Jobs' = Jobs
      /\ state' = state /\ bodies' = bodies /\ tasks' = tasks /\ completed' = completed
    BY DEF DispatchPush
<1>3. Queuing(c)
    BY DEF DispatchPush, Queuing
<1>4. /\ j \in Jobs /\ ~state[j].done /\ bodies[j] = 0 /\ \A p \in 0..2 : ~InQueue(p, j)
      /\ \A d \in Caller : Queuing(d) /\ call[d].job = j => d = c
      /\ \A w \in Worker : Holds(w) => worker[w].job # j
    BY <1>3 DEF JobsInv, QueuingInv, BodyInv, HoldsInv, CallInv, Queuing
<1>5. \A d \in Caller : Queuing(d) => call[d].job \in Jobs
    BY DEF CallInv, Queuing
<1>6. \A w \in Worker : Busy(w) => worker[w].job \in Jobs
    BY DEF JobsInv, WorkerInv
<1>7. /\ IdleMoves
      /\ \E p \in 0..2 : \A q \in 0..2 :
            /\ IsInjective(pool'.queues[q])
            /\ \A i : InQueue(q, i)' <=> InQueue(q, i) \/ (q = p /\ i = j)
    <2>1. call[c].priority \in 0..2 /\ j \in Job
        BY <1>1, <1>4, TypeFacts
    <2>2. PushItem(j, call[c].priority)
        BY DEF DispatchPush
    <2>3. QED
        BY <2>1, <2>2, <1>4, PushQueue DEF JobsInv
<1>8. \A w \in Worker : /\ worker'[w].job = worker[w].job
                        /\ Busy(w)' <=> Busy(w)
                        /\ Holds(w)' <=> Holds(w)
                        /\ Busy(w) => worker'[w].pc = worker[w].pc
                        /\ ~Busy(w) => worker'[w].pc \in IdlePc
    BY <1>7 DEF IdleMoves, Busy, Holds
<1>9. \A d \in Caller : Queuing(d)' => Queuing(d) /\ call'[d].job = call[d].job /\ d # c
    BY DEF DispatchPush, Queuing, NoCall, TypeOK
<1> HIDE DEF Jobs, j
<1>21. WorkerInv'
    <2> SUFFICES ASSUME NEW w \in Worker
                 PROVE  /\ ~Busy(w)' => worker'[w].job = Combined
                        /\ Busy(w)' => worker'[w].job \in Jobs'
                        /\ worker'[w].pc \in {"latch", "latchNotify"} => worker'[w].job \in chunks'
                        /\ worker'[w].pc = "notify" => state'[worker'[w].job].done
        BY DEF WorkerInv, Jobs
    <2>1. CASE Busy(w)
        BY <2>1, <1>1, <1>2, <1>8, <1>6 DEF JobsInv, WorkerInv
    <2>2. CASE ~Busy(w)
        BY <2>2, <1>1, <1>2, <1>8, <1>6 DEF JobsInv, WorkerInv, IdlePc
    <2>3. QED
        BY <2>1, <2>2
<1>22. QueueInv'
    <2>1. j <= dispatched
        BY <1>1, <1>4 DEF Jobs
    <2>2. QED
        BY <2>1, <1>1, <1>2, <1>4, <1>7 DEF JobsInv, QueueInv
<1>23. QueuingInv'
    <2>1. \A d \in Caller : Queuing(d)' => ~state'[call'[d].job].done
        BY <1>2, <1>9 DEF JobsInv, QueuingInv
    <2>2. \A d \in Caller, p \in 0..2 : Queuing(d)' => ~InQueue(p, call[d].job)'
        BY <1>4, <1>7, <1>9 DEF JobsInv, QueuingInv
    <2>3. \A d, e \in Caller : Queuing(d)' /\ Queuing(e)' /\ call'[d].job = call'[e].job => d = e
        BY <1>9 DEF JobsInv, QueuingInv
    <2>4. QED
        BY <2>1, <2>2, <2>3 DEF QueuingInv
<1>24. HoldsInv'
    BY <1>2, <1>4, <1>7, <1>8, <1>9 DEF JobsInv, HoldsInv
<1>25. BodyInv'
    <2>1. \A i \in Job : Ran(i) => Ran(i)'
        BY <1>1, <1>2 DEF Ran, Cancelled
    <2>2. \A i \in Job :
            /\ bodies'[i] \in {0, 1}
            /\ i > dispatched' => bodies'[i] = 0 /\ ~state'[i].done
            /\ \A p \in 0..2 : InQueue(p, i)' => bodies'[i] = 0
            /\ state'[i].done => Ran(i)'
        BY <2>1, <1>2, <1>4, <1>7 DEF JobsInv, BodyInv
    <2>3. \A d \in Caller : Queuing(d)' => bodies'[call'[d].job] = 0
        BY <1>2, <1>9 DEF JobsInv, BodyInv
    <2>4. ASSUME NEW w \in Worker
          PROVE  /\ worker'[w].pc = "taken" => bodies'[worker'[w].job] = 0
                 /\ worker'[w].pc \in {"body", "latch", "latchNotify"} => bodies'[worker'[w].job] = 1
                 /\ worker'[w].pc \in {"post", "done"} => Ran(worker[w].job)'
        <3>1. CASE Busy(w)
            BY <3>1, <2>1, <1>1, <1>2, <1>8, <1>6 DEF JobsInv, BodyInv
        <3>2. CASE ~Busy(w)
            BY <3>2, <1>8 DEF IdlePc
        <3>3. QED
            BY <3>1, <3>2
    <2>5. QED
        BY <2>2, <2>3, <2>4, <1>8 DEF BodyInv
<1>26. CompletionInv'
    <2>1. \A i \in Job : Posted(i)' <=> Posted(i)
        BY <1>1, <1>2, <1>8 DEF Posted, Busy, IdlePc
    <2>2. QED
        BY <2>1, <1>1, <1>2 DEF JobsInv, CompletionInv
<1>27. QED
    BY <1>21, <1>22, <1>23, <1>24, <1>25, <1>26 DEF JobsInv
-----------------------------------------------------------------------------
(* The worker loop.                                                        *)

\* A worker takes the first job of a queue.
LEMMA TakeQueue ==
    ASSUME TypeOK, QueueInv, NEW w \in Worker, WorkerTake(w)
    PROVE  \E j \in Job, p \in 0..2 :
             /\ InQueue(p, j)
             /\ worker' = [worker EXCEPT ![w] = [pc |-> "taken", job |-> j]]
             /\ \A q \in 0..2 : /\ pool'.queues[q] \in Seq(Job) /\ IsInjective(pool'.queues[q])
                                /\ \A i : InQueue(q, i)' <=> InQueue(q, i) /\ ~(q = p /\ i = j)
<1>1. PICK p \in 0..2 :
        /\ pool.queues[p] # << >>
        /\ worker' = [worker EXCEPT ![w] = [pc |-> "taken", job |-> Head(pool.queues[p])]]
        /\ pool' = [pool EXCEPT !.queues[p] = Tail(@)]
    BY DEF WorkerTake
<1>2. \A q \in 0..2 : pool.queues[q] \in Seq(Job) /\ IsInjective(pool.queues[q])
    BY TypeFacts DEF QueueInv
<1>3. pool'.queues[p] = Tail(pool.queues[p])
    BY <1>1 DEF TypeOK
<1>4. \A q \in 0..2 : q # p => pool'.queues[q] = pool.queues[q]
    BY <1>1 DEF TypeOK
<1> DEFINE j == Head(pool.queues[p])
<1>5. /\ j \in Job /\ j \in Range(pool.queues[p])
      /\ pool'.queues[p] \in Seq(Job) /\ IsInjective(pool'.queues[p])
      /\ Range(pool'.queues[p]) = Range(pool.queues[p]) \ {j}
    <2> DEFINE s == pool.queues[p]
    <2>1. s \in Seq(Job) /\ IsInjective(s) /\ s # << >>
        BY <1>1, <1>2
    <2> HIDE DEF s
    <2>2. /\ Tail(s) \in Seq(Job) /\ Head(s) \in Job /\ Head(s) \in Range(s)
          /\ IsInjective(Tail(s)) /\ Range(Tail(s)) = Range(s) \ {Head(s)}
        BY <2>1, RangeTail
    <2>3. QED
        BY <1>3, <2>2, Zenon DEF s
<1> HIDE DEF j
<1>6. \A q \in 0..2 : /\ pool'.queues[q] \in Seq(Job) /\ IsInjective(pool'.queues[q])
                      /\ \A i : InQueue(q, i)' <=> InQueue(q, i) /\ ~(q = p /\ i = j)
    BY <1>2, <1>4, <1>5 DEF InQueue
<1>7. QED
    BY <1>1, <1>5, <1>6 DEF InQueue, j

LEMMA TakeStep ==
    ASSUME TypeOK, CallInv, JobsInv, NEW w \in Worker, WorkerTake(w)
    PROVE  JobsInv'
<1> DEFINE Jobs == 1..dispatched
<1>1. /\ \A v \in Worker : worker[v].pc \in Pc /\ worker[v].job \in Handle
      /\ dispatched \in Nat /\ chunks \subseteq Jobs /\ \A i \in Jobs : i \in Job
      /\ \A i \in Job : i \in Handle
      /\ Combined \in Handle
    BY TypeFacts
<1>2. /\ dispatched' = dispatched /\ chunks' = chunks /\ Jobs' = Jobs /\ call' = call
      /\ state' = state /\ bodies' = bodies /\ tasks' = tasks /\ completed' = completed
    BY DEF WorkerTake
<1>3. PICK j \in Job, p \in 0..2 :
             /\ InQueue(p, j)
             /\ worker' = [worker EXCEPT ![w] = [pc |-> "taken", job |-> j]]
             /\ \A q \in 0..2 : /\ pool'.queues[q] \in Seq(Job) /\ IsInjective(pool'.queues[q])
                                /\ \A i : InQueue(q, i)' <=> InQueue(q, i) /\ ~(q = p /\ i = j)
    BY TakeQueue DEF JobsInv
<1>4. /\ j \in Jobs /\ ~state[j].done /\ bodies[j] = 0
      /\ \A q \in 0..2 : ~InQueue(q, j)'
      /\ \A d \in Caller : Queuing(d) => call[d].job # j
      /\ \A v \in Worker : Holds(v) => worker[v].job # j
    <2>1. j <= dispatched /\ ~state[j].done /\ bodies[j] = 0
        BY <1>3 DEF JobsInv, BodyInv, QueueInv
    <2>2. j \in Jobs
        BY <2>1, <1>1 DEF Job
    <2>3. \A q \in 0..2 : ~InQueue(q, j)'
        BY <1>3 DEF JobsInv, QueueInv
    <2>4. \A d \in Caller : Queuing(d) => call[d].job # j
        BY <1>3 DEF JobsInv, QueuingInv
    <2>5. \A v \in Worker : Holds(v) => worker[v].job # j
        BY <1>3 DEF JobsInv, HoldsInv
    <2>6. QED
        BY <2>1, <2>2, <2>3, <2>4, <2>5
<1>5. \A d \in Caller : (Queuing(d)' <=> Queuing(d)) /\ (Queuing(d) => call[d].job \in Jobs)
    BY <1>2 DEF CallInv, Queuing
<1>6. \A v \in Worker : Busy(v) => worker[v].job \in Jobs
    BY DEF JobsInv, WorkerInv
<1>7. worker'[w].pc = "taken" /\ worker'[w].job = j /\ Busy(w)' /\ Holds(w)'
    BY <1>3 DEF TypeOK, Busy, Holds, IdlePc
<1>8. \A v \in Worker : v # w => /\ worker'[v] = worker[v]
                                 /\ Busy(v)' <=> Busy(v)
                                 /\ Holds(v)' <=> Holds(v)
    BY <1>3 DEF TypeOK, Busy, Holds
<1>9. worker[w].pc = "loop" /\ ~Busy(w)
    BY DEF WorkerTake, Busy, IdlePc
<1> HIDE DEF Jobs
<1>21. WorkerInv'
    BY <1>1, <1>2, <1>4, <1>6, <1>7, <1>8 DEF JobsInv, WorkerInv, Jobs
<1>22. QueueInv'
    BY <1>1, <1>2, <1>3 DEF JobsInv, QueueInv
<1>23. QueuingInv'
    BY <1>2, <1>3, <1>5 DEF JobsInv, QueuingInv
<1>24. HoldsInv'
    <2>1. \A v \in Worker, q \in 0..2 : Holds(v)' => ~InQueue(q, worker[v].job)'
        BY <1>3, <1>4, <1>7, <1>8 DEF JobsInv, HoldsInv
    <2>2. QED
        BY <2>1, <1>2, <1>4, <1>5, <1>7, <1>8 DEF JobsInv, HoldsInv
<1>25. BodyInv'
    <2>1. \A i \in Job : Ran(i) => Ran(i)'
        BY <1>1, <1>2 DEF Ran, Cancelled
    <2>2. \A i \in Job :
            /\ bodies'[i] \in {0, 1}
            /\ i > dispatched' => bodies'[i] = 0 /\ ~state'[i].done
            /\ \A q \in 0..2 : InQueue(q, i)' => bodies'[i] = 0
            /\ state'[i].done => Ran(i)'
        BY <2>1, <1>2, <1>3 DEF JobsInv, BodyInv
    <2>3. \A d \in Caller : Queuing(d)' => bodies'[call'[d].job] = 0
        BY <1>2, <1>5 DEF JobsInv, BodyInv
    <2>4. ASSUME NEW v \in Worker
          PROVE  /\ worker'[v].pc = "taken" => bodies'[worker'[v].job] = 0
                 /\ worker'[v].pc \in {"body", "latch", "latchNotify"} => bodies'[worker'[v].job] = 1
                 /\ worker'[v].pc \in {"post", "done"} => Ran(worker[v].job)'
        <3>1. CASE v # w
            BY <3>1, <2>1, <1>1, <1>2, <1>8, <1>6 DEF JobsInv, BodyInv, Busy, IdlePc
        <3>2. CASE v = w
            BY <3>2, <1>2, <1>4, <1>7
        <3>3. QED
            BY <3>1, <3>2
    <2>5. QED
        BY <2>2, <2>3, <2>4, <1>7, <1>8 DEF BodyInv
<1>26. CompletionInv'
    <2>1. \A i \in Job : Posted(i)' <=> Posted(i)
        BY <1>1, <1>2, <1>7, <1>8, <1>9 DEF Posted
    <2>2. QED
        BY <2>1, <1>1, <1>2 DEF JobsInv, CompletionInv
<1>27. QED
    BY <1>21, <1>22, <1>23, <1>24, <1>25, <1>26 DEF JobsInv

\* A worker that holds a job goes on with it to x.
Advance(w, x) ==
    /\ Holds(w) /\ x \in Pc \ (IdlePc \cup {"taken"})
    /\ worker' = [worker EXCEPT ![w].pc = x]
    /\ UNCHANGED << pool, dispatched, chunks, call >>
    /\ \A h \in Handle : state'[h].cancelled = state[h].cancelled
    /\ \A j \in Job : state'[j].done <=> state[j].done \/ (x = "notify" /\ j = worker[w].job)
    /\ \A j \in Job : j # worker[w].job => bodies'[j] = bodies[j]
    /\ bodies'[worker[w].job] \in {0, 1}
    /\ x \in {"latch", "latchNotify"} => worker[w].job \in chunks
    /\ x \in {"body", "latch", "latchNotify"} => bodies'[worker[w].job] = 1
    /\ x \in {"post", "done", "notify"} => Ran(worker[w].job)'

LEMMA AdvanceStep ==
    ASSUME TypeOK, CallInv, JobsInv, NEW w \in Worker, NEW x, Advance(w, x)
    PROVE  WorkerInv' /\ QueueInv' /\ QueuingInv' /\ HoldsInv' /\ BodyInv'
<1> DEFINE Jobs == 1..dispatched
           j == worker[w].job
<1>1. /\ \A v \in Worker : worker[v].pc \in Pc /\ worker[v].job \in Handle
      /\ dispatched \in Nat /\ chunks \subseteq Jobs /\ \A i \in Jobs : i \in Job
      /\ \A i \in Job : i \in Handle
      /\ Combined \in Handle
    BY TypeFacts
<1>2. /\ dispatched' = dispatched /\ chunks' = chunks /\ Jobs' = Jobs /\ call' = call
      /\ \A q \in 0..2 : pool'.queues[q] = pool.queues[q]
      /\ \A q, i : InQueue(q, i)' <=> InQueue(q, i)
    BY DEF Advance, InQueue
<1>3. \A d \in Caller : (Queuing(d)' <=> Queuing(d)) /\ (Queuing(d) => call[d].job \in Jobs)
    BY <1>2 DEF CallInv, Queuing
<1>4. \A v \in Worker : Busy(v) => worker[v].job \in Jobs
    BY DEF JobsInv, WorkerInv
<1>5. /\ Busy(w) /\ Holds(w) /\ j \in Jobs /\ ~state[j].done
      /\ \A q \in 0..2 : ~InQueue(q, j)
      /\ \A d \in Caller : Queuing(d) => call[d].job # j
      /\ \A v \in Worker : Holds(v) /\ v # w => worker[v].job # j
    BY <1>4 DEF JobsInv, HoldsInv, Advance, Holds
<1>6. \A v \in Worker : Busy(v) /\ v # w => worker[v].job # j
    BY <1>5 DEF JobsInv, WorkerInv, Holds
<1>7. /\ worker'[w].pc = x /\ worker'[w].job = j /\ x \in Pc /\ x \notin IdlePc /\ x # "taken"
      /\ \A v \in Worker : v # w => worker'[v] = worker[v]
    BY DEF Advance, TypeOK
<1>8. /\ Busy(w)' /\ (Holds(w)' <=> x # "notify")
      /\ \A v \in Worker : v # w => (Busy(v)' <=> Busy(v)) /\ (Holds(v)' <=> Holds(v))
    BY <1>7 DEF Busy, Holds
<1>9. /\ \A i \in Job : state'[i].done <=> state[i].done \/ (x = "notify" /\ i = j)
      /\ \A i \in Job : i # j => bodies'[i] = bodies[i]
      /\ \A i \in Job : i # j => (Ran(i)' <=> Ran(i))
    BY <1>1, <1>2 DEF Advance, Ran, Cancelled
<1>10. /\ x \in {"latch", "latchNotify"} => j \in chunks
       /\ x \in {"body", "latch", "latchNotify"} => bodies'[j] = 1
       /\ x \in {"post", "done", "notify"} => Ran(j)'
       /\ bodies'[j] \in {0, 1}
    BY DEF Advance
<1> HIDE DEF Jobs, j
<1>21. WorkerInv'
    <2> SUFFICES ASSUME NEW v \in Worker
                 PROVE  /\ ~Busy(v)' => worker'[v].job = Combined
                        /\ Busy(v)' => worker'[v].job \in Jobs'
                        /\ worker'[v].pc \in {"latch", "latchNotify"} => worker'[v].job \in chunks'
                        /\ worker'[v].pc = "notify" => state'[worker'[v].job].done
        BY DEF WorkerInv, Jobs
    <2>1. CASE v = w
        BY <2>1, <1>1, <1>2, <1>5, <1>7, <1>8, <1>9, <1>10
    <2>2. CASE v # w
        BY <2>2, <1>1, <1>2, <1>4, <1>7, <1>8, <1>9 DEF JobsInv, WorkerInv, Busy, IdlePc
    <2>3. QED
        BY <2>1, <2>2
<1>22. QueueInv'
    BY <1>1, <1>2, <1>5, <1>9 DEF JobsInv, QueueInv
<1>23. QueuingInv'
    BY <1>1, <1>2, <1>3, <1>5, <1>9 DEF JobsInv, QueuingInv
<1>24. HoldsInv'
    <2>1. \A v \in Worker : Holds(v)' => Holds(v) /\ worker'[v].job = worker[v].job
        BY <1>5, <1>7, <1>8 DEF j
    <2>2. \A v \in Worker : Holds(v)' => ~state'[worker'[v].job].done
        BY <1>1, <1>4, <1>5, <1>7, <1>8, <1>9 DEF JobsInv, HoldsInv, Holds
    <2>3. QED
        BY <2>1, <2>2, <1>2, <1>3 DEF JobsInv, HoldsInv
<1>25. BodyInv'
    <2>1. \A i \in Job :
            /\ bodies'[i] \in {0, 1}
            /\ i > dispatched' => bodies'[i] = 0 /\ ~state'[i].done
            /\ \A q \in 0..2 : InQueue(q, i)' => bodies'[i] = 0
            /\ state'[i].done => Ran(i)'
        <3> SUFFICES ASSUME NEW i \in Job
                     PROVE  /\ bodies'[i] \in {0, 1}
                            /\ i > dispatched' => bodies'[i] = 0 /\ ~state'[i].done
                            /\ \A q \in 0..2 : InQueue(q, i)' => bodies'[i] = 0
                            /\ state'[i].done => Ran(i)'
            OBVIOUS
        <3>1. CASE i = j
            <4>1. ~(j > dispatched)
                BY <1>1, <1>5 DEF Jobs
            <4>2. j' = j
                BY <1>7 DEF j
            <4>3. QED
                BY <3>1, <4>1, <4>2, <1>1, <1>2, <1>5, <1>9, <1>10
        <3>2. CASE i # j
            BY <3>2, <1>2, <1>9 DEF JobsInv, BodyInv
        <3>3. QED
            BY <3>1, <3>2
    <2>2. \A d \in Caller : Queuing(d)' => bodies'[call'[d].job] = 0
        BY <1>1, <1>2, <1>3, <1>5, <1>9 DEF JobsInv, BodyInv
    <2>3. ASSUME NEW v \in Worker
          PROVE  /\ worker'[v].pc = "taken" => bodies'[worker'[v].job] = 0
                 /\ worker'[v].pc \in {"body", "latch", "latchNotify"} => bodies'[worker'[v].job] = 1
                 /\ worker'[v].pc \in {"post", "done"} => Ran(worker[v].job)'
        <3>1. CASE v # w
            BY <3>1, <1>1, <1>4, <1>6, <1>7, <1>9 DEF JobsInv, BodyInv, Busy, IdlePc
        <3>2. CASE v = w
            BY <3>2, <1>7, <1>10 DEF j
        <3>3. QED
            BY <3>1, <3>2
    <2>4. \A v \in Worker : worker'[v].job = worker[v].job
        BY <1>7 DEF j
    <2>5. QED
        BY <2>1, <2>2, <2>3, <2>4 DEF BodyInv
<1>26. QED
    BY <1>21, <1>22, <1>23, <1>24, <1>25

LEMMA SamePosted ==
    ASSUME CompletionInv, \A j \in Job : Posted(j)' <=> Posted(j),
           UNCHANGED << tasks, completed, chunks >>
    PROVE  CompletionInv'
BY DEF CompletionInv

\* A step of one worker that neither is, nor takes it to, the end of a job.
LEMMA SamePostedByPc ==
    ASSUME TypeOK, NEW w \in Worker, NEW x \in Pc \ {"done"}, worker[w].pc # "done",
           worker' = [worker EXCEPT ![w].pc = x],
           \A j \in Job : state'[j].done = state[j].done
    PROVE  \A j \in Job : Posted(j)' <=> Posted(j)
<1>1. \A v \in Worker : /\ worker'[v].job = worker[v].job
                        /\ worker'[v].pc = "done" <=> worker[v].pc = "done"
    BY TypeFacts, OneWorker
<1>2. QED
    BY <1>1 DEF Posted

LEMMA HeldJob ==
    ASSUME TypeOK, JobsInv, NEW w \in Worker, Holds(w)
    PROVE  /\ worker[w].job \in Job /\ worker[w].job \in Handle
           /\ ~state[worker[w].job].done
BY TypeFacts DEF JobsInv, WorkerInv, HoldsInv, Holds

LEMMA StartStep ==
    ASSUME TypeOK, CallInv, JobsInv, NEW w \in Worker, WorkerStart(w)
    PROVE  JobsInv'
<1> DEFINE j == worker[w].job
<1>1. worker[w].pc = "taken" /\ Holds(w)
    BY DEF WorkerStart, Holds, Busy, IdlePc
<1>2. j \in Job /\ bodies[j] = 0
    BY <1>1, HeldJob DEF JobsInv, BodyInv
<1>3. bodies \in [Job -> Nat]
    BY DEF TypeOK
<1>4. /\ UNCHANGED << pool, dispatched, chunks, call, state, tasks, completed >>
      /\ j' = j
    BY OneWorker, TypeFacts DEF WorkerStart, Pc
<1>5. PICK x \in {"post", "body"} :
        /\ worker' = [worker EXCEPT ![w].pc = x]
        /\ x = "post" => Cancelled(j) /\ bodies' = bodies
        /\ x = "body" => bodies' = [bodies EXCEPT ![j] = @ + 1]
    BY DEF WorkerStart
<1> HIDE DEF j
<1>6. /\ \A i \in Job : i # j => bodies'[i] = bodies[i]
      /\ x = "post" => bodies'[j] = 0 /\ Cancelled(j)'
      /\ x = "body" => bodies'[j] = 1
    BY <1>2, <1>3, <1>4, <1>5 DEF Cancelled
<1>7. Advance(w, x)
    BY <1>1, <1>2, <1>4, <1>5, <1>6 DEF Advance, Ran, Pc, IdlePc, j
<1>8. CompletionInv'
    BY <1>1, <1>4, <1>5, SamePosted, SamePostedByPc DEF JobsInv, Pc
<1>9. QED
    BY <1>7, <1>8, AdvanceStep DEF JobsInv

LEMMA BodyEndStep ==
    ASSUME TypeOK, CallInv, JobsInv, NEW w \in Worker, BodyReturns(w) \/ BodyThrows(w)
    PROVE  JobsInv'
<1>1. worker[w].pc = "body" /\ Holds(w)
    BY DEF BodyReturns, BodyThrows, Holds, Busy, IdlePc
<1>2. worker[w].job \in Job /\ bodies[worker[w].job] = 1
    BY <1>1, HeldJob DEF JobsInv, BodyInv
<1>3. UNCHANGED << pool, dispatched, chunks, call, state, tasks, completed, bodies >>
    BY DEF BodyReturns, BodyThrows
<1>4. PICK x \in {"post", "latch"} :
        /\ worker' = [worker EXCEPT ![w].pc = x]
        /\ x = "latch" => worker[w].job \in chunks
    BY DEF BodyReturns, BodyThrows
<1>5. worker'[w].job = worker[w].job
    BY <1>4, OneWorker, TypeFacts DEF Pc
<1>6. Advance(w, x)
    BY <1>1, <1>2, <1>3, <1>4, <1>5 DEF Advance, Ran, Pc, IdlePc
<1>7. CompletionInv'
    BY <1>1, <1>3, <1>4, SamePosted, SamePostedByPc DEF JobsInv, Pc
<1>8. QED
    BY <1>6, <1>7, AdvanceStep DEF JobsInv

LEMMA PostStep ==
    ASSUME TypeOK, CallInv, JobsInv, NEW w \in Worker, PostCompletion(w)
    PROVE  JobsInv'
<1> DEFINE j == worker[w].job
<1>1. worker[w].pc = "post" /\ Holds(w)
    BY DEF PostCompletion, Holds, Busy, IdlePc
<1>2. j \in Job /\ ~state[j].done /\ Ran(j) /\ bodies[j] \in {0, 1}
    BY <1>1, HeldJob DEF JobsInv, BodyInv
<1>3. UNCHANGED << pool, dispatched, chunks, call, state, completed, bodies >>
    BY DEF PostCompletion
<1>4. worker' = [worker EXCEPT ![w].pc = "done"]
    BY DEF PostCompletion
<1>5. /\ worker'[w].job = j /\ worker'[w].pc = "done"
      /\ \A v \in Worker : worker'[v].job = worker[v].job
      /\ \A v \in Worker : v # w => worker'[v].pc = worker[v].pc
    BY <1>4, OneWorker, TypeFacts DEF Pc
<1>6. Advance(w, "done")
    BY <1>1, <1>2, <1>3, <1>4, <1>5 DEF Advance, Ran, Cancelled, Pc, IdlePc
<1>7. CompletionInv'
    <2>1. \A v \in Worker : worker[v].pc = "done" => Holds(v)
        BY DEF Holds, Busy, IdlePc
    <2>2. ~Posted(j)
        BY <2>1, <1>1, <1>2 DEF Posted, JobsInv, HoldsInv
    <2>3. Posted(j)'
        BY <1>5 DEF Posted
    <2>4. \A i \in Job : i # j => (Posted(i)' <=> Posted(i))
        BY <1>3, <1>5 DEF Posted
    <2>5. j' = j
        BY <1>5
    <2> HIDE DEF j
    <2>6. CASE j \in chunks
        <3>1. tasks' = tasks
            BY <2>6 DEF PostCompletion, j
        <3>2. QED
            BY <2>2, <2>3, <2>4, <2>5, <2>6, <3>1, <1>3 DEF JobsInv, CompletionInv
    <2>7. CASE j \notin chunks
        <3>1. tasks' = Append(tasks, j)
            BY <2>7 DEF PostCompletion, j
        <3>2. j \notin Range(tasks) /\ completed[j] = 0
            BY <2>2, <1>2 DEF JobsInv, CompletionInv
        <3>3. IsInjective(tasks') /\ Range(tasks') = Range(tasks) \cup {j}
            BY <3>1, <3>2, <1>2, TypeFacts, RangeAppend DEF JobsInv, CompletionInv
        <3>4. QED
            BY <2>2, <2>3, <2>4, <2>5, <2>7, <3>2, <3>3, <1>2, <1>3 DEF JobsInv, CompletionInv
    <2>8. QED
        BY <2>6, <2>7
<1>8. QED
    BY <1>6, <1>7, AdvanceStep DEF JobsInv

LEMMA DoneStep ==
    ASSUME TypeOK, CallInv, JobsInv, NEW w \in Worker, StoreDone(w)
    PROVE  JobsInv'
<1> DEFINE j == worker[w].job
<1>1. UNCHANGED << pool, dispatched, chunks, call, completed, bodies, tasks >>
    BY DEF StoreDone
<1>2. state \in [Handle -> [done : BOOLEAN, cancelled : BOOLEAN]]
    BY DEF TypeOK
<1>3. CASE /\ worker[w].pc = "done"
           /\ state' = [state EXCEPT ![worker[w].job].done = TRUE]
           /\ worker' = [worker EXCEPT ![w].pc = "notify"]
    <2>1. Holds(w)
        BY <1>3 DEF Holds, Busy, IdlePc
    <2>2. j \in Job /\ j \in Handle /\ Ran(j) /\ bodies[j] \in {0, 1}
        BY <1>3, <2>1, HeldJob DEF JobsInv, BodyInv
    <2>3. /\ state'[j].done /\ \A h \in Handle : h # j => state'[h].done = state[h].done
          /\ \A h \in Handle : state'[h].cancelled = state[h].cancelled
        BY <1>2, <1>3, <2>2
    <2>4. /\ worker'[w].job = j /\ worker'[w].pc = "notify"
          /\ \A v \in Worker : worker'[v].job = worker[v].job
          /\ \A v \in Worker : v # w => worker'[v].pc = worker[v].pc
        BY <1>3, OneWorker, TypeFacts DEF Pc
    <2>5. j' = j
        BY <2>4
    <2> HIDE DEF j
    <2>6. Ran(j)'
        <3>1. j \in chunks \/ j \notin chunks
            OBVIOUS
        <3>2. QED
            BY <1>1, <2>2, <2>3, <2>5, TypeFacts DEF Ran, Cancelled
    <2>7. \A i \in Job : state'[i].done <=> state[i].done \/ i = j
        BY <2>2, <2>3, TypeFacts
    <2>8. Advance(w, "notify")
        BY <1>1, <1>3, <2>1, <2>2, <2>3, <2>5, <2>6, <2>7 DEF Advance, Pc, IdlePc, j
    <2>9. \A i \in Job : Posted(i)' <=> Posted(i)
        BY <1>3, <2>4, <2>7 DEF Posted, j
    <2>10. QED
        BY <1>1, <2>8, <2>9, AdvanceStep, SamePosted DEF JobsInv
<1>4. CASE /\ worker[w].pc = "latch"
           /\ state' = [state EXCEPT ![Combined].done = TRUE]
           /\ worker' = [worker EXCEPT ![w].pc = "latchNotify"]
    <2>1. Holds(w)
        BY <1>4 DEF Holds, Busy, IdlePc
    <2>2. j \in Job /\ j \in chunks /\ bodies[j] = 1
        BY <1>4, <2>1, HeldJob DEF JobsInv, BodyInv, WorkerInv
    <2>3. /\ \A i \in Job : state'[i].done = state[i].done
          /\ \A h \in Handle : state'[h].cancelled = state[h].cancelled
        BY <1>2, <1>4, TypeFacts
    <2>4. Advance(w, "latchNotify")
        BY <1>1, <1>4, <2>1, <2>2, <2>3 DEF Advance, Pc, IdlePc
    <2>5. \A i \in Job : Posted(i)' <=> Posted(i)
        BY <1>4, <2>3, SamePostedByPc DEF Pc
    <2>6. QED
        BY <1>1, <2>4, <2>5, AdvanceStep, SamePosted DEF JobsInv
<1>5. QED
    BY <1>3, <1>4 DEF StoreDone

LEMMA NotifyStep ==
    ASSUME TypeOK, CallInv, JobsInv, NEW w \in Worker, NotifyWaiters(w)
    PROVE  JobsInv'
<1>1. UNCHANGED << pool, state, dispatched, chunks, bodies, tasks, completed, call >>
    BY DEF NotifyWaiters
<1>2. CASE worker[w].pc = "notify" /\ worker' = [worker EXCEPT ![w] = [pc |-> "loop", job |-> Combined]]
    <2> DEFINE Jobs == 1..dispatched
    <2>1. /\ worker'[w].pc = "loop" /\ worker'[w].job = Combined
          /\ \A v \in Worker : v # w => worker'[v] = worker[v]
        BY <1>2 DEF TypeOK
    <2>2. /\ ~Busy(w)' /\ ~Holds(w)' /\ ~Holds(w)
          /\ \A v \in Worker : v # w => (Busy(v)' <=> Busy(v)) /\ (Holds(v)' <=> Holds(v))
        BY <1>2, <2>1 DEF Busy, Holds, IdlePc
    <2>3. \A q, j : InQueue(q, j)' <=> InQueue(q, j)
        BY <1>1 DEF InQueue
    <2>4. \A c \in Caller : Queuing(c)' <=> Queuing(c)
        BY <1>1 DEF Queuing
    <2>5. WorkerInv'
        BY <1>1, <2>1, <2>2 DEF JobsInv, WorkerInv
    <2>6. QueueInv' /\ QueuingInv'
        BY <1>1, <2>3, <2>4 DEF JobsInv, QueueInv, QueuingInv
    <2>7. HoldsInv'
        BY <1>1, <2>1, <2>2, <2>3, <2>4 DEF JobsInv, HoldsInv
    <2>8. BodyInv'
        <3>1. \A j : Ran(j)' <=> Ran(j)
            BY <1>1 DEF Ran, Cancelled
        <3>2. ASSUME NEW v \in Worker
              PROVE  /\ worker'[v].pc = "taken" => bodies'[worker'[v].job] = 0
                     /\ worker'[v].pc \in {"body", "latch", "latchNotify"} => bodies'[worker'[v].job] = 1
                     /\ worker'[v].pc \in {"post", "done"} => Ran(worker[v].job)'
            BY <1>1, <2>1, <3>1 DEF JobsInv, BodyInv, Ran, Cancelled
        <3>3. QED
            BY <1>1, <2>3, <2>4, <3>1, <3>2 DEF JobsInv, BodyInv
    <2>9. \A j \in Job : Posted(j)' <=> Posted(j)
        BY <1>1, <1>2, <2>1 DEF Posted
    <2>10. QED
        BY <1>1, <2>5, <2>6, <2>7, <2>8, <2>9, SamePosted DEF JobsInv
<1>3. CASE worker[w].pc = "latchNotify" /\ worker' = [worker EXCEPT ![w].pc = "post"]
    <2>1. Holds(w)
        BY <1>3 DEF Holds, Busy, IdlePc
    <2>2. worker[w].job \in Job /\ bodies[worker[w].job] = 1
        BY <1>3, <2>1, HeldJob DEF JobsInv, BodyInv
    <2>3. worker'[w].job = worker[w].job
        BY <1>3, OneWorker, TypeFacts DEF Pc
    <2>4. Advance(w, "post")
        BY <1>1, <1>3, <2>1, <2>2, <2>3 DEF Advance, Ran, Pc, IdlePc
    <2>5. \A i \in Job : Posted(i)' <=> Posted(i)
        BY <1>1, <1>3, SamePostedByPc DEF Pc
    <2>6. QED
        BY <1>1, <2>4, <2>5, AdvanceStep, SamePosted DEF JobsInv
<1>4. QED
    BY <1>2, <1>3 DEF NotifyWaiters

\* What a completion changes: the first task has run.
LEMMA TaskEffect ==
    ASSUME TypeOK, JobsInv, RunTask
    PROVE  \E j \in Job :
             /\ j \in Range(tasks) /\ IsInjective(tasks') /\ tasks' \in Seq(Job)
             /\ Range(tasks') = Range(tasks) \ {j}
             /\ completed' = [completed EXCEPT ![j] = 1]
             /\ handles' = handles \ {j}
<1>1. tasks \in Seq(Job) /\ tasks # << >> /\ tasks' = Tail(tasks)
    BY TypeFacts DEF RunTask
<1>2. /\ Head(tasks) \in Job /\ Head(tasks) \in Range(tasks)
      /\ IsInjective(tasks') /\ tasks' \in Seq(Job)
      /\ Range(tasks') = Range(tasks) \ {Head(tasks)}
    BY <1>1, RangeTail DEF JobsInv, CompletionInv
<1>3. completed[Head(tasks)] = 0
    BY <1>2 DEF JobsInv, CompletionInv
<1>4. completed' = [completed EXCEPT ![Head(tasks)] = 1]
    BY <1>2, <1>3 DEF RunTask
<1>5. QED
    BY <1>2, <1>4 DEF RunTask

LEMMA TaskStep ==
    ASSUME TypeOK, CallInv, JobsInv, RunTask
    PROVE  JobsInv'
<1>1. UNCHANGED << pool, worker, state, dispatched, chunks, bodies, call >>
    BY DEF RunTask
<1>2. CompletionInv'
    <2>1. PICK j \in Job :
             /\ j \in Range(tasks) /\ IsInjective(tasks')
             /\ Range(tasks') = Range(tasks) \ {j}
             /\ completed' = [completed EXCEPT ![j] = 1]
        BY TaskEffect
    <2>2. completed'[j] = 1 /\ \A i \in Job : i # j => completed'[i] = completed[i]
        BY <2>1 DEF TypeOK
    <2>3. \A i \in Job : Posted(i)' <=> Posted(i)
        BY <1>1 DEF Posted
    <2>4. QED
        BY <1>1, <2>1, <2>2, <2>3 DEF JobsInv, CompletionInv
<1>3. WorkerInv' /\ QueueInv' /\ QueuingInv' /\ HoldsInv'
    BY <1>1 DEF JobsInv, WorkerInv, QueueInv, QueuingInv, HoldsInv, Busy, Holds, InQueue, Queuing
<1>4. BodyInv'
    BY <1>1 DEF JobsInv, BodyInv, InQueue, Queuing, Ran, Cancelled
<1>5. QED
    BY <1>2, <1>3, <1>4 DEF JobsInv
-----------------------------------------------------------------------------
(* Every step.                                                             *)

LEMMA Initially == Init => IInv
<1> SUFFICES ASSUME Init
             PROVE  IInv
    OBVIOUS
<1>1. /\ \A p \in 0..2 : pool.queues[p] = << >>
      /\ \A p \in 0..2 : \A j : ~InQueue(p, j)
      /\ \A c \in Caller : call[c].step = "none" /\ call[c].job = Combined /\ ~Queuing(c)
      /\ \A w \in Worker : worker[w].pc = "none" /\ worker[w].job = Combined
      /\ \A w \in Worker : ~Busy(w) /\ ~Holds(w)
      /\ \A h \in Handle : ~state[h].done
      /\ dispatched = 0 /\ chunks = {} /\ tasks = << >>
      /\ \A j \in Job : bodies[j] = 0 /\ completed[j] = 0
    BY RangeEmpty DEF Init, InQueue, Queuing, Busy, Holds, IdlePc, NoCall
<1>2. TypeOK
    <2>1. pool \in [queues : [0..2 -> Seq(Job)], stopping : BOOLEAN, initialized : BOOLEAN,
                    workers : SUBSET Worker]
        BY RangeEmpty DEF Init
    <2>2. /\ worker \in [Worker -> [pc : {"none", "loop", "asleep", "taken", "body", "latch",
                                          "latchNotify", "post", "done", "notify", "exited"},
                                    job : Handle]]
          /\ state \in [Handle -> [done : BOOLEAN, cancelled : BOOLEAN]]
        BY DEF Init, Handle
    <2>3. /\ dispatched \in 0..MaxJobs /\ chunks \subseteq 1..dispatched
          /\ remaining \in 0..NumChunks /\ handles \subseteq 1..dispatched
        BY DEF Init, PoolAssumption
    <2>4. bodies \in [Job -> Nat] /\ tasks \in Seq(Job) /\ completed \in [Job -> Nat]
        BY RangeEmpty DEF Init
    <2>5. main \in [pc : {"idle", "chunks", "wait", "lastDrain", "joinResize", "joinExit", "resize",
                          "drainAll", "exited"},
                    handle : Handle, chunksLeft : 0..NumChunks, joining : SUBSET Worker,
                    resizes : 0..MaxResizes]
        BY DEF Init, Handle, PoolAssumption
    <2>6. /\ call \in [Caller -> [step : {"none", "init", "push", "register"}, job : Handle,
                                  priority : 0..2]]
          /\ thread \in [Thread -> [pc : {"idle", "check", "checked", "asleep"}, handle : Handle]]
        BY DEF Init, Handle, NoCall, NoWait
    <2>7. QED
        BY <2>1, <2>2, <2>3, <2>4, <2>5, <2>6 DEF TypeOK
<1>3. WorkerInv /\ CallInv
    BY <1>1 DEF WorkerInv, CallInv
<1>4. QueueInv /\ QueuingInv /\ HoldsInv
    BY <1>1, RangeEmpty DEF QueueInv, QueuingInv, HoldsInv
<1>5. BodyInv
    BY <1>1 DEF BodyInv, Handle
<1>6. CompletionInv
    BY <1>1, RangeEmpty DEF CompletionInv, Posted, Handle
<1>7. LatchInv
    <2>1. Counted = {} /\ Cardinality({}) = 0 /\ NumChunks \in Nat
        BY <1>1, FS_EmptySet DEF Counted, PoolAssumption
    <2>2. /\ main.chunksLeft = NumChunks /\ main.pc = "idle" /\ remaining = NumChunks
        BY DEF Init
    <2>3. QED
        BY <1>1, <2>1, <2>2 DEF LatchInv, Handle
<1>8. WaitInv
    BY DEF WaitInv, Init
<1>9. QED
    BY <1>2, <1>3, <1>4, <1>5, <1>6, <1>7, <1>8 DEF IInv

\* Nothing happens to a job when a call starts the pool or registers a handle ...
LEMMA CallIsCalm ==
    ASSUME TypeOK, CallInv, NEW c \in Caller, DispatchInit(c) \/ Register(c)
    PROVE  Calm
<1>1. IdleMoves
    BY TypeFacts, InitPoolMoves DEF DispatchInit, Register, IdleMoves
<1>2. \A p \in 0..2 : pool'.queues[p] = pool.queues[p]
    BY DEF DispatchInit, Register, InitPool, TypeOK
<1>3. \A d \in Caller : (Queuing(d)' <=> Queuing(d)) /\ (Queuing(d) => call'[d].job = call[d].job)
    <2>1. call \in [Caller -> [step : {"none", "init", "push", "register"}, job : Handle,
                               priority : 0..2]]
        BY DEF TypeOK
    <2>2. CASE call[c].step = "init" /\ call' = [call EXCEPT ![c].step = "push"]
        BY <2>1, <2>2 DEF Queuing
    <2>3. CASE call[c].step = "register" /\ call' = [call EXCEPT ![c] = NoCall]
        BY <2>1, <2>3 DEF Queuing, NoCall
    <2>4. QED
        BY <2>2, <2>3 DEF DispatchInit, Register
<1>4. UNCHANGED << state, dispatched, chunks, remaining, bodies, tasks, completed >>
    BY DEF DispatchInit, Register
<1>5. QED
    BY <1>1, <1>2, <1>3, <1>4 DEF Calm

\* ... nor when a worker without a job stops or goes to sleep ...
LEMMA IdleIsCalm ==
    ASSUME TypeOK, NEW w \in Worker, WorkerExit(w) \/ WorkerSleep(w)
    PROVE  Calm
<1>1. IdleMoves
    BY TypeFacts, OneIdleMove DEF WorkerExit, WorkerSleep, IdlePc
<1>2. QED
    BY <1>1 DEF WorkerExit, WorkerSleep, Calm, Queuing

\* ... nor when one cancels it, or waits ...
LEMMA WaitingIsCalm ==
    ASSUME TypeOK, \/ \E c \in {Main} \cup Thread, h \in Handle : Cancel(c, h)
                   \/ \E t \in Thread : ThreadStep(t) \/ \E h \in Handle : ThreadWait(t, h)
                   \/ \E h \in Handle : MainWait(h)
                   \/ ParallelFor \/ MainSeesDone \/ MainWaitReturns \/ Exit
                   \/ UNCHANGED vars
    PROVE  Calm
<1>1. UNCHANGED << pool, worker, dispatched, chunks, remaining, bodies, tasks, completed, call >>
    BY DEF Cancel, ThreadStep, ThreadCheck, ThreadSleep, ThreadWait, MainWait, ParallelFor,
           MainSeesDone, MainWaitReturns, Exit, vars
<1>2. \A h \in Handle : /\ state'[h].done = state[h].done
                        /\ state[h].cancelled => state'[h].cancelled
    <2>1. CASE \E c \in {Main} \cup Thread, h \in Handle : Cancel(c, h)
        BY <2>1 DEF Cancel, TypeOK
    <2>2. CASE state' = state
        BY <2>2
    <2>3. QED
        BY <2>1, <2>2
           DEF ThreadStep, ThreadCheck, ThreadSleep, ThreadWait, MainWait, ParallelFor,
               MainSeesDone, MainWaitReturns, Exit, vars
<1>3. IdleMoves
    BY <1>1, TypeFacts DEF IdleMoves
<1>4. QED
    BY <1>1, <1>2, <1>3 DEF Calm, Queuing

\* ... nor when the pool starts or stops.
LEMMA PoolIsCalm ==
    ASSUME TypeOK, SubsystemInit \/ ResizeInit \/ Shutdown \/ Joined
    PROVE  Calm
<1>1. IdleMoves
    <2>1. CASE SubsystemInit \/ ResizeInit
        BY <2>1, TypeFacts, InitPoolMoves DEF SubsystemInit, ResizeInit
    <2>2. CASE Shutdown
        BY <2>2, TypeFacts, NotifyAllMoves DEF Shutdown
    <2>3. CASE Joined
        <3>1. /\ \A w \in main.joining : worker[w].pc = "exited"
              /\ worker' = [w \in Worker |-> IF w \in main.joining
                                             THEN [worker[w] EXCEPT !.pc = "none"] ELSE worker[w]]
            BY <2>3 DEF Joined
        <3>2. \A w \in Worker :
                /\ worker[w] \in WorkerState
                /\ w \in main.joining => worker'[w] = [worker[w] EXCEPT !.pc = "none"]
                /\ w \notin main.joining => worker'[w] = worker[w]
            BY <3>1, TypeFacts
        <3>3. \A w \in Worker :
                /\ worker'[w] \in WorkerState /\ worker'[w].job = worker[w].job
                /\ w \in main.joining => worker'[w].pc = "none"
            <4> SUFFICES ASSUME NEW w \in Worker
                         PROVE  /\ worker'[w] \in WorkerState /\ worker'[w].job = worker[w].job
                                /\ w \in main.joining => worker'[w].pc = "none"
                OBVIOUS
            <4>1. CASE w \in main.joining
                <5>1. worker[w] \in WorkerState /\ worker'[w] = [worker[w] EXCEPT !.pc = "none"]
                    BY <3>2, <4>1
                <5>2. QED
                    BY <5>1 DEF WorkerState, Pc
            <4>2. CASE w \notin main.joining
                BY <3>2, <4>2
            <4>3. QED
                BY <4>1, <4>2
        <3>4. worker' \in [Worker -> WorkerState]
            BY <3>1, <3>3
        <3>5. QED
            BY <3>1, <3>2, <3>3, <3>4 DEF IdleMoves, IdlePc
    <2>4. QED
        BY <2>1, <2>2, <2>3
<1>2. \A p \in 0..2 : pool'.queues[p] = pool.queues[p] \/ pool'.queues[p] = << >>
    <2>1. CASE InitPool
        BY <2>1 DEF InitPool, TypeOK
    <2>2. CASE Shutdown
        BY <2>2 DEF Shutdown, TypeOK
    <2>3. CASE pool' = [pool EXCEPT !.queues = [p \in 0..2 |-> << >>]]
        BY <2>3 DEF TypeOK
    <2>4. QED
        BY <2>1, <2>2, <2>3 DEF SubsystemInit, ResizeInit, Joined
<1>3. UNCHANGED << state, dispatched, chunks, remaining, bodies, tasks, completed, call >>
    BY DEF SubsystemInit, ResizeInit, Shutdown, Joined
<1>4. QED
    BY <1>1, <1>2, <1>3 DEF Calm, Queuing

\* Sys_JobSubmit and parallel_for make one new job.
LEMMA EnterDispatches ==
    ASSUME TypeOK, JobsInv, NEW c \in Caller, call[c].step = "none", NEW j \in Job,
           j = dispatched + 1, dispatched' = j, NEW p \in 0..2, NEW after,
           after.step \in {"none", "register"}, Enter(c, j, p, after),
           chunks \subseteq chunks' /\ chunks' \subseteq chunks \cup {j},
           UNCHANGED << state, remaining, bodies, tasks, completed >>
    PROVE  Dispatches(c, j)
<1>1. call \in [Caller -> [step : {"none", "init", "push", "register"}, job : Handle,
                           priority : 0..2]]
    BY DEF TypeOK
<1>2. ~Queuing(c)
    BY DEF Queuing
<1>3. CASE PushItem(j, p) /\ call' = [call EXCEPT ![c] = after]
    <2>1. call'[c] = after /\ \A d \in Caller : d # c => call'[d] = call[d]
        BY <1>1, <1>3
    <2>2. \A d \in Caller : Queuing(d)' <=> Queuing(d)
        BY <2>1, <1>2 DEF Queuing
    <2>3. QED
        BY <2>1, <2>2, <1>2, <1>3 DEF Dispatches, DispatchesTo
<1>4. CASE /\ call' = [call EXCEPT ![c] = [step |-> "init", job |-> j, priority |-> p]]
           /\ UNCHANGED << pool, worker >>
    <2>1. /\ call'[c].step = "init" /\ call'[c].job = j
          /\ \A d \in Caller : d # c => call'[d] = call[d]
        BY <1>1, <1>4
    <2>2. \A d \in Caller : Queuing(d)' <=> Queuing(d) \/ d = c
        BY <2>1 DEF Queuing
    <2>3. QED
        BY <2>1, <2>2, <1>2, <1>4 DEF Dispatches, DispatchesTo
<1>5. QED
    BY <1>3, <1>4 DEF Enter

\* The next job is a possible one.
LEMMA NextJob ==
    ASSUME TypeOK, dispatched < MaxJobs
    PROVE  /\ dispatched + 1 \in Job /\ dispatched + 1 \in Handle
           /\ dispatched + 1 \in 1..(dispatched + 1) /\ dispatched + 1 \notin chunks
           /\ 1..dispatched \subseteq 1..(dispatched + 1)
<1>1. /\ dispatched \in Nat /\ MaxJobs \in Nat /\ chunks \subseteq 1..dispatched
      /\ \A j \in Job : j \in Handle
    BY TypeFacts DEF PoolAssumption
<1>2. dispatched + 1 \in Job
    BY <1>1 DEF Job
<1>3. dispatched + 1 \in 1..(dispatched + 1) /\ dispatched + 1 \notin 1..dispatched
    BY <1>1
<1>4. 1..dispatched \subseteq 1..(dispatched + 1)
    BY <1>1
<1>5. QED
    BY <1>1, <1>2, <1>3, <1>4

LEMMA DispatchDispatches ==
    ASSUME TypeOK, JobsInv, NEW c \in Caller, Dispatch(c)
    PROVE  Dispatches(c, dispatched + 1)
<1>1. PICK p \in Priorities :
        Enter(c, dispatched + 1, p,
              [step |-> "register", job |-> dispatched + 1, priority |-> p])
    BY DEF Dispatch
<1>2. p \in 0..2
    BY DEF PoolAssumption
<1>3. /\ call[c].step = "none" /\ dispatched < MaxJobs /\ dispatched' = dispatched + 1
      /\ chunks' = chunks /\ UNCHANGED << state, remaining, bodies, tasks, completed >>
    BY DEF Dispatch, Free
<1>4. [step |-> "register", job |-> dispatched + 1, priority |-> p].step \in {"none", "register"}
    OBVIOUS
<1>5. QED
    BY <1>1, <1>2, <1>3, <1>4, NextJob, EnterDispatches

LEMMA ChunkDispatches ==
    ASSUME TypeOK, JobsInv, DispatchChunk
    PROVE  Dispatches(Main, dispatched + 1)
<1>1. Enter(Main, dispatched + 1, 1, NoCall) /\ NoCall.step \in {"none", "register"}
    BY DEF DispatchChunk, NoCall
<1>2. /\ call[Main].step = "none" /\ dispatched < MaxJobs /\ dispatched' = dispatched + 1
      /\ chunks' = chunks \cup {dispatched + 1}
      /\ UNCHANGED << state, remaining, bodies, tasks, completed >>
    BY DEF DispatchChunk
<1>3. Main \in Caller /\ 1 \in 0..2
    BY DEF Caller
<1>4. QED
    BY <1>1, <1>2, <1>3, NextJob, EnterDispatches

\* Next, by what it does to the jobs.
LEMMA StepKinds ==
    ASSUME TypeOK, CallInv, JobsInv, [Next]_vars
    PROVE  \/ Calm \/ RunTask
           \/ \E c \in Caller : Dispatches(c, dispatched + 1) \/ DispatchPush(c)
           \/ \E w \in Worker : \/ WorkerTake(w) \/ WorkerStart(w)
                                \/ BodyReturns(w) \/ BodyThrows(w)
                                \/ PostCompletion(w) \/ StoreDone(w) \/ NotifyWaiters(w)
<1>1. ASSUME NEW c \in Caller, Dispatch(c) \/ CallStep(c)
      PROVE  Calm \/ \E d \in Caller : Dispatches(d, dispatched + 1) \/ DispatchPush(d)
    BY <1>1, DispatchDispatches, CallIsCalm DEF CallStep
<1>2. ASSUME NEW w \in Worker, WorkerStep(w)
      PROVE  Calm \/ \E v \in Worker : \/ WorkerTake(v) \/ WorkerStart(v)
                                       \/ BodyReturns(v) \/ BodyThrows(v)
                                       \/ PostCompletion(v) \/ StoreDone(v) \/ NotifyWaiters(v)
    BY <1>2, IdleIsCalm DEF WorkerStep
<1>3. CASE MainStep
    BY <1>3, ChunkDispatches, WaitingIsCalm, PoolIsCalm DEF MainStep, Caller
<1>4. CASE SubsystemInit \/ Shutdown
    BY <1>4, PoolIsCalm
<1>5. CASE \/ \E c \in {Main} \cup Thread, h \in Handle : Cancel(c, h)
           \/ \E t \in Thread : ThreadStep(t) \/ \E h \in Handle : ThreadWait(t, h)
           \/ \E h \in Handle : MainWait(h)
           \/ ParallelFor \/ UNCHANGED vars
    BY <1>5, WaitingIsCalm
<1>6. QED
    BY <1>1, <1>2, <1>3, <1>4, <1>5 DEF Next

LEMMA JobsStep ==
    ASSUME TypeOK, CallInv, JobsInv, [Next]_vars
    PROVE  JobsInv'
BY StepKinds, CalmStep, TaskStep, DispatchStep, PushStep, TakeStep, StartStep, BodyEndStep,
   PostStep, DoneStep, NotifyStep
-----------------------------------------------------------------------------
(* Calls and waits.                                                        *)

LEMMA DoneGrows ==
    ASSUME TypeOK, JobsInv, [Next]_vars, NEW h \in Handle, state[h].done
    PROVE  state'[h].done
<1>1. CASE state' = state
    BY <1>1
<1>2. CASE \E c \in {Main} \cup Thread, g \in Handle : Cancel(c, g)
    BY <1>2 DEF Cancel, TypeOK
<1>3. CASE \E w \in Worker : StoreDone(w)
    <2>1. PICK g \in Handle : state' = [state EXCEPT ![g].done = TRUE]
        BY <1>3, TypeFacts DEF StoreDone
    <2>2. QED
        BY <2>1 DEF TypeOK
<1>4. QED
    BY <1>1, <1>2, <1>3
       DEF Next, vars, CallStep, WorkerStep, ThreadStep, MainStep, Dispatch, DispatchInit,
           DispatchPush, Register, WorkerExit, WorkerTake, WorkerSleep, WorkerStart, BodyReturns,
           BodyThrows, PostCompletion, NotifyWaiters, ThreadCheck, ThreadSleep, ThreadWait,
           ParallelFor, SubsystemInit, Shutdown, MainWait, DispatchChunk, RunTask, MainSeesDone,
           MainWaitReturns, Joined, ResizeInit, Exit

\* Only dispatching changes which jobs there are, and calls.
LEMMA JobsGrow ==
    ASSUME TypeOK, [Next]_vars
    PROVE  \/ /\ dispatched' = dispatched /\ chunks' = chunks
              /\ \/ call' = call
                 \/ \E c \in Caller : DispatchInit(c) \/ DispatchPush(c) \/ Register(c)
           \/ \E c \in Caller : Dispatch(c)
           \/ DispatchChunk
BY DEF Next, vars, CallStep, WorkerStep, ThreadStep, MainStep, Cancel, StoreDone,
       WorkerExit, WorkerTake, WorkerSleep, WorkerStart, BodyReturns,
       BodyThrows, PostCompletion, NotifyWaiters, ThreadCheck, ThreadSleep, ThreadWait,
       ParallelFor, SubsystemInit, Shutdown, MainWait, RunTask, MainSeesDone,
       MainWaitReturns, Joined, ResizeInit, Exit, DispatchInit, DispatchPush, Register

LEMMA CallInvStep ==
    ASSUME TypeOK, CallInv, JobsInv, [Next]_vars
    PROVE  CallInv'
<1>0. call \in [Caller -> [step : {"none", "init", "push", "register"}, job : Handle,
                           priority : 0..2]]
    BY DEF TypeOK
<1>1. CASE dispatched' = dispatched /\ chunks' = chunks /\ call' = call
    BY <1>1 DEF CallInv
<1>2. CASE /\ dispatched' = dispatched /\ chunks' = chunks
           /\ \E c \in Caller : DispatchInit(c) \/ DispatchPush(c) \/ Register(c)
    <2>1. PICK c \in Caller : DispatchInit(c) \/ DispatchPush(c) \/ Register(c)
        BY <1>2
    <2>2. \/ call' = [call EXCEPT ![c].step = "push"] /\ call[c].step = "init"
          \/ call' = [call EXCEPT ![c] = NoCall]
          \/ /\ call' = [call EXCEPT ![c] = [@ EXCEPT !.step = "register"]]
             /\ call[c].step = "push" /\ call[c].job \notin chunks
        BY <2>1 DEF DispatchInit, DispatchPush, Register
    <2>3. \A d \in Caller : d # c => call'[d] = call[d]
        BY <1>0, <2>2
    <2>4. /\ call'[c].step = "none" => call'[c].job = Combined
          /\ call'[c].step # "none" => call'[c].job \in 1..dispatched
          /\ call'[c].step = "register" => call'[c].job \notin chunks
        BY <1>0, <2>2 DEF CallInv, NoCall
    <2>5. QED
        BY <1>2, <2>3, <2>4 DEF CallInv
<1>3. CASE \E c \in Caller : Dispatch(c)
    <2>1. PICK c \in Caller, p \in Priorities :
            /\ dispatched' = dispatched + 1 /\ chunks' = chunks /\ dispatched < MaxJobs
            /\ Enter(c, dispatched + 1, p,
                     [step |-> "register", job |-> dispatched + 1, priority |-> p])
        BY <1>3 DEF Dispatch
    <2>2. /\ \A d \in Caller : d # c => call'[d] = call[d]
          /\ call'[c].step \in {"register", "init"} /\ call'[c].job = dispatched + 1
        BY <1>0, <2>1 DEF Enter
    <2>3. dispatched + 1 \notin chunks /\ dispatched + 1 \in 1..(dispatched + 1)
          /\ 1..dispatched \subseteq 1..(dispatched + 1)
        BY <2>1, NextJob
    <2>4. QED
        BY <2>1, <2>2, <2>3 DEF CallInv
<1>4. CASE DispatchChunk
    <2>1. /\ dispatched' = dispatched + 1 /\ chunks' = chunks \cup {dispatched + 1}
          /\ dispatched < MaxJobs /\ Enter(Main, dispatched + 1, 1, NoCall)
        BY <1>4 DEF DispatchChunk
    <2>2. /\ \A d \in Caller : d # Main => call'[d] = call[d]
          /\ \/ call'[Main].step = "init" /\ call'[Main].job = dispatched + 1
             \/ call'[Main].step = "none" /\ call'[Main].job = Combined
        BY <1>0, <2>1 DEF Enter, NoCall, Caller
    <2>3. dispatched + 1 \notin 1..dispatched /\ dispatched + 1 \in 1..(dispatched + 1)
          /\ 1..dispatched \subseteq 1..(dispatched + 1)
        BY <2>1, NextJob, TypeFacts
    <2>4. QED
        BY <2>1, <2>2, <2>3 DEF CallInv
<1>5. QED
    BY <1>1, <1>2, <1>3, <1>4, JobsGrow

\* The main thread waits for what it could name, and stops waiting when that is done.
LEMMA WaitInvStep ==
    ASSUME TypeOK, JobsInv, WaitInv, [Next]_vars
    PROVE  WaitInv'
<1>0. main \in [pc : {"idle", "chunks", "wait", "lastDrain", "joinResize", "joinExit", "resize",
                      "drainAll", "exited"},
                handle : Handle, chunksLeft : 0..NumChunks, joining : SUBSET Worker,
                resizes : 0..MaxResizes]
    BY DEF TypeOK
<1>1. /\ \A h \in Handle : state[h].done => state'[h].done
      /\ main.handle \in Handle
    BY DoneGrows, TypeFacts
<1>2. CASE main' = main /\ ~DispatchChunk
    <2>1. CASE dispatched' = dispatched /\ chunks' = chunks
        BY <1>1, <1>2, <2>1 DEF WaitInv
    <2>2. CASE \E c \in Caller : Dispatch(c)
        <3>1. dispatched' = dispatched + 1 /\ chunks' = chunks
            BY <2>2 DEF Dispatch
        <3>2. \A h \in Handle : h <= dispatched => h <= dispatched + 1
            BY TypeFacts DEF Handle, Job, Combined
        <3>3. QED
            BY <1>1, <1>2, <3>1, <3>2 DEF WaitInv
    <2>3. QED
        BY <1>2, <2>1, <2>2, JobsGrow
<1>3. CASE \E h \in Handle : MainWait(h)
    <2>1. PICK h \in Handle : MainWait(h)
        BY <1>3
    <2>2. main'.pc = "wait" /\ main'.handle = h
        BY <1>0, <2>1 DEF MainWait
    <2>3. h # Combined => h <= dispatched /\ h \notin chunks
        BY <2>1 DEF MainWait, Held
    <2>4. dispatched' = dispatched /\ chunks' = chunks
        BY <2>1 DEF MainWait
    <2>5. QED
        BY <2>2, <2>3, <2>4 DEF WaitInv
<1>4. CASE MainSeesDone
    <2>1. main'.pc = "lastDrain" /\ main'.handle = main.handle
        BY <1>0, <1>4 DEF MainSeesDone
    <2>2. UNCHANGED << dispatched, chunks, state >> /\ main.pc = "wait" /\ state[main.handle].done
        BY <1>4 DEF MainSeesDone
    <2>3. QED
        BY <2>1, <2>2 DEF WaitInv
<1>5. CASE main'.pc \notin {"wait", "lastDrain"}
    BY <1>5 DEF WaitInv
<1>6. \/ main' = main /\ ~DispatchChunk
      \/ \E h \in Handle : MainWait(h)
      \/ MainSeesDone
      \/ main'.pc \notin {"wait", "lastDrain"}
    <2>1. ParallelFor \/ DispatchChunk \/ MainWaitReturns \/ Shutdown \/ Joined \/ ResizeInit \/ Exit
          => main'.pc \notin {"wait", "lastDrain"}
        <3>1. ParallelFor \/ MainWaitReturns \/ ResizeInit \/ Exit
              => main'.pc \notin {"wait", "lastDrain"}
            BY <1>0 DEF ParallelFor, MainWaitReturns, ResizeInit, Exit
        <3>2. Shutdown => main'.pc \notin {"wait", "lastDrain"}
            <4>1. Shutdown =>
                    \/ main' = [main EXCEPT !.pc = "joinResize", !.joining = pool.workers,
                                            !.resizes = @ + 1]
                    \/ main' = [main EXCEPT !.pc = "joinExit", !.joining = pool.workers]
                BY DEF Shutdown
            <4>2. QED
                BY <1>0, <4>1
        <3>3. Joined => main'.pc \notin {"wait", "lastDrain"}
            BY <1>0 DEF Joined
        <3>4. DispatchChunk => main'.pc \notin {"wait", "lastDrain"}
            BY <1>0 DEF DispatchChunk
        <3>5. QED
            BY <3>1, <3>2, <3>3, <3>4
    <2>2. QED
        BY <2>1
           DEF Next, vars, CallStep, WorkerStep, ThreadStep, MainStep, Cancel, StoreDone,
               WorkerExit, WorkerTake, WorkerSleep, WorkerStart, BodyReturns,
               BodyThrows, PostCompletion, NotifyWaiters, ThreadCheck, ThreadSleep, ThreadWait,
               SubsystemInit, RunTask, DispatchInit, DispatchPush, Register, Dispatch
<1>7. QED
    BY <1>2, <1>3, <1>4, <1>5, <1>6
-----------------------------------------------------------------------------
(* The latch of parallel_for.                                              *)

LEMMA ChunksFinite ==
    ASSUME TypeOK
    PROVE  /\ IsFiniteSet(chunks) /\ Cardinality(chunks) \in Nat
           /\ Counted \subseteq chunks /\ IsFiniteSet(Counted) /\ Cardinality(Counted) \in Nat
           /\ Cardinality(Counted) <= Cardinality(chunks)
<1>1. chunks \subseteq 1..dispatched /\ dispatched \in Nat
    BY TypeFacts
<1>2. IsFiniteSet(1..dispatched)
    BY <1>1, FS_Interval
<1>3. IsFiniteSet(chunks)
    BY <1>1, <1>2, FS_Subset
<1>4. Counted \subseteq chunks
    BY DEF Counted
<1>5. QED
    BY <1>3, <1>4, FS_Subset, FS_CardinalityType

\* While the body of a chunk runs, the latch has not been counted down to zero.
LEMMA ChunkInBody ==
    ASSUME TypeOK, JobsInv, LatchInv, NEW j \in chunks, InBody(j)
    PROVE  /\ remaining >= 1 /\ ~state[Combined].done
           /\ \A w \in Worker : worker[w].pc \notin {"latch", "latchNotify"}
<1>1. j \notin Counted
    BY DEF Counted
<1>2. Counted \subseteq chunks \ {j}
    BY <1>1, ChunksFinite
<1>3. IsFiniteSet(chunks \ {j}) /\ Cardinality(chunks \ {j}) = Cardinality(chunks) - 1
    BY ChunksFinite, FS_RemoveElement
<1>4. Cardinality(Counted) <= Cardinality(chunks) - 1
    BY <1>2, <1>3, FS_Subset
<1>5. remaining >= 1
    BY <1>4, ChunksFinite, TypeFacts DEF LatchInv, PoolAssumption
<1>6. QED
    BY <1>5, TypeFacts DEF LatchInv

\* What keeps LatchInv: no chunk that was counted goes back into its body.
LEMMA LatchKept ==
    ASSUME TypeOK, JobsInv, LatchInv,
           IsFiniteSet(Counted'), Counted \subseteq Counted', remaining' = remaining,
           \/ chunks' = chunks /\ main'.chunksLeft = main.chunksLeft
           \/ /\ dispatched < MaxJobs /\ chunks' = chunks \cup {dispatched + 1}
              /\ main'.chunksLeft = main.chunksLeft - 1,
           main'.pc = "chunks" => main'.chunksLeft > 0,
           state'[Combined].done => remaining = 0,
           \A w \in Worker : worker'[w].pc \in {"latch", "latchNotify"} => remaining = 0
    PROVE  LatchInv'
<1>1. Cardinality(Counted) \in Nat /\ Cardinality(Counted') \in Nat
      /\ Cardinality(Counted) <= Cardinality(Counted')
    BY ChunksFinite, FS_Subset, FS_CardinalityType
<1>2. Cardinality(chunks') + main'.chunksLeft = NumChunks
    <2>1. CASE chunks' = chunks /\ main'.chunksLeft = main.chunksLeft
        BY <2>1 DEF LatchInv
    <2>2. CASE /\ dispatched < MaxJobs /\ chunks' = chunks \cup {dispatched + 1}
               /\ main'.chunksLeft = main.chunksLeft - 1
        <3>1. Cardinality(chunks') = Cardinality(chunks) + 1
            BY <2>2, NextJob, ChunksFinite, FS_AddElement
        <3>2. Cardinality(chunks) \in Nat /\ main.chunksLeft \in Nat
            BY ChunksFinite, TypeFacts
        <3>3. QED
            BY <2>2, <3>1, <3>2 DEF LatchInv
    <2>3. QED
        BY <2>1, <2>2
<1>3. NumChunks <= remaining' + Cardinality(Counted')
    BY <1>1, TypeFacts DEF LatchInv, PoolAssumption
<1>4. QED
    BY <1>2, <1>3 DEF LatchInv

LEMMA CountedKept ==
    ASSUME TypeOK, \A j \in chunks : bodies[j] = 1 => bodies'[j] = 1,
           \A j \in chunks : bodies[j] = 1 /\ InBody(j)' => InBody(j), chunks \subseteq chunks'
    PROVE  Counted \subseteq Counted'
BY DEF Counted

\* Who is in a body or at the latch after a step of one worker.
LEMMA OneWorkerBodies ==
    ASSUME worker \in [Worker -> WorkerState], NEW w \in Worker, NEW x \in WorkerState,
           x.pc \notin {"body", "latch", "latchNotify"}, worker' = [worker EXCEPT ![w] = x]
    PROVE  /\ \A j : InBody(j)' => InBody(j)
           /\ \A v \in Worker : worker'[v].pc \in {"latch", "latchNotify"}
                                => worker'[v].pc = worker[v].pc
<1>1. worker'[w] = x /\ \A v \in Worker : v # w => worker'[v] = worker[v]
    OBVIOUS
<1>2. QED
    BY <1>1 DEF InBody

LEMMA OneWorkerPc ==
    ASSUME worker \in [Worker -> WorkerState], NEW w \in Worker, NEW x \in Pc,
           x \notin {"body", "latch", "latchNotify"}, worker' = [worker EXCEPT ![w].pc = x]
    PROVE  /\ \A j : InBody(j)' => InBody(j)
           /\ \A v \in Worker : worker'[v].pc \in {"latch", "latchNotify"}
                                => worker'[v].pc = worker[v].pc
BY OneWorker DEF InBody

LEMMA IdleBodies ==
    ASSUME IdleMoves
    PROVE  /\ \A j : InBody(j)' => InBody(j)
           /\ \A v \in Worker : worker'[v].pc \in {"latch", "latchNotify"}
                                => worker'[v].pc = worker[v].pc
BY DEF IdleMoves, IdlePc, InBody

\* A step that leaves the latch alone: no chunk enters its body again.
Uncounted ==
    /\ remaining' = remaining
    /\ \A j \in chunks : bodies[j] = 1 => bodies'[j] = 1
    /\ \A j \in chunks : bodies[j] = 1 /\ InBody(j)' => InBody(j)
    /\ state'[Combined].done => remaining = 0
    /\ \A w \in Worker : worker'[w].pc \in {"latch", "latchNotify"} => remaining = 0

LEMMA QuietUncounted ==
    ASSUME LatchInv, remaining' = remaining, bodies' = bodies,
           state'[Combined].done = state[Combined].done,
           \A j : InBody(j)' => InBody(j),
           \A v \in Worker : worker'[v].pc \in {"latch", "latchNotify"}
                             => worker'[v].pc = worker[v].pc
    PROVE  Uncounted
BY DEF Uncounted, LatchInv

LEMMA StartUncounted ==
    ASSUME TypeOK, JobsInv, LatchInv, NEW w \in Worker, WorkerStart(w)
    PROVE  Uncounted
<1> DEFINE j == worker[w].job
<1>0. worker \in [Worker -> WorkerState] /\ bodies \in [Job -> Nat] /\ \A i \in chunks : i \in Job
    BY TypeFacts DEF TypeOK
<1>1. worker[w].pc = "taken" /\ Holds(w)
    BY DEF WorkerStart, Holds, Busy, IdlePc
<1>2. j \in Job /\ bodies[j] = 0
    BY <1>1, HeldJob DEF JobsInv, BodyInv
<1>3. remaining' = remaining /\ state' = state
    BY DEF WorkerStart
<1>4. PICK x \in {"post", "body"} :
        /\ worker' = [worker EXCEPT ![w].pc = x]
        /\ bodies' = bodies \/ bodies' = [bodies EXCEPT ![j] = @ + 1]
    BY DEF WorkerStart
<1>5. /\ \A v \in Worker : worker'[v].job = worker[v].job
      /\ worker'[w].pc = x
      /\ \A v \in Worker : v # w => worker'[v].pc = worker[v].pc
    BY <1>0, <1>4, OneWorker DEF Pc
<1>6. \A i \in Job : i # j => bodies'[i] = bodies[i] /\ (InBody(i)' => InBody(i))
    BY <1>0, <1>2, <1>4, <1>5 DEF InBody
<1> HIDE DEF j
<1>7. \A v \in Worker : worker'[v].pc \in {"latch", "latchNotify"} => worker'[v].pc = worker[v].pc
    BY <1>5
<1>8. QED
    BY <1>0, <1>2, <1>3, <1>6, <1>7 DEF Uncounted, LatchInv

LEMMA DoneUncounted ==
    ASSUME TypeOK, JobsInv, LatchInv, NEW w \in Worker, StoreDone(w)
    PROVE  Uncounted
<1>0. worker \in [Worker -> WorkerState] /\ Combined \in Handle /\ Combined \notin Job
    BY TypeFacts
<1>1. remaining' = remaining /\ bodies' = bodies
    BY DEF StoreDone
<1>2. CASE /\ worker[w].pc = "done"
           /\ state' = [state EXCEPT ![worker[w].job].done = TRUE]
           /\ worker' = [worker EXCEPT ![w].pc = "notify"]
    <2>1. worker[w].job \in Job
        BY <1>2, HeldJob DEF Holds, Busy, IdlePc
    <2>2. state'[Combined].done = state[Combined].done
        BY <1>0, <1>2, <2>1 DEF TypeOK
    <2>3. /\ \A j : InBody(j)' => InBody(j)
          /\ \A v \in Worker : worker'[v].pc \in {"latch", "latchNotify"}
                               => worker'[v].pc = worker[v].pc
        BY <1>0, <1>2, OneWorkerPc DEF Pc
    <2>4. QED
        BY <1>1, <2>2, <2>3, QuietUncounted
<1>3. CASE worker[w].pc = "latch" /\ worker' = [worker EXCEPT ![w].pc = "latchNotify"]
    <2>1. remaining = 0
        BY <1>3 DEF LatchInv
    <2>2. \A j : InBody(j)' => InBody(j)
        BY <1>0, <1>3, OneWorker DEF InBody, Pc
    <2>3. QED
        BY <1>1, <2>1, <2>2 DEF Uncounted
<1>4. QED
    BY <1>2, <1>3 DEF StoreDone

LEMMA NotifyUncounted ==
    ASSUME TypeOK, JobsInv, LatchInv, NEW w \in Worker, NotifyWaiters(w)
    PROVE  Uncounted
<1>0. worker \in [Worker -> WorkerState] /\ Combined \in Handle
    BY TypeFacts
<1>1. [pc |-> "loop", job |-> Combined] \in WorkerState
    BY <1>0 DEF WorkerState, Pc
<1>2. UNCHANGED << remaining, bodies, state >>
    BY DEF NotifyWaiters
<1>3. \/ worker' = [worker EXCEPT ![w] = [pc |-> "loop", job |-> Combined]]
      \/ worker' = [worker EXCEPT ![w].pc = "post"]
    BY DEF NotifyWaiters
<1>4. /\ \A j : InBody(j)' => InBody(j)
      /\ \A v \in Worker : worker'[v].pc \in {"latch", "latchNotify"}
                           => worker'[v].pc = worker[v].pc
    <2>1. CASE worker' = [worker EXCEPT ![w] = [pc |-> "loop", job |-> Combined]]
        BY <1>0, <1>1, <2>1, OneWorkerBodies
    <2>2. CASE worker' = [worker EXCEPT ![w].pc = "post"]
        BY <1>0, <2>2, OneWorkerPc DEF Pc
    <2>3. QED
        BY <1>3, <2>1, <2>2
<1>5. QED
    BY <1>2, <1>4, QuietUncounted

\* Only the end of a chunk's body counts down.
LEMMA LatchSide ==
    ASSUME TypeOK, CallInv, JobsInv, LatchInv, [Next]_vars,
           \A w \in Worker : ~(BodyReturns(w) /\ worker[w].job \in chunks)
    PROVE  Uncounted
<1>0. worker \in [Worker -> WorkerState] /\ Combined \in Handle
    BY TypeFacts
<1>1. CASE Calm
    BY <1>0, <1>1, IdleBodies, QuietUncounted DEF Calm
<1>2. CASE RunTask
    <2>1. UNCHANGED << remaining, bodies, state, worker >>
        BY <1>2 DEF RunTask
    <2>2. QED
        BY <2>1, QuietUncounted DEF InBody
<1>3. ASSUME NEW c \in Caller, Dispatches(c, dispatched + 1) \/ DispatchPush(c)
      PROVE  Uncounted
    <2>1. IdleMoves
        <3>1. CASE worker' = worker
            BY <1>0, <3>1 DEF IdleMoves
        <3>2. CASE \E j, p : PushItem(j, p)
            BY <1>0, <3>2, NotifyOneMoves DEF PushItem
        <3>3. QED
            BY <1>3, <3>1, <3>2 DEF Dispatches, DispatchesTo, DispatchPush
    <2>2. UNCHANGED << remaining, bodies, state >>
        BY <1>3 DEF Dispatches, DispatchPush
    <2>3. QED
        BY <2>1, <2>2, IdleBodies, QuietUncounted
<1>4. ASSUME NEW w \in Worker, WorkerTake(w)
      PROVE  Uncounted
    <2>1. PICK j \in Job : worker' = [worker EXCEPT ![w] = [pc |-> "taken", job |-> j]]
        BY <1>4, TakeQueue DEF JobsInv
    <2>2. [pc |-> "taken", job |-> j] \in WorkerState
        BY TypeFacts DEF WorkerState, Pc
    <2>3. UNCHANGED << remaining, bodies, state >>
        BY <1>4 DEF WorkerTake
    <2>4. QED
        BY <1>0, <2>1, <2>2, <2>3, OneWorkerBodies, QuietUncounted
<1>5. ASSUME NEW w \in Worker, BodyReturns(w) \/ BodyThrows(w)
      PROVE  Uncounted
    <2>1. worker' = [worker EXCEPT ![w].pc = "post"] /\ UNCHANGED << remaining, bodies, state >>
        BY <1>5 DEF BodyReturns, BodyThrows
    <2>2. QED
        BY <1>0, <2>1, OneWorkerPc, QuietUncounted DEF Pc
<1>6. ASSUME NEW w \in Worker, PostCompletion(w)
      PROVE  Uncounted
    <2>1. worker' = [worker EXCEPT ![w].pc = "done"] /\ UNCHANGED << remaining, bodies, state >>
        BY <1>6 DEF PostCompletion
    <2>2. QED
        BY <1>0, <2>1, OneWorkerPc, QuietUncounted DEF Pc
<1>7. QED
    BY <1>1, <1>2, <1>3, <1>4, <1>5, <1>6, StepKinds, StartUncounted, DoneUncounted,
       NotifyUncounted

\* The body of a chunk returns: it counts from then on, and the latch is one less.
LEMMA CountDown ==
    ASSUME TypeOK, CallInv, JobsInv, LatchInv, NEW w \in Worker, BodyReturns(w),
           worker[w].job \in chunks
    PROVE  LatchInv' /\ remaining' \in 0..NumChunks
<1> DEFINE j == worker[w].job
<1>0. /\ worker \in [Worker -> WorkerState] /\ j \in chunks /\ remaining \in Nat
      /\ remaining <= NumChunks /\ NumChunks \in Nat
    BY TypeFacts DEF PoolAssumption
<1>1. worker[w].pc = "body" /\ Holds(w)
    BY DEF BodyReturns, Holds, Busy, IdlePc
<1>2. InBody(j) /\ j \notin Counted
    BY <1>1 DEF InBody, Counted
<1>3. /\ remaining >= 1 /\ ~state[Combined].done
      /\ \A v \in Worker : worker[v].pc \notin {"latch", "latchNotify"}
    BY <1>0, <1>2, ChunkInBody
<1>4. /\ UNCHANGED << state, chunks, bodies, main >> /\ remaining' = remaining - 1
      /\ worker' = [worker EXCEPT ![w].pc = IF remaining = 1 THEN "latch" ELSE "post"]
    BY DEF BodyReturns
<1>5. /\ \A v \in Worker : worker'[v].job = worker[v].job
      /\ worker'[w].pc = IF remaining = 1 THEN "latch" ELSE "post"
      /\ \A v \in Worker : v # w => worker'[v].pc = worker[v].pc
    BY <1>0, <1>4, OneWorker DEF Pc
<1>6. ~InBody(j)'
    <2>1. \A v \in Worker : worker[v].pc = "body" => Holds(v)
        BY DEF Holds, Busy, IdlePc
    <2>2. \A v \in Worker : worker[v].pc = "body" /\ worker[v].job = j => v = w
        BY <1>1, <2>1 DEF JobsInv, HoldsInv
    <2>3. j' = j
        BY <1>5
    <2> HIDE DEF j
    <2>4. QED
        BY <1>5, <2>2, <2>3 DEF InBody
<1>7. \A i : InBody(i)' => InBody(i)
    BY <1>5 DEF InBody
<1>8. bodies[j] = 1
    BY <1>1 DEF JobsInv, BodyInv
<1>9. Counted \cup {j} \subseteq Counted'
    <2>1. j' = j
        BY <1>5
    <2> HIDE DEF j
    <2>2. QED
        BY <1>0, <1>4, <1>6, <1>7, <1>8, <2>1 DEF Counted
<1> HIDE DEF j
<1>10. Cardinality(Counted \cup {j}) = Cardinality(Counted) + 1
    BY <1>2, ChunksFinite, FS_AddElement
<1>11. IsFiniteSet(Counted') /\ Counted' \subseteq chunks
    <2>1. Counted' \subseteq chunks
        BY <1>4 DEF Counted
    <2>2. QED
        BY <2>1, ChunksFinite, FS_Subset
<1>12. Cardinality(Counted) + 1 <= Cardinality(Counted') /\ Cardinality(Counted') \in Nat
    BY <1>9, <1>10, <1>11, FS_Subset, FS_CardinalityType
<1>13. NumChunks <= remaining' + Cardinality(Counted')
    BY <1>0, <1>4, <1>12, ChunksFinite DEF LatchInv
<1>14. \A v \in Worker : worker'[v].pc \in {"latch", "latchNotify"} => remaining' = 0
    BY <1>0, <1>3, <1>4, <1>5
<1>15. QED
    BY <1>0, <1>3, <1>4, <1>13, <1>14 DEF LatchInv

\* What a step does to the main thread's count of chunks to go.
LEMMA ChunksLeft ==
    ASSUME TypeOK, LatchInv, [Next]_vars
    PROVE  /\ \/ chunks' = chunks /\ main'.chunksLeft = main.chunksLeft
              \/ /\ dispatched < MaxJobs /\ chunks' = chunks \cup {dispatched + 1}
                 /\ main'.chunksLeft = main.chunksLeft - 1 /\ main.chunksLeft > 0
           /\ main'.pc = "chunks" => main'.chunksLeft > 0
<1>0. /\ main \in [pc : {"idle", "chunks", "wait", "lastDrain", "joinResize", "joinExit", "resize",
                         "drainAll", "exited"},
                   handle : Handle, chunksLeft : 0..NumChunks, joining : SUBSET Worker,
                   resizes : 0..MaxResizes]
      /\ main.chunksLeft \in Nat /\ main.pc = "chunks" => main.chunksLeft > 0
    BY TypeFacts DEF TypeOK, LatchInv
<1>1. CASE main' = main /\ chunks' = chunks
    BY <1>0, <1>1
<1>2. CASE DispatchChunk
    <2>1. /\ main.pc = "chunks" /\ dispatched < MaxJobs /\ chunks' = chunks \cup {dispatched + 1}
          /\ main' = [main EXCEPT !.chunksLeft = @ - 1,
                                  !.pc = IF main.chunksLeft = 1 THEN "idle" ELSE @]
        BY <1>2 DEF DispatchChunk
    <2>2. /\ main'.chunksLeft = main.chunksLeft - 1
          /\ main'.pc = IF main.chunksLeft = 1 THEN "idle" ELSE main.pc
        BY <1>0, <2>1
    <2>3. QED
        BY <1>0, <2>1, <2>2
<1>3. CASE ParallelFor
    <2>1. chunks = {} /\ chunks' = chunks /\ main'.chunksLeft = main.chunksLeft
        BY <1>0, <1>3 DEF ParallelFor
    <2>2. main.chunksLeft = NumChunks /\ NumChunks > 0
        <3>1. Cardinality(chunks) = 0
            BY <2>1, FS_EmptySet
        <3>2. QED
            BY <1>0, <3>1 DEF LatchInv, PoolAssumption
    <2>3. QED
        BY <2>1, <2>2
<1>4. CASE /\ chunks' = chunks
           /\ \/ \E h \in Handle : MainWait(h)
              \/ MainSeesDone \/ MainWaitReturns \/ Shutdown \/ Joined \/ ResizeInit \/ Exit
    <2>1. main'.chunksLeft = main.chunksLeft /\ main'.pc # "chunks"
        <3>1. CASE \/ \E h \in Handle : MainWait(h)
                   \/ MainSeesDone \/ MainWaitReturns \/ ResizeInit \/ Exit
            BY <1>0, <3>1 DEF MainWait, MainSeesDone, MainWaitReturns, ResizeInit, Exit
        <3>2. CASE \/ main' = [main EXCEPT !.pc = "joinResize", !.joining = pool.workers,
                                           !.resizes = @ + 1]
                   \/ main' = [main EXCEPT !.pc = "joinExit", !.joining = pool.workers]
            BY <1>0, <3>2
        <3>3. CASE main' = [main EXCEPT !.joining = {},
                                        !.pc = IF @ = "joinResize" THEN "resize" ELSE "drainAll"]
            BY <1>0, <3>3
        <3>4. QED
            BY <1>4, <3>1, <3>2, <3>3 DEF Shutdown, Joined
    <2>2. QED
        BY <1>4, <2>1
<1>5. QED
    BY <1>1, <1>2, <1>3, <1>4
       DEF Next, vars, CallStep, WorkerStep, ThreadStep, MainStep, Cancel, StoreDone,
           WorkerExit, WorkerTake, WorkerSleep, WorkerStart, BodyReturns,
           BodyThrows, PostCompletion, NotifyWaiters, ThreadCheck, ThreadSleep, ThreadWait,
           SubsystemInit, RunTask, DispatchInit, DispatchPush, Register, Dispatch,
           MainWait, MainSeesDone, MainWaitReturns, Shutdown, Joined, ResizeInit, Exit

LEMMA LatchInvStep ==
    ASSUME TypeOK, CallInv, JobsInv, LatchInv, [Next]_vars
    PROVE  LatchInv' /\ remaining' \in 0..NumChunks
<1>1. CASE \E w \in Worker : BodyReturns(w) /\ worker[w].job \in chunks
    BY <1>1, CountDown
<1>2. CASE \A w \in Worker : ~(BodyReturns(w) /\ worker[w].job \in chunks)
    <2>1. Uncounted
        BY <1>2, LatchSide
    <2>2. chunks \subseteq chunks' /\ IsFiniteSet(chunks')
        BY ChunksLeft, ChunksFinite, FS_AddElement
    <2>3. Counted \subseteq Counted'
        BY <2>1, <2>2, CountedKept DEF Uncounted
    <2>4. IsFiniteSet(Counted')
        <3>1. Counted' \subseteq chunks'
            BY DEF Counted
        <3>2. QED
            BY <2>2, <3>1, FS_Subset
    <2>5. LatchInv'
        BY <2>1, <2>3, <2>4, ChunksLeft, LatchKept DEF Uncounted
    <2>6. QED
        BY <2>1, <2>5 DEF Uncounted, TypeOK
<1>3. QED
    BY <1>1, <1>2
-----------------------------------------------------------------------------
(* Types.                                                                  *)

PoolState == [queues : [0..2 -> Seq(Job)], stopping : BOOLEAN, initialized : BOOLEAN,
              workers : SUBSET Worker]
MainState == [pc : {"idle", "chunks", "wait", "lastDrain", "joinResize", "joinExit", "resize",
                    "drainAll", "exited"},
              handle : Handle, chunksLeft : 0..NumChunks, joining : SUBSET Worker,
              resizes : 0..MaxResizes]
CallState == [step : {"none", "init", "push", "register"}, job : Handle, priority : 0..2]

LEMMA PushType ==
    ASSUME pool \in PoolState, NEW j \in Job, NEW p \in 0..2, PushItem(j, p)
    PROVE  pool' \in PoolState
<1>1. pool.queues[p] \in Seq(Job)
    BY DEF PoolState
<1>2. Append(pool.queues[p], j) \in Seq(Job)
    BY <1>1, AppendProperties
<1>3. QED
    BY <1>2 DEF PushItem, PoolState

LEMMA InitPoolType ==
    ASSUME pool \in PoolState, InitPool
    PROVE  pool' \in PoolState
<1>1. CASE pool' = pool
    BY <1>1
<1>2. CASE \E fresh \in SUBSET Worker :
              pool' = [pool EXCEPT !.stopping = FALSE, !.initialized = TRUE,
                                   !.workers = @ \cup fresh]
    <2>1. PICK fresh \in SUBSET Worker :
              pool' = [pool EXCEPT !.stopping = FALSE, !.initialized = TRUE,
                                   !.workers = @ \cup fresh]
        BY <1>2
    <2>2. pool.workers \cup fresh \in SUBSET Worker /\ pool.queues \in [0..2 -> Seq(Job)]
        BY DEF PoolState
    <2>3. pool' = [queues |-> pool.queues, stopping |-> FALSE, initialized |-> TRUE,
                   workers |-> pool.workers \cup fresh]
        BY <2>1 DEF PoolState
    <2>4. QED
        BY <2>2, <2>3 DEF PoolState
<1>3. kSubset(PoolSize, {w \in Worker : worker[w].pc = "none"}) \subseteq SUBSET Worker
    BY DEF kSubset
<1>4. QED
    BY <1>1, <1>2, <1>3 DEF InitPool

LEMMA PoolTypeStep ==
    ASSUME TypeOK, CallInv, JobsInv, [Next]_vars
    PROVE  pool' \in PoolState
<1>0. pool \in PoolState
    BY DEF TypeOK, PoolState
<1>1. CASE pool' = pool
    BY <1>0, <1>1
<1>2. CASE \E j \in Job, p \in 0..2 : PushItem(j, p)
    BY <1>0, <1>2, PushType
<1>3. CASE InitPool
    BY <1>0, <1>3, InitPoolType
<1>4. CASE Shutdown
    BY <1>0, <1>4 DEF Shutdown, PoolState
<1>5. CASE Joined
    BY <1>0, <1>5, RangeEmpty DEF Joined, PoolState
<1>6. CASE \E w \in Worker : WorkerTake(w)
    <2>1. PICK w \in Worker : WorkerTake(w)
        BY <1>6
    <2>2. PICK p \in 0..2 : pool.queues[p] # << >> /\ pool' = [pool EXCEPT !.queues[p] = Tail(@)]
        BY <2>1 DEF WorkerTake
    <2>3. pool.queues[p] \in Seq(Job)
        BY <1>0 DEF PoolState
    <2>4. Tail(pool.queues[p]) \in Seq(Job)
        BY <2>2, <2>3, RangeTail
    <2>5. QED
        BY <1>0, <2>2, <2>4 DEF PoolState
<1>7. CASE \E c \in Caller : Dispatch(c)
    <2>1. PICK c \in Caller, p \in Priorities :
            /\ dispatched < MaxJobs
            /\ pool' = pool \/ PushItem(dispatched + 1, p)
        BY <1>7 DEF Dispatch, Enter
    <2>2. p \in 0..2
        BY DEF PoolAssumption
    <2>3. QED
        BY <1>1, <1>2, <2>1, <2>2, NextJob
<1>8. CASE DispatchChunk
    <2>1. dispatched < MaxJobs /\ (pool' = pool \/ PushItem(dispatched + 1, 1))
        BY <1>8 DEF DispatchChunk, Enter
    <2>2. QED
        BY <1>1, <1>2, <2>1, NextJob
<1>9. CASE \E c \in Caller : DispatchPush(c)
    <2>1. PICK c \in Caller : DispatchPush(c)
        BY <1>9
    <2>2. call[c].job \in Job /\ call[c].priority \in 0..2
        BY <2>1, TypeFacts DEF DispatchPush, CallInv
    <2>3. QED
        BY <1>2, <2>1, <2>2 DEF DispatchPush
<1>10. QED
    BY <1>1, <1>3, <1>4, <1>5, <1>6, <1>7, <1>8, <1>9
       DEF Next, vars, CallStep, WorkerStep, ThreadStep, MainStep, Cancel, StoreDone,
           WorkerExit, WorkerSleep, WorkerStart, BodyReturns,
           BodyThrows, PostCompletion, NotifyWaiters, ThreadCheck, ThreadSleep, ThreadWait,
           SubsystemInit, RunTask, DispatchInit, Register, ParallelFor,
           MainWait, MainSeesDone, MainWaitReturns, ResizeInit, Exit

LEMMA WorkerTypeStep ==
    ASSUME TypeOK, CallInv, JobsInv, [Next]_vars
    PROVE  worker' \in [Worker -> WorkerState]
<1>0. worker \in [Worker -> WorkerState] /\ Combined \in Handle /\ \A j \in Job : j \in Handle
    BY TypeFacts
<1>1. CASE Calm
    BY <1>1 DEF Calm, IdleMoves
<1>2. CASE RunTask
    BY <1>0, <1>2 DEF RunTask
<1>3. CASE worker' = worker \/ \E j, p : PushItem(j, p)
    BY <1>0, <1>3, NotifyOneMoves DEF PushItem, IdleMoves
<1>4. ASSUME NEW w \in Worker, WorkerTake(w)
      PROVE  worker' \in [Worker -> WorkerState]
    <2>1. PICK j \in Job : worker' = [worker EXCEPT ![w] = [pc |-> "taken", job |-> j]]
        BY <1>4, TakeQueue DEF JobsInv
    <2>2. [pc |-> "taken", job |-> j] \in WorkerState
        BY <1>0 DEF WorkerState, Pc
    <2>3. QED
        BY <1>0, <2>1, <2>2
<1>5. ASSUME NEW w \in Worker, NotifyWaiters(w)
      PROVE  worker' \in [Worker -> WorkerState]
    <2>1. [pc |-> "loop", job |-> Combined] \in WorkerState
        BY <1>0 DEF WorkerState, Pc
    <2>2. \/ worker' = [worker EXCEPT ![w] = [pc |-> "loop", job |-> Combined]]
          \/ worker' = [worker EXCEPT ![w].pc = "post"]
        BY <1>5 DEF NotifyWaiters
    <2>3. QED
        BY <1>0, <2>1, <2>2, OneWorker DEF Pc
<1>6. ASSUME NEW w \in Worker, \/ WorkerStart(w) \/ BodyReturns(w) \/ BodyThrows(w)
                               \/ PostCompletion(w) \/ StoreDone(w)
      PROVE  worker' \in [Worker -> WorkerState]
    <2>1. PICK x \in Pc : worker' = [worker EXCEPT ![w].pc = x]
        BY <1>6 DEF WorkerStart, BodyReturns, BodyThrows, PostCompletion, StoreDone, Pc
    <2>2. QED
        BY <1>0, <2>1, OneWorker
<1>7. QED
    BY <1>1, <1>2, <1>3, <1>4, <1>5, <1>6, StepKinds DEF Dispatches, DispatchesTo, DispatchPush

LEMMA CallTypeStep ==
    ASSUME TypeOK, CallInv, [Next]_vars
    PROVE  call' \in [Caller -> CallState]
<1>0. call \in [Caller -> CallState]
    BY DEF TypeOK, CallState
<1>1. NoCall \in CallState
    BY TypeFacts DEF NoCall, CallState
<1>2. CASE call' = call
    BY <1>0, <1>2
<1>3. CASE \E c \in Caller : DispatchInit(c) \/ DispatchPush(c) \/ Register(c)
    <2>1. PICK c \in Caller : \/ call' = [call EXCEPT ![c].step = "push"]
                              \/ call' = [call EXCEPT ![c] = NoCall]
                              \/ call' = [call EXCEPT ![c] = [@ EXCEPT !.step = "register"]]
        BY <1>3 DEF DispatchInit, DispatchPush, Register
    <2>2. CASE call' = [call EXCEPT ![c] = NoCall]
        BY <1>0, <1>1, <2>2
    <2>3. CASE call' # [call EXCEPT ![c] = NoCall]
        BY <1>0, <2>1, <2>3 DEF CallState
    <2>4. QED
        BY <2>2, <2>3
<1>4. CASE \E c \in Caller : Dispatch(c)
    <2>1. PICK c \in Caller, p \in Priorities, s \in {"init", "register"} :
            /\ dispatched < MaxJobs
            /\ call' = [call EXCEPT ![c] = [step |-> s, job |-> dispatched + 1, priority |-> p]]
        BY <1>4 DEF Dispatch, Enter
    <2>2. [step |-> s, job |-> dispatched + 1, priority |-> p] \in CallState
        BY <2>1, NextJob DEF CallState, PoolAssumption
    <2>3. QED
        BY <1>0, <2>1, <2>2
<1>5. CASE DispatchChunk
    <2>1. PICK x \in {NoCall, [step |-> "init", job |-> dispatched + 1, priority |-> 1]} :
            dispatched < MaxJobs /\ call' = [call EXCEPT ![Main] = x]
        BY <1>5 DEF DispatchChunk, Enter
    <2>2. x \in CallState
        BY <1>1, <2>1, NextJob DEF CallState
    <2>3. QED
        BY <1>0, <2>1, <2>2
<1>6. QED
    BY <1>2, <1>3, <1>4, <1>5, JobsGrow

LEMMA MainTypeStep ==
    ASSUME TypeOK, LatchInv, [Next]_vars
    PROVE  main' \in MainState
<1>0. main \in MainState /\ pool.workers \subseteq Worker /\ Combined \in Handle
    BY TypeFacts DEF TypeOK, MainState
<1>1. CASE main' = main
    BY <1>0, <1>1
<1>2. CASE DispatchChunk
    <2>1. main.chunksLeft > 0 /\ main.chunksLeft \in 0..NumChunks /\ NumChunks \in Nat
        BY <1>0, <1>2 DEF DispatchChunk, LatchInv, MainState, PoolAssumption
    <2>2. main.chunksLeft - 1 \in 0..NumChunks
        BY <2>1
    <2>3. main' = [main EXCEPT !.chunksLeft = @ - 1,
                               !.pc = IF main.chunksLeft = 1 THEN "idle" ELSE @]
        BY <1>2 DEF DispatchChunk
    <2>4. QED
        BY <1>0, <2>2, <2>3 DEF MainState
<1>3. CASE \/ ParallelFor \/ MainSeesDone \/ MainWaitReturns \/ ResizeInit \/ Exit
    BY <1>0, <1>3 DEF ParallelFor, MainSeesDone, MainWaitReturns, ResizeInit, Exit, MainState
<1>4. CASE \E h \in Handle : MainWait(h)
    BY <1>0, <1>4 DEF MainWait, MainState
<1>5. CASE Shutdown
    <2>1. CASE /\ main.resizes < MaxResizes
               /\ main' = [main EXCEPT !.pc = "joinResize", !.joining = pool.workers,
                                       !.resizes = @ + 1]
        <3>1. main.resizes + 1 \in 0..MaxResizes
            BY <1>0, <2>1 DEF MainState, PoolAssumption
        <3>2. QED
            BY <1>0, <2>1, <3>1 DEF MainState
    <2>2. CASE main' = [main EXCEPT !.pc = "joinExit", !.joining = pool.workers]
        BY <1>0, <2>2 DEF MainState
    <2>3. QED
        BY <1>5, <2>1, <2>2 DEF Shutdown
<1>6. CASE main' = [main EXCEPT !.joining = {},
                                !.pc = IF @ = "joinResize" THEN "resize" ELSE "drainAll"]
    BY <1>0, <1>6 DEF MainState
<1>7. QED
    BY <1>1, <1>2, <1>3, <1>4, <1>5, <1>6
       DEF Next, vars, CallStep, WorkerStep, ThreadStep, MainStep, Cancel, StoreDone,
           WorkerExit, WorkerTake, WorkerSleep, WorkerStart, BodyReturns,
           BodyThrows, PostCompletion, NotifyWaiters, ThreadCheck, ThreadSleep, ThreadWait,
           SubsystemInit, RunTask, DispatchInit, DispatchPush, Register, Dispatch, Joined

LEMMA DataTypeStep ==
    ASSUME TypeOK, CallInv, JobsInv, [Next]_vars
    PROVE  /\ state' \in [Handle -> [done : BOOLEAN, cancelled : BOOLEAN]]
           /\ bodies' \in [Job -> Nat] /\ completed' \in [Job -> Nat] /\ tasks' \in Seq(Job)
           /\ thread' \in [Thread -> [pc : {"idle", "check", "checked", "asleep"}, handle : Handle]]
<1>0. /\ state \in [Handle -> [done : BOOLEAN, cancelled : BOOLEAN]]
      /\ bodies \in [Job -> Nat] /\ completed \in [Job -> Nat] /\ tasks \in Seq(Job)
      /\ thread \in [Thread -> [pc : {"idle", "check", "checked", "asleep"}, handle : Handle]]
      /\ Combined \in Handle
    BY TypeFacts DEF TypeOK
<1>1. state' \in [Handle -> [done : BOOLEAN, cancelled : BOOLEAN]]
    <2>1. CASE \E h \in Handle : \/ state' = [state EXCEPT ![h].cancelled = TRUE]
                                 \/ state' = [state EXCEPT ![h].done = TRUE]
        <3>1. PICK h \in Handle : \/ state' = [state EXCEPT ![h].cancelled = TRUE]
                                  \/ state' = [state EXCEPT ![h].done = TRUE]
            BY <2>1
        <3>2. CASE state' = [state EXCEPT ![h].cancelled = TRUE]
            BY <1>0, <3>2
        <3>3. CASE state' = [state EXCEPT ![h].done = TRUE]
            BY <1>0, <3>3
        <3>4. QED
            BY <3>1, <3>2, <3>3
    <2>2. CASE state' = state
        BY <1>0, <2>2
    <2>3. \/ state' = state
          \/ \E c \in {Main} \cup Thread, h \in Handle : Cancel(c, h)
          \/ \E w \in Worker : StoreDone(w)
        BY DEF Next, vars, CallStep, WorkerStep, ThreadStep, MainStep, Dispatch, DispatchInit,
           DispatchPush, Register, WorkerExit, WorkerTake, WorkerSleep, WorkerStart, BodyReturns,
           BodyThrows, PostCompletion, NotifyWaiters, ThreadCheck, ThreadSleep, ThreadWait,
           ParallelFor, SubsystemInit, Shutdown, MainWait, DispatchChunk, RunTask, MainSeesDone,
           MainWaitReturns, Joined, ResizeInit, Exit
    <2>4. QED
        BY <2>1, <2>2, <2>3, TypeFacts DEF Cancel, StoreDone
<1>2. bodies' \in [Job -> Nat]
    <2>1. ASSUME NEW w \in Worker, WorkerStart(w)
          PROVE  bodies' \in [Job -> Nat]
        <3>1. worker[w].job \in Job
            BY <2>1, HeldJob DEF WorkerStart, Holds, Busy, IdlePc
        <3>2. bodies[worker[w].job] + 1 \in Nat
            BY <1>0, <3>1
        <3>3. QED
            BY <1>0, <2>1, <3>1, <3>2 DEF WorkerStart
    <2>2. bodies' = bodies \/ \E w \in Worker : WorkerStart(w)
        BY DEF Next, vars, CallStep, WorkerStep, ThreadStep, MainStep, Dispatch, DispatchInit,
           DispatchPush, Register, WorkerExit, WorkerTake, WorkerSleep, BodyReturns, Cancel,
           BodyThrows, PostCompletion, NotifyWaiters, ThreadCheck, ThreadSleep, ThreadWait,
           ParallelFor, SubsystemInit, Shutdown, MainWait, DispatchChunk, RunTask, MainSeesDone,
           MainWaitReturns, Joined, ResizeInit, Exit, StoreDone
    <2>3. QED
        BY <1>0, <2>1, <2>2
<1>3. completed' \in [Job -> Nat] /\ tasks' \in Seq(Job)
    <2>1. CASE RunTask
        <3>1. PICK j \in Job : tasks' \in Seq(Job) /\ completed' = [completed EXCEPT ![j] = 1]
            BY <2>1, TaskEffect
        <3>2. QED
            BY <1>0, <3>1
    <2>2. ASSUME NEW w \in Worker, PostCompletion(w)
          PROVE  completed' \in [Job -> Nat] /\ tasks' \in Seq(Job)
        <3>1. worker[w].job \in Job
            BY <2>2, HeldJob DEF PostCompletion, Holds, Busy, IdlePc
        <3>2. Append(tasks, worker[w].job) \in Seq(Job)
            BY <1>0, <3>1, AppendProperties
        <3>3. QED
            BY <1>0, <2>2, <3>2 DEF PostCompletion
    <2>3. \/ RunTask \/ \E w \in Worker : PostCompletion(w)
          \/ completed' = completed /\ tasks' = tasks
        BY DEF Next, vars, CallStep, WorkerStep, ThreadStep, MainStep, Dispatch, DispatchInit,
           DispatchPush, Register, WorkerExit, WorkerTake, WorkerSleep, BodyReturns, Cancel,
           BodyThrows, WorkerStart, NotifyWaiters, ThreadCheck, ThreadSleep, ThreadWait,
           ParallelFor, SubsystemInit, Shutdown, MainWait, DispatchChunk, MainSeesDone,
           MainWaitReturns, Joined, ResizeInit, Exit, StoreDone
    <2>4. QED
        BY <1>0, <2>1, <2>2, <2>3
<1>4. thread' \in [Thread -> [pc : {"idle", "check", "checked", "asleep"}, handle : Handle]]
    <2>1. ASSUME NEW w \in Worker, NotifyWaiters(w)
          PROVE  thread' \in [Thread -> [pc : {"idle", "check", "checked", "asleep"}, handle : Handle]]
        <3>1. PICK h : thread' = Woken(h)
            BY <2>1 DEF NotifyWaiters
        <3>2. \A t \in Thread : [thread[t] EXCEPT !.pc = "check"]
                                \in [pc : {"idle", "check", "checked", "asleep"}, handle : Handle]
            BY <1>0
        <3>3. QED
            BY <1>0, <3>1, <3>2 DEF Woken
    <2>2. ASSUME NEW t \in Thread, NEW h \in Handle, ThreadWait(t, h)
          PROVE  thread' \in [Thread -> [pc : {"idle", "check", "checked", "asleep"}, handle : Handle]]
        BY <1>0, <2>2 DEF ThreadWait
    <2>3. ASSUME NEW t \in Thread, ThreadCheck(t)
          PROVE  thread' \in [Thread -> [pc : {"idle", "check", "checked", "asleep"}, handle : Handle]]
        <3>1. \/ thread' = [thread EXCEPT ![t] = NoWait]
              \/ thread' = [thread EXCEPT ![t] = [@ EXCEPT !.pc = "checked"]]
            BY <2>3 DEF ThreadCheck
        <3>2. NoWait \in [pc : {"idle", "check", "checked", "asleep"}, handle : Handle]
            BY <1>0 DEF NoWait
        <3>3. CASE thread' = [thread EXCEPT ![t] = NoWait]
            BY <1>0, <3>2, <3>3
        <3>4. CASE thread' = [thread EXCEPT ![t] = [@ EXCEPT !.pc = "checked"]]
            BY <1>0, <3>4
        <3>5. QED
            BY <3>1, <3>3, <3>4
    <2>4. ASSUME NEW t \in Thread, ThreadSleep(t)
          PROVE  thread' \in [Thread -> [pc : {"idle", "check", "checked", "asleep"}, handle : Handle]]
        BY <1>0, <2>4 DEF ThreadSleep
    <2>5. \/ thread' = thread \/ \E w \in Worker : NotifyWaiters(w)
          \/ \E t \in Thread : \/ ThreadCheck(t) \/ ThreadSleep(t)
                               \/ \E h \in Handle : ThreadWait(t, h)
        BY DEF Next, vars, CallStep, WorkerStep, ThreadStep, MainStep, Dispatch, DispatchInit,
           DispatchPush, Register, WorkerExit, WorkerTake, WorkerSleep, BodyReturns, Cancel,
           BodyThrows, WorkerStart, PostCompletion,
           ParallelFor, SubsystemInit, Shutdown, MainWait, DispatchChunk, RunTask, MainSeesDone,
           MainWaitReturns, Joined, ResizeInit, Exit, StoreDone
    <2>6. QED
        BY <1>0, <2>1, <2>2, <2>3, <2>4, <2>5
<1>5. QED
    BY <1>1, <1>2, <1>3, <1>4

LEMMA JobsTypeStep ==
    ASSUME TypeOK, CallInv, [Next]_vars
    PROVE  /\ dispatched' \in 0..MaxJobs /\ chunks' \subseteq 1..dispatched'
           /\ handles' \subseteq 1..dispatched'
<1>0. /\ dispatched \in Nat /\ dispatched <= MaxJobs /\ MaxJobs \in Nat
      /\ chunks \subseteq 1..dispatched /\ handles \subseteq 1..dispatched
    BY TypeFacts DEF TypeOK, PoolAssumption
<1>1. /\ dispatched' \in Nat /\ dispatched <= dispatched' /\ dispatched' <= MaxJobs
      /\ chunks' \subseteq 1..dispatched'
    <2>1. CASE dispatched' = dispatched /\ chunks' = chunks
        BY <1>0, <2>1
    <2>2. CASE (\E c \in Caller : Dispatch(c)) \/ DispatchChunk
        <3>1. /\ dispatched < MaxJobs /\ dispatched' = dispatched + 1
              /\ chunks' \subseteq chunks \cup {dispatched + 1}
            BY <2>2 DEF Dispatch, DispatchChunk
        <3>2. QED
            BY <1>0, <3>1, NextJob
    <2>3. QED
        BY <2>1, <2>2, JobsGrow
<1>2. handles' \subseteq 1..dispatched
    <2>1. CASE handles' \subseteq handles
        BY <1>0, <2>1
    <2>2. CASE \E c \in Caller : Register(c)
        <3>1. PICK c \in Caller : Register(c)
            BY <2>2
        <3>2. handles' = handles \cup {call[c].job} /\ call[c].job \in 1..dispatched
            BY <3>1 DEF Register, CallInv
        <3>3. QED
            BY <1>0, <3>2
    <2>3. QED
        BY <2>1, <2>2
        DEF Next, vars, CallStep, WorkerStep, ThreadStep, MainStep, Dispatch, DispatchInit,
           DispatchPush, WorkerExit, WorkerTake, WorkerSleep, WorkerStart, BodyReturns, Cancel,
           BodyThrows, PostCompletion, NotifyWaiters, ThreadCheck, ThreadSleep, ThreadWait,
           ParallelFor, SubsystemInit, Shutdown, MainWait, DispatchChunk, RunTask, MainSeesDone,
           MainWaitReturns, Joined, ResizeInit, Exit, StoreDone
<1>3. QED
    BY <1>0, <1>1, <1>2

LEMMA TypeStep ==
    ASSUME TypeOK, CallInv, JobsInv, LatchInv, [Next]_vars
    PROVE  TypeOK'
<1>1. /\ pool' \in PoolState /\ worker' \in [Worker -> WorkerState]
      /\ call' \in [Caller -> CallState] /\ main' \in MainState /\ remaining' \in 0..NumChunks
    BY PoolTypeStep, WorkerTypeStep, CallTypeStep, MainTypeStep, LatchInvStep
<1>2. QED
    BY <1>1, DataTypeStep, JobsTypeStep
       DEF TypeOK, PoolState, WorkerState, Pc, CallState, MainState
-----------------------------------------------------------------------------
(* The theorems.                                                           *)

\* The conjunction of all parts is inductive, whoever dispatches.
THEOREM Inductive == Spec => []IInv
<1>1. IInv /\ [Next]_vars => IInv'
    BY TypeStep, CallInvStep, JobsStep, LatchInvStep, WaitInvStep DEF IInv, JobsInv
<1>2. QED
    BY <1>1, Initially, PTL DEF Spec

\* TypeOK: the counters stay in range; in particular the latch of parallel_for is never counted
\* down below zero.
THEOREM TypeCorrect == Spec => []TypeOK
<1>1. IInv => TypeOK
    BY DEF IInv
<1>2. QED
    BY <1>1, Inductive, PTL

\* DoneOnce: a job is done only after its body ran or its token was cancelled, and body and
\* completion run at most once.
THEOREM RunsOnce == Spec => []DoneOnce
<1>1. IInv => DoneOnce
    <2> SUFFICES ASSUME IInv, NEW j \in 1..dispatched
                 PROVE  /\ state[j].done => bodies[j] = 1 \/ Cancelled(j)
                        /\ bodies[j] <= 1 /\ completed[j] <= 1
        BY DEF DoneOnce
    <2>1. j \in Job
        BY TypeFacts DEF IInv
    <2>2. QED
        BY <2>1 DEF IInv, BodyInv, CompletionInv, Ran
<1>2. QED
    BY <1>1, Inductive, PTL

\* LatchCounts: when the handle of parallel_for is done every chunk has run.
THEOREM LatchCorrect == Spec => []LatchCounts
<1>1. IInv => LatchCounts
    <2> SUFFICES ASSUME IInv, state[Combined].done
                 PROVE  /\ Cardinality(chunks) = NumChunks
                        /\ \A j \in chunks : bodies[j] = 1
                        /\ \A w \in Worker : worker[w].job \in chunks => worker[w].pc # "body"
        BY DEF LatchCounts
    <2>1. TypeOK /\ LatchInv
        BY DEF IInv
    <2>2. /\ NumChunks <= Cardinality(Counted) /\ Cardinality(chunks) <= NumChunks
        BY <2>1, ChunksFinite, TypeFacts DEF LatchInv, PoolAssumption
    <2>3. Cardinality(Counted) = Cardinality(chunks) /\ Cardinality(chunks) = NumChunks
        BY <2>1, <2>2, ChunksFinite DEF PoolAssumption
    <2>4. Counted = chunks
        BY <2>1, <2>3, ChunksFinite, FS_Subset
    <2>5. QED
        BY <2>3, <2>4 DEF Counted, InBody
<1>2. QED
    BY <1>1, Inductive, PTL

\* WaitSeesCompletion: a wait() of the main thread returns when the job is done and, but for a
\* parallel_for, which has none, its completion has run.
THEOREM WaitCorrect == Spec => WaitSeesCompletion
<1>1. ASSUME IInv, [Next]_vars, main.pc = "lastDrain", main'.pc = "idle"
      PROVE  /\ state[main.handle].done
             /\ main.handle # Combined => completed[main.handle] = 1
    <2>1. tasks = << >>
        <3>1. MainWaitReturns
            <4>0. main \in MainState
                BY <1>1 DEF IInv, TypeOK, MainState
            <4>1. main' # main
                BY <1>1
            <4>2. ~(\E h \in Handle : MainWait(h)) /\ ~ParallelFor /\ ~Shutdown
                BY <1>1 DEF MainWait, ParallelFor, Shutdown, Free
            <4>3. ~DispatchChunk /\ ~MainSeesDone /\ ~Joined /\ ~ResizeInit /\ ~Exit
                BY <1>1 DEF DispatchChunk, MainSeesDone, Joined, ResizeInit, Exit
            <4>4. QED
                BY <4>1, <4>2, <4>3, <1>1
                   DEF Next, vars, CallStep, WorkerStep, ThreadStep, MainStep, Cancel, StoreDone,
                       WorkerExit, WorkerTake, WorkerSleep, WorkerStart, BodyReturns,
                       BodyThrows, PostCompletion, NotifyWaiters, ThreadCheck, ThreadSleep,
                       ThreadWait, SubsystemInit, RunTask, DispatchInit, DispatchPush, Register,
                       Dispatch
        <3>2. QED
            BY <3>1 DEF MainWaitReturns
    <2>2. /\ state[main.handle].done /\ main.handle \in Handle
          /\ main.handle # Combined => main.handle \notin chunks
        BY <1>1, TypeFacts DEF IInv, WaitInv
    <2>3. ASSUME main.handle # Combined
          PROVE  completed[main.handle] = 1
        <3>1. main.handle \in Job /\ Posted(main.handle) /\ main.handle \notin chunks
            BY <2>2, <2>3 DEF Handle, Posted
        <3>2. main.handle \notin Range(tasks)
            BY <2>1, RangeEmpty
        <3>3. QED
            BY <1>1, <3>1, <3>2 DEF IInv, CompletionInv
    <2>4. QED
        BY <2>2, <2>3
<1>2. IInv /\ [Next]_vars => [main.pc = "lastDrain" /\ main'.pc = "idle" =>
                               /\ state[main.handle].done
                               /\ main.handle # Combined => completed[main.handle] = 1]_vars
    BY <1>1
<1>3. QED
    BY <1>2, Inductive, PTL DEF Spec, WaitSeesCompletion
-----------------------------------------------------------------------------
(* The life of a job: JobSystem implements JobLife.                        *)

CancelledHandles == {h \in Handle : state[h].cancelled}
ReturnedJobs == {j \in Job : bodies[j] > 0 /\ ~InBody(j)}
PostedJobs == {j \in Job : Posted(j)}
DoneJobs == {j \in Job : state[j].done}

\* What JobLife sees of the workers: which bodies are being run, which jobs are over.
SameInside ==
    \A j \in Job : (InBody(j)' <=> InBody(j)) /\ (Posted(j)' <=> Posted(j))

SameHandles ==
    \A h \in Handle : /\ state'[h].cancelled = state[h].cancelled
                      /\ state'[h].done = state[h].done

SameJobs == UNCHANGED << dispatched, chunks, bodies, completed >>

LEMMA LifeSets ==
    ASSUME TypeOK, SameInside, bodies' = bodies
    PROVE  ReturnedJobs' = ReturnedJobs /\ PostedJobs' = PostedJobs
BY DEF SameInside, ReturnedJobs, PostedJobs

LEMMA HandleSets ==
    ASSUME TypeOK, SameHandles
    PROVE  /\ CancelledHandles' = CancelledHandles /\ DoneJobs' = DoneJobs
           /\ state'[Combined].done = state[Combined].done
<1>1. Combined \in Handle /\ \A j \in Job : j \in Handle
    BY TypeFacts
<1>2. CancelledHandles' = CancelledHandles
    BY DEF SameHandles, CancelledHandles
<1>3. DoneJobs' = DoneJobs
    BY <1>1 DEF SameHandles, DoneJobs
<1>4. QED
    BY <1>1, <1>2, <1>3 DEF SameHandles

LEMMA LifeStutters ==
    ASSUME TypeOK, SameInside, SameHandles, SameJobs
    PROVE  UNCHANGED Life!lifeVars
<1>1. /\ ReturnedJobs' = ReturnedJobs /\ PostedJobs' = PostedJobs
      /\ CancelledHandles' = CancelledHandles /\ DoneJobs' = DoneJobs
      /\ state'[Combined].done = state[Combined].done
    BY LifeSets, HandleSets DEF SameJobs
<1>2. QED
    BY <1>1
       DEF SameJobs, Life!lifeVars, ReturnedJobs, PostedJobs, CancelledHandles, DoneJobs

LEMMA IdleInside ==
    ASSUME IdleMoves, \A j \in Job : state'[j].done = state[j].done
    PROVE  SameInside
<1>1. \A w \in Worker : /\ worker'[w].job = worker[w].job
                        /\ worker'[w].pc = "body" <=> worker[w].pc = "body"
                        /\ worker'[w].pc = "done" <=> worker[w].pc = "done"
    BY DEF IdleMoves, IdlePc
<1>2. QED
    BY <1>1 DEF SameInside, InBody, Posted

\* A worker that goes to x, neither from nor to a body or the end of a job.
LEMMA OneWorkerInside ==
    ASSUME TypeOK, NEW w \in Worker, NEW x \in Pc \ {"body", "done"},
           worker[w].pc \notin {"body", "done"}, worker' = [worker EXCEPT ![w].pc = x],
           \A j \in Job : state'[j].done = state[j].done
    PROVE  SameInside
<1>1. \A v \in Worker : /\ worker'[v].job = worker[v].job
                        /\ worker'[v].pc = "body" <=> worker[v].pc = "body"
                        /\ worker'[v].pc = "done" <=> worker[v].pc = "done"
    BY TypeFacts, OneWorker
<1>2. QED
    BY <1>1 DEF SameInside, InBody, Posted

\* Only Cancel cancels, and only StoreDone makes a handle done.
LEMMA HandlesStep ==
    ASSUME TypeOK, [Next]_vars
    PROVE  \/ state' = state
           \/ \E c \in {Main} \cup Thread, h \in Handle : Cancel(c, h)
           \/ \E w \in Worker : StoreDone(w)
BY DEF Next, vars, CallStep, WorkerStep, ThreadStep, MainStep, Dispatch, DispatchInit,
       DispatchPush, Register, WorkerExit, WorkerTake, WorkerSleep, WorkerStart, BodyReturns,
       BodyThrows, PostCompletion, NotifyWaiters, ThreadCheck, ThreadSleep, ThreadWait,
       ParallelFor, SubsystemInit, Shutdown, MainWait, DispatchChunk, RunTask, MainSeesDone,
       MainWaitReturns, Joined, ResizeInit, Exit

LEMMA CancelLife ==
    ASSUME TypeOK, NEW c \in {Main} \cup Thread, NEW h \in Handle, Cancel(c, h)
    PROVE  Life!Cancel(h)
<1>1. UNCHANGED << worker, dispatched, chunks, bodies, completed >>
    BY DEF Cancel
<1>2. /\ \A g \in Handle : state'[g].done = state[g].done
      /\ \A g \in Handle : state'[g].cancelled <=> state[g].cancelled \/ g = h
    BY DEF Cancel, TypeOK
<1>3. Combined \in Handle /\ \A j \in Job : j \in Handle
    BY TypeFacts
<1>4. SameInside
    BY <1>1, <1>2, <1>3 DEF SameInside, InBody, Posted
<1>5. ReturnedJobs' = ReturnedJobs /\ PostedJobs' = PostedJobs
    BY <1>1, <1>4, LifeSets
<1>6. CancelledHandles' = CancelledHandles \cup {h}
    BY <1>2 DEF CancelledHandles
<1>7. DoneJobs' = DoneJobs /\ state'[Combined].done = state[Combined].done
    BY <1>2, <1>3 DEF DoneJobs
<1>8. QED
    BY <1>1, <1>5, <1>6, <1>7
       DEF Life!Cancel, ReturnedJobs, PostedJobs, CancelledHandles, DoneJobs

\* The same operator, by way of the instance.
LEMMA SameCardinality == \A S : Life!Cardinality(S) = Cardinality(S)
BY Zenon DEF Life!Cardinality, Cardinality

LEMMA SubmitLife ==
    ASSUME TypeOK, JobsInv, LatchInv, LatchInv', TypeOK', NEW c \in Caller,
           Dispatches(c, dispatched + 1)
    PROVE  Life!Submit(dispatched + 1)
<1> DEFINE j == dispatched + 1
<1>1. /\ j \in Job /\ dispatched' = j /\ dispatched \in Nat
      /\ chunks \subseteq chunks' /\ chunks' \subseteq chunks \cup {j}
      /\ UNCHANGED << state, bodies, completed >>
    BY TypeFacts DEF Dispatches
<1>2. j \notin 1..dispatched /\ 1..dispatched' = (1..dispatched) \cup {j}
    BY <1>1
<1>3. \A p \in 0..2 : ~InQueue(p, j)
    BY <1>1, <1>2 DEF JobsInv, QueueInv
<1>4. IdleMoves
    BY <1>1, <1>3, TypeFacts, PushQueue DEF Dispatches, DispatchesTo, JobsInv, IdleMoves
<1>5. /\ ReturnedJobs' = ReturnedJobs /\ PostedJobs' = PostedJobs
      /\ CancelledHandles' = CancelledHandles /\ DoneJobs' = DoneJobs
      /\ state'[Combined].done = state[Combined].done
    BY <1>1, <1>4, IdleInside, LifeSets, HandleSets DEF SameHandles
<1>6. chunks' = chunks \/ (Cardinality(chunks) < NumChunks /\ chunks' = chunks \cup {j})
    <2>1. CASE j \in chunks' /\ j \notin chunks
        <3>1. chunks' = chunks \cup {j}
            BY <1>1, <2>1
        <3>2. Cardinality(chunks') = Cardinality(chunks) + 1 /\ Cardinality(chunks) \in Nat
            BY <2>1, <3>1, ChunksFinite, FS_AddElement
        <3>3. Cardinality(chunks') + main'.chunksLeft = NumChunks /\ main'.chunksLeft \in Nat
            BY TypeFacts DEF LatchInv, TypeOK, PoolAssumption
        <3>4. QED
            BY <3>1, <3>2, <3>3 DEF PoolAssumption
    <2>2. CASE j \notin chunks' \/ j \in chunks
        BY <1>1, <2>2
    <2>3. QED
        BY <2>1, <2>2
<1> HIDE DEF j
<1>7. UNCHANGED << CancelledHandles, bodies, ReturnedJobs, PostedJobs, DoneJobs,
                   state[Combined].done, completed >>
    BY <1>1, <1>5
<1>8. Life!Submit(j)
    BY <1>2, <1>6, <1>7, SameCardinality, Zenon
       DEF Life!Submit, ReturnedJobs, PostedJobs, CancelledHandles, DoneJobs
<1>9. QED
    BY <1>8 DEF j

LEMMA CompleteLife ==
    ASSUME TypeOK, JobsInv, RunTask
    PROVE  \E j \in Job : Life!Complete(j)
<1>1. UNCHANGED << worker, state, dispatched, chunks, bodies >>
    BY DEF RunTask
<1>2. PICK j \in Job : j \in Range(tasks) /\ completed' = [completed EXCEPT ![j] = 1]
    BY TaskEffect
<1>3. j \in PostedJobs /\ j \notin chunks /\ completed[j] = 0
    BY <1>2 DEF JobsInv, CompletionInv, PostedJobs
<1>4. SameInside /\ SameHandles
    BY <1>1 DEF SameInside, SameHandles, InBody, Posted
<1>5. /\ ReturnedJobs' = ReturnedJobs /\ PostedJobs' = PostedJobs
      /\ CancelledHandles' = CancelledHandles /\ DoneJobs' = DoneJobs
      /\ state'[Combined].done = state[Combined].done
    BY <1>1, <1>4, LifeSets, HandleSets
<1>6. Life!Complete(j)
    BY <1>1, <1>2, <1>3, <1>5
       DEF Life!Complete, ReturnedJobs, PostedJobs, CancelledHandles, DoneJobs
<1>7. QED
    BY <1>6

\* A worker that takes a job changes nothing in its life yet; queues and calls do not matter.
LEMMA MovesStutter ==
    ASSUME TypeOK, JobsInv, \/ \E c \in Caller : DispatchPush(c)
                            \/ \E w \in Worker : WorkerTake(w)
    PROVE  UNCHANGED Life!lifeVars
<1>1. /\ UNCHANGED << state, dispatched, chunks, bodies, completed >>
      /\ SameHandles /\ SameJobs
    BY DEF DispatchPush, WorkerTake, SameHandles, SameJobs
<1>2. SameInside
    <2>1. CASE \E c \in Caller : DispatchPush(c)
        <3>1. PICK c \in Caller : DispatchPush(c)
            BY <2>1
        <3>2. NotifyOne(worker)
            BY <3>1 DEF DispatchPush, PushItem
        <3>3. QED
            BY <1>1, <3>2, TypeFacts, NotifyOneMoves, IdleInside
    <2>2. CASE \E w \in Worker : WorkerTake(w)
        <3>1. PICK w \in Worker : WorkerTake(w)
            BY <2>2
        <3>2. \E j : worker' = [worker EXCEPT ![w] = [pc |-> "taken", job |-> j]]
            BY <3>1 DEF WorkerTake
        <3>3. /\ worker[w].pc = "loop" /\ worker'[w].pc = "taken"
              /\ \A v \in Worker : v # w => worker'[v] = worker[v]
            BY <3>1, <3>2, TypeFacts DEF WorkerTake
        <3>4. QED
            BY <1>1, <3>3 DEF SameInside, InBody, Posted
    <2>3. QED
        BY <2>1, <2>2
<1>3. QED
    BY <1>1, <1>2, LifeStutters

LEMMA StartLife ==
    ASSUME TypeOK, JobsInv, NEW w \in Worker, WorkerStart(w)
    PROVE  Life!Start(worker[w].job) \/ UNCHANGED Life!lifeVars
<1> DEFINE j == worker[w].job
<1>1. worker[w].pc = "taken" /\ Holds(w)
    BY DEF WorkerStart, Holds, Busy, IdlePc
<1>2. /\ j \in Job /\ j \in Handle /\ ~state[j].done /\ bodies[j] = 0 /\ j \in 1..dispatched
      /\ Combined \in Handle
    BY <1>1, HeldJob, TypeFacts DEF JobsInv, BodyInv, WorkerInv, Holds
<1>3. UNCHANGED << state, dispatched, chunks, completed >>
    BY DEF WorkerStart
<1>4. CASE worker' = [worker EXCEPT ![w].pc = "post"] /\ bodies' = bodies
    <2>1. SameInside
        BY <1>1, <1>3, <1>4, OneWorkerInside DEF Pc
    <2>2. QED
        BY <1>3, <1>4, <2>1, LifeStutters DEF SameHandles, SameJobs
<1>5. CASE /\ ~Cancelled(j)
           /\ worker' = [worker EXCEPT ![w].pc = "body"]
           /\ bodies' = [bodies EXCEPT ![j] = @ + 1]
    <2>1. bodies \in [Job -> Nat] /\ bodies' = [bodies EXCEPT ![j] = 1]
        BY <1>2, <1>5 DEF TypeOK
    <2>2. /\ \A v \in Worker : worker'[v].job = worker[v].job
          /\ worker'[w].pc = "body"
          /\ \A v \in Worker : v # w => worker'[v].pc = worker[v].pc
        BY <1>5, OneWorker, TypeFacts DEF Pc
    <2>3. j \notin PostedJobs
        <3>1. \A v \in Worker : worker[v].pc = "done" => Holds(v) /\ v # w
            BY <1>1 DEF Holds, Busy, IdlePc
        <3>2. QED
            BY <1>1, <1>2, <3>1 DEF PostedJobs, Posted, JobsInv, HoldsInv
    <2>4. PostedJobs' = PostedJobs
        BY <1>1, <1>3, <2>2 DEF PostedJobs, Posted
    <2>5. ReturnedJobs' = ReturnedJobs
        <3>1. InBody(j)' /\ j' = j
            BY <2>2 DEF InBody
        <3>2. \A i \in Job : i # j => (InBody(i)' <=> InBody(i)) /\ bodies'[i] = bodies[i]
            BY <1>1, <2>1, <2>2 DEF InBody
        <3> HIDE DEF j
        <3>3. ~(bodies[j] > 0)
            BY <1>2
        <3>4. \A i \in Job : /\ bodies'[i] > 0 /\ ~InBody(i)'
                               <=> bodies[i] > 0 /\ ~InBody(i)
            BY <3>1, <3>2, <3>3
        <3>5. QED
            BY <3>4 DEF ReturnedJobs
    <2>6. /\ CancelledHandles' = CancelledHandles /\ DoneJobs' = DoneJobs
          /\ state'[Combined].done = state[Combined].done
        BY <1>3 DEF CancelledHandles, DoneJobs
    <2>7. (IF j \in chunks THEN Combined ELSE j) \notin CancelledHandles
        BY <1>2, <1>5 DEF Cancelled, CancelledHandles
    <2> HIDE DEF j
    <2>8. Life!Start(j)
        BY <1>2, <1>3, <2>1, <2>3, <2>4, <2>5, <2>6, <2>7
           DEF Life!Start, Life!Cancelled, ReturnedJobs, PostedJobs, CancelledHandles, DoneJobs
    <2>9. QED
        BY <2>8 DEF j
<1>6. QED
    BY <1>4, <1>5 DEF WorkerStart

LEMMA ReturnLife ==
    ASSUME TypeOK, JobsInv, NEW w \in Worker, BodyReturns(w) \/ BodyThrows(w)
    PROVE  \E i \in Job : Life!Return(i)
<1> DEFINE j == worker[w].job
<1>1. worker[w].pc = "body" /\ Holds(w)
    BY DEF BodyReturns, BodyThrows, Holds, Busy, IdlePc
<1>2. j \in Job /\ ~state[j].done /\ bodies[j] = 1
    BY <1>1, HeldJob DEF JobsInv, BodyInv
<1>3. UNCHANGED << state, dispatched, chunks, bodies, completed >>
    BY DEF BodyReturns, BodyThrows
<1>4. PICK x \in {"post", "latch"} : worker' = [worker EXCEPT ![w].pc = x]
    BY DEF BodyReturns, BodyThrows
<1>5. /\ \A v \in Worker : worker'[v].job = worker[v].job
      /\ worker'[w].pc = x
      /\ \A v \in Worker : v # w => worker'[v].pc = worker[v].pc
    BY <1>4, OneWorker, TypeFacts DEF Pc
<1>6. \A v \in Worker : v # w /\ worker[v].pc \in {"body", "done"} => worker[v].job # j
    BY <1>1 DEF JobsInv, HoldsInv, Holds, Busy, IdlePc
<1>7. j \notin PostedJobs /\ PostedJobs' = PostedJobs
    <2>1. ~Posted(j)
        BY <1>1, <1>2, <1>6 DEF Posted
    <2>2. \A i \in Job : Posted(i)' <=> Posted(i)
        BY <1>1, <1>3, <1>5 DEF Posted
    <2>3. QED
        BY <2>1, <2>2 DEF PostedJobs
<1>8. InBody(j) /\ ~InBody(j)' /\ j' = j
    <2>1. InBody(j)
        BY <1>1 DEF InBody
    <2>2. \A v \in Worker : worker'[v].pc = "body" => v # w /\ worker[v].job # j
        BY <1>5, <1>6
    <2>3. \A v \in Worker : worker'[v].pc = "body" => worker'[v].job # j
        BY <1>5, <2>2
    <2>4. j' = j
        BY <1>5
    <2> HIDE DEF j
    <2>5. QED
        BY <2>1, <2>3, <2>4 DEF InBody
<1>9. \A i \in Job : i # j => (InBody(i)' <=> InBody(i))
    BY <1>1, <1>5 DEF InBody
<1> HIDE DEF j
<1>10. j \notin ReturnedJobs /\ ReturnedJobs' = ReturnedJobs \cup {j}
    BY <1>2, <1>3, <1>8, <1>9 DEF ReturnedJobs
<1>11. /\ CancelledHandles' = CancelledHandles /\ DoneJobs' = DoneJobs
       /\ state'[Combined].done = state[Combined].done
    BY <1>3 DEF CancelledHandles, DoneJobs
<1>12. PICK i \in Job : i = j
    BY <1>2
<1>13. Life!Return(i)
    BY <1>2, <1>3, <1>7, <1>10, <1>11, <1>12
       DEF Life!Return, ReturnedJobs, PostedJobs, CancelledHandles, DoneJobs
<1>14. QED
    BY <1>13

LEMMA PostLife ==
    ASSUME TypeOK, JobsInv, NEW w \in Worker, PostCompletion(w)
    PROVE  Life!Post(worker[w].job)
<1> DEFINE j == worker[w].job
<1>1. worker[w].pc = "post" /\ Holds(w)
    BY DEF PostCompletion, Holds, Busy, IdlePc
<1>2. /\ j \in Job /\ j \in Handle /\ ~state[j].done /\ j \in 1..dispatched
      /\ Ran(j) /\ bodies[j] \in {0, 1} /\ Combined \in Handle
    BY <1>1, HeldJob, TypeFacts DEF JobsInv, BodyInv, WorkerInv, Holds
<1>3. UNCHANGED << state, dispatched, chunks, bodies, completed >>
    BY DEF PostCompletion
<1>4. /\ \A v \in Worker : worker'[v].job = worker[v].job
      /\ worker'[w].pc = "done"
      /\ \A v \in Worker : v # w => worker'[v].pc = worker[v].pc
    BY OneWorker, TypeFacts DEF PostCompletion, Pc
<1>5. \A v \in Worker : v # w /\ worker[v].pc \in {"body", "done"} => worker[v].job # j
    BY <1>1 DEF JobsInv, HoldsInv, Holds, Busy, IdlePc
<1>6. ~Posted(j) /\ Posted(j)' /\ ~InBody(j) /\ j' = j
    BY <1>1, <1>2, <1>4, <1>5 DEF Posted, InBody
<1>7. /\ \A i \in Job : i # j => (Posted(i)' <=> Posted(i))
      /\ \A i \in Job : InBody(i)' <=> InBody(i)
    BY <1>1, <1>3, <1>4 DEF Posted, InBody
<1>8. j \in ReturnedJobs \/ (bodies[j] = 0 /\ (IF j \in chunks THEN Combined ELSE j) \in CancelledHandles)
    <2>1. CASE bodies[j] = 1
        BY <1>2, <1>6, <2>1 DEF ReturnedJobs
    <2>2. CASE bodies[j] = 0
        BY <1>2, <2>2 DEF Ran, Cancelled, CancelledHandles
    <2>3. QED
        BY <1>2, <2>1, <2>2
<1> HIDE DEF j
<1>9. j \notin PostedJobs /\ PostedJobs' = PostedJobs \cup {j}
    BY <1>2, <1>6, <1>7 DEF PostedJobs
<1>10. ReturnedJobs' = ReturnedJobs
    BY <1>3, <1>7 DEF ReturnedJobs
<1>11. /\ CancelledHandles' = CancelledHandles /\ DoneJobs' = DoneJobs
       /\ state'[Combined].done = state[Combined].done
    BY <1>3 DEF CancelledHandles, DoneJobs
<1>12. Life!Post(j)
    BY <1>2, <1>3, <1>8, <1>9, <1>10, <1>11
       DEF Life!Post, Life!Cancelled, ReturnedJobs, PostedJobs, CancelledHandles, DoneJobs
<1>13. QED
    BY <1>12 DEF j

\* The latch is zero: every chunk was dispatched, and its body has come to its end.
LEMMA AllCounted ==
    ASSUME TypeOK, LatchInv, remaining = 0
    PROVE  Cardinality(chunks) = NumChunks /\ Counted = chunks
<1>1. NumChunks <= Cardinality(Counted) /\ Cardinality(chunks) <= NumChunks
    BY ChunksFinite, TypeFacts DEF LatchInv, PoolAssumption
<1>2. Cardinality(Counted) = Cardinality(chunks) /\ Cardinality(chunks) = NumChunks
    BY <1>1, ChunksFinite DEF PoolAssumption
<1>3. QED
    BY <1>2, ChunksFinite, FS_Subset

LEMMA FinishLife ==
    ASSUME TypeOK, JobsInv, LatchInv, NEW w \in Worker, StoreDone(w)
    PROVE  (\E i \in Job : Life!Finish(i)) \/ Life!Join
<1> DEFINE j == worker[w].job
<1>1. UNCHANGED << dispatched, chunks, bodies, completed >>
    BY DEF StoreDone
<1>2. state \in [Handle -> [done : BOOLEAN, cancelled : BOOLEAN]]
    BY DEF TypeOK
<1>3. \A i \in Job : i \in Handle /\ i # Combined
    BY TypeFacts
<1>4. CASE /\ worker[w].pc = "done"
           /\ state' = [state EXCEPT ![j].done = TRUE]
           /\ worker' = [worker EXCEPT ![w].pc = "notify"]
    <2>1. j \in Job /\ ~state[j].done
        BY <1>4, HeldJob DEF Holds, Busy, IdlePc
    <2>2. /\ state'[j].done /\ \A h \in Handle : h # j => state'[h].done = state[h].done
          /\ \A h \in Handle : state'[h].cancelled = state[h].cancelled
        BY <1>2, <1>3, <1>4, <2>1
    <2>3. /\ \A v \in Worker : worker'[v].job = worker[v].job
          /\ worker'[w].pc = "notify"
          /\ \A v \in Worker : v # w => worker'[v].pc = worker[v].pc
        BY <1>4, OneWorker, TypeFacts DEF Pc
    <2>4. \A i \in Job : InBody(i)' <=> InBody(i)
        BY <1>4, <2>3 DEF InBody
    <2>5. Posted(j) /\ Posted(j)' /\ j' = j
        BY <1>4, <2>2, <2>3 DEF Posted
    <2>6. \A i \in Job : i # j => (Posted(i)' <=> Posted(i))
        BY <1>3, <1>4, <2>2, <2>3 DEF Posted
    <2> HIDE DEF j
    <2>7. j \in PostedJobs /\ PostedJobs' = PostedJobs
        BY <2>1, <2>5, <2>6 DEF PostedJobs
    <2>8. ReturnedJobs' = ReturnedJobs
        BY <1>1, <2>4 DEF ReturnedJobs
    <2>9. j \notin DoneJobs /\ DoneJobs' = DoneJobs \cup {j}
        BY <1>2, <1>3, <2>1, <2>2 DEF DoneJobs
    <2>10. /\ CancelledHandles' = CancelledHandles
           /\ state'[Combined].done = state[Combined].done
        BY <1>3, <2>1, <2>2, TypeFacts DEF CancelledHandles
    <2>11. PICK i \in Job : i = j
        BY <2>1
    <2>12. Life!Finish(i)
        BY <1>1, <2>7, <2>8, <2>9, <2>10, <2>11
           DEF Life!Finish, ReturnedJobs, PostedJobs, CancelledHandles, DoneJobs
    <2>13. QED
        BY <2>12
<1>5. CASE /\ worker[w].pc = "latch"
           /\ state' = [state EXCEPT ![Combined].done = TRUE]
           /\ worker' = [worker EXCEPT ![w].pc = "latchNotify"]
    <2>1. Cardinality(chunks) = NumChunks /\ chunks \subseteq ReturnedJobs
        <3>1. remaining = 0
            BY <1>5 DEF LatchInv
        <3>2. Cardinality(chunks) = NumChunks /\ Counted = chunks /\ \A i \in chunks : i \in Job
            BY <3>1, AllCounted, TypeFacts
        <3>3. QED
            BY <3>2 DEF Counted, ReturnedJobs
    <2>2. /\ \A i \in Job : state'[i].done = state[i].done
          /\ \A h \in Handle : state'[h].cancelled = state[h].cancelled
          /\ state'[Combined].done = TRUE
        BY <1>2, <1>3, <1>5, TypeFacts
    <2>3. SameInside
        BY <1>5, <2>2, OneWorkerInside DEF Pc
    <2>4. /\ ReturnedJobs' = ReturnedJobs /\ PostedJobs' = PostedJobs
          /\ CancelledHandles' = CancelledHandles /\ DoneJobs' = DoneJobs
        BY <1>1, <2>2, <2>3, LifeSets DEF CancelledHandles, DoneJobs
    <2>5. Life!Join
        BY <1>1, <2>1, <2>2, <2>4, SameCardinality
           DEF Life!Join, ReturnedJobs, PostedJobs, CancelledHandles, DoneJobs
    <2>6. QED
        BY <2>5
<1>6. QED
    BY <1>4, <1>5 DEF StoreDone

LEMMA NotifyStutters ==
    ASSUME TypeOK, NEW w \in Worker, NotifyWaiters(w)
    PROVE  UNCHANGED Life!lifeVars
<1>1. /\ UNCHANGED << state, dispatched, chunks, bodies, completed >>
      /\ SameHandles /\ SameJobs
    BY DEF NotifyWaiters, SameHandles, SameJobs
<1>2. CASE worker[w].pc = "notify" /\ worker' = [worker EXCEPT ![w] = [pc |-> "loop", job |-> Combined]]
    <2>1. /\ worker'[w].pc = "loop"
          /\ \A v \in Worker : v # w => worker'[v] = worker[v]
        BY <1>2, TypeFacts
    <2>2. SameInside
        BY <1>1, <1>2, <2>1 DEF SameInside, InBody, Posted
    <2>3. QED
        BY <1>1, <2>2, LifeStutters
<1>3. CASE worker[w].pc = "latchNotify" /\ worker' = [worker EXCEPT ![w].pc = "post"]
    <2>1. SameInside
        BY <1>1, <1>3, OneWorkerInside DEF Pc
    <2>2. QED
        BY <1>1, <2>1, LifeStutters
<1>4. QED
    BY <1>2, <1>3 DEF NotifyWaiters

LEMMA JobMoves ==
    /\ \A j \in Job : \/ Life!Submit(j) \/ Life!Start(j) \/ Life!Return(j) \/ Life!Post(j)
                      \/ Life!Finish(j) \/ Life!Complete(j)
                      => Life!Next
    /\ Life!Join => Life!Next
<1>1. \A j \in Job : \/ Life!Submit(j) \/ Life!Start(j) \/ Life!Return(j) \/ Life!Post(j)
                    \/ Life!Finish(j) \/ Life!Complete(j)
                    => Life!Next
    BY Zenon DEF Life!Next
<1>2. Life!Join => Life!Next
    BY Zenon DEF Life!Next
<1>3. QED
    BY <1>1, <1>2

LEMMA LifeStep ==
    ASSUME IInv, IInv', [Next]_vars
    PROVE  [Life!Next]_(Life!lifeVars)
<1>1. TypeOK /\ CallInv /\ JobsInv /\ LatchInv /\ TypeOK' /\ LatchInv'
    BY DEF IInv, JobsInv
<1>2. ASSUME NEW w \in Worker, StoreDone(w)
      PROVE  Life!Next
    BY <1>1, <1>2, FinishLife, JobMoves
<1>3. CASE Calm
    <2>1. CASE \E c \in {Main} \cup Thread, h \in Handle : Cancel(c, h)
        <3>1. PICK h \in Handle : Life!Cancel(h)
            BY <1>1, <2>1, CancelLife
        <3>2. QED
            BY <3>1 DEF Life!Next, Handle
    <2>2. CASE state' = state
        <3>1. IdleMoves /\ SameHandles /\ SameJobs
            BY <1>3, <2>2 DEF Calm, SameHandles, SameJobs
        <3>2. SameInside
            BY <2>2, <3>1, IdleInside
        <3>3. QED
            BY <1>1, <3>1, <3>2, LifeStutters
    <2>3. QED
        BY <1>1, <1>2, <2>1, <2>2, HandlesStep
<1>4. CASE RunTask
    BY <1>1, <1>4, CompleteLife, JobMoves
<1>5. ASSUME NEW c \in Caller, Dispatches(c, dispatched + 1)
      PROVE  Life!Next
    <2>1. Life!Submit(dispatched + 1)
        BY <1>1, <1>5, SubmitLife
    <2>2. dispatched + 1 \in Job
        BY <1>5 DEF Dispatches
    <2>3. QED
        BY <2>1, <2>2, JobMoves, Zenon
<1>6. CASE (\E c \in Caller : DispatchPush(c)) \/ (\E w \in Worker : WorkerTake(w))
    BY <1>1, <1>6, MovesStutter
<1>7. ASSUME NEW w \in Worker, WorkerStart(w)
      PROVE  [Life!Next]_(Life!lifeVars)
    <2>1. worker[w].job \in Job
        BY <1>1, <1>7, HeldJob DEF WorkerStart, Holds, Busy, IdlePc
    <2>2. Life!Start(worker[w].job) \/ UNCHANGED Life!lifeVars
        BY <1>1, <1>7, StartLife
    <2>3. QED
        BY <2>1, <2>2, JobMoves, Zenon
<1>8. ASSUME NEW w \in Worker, BodyReturns(w) \/ BodyThrows(w)
      PROVE  Life!Next
    BY <1>1, <1>8, ReturnLife, JobMoves
<1>9. ASSUME NEW w \in Worker, PostCompletion(w)
      PROVE  Life!Next
    <2>1. worker[w].job \in Job
        BY <1>1, <1>9, HeldJob DEF PostCompletion, Holds, Busy, IdlePc
    <2>2. Life!Post(worker[w].job)
        BY <1>1, <1>9, PostLife
    <2>3. QED
        BY <2>1, <2>2, JobMoves, Zenon
<1>10. ASSUME NEW w \in Worker, NotifyWaiters(w)
       PROVE  UNCHANGED Life!lifeVars
    BY <1>1, <1>10, NotifyStutters
<1>11. QED
    BY <1>1, <1>2, <1>3, <1>4, <1>5, <1>6, <1>7, <1>8, <1>9, <1>10, StepKinds

LEMMA LifeInit ==
    ASSUME Init
    PROVE  Life!Init
<1>1. /\ dispatched = 0 /\ chunks = {}
      /\ bodies = [j \in Job |-> 0] /\ completed = [j \in Job |-> 0]
      /\ \A w \in Worker : worker[w].pc \in {"none", "loop"}
      /\ \A h \in Handle : state[h].done = FALSE /\ state[h].cancelled = FALSE
    BY DEF Init
<1>2. Combined \in Handle /\ \A j \in Job : j \in Handle
    BY DEF Handle
<1>3. CancelledHandles = {} /\ DoneJobs = {} /\ state[Combined].done = FALSE
    BY <1>1, <1>2 DEF CancelledHandles, DoneJobs
<1>4. ReturnedJobs = {} /\ PostedJobs = {}
    BY <1>1, <1>2 DEF ReturnedJobs, PostedJobs, Posted
<1>5. 1..dispatched = {}
    BY <1>1
<1>6. QED
    BY <1>1, <1>3, <1>4, <1>5
       DEF Life!Init, CancelledHandles, DoneJobs, ReturnedJobs, PostedJobs

\* ImplementsLife: whatever dispatch, workers, cancel, resize and shutdown interleave, and
\* whoever dispatches, each job lives as JobLife says: its body runs at most once and not after
\* it was cancelled, its completion is handed over after the body and before done is set, runs
\* once, and the handle of a parallel_for whose chunks return is done after all of them.
THEOREM LifeRefinement == Spec => ImplementsLife
<1>1. Init => Life!Init
    BY LifeInit
<1>2. IInv /\ IInv' /\ [Next]_vars => [Life!Next]_(Life!lifeVars)
    BY LifeStep
<1>3. QED
    BY <1>1, <1>2, Inductive, PTL DEF Spec, ImplementsLife, Life!Spec
=============================================================================
