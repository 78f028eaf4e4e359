-------------------------------- MODULE WarmPool --------------------------------
(***************************************************************************)
(* SubprocessWorkerPool: the warm CUDA children of one GPU, the tasks run  *)
(* on them, the threads that construct their replacements, the containment *)
(* of a faulted context and the shutdown.  A step is the code between two  *)
(* points where another coroutine or thread can run: a section under       *)
(* pool.lock, the end of a blocking shutdown or constructor, the end of a  *)
(* wait.                                                                   *)
(***************************************************************************)
EXTENDS Naturals, FiniteSets

CONSTANTS
    Callers,       \* coroutines in execute_task
    Kids,          \* CUDA child processes; an id returns once its child is gone
    PoolSize,
    MaxFailures,   \* max_replacement_failures
    MaxGen,        \* bound on the pool generations in which a new fault appears
    None

ASSUME PoolAssumption ==
    /\ IsFiniteSet(Kids)
    /\ None \notin Callers \cup Kids
    /\ Callers \cap Kids = {}
    /\ PoolSize \in Nat \ {0}
    /\ MaxFailures \in Nat \ {0}
    /\ MaxGen \in Nat

VARIABLES
    proc,      \* each child: "none", "starting", "live"; without proof of an empty tree: "exited",
               \* or "stillborn" when its constructor failed
    flag,      \* children whose is_alive_flag is set
    work,      \* children whose task may still be running CUDA work
    pool,      \* the pool's lists, counters, epochs and health
    retained,  \* _UNREAPED_WORKER_HANDLES
    tickets,   \* active replenishment tickets: <<holder, generation>>
    call,      \* each execute_task
    thread,    \* each replenishment thread with its callback, under the child it constructs
    rlock,     \* holder of _recovery_lock
    stop       \* _shutdown_once

vars == <<proc, flag, work, pool, retained, tickets, call, thread, rlock, stop>>

Health == {"healthy", "degraded_check", "suspect", "bootstrap_failed", "quarantined"}

IdleCall == [pc |-> "idle", kid |-> None, epoch |-> 0, gen |-> 0, val |-> FALSE, fill |-> FALSE,
             set |-> {}, num |-> 0, fresh |-> None, out |-> "none"]

NoThread == [pc |-> "none", gen |-> 0, val |-> FALSE, gpu |-> FALSE, set |-> {}]

\* The pool after _init_workers.
Init ==
    \E W \in SUBSET Kids :
      /\ Cardinality(W) = PoolSize
      /\ proc = [k \in Kids |-> IF k \in W THEN "live" ELSE "none"]
      /\ flag = W
      /\ work = {}
      /\ pool = [workers |-> W, idle |-> W, busy |-> {}, retiring |-> {}, repl |-> 0, retire |-> 0,
                 gen |-> 0, epoch |-> 0, health |-> "healthy", spec |-> 0, fails |-> 0,
                 closing |-> FALSE, unsafe |-> FALSE]
      /\ retained = {}
      /\ tickets = {}
      /\ call = [c \in Callers |-> IdleCall]
      /\ thread = [k \in Kids |-> NoThread]
      /\ rlock = None
      /\ stop = [pc |-> "none", set |-> {}, late |-> {}, bad |-> FALSE, drained |-> FALSE, safe |-> FALSE]

-----------------------------------------------------------------------------
(* Shared pieces.                                                          *)

Alive(k) == k \in flag /\ proc[k] = "live"

\* _tracked_workers_locked
Tracked == pool.workers \cup pool.idle \cup pool.busy \cup retained

Local(c) == {call[c].kid, call[c].fresh} \cup call[c].set

\* Ids that no list, thread or coroutine refers to.
Fresh == {k \in Kids : /\ proc[k] = "none" /\ thread[k].pc = "none"
                       /\ k \notin Tracked \cup pool.retiring
                       /\ \A c \in Callers : k \notin Local(c)
                       /\ \A j \in Kids : k \notin thread[j].set
                       /\ k \notin stop.set \cup stop.late}

NewKids(n) == {N \in SUBSET Fresh : Cardinality(N) = n}

\* _record_worker_reap_result: a handle is dropped only with the proof.
Records(S, ok) == retained' = (retained \ ok) \cup (S \ ok)

\* PersistentWorker.shutdown of the children S, run side by side; exit is proven for ok.
Reap(S, ok) ==
    /\ ok \subseteq S
    /\ \A k \in S : proc[k] = "none" => k \in ok
    /\ proc' = [k \in Kids |-> IF k \in ok THEN "none" ELSE proc[k]]
    /\ flag' = flag \ S
    /\ work' = work \ ok
    /\ Records(S, ok)

Emptied(p) == [p EXCEPT !.workers = {}, !.idle = {}, !.busy = {}, !.gen = @ + 1, !.repl = 0, !.spec = 0]

\* The locked part of _quarantine_unreaped_context.
Unsafe(p) == [Emptied(p) EXCEPT !.epoch = @ + 1, !.unsafe = TRUE, !.health = "quarantined"]

\* Fault: constructors under way are not counted.
Need_Members(p) ==
    IF p.closing \/ p.health # "healthy" \/ Cardinality(p.workers) + p.retire >= PoolSize THEN 0
    ELSE PoolSize - (Cardinality(p.workers) + p.retire)

\* _ensure_capacity_locked: how many constructors it starts in p.
Need(p) ==
    IF p.closing \/ p.health # "healthy" THEN 0
    ELSE LET have == Cardinality(p.workers) + p.repl + p.retire
         IN  IF have < PoolSize THEN PoolSize - have ELSE 0

\* The pool becomes p, topped up; th and tk are the threads and tickets without the new ones.
TopUp(p, th, tk) ==
    \E N \in NewKids(Need(p)) :
      /\ pool' = [p EXCEPT !.repl = @ + Cardinality(N)]
      /\ thread' = [k \in Kids |-> IF k \in N THEN [NoThread EXCEPT !.pc = "begin", !.gen = p.gen] ELSE th[k]]
      /\ tickets' = tk \cup (N \X {p.gen})

\* Fault: one's own ticket is waited for, too.
Older_OrOwn(g) == \E t \in tickets : t[2] <= g

Older(g) == \E t \in tickets : t[2] < g

\* _wait_for_all_replenishments
Drained == tickets = {}

\* WorkerInitializationError: a child that may be left makes it a failure of the GPU.
Failures == {f \in [reaped : BOOLEAN, gpu : BOOLEAN] : ~f.reaped => f.gpu}

Calls(c, r) == call' = [call EXCEPT ![c] = r]

\* The attempt is over; the finally block follows.
Leave(c, out) == Calls(c, [IdleCall EXCEPT !.pc = "return", !.kid = call[c].kid, !.out = out])

-----------------------------------------------------------------------------
(* _get_idle_worker.                                                       *)

Admits == pool.health = "healthy" \/ (pool.health = "degraded_check" /\ pool.spec > 0)

Searching(c) ==
    /\ call[c].pc = "idle"
    /\ ~pool.closing
    /\ pool.health \in {"healthy", "degraded_check"}

Dead == {k \in Tracked : k \notin pool.busy /\ k \notin pool.retiring /\ ~Alive(k)}

DetachDead(c) ==
    /\ Searching(c)
    /\ Dead # {}
    /\ pool' = [pool EXCEPT !.retire = @ + Cardinality(Dead), !.workers = @ \ Dead, !.idle = @ \ Dead]
    /\ tickets' = tickets \cup {<<c, pool.gen>>}
    /\ Calls(c, [IdleCall EXCEPT !.pc = "reap", !.gen = pool.gen, !.set = Dead, !.num = Cardinality(Dead)])
    /\ UNCHANGED <<proc, flag, work, retained, thread, rlock, stop>>

Dispatch(c) ==
    /\ Searching(c)
    /\ Dead = {}
    /\ \A k \in pool.busy \ pool.retiring : Alive(k)
    /\ Admits
    /\ \E k \in pool.idle :
         /\ TopUp([pool EXCEPT !.idle = @ \ {k}, !.busy = @ \cup {k},
                               !.spec = IF pool.health = "degraded_check" THEN @ - 1 ELSE @], thread, tickets)
         /\ work' = work \cup {k}
         /\ Calls(c, [IdleCall EXCEPT !.pc = "run", !.kid = k, !.epoch = pool.epoch])
    /\ UNCHANGED <<proc, flag, retained, rlock, stop>>

\* The end of _reap_detached_workers: in p the retirement is over.
Detached(c, p) ==
    /\ TopUp([p EXCEPT !.retire = @ - call[c].num], thread, tickets \ {<<c, call[c].gen>>})
    /\ Calls(c, IdleCall)

ReapDead(c) ==
    /\ call[c].pc = "reap"
    /\ Reap(call[c].set, call[c].set)
    /\ Detached(c, pool)
    /\ UNCHANGED <<rlock, stop>>

ReapDeadUnproven(c) ==
    /\ call[c].pc = "reap"
    /\ \E ok \in SUBSET call[c].set :
         /\ ok # call[c].set
         /\ Reap(call[c].set, ok)
         /\ Calls(c, [call[c] EXCEPT !.pc = "reapRest", !.set = (Tracked \cup @) \ ok])
    /\ pool' = Unsafe(pool)
    /\ UNCHANGED <<tickets, thread, rlock, stop>>

ReapRest(c) ==
    /\ call[c].pc = "reapRest"
    /\ \E ok \in SUBSET call[c].set : Reap(call[c].set, ok)
    /\ Detached(c, pool)
    /\ UNCHANGED <<rlock, stop>>

-----------------------------------------------------------------------------
(* The task on its child.                                                  *)

Running(c) == call[c].pc = "run"

\* A result of a child that stays warm.
Finish(c) ==
    /\ Running(c)
    /\ Alive(call[c].kid)
    /\ work' = work \ {call[c].kid}
    /\ Leave(c, "result")
    /\ UNCHANGED <<proc, flag, pool, retained, tickets, thread, rlock, stop>>

\* A result without a device fault, of a child that is to be recycled: the task
\* limit, out of memory, a profiler drop-out.
FinishRetiring(c) ==
    /\ Running(c)
    /\ proc[call[c].kid] = "live"
    /\ work' = work \ {call[c].kid}
    /\ flag' = flag \ {call[c].kid}
    /\ Calls(c, [call[c] EXCEPT !.pc = "restart", !.val = FALSE])
    /\ UNCHANGED <<proc, pool, retained, tickets, thread, rlock, stop>>

\* A result with a fault of the CUDA context; the child exits after it.
ContextFault(c) ==
    /\ Running(c)
    /\ proc[call[c].kid] = "live"
    /\ pool.gen < MaxGen
    /\ work' = work \ {call[c].kid}
    /\ flag' = flag \ {call[c].kid}
    /\ Calls(c, [call[c] EXCEPT !.pc = "validate"])
    /\ UNCHANGED <<proc, pool, retained, tickets, thread, rlock, stop>>

\* No result: a time-out, a cancelled task or waiter.  The work goes on.
Abandon(c) ==
    /\ Running(c)
    /\ pool.gen < MaxGen
    /\ flag' = flag \ {call[c].kid}
    /\ Calls(c, [call[c] EXCEPT !.pc = "recover"])
    /\ UNCHANGED <<proc, work, pool, retained, tickets, thread, rlock, stop>>

\* The child died, or was shut down by somebody else: _crash_result.
Crashed(c) ==
    /\ Running(c)
    /\ proc[call[c].kid] # "live"
    /\ flag' = flag \ {call[c].kid}
    /\ Calls(c, [call[c] EXCEPT !.pc = "recover"])
    /\ UNCHANGED <<proc, work, pool, retained, tickets, thread, rlock, stop>>

\* A child exits by itself; its tree may have left descendants.
Exits(k) ==
    /\ proc[k] = "live"
    /\ pool.gen < MaxGen
    /\ proc' = [proc EXCEPT ![k] = "exited"]
    /\ UNCHANGED <<flag, work, pool, retained, tickets, call, thread, rlock, stop>>

\* The finally block: _return_worker.
Return(c) ==
    LET k == call[c].kid
        back == IF k \in pool.workers /\ Alive(k) THEN {k} ELSE {}
    IN
    /\ call[c].pc = "return"
    /\ TopUp([pool EXCEPT !.busy = @ \ {k}, !.idle = @ \cup back], thread, tickets)
    /\ Calls(c, IdleCall)
    /\ UNCHANGED <<proc, flag, work, retained, rlock, stop>>

-----------------------------------------------------------------------------
(* A context fault, and the replacement of a child.                        *)

\* _begin_context_fault_validation
BeginValidation(c) ==
    /\ call[c].pc = "validate"
    /\ call[c].epoch = pool.epoch
    /\ ~pool.closing
    /\ pool.health = "healthy"
    /\ pool' = [pool EXCEPT !.gen = @ + 1, !.repl = 0, !.health = "degraded_check", !.spec = 1]
    /\ Calls(c, [call[c] EXCEPT !.pc = "restart", !.val = TRUE, !.gen = pool.gen + 1])
    /\ UNCHANGED <<proc, flag, work, retained, tickets, thread, rlock, stop>>

\* A fault reported late, or a second one before the first is validated.
Escalate(c) ==
    /\ call[c].pc = "validate"
    /\ call[c].epoch # pool.epoch \/ pool.closing \/ pool.health # "healthy"
    /\ Calls(c, [call[c] EXCEPT !.pc = "recover"])
    /\ UNCHANGED <<proc, flag, work, pool, retained, tickets, thread, rlock, stop>>

\* _restart_worker detaches the child; with val the replacement is the validation.
BeginRestart(c) ==
    LET k == call[c].kid
        p == [pool EXCEPT !.workers = @ \ {k}, !.idle = @ \ {k}, !.busy = @ \ {k}]
        fill == IF call[c].val
                THEN call[c].gen = p.gen /\ p.health = "degraded_check"
                ELSE p.health = "healthy" /\ Cardinality(p.workers) + p.repl + p.retire < PoolSize
    IN
    /\ call[c].pc = "restart"
    /\ pool' = [p EXCEPT !.repl = IF fill THEN @ + 1 ELSE @, !.retire = @ + 1, !.retiring = @ \cup {k}]
    /\ retained' = retained \cup {k}
    /\ tickets' = tickets \cup {<<c, pool.gen>>}
    /\ Calls(c, [call[c] EXCEPT !.pc = "retire", !.fill = fill, !.num = pool.gen])
    /\ UNCHANGED <<proc, flag, work, thread, rlock, stop>>

\* The retirement is over, in p; the task's outcome is out.
Retired(c, p, th, tk, out) ==
    /\ TopUp([p EXCEPT !.retire = @ - 1, !.retiring = @ \ {call[c].kid}], th, tk \ {<<c, call[c].num>>})
    /\ Leave(c, out)

\* Fault: the answer of the child's shutdown is not looked at.
Retire_Trusting(c) ==
    /\ call[c].pc = "retire"
    /\ \E ok \in {{}, {call[c].kid}} : Reap({call[c].kid}, ok)
    /\ Retired(c, pool, thread, tickets, "contained")
    /\ UNCHANGED <<rlock, stop>>

Retire(c) ==
    /\ call[c].pc = "retire"
    /\ Reap({call[c].kid}, {call[c].kid})
    /\ IF call[c].fill
       THEN \E n \in Fresh :
              LET g == IF call[c].val THEN call[c].gen ELSE call[c].num
              IN  /\ pool' = [pool EXCEPT !.retire = @ - 1, !.retiring = @ \ {call[c].kid}]
                  /\ thread' = [thread EXCEPT ![n] = [NoThread EXCEPT !.pc = "begin", !.gen = g, !.val = call[c].val]]
                  /\ tickets' = (tickets \cup {<<n, g>>}) \ {<<c, call[c].num>>}
                  /\ Leave(c, "contained")
       ELSE Retired(c, pool, thread, tickets, "contained")
    /\ UNCHANGED <<rlock, stop>>

RetireUnproven(c) ==
    /\ call[c].pc = "retire"
    /\ Reap({call[c].kid}, {})
    /\ pool' = Unsafe(pool)
    /\ Calls(c, [call[c] EXCEPT !.pc = "retireRest", !.set = Tracked \cup {call[c].kid}])
    /\ UNCHANGED <<tickets, thread, rlock, stop>>

RetireRest(c) ==
    /\ call[c].pc = "retireRest"
    /\ \E ok \in SUBSET call[c].set : Reap(call[c].set, ok)
    /\ Retired(c, pool, thread, tickets, "unsafe")
    /\ UNCHANGED <<rlock, stop>>

-----------------------------------------------------------------------------
(* _recover_from_device_fault: one at a time, under _recovery_lock.        *)

RecoverEnter(c) ==
    /\ call[c].pc = "recover"
    /\ rlock = None
    /\ \/ /\ pool.closing
          /\ rlock' = c
          /\ Calls(c, [call[c] EXCEPT !.pc = "join"])
          /\ UNCHANGED <<pool, tickets>>
       \/ /\ ~pool.closing
          /\ pool.health = "quarantined" \/ call[c].epoch # pool.epoch
          /\ Leave(c, IF pool.health = "quarantined" /\ pool.unsafe THEN "unsafe" ELSE "contained")
          /\ UNCHANGED <<pool, tickets, rlock>>
       \/ /\ ~pool.closing
          /\ pool.health # "quarantined"
          /\ call[c].epoch = pool.epoch
          /\ pool' = [Emptied(pool) EXCEPT !.epoch = @ + 1, !.repl = 1, !.health = "suspect"]
          /\ tickets' = tickets \cup {<<c, pool.gen + 1>>}
          /\ rlock' = c
          /\ Calls(c, [call[c] EXCEPT !.pc = "contain", !.gen = pool.gen + 1, !.set = Tracked \cup {call[c].kid}])
    /\ UNCHANGED <<proc, flag, work, retained, thread, stop>>

Mine(c) == <<c, call[c].gen>>

\* Recovery ends inside; the wrapper looks at the pool again.
Recovered(c, p, tk) ==
    /\ tickets' = tk \ {Mine(c)}
    /\ IF p.closing /\ ~p.unsafe
       THEN Calls(c, [call[c] EXCEPT !.pc = "join", !.set = {}, !.fresh = None]) /\ UNCHANGED rlock
       ELSE Leave(c, IF p.unsafe THEN "unsafe" ELSE "contained") /\ rlock' = None

\* Every earlier context is shut down.
Contain(c) ==
    /\ call[c].pc = "contain"
    /\ Reap(call[c].set, call[c].set)
    /\ Calls(c, [call[c] EXCEPT !.pc = "drain", !.set = {}])
    /\ UNCHANGED <<pool, tickets, thread, rlock, stop>>

Current(c) == call[c].gen = pool.gen /\ ~pool.closing

ContainUnproven(c) ==
    /\ call[c].pc = "contain"
    /\ \E ok \in SUBSET call[c].set : ok # call[c].set /\ Reap(call[c].set, ok)
    /\ pool' = IF Current(c)
               THEN [pool EXCEPT !.unsafe = TRUE, !.repl = 0, !.health = "quarantined", !.spec = 0]
               ELSE [pool EXCEPT !.unsafe = TRUE]
    /\ tickets' = tickets \ {Mine(c)}
    /\ rlock' = None
    /\ Leave(c, "unsafe")
    /\ UNCHANGED <<thread, stop>>

\* Fault: the constructors of older generations are not waited for.
Probe_Hasty(c) ==
    /\ call[c].pc = "drain"
    /\ Current(c) /\ pool.health = "suspect"
    /\ \E n \in Fresh :
         /\ proc' = [proc EXCEPT ![n] = "starting"]
         /\ Calls(c, [call[c] EXCEPT !.pc = "probe", !.fresh = n])
    /\ UNCHANGED <<flag, work, pool, retained, tickets, thread, rlock, stop>>

\* _wait_for_older_replenishments, and the fresh context.
Probe(c) ==
    /\ call[c].pc = "drain"
    /\ ~Older(call[c].gen)
    /\ \/ /\ Current(c) /\ pool.health = "suspect"
          /\ \E n \in Fresh :
               /\ proc' = [proc EXCEPT ![n] = "starting"]
               /\ Calls(c, [call[c] EXCEPT !.pc = "probe", !.fresh = n])
          /\ UNCHANGED <<tickets, rlock>>
       \/ /\ ~(Current(c) /\ pool.health = "suspect")
          /\ Recovered(c, pool, tickets)
          /\ UNCHANGED proc
    /\ UNCHANGED <<flag, work, pool, retained, thread, stop>>

DrainTimeout(c) ==
    /\ call[c].pc = "drain"
    /\ Older(call[c].gen)
    /\ pool' = Unsafe(pool)
    /\ Calls(c, [call[c] EXCEPT !.pc = "containRest", !.set = Tracked])
    /\ UNCHANGED <<proc, flag, work, retained, tickets, thread, rlock, stop>>

ContainRest(c) ==
    /\ call[c].pc = "containRest"
    /\ \E ok \in SUBSET call[c].set : Reap(call[c].set, ok)
    /\ tickets' = tickets \ {Mine(c)}
    /\ rlock' = None
    /\ Leave(c, "unsafe")
    /\ UNCHANGED <<pool, thread, stop>>

Probed(c) ==
    LET n == call[c].fresh IN
    /\ call[c].pc = "probe"
    /\ proc' = [proc EXCEPT ![n] = "live"]
    /\ flag' = flag \cup {n}
    /\ IF Current(c) /\ pool.health = "suspect"
       THEN LET p == [pool EXCEPT !.repl = 0, !.workers = @ \cup {n}, !.idle = @ \cup {n}, !.fails = 0,
                                  !.health = "healthy"]
            IN  TopUp(p, thread, tickets \ {Mine(c)}) /\ Leave(c, "contained") /\ rlock' = None
       ELSE /\ Calls(c, [call[c] EXCEPT !.pc = "discard"])
            /\ UNCHANGED <<pool, tickets, thread, rlock>>
    /\ UNCHANGED <<work, retained, stop>>

ProbeFails(c) ==
    /\ call[c].pc = "probe"
    /\ proc' = [proc EXCEPT ![call[c].fresh] = "none"]
    /\ pool' = IF Current(c) /\ pool.health = "suspect"
               THEN [pool EXCEPT !.repl = 0, !.health = "quarantined"]
               ELSE pool
    /\ Recovered(c, pool, tickets)
    /\ UNCHANGED <<flag, work, retained, thread, stop>>

\* The constructor fails and cannot prove that its child is gone.
ProbeUnproven(c) ==
    LET n == call[c].fresh IN
    /\ call[c].pc = "probe"
    /\ proc' = [proc EXCEPT ![n] = "stillborn"]
    /\ retained' = retained \cup {n}
    /\ pool' = Unsafe(pool)
    /\ Calls(c, [call[c] EXCEPT !.pc = "containRest", !.set = Tracked \cup {n}])
    /\ UNCHANGED <<flag, work, tickets, thread, rlock, stop>>

DiscardProbe(c) ==
    LET n == call[c].fresh IN
    /\ call[c].pc = "discard"
    /\ \/ Reap({n}, {n}) /\ Recovered(c, pool, tickets) /\ UNCHANGED pool
       \/ /\ Reap({n}, {})
          /\ pool' = Unsafe(pool)
          /\ Calls(c, [call[c] EXCEPT !.pc = "containRest", !.set = Tracked \cup {n}])
          /\ UNCHANGED <<tickets, rlock>>
    /\ UNCHANGED <<thread, stop>>

\* _raise_shutdown_containment_result: the shutdown is the authority.
Join(c) ==
    /\ call[c].pc = "join"
    /\ stop.pc = "done"
    /\ rlock' = None
    /\ Leave(c, IF stop.safe THEN "taken" ELSE "unsafe")
    /\ UNCHANGED <<proc, flag, work, pool, retained, tickets, thread, stop>>

-----------------------------------------------------------------------------
(* A replenishment thread, and the callbacks it leaves to the event loop.  *)

Stale(k) == pool.closing \/ thread[k].gen # pool.gen

Closes(k) == tickets \ {<<k, thread[k].gen>>}

\* The thread ends with its ticket.
Ends(k) ==
    /\ thread' = [thread EXCEPT ![k] = NoThread]
    /\ tickets' = Closes(k)

Goes(k, pc) == thread' = [thread EXCEPT ![k].pc = pc] /\ UNCHANGED tickets

Build(k) ==
    /\ thread[k].pc = "begin"
    /\ thread[k].val => ~Older(thread[k].gen)
    /\ IF Stale(k) \/ (thread[k].val /\ pool.health # "degraded_check")
       THEN Ends(k) /\ UNCHANGED proc
       ELSE Goes(k, "build") /\ proc' = [proc EXCEPT ![k] = "starting"]
    /\ UNCHANGED <<flag, work, pool, retained, call, rlock, stop>>

\* A validation gives up waiting for the constructors of older generations.
BuildTimeout(k) ==
    /\ thread[k].pc = "begin"
    /\ thread[k].val
    /\ Older(thread[k].gen)
    /\ IF Stale(k) THEN Ends(k)
       ELSE thread' = [thread EXCEPT ![k].pc = "failed", ![k].gpu = TRUE] /\ UNCHANGED tickets
    /\ UNCHANGED <<proc, flag, work, pool, retained, call, rlock, stop>>

\* Fault: the handle is published with the registration only.
Built_Unretained(k) ==
    /\ thread[k].pc = "build"
    /\ proc' = [proc EXCEPT ![k] = "live"]
    /\ flag' = flag \cup {k}
    /\ Goes(k, "register")
    /\ UNCHANGED <<work, pool, retained, call, rlock, stop>>

\* READY: the handle is retained until the pool lists the child.
Built(k) ==
    /\ thread[k].pc = "build"
    /\ proc' = [proc EXCEPT ![k] = "live"]
    /\ flag' = flag \cup {k}
    /\ retained' = retained \cup {k}
    /\ Goes(k, "register")
    /\ UNCHANGED <<work, pool, call, rlock, stop>>

\* The constructor fails: at the CUDA probe or before it, its child reaped or not.
BuildFails(k) ==
    /\ thread[k].pc = "build"
    /\ \E f \in Failures :
         /\ proc' = [proc EXCEPT ![k] = IF f.reaped THEN "none" ELSE "stillborn"]
         /\ Records({k}, IF f.reaped THEN {k} ELSE {})
         /\ thread' = [thread EXCEPT ![k].pc = "failed", ![k].gpu = f.gpu]
    /\ UNCHANGED <<flag, work, pool, tickets, call, rlock, stop>>

Register(k) ==
    /\ thread[k].pc = "register"
    /\ ~Stale(k)
    /\ pool.health = IF thread[k].val THEN "degraded_check" ELSE "healthy"
    /\ LET p == [pool EXCEPT !.repl = IF @ > 0 THEN @ - 1 ELSE 0]
           q == [p EXCEPT !.workers = @ \cup {k}, !.idle = @ \cup {k}, !.fails = 0,
                          !.health = "healthy", !.spec = IF thread[k].val THEN 0 ELSE @]
       IN  IF Cardinality(pool.workers) < PoolSize
           THEN /\ TopUp(q, [thread EXCEPT ![k] = NoThread], Closes(k))
                /\ retained' = retained \ {k}
           ELSE /\ TopUp(p, [thread EXCEPT ![k].pc = "discard"], tickets)
                /\ UNCHANGED retained
    /\ UNCHANGED <<proc, flag, work, call, rlock, stop>>

RegisterStale(k) ==
    /\ thread[k].pc = "register"
    /\ Stale(k) \/ pool.health # IF thread[k].val THEN "degraded_check" ELSE "healthy"
    /\ Goes(k, "discard")
    /\ UNCHANGED <<proc, flag, work, pool, retained, call, rlock, stop>>

Discard(k) ==
    /\ thread[k].pc = "discard"
    /\ \/ Reap({k}, {k}) /\ Ends(k) /\ UNCHANGED pool
       \/ /\ Reap({k}, {})
          /\ pool' = Unsafe(pool)
          /\ thread' = [thread EXCEPT ![k].pc = "clear", ![k].gpu = FALSE, ![k].set = Tracked \cup {k}]
          /\ UNCHANGED tickets
    /\ UNCHANGED <<call, rlock, stop>>

\* _mark_failed
Failed(k) ==
    /\ thread[k].pc = "failed"
    /\ \/ Stale(k) /\ Ends(k) /\ UNCHANGED pool
       \/ /\ ~Stale(k)
          /\ thread[k].val \/ thread[k].gpu
          /\ pool' = [Emptied(pool) EXCEPT !.fails = @ + 1, !.health = "quarantined"]
          /\ thread' = [thread EXCEPT ![k].pc = "clear", ![k].gpu = TRUE, ![k].set = Tracked]
          /\ UNCHANGED tickets
       \/ /\ ~Stale(k)
          /\ ~thread[k].val /\ ~thread[k].gpu
          /\ IF pool.fails + 1 >= MaxFailures
             THEN /\ pool' = [pool EXCEPT !.fails = @ + 1, !.gen = @ + 1, !.repl = 0, !.spec = 0,
                                          !.health = "bootstrap_failed"]
                  /\ Ends(k)
             ELSE /\ pool' = [pool EXCEPT !.fails = @ + 1]
                  /\ Goes(k, "backoff")
    /\ UNCHANGED <<proc, flag, work, retained, call, rlock, stop>>

\* The shutdown of everything after a quarantine.  The first one, of _mark_failed,
\* turns into the unsafe one when a child of it is not proven gone.
Clear(k) ==
    /\ thread[k].pc = "clear"
    /\ \E ok \in SUBSET thread[k].set :
         /\ Reap(thread[k].set, ok)
         /\ IF ok # thread[k].set /\ thread[k].gpu
            THEN /\ pool' = Unsafe(pool)
                 /\ thread' = [thread EXCEPT ![k].gpu = FALSE, ![k].set = (Tracked \cup @) \ ok]
                 /\ UNCHANGED tickets
            ELSE Ends(k) /\ UNCHANGED pool
    /\ UNCHANGED <<call, rlock, stop>>

\* Fault: the failed constructor keeps its place.
BackoffOver_Counted(k) ==
    /\ thread[k].pc = "backoff"
    /\ TopUp(pool, [thread EXCEPT ![k] = NoThread], Closes(k))
    /\ UNCHANGED <<proc, flag, work, retained, call, rlock, stop>>

BackoffOver(k) ==
    /\ thread[k].pc = "backoff"
    /\ IF Stale(k) THEN Ends(k) /\ UNCHANGED pool
       ELSE TopUp([pool EXCEPT !.repl = IF @ > 0 THEN @ - 1 ELSE 0], [thread EXCEPT ![k] = NoThread], Closes(k))
    /\ UNCHANGED <<proc, flag, work, retained, call, rlock, stop>>

-----------------------------------------------------------------------------
(* _shutdown_once.                                                         *)

StopBegin ==
    /\ stop.pc = "none"
    /\ pool' = [Emptied(pool) EXCEPT !.closing = TRUE, !.spec = pool.spec]
    /\ stop' = [stop EXCEPT !.pc = "reap", !.set = Tracked]
    /\ UNCHANGED <<proc, flag, work, retained, tickets, call, thread, rlock>>

StopReap ==
    /\ stop.pc = "reap"
    /\ \E ok \in SUBSET stop.set :
         Reap(stop.set, ok) /\ stop' = [stop EXCEPT !.pc = "drain", !.bad = ok # stop.set]
    /\ UNCHANGED <<pool, tickets, call, thread, rlock>>

\* _wait_for_all_replenishments, or its time-out; then a second look.
StopDrain ==
    /\ stop.pc = "drain"
    /\ pool' = [pool EXCEPT !.workers = {}, !.idle = {}, !.busy = {}]
    /\ stop' = [stop EXCEPT !.pc = "late", !.late = Tracked \ stop.set, !.drained = Drained]
    /\ UNCHANGED <<proc, flag, work, retained, tickets, call, thread, rlock>>

\* Fault: the drain of the constructors does not count.
StopLate_Undrained ==
    /\ stop.pc = "late"
    /\ \E ok \in SUBSET stop.late :
         /\ Reap(stop.late, ok)
         /\ stop' = [stop EXCEPT !.pc = "done", !.set = {}, !.late = {},
                                  !.safe = ~stop.bad /\ ok = stop.late /\ ~pool.unsafe]
    /\ UNCHANGED <<pool, tickets, call, thread, rlock>>

StopLate ==
    /\ stop.pc = "late"
    /\ \E ok \in SUBSET stop.late :
         LET sure == stop.drained /\ ~stop.bad /\ ok = stop.late IN
         /\ Reap(stop.late, ok)
         /\ pool' = [pool EXCEPT !.unsafe = @ \/ ~sure]
         /\ stop' = [stop EXCEPT !.pc = "done", !.set = {}, !.late = {}, !.safe = sure /\ ~pool.unsafe]
    /\ UNCHANGED <<tickets, call, thread, rlock>>

Stop == StopBegin \/ StopReap \/ StopDrain \/ StopLate

-----------------------------------------------------------------------------
Task(c) ==
    \/ DetachDead(c) \/ Dispatch(c) \/ ReapDead(c) \/ ReapDeadUnproven(c) \/ ReapRest(c)
    \/ Finish(c) \/ FinishRetiring(c) \/ ContextFault(c) \/ Abandon(c) \/ Crashed(c) \/ Return(c)
    \/ BeginValidation(c) \/ Escalate(c) \/ BeginRestart(c) \/ Retire(c) \/ RetireUnproven(c) \/ RetireRest(c)
    \/ RecoverEnter(c) \/ Contain(c) \/ ContainUnproven(c) \/ Probe(c) \/ DrainTimeout(c) \/ ContainRest(c)
    \/ Probed(c) \/ ProbeFails(c) \/ ProbeUnproven(c) \/ DiscardProbe(c) \/ Join(c)

Replenish(k) ==
    \/ Build(k) \/ BuildTimeout(k) \/ Built(k) \/ BuildFails(k) \/ Register(k) \/ RegisterStale(k)
    \/ Discard(k) \/ Failed(k) \/ Clear(k) \/ BackoffOver(k)

Next ==
    \/ \E c \in Callers : Task(c)
    \/ \E k \in Kids : Replenish(k) \/ Exits(k)
    \/ Stop

Spec == Init /\ [][Next]_vars

\* Coroutines and threads run on; nothing makes a task fault, a child exit or the
\* pool close, and nothing relies on a drain timing out.
FairSpec ==
    /\ Spec
    /\ \A c \in Callers : WF_vars(Task(c) /\ (call[c].pc = "drain" => ~Older(call[c].gen)))
    /\ \A k \in Kids : WF_vars(Replenish(k) /\ (thread[k].pc = "begin" => ~BuildTimeout(k)))
    /\ WF_vars(StopReap \/ (StopDrain /\ Drained) \/ StopLate)

-----------------------------------------------------------------------------
(* Properties.                                                             *)

\* Types, with every point that a coroutine, a thread and the shutdown can be at.
CallPcs == {"idle", "reap", "reapRest", "run", "return", "validate", "restart", "retire", "retireRest",
            "recover", "contain", "drain", "probe", "discard", "containRest", "join"}

ThreadPcs == {"none", "begin", "build", "register", "failed", "discard", "clear", "backoff"}

PoolType ==
    [workers : SUBSET Kids, idle : SUBSET Kids, busy : SUBSET Kids, retiring : SUBSET Kids, repl : Nat,
     retire : Nat, gen : Nat, epoch : Nat, health : Health, spec : Nat, fails : Nat,
     closing : BOOLEAN, unsafe : BOOLEAN]

CallType ==
    [pc : CallPcs, kid : Kids \cup {None}, epoch : Nat, gen : Nat, val : BOOLEAN, fill : BOOLEAN,
     set : SUBSET Kids, num : Nat, fresh : Kids \cup {None},
     out : {"none", "result", "contained", "unsafe", "taken"}]

ThreadType == [pc : ThreadPcs, gen : Nat, val : BOOLEAN, gpu : BOOLEAN, set : SUBSET Kids]

StopType ==
    [pc : {"none", "reap", "drain", "late", "done"}, set : SUBSET Kids, late : SUBSET Kids,
     bad : BOOLEAN, drained : BOOLEAN, safe : BOOLEAN]

TypeOK ==
    /\ proc \in [Kids -> {"none", "starting", "live", "exited", "stillborn"}]
    /\ flag \subseteq Kids /\ work \subseteq Kids /\ retained \subseteq Kids
    /\ pool \in PoolType
    /\ tickets \subseteq (Callers \cup Kids) \X Nat
    /\ call \in [Callers -> CallType]
    /\ thread \in [Kids -> ThreadType]
    /\ rlock \in Callers \cup {None}
    /\ stop \in StopType

\* A shutdown that reports safe has left no CUDA process and no constructor that
\* could still make one, whatever threads and callbacks were under way.
SafeShutdownIsEmpty ==
    stop.pc = "done" /\ stop.safe => \A k \in Kids : proc[k] = "none"

\* The fresh context that decides whether a suspect GPU is usable is opened only
\* when every child that ever ran is gone, so that no old kernel can still write.
ProbeIsAlone ==
    \A c \in Callers : call[c].pc = "probe" =>
      \A k \in Kids \ {call[c].fresh} : proc[k] \in {"none", "stillborn"}

\* Whatever may hold the GPU is listed, retained, or in the hands of a coroutine or
\* thread with a ticket.
NoLostChild ==
    \A k \in Kids : proc[k] # "none" =>
      \/ k \in Tracked
      \/ thread[k].pc = "build"
      \/ k \in stop.set \cup stop.late
      \/ \E c \in Callers : k \in Local(c)
      \/ \E j \in Kids : k \in thread[j].set

\* What is idle or busy is a member of the pool, or is being retired, or is dead:
\* the branch of _get_idle_worker for a corrupt topology is never taken.
NoLiveOrphan ==
    \A k \in pool.idle \cup pool.busy : k \in pool.workers \cup pool.retiring \/ ~Alive(k)

\* The pool never loses the last handle of a process, and never serves one that it
\* does not count.
HandlesAreKept == NoLostChild /\ NoLiveOrphan

\* Members and pending constructors never exceed the pool size, whatever threads of
\* older generations finish late: the GPU is not loaded beyond what it was sized for.
CapacityIsBounded == Cardinality(pool.workers) + pool.repl <= PoolSize

EndsOrdinarily(c) == call[c].pc = "return" /\ call[c].out = "contained" /\ call[c]'.pc = "idle"

\* A task that faulted, timed out or retired its child ends with an ordinary
\* outcome only when the child is gone, or when the pool is quarantined and
\* hands the GPU to nobody: no later task shares the GPU with its kernels.
FaultIsContained ==
    [][\A c \in Callers : EndsOrdinarily(c) => proc[call[c].kid] = "none" \/ pool.health = "quarantined"]_vars

\* What execute_task says of a context that may still be alive: "Never turn that
\* state into an ordinary retry/result".
OrdinaryEndIsContained ==
    [][\A c \in Callers : EndsOrdinarily(c) => proc[call[c].kid] = "none"]_vars

\* A pool that checks a fault gets out of the check: it reopens, is quarantined,
\* or asks for a restart of the worker.
FaultIsDecided ==
    pool.health \in {"degraded_check", "suspect"}
      ~> pool.health \in {"healthy", "quarantined", "bootstrap_failed"} \/ pool.closing

\* Every task comes back: no recovery, retirement and shutdown wait on each other.
EveryCallReturns == \A c \in Callers : call[c].pc = "run" ~> call[c].pc = "idle"

\* Both: a call that reports a fault waits for the check, and the check for calls.
RecoveryEnds == FaultIsDecided /\ EveryCallReturns

\* An open pool at rest is full.
PoolRefills == <>[](pool.health = "healthy" /\ ~pool.closing) => []<>(Cardinality(pool.workers) = PoolSize)
=============================================================================
