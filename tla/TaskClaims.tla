------------------------------ MODULE TaskClaims ------------------------------
(***************************************************************************)
(* GPU worker processes taking tasks from the store of TaskStore: the      *)
(* admission gate, recovery of the inflight list, the claim scan, the      *)
(* execution of a task in a CUDA child, its terminal commit, and shutdown  *)
(* (worker/gpu_worker.py and the worker half of server/task_manager.py),   *)
(* with crashes, restarts and the supervisor's proof that a dead process   *)
(* left no CUDA child behind (worker/worker_monitor.py).                   *)
(*                                                                         *)
(* One action is the code between two awaits on Redis, so the coroutines   *)
(* of a process (the processing loop and stop()), the other processes and  *)
(* the control plane interleave as the event loops and Redis allow.        *)
(***************************************************************************)
EXTENDS TaskStore

CONSTANTS
    Fits,           \* <<w, t>>: the node of w satisfies t's node affinity
    SlowRedis,      \* whether a terminal write may come after its claim is gone
    MaxClaims,      \* bound on claim tokens drawn
    MaxStarts       \* bound on the process instances of one worker id

ASSUME ClaimsAssumption ==
    /\ Fits \subseteq Workers \X Tasks
    /\ SlowRedis \in BOOLEAN
    /\ MaxClaims \in Nat
    /\ MaxStarts \in Nat

VARIABLES
    gw,     \* the GPU worker process behind each worker id
    live,   \* tasks that a CUDA child on the worker's GPU may be executing
    latch   \* workers whose GPU has a persistent quarantine latch

vars == <<store, gw, live, latch>>

\* Where the processing loop is.  "halted" is a loop that ended with its task
\* unresolved; a loop that ended cleanly is "idle" and not running.
LoopPCs == {"down", "boot", "idle", "recover", "recheck", "refail", "rerequeue",
            "direct", "resource", "claimed", "ack", "close", "mark", "return",
            "deliver", "run", "exec", "sync", "commit", "blind", "giveback",
            "contain", "latching", "halted"}
StopPCs == {"none", "drain", "freeze", "pool", "fail", "blind", "exit", "unsafe"}

Scans == SUBSET (Nat \X Tasks)

Process == [inst     : Nat,                     \* worker_instance_id
            pc       : LoopPCs,
            running  : BOOLEAN,                 \* running and not _stopping
            fresh    : BOOLEAN,                 \* recovery of a safe fresh start
            scan     : Scans,                   \* inflight entries left to recover
            hand     : Tasks \cup {None},       \* the task the loop works on
            src      : Queues \cup {None},      \* the queue it came from
            cap      : Nat,                     \* token captured by complete_task
            deferred : SUBSET Tasks,            \* deferred_claims of get_next_task
            held     : [Tasks -> Nat],          \* tokens in _task_claims, 0 if none
            current  : Tasks \cup {None},       \* current_task
            stop     : StopPCs,
            retained : Tasks \cup {None}]       \* _shutdown_retained_task_id

NoProcess(n) ==
    [inst |-> n, pc |-> "down", running |-> FALSE, fresh |-> FALSE, scan |-> {},
     hand |-> None, src |-> None, cap |-> 0, deferred |-> {},
     held |-> [t \in Tasks |-> 0], current |-> None, stop |-> "none", retained |-> None]

TypeOK ==
    /\ StoreTypeOK
    /\ gw \in [Workers -> Process]
    /\ live \in [Workers -> SUBSET Tasks]
    /\ latch \subseteq Workers

Init ==
    /\ StoreInit
    /\ gw = [w \in Workers |-> NoProcess(0)]
    /\ live = [w \in Workers |-> {}]
    /\ latch = {}

\* The process of w takes the record p.
Becomes(w, p) == gw' = [gw EXCEPT ![w] = p]

Hand(w) == gw[w].hand
HeldToken(w, t) == gw[w].held[t]
Up(w) == gw[w].pc \notin {"down", "boot"}

\* Bound: an instance is replaced, and meets a fault that ends it, only while
\* the worker id has starts left.
Replaceable(w) == gw[w].inst < MaxStarts

\* The loop drops the task in hand and goes to pc.
LetGo(w, pc) == [gw[w] EXCEPT !.pc = pc, !.hand = None, !.src = None, !.cap = 0]

\* As LetGo, for a task that is resolved: its local claim and the retained and
\* current marks go too (the finally block of _process_task).
Resolved(w, t, pc) ==
    [LetGo(w, pc) EXCEPT !.held[t] = 0,
                         !.current = IF @ = t THEN None ELSE @,
                         !.retained = IF @ = t THEN None ELSE @]

-----------------------------------------------------------------------------
(* Start-up, crash, supervision.                                           *)

\* Fault: the supervisor replaces a process without the proof.
StartWorker_Undrained(w) ==
    /\ gw[w].pc = "down"
    /\ Replaceable(w)
    /\ Becomes(w, [NoProcess(gw[w].inst + 1) EXCEPT !.pc = "boot", !.running = TRUE])
    /\ UNCHANGED <<store, live, latch>>

\* The supervisor spawns a process once the previous one is proven drained.
StartWorker(w) ==
    /\ gw[w].pc = "down"
    /\ live[w] = {}
    /\ Replaceable(w)
    /\ Becomes(w, [NoProcess(gw[w].inst + 1) EXCEPT !.pc = "boot", !.running = TRUE])
    /\ UNCHANGED <<store, live, latch>>

\* Fault: a fresh start opens the GPU without recovering old claims.
Boot_Unrecovered(w) ==
    /\ gw[w].pc = "boot"
    /\ Becomes(w, [gw[w] EXCEPT !.pc = "idle"])
    /\ UNCHANGED <<store, live, latch>>

\* start(): a latched GPU stays closed; otherwise the fresh pool is healthy and
\* recovery may release the claims its predecessor left fenced or frozen.
Boot(w) ==
    /\ gw[w].pc = "boot"
    /\ Becomes(w, IF w \in latch
                  THEN [gw[w] EXCEPT !.pc = "idle"]
                  ELSE [gw[w] EXCEPT !.pc = "recover", !.fresh = TRUE,
                                     !.scan = {<<e[2], e[3]>> : e \in {x \in inflight : x[1] = w}}])
    /\ UNCHANGED <<store, live, latch>>

\* The process dies; its CUDA children may outlive it.
Crash(w) ==
    /\ gw[w].pc # "down"
    /\ Replaceable(w)
    /\ Becomes(w, NoProcess(gw[w].inst))
    /\ UNCHANGED <<store, live, latch>>

\* The supervisor's session sweep: every group of the dead session is gone.
ProveDrained(w) ==
    /\ gw[w].pc = "down"
    /\ live[w] # {}
    /\ live' = [live EXCEPT ![w] = {}]
    /\ UNCHANGED <<store, gw, latch>>

\* The sweep cannot prove it: physical quarantine, and no replacement.
DrainUnproven(w) ==
    /\ gw[w].pc = "down"
    /\ live[w] # {}
    /\ w \notin latch
    /\ latch' = latch \cup {w}
    /\ UNCHANGED <<store, gw, live>>

\* The operator clears the latch of a stopped, reconciled worker, to restart it.
ClearLatch(w) ==
    /\ gw[w].pc = "down"
    /\ live[w] = {}
    /\ w \in latch
    /\ Replaceable(w)
    /\ latch' = latch \ {w}
    /\ UNCHANGED <<store, gw, live>>

\* A device fault seen outside any task (probe, validation) closes the GPU.
PoolFault(w) ==
    /\ gw[w].pc = "idle" /\ gw[w].running
    /\ w \notin latch
    /\ latch' = latch \cup {w}
    /\ UNCHANGED <<store, gw, live>>
-----------------------------------------------------------------------------
(* Recovery of the inflight list: _recover_gpu_inflight, at a fresh start  *)
(* and again before every dequeue.                                         *)

\* _gpu_worker_admission_open, what Redis says: closed under a latch.  A stale
\* heartbeat or a degraded pool closes it too, so an open gate is never forced.
AdmissionOpen(w) == w \notin latch

\* _gpu_admission_allowed: the same, and the lifecycle of the process itself.
AdmissionAllowed(w) == gw[w].running /\ AdmissionOpen(w)

\* Both gates are open and get_next_task snapshots the inflight list.
BeginDequeue(w) ==
    /\ gw[w].pc = "idle"
    /\ AdmissionAllowed(w)
    /\ Becomes(w, [gw[w] EXCEPT !.pc = "recover",
                                !.scan = {<<e[2], e[3]>> : e \in {x \in inflight : x[1] = w}}])
    /\ UNCHANGED <<store, live, latch>>

\* Read one entry's task hash; adopt the claim of a dead instance.  A fenced
\* claim is left alone except at a fresh start, and so is this instance's own.
RecoverEntry(w) ==
    \E e \in gw[w].scan :
      LET k == e[1]
          t == e[2]
          seen  == [gw[w] EXCEPT !.scan = @ \ {e}]
          stale == claim[t].token # k
          fenced == claim[t].fence # "none" /\ ~gw[w].fresh
          own   == claim[t].inst = gw[w].inst
      IN  /\ gw[w].pc = "recover"
          /\ inflight' = IF stale THEN inflight \ {<<w, k, t>>} ELSE inflight
          /\ Becomes(w, IF stale \/ fenced \/ own
                        THEN seen
                        ELSE [seen EXCEPT !.pc = "recheck", !.hand = t, !.held[t] = k])
          /\ UNCHANGED <<status, assigned, claim, queue, tokens, tombstone, parent, live, latch>>

\* _dequeued_task_cancelled on the adopted claim.
RecoverCheck(w) ==
    /\ gw[w].pc = "recheck"
    /\ Becomes(w, [gw[w] EXCEPT !.pc = IF CancelMarked(Hand(w)) THEN "refail" ELSE "rerequeue"])
    /\ UNCHANGED <<store, live, latch>>

\* fail_task on a cancelled claim; a superseded one is skipped.
RecoverFail(w) ==
    LET t == Hand(w)
    IN  /\ gw[w].pc = "refail"
        /\ IF MayFinalize(t, HeldToken(w, t), gw[w].fresh)
           THEN FinalizeTask(t, "failed")
           ELSE UNCHANGED store
        /\ Becomes(w, [LetGo(w, "recover") EXCEPT !.held[t] = 0])
        /\ UNCHANGED <<live, latch>>

\* requeue_unstarted_task back to the source queue.
RecoverRequeue(w) ==
    LET t == Hand(w)
        release == IF gw[w].fresh THEN {"execution_fenced", "frozen"} ELSE {}
    IN  /\ gw[w].pc = "rerequeue"
        /\ RequeueTask(t, HeldToken(w, t), release, TRUE)
        /\ Becomes(w, [LetGo(w, "recover") EXCEPT !.held[t] = 0])
        /\ UNCHANGED <<live, latch>>

EndRecovery(w) ==
    /\ gw[w].pc = "recover"
    /\ gw[w].scan = {}
    /\ Becomes(w, [gw[w] EXCEPT !.pc = IF gw[w].fresh THEN "idle" ELSE "direct", !.fresh = FALSE])
    /\ UNCHANGED <<store, live, latch>>

-----------------------------------------------------------------------------
(* The claim scan: get_next_task.                                          *)

Source(w) == IF gw[w].pc = "direct" THEN w ELSE Gpu

\* _claim_gpu_task takes an id from the direct queue or the shared queue.
ClaimNext(w) ==
    /\ gw[w].pc \in {"direct", "resource"}
    /\ tokens < MaxClaims
    /\ \E t \in Tasks :
         /\ ClaimTask(w, gw[w].inst, Source(w), t)
         /\ Becomes(w, [gw[w] EXCEPT !.pc = "claimed", !.hand = t, !.src = Source(w),
                                     !.held[t] = tokens'])
    /\ UNCHANGED <<live, latch>>

\* Nothing to claim: on to the shared queue, or out of the scan.  Once the
\* bound on tokens is reached a queue looks empty.
FindNothing(w) ==
    /\ gw[w].pc \in {"direct", "resource"}
    /\ IF tokens < MaxClaims THEN DiscardQueue(Source(w)) ELSE UNCHANGED store
    /\ Becomes(w, [gw[w] EXCEPT !.pc = IF @ = "direct" THEN "resource" ELSE "return"])
    /\ UNCHANGED <<live, latch>>

\* What the reads of a claimed task decide.
InspectClaim(w) ==
    LET t == Hand(w)
        dead == status[t] \in Terminal \/ CancelMarked(t)
        away == gw[w].src = Gpu /\ <<w, t>> \notin Fits
    IN  /\ gw[w].pc = "claimed"
        /\ \E pc \in {"ack", "defer", "close", "mark"} :
             /\ dead <=> pc = "ack"
             /\ ~dead => (away <=> pc = "defer")
             /\ pc = "mark" => AdmissionOpen(w)
             /\ Becomes(w, IF pc = "defer"
                           THEN [LetGo(w, "resource") EXCEPT !.deferred = @ \cup {t}]
                           ELSE [gw[w] EXCEPT !.pc = pc])
        /\ UNCHANGED <<store, live, latch>>

\* acknowledge_task_claim on a dead task; the scan goes on.
AcknowledgeClaim(w) ==
    LET t == Hand(w)
    IN  /\ gw[w].pc = "ack"
        /\ AckClaim(t, HeldToken(w, t))
        /\ Becomes(w, [LetGo(w, "resource") EXCEPT !.held[t] = 0])
        /\ UNCHANGED <<live, latch>>

\* Admission closed after the claim: put the task back and end the scan.
CloseAfterClaim(w) ==
    LET t == Hand(w)
    IN  /\ gw[w].pc = "close"
        /\ RequeueTask(t, HeldToken(w, t), {}, FALSE)
        /\ Becomes(w, [LetGo(w, "return") EXCEPT !.held[t] = 0])
        /\ UNCHANGED <<live, latch>>

\* _mark_claim_processing: the execution fence goes up, or the task is dropped.
StartTask(w) ==
    LET t == Hand(w)
    IN  /\ gw[w].pc = "mark"
        /\ MarkProcessing(t, HeldToken(w, t))
        /\ Becomes(w, [gw[w] EXCEPT !.pc = "return"])
        /\ UNCHANGED <<live, latch>>

StartRefused(w) ==
    LET t == Hand(w)
        next == IF gw[w].src = Gpu THEN "resource" ELSE "return"
    IN  /\ gw[w].pc = "mark"
        /\ RefuseProcessing(t, HeldToken(w, t))
        /\ Becomes(w, [LetGo(w, next) EXCEPT !.held[t] = 0])
        /\ UNCHANGED <<live, latch>>

\* The finally block of the scan returns a deferred claim to its queue.
ReturnDeferred(w) ==
    \E t \in gw[w].deferred :
      /\ gw[w].pc = "return"
      /\ claim[t].token = HeldToken(w, t)
      /\ ReturnClaim(t)
      /\ Becomes(w, [gw[w] EXCEPT !.deferred = @ \ {t}, !.held[t] = 0])
      /\ UNCHANGED <<live, latch>>

\* A deferred claim was superseded: StaleTaskClaimError leaves the finally
\* block, replaces the return value and ends the iteration of the loop.
ReturnRaises(w) ==
    \E t \in gw[w].deferred :
      /\ gw[w].pc = "return"
      /\ claim[t].token # HeldToken(w, t)
      /\ Becomes(w, [LetGo(w, "idle") EXCEPT !.deferred = {}, !.held[t] = 0])
      /\ UNCHANGED <<store, live, latch>>

FinishScan(w) ==
    /\ gw[w].pc = "return"
    /\ gw[w].deferred = {}
    /\ Becomes(w, [gw[w] EXCEPT !.pc = IF Hand(w) = None THEN "idle" ELSE "deliver"])
    /\ UNCHANGED <<store, live, latch>>
-----------------------------------------------------------------------------
(* Running a task: the loop after get_next_task, and _process_task.        *)

\* The gate is read once more: the task becomes current, or is given back.
Deliver(w) ==
    /\ gw[w].pc = "deliver"
    /\ AdmissionAllowed(w)
    /\ Becomes(w, [gw[w] EXCEPT !.pc = "run", !.current = Hand(w)])
    /\ UNCHANGED <<store, live, latch>>

DeliverClosed(w) ==
    /\ gw[w].pc = "deliver"
    /\ Becomes(w, [gw[w] EXCEPT !.pc = "giveback"])
    /\ UNCHANGED <<store, live, latch>>

\* The pool hands the task to a CUDA child.
PoolOpen(w) == gw[w].stop \in {"none", "drain", "freeze", "pool"}

LaunchChild(w) ==
    /\ gw[w].pc = "run"
    /\ PoolOpen(w)
    /\ live' = [live EXCEPT ![w] = @ \cup {Hand(w)}]
    /\ Becomes(w, [gw[w] EXCEPT !.pc = "exec"])
    /\ UNCHANGED <<store, latch>>

\* GPUQuarantinedError: the pool's gate closed before any child had the task.
\* A retained task stays with stop(), any other one is given back.
GateClosed(w) ==
    /\ gw[w].pc = "run"
    /\ Becomes(w, [gw[w] EXCEPT !.pc = IF gw[w].retained = Hand(w) THEN "halted" ELSE "giveback"])
    /\ UNCHANGED <<store, live, latch>>

\* requeue_unstarted_task with authority over the execution fence only.  A
\* frozen claim stays in Redis and in _task_claims, but the loop lets go.
GiveBack(w) ==
    LET t == Hand(w)
        k == HeldToken(w, t)
        frozen == claim[t].token = k /\ claim[t].fence = "frozen"
    IN  /\ gw[w].pc = "giveback"
        /\ RequeueTask(t, k, {"execution_fenced"}, FALSE)
        /\ Becomes(w, [Resolved(w, t, "idle") EXCEPT !.held[t] = IF frozen THEN k ELSE 0])
        /\ UNCHANGED <<live, latch>>

\* The child is past its commit barrier or proven reaped: result, failure,
\* timeout or cancellation.  The loop then mirrors the pool's health, with
\* reads of Redis that may take long.
ChildDone(w) ==
    /\ gw[w].pc = "exec"
    /\ PoolOpen(w)
    /\ live' = [live EXCEPT ![w] = @ \ {Hand(w)}]
    /\ Becomes(w, [gw[w] EXCEPT !.pc = "sync"])
    /\ UNCHANGED <<store, latch>>

\* stop() closed the pool under the task: it unwinds, and stop() owns it.
Unwound(w) ==
    /\ gw[w].pc = "exec"
    /\ gw[w].stop \in {"fail", "blind", "exit"}
    /\ Becomes(w, [gw[w] EXCEPT !.pc = "halted", !.retained = Hand(w)])
    /\ UNCHANGED <<store, live, latch>>

\* A task that stop() retained is not published; for any other complete_task
\* captures the local claim.
CheckRetained(w) ==
    LET t == Hand(w)
    IN  /\ gw[w].pc = "sync"
        /\ Becomes(w, IF gw[w].retained = t
                      THEN [gw[w] EXCEPT !.pc = "halted", !.running = FALSE]
                      ELSE [gw[w] EXCEPT !.pc = "commit", !.cap = gw[w].held[t]])
        /\ UNCHANGED <<store, live, latch>>

\* The terminal commit under the captured token, as Redis answers it.
Commit(w) ==
    LET t == Hand(w)
    IN  /\ gw[w].pc = "commit"
        /\ MayFinalize(t, gw[w].cap, FALSE)
        /\ \E outcome \in Terminal : FinalizeTask(t, outcome)
        /\ Becomes(w, Resolved(w, t, "idle"))
        /\ UNCHANGED <<live, latch>>

\* Without a captured token the hash is read, and found unclaimed ...
CommitUnclaimed(w) ==
    /\ gw[w].pc = "commit"
    /\ gw[w].cap = 0 /\ ~Claimed(Hand(w))
    /\ Becomes(w, [gw[w] EXCEPT !.pc = "blind"])
    /\ UNCHANGED <<store, live, latch>>

\* ... and a later transaction writes whatever the hash has become.
CommitBlind(w) ==
    LET t == Hand(w)
    IN  /\ gw[w].pc = "blind"
        /\ \E outcome \in Terminal : FinalizeBlind(t, outcome)
        /\ Becomes(w, Resolved(w, t, "idle"))
        /\ UNCHANGED <<live, latch>>

\* StaleTaskClaimError: another owner decided the outcome.
CommitStale(w) ==
    LET t == Hand(w)
    IN  /\ gw[w].pc = "commit"
        /\ claim[t].token # gw[w].cap
        /\ Becomes(w, [Resolved(w, t, "idle") EXCEPT !.held[t] = gw[w].held[t]])
        /\ UNCHANGED <<store, live, latch>>

\* FrozenTaskClaimError: containment owns the claim.
CommitFrozen(w) ==
    LET t == Hand(w)
    IN  /\ gw[w].pc = "commit"
        /\ claim[t].token = gw[w].cap
        /\ claim[t].fence = "frozen"
        /\ Becomes(w, [gw[w] EXCEPT !.pc = "halted", !.running = FALSE, !.retained = t])
        /\ UNCHANGED <<store, live, latch>>

\* The write fails before Redis runs it: the claim is kept, the worker stops.
CommitFails(w) ==
    /\ gw[w].pc = "commit"
    /\ Replaceable(w)
    /\ Becomes(w, [gw[w] EXCEPT !.pc = "halted", !.running = FALSE])
    /\ UNCHANGED <<store, live, latch>>

\* The write commits but its reply is lost: the worker sees a failed write.
CommitReplyLost(w) ==
    LET t == Hand(w)
    IN  /\ SlowRedis
        /\ gw[w].pc = "commit"
        /\ Replaceable(w)
        /\ MayFinalize(t, gw[w].cap, FALSE)
        /\ \E outcome \in Terminal : FinalizeTask(t, outcome)
        /\ Becomes(w, [gw[w] EXCEPT !.pc = "halted", !.running = FALSE])
        /\ UNCHANGED <<live, latch>>

\* UnsafeGPUContainmentError: the child may still be alive.  Admission closes
\* and the task is retained before the first await.
ReapUnproven(w) ==
    /\ gw[w].pc = "exec"
    /\ PoolOpen(w) \/ gw[w].stop = "unsafe"
    /\ Becomes(w, [gw[w] EXCEPT !.pc = "contain", !.running = FALSE, !.retained = Hand(w)])
    /\ UNCHANGED <<store, live, latch>>

\* freeze_task_claim: a superseded token is forgotten; the write may fail.
Freeze(w, t, next) ==
    LET k == HeldToken(w, t)
    IN  \/ /\ FreezeClaim(t, k)
           /\ Becomes(w, [next EXCEPT !.held[t] = IF claim[t].token = k THEN k ELSE 0])
        \/ /\ Becomes(w, next)
           /\ UNCHANGED store

ContainFreeze(w) ==
    /\ gw[w].pc = "contain"
    /\ Freeze(w, Hand(w), [gw[w] EXCEPT !.pc = "latching"])
    /\ UNCHANGED <<live, latch>>

ContainLatch(w) ==
    /\ gw[w].pc = "latching"
    /\ latch' = latch \cup {w}
    /\ Becomes(w, [gw[w] EXCEPT !.pc = "halted"])
    /\ UNCHANGED <<store, live>>

-----------------------------------------------------------------------------
(* Shutdown: _stop_once, beside the processing loop of the same process.   *)

\* SIGTERM, or the third error of the processing loop.
Signal(w) ==
    /\ Up(w) /\ gw[w].running
    /\ Replaceable(w)
    /\ Becomes(w, [gw[w] EXCEPT !.running = FALSE])
    /\ UNCHANGED <<store, live, latch>>

StopBegins(w) ==
    /\ Up(w) /\ ~gw[w].running
    /\ gw[w].stop = "none"
    /\ Becomes(w, [gw[w] EXCEPT !.stop = "drain"])
    /\ UNCHANGED <<store, live, latch>>

\* Fault: the retained task is failed before its child is contained.
DrainOver_Hasty(w) ==
    /\ gw[w].stop = "drain"
    /\ Becomes(w, [gw[w] EXCEPT !.stop = "fail", !.retained = gw[w].current])
    /\ UNCHANGED <<store, live, latch>>

\* The drain is over, or its deadline passed: the current task is retained.
DrainOver(w) ==
    /\ gw[w].stop = "drain"
    /\ Becomes(w, IF gw[w].current = None
                  THEN [gw[w] EXCEPT !.stop = "pool"]
                  ELSE [gw[w] EXCEPT !.stop = "freeze", !.retained = gw[w].current])
    /\ UNCHANGED <<store, live, latch>>

\* The task stop() read before its first await, which the loop may since have
\* resolved; its claim is looked up in _task_claims.
StopFreeze(w) ==
    /\ gw[w].stop = "freeze"
    /\ IF gw[w].retained = None
       THEN UNCHANGED store /\ Becomes(w, [gw[w] EXCEPT !.stop = "pool"])
       ELSE Freeze(w, gw[w].retained, [gw[w] EXCEPT !.stop = "pool"])
    /\ UNCHANGED <<live, latch>>

\* pool.shutdown reports every child reaped, or quarantines the GPU.
PoolShutSafe(w) ==
    /\ gw[w].stop = "pool"
    /\ live' = [live EXCEPT ![w] = {}]
    /\ Becomes(w, [gw[w] EXCEPT !.stop = "fail"])
    /\ UNCHANGED <<store, latch>>

PoolShutUnsafe(w) ==
    /\ gw[w].stop = "pool"
    /\ latch' = latch \cup {w}
    /\ Becomes(w, [gw[w] EXCEPT !.stop = "unsafe"])
    /\ UNCHANGED <<store, live>>

\* fail_task("Worker shutdown") for a retained task that is still current.
\* Unless SlowRedis, the loop's reads have ended before the pool is reaped.
Abandoned(w) == [gw[w] EXCEPT !.stop = "exit", !.current = None, !.retained = None]

FailRetained(w) ==
    LET t == gw[w].retained
        k == HeldToken(w, t)
        owed == t # None /\ gw[w].current = t
    IN  /\ gw[w].stop = "fail"
        /\ SlowRedis \/ gw[w].pc # "sync"
        /\ \/ /\ ~owed
              /\ Becomes(w, [gw[w] EXCEPT !.stop = "exit"])
              /\ UNCHANGED store
           \/ /\ owed /\ MayFinalize(t, k, TRUE)
              /\ FinalizeTask(t, "failed")
              /\ Becomes(w, [Abandoned(w) EXCEPT !.held[t] = 0])
           \/ /\ owed /\ k = 0 /\ ~Claimed(t)
              /\ Becomes(w, [gw[w] EXCEPT !.stop = "blind"])
              /\ UNCHANGED store
           \/ /\ owed /\ claim[t].token # k
              /\ Becomes(w, Abandoned(w))
              /\ UNCHANGED store
           \/ /\ owed /\ Replaceable(w)         \* the write fails: the claim is kept
              /\ Becomes(w, [gw[w] EXCEPT !.stop = "exit"])
              /\ UNCHANGED store
        /\ UNCHANGED <<live, latch>>

FailBlind(w) ==
    /\ gw[w].stop = "blind"
    /\ FinalizeBlind(gw[w].retained, "failed")
    /\ Becomes(w, Abandoned(w))
    /\ UNCHANGED <<live, latch>>

\* Both coroutines are over and the process ends.
Exit(w) ==
    /\ gw[w].stop \in {"exit", "unsafe"}
    /\ gw[w].pc \in {"idle", "halted"}
    /\ Becomes(w, NoProcess(gw[w].inst))
    /\ UNCHANGED <<store, live, latch>>

-----------------------------------------------------------------------------

\* _submit_task_if_absent: an existing id is answered with what it has.
Submits == \E t \in Tasks, q \in Queues : SubmitTask(t, q)

\* _force_refresh_task: a refusal raises a conflict and changes nothing.
Refreshes == \E t \in Tasks, q \in Queues : ForceRefreshTask(t, q)

\* _mark_task_cancelled for one id; CancelParent is the same call for a parent.
Cancels == \E t \in Tasks : CancelTask(t)

\* _queue_wait_monitor: whatever its scan read, the script tests again.  How
\* long a task has waited is left open.
QueueWaits == \E t \in Tasks, w \in Workers : QueueWaitRequeue(t, w)

Control == Submits \/ Refreshes \/ Cancels \/ CancelParent \/ LapseParent \/ FinishParent \/ QueueWaits

ControlPlane == Control /\ UNCHANGED <<gw, live, latch>>

Supervision(w) ==
    StartWorker(w) \/ Boot(w) \/ Crash(w) \/ ProveDrained(w) \/ DrainUnproven(w)
      \/ ClearLatch(w) \/ PoolFault(w)

Dequeue(w) ==
    BeginDequeue(w) \/ RecoverEntry(w) \/ RecoverCheck(w) \/ RecoverFail(w)
      \/ RecoverRequeue(w) \/ EndRecovery(w)
      \/ ClaimNext(w) \/ FindNothing(w) \/ InspectClaim(w) \/ AcknowledgeClaim(w)
      \/ CloseAfterClaim(w) \/ StartTask(w) \/ StartRefused(w)
      \/ ReturnDeferred(w) \/ ReturnRaises(w) \/ FinishScan(w)

Execute(w) ==
    Deliver(w) \/ DeliverClosed(w) \/ LaunchChild(w) \/ GateClosed(w) \/ GiveBack(w)
      \/ ChildDone(w) \/ Unwound(w) \/ CheckRetained(w)
      \/ Commit(w) \/ CommitUnclaimed(w) \/ CommitBlind(w) \/ CommitStale(w) \/ CommitFrozen(w)
      \/ CommitFails(w) \/ CommitReplyLost(w)
      \/ ReapUnproven(w) \/ ContainFreeze(w) \/ ContainLatch(w)

Stopping(w) ==
    StopBegins(w) \/ DrainOver(w) \/ StopFreeze(w)
      \/ PoolShutSafe(w) \/ PoolShutUnsafe(w) \/ FailRetained(w) \/ FailBlind(w) \/ Exit(w)

Next ==
    \/ ControlPlane
    \/ \E w \in Workers :
         Supervision(w) \/ Signal(w) \/ Stopping(w) \/ Dequeue(w) \/ Execute(w)

Spec == Init /\ [][Next]_vars

-----------------------------------------------------------------------------
(* Safety.                                                                 *)

\* The inflight lists hold one entry for each claim in force, the entry that
\* recovery needs: a claim without one is lost with its process.
ClaimIsRecoverable == \A t \in Tasks : Claimed(t) => Entry(t) \in inflight

\* A task under a claim waits in no queue, so no second worker can take it,
\* and only a task that is not over is under a claim; the execution fence and
\* the status "processing" go up together.
ClaimOwnsTask ==
    \A t \in Tasks : Claimed(t) =>
      /\ \A q \in Queues : t \notin queue[q]
      /\ status[t] \in {"pending", "processing"}
      /\ claim[t].fence = "execution_fenced" => status[t] = "processing"
      /\ status[t] = "processing" => claim[t].fence # "none"

\* No task is lost: one that may still run and is under no claim is queued,
\* where the worker it is assigned to, or any worker, will look.
PendingIsQueued ==
    \A t \in Tasks : status[t] = "pending" /\ ~Claimed(t) /\ Allowed(t) =>
      \/ t \in queue[Gpu]
      \/ assigned[t] # None /\ t \in queue[assigned[t]]

\* A CUDA child works only for a task that its own worker has claimed, fenced
\* and marked processing; so no task ever runs on two GPUs.
ExecutionIsFenced ==
    \A w \in Workers : \A t \in live[w] :
      /\ claim[t].worker = w
      /\ claim[t].fence # "none"
      /\ status[t] = "processing"

\* A running process has a claim of its own that it does not attend to.
Forgotten(w, t) ==
    /\ Up(w) /\ gw[w].running /\ claim[t].worker = w /\ claim[t].inst = gw[w].inst
    /\ t # gw[w].hand /\ t \notin gw[w].deferred

\* A running process still attends to every claim it made: recovery skips its
\* own claims because it is working on them.
OwnClaimIsAttended == \A w \in Workers, t \in Tasks : ~Forgotten(w, t)

\* A task that is processing is under a claim: somebody will end it.
ProcessingIsClaimed == \A t \in Tasks : status[t] = "processing" => Claimed(t)

-----------------------------------------------------------------------------
(* What a step may never do.                                               *)

\* Execution starts only while neither the task nor its parent is fenced.
NoStartAfterFence ==
    [][\A t \in Tasks : status[t] # "processing" /\ status'[t] = "processing" => Allowed(t)]_vars

\* Once a task is terminal its outcome stands until a force refresh.
TerminalIsFinal ==
    [][\A t \in Tasks : status[t] \in Terminal => status'[t] \in {status[t], "pending"}]_vars

-----------------------------------------------------------------------------
(* The promise to callers.                                                 *)

Exclusive == INSTANCE ExclusiveExecution WITH
    Outcomes <- Terminal,
    phase    <- [t \in Tasks |-> CASE status[t] = "pending"    -> "open"
                                    [] status[t] = "processing" -> "started"
                                    [] OTHER                    -> status[t]],
    running  <- [t \in Tasks |-> {w \in Workers : t \in live[w]}]

\* Claims, fences, recovery and shutdown implement ExclusiveExecution.
ImplementsExclusive == Exclusive!Spec

-----------------------------------------------------------------------------
(* Progress.                                                               *)

\* A process takes the steps it can, a task ends by its own timeout at the
\* latest, and the supervisor drains and replaces a process that died.
Fairness ==
    \A w \in Workers :
      /\ WF_vars(StartWorker(w)) /\ WF_vars(Boot(w))
      /\ WF_vars(ProveDrained(w) \/ DrainUnproven(w))
      /\ WF_vars(Dequeue(w)) /\ WF_vars(Execute(w))
      /\ WF_vars(Stopping(w))

FairSpec == Spec /\ Fairness

\* No claim is held for ever, whoever dies while holding it, but under a physical
\* quarantine that waits for an operator, or when its process lives on without
\* attending to it: the return of a deferred claim that raises takes the started
\* task from its loop (OwnClaimIsAttended does not hold).  Once the worker is
\* replaced that claim is resolved as well.
ClaimIsResolved ==
    \A t \in Tasks : Claimed(t) ~> \/ ~Claimed(t) \/ latch # {}
                                   \/ \E w \in Workers : Forgotten(w, t)
=============================================================================
