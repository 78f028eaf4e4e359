-------------------------- MODULE TaskClaims_proofs --------------------------
(***************************************************************************)
(* Theorems of TaskClaims, for any tasks, workers, node affinities,        *)
(* crashes, restarts and bounds: first the types, then the safety of the   *)
(* task records, then exclusive execution and the refinement of            *)
(* ExclusiveExecution.                                                     *)
(***************************************************************************)
EXTENDS TaskClaims, TLAPS

-----------------------------------------------------------------------------
(* The scripts keep the store well typed.                                  *)

\* Every worker id, and the shared queue, names a queue.
LEMMA QueuesType == Gpu \in Queues /\ Workers \subseteq Queues
BY DEF Queues

\* CANCEL_TASK_LUA's two LREMs leave a queue of ids in every list.
LEMMA UnqueuedType ==
  ASSUME StoreTypeOK, NEW t
  PROVE  Unqueued(t) \in [Queues -> SUBSET Tasks]
BY DEF StoreTypeOK, Unqueued

\* Dropping a claim keeps the claim fields and the inflight lists typed.
LEMMA ClearClaimType ==
  ASSUME StoreTypeOK, NEW t, ClearClaim(t)
  PROVE  claim' \in [Tasks -> Claims] /\ inflight' \subseteq Workers \X Nat \X Tasks
BY DEF StoreTypeOK, ClearClaim, Cleared, Claims, Fences

\* _SUBMIT_TASK_IF_ABSENT_LUA keeps the store typed.
LEMMA SubmitTaskType ==
  ASSUME StoreTypeOK, NEW t \in Tasks, NEW q \in Queues, SubmitTask(t, q)
  PROVE  StoreTypeOK'
BY DEF StoreTypeOK, SubmitTask, Home, Statuses

\* _FORCE_REFRESH_TASK_LUA keeps the store typed.
LEMMA ForceRefreshTaskType ==
  ASSUME StoreTypeOK, NEW t \in Tasks, NEW q \in Queues, ForceRefreshTask(t, q)
  PROVE  StoreTypeOK'
BY UnqueuedType DEF StoreTypeOK, ForceRefreshTask, Home, Statuses

\* _CLAIM_GPU_TASK_LUA keeps the store typed: the new token is a number
\* and the claim names a worker and a queue.
LEMMA ClaimTaskType ==
  ASSUME StoreTypeOK, NEW w \in Workers, NEW n \in Nat, NEW q \in Queues, NEW t \in Tasks,
         ClaimTask(w, n, q, t)
  PROVE  StoreTypeOK'
<1>1. PICK debris : queue' = [queue EXCEPT ![q] = @ \ (debris \cup {t})]
  BY DEF ClaimTask
<1>2. queue' \in [Queues -> SUBSET Tasks]
  BY <1>1 DEF StoreTypeOK
<1>3. tokens' \in Nat
  BY DEF StoreTypeOK, ClaimTask
<1>4. claim' \in [Tasks -> Claims]
  BY <1>3 DEF StoreTypeOK, ClaimTask, Claims, Fences
<1>5. inflight' \subseteq Workers \X Nat \X Tasks
  BY <1>3 DEF StoreTypeOK, ClaimTask
<1> QED
  BY <1>2, <1>3, <1>4, <1>5 DEF StoreTypeOK, ClaimTask

\* A claim script that finds only debris keeps the store typed.
LEMMA DiscardQueueType ==
  ASSUME StoreTypeOK, NEW q \in Queues, DiscardQueue(q)
  PROVE  StoreTypeOK'
BY DEF StoreTypeOK, DiscardQueue

\* _ACK_CLAIM_LUA keeps the store typed.
LEMMA AckClaimType ==
  ASSUME StoreTypeOK, NEW t \in Tasks, NEW k, AckClaim(t, k)
  PROVE  StoreTypeOK'
BY ClearClaimType DEF StoreTypeOK, AckClaim

\* _MARK_CLAIM_PROCESSING_LUA keeps the store typed when it starts a task.
LEMMA MarkProcessingType ==
  ASSUME StoreTypeOK, NEW t \in Tasks, NEW k, MarkProcessing(t, k)
  PROVE  StoreTypeOK'
BY DEF StoreTypeOK, MarkProcessing, Statuses, Claims, Fences

\* _MARK_CLAIM_PROCESSING_LUA keeps the store typed when it refuses.
LEMMA RefuseProcessingType ==
  ASSUME StoreTypeOK, NEW t \in Tasks, NEW k, RefuseProcessing(t, k)
  PROVE  StoreTypeOK'
BY ClearClaimType DEF StoreTypeOK, RefuseProcessing

\* _RETURN_CLAIM_LUA keeps the store typed.
LEMMA ReturnClaimType ==
  ASSUME StoreTypeOK, NEW t \in Tasks, ReturnClaim(t)
  PROVE  StoreTypeOK'
BY ClearClaimType DEF StoreTypeOK, ReturnClaim

\* _CONDITIONAL_REQUEUE_LUA keeps the store typed, on each of its paths.
LEMMA RequeueTaskType ==
  ASSUME StoreTypeOK, NEW t \in Tasks, NEW k, NEW release, NEW restore, RequeueTask(t, k, release, restore)
  PROVE  StoreTypeOK'
BY ClearClaimType DEF StoreTypeOK, RequeueTask, Statuses

\* _FREEZE_CLAIM_RECOVERY_LUA keeps the store typed.
LEMMA FreezeClaimType ==
  ASSUME StoreTypeOK, NEW t, NEW k, FreezeClaim(t, k)
  PROVE  StoreTypeOK'
BY DEF StoreTypeOK, FreezeClaim, Claims, Fences

\* _FINALIZE_CLAIM_LUA keeps the store typed.
LEMMA FinalizeTaskType ==
  ASSUME StoreTypeOK, NEW t, NEW outcome \in Terminal, FinalizeTask(t, outcome)
  PROVE  StoreTypeOK'
BY ClearClaimType DEF StoreTypeOK, FinalizeTask, Statuses

\* The unclaimed pipeline of _finalize_task_records keeps the store typed.
LEMMA FinalizeBlindType ==
  ASSUME StoreTypeOK, NEW t, NEW outcome \in Terminal, FinalizeBlind(t, outcome)
  PROVE  StoreTypeOK'
BY DEF StoreTypeOK, FinalizeBlind, Statuses, Cleared, Claims, Fences

\* Submission, cancellation, the parent's end and the queue-wait monitor
\* keep the store typed.
LEMMA ControlType ==
  ASSUME StoreTypeOK, Control
  PROVE  StoreTypeOK'
<1>1. CASE \E t \in Tasks, q \in Queues : SubmitTask(t, q) \/ ForceRefreshTask(t, q)
  BY <1>1, SubmitTaskType, ForceRefreshTaskType
<1>2. CASE \E t \in Tasks : CancelTask(t)
  BY <1>2, ClearClaimType, UnqueuedType DEF StoreTypeOK, CancelTask, Statuses, Terminal
<1>3. CASE CancelParent
  BY <1>3, StoreAssumption DEF StoreTypeOK, CancelParent, ParentStates
<1>4. CASE LapseParent
  BY <1>4 DEF StoreTypeOK, LapseParent, ParentStates
<1>5. CASE FinishParent
  BY <1>5 DEF StoreTypeOK, FinishParent, ParentStates, Statuses, Terminal, Cleared, Claims, Fences
<1>6. CASE \E t \in Tasks, w \in Workers : QueueWaitRequeue(t, w)
  BY <1>6, QueuesType DEF StoreTypeOK, QueueWaitRequeue
<1> QED
  BY <1>1, <1>2, <1>3, <1>4, <1>5, <1>6 DEF Control, Submits, Refreshes, Cancels, QueueWaits

-----------------------------------------------------------------------------
(* The processes are well typed, and hold a task where they work on one.   *)

\* Where the loop has a task in hand.
Busy == {"recheck", "refail", "rerequeue", "claimed", "ack", "close", "mark", "deliver", "run",
         "exec", "sync", "commit", "blind", "giveback", "contain", "latching"}

HandsFull == \A w \in Workers : gw[w].pc \in Busy => gw[w].hand # None

Typed == TypeOK /\ HandsFull

\* Values a process may change to.
Sound(p) == p \in Process /\ (p.pc \in Busy => p.hand # None)

\* A step that replaces one process by a sound one keeps Typed.
LEMMA BecomesTyped ==
  ASSUME Typed, NEW w \in Workers, NEW p, Sound(p), Becomes(w, p), StoreTypeOK',
         live' \in [Workers -> SUBSET Tasks], latch' \subseteq Workers
  PROVE  Typed'
BY DEF Typed, TypeOK, HandsFull, Sound, Becomes

\* The fields of a process that does not run are sound.
LEMMA NoProcessSound ==
  ASSUME NEW n \in Nat
  PROVE  Sound(NoProcess(n))
BY DEF Sound, NoProcess, Process, Scans, LoopPCs, StopPCs, Busy

\* A process that lets go of its task stays sound.
LEMMA LetGoSound ==
  ASSUME NEW w, gw[w] \in Process, NEW pc \in LoopPCs \ Busy
  PROVE  Sound(LetGo(w, pc))
BY DEF Sound, LetGo, Process

\* A process that resolved its task stays sound.
LEMMA ResolvedSound ==
  ASSUME NEW w, gw[w] \in Process, NEW t, NEW pc \in LoopPCs \ Busy
  PROVE  Sound(Resolved(w, t, pc))
BY LetGoSound DEF Sound, LetGo, Resolved, Process

\* A step that leaves the store alone keeps its type.
LEMMA StoreStutter ==
  ASSUME StoreTypeOK, UNCHANGED store
  PROVE  StoreTypeOK'
BY DEF StoreTypeOK, store

\* What Typed says of one worker's process.
LEMMA TypedParts ==
  ASSUME Typed, NEW w \in Workers
  PROVE  /\ StoreTypeOK
         /\ live \in [Workers -> SUBSET Tasks] /\ latch \subseteq Workers
         /\ gw[w] \in Process
         /\ gw[w].pc \in Busy => gw[w].hand \in Tasks
BY DEF Typed, TypeOK, HandsFull, Process

\* The fields of a process.
LEMMA ProcessFields ==
  ASSUME NEW p \in Process
  PROVE  /\ p.inst \in Nat /\ p.pc \in LoopPCs
         /\ p.running \in BOOLEAN /\ p.fresh \in BOOLEAN
         /\ p.scan \in Scans
         /\ p.hand \in Tasks \cup {None} /\ p.src \in Queues \cup {None}
         /\ p.cap \in Nat /\ p.deferred \subseteq Tasks /\ p.held \in [Tasks -> Nat]
         /\ p.current \in Tasks \cup {None} /\ p.stop \in StopPCs
         /\ p.retained \in Tasks \cup {None}
BY DEF Process

\* Starting, crashing, draining and latching a worker keep Typed.
LEMMA SupervisionTyped ==
  ASSUME Typed, NEW w \in Workers, Supervision(w) \/ Signal(w)
  PROVE  Typed'
<1>a. /\ StoreTypeOK /\ gw[w] \in Process /\ gw[w].inst \in Nat
      /\ live \in [Workers -> SUBSET Tasks] /\ latch \subseteq Workers
      /\ gw[w].pc \in Busy => gw[w].hand # None
  BY TypedParts, ProcessFields DEF Typed, HandsFull
<1>b. Sound(NoProcess(gw[w].inst)) /\ Sound(NoProcess(gw[w].inst + 1))
  BY <1>a, NoProcessSound
<1>1. CASE StartWorker(w)
  <2> DEFINE p == [NoProcess(gw[w].inst + 1) EXCEPT !.pc = "boot", !.running = TRUE]
  <2>1. Sound(p)
    BY <1>b DEF Sound, Process, LoopPCs, Busy, NoProcess
  <2> QED
    BY <1>1, <1>a, <2>1, BecomesTyped, StoreStutter DEF StartWorker
<1>2. CASE Boot(w)
  <2> DEFINE s == {<<e[2], e[3]>> : e \in {x \in inflight : x[1] = w}}
  <2>1. s \in Scans
    BY <1>a DEF StoreTypeOK, Scans
  <2>2. \A x \in Scans : Sound([gw[w] EXCEPT !.pc = "recover", !.fresh = TRUE, !.scan = x])
    BY <1>a DEF Sound, Process, LoopPCs, Busy
  <2>3. Sound([gw[w] EXCEPT !.pc = "idle"])
    BY <1>a DEF Sound, Process, LoopPCs, Busy
  <2> QED
    BY <1>2, <1>a, <2>1, <2>2, <2>3, BecomesTyped, StoreStutter DEF Boot
<1>3. CASE Crash(w)
  BY <1>3, <1>a, <1>b, BecomesTyped, StoreStutter DEF Crash
<1>4. CASE ProveDrained(w) \/ DrainUnproven(w) \/ ClearLatch(w) \/ PoolFault(w)
  BY <1>4, <1>a, StoreStutter
     DEF ProveDrained, DrainUnproven, ClearLatch, PoolFault, Typed, TypeOK, HandsFull
<1>5. CASE Signal(w)
  <2>1. Sound([gw[w] EXCEPT !.running = FALSE])
    BY <1>a DEF Sound, Process
  <2> QED
    BY <1>5, <1>a, <2>1, BecomesTyped, StoreStutter DEF Signal
<1> QED
  BY <1>1, <1>2, <1>3, <1>4, <1>5 DEF Supervision

\* Every step of get_next_task and of its recovery scan keeps Typed.
LEMMA DequeueTyped ==
  ASSUME Typed, NEW w \in Workers, Dequeue(w)
  PROVE  Typed'
<1>a. /\ StoreTypeOK /\ gw[w] \in Process /\ gw[w].inst \in Nat
      /\ live \in [Workers -> SUBSET Tasks] /\ latch \subseteq Workers
      /\ gw[w].pc \in Busy => gw[w].hand \in Tasks
      /\ w \in Queues /\ Gpu \in Queues
  BY TypedParts, ProcessFields, QueuesType
<1>b. \A t \in Tasks : gw[w].held[t] \in Nat
  BY <1>a, ProcessFields
<1>l. \A pc \in LoopPCs \ Busy : Sound(LetGo(w, pc))
  BY <1>a, LetGoSound
<1>u. ASSUME NEW pc \in LoopPCs \ Busy, NEW t
      PROVE  Sound([LetGo(w, pc) EXCEPT !.held[t] = 0])
  BY <1>a DEF Sound, LetGo, Process
<1>1. CASE BeginDequeue(w)
  <2> DEFINE s == {<<e[2], e[3]>> : e \in {x \in inflight : x[1] = w}}
  <2>1. s \in Scans
    BY <1>a DEF StoreTypeOK, Scans
  <2>2. \A x \in Scans : Sound([gw[w] EXCEPT !.pc = "recover", !.scan = x])
    BY <1>a DEF Sound, Process, LoopPCs, Busy
  <2> QED
    BY <1>1, <1>a, <2>1, <2>2, BecomesTyped, StoreStutter DEF BeginDequeue
<1>2. CASE RecoverEntry(w)
  <2>1. PICK e \in gw[w].scan :
          LET k == e[1]
              t == e[2]
              seen == [gw[w] EXCEPT !.scan = @ \ {e}]
          IN  /\ inflight' \in SUBSET inflight
              /\ \/ Becomes(w, seen)
                 \/ Becomes(w, [seen EXCEPT !.pc = "recheck", !.hand = t, !.held[t] = k])
              /\ UNCHANGED <<status, assigned, claim, queue, tokens, tombstone, parent, live, latch>>
    BY <1>2 DEF RecoverEntry
  <2>2. gw[w].pc = "recover"
    BY <1>2 DEF RecoverEntry
  <2>3. e[1] \in Nat /\ e[2] \in Tasks
    BY <1>a, ProcessFields DEF Scans
  <2>4. e[2] # None
    BY <2>3, StoreAssumption
  <2>5. Sound([gw[w] EXCEPT !.scan = @ \ {e}])
    BY <1>a, <2>2 DEF Sound, Process, Busy, Scans
  <2>6. Sound([[gw[w] EXCEPT !.scan = @ \ {e}] EXCEPT !.pc = "recheck", !.hand = e[2], !.held[e[2]] = e[1]])
    BY <1>a, <2>3, <2>4 DEF Sound, Process, Busy, LoopPCs, Scans
  <2>7. StoreTypeOK'
    BY <1>a, <2>1 DEF StoreTypeOK
  <2> QED
    BY <1>a, <2>1, <2>5, <2>6, <2>7, BecomesTyped
<1>3. CASE RecoverCheck(w)
  <2>1. Sound([gw[w] EXCEPT !.pc = IF CancelMarked(Hand(w)) THEN "refail" ELSE "rerequeue"])
    BY <1>3, <1>a, StoreAssumption DEF RecoverCheck, Sound, Process, LoopPCs, Busy
  <2> QED
    BY <1>3, <1>a, <2>1, BecomesTyped, StoreStutter DEF RecoverCheck
<1>4. CASE RecoverFail(w)
  <2>1. StoreTypeOK'
    BY <1>4, <1>a, StoreStutter, FinalizeTaskType DEF RecoverFail, Terminal
  <2>2. Sound([LetGo(w, "recover") EXCEPT !.held[Hand(w)] = 0])
    BY <1>u DEF LoopPCs, Busy
  <2> QED
    BY <1>4, <1>a, <2>1, <2>2, BecomesTyped DEF RecoverFail
<1>5. CASE RecoverRequeue(w)
  <2>1. Hand(w) \in Tasks
    BY <1>5, <1>a DEF RecoverRequeue, Busy, Hand
  <2>2. StoreTypeOK'
    BY <1>5, <1>a, <2>1, RequeueTaskType DEF RecoverRequeue
  <2>3. Sound([LetGo(w, "recover") EXCEPT !.held[Hand(w)] = 0])
    BY <1>u DEF LoopPCs, Busy
  <2> QED
    BY <1>5, <1>a, <2>2, <2>3, BecomesTyped DEF RecoverRequeue
<1>6. CASE EndRecovery(w)
  <2>1. \A pc \in {"idle", "direct"} : Sound([gw[w] EXCEPT !.pc = pc, !.fresh = FALSE])
    BY <1>a DEF Sound, Process, LoopPCs, Busy
  <2> QED
    BY <1>6, <1>a, <2>1, BecomesTyped, StoreStutter DEF EndRecovery
<1>7. CASE ClaimNext(w)
  <2>1. PICK t \in Tasks :
          /\ ClaimTask(w, gw[w].inst, Source(w), t)
          /\ Becomes(w, [gw[w] EXCEPT !.pc = "claimed", !.hand = t, !.src = Source(w), !.held[t] = tokens'])
    BY <1>7 DEF ClaimNext
  <2>2. Source(w) \in Queues
    BY <1>a DEF Source
  <2>3. StoreTypeOK'
    BY <1>a, <2>1, <2>2, ClaimTaskType
  <2>4. tokens' \in Nat /\ t # None
    BY <2>3, StoreAssumption DEF StoreTypeOK
  <2>5. Sound([gw[w] EXCEPT !.pc = "claimed", !.hand = t, !.src = Source(w), !.held[t] = tokens'])
    BY <1>a, <2>2, <2>4 DEF Sound, Process, LoopPCs
  <2> QED
    BY <1>7, <1>a, <2>1, <2>3, <2>5, BecomesTyped DEF ClaimNext
<1>8. CASE FindNothing(w)
  <2>1. Source(w) \in Queues
    BY <1>a DEF Source
  <2>2. StoreTypeOK'
    BY <1>8, <1>a, <2>1, DiscardQueueType, StoreStutter DEF FindNothing
  <2>3. Sound([gw[w] EXCEPT !.pc = IF @ = "direct" THEN "resource" ELSE "return"])
    BY <1>a DEF Sound, Process, LoopPCs, Busy
  <2> QED
    BY <1>8, <1>a, <2>2, <2>3, BecomesTyped DEF FindNothing
<1>9. CASE InspectClaim(w)
  <2>1. Hand(w) \in Tasks /\ Hand(w) # None /\ gw[w].hand = Hand(w)
    BY <1>9, <1>a, StoreAssumption DEF InspectClaim, Busy, Hand
  <2>2. PICK pc \in {"ack", "defer", "close", "mark"} :
          Becomes(w, IF pc = "defer"
                     THEN [LetGo(w, "resource") EXCEPT !.deferred = @ \cup {Hand(w)}]
                     ELSE [gw[w] EXCEPT !.pc = pc])
    BY <1>9 DEF InspectClaim
  <2>3. Sound([LetGo(w, "resource") EXCEPT !.deferred = @ \cup {Hand(w)}])
    BY <1>a, <2>1 DEF Sound, LetGo, Process, LoopPCs, Busy
  <2>4. pc # "defer" => Sound([gw[w] EXCEPT !.pc = pc])
    BY <1>a, <2>1 DEF Sound, Process, LoopPCs
  <2> QED
    BY <1>9, <1>a, <2>2, <2>3, <2>4, BecomesTyped, StoreStutter DEF InspectClaim
<1>10. CASE AcknowledgeClaim(w)
  <2>1. Hand(w) \in Tasks
    BY <1>10, <1>a DEF AcknowledgeClaim, Busy, Hand
  <2>2. StoreTypeOK'
    BY <1>10, <1>a, <2>1, AckClaimType DEF AcknowledgeClaim
  <2>3. Sound([LetGo(w, "resource") EXCEPT !.held[Hand(w)] = 0])
    BY <1>u DEF LoopPCs, Busy
  <2> QED
    BY <1>10, <1>a, <2>2, <2>3, BecomesTyped DEF AcknowledgeClaim
<1>11. CASE CloseAfterClaim(w)
  <2>1. Hand(w) \in Tasks
    BY <1>11, <1>a DEF CloseAfterClaim, Busy, Hand
  <2>2. StoreTypeOK'
    BY <1>11, <1>a, <2>1, RequeueTaskType DEF CloseAfterClaim
  <2>3. Sound([LetGo(w, "return") EXCEPT !.held[Hand(w)] = 0])
    BY <1>u DEF LoopPCs, Busy
  <2> QED
    BY <1>11, <1>a, <2>2, <2>3, BecomesTyped DEF CloseAfterClaim
<1>12. CASE StartTask(w)
  <2>1. Hand(w) \in Tasks
    BY <1>12, <1>a DEF StartTask, Busy, Hand
  <2>2. StoreTypeOK'
    BY <1>12, <1>a, <2>1, MarkProcessingType DEF StartTask
  <2>3. Sound([gw[w] EXCEPT !.pc = "return"])
    BY <1>a DEF Sound, Process, LoopPCs, Busy
  <2> QED
    BY <1>12, <1>a, <2>2, <2>3, BecomesTyped DEF StartTask
<1>13. CASE StartRefused(w)
  <2>1. Hand(w) \in Tasks
    BY <1>13, <1>a DEF StartRefused, Busy, Hand
  <2>2. StoreTypeOK'
    BY <1>13, <1>a, <2>1, RefuseProcessingType DEF StartRefused
  <2>3. \A pc \in {"resource", "return"} : Sound([LetGo(w, pc) EXCEPT !.held[Hand(w)] = 0])
    BY <1>u DEF LoopPCs, Busy
  <2> QED
    BY <1>13, <1>a, <2>2, <2>3, BecomesTyped DEF StartRefused
<1>14. CASE ReturnDeferred(w)
  <2>1. PICK t \in gw[w].deferred :
          ReturnClaim(t) /\ Becomes(w, [gw[w] EXCEPT !.deferred = @ \ {t}, !.held[t] = 0])
    BY <1>14 DEF ReturnDeferred
  <2>2. StoreTypeOK'
    BY <1>a, <2>1, ProcessFields, ReturnClaimType
  <2>3. Sound([gw[w] EXCEPT !.deferred = @ \ {t}, !.held[t] = 0])
    BY <1>14, <1>a DEF ReturnDeferred, Sound, Process, Busy
  <2> QED
    BY <1>14, <1>a, <2>1, <2>2, <2>3, BecomesTyped DEF ReturnDeferred
<1>15. CASE ReturnRaises(w)
  <2>1. PICK t \in gw[w].deferred :
          Becomes(w, [LetGo(w, "idle") EXCEPT !.deferred = {}, !.held[t] = 0])
    BY <1>15 DEF ReturnRaises
  <2>2. Sound([LetGo(w, "idle") EXCEPT !.deferred = {}, !.held[t] = 0])
    BY <1>a DEF Sound, LetGo, Process, LoopPCs, Busy
  <2> QED
    BY <1>15, <1>a, <2>1, <2>2, BecomesTyped, StoreStutter DEF ReturnRaises
<1>16. CASE FinishScan(w)
  <2>1. Sound([gw[w] EXCEPT !.pc = IF Hand(w) = None THEN "idle" ELSE "deliver"])
    BY <1>a DEF Sound, Process, LoopPCs, Busy, Hand
  <2> QED
    BY <1>16, <1>a, <2>1, BecomesTyped, StoreStutter DEF FinishScan
<1> QED
  BY <1>1, <1>2, <1>3, <1>4, <1>5, <1>6, <1>7, <1>8, <1>9, <1>10, <1>11, <1>12, <1>13, <1>14,
     <1>15, <1>16 DEF Dequeue

\* freeze_task_claim, whichever way its write goes.
LEMMA FreezeTyped ==
  ASSUME Typed, NEW w \in Workers, NEW t \in Tasks, NEW next, Sound(next), Freeze(w, t, next),
         UNCHANGED <<live, latch>>
  PROVE  Typed'
<1>1. Sound([next EXCEPT !.held[t] = IF claim[t].token = HeldToken(w, t) THEN HeldToken(w, t) ELSE 0])
  BY TypedParts, ProcessFields DEF Sound, Process, HeldToken
<1>2. StoreTypeOK /\ live' \in [Workers -> SUBSET Tasks] /\ latch' \subseteq Workers
  BY TypedParts
<1>3. CASE FreezeClaim(t, HeldToken(w, t)) /\ Becomes(w, [next EXCEPT !.held[t] =
             IF claim[t].token = HeldToken(w, t) THEN HeldToken(w, t) ELSE 0])
  BY <1>1, <1>2, <1>3, BecomesTyped, FreezeClaimType
<1>4. CASE Becomes(w, next) /\ UNCHANGED store
  BY <1>2, <1>4, BecomesTyped, StoreStutter
<1> QED
  BY <1>3, <1>4 DEF Freeze

\* Every step of _process_task and of its failure paths keeps Typed.
LEMMA ExecuteTyped ==
  ASSUME Typed, NEW w \in Workers, Execute(w)
  PROVE  Typed'
<1>a. /\ StoreTypeOK /\ gw[w] \in Process
      /\ live \in [Workers -> SUBSET Tasks] /\ latch \subseteq Workers
      /\ gw[w].pc \in Busy => gw[w].hand \in Tasks
  BY TypedParts
<1>b. \A t \in Tasks : gw[w].held[t] \in Nat
  BY <1>a, ProcessFields
<1>h. gw[w].pc \in Busy => Hand(w) \in Tasks /\ gw[w].hand # None
  BY <1>a, StoreAssumption DEF Hand
<1>r. Sound(Resolved(w, Hand(w), "idle"))
  BY <1>a, ResolvedSound DEF LoopPCs, Busy
<1>k. \A k \in Nat : Sound([Resolved(w, Hand(w), "idle") EXCEPT !.held[Hand(w)] = k])
  BY <1>r DEF Sound, Process
<1>p. ASSUME NEW pc \in LoopPCs, pc \in Busy => gw[w].hand # None
      PROVE  Sound([gw[w] EXCEPT !.pc = pc])
  BY <1>a, <1>p DEF Sound, Process
<1>s. Sound([gw[w] EXCEPT !.pc = "halted", !.running = FALSE])
  <2>1. \A pc \in LoopPCs \ Busy : Sound([gw[w] EXCEPT !.pc = pc, !.running = FALSE])
    BY <1>a DEF Sound, Process
  <2> QED
    BY <2>1 DEF LoopPCs, Busy
<1>1. CASE Deliver(w)
  <2>1. Sound([gw[w] EXCEPT !.pc = "run", !.current = Hand(w)])
    BY <1>1, <1>a, <1>h DEF Deliver, Sound, Process, LoopPCs, Busy
  <2> QED
    BY <1>1, <1>a, <2>1, BecomesTyped, StoreStutter DEF Deliver
<1>2. CASE DeliverClosed(w) \/ GateClosed(w)
  <2>1. Sound([gw[w] EXCEPT !.pc = "giveback"]) /\ Sound([gw[w] EXCEPT !.pc = "halted"])
    BY <1>2, <1>h, <1>p DEF DeliverClosed, GateClosed, LoopPCs, Busy
  <2> QED
    BY <1>2, <1>a, <2>1, BecomesTyped, StoreStutter DEF DeliverClosed, GateClosed
<1>3. CASE LaunchChild(w)
  <2>1. Sound([gw[w] EXCEPT !.pc = "exec"])
    BY <1>3, <1>h, <1>p DEF LaunchChild, LoopPCs, Busy
  <2>2. live' \in [Workers -> SUBSET Tasks]
    BY <1>3, <1>a, <1>h DEF LaunchChild, Busy
  <2> QED
    BY <1>3, <1>a, <2>1, <2>2, BecomesTyped, StoreStutter DEF LaunchChild
<1>4. CASE GiveBack(w)
  <2>1. StoreTypeOK'
    BY <1>4, <1>a, <1>h, RequeueTaskType DEF GiveBack, Busy
  <2>2. HeldToken(w, Hand(w)) \in Nat
    BY <1>4, <1>b, <1>h DEF GiveBack, Busy, HeldToken
  <2> QED
    BY <1>4, <1>a, <1>k, <2>1, <2>2, BecomesTyped DEF GiveBack
<1>5. CASE ChildDone(w)
  <2>1. Sound([gw[w] EXCEPT !.pc = "sync"])
    BY <1>5, <1>h, <1>p DEF ChildDone, LoopPCs, Busy
  <2>2. live' \in [Workers -> SUBSET Tasks]
    BY <1>5, <1>a DEF ChildDone
  <2> QED
    BY <1>5, <1>a, <2>1, <2>2, BecomesTyped, StoreStutter DEF ChildDone
<1>6. CASE Unwound(w)
  <2>1. Sound([gw[w] EXCEPT !.pc = "halted", !.retained = Hand(w)])
    BY <1>6, <1>a, <1>h DEF Unwound, Sound, Process, LoopPCs, Busy
  <2> QED
    BY <1>6, <1>a, <2>1, BecomesTyped, StoreStutter DEF Unwound
<1>7. CASE CheckRetained(w)
  <2>1. Sound([gw[w] EXCEPT !.pc = "commit", !.cap = gw[w].held[Hand(w)]])
    BY <1>7, <1>a, <1>b, <1>h DEF CheckRetained, Sound, Process, LoopPCs, Busy
  <2> QED
    BY <1>7, <1>a, <1>s, <2>1, BecomesTyped, StoreStutter DEF CheckRetained
<1>8. CASE Commit(w)
  <2>1. StoreTypeOK'
    BY <1>8, <1>a, FinalizeTaskType DEF Commit
  <2> QED
    BY <1>8, <1>a, <1>r, <2>1, BecomesTyped DEF Commit
<1>9. CASE CommitUnclaimed(w)
  <2>1. Sound([gw[w] EXCEPT !.pc = "blind"])
    BY <1>9, <1>h, <1>p DEF CommitUnclaimed, LoopPCs, Busy
  <2> QED
    BY <1>9, <1>a, <2>1, BecomesTyped, StoreStutter DEF CommitUnclaimed
<1>10. CASE CommitBlind(w)
  <2>1. StoreTypeOK'
    BY <1>10, <1>a, FinalizeBlindType DEF CommitBlind
  <2> QED
    BY <1>10, <1>a, <1>r, <2>1, BecomesTyped DEF CommitBlind
<1>11. CASE CommitStale(w)
  <2>1. gw[w].held[Hand(w)] \in Nat
    BY <1>11, <1>b, <1>h DEF CommitStale, Busy
  <2> QED
    BY <1>11, <1>a, <1>k, <2>1, BecomesTyped, StoreStutter DEF CommitStale
<1>12. CASE CommitFrozen(w)
  <2>1. Sound([gw[w] EXCEPT !.pc = "halted", !.running = FALSE, !.retained = Hand(w)])
    BY <1>12, <1>a, <1>h DEF CommitFrozen, Sound, Process, LoopPCs, Busy
  <2> QED
    BY <1>12, <1>a, <2>1, BecomesTyped, StoreStutter DEF CommitFrozen
<1>13. CASE CommitFails(w)
  BY <1>13, <1>a, <1>s, BecomesTyped, StoreStutter DEF CommitFails
<1>14. CASE CommitReplyLost(w)
  <2>1. StoreTypeOK'
    BY <1>14, <1>a, FinalizeTaskType DEF CommitReplyLost
  <2> QED
    BY <1>14, <1>a, <1>s, <2>1, BecomesTyped DEF CommitReplyLost
<1>15. CASE ReapUnproven(w)
  <2>1. Sound([gw[w] EXCEPT !.pc = "contain", !.running = FALSE, !.retained = Hand(w)])
    BY <1>15, <1>a, <1>h DEF ReapUnproven, Sound, Process, LoopPCs, Busy
  <2> QED
    BY <1>15, <1>a, <2>1, BecomesTyped, StoreStutter DEF ReapUnproven
<1>16. CASE ContainFreeze(w)
  <2>1. Sound([gw[w] EXCEPT !.pc = "latching"])
    BY <1>16, <1>h, <1>p DEF ContainFreeze, LoopPCs, Busy
  <2> QED
    BY <1>16, <1>h, <2>1, FreezeTyped DEF ContainFreeze, Busy
<1>17. CASE ContainLatch(w)
  <2>1. Sound([gw[w] EXCEPT !.pc = "halted"])
    BY <1>p DEF LoopPCs, Busy
  <2> QED
    BY <1>17, <1>a, <2>1, BecomesTyped, StoreStutter DEF ContainLatch
<1> QED
  BY <1>1, <1>2, <1>3, <1>4, <1>5, <1>6, <1>7, <1>8, <1>9, <1>10, <1>11, <1>12, <1>13, <1>14,
     <1>15, <1>16, <1>17 DEF Execute

\* Every step of stop() keeps Typed.
LEMMA StoppingTyped ==
  ASSUME Typed, NEW w \in Workers, Stopping(w)
  PROVE  Typed'
<1>a. /\ StoreTypeOK /\ gw[w] \in Process /\ gw[w].inst \in Nat
      /\ gw[w].retained \in Tasks \cup {None} /\ gw[w].current \in Tasks \cup {None}
      /\ live \in [Workers -> SUBSET Tasks] /\ latch \subseteq Workers
      /\ gw[w].pc \in Busy => gw[w].hand # None
  BY TypedParts, ProcessFields DEF Typed, HandsFull
<1>s. \A stop \in StopPCs : Sound([gw[w] EXCEPT !.stop = stop])
  BY <1>a DEF Sound, Process
<1>1. CASE StopBegins(w)
  BY <1>1, <1>a, <1>s, BecomesTyped, StoreStutter DEF StopBegins, StopPCs
<1>2. CASE DrainOver(w)
  <2>1. Sound([gw[w] EXCEPT !.stop = "freeze", !.retained = gw[w].current])
    BY <1>a DEF Sound, Process, StopPCs
  <2> QED
    BY <1>2, <1>a, <1>s, <2>1, BecomesTyped, StoreStutter DEF DrainOver, StopPCs
<1>3. CASE StopFreeze(w)
  <2>1. Sound([gw[w] EXCEPT !.stop = "pool"])
    BY <1>s DEF StopPCs
  <2>2. CASE gw[w].retained = None
    BY <1>3, <1>a, <2>1, <2>2, BecomesTyped, StoreStutter DEF StopFreeze
  <2>3. CASE gw[w].retained # None
    BY <1>3, <1>a, <2>1, <2>3, FreezeTyped DEF StopFreeze
  <2> QED
    BY <2>2, <2>3
<1>4. CASE PoolShutSafe(w) \/ PoolShutUnsafe(w)
  <2>1. live' \in [Workers -> SUBSET Tasks] /\ latch' \subseteq Workers
    BY <1>4, <1>a DEF PoolShutSafe, PoolShutUnsafe
  <2> QED
    BY <1>4, <1>a, <1>s, <2>1, BecomesTyped, StoreStutter DEF PoolShutSafe, PoolShutUnsafe, StopPCs
<1>5. CASE FailRetained(w) \/ FailBlind(w)
  <2>1. StoreTypeOK'
    BY <1>5, <1>a, FinalizeTaskType, FinalizeBlindType, StoreStutter
       DEF FailRetained, FailBlind, Terminal
  <2>2. Sound(Abandoned(w))
    BY <1>a DEF Abandoned, Sound, Process, StopPCs
  <2>3. Sound([Abandoned(w) EXCEPT !.held[gw[w].retained] = 0])
    BY <2>2 DEF Sound, Process
  <2>4. Sound([gw[w] EXCEPT !.stop = "exit"]) /\ Sound([gw[w] EXCEPT !.stop = "blind"])
    BY <1>s DEF StopPCs
  <2> QED
    BY <1>5, <1>a, <2>1, <2>2, <2>3, <2>4, BecomesTyped DEF FailRetained, FailBlind
<1>6. CASE Exit(w)
  BY <1>6, <1>a, NoProcessSound, BecomesTyped, StoreStutter DEF Exit
<1> QED
  BY <1>1, <1>2, <1>3, <1>4, <1>5, <1>6 DEF Stopping

\* Typed holds before the first worker is started.
LEMMA InitTyped == Init => Typed
<1> SUFFICES ASSUME Init PROVE Typed
  OBVIOUS
<1>1. StoreTypeOK
  BY DEF Init, StoreInit, StoreTypeOK, Statuses, Claims, Cleared, Fences, ParentStates
<1>2. Sound(NoProcess(0))
  BY NoProcessSound
<1> QED
  BY <1>1, <1>2 DEF Init, Typed, TypeOK, HandsFull, Sound

\* Every step of the system keeps Typed.
LEMMA StepTyped == Typed /\ [Next]_vars => Typed'
<1> SUFFICES ASSUME Typed, [Next]_vars PROVE Typed'
  OBVIOUS
<1>1. CASE ControlPlane
  BY <1>1, ControlType DEF ControlPlane, Typed, TypeOK, HandsFull
<1>2. CASE \E w \in Workers :
             Supervision(w) \/ Signal(w) \/ Stopping(w) \/ Dequeue(w) \/ Execute(w)
  BY <1>2, SupervisionTyped, StoppingTyped, DequeueTyped, ExecuteTyped
<1>3. CASE UNCHANGED vars
  BY <1>3, StoreStutter DEF vars, Typed, TypeOK, HandsFull
<1> QED
  BY <1>1, <1>2, <1>3 DEF Next

\* The inductive form of TypeCorrect: the store and the processes keep
\* their types, and a process between claim and release holds a task.
THEOREM TypedAlways == Spec => []Typed
BY InitTyped, StepTyped, PTL DEF Spec

\* Every record, queue, claim and process keeps its type; no script call is
\* ever made for an empty hand.
THEOREM TypeCorrect == Spec => []TypeOK
<1>1. Typed => TypeOK
  BY DEF Typed
<1> QED
  BY <1>1, TypedAlways, PTL

-----------------------------------------------------------------------------
(***************************************************************************)
(* Safety of the task records.  The processes touch the store only through *)
(* its scripts, so the proofs go in two steps: every step of TaskClaims is *)
(* one of a few moves of the store, and every move preserves the           *)
(* invariant.                                                              *)
(***************************************************************************)

-----------------------------------------------------------------------------
(* What the processes and the control plane do to the store.               *)

\* RecoverEntry drops an inflight entry that names a superseded token.
Prune(w, k, t) ==
    /\ claim[t].token # k
    /\ inflight' = inflight \ {<<w, k, t>>}
    /\ UNCHANGED <<status, assigned, claim, queue, tokens, tombstone, parent>>

\* AcknowledgeClaim runs its script where the claim scan found the task dead.
Acks(w, t) == gw[w].pc = "ack" /\ t = Hand(w) /\ AckClaim(t, HeldToken(w, t))

TaskMove(t) ==
    \/ \E w \in Workers, n \in Nat, q \in Queues : ClaimTask(w, n, q, t)
    \/ \E w \in Workers, k \in Nat : Prune(w, k, t)
    \/ \E w \in Workers : Acks(w, t)
    \/ \E k \in Nat : MarkProcessing(t, k) \/ RefuseProcessing(t, k) \/ FreezeClaim(t, k)
    \/ ReturnClaim(t)
    \/ \E k \in Nat, release \in SUBSET Fences, restore \in BOOLEAN : RequeueTask(t, k, release, restore)
    \/ \E outcome \in Terminal : FinalizeTask(t, outcome) \/ FinalizeBlind(t, outcome)

StoreMove ==
    \/ UNCHANGED store
    \/ Control
    \/ \E q \in Queues : DiscardQueue(q)
    \/ \E t \in Tasks : TaskMove(t)

\* A freeze reaches the store as FreezeClaim of the held token, or not at all.
LEMMA FreezeMoves ==
  ASSUME NEW w \in Workers, NEW t \in Tasks, NEW next, Freeze(w, t, next), gw[w] \in Process
  PROVE  StoreMove
<1>1. HeldToken(w, t) \in Nat
  BY ProcessFields DEF HeldToken
<1> QED
  BY <1>1 DEF Freeze, StoreMove, TaskMove

\* Recovery and the claim scan change the store only by its scripts.
LEMMA DequeueMoves ==
  ASSUME Typed, NEW w \in Workers, Dequeue(w)
  PROVE  StoreMove
<1>a. /\ gw[w] \in Process /\ gw[w].inst \in Nat /\ gw[w].deferred \subseteq Tasks
      /\ gw[w].scan \in Scans
      /\ gw[w].pc \in Busy => Hand(w) \in Tasks
      /\ Source(w) \in Queues
  BY TypedParts, ProcessFields, QueuesType DEF Hand, Source
<1>b. \A t \in Tasks : HeldToken(w, t) \in Nat
  BY <1>a, ProcessFields DEF HeldToken
<1>1. CASE BeginDequeue(w) \/ RecoverCheck(w) \/ EndRecovery(w) \/ InspectClaim(w)
             \/ ReturnRaises(w) \/ FinishScan(w)
  BY <1>1 DEF BeginDequeue, RecoverCheck, EndRecovery, InspectClaim, ReturnRaises, FinishScan, StoreMove
<1>2. CASE RecoverEntry(w)
  <2>1. PICK e \in gw[w].scan :
          /\ inflight' = IF claim[e[2]].token # e[1] THEN inflight \ {<<w, e[1], e[2]>>} ELSE inflight
          /\ UNCHANGED <<status, assigned, claim, queue, tokens, tombstone, parent>>
    BY <1>2 DEF RecoverEntry
  <2>2. e[1] \in Nat /\ e[2] \in Tasks
    BY <1>a DEF Scans
  <2>3. CASE claim[e[2]].token # e[1]
    <3>1. Prune(w, e[1], e[2])
      BY <2>1, <2>3 DEF Prune
    <3> QED
      BY <2>2, <3>1 DEF StoreMove, TaskMove
  <2>4. CASE claim[e[2]].token = e[1]
    BY <2>1, <2>4 DEF StoreMove, store
  <2> QED
    BY <2>3, <2>4
<1>3. CASE RecoverFail(w)
  <2>1. Hand(w) \in Tasks
    BY <1>3, <1>a DEF RecoverFail, Busy
  <2> QED
    BY <1>3, <2>1 DEF RecoverFail, StoreMove, TaskMove, Terminal
<1>4. CASE RecoverRequeue(w)
  <2>1. Hand(w) \in Tasks
    BY <1>4, <1>a DEF RecoverRequeue, Busy
  <2>2. {"execution_fenced", "frozen"} \in SUBSET Fences /\ {} \in SUBSET Fences /\ TRUE \in BOOLEAN
    BY DEF Fences
  <2> QED
    BY <1>4, <1>b, <2>1, <2>2 DEF RecoverRequeue, StoreMove, TaskMove
<1>5. CASE ClaimNext(w)
  BY <1>5, <1>a DEF ClaimNext, StoreMove, TaskMove
<1>6. CASE FindNothing(w)
  BY <1>6, <1>a DEF FindNothing, StoreMove
<1>7. CASE AcknowledgeClaim(w) \/ StartTask(w) \/ StartRefused(w)
  <2>1. Hand(w) \in Tasks
    BY <1>7, <1>a DEF AcknowledgeClaim, StartTask, StartRefused, Busy
  <2> QED
    BY <1>7, <1>b, <2>1 DEF AcknowledgeClaim, Acks, StartTask, StartRefused, StoreMove, TaskMove
<1>8. CASE CloseAfterClaim(w)
  <2>1. Hand(w) \in Tasks
    BY <1>8, <1>a DEF CloseAfterClaim, Busy
  <2> QED
    BY <1>8, <1>b, <2>1 DEF CloseAfterClaim, StoreMove, TaskMove
<1>9. CASE ReturnDeferred(w)
  BY <1>9, <1>a DEF ReturnDeferred, StoreMove, TaskMove
<1> QED
  BY <1>1, <1>2, <1>3, <1>4, <1>5, <1>6, <1>7, <1>8, <1>9 DEF Dequeue

\* Running a task changes the store only by its scripts.
LEMMA ExecuteMoves ==
  ASSUME Typed, NEW w \in Workers, Execute(w)
  PROVE  StoreMove
<1>a. gw[w] \in Process /\ (gw[w].pc \in Busy => Hand(w) \in Tasks)
  BY TypedParts DEF Hand
<1>1. CASE Deliver(w) \/ DeliverClosed(w) \/ LaunchChild(w) \/ GateClosed(w) \/ ChildDone(w)
             \/ Unwound(w) \/ CheckRetained(w) \/ CommitUnclaimed(w) \/ CommitStale(w)
             \/ CommitFrozen(w) \/ CommitFails(w) \/ ReapUnproven(w) \/ ContainLatch(w)
  BY <1>1 DEF Deliver, DeliverClosed, LaunchChild, GateClosed, ChildDone, Unwound, CheckRetained,
              CommitUnclaimed, CommitStale, CommitFrozen, CommitFails, ReapUnproven, ContainLatch, StoreMove
<1>2. CASE GiveBack(w)
  <2>1. Hand(w) \in Tasks
    BY <1>2, <1>a DEF GiveBack, Busy
  <2>2. HeldToken(w, Hand(w)) \in Nat /\ {"execution_fenced"} \in SUBSET Fences /\ FALSE \in BOOLEAN
    BY <1>a, <2>1, ProcessFields DEF HeldToken, Fences
  <2> QED
    BY <1>2, <2>1, <2>2 DEF GiveBack, StoreMove, TaskMove
<1>3. CASE Commit(w) \/ CommitReplyLost(w) \/ CommitBlind(w)
  <2>1. Hand(w) \in Tasks
    BY <1>3, <1>a DEF Commit, CommitReplyLost, CommitBlind, Busy
  <2> QED
    BY <1>3, <2>1 DEF Commit, CommitReplyLost, CommitBlind, StoreMove, TaskMove
<1>4. CASE ContainFreeze(w)
  <2>1. Hand(w) \in Tasks
    BY <1>4, <1>a DEF ContainFreeze, Busy
  <2> QED
    BY <1>4, <1>a, <2>1, FreezeMoves DEF ContainFreeze
<1> QED
  BY <1>1, <1>2, <1>3, <1>4 DEF Execute

\* Shutdown changes the store only by its scripts.
LEMMA StoppingMoves ==
  ASSUME Typed, NEW w \in Workers, Stopping(w)
  PROVE  StoreMove
<1>a. gw[w] \in Process /\ gw[w].retained \in Tasks \cup {None}
  BY TypedParts, ProcessFields
<1>1. CASE StopBegins(w) \/ DrainOver(w) \/ PoolShutSafe(w) \/ PoolShutUnsafe(w) \/ Exit(w)
  BY <1>1 DEF StopBegins, DrainOver, PoolShutSafe, PoolShutUnsafe, Exit, StoreMove
<1>2. CASE StopFreeze(w)
  BY <1>2, <1>a, FreezeMoves DEF StopFreeze, StoreMove
<1>3. CASE FailRetained(w)
  BY <1>3, <1>a DEF FailRetained, StoreMove, TaskMove, Terminal
<1>4. CASE FailBlind(w)
  <2>1. CASE gw[w].retained = None
    <3>1. UNCHANGED store
      BY <1>4, <2>1, StoreAssumption, TypedParts DEF FailBlind, FinalizeBlind, StoreTypeOK, store
    <3> QED
      BY <3>1 DEF StoreMove
  <2>2. CASE gw[w].retained # None
    BY <1>4, <1>a, <2>2 DEF FailBlind, StoreMove, TaskMove, Terminal
  <2> QED
    BY <2>1, <2>2
<1> QED
  BY <1>1, <1>2, <1>3, <1>4 DEF Stopping

\* Every step of the system is a move of the store.
LEMMA StepMoves ==
  ASSUME Typed, [Next]_vars
  PROVE  StoreMove
<1>1. CASE ControlPlane
  BY <1>1 DEF ControlPlane, StoreMove
<1>2. CASE \E w \in Workers : Supervision(w) \/ Signal(w)
  BY <1>2 DEF Supervision, Signal, StartWorker, Boot, Crash, ProveDrained, DrainUnproven, ClearLatch,
              PoolFault, StoreMove
<1>3. CASE \E w \in Workers : Stopping(w) \/ Dequeue(w) \/ Execute(w)
  BY <1>3, StoppingMoves, DequeueMoves, ExecuteMoves
<1>4. CASE UNCHANGED vars
  BY <1>4 DEF vars, StoreMove
<1> QED
  BY <1>1, <1>2, <1>3, <1>4 DEF Next

-----------------------------------------------------------------------------
(* Claims and queues.                                                      *)

\* The invariant behind ClaimOwnsTask, task by task: a claimed task is in no
\* queue; its source is a queue it may go back to; an unclaimed task is in the
\* shared queue or in its own worker's, not in both.
Owned(t) ==
    Claimed(t) =>
      /\ \A q \in Queues : t \notin queue[q]
      /\ status[t] \in {"pending", "processing"}
      /\ claim[t].fence = "execution_fenced" => status[t] = "processing"
      /\ status[t] = "processing" => claim[t].fence # "none"

SourceKnown(t) ==
    /\ ~Claimed(t) => claim[t].src = None
    /\ Claimed(t) => claim[t].src \in Queues /\ claim[t].src \in {Gpu, assigned[t]}

QueuedAtHome(t) ==
    /\ \A q \in Queues : t \in queue[q] => q \in {Gpu, assigned[t]}
    /\ t \in queue[Gpu] => \A w \in Workers : t \notin queue[w]

AbsentUnqueued(t) == status[t] = "absent" => \A q \in Queues : t \notin queue[q]

Safe(t) == Owned(t) /\ SourceKnown(t) /\ QueuedAtHome(t) /\ AbsentUnqueued(t)

\* A task that a move leaves alone, or takes off queues, stays safe.
LEMMA SafeFrame ==
  ASSUME NEW t, Safe(t), status'[t] = status[t], assigned'[t] = assigned[t], claim'[t] = claim[t],
         \A q \in Queues : t \in queue'[q] => t \in queue[q]
  PROVE  Safe(t)'
BY QueuesType DEF Safe, Owned, SourceKnown, QueuedAtHome, AbsentUnqueued, Claimed

\* A dropped claim has no token, no source and no fence.
LEMMA ClearedFields == Cleared.token = 0 /\ Cleared.src = None /\ Cleared.fence = "none"
BY DEF Cleared

\* A task whose claim is dropped where it waits stays safe.
LEMMA SafeCleared ==
  ASSUME NEW t, Safe(t), claim'[t] = Cleared, assigned'[t] = assigned[t],
         status'[t] = status[t] \/ status'[t] # "absent",
         \A q \in Queues : t \in queue'[q] => t \in queue[q]
  PROVE  Safe(t)'
BY QueuesType, ClearedFields DEF Safe, Owned, SourceKnown, QueuedAtHome, AbsentUnqueued, Claimed

\* A task that no queue held and that is put in one queue, its home, is safe.
LEMMA SafeQueued ==
  ASSUME NEW t, NEW q \in Queues, claim'[t].token = 0, claim'[t].src = None, status'[t] # "absent",
         \A r \in Queues : t \in queue'[r] => r = q,
         q \in {Gpu, assigned'[t]}
  PROVE  Safe(t)'
BY QueuesType, StoreAssumption DEF Safe, Owned, SourceKnown, QueuedAtHome, AbsentUnqueued, Claimed

AllSafe == StoreTypeOK /\ \A t \in Tasks : Safe(t)

\* LREM adds an id to no queue.
LEMMA UnqueuedShrinks ==
  ASSUME NEW t, NEW r \in Queues
  PROVE  Unqueued(t)[r] \subseteq queue[r]
BY DEF Unqueued

\* Submission and force refresh keep every task safe.
LEMMA SubmitSafe ==
  ASSUME AllSafe, NEW t \in Tasks, NEW q \in Queues, SubmitTask(t, q) \/ ForceRefreshTask(t, q),
         NEW u \in Tasks
  PROVE  Safe(u)'
<1>a. Safe(t) /\ Safe(u) /\ queue \in [Queues -> SUBSET Tasks] /\ assigned \in [Tasks -> Workers \cup {None}]
      /\ status \in [Tasks -> Statuses]
  BY DEF AllSafe, StoreTypeOK
<1>b. \A r \in Queues : queue'[r] \subseteq queue[r] \cup {t}
  BY <1>a, UnqueuedShrinks, UnqueuedType DEF SubmitTask, ForceRefreshTask, AllSafe
<1>c. \A r \in Queues : t \in queue'[r] => r = q
  <2>1. CASE SubmitTask(t, q)
    BY <1>a, <2>1 DEF SubmitTask, Safe, AbsentUnqueued
  <2>2. CASE ForceRefreshTask(t, q)
    <3>1. \A r \in Queues : t \notin Unqueued(t)[r]
      BY <1>a DEF Unqueued, Safe, QueuedAtHome
    <3> QED
      BY <2>2, <3>1, UnqueuedType DEF ForceRefreshTask, AllSafe
  <2> QED
    BY <2>1, <2>2
<1>1. CASE u # t
  BY <1>1, <1>a, <1>b, SafeFrame DEF SubmitTask, ForceRefreshTask
<1>2. CASE u = t
  <2>1. ~Claimed(t)
    BY <1>a DEF SubmitTask, ForceRefreshTask, Safe, Owned
  <2>2. claim'[t].token = 0 /\ claim'[t].src = None /\ status'[t] # "absent"
    BY <1>a, <2>1 DEF SubmitTask, ForceRefreshTask, Claimed, Safe, SourceKnown
  <2>3. q \in {Gpu, assigned'[t]}
    BY <1>a DEF SubmitTask, ForceRefreshTask, Home, Queues
  <2> QED
    BY <1>2, <1>c, <2>2, <2>3, SafeQueued
<1> QED
  BY <1>1, <1>2

\* The control plane keeps every task safe.
LEMMA ControlSafe ==
  ASSUME AllSafe, Control, NEW u \in Tasks
  PROVE  Safe(u)'
<1>a. /\ \A t \in Tasks : Safe(t)
      /\ queue \in [Queues -> SUBSET Tasks] /\ status \in [Tasks -> Statuses]
      /\ claim \in [Tasks -> Claims] /\ assigned \in [Tasks -> Workers \cup {None}]
  BY DEF AllSafe, StoreTypeOK
<1>1. CASE \E t \in Tasks, q \in Queues : SubmitTask(t, q) \/ ForceRefreshTask(t, q)
  BY <1>1, SubmitSafe
<1>2. CASE \E t \in Tasks : CancelTask(t)
  <2>1. PICK t \in Tasks : CancelTask(t)
    BY <1>2
  <2>2. \A q \in Queues : u \in queue'[q] => u \in queue[q]
    BY <2>1, <1>a DEF CancelTask, Unqueued
  <2>3. assigned' = assigned
    BY <2>1 DEF CancelTask
  <2>4. CASE status[t] = "pending" /\ claim[t].fence = "none" /\ u = t
    BY <2>1, <2>2, <2>3, <2>4, <1>a, SafeCleared DEF CancelTask, ClearClaim
  <2>5. CASE ~(status[t] = "pending" /\ claim[t].fence = "none" /\ u = t)
    BY <2>1, <2>2, <2>3, <2>5, <1>a, SafeFrame DEF CancelTask, ClearClaim
  <2> QED
    BY <2>4, <2>5
<1>3. CASE CancelParent \/ LapseParent
  BY <1>3, <1>a, SafeFrame DEF CancelParent, LapseParent
<1>4. CASE FinishParent
  <2> DEFINE closed == {t \in Children : status[t] = "pending" /\ claim[t].fence = "none"}
  <2>1. /\ \A q \in Queues : u \in queue'[q] => u \in queue[q]
        /\ assigned' = assigned
        /\ u \in closed => claim'[u] = Cleared /\ status'[u] = "failed"
        /\ u \notin closed => claim'[u] = claim[u] /\ status'[u] = status[u]
    BY <1>4, <1>a DEF FinishParent
  <2> QED
    BY <1>a, <2>1, SafeCleared, SafeFrame
<1>5. CASE \E t \in Tasks, w \in Workers : QueueWaitRequeue(t, w)
  <2>1. PICK t \in Tasks, w \in Workers : QueueWaitRequeue(t, w)
    BY <1>5
  <2>2. CASE u # t
    BY <2>1, <2>2, <1>a, SafeFrame, QueuesType DEF QueueWaitRequeue
  <2>3. CASE u = t
    <3>1. /\ claim'[t].token = 0 /\ claim'[t].src = None /\ status'[t] # "absent"
      BY <2>1, <1>a DEF QueueWaitRequeue, Claimed, Safe, SourceKnown
    <3>2. w \in Queues /\ Gpu \in Queues /\ w # Gpu
      BY QueuesType, StoreAssumption
    <3>3. \A r \in Queues : t \in queue[r] => r \in {Gpu, w}
      BY <2>1, <1>a, <3>2 DEF QueueWaitRequeue, Safe, QueuedAtHome
    <3>4. \A r \in Queues : t \in queue'[r] => r = Gpu
      BY <2>1, <1>a, <3>2, <3>3 DEF QueueWaitRequeue
    <3> QED
      BY <2>3, <3>1, <3>2, <3>4, SafeQueued
  <2> QED
    BY <2>2, <2>3
<1> QED
  BY <1>1, <1>2, <1>3, <1>4, <1>5 DEF Control, Submits, Refreshes, Cancels, QueueWaits

\* A claim takes its task off the only queue that holds it.
LEMMA ClaimSafe ==
  ASSUME AllSafe, NEW w \in Workers, NEW n \in Nat, NEW q \in Queues, NEW t \in Tasks,
         ClaimTask(w, n, q, t), NEW u \in Tasks
  PROVE  Safe(u)'
<1>a. /\ Safe(t) /\ Safe(u) /\ queue \in [Queues -> SUBSET Tasks] /\ tokens \in Nat
      /\ claim \in [Tasks -> Claims]
  BY DEF AllSafe, StoreTypeOK
<1>1. PICK debris : queue' = [queue EXCEPT ![q] = @ \ (debris \cup {t})]
  BY DEF ClaimTask
<1>2. \A r \in Queues : queue'[r] \subseteq queue[r]
  BY <1>a, <1>1
<1>3. CASE u # t
  BY <1>2, <1>3, <1>a, SafeFrame DEF ClaimTask
<1>4. CASE u = t
  <2>1. t \in queue[q] /\ status[t] = "pending" /\ status' = status /\ assigned' = assigned
    BY DEF ClaimTask, Claimable
  <2>2. \A r \in Queues : t \in queue[r] => r = q
    BY <1>a, <2>1 DEF Safe, QueuedAtHome, Queues
  <2>3. \A r \in Queues : t \notin queue'[r]
    BY <1>a, <1>1, <2>2
  <2>4. claim'[t].token # 0 /\ claim'[t].src = q /\ claim'[t].fence = "none"
    BY <1>a DEF ClaimTask
  <2>5. q \in {Gpu, assigned'[t]}
    BY <1>a, <2>1 DEF Safe, QueuedAtHome
  <2> QED
    BY <1>4, <2>1, <2>3, <2>4, <2>5, QueuesType
       DEF Safe, Owned, SourceKnown, QueuedAtHome, AbsentUnqueued, Claimed
<1> QED
  BY <1>3, <1>4

\* A requeue puts a task back where no copy of it waits.
LEMMA RequeueSafe ==
  ASSUME AllSafe, NEW t \in Tasks, NEW k \in Nat, NEW release \in SUBSET Fences, NEW restore \in BOOLEAN,
         RequeueTask(t, k, release, restore), NEW u \in Tasks
  PROVE  Safe(u)'
<1> DEFINE q == IF restore THEN claim[t].src ELSE Gpu
<1>a. /\ Safe(t) /\ Safe(u) /\ queue \in [Queues -> SUBSET Tasks] /\ status \in [Tasks -> Statuses]
      /\ claim \in [Tasks -> Claims] /\ assigned \in [Tasks -> Workers \cup {None}]
  BY DEF AllSafe, StoreTypeOK
<1>1. CASE ~Requeueable(t, k, release)
  BY <1>1, <1>a, SafeFrame DEF RequeueTask
<1>2. CASE Requeueable(t, k, release) /\ ~(Allowed(t) /\ ~CancelMarked(t))
  <2>1. /\ UNCHANGED <<status, assigned, queue>>
        /\ claim'[u] = IF u = t THEN Cleared ELSE claim[u]
    BY <1>2, <1>a DEF RequeueTask, ClearClaim
  <2> QED
    BY <1>a, <2>1, SafeFrame, SafeCleared
<1>3. CASE Requeueable(t, k, release) /\ Allowed(t) /\ ~CancelMarked(t)
  <2>1. /\ claim' = [claim EXCEPT ![t] = Cleared]
        /\ status' = [status EXCEPT ![t] = "pending"]
        /\ assigned' = [assigned EXCEPT ![t] = IF restore THEN @ ELSE None]
        /\ queue' = [queue EXCEPT ![q] = @ \cup {t}]
    BY <1>3 DEF RequeueTask, ClearClaim
  <2>2. Claimed(t)
    BY <1>3 DEF Requeueable, Claimed
  <2>3. q \in Queues /\ q \in {Gpu, assigned'[t]}
    BY <1>a, <2>1, <2>2, QueuesType DEF Safe, SourceKnown
  <2>4. \A r \in Queues : t \in queue'[r] => r = q
    BY <1>a, <2>1, <2>2, <2>3 DEF Safe, Owned
  <2>5. CASE u = t
    <3>1. claim'[t].token = 0 /\ claim'[t].src = None /\ status'[t] # "absent"
      BY <1>a, <2>1, ClearedFields
    <3> QED
      BY <2>3, <2>4, <2>5, <3>1, SafeQueued
  <2>6. CASE u # t
    <3>1. /\ claim'[u] = claim[u] /\ status'[u] = status[u] /\ assigned'[u] = assigned[u]
          /\ \A r \in Queues : u \in queue'[r] => u \in queue[r]
      BY <1>a, <2>1, <2>3, <2>6
    <3> QED
      BY <1>a, <3>1, SafeFrame
  <2> QED
    BY <2>5, <2>6
<1> QED
  BY <1>1, <1>2, <1>3

\* So does the return of a deferred claim.
LEMMA ReturnSafe ==
  ASSUME AllSafe, NEW t \in Tasks, ReturnClaim(t), NEW u \in Tasks
  PROVE  Safe(u)'
<1>a. /\ Safe(t) /\ Safe(u) /\ queue \in [Queues -> SUBSET Tasks] /\ status \in [Tasks -> Statuses]
      /\ claim \in [Tasks -> Claims]
  BY DEF AllSafe, StoreTypeOK
<1>b. /\ claim' = [claim EXCEPT ![t] = Cleared] /\ UNCHANGED <<status, assigned>>
      /\ queue' = [queue EXCEPT ![claim[t].src] = IF Allowed(t) THEN @ \cup {t} ELSE @ \ {t}]
  BY DEF ReturnClaim, ClearClaim
<1>1. CASE u # t
  <2>1. \A r \in Queues : u \in queue'[r] => u \in queue[r]
    BY <1>1, <1>a, <1>b
  <2> QED
    BY <1>1, <1>a, <1>b, <2>1, SafeFrame
<1>2. CASE u = t /\ ~Claimed(t)
  <2>1. queue' = queue
    BY <1>2, <1>a, <1>b, StoreAssumption DEF Safe, SourceKnown, Queues
  <2> QED
    BY <1>2, <1>a, <1>b, <2>1, SafeCleared
<1>3. CASE u = t /\ Claimed(t)
  <2>1. claim[t].src \in Queues /\ claim[t].src \in {Gpu, assigned'[t]}
    BY <1>3, <1>a, <1>b DEF Safe, SourceKnown
  <2>2. \A r \in Queues : t \in queue'[r] => r = claim[t].src
    BY <1>3, <1>a, <1>b, <2>1 DEF Safe, Owned
  <2>3. claim'[t].token = 0 /\ claim'[t].src = None /\ status'[t] # "absent"
    BY <1>3, <1>a, <1>b, ClearedFields DEF Safe, Owned
  <2> QED
    BY <1>3, <2>1, <2>2, <2>3, SafeQueued
<1> QED
  BY <1>1, <1>2, <1>3

\* The scripts a worker calls on one task keep every task safe.
LEMMA TaskMoveSafe ==
  ASSUME AllSafe, NEW t \in Tasks, TaskMove(t), NEW u \in Tasks
  PROVE  Safe(u)'
<1>a. /\ Safe(t) /\ Safe(u) /\ queue \in [Queues -> SUBSET Tasks] /\ status \in [Tasks -> Statuses]
      /\ claim \in [Tasks -> Claims]
  BY DEF AllSafe, StoreTypeOK
<1>1. CASE \E w \in Workers, n \in Nat, q \in Queues : ClaimTask(w, n, q, t)
  BY <1>1, ClaimSafe
<1>2. CASE \E w \in Workers, k \in Nat : Prune(w, k, t)
  BY <1>2, <1>a, SafeFrame DEF Prune
<1>3. CASE (\E w \in Workers : Acks(w, t)) \/ (\E k \in Nat : RefuseProcessing(t, k))
  <2>1. /\ UNCHANGED <<status, assigned, queue>>
        /\ claim'[u] \in {claim[u], Cleared}
    BY <1>3, <1>a DEF Acks, AckClaim, RefuseProcessing, ClearClaim
  <2> QED
    BY <1>a, <2>1, SafeFrame, SafeCleared
<1>4. CASE \E k \in Nat : MarkProcessing(t, k)
  <2>1. CASE u # t
    BY <1>4, <2>1, <1>a, SafeFrame DEF MarkProcessing
  <2>2. CASE u = t
    <3>1. /\ status[t] = "pending" /\ status'[t] = "processing"
          /\ claim'[t] = [claim[t] EXCEPT !.fence = "execution_fenced"]
          /\ UNCHANGED <<assigned, queue>>
      BY <1>4, <1>a DEF MarkProcessing, Startable
    <3>2. claim'[t].token = claim[t].token /\ claim'[t].src = claim[t].src
          /\ claim'[t].fence = "execution_fenced"
      BY <1>a, <3>1 DEF Claims
    <3> QED
      BY <2>2, <1>a, <3>1, <3>2
         DEF Safe, Owned, SourceKnown, QueuedAtHome, AbsentUnqueued, Claimed
  <2> QED
    BY <2>1, <2>2
<1>5. CASE \E k \in Nat : FreezeClaim(t, k)
  <2>1. CASE claim'[u] = claim[u]
    BY <1>5, <2>1, <1>a, SafeFrame DEF FreezeClaim
  <2>2. CASE claim'[u] # claim[u]
    <3>1. /\ claim'[u] = [claim[u] EXCEPT !.fence = "frozen"]
          /\ UNCHANGED <<status, assigned, queue>>
      BY <1>5, <2>2, <1>a DEF FreezeClaim
    <3>2. claim'[u].token = claim[u].token /\ claim'[u].src = claim[u].src /\ claim'[u].fence = "frozen"
      BY <1>a, <3>1 DEF Claims
    <3> QED
      BY <1>a, <3>1, <3>2 DEF Safe, Owned, SourceKnown, QueuedAtHome, AbsentUnqueued, Claimed
  <2> QED
    BY <2>1, <2>2
<1>6. CASE ReturnClaim(t)
  BY <1>6, ReturnSafe
<1>7. CASE \E k \in Nat, release \in SUBSET Fences, restore \in BOOLEAN : RequeueTask(t, k, release, restore)
  BY <1>7, RequeueSafe
<1>8. CASE \E outcome \in Terminal : FinalizeTask(t, outcome) \/ FinalizeBlind(t, outcome)
  <2>1. UNCHANGED <<assigned, queue>>
    BY <1>8 DEF FinalizeTask, FinalizeBlind
  <2>2. u = t => claim'[u] = Cleared /\ status'[u] # "absent"
    BY <1>8, <1>a DEF FinalizeTask, FinalizeBlind, ClearClaim, Terminal
  <2>3. u # t => claim'[u] = claim[u] /\ status'[u] = status[u]
    BY <1>8, <1>a DEF FinalizeTask, FinalizeBlind, ClearClaim
  <2> QED
    BY <1>a, <2>1, <2>2, <2>3, SafeFrame, SafeCleared
<1> QED
  BY <1>1, <1>2, <1>3, <1>4, <1>5, <1>6, <1>7, <1>8 DEF TaskMove

\* Every move of the store keeps every task safe.
LEMMA MoveSafe ==
  ASSUME AllSafe, StoreMove, StoreTypeOK'
  PROVE  AllSafe'
<1> SUFFICES ASSUME NEW u \in Tasks PROVE Safe(u)'
  BY DEF AllSafe
<1>a. Safe(u) /\ queue \in [Queues -> SUBSET Tasks]
  BY DEF AllSafe, StoreTypeOK
<1>1. CASE UNCHANGED store
  BY <1>1, <1>a, SafeFrame DEF store
<1>2. CASE \E q \in Queues : DiscardQueue(q)
  BY <1>2, <1>a, SafeFrame DEF DiscardQueue
<1>3. CASE Control
  BY <1>3, ControlSafe
<1>4. CASE \E t \in Tasks : TaskMove(t)
  BY <1>4, TaskMoveSafe
<1> QED
  BY <1>1, <1>2, <1>3, <1>4 DEF StoreMove

\* An empty store is safe.
LEMMA InitSafe == Init => AllSafe
<1> SUFFICES ASSUME Init PROVE AllSafe
  OBVIOUS
<1>1. \A t \in Tasks : Safe(t)
  BY ClearedFields DEF Init, StoreInit, Safe, Owned, SourceKnown, QueuedAtHome, AbsentUnqueued, Claimed, Queues
<1> QED
  BY <1>1, InitTyped DEF AllSafe, Typed, TypeOK

\* The typed states have a typed store.
LEMMA TypedStore == Typed => StoreTypeOK
BY DEF Typed, TypeOK

\* The inductive invariant of the store: no claimed task is queued, a claim has a
\* known source, ids wait at home, and only known ids wait.
THEOREM AllSafeAlways == Spec => []AllSafe
<1>1. AllSafe /\ Typed /\ Typed' /\ [Next]_vars => AllSafe'
  <2> SUFFICES ASSUME AllSafe, Typed, Typed', [Next]_vars PROVE AllSafe'
    OBVIOUS
  <2>1. StoreTypeOK'
    BY DEF Typed, TypeOK
  <2> QED
    BY <2>1, StepMoves, MoveSafe
<1> QED
  BY <1>1, InitSafe, TypedAlways, PTL DEF Spec

\* A claimed task waits in no queue, is not over, and is fenced exactly while
\* it is processing; see ClaimOwnsTask.
THEOREM ClaimsOwnTheirTasks == Spec => []ClaimOwnsTask
<1>1. AllSafe => ClaimOwnsTask
  BY DEF AllSafe, Safe, Owned, ClaimOwnsTask
<1> QED
  BY <1>1, AllSafeAlways, PTL

-----------------------------------------------------------------------------
(* Claims and the inflight lists.                                          *)

Recoverable(t) == Claimed(t) => Entry(t) \in inflight

\* Dropping one claim with its entry takes no other claim's entry.
LEMMA ClearRecoverable ==
  ASSUME claim \in [Tasks -> Claims], NEW t \in Tasks, ClearClaim(t), NEW u \in Tasks, Recoverable(u)
  PROVE  Recoverable(u)'
<1>1. CASE u = t
  BY <1>1, ClearedFields DEF ClearClaim, Recoverable, Claimed
<1>2. CASE u # t
  <2>1. claim'[u] = claim[u] /\ Entry(u) # Entry(t)
    BY <1>2 DEF ClearClaim, Entry
  <2> QED
    BY <2>1 DEF ClearClaim, Recoverable, Claimed, Entry
<1> QED
  BY <1>1, <1>2

\* A step that keeps the identity of a claim, and every entry.
LEMMA KeepRecoverable ==
  ASSUME NEW u, Recoverable(u), claim'[u].token = claim[u].token, claim'[u].worker = claim[u].worker,
         Entry(u) \in inflight => Entry(u) \in inflight'
  PROVE  Recoverable(u)'
BY DEF Recoverable, Claimed, Entry

\* The control plane leaves every claim its inflight entry.
LEMMA ControlRecoverable ==
  ASSUME StoreTypeOK, Control, NEW u \in Tasks, Recoverable(u)
  PROVE  Recoverable(u)'
<1>a. claim \in [Tasks -> Claims]
  BY DEF StoreTypeOK
<1>1. CASE UNCHANGED <<claim, inflight>>
  BY <1>1, KeepRecoverable
<1>2. CASE \E t \in Tasks : CancelTask(t)
  BY <1>2, <1>a, KeepRecoverable, ClearRecoverable DEF CancelTask
<1>3. CASE FinishParent
  <2> DEFINE closed == {t \in Children : status[t] = "pending" /\ claim[t].fence = "none"}
  <2>1. /\ claim'[u] = IF u \in closed THEN Cleared ELSE claim[u]
        /\ inflight' = inflight \ {Entry(t) : t \in closed}
    BY <1>3 DEF FinishParent
  <2>2. CASE u \in closed
    BY <2>1, <2>2, ClearedFields DEF Recoverable, Claimed
  <2>3. CASE u \notin closed
    <3>1. \A t \in closed : Entry(t) # Entry(u)
      BY <2>3 DEF Entry
    <3> QED
      BY <2>1, <2>3, <3>1, KeepRecoverable
  <2> QED
    BY <2>2, <2>3
<1> QED
  BY <1>1, <1>2, <1>3
     DEF Control, Submits, Refreshes, Cancels, QueueWaits,
         SubmitTask, ForceRefreshTask, CancelParent, LapseParent, QueueWaitRequeue

\* Every move of the store leaves every claim its inflight entry.
LEMMA MoveRecoverable ==
  ASSUME StoreTypeOK, StoreMove, NEW u \in Tasks, Recoverable(u)
  PROVE  Recoverable(u)'
<1>a. claim \in [Tasks -> Claims] /\ tokens \in Nat
  BY DEF StoreTypeOK
<1>1. CASE UNCHANGED <<claim, inflight>>
  BY <1>1, KeepRecoverable
<1>2. CASE \E t \in Tasks : ClearClaim(t)
  BY <1>2, <1>a, ClearRecoverable
<1>3. CASE \E t \in Tasks, w \in Workers, n \in Nat, q \in Queues : ClaimTask(w, n, q, t)
  <2>1. PICK t \in Tasks, w \in Workers, n \in Nat, q \in Queues : ClaimTask(w, n, q, t)
    BY <1>3
  <2>2. CASE u = t
    <3>1. claim'[t].worker = w /\ claim'[t].token = tokens'
      BY <2>1, <1>a DEF ClaimTask
    <3> QED
      BY <2>1, <2>2, <3>1 DEF ClaimTask, Recoverable, Entry
  <2>3. CASE u # t
    BY <2>1, <2>3, <1>a, KeepRecoverable DEF ClaimTask
  <2> QED
    BY <2>2, <2>3
<1>4. CASE \E t \in Tasks, w \in Workers, k \in Nat : Prune(w, k, t)
  <2>1. PICK t \in Tasks, w \in Workers, k \in Nat : Prune(w, k, t)
    BY <1>4
  <2>2. Entry(u) # <<w, k, t>>
    BY <2>1 DEF Prune, Entry
  <2> QED
    BY <2>1, <2>2, KeepRecoverable DEF Prune
<1>5. CASE \E t \in Tasks, k \in Nat : MarkProcessing(t, k) \/ FreezeClaim(t, k)
  <2>1. PICK fence \in Fences : claim'[u] \in {claim[u], [claim[u] EXCEPT !.fence = fence]}
    BY <1>5, <1>a DEF MarkProcessing, FreezeClaim, Fences
  <2>2. claim'[u].token = claim[u].token /\ claim'[u].worker = claim[u].worker
    BY <1>a, <2>1 DEF Claims
  <2> QED
    BY <1>5, <2>2, KeepRecoverable DEF MarkProcessing, FreezeClaim
<1>6. CASE \E t \in Tasks, outcome \in Terminal : FinalizeBlind(t, outcome)
  <2>1. claim'[u] \in {claim[u], Cleared} /\ inflight' = inflight
    BY <1>6, <1>a DEF FinalizeBlind
  <2> QED
    BY <2>1, KeepRecoverable, ClearedFields DEF Recoverable, Claimed
<1>7. CASE Control
  BY <1>7, ControlRecoverable
<1>8. CASE UNCHANGED store \/ \E q \in Queues : DiscardQueue(q)
  BY <1>1, <1>8 DEF store, DiscardQueue
<1>9. ASSUME NEW t \in Tasks, TaskMove(t)
      PROVE  Recoverable(u)'
  BY <1>1, <1>2, <1>3, <1>4, <1>5, <1>6, <1>9
     DEF TaskMove, Acks, AckClaim, RefuseProcessing, ReturnClaim, RequeueTask, FinalizeTask
<1> QED
  BY <1>7, <1>8, <1>9 DEF StoreMove

\* A claim is never without the inflight entry by which its worker's next
\* process recovers it; see ClaimIsRecoverable.
THEOREM ClaimsAreRecoverable == Spec => []ClaimIsRecoverable
<1>1. Init => ClaimIsRecoverable
  BY ClearedFields DEF Init, StoreInit, ClaimIsRecoverable, Claimed
<1>2. ClaimIsRecoverable /\ Typed /\ [Next]_vars => ClaimIsRecoverable'
  <2> SUFFICES ASSUME ClaimIsRecoverable, Typed, [Next]_vars, NEW u \in Tasks PROVE Recoverable(u)'
    BY DEF ClaimIsRecoverable, Recoverable
  <2>1. Recoverable(u)
    BY DEF ClaimIsRecoverable, Recoverable
  <2> QED
    BY <2>1, TypedStore, StepMoves, MoveRecoverable
<1> QED
  BY <1>1, <1>2, TypedAlways, PTL DEF Spec

-----------------------------------------------------------------------------
(* The execution gate.                                                     *)

\* A move starts an execution only through the gate of MarkProcessing.
LEMMA MoveStarts ==
  ASSUME StoreTypeOK, StoreMove, NEW u \in Tasks, status[u] # "processing", status'[u] = "processing"
  PROVE  Allowed(u)
<1>a. status \in [Tasks -> Statuses]
  BY DEF StoreTypeOK
<1>1. CASE Control
  BY <1>1, <1>a
     DEF Control, Submits, Refreshes, Cancels, QueueWaits, SubmitTask, ForceRefreshTask, CancelTask,
         CancelParent, LapseParent, FinishParent, QueueWaitRequeue
<1>2. CASE \E t \in Tasks, k \in Nat : MarkProcessing(t, k)
  BY <1>2, <1>a DEF MarkProcessing, Startable
<1>3. ASSUME NEW t \in Tasks, TaskMove(t)
      PROVE  Allowed(u)
  BY <1>2, <1>3, <1>a
     DEF TaskMove, ClaimTask, Prune, Acks, AckClaim, RefuseProcessing, FreezeClaim, ReturnClaim, RequeueTask,
         FinalizeTask, FinalizeBlind, Terminal
<1> QED
  BY <1>1, <1>3 DEF StoreMove, store, DiscardQueue

\* No step starts a task whose tombstone exists or whose parent generation has
\* lost its lease, passed its deadline or ended; see NoStartAfterFence.
THEOREM NothingStartsAfterFence == Spec => NoStartAfterFence
<1>1. Typed /\ [Next]_vars =>
        [\A t \in Tasks : status[t] # "processing" /\ status'[t] = "processing" => Allowed(t)]_vars
  BY TypedStore, StepMoves, MoveStarts
<1> QED
  BY <1>1, TypedAlways, PTL DEF Spec, NoStartAfterFence

-----------------------------------------------------------------------------
(* Claim tokens.  A token that a process remembers is never the token of   *)
(* somebody else's claim, and so no script call made with it can touch one.*)

Ticket(w, k, t) == k <= tokens /\ (k # 0 /\ claim[t].token = k => claim[t].worker = w)

TicketsOK ==
    /\ \A t \in Tasks : claim[t].token <= tokens
    /\ \A e \in inflight : e[2] # 0 /\ Ticket(e[1], e[2], e[3])
    /\ \A w \in Workers :
         /\ \A e \in gw[w].scan : e[1] # 0 /\ Ticket(w, e[1], e[2])
         /\ \A t \in Tasks : Ticket(w, gw[w].held[t], t)

\* A move keeps the identity of a claim, drops the claim, or draws a new token.
LEMMA ClaimMoves ==
  ASSUME StoreTypeOK, StoreMove, NEW u \in Tasks
  PROVE  /\ tokens \in Nat /\ tokens' \in {tokens, tokens + 1}
         /\ \/ claim'[u].token = claim[u].token /\ claim'[u].worker = claim[u].worker
            \/ claim'[u].token = 0
            \/ claim'[u].token = tokens + 1 /\ tokens' = tokens + 1
<1>a. claim \in [Tasks -> Claims] /\ tokens \in Nat
  BY DEF StoreTypeOK
<1>1. CASE UNCHANGED <<claim, tokens>>
  BY <1>1, <1>a
<1>2. ASSUME NEW t \in Tasks, ClearClaim(t), UNCHANGED tokens
      PROVE  tokens' = tokens /\ claim'[u] \in {claim[u], Cleared}
  BY <1>2, <1>a DEF ClearClaim
<1>3. CASE Control
  <2>1. tokens' = tokens /\ claim'[u] \in {claim[u], Cleared}
    BY <1>3, <1>a, <1>2
       DEF Control, Submits, Refreshes, Cancels, QueueWaits, SubmitTask, ForceRefreshTask, CancelTask,
           CancelParent, LapseParent, FinishParent, QueueWaitRequeue
  <2> QED
    BY <1>a, <2>1, ClearedFields
<1>4. CASE UNCHANGED store \/ \E q \in Queues : DiscardQueue(q)
  BY <1>1, <1>4 DEF store, DiscardQueue
<1>5. ASSUME NEW t \in Tasks, TaskMove(t)
      PROVE  /\ tokens' \in {tokens, tokens + 1}
             /\ \/ claim'[u].token = claim[u].token /\ claim'[u].worker = claim[u].worker
                \/ claim'[u].token = 0
                \/ claim'[u].token = tokens + 1 /\ tokens' = tokens + 1
  <2>1. CASE \E w \in Workers, n \in Nat, q \in Queues : ClaimTask(w, n, q, t)
    <3>1. /\ tokens' = tokens + 1
          /\ u = t => claim'[u].token = tokens'
          /\ u # t => claim'[u] = claim[u]
      BY <2>1, <1>a DEF ClaimTask
    <3> QED
      BY <3>1
  <2>2. CASE \E k \in Nat : MarkProcessing(t, k) \/ FreezeClaim(t, k)
    <3>1. PICK fence \in Fences : claim'[u] \in {claim[u], [claim[u] EXCEPT !.fence = fence]}
      BY <2>2, <1>a DEF MarkProcessing, FreezeClaim, Fences
    <3>2. claim'[u].token = claim[u].token /\ claim'[u].worker = claim[u].worker
      BY <1>a, <3>1 DEF Claims
    <3> QED
      BY <2>2, <3>2 DEF MarkProcessing, FreezeClaim
  <2>3. CASE tokens' = tokens /\ claim'[u] \in {claim[u], Cleared}
    BY <2>3, ClearedFields
  <2> QED
    BY <1>2, <1>5, <2>1, <2>2, <2>3, <1>a
       DEF TaskMove, Prune, Acks, AckClaim, RefuseProcessing, ReturnClaim, RequeueTask, FinalizeTask, FinalizeBlind
<1> QED
  BY <1>3, <1>4, <1>1, <1>5, <1>a DEF StoreMove

\* A ticket stays true: a later claim on the task has a later token.
LEMMA TicketKept ==
  ASSUME StoreTypeOK, StoreMove, NEW t \in Tasks, NEW w, NEW k \in Nat, Ticket(w, k, t)
  PROVE  Ticket(w, k, t)'
<1>1. k <= tokens
  BY DEF Ticket
<1> QED
  BY <1>1, ClaimMoves DEF Ticket

\* Cancel markers are durable.
LEMMA MarksStay ==
  ASSUME StoreMove, NEW t, CancelMarked(t)
  PROVE  CancelMarked(t)'
<1>1. CASE UNCHANGED <<tombstone, parent>>
  BY <1>1 DEF CancelMarked
<1>2. CASE Control
  BY <1>1, <1>2 DEF Control, Submits, Refreshes, Cancels, QueueWaits, SubmitTask, ForceRefreshTask, CancelTask,
              CancelParent, LapseParent, FinishParent, QueueWaitRequeue, CancelMarked
<1>3. ASSUME NEW u \in Tasks, TaskMove(u)
      PROVE  UNCHANGED <<tombstone, parent>>
  BY <1>3 DEF TaskMove, ClaimTask, Prune, Acks, AckClaim, MarkProcessing, RefuseProcessing, FreezeClaim,
              ReturnClaim, RequeueTask, FinalizeTask, FinalizeBlind
<1> QED
  BY <1>1, <1>2, <1>3 DEF StoreMove, store, DiscardQueue

\* A marked task may not start.
LEMMA MarkedForbids == \A t : CancelMarked(t) => ~Allowed(t)
BY DEF CancelMarked, Allowed

-----------------------------------------------------------------------------
(* Where a process gets its tokens.                                        *)

WorkerStep(w) == Supervision(w) \/ Signal(w) \/ Stopping(w) \/ Dequeue(w) \/ Execute(w)

\* Its scan comes from its inflight list, and a token it remembers from before,
\* from the scan, or from a claim of its own.
NewTickets(w) ==
    /\ \A e \in gw'[w].scan : e \in gw[w].scan \/ <<w, e[1], e[2]>> \in inflight
    /\ \A t \in Tasks :
         \/ gw'[w].held[t] \in {gw[w].held[t], 0}
         \/ <<gw'[w].held[t], t>> \in gw[w].scan
         \/ gw'[w].held[t] = tokens' /\ claim'[t].worker = w

\* It is about to acknowledge a task that it found dead and still holds.
AckStep(w) ==
    gw'[w].pc = "ack" =>
      /\ gw'[w].hand = gw[w].hand
      /\ gw'[w].held[Hand(w)] \in {gw[w].held[Hand(w)], 0}
      /\ \/ gw[w].pc = "ack"
         \/ gw[w].pc = "claimed" /\ UNCHANGED store /\ (status[Hand(w)] \in Terminal \/ CancelMarked(Hand(w)))

\* A process that does not change its tokens, or forgets them, draws none.
LEMMA NoNewTickets ==
  ASSUME NEW w, gw'[w].scan \subseteq gw[w].scan, \A t \in Tasks : gw'[w].held[t] \in {gw[w].held[t], 0}
  PROVE  NewTickets(w)
BY DEF NewTickets

\* The scan of the inflight list of w.
LEMMA ScanTickets ==
  ASSUME StoreTypeOK, NEW w, gw'[w].held = gw[w].held,
         gw'[w].scan = {<<e[2], e[3]>> : e \in {x \in inflight : x[1] = w}}
  PROVE  NewTickets(w)
<1>1. ASSUME NEW d \in gw'[w].scan
      PROVE  <<w, d[1], d[2]>> \in inflight
  <2>1. PICK e \in inflight : e[1] = w /\ d = <<e[2], e[3]>>
    OBVIOUS
  <2>2. e = <<w, d[1], d[2]>>
    BY <2>1 DEF StoreTypeOK
  <2> QED
    BY <2>2
<1> QED
  BY <1>1 DEF NewTickets

\* The scan and the tokens after a worker's own step.
LEMMA WorkerTickets ==
  ASSUME Typed, NEW w \in Workers, WorkerStep(w)
  PROVE  NewTickets(w) /\ AckStep(w)
<1>a. /\ StoreTypeOK /\ gw \in [Workers -> Process] /\ gw[w] \in Process
      /\ gw[w].held \in [Tasks -> Nat] /\ gw[w].scan \in Scans
      /\ gw[w].pc \in Busy => Hand(w) \in Tasks
  BY TypedParts, ProcessFields DEF Typed, TypeOK, Hand
<1>1. CASE Supervision(w) \/ Signal(w)
  <2>1. CASE Boot(w) /\ w \notin latch
    <3>1. /\ gw'[w].scan = {<<e[2], e[3]>> : e \in {x \in inflight : x[1] = w}}
          /\ gw'[w].held = gw[w].held /\ gw'[w].pc = "recover"
      BY <2>1, <1>a DEF Boot, Becomes, Process
    <3> QED
      BY <1>a, <3>1, ScanTickets DEF AckStep
  <2>2. CASE ~(Boot(w) /\ w \notin latch)
    <3>1. /\ gw'[w].scan \subseteq gw[w].scan
          /\ \A t \in Tasks : gw'[w].held[t] \in {gw[w].held[t], 0}
          /\ gw'[w].pc = "ack" => gw[w].pc = "ack" /\ gw'[w].hand = gw[w].hand
      <4>1. CASE StartWorker(w)
        BY <4>1, <1>a, <2>2 DEF StartWorker, Becomes, NoProcess, Process
      <4>2. CASE Crash(w)
        BY <4>2, <1>a, <2>2 DEF Crash, Becomes, NoProcess, Process
      <4>3. CASE Boot(w)
        BY <4>3, <1>a, <2>2 DEF Boot, Becomes, NoProcess, Process
      <4>4. CASE ProveDrained(w) \/ DrainUnproven(w) \/ ClearLatch(w) \/ PoolFault(w)
        BY <4>4, <1>a, <2>2 DEF ProveDrained, DrainUnproven, ClearLatch, PoolFault, Becomes, NoProcess, Process
      <4>5. CASE Signal(w)
        BY <4>5, <1>a, <2>2 DEF Signal, Becomes, NoProcess, Process
      <4> QED
        BY <1>1, <4>1, <4>2, <4>3, <4>4, <4>5 DEF Supervision
    <3> QED
      BY <1>a, <3>1, NoNewTickets DEF AckStep, Busy
  <2> QED
    BY <2>1, <2>2
<1>2. CASE Stopping(w)
  <2>1. ASSUME NEW t, NEW next, Freeze(w, t, next), next.scan = gw[w].scan, next.held = gw[w].held, next \in Process
        PROVE  gw'[w].scan = gw[w].scan /\ (\A u \in Tasks : gw'[w].held[u] \in {gw[w].held[u], 0})
               /\ gw'[w].pc = next.pc /\ gw'[w].hand = next.hand
    BY <2>1, <1>a DEF Freeze, Becomes, Process, HeldToken
  <2>2. CASE StopFreeze(w)
    <3> DEFINE next == [gw[w] EXCEPT !.stop = "pool"]
    <3>1. next \in Process /\ next.scan = gw[w].scan /\ next.held = gw[w].held /\ next.pc = gw[w].pc /\ next.hand = gw[w].hand
      BY <1>a DEF Process, StopPCs
    <3>2. /\ gw'[w].scan = gw[w].scan /\ (\A u \in Tasks : gw'[w].held[u] \in {gw[w].held[u], 0})
          /\ gw'[w].pc = gw[w].pc /\ gw'[w].hand = gw[w].hand
      <4> HIDE DEF next
      <4>1. CASE Freeze(w, gw[w].retained, next)
        BY <4>1, <3>1, <2>1
      <4>2. CASE Becomes(w, next)
        BY <4>2, <3>1, <1>a DEF Becomes
      <4> QED
        BY <2>2, <4>1, <4>2 DEF StopFreeze, next
    <3> QED
      BY <1>a, <3>2, NoNewTickets DEF AckStep, Busy
  <2>3. CASE ~StopFreeze(w)
    <3>1. /\ gw'[w].scan \subseteq gw[w].scan
          /\ \A t \in Tasks : gw'[w].held[t] \in {gw[w].held[t], 0}
          /\ gw'[w].pc = "ack" => gw[w].pc = "ack" /\ gw'[w].hand = gw[w].hand
      <4>1. CASE StopBegins(w)
        BY <4>1, <1>a DEF StopBegins, Abandoned, NoProcess, Becomes, Process
      <4>2. CASE DrainOver(w)
        BY <4>2, <1>a DEF DrainOver, Abandoned, NoProcess, Becomes, Process
      <4>3. CASE PoolShutSafe(w)
        BY <4>3, <1>a DEF PoolShutSafe, Abandoned, NoProcess, Becomes, Process
      <4>4. CASE PoolShutUnsafe(w)
        BY <4>4, <1>a DEF PoolShutUnsafe, Abandoned, NoProcess, Becomes, Process
      <4>5. CASE FailRetained(w)
        <5>1. \/ Becomes(w, [gw[w] EXCEPT !.stop = "exit"]) \/ Becomes(w, [gw[w] EXCEPT !.stop = "blind"])
              \/ Becomes(w, Abandoned(w)) \/ Becomes(w, [Abandoned(w) EXCEPT !.held[gw[w].retained] = 0])
          BY <4>5 DEF FailRetained
        <5>2. CASE Becomes(w, [Abandoned(w) EXCEPT !.held[gw[w].retained] = 0])
          BY <1>a, <5>2 DEF Abandoned, Becomes, Process
        <5>3. CASE Becomes(w, Abandoned(w))
          BY <1>a, <5>3 DEF Abandoned, Becomes, Process
        <5>4. ASSUME NEW stop \in {"exit", "blind"}, Becomes(w, [gw[w] EXCEPT !.stop = stop])
              PROVE  gw'[w].scan = gw[w].scan /\ gw'[w].held = gw[w].held /\ gw'[w].pc = gw[w].pc /\ gw'[w].hand = gw[w].hand
          BY <1>a, <5>4 DEF Becomes, Process
        <5> QED
          BY <5>1, <5>2, <5>3, <5>4
      <4>6. CASE FailBlind(w)
        BY <4>6, <1>a DEF FailBlind, Abandoned, NoProcess, Becomes, Process
      <4>7. CASE Exit(w)
        BY <4>7, <1>a DEF Exit, Abandoned, NoProcess, Becomes, Process
      <4> QED
        BY <1>2, <2>3, <4>1, <4>2, <4>3, <4>4, <4>5, <4>6, <4>7 DEF Stopping
    <3> QED
      BY <1>a, <3>1, NoNewTickets DEF AckStep, Busy
  <2> QED
    BY <2>2, <2>3
<1>3. CASE Execute(w)
  <2>1. CASE ContainFreeze(w)
    <3>1. /\ gw'[w].scan = gw[w].scan /\ (\A u \in Tasks : gw'[w].held[u] \in {gw[w].held[u], 0})
          /\ gw'[w].pc = "latching"
      <4>1. \/ Becomes(w, [gw[w] EXCEPT !.pc = "latching"])
            \/ \E k \in {HeldToken(w, Hand(w)), 0} : Becomes(w, [[gw[w] EXCEPT !.pc = "latching"] EXCEPT !.held[Hand(w)] = k])
        BY <2>1 DEF ContainFreeze, Freeze
      <4>2. CASE Becomes(w, [gw[w] EXCEPT !.pc = "latching"])
        BY <1>a, <4>2 DEF Becomes, Process
      <4>3. ASSUME NEW k \in {HeldToken(w, Hand(w)), 0},
                   Becomes(w, [[gw[w] EXCEPT !.pc = "latching"] EXCEPT !.held[Hand(w)] = k])
            PROVE  /\ gw'[w].scan = gw[w].scan /\ (\A u \in Tasks : gw'[w].held[u] \in {gw[w].held[u], 0})
                   /\ gw'[w].pc = "latching"
        BY <1>a, <4>3 DEF Becomes, Process, HeldToken
      <4> QED
        BY <4>1, <4>2, <4>3
    <3> QED
      BY <1>a, <3>1, NoNewTickets DEF AckStep
  <2>2. CASE ~ContainFreeze(w)
    <3>1. /\ gw'[w].scan \subseteq gw[w].scan
          /\ \A t \in Tasks : gw'[w].held[t] \in {gw[w].held[t], 0}
          /\ gw'[w].pc # "ack"
      <4>1. CASE Deliver(w)
        BY <4>1, <1>a DEF Deliver, Becomes, Resolved, LetGo, HeldToken, Process
      <4>2. CASE DeliverClosed(w)
        BY <4>2, <1>a DEF DeliverClosed, Becomes, Resolved, LetGo, HeldToken, Process
      <4>3. CASE LaunchChild(w)
        BY <4>3, <1>a DEF LaunchChild, Becomes, Resolved, LetGo, HeldToken, Process
      <4>4. CASE GateClosed(w)
        BY <4>4, <1>a DEF GateClosed, Becomes, Resolved, LetGo, HeldToken, Process
      <4>5. CASE GiveBack(w)
        BY <4>5, <1>a DEF GiveBack, Becomes, Resolved, LetGo, HeldToken, Process
      <4>6. CASE ChildDone(w)
        BY <4>6, <1>a DEF ChildDone, Becomes, Resolved, LetGo, HeldToken, Process
      <4>7. CASE Unwound(w)
        BY <4>7, <1>a DEF Unwound, Becomes, Resolved, LetGo, HeldToken, Process
      <4>8. CASE CheckRetained(w)
        BY <4>8, <1>a DEF CheckRetained, Becomes, Resolved, LetGo, HeldToken, Process
      <4>9. CASE Commit(w)
        BY <4>9, <1>a DEF Commit, Becomes, Resolved, LetGo, HeldToken, Process
      <4>10. CASE CommitUnclaimed(w)
        BY <4>10, <1>a DEF CommitUnclaimed, Becomes, Resolved, LetGo, HeldToken, Process
      <4>11. CASE CommitBlind(w)
        BY <4>11, <1>a DEF CommitBlind, Becomes, Resolved, LetGo, HeldToken, Process
      <4>12. CASE CommitStale(w)
        BY <4>12, <1>a DEF CommitStale, Becomes, Resolved, LetGo, HeldToken, Process
      <4>13. CASE CommitFrozen(w)
        BY <4>13, <1>a DEF CommitFrozen, Becomes, Resolved, LetGo, HeldToken, Process
      <4>14. CASE CommitFails(w)
        BY <4>14, <1>a DEF CommitFails, Becomes, Resolved, LetGo, HeldToken, Process
      <4>15. CASE CommitReplyLost(w)
        BY <4>15, <1>a DEF CommitReplyLost, Becomes, Resolved, LetGo, HeldToken, Process
      <4>16. CASE ReapUnproven(w)
        BY <4>16, <1>a DEF ReapUnproven, Becomes, Resolved, LetGo, HeldToken, Process
      <4>17. CASE ContainLatch(w)
        BY <4>17, <1>a DEF ContainLatch, Becomes, Resolved, LetGo, HeldToken, Process
      <4> QED
        BY <1>3, <2>2, <4>1, <4>2, <4>3, <4>4, <4>5, <4>6, <4>7, <4>8, <4>9, <4>10, <4>11, <4>12, <4>13, <4>14, <4>15, <4>16, <4>17 DEF Execute
    <3> QED
      BY <3>1, NoNewTickets DEF AckStep
  <2> QED
    BY <2>1, <2>2
<1>4. CASE Dequeue(w)
  <2>1. CASE BeginDequeue(w)
    <3>1. /\ gw'[w].scan = {<<e[2], e[3]>> : e \in {x \in inflight : x[1] = w}}
          /\ gw'[w].held = gw[w].held /\ gw'[w].pc = "recover"
      BY <2>1, <1>a DEF BeginDequeue, Becomes, Process
    <3> QED
      BY <1>a, <3>1, ScanTickets DEF AckStep
  <2>2. CASE RecoverEntry(w)
    <3>1. PICK e \in gw[w].scan :
            LET k == e[1]
                t == e[2]
                seen == [gw[w] EXCEPT !.scan = @ \ {e}]
            IN  \/ Becomes(w, seen)
                \/ Becomes(w, [seen EXCEPT !.pc = "recheck", !.hand = t, !.held[t] = k])
      BY <2>2 DEF RecoverEntry
    <3>2. e \in Nat \X Tasks /\ e = <<e[1], e[2]>>
      BY <1>a DEF Scans
    <3>3. gw[w].pc = "recover"
      BY <2>2 DEF RecoverEntry
    <3> QED
      <4>1. CASE Becomes(w, [gw[w] EXCEPT !.scan = @ \ {e}])
        <5>1. gw'[w].scan \subseteq gw[w].scan /\ gw'[w].held = gw[w].held /\ gw'[w].pc = "recover"
          BY <4>1, <3>3, <1>a DEF Becomes, Process
        <5> QED
          BY <5>1, NoNewTickets DEF AckStep
      <4>2. CASE Becomes(w, [[gw[w] EXCEPT !.scan = @ \ {e}] EXCEPT !.pc = "recheck", !.hand = e[2], !.held[e[2]] = e[1]])
        <5>1. /\ gw'[w].scan \subseteq gw[w].scan /\ gw'[w].pc = "recheck"
              /\ \A t \in Tasks : gw'[w].held[t] = IF t = e[2] THEN e[1] ELSE gw[w].held[t]
          BY <4>2, <1>a DEF Becomes, Process
        <5> QED
          BY <3>2, <5>1 DEF NewTickets, AckStep
      <4> QED
        BY <3>1, <4>1, <4>2
  <2>3. CASE ClaimNext(w)
    <3>1. PICK t \in Tasks :
            /\ ClaimTask(w, gw[w].inst, Source(w), t)
            /\ Becomes(w, [gw[w] EXCEPT !.pc = "claimed", !.hand = t, !.src = Source(w), !.held[t] = tokens'])
      BY <2>3 DEF ClaimNext
    <3>2. claim'[t].worker = w
      BY <1>a, <3>1 DEF ClaimTask, StoreTypeOK
    <3> QED
      BY <3>1, <3>2, <1>a DEF Becomes, Process, NewTickets, AckStep
  <2>4. CASE InspectClaim(w)
    <3> DEFINE dead == status[Hand(w)] \in Terminal \/ CancelMarked(Hand(w))
    <3>1. PICK pc \in {"ack", "defer", "close", "mark"} :
            /\ dead <=> pc = "ack"
            /\ Becomes(w, IF pc = "defer" THEN [LetGo(w, "resource") EXCEPT !.deferred = @ \cup {Hand(w)}]
                                          ELSE [gw[w] EXCEPT !.pc = pc])
            /\ gw[w].pc = "claimed" /\ UNCHANGED store
      BY <2>4 DEF InspectClaim
    <3>2. /\ gw'[w].scan = gw[w].scan /\ gw'[w].held = gw[w].held
          /\ gw'[w].pc = "ack" => pc = "ack" /\ gw'[w].hand = gw[w].hand
      BY <3>1, <1>a DEF Becomes, Process, LetGo
    <3> QED
      BY <3>1, <3>2, <1>a, NoNewTickets DEF AckStep
  <2>5. CASE ~(BeginDequeue(w) \/ RecoverEntry(w) \/ ClaimNext(w) \/ InspectClaim(w))
    <3>1. /\ gw'[w].scan \subseteq gw[w].scan
          /\ \A t \in Tasks : gw'[w].held[t] \in {gw[w].held[t], 0}
          /\ gw'[w].pc # "ack"
      <4>1. CASE RecoverCheck(w)
        BY <4>1, <1>a DEF RecoverCheck, Becomes, LetGo, Process
      <4>2. CASE EndRecovery(w)
        BY <4>2, <1>a DEF EndRecovery, Becomes, LetGo, Process
      <4>3. CASE RecoverFail(w)
        BY <4>3, <1>a DEF RecoverFail, Becomes, LetGo, Process
      <4>4. CASE RecoverRequeue(w)
        BY <4>4, <1>a DEF RecoverRequeue, Becomes, LetGo, Process
      <4>5. CASE FindNothing(w)
        BY <4>5, <1>a DEF FindNothing, Becomes, LetGo, Process
      <4>6. CASE AcknowledgeClaim(w)
        BY <4>6, <1>a DEF AcknowledgeClaim, Becomes, LetGo, Process
      <4>7. CASE CloseAfterClaim(w)
        BY <4>7, <1>a DEF CloseAfterClaim, Becomes, LetGo, Process
      <4>8. CASE StartTask(w)
        BY <4>8, <1>a DEF StartTask, Becomes, LetGo, Process
      <4>9. CASE StartRefused(w)
        BY <4>9, <1>a DEF StartRefused, Becomes, LetGo, Process
      <4>10. CASE ReturnDeferred(w)
        BY <4>10, <1>a DEF ReturnDeferred, Becomes, LetGo, Process
      <4>11. CASE ReturnRaises(w)
        BY <4>11, <1>a DEF ReturnRaises, Becomes, LetGo, Process
      <4>12. CASE FinishScan(w)
        BY <4>12, <1>a DEF FinishScan, Becomes, LetGo, Process
      <4> QED
        BY <1>4, <2>5, <4>1, <4>2, <4>3, <4>4, <4>5, <4>6, <4>7, <4>8, <4>9, <4>10, <4>11, <4>12 DEF Dequeue
    <3> QED
      BY <3>1, NoNewTickets DEF AckStep
  <2> QED
    BY <2>1, <2>2, <2>3, <2>4, <2>5
<1> QED
  BY <1>1, <1>2, <1>3, <1>4 DEF WorkerStep

\* A process changes in its own steps only.
LEMMA OthersStand ==
  ASSUME Typed, [Next]_vars, NEW w \in Workers
  PROVE  WorkerStep(w) \/ UNCHANGED <<gw[w], live[w]>>
<1>a. gw \in [Workers -> Process] /\ live \in [Workers -> SUBSET Tasks]
  BY DEF Typed, TypeOK
<1>1. CASE UNCHANGED <<gw, live>>
  BY <1>1
<1>2. ASSUME NEW v \in Workers, WorkerStep(v), v # w
      PROVE  UNCHANGED <<gw[w], live[w]>>
  <2>1. (\E p : Becomes(v, p)) \/ gw' = gw
    BY <1>2
       DEF WorkerStep, Supervision, Signal, StartWorker, Boot, Crash, ProveDrained, DrainUnproven, ClearLatch, PoolFault,
           Stopping, StopBegins, DrainOver, StopFreeze, Freeze, PoolShutSafe, PoolShutUnsafe, FailRetained, FailBlind, Exit,
           Execute, Deliver, DeliverClosed, LaunchChild, GateClosed, GiveBack, ChildDone, Unwound, CheckRetained,
           Commit, CommitUnclaimed, CommitBlind, CommitStale, CommitFrozen, CommitFails, CommitReplyLost,
           ReapUnproven, ContainFreeze, ContainLatch,
           Dequeue, BeginDequeue, RecoverEntry, RecoverCheck, RecoverFail, RecoverRequeue, EndRecovery, ClaimNext,
           FindNothing, InspectClaim, AcknowledgeClaim, CloseAfterClaim, StartTask, StartRefused, ReturnDeferred,
           ReturnRaises, FinishScan
  <2>2. (\E s : live' = [live EXCEPT ![v] = s]) \/ live' = live
    BY <1>2
       DEF WorkerStep, Supervision, Signal, StartWorker, Boot, Crash, ProveDrained, DrainUnproven, ClearLatch, PoolFault,
           Stopping, StopBegins, DrainOver, StopFreeze, PoolShutSafe, PoolShutUnsafe, FailRetained, FailBlind, Exit,
           Execute, Deliver, DeliverClosed, LaunchChild, GateClosed, GiveBack, ChildDone, Unwound, CheckRetained,
           Commit, CommitUnclaimed, CommitBlind, CommitStale, CommitFrozen, CommitFails, CommitReplyLost,
           ReapUnproven, ContainFreeze, ContainLatch,
           Dequeue, BeginDequeue, RecoverEntry, RecoverCheck, RecoverFail, RecoverRequeue, EndRecovery, ClaimNext,
           FindNothing, InspectClaim, AcknowledgeClaim, CloseAfterClaim, StartTask, StartRefused, ReturnDeferred,
           ReturnRaises, FinishScan
  <2> QED
    BY <1>2, <1>a, <2>1, <2>2 DEF Becomes
<1> QED
  BY <1>1, <1>2 DEF Next, ControlPlane, WorkerStep, vars

\* The inflight lists after a move: old entries, and one for a new claim.
LEMMA EntryMoves ==
  ASSUME StoreTypeOK, StoreMove, NEW e \in inflight', e \notin inflight
  PROVE  e[2] # 0 /\ e[2] <= tokens' /\ claim'[e[3]].worker = e[1] /\ e[3] \in Tasks
<1>a. claim \in [Tasks -> Claims] /\ tokens \in Nat
  BY DEF StoreTypeOK
<1>1. CASE inflight' \subseteq inflight
  BY <1>1
<1>2. CASE Control \/ UNCHANGED store \/ \E q \in Queues : DiscardQueue(q)
  BY <1>1, <1>2
     DEF Control, Submits, Refreshes, Cancels, QueueWaits, SubmitTask, ForceRefreshTask, CancelTask, ClearClaim,
         CancelParent, LapseParent, FinishParent, QueueWaitRequeue, store, DiscardQueue
<1>3. ASSUME NEW t \in Tasks, TaskMove(t)
      PROVE  \/ inflight' \subseteq inflight
             \/ \E w \in Workers, n \in Nat, q \in Queues : ClaimTask(w, n, q, t)
  BY <1>3 DEF TaskMove, Prune, Acks, AckClaim, MarkProcessing, RefuseProcessing, FreezeClaim, ClearClaim,
              ReturnClaim, RequeueTask, FinalizeTask, FinalizeBlind
<1>4. ASSUME NEW t \in Tasks, NEW w \in Workers, NEW n \in Nat, NEW q \in Queues, ClaimTask(w, n, q, t)
      PROVE  e[2] # 0 /\ e[2] <= tokens' /\ claim'[e[3]].worker = e[1] /\ e[3] \in Tasks
  BY <1>4, <1>a DEF ClaimTask
<1> QED
  BY <1>1, <1>2, <1>3, <1>4 DEF StoreMove

\* Every token in a list, a scan or a process stays a true one.
LEMMA StepTickets ==
  ASSUME Typed, Typed', TicketsOK, [Next]_vars
  PROVE  TicketsOK'
<1>a. StoreMove /\ StoreTypeOK /\ StoreTypeOK' /\ tokens \in Nat
  BY StepMoves DEF Typed, TypeOK, StoreTypeOK
<1>1. \A t \in Tasks : claim'[t].token <= tokens'
  <2> SUFFICES ASSUME NEW t \in Tasks PROVE claim'[t].token <= tokens'
    OBVIOUS
  <2>1. claim[t].token \in Nat /\ claim[t].token <= tokens
    BY <1>a DEF StoreTypeOK, Claims, TicketsOK
  <2> QED
    BY <1>a, <2>1, ClaimMoves
<1>2. ASSUME NEW e \in inflight'
      PROVE  e[2] # 0 /\ Ticket(e[1], e[2], e[3])'
  <2>1. e[3] \in Tasks /\ e[2] \in Nat
    BY <1>a DEF StoreTypeOK
  <2>2. CASE e \in inflight
    BY <1>a, <2>1, <2>2, TicketKept DEF TicketsOK
  <2>3. CASE e \notin inflight
    BY <1>a, <2>3, EntryMoves DEF Ticket
  <2> QED
    BY <2>2, <2>3
<1>3. ASSUME NEW w \in Workers
      PROVE  /\ \A e \in gw'[w].scan : e[1] # 0 /\ Ticket(w, e[1], e[2])'
             /\ \A t \in Tasks : Ticket(w, gw[w].held[t], t)'
  <2>a. /\ gw[w] \in Process /\ gw'[w] \in Process
        /\ gw[w].scan \in Scans /\ gw'[w].scan \in Scans
        /\ gw[w].held \in [Tasks -> Nat] /\ gw'[w].held \in [Tasks -> Nat]
    <3>1. gw[w] \in Process /\ gw'[w] \in Process
      BY DEF Typed, TypeOK
    <3> QED
      BY <3>1, ProcessFields
  <2>1. NewTickets(w)
    <3>1. CASE WorkerStep(w)
      BY <3>1, WorkerTickets
    <3>2. CASE UNCHANGED <<gw[w], live[w]>>
      BY <3>2 DEF NewTickets
    <3> QED
      BY <3>1, <3>2, OthersStand
  <2>2. ASSUME NEW e \in gw'[w].scan
        PROVE  e[1] # 0 /\ Ticket(w, e[1], e[2])'
    <3>1. e[1] \in Nat /\ e[2] \in Tasks
      BY <2>a DEF Scans
    <3>2. e[1] # 0 /\ Ticket(w, e[1], e[2])
      BY <2>1 DEF NewTickets, TicketsOK
    <3> QED
      BY <1>a, <3>1, <3>2, TicketKept
  <2>3. ASSUME NEW t \in Tasks
        PROVE  Ticket(w, gw[w].held[t], t)'
    <3>1. PICK k \in Nat : k = gw'[w].held[t]
      BY <2>a
    <3>2. CASE k = gw[w].held[t] \/ <<k, t>> \in gw[w].scan
      <4>1. Ticket(w, k, t)
        BY <3>2 DEF TicketsOK
      <4>2. Ticket(w, k, t)'
        BY <1>a, <4>1, TicketKept
      <4> QED
        BY <3>1, <4>2 DEF Ticket
    <3>3. CASE k = 0 \/ (k = tokens' /\ claim'[t].worker = w)
      BY <1>a, <3>1, <3>3 DEF Ticket, StoreTypeOK
    <3> QED
      BY <2>1, <3>1, <3>2, <3>3 DEF NewTickets
  <2> QED
    BY <2>2, <2>3
<1> QED
  BY <1>1, <1>2, <1>3 DEF TicketsOK

LEMMA InitTickets == Init => TicketsOK
BY ClearedFields DEF Init, StoreInit, NoProcess, TicketsOK, Ticket

\* The tokens that processes and lists remember are their own: two processes
\* never act under the same claim.
THEOREM TicketsAlways == Spec => []TicketsOK
BY InitTickets, StepTickets, TypedAlways, PTL DEF Spec

-----------------------------------------------------------------------------
(* Tasks that wait.                                                        *)

\* A claim is acknowledged away only for a task that may not run any more.
AcksOK ==
    \A w \in Workers :
      gw[w].pc = "ack" /\ HeldToken(w, Hand(w)) # 0 /\ claim[Hand(w)].token = HeldToken(w, Hand(w))
        => CancelMarked(Hand(w))

\* A token names the same claim after a move as before it.
LEMMA SameToken ==
  ASSUME StoreTypeOK, StoreMove, NEW t \in Tasks, NEW k \in Nat, k # 0, k <= tokens, claim'[t].token = k
  PROVE  claim[t].token = k
BY ClaimMoves

LEMMA StepAcks ==
  ASSUME Typed, TicketsOK, AllSafe, AcksOK, [Next]_vars
  PROVE  AcksOK'
<1> SUFFICES ASSUME NEW w \in Workers, NEW t, NEW k, t = gw'[w].hand, k = gw'[w].held[t],
                    gw'[w].pc = "ack", k # 0, claim'[t].token = k
             PROVE  CancelMarked(t)'
  BY DEF AcksOK, HeldToken, Hand, CancelMarked
<1>a. StoreMove /\ StoreTypeOK
  BY StepMoves DEF Typed, TypeOK
<1>1. AckStep(w)
  <2>1. CASE WorkerStep(w)
    BY <2>1, WorkerTickets
  <2>2. CASE UNCHANGED <<gw[w], live[w]>>
    BY <2>2 DEF AckStep, Hand
  <2> QED
    BY <2>1, <2>2, OthersStand
<1>2. t = Hand(w) /\ k = gw[w].held[t]
  BY <1>1 DEF AckStep, Hand
<1>3. t \in Tasks /\ k \in Nat
  <2>1. gw[w].pc \in Busy
    BY <1>1 DEF AckStep, Busy
  <2> QED
    BY <2>1, <1>2, TypedParts, ProcessFields DEF Hand
<1>4. claim[t].token = k
  BY <1>a, <1>2, <1>3, SameToken DEF TicketsOK, Ticket
<1>5. CASE gw[w].pc = "ack"
  BY <1>5, <1>2, <1>4, <1>a, MarksStay DEF AcksOK, HeldToken
<1>6. CASE UNCHANGED store /\ (status[t] \in Terminal \/ CancelMarked(t))
  <2>1. status[t] \in {"pending", "processing"}
    BY <1>3, <1>4 DEF AllSafe, Safe, Owned, Claimed
  <2> QED
    BY <1>6, <2>1, <1>a, MarksStay DEF Terminal
<1> QED
  BY <1>1, <1>2, <1>5, <1>6 DEF AckStep

\* A task that may run and is under no claim waits in some queue.
Waits(t) == status[t] = "pending" /\ ~Claimed(t) /\ Allowed(t) => \E q \in Queues : t \in queue[q]

\* A task that a move leaves alone, and in its queues, still waits.
LEMMA WaitsFrame ==
  ASSUME NEW t, Waits(t), status'[t] = status[t], claim'[t].token = claim[t].token, Allowed(t)' => Allowed(t),
         \A q \in Queues : t \in queue[q] => t \in queue'[q]
  PROVE  Waits(t)'
BY DEF Waits, Claimed

\* What keeps a task from starting is durable.
LEMMA FencesStay ==
  ASSUME StoreMove, NEW t, Allowed(t)'
  PROVE  Allowed(t)
<1>1. CASE UNCHANGED <<tombstone, parent>>
  BY <1>1 DEF Allowed
<1>2. CASE Control
  BY <1>1, <1>2 DEF Control, Submits, Refreshes, Cancels, QueueWaits, SubmitTask, ForceRefreshTask, CancelTask,
              CancelParent, LapseParent, FinishParent, QueueWaitRequeue, Allowed
<1>3. ASSUME NEW u \in Tasks, TaskMove(u)
      PROVE  UNCHANGED <<tombstone, parent>>
  BY <1>3 DEF TaskMove, ClaimTask, Prune, Acks, AckClaim, MarkProcessing, RefuseProcessing, FreezeClaim,
              ReturnClaim, RequeueTask, FinalizeTask, FinalizeBlind
<1> QED
  BY <1>1, <1>2, <1>3 DEF StoreMove, store, DiscardQueue

\* The control plane keeps every task waiting that may run.
LEMMA ControlWaits ==
  ASSUME AllSafe, Control, NEW u \in Tasks, Waits(u)
  PROVE  Waits(u)'
<1>a. /\ queue \in [Queues -> SUBSET Tasks] /\ status \in [Tasks -> Statuses] /\ claim \in [Tasks -> Claims]
      /\ Gpu \in Queues /\ Workers \subseteq Queues
      /\ Allowed(u)' => Allowed(u)
  BY QueuesType, FencesStay DEF AllSafe, StoreTypeOK, StoreMove
<1>1. CASE \E t \in Tasks, q \in Queues : SubmitTask(t, q) \/ ForceRefreshTask(t, q)
  <2>1. PICK t \in Tasks, q \in Queues : SubmitTask(t, q) \/ ForceRefreshTask(t, q)
    BY <1>1
  <2>2. CASE u = t
    <3>1. t \in queue'[q]
      BY <1>a, <2>1, UnqueuedType DEF SubmitTask, ForceRefreshTask, AllSafe
    <3> QED
      BY <2>2, <3>1 DEF Waits
  <2>3. CASE u # t
    <3>1. \A r \in Queues : u \in queue[r] => u \in Unqueued(t)[r]
      BY <2>3 DEF Unqueued
    <3>2. \A r \in Queues : u \in queue[r] => u \in queue'[r]
      BY <1>a, <2>1, <3>1, UnqueuedType DEF SubmitTask, ForceRefreshTask, AllSafe
    <3> QED
      BY <1>a, <2>1, <2>3, <3>2, WaitsFrame DEF SubmitTask, ForceRefreshTask
  <2> QED
    BY <2>2, <2>3
<1>2. CASE \E t \in Tasks : CancelTask(t)
  <2>1. PICK t \in Tasks : CancelTask(t)
    BY <1>2
  <2>2. CASE u = t
    BY <2>1, <2>2 DEF CancelTask, Waits, Allowed
  <2>3. CASE u # t
    <3>1. \A r \in Queues : u \in queue[r] => u \in queue'[r]
      BY <2>1, <2>3 DEF CancelTask, Unqueued
    <3> QED
      BY <1>a, <2>1, <2>3, <3>1, WaitsFrame DEF CancelTask, ClearClaim
  <2> QED
    BY <2>2, <2>3
<1>3. CASE CancelParent \/ LapseParent
  BY <1>3, <1>a, WaitsFrame DEF CancelParent, LapseParent
<1>4. CASE FinishParent
  <2>1. CASE u \in Children
    BY <1>4, <2>1 DEF FinishParent, Waits, Allowed
  <2>2. CASE u \notin Children
    <3>1. \A r \in Queues : u \in queue[r] => u \in queue'[r]
      BY <1>4, <2>2 DEF FinishParent
    <3>2. status'[u] = status[u] /\ claim'[u] = claim[u]
      BY <1>4, <2>2 DEF FinishParent
    <3> QED
      BY <1>a, <3>1, <3>2, WaitsFrame
  <2> QED
    BY <2>1, <2>2
<1>5. CASE \E t \in Tasks, w \in Workers : QueueWaitRequeue(t, w)
  <2>1. PICK t \in Tasks, w \in Workers : QueueWaitRequeue(t, w)
    BY <1>5
  <2>2. w \in Queues /\ w # Gpu
    BY <1>a, StoreAssumption
  <2>3. CASE u = t
    <3>1. t \in queue'[Gpu]
      BY <1>a, <2>1, <2>2 DEF QueueWaitRequeue
    <3> QED
      BY <1>a, <2>3, <3>1 DEF Waits
  <2>4. CASE u # t
    <3>1. \A r \in Queues : u \in queue[r] => u \in queue'[r]
      BY <1>a, <2>1, <2>2, <2>4 DEF QueueWaitRequeue
    <3> QED
      BY <1>a, <2>1, <3>1, WaitsFrame DEF QueueWaitRequeue
  <2> QED
    BY <2>3, <2>4
<1> QED
  BY <1>1, <1>2, <1>3, <1>4, <1>5 DEF Control, Submits, Refreshes, Cancels, QueueWaits

\* So do the scripts of the workers.
LEMMA TaskMoveWaits ==
  ASSUME AllSafe, AcksOK, NEW t \in Tasks, TaskMove(t), NEW u \in Tasks, Waits(u)
  PROVE  Waits(u)'
<1>a. /\ queue \in [Queues -> SUBSET Tasks] /\ status \in [Tasks -> Statuses] /\ claim \in [Tasks -> Claims]
      /\ tokens \in Nat /\ Safe(t)
      /\ Allowed(u)' => Allowed(u)
      /\ CancelMarked(t) => ~Allowed(t)
  BY FencesStay, MarkedForbids DEF AllSafe, StoreTypeOK, StoreMove
<1>1. CASE \E w \in Workers, n \in Nat, q \in Queues : ClaimTask(w, n, q, t)
  <2>1. PICK w \in Workers, n \in Nat, q \in Queues : ClaimTask(w, n, q, t)
    BY <1>1
  <2>2. CASE u = t
    BY <1>a, <2>1, <2>2 DEF ClaimTask, Waits, Claimed
  <2>3. CASE u # t
    <3>1. PICK debris \in SUBSET {v \in queue[q] : ~Claimable(v)} : queue' = [queue EXCEPT ![q] = @ \ (debris \cup {t})]
      BY <2>1 DEF ClaimTask
    <3>2. CASE Claimable(u)
      BY <1>a, <2>1, <2>3, <3>1, <3>2, WaitsFrame DEF ClaimTask
    <3>3. CASE ~Claimable(u)
      BY <1>a, <2>1, <2>3, <3>3 DEF ClaimTask, Claimable, Waits, Claimed
    <3> QED
      BY <3>2, <3>3
  <2> QED
    BY <2>2, <2>3
<1>2. CASE UNCHANGED <<status, claim, queue>>
  BY <1>a, <1>2, WaitsFrame
<1>3. ASSUME ClearClaim(t), UNCHANGED <<status, queue>>, Claimed(t) => ~Allowed(t)
      PROVE  Waits(u)'
  <2>1. CASE u = t
    BY <1>a, <1>3, <2>1 DEF ClearClaim, Waits
  <2>2. CASE u # t
    BY <1>a, <1>3, <2>2, WaitsFrame DEF ClearClaim
  <2> QED
    BY <2>1, <2>2
<1>4. CASE \E w \in Workers : Acks(w, t)
  <2>1. PICK w \in Workers : Acks(w, t)
    BY <1>4
  <2>2. CASE claim[t].token = HeldToken(w, t) /\ claim[t].fence = "none"
    <3>1. Claimed(t) => ~Allowed(t)
      BY <1>a, <2>1, <2>2 DEF Acks, AcksOK, Claimed
    <3> QED
      BY <1>3, <2>1, <2>2, <3>1 DEF Acks, AckClaim
  <2>3. CASE ~(claim[t].token = HeldToken(w, t) /\ claim[t].fence = "none")
    BY <1>2, <2>1, <2>3 DEF Acks, AckClaim
  <2> QED
    BY <2>2, <2>3
<1>5. CASE \E k \in Nat : MarkProcessing(t, k)
  <2>1. /\ u = t => status'[u] = "processing"
        /\ u # t => status'[u] = status[u] /\ claim'[u] = claim[u]
        /\ queue' = queue
    BY <1>5, <1>a DEF MarkProcessing
  <2> QED
    BY <1>a, <2>1, WaitsFrame DEF Waits
<1>6. CASE \E k \in Nat : RefuseProcessing(t, k)
  <2>1. PICK k \in Nat : RefuseProcessing(t, k)
    BY <1>6
  <2>2. CASE claim[t].token = k
    <3>1. ~(status[t] = "pending" /\ Allowed(t))
      BY <1>a, <2>1, <2>2 DEF RefuseProcessing, Startable
    <3>2. CASE u = t
      BY <2>1, <3>1, <3>2, <1>a DEF RefuseProcessing, Waits
    <3>3. CASE u # t
      BY <1>a, <2>1, <2>2, <3>3, WaitsFrame DEF RefuseProcessing, ClearClaim
    <3> QED
      BY <3>2, <3>3
  <2>3. CASE claim[t].token # k
    BY <1>2, <2>1, <2>3 DEF RefuseProcessing
  <2> QED
    BY <2>2, <2>3
<1>7. CASE \E k \in Nat : FreezeClaim(t, k)
  <2>1. claim'[u] \in {claim[u], [claim[u] EXCEPT !.fence = "frozen"]}
    BY <1>7, <1>a DEF FreezeClaim
  <2>2. claim'[u].token = claim[u].token
    BY <1>a, <2>1 DEF Claims
  <2> QED
    BY <1>7, <1>a, <2>2, WaitsFrame DEF FreezeClaim
<1>8. ASSUME NEW q \in Queues, claim' = [claim EXCEPT ![t] = Cleared], queue' = [queue EXCEPT ![q] = @ \cup {t}],
             \A v \in Tasks : v # t => status'[v] = status[v]
      PROVE  Waits(u)'
  <2>1. CASE u = t
    BY <1>a, <1>8, <2>1 DEF Waits
  <2>2. CASE u # t
    BY <1>a, <1>8, <2>2, WaitsFrame
  <2> QED
    BY <2>1, <2>2
<1>9. CASE ReturnClaim(t)
  <2>1. CASE ~Claimed(t)
    <3>1. queue' = queue
      BY <1>9, <2>1, <1>a, StoreAssumption DEF ReturnClaim, Safe, SourceKnown, Queues
    <3> QED
      BY <1>3, <1>9, <2>1, <3>1 DEF ReturnClaim
  <2>2. CASE Claimed(t) /\ Allowed(t)
    BY <1>8, <1>9, <2>2, <1>a DEF ReturnClaim, ClearClaim, Safe, SourceKnown
  <2>3. CASE Claimed(t) /\ ~Allowed(t)
    <3>1. CASE u = t
      BY <1>9, <1>a, <2>3, <3>1 DEF ReturnClaim, Waits
    <3>2. CASE u # t
      BY <1>9, <1>a, <2>3, <3>2, WaitsFrame DEF ReturnClaim, ClearClaim
    <3> QED
      BY <3>1, <3>2
  <2> QED
    BY <2>1, <2>2, <2>3
<1>10. CASE \E k \in Nat, release \in SUBSET Fences, restore \in BOOLEAN : RequeueTask(t, k, release, restore)
  <2>1. PICK k \in Nat, release \in SUBSET Fences, restore \in BOOLEAN : RequeueTask(t, k, release, restore)
    BY <1>10
  <2>2. CASE ~Requeueable(t, k, release)
    BY <1>2, <2>1, <2>2 DEF RequeueTask
  <2>3. CASE Requeueable(t, k, release) /\ ~(Allowed(t) /\ ~CancelMarked(t))
    BY <1>3, <1>a, <2>1, <2>3 DEF RequeueTask
  <2>4. CASE Requeueable(t, k, release) /\ Allowed(t) /\ ~CancelMarked(t)
    <3>1. (IF restore THEN claim[t].src ELSE Gpu) \in Queues
      BY <1>a, <2>4, QueuesType DEF Requeueable, Safe, SourceKnown, Claimed
    <3> QED
      BY <1>8, <1>a, <2>1, <2>4, <3>1 DEF RequeueTask, ClearClaim
  <2> QED
    BY <2>2, <2>3, <2>4
<1>11. CASE \E outcome \in Terminal : FinalizeTask(t, outcome) \/ FinalizeBlind(t, outcome)
  <2>1. CASE u = t
    BY <1>11, <1>a, <2>1 DEF FinalizeTask, FinalizeBlind, Waits, Terminal
  <2>2. CASE u # t
    BY <1>11, <1>a, <2>2, WaitsFrame DEF FinalizeTask, FinalizeBlind, ClearClaim
  <2> QED
    BY <2>1, <2>2
<1> QED
  BY <1>1, <1>2, <1>4, <1>5, <1>6, <1>7, <1>9, <1>10, <1>11 DEF TaskMove, Prune

LEMMA MoveWaits ==
  ASSUME AllSafe, AcksOK, StoreMove, NEW u \in Tasks, Waits(u)
  PROVE  Waits(u)'
<1>a. queue \in [Queues -> SUBSET Tasks] /\ (Allowed(u)' => Allowed(u))
  BY FencesStay DEF AllSafe, StoreTypeOK
<1>1. CASE UNCHANGED store
  BY <1>1, <1>a, WaitsFrame DEF store
<1>2. CASE \E q \in Queues : DiscardQueue(q)
  BY <1>2, <1>a DEF DiscardQueue, Claimable, Waits, Claimed, Allowed
<1> QED
  BY <1>1, <1>2, ControlWaits, TaskMoveWaits DEF StoreMove

AllWait == \A t \in Tasks : Waits(t)

\* Whatever claims, recoveries, cancellations and requeues interleave, a task
\* that may run and is under no claim waits where a worker will look for it; see
\* PendingIsQueued.
THEOREM PendingTasksWait == Spec => []PendingIsQueued
<1>1. Init => AcksOK /\ AllWait
  BY DEF Init, StoreInit, NoProcess, AcksOK, AllWait, Waits
<1>2. Typed /\ TicketsOK /\ AllSafe /\ AcksOK /\ AllWait /\ [Next]_vars => AcksOK' /\ AllWait'
  BY StepAcks, StepMoves, MoveWaits DEF AllWait
<1>3. AllSafe /\ AllWait => PendingIsQueued
  <2> SUFFICES ASSUME AllSafe, AllWait, NEW t \in Tasks, status[t] = "pending", ~Claimed(t), Allowed(t)
               PROVE  t \in queue[Gpu] \/ (assigned[t] # None /\ t \in queue[assigned[t]])
    BY DEF PendingIsQueued
  <2>1. PICK q \in Queues : t \in queue[q]
    BY DEF AllWait, Waits
  <2>2. q \in {Gpu, assigned[t]} /\ q # None
    BY <2>1, StoreAssumption DEF AllSafe, Safe, QueuedAtHome, Queues
  <2> QED
    BY <2>1, <2>2
<1> QED
  BY <1>1, <1>2, <1>3, TypedAlways, TicketsAlways, AllSafeAlways, PTL DEF Spec

-----------------------------------------------------------------------------
(***************************************************************************)
(* Exclusive execution.  The CUDA children of a GPU work only for tasks    *)
(* that its own worker has claimed and fenced, as long as no terminal      *)
(* write comes after its claim is gone (SlowRedis) or there is one worker; *)
(* and without such writes TaskClaims implements ExclusiveExecution.       *)
(*                                                                         *)
(* The invariant, Orderly, is about one worker: the marks of its process   *)
(* agree with where its coroutines are (MarksOK), it holds the claims it   *)
(* works under (HoldsOK), and its children are alive only in the states    *)
(* where the process leaves their claims alone (LiveOK).                   *)
(***************************************************************************)

\* The process of w holds the token of the claim in force on t.
Mine(w, t) == gw[w].held[t] # 0 /\ claim[t].token = gw[w].held[t]

\* ... and has started the attempt.
Own(w, t) == Mine(w, t) /\ claim[t].fence # "none" /\ status[t] = "processing"

\* Where the loop may have current_task set, and where it may hold claims back.
Running  == {"run", "exec", "sync", "commit", "blind", "giveback", "contain", "latching", "halted"}
Scanning == {"direct", "resource", "claimed", "ack", "close", "mark", "return"}

MarksOK(w) ==
    /\ gw[w].retained # None => gw[w].retained = Hand(w) /\ gw[w].pc \in Running
    /\ gw[w].current # None => gw[w].current = Hand(w) /\ gw[w].pc \in Running
    /\ gw[w].deferred # {} => gw[w].pc \in Scanning
    /\ Hand(w) \notin gw[w].deferred
    /\ gw[w].pc \in {"run", "exec"} /\ PoolOpen(w) => gw[w].current = Hand(w)
    /\ ~SlowRedis /\ gw[w].pc = "sync" => gw[w].current = Hand(w)
    /\ ~SlowRedis => gw[w].pc # "blind" /\ gw[w].stop # "blind"
    /\ gw[w].pc = "down" => gw[w].stop = "none"
    /\ gw[w].pc \in {"down", "boot", "idle", "recover", "direct", "resource"} => Hand(w) = None

HoldsOK(w) ==
    /\ gw[w].pc \in {"claimed", "ack", "close", "mark"} =>
         gw[w].held[Hand(w)] # 0 /\ (Mine(w, Hand(w)) \/ CancelMarked(Hand(w)))
    /\ gw[w].pc \in {"return", "deliver"} /\ Hand(w) # None => Own(w, Hand(w))
    /\ gw[w].current # None /\ (SlowRedis => gw[w].pc = "run" /\ PoolOpen(w)) => Own(w, gw[w].current)
    /\ gw[w].pc = "commit" => Ticket(w, gw[w].cap, Hand(w)) /\ (gw[w].cap = 0 => SlowRedis)
    /\ \A t \in gw[w].deferred : Mine(w, t) \/ CancelMarked(t)

\* Children are alive only while the loop executes or contains a task, and until
\* the pool is shut down, or after the process is gone.
LiveShape(w) ==
    live[w] # {} =>
      \/ gw[w].pc = "down"
      \/ /\ gw[w].pc \in {"exec", "contain", "latching", "halted"}
         /\ gw[w].stop \notin {"fail", "blind", "exit"}
         /\ live[w] \subseteq {Hand(w)}

LiveOwned(w) ==
    \A t \in live[w] :
      Claimed(t) /\ claim[t].worker = w /\ claim[t].fence # "none" /\ status[t] = "processing"

LiveOK(w) == LiveShape(w) /\ LiveOwned(w)

Orderly(w) == MarksOK(w) /\ HoldsOK(w) /\ LiveOK(w)


\* The fields of a process that the proofs below speak of.
LEMMA Fields ==
  ASSUME Typed, NEW w \in Workers
  PROVE  /\ StoreTypeOK /\ gw \in [Workers -> Process] /\ live \in [Workers -> SUBSET Tasks]
         /\ gw[w] \in Process /\ gw[w].held \in [Tasks -> Nat] /\ gw[w].deferred \subseteq Tasks
         /\ live[w] \subseteq Tasks
         /\ gw[w].pc \in Busy => Hand(w) \in Tasks
         /\ None \notin Tasks
BY TypedParts, ProcessFields, StoreAssumption DEF Typed, TypeOK, Hand

\* freeze_task_claim forgets a token only when the claim has gone.
LEMMA FreezeHeld ==
  ASSUME NEW w \in Workers, NEW t, NEW next \in Process, gw[w].held \in [Tasks -> Nat], next.held = gw[w].held,
         Freeze(w, t, next)
  PROVE  \E h \in [Tasks -> Nat] :
           /\ Becomes(w, [next EXCEPT !.held = h])
           /\ \A u \in Tasks : h[u] = gw[w].held[u] \/ (h[u] = 0 /\ claim[u].token # gw[w].held[u])
<1>1. CASE Becomes(w, next)
  <2>1. next = [next EXCEPT !.held = gw[w].held]
    BY DEF Process
  <2> QED
    BY <1>1, <2>1
<1>2. CASE Becomes(w, [next EXCEPT !.held[t] = IF claim[t].token = HeldToken(w, t) THEN HeldToken(w, t) ELSE 0])
  <2> DEFINE h == [gw[w].held EXCEPT ![t] = IF claim[t].token = HeldToken(w, t) THEN HeldToken(w, t) ELSE 0]
  <2>1. [next EXCEPT !.held[t] = IF claim[t].token = HeldToken(w, t) THEN HeldToken(w, t) ELSE 0]
          = [next EXCEPT !.held = h]
    BY DEF Process
  <2>2. h \in [Tasks -> Nat]
    BY DEF HeldToken
  <2>3. \A u \in Tasks : h[u] = gw[w].held[u] \/ (h[u] = 0 /\ claim[u].token # gw[w].held[u])
    BY DEF HeldToken
  <2> QED
    BY <1>2, <2>1, <2>2, <2>3
<1> QED
  BY <1>1, <1>2 DEF Freeze

\* The same, for the two callers.
LEMMA ContainHeld ==
  ASSUME Typed, NEW w \in Workers, ContainFreeze(w)
  PROVE  \E h \in [Tasks -> Nat] :
           /\ Becomes(w, [gw[w] EXCEPT !.pc = "latching", !.held = h])
           /\ \A u \in Tasks : h[u] = gw[w].held[u] \/ (h[u] = 0 /\ claim[u].token # gw[w].held[u])
<1>1. gw[w] \in Process /\ gw[w].held \in [Tasks -> Nat]
  BY Fields
<1>2. PICK next \in Process : next = [gw[w] EXCEPT !.pc = "latching"]
  BY <1>1 DEF Process, LoopPCs
<1>3. PICK h \in [Tasks -> Nat] :
        /\ Becomes(w, [next EXCEPT !.held = h])
        /\ \A u \in Tasks : h[u] = gw[w].held[u] \/ (h[u] = 0 /\ claim[u].token # gw[w].held[u])
  <2>1. Freeze(w, Hand(w), next) /\ next.held = gw[w].held
    BY <1>1, <1>2 DEF ContainFreeze, Process
  <2> QED
    BY <1>1, <2>1, FreezeHeld DEF Becomes
<1> QED
  BY <1>2, <1>3

LEMMA StopHeld ==
  ASSUME Typed, NEW w \in Workers, StopFreeze(w)
  PROVE  \E h \in [Tasks -> Nat] :
           /\ Becomes(w, [gw[w] EXCEPT !.stop = "pool", !.held = h])
           /\ \A u \in Tasks : h[u] = gw[w].held[u] \/ (h[u] = 0 /\ claim[u].token # gw[w].held[u])
<1>1. gw[w] \in Process /\ gw[w].held \in [Tasks -> Nat]
  BY Fields
<1>2. PICK next \in Process : next = [gw[w] EXCEPT !.stop = "pool"]
  BY <1>1 DEF Process, StopPCs
<1>3. next.held = gw[w].held
  BY <1>1, <1>2 DEF Process
<1>4. CASE Becomes(w, next)
  <2>1. next = [gw[w] EXCEPT !.stop = "pool", !.held = gw[w].held]
    BY <1>1, <1>2 DEF Process
  <2> QED
    BY <1>1, <1>4, <2>1
<1>5. CASE Freeze(w, gw[w].retained, next)
  <2>1. PICK h \in [Tasks -> Nat] :
          /\ Becomes(w, [next EXCEPT !.held = h])
          /\ \A u \in Tasks : h[u] = gw[w].held[u] \/ (h[u] = 0 /\ claim[u].token # gw[w].held[u])
    BY <1>1, <1>3, <1>5, FreezeHeld DEF Becomes
  <2> QED
    BY <1>2, <2>1
<1> QED
  BY <1>2, <1>4, <1>5 DEF StopFreeze

LEMMA MarksStep ==
  ASSUME Typed, NEW w \in Workers, Orderly(w), WorkerStep(w)
  PROVE  MarksOK(w)' /\ LiveShape(w)'
<1>a. /\ gw \in [Workers -> Process] /\ live \in [Workers -> SUBSET Tasks]
      /\ gw[w] \in Process /\ gw[w].held \in [Tasks -> Nat] /\ gw[w].deferred \subseteq Tasks
      /\ gw[w].pc \in Busy => gw[w].hand \in Tasks
      /\ None \notin Tasks
      /\ MarksOK(w) /\ LiveShape(w)
  BY Fields DEF Orderly, LiveOK, Hand
<1>b. HoldsOK(w)
  BY DEF Orderly
<1> USE DEF MarksOK, LiveShape, Hand, Running, Scanning, PoolOpen, Busy
<1>1. CASE StartWorker(w)
  BY <1>1, <1>a DEF StartWorker, NoProcess, Becomes, Process
<1>2. CASE Boot(w)
  BY <1>2, <1>a DEF Boot, Becomes, Process
<1>3. CASE Crash(w)
  BY <1>3, <1>a DEF Crash, NoProcess, Becomes, Process
<1>4. CASE ProveDrained(w)
  BY <1>4, <1>a DEF ProveDrained, Becomes, Process
<1>5. CASE DrainUnproven(w)
  BY <1>5, <1>a DEF DrainUnproven, Becomes, Process
<1>6. CASE ClearLatch(w)
  BY <1>6, <1>a DEF ClearLatch, Becomes, Process
<1>7. CASE PoolFault(w)
  BY <1>7, <1>a DEF PoolFault, Becomes, Process
<1>8. CASE BeginDequeue(w)
  BY <1>8, <1>a DEF BeginDequeue, LetGo, Becomes, Process
<1>9. CASE RecoverEntry(w)
  BY <1>9, <1>a DEF RecoverEntry, LetGo, Becomes, Process
<1>10. CASE RecoverCheck(w)
  BY <1>10, <1>a DEF RecoverCheck, LetGo, Becomes, Process
<1>11. CASE RecoverFail(w)
  BY <1>11, <1>a DEF RecoverFail, LetGo, Becomes, Process
<1>12. CASE RecoverRequeue(w)
  BY <1>12, <1>a DEF RecoverRequeue, LetGo, Becomes, Process
<1>13. CASE EndRecovery(w)
  BY <1>13, <1>a DEF EndRecovery, LetGo, Becomes, Process
<1>14. CASE ClaimNext(w)
  <2>1. PICK t \in Tasks :
          /\ ClaimTask(w, gw[w].inst, Source(w), t)
          /\ Becomes(w, [gw[w] EXCEPT !.pc = "claimed", !.hand = t, !.src = Source(w), !.held[t] = tokens'])
          /\ gw[w].pc \in {"direct", "resource"} /\ UNCHANGED <<live, latch>>
    BY <1>14 DEF ClaimNext
  <2>2. t \notin gw[w].deferred
    BY <2>1, <1>b, MarkedForbids DEF HoldsOK, Mine, ClaimTask, Claimable, Claimed
  <2> QED
    BY <1>a, <2>1, <2>2 DEF Becomes, Process
<1>15. CASE FindNothing(w)
  BY <1>15, <1>a DEF FindNothing, LetGo, Becomes, Process
<1>16. CASE InspectClaim(w)
  BY <1>16, <1>a DEF InspectClaim, LetGo, Becomes, Process
<1>17. CASE AcknowledgeClaim(w)
  BY <1>17, <1>a DEF AcknowledgeClaim, LetGo, Becomes, Process
<1>18. CASE CloseAfterClaim(w)
  BY <1>18, <1>a DEF CloseAfterClaim, LetGo, Becomes, Process
<1>19. CASE StartTask(w)
  BY <1>19, <1>a DEF StartTask, LetGo, Becomes, Process
<1>20. CASE StartRefused(w)
  BY <1>20, <1>a DEF StartRefused, LetGo, Becomes, Process
<1>21. CASE ReturnDeferred(w)
  BY <1>21, <1>a DEF ReturnDeferred, LetGo, Becomes, Process
<1>22. CASE ReturnRaises(w)
  BY <1>22, <1>a DEF ReturnRaises, LetGo, Becomes, Process
<1>23. CASE FinishScan(w)
  BY <1>23, <1>a DEF FinishScan, LetGo, Becomes, Process
<1>24. CASE Deliver(w)
  BY <1>24, <1>a DEF Deliver, LetGo, Resolved, Becomes, Process
<1>25. CASE DeliverClosed(w)
  BY <1>25, <1>a DEF DeliverClosed, LetGo, Resolved, Becomes, Process
<1>26. CASE LaunchChild(w)
  BY <1>26, <1>a DEF LaunchChild, LetGo, Resolved, Becomes, Process
<1>27. CASE GateClosed(w)
  BY <1>27, <1>a DEF GateClosed, LetGo, Resolved, Becomes, Process
<1>28. CASE GiveBack(w)
  BY <1>28, <1>a DEF GiveBack, LetGo, Resolved, Becomes, Process
<1>29. CASE ChildDone(w)
  BY <1>29, <1>a DEF ChildDone, LetGo, Resolved, Becomes, Process
<1>30. CASE Unwound(w)
  BY <1>30, <1>a DEF Unwound, LetGo, Resolved, Becomes, Process
<1>31. CASE CheckRetained(w)
  BY <1>31, <1>a DEF CheckRetained, LetGo, Resolved, Becomes, Process
<1>32. CASE Commit(w)
  BY <1>32, <1>a DEF Commit, LetGo, Resolved, Becomes, Process
<1>33. CASE CommitUnclaimed(w)
  BY <1>33, <1>a, <1>b DEF CommitUnclaimed, HoldsOK, Becomes, Process
<1>34. CASE CommitBlind(w)
  BY <1>34, <1>a DEF CommitBlind, LetGo, Resolved, Becomes, Process
<1>35. CASE CommitStale(w)
  BY <1>35, <1>a DEF CommitStale, LetGo, Resolved, Becomes, Process
<1>36. CASE CommitFrozen(w)
  BY <1>36, <1>a DEF CommitFrozen, LetGo, Resolved, Becomes, Process
<1>37. CASE CommitFails(w)
  BY <1>37, <1>a DEF CommitFails, LetGo, Resolved, Becomes, Process
<1>38. CASE CommitReplyLost(w)
  BY <1>38, <1>a DEF CommitReplyLost, LetGo, Resolved, Becomes, Process
<1>39. CASE ReapUnproven(w)
  BY <1>39, <1>a DEF ReapUnproven, LetGo, Resolved, Becomes, Process
<1>40. CASE ContainFreeze(w)
  <2>1. PICK h \in [Tasks -> Nat] : Becomes(w, [gw[w] EXCEPT !.pc = "latching", !.held = h])
    BY <1>40, ContainHeld
  <2> QED
    BY <1>40, <1>a, <2>1 DEF ContainFreeze, Becomes, Process
<1>41. CASE ContainLatch(w)
  BY <1>41, <1>a DEF ContainLatch, LetGo, Resolved, Becomes, Process
<1>42. CASE StopBegins(w)
  BY <1>42, <1>a DEF StopBegins, Up, Becomes, Process
<1>43. CASE DrainOver(w)
  BY <1>43, <1>a DEF DrainOver, Becomes, Process
<1>44. CASE StopFreeze(w)
  <2>1. PICK h \in [Tasks -> Nat] : Becomes(w, [gw[w] EXCEPT !.stop = "pool", !.held = h])
    BY <1>44, StopHeld
  <2> QED
    BY <1>44, <1>a, <2>1 DEF StopFreeze, Becomes, Process
<1>45. CASE PoolShutSafe(w)
  BY <1>45, <1>a DEF PoolShutSafe, Becomes, Process
<1>46. CASE PoolShutUnsafe(w)
  BY <1>46, <1>a DEF PoolShutUnsafe, Becomes, Process
<1>47. CASE FailRetained(w)
  <2> DEFINE t == gw[w].retained
  <2>1. CASE t # None /\ gw[w].current = t
    <3>1. ~SlowRedis => gw[w].held[t] # 0
      BY <1>b, <2>1 DEF HoldsOK, Own, Mine
    <3>2. CASE Becomes(w, [gw[w] EXCEPT !.stop = "exit"])
      BY <1>47, <1>a, <3>2 DEF FailRetained, Becomes, Process
    <3>3. CASE Becomes(w, [gw[w] EXCEPT !.stop = "blind"]) /\ gw[w].held[t] = 0
      BY <1>47, <1>a, <3>1, <3>3 DEF FailRetained, Becomes, Process
    <3>4. CASE Becomes(w, Abandoned(w))
      BY <1>47, <1>a, <3>4 DEF FailRetained, Abandoned, Becomes, Process
    <3>5. CASE Becomes(w, [Abandoned(w) EXCEPT !.held[t] = 0])
      BY <1>47, <1>a, <3>5 DEF FailRetained, Abandoned, Becomes, Process
    <3> QED
      BY <1>47, <2>1, <3>2, <3>3, <3>4, <3>5 DEF FailRetained, HeldToken
  <2>2. CASE ~(t # None /\ gw[w].current = t)
    <3>1. Becomes(w, [gw[w] EXCEPT !.stop = "exit"])
      BY <1>47, <2>2 DEF FailRetained
    <3> QED
      BY <1>47, <1>a, <3>1 DEF FailRetained, Becomes, Process
  <2> QED
    BY <2>1, <2>2
<1>48. CASE FailBlind(w)
  BY <1>48, <1>a DEF FailBlind, Abandoned, Becomes, Process
<1>49. CASE Exit(w)
  BY <1>49, <1>a DEF Exit, NoProcess, Becomes, Process
<1>50. CASE Signal(w)
  BY <1>50, <1>a DEF Signal, Becomes, Process
<1> QED
  BY <1>1, <1>2, <1>3, <1>4, <1>5, <1>6, <1>7, <1>8, <1>9, <1>10, <1>11, <1>12, <1>13, <1>14, <1>15,
     <1>16, <1>17, <1>18, <1>19, <1>20, <1>21, <1>22, <1>23, <1>24, <1>25, <1>26, <1>27, <1>28,
     <1>29, <1>30, <1>31, <1>32, <1>33, <1>34, <1>35, <1>36, <1>37, <1>38, <1>39, <1>40, <1>41,
     <1>42, <1>43, <1>44, <1>45, <1>46, <1>47, <1>48, <1>49, <1>50
     DEF WorkerStep, Supervision, Dequeue, Execute, Stopping

-----------------------------------------------------------------------------
(* What a step of a worker does to claims and statuses.                    *)

Takes(w, t) ==
    /\ ~Claimed(t)
    /\ status' = status
    /\ \E c \in Claims : c.token = tokens + 1 /\ c.worker = w /\ claim' = [claim EXCEPT ![t] = c]

Starts(w, t) ==
    /\ Claimed(t) /\ claim[t].worker = w /\ status[t] = "pending"
    /\ status' = [status EXCEPT ![t] = "processing"]
    /\ claim' = [claim EXCEPT ![t].fence = "execution_fenced"]

Freezes(w, t) ==
    /\ Claimed(t) /\ claim[t].worker = w
    /\ status' = status
    /\ claim' = [claim EXCEPT ![t].fence = "frozen"]

\* A claim of w goes, and the attempt under it ends; no child of w works on it.
Drops(w, t) ==
    /\ t \notin live[w]
    /\ Claimed(t) => claim[t].worker = w
    /\ claim' = [claim EXCEPT ![t] = Cleared]
    /\ \/ status' = status
       \/ Claimed(t) /\ \E s \in {"pending"} \cup Terminal : status' = [status EXCEPT ![t] = s]

\* The late write of a worker that has no claim any more.
Overwrites(w, t) ==
    /\ SlowRedis
    /\ t \notin live[w]
    /\ claim' = [claim EXCEPT ![t] = Cleared]
    /\ \E s \in Terminal : status' = [status EXCEPT ![t] = s]

Scripted(w) ==
    \/ UNCHANGED <<status, claim>>
    \/ \E t \in Tasks : Takes(w, t) \/ Starts(w, t) \/ Freezes(w, t) \/ Drops(w, t) \/ Overwrites(w, t)

\* A freeze finds a claim of this worker, or none at all.
LEMMA FreezeScripted ==
  ASSUME Typed, TicketsOK, NEW w \in Workers, NEW t \in Tasks, NEW next, Freeze(w, t, next)
  PROVE  Scripted(w)
<1>1. CASE UNCHANGED <<status, claim>>
  BY <1>1 DEF Scripted
<1>2. CASE FreezeClaim(t, HeldToken(w, t)) /\ claim[t].token = HeldToken(w, t)
  <2>1. Freezes(w, t)
    BY <1>2 DEF FreezeClaim, Freezes, Claimed, TicketsOK, Ticket, HeldToken
  <2> QED
    BY <2>1 DEF Scripted
<1> QED
  BY <1>1, <1>2 DEF Freeze, FreezeClaim, store

\* With a token that it remembers a worker reaches its own claims only.
LEMMA OwnToken ==
  ASSUME TicketsOK, NEW w \in Workers, NEW t \in Tasks, claim[t].token = gw[w].held[t]
  PROVE  Claimed(t) => claim[t].worker = w
BY DEF TicketsOK, Ticket, Claimed

\* A drop of the claim on a task that no child of w works on.
LEMMA ClearDrops ==
  ASSUME NEW w, NEW t, ClearClaim(t), t \notin live[w], Claimed(t) => claim[t].worker = w,
         \/ status' = status
         \/ Claimed(t) /\ \E s \in {"pending"} \cup Terminal : status' = [status EXCEPT ![t] = s]
  PROVE  Drops(w, t)
BY DEF ClearClaim, Drops

LEMMA RequeueScripted ==
  ASSUME TicketsOK, NEW w \in Workers, NEW t \in Tasks, NEW release, NEW restore, t \notin live[w],
         RequeueTask(t, HeldToken(w, t), release, restore)
  PROVE  Scripted(w)
<1>1. CASE ~Requeueable(t, HeldToken(w, t), release)
  BY <1>1 DEF RequeueTask, Scripted
<1>2. CASE Requeueable(t, HeldToken(w, t), release)
  <2>1. Claimed(t) /\ claim[t].worker = w
    BY <1>2, OwnToken DEF Requeueable, HeldToken, Claimed
  <2>2. ClearClaim(t) /\ (status' = status \/ status' = [status EXCEPT ![t] = "pending"])
    BY <1>2 DEF RequeueTask
  <2>3. Drops(w, t)
    BY <2>1, <2>2, ClearDrops
  <2> QED
    BY <2>3 DEF Scripted
<1> QED
  BY <1>1, <1>2

LEMMA FinalizeScripted ==
  ASSUME TicketsOK, NEW w \in Workers, NEW t \in Tasks, NEW outcome \in Terminal, NEW k, t \notin live[w],
         FinalizeTask(t, outcome), k # 0, claim[t].token = k, Ticket(w, k, t)
  PROVE  Scripted(w)
<1>1. Drops(w, t)
  BY ClearDrops DEF FinalizeTask, Ticket, Claimed
<1> QED
  BY <1>1 DEF Scripted

LEMMA WorkerScripted ==
  ASSUME Typed, TicketsOK, NEW w \in Workers, Orderly(w), WorkerStep(w)
  PROVE  Scripted(w)
<1>a. /\ gw[w].pc \in Busy => Hand(w) \in Tasks
      /\ gw[w].held \in [Tasks -> Nat] /\ gw[w].deferred \subseteq Tasks
      /\ MarksOK(w) /\ HoldsOK(w) /\ LiveShape(w)
      /\ claim \in [Tasks -> Claims] /\ tokens \in Nat /\ gw[w].inst \in Nat /\ gw[w].retained \in Tasks \cup {None}
      /\ None \notin Tasks /\ status \in [Tasks -> Statuses]
  BY Fields, ProcessFields DEF Orderly, LiveOK, StoreTypeOK
<1>t. \A t \in Tasks : Ticket(w, HeldToken(w, t), t)
  BY DEF TicketsOK, HeldToken
<1>1. CASE UNCHANGED <<status, claim>>
  BY <1>1 DEF Scripted
<1>2. CASE RecoverFail(w)
  <2>1. Hand(w) \in Tasks /\ live[w] = {}
    BY <1>2, <1>a DEF RecoverFail, Busy, LiveShape
  <2> QED
    BY <1>1, <1>2, <1>t, <2>1, FinalizeScripted DEF RecoverFail, MayFinalize, Terminal, store
<1>3. CASE RecoverRequeue(w) \/ CloseAfterClaim(w) \/ GiveBack(w)
  <2>1. Hand(w) \in Tasks /\ live[w] = {}
    BY <1>3, <1>a DEF RecoverRequeue, CloseAfterClaim, GiveBack, Busy, LiveShape
  <2> QED
    BY <1>3, <2>1, RequeueScripted DEF RecoverRequeue, CloseAfterClaim, GiveBack
<1>4. CASE ClaimNext(w)
  <2>1. PICK t \in Tasks : ClaimTask(w, gw[w].inst, Source(w), t)
    BY <1>4 DEF ClaimNext
  <2>2. tokens + 1 \in Nat /\ Source(w) \in Queues
    BY <1>a, QueuesType DEF Source
  <2> DEFINE c == [token |-> tokens + 1, worker |-> w, inst |-> gw[w].inst, src |-> Source(w), fence |-> "none"]
  <2>3. c \in Claims
    BY <1>a, <2>2 DEF Claims, Fences
  <2>4. c.token = tokens + 1 /\ c.worker = w
    OBVIOUS
  <2>5. claim' = [claim EXCEPT ![t] = c] /\ status' = status /\ ~Claimed(t)
    BY <2>1 DEF ClaimTask, Claimable
  <2> HIDE DEF c
  <2>6. Takes(w, t)
    BY <2>3, <2>4, <2>5 DEF Takes
  <2> QED
    BY <2>6 DEF Scripted
<1>5. CASE AcknowledgeClaim(w) \/ StartRefused(w)
  <2>1. Hand(w) \in Tasks /\ live[w] = {}
    BY <1>5, <1>a DEF AcknowledgeClaim, StartRefused, Busy, LiveShape
  <2>2. status' = status
    BY <1>5 DEF AcknowledgeClaim, AckClaim, StartRefused, RefuseProcessing
  <2>3. CASE claim[Hand(w)].token = HeldToken(w, Hand(w)) /\ ClearClaim(Hand(w))
    <3>1. Drops(w, Hand(w))
      BY <2>1, <2>2, <2>3, OwnToken, ClearDrops DEF HeldToken
    <3> QED
      BY <2>1, <3>1 DEF Scripted
  <2> QED
    BY <1>1, <1>5, <2>2, <2>3 DEF AcknowledgeClaim, AckClaim, StartRefused, RefuseProcessing
<1>6. CASE StartTask(w)
  <2>1. Hand(w) \in Tasks /\ gw[w].held[Hand(w)] # 0
    BY <1>6, <1>a DEF StartTask, Busy, HoldsOK
  <2>2. Starts(w, Hand(w))
    BY <1>6, <2>1, OwnToken DEF StartTask, MarkProcessing, Startable, Starts, HeldToken, Claimed
  <2> QED
    BY <2>1, <2>2 DEF Scripted
<1>7. CASE ReturnDeferred(w)
  <2>1. PICK t \in gw[w].deferred : claim[t].token = HeldToken(w, t) /\ ReturnClaim(t)
    BY <1>7 DEF ReturnDeferred
  <2>2. t \in Tasks /\ live[w] = {}
    BY <1>7, <1>a DEF ReturnDeferred, LiveShape
  <2>3. Drops(w, t)
    BY <2>1, <2>2, OwnToken, ClearDrops DEF ReturnClaim, HeldToken
  <2> QED
    BY <2>2, <2>3 DEF Scripted
<1>8. CASE Commit(w) \/ CommitReplyLost(w)
  <2>1. Hand(w) \in Tasks /\ live[w] = {} /\ Ticket(w, gw[w].cap, Hand(w))
    BY <1>8, <1>a DEF Commit, CommitReplyLost, Busy, LiveShape, HoldsOK
  <2> QED
    BY <1>8, <2>1, FinalizeScripted DEF Commit, CommitReplyLost, MayFinalize
<1>9. CASE CommitBlind(w) \/ FailBlind(w)
  <2>1. PICK t \in Tasks \cup {None}, outcome \in Terminal : FinalizeBlind(t, outcome)
    BY <1>9, <1>a DEF CommitBlind, FailBlind, Busy, Terminal
  <2>2. SlowRedis /\ live[w] = {}
    BY <1>9, <1>a DEF CommitBlind, FailBlind, MarksOK, LiveShape
  <2>3. CASE t = None
    BY <1>1, <1>a, <2>1, <2>3 DEF FinalizeBlind
  <2>4. CASE t \in Tasks
    <3>1. Overwrites(w, t)
      BY <2>1, <2>2 DEF FinalizeBlind, Overwrites
    <3> QED
      BY <2>4, <3>1 DEF Scripted
  <2> QED
    BY <2>3, <2>4
<1>10. CASE ContainFreeze(w)
  <2>1. Hand(w) \in Tasks
    BY <1>10, <1>a DEF ContainFreeze, Busy
  <2> QED
    BY <1>10, <2>1, FreezeScripted DEF ContainFreeze
<1>11. CASE StopFreeze(w)
  BY <1>1, <1>11, <1>a, FreezeScripted DEF StopFreeze, store
<1>12. CASE FailRetained(w)
  <2> DEFINE t == gw[w].retained
  <2>1. CASE t # None /\ MayFinalize(t, HeldToken(w, t), TRUE) /\ FinalizeTask(t, "failed")
    <3>1. live[w] = {}
      BY <1>12, <1>a DEF FailRetained, LiveShape, MarksOK
    <3> QED
      BY <1>a, <1>t, <2>1, <3>1, FinalizeScripted DEF MayFinalize, Terminal
  <2> QED
    BY <1>1, <1>12, <2>1 DEF FailRetained, store
<1>13. CASE \/ Supervision(w) \/ Signal(w)
            \/ StopBegins(w) \/ DrainOver(w) \/ PoolShutSafe(w) \/ PoolShutUnsafe(w) \/ Exit(w)
  BY <1>1, <1>13
     DEF Supervision, Signal, StartWorker, Boot, Crash, ProveDrained, DrainUnproven, ClearLatch, PoolFault,
         StopBegins, DrainOver, PoolShutSafe, PoolShutUnsafe, Exit, store
<1>14. CASE \/ BeginDequeue(w) \/ RecoverEntry(w) \/ RecoverCheck(w) \/ EndRecovery(w) \/ FindNothing(w)
            \/ InspectClaim(w) \/ ReturnRaises(w) \/ FinishScan(w)
  BY <1>1, <1>14
     DEF BeginDequeue, RecoverEntry, RecoverCheck, EndRecovery, FindNothing, DiscardQueue, InspectClaim, ReturnRaises,
         FinishScan, store
<1>15. CASE \/ Deliver(w) \/ DeliverClosed(w) \/ LaunchChild(w) \/ GateClosed(w) \/ ChildDone(w) \/ Unwound(w)
            \/ CheckRetained(w) \/ CommitUnclaimed(w) \/ CommitStale(w) \/ CommitFrozen(w) \/ CommitFails(w)
            \/ ReapUnproven(w) \/ ContainLatch(w)
  BY <1>1, <1>15
     DEF Deliver, DeliverClosed, LaunchChild, GateClosed, ChildDone, Unwound, CheckRetained, CommitUnclaimed,
         CommitStale, CommitFrozen, CommitFails, ReapUnproven, ContainLatch, store
<1> QED
  BY <1>2, <1>3, <1>4, <1>5, <1>6, <1>7, <1>8, <1>9, <1>10, <1>11, <1>12, <1>13, <1>14, <1>15
     DEF WorkerStep, Stopping, Dequeue, Execute

-----------------------------------------------------------------------------
(* What a worker's own step leaves it holding.                             *)

Parked == {"down", "boot", "idle", "recover", "recheck", "refail", "rerequeue"}

LEMMA HoldsParked ==
  ASSUME NEW w, MarksOK(w)', gw'[w].pc \in Parked
  PROVE  HoldsOK(w)'
BY DEF MarksOK, HoldsOK, Parked, Running, Scanning

\* A freeze leaves every claim its owner and takes no fence down.
LEMMA FreezeFrame ==
  ASSUME claim \in [Tasks -> Claims], NEW w, NEW t, NEW next, Freeze(w, t, next) \/ UNCHANGED store
  PROVE  /\ \A u \in Tasks : claim'[u].token = claim[u].token /\ claim'[u].worker = claim[u].worker
         /\ \A u \in Tasks : claim[u].fence # "none" => claim'[u].fence # "none"
         /\ UNCHANGED <<status, tokens, tombstone, parent>>
<1>1. CASE UNCHANGED store
  BY <1>1 DEF store
<1>2. CASE \E k : FreezeClaim(t, k)
  <2>1. /\ \A u \in Tasks : claim'[u] \in {claim[u], [claim[u] EXCEPT !.fence = "frozen"]}
        /\ UNCHANGED <<status, tokens, tombstone, parent>>
    BY <1>2 DEF FreezeClaim
  <2> QED
    BY <2>1 DEF Claims
<1> QED
  BY <1>1, <1>2 DEF Freeze

LEMMA HoldsStep ==
  ASSUME Typed, TicketsOK, NEW w \in Workers, Orderly(w), WorkerStep(w)
  PROVE  HoldsOK(w)'
<1>a. /\ gw \in [Workers -> Process]
      /\ gw[w] \in Process /\ gw[w].held \in [Tasks -> Nat] /\ gw[w].deferred \subseteq Tasks
      /\ gw[w].pc \in Busy => gw[w].hand \in Tasks
      /\ None \notin Tasks
      /\ claim \in [Tasks -> Claims] /\ status \in [Tasks -> Statuses] /\ tokens \in Nat
      /\ MarksOK(w) /\ HoldsOK(w)
  BY Fields DEF Orderly, StoreTypeOK, Hand
<1>m. MarksOK(w)'
  BY MarksStep
<1>t. \A t \in Tasks : Ticket(w, gw[w].held[t], t)
  BY DEF TicketsOK
<1>1. CASE StartWorker(w) \/ Boot(w) \/ Crash(w) \/ Exit(w) \/ BeginDequeue(w) \/ RecoverEntry(w) \/ RecoverCheck(w)
            \/ RecoverFail(w) \/ RecoverRequeue(w) \/ ReturnRaises(w) \/ GiveBack(w) \/ Commit(w) \/ CommitBlind(w) \/ CommitStale(w)
  <2>1. gw'[w].pc \in Parked
    <3>1. CASE StartWorker(w)
      BY <3>1, <1>a DEF StartWorker, NoProcess, Becomes, Process, Parked
    <3>2. CASE Boot(w)
      BY <3>2, <1>a DEF Boot, Becomes, Process, Parked
    <3>3. CASE Crash(w)
      BY <3>3, <1>a DEF Crash, NoProcess, Becomes, Process, Parked
    <3>4. CASE Exit(w)
      BY <3>4, <1>a DEF Exit, NoProcess, Becomes, Process, Parked
    <3>5. CASE BeginDequeue(w)
      BY <3>5, <1>a DEF BeginDequeue, LetGo, Becomes, Process, Parked
    <3>6. CASE RecoverEntry(w)
      <4>1. PICK e \in gw[w].scan :
              \/ Becomes(w, [gw[w] EXCEPT !.scan = @ \ {e}])
              \/ Becomes(w, [[gw[w] EXCEPT !.scan = @ \ {e}] EXCEPT !.pc = "recheck", !.hand = e[2], !.held[e[2]] = e[1]])
        BY <3>6 DEF RecoverEntry
      <4>2. gw[w].pc = "recover"
        BY <3>6 DEF RecoverEntry
      <4>3. CASE Becomes(w, [gw[w] EXCEPT !.scan = @ \ {e}])
        BY <1>a, <4>2, <4>3 DEF Becomes, Process, Parked
      <4>4. CASE Becomes(w, [[gw[w] EXCEPT !.scan = @ \ {e}] EXCEPT !.pc = "recheck", !.hand = e[2], !.held[e[2]] = e[1]])
        BY <1>a, <4>4 DEF Becomes, Process, Parked
      <4> QED
        BY <4>1, <4>3, <4>4
    <3>7. CASE RecoverCheck(w)
      BY <3>7, <1>a DEF RecoverCheck, LetGo, Becomes, Process, Parked
    <3>8. CASE RecoverFail(w)
      BY <3>8, <1>a DEF RecoverFail, LetGo, Becomes, Process, Parked
    <3>9. CASE RecoverRequeue(w)
      BY <3>9, <1>a DEF RecoverRequeue, LetGo, Becomes, Process, Parked
    <3>10. CASE ReturnRaises(w)
      BY <3>10, <1>a DEF ReturnRaises, LetGo, Becomes, Process, Parked
    <3>11. CASE GiveBack(w)
      BY <3>11, <1>a DEF GiveBack, LetGo, Resolved, Becomes, Process, Parked
    <3>12. CASE Commit(w)
      BY <3>12, <1>a DEF Commit, LetGo, Resolved, Becomes, Process, Parked
    <3>13. CASE CommitBlind(w)
      BY <3>13, <1>a DEF CommitBlind, LetGo, Resolved, Becomes, Process, Parked
    <3>14. CASE CommitStale(w)
      BY <3>14, <1>a DEF CommitStale, LetGo, Resolved, Becomes, Process, Parked
    <3> QED
      BY <1>1, <3>1, <3>2, <3>3, <3>4, <3>5, <3>6, <3>7, <3>8, <3>9, <3>10, <3>11, <3>12, <3>13, <3>14
  <2> QED
    BY <1>m, <2>1, HoldsParked
<1> USE DEF MarksOK, HoldsOK, Own, Mine, Ticket, CancelMarked, Hand, HeldToken, Running, Scanning, PoolOpen, Busy
<1>2. CASE ProveDrained(w)
  BY <1>2, <1>a, <1>m DEF ProveDrained, Becomes, Process, store
<1>3. CASE DrainUnproven(w)
  BY <1>3, <1>a, <1>m DEF DrainUnproven, Becomes, Process, store
<1>4. CASE ClearLatch(w)
  BY <1>4, <1>a, <1>m DEF ClearLatch, Becomes, Process, store
<1>5. CASE PoolFault(w)
  BY <1>5, <1>a, <1>m DEF PoolFault, Becomes, Process, store
<1>6. CASE EndRecovery(w)
  BY <1>6, <1>a, <1>m DEF EndRecovery, LetGo, Becomes, Process, store
<1>7. CASE ClaimNext(w)
  <2>1. PICK t \in Tasks :
          /\ ClaimTask(w, gw[w].inst, Source(w), t)
          /\ Becomes(w, [gw[w] EXCEPT !.pc = "claimed", !.hand = t, !.src = Source(w), !.held[t] = tokens'])
    BY <1>7 DEF ClaimNext
  <2>2. /\ gw'[w].pc = "claimed" /\ gw'[w].hand = t /\ gw'[w].held[t] = tokens' /\ gw'[w].deferred = gw[w].deferred
        /\ \A u \in Tasks : u # t => gw'[w].held[u] = gw[w].held[u]
    BY <1>a, <2>1 DEF Becomes, Process
  <2>3. tokens' # 0 /\ claim'[t].token = tokens'
    BY <1>a, <2>1 DEF ClaimTask
  <2>4. (\A u \in Tasks : u # t => claim'[u] = claim[u]) /\ UNCHANGED <<tombstone, parent>>
    BY <1>a, <2>1 DEF ClaimTask
  <2>5. t \notin gw[w].deferred
    BY <1>m, <2>2
  <2> QED
    BY <1>a, <1>m, <2>2, <2>3, <2>4, <2>5
<1>8. CASE FindNothing(w)
  BY <1>8, <1>a, <1>m DEF FindNothing, DiscardQueue, LetGo, Becomes, Process, store
<1>9. CASE InspectClaim(w)
  BY <1>9, <1>a, <1>m DEF InspectClaim, LetGo, Becomes, Process, store
<1>10. CASE AcknowledgeClaim(w)
  BY <1>10, <1>a, <1>m DEF AcknowledgeClaim, AckClaim, ClearClaim, LetGo, Becomes, Process, store
<1>11. CASE CloseAfterClaim(w)
  BY <1>11, <1>a, <1>m DEF CloseAfterClaim, RequeueTask, ClearClaim, LetGo, Becomes, Process, store
<1>12. CASE StartTask(w)
  <2> DEFINE t == gw[w].hand
  <2>1. /\ gw[w].pc = "mark" /\ MarkProcessing(t, gw[w].held[t]) /\ t \in Tasks
        /\ gw[w].held[t] # 0
    BY <1>12, <1>a DEF StartTask
  <2>2. gw'[w].pc = "return" /\ gw'[w].hand = t /\ gw'[w].held = gw[w].held /\ gw'[w].deferred = gw[w].deferred
    BY <1>12, <1>a DEF StartTask, Becomes, Process
  <2>3. /\ claim'[t].token = gw[w].held[t] /\ claim'[t].fence = "execution_fenced" /\ status'[t] = "processing"
        /\ \A u \in Tasks : u # t => claim'[u] = claim[u]
        /\ UNCHANGED <<tombstone, parent>>
    BY <1>a, <2>1 DEF MarkProcessing, Startable, Claims
  <2> HIDE DEF t
  <2>4. \A u \in gw[w].deferred : u \in Tasks /\ u # t
    BY <1>a DEF t
  <2> QED
    BY <1>a, <1>m, <2>1, <2>2, <2>3, <2>4
<1>13. CASE StartRefused(w)
  BY <1>13, <1>a, <1>m DEF StartRefused, RefuseProcessing, ClearClaim, LetGo, Becomes, Process, store
<1>14. CASE ReturnDeferred(w)
  BY <1>14, <1>a, <1>m DEF ReturnDeferred, ReturnClaim, ClearClaim, LetGo, Becomes, Process, store
<1>15. CASE FinishScan(w)
  BY <1>15, <1>a, <1>m DEF FinishScan, LetGo, Becomes, Process, store
<1>16. CASE Deliver(w)
  BY <1>16, <1>a, <1>m DEF Deliver, LetGo, Resolved, Becomes, Process, store
<1>17. CASE DeliverClosed(w)
  BY <1>17, <1>a, <1>m DEF DeliverClosed, LetGo, Resolved, Becomes, Process, store
<1>18. CASE LaunchChild(w)
  BY <1>18, <1>a, <1>m DEF LaunchChild, LetGo, Resolved, Becomes, Process, store
<1>19. CASE GateClosed(w)
  BY <1>19, <1>a, <1>m DEF GateClosed, LetGo, Resolved, Becomes, Process, store
<1>20. CASE ChildDone(w)
  BY <1>20, <1>a, <1>m DEF ChildDone, LetGo, Resolved, Becomes, Process, store
<1>21. CASE Unwound(w)
  BY <1>21, <1>a, <1>m DEF Unwound, LetGo, Resolved, Becomes, Process, store
<1>22. CASE CheckRetained(w)
  <2>1. UNCHANGED store /\ gw[w].pc = "sync" /\ gw[w].hand \in Tasks /\ gw[w].deferred = {}
    BY <1>22, <1>a DEF CheckRetained
  <2>2. CASE gw[w].retained = gw[w].hand
    BY <1>22, <1>a, <2>1, <2>2 DEF CheckRetained, Becomes, Process, store
  <2>3. CASE gw[w].retained # gw[w].hand
    <3>1. Becomes(w, [gw[w] EXCEPT !.pc = "commit", !.cap = gw[w].held[gw[w].hand]])
      BY <1>22, <2>3 DEF CheckRetained
    <3>2. ~SlowRedis => gw[w].held[gw[w].hand] # 0
      BY <1>a, <2>1
    <3>3. Ticket(w, gw[w].held[gw[w].hand], gw[w].hand)
      BY <1>t, <2>1
    <3> QED
      BY <1>a, <2>1, <3>1, <3>2, <3>3 DEF Becomes, Process, store
  <2> QED
    BY <2>2, <2>3
<1>23. CASE CommitUnclaimed(w)
  BY <1>23, <1>a, <1>m DEF CommitUnclaimed, LetGo, Resolved, Becomes, Process, store
<1>24. CASE CommitFrozen(w)
  BY <1>24, <1>a, <1>m DEF CommitFrozen, LetGo, Resolved, Becomes, Process, store
<1>25. CASE CommitFails(w)
  BY <1>25, <1>a, <1>m DEF CommitFails, LetGo, Resolved, Becomes, Process, store
<1>26. CASE CommitReplyLost(w)
  BY <1>26, <1>a, <1>m DEF CommitReplyLost, FinalizeTask, ClearClaim, LetGo, Resolved, Becomes, Process, store
<1>27. CASE ReapUnproven(w)
  BY <1>27, <1>a, <1>m DEF ReapUnproven, LetGo, Resolved, Becomes, Process, store
<1>28. CASE ContainFreeze(w)
  <2>1. PICK h \in [Tasks -> Nat] :
          /\ Becomes(w, [gw[w] EXCEPT !.pc = "latching", !.held = h])
          /\ \A u \in Tasks : h[u] = gw[w].held[u] \/ (h[u] = 0 /\ claim[u].token # gw[w].held[u])
    BY <1>28, ContainHeld
  <2>2. /\ \A u \in Tasks : claim'[u].token = claim[u].token /\ claim'[u].worker = claim[u].worker
        /\ \A u \in Tasks : claim[u].fence # "none" => claim'[u].fence # "none"
        /\ UNCHANGED <<status, tokens, tombstone, parent>>
    BY <1>28, <1>a, FreezeFrame DEF ContainFreeze
  <2>3. /\ gw'[w].pc = "latching" /\ gw'[w].held = h /\ gw'[w].current = gw[w].current
        /\ gw'[w].deferred = gw[w].deferred /\ gw[w].pc = "contain"
    BY <1>28, <1>a, <2>1 DEF ContainFreeze, Becomes, Process
  <2> QED
    BY <1>a, <1>m, <2>1, <2>2, <2>3
<1>29. CASE ContainLatch(w)
  BY <1>29, <1>a, <1>m DEF ContainLatch, LetGo, Resolved, Becomes, Process, store
<1>30. CASE StopBegins(w)
  BY <1>30, <1>a, <1>m DEF StopBegins, Becomes, Process, store
<1>31. CASE DrainOver(w)
  BY <1>31, <1>a, <1>m DEF DrainOver, Becomes, Process, store
<1>32. CASE StopFreeze(w)
  <2>1. PICK h \in [Tasks -> Nat] :
          /\ Becomes(w, [gw[w] EXCEPT !.stop = "pool", !.held = h])
          /\ \A u \in Tasks : h[u] = gw[w].held[u] \/ (h[u] = 0 /\ claim[u].token # gw[w].held[u])
    BY <1>32, StopHeld
  <2>2. /\ \A u \in Tasks : claim'[u].token = claim[u].token /\ claim'[u].worker = claim[u].worker
        /\ \A u \in Tasks : claim[u].fence # "none" => claim'[u].fence # "none"
        /\ UNCHANGED <<status, tokens, tombstone, parent>>
    BY <1>32, <1>a, FreezeFrame DEF StopFreeze, store
  <2>3. /\ gw'[w].pc = gw[w].pc /\ gw'[w].held = h /\ gw'[w].current = gw[w].current /\ gw'[w].hand = gw[w].hand
        /\ gw'[w].deferred = gw[w].deferred /\ gw'[w].cap = gw[w].cap /\ gw'[w].stop = "pool"
        /\ gw'[w].retained = gw[w].retained
    BY <1>a, <2>1 DEF Becomes, Process
  <2>4. gw[w].stop = "freeze"
    BY <1>32 DEF StopFreeze
  <2>5. \A u \in Tasks : (Own(w, u) => Own(w, u)') /\ (Mine(w, u) => Mine(w, u)')
    BY <2>1, <2>2, <2>3
  <2>6. gw[w].pc \in {"claimed", "ack", "close", "mark"} => gw'[w].held = gw[w].held
    BY <1>32, <1>a, <2>3 DEF StopFreeze, Becomes, Process
  <2>7. ASSUME gw'[w].pc \in {"claimed", "ack", "close", "mark"}
        PROVE  gw'[w].held[gw'[w].hand] # 0 /\ (Mine(w, Hand(w))' \/ CancelMarked(Hand(w))')
    <3>1. gw[w].hand \in Tasks /\ gw[w].held[gw[w].hand] # 0 /\ (Mine(w, Hand(w)) \/ CancelMarked(Hand(w)))
      BY <1>a, <2>3, <2>7
    <3>2. gw'[w].held[gw[w].hand] # 0
      BY <2>3, <2>6, <2>7, <3>1
    <3> QED
      BY <2>2, <2>3, <2>5, <3>1, <3>2
  <2>8. ASSUME gw'[w].pc \in {"return", "deliver"}, gw'[w].hand # None
        PROVE  Own(w, Hand(w))'
    <3>1. gw[w].hand \in Tasks
      BY <1>a, <2>3, <2>8 DEF Process
    <3>2. Own(w, Hand(w))
      BY <1>a, <2>3, <2>8
    <3> QED
      BY <2>3, <2>5, <3>1, <3>2
  <2>9. ASSUME gw'[w].current # None, SlowRedis => gw'[w].pc = "run" /\ PoolOpen(w)'
        PROVE  Own(w, gw[w].current)'
    <3>1. Own(w, gw[w].current)
      BY <1>a, <2>3, <2>4, <2>9
    <3>2. gw[w].current \in Tasks
      BY <1>a, <2>3, <2>9 DEF Process
    <3> QED
      BY <2>3, <2>5, <3>1, <3>2
  <2>10. gw'[w].pc = "commit" => Ticket(w, gw[w].cap, Hand(w))' /\ (gw'[w].cap = 0 => SlowRedis)
    BY <1>a, <2>2, <2>3
  <2>11. \A u \in gw'[w].deferred : Mine(w, u)' \/ CancelMarked(u)'
    BY <1>a, <2>2, <2>3, <2>5
  <2> QED
    BY <2>7, <2>8, <2>9, <2>10, <2>11
<1>33. CASE PoolShutSafe(w)
  BY <1>33, <1>a, <1>m DEF PoolShutSafe, Becomes, Process, store
<1>34. CASE PoolShutUnsafe(w)
  BY <1>34, <1>a, <1>m DEF PoolShutUnsafe, Becomes, Process, store
<1>35. CASE FailRetained(w)
  <2> DEFINE t == gw[w].retained
  <2>1. gw[w].stop = "fail" /\ UNCHANGED <<tombstone, parent, tokens>>
    BY <1>35 DEF FailRetained, FinalizeTask, store
  <2>2. ASSUME UNCHANGED store, NEW stop \in {"exit", "blind"}, Becomes(w, [gw[w] EXCEPT !.stop = stop])
        PROVE  HoldsOK(w)'
    BY <1>a, <1>m, <2>1, <2>2 DEF Becomes, Process, store
  <2>3. CASE t # None /\ gw[w].current = t /\ UNCHANGED store /\ Becomes(w, Abandoned(w))
    BY <1>a, <1>m, <2>1, <2>3 DEF Abandoned, Becomes, Process, store
  <2>4. CASE t # None /\ gw[w].current = t /\ FinalizeTask(t, "failed") /\ Becomes(w, [Abandoned(w) EXCEPT !.held[t] = 0])
    <3>1. gw[w].deferred = {} /\ gw[w].pc \in Running /\ gw[w].hand = t
      BY <1>a, <2>4
    <3>2. /\ gw'[w].pc = gw[w].pc /\ gw'[w].hand = t /\ gw'[w].current = None /\ gw'[w].deferred = {}
          /\ gw'[w].cap = gw[w].cap
      BY <1>a, <2>4, <3>1 DEF Abandoned, Becomes, Process
    <3>3. claim'[t] = Cleared \/ t \notin Tasks
      BY <1>a, <2>4 DEF FinalizeTask, ClearClaim
    <3> QED
      BY <1>a, <1>m, <2>1, <3>1, <3>2, <3>3, ClearedFields
  <2> QED
    BY <1>35, <2>2, <2>3, <2>4 DEF FailRetained
<1>36. CASE FailBlind(w)
  <2> DEFINE t == gw[w].retained
  <2>1. FinalizeBlind(t, "failed") /\ Becomes(w, Abandoned(w)) /\ SlowRedis
    BY <1>36, <1>a DEF FailBlind
  <2>2. /\ gw'[w].pc = gw[w].pc /\ gw'[w].hand = gw[w].hand /\ gw'[w].current = None /\ gw'[w].held = gw[w].held
        /\ gw'[w].deferred = gw[w].deferred /\ gw'[w].cap = gw[w].cap
    BY <1>a, <2>1 DEF Abandoned, Becomes, Process
  <2>3. CASE t = None
    <3>1. UNCHANGED <<claim, status, tokens, tombstone, parent>>
      BY <1>a, <2>1, <2>3 DEF FinalizeBlind
    <3> QED
      BY <1>a, <1>m, <2>1, <2>2, <3>1
  <2>4. CASE t # None
    <3>1. gw[w].deferred = {} /\ gw[w].pc \in Running /\ gw[w].hand = t
      BY <1>a, <2>4
    <3>2. (claim'[t] = Cleared \/ t \notin Tasks) /\ tokens' = tokens
      BY <1>a, <2>1 DEF FinalizeBlind
    <3> QED
      BY <1>a, <1>m, <2>1, <2>2, <3>1, <3>2, ClearedFields
  <2> QED
    BY <2>3, <2>4
<1>37. CASE Signal(w)
  BY <1>37, <1>a DEF Signal, Becomes, Process, store
<1> QED
  BY <1>1, <1>2, <1>3, <1>4, <1>5, <1>6, <1>7, <1>8, <1>9, <1>10, <1>11, <1>12, <1>13, <1>14, <1>15,
     <1>16, <1>17, <1>18, <1>19, <1>20, <1>21, <1>22, <1>23, <1>24, <1>25, <1>26, <1>27, <1>28,
     <1>29, <1>30, <1>31, <1>32, <1>33, <1>34, <1>35, <1>36, <1>37
     DEF WorkerStep, Supervision, Dequeue, Execute, Stopping

-----------------------------------------------------------------------------
(* What a step of anybody else leaves a worker.                            *)

\* No late write of one worker meets the claim of another.
Apart == SlowRedis => \A v, w \in Workers : v = w

OtherStep(w) == ControlPlane \/ UNCHANGED vars \/ \E v \in Workers \ {w} : WorkerStep(v)

AllOrderly == \A w \in Workers : Orderly(w)

\* A claim of w and the status of its task stay, unless the control plane ends
\* an attempt that has not started; the task is marked then.
Undisturbed(t) ==
    \/ claim'[t] = claim[t] /\ status'[t] = status[t]
    \/ status[t] = "pending" /\ claim[t].fence = "none" /\ CancelMarked(t)'

LEMMA ControlLeaves ==
  ASSUME Typed, AllSafe, NEW t \in Tasks, Claimed(t), Control
  PROVE  Undisturbed(t)
<1>a. /\ status \in [Tasks -> Statuses] /\ claim \in [Tasks -> Claims]
      /\ status[t] \in {"pending", "processing"}
  BY DEF Typed, TypeOK, StoreTypeOK, AllSafe, Safe, Owned
<1>1. CASE Submits \/ Refreshes
  BY <1>1, <1>a DEF Submits, Refreshes, SubmitTask, ForceRefreshTask, Terminal, Undisturbed
<1>2. CASE Cancels
  <2>1. PICK u \in Tasks : CancelTask(u)
    BY <1>2 DEF Cancels
  <2>2. CASE u = t
    BY <1>a, <2>1, <2>2 DEF CancelTask, ClearClaim, Undisturbed, CancelMarked
  <2>3. CASE u # t
    BY <1>a, <2>1, <2>3 DEF CancelTask, ClearClaim, Undisturbed
  <2> QED
    BY <2>2, <2>3
<1>3. CASE FinishParent
  BY <1>3, <1>a DEF FinishParent, Undisturbed, CancelMarked
<1>4. CASE CancelParent \/ LapseParent \/ QueueWaits
  BY <1>4 DEF CancelParent, LapseParent, QueueWaits, QueueWaitRequeue, Undisturbed
<1> QED
  BY <1>1, <1>2, <1>3, <1>4 DEF Control

LEMMA OthersLeave ==
  ASSUME Typed, TicketsOK, AllSafe, AllOrderly, Apart, NEW w \in Workers, OtherStep(w),
         NEW t \in Tasks, Claimed(t), claim[t].worker = w
  PROVE  Undisturbed(t)
<1>a. status \in [Tasks -> Statuses] /\ claim \in [Tasks -> Claims]
  BY DEF Typed, TypeOK, StoreTypeOK
<1>1. CASE ControlPlane
  BY <1>1, ControlLeaves DEF ControlPlane
<1>2. CASE UNCHANGED <<status, claim>>
  BY <1>2 DEF Undisturbed
<1>3. ASSUME NEW v \in Workers, v # w, WorkerStep(v)
      PROVE  Undisturbed(t)
  <2>1. Scripted(v)
    BY <1>3, WorkerScripted DEF AllOrderly
  <2>2. ASSUME NEW u \in Tasks, Takes(v, u) \/ Starts(v, u) \/ Freezes(v, u) \/ Drops(v, u)
        PROVE  claim'[t] = claim[t] /\ status'[t] = status[t]
    <3>1. ~Claimed(u) \/ claim[u].worker = v
      BY <2>2 DEF Takes, Starts, Freezes, Drops
    <3>2. u # t
      BY <1>3, <3>1
    <3> QED
      BY <1>a, <2>2, <3>2 DEF Takes, Starts, Freezes, Drops
  <2>3. \A u \in Tasks : ~Overwrites(v, u)
    BY <1>3 DEF Overwrites, Apart
  <2> QED
    BY <1>2, <2>1, <2>2, <2>3 DEF Scripted, Undisturbed
<1> QED
  BY <1>1, <1>2, <1>3 DEF OtherStep, vars, store

LEMMA OthersKeep ==
  ASSUME Typed, TicketsOK, AllSafe, AllOrderly, Apart, NEW w \in Workers, OtherStep(w), StoreMove,
         UNCHANGED <<gw[w], live[w]>>
  PROVE  Orderly(w)'
<1>a. /\ StoreTypeOK /\ gw[w] \in Process /\ gw[w].held \in [Tasks -> Nat] /\ gw[w].deferred \subseteq Tasks
      /\ gw[w].pc \in Busy => Hand(w) \in Tasks
      /\ live[w] \subseteq Tasks /\ claim \in [Tasks -> Claims]
      /\ MarksOK(w) /\ HoldsOK(w) /\ LiveShape(w) /\ LiveOwned(w)
  BY Fields DEF AllOrderly, Orderly, LiveOK, StoreTypeOK
<1>b. gw[w].hand \in Tasks \cup {None} /\ gw[w].current \in Tasks \cup {None} /\ gw[w].cap \in Nat
  BY <1>a DEF Process
<1>1. \A t \in Tasks : Mine(w, t) => Mine(w, t)' \/ CancelMarked(t)'
  BY <1>a, OthersLeave DEF Mine, TicketsOK, Ticket, Claimed, Undisturbed
<1>2. \A t \in Tasks : Own(w, t) => Own(w, t)'
  <2> SUFFICES ASSUME NEW t \in Tasks, Own(w, t) PROVE Own(w, t)'
    OBVIOUS
  <2>1. Claimed(t) /\ claim[t].worker = w
    BY <1>a DEF Own, Mine, TicketsOK, Ticket, Claimed
  <2>2. Undisturbed(t)
    BY <2>1, OthersLeave
  <2> QED
    BY <2>2 DEF Own, Mine, Undisturbed
<1>3. \A t : CancelMarked(t) => CancelMarked(t)'
  BY MarksStay
<1>4. HoldsOK(w)'
  <2>1. gw'[w].pc \in {"claimed", "ack", "close", "mark"} =>
          gw'[w].held[Hand(w)'] # 0 /\ (Mine(w, Hand(w))' \/ CancelMarked(Hand(w))')
    BY <1>a, <1>1, <1>3 DEF HoldsOK, Hand, Busy
  <2>2. gw'[w].pc \in {"return", "deliver"} /\ Hand(w)' # None => Own(w, Hand(w))'
    BY <1>a, <1>b, <1>2 DEF HoldsOK, Hand
  <2>3. gw'[w].current # None /\ (SlowRedis => gw'[w].pc = "run" /\ PoolOpen(w)') => Own(w, gw[w].current)'
    BY <1>a, <1>b, <1>2 DEF HoldsOK, PoolOpen
  <2>4. gw'[w].pc = "commit" => Ticket(w, gw[w].cap, Hand(w))' /\ (gw'[w].cap = 0 => SlowRedis)
    <3> SUFFICES ASSUME gw[w].pc = "commit" PROVE Ticket(w, gw[w].cap, Hand(w))' /\ (gw[w].cap = 0 => SlowRedis)
      OBVIOUS
    <3>1. PICK t \in Tasks, k \in Nat : t = gw[w].hand /\ k = gw[w].cap
      BY <1>a, <1>b DEF Hand, Busy
    <3>2. Ticket(w, k, t)
      BY <1>a, <3>1 DEF HoldsOK, Hand
    <3>3. Ticket(w, k, t)'
      BY <1>a, <3>2, TicketKept
    <3> QED
      BY <1>a, <3>1, <3>3 DEF Ticket, Hand, HoldsOK
  <2>5. \A t \in gw'[w].deferred : Mine(w, t)' \/ CancelMarked(t)'
    BY <1>a, <1>1, <1>3 DEF HoldsOK
  <2> QED
    BY <2>1, <2>2, <2>3, <2>4, <2>5 DEF HoldsOK
<1>5. LiveOwned(w)'
  <2> SUFFICES ASSUME NEW t \in live[w]
               PROVE  claim'[t].token # 0 /\ claim'[t].worker = w /\ claim'[t].fence # "none" /\ status'[t] = "processing"
    BY DEF LiveOwned, Claimed
  <2>1. t \in Tasks /\ Claimed(t) /\ claim[t].worker = w /\ claim[t].fence # "none" /\ status[t] = "processing"
    BY <1>a DEF LiveOwned
  <2>2. Undisturbed(t)
    BY <2>1, OthersLeave
  <2> QED
    BY <2>1, <2>2 DEF Undisturbed, Claimed
<1>6. MarksOK(w)' /\ LiveShape(w)'
  BY <1>a DEF MarksOK, LiveShape, Hand, PoolOpen
<1> QED
  BY <1>4, <1>5, <1>6 DEF Orderly, LiveOK

-----------------------------------------------------------------------------
(* The children of a worker.                                               *)

\* A worker adds a child in one step only, and otherwise lets children go.
Reaps(w) ==
    /\ UNCHANGED store
    /\ \E S \in SUBSET Tasks : live' = [live EXCEPT ![w] = @ \ S]

LEMMA LiveMoves ==
  ASSUME Typed, NEW w \in Workers, WorkerStep(w)
  PROVE  UNCHANGED live \/ Reaps(w) \/ LaunchChild(w)
<1>a. /\ gw[w].pc \in Busy => Hand(w) \in Tasks
      /\ live \in [Workers -> SUBSET Tasks]
  BY Fields
<1>1. CASE ProveDrained(w) \/ PoolShutSafe(w)
  <2>1. UNCHANGED store /\ live' = [live EXCEPT ![w] = @ \ Tasks]
    BY <1>1, <1>a DEF ProveDrained, PoolShutSafe
  <2> QED
    BY <2>1 DEF Reaps
<1>2. CASE ChildDone(w)
  <2>1. {Hand(w)} \in SUBSET Tasks /\ UNCHANGED store /\ live' = [live EXCEPT ![w] = @ \ {Hand(w)}]
    BY <1>2, <1>a DEF ChildDone, Busy
  <2> QED
    BY <2>1 DEF Reaps
<1>3. CASE Supervision(w) \/ Signal(w) \/ Stopping(w)
  BY <1>1, <1>3
     DEF Supervision, Signal, StartWorker, Boot, Crash, DrainUnproven, ClearLatch, PoolFault,
         Stopping, StopBegins, DrainOver, StopFreeze, PoolShutUnsafe, FailRetained, FailBlind, Exit
<1>4. CASE Dequeue(w)
  BY <1>4
     DEF Dequeue, BeginDequeue, RecoverEntry, RecoverCheck, RecoverFail, RecoverRequeue, EndRecovery, ClaimNext,
         FindNothing, InspectClaim, AcknowledgeClaim, CloseAfterClaim, StartTask, StartRefused, ReturnDeferred,
         ReturnRaises, FinishScan
<1>5. CASE Execute(w)
  BY <1>2, <1>5
     DEF Execute, Deliver, DeliverClosed, GateClosed, GiveBack, Unwound, CheckRetained,
         Commit, CommitUnclaimed, CommitBlind, CommitStale, CommitFrozen, CommitFails, CommitReplyLost,
         ReapUnproven, ContainFreeze, ContainLatch
<1> QED
  BY <1>3, <1>4, <1>5 DEF WorkerStep

\* The task of a child about to start is claimed and fenced, and no child of
\* this worker is alive yet.
LEMMA LaunchOwned ==
  ASSUME Typed, TicketsOK, NEW w \in Workers, Orderly(w), LaunchChild(w)
  PROVE  LET t == Hand(w)
         IN  /\ t \in Tasks /\ live[w] = {} /\ live' = [live EXCEPT ![w] = {t}] /\ UNCHANGED store
             /\ Claimed(t) /\ claim[t].worker = w /\ claim[t].fence # "none" /\ status[t] = "processing"
<1>1. gw[w].pc = "run" /\ PoolOpen(w) /\ UNCHANGED store
  BY DEF LaunchChild
<1>2. Hand(w) \in Tasks /\ Hand(w) # None
  BY <1>1, Fields DEF Busy
<1>3. gw[w].current = Hand(w)
  BY <1>1 DEF Orderly, MarksOK
<1>4. Own(w, Hand(w))
  BY <1>1, <1>2, <1>3 DEF Orderly, HoldsOK
<1>5. live[w] = {}
  BY <1>1 DEF Orderly, LiveOK, LiveShape
<1>6. live' = [live EXCEPT ![w] = {Hand(w)}]
  BY <1>5 DEF LaunchChild
<1> QED
  BY <1>1, <1>2, <1>4, <1>5, <1>6 DEF Own, Mine, Claimed, TicketsOK, Ticket

LEMMA LiveStep ==
  ASSUME Typed, TicketsOK, NEW w \in Workers, Orderly(w), WorkerStep(w)
  PROVE  LiveOwned(w)'
<1>a. /\ live \in [Workers -> SUBSET Tasks] /\ status \in [Tasks -> Statuses] /\ claim \in [Tasks -> Claims]
      /\ LiveOwned(w)
  BY DEF Typed, TypeOK, StoreTypeOK, Orderly, LiveOK
<1>1. CASE LaunchChild(w)
  <2>1. /\ live'[w] = {Hand(w)} /\ claim' = claim /\ status' = status
        /\ claim[Hand(w)].token # 0 /\ claim[Hand(w)].worker = w /\ claim[Hand(w)].fence # "none"
        /\ status[Hand(w)] = "processing"
    BY <1>1, <1>a, LaunchOwned DEF Claimed, store
  <2> QED
    BY <2>1 DEF LiveOwned, Claimed
<1>2. CASE Reaps(w)
  BY <1>2, <1>a DEF Reaps, LiveOwned, Claimed, store
<1>3. CASE UNCHANGED live
  <2> SUFFICES ASSUME NEW t \in live[w]
               PROVE  claim'[t].token # 0 /\ claim'[t].worker = w /\ claim'[t].fence # "none" /\ status'[t] = "processing"
    BY <1>3 DEF LiveOwned, Claimed
  <2>1. /\ t \in Tasks /\ claim[t].token # 0 /\ claim[t].worker = w /\ claim[t].fence # "none"
        /\ status[t] = "processing"
    BY <1>a DEF LiveOwned, Claimed
  <2>2. CASE UNCHANGED <<status, claim>>
    BY <2>1, <2>2
  <2>3. ASSUME NEW u \in Tasks, Takes(w, u) \/ Starts(w, u) \/ Drops(w, u) \/ Overwrites(w, u)
        PROVE  claim'[t] = claim[t] /\ status'[t] = status[t]
    <3>1. u # t
      BY <2>1, <2>3 DEF Takes, Starts, Drops, Overwrites, Claimed
    <3> QED
      BY <1>a, <2>1, <2>3, <3>1 DEF Takes, Starts, Drops, Overwrites
  <2>4. ASSUME NEW u \in Tasks, Freezes(w, u)
        PROVE  /\ claim'[t].token = claim[t].token /\ claim'[t].worker = claim[t].worker
               /\ claim'[t].fence \in {claim[t].fence, "frozen"} /\ status'[t] = status[t]
    BY <1>a, <2>1, <2>4 DEF Freezes, Claims
  <2> QED
    BY <2>1, <2>2, <2>3, <2>4, WorkerScripted DEF Scripted
<1> QED
  BY <1>1, <1>2, <1>3, LiveMoves

-----------------------------------------------------------------------------
(* Execution is fenced.                                                    *)

LEMMA InitOrderly == Init => AllOrderly
BY DEF Init, NoProcess, AllOrderly, Orderly, MarksOK, HoldsOK, LiveOK, LiveShape, LiveOwned, Hand

LEMMA StepOrderly ==
  ASSUME Typed, TicketsOK, AllSafe, Apart, AllOrderly, [Next]_vars
  PROVE  AllOrderly'
<1> SUFFICES ASSUME NEW w \in Workers PROVE Orderly(w)'
  BY DEF AllOrderly
<1>1. CASE WorkerStep(w)
  BY <1>1, MarksStep, HoldsStep, LiveStep DEF AllOrderly, Orderly, LiveOK
<1>2. CASE ~WorkerStep(w)
  <2>1. OtherStep(w)
    BY <1>2 DEF Next, OtherStep, WorkerStep
  <2> QED
    BY <1>2, <2>1, OthersStand, StepMoves, TypedStore, OthersKeep
<1> QED
  BY <1>1, <1>2

\* The coroutines of each worker process agree with its claims and its children:
\* a mark of gpu_worker.py says where the loop and stop() are, a claim is held for
\* what is in hand, and no child is alive where the process may drop its claim.
THEOREM OrderlyAlways == ASSUME Apart PROVE Spec => []AllOrderly
BY InitOrderly, StepOrderly, TypedAlways, TicketsAlways, AllSafeAlways, PTL DEF Spec

\* However the workers, the control plane, crashes and restarts interleave, a
\* CUDA child works only for a task that its own worker has claimed, fenced and
\* marked processing (_mark_claim_processing before _process_task; the pool
\* reaps before any script drops the claim): no task runs on two GPUs.
THEOREM ExecutionStaysFenced == ASSUME Apart PROVE Spec => []ExecutionIsFenced
<1>1. AllOrderly => ExecutionIsFenced
  BY DEF AllOrderly, Orderly, LiveOK, LiveOwned, ExecutionIsFenced
<1> QED
  BY <1>1, OrderlyAlways, PTL

-----------------------------------------------------------------------------
(* The promise.  Without late writes every step of TaskClaims is a step of *)
(* ExclusiveExecution, or changes nothing it speaks of.                    *)

\* No child works on t.
Still(t) == \A w \in Workers : t \notin live[w]

PhaseOf(s) == CASE s = "pending" -> "open" [] s = "processing" -> "started" [] OTHER -> s

LEMMA StillIsQuiet ==
  ASSUME NEW t \in Tasks, Still(t)
  PROVE  Exclusive!Quiet(t)
BY DEF Still, Exclusive!Quiet

LEMMA NothingMoves ==
  ASSUME UNCHANGED <<status, live>>
  PROVE  UNCHANGED Exclusive!vars
BY DEF Exclusive!vars

LEMMA StatusMoves ==
  ASSUME status \in [Tasks -> Statuses], NEW t \in Tasks, NEW s \in Statuses,
         status' = [status EXCEPT ![t] = s], live' = live, NEW from, PhaseOf(status[t]) \in from
  PROVE  Exclusive!Moves(t, from, PhaseOf(s))
BY DEF Exclusive!Moves, PhaseOf

LEMMA PhaseMoves ==
  ASSUME status \in [Tasks -> Statuses], NEW t \in Tasks, NEW s \in Statuses,
         status' = [status EXCEPT ![t] = s], live' = live,
         \/ s = status[t]
         \/ status[t] = "absent" /\ s = "pending"
         \/ status[t] = "pending" /\ s = "processing"
         \/ status[t] \in Terminal /\ s = "pending"
         \/ status[t] = "processing" /\ s = "pending" /\ Still(t)
         \/ status[t] \in {"pending", "processing"} /\ s \in Terminal /\ Still(t)
  PROVE  Exclusive!Next \/ UNCHANGED Exclusive!vars
<1>1. CASE s = status[t]
  <2>1. status' = status
    BY <1>1
  <2> QED
    BY <2>1, NothingMoves
<1>2. CASE status[t] = "absent" /\ s = "pending"
  <2>1. Exclusive!Moves(t, {"absent"}, "open")
    <3>1. PhaseOf(status[t]) \in {"absent"} /\ PhaseOf(s) = "open"
      BY <1>2 DEF PhaseOf
    <3>2. Exclusive!Moves(t, {"absent"}, PhaseOf(s))
      BY <3>1, StatusMoves
    <3> QED
      BY <3>1, <3>2
  <2>2. Exclusive!Create(t)
    BY <2>1 DEF Exclusive!Create
  <2> QED
    BY <2>2 DEF Exclusive!Next
<1>3. CASE status[t] = "pending" /\ s = "processing"
  <2>1. Exclusive!Moves(t, {"open"}, "started")
    <3>1. PhaseOf(status[t]) \in {"open"} /\ PhaseOf(s) = "started"
      BY <1>3 DEF PhaseOf
    <3>2. Exclusive!Moves(t, {"open"}, PhaseOf(s))
      BY <3>1, StatusMoves
    <3> QED
      BY <3>1, <3>2
  <2>2. Exclusive!Start(t)
    BY <2>1 DEF Exclusive!Start
  <2> QED
    BY <2>2 DEF Exclusive!Next
<1>4. CASE status[t] \in Terminal /\ s = "pending"
  <2>1. Exclusive!Moves(t, Terminal, "open")
    <3>1. PhaseOf(status[t]) \in Terminal /\ PhaseOf(s) = "open"
      BY <1>4 DEF PhaseOf, Terminal
    <3>2. Exclusive!Moves(t, Terminal, PhaseOf(s))
      BY <3>1, StatusMoves
    <3> QED
      BY <3>1, <3>2
  <2>2. Exclusive!Reopen(t)
    BY <2>1 DEF Exclusive!Reopen
  <2> QED
    BY <2>2 DEF Exclusive!Next
<1>5. CASE status[t] = "processing" /\ s = "pending" /\ Still(t)
  <2>1. Exclusive!Moves(t, {"started"}, "open")
    <3>1. PhaseOf(status[t]) \in {"started"} /\ PhaseOf(s) = "open"
      BY <1>5 DEF PhaseOf
    <3>2. Exclusive!Moves(t, {"started"}, PhaseOf(s))
      BY <3>1, StatusMoves
    <3> QED
      BY <3>1, <3>2
  <2>2. Exclusive!Retry(t)
    BY <1>5, <2>1, StillIsQuiet DEF Exclusive!Retry
  <2> QED
    BY <2>2 DEF Exclusive!Next
<1>6. CASE status[t] \in {"pending", "processing"} /\ s \in Terminal /\ Still(t)
  <2>1. Exclusive!Moves(t, {"open", "started"}, s)
    <3>1. PhaseOf(status[t]) \in {"open", "started"} /\ PhaseOf(s) = s
      BY <1>6 DEF PhaseOf, Terminal
    <3>2. Exclusive!Moves(t, {"open", "started"}, PhaseOf(s))
      BY <3>1, StatusMoves
    <3> QED
      BY <3>1, <3>2
  <2>2. Exclusive!Finish(t)
    BY <1>6, <2>1, StillIsQuiet DEF Exclusive!Finish
  <2> QED
    BY <2>2 DEF Exclusive!Next
<1> QED
  BY <1>1, <1>2, <1>3, <1>4, <1>5, <1>6

\* The parent's end closes the children that wait.
LEMMA ParentWithdraws ==
  ASSUME Typed, AllOrderly, FinishParent, live' = live
  PROVE  Exclusive!Next
<1> DEFINE closed == {t \in Children : status[t] = "pending" /\ claim[t].fence = "none"}
<1>1. closed \in SUBSET Tasks /\ "failed" \in Terminal /\ \A t \in closed : status[t] = "pending" /\ Still(t)
  BY StoreAssumption DEF AllOrderly, Orderly, LiveOK, LiveOwned, Still, Terminal
<1>2. status' = [t \in Tasks |-> IF t \in closed THEN "failed" ELSE status[t]]
  BY DEF FinishParent
<1> HIDE DEF closed
<1>3. Exclusive!Withdraw(closed, "failed")
  BY <1>1, <1>2 DEF Exclusive!Withdraw, Exclusive!Quiet, Still
<1> QED
  BY <1>1, <1>3 DEF Exclusive!Next

LEMMA LaunchLaunches ==
  ASSUME Typed, TicketsOK, AllOrderly, NEW w \in Workers, LaunchChild(w)
  PROVE  Exclusive!Next
<1>a. live \in [Workers -> SUBSET Tasks]
  BY DEF Typed, TypeOK
<1>1. PICK t \in Tasks :
        /\ live[w] = {} /\ live' = [live EXCEPT ![w] = {t}] /\ status' = status
        /\ claim[t].worker = w /\ status[t] = "processing"
  BY LaunchOwned DEF AllOrderly, store
<1>2. Still(t)
  BY <1>1 DEF AllOrderly, Orderly, LiveOK, LiveOwned, Still
<1>3. Exclusive!Launch(t, w)
  <2>1. PhaseOf(status[t]) = "started"
    BY <1>1 DEF PhaseOf
  <2>2. \A u \in Tasks, v \in Workers : u \in live'[v] <=> IF u = t THEN v = w ELSE u \in live[v]
    BY <1>a, <1>1, <1>2 DEF Still
  <2>3. [u \in Tasks |-> {v \in Workers : u \in live'[v]}]
          = [[u \in Tasks |-> {v \in Workers : u \in live[v]}] EXCEPT ![t] = {w}]
    <3> SUFFICES ASSUME NEW u \in Tasks
                 PROVE  {v \in Workers : u \in live'[v]} = IF u = t THEN {w} ELSE {v \in Workers : u \in live[v]}
      OBVIOUS
    <3> QED
      BY <2>2
  <2> QED
    BY <1>1, <1>2, <2>1, <2>3, StillIsQuiet DEF Exclusive!Launch, PhaseOf
<1> QED
  BY <1>3 DEF Exclusive!Next

LEMMA ReapsReap ==
  ASSUME Typed, NEW w \in Workers, Reaps(w)
  PROVE  Exclusive!Next
<1>a. live \in [Workers -> SUBSET Tasks]
  BY DEF Typed, TypeOK
<1>1. PICK S \in SUBSET Tasks : live' = [live EXCEPT ![w] = @ \ S]
  BY DEF Reaps
<1>2. Exclusive!Reap(w, S)
  <2>1. \A u \in Tasks, v \in Workers : u \in live'[v] <=> u \in live[v] /\ ~(v = w /\ u \in S)
    BY <1>a, <1>1
  <2>2. [u \in Tasks |-> {v \in Workers : u \in live'[v]}]
          = [u \in Tasks |-> IF u \in S THEN {v \in Workers : u \in live[v]} \ {w}
                                        ELSE {v \in Workers : u \in live[v]}]
    <3> SUFFICES ASSUME NEW u \in Tasks
                 PROVE  {v \in Workers : u \in live'[v]}
                          = IF u \in S THEN {v \in Workers : u \in live[v]} \ {w} ELSE {v \in Workers : u \in live[v]}
      OBVIOUS
    <3> QED
      BY <2>1
  <2> QED
    BY <2>2 DEF Exclusive!Reap, Reaps, store
<1> QED
  BY <1>2 DEF Exclusive!Next

LEMMA ControlImplements ==
  ASSUME Typed, AllOrderly, ControlPlane
  PROVE  Exclusive!Next \/ UNCHANGED Exclusive!vars
<1>a. status \in [Tasks -> Statuses] /\ live' = live /\ Control
  BY DEF Typed, TypeOK, StoreTypeOK, ControlPlane
<1>1. CASE Submits
  <2>1. PICK t \in Tasks : status[t] = "absent" /\ status' = [status EXCEPT ![t] = "pending"]
    BY <1>1 DEF Submits, SubmitTask
  <2>2. "pending" \in Statuses
    BY DEF Statuses
  <2> QED
    BY <1>a, <2>1, <2>2, PhaseMoves
<1>2. CASE Refreshes
  <2>1. PICK t \in Tasks : status[t] \in Terminal /\ status' = [status EXCEPT ![t] = "pending"]
    BY <1>2 DEF Refreshes, ForceRefreshTask
  <2>2. "pending" \in Statuses
    BY DEF Statuses
  <2> QED
    BY <1>a, <2>1, <2>2, PhaseMoves
<1>3. CASE Cancels
  <2>1. PICK t \in Tasks : CancelTask(t)
    BY <1>3 DEF Cancels
  <2>2. CASE status' = status
    BY <1>a, <2>2, NothingMoves
  <2>3. CASE status[t] = "pending" /\ status' = [status EXCEPT ![t] = "failed"]
    <3>1. Still(t)
      BY <2>3 DEF AllOrderly, Orderly, LiveOK, LiveOwned, Still
    <3>2. "failed" \in Statuses /\ "failed" \in Terminal
      BY DEF Statuses, Terminal
    <3> QED
      BY <1>a, <2>3, <3>1, <3>2, PhaseMoves
  <2> QED
    BY <2>1, <2>2, <2>3 DEF CancelTask
<1>4. CASE FinishParent
  BY <1>a, <1>4, ParentWithdraws
<1>5. CASE CancelParent \/ LapseParent \/ QueueWaits
  <2>1. status' = status
    BY <1>5 DEF CancelParent, LapseParent, QueueWaits, QueueWaitRequeue
  <2> QED
    BY <1>a, <2>1, NothingMoves
<1> QED
  BY <1>a, <1>1, <1>2, <1>3, <1>4, <1>5 DEF Control

LEMMA WorkerImplements ==
  ASSUME Typed, TicketsOK, AllSafe, AllOrderly, ~SlowRedis, NEW w \in Workers, WorkerStep(w)
  PROVE  Exclusive!Next \/ UNCHANGED Exclusive!vars
<1>a. status \in [Tasks -> Statuses]
  BY DEF Typed, TypeOK, StoreTypeOK
<1>1. CASE LaunchChild(w)
  BY <1>1, LaunchLaunches
<1>2. CASE Reaps(w)
  BY <1>2, ReapsReap
<1>3. CASE UNCHANGED live
  <2>1. CASE status' = status
    BY <1>3, <2>1, NothingMoves
  <2>2. ASSUME NEW t \in Tasks, Starts(w, t)
        PROVE  Exclusive!Next \/ UNCHANGED Exclusive!vars
    <3>1. "processing" \in Statuses /\ status[t] = "pending" /\ status' = [status EXCEPT ![t] = "processing"]
      BY <2>2 DEF Statuses, Starts
    <3> QED
      BY <1>a, <1>3, <3>1, PhaseMoves
  <2>3. ASSUME NEW t \in Tasks, Drops(w, t), status' # status
        PROVE  Exclusive!Next \/ UNCHANGED Exclusive!vars
    <3>1. PICK s \in {"pending"} \cup Terminal : status' = [status EXCEPT ![t] = s]
      BY <2>3 DEF Drops
    <3>2. Claimed(t) /\ claim[t].worker = w /\ t \notin live[w]
      BY <2>3 DEF Drops
    <3>3. Still(t)
      BY <3>2 DEF AllOrderly, Orderly, LiveOK, LiveOwned, Still
    <3>4. status[t] \in {"pending", "processing"} /\ s \in Statuses
      BY <3>2 DEF AllSafe, Safe, Owned, Statuses
    <3>5. \/ s = status[t]
          \/ status[t] = "processing" /\ s = "pending"
          \/ status[t] \in {"pending", "processing"} /\ s \in Terminal
      BY <3>4
    <3> QED
      BY <1>a, <1>3, <3>1, <3>3, <3>4, <3>5, PhaseMoves
  <2> QED
    BY <2>1, <2>2, <2>3, WorkerScripted DEF Scripted, Takes, Freezes, Overwrites, AllOrderly
<1> QED
  BY <1>1, <1>2, <1>3, LiveMoves

LEMMA InitImplements == Init => Exclusive!Init
BY DEF Init, StoreInit, Exclusive!Init

\* When no terminal write comes after its claim is gone, the claim scripts, the
\* fences, the recovery of a dead worker's claims and the order of shutdown
\* (reap, then publish) keep the promise: a task is retried or gets its outcome
\* only when no CUDA child can still be executing it, and gets one outcome.
THEOREM ExecutionIsExclusive == ASSUME ~SlowRedis PROVE Spec => ImplementsExclusive
<1>1. Apart
  BY DEF Apart
<1>2. Typed /\ TicketsOK /\ AllSafe /\ AllOrderly /\ [Next]_vars => [Exclusive!Next]_(Exclusive!vars)
  <2> SUFFICES ASSUME Typed, TicketsOK, AllSafe, AllOrderly, [Next]_vars
               PROVE  Exclusive!Next \/ UNCHANGED Exclusive!vars
    OBVIOUS
  <2>1. CASE UNCHANGED vars
    BY <2>1, NothingMoves DEF vars, store
  <2> QED
    BY <2>1, ControlImplements, WorkerImplements DEF Next, WorkerStep
<1>3. Spec => []AllOrderly
  BY <1>1, OrderlyAlways
<1> QED
  BY <1>2, <1>3, InitImplements, TypedAlways, TicketsAlways, AllSafeAlways, PTL
     DEF Spec, ImplementsExclusive, Exclusive!Spec
==============================================================================
