------------------------------ MODULE TaskStore ------------------------------
(***************************************************************************)
(* The task records of KernelGYM as Redis keeps them, and the Lua scripts  *)
(* of server/task_manager.py and server/workflow_lifecycle.py that change  *)
(* them.  Redis runs a script without interruption, so every operator      *)
(* below that primes the store is one atomic step.  What runs around the   *)
(* scripts (the GPU worker process, its crashes and its restarts) is in    *)
(* TaskClaims, which EXTENDS this module.                                  *)
(*                                                                         *)
(* A Redis list holds an id at most once (every LPUSH of an id follows an  *)
(* LREM of it in the same script), and no property below depends on the    *)
(* order in which ids are served, so a queue is the set of its ids.        *)
(***************************************************************************)
EXTENDS Naturals, FiniteSets

CONSTANTS
    Tasks,      \* task ids with GPU work
    Workers,    \* stable GPU worker ids, one per physical GPU
    Children,   \* the tasks that one workflow generation may submit
    Gpu,        \* the shared queue resource:gpu
    None        \* the empty string of a Redis field

ASSUME StoreAssumption ==
    /\ Children \subseteq Tasks
    /\ Gpu \notin Workers
    /\ None \notin Workers \cup Tasks \cup {Gpu}

VARIABLES
    status,     \* status field of each task hash, "absent" without a hash
    assigned,   \* assigned_worker field: the worker of a direct task, or None
    claim,      \* the claim_* fields of each task hash
    inflight,   \* entries of the inflight:<worker> lists
    queue,      \* ids waiting in resource:gpu and in each worker:<id>
    tokens,     \* claim tokens drawn so far
    tombstone,  \* ids with a durable cancelled:<id> key and a cancel marker
    parent      \* the workflow parent of Children

store == <<status, assigned, claim, inflight, queue, tokens, tombstone, parent>>

Queues   == Workers \cup {Gpu}
Terminal == {"completed", "failed"}
Statuses == {"absent", "pending", "processing"} \cup Terminal
Fences   == {"none", "execution_fenced", "frozen"}

\* The parent record: "open" while the generation may act, "lapsed" once its
\* lease, deadline or tombstone forbids new work but no terminal commit has
\* run, "ended" after the generation-fenced terminal commit.
ParentStates == {"open", "lapsed", "ended"}

\* token 0 is the empty token; the n-th uuid drawn is token n.
Claims == [token  : Nat,
           worker : Workers \cup {None},
           inst   : Nat,
           src    : Queues \cup {None},
           fence  : Fences]

Cleared == [token |-> 0, worker |-> None, inst |-> 0, src |-> None, fence |-> "none"]

StoreTypeOK ==
    /\ status \in [Tasks -> Statuses]
    /\ assigned \in [Tasks -> Workers \cup {None}]
    /\ claim \in [Tasks -> Claims]
    /\ inflight \subseteq Workers \X Nat \X Tasks
    /\ queue \in [Queues -> SUBSET Tasks]
    /\ tokens \in Nat
    /\ tombstone \subseteq Tasks
    /\ parent \in ParentStates

StoreInit ==
    /\ status = [t \in Tasks |-> "absent"]
    /\ assigned = [t \in Tasks |-> None]
    /\ claim = [t \in Tasks |-> Cleared]
    /\ inflight = {}
    /\ queue = [q \in Queues |-> {}]
    /\ tokens = 0
    /\ tombstone = {}
    /\ parent = "open"

-----------------------------------------------------------------------------
(* Conditions the scripts test.                                            *)

Claimed(t) == claim[t].token # 0

\* WORKFLOW_GUARD_LUA: no tombstone of the task or of its parent, and, for a
\* child, a parent of its generation that is active, leased and in time.
Allowed(t) == t \notin tombstone /\ (t \in Children => parent = "open")

\* The EXISTS over cancel markers and tombstones that a worker makes; the
\* parent's marker is published by the parent's terminal commit.
CancelMarked(t) == t \in tombstone \/ (t \in Children /\ parent = "ended")

Entry(t) == <<claim[t].worker, claim[t].token, t>>

\* Ids a claim script skips: not pending, already claimed, or not allowed.
Claimable(t) == status[t] = "pending" /\ ~Claimed(t) /\ Allowed(t)

-----------------------------------------------------------------------------
(* Pieces the scripts share.                                               *)

ClearClaim(t) ==
    /\ claim' = [claim EXCEPT ![t] = Cleared]
    /\ inflight' = inflight \ {Entry(t)}

\* LREM from resource:gpu and from the assigned worker's queue.
Unqueued(t) ==
    [q \in Queues |-> IF q \in {Gpu, assigned[t]} THEN queue[q] \ {t} ELSE queue[q]]

Home(q) == IF q \in Workers THEN q ELSE None

-----------------------------------------------------------------------------
(* Submission.                                                             *)

\* _SUBMIT_TASK_IF_ABSENT_LUA: the hash and its queue entry appear together.
SubmitTask(t, q) ==
    /\ status[t] = "absent"
    /\ Allowed(t)
    /\ status' = [status EXCEPT ![t] = "pending"]
    /\ assigned' = [assigned EXCEPT ![t] = Home(q)]
    /\ queue' = [queue EXCEPT ![q] = @ \cup {t}]
    /\ UNCHANGED <<claim, inflight, tokens, tombstone, parent>>

\* _FORCE_REFRESH_TASK_LUA: replace a terminal, unclaimed record.  Children
\* carry generation-scoped ids and never ask for a refresh.
ForceRefreshTask(t, q) ==
    /\ t \notin Children
    /\ status[t] \in Terminal
    /\ ~Claimed(t)
    /\ Allowed(t)
    /\ status' = [status EXCEPT ![t] = "pending"]
    /\ assigned' = [assigned EXCEPT ![t] = Home(q)]
    /\ queue' = [Unqueued(t) EXCEPT ![q] = @ \cup {t}]
    /\ UNCHANGED <<claim, inflight, tokens, tombstone, parent>>

-----------------------------------------------------------------------------
(* The claim scripts.  w is the calling worker, n its process instance and *)
(* k the token its process remembers for t.                                *)

\* _CLAIM_GPU_TASK_LUA: pop debris until an id can be claimed, and claim it.
ClaimTask(w, n, q, t) ==
    /\ t \in queue[q]
    /\ Claimable(t)
    /\ \E debris \in SUBSET {u \in queue[q] : ~Claimable(u)} :
         queue' = [queue EXCEPT ![q] = @ \ (debris \cup {t})]
    /\ tokens' = tokens + 1
    /\ claim' = [claim EXCEPT ![t] = [token |-> tokens', worker |-> w, inst |-> n,
                                      src |-> q, fence |-> "none"]]
    /\ inflight' = inflight \cup {<<w, tokens', t>>}
    /\ UNCHANGED <<status, assigned, tombstone, parent>>

\* The same script when nothing in the list can be claimed: all of it goes.
DiscardQueue(q) ==
    /\ \A t \in queue[q] : ~Claimable(t)
    /\ queue' = [queue EXCEPT ![q] = {}]
    /\ UNCHANGED <<status, assigned, claim, inflight, tokens, tombstone, parent>>

\* _ACK_CLAIM_LUA without release authority.
AckClaim(t, k) ==
    /\ IF claim[t].token = k /\ claim[t].fence = "none"
       THEN ClearClaim(t)
       ELSE UNCHANGED <<claim, inflight>>
    /\ UNCHANGED <<status, assigned, queue, tokens, tombstone, parent>>

\* Fault: the gate looks at the cancel markers and not at the parent.
Startable_Ungated(t, k) == claim[t].token = k /\ status[t] = "pending" /\ ~CancelMarked(t)

\* _MARK_CLAIM_PROCESSING_LUA: start the attempt and fence its recovery.
Startable(t, k) == claim[t].token = k /\ status[t] = "pending" /\ Allowed(t) /\ ~CancelMarked(t)

MarkProcessing(t, k) ==
    /\ Startable(t, k)
    /\ status' = [status EXCEPT ![t] = "processing"]
    /\ claim' = [claim EXCEPT ![t].fence = "execution_fenced"]
    /\ UNCHANGED <<assigned, inflight, queue, tokens, tombstone, parent>>

\* The same script when it refuses: a claim it still owns is dropped.
RefuseProcessing(t, k) ==
    /\ ~Startable(t, k)
    /\ IF claim[t].token = k THEN ClearClaim(t) ELSE UNCHANGED <<claim, inflight>>
    /\ UNCHANGED <<status, assigned, queue, tokens, tombstone, parent>>

\* Fault: the claim is dropped and the id is not pushed back.
ReturnClaim_Unqueued(t) ==
    /\ ClearClaim(t)
    /\ UNCHANGED <<status, assigned, queue, tokens, tombstone, parent>>

\* _RETURN_CLAIM_LUA, when the token still matches.
ReturnClaim(t) ==
    /\ queue' = [queue EXCEPT ![claim[t].src] = IF Allowed(t) THEN @ \cup {t} ELSE @ \ {t}]
    /\ ClearClaim(t)
    /\ UNCHANGED <<status, assigned, tokens, tombstone, parent>>

\* _CONDITIONAL_REQUEUE_LUA.  release is the set of fences the caller has the
\* authority to lift; restore says whether the source queue is kept.
Requeueable(t, k, release) ==
    k # 0 /\ claim[t].token = k /\ claim[t].fence \in release \cup {"none"}

\* Fault: the worker's assignment is lost while its direct queue is kept.
RequeueTask_Unassigned(t, k, release, restore) ==
    LET q == IF restore THEN claim[t].src ELSE Gpu
    IN  /\ IF Requeueable(t, k, release) /\ Allowed(t) /\ ~CancelMarked(t)
           THEN /\ ClearClaim(t)
                /\ status' = [status EXCEPT ![t] = "pending"]
                /\ assigned' = [assigned EXCEPT ![t] = None]
                /\ queue' = [queue EXCEPT ![q] = @ \cup {t}]
           ELSE UNCHANGED <<status, assigned, claim, inflight, queue>>
        /\ UNCHANGED <<tokens, tombstone, parent>>

RequeueTask(t, k, release, restore) ==
    LET q == IF restore THEN claim[t].src ELSE Gpu
    IN  /\ IF ~Requeueable(t, k, release)
           THEN UNCHANGED <<status, assigned, claim, inflight, queue>>
           ELSE /\ ClearClaim(t)
                /\ IF Allowed(t) /\ ~CancelMarked(t)
                   THEN /\ status' = [status EXCEPT ![t] = "pending"]
                        /\ assigned' = [assigned EXCEPT ![t] = IF restore THEN @ ELSE None]
                        /\ queue' = [queue EXCEPT ![q] = @ \cup {t}]
                   ELSE UNCHANGED <<status, assigned, queue>>
        /\ UNCHANGED <<tokens, tombstone, parent>>

\* Fault: the frozen entry is taken off the inflight list.
FreezeClaim_Unlisted(t, k) ==
    /\ k # 0
    /\ claim' = IF claim[t].token = k THEN [claim EXCEPT ![t].fence = "frozen"] ELSE claim
    /\ inflight' = inflight \ {Entry(t)}
    /\ UNCHANGED <<status, assigned, queue, tokens, tombstone, parent>>

\* _FREEZE_CLAIM_RECOVERY_LUA.
FreezeClaim(t, k) ==
    /\ k # 0
    /\ claim' = IF claim[t].token = k THEN [claim EXCEPT ![t].fence = "frozen"] ELSE claim
    /\ UNCHANGED <<status, assigned, inflight, queue, tokens, tombstone, parent>>

\* _finalize_task_records with a remembered token: _FINALIZE_CLAIM_LUA.
MayFinalize(t, k, containment) ==
    k # 0 /\ claim[t].token = k /\ (claim[t].fence = "frozen" => containment)

\* Fault: the outcome is published and the claim is not released.
FinalizeTask_Unreleased(t, outcome) ==
    /\ status' = [status EXCEPT ![t] = outcome]
    /\ UNCHANGED <<assigned, claim, inflight, queue, tokens, tombstone, parent>>

FinalizeTask(t, outcome) ==
    /\ status' = [status EXCEPT ![t] = outcome]
    /\ ClearClaim(t)
    /\ UNCHANGED <<assigned, queue, tokens, tombstone, parent>>

\* Its pipeline for a caller without a token, after a read that found the task
\* unclaimed: the hash is overwritten, the inflight list is not touched.
FinalizeBlind(t, outcome) ==
    /\ status' = [status EXCEPT ![t] = outcome]
    /\ claim' = [claim EXCEPT ![t] = Cleared]
    /\ UNCHANGED <<assigned, inflight, queue, tokens, tombstone, parent>>

-----------------------------------------------------------------------------
(* The control plane.                                                      *)

\* CANCEL_TASK_LUA for a task or child id: persist the fence, unqueue the id,
\* and close a pending attempt that has not crossed the execution gate.
CancelTask(t) ==
    LET closes == status[t] = "pending" /\ claim[t].fence = "none"
    IN  /\ tombstone' = tombstone \cup {t}
        /\ IF status[t] = "absent" THEN UNCHANGED queue ELSE queue' = Unqueued(t)
        /\ IF closes
           THEN status' = [status EXCEPT ![t] = "failed"] /\ ClearClaim(t)
           ELSE UNCHANGED <<status, claim, inflight>>
        /\ UNCHANGED <<assigned, tokens, parent>>

\* CANCEL_TASK_LUA for the parent id: tombstones for every planned child.  The
\* children's own records wait for the parent's terminal commit.
CancelParent ==
    /\ parent' = IF parent = "open" THEN "lapsed" ELSE parent
    /\ tombstone' = tombstone \cup Children
    /\ UNCHANGED <<status, assigned, claim, inflight, queue, tokens>>

\* The parent's lease or deadline runs out in Redis.
LapseParent ==
    /\ parent = "open"
    /\ parent' = "lapsed"
    /\ UNCHANGED <<status, assigned, claim, inflight, queue, tokens, tombstone>>

\* _FINISH: the parent's terminal commit unqueues every child and closes the
\* children that have not crossed the execution gate.
FinishParent ==
    LET closed == {t \in Children : status[t] = "pending" /\ claim[t].fence = "none"}
        known  == {t \in Children : status[t] # "absent"}
    IN  /\ parent # "ended"
        /\ parent' = "ended"
        /\ status' = [t \in Tasks |-> IF t \in closed THEN "failed" ELSE status[t]]
        /\ claim' = [t \in Tasks |-> IF t \in closed THEN Cleared ELSE claim[t]]
        /\ inflight' = inflight \ {Entry(t) : t \in closed}
        /\ queue' = [q \in Queues |-> {t \in queue[q] : ~(t \in known /\ q \in {Gpu, assigned[t]})}]
        /\ UNCHANGED <<assigned, tokens, tombstone>>

\* _QUEUE_WAIT_REQUEUE_LUA, operation "requeue": a direct task that waited too
\* long for worker w moves behind the shared queue.  The stale copy that the
\* other operation removes does not arise: a task waits in one queue only.
QueueWaitRequeue(t, w) ==
    /\ t \in queue[w]
    /\ status[t] = "pending"
    /\ ~Claimed(t)
    /\ Allowed(t) /\ ~CancelMarked(t)
    /\ assigned[t] \in {w, None}
    /\ assigned' = [assigned EXCEPT ![t] = None]
    /\ queue' = [queue EXCEPT ![w] = @ \ {t}, ![Gpu] = @ \cup {t}]
    /\ UNCHANGED <<status, claim, inflight, tokens, tombstone, parent>>
=============================================================================
