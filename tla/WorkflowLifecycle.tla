-------------------------- MODULE WorkflowLifecycle --------------------------
(***************************************************************************)
(* The life of one workflow parent id (server/workflow_lifecycle.py): the  *)
(* requests that create, join or refresh it, the controller that runs a    *)
(* generation and submits its children, the lease and the deadline, the    *)
(* reconciliation that ends what its owner abandoned, cancellation, and    *)
(* the answers the waiting requests get.                                   *)
(*                                                                         *)
(* The Lua scripts are atomic; everything between two of them interleaves. *)
(* A child is reduced to what its parent can see; TaskClaims has the rest. *)
(***************************************************************************)
EXTENDS Naturals, FiniteSets

CONSTANTS
    Requests,   \* POST requests for this id, each made once
    Hashes,     \* request contents
    LastStage,  \* the stages of a workflow are 1..LastStage
    Deletable   \* stages whose child ids clients may DELETE on their own

Gens     == 1..Cardinality(Requests)
Stages   == 1..LastStage
Terminal == {"completed", "failed", "timeout"}

ASSUME LifecycleAssumption ==
    /\ IsFiniteSet(Requests)
    /\ LastStage \in Nat \ {0}
    /\ Deletable \subseteq Stages

VARIABLES
    rec,        \* the parent's task hash
    result,     \* the parent's result hash, gen 0 if there is none
    lease,      \* generation named by the workflow:<id> key, 0 if it expired
    active,     \* whether the id is in the workflows:active index
    tombstone,  \* whether cancelled:<id> exists
    gens,       \* generations accepted so far
    child,      \* status of each generation-scoped child
    fenced,     \* children with a tombstone of their own
    req,        \* each request: the HTTP handler that waits for an answer
    run,        \* the controller that a request started
    verdicts,   \* reconciliations that have decided and not yet committed
    log         \* history: content of each generation, outcomes committed

parentVars == <<rec, result, lease, active, gens, log>>
vars == <<parentVars, tombstone, child, fenced, req, run, verdicts>>

Records  == [status : {"absent", "active"} \cup Terminal,
             gen : Gens \cup {0}, hash : Hashes \cup {"none"}, late : BOOLEAN]
Results  == [gen : Gens \cup {0}, status : Terminal \cup {"none"}, hash : Hashes \cup {"none"}]
ChildStatuses == {"absent", "pending", "processing", "frozen", "completed", "failed"}
Handlers == [pc : {"idle", "checked", "accepted", "waiting", "reading", "answered", "conflict",
                   "lost"},
             hash : Hashes \cup {"none"}, force : BOOLEAN, owner : BOOLEAN, open : BOOLEAN,
             gen : Gens \cup {0}, out : Terminal \cup {"none"}]
Runs     == [pc : {"none", "stage", "wait", "finish"}, gen : Gens \cup {0},
             stage : 1..(LastStage + 1), out : Terminal \cup {"none"}]

TypeOK ==
    /\ rec \in Records /\ result \in Results
    /\ lease \in Gens \cup {0}
    /\ active \in BOOLEAN /\ tombstone \in BOOLEAN
    /\ gens \in Gens \cup {0}
    /\ child \in [Gens \X Stages -> ChildStatuses]
    /\ fenced \subseteq Gens \X Stages
    /\ req \in [Requests -> Handlers]
    /\ run \in [Requests -> Runs]
    /\ verdicts \subseteq Gens
    /\ log \in [Gens -> [hash : Hashes \cup {"none"}, outcomes : SUBSET Terminal]]

NoRecord == [status |-> "absent", gen |-> 0, hash |-> "none", late |-> FALSE]
NoResult == [gen |-> 0, status |-> "none", hash |-> "none"]

\* A handler or a controller that holds nothing.
Quit(pc)  == [pc |-> pc, hash |-> "none", force |-> FALSE, owner |-> FALSE, open |-> FALSE,
              gen |-> 0, out |-> "none"]
NoRun    == [pc |-> "none", gen |-> 0, stage |-> 1, out |-> "none"]

Init ==
    /\ rec = NoRecord /\ result = NoResult
    /\ lease = 0 /\ active = FALSE /\ tombstone = FALSE /\ gens = 0
    /\ child = [c \in Gens \X Stages |-> "absent"]
    /\ fenced = {} /\ verdicts = {}
    /\ req = [r \in Requests |-> Quit("idle")]
    /\ run = [r \in Requests |-> NoRun]
    /\ log = [g \in Gens |-> [hash |-> "none", outcomes |-> {}]]

-----------------------------------------------------------------------------
(* Conditions of the scripts.                                              *)

Active == rec.status = "active"

\* WORKFLOW_GUARD_LUA for generation g.
InForce(g) == ~tombstone /\ rec.gen = g /\ Active /\ lease = g /\ ~rec.late

Admits(g, s) == InForce(g) /\ <<g, s>> \notin fenced

-----------------------------------------------------------------------------
(* The terminal commit, _FINISH: the first one for a generation decides,   *)
(* and the tombstone, the deadline and the lease overrule the caller.      *)

\* Fault: a controller that was cancelled in between records its success.
Ruling_Uncancelled(g, out) == IF rec.late THEN "timeout" ELSE IF lease # g THEN "failed" ELSE out

Ruling(g, out) ==
    CASE rec.late                               -> "timeout"
      [] ~rec.late /\ tombstone                 -> "failed"
      [] ~rec.late /\ ~tombstone /\ lease # g   -> IF out = "completed" THEN "failed" ELSE out
      [] ~rec.late /\ ~tombstone /\ lease = g   -> out

\* Fault: the status is not compared, the last commit of a generation wins.
MayCommit_Again(g) == rec.gen = g

MayCommit(g) == rec.gen = g /\ Active

Commit(g, out) ==
    IF ~MayCommit(g)
    THEN UNCHANGED <<parentVars, child>>
    ELSE LET final == Ruling(g, out)
         IN  /\ rec' = [rec EXCEPT !.status = final, !.late = FALSE]
             /\ result' = [gen |-> g, status |-> final, hash |-> rec.hash]
             /\ lease' = 0
             /\ active' = FALSE
             /\ child' = [c \in Gens \X Stages |->
                            IF c[1] = g /\ child[c] = "pending" THEN "failed" ELSE child[c]]
             /\ log' = [log EXCEPT ![g].outcomes = @ \cup {final}]
             /\ UNCHANGED gens

-----------------------------------------------------------------------------
(* A request: _execute_workflow in the HTTP handler, accept() and wait().  *)

Handle(r, h) == req' = [req EXCEPT ![r] = h]

\* The reads before acceptance: the tombstone, and a cached result.
Ask(r) ==
    /\ req[r].pc = "idle"
    /\ \E h \in Hashes, f \in BOOLEAN :
         LET asked == [req[r] EXCEPT !.hash = h, !.force = f]
             cached == ~f /\ result.gen # 0 /\ result.hash = h
         IN  Handle(r, CASE tombstone             -> Quit("conflict")
                         [] ~tombstone /\ cached  -> [asked EXCEPT !.pc = "answered", !.force = FALSE,
                                                                  !.gen = result.gen, !.out = result.status]
                         [] ~tombstone /\ ~cached -> [asked EXCEPT !.pc = "checked"])
    /\ UNCHANGED <<parentVars, tombstone, child, fenced, run, verdicts>>

\* Fault: a refresh replaces a generation that is still active.
Creates_Active(r) == rec.status = "absent" \/ req[r].force

\* _ACCEPT creates a generation when there is no record, or over a terminal
\* one by force; a request with the same content joins what it finds.
Joins(r)   == /\ rec.status # "absent" /\ rec.hash = req[r].hash
              /\ Active \/ (~req[r].force /\ result.gen # 0)
Creates(r) == \/ rec.status = "absent" /\ lease = 0
              \/ rec.status \in Terminal /\ req[r].force

Accept(r) ==
    /\ req[r].pc = "checked"
    /\ ~tombstone /\ Creates(r)
    /\ gens' = gens + 1
    /\ rec' = [status |-> "active", gen |-> gens', hash |-> req[r].hash, late |-> FALSE]
    /\ result' = NoResult
    /\ lease' = gens'
    /\ active' = TRUE
    /\ log' = [log EXCEPT ![gens'].hash = req[r].hash]
    /\ Handle(r, [req[r] EXCEPT !.pc = "accepted", !.owner = TRUE, !.force = FALSE])
    /\ UNCHANGED <<tombstone, child, fenced, run, verdicts>>

Join(r) ==
    /\ req[r].pc = "checked"
    /\ ~tombstone /\ Joins(r)
    /\ Handle(r, [req[r] EXCEPT !.pc = "accepted", !.force = FALSE])
    /\ UNCHANGED <<parentVars, tombstone, child, fenced, run, verdicts>>

Conflict(r) ==
    /\ req[r].pc = "checked"
    /\ tombstone \/ ~(Creates(r) \/ Joins(r))
    /\ Handle(r, Quit("conflict"))
    /\ UNCHANGED <<parentVars, tombstone, child, fenced, run, verdicts>>

\* accept() reads the record back; the owner starts a controller for the
\* generation it finds there.
ReadBack(r) ==
    /\ req[r].pc = "accepted"
    /\ IF rec.gen = 0
       THEN Handle(r, Quit("conflict")) /\ UNCHANGED run
       ELSE /\ Handle(r, [req[r] EXCEPT !.pc = "waiting", !.gen = rec.gen, !.owner = FALSE])
            /\ run' = IF req[r].owner
                      THEN [run EXCEPT ![r].pc = "stage", ![r].gen = rec.gen] ELSE run
    /\ UNCHANGED <<parentVars, tombstone, child, fenced, verdicts>>

\* wait(): the record after reconciliation ...
WaitRecord(r) ==
    /\ req[r].pc = "waiting"
    /\ Handle(r, IF rec.gen # req[r].gen
                 THEN Quit("conflict")
                 ELSE [req[r] EXCEPT !.pc = "reading", !.open = Active])
    /\ UNCHANGED <<parentVars, tombstone, child, fenced, run, verdicts>>

\* Fault: any result found under the id is taken.
MyResult_Any(r) == result.gen # 0

\* ... then the result, which must be of the generation waited for.
MyResult(r) == result.gen = req[r].gen

\* Fault: a waiter keeps polling for a result that retention has removed.
Unavailable_Retained(r) == result.gen \notin {0, req[r].gen}

\* Another generation's result, or none beside a terminal record.
Unavailable(r) == ~MyResult(r) /\ (result.gen # 0 \/ ~req[r].open)

WaitResult(r) ==
    /\ req[r].pc = "reading"
    /\ Handle(r, CASE MyResult(r)    -> [req[r] EXCEPT !.pc = "answered", !.open = FALSE,
                                                       !.out = result.status]
                   [] Unavailable(r) -> Quit("conflict")
                   [] OTHER          -> [req[r] EXCEPT !.pc = "waiting", !.open = FALSE])
    /\ UNCHANGED <<parentVars, tombstone, child, fenced, run, verdicts>>

-----------------------------------------------------------------------------
(* A controller: run(), and the scheduler calls of the workflow.           *)

Control(r, c) == run' = [run EXCEPT ![r] = c]

Ends(r, out) == [run[r] EXCEPT !.pc = "finish", !.out = out]

\* A stage after the first may be answered from a cache, or not be needed:
\* nothing is submitted.
SkipStage(r) ==
    /\ run[r].pc = "stage" /\ run[r].stage \in Stages \ {1}
    /\ Control(r, [run[r] EXCEPT !.stage = @ + 1])
    /\ UNCHANGED <<parentVars, tombstone, child, fenced, req, verdicts>>

\* Fault: submission trusts the check it made before the script.
SubmitAdmits_Stale(g, s) == <<g, s>> \notin fenced

SubmitAdmits(g, s) == Admits(g, s)

\* submit(): the script creates the child, or finds the one that is there.
Submit(r) ==
    LET g == run[r].gen
        s == run[r].stage
    IN  /\ run[r].pc = "stage" /\ s \in Stages
        /\ SubmitAdmits(g, s)
        /\ child' = IF child[<<g, s>>] = "absent" THEN [child EXCEPT ![<<g, s>>] = "pending"] ELSE child
        /\ Control(r, [run[r] EXCEPT !.pc = "wait"])
        /\ UNCHANGED <<parentVars, tombstone, fenced, req, verdicts>>

\* wait_unless_cancelled(): the child's result.  A reference stage that failed
\* leaves the result of the kernel stage.
ChildResult(r) ==
    LET outcome == child[<<run[r].gen, run[r].stage>>]
    IN  /\ run[r].pc = "wait"
        /\ \/ outcome = "completed" /\ Control(r, [run[r] EXCEPT !.pc = "stage", !.stage = @ + 1])
           \/ outcome = "failed" /\ Control(r, Ends(r, "failed"))
           \/ outcome = "failed" /\ run[r].stage > 1 /\ Control(r, Ends(r, "completed"))
        /\ UNCHANGED <<parentVars, tombstone, child, fenced, req, verdicts>>

\* ... or no result yet, and is_task_cancelled() of the parent id: the
\* controller cancels this child of its own and gives up.
ParentCancelled == tombstone \/ (rec.gen # 0 /\ ~InForce(rec.gen))

Withdraw(r) ==
    LET c == <<run[r].gen, run[r].stage>>
    IN  /\ run[r].pc = "wait"
        /\ child[c] \notin {"completed", "failed"}
        /\ ParentCancelled
        /\ fenced' = fenced \cup {c}
        /\ child' = IF child[c] = "pending" THEN [child EXCEPT ![c] = "failed"] ELSE child
        /\ Control(r, Ends(r, "failed"))
        /\ UNCHANGED <<parentVars, tombstone, req, verdicts>>

\* handle_request returns the evaluation of the last stage.
Evaluated(r) ==
    /\ run[r].pc = "stage" /\ run[r].stage = LastStage + 1
    /\ Control(r, Ends(r, "completed"))
    /\ UNCHANGED <<parentVars, tombstone, child, fenced, req, verdicts>>

\* A refused submission, the heartbeat, an error of the workflow or the
\* shutdown of the server ends the controller early, as does its own deadline.
Interrupted(r) ==
    /\ run[r].pc \in {"stage", "wait"}
    /\ \E out \in {"failed", "timeout"} : Control(r, Ends(r, out))
    /\ UNCHANGED <<parentVars, tombstone, child, fenced, req, verdicts>>

\* The terminal commit of the owner, or its failure to reach Redis in time.
Finish(r) ==
    /\ run[r].pc = "finish"
    /\ Commit(run[r].gen, run[r].out)
    /\ Control(r, NoRun)
    /\ UNCHANGED <<tombstone, fenced, req, verdicts>>

FinishFails(r) ==
    /\ run[r].pc = "finish"
    /\ Control(r, NoRun)
    /\ UNCHANGED <<parentVars, tombstone, child, fenced, req, verdicts>>

\* The API server of a request dies, and with it the handler and controller.
Handling(r)    == req[r].pc \in {"checked", "accepted", "waiting", "reading"}
Controlling(r) == run[r].pc \in {"stage", "wait", "finish"}

Crash(r) ==
    /\ Handling(r) \/ Controlling(r)
    /\ Handle(r, IF Handling(r) THEN Quit("lost") ELSE req[r])
    /\ Control(r, IF Controlling(r) THEN NoRun ELSE run[r])
    /\ UNCHANGED <<parentVars, tombstone, child, fenced, verdicts>>

-----------------------------------------------------------------------------
(* Time, reconciliation, cancellation and retention.                       *)

LeaseExpires ==
    /\ lease # 0
    /\ lease' = 0
    /\ UNCHANGED <<rec, result, active, gens, log, tombstone, child, fenced, req, run, verdicts>>

DeadlinePasses ==
    /\ Active /\ ~rec.late
    /\ rec' = [rec EXCEPT !.late = TRUE]
    /\ UNCHANGED <<result, lease, active, gens, log, tombstone, child, fenced, req, run, verdicts>>

\* reconcile(): reasons to end an active generation.  A quarantined worker
\* counts like a frozen child.

\* Fault: reconciliation leaves the deadline to the controller.
Overdue_Local == FALSE

Overdue == rec.late
Broken  == \/ lease # rec.gen \/ tombstone
           \/ \E s \in Stages : <<rec.gen, s>> \in fenced \/ child[<<rec.gen, s>>] = "frozen"

\* The watchdog, a status query, a waiter or a controller reads and decides ...
Look ==
    /\ Active /\ active
    /\ Overdue \/ Broken
    /\ verdicts' = verdicts \cup {rec.gen}
    /\ UNCHANGED <<parentVars, tombstone, child, fenced, req, run>>

\* ... and commits what it decided, if nobody else has.
Act(g) ==
    /\ g \in verdicts
    /\ Commit(g, "failed")
    /\ verdicts' = verdicts \ {g}
    /\ UNCHANGED <<tombstone, fenced, req, run>>

\* DELETE of the id: CANCEL_TASK_LUA fences the id and its planned children.
\* The commit that cancel_task makes next is a verdict like any other.
Cancel ==
    /\ ~tombstone
    /\ tombstone' = TRUE
    /\ fenced' = fenced \cup (IF rec.gen = 0 THEN {} ELSE {rec.gen} \X Stages)
    /\ verdicts' = verdicts \cup ({rec.gen} \ {0})
    /\ UNCHANGED <<parentVars, child, req, run>>

\* DELETE of one child: a pending child is over at once.
CancelChild(g, s) ==
    /\ s \in Deletable
    /\ <<g, s>> \notin fenced
    /\ fenced' = fenced \cup {<<g, s>>}
    /\ child' = IF child[<<g, s>>] = "pending" THEN [child EXCEPT ![<<g, s>>] = "failed"] ELSE child
    /\ UNCHANGED <<parentVars, tombstone, req, run, verdicts>>

\* TERMINAL_TASK_TTL_SEC and TERMINAL_RESULT_TTL_SEC, which differ.
Expire ==
    /\ rec.status \in Terminal
    /\ \/ rec' = NoRecord /\ UNCHANGED result
       \/ result.gen # 0 /\ result' = NoResult /\ UNCHANGED rec
    /\ UNCHANGED <<lease, active, gens, log, tombstone, child, fenced, req, run, verdicts>>

\* What a worker does with a child, as its parent sees it.
WorkChild(g, s) ==
    LET becomes(from, to) == child[<<g, s>>] = from /\ child' = [child EXCEPT ![<<g, s>>] = to]
    IN  /\ \/ becomes("pending", "processing") /\ Admits(g, s)
           \/ \E to \in {"completed", "failed", "frozen"} : becomes("processing", to)
           \/ becomes("frozen", "failed")
           \/ becomes("frozen", "pending") /\ Admits(g, s)
        /\ UNCHANGED <<parentVars, tombstone, fenced, req, run, verdicts>>

Next ==
    \/ \E r \in Requests :
         Ask(r) \/ Accept(r) \/ Join(r) \/ Conflict(r) \/ ReadBack(r) \/ WaitRecord(r) \/ WaitResult(r)
           \/ SkipStage(r) \/ Submit(r) \/ ChildResult(r) \/ Withdraw(r) \/ Evaluated(r) \/ Interrupted(r)
           \/ Finish(r) \/ FinishFails(r) \/ Crash(r)
    \/ LeaseExpires \/ DeadlinePasses \/ Look \/ Cancel \/ Expire
    \/ \E g \in Gens : Act(g) \/ \E s \in Stages : CancelChild(g, s) \/ WorkChild(g, s)

Spec == Init /\ [][Next]_vars

-----------------------------------------------------------------------------
(* Safety.                                                                 *)

\* A generation gets one outcome, the first commit's, whoever else was about
\* to decide: the record, the result and the history agree on it.
FirstCommitWins ==
    /\ \A g \in Gens : Cardinality(log[g].outcomes) <= 1
    /\ rec.status \in Terminal => log[rec.gen].outcomes = {rec.status}
    /\ result.gen # 0 => log[result.gen].outcomes = {result.status}

\* The watchdog finds every generation that still owes an outcome, and no
\* result of an earlier generation stands beside it.
ActiveIsFollowed ==
    /\ Active <=> active
    /\ Active => log[rec.gen].outcomes = {} /\ result = NoResult
    /\ \A g \in 1..gens : log[g].outcomes = {} => Active /\ rec.gen = g

\* Submission, terminal commits and releases leave no child waiting to start
\* for a generation that is over or was replaced.
PendingChildHasParent ==
    \A g \in Gens, s \in Stages : child[<<g, s>>] = "pending" => Active /\ rec.gen = g

\* An answer is the outcome of the generation the request waited for.
AnswerIsTheOutcome ==
    \A r \in Requests : req[r].pc = "answered" => req[r].out \in log[req[r].gen].outcomes

\* An answer is the outcome of a generation with the request's own content.
AnswerMatchesRequest ==
    \A r \in Requests : req[r].pc = "answered" => log[req[r].gen].hash = req[r].hash

\* Success is never recorded after the id was cancelled, after the deadline,
\* or by an owner that let its lease lapse.
NoSuccessAfterFence ==
    [][Active /\ rec'.status = "completed" => ~tombstone /\ ~rec.late /\ lease = rec.gen]_vars

-----------------------------------------------------------------------------
(* Progress.                                                               *)

\* Time passes, some server's watchdog keeps looking, and a handler whose
\* server lives keeps polling.
Fairness ==
    /\ WF_vars(DeadlinePasses) /\ WF_vars(Look)
    /\ \A g \in Gens : WF_vars(Act(g))
    /\ \A r \in Requests : WF_vars(ReadBack(r) \/ WaitRecord(r) \/ WaitResult(r))

FairSpec == Spec /\ Fairness

\* Every accepted generation gets an outcome, whatever became of its owner.
EveryParentEnds == \A g \in Gens : (Active /\ rec.gen = g) ~> ~(Active /\ rec.gen = g)

\* Every waiting request is answered or refused.
EveryWaitEnds == \A r \in Requests :
    req[r].pc = "accepted" ~> req[r].pc \in {"answered", "conflict", "lost"}
=============================================================================
