-------------------------------- MODULE CudaTask --------------------------------
(***************************************************************************)
(* One CUDA child and its handle: the start-up handshake, the task and     *)
(* result channels, the evaluation stages of a task with the asynchronous  *)
(* faults of its kernels, the commit barrier and the grading of errors.    *)
(* A text is reduced to the class its markers give it, a fault of the CUDA *)
(* context to the class of the text that every synchronize raises with it. *)
(***************************************************************************)
EXTENDS Naturals, Sequences

CONSTANTS
    Limits,    \* values of max_tasks_per_worker
    Trials,    \* correctness trials of a task
    MinPasses, \* budget_min_pass_trials
    MaxGiven   \* bound on the tasks given to the handle and its successors

ASSUME CudaAssumption ==
    /\ Limits \subseteq Nat \ {0}
    /\ Trials \in Nat /\ MinPasses \in Nat \ {0} /\ MaxGiven \in Nat

VARIABLES
    lim,     \* max_tasks_per_worker
    par,     \* PersistentWorker and its execute_task
    child,   \* _persistent_worker_loop and the task in it
    ctx,     \* the child's CUDA context
    inq,     \* task_queue: the number of a task, or Ack
    pipe,    \* the result channel
    out      \* what execute_task last handed to the pool

vars == <<lim, par, child, ctx, inq, pipe, out>>

Severity == {"none", "context", "device"}

\* "benign": out of memory, a compiler's message, a profiler drop-out, beside the word CUDA.
Text == {"plain", "benign", "context", "device"}

Ack == 0

NoTrials == [run |-> 0, passed |-> 0, skipped |-> 0, mismatch |-> FALSE, decoy |-> FALSE]

NewChild == [pc |-> "boot", kind |-> "none", stage |-> "none", trial |-> NoTrials, right |-> FALSE, count |-> 0,
             task |-> 0, crossed |-> FALSE, issues |-> FALSE, dry |-> FALSE, text |-> "plain", final |-> FALSE]

NewHandle == [pc |-> "boot", attested |-> FALSE, count |-> 0, task |-> 0]

NoContext == [open |-> FALSE, work |-> FALSE, fault |-> "none", by |-> "none"]

NoOutcome == [task |-> 0, sev |-> "none", text |-> "plain", final |-> FALSE]

Init ==
    /\ lim \in Limits
    /\ par = NewHandle
    /\ child = NewChild
    /\ ctx = NoContext
    /\ inq = <<>>
    /\ pipe = <<>>
    /\ out = NoOutcome

Message(kind) ==
    [kind |-> kind, task |-> child.task, exiting |-> FALSE, sev |-> "none", text |-> "plain", final |-> FALSE]

Sends(m) == pipe' = Append(pipe, m)

\* _ParentJSONResultChannel.get
Reads == pipe # <<>> /\ pipe' = Tail(pipe)

Becomes(pc) == child' = [child EXCEPT !.pc = pc]

-----------------------------------------------------------------------------
(* Grading an error.                                                       *)

\* _classify_cuda_fault
Class(text, final) ==
    IF text = "device" THEN "device"
    ELSE IF final \/ text = "context" THEN "context" ELSE "none"

Strongest(child_, parent) == IF "device" \in {child_, parent} THEN "device"
                             ELSE IF "context" \in {child_, parent} THEN "context" ELSE "none"

-----------------------------------------------------------------------------
(* Start-up.                                                               *)

\* The child enters its process group, or cannot.
Contained ==
    /\ child.pc = "boot"
    /\ \/ Sends(Message("contained")) /\ Becomes("unacked")
       \/ Sends(Message("init_failed")) /\ Becomes("gone")
    /\ UNCHANGED <<lim, par, ctx, inq, out>>

\* The constructor reads CONTAINED and the kernel's identity of the child; they agree or not.
Attest ==
    /\ par.pc = "boot"
    /\ Reads
    /\ \/ /\ Head(pipe).kind = "contained"
          /\ child.pc # "gone"
          /\ par' = [par EXCEPT !.pc = "ready", !.attested = TRUE]
          /\ inq' = Append(inq, Ack)
       \/ /\ par' = [par EXCEPT !.pc = "dead"]
          /\ UNCHANGED inq
    /\ UNCHANGED <<lim, child, ctx, out>>

\* With the ACK the child opens CUDA and reports READY, or fails half-way and waits.
OpenContext ==
    /\ child.pc = "unacked"
    /\ inq # <<>>
    /\ inq' = Tail(inq)
    /\ \/ ctx' = [ctx EXCEPT !.open = TRUE] /\ Becomes("get") /\ Sends(Message("ready"))
       \/ /\ \E open \in BOOLEAN : ctx' = [ctx EXCEPT !.open = open]
          /\ Becomes("wait")
          /\ Sends(Message("init_failed"))
    /\ UNCHANGED <<lim, par, out>>

\* No ACK in time: the child leaves without having touched CUDA.
AckTimeout ==
    /\ child.pc = "unacked"
    /\ inq = <<>>
    /\ Sends(Message("init_failed"))
    /\ Becomes("gone")
    /\ UNCHANGED <<lim, par, ctx, inq, out>>

Ready ==
    /\ par.pc = "ready"
    /\ Reads
    /\ par' = [par EXCEPT !.pc = IF Head(pipe).kind = "ready" /\ child.pc # "gone" THEN "idle" ELSE "dead"]
    /\ UNCHANGED <<lim, child, ctx, inq, out>>

\* A handshake that times out, or whose channel reaches EOF.
HandshakeFails ==
    /\ par.pc \in {"boot", "ready"}
    /\ pipe = <<>>
    /\ par' = [par EXCEPT !.pc = "dead"]
    /\ UNCHANGED <<lim, child, ctx, inq, pipe, out>>

-----------------------------------------------------------------------------
(* execute_task.                                                           *)

Submit ==
    /\ par.pc = "idle"
    /\ child.pc # "gone"
    /\ par.task < MaxGiven
    /\ par' = [par EXCEPT !.pc = "run", !.task = @ + 1]
    /\ inq' = Append(inq, par.task + 1)
    /\ out' = NoOutcome
    /\ UNCHANGED <<lim, child, ctx, pipe>>

HandsOver(pc, sev, text, final, task) ==
    /\ par' = [par EXCEPT !.pc = pc, !.count = @ + 1]
    /\ out' = [task |-> task, sev |-> sev, text |-> text, final |-> final]

\* A result; the pool grades it once more.
Receive ==
    LET m == Head(pipe) IN
    /\ par.pc = "run"
    /\ Reads
    /\ HandsOver(IF m.exiting \/ par.count + 1 >= lim THEN "dead" ELSE "idle",
                 Strongest(m.sev, Class(m.text, m.final)), m.text, m.final, m.task)
    /\ UNCHANGED <<lim, child, ctx, inq>>

\* _crash_result: the child is gone and the pipe is drained.
Crash ==
    /\ par.pc = "run"
    /\ child.pc = "gone"
    /\ pipe = <<>>
    /\ HandsOver("dead", "device", "plain", FALSE, par.task)
    /\ UNCHANGED <<lim, child, ctx, inq, pipe>>

\* Fault: a handle that has given up a task is kept.
Timeout_Kept ==
    /\ par.pc = "run"
    /\ par' = [par EXCEPT !.pc = "idle"]
    /\ out' = [task |-> par.task, sev |-> "device", text |-> "plain", final |-> FALSE]
    /\ UNCHANGED <<lim, child, ctx, inq, pipe>>

\* A cancellation, the task's time-out, or the shorter one of its correctness stage.
Timeout ==
    /\ par.pc = "run"
    /\ par' = [par EXCEPT !.pc = "dead"]
    /\ out' = [task |-> par.task, sev |-> "device", text |-> "plain", final |-> FALSE]
    /\ UNCHANGED <<lim, child, ctx, inq, pipe>>

\* The pool has reaped the child of a handle that is not alive and starts another.
Recycle ==
    /\ par.pc = "dead" \/ (par.pc = "idle" /\ child.pc = "gone")
    /\ par' = [NewHandle EXCEPT !.task = par.task]
    /\ child' = NewChild
    /\ ctx' = NoContext
    /\ inq' = <<>>
    /\ pipe' = <<>>
    /\ out' = NoOutcome
    /\ UNCHANGED lim

-----------------------------------------------------------------------------
(* The stages of an evaluation.                                            *)

Parent == <<lim, par, inq, pipe, out>>

At(stage) == child.pc = "eval" /\ child.stage = stage

\* Kernels of the reference or the candidate are launched; one may fault, now or later.
Launch(by) ==
    \/ ctx' = [ctx EXCEPT !.work = TRUE]
    \/ /\ ctx.fault = "none"
       /\ \E f \in {"context", "device"} : ctx' = [ctx EXCEPT !.work = TRUE, !.fault = f, !.by = by]

\* A synchronize that returns, over what was launched before it.
Syncs == ctx.fault = "none" /\ ctx' = [ctx EXCEPT !.work = FALSE]

Goes(stage) == child' = [child EXCEPT !.stage = stage]

\* The evaluation returns a completed result, or one with Sanitizer issues.
Finished(c) ==
    child' = [c EXCEPT !.pc = IF c.dry THEN "error" ELSE "commit", !.text = IF c.dry THEN "benign" ELSE "plain"]

\* It returns a failed result with this text.
Failed(t) ==
    child' = [child EXCEPT !.pc = IF t = "plain" THEN "commit" ELSE "error", !.text = t, !.issues = FALSE, !.dry = FALSE]

\* _finish_candidate_runtime_failure: the Sanitizer, in a process of its own, finds issues or not.
CandidateFailure == \E i \in BOOLEAN : Finished([child EXCEPT !.issues = i])

\* A task is taken; one that names no toolkit, backend or type is an ordinary error.
Get ==
    /\ child.pc = "get"
    /\ inq # <<>>
    /\ inq' = Tail(inq)
    /\ LET c == [NewChild EXCEPT !.count = child.count, !.task = Head(inq)] IN
       \/ \E kind \in {"kernel", "reference"} : child' = [c EXCEPT !.pc = "eval", !.kind = kind, !.stage = "load"]
       \/ child' = [c EXCEPT !.pc = "error"]
    /\ UNCHANGED <<lim, par, ctx, pipe, out>>

\* The reference model: a reference that cannot be loaded is a completed timing.
Load ==
    /\ At("load")
    /\ Launch("reference")
    /\ \/ Goes(IF child.kind = "kernel" THEN "compile" ELSE "time")
       \/ child.kind = "kernel" /\ \E t \in Text : Failed(t)
       \/ child.kind = "reference" /\ Finished(child)
    /\ UNCHANGED Parent

Compile ==
    /\ At("compile")
    /\ \/ Syncs /\ Goes("build")
       \/ Launch("candidate") /\ \E t \in Text : Failed(t)
    /\ UNCHANGED Parent

\* The candidate model; a RuntimeError is a completed evaluation.
Build ==
    /\ At("build")
    /\ \/ Syncs /\ Goes("inputs")
       \/ Launch("candidate") /\ (Finished(child) \/ \E t \in Text : Failed(t))
    /\ UNCHANGED Parent

Trial(t) == child' = [child EXCEPT !.trial = t, !.stage = "inputs"]

\* The ATen operators of a trial, if profiled: a forbidden one makes the kernel a decoy.
Inspected(t, decoy) == [t EXCEPT !.decoy = @ \/ decoy]

\* The outputs differ in structure or beyond the tolerance.
Missed(t) == [t EXCEPT !.mismatch = TRUE]

\* run_and_check_correctness returns; a mismatch is diagnosed in a process of its own.
Judged(t, right) ==
    \E i \in BOOLEAN :
      /\ i => t.mismatch
      /\ child' = [child EXCEPT !.trial = t, !.right = right, !.issues = i, !.stage = "post"]

\* An exception outside the candidate's forward, caught by _run_correctness_step.
Raised == child' = [child EXCEPT !.stage = "post"]

\* Fault: an exhausted budget accepts what has passed, whatever has failed.
Budget_Lax ==
    LET t == child.trial IN
    /\ At("inputs")
    /\ t.run \in 1..(Trials - 1)
    /\ \E right \in BOOLEAN : (right => t.passed >= MinPasses) /\ Judged(t, right)
    /\ UNCHANGED <<Parent, ctx>>

\* The wall-time budget of the trials is used up: accepted early, if the service
\* is configured so, or refused.
Budget ==
    LET t == child.trial
        clean == t.passed + t.skipped = t.run
    IN
    /\ At("inputs")
    /\ t.run \in 1..(Trials - 1)
    /\ \E right \in BOOLEAN : (right => clean /\ t.passed >= MinPasses) /\ Judged(t, right)
    /\ UNCHANGED <<Parent, ctx>>

Inputs ==
    /\ At("inputs")
    /\ child.trial.run < Trials
    /\ Launch("reference")
    /\ Goes("reference") \/ Raised
    /\ UNCHANGED Parent

\* The reference's forward.  Under a perturbation of the inputs (each fourth trial
\* has none) it may raise, or produce NaN or Inf: the trial does not count.
Reference ==
    LET t == child.trial
        Skips == t.run % 4 # 0 /\ Trial([t EXCEPT !.run = @ + 1, !.skipped = @ + 1])
    IN
    /\ At("reference")
    /\ \/ Syncs /\ (Goes("forward") \/ Skips)
       \/ Launch("reference") /\ (Raised \/ Skips)
    /\ UNCHANGED Parent

\* The candidate's forward and the comparison.  An exception of the forward ends
\* the evaluation without another call to CUDA.
Forward ==
    LET t == [child.trial EXCEPT !.run = @ + 1] IN
    /\ At("forward")
    /\ \/ /\ Syncs
          /\ \E decoy \in BOOLEAN :
               LET d == Inspected(t, decoy) IN
               \/ Trial([d EXCEPT !.passed = @ + 1])
               \/ Trial(Missed(d))
               \/ Judged(Missed(d), FALSE)
               \/ child' = [child EXCEPT !.trial = d, !.stage = "post"]
       \/ Launch("candidate") /\ CandidateFailure
    /\ UNCHANGED Parent

\* All trials have run.
Verdict ==
    LET expected == Trials - child.trial.skipped IN
    /\ At("inputs")
    /\ child.trial.run = Trials
    /\ Judged(child.trial, child.trial.passed = expected /\ expected > 0)
    /\ UNCHANGED <<Parent, ctx>>

PostCheck ==
    /\ At("post")
    /\ \/ /\ Syncs
          /\ \/ child.trial.decoy /\ Finished(child)
             \/ ~child.trial.decoy /\ ~child.right /\ (Goes("probe") \/ Goes("finish"))
             \/ ~child.trial.decoy /\ child.right /\ Goes("detect")
       \/ /\ ctx.fault # "none"
          /\ CandidateFailure \/ Failed(ctx.fault)
          /\ UNCHANGED ctx
    /\ UNCHANGED Parent

\* A stage that launches kernels again, or none: of what it raises, only actionable
\* CUDA errors end the evaluation.
Measured(next) ==
    /\ Launch("candidate") \/ UNCHANGED ctx
    /\ Goes(next) \/ CandidateFailure
    /\ UNCHANGED Parent

\* _run_incorrect_backend_usage_probe
Probe == At("probe") /\ Measured("finish")

\* _run_triton_detection_step; a decoy is a completed evaluation.
Detect ==
    /\ At("detect")
    /\ \/ Measured("performance")
       \/ Launch("candidate") /\ Finished(child) /\ UNCHANGED Parent

\* _run_performance_step; the profiler may see no CUDA event.
Perform ==
    /\ At("performance")
    /\ \/ Measured("memory")
       \/ Launch("candidate") /\ child' = [child EXCEPT !.stage = "memory", !.dry = TRUE] /\ UNCHANGED Parent

\* _run_memory_step
Memory == At("memory") /\ Measured("finish")

\* Fault: the barrier is taken as crossed when its failure is a finding about the candidate.
Finish_Crossed ==
    /\ At("finish")
    /\ \/ Syncs /\ Finished([child EXCEPT !.crossed = TRUE])
       \/ /\ ctx.fault # "none"
          /\ \E i \in BOOLEAN : Finished([child EXCEPT !.issues = i, !.crossed = TRUE])
          /\ UNCHANGED ctx
       \/ (\E t \in Text : Failed(t)) /\ UNCHANGED ctx
    /\ UNCHANGED Parent

\* The cleanup and the barrier of the pipeline.
Finish ==
    /\ At("finish")
    /\ \/ Syncs /\ Finished([child EXCEPT !.crossed = TRUE])
       \/ ctx.fault # "none" /\ CandidateFailure /\ UNCHANGED ctx
       \/ (\E t \in Text : Failed(t)) /\ UNCHANGED ctx
    /\ UNCHANGED Parent

\* A reference timing swallows what its trials raise and synchronizes.
Time ==
    /\ At("time")
    /\ \/ Syncs /\ (Goes("footprint") \/ Finished(child))
       \/ Launch("reference") /\ ctx'.fault # "none" /\ Failed(ctx'.fault)
    /\ UNCHANGED Parent

Footprint ==
    /\ At("footprint")
    /\ Launch("reference")
    /\ Finished(child) \/ \E t \in Text : Failed(t)
    /\ UNCHANGED Parent

Check == Budget \/ Inputs \/ Reference \/ Forward \/ Verdict

Evaluate == Load \/ Compile \/ Build \/ Check \/ PostCheck \/ Probe \/ Detect \/ Perform \/ Memory \/ Finish \/ Time \/ Footprint

-----------------------------------------------------------------------------
(* The end of a task in the child.                                         *)

Limit == child.count + 1 >= lim

Result(exiting, sev, text, final) ==
    [kind |-> "result", task |-> child.task, exiting |-> exiting, sev |-> sev, text |-> text, final |-> final]

\* The child goes on with the next task, or waits to be killed.
Publishes(exiting, sev, text, final) ==
    /\ Sends(Result(exiting, sev, text, final))
    /\ child' = [child EXCEPT !.pc = IF exiting THEN "wait" ELSE "get", !.count = @ + 1]

\* A result with issues: it names CUDA and is not synchronized for.
CommitIssues ==
    /\ child.pc = "commit"
    /\ child.issues
    /\ \E t \in {"context", "device"} : Publishes(TRUE, "none", t, FALSE)
    /\ UNCHANGED <<lim, par, ctx, inq, out>>

\* The barrier, unless the pipeline has crossed it and nothing is cleaned up for the next task.
Commit ==
    /\ child.pc = "commit"
    /\ ~child.issues
    /\ \/ /\ Syncs \/ (child.crossed /\ lim = 1 /\ UNCHANGED ctx)
          /\ Publishes(Limit, "none", "plain", FALSE)
       \/ /\ ctx.fault # "none"
          /\ ~(child.crossed /\ lim = 1)
          /\ child' = [child EXCEPT !.pc = "error", !.text = ctx.fault, !.final = TRUE]
          /\ UNCHANGED <<ctx, pipe>>
    /\ UNCHANGED <<lim, par, inq, out>>

\* A payload that the channel refuses: WorkerIPCProtocolError.
Unsendable ==
    /\ child.pc = "commit"
    /\ Syncs \/ ((child.issues \/ (child.crossed /\ lim = 1)) /\ UNCHANGED ctx)
    /\ child' = [child EXCEPT !.pc = "error", !.text = "device"]
    /\ UNCHANGED <<lim, par, inq, pipe, out>>

\* An error graded as a fault.
PublishFault ==
    LET sev == Class(child.text, child.final) IN
    /\ child.pc = "error"
    /\ sev # "none"
    /\ Publishes(TRUE, sev, child.text, child.final)
    /\ UNCHANGED <<lim, par, ctx, inq, out>>

\* Any other error: a synchronize decides.
PublishError ==
    /\ child.pc = "error"
    /\ Class(child.text, child.final) = "none"
    /\ \/ Syncs /\ Publishes(child.text = "benign" \/ Limit, "none", child.text, FALSE)
       \/ ctx.fault # "none" /\ Publishes(TRUE, "context", ctx.fault, TRUE) /\ UNCHANGED ctx
    /\ UNCHANGED <<lim, par, inq, out>>

\* A native crash, an out-of-memory kill.
Dies ==
    /\ child.pc # "gone"
    /\ Becomes("gone")
    /\ UNCHANGED <<lim, par, ctx, inq, pipe, out>>

-----------------------------------------------------------------------------
Handle == Attest \/ Ready \/ HandshakeFails \/ Submit \/ Receive \/ Crash \/ Timeout \/ Recycle

Loop ==
    \/ Contained \/ OpenContext \/ AckTimeout \/ Get \/ Evaluate
    \/ CommitIssues \/ Commit \/ Unsendable \/ PublishFault \/ PublishError

Next == Handle \/ Loop \/ Dies

Spec == Init /\ [][Next]_vars

-----------------------------------------------------------------------------
(* Properties.                                                             *)

Stages == {"none", "load", "compile", "build", "inputs", "reference", "forward", "post", "probe", "detect",
           "performance", "memory", "finish", "time", "footprint"}

TypeOK ==
    /\ lim \in Limits
    /\ par \in [pc : {"boot", "ready", "idle", "run", "dead"}, attested : BOOLEAN, count : Nat, task : Nat]
    /\ child \in [pc : {"boot", "unacked", "get", "eval", "commit", "error", "wait", "gone"},
                  kind : {"none", "kernel", "reference"}, stage : Stages, right : BOOLEAN, count : Nat, task : Nat,
                  trial : [run : 0..Trials, passed : 0..Trials, skipped : 0..Trials, mismatch : BOOLEAN, decoy : BOOLEAN],
                  crossed : BOOLEAN, issues : BOOLEAN, dry : BOOLEAN, text : Text, final : BOOLEAN]
    /\ ctx \in [open : BOOLEAN, work : BOOLEAN, fault : Severity, by : {"none", "reference", "candidate"}]
    /\ inq \in Seq(Nat)
    /\ Len(pipe) <= 2 /\ \A i \in DOMAIN pipe : pipe[i].sev \in Severity
    /\ out \in [task : Nat, sev : Severity, text : Text, final : BOOLEAN]

\* A result that the pool takes for free of faults was published when nothing of
\* the task was left running and the context had no fault: the commit barrier, on
\* whichever path the task ended.
CleanResult == out.task # 0 /\ out.sev = "none" => ~ctx.work /\ ctx.fault = "none"

\* An idle handle has an idle child, with the same count of tasks and empty
\* channels: the next task gets its own answer, in a context without a fault.
HandleAgrees ==
    par.pc = "idle" /\ child.pc # "gone" =>
      /\ child.pc = "get" /\ child.count = par.count /\ par.count < lim
      /\ inq = <<>> /\ pipe = <<>>
      /\ ctx.fault = "none"

\* An answer is that of the task given, whatever was given up before, and what a
\* task leaves behind is nothing the next one could read.
AnswerIsOwn == out.task \in {0, par.task} /\ HandleAgrees

\* A kernel is called correct only when a trial has passed and none has failed,
\* whichever trials the reference could not take part in and wherever time ran out.
RightIsEarned ==
    child.right => /\ child.trial.passed > 0 /\ ~child.trial.mismatch
                   /\ child.trial.passed + child.trial.skipped = child.trial.run

\* HTTP_API.md of a reference that raises under a perturbation: "excluded from the
\* correctness denominator".  It does not fail the kernel that had no mismatch.
SkippedReferenceIsExcluded ==
    At("post") /\ ~child.right /\ ~child.trial.mismatch /\ child.trial.skipped > 0 => ctx.by # "reference"

\* A fault that the last synchronize finds reaches the pool with its true grade,
\* though the child calls each of them a context fault.
FinalSyncIsGraded == out.final => out.sev = ctx.fault

\* What the pool acts on is the truth about the context: no fault is passed over and
\* the last one has its own grade.
SeverityIsTrue == CleanResult /\ FinalSyncIsGraded

=============================================================================
