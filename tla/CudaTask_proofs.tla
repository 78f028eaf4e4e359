---------------------------- MODULE CudaTask_proofs ----------------------------
(***************************************************************************)
(* The invariants of CudaTask, for any number of tasks, trials and limits. *)
(*                                                                         *)
(* Inv has a part for the evaluation of a task (TrialOK, ErrorOK), one for *)
(* the CUDA context of a child that serves (ContextOK), and one for what   *)
(* the two channels may hold at each point of the child (ChannelsOK) and   *)
(* of its handle (StartOK, RunOK, HandleAgrees).                           *)
(***************************************************************************)
EXTENDS CudaTask, SequenceTheorems, TLAPS

Counts   == [run : 0..Trials, passed : 0..Trials, skipped : 0..Trials, mismatch : BOOLEAN, decoy : BOOLEAN]
Children == [pc : {"boot", "unacked", "get", "eval", "commit", "error", "wait", "gone"},
             kind : {"none", "kernel", "reference"}, stage : Stages, right : BOOLEAN, count : Nat, task : Nat,
             trial : Counts, crossed : BOOLEAN, issues : BOOLEAN, dry : BOOLEAN, text : Text, final : BOOLEAN]
Handles  == [pc : {"boot", "ready", "idle", "run", "dead"}, attested : BOOLEAN, count : Nat, task : Nat]
Contexts == [open : BOOLEAN, work : BOOLEAN, fault : Severity, by : {"none", "reference", "candidate"}]
Outcomes == [task : Nat, sev : Severity, text : Text, final : BOOLEAN]
Messages == [kind : {"contained", "ready", "init_failed", "result"}, task : Nat, exiting : BOOLEAN, sev : Severity,
             text : Text, final : BOOLEAN]

Clean == ctx.fault = "none" /\ ~ctx.work

\* The verdict is still open before and between the trials.
Early   == {"load", "compile", "build", "inputs", "reference", "forward"}
Judging == child.pc = "eval" /\ child.stage \in Early

Earned(t) == t.passed > 0 /\ ~t.mismatch /\ t.passed + t.skipped = t.run

TrialOK ==
  /\ child.right => Earned(child.trial)
  /\ Judging =>
       /\ ~child.right
       /\ child.trial.passed + child.trial.skipped <= child.trial.run
       /\ child.trial.passed + child.trial.skipped = child.trial.run <=> ~child.trial.mismatch
       /\ child.stage \in {"reference", "forward"} => child.trial.run < Trials

\* A barrier that was crossed left nothing; an error that is called final is that of
\* the last synchronize.
ErrorOK ==
  /\ child.pc = "eval" => ~child.crossed
  /\ child.pc = "commit" /\ child.crossed => Clean
  /\ child.final => child.pc \in {"error", "wait", "gone"} /\ ctx.fault # "none" /\ child.text = ctx.fault

\* A child that takes tasks has a context without a fault and nothing running in it.
ContextOK == child.pc \in {"boot", "unacked", "get"} => Clean

\* A child with a task in hand has empty channels; it sends one message for each that
\* it takes.
ChannelsOK ==
  /\ inq \in Seq(Nat) /\ pipe \in Seq(Messages)
  /\ child.pc = "boot" => inq = <<>> /\ pipe = <<>>
  /\ child.pc \in {"unacked", "get"} => Len(pipe) <= 1 /\ Len(inq) <= 1 /\ (inq = <<>> \/ pipe = <<>>)
  /\ child.pc \in {"eval", "commit", "error"} => inq = <<>> /\ pipe = <<>>
  /\ child.pc = "wait" => Len(pipe) <= 1
  /\ Len(pipe) <= 2

StartOK ==
  /\ child.pc \in {"boot", "unacked"} => child.count = 0
  /\ par.pc \in {"boot", "ready"} => par.count = 0
  /\ par.pc = "boot" => child.pc \in {"boot", "unacked", "gone"} /\ inq = <<>>
  /\ par.pc = "ready" =>
       /\ child.pc \in {"unacked", "get", "wait", "gone"}
       /\ child.pc = "unacked" => pipe = <<>>
       /\ child.pc = "get" => inq = <<>> /\ child.count = 0
       /\ child.pc = "wait" /\ pipe # <<>> => Head(pipe).kind # "ready"

\* What a result says of the context is true, and a child that stays has a clean one.
Graded(m) == Strongest(m.sev, Class(m.text, m.final))
Truthful(m) ==
  /\ Graded(m) = "none" => Clean
  /\ m.final => Graded(m) = ctx.fault
  /\ ~m.exiting => ctx.fault = "none"

\* A handle that waits has given its task to the child, which has it or has answered it.
RunOK ==
  par.pc = "run" =>
    /\ child.pc \in {"get", "eval", "commit", "error", "wait", "gone"}
    /\ child.pc = "get" /\ inq # <<>> => Head(inq) = par.task /\ child.count = par.count
    /\ child.pc \in {"eval", "commit", "error"} => child.task = par.task /\ child.count = par.count
    /\ Len(pipe) <= 1
    /\ pipe # <<>> =>
         LET m == Head(pipe) IN
         /\ m.task = par.task /\ Truthful(m)
         /\ ~m.exiting /\ child.pc # "gone" => child.pc = "get" /\ child.count = par.count + 1

\* While the pool relies on what an outcome says, the child does nothing that could change it.
Known == out.final \/ (out.task # 0 /\ out.sev = "none")
OutcomeOK ==
  /\ out.task \in {0, par.task}
  /\ Known =>
       /\ par.pc \in {"idle", "dead"}
       /\ child.pc \in {"wait", "gone"} \/ (child.pc = "get" /\ inq = <<>>)
       /\ out.final => out.sev = ctx.fault
       /\ out.sev = "none" => Clean

Typed == lim \in Limits /\ par \in Handles /\ child \in Children /\ ctx \in Contexts /\ out \in Outcomes

Inv == Typed /\ TrialOK /\ ErrorOK /\ ContextOK /\ ChannelsOK /\ StartOK /\ RunOK /\ HandleAgrees /\ OutcomeOK

-----------------------------------------------------------------------------
(* The stages of an evaluation.                                            *)

\* A stage leaves the task and the channels alone.
StageMove ==
  /\ child.pc = "eval" /\ child'.pc \in {"eval", "commit", "error"}
  /\ child' \in Children /\ ctx' \in Contexts /\ UNCHANGED Parent
  /\ child'.task = child.task /\ child'.count = child.count /\ child'.final = child.final
  /\ child'.crossed => child'.pc # "eval" /\ (child.crossed \/ (ctx'.fault = "none" /\ ~ctx'.work))
  /\ TrialOK'

LEMMA LaunchTypes ==
  ASSUME ctx \in Contexts, NEW by \in {"reference", "candidate"}, Launch(by)
  PROVE  ctx' \in Contexts
<1>1. CASE ctx' = [ctx EXCEPT !.work = TRUE]
  BY <1>1 DEF Contexts
<1>2. ASSUME NEW f \in {"context", "device"}, ctx' = [ctx EXCEPT !.work = TRUE, !.fault = f, !.by = by]
      PROVE  ctx' \in Contexts
  BY <1>2 DEF Contexts, Severity
<1> QED
  BY <1>1, <1>2 DEF Launch

LEMMA SyncTypes ==
  ASSUME ctx \in Contexts, Syncs
  PROVE  ctx' \in Contexts /\ ctx.fault = "none" /\ ctx'.fault = "none" /\ ~ctx'.work
BY DEF Syncs, Contexts

\* The evaluation is over; the verdict stays.
Ends(c) ==
  /\ child' \in Children /\ child'.pc \in {"commit", "error"}
  /\ child'.task = c.task /\ child'.count = c.count /\ child'.final = c.final
  /\ child'.crossed = c.crossed /\ child'.right = c.right /\ child'.trial = c.trial

LEMMA FinishedEnds ==
  ASSUME NEW c \in Children, Finished(c)
  PROVE  Ends(c)
<1>1. CASE c.dry
  BY <1>1 DEF Finished, Ends, Children, Text
<1>2. CASE ~c.dry
  BY <1>2 DEF Finished, Ends, Children, Text
<1> QED
  BY <1>1, <1>2

LEMMA FailedEnds ==
  ASSUME child \in Children, NEW t \in Text, Failed(t)
  PROVE  Ends(child)
<1>1. CASE t = "plain"
  BY <1>1 DEF Failed, Ends, Children
<1>2. CASE t # "plain"
  BY <1>2 DEF Failed, Ends, Children
<1> QED
  BY <1>1, <1>2

LEMMA CandidateEnds ==
  ASSUME child \in Children, CandidateFailure
  PROVE  Ends(child)
<1>1. PICK i \in BOOLEAN : Finished([child EXCEPT !.issues = i])
  BY DEF CandidateFailure
<1> DEFINE c == [child EXCEPT !.issues = i]
<1>2. c \in Children
  BY DEF Children
<1>3. /\ c.task = child.task /\ c.count = child.count /\ c.final = child.final
      /\ c.crossed = child.crossed /\ c.right = child.right /\ c.trial = child.trial
  BY DEF Children
<1>4. Ends(c)
  BY <1>1, <1>2, FinishedEnds
<1> QED
  BY <1>3, <1>4 DEF Ends

\* A stage that ends the evaluation, or that goes on after the trials, keeps the verdict.
LEMMA EndMoves ==
  ASSUME Typed, TrialOK, ErrorOK, child.pc = "eval", Ends(child), ctx' \in Contexts, UNCHANGED Parent
  PROVE  StageMove
<1>1. TrialOK'
  BY DEF Typed, Ends, TrialOK, Judging, Earned
<1> QED
  BY <1>1 DEF StageMove, Ends, ErrorOK

LEMMA GoMoves ==
  ASSUME Typed, TrialOK, ErrorOK, child.pc = "eval", NEW stage \in Stages, Goes(stage),
         ctx' \in Contexts, UNCHANGED Parent,
         \/ stage \notin Early
         \/ child.stage \in Early /\ (stage \in {"reference", "forward"} => child.trial.run < Trials)
  PROVE  StageMove
<1>1. /\ child' \in Children /\ child'.pc = "eval" /\ child'.stage = stage
      /\ child'.task = child.task /\ child'.count = child.count /\ child'.final = child.final
      /\ child'.crossed = child.crossed /\ child'.right = child.right /\ child'.trial = child.trial
  BY DEF Goes, Typed, Children
<1>2. TrialOK'
  BY <1>1 DEF TrialOK, Judging, Earned
<1> QED
  BY <1>1, <1>2 DEF StageMove, ErrorOK

\* A trial has been counted.
LEMMA TrialMoves ==
  ASSUME Typed, TrialOK, ErrorOK, child.pc = "eval", NEW t \in Counts, Trial(t), ~child.right,
         ctx' \in Contexts, UNCHANGED Parent,
         t.passed + t.skipped <= t.run, t.passed + t.skipped = t.run <=> ~t.mismatch
  PROVE  StageMove
<1>0. "inputs" \in Stages
  BY DEF Stages
<1>1. /\ child' \in Children /\ child'.pc = "eval" /\ child'.stage = "inputs"
      /\ child'.task = child.task /\ child'.count = child.count /\ child'.final = child.final
      /\ child'.crossed = child.crossed /\ child'.right = child.right /\ child'.trial = t
  BY <1>0 DEF Trial, Typed, Children
<1>2. TrialOK'
  BY <1>1 DEF TrialOK, Judging, Earned
<1> QED
  BY <1>1, <1>2 DEF StageMove, ErrorOK

\* A verdict, over the trials that have run.
LEMMA JudgedMoves ==
  ASSUME Typed, ErrorOK, child.pc = "eval", NEW t \in Counts, NEW right \in BOOLEAN, Judged(t, right),
         right => Earned(t), ctx' \in Contexts, UNCHANGED Parent
  PROVE  StageMove
<1>0. PICK i \in BOOLEAN : child' = [child EXCEPT !.trial = t, !.right = right, !.issues = i, !.stage = "post"]
  BY DEF Judged
<1>a. "post" \in Stages
  BY DEF Stages
<1>1. /\ child' \in Children /\ child'.pc = "eval" /\ child'.stage = "post"
      /\ child'.task = child.task /\ child'.count = child.count /\ child'.final = child.final
      /\ child'.crossed = child.crossed /\ child'.right = right /\ child'.trial = t
  BY <1>0, <1>a DEF Typed, Children
<1>2. TrialOK'
  BY <1>1 DEF TrialOK, Judging, Earned, Early
<1> QED
  BY <1>1, <1>2 DEF StageMove, ErrorOK

-----------------------------------------------------------------------------
(* Each stage is a StageMove.                                              *)

EvalInv == Typed /\ TrialOK /\ ErrorOK

LEMMA LoadMoves ==
  ASSUME EvalInv, Load
  PROVE  StageMove
<1>1. child.pc = "eval" /\ child.stage = "load" /\ UNCHANGED Parent /\ ctx' \in Contexts /\ child \in Children
  BY LaunchTypes DEF Load, At, EvalInv, Typed
<1>2. CASE Goes(IF child.kind = "kernel" THEN "compile" ELSE "time")
  <2>1. PICK stage \in {"compile", "time"} : Goes(stage)
    BY <1>2
  <2> QED
    BY <1>1, <2>1, GoMoves DEF EvalInv, Early, Stages
<1>3. ASSUME NEW t \in Text, Failed(t) PROVE StageMove
  BY <1>1, <1>3, FailedEnds, EndMoves DEF EvalInv
<1>4. CASE Finished(child)
  BY <1>1, <1>4, FinishedEnds, EndMoves DEF EvalInv
<1> QED
  BY <1>2, <1>3, <1>4 DEF Load

LEMMA CompileMoves ==
  ASSUME EvalInv, Compile
  PROVE  StageMove
<1>1. child.pc = "eval" /\ child.stage = "compile" /\ UNCHANGED Parent /\ ctx' \in Contexts /\ child \in Children
  BY LaunchTypes, SyncTypes DEF Compile, At, EvalInv, Typed
<1>2. CASE Goes("build")
  BY <1>1, <1>2, GoMoves DEF EvalInv, Early, Stages
<1>3. ASSUME NEW t \in Text, Failed(t) PROVE StageMove
  BY <1>1, <1>3, FailedEnds, EndMoves DEF EvalInv
<1> QED
  BY <1>2, <1>3 DEF Compile

LEMMA BuildMoves ==
  ASSUME EvalInv, Build
  PROVE  StageMove
<1>1. child.pc = "eval" /\ child.stage = "build" /\ UNCHANGED Parent /\ ctx' \in Contexts /\ child \in Children
  BY LaunchTypes, SyncTypes DEF Build, At, EvalInv, Typed
<1>2. CASE Goes("inputs")
  BY <1>1, <1>2, GoMoves DEF EvalInv, Early, Stages
<1>3. ASSUME NEW t \in Text, Failed(t) PROVE StageMove
  BY <1>1, <1>3, FailedEnds, EndMoves DEF EvalInv
<1>4. CASE Finished(child)
  BY <1>1, <1>4, FinishedEnds, EndMoves DEF EvalInv
<1> QED
  BY <1>2, <1>3, <1>4 DEF Build

LEMMA BudgetMoves ==
  ASSUME EvalInv, Budget
  PROVE  StageMove
<1> DEFINE t == child.trial
<1>1. child.pc = "eval" /\ child.stage = "inputs" /\ UNCHANGED Parent /\ ctx' \in Contexts /\ t \in Counts
  BY DEF Budget, At, EvalInv, Typed, Children
<1>2. PICK right \in BOOLEAN : (right => t.passed + t.skipped = t.run /\ t.passed >= MinPasses) /\ Judged(t, right)
  BY DEF Budget
<1>3. Judging
  BY <1>1 DEF Judging, Early
<1>4. right => Earned(t)
  BY <1>1, <1>2, <1>3, CudaAssumption DEF EvalInv, TrialOK, Earned, Counts
<1> QED
  BY <1>1, <1>2, <1>4, JudgedMoves DEF EvalInv

LEMMA VerdictMoves ==
  ASSUME EvalInv, Verdict
  PROVE  StageMove
<1> DEFINE t == child.trial
           right == t.passed = Trials - t.skipped /\ Trials - t.skipped > 0
<1>1. child.pc = "eval" /\ child.stage = "inputs" /\ UNCHANGED Parent /\ ctx' \in Contexts /\ t \in Counts
  BY DEF Verdict, At, EvalInv, Typed, Children
<1>2. t.run = Trials /\ Judged(t, right) /\ right \in BOOLEAN
  BY DEF Verdict
<1>3. Judging
  BY <1>1 DEF Judging, Early
<1>4. right => Earned(t)
  BY <1>1, <1>2, <1>3, CudaAssumption DEF EvalInv, TrialOK, Earned, Counts
<1> HIDE DEF t, right
<1> QED
  BY <1>1, <1>2, <1>4, JudgedMoves DEF EvalInv

LEMMA InputsMoves ==
  ASSUME EvalInv, Inputs
  PROVE  StageMove
<1>1. child.pc = "eval" /\ child.stage = "inputs" /\ UNCHANGED Parent /\ ctx' \in Contexts /\ child.trial.run < Trials
  BY LaunchTypes DEF Inputs, At, EvalInv, Typed
<1>2. CASE Goes("reference")
  BY <1>1, <1>2, GoMoves DEF EvalInv, Early, Stages
<1>3. CASE Goes("post")
  BY <1>1, <1>3, GoMoves DEF EvalInv, Early, Stages
<1>4. CASE Raised
  BY <1>3, <1>4 DEF Raised, Goes
<1> QED
  BY <1>2, <1>4 DEF Inputs

\* The counts after one more trial.
LEMMA OneMore ==
  ASSUME NEW t \in Counts, t.run < Trials, t.passed + t.skipped <= t.run,
         t.passed + t.skipped = t.run <=> ~t.mismatch, NEW decoy \in BOOLEAN
  PROVE  LET d == [t EXCEPT !.run = @ + 1, !.decoy = @ \/ decoy]
             passes == [d EXCEPT !.passed = @ + 1]
             skips == [t EXCEPT !.run = @ + 1, !.skipped = @ + 1]
         IN  /\ d \in Counts /\ ~(d.passed + d.skipped = d.run)
             /\ Missed(d) \in Counts /\ Missed(d).mismatch
             /\ Missed(d).passed + Missed(d).skipped < Missed(d).run
             /\ passes \in Counts /\ passes.passed + passes.skipped <= passes.run
             /\ passes.passed + passes.skipped = passes.run <=> ~passes.mismatch
             /\ skips \in Counts /\ skips.passed + skips.skipped <= skips.run
             /\ skips.passed + skips.skipped = skips.run <=> ~skips.mismatch
<1> DEFINE d == [t EXCEPT !.run = @ + 1, !.decoy = @ \/ decoy]
           passes == [d EXCEPT !.passed = @ + 1]
           skips == [t EXCEPT !.run = @ + 1, !.skipped = @ + 1]
<1>1. /\ t.run \in Nat /\ t.passed \in Nat /\ t.skipped \in Nat /\ t.mismatch \in BOOLEAN /\ t.decoy \in BOOLEAN
      /\ Trials \in Nat
  BY CudaAssumption DEF Counts
<1>2. (t.decoy \/ decoy) \in BOOLEAN
  OBVIOUS
<1>3. d \in Counts /\ d.run = t.run + 1 /\ d.passed = t.passed /\ d.skipped = t.skipped /\ d.mismatch = t.mismatch
  <2>1. PICK b \in BOOLEAN : b = (t.decoy \/ decoy)
    BY <1>2, Zenon
  <2>2. d = [t EXCEPT !.run = @ + 1, !.decoy = b]
    BY <2>1, Zenon
  <2>3. t.run + 1 \in 0..Trials
    BY <1>1
  <2> HIDE DEF d
  <2> QED
    BY <1>1, <2>2, <2>3 DEF Counts
<1>4. /\ Missed(d) \in Counts /\ Missed(d).mismatch /\ Missed(d).run = d.run
      /\ Missed(d).passed = d.passed /\ Missed(d).skipped = d.skipped
  <2> HIDE DEF d
  <2> QED
    BY <1>3 DEF Counts, Missed
<1>5. d.passed + 1 \in 0..Trials /\ t.skipped + 1 \in 0..Trials /\ t.run + 1 \in 0..Trials
  BY <1>1, <1>3
<1>6. /\ passes \in Counts /\ passes.run = d.run /\ passes.passed = d.passed + 1 /\ passes.skipped = d.skipped
      /\ passes.mismatch = d.mismatch
  <2> HIDE DEF d
  <2> QED
    BY <1>3, <1>5 DEF Counts
<1>7. /\ skips \in Counts /\ skips.run = t.run + 1 /\ skips.passed = t.passed /\ skips.skipped = t.skipped + 1
      /\ skips.mismatch = t.mismatch
  BY <1>5 DEF Counts
<1> HIDE DEF d, passes, skips
<1>8. ~(d.passed + d.skipped = d.run) /\ Missed(d).passed + Missed(d).skipped < Missed(d).run
  BY <1>1, <1>3, <1>4
<1>9. /\ passes.passed + passes.skipped <= passes.run
      /\ passes.passed + passes.skipped = passes.run <=> ~passes.mismatch
  BY <1>1, <1>3, <1>6
<1>10. /\ skips.passed + skips.skipped <= skips.run
       /\ skips.passed + skips.skipped = skips.run <=> ~skips.mismatch
  BY <1>1, <1>7
<1> QED
  BY <1>3, <1>4, <1>6, <1>7, <1>8, <1>9, <1>10 DEF d, passes, skips

LEMMA ReferenceMoves ==
  ASSUME EvalInv, Reference
  PROVE  StageMove
<1> DEFINE t == child.trial
           skips == [t EXCEPT !.run = @ + 1, !.skipped = @ + 1]
<1>1. child.pc = "eval" /\ child.stage = "reference" /\ UNCHANGED Parent /\ ctx' \in Contexts
  BY LaunchTypes, SyncTypes DEF Reference, At, EvalInv, Typed
<1>2. Judging /\ t \in Counts
  BY <1>1 DEF Judging, Early, EvalInv, Typed, Children
<1>3. t.run < Trials
  BY <1>1, <1>2 DEF EvalInv, TrialOK
<1>4. CASE Goes("forward")
  BY <1>1, <1>3, <1>4, GoMoves DEF EvalInv, Early, Stages
<1>5. CASE Raised
  <2>1. Goes("post")
    BY <1>5 DEF Raised, Goes
  <2> QED
    BY <1>1, <2>1, GoMoves DEF EvalInv, Early, Stages
<1>6. CASE Trial(skips)
  <2>1. /\ ~child.right /\ t.passed + t.skipped <= t.run
        /\ t.passed + t.skipped = t.run <=> ~t.mismatch
    BY <1>2 DEF EvalInv, TrialOK
  <2>2. /\ skips \in Counts /\ skips.passed + skips.skipped <= skips.run
        /\ skips.passed + skips.skipped = skips.run <=> ~skips.mismatch
    <3> HIDE DEF t
    <3> QED
      BY <2>1, <1>2, <1>3, OneMore
  <2> HIDE DEF t, skips
  <2> QED
    BY <1>1, <1>6, <2>1, <2>2, TrialMoves DEF EvalInv
<1> QED
  BY <1>4, <1>5, <1>6 DEF Reference

LEMMA ForwardMoves ==
  ASSUME EvalInv, Forward
  PROVE  StageMove
<1> DEFINE u == child.trial
           t == [u EXCEPT !.run = @ + 1]
<1>1. /\ child.pc = "eval" /\ child.stage = "forward" /\ UNCHANGED Parent /\ ctx' \in Contexts
      /\ child \in Children
  BY LaunchTypes, SyncTypes DEF Forward, At, EvalInv, Typed
<1>2. Judging /\ u \in Counts
  BY <1>1 DEF Judging, Early, EvalInv, Typed, Children
<1>3. /\ ~child.right /\ u.passed + u.skipped <= u.run /\ u.run < Trials
      /\ u.passed + u.skipped = u.run <=> ~u.mismatch
  BY <1>1, <1>2 DEF EvalInv, TrialOK
<1>4. CASE CandidateFailure
  BY <1>1, <1>4, CandidateEnds, EndMoves DEF EvalInv
<1>5. ASSUME NEW decoy \in BOOLEAN, NEW d, d = Inspected(t, decoy),
             \/ Trial([d EXCEPT !.passed = @ + 1])
             \/ Trial(Missed(d))
             \/ Judged(Missed(d), FALSE)
             \/ child' = [child EXCEPT !.trial = d, !.stage = "post"]
      PROVE  StageMove
  <2>1. d = [u EXCEPT !.run = @ + 1, !.decoy = @ \/ decoy]
    <3> HIDE DEF u
    <3> QED
      BY <1>2, <1>5 DEF Inspected, Counts
  <2> DEFINE passes == [d EXCEPT !.passed = @ + 1]
  <2>2. /\ d \in Counts
        /\ Missed(d) \in Counts /\ Missed(d).mismatch
        /\ Missed(d).passed + Missed(d).skipped < Missed(d).run
        /\ passes \in Counts /\ passes.passed + passes.skipped <= passes.run
        /\ passes.passed + passes.skipped = passes.run <=> ~passes.mismatch
    <3> HIDE DEF u
    <3> QED
      BY <1>2, <1>3, <2>1, OneMore
  <2>3. CASE Trial(passes)
    <3> HIDE DEF passes
    <3> QED
      BY <1>1, <1>3, <2>2, <2>3, TrialMoves DEF EvalInv
  <2>4. CASE Trial(Missed(d))
    <3>1. PICK m \in Counts : m = Missed(d)
      BY <2>2
    <3>2. /\ m.passed + m.skipped <= m.run
          /\ m.passed + m.skipped = m.run <=> ~m.mismatch
      <4>1. m.run \in Nat /\ m.passed \in Nat /\ m.skipped \in Nat
        BY DEF Counts
      <4> QED
        BY <2>2, <3>1, <4>1
    <3> QED
      BY <1>1, <1>3, <2>4, <3>1, <3>2, TrialMoves DEF EvalInv
  <2>5. CASE Judged(Missed(d), FALSE)
    BY <1>1, <2>2, <2>5, JudgedMoves DEF EvalInv
  <2>6. CASE child' = [child EXCEPT !.trial = d, !.stage = "post"]
    <3>1. /\ child' \in Children /\ child'.pc = "eval" /\ child'.stage = "post"
          /\ child'.task = child.task /\ child'.count = child.count /\ child'.final = child.final
          /\ child'.crossed = child.crossed /\ ~child'.right
      BY <1>1, <1>3, <2>2, <2>6 DEF Children, Stages
    <3>2. TrialOK'
      BY <3>1 DEF TrialOK, Judging, Early
    <3> QED
      BY <1>1, <3>1, <3>2 DEF StageMove, EvalInv, ErrorOK
  <2> QED
    BY <1>5, <2>3, <2>4, <2>5, <2>6
<1> QED
  BY <1>4, <1>5 DEF Forward

LEMMA PostCheckMoves ==
  ASSUME EvalInv, PostCheck
  PROVE  StageMove
<1>1. /\ child.pc = "eval" /\ UNCHANGED Parent /\ ctx' \in Contexts /\ child \in Children
      /\ ctx.fault \in Severity
  BY SyncTypes DEF PostCheck, At, EvalInv, Typed, Contexts
<1>2. ASSUME NEW c \in {child}, Finished(c) PROVE StageMove
  BY <1>1, <1>2, FinishedEnds, EndMoves DEF EvalInv
<1>3. ASSUME NEW stage \in {"probe", "finish", "detect"}, Goes(stage) PROVE StageMove
  BY <1>1, <1>3, GoMoves DEF EvalInv, Early, Stages
<1>4. CASE CandidateFailure
  BY <1>1, <1>4, CandidateEnds, EndMoves DEF EvalInv
<1>5. CASE ctx.fault # "none" /\ Failed(ctx.fault)
  <2>1. ctx.fault \in Text
    BY <1>1, <1>5 DEF Severity, Text
  <2> QED
    BY <1>1, <1>5, <2>1, FailedEnds, EndMoves DEF EvalInv
<1> QED
  BY <1>2, <1>3, <1>4, <1>5 DEF PostCheck

LEMMA MeasuredMoves ==
  ASSUME EvalInv, child.pc = "eval", NEW next \in Stages \ Early, Measured(next)
  PROVE  StageMove
<1>1. UNCHANGED Parent /\ ctx' \in Contexts /\ child \in Children
  BY LaunchTypes DEF Measured, EvalInv, Typed
<1>2. CASE Goes(next)
  BY <1>1, <1>2, GoMoves DEF EvalInv
<1>3. CASE CandidateFailure
  BY <1>1, <1>3, CandidateEnds, EndMoves DEF EvalInv
<1> QED
  BY <1>2, <1>3 DEF Measured

LEMMA ProbeMoves ==
  ASSUME EvalInv, Probe
  PROVE  StageMove
BY MeasuredMoves DEF Probe, At, Stages, Early

LEMMA MemoryMoves ==
  ASSUME EvalInv, Memory
  PROVE  StageMove
BY MeasuredMoves DEF Memory, At, Stages, Early

LEMMA DetectMoves ==
  ASSUME EvalInv, Detect
  PROVE  StageMove
<1>1. CASE Measured("performance")
  BY <1>1, MeasuredMoves DEF Detect, At, Stages, Early
<1>2. CASE Launch("candidate") /\ Finished(child) /\ UNCHANGED Parent
  <2>1. child.pc = "eval" /\ ctx' \in Contexts /\ child \in Children
    BY <1>2, LaunchTypes DEF Detect, At, EvalInv, Typed
  <2> QED
    BY <1>2, <2>1, FinishedEnds, EndMoves DEF EvalInv
<1> QED
  BY <1>1, <1>2 DEF Detect

LEMMA PerformMoves ==
  ASSUME EvalInv, Perform
  PROVE  StageMove
<1>1. CASE Measured("memory")
  BY <1>1, MeasuredMoves DEF Perform, At, Stages, Early
<1>2. CASE Launch("candidate") /\ child' = [child EXCEPT !.stage = "memory", !.dry = TRUE] /\ UNCHANGED Parent
  <2>1. child.pc = "eval" /\ ctx' \in Contexts /\ child \in Children
    BY <1>2, LaunchTypes DEF Perform, At, EvalInv, Typed
  <2>2. /\ child' \in Children /\ child'.pc = "eval" /\ child'.stage = "memory"
        /\ child'.task = child.task /\ child'.count = child.count /\ child'.final = child.final
        /\ child'.crossed = child.crossed /\ child'.right = child.right /\ child'.trial = child.trial
    BY <1>2, <2>1 DEF Children, Stages
  <2>3. TrialOK'
    BY <2>2 DEF EvalInv, TrialOK, Judging, Earned, Early
  <2> QED
    BY <1>2, <2>1, <2>2, <2>3 DEF StageMove, EvalInv, ErrorOK
<1> QED
  BY <1>1, <1>2 DEF Perform

\* Only the barrier sets crossed, and it leaves nothing.
LEMMA FinishMoves ==
  ASSUME EvalInv, Finish
  PROVE  StageMove
<1>1. child.pc = "eval" /\ UNCHANGED Parent /\ ctx' \in Contexts /\ child \in Children
  BY SyncTypes DEF Finish, At, EvalInv, Typed
<1>2. CASE Syncs /\ Finished([child EXCEPT !.crossed = TRUE])
  <2> DEFINE c == [child EXCEPT !.crossed = TRUE]
  <2>1. /\ c \in Children /\ c.task = child.task /\ c.count = child.count /\ c.final = child.final
        /\ c.right = child.right /\ c.trial = child.trial
    BY <1>1 DEF Children
  <2>2. Ends(c)
    <3> HIDE DEF c
    <3> QED
      BY <1>2, <2>1, FinishedEnds DEF c
  <2>3. ctx'.fault = "none" /\ ~ctx'.work
    BY <1>2, SyncTypes DEF EvalInv, Typed
  <2> HIDE DEF c
  <2>4. TrialOK'
    BY <2>1, <2>2 DEF Ends, EvalInv, TrialOK, Judging, Earned
  <2> QED
    BY <1>1, <2>1, <2>2, <2>3, <2>4 DEF Ends, StageMove
<1>3. CASE CandidateFailure
  BY <1>1, <1>3, CandidateEnds, EndMoves DEF EvalInv
<1>4. ASSUME NEW t \in Text, Failed(t) PROVE StageMove
  BY <1>1, <1>4, FailedEnds, EndMoves DEF EvalInv
<1> QED
  BY <1>2, <1>3, <1>4 DEF Finish

LEMMA TimeMoves ==
  ASSUME EvalInv, Time
  PROVE  StageMove
<1>1. child.pc = "eval" /\ UNCHANGED Parent /\ ctx' \in Contexts /\ child \in Children
  BY SyncTypes, LaunchTypes DEF Time, At, EvalInv, Typed
<1>2. CASE Goes("footprint")
  BY <1>1, <1>2, GoMoves DEF EvalInv, Early, Stages
<1>3. CASE Finished(child)
  BY <1>1, <1>3, FinishedEnds, EndMoves DEF EvalInv
<1>4. CASE ctx'.fault # "none" /\ Failed(ctx'.fault)
  <2>1. ctx'.fault \in Text
    BY <1>1, <1>4 DEF Contexts, Severity, Text
  <2> QED
    BY <1>1, <1>4, <2>1, FailedEnds, EndMoves DEF EvalInv
<1> QED
  BY <1>2, <1>3, <1>4 DEF Time

LEMMA FootprintMoves ==
  ASSUME EvalInv, Footprint
  PROVE  StageMove
<1>1. child.pc = "eval" /\ UNCHANGED Parent /\ ctx' \in Contexts /\ child \in Children
  BY LaunchTypes DEF Footprint, At, EvalInv, Typed
<1>2. CASE Finished(child)
  BY <1>1, <1>2, FinishedEnds, EndMoves DEF EvalInv
<1>3. ASSUME NEW t \in Text, Failed(t) PROVE StageMove
  BY <1>1, <1>3, FailedEnds, EndMoves DEF EvalInv
<1> QED
  BY <1>2, <1>3 DEF Footprint

LEMMA EvaluateMoves ==
  ASSUME EvalInv, Evaluate
  PROVE  StageMove
BY LoadMoves, CompileMoves, BuildMoves, BudgetMoves, InputsMoves, ReferenceMoves, ForwardMoves, VerdictMoves,
   PostCheckMoves, ProbeMoves, DetectMoves, PerformMoves, MemoryMoves, FinishMoves, TimeMoves, FootprintMoves
   DEF Evaluate, Check

-----------------------------------------------------------------------------
(* The channels.                                                           *)

LEMMA Fields ==
  ASSUME Typed
  PROVE  /\ lim \in Nat /\ lim # 0 /\ MinPasses \in Nat /\ MinPasses # 0
         /\ par.count \in Nat /\ par.task \in Nat /\ child.count \in Nat /\ child.task \in Nat
         /\ child.text \in Text /\ child.final \in BOOLEAN /\ ctx.fault \in Severity
         /\ out.task \in Nat /\ out.sev \in Severity /\ out.final \in BOOLEAN
BY CudaAssumption DEF Typed, Handles, Children, Contexts, Outcomes

LEMMA First ==
  ASSUME NEW S, NEW m \in S, NEW s, s = <<>>
  PROVE  /\ Append(s, m) \in Seq(S) /\ Len(Append(s, m)) = 1
         /\ Append(s, m) # <<>> /\ Head(Append(s, m)) = m
<1>1. s \in Seq(S) /\ Len(s) = 0
  BY EmptySeq
<1>2. /\ Append(s, m) \in Seq(S) /\ Len(Append(s, m)) = 1 /\ Append(s, m)[1] = m
  BY <1>1, AppendProperties
<1> QED
  BY <1>2, HeadTailProperties, EmptySeq

LEMMA Taken ==
  ASSUME NEW S, NEW s \in Seq(S), s # <<>>
  PROVE  /\ Head(s) \in S /\ Tail(s) \in Seq(S) /\ Len(Tail(s)) = Len(s) - 1 /\ Len(s) \in Nat
         /\ Len(s) <= 1 => Tail(s) = <<>>
<1>1. Head(s) \in S /\ Tail(s) \in Seq(S) /\ Len(Tail(s)) = Len(s) - 1 /\ Len(s) \in Nat /\ Len(s) # 0
  BY HeadTailProperties, LenProperties, EmptySeq
<1>2. Len(s) <= 1 => Tail(s) = <<>>
  BY <1>1, EmptySeq
<1> QED
  BY <1>1, <1>2

LEMMA NoneIn ==
  /\ \A S : <<>> \in Seq(S)
  /\ Len(<<>>) = 0
BY EmptySeq

-----------------------------------------------------------------------------
(* Every action keeps the invariant.                                       *)

LEMMA StageKeeps ==
  ASSUME Inv, StageMove
  PROVE  Inv'
<1>1. Typed'
  BY DEF Inv, Typed, StageMove, Parent
<1>2. TrialOK'
  BY DEF StageMove
<1>3. ErrorOK' /\ ContextOK'
  BY DEF Inv, ErrorOK, ContextOK, Clean, StageMove
<1>4. ChannelsOK' /\ StartOK'
  BY DEF Inv, ChannelsOK, StartOK, StageMove, Parent
<1>5. RunOK'
  BY DEF Inv, RunOK, ChannelsOK, StageMove, Parent
<1>6. HandleAgrees' /\ OutcomeOK'
  <2>1. par.pc # "idle" /\ ~Known
    BY DEF Inv, HandleAgrees, OutcomeOK, StageMove
  <2>2. UNCHANGED par /\ UNCHANGED out
    BY DEF StageMove, Parent
  <2> QED
    BY <2>1, <2>2 DEF Inv, HandleAgrees, OutcomeOK, Known
<1> QED
  BY <1>1, <1>2, <1>3, <1>4, <1>5, <1>6 DEF Inv

\* A step of the child that only changes its point.
LEMMA PointTyped ==
  ASSUME Typed, NEW pc \in {"boot", "unacked", "get", "eval", "commit", "error", "wait", "gone"}, Becomes(pc)
  PROVE  /\ child' \in Children /\ child'.pc = pc
         /\ child'.task = child.task /\ child'.count = child.count /\ child'.final = child.final
         /\ child'.crossed = child.crossed /\ child'.right = child.right /\ child'.trial = child.trial
         /\ child'.text = child.text
BY DEF Becomes, Typed, Children

LEMMA PointTrial ==
  ASSUME Typed, TrialOK, NEW pc \in {"unacked", "get", "wait", "gone"}, Becomes(pc)
  PROVE  TrialOK'
BY PointTyped DEF TrialOK, Judging, Earned

LEMMA MessageTyped ==
  ASSUME Typed, NEW kind \in {"contained", "ready", "init_failed"}
  PROVE  Message(kind) \in Messages /\ Message(kind).kind = kind
BY Fields DEF Message, Messages, Severity, Text

LEMMA ContainedKeeps ==
  ASSUME Inv, Contained
  PROVE  Inv'
<1>1. /\ child.pc = "boot" /\ UNCHANGED <<lim, par, ctx, inq, out>> /\ Typed /\ inq = <<>> /\ pipe = <<>>
      /\ child.count = 0 /\ ~child.final
  BY DEF Contained, Inv, ChannelsOK, StartOK, ErrorOK
<1>2. PICK kind \in {"contained", "init_failed"}, pc \in {"unacked", "gone"} : Sends(Message(kind)) /\ Becomes(pc)
  BY DEF Contained
<1>3. /\ pipe' \in Seq(Messages) /\ Len(pipe') = 1
  BY <1>1, <1>2, MessageTyped, First DEF Sends
<1>4. /\ child' \in Children /\ child'.pc = pc /\ child'.count = 0 /\ ~child'.final
  BY <1>1, <1>2, PointTyped
<1>5. Typed' /\ TrialOK' /\ ErrorOK' /\ ContextOK'
  BY <1>1, <1>2, <1>4, PointTrial DEF Inv, Typed, ErrorOK, ContextOK, Clean
<1>6. ChannelsOK' /\ StartOK'
  <2>1. par.pc # "ready"
    BY <1>1 DEF Inv, StartOK
  <2> QED
    BY <1>1, <1>3, <1>4, <2>1, EmptySeq DEF Inv, ChannelsOK, StartOK
<1>7. RunOK' /\ HandleAgrees' /\ OutcomeOK'
  <2>1. par.pc \notin {"run", "idle"} /\ ~Known
    BY <1>1 DEF Inv, RunOK, HandleAgrees, OutcomeOK
  <2> QED
    BY <1>1, <2>1 DEF Inv, RunOK, HandleAgrees, OutcomeOK, Known
<1> QED
  BY <1>5, <1>6, <1>7 DEF Inv

LEMMA OpenContextKeeps ==
  ASSUME Inv, OpenContext
  PROVE  Inv'
<1>1. /\ child.pc = "unacked" /\ UNCHANGED <<lim, par, out>> /\ Typed /\ inq # <<>> /\ inq' = Tail(inq)
      /\ child.count = 0 /\ ~child.final /\ Clean /\ Len(inq) <= 1 /\ pipe = <<>>
      /\ pipe \in Seq(Messages) /\ inq \in Seq(Nat)
  BY DEF OpenContext, Inv, ChannelsOK, StartOK, ErrorOK, ContextOK
<1>2. PICK kind \in {"ready", "init_failed"}, pc \in {"get", "wait"} :
         Sends(Message(kind)) /\ Becomes(pc) /\ (kind = "ready" <=> pc = "get")
  BY DEF OpenContext
<1>3. ctx' \in Contexts /\ ctx'.fault = "none" /\ ~ctx'.work
  BY <1>1 DEF OpenContext, Typed, Contexts, Clean
<1>4. /\ child' \in Children /\ child'.pc = pc /\ child'.count = 0 /\ ~child'.final
  BY <1>1, <1>2, PointTyped
<1>5. Typed' /\ TrialOK' /\ ErrorOK' /\ ContextOK'
  BY <1>1, <1>2, <1>3, <1>4, PointTrial DEF Inv, Typed, ErrorOK, ContextOK, Clean
<1>6. inq' = <<>> /\ inq' \in Seq(Nat)
  BY <1>1, Taken, EmptySeq
<1>7. /\ par.pc \notin {"boot", "run", "idle"} /\ ~Known
  BY <1>1 DEF Inv, StartOK, RunOK, HandleAgrees, OutcomeOK
<1>8. pipe' \in Seq(Messages) /\ Len(pipe') = 1 /\ Head(pipe').kind = kind
  BY <1>1, <1>2, MessageTyped, First DEF Sends
<1>9. ChannelsOK' /\ StartOK'
  BY <1>1, <1>2, <1>4, <1>6, <1>7, <1>8, EmptySeq DEF Inv, ChannelsOK, StartOK
<1>10. RunOK' /\ HandleAgrees' /\ OutcomeOK'
  BY <1>1, <1>7 DEF Inv, RunOK, HandleAgrees, OutcomeOK, Known
<1> QED
  BY <1>5, <1>9, <1>10 DEF Inv

LEMMA AckTimeoutKeeps ==
  ASSUME Inv, AckTimeout
  PROVE  Inv'
<1>1. /\ child.pc = "unacked" /\ UNCHANGED <<lim, par, ctx, inq, out>> /\ Typed
      /\ Becomes("gone") /\ Sends(Message("init_failed")) /\ ~child.final /\ Len(pipe) <= 1
      /\ pipe \in Seq(Messages)
  BY DEF AckTimeout, Inv, ChannelsOK, ErrorOK
<1>2. child' \in Children /\ child'.pc = "gone" /\ ~child'.final
  BY <1>1, PointTyped
<1>3. Typed' /\ TrialOK' /\ ErrorOK' /\ ContextOK'
  BY <1>1, <1>2, PointTrial DEF Inv, Typed, ErrorOK, ContextOK
<1>4. pipe' \in Seq(Messages) /\ Len(pipe') = Len(pipe) + 1 /\ Len(pipe) \in Nat
  BY <1>1, MessageTyped, AppendProperties, LenProperties DEF Sends
<1>5. ChannelsOK' /\ StartOK'
  BY <1>1, <1>2, <1>4 DEF Inv, ChannelsOK, StartOK
<1>6. RunOK' /\ HandleAgrees' /\ OutcomeOK'
  <2>1. par.pc \notin {"run", "idle"} /\ ~Known
    BY <1>1 DEF Inv, RunOK, HandleAgrees, OutcomeOK
  <2> QED
    BY <1>1, <2>1 DEF Inv, RunOK, HandleAgrees, OutcomeOK, Known
<1> QED
  BY <1>3, <1>5, <1>6 DEF Inv

LEMMA DiesKeeps ==
  ASSUME Inv, Dies
  PROVE  Inv'
<1>1. Becomes("gone") /\ UNCHANGED <<lim, par, ctx, inq, pipe, out>> /\ Typed
  BY DEF Dies, Inv
<1>2. /\ child' \in Children /\ child'.pc = "gone" /\ child'.final = child.final /\ child'.text = child.text
  BY <1>1, PointTyped
<1>3. Typed' /\ TrialOK' /\ ErrorOK' /\ ContextOK'
  BY <1>1, <1>2, PointTrial DEF Inv, Typed, ErrorOK, ContextOK
<1>4. ChannelsOK' /\ StartOK'
  BY <1>1, <1>2 DEF Inv, ChannelsOK, StartOK
<1>5. RunOK'
  BY <1>1, <1>2 DEF Inv, RunOK, Truthful, Clean
<1>6. HandleAgrees' /\ OutcomeOK'
  BY <1>1, <1>2 DEF Inv, HandleAgrees, OutcomeOK, Known, Clean
<1> QED
  BY <1>3, <1>4, <1>5, <1>6 DEF Inv

LEMMA GetKeeps ==
  ASSUME Inv, Get
  PROVE  Inv'
<1> DEFINE c == [NewChild EXCEPT !.count = child.count, !.task = Head(inq)]
<1>1. /\ child.pc = "get" /\ inq # <<>> /\ inq' = Tail(inq) /\ UNCHANGED <<lim, par, ctx, pipe, out>> /\ Typed
      /\ inq \in Seq(Nat) /\ Len(inq) <= 1 /\ pipe = <<>>
  BY DEF Get, Inv, ChannelsOK
<1>2. Head(inq) \in Nat /\ inq' = <<>> /\ inq' \in Seq(Nat)
  BY <1>1, Taken, EmptySeq
<1>3. NoTrials \in Counts
  BY CudaAssumption DEF NoTrials, Counts
<1>4. PICK kind \in {"none", "kernel", "reference"}, pc \in {"eval", "error"}, stage \in {"none", "load"} :
         child' = [c EXCEPT !.pc = pc, !.kind = kind, !.stage = stage] /\ (pc = "eval" => stage = "load")
  <2>1. ASSUME NEW kind \in {"kernel", "reference"}, child' = [c EXCEPT !.pc = "eval", !.kind = kind, !.stage = "load"]
        PROVE  \E k \in {"none", "kernel", "reference"}, pc \in {"eval", "error"}, stage \in {"none", "load"} :
                 child' = [c EXCEPT !.pc = pc, !.kind = k, !.stage = stage] /\ (pc = "eval" => stage = "load")
    BY <2>1
  <2>2. CASE child' = [c EXCEPT !.pc = "error"]
    <3>1. c \in Children /\ c.kind = "none" /\ c.stage = "none"
      BY <1>1, <1>2, <1>3, Fields DEF NewChild, Children, Stages, Text
    <3>2. child' = [c EXCEPT !.pc = "error", !.kind = "none", !.stage = "none"]
      <4> HIDE DEF c
      <4> QED
        BY <2>2, <3>1 DEF Children
    <3> QED
      BY <3>2
  <2> QED
    BY <2>1, <2>2 DEF Get
<1>5. /\ child' \in Children /\ child'.pc = pc /\ child'.stage = stage /\ child'.task = Head(inq) /\ child'.count = child.count
      /\ ~child'.final /\ ~child'.crossed /\ ~child'.right /\ child'.trial = NoTrials
  BY <1>2, <1>3, <1>4, Fields, <1>1 DEF NewChild, Children, Stages, Text
<1>6. TrialOK'
  BY <1>4, <1>5 DEF TrialOK, Judging, NoTrials
<1>7. Typed' /\ ErrorOK' /\ ContextOK'
  BY <1>1, <1>4, <1>5 DEF Inv, Typed, ErrorOK, ContextOK
<1>8. par.pc \notin {"boot", "ready", "idle"} /\ ~Known
  BY <1>1 DEF Inv, StartOK, HandleAgrees, OutcomeOK
<1>9. ChannelsOK' /\ StartOK'
  BY <1>1, <1>2, <1>4, <1>5, <1>8 DEF Inv, ChannelsOK, StartOK
<1>10. RunOK'
  BY <1>1, <1>2, <1>4, <1>5, NoneIn DEF Inv, RunOK
<1>11. HandleAgrees' /\ OutcomeOK'
  BY <1>1, <1>8 DEF Inv, HandleAgrees, OutcomeOK, Known
<1> QED
  BY <1>6, <1>7, <1>9, <1>10, <1>11 DEF Inv

-----------------------------------------------------------------------------
(* The end of a task.                                                      *)

\* A child that has a task in hand.
LEMMA InTask ==
  ASSUME Inv, child.pc \in {"commit", "error"}
  PROVE  /\ Typed /\ inq = <<>> /\ pipe = <<>> /\ par.pc \in {"run", "dead"} /\ ~Known
         /\ par.pc = "run" => child.task = par.task /\ child.count = par.count
<1>1. inq = <<>> /\ pipe = <<>> /\ ~Known
  BY DEF Inv, ChannelsOK, OutcomeOK
<1>2. par.pc \notin {"boot", "ready", "idle"}
  BY DEF Inv, StartOK, HandleAgrees
<1>3. par.pc \in {"run", "dead"}
  BY <1>2 DEF Inv, Typed, Handles
<1> QED
  BY <1>1, <1>3 DEF Inv, RunOK

\* An answer that is true of the context as it is afterwards.
LEMMA PublishKeeps ==
  ASSUME Inv, child.pc \in {"commit", "error"},
         NEW exiting \in BOOLEAN, NEW sev \in Severity, NEW text \in Text, NEW final \in BOOLEAN,
         Publishes(exiting, sev, text, final), UNCHANGED <<lim, par, inq, out>>, ctx' \in Contexts,
         Strongest(sev, Class(text, final)) = "none" => Clean',
         final => Strongest(sev, Class(text, final)) = ctx'.fault,
         ~exiting => Clean',
         child.final => exiting /\ ctx' = ctx
  PROVE  Inv'
<1>1. /\ Typed /\ inq = <<>> /\ pipe = <<>> /\ par.pc \in {"run", "dead"} /\ ~Known
      /\ par.pc = "run" => child.task = par.task /\ child.count = par.count
  BY InTask
<1>2. PICK m \in Messages : /\ pipe' = Append(pipe, m) /\ m.task = child.task /\ m.exiting = exiting
                            /\ m.sev = sev /\ m.text = text /\ m.final = final
  <2> DEFINE m == Result(exiting, sev, text, final)
  <2>1. m \in Messages /\ m.task = child.task /\ m.exiting = exiting /\ m.sev = sev /\ m.text = text /\ m.final = final
    BY <1>1, Fields DEF Result, Messages
  <2>2. pipe' = Append(pipe, m)
    BY DEF Publishes, Sends
  <2> QED
    BY <2>1, <2>2
<1>3. Truthful(m)'
  BY <1>2 DEF Truthful, Graded, Clean
<1>4. pipe' \in Seq(Messages) /\ Len(pipe') = 1 /\ pipe' # <<>> /\ Head(pipe') = m
  BY <1>1, <1>2, First
<1>5. PICK pc \in {"wait", "get"} : pc = IF exiting THEN "wait" ELSE "get"
  OBVIOUS
<1>6. child' = [child EXCEPT !.pc = pc, !.count = @ + 1]
  BY <1>5 DEF Publishes
<1>7. /\ child' \in Children /\ child'.pc = pc /\ child'.count = child.count + 1 /\ child'.task = child.task
      /\ child'.final = child.final /\ child'.text = child.text /\ child'.right = child.right /\ child'.trial = child.trial
  <2>1. child \in Children /\ child.count + 1 \in Nat
    BY <1>1, Fields DEF Typed
  <2> QED
    BY <1>5, <1>6, <2>1 DEF Children
<1>8. Typed' /\ TrialOK'
  BY <1>1, <1>7 DEF Inv, Typed, TrialOK, Judging, Earned
<1>9. ErrorOK' /\ ContextOK'
  BY <1>5, <1>7 DEF Inv, ErrorOK, ContextOK
<1>10. ChannelsOK' /\ StartOK'
  BY <1>1, <1>4, <1>7, NoneIn DEF Inv, ChannelsOK, StartOK
<1>11. RunOK'
  BY <1>1, <1>2, <1>3, <1>4, <1>5, <1>7 DEF Inv, RunOK
<1>12. HandleAgrees' /\ OutcomeOK'
  BY <1>1 DEF Inv, HandleAgrees, OutcomeOK, Known
<1> QED
  BY <1>8, <1>9, <1>10, <1>11, <1>12 DEF Inv

LEMMA SyncClean ==
  ASSUME Typed, Syncs
  PROVE  Clean' /\ ctx' \in Contexts /\ ctx.fault = "none"
BY SyncTypes DEF Typed, Clean

LEMMA CommitIssuesKeeps ==
  ASSUME Inv, CommitIssues
  PROVE  Inv'
<1>1. child.pc = "commit" /\ UNCHANGED <<lim, par, ctx, inq, out>> /\ ctx \in Contexts /\ ~child.final
  BY DEF CommitIssues, Inv, Typed, ErrorOK
<1>2. PICK t \in {"context", "device"} : Publishes(TRUE, "none", t, FALSE)
  BY DEF CommitIssues
<1>3. Strongest("none", Class(t, FALSE)) # "none"
  BY DEF Strongest, Class
<1>4. t \in Text /\ "none" \in Severity
  BY DEF Text, Severity
<1> QED
  BY <1>1, <1>2, <1>3, <1>4, PublishKeeps

\* A child in the hands of an error.
LEMMA ErrorKeeps ==
  ASSUME Inv, child.pc = "commit", NEW text \in Text, NEW final \in BOOLEAN,
         child' = [child EXCEPT !.pc = "error", !.text = text, !.final = final],
         UNCHANGED <<lim, par, inq, pipe, out>>, ctx' \in Contexts, final => ctx'.fault # "none" /\ text = ctx'.fault
  PROVE  Inv'
<1>1. /\ Typed /\ inq = <<>> /\ pipe = <<>> /\ par.pc \in {"run", "dead"} /\ ~Known
      /\ par.pc = "run" => child.task = par.task /\ child.count = par.count
  BY InTask
<1>2. /\ child' \in Children /\ child'.pc = "error" /\ child'.count = child.count /\ child'.task = child.task
      /\ child'.final = final /\ child'.text = text /\ child'.right = child.right /\ child'.trial = child.trial
  BY <1>1 DEF Typed, Children
<1>3. Typed' /\ TrialOK' /\ ErrorOK' /\ ContextOK'
  BY <1>1, <1>2 DEF Inv, Typed, TrialOK, Judging, Earned, ErrorOK, ContextOK
<1>4. ChannelsOK' /\ StartOK'
  BY <1>1, <1>2 DEF Inv, ChannelsOK, StartOK
<1>5. RunOK'
  BY <1>1, <1>2 DEF Inv, RunOK
<1>6. HandleAgrees' /\ OutcomeOK'
  BY <1>1 DEF Inv, HandleAgrees, OutcomeOK, Known
<1> QED
  BY <1>3, <1>4, <1>5, <1>6 DEF Inv

LEMMA CommitKeeps ==
  ASSUME Inv, Commit
  PROVE  Inv'
<1>1. /\ child.pc = "commit" /\ UNCHANGED <<lim, par, inq, out>> /\ ctx \in Contexts /\ ~child.final /\ Typed
      /\ child.crossed => Clean
  BY DEF Commit, Inv, Typed, ErrorOK
<1>2. CASE (Syncs \/ (child.crossed /\ lim = 1 /\ UNCHANGED ctx)) /\ Publishes(Limit, "none", "plain", FALSE)
  <2>1. Clean' /\ ctx' \in Contexts
    BY <1>1, <1>2, SyncClean DEF Clean
  <2>2. Limit \in BOOLEAN /\ "plain" \in Text /\ "none" \in Severity
    BY DEF Limit, Text, Severity
  <2> QED
    BY <1>1, <1>2, <2>1, <2>2, PublishKeeps
<1>3. CASE /\ ctx.fault # "none"
           /\ child' = [child EXCEPT !.pc = "error", !.text = ctx.fault, !.final = TRUE]
           /\ UNCHANGED <<ctx, pipe>>
  <2>1. ctx.fault \in Text
    BY <1>1, <1>3, Fields DEF Severity, Text
  <2> QED
    BY <1>1, <1>3, <2>1, ErrorKeeps
<1> QED
  BY <1>2, <1>3 DEF Commit

LEMMA UnsendableKeeps ==
  ASSUME Inv, Unsendable
  PROVE  Inv'
<1>1. /\ child.pc = "commit" /\ UNCHANGED <<lim, par, inq, pipe, out>> /\ ~child.final /\ Typed
      /\ ctx' \in Contexts
  BY SyncClean DEF Unsendable, Inv, Typed, ErrorOK
<1>2. child' = [child EXCEPT !.pc = "error", !.text = "device"]
  BY DEF Unsendable
<1>3. child' = [child EXCEPT !.pc = "error", !.text = "device", !.final = FALSE]
  BY <1>1, <1>2, Fields DEF Typed, Children
<1>4. "device" \in Text
  BY DEF Text
<1> QED
  BY <1>1, <1>3, <1>4, ErrorKeeps

LEMMA PublishFaultKeeps ==
  ASSUME Inv, PublishFault
  PROVE  Inv'
<1>1. /\ child.pc = "error" /\ UNCHANGED <<lim, par, ctx, inq, out>> /\ ctx \in Contexts /\ Typed
      /\ child.final => ctx.fault # "none" /\ child.text = ctx.fault
  BY DEF PublishFault, Inv, Typed, ErrorOK
<1>2. PICK sev \in Severity : sev = Class(child.text, child.final) /\ sev # "none"
  BY DEF PublishFault, Class, Severity
<1>3. Publishes(TRUE, sev, child.text, child.final)
  BY <1>2 DEF PublishFault
<1>4. Strongest(sev, Class(child.text, child.final)) = sev
  BY <1>2 DEF Strongest, Severity
<1>5. child.final => sev = ctx.fault
  BY <1>1, <1>2, Fields DEF Class, Severity
<1> QED
  BY <1>1, <1>2, <1>3, <1>4, <1>5, Fields, PublishKeeps

LEMMA PublishErrorKeeps ==
  ASSUME Inv, PublishError
  PROVE  Inv'
<1>1. /\ child.pc = "error" /\ UNCHANGED <<lim, par, inq, out>> /\ ctx \in Contexts /\ Typed
  BY DEF PublishError, Inv, Typed
<1>2. Class(child.text, child.final) = "none" /\ ~child.final /\ Class(child.text, FALSE) = "none"
  BY <1>1, Fields DEF PublishError, Class
<1>3. CASE Syncs /\ Publishes(child.text = "benign" \/ Limit, "none", child.text, FALSE)
  <2>1. PICK exiting \in BOOLEAN : exiting = (child.text = "benign" \/ Limit)
    BY Zenon
  <2>2. Publishes(exiting, "none", child.text, FALSE)
    BY <1>3, <2>1
  <2> QED
    BY <1>1, <1>2, <1>3, <2>2, SyncClean, Fields, PublishKeeps DEF Severity
<1>4. CASE ctx.fault # "none" /\ Publishes(TRUE, "context", ctx.fault, TRUE) /\ UNCHANGED ctx
  <2>1. ctx.fault \in Text /\ "context" \in Severity
    BY <1>1, <1>4, Fields DEF Severity, Text
  <2>2. Strongest("context", Class(ctx.fault, TRUE)) = ctx.fault
    BY <1>1, <1>4, Fields DEF Strongest, Class, Severity
  <2> QED
    BY <1>1, <1>2, <1>4, <2>1, <2>2, PublishKeeps
<1> QED
  BY <1>3, <1>4 DEF PublishError

-----------------------------------------------------------------------------
(* The handle.                                                             *)

\* What the handle reads and how it ends leaves the child to itself.
LEMMA ReadKeeps ==
  ASSUME Inv, UNCHANGED <<child, ctx>>, pipe' = pipe \/ (pipe # <<>> /\ pipe' = Tail(pipe)),
         inq' = inq
  PROVE  /\ TrialOK' /\ ErrorOK' /\ ContextOK' /\ ChannelsOK'
         /\ Len(pipe) <= 1 /\ pipe' # pipe => pipe' = <<>>
<1>1. /\ pipe \in Seq(Messages) /\ pipe' \in Seq(Messages)
      /\ Len(pipe') <= Len(pipe) /\ Len(pipe) \in Nat /\ Len(pipe') \in Nat
      /\ pipe = <<>> => pipe' = <<>>
      /\ Len(pipe) <= 1 /\ pipe' # pipe => pipe' = <<>>
  <2>1. pipe \in Seq(Messages) /\ Len(pipe) \in Nat
    BY LenProperties DEF Inv, ChannelsOK
  <2>2. CASE pipe' = pipe
    BY <2>1, <2>2
  <2>3. CASE pipe # <<>> /\ pipe' = Tail(pipe)
    <3>1. pipe' \in Seq(Messages) /\ Len(pipe') = Len(pipe) - 1 /\ (Len(pipe) <= 1 => pipe' = <<>>)
      BY <2>1, <2>3, Taken
    <3>2. Len(pipe') \in Nat
      BY <3>1, LenProperties
    <3>3. pipe # <<>>
      BY <2>3
    <3>4. Len(pipe') <= Len(pipe)
      BY <2>1, <3>1, <3>2
    <3> QED
      BY <2>1, <3>1, <3>2, <3>3, <3>4, Zenon
  <2> QED
    BY <2>2, <2>3
<1>2. ChannelsOK'
  BY <1>1 DEF Inv, ChannelsOK
<1>3. TrialOK' /\ ErrorOK' /\ ContextOK'
  BY DEF Inv, TrialOK, Judging, ErrorOK, ContextOK, Clean
<1> QED
  BY <1>1, <1>2, <1>3

LEMMA DeadKeeps ==
  ASSUME Inv, par' \in Handles, par'.pc = "dead", out' \in Outcomes, UNCHANGED <<lim, child, ctx, inq>>,
         pipe' = pipe \/ (pipe # <<>> /\ pipe' = Tail(pipe)), OutcomeOK'
  PROVE  Inv'
<1>1. TrialOK' /\ ErrorOK' /\ ContextOK' /\ ChannelsOK'
  BY ReadKeeps
<1>2. Typed'
  BY DEF Inv, Typed
<1>3. StartOK' /\ RunOK' /\ HandleAgrees'
  BY DEF Inv, StartOK, RunOK, HandleAgrees
<1> QED
  BY <1>1, <1>2, <1>3 DEF Inv

LEMMA AttestKeeps ==
  ASSUME Inv, Attest
  PROVE  Inv'
<1>1. /\ par.pc = "boot" /\ pipe # <<>> /\ pipe' = Tail(pipe) /\ UNCHANGED <<lim, child, ctx, out>> /\ Typed
      /\ par.count = 0 /\ inq = <<>> /\ child.pc \in {"boot", "unacked", "gone"} /\ ~Known
  BY DEF Attest, Reads, Inv, StartOK, OutcomeOK
<1>2. CASE par' = [par EXCEPT !.pc = "dead"] /\ UNCHANGED inq
  <2>1. par' \in Handles /\ par'.pc = "dead" /\ par'.task = par.task
    BY <1>1, <1>2 DEF Typed, Handles
  <2>2. OutcomeOK'
    BY <1>1, <2>1 DEF Inv, OutcomeOK, Known
  <2> QED
    BY <1>1, <1>2, <2>1, <2>2, DeadKeeps DEF Typed
<1>3. CASE /\ child.pc # "gone"
           /\ par' = [par EXCEPT !.pc = "ready", !.attested = TRUE]
           /\ inq' = Append(inq, Ack)
  <2>1. /\ par' \in Handles /\ par'.pc = "ready" /\ par'.task = par.task /\ par'.count = 0
    BY <1>1, <1>3 DEF Typed, Handles
  <2>2. inq' \in Seq(Nat) /\ Len(inq') = 1
    BY <1>1, <1>3, First DEF Ack
  <2>3. child.pc = "unacked" /\ Len(pipe) <= 1 /\ pipe \in Seq(Messages)
    BY <1>1, <1>3 DEF Inv, ChannelsOK
  <2>4. pipe' = <<>> /\ pipe' \in Seq(Messages)
    BY <1>1, <2>3, Taken
  <2>5. Typed' /\ TrialOK' /\ ErrorOK' /\ ContextOK'
    BY <1>1, <2>1 DEF Inv, Typed, TrialOK, Judging, ErrorOK, ContextOK, Clean
  <2>6. ChannelsOK' /\ StartOK'
    BY <1>1, <2>1, <2>2, <2>3, <2>4, NoneIn DEF Inv, ChannelsOK, StartOK
  <2>7. RunOK' /\ HandleAgrees' /\ OutcomeOK'
    BY <1>1, <2>1 DEF Inv, RunOK, HandleAgrees, OutcomeOK, Known
  <2> QED
    BY <2>5, <2>6, <2>7 DEF Inv
<1> QED
  BY <1>2, <1>3 DEF Attest

LEMMA ReadyKeeps ==
  ASSUME Inv, Ready
  PROVE  Inv'
<1>1. /\ par.pc = "ready" /\ pipe # <<>> /\ pipe' = Tail(pipe) /\ UNCHANGED <<lim, child, ctx, inq, out>> /\ Typed
      /\ par.count = 0 /\ child.pc \in {"unacked", "get", "wait", "gone"} /\ ~Known
  BY DEF Ready, Reads, Inv, StartOK, OutcomeOK
<1>2. CASE par' = [par EXCEPT !.pc = "dead"]
  <2>1. par' \in Handles /\ par'.pc = "dead" /\ par'.task = par.task
    BY <1>1, <1>2 DEF Typed, Handles
  <2>2. OutcomeOK'
    BY <1>1, <2>1 DEF Inv, OutcomeOK, Known
  <2> QED
    BY <1>1, <2>1, <2>2, DeadKeeps DEF Typed
<1>3. CASE Head(pipe).kind = "ready" /\ child.pc # "gone" /\ par' = [par EXCEPT !.pc = "idle"]
  <2>1. /\ par' \in Handles /\ par'.pc = "idle" /\ par'.task = par.task /\ par'.count = 0
    BY <1>1, <1>3 DEF Typed, Handles
  <2>2. child.pc = "get" /\ inq = <<>> /\ child.count = 0 /\ Len(pipe) <= 1 /\ ctx.fault = "none"
    BY <1>1, <1>3 DEF Inv, StartOK, ChannelsOK, ContextOK, Clean
  <2>3. pipe' = <<>> /\ TrialOK' /\ ErrorOK' /\ ContextOK' /\ ChannelsOK'
    BY <1>1, <2>2, ReadKeeps
  <2>4. Typed' /\ StartOK' /\ RunOK'
    BY <1>1, <2>1, <2>2 DEF Inv, Typed, StartOK, RunOK
  <2>5. HandleAgrees'
    BY <1>1, <2>1, <2>2, <2>3, Fields DEF HandleAgrees
  <2>6. OutcomeOK'
    BY <1>1, <2>1 DEF Inv, OutcomeOK, Known
  <2> QED
    BY <2>3, <2>4, <2>5, <2>6 DEF Inv
<1> QED
  BY <1>2, <1>3 DEF Ready

LEMMA HandshakeFailsKeeps ==
  ASSUME Inv, HandshakeFails
  PROVE  Inv'
<1>1. /\ par.pc \in {"boot", "ready"} /\ UNCHANGED <<lim, child, ctx, inq, pipe, out>> /\ Typed /\ ~Known
  BY DEF HandshakeFails, Inv, OutcomeOK
<1>2. par' \in Handles /\ par'.pc = "dead" /\ par'.task = par.task
  BY <1>1 DEF HandshakeFails, Typed, Handles
<1>3. OutcomeOK'
  BY <1>1, <1>2 DEF Inv, OutcomeOK, Known
<1> QED
  BY <1>1, <1>2, <1>3, DeadKeeps DEF Typed

LEMMA NoOutcomeOK ==
  ASSUME out' = NoOutcome
  PROVE  OutcomeOK' /\ out' \in Outcomes
BY DEF OutcomeOK, Known, NoOutcome, Outcomes, Severity, Text

LEMMA SubmitKeeps ==
  ASSUME Inv, Submit
  PROVE  Inv'
<1>1. /\ par.pc = "idle" /\ UNCHANGED <<lim, child, ctx, pipe>> /\ Typed /\ out' = NoOutcome
      /\ child.pc = "get" /\ child.count = par.count /\ inq = <<>> /\ pipe = <<>>
      /\ inq' = Append(inq, par.task + 1)
  BY DEF Submit, Inv, HandleAgrees
<1>2. /\ par' \in Handles /\ par'.pc = "run" /\ par'.count = par.count /\ par'.task = par.task + 1
      /\ par.task + 1 \in Nat
  <2>1. par.task + 1 \in Nat /\ par \in Handles
    BY <1>1, Fields DEF Typed
  <2> QED
    BY <2>1 DEF Submit, Handles
<1>3. inq' \in Seq(Nat) /\ Len(inq') = 1 /\ inq' # <<>> /\ Head(inq') = par'.task
  BY <1>1, <1>2, First
<1>4. OutcomeOK' /\ out' \in Outcomes
  BY <1>1, NoOutcomeOK
<1>5. Typed' /\ TrialOK' /\ ErrorOK' /\ ContextOK'
  BY <1>1, <1>2, <1>4 DEF Inv, Typed, TrialOK, Judging, ErrorOK, ContextOK, Clean
<1>6. ChannelsOK' /\ StartOK'
  BY <1>1, <1>2, <1>3, NoneIn DEF Inv, ChannelsOK, StartOK
<1>7. RunOK' /\ HandleAgrees'
  BY <1>1, <1>2, <1>3, NoneIn DEF RunOK, HandleAgrees
<1> QED
  BY <1>4, <1>5, <1>6, <1>7 DEF Inv

LEMMA ReceiveKeeps ==
  ASSUME Inv, Receive
  PROVE  Inv'
<1> DEFINE m == Head(pipe)
           sev == Graded(m)
<1>1. /\ par.pc = "run" /\ pipe # <<>> /\ pipe' = Tail(pipe) /\ UNCHANGED <<lim, child, ctx, inq>> /\ Typed
      /\ HandsOver(IF m.exiting \/ par.count + 1 >= lim THEN "dead" ELSE "idle", sev, m.text, m.final, m.task)
  BY DEF Receive, Reads, Inv, Graded
<1>2. /\ Len(pipe) <= 1 /\ m.task = par.task /\ Truthful(m)
      /\ ~m.exiting /\ child.pc # "gone" => child.pc = "get" /\ child.count = par.count + 1
      /\ m \in Messages
  BY <1>1, Taken DEF Inv, RunOK, ChannelsOK
<1>3. m.text \in Text /\ m.final \in BOOLEAN /\ m.task \in Nat /\ sev \in Severity /\ m.exiting \in BOOLEAN
  BY <1>2 DEF Messages, Graded, Strongest, Severity
<1>4. out' \in Outcomes /\ out'.task = par.task /\ out'.sev = sev /\ out'.final = m.final
  BY <1>1, <1>2, <1>3 DEF HandsOver, Outcomes
<1>5. PICK pc \in {"dead", "idle"} : pc = IF m.exiting \/ par.count + 1 >= lim THEN "dead" ELSE "idle"
  OBVIOUS
<1>6. par' = [par EXCEPT !.pc = pc, !.count = @ + 1]
  BY <1>1, <1>5 DEF HandsOver
<1>7. /\ par' \in Handles /\ par'.pc = pc /\ par'.count = par.count + 1 /\ par'.task = par.task
  <2>1. par.count + 1 \in Nat /\ par \in Handles
    BY <1>1, Fields DEF Typed
  <2> QED
    BY <1>6, <2>1 DEF Handles
<1>8. pipe' = <<>> /\ TrialOK' /\ ErrorOK' /\ ContextOK' /\ ChannelsOK'
  BY <1>1, <1>2, ReadKeeps
<1>9. child.pc \in {"wait", "gone"} \/ (child.pc = "get" /\ inq = <<>>)
  BY <1>1 DEF Inv, RunOK, ChannelsOK
<1>10. OutcomeOK'
  <2>1. Known' => out'.final \/ out'.sev = "none"
    BY DEF Known
  <2>2. out'.sev = "none" => Clean'
    BY <1>1, <1>2, <1>4 DEF Truthful, Clean
  <2>3. out'.final => out'.sev = ctx'.fault
    BY <1>1, <1>2, <1>4 DEF Truthful
  <2> QED
    BY <1>1, <1>4, <1>5, <1>7, <1>9, <2>1, <2>2, <2>3 DEF OutcomeOK
<1>11. Typed' /\ RunOK'
  BY <1>1, <1>4, <1>5, <1>7 DEF Typed, RunOK
<1>12. StartOK'
  BY <1>1, <1>5, <1>7 DEF Inv, StartOK
<1>13. HandleAgrees'
  <2>1. CASE pc = "dead"
    BY <1>7, <2>1 DEF HandleAgrees
  <2>2. CASE pc = "idle"
    <3>1. ~m.exiting /\ par.count + 1 < lim
      BY <1>1, <1>5, <2>2, Fields
    <3>2. ctx.fault = "none"
      BY <1>2, <3>1 DEF Truthful
    <3> QED
      BY <1>1, <1>2, <1>7, <1>8, <1>9, <3>1, <3>2 DEF HandleAgrees
  <2> QED
    BY <2>1, <2>2
<1> QED
  BY <1>8, <1>10, <1>11, <1>12, <1>13 DEF Inv

LEMMA GivenUpKeeps ==
  ASSUME Inv, par.pc = "run", par' \in Handles, par'.pc = "dead", par'.task = par.task,
         out' = [task |-> par.task, sev |-> "device", text |-> "plain", final |-> FALSE],
         UNCHANGED <<lim, child, ctx, inq, pipe>>
  PROVE  Inv'
<1>1. out' \in Outcomes
  BY Fields DEF Inv, Outcomes, Severity, Text
<1>2. OutcomeOK'
  BY DEF OutcomeOK, Known
<1> QED
  BY <1>1, <1>2, DeadKeeps

LEMMA CrashKeeps ==
  ASSUME Inv, Crash
  PROVE  Inv'
<1>1. par.count + 1 \in Nat /\ par \in Handles
  BY Fields DEF Inv, Typed
<1>2. par' \in Handles /\ par'.pc = "dead" /\ par'.task = par.task
  BY <1>1 DEF Crash, HandsOver, Handles
<1> QED
  BY <1>2, GivenUpKeeps DEF Crash, HandsOver

LEMMA TimeoutKeeps ==
  ASSUME Inv, Timeout
  PROVE  Inv'
<1>1. par' \in Handles /\ par'.pc = "dead" /\ par'.task = par.task
  BY DEF Timeout, Inv, Typed, Handles
<1> QED
  BY <1>1, GivenUpKeeps DEF Timeout

\* A fresh child behind a fresh handle.
LEMMA NewOK ==
  ASSUME lim' \in Limits, NEW task \in Nat, par' = [NewHandle EXCEPT !.task = task], child' = NewChild, ctx' = NoContext,
         inq' = <<>>, pipe' = <<>>, out' = NoOutcome
  PROVE  Inv'
<1>1. OutcomeOK' /\ out' \in Outcomes
  BY NoOutcomeOK
<1>2. NoTrials \in Counts
  BY CudaAssumption DEF NoTrials, Counts
<1>3. child' \in Children /\ child'.pc = "boot" /\ ~child'.right /\ ~child'.final /\ child'.count = 0
  BY <1>2 DEF NewChild, Children, Stages, Text
<1>4. par' \in Handles /\ par'.pc = "boot" /\ par'.count = 0
  BY DEF NewHandle, Handles
<1>5. ctx' \in Contexts /\ Clean'
  BY DEF NoContext, Contexts, Severity, Clean
<1>6. Typed' /\ TrialOK' /\ ErrorOK' /\ ContextOK'
  BY <1>1, <1>3, <1>4, <1>5 DEF Typed, TrialOK, Judging, ErrorOK, ContextOK
<1>7. ChannelsOK' /\ StartOK' /\ RunOK' /\ HandleAgrees'
  BY <1>3, <1>4, NoneIn DEF ChannelsOK, StartOK, RunOK, HandleAgrees
<1> QED
  BY <1>1, <1>6, <1>7 DEF Inv

LEMMA RecycleKeeps ==
  ASSUME Inv, Recycle
  PROVE  Inv'
<1>1. lim' \in Limits /\ par.task \in Nat
  BY Fields DEF Recycle, Inv, Typed
<1> QED
  BY <1>1, NewOK DEF Recycle

-----------------------------------------------------------------------------
(* Theorems.                                                               *)

LEMMA InitInv ==
  ASSUME Init
  PROVE  Inv
<1>1. OutcomeOK /\ out \in Outcomes
  BY DEF Init, OutcomeOK, Known, NoOutcome, Outcomes, Severity, Text
<1>2. NoTrials \in Counts
  BY CudaAssumption DEF NoTrials, Counts
<1>3. child \in Children /\ child.pc = "boot" /\ ~child.right /\ ~child.final /\ child.count = 0
  BY <1>2 DEF Init, NewChild, Children, Stages, Text
<1>4. par \in Handles /\ par.pc = "boot" /\ par.count = 0
  BY DEF Init, NewHandle, Handles
<1>5. ctx \in Contexts /\ Clean
  BY DEF Init, NoContext, Contexts, Severity, Clean
<1>6. Typed /\ TrialOK /\ ErrorOK /\ ContextOK
  BY <1>1, <1>3, <1>4, <1>5 DEF Init, Typed, TrialOK, Judging, ErrorOK, ContextOK
<1>7. ChannelsOK /\ StartOK /\ RunOK /\ HandleAgrees
  BY <1>3, <1>4, NoneIn DEF Init, ChannelsOK, StartOK, RunOK, HandleAgrees
<1> QED
  BY <1>1, <1>6, <1>7 DEF Inv

LEMMA NextInv ==
  ASSUME Inv, [Next]_vars
  PROVE  Inv'
<1>1. CASE Handle
  BY <1>1, AttestKeeps, ReadyKeeps, HandshakeFailsKeeps, SubmitKeeps, ReceiveKeeps, CrashKeeps, TimeoutKeeps, RecycleKeeps
     DEF Handle
<1>2. CASE Evaluate
  <2>1. EvalInv
    BY DEF Inv, EvalInv
  <2> QED
    BY <1>2, <2>1, EvaluateMoves, StageKeeps
<1>3. CASE Loop
  BY <1>2, <1>3, ContainedKeeps, OpenContextKeeps, AckTimeoutKeeps, GetKeeps, CommitIssuesKeeps, CommitKeeps,
     UnsendableKeeps, PublishFaultKeeps, PublishErrorKeeps DEF Loop
<1>4. CASE UNCHANGED vars
  <2>1. UNCHANGED <<lim, child, ctx, inq, pipe, out>> /\ UNCHANGED par
    BY <1>4 DEF vars
  <2>2. Typed' /\ TrialOK' /\ ErrorOK' /\ ContextOK'
    BY <2>1 DEF Inv, Typed, TrialOK, Judging, ErrorOK, ContextOK, Clean
  <2>3. ChannelsOK' /\ StartOK'
    BY <2>1 DEF Inv, ChannelsOK, StartOK
  <2>4. RunOK' /\ HandleAgrees' /\ OutcomeOK'
    BY <2>1 DEF Inv, RunOK, Truthful, HandleAgrees, OutcomeOK, Known, Clean
  <2> QED
    BY <2>2, <2>3, <2>4 DEF Inv
<1> QED
  BY <1>1, <1>3, <1>4, DiesKeeps DEF Next

LEMMA InvAlways == Spec => []Inv
BY InitInv, NextInv, PTL DEF Spec

\* The handle, the child, its context and both channels keep their types, and at most
\* two messages wait: what the handshake and the protocol of the loop may send.
THEOREM CudaTypes == Spec => []TypeOK
<1>1. ASSUME Inv PROVE TypeOK
  <2>1. pipe \in Seq(Messages) /\ Len(pipe) <= 2 /\ inq \in Seq(Nat)
    BY <1>1 DEF Inv, ChannelsOK
  <2>2. \A i \in DOMAIN pipe : pipe[i].sev \in Severity
    <3>1. ASSUME NEW i \in DOMAIN pipe PROVE pipe[i] \in Messages
      <4>1. i \in 1..Len(pipe)
        BY <2>1, LenProperties
      <4> QED
        BY <2>1, <4>1, ElementOfSeq
    <3> QED
      BY <3>1 DEF Messages
  <2> QED
    BY <1>1, <2>1, <2>2 DEF Inv, Typed, TypeOK, Handles, Children, Counts, Contexts, Outcomes
<1> QED
  BY <1>1, InvAlways, PTL

\* What the pool is told of the context is true, whichever path the task ended on:
\* the commit barrier, the grading in the child and the one in the pool.
THEOREM SeverityStaysTrue == Spec => []SeverityIsTrue
<1>1. ASSUME Inv PROVE SeverityIsTrue
  BY <1>1 DEF Inv, OutcomeOK, Known, SeverityIsTrue, CleanResult, FinalSyncIsGraded, Clean
<1> QED
  BY <1>1, InvAlways, PTL

\* execute_task returns the answer to its own task, and a handle that is idle again
\* leaves nothing for the next one.
THEOREM AnswersStayOwn == Spec => []AnswerIsOwn
<1>1. ASSUME Inv PROVE AnswerIsOwn
  BY <1>1 DEF Inv, OutcomeOK, AnswerIsOwn
<1> QED
  BY <1>1, InvAlways, PTL

\* No kernel is called correct without a trial that passed, or with one that failed,
\* however the trial loop of run_and_check_correctness ends.
THEOREM RightStaysEarned == Spec => []RightIsEarned
<1>1. ASSUME Inv PROVE RightIsEarned
  BY <1>1 DEF Inv, TrialOK, Earned, RightIsEarned
<1> QED
  BY <1>1, InvAlways, PTL

=============================================================================
