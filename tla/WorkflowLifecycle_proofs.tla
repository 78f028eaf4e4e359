----------------------- MODULE WorkflowLifecycle_proofs -----------------------
(***************************************************************************)
(* Safety of a workflow parent id under any number of requests, contents   *)
(* and stages.                                                             *)
(*                                                                         *)
(* The types come first, and need a counting argument: a generation is     *)
(* created by a request that has not been accepted before, so there are no *)
(* more generations than requests.  Then the parent's own record (RecordOK *)
(* and LogOK speak of rec, result, lease, active, gens and log alone,      *)
(* which change in five ways, ParentMove), and on it the children and the  *)
(* answers.                                                                *)
(***************************************************************************)
EXTENDS WorkflowLifecycle, FiniteSetTheorems, TLAPS

\* Requests that may still create a generation.
Unaccepted == {r \in Requests : req[r].pc \in {"idle", "checked"}}

Budget == gens + Cardinality(Unaccepted) <= Cardinality(Requests)

\* A generation in somebody's hands is one; a controller waits in a stage, and
\* has an outcome to commit in the end.
HandsOK ==
    /\ \A r \in Requests : req[r].pc \in {"waiting", "reading", "answered"} => req[r].gen # 0
    /\ \A r \in Requests : run[r].pc # "none" => run[r].gen # 0
    /\ \A r \in Requests : run[r].pc = "wait" => run[r].stage \in Stages
    /\ \A r \in Requests : run[r].pc = "finish" => run[r].out \in Terminal

\* The record names an accepted generation as long as there is one, and so
\* does the result; a lease is held for the active generation only.
RecordOK ==
    /\ rec.gen \in 0..gens /\ result.gen \in 0..gens
    /\ rec.gen = 0 <=> rec.status = "absent"
    /\ lease # 0 => Active /\ lease = rec.gen

\* Nothing is logged of generations to come; one that was accepted has an
\* outcome, or is the active one and has none.
LogOK ==
    /\ \A g \in Gens : gens < g => log[g].outcomes = {}
    /\ \A g \in Gens : \E out \in Terminal : log[g].outcomes \subseteq {out}
    /\ rec.status \in Terminal => log[rec.gen].outcomes = {rec.status}
    /\ result.gen # 0 => log[result.gen].outcomes = {result.status}
    /\ ActiveIsFollowed

Typed == TypeOK /\ Budget /\ HandsOK /\ RecordOK

AnswersOK ==
    \A r \in Requests : req[r].pc = "answered" => req[r].gen # 0 /\ req[r].out \in log[req[r].gen].outcomes

Inv == Typed /\ LogOK /\ PendingChildHasParent /\ AnswersOK

-----------------------------------------------------------------------------
(* Numbers of generations.                                                 *)

LEMMA GensType ==
  /\ Cardinality(Requests) \in Nat
  /\ \A g \in Gens : g \in Nat /\ g # 0 /\ 1 <= g /\ g <= Cardinality(Requests)
  /\ \A g \in Nat : g # 0 /\ g <= Cardinality(Requests) => g \in Gens
BY FS_CardinalityType, LifecycleAssumption DEF Gens

\* A set of requests counts at most all of them, and one fewer without a member.
LEMMA CountRequests ==
  ASSUME NEW S \in SUBSET Requests
  PROVE  /\ Cardinality(S) \in Nat
         /\ Cardinality(S) <= Cardinality(Requests)
         /\ \A T \in SUBSET S : Cardinality(T) <= Cardinality(S)
         /\ \A r \in S : \A T \in SUBSET (S \ {r}) : Cardinality(T) <= Cardinality(S) - 1
<1>1. IsFiniteSet(S) /\ Cardinality(S) <= Cardinality(Requests)
  BY FS_Subset, LifecycleAssumption
<1>2. Cardinality(S) \in Nat
  BY <1>1, FS_CardinalityType
<1>3. \A T \in SUBSET S : Cardinality(T) <= Cardinality(S)
  BY <1>1, FS_Subset
<1>4. ASSUME NEW r \in S, NEW T \in SUBSET (S \ {r})
      PROVE  Cardinality(T) <= Cardinality(S) - 1
  <2>1. IsFiniteSet(S \ {r}) /\ Cardinality(S \ {r}) = Cardinality(S) - 1
    BY <1>1, FS_RemoveElement
  <2> QED
    BY <2>1, FS_Subset
<1> QED
  BY <1>1, <1>2, <1>3, <1>4

\* A step that leaves the number of generations, and puts no request back
\* before its acceptance, keeps the budget; an acceptance spends one of each.
LEMMA KeepBudget ==
  ASSUME Budget, gens \in Nat, gens' = gens, Unaccepted' \subseteq Unaccepted
  PROVE  Budget'
<1>1. Unaccepted \in SUBSET Requests /\ Unaccepted' \in SUBSET Unaccepted
  BY DEF Unaccepted
<1>2. Cardinality(Unaccepted') <= Cardinality(Unaccepted)
  BY <1>1, CountRequests
<1>3. Cardinality(Unaccepted) \in Nat /\ Cardinality(Unaccepted') \in Nat
  BY <1>1, CountRequests
<1> QED
  BY <1>2, <1>3, GensType DEF Budget

LEMMA SpendBudget ==
  ASSUME Budget, gens \in Nat, gens' = gens + 1, NEW r \in Unaccepted, Unaccepted' \subseteq Unaccepted \ {r}
  PROVE  Budget' /\ gens' \in Gens
<1>1. Unaccepted \in SUBSET Requests /\ Unaccepted' \in SUBSET (Unaccepted \ {r})
  BY DEF Unaccepted
<1>2. Cardinality(Unaccepted') <= Cardinality(Unaccepted) - 1
  BY <1>1, CountRequests
<1>3. Cardinality(Unaccepted) \in Nat /\ Cardinality(Unaccepted') \in Nat
  BY <1>1, CountRequests
<1> QED
  BY <1>2, <1>3, GensType DEF Budget

-----------------------------------------------------------------------------
(* Types.                                                                  *)

LEMMA CommitTyped ==
  ASSUME TypeOK, RecordOK, NEW g \in Gens, NEW out \in Terminal, Commit(g, out)
  PROVE  /\ rec' \in Records /\ result' \in Results /\ lease' \in Gens \cup {0} /\ active' \in BOOLEAN
         /\ gens' = gens
         /\ child' \in [Gens \X Stages -> ChildStatuses]
         /\ log' \in [Gens -> [hash : Hashes \cup {"none"}, outcomes : SUBSET Terminal]]
         /\ RecordOK'
<1>1. CASE ~MayCommit(g)
  BY <1>1 DEF Commit, TypeOK, parentVars, RecordOK, Active
<1>2. CASE MayCommit(g)
  <2> DEFINE final == Ruling(g, out)
  <2>1. final \in Terminal
    BY DEF Ruling, Terminal, TypeOK
  <2>2. /\ rec' = [rec EXCEPT !.status = final, !.late = FALSE]
        /\ result' = [gen |-> g, status |-> final, hash |-> rec.hash]
        /\ lease' = 0 /\ active' = FALSE /\ gens' = gens
        /\ child' = [c \in Gens \X Stages |-> IF c[1] = g /\ child[c] = "pending" THEN "failed" ELSE child[c]]
        /\ log' = [log EXCEPT ![g].outcomes = @ \cup {final}]
    BY <1>2 DEF Commit
  <2>3. /\ rec' \in Records
        /\ rec'.status = final /\ rec'.gen = rec.gen
    BY <2>1, <2>2 DEF TypeOK, Records, Terminal
  <2>4. result' \in Results /\ result'.gen = g
    BY <2>1, <2>2 DEF TypeOK, Results, Records
  <2>5. child' \in [Gens \X Stages -> ChildStatuses]
    BY <2>2 DEF TypeOK, ChildStatuses
  <2>6. log' \in [Gens -> [hash : Hashes \cup {"none"}, outcomes : SUBSET Terminal]]
    BY <2>1, <2>2 DEF TypeOK
  <2>7. rec.gen = g /\ g # 0
    BY <1>2, GensType DEF MayCommit
  <2>8. RecordOK'
    BY <2>1, <2>2, <2>3, <2>4, <2>7 DEF RecordOK, Active, Terminal
  <2> QED
    BY <2>2, <2>3, <2>4, <2>5, <2>6, <2>8 DEF TypeOK
<1> QED
  BY <1>1, <1>2

\* The handler of a request: what it does to its own state alone.
LEMMA HandlerTyped ==
  ASSUME Typed, NEW r \in Requests,
         Ask(r) \/ Join(r) \/ Conflict(r) \/ ReadBack(r) \/ WaitRecord(r) \/ WaitResult(r)
  PROVE  Typed'
<1>a. TypeOK /\ Budget /\ HandsOK /\ RecordOK
  BY DEF Typed
<1>b. /\ req \in [Requests -> Handlers] /\ req[r] \in Handlers
      /\ run \in [Requests -> Runs] /\ run[r] \in Runs
      /\ rec \in Records /\ result \in Results /\ gens \in Nat
  BY <1>a, GensType DEF TypeOK
<1>c. \A pc : Quit(pc).pc = pc
  BY DEF Quit
<1>d. \A pc \in {"conflict", "lost"} : Quit(pc) \in Handlers
  BY DEF Quit, Handlers
<1>1. UNCHANGED <<parentVars, tombstone, child, fenced, verdicts>>
  BY DEF Ask, Join, Conflict, ReadBack, WaitRecord, WaitResult
<1>2. PICK h \in Handlers :
        /\ req' = [req EXCEPT ![r] = h]
        /\ h.pc \in {"idle", "checked"} => req[r].pc \in {"idle", "checked"}
        /\ h.pc \in {"waiting", "reading", "answered"} => h.gen # 0
  <2>1. CASE Ask(r)
    <3>1. PICK x \in Hashes, f \in BOOLEAN :
            LET asked == [req[r] EXCEPT !.hash = x, !.force = f]
                cached == ~f /\ result.gen # 0 /\ result.hash = x
            IN  Handle(r, CASE tombstone             -> Quit("conflict")
                            [] ~tombstone /\ cached  -> [asked EXCEPT !.pc = "answered", !.force = FALSE,
                                                                     !.gen = result.gen, !.out = result.status]
                            [] ~tombstone /\ ~cached -> [asked EXCEPT !.pc = "checked"])
      BY <2>1 DEF Ask
    <3> DEFINE answered == [req[r] EXCEPT !.hash = x, !.force = FALSE, !.pc = "answered",
                                          !.gen = result.gen, !.out = result.status]
               checked  == [req[r] EXCEPT !.hash = x, !.force = f, !.pc = "checked"]
    <3>2. /\ answered \in Handlers /\ answered.pc = "answered" /\ answered.gen = result.gen
          /\ checked \in Handlers /\ checked.pc = "checked"
      BY <1>b DEF Handlers, Results
    <3>3. req[r].pc = "idle"
      BY <2>1 DEF Ask
    <3>4. \/ req' = [req EXCEPT ![r] = Quit("conflict")]
          \/ req' = [req EXCEPT ![r] = answered] /\ result.gen # 0
          \/ req' = [req EXCEPT ![r] = checked]
      BY <3>1, <1>b DEF Handle, Handlers, TypeOK
    <3> HIDE DEF answered, checked
    <3> QED
      BY <3>2, <3>3, <3>4, <1>c, <1>d
  <2>2. CASE Join(r)
    <3> DEFINE h == [req[r] EXCEPT !.pc = "accepted", !.force = FALSE]
    <3>1. h \in Handlers /\ h.pc = "accepted"
      BY <1>b DEF Handlers
    <3> QED
      BY <2>2, <3>1 DEF Join, Handle
  <2>3. CASE Conflict(r)
    BY <2>3, <1>c, <1>d DEF Conflict, Handle
  <2>4. CASE ReadBack(r)
    <3> DEFINE h == [req[r] EXCEPT !.pc = "waiting", !.gen = rec.gen, !.owner = FALSE]
    <3>1. h \in Handlers /\ h.pc = "waiting" /\ h.gen = rec.gen
      BY <1>b DEF Handlers, Records
    <3> QED
      <4>1. \/ req' = [req EXCEPT ![r] = Quit("conflict")]
            \/ req' = [req EXCEPT ![r] = h] /\ rec.gen # 0
        BY <2>4 DEF ReadBack, Handle
      <4> HIDE DEF h
      <4> QED
        BY <4>1, <3>1, <1>c, <1>d
  <2>5. CASE WaitRecord(r)
    <3> DEFINE h == [req[r] EXCEPT !.pc = "reading", !.open = Active]
    <3>1. h \in Handlers /\ h.pc = "reading" /\ h.gen = req[r].gen
      BY <1>b DEF Handlers, Active
    <3>2. req[r].gen # 0
      BY <2>5, <1>a DEF WaitRecord, HandsOK
    <3> QED
      BY <2>5, <3>1, <3>2, <1>c, <1>d DEF WaitRecord, Handle
  <2>6. CASE WaitResult(r)
    <3> DEFINE a == [req[r] EXCEPT !.pc = "answered", !.open = FALSE, !.out = result.status]
               p == [req[r] EXCEPT !.pc = "waiting", !.open = FALSE]
    <3>1. /\ a \in Handlers /\ a.pc = "answered" /\ a.gen = req[r].gen
          /\ p \in Handlers /\ p.pc = "waiting" /\ p.gen = req[r].gen
      BY <1>b DEF Handlers, Results
    <3>2. req[r].gen # 0
      BY <2>6, <1>a DEF WaitResult, HandsOK
    <3>3. \/ req' = [req EXCEPT ![r] = a] \/ req' = [req EXCEPT ![r] = p]
          \/ req' = [req EXCEPT ![r] = Quit("conflict")]
      <4> HIDE DEF a, p
      <4>1. Handle(r, CASE MyResult(r) -> a [] Unavailable(r) -> Quit("conflict") [] OTHER -> p)
        BY <2>6 DEF WaitResult, a, p
      <4>2. CASE MyResult(r)
        BY <4>1, <4>2 DEF Handle, Unavailable
      <4>3. CASE Unavailable(r)
        BY <4>1, <4>3 DEF Handle, Unavailable
      <4>4. CASE ~MyResult(r) /\ ~Unavailable(r)
        BY <4>1, <4>4 DEF Handle
      <4> QED
        BY <4>2, <4>3, <4>4
    <3> HIDE DEF a, p
    <3> QED
      BY <3>1, <3>2, <3>3, <1>c, <1>d
  <2> QED
    BY <2>1, <2>2, <2>3, <2>4, <2>5, <2>6
<1>3. req' \in [Requests -> Handlers] /\ Unaccepted' \subseteq Unaccepted
  BY <1>2, <1>b DEF Unaccepted
<1>4. /\ run' \in [Requests -> Runs]
      /\ \A q \in Requests : run'[q].pc # "none" => run'[q].gen # 0
      /\ \A q \in Requests : run'[q].pc = "wait" => run'[q].stage \in Stages
      /\ \A q \in Requests : run'[q].pc = "finish" => run'[q].out \in Terminal
  <2>1. CASE run' = run
    BY <2>1, <1>a, <1>b DEF HandsOK
  <2>2. CASE ReadBack(r) /\ run' # run
    <3>1. run' = [run EXCEPT ![r] = [run[r] EXCEPT !.pc = "stage", !.gen = rec.gen]] /\ rec.gen # 0
      BY <2>2, <1>b DEF ReadBack, Runs
    <3> DEFINE c == [run[r] EXCEPT !.pc = "stage", !.gen = rec.gen]
    <3>2. c \in Runs /\ c.pc = "stage" /\ c.gen = rec.gen
      BY <1>b DEF Runs, Records
    <3> QED
      BY <3>1, <3>2, <1>a, <1>b DEF HandsOK
  <2> QED
    BY <2>1, <2>2 DEF Ask, Join, Conflict, ReadBack, WaitRecord, WaitResult
<1>5. HandsOK'
  BY <1>2, <1>4, <1>a, <1>b DEF HandsOK
<1>6. TypeOK' /\ RecordOK'
  BY <1>1, <1>3, <1>4, <1>a DEF TypeOK, RecordOK, Active, parentVars
<1>7. Budget'
  BY <1>1, <1>3, <1>a, <1>b, KeepBudget DEF parentVars
<1> QED
  BY <1>5, <1>6, <1>7 DEF Typed

\* The controller of a request: it moves on, ends, or lets a child go.
LEMMA ControllerTyped ==
  ASSUME Typed, NEW r \in Requests,
         SkipStage(r) \/ Submit(r) \/ ChildResult(r) \/ Withdraw(r) \/ Evaluated(r) \/ Interrupted(r)
           \/ Finish(r) \/ FinishFails(r) \/ Crash(r)
  PROVE  Typed'
<1>a. TypeOK /\ Budget /\ HandsOK /\ RecordOK
  BY DEF Typed
<1>b. /\ req \in [Requests -> Handlers]
      /\ run \in [Requests -> Runs] /\ run[r] \in Runs
      /\ child \in [Gens \X Stages -> ChildStatuses] /\ fenced \subseteq Gens \X Stages
      /\ gens \in Nat /\ LastStage \in Nat
  BY <1>a, GensType, LifecycleAssumption DEF TypeOK
<1>c. run[r].pc # "none" => run[r].gen \in Gens /\ run[r].gen # 0
  BY <1>a, <1>b DEF HandsOK, Runs
<1>d. NoRun \in Runs /\ NoRun.pc = "none"
  BY <1>b DEF NoRun, Runs
<1>e. \A out \in Terminal : /\ Ends(r, out) \in Runs /\ Ends(r, out).pc = "finish"
                            /\ Ends(r, out).out = out /\ Ends(r, out).gen = run[r].gen
  BY <1>b DEF Ends, Runs
<1>1. PICK c \in Runs :
        /\ run' = [run EXCEPT ![r] = c]
        /\ c.pc # "none" => c.gen # 0
        /\ c.pc = "wait" => c.stage \in Stages
        /\ c.pc = "finish" => c.out \in Terminal
  <2>1. CASE SkipStage(r)
    <3> DEFINE c == [run[r] EXCEPT !.stage = @ + 1]
    <3>1. c \in Runs /\ c.pc = "stage" /\ c.gen = run[r].gen
      BY <2>1, <1>b DEF SkipStage, Runs, Stages
    <3> QED
      BY <2>1, <3>1, <1>c DEF SkipStage, Control
  <2>2. CASE Submit(r)
    <3> DEFINE c == [run[r] EXCEPT !.pc = "wait"]
    <3>1. c \in Runs /\ c.pc = "wait" /\ c.gen = run[r].gen /\ c.stage = run[r].stage
      BY <2>2, <1>b DEF Runs
    <3> QED
      BY <2>2, <3>1, <1>c DEF Submit, Control
  <2>3. CASE ChildResult(r)
    <3> DEFINE c == [run[r] EXCEPT !.pc = "stage", !.stage = run[r].stage + 1]
    <3>1. run[r].stage \in Stages
      BY <2>3, <1>a DEF ChildResult, HandsOK
    <3>2. c \in Runs /\ c.pc = "stage" /\ c.gen = run[r].gen
      <4>1. \A z \in 1..(LastStage + 1) : LET d == [run[r] EXCEPT !.pc = "stage", !.stage = z]
                                          IN  d \in Runs /\ d.pc = "stage" /\ d.gen = run[r].gen
        BY <1>b DEF Runs
      <4>2. run[r].stage + 1 \in 1..(LastStage + 1)
        BY <3>1, <1>b DEF Stages
      <4> QED
        BY <4>1, <4>2
    <3>3. \/ run' = [run EXCEPT ![r] = c]
          \/ \E out \in Terminal : run' = [run EXCEPT ![r] = Ends(r, out)]
      BY <2>3 DEF ChildResult, Control, Terminal
    <3> HIDE DEF c
    <3> QED
      BY <2>3, <3>2, <3>3, <1>c, <1>e DEF ChildResult
  <2>4. CASE Withdraw(r) \/ Evaluated(r) \/ Interrupted(r)
    <3>1. run[r].pc # "none"
      BY <2>4 DEF Withdraw, Evaluated, Interrupted
    <3>2. PICK out \in Terminal : Control(r, Ends(r, out))
      BY <2>4 DEF Withdraw, Evaluated, Interrupted, Terminal
    <3> QED
      BY <3>1, <3>2, <1>c, <1>e DEF Control
  <2>5. CASE Finish(r) \/ FinishFails(r)
    BY <2>5, <1>d DEF Finish, FinishFails, Control
  <2>6. CASE Crash(r)
    BY <2>6, <1>a, <1>b, <1>d DEF Crash, Control, HandsOK
  <2> QED
    BY <2>1, <2>2, <2>3, <2>4, <2>5, <2>6
<1>2. run' \in [Requests -> Runs]
  BY <1>1, <1>b
<1>3. /\ req' \in [Requests -> Handlers] /\ Unaccepted' \subseteq Unaccepted
      /\ \A q \in Requests : req'[q].pc \in {"waiting", "reading", "answered"} => req'[q].gen # 0
  <2>1. CASE req' = req
    BY <2>1, <1>a, <1>b DEF Unaccepted, HandsOK
  <2>2. CASE req' = [req EXCEPT ![r] = Quit("lost")]
    <3>1. Quit("lost") \in Handlers /\ Quit("lost").pc = "lost"
      BY DEF Quit, Handlers
    <3> QED
      BY <2>2, <3>1, <1>a, <1>b DEF Unaccepted, HandsOK
  <2>3. req' = [req EXCEPT ![r] = req[r]] => req' = req
    BY <1>b
  <2> QED
    BY <2>1, <2>2, <2>3
       DEF SkipStage, Submit, ChildResult, Withdraw, Evaluated, Interrupted, Finish, FinishFails, Crash, Handle
<1>4. HandsOK'
  BY <1>1, <1>3, <1>a, <1>b DEF HandsOK
<1>5. CASE Finish(r)
  <2>1. run[r].gen \in Gens /\ run[r].out \in Terminal
    BY <1>5, <1>a, <1>c DEF Finish, HandsOK
  <2>2. Commit(run[r].gen, run[r].out) /\ UNCHANGED <<tombstone, fenced, verdicts>>
    BY <1>5 DEF Finish
  <2> QED
    BY <2>1, <2>2, <1>2, <1>3, <1>4, <1>a, <1>b, CommitTyped, KeepBudget DEF Typed, TypeOK
<1>6. CASE ~Finish(r)
  <2>1. UNCHANGED <<parentVars, tombstone, verdicts>>
    BY <1>6 DEF SkipStage, Submit, ChildResult, Withdraw, Evaluated, Interrupted, FinishFails, Crash
  <2>2. child' \in [Gens \X Stages -> ChildStatuses]
    BY <1>6, <1>b
       DEF SkipStage, Submit, ChildResult, Withdraw, Evaluated, Interrupted, FinishFails, Crash, ChildStatuses
  <2>3. fenced' \subseteq Gens \X Stages
    <3>1. CASE Withdraw(r)
      BY <3>1, <1>a, <1>b, <1>c DEF Withdraw, HandsOK
    <3> QED
      BY <3>1, <1>6, <1>b DEF SkipStage, Submit, ChildResult, Evaluated, Interrupted, FinishFails, Crash
  <2>4. TypeOK' /\ RecordOK'
    BY <2>1, <2>2, <2>3, <1>2, <1>3, <1>a DEF TypeOK, RecordOK, Active, parentVars
  <2> QED
    BY <2>1, <2>4, <1>3, <1>4, <1>a, <1>b, KeepBudget DEF Typed, parentVars
<1> QED
  BY <1>5, <1>6

LEMMA AcceptTyped ==
  ASSUME Typed, NEW r \in Requests, Accept(r)
  PROVE  Typed'
<1>a. TypeOK /\ Budget /\ HandsOK /\ RecordOK
  BY DEF Typed
<1>b. /\ req \in [Requests -> Handlers] /\ req[r] \in Handlers /\ req[r].pc = "checked"
      /\ gens \in Nat /\ gens' = gens + 1
  BY <1>a, GensType DEF TypeOK, Accept
<1> DEFINE h == [req[r] EXCEPT !.pc = "accepted", !.owner = TRUE, !.force = FALSE]
<1>1. h \in Handlers /\ h.pc = "accepted" /\ req' = [req EXCEPT ![r] = h]
  BY <1>b DEF Handlers, Accept, Handle
<1> HIDE DEF h
<1>2. req' \in [Requests -> Handlers] /\ r \in Unaccepted /\ Unaccepted' \subseteq Unaccepted \ {r}
  BY <1>1, <1>b DEF Unaccepted
<1>3. Budget' /\ gens' \in Gens /\ gens' # 0
  BY <1>a, <1>b, <1>2, SpendBudget, GensType
<1>4. rec' = [status |-> "active", gen |-> gens', hash |-> req[r].hash, late |-> FALSE] /\ rec' \in Records
  BY <1>b, <1>3 DEF Accept, Records, Handlers
<1>5. result' = NoResult /\ result' \in Results /\ result'.gen = 0 /\ lease' = gens'
  BY DEF Accept, NoResult, Results
<1>6. log' \in [Gens -> [hash : Hashes \cup {"none"}, outcomes : SUBSET Terminal]]
  BY <1>a, <1>b, <1>3 DEF Accept, TypeOK, Handlers
<1>7. TypeOK'
  BY <1>a, <1>2, <1>3, <1>4, <1>5, <1>6 DEF TypeOK, Accept
<1>8. RecordOK'
  BY <1>3, <1>4, <1>5, <1>b DEF RecordOK, Active
<1>9. HandsOK'
  BY <1>a, <1>b, <1>1 DEF HandsOK, Accept
<1> QED
  BY <1>3, <1>7, <1>8, <1>9 DEF Typed

\* Time, reconciliation, cancellation, retention and the workers.
LEMMA SurroundingsTyped ==
  ASSUME Typed,
         \/ LeaseExpires \/ DeadlinePasses \/ Look \/ Cancel \/ Expire
         \/ \E g \in Gens : Act(g) \/ \E s \in Stages : CancelChild(g, s) \/ WorkChild(g, s)
  PROVE  Typed'
<1>a. TypeOK /\ Budget /\ HandsOK /\ RecordOK
  BY DEF Typed
<1>b. /\ rec \in Records /\ result \in Results /\ gens \in Nat /\ 0 \in 0..gens
      /\ child \in [Gens \X Stages -> ChildStatuses] /\ fenced \subseteq Gens \X Stages
      /\ rec.gen \in Gens \cup {0} /\ verdicts \subseteq Gens
  BY <1>a, GensType DEF TypeOK, Records
<1>1. UNCHANGED <<req, run, gens>> /\ Unaccepted' = Unaccepted
  BY DEF LeaseExpires, DeadlinePasses, Look, Cancel, Expire, Act, CancelChild, WorkChild, Commit, parentVars,
         Unaccepted
<1>2. HandsOK' /\ Budget'
  BY <1>a, <1>b, <1>1, KeepBudget DEF HandsOK
<1>3. CASE LeaseExpires
  BY <1>3, <1>2, <1>a DEF LeaseExpires, Typed, TypeOK, RecordOK, Active
<1>4. CASE DeadlinePasses
  <2>1. /\ rec' = [rec EXCEPT !.late = TRUE] /\ rec' \in Records
        /\ rec'.gen = rec.gen /\ rec'.status = rec.status
    BY <1>4, <1>b DEF DeadlinePasses, Records
  <2> QED
    BY <1>4, <2>1, <1>2, <1>a DEF DeadlinePasses, Typed, TypeOK, RecordOK, Active
<1>5. CASE Look
  <2>1. rec.gen \in Gens
    BY <1>5, <1>a, <1>b DEF Look, RecordOK, Active
  <2> QED
    BY <1>5, <2>1, <1>2, <1>a DEF Look, Typed, TypeOK, RecordOK, Active, parentVars
<1>6. CASE Cancel
  BY <1>6, <1>2, <1>a, <1>b DEF Cancel, Typed, TypeOK, RecordOK, Active, parentVars
<1>7. CASE Expire
  <2>1. NoRecord \in Records /\ NoRecord.gen = 0 /\ NoRecord.status = "absent"
    BY DEF NoRecord, Records
  <2>2. NoResult \in Results /\ NoResult.gen = 0
    BY DEF NoResult, Results
  <2>3. lease = 0
    BY <1>7, <1>a DEF Expire, RecordOK, Active, Terminal
  <2> QED
    BY <1>7, <2>1, <2>2, <2>3, <1>2, <1>a, <1>b DEF Expire, Typed, TypeOK, RecordOK, Active
<1>8. ASSUME NEW g \in Gens, Act(g) PROVE Typed'
  BY <1>8, <1>2, <1>a, CommitTyped DEF Act, Typed, TypeOK, Terminal
<1>9. ASSUME NEW g \in Gens, NEW s \in Stages, CancelChild(g, s) \/ WorkChild(g, s) PROVE Typed'
  <2>1. child' \in [Gens \X Stages -> ChildStatuses] /\ fenced' \subseteq Gens \X Stages
    BY <1>9, <1>b DEF CancelChild, WorkChild, ChildStatuses
  <2> QED
    BY <1>9, <2>1, <1>2, <1>a DEF CancelChild, WorkChild, Typed, TypeOK, RecordOK, Active, parentVars
<1> QED
  BY <1>3, <1>4, <1>5, <1>6, <1>7, <1>8, <1>9

LEMMA InitTyped == Init => Typed
<1> SUFFICES ASSUME Init PROVE Typed
  OBVIOUS
<1>1. /\ NoRecord \in Records /\ NoRecord.gen = 0 /\ NoRecord.status = "absent"
      /\ NoResult \in Results /\ NoResult.gen = 0
      /\ Quit("idle") \in Handlers /\ Quit("idle").pc = "idle"
  BY DEF NoRecord, Records, NoResult, Results, Quit, Handlers
<1>2. NoRun \in Runs /\ NoRun.pc = "none"
  BY LifecycleAssumption DEF NoRun, Runs
<1>3. TypeOK
  BY <1>1, <1>2 DEF Init, TypeOK, ChildStatuses
<1>4. HandsOK /\ RecordOK
  BY <1>1, <1>2 DEF Init, HandsOK, RecordOK, Active
<1>5. Budget
  BY CountRequests DEF Init, Budget, Unaccepted
<1> QED
  BY <1>3, <1>4, <1>5 DEF Typed

LEMMA NextTyped == Typed /\ [Next]_vars => Typed'
<1> SUFFICES ASSUME Typed, [Next]_vars PROVE Typed'
  OBVIOUS
<1>1. CASE UNCHANGED vars
  BY <1>1 DEF vars, parentVars, Typed, TypeOK, Budget, Unaccepted, HandsOK, RecordOK, Active
<1>2. CASE Next
  BY <1>2, HandlerTyped, AcceptTyped, ControllerTyped, SurroundingsTyped DEF Next
<1> QED
  BY <1>1, <1>2

\* The parent's records, its children, the requests and their controllers keep
\* their types, and no request is accepted twice: see Accept and ReadBack.
THEOREM LifecycleTypes == Spec => []TypeOK
<1>1. Typed => TypeOK
  BY DEF Typed
<1> QED
  BY <1>1, InitTyped, NextTyped, PTL DEF Spec

-----------------------------------------------------------------------------
(* The parent's record and its history.                                    *)

TypedParts ==
    /\ rec \in Records /\ result \in Results /\ gens \in Nat /\ gens \in Gens \cup {0}
    /\ \A g \in 1..gens : g \in Gens
    /\ log \in [Gens -> [hash : Hashes \cup {"none"}, outcomes : SUBSET Terminal]]
    /\ RecordOK

\* The part of the types that the record's history needs.
LEMMA PartsTyped == Typed => TypedParts
<1> SUFFICES ASSUME Typed PROVE TypedParts
  OBVIOUS
<1>1. TypeOK /\ RecordOK
  BY DEF Typed
<1>2. gens \in Nat /\ \A g \in 1..gens : g \in Gens
  BY <1>1, GensType DEF TypeOK
<1> QED
  BY <1>1, <1>2 DEF TypedParts, TypeOK

\* _FINISH gives the active generation its outcome, and leaves any other alone.
LEMMA CommitDecides ==
  ASSUME TypedParts, NEW g \in Gens, NEW out \in Terminal, Commit(g, out), MayCommit(g)
  PROVE  LET final == Ruling(g, out)
         IN  /\ final \in Terminal
             /\ rec.gen = g /\ Active /\ g \in 1..gens
             /\ rec'.status = final /\ rec'.gen = g /\ ~Active'
             /\ result'.gen = g /\ result'.status = final
             /\ active' = FALSE /\ gens' = gens
             /\ log'[g].outcomes = log[g].outcomes \cup {final}
             /\ \A h \in Gens : h # g => log'[h] = log[h]
<1> DEFINE final == Ruling(g, out)
<1>1. final \in Terminal
  BY DEF Ruling, Terminal
<1>2. /\ rec' = [rec EXCEPT !.status = final, !.late = FALSE]
      /\ result' = [gen |-> g, status |-> final, hash |-> rec.hash]
      /\ active' = FALSE /\ gens' = gens
      /\ log' = [log EXCEPT ![g].outcomes = @ \cup {final}]
  BY DEF Commit
<1> HIDE DEF final
<1>3. rec'.status = final /\ rec'.gen = rec.gen
  BY <1>2 DEF TypedParts, Records
<1>4. log'[g].outcomes = log[g].outcomes \cup {final} /\ \A h \in Gens : h # g => log'[h] = log[h]
  BY <1>2 DEF TypedParts
<1>5. rec.gen = g /\ Active /\ g \in 1..gens
  BY GensType DEF MayCommit, TypedParts, RecordOK
<1>6. ~Active'
  BY <1>1, <1>3 DEF Active, Terminal
<1> QED
  BY <1>1, <1>2, <1>3, <1>4, <1>5, <1>6 DEF final

LEMMA CommitLogged ==
  ASSUME TypedParts, LogOK, NEW g \in Gens, NEW out \in Terminal, Commit(g, out)
  PROVE  LogOK'
<1>1. CASE ~MayCommit(g)
  BY <1>1 DEF Commit, parentVars, LogOK, ActiveIsFollowed, Active
<1>2. CASE MayCommit(g)
  <2> DEFINE final == Ruling(g, out)
  <2>1. /\ final \in Terminal
        /\ rec.gen = g /\ Active /\ g \in 1..gens
        /\ rec'.status = final /\ rec'.gen = g /\ ~Active'
        /\ result'.gen = g /\ result'.status = final
        /\ active' = FALSE /\ gens' = gens
        /\ log'[g].outcomes = log[g].outcomes \cup {final}
        /\ \A h \in Gens : h # g => log'[h] = log[h]
    BY <1>2, CommitDecides
  <2> HIDE DEF final
  <2>2. log'[g].outcomes = {final}
    BY <2>1 DEF LogOK, ActiveIsFollowed
  <2>3. \A h \in Gens : gens' < h => log'[h].outcomes = {}
    BY <2>1 DEF LogOK, TypedParts
  <2>4. \A h \in Gens : \E x \in Terminal : log'[h].outcomes \subseteq {x}
    BY <2>1, <2>2 DEF LogOK
  <2>5. \A h \in 1..gens' : log'[h].outcomes # {}
    BY <2>1, <2>2 DEF LogOK, ActiveIsFollowed, TypedParts
  <2> QED
    BY <2>1, <2>2, <2>3, <2>4, <2>5 DEF LogOK, ActiveIsFollowed
<1> QED
  BY <1>1, <1>2

LEMMA AcceptLogged ==
  ASSUME TypedParts, LogOK, NEW r \in Requests, Accept(r), gens' \in Gens
  PROVE  LogOK'
<1>1. /\ gens' = gens + 1 /\ rec'.status = "active" /\ rec'.gen = gens' /\ active' = TRUE
      /\ result' = NoResult /\ result'.gen = 0
  BY DEF Accept, NoResult
<1>2. \A h \in Gens : log'[h].outcomes = log[h].outcomes
  BY <1>1 DEF Accept, TypedParts
<1>3. ~Active
  BY DEF Accept, Creates, Active, Terminal
<1>4. log'[gens'].outcomes = {}
  BY <1>1, <1>2 DEF LogOK, TypedParts
<1>5. \A h \in 1..gens' : log'[h].outcomes = {} => h = gens'
  BY <1>1, <1>2, <1>3 DEF LogOK, ActiveIsFollowed, TypedParts
<1>6. \A h \in Gens : gens' < h => log'[h].outcomes = {}
  BY <1>1, <1>2, GensType DEF LogOK, TypedParts
<1>7. \A h \in Gens : \E x \in Terminal : log'[h].outcomes \subseteq {x}
  BY <1>2 DEF LogOK
<1> QED
  BY <1>1, <1>4, <1>5, <1>6, <1>7 DEF LogOK, ActiveIsFollowed, Active, Terminal

\* The ways in which a step changes the parent's record.
ParentMove ==
    \/ UNCHANGED parentVars
    \/ \E r \in Requests : Accept(r)
    \/ \E g \in Gens, out \in Terminal : Commit(g, out)
    \/ LeaseExpires \/ DeadlinePasses \/ Expire

LEMMA StepMovesParent ==
  ASSUME Typed, [Next]_vars
  PROVE  ParentMove
<1>a. HandsOK /\ run \in [Requests -> Runs]
  BY DEF Typed, TypeOK
<1>1. CASE UNCHANGED vars
  BY <1>1 DEF vars, ParentMove
<1>2. ASSUME NEW r \in Requests, Ask(r) \/ Join(r) \/ Conflict(r) \/ ReadBack(r) \/ WaitRecord(r) \/ WaitResult(r)
      PROVE  ParentMove
  BY <1>2 DEF Ask, Join, Conflict, ReadBack, WaitRecord, WaitResult, ParentMove
<1>3. ASSUME NEW r \in Requests,
             SkipStage(r) \/ Submit(r) \/ ChildResult(r) \/ Withdraw(r) \/ Evaluated(r) \/ Interrupted(r)
               \/ FinishFails(r) \/ Crash(r)
      PROVE  ParentMove
  BY <1>3 DEF SkipStage, Submit, ChildResult, Withdraw, Evaluated, Interrupted, FinishFails, Crash, ParentMove
<1>4. ASSUME NEW r \in Requests, Finish(r) PROVE ParentMove
  <2>1. run[r].gen \in Gens /\ run[r].out \in Terminal
    BY <1>4, <1>a DEF Finish, HandsOK, Runs
  <2> QED
    BY <1>4, <2>1 DEF Finish, ParentMove
<1>5. ASSUME NEW g \in Gens, Act(g) PROVE ParentMove
  BY <1>5 DEF Act, ParentMove, Terminal
<1>6. CASE Look \/ Cancel \/ \E g \in Gens, s \in Stages : CancelChild(g, s) \/ WorkChild(g, s)
  BY <1>6 DEF Look, Cancel, CancelChild, WorkChild, ParentMove
<1> QED
  BY <1>1, <1>2, <1>3, <1>4, <1>5, <1>6 DEF Next, ParentMove

LEMMA MoveLogged ==
  ASSUME Typed, Typed', LogOK, ParentMove
  PROVE  /\ LogOK'
         /\ \A g \in Gens : log[g].outcomes \subseteq log'[g].outcomes
<1>a. TypedParts /\ TypedParts'
  BY PartsTyped, PTL
<1>1. CASE UNCHANGED parentVars
  BY <1>1 DEF parentVars, LogOK, ActiveIsFollowed, Active
<1>2. ASSUME NEW r \in Requests, Accept(r)
      PROVE  /\ LogOK' /\ \A g \in Gens : log[g].outcomes \subseteq log'[g].outcomes
  <2>1. gens' \in Gens
    BY <1>2, <1>a DEF Accept, TypedParts
  <2> QED
    BY <1>2, <1>a, <2>1, AcceptLogged DEF Accept, TypedParts
<1>3. ASSUME NEW g \in Gens, NEW out \in Terminal, Commit(g, out)
      PROVE  /\ LogOK' /\ \A h \in Gens : log[h].outcomes \subseteq log'[h].outcomes
  BY <1>3, <1>a, CommitLogged, CommitDecides DEF Commit, parentVars
<1>4. CASE LeaseExpires
  BY <1>4 DEF LeaseExpires, LogOK, ActiveIsFollowed, Active
<1>5. CASE DeadlinePasses
  <2>1. rec'.gen = rec.gen /\ rec'.status = rec.status
    BY <1>5, <1>a DEF DeadlinePasses, TypedParts, Records
  <2> QED
    BY <1>5, <2>1 DEF DeadlinePasses, LogOK, ActiveIsFollowed, Active
<1>6. CASE Expire
  <2>1. ~Active /\ ~Active' /\ result'.gen \in {0, result.gen} /\ (result'.gen # 0 => result' = result)
    BY <1>6 DEF Expire, Active, NoRecord, NoResult, Terminal
  <2>2. rec'.status \in Terminal => rec' = rec
    BY <1>6 DEF Expire, NoRecord, Terminal
  <2> QED
    BY <1>6, <2>1, <2>2 DEF Expire, LogOK, ActiveIsFollowed
<1> QED
  BY <1>1, <1>2, <1>3, <1>4, <1>5, <1>6 DEF ParentMove

-----------------------------------------------------------------------------
(* The children and the answers.                                           *)

\* A child comes to wait only under an active parent, or was waiting before.
LEMMA PendingChildren ==
  ASSUME Typed, Next, NEW g \in Gens, NEW s \in Stages, child'[<<g, s>>] = "pending"
  PROVE  \/ child[<<g, s>>] = "pending"
         \/ Active /\ rec.gen = g /\ rec' = rec
<1>a. /\ child \in [Gens \X Stages -> ChildStatuses] /\ run \in [Requests -> Runs] /\ HandsOK
      /\ \A h \in Gens, t \in Stages : <<h, t>> \in Gens \X Stages
  BY DEF Typed, TypeOK
<1>1. CASE child' = child
  BY <1>1
<1>2. ASSUME NEW r \in Requests, Submit(r)
      PROVE  child[<<g, s>>] = "pending" \/ (Active /\ rec.gen = g /\ rec' = rec)
  <2>1. CASE <<g, s>> = <<run[r].gen, run[r].stage>>
    BY <1>2, <2>1 DEF Submit, SubmitAdmits, Admits, InForce, parentVars
  <2>2. CASE <<g, s>> # <<run[r].gen, run[r].stage>>
    BY <1>2, <2>2, <1>a DEF Submit
  <2> QED
    BY <2>1, <2>2
<1>3. ASSUME NEW r \in Requests, Withdraw(r) PROVE child[<<g, s>>] = "pending"
  BY <1>3, <1>a DEF Withdraw
<1>4. ASSUME NEW h, NEW out, Commit(h, out) PROVE child[<<g, s>>] = "pending"
  BY <1>4, <1>a DEF Commit
<1>5. ASSUME NEW h \in Gens, NEW t \in Stages, CancelChild(h, t) PROVE child[<<g, s>>] = "pending"
  BY <1>5, <1>a DEF CancelChild
<1>6. ASSUME NEW h \in Gens, NEW t \in Stages, WorkChild(h, t)
      PROVE  child[<<g, s>>] = "pending" \/ (Active /\ rec.gen = g /\ rec' = rec)
  <2>1. CASE <<g, s>> = <<h, t>>
    BY <1>6, <2>1, <1>a DEF WorkChild, Admits, InForce, parentVars
  <2>2. CASE <<g, s>> # <<h, t>>
    BY <1>6, <2>2, <1>a DEF WorkChild
  <2> QED
    BY <2>1, <2>2
<1>7. CASE \E r \in Requests :
             Ask(r) \/ Accept(r) \/ Join(r) \/ Conflict(r) \/ ReadBack(r) \/ WaitRecord(r) \/ WaitResult(r)
               \/ SkipStage(r) \/ ChildResult(r) \/ Evaluated(r) \/ Interrupted(r) \/ FinishFails(r) \/ Crash(r)
  BY <1>1, <1>7
     DEF Ask, Accept, Join, Conflict, ReadBack, WaitRecord, WaitResult, SkipStage, ChildResult, Evaluated,
         Interrupted, FinishFails, Crash
<1>8. CASE LeaseExpires \/ DeadlinePasses \/ Look \/ Cancel \/ Expire
  BY <1>1, <1>8 DEF LeaseExpires, DeadlinePasses, Look, Cancel, Expire
<1> QED
  BY <1>2, <1>3, <1>4, <1>5, <1>6, <1>7, <1>8 DEF Next, Finish, Act

\* Once the parent's record changes, the waiting children are over: the commit
\* closes its own, and no other generation has any.
LEMMA KeepPending ==
  ASSUME Typed, LogOK, PendingChildHasParent, Next
  PROVE  PendingChildHasParent'
<1> SUFFICES ASSUME NEW g \in Gens, NEW s \in Stages, child'[<<g, s>>] = "pending"
             PROVE  Active' /\ rec'.gen = g
  BY DEF PendingChildHasParent
<1>a. TypedParts /\ ParentMove /\ child \in [Gens \X Stages -> ChildStatuses]
  BY PartsTyped, StepMovesParent DEF Typed, TypeOK
<1>1. Active /\ rec.gen = g
  BY PendingChildren DEF PendingChildHasParent
<1>2. CASE rec' = rec
  BY <1>1, <1>2 DEF Active
<1>3. CASE DeadlinePasses
  BY <1>1, <1>3, <1>a DEF DeadlinePasses, TypedParts, Records, Active
<1>4. ASSUME NEW h \in Gens, NEW out \in Terminal, Commit(h, out), rec' # rec
      PROVE  FALSE
  <2>1. MayCommit(h)
    BY <1>4 DEF Commit, parentVars
  <2>2. h = g
    BY <1>1, <2>1 DEF MayCommit
  <2>3. child'[<<g, s>>] # "pending"
    BY <1>4, <2>1, <2>2, <1>a DEF Commit
  <2> QED
    BY <2>3
<1>5. ~Expire /\ \A r \in Requests : ~Accept(r)
  BY <1>1 DEF Expire, Accept, Creates, Active, Terminal
<1>6. LeaseExpires => rec' = rec
  BY DEF LeaseExpires
<1> QED
  BY <1>a, <1>2, <1>3, <1>4, <1>5, <1>6 DEF ParentMove, parentVars

\* A request is answered with the result it finds, of its own generation; what
\* is committed is never taken back.
LEMMA KeepAnswers ==
  ASSUME Typed, LogOK, AnswersOK, Next, \A g \in Gens : log[g].outcomes \subseteq log'[g].outcomes
  PROVE  AnswersOK'
<1>a. /\ req \in [Requests -> Handlers] /\ result \in Results
      /\ result.gen # 0 => result.gen \in Gens /\ result.status \in log[result.gen].outcomes
  BY DEF Typed, TypeOK, Results, LogOK
<1>b. \A r \in Requests : req[r] \in Handlers
  BY <1>a
<1>c. \A r \in Requests, pc \in {"checked", "accepted", "waiting", "reading", "conflict", "lost"} :
        Quit(pc).pc # "answered"
  BY DEF Quit
<1>d. HandsOK
  BY DEF Typed
<1> SUFFICES ASSUME NEW q \in Requests, req'[q].pc = "answered"
             PROVE  req'[q].gen # 0 /\ req'[q].out \in log'[req'[q].gen].outcomes
  BY DEF AnswersOK
<1>1. CASE req'[q] = req[q]
  BY <1>1, <1>b DEF AnswersOK, Handlers
<1>2. CASE Ask(q) /\ req'[q] # req[q]
  <2>1. PICK x \in Hashes, f \in BOOLEAN :
          LET asked == [req[q] EXCEPT !.hash = x, !.force = f]
              cached == ~f /\ result.gen # 0 /\ result.hash = x
          IN  Handle(q, CASE tombstone             -> Quit("conflict")
                          [] ~tombstone /\ cached  -> [asked EXCEPT !.pc = "answered", !.force = FALSE,
                                                                   !.gen = result.gen, !.out = result.status]
                          [] ~tombstone /\ ~cached -> [asked EXCEPT !.pc = "checked"])
    BY <1>2 DEF Ask
  <2> DEFINE answered == [req[q] EXCEPT !.hash = x, !.force = FALSE, !.pc = "answered",
                                        !.gen = result.gen, !.out = result.status]
             checked  == [req[q] EXCEPT !.hash = x, !.force = f, !.pc = "checked"]
  <2>2. answered.gen = result.gen /\ answered.out = result.status /\ checked.pc = "checked"
    BY <1>b DEF Handlers
  <2>3. \/ req' = [req EXCEPT ![q] = Quit("conflict")]
        \/ req' = [req EXCEPT ![q] = answered] /\ result.gen # 0
        \/ req' = [req EXCEPT ![q] = checked]
    BY <2>1, <1>b DEF Handle, Handlers, Typed, TypeOK
  <2> HIDE DEF answered, checked
  <2>4. req'[q] = answered /\ result.gen # 0
    BY <2>2, <2>3, <1>a, <1>c
  <2>5. UNCHANGED parentVars
    BY <1>2 DEF Ask
  <2> QED
    BY <2>2, <2>4, <2>5, <1>a DEF parentVars
<1>3. CASE WaitResult(q) /\ req'[q] # req[q]
  <2>1. result.gen = req[q].gen /\ req'[q].gen = result.gen /\ req'[q].out = result.status
    <3> DEFINE a == [req[q] EXCEPT !.pc = "answered", !.open = FALSE, !.out = result.status]
               p == [req[q] EXCEPT !.pc = "waiting", !.open = FALSE]
    <3>1. a.gen = req[q].gen /\ a.out = result.status /\ p.pc = "waiting"
      BY <1>b DEF Handlers
    <3> HIDE DEF a, p
    <3>2. Handle(q, CASE MyResult(q) -> a [] Unavailable(q) -> Quit("conflict") [] OTHER -> p)
      BY <1>3 DEF WaitResult, a, p
    <3>3. CASE MyResult(q)
      <4>1. req' = [req EXCEPT ![q] = a]
        BY <3>2, <3>3 DEF Handle, Unavailable
      <4> QED
        BY <4>1, <3>1, <3>3, <1>a DEF MyResult
    <3>4. CASE Unavailable(q)
      <4>1. req' = [req EXCEPT ![q] = Quit("conflict")]
        BY <3>2, <3>4 DEF Handle, Unavailable
      <4> QED
        BY <4>1, <1>a, <1>c
    <3>5. CASE ~MyResult(q) /\ ~Unavailable(q)
      <4>1. req' = [req EXCEPT ![q] = p]
        BY <3>2, <3>5 DEF Handle
      <4> QED
        BY <4>1, <3>1, <1>a
    <3> QED
      BY <3>3, <3>4, <3>5
  <2>2. req[q].gen # 0 /\ UNCHANGED parentVars
    BY <1>3, <1>d DEF WaitResult, HandsOK
  <2> QED
    BY <2>1, <2>2, <1>a DEF parentVars
<1>4. ASSUME NEW r \in Requests, Join(r) \/ Accept(r) \/ Conflict(r) \/ ReadBack(r) \/ WaitRecord(r) \/ Crash(r),
             req'[q] # req[q]
      PROVE  FALSE
  <2>1. r = q
    BY <1>4, <1>a DEF Join, Accept, Conflict, ReadBack, WaitRecord, Crash, Handle
  <2>2. req'[q].pc # "answered"
    <3>1. \A h : req' = [req EXCEPT ![q] = h] => req'[q] = h
      BY <1>a
    <3>2. CASE Join(q)
      BY <3>1, <3>2, <1>b DEF Join, Handle, Handlers
    <3>3. CASE Accept(q)
      BY <3>1, <3>3, <1>b DEF Accept, Handle, Handlers
    <3>4. CASE Conflict(q)
      BY <3>1, <3>4, <1>c DEF Conflict, Handle
    <3>5. CASE ReadBack(q)
      <4> DEFINE h == [req[q] EXCEPT !.pc = "waiting", !.gen = rec.gen, !.owner = FALSE]
      <4>1. h.pc = "waiting"
        BY <1>b DEF Handlers
      <4>2. req' = [req EXCEPT ![q] = Quit("conflict")] \/ req' = [req EXCEPT ![q] = h]
        BY <3>5 DEF ReadBack, Handle
      <4> HIDE DEF h
      <4> QED
        BY <4>1, <4>2, <3>1, <1>c
    <3>6. CASE WaitRecord(q)
      BY <3>1, <3>6, <1>b, <1>c DEF WaitRecord, Handle, Handlers
    <3>7. CASE Crash(q)
      BY <3>1, <3>7, <1>4, <1>c DEF Crash, Handle
    <3> QED
      BY <1>4, <2>1, <3>2, <3>3, <3>4, <3>5, <3>6, <3>7
  <2> QED
    BY <2>2
<1>5. ASSUME NEW r \in Requests, r # q, Ask(r) \/ WaitResult(r) PROVE req'[q] = req[q]
  BY <1>5, <1>a DEF Ask, WaitResult, Handle
<1>6. ASSUME NEW r \in Requests,
             SkipStage(r) \/ Submit(r) \/ ChildResult(r) \/ Withdraw(r) \/ Evaluated(r) \/ Interrupted(r)
               \/ Finish(r) \/ FinishFails(r)
      PROVE  req'[q] = req[q]
  BY <1>6 DEF SkipStage, Submit, ChildResult, Withdraw, Evaluated, Interrupted, Finish, FinishFails
<1>7. CASE \/ LeaseExpires \/ DeadlinePasses \/ Look \/ Cancel \/ Expire
           \/ \E g \in Gens : Act(g) \/ \E s \in Stages : CancelChild(g, s) \/ WorkChild(g, s)
  BY <1>1, <1>7 DEF LeaseExpires, DeadlinePasses, Look, Cancel, Expire, Act, CancelChild, WorkChild
<1> QED
  BY <1>1, <1>2, <1>3, <1>4, <1>5, <1>6, <1>7 DEF Next

-----------------------------------------------------------------------------
(* The theorems.                                                           *)

LEMMA InitInv == Init => Inv
<1> SUFFICES ASSUME Init PROVE Inv
  OBVIOUS
<1>1. LogOK
  BY LifecycleAssumption, GensType DEF Init, LogOK, ActiveIsFollowed, Active, NoRecord, NoResult, Terminal
<1>2. PendingChildHasParent
  BY DEF Init, PendingChildHasParent
<1>3. AnswersOK
  BY DEF Init, AnswersOK, Quit
<1> QED
  BY <1>1, <1>2, <1>3, InitTyped DEF Inv

LEMMA NextInv == Inv /\ [Next]_vars => Inv'
<1> SUFFICES ASSUME Inv, [Next]_vars PROVE Inv'
  OBVIOUS
<1>1. Typed /\ Typed' /\ LogOK
  BY NextTyped DEF Inv
<1>2. LogOK' /\ \A g \in Gens : log[g].outcomes \subseteq log'[g].outcomes
  BY <1>1, StepMovesParent, MoveLogged
<1>3. CASE Next
  BY <1>1, <1>2, <1>3, KeepPending, KeepAnswers DEF Inv
<1>4. CASE UNCHANGED vars
  BY <1>1, <1>2, <1>4 DEF Inv, vars, parentVars, PendingChildHasParent, AnswersOK, Active
<1> QED
  BY <1>3, <1>4

LEMMA InvAlways == Spec => []Inv
BY InitInv, NextInv, PTL DEF Spec

\* Whoever commits first for a generation decides its outcome, and record,
\* result and history agree on it: the status test of _FINISH.
THEOREM OneOutcomeWins == Spec => []FirstCommitWins
<1>1. ASSUME Inv PROVE FirstCommitWins
  <2>1. LogOK
    BY <1>1 DEF Inv
  <2>2. ASSUME NEW g \in Gens PROVE Cardinality(log[g].outcomes) <= 1
    <3>1. PICK out \in Terminal : log[g].outcomes \in SUBSET {out}
      BY <2>1 DEF LogOK
    <3>2. IsFiniteSet({out}) /\ Cardinality({out}) = 1
      BY FS_Singleton
    <3> QED
      BY <3>1, <3>2, FS_Subset
  <2> QED
    BY <2>1, <2>2 DEF LogOK, FirstCommitWins
<1> QED
  BY <1>1, InvAlways, PTL

\* The index of active workflows holds every generation that owes an outcome,
\* as _ACCEPT and _FINISH keep it, so reconciliation finds what is abandoned.
THEOREM OwedIsFollowed == Spec => []ActiveIsFollowed
<1>1. Inv => ActiveIsFollowed
  BY DEF Inv, LogOK
<1> QED
  BY <1>1, InvAlways, PTL

\* No child waits to start for a generation that is over or was replaced:
\* submission and release are guarded, and the commit closes what waits.
THEOREM PendingChildrenHaveParents == Spec => []PendingChildHasParent
<1>1. Inv => PendingChildHasParent
  BY DEF Inv
<1> QED
  BY <1>1, InvAlways, PTL

\* What wait() or the cache answers is an outcome that was committed for the
\* generation the request follows.
THEOREM AnswersAreOutcomes == Spec => []AnswerIsTheOutcome
<1>1. Inv => AnswerIsTheOutcome
  BY DEF Inv, AnswersOK, AnswerIsTheOutcome
<1> QED
  BY <1>1, InvAlways, PTL

\* _FINISH records no success once the id was cancelled, the deadline has
\* passed or the owner's lease has lapsed, however late the owner commits.
THEOREM NoLateSuccess == Spec => NoSuccessAfterFence
<1>1. ASSUME Inv, [Next]_vars, Active, rec'.status = "completed"
      PROVE  ~tombstone /\ ~rec.late /\ lease = rec.gen
  <2>1. Typed /\ ParentMove /\ TypedParts
    BY <1>1, StepMovesParent, PartsTyped DEF Inv
  <2>2. rec' # rec /\ ~Expire /\ ~LeaseExpires /\ \A r \in Requests : ~Accept(r)
    <3>1. rec' # rec
      BY <1>1 DEF Active
    <3>2. ~Expire /\ \A r \in Requests : ~Accept(r)
      BY <1>1 DEF Active, Expire, Accept, Creates, Terminal
    <3> QED
      BY <3>1, <3>2 DEF LeaseExpires
  <2>3. ~DeadlinePasses
    BY <1>1, <2>1 DEF Active, DeadlinePasses, TypedParts, Records
  <2>4. PICK g \in Gens, out \in Terminal : Commit(g, out)
    BY <2>1, <2>2, <2>3 DEF ParentMove, parentVars
  <2>5. MayCommit(g)
    BY <2>2, <2>4 DEF Commit, parentVars
  <2>6. rec.gen = g /\ Ruling(g, out) = "completed"
    BY <1>1, <2>1, <2>4, <2>5, CommitDecides
  <2>7. rec.late \in BOOLEAN /\ tombstone \in BOOLEAN
    BY <2>1 DEF Typed, TypeOK, Records
  <2> QED
    BY <2>6, <2>7 DEF Ruling
<1>2. Inv /\ [Next]_vars => [Active /\ rec'.status = "completed" => ~tombstone /\ ~rec.late /\ lease = rec.gen]_vars
  BY <1>1
<1> QED
  BY <1>2, InvAlways, PTL DEF Spec, NoSuccessAfterFence
=============================================================================
