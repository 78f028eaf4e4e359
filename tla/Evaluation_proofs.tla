------------------------- MODULE Evaluation_proofs -------------------------
(***************************************************************************)
(* The invariants of Evaluation for any number of requests, generations,   *)
(* servers, hosts and compile workers, and any number of faults.           *)
(*                                                                         *)
(* Inv has a part for the controller of a generation (RunOK), for a child  *)
(* record (ChildOK), for one that is about to be deleted or whose          *)
(* completion may be repeated (EndOK), for a compile worker (WorkerOK),    *)
(* for a cached entry (EntryOK) and for the way of a split kernel to its   *)
(* host (SplitOK).                                                         *)
(***************************************************************************)
EXTENDS Evaluation, SequenceTheorems, TLAPS

Sites       == Hosts \cup {Nowhere}
PCs         == {"unborn", "start", "select", "submit", "wait", "refer", "combine", "commit", "over"}
Controllers == [pc : PCs, stage : Stages, target : Sites, need : BOOLEAN, took : Nat, ref : Codes \cup {Unnamed}]
Hands       == [pc : {"idle", "mark", "run", "push", "again"}, task : Children \cup {NoTask}, deferred : SUBSET Children]

\* A controller acts only for the generation in force, and the generations to
\* come are untouched.  What it took and timed is its own.
RunOK(x) ==
  /\ ctl[x].pc \notin {"unborn", "combine", "over"} => Active(x)
  /\ x[2] > gen[x[1]] => ctl[x].pc = "unborn"
  /\ ctl[x].took \in {0, x[2]}
  /\ ctl[x].ref \in {Unnamed, Ask(x).code}
  /\ ctl[x].pc = "combine" => ctl[x].ref = Ask(x).code

\* The generation is over, and does not come again.
Past(c) == c[3] <= gen[c[1]] /\ ~Active(RunOf(c))

\* A record is absent or whole, or was written once more when its generation was
\* over.  A child waits only under an open parent.
ChildOK(c) ==
  /\ child[c].st = "none" => child[c] = Absent
  /\ child[c].st # "none" =>
       /\ c[3] <= gen[c[1]]
       /\ \/ child[c].data /\ child[c].by = c[3]
          \/ c \in unsure /\ child[c].st = "done" /\ Past(c)
  /\ child[c].st = "pending" => Active(RunOf(c))
  /\ child[c].st \in {"pending", "processing", "dropped"} => child[c].out = "none"
  /\ c \in cpu => c[2] = "compile"
  /\ c \in gpu => c[2] # "compile" /\ child[c].st = "pending"

\* What a cleanup will delete is of the past; a compilation whose completion was
\* written and its reply lost is done, or gone with its generation.
EndOK(c) ==
  /\ c \in doomed => Past(c)
  /\ c \in unsure =>
       /\ c[2] = "compile" /\ child[c].st \in {"none", "done"}
       /\ child[c].st = "none" => Past(c)
       /\ ctl[RunOf(c)].pc \notin {"unborn", "start", "select"}

\* The worker has marked its task.
Works(v) == Holds(v, "run") \/ (Holds(v, "push") /\ Task(v) # NoTask)

WorkerOK(v) ==
  /\ Holds(v, "idle") => Task(v) = NoTask
  /\ Holds(v, "mark") \/ Holds(v, "run") => Task(v) # NoTask
  /\ Holds(v, "run") \/ Holds(v, "again") => worker[v].deferred = {}
  /\ Holds(v, "again") => Task(v) # NoTask /\ Task(v) \in unsure
  /\ Task(v) # NoTask => Task(v)[2] = "compile"
  /\ \A c \in worker[v].deferred : c[2] = "compile"
  /\ Works(v) => child[Task(v)].st = "processing"

\* No two workers have marked one task.
Alone == \A u, v \in Compilers : Works(u) /\ Works(v) /\ Task(u) = Task(v) => u = v

EntryOK(e) == e.hash = e.of

\* The compilation may still be under way.
Early(x) == ctl[x].pc \in {"unborn", "start", "select"} \/ (ctl[x].pc \in {"submit", "wait"} /\ ctl[x].stage = "compile")

SplitOK(x) ==
  LET built == child[ChildId(x, "compile")]
      kernel == child[ChildId(x, "kernel")]
  IN  /\ ctl[x].pc \in {"unborn", "start", "select"} => built.st = "none"
      /\ ~Early(x) /\ ctl[x].pc \notin {"commit", "over"} => built.st \notin {"pending", "processing"}
      /\ built.st = "done" /\ built.out = "good" => built.host = artifact[x] /\ artifact[x] \in Hosts
      /\ Mode(x) = "split" /\ ctl[x].pc = "submit" /\ ctl[x].stage = "kernel" =>
           ctl[x].target = artifact[x] /\ artifact[x] \in Hosts
      /\ Mode(x) = "split" /\ kernel.st # "none" =>
           /\ ~Early(x) /\ built.st \notin {"pending", "processing"}
           /\ kernel.target = artifact[x] /\ artifact[x] \in Hosts /\ kernel.host \in {Nowhere, artifact[x]}

Inv ==
  /\ TypeOK
  /\ \A x \in AllRuns : RunOK(x) /\ SplitOK(x)
  /\ \A c \in Children : ChildOK(c) /\ EndOK(c)
  /\ \A v \in Compilers : WorkerOK(v)
  /\ Alone
  /\ EntryOK(redis) /\ \A s \in Servers : EntryOK(memory[s])
  /\ OnlyTheDeadLoseTasks

-----------------------------------------------------------------------------
(* Names.                                                                  *)

LEMMA RunFacts ==
  ASSUME NEW x \in AllRuns
  PROVE  /\ x = <<x[1], x[2]>> /\ x[1] \in Requests /\ x[2] \in Nat \ {0} /\ x[2] \in Gens(x[1])
         /\ Ask(x) \in [mode : Modes, code : Codes, cached : BOOLEAN]
         /\ ServerOf[x[1]] \in Servers
<1>1. x \in Runs /\ x[2] \in Gens(x[1])
  BY DEF AllRuns
<1>2. x = <<x[1], x[2]>> /\ x[1] \in Requests
  BY <1>1 DEF Runs
<1>3. Plan[x[1]] \in Seq([mode : Modes, code : Codes, cached : BOOLEAN])
  BY <1>2, EvaluationAssumption
<1>4. x[2] \in 1..Len(Plan[x[1]])
  BY <1>1, <1>3 DEF Gens
<1>5. ASSUME NEW S, NEW p \in Seq(S), NEW g \in 1..Len(p)
      PROVE  g \in Nat \ {0} /\ p[g] \in S
  BY LenProperties
<1>6. x[2] \in Nat \ {0} /\ Plan[x[1]][x[2]] \in [mode : Modes, code : Codes, cached : BOOLEAN]
  BY <1>3, <1>4, <1>5
<1>7. ServerOf[x[1]] \in Servers
  BY <1>2, EvaluationAssumption
<1> QED
  BY <1>1, <1>2, <1>6, <1>7 DEF Ask

LEMMA ChildFacts ==
  ASSUME NEW x \in AllRuns, NEW s \in Stages
  PROVE  LET c == ChildId(x, s)
         IN  c \in Children /\ RunOf(c) = x /\ c[1] = x[1] /\ c[2] = s /\ c[3] = x[2]
BY RunFacts DEF ChildId, Children, RunOf

LEMMA NameFacts ==
  ASSUME NEW c \in Children
  PROVE  RunOf(c) \in AllRuns /\ c[2] \in Stages /\ c[1] = RunOf(c)[1] /\ c[3] = RunOf(c)[2] /\ c = ChildId(RunOf(c), c[2])
BY RunFacts DEF Children, RunOf, ChildId

\* A generation to come of an open slot.
LEMMA NextGen ==
  ASSUME NEW r \in Requests, gen[r] + 1 \in Gens(r)
  PROVE  <<r, gen[r] + 1>> \in AllRuns
BY DEF AllRuns, Runs

LEMMA NoTaskIsNoChild == NoTask \notin Children
BY NameFacts DEF NoTask, RunOf, ChildId, Children

-----------------------------------------------------------------------------
(* Types.                                                                  *)

LEMMA TypeParts ==
  TypeOK <=>
    /\ gen \in [Requests -> Nat] /\ open \subseteq Requests /\ lease \subseteq Requests /\ marked \subseteq Requests
    /\ ctl \in [AllRuns -> Controllers]
    /\ child \in [Children -> Records]
    /\ cpu \subseteq Children /\ gpu \subseteq Children
    /\ worker \in [Compilers -> Hands]
    /\ memory \in [Servers -> Entries \cup {NoEntry}] /\ redis \in Entries \cup {NoEntry}
    /\ doomed \subseteq Children /\ faults \in 0..MaxFaults
    /\ lost \subseteq Children /\ unsure \subseteq Children
    /\ artifact \in [AllRuns -> Sites]
BY DEF TypeOK, Controllers, PCs, Hands, Sites

\* The records that the code starts from.
LEMMA Blanks ==
  /\ Unborn \in Controllers /\ Over \in Controllers /\ Absent \in Records /\ Resting \in Hands
  /\ Preloaded \in Entries \cup {NoEntry} /\ EntryOK(Preloaded) /\ EntryOK(NoEntry)
BY EvaluationAssumption
   DEF Unborn, Over, Controllers, PCs, Stages, Sites, Absent, Records, Outcomes, Resting, Hands, Preloaded, Entries,
       NoEntry, EntryOK

\* What an action may write into a record.
LEMMA RecordWrites ==
  ASSUME NEW d \in Records
  PROVE  /\ [d EXCEPT !.st = "dropped"] \in Records
         /\ \A h \in Hosts : [d EXCEPT !.st = "processing", !.host = h] \in Records
         /\ \A h \in Hosts, o \in {"good", "bad"} : [d EXCEPT !.st = "done", !.out = o, !.host = h] \in Records
         /\ \A o \in {"good", "bad"} : [d EXCEPT !.st = "done", !.out = o] \in Records
         /\ \A h \in Sites, n \in Nat :
              [Absent EXCEPT !.st = "pending", !.target = h, !.by = n, !.data = TRUE] \in Records
BY Blanks DEF Records, Outcomes, Sites

LEMMA TypeStep ==
  ASSUME Inv, Next
  PROVE  TypeOK'
<1>a. /\ gen \in [Requests -> Nat] /\ open \subseteq Requests /\ lease \subseteq Requests /\ marked \subseteq Requests
      /\ ctl \in [AllRuns -> Controllers]
      /\ child \in [Children -> Records]
      /\ cpu \subseteq Children /\ gpu \subseteq Children
      /\ worker \in [Compilers -> Hands]
      /\ memory \in [Servers -> Entries \cup {NoEntry}] /\ redis \in Entries \cup {NoEntry}
      /\ doomed \subseteq Children /\ faults \in 0..MaxFaults
      /\ lost \subseteq Children /\ unsure \subseteq Children
      /\ artifact \in [AllRuns -> Sites]
  BY TypeParts DEF Inv
<1> SUFFICES
      /\ gen' \in [Requests -> Nat] /\ open' \subseteq Requests
      /\ lease' \subseteq Requests /\ marked' \subseteq Requests
      /\ ctl' \in [AllRuns -> Controllers]
      /\ child' \in [Children -> Records]
      /\ cpu' \subseteq Children /\ gpu' \subseteq Children
      /\ worker' \in [Compilers -> Hands]
      /\ memory' \in [Servers -> Entries \cup {NoEntry}] /\ redis' \in Entries \cup {NoEntry}
      /\ doomed' \subseteq Children /\ faults' \in 0..MaxFaults
      /\ lost' \subseteq Children /\ unsure' \subseteq Children
      /\ artifact' \in [AllRuns -> Sites]
  BY DEF TypeOK, Controllers, PCs, Hands, Sites
<1> DEFINE Goal ==
      /\ gen' \in [Requests -> Nat] /\ open' \subseteq Requests
      /\ lease' \subseteq Requests /\ marked' \subseteq Requests
      /\ ctl' \in [AllRuns -> Controllers]
      /\ child' \in [Children -> Records]
      /\ cpu' \subseteq Children /\ gpu' \subseteq Children
      /\ worker' \in [Compilers -> Hands]
      /\ memory' \in [Servers -> Entries \cup {NoEntry}] /\ redis' \in Entries \cup {NoEntry}
      /\ doomed' \subseteq Children /\ faults' \in 0..MaxFaults
      /\ lost' \subseteq Children /\ unsure' \subseteq Children
      /\ artifact' \in [AllRuns -> Sites]
<1>e. ASSUME NEW x \in AllRuns, EndsChildren(x)
      PROVE  child' \in [Children -> Records] /\ cpu' \subseteq Children /\ gpu' \subseteq Children
  BY <1>a, <1>e, RecordWrites DEF EndsChildren, Ended
<1>m. ASSUME NEW x \in AllRuns
      PROVE  Entry(ServerOf[x[1]]) \in Entries \cup {NoEntry} /\ ChildId(x, ctl[x].stage) \in Children /\ ctl[x] \in Controllers
  BY <1>a, RunFacts, ChildFacts DEF Entry, Controllers
<1>1. ASSUME NEW r \in Requests, Accept(r)
      PROVE  Goal
  <2>1. gen[r] + 1 \in Nat
    BY <1>a
  <2>2. \A y \in AllRuns : [ctl[y] EXCEPT !.pc = "start"] \in Controllers
    BY <1>a DEF Controllers, PCs
  <2> QED
    BY <1>a, <1>1, <2>1, <2>2 DEF Accept, Store, Fleet, Caches
<1>2. ASSUME NEW r \in Requests, Fail(r)
      PROVE  Goal
  <2>1. child' \in [Children -> Records] /\ cpu' \subseteq Children /\ gpu' \subseteq Children
    BY <1>a, <1>2, RecordWrites DEF Fail, EndsChildren, Ended
  <2> QED
    BY <1>a, <1>2, <2>1, Blanks DEF Fail, Closes, Fleet, Caches
<1>3. ASSUME NEW x \in AllRuns, Begin(x)
      PROVE  Goal
  <2>1. \A n \in BOOLEAN, p \in PCs, s \in Stages : [ctl[x] EXCEPT !.need = n, !.pc = p, !.stage = s] \in Controllers
    BY <1>m DEF Controllers
  <2> QED
    BY <1>a, <1>m, <1>3, <2>1 DEF Parent, Begin, Reads, PCs, Stages, Store, Fleet
<1>4. ASSUME NEW x \in AllRuns, Select(x)
      PROVE  Goal
  <2>1. \A h \in Hosts : [ctl[x] EXCEPT !.pc = "submit", !.stage = "compile", !.target = h] \in Controllers
    BY <1>m DEF Controllers, PCs, Sites, Stages
  <2>2. [ctl[x] EXCEPT !.pc = "commit"] \in Controllers
    BY <1>m DEF Controllers, PCs
  <2>3. \A fresh \in SUBSET Hosts : Choices(fresh) \subseteq Hosts
    BY DEF Choices
  <2>4. PICK q \in Controllers : ctl' = [ctl EXCEPT ![x] = q]
    <3>1. CASE Goes(x, "commit")
      BY <2>2, <3>1 DEF Goes
    <3>2. ASSUME NEW h \in Hosts, Asks(x, "compile", h)
          PROVE  \E q \in Controllers : ctl' = [ctl EXCEPT ![x] = q]
      BY <2>1, <3>2 DEF Asks
    <3> QED
      BY <1>4, <2>3, <3>1, <3>2 DEF Select
  <2> QED
    BY <1>a, <1>4, <2>4 DEF Parent, Select, Store, Fleet, Caches
<1>5. ASSUME NEW x \in AllRuns, Submit(x)
      PROVE  Goal
  <2>1. [ctl[x] EXCEPT !.pc = "wait"] \in Controllers /\ ctl[x].target \in Sites
    BY <1>m DEF Controllers, PCs
  <2>2. [Absent EXCEPT !.st = "pending", !.target = ctl[x].target, !.by = x[2], !.data = TRUE] \in Records
    BY <2>1, RunFacts, RecordWrites, Blanks
  <2> QED
    BY <1>a, <1>m, <1>5, <2>1, <2>2 DEF Parent, Submit, Mine, Goes, Fleet, Caches
<1>6. ASSUME NEW x \in AllRuns, Compiled(x)
      PROVE  Goal
  <2>1. child[Mine(x)] \in Records
    BY <1>a, <1>m DEF Mine
  <2>2. \A n \in Nat, p \in PCs, s \in Stages, h \in Sites :
          [ctl[x] EXCEPT !.took = n, !.pc = p, !.stage = s, !.target = h] \in Controllers
    BY <1>m DEF Controllers
  <2>3. child[Mine(x)].by \in Nat /\ child[Mine(x)].host \in Sites /\ ctl[x].target \in Sites
    BY <1>m, <2>1 DEF Records, Sites, Controllers
  <2> DEFINE c  == child[Mine(x)]
             on == Mode(x) = "split" /\ c.out = "good"
             q  == [ctl[x] EXCEPT !.took = c.by,
                                  !.pc = IF on THEN "submit" ELSE "commit",
                                  !.stage = IF on THEN "kernel" ELSE "compile",
                                  !.target = IF on THEN c.host ELSE ctl[x].target]
  <2>4. q \in Controllers
    <3>1. (IF on THEN "submit" ELSE "commit") \in PCs /\ (IF on THEN "kernel" ELSE "compile") \in Stages
      BY DEF PCs, Stages
    <3> QED
      BY <2>2, <2>3, <3>1
  <2>5. ctl' = [ctl EXCEPT ![x] = q]
    BY <1>a, <1>m, <1>6 DEF Compiled, Controllers
  <2>6. UNCHANGED <<Parent, Store, Fleet, Caches, faults>>
    BY <1>6 DEF Compiled
  <2> HIDE DEF q
  <2> QED
    BY <1>a, <2>4, <2>5, <2>6 DEF Parent, Store, Fleet, Caches
<1>7. ASSUME NEW x \in AllRuns, Judged(x)
      PROVE  Goal
  <2>1. child[Mine(x)].by \in Nat
    BY <1>a, <1>m DEF Mine, Records
  <2>2. \A n \in Nat, p \in PCs : [ctl[x] EXCEPT !.pc = p, !.took = n] \in Controllers
    BY <1>m DEF Controllers
  <2> QED
    BY <1>a, <1>7, <2>1, <2>2 DEF Parent, Judged, PCs, Store, Fleet, Caches
<1>8. ASSUME NEW x \in AllRuns, Refer(x)
      PROVE  Goal
  <2>1. [ctl[x] EXCEPT !.pc = "submit", !.stage = "ref", !.target = Nowhere] \in Controllers
    BY <1>m DEF Controllers, PCs, Sites, Stages
  <2>2. \A e \in Entries : [ctl[x] EXCEPT !.pc = "combine", !.ref = e.of] \in Controllers
    BY <1>m DEF Controllers, PCs, Entries
  <2>3. Hit(x) => Entry(ServerOf[x[1]]) \in Entries
    BY <1>m DEF Hit, Compatible
  <2> QED
    BY <1>a, <1>m, <1>8, <2>1, <2>2, <2>3 DEF Parent, Refer, Asks, Reads, Store, Fleet
<1>9. ASSUME NEW x \in AllRuns, Timed(x)
      PROVE  Goal
  <2> DEFINE c == Mine(x)
  <2>1. c \in Children /\ child[c] \in Records /\ c[3] = x[2] /\ ctl[x].ref \in Codes \cup {Unnamed}
    BY <1>a, <1>m, ChildFacts DEF Mine, Controllers
  <2>2. child[c].by \in Nat /\ child[c].by = x[2]
    <3>1. Active(x) /\ RunOf(c) = x /\ child[c].st # "none"
      BY <1>9, <2>1, ChildFacts DEF Timed, Terminal, At, Inv, RunOK, Mine, Controllers, TypeOK
    <3> QED
      BY <2>1, <3>1 DEF Inv, ChildOK, Past, Records
  <2>3. Plan[x[1]][x[2]].code \in Codes
    BY RunFacts DEF Ask
  <2>4. \A n \in Nat, p \in PCs, e \in Codes \cup {Unnamed} :
          [ctl[x] EXCEPT !.took = n, !.pc = p, !.ref = e] \in Controllers
    BY <1>m DEF Controllers
  <2> HIDE DEF c
  <2> QED
    BY <1>a, <1>9, <2>1, <2>2, <2>3, <2>4 DEF Parent, Timed, PCs, Store, Fleet, Caches, c
<1>10. ASSUME NEW x \in AllRuns, Combine(x)
       PROVE  Goal
  <2>1. [ctl[x] EXCEPT !.pc = "commit"] \in Controllers
    BY <1>m DEF Controllers, PCs
  <2>2. ctl[x].ref \in Codes
    BY <1>10, RunFacts DEF Combine, At, Inv, RunOK
  <2>3. [hash |-> Ask(x).code, of |-> ctl[x].ref] \in Entries
    BY <2>2, RunFacts DEF Entries
  <2> QED
    BY <1>a, <1>10, <2>1, <2>3, Blanks DEF Parent, Combine, Puts, Goes, Store, Fleet, Caches
<1>11. ASSUME NEW x \in AllRuns, Commit(x)
       PROVE  Goal
  BY <1>a, <1>e, <1>11, Blanks DEF Commit, Closes, Fleet, Caches
<1>h. \A v \in Compilers : HostOf[v] \in Hosts /\ worker[v] \in Hands
  BY <1>a, EvaluationAssumption
<1>12. ASSUME NEW v \in Compilers, Scan(v)
       PROVE  Goal
  <2>1. \A c \in Children : /\ [worker[v] EXCEPT !.pc = "mark", !.task = c] \in Hands
                            /\ [worker[v] EXCEPT !.deferred = @ \cup {c}] \in Hands
    BY <1>h DEF Hands
  <2>2. PICK q \in Hands : worker' = [worker EXCEPT ![v] = q]
    <3>1. PICK c \in cpu :
            /\ cpu' = cpu \ {c}
            /\ worker' = [worker EXCEPT ![v] =
                 IF child[c].st # "pending" \/ c[1] \in marked THEN @
                 ELSE IF Matches(c, HostOf[v]) THEN [worker[v] EXCEPT !.pc = "mark", !.task = c]
                 ELSE [worker[v] EXCEPT !.deferred = @ \cup {c}]]
      BY <1>12 DEF Scan
    <3> QED
      <4>1. c \in Children /\ worker[v] \in Hands
        BY <1>a, <1>h
      <4> DEFINE q == IF child[c].st # "pending" \/ c[1] \in marked THEN worker[v]
                      ELSE IF Matches(c, HostOf[v]) THEN [worker[v] EXCEPT !.pc = "mark", !.task = c]
                      ELSE [worker[v] EXCEPT !.deferred = @ \cup {c}]
      <4>2. q \in Hands
        BY <2>1, <4>1
      <4>3. worker' = [worker EXCEPT ![v] = q]
        BY <3>1
      <4> HIDE DEF q
      <4> QED
        BY <4>2, <4>3
  <2>3. cpu' \subseteq Children
    BY <1>a, <1>12 DEF Scan
  <2> QED
    BY <1>a, <1>12, <2>2, <2>3 DEF Parent, Scan, Caches
<1>13. ASSUME NEW v \in Compilers, Mark(v)
       PROVE  Goal
  <2>1. Leave(worker[v]) \in Hands /\ [worker[v] EXCEPT !.pc = "idle", !.task = NoTask] \in Hands
    BY <1>h DEF Hands, Leave
  <2>2. \A c \in Children : [child[c] EXCEPT !.st = "processing", !.host = HostOf[v]] \in Records
    BY <1>a, <1>h, RecordWrites
  <2>3. PICK q \in Hands : worker' = [worker EXCEPT ![v] = q]
    BY <1>h, <1>13, <2>1 DEF Mark
  <2>4. child' \in [Children -> Records]
    <3>1. Task(v) \in Children
      BY <1>h, <1>13 DEF Mark, Inv, WorkerOK, Hands, Task
    <3>2. child' = [child EXCEPT ![Task(v)] = [child[Task(v)] EXCEPT !.st = "processing", !.host = HostOf[v]]] \/ child' = child
      BY <1>a, <1>13, <3>1 DEF Mark
    <3> QED
      BY <1>a, <2>2, <3>1, <3>2
  <2> QED
    BY <1>a, <1>13, <2>3, <2>4 DEF Parent, Mark, Caches
<1>14. ASSUME NEW v \in Compilers, ScanEnds(v)
       PROVE  Goal
  <2>1. [worker[v] EXCEPT !.pc = "push"] \in Hands
    BY <1>h DEF Hands
  <2> QED
    BY <1>a, <1>14, <2>1 DEF Parent, ScanEnds, Store, Caches
<1>15. ASSUME NEW v \in Compilers, PushBack(v)
       PROVE  Goal
  <2>2. worker[v].deferred \subseteq Children
    BY <1>h DEF Hands
  <2>3. \A c : [worker[v] EXCEPT !.deferred = @ \ {c}, !.pc = IF worker[v].deferred # {c} THEN "push"
                                             ELSE IF Task(v) = NoTask THEN "idle" ELSE "run"] \in Hands
    BY <1>h DEF Hands
  <2>4. PICK q \in Hands : worker' = [worker EXCEPT ![v] = q]
    <3>1. PICK c \in worker[v].deferred :
            worker' = [worker EXCEPT ![v].deferred = @ \ {c},
                                     ![v].pc = IF worker[v].deferred # {c} THEN "push"
                                               ELSE IF Task(v) = NoTask THEN "idle" ELSE "run"]
      BY <1>15 DEF PushBack
    <3>2. worker' = [worker EXCEPT ![v] = [worker[v] EXCEPT !.deferred = @ \ {c},
                                     !.pc = IF worker[v].deferred # {c} THEN "push"
                                            ELSE IF Task(v) = NoTask THEN "idle" ELSE "run"]]
      BY <1>a, <3>1
    <3> QED
      BY <2>3, <3>2
  <2>5. cpu' \subseteq Children
    BY <1>a, <1>15, <2>2 DEF PushBack
  <2> QED
    BY <1>a, <1>15, <2>4, <2>5 DEF Parent, PushBack, Caches
<1>w. ASSUME NEW v \in Compilers, NEW out \in {"good", "bad"}, Writes(v, out), Task(v) # NoTask
      PROVE  child' \in [Children -> Records]
  <2>1. Task(v) \in Children
    BY <1>h, <1>w DEF Hands, Task
  <2>2. [child[Task(v)] EXCEPT !.st = "done", !.out = out, !.host = HostOf[v]] \in Records
    BY <1>a, <1>h, <2>1, RecordWrites
  <2>3. child' = [child EXCEPT ![Task(v)] = [child[Task(v)] EXCEPT !.st = "done", !.out = out, !.host = HostOf[v]]]
    BY <1>a, <1>w, <2>1 DEF Writes
  <2> QED
    BY <1>a, <2>1, <2>2, <2>3
<1>16. ASSUME NEW v \in Compilers, Compile(v)
       PROVE  Goal
  <2>1. Task(v) \in Children
    BY <1>h, <1>16 DEF Compile, Inv, WorkerOK, Hands, Task
  <2>2. HostOf[v] \in Sites
    BY <1>h DEF Sites
  <2>3. child' \in [Children -> Records]
    BY <1>w, <1>16, <2>1, NoTaskIsNoChild DEF Compile
  <2>4. artifact' \in [AllRuns -> Sites]
    BY <1>a, <1>16, <2>2 DEF Compile
  <2>5. worker' \in [Compilers -> Hands]
    <3>1. [worker[v] EXCEPT !.pc = "again"] \in Hands
      BY <1>h DEF Hands
    <3> QED
      BY <1>a, <1>16, <3>1, Blanks DEF Compile
  <2>6. unsure' \subseteq Children /\ faults' \in 0..MaxFaults
    BY <1>a, <1>16, <2>1, EvaluationAssumption DEF Compile, Fault
  <2> QED
    BY <1>a, <1>16, <2>3, <2>4, <2>5, <2>6 DEF Compile, Parent, Caches
<1>r. ASSUME NEW v \in Compilers, Recompile(v)
      PROVE  Goal
  <2>1. child' \in [Children -> Records]
    BY <1>w, <1>r DEF Recompile, Inv, WorkerOK
  <2> QED
    BY <1>a, <1>r, <2>1, Blanks DEF Recompile, Parent, Caches
<1>l. ASSUME NEW r \in Requests, Lapse(r) \/ Cancel(r)
      PROVE  Goal
  BY <1>a, <1>l, EvaluationAssumption DEF Lapse, Cancel, Fault, Store, Fleet, Caches
<1>k. ASSUME NEW c \in Children, Skip(c)
      PROVE  Goal
  BY <1>a, <1>k DEF Skip, Parent, Fleet, Caches
<1>d. ASSUME NEW x \in AllRuns, Withdraw(x)
      PROVE  Goal
  <2>1. [ctl[x] EXCEPT !.pc = "commit"] \in Controllers
    BY <1>m DEF Controllers, PCs
  <2>2. child' \in [Children -> Records]
    BY <1>a, <1>m, <1>d, RecordWrites DEF Withdraw, Mine
  <2> QED
    BY <1>a, <1>d, <2>1, <2>2 DEF Withdraw, Goes, Parent, Fleet, Caches
<1>17. ASSUME NEW v \in Compilers, CpuEnds(v)
       PROVE  Goal
  <2>1. worker[v].deferred \subseteq Children /\ {Task(v)} \ {NoTask} \subseteq Children
    BY <1>h DEF Hands, Task
  <2> QED
    BY <1>a, <1>17, <2>1, Blanks, EvaluationAssumption DEF Parent, CpuEnds, Fault, Store, Caches
<1>18. ASSUME NEW c \in Children, NEW h \in Hosts, Start(c, h)
       PROVE  Goal
  BY <1>a, <1>18, RecordWrites DEF Parent, Start, Fleet, Caches
<1>19. ASSUME NEW c \in Children, End(c)
       PROVE  Goal
  <2>1. \A o \in {"good", "bad"} : [child[c] EXCEPT !.st = "done", !.out = o] \in Records
    BY <1>a, RecordWrites
  <2>2. PICK o \in {"good", "bad"} : child' = [child EXCEPT ![c] = [child[c] EXCEPT !.st = "done", !.out = o]]
    BY <1>a, <1>19 DEF End
  <2>3. child' \in [Children -> Records]
    BY <1>a, <2>1, <2>2
  <2> QED
    BY <1>a, <1>19, <2>3 DEF Parent, End, Fleet, Caches
<1>20. ASSUME NEW c \in Children, DiscardRead(c) \/ Discard(c)
       PROVE  Goal
  BY <1>a, <1>20, Blanks DEF Parent, DiscardRead, Discard, Fleet, Caches
<1>21. ASSUME NEW s \in Servers, ServerEnds(s)
       PROVE  Goal
  BY <1>a, <1>21, Blanks, EvaluationAssumption DEF Parent, ServerEnds, Fault, Store, Fleet
<1> QED
  BY <1>1, <1>2, <1>3, <1>4, <1>5, <1>6, <1>7, <1>8, <1>9, <1>10, <1>11, <1>12, <1>13, <1>14, <1>15,
     <1>16, <1>17, <1>18, <1>19, <1>20, <1>21, <1>r, <1>l, <1>k, <1>d DEF Next, Controls, Compiles

-----------------------------------------------------------------------------
(* Controllers.                                                            *)

LEMMA Base ==
  ASSUME Inv
  PROVE  /\ gen \in [Requests -> Nat] /\ open \subseteq Requests
         /\ ctl \in [AllRuns -> Controllers]
         /\ child \in [Children -> Records]
         /\ cpu \subseteq Children /\ gpu \subseteq Children
         /\ worker \in [Compilers -> Hands]
         /\ memory \in [Servers -> Entries \cup {NoEntry}] /\ redis \in Entries \cup {NoEntry}
         /\ artifact \in [AllRuns -> Sites]
         /\ \A x \in AllRuns : RunOK(x)
         /\ \A c \in Children : ChildOK(c) /\ EndOK(c)
         /\ \A v \in Compilers : WorkerOK(v)
BY TypeParts DEF Inv

\* One generation of a parent is in force.
LEMMA ActiveIsOne ==
  ASSUME NEW x \in AllRuns, NEW y \in AllRuns, Active(x), Active(y), x[1] = y[1]
  PROVE  x = y
BY RunFacts DEF Active

\* What a controller takes over is of its own generation.
LEMMA OwnAnswer ==
  ASSUME Inv, NEW x \in AllRuns, At(x, "wait"), Terminal(Mine(x))
  PROVE  Mine(x) \in Children /\ child[Mine(x)].by = x[2]
<1>1. ctl[x].stage \in Stages
  BY Base DEF Controllers
<1>2. Mine(x) \in Children /\ Mine(x)[3] = x[2] /\ RunOf(Mine(x)) = x
  BY <1>1, ChildFacts DEF Mine
<1>3. Active(x)
  BY Base DEF At, RunOK
<1> QED
  BY <1>2, <1>3, Base DEF Terminal, ChildOK, Past

LEMMA RunStep ==
  ASSUME Inv, Next, NEW y \in AllRuns
  PROVE  RunOK(y)'
<1>a. /\ gen \in [Requests -> Nat] /\ open \subseteq Requests
      /\ ctl \in [AllRuns -> Controllers] /\ ctl[y] \in Controllers
      /\ RunOK(y)
      /\ y[1] \in Requests /\ y[2] \in Nat \ {0} /\ y = <<y[1], y[2]>>
  BY Base, RunFacts
<1>u. ASSUME UNCHANGED <<gen, open>>, ctl'[y] = ctl[y]
      PROVE  RunOK(y)'
  BY <1>a, <1>u DEF RunOK, Active, Ask
<1>1. ASSUME NEW r \in Requests, Accept(r)
      PROVE  RunOK(y)'
  <2>1. r \notin open /\ gen' = [gen EXCEPT ![r] = @ + 1] /\ open' = open \cup {r} /\ gen[r] \in Nat
    BY <1>a, <1>1 DEF Accept
  <2>2. CASE y = <<r, gen[r] + 1>>
    <3>1. ctl'[y] = [ctl[y] EXCEPT !.pc = "start"]
      BY <1>a, <1>1, <2>2 DEF Accept
    <3>2. ctl'[y].pc = "start" /\ ctl'[y].took = ctl[y].took /\ ctl'[y].ref = ctl[y].ref
      BY <1>a, <3>1 DEF Controllers
    <3>3. Active(y)' /\ ~(y[2] > gen'[y[1]])
      BY <1>a, <2>1, <2>2 DEF Active
    <3> QED
      BY <1>a, <3>2, <3>3 DEF RunOK, Ask
  <2>3. CASE y # <<r, gen[r] + 1>>
    <3>1. ctl'[y] = ctl[y]
      BY <1>a, <1>1, <2>3 DEF Accept
    <3>2. y[2] > gen'[y[1]] => y[2] > gen[y[1]]
      BY <1>a, <2>1
    <3>3. Active(y) => Active(y)'
      BY <1>a, <2>1 DEF Active
    <3> QED
      BY <1>a, <3>1, <3>2, <3>3 DEF RunOK, Ask
  <2> QED
    BY <2>2, <2>3
<1>2. ASSUME NEW r \in Requests, Fail(r)
      PROVE  RunOK(y)'
  <2>1. gen' = gen /\ r \in open /\ open' = open \ {r}
        /\ ctl' = [ctl EXCEPT ![<<r, gen[r]>>] = IF @.pc = "combine" THEN @ ELSE Over]
    BY <1>2 DEF Fail, Closes
  <2>2. CASE y = <<r, gen[r]>>
    <3>1. Active(y)
      BY <1>a, <2>1, <2>2 DEF Active
    <3>2. CASE ctl[y].pc = "combine"
      <4>1. ctl'[y] = ctl[y]
        BY <1>a, <2>1, <2>2, <3>2
      <4> QED
        BY <1>a, <2>1, <3>2, <4>1 DEF RunOK, Ask
    <3>3. CASE ctl[y].pc # "combine"
      <4>1. ctl'[y] = Over
        BY <1>a, <2>1, <2>2, <3>3
      <4>2. Over.pc = "over" /\ Over.took = 0 /\ Over.ref = Unnamed
        BY DEF Over, Unborn
      <4>3. ~(y[2] > gen'[y[1]])
        BY <1>a, <2>1, <3>1 DEF Active
      <4> QED
        BY <4>1, <4>2, <4>3 DEF RunOK
    <3> QED
      BY <3>2, <3>3
  <2>3. CASE y # <<r, gen[r]>>
    <3>1. ctl'[y] = ctl[y] /\ (Active(y) => y[1] # r)
      BY <1>a, <2>1, <2>3 DEF Active
    <3> QED
      BY <1>a, <2>1, <3>1 DEF RunOK, Active, Ask
  <2> QED
    BY <2>2, <2>3
<1>3. ASSUME NEW x \in AllRuns, Commit(x)
      PROVE  RunOK(y)'
  <2>1. gen' = gen /\ open' = open \ {x[1]} /\ ctl' = [ctl EXCEPT ![x] = Over] /\ ctl[x].pc = "commit"
    BY <1>3 DEF Commit, Closes, At
  <2>2. Active(x)
    BY <2>1, Base DEF RunOK
  <2>3. CASE y = x
    <3>1. ctl'[y] = Over
      BY <1>a, <2>1, <2>3
    <3>2. Over.pc = "over" /\ Over.took = 0 /\ Over.ref = Unnamed
      BY DEF Over, Unborn
    <3>3. ~(y[2] > gen'[y[1]])
      BY <1>a, <2>1, <2>2, <2>3 DEF Active
    <3> QED
      BY <3>1, <3>2, <3>3 DEF RunOK
  <2>4. CASE y # x
    <3>1. ctl'[y] = ctl[y] /\ (Active(y) => y[1] # x[1])
      BY <1>a, <2>1, <2>2, <2>4, ActiveIsOne
    <3> QED
      BY <1>a, <2>1, <3>1 DEF RunOK, Active, Ask
  <2> QED
    BY <2>3, <2>4
\* A controller's own step.
<1>t. ASSUME NEW x \in AllRuns, UNCHANGED <<gen, open>>, NEW q, ctl' = [ctl EXCEPT ![x] = q],
             ctl[x].pc # "unborn", q.took \in {0, x[2]}, q.ref \in {Unnamed, Ask(x).code},
             q.pc = "combine" => q.ref = Ask(x).code,
             q.pc \in {"combine", "over"} \/ Active(x)
      PROVE  RunOK(y)'
  <2>1. CASE y # x
    BY <1>a, <1>t, <1>u, <2>1
  <2>2. CASE y = x
    <3>1. ctl'[y] = q
      BY <1>a, <1>t, <2>2
    <3>2. ~(y[2] > gen[y[1]])
      BY <1>a, <1>t, <2>2 DEF RunOK
    <3> QED
      BY <1>t, <2>2, <3>1, <3>2 DEF RunOK, Active, Ask
  <2> QED
    BY <2>1, <2>2
<1>x. ASSUME NEW x \in AllRuns
      PROVE  /\ ctl[x] \in Controllers
             /\ RunOK(x)
             /\ Ask(x).code \in Codes
             /\ \A c : ctl[x].pc = c /\ c \notin {"unborn", "combine", "over"} => Active(x)
  BY Base, RunFacts DEF RunOK
<1>4. ASSUME NEW x \in AllRuns, Begin(x)
      PROVE  RunOK(y)'
  <2> DEFINE q == [ctl[x] EXCEPT !.need = ~(Ask(x).cached /\ Hit(x)),
                                 !.pc = IF Mode(x) = "split" THEN "select" ELSE "submit",
                                 !.stage = IF Mode(x) = "direct" THEN "kernel" ELSE "compile"]
  <2>1. ctl' = [ctl EXCEPT ![x] = q] /\ UNCHANGED <<gen, open>> /\ ctl[x].pc = "start"
    BY <1>a, <1>4 DEF Begin, At, Parent
  <2>2. q.took = ctl[x].took /\ q.ref = ctl[x].ref /\ q.pc \in {"select", "submit"}
    BY <1>x DEF Controllers
  <2> HIDE DEF q
  <2> QED
    BY <1>t, <1>x, <2>1, <2>2 DEF RunOK
<1>5. ASSUME NEW x \in AllRuns, Select(x)
      PROVE  RunOK(y)'
  <2>1. ctl[x].pc = "select" /\ UNCHANGED <<gen, open>>
    BY <1>5 DEF Select, At, Parent
  <2>2. CASE Goes(x, "commit")
    <3>1. PICK q : q = [ctl[x] EXCEPT !.pc = "commit"]
      OBVIOUS
    <3>2. ctl' = [ctl EXCEPT ![x] = q]
      BY <2>2, <3>1 DEF Goes
    <3>3. q.pc = "commit" /\ q.took = ctl[x].took /\ q.ref = ctl[x].ref
      BY <1>x, <3>1 DEF Controllers
    <3> QED
      BY <1>t, <1>x, <2>1, <3>2, <3>3 DEF RunOK
  <2>3. ASSUME NEW h, Asks(x, "compile", h)
        PROVE  RunOK(y)'
    <3>1. PICK q : q = [ctl[x] EXCEPT !.pc = "submit", !.stage = "compile", !.target = h]
      OBVIOUS
    <3>2. ctl' = [ctl EXCEPT ![x] = q]
      BY <1>a, <2>3, <3>1 DEF Asks
    <3>3. q.pc = "submit" /\ q.took = ctl[x].took /\ q.ref = ctl[x].ref
      BY <1>x, <3>1 DEF Controllers
    <3> QED
      BY <1>t, <1>x, <2>1, <3>2, <3>3 DEF RunOK
  <2> QED
    BY <1>5, <2>2, <2>3 DEF Select
<1>6. ASSUME NEW x \in AllRuns, Submit(x)
      PROVE  RunOK(y)'
  <2>1. ctl[x].pc = "submit" /\ UNCHANGED <<gen, open>> /\ Goes(x, "wait")
    BY <1>6 DEF Submit, At, Parent
  <2>2. PICK q : q = [ctl[x] EXCEPT !.pc = "wait"]
    OBVIOUS
  <2>3. ctl' = [ctl EXCEPT ![x] = q]
    BY <2>1, <2>2 DEF Goes
  <2>4. q.pc = "wait" /\ q.took = ctl[x].took /\ q.ref = ctl[x].ref
    BY <1>x, <2>2 DEF Controllers
  <2> QED
    BY <1>t, <1>x, <2>1, <2>3, <2>4 DEF RunOK
<1>7. ASSUME NEW x \in AllRuns, Compiled(x)
      PROVE  RunOK(y)'
  <2> DEFINE c  == child[Mine(x)]
             on == Mode(x) = "split" /\ c.out = "good"
             q  == [ctl[x] EXCEPT !.took = c.by,
                                  !.pc = IF on THEN "submit" ELSE "commit",
                                  !.stage = IF on THEN "kernel" ELSE "compile",
                                  !.target = IF on THEN c.host ELSE ctl[x].target]
  <2>1. ctl' = [ctl EXCEPT ![x] = q] /\ UNCHANGED <<gen, open>> /\ ctl[x].pc = "wait"
    BY <1>a, <1>x, <1>7 DEF Compiled, At, Parent, Controllers
  <2>2. q.took = x[2] /\ q.ref = ctl[x].ref /\ q.pc \in {"submit", "commit"}
    BY <1>x, <1>7, OwnAnswer DEF Compiled, Controllers
  <2> HIDE DEF q
  <2> QED
    BY <1>t, <1>x, <2>1, <2>2 DEF RunOK
<1>8. ASSUME NEW x \in AllRuns, Judged(x)
      PROVE  RunOK(y)'
  <2> DEFINE c == child[Mine(x)]
             q == [ctl[x] EXCEPT !.pc = IF c.out = "good" /\ Allowed(x) THEN "refer" ELSE "commit", !.took = c.by]
  <2>1. ctl' = [ctl EXCEPT ![x] = q] /\ UNCHANGED <<gen, open>> /\ ctl[x].pc = "wait"
    BY <1>a, <1>x, <1>8 DEF Judged, At, Parent
  <2>2. q.took = x[2] /\ q.ref = ctl[x].ref /\ q.pc \in {"refer", "commit"}
    BY <1>x, <1>8, OwnAnswer DEF Judged, Controllers
  <2> HIDE DEF q
  <2> QED
    BY <1>t, <1>x, <2>1, <2>2 DEF RunOK
<1>9. ASSUME NEW x \in AllRuns, Refer(x)
      PROVE  RunOK(y)'
  <2>1. ctl[x].pc = "refer" /\ UNCHANGED <<gen, open>>
    BY <1>9 DEF Refer, At, Parent
  <2>2. CASE Asks(x, "ref", Nowhere)
    <3>1. PICK q : q = [ctl[x] EXCEPT !.pc = "submit", !.stage = "ref", !.target = Nowhere]
      OBVIOUS
    <3>2. ctl' = [ctl EXCEPT ![x] = q]
      BY <1>a, <2>2, <3>1 DEF Asks
    <3>3. q.pc = "submit" /\ q.took = ctl[x].took /\ q.ref = ctl[x].ref
      BY <1>x, <3>1 DEF Controllers
    <3> QED
      BY <1>t, <1>x, <2>1, <3>2, <3>3 DEF RunOK
  <2>3. CASE Hit(x) /\ ctl' = [ctl EXCEPT ![x].pc = "combine", ![x].ref = Entry(ServerOf[x[1]]).of]
    <3>1. EntryOK(Entry(ServerOf[x[1]]))
      BY RunFacts DEF Inv, Entry
    <3>2. Entry(ServerOf[x[1]]).of = Ask(x).code
      BY <2>3, <3>1 DEF Hit, Compatible, EntryOK
    <3>3. PICK q : q = [ctl[x] EXCEPT !.pc = "combine", !.ref = Ask(x).code]
      OBVIOUS
    <3>4. ctl' = [ctl EXCEPT ![x] = q]
      BY <1>a, <2>3, <3>2, <3>3
    <3>5. q.pc = "combine" /\ q.took = ctl[x].took /\ q.ref = Ask(x).code
      BY <1>x, <3>3 DEF Controllers
    <3> QED
      BY <1>t, <1>x, <2>1, <3>4, <3>5 DEF RunOK
  <2> QED
    BY <1>9, <2>2, <2>3 DEF Refer
<1>10. ASSUME NEW x \in AllRuns, Timed(x)
       PROVE  RunOK(y)'
  <2> DEFINE c == child[Mine(x)]
             good == c.out = "good" /\ Allowed(x)
             q == [ctl[x] EXCEPT !.took = c.by,
                                 !.pc = IF good THEN "combine" ELSE "commit",
                                 !.ref = IF good THEN Plan[x[1]][c.by].code ELSE ctl[x].ref]
  <2>1. ctl' = [ctl EXCEPT ![x] = q] /\ UNCHANGED <<gen, open>> /\ ctl[x].pc = "wait"
    BY <1>a, <1>x, <1>10 DEF Timed, At, Parent, Controllers
  <2>2. c.by = x[2]
    BY <1>10, OwnAnswer DEF Timed
  <2>3. q.took = x[2] /\ q.ref = (IF good THEN Ask(x).code ELSE ctl[x].ref)
        /\ q.pc = (IF good THEN "combine" ELSE "commit")
    BY <1>x, <2>2 DEF Ask, Controllers
  <2> HIDE DEF q
  <2> QED
    BY <1>t, <1>x, <2>1, <2>3 DEF RunOK
<1>11. ASSUME NEW x \in AllRuns, Combine(x)
       PROVE  RunOK(y)'
  <2>1. ctl[x].pc = "combine" /\ UNCHANGED <<gen, open>>
    BY <1>11 DEF Combine, At, Parent
  <2>2. CASE Active(x) /\ Goes(x, "commit")
    <3>1. PICK q : q = [ctl[x] EXCEPT !.pc = "commit"]
      OBVIOUS
    <3>2. ctl' = [ctl EXCEPT ![x] = q]
      BY <2>2, <3>1 DEF Goes
    <3>3. q.pc = "commit" /\ q.took = ctl[x].took /\ q.ref = ctl[x].ref
      BY <1>x, <3>1 DEF Controllers
    <3> QED
      BY <1>t, <1>x, <2>1, <2>2, <3>2, <3>3 DEF RunOK
  <2>3. CASE ctl' = [ctl EXCEPT ![x] = Over]
    <3>1. Over.pc = "over" /\ Over.took = 0 /\ Over.ref = Unnamed
      BY DEF Over, Unborn
    <3> QED
      BY <1>t, <2>1, <2>3, <3>1
  <2> QED
    BY <1>11, <2>2, <2>3 DEF Combine
<1>12. ASSUME NEW s \in Servers, ServerEnds(s)
       PROVE  RunOK(y)'
  <2>1. UNCHANGED <<gen, open>> /\ (ctl'[y] = ctl[y] \/ (ctl'[y] = Over /\ ctl[y].pc # "unborn"))
    BY <1>12 DEF ServerEnds, Parent
  <2>2. CASE ctl'[y] = Over /\ ctl[y].pc # "unborn"
    <3>1. Over.pc = "over" /\ Over.took = 0 /\ Over.ref = Unnamed
      BY DEF Over, Unborn
    <3> QED
      BY <1>a, <2>1, <2>2, <3>1 DEF RunOK
  <2> QED
    BY <1>u, <2>1, <2>2
<1>w. ASSUME NEW x \in AllRuns, Withdraw(x)
      PROVE  RunOK(y)'
  <2>1. ctl[x].pc = "wait" /\ UNCHANGED <<gen, open>> /\ Goes(x, "commit")
    BY <1>w DEF Withdraw, At, Parent
  <2>2. PICK q : q = [ctl[x] EXCEPT !.pc = "commit"]
    OBVIOUS
  <2>3. ctl' = [ctl EXCEPT ![x] = q]
    BY <2>1, <2>2 DEF Goes
  <2>4. q.pc = "commit" /\ q.took = ctl[x].took /\ q.ref = ctl[x].ref
    BY <1>x, <2>2 DEF Controllers
  <2> QED
    BY <1>t, <1>x, <2>1, <2>3, <2>4 DEF RunOK
<1>13. CASE UNCHANGED <<gen, open, ctl>>
  BY <1>u, <1>13
<1> QED
  BY <1>1, <1>2, <1>3, <1>4, <1>5, <1>6, <1>7, <1>8, <1>9, <1>10, <1>11, <1>12, <1>13, <1>w
     DEF Next, Controls, Compiles, Lapse, Cancel, Scan, Mark, ScanEnds, PushBack, Compile, Recompile, CpuEnds, Skip, End,
         DiscardRead, Discard, Start, Parent

-----------------------------------------------------------------------------
(* What a step makes of a child record.                                    *)

Born(c)     == \E x \in AllRuns :
                 /\ Submit(x) /\ c = Mine(x) /\ child[c].st = "none" /\ ctl[x].target \in Sites
                 /\ child'[c] = [st |-> "pending", target |-> ctl[x].target, host |-> Nowhere, out |-> "none",
                                 by |-> x[2], data |-> TRUE]
Dropped(c)  == /\ \/ Fail(c[1]) /\ c[3] = gen[c[1]]
                  \/ Commit(RunOf(c))
                  \/ \E x \in AllRuns : Withdraw(x) /\ c = Mine(x)
               /\ child[c].st = "pending" /\ child'[c] = [child[c] EXCEPT !.st = "dropped"]
Marked(c)   == \E v \in Compilers :
                 /\ Mark(v) /\ c = Task(v) /\ c[2] = "compile" /\ child[c].st = "pending"
                 /\ child'[c] = [child[c] EXCEPT !.st = "processing", !.host = HostOf[v]]
Written(c)  == \E v \in Compilers, o \in {"good", "bad"} :
                 /\ Compile(v) /\ c = Task(v) /\ c[2] = "compile" /\ child[c].st = "processing"
                 /\ child'[c] = [child[c] EXCEPT !.st = "done", !.out = o, !.host = HostOf[v]]
                 /\ artifact' = [artifact EXCEPT ![RunOf(c)] = IF o = "bad" THEN @ ELSE HostOf[v]]
Again(c)    == \E v \in Compilers :
                 /\ Recompile(v) /\ c = Task(v) /\ c[2] = "compile" /\ c \in unsure
                 /\ child'[c] = [child[c] EXCEPT !.st = "done", !.out = "bad", !.host = HostOf[v]]
Started(c)  == \E h \in Hosts :
                 /\ Start(c, h) /\ c[2] # "compile" /\ child[c].st = "pending"
                 /\ child'[c] = [child[c] EXCEPT !.st = "processing", !.host = h]
Finished(c) == /\ End(c) /\ c[2] # "compile" /\ child[c].st = "processing"
               /\ \E o \in {"good", "bad"} : child'[c] = [child[c] EXCEPT !.st = "done", !.out = o]
Gone(c)     == Discard(c) /\ c \in doomed /\ child[c].st \in {"done", "dropped"} /\ child'[c] = Absent

\* A compile worker writes the record of its own task, which it has marked.
LEMMA CompileWrites ==
  ASSUME Inv, NEW v \in Compilers, Compile(v)
  PROVE  /\ Task(v) \in Children /\ Task(v)[2] = "compile" /\ Written(Task(v))
         /\ \A c \in Children : c # Task(v) => child'[c] = child[c]
         /\ \A x \in AllRuns : x # RunOf(Task(v)) => artifact'[x] = artifact[x]
<1>a. child \in [Children -> Records] /\ artifact \in [AllRuns -> Sites]
  BY Base
<1>1. Task(v) # NoTask /\ child[Task(v)].st = "processing"
  BY Base DEF Compile, WorkerOK, Works
<1>2. Task(v) \in Children /\ Task(v)[2] = "compile"
  BY <1>1, Base DEF Hands, WorkerOK, Task
<1>3. PICK o \in {"good", "bad"} :
        /\ child' = [child EXCEPT ![Task(v)].st = "done", ![Task(v)].out = o, ![Task(v)].host = HostOf[v]]
        /\ artifact' = [artifact EXCEPT ![RunOf(Task(v))] = IF o = "bad" THEN @ ELSE HostOf[v]]
  BY DEF Compile, Writes
<1>4. child' = [child EXCEPT ![Task(v)] = [child[Task(v)] EXCEPT !.st = "done", !.out = o, !.host = HostOf[v]]]
  BY <1>a, <1>2, <1>3
<1>5. child'[Task(v)] = [child[Task(v)] EXCEPT !.st = "done", !.out = o, !.host = HostOf[v]]
  BY <1>a, <1>2, <1>4
<1>6. Written(Task(v))
  BY <1>1, <1>2, <1>3, <1>5 DEF Written
<1> QED
  BY <1>a, <1>2, <1>3, <1>4, <1>6

LEMMA ChildMoves ==
  ASSUME Inv, Next, NEW c \in Children
  PROVE  \/ child'[c] = child[c]
         \/ Born(c) \/ Dropped(c) \/ Marked(c) \/ Written(c) \/ Again(c) \/ Started(c) \/ Finished(c) \/ Gone(c)
<1>a. /\ child \in [Children -> Records] /\ ctl \in [AllRuns -> Controllers] /\ worker \in [Compilers -> Hands]
      /\ gen \in [Requests -> Nat] /\ artifact \in [AllRuns -> Sites]
      /\ child[c] \in Records
      /\ RunOf(c) \in AllRuns /\ RunOf(c) = <<c[1], c[3]>>
  BY Base, NameFacts DEF RunOf
<1>1. ASSUME NEW r \in Requests, Fail(r)
      PROVE  child'[c] = child[c] \/ Dropped(c)
  <2>1. child' = [d \in Children |-> IF d \in Ended(<<r, gen[r]>>) THEN [child[d] EXCEPT !.st = "dropped"] ELSE child[d]]
    BY <1>1 DEF Fail, EndsChildren
  <2>2. c \in Ended(<<r, gen[r]>>) => c[1] = r /\ c[3] = gen[r] /\ child[c].st = "pending"
    BY DEF Ended, RunOf
  <2> QED
    BY <1>1, <2>1, <2>2 DEF Dropped
<1>2. ASSUME NEW x \in AllRuns, Commit(x)
      PROVE  child'[c] = child[c] \/ Dropped(c)
  <2>1. child' = [d \in Children |-> IF d \in Ended(x) THEN [child[d] EXCEPT !.st = "dropped"] ELSE child[d]]
    BY <1>2 DEF Commit, EndsChildren
  <2>2. c \in Ended(x) => RunOf(c) = x /\ child[c].st = "pending"
    BY DEF Ended
  <2> QED
    BY <1>2, <2>1, <2>2 DEF Dropped
<1>3. ASSUME NEW x \in AllRuns, Submit(x)
      PROVE  child'[c] = child[c] \/ Born(c)
  <2>1. ctl[x].target \in Sites
    BY <1>a DEF Controllers
  <2>2. CASE c = Mine(x) /\ child[c].st = "none"
    <3>1. child'[c] = [Absent EXCEPT !.st = "pending", !.target = ctl[x].target, !.by = x[2], !.data = TRUE]
      BY <1>a, <1>3, <2>2 DEF Submit
    <3> QED
      BY <1>3, <2>1, <2>2, <3>1 DEF Born, Absent
  <2>3. CASE ~(c = Mine(x) /\ child[c].st = "none")
    BY <1>a, <1>3, <2>3 DEF Submit
  <2> QED
    BY <2>2, <2>3
<1>w. ASSUME NEW v \in Compilers, Task(v) # NoTask
      PROVE  Task(v) \in Children /\ Task(v)[2] = "compile" /\ worker[v] \in Hands
  BY <1>w, Base DEF Hands, WorkerOK, Task
<1>4. ASSUME NEW v \in Compilers, Mark(v)
      PROVE  child'[c] = child[c] \/ Marked(c)
  <2>1. Task(v) # NoTask
    BY <1>4, Base DEF Mark, WorkerOK
  <2>2. CASE child[Task(v)].st = "pending" /\ Allowed(RunOf(Task(v)))
    <3>1. child' = [child EXCEPT ![Task(v)].st = "processing", ![Task(v)].host = HostOf[v]]
      BY <1>4, <2>2 DEF Mark
    <3>2. child' = [child EXCEPT ![Task(v)] = [child[Task(v)] EXCEPT !.st = "processing", !.host = HostOf[v]]]
      BY <1>a, <1>w, <2>1, <3>1
    <3>3. CASE c = Task(v)
      <4>1. child'[c] = [child[c] EXCEPT !.st = "processing", !.host = HostOf[v]]
        BY <1>a, <3>2, <3>3
      <4> QED
        BY <1>4, <1>w, <2>1, <2>2, <3>3, <4>1 DEF Marked
    <3>4. CASE c # Task(v)
      BY <1>a, <3>2, <3>4
    <3> QED
      BY <3>3, <3>4
  <2>3. CASE ~(child[Task(v)].st = "pending" /\ Allowed(RunOf(Task(v))))
    BY <1>4, <2>3 DEF Mark
  <2> QED
    BY <2>2, <2>3
<1>5. ASSUME NEW v \in Compilers, Compile(v)
      PROVE  child'[c] = child[c] \/ Written(c)
  BY <1>5, CompileWrites
<1>6. ASSUME NEW d \in Children, NEW h \in Hosts, Start(d, h)
      PROVE  child'[c] = child[c] \/ Started(c)
  <2>1. child' = [child EXCEPT ![d] = [child[d] EXCEPT !.st = "processing", !.host = h]] /\ d \in gpu
    BY <1>a, <1>6 DEF Start, MayRun
  <2>2. d[2] # "compile" /\ child[d].st = "pending"
    BY <2>1, Base DEF ChildOK
  <2>3. CASE c = d
    <3>1. child'[c] = [child[c] EXCEPT !.st = "processing", !.host = h]
      BY <1>a, <2>1, <2>3
    <3> QED
      BY <1>6, <2>2, <2>3, <3>1 DEF Started
  <2>4. CASE c # d
    BY <1>a, <2>1, <2>4
  <2> QED
    BY <2>3, <2>4
<1>7. ASSUME NEW d \in Children, End(d)
      PROVE  child'[c] = child[c] \/ Finished(c)
  <2>1. PICK o \in {"good", "bad"} : child' = [child EXCEPT ![d].st = "done", ![d].out = o]
    BY <1>7 DEF End
  <2>2. child' = [child EXCEPT ![d] = [child[d] EXCEPT !.st = "done", !.out = o]]
    BY <1>a, <2>1
  <2>3. d[2] # "compile" /\ child[d].st = "processing"
    BY <1>7 DEF End
  <2>4. CASE c = d
    <3>1. child'[c] = [child[c] EXCEPT !.st = "done", !.out = o]
      BY <1>a, <2>2, <2>4
    <3> QED
      BY <1>7, <2>3, <2>4, <3>1 DEF Finished
  <2>5. CASE c # d
    BY <1>a, <2>2, <2>5
  <2> QED
    BY <2>4, <2>5
<1>8. ASSUME NEW d \in Children, Discard(d)
      PROVE  child'[c] = child[c] \/ Gone(c)
  BY <1>a, <1>8 DEF Discard, Discardable, Terminal, Gone
<1>r. ASSUME NEW v \in Compilers, Recompile(v)
      PROVE  child'[c] = child[c] \/ Again(c)
  <2>1. Task(v) # NoTask /\ Task(v) \in unsure
    BY <1>r, Base DEF Recompile, WorkerOK
  <2>2. child' = [child EXCEPT ![Task(v)] = [child[Task(v)] EXCEPT !.st = "done", !.out = "bad", !.host = HostOf[v]]]
    BY <1>a, <1>r, <1>w, <2>1 DEF Recompile, Writes
  <2>3. CASE c = Task(v)
    <3>1. child'[c] = [child[c] EXCEPT !.st = "done", !.out = "bad", !.host = HostOf[v]]
      BY <1>a, <2>2, <2>3
    <3> QED
      BY <1>r, <1>w, <2>1, <2>3, <3>1 DEF Again
  <2>4. CASE c # Task(v)
    BY <1>a, <2>2, <2>4
  <2> QED
    BY <2>3, <2>4
<1>d. ASSUME NEW x \in AllRuns, Withdraw(x)
      PROVE  child'[c] = child[c] \/ Dropped(c)
  <2>1. CASE c = Mine(x) /\ child[c].st = "pending"
    <3>1. child'[c] = [child[c] EXCEPT !.st = "dropped"]
      BY <1>a, <1>d, <2>1 DEF Withdraw
    <3> QED
      BY <1>d, <2>1, <3>1 DEF Dropped
  <2>2. CASE ~(c = Mine(x) /\ child[c].st = "pending")
    BY <1>a, <1>d, <2>2 DEF Withdraw
  <2> QED
    BY <2>1, <2>2
<1>9. CASE UNCHANGED child
  BY <1>9
<1> QED
  BY <1>1, <1>2, <1>3, <1>4, <1>5, <1>6, <1>7, <1>8, <1>9, <1>r, <1>d
     DEF Next, Controls, Compiles, Accept, Lapse, Cancel, Begin, Select, Compiled, Judged, Refer, Timed, Combine, Scan,
         ScanEnds, PushBack, CpuEnds, Skip, DiscardRead, ServerEnds, Store

-----------------------------------------------------------------------------
(* Children.                                                               *)

\* A generation that is over stays over.
LEMMA PastStays ==
  ASSUME Inv, Next, NEW c \in Children
  PROVE  /\ Past(c) => Past(c)'
         /\ c[3] <= gen[c[1]] => c[3] <= gen'[c[1]]
<1>a. /\ gen \in [Requests -> Nat] /\ c[1] \in Requests /\ c[3] \in Nat /\ gen[c[1]] \in Nat
      /\ RunOf(c)[1] = c[1] /\ RunOf(c)[2] = c[3]
  BY Base, NameFacts, RunFacts
<1>1. ASSUME NEW r \in Requests, Accept(r)
      PROVE  (Past(c) => Past(c)') /\ (c[3] <= gen[c[1]] => c[3] <= gen'[c[1]])
  <2>1. gen' = [gen EXCEPT ![r] = gen[r] + 1] /\ open' = open \cup {r}
    BY <1>a, <1>1 DEF Accept
  <2>2. CASE r = c[1]
    <3>1. gen'[c[1]] = gen[c[1]] + 1
      BY <1>a, <2>1, <2>2
    <3> QED
      BY <1>a, <3>1 DEF Past, Active
  <2>3. CASE r # c[1]
    <3>1. gen'[c[1]] = gen[c[1]] /\ (c[1] \in open' => c[1] \in open)
      BY <1>a, <2>1, <2>3
    <3> QED
      BY <1>a, <3>1 DEF Past, Active
  <2> QED
    BY <2>2, <2>3
<1>2. CASE gen' = gen /\ open' \subseteq open
  BY <1>a, <1>2 DEF Past, Active
<1> QED
  BY <1>1, <1>2
     DEF Next, Controls, Compiles, Lapse, Cancel, Fail, Closes, Begin, Select, Submit, Withdraw, Compiled, Judged, Refer,
         Timed, Combine, Commit, Scan, Mark, ScanEnds, PushBack, Compile, Recompile, CpuEnds, Start, Skip, End, DiscardRead,
         Discard, ServerEnds, Parent

\* The history of a task whose completion's reply was lost grows only.
LEMMA UnsureMoves ==
  ASSUME Inv, Next
  PROVE  /\ unsure \subseteq unsure'
         /\ \A c \in unsure' : c \in unsure \/ (\E v \in Compilers : Compile(v) /\ c = Task(v))
<1>1. ASSUME NEW v \in Compilers, Compile(v)
      PROVE  /\ unsure \subseteq unsure'
             /\ \A c \in unsure' : c \in unsure \/ (\E u \in Compilers : Compile(u) /\ c = Task(u))
  BY <1>1 DEF Compile
<1>2. CASE UNCHANGED unsure
  BY <1>2
<1> QED
  BY <1>1, <1>2
     DEF Next, Controls, Compiles, Accept, Lapse, Cancel, Fail, Begin, Select, Submit, Withdraw, Compiled, Judged, Refer,
         Timed, Combine, Commit, Scan, Mark, ScanEnds, PushBack, Recompile, CpuEnds, Start, Skip, End, DiscardRead,
         Discard, ServerEnds, Fleet

\* A child is born under the generation in force.
LEMMA BornNow ==
  ASSUME Inv, NEW c \in Children, Born(c)
  PROVE  /\ Active(RunOf(c)) /\ UNCHANGED <<gen, open>>
         /\ child'[c].st = "pending" /\ child'[c].out = "none" /\ child'[c].data /\ child'[c].by = c[3]
<1>1. PICK x \in AllRuns :
        /\ Submit(x) /\ c = Mine(x)
        /\ child'[c] = [st |-> "pending", target |-> ctl[x].target, host |-> Nowhere, out |-> "none", by |-> x[2],
                        data |-> TRUE]
  BY DEF Born
<1>2. ctl[x].stage \in Stages
  BY Base DEF Controllers
<1>3. RunOf(c) = x /\ c[3] = x[2]
  BY <1>1, <1>2, ChildFacts DEF Mine
<1> QED
  BY <1>1, <1>3 DEF Submit, Allowed, Parent

\* The parts of ChildOK that are about the record alone.
LEMMA RecordStep ==
  ASSUME Inv, Next, NEW c \in Children
  PROVE  /\ child'[c].st = "none" => child'[c] = Absent
         /\ child'[c].st # "none" =>
              /\ c[3] <= gen'[c[1]]
              /\ \/ child'[c].data /\ child'[c].by = c[3]
                 \/ c \in unsure' /\ child'[c].st = "done" /\ Past(c)'
         /\ child'[c].st \in {"pending", "processing", "dropped"} => child'[c].out = "none"
<1>a. /\ child[c] \in Records /\ ChildOK(c) /\ EndOK(c)
      /\ c[3] <= gen[c[1]] => c[3] <= gen'[c[1]]
      /\ Past(c) => Past(c)'
      /\ c \in unsure => c \in unsure'
      /\ RunOf(c)[1] = c[1] /\ RunOf(c)[2] = c[3] /\ c[3] \in Nat
  BY Base, PastStays, UnsureMoves, NameFacts, RunFacts
<1>1. CASE Born(c)
  <2>1. gen'[c[1]] = c[3]
    BY <1>a, <1>1, BornNow DEF Active
  <2> QED
    BY <1>a, <1>1, <2>1, BornNow
<1>2. CASE Dropped(c)
  BY <1>a, <1>2 DEF Dropped, ChildOK, Records
<1>3. CASE Marked(c)
  BY <1>a, <1>3 DEF Marked, ChildOK, Records
<1>4. CASE Written(c)
  BY <1>a, <1>4 DEF Written, ChildOK, Records
<1>r. CASE Again(c)
  <2>1. /\ c \in unsure /\ child'[c].st = "done" /\ child'[c].data = child[c].data /\ child'[c].by = child[c].by
    BY <1>a, <1>r DEF Again, Records
  <2>2. Past(c) => c[3] <= gen[c[1]]
    BY DEF Past
  <2> QED
    BY <1>a, <2>1, <2>2 DEF ChildOK, EndOK
<1>5. CASE Started(c)
  BY <1>a, <1>5 DEF Started, ChildOK, Records
<1>6. CASE Finished(c)
  BY <1>a, <1>6 DEF Finished, ChildOK, Records
<1>7. CASE Gone(c)
  BY <1>7 DEF Gone, Absent
<1>8. CASE child'[c] = child[c]
  BY <1>a, <1>8 DEF ChildOK
<1> QED
  BY <1>1, <1>2, <1>3, <1>4, <1>r, <1>5, <1>6, <1>7, <1>8, ChildMoves

\* What ends a parent ends its children that wait.
LEMMA WaitsUnderOpen ==
  ASSUME Inv, Next, NEW c \in Children, child'[c].st = "pending"
  PROVE  Active(RunOf(c))'
<1>a. /\ child[c] \in Records /\ ChildOK(c) /\ child \in [Children -> Records]
      /\ gen \in [Requests -> Nat] /\ open \subseteq Requests
      /\ RunOf(c) \in AllRuns /\ RunOf(c) = <<c[1], c[3]>> /\ c[1] \in Requests /\ c[1] = RunOf(c)[1] /\ c[3] = RunOf(c)[2]
  BY Base, NameFacts, RunFacts DEF RunOf
<1>1. CASE Born(c)
  BY <1>1, BornNow DEF Active
<1>2. child'[c] = child[c] \/ Born(c)
  <2>1. CASE Dropped(c)
    BY <1>a, <2>1 DEF Dropped, Records
  <2>2. CASE Marked(c)
    BY <1>a, <2>2 DEF Marked, Records
  <2>3. CASE Written(c)
    BY <1>a, <2>3 DEF Written, Records
  <2>a. CASE Again(c)
    BY <1>a, <2>a DEF Again, Records
  <2>4. CASE Started(c)
    BY <1>a, <2>4 DEF Started, Records
  <2>5. CASE Finished(c)
    BY <1>a, <2>5 DEF Finished, Records
  <2>6. CASE Gone(c)
    BY <2>6 DEF Gone, Absent
  <2> QED
    BY <2>1, <2>2, <2>3, <2>4, <2>5, <2>6, <2>a, ChildMoves
<1>3. CASE child'[c] = child[c]
  <2>1. child[c].st = "pending" /\ Active(RunOf(c))
    BY <1>a, <1>3 DEF ChildOK
  <2>2. ASSUME NEW r \in Requests, Accept(r)
        PROVE  Active(RunOf(c))'
    BY <1>a, <2>1, <2>2 DEF Accept, Active
  <2>3. ASSUME NEW r \in Requests, Fail(r)
        PROVE  Active(RunOf(c))'
    <3>1. child'[c] = IF c \in Ended(<<r, gen[r]>>) THEN [child[c] EXCEPT !.st = "dropped"] ELSE child[c]
      BY <2>3 DEF Fail, EndsChildren
    <3>2. RunOf(c) # <<r, gen[r]>>
      BY <1>a, <1>3, <2>1, <3>1 DEF Ended, Records
    <3>3. c[1] # r
      BY <1>a, <2>1, <3>2 DEF Active
    <3> QED
      BY <1>a, <2>1, <2>3, <3>3 DEF Fail, Closes, Active
  <2>4. ASSUME NEW x \in AllRuns, Commit(x)
        PROVE  Active(RunOf(c))'
    <3>1. child'[c] = IF c \in Ended(x) THEN [child[c] EXCEPT !.st = "dropped"] ELSE child[c]
      BY <2>4 DEF Commit, EndsChildren
    <3>2. RunOf(c) # x
      BY <1>a, <1>3, <2>1, <3>1 DEF Ended, Records
    <3>3. Active(x)
      BY <2>4, Base DEF Commit, At, RunOK
    <3>4. c[1] # x[1]
      BY <1>a, <2>1, <3>2, <3>3, ActiveIsOne
    <3> QED
      BY <1>a, <2>1, <2>4, <3>4 DEF Commit, Closes, Active
  <2>5. CASE UNCHANGED <<gen, open>>
    BY <2>1, <2>5 DEF Active
  <2> QED
    BY <2>2, <2>3, <2>4, <2>5
       DEF Next, Controls, Compiles, Lapse, Cancel, Begin, Select, Submit, Withdraw, Compiled, Judged, Refer, Timed,
           Combine, Scan, Mark, ScanEnds, PushBack, Compile, Recompile, CpuEnds, Start, Skip, End, DiscardRead, Discard,
           ServerEnds, Parent
<1> QED
  BY <1>1, <1>2, <1>3

LEMMA CpuQueueStep ==
  ASSUME Inv, Next, NEW c \in Children, c \in cpu'
  PROVE  c[2] = "compile"
<1>1. c \in cpu => c[2] = "compile"
  BY Base DEF ChildOK
<1>2. ASSUME NEW v \in Compilers, PushBack(v)
      PROVE  c[2] = "compile"
  BY <1>1, <1>2, Base DEF PushBack, WorkerOK
<1>3. ASSUME NEW x \in AllRuns, Submit(x)
      PROVE  c[2] = "compile"
  BY <1>1, <1>3 DEF Submit
<1>4. CASE cpu' \subseteq cpu
  BY <1>1, <1>4
<1> QED
  BY <1>2, <1>3, <1>4
     DEF Next, Controls, Compiles, Accept, Lapse, Cancel, Fail, Commit, EndsChildren, Begin, Select, Withdraw, Compiled,
         Judged, Refer, Timed, Combine, Scan, Mark, ScanEnds, Compile, Recompile, CpuEnds, Start, Skip, End, DiscardRead,
         Discard, ServerEnds, Store

LEMMA GpuQueueStep ==
  ASSUME Inv, Next, NEW c \in Children, c \in gpu'
  PROVE  c[2] # "compile" /\ child'[c].st = "pending"
<1>a. child[c] \in Records /\ child \in [Children -> Records] /\ (c \in gpu => c[2] # "compile" /\ child[c].st = "pending")
  BY Base DEF ChildOK
<1>1. CASE c \notin gpu
  <2>1. PICK x \in AllRuns : Submit(x)
    BY <1>1 DEF Next, Controls, Compiles, Accept, Lapse, Cancel, Fail, Commit, EndsChildren, Begin, Select, Withdraw,
                Compiled, Judged, Refer, Timed, Combine, Scan, Mark, ScanEnds, PushBack, Compile, Recompile, CpuEnds,
                Start, Skip, End, DiscardRead, Discard, ServerEnds, Store
  <2>2. c = Mine(x) /\ c[2] # "compile"
        /\ child' = [child EXCEPT ![c] = [Absent EXCEPT !.st = "pending", !.target = ctl[x].target,
                                                        !.by = x[2], !.data = TRUE]]
    BY <1>1, <2>1 DEF Submit
  <2> QED
    BY <1>a, <2>2 DEF Absent
<1>2. CASE c \in gpu
  <2>1. CASE Born(c)
    BY <1>a, <1>2, <2>1 DEF Born
  <2>2. CASE Dropped(c)
    <3>1. RunOf(c) = <<c[1], c[3]>>
      BY DEF RunOf
    <3>2. c \notin gpu'
      BY <2>2, <3>1 DEF Dropped, Fail, Commit, EndsChildren, Withdraw
    <3> QED
      BY <3>2
  <2>3. CASE Marked(c) \/ Written(c) \/ Again(c) \/ Finished(c)
    BY <1>a, <1>2, <2>3 DEF Marked, Written, Again, Finished
  <2>4. CASE Started(c)
    BY <2>4 DEF Started, Start
  <2>5. CASE Gone(c)
    BY <1>a, <1>2, <2>5 DEF Gone
  <2>6. CASE child'[c] = child[c]
    BY <1>a, <1>2, <2>6
  <2> QED
    BY <2>1, <2>2, <2>3, <2>4, <2>5, <2>6, ChildMoves
<1> QED
  BY <1>1, <1>2

LEMMA ChildStep ==
  ASSUME Inv, Next, NEW c \in Children
  PROVE  ChildOK(c)'
BY RecordStep, WaitsUnderOpen, CpuQueueStep, GpuQueueStep DEF ChildOK

-----------------------------------------------------------------------------
(* Compile workers.                                                        *)

\* The hands after a scan, a mark and a return to the queue.
LEMMA HandMoves ==
  ASSUME Inv, Next, NEW v \in Compilers
  PROVE  \/ worker'[v] = worker[v]
         \/ worker'[v] = Resting
         \/ Compile(v) /\ worker'[v] = [worker[v] EXCEPT !.pc = "again"] /\ Task(v) \in unsure'
         \/ /\ Scan(v)
            /\ \E c \in cpu : \/ worker'[v] = [worker[v] EXCEPT !.pc = "mark", !.task = c]
                              \/ worker'[v] = [worker[v] EXCEPT !.deferred = worker[v].deferred \cup {c}]
         \/ /\ Mark(v) /\ child[Task(v)].st = "pending" /\ child'[Task(v)].st = "processing"
            /\ worker'[v] = [worker[v] EXCEPT !.pc = IF worker[v].deferred = {} THEN "run" ELSE "push"]
         \/ Mark(v) /\ worker'[v] = [worker[v] EXCEPT !.pc = "idle", !.task = NoTask]
         \/ Holds(v, "idle") /\ worker'[v] = [worker[v] EXCEPT !.pc = "push"]
         \/ /\ PushBack(v)
            /\ \E c \in worker[v].deferred :
                 worker'[v] = [worker[v] EXCEPT !.deferred = worker[v].deferred \ {c},
                                                !.pc = IF worker[v].deferred # {c} THEN "push"
                                                       ELSE IF Task(v) = NoTask THEN "idle" ELSE "run"]
<1>a. /\ worker \in [Compilers -> Hands] /\ worker[v] \in Hands /\ child \in [Children -> Records]
  BY Base
<1>1. ASSUME NEW u \in Compilers, Scan(u)
      PROVE  \/ worker'[v] = worker[v]
             \/ /\ Scan(v)
                /\ \E c \in cpu : \/ worker'[v] = [worker[v] EXCEPT !.pc = "mark", !.task = c]
                                  \/ worker'[v] = [worker[v] EXCEPT !.deferred = worker[v].deferred \cup {c}]
  <2>1. PICK c \in cpu : worker' = [worker EXCEPT ![u] =
                            IF child[c].st # "pending" \/ c[1] \in marked THEN @
                            ELSE IF Matches(c, HostOf[u]) THEN [worker[u] EXCEPT !.pc = "mark", !.task = c]
                            ELSE [worker[u] EXCEPT !.deferred = @ \cup {c}]]
    BY <1>1 DEF Scan
  <2>2. CASE u # v
    BY <1>a, <2>1, <2>2
  <2>3. CASE u = v
    <3>1. CASE child[c].st # "pending" \/ c[1] \in marked
      BY <1>a, <2>1, <2>3, <3>1
    <3>2. CASE child[c].st = "pending" /\ c[1] \notin marked /\ Matches(c, HostOf[u])
      BY <1>a, <1>1, <2>1, <2>3, <3>2
    <3>3. CASE child[c].st = "pending" /\ c[1] \notin marked /\ ~Matches(c, HostOf[u])
      BY <1>a, <1>1, <2>1, <2>3, <3>3
    <3> QED
      BY <3>1, <3>2, <3>3
  <2> QED
    BY <2>2, <2>3
<1>2. ASSUME NEW u \in Compilers, Mark(u)
      PROVE  \/ worker'[v] = worker[v]
             \/ /\ Mark(v) /\ child[Task(v)].st = "pending" /\ child'[Task(v)].st = "processing"
                /\ worker'[v] = [worker[v] EXCEPT !.pc = IF worker[v].deferred = {} THEN "run" ELSE "push"]
             \/ Mark(v) /\ worker'[v] = [worker[v] EXCEPT !.pc = "idle", !.task = NoTask]
  <2>1. Task(u) \in Children
    BY <1>2, Base DEF Mark, WorkerOK, Task, Hands
  <2>2. CASE u # v
    BY <1>a, <1>2, <2>2 DEF Mark
  <2>3. CASE u = v /\ child[Task(u)].st = "pending" /\ Allowed(RunOf(Task(u)))
    <3>1. /\ child' = [child EXCEPT ![Task(u)].st = "processing", ![Task(u)].host = HostOf[u]]
          /\ worker' = [worker EXCEPT ![u] = Leave(worker[u])]
      BY <1>a, <1>2, <2>3 DEF Mark
    <3>2. child[Task(u)] \in Records
      BY <1>a, <2>1
    <3>3. child'[Task(u)].st = "processing"
      BY <1>a, <2>1, <3>1, <3>2 DEF Records
    <3> QED
      BY <1>a, <1>2, <2>3, <3>1, <3>3 DEF Leave
  <2>4. CASE u = v /\ ~(child[Task(u)].st = "pending" /\ Allowed(RunOf(Task(u))))
    <3>1. worker' = [worker EXCEPT ![u].pc = "idle", ![u].task = NoTask]
      BY <1>2, <2>4 DEF Mark
    <3> QED
      BY <1>a, <1>2, <2>4, <3>1
  <2> QED
    BY <2>2, <2>3, <2>4
<1>3. ASSUME NEW u \in Compilers, ScanEnds(u)
      PROVE  worker'[v] = worker[v] \/ (Holds(v, "idle") /\ worker'[v] = [worker[v] EXCEPT !.pc = "push"])
  BY <1>a, <1>3 DEF ScanEnds
<1>4. ASSUME NEW u \in Compilers, PushBack(u)
      PROVE  \/ worker'[v] = worker[v]
             \/ /\ PushBack(v)
                /\ \E c \in worker[v].deferred :
                     worker'[v] = [worker[v] EXCEPT !.deferred = worker[v].deferred \ {c},
                                                    !.pc = IF worker[v].deferred # {c} THEN "push"
                                                           ELSE IF Task(v) = NoTask THEN "idle" ELSE "run"]
  <2>1. PICK c \in worker[u].deferred :
             worker' = [worker EXCEPT ![u].deferred = @ \ {c},
                                      ![u].pc = IF worker[u].deferred # {c} THEN "push"
                                                ELSE IF Task(u) = NoTask THEN "idle" ELSE "run"]
    BY <1>4 DEF PushBack
  <2>2. worker' = [worker EXCEPT ![u] = [worker[u] EXCEPT !.deferred = worker[u].deferred \ {c},
                                     !.pc = IF worker[u].deferred # {c} THEN "push"
                                            ELSE IF Task(u) = NoTask THEN "idle" ELSE "run"]]
    BY <1>a, <2>1
  <2> QED
    BY <1>a, <1>4, <2>2
<1>5. ASSUME NEW u \in Compilers, Recompile(u) \/ CpuEnds(u)
      PROVE  worker'[v] = worker[v] \/ worker'[v] = Resting
  BY <1>a, <1>5 DEF Recompile, CpuEnds
<1>c. ASSUME NEW u \in Compilers, Compile(u)
      PROVE  \/ worker'[v] = worker[v]
             \/ worker'[v] = Resting
             \/ Compile(v) /\ worker'[v] = [worker[v] EXCEPT !.pc = "again"] /\ Task(v) \in unsure'
  <2>1. \/ worker' = [worker EXCEPT ![u] = Resting]
        \/ worker' = [worker EXCEPT ![u] = [worker[u] EXCEPT !.pc = "again"]] /\ Task(u) \in unsure'
    BY <1>a, <1>c DEF Compile
  <2> QED
    BY <1>a, <1>c, <2>1
<1>6. CASE UNCHANGED worker
  BY <1>6
<1> QED
  BY <1>1, <1>2, <1>3, <1>4, <1>5, <1>c, <1>6
     DEF Next, Controls, Compiles, Accept, Lapse, Cancel, Fail, Commit, Begin, Select, Submit, Withdraw, Compiled, Judged,
         Refer, Timed, Combine, Start, Skip, End, DiscardRead, Discard, ServerEnds, Fleet

\* A marked task stays with its worker until that worker writes the record.
LEMMA MarkStays ==
  ASSUME Inv, Next, NEW v \in Compilers, Works(v)
  PROVE  child'[Task(v)].st = "processing" \/ Compile(v)
<1>1. Task(v) \in Children /\ Task(v)[2] = "compile" /\ child[Task(v)].st = "processing"
  <2>1. Task(v) # NoTask /\ worker[v] \in Hands /\ WorkerOK(v)
    BY Base DEF Works, WorkerOK
  <2> QED
    BY <2>1 DEF WorkerOK, Task, Hands
<1>2. ASSUME Written(Task(v))
      PROVE  Compile(v)
  <2>1. PICK u \in Compilers : Compile(u) /\ Task(u) = Task(v)
    BY <1>2 DEF Written
  <2>2. Works(u)
    BY <2>1 DEF Compile, Works
  <2> QED
    BY <2>1, <2>2 DEF Inv, Alone
<1>3. ~Again(Task(v))
  BY <1>1, Base DEF Again, EndOK
<1> QED
  BY <1>1, <1>2, <1>3, ChildMoves DEF Born, Dropped, Marked, Started, Finished, Gone

\* A worker has a marked task because it had it, or because it marks it now.
LEMMA WorksStep ==
  ASSUME Inv, Next, NEW v \in Compilers, Works(v)'
  PROVE  /\ Task(v)' = Task(v) /\ child'[Task(v)].st = "processing"
         /\ Works(v) \/ (Mark(v) /\ child[Task(v)].st = "pending")
<1>a. worker[v] \in Hands /\ WorkerOK(v)
  BY Base
<1>1. CASE worker'[v] = worker[v]
  <2>1. Works(v) /\ Task(v)' = Task(v)
    BY <1>1 DEF Works, Holds, Task
  <2>2. ~Compile(v)
    <3>1. Compile(v) => worker'[v].pc \in {"idle", "again"} /\ worker[v].pc = "run"
      BY <1>a, Base DEF Compile, Holds, Resting, Hands
    <3> QED
      BY <1>1, <3>1
  <2> QED
    BY <2>1, <2>2, MarkStays
<1>2. CASE worker'[v] = Resting
  BY <1>2 DEF Resting, Works, Holds, Task
<1>b. CASE worker'[v] = [worker[v] EXCEPT !.pc = "again"]
  BY <1>a, <1>b DEF Works, Holds, Hands
<1>3. CASE /\ Scan(v)
           /\ \E c \in cpu : \/ worker'[v] = [worker[v] EXCEPT !.pc = "mark", !.task = c]
                             \/ worker'[v] = [worker[v] EXCEPT !.deferred = worker[v].deferred \cup {c}]
  BY <1>a, <1>3 DEF Scan, Works, Holds, Task, Hands
<1>4. CASE /\ Mark(v) /\ child[Task(v)].st = "pending" /\ child'[Task(v)].st = "processing"
           /\ worker'[v] = [worker[v] EXCEPT !.pc = IF worker[v].deferred = {} THEN "run" ELSE "push"]
  BY <1>a, <1>4 DEF Task, Hands
<1>5. CASE Mark(v) /\ worker'[v] = [worker[v] EXCEPT !.pc = "idle", !.task = NoTask]
  BY <1>a, <1>5 DEF Works, Holds, Hands
<1>6. CASE Holds(v, "idle") /\ worker'[v] = [worker[v] EXCEPT !.pc = "push"]
  BY <1>a, <1>6 DEF Works, Holds, Task, WorkerOK, Hands
<1>7. CASE /\ PushBack(v)
           /\ \E c \in worker[v].deferred :
                worker'[v] = [worker[v] EXCEPT !.deferred = worker[v].deferred \ {c},
                                               !.pc = IF worker[v].deferred # {c} THEN "push"
                                                      ELSE IF Task(v) = NoTask THEN "idle" ELSE "run"]
  <2>1. Task(v)' = Task(v) /\ Works(v)
    BY <1>a, <1>7 DEF PushBack, Works, Holds, Task, Hands
  <2>2. ~Compile(v)
    BY <1>7 DEF PushBack, Compile, Holds
  <2> QED
    BY <2>1, <2>2, MarkStays
<1> QED
  BY <1>1, <1>2, <1>b, <1>3, <1>4, <1>5, <1>6, <1>7, HandMoves

LEMMA WorkerStep ==
  ASSUME Inv, Next, NEW v \in Compilers
  PROVE  WorkerOK(v)'
<1>a. /\ worker[v] \in Hands /\ WorkerOK(v) /\ NoTask \notin Children
      /\ \A c \in cpu : c \in Children /\ c[2] = "compile"
  BY Base, NoTaskIsNoChild DEF ChildOK
<1>w. Works(v)' => child'[Task(v)'].st = "processing"
  BY WorksStep
<1> SUFFICES /\ worker'[v].pc = "idle" => worker'[v].task = NoTask
             /\ worker'[v].pc = "again" => worker'[v].task # NoTask /\ worker'[v].task \in unsure'
             /\ worker'[v].pc \in {"mark", "run"} => worker'[v].task # NoTask
             /\ worker'[v].pc \in {"run", "again"} => worker'[v].deferred = {}
             /\ worker'[v].task # NoTask => worker'[v].task[2] = "compile"
             /\ \A c \in worker'[v].deferred : c[2] = "compile"
  BY <1>w DEF WorkerOK, Holds, Task
<1>b. /\ worker[v].pc = "idle" => worker[v].task = NoTask
      /\ worker[v].pc = "again" => worker[v].task # NoTask /\ worker[v].task \in unsure'
      /\ worker[v].pc \in {"mark", "run"} => worker[v].task # NoTask
      /\ worker[v].pc \in {"run", "again"} => worker[v].deferred = {}
      /\ worker[v].task # NoTask => worker[v].task[2] = "compile"
      /\ \A c \in worker[v].deferred : c[2] = "compile"
  BY <1>a, UnsureMoves DEF WorkerOK, Holds, Task
<1>1. CASE worker'[v] = worker[v]
  BY <1>b, <1>1
<1>2. CASE worker'[v] = Resting
  BY <1>2 DEF Resting
<1>c. CASE worker[v].pc = "run" /\ worker'[v] = [worker[v] EXCEPT !.pc = "again"] /\ Task(v) \in unsure'
  BY <1>a, <1>b, <1>c DEF Hands, Task
<1>3. ASSUME NEW c \in cpu, worker[v].pc = "idle",
             \/ worker'[v] = [worker[v] EXCEPT !.pc = "mark", !.task = c]
             \/ worker'[v] = [worker[v] EXCEPT !.deferred = worker[v].deferred \cup {c}]
      PROVE  /\ worker'[v].pc = "idle" => worker'[v].task = NoTask
             /\ worker'[v].pc = "again" => worker'[v].task # NoTask /\ worker'[v].task \in unsure'
             /\ worker'[v].pc \in {"mark", "run"} => worker'[v].task # NoTask
             /\ worker'[v].pc \in {"run", "again"} => worker'[v].deferred = {}
             /\ worker'[v].task # NoTask => worker'[v].task[2] = "compile"
             /\ \A d \in worker'[v].deferred : d[2] = "compile"
  <2>1. CASE worker'[v] = [worker[v] EXCEPT !.pc = "mark", !.task = c]
    BY <1>a, <1>b, <1>3, <2>1 DEF Hands
  <2>2. CASE worker'[v] = [worker[v] EXCEPT !.deferred = worker[v].deferred \cup {c}]
    BY <1>a, <1>b, <1>3, <2>2 DEF Hands
  <2> QED
    BY <1>3, <2>1, <2>2
<1>4. CASE worker[v].pc = "mark" /\ worker'[v] = [worker[v] EXCEPT !.pc = IF worker[v].deferred = {} THEN "run" ELSE "push"]
  BY <1>a, <1>b, <1>4 DEF Hands
<1>5. CASE worker'[v] = [worker[v] EXCEPT !.pc = "idle", !.task = NoTask]
  BY <1>a, <1>b, <1>5 DEF Hands
<1>6. CASE worker[v].pc = "idle" /\ worker'[v] = [worker[v] EXCEPT !.pc = "push"]
  BY <1>a, <1>b, <1>6 DEF Hands
<1>7. ASSUME NEW c \in worker[v].deferred,
             worker'[v] = [worker[v] EXCEPT !.deferred = worker[v].deferred \ {c},
                                            !.pc = IF worker[v].deferred # {c} THEN "push"
                                                   ELSE IF Task(v) = NoTask THEN "idle" ELSE "run"]
      PROVE  /\ worker'[v].pc = "idle" => worker'[v].task = NoTask
             /\ worker'[v].pc = "again" => worker'[v].task # NoTask /\ worker'[v].task \in unsure'
             /\ worker'[v].pc \in {"mark", "run"} => worker'[v].task # NoTask
             /\ worker'[v].pc \in {"run", "again"} => worker'[v].deferred = {}
             /\ worker'[v].task # NoTask => worker'[v].task[2] = "compile"
             /\ \A d \in worker'[v].deferred : d[2] = "compile"
  BY <1>a, <1>b, <1>7 DEF Hands, Task
<1> QED
  BY <1>1, <1>2, <1>c, <1>3, <1>4, <1>5, <1>6, <1>7, HandMoves DEF Scan, Mark, Compile, Holds

LEMMA AloneStep ==
  ASSUME Inv, Next
  PROVE  Alone'
<1> SUFFICES ASSUME NEW u \in Compilers, NEW v \in Compilers, Works(u)', Works(v)', Task(u)' = Task(v)', u # v
             PROVE  FALSE
  BY DEF Alone
<1>1. /\ Task(u) = Task(v)
      /\ Works(u) \/ (Mark(u) /\ child[Task(u)].st = "pending")
      /\ Works(v) \/ (Mark(v) /\ child[Task(v)].st = "pending")
  BY WorksStep
<1>2. \A w \in Compilers : Works(w) => child[Task(w)].st = "processing"
  BY Base DEF WorkerOK
<1>3. CASE Works(u) /\ Works(v)
  BY <1>1, <1>3 DEF Inv, Alone
<1>4. CASE Mark(u) /\ Mark(v)
  <2>1. worker'[u] = worker[u] /\ worker[u].pc = "mark"
    BY <1>4, Base DEF Mark, Holds
  <2> QED
    BY <2>1 DEF Works, Holds
<1> QED
  BY <1>1, <1>2, <1>3, <1>4

-----------------------------------------------------------------------------
(* The cache.                                                              *)

LEMMA EntryStep ==
  ASSUME Inv, Next
  PROVE  EntryOK(redis') /\ \A s \in Servers : EntryOK(memory'[s])
<1>a. /\ memory \in [Servers -> Entries \cup {NoEntry}] /\ EntryOK(redis) /\ \A s \in Servers : EntryOK(memory[s])
  BY Base DEF Inv
<1>1. ASSUME NEW x \in AllRuns, Reads(x)
      PROVE  \A s \in Servers : EntryOK(memory'[s])
  BY <1>a, <1>1, RunFacts DEF Reads, Entry
<1>2. ASSUME NEW x \in AllRuns, Combine(x)
      PROVE  EntryOK(redis') /\ \A s \in Servers : EntryOK(memory'[s])
  <2>1. ctl[x].ref = Ask(x).code
    BY <1>2, Base DEF Combine, At, RunOK
  <2>2. EntryOK([hash |-> Ask(x).code, of |-> ctl[x].ref])
    BY <2>1 DEF EntryOK
  <2> QED
    BY <1>a, <1>2, <2>2, RunFacts DEF Combine, Puts, Caches
<1>3. ASSUME NEW s \in Servers, ServerEnds(s)
      PROVE  EntryOK(redis') /\ \A t \in Servers : EntryOK(memory'[t])
  BY <1>a, <1>3, Blanks DEF ServerEnds
<1>4. ASSUME NEW x \in AllRuns, Begin(x) \/ Refer(x)
      PROVE  EntryOK(redis') /\ \A s \in Servers : EntryOK(memory'[s])
  BY <1>a, <1>1, <1>4 DEF Begin, Refer
<1>5. CASE UNCHANGED Caches
  BY <1>a, <1>5 DEF Caches
<1> QED
  BY <1>2, <1>3, <1>4, <1>5
     DEF Next, Controls, Compiles, Accept, Lapse, Cancel, Fail, Commit, Select, Submit, Withdraw, Compiled, Judged, Timed,
         Scan, Mark, ScanEnds, PushBack, Compile, Recompile, CpuEnds, Start, Skip, End, DiscardRead, Discard

-----------------------------------------------------------------------------
(* The way of a split kernel.                                              *)

\* The steps of one controller.
LEMMA CtlMoves ==
  ASSUME Inv, Next, NEW x \in AllRuns
  PROVE  LET pc == ctl[x].pc  st == ctl[x].stage  q == ctl'[x]  built == child[ChildId(x, "compile")] IN
         \/ q = ctl[x]
         \/ pc = "unborn" /\ q.pc = "start"
         \/ q.pc = "over"
         \/ /\ pc = "start" /\ UNCHANGED <<child, artifact>>
            /\ \/ Mode(x) = "split" /\ q.pc = "select"
               \/ Mode(x) # "split" /\ q.pc = "submit"
         \/ pc = "select" /\ UNCHANGED <<child, artifact>> /\ (q.pc = "commit" \/ (q.pc = "submit" /\ q.stage = "compile"))
         \/ pc = "submit" /\ UNCHANGED artifact /\ q.pc = "wait" /\ q.stage = st
         \/ /\ pc = "wait" /\ st = "compile" /\ built.st \in {"done", "dropped"} /\ UNCHANGED <<child, artifact>>
            /\ Mode(x) = "split" /\ built.out = "good" /\ q.pc = "submit" /\ q.stage = "kernel" /\ q.target = built.host
         \/ pc = "wait" /\ q.pc = "commit"
         \/ pc = "wait" /\ st = "kernel" /\ UNCHANGED <<child, artifact>> /\ q.pc = "refer"
         \/ pc = "refer" /\ UNCHANGED <<child, artifact>> /\ (q.pc = "combine" \/ (q.pc = "submit" /\ q.stage = "ref"))
         \/ pc = "wait" /\ st = "ref" /\ UNCHANGED <<child, artifact>> /\ q.pc = "combine"
         \/ pc = "combine" /\ UNCHANGED <<child, artifact>> /\ q.pc = "commit"
<1> DEFINE pc == ctl[x].pc
           st == ctl[x].stage
           q == ctl'[x]
           built == child[ChildId(x, "compile")]
           Moves == \/ q = ctl[x]
                    \/ pc = "unborn" /\ q.pc = "start"
                    \/ q.pc = "over"
                    \/ /\ pc = "start" /\ UNCHANGED <<child, artifact>>
                       /\ \/ Mode(x) = "split" /\ q.pc = "select"
                          \/ Mode(x) # "split" /\ q.pc = "submit"
                    \/ /\ pc = "select" /\ UNCHANGED <<child, artifact>>
                       /\ (q.pc = "commit" \/ (q.pc = "submit" /\ q.stage = "compile"))
                    \/ pc = "submit" /\ UNCHANGED artifact /\ q.pc = "wait" /\ q.stage = st
                    \/ /\ pc = "wait" /\ st = "compile" /\ built.st \in {"done", "dropped"} /\ UNCHANGED <<child, artifact>>
                       /\ Mode(x) = "split" /\ built.out = "good" /\ q.pc = "submit" /\ q.stage = "kernel"
                       /\ q.target = built.host
                    \/ pc = "wait" /\ q.pc = "commit"
                    \/ pc = "wait" /\ st = "kernel" /\ UNCHANGED <<child, artifact>> /\ q.pc = "refer"
                    \/ /\ pc = "refer" /\ UNCHANGED <<child, artifact>>
                       /\ (q.pc = "combine" \/ (q.pc = "submit" /\ q.stage = "ref"))
                    \/ pc = "wait" /\ st = "ref" /\ UNCHANGED <<child, artifact>> /\ q.pc = "combine"
                    \/ pc = "combine" /\ UNCHANGED <<child, artifact>> /\ q.pc = "commit"
<1>a. /\ gen \in [Requests -> Nat]
      /\ ctl \in [AllRuns -> Controllers] /\ ctl[x] \in Controllers
      /\ RunOK(x) /\ x[1] \in Requests
      /\ Over.pc = "over"
  BY Base, RunFacts DEF Over, Unborn
<1>1. ASSUME NEW r \in Requests, Accept(r)
      PROVE  Moves
  <2>1. ctl' = [ctl EXCEPT ![<<r, gen[r] + 1>>].pc = "start"]
    BY <1>1 DEF Accept
  <2>2. CASE x = <<r, gen[r] + 1>>
    <3>1. x[2] > gen[x[1]]
      BY <1>a, <2>2
    <3> QED
      BY <1>a, <2>1, <2>2, <3>1 DEF RunOK, Controllers
  <2>3. CASE x # <<r, gen[r] + 1>>
    BY <1>a, <2>1, <2>3
  <2> QED
    BY <2>2, <2>3
<1>2. ASSUME NEW r \in Requests, Fail(r)
      PROVE  Moves
  BY <1>a, <1>2 DEF Fail
<1>3. ASSUME NEW y \in AllRuns, Controls(y), y # x
      PROVE  q = ctl[x]
  <2>1. Begin(y) \/ Select(y) => q = ctl[x]
    BY <1>a, <1>3 DEF Begin, Select, Goes, Asks
  <2>2. Submit(y) => q = ctl[x]
    BY <1>a, <1>3 DEF Submit, Goes
  <2>3. Compiled(y) => q = ctl[x]
    BY <1>a, <1>3 DEF Compiled
  <2>4. Judged(y) => q = ctl[x]
    BY <1>a, <1>3 DEF Judged
  <2>5. Refer(y) => q = ctl[x]
    BY <1>a, <1>3 DEF Refer, Asks
  <2>6. Timed(y) => q = ctl[x]
    BY <1>a, <1>3 DEF Timed
  <2>7. Combine(y) \/ Commit(y) \/ Withdraw(y) => q = ctl[x]
    BY <1>a, <1>3 DEF Combine, Commit, Withdraw, Goes
  <2> QED
    BY <1>3, <2>1, <2>2, <2>3, <2>4, <2>5, <2>6, <2>7 DEF Controls
<1>4. ASSUME Begin(x)
      PROVE  Moves
  <2>1. ctl' = [ctl EXCEPT ![x].need = ~(Ask(x).cached /\ Hit(x)),
                           ![x].pc = IF Mode(x) = "split" THEN "select" ELSE "submit",
                           ![x].stage = IF Mode(x) = "direct" THEN "kernel" ELSE "compile"]
        /\ pc = "start" /\ UNCHANGED <<child, artifact>>
    BY <1>4 DEF Begin, At, Store, Fleet
  <2>2. q.pc = IF Mode(x) = "split" THEN "select" ELSE "submit"
    BY <1>a, <2>1 DEF Controllers
  <2> QED
    BY <2>1, <2>2
<1>5. ASSUME Select(x)
      PROVE  Moves
  <2>1. pc = "select" /\ UNCHANGED <<child, artifact>>
    BY <1>5 DEF Select, At, Store, Fleet
  <2>2. Goes(x, "commit") => q.pc = "commit"
    BY <1>a DEF Goes, Controllers
  <2>3. \A h : Asks(x, "compile", h) => q.pc = "submit" /\ q.stage = "compile"
    BY <1>a DEF Asks, Controllers
  <2> QED
    BY <1>5, <2>1, <2>2, <2>3 DEF Select
<1>6. ASSUME Submit(x)
      PROVE  Moves
  BY <1>a, <1>6 DEF Submit, At, Goes, Fleet, Controllers
<1>7. ASSUME Compiled(x)
      PROVE  Moves
  <2> DEFINE c  == child[Mine(x)]
             on == Mode(x) = "split" /\ c.out = "good"
             n  == [ctl[x] EXCEPT !.took = c.by,
                                  !.pc = IF on THEN "submit" ELSE "commit",
                                  !.stage = IF on THEN "kernel" ELSE "compile",
                                  !.target = IF on THEN c.host ELSE ctl[x].target]
  <2>1. /\ ctl' = [ctl EXCEPT ![x] = n] /\ pc = "wait" /\ st = "compile" /\ Terminal(Mine(x))
        /\ UNCHANGED <<child, artifact>>
    BY <1>a, <1>7 DEF Compiled, At, Controllers, Store, Fleet
  <2>2. q = n
    BY <1>a, <2>1
  <2>3. n.pc = (IF on THEN "submit" ELSE "commit") /\ (on => n.stage = "kernel" /\ n.target = c.host)
    BY <1>a DEF Controllers
  <2>4. Mine(x) = ChildId(x, "compile")
    BY <2>1 DEF Mine
  <2> HIDE DEF n
  <2> QED
    BY <2>1, <2>2, <2>3, <2>4 DEF Terminal
<1>8. ASSUME Judged(x)
      PROVE  Moves
  <2>1. /\ ctl' = [ctl EXCEPT ![x].pc = IF child[Mine(x)].out = "good" /\ Allowed(x) THEN "refer" ELSE "commit",
                              ![x].took = child[Mine(x)].by]
        /\ pc = "wait" /\ st = "kernel" /\ UNCHANGED <<child, artifact>>
    BY <1>8 DEF Judged, At, Store, Fleet
  <2>2. q.pc \in {"refer", "commit"}
    BY <1>a, <2>1 DEF Controllers
  <2> QED
    BY <2>1, <2>2
<1>9. ASSUME Refer(x)
      PROVE  Moves
  <2>1. pc = "refer" /\ UNCHANGED <<child, artifact>>
    BY <1>9 DEF Refer, At, Store, Fleet
  <2>2. Asks(x, "ref", Nowhere) => q.pc = "submit" /\ q.stage = "ref"
    BY <1>a DEF Asks, Controllers
  <2>3. ctl' = [ctl EXCEPT ![x].pc = "combine", ![x].ref = Entry(ServerOf[x[1]]).of] => q.pc = "combine"
    BY <1>a DEF Controllers
  <2> QED
    BY <1>9, <2>1, <2>2, <2>3 DEF Refer
<1>10. ASSUME Timed(x)
       PROVE  Moves
  <2> DEFINE c == child[Mine(x)]
             good == c.out = "good" /\ Allowed(x)
             n == [ctl[x] EXCEPT !.took = c.by,
                                 !.pc = IF good THEN "combine" ELSE "commit",
                                 !.ref = IF good THEN Plan[x[1]][c.by].code ELSE ctl[x].ref]
  <2>1. ctl' = [ctl EXCEPT ![x] = n] /\ pc = "wait" /\ st = "ref" /\ UNCHANGED <<child, artifact>>
    BY <1>a, <1>10 DEF Timed, At, Controllers, Store, Fleet
  <2>2. q = n
    BY <1>a, <2>1
  <2>3. n.pc \in {"combine", "commit"}
    BY <1>a DEF Controllers
  <2> HIDE DEF n
  <2> QED
    BY <2>1, <2>2, <2>3
<1>11. ASSUME Combine(x)
       PROVE  Moves
  BY <1>a, <1>11 DEF Combine, At, Goes, Store, Fleet, Controllers
<1>12. ASSUME Commit(x)
       PROVE  Moves
  BY <1>a, <1>12 DEF Commit
<1>13. ASSUME NEW s \in Servers, ServerEnds(s)
       PROVE  Moves
  BY <1>a, <1>13 DEF ServerEnds
<1>w. ASSUME Withdraw(x)
      PROVE  Moves
  BY <1>a, <1>w DEF Withdraw, At, Goes, Controllers
<1>14. CASE UNCHANGED ctl
  BY <1>14
<1> HIDE DEF Moves
<1>15. Moves
  BY <1>1, <1>2, <1>3, <1>4, <1>5, <1>6, <1>7, <1>8, <1>9, <1>10, <1>11, <1>12, <1>13, <1>14, <1>w
     DEF Next, Controls, Compiles, Lapse, Cancel, Scan, Mark, ScanEnds, PushBack, Compile, Recompile, CpuEnds, Start, Skip,
         End, DiscardRead, Discard, Moves
<1> QED
  BY <1>15 DEF Moves

\* An artifact changes only with the record of the compilation.
LEMMA ArtifactMoves ==
  ASSUME Inv, Next, NEW x \in AllRuns
  PROVE  artifact'[x] = artifact[x] \/ Written(ChildId(x, "compile"))
<1>1. ASSUME NEW v \in Compilers, Compile(v)
      PROVE  artifact'[x] = artifact[x] \/ Written(ChildId(x, "compile"))
  <2>1. /\ Task(v) \in Children /\ Task(v)[2] = "compile" /\ Written(Task(v))
        /\ x # RunOf(Task(v)) => artifact'[x] = artifact[x]
    BY <1>1, CompileWrites
  <2>2. Task(v) = ChildId(RunOf(Task(v)), "compile")
    BY <2>1, NameFacts
  <2> QED
    BY <2>1, <2>2
<1>2. CASE UNCHANGED artifact
  BY <1>2
<1> QED
  BY <1>1, <1>2
     DEF Next, Controls, Compiles, Accept, Lapse, Cancel, Fail, Commit, Begin, Select, Submit, Withdraw, Compiled, Judged,
         Refer, Timed, Combine, Scan, Mark, ScanEnds, PushBack, Recompile, CpuEnds, Start, Skip, End, DiscardRead, Discard,
         ServerEnds, Fleet

\* Cleanups and completions that may be repeated.
LEMMA EndStep ==
  ASSUME Inv, Next, NEW c \in Children
  PROVE  EndOK(c)'
<1>a. /\ child[c] \in Records /\ ChildOK(c) /\ EndOK(c) /\ child \in [Children -> Records]
      /\ Past(c) => Past(c)'
      /\ RunOf(c) \in AllRuns /\ c[1] = RunOf(c)[1]
  BY Base, PastStays, NameFacts
<1>1. c \in doomed' => Past(c)'
  <2>1. CASE c \in doomed
    BY <1>a, <2>1 DEF EndOK
  <2>2. CASE DiscardRead(c)
    <3>1. c[1] \notin open /\ child[c].st # "none" /\ UNCHANGED <<gen, open>>
      BY <2>2 DEF DiscardRead, Probed, Discardable, Terminal, Parent
    <3>2. Past(c)
      BY <1>a, <3>1 DEF ChildOK, Past, Active
    <3> QED
      BY <1>a, <3>2
  <2>3. c \in doomed' => c \in doomed \/ DiscardRead(c)
    <3>1. ASSUME NEW d \in Children, DiscardRead(d) \/ Discard(d)
          PROVE  c \in doomed' => c \in doomed \/ DiscardRead(c)
      BY <3>1 DEF DiscardRead, Discard
    <3>2. CASE UNCHANGED doomed
      BY <3>2
    <3> QED
      BY <3>1, <3>2
         DEF Next, Controls, Compiles, Accept, Lapse, Cancel, Fail, Begin, Select, Submit, Withdraw, Compiled, Judged,
             Refer, Timed, Combine, Commit, Scan, Mark, ScanEnds, PushBack, Compile, Recompile, CpuEnds, Start, Skip,
             End, ServerEnds, Store
  <2> QED
    BY <2>1, <2>2, <2>3
<1>2. ASSUME c \in unsure'
      PROVE  /\ c[2] = "compile" /\ child'[c].st \in {"none", "done"}
             /\ child'[c].st = "none" => Past(c)'
             /\ ctl'[RunOf(c)].pc \notin {"unborn", "start", "select"}
  <2>1. CASE c \in unsure
    <3>1. /\ c[2] = "compile" /\ child[c].st \in {"none", "done"}
          /\ child[c].st = "none" => Past(c)
          /\ ctl[RunOf(c)].pc \notin {"unborn", "start", "select"}
      BY <1>a, <2>1 DEF EndOK
    <3>2. ctl'[RunOf(c)].pc \notin {"unborn", "start", "select"}
      BY <1>a, <3>1, CtlMoves
    <3>3. ~Born(c)
      <4>1. Born(c) => child[c].st = "none" /\ Active(RunOf(c))
        BY BornNow DEF Born
      <4> QED
        BY <3>1, <4>1 DEF Past
    <3>4. ~Dropped(c) /\ ~Marked(c) /\ ~Written(c) /\ ~Started(c) /\ ~Finished(c)
      BY <3>1 DEF Dropped, Marked, Written, Started, Finished
    <3>5. CASE child'[c] = child[c]
      BY <1>a, <3>1, <3>2, <3>5
    <3>6. CASE Again(c)
      BY <1>a, <3>1, <3>2, <3>6 DEF Again, Records
    <3>7. CASE Gone(c)
      <4>1. Past(c) /\ child'[c].st = "none"
        BY <1>a, <3>7 DEF Gone, EndOK, Absent
      <4> QED
        BY <1>a, <3>1, <3>2, <4>1
    <3> QED
      BY <3>3, <3>4, <3>5, <3>6, <3>7, ChildMoves
  <2>2. CASE c \notin unsure
    <3>1. PICK v \in Compilers : Compile(v) /\ c = Task(v)
      BY <1>2, <2>2, UnsureMoves
    <3>2. c[2] = "compile" /\ Written(c) /\ UNCHANGED ctl
      BY <3>1, CompileWrites DEF Compile
    <3>3. child[c].st = "processing" /\ child'[c].st = "done"
      BY <1>a, <3>2 DEF Written, Records
    <3>4. c = ChildId(RunOf(c), "compile") /\ SplitOK(RunOf(c))
      BY <1>a, <3>2, NameFacts DEF Inv
    <3> QED
      BY <3>2, <3>3, <3>4 DEF SplitOK
  <2> QED
    BY <2>1, <2>2
<1> QED
  BY <1>1, <1>2 DEF EndOK, RunOf

\* A child is born where its controller is about to submit it.
LEMMA BornAt ==
  ASSUME Inv, NEW x \in AllRuns, NEW s \in Stages, Born(ChildId(x, s))
  PROVE  /\ Submit(x) /\ ctl[x].pc = "submit" /\ ctl[x].stage = s
         /\ child'[ChildId(x, s)].st = "pending" /\ child'[ChildId(x, s)].target = ctl[x].target
         /\ child'[ChildId(x, s)].host = Nowhere
<1>1. PICK y \in AllRuns :
        /\ Submit(y) /\ ChildId(x, s) = Mine(y)
        /\ child'[ChildId(x, s)] = [st |-> "pending", target |-> ctl[y].target, host |-> Nowhere, out |-> "none",
                                    by |-> y[2], data |-> TRUE]
  BY DEF Born
<1>2. ctl[y].stage \in Stages
  BY Base DEF Controllers
<1>3. x = y /\ ctl[y].stage = s
  BY <1>1, <1>2, ChildFacts DEF Mine
<1> QED
  BY <1>1, <1>3 DEF Submit, At

\* A compilation that does not wait and is not worked on stays so once its
\* controller is past it.
LEMMA BuiltStays ==
  ASSUME Inv, Next, NEW x \in AllRuns, child[ChildId(x, "compile")].st \notin {"pending", "processing"},
         ~(ctl[x].pc = "submit" /\ ctl[x].stage = "compile")
  PROVE  /\ child'[ChildId(x, "compile")].st \notin {"pending", "processing"}
         /\ artifact'[x] = artifact[x]
         /\ child[ChildId(x, "compile")].st = "none" /\ ctl[x].pc \in {"unborn", "start", "select"} =>
              child'[ChildId(x, "compile")].st = "none"
<1> DEFINE c == ChildId(x, "compile")
<1>1. c \in Children /\ c[2] = "compile" /\ "compile" \in Stages /\ RunOf(c) = x /\ child[c] \in Records
  BY ChildFacts, Base DEF Stages
<1>2. ~Born(c)
  BY <1>1, BornAt
<1>3. ~Written(c) /\ ~Dropped(c) /\ ~Marked(c) /\ ~Started(c) /\ ~Finished(c)
  BY <1>1 DEF Written, Dropped, Marked, Started, Finished
<1>4. child'[c] = child[c] \/ Again(c) \/ Gone(c)
  BY <1>1, <1>2, <1>3, ChildMoves
<1>5. Gone(c) => child'[c].st = "none"
  BY DEF Gone, Absent
<1>6. Again(c) => child'[c].st = "done" /\ ctl[x].pc \notin {"unborn", "start", "select"}
  BY <1>1, Base DEF Again, EndOK, Records
<1> QED
  BY <1>3, <1>4, <1>5, <1>6, ArtifactMoves

\* The parts of SplitOK in turn.
LEMMA SplitParts ==
  ASSUME Inv, NEW x \in AllRuns
  PROVE  LET built == child[ChildId(x, "compile")]
             kernel == child[ChildId(x, "kernel")]
         IN  /\ built \in Records /\ kernel \in Records /\ ctl[x] \in Controllers
             /\ SplitOK(x) /\ RunOK(x)
             /\ built.st # "done" => built.out = "none" 
             /\ ChildId(x, "compile") \in Children /\ ChildId(x, "kernel") \in Children
             /\ ChildId(x, "compile")[2] = "compile" /\ ChildId(x, "kernel")[2] = "kernel"
             /\ RunOf(ChildId(x, "compile")) = x
<1>1. "compile" \in Stages /\ "kernel" \in Stages
  BY DEF Stages
<1>2. /\ ChildId(x, "compile") \in Children /\ ChildId(x, "kernel") \in Children
      /\ ChildId(x, "compile")[2] = "compile" /\ ChildId(x, "kernel")[2] = "kernel"
      /\ RunOf(ChildId(x, "compile")) = x
  BY <1>1, ChildFacts
<1>3. \A c \in Children : child[c] \in Records /\ ChildOK(c)
  BY Base
<1>4. child[ChildId(x, "compile")].st # "done" => child[ChildId(x, "compile")].out = "none"
  BY <1>2, <1>3 DEF ChildOK, Absent, Records
<1> QED
  BY <1>2, <1>3, <1>4, Base DEF Inv

LEMMA SplitStep ==
  ASSUME Inv, Next, NEW x \in AllRuns
  PROVE  SplitOK(x)'
<1> DEFINE b == ChildId(x, "compile")
           k == ChildId(x, "kernel")
<1>a. /\ child[b] \in Records /\ child[k] \in Records /\ ctl[x] \in Controllers
      /\ RunOK(x)
      /\ child[b].st # "done" => child[b].out = "none"
      /\ b \in Children /\ k \in Children /\ b[2] = "compile" /\ k[2] = "kernel" /\ RunOf(b) = x
      /\ artifact \in [AllRuns -> Sites]
  BY SplitParts, Base
<1>s. /\ ctl[x].pc \in {"unborn", "start", "select"} => child[b].st = "none"
      /\ ~Early(x) /\ ctl[x].pc \notin {"commit", "over"} => child[b].st \notin {"pending", "processing"}
      /\ child[b].st = "done" /\ child[b].out = "good" => child[b].host = artifact[x] /\ artifact[x] \in Hosts
      /\ Mode(x) = "split" /\ ctl[x].pc = "submit" /\ ctl[x].stage = "kernel" =>
           ctl[x].target = artifact[x] /\ artifact[x] \in Hosts
      /\ Mode(x) = "split" /\ child[k].st # "none" =>
           /\ ~Early(x) /\ child[b].st \notin {"pending", "processing"}
           /\ child[k].target = artifact[x] /\ artifact[x] \in Hosts /\ child[k].host \in {Nowhere, artifact[x]}
  BY SplitParts DEF SplitOK
<1>e. Early(x)' => Early(x)
  BY CtlMoves DEF Early
<1>1. ctl'[x].pc \in {"unborn", "start", "select"} => child'[b].st = "none"
  <2> SUFFICES ASSUME ctl'[x].pc \in {"unborn", "start", "select"}
               PROVE  child'[b].st = "none"
    OBVIOUS
  <2>1. ctl[x].pc \in {"unborn", "start", "select"}
    BY CtlMoves
  <2> QED
    BY <1>s, <2>1, BuiltStays
<1>2. ~Early(x)' /\ ctl'[x].pc \notin {"commit", "over"} => child'[b].st \notin {"pending", "processing"}
  <2> SUFFICES ASSUME ~Early(x)', ctl'[x].pc \notin {"commit", "over"}
               PROVE  child'[b].st \notin {"pending", "processing"}
    OBVIOUS
  <2>1. CASE ~Early(x)
    <3>1. ctl[x].pc \notin {"commit", "over"}
      BY CtlMoves
    <3> QED
      BY <1>s, <2>1, <3>1, BuiltStays DEF Early
  <2>2. CASE Early(x)
    <3>1. child[b].st \notin {"pending", "processing"} /\ child' = child
      BY <1>s, <2>2, CtlMoves DEF Early
    <3> QED
      BY <3>1
  <2> QED
    BY <2>1, <2>2
<1>3. child'[b].st = "done" /\ child'[b].out = "good" => child'[b].host = artifact'[x] /\ artifact'[x] \in Hosts
  <2>1. CASE Written(b)
    BY <1>a, <2>1, EvaluationAssumption DEF Written, Records
  <2>2. CASE ~Written(b)
    <3>1. artifact'[x] = artifact[x]
      BY <2>2, ArtifactMoves
    <3>2. CASE child'[b] = child[b]
      BY <1>s, <3>1, <3>2
    <3>3. CASE Born(b) \/ Gone(b)
      <4>1. Born(b) => child'[b].st = "pending"
        BY BornAt DEF Stages
      <4>2. Gone(b) => child'[b].st = "none"
        BY DEF Gone, Absent
      <4> QED
        BY <3>3, <4>1, <4>2
    <3>4. CASE Dropped(b) \/ Marked(b) \/ Again(b)
      BY <1>a, <3>4 DEF Dropped, Marked, Again, Records
    <3>5. ~Started(b) /\ ~Finished(b)
      BY <1>a DEF Started, Finished
    <3> QED
      BY <1>a, <2>2, <3>2, <3>3, <3>4, <3>5, ChildMoves
  <2> QED
    BY <2>1, <2>2
<1>4. Mode(x) = "split" /\ ctl'[x].pc = "submit" /\ ctl'[x].stage = "kernel" =>
        ctl'[x].target = artifact'[x] /\ artifact'[x] \in Hosts
  <2> SUFFICES ASSUME Mode(x) = "split", ctl'[x].pc = "submit", ctl'[x].stage = "kernel"
               PROVE  ctl'[x].target = artifact'[x] /\ artifact'[x] \in Hosts
    OBVIOUS
  <2>1. CASE ctl'[x] = ctl[x]
    <3>1. ~Early(x) /\ ctl[x].pc \notin {"commit", "over"} /\ ~(ctl[x].pc = "submit" /\ ctl[x].stage = "compile")
      BY <2>1 DEF Early
    <3>2. artifact'[x] = artifact[x]
      BY <1>s, <3>1, BuiltStays
    <3> QED
      BY <1>s, <2>1, <3>2
  <2>2. CASE ctl'[x] # ctl[x]
    <3>1. /\ child[b].st \in {"done", "dropped"} /\ UNCHANGED artifact
          /\ child[b].out = "good" /\ ctl'[x].target = child[b].host
      BY <2>2, CtlMoves
    <3>2. child[b].st = "done"
      BY <1>a, <3>1
    <3> QED
      BY <1>s, <3>1, <3>2
  <2> QED
    BY <2>1, <2>2
<1>5. Mode(x) = "split" /\ child'[k].st # "none" =>
        /\ ~Early(x)' /\ child'[b].st \notin {"pending", "processing"}
        /\ child'[k].target = artifact'[x] /\ artifact'[x] \in Hosts /\ child'[k].host \in {Nowhere, artifact'[x]}
  <2> SUFFICES ASSUME Mode(x) = "split", child'[k].st # "none"
               PROVE  /\ ~Early(x)' /\ child'[b].st \notin {"pending", "processing"}
                      /\ child'[k].target = artifact'[x] /\ artifact'[x] \in Hosts
                      /\ child'[k].host \in {Nowhere, artifact'[x]}
    OBVIOUS
  <2>1. CASE Born(k)
    <3>1. /\ ctl[x].pc = "submit" /\ ctl[x].stage = "kernel"
          /\ child'[k].target = ctl[x].target /\ child'[k].host = Nowhere
      BY <2>1, BornAt DEF Stages
    <3>2. ~Early(x) /\ ctl[x].pc \notin {"commit", "over"}
      BY <3>1 DEF Early
    <3>3. child[b].st \notin {"pending", "processing"} /\ ctl[x].target = artifact[x] /\ artifact[x] \in Hosts
      BY <1>s, <3>1, <3>2
    <3>4. child'[b].st \notin {"pending", "processing"} /\ artifact'[x] = artifact[x]
      BY <3>1, <3>3, BuiltStays
    <3> QED
      BY <1>e, <3>1, <3>2, <3>3, <3>4
  <2>2. CASE child[k].st # "none"
    <3>1. /\ ~Early(x) /\ child[b].st \notin {"pending", "processing"}
          /\ child[k].target = artifact[x] /\ artifact[x] \in Hosts /\ child[k].host \in {Nowhere, artifact[x]}
      BY <1>s, <2>2
    <3>2. child'[b].st \notin {"pending", "processing"} /\ artifact'[x] = artifact[x]
      BY <3>1, BuiltStays DEF Early
    <3>3. child'[k].target = child[k].target /\ child'[k].host \in {Nowhere, artifact[x]}
      <4>1. CASE child'[k] = child[k]
        BY <3>1, <4>1
      <4>2. CASE Dropped(k)
        BY <1>a, <3>1, <4>2 DEF Dropped, Records
      <4>3. CASE Finished(k)
        BY <1>a, <3>1, <4>3 DEF Finished, Records
      <4>4. CASE Started(k)
        <5>1. PICK h \in Hosts : Start(k, h) /\ child'[k] = [child[k] EXCEPT !.st = "processing", !.host = h]
          BY <4>4 DEF Started
        <5>2. child[k].target \in {h, Nowhere}
          BY <5>1 DEF Start, MayRun, Matches
        <5>3. h = artifact[x]
          BY <3>1, <5>2, EvaluationAssumption
        <5> QED
          BY <1>a, <5>1, <5>3 DEF Records
      <4>5. ~Marked(k) /\ ~Written(k) /\ ~Again(k) /\ ~Born(k)
        BY <1>a, <2>2 DEF Marked, Written, Again, Born
      <4>6. ~Gone(k)
        BY DEF Gone, Absent
      <4> QED
        BY <1>a, <4>1, <4>2, <4>3, <4>4, <4>5, <4>6, ChildMoves
    <3> QED
      BY <1>e, <3>1, <3>2, <3>3
  <2>3. CASE child[k].st = "none" /\ ~Born(k)
    <3>1. child'[k] = child[k]
      BY <1>a, <2>3, ChildMoves DEF Dropped, Marked, Written, Again, Started, Finished, Gone
    <3> QED
      BY <2>3, <3>1
  <2> QED
    BY <2>1, <2>2, <2>3
<1> QED
  BY <1>1, <1>2, <1>3, <1>4, <1>5 DEF SplitOK, Mode, Ask, ChildId

-----------------------------------------------------------------------------
(* Tasks that wait.                                                        *)

\* Where a task that waits may be.
InQueue(c) == c \in cpu \cup gpu \cup lost
InHand(c)  == \E v \in Compilers : c = Task(v) \/ c \in worker[v].deferred

\* A step of a compile worker.
LEMMA HandStep ==
  ASSUME Inv, NEW v \in Compilers, Compiles(v), NEW c \in Children, child[c].st = "pending", child'[c] = child[c],
         Allowed(RunOf(c)),
         InQueue(c) \/ InHand(c)
  PROVE  (InQueue(c) \/ InHand(c))'
<1>a. /\ worker \in [Compilers -> Hands] /\ worker[v] \in Hands /\ WorkerOK(v)
      /\ ChildOK(c) /\ child \in [Children -> Records] /\ child[c] \in Records
      /\ NoTask \notin Children /\ c[1] \notin marked
  BY Base, NoTaskIsNoChild DEF Allowed, RunOf
<1> DEFINE Mine_(w) == c = w.task \/ c \in w.deferred
<1>h. ASSUME NEW q, worker' = [worker EXCEPT ![v] = q], Mine_(q)
      PROVE  InHand(c)'
  <2>1. worker'[v] = q
    BY <1>a, <1>h
  <2> QED
    BY <1>h, <2>1 DEF InHand, Task
<1>o. ASSUME NEW q, worker' = [worker EXCEPT ![v] = q], InHand(c), ~Mine_(worker[v])
      PROVE  InHand(c)'
  <2>1. PICK u \in Compilers : c = Task(u) \/ c \in worker[u].deferred
    BY <1>o DEF InHand
  <2>2. u # v
    BY <1>o, <2>1 DEF Task
  <2>3. worker'[u] = worker[u]
    BY <1>a, <1>o, <2>2
  <2> QED
    BY <2>1, <2>3 DEF InHand, Task
<1>1. CASE Scan(v)
  <2>1. PICK d \in cpu :
          /\ cpu' = cpu \ {d}
          /\ worker' = [worker EXCEPT ![v] =
               IF child[d].st # "pending" \/ d[1] \in marked THEN @
               ELSE IF Matches(d, HostOf[v]) THEN [worker[v] EXCEPT !.pc = "mark", !.task = d]
               ELSE [worker[v] EXCEPT !.deferred = @ \cup {d}]]
    BY <1>1 DEF Scan
  <2>2. PICK q : q = IF child[d].st # "pending" \/ d[1] \in marked THEN worker[v]
                     ELSE IF Matches(d, HostOf[v]) THEN [worker[v] EXCEPT !.pc = "mark", !.task = d]
                     ELSE [worker[v] EXCEPT !.deferred = @ \cup {d}]
    OBVIOUS
  <2>3. worker' = [worker EXCEPT ![v] = q]
    BY <1>a, <2>1, <2>2
  <2>4. worker[v].task = NoTask /\ UNCHANGED <<gpu, lost>>
    BY <1>1, <1>a DEF Scan, WorkerOK, Task
  <2>5. Mine_(worker[v]) => Mine_(q)
    BY <1>a, <2>2, <2>4 DEF Hands
  <2>6. c = d => Mine_(q)
    BY <1>a, <2>2 DEF Hands
  <2>7. InHand(c) => InHand(c)'
    BY <1>h, <1>o, <2>3, <2>5
  <2>8. InQueue(c) => (InQueue(c) \/ InHand(c))'
    BY <1>h, <2>1, <2>3, <2>4, <2>6 DEF InQueue
  <2> QED
    BY <2>7, <2>8
<1>2. CASE Mark(v)
  <2>1. UNCHANGED <<cpu, gpu, lost>>
    BY <1>2 DEF Mark
  <2>2. CASE child[Task(v)].st = "pending" /\ Allowed(RunOf(Task(v)))
    <3>1. PICK q : q = Leave(worker[v])
      OBVIOUS
    <3>2. worker' = [worker EXCEPT ![v] = q] /\ child' = [child EXCEPT ![Task(v)].st = "processing", ![Task(v)].host = HostOf[v]]
      BY <1>a, <1>2, <2>2, <3>1 DEF Mark
    <3>3. q.task = worker[v].task /\ q.deferred = worker[v].deferred
      BY <1>a, <3>1 DEF Leave, Hands
    <3> QED
      BY <1>h, <1>o, <2>1, <3>2, <3>3 DEF InQueue
  <2>3. CASE ~(child[Task(v)].st = "pending" /\ Allowed(RunOf(Task(v))))
    <3>1. PICK q : q = [worker[v] EXCEPT !.pc = "idle", !.task = NoTask]
      OBVIOUS
    <3>2. worker' = [worker EXCEPT ![v] = q]
      BY <1>a, <1>2, <2>3, <3>1 DEF Mark
    <3>3. c # Task(v)
      BY <2>3
    <3>4. Mine_(worker[v]) => Mine_(q)
      BY <1>a, <3>1, <3>3 DEF Hands, Task
    <3> QED
      BY <1>h, <1>o, <2>1, <3>2, <3>4 DEF InQueue
  <2> QED
    BY <2>2, <2>3
<1>3. CASE ScanEnds(v)
  <2>1. PICK q : q = [worker[v] EXCEPT !.pc = "push"]
    OBVIOUS
  <2>2. worker' = [worker EXCEPT ![v] = q] /\ UNCHANGED <<cpu, gpu, lost>>
    BY <1>3, <2>1 DEF ScanEnds, Store
  <2>3. q.task = worker[v].task /\ q.deferred = worker[v].deferred
    BY <1>a, <2>1 DEF Hands
  <2> QED
    BY <1>h, <1>o, <2>2, <2>3 DEF InQueue
<1>4. CASE PushBack(v)
  <2>1. PICK d \in worker[v].deferred :
             /\ cpu' = cpu \cup {d}
             /\ worker' = [worker EXCEPT ![v].deferred = @ \ {d},
                                         ![v].pc = IF worker[v].deferred # {d} THEN "push"
                                                   ELSE IF Task(v) = NoTask THEN "idle" ELSE "run"]
    BY <1>4 DEF PushBack
  <2>2. PICK q : q = [worker[v] EXCEPT !.deferred = @ \ {d},
                                       !.pc = IF worker[v].deferred # {d} THEN "push"
                                              ELSE IF Task(v) = NoTask THEN "idle" ELSE "run"]
    OBVIOUS
  <2>3. worker' = [worker EXCEPT ![v] = q] /\ UNCHANGED <<gpu, lost>>
    BY <1>a, <1>4, <2>1, <2>2 DEF PushBack
  <2>4. Mine_(worker[v]) => Mine_(q) \/ c = d
    BY <1>a, <2>2 DEF Hands
  <2>5. c = d => InQueue(c)'
    BY <2>1 DEF InQueue
  <2>6. InHand(c) => (InQueue(c) \/ InHand(c))'
    BY <1>h, <1>o, <2>3, <2>4, <2>5
  <2>7. InQueue(c) => InQueue(c)'
    BY <2>1, <2>3 DEF InQueue
  <2> QED
    BY <2>6, <2>7
<1>5. CASE Compile(v)
  <2>1. PICK q : worker' = [worker EXCEPT ![v] = q]
    BY <1>a, <1>5 DEF Compile
  <2>2. worker[v].deferred = {} /\ child[Task(v)].st = "processing" /\ UNCHANGED <<cpu, gpu, lost>>
    BY <1>a, <1>5 DEF Compile, WorkerOK, Works
  <2>3. ~Mine_(worker[v])
    BY <2>2 DEF Task
  <2> QED
    BY <1>o, <2>1, <2>2, <2>3 DEF InQueue
<1>r. CASE Recompile(v)
  <2>1. worker' = [worker EXCEPT ![v] = Resting] /\ UNCHANGED <<cpu, gpu, lost>>
    BY <1>r DEF Recompile
  <2>2. worker[v].deferred = {} /\ Task(v) \in unsure
    BY <1>a, <1>r DEF Recompile, WorkerOK
  <2>3. c \notin unsure
    BY Base DEF EndOK
  <2>4. ~Mine_(worker[v])
    BY <2>2, <2>3 DEF Task
  <2> QED
    BY <1>o, <2>1, <2>4 DEF InQueue
<1>6. CASE CpuEnds(v)
  <2>1. /\ worker' = [worker EXCEPT ![v] = Resting] /\ UNCHANGED <<cpu, gpu>>
        /\ lost' = lost \cup worker[v].deferred \cup ({Task(v)} \ {NoTask})
    BY <1>6 DEF CpuEnds, Store
  <2>2. Mine_(worker[v]) => InQueue(c)'
    BY <1>a, <2>1 DEF InQueue, Task
  <2> QED
    BY <1>o, <2>1, <2>2 DEF InQueue
<1> QED
  BY <1>1, <1>2, <1>3, <1>4, <1>5, <1>r, <1>6 DEF Compiles

\* A guard that a step finds closed stays closed for the generation.
LEMMA AllowedBefore ==
  ASSUME Inv, Next, NEW c \in Children, child[c].st = "pending", Allowed(RunOf(c))'
  PROVE  Allowed(RunOf(c))
<1>a. Active(RunOf(c)) /\ RunOf(c)[1] = c[1] /\ RunOf(c)' = RunOf(c)
  BY Base DEF ChildOK, RunOf
<1>1. ASSUME NEW r \in Requests, Accept(r)
      PROVE  Allowed(RunOf(c))
  BY <1>a, <1>1 DEF Accept, Allowed, Active
<1>2. CASE lease' \subseteq lease /\ marked \subseteq marked'
  BY <1>a, <1>2 DEF Allowed
<1> QED
  BY <1>1, <1>2
     DEF Next, Controls, Compiles, Lapse, Cancel, Fail, Closes, Begin, Select, Submit, Withdraw, Compiled, Judged, Refer,
         Timed, Combine, Commit, Scan, Mark, ScanEnds, PushBack, Compile, Recompile, CpuEnds, Start, Skip, End, DiscardRead,
         Discard, ServerEnds, Parent

LEMMA WaitStep ==
  ASSUME Inv, Next, NEW c \in Children, child'[c].st = "pending", Allowed(RunOf(c))'
  PROVE  (InQueue(c) \/ InHand(c))'
<1>a. /\ ChildOK(c) /\ child \in [Children -> Records] /\ child[c] \in Records
      /\ RunOf(c) \in AllRuns
  BY Base, NameFacts
<1>1. CASE Born(c)
  <2>1. PICK x \in AllRuns : Submit(x) /\ c = Mine(x) /\ child[c].st = "none"
    BY <1>1 DEF Born
  <2> QED
    BY <2>1 DEF Submit, InQueue
<1>2. child'[c] = child[c] \/ Born(c)
  <2>1. ~Dropped(c) /\ ~Marked(c)
    BY <1>a DEF Dropped, Marked, Records
  <2>2. ~Written(c) /\ ~Again(c) /\ ~Started(c)
    BY <1>a DEF Written, Again, Started, Records
  <2>3. ~Finished(c)
    BY <1>a DEF Finished, Records
  <2>4. ~Gone(c)
    BY DEF Gone, Absent
  <2> QED
    BY <2>1, <2>2, <2>3, <2>4, ChildMoves
<1>3. CASE child'[c] = child[c]
  <2>1. child[c].st = "pending"
    BY <1>3
  <2>a. Allowed(RunOf(c))
    BY <2>1, AllowedBefore
  <2>2. InQueue(c) \/ InHand(c)
    BY <2>1, <2>a DEF Inv, OnlyTheDeadLoseTasks, InQueue, InHand
  <2>3. ASSUME NEW v \in Compilers, Compiles(v)
        PROVE  (InQueue(c) \/ InHand(c))'
    BY <1>3, <2>1, <2>2, <2>a, <2>3, HandStep
  <2>h. UNCHANGED worker => (InHand(c) <=> InHand(c)')
    BY DEF InHand, Task
  <2>4. ASSUME NEW x, EndsChildren(x), UNCHANGED Fleet
        PROVE  (InQueue(c) \/ InHand(c))'
    <3>1. child'[c] = IF c \in Ended(x) THEN [child[c] EXCEPT !.st = "dropped"] ELSE child[c]
      BY <2>4 DEF EndsChildren
    <3>2. RunOf(c) # x
      BY <1>a, <1>3, <2>1, <3>1 DEF Ended, Records
    <3>3. (c \in cpu => c \in cpu') /\ (c \in gpu => c \in gpu')
      BY <2>4, <3>2 DEF EndsChildren
    <3> QED
      BY <2>2, <2>4, <2>h, <3>3 DEF InQueue, Fleet
  <2>5. ASSUME NEW d \in Children, NEW h \in Hosts, Start(d, h)
        PROVE  (InQueue(c) \/ InHand(c))'
    <3>1. child' = [child EXCEPT ![d].st = "processing", ![d].host = h] /\ gpu' = gpu \ {d} /\ UNCHANGED <<cpu, Fleet>>
      BY <2>5 DEF Start
    <3>2. c # d
      BY <1>a, <1>3, <2>1, <3>1 DEF Records
    <3> QED
      BY <2>2, <2>h, <3>1, <3>2 DEF InQueue, Fleet
  <2>6. CASE UNCHANGED Fleet /\ cpu \subseteq cpu' /\ gpu \subseteq gpu'
    BY <2>2, <2>6, <2>h DEF InQueue, Fleet
  <2>7. ASSUME NEW x \in AllRuns, Submit(x)
        PROVE  (InQueue(c) \/ InHand(c))'
    BY <2>6, <2>7 DEF Submit
  <2>8. ASSUME NEW r \in Requests, Fail(r) \/ (\E x \in AllRuns : Commit(x))
        PROVE  (InQueue(c) \/ InHand(c))'
    BY <2>4, <2>8 DEF Fail, Commit
  <2>9. ASSUME NEW d \in Children, Skip(d)
        PROVE  (InQueue(c) \/ InHand(c))'
    BY <2>2, <2>a, <2>h, <2>9 DEF Skip, InQueue, Fleet
  <2>w. ASSUME NEW x \in AllRuns, Withdraw(x)
        PROVE  (InQueue(c) \/ InHand(c))'
    <3>1. c # Mine(x)
      <4>1. c = Mine(x) => child'[c] = [child[c] EXCEPT !.st = "dropped"]
        BY <1>a, <2>1, <2>w DEF Withdraw
      <4> QED
        BY <1>a, <1>3, <2>1, <4>1 DEF Records
    <3>2. cpu' = cpu \ {Mine(x)} /\ gpu' = gpu \ {Mine(x)} /\ UNCHANGED Fleet
      BY <2>w DEF Withdraw
    <3> QED
      BY <2>2, <2>h, <3>1, <3>2 DEF InQueue, Fleet
  <2> QED
    BY <2>3, <2>4, <2>5, <2>6, <2>7, <2>8, <2>9, <2>w
       DEF Next, Controls, Commit, Accept, Lapse, Cancel, Begin, Select, Compiled, Judged, Refer, Timed, Combine, End,
           DiscardRead, Discard, ServerEnds, Store
<1> QED
  BY <1>1, <1>2, <1>3

-----------------------------------------------------------------------------
(* The theorems.                                                           *)

LEMMA InvInit == Init => Inv
<1> SUFFICES ASSUME Init
             PROVE  Inv
  OBVIOUS
<1>1. TypeOK
  <2>1. memory \in [Servers -> Entries \cup {NoEntry}] /\ redis \in Entries \cup {NoEntry}
    BY Blanks DEF Init
  <2>2. ctl \in [AllRuns -> Controllers] /\ child \in [Children -> Records] /\ worker \in [Compilers -> Hands]
    BY Blanks DEF Init
  <2>3. faults \in 0..MaxFaults
    BY EvaluationAssumption DEF Init
  <2> QED
    BY <2>1, <2>2, <2>3, TypeParts DEF Init, Sites
<1>2. /\ \A x \in AllRuns : ctl[x] = Unborn
      /\ \A c \in Children : child[c] = Absent
      /\ \A v \in Compilers : worker[v] = Resting
      /\ \A r \in Requests : gen[r] = 0
      /\ cpu = {} /\ gpu = {}
      /\ redis = Preloaded /\ \A s \in Servers : memory[s] = Preloaded
  BY DEF Init
<1>3. ASSUME NEW x \in AllRuns
      PROVE  RunOK(x) /\ SplitOK(x)
  <2>1. "compile" \in Stages /\ "kernel" \in Stages
    BY DEF Stages
  <2>2. child[ChildId(x, "compile")] = Absent /\ child[ChildId(x, "kernel")] = Absent
    BY <1>2, <2>1, ChildFacts
  <2> QED
    BY <1>2, <2>2 DEF RunOK, SplitOK, Unborn, Absent, Early
<1>4. ASSUME NEW c \in Children
      PROVE  ChildOK(c) /\ EndOK(c)
  <2>1. child[c] = Absent /\ c \notin cpu \cup gpu \cup doomed \cup unsure
    BY <1>2 DEF Init
  <2>2. Absent.st = "none" /\ Absent.out = "none"
    BY DEF Absent
  <2> QED
    BY <2>1, <2>2 DEF ChildOK, EndOK
<1>5. \A v \in Compilers : WorkerOK(v) /\ ~Works(v)
  BY <1>2 DEF WorkerOK, Works, Holds, Task, Resting
<1>6. OnlyTheDeadLoseTasks
  BY <1>2 DEF OnlyTheDeadLoseTasks, Absent
<1> QED
  BY <1>1, <1>2, <1>3, <1>4, <1>5, <1>6, Blanks DEF Inv, Alone

LEMMA InvStep == Inv /\ [Next]_vars => Inv'
<1> SUFFICES ASSUME Inv, [Next]_vars
             PROVE  Inv'
  OBVIOUS
<1>1. CASE Next
  <2>1. \A x \in AllRuns : RunOK(x)' /\ SplitOK(x)'
    BY <1>1, RunStep, SplitStep
  <2>2. \A c \in Children : ChildOK(c)' /\ EndOK(c)'
    BY <1>1, ChildStep, EndStep
  <2>3. \A v \in Compilers : WorkerOK(v)'
    BY <1>1, WorkerStep
  <2>4. OnlyTheDeadLoseTasks'
    BY <1>1, WaitStep DEF OnlyTheDeadLoseTasks, InQueue, InHand
  <2>5. EntryOK(redis)' /\ \A s \in Servers : EntryOK(memory[s])'
    BY <1>1, EntryStep DEF EntryOK
  <2> QED
    BY <1>1, <2>1, <2>2, <2>3, <2>4, <2>5, TypeStep, AloneStep DEF Inv
<1>2. CASE UNCHANGED vars
  BY <1>2 DEF vars, Inv, TypeOK, RunOK, SplitOK, ChildOK, EndOK, Past, WorkerOK, Works, Alone, EntryOK,
              OnlyTheDeadLoseTasks, Active, Allowed, Ask, Mode, RunOf, Holds, Task, Early, ChildId
<1> QED
  BY <1>1, <1>2

LEMMA InvAlways == Spec => []Inv
BY InvInit, InvStep, PTL DEF Spec

\* The values of the records, queues, hands and cached entries stay what the code
\* writes there: a task is a child that was submitted, an entry names a code.
THEOREM EvaluationTypes == Spec => []TypeOK
<1>1. Inv => TypeOK
  BY DEF Inv
<1> QED
  BY <1>1, InvAlways, PTL

\* _select_split_target_gpu, the scan of the compile workers and get_next_task of the
\* GPU workers bring a split kernel to the host of its own generation's artifact.
THEOREM KernelFollowsArtifact == Spec => []ArtifactIsLocal
<1>1. ASSUME Inv
      PROVE  ArtifactIsLocal
  <2> SUFFICES ASSUME NEW x \in AllRuns, Mode(x) = "split", child[ChildId(x, "kernel")].host # Nowhere
               PROVE  child[ChildId(x, "kernel")].host = artifact[x]
    BY DEF ArtifactIsLocal
  <2>1. ChildId(x, "kernel") \in Children /\ SplitOK(x)
    BY <1>1, SplitParts
  <2>2. child[ChildId(x, "kernel")].st # "none"
    BY <1>1, <2>1, Base DEF ChildOK, Absent
  <2> QED
    BY <2>1, <2>2 DEF SplitOK
<1> QED
  BY <1>1, InvAlways, PTL

\* What the reference cache of any server, the shared entry or the timing of the
\* reference hands to a controller is of the request's own reference code.
THEOREM ReferenceStaysOwn == Spec => []ReferenceIsOwn
<1>1. Inv => ReferenceIsOwn
  BY Base DEF ReferenceIsOwn, RunOK
<1> QED
  BY <1>1, InvAlways, PTL

\* The ids that TaskManagerScheduler.submit builds keep the answers of one
\* generation of a parent from the controller of another.
THEOREM AnswersStayApart == Spec => []AnswerIsOfGeneration
<1>1. Inv => AnswerIsOfGeneration
  BY Base DEF AnswerIsOfGeneration, RunOK
<1> QED
  BY <1>1, InvAlways, PTL

\* A compile task that get_next_task popped and whose parent is allowed still is in the
\* hands of its worker until it is marked, given back or lost with that worker; the
\* drops of _dequeued_task_cancelled and of a refused mark are of parents that are not.
THEOREM WaitingTasksAreKept == Spec => []OnlyTheDeadLoseTasks
<1>1. Inv => OnlyTheDeadLoseTasks
  BY DEF Inv
<1> QED
  BY <1>1, InvAlways, PTL

\* discard_task_records never deletes a record that a compile worker still has to
\* complete, so that complete_task makes a record of nothing only when it is called
\* for the second time, after a first call that was written and lost its reply.
THEOREM RecordsStayWhole == Spec => []NothingIsResurrected
<1>1. Inv => NothingIsResurrected
  BY Base DEF NothingIsResurrected, ChildOK
<1> QED
  BY <1>1, InvAlways, PTL
===========================================================================
