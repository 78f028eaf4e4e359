---------------------------- MODULE Evaluation ----------------------------
(***************************************************************************)
(* KernelBench evaluations over the CPU compile workers and the GPU        *)
(* workers of several hosts, with the reference cache of each API server.  *)
(*                                                                         *)
(* A generation of a request runs one controller.  The controller submits  *)
(* children, one at a time: a compilation, the kernel, its reference.      *)
(* What a parent promises is WorkflowLifecycle, what a GPU claim promises  *)
(* is TaskClaims; here a parent is open until its finish, which comes when *)
(* its lease, its deadline or a cancellation has closed the guard of its   *)
(* children long before, and a GPU runs a child from beginning to end.     *)
(***************************************************************************)
EXTENDS Naturals, Sequences

CONSTANTS
  Requests,   \* parent ids, all about one problem (uuid and dataset split)
  Plan,       \* what each generation of a request asks for
  Codes,      \* reference codes met under that problem
  Servers,    \* API server processes
  ServerOf,   \* the server that owns a generation's controller
  Hosts,      \* each with a GPU worker
  Compilers,  \* CPU compile workers
  HostOf,
  Probes,     \* requests of the service's own, whose records it cleans
  Dataset,    \* the code of the entry a server preloads, or Unnamed
  Unnamed,    \* no code
  MaxFaults   \* ends of workers and servers, replies lost, lapses and cancellations

Modes == {"split", "direct", "compile"}
Nowhere == "nowhere"   \* no host

ASSUME EvaluationAssumption ==
  /\ Plan \in [Requests -> Seq([mode : Modes, code : Codes, cached : BOOLEAN])]
  /\ Probes \subseteq Requests /\ ServerOf \in [Requests -> Servers]
  /\ HostOf \in [Compilers -> Hosts] /\ Nowhere \notin Hosts
  /\ Unnamed \notin Codes /\ Dataset \in Codes \cup {Unnamed}
  /\ MaxFaults \in Nat

Gens(r) == DOMAIN Plan[r]
Runs == {<<r, g>> : r \in Requests, g \in UNION {Gens(r) : r \in Requests}}
AllRuns == {x \in Runs : x[2] \in Gens(x[1])}
Stages == {"compile", "kernel", "ref"}
Children == {<<x[1], s, x[2]>> : x \in AllRuns, s \in Stages}

VARIABLES
  gen,       \* the generation of each parent, 0 before the first
  open,      \* parents that are pending or processing
  lease,     \* those of them whose owner's lease holds and whose deadline is ahead
  marked,    \* parents with a durable marker of cancellation
  ctl,       \* the controller of each generation
  child,     \* child task records
  cpu,       \* the CPU queue
  gpu,       \* the GPU queue
  worker,    \* CPU compile workers: the task and the deferred tasks in their hands
  memory,    \* each server's cached entry
  redis,     \* the shared one
  doomed,    \* records a cleanup has read and will delete
  faults,
  lost,      \* tasks that were in the hands of a worker that ended
  unsure,    \* tasks whose completion was written and its reply lost (for the properties)
  artifact   \* the host that holds what a generation compiled

vars == <<gen, open, lease, marked, ctl, child, cpu, gpu, worker, memory, redis, doomed, faults, lost, unsure, artifact>>

\* An entry carries the hash of a code; of is the code that was really timed.
Entries == [hash : Codes, of : Codes]
NoEntry == [hash |-> Unnamed, of |-> Unnamed]
NoTask == <<"none">>
Outcomes == {"none", "good", "bad"}
Absent == [st |-> "none", target |-> Nowhere, host |-> Nowhere, out |-> "none", by |-> 0, data |-> FALSE]
Records == [st : {"none", "pending", "processing", "done", "dropped"}, target : Hosts \cup {Nowhere},
            host : Hosts \cup {Nowhere}, out : Outcomes, by : Nat, data : BOOLEAN]
Unborn == [pc |-> "unborn", stage |-> "compile", target |-> Nowhere, need |-> TRUE, took |-> 0, ref |-> Unnamed]
Over == [Unborn EXCEPT !.pc = "over"]
Resting == [pc |-> "idle", task |-> NoTask, deferred |-> {}]
Preloaded == IF Dataset = Unnamed THEN NoEntry ELSE [hash |-> Dataset, of |-> Dataset]

TypeOK ==
  /\ gen \in [Requests -> Nat] /\ open \subseteq Requests /\ lease \subseteq Requests /\ marked \subseteq Requests
  /\ ctl \in [AllRuns -> [pc : {"unborn", "start", "select", "submit", "wait", "refer", "combine", "commit", "over"},
                          stage : Stages, target : Hosts \cup {Nowhere}, need : BOOLEAN,
                          took : Nat, ref : Codes \cup {Unnamed}]]
  /\ child \in [Children -> Records]
  /\ cpu \subseteq Children /\ gpu \subseteq Children
  /\ worker \in [Compilers -> [pc : {"idle", "mark", "run", "push", "again"}, task : Children \cup {NoTask},
                               deferred : SUBSET Children]]
  /\ memory \in [Servers -> Entries \cup {NoEntry}] /\ redis \in Entries \cup {NoEntry}
  /\ doomed \subseteq Children /\ faults \in 0..MaxFaults
  /\ lost \subseteq Children /\ unsure \subseteq Children
  /\ artifact \in [AllRuns -> Hosts \cup {Nowhere}]

Init ==
  /\ gen = [r \in Requests |-> 0] /\ open = {} /\ lease = {} /\ marked = {}
  /\ ctl = [x \in AllRuns |-> Unborn]
  /\ child = [c \in Children |-> Absent]
  /\ cpu = {} /\ gpu = {}
  /\ worker = [v \in Compilers |-> Resting]
  /\ memory = [s \in Servers |-> Preloaded] /\ redis = Preloaded
  /\ doomed = {} /\ faults = 0 /\ lost = {} /\ unsure = {}
  /\ artifact = [x \in AllRuns |-> Nowhere]

---------------------------------------------------------------------------
(* Names and guards. *)

Active(x) == x[1] \in open /\ gen[x[1]] = x[2]

\* WORKFLOW_GUARD_LUA, which every script that lets a child in or out asks.
Allowed(x) == Active(x) /\ x[1] \in lease \ marked
Ask(x) == Plan[x[1]][x[2]]
Mode(x) == Ask(x).mode
RunOf(c) == <<c[1], c[3]>>

\* Fault: every generation of a parent shares its children's ids.
ChildId_Unscoped(x, s) == <<x[1], s, 1>>

\* TaskManagerScheduler.submit: the id of a child names its generation.
ChildId(x, s) == <<x[1], s, x[2]>>

Mine(x) == ChildId(x, ctl[x].stage)
At(x, pc) == ctl[x].pc = pc
Goes(x, pc) == ctl' = [ctl EXCEPT ![x].pc = pc]
Asks(x, stage, host) == ctl' = [ctl EXCEPT ![x].pc = "submit", ![x].stage = stage, ![x].target = host]
Fault == faults < MaxFaults /\ faults' = faults + 1

Terminal(c) == child[c].st \in {"done", "dropped"}

Parent == <<gen, open, lease, marked>>
Fleet == <<worker, lost, unsure, artifact>>
Caches == <<memory, redis>>
Store == <<child, cpu, gpu, doomed>>

---------------------------------------------------------------------------
(* The reference cache: the memory of the server, then Redis, which is kept in  *)
(* memory whatever it says.                                                     *)

Entry(s) == IF memory[s] # NoEntry THEN memory[s] ELSE redis
\* Fault: the problem alone decides.
Compatible_Uuid(e, code) == e # NoEntry
\* A dataset entry that names no code would fit any; here they name theirs.
Compatible(e, code) == e # NoEntry /\ e.hash = code
Hit(x) == Compatible(Entry(ServerOf[x[1]]), Ask(x).code)
Reads(x) == memory' = [memory EXCEPT ![ServerOf[x[1]]] = Entry(ServerOf[x[1]])]
Puts(x, of) ==
  LET e == [hash |-> Ask(x).code, of |-> of]
  IN memory' = [memory EXCEPT ![ServerOf[x[1]]] = e] /\ redis' = e

---------------------------------------------------------------------------
(* The parent. *)

\* A request, or a forced refresh of one whose last generation is over; a request
\* that was cancelled is refused.
Accept(r) ==
  /\ r \notin open \cup marked /\ gen[r] + 1 \in Gens(r)
  /\ gen' = [gen EXCEPT ![r] = @ + 1] /\ open' = open \cup {r} /\ lease' = lease \cup {r}
  /\ ctl' = [ctl EXCEPT ![<<r, gen[r] + 1>>].pc = "start"]
  /\ UNCHANGED <<marked, Store, Fleet, Caches, faults>>

\* The lease runs out, or the deadline has come: nobody has to do or to know
\* anything for it.
Lapse(r) ==
  /\ r \in lease /\ Fault /\ lease' = lease \ {r}
  /\ UNCHANGED <<gen, open, marked, ctl, Store, Fleet, Caches>>

\* CANCEL_TASK_LUA: the marker stays, and a parent is finished by a later call.
Cancel(r) ==
  /\ r \notin marked /\ Fault /\ marked' = marked \cup {r}
  /\ UNCHANGED <<gen, open, lease, ctl, Store, Fleet, Caches>>

\* _FINISH: children that wait, in a queue or in the hands of a worker, are ended.
Ended(x) == {c \in Children : RunOf(c) = x /\ child[c].st = "pending"}
EndsChildren(x) ==
  /\ child' = [c \in Children |-> IF c \in Ended(x) THEN [child[c] EXCEPT !.st = "dropped"] ELSE child[c]]
  /\ cpu' = cpu \ {c \in Children : RunOf(c) = x}
  /\ gpu' = gpu \ {c \in Children : RunOf(c) = x}

Closes(r) == open' = open \ {r} /\ lease' = lease \ {r}

\* A finish with a reason: of a reconciliation that finds the lease, the deadline,
\* a marker, a frozen child or a GPU under a latch; of the canceller; of an owner
\* whose controller has raised or is shut down.  The controller is refused all it
\* asks for from now on; what it has in hand it may still combine.
Fail(r) ==
  /\ r \in open /\ Closes(r)
  /\ EndsChildren(<<r, gen[r]>>)
  /\ ctl' = [ctl EXCEPT ![<<r, gen[r]>>] = IF @.pc = "combine" THEN @ ELSE Over]
  /\ UNCHANGED <<gen, marked, doomed, Fleet, Caches, faults>>

---------------------------------------------------------------------------
(* KernelBenchWorkflowController.handle_request. *)

\* _create_paired_tasks decides whether the reference has to be timed.
Begin(x) ==
  /\ At(x, "start")
  /\ IF Ask(x).cached THEN Reads(x) ELSE UNCHANGED memory
  /\ ctl' = [ctl EXCEPT ![x].need = ~(Ask(x).cached /\ Hit(x)),
                        ![x].pc = IF Mode(x) = "split" THEN "select" ELSE "submit",
                        ![x].stage = IF Mode(x) = "direct" THEN "kernel" ELSE "compile"]
  /\ UNCHANGED <<Parent, Store, Fleet, redis, faults>>

\* _select_split_target_gpu, over the hosts whose GPU worker has a fresh heartbeat
\* and an open admission, as any may have or not have: an idle one, any of them by
\* the hash of the task id, or no evaluation.
Busy(h) == \E c \in Children : c[2] # "compile" /\ child[c].st = "processing" /\ child[c].host = h
Choices(fresh) ==
  LET idle == {h \in fresh : ~Busy(h)} IN IF idle # {} THEN idle ELSE fresh
Select(x) ==
  /\ At(x, "select")
  /\ \E fresh \in SUBSET Hosts :
       \/ fresh = {} /\ Goes(x, "commit")
       \/ \E h \in Choices(fresh) : Asks(x, "compile", h)
  /\ UNCHANGED <<Parent, Store, Fleet, Caches, faults>>

\* A child that exists already is joined; a parent that is not allowed gets none.
Submit(x) ==
  /\ At(x, "submit") /\ Allowed(x)
  /\ LET c == Mine(x) IN
       IF child[c].st # "none" THEN UNCHANGED <<child, cpu, gpu>>
       ELSE /\ child' = [child EXCEPT ![c] = [Absent EXCEPT !.st = "pending", !.target = ctl[x].target,
                                                            !.by = x[2], !.data = TRUE]]
            /\ cpu' = IF c[2] = "compile" THEN cpu \cup {c} ELSE cpu
            /\ gpu' = IF c[2] = "compile" THEN gpu ELSE gpu \cup {c}
  /\ Goes(x, "wait")
  /\ UNCHANGED <<Parent, doomed, Fleet, Caches, faults>>

\* wait_unless_cancelled, which has found the parent open and meets the lapse or the
\* marker a call later: the child is cancelled by its own id.
Withdraw(x) ==
  /\ At(x, "wait") /\ ~Allowed(x)
  /\ LET c == Mine(x) IN
       /\ child' = IF child[c].st = "pending" THEN [child EXCEPT ![c].st = "dropped"] ELSE child
       /\ cpu' = cpu \ {c} /\ gpu' = gpu \ {c}
  /\ Goes(x, "commit")
  /\ UNCHANGED <<Parent, doomed, Fleet, Caches, faults>>

\* The execution follows the artifact.
Compiled(x) ==
  /\ At(x, "wait") /\ ctl[x].stage = "compile" /\ Terminal(Mine(x))
  /\ LET c == child[Mine(x)]
         on == Mode(x) = "split" /\ c.out = "good"
     IN ctl' = [ctl EXCEPT ![x].took = c.by,
                           ![x].pc = IF on THEN "submit" ELSE "commit",
                           ![x].stage = IF on THEN "kernel" ELSE "compile",
                           ![x].target = IF on THEN c.host ELSE @]
  /\ UNCHANGED <<Parent, Store, Fleet, Caches, faults>>

\* A kernel that is right is compared with its reference, unless _is_cancelled says
\* now that the request is.
Judged(x) ==
  /\ At(x, "wait") /\ ctl[x].stage = "kernel" /\ Terminal(Mine(x))
  /\ ctl' = [ctl EXCEPT ![x].pc = IF child[Mine(x)].out = "good" /\ Allowed(x)
                                     THEN "refer" ELSE "commit",
                        ![x].took = child[Mine(x)].by]
  /\ UNCHANGED <<Parent, Store, Fleet, Caches, faults>>

\* What the cache said at the beginning may not hold any more.
Refer(x) ==
  /\ At(x, "refer")
  /\ IF ctl[x].need
     THEN Asks(x, "ref", Nowhere) /\ UNCHANGED memory
     ELSE /\ Reads(x)
          /\ IF Hit(x)
             THEN ctl' = [ctl EXCEPT ![x].pc = "combine", ![x].ref = Entry(ServerOf[x[1]]).of]
             ELSE Asks(x, "ref", Nowhere)
  /\ UNCHANGED <<Parent, Store, Fleet, redis, faults>>

Timed(x) ==
  /\ At(x, "wait") /\ ctl[x].stage = "ref" /\ Terminal(Mine(x))
  /\ LET c == child[Mine(x)]
         good == c.out = "good" /\ Allowed(x)
     IN ctl' = [ctl EXCEPT ![x].took = c.by,
                           ![x].pc = IF good THEN "combine" ELSE "commit",
                           ![x].ref = IF good THEN Plan[x[1]][c.by].code ELSE @]
  /\ UNCHANGED <<Parent, Store, Fleet, Caches, faults>>

\* Also a timing that came from the cache is put there again.
Combine(x) ==
  /\ At(x, "combine")
  /\ IF Ask(x).cached THEN Puts(x, ctl[x].ref) ELSE UNCHANGED Caches
  /\ IF Active(x) THEN Goes(x, "commit") ELSE ctl' = [ctl EXCEPT ![x] = Over]
  /\ UNCHANGED <<Parent, Store, Fleet, faults>>

Commit(x) ==
  /\ At(x, "commit")
  /\ ctl' = [ctl EXCEPT ![x] = Over]
  /\ Closes(x[1])
  /\ EndsChildren(x)
  /\ UNCHANGED <<gen, marked, doomed, Fleet, Caches, faults>>

---------------------------------------------------------------------------
(* A CPU compile worker: get_next_task pops, looks, defers what is for another     *)
(* node, and marks; what it deferred goes back to the queue when it leaves the     *)
(* scan, with a task or without.                                                   *)

Matches(c, h) == child[c].target \in {h, Nowhere}
Holds(v, pc) == worker[v].pc = pc
Task(v) == worker[v].task

\* What is read here decides between dropping a task, deferring it and keeping it;
\* that it still waits is decided again by the mark.
Scan(v) ==
  /\ Holds(v, "idle")
  /\ \E c \in cpu :
       /\ cpu' = cpu \ {c}
       /\ worker' = [worker EXCEPT ![v] =
            IF child[c].st # "pending" \/ c[1] \in marked THEN @
            ELSE IF Matches(c, HostOf[v]) THEN [worker[v] EXCEPT !.pc = "mark", !.task = c]
            ELSE [worker[v] EXCEPT !.deferred = @ \cup {c}]]
  /\ UNCHANGED <<Parent, ctl, child, gpu, doomed, lost, unsure, artifact, Caches, faults>>

\* Fault: the worker leaves with its task and forgets what it deferred.
Leave_Laden(w) == [w EXCEPT !.pc = "run", !.deferred = {}]
Leave(w) == [w EXCEPT !.pc = IF w.deferred = {} THEN "run" ELSE "push"]

\* _MARK_WORKFLOW_CPU_PROCESSING_LUA.  A task it refuses is dropped as it is, which
\* is pending when the parent is open still but not allowed any more.
Mark(v) ==
  /\ Holds(v, "mark")
  /\ LET c == Task(v) IN
       IF child[c].st = "pending" /\ Allowed(RunOf(c))
       THEN /\ child' = [child EXCEPT ![c].st = "processing", ![c].host = HostOf[v]]
            /\ worker' = [worker EXCEPT ![v] = Leave(@)]
       ELSE /\ worker' = [worker EXCEPT ![v].pc = "idle", ![v].task = NoTask]
            /\ UNCHANGED child
  /\ UNCHANGED <<Parent, ctl, cpu, gpu, doomed, lost, unsure, artifact, Caches, faults>>

\* The queue is empty, or the scan has reached its limit.
ScanEnds(v) ==
  /\ Holds(v, "idle") /\ worker[v].deferred # {}
  /\ worker' = [worker EXCEPT ![v].pc = "push"]
  /\ UNCHANGED <<Parent, ctl, Store, lost, unsure, artifact, Caches, faults>>

PushBack(v) ==
  /\ Holds(v, "push")
  /\ \E c \in worker[v].deferred :
       /\ cpu' = cpu \cup {c}
       /\ worker' = [worker EXCEPT ![v].deferred = @ \ {c},
                                   ![v].pc = IF worker[v].deferred # {c} THEN "push"
                                             ELSE IF Task(v) = NoTask THEN "idle" ELSE "run"]
  /\ UNCHANGED <<Parent, ctl, child, gpu, doomed, lost, unsure, artifact, Caches, faults>>

\* complete_task has no claim to show, and writes whatever became of the record.
Writes(v, out) ==
  child' = [child EXCEPT ![Task(v)].st = "done", ![Task(v)].out = out, ![Task(v)].host = HostOf[v]]

\* It raises, and _process_task goes on to report that, when the reply is lost after
\* EXEC.
Compile(v) ==
  /\ Holds(v, "run")
  /\ \E out \in {"good", "bad"} :
       /\ Writes(v, out)
       /\ artifact' = [artifact EXCEPT ![RunOf(Task(v))] = IF out = "bad" THEN @ ELSE HostOf[v]]
  /\ \/ worker' = [worker EXCEPT ![v] = Resting] /\ UNCHANGED <<unsure, faults>>
     \/ worker' = [worker EXCEPT ![v].pc = "again"] /\ unsure' = unsure \cup {Task(v)} /\ Fault
  /\ UNCHANGED <<Parent, ctl, cpu, gpu, doomed, lost, Caches>>

\* The second complete_task, which has no more to show than the first.
Recompile(v) ==
  /\ Holds(v, "again") /\ Writes(v, "bad")
  /\ worker' = [worker EXCEPT ![v] = Resting]
  /\ UNCHANGED <<Parent, ctl, cpu, gpu, doomed, lost, unsure, artifact, Caches, faults>>

\* Killed, or ended by an error of Redis; the monitor starts another one.
CpuEnds(v) ==
  /\ worker[v] # Resting /\ Fault
  /\ lost' = lost \cup worker[v].deferred \cup ({Task(v)} \ {NoTask})
  /\ worker' = [worker EXCEPT ![v] = Resting]
  /\ UNCHANGED <<Parent, ctl, Store, unsure, artifact, Caches>>

---------------------------------------------------------------------------
(* GPU workers, as far as an evaluation sees them. *)

\* Fault: any GPU will do.
MayRun_Anywhere(c, h) == c \in gpu /\ ~Busy(h) /\ Allowed(RunOf(c))
MayRun(c, h) == c \in gpu /\ ~Busy(h) /\ Allowed(RunOf(c)) /\ Matches(c, h)
Start(c, h) ==
  /\ MayRun(c, h)
  /\ gpu' = gpu \ {c}
  /\ child' = [child EXCEPT ![c].st = "processing", ![c].host = h]
  /\ UNCHANGED <<Parent, ctl, cpu, doomed, Fleet, Caches, faults>>

\* A claim pops what it may not take, and looks further.
Skip(c) ==
  /\ c \in gpu /\ ~Allowed(RunOf(c)) /\ gpu' = gpu \ {c}
  /\ UNCHANGED <<Parent, ctl, child, cpu, doomed, Fleet, Caches, faults>>

End(c) ==
  /\ c[2] # "compile" /\ child[c].st = "processing"
  /\ \E out \in {"good", "bad"} : child' = [child EXCEPT ![c].st = "done", ![c].out = out]
  /\ UNCHANGED <<Parent, ctl, cpu, gpu, doomed, Fleet, Caches, faults>>

---------------------------------------------------------------------------
(* Cleanup of the records of a probe, after its answer, and the end of a server. *)

\* Fault: also a record that is being worked on.
Discardable_Any(c) == child[c].st # "none"
Discardable(c) == Terminal(c)

\* A speed test cleans up once it has the answer of its parent.
Probed(r) == r \in Probes \ open

\* discard_task_records reads a record and deletes it later, in a script that looks
\* again.
DiscardRead(c) ==
  /\ Probed(c[1]) /\ doomed \cap {d \in Children : d[1] = c[1]} = {} /\ Discardable(c)
  /\ doomed' = doomed \cup {c}
  /\ UNCHANGED <<Parent, ctl, child, cpu, gpu, Fleet, Caches, faults>>

Discard(c) ==
  /\ c \in doomed /\ doomed' = doomed \ {c}
  /\ child' = IF Discardable(c) THEN [child EXCEPT ![c] = Absent] ELSE child
  /\ UNCHANGED <<Parent, ctl, cpu, gpu, Fleet, Caches, faults>>

\* The controllers of a server end with it; the next one preloads its dataset.
ServerEnds(s) ==
  /\ Fault
  /\ ctl' = [x \in AllRuns |-> IF ServerOf[x[1]] = s /\ ctl[x].pc # "unborn"
                               THEN Over ELSE ctl[x]]
  /\ memory' = [memory EXCEPT ![s] = Preloaded]
  /\ redis' = IF Preloaded = NoEntry THEN redis ELSE Preloaded
  /\ UNCHANGED <<Parent, Store, Fleet>>

---------------------------------------------------------------------------

Controls(x) == \/ Begin(x) \/ Select(x) \/ Submit(x) \/ Withdraw(x) \/ Compiled(x) \/ Judged(x)
               \/ Refer(x) \/ Timed(x) \/ Combine(x) \/ Commit(x)
Compiles(v) == Scan(v) \/ Mark(v) \/ ScanEnds(v) \/ PushBack(v)
               \/ Compile(v) \/ Recompile(v) \/ CpuEnds(v)

Next == \/ \E r \in Requests : Accept(r) \/ Lapse(r) \/ Cancel(r) \/ Fail(r)
        \/ \E x \in AllRuns : Controls(x)
        \/ \E v \in Compilers : Compiles(v)
        \/ \E c \in Children : Skip(c) \/ End(c) \/ DiscardRead(c) \/ Discard(c) \/ (\E h \in Hosts : Start(c, h))
        \/ \E s \in Servers : ServerEnds(s)

Spec == Init /\ [][Next]_vars

---------------------------------------------------------------------------
\* A split kernel runs on the host that holds what its own generation compiled,
\* though target, compile worker and GPU worker are chosen at different times.
ArtifactIsLocal ==
  \A x \in AllRuns : LET c == ChildId(x, "kernel") IN
    Mode(x) = "split" /\ child[c].host # Nowhere => child[c].host = artifact[x]

\* A speedup is against a timing of the request's own reference, whatever other
\* requests of that problem left in Redis and in the memory of the servers.
ReferenceIsOwn ==
  \A x \in AllRuns : ctl[x].ref # Unnamed => ctl[x].ref = Ask(x).code

\* The comment in TaskManagerScheduler.submit: "Generation-scoped child IDs isolate
\* force-refresh and late CPU completions from the next invocation".
AnswerIsOfGeneration ==
  \A x \in AllRuns : ctl[x].took \in {0, x[2]}

\* A task that waits and may still run is in a queue or in the hands of a worker, and
\* is lost only with a worker that ends while it holds it: get_next_task pops for
\* good.  What a live worker drops is of a parent whose lease, deadline or marker has
\* closed the guard for ever, and which is ended by its finish.
OnlyTheDeadLoseTasks ==
  \A c \in Children : child[c].st = "pending" /\ Allowed(RunOf(c)) =>
    \/ c \in cpu \cup gpu \cup lost
    \/ \E v \in Compilers : c = Task(v) \/ c \in worker[v].deferred

\* A cleanup deletes no record that a compile worker will still write: the write
\* would make a record that nobody submitted.  Left out is a task whose completion
\* was written and its reply lost: the worker reports the error of that call by a
\* second one, which does make such a record when a cleanup came between.
NothingIsResurrected == \A c \in Children : child[c].st # "none" => child[c].data \/ c \in unsure

\* discard_task_records: "intended for built-in service probes whose results must not
\* become reusable result-cache entries", of tasks "whose workflows have already
\* finished".  What it deletes stays deleted, or was a whole record.
DiscardedStayAway == \A c \in Children : child[c].st # "none" => child[c].data

===========================================================================
