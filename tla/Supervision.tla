---------------------------- MODULE Supervision ----------------------------
(***************************************************************************)
(* The worker monitor of one host over one expected GPU worker, with       *)
(* --persistent: the health sweep and the restart loop, two coroutines      *)
(* that share a request queue, restart_in_progress, the process map in      *)
(* Redis, the restart budget and the handles of what was spawned.           *)
(*                                                                         *)
(* A generation is one worker process: its leader and, in the same session, *)
(* the CUDA children it starts.  Generation 1 is started by the service.    *)
(***************************************************************************)
EXTENDS Naturals, Sequences

CONSTANTS
  MaxGens,        \* generations of the worker process
  MaxAttempts,    \* max_restart_attempts
  MaxFaults,      \* Redis calls and latch writes that fail
  MaxClears       \* latches the operator clears

ASSUME SupervisionAssumption == /\ MaxGens \in Nat \ {0}
                                /\ MaxAttempts \in Nat
                                /\ MaxFaults \in Nat
                                /\ MaxClears \in Nat

Gens == 1..MaxGens
NoGen == 0

VARIABLES
  session,    \* of a generation: its leader, and whether a child of it is alive
  map,        \* worker_process: the generation registered for the worker
  beat,       \* worker: the heartbeat hash, which outlives its writer
  latch,      \* the quarantine of the worker or of its GPU
  budget,     \* restart attempts used, durable
  queue,      \* restart_queue
  inProgress, \* the worker is in restart_in_progress
  held,       \* spawned_processes and spawned_identities
  sweep,      \* _check_workers
  restart,    \* _restart_loop
  faults, clears,
  lost,       \* generations whose handle went without a map entry or a latch (for the properties)
  unproven    \* generations spawned since an open admission was last fresh in Redis

vars == <<session, map, beat, latch, budget, queue, inProgress, held,
          sweep, restart, faults, clears, lost, unproven>>

Leads == {"none", "up", "zombie", "gone", "reused", "usurped"}
States == {"closed", "open", "failed", "offline"}
NoBeat == [gen |-> NoGen, fresh |-> FALSE, state |-> "offline", flag |-> NoGen]
Beats == [gen : 0..MaxGens, fresh : BOOLEAN, state : States, flag : 0..MaxGens]
Requests == [gen : 0..MaxGens, required : BOOLEAN]
NoRequest == [gen |-> NoGen, required |-> FALSE]
NoSweep == [pc |-> "idle", saw |-> "nothing", pid |-> NoGen]
NoRestart == [pc |-> "get", req |-> NoRequest, target |-> NoGen]
NotHeld == [gen |-> NoGen, known |-> FALSE]

TypeOK ==
  /\ session \in [Gens -> [lead : Leads, kids : BOOLEAN]]
  /\ map \in 0..MaxGens
  /\ beat \in Beats
  /\ latch \in {"none", "worker", "physical"}
  /\ budget \in 0..MaxAttempts
  /\ queue \in Seq(Requests)
  /\ inProgress \in BOOLEAN
  /\ held \in [gen : 0..MaxGens, known : BOOLEAN]
  /\ sweep \in [pc : {"idle", "act", "examine"}, saw : {"nothing", "open", "soft", "hard"},
                pid : 0..MaxGens]
  /\ restart \in [pc : {"get", "check", "prove", "pause", "settle", "cleanup", "watch", "failed"},
                  req : Requests, target : 0..MaxGens]
  /\ faults \in 0..MaxFaults /\ clears \in 0..MaxClears
  /\ lost \subseteq Gens
  /\ unproven \in Nat

Init ==
  /\ session = [g \in Gens |-> [lead |-> IF g = 1 THEN "up" ELSE "none", kids |-> FALSE]]
  /\ map = 1
  /\ beat = NoBeat
  /\ latch = "none"
  /\ budget = 0
  /\ queue = <<>>
  /\ inProgress = FALSE
  /\ held = NotHeld
  /\ sweep = NoSweep
  /\ restart = NoRestart
  /\ faults = 0 /\ clears = 0
  /\ lost = {}
  /\ unproven = 0

---------------------------------------------------------------------------
(* What the monitor reads. *)

\* No executable member of the session is left; a PID taken by the leader of
\* another session makes the recorded session id look occupied.
Drained(g) == session[g].lead \in {"zombie", "gone", "reused"} /\ ~session[g].kids

\* The registered leader answers to its recorded start ticks and command line.
Live == map # NoGen /\ session[map].lead = "up"

\* A live leader within startup_timeout of its start: "late" is the clock.
InGrace(late) == Live /\ ~late

\* The shutdown flag was written by the registered generation or a later one.
FlagIsCurrent(b) == b.flag # NoGen /\ (map = NoGen \/ map <= b.flag)

BootstrapFailed(b) == b.state = "failed" /\ map # NoGen /\ map <= b.gen

FreshlyOpen == beat.fresh /\ beat.state = "open"

AdmissionOpen == FreshlyOpen /\ ~FlagIsCurrent(beat)

\* Fault: the registered generation is not compared.
RequestIsCurrent_Always(r) == TRUE

\* A PID that now names another process makes the request stale.
RequestIsCurrent(r) ==
  r.gen = map /\ (map # NoGen => session[map].lead \notin {"reused", "usurped"})

RequestFor(required) == [gen |-> map, required |-> required]

\* A physical latch is never weakened to one of the worker alone.
Latched(scope) == IF latch = "physical" THEN "physical" ELSE scope

\* Writing a latch fails when neither Redis nor the durable file takes it.
WriteLatch(scope) ==
  \/ latch' = Latched(scope) /\ UNCHANGED faults
  \/ faults < MaxFaults /\ faults' = faults + 1 /\ UNCHANGED latch

Mapped(g) == IF map = g THEN NoGen ELSE map

\* The monitor waits for its own child: the leader has exited for good, and the
\* handle of an authenticated one is dropped, whatever is left of its session.
Collected(g) == [session EXCEPT ![g].lead = IF @ \in {"up", "zombie"} THEN "gone" ELSE @]
Dropping(g) == IF held = [gen |-> g, known |-> TRUE] THEN NotHeld ELSE held
Collect(g) == session' = Collected(g) /\ held' = Dropping(g)

---------------------------------------------------------------------------
(* The health sweep, _check_workers. *)

Done == sweep' = NoSweep

Enqueue(required) ==
  /\ queue' = Append(queue, RequestFor(required))
  /\ inProgress' = TRUE

Absent == beat.gen = NoGen /\ beat.flag = NoGen

\* reconcile_recorded_process_generation: an entry goes when its session is proven
\* drained, without a signal; a PID that is another process and a conflicting handle
\* stop it.
Exited == /\ map # NoGen /\ session[map].lead \in {"zombie", "gone"}
          /\ held \in {NotHeld, [gen |-> map, known |-> TRUE]}

\* Under a latch nothing is restarted: entries are reconciled, and a worker that
\* has a heartbeat leaves restart_in_progress.  A zombie is waited for before its
\* session is looked at.
SweepLatched ==
  /\ sweep.pc = "idle" /\ latch # "none"
  /\ IF Exited
     THEN /\ session' = Collected(map)
          /\ map' = IF Drained(map) THEN NoGen ELSE map
          /\ held' = IF Drained(map) \/ session[map].lead = "zombie" THEN NotHeld ELSE held
     ELSE UNCHANGED <<map, held, session>>
  /\ inProgress' = (inProgress /\ Absent)
  /\ UNCHANGED <<beat, latch, budget, queue, sweep, restart, faults, clears, lost, unproven>>

\* _check_persistent_expectations: the map entry is read, and with it a latch is
\* looked up, unless a restart is in progress.  (A key that expires under the
\* sweep is met by the next one.)
Expect(busy) ==
  sweep' = IF busy THEN NoSweep ELSE [NoSweep EXCEPT !.pc = "examine", !.pid = map]

\* The heartbeat hash.  "hard" reasons, a shutdown flag or a failed bootstrap of
\* the registered process, are not deferred in the startup grace; the others are.
\* A flag older than the process is removed.
Scan ==
  /\ sweep.pc = "idle" /\ latch = "none" /\ ~Absent
  /\ \E minute \in BOOLEAN :
       LET saw == IF FlagIsCurrent(beat) \/ BootstrapFailed(beat) THEN "hard"
                    ELSE IF ~beat.fresh \/ (beat.state = "offline" /\ minute) THEN "soft"
                    ELSE IF FreshlyOpen THEN "open" ELSE "nothing"
       IN IF saw = "nothing" THEN Expect(inProgress)
                             ELSE sweep' = [NoSweep EXCEPT !.pc = "act", !.saw = saw]
  /\ beat' = IF FlagIsCurrent(beat) THEN beat ELSE [beat EXCEPT !.flag = NoGen]
  /\ UNCHANGED <<session, map, latch, budget, queue, inProgress, held, restart, faults, clears, lost, unproven>>

\* _registered_process_is_live waits for a child that has exited, if it is asked.
Looks(asked) == IF asked /\ map # NoGen /\ held.gen = map /\ session[map].lead # "up"
                THEN session' = Collected(map) /\ held' = NotHeld
                ELSE UNCHANGED <<session, held>>

\* A restart is requested, once, for whatever generation is registered by now; or
\* the budget of a healthy worker is given back.
Act ==
  /\ sweep.pc = "act"
  /\ \E late \in BOOLEAN :
       /\ IF inProgress \/ sweep.saw = "open" \/ (sweep.saw = "soft" /\ InGrace(late))
          THEN /\ budget' = IF sweep.saw = "open" /\ ~inProgress /\ Live THEN 0 ELSE budget
               /\ UNCHANGED <<queue, inProgress>>
          ELSE Enqueue(FALSE) /\ UNCHANGED budget
       /\ Looks(IF sweep.saw = "open" THEN ~inProgress ELSE sweep.saw = "soft" /\ ~late)
  /\ Expect(inProgress')
  /\ UNCHANGED <<map, beat, latch, restart, faults, clears, lost, unproven>>

\* A worker without a heartbeat key.  Once requested it is in progress, and its
\* PID is not looked at.
Missing ==
  /\ sweep.pc = "idle" /\ latch = "none" /\ Absent /\ ~inProgress
  /\ \E late \in BOOLEAN :
       /\ IF InGrace(late) THEN UNCHANGED <<queue, inProgress>> ELSE Enqueue(FALSE)
       /\ Looks(~late)
  /\ Expect(inProgress')
  /\ UNCHANGED <<map, beat, latch, budget, restart, faults, clears, lost, unproven>>

ExamineLatched ==
  /\ sweep.pc = "examine" /\ latch # "none"
  /\ Done
  /\ UNCHANGED <<session, map, beat, latch, budget, queue, inProgress, held, restart, faults, clears, lost, unproven>>

\* No process is registered: a worker without a heartbeat has been requested.
ExamineUnmapped ==
  /\ sweep.pc = "examine" /\ latch = "none" /\ sweep.pid = NoGen
  /\ Done
  /\ UNCHANGED <<session, map, beat, latch, budget, queue, inProgress, held, restart, faults, clears, lost, unproven>>

\* The leader that was registered: alive, dead, or its PID is another process.
\* A retained child that has exited is waited for and its handle dropped.
ExamineMapped ==
  /\ sweep.pc = "examine" /\ latch = "none" /\ sweep.pid # NoGen
  /\ Done
  /\ LET g == sweep.pid IN
     \/ /\ session[g].lead = "up"
        /\ UNCHANGED <<session, map, latch, queue, inProgress, held, faults>>
     \/ /\ session[g].lead \in {"zombie", "gone"}
        /\ held' = IF held.gen = g THEN NotHeld ELSE held
        /\ session' = IF held.gen = g THEN [session EXCEPT ![g].lead = "gone"] ELSE session
        /\ Enqueue(TRUE)
        /\ UNCHANGED <<map, latch, faults>>
     \/ /\ session[g].lead = "reused" \/ (map # g /\ session[g].lead = "gone")
        /\ map' = Mapped(g)
        /\ session' = [session EXCEPT ![g].lead = "gone"]
        /\ IF map = g
           THEN queue' = Append(queue, [gen |-> NoGen, required |-> TRUE]) /\ inProgress' = TRUE
           ELSE UNCHANGED <<queue, inProgress>>
        /\ UNCHANGED <<latch, held, faults>>
     \/ /\ session[g].lead = "usurped"
        /\ WriteLatch("physical")
        /\ UNCHANGED <<session, map, queue, inProgress, held>>
  /\ UNCHANGED <<beat, budget, restart, clears, lost, unproven>>

---------------------------------------------------------------------------
(* The restart loop. *)

To(pc) == restart' = [restart EXCEPT !.pc = pc]
Failed == restart' = [restart EXCEPT !.pc = "failed", !.target = NoGen]
\* Fault: a dropped request leaves the worker in restart_in_progress.
Dropped_Kept == restart' = NoRestart /\ UNCHANGED inProgress

Dropped == restart' = NoRestart /\ inProgress' = FALSE

\* A request is dropped under a latch, or when the map has moved on; else an
\* attempt of the budget is reserved.
TakeStale ==
  /\ restart.pc = "get" /\ queue # <<>>
  /\ latch # "none" \/ ~RequestIsCurrent(Head(queue))
  /\ queue' = Tail(queue)
  /\ Dropped
  /\ UNCHANGED <<session, map, beat, latch, budget, held, sweep, faults, clears, lost, unproven>>

Take ==
  /\ restart.pc = "get" /\ queue # <<>>
  /\ latch = "none" /\ RequestIsCurrent(Head(queue)) /\ budget < MaxAttempts
  /\ queue' = Tail(queue)
  /\ budget' = budget + 1
  /\ restart' = [NoRestart EXCEPT !.pc = "check", !.req = Head(queue)]
  /\ UNCHANGED <<session, map, beat, latch, inProgress, held, sweep, faults, clears, lost, unproven>>

\* The budget is used up: the worker is quarantined, and the counter is cleared
\* only when that was written.
Exhaust ==
  /\ restart.pc = "get" /\ queue # <<>>
  /\ latch = "none" /\ RequestIsCurrent(Head(queue)) /\ budget = MaxAttempts
  /\ queue' = Tail(queue)
  /\ Dropped
  /\ WriteLatch("worker")
  /\ budget' = IF faults' = faults THEN 0 ELSE budget
  /\ UNCHANGED <<session, map, beat, held, sweep, clears, lost, unproven>>

\* A Redis error before the kill: the request goes back to the queue.
Raise ==
  /\ restart.pc = "check" /\ faults < MaxFaults
  /\ faults' = faults + 1
  /\ queue' = Append(queue, restart.req)
  /\ restart' = NoRestart
  /\ UNCHANGED <<session, map, beat, latch, budget, inProgress, held, sweep, clears, lost, unproven>>

\* _restart_worker: a latch, a map that has moved on or a worker that has recovered
\* since; in the latter two cases the attempt is given back.
RefuseLatched ==
  /\ restart.pc \in {"check", "pause"} /\ latch # "none"
  /\ Failed
  /\ UNCHANGED <<session, map, beat, latch, budget, queue, inProgress, held, sweep, faults, clears, lost, unproven>>

Release ==
  /\ restart.pc = "check" /\ latch = "none"
  /\ \/ ~RequestIsCurrent(restart.req)
     \/ ~restart.req.required /\ AdmissionOpen
  /\ budget' = IF budget = 0 THEN 0 ELSE budget - 1
  /\ Dropped
  /\ UNCHANGED <<session, map, beat, latch, queue, held, sweep, faults, clears, lost, unproven>>

\* _kill_worker_process begins.  After a proven kill the request names no
\* generation and must be served.
MayKill == /\ restart.pc = "check" /\ latch = "none" /\ RequestIsCurrent(restart.req)
           /\ restart.req.required \/ ~AdmissionOpen
Rebound == restart' = [NoRestart EXCEPT !.pc = "pause", !.req.required = TRUE]

KillNothing ==
  /\ MayKill /\ map = NoGen /\ held.gen = NoGen
  /\ Rebound
  /\ UNCHANGED <<session, map, beat, latch, budget, queue, inProgress, held, sweep, faults, clears, lost, unproven>>

\* There is a session to prove empty, the registered or else the retained one: a
\* live leader is asked to stop first.
KillSession ==
  /\ MayKill /\ (map # NoGen \/ held.gen # NoGen)
  /\ restart' = [restart EXCEPT !.pc = "prove", !.target = IF map = NoGen THEN held.gen ELSE map]
  /\ UNCHANGED <<session, map, beat, latch, budget, queue, inProgress, held, sweep, faults, clears, lost, unproven>>

\* What may be proven of a session: one that was never authenticated is not
\* signalled, and nothing is once its PID is another process.
Provable(g) == /\ session[g].lead # "usurped"
               /\ held.gen = g /\ ~held.known => Drained(g)

\* Fault: only the leader of the session is signalled.
Emptied_Leader(g) == [session EXCEPT ![g].lead = IF @ = "reused" THEN @ ELSE "gone"]

Emptied(g) == [session EXCEPT ![g] = [lead |-> IF @.lead = "reused" THEN @.lead ELSE "gone",
                                      kids |-> FALSE]]

\* SIGTERM, the freeze of the session to a fixed point, SIGKILL, and the scan that
\* finds it drained; then its entry goes, unless it is another's by now.  What has
\* become of a PID is followed only as long as the map names it.
Proved ==
  /\ restart.pc = "prove" /\ Provable(restart.target)
  /\ session' = [Emptied(restart.target) EXCEPT ![restart.target].lead = "gone"]
  /\ map' = Mapped(restart.target)
  /\ held' = IF held.gen = restart.target THEN NotHeld ELSE held
  /\ IF map' = NoGen THEN Rebound ELSE Failed
  /\ UNCHANGED <<beat, latch, budget, queue, inProgress, sweep, faults, clears, lost, unproven>>

\* The session is drained, and Redis does not take the deletion.
ProvedUnrecorded ==
  /\ restart.pc = "prove" /\ Provable(restart.target) /\ map # NoGen /\ faults < MaxFaults
  /\ faults' = faults + 1
  /\ session' = Emptied(restart.target)
  /\ held' = IF held.gen = restart.target THEN NotHeld ELSE held
  /\ Failed
  /\ UNCHANGED <<map, beat, latch, budget, queue, inProgress, sweep, clears, lost, unproven>>

\* A member survives or /proc cannot be read.  What happened to the leader by then:
\* nothing; it ended and was not waited for; or it was, in _stop_spawned_process, or
\* in _wait_for_process_exit, which drops its handle before it looks at the session.
Partly(g) == \/ UNCHANGED <<session, held>>
             \/ /\ session[g].lead = "up" /\ held.gen = g
                /\ session' = [session EXCEPT ![g].lead = "zombie"] /\ UNCHANGED held
             \/ session[g].lead = "zombie" /\ session' = Collected(g) /\ UNCHANGED held
             \/ Collect(g)

\* The GPU is quarantined.
Contain(g) ==
  /\ Partly(g)
  /\ WriteLatch("physical")
  /\ lost' = IF g \in {map, held'.gen} \/ latch' = "physical" THEN lost ELSE lost \cup {g}

Unproved ==
  /\ restart.pc = "prove"
  /\ Contain(restart.target)
  /\ Failed
  /\ UNCHANGED <<map, beat, budget, queue, inProgress, sweep, clears, unproven>>

\* Popen, five seconds after the kill: a sweep in the middle of the worker is
\* done with what it read before.  The handle is retained at once.  A child that has
\* gone before its identity was read stays unauthenticated.
SweepIsQuick == sweep.pc \notin {"act", "examine"}
Newborn == CHOOSE g \in Gens : session[g].lead = "none" /\ \A h \in 1..(g - 1) : session[h].lead # "none"

SpawnUnknown ==
  /\ restart.pc = "pause" /\ latch = "none" /\ SweepIsQuick
  /\ \E g \in Gens : session[g].lead = "none"
  /\ \E kids \in BOOLEAN :
       session' = [session EXCEPT ![Newborn] = [lead |-> "zombie", kids |-> kids]]
  /\ held' = [gen |-> Newborn, known |-> FALSE]
  /\ restart' = [restart EXCEPT !.pc = "cleanup", !.target = Newborn]
  /\ unproven' = IF FreshlyOpen THEN 0 ELSE unproven + 1
  /\ UNCHANGED <<map, beat, latch, budget, queue, inProgress, sweep, faults, clears, lost>>

\* _PROCESS_MAP_REGISTER_IF_EMPTY follows: done, refused, or, with a Redis error,
\* either of the two and cleaned up.
SpawnKnown ==
  /\ restart.pc = "pause" /\ latch = "none" /\ SweepIsQuick
  /\ \E g \in Gens : session[g].lead = "none"
  /\ session' = [session EXCEPT ![Newborn].lead = "up"]
  /\ held' = [gen |-> Newborn, known |-> TRUE]
  /\ \/ /\ map' = IF map = NoGen THEN Newborn ELSE map
        /\ restart' = [restart EXCEPT !.pc = IF map = NoGen THEN "settle" ELSE "cleanup",
                                      !.target = Newborn]
        /\ UNCHANGED faults
     \/ /\ map' \in IF map = NoGen THEN {map, Newborn} ELSE {map}
        /\ restart' = [restart EXCEPT !.pc = "cleanup", !.target = Newborn]
        /\ faults < MaxFaults /\ faults' = faults + 1
  /\ unproven' = IF FreshlyOpen THEN 0 ELSE unproven + 1
  /\ UNCHANGED <<beat, latch, budget, queue, inProgress, sweep, clears, lost>>

\* Five seconds later the process is still there, or it is cleaned up.
Settle ==
  /\ restart.pc = "settle"
  /\ IF session[restart.target].lead = "up"
     THEN /\ restart' = [NoRestart EXCEPT !.pc = "watch"]
          /\ \/ beat' = [beat EXCEPT !.flag = NoGen] /\ UNCHANGED faults
             \/ faults < MaxFaults /\ faults' = faults + 1 /\ UNCHANGED beat
     ELSE To("cleanup") /\ UNCHANGED <<beat, faults>>
  /\ UNCHANGED <<session, map, latch, budget, queue, inProgress, held, sweep, clears, lost, unproven>>

\* _finish_spawn_cleanup: the map entry of a spawned process goes only when its
\* session was proven empty, if Redis takes the deletion; else the GPU is latched.
CleanupProved ==
  /\ restart.pc = "cleanup" /\ Provable(restart.target)
  /\ \/ /\ session' = [Emptied(restart.target) EXCEPT ![restart.target].lead = "gone"]
        /\ map' = Mapped(restart.target) /\ UNCHANGED faults
     \/ /\ faults < MaxFaults /\ faults' = faults + 1
        /\ session' = Emptied(restart.target) /\ UNCHANGED map
  /\ held' = NotHeld
  /\ Failed
  /\ UNCHANGED <<beat, latch, budget, queue, inProgress, sweep, clears, lost, unproven>>

\* Fault: the handle is all that keeps the session in sight.
CleanupUnproved_Unlatched ==
  /\ restart.pc = "cleanup"
  /\ Partly(restart.target)
  /\ Failed
  /\ UNCHANGED <<map, beat, latch, budget, queue, inProgress, sweep, faults, clears, lost, unproven>>

CleanupUnproved ==
  /\ restart.pc = "cleanup"
  /\ Contain(restart.target)
  /\ Failed
  /\ UNCHANGED <<map, beat, budget, queue, inProgress, sweep, clears, unproven>>

\* Fault: surviving the watch is taken for a recovery.
Watch_Hopeful ==
  /\ restart.pc = "watch"
  /\ Dropped
  /\ budget' = IF latch = "none" THEN 0 ELSE budget
  /\ UNCHANGED <<session, map, beat, latch, queue, held, sweep, faults, clears, lost, unproven>>

\* The post-spawn watch ends with a latch, an open admission or after 45 seconds.
\* The budget is given back only to an open admission.
Watch ==
  /\ restart.pc = "watch"
  /\ Dropped
  /\ budget' \in IF latch = "none" /\ AdmissionOpen THEN {0} ELSE {budget}
  /\ UNCHANGED <<session, map, beat, latch, queue, held, sweep, faults, clears, lost, unproven>>

\* A failed restart is requeued after the cool-down.
Retry ==
  /\ restart.pc = "failed"
  /\ queue' = Append(queue, restart.req)
  /\ restart' = NoRestart
  /\ UNCHANGED <<session, map, beat, latch, budget, inProgress, held, sweep, faults, clears, lost, unproven>>

---------------------------------------------------------------------------
(* The worker processes, the kernel, time and the operator. *)

Others == <<map, latch, budget, queue, inProgress, held, sweep, restart, faults, clears, lost>>

\* A heartbeat, the first of which says that the worker initializes.  The hash
\* keeps a shutdown flag that is not removed.  The admission opens with a pool of
\* CUDA children.
Beat ==
  \E g \in Gens : \E state \in States :
    /\ session[g].lead = "up"
    /\ beat.gen = g => beat.state # "offline"
    /\ beat.flag = g => state = "offline"
    /\ beat.gen # g => state = "closed"
    /\ state = "failed" => beat.state = "open"
    /\ beat' = [gen |-> g, fresh |-> TRUE, state |-> state, flag |-> beat.flag]
    /\ session' = IF state = "open" THEN [session EXCEPT ![g].kids = TRUE] ELSE session
    /\ unproven' = IF state = "open" THEN 0 ELSE unproven
    /\ UNCHANGED Others

\* Too many errors of the main process: the worker flags itself and stops.
Flag ==
  /\ map # NoGen /\ session[map].lead = "up" /\ beat.gen = map /\ beat.flag # map
  /\ beat' = [beat EXCEPT !.flag = map]
  /\ UNCHANGED <<session, unproven, Others>>

\* A leader ends, with or without its CUDA children.  The monitor's own child
\* stays a zombie until it is waited for; the service's is reaped by PID 1.
Exit ==
  \E g \in Gens, kids \in BOOLEAN :
    /\ session[g].lead = "up" /\ (kids => session[g].kids)
    /\ session' = [session EXCEPT ![g] = [lead |-> IF held.gen = g THEN "zombie" ELSE "gone",
                                          kids |-> kids]]
    /\ UNCHANGED <<beat, unproven, Others>>

\* CUDA children that outlived their leader end too, sooner or later.
Wither ==
  \E g \in Gens :
    /\ session[g].lead # "up" /\ session[g].kids
    /\ session' = [session EXCEPT ![g].kids = FALSE]
    /\ UNCHANGED <<beat, unproven, Others>>

\* The kernel gives the PID of an empty session to another process, which may
\* open a session of that number.
Reuse ==
  /\ map # NoGen /\ session[map] = [lead |-> "gone", kids |-> FALSE]
  /\ \E lead \in {"reused", "usurped"} : session' = [session EXCEPT ![map].lead = lead]
  /\ UNCHANGED <<beat, unproven, Others>>

\* heartbeat_timeout and the expiry of the key.  A heartbeat of a
\* running loop is never that old.
Age ==
  /\ beat.fresh /\ beat' = [beat EXCEPT !.fresh = FALSE]
  /\ unproven' = IF beat.state = "open" THEN 0 ELSE unproven
  /\ UNCHANGED <<session, Others>>

Expire ==
  /\ ~beat.fresh /\ beat # NoBeat /\ beat' = NoBeat
  /\ UNCHANGED <<session, unproven, Others>>

\* The worker itself, or its sibling monitor loop, latches the GPU.
WorkerLatches ==
  /\ map # NoGen /\ session[map].lead = "up" /\ latch = "none"
  /\ latch' = "physical"
  /\ UNCHANGED <<session, map, beat, budget, queue, inProgress, held, sweep, restart, faults, clears, lost, unproven>>

\* manage_gpu_quarantine clear: no worker online on the GPU, no retained process
\* map, and for a physical latch a confirmation that no GPU process is left.
Clear ==
  /\ latch # "none" /\ map = NoGen /\ clears < MaxClears
  /\ clears' = clears + 1
  /\ beat.gen = NoGen \/ beat.state = "offline"
  /\ latch = "physical" => \A g \in Gens : ~session[g].kids
  /\ latch' = "none"
  /\ unproven' = 0
  /\ UNCHANGED <<session, map, beat, budget, queue, inProgress, held, sweep, restart, faults, lost>>

---------------------------------------------------------------------------
SweepStep == \/ SweepLatched \/ Scan \/ Act \/ Missing
             \/ ExamineLatched \/ ExamineUnmapped \/ ExamineMapped
RestartStep == \/ TakeStale \/ Take \/ Exhaust \/ Raise \/ RefuseLatched \/ Release
               \/ KillNothing \/ KillSession \/ Proved \/ ProvedUnrecorded \/ Unproved
               \/ SpawnUnknown \/ SpawnKnown \/ Settle \/ CleanupProved \/ CleanupUnproved
               \/ Watch \/ Retry
Time == Age \/ Expire
World == Beat \/ Flag \/ Exit \/ Wither \/ Reuse \/ WorkerLatches \/ Clear

Next == SweepStep \/ RestartStep \/ Time \/ World

\* The two coroutines run, and a heartbeat that nobody writes grows old.
Spec == Init /\ [][Next]_vars
FairSpec == Spec /\ WF_vars(SweepStep) /\ WF_vars(RestartStep) /\ WF_vars(Time)

---------------------------------------------------------------------------
Alive(g) == session[g].lead = "up" \/ session[g].kids

\* No generation is started while another still has a process, unless the other was
\* lost: not registered, its leader collected, the proof of its session failed and
\* its latch not written (_kill_worker_process has nothing left to prove at
\* worker_monitor.py:2339).
OneGeneration ==
  \A g, h \in Gens : Alive(g) /\ Alive(h) => g = h \/ {g, h} \cap lost # {}

\* A process of the worker is in the map or retained, or its GPU is latched, which
\* is no protection when the latch could not be written.
SessionIsAccounted ==
  \A g \in Gens : Alive(g) => g \in {map, held.gen} \/ latch = "physical" \/ g \in lost

\* _quarantine_unsafe_process_group, of a latch that could not be written: "Admission
\* still fails closed because the caller refuses to delete the old PID map or spawn."
FailsClosed == \A g, h \in Gens : Alive(g) /\ Alive(h) => g = h

\* A request that skips the recovery check ends no leader that runs.
OnlyTheDeadAreReplaced ==
  [][KillSession /\ map # NoGen /\ restart.req.required => session[map].lead # "up"]_vars

\* Restarts without evidence of recovery are bounded, whatever was released,
\* requeued or raised in between.  A sweep under a latch takes the worker out of
\* restart_in_progress though a restart is under way; when that latch is cleared, the
\* budget may be given back under an attempt it had reserved: one more, and no second.
RestartsAreBounded == unproven <= MaxAttempts + (IF clears = 0 THEN 0 ELSE 1)

\* The comment of _reserve_gpu_restart_attempt: "Reserve one bounded restart, or
\* persist quarantine before attempt N+1."
QuarantineBeforeNext == unproven <= MaxAttempts

\* A worker without a process gets one, or is quarantined; it may starve only
\* while the PID of its last leader names another process.
Served == \/ latch # "none"
          \/ \E g \in Gens : session[g].lead = "up"
          \/ \A g \in Gens : session[g].lead # "none"
PidIsTaken == map # NoGen /\ session[map].lead \in {"reused", "usurped"}
WorkerIsServed == []<>(Served \/ PidIsTaken)

\* The comment above the call of _check_persistent_expectations: "ensure expected
\* workers are running even if their heartbeat keys are missing or their PIDs are dead."
ExpectedWorkerRuns == []<>Served

=============================================================================
