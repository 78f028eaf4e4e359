-------------------------- MODULE QuarantineLatch --------------------------
(***************************************************************************)
(* The quarantine latch of one physical GPU and its notifications.         *)
(*                                                                         *)
(* A latch generation is kept in four kinds of replica: a durable file and *)
(* a Redis hash of the device, and a durable file and a Redis hash of each *)
(* worker id.  Writers, readers, notifiers and the operator's clear run in *)
(* several processes; the lock of the device orders what they change.      *)
(*                                                                         *)
(* Only records that carry a scope and an event_id are modelled.           *)
(***************************************************************************)
EXTENDS Naturals

CONSTANTS
  Workers,      \* worker ids on this GPU
  Agents,       \* coroutines of worker processes and monitors
  WorkerOf,     \* the worker id an agent acts for
  Monitors,     \* the agents that are not worker processes
  Blind,        \* monitors that may read with no device at hand
  Operator,     \* manage_gpu_quarantine clear
  MaxEvents,    \* latch generations
  MaxAttempts,  \* notification attempts per agent and generation
  MaxFaults     \* crashes, failed calls and restarts of Redis

Nobody == "nobody"

ASSUME LatchAssumption == /\ WorkerOf \in [Agents -> Workers]
                          /\ Monitors \subseteq Agents /\ Blind \subseteq Monitors
                          /\ Operator \notin Agents /\ Nobody \notin Agents \cup {Operator}
                          /\ MaxEvents \in Nat \ {0}
                          /\ MaxAttempts \in Nat \ {0}
                          /\ MaxFaults \in Nat

Events == 1..MaxEvents

VARIABLES
  file,       \* durable: the latch of the device and of each worker
  redis,      \* the hashes of the device and of each worker
  lock,       \* who holds the lock of the device
  loc,        \* of each agent: what it is at and the record in its hands
  attempts,   \* _quarantine_page_attempts; Told stands for _quarantine_page_sent
  clear,      \* the operator, and the worker it names
  last,       \* the latest generation
  faults,
  held,       \* a physical latch was acknowledged and nobody cleared it since
  cleared,    \* generations a clear reported as removed
  delivered   \* confirmed pages of a generation since a durable mark was last lost

vars == <<file, redis, lock, loc, attempts, clear, last, faults,
          held, cleared, delivered>>

Scopes == {"gpu", "worker"}
Pages == {"pending", "sending", "sent", "failed"}
Records == [gen : Events, scope : Scopes, page : Pages, loose : BOOLEAN, w : Workers]
None == [gen |-> 0]
Replicas == [dev : Records \cup {None}, wrk : [Workers -> Records \cup {None}]]
Points == {"idle", "redis", "relock", "hydrateDev", "hydrateWrk", "blind", "writeDev", "writeWrk",
           "notice", "send", "finish", "mark", "markDev", "markWrk"}
Told == MaxAttempts + 1
Idle == [pc |-> "idle", rec |-> None, ok |-> TRUE]
Resting == [pc |-> "idle", w |-> Nobody, gone |-> {}, keys |-> {}]

TypeOK ==
  /\ file \in Replicas /\ redis \in Replicas
  /\ lock \in Agents \cup {Operator, Nobody}
  /\ loc \in [Agents -> [pc : Points, rec : Records \cup {None}, ok : BOOLEAN]]
  /\ attempts \in [Agents -> [Events -> 0..Told]]
  /\ clear \in [pc : {"idle", "keys"}, w : Workers \cup {Nobody}, gone : SUBSET Events, keys : SUBSET Workers]
  /\ last \in 0..MaxEvents /\ faults \in 0..MaxFaults
  /\ held \in BOOLEAN
  /\ cleared \subseteq Events
  /\ delivered \in [Events -> 0..2]

Unpaged == [g \in Events |-> 0]
Empty == [dev |-> None, wrk |-> [w \in Workers |-> None]]

Init ==
  /\ file = Empty /\ redis = Empty
  /\ lock = Nobody
  /\ loc = [a \in Agents |-> Idle]
  /\ attempts = [a \in Agents |-> [g \in Events |-> 0]]
  /\ clear = Resting
  /\ last = 0 /\ faults = 0
  /\ held = FALSE
  /\ cleared = {}
  /\ delivered = Unpaged

---------------------------------------------------------------------------
(* Records. *)

Present(r) == r # None

Physical(r) == Present(r) /\ r.scope = "gpu"

\* _strongest_quarantine_record: durable before Redis, physical before worker, and
\* a confirmed delivery of the same generation is kept.
Strongest(fdev, fwrk, rdev, rwrk) ==
  LET best == IF Physical(fdev) THEN fdev ELSE IF Physical(fwrk) THEN fwrk
              ELSE IF Physical(rdev) THEN rdev ELSE IF Physical(rwrk) THEN rwrk
              ELSE IF Present(fwrk) THEN fwrk ELSE rwrk
  IN IF Physical(best) /\ \E r \in {fdev, fwrk, rdev, rwrk} : Physical(r) /\ r.page = "sent" /\ r.gen = best.gen
     THEN [best EXCEPT !.page = "sent"] ELSE best

View(w) == Strongest(file.dev, file.wrk[w], redis.dev, redis.wrk[w])

\* The files already say what was read.
Ready(r, fdev, fwrk) ==
  IF r.scope = "gpu" THEN Present(fdev) /\ fdev.gen = r.gen
                     ELSE Present(fwrk) /\ fwrk.scope = "worker" /\ fwrk.gen = r.gen

Alias(r, w) == [r EXCEPT !.w = w]
Loosened(r) == [r EXCEPT !.loose = TRUE]

\* Every field of the record is in the hash; the hash may hold a marker more.
Contains(hash, r) == Present(hash) /\ hash \in {r, Loosened(r)}

\* HSET leaves the fields it does not name.
Merged(hash, r) == IF Present(hash) /\ hash.loose THEN Loosened(r) ELSE r

\* Fault: only the file of the worker is written.
Filed_Worker(r, w) == [file EXCEPT !.wrk[w] = Alias(r, w)]

\* _records_for_durable_paths: the file of the device and that of one worker.
Filed(r, w) == [dev |-> IF r.scope = "gpu" THEN r ELSE file.dev,
                wrk |-> [file.wrk EXCEPT ![w] = Alias(r, w)]]

\* The writes stop at the first that fails.
HalfFiled(r, w) == {file, [file EXCEPT !.dev = IF r.scope = "gpu" THEN r ELSE @]}

Fault == faults < MaxFaults /\ faults' = faults + 1

W(a) == WorkerOf[a]
At(a, pc) == loc[a].pc = pc
Goes(a, pc) == loc' = [loc EXCEPT ![a].pc = pc]
GoesWith(a, pc, r) == loc' = [loc EXCEPT ![a] = [Idle EXCEPT !.pc = pc, !.rec = r]]
Rests(a) == loc' = [loc EXCEPT ![a] = Idle]
Acquires(a) == lock = Nobody /\ lock' = a
Releases == lock' = Nobody

Ghosts == <<held, cleared, delivered>>

---------------------------------------------------------------------------
(* write_gpu_quarantine: under the lock, the files and then the hashes. *)

New(a, scope) == [gen |-> last + 1, scope |-> scope, page |-> "pending", loose |-> FALSE, w |-> W(a)]

\* A physical latch is kept whatever is written, a latch of the worker when no
\* physical one is.
Preserved(scope, found) == Present(found) /\ (found.scope = "gpu" \/ scope = "worker")
Existing(a) == IF Present(file.dev) THEN file.dev ELSE file.wrk[W(a)]

\* A monitor gives up on a worker; a process repeats the latch that was cleared under
\* it.  A record that cannot be written durably is marked and goes to Redis alone; it
\* has a new generation when the old one could not be read.
Write(a, scope) ==
  /\ At(a, "idle") /\ Acquires(a)
  /\ scope = "worker" => a \in Monitors \/ last > 0
  /\ \E read \in {Existing(a), None} :
       LET keep == Preserved(scope, read)
           r == IF keep THEN read ELSE New(a, scope)
       IN /\ keep \/ last < MaxEvents
          /\ last' = IF keep THEN last ELSE last + 1
          /\ \/ /\ read = Existing(a)
                /\ file' = Filed(r, W(a))
                /\ GoesWith(a, "writeDev", r) /\ UNCHANGED faults
             \/ /\ Fault
                /\ file' \in IF read = Existing(a) THEN HalfFiled(r, W(a)) ELSE {file}
                /\ loc' = [loc EXCEPT ![a] = [Idle EXCEPT !.pc = "writeDev", !.rec = Loosened(r), !.ok = FALSE]]
  /\ UNCHANGED <<redis, attempts, clear, Ghosts>>

\* The lock is given back.  A writer without an error pages; one whose files
\* failed raises, and its caller reads the latch again.
Written(a) ==
  /\ Releases
  /\ held' = (held \/ (loc[a].ok /\ loc[a].rec.scope = "gpu"))
  /\ IF loc[a].ok THEN Goes(a, "notice") ELSE Rests(a)

WriteDev(a) ==
  /\ At(a, "writeDev")
  /\ \/ /\ redis' = [redis EXCEPT !.dev = IF loc[a].rec.scope = "gpu" THEN Merged(@, loc[a].rec) ELSE @]
        /\ Goes(a, "writeWrk")
        /\ UNCHANGED <<lock, held, faults>>
     \/ Fault /\ Written(a) /\ UNCHANGED redis
  /\ UNCHANGED <<file, attempts, clear, last, cleared, delivered>>

WriteWrk(a) ==
  /\ At(a, "writeWrk")
  /\ \/ redis' = [redis EXCEPT !.wrk[W(a)] = Merged(@, Alias(loc[a].rec, W(a)))] /\ UNCHANGED faults
     \/ Fault /\ UNCHANGED redis
  /\ Written(a)
  /\ UNCHANGED <<file, attempts, clear, last, cleared, delivered>>

---------------------------------------------------------------------------
(* read_gpu_quarantine: a first look without the lock, and all of it again under  *)
(* the lock when a replica must be repaired.                                      *)

\* Every replica that the reader of a record consults holds it.
Replicated(r, w) == /\ Ready(r, file.dev, file.wrk[w])
                    /\ Contains(redis.wrk[w], Alias(r, w))
                    /\ r.scope = "gpu" => Contains(redis.dev, r)

\* A reader with a device finds a record that every replica holds, or goes for the
\* lock, also when Redis does not answer.  (The hashes are read after the files; a
\* difference leads to the lock.)
Look(a) ==
  /\ At(a, "idle")
  /\ LET r == View(W(a)) IN
       /\ Present(r)
       /\ \/ Replicated(r, W(a)) /\ GoesWith(a, "notice", r) /\ UNCHANGED faults
          \/ ~Replicated(r, W(a)) /\ Goes(a, "relock") /\ UNCHANGED faults
          \/ Present(Existing(a)) /\ Fault /\ Goes(a, "relock")
  /\ UNCHANGED <<file, redis, lock, attempts, clear, last, Ghosts>>

\* A reader without one sees the file and then the hash of its worker.  A physical
\* record is not in the file it could check, and is marked.
BlindFile(a) ==
  /\ At(a, "idle") /\ a \in Blind
  /\ GoesWith(a, "redis", file.wrk[W(a)])
  /\ UNCHANGED <<file, redis, lock, attempts, clear, last, faults, Ghosts>>

BlindHash(a) ==
  /\ At(a, "redis")
  /\ LET fwrk == loc[a].rec
         rwrk == redis.wrk[W(a)]
         r == Strongest(None, fwrk, None, rwrk)
         t == IF Ready(r, None, fwrk) THEN r ELSE Loosened(r)
     IN CASE ~Present(r) -> Rests(a)
          [] Present(r) /\ Contains(rwrk, Alias(t, W(a))) -> GoesWith(a, "notice", t)
          [] OTHER -> GoesWith(a, "blind", t)
  /\ UNCHANGED <<file, redis, lock, attempts, clear, last, faults, Ghosts>>

\* Without a device there is no lock to take.
Rehydrate(a) ==
  /\ At(a, "blind")
  /\ redis' = [redis EXCEPT !.wrk[W(a)] = Merged(@, Alias(loc[a].rec, W(a)))]
  /\ Goes(a, "notice")
  /\ UNCHANGED <<file, lock, attempts, clear, last, faults, Ghosts>>

\* With the lock: a record the files do not hold is materialized, marked when that
\* fails.
Reread(a) ==
  /\ At(a, "relock") /\ lock = Nobody
  /\ LET r == View(W(a)) IN
       IF ~Present(r)
       THEN Rests(a) /\ UNCHANGED <<file, lock, faults>>
       ELSE /\ lock' = a
            /\ \/ /\ file' = IF Ready(r, file.dev, file.wrk[W(a)]) THEN file ELSE Filed(r, W(a))
                  /\ GoesWith(a, "hydrateDev", r) /\ UNCHANGED faults
               \/ /\ ~Ready(r, file.dev, file.wrk[W(a)]) /\ Fault
                  /\ file' \in HalfFiled(r, W(a))
                  /\ GoesWith(a, "hydrateDev", Loosened(r))
  /\ UNCHANGED <<redis, attempts, clear, last, Ghosts>>

\* _rehydrate_redis_to_completion: errors are ignored.
HydrateDev(a) ==
  /\ At(a, "hydrateDev")
  /\ \/ /\ redis' = [redis EXCEPT !.dev = IF loc[a].rec.scope = "gpu" THEN Merged(@, loc[a].rec) ELSE @]
        /\ Goes(a, "hydrateWrk")
        /\ UNCHANGED <<lock, faults>>
     \/ Fault /\ Releases /\ Goes(a, "notice") /\ UNCHANGED redis
  /\ UNCHANGED <<file, attempts, clear, last, Ghosts>>

HydrateWrk(a) ==
  /\ At(a, "hydrateWrk") /\ Releases
  /\ LET r == loc[a].rec IN
       \/ redis' = [redis EXCEPT !.wrk[W(a)] = Merged(@, Alias(r, W(a)))] /\ UNCHANGED faults
       \/ Fault /\ UNCHANGED redis
  /\ Goes(a, "notice")
  /\ UNCHANGED <<file, attempts, clear, last, Ghosts>>

---------------------------------------------------------------------------
(* The notification: a claim under the lock, the page, its durable outcome, and   *)
(* then a compare-and-swap of the outcome on files and hashes.                    *)

Attempted(a, r, n) == attempts' = [attempts EXCEPT ![a][r.gen] = n]

\* Nothing to do, or not yet.
Quiet(a) ==
  /\ At(a, "notice")
  /\ IF loc[a].rec.page = "sent" THEN Attempted(a, loc[a].rec, Told) ELSE UNCHANGED attempts
  /\ Rests(a)
  /\ UNCHANGED <<file, redis, lock, clear, last, faults, Ghosts>>

\* _restore_confirmed_delivery_marker.
Restore(a) ==
  /\ At(a, "notice") /\ a \notin Monitors
  /\ LET r == loc[a].rec IN
       /\ r.page # "sent" /\ ~r.loose /\ attempts[a][r.gen] = Told
       /\ GoesWith(a, "mark", [r EXCEPT !.page = "sent"])
  /\ UNCHANGED <<file, redis, lock, attempts, clear, last, faults, Ghosts>>

MayPage(a) == /\ At(a, "notice") /\ loc[a].rec.page # "sent"
              /\ attempts[a][loc[a].rec.gen] < MaxAttempts

\* A marked record is paged without a claim.
Unclaimed(a) ==
  /\ MayPage(a) /\ loc[a].rec.loose
  /\ \E n \in {attempts[a][loc[a].rec.gen] + 1, Told} : Attempted(a, loc[a].rec, n)
  /\ Rests(a)
  /\ UNCHANGED <<file, redis, lock, clear, last, faults, Ghosts>>

\* The durable record an agent may page for: a latch of the worker gives way to a
\* physical one.
Claimable(r) ==
  CASE r.scope = "gpu" -> file.dev
    [] r.scope = "worker" /\ Present(file.dev) -> None
    [] OTHER -> IF Present(file.wrk[r.w]) /\ file.wrk[r.w].scope = "worker" THEN file.wrk[r.w] ELSE None

\* acquire_gpu_quarantine_notification_claim: superseded, sent already, or claimed.
Claim(a) ==
  /\ MayPage(a) /\ ~loc[a].rec.loose /\ lock = Nobody
  /\ LET r == loc[a].rec
         now == Claimable(r)
         mine == [now EXCEPT !.page = "sending"]
     IN IF ~Present(now) \/ now.gen # r.gen
        THEN Attempted(a, r, Told) /\ Rests(a) /\ UNCHANGED <<file, lock, faults>>
        ELSE IF now.page = "sent"
        THEN GoesWith(a, "mark", now) /\ UNCHANGED <<file, lock, faults, attempts>>
        ELSE /\ Attempted(a, r, attempts[a][r.gen] + 1)
             /\ \/ /\ file' = Filed(mine, r.w) /\ lock' = a
                   /\ GoesWith(a, "send", mine) /\ UNCHANGED faults
                \/ /\ Fault
                   /\ file' \in HalfFiled(mine, r.w) /\ UNCHANGED lock
                   /\ GoesWith(a, "mark", [r EXCEPT !.page = "failed"])
  /\ UNCHANGED <<redis, clear, last, Ghosts>>

Send(a) ==
  /\ At(a, "send")
  /\ \E page \in {"sent", "failed"} :
       /\ GoesWith(a, "finish", [loc[a].rec EXCEPT !.page = page])
       /\ delivered' = [delivered EXCEPT ![loc[a].rec.gen] = IF page = "sent" THEN @ + 1 ELSE @]
  /\ UNCHANGED <<file, redis, lock, attempts, clear, last, faults, held, cleared>>

\* Fault: the outcome is left to the update that follows the release.
Finish_Deferred(a) ==
  /\ At(a, "finish") /\ Releases
  /\ Goes(a, "mark")
  /\ UNCHANGED <<file, redis, attempts, clear, last, faults, Ghosts>>

\* finish_gpu_quarantine_notification_claim; an error is swallowed.
Finish(a) ==
  /\ At(a, "finish") /\ Releases
  /\ Goes(a, "mark")
  /\ LET r == loc[a].rec IN
       \/ file' = Filed(r, r.w) /\ UNCHANGED <<faults, delivered>>
       \/ /\ Fault
          /\ file' \in HalfFiled(r, r.w)
          /\ delivered' = IF r.page = "sent" THEN Unpaged ELSE delivered
  /\ UNCHANGED <<redis, attempts, clear, last, held, cleared>>

\* update_gpu_quarantine_notification: nothing is done to another generation, and a
\* confirmed page does not become a failed one.
MarkedWorker(a) == IF a \in Monitors THEN loc[a].rec.w ELSE W(a)
\* Fault: a latch that is gone is written again.
Current_Recreated(a) == LET wrk == file.wrk[MarkedWorker(a)] IN
  IF Present(file.dev) THEN file.dev ELSE IF Present(wrk) THEN wrk ELSE loc[a].rec

Current(a) ==
  LET wrk == file.wrk[MarkedWorker(a)] IN
  IF loc[a].rec.scope = "gpu" /\ Present(file.dev) THEN file.dev ELSE wrk
Outcome(now, page) == IF now.page # "sent" \/ page = "sent" THEN [now EXCEPT !.page = page] ELSE now

Mark(a) ==
  /\ At(a, "mark") /\ lock = Nobody
  /\ LET r == loc[a].rec
         now == Current(a)
         new == Outcome(now, r.page)
     IN /\ IF r.page = "sent" THEN Attempted(a, r, Told) ELSE UNCHANGED attempts
        /\ IF ~Present(now) \/ now.scope # r.scope \/ now.gen # r.gen
           THEN Rests(a) /\ UNCHANGED <<file, lock, faults>>
           ELSE \/ /\ file' = Filed(new, MarkedWorker(a)) /\ lock' = a
                   /\ GoesWith(a, "markDev", Alias(new, MarkedWorker(a))) /\ UNCHANGED faults
                \/ /\ Fault
                   /\ file' \in HalfFiled(new, MarkedWorker(a)) /\ UNCHANGED lock
                   /\ Rests(a)
  /\ UNCHANGED <<redis, clear, last, Ghosts>>

MarkDev(a) ==
  /\ At(a, "markDev")
  /\ \/ /\ redis' = [redis EXCEPT !.dev = IF loc[a].rec.scope = "gpu" THEN Merged(@, file.dev) ELSE @]
        /\ Goes(a, "markWrk")
        /\ UNCHANGED <<lock, faults>>
     \/ Fault /\ Releases /\ Rests(a) /\ UNCHANGED redis
  /\ UNCHANGED <<file, attempts, clear, last, Ghosts>>

MarkWrk(a) ==
  /\ At(a, "markWrk") /\ Releases /\ Rests(a)
  /\ \/ redis' = [redis EXCEPT !.wrk[loc[a].rec.w] = Merged(@, loc[a].rec)] /\ UNCHANGED faults
     \/ Fault /\ UNCHANGED redis
  /\ UNCHANGED <<file, attempts, clear, last, Ghosts>>

---------------------------------------------------------------------------
(* clear_gpu_quarantine: the durable files of every alias first, then one DEL.    *)

Holds(r, g) == Present(r) /\ r.gen = g
Somewhere(f, k, g) == \/ Holds(f.dev, g) \/ Holds(k.dev, g)
                      \/ \E w \in Workers : Holds(f.wrk[w], g) \/ Holds(k.wrk[w], g)

ClearFiles ==
  /\ clear.pc = "idle" /\ Acquires(Operator)
  /\ \E w \in Workers :
       LET filed == {x \in Workers : Physical(file.wrk[x])}
           hashed == {x \in Workers : Physical(redis.wrk[x])}
       IN /\ file' = [dev |-> None,
                      wrk |-> [x \in Workers |-> IF x \in filed \cup {w} THEN None ELSE file.wrk[x]]]
          /\ clear' = [pc |-> "keys", w |-> w, gone |-> {g \in Events : Somewhere(file, redis, g)},
                       keys |-> filed \cup hashed \cup {w}]
  /\ held' = FALSE
  /\ UNCHANGED <<redis, loc, attempts, last, faults, cleared, delivered>>

ClearKeys ==
  /\ clear.pc = "keys" /\ Releases
  /\ clear' = Resting
  /\ redis' = [dev |-> None, wrk |-> [x \in Workers |-> IF x \in clear.keys THEN None ELSE redis.wrk[x]]]
  /\ cleared' = cleared \cup {g \in clear.gone : ~Somewhere(file, redis', g)}
  /\ UNCHANGED <<file, loc, attempts, last, faults, held, delivered>>

\* The files are gone and Redis is not reached: nothing was reported as cleared.
ClearFails ==
  /\ clear.pc = "keys" /\ Releases /\ Fault
  /\ clear' = Resting
  /\ delivered' = Unpaged
  /\ UNCHANGED <<file, redis, loc, attempts, last, held, cleared>>

---------------------------------------------------------------------------
(* A process dies, and the kernel releases its lock; Redis restarts empty. *)

Crash(a) ==
  /\ ~At(a, "idle") /\ Fault
  /\ Rests(a)
  /\ lock' = IF lock = a THEN Nobody ELSE lock
  /\ attempts' = [attempts EXCEPT ![a] = [g \in Events |-> 0]]
  /\ delivered' = IF At(a, "finish") /\ loc[a].rec.page = "sent" THEN Unpaged ELSE delivered
  /\ UNCHANGED <<file, redis, clear, last, held, cleared>>

Lose ==
  /\ redis # Empty /\ Fault /\ redis' = Empty
  /\ UNCHANGED <<file, lock, loc, attempts, clear, last, Ghosts>>

Writes(a) == (\E scope \in Scopes : Write(a, scope)) \/ WriteDev(a) \/ WriteWrk(a)
Reads(a) == Look(a) \/ Reread(a) \/ HydrateDev(a) \/ HydrateWrk(a)
ReadsBlindly(a) == BlindFile(a) \/ BlindHash(a) \/ Rehydrate(a)
Notifies(a) == \/ Quiet(a) \/ Restore(a) \/ Unclaimed(a) \/ Claim(a) \/ Send(a) \/ Finish(a)
               \/ Mark(a) \/ MarkDev(a) \/ MarkWrk(a)
Clears == ClearFiles \/ ClearKeys \/ ClearFails

Next == \/ \E a \in Agents : Writes(a) \/ Reads(a) \/ Notifies(a) \/ Crash(a)
        \/ Clears \/ Lose

Spec == Init /\ [][Next]_vars

\* With the monitors that have no device to read for.
BlindNext == Next \/ \E a \in Blind : ReadsBlindly(a)
BlindSpec == Init /\ [][BlindNext]_vars

---------------------------------------------------------------------------
\* A latch that a clear reported as removed is in no replica ever again, though a
\* writer, a notifier or a reader that knows its device still has a copy of it in
\* its hands.  (ClearKeys reports, and the lock and the second look of a reader keep
\* it so.)  It does not hold of BlindSpec: a monitor that reads without a device
\* (worker_monitor.py:1526) repairs Redis without the lock and the second look
\* (gpu_quarantine.py:640-653), and so writes a cleared latch back.
ClearedStaysCleared == \A g \in cleared : ~Somewhere(file, redis, g)

\* The comment above the repair in read_gpu_quarantine: "a clear that won the lock
\* can therefore never be revived by a stale pre-clear snapshot."
NeverRevived == ClearedStaysCleared

\* An acknowledged physical latch closes the admission of every worker on the GPU,
\* also after Redis has lost its hashes, until an operator clears it.
AdmissionIsClosed == held => \A w \in Workers : Physical(View(w))

\* A generation is paged under a claim once, by whatever process, unless the durable
\* mark of the delivery was lost.
OnePagePerGeneration == \A g \in Events : delivered[g] <= 1

=============================================================================
