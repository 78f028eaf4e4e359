------------------------------- MODULE ChildReap -------------------------------
(***************************************************************************)
(* The proof that a CUDA child is gone: the process table of one session,  *)
(* the registries of worker identities and PersistentWorker.shutdown, for  *)
(* children that fork, take a group of their own and end by themselves at  *)
(* any moment, while PIDs are given out again.                             *)
(* All processes stay in the session of the GPU worker, Outer; the parent  *)
(* of an orphan is None.                                                   *)
(***************************************************************************)
EXTENDS Naturals

CONSTANTS
    Handles,   \* PersistentWorker objects of the process
    Pids,      \* process numbers, Outer's left out
    Outer,     \* the GPU worker's own process, and its process group
    None,
    MaxBorn,   \* bound on the processes started or forked
    MaxMisses  \* bound on the deadlines that pass

ASSUME ReapAssumption == Outer \notin Pids /\ None \notin Pids /\ MaxBorn \in Nat /\ MaxMisses \in Nat

VARIABLES
    proc,     \* the process table
    hnd,      \* the handles and the shutdown that runs on each
    freeze,   \* _freeze_worker_process_tree of each handle
    look,     \* the session audit of each handle: what is listed and what is read of /proc
    starting, \* _STARTING_WORKER_IDENTITIES
    active,   \* _ACTIVE_WORKER_IDENTITIES
    born,     \* processes so far; start_ticks of the latest
    misses    \* deadlines that passed

vars == <<proc, hnd, freeze, look, starting, active, born, misses>>

\* "of" and "cut" are the model's own: the handle whose child founded the family, and
\* whether the process, or one it descends from, was out of a completed freeze's sight,
\* was given the PID of the leader while that was being frozen, or was missed by an audit.
Free == [st |-> "free", sig |-> "none", up |-> None, grp |-> Outer, gen |-> 0, of |-> None, cut |-> FALSE]

\* "own" is the generation behind multiprocessing's Process object, "gen" the captured one;
\* "crashed" is the model's own: the leader had ended when the shutdown began.
NewHandle == [pc |-> "new", pid |-> None, own |-> 0, gen |-> 0, start |-> FALSE, id |-> FALSE,
              acked |-> FALSE, audit |-> FALSE, crashed |-> FALSE]

\* "settled": there is a stable_snapshot, "marker".
NoFreeze == [known |-> {}, settled |-> FALSE, marker |-> {}]

\* "since" is the model's own: the processes born by the time /proc was listed.
NoLook == [todo |-> {}, since |-> 0, snap |-> [p \in Pids |-> Free]]

Init ==
    /\ proc = [p \in Pids |-> Free]
    /\ hnd = [h \in Handles |-> NewHandle]
    /\ freeze = [h \in Handles |-> NoFreeze]
    /\ look = [h \in Handles |-> NoLook]
    /\ starting = {}
    /\ active = {}
    /\ born = 0 /\ misses = 0

-----------------------------------------------------------------------------
(* Processes.                                                              *)

Present(p) == proc[p].st # "free"

Live(p) == proc[p].st \in {"run", "stop"}

\* _read_linux_process_identity: a PID and its start ticks.
Identity(p) == [pid |-> p, gen |-> proc[p].gen]

\* _same_process_generation
Same(id) == Present(id.pid) /\ proc[id.pid].gen = id.gen

Frozen(p) == proc[p].st \in {"stop", "zombie"}

Group(g) == {p \in Pids : Present(p) /\ proc[p].grp = g}

\* _descendants_from_snapshot: the closure over the parents of a table.
Below(table, root) ==
    {p \in Pids : \A S \in SUBSET Pids :
        (\A q \in Pids : table[q].st # "free" /\ table[q].up \in S \cup {root} => q \in S) => p \in S}

Descendants(root) == Below(proc, root)

\* The shutdown is at the tree of a leader that it found present.
Freezing(h) == hnd[h].pc \in {"stop", "snapshot", "mark", "settle", "kill", "verify"}

\* No PID is given out again before the constructor it was given to has read it.
Born(h, p, up, grp, cut) ==
    /\ ~Present(p)
    /\ \A g \in Handles : hnd[g].pc = "spawned" => hnd[g].pid # p
    /\ born < MaxBorn
    /\ born' = born + 1
    /\ proc' = [proc EXCEPT ![p] = [Free EXCEPT !.st = "run", !.up = up, !.grp = grp,
                                                !.gen = born + 1, !.of = h,
                                                !.cut = cut \/ (Freezing(h) /\ hnd[h].pid = p)]]

\* A process with a signal pending does not get back to its program; a child waits for the ACK.
Acts(p) ==
    /\ proc[p].st = "run"
    /\ proc[p].sig = "none"
    /\ proc[p].gen = hnd[proc[p].of].own => hnd[proc[p].of].acked

Fork(p) ==
    /\ Acts(p)
    /\ \E q \in Pids : Born(proc[p].of, q, p, proc[p].grp, proc[p].cut)
    /\ UNCHANGED <<hnd, freeze, look, starting, active, misses>>

\* setpgid(0, 0), as a build tool does for each of its jobs.
Regroup(p) ==
    /\ Acts(p)
    /\ proc[p].grp # p
    /\ proc' = [proc EXCEPT ![p].grp = p]
    /\ UNCHANGED <<hnd, freeze, look, starting, active, born, misses>>

\* An orphan is collected at once.
Ended(p) ==
    proc' = [q \in Pids |->
               IF q = p THEN IF proc[p].up = None THEN Free ELSE [proc[q] EXCEPT !.st = "zombie", !.sig = "none"]
               ELSE IF ~(Present(q) /\ proc[q].up = p) THEN proc[q]
               ELSE IF Live(q) THEN [proc[q] EXCEPT !.up = None] ELSE Free]

\* A crash, an exit, or the kernel's OOM killer.
Exit(p) ==
    /\ Live(p)
    /\ Ended(p)
    /\ UNCHANGED <<hnd, freeze, look, starting, active, born, misses>>

\* A pending signal takes effect: late, if the process is in an uninterruptible wait.
TakeSignal(p) ==
    /\ Live(p)
    /\ \/ proc[p].sig = "stop" /\ proc' = [proc EXCEPT ![p].st = "stop", ![p].sig = "none"]
       \/ proc[p].sig = "kill" /\ Ended(p)
    /\ UNCHANGED <<hnd, freeze, look, starting, active, born, misses>>

\* The parent collects a zombie; for Outer that is any poll of any Process.
Collect(p) ==
    /\ proc[p].st = "zombie"
    /\ proc[p].up \in Pids => proc[proc[p].up].st = "run"
    /\ proc' = [proc EXCEPT ![p] = Free]
    /\ UNCHANGED <<hnd, freeze, look, starting, active, born, misses>>

Signalled(S, sig) ==
    [p \in Pids |->
       IF p \in S /\ Live(p) /\ proc[p].sig # "kill" /\ ~(sig = "stop" /\ Frozen(p))
       THEN [proc[p] EXCEPT !.sig = sig] ELSE proc[p]]

-----------------------------------------------------------------------------
(* Start-up: the registries.                                               *)

Pc(h, pc) == hnd[h].pc = pc

\* The registries hold one identity of a PID.
Put(S, id) == {other \in S : other.pid # id.pid} \cup {id}

Captured(h) == [pid |-> hnd[h].pid, gen |-> hnd[h].gen]

Start(h) ==
    /\ Pc(h, "new")
    /\ \E p \in Pids :
         /\ Born(h, p, Outer, Outer, FALSE)
         /\ hnd' = [hnd EXCEPT ![h].pc = "spawned", ![h].pid = p, ![h].own = born + 1]
    /\ UNCHANGED <<freeze, look, starting, active, misses>>

\* The constructor reads the identity behind the PID it was given.
Register(h) ==
    LET p == hnd[h].pid IN
    /\ Pc(h, "spawned")
    /\ Present(p) /\ proc[p].up = Outer
    /\ hnd' = [hnd EXCEPT ![h].pc = "starting", ![h].start = TRUE, ![h].gen = proc[p].gen]
    /\ starting' = Put(starting, Identity(p))
    /\ UNCHANGED <<proc, freeze, look, active, born, misses>>

\* The child's setpgid(0, 0), reported as CONTAINED.
EnterGroup(h) ==
    LET p == hnd[h].pid IN
    /\ ~hnd[h].acked
    /\ p # None
    /\ proc[p].gen = hnd[h].own /\ proc[p].st = "run" /\ proc[p].sig = "none" /\ proc[p].grp = Outer
    /\ proc' = [proc EXCEPT ![p].grp = p]
    /\ UNCHANGED <<hnd, freeze, look, starting, active, born, misses>>

\* CONTAINED agrees with the identity that is read, which is the registered one.
Promote(h) ==
    LET p == hnd[h].pid IN
    /\ Pc(h, "starting")
    /\ Same(Captured(h)) /\ proc[p].gen = hnd[h].own
    /\ proc[p].grp = p
    /\ Identity(p) \in starting
    /\ starting' = starting \ {Identity(p)}
    /\ active' = Put(active, Identity(p))
    /\ hnd' = [hnd EXCEPT ![h].pc = "active", ![h].id = TRUE, ![h].acked = TRUE]
    /\ UNCHANGED <<proc, freeze, look, born, misses>>

-----------------------------------------------------------------------------
(* shutdown.                                                               *)

\* The process behind multiprocessing's Process object, dead or alive.
Owned(h) == proc[hnd[h].pid].gen = hnd[h].own /\ Present(hnd[h].pid)

\* A child without an attested identity is adopted if it leads its group by now.
Adoptable(h) ==
    LET p == hnd[h].pid IN
    /\ ~hnd[h].id
    /\ Present(p) /\ proc[p].grp = p
    /\ hnd[h].start => Same(Captured(h))

\* A retirement, a crash that was noticed, a failed constructor, or another attempt
\* after one that proved nothing.  A leader that is there is frozen and killed with
\* its tree; one that is gone leaves the audit of the session.
Enter(h) ==
    LET p == hnd[h].pid
        known == hnd[h].id \/ Adoptable(h)
        gen == IF Adoptable(h) THEN proc[p].gen ELSE hnd[h].gen
        tree == known /\ Same([pid |-> p, gen |-> gen])
        audit == ~tree /\ (known \/ hnd[h].start)
    IN
    /\ hnd[h].pc \in {"spawned", "starting", "active", "unproven"}
    /\ hnd' = [hnd EXCEPT ![h].pc = IF tree THEN "stop" ELSE "join", ![h].id = known, ![h].gen = gen,
                           ![h].audit = audit,
                           ![h].crashed = @ \/ ~(Owned(h) /\ Live(p))]
    /\ freeze' = [freeze EXCEPT ![h] = [NoFreeze EXCEPT !.known = IF tree THEN {[pid |-> p, gen |-> gen]} ELSE {}]]
    /\ UNCHANGED <<proc, look, starting, active, born, misses>>

Refuses(h) == hnd' = [hnd EXCEPT ![h].pc = "join"]

\* One pass of _freeze_worker_process_tree: the leader is read, its group stopped.
StopGroup(h) ==
    LET p == hnd[h].pid
        present == Same(Captured(h))
        moved == present /\ proc[p].grp # p
        escaped == ~present /\ ~freeze[h].settled
    IN
    /\ Pc(h, "stop")
    /\ IF moved \/ escaped
       THEN Refuses(h) /\ UNCHANGED <<proc, freeze>>
       ELSE /\ proc' = Signalled(Group(p), "stop")
            /\ hnd' = [hnd EXCEPT ![h].pc = "snapshot"]
            /\ UNCHANGED freeze
    /\ UNCHANGED <<look, starting, active, born, misses>>

InSight(h) == Group(hnd[h].pid) \cup (IF Same(Captured(h)) THEN Descendants(hnd[h].pid) ELSE {})

\* _snapshot_linux_processes: the group and the leader's descendants.
Snapshot(h) ==
    LET ids == {Identity(q) : q \in InSight(h)}
    IN
    /\ Pc(h, "snapshot")
    /\ IF \E id \in ids, k \in freeze[h].known : id.pid = k.pid /\ id.gen # k.gen
       THEN Refuses(h) /\ UNCHANGED freeze
       ELSE /\ hnd' = [hnd EXCEPT ![h].pc = "mark"]
            /\ freeze' = [freeze EXCEPT ![h].known = @ \cup ids]
    /\ UNCHANGED <<proc, look, starting, active, born, misses>>

\* Process.join
Collected(h) ==
    /\ proc' = IF Owned(h) THEN [proc EXCEPT ![hnd[h].pid] = Free] ELSE proc
    /\ freeze' = [freeze EXCEPT ![h] = NoFreeze]

Survivors(h) == {id \in freeze[h].known : Same(id)}

\* _signal_process_generation, for the generations that were found running.
Mark(h) ==
    /\ Pc(h, "mark")
    /\ proc' = Signalled({id.pid : id \in Survivors(h)}, "stop")
    /\ hnd' = [hnd EXCEPT ![h].pc = "settle"]
    /\ UNCHANGED <<freeze, look, starting, active, born, misses>>

\* The two passes agree: the freeze is complete.
Stable(h) == freeze[h].settled /\ freeze[h].marker = Survivors(h)

\* Out of the freeze's sight: outside of the group and without an ancestry to the leader.
Hidden(h) == {p \in Pids : Present(p) /\ proc[p].of = h} \ InSight(h)

\* Fault: one pass that finds everybody frozen is enough.
Settle_Once(h) ==
    LET frozen == \A id \in Survivors(h) : Frozen(id.pid) IN
    /\ Pc(h, "settle")
    /\ hnd' = [hnd EXCEPT ![h].pc = IF frozen THEN "kill" ELSE "stop"]
    /\ proc' = [p \in Pids |-> IF frozen /\ p \in Hidden(h) THEN [proc[p] EXCEPT !.cut = TRUE] ELSE proc[p]]
    /\ UNCHANGED <<freeze, look, starting, active, born, misses>>

Settle(h) ==
    LET frozen == \A id \in Survivors(h) : Frozen(id.pid) IN
    /\ Pc(h, "settle")
    /\ IF frozen /\ Stable(h)
       THEN /\ hnd' = [hnd EXCEPT ![h].pc = "kill"]
            /\ proc' = [p \in Pids |-> IF p \in Hidden(h) THEN [proc[p] EXCEPT !.cut = TRUE] ELSE proc[p]]
            /\ UNCHANGED freeze
       ELSE /\ hnd' = [hnd EXCEPT ![h].pc = "stop"]
            /\ freeze' = [freeze EXCEPT ![h].settled = frozen, ![h].marker = IF frozen THEN Survivors(h) ELSE {}]
            /\ UNCHANGED proc
    /\ UNCHANGED <<look, starting, active, born, misses>>

\* The group, and every known process that had left it.
Kill(h) ==
    /\ Pc(h, "kill")
    /\ proc' = Signalled(Group(hnd[h].pid) \cup {id.pid : id \in Survivors(h)}, "kill")
    /\ hnd' = [hnd EXCEPT ![h].pc = "verify"]
    /\ UNCHANGED <<freeze, look, starting, active, born, misses>>

\* Everybody known has ended; the join finds it so, and collects the leader.
Verify(h) ==
    /\ Pc(h, "verify")
    /\ \A id \in Survivors(h) : ~Live(id.pid)
    /\ \A p \in Group(hnd[h].pid) : ~Live(p)
    /\ hnd' = [hnd EXCEPT ![h].pc = "drain"]
    /\ Collected(h)
    /\ UNCHANGED <<look, starting, active, born, misses>>

\* A deadline, or a /proc entry that cannot be read.
GiveUp(h) ==
    /\ hnd[h].pc \in {"stop", "verify"}
    /\ Refuses(h)
    /\ misses < MaxMisses /\ misses' = misses + 1
    /\ UNCHANGED <<proc, freeze, look, starting, active, born>>

\* process.kill() on a leader that the join found alive.
KillOwned(h) ==
    /\ Pc(h, "join")
    /\ Owned(h) /\ Live(hnd[h].pid)
    /\ proc' = Signalled({hnd[h].pid}, "kill")
    /\ proc' # proc
    /\ UNCHANGED <<hnd, freeze, look, starting, active, born, misses>>

\* Without a proof the handle and its registration are kept for another attempt.
Join(h) ==
    /\ Pc(h, "join")
    /\ ~(Owned(h) /\ Live(hnd[h].pid))
    /\ Collected(h)
    /\ hnd' = [hnd EXCEPT ![h].pc = IF ~hnd[h].audit THEN "unproven" ELSE IF hnd[h].id THEN "drain" ELSE "audit"]
    /\ UNCHANGED <<look, starting, active, born, misses>>

\* _registered_worker_owns_reused_process_group
Reused(h) ==
    \E id \in active : id.pid = hnd[h].pid /\ id.gen # hnd[h].gen /\ Same(id) /\ proc[id.pid].grp = id.pid

Closed(h) ==
    hnd' = [hnd EXCEPT ![h] = [NewHandle EXCEPT !.pc = "proven", !.audit = hnd[h].audit, !.crashed = hnd[h].crashed]]

\* Fault: whatever is registered under the PID is removed.
Release_ByPid(h) ==
    /\ starting' = {id \in starting : id.pid # hnd[h].pid}
    /\ active' = {id \in active : id.pid # hnd[h].pid}
    /\ Closed(h)

\* _unregister_worker_identity, and the handle is closed.
Release(h) ==
    /\ starting' = starting \ {Captured(h)}
    /\ active' = active \ {Captured(h)}
    /\ Closed(h)

\* Only ESRCH proves the group empty; after a crash its number may belong to another child.
Drain(h) ==
    /\ Pc(h, "drain")
    /\ IF hnd[h].audit
       THEN /\ Group(hnd[h].pid) = {} \/ Reused(h)
            /\ hnd' = [hnd EXCEPT ![h].pc = "audit"]
            /\ UNCHANGED <<starting, active>>
       ELSE Group(hnd[h].pid) = {} /\ Release(h)
    /\ UNCHANGED <<proc, freeze, look, born, misses>>

\* _snapshot_linux_processes of the audit: /proc is listed, then one entry is read after
\* the other, and nobody is stopped meanwhile.
List(h) ==
    /\ Pc(h, "audit")
    /\ hnd' = [hnd EXCEPT ![h].pc = "read"]
    /\ look' = [look EXCEPT ![h] = [NoLook EXCEPT !.todo = {p \in Pids : Present(p)}, !.since = born]]
    /\ UNCHANGED <<proc, freeze, starting, active, born, misses>>

\* What the audit takes from an entry; one that has gone since is passed over.
Entry(p) == IF Present(p) THEN [proc[p] EXCEPT !.st = "run", !.sig = "none", !.cut = FALSE] ELSE Free

Read(h) ==
    /\ Pc(h, "read")
    /\ \E p \in look[h].todo :
         look' = [look EXCEPT ![h].todo = @ \ {p}, ![h].snap[p] = Entry(p)]
    /\ UNCHANGED <<proc, hnd, freeze, starting, active, born, misses>>

Seen(h, p) == look[h].snap[p].st # "free"

\* The registered children but this one, whose generation is in the snapshot.
Others(h, S) == {id \in S : Seen(h, id.pid) /\ look[h].snap[id.pid].gen = id.gen /\ id # Captured(h)}

\* Fault: a process is known by the group it is in.
Known_ByGroup(h) ==
    {id.pid : id \in Others(h, starting)} \cup
    {p \in Pids : Seen(h, p) /\ \E id \in Others(h, active) : look[h].snap[p].grp = id.pid}

\* Children that have not entered their group yet are known by their exact generation,
\* the others with all their descendants.
Known(h) ==
    LET leads == {id.pid : id \in {id \in Others(h, active) : look[h].snap[id.pid].grp = id.pid}}
    IN  {id.pid : id \in Others(h, starting)} \cup leads \cup UNION {Below(look[h].snap, p) : p \in leads}

\* Out of the audit's sight: forked since the listing, or read under an ancestor whose PID
\* was given out again since the listing.
Missed(h) ==
    {p \in Pids : proc[p].gen > look[h].since} \cup
    UNION {Below(look[h].snap, q) : q \in {q \in Pids : look[h].snap[q].gen > look[h].since}}

\* _worker_session_is_contained_after_leader_exit: everybody who was read is known, or the
\* audit starts over.
Audit(h) ==
    /\ Pc(h, "read") /\ look[h].todo = {}
    /\ look' = [look EXCEPT ![h] = NoLook]
    /\ IF \A p \in Pids : Seen(h, p) => p \in Known(h)
       THEN /\ Release(h)
            /\ proc' = [p \in Pids |-> IF proc[p].of = h THEN [proc[p] EXCEPT !.cut = p \in Missed(h)] ELSE proc[p]]
       ELSE /\ hnd' = [hnd EXCEPT ![h].pc = "audit"]
            /\ UNCHANGED <<proc, starting, active>>
    /\ UNCHANGED <<freeze, born, misses>>

NotProven(h) ==
    /\ hnd[h].pc \in {"join", "drain", "audit"}
    /\ hnd' = [hnd EXCEPT ![h].pc = "unproven", ![h].audit = FALSE]
    /\ freeze' = [freeze EXCEPT ![h] = NoFreeze]
    /\ misses < MaxMisses /\ misses' = misses + 1
    /\ UNCHANGED <<proc, look, starting, active, born>>

Process(p) == Fork(p) \/ Regroup(p) \/ Exit(p) \/ TakeSignal(p) \/ Collect(p)

Constructor(h) == Start(h) \/ Register(h) \/ EnterGroup(h) \/ Promote(h)

Shutdown(h) ==
    \/ Enter(h)
    \/ StopGroup(h) \/ Snapshot(h) \/ Mark(h) \/ Settle(h) \/ Kill(h) \/ Verify(h) \/ GiveUp(h)
    \/ KillOwned(h) \/ Join(h) \/ Drain(h) \/ List(h) \/ Read(h) \/ Audit(h) \/ NotProven(h)

Next == (\E p \in Pids : Process(p)) \/ (\E h \in Handles : Constructor(h) \/ Shutdown(h))

Spec == Init /\ [][Next]_vars

-----------------------------------------------------------------------------
(* Properties.                                                             *)

\* Live processes of a child's family.
Family(h) == {p \in Pids : Live(p) /\ proc[p].of = h}

\* subprocess_pool.py:628 "Any identity, enumeration, or stabilization uncertainty
\* fails closed": a shutdown that succeeded has left nothing alive of the child's
\* process group, and nothing that had an ancestry to it when it was frozen.  Left out is
\* who took the leader's own PID meanwhile: killpg takes its group for the leader's.
ReapIsComplete ==
    \A h \in Handles : Pc(h, "proven") => \A p \in Family(h) : hnd[h].audit \/ proc[p].cut

\* subprocess_pool.py:438 _worker_session_is_contained_after_leader_exit: a shutdown that
\* found the leader gone leaves nobody of its family that was there when /proc was
\* listed, whatever group or PID of another child it may be found under.  Left out is
\* what the reading of /proc misses: a process that was forked after the listing by one
\* that ended before its own entry was read, or read under a PID that changed hands.
CrashedLeavesNobody ==
    \A h \in Handles : Pc(h, "proven") /\ hnd[h].audit => \A p \in Family(h) : proc[p].cut

\* subprocess_pool.py:438 "Prove that a crashed worker left no unknown process in its
\* outer SID".  Not kept: the listing and the entries of /proc are not one moment.
NobodyIsUnknown ==
    \A h \in Handles : Pc(h, "proven") /\ hnd[h].audit => Family(h) = {}

\* subprocess_pool.py:407 _unregister_worker_identity: a child in service is in the
\* registry, so that the audit of another one passes over it, although the PID may have
\* been another child's before and that one's shutdown may end later.
ServingIsRegistered ==
    \A h \in Handles : Pc(h, "active") /\ Same(Captured(h)) => Captured(h) \in active

\* subprocess_pool.py:438: the same promise for every child that had ended before its
\* shutdown began.  Not kept: a zombie that nobody has collected counts as a leader that
\* is there, and what descends from it has no ancestry to it any more.
CrashIsAudited ==
    \A h \in Handles : Pc(h, "proven") /\ hnd[h].crashed => Family(h) = {}
=============================================================================
