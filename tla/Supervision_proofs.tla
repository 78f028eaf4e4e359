------------------------- MODULE Supervision_proofs -------------------------
(***************************************************************************)
(* The invariants of Supervision for any number of generations, restart    *)
(* attempts, faults and clears.                                            *)
(*                                                                         *)
(* Inv has the types, what keeps a process in sight (Sight) and what keeps *)
(* the count of restarts with their budget (Recovery).                     *)
(***************************************************************************)
EXTENDS Supervision, SequenceTheorems, TLAPS

Sessions == [lead : Leads, kids : BOOLEAN]
Sweeps   == [pc : {"idle", "act", "examine"}, saw : {"nothing", "open", "soft", "hard"}, pid : 0..MaxGens]
Restarts == [pc : {"get", "check", "prove", "pause", "settle", "cleanup", "watch", "failed"},
             req : Requests, target : 0..MaxGens]
Handles  == [gen : 0..MaxGens, known : BOOLEAN]

\* Generations are born in order.
Born(n) == \A g \in Gens : session[g].lead = "none" <=> g > n
InOrder == \E n \in 0..MaxGens : Born(n)

\* A PID that another process has, or none has yet, has no children.
Childless == \A g \in Gens : session[g].lead \in {"none", "reused", "usurped"} => ~session[g].kids

\* The map and the handle name one process between them: what is registered is what
\* was spawned, and a spawn finds both empty.
OneName ==
  /\ map = NoGen \/ held.gen = NoGen \/ map = held.gen
  /\ restart.pc = "pause" => map = NoGen /\ held.gen = NoGen
  /\ restart.pc \in {"prove", "settle", "cleanup"} =>
       restart.target # NoGen /\ map \in {NoGen, restart.target} /\ held.gen \in {NoGen, restart.target}

\* What a sweep has read before it looks at the process is still registered, when the
\* handle it may drop is of that process.
SweepSees ==
  /\ sweep.pid # NoGen => sweep.pc = "examine"
  /\ sweep.pid # NoGen /\ held.gen = sweep.pid => map = sweep.pid

\* No name is given out before its generation is born.
Unborn == \A g \in Gens : session[g].lead = "none" => g \notin {map, held.gen, restart.target}

\* A leader that runs is in the map or retained, so that without its children a session
\* that only a latch accounts for has no process.
Led == \A g \in Gens : session[g].lead = "up" => g \in {map, held.gen}

Sight == /\ InOrder /\ Childless /\ Unborn /\ OneName /\ SweepSees
         /\ Led /\ SessionIsAccounted /\ OneGeneration

\* An attempt is reserved and its process not spawned yet.
InFlight == IF restart.pc \in {"check", "prove", "pause"} THEN 1 ELSE 0

\* An open admission is evidence of recovery, also when a sweep has only read it.
Evidence ==
  /\ FreshlyOpen => unproven = 0
  /\ sweep.pc = "act" /\ sweep.saw = "open" => unproven = 0

\* Before the first clear, restart_in_progress is owned by one request, in the queue or
\* in the hands of the loop.
Owned ==
  latch = "none" /\ clears = 0 =>
    /\ unproven + InFlight <= budget
    /\ inProgress <=> queue # <<>> \/ restart.pc # "get"
    /\ Len(queue) <= 1 /\ (restart.pc # "get" => queue = <<>>)
    /\ sweep.pc = "examine" => ~inProgress

Recovery ==
  /\ Evidence
  /\ latch # "none" \/ unproven + InFlight <= budget + 1
  /\ Owned
  /\ RestartsAreBounded

Inv == TypeOK /\ Sight /\ Recovery

-----------------------------------------------------------------------------
(* Types.                                                                  *)

LEMMA TypeParts ==
  TypeOK <=>
    /\ session \in [Gens -> Sessions] /\ map \in 0..MaxGens /\ beat \in Beats
    /\ latch \in {"none", "worker", "physical"} /\ budget \in 0..MaxAttempts
    /\ queue \in Seq(Requests) /\ inProgress \in BOOLEAN /\ held \in Handles
    /\ sweep \in Sweeps /\ restart \in Restarts
    /\ faults \in 0..MaxFaults /\ clears \in 0..MaxClears /\ lost \subseteq Gens /\ unproven \in Nat
BY DEF TypeOK, Sessions, Sweeps, Restarts, Handles

LEMMA Blanks ==
  /\ NoBeat \in Beats /\ NoRequest \in Requests /\ NoSweep \in Sweeps /\ NoRestart \in Restarts /\ NotHeld \in Handles
  /\ 1 \in Gens /\ \A g \in 0..MaxGens : g # NoGen => g \in Gens
BY SupervisionAssumption
   DEF NoBeat, Beats, States, NoRequest, Requests, NoSweep, Sweeps, NoRestart, Restarts, NotHeld, Handles, NoGen, Gens

\* The generation that a spawn makes is the next one.
LEMMA NewbornIsNext ==
  ASSUME InOrder, \E g \in Gens : session[g].lead = "none"
  PROVE  /\ Newborn \in Gens /\ session[Newborn].lead = "none"
         /\ \E n \in 0..MaxGens : Born(n) /\ Newborn = n + 1
<1>1. PICK n \in 0..MaxGens : Born(n)
  BY DEF InOrder
<1>2. n + 1 \in Gens /\ session[n + 1].lead = "none" /\ \A h \in 1..n : session[h].lead # "none"
  BY <1>1, SupervisionAssumption DEF Born, Gens
<1>3. (n + 1) - 1 = n
  BY SupervisionAssumption
<1>4. \E g \in Gens : session[g].lead = "none" /\ \A h \in 1..(g - 1) : session[h].lead # "none"
  BY <1>2, <1>3
<1>5. Newborn \in Gens /\ session[Newborn].lead = "none" /\ \A h \in 1..(Newborn - 1) : session[h].lead # "none"
  BY <1>4 DEF Newborn
<1>6. n + 1 <= Newborn /\ ~(n + 1 < Newborn)
  BY <1>1, <1>2, <1>5, SupervisionAssumption DEF Born, Gens
<1> QED
  BY <1>1, <1>5, <1>6, SupervisionAssumption DEF Gens

LEMMA Queues ==
  ASSUME NEW q \in Seq(Requests)
  PROVE  /\ \A r \in Requests : Append(q, r) \in Seq(Requests) /\ Len(Append(q, r)) = Len(q) + 1 /\ Append(q, r) # <<>>
         /\ q # <<>> => Head(q) \in Requests /\ Tail(q) \in Seq(Requests) /\ Len(Tail(q)) = Len(q) - 1
         /\ Len(q) \in Nat /\ (q = <<>> <=> Len(q) = 0)
BY AppendProperties, HeadTailProperties, LenProperties, EmptySeq

\* What a step may make of a session.
LEMMA SessionWrites ==
  ASSUME session \in [Gens -> Sessions], held \in Handles, NEW g \in Gens
  PROVE  /\ \A l \in Leads : [session EXCEPT ![g].lead = l] \in [Gens -> Sessions]
         /\ \A l \in Leads, k \in BOOLEAN : [session EXCEPT ![g] = [lead |-> l, kids |-> k]] \in [Gens -> Sessions]
         /\ \A k \in BOOLEAN : [session EXCEPT ![g].kids = k] \in [Gens -> Sessions]
         /\ Emptied(g) \in [Gens -> Sessions]
         /\ [Emptied(g) EXCEPT ![g].lead = "gone"] \in [Gens -> Sessions]
         /\ Collected(g) \in [Gens -> Sessions] /\ Dropping(g) \in Handles
         /\ Partly(g) => session' \in [Gens -> Sessions] /\ held' \in Handles
<1>1. \A l \in Leads : [session[g] EXCEPT !.lead = l] \in Sessions
  BY DEF Sessions
<1>2. \A k \in BOOLEAN : [session[g] EXCEPT !.kids = k] \in Sessions
  BY DEF Sessions
<1>3. \A l \in Leads, k \in BOOLEAN : [lead |-> l, kids |-> k] \in Sessions
  BY DEF Sessions
<1>4. \A l \in Leads : [session EXCEPT ![g].lead = l] \in [Gens -> Sessions]
  BY <1>1
<1>5. \A k \in BOOLEAN : [session EXCEPT ![g].kids = k] \in [Gens -> Sessions]
  BY <1>2
<1>6. \A l \in Leads, k \in BOOLEAN : [session EXCEPT ![g] = [lead |-> l, kids |-> k]] \in [Gens -> Sessions]
  BY <1>3
<1>7. Emptied(g) \in [Gens -> Sessions]
  BY <1>3 DEF Emptied, Sessions, Leads
<1>8. [Emptied(g) EXCEPT ![g].lead = "gone"] \in [Gens -> Sessions]
  <2>1. [Emptied(g)[g] EXCEPT !.lead = "gone"] \in Sessions
    BY <1>7 DEF Sessions, Leads
  <2> QED
    BY <1>7, <2>1
<1>9. Collected(g) \in [Gens -> Sessions] /\ Dropping(g) \in Handles
  <2>1. session[g].lead \in Leads /\ "gone" \in Leads
    BY DEF Sessions, Leads
  <2> QED
    BY <1>4, <2>1, Blanks DEF Collected, Dropping
<1>10. Partly(g) => session' \in [Gens -> Sessions] /\ held' \in Handles
  <2>1. [session EXCEPT ![g].lead = "zombie"] \in [Gens -> Sessions]
    BY <1>4 DEF Leads
  <2> QED
    BY <1>9, <2>1 DEF Partly, Collect
<1> QED
  BY <1>4, <1>5, <1>6, <1>7, <1>8, <1>9, <1>10

LEMMA TypeStep ==
  ASSUME Inv, Next
  PROVE  TypeOK'
<1>a. /\ session \in [Gens -> Sessions] /\ map \in 0..MaxGens /\ beat \in Beats
      /\ latch \in {"none", "worker", "physical"} /\ budget \in 0..MaxAttempts
      /\ queue \in Seq(Requests) /\ inProgress \in BOOLEAN /\ held \in Handles
      /\ sweep \in Sweeps /\ restart \in Restarts
      /\ faults \in 0..MaxFaults /\ clears \in 0..MaxClears /\ lost \subseteq Gens /\ unproven \in Nat
  BY TypeParts DEF Inv
<1> DEFINE Goal ==
      /\ session' \in [Gens -> Sessions] /\ map' \in 0..MaxGens /\ beat' \in Beats
      /\ latch' \in {"none", "worker", "physical"} /\ budget' \in 0..MaxAttempts
      /\ queue' \in Seq(Requests) /\ inProgress' \in BOOLEAN /\ held' \in Handles
      /\ sweep' \in Sweeps /\ restart' \in Restarts
      /\ faults' \in 0..MaxFaults /\ clears' \in 0..MaxClears /\ lost' \subseteq Gens /\ unproven' \in Nat
<1> SUFFICES Goal
  BY DEF TypeOK, Sessions, Sweeps, Restarts, Handles
<1>b. /\ map # NoGen => map \in Gens
      /\ held.gen \in 0..MaxGens /\ (held.gen # NoGen => held.gen \in Gens)
      /\ restart.target \in 0..MaxGens /\ (restart.target # NoGen => restart.target \in Gens)
      /\ sweep.pid \in 0..MaxGens /\ (sweep.pid # NoGen => sweep.pid \in Gens)
      /\ restart.req \in Requests
  BY <1>a, Blanks DEF Handles, Restarts, Sweeps
<1>z. /\ 0 \in 0..MaxAttempts /\ NoGen \in 0..MaxGens /\ NoGen = 0
      /\ faults < MaxFaults => faults + 1 \in 0..MaxFaults
  BY <1>a, SupervisionAssumption DEF NoGen
<1>q. /\ \A r \in Requests : Append(queue, r) \in Seq(Requests)
      /\ queue # <<>> => Head(queue) \in Requests /\ Tail(queue) \in Seq(Requests)
      /\ \A r \in BOOLEAN : RequestFor(r) \in Requests /\ [gen |-> NoGen, required |-> r] \in Requests
  <2>1. \A r \in BOOLEAN : RequestFor(r) \in Requests /\ [gen |-> NoGen, required |-> r] \in Requests
    BY <1>a, <1>z DEF RequestFor, Requests
  <2> QED
    BY <1>a, <2>1, Queues
<1>l. \A s \in {"worker", "physical"} :
        WriteLatch(s) => latch' \in {"none", "worker", "physical"} /\ faults' \in 0..MaxFaults
  BY <1>a, SupervisionAssumption DEF WriteLatch, Latched
<1>s. /\ NoSweep \in Sweeps /\ [NoSweep EXCEPT !.pc = "examine", !.pid = map] \in Sweeps
      /\ \A s \in {"open", "soft", "hard"} : [NoSweep EXCEPT !.pc = "act", !.saw = s] \in Sweeps
  BY <1>a, Blanks DEF Sweeps
<1>r. /\ NoRestart \in Restarts
      /\ \A p \in {"get", "check", "prove", "pause", "settle", "cleanup", "watch", "failed"} :
           /\ [restart EXCEPT !.pc = p] \in Restarts
           /\ \A g \in 0..MaxGens : [restart EXCEPT !.pc = p, !.target = g] \in Restarts
           /\ [NoRestart EXCEPT !.pc = p] \in Restarts
           /\ \A r \in Requests : [NoRestart EXCEPT !.pc = p, !.req = r] \in Restarts
      /\ [NoRestart EXCEPT !.pc = "pause", !.req.required = TRUE] \in Restarts
  BY <1>a, Blanks DEF Restarts, NoRestart, NoRequest, Requests
<1>f. Failed => restart' \in Restarts
  BY <1>r, <1>z DEF Failed
<1>m. \A g : Mapped(g) \in 0..MaxGens
  BY <1>a, SupervisionAssumption DEF Mapped, NoGen
<1>k. \A asked \in BOOLEAN : Looks(asked) => session' \in [Gens -> Sessions] /\ held' \in Handles
  <2>1. ASSUME map # NoGen, session' = Collected(map), held' = NotHeld
        PROVE  session' \in [Gens -> Sessions] /\ held' \in Handles
    BY <1>a, <1>b, <2>1, SessionWrites, Blanks
  <2> QED
    BY <1>a, <2>1 DEF Looks
<1>1. CASE SweepLatched
  <2>1. Exited => Collected(map) \in [Gens -> Sessions]
    BY <1>a, <1>b, SessionWrites DEF Exited
  <2>2. session' \in [Gens -> Sessions] /\ map' \in 0..MaxGens /\ held' \in Handles
    BY <1>a, <1>1, <2>1, Blanks, SupervisionAssumption DEF SweepLatched, NoGen
  <2> QED
    BY <1>a, <1>1, <2>2 DEF SweepLatched
<1>2. CASE Scan
  <2>1. sweep' \in Sweeps
    <3>1. PICK minute \in BOOLEAN :
            LET saw == IF FlagIsCurrent(beat) \/ BootstrapFailed(beat) THEN "hard"
                         ELSE IF ~beat.fresh \/ (beat.state = "offline" /\ minute) THEN "soft"
                         ELSE IF FreshlyOpen THEN "open" ELSE "nothing"
            IN IF saw = "nothing" THEN Expect(inProgress)
                                  ELSE sweep' = [NoSweep EXCEPT !.pc = "act", !.saw = saw]
      BY <1>2 DEF Scan
    <3>2. PICK saw \in {"open", "soft", "hard", "nothing"} :
            IF saw = "nothing" THEN Expect(inProgress) ELSE sweep' = [NoSweep EXCEPT !.pc = "act", !.saw = saw]
      BY <3>1
    <3> QED
      BY <1>s, <3>2 DEF Expect
  <2>2. beat' \in Beats
    BY <1>a, <1>2, SupervisionAssumption DEF Scan, Beats, NoGen
  <2> QED
    BY <1>a, <1>2, <2>1, <2>2 DEF Scan
<1>3. CASE Act
  <2>1. sweep' \in Sweeps
    BY <1>s, <1>3 DEF Act, Expect
  <2>2. \E asked \in BOOLEAN : Looks(asked)
    BY <1>a, <1>3 DEF Act
  <2>3. session' \in [Gens -> Sessions] /\ held' \in Handles
    BY <1>k, <2>2
  <2> QED
    BY <1>a, <1>q, <1>z, <1>3, <2>1, <2>3 DEF Act, Enqueue
<1>4. CASE Missing
  <2>1. sweep' \in Sweeps
    BY <1>s, <1>4 DEF Missing, Expect
  <2>2. \E asked \in BOOLEAN : Looks(asked)
    BY <1>4 DEF Missing
  <2>3. session' \in [Gens -> Sessions] /\ held' \in Handles
    BY <1>k, <2>2
  <2> QED
    BY <1>a, <1>q, <1>4, <2>1, <2>3 DEF Missing, Enqueue
<1>5. CASE ExamineLatched \/ ExamineUnmapped
  BY <1>a, <1>s, <1>5 DEF ExamineLatched, ExamineUnmapped, Done
<1>6. CASE ExamineMapped
  <2>1. sweep.pid \in Gens /\ sweep' \in Sweeps
    BY <1>b, <1>s, <1>6 DEF ExamineMapped, Done
  <2>2. [session EXCEPT ![sweep.pid].lead = "gone"] \in [Gens -> Sessions]
    BY <1>a, <2>1, SessionWrites DEF Leads
  <2>3. session' \in [Gens -> Sessions] /\ held' \in Handles
    BY <1>a, <1>6, <2>2, Blanks DEF ExamineMapped
  <2>4. queue' \in Seq(Requests) /\ inProgress' \in BOOLEAN
    BY <1>a, <1>q, <1>6 DEF ExamineMapped, Enqueue
  <2>5. map' \in 0..MaxGens
    <3>1. map' = map \/ map' = Mapped(sweep.pid)
      BY <1>6 DEF ExamineMapped
    <3> QED
      BY <1>a, <1>m, <3>1
  <2>6. latch' \in {"none", "worker", "physical"} /\ faults' \in 0..MaxFaults
    BY <1>a, <1>l, <1>6 DEF ExamineMapped
  <2>7. UNCHANGED <<beat, budget, restart, clears, lost, unproven>>
    BY <1>6 DEF ExamineMapped
  <2> QED
    BY <1>a, <2>1, <2>3, <2>4, <2>5, <2>6, <2>7
<1>7. CASE TakeStale
  BY <1>a, <1>q, <1>r, <1>7 DEF TakeStale, Dropped
<1>8. CASE Take
  <2>1. restart' \in Restarts
    BY <1>q, <1>r, <1>8 DEF Take
  <2> QED
    BY <1>a, <1>q, <1>8, <2>1, SupervisionAssumption DEF Take
<1>9. CASE Exhaust
  <2>1. latch' \in {"none", "worker", "physical"} /\ faults' \in 0..MaxFaults
    BY <1>l, <1>9 DEF Exhaust
  <2>2. queue' \in Seq(Requests) /\ inProgress' \in BOOLEAN /\ restart' \in Restarts
    BY <1>q, <1>r, <1>9 DEF Exhaust, Dropped
  <2>3. budget' \in 0..MaxAttempts
    BY <1>a, <1>z, <1>9 DEF Exhaust
  <2> QED
    BY <1>a, <1>9, <2>1, <2>2, <2>3 DEF Exhaust
<1>10. CASE Raise
  <2>1. queue' \in Seq(Requests)
    BY <1>b, <1>q, <1>10 DEF Raise
  <2> QED
    BY <1>a, <1>r, <1>z, <1>10, <2>1 DEF Raise
<1>11. CASE RefuseLatched
  <2>1. restart' \in Restarts
    BY <1>f, <1>11 DEF RefuseLatched
  <2> QED
    BY <1>a, <1>11, <2>1 DEF RefuseLatched
<1>12. CASE Release
  <2>1. budget' \in 0..MaxAttempts
    BY <1>a, <1>12, SupervisionAssumption DEF Release
  <2> QED
    BY <1>a, <1>r, <1>12, <2>1 DEF Release, Dropped
<1>13. CASE KillNothing
  BY <1>a, <1>r, <1>13 DEF KillNothing, Rebound
<1>14. CASE KillSession
  <2>1. restart' \in Restarts
    BY <1>a, <1>b, <1>r, <1>14 DEF KillSession
  <2> QED
    BY <1>a, <1>14, <2>1 DEF KillSession
<1>t. restart.pc \in {"prove", "settle", "cleanup"} => restart.target \in Gens
  BY <1>b DEF Inv, Sight, OneName
<1>15. CASE Proved
  <2>1. session' \in [Gens -> Sessions]
    BY <1>a, <1>t, <1>15, SessionWrites DEF Proved
  <2>2. restart' \in Restarts
    BY <1>f, <1>r, <1>15 DEF Proved, Rebound
  <2> QED
    BY <1>a, <1>m, <1>15, <2>1, <2>2, Blanks DEF Proved
<1>16. CASE ProvedUnrecorded
  <2>1. session' \in [Gens -> Sessions]
    BY <1>a, <1>t, <1>16, SessionWrites DEF ProvedUnrecorded
  <2> QED
    BY <1>a, <1>f, <1>16, <2>1, Blanks, SupervisionAssumption DEF ProvedUnrecorded
<1>17. CASE Unproved \/ CleanupUnproved
  <2>1. restart.target \in Gens /\ Contain(restart.target) /\ Failed
        /\ UNCHANGED <<map, beat, budget, queue, inProgress, sweep, clears, unproven>>
    BY <1>t, <1>17 DEF Unproved, CleanupUnproved
  <2>2. session' \in [Gens -> Sessions] /\ held' \in Handles
    BY <1>a, <2>1, SessionWrites DEF Contain
  <2>3. lost' \subseteq Gens
    BY <1>a, <2>1 DEF Contain
  <2>4. latch' \in {"none", "worker", "physical"} /\ faults' \in 0..MaxFaults
    BY <1>l, <2>1 DEF Contain
  <2> QED
    BY <1>a, <1>f, <2>1, <2>2, <2>3, <2>4
<1>18. CASE SpawnUnknown
  <2>1. Newborn \in Gens /\ Newborn \in 0..MaxGens
    BY <1>18, NewbornIsNext DEF SpawnUnknown, Inv, Sight, Gens
  <2>2. session' \in [Gens -> Sessions]
    <3>1. \A l \in Leads, k \in BOOLEAN : [session EXCEPT ![Newborn] = [lead |-> l, kids |-> k]] \in [Gens -> Sessions]
      BY <1>a, <2>1, SessionWrites
    <3> QED
      BY <1>18, <3>1 DEF SpawnUnknown, Leads
  <2>3. held' \in Handles
    BY <1>18, <2>1 DEF SpawnUnknown, Handles
  <2>5. restart' \in Restarts
    BY <1>r, <1>18, <2>1 DEF SpawnUnknown
  <2>4. unproven' \in Nat
    BY <1>a, <1>18 DEF SpawnUnknown
  <2> QED
    BY <1>a, <1>18, <2>2, <2>3, <2>4, <2>5 DEF SpawnUnknown
<1>19. CASE SpawnKnown
  <2>1. Newborn \in Gens /\ Newborn \in 0..MaxGens
    BY <1>19, NewbornIsNext DEF SpawnKnown, Inv, Sight, Gens
  <2>2. session' \in [Gens -> Sessions]
    BY <1>a, <1>19, <2>1, SessionWrites DEF SpawnKnown, Leads
  <2>3. held' \in Handles
    BY <1>19, <2>1 DEF SpawnKnown, Handles
  <2>5. restart' \in Restarts
    <3>1. \A p \in {"settle", "cleanup"} : [restart EXCEPT !.pc = p, !.target = Newborn] \in Restarts
      BY <1>r, <2>1
    <3>2. \E p \in {"settle", "cleanup"} : restart' = [restart EXCEPT !.pc = p, !.target = Newborn]
      BY <1>19 DEF SpawnKnown
    <3> QED
      BY <3>1, <3>2
  <2>4. unproven' \in Nat /\ map' \in 0..MaxGens /\ faults' \in 0..MaxFaults
    BY <1>a, <1>19, <2>1, SupervisionAssumption DEF SpawnKnown, Gens
  <2> QED
    BY <1>a, <1>19, <2>2, <2>3, <2>4, <2>5 DEF SpawnKnown
<1>20. CASE Settle
  <2>1. [beat EXCEPT !.flag = NoGen] \in Beats
    BY <1>a, SupervisionAssumption DEF Beats, NoGen
  <2>2. restart' \in Restarts
    BY <1>r, <1>20 DEF Settle, To
  <2>3. beat' \in Beats /\ faults' \in 0..MaxFaults
    BY <1>a, <1>z, <1>20, <2>1 DEF Settle
  <2>4. UNCHANGED <<session, map, latch, budget, queue, inProgress, held, sweep, clears, lost, unproven>>
    BY <1>20 DEF Settle
  <2> QED
    BY <1>a, <2>2, <2>3, <2>4
<1>21. CASE CleanupProved
  <2>1. session' \in [Gens -> Sessions]
    BY <1>a, <1>t, <1>21, SessionWrites DEF CleanupProved
  <2>2. map' \in 0..MaxGens /\ faults' \in 0..MaxFaults
    BY <1>a, <1>m, <1>z, <1>21 DEF CleanupProved
  <2> QED
    BY <1>a, <1>f, <1>21, <2>1, <2>2, Blanks DEF CleanupProved
<1>22. CASE Watch
  <2>1. budget' \in 0..MaxAttempts
    BY <1>a, <1>z, <1>22 DEF Watch
  <2> QED
    BY <1>a, <1>r, <1>22, <2>1 DEF Watch, Dropped
<1>23. CASE Retry
  BY <1>a, <1>b, <1>q, <1>r, <1>23 DEF Retry
<1>24. CASE Beat
  <2>1. PICK g \in Gens, state \in States :
          /\ beat' = [gen |-> g, fresh |-> TRUE, state |-> state, flag |-> beat.flag]
          /\ session' = IF state = "open" THEN [session EXCEPT ![g].kids = TRUE] ELSE session
          /\ unproven' = IF state = "open" THEN 0 ELSE unproven
          /\ UNCHANGED Others
    BY <1>24 DEF Beat
  <2>2. session' \in [Gens -> Sessions]
    BY <1>a, <2>1, SessionWrites
  <2>3. beat' \in Beats
    BY <1>a, <2>1 DEF Beats, Gens
  <2> QED
    BY <1>a, <2>1, <2>2, <2>3 DEF Others
<1>25. CASE Flag
  <2>1. beat' \in Beats
    BY <1>a, <1>25 DEF Flag, Beats
  <2> QED
    BY <1>a, <1>25, <2>1 DEF Flag, Others
<1>26. CASE Exit
  <2>1. session' \in [Gens -> Sessions]
    <3>1. PICK g \in Gens, kids \in BOOLEAN :
            session' = [session EXCEPT ![g] = [lead |-> IF held.gen = g THEN "zombie" ELSE "gone", kids |-> kids]]
      BY <1>26 DEF Exit
    <3>2. \A l \in Leads, k \in BOOLEAN : [session EXCEPT ![g] = [lead |-> l, kids |-> k]] \in [Gens -> Sessions]
      BY <1>a, SessionWrites
    <3> QED
      BY <3>1, <3>2 DEF Leads
  <2> QED
    BY <1>a, <1>26, <2>1 DEF Exit, Others
<1>27. CASE Reuse
  <2>1. session' \in [Gens -> Sessions]
    <3>1. map \in Gens
      BY <1>b, <1>27 DEF Reuse
    <3>2. \A l \in Leads : [session EXCEPT ![map].lead = l] \in [Gens -> Sessions]
      BY <1>a, <3>1, SessionWrites
    <3> QED
      BY <1>27, <3>2 DEF Reuse, Leads
  <2> QED
    BY <1>a, <1>27, <2>1 DEF Reuse, Others
<1>32. CASE Wither
  <2>1. session' \in [Gens -> Sessions]
    <3>1. PICK g \in Gens : session' = [session EXCEPT ![g].kids = FALSE]
      BY <1>32 DEF Wither
    <3>2. \A k \in BOOLEAN : [session EXCEPT ![g].kids = k] \in [Gens -> Sessions]
      BY <1>a, SessionWrites
    <3> QED
      BY <3>1, <3>2
  <2> QED
    BY <1>a, <1>32, <2>1 DEF Wither, Others
<1>28. CASE Age
  <2>1. [beat EXCEPT !.fresh = FALSE] \in Beats
    BY <1>a DEF Beats
  <2> QED
    BY <1>a, <1>28, <2>1 DEF Age, Others
<1>31. CASE Expire
  BY <1>a, <1>31, Blanks DEF Expire, Others
<1>29. CASE WorkerLatches
  BY <1>a, <1>29 DEF WorkerLatches
<1>30. CASE Clear
  BY <1>a, <1>30, SupervisionAssumption DEF Clear
<1> HIDE DEF Goal
<1> QED
  BY <1>1, <1>2, <1>3, <1>4, <1>5, <1>6, <1>7, <1>8, <1>9, <1>10, <1>11, <1>12, <1>13, <1>14, <1>15, <1>16, <1>17, <1>18,
     <1>19, <1>20, <1>21, <1>22, <1>23, <1>24, <1>25, <1>26, <1>27, <1>28, <1>29, <1>30, <1>31, <1>32
     DEF Next, SweepStep, RestartStep, Time, World

-----------------------------------------------------------------------------
(* Sight.                                                                  *)

\* The session of g has a process after the step.
StaysAlive(g) == session'[g].lead = "up" \/ session'[g].kids

\* What a step that starts nothing may do to the generations.
Ages ==
  \A g \in Gens :
    /\ session'[g].lead = "none" <=> session[g].lead = "none"
    /\ StaysAlive(g) => Alive(g)
    /\ session'[g].lead = "up" => session[g].lead = "up"
    /\ session'[g].lead \in {"none", "reused", "usurped"} => ~session'[g].kids

\* A spawn, which finds the map and the handle empty.
Spawn == SpawnUnknown \/ SpawnKnown

LEMMA OneAges ==
  ASSUME Inv, NEW g \in Gens, NEW s \in Sessions, session' = [session EXCEPT ![g] = s],
         s.lead = "none" <=> session[g].lead = "none",
         s.lead = "up" \/ s.kids => Alive(g), s.lead = "up" => session[g].lead = "up",
         s.lead \in {"none", "reused", "usurped"} => ~s.kids
  PROVE  Ages
<1>1. session \in [Gens -> Sessions] /\ Childless
  BY TypeParts DEF Inv, Sight
<1>2. \A h \in Gens : session'[h] = IF h = g THEN s ELSE session[h]
  BY <1>1
<1> QED
  BY <1>1, <1>2 DEF Ages, Alive, StaysAlive, Childless

LEMMA SameAges ==
  ASSUME Inv, UNCHANGED session
  PROVE  Ages
BY DEF Inv, Sight, Childless, Ages, Alive, StaysAlive

\* The session that a kill or a cleanup proved empty.
LEMMA EmptiedAges ==
  ASSUME Inv, NEW g \in Gens, session[g].lead \notin {"none", "usurped"},
         session' \in {Emptied(g), [Emptied(g) EXCEPT ![g].lead = "gone"]}
  PROVE  Ages /\ ~StaysAlive(g)
<1>1. session \in [Gens -> Sessions]
  BY TypeParts DEF Inv
<1>2. PICK s \in Sessions : s.lead \in {"reused", "gone"} /\ ~s.kids /\ session' = [session EXCEPT ![g] = s]
  <2> DEFINE l == IF session[g].lead = "reused" THEN session[g].lead ELSE "gone"
             e == [lead |-> l, kids |-> FALSE]
             f == [e EXCEPT !.lead = "gone"]
  <2>1. l \in {"reused", "gone"} /\ Emptied(g) = [session EXCEPT ![g] = e]
    BY DEF Emptied
  <2> HIDE DEF l
  <2>2. e \in Sessions /\ e.lead \in {"reused", "gone"} /\ ~e.kids
    BY <2>1 DEF Sessions, Leads
  <2> HIDE DEF e
  <2>3. f \in Sessions /\ f.lead = "gone" /\ ~f.kids
    BY <2>2 DEF Sessions, Leads
  <2>4. [Emptied(g) EXCEPT ![g].lead = "gone"] = [session EXCEPT ![g] = f]
    BY <1>1, <2>1
  <2> HIDE DEF f
  <2>5. CASE session' = Emptied(g)
    BY <2>1, <2>2, <2>5
  <2>6. CASE session' = [Emptied(g) EXCEPT ![g].lead = "gone"]
    BY <2>3, <2>4, <2>6
  <2> QED
    BY <2>5, <2>6
<1>3. s \in Sessions /\ s.lead # "none" /\ s.lead # "up" /\ ~s.kids /\ session' = [session EXCEPT ![g] = s]
  BY <1>2
<1>4. Ages
  BY <1>2, <1>3, OneAges
<1>5. session'[g] = s
  BY <1>1, <1>2
<1> QED
  BY <1>3, <1>4, <1>5 DEF StaysAlive

\* A leader that is waited for, or that a failed kill ended, or whose PID is given away.
LEMMA LeadAges ==
  ASSUME Inv, NEW g \in Gens, NEW l \in Leads \ {"none", "up"}, session[g].lead # "none",
         l \in {"reused", "usurped"} => ~session[g].kids, session' = [session EXCEPT ![g].lead = l]
  PROVE  Ages
<1> DEFINE s == [session[g] EXCEPT !.lead = l]
<1>1. session \in [Gens -> Sessions]
  BY TypeParts DEF Inv
<1>2. session' = [session EXCEPT ![g] = s]
  BY <1>1
<1>3. s \in Sessions /\ s.lead = l /\ s.kids = session[g].kids
  BY <1>1 DEF Sessions
<1> HIDE DEF s
<1> QED
  BY <1>2, <1>3, OneAges DEF Alive

\* A leader that is waited for does not run any more; its children are what they were.
LEMMA CollectedAges ==
  ASSUME Inv, NEW g \in Gens, session[g].lead # "none", session' = Collected(g)
  PROVE  Ages /\ session'[g].lead # "up"
<1>1. session \in [Gens -> Sessions]
  BY TypeParts DEF Inv
<1>2. CASE session[g].lead \in {"up", "zombie"}
  <2>1. session' = [session EXCEPT ![g].lead = "gone"]
    BY <1>2 DEF Collected
  <2>2. session'[g].lead = "gone"
    BY <1>1, <2>1 DEF Sessions
  <2> QED
    BY <2>1, <2>2, LeadAges DEF Leads
<1>3. CASE session[g].lead \notin {"up", "zombie"}
  <2>1. session' = [session EXCEPT ![g] = [session[g] EXCEPT !.lead = session[g].lead]]
    BY <1>3 DEF Collected
  <2>2. [session[g] EXCEPT !.lead = session[g].lead] = session[g]
    BY <1>1 DEF Sessions
  <2>3. session' = session
    BY <1>1, <2>1, <2>2
  <2> QED
    BY <1>3, <2>3, SameAges
<1> QED
  BY <1>2, <1>3

LEMMA PartlyAges ==
  ASSUME Inv, NEW g \in Gens, session[g].lead # "none", Partly(g)
  PROVE  /\ Ages
         /\ held' \in {held, NotHeld}
         /\ held' # held => held.gen = g /\ session'[g].lead # "up"
<1>1. CASE UNCHANGED <<session, held>>
  BY <1>1, SameAges
<1>2. CASE session' = [session EXCEPT ![g].lead = "zombie"] /\ UNCHANGED held
  BY <1>2, LeadAges DEF Leads
<1>3. CASE session' = Collected(g) /\ UNCHANGED held
  BY <1>3, CollectedAges
<1>4. CASE Collect(g)
  <2>1. session' = Collected(g) /\ held' \in {held, NotHeld} /\ (held' # held => held.gen = g)
    BY <1>4 DEF Collect, Dropping
  <2> QED
    BY <2>1, CollectedAges
<1> QED
  BY <1>1, <1>2, <1>3, <1>4 DEF Partly

\* The names in use belong to generations that were born.
LEMMA NamesAreBorn ==
  ASSUME Inv
  PROVE  /\ map # NoGen => map \in Gens /\ session[map].lead # "none"
         /\ held.gen # NoGen => held.gen \in Gens /\ session[held.gen].lead # "none"
         /\ restart.target # NoGen => restart.target \in Gens /\ session[restart.target].lead # "none"
         /\ restart.pc \in {"prove", "settle", "cleanup"} => restart.target # NoGen
         /\ sweep.pid # NoGen => sweep.pid \in Gens
         /\ restart.target \in 0..MaxGens
BY TypeParts, Blanks DEF Inv, Sight, Unborn, OneName, Handles, Restarts, Sweeps

LEMMA SessionMoves ==
  ASSUME Inv, Next
  PROVE  Spawn \/ Ages
<1>a. session \in [Gens -> Sessions]
  BY TypeParts DEF Inv
<1>1. CASE SweepLatched
  <2>1. CASE Exited
    <3>1. map \in Gens /\ session[map].lead # "none" /\ session' = Collected(map)
      BY <1>1, <2>1, NamesAreBorn DEF SweepLatched, Exited
    <3> QED
      BY <3>1, CollectedAges
  <2>2. CASE ~Exited
    BY <1>1, <2>2, SameAges DEF SweepLatched
  <2> QED
    BY <2>1, <2>2
<1>2. CASE ExamineMapped
  <2>1. sweep.pid \in Gens
    BY <1>2, NamesAreBorn DEF ExamineMapped
  <2>2. \/ UNCHANGED session
        \/ session[sweep.pid].lead # "none" /\ session' = [session EXCEPT ![sweep.pid].lead = "gone"]
    BY <1>2 DEF ExamineMapped
  <2>3. CASE UNCHANGED session
    BY <2>3, SameAges
  <2>4. CASE session[sweep.pid].lead # "none" /\ session' = [session EXCEPT ![sweep.pid].lead = "gone"]
    BY <2>1, <2>4, LeadAges DEF Leads
  <2> QED
    BY <2>2, <2>3, <2>4
<1>9. CASE Act \/ Missing
  <2>1. UNCHANGED session \/ (map # NoGen /\ session' = Collected(map))
    BY <1>9 DEF Act, Missing, Looks
  <2> QED
    BY <2>1, SameAges, CollectedAges, NamesAreBorn
<1>10. CASE Wither
  <2>1. PICK g \in Gens : session[g].lead # "up" /\ session' = [session EXCEPT ![g].kids = FALSE]
    BY <1>10 DEF Wither
  <2> DEFINE s == [session[g] EXCEPT !.kids = FALSE]
  <2>2. s \in Sessions /\ s.lead = session[g].lead /\ ~s.kids /\ session' = [session EXCEPT ![g] = s]
    BY <1>a, <2>1 DEF Sessions
  <2> HIDE DEF s
  <2> QED
    BY <2>1, <2>2, OneAges
<1>3. CASE Proved \/ ProvedUnrecorded \/ CleanupProved
  <2>1. restart.target \in Gens /\ session[restart.target].lead \notin {"none", "usurped"}
        /\ session' \in {Emptied(restart.target), [Emptied(restart.target) EXCEPT ![restart.target].lead = "gone"]}
    BY <1>3, NamesAreBorn DEF Proved, ProvedUnrecorded, CleanupProved, Provable
  <2> QED
    BY <2>1, EmptiedAges
<1>4. CASE Unproved \/ CleanupUnproved
  <2>1. restart.target \in Gens /\ session[restart.target].lead # "none" /\ Partly(restart.target)
    BY <1>4, NamesAreBorn DEF Unproved, CleanupUnproved, Contain
  <2> QED
    BY <2>1, PartlyAges
<1>5. CASE Beat
  <2>1. PICK g \in Gens, state \in States :
          session[g].lead = "up" /\ session' = IF state = "open" THEN [session EXCEPT ![g].kids = TRUE] ELSE session
    BY <1>5 DEF Beat
  <2>2. CASE state = "open"
    <3> DEFINE s == [session[g] EXCEPT !.kids = TRUE]
    <3>1. session' = [session EXCEPT ![g] = s]
      BY <1>a, <2>1, <2>2
    <3>2. s \in Sessions /\ s.lead = "up"
      BY <1>a, <2>1 DEF Sessions
    <3> HIDE DEF s
    <3> QED
      BY <2>1, <3>1, <3>2, OneAges DEF Alive
  <2>3. CASE state # "open"
    BY <2>1, <2>3, SameAges
  <2> QED
    BY <2>2, <2>3
<1>6. CASE Exit
  <2>1. PICK g \in Gens, k \in BOOLEAN :
          /\ session[g].lead = "up" /\ (k => session[g].kids)
          /\ session' = [session EXCEPT ![g] = [lead |-> IF held.gen = g THEN "zombie" ELSE "gone", kids |-> k]]
    BY <1>6 DEF Exit
  <2> DEFINE s == [lead |-> IF held.gen = g THEN "zombie" ELSE "gone", kids |-> k]
  <2>2. s \in Sessions /\ s.lead \in {"zombie", "gone"} /\ s.kids = k
    BY DEF Sessions, Leads
  <2>3. session' = [session EXCEPT ![g] = s]
    BY <2>1
  <2> HIDE DEF s
  <2> QED
    BY <2>1, <2>2, <2>3, OneAges DEF Alive
<1>7. CASE Reuse
  <2>1. map \in Gens /\ session[map] = [lead |-> "gone", kids |-> FALSE]
    BY <1>7, NamesAreBorn DEF Reuse
  <2>2. PICK l \in {"reused", "usurped"} : session' = [session EXCEPT ![map].lead = l]
    BY <1>7 DEF Reuse
  <2>3. session[map].lead # "none" /\ ~session[map].kids /\ l \in Leads \ {"none", "up"}
    BY <2>1 DEF Leads
  <2> QED
    BY <2>1, <2>2, <2>3, LeadAges
<1>8. \/ UNCHANGED session \/ Spawn \/ SweepLatched \/ ExamineMapped \/ Proved \/ ProvedUnrecorded \/ CleanupProved
      \/ Unproved \/ CleanupUnproved \/ Beat \/ Exit \/ Wither \/ Reuse \/ Act \/ Missing
  BY DEF Next, SweepStep, RestartStep, Time, World, Spawn, Scan, ExamineLatched, ExamineUnmapped,
         TakeStale, Take, Exhaust, Raise, RefuseLatched, Release, KillNothing, KillSession, Settle, Watch, Retry,
         Age, Expire, Flag, WorkerLatches, Clear
<1> QED
  BY <1>1, <1>2, <1>3, <1>4, <1>5, <1>6, <1>7, <1>8, <1>9, <1>10, SameAges

\* A spawn makes the next generation, and nobody else is alive but what was lost.
LEMMA SpawnMoves ==
  ASSUME Inv, Spawn
  PROVE  /\ Newborn \in Gens /\ session[Newborn].lead = "none"
         /\ \E n \in 0..MaxGens : Born(n) /\ Newborn = n + 1
         /\ session'[Newborn].lead \in {"zombie", "up"}
         /\ \A g \in Gens : g # Newborn => session'[g] = session[g]
         /\ map' \in {NoGen, Newborn} /\ held'.gen = Newborn /\ restart'.target = Newborn
         /\ restart'.pc \in {"settle", "cleanup"}
         /\ \A g \in Gens : Alive(g) => g \in lost
         /\ lost' = lost
<1>a. session \in [Gens -> Sessions] /\ restart \in Restarts
  BY TypeParts DEF Inv
<1>1. /\ Newborn \in Gens /\ session[Newborn].lead = "none"
      /\ \E n \in 0..MaxGens : Born(n) /\ Newborn = n + 1
  BY NewbornIsNext DEF Spawn, SpawnUnknown, SpawnKnown, Inv, Sight
<1>2. \E s \in Sessions : s.lead \in {"zombie", "up"} /\ session' = [session EXCEPT ![Newborn] = s]
  <2>1. CASE SpawnUnknown
    <3>1. PICK k \in BOOLEAN : session' = [session EXCEPT ![Newborn] = [lead |-> "zombie", kids |-> k]]
      BY <2>1 DEF SpawnUnknown
    <3>2. [lead |-> "zombie", kids |-> k] \in Sessions
      BY DEF Sessions, Leads
    <3> QED
      BY <3>1, <3>2
  <2>2. CASE SpawnKnown
    <3>1. session' = [session EXCEPT ![Newborn] = [session[Newborn] EXCEPT !.lead = "up"]]
      BY <1>a, <1>1, <2>2 DEF SpawnKnown
    <3>2. [session[Newborn] EXCEPT !.lead = "up"] \in Sessions
      BY <1>a, <1>1 DEF Sessions, Leads
    <3> DEFINE s == [session[Newborn] EXCEPT !.lead = "up"]
    <3>3. s.lead = "up"
      BY <1>a, <1>1 DEF Sessions
    <3> HIDE DEF s
    <3>4. s \in Sessions /\ session' = [session EXCEPT ![Newborn] = s]
      BY <3>1, <3>2 DEF s
    <3> QED
      BY <3>3, <3>4
  <2> QED
    BY <2>1, <2>2 DEF Spawn
<1>3. restart.pc = "pause" /\ map = NoGen /\ held.gen = NoGen
  BY DEF Spawn, SpawnUnknown, SpawnKnown, Inv, Sight, OneName
<1>4. map' \in {NoGen, Newborn} /\ held'.gen = Newborn
  BY <1>3 DEF Spawn, SpawnUnknown, SpawnKnown
<1>5. restart'.target = Newborn /\ restart'.pc \in {"settle", "cleanup"}
  BY <1>a DEF Spawn, SpawnUnknown, SpawnKnown, Restarts
<1>6. latch = "none" /\ lost' = lost
  BY DEF Spawn, SpawnUnknown, SpawnKnown
<1>7. \A g \in Gens : Alive(g) => g \in lost
  BY <1>3, <1>6, SupervisionAssumption DEF Inv, Sight, SessionIsAccounted, Gens, NoGen
<1> QED
  BY <1>a, <1>1, <1>2, <1>4, <1>5, <1>6, <1>7

\* The steps that give up a name with a proof or with the name's double in the map, and
\* the ones that give up a handle whose session is still occupied.
Drops == SweepLatched \/ Act \/ Missing \/ ExamineMapped \/ Proved \/ ProvedUnrecorded \/ CleanupProved
Contained == Unproved \/ CleanupUnproved

LEMMA OthersKeepNames ==
  ASSUME Next
  PROVE  /\ Spawn \/ Drops \/ Contained \/ UNCHANGED <<map, held>>
         /\ Contained \/ lost' = lost
BY DEF Spawn, Drops, Contained, Next, SweepStep, RestartStep, Time, World, Others, SweepLatched, Scan, Act, Missing,
       ExamineLatched, ExamineUnmapped, ExamineMapped, TakeStale, Take, Exhaust, Raise, RefuseLatched, Release,
       KillNothing, KillSession, Proved, ProvedUnrecorded, SpawnUnknown, SpawnKnown, Settle, CleanupProved, Watch,
       Retry, Age, Expire, Beat, Flag, Exit, Wither, Reuse, WorkerLatches, Clear

\* A session that is contained is under a name, or under a latch, or lost.
LEMMA ContainedMoves ==
  ASSUME Inv, Contained
  PROVE  /\ Ages /\ map' = map /\ held' \in {held, NotHeld} /\ sweep' = sweep
         /\ held' # held => session'[held.gen].lead # "up"
         /\ lost \subseteq lost'
         /\ \A g \in Gens : g \in {map, held.gen} => g \in {map', held'.gen} \/ latch' = "physical" \/ g \in lost'
<1>1. /\ restart.target \in Gens /\ session[restart.target].lead # "none"
      /\ Contain(restart.target) /\ map' = map /\ sweep' = sweep
  BY NamesAreBorn DEF Contained, Unproved, CleanupUnproved
<1>2. /\ Ages /\ held' \in {held, NotHeld}
      /\ held' # held => held.gen = restart.target /\ session'[restart.target].lead # "up"
  BY <1>1, PartlyAges DEF Contain
<1>3. /\ lost \subseteq lost'
      /\ restart.target \in {map', held'.gen} \/ latch' = "physical" \/ restart.target \in lost'
  BY <1>1 DEF Contain
<1>4. \A g \in Gens : g \in {map, held.gen} => g \in {map', held'.gen} \/ latch' = "physical" \/ g \in lost'
  BY <1>1, <1>2, <1>3
<1> QED
  BY <1>1, <1>2, <1>3, <1>4

\* A physical latch is not weakened by a step.
LEMMA PhysicalStays ==
  ASSUME Next, latch = "physical"
  PROVE  Clear \/ latch' = "physical"
<1>1. \A s : WriteLatch(s) => latch' = "physical"
  BY DEF WriteLatch, Latched
<1>2. CASE Exhaust \/ Contained \/ ExamineMapped
  BY <1>1, <1>2 DEF Exhaust, Contained, Unproved, CleanupUnproved, Contain, ExamineMapped
<1>3. Exhaust \/ Contained \/ ExamineMapped \/ WorkerLatches \/ Clear \/ UNCHANGED latch
  BY DEF Contained, Next, SweepStep, RestartStep, Time, World, Others, SweepLatched, Scan, Act, Missing, ExamineLatched,
         ExamineUnmapped, TakeStale, Take, Raise, RefuseLatched, Release, KillNothing, KillSession, Proved,
         ProvedUnrecorded, SpawnUnknown, SpawnKnown, Settle, CleanupProved, Watch, Retry,
         Age, Expire, Beat, Flag, Exit, Wither, Reuse
<1>4. CASE WorkerLatches
  BY <1>4 DEF WorkerLatches
<1> QED
  BY <1>2, <1>3, <1>4

\* A name that is given up is of a session without a process.
LEMMA DropsAreDead ==
  ASSUME Inv, Drops
  PROVE  /\ map' \in {map, NoGen} /\ held' \in {held, NotHeld}
         /\ map' # map => ~StaysAlive(map)
         /\ held'.gen # held.gen => ~StaysAlive(held.gen) \/ held.gen = map'
         /\ sweep'.pid # NoGen /\ held'.gen # NoGen => map' = map
<1>a. session \in [Gens -> Sessions] /\ sweep \in Sweeps
  BY TypeParts DEF Inv
<1>b. /\ map = NoGen \/ held.gen = NoGen \/ map = held.gen
      /\ \A g \in Gens : session[g].lead \in {"none", "reused", "usurped"} => ~session[g].kids
  BY DEF Inv, Sight, OneName, Childless
<1>c. NotHeld.gen = NoGen
  BY DEF NotHeld
<1>1. CASE SweepLatched
  <2>0. sweep' = sweep /\ sweep.pid = NoGen
    BY <1>1 DEF SweepLatched, Inv, Sight, SweepSees
  <2>1. CASE Exited /\ Drained(map)
    <3>1. map' = NoGen /\ held' = NotHeld /\ held.gen \in {NoGen, map} /\ map \in Gens /\ session' = Collected(map)
      BY <1>1, <1>c, <2>1, NamesAreBorn DEF SweepLatched, Exited
    <3>2. session'[map].lead = "gone" /\ ~session'[map].kids
      BY <1>a, <2>1, <3>1 DEF Exited, Drained, Collected, Sessions
    <3>3. ~StaysAlive(map)
      BY <3>2 DEF StaysAlive
    <3> QED
      BY <1>c, <2>0, <3>1, <3>3
  <2>2. CASE Exited /\ ~Drained(map)
    <3>1. map' = map /\ held' \in {held, NotHeld} /\ held.gen \in {NoGen, map}
      BY <1>1, <1>c, <2>2 DEF SweepLatched, Exited
    <3> QED
      BY <1>c, <2>0, <3>1
  <2>3. CASE ~Exited
    BY <1>1, <2>0, <2>3 DEF SweepLatched
  <2> QED
    BY <2>1, <2>2, <2>3
<1>4. CASE Act \/ Missing
  <2>1. map' = map /\ (UNCHANGED held \/ (held.gen = map /\ held' = NotHeld))
    BY <1>4 DEF Act, Missing, Looks
  <2> QED
    BY <2>1
<1>2. CASE ExamineMapped
  <2>1. sweep' = NoSweep /\ NoSweep.pid = NoGen /\ sweep.pid \in Gens
    BY <1>2, NamesAreBorn DEF ExamineMapped, Done, NoSweep
  <2>2. CASE UNCHANGED <<map, held>>
    BY <2>1, <2>2
  <2>3. CASE UNCHANGED map /\ held.gen = sweep.pid /\ held' = NotHeld
    <3>1. held.gen = map'
      BY <2>1, <2>3, SupervisionAssumption DEF Inv, Sight, SweepSees, Gens, NoGen
    <3> QED
      BY <2>1, <2>3, <3>1
  <2> DEFINE Freed == session[sweep.pid].lead = "reused" \/ (map # sweep.pid /\ session[sweep.pid].lead = "gone")
  <2>4. CASE map' = Mapped(sweep.pid) /\ session' = [session EXCEPT ![sweep.pid].lead = "gone"] /\ UNCHANGED held /\ Freed
    <3>0. session'[sweep.pid].lead = "gone" /\ session'[sweep.pid].kids = session[sweep.pid].kids
      BY <1>a, <2>1, <2>4 DEF Sessions
    <3>1. map = sweep.pid => ~StaysAlive(map)
      BY <1>b, <2>1, <2>4, <3>0 DEF StaysAlive
    <3>2. map' # map => ~StaysAlive(map)
      BY <2>4, <3>1 DEF Mapped
    <3>3. map' \in {map, NoGen}
      BY <2>4 DEF Mapped
    <3> QED
      BY <2>1, <2>4, <3>2, <3>3
  <2>5. \/ UNCHANGED <<map, held>>
        \/ UNCHANGED map /\ held.gen = sweep.pid /\ held' = NotHeld
        \/ map' = Mapped(sweep.pid) /\ session' = [session EXCEPT ![sweep.pid].lead = "gone"] /\ UNCHANGED held /\ Freed
    BY <1>2 DEF ExamineMapped
  <2> QED
    BY <2>2, <2>3, <2>4, <2>5
<1>3. CASE Proved \/ ProvedUnrecorded \/ CleanupProved
  <2>1. restart.target \in Gens /\ session[restart.target].lead \notin {"none", "usurped"}
        /\ session' \in {Emptied(restart.target), [Emptied(restart.target) EXCEPT ![restart.target].lead = "gone"]}
        /\ map \in {NoGen, restart.target} /\ held.gen \in {NoGen, restart.target}
    BY <1>3, NamesAreBorn DEF Proved, ProvedUnrecorded, CleanupProved, Provable, Inv, Sight, OneName
  <2>2. ~StaysAlive(restart.target)
    BY <2>1, EmptiedAges
  <2>3. map' \in {map, NoGen} /\ (map' # map => map = restart.target)
    BY <1>3 DEF Proved, ProvedUnrecorded, CleanupProved, Mapped
  <2>4. held' \in {held, NotHeld} /\ held'.gen = NoGen
    BY <1>3, <2>1 DEF Proved, ProvedUnrecorded, CleanupProved, NotHeld, Mapped
  <2>5. map' # map => ~StaysAlive(map)
    BY <2>2, <2>3
  <2>6. held'.gen # held.gen => ~StaysAlive(held.gen) \/ held.gen = map'
    BY <2>1, <2>2, <2>4
  <2> QED
    BY <2>1, <2>3, <2>4, <2>5, <2>6
<1> QED
  BY <1>1, <1>2, <1>3, <1>4 DEF Drops

\* What a step does to the request in the hands of the loop.
LEMMA LoopMoves ==
  ASSUME Inv, Next
  PROVE  \/ UNCHANGED restart
         \/ restart'.target = NoGen /\ restart'.pc \notin {"pause", "prove", "settle", "cleanup"}
         \/ restart'.target = NoGen /\ (KillNothing \/ (Proved /\ map' = NoGen))
         \/ restart'.target # NoGen /\ restart'.pc = "prove" /\ KillSession
            /\ restart'.target = IF map = NoGen THEN held.gen ELSE map
         \/ restart'.target = restart.target /\ restart'.pc = "cleanup" /\ restart.pc = "settle" /\ UNCHANGED <<map, held>>
         \/ Spawn
<1>a. restart \in Restarts
  BY TypeParts DEF Inv
<1>n. /\ NoRestart.target = NoGen /\ NoRestart.pc = "get"
      /\ \A p : [NoRestart EXCEPT !.pc = p].target = NoGen /\ [NoRestart EXCEPT !.pc = p].pc = p
      /\ \A p, r : [NoRestart EXCEPT !.pc = p, !.req = r].target = NoGen /\ [NoRestart EXCEPT !.pc = p, !.req = r].pc = p
      /\ [NoRestart EXCEPT !.pc = "pause", !.req.required = TRUE].target = NoGen
      /\ [NoRestart EXCEPT !.pc = "watch"].target = NoGen /\ [NoRestart EXCEPT !.pc = "watch"].pc = "watch"
  BY DEF NoRestart
<1>1. CASE TakeStale \/ Exhaust \/ Release \/ Watch
  BY <1>n, <1>1 DEF TakeStale, Exhaust, Release, Watch, Dropped
<1>2. CASE Raise \/ Retry
  BY <1>n, <1>2 DEF Raise, Retry
<1>3. CASE Take
  BY <1>n, <1>3 DEF Take
<1>4. CASE Failed
  BY <1>a, <1>4 DEF Failed, Restarts
<1>5. CASE KillNothing
  BY <1>n, <1>5 DEF KillNothing, Rebound
<1>9. CASE Proved
  <2>1. CASE map' = NoGen
    BY <1>n, <1>9, <2>1 DEF Proved, Rebound
  <2>2. CASE map' # NoGen
    BY <1>4, <1>9, <2>2 DEF Proved
  <2> QED
    BY <2>1, <2>2
<1>6. CASE KillSession
  BY <1>a, <1>6 DEF KillSession, Restarts
<1>7. CASE Settle
  <2>1. CASE session[restart.target].lead = "up"
    BY <1>n, <1>7, <2>1 DEF Settle
  <2>2. CASE session[restart.target].lead # "up"
    BY <1>a, <1>7, <2>2 DEF Settle, To, Restarts
  <2> QED
    BY <2>1, <2>2
<1>8. SweepStep \/ Time \/ World => UNCHANGED restart
  BY DEF SweepStep, Time, World, Others, SweepLatched, Scan, Act, Missing, ExamineLatched, ExamineUnmapped,
         ExamineMapped, Age, Expire, Beat, Flag, Exit, Wither, Reuse, WorkerLatches, Clear
<1>10. RefuseLatched \/ ProvedUnrecorded \/ Unproved \/ CleanupProved \/ CleanupUnproved => Failed
  BY DEF RefuseLatched, ProvedUnrecorded, Unproved, CleanupProved, CleanupUnproved
<1> QED
  BY <1>1, <1>2, <1>3, <1>4, <1>5, <1>6, <1>7, <1>8, <1>9, <1>10 DEF Next, RestartStep, Spawn

\* What a step does to what the sweep has read.
LEMMA SweepMoves ==
  ASSUME Inv, Next
  PROVE  \/ UNCHANGED sweep
         \/ sweep'.pid = NoGen
         \/ sweep'.pc = "examine" /\ sweep'.pid = map /\ UNCHANGED map
<1>a. sweep \in Sweeps
  BY TypeParts DEF Inv
<1>n. /\ NoSweep.pid = NoGen
      /\ \A s : [NoSweep EXCEPT !.pc = "act", !.saw = s].pid = NoGen
      /\ [NoSweep EXCEPT !.pc = "examine", !.pid = map].pid = map
      /\ [NoSweep EXCEPT !.pc = "examine", !.pid = map].pc = "examine"
  BY DEF NoSweep
<1>1. CASE Scan
  <2>1. UNCHANGED map /\ (Expect(inProgress) \/ \E s : sweep' = [NoSweep EXCEPT !.pc = "act", !.saw = s])
    BY <1>1 DEF Scan
  <2> QED
    BY <1>n, <2>1 DEF Expect
<1>2. CASE Act \/ Missing
  BY <1>n, <1>2 DEF Act, Missing, Expect
<1>3. CASE Done
  BY <1>n, <1>3 DEF Done
<1>4. UNCHANGED sweep \/ Scan \/ Act \/ Missing \/ Done
  BY DEF Next, SweepStep, RestartStep, Time, World, Others, SweepLatched, ExamineLatched, ExamineUnmapped, ExamineMapped,
         TakeStale, Take, Exhaust, Raise, RefuseLatched, Release, KillNothing, KillSession, Proved, ProvedUnrecorded,
         Unproved, SpawnUnknown, SpawnKnown, Settle, CleanupProved, CleanupUnproved, Watch, Retry,
         Age, Expire, Beat, Flag, Exit, Wither, Reuse, WorkerLatches, Clear
<1> QED
  BY <1>1, <1>2, <1>3, <1>4

LEMMA SpawnSight ==
  ASSUME Inv, Next, Spawn
  PROVE  Sight'
<1>a. /\ InOrder /\ Childless /\ Unborn /\ SweepSees
      /\ sweep \in Sweeps
  BY TypeParts DEF Inv, Sight
<1>b. sweep' = sweep /\ sweep.pc \notin {"act", "examine"}
  BY DEF Spawn, SpawnUnknown, SpawnKnown, SweepIsQuick
<1>1. PICK n \in 0..MaxGens : Born(n) /\ Newborn = n + 1
  BY SpawnMoves
<1>2. Newborn \in Gens /\ Newborn # NoGen
  BY SpawnMoves DEF Gens, NoGen
<1>3. InOrder'
  <2>1. n + 1 \in 0..MaxGens
    BY <1>1, <1>2, SupervisionAssumption DEF Gens
  <2>2. \A g \in Gens : session'[g].lead = "none" <=> g > n + 1
    <3>1. TAKE g \in Gens
    <3>2. CASE g = Newborn
      BY <1>1, <3>2, SpawnMoves, SupervisionAssumption DEF Gens
    <3>3. CASE g # Newborn
      BY <1>1, <3>3, SpawnMoves, SupervisionAssumption DEF Gens, Born
    <3> QED
      BY <3>2, <3>3
  <2>3. Born(n + 1)'
    BY <2>2 DEF Born
  <2> QED
    BY <2>1, <2>3 DEF InOrder
<1>4. Childless'
  BY <1>a, SpawnMoves DEF Childless
<1>5. Unborn'
  <2>1. \A g \in Gens : session'[g].lead = "none" => g # Newborn /\ g # NoGen
    BY SpawnMoves, SupervisionAssumption DEF Gens, NoGen
  <2> QED
    BY <2>1, SpawnMoves DEF Unborn
<1>6. OneName'
  BY <1>2, SpawnMoves DEF OneName
<1>7. SweepSees'
  BY <1>a, <1>b DEF SweepSees
<1>8. Led' /\ SessionIsAccounted' /\ OneGeneration'
  <2>1. \A g \in Gens : g # Newborn /\ StaysAlive(g) => Alive(g) /\ g \in lost'
    BY SpawnMoves DEF StaysAlive, Alive
  <2>2. \A g \in Gens : g # Newborn => session'[g].lead # "up" \/ g \in {map, held.gen}
    BY SpawnMoves DEF Inv, Sight, Led
  <2>3. map = NoGen /\ held.gen = NoGen /\ held'.gen = Newborn
    BY SpawnMoves DEF Spawn, SpawnUnknown, SpawnKnown, Inv, Sight, OneName
  <2>4. Led'
    BY <2>2, <2>3, SupervisionAssumption DEF Led, Gens, NoGen
  <2>5. SessionIsAccounted'
    BY <2>1, <2>3 DEF SessionIsAccounted, Alive, StaysAlive
  <2>6. OneGeneration'
    BY <2>1 DEF OneGeneration, Alive, StaysAlive
  <2> QED
    BY <2>4, <2>5, <2>6
<1> QED
  BY <1>3, <1>4, <1>5, <1>6, <1>7, <1>8 DEF Sight

LEMMA SightStep ==
  ASSUME Inv, Next
  PROVE  Sight'
<1>1. CASE Spawn
  BY <1>1, SpawnSight
<1>2. CASE ~Spawn
  <2>a. /\ InOrder /\ Childless /\ Unborn /\ OneName /\ SweepSees
        /\ Led /\ SessionIsAccounted /\ OneGeneration
    BY DEF Inv, Sight
  <2>b. Ages
    BY <1>2, SessionMoves
  <2>c. Drops \/ Contained \/ UNCHANGED <<map, held>>
    BY <1>2, OthersKeepNames
  <2>d. map' \in {map, NoGen} /\ held'.gen \in {held.gen, NoGen}
    BY <2>c, DropsAreDead, ContainedMoves DEF NotHeld
  <2>1. InOrder'
    BY <2>a, <2>b DEF InOrder, Born, Ages
  <2>2. Childless'
    BY <2>b DEF Childless, Ages
  <2>3. Unborn'
    <3>1. restart'.target \in {restart.target, NoGen, map, held.gen}
      BY <1>2, LoopMoves
    <3>2. \A g \in Gens : g # NoGen
      BY SupervisionAssumption DEF Gens, NoGen
    <3> QED
      BY <2>a, <2>b, <2>d, <3>1, <3>2 DEF Unborn, Ages
  <2>4. OneName'
    <3>1. map' = NoGen \/ held'.gen = NoGen \/ map' = held'.gen
      BY <2>a, <2>d DEF OneName
    <3>2. restart'.pc = "pause" => map' = NoGen /\ held'.gen = NoGen
      <4>1. CASE UNCHANGED restart
        BY <2>a, <2>d, <4>1 DEF OneName
      <4>2. CASE KillNothing
        BY <4>2 DEF KillNothing
      <4>3. CASE Proved /\ map' = NoGen
        BY <2>a, <4>3 DEF Proved, OneName, NotHeld
      <4> QED
        BY <1>2, <4>1, <4>2, <4>3, LoopMoves
    <3>3. restart'.pc \in {"prove", "settle", "cleanup"} =>
            restart'.target # NoGen /\ map' \in {NoGen, restart'.target} /\ held'.gen \in {NoGen, restart'.target}
      <4>1. CASE UNCHANGED restart
        BY <2>a, <2>d, <4>1 DEF OneName
      <4>2. CASE restart'.target # NoGen /\ restart'.pc = "prove" /\ KillSession
                 /\ restart'.target = IF map = NoGen THEN held.gen ELSE map
        BY <2>a, <2>d, <4>2 DEF OneName
      <4>3. CASE restart'.target = restart.target /\ restart'.pc = "cleanup" /\ restart.pc = "settle" /\ UNCHANGED <<map, held>>
        BY <2>a, <4>3 DEF OneName
      <4>4. CASE restart'.target = NoGen /\ (KillNothing \/ (Proved /\ map' = NoGen))
        <5>1. restart \in Restarts
          BY TypeParts DEF Inv
        <5>2. restart'.pc \in {"pause", "failed"}
          BY <4>4, <5>1 DEF KillNothing, Proved, Rebound, NoRestart, Failed, Restarts
        <5> QED
          BY <5>2
      <4> QED
        BY <1>2, <4>1, <4>2, <4>3, <4>4, LoopMoves
    <3> QED
      BY <3>1, <3>2, <3>3 DEF OneName
  <2>5. SweepSees'
    <3>1. map' = map \/ (sweep'.pid # NoGen => held'.gen = NoGen)
      BY <2>c, DropsAreDead, ContainedMoves
    <3> QED
      BY <2>a, <2>d, <3>1, SweepMoves DEF SweepSees
  <2>e. \A g \in Gens : g \in {map, held.gen} /\ StaysAlive(g) =>
          g \in {map', held'.gen} \/ (Contained /\ (latch' = "physical" \/ g \in lost'))
    BY <2>c, DropsAreDead, ContainedMoves
  <2>6. Led'
    <3>1. \A g \in Gens : session'[g].lead = "up" => g \in {map, held.gen} /\ StaysAlive(g)
      BY <2>a, <2>b DEF Led, Ages, StaysAlive
    <3>2. Contained => \A g \in Gens : session'[g].lead = "up" /\ g \in {map, held.gen} => g \in {map', held'.gen}
      BY ContainedMoves
    <3> QED
      BY <2>e, <3>1, <3>2 DEF Led
  <2>f. lost \subseteq lost'
    BY OthersKeepNames, ContainedMoves
  <2>7. SessionIsAccounted'
    <3>1. SUFFICES ASSUME NEW g \in Gens, StaysAlive(g)
                   PROVE  g \in {map', held'.gen} \/ latch' = "physical" \/ g \in lost'
      BY DEF SessionIsAccounted, Alive, StaysAlive
    <3>2. g \in {map, held.gen} \/ latch = "physical" \/ g \in lost
      BY <2>a, <2>b, <3>1 DEF Ages, SessionIsAccounted
    <3>3. CASE g \in {map, held.gen}
      BY <2>e, <3>1, <3>3
    <3>4. CASE latch = "physical" /\ Clear
      <4>1. session' = session /\ map' = map /\ held' = held /\ ~session[g].kids
        BY <3>4 DEF Clear
      <4> QED
        BY <2>a, <3>1, <4>1 DEF Led, StaysAlive
    <3>5. CASE latch = "physical" /\ ~Clear
      BY <3>5, PhysicalStays
    <3> QED
      BY <2>f, <3>2, <3>3, <3>4, <3>5
  <2>8. OneGeneration'
    BY <2>a, <2>b, <2>f DEF OneGeneration, Ages, Alive, StaysAlive
  <2> QED
    BY <2>1, <2>2, <2>3, <2>4, <2>5, <2>6, <2>7, <2>8 DEF Sight
<1> QED
  BY <1>1, <1>2

-----------------------------------------------------------------------------
(* Recovery.                                                               *)

\* Evidence of recovery is only lost with the count of what it was evidence against.
LEMMA EvidenceStep ==
  ASSUME Inv, Next
  PROVE  Evidence' /\ (~Spawn => unproven' \in {unproven, 0})
<1>a. Evidence /\ beat \in Beats /\ sweep \in Sweeps
  BY TypeParts DEF Inv, Recovery
<1>1. unproven' \in {unproven, 0} \/ Spawn
  BY DEF Next, SweepStep, RestartStep, Time, World, Others, Spawn, SweepLatched, Scan, Act, Missing, ExamineLatched,
         ExamineUnmapped, ExamineMapped, TakeStale, Take, Exhaust, Raise, RefuseLatched, Release, KillNothing,
         KillSession, Proved, ProvedUnrecorded, Unproved, Settle, CleanupProved, CleanupUnproved, Watch, Retry,
         Age, Expire, Beat, Flag, Exit, Wither, Reuse, WorkerLatches, Clear
<1>2. FreshlyOpen' => unproven' = 0
  <2>1. CASE Spawn
    BY <1>a, <2>1 DEF Spawn, SpawnUnknown, SpawnKnown, Evidence, FreshlyOpen
  <2>2. CASE UNCHANGED beat /\ ~Spawn
    BY <1>1, <1>a, <2>2 DEF Evidence, FreshlyOpen
  <2>3. CASE Scan \/ Settle \/ Flag
    <3>1. FreshlyOpen' => FreshlyOpen
      BY <1>a, <2>3 DEF Scan, Settle, Flag, FreshlyOpen, Beats
    <3> QED
      BY <1>1, <1>a, <2>3, <3>1 DEF Evidence, Scan, Settle, Flag
  <2>4. CASE Beat
    BY <2>4 DEF Beat, FreshlyOpen
  <2>5. CASE Age
    BY <1>a, <2>5 DEF Age, FreshlyOpen, Beats
  <2>6. CASE Expire
    BY <2>6 DEF Expire, FreshlyOpen, NoBeat
  <2>7. UNCHANGED beat \/ Scan \/ Settle \/ Flag \/ Beat \/ Age \/ Expire
    BY DEF Next, SweepStep, RestartStep, Time, World, Others, SweepLatched, Act, Missing, ExamineLatched,
           ExamineUnmapped, ExamineMapped, TakeStale, Take, Exhaust, Raise, RefuseLatched, Release, KillNothing,
           KillSession, Proved, ProvedUnrecorded, Unproved, SpawnUnknown, SpawnKnown, CleanupProved, CleanupUnproved,
           Watch, Retry, Exit, Wither, Reuse, WorkerLatches, Clear
  <2> QED
    BY <2>1, <2>2, <2>3, <2>4, <2>5, <2>6, <2>7
<1>3. sweep'.pc = "act" /\ sweep'.saw = "open" => unproven' = 0
  <2>1. CASE UNCHANGED sweep
    BY <1>1, <1>a, <2>1 DEF Evidence, Spawn, SpawnUnknown, SpawnKnown, SweepIsQuick
  <2>2. CASE Scan
    <3>1. PICK minute \in BOOLEAN :
            LET saw == IF FlagIsCurrent(beat) \/ BootstrapFailed(beat) THEN "hard"
                         ELSE IF ~beat.fresh \/ (beat.state = "offline" /\ minute) THEN "soft"
                         ELSE IF FreshlyOpen THEN "open" ELSE "nothing"
            IN IF saw = "nothing" THEN Expect(inProgress)
                                  ELSE sweep' = [NoSweep EXCEPT !.pc = "act", !.saw = saw]
      BY <2>2 DEF Scan
    <3>2. PICK saw \in {"open", "soft", "hard", "nothing"} :
            /\ IF saw = "nothing" THEN Expect(inProgress) ELSE sweep' = [NoSweep EXCEPT !.pc = "act", !.saw = saw]
            /\ saw = "open" => FreshlyOpen
      BY <3>1
    <3>3. \A s : [NoSweep EXCEPT !.pc = "act", !.saw = s].saw = s
      BY DEF NoSweep
    <3>4. Expect(inProgress) => sweep'.pc # "act"
      BY DEF Expect, NoSweep
    <3>5. sweep'.pc = "act" /\ sweep'.saw = "open" => FreshlyOpen
      BY <3>2, <3>3, <3>4
    <3> QED
      BY <1>a, <2>2, <3>5 DEF Evidence, Scan
  <2>3. CASE Act \/ Missing
    <3>1. sweep' \in {NoSweep, [NoSweep EXCEPT !.pc = "examine", !.pid = map]}
      BY <2>3 DEF Act, Missing, Expect
    <3>2. NoSweep.pc = "idle" /\ [NoSweep EXCEPT !.pc = "examine", !.pid = map].pc = "examine"
      BY DEF NoSweep
    <3> QED
      BY <3>1, <3>2
  <2>4. CASE Done
    BY <2>4 DEF Done, NoSweep
  <2>5. UNCHANGED sweep \/ Scan \/ Act \/ Missing \/ Done
    BY DEF Next, SweepStep, RestartStep, Time, World, Others, SweepLatched, ExamineLatched, ExamineUnmapped, ExamineMapped,
           TakeStale, Take, Exhaust, Raise, RefuseLatched, Release, KillNothing, KillSession, Proved, ProvedUnrecorded,
           Unproved, SpawnUnknown, SpawnKnown, Settle, CleanupProved, CleanupUnproved, Watch, Retry,
           Age, Expire, Beat, Flag, Exit, Wither, Reuse, WorkerLatches, Clear
  <2> QED
    BY <2>1, <2>2, <2>3, <2>4, <2>5
<1> QED
  BY <1>1, <1>2, <1>3 DEF Evidence

\* A step other than the ones named here neither reserves nor returns an attempt.
LEMMA AttemptMoves ==
  ASSUME Inv, Next
  PROVE  \/ Act \/ Take \/ Exhaust \/ Release \/ Watch \/ Spawn \/ Clear
         \/ budget' = budget /\ InFlight' <= InFlight
<1>a. restart \in Restarts /\ InFlight \in {0, 1}
  BY TypeParts DEF Inv, InFlight
<1>n. NoRestart.pc = "get" /\ [NoRestart EXCEPT !.pc = "watch"].pc = "watch"
  BY DEF NoRestart
<1>1. CASE SweepStep \/ Time \/ World
  <2>1. restart' = restart
    BY <1>1 DEF SweepStep, Time, World, Others, SweepLatched, Scan, Act, Missing, ExamineLatched, ExamineUnmapped,
           ExamineMapped, Age, Expire, Beat, Flag, Exit, Wither, Reuse, WorkerLatches, Clear
  <2>2. budget' = budget \/ Act
    BY <1>1 DEF SweepStep, Time, World, Others, SweepLatched, Scan, Missing, ExamineLatched, ExamineUnmapped,
           ExamineMapped, Age, Expire, Beat, Flag, Exit, Wither, Reuse, WorkerLatches, Clear
  <2> QED
    BY <1>a, <2>1, <2>2 DEF InFlight
<1>2. CASE TakeStale \/ Raise \/ Retry
  BY <1>a, <1>n, <1>2 DEF TakeStale, Raise, Retry, Dropped, InFlight
<1>3. CASE Failed /\ budget' = budget
  BY <1>a, <1>3 DEF Failed, InFlight, Restarts
<1>4. CASE KillNothing \/ KillSession \/ Proved
  <2>1. restart.pc \in {"check", "prove"} /\ budget' = budget
    BY <1>4 DEF KillNothing, KillSession, Proved, MayKill
  <2> QED
    BY <1>a, <2>1 DEF InFlight
<1>5. CASE Settle
  <2>1. restart'.pc \in {"watch", "cleanup"} /\ budget' = budget
    BY <1>a, <1>n, <1>5 DEF Settle, To, Restarts
  <2> QED
    BY <1>a, <2>1 DEF InFlight
<1>6. RefuseLatched \/ ProvedUnrecorded \/ Unproved \/ CleanupProved \/ CleanupUnproved => Failed /\ budget' = budget
  BY DEF RefuseLatched, ProvedUnrecorded, Unproved, CleanupProved, CleanupUnproved
<1> QED
  BY <1>1, <1>2, <1>3, <1>4, <1>5, <1>6 DEF Next, RestartStep, Spawn

\* A latch is lifted by the operator alone.
LEMMA LatchMoves ==
  ASSUME Inv, Next
  PROVE  /\ ~Clear => clears' = clears /\ (latch' = "none" => latch = "none")
         /\ clears' \in {clears, clears + 1} /\ clears \in Nat
         /\ Clear => clears' = clears + 1 /\ unproven' = 0
<1>a. clears \in Nat
  BY TypeParts, SupervisionAssumption DEF Inv
<1>1. \A s \in {"worker", "physical"} : WriteLatch(s) => (latch' = "none" => latch = "none")
  BY DEF WriteLatch, Latched
<1>2. CASE Exhaust \/ Unproved \/ CleanupUnproved
  BY <1>1, <1>2, <1>a DEF Exhaust, Unproved, CleanupUnproved, Contain, Clear
<1>3. CASE ExamineMapped
  BY <1>1, <1>3, <1>a DEF ExamineMapped, Clear
<1>4. CASE Clear
  BY <1>4, <1>a DEF Clear
<1>5. CASE WorkerLatches
  BY <1>5, <1>a DEF WorkerLatches, Clear
<1>6. \/ Exhaust \/ Unproved \/ CleanupUnproved \/ ExamineMapped \/ Clear \/ WorkerLatches
      \/ UNCHANGED <<latch, clears>>
  BY DEF Next, SweepStep, RestartStep, Time, World, Others, SweepLatched, Scan, Act, Missing, ExamineLatched,
         ExamineUnmapped, TakeStale, Take, Raise, RefuseLatched, Release, KillNothing, KillSession, Proved,
         ProvedUnrecorded, SpawnUnknown, SpawnKnown, Settle, CleanupProved, Watch, Retry,
         Age, Expire, Beat, Flag, Exit, Wither, Reuse
<1>7. CASE UNCHANGED <<latch, clears>>
  BY <1>7, <1>a DEF Clear
<1> QED
  BY <1>2, <1>3, <1>4, <1>5, <1>6, <1>7

\* The count stays within the budget, before the first clear, and after it within one more.
Within(extra) == unproven + InFlight <= budget + extra

\* The steps that move an attempt, when no latch is written.
LEMMA CountStep ==
  ASSUME Inv, Next, latch = "none", latch' = "none", NEW extra \in {0, 1}, Within(extra),
         Act /\ extra = 0 => (~inProgress => InFlight = 0)
  PROVE  Within(extra)'
<1>a. /\ restart \in Restarts /\ InFlight \in {0, 1} /\ budget \in Nat /\ unproven \in Nat
      /\ Evidence
  BY TypeParts, SupervisionAssumption DEF Inv, InFlight, Recovery
<1>n. NoRestart.pc = "get" /\ \A r : [NoRestart EXCEPT !.pc = "check", !.req = r].pc = "check"
  BY DEF NoRestart
<1>0. unproven' \in {unproven, 0} \/ Spawn
  BY EvidenceStep
<1>1. CASE Act
  <2>1. restart' = restart /\ unproven' = unproven /\ InFlight' = InFlight
    BY <1>1 DEF Act, InFlight
  <2>2. CASE budget' = budget
    BY <2>1, <2>2 DEF Within
  <2>3. CASE budget' = 0 /\ ~inProgress /\ sweep.saw = "open"
    <3>1. unproven = 0
      BY <1>1, <1>a, <2>3 DEF Act, Evidence
    <3>2. unproven' = 0 /\ budget' = 0 /\ InFlight' \in {0, 1} /\ (extra = 0 => InFlight' = 0)
      BY <1>1, <1>a, <2>1, <2>3, <3>1
    <3>3. CASE extra = 0
      BY <3>2, <3>3 DEF Within
    <3>4. CASE extra = 1
      <4>1. 0 + InFlight' <= 0 + 1
        <5>1. CASE InFlight' = 0
          BY <5>1
        <5>2. CASE InFlight' = 1
          BY <5>2
        <5> QED
          BY <3>2, <5>1, <5>2
      <4> QED
        BY <3>2, <3>4, <4>1 DEF Within
    <3> QED
      BY <3>3, <3>4
  <2> QED
    BY <1>1, <2>2, <2>3 DEF Act
<1>2. CASE Take
  <2>1. unproven' = unproven /\ budget' = budget + 1 /\ InFlight = 0 /\ restart'.pc = "check"
    BY <1>n, <1>2 DEF Take, InFlight
  <2>2. InFlight' = 1
    BY <2>1 DEF InFlight
  <2> QED
    BY <1>a, <2>1, <2>2 DEF Within
<1>3. CASE Exhaust
  <2>1. faults' # faults
    <3>1. WriteLatch("worker")
      BY <1>3 DEF Exhaust
    <3>2. latch' \in {"worker", "physical"} \/ faults' = faults + 1
      BY <3>1 DEF WriteLatch, Latched
    <3>3. faults \in Nat
      BY TypeParts, SupervisionAssumption DEF Inv
    <3> QED
      BY <3>2, <3>3
  <2>2. unproven' = unproven /\ budget' = budget /\ restart' = NoRestart
    BY <1>3, <2>1 DEF Exhaust, Dropped
  <2>3. InFlight' = 0
    BY <1>n, <2>2 DEF InFlight
  <2> QED
    BY <1>a, <2>2, <2>3 DEF Within
<1>4. CASE Release
  <2>1. unproven' = unproven /\ InFlight = 1 /\ restart' = NoRestart /\ budget' = IF budget = 0 THEN 0 ELSE budget - 1
    BY <1>4 DEF Release, Dropped, InFlight
  <2>2. InFlight' = 0
    BY <1>n, <2>1 DEF InFlight
  <2> QED
    BY <1>a, <2>1, <2>2 DEF Within
<1>5. CASE Watch
  <2>1. unproven' = unproven /\ restart' = NoRestart /\ (budget' = budget \/ (budget' = 0 /\ FreshlyOpen))
    <3>1. unproven' = unproven /\ restart' = NoRestart
      BY <1>5 DEF Watch, Dropped
    <3>2. budget' \in {budget} \/ (budget' \in {0} /\ AdmissionOpen)
      BY <1>5 DEF Watch
    <3> QED
      BY <3>1, <3>2 DEF AdmissionOpen
  <2>2. InFlight' = 0
    BY <1>n, <2>1 DEF InFlight
  <2>3. FreshlyOpen => unproven = 0
    BY <1>a DEF Evidence
  <2> QED
    BY <1>a, <2>1, <2>2, <2>3 DEF Within
<1>6. CASE Spawn
  <2>1. InFlight = 1 /\ budget' = budget /\ unproven' \in {unproven + 1, 0}
    BY <1>6 DEF Spawn, SpawnUnknown, SpawnKnown, InFlight
  <2>2. InFlight' = 0
    BY <1>6, SpawnMoves DEF InFlight
  <2>3. unproven + 1 <= budget + extra
    BY <2>1 DEF Within
  <2>4. 0 <= budget + extra
    BY <1>a
  <2>5. unproven' + InFlight' <= budget + extra
    <3>1. CASE unproven' = 0
      BY <2>2, <2>4, <3>1
    <3>2. CASE unproven' = unproven + 1
      BY <1>a, <2>2, <2>3, <3>2
    <3> QED
      BY <2>1, <3>1, <3>2
  <2> QED
    BY <2>1, <2>5 DEF Within
<1>7. CASE budget' = budget /\ InFlight' <= InFlight /\ ~Spawn
  <2>1. InFlight' \in {0, 1}
    BY DEF InFlight
  <2> QED
    BY <1>0, <1>7, <1>a, <2>1 DEF Within
<1>8. ~Clear
  BY DEF Clear
<1> QED
  BY <1>1, <1>2, <1>3, <1>4, <1>5, <1>6, <1>7, <1>8, AttemptMoves

\* The request that restart_in_progress stands for is in one place.
OneRequest ==
  /\ inProgress <=> queue # <<>> \/ restart.pc # "get"
  /\ Len(queue) <= 1 /\ (restart.pc # "get" => queue = <<>>)
  /\ sweep.pc = "examine" => ~inProgress

\* A step that leaves the request where it is.
StaysThere ==
  /\ UNCHANGED <<queue, inProgress>>
  /\ restart.pc = "get" <=> restart'.pc = "get"

LEMMA OneRequestStep ==
  ASSUME Inv, Next, latch = "none", clears = 0, ~Clear
  PROVE  OneRequest'
<1>a. /\ restart \in Restarts /\ queue \in Seq(Requests) /\ sweep \in Sweeps /\ inProgress \in BOOLEAN
      /\ OneRequest
  BY TypeParts DEF Inv, Recovery, Owned, OneRequest
<1>n. /\ NoRestart.pc = "get" /\ [NoRestart EXCEPT !.pc = "watch"].pc = "watch"
      /\ \A r : [NoRestart EXCEPT !.pc = "check", !.req = r].pc = "check"
      /\ [NoRestart EXCEPT !.pc = "pause", !.req.required = TRUE].pc = "pause"
      /\ NoSweep.pc = "idle"
      /\ \A s : [NoSweep EXCEPT !.pc = "act", !.saw = s].pc = "act"
  BY DEF NoRestart, NoSweep
<1>q. /\ \A r : queue = <<>> => Append(queue, r) # <<>> /\ Len(Append(queue, r)) = 1
      /\ queue # <<>> => Tail(queue) = <<>> /\ Len(queue) = 1
      /\ Len(<<>>) = 0
  <2>1. \A r : Append(<<>>, r) = <<r>> /\ <<r>> # <<>> /\ Len(<<r>>) = 1
    OBVIOUS
  <2>2. ASSUME queue # <<>> PROVE Tail(queue) = <<>> /\ Len(queue) = 1
    <3>1. /\ Tail(queue) \in Seq(Requests) /\ Len(Tail(queue)) = Len(queue) - 1
          /\ Len(queue) \in Nat /\ Len(queue) # 0
      BY <1>a, <2>2, Queues
    <3>2. Len(queue) = 1
      BY <1>a, <3>1 DEF OneRequest
    <3>3. Len(Tail(queue)) = 0
      BY <3>1, <3>2
    <3> QED
      BY <3>1, <3>2, <3>3, Queues
  <2> QED
    BY <2>1, <2>2
<1>1. CASE StaysThere /\ (UNCHANGED sweep \/ sweep'.pc # "examine" \/ ~inProgress')
  BY <1>a, <1>1 DEF StaysThere, OneRequest
<1>2. ASSUME \E r : queue' = Append(queue, r), inProgress', ~inProgress, restart' = restart, sweep'.pc # "examine"
      PROVE  OneRequest'
  <2>1. queue = <<>> /\ restart.pc = "get"
    BY <1>a, <1>2 DEF OneRequest
  <2>2. queue' # <<>> /\ Len(queue') = 1
    BY <1>2, <1>q, <2>1
  <2> QED
    BY <1>2, <2>1, <2>2 DEF OneRequest
<1>3. CASE Scan
  <2>1. StaysThere
    BY <1>3 DEF Scan, StaysThere
  <2>2. Expect(inProgress) \/ \E s : sweep' = [NoSweep EXCEPT !.pc = "act", !.saw = s]
    BY <1>3 DEF Scan
  <2>3. sweep'.pc # "examine" \/ ~inProgress'
    BY <1>3, <1>n, <2>2 DEF Expect, Scan
  <2> QED
    BY <1>1, <2>1, <2>3
<1>4. CASE Act \/ Missing
  <2>1. restart' = restart /\ Expect(inProgress')
    BY <1>4 DEF Act, Missing
  <2>2. inProgress' => sweep'.pc # "examine"
    BY <1>n, <2>1 DEF Expect
  <2>3. UNCHANGED <<queue, inProgress>> \/ (Enqueue(FALSE) /\ ~inProgress)
    BY <1>4 DEF Act, Missing
  <2>4. CASE UNCHANGED <<queue, inProgress>>
    BY <1>1, <2>1, <2>2, <2>4 DEF StaysThere
  <2>5. CASE Enqueue(FALSE) /\ ~inProgress
    BY <1>2, <2>1, <2>2, <2>5 DEF Enqueue
  <2> QED
    BY <2>3, <2>4, <2>5
<1>5. CASE ExamineMapped
  <2>1. restart' = restart /\ sweep'.pc # "examine" /\ ~inProgress
    BY <1>5, <1>a, <1>n DEF ExamineMapped, Done, OneRequest
  <2>2. UNCHANGED <<queue, inProgress>> \/ ((\E r : queue' = Append(queue, r)) /\ inProgress')
    BY <1>5 DEF ExamineMapped, Enqueue
  <2> QED
    BY <1>1, <1>2, <2>1, <2>2 DEF StaysThere
<1>6. CASE TakeStale \/ Exhaust
  <2>1. restart' = NoRestart /\ inProgress' = FALSE /\ queue' = <<>>
    BY <1>6, <1>q DEF TakeStale, Exhaust, Dropped
  <2> QED
    BY <1>n, <1>q, <2>1 DEF OneRequest
<1>7. CASE Take
  <2>1. restart'.pc = "check" /\ inProgress' = inProgress /\ inProgress /\ queue' = <<>> /\ sweep' = sweep
    BY <1>7, <1>a, <1>n, <1>q DEF Take, OneRequest
  <2> QED
    BY <1>a, <1>q, <2>1 DEF OneRequest
<1>8. CASE Raise \/ Retry
  <2>1. restart' = NoRestart /\ inProgress' = inProgress /\ inProgress /\ queue = <<>> /\ sweep' = sweep
        /\ queue' = Append(queue, restart.req)
    BY <1>8, <1>a DEF Raise, Retry, OneRequest
  <2> QED
    BY <1>a, <1>n, <1>q, <2>1 DEF OneRequest
<1>9. CASE Release \/ Watch
  <2>1. restart' = NoRestart /\ inProgress' = FALSE /\ queue = <<>> /\ queue' = queue
    BY <1>9, <1>a DEF Release, Watch, Dropped, OneRequest
  <2> QED
    BY <1>n, <1>q, <2>1 DEF OneRequest
<1>10. CASE RefuseLatched \/ ProvedUnrecorded \/ Unproved \/ CleanupProved \/ CleanupUnproved
  <2>1. restart.pc # "get" /\ Failed /\ UNCHANGED <<queue, inProgress, sweep>>
    BY <1>10 DEF RefuseLatched, ProvedUnrecorded, Unproved, CleanupProved, CleanupUnproved
  <2>2. restart'.pc = "failed"
    BY <1>a, <2>1 DEF Failed, Restarts
  <2> QED
    BY <1>1, <2>1, <2>2 DEF StaysThere
<1>11. CASE KillNothing \/ KillSession \/ Proved \/ Settle
  <2>1. restart.pc # "get" /\ UNCHANGED <<queue, inProgress, sweep>>
    BY <1>11 DEF KillNothing, KillSession, MayKill, Proved, Settle
  <2>2. CASE KillNothing \/ KillSession
    BY <1>1, <1>a, <1>n, <2>1, <2>2 DEF StaysThere, KillNothing, KillSession, Rebound, Restarts
  <2>3. CASE Proved
    BY <1>1, <1>a, <1>n, <2>1, <2>3 DEF StaysThere, Proved, Rebound, Failed, Restarts
  <2>4. CASE Settle
    BY <1>1, <1>a, <1>n, <2>1, <2>4 DEF StaysThere, Settle, To, Restarts
  <2> QED
    BY <1>11, <2>2, <2>3, <2>4
<1>12. CASE Spawn
  <2>1. restart.pc # "get" /\ UNCHANGED <<queue, inProgress, sweep>>
    BY <1>12 DEF Spawn, SpawnUnknown, SpawnKnown
  <2> QED
    BY <1>1, <1>12, <2>1, SpawnMoves DEF StaysThere
<1>13. CASE UNCHANGED <<queue, inProgress, restart>> /\ (UNCHANGED sweep \/ Done)
  <2>1. StaysThere
    BY <1>13 DEF StaysThere
  <2>2. UNCHANGED sweep \/ sweep'.pc # "examine"
    BY <1>n, <1>13 DEF Done
  <2> QED
    BY <1>1, <2>1, <2>2
<1>14. ~SweepLatched
  BY DEF SweepLatched
<1>15. ExamineLatched \/ ExamineUnmapped \/ Time \/ World =>
         UNCHANGED <<queue, inProgress, restart>> /\ (UNCHANGED sweep \/ Done)
  BY DEF Time, World, Others, ExamineLatched, ExamineUnmapped, Age, Expire, Beat, Flag, Exit, Wither, Reuse, WorkerLatches, Clear
<1> QED
  BY <1>3, <1>4, <1>5, <1>6, <1>7, <1>8, <1>9, <1>10, <1>11, <1>12, <1>13, <1>14, <1>15
     DEF Next, SweepStep, RestartStep, Spawn

LEMMA RecoveryStep ==
  ASSUME Inv, Next
  PROVE  Recovery'
<1>a. /\ budget \in 0..MaxAttempts /\ unproven \in Nat /\ clears \in Nat /\ InFlight \in {0, 1}
      /\ Owned /\ RestartsAreBounded /\ (latch # "none" \/ unproven + InFlight <= budget + 1)
  BY TypeParts, SupervisionAssumption DEF Inv, Recovery, InFlight
<1>1. Evidence'
  BY EvidenceStep
<1>2. latch' # "none" \/ unproven' + InFlight' <= budget' + 1
  <2>1. CASE Clear
    <3>1. unproven' = 0 /\ budget' = budget /\ InFlight' = InFlight
      BY <2>1 DEF Clear, InFlight
    <3> QED
      BY <1>a, <3>1, SupervisionAssumption
  <2>2. CASE ~Clear /\ latch' = "none"
    <3>1. latch = "none"
      BY <2>2, LatchMoves
    <3>2. Within(1)
      BY <1>a, <3>1 DEF Within
    <3>3. Within(1)'
      BY <2>2, <3>1, <3>2, CountStep
    <3> QED
      BY <3>3 DEF Within
  <2> QED
    BY <2>1, <2>2
<1>3. Owned'
  <2>1. SUFFICES ASSUME latch' = "none", clears' = 0
                 PROVE  unproven' + InFlight' <= budget' /\ OneRequest'
    BY DEF Owned, OneRequest
  <2>2. ~Clear /\ latch = "none" /\ clears = 0
    BY <1>a, <2>1, LatchMoves
  <2>3. Within(0) /\ (~inProgress => InFlight = 0)
    BY <1>a, <2>2, SupervisionAssumption DEF Owned, Within, InFlight
  <2>4. Within(0)'
    BY <2>1, <2>2, <2>3, CountStep
  <2>5. budget' + 0 = budget'
    BY TypeStep, TypeParts, SupervisionAssumption DEF TypeOK
  <2>6. OneRequest'
    BY <2>2, OneRequestStep
  <2> QED
    BY <2>4, <2>5, <2>6 DEF Within
<1>4. RestartsAreBounded'
  <2>1. CASE ~Spawn
    <3>1. unproven' \in {unproven, 0}
      BY <2>1, EvidenceStep
    <3>2. clears' \in {clears, clears + 1}
      BY LatchMoves
    <3>3. CASE clears = 0
      BY <1>a, <3>1, <3>2, <3>3, SupervisionAssumption DEF RestartsAreBounded
    <3>4. CASE clears # 0
      BY <1>a, <3>1, <3>2, <3>4, SupervisionAssumption DEF RestartsAreBounded
    <3> QED
      BY <3>3, <3>4
  <2>2. CASE Spawn
    <3>1. latch = "none" /\ clears' = clears /\ unproven' \in {unproven + 1, 0} /\ InFlight = 1
      BY <2>2 DEF Spawn, SpawnUnknown, SpawnKnown, InFlight
    <3>2. CASE clears = 0
      <4>1. unproven + 1 <= MaxAttempts
        BY <1>a, <3>1, <3>2, SupervisionAssumption DEF Owned
      <4> QED
        BY <1>a, <3>1, <3>2, <4>1, SupervisionAssumption DEF RestartsAreBounded
    <3>3. CASE clears # 0
      <4>1. unproven + 1 <= MaxAttempts + 1
        BY <1>a, <3>1, SupervisionAssumption
      <4> QED
        BY <1>a, <3>1, <3>3, <4>1, SupervisionAssumption DEF RestartsAreBounded
    <3> QED
      BY <3>2, <3>3
  <2> QED
    BY <2>1, <2>2
<1> QED
  BY <1>1, <1>2, <1>3, <1>4 DEF Recovery

-----------------------------------------------------------------------------
(* The theorems.                                                           *)

LEMMA InitInv ==
  ASSUME Init
  PROVE  Inv
<1>1. TypeOK
  <2>1. \A g \in Gens : session[g] \in Sessions
    BY DEF Init, Sessions, Leads
  <2>2. session \in [Gens -> Sessions]
    BY <2>1 DEF Init
  <2>3. /\ map \in 0..MaxGens /\ budget \in 0..MaxAttempts /\ faults \in 0..MaxFaults /\ clears \in 0..MaxClears
        /\ unproven \in Nat
    BY SupervisionAssumption DEF Init
  <2>4. queue \in Seq(Requests)
    BY EmptySeq DEF Init
  <2> QED
    BY <2>2, <2>3, <2>4, Blanks, TypeParts DEF Init
<1>2. Born(1)
  BY SupervisionAssumption DEF Init, Born, Gens
<1>3. InOrder
  BY <1>2, SupervisionAssumption DEF InOrder
<1>4. Childless /\ Unborn /\ OneName /\ SweepSees /\ Led /\ SessionIsAccounted /\ OneGeneration
  BY SupervisionAssumption
     DEF Init, Childless, Unborn, OneName, SweepSees, Led, SessionIsAccounted, OneGeneration, Alive, Gens, NoGen, NotHeld, NoRestart, NoSweep
<1>5. Evidence
  BY DEF Init, Evidence, FreshlyOpen, NoBeat, NoSweep
<1>6. InFlight = 0
  BY DEF Init, InFlight, NoRestart
<1>7. Owned
  BY <1>6, EmptySeq, LenProperties DEF Init, Owned, NoRestart, NoSweep
<1>8. RestartsAreBounded /\ unproven + InFlight <= budget + 1
  BY <1>6, SupervisionAssumption DEF Init, RestartsAreBounded
<1> QED
  BY <1>1, <1>3, <1>4, <1>5, <1>7, <1>8 DEF Inv, Sight, Recovery

LEMMA NextInv ==
  ASSUME Inv, [Next]_vars
  PROVE  Inv'
<1>1. CASE Next
  BY <1>1, TypeStep, SightStep, RecoveryStep DEF Inv
<1>2. CASE UNCHANGED vars
  <2>1. TypeOK'
    BY <1>2 DEF Inv, TypeOK, vars
  <2>2. Sight'
    BY <1>2 DEF Inv, vars, Sight, InOrder, Born, Childless, Unborn, OneName, SweepSees, Led, SessionIsAccounted,
                OneGeneration, Alive
  <2>3. Recovery'
    BY <1>2 DEF Inv, vars, Recovery, Evidence, FreshlyOpen, Owned, InFlight, RestartsAreBounded
  <2> QED
    BY <2>1, <2>2, <2>3 DEF Inv
<1> QED
  BY <1>1, <1>2

LEMMA InvAlways == Spec => []Inv
BY InitInv, NextInv, PTL DEF Spec

\* Every variable keeps the type that the coroutines, the worker and Redis rely on.
THEOREM SupervisionTypes == Spec => []TypeOK
<1>1. Inv => TypeOK
  BY DEF Inv
<1> QED
  BY <1>1, InvAlways, PTL

\* Whatever the sweep and the restart loop interleave, whatever fails and whatever an
\* operator clears, a process that belongs to the worker is under the generation in the
\* process map, under the handle that the monitor retains or under a physical latch.
\* Out of sight is only what was lost: a session not registered whose leader was waited
\* for, when neither the proof that it is empty nor the latch could be had.
THEOREM SessionsStayAccounted == Spec => []SessionIsAccounted
<1>1. Inv => SessionIsAccounted
  BY DEF Inv, Sight
<1> QED
  BY <1>1, InvAlways, PTL

\* Two generations of the worker never both have a process, unless one was lost in that
\* way: a spawn finds no latch, and the map and the handle empty.
THEOREM GenerationsStayApart == Spec => []OneGeneration
<1>1. Inv => OneGeneration
  BY DEF Inv, Sight
<1> QED
  BY <1>1, InvAlways, PTL

\* The processes started without evidence of a recovery are no more than
\* max_restart_attempts, and one more once an operator has cleared a latch.
THEOREM RestartsStayBounded == Spec => []RestartsAreBounded
<1>1. Inv => RestartsAreBounded
  BY DEF Inv, Recovery
<1> QED
  BY <1>1, InvAlways, PTL

-----------------------------------------------------------------------------
(* Requests that skip the recovery check.                                  *)

\* A request that must be served names no generation, or one whose leader has run and ended.
OfTheDead(r) == r.required /\ r.gen # NoGen => session[r.gen].lead \notin {"none", "up"}

\* Such requests alone are queued or served; and the map cannot move on to another
\* generation while a sweep examines the registered one.
Careful ==
  /\ \A i \in 1..Len(queue) : OfTheDead(queue[i])
  /\ OfTheDead(restart.req)
  /\ sweep.pid # NoGen => map \in {NoGen, sweep.pid}

\* The dead stay dead.
LEMMA DeadStayDead ==
  ASSUME Inv, Next, NEW r \in Requests, OfTheDead(r)
  PROVE  r.required /\ r.gen # NoGen => session'[r.gen].lead \notin {"none", "up"}
<1>1. SUFFICES ASSUME r.required, r.gen # NoGen
               PROVE  session'[r.gen].lead \notin {"none", "up"}
  OBVIOUS
<1>2. r.gen \in Gens /\ session[r.gen].lead \notin {"none", "up"}
  BY <1>1, Blanks DEF OfTheDead, Requests
<1>3. CASE Spawn
  BY <1>2, <1>3, SpawnMoves
<1>4. CASE Ages
  BY <1>2, <1>4 DEF Ages
<1> QED
  BY <1>3, <1>4, SessionMoves

\* What a step does to the requests.
LEMMA RequestMoves ==
  ASSUME Inv, Careful, Next
  PROVE  /\ \/ UNCHANGED queue
            \/ queue # <<>> /\ queue' = Tail(queue)
            \/ \E r \in Requests : OfTheDead(r) /\ queue' = Append(queue, r)
         /\ \E r \in Requests : OfTheDead(r) /\ restart'.req = r
<1>a. /\ restart \in Restarts /\ queue \in Seq(Requests) /\ session \in [Gens -> Sessions] /\ map \in 0..MaxGens
      /\ restart.req \in Requests
  BY TypeParts DEF Inv, Restarts
<1>b. /\ NoRequest \in Requests /\ OfTheDead(NoRequest)
      /\ RequestFor(FALSE) \in Requests /\ OfTheDead(RequestFor(FALSE))
      /\ [gen |-> NoGen, required |-> TRUE] \in Requests /\ OfTheDead([gen |-> NoGen, required |-> TRUE])
      /\ OfTheDead(restart.req)
  BY <1>a, Blanks, SupervisionAssumption DEF NoRequest, Requests, RequestFor, OfTheDead, Careful, NoGen
<1>n. /\ NoRestart.req = NoRequest
      /\ \A p, r : [NoRestart EXCEPT !.pc = p, !.req = r].req = r
      /\ [NoRestart EXCEPT !.pc = "watch"].req = NoRequest
      /\ [NoRestart EXCEPT !.pc = "pause", !.req.required = TRUE].req = [gen |-> NoGen, required |-> TRUE]
  BY DEF NoRestart, NoRequest
<1>1. \/ UNCHANGED queue
      \/ queue # <<>> /\ queue' = Tail(queue)
      \/ \E r \in Requests : OfTheDead(r) /\ queue' = Append(queue, r)
  <2>1. CASE Act \/ Missing
    BY <1>b, <2>1 DEF Act, Missing, Enqueue
  <2>2. CASE ExamineMapped
    <3>1. CASE session[sweep.pid].lead \in {"zombie", "gone"} /\ Enqueue(TRUE)
      <4>1. map \in {NoGen, sweep.pid}
        BY <2>2 DEF ExamineMapped, Careful
      <4>2. RequestFor(TRUE) \in Requests /\ OfTheDead(RequestFor(TRUE))
        BY <1>a, <3>1, <4>1 DEF RequestFor, Requests, OfTheDead
      <4> QED
        BY <3>1, <4>2 DEF Enqueue
    <3>2. CASE queue' = Append(queue, [gen |-> NoGen, required |-> TRUE])
      BY <1>b, <3>2
    <3> QED
      BY <2>2, <3>1, <3>2 DEF ExamineMapped
  <2>3. CASE TakeStale \/ Take \/ Exhaust
    BY <2>3 DEF TakeStale, Take, Exhaust
  <2>4. CASE Raise \/ Retry
    BY <1>a, <1>b, <2>4 DEF Raise, Retry
  <2>5. UNCHANGED queue \/ Act \/ Missing \/ ExamineMapped \/ TakeStale \/ Take \/ Exhaust \/ Raise \/ Retry
    BY DEF Next, SweepStep, RestartStep, Time, World, Others, SweepLatched, Scan, ExamineLatched, ExamineUnmapped,
           RefuseLatched, Release, KillNothing, KillSession, Proved, ProvedUnrecorded, Unproved, SpawnUnknown,
           SpawnKnown, Settle, CleanupProved, CleanupUnproved, Watch,
           Age, Expire, Beat, Flag, Exit, Wither, Reuse, WorkerLatches, Clear
  <2> QED
    BY <2>1, <2>2, <2>3, <2>4, <2>5
<1>2. \E r \in Requests : OfTheDead(r) /\ restart'.req = r
  <2>1. restart'.req = restart.req \/ restart'.req = NoRequest
        \/ restart'.req = [gen |-> NoGen, required |-> TRUE] \/ Take
    <3>1. CASE TakeStale \/ Exhaust \/ Release \/ Watch \/ Raise \/ Retry
      BY <1>n, <3>1 DEF TakeStale, Exhaust, Release, Watch, Raise, Retry, Dropped
    <3>2. CASE KillNothing
      BY <1>n, <3>2 DEF KillNothing, Rebound
    <3>3. CASE Failed
      BY <1>a, <3>3 DEF Failed, Restarts
    <3>4. CASE Proved
      BY <1>n, <3>3, <3>4 DEF Proved, Rebound
    <3>5. CASE KillSession
      BY <1>a, <3>5 DEF KillSession, Restarts
    <3>6. CASE Settle
      <4>1. \/ restart' = [NoRestart EXCEPT !.pc = "watch"]
            \/ restart' = [restart EXCEPT !.pc = "cleanup"]
        BY <3>6 DEF Settle, To
      <4> QED
        BY <1>a, <1>n, <4>1 DEF Restarts
    <3>7. CASE SpawnUnknown
      BY <1>a, <3>7 DEF SpawnUnknown, Restarts
    <3>8. CASE SpawnKnown
      <4>1. \E p, g : restart' = [restart EXCEPT !.pc = p, !.target = g]
        BY <3>8 DEF SpawnKnown
      <4> QED
        BY <1>a, <4>1 DEF Restarts
    <3>9. SweepStep \/ Time \/ World => restart' = restart
      BY DEF SweepStep, Time, World, Others, SweepLatched, Scan, Act, Missing, ExamineLatched, ExamineUnmapped,
             ExamineMapped, Age, Expire, Beat, Flag, Exit, Wither, Reuse, WorkerLatches, Clear
    <3>10. RefuseLatched \/ ProvedUnrecorded \/ Unproved \/ CleanupProved \/ CleanupUnproved => Failed
      BY DEF RefuseLatched, ProvedUnrecorded, Unproved, CleanupProved, CleanupUnproved
    <3> QED
      BY <3>1, <3>2, <3>3, <3>4, <3>5, <3>6, <3>7, <3>8, <3>9, <3>10 DEF Next, RestartStep
  <2>2. CASE Take
    <3>1. queue # <<>> /\ restart' = [NoRestart EXCEPT !.pc = "check", !.req = Head(queue)]
      BY <2>2 DEF Take
    <3>2. restart'.req = Head(queue)
      BY <1>n, <3>1
    <3>3. Head(queue) \in Requests /\ Head(queue) = queue[1] /\ 1 \in 1..Len(queue)
      BY <1>a, <3>1, HeadTailProperties, EmptySeq, LenProperties
    <3> QED
      BY <3>2, <3>3 DEF Careful
  <2> QED
    BY <1>a, <1>b, <2>1, <2>2
<1> QED
  BY <1>1, <1>2

LEMMA CarefulStep ==
  ASSUME Inv, Careful, Next
  PROVE  Careful'
<1>a. queue \in Seq(Requests) /\ restart \in Restarts
  BY TypeParts DEF Inv
<1> DEFINE Dead(r) == r.required /\ r.gen # NoGen => session'[r.gen].lead \notin {"none", "up"}
<1>1. \A r \in Requests : OfTheDead(r) => Dead(r)
  BY DeadStayDead
<1>2. \A i \in 1..Len(queue) : queue[i] \in Requests /\ OfTheDead(queue[i])
  BY <1>a DEF Careful
<1> HIDE DEF Dead
<1>3. \A i \in 1..Len(queue') : Dead(queue'[i])
  <2>1. CASE UNCHANGED queue
    BY <1>1, <1>2, <2>1
  <2>2. CASE queue # <<>> /\ queue' = Tail(queue)
    <3>1. Len(queue') = Len(queue) - 1 /\ Len(queue) \in Nat /\ \A i \in 1..Len(queue') : queue'[i] = queue[i + 1]
      BY <1>a, <2>2, HeadTailProperties, LenProperties
    <3>2. \A i \in 1..Len(queue') : i + 1 \in 1..Len(queue)
      BY <3>1
    <3> QED
      BY <1>1, <1>2, <3>1, <3>2
  <2>3. CASE \E r \in Requests : OfTheDead(r) /\ queue' = Append(queue, r)
    <3>1. PICK r \in Requests : OfTheDead(r) /\ queue' = Append(queue, r)
      BY <2>3
    <3>2. /\ Len(queue') = Len(queue) + 1 /\ Len(queue) \in Nat /\ queue'[Len(queue) + 1] = r
          /\ \A i \in 1..Len(queue) : queue'[i] = queue[i]
      BY <1>a, <3>1, AppendProperties, LenProperties
    <3>3. \A i \in 1..Len(queue') : i \in 1..Len(queue) \/ i = Len(queue) + 1
      BY <3>2
    <3> QED
      BY <1>1, <1>2, <3>1, <3>2, <3>3
  <2> QED
    BY <2>1, <2>2, <2>3, RequestMoves
<1>4. Dead(restart'.req)
  BY <1>1, RequestMoves
<1>5. sweep'.pid # NoGen => map' \in {NoGen, sweep'.pid}
  <2>1. CASE Spawn
    <3>1. sweep' = sweep /\ sweep.pc # "examine"
      BY <2>1 DEF Spawn, SpawnUnknown, SpawnKnown, SweepIsQuick
    <3> QED
      BY <3>1 DEF Inv, Sight, SweepSees
  <2>2. CASE ~Spawn
    <3>1. map' \in {map, NoGen}
      BY <2>2, OthersKeepNames, DropsAreDead, ContainedMoves
    <3>2. sweep' = sweep \/ sweep'.pid = NoGen \/ (sweep'.pid = map /\ map' = map)
      BY SweepMoves
    <3> QED
      BY <3>1, <3>2 DEF Careful
  <2> QED
    BY <2>1, <2>2
<1> QED
  BY <1>3, <1>4, <1>5 DEF Careful, OfTheDead, Dead

LEMMA CarefulAlways == Spec => [](Inv /\ Careful)
<1>1. Init => Careful
  BY SupervisionAssumption, EmptySeq, LenProperties DEF Init, Careful, OfTheDead, NoRestart, NoRequest, NoSweep
<1>2. Inv /\ Careful /\ [Next]_vars => Careful'
  <2>1. ASSUME Inv, Careful, UNCHANGED vars PROVE Careful'
    BY <2>1 DEF Careful, OfTheDead, vars
  <2> QED
    BY <2>1, CarefulStep
<1> QED
  BY <1>1, <1>2, InitInv, NextInv, PTL DEF Spec

\* A kill that skips the recovery check is of a generation that has ended: the requests
\* that must be served were made of the dead, and name the generation the map still has.
THEOREM NoLiveReplacement == Spec => OnlyTheDeadAreReplaced
<1> DEFINE Safe == KillSession /\ map # NoGen /\ restart.req.required => session[map].lead # "up"
<1>1. Inv /\ Careful /\ [Next]_vars => [Safe]_vars
  <2>1. ASSUME Careful, KillSession, map # NoGen, restart.req.required
        PROVE  session[map].lead # "up"
    BY <2>1 DEF KillSession, MayKill, RequestIsCurrent, Careful, OfTheDead
  <2> QED
    BY <2>1
<1>2. Spec => [][Safe]_vars
  BY <1>1, CarefulAlways, PTL DEF Spec
<1> QED
  BY <1>2 DEF OnlyTheDeadAreReplaced
=============================================================================
