--------------------------- MODULE ChildReap_proofs ---------------------------
(***************************************************************************)
(* Theorems of ChildReap, for any handles, process numbers and bounds.     *)
(***************************************************************************)
EXTENDS ChildReap, TLAPS

-----------------------------------------------------------------------------
(* The invariant.                                                          *)

HandlePcs == {"new", "spawned", "starting", "active", "stop", "snapshot", "mark", "settle", "kill", "verify",
              "join", "drain", "audit", "read", "unproven", "proven"}

ProcType ==
    [st : {"free", "run", "stop", "zombie"}, sig : {"none", "stop", "kill"}, up : Pids \cup {Outer, None},
     grp : Pids \cup {Outer}, gen : Nat, of : Handles \cup {None}, cut : BOOLEAN]

HandleType ==
    [pc : HandlePcs, pid : Pids \cup {None}, own : Nat, gen : Nat, start : BOOLEAN, id : BOOLEAN,
     acked : BOOLEAN, audit : BOOLEAN, crashed : BOOLEAN]

Ids == [pid : Pids, gen : Nat]

FreezeType == [known : SUBSET Ids, settled : BOOLEAN, marker : SUBSET Ids]

LookType == [todo : SUBSET Pids, since : Nat, snap : [Pids -> ProcType]]

TypeOK ==
    /\ proc \in [Pids -> ProcType]
    /\ hnd \in [Handles -> HandleType]
    /\ freeze \in [Handles -> FreezeType]
    /\ look \in [Handles -> LookType]
    /\ starting \subseteq Ids /\ active \subseteq Ids
    /\ born \in Nat /\ misses \in Nat

\* A family has one founder, and a parent that is there is alive, older and of the same one.
Families ==
    \A p \in Pids :
      /\ proc[p].gen <= born
      /\ Present(p) => proc[p].of \in Handles /\ proc[p].up # p
      /\ Present(p) /\ proc[p].up \in Pids =>
           Live(proc[p].up) /\ proc[proc[p].up].of = proc[p].of /\ proc[proc[p].up].gen < proc[p].gen

\* A registered process that is there is the child of the handle that registered it.
Registered ==
    \A id \in starting \cup active :
      /\ id.gen <= born
      /\ Same(id) => hnd[proc[id.pid].of].start /\ Captured(proc[id.pid].of) = id

\* A handle whose constructor has its PID, until it is closed.
Used(h) == hnd[h].pc \notin {"new", "proven"}

\* A handle knows only what has been born, and its PID has not been given to another
\* handle's child while its own holds it.
Holds(h) ==
    /\ Used(h) => hnd[h].pid \in Pids
    /\ hnd[h].gen <= born /\ hnd[h].own <= born
    /\ \A id \in freeze[h].known \cup freeze[h].marker : id.gen <= born
    /\ Used(h) /\ Owned(h) => proc[hnd[h].pid].of = h

\* The captured generation is the one of the child, or the child is gone.
OwnIdentity(h) ==
    /\ hnd[h].pc \in {"new", "spawned"} => ~hnd[h].id /\ ~hnd[h].start
    /\ hnd[h].pc = "spawned" /\ Present(hnd[h].pid) => Owned(h)
    /\ hnd[h].pc \in {"starting", "active"} => hnd[h].start
    /\ hnd[h].pc = "active" => hnd[h].id
    /\ hnd[h].start => Used(h) /\ hnd[h].gen = hnd[h].own
    /\ Used(h) /\ hnd[h].id => hnd[h].gen = hnd[h].own \/ ~Owned(h)

\* A child in service leads its group and is registered.
Attested(h) ==
    hnd[h].pc = "active" /\ Same(Captured(h)) => Captured(h) \in active /\ proc[hnd[h].pid].grp = hnd[h].pid

\* An audit is one of a leader that is gone.
AuditsTheGone(h) ==
    /\ hnd[h].pc \in {"audit", "read"} => hnd[h].audit
    /\ hnd[h].pc = "join" /\ hnd[h].audit => ~Same(Captured(h)) \/ (hnd[h].start /\ ~hnd[h].id)
    /\ hnd[h].pc \in {"drain", "audit", "read"} /\ hnd[h].audit => ~Same(Captured(h))

\* Whoever else has the leader's PID came during the freeze.
LeaderOrCut(h) ==
    Present(hnd[h].pid) /\ proc[hnd[h].pid].of = h => Same(Captured(h)) \/ proc[hnd[h].pid].cut

\* A freeze is one of a leader that was found, and knows it.
KnowsLeader(h) == hnd[h].id /\ ~hnd[h].audit /\ Captured(h) \in freeze[h].known

\* A process that is stopped or has a signal pending does not get back to its program.
Halted(p) == ~(proc[p].st = "run" /\ proc[p].sig = "none")

\* The pass of a freeze has stopped the group.
GroupHalted(h) ==
    /\ \A p \in Group(hnd[h].pid) : proc[p].of = h => proc[p].cut \/ Halted(p)
    /\ Same(Captured(h)) => proc[hnd[h].pid].grp = hnd[h].pid

\* What a pass found frozen stays frozen.
MarkedFrozen(h) == \A id \in freeze[h].marker : Same(id) => Frozen(id.pid)

\* The leader, and what has an ancestry to it.
Tree(h) == IF Same(Captured(h)) THEN Descendants(hnd[h].pid) \cup {hnd[h].pid} ELSE {}

\* After its snapshot a freeze knows the group, and who has a parent of an earlier pass.
UnknownApart(h) ==
    \A p \in Pids : Present(p) /\ Identity(p) \notin freeze[h].known =>
      /\ proc[p].of = h => proc[p].cut \/ proc[p].grp # hnd[h].pid
      /\ proc[p].up \in Tree(h) => Identity(proc[p].up) \notin freeze[h].marker

\* After the freeze everybody in sight is known and stopped.
Caught(h) ==
    \A p \in Pids : Present(p) /\ proc[p].of = h => proc[p].cut \/ (Identity(p) \in freeze[h].known /\ Frozen(p))

\* After the kill nobody is left who was in sight.
Cleared(h) == \A p \in Family(h) : hnd[h].audit \/ proc[p].cut

\* Once an audit has passed, none of the family is left but whom it missed.
NobodyLeft(h) == \A p \in Pids : Present(p) /\ proc[p].of = h => proc[p].cut

\* What holds at each point of the shutdown.
ReapOK(h) ==
    /\ Freezing(h) => KnowsLeader(h) /\ LeaderOrCut(h)
    /\ hnd[h].pc \in {"snapshot", "mark", "settle"} => GroupHalted(h)
    /\ hnd[h].pc \in {"mark", "settle"} => UnknownApart(h)
    /\ hnd[h].pc \in {"kill", "verify"} => Caught(h)
    /\ hnd[h].pc \in {"drain", "proven"} => Cleared(h)
    /\ hnd[h].pc = "proven" /\ hnd[h].audit => NobodyLeft(h)

HandleOK(h) ==
    Holds(h) /\ OwnIdentity(h) /\ Attested(h) /\ AuditsTheGone(h) /\ MarkedFrozen(h) /\ ReapOK(h)

\* Born before the listing of h's audit.
Old(h, gen) == gen <= look[h].since

\* A process that was born before the listing is still to be read, or was read.
Listed(h) ==
    /\ look[h].since <= born
    /\ \A p \in look[h].todo : ~Seen(h, p)
    /\ \A p \in Pids : Present(p) /\ Old(h, proc[p].gen) =>
         p \in look[h].todo \/ (Seen(h, p) /\ look[h].snap[p].gen = proc[p].gen)

\* What was read is of the family it was read as; who is registered under it is that
\* family's handle; and whoever has its parent's PID, and has had it since the listing,
\* is its parent.
EntryOK(h, p) ==
    LET e == look[h].snap[p] IN
    /\ e.gen <= born /\ e.of \in Handles
    /\ Present(p) /\ proc[p].gen = e.gen => proc[p].of = e.of
    /\ [pid |-> p, gen |-> e.gen] \in starting \cup active =>
         hnd[e.of].start /\ Captured(e.of) = [pid |-> p, gen |-> e.gen]
    /\ Old(h, e.gen) /\ e.up \in Pids =>
         /\ Present(e.up) /\ Old(h, proc[e.up].gen) => proc[e.up].of = e.of
         /\ Seen(h, e.up) /\ Old(h, look[h].snap[e.up].gen) => look[h].snap[e.up].of = e.of

\* What an audit holds while it reads /proc.
LookOK(h) == hnd[h].pc = "read" => Listed(h) /\ \A p \in Pids : Seen(h, p) => EntryOK(h, p)

ReapInv == TypeOK /\ Families /\ Registered /\ (\A h \in Handles : HandleOK(h)) /\ (\A h \in Handles : LookOK(h))

-----------------------------------------------------------------------------
(* Types.                                                                  *)

LEMMA SeenAreIds ==
  ASSUME TypeOK, NEW S \in SUBSET Pids
  PROVE  {Identity(q) : q \in S} \subseteq Ids
BY DEF TypeOK, Identity, Ids, ProcType

LEMMA SignalledTypes ==
  ASSUME TypeOK, NEW S, NEW sig \in {"stop", "kill"}, proc' = Signalled(S, sig)
  PROVE  proc' \in [Pids -> ProcType]
BY DEF TypeOK, Signalled, ProcType

LEMMA BornTypes ==
  ASSUME TypeOK, NEW h \in Handles, NEW p \in Pids, NEW up \in Pids \cup {Outer, None}, NEW grp \in Pids \cup {Outer},
         NEW cut \in BOOLEAN, Born(h, p, up, grp, cut)
  PROVE  proc' \in [Pids -> ProcType] /\ born' \in Nat
<1>1. PICK c \in BOOLEAN : c = (cut \/ (Freezing(h) /\ hnd[h].pid = p))
  OBVIOUS
<1>2. proc' = [proc EXCEPT ![p] = [Free EXCEPT !.st = "run", !.up = up, !.grp = grp,
                                                !.gen = born + 1, !.of = h, !.cut = c]]
  BY <1>1 DEF Born
<1>3. born + 1 \in Nat /\ born' = born + 1
  BY DEF TypeOK, Born
<1>4. [Free EXCEPT !.st = "run", !.up = up, !.grp = grp, !.gen = born + 1, !.of = h, !.cut = c] \in ProcType
  BY <1>3 DEF Free, ProcType
<1> QED
  BY <1>2, <1>3, <1>4 DEF TypeOK

LEMMA FreeType == Free \in ProcType
BY DEF Free, ProcType

LEMMA EndedTypes ==
  ASSUME TypeOK, NEW p \in Pids, Ended(p)
  PROVE  proc' \in [Pids -> ProcType]
BY FreeType DEF TypeOK, Ended, ProcType

LEMMA CollectedTypes ==
  ASSUME TypeOK, NEW h \in Handles, Collected(h)
  PROVE  proc' \in [Pids -> ProcType] /\ freeze' \in [Handles -> FreezeType]
<1>1. NoFreeze \in FreezeType
  BY DEF NoFreeze, FreezeType
<1> QED
  BY <1>1, FreeType DEF TypeOK, Collected

LEMMA ProcessTypes ==
  ASSUME TypeOK, Families, NEW p \in Pids, Process(p)
  PROVE  TypeOK'
<1>1. CASE Fork(p)
  <2>1. PICK q \in Pids : Born(proc[p].of, q, p, proc[p].grp, proc[p].cut)
    BY <1>1 DEF Fork
  <2>2. proc[p].of \in Handles /\ proc[p].grp \in Pids \cup {Outer} /\ proc[p].cut \in BOOLEAN
    BY <1>1 DEF Fork, Acts, Families, Present, TypeOK, ProcType
  <2>3. proc' \in [Pids -> ProcType] /\ born' \in Nat
    BY <2>1, <2>2, BornTypes
  <2> QED
    BY <1>1, <2>3 DEF Fork, TypeOK
<1>2. CASE Regroup(p)
  BY <1>2 DEF Regroup, TypeOK, ProcType
<1>3. CASE Exit(p)
  BY <1>3, EndedTypes DEF Exit, TypeOK
<1>4. CASE TakeSignal(p)
  <2>1. CASE Ended(p)
    BY <1>4, <2>1, EndedTypes DEF TakeSignal, TypeOK
  <2>2. CASE proc' = [proc EXCEPT ![p].st = "stop", ![p].sig = "none"]
    BY <1>4, <2>2 DEF TakeSignal, TypeOK, ProcType
  <2> QED
    BY <1>4, <2>1, <2>2 DEF TakeSignal
<1>5. CASE Collect(p)
  BY <1>5, FreeType DEF Collect, TypeOK
<1> QED
  BY <1>1, <1>2, <1>3, <1>4, <1>5 DEF Process

LEMMA HandleFields ==
  ASSUME TypeOK, NEW h \in Handles
  PROVE  /\ hnd[h] \in HandleType /\ freeze[h] \in FreezeType
         /\ hnd[h].pid \in Pids \cup {None} /\ hnd[h].own \in Nat /\ hnd[h].gen \in Nat
         /\ freeze[h].known \subseteq Ids /\ freeze[h].marker \subseteq Ids
BY DEF TypeOK, HandleType, FreezeType

LEMMA ConstructorTypes ==
  ASSUME TypeOK, NEW h \in Handles, Holds(h), Constructor(h)
  PROVE  TypeOK'
<1>f. hnd \in [Handles -> HandleType] /\ hnd[h] \in HandleType /\ born \in Nat /\ proc \in [Pids -> ProcType]
  BY DEF TypeOK
<1>1. CASE Start(h)
  <2>1. PICK p \in Pids : Born(h, p, Outer, Outer, FALSE)
                          /\ hnd' = [hnd EXCEPT ![h].pc = "spawned", ![h].pid = p, ![h].own = born + 1]
    BY <1>1 DEF Start
  <2>2. proc' \in [Pids -> ProcType] /\ born' \in Nat
    BY <2>1, BornTypes
  <2>3. born + 1 \in Nat
    BY <1>f
  <2>4. hnd' \in [Handles -> HandleType]
    BY <2>1, <2>3, <1>f DEF HandleType, HandlePcs
  <2> QED
    BY <1>1, <2>2, <2>4 DEF Start, TypeOK
<1>2. CASE Register(h)
  <2>1. hnd[h].pid \in Pids
    BY <1>2 DEF Holds, Used, Register, Pc
  <2>2. proc[hnd[h].pid].gen \in Nat
    BY <2>1, <1>f DEF ProcType
  <2>3. Identity(hnd[h].pid) \in Ids
    BY <2>1, <2>2 DEF Identity, Ids
  <2>4. hnd' \in [Handles -> HandleType]
    BY <1>2, <1>f, <2>2 DEF Register, HandleType, HandlePcs
  <2> QED
    BY <1>2, <2>3, <2>4 DEF Register, TypeOK, Put
<1>3. CASE EnterGroup(h)
  <2>1. proc' \in [Pids -> ProcType]
    BY <1>3, <1>f, HandleFields DEF EnterGroup, ProcType
  <2> QED
    BY <1>3, <2>1 DEF EnterGroup, TypeOK
<1>4. CASE Promote(h)
  <2>1. Identity(hnd[h].pid) \in Ids
    BY <1>4 DEF Promote, TypeOK
  <2>2. hnd' \in [Handles -> HandleType]
    BY <1>4, <1>f DEF Promote, HandleType, HandlePcs
  <2> QED
    BY <1>4, <2>1, <2>2 DEF Promote, TypeOK, Put
<1> QED
  BY <1>1, <1>2, <1>3, <1>4 DEF Constructor

\* The shutdown begins at a leader that is there, or without one.
LEMMA Enters ==
  ASSUME TypeOK, NEW h \in Handles, Holds(h), Enter(h)
  PROVE  /\ Used(h) /\ UNCHANGED <<proc, look, starting, active, born, misses>>
         /\ \A g \in Handles \ {h} : hnd'[g] = hnd[g] /\ freeze'[g] = freeze[g]
         /\ hnd'[h].pid = hnd[h].pid /\ hnd'[h].own = hnd[h].own /\ hnd'[h].start = hnd[h].start
         /\ (~Adoptable(h) /\ hnd'[h].gen = hnd[h].gen) \/ (Adoptable(h) /\ hnd'[h].gen = proc[hnd[h].pid].gen)
         /\ hnd'[h].id => hnd[h].id \/ Adoptable(h)
         /\ freeze'[h].marker = {}
         /\ \/ /\ hnd'[h].pc = "stop" /\ hnd'[h].id
               /\ Same([pid |-> hnd[h].pid, gen |-> hnd'[h].gen])
               /\ freeze'[h].known = {[pid |-> hnd[h].pid, gen |-> hnd'[h].gen]}
               /\ ~hnd'[h].audit
            \/ /\ hnd'[h].pc = "join" /\ freeze'[h].known = {}
               /\ hnd'[h].audit => ~Same([pid |-> hnd[h].pid, gen |-> hnd'[h].gen]) \/ (hnd[h].start /\ ~hnd'[h].id)
         /\ TypeOK'
<1> DEFINE p == hnd[h].pid
<1>f. /\ hnd \in [Handles -> HandleType] /\ hnd[h] \in HandleType /\ proc \in [Pids -> ProcType]
      /\ freeze \in [Handles -> FreezeType]
  BY DEF TypeOK
<1>u. Used(h) /\ p \in Pids /\ proc[p].gen \in Nat
  <2>1. Used(h)
    BY DEF Enter, Used
  <2> QED
    BY <2>1, <1>f DEF Holds, ProcType
<1>1. PICK adopt \in BOOLEAN : adopt = Adoptable(h)
  BY DEF Adoptable
<1>2. PICK known \in BOOLEAN : known = (hnd[h].id \/ Adoptable(h))
  BY <1>f DEF Adoptable, HandleType
<1>3. PICK gen \in Nat : gen = IF Adoptable(h) THEN proc[p].gen ELSE hnd[h].gen
  BY <1>u, <1>f DEF HandleType
<1>4. PICK tree \in BOOLEAN : tree = (known /\ Same([pid |-> p, gen |-> gen]))
  OBVIOUS
<1>5. PICK audit \in BOOLEAN : audit = (~tree /\ (known \/ hnd[h].start))
  OBVIOUS
<1>6. PICK crashed \in BOOLEAN : crashed = (hnd[h].crashed \/ ~(Owned(h) /\ Live(p)))
  OBVIOUS
<1>7. /\ hnd' = [hnd EXCEPT ![h].pc = IF tree THEN "stop" ELSE "join", ![h].id = known, ![h].gen = gen,
                            ![h].audit = audit, ![h].crashed = crashed]
      /\ freeze' = [freeze EXCEPT ![h] = [NoFreeze EXCEPT !.known = IF tree THEN {[pid |-> p, gen |-> gen]} ELSE {}]]
      /\ UNCHANGED <<proc, look, starting, active, born, misses>>
  BY <1>2, <1>3, <1>4, <1>5, <1>6 DEF Enter
<1>8. PICK pc \in {"stop", "join"} : pc = IF tree THEN "stop" ELSE "join"
  OBVIOUS
<1>i. [pid |-> p, gen |-> gen] \in Ids
  BY <1>u DEF Ids
<1>9. PICK k \in SUBSET Ids : k = IF tree THEN {[pid |-> p, gen |-> gen]} ELSE {}
  BY <1>i
<1>10. /\ hnd' = [hnd EXCEPT ![h].pc = pc, ![h].id = known, ![h].gen = gen, ![h].audit = audit, ![h].crashed = crashed]
       /\ freeze' = [freeze EXCEPT ![h] = [NoFreeze EXCEPT !.known = k]]
  BY <1>7, <1>8, <1>9
<1>11. /\ hnd' \in [Handles -> HandleType]
       /\ \A g \in Handles \ {h} : hnd'[g] = hnd[g]
       /\ hnd'[h].pid = hnd[h].pid /\ hnd'[h].own = hnd[h].own /\ hnd'[h].start = hnd[h].start
       /\ hnd'[h].gen = gen /\ hnd'[h].id = known /\ hnd'[h].audit = audit /\ hnd'[h].pc = pc
  BY <1>10, <1>f DEF HandleType, HandlePcs
<1>12. [NoFreeze EXCEPT !.known = k] \in FreezeType
  BY DEF NoFreeze, FreezeType
<1>13. /\ freeze' \in [Handles -> FreezeType] /\ \A g \in Handles \ {h} : freeze'[g] = freeze[g]
       /\ freeze'[h].known = k /\ freeze'[h].marker = {}
  BY <1>10, <1>12, <1>f DEF NoFreeze
<1>14. TypeOK'
  BY <1>7, <1>11, <1>13 DEF TypeOK
<1>15. (~Adoptable(h) /\ gen = hnd[h].gen) \/ (Adoptable(h) /\ gen = proc[p].gen)
  BY <1>3
<1> HIDE DEF p
<1>16. CASE tree
  BY <1>u, <1>2, <1>4, <1>5, <1>7, <1>8, <1>9, <1>11, <1>13, <1>14, <1>15, <1>16 DEF p
<1>17. CASE ~tree
  BY <1>u, <1>2, <1>4, <1>5, <1>7, <1>8, <1>9, <1>11, <1>13, <1>14, <1>15, <1>17 DEF p
<1> QED
  BY <1>16, <1>17

\* What a shutdown step does to its own handle, past its beginning.
ShutdownStep(h) ==
    \/ StopGroup(h) \/ Snapshot(h) \/ Mark(h) \/ Settle(h) \/ Kill(h) \/ Verify(h) \/ GiveUp(h)
    \/ KillOwned(h) \/ Join(h) \/ Drain(h) \/ List(h) \/ Read(h) \/ Audit(h) \/ NotProven(h)

\* A handle moves to pc, and keeps what it is.
Turns(h, pc) ==
    /\ hnd' \in [Handles -> HandleType]
    /\ \A g \in Handles \ {h} : hnd'[g] = hnd[g]
    /\ hnd'[h].pc = pc /\ hnd'[h].pid = hnd[h].pid /\ hnd'[h].own = hnd[h].own /\ hnd'[h].gen = hnd[h].gen
    /\ hnd'[h].start = hnd[h].start /\ hnd'[h].id = hnd[h].id

LEMMA TurnsTo ==
  ASSUME TypeOK, NEW h \in Handles, NEW pc \in HandlePcs, hnd' = [hnd EXCEPT ![h].pc = pc]
  PROVE  Turns(h, pc) /\ hnd'[h].audit = hnd[h].audit
BY DEF TypeOK, Turns, HandleType

Closes(h) ==
    /\ starting' = starting \ {Captured(h)} /\ active' = active \ {Captured(h)}
    /\ hnd' \in [Handles -> HandleType]
    /\ \A g \in Handles \ {h} : hnd'[g] = hnd[g]
    /\ hnd'[h].pc = "proven" /\ ~hnd'[h].start /\ hnd'[h].gen = 0 /\ hnd'[h].own = 0 /\ ~hnd'[h].id
    /\ hnd'[h].audit = hnd[h].audit

LEMMA ReleaseCloses ==
  ASSUME TypeOK, NEW h \in Handles, Release(h)
  PROVE  Closes(h)
<1> DEFINE r == [NewHandle EXCEPT !.pc = "proven", !.audit = hnd[h].audit, !.crashed = hnd[h].crashed]
<1>1. hnd[h].audit \in BOOLEAN /\ hnd[h].crashed \in BOOLEAN /\ hnd \in [Handles -> HandleType]
  BY DEF TypeOK, HandleType
<1>2. r \in HandleType /\ r.pc = "proven" /\ ~r.start /\ r.gen = 0 /\ r.own = 0 /\ ~r.id /\ r.audit = hnd[h].audit
  BY <1>1 DEF NewHandle, HandleType, HandlePcs
<1>3. hnd' = [hnd EXCEPT ![h] = r] /\ starting' = starting \ {Captured(h)} /\ active' = active \ {Captured(h)}
  BY DEF Release, Closed
<1> HIDE DEF r
<1> QED
  BY <1>1, <1>2, <1>3 DEF Closes

\* A freeze turns to what it has found.
Finds(h, f) == freeze' = [freeze EXCEPT ![h] = f] /\ f \in FreezeType

Registries == <<starting, active>>

Refused(h) ==
    /\ hnd[h].pc \in {"stop", "snapshot", "verify"} /\ Turns(h, "join") /\ hnd'[h].audit = hnd[h].audit
    /\ UNCHANGED <<proc, freeze>> /\ UNCHANGED Registries

Stopped(h) ==
    /\ hnd[h].pc = "stop" /\ Turns(h, "snapshot") /\ hnd'[h].audit = hnd[h].audit
    /\ UNCHANGED freeze /\ UNCHANGED Registries
    /\ proc' = Signalled(Group(hnd[h].pid), "stop")
    /\ Same(Captured(h)) => proc[hnd[h].pid].grp = hnd[h].pid

Looked(h) ==
    /\ hnd[h].pc = "snapshot" /\ Turns(h, "mark") /\ hnd'[h].audit = hnd[h].audit
    /\ UNCHANGED proc /\ UNCHANGED Registries
    /\ Finds(h, [freeze[h] EXCEPT !.known = @ \cup {Identity(q) : q \in InSight(h)}])

Marked(h) ==
    /\ hnd[h].pc = "mark" /\ Turns(h, "settle") /\ hnd'[h].audit = hnd[h].audit
    /\ UNCHANGED freeze /\ UNCHANGED Registries
    /\ proc' = Signalled({id.pid : id \in Survivors(h)}, "stop")

Settled(h) ==
    /\ hnd[h].pc = "settle" /\ Turns(h, "kill") /\ hnd'[h].audit = hnd[h].audit
    /\ UNCHANGED freeze /\ UNCHANGED Registries
    /\ \A id \in Survivors(h) : Frozen(id.pid)
    /\ freeze[h].marker = Survivors(h)
    /\ proc' = [p \in Pids |-> IF p \in Hidden(h) THEN [proc[p] EXCEPT !.cut = TRUE] ELSE proc[p]]

GoesRound(h) ==
    /\ hnd[h].pc = "settle" /\ Turns(h, "stop") /\ hnd'[h].audit = hnd[h].audit
    /\ UNCHANGED proc /\ UNCHANGED Registries
    /\ \E s \in BOOLEAN : \E m \in SUBSET Survivors(h) :
         /\ Finds(h, [freeze[h] EXCEPT !.settled = s, !.marker = m])
         /\ \A id \in m : Frozen(id.pid)

Killed(h) ==
    /\ hnd[h].pc = "kill" /\ Turns(h, "verify") /\ hnd'[h].audit = hnd[h].audit
    /\ UNCHANGED freeze /\ UNCHANGED Registries
    /\ proc' = Signalled(Group(hnd[h].pid) \cup {id.pid : id \in Survivors(h)}, "kill")

Verified(h) ==
    /\ hnd[h].pc = "verify" /\ Turns(h, "drain") /\ hnd'[h].audit = hnd[h].audit
    /\ Collected(h) /\ UNCHANGED Registries
    /\ \A id \in Survivors(h) : ~Live(id.pid)

OwnKilled(h) ==
    /\ hnd[h].pc = "join" /\ UNCHANGED <<hnd, freeze>> /\ UNCHANGED Registries
    /\ proc' = Signalled({hnd[h].pid}, "kill")

Joined(h) ==
    /\ hnd[h].pc = "join" /\ ~(Owned(h) /\ Live(hnd[h].pid)) /\ Collected(h) /\ UNCHANGED Registries
    /\ hnd'[h].audit = hnd[h].audit
    /\ \/ ~hnd[h].audit /\ Turns(h, "unproven")
       \/ hnd[h].audit /\ hnd[h].id /\ Turns(h, "drain")
       \/ hnd[h].audit /\ ~hnd[h].id /\ Turns(h, "audit")

Drained(h) ==
    /\ hnd[h].pc = "drain" /\ hnd[h].audit /\ Turns(h, "audit") /\ hnd'[h].audit = hnd[h].audit
    /\ UNCHANGED <<proc, freeze>> /\ UNCHANGED Registries

Lists(h) ==
    /\ hnd[h].pc = "audit" /\ Turns(h, "read") /\ hnd'[h].audit = hnd[h].audit
    /\ UNCHANGED <<proc, freeze>> /\ UNCHANGED Registries
    /\ look' = [look EXCEPT ![h] = [NoLook EXCEPT !.todo = {p \in Pids : Present(p)}, !.since = born]]

Reads(h) ==
    /\ hnd[h].pc = "read" /\ UNCHANGED <<hnd, proc, freeze>> /\ UNCHANGED Registries
    /\ \E p \in look[h].todo : look' = [look EXCEPT ![h].todo = @ \ {p}, ![h].snap[p] = Entry(p)]

StartsOver(h) ==
    /\ hnd[h].pc = "read" /\ Turns(h, "audit") /\ hnd'[h].audit = hnd[h].audit
    /\ UNCHANGED <<proc, freeze>> /\ UNCHANGED Registries

Undecided(h) ==
    /\ hnd[h].pc \in {"join", "drain", "audit"} /\ Turns(h, "unproven") /\ UNCHANGED proc /\ UNCHANGED Registries
    /\ Finds(h, NoFreeze)

DrainCloses(h) ==
    /\ hnd[h].pc = "drain" /\ ~hnd[h].audit /\ Group(hnd[h].pid) = {} /\ Closes(h) /\ UNCHANGED <<proc, freeze>>

AuditCloses(h) ==
    /\ hnd[h].pc = "read" /\ look[h].todo = {} /\ (\A p \in Pids : Seen(h, p) => p \in Known(h)) /\ Closes(h)
    /\ proc' = [p \in Pids |-> IF proc[p].of = h THEN [proc[p] EXCEPT !.cut = p \in Missed(h)] ELSE proc[p]]
    /\ UNCHANGED freeze

\* The steps after which the handle still has its child.
Moves(h) ==
    \/ Refused(h) \/ Stopped(h) \/ Looked(h) \/ Marked(h) \/ Settled(h) \/ GoesRound(h) \/ Killed(h) \/ Verified(h)
    \/ OwnKilled(h) \/ Joined(h) \/ Drained(h) \/ Lists(h) \/ Reads(h) \/ StartsOver(h) \/ Undecided(h)

Steps(h) == Moves(h) \/ DrainCloses(h) \/ AuditCloses(h)

LEMMA ShutdownSteps ==
  ASSUME TypeOK, NEW h \in Handles, ShutdownStep(h)
  PROVE  Steps(h) /\ born' = born /\ misses' \in Nat
<1>f. /\ hnd \in [Handles -> HandleType] /\ hnd[h] \in HandleType /\ proc \in [Pids -> ProcType]
      /\ freeze \in [Handles -> FreezeType] /\ freeze[h] \in FreezeType /\ misses \in Nat
  BY DEF TypeOK
<1>t. \A pc \in HandlePcs : hnd' = [hnd EXCEPT ![h].pc = pc] => Turns(h, pc) /\ hnd'[h].audit = hnd[h].audit
  BY TurnsTo
<1>p. {"stop", "snapshot", "mark", "settle", "kill", "verify", "join", "drain", "audit", "read",
         "unproven"} \subseteq HandlePcs
  BY DEF HandlePcs
<1>1. CASE StopGroup(h)
  <2>1. hnd[h].pc = "stop" /\ UNCHANGED <<freeze, starting, active, born, misses>>
    BY <1>1 DEF StopGroup, Pc
  <2>2. CASE Refuses(h) /\ UNCHANGED proc
    BY <2>1, <2>2, <1>f, <1>t, <1>p DEF Refuses, Steps, Moves, Refused, Registries
  <2>3. CASE /\ proc' = Signalled(Group(hnd[h].pid), "stop") /\ hnd' = [hnd EXCEPT ![h].pc = "snapshot"]
             /\ Same(Captured(h)) => proc[hnd[h].pid].grp = hnd[h].pid
    BY <2>1, <2>3, <1>f, <1>t, <1>p DEF Steps, Moves, Stopped, Registries
  <2> QED
    BY <1>1, <2>2, <2>3 DEF StopGroup
<1>2. CASE Snapshot(h)
  <2>1. hnd[h].pc = "snapshot" /\ UNCHANGED <<proc, look, starting, active, born, misses>>
    BY <1>2 DEF Snapshot, Pc
  <2>2. CASE Refuses(h) /\ UNCHANGED freeze
    BY <2>1, <2>2, <1>f, <1>t, <1>p DEF Refuses, Steps, Moves, Refused, Registries
  <2>3. CASE /\ hnd' = [hnd EXCEPT ![h].pc = "mark"]
             /\ freeze' = [freeze EXCEPT ![h].known = @ \cup {Identity(q) : q \in InSight(h)}]
    <3>1. InSight(h) \subseteq Pids
      BY DEF InSight, Group, Descendants, Below, Present
    <3> DEFINE S == {Identity(q) : q \in InSight(h)}
    <3>2. S \subseteq Ids
      BY <3>1, SeenAreIds
    <3>3. freeze' = [freeze EXCEPT ![h] = [freeze[h] EXCEPT !.known = @ \cup S]]
      BY <2>3, <1>f
    <3> HIDE DEF S
    <3>4. [freeze[h] EXCEPT !.known = @ \cup S] \in FreezeType
      BY <3>2, <1>f DEF FreezeType
    <3>5. Finds(h, [freeze[h] EXCEPT !.known = @ \cup {Identity(q) : q \in InSight(h)}])
      BY <3>3, <3>4 DEF Finds, S
    <3> QED
      BY <2>1, <2>3, <3>5, <1>f, <1>t, <1>p DEF Steps, Moves, Looked, Registries
  <2> QED
    BY <1>2, <2>2, <2>3 DEF Snapshot
<1>3. CASE Mark(h)
  BY <1>3, <1>f, <1>t, <1>p DEF Mark, Pc, Steps, Moves, Marked, Registries
<1>4. CASE Settle(h)
  <2>1. hnd[h].pc = "settle" /\ UNCHANGED <<starting, active, born, misses>>
    BY <1>4 DEF Settle, Pc
  <2>2. CASE /\ (\A id \in Survivors(h) : Frozen(id.pid)) /\ Stable(h) /\ hnd' = [hnd EXCEPT ![h].pc = "kill"]
             /\ proc' = [p \in Pids |-> IF p \in Hidden(h) THEN [proc[p] EXCEPT !.cut = TRUE] ELSE proc[p]]
             /\ UNCHANGED freeze
    BY <2>1, <2>2, <1>f, <1>t, <1>p DEF Steps, Moves, Settled, Registries, Stable
  <2>3. CASE /\ hnd' = [hnd EXCEPT ![h].pc = "stop"] /\ UNCHANGED proc
             /\ LET frozen == \A id \in Survivors(h) : Frozen(id.pid)
                IN  freeze' = [freeze EXCEPT ![h].settled = frozen, ![h].marker = IF frozen THEN Survivors(h) ELSE {}]
    <3>1. PICK s \in BOOLEAN : s = \A id \in Survivors(h) : Frozen(id.pid)
      OBVIOUS
    <3>2. PICK m \in SUBSET Survivors(h) : m = IF s THEN Survivors(h) ELSE {}
      OBVIOUS
    <3>3. \A id \in m : Frozen(id.pid)
      BY <3>1, <3>2
    <3>4. freeze' = [freeze EXCEPT ![h] = [freeze[h] EXCEPT !.settled = s, !.marker = m]]
      BY <2>3, <3>1, <3>2, <1>f
    <3>5. m \subseteq Ids
      BY <1>f DEF Survivors, FreezeType
    <3>6. [freeze[h] EXCEPT !.settled = s, !.marker = m] \in FreezeType
      BY <3>5, <1>f DEF FreezeType
    <3>7. Finds(h, [freeze[h] EXCEPT !.settled = s, !.marker = m])
      BY <3>4, <3>6 DEF Finds
    <3> QED
      BY <2>1, <2>3, <3>3, <3>7, <1>f, <1>t, <1>p DEF Steps, Moves, GoesRound, Registries
  <2> QED
    BY <1>4, <2>2, <2>3 DEF Settle
<1>5. CASE Kill(h)
  BY <1>5, <1>f, <1>t, <1>p DEF Kill, Pc, Steps, Moves, Killed, Registries
<1>6. CASE Verify(h)
  BY <1>6, <1>f, <1>t, <1>p DEF Verify, Pc, Steps, Moves, Verified, Registries
<1>7. CASE GiveUp(h)
  <2>1. hnd[h].pc \in {"stop", "verify"} /\ hnd' = [hnd EXCEPT ![h].pc = "join"] /\ misses' = misses + 1
        /\ UNCHANGED <<proc, freeze, starting, active, born>>
    BY <1>7 DEF GiveUp, Refuses
  <2>2. Turns(h, "join") /\ hnd'[h].audit = hnd[h].audit
    BY <2>1, <1>t, <1>p
  <2>3. misses' \in Nat /\ born' = born
    BY <2>1, <1>f
  <2>4. CASE hnd[h].pc = "stop"
    BY <2>1, <2>2, <2>3, <2>4 DEF Steps, Moves, Refused, Registries
  <2>5. CASE hnd[h].pc = "verify"
    BY <2>1, <2>2, <2>3, <2>5 DEF Steps, Moves, Refused, Registries
  <2> QED
    BY <2>1, <2>4, <2>5
<1>8. CASE KillOwned(h)
  BY <1>8, <1>f DEF KillOwned, Pc, Steps, Moves, OwnKilled, Registries
<1>9. CASE Join(h)
  <2>1. hnd[h].pc = "join" /\ ~(Owned(h) /\ Live(hnd[h].pid)) /\ Collected(h) /\ UNCHANGED <<starting, active, born, misses>>
    BY <1>9 DEF Join, Pc
  <2>2. CASE ~hnd[h].audit /\ hnd' = [hnd EXCEPT ![h].pc = "unproven"]
    BY <2>1, <2>2, <1>f, <1>t, <1>p DEF Steps, Moves, Joined, Registries
  <2>3. CASE hnd[h].audit /\ hnd[h].id /\ hnd' = [hnd EXCEPT ![h].pc = "drain"]
    BY <2>1, <2>3, <1>f, <1>t, <1>p DEF Steps, Moves, Joined, Registries
  <2>4. CASE hnd[h].audit /\ ~hnd[h].id /\ hnd' = [hnd EXCEPT ![h].pc = "audit"]
    BY <2>1, <2>4, <1>f, <1>t, <1>p DEF Steps, Moves, Joined, Registries
  <2> QED
    BY <1>9, <2>2, <2>3, <2>4 DEF Join
<1>10. CASE Drain(h)
  <2>1. hnd[h].pc = "drain" /\ UNCHANGED <<proc, freeze, born, misses>>
    BY <1>10 DEF Drain, Pc
  <2>2. CASE hnd[h].audit /\ hnd' = [hnd EXCEPT ![h].pc = "audit"] /\ UNCHANGED <<starting, active>>
    BY <2>1, <2>2, <1>f, <1>t, <1>p DEF Steps, Moves, Drained, Registries
  <2>3. CASE ~hnd[h].audit /\ Group(hnd[h].pid) = {} /\ Release(h)
    BY <2>1, <2>3, <1>f, ReleaseCloses DEF Steps, DrainCloses
  <2> QED
    BY <1>10, <2>2, <2>3 DEF Drain
<1>11. CASE Audit(h)
  <2>1. hnd[h].pc = "read" /\ look[h].todo = {} /\ UNCHANGED <<freeze, born, misses>>
    BY <1>11 DEF Audit, Pc
  <2>2. CASE /\ \A p \in Pids : Seen(h, p) => p \in Known(h)
             /\ Release(h)
             /\ proc' = [p \in Pids |-> IF proc[p].of = h THEN [proc[p] EXCEPT !.cut = p \in Missed(h)] ELSE proc[p]]
    <3>1. Closes(h)
      BY <2>2, ReleaseCloses
    <3>2. AuditCloses(h)
      BY <2>1, <2>2, <3>1 DEF AuditCloses
    <3> QED
      BY <2>1, <3>2, <1>f DEF Steps
  <2>3. CASE hnd' = [hnd EXCEPT ![h].pc = "audit"] /\ UNCHANGED <<proc, starting, active>>
    BY <2>1, <2>3, <1>f, <1>t, <1>p DEF Steps, Moves, StartsOver, Registries
  <2> QED
    BY <1>11, <2>2, <2>3 DEF Audit
<1>13. CASE List(h)
  BY <1>13, <1>f, <1>t, <1>p DEF List, Pc, Steps, Moves, Lists, Registries
<1>14. CASE Read(h)
  BY <1>14, <1>f DEF Read, Pc, Steps, Moves, Reads, Registries
<1>12. CASE NotProven(h)
  <2>1. Turns(h, "unproven")
    BY <1>12, <1>f DEF NotProven, Turns, HandleType, HandlePcs
  <2>2. Finds(h, NoFreeze)
    BY <1>12 DEF NotProven, Finds, NoFreeze, FreezeType
  <2>3. hnd[h].pc \in {"join", "drain", "audit"} /\ UNCHANGED <<proc, starting, active, born>> /\ misses' = misses + 1
    BY <1>12 DEF NotProven
  <2>4. misses' \in Nat
    BY <2>3, <1>f
  <2> QED
    BY <2>1, <2>2, <2>3, <2>4 DEF Steps, Moves, Undecided, Registries
<1> QED
  BY <1>1, <1>2, <1>3, <1>4, <1>5, <1>6, <1>7, <1>8, <1>9, <1>10, <1>11, <1>12, <1>13, <1>14 DEF ShutdownStep

\* A step of a shutdown reads for its own audit only.
LEMMA StepLooks ==
  ASSUME TypeOK, NEW h \in Handles, ShutdownStep(h)
  PROVE  look' \in [Handles -> LookType] /\ \A g \in Handles \ {h} : look'[g] = look[g]
<1>1. CASE UNCHANGED look
  BY <1>1 DEF TypeOK
<1>2. CASE \E r \in LookType : look' = [look EXCEPT ![h] = r]
  BY <1>2 DEF TypeOK
<1>f. Free \in ProcType /\ NoLook \in LookType /\ look \in [Handles -> LookType] /\ born \in Nat
  <2>1. Free \in ProcType
    BY FreeType
  <2> QED
    BY <2>1 DEF NoLook, LookType, TypeOK
<1>3. CASE List(h)
  <2> DEFINE r == [NoLook EXCEPT !.todo = {p \in Pids : Present(p)}, !.since = born]
  <2>1. r \in LookType
    BY <1>f DEF LookType
  <2>2. look' = [look EXCEPT ![h] = r]
    BY <1>3 DEF List
  <2> HIDE DEF r
  <2> QED
    BY <1>2, <2>1, <2>2
<1>4. CASE Read(h)
  <2>1. PICK p \in look[h].todo : look' = [look EXCEPT ![h].todo = @ \ {p}, ![h].snap[p] = Entry(p)]
    BY <1>4 DEF Read
  <2>2. look[h] \in LookType /\ p \in Pids
    BY <1>f DEF LookType
  <2>3. Entry(p) \in ProcType
    BY <1>f, <2>2 DEF Entry, TypeOK, ProcType
  <2> DEFINE r == [look[h] EXCEPT !.todo = @ \ {p}, !.snap = [look[h].snap EXCEPT ![p] = Entry(p)]]
  <2>4. r \in LookType
    BY <2>2, <2>3 DEF LookType
  <2>5. look' = [look EXCEPT ![h] = r]
    BY <1>f, <2>1, <2>2
  <2> HIDE DEF r
  <2> QED
    BY <1>2, <2>4, <2>5
<1>5. CASE Audit(h)
  BY <1>2, <1>5, <1>f DEF Audit
<1> QED
  BY <1>1, <1>3, <1>4, <1>5
     DEF ShutdownStep, StopGroup, Snapshot, Mark, Settle, Kill, Verify, GiveUp, KillOwned, Join, Drain, NotProven

-----------------------------------------------------------------------------
(* What a step does to the process table.                                  *)

Goes(p) == proc'[p].st = "free" /\ proc'[p].gen \in {0, proc[p].gen}

\* It is the same process afterwards; no signal is taken back, and only the verdict of an
\* audit on its family may find that it was in sight after all.
Stays(p) ==
    /\ Present(p) /\ proc'[p].st # "free"
    /\ proc'[p].gen = proc[p].gen /\ proc'[p].of = proc[p].of
    /\ proc'[p].up \in {proc[p].up, None}
    /\ proc'[p].grp = proc[p].grp \/ (proc'[p].grp = p /\ ~Halted(p))
    /\ proc[p].cut /\ hnd[proc[p].of].pc # "read" => proc'[p].cut
    /\ Frozen(p) => proc'[p].st \in {"stop", "zombie"}
    /\ Halted(p) => ~(proc'[p].st = "run" /\ proc'[p].sig = "none")
    /\ proc'[p].st \in {"run", "stop"} => Live(p)

\* A new process, founder of a family or forked by one that acts.
Comes(p) ==
    /\ ~Present(p) /\ proc'[p].st # "free"
    /\ born' = born + 1 /\ proc'[p].gen = born + 1
    /\ proc'[p].of \in Handles
    /\ Freezing(proc'[p].of) /\ hnd[proc'[p].of].pid = p => proc'[p].cut
    /\ \A g \in Handles : hnd[g].pc = "spawned" => hnd[g].pid # p
    /\ \/ proc'[p].up = Outer /\ proc'[p].grp = Outer /\ hnd[proc'[p].of].pc = "new"
       \/ \E e \in Pids :
            /\ Acts(e) /\ Live(e)'
            /\ proc'[p].up = e /\ proc'[p].of = proc[e].of /\ proc'[e].of = proc[e].of /\ proc'[p].grp = proc[e].grp
            /\ proc[e].cut => proc'[p].cut

Evolves ==
    /\ born' \in {born, born + 1}
    /\ \A p \in Pids : Goes(p) \/ Stays(p) \/ Comes(p)
    /\ \A p, u \in Pids : Stays(p) /\ proc'[p].up = u /\ Live(u) => Live(u)'

LEMMA IdleEvolves ==
  ASSUME TypeOK, Families, UNCHANGED <<proc, born>>
  PROVE  Evolves
BY DEF TypeOK, Families, Evolves, Goes, Stays, Present, Frozen, Halted, Live, ProcType

LEMMA SignalledEvolves ==
  ASSUME TypeOK, Families, NEW S, NEW sig \in {"stop", "kill"}, proc' = Signalled(S, sig), born' = born
  PROVE  Evolves
<1>1. \A p \in Pids :
         /\ proc'[p].st = proc[p].st /\ proc'[p].up = proc[p].up /\ proc'[p].grp = proc[p].grp
         /\ proc'[p].gen = proc[p].gen /\ proc'[p].of = proc[p].of /\ proc'[p].cut = proc[p].cut
         /\ proc'[p].sig # proc[p].sig => proc'[p].sig # "none"
  BY DEF TypeOK, Signalled, ProcType
<1> QED
  BY <1>1 DEF Families, Evolves, Goes, Stays, Present, Frozen, Halted, Live

LEMMA CutEvolves ==
  ASSUME TypeOK, Families, NEW S, born' = born,
         proc' = [p \in Pids |-> IF p \in S THEN [proc[p] EXCEPT !.cut = TRUE] ELSE proc[p]]
  PROVE  Evolves
<1>1. \A p \in Pids :
         /\ proc'[p].st = proc[p].st /\ proc'[p].up = proc[p].up /\ proc'[p].grp = proc[p].grp
         /\ proc'[p].gen = proc[p].gen /\ proc'[p].of = proc[p].of /\ proc'[p].sig = proc[p].sig
         /\ proc[p].cut => proc'[p].cut
  BY DEF TypeOK, ProcType
<1> QED
  BY <1>1 DEF Families, Evolves, Goes, Stays, Present, Frozen, Halted, Live

\* The verdict of an audit.
LEMMA JudgedEvolves ==
  ASSUME TypeOK, Families, NEW h \in Handles, hnd[h].pc = "read", NEW S, born' = born,
         proc' = [p \in Pids |-> IF proc[p].of = h THEN [proc[p] EXCEPT !.cut = p \in S] ELSE proc[p]]
  PROVE  /\ Evolves /\ proc' \in [Pids -> ProcType]
         /\ \A p \in Pids : /\ proc'[p].st = proc[p].st /\ proc'[p].gen = proc[p].gen /\ proc'[p].of = proc[p].of
                            /\ proc[p].of = h => (proc'[p].cut <=> p \in S)
<1>1. ASSUME NEW p \in Pids
      PROVE  /\ proc'[p].st = proc[p].st /\ proc'[p].up = proc[p].up /\ proc'[p].grp = proc[p].grp
             /\ proc'[p].gen = proc[p].gen /\ proc'[p].of = proc[p].of /\ proc'[p].sig = proc[p].sig
             /\ proc[p].of # h => proc'[p].cut = proc[p].cut
             /\ proc[p].of = h => (proc'[p].cut <=> p \in S)
             /\ proc'[p] \in ProcType
  <2>1. proc[p] \in ProcType /\ proc'[p] = IF proc[p].of = h THEN [proc[p] EXCEPT !.cut = p \in S] ELSE proc[p]
    BY DEF TypeOK
  <2>2. CASE p \in S
    <3>1. proc'[p] = IF proc[p].of = h THEN [proc[p] EXCEPT !.cut = TRUE] ELSE proc[p]
      <4>1. (p \in S) = TRUE
        BY <2>2
      <4> QED
        BY <2>1, <4>1, Zenon
    <3> QED
      BY <2>1, <2>2, <3>1 DEF ProcType
  <2>3. CASE p \notin S
    <3>1. proc'[p] = IF proc[p].of = h THEN [proc[p] EXCEPT !.cut = FALSE] ELSE proc[p]
      <4>1. (p \in S) = FALSE
        BY <2>3
      <4> QED
        BY <2>1, <4>1, Zenon
    <3> QED
      BY <2>1, <2>3, <3>1 DEF ProcType
  <2> QED
    BY <2>2, <2>3
<1>2. Evolves
  BY <1>1 DEF Families, Evolves, Goes, Stays, Present, Frozen, Halted, Live
<1>3. proc' \in [Pids -> ProcType]
  BY <1>1
<1> QED
  BY <1>1, <1>2, <1>3

LEMMA FreedEvolves ==
  ASSUME TypeOK, Families, NEW p \in Pids, ~Live(p), proc' = [proc EXCEPT ![p] = Free], born' = born
  PROVE  Evolves
<1>1. proc'[p].st = "free" /\ proc'[p].gen = 0 /\ \A q \in Pids \ {p} : proc'[q] = proc[q]
  BY DEF TypeOK, Free
<1>2. \A q \in Pids : q # p /\ Present(q) => Stays(q)
  BY <1>1 DEF Stays, Present, Frozen, Halted, Live
<1>3. \A q \in Pids : q = p \/ ~Present(q) => Goes(q)
  BY <1>1 DEF TypeOK, Families, Goes, Present
<1>4. \A q \in Pids : q # p => Live(q)' = Live(q)
  BY <1>1 DEF Live
<1>5. \A q \in Pids : Stays(q) => proc'[q].up = proc[q].up
  BY <1>1 DEF Stays, Present
<1> QED
  BY <1>1, <1>2, <1>3, <1>4, <1>5 DEF Evolves

LEMMA EndedEvolves ==
  ASSUME TypeOK, Families, NEW p \in Pids, Live(p), Ended(p), born' = born
  PROVE  Evolves
<1>1. \A q \in Pids : proc'[q] = Free \/ (/\ proc'[q].gen = proc[q].gen /\ proc'[q].of = proc[q].of
                                          /\ proc'[q].grp = proc[q].grp /\ proc'[q].cut = proc[q].cut)
  BY DEF TypeOK, Ended, ProcType
<1>2. \A q \in Pids : proc'[q] # Free =>
        \/ q # p /\ proc'[q].st = proc[q].st /\ proc'[q].sig = proc[q].sig /\ proc'[q].up \in {proc[q].up, None}
        \/ q = p /\ proc'[q].st = "zombie" /\ proc'[q].up = proc[q].up
  BY DEF TypeOK, Ended, ProcType
<1>3. \A q \in Pids : proc'[q] # Free /\ q # p /\ proc[q].st # "free" => proc'[q].up # p
  BY ReapAssumption DEF TypeOK, Ended, ProcType, Present
<1>5. \A q \in Pids : proc'[q] = Free => Goes(q)
  BY DEF Free, Goes, Present, TypeOK
<1>6. \A q \in Pids : proc'[q] # Free /\ Present(q) => Stays(q)
  BY <1>1, <1>2 DEF Stays, Present, Frozen, Halted, Live
<1>7. \A q \in Pids : proc'[q] # Free /\ ~Present(q) => Goes(q)
  BY <1>1, <1>2 DEF Goes, Present, Families, Live
<1>8. \A q \in Pids : Stays(q) => proc'[q] # Free
  BY DEF Stays, Present, Free
<1>9. \A q \in Pids : Stays(q) => proc'[q].up # p
  BY <1>2, <1>3, <1>8 DEF Stays, Present, Families
<1>10. ASSUME NEW q \in Pids, q # p, Live(q)
       PROVE  proc'[q].st = proc[q].st
  <2>1. proc[q] \in ProcType
    BY DEF TypeOK
  <2>2. CASE Present(q) /\ proc[q].up = p
    BY <1>10, <2>1, <2>2 DEF Ended, ProcType
  <2>3. CASE ~(Present(q) /\ proc[q].up = p)
    BY <1>10, <2>3 DEF Ended
  <2> QED
    BY <2>2, <2>3
<1>11. \A q \in Pids : q # p /\ Live(q) => Live(q)'
  BY <1>10 DEF Live
<1> QED
  BY <1>5, <1>6, <1>7, <1>9, <1>11, ReapAssumption DEF Evolves, Stays

LEMMA GroupedEvolves ==
  ASSUME TypeOK, Families, NEW p \in Pids, Present(p), ~Halted(p), proc' = [proc EXCEPT ![p].grp = p], born' = born
  PROVE  Evolves
<1>1. \A q \in Pids :
         /\ proc'[q].st = proc[q].st /\ proc'[q].up = proc[q].up /\ proc'[q].sig = proc[q].sig
         /\ proc'[q].gen = proc[q].gen /\ proc'[q].of = proc[q].of /\ proc'[q].cut = proc[q].cut
         /\ proc'[q].grp = proc[q].grp \/ (q = p /\ proc'[q].grp = p)
  BY DEF TypeOK, ProcType
<1> QED
  BY <1>1 DEF Families, Evolves, Goes, Stays, Present, Frozen, Halted, Live

\* What a birth makes of the table.
LEMMA BornChanges ==
  ASSUME TypeOK, NEW h \in Handles, NEW p \in Pids, NEW up \in Pids \cup {Outer, None}, NEW grp \in Pids \cup {Outer},
         NEW cut \in BOOLEAN, Born(h, p, up, grp, cut)
  PROVE  /\ ~Present(p) /\ born' = born + 1 /\ \A g \in Handles : hnd[g].pc = "spawned" => hnd[g].pid # p
         /\ \A q \in Pids \ {p} : proc'[q] = proc[q]
         /\ proc'[p].st = "run" /\ proc'[p].up = up /\ proc'[p].grp = grp /\ proc'[p].gen = born + 1
         /\ proc'[p].of = h /\ proc'[p].cut = (cut \/ (Freezing(h) /\ hnd[h].pid = p))
BY DEF TypeOK, Born, Free, Present

LEMMA BornEvolves ==
  ASSUME TypeOK, Families, NEW p \in Pids, Comes(p), \A q \in Pids \ {p} : proc'[q] = proc[q]
  PROVE  Evolves
<1>1. \A q \in Pids \ {p} : Present(q) => Stays(q)
  BY DEF Stays, Present, Frozen, Halted, Live
<1>2. \A q \in Pids \ {p} : ~Present(q) => Goes(q)
  BY DEF Goes, Present, Families
<1>3. \A q \in Pids : Stays(q) => q # p /\ proc'[q].up = proc[q].up
  BY DEF Comes, Stays
<1>4. \A q \in Pids \ {p} : Live(q) => Live(q)'
  BY DEF Live
<1>5. ~Live(p)
  BY DEF Comes, Live, Present
<1> QED
  BY <1>1, <1>2, <1>3, <1>4, <1>5 DEF Evolves, Comes

LEMMA ProcessEvolves ==
  ASSUME TypeOK, Families, NEW p \in Pids, Process(p)
  PROVE  Evolves /\ UNCHANGED <<hnd, freeze, look, starting, active>>
<1>f. proc \in [Pids -> ProcType] /\ proc[p] \in ProcType
  BY DEF TypeOK
<1>1. CASE Fork(p)
  <2>1. PICK q \in Pids : Born(proc[p].of, q, p, proc[p].grp, proc[p].cut)
    BY <1>1 DEF Fork
  <2>2. Acts(p) /\ Present(p) /\ UNCHANGED <<hnd, freeze, look, starting, active>>
    BY <1>1 DEF Fork, Acts, Present
  <2>3. proc[p].of \in Handles /\ proc[p].grp \in Pids \cup {Outer} /\ proc[p].cut \in BOOLEAN
    BY <2>2, <1>f DEF Families, ProcType
  <2>4. /\ ~Present(q) /\ born' = born + 1 /\ \A g \in Handles : hnd[g].pc = "spawned" => hnd[g].pid # q
        /\ \A r \in Pids \ {q} : proc'[r] = proc[r]
        /\ proc'[q].st = "run" /\ proc'[q].up = p /\ proc'[q].grp = proc[p].grp /\ proc'[q].gen = born + 1
        /\ proc'[q].of = proc[p].of
        /\ proc'[q].cut = (proc[p].cut \/ (Freezing(proc[p].of) /\ hnd[proc[p].of].pid = q))
    BY <2>1, <2>3, BornChanges
  <2>5. p # q
    BY <2>2, <2>4
  <2>6. Live(p)' /\ proc'[p].of = proc[p].of
    BY <2>2, <2>4, <2>5 DEF Live, Acts
  <2>7. Comes(q)
    BY <2>2, <2>3, <2>4, <2>6 DEF Comes, Present
  <2> QED
    BY <2>2, <2>4, <2>7, BornEvolves
<1>2. CASE Regroup(p)
  <2>1. Present(p) /\ ~Halted(p) /\ proc' = [proc EXCEPT ![p].grp = p] /\ born' = born
    BY <1>2 DEF Regroup, Acts, Present, Halted
  <2> QED
    BY <1>2, <2>1, GroupedEvolves DEF Regroup
<1>3. CASE Exit(p)
  BY <1>3, EndedEvolves DEF Exit
<1>4. CASE TakeSignal(p)
  <2>1. CASE Ended(p)
    BY <1>4, <2>1, EndedEvolves DEF TakeSignal
  <2>2. CASE proc[p].sig = "stop" /\ proc' = [proc EXCEPT ![p].st = "stop", ![p].sig = "none"]
    <3>1. \A q \in Pids :
         /\ proc'[q].up = proc[q].up /\ proc'[q].grp = proc[q].grp
         /\ proc'[q].gen = proc[q].gen /\ proc'[q].of = proc[q].of /\ proc'[q].cut = proc[q].cut
         /\ (q = p /\ proc'[q].st = "stop") \/ (proc'[q].st = proc[q].st /\ proc'[q].sig = proc[q].sig)
      BY <2>2, <1>f DEF ProcType
    <3>2. Live(p) /\ born' = born /\ UNCHANGED <<hnd, freeze, look, starting, active>>
      BY <1>4 DEF TakeSignal
    <3> QED
      BY <3>1, <3>2 DEF Families, Evolves, Goes, Stays, Present, Frozen, Halted, Live
  <2> QED
    BY <1>4, <2>1, <2>2 DEF TakeSignal
<1>5. CASE Collect(p)
  <2>1. ~Live(p) /\ proc' = [proc EXCEPT ![p] = Free] /\ born' = born
    BY <1>5 DEF Collect, Live
  <2> QED
    BY <1>5, <2>1, FreedEvolves DEF Collect
<1> QED
  BY <1>1, <1>2, <1>3, <1>4, <1>5 DEF Process

LEMMA StartEvolves ==
  ASSUME TypeOK, Families, NEW h \in Handles, Start(h)
  PROVE  /\ Evolves /\ UNCHANGED <<freeze, look, starting, active>> /\ hnd[h].pc = "new"
         /\ \A g \in Handles \ {h} : hnd'[g] = hnd[g]
         /\ hnd'[h].pc = "spawned" /\ hnd'[h].pid \in Pids /\ hnd'[h].own = born + 1 /\ born' = born + 1
         /\ hnd'[h].gen = hnd[h].gen /\ hnd'[h].id = hnd[h].id /\ hnd'[h].start = hnd[h].start
         /\ proc'[hnd'[h].pid].gen = born + 1 /\ proc'[hnd'[h].pid].of = h
<1>f. hnd \in [Handles -> HandleType] /\ hnd[h] \in HandleType
  BY DEF TypeOK
<1>1. PICK p \in Pids : Born(h, p, Outer, Outer, FALSE)
                        /\ hnd' = [hnd EXCEPT ![h].pc = "spawned", ![h].pid = p, ![h].own = born + 1]
  BY DEF Start
<1>2. hnd[h].pc = "new" /\ UNCHANGED <<freeze, look, starting, active>>
  BY DEF Start, Pc
<1>3. /\ \A g \in Handles \ {h} : hnd'[g] = hnd[g]
      /\ hnd'[h].pc = "spawned" /\ hnd'[h].pid = p /\ hnd'[h].own = born + 1
      /\ hnd'[h].gen = hnd[h].gen /\ hnd'[h].id = hnd[h].id /\ hnd'[h].start = hnd[h].start
  BY <1>1, <1>f DEF HandleType
<1>4. /\ ~Present(p) /\ born' = born + 1 /\ \A g \in Handles : hnd[g].pc = "spawned" => hnd[g].pid # p
      /\ \A q \in Pids \ {p} : proc'[q] = proc[q]
      /\ proc'[p].st = "run" /\ proc'[p].up = Outer /\ proc'[p].grp = Outer /\ proc'[p].gen = born + 1
      /\ proc'[p].of = h
  BY <1>1 DEF TypeOK, Born, Free, Present
<1>5. Comes(p)
  BY <1>2, <1>4 DEF Comes, Present, Freezing
<1> QED
  BY <1>2, <1>3, <1>4, <1>5, BornEvolves

LEMMA EnterGroupEvolves ==
  ASSUME TypeOK, Families, NEW h \in Handles, EnterGroup(h)
  PROVE  Evolves /\ UNCHANGED <<hnd, freeze, look, starting, active>>
<1> DEFINE p == hnd[h].pid
<1>1. /\ p # None /\ proc[p].st = "run" /\ proc[p].sig = "none" /\ proc' = [proc EXCEPT ![p].grp = p] /\ born' = born
      /\ UNCHANGED <<hnd, freeze, look, starting, active>>
  BY DEF EnterGroup
<1>2. p \in Pids
  BY <1>1, HandleFields
<1> QED
  BY <1>1, <1>2, GroupedEvolves DEF Present, Halted

LEMMA CollectedEvolves ==
  ASSUME TypeOK, Families, NEW h \in Handles, hnd[h].pid \in Pids, Collected(h), ~(Owned(h) /\ Live(hnd[h].pid)),
         born' = born
  PROVE  Evolves /\ (Owned(h) => proc'[hnd[h].pid].st = "free")
<1>1. CASE Owned(h)
  <2>1. proc' = [proc EXCEPT ![hnd[h].pid] = Free] /\ ~Live(hnd[h].pid)
    BY <1>1 DEF Collected
  <2>2. Evolves
    BY <2>1, FreedEvolves
  <2>3. proc'[hnd[h].pid].st = "free"
    BY <2>1 DEF TypeOK, Free
  <2> QED
    BY <2>2, <2>3
<1>2. CASE ~Owned(h)
  BY <1>2, IdleEvolves DEF Collected
<1> QED
  BY <1>1, <1>2

\* A leader that the freeze knows has ended when everybody it knows has.
LEMMA LeaderEnded ==
  ASSUME NEW h \in Handles, HandleOK(h), hnd[h].pc = "verify", \A id \in Survivors(h) : ~Live(id.pid)
  PROVE  ~(Owned(h) /\ Live(hnd[h].pid))
<1>1. KnowsLeader(h) /\ Used(h)
  BY DEF HandleOK, ReapOK, Freezing, Used
<1>2. SUFFICES ASSUME Owned(h)
               PROVE  ~Live(hnd[h].pid)
  OBVIOUS
<1>3. Same(Captured(h))
  BY <1>1, <1>2 DEF HandleOK, OwnIdentity, KnowsLeader, Same, Captured, Owned
<1>4. Captured(h) \in Survivors(h) /\ Captured(h).pid = hnd[h].pid
  BY <1>1, <1>3 DEF KnowsLeader, Survivors, Captured
<1> QED
  BY <1>4

LEMMA StepsEvolve ==
  ASSUME TypeOK, Families, NEW h \in Handles, HandleOK(h), Steps(h), born' = born
  PROVE  Evolves
<1>1. CASE UNCHANGED proc
  BY <1>1, IdleEvolves
<1>2. CASE \E S : proc' = Signalled(S, "stop") \/ proc' = Signalled(S, "kill")
  BY <1>2, SignalledEvolves
<1>3. CASE \E S : proc' = [p \in Pids |-> IF p \in S THEN [proc[p] EXCEPT !.cut = TRUE] ELSE proc[p]]
  BY <1>3, CutEvolves
<1>4. CASE hnd[h].pc \in {"verify", "join"} /\ Collected(h) /\ ~(Owned(h) /\ Live(hnd[h].pid))
  <2>1. hnd[h].pid \in Pids
    BY <1>4 DEF HandleOK, Holds, Used
  <2> QED
    BY <1>4, <2>1, CollectedEvolves
<1>5. CASE hnd[h].pc = "verify" /\ Collected(h) /\ \A id \in Survivors(h) : ~Live(id.pid)
  BY <1>4, <1>5, LeaderEnded
<1>6. CASE \E S : proc' = Signalled(S, "stop")
  BY <1>2, <1>6
<1>7. CASE \E S : proc' = Signalled(S, "kill")
  BY <1>2, <1>7
<1>8. CASE AuditCloses(h)
  BY <1>8, JudgedEvolves DEF AuditCloses
<1> QED
  BY <1>1, <1>3, <1>4, <1>5, <1>6, <1>7, <1>8 DEF Steps, Moves, Refused, Stopped, Looked, Marked, Settled, GoesRound, Killed, Verified, OwnKilled,
    Joined, Drained, Lists, Reads, StartsOver, Undecided, DrainCloses, AuditCloses

LEMMA StepTypes ==
  ASSUME TypeOK, Families, NEW h \in Handles, Steps(h), born' = born, misses' \in Nat, look' \in [Handles -> LookType]
  PROVE  TypeOK'
<1>1. proc' \in [Pids -> ProcType]
  <2>1. CASE UNCHANGED proc
    BY <2>1 DEF TypeOK
  <2>2. CASE \E S : proc' = Signalled(S, "stop")
    BY <2>2, SignalledTypes
  <2>3. CASE \E S : proc' = Signalled(S, "kill")
    BY <2>3, SignalledTypes
  <2>4. CASE \E S : proc' = [p \in Pids |-> IF p \in S THEN [proc[p] EXCEPT !.cut = TRUE] ELSE proc[p]]
    <3>1. PICK S : proc' = [p \in Pids |-> IF p \in S THEN [proc[p] EXCEPT !.cut = TRUE] ELSE proc[p]]
      BY <2>4
    <3>2. \A p \in Pids : proc[p] \in ProcType /\ [proc[p] EXCEPT !.cut = TRUE] \in ProcType
      BY DEF TypeOK, ProcType
    <3> QED
      BY <3>1, <3>2
  <2>5. CASE Collected(h)
    BY <2>5, CollectedTypes
  <2>6. CASE AuditCloses(h)
    BY <2>6, JudgedEvolves DEF AuditCloses
  <2> QED
    BY <2>1, <2>2, <2>3, <2>4, <2>5, <2>6 DEF Steps, Moves, Refused, Stopped, Looked, Marked, Settled, GoesRound, Killed, Verified, OwnKilled,
    Joined, Drained, Lists, Reads, StartsOver, Undecided, DrainCloses, AuditCloses
<1>2. hnd' \in [Handles -> HandleType]
  BY DEF Steps, Moves, Refused, Stopped, Looked, Marked, Settled, GoesRound, Killed, Verified, OwnKilled,
    Joined, Drained, Lists, Reads, StartsOver, Undecided, DrainCloses, AuditCloses, TypeOK, Turns, Closes
<1>3. freeze' \in [Handles -> FreezeType]
  <2>1. CASE UNCHANGED freeze
    BY <2>1 DEF TypeOK
  <2>2. CASE \E f : Finds(h, f)
    BY <2>2 DEF TypeOK, Finds
  <2>3. CASE Collected(h)
    BY <2>3, CollectedTypes
  <2> QED
    BY <2>1, <2>2, <2>3 DEF Steps, Moves, Refused, Stopped, Looked, Marked, Settled, GoesRound, Killed, Verified, OwnKilled,
    Joined, Drained, Lists, Reads, StartsOver, Undecided, DrainCloses, AuditCloses
<1>4. starting' \subseteq Ids /\ active' \subseteq Ids
  <2>1. CASE UNCHANGED Registries
    BY <2>1 DEF TypeOK, Registries
  <2>2. CASE Closes(h)
    BY <2>2 DEF TypeOK, Closes
  <2> QED
    BY <2>1, <2>2 DEF Steps, Moves, Refused, Stopped, Looked, Marked, Settled, GoesRound, Killed, Verified, OwnKilled,
    Joined, Drained, Lists, Reads, StartsOver, Undecided, DrainCloses, AuditCloses
<1> QED
  BY <1>1, <1>2, <1>3, <1>4 DEF TypeOK

-----------------------------------------------------------------------------
(* What lasts while a handle keeps its child.                              *)

Keeps(h) ==
    /\ hnd'[h].pid = hnd[h].pid /\ hnd'[h].own = hnd[h].own /\ hnd'[h].gen = hnd[h].gen
    /\ hnd'[h].start = hnd[h].start /\ hnd'[h].id = hnd[h].id

\* A generation that is there was there.
LEMMA SameBack ==
  ASSUME TypeOK, Evolves, NEW id \in Ids, id.gen <= born, Same(id)'
  PROVE  Same(id) /\ Stays(id.pid)
<1>1. id.pid \in Pids /\ id.gen \in Nat
  BY DEF Ids
<1>2. Present(id.pid)' /\ proc'[id.pid].gen = id.gen
  BY DEF Same
<1>3. ~Comes(id.pid)
  BY <1>1, <1>2 DEF Comes, TypeOK
<1> QED
  BY <1>1, <1>2, <1>3 DEF Evolves, Goes, Stays, Same, Present

LEMMA LeaderBack ==
  ASSUME TypeOK, Evolves, NEW h \in Handles, Holds(h), Used(h), Keeps(h)
  PROVE  /\ hnd[h].pid \in Pids /\ Captured(h) \in Ids /\ Captured(h)' = Captured(h)
         /\ Captured(h).pid = hnd[h].pid /\ Captured(h).gen = hnd[h].gen
         /\ Same(Captured(h))' => Same(Captured(h)) /\ Stays(hnd[h].pid)
         /\ Owned(h)' => Owned(h) /\ Stays(hnd[h].pid)
<1>1. hnd[h].pid \in Pids /\ hnd[h].gen \in Nat /\ hnd[h].own \in Nat
  BY HandleFields DEF Holds
<1>2. Captured(h) \in Ids /\ Captured(h)' = Captured(h) /\ Captured(h).pid = hnd[h].pid /\ Captured(h).gen = hnd[h].gen
  BY <1>1 DEF Captured, Keeps, Ids
<1>3. ASSUME Same(Captured(h))'
      PROVE  Same(Captured(h)) /\ Stays(hnd[h].pid)
  <2>1. proc'[hnd[h].pid].st # "free" /\ proc'[hnd[h].pid].gen = hnd[h].gen
    BY <1>2, <1>3 DEF Same, Present, Captured, Keeps
  <2>2. hnd[h].gen <= born
    BY DEF Holds
  <2>3. ~Comes(hnd[h].pid)
    BY <1>1, <2>1, <2>2 DEF Comes, TypeOK
  <2>4. Stays(hnd[h].pid)
    BY <1>1, <2>1, <2>3 DEF Evolves, Goes
  <2> QED
    BY <1>2, <2>1, <2>4 DEF Stays, Same, Captured
<1>4. ASSUME Owned(h)'
      PROVE  Owned(h) /\ Stays(hnd[h].pid)
  <2>1. proc'[hnd[h].pid].st # "free" /\ proc'[hnd[h].pid].gen = hnd[h].own
    BY <1>4 DEF Owned, Present, Keeps
  <2>2. hnd[h].own <= born
    BY DEF Holds
  <2>3. ~Comes(hnd[h].pid)
    BY <1>1, <2>1, <2>2 DEF Comes, TypeOK
  <2>4. Stays(hnd[h].pid)
    BY <1>1, <2>1, <2>3 DEF Evolves, Goes
  <2> QED
    BY <2>1, <2>4 DEF Stays, Owned
<1> QED
  BY <1>1, <1>2, <1>3, <1>4

LEMMA HoldsLasts ==
  ASSUME TypeOK, Evolves, NEW h \in Handles, Holds(h), Keeps(h), Used(h)' => Used(h),
         \A id \in freeze'[h].known \cup freeze'[h].marker : id.gen \in Nat /\ id.gen <= born
  PROVE  Holds(h)'
<1>1. born <= born' /\ born \in Nat /\ born' \in Nat
  BY DEF TypeOK, Evolves
<1>2. hnd[h].gen \in Nat /\ hnd[h].own \in Nat
  BY HandleFields
<1>3. hnd'[h].gen <= born' /\ hnd'[h].own <= born'
  BY <1>1, <1>2 DEF Holds, Keeps
<1>4. \A id \in freeze'[h].known \cup freeze'[h].marker : id.gen <= born'
  BY <1>1
<1>5. Used(h)' => hnd'[h].pid \in Pids
  BY DEF Holds, Keeps
<1>6. Used(h)' /\ Owned(h)' => proc'[hnd'[h].pid].of = h
  BY LeaderBack DEF Holds, Keeps, Stays
<1> QED
  BY <1>3, <1>4, <1>5, <1>6 DEF Holds

LEMMA LeaderOrCutLasts ==
  ASSUME TypeOK, Evolves, NEW h \in Handles, Holds(h), Keeps(h), Freezing(h), LeaderOrCut(h)
  PROVE  LeaderOrCut(h)'
<1>1. hnd[h].pid \in Pids
  BY DEF Holds, Used, Freezing
<1>2. PICK p \in Pids : p = hnd[h].pid
  BY <1>1
<1>3. hnd'[h].pid = p /\ hnd'[h].gen = hnd[h].gen
  BY <1>2 DEF Keeps
<1>4. SUFFICES ASSUME proc'[p].st # "free", proc'[p].of = h
               PROVE  proc'[p].gen = hnd[h].gen \/ proc'[p].cut
  BY <1>3 DEF LeaderOrCut, Present, Same, Captured
<1>5. CASE Stays(p)
  BY <1>2, <1>4, <1>5 DEF LeaderOrCut, Same, Captured, Stays, Freezing
<1>6. CASE Comes(p)
  BY <1>2, <1>4, <1>6 DEF Comes
<1> QED
  BY <1>4, <1>5, <1>6 DEF Evolves, Goes

LEMMA GroupHaltedLasts ==
  ASSUME TypeOK, Evolves, NEW h \in Handles, Holds(h), Keeps(h), Freezing(h), GroupHalted(h), LeaderOrCut(h)'
  PROVE  GroupHalted(h)'
<1>1. hnd[h].pid \in Pids /\ Used(h)
  BY DEF Holds, Used, Freezing
<1>2. PICK l \in Pids : l = hnd[h].pid
  BY <1>1
<1>3. hnd'[h].pid = l /\ hnd'[h].gen = hnd[h].gen
  BY <1>2 DEF Keeps
<1>4. proc'[l].st # "free" /\ proc'[l].gen = hnd[h].gen => Same(Captured(h)) /\ Stays(l)
  <2>1. proc'[l].st # "free" /\ proc'[l].gen = hnd[h].gen => Same(Captured(h))'
    BY <1>3 DEF Same, Captured, Present
  <2> QED
    BY <1>1, <1>2, <2>1, LeaderBack
<1>5. proc'[l].st # "free" /\ proc'[l].gen = hnd[h].gen => proc[l].grp = l /\ proc'[l].grp = l
  BY <1>2, <1>4 DEF GroupHalted, Stays
<1>6. ASSUME NEW p \in Pids, proc'[p].st # "free", proc'[p].grp = l, proc'[p].of = h
      PROVE  proc'[p].cut \/ ~(proc'[p].st = "run" /\ proc'[p].sig = "none")
  <2>1. CASE Stays(p) /\ proc'[p].grp = proc[p].grp
    <3>1. p \in Group(hnd[h].pid) /\ proc[p].of = h
      BY <1>2, <1>6, <2>1 DEF Group, Stays
    <3>2. proc[p].cut \/ Halted(p)
      BY <3>1 DEF GroupHalted
    <3> QED
      BY <2>1, <3>1, <3>2 DEF Stays, Freezing
  <2>2. CASE Stays(p) /\ proc'[p].grp # proc[p].grp
    <3>1. p = l /\ ~(Same(Captured(h)) /\ Stays(l))
      BY <1>2, <1>6, <2>2 DEF Stays, GroupHalted
    <3>2. Same(Captured(h))' \/ proc'[p].cut
      BY <1>3, <1>6, <3>1 DEF LeaderOrCut, Present
    <3>3. ~Same(Captured(h))'
      BY <1>3, <1>4, <3>1 DEF Same, Captured, Present
    <3> QED
      BY <3>2, <3>3
  <2>3. CASE Comes(p)
    <3>1. PICK e \in Pids : /\ Acts(e) /\ proc'[p].of = proc[e].of /\ proc'[p].grp = proc[e].grp
                            /\ proc[e].cut => proc'[p].cut
      BY <1>6, <2>3, ReapAssumption DEF Comes
    <3>2. e \in Group(hnd[h].pid) /\ proc[e].of = h /\ ~Halted(e)
      BY <1>2, <1>6, <3>1 DEF Group, Acts, Present, Halted
    <3> QED
      BY <3>1, <3>2 DEF GroupHalted
  <2> QED
    BY <1>6, <2>1, <2>2, <2>3 DEF Evolves, Goes
<1>7. Same(Captured(h))' => proc'[hnd'[h].pid].grp = hnd'[h].pid
  BY <1>3, <1>5 DEF Same, Captured, Present
<1>8. \A p \in Group(hnd[h].pid)' : proc'[p].of = h => proc'[p].cut \/ Halted(p)'
  BY <1>3, <1>6 DEF Group, Present, Halted
<1> QED
  BY <1>7, <1>8 DEF GroupHalted

LEMMA MarkedLasts ==
  ASSUME TypeOK, Evolves, NEW h \in Handles, Holds(h),
         \A id \in freeze'[h].marker : id \in freeze[h].marker \/ (id \in Ids /\ id.gen <= born /\ Frozen(id.pid)), MarkedFrozen(h)
  PROVE  MarkedFrozen(h)'
<1>1. SUFFICES ASSUME NEW id \in freeze'[h].marker, Same(id)'
               PROVE  Frozen(id.pid)'
  BY DEF MarkedFrozen
<1>2. id \in Ids /\ id.gen <= born
  BY HandleFields DEF Holds
<1>3. Same(id) /\ Stays(id.pid)
  BY <1>1, <1>2, SameBack
<1>4. Frozen(id.pid)
  BY <1>3 DEF MarkedFrozen
<1> QED
  BY <1>3, <1>4 DEF Stays, Frozen

\* What is below the leader later, and was there, was below it.
LEMMA TreeBack ==
  ASSUME TypeOK, Families, Evolves, NEW h \in Handles, Holds(h), Used(h), Keeps(h),
         NEW u \in Tree(h)', Present(u)
  PROVE  u \in Tree(h)
<1>1. hnd[h].pid \in Pids /\ Used(h)
  BY DEF Holds, Used
<1>2. PICK l \in Pids : l = hnd[h].pid
  BY <1>1
<1>3. hnd'[h].pid = l
  BY <1>2 DEF Keeps
<1>4. Same(Captured(h))' /\ u \in Descendants(hnd[h].pid)' \cup {l}
  BY <1>3 DEF Tree
<1>5. Same(Captured(h))
  BY <1>1, <1>4, LeaderBack
<1>6. SUFFICES ASSUME u # l
               PROVE  u \in Descendants(l)
  BY <1>2, <1>5 DEF Tree
<1>7. u \in Descendants(l)'
  BY <1>3, <1>4, <1>6 DEF Descendants, Below, Present
<1>8. SUFFICES ASSUME NEW S \in SUBSET Pids, \A q \in Pids : Present(q) /\ proc[q].up \in S \cup {l} => q \in S
               PROVE  u \in S
  BY <1>7 DEF Descendants, Below, Present
<1> DEFINE T == S \cup {q \in Pids : ~Present(q)}
<1>9. ASSUME NEW q \in Pids, proc'[q].st # "free", proc'[q].up \in T \cup {l}
      PROVE  q \in T
  <2>1. CASE Stays(q)
    <3>1. proc'[q].up = proc[q].up /\ Present(q)
      BY <1>9, <2>1, ReapAssumption DEF Stays
    <3>2. Present(proc[q].up)
      BY <1>9, <3>1 DEF Families, Live, Present
    <3>3. proc[q].up \in S \cup {l}
      BY <1>9, <3>1, <3>2
    <3> QED
      BY <1>8, <3>1, <3>3
  <2>2. CASE ~Present(q)
    BY <2>2
  <2> QED
    BY <1>9, <2>1, <2>2 DEF Evolves, Goes, Comes
<1>10. T \in SUBSET Pids
  OBVIOUS
<1>11. u \in T
  <2> HIDE DEF T
  <2> QED
    BY <1>7, <1>9, <1>10 DEF Descendants, Below, Present
<1> QED
  BY <1>11

LEMMA ApartLasts ==
  ASSUME TypeOK, Families, Evolves, NEW h \in Handles, Holds(h), Keeps(h), Freezing(h), UNCHANGED freeze[h],
         KnowsLeader(h), GroupHalted(h), MarkedFrozen(h), UnknownApart(h), LeaderOrCut(h)'
  PROVE  UnknownApart(h)'
<1>1. hnd[h].pid \in Pids /\ Used(h)
  BY DEF Holds, Used, Freezing
<1>2. PICK l \in Pids : l = hnd[h].pid
  BY <1>1
<1>3. hnd'[h].pid = l /\ hnd'[h].gen = hnd[h].gen
  BY <1>2 DEF Keeps
<1>4. SUFFICES ASSUME NEW p \in Pids, proc'[p].st # "free", [pid |-> p, gen |-> proc'[p].gen] \notin freeze[h].known
               PROVE  /\ proc'[p].of = h => proc'[p].cut \/ proc'[p].grp # l
                      /\ proc'[p].up \in Tree(h)' => [pid |-> proc'[p].up, gen |-> proc'[proc'[p].up].gen] \notin freeze[h].marker
  BY <1>3 DEF UnknownApart, Present, Identity
<1>5. Tree(h)' \subseteq Pids
  BY <1>3 DEF Tree, Descendants, Below, Present
<1>6. CASE Stays(p)
  <2>1. Present(p) /\ Identity(p) \notin freeze[h].known
    BY <1>4, <1>6 DEF Stays, Identity
  <2>2. /\ proc[p].of = h => proc[p].cut \/ proc[p].grp # l
        /\ proc[p].up \in Tree(h) => Identity(proc[p].up) \notin freeze[h].marker
    BY <1>2, <2>1 DEF UnknownApart
  <2>3. ASSUME proc'[p].of = h, ~proc'[p].cut, proc'[p].grp = l
        PROVE  FALSE
    <3>1. proc[p].grp # l /\ p = l
      BY <1>6, <2>2, <2>3 DEF Stays, Freezing
    <3>2. proc'[l].gen = hnd[h].gen
      BY <1>3, <1>4, <2>3, <3>1 DEF LeaderOrCut, Present, Same, Captured
    <3>3. [pid |-> p, gen |-> proc'[p].gen] = Captured(h)
      BY <1>2, <3>1, <3>2 DEF Captured
    <3> QED
      BY <1>4, <3>3 DEF KnowsLeader
  <2>4. ASSUME proc'[p].up \in Tree(h)'
        PROVE  [pid |-> proc'[p].up, gen |-> proc'[proc'[p].up].gen] \notin freeze[h].marker
    <3>1. PICK u \in Pids : u = proc'[p].up
      BY <1>5, <2>4
    <3>2. proc[p].up = u
      BY <1>6, <3>1, ReapAssumption DEF Stays
    <3>3. Present(u) /\ Live(u)
      BY <2>1, <3>2 DEF Families, Live, Present
    <3>4. u \in Tree(h)
      BY <1>1, <2>4, <3>1, <3>3, TreeBack
    <3>5. Identity(u) \notin freeze[h].marker
      BY <2>2, <3>2, <3>4
    <3>6. Live(u)'
      BY <1>6, <3>1, <3>3 DEF Evolves
    <3>7. proc'[u].gen = proc[u].gen
      BY <3>3, <3>6 DEF Evolves, Goes, Comes, Stays, Live
    <3> QED
      BY <3>1, <3>5, <3>7 DEF Identity
  <2> QED
    BY <2>3, <2>4
<1>7. CASE Comes(p)
  <2>1. CASE proc'[p].up = Outer /\ proc'[p].grp = Outer
    BY <1>5, <2>1, ReapAssumption
  <2>2. CASE ~(proc'[p].up = Outer /\ proc'[p].grp = Outer)
    <3>1. PICK e \in Pids : /\ Acts(e) /\ Live(e)' /\ proc'[p].up = e
                            /\ proc'[p].of = proc[e].of /\ proc'[p].grp = proc[e].grp
                            /\ proc[e].cut => proc'[p].cut
      BY <1>7, <2>2 DEF Comes
    <3>2. Present(e) /\ ~Halted(e) /\ ~Frozen(e)
      BY <3>1 DEF Acts, Present, Halted, Frozen
    <3>3. ASSUME proc'[p].of = h, ~proc'[p].cut, proc'[p].grp = l
          PROVE  FALSE
      BY <1>2, <3>1, <3>2, <3>3 DEF GroupHalted, Group
    <3>4. ASSUME [pid |-> e, gen |-> proc'[e].gen] \in freeze[h].marker
          PROVE  FALSE
      <4>1. proc'[e].gen = proc[e].gen
        BY <3>1, <3>2 DEF Evolves, Goes, Comes, Stays, Live
      <4>2. Identity(e) \in freeze[h].marker /\ Same(Identity(e)) /\ Identity(e).pid = e
        BY <3>2, <3>4, <4>1 DEF Identity, Same
      <4> QED
        BY <3>2, <4>2 DEF MarkedFrozen
    <3> QED
      BY <3>1, <3>3, <3>4
  <2> QED
    BY <2>1, <2>2
<1> QED
  BY <1>4, <1>6, <1>7 DEF Evolves, Goes

LEMMA CaughtLasts ==
  ASSUME TypeOK, Evolves, NEW h \in Handles, hnd[h].pc \notin {"new", "read"}, UNCHANGED freeze[h], Caught(h)
  PROVE  Caught(h)'
<1>1. SUFFICES ASSUME NEW p \in Pids, proc'[p].st # "free", proc'[p].of = h
               PROVE  \/ proc'[p].cut
                      \/ [pid |-> p, gen |-> proc'[p].gen] \in freeze[h].known /\ proc'[p].st \in {"stop", "zombie"}
  BY DEF Caught, Present, Identity, Frozen
<1>2. CASE Stays(p)
  BY <1>1, <1>2 DEF Stays, Caught, Identity
<1>3. CASE Comes(p)
  <2>1. PICK e \in Pids : /\ Acts(e) /\ proc[e].of = h
                          /\ proc[e].cut => proc'[p].cut
    BY <1>1, <1>3 DEF Comes
  <2> QED
    BY <2>1 DEF Caught, Acts, Present, Frozen
<1> QED
  BY <1>1, <1>2, <1>3 DEF Evolves, Goes

LEMMA ClearedLasts ==
  ASSUME TypeOK, Evolves, NEW h \in Handles, hnd[h].pc \notin {"new", "read"}, hnd'[h].audit = hnd[h].audit, Cleared(h)
  PROVE  Cleared(h)'
<1>1. SUFFICES ASSUME NEW p \in Pids, proc'[p].st \in {"run", "stop"}, proc'[p].of = h
               PROVE  hnd[h].audit \/ proc'[p].cut
  BY DEF Cleared, Family, Live
<1>2. CASE Stays(p)
  BY <1>1, <1>2 DEF Stays, Cleared, Family
<1>3. CASE Comes(p)
  <2>1. PICK e \in Pids : /\ Acts(e) /\ proc[e].of = h
                          /\ proc[e].cut => proc'[p].cut
    BY <1>1, <1>3 DEF Comes
  <2> QED
    BY <2>1 DEF Cleared, Family, Acts, Live
<1> QED
  BY <1>1, <1>2, <1>3 DEF Evolves, Goes

LEMMA NobodyComesBack ==
  ASSUME TypeOK, Evolves, NEW h \in Handles, hnd[h].pc \notin {"new", "read"}, NobodyLeft(h)
  PROVE  NobodyLeft(h)'
<1>1. SUFFICES ASSUME NEW p \in Pids, proc'[p].st # "free", proc'[p].of = h
               PROVE  proc'[p].cut
  BY DEF NobodyLeft, Present
<1>2. CASE Stays(p)
  BY <1>1, <1>2 DEF Stays, NobodyLeft
<1>3. CASE Comes(p)
  <2>1. PICK e \in Pids : /\ Acts(e) /\ proc[e].of = h
                          /\ proc[e].cut => proc'[p].cut
    BY <1>1, <1>3 DEF Comes
  <2> QED
    BY <2>1 DEF NobodyLeft, Acts, Present
<1> QED
  BY <1>1, <1>2, <1>3 DEF Evolves, Goes

\* What a shutdown has established lasts while its handle does not move.
LEMMA ReapLasts ==
  ASSUME TypeOK, Families, Evolves, NEW h \in Handles, HandleOK(h), UNCHANGED <<hnd[h], freeze[h]>>
  PROVE  ReapOK(h)'
<1>1. Keeps(h) /\ Holds(h) /\ ReapOK(h) /\ MarkedFrozen(h)
  BY DEF Keeps, HandleOK
<1>2. Freezing(h)' => Freezing(h)
  BY DEF Freezing
<1>3. Freezing(h) => KnowsLeader(h)' /\ LeaderOrCut(h)'
  BY <1>1, LeaderOrCutLasts DEF ReapOK, KnowsLeader, Captured
<1>4. hnd[h].pc \in {"snapshot", "mark", "settle"} => Freezing(h)
  BY DEF Freezing
<1>5. hnd[h].pc \in {"snapshot", "mark", "settle"} => GroupHalted(h)'
  BY <1>1, <1>3, <1>4, GroupHaltedLasts DEF ReapOK
<1>6. hnd[h].pc \in {"mark", "settle"} => UnknownApart(h)'
  BY <1>1, <1>3, <1>4, ApartLasts DEF ReapOK
<1>7. hnd[h].pc \in {"kill", "verify"} => Caught(h)'
  BY <1>1, CaughtLasts DEF ReapOK
<1>8. hnd[h].pc \in {"drain", "proven"} => Cleared(h)'
  BY <1>1, ClearedLasts DEF ReapOK
<1>9. hnd[h].pc = "proven" /\ hnd[h].audit => NobodyLeft(h)'
  BY <1>1, NobodyComesBack DEF ReapOK
<1> QED
  BY <1>2, <1>3, <1>5, <1>6, <1>7, <1>8, <1>9 DEF ReapOK

LEMMA IdentityLasts ==
  ASSUME TypeOK, Evolves, NEW h \in Handles, Holds(h), OwnIdentity(h), UNCHANGED hnd[h]
  PROVE  OwnIdentity(h)'
<1>1. Keeps(h) /\ Used(h)' = Used(h)
  BY DEF Keeps, Used
<1>2. ASSUME hnd[h].pc = "spawned", Present(hnd[h].pid)'
      PROVE  Owned(h)'
  <2>1. PICK p \in Pids : p = hnd[h].pid
    BY <1>2 DEF Holds, Used
  <2>2. proc'[p].st # "free" /\ hnd'[h].pid = p /\ hnd'[h].own = hnd[h].own
    BY <1>2, <2>1 DEF Present
  <2>3. ~Comes(p)
    BY <1>2, <2>1 DEF Comes
  <2>4. Stays(p)
    BY <2>2, <2>3 DEF Evolves, Goes
  <2>5. Owned(h)
    BY <1>2, <2>1, <2>4 DEF OwnIdentity, Stays
  <2> QED
    BY <2>1, <2>2, <2>4, <2>5 DEF Owned, Stays, Present
<1>3. Used(h) /\ Owned(h)' => Owned(h)
  BY <1>1, LeaderBack
<1> QED
  BY <1>1, <1>2, <1>3 DEF OwnIdentity

LEMMA AuditsLast ==
  ASSUME TypeOK, Evolves, NEW h \in Handles, Holds(h), AuditsTheGone(h), UNCHANGED hnd[h]
  PROVE  AuditsTheGone(h)'
<1>1. Keeps(h)
  BY DEF Keeps
<1>2. Used(h) /\ Same(Captured(h))' => Same(Captured(h))
  BY <1>1, LeaderBack
<1> QED
  BY <1>2 DEF AuditsTheGone, Used

LEMMA AttestedLasts ==
  ASSUME TypeOK, Evolves, NEW h \in Handles, Holds(h), Attested(h), UNCHANGED hnd[h],
         hnd[h].pc = "active" /\ Same(Captured(h)) => Captured(h) \in active'
  PROVE  Attested(h)'
<1>1. Keeps(h)
  BY DEF Keeps
<1>2. SUFFICES ASSUME hnd[h].pc = "active", Same(Captured(h))'
               PROVE  Captured(h)' \in active' /\ proc'[hnd'[h].pid].grp = hnd'[h].pid
  BY DEF Attested
<1>3. Same(Captured(h)) /\ Stays(hnd[h].pid) /\ Captured(h)' = Captured(h) /\ hnd'[h].pid = hnd[h].pid
  BY <1>1, <1>2, LeaderBack DEF Used
<1> QED
  BY <1>2, <1>3 DEF Attested, Stays

\* A handle that does not move is as it was.
LEMMA Rests ==
  ASSUME TypeOK, Families, Evolves, NEW h \in Handles, HandleOK(h), UNCHANGED <<hnd[h], freeze[h]>>,
         hnd[h].pc = "active" /\ Same(Captured(h)) => Captured(h) \in active'
  PROVE  HandleOK(h)'
<1>1. Keeps(h) /\ (Used(h)' => Used(h))
  BY DEF Keeps, Used
<1>2. \A id \in freeze[h].known \cup freeze[h].marker : id \in Ids /\ id.gen \in Nat /\ id.gen <= born
  BY HandleFields DEF HandleOK, Holds, Ids
<1>3. Holds(h)'
  BY <1>1, <1>2, HoldsLasts DEF HandleOK
<1>4. OwnIdentity(h)' /\ AuditsTheGone(h)' /\ Attested(h)'
  BY IdentityLasts, AuditsLast, AttestedLasts DEF HandleOK
<1>5. MarkedFrozen(h)'
  BY MarkedLasts DEF HandleOK
<1> QED
  BY <1>3, <1>4, <1>5, ReapLasts DEF HandleOK

-----------------------------------------------------------------------------
(* Families and registries.                                                *)

LEMMA FamiliesLast ==
  ASSUME TypeOK, Families, Evolves
  PROVE  Families'
<1>1. ASSUME NEW p \in Pids
      PROVE  proc'[p].gen <= born'
  BY <1>1 DEF TypeOK, Families, Evolves, Goes, Stays, Comes, ProcType
<1>2. ASSUME NEW p \in Pids, Stays(p)
      PROVE  /\ proc'[p].of \in Handles /\ proc'[p].up # p
             /\ proc'[p].up \in Pids => proc'[proc'[p].up].st \in {"run", "stop"} /\ proc'[proc'[p].up].of = proc'[p].of
               /\ proc'[proc'[p].up].gen < proc'[p].gen
  <2>1. Present(p) /\ proc[p].of \in Handles /\ proc[p].up # p /\ proc'[p].of = proc[p].of /\ proc'[p].up \in {proc[p].up, None}
    BY <1>2 DEF Stays, Families
  <2>2. ASSUME NEW u \in Pids, proc'[p].up = u
        PROVE  Live(u)' /\ proc'[u].of = proc'[p].of /\ proc'[u].gen < proc'[p].gen
    <3>1. proc[p].up = u
      BY <2>1, <2>2, ReapAssumption
    <3>2. Live(u) /\ proc[u].of = proc[p].of /\ proc[u].gen < proc[p].gen
      BY <2>1, <3>1 DEF Families
    <3>3. Live(u)'
      BY <1>2, <2>2, <3>2 DEF Evolves
    <3>4. proc'[u].of = proc[u].of /\ proc'[u].gen = proc[u].gen
      BY <3>2, <3>3 DEF Evolves, Goes, Comes, Stays, Live, Present
    <3>5. proc'[p].gen = proc[p].gen
      BY <1>2 DEF Stays
    <3> QED
      BY <2>1, <3>2, <3>3, <3>4, <3>5
  <2> QED
    BY <2>1, <2>2, ReapAssumption DEF Live
<1>3. ASSUME NEW p \in Pids, Comes(p)
      PROVE  /\ proc'[p].of \in Handles /\ proc'[p].up # p
             /\ proc'[p].up \in Pids => proc'[proc'[p].up].st \in {"run", "stop"} /\ proc'[proc'[p].up].of = proc'[p].of
               /\ proc'[proc'[p].up].gen < proc'[p].gen
  <2>1. proc'[p].of \in Handles
    BY <1>3 DEF Comes
  <2>2. CASE proc'[p].up = Outer
    BY <2>1, <2>2, ReapAssumption
  <2>3. CASE proc'[p].up # Outer
    <3>1. PICK e \in Pids : /\ Acts(e) /\ Live(e)' /\ proc'[p].up = e
                            /\ proc'[p].of = proc[e].of /\ proc'[e].of = proc[e].of
      BY <1>3, <2>3 DEF Comes
    <3>2. e # p
      BY <1>3, <3>1 DEF Comes, Acts, Present
    <3>3. proc'[e].gen = proc[e].gen
      BY <3>1 DEF Evolves, Goes, Comes, Stays, Live, Present, Acts
    <3>4. proc[e].gen <= born /\ proc[e].gen \in Nat /\ born \in Nat /\ proc'[p].gen = born + 1
      BY <1>3 DEF Families, TypeOK, ProcType, Comes
    <3>5. proc'[e].gen < proc'[p].gen
      BY <3>3, <3>4
    <3> QED
      BY <2>1, <3>1, <3>2, <3>5 DEF Live
  <2> QED
    BY <2>2, <2>3
<1>4. \A p \in Pids : Present(p)' => Stays(p) \/ Comes(p)
  BY DEF Evolves, Goes, Present
<1> QED
  BY <1>1, <1>2, <1>3, <1>4 DEF Families, Live

\* What happens to the registries: an identity is added for the handle of a process that is
\* there, and a handle that changes what it is loses its own.
RegistriesMove ==
    /\ \A id \in starting' \cup active' :
         \/ id \in starting \cup active
         \/ /\ id.pid \in Pids /\ Same(id)
            /\ \E g \in Handles : g = proc[id.pid].of /\ hnd'[g].start /\ Captured(g)' = id
    /\ \A g \in Handles : hnd[g].start =>
         (hnd'[g].start /\ Captured(g)' = Captured(g)) \/ Captured(g) \notin starting' \cup active'

LEMMA RegisteredLasts ==
  ASSUME TypeOK, Families, Registered, Evolves,
         starting' \cup active' \subseteq starting \cup active,
         \A g \in Handles : hnd[g].start =>
           (hnd'[g].start /\ Captured(g)' = Captured(g)) \/ Captured(g) \notin starting' \cup active'
  PROVE  Registered'
<1>1. ASSUME NEW id \in starting' \cup active'
      PROVE  id.gen <= born' /\ (Same(id)' => hnd'[proc'[id.pid].of].start /\ [pid |-> hnd'[proc'[id.pid].of].pid, gen |-> hnd'[proc'[id.pid].of].gen] = id)
  <2>1. id \in starting \cup active /\ id \in Ids /\ id.gen \in Nat /\ id.pid \in Pids
    BY <1>1 DEF TypeOK, Ids
  <2>2. id.gen <= born /\ born <= born' /\ born \in Nat /\ born' \in Nat
    BY <2>1 DEF TypeOK, Registered, Evolves
  <2>3. ASSUME Same(id)'
        PROVE  hnd'[proc'[id.pid].of].start /\ [pid |-> hnd'[proc'[id.pid].of].pid, gen |-> hnd'[proc'[id.pid].of].gen] = id
    <3>1. Same(id) /\ Stays(id.pid)
      BY <2>1, <2>2, <2>3, SameBack
    <3>2. PICK g \in Handles : g = proc[id.pid].of
      BY <2>1, <3>1 DEF Families, Same
    <3>3. proc'[id.pid].of = g
      BY <3>1, <3>2 DEF Stays
    <3>4. hnd[g].start /\ Captured(g) = id
      BY <2>1, <3>1, <3>2 DEF Registered
    <3>5. hnd'[g].start /\ Captured(g)' = id
      BY <1>1, <3>4
    <3> QED
      BY <3>3, <3>5 DEF Captured
  <2> QED
    BY <2>1, <2>2, <2>3
<1> QED
  BY <1>1 DEF Registered, Captured

LEMMA SameRegistries ==
  ASSUME TypeOK, Families, Registered, Evolves, UNCHANGED <<hnd, starting, active>>
  PROVE  Registered'
<1>1. \A g \in Handles : hnd[g].start => hnd'[g].start /\ Captured(g)' = Captured(g)
  BY DEF Captured
<1> QED
  BY <1>1, RegisteredLasts

-----------------------------------------------------------------------------
(* The steps of a constructor.                                             *)

LEMMA StartKeeps ==
  ASSUME ReapInv, NEW h \in Handles, Start(h)
  PROVE  Families' /\ Registered' /\ Evolves /\ RegistriesMove /\ \A g \in Handles : HandleOK(g)'
<1>1. TypeOK /\ Families /\ Registered /\ \A g \in Handles : HandleOK(g)
  BY DEF ReapInv
<1>2. /\ Evolves /\ UNCHANGED <<freeze, look, starting, active>> /\ hnd[h].pc = "new"
      /\ \A g \in Handles \ {h} : hnd'[g] = hnd[g]
      /\ hnd'[h].pc = "spawned" /\ hnd'[h].pid \in Pids /\ hnd'[h].own = born + 1 /\ born' = born + 1
      /\ hnd'[h].gen = hnd[h].gen /\ hnd'[h].id = hnd[h].id /\ hnd'[h].start = hnd[h].start
      /\ proc'[hnd'[h].pid].gen = born + 1 /\ proc'[hnd'[h].pid].of = h
  BY <1>1, StartEvolves
<1>3. ~hnd[h].start /\ ~hnd[h].id
  BY <1>1, <1>2 DEF HandleOK, OwnIdentity, Used
<1>4. Families'
  BY <1>1, <1>2, FamiliesLast
<1>5. Registered'
  <2>1. \A g \in Handles : hnd[g].start => hnd'[g].start /\ Captured(g)' = Captured(g)
    BY <1>2, <1>3 DEF Captured
  <2> QED
    BY <1>1, <1>2, <2>1, RegisteredLasts
<1>8. RegistriesMove
  BY <1>2, <1>3 DEF RegistriesMove, Captured
<1>6. ASSUME NEW g \in Handles, g # h
      PROVE  HandleOK(g)'
  <2>1. UNCHANGED <<hnd[g], freeze[g]>> /\ HandleOK(g)
    BY <1>1, <1>2, <1>6
  <2>2. hnd[g].pc = "active" /\ Same(Captured(g)) => Captured(g) \in active'
    BY <1>2, <2>1 DEF HandleOK, Attested
  <2> QED
    BY <1>1, <1>2, <2>1, <2>2, Rests
<1>7. HandleOK(h)'
  <2>f. born \in Nat /\ hnd[h].gen \in Nat /\ hnd[h].gen <= born
    BY <1>1, HandleFields DEF TypeOK, HandleOK, Holds
  <2>1. \A id \in freeze[h].known \cup freeze[h].marker : id \in Ids /\ id.gen \in Nat /\ id.gen <= born
    BY <1>1, HandleFields DEF HandleOK, Holds, Ids
  <2>2. Holds(h)'
    BY <1>2, <2>f, <2>1 DEF Holds
  <2>3. OwnIdentity(h)'
    BY <1>2, <1>3 DEF OwnIdentity, Owned, Present
  <2>4. MarkedFrozen(h)'
    BY <1>1, <1>2, MarkedLasts DEF HandleOK
  <2> QED
    BY <1>2, <2>2, <2>3, <2>4 DEF HandleOK, Attested, AuditsTheGone, ReapOK, Freezing
<1> QED
  BY <1>2, <1>4, <1>5, <1>6, <1>7, <1>8

LEMMA RegisterKeeps ==
  ASSUME ReapInv, NEW h \in Handles, Register(h)
  PROVE  Families' /\ Registered' /\ Evolves /\ RegistriesMove /\ \A g \in Handles : HandleOK(g)'
<1>1. TypeOK /\ Families /\ Registered /\ \A g \in Handles : HandleOK(g)
  BY DEF ReapInv
<1>2. PICK p \in Pids : p = hnd[h].pid
  BY <1>1 DEF HandleOK, Holds, Used, Register, Pc
<1>3. /\ hnd[h].pc = "spawned" /\ Present(p) /\ starting' = Put(starting, Identity(p))
      /\ hnd' = [hnd EXCEPT ![h].pc = "starting", ![h].start = TRUE, ![h].gen = proc[p].gen]
      /\ UNCHANGED <<proc, freeze, active, born>>
  BY <1>2 DEF Register, Pc
<1>4. /\ \A g \in Handles \ {h} : hnd'[g] = hnd[g]
      /\ hnd'[h].pc = "starting" /\ hnd'[h].start /\ hnd'[h].gen = proc[p].gen
      /\ hnd'[h].pid = p /\ hnd'[h].own = hnd[h].own /\ hnd'[h].id = hnd[h].id
  BY <1>1, <1>2, <1>3 DEF TypeOK, HandleType
<1>5. Evolves
  BY <1>1, <1>3, IdleEvolves
<1>6. Families'
  BY <1>1, <1>5, FamiliesLast
<1>7. Owned(h) /\ proc[p].gen = hnd[h].own /\ proc[p].of = h /\ ~hnd[h].id
  BY <1>1, <1>2, <1>3 DEF HandleOK, OwnIdentity, Holds, Used, Owned
<1>8. Registered'
  <2>1. ASSUME NEW id \in starting' \cup active'
        PROVE  id.gen <= born /\ (Same(id) => hnd'[proc[id.pid].of].start
                 /\ [pid |-> hnd'[proc[id.pid].of].pid, gen |-> hnd'[proc[id.pid].of].gen] = id)
    <3>1. CASE id = Identity(p)
      <4>1. id.gen <= born /\ id.pid = p /\ id.gen = proc[p].gen
        BY <1>1, <3>1 DEF Families, Identity
      <4> QED
        BY <1>4, <1>7, <3>1, <4>1 DEF Identity
    <3>2. CASE id # Identity(p)
      <4>1. id \in starting \cup active /\ id.gen <= born
        BY <1>1, <1>3, <2>1, <3>2 DEF Put, Registered
      <4>2. ASSUME Same(id)
            PROVE  hnd'[proc[id.pid].of].start
                   /\ [pid |-> hnd'[proc[id.pid].of].pid, gen |-> hnd'[proc[id.pid].of].gen] = id
        <5>1. id.pid \in Pids /\ id \in Ids
          BY <1>1, <4>1 DEF TypeOK, Ids
        <5>2. PICK g \in Handles : g = proc[id.pid].of
          BY <1>1, <4>2, <5>1 DEF Families, Same
        <5>3. hnd[g].start /\ Captured(g) = id
          BY <1>1, <4>1, <4>2, <5>2 DEF Registered
        <5>4. g # h
          <6>1. SUFFICES ASSUME g = h
                         PROVE  FALSE
            OBVIOUS
          <6>2. id.pid = p /\ id.gen = hnd[h].gen
            BY <1>2, <5>3, <6>1 DEF Captured
          <6>3. id = Identity(p)
            BY <4>2, <5>1, <6>2 DEF Same, Identity, Ids
          <6> QED
            BY <3>2, <6>3
        <5> QED
          BY <1>4, <5>2, <5>3, <5>4 DEF Captured
      <4> QED
        BY <4>1, <4>2
    <3> QED
      BY <3>1, <3>2
  <2> QED
    BY <1>3, <2>1 DEF Registered, Captured, Same, Present
<1>11. RegistriesMove
  <2>1. ~hnd[h].start
    BY <1>1, <1>3 DEF HandleOK, OwnIdentity
  <2>2. \A g \in Handles : hnd[g].start => hnd'[g].start /\ Captured(g)' = Captured(g)
    BY <1>4, <2>1 DEF Captured
  <2>3. Captured(h)' = Identity(p)
    BY <1>4 DEF Captured, Identity
  <2>4. \A id \in starting' \cup active' : id \in starting \cup active \/ id = Identity(p)
    BY <1>3 DEF Put
  <2>5. Same(Identity(p)) /\ Identity(p).pid = p
    BY <1>3 DEF Same, Identity
  <2> QED
    BY <1>4, <1>7, <2>2, <2>3, <2>4, <2>5 DEF RegistriesMove
<1>9. ASSUME NEW g \in Handles, g # h
      PROVE  HandleOK(g)'
  <2>1. UNCHANGED <<hnd[g], freeze[g]>> /\ HandleOK(g)
    BY <1>1, <1>3, <1>4, <1>9
  <2>2. hnd[g].pc = "active" /\ Same(Captured(g)) => Captured(g) \in active'
    BY <1>3, <2>1 DEF HandleOK, Attested
  <2> QED
    BY <1>1, <1>5, <2>1, <2>2, Rests
<1>10. HandleOK(h)'
  <2>1. HandleOK(h)
    BY <1>1
  <2>2. Holds(h)'
    BY <1>1, <1>3, <1>4, <1>7, <2>1 DEF HandleOK, Holds, Families, Used, Owned, Present
  <2>3. OwnIdentity(h)'
    BY <1>4, <1>7 DEF OwnIdentity, Used
  <2>4. MarkedFrozen(h)'
    BY <1>1, <1>3, <1>5, MarkedLasts DEF HandleOK
  <2> QED
    BY <1>4, <2>2, <2>3, <2>4 DEF HandleOK, Attested, AuditsTheGone, ReapOK, Freezing
<1> QED
  BY <1>5, <1>6, <1>8, <1>9, <1>10, <1>11

LEMMA PromoteKeeps ==
  ASSUME ReapInv, NEW h \in Handles, Promote(h)
  PROVE  Families' /\ Registered' /\ Evolves /\ RegistriesMove /\ \A g \in Handles : HandleOK(g)'
<1>1. TypeOK /\ Families /\ Registered /\ \A g \in Handles : HandleOK(g)
  BY DEF ReapInv
<1>2. PICK p \in Pids : p = hnd[h].pid
  BY <1>1 DEF HandleOK, Holds, Used, Promote, Pc
<1>3. /\ hnd[h].pc = "starting" /\ Same(Captured(h)) /\ proc[p].grp = p /\ Identity(p) \in starting
      /\ starting' = starting \ {Identity(p)} /\ active' = Put(active, Identity(p))
      /\ hnd' = [hnd EXCEPT ![h].pc = "active", ![h].id = TRUE, ![h].acked = TRUE]
      /\ UNCHANGED <<proc, freeze, born>>
  BY <1>2 DEF Promote, Pc
<1>4. /\ \A g \in Handles \ {h} : hnd'[g] = hnd[g]
      /\ hnd'[h].pc = "active" /\ hnd'[h].id /\ hnd'[h].start = hnd[h].start /\ hnd'[h].gen = hnd[h].gen
      /\ hnd'[h].pid = p /\ hnd'[h].own = hnd[h].own
  BY <1>1, <1>2, <1>3 DEF TypeOK, HandleType
<1>5. Evolves
  BY <1>1, <1>3, IdleEvolves
<1>6. Families'
  BY <1>1, <1>5, FamiliesLast
<1>7. Captured(h) = Identity(p)
  BY <1>2, <1>3 DEF Captured, Identity, Same
<1>8. Registered'
  <2>1. \A g \in Handles : hnd[g].start => hnd'[g].start /\ Captured(g)' = Captured(g)
    BY <1>2, <1>4 DEF Captured
  <2>2. starting' \cup active' \subseteq starting \cup active
    BY <1>3 DEF Put
  <2> QED
    BY <1>1, <1>5, <2>1, <2>2, RegisteredLasts
<1>11. RegistriesMove
  <2>1. \A g \in Handles : hnd[g].start => hnd'[g].start /\ Captured(g)' = Captured(g)
    BY <1>2, <1>4 DEF Captured
  <2> QED
    BY <1>3, <2>1 DEF RegistriesMove, Put
<1>9. ASSUME NEW g \in Handles, g # h
      PROVE  HandleOK(g)'
  <2>1. UNCHANGED <<hnd[g], freeze[g]>> /\ HandleOK(g)
    BY <1>1, <1>3, <1>4, <1>9
  <2>2. ASSUME hnd[g].pc = "active", Same(Captured(g))
        PROVE  Captured(g) \in active'
    <3>1. Captured(g) \in active
      BY <2>1, <2>2 DEF HandleOK, Attested
    <3>2. CASE Captured(g).pid = p
      BY <1>3, <2>2, <3>2 DEF Captured, Same, Identity, Put
    <3>3. CASE Captured(g).pid # p
      BY <1>3, <3>1, <3>3 DEF Put, Identity
    <3> QED
      BY <3>2, <3>3
  <2> QED
    BY <1>1, <1>5, <2>1, <2>2, Rests
<1>10. HandleOK(h)'
  <2>2. HandleOK(h) /\ hnd[h].start /\ Used(h) /\ hnd[h].gen = hnd[h].own
    BY <1>1, <1>3 DEF HandleOK, OwnIdentity
  <2>3. Holds(h)'
    BY <1>2, <1>3, <1>4, <2>2 DEF HandleOK, Holds, Used, Owned, Present
  <2>4. OwnIdentity(h)'
    BY <1>4, <2>2 DEF OwnIdentity, Used
  <2>5. MarkedFrozen(h)'
    BY <1>1, <1>3, <1>5, MarkedLasts DEF HandleOK
  <2>6. Attested(h)'
    BY <1>2, <1>3, <1>4, <1>7 DEF Attested, Put, Captured, Identity
  <2> QED
    BY <1>4, <2>3, <2>4, <2>5, <2>6 DEF HandleOK, AuditsTheGone, ReapOK, Freezing
<1> QED
  BY <1>5, <1>6, <1>8, <1>9, <1>10, <1>11

-----------------------------------------------------------------------------
(* The steps of a shutdown.                                                *)

LEMMA EnterKeeps ==
  ASSUME ReapInv, NEW h \in Handles, Enter(h)
  PROVE  Families' /\ Registered' /\ Evolves /\ RegistriesMove /\ \A g \in Handles : HandleOK(g)'
<1>1. TypeOK /\ Families /\ Registered /\ (\A g \in Handles : HandleOK(g)) /\ Holds(h)
  BY DEF ReapInv, HandleOK
<1>2. PICK gen : gen = hnd'[h].gen
  OBVIOUS
<1>3. /\ Used(h) /\ UNCHANGED <<proc, look, starting, active, born, misses>>
      /\ \A g \in Handles \ {h} : hnd'[g] = hnd[g] /\ freeze'[g] = freeze[g]
      /\ hnd'[h].pid = hnd[h].pid /\ hnd'[h].own = hnd[h].own /\ hnd'[h].start = hnd[h].start
      /\ (~Adoptable(h) /\ gen = hnd[h].gen) \/ (Adoptable(h) /\ gen = proc[hnd[h].pid].gen)
      /\ hnd'[h].id => hnd[h].id \/ Adoptable(h)
      /\ freeze'[h].marker = {}
      /\ \/ /\ hnd'[h].pc = "stop" /\ hnd'[h].id
            /\ Same([pid |-> hnd[h].pid, gen |-> gen])
            /\ freeze'[h].known = {[pid |-> hnd[h].pid, gen |-> gen]}
            /\ ~hnd'[h].audit
         \/ /\ hnd'[h].pc = "join" /\ freeze'[h].known = {}
            /\ hnd'[h].audit => ~Same([pid |-> hnd[h].pid, gen |-> gen]) \/ (hnd[h].start /\ ~hnd'[h].id)
  BY <1>1, <1>2, Enters
<1>4. PICK p \in Pids : p = hnd[h].pid
  BY <1>1, <1>3 DEF Holds
<1>5. Evolves
  BY <1>1, <1>3, IdleEvolves
<1>6. Families'
  BY <1>1, <1>5, FamiliesLast
<1>7. Captured(h)' = [pid |-> p, gen |-> gen] /\ Same(Captured(h))' = Same([pid |-> p, gen |-> gen])
  BY <1>2, <1>3, <1>4 DEF Captured, Same, Present
<1>8. hnd[h].start => gen = hnd[h].gen
  BY <1>3, <1>4 DEF Adoptable, Same, Captured
<1>9. Registered'
  <2>1. \A g \in Handles : hnd[g].start => hnd'[g].start /\ Captured(g)' = Captured(g)
    BY <1>2, <1>3, <1>8 DEF Captured
  <2> QED
    BY <1>1, <1>3, <1>5, <2>1, RegisteredLasts
<1>12. RegistriesMove
  <2>1. \A g \in Handles : hnd[g].start => hnd'[g].start /\ Captured(g)' = Captured(g)
    BY <1>2, <1>3, <1>8 DEF Captured
  <2> QED
    BY <1>3, <2>1 DEF RegistriesMove
<1>10. ASSUME NEW g \in Handles, g # h
       PROVE  HandleOK(g)'
  <2>1. UNCHANGED <<hnd[g], freeze[g]>> /\ HandleOK(g)
    BY <1>1, <1>3, <1>10
  <2>2. hnd[g].pc = "active" /\ Same(Captured(g)) => Captured(g) \in active'
    BY <1>3, <2>1 DEF HandleOK, Attested
  <2> QED
    BY <1>1, <1>5, <2>1, <2>2, Rests
<1>11. HandleOK(h)'
  <2>1. HandleOK(h)
    BY <1>1
  <2>2. gen <= born
    BY <1>1, <1>3, <1>4, <2>1 DEF HandleOK, Holds, Families
  <2>3. Holds(h)'
    <3>1. \A id \in freeze'[h].known \cup freeze'[h].marker : id.gen <= born
      BY <1>3, <2>2
    <3>2. Owned(h)' => Owned(h)
      BY <1>3, <1>4 DEF Owned, Present
    <3> QED
      BY <1>2, <1>3, <1>4, <2>1, <2>2, <3>1, <3>2 DEF HandleOK, Holds
  <2>4. OwnIdentity(h)'
    <3>1. hnd[h].start => Used(h)' /\ gen = hnd[h].own
      BY <1>3, <1>8, <2>1 DEF HandleOK, OwnIdentity, Used
    <3>2. ASSUME hnd'[h].id, Owned(h)'
          PROVE  gen = hnd[h].own
      <4>1. proc[p].gen = hnd[h].own /\ Owned(h)
        BY <1>3, <1>4, <3>2 DEF Owned, Present
      <4>2. CASE Adoptable(h)
        BY <1>3, <1>4, <4>1, <4>2
      <4>3. CASE ~Adoptable(h)
        BY <1>3, <2>1, <3>2, <4>1, <4>3 DEF HandleOK, OwnIdentity
      <4> QED
        BY <4>2, <4>3
    <3> QED
      BY <1>2, <1>3, <3>1, <3>2 DEF OwnIdentity
  <2>5. MarkedFrozen(h)' /\ Attested(h)'
    BY <1>3 DEF MarkedFrozen, Attested
  <2>6. AuditsTheGone(h)'
    BY <1>3, <1>4, <1>7 DEF AuditsTheGone
  <2>7. hnd'[h].pc = "stop" => KnowsLeader(h)' /\ LeaderOrCut(h)'
    BY <1>3, <1>4, <1>7 DEF KnowsLeader, LeaderOrCut
  <2>8. ReapOK(h)'
    BY <1>3, <2>7 DEF ReapOK, Freezing
  <2> QED
    BY <2>3, <2>4, <2>5, <2>6, <2>8 DEF HandleOK
<1> QED
  BY <1>5, <1>6, <1>9, <1>10, <1>11, <1>12

\* The points of a shutdown that has not ended.
Pcs == {"stop", "snapshot", "mark", "settle", "kill", "verify", "join", "drain", "audit", "read"}

\* What a handle keeps as it moves through its shutdown.
LEMMA MovesKeep ==
  ASSUME TypeOK, TypeOK', Families, Evolves, NEW h \in Handles, HandleOK(h), Keeps(h), hnd[h].pc \in Pcs,
         hnd'[h].pc \in Pcs \cup {"unproven"},
         \A id \in freeze'[h].known \cup freeze'[h].marker :
           id \in freeze[h].known \cup freeze[h].marker \/ id \in {Identity(q) : q \in Pids}
  PROVE  Holds(h)' /\ OwnIdentity(h)' /\ Attested(h)'
<1>1. Used(h) /\ Used(h)'
  BY DEF Used, Pcs
<1>2. \A id \in freeze'[h].known \cup freeze'[h].marker : id.gen \in Nat /\ id.gen <= born
  <2>1. \A q \in Pids : Identity(q).gen <= born
    BY DEF Families, Identity
  <2> QED
    BY <2>1, HandleFields DEF HandleOK, Holds, Ids, TypeOK, FreezeType
<1>3. Holds(h)'
  BY <1>1, <1>2, HoldsLasts DEF HandleOK
<1>4. Owned(h)' => Owned(h)
  BY <1>1, LeaderBack DEF HandleOK
<1>5. OwnIdentity(h)'
  BY <1>1, <1>4 DEF HandleOK, OwnIdentity, Keeps, Pcs
<1> QED
  BY <1>3, <1>5 DEF Attested, Pcs

\* The registries of a shutdown that goes on.
LEMMA MovesRegistered ==
  ASSUME TypeOK, Families, Registered, Evolves, NEW h \in Handles, Keeps(h), UNCHANGED Registries,
         \A g \in Handles \ {h} : hnd'[g] = hnd[g]
  PROVE  Registered' /\ RegistriesMove
<1>1. \A g \in Handles : hnd[g].start => hnd'[g].start /\ Captured(g)' = Captured(g)
  BY DEF Keeps, Captured
<1>2. RegistriesMove
  BY <1>1 DEF RegistriesMove, Registries
<1> QED
  BY <1>1, <1>2, RegisteredLasts DEF Registries

LEMMA LeaderKept ==
  ASSUME TypeOK, Evolves, NEW h \in Handles, HandleOK(h), Freezing(h), Keeps(h), hnd'[h].audit = hnd[h].audit,
         freeze[h].known \subseteq freeze'[h].known
  PROVE  KnowsLeader(h)' /\ LeaderOrCut(h)'
<1>1. KnowsLeader(h) /\ LeaderOrCut(h) /\ Holds(h)
  BY DEF HandleOK, ReapOK
<1>2. KnowsLeader(h)'
  BY <1>1 DEF KnowsLeader, Keeps, Captured
<1> QED
  BY <1>1, <1>2, LeaderOrCutLasts

\* A signal to the group halts it.
LEMMA StopHalts ==
  ASSUME TypeOK, Families, Evolves, NEW h \in Handles, HandleOK(h), Stopped(h)
  PROVE  GroupHalted(h)'
<1>1. /\ hnd[h].pc = "stop" /\ hnd'[h].pid = hnd[h].pid /\ hnd'[h].gen = hnd[h].gen
      /\ proc' = Signalled(Group(hnd[h].pid), "stop")
      /\ Same(Captured(h)) => proc[hnd[h].pid].grp = hnd[h].pid
  BY DEF Stopped, Turns
<1>2. PICK l \in Pids : l = hnd[h].pid
  BY <1>1 DEF HandleOK, Holds, Used
<1>3. ASSUME NEW p \in Pids
      PROVE  /\ proc'[p].st = proc[p].st /\ proc'[p].grp = proc[p].grp /\ proc'[p].gen = proc[p].gen
             /\ Present(p) /\ proc[p].grp = l => ~(proc'[p].st = "run" /\ proc'[p].sig = "none")
  <2>1. proc[p] \in ProcType
    BY DEF TypeOK
  <2>2. CASE p \in Group(l) /\ Live(p) /\ proc[p].sig # "kill" /\ ~Frozen(p)
    <3>1. proc'[p] = [proc[p] EXCEPT !.sig = "stop"]
      BY <1>1, <1>2, <2>2 DEF Signalled
    <3> QED
      BY <2>1, <3>1 DEF ProcType
  <2>3. CASE ~(p \in Group(l) /\ Live(p) /\ proc[p].sig # "kill" /\ ~Frozen(p))
    <3>1. proc'[p] = proc[p]
      BY <1>1, <1>2, <2>3 DEF Signalled
    <3> QED
      BY <2>1, <2>3, <3>1 DEF ProcType, Group, Live, Frozen, Present
  <2> QED
    BY <2>2, <2>3
<1>4. \A p \in Group(hnd[h].pid)' : Halted(p)'
  BY <1>1, <1>2, <1>3 DEF Group, Present, Halted
<1>5. Same(Captured(h))' => proc'[hnd'[h].pid].grp = hnd'[h].pid
  BY <1>1, <1>2, <1>3 DEF Same, Captured, Present
<1> QED
  BY <1>4, <1>5 DEF GroupHalted

\* Who has an ancestry to a root through a process below it is below it.
LEMMA BelowIsClosed ==
  ASSUME NEW table, NEW l \in Pids, NEW p \in Pids, table[p].st # "free", table[p].up \in Below(table, l) \cup {l}
  PROVE  p \in Below(table, l)
BY DEF Below

LEMMA SnapshotLooks ==
  ASSUME TypeOK, NEW h \in Handles, HandleOK(h), Looked(h)
  PROVE  UnknownApart(h)' /\ freeze'[h].known = freeze[h].known \cup {Identity(q) : q \in InSight(h)}
         /\ freeze'[h].marker = freeze[h].marker
<1>1. /\ hnd[h].pc = "snapshot" /\ hnd'[h].pid = hnd[h].pid /\ hnd'[h].gen = hnd[h].gen /\ UNCHANGED proc
      /\ freeze' = [freeze EXCEPT ![h] = [freeze[h] EXCEPT !.known = @ \cup {Identity(q) : q \in InSight(h)}]]
  BY DEF Looked, Turns, Finds
<1>2. PICK l \in Pids : l = hnd[h].pid
  BY <1>1 DEF HandleOK, Holds, Used
<1>3. PICK S : S = {Identity(q) : q \in InSight(h)}
  OBVIOUS
<1>4. freeze'[h].known = freeze[h].known \cup S /\ freeze'[h].marker = freeze[h].marker
  BY <1>1, <1>3 DEF TypeOK, FreezeType
<1>5. Same(Captured(h))' = Same(Captured(h)) /\ Tree(h)' = Tree(h)
  BY <1>1 DEF Same, Captured, Present, Tree, Descendants, Below
<1>6. ASSUME NEW p \in Pids, Present(p), Identity(p) \notin freeze'[h].known
      PROVE  proc[p].grp # l /\ proc[p].up \notin Tree(h)
  <2>1. p \notin InSight(h)
    BY <1>3, <1>4, <1>6
  <2>2. proc[p].grp # l
    BY <1>2, <1>6, <2>1 DEF InSight, Group
  <2>3. ASSUME proc[p].up \in Tree(h)
        PROVE  FALSE
    <3>1. Same(Captured(h)) /\ proc[p].up \in Descendants(l) \cup {l}
      BY <1>2, <2>3 DEF Tree
    <3>2. p \in Descendants(l)
      BY <1>6, <3>1, BelowIsClosed DEF Descendants, Present
    <3> QED
      BY <1>2, <2>1, <3>1, <3>2 DEF InSight
  <2> QED
    BY <2>2, <2>3
<1>7. UnknownApart(h)'
  BY <1>1, <1>2, <1>5, <1>6 DEF UnknownApart, Present, Identity
<1> QED
  BY <1>3, <1>4, <1>7

\* When two passes agree, everybody in sight is known and stopped.
LEMMA SettledCatches ==
  ASSUME TypeOK, Families, NEW h \in Handles, HandleOK(h), Settled(h)
  PROVE  Caught(h)'
<1>1. /\ hnd[h].pc = "settle" /\ UNCHANGED freeze
      /\ \A id \in Survivors(h) : Frozen(id.pid)
      /\ freeze[h].marker = Survivors(h)
      /\ proc' = [p \in Pids |-> IF p \in Hidden(h) THEN [proc[p] EXCEPT !.cut = TRUE] ELSE proc[p]]
  BY DEF Settled
<1>2. PICK l \in Pids : l = hnd[h].pid
  BY <1>1 DEF HandleOK, Holds, Used
<1>3. UnknownApart(h) /\ KnowsLeader(h)
  BY <1>1 DEF HandleOK, ReapOK, Freezing
<1>4. \A p \in Pids : Present(p) /\ Identity(p) \in freeze[h].known => Identity(p) \in freeze[h].marker /\ Frozen(p)
  BY <1>1 DEF Survivors, Same, Identity
<1>5. ASSUME Same(Captured(h)), NEW p \in Descendants(l)
      PROVE  Present(p) => Identity(p) \in freeze[h].known
  <2> DEFINE S == {q \in Pids : q \in Descendants(l) /\ (Present(q) => Identity(q) \in freeze[h].known)}
  <2>1. ASSUME NEW q \in Pids, Present(q), proc[q].up \in S \cup {l}
        PROVE  q \in S
    <3>1. proc[q].up \in Descendants(l) \cup {l} /\ proc[q].up \in Pids
      BY <2>1
    <3>2. q \in Descendants(l)
      BY <2>1, <3>1, BelowIsClosed DEF Descendants, Present
    <3>3. Present(proc[q].up)
      BY <2>1, <3>1 DEF Families, Live, Present
    <3>4. Identity(proc[q].up) \in freeze[h].known
      <4>1. CASE proc[q].up = l
        BY <1>2, <1>3, <1>5, <4>1 DEF KnowsLeader, Captured, Same, Identity
      <4>2. CASE proc[q].up \in S
        BY <3>3, <4>2
      <4> QED
        BY <2>1, <4>1, <4>2
    <3>5. Identity(proc[q].up) \in freeze[h].marker
      BY <1>4, <3>1, <3>3, <3>4
    <3>6. proc[q].up \in Tree(h)
      BY <1>2, <1>5, <3>1 DEF Tree
    <3>7. Identity(q) \in freeze[h].known
      BY <1>3, <2>1, <3>5, <3>6 DEF UnknownApart
    <3> QED
      BY <3>2, <3>7
  <2>2. S \in SUBSET Pids
    OBVIOUS
  <2>3. p \in S
    <3> HIDE DEF S
    <3> QED
      BY <1>5, <2>1, <2>2 DEF Descendants, Below, Present
  <2> QED
    BY <2>3
<1>6. ASSUME NEW p \in Pids, Present(p), proc[p].of = h, p \notin Hidden(h)
      PROVE  proc[p].cut \/ (Identity(p) \in freeze[h].known /\ Frozen(p))
  <2>1. p \in InSight(h)
    BY <1>6 DEF Hidden
  <2>2. CASE p \in Group(l)
    BY <1>2, <1>3, <1>4, <1>6, <2>2 DEF UnknownApart, Group
  <2>3. CASE Same(Captured(h)) /\ p \in Descendants(l)
    BY <1>4, <1>5, <1>6, <2>3
  <2> QED
    BY <1>2, <2>1, <2>2, <2>3 DEF InSight
<1>7. ASSUME NEW p \in Pids
      PROVE  /\ proc'[p].st = proc[p].st /\ proc'[p].gen = proc[p].gen /\ proc'[p].of = proc[p].of
             /\ proc[p].cut => proc'[p].cut
             /\ p \in Hidden(h) => proc'[p].cut
  <2>1. proc[p] \in ProcType
    BY DEF TypeOK
  <2>2. CASE p \in Hidden(h)
    BY <1>1, <2>1, <2>2 DEF ProcType
  <2>3. CASE p \notin Hidden(h)
    BY <1>1, <2>3
  <2> QED
    BY <2>2, <2>3
<1> QED
  BY <1>1, <1>6, <1>7 DEF Caught, Present, Identity, Frozen

LEMMA VerifiedClears ==
  ASSUME TypeOK, Evolves, NEW h \in Handles, HandleOK(h), Verified(h), born' = born
  PROVE  Cleared(h)'
<1>1. hnd[h].pc = "verify" /\ \A id \in Survivors(h) : ~Live(id.pid)
  BY DEF Verified
<1>2. Caught(h)
  BY <1>1 DEF HandleOK, ReapOK
<1>3. SUFFICES ASSUME NEW p \in Pids, proc'[p].st \in {"run", "stop"}, proc'[p].of = h
               PROVE  proc'[p].cut
  BY DEF Cleared, Family, Live
<1>4. Stays(p)
  BY <1>3 DEF Evolves, Goes, Comes, TypeOK
<1>5. Live(p) /\ Present(p) /\ proc[p].of = h
  BY <1>3, <1>4 DEF Stays
<1>6. Identity(p) \in freeze[h].known => ~Live(p)
  BY <1>1, <1>5 DEF Survivors, Same, Identity
<1>7. proc[p].cut
  BY <1>2, <1>5, <1>6 DEF Caught
<1> QED
  BY <1>1, <1>4, <1>5, <1>7 DEF Stays

LEMMA MovesTurn ==
  ASSUME TypeOK, NEW h \in Handles, Moves(h)
  PROVE  /\ Keeps(h) /\ UNCHANGED Registries /\ \A g \in Handles \ {h} : hnd'[g] = hnd[g] /\ freeze'[g] = freeze[g]
         /\ hnd[h].pc \in Pcs /\ hnd'[h].pc \in Pcs \cup {"unproven"}
<1>1. Keeps(h) /\ \A g \in Handles \ {h} : hnd'[g] = hnd[g]
  BY DEF Moves, Refused, Stopped, Looked, Marked, Settled, GoesRound, Killed, Verified, OwnKilled, Joined, Drained,
         Lists, Reads, StartsOver, Undecided, Turns, Keeps
<1>2. UNCHANGED Registries
  BY DEF Moves, Refused, Stopped, Looked, Marked, Settled, GoesRound, Killed, Verified, OwnKilled, Joined, Drained,
         Lists, Reads, StartsOver, Undecided
<1>3. hnd[h].pc \in Pcs /\ hnd'[h].pc \in Pcs \cup {"unproven"}
  BY DEF Moves, Refused, Stopped, Looked, Marked, Settled, GoesRound, Killed, Verified, OwnKilled, Joined, Drained,
         Lists, Reads, StartsOver, Undecided, Turns, Pcs
<1>4. \A g \in Handles \ {h} : freeze'[g] = freeze[g]
  <2>1. freeze' = freeze \/ \E f : freeze' = [freeze EXCEPT ![h] = f]
    BY DEF Moves, Refused, Stopped, Looked, Marked, Settled, GoesRound, Killed, Verified, OwnKilled, Joined, Drained,
         Lists, Reads, StartsOver, Undecided, Finds, Collected
  <2> QED
    BY <2>1 DEF TypeOK
<1> QED
  BY <1>1, <1>2, <1>3, <1>4

\* What the freeze of a moving handle knows.
LEMMA MovesKnow ==
  ASSUME TypeOK, NEW h \in Handles, HandleOK(h), Moves(h)
  PROVE  /\ \A id \in freeze'[h].known \cup freeze'[h].marker :
              id \in freeze[h].known \cup freeze[h].marker \/ id \in {Identity(q) : q \in Pids}
         /\ \A id \in freeze'[h].marker : id \in freeze[h].marker \/ (id \in Ids /\ id.gen <= born /\ Frozen(id.pid))
<1>f. freeze \in [Handles -> FreezeType] /\ freeze[h] \in FreezeType
  BY DEF TypeOK
<1>1. CASE UNCHANGED freeze
  BY <1>1
<1>2. CASE freeze' = [freeze EXCEPT ![h] = NoFreeze]
  <2>1. freeze'[h].known = {} /\ freeze'[h].marker = {}
    BY <1>2, <1>f DEF NoFreeze
  <2> QED
    BY <2>1
<1>3. CASE Looked(h)
  <2>1. InSight(h) \subseteq Pids
    BY DEF InSight, Group, Descendants, Below, Present
  <2>2. /\ freeze'[h].known = freeze[h].known \cup {Identity(q) : q \in InSight(h)}
        /\ freeze'[h].marker = freeze[h].marker
    BY <1>3, SnapshotLooks
  <2> QED
    BY <2>1, <2>2
<1>4. CASE GoesRound(h)
  <2>1. PICK s \in BOOLEAN, m \in SUBSET Survivors(h) :
          /\ freeze' = [freeze EXCEPT ![h] = [freeze[h] EXCEPT !.settled = s, !.marker = m]]
          /\ \A id \in m : Frozen(id.pid)
    BY <1>4 DEF GoesRound, Finds
  <2>2. freeze'[h].known = freeze[h].known /\ freeze'[h].marker = m
    BY <2>1, <1>f DEF FreezeType
  <2>3. \A id \in m : id \in freeze[h].known /\ id \in Ids /\ id.gen <= born
    BY <1>f DEF Survivors, HandleOK, Holds, FreezeType
  <2> QED
    BY <2>1, <2>2, <2>3
<1> QED
  BY <1>1, <1>2, <1>3, <1>4
     DEF Moves, Refused, Stopped, Marked, Settled, Killed, Verified, OwnKilled, Joined, Drained, Lists, Reads, StartsOver, Undecided,
         Finds, Collected

LEMMA MovesAudit ==
  ASSUME TypeOK, Evolves, NEW h \in Handles, HandleOK(h), Moves(h), born' = born
  PROVE  AuditsTheGone(h)'
<1>1. Keeps(h) /\ hnd[h].pc \in Pcs
  BY MovesTurn
<1>2. Used(h) /\ Holds(h) /\ AuditsTheGone(h)
  BY <1>1 DEF Used, Pcs, HandleOK
<1>3. Same(Captured(h))' => Same(Captured(h))
  BY <1>1, <1>2, LeaderBack
<1>4. CASE Refused(h)
  <2>1. Freezing(h) /\ hnd'[h].pc = "join" /\ hnd'[h].audit = hnd[h].audit
    BY <1>4 DEF Refused, Turns, Freezing
  <2>2. ~hnd'[h].audit
    BY <2>1 DEF HandleOK, ReapOK, KnowsLeader
  <2> QED
    BY <2>1, <2>2 DEF AuditsTheGone
<1>5. CASE Stopped(h) \/ Looked(h) \/ Marked(h) \/ Settled(h) \/ GoesRound(h) \/ Killed(h) \/ Undecided(h)
  BY <1>5 DEF Stopped, Looked, Marked, Settled, GoesRound, Killed, Undecided, Turns, AuditsTheGone
<1>6. CASE Verified(h)
  <2>1. Freezing(h) /\ hnd'[h].pc = "drain" /\ hnd'[h].audit = hnd[h].audit
    BY <1>6 DEF Verified, Turns, Freezing
  <2>2. ~hnd'[h].audit
    BY <2>1 DEF HandleOK, ReapOK, KnowsLeader
  <2> QED
    BY <2>1, <2>2 DEF AuditsTheGone
<1>7. CASE OwnKilled(h)
  <2>1. UNCHANGED hnd[h]
    BY <1>7 DEF OwnKilled
  <2> QED
    BY <1>2, <2>1, AuditsLast
<1>8. CASE Joined(h)
  <2>1. /\ hnd[h].pc = "join" /\ ~(Owned(h) /\ Live(hnd[h].pid)) /\ Collected(h) /\ hnd'[h].audit = hnd[h].audit
        /\ \/ ~hnd[h].audit /\ hnd'[h].pc = "unproven"
           \/ hnd[h].audit /\ hnd[h].id /\ hnd'[h].pc = "drain"
           \/ hnd[h].audit /\ ~hnd[h].id /\ hnd'[h].pc = "audit"
    BY <1>8 DEF Joined, Turns
  <2>2. CASE ~hnd[h].audit
    BY <2>1, <2>2 DEF AuditsTheGone
  <2>3. CASE hnd[h].audit /\ ~Same(Captured(h))
    BY <1>3, <2>1, <2>3 DEF AuditsTheGone
  <2>4. CASE hnd[h].audit /\ hnd[h].start /\ ~hnd[h].id
    <3>1. hnd[h].gen = hnd[h].own
      BY <2>4 DEF HandleOK, OwnIdentity
    <3>2. PICK p \in Pids : p = hnd[h].pid
      BY <1>2 DEF Holds
    <3>3. hnd'[h].pid = p /\ hnd'[h].gen = hnd[h].gen
      BY <1>1, <3>2 DEF Keeps
    <3>4. ~Same(Captured(h))'
      <4>1. CASE Owned(h)
        <5>1. proc' = [proc EXCEPT ![p] = Free]
          BY <2>1, <3>2, <4>1 DEF Collected
        <5>2. proc'[p].st = "free"
          BY <5>1 DEF TypeOK, Free
        <5> QED
          BY <3>3, <5>2 DEF Same, Captured, Present
      <4>2. CASE ~Owned(h)
        BY <1>3, <3>1, <4>2 DEF Owned, Same, Captured
      <4> QED
        BY <4>1, <4>2
    <3> QED
      BY <2>1, <2>4, <3>4 DEF AuditsTheGone
  <2> QED
    BY <1>2, <2>1, <2>2, <2>3, <2>4 DEF AuditsTheGone
<1>9. CASE Drained(h)
  <2>1. hnd[h].pc = "drain" /\ hnd[h].audit /\ hnd'[h].pc = "audit" /\ hnd'[h].audit
    BY <1>9 DEF Drained, Turns
  <2> QED
    BY <1>2, <1>3, <2>1 DEF AuditsTheGone
<1>10. CASE Lists(h) \/ StartsOver(h)
  <2>1. hnd[h].pc \in {"audit", "read"} /\ hnd'[h].pc \in {"audit", "read"} /\ hnd'[h].audit = hnd[h].audit
    BY <1>10 DEF Lists, StartsOver, Turns
  <2> QED
    BY <1>2, <1>3, <2>1 DEF AuditsTheGone
<1>11. CASE Reads(h)
  <2>1. UNCHANGED hnd[h]
    BY <1>11 DEF Reads
  <2> QED
    BY <1>2, <2>1, AuditsLast
<1> QED
  BY <1>4, <1>5, <1>6, <1>7, <1>8, <1>9, <1>10, <1>11 DEF Moves

LEMMA MovesReap ==
  ASSUME TypeOK, Families, Evolves, NEW h \in Handles, HandleOK(h), Moves(h), born' = born
  PROVE  ReapOK(h)'
<1>1. Keeps(h)
  BY MovesTurn
<1>2. Holds(h) /\ ReapOK(h) /\ MarkedFrozen(h)
  BY DEF HandleOK
<1>3. ASSUME Freezing(h), hnd'[h].audit = hnd[h].audit, freeze[h].known \subseteq freeze'[h].known
      PROVE  KnowsLeader(h)' /\ LeaderOrCut(h)'
  BY <1>1, <1>3, LeaderKept
<1>4. CASE Refused(h)
  BY <1>4 DEF Refused, Turns, ReapOK, Freezing
<1>5. CASE Stopped(h)
  <2>1. Freezing(h) /\ hnd'[h].audit = hnd[h].audit /\ UNCHANGED freeze /\ hnd'[h].pc = "snapshot"
    BY <1>5 DEF Stopped, Turns, Freezing
  <2>2. GroupHalted(h)'
    BY <1>5, StopHalts
  <2> QED
    BY <1>3, <2>1, <2>2 DEF ReapOK, Freezing
<1>6. CASE Looked(h)
  <2>1. hnd[h].pc = "snapshot" /\ Freezing(h) /\ hnd'[h].audit = hnd[h].audit /\ hnd'[h].pc = "mark"
    BY <1>6 DEF Looked, Turns, Freezing
  <2>2. UnknownApart(h)' /\ freeze[h].known \subseteq freeze'[h].known
    BY <1>6, SnapshotLooks
  <2>3. KnowsLeader(h)' /\ LeaderOrCut(h)'
    BY <1>3, <2>1, <2>2
  <2>4. GroupHalted(h)'
    BY <1>1, <1>2, <2>1, <2>3, GroupHaltedLasts DEF ReapOK
  <2> QED
    BY <2>1, <2>2, <2>3, <2>4 DEF ReapOK, Freezing
<1>7. CASE Marked(h)
  <2>1. hnd[h].pc = "mark" /\ Freezing(h) /\ hnd'[h].audit = hnd[h].audit /\ UNCHANGED freeze /\ hnd'[h].pc = "settle"
    BY <1>7 DEF Marked, Turns, Freezing
  <2>2. KnowsLeader(h) /\ GroupHalted(h) /\ UnknownApart(h)
    BY <1>2, <2>1 DEF ReapOK
  <2>3. KnowsLeader(h)' /\ LeaderOrCut(h)'
    BY <1>3, <2>1
  <2>4. GroupHalted(h)'
    BY <1>1, <1>2, <2>1, <2>2, <2>3, GroupHaltedLasts
  <2>5. UnknownApart(h)'
    BY <1>1, <1>2, <2>1, <2>2, <2>3, ApartLasts
  <2> QED
    BY <2>1, <2>3, <2>4, <2>5 DEF ReapOK, Freezing
<1>8. CASE Settled(h)
  <2>1. Freezing(h) /\ hnd'[h].audit = hnd[h].audit /\ UNCHANGED freeze /\ hnd'[h].pc = "kill"
    BY <1>8 DEF Settled, Turns, Freezing
  <2>2. Caught(h)'
    BY <1>8, SettledCatches
  <2> QED
    BY <1>3, <2>1, <2>2 DEF ReapOK, Freezing
<1>9. CASE GoesRound(h)
  <2>1. Freezing(h) /\ hnd'[h].audit = hnd[h].audit /\ hnd'[h].pc = "stop"
    BY <1>9 DEF GoesRound, Turns, Freezing
  <2>2. PICK s \in BOOLEAN, m \in SUBSET Survivors(h) :
          freeze' = [freeze EXCEPT ![h] = [freeze[h] EXCEPT !.settled = s, !.marker = m]]
    BY <1>9 DEF GoesRound, Finds
  <2>3. freeze'[h].known = freeze[h].known
    BY <2>2 DEF TypeOK, FreezeType
  <2> QED
    BY <1>3, <2>1, <2>3 DEF ReapOK, Freezing
<1>10. CASE Killed(h)
  <2>1. hnd[h].pc = "kill" /\ Freezing(h) /\ hnd'[h].audit = hnd[h].audit /\ UNCHANGED freeze /\ hnd'[h].pc = "verify"
    BY <1>10 DEF Killed, Turns, Freezing
  <2>2. Caught(h)'
    BY <1>2, <2>1, CaughtLasts DEF ReapOK
  <2> QED
    BY <1>3, <2>1, <2>2 DEF ReapOK, Freezing
<1>11. CASE Verified(h)
  <2>1. hnd'[h].pc = "drain"
    BY <1>11 DEF Verified, Turns
  <2>2. Cleared(h)'
    BY <1>11, VerifiedClears
  <2> QED
    BY <2>1, <2>2 DEF ReapOK, Freezing
<1>12. CASE OwnKilled(h) \/ Reads(h)
  <2>1. UNCHANGED <<hnd[h], freeze[h]>>
    BY <1>12 DEF OwnKilled, Reads
  <2> QED
    BY <2>1, ReapLasts
<1>13. CASE Joined(h)
  <2>1. hnd'[h].pc \in {"unproven", "drain", "audit"} /\ (hnd'[h].pc = "drain" => hnd'[h].audit)
    BY <1>13 DEF Joined, Turns
  <2> QED
    BY <2>1 DEF ReapOK, Freezing, Cleared
<1>14. CASE Drained(h) \/ Undecided(h) \/ Lists(h) \/ StartsOver(h)
  <2>1. hnd'[h].pc \in {"unproven", "audit", "read"}
    BY <1>14 DEF Drained, Undecided, Lists, StartsOver, Turns
  <2> QED
    BY <2>1 DEF ReapOK, Freezing
<1> QED
  BY <1>4, <1>5, <1>6, <1>7, <1>8, <1>9, <1>10, <1>11, <1>12, <1>13, <1>14 DEF Moves

LEMMA MoveKeeps ==
  ASSUME ReapInv, TypeOK', NEW h \in Handles, Moves(h), born' = born
  PROVE  Families' /\ Registered' /\ Evolves /\ RegistriesMove /\ \A g \in Handles : HandleOK(g)'
<1>1. TypeOK /\ Families /\ Registered /\ \A g \in Handles : HandleOK(g)
  BY DEF ReapInv
<1>2. /\ Keeps(h) /\ UNCHANGED Registries /\ \A g \in Handles \ {h} : hnd'[g] = hnd[g] /\ freeze'[g] = freeze[g]
      /\ hnd[h].pc \in Pcs /\ hnd'[h].pc \in Pcs \cup {"unproven"}
  BY <1>1, MovesTurn
<1>3. Evolves
  <2>1. Steps(h)
    BY DEF Steps
  <2> QED
    BY <1>1, <2>1, StepsEvolve
<1>4. Families'
  BY <1>1, <1>3, FamiliesLast
<1>5. Registered' /\ RegistriesMove
  BY <1>1, <1>2, <1>3, MovesRegistered
<1>6. ASSUME NEW g \in Handles, g # h
      PROVE  HandleOK(g)'
  <2>1. UNCHANGED <<hnd[g], freeze[g]>> /\ HandleOK(g)
    BY <1>1, <1>2, <1>6
  <2>2. hnd[g].pc = "active" /\ Same(Captured(g)) => Captured(g) \in active'
    BY <1>2, <2>1 DEF HandleOK, Attested, Registries
  <2> QED
    BY <1>1, <1>3, <2>1, <2>2, Rests
<1>7. HandleOK(h)'
  <2>1. HandleOK(h)
    BY <1>1
  <2>2. /\ \A id \in freeze'[h].known \cup freeze'[h].marker :
             id \in freeze[h].known \cup freeze[h].marker \/ id \in {Identity(q) : q \in Pids}
        /\ \A id \in freeze'[h].marker : id \in freeze[h].marker \/ (id \in Ids /\ id.gen <= born /\ Frozen(id.pid))
    BY <1>1, <2>1, MovesKnow
  <2>3. Holds(h)' /\ OwnIdentity(h)' /\ Attested(h)'
    BY <1>1, <1>2, <1>3, <2>1, <2>2, MovesKeep
  <2>4. MarkedFrozen(h)'
    BY <1>1, <1>3, <2>1, <2>2, MarkedLasts DEF HandleOK
  <2>5. AuditsTheGone(h)'
    BY <1>1, <1>3, <2>1, MovesAudit
  <2>6. ReapOK(h)'
    BY <1>1, <1>3, <2>1, MovesReap
  <2> QED
    BY <2>3, <2>4, <2>5, <2>6 DEF HandleOK
<1> QED
  BY <1>3, <1>4, <1>5, <1>6, <1>7

-----------------------------------------------------------------------------
(* The audit of a session.                                                 *)

\* What an audit has read stays true as the processes and the other handles go on.
LEMMA LookLasts ==
  ASSUME TypeOK, Families, Evolves, RegistriesMove, NEW h \in Handles, look'[h] = look[h],
         Listed(h), \A p \in Pids : Seen(h, p) => EntryOK(h, p)
  PROVE  Listed(h)' /\ \A p \in Pids : Seen(h, p)' => EntryOK(h, p)'
<1> DEFINE snap == look[h].snap
           since == look[h].since
<1>f. /\ look[h] \in LookType /\ since \in Nat /\ since <= born /\ born \in Nat /\ born' \in {born, born + 1}
      /\ \A p \in Pids : snap[p] \in ProcType /\ proc[p] \in ProcType
  BY DEF TypeOK, LookType, Listed, Evolves
<1>1. ASSUME NEW p \in Pids, proc'[p].st # "free", NEW gen \in Nat, gen <= born, proc'[p].gen = gen
      PROVE  Present(p) /\ proc[p].gen = gen /\ proc'[p].of = proc[p].of
  <2>1. ~Comes(p)
    BY <1>f, <1>1 DEF Comes
  <2> QED
    BY <1>1, <2>1 DEF Evolves, Goes, Stays
<1>2. ASSUME NEW p \in Pids, proc'[p].st # "free", proc'[p].gen <= since
      PROVE  Present(p) /\ proc[p].gen = proc'[p].gen /\ proc'[p].of = proc[p].of
  <2>1. ~Comes(p)
    BY <1>f, <1>2 DEF Comes
  <2> QED
    BY <1>2, <2>1 DEF Evolves, Goes, Stays
<1>3. Listed(h)'
  <2>1. since <= born'
    BY <1>f
  <2>2. \A p \in Pids : proc'[p].st # "free" /\ proc'[p].gen <= since =>
          p \in look[h].todo \/ (Seen(h, p) /\ snap[p].gen = proc'[p].gen)
    BY <1>2 DEF Listed, Old
  <2> QED
    BY <2>1, <2>2 DEF Listed, Old, Seen, Present
<1>4. ASSUME NEW p \in Pids, snap[p].st # "free"
      PROVE  EntryOK(h, p)'
  <2> DEFINE e == snap[p]
  <2>1. /\ e.gen <= born /\ e.of \in Handles /\ e.gen \in Nat /\ e.up \in Pids \cup {Outer, None}
        /\ Present(p) /\ proc[p].gen = e.gen => proc[p].of = e.of
        /\ [pid |-> p, gen |-> e.gen] \in starting \cup active =>
             hnd[e.of].start /\ Captured(e.of) = [pid |-> p, gen |-> e.gen]
        /\ e.gen <= since /\ e.up \in Pids =>
             /\ Present(e.up) /\ proc[e.up].gen <= since => proc[e.up].of = e.of
             /\ Seen(h, e.up) /\ snap[e.up].gen <= since => snap[e.up].of = e.of
    BY <1>f, <1>4 DEF EntryOK, Seen, Old, ProcType
  <2> HIDE DEF e
  <2>2. e.gen <= born'
    BY <1>f, <2>1
  <2>3. proc'[p].st # "free" /\ proc'[p].gen = e.gen => proc'[p].of = e.of
    BY <1>1, <2>1
  <2>4. ASSUME [pid |-> p, gen |-> e.gen] \in starting' \cup active'
        PROVE  hnd'[e.of].start /\ [pid |-> hnd'[e.of].pid, gen |-> hnd'[e.of].gen] = [pid |-> p, gen |-> e.gen]
    <3>1. PICK g \in Handles : g = e.of
      BY <2>1
    <3>2. PICK id : id = [pid |-> p, gen |-> e.gen]
      OBVIOUS
    <3>3. id.pid = p /\ id.gen = e.gen /\ id \in starting' \cup active'
      BY <2>4, <3>2
    <3>4. hnd'[g].start /\ Captured(g)' = id
      <4>1. CASE id \in starting \cup active
        BY <2>1, <3>1, <3>2, <3>3, <4>1 DEF RegistriesMove
      <4>2. CASE Same(id) /\ \E k \in Handles : k = proc[id.pid].of /\ hnd'[k].start /\ Captured(k)' = id
        <5>1. proc[p].of = g
          BY <2>1, <3>1, <3>3, <4>2 DEF Same
        <5> QED
          BY <3>3, <4>2, <5>1
      <4> QED
        BY <3>3, <4>1, <4>2 DEF RegistriesMove
    <3> QED
      BY <3>1, <3>2, <3>4 DEF Captured
  <2>5. ASSUME e.up \in Pids, e.gen <= since, proc'[e.up].st # "free", proc'[e.up].gen <= since
        PROVE  proc'[e.up].of = e.of
    BY <1>2, <2>1, <2>5
  <2>6. ASSUME e.up \in Pids, e.gen <= since, Seen(h, e.up), snap[e.up].gen <= since
        PROVE  snap[e.up].of = e.of
    BY <2>1, <2>6
  <2> QED
    BY <2>1, <2>2, <2>3, <2>4, <2>5, <2>6 DEF EntryOK, Seen, Old, Present, Captured, e
<1> QED
  BY <1>3, <1>4 DEF Seen

LEMMA ListLooks ==
  ASSUME TypeOK, NEW h \in Handles, Lists(h), born' = born
  PROVE  LookOK(h)'
<1> DEFINE T == {p \in Pids : Present(p)}
<1>1. UNCHANGED proc /\ look' = [look EXCEPT ![h] = [NoLook EXCEPT !.todo = T, !.since = born]]
  BY DEF Lists
<1>2. look'[h].todo = T /\ look'[h].since = born /\ \A p \in Pids : look'[h].snap[p].st = "free"
  <2> DEFINE r == [NoLook EXCEPT !.todo = T, !.since = born]
  <2>1. r.todo = T /\ r.since = born /\ r.snap = [p \in Pids |-> Free]
    BY DEF NoLook
  <2>2. look'[h] = r
    BY <1>1 DEF TypeOK
  <2> HIDE DEF r
  <2> QED
    BY <2>1, <2>2 DEF Free
<1>3. Listed(h)'
  BY <1>1, <1>2 DEF Listed, Seen, Old, Present, TypeOK
<1> QED
  BY <1>2, <1>3 DEF LookOK, Seen

\* An entry that is read agrees with those that were read before.
LEMMA ReadLooks ==
  ASSUME ReapInv, NEW h \in Handles, Reads(h), born' = born
  PROVE  LookOK(h)'
<1>1. TypeOK /\ Families /\ Registered /\ hnd[h].pc = "read" /\ UNCHANGED <<hnd, proc, starting, active, born>>
  BY DEF ReapInv, Reads, Registries
<1>2. Listed(h) /\ \A p \in Pids : Seen(h, p) => EntryOK(h, p)
  BY <1>1 DEF ReapInv, LookOK
<1>3. PICK p \in look[h].todo : look' = [look EXCEPT ![h].todo = @ \ {p}, ![h].snap[p] = Entry(p)]
  BY DEF Reads
<1>4. look[h] \in LookType /\ look \in [Handles -> LookType] /\ p \in Pids
  BY <1>1, <1>3 DEF TypeOK, LookType
<1> DEFINE snap == look[h].snap
           since == look[h].since
           new == look'[h].snap
<1>5. look'[h].todo = look[h].todo \ {p} /\ look'[h].since = since /\ new = [snap EXCEPT ![p] = Entry(p)]
  <2> DEFINE r == [look[h] EXCEPT !.todo = @ \ {p}, !.snap = [snap EXCEPT ![p] = Entry(p)]]
  <2>1. look' = [look EXCEPT ![h] = r]
    BY <1>3, <1>4
  <2>2. r.todo = look[h].todo \ {p} /\ r.since = since /\ r.snap = [snap EXCEPT ![p] = Entry(p)]
    BY <1>4 DEF LookType
  <2>3. look'[h] = r
    BY <1>4, <2>1
  <2> HIDE DEF r
  <2> QED
    BY <2>2, <2>3
<1>6. /\ snap \in [Pids -> ProcType] /\ since \in Nat /\ born \in Nat /\ since <= born /\ proc \in [Pids -> ProcType]
  BY <1>1, <1>2, <1>4 DEF LookType, TypeOK, Listed
<1>7. /\ new[p] = Entry(p) /\ \A q \in Pids \ {p} : new[q] = snap[q]
      /\ ~Seen(h, p)
  BY <1>2, <1>3, <1>4, <1>5, <1>6 DEF Listed
<1>8. /\ Present(p) => /\ new[p].st = "run" /\ new[p].gen = proc[p].gen /\ new[p].of = proc[p].of
                       /\ new[p].up = proc[p].up
      /\ ~Present(p) => new[p].st = "free"
  BY <1>4, <1>6, <1>7 DEF Entry, Free, ProcType
<1> HIDE DEF new
<1>9. Listed(h)'
  <2>1. \A q \in look[h].todo \ {p} : new[q].st = "free"
    BY <1>2, <1>4, <1>7 DEF Listed, Seen, LookType
  <2>2. \A q \in Pids : Present(q) /\ proc[q].gen <= since =>
          q \in look[h].todo \ {p} \/ (new[q].st # "free" /\ new[q].gen = proc[q].gen)
    BY <1>2, <1>7, <1>8 DEF Listed, Seen, Old
  <2> QED
    BY <1>1, <1>2, <1>5, <2>1, <2>2 DEF Listed, Seen, Old, Present, new
<1>10. ASSUME NEW q \in Pids, new[q].st # "free"
       PROVE  /\ new[q].gen <= born /\ new[q].of \in Handles
              /\ Present(q) /\ proc[q].gen = new[q].gen => proc[q].of = new[q].of
              /\ [pid |-> q, gen |-> new[q].gen] \in starting \cup active =>
                   hnd[new[q].of].start /\ Captured(new[q].of) = [pid |-> q, gen |-> new[q].gen]
              /\ new[q].gen <= since /\ new[q].up \in Pids =>
                   /\ Present(new[q].up) /\ proc[new[q].up].gen <= since => proc[new[q].up].of = new[q].of
                   /\ new[new[q].up].st # "free" /\ new[new[q].up].gen <= since => new[new[q].up].of = new[q].of
  <2>1. CASE q # p
    <3>1. new[q] = snap[q] /\ EntryOK(h, q)
      BY <1>2, <1>7, <1>10, <2>1 DEF Seen
    <3>2. /\ snap[q].gen <= born /\ snap[q].of \in Handles
          /\ Present(q) /\ proc[q].gen = snap[q].gen => proc[q].of = snap[q].of
          /\ [pid |-> q, gen |-> snap[q].gen] \in starting \cup active =>
               hnd[snap[q].of].start /\ Captured(snap[q].of) = [pid |-> q, gen |-> snap[q].gen]
          /\ snap[q].gen <= since /\ snap[q].up \in Pids =>
               /\ Present(snap[q].up) /\ proc[snap[q].up].gen <= since => proc[snap[q].up].of = snap[q].of
               /\ snap[snap[q].up].st # "free" /\ snap[snap[q].up].gen <= since => snap[snap[q].up].of = snap[q].of
      BY <3>1 DEF EntryOK, Seen, Old
    <3>3. ASSUME snap[q].gen <= since, NEW a \in Pids, a = snap[q].up, new[a].st # "free", new[a].gen <= since
          PROVE  new[a].of = snap[q].of
      <4>1. CASE a = p
        BY <1>8, <3>2, <3>3, <4>1
      <4>2. CASE a # p
        BY <1>7, <3>2, <3>3, <4>2
      <4> QED
        BY <4>1, <4>2
    <3> QED
      BY <3>1, <3>2, <3>3
  <2>2. CASE q = p
    <3>1. Present(p) /\ new[p].gen = proc[p].gen /\ new[p].of = proc[p].of /\ new[p].up = proc[p].up
      BY <1>8, <1>10, <2>2
    <3>2. /\ proc[p].gen <= born /\ proc[p].of \in Handles /\ proc[p].up # p
          /\ proc[p].up \in Pids => /\ Live(proc[p].up) /\ proc[proc[p].up].of = proc[p].of
                                    /\ proc[proc[p].up].gen < proc[p].gen
      BY <1>1, <1>4, <3>1 DEF Families
    <3>3. [pid |-> p, gen |-> proc[p].gen] \in starting \cup active =>
            hnd[proc[p].of].start /\ Captured(proc[p].of) = [pid |-> p, gen |-> proc[p].gen]
      BY <1>1, <3>1 DEF Registered, Same
    <3>4. ASSUME proc[p].gen <= since, NEW a \in Pids, a = proc[p].up, new[a].st # "free"
          PROVE  new[a].of = proc[p].of
      <4>1. a # p /\ Present(a) /\ proc[a].of = proc[p].of /\ proc[a].gen < proc[p].gen
        BY <3>2, <3>4 DEF Live, Present
      <4>2. proc[a].gen <= since
        <5>1. proc[a].gen \in Nat /\ proc[p].gen \in Nat
          BY <1>4, <1>6 DEF ProcType
        <5> QED
          BY <1>6, <3>4, <4>1, <5>1
      <4>3. new[a] = snap[a] /\ Seen(h, a)
        BY <1>7, <3>4, <4>1 DEF Seen
      <4>4. snap[a].gen = proc[a].gen
        BY <1>2, <4>1, <4>2, <4>3 DEF Listed, Old
      <4> QED
        BY <1>2, <4>1, <4>3, <4>4 DEF EntryOK
    <3> QED
      BY <2>2, <3>1, <3>2, <3>3, <3>4
  <2> QED
    BY <2>1, <2>2
<1>11. ASSUME NEW q \in Pids, Seen(h, q)'
       PROVE  EntryOK(h, q)'
  <2>1. new[q].st # "free"
    BY <1>11 DEF Seen, new
  <2> QED
    BY <1>1, <1>5, <1>10, <2>1 DEF EntryOK, Seen, Old, Present, Captured, new
<1> QED
  BY <1>9, <1>11 DEF LookOK

\* Whom the audit passes over, and does not miss, is of another handle's family.
LEMMA KnownAreOthers ==
  ASSUME TypeOK, NEW h \in Handles, Listed(h), \A p \in Pids : Seen(h, p) => EntryOK(h, p),
         NEW p \in Known(h), p \in Pids, Seen(h, p), Old(h, look[h].snap[p].gen), p \notin Missed(h)
  PROVE  look[h].snap[p].of # h
<1> DEFINE snap == look[h].snap
<1>f. /\ starting \subseteq Ids /\ active \subseteq Ids /\ snap \in [Pids -> ProcType] /\ look[h].since \in Nat
      /\ \A q \in Pids : snap[q].gen \in Nat
  BY DEF TypeOK, LookType, ProcType
<1>1. ASSUME NEW id \in starting \cup active, Seen(h, id.pid), snap[id.pid].gen = id.gen, id # Captured(h)
      PROVE  id.pid \in Pids /\ snap[id.pid].of # h
  <2>1. id.pid \in Pids /\ id = [pid |-> id.pid, gen |-> id.gen]
    BY <1>f DEF Ids
  <2>2. Captured(snap[id.pid].of) = id
    BY <1>1, <2>1 DEF EntryOK
  <2> QED
    BY <1>1, <2>1, <2>2
<1>2. \/ \E id \in starting \cup active : Seen(h, id.pid) /\ snap[id.pid].gen = id.gen /\ id # Captured(h) /\ p = id.pid
      \/ \E id \in active : Seen(h, id.pid) /\ snap[id.pid].gen = id.gen /\ id # Captured(h) /\ p \in Below(snap, id.pid)
  BY DEF Known, Others
<1>3. CASE \E id \in starting \cup active : Seen(h, id.pid) /\ snap[id.pid].gen = id.gen /\ id # Captured(h) /\ p = id.pid
  BY <1>1, <1>3
<1>4. CASE \E id \in active : Seen(h, id.pid) /\ snap[id.pid].gen = id.gen /\ id # Captured(h) /\ p \in Below(snap, id.pid)
  <2>1. PICK l \in Pids : Seen(h, l) /\ snap[l].of # h /\ p \in Below(snap, l)
    BY <1>1, <1>4
  <2> DEFINE Young == {q \in Pids : snap[q].gen > look[h].since}
             S == {q \in Pids : \/ q \in Young
                                \/ Seen(h, q) /\ snap[q].of # h
                                \/ \E y \in Young : q \in Below(snap, y)}
  <2>2. ASSUME NEW q \in Pids, snap[q].st # "free", snap[q].up \in S \cup {l}
        PROVE  q \in S
    <3>1. PICK a \in Pids : a = snap[q].up
      BY <2>2
    <3>2. CASE \E y \in Young : a \in Below(snap, y)
      <4>1. PICK y \in Young : a \in Below(snap, y)
        BY <3>2
      <4>2. q \in Below(snap, y)
        BY <2>2, <3>1, <4>1, BelowIsClosed
      <4> QED
        BY <4>1, <4>2
    <3>3. CASE a \in Young
      <4>1. q \in Below(snap, a)
        BY <2>2, <3>1, BelowIsClosed
      <4> QED
        BY <3>3, <4>1
    <3>4. CASE Seen(h, a) /\ snap[a].of # h /\ a \notin Young
      <4>1. CASE q \in Young
        BY <4>1
      <4>2. CASE q \notin Young
        <5>1. Old(h, snap[q].gen) /\ Old(h, snap[a].gen)
          BY <1>f, <3>4, <4>2 DEF Old
        <5>2. Seen(h, q) /\ EntryOK(h, q)
          BY <2>2 DEF Seen
        <5>3. snap[a].of = snap[q].of
          BY <3>1, <3>4, <5>1, <5>2 DEF EntryOK
        <5> QED
          BY <3>4, <5>2, <5>3
      <4> QED
        BY <4>1, <4>2
    <3> QED
      BY <2>1, <2>2, <3>1, <3>2, <3>3, <3>4
  <2>3. S \in SUBSET Pids
    OBVIOUS
  <2>4. p \in S
    <3> HIDE DEF S
    <3> QED
      BY <2>1, <2>2, <2>3 DEF Below
  <2>5. p \notin Young
    BY <1>f DEF Old
  <2>6. \A y \in Young : p \notin Below(snap, y)
    BY DEF Missed
  <2> QED
    BY <2>4, <2>5, <2>6
<1> QED
  BY <1>2, <1>3, <1>4

\* When everybody who was read is known, the audit has missed whoever is left.
LEMMA UnmissedAreKnown ==
  ASSUME TypeOK, NEW h \in Handles, hnd[h].pc = "read", LookOK(h), look[h].todo = {},
         \A p \in Pids : Seen(h, p) => p \in Known(h),
         NEW p \in Pids, Present(p), proc[p].of = h
  PROVE  p \in Missed(h)
<1>1. Listed(h) /\ \A q \in Pids : Seen(h, q) => EntryOK(h, q)
  BY DEF LookOK
<1>2. SUFFICES ASSUME p \notin Missed(h)
               PROVE  FALSE
  OBVIOUS
<1>3. Old(h, proc[p].gen)
  BY <1>2 DEF Missed, Old, TypeOK, ProcType, LookType
<1>4. Seen(h, p) /\ look[h].snap[p].gen = proc[p].gen
  BY <1>1, <1>3 DEF Listed
<1>5. look[h].snap[p].of = h
  BY <1>1, <1>4 DEF EntryOK
<1> QED
  BY <1>1, <1>2, <1>3, <1>4, <1>5, KnownAreOthers

LEMMA CloseKeeps ==
  ASSUME ReapInv, NEW h \in Handles, DrainCloses(h) \/ AuditCloses(h), born' = born
  PROVE  Families' /\ Registered' /\ Evolves /\ RegistriesMove /\ \A g \in Handles : HandleOK(g)'
<1>1. TypeOK /\ Families /\ Registered /\ (\A g \in Handles : HandleOK(g)) /\ HandleOK(h)
  BY DEF ReapInv
<1>2. /\ hnd[h].pc \in {"drain", "read"} /\ UNCHANGED freeze
      /\ starting' = starting \ {Captured(h)} /\ active' = active \ {Captured(h)}
      /\ \A g \in Handles \ {h} : hnd'[g] = hnd[g]
      /\ hnd'[h].pc = "proven" /\ ~hnd'[h].start /\ hnd'[h].gen = 0 /\ hnd'[h].own = 0 /\ ~hnd'[h].id
      /\ hnd'[h].audit = hnd[h].audit
  BY DEF DrainCloses, AuditCloses, Closes
<1>3. Evolves
  <2>1. Steps(h)
    BY DEF Steps
  <2> QED
    BY <1>1, <2>1, StepsEvolve
<1>4. Families'
  BY <1>1, <1>3, FamiliesLast
<1>5. Registered'
  <2>1. \A g \in Handles : hnd[g].start =>
          (hnd'[g].start /\ Captured(g)' = Captured(g)) \/ Captured(g) \notin starting' \cup active'
    BY <1>2 DEF Captured
  <2>2. starting' \cup active' \subseteq starting \cup active
    BY <1>2
  <2> QED
    BY <1>1, <1>3, <2>1, <2>2, RegisteredLasts
<1>8. RegistriesMove
  BY <1>2 DEF RegistriesMove, Captured
<1>6. ASSUME NEW g \in Handles, g # h
      PROVE  HandleOK(g)'
  <2>1. UNCHANGED <<hnd[g], freeze[g]>> /\ HandleOK(g)
    BY <1>1, <1>2, <1>6
  <2>2. ASSUME hnd[g].pc = "active", Same(Captured(g))
        PROVE  Captured(g) \in active'
    <3>1. Captured(g) \in active /\ proc[hnd[g].pid].grp = hnd[g].pid
      BY <2>1, <2>2 DEF HandleOK, Attested
    <3>2. hnd[g].pid \in Pids /\ Present(hnd[g].pid)
      BY <2>1, <2>2 DEF HandleOK, Holds, Used, Same, Captured
    <3>3. ASSUME Captured(g) = Captured(h)
          PROVE  FALSE
      <4>1. hnd[g].pid = hnd[h].pid
        BY <3>3 DEF Captured
      <4>2. CASE DrainCloses(h)
        BY <3>1, <3>2, <4>1, <4>2 DEF DrainCloses, Group
      <4>3. CASE AuditCloses(h)
        BY <1>1, <2>2, <3>3, <4>3 DEF AuditCloses, HandleOK, AuditsTheGone
      <4> QED
        BY <4>2, <4>3
    <3> QED
      BY <1>2, <3>1, <3>3
  <2> QED
    BY <1>1, <1>3, <2>1, <2>2, Rests
<1>7. HandleOK(h)'
  <2>1. \A id \in freeze[h].known \cup freeze[h].marker : id.gen <= born
    BY <1>1 DEF HandleOK, Holds
  <2>2. Holds(h)'
    BY <1>1, <1>2, <2>1 DEF Holds, Used, TypeOK
  <2>3. OwnIdentity(h)'
    BY <1>2 DEF OwnIdentity, Used
  <2>4. MarkedFrozen(h)'
    BY <1>1, <1>2, <1>3, MarkedLasts DEF HandleOK
  <2>5. Attested(h)' /\ AuditsTheGone(h)'
    BY <1>2 DEF Attested, AuditsTheGone
  <2>6. CASE DrainCloses(h)
    <3>1. hnd[h].pc = "drain" /\ ~hnd[h].audit
      BY <2>6 DEF DrainCloses
    <3>2. Cleared(h)'
      BY <1>1, <1>2, <1>3, <3>1, ClearedLasts DEF HandleOK, ReapOK
    <3> QED
      BY <1>2, <2>2, <2>3, <2>4, <2>5, <3>1, <3>2 DEF HandleOK, ReapOK, Freezing
  <2>7. CASE AuditCloses(h)
    <3>1. hnd[h].pc = "read" /\ hnd[h].audit /\ LookOK(h)
      BY <1>1, <2>7 DEF AuditCloses, HandleOK, AuditsTheGone, ReapInv
    <3>2. \A p \in Pids : Present(p) /\ proc[p].of = h => p \in Missed(h)
      BY <1>1, <2>7, <3>1, UnmissedAreKnown DEF AuditCloses
    <3>i. PICK S : S = Missed(h)
      OBVIOUS
    <3>j. proc' = [p \in Pids |-> IF proc[p].of = h THEN [proc[p] EXCEPT !.cut = p \in S] ELSE proc[p]]
      BY <2>7, <3>i DEF AuditCloses
    <3>k. \A p \in Pids : /\ proc'[p].st = proc[p].st /\ proc'[p].gen = proc[p].gen /\ proc'[p].of = proc[p].of
                          /\ proc[p].of = h => (proc'[p].cut <=> p \in S)
      BY <1>1, <3>1, <3>j, JudgedEvolves
    <3>3. NobodyLeft(h)'
      <4>1. SUFFICES ASSUME NEW p \in Pids, proc'[p].st # "free", proc'[p].of = h
                     PROVE  proc'[p].cut
        BY DEF NobodyLeft, Present
      <4>2. p \in S
        BY <3>2, <3>i, <3>k, <4>1 DEF Present
      <4> QED
        BY <3>k, <4>1, <4>2
    <3>4. Cleared(h)'
      BY <1>2, <3>1 DEF Cleared
    <3> QED
      BY <1>2, <2>2, <2>3, <2>4, <2>5, <3>3, <3>4 DEF HandleOK, ReapOK, Freezing
  <2> QED
    BY <2>6, <2>7
<1> QED
  BY <1>3, <1>4, <1>5, <1>6, <1>7, <1>8

-----------------------------------------------------------------------------
(* The invariant is kept.                                                  *)

LEMMA InvAtFirst == Init => ReapInv
<1> SUFFICES ASSUME Init
             PROVE  ReapInv
  OBVIOUS
<1>1. NewHandle \in HandleType /\ NoFreeze \in FreezeType /\ Free \in ProcType
  BY DEF NewHandle, HandleType, HandlePcs, NoFreeze, FreezeType, Free, ProcType
<1>7. NoLook \in LookType
  BY <1>1 DEF NoLook, LookType
<1>2. TypeOK
  BY <1>1, <1>7 DEF Init, TypeOK
<1>3. \A p \in Pids : proc[p].st = "free" /\ proc[p].gen = 0
  BY DEF Init, Free
<1>4. Families
  BY <1>3 DEF Init, Families, Present
<1>5. Registered
  BY DEF Init, Registered
<1>6. ASSUME NEW h \in Handles
      PROVE  HandleOK(h)
  <2>1. hnd[h].pc = "new" /\ hnd[h].gen = 0 /\ hnd[h].own = 0 /\ ~hnd[h].start /\ ~hnd[h].id
    BY DEF Init, NewHandle
  <2>2. freeze[h].known = {} /\ freeze[h].marker = {}
    BY DEF Init, NoFreeze
  <2>3. born = 0
    BY DEF Init
  <2>4. Holds(h) /\ OwnIdentity(h)
    BY <2>1, <2>2, <2>3 DEF Holds, OwnIdentity, Used
  <2>5. Attested(h) /\ AuditsTheGone(h) /\ MarkedFrozen(h)
    BY <2>1, <2>2 DEF Attested, AuditsTheGone, MarkedFrozen
  <2>6. ReapOK(h)
    BY <2>1 DEF ReapOK, Freezing
  <2> QED
    BY <2>4, <2>5, <2>6 DEF HandleOK
<1>8. \A h \in Handles : LookOK(h)
  BY DEF Init, NewHandle, LookOK
<1> QED
  BY <1>2, <1>4, <1>5, <1>6, <1>8 DEF ReapInv

\* A step of a process, or none, moves no handle.
LEMMA QuietKeeps ==
  ASSUME ReapInv, Evolves, UNCHANGED <<hnd, freeze, look, starting, active>>
  PROVE  Families' /\ Registered' /\ RegistriesMove /\ \A g \in Handles : HandleOK(g)'
<1>1. TypeOK /\ Families /\ Registered /\ \A g \in Handles : HandleOK(g)
  BY DEF ReapInv
<1>2. Families' /\ Registered'
  BY <1>1, FamiliesLast, SameRegistries
<1>3. ASSUME NEW g \in Handles
      PROVE  HandleOK(g)'
  <2>1. hnd[g].pc = "active" /\ Same(Captured(g)) => Captured(g) \in active'
    BY <1>1 DEF HandleOK, Attested
  <2> QED
    BY <1>1, <2>1, Rests
<1>4. RegistriesMove
  BY DEF RegistriesMove, Captured
<1> QED
  BY <1>2, <1>3, <1>4

\* An audit that goes on, and reads nothing in this step.
LEMMA LookRests ==
  ASSUME ReapInv, Evolves, RegistriesMove, NEW h \in Handles,
         hnd'[h].pc = "read" => hnd[h].pc = "read" /\ look'[h] = look[h]
  PROVE  LookOK(h)'
<1>1. TypeOK /\ Families /\ LookOK(h)
  BY DEF ReapInv
<1>2. SUFFICES ASSUME hnd'[h].pc = "read"
               PROVE  Listed(h)' /\ \A p \in Pids : Seen(h, p)' => EntryOK(h, p)'
  BY DEF LookOK
<1>3. look'[h] = look[h] /\ Listed(h) /\ \A p \in Pids : Seen(h, p) => EntryOK(h, p)
  BY <1>1, <1>2 DEF LookOK
<1> QED
  BY <1>1, <1>3, LookLasts

\* Only two steps end in a reading of /proc.
LEMMA OnlyReads ==
  ASSUME NEW h \in Handles, Steps(h), hnd'[h].pc = "read"
  PROVE  Lists(h) \/ Reads(h)
BY DEF Steps, Moves, Refused, Stopped, Looked, Marked, Settled, GoesRound, Killed, Verified, OwnKilled, Joined, Drained,
       StartsOver, Undecided, DrainCloses, AuditCloses, Turns, Closes

LEMMA InvKept == ReapInv /\ [Next]_vars => ReapInv'
<1> SUFFICES ASSUME ReapInv, [Next]_vars
             PROVE  ReapInv'
  OBVIOUS
<1>1. TypeOK /\ Families /\ Registered /\ \A g \in Handles : HandleOK(g) /\ Holds(g)
  BY DEF ReapInv, HandleOK
<1>2. ASSUME TypeOK', Families' /\ Registered' /\ (\A g \in Handles : HandleOK(g)'), \A g \in Handles : LookOK(g)'
      PROVE  ReapInv'
  BY <1>2 DEF ReapInv
<1>q. ASSUME TypeOK', Evolves, UNCHANGED <<hnd, freeze, look, starting, active>>
      PROVE  ReapInv'
  <2>1. Families' /\ Registered' /\ RegistriesMove /\ \A g \in Handles : HandleOK(g)'
    BY <1>q, QuietKeeps
  <2>2. \A g \in Handles : LookOK(g)'
    BY <1>q, <2>1, LookRests
  <2> QED
    BY <1>2, <1>q, <2>1, <2>2
<1>3. CASE UNCHANGED vars
  <2>1. UNCHANGED <<proc, hnd, freeze, look, starting, active, born, misses>>
    BY <1>3 DEF vars
  <2>2. TypeOK'
    BY <1>1, <2>1 DEF TypeOK
  <2>3. Evolves
    BY <1>1, <2>1, IdleEvolves
  <2> QED
    BY <1>q, <2>1, <2>2, <2>3
<1>4. ASSUME NEW p \in Pids, Process(p)
      PROVE  ReapInv'
  <2>1. TypeOK'
    BY <1>1, <1>4, ProcessTypes
  <2>2. Evolves /\ UNCHANGED <<hnd, freeze, look, starting, active>>
    BY <1>1, <1>4, ProcessEvolves
  <2> QED
    BY <1>q, <2>1, <2>2
<1>5. ASSUME NEW h \in Handles, Constructor(h)
      PROVE  ReapInv'
  <2>1. TypeOK'
    BY <1>1, <1>5, ConstructorTypes
  <2>2. ASSUME Start(h) \/ Register(h) \/ Promote(h)
        PROVE  ReapInv'
    <3>1. Families' /\ Registered' /\ Evolves /\ RegistriesMove /\ \A g \in Handles : HandleOK(g)'
      BY <2>2, StartKeeps, RegisterKeeps, PromoteKeeps
    <3>2. UNCHANGED look
      BY <2>2 DEF Start, Register, Promote
    <3>i. \/ \E p, own : hnd' = [hnd EXCEPT ![h].pc = "spawned", ![h].pid = p, ![h].own = own]
          \/ \E gen : hnd' = [hnd EXCEPT ![h].pc = "starting", ![h].start = TRUE, ![h].gen = gen]
          \/ hnd' = [hnd EXCEPT ![h].pc = "active", ![h].id = TRUE, ![h].acked = TRUE]
      BY <2>2 DEF Start, Register, Promote
    <3>j. \A g \in Handles : hnd'[g].pc = "read" => hnd[g].pc = "read"
      <4>1. hnd \in [Handles -> HandleType] /\ hnd[h] \in HandleType
        BY <1>1 DEF TypeOK
      <4>2. CASE \E p, own : hnd' = [hnd EXCEPT ![h].pc = "spawned", ![h].pid = p, ![h].own = own]
        BY <4>1, <4>2 DEF HandleType
      <4>3. CASE \E gen : hnd' = [hnd EXCEPT ![h].pc = "starting", ![h].start = TRUE, ![h].gen = gen]
        BY <4>1, <4>3 DEF HandleType
      <4>4. CASE hnd' = [hnd EXCEPT ![h].pc = "active", ![h].id = TRUE, ![h].acked = TRUE]
        BY <4>1, <4>4 DEF HandleType
      <4> QED
        BY <3>i, <4>2, <4>3, <4>4
    <3>3. \A g \in Handles : LookOK(g)'
      BY <3>1, <3>2, <3>j, LookRests
    <3> QED
      BY <1>2, <2>1, <3>1, <3>3
  <2>3. CASE EnterGroup(h)
    <3>1. Evolves /\ UNCHANGED <<hnd, freeze, look, starting, active>>
      BY <1>1, <2>3, EnterGroupEvolves
    <3> QED
      BY <1>q, <2>1, <3>1
  <2> QED
    BY <1>5, <2>2, <2>3 DEF Constructor
<1>6. ASSUME NEW h \in Handles, Shutdown(h)
      PROVE  ReapInv'
  <2>1. CASE Enter(h)
    <3>1. /\ TypeOK' /\ UNCHANGED look /\ hnd'[h].pc \in {"stop", "join"}
          /\ \A g \in Handles \ {h} : hnd'[g] = hnd[g]
      BY <1>1, <2>1, Enters
    <3>2. Families' /\ Registered' /\ Evolves /\ RegistriesMove /\ \A g \in Handles : HandleOK(g)'
      BY <2>1, EnterKeeps
    <3>3. \A g \in Handles : hnd'[g].pc = "read" => hnd[g].pc = "read" /\ look'[g] = look[g]
      BY <3>1
    <3>4. \A g \in Handles : LookOK(g)'
      BY <3>2, <3>3, LookRests
    <3> QED
      BY <1>2, <3>1, <3>2, <3>4
  <2>2. CASE ShutdownStep(h)
    <3>1. /\ Steps(h) /\ born' = born /\ misses' \in Nat
          /\ look' \in [Handles -> LookType] /\ \A g \in Handles \ {h} : look'[g] = look[g]
      BY <1>1, <2>2, ShutdownSteps, StepLooks
    <3>2. TypeOK'
      BY <1>1, <3>1, StepTypes
    <3>3. Families' /\ Registered' /\ Evolves /\ RegistriesMove /\ \A g \in Handles : HandleOK(g)'
      <4>1. CASE Moves(h)
        BY <3>1, <3>2, <4>1, MoveKeeps
      <4>2. CASE DrainCloses(h) \/ AuditCloses(h)
        BY <3>1, <4>2, CloseKeeps
      <4> QED
        BY <3>1, <4>1, <4>2 DEF Steps
    <3>4. ASSUME NEW g \in Handles, g # h
          PROVE  LookOK(g)'
      <4>1. hnd'[g] = hnd[g]
        <5>1. CASE Moves(h)
          BY <1>1, <3>4, <5>1, MovesTurn
        <5>2. CASE DrainCloses(h) \/ AuditCloses(h)
          BY <3>4, <5>2 DEF DrainCloses, AuditCloses, Closes
        <5> QED
          BY <3>1, <5>1, <5>2 DEF Steps
      <4> QED
        BY <3>1, <3>3, <3>4, <4>1, LookRests
    <3>5. LookOK(h)'
      <4>1. CASE hnd'[h].pc # "read"
        BY <4>1 DEF LookOK
      <4>2. CASE hnd'[h].pc = "read"
        BY <1>1, <3>1, <4>2, OnlyReads, ListLooks, ReadLooks
      <4> QED
        BY <4>1, <4>2
    <3> QED
      BY <1>2, <3>2, <3>3, <3>4, <3>5
  <2> QED
    BY <1>6, <2>1, <2>2 DEF Shutdown, ShutdownStep
<1> QED
  BY <1>3, <1>4, <1>5, <1>6 DEF Next

-----------------------------------------------------------------------------
(* What the specification guarantees.                                      *)

\* The invariant of the process table, the registries and every shutdown
\* (PersistentWorker.shutdown and the worker identities of subprocess_pool.py), for any
\* number of children, of process numbers and of processes that they fork.
THEOREM ReapIsKept == Spec => []ReapInv
<1>1. ReapInv /\ [Next]_vars => ReapInv'
  BY InvKept
<1> QED
  BY InvAtFirst, <1>1, PTL DEF Spec

\* Every variable keeps its type: no PID, generation or point of a shutdown is one that
\* the handles, the registries and the freezes of the pool do not know.
THEOREM ReapTypes == Spec => []TypeOK
<1>1. ReapInv => TypeOK
  BY DEF ReapInv
<1> QED
  BY ReapIsKept, <1>1, PTL

\* A shutdown that froze the tree and succeeded has left nothing alive of the child's
\* process group, nor of what had an ancestry to it when two passes of
\* _freeze_worker_process_tree agreed.
THEOREM ReapLeavesNobodyInSight == Spec => []ReapIsComplete
<1>1. ReapInv => ReapIsComplete
  BY DEF ReapInv, HandleOK, ReapOK, Cleared, ReapIsComplete, Pc
<1> QED
  BY ReapIsKept, <1>1, PTL

\* A shutdown that found its leader gone and passed the audit of the session
\* (_worker_session_is_contained_after_leader_exit) has left nobody of its family but whom
\* the reading of /proc missed: one forked since it was listed, or one read under a PID that
\* was given out again since.
THEOREM AuditLeavesNobody == Spec => []CrashedLeavesNobody
<1>1. ReapInv => CrashedLeavesNobody
  BY DEF ReapInv, HandleOK, ReapOK, NobodyLeft, CrashedLeavesNobody, Family, Live, Present, Pc
<1> QED
  BY ReapIsKept, <1>1, PTL

\* The identity of a child in service stays registered (_register_worker_identity,
\* _unregister_worker_identity), whoever had its PID before and whenever that shutdown ends.
THEOREM ServiceStaysRegistered == Spec => []ServingIsRegistered
<1>1. ReapInv => ServingIsRegistered
  BY DEF ReapInv, HandleOK, Attested, ServingIsRegistered, Pc
<1> QED
  BY ReapIsKept, <1>1, PTL
=============================================================================
