----------------------- MODULE QuarantineLatch_proofs -----------------------
(***************************************************************************)
(* The invariants of QuarantineLatch, for the readers with a device, for   *)
(* any number of workers, agents, generations, attempts and faults.        *)
(*                                                                         *)
(* A generation has one scope and, as a latch of a worker, one worker id.  *)
(* The lock of the device makes its holder the only one with a record that *)
(* it may still write; what every other agent has in its hands is compared *)
(* with the files first.                                                   *)
(***************************************************************************)
EXTENDS QuarantineLatch, TLAPS

Locs == [pc : Points, rec : Records \cup {None}, ok : BOOLEAN]
Clearings == [pc : {"idle", "keys"}, w : Workers \cup {Nobody}, gone : SUBSET Events, keys : SUBSET Workers]

\* The points at which an agent has the lock, and those at which it has a record.
Writing == {"writeDev", "writeWrk", "hydrateDev", "hydrateWrk"}
Holding == Writing \cup {"send", "finish", "markDev", "markWrk"}
InHand == {"notice", "mark"} \cup Holding

Owners ==
  /\ \A a \in Agents : loc[a].pc \in Holding => lock = a
  /\ clear.pc = "keys" => lock = Operator
  /\ \A a \in Agents : loc[a].pc \in InHand => Present(loc[a].rec)
  /\ \A a \in Agents : loc[a].pc \notin {"redis", "blind"}

\* S and O are the scope and the owner of each generation.
Good(S, O, r) ==
  /\ r.gen <= last /\ r.gen \notin cleared
  /\ r.scope = S[r.gen]
  /\ r.scope = "worker" => r.w = O[r.gen]

\* What is written by a step is good after it.
StaysGood(S, O, r) ==
  /\ r.gen <= last' /\ r.gen \notin cleared'
  /\ r.scope = S[r.gen]
  /\ r.scope = "worker" => r.w = O[r.gen]

Named(S, O) ==
  /\ Present(file.dev) => Good(S, O, file.dev)
  /\ Present(redis.dev) => Good(S, O, redis.dev)
  /\ \A w \in Workers : Present(file.wrk[w]) => Good(S, O, file.wrk[w])
  /\ \A w \in Workers : Present(redis.wrk[w]) => Good(S, O, redis.wrk[w])
  /\ \A a \in Agents : loc[a].pc \in Holding => Good(S, O, loc[a].rec)

\* A file or hash of a worker has its id; a physical latch is in the file of the device.
Placed ==
  /\ Present(file.dev) => file.dev.scope = "gpu"
  /\ \A w \in Workers : Physical(file.wrk[w]) => Present(file.dev)
  /\ \A w \in Workers : Present(file.wrk[w]) => file.wrk[w].w = w
  /\ \A w \in Workers : Present(redis.wrk[w]) => redis.wrk[w].w = w

\* The record of the holder, and where it is filed.
Filing(a) ==
  /\ loc[a].pc \in Writing /\ loc[a].rec.scope = "worker" => loc[a].rec.w = W(a)
  /\ loc[a].pc \in {"send", "finish"} =>
       IF loc[a].rec.scope = "gpu" THEN Holds(file.dev, loc[a].rec.gen)
       ELSE ~Present(file.dev) /\ Holds(file.wrk[loc[a].rec.w], loc[a].rec.gen)
  /\ loc[a].pc \in {"markDev", "markWrk"} /\ loc[a].rec.scope = "gpu" => Present(file.dev)
  /\ loc[a].pc \in {"writeDev", "writeWrk"} /\ loc[a].ok /\ loc[a].rec.scope = "gpu" => Present(file.dev)

Counted ==
  /\ cleared \subseteq 1..last /\ clear.gone \subseteq 1..last
  /\ \A g \in Events : delivered[g] > 0 => g <= last
  /\ clear.pc = "keys" => \A w \in Workers : Physical(redis.wrk[w]) => w \in clear.keys

Acked == held => Present(file.dev)

Sent(r, g) == Holds(r, g) => r.page = "sent"

\* The files say of g that it was delivered; or its confirmation is on its way to them.
FilesSay(g) ==
  /\ Sent(file.dev, g)
  /\ \A w \in Workers : ~Physical(file.wrk[w]) => Sent(file.wrk[w], g)
OnItsWay(g) == \E a \in Agents : loc[a].pc = "finish" /\ loc[a].rec.gen = g /\ loc[a].rec.page = "sent"

\* Redis has no record of g that a reader could file again.
NotInRedis(g) ==
  /\ clear.pc = "idle" /\ ~Present(file.dev) =>
       /\ ~(Physical(redis.dev) /\ redis.dev.gen = g)
       /\ \A w \in Workers : ~(Physical(redis.wrk[w]) /\ redis.wrk[w].gen = g)
  /\ \A w \in Workers : /\ clear.pc = "idle" \/ w \notin clear.keys
                        /\ ~Present(file.wrk[w]) /\ Holds(redis.wrk[w], g)
                        => Physical(redis.wrk[w])

\* The holder neither pages g again nor brings it back.
NotAgain(a, g) ==
  loc[a].pc \in Holding /\ loc[a].rec.gen = g =>
    /\ loc[a].pc # "send" /\ (loc[a].pc = "finish" => loc[a].rec.page = "sent")
    /\ IF loc[a].rec.scope = "gpu" THEN Present(file.dev) ELSE Present(file.wrk[loc[a].rec.w])

Pages1 == \A g \in Events : delivered[g] > 0 => delivered[g] = 1 /\ (FilesSay(g) \/ OnItsWay(g))
Pages2 == \A g \in Events : delivered[g] > 0 => NotInRedis(g)
Pages3 == \A g \in Events : delivered[g] > 0 => \A a \in Agents : NotAgain(a, g)

Rest == /\ Placed /\ Counted /\ Acked /\ Pages1 /\ Pages2 /\ Pages3
        /\ \A a \in Agents : Filing(a)

Inv == TypeOK /\ Owners /\ Rest /\ \E S \in [Events -> Scopes], O \in [Events -> Workers \cup {Nobody}] : Named(S, O)

-----------------------------------------------------------------------------
(* Records.                                                                *)

LEMMA TypeParts ==
  TypeOK <=>
    /\ file \in Replicas /\ redis \in Replicas /\ lock \in Agents \cup {Operator, Nobody}
    /\ loc \in [Agents -> Locs] /\ attempts \in [Agents -> [Events -> 0..Told]] /\ clear \in Clearings
    /\ last \in 0..MaxEvents /\ faults \in 0..MaxFaults /\ held \in BOOLEAN /\ cleared \subseteq Events
    /\ delivered \in [Events -> 0..2]
BY DEF TypeOK, Locs, Clearings

LEMMA Presence ==
  /\ None.gen = 0 /\ ~Present(None)
  /\ \A r \in Records : Present(r) /\ r.gen \in Events /\ r.gen \in Nat /\ r.scope \in {"gpu", "worker"} /\ r.w \in Workers
                        /\ r.page \in Pages /\ r.loose \in BOOLEAN
  /\ \A r \in Records \cup {None} : (Present(r) => r \in Records) /\ (Physical(r) => r \in Records /\ r.scope = "gpu")
  /\ \A r \in Records : Physical(r) <=> r.scope = "gpu"
  /\ \A r, g : Holds(r, g) <=> Present(r) /\ r.gen = g
<1>1. None.gen = 0 /\ ~Present(None)
  BY DEF None, Present
<1>2. \A r \in Records : r.gen \in Events /\ r.gen \in Nat /\ r.gen # 0 /\ r.scope \in {"gpu", "worker"} /\ r.w \in Workers
                         /\ r.page \in Pages /\ r.loose \in BOOLEAN
  BY LatchAssumption DEF Records, Events, Scopes
<1>3. \A r \in Records : r # None
  BY <1>1, <1>2
<1> QED
  BY <1>1, <1>2, <1>3 DEF Present, Physical, Holds

\* A copy of a record, for another worker, marked, or with another page.
LEMMA Copies ==
  ASSUME NEW r \in Records
  PROVE  /\ \A w \in Workers : /\ Alias(r, w) \in Records /\ Alias(r, w).gen = r.gen /\ Alias(r, w).scope = r.scope
                               /\ Alias(r, w).page = r.page /\ Alias(r, w).w = w /\ Alias(r, w).loose = r.loose
         /\ Loosened(r) \in Records /\ Loosened(r).gen = r.gen /\ Loosened(r).scope = r.scope
         /\ Loosened(r).page = r.page /\ Loosened(r).w = r.w
         /\ \A p \in Pages : LET s == [r EXCEPT !.page = p]
                             IN s \in Records /\ s.gen = r.gen /\ s.scope = r.scope /\ s.w = r.w /\ s.page = p
                                /\ s.loose = r.loose
<1>1. \A w \in Workers : /\ Alias(r, w) \in Records /\ Alias(r, w).gen = r.gen /\ Alias(r, w).scope = r.scope
                         /\ Alias(r, w).page = r.page /\ Alias(r, w).w = w /\ Alias(r, w).loose = r.loose
  BY DEF Alias, Records
<1>2. /\ Loosened(r) \in Records /\ Loosened(r).gen = r.gen /\ Loosened(r).scope = r.scope
      /\ Loosened(r).page = r.page /\ Loosened(r).w = r.w
  BY DEF Loosened, Records
<1>3. \A p \in Pages : LET s == [r EXCEPT !.page = p]
                       IN s \in Records /\ s.gen = r.gen /\ s.scope = r.scope /\ s.w = r.w /\ s.page = p
                          /\ s.loose = r.loose
  BY DEF Records
<1> QED
  BY <1>1, <1>2, <1>3

\* What HSET leaves in a hash.
LEMMA Merges ==
  ASSUME NEW r \in Records, NEW hash
  PROVE  /\ Merged(hash, r) \in Records /\ Merged(hash, r).gen = r.gen /\ Merged(hash, r).scope = r.scope
         /\ Merged(hash, r).w = r.w
BY Copies DEF Merged

From(v, b) == v \in Records /\ v.gen = b.gen /\ v.scope = b.scope /\ v.w = b.w

\* Which replica the strongest record comes from.
LEMMA Views ==
  ASSUME NEW fdev \in Records \cup {None}, NEW fwrk \in Records \cup {None},
         NEW rdev \in Records \cup {None}, NEW rwrk \in Records \cup {None}
  PROVE  LET v == Strongest(fdev, fwrk, rdev, rwrk) IN
         /\ v \in Records \cup {None}
         /\ Physical(fdev) => From(v, fdev)
         /\ ~Physical(fdev) /\ Physical(fwrk) => From(v, fwrk)
         /\ ~Physical(fdev) /\ ~Physical(fwrk) /\ Physical(rdev) => From(v, rdev)
         /\ ~Physical(fdev) /\ ~Physical(fwrk) /\ ~Physical(rdev) /\ Physical(rwrk) => From(v, rwrk)
         /\ ~Physical(fdev) /\ ~Physical(fwrk) /\ ~Physical(rdev) /\ ~Physical(rwrk) =>
              v = IF Present(fwrk) THEN fwrk ELSE rwrk
<1> DEFINE best == IF Physical(fdev) THEN fdev ELSE IF Physical(fwrk) THEN fwrk
                   ELSE IF Physical(rdev) THEN rdev ELSE IF Physical(rwrk) THEN rwrk
                   ELSE IF Present(fwrk) THEN fwrk ELSE rwrk
           v == Strongest(fdev, fwrk, rdev, rwrk)
<1>1. v = best \/ (Physical(best) /\ v = [best EXCEPT !.page = "sent"])
  BY DEF Strongest
<1>2. best \in Records \cup {None}
  OBVIOUS
<1>3. Physical(best) => From(v, best)
  <2>1. SUFFICES ASSUME Physical(best) PROVE From(v, best)
    OBVIOUS
  <2>2. best \in Records
    BY <1>2, <2>1, Presence
  <2> HIDE DEF best
  <2>3. LET s == [best EXCEPT !.page = "sent"] IN From(s, best)
    BY <2>2, Copies DEF From, Pages
  <2> QED
    BY <1>1, <2>2, <2>3 DEF From
<1>4. ~Physical(best) => v = best
  BY <1>1
<1>5. v \in Records \cup {None}
  BY <1>2, <1>3, <1>4 DEF From
<1>6. /\ Physical(fdev) => best = fdev
      /\ ~Physical(fdev) /\ Physical(fwrk) => best = fwrk
      /\ ~Physical(fdev) /\ ~Physical(fwrk) /\ Physical(rdev) => best = rdev
      /\ ~Physical(fdev) /\ ~Physical(fwrk) /\ ~Physical(rdev) /\ Physical(rwrk) => best = rwrk
      /\ ~Physical(fdev) /\ ~Physical(fwrk) /\ ~Physical(rdev) /\ ~Physical(rwrk) =>
           best = IF Present(fwrk) THEN fwrk ELSE rwrk
  OBVIOUS
<1>7. ~Physical(fdev) /\ ~Physical(fwrk) /\ ~Physical(rdev) /\ ~Physical(rwrk) => ~Physical(best)
  BY <1>6
<1> HIDE DEF best, v
<1>8. /\ Physical(fdev) => From(v, fdev)
      /\ ~Physical(fdev) /\ Physical(fwrk) => From(v, fwrk)
      /\ ~Physical(fdev) /\ ~Physical(fwrk) /\ Physical(rdev) => From(v, rdev)
      /\ ~Physical(fdev) /\ ~Physical(fwrk) /\ ~Physical(rdev) /\ Physical(rwrk) => From(v, rwrk)
  BY <1>3, <1>6
<1>9. ~Physical(fdev) /\ ~Physical(fwrk) /\ ~Physical(rdev) /\ ~Physical(rwrk) =>
              v = IF Present(fwrk) THEN fwrk ELSE rwrk
  BY <1>4, <1>6, <1>7
<1> QED
  BY <1>5, <1>8, <1>9 DEF v

LEMMA ReplicaTypes ==
  ASSUME TypeOK
  PROVE  /\ file.dev \in Records \cup {None} /\ redis.dev \in Records \cup {None}
         /\ \A w \in Workers : file.wrk[w] \in Records \cup {None} /\ redis.wrk[w] \in Records \cup {None}
         /\ \A a \in Agents : loc[a] \in Locs /\ loc[a].rec \in Records \cup {None} /\ W(a) \in Workers
BY TypeParts, LatchAssumption DEF Replicas, Locs, W

\* The files after a write of r for w, whole or in part.
Puts(r, w) == file' = Filed(r, w) \/ file' \in HalfFiled(r, w)

LEMMA PutFacts ==
  ASSUME TypeOK, NEW r \in Records, NEW w \in Workers, Puts(r, w)
  PROVE  /\ file' \in Replicas
         /\ file'.dev = file.dev \/ (r.scope = "gpu" /\ file'.dev = r)
         /\ \A x \in Workers : \/ file'.wrk[x] = file.wrk[x]
                               \/ x = w /\ file'.wrk[x] = Alias(r, w) /\ (r.scope = "gpu" => file'.dev = r)
         /\ file' = Filed(r, w) => (r.scope = "gpu" => file'.dev = r) /\ file'.wrk[w] = Alias(r, w)
<1>a. file \in Replicas /\ file.dev \in Records \cup {None} /\ Alias(r, w) \in Records
  BY TypeParts, Copies DEF Replicas
<1>1. CASE file' = Filed(r, w)
  BY <1>a, <1>1 DEF Filed, Replicas
<1>2. CASE file' = file
  <2>1. file = Filed(r, w) => (r.scope = "gpu" => file.dev = r) /\ file.wrk[w] = Alias(r, w)
    BY <1>a DEF Filed, Replicas
  <2> QED
    BY <1>a, <1>2, <2>1
<1>3. CASE file' = [file EXCEPT !.dev = IF r.scope = "gpu" THEN r ELSE @]
  <2>1. /\ file' \in Replicas /\ file'.dev = (IF r.scope = "gpu" THEN r ELSE file.dev) /\ file'.wrk = file.wrk
    BY <1>a, <1>3 DEF Replicas
  <2>2. file' = Filed(r, w) => file'.wrk[w] = Alias(r, w)
    BY <1>a DEF Filed, Replicas
  <2> QED
    BY <2>1, <2>2
<1> QED
  BY <1>1, <1>2, <1>3 DEF Puts, HalfFiled

-----------------------------------------------------------------------------
(* What the steps do.                                                      *)

Others(a) == \A b \in Agents : b # a => loc'[b] = loc[b]

LEMMA LocWrites ==
  ASSUME loc \in [Agents -> Locs], NEW a \in Agents
  PROVE  /\ \A pc \in Points : Goes(a, pc) =>
              /\ loc' \in [Agents -> Locs] /\ Others(a)
              /\ loc'[a].pc = pc /\ loc'[a].rec = loc[a].rec /\ loc'[a].ok = loc[a].ok
         /\ \A pc \in Points, r \in Records \cup {None} : GoesWith(a, pc, r) =>
              loc' \in [Agents -> Locs] /\ Others(a) /\ loc'[a].pc = pc /\ loc'[a].rec = r /\ loc'[a].ok = TRUE
         /\ \A r \in Records \cup {None} : loc' = [loc EXCEPT ![a] = [Idle EXCEPT !.pc = "writeDev", !.rec = r, !.ok = FALSE]] =>
              loc' \in [Agents -> Locs] /\ Others(a) /\ loc'[a].pc = "writeDev" /\ loc'[a].rec = r /\ loc'[a].ok = FALSE
         /\ Rests(a) => loc' \in [Agents -> Locs] /\ Others(a) /\ loc'[a].pc = "idle"
<1>1. ASSUME NEW q \in Locs, loc' = [loc EXCEPT ![a] = q]
      PROVE  loc' \in [Agents -> Locs] /\ Others(a) /\ loc'[a] = q
  BY <1>1 DEF Others
<1>2. ASSUME NEW pc \in Points, Goes(a, pc)
      PROVE  /\ loc' \in [Agents -> Locs] /\ Others(a)
             /\ loc'[a].pc = pc /\ loc'[a].rec = loc[a].rec /\ loc'[a].ok = loc[a].ok
  <2> DEFINE q == [loc[a] EXCEPT !.pc = pc]
  <2>1. loc' = [loc EXCEPT ![a] = q]
    BY <1>2 DEF Goes
  <2>2. q \in Locs /\ q.pc = pc /\ q.rec = loc[a].rec /\ q.ok = loc[a].ok
    BY DEF Locs
  <2> HIDE DEF q
  <2> QED
    BY <1>1, <2>1, <2>2
<1>3. ASSUME NEW pc \in Points, NEW r \in Records \cup {None}, GoesWith(a, pc, r)
      PROVE  loc' \in [Agents -> Locs] /\ Others(a) /\ loc'[a].pc = pc /\ loc'[a].rec = r /\ loc'[a].ok = TRUE
  <2> DEFINE q == [Idle EXCEPT !.pc = pc, !.rec = r]
  <2>1. loc' = [loc EXCEPT ![a] = q]
    BY <1>3 DEF GoesWith
  <2>2. q \in Locs /\ q.pc = pc /\ q.rec = r /\ q.ok = TRUE
    BY DEF Locs, Idle
  <2> HIDE DEF q
  <2> QED
    BY <1>1, <2>1, <2>2
<1>4. ASSUME NEW r \in Records \cup {None}, loc' = [loc EXCEPT ![a] = [Idle EXCEPT !.pc = "writeDev", !.rec = r, !.ok = FALSE]]
      PROVE  loc' \in [Agents -> Locs] /\ Others(a) /\ loc'[a].pc = "writeDev" /\ loc'[a].rec = r /\ loc'[a].ok = FALSE
  <2> DEFINE q == [Idle EXCEPT !.pc = "writeDev", !.rec = r, !.ok = FALSE]
  <2>2. q \in Locs /\ q.pc = "writeDev" /\ q.rec = r /\ q.ok = FALSE
    BY DEF Locs, Idle, Points
  <2>1. loc' = [loc EXCEPT ![a] = q]
    BY <1>4
  <2> HIDE DEF q
  <2> QED
    BY <1>1, <2>1, <2>2
<1>5. Rests(a) => loc' \in [Agents -> Locs] /\ Others(a) /\ loc'[a].pc = "idle"
  <2>1. Idle \in Locs /\ Idle.pc = "idle"
    BY DEF Locs, Idle, Points
  <2> QED
    BY <1>1, <2>1 DEF Rests
<1> QED
  BY <1>2, <1>3, <1>4, <1>5

\* Write: the record is the one found, or a new one.
LEMMA WriteMoves ==
  ASSUME TypeOK, NEW a \in Agents, NEW scope \in Scopes, Write(a, scope)
  PROVE  \E r \in Records, read \in {Existing(a), None} :
           /\ Puts(r, W(a)) /\ (read = Existing(a) \/ file' = file)
           /\ IF Preserved(scope, read) THEN r = read /\ last' = last
              ELSE r = New(a, scope) /\ last' = last + 1 /\ last' \in Events
           /\ loc' \in [Agents -> Locs] /\ Others(a) /\ loc'[a].pc = "writeDev"
           /\ \/ loc'[a].rec = r /\ file' = Filed(r, W(a)) /\ read = Existing(a) /\ faults' = faults
              \/ loc'[a].rec = Loosened(r) /\ loc'[a].ok = FALSE /\ Fault
<1>1. PICK read \in {Existing(a), None} :
       LET keep == Preserved(scope, read)
           r == IF keep THEN read ELSE New(a, scope)
       IN /\ keep \/ last < MaxEvents
          /\ last' = IF keep THEN last ELSE last + 1
          /\ \/ /\ read = Existing(a)
                /\ file' = Filed(r, W(a))
                /\ GoesWith(a, "writeDev", r) /\ UNCHANGED faults
             \/ /\ Fault
                /\ file' \in IF read = Existing(a) THEN HalfFiled(r, W(a)) ELSE {file}
                /\ loc' = [loc EXCEPT ![a] = [Idle EXCEPT !.pc = "writeDev", !.rec = Loosened(r), !.ok = FALSE]]
  BY DEF Write
<1> DEFINE r == IF Preserved(scope, read) THEN read ELSE New(a, scope)
<1>2. r \in Records /\ (~Preserved(scope, read) => last + 1 \in Events)
  <2>1. CASE Preserved(scope, read)
    <3>1. read \in Records \cup {None} /\ Present(read)
      BY <2>1, ReplicaTypes, Presence DEF Preserved, Existing
    <3> QED
      BY <2>1, <3>1, Presence
  <2>2. CASE ~Preserved(scope, read)
    <3>1. last + 1 \in Events
      BY <1>1, <2>2, TypeParts, LatchAssumption DEF Events
    <3>2. New(a, scope) \in Records
      BY <3>1, ReplicaTypes DEF New, Records, Pages
    <3> QED
      BY <2>2, <3>1, <3>2
  <2> QED
    BY <2>1, <2>2
<1>3. IF Preserved(scope, read) THEN r = read /\ last' = last
      ELSE r = New(a, scope) /\ last' = last + 1 /\ last' \in Events
  BY <1>1, <1>2
<1>4. \/ read = Existing(a) /\ file' = Filed(r, W(a)) /\ GoesWith(a, "writeDev", r) /\ UNCHANGED faults
      \/ /\ Fault
         /\ file' \in IF read = Existing(a) THEN HalfFiled(r, W(a)) ELSE {file}
         /\ loc' = [loc EXCEPT ![a] = [Idle EXCEPT !.pc = "writeDev", !.rec = Loosened(r), !.ok = FALSE]]
  BY <1>1
<1> HIDE DEF r
<1>5. loc \in [Agents -> Locs] /\ Loosened(r) \in Records /\ "writeDev" \in Points
  BY <1>2, TypeParts, Copies DEF Points
<1>6. CASE read = Existing(a) /\ file' = Filed(r, W(a)) /\ GoesWith(a, "writeDev", r) /\ UNCHANGED faults
  <2>1. loc' \in [Agents -> Locs] /\ Others(a) /\ loc'[a].pc = "writeDev" /\ loc'[a].rec = r
    BY <1>2, <1>5, <1>6, LocWrites
  <2> QED
    BY <1>2, <1>3, <1>6, <2>1 DEF Puts
<1>7. CASE /\ Fault
           /\ file' \in IF read = Existing(a) THEN HalfFiled(r, W(a)) ELSE {file}
           /\ loc' = [loc EXCEPT ![a] = [Idle EXCEPT !.pc = "writeDev", !.rec = Loosened(r), !.ok = FALSE]]
  <2>1. loc' \in [Agents -> Locs] /\ Others(a) /\ loc'[a].pc = "writeDev" /\ loc'[a].rec = Loosened(r) /\ loc'[a].ok = FALSE
    BY <1>5, <1>7, LocWrites
  <2>2. Puts(r, W(a)) /\ (read = Existing(a) \/ file' = file)
    BY <1>7 DEF Puts, HalfFiled
  <2> QED
    BY <1>2, <1>3, <1>7, <2>1, <2>2
<1> QED
  BY <1>4, <1>6, <1>7

\* Reread: nothing is left, or the strongest record is in the files, or goes there.
LEMMA RereadMoves ==
  ASSUME TypeOK, NEW a \in Agents, Reread(a)
  PROVE  /\ loc' \in [Agents -> Locs] /\ Others(a) /\ lock = Nobody
         /\ \/ loc'[a].pc = "idle" /\ UNCHANGED <<file, lock, faults>>
            \/ /\ View(W(a)) \in Records /\ lock' = a /\ loc'[a].pc = "hydrateDev"
               /\ \/ /\ Ready(View(W(a)), file.dev, file.wrk[W(a)])
                     /\ loc'[a].rec = View(W(a)) /\ UNCHANGED <<file, faults>>
                  \/ /\ ~Ready(View(W(a)), file.dev, file.wrk[W(a)])
                     /\ \/ loc'[a].rec = View(W(a)) /\ file' = Filed(View(W(a)), W(a)) /\ UNCHANGED faults
                        \/ loc'[a].rec = Loosened(View(W(a))) /\ file' \in HalfFiled(View(W(a)), W(a)) /\ Fault
<1> DEFINE r == View(W(a))
<1>1. r \in Records \cup {None}
  BY ReplicaTypes, Views DEF View
<1>2. IF ~Present(r)
      THEN Rests(a) /\ UNCHANGED <<file, lock, faults>>
      ELSE /\ lock' = a
           /\ \/ /\ file' = IF Ready(r, file.dev, file.wrk[W(a)]) THEN file ELSE Filed(r, W(a))
                 /\ GoesWith(a, "hydrateDev", r) /\ UNCHANGED faults
              \/ /\ ~Ready(r, file.dev, file.wrk[W(a)]) /\ Fault
                 /\ file' \in HalfFiled(r, W(a))
                 /\ GoesWith(a, "hydrateDev", Loosened(r))
  BY DEF Reread
<1>3. lock = Nobody /\ loc \in [Agents -> Locs] /\ "hydrateDev" \in Points
  BY TypeParts DEF Reread, Points
<1> HIDE DEF r
<1>4. CASE ~Present(r)
  <2>1. Rests(a) /\ UNCHANGED <<file, lock, faults>>
    BY <1>2, <1>4
  <2>2. loc' \in [Agents -> Locs] /\ Others(a) /\ loc'[a].pc = "idle"
    BY <1>3, <2>1, LocWrites
  <2> QED
    BY <1>3, <2>1, <2>2
<1>5. CASE Present(r)
  <2>1. r \in Records /\ Loosened(r) \in Records
    BY <1>1, <1>5, Presence, Copies
  <2>2. lock' = a
    BY <1>2, <1>5
  <2>3. \/ /\ file' = IF Ready(r, file.dev, file.wrk[W(a)]) THEN file ELSE Filed(r, W(a))
           /\ GoesWith(a, "hydrateDev", r) /\ UNCHANGED faults
        \/ /\ ~Ready(r, file.dev, file.wrk[W(a)]) /\ Fault
           /\ file' \in HalfFiled(r, W(a))
           /\ GoesWith(a, "hydrateDev", Loosened(r))
    BY <1>2, <1>5
  <2>4. /\ GoesWith(a, "hydrateDev", r) =>
             loc' \in [Agents -> Locs] /\ Others(a) /\ loc'[a].pc = "hydrateDev" /\ loc'[a].rec = r
        /\ GoesWith(a, "hydrateDev", Loosened(r)) =>
             loc' \in [Agents -> Locs] /\ Others(a) /\ loc'[a].pc = "hydrateDev" /\ loc'[a].rec = Loosened(r)
    BY <1>3, <2>1, LocWrites
  <2>5. CASE /\ file' = IF Ready(r, file.dev, file.wrk[W(a)]) THEN file ELSE Filed(r, W(a))
             /\ GoesWith(a, "hydrateDev", r) /\ UNCHANGED faults
    <3>1. loc' \in [Agents -> Locs] /\ Others(a) /\ loc'[a].pc = "hydrateDev" /\ loc'[a].rec = r
      BY <2>4, <2>5
    <3>2. CASE Ready(r, file.dev, file.wrk[W(a)])
      BY <1>3, <2>1, <2>2, <2>5, <3>1, <3>2 DEF r
    <3>3. CASE ~Ready(r, file.dev, file.wrk[W(a)])
      BY <1>3, <2>1, <2>2, <2>5, <3>1, <3>3 DEF r
    <3> QED
      BY <3>2, <3>3
  <2>6. CASE /\ ~Ready(r, file.dev, file.wrk[W(a)]) /\ Fault
             /\ file' \in HalfFiled(r, W(a))
             /\ GoesWith(a, "hydrateDev", Loosened(r))
    <3>1. loc' \in [Agents -> Locs] /\ Others(a) /\ loc'[a].pc = "hydrateDev" /\ loc'[a].rec = Loosened(r)
      BY <2>4, <2>6
    <3> QED
      BY <1>3, <2>1, <2>2, <2>6, <3>1 DEF r
  <2> QED
    BY <2>3, <2>5, <2>6
<1> QED
  BY <1>4, <1>5

\* Claim: superseded, sent already, claimed, or not written.
LEMMA ClaimMoves ==
  ASSUME TypeOK, Owners, NEW a \in Agents, Claim(a)
  PROVE  /\ loc[a].rec \in Records /\ loc' \in [Agents -> Locs] /\ Others(a) /\ lock = Nobody
         /\ attempts[a][loc[a].rec.gen] < MaxAttempts
         /\ \/ loc'[a].pc = "idle" /\ UNCHANGED <<file, lock, faults>> /\ Attempted(a, loc[a].rec, Told)
            \/ /\ Claimable(loc[a].rec) \in Records /\ Claimable(loc[a].rec).gen = loc[a].rec.gen
               /\ \/ /\ loc'[a].pc = "mark" /\ loc'[a].rec = Claimable(loc[a].rec)
                     /\ UNCHANGED <<file, lock, faults, attempts>>
                  \/ \E mine \in Records :
                       /\ From(mine, Claimable(loc[a].rec)) /\ Claimable(loc[a].rec).page # "sent"
                       /\ Attempted(a, loc[a].rec, attempts[a][loc[a].rec.gen] + 1)
                       /\ \/ /\ file' = Filed(mine, loc[a].rec.w) /\ lock' = a /\ UNCHANGED faults
                             /\ loc'[a].pc = "send" /\ loc'[a].rec = mine
                          \/ /\ file' \in HalfFiled(mine, loc[a].rec.w) /\ UNCHANGED lock /\ Fault
                             /\ loc'[a].pc = "mark" /\ loc'[a].rec \in Records
<1> DEFINE r == loc[a].rec
           now == Claimable(r)
           mine == [now EXCEPT !.page = "sending"]
           lost == [r EXCEPT !.page = "failed"]
<1>1. /\ lock = Nobody /\ attempts[a][r.gen] < MaxAttempts /\ loc[a].pc = "notice"
      /\ IF ~Present(now) \/ now.gen # r.gen
         THEN Attempted(a, r, Told) /\ Rests(a) /\ UNCHANGED <<file, lock, faults>>
         ELSE IF now.page = "sent"
         THEN GoesWith(a, "mark", now) /\ UNCHANGED <<file, lock, faults, attempts>>
         ELSE /\ Attempted(a, r, attempts[a][r.gen] + 1)
              /\ \/ /\ file' = Filed(mine, r.w) /\ lock' = a
                    /\ GoesWith(a, "send", mine) /\ UNCHANGED faults
                 \/ /\ Fault
                    /\ file' \in HalfFiled(mine, r.w) /\ UNCHANGED lock
                    /\ GoesWith(a, "mark", lost)
  BY DEF Claim, MayPage, At
<1>2. r \in Records
  BY <1>1, ReplicaTypes, Presence DEF Owners, InHand
<1>3. now \in Records \cup {None}
  BY <1>2, ReplicaTypes, Presence DEF Claimable
<1>4. loc \in [Agents -> Locs] /\ "mark" \in Points /\ "send" \in Points
  BY TypeParts DEF Points
<1>5. lost \in Records
  BY <1>2, Copies DEF Pages
<1>6. now \in Records => mine \in Records /\ From(mine, now)
  BY Copies DEF Pages, From
<1> HIDE DEF r, now, mine, lost
<1>7. CASE ~Present(now) \/ now.gen # r.gen
  <2>1. Attempted(a, r, Told) /\ Rests(a) /\ UNCHANGED <<file, lock, faults>>
    BY <1>1, <1>7
  <2>2. loc' \in [Agents -> Locs] /\ Others(a) /\ loc'[a].pc = "idle"
    BY <1>4, <2>1, LocWrites
  <2> QED
    BY <1>1, <1>2, <2>1, <2>2 DEF r
<1>8. CASE Present(now) /\ now.gen = r.gen
  <2>1. now \in Records
    BY <1>3, <1>8, Presence
  <2>2. CASE now.page = "sent"
    <3>1. GoesWith(a, "mark", now) /\ UNCHANGED <<file, lock, faults, attempts>>
      BY <1>1, <1>8, <2>2
    <3>2. loc' \in [Agents -> Locs] /\ Others(a) /\ loc'[a].pc = "mark" /\ loc'[a].rec = now
      BY <1>4, <2>1, <3>1, LocWrites
    <3> QED
      BY <1>1, <1>2, <1>8, <2>1, <3>1, <3>2 DEF r, now
  <2>3. CASE now.page # "sent"
    <3>1. /\ Attempted(a, r, attempts[a][r.gen] + 1)
          /\ \/ /\ file' = Filed(mine, r.w) /\ lock' = a
                /\ GoesWith(a, "send", mine) /\ UNCHANGED faults
             \/ /\ Fault
                /\ file' \in HalfFiled(mine, r.w) /\ UNCHANGED lock
                /\ GoesWith(a, "mark", lost)
      BY <1>1, <1>8, <2>3
    <3>2. GoesWith(a, "send", mine) =>
            loc' \in [Agents -> Locs] /\ Others(a) /\ loc'[a].pc = "send" /\ loc'[a].rec = mine
      BY <1>4, <1>6, <2>1, LocWrites
    <3>3. GoesWith(a, "mark", lost) =>
            loc' \in [Agents -> Locs] /\ Others(a) /\ loc'[a].pc = "mark" /\ loc'[a].rec = lost
      BY <1>4, <1>5, LocWrites
    <3>4. CASE file' = Filed(mine, r.w) /\ lock' = a /\ GoesWith(a, "send", mine) /\ UNCHANGED faults
      BY <1>1, <1>2, <1>6, <1>8, <2>1, <2>3, <3>1, <3>2, <3>4 DEF r, now
    <3>5. CASE Fault /\ file' \in HalfFiled(mine, r.w) /\ UNCHANGED lock /\ GoesWith(a, "mark", lost)
      BY <1>1, <1>2, <1>5, <1>6, <1>8, <2>1, <2>3, <3>1, <3>3, <3>5 DEF r, now
    <3> QED
      BY <3>1, <3>4, <3>5
  <2> QED
    BY <2>2, <2>3
<1> QED
  BY <1>7, <1>8

\* Mark: nothing to do, marked, or not written.
LEMMA MarkMoves ==
  ASSUME TypeOK, Owners, NEW a \in Agents, Mark(a)
  PROVE  /\ loc[a].rec \in Records /\ loc' \in [Agents -> Locs] /\ Others(a) /\ lock = Nobody /\ MarkedWorker(a) \in Workers
         /\ \/ loc'[a].pc = "idle" /\ UNCHANGED <<file, lock, faults>>
            \/ \E new \in Records :
                 /\ Current(a) \in Records /\ Current(a).scope = loc[a].rec.scope /\ Current(a).gen = loc[a].rec.gen
                 /\ From(new, Current(a)) /\ (Current(a).page = "sent" => new.page = "sent")
                 /\ \/ /\ file' = Filed(new, MarkedWorker(a)) /\ lock' = a /\ UNCHANGED faults
                       /\ loc'[a].pc = "markDev" /\ loc'[a].rec = Alias(new, MarkedWorker(a))
                    \/ /\ file' \in HalfFiled(new, MarkedWorker(a)) /\ UNCHANGED lock /\ Fault
                       /\ loc'[a].pc = "idle"
<1> DEFINE r == loc[a].rec
           now == Current(a)
           x == MarkedWorker(a)
           new == Outcome(now, r.page)
<1>1. /\ lock = Nobody /\ loc[a].pc = "mark"
      /\ IF ~Present(now) \/ now.scope # r.scope \/ now.gen # r.gen
         THEN Rests(a) /\ UNCHANGED <<file, lock, faults>>
         ELSE \/ /\ file' = Filed(new, x) /\ lock' = a
                 /\ GoesWith(a, "markDev", Alias(new, x)) /\ UNCHANGED faults
              \/ /\ Fault
                 /\ file' \in HalfFiled(new, x) /\ UNCHANGED lock
                 /\ Rests(a)
  BY DEF Mark, At
<1>2. r \in Records /\ r.page \in Pages
  BY <1>1, ReplicaTypes, Presence DEF Owners, InHand
<1>3. x \in Workers
  BY <1>2, ReplicaTypes, Presence DEF MarkedWorker
<1>4. now \in Records \cup {None}
  BY <1>3, ReplicaTypes DEF Current
<1>5. loc \in [Agents -> Locs] /\ "markDev" \in Points
  BY TypeParts DEF Points
<1>6. now \in Records => From(new, now) /\ new \in Records /\ (now.page = "sent" => new.page = "sent")
  BY <1>2, Copies DEF Outcome, From
<1> HIDE DEF r, now, x, new
<1>7. CASE ~Present(now) \/ now.scope # r.scope \/ now.gen # r.gen
  <2>1. Rests(a) /\ UNCHANGED <<file, lock, faults>>
    BY <1>1, <1>7
  <2>2. loc' \in [Agents -> Locs] /\ Others(a) /\ loc'[a].pc = "idle"
    BY <1>5, <2>1, LocWrites
  <2> QED
    BY <1>1, <1>2, <1>3, <2>1, <2>2 DEF r, x
<1>8. CASE Present(now) /\ now.scope = r.scope /\ now.gen = r.gen
  <2>1. now \in Records
    BY <1>4, <1>8, Presence
  <2>2. \/ /\ file' = Filed(new, x) /\ lock' = a
           /\ GoesWith(a, "markDev", Alias(new, x)) /\ UNCHANGED faults
        \/ /\ Fault
           /\ file' \in HalfFiled(new, x) /\ UNCHANGED lock
           /\ Rests(a)
    BY <1>1, <1>8
  <2>3. CASE file' = Filed(new, x) /\ lock' = a /\ GoesWith(a, "markDev", Alias(new, x)) /\ UNCHANGED faults
    <3>1. Alias(new, x) \in Records
      BY <1>3, <1>6, <2>1, Copies
    <3>2. loc' \in [Agents -> Locs] /\ Others(a) /\ loc'[a].pc = "markDev" /\ loc'[a].rec = Alias(new, x)
      BY <1>5, <2>3, <3>1, LocWrites
    <3> QED
      BY <1>1, <1>2, <1>3, <1>6, <1>8, <2>1, <2>3, <3>2 DEF r, now, x
  <2>4. CASE Fault /\ file' \in HalfFiled(new, x) /\ UNCHANGED lock /\ Rests(a)
    <3>1. loc' \in [Agents -> Locs] /\ Others(a) /\ loc'[a].pc = "idle"
      BY <1>5, <2>4, LocWrites
    <3> QED
      BY <1>1, <1>2, <1>3, <1>6, <1>8, <2>1, <2>4, <3>1 DEF r, now, x
  <2> QED
    BY <2>2, <2>3, <2>4
<1> QED
  BY <1>7, <1>8

-----------------------------------------------------------------------------
(* Types, and who has the lock.                                            *)

LEMMA OwnerFrame ==
  ASSUME TypeOK, Owners, NEW a \in Agents, loc' \in [Agents -> Locs], Others(a), clear' = clear,
         loc'[a].pc \notin {"redis", "blind"},
         loc'[a].pc \in InHand => Present(loc'[a].rec),
         loc'[a].pc \in Holding => lock' = a,
         \/ lock' = lock
         \/ lock = Nobody /\ lock' = a
         \/ lock = a /\ lock' = Nobody
  PROVE  Owners'
<1>1. \A b \in Agents : b # a /\ loc'[b].pc \in Holding => lock' = b
  BY LatchAssumption DEF Owners, Others
<1>2. clear.pc = "keys" => lock' = Operator
  BY LatchAssumption DEF Owners
<1>3. \A b \in Agents : b # a => loc'[b].pc \notin {"redis", "blind"} /\ (loc'[b].pc \in InHand => Present(loc'[b].rec))
  BY DEF Owners, Others
<1> QED
  BY <1>1, <1>2, <1>3 DEF Owners

LEMMA AttemptTypes ==
  ASSUME attempts \in [Agents -> [Events -> 0..Told]], NEW a \in Agents, NEW r \in Records
  PROVE  /\ Attempted(a, r, Told) => attempts' \in [Agents -> [Events -> 0..Told]]
         /\ \A n \in {attempts[a][r.gen] + 1} :
              attempts[a][r.gen] < MaxAttempts /\ Attempted(a, r, n) => attempts' \in [Agents -> [Events -> 0..Told]]
         /\ attempts' = [attempts EXCEPT ![a] = [g \in Events |-> 0]] => attempts' \in [Agents -> [Events -> 0..Told]]
<1>1. r.gen \in Events
  BY Presence
<1>2. Told \in 0..Told /\ 0 \in 0..Told
  BY LatchAssumption DEF Told
<1>3. attempts[a][r.gen] < MaxAttempts => attempts[a][r.gen] + 1 \in 0..Told
  BY <1>1, LatchAssumption DEF Told
<1>4. ASSUME NEW n \in 0..Told, Attempted(a, r, n) PROVE attempts' \in [Agents -> [Events -> 0..Told]]
  <2>1. [attempts[a] EXCEPT ![r.gen] = n] \in [Events -> 0..Told]
    BY <1>1
  <2> QED
    BY <1>4, <2>1 DEF Attempted
<1>5. [g \in Events |-> 0] \in [Events -> 0..Told]
  BY <1>2
<1> QED
  BY <1>2, <1>3, <1>4, <1>5

\* What a step writes to a hash.
LEMMA RedisWrites ==
  ASSUME redis \in Replicas
  PROVE  /\ \A r \in Records \cup {None} : /\ [redis EXCEPT !.dev = r] \in Replicas /\ [redis EXCEPT !.dev = r].dev = r
                                           /\ [redis EXCEPT !.dev = r].wrk = redis.wrk
         /\ \A x \in Workers, r \in Records :
              /\ [redis EXCEPT !.wrk[x] = r] \in Replicas /\ [redis EXCEPT !.wrk[x] = r].dev = redis.dev
              /\ [redis EXCEPT !.wrk[x] = r].wrk[x] = r
              /\ \A y \in Workers : y # x => [redis EXCEPT !.wrk[x] = r].wrk[y] = redis.wrk[y]
BY DEF Replicas

\* The step of a lock holder on the hash of the device, and on the hash of a worker.
DevPut(r) == redis' = [redis EXCEPT !.dev = IF r.scope = "gpu" THEN Merged(@, r) ELSE @]
WrkPut(x, r) == redis' = [redis EXCEPT !.wrk[x] = Merged(@, r)]

LEMMA HashWrites ==
  ASSUME TypeOK, NEW r \in Records
  PROVE  /\ DevPut(r) => /\ redis' \in Replicas /\ redis'.wrk = redis.wrk
                         /\ redis'.dev = redis.dev \/ (r.scope = "gpu" /\ From(redis'.dev, r))
         /\ \A x \in Workers : WrkPut(x, r) =>
              /\ redis' \in Replicas /\ redis'.dev = redis.dev
              /\ From(redis'.wrk[x], r)
              /\ \A y \in Workers : y # x => redis'.wrk[y] = redis.wrk[y]
<1>a. redis \in Replicas /\ redis.dev \in Records \cup {None}
  BY TypeParts, ReplicaTypes
<1>1. ASSUME DevPut(r)
      PROVE  /\ redis' \in Replicas /\ redis'.wrk = redis.wrk
             /\ redis'.dev = redis.dev \/ (r.scope = "gpu" /\ From(redis'.dev, r))
  <2> DEFINE s == IF r.scope = "gpu" THEN Merged(redis.dev, r) ELSE redis.dev
  <2>1. redis' = [redis EXCEPT !.dev = s]
    BY <1>a, <1>1 DEF DevPut, Replicas
  <2>2. s \in Records \cup {None} /\ (s = redis.dev \/ (r.scope = "gpu" /\ From(s, r)))
    BY <1>a, Merges DEF From
  <2> HIDE DEF s
  <2> QED
    BY <1>a, <2>1, <2>2, RedisWrites
<1>2. ASSUME NEW x \in Workers, WrkPut(x, r)
      PROVE  /\ redis' \in Replicas /\ redis'.dev = redis.dev
             /\ From(redis'.wrk[x], r)
             /\ \A y \in Workers : y # x => redis'.wrk[y] = redis.wrk[y]
  <2> DEFINE s == Merged(redis.wrk[x], r)
  <2>1. redis' = [redis EXCEPT !.wrk[x] = s]
    BY <1>a, <1>2 DEF WrkPut, Replicas
  <2>2. s \in Records /\ From(s, r)
    BY Merges DEF From
  <2> HIDE DEF s
  <2> QED
    BY <1>a, <2>1, <2>2, RedisWrites
<1> QED
  BY <1>1, <1>2

\* The holder puts a record in one hash, or does not, and keeps the lock or gives it back.
HashStep(a) == WriteDev(a) \/ WriteWrk(a) \/ HydrateDev(a) \/ HydrateWrk(a) \/ MarkDev(a) \/ MarkWrk(a)

KeepsOn(a) ==
  /\ lock' = lock /\ loc'[a].rec = loc[a].rec /\ loc'[a].ok = loc[a].ok
  /\ \/ loc[a].pc = "writeDev" /\ loc'[a].pc = "writeWrk"
     \/ loc[a].pc = "hydrateDev" /\ loc'[a].pc = "hydrateWrk"
     \/ loc[a].pc = "markDev" /\ loc'[a].pc = "markWrk"
GivesBack(a) ==
  /\ lock' = Nobody
  /\ loc'[a].pc = "idle" \/ (loc'[a].pc = "notice" /\ loc'[a].rec = loc[a].rec)
Puttings(a) ==
  \/ redis' = redis
  \/ loc[a].pc \in {"writeDev", "hydrateDev"} /\ DevPut(loc[a].rec)
  \/ loc[a].pc = "markDev" /\ loc[a].rec.scope = "gpu" /\ file.dev \in Records /\ DevPut(file.dev)
  \/ loc[a].pc \in {"writeWrk", "hydrateWrk"} /\ WrkPut(W(a), Alias(loc[a].rec, W(a)))
  \/ loc[a].pc = "markWrk" /\ WrkPut(loc[a].rec.w, loc[a].rec)
Acks(a) ==
  held' = held \/ (loc[a].pc \in {"writeDev", "writeWrk"} /\ held' = (held \/ (loc[a].ok /\ loc[a].rec.scope = "gpu")))

LEMMA HashMoves ==
  ASSUME Inv, NEW a \in Agents, HashStep(a)
  PROVE  /\ loc[a].rec \in Records /\ loc[a].pc \in Holding /\ loc[a].pc \notin {"send", "finish"} /\ lock = a
         /\ loc' \in [Agents -> Locs] /\ Others(a) /\ (KeepsOn(a) \/ GivesBack(a))
         /\ Puttings(a) /\ Acks(a) /\ (faults' = faults \/ Fault)
         /\ UNCHANGED <<file, attempts, clear, last, cleared, delivered>>
<1>a. loc \in [Agents -> Locs] /\ redis \in Replicas /\ held \in BOOLEAN
  BY TypeParts DEF Inv
<1>p. {"writeWrk", "notice", "hydrateWrk", "markWrk"} \subseteq Points
  BY DEF Points
<1>b. /\ loc[a].pc \in Holding /\ loc[a].pc \notin {"send", "finish"}
      /\ UNCHANGED <<file, attempts, clear, last, cleared, delivered>> /\ (faults' = faults \/ Fault)
  BY DEF HashStep, WriteDev, WriteWrk, HydrateDev, HydrateWrk, MarkDev, MarkWrk, At, Holding, Writing, Ghosts
<1>c. loc[a].rec \in Records /\ lock = a
  BY <1>b, ReplicaTypes, Presence DEF Inv, Owners, InHand
<1>d. redis = [redis EXCEPT !.dev = redis.dev]
  BY <1>a DEF Replicas
<1>w. ASSUME Written(a), loc[a].pc \in {"writeDev", "writeWrk"}
      PROVE  loc' \in [Agents -> Locs] /\ Others(a) /\ GivesBack(a) /\ Acks(a)
  <2>1. CASE loc[a].ok
    <3>1. Goes(a, "notice")
      BY <1>w, <2>1 DEF Written
    <3>2. loc' \in [Agents -> Locs] /\ Others(a) /\ loc'[a].pc = "notice" /\ loc'[a].rec = loc[a].rec
      BY <1>a, <1>p, <3>1, LocWrites
    <3> QED
      BY <1>w, <3>2 DEF Written, Releases, GivesBack, Acks
  <2>2. CASE ~loc[a].ok
    <3>1. Rests(a)
      BY <1>w, <2>2 DEF Written
    <3>2. loc' \in [Agents -> Locs] /\ Others(a) /\ loc'[a].pc = "idle"
      BY <1>a, <3>1, LocWrites
    <3> QED
      BY <1>w, <3>2 DEF Written, Releases, GivesBack, Acks
  <2> QED
    BY <2>1, <2>2
<1>g. ASSUME NEW pc \in {"writeWrk", "notice", "hydrateWrk", "markWrk"}, Goes(a, pc)
      PROVE  loc' \in [Agents -> Locs] /\ Others(a) /\ loc'[a].pc = pc /\ loc'[a].rec = loc[a].rec /\ loc'[a].ok = loc[a].ok
  BY <1>a, <1>p, <1>g, LocWrites
<1>r. Rests(a) => loc' \in [Agents -> Locs] /\ Others(a) /\ loc'[a].pc = "idle"
  BY <1>a, LocWrites
<1> DEFINE Goal == /\ loc' \in [Agents -> Locs] /\ Others(a) /\ (KeepsOn(a) \/ GivesBack(a))
                   /\ Puttings(a) /\ Acks(a)
<1>1. ASSUME WriteDev(a) PROVE Goal
  <2>1. loc[a].pc = "writeDev"
    BY <1>1 DEF WriteDev, At
  <2>2. CASE DevPut(loc[a].rec) /\ Goes(a, "writeWrk") /\ UNCHANGED <<lock, held, faults>>
    <3>1. KeepsOn(a)
      BY <1>g, <2>1, <2>2 DEF KeepsOn
    <3> QED
      BY <1>g, <2>1, <2>2, <3>1 DEF Puttings, Acks
  <2>3. CASE Written(a) /\ UNCHANGED redis
    BY <1>w, <2>1, <2>3 DEF Puttings
  <2> QED
    BY <1>1, <2>2, <2>3 DEF WriteDev, DevPut
<1>2. ASSUME WriteWrk(a) PROVE Goal
  <2>1. loc[a].pc = "writeWrk" /\ Written(a)
    BY <1>2 DEF WriteWrk, At
  <2>2. WrkPut(W(a), Alias(loc[a].rec, W(a))) \/ redis' = redis
    BY <1>2 DEF WriteWrk, WrkPut
  <2> QED
    BY <1>w, <2>1, <2>2 DEF Puttings
<1>3. ASSUME HydrateDev(a) PROVE Goal
  <2>1. loc[a].pc = "hydrateDev" /\ held' = held
    BY <1>3 DEF HydrateDev, At, Ghosts
  <2>2. CASE DevPut(loc[a].rec) /\ Goes(a, "hydrateWrk") /\ UNCHANGED <<lock, faults>>
    <3>1. KeepsOn(a)
      BY <1>g, <2>1, <2>2 DEF KeepsOn
    <3> QED
      BY <1>g, <2>1, <2>2, <3>1 DEF Puttings, Acks
  <2>3. CASE Releases /\ Goes(a, "notice") /\ UNCHANGED redis
    BY <1>g, <2>1, <2>3 DEF Puttings, Acks, Releases, GivesBack
  <2> QED
    BY <1>3, <2>2, <2>3 DEF HydrateDev, DevPut
<1>4. ASSUME HydrateWrk(a) PROVE Goal
  <2>1. loc[a].pc = "hydrateWrk" /\ held' = held /\ Releases /\ Goes(a, "notice")
    BY <1>4 DEF HydrateWrk, At, Ghosts
  <2>2. WrkPut(W(a), Alias(loc[a].rec, W(a))) \/ redis' = redis
    BY <1>4 DEF HydrateWrk, WrkPut
  <2> QED
    BY <1>g, <2>1, <2>2 DEF Puttings, Acks, Releases, GivesBack
<1>5. ASSUME MarkDev(a) PROVE Goal
  <2>1. loc[a].pc = "markDev" /\ held' = held
    BY <1>5 DEF MarkDev, At, Ghosts
  <2>2. CASE /\ redis' = [redis EXCEPT !.dev = IF loc[a].rec.scope = "gpu" THEN Merged(@, file.dev) ELSE @]
             /\ Goes(a, "markWrk") /\ UNCHANGED <<lock, faults>>
    <3>1. KeepsOn(a)
      BY <1>g, <2>1, <2>2 DEF KeepsOn
    <3>2. CASE loc[a].rec.scope = "gpu"
      <4>1. file.dev \in Records /\ file.dev.scope = "gpu"
        BY <2>1, <3>2, ReplicaTypes, Presence DEF Inv, Rest, Filing, Placed
      <4>2. DevPut(file.dev)
        BY <2>2, <3>2, <4>1 DEF DevPut
      <4> QED
        BY <1>g, <2>1, <2>2, <3>1, <3>2, <4>1, <4>2 DEF Puttings, Acks
    <3>3. CASE loc[a].rec.scope # "gpu"
      <4>1. redis' = redis
        BY <1>a, <2>2, <3>3 DEF Replicas
      <4> QED
        BY <1>g, <2>1, <2>2, <3>1, <4>1 DEF Puttings, Acks
    <3> QED
      BY <3>2, <3>3
  <2>3. CASE Releases /\ Rests(a) /\ UNCHANGED redis
    BY <1>r, <2>1, <2>3 DEF Puttings, Acks, Releases, GivesBack
  <2> QED
    BY <1>5, <2>2, <2>3 DEF MarkDev
<1>6. ASSUME MarkWrk(a) PROVE Goal
  <2>1. loc[a].pc = "markWrk" /\ held' = held /\ Releases /\ Rests(a)
    BY <1>6 DEF MarkWrk, At, Ghosts
  <2>2. WrkPut(loc[a].rec.w, loc[a].rec) \/ redis' = redis
    BY <1>6 DEF MarkWrk, WrkPut
  <2> QED
    BY <1>r, <2>1, <2>2 DEF Puttings, Acks, Releases, GivesBack
<1> QED
  BY <1>b, <1>c, <1>1, <1>2, <1>3, <1>4, <1>5, <1>6 DEF HashStep

\* The steps that touch neither files nor hashes and do not get the lock.
QuietStep(a) == Look(a) \/ Quiet(a) \/ Restore(a) \/ Unclaimed(a) \/ Crash(a)

LEMMA QuietMoves ==
  ASSUME Inv, NEW a \in Agents, QuietStep(a)
  PROVE  /\ loc' \in [Agents -> Locs] /\ Others(a) /\ loc'[a].pc \in {"idle", "notice", "relock", "mark"}
         /\ loc'[a].pc \in {"notice", "mark"} => Present(loc'[a].rec)
         /\ lock' = lock \/ (lock = a /\ lock' = Nobody)
         /\ attempts' \in [Agents -> [Events -> 0..Told]] /\ (faults' = faults \/ Fault)
         /\ UNCHANGED <<file, redis, clear, last, held, cleared>>
         /\ \/ delivered' = delivered /\ (loc[a].pc \in Holding => loc[a].pc # "finish" \/ loc[a].rec.page # "sent")
            \/ delivered' = Unpaged
<1>a. /\ loc \in [Agents -> Locs] /\ attempts \in [Agents -> [Events -> 0..Told]]
      /\ {"notice", "relock", "mark"} \subseteq Points
  BY TypeParts DEF Inv, Points
<1>b. loc[a].pc = "notice" => loc[a].rec \in Records
  BY ReplicaTypes, Presence DEF Inv, Owners, InHand
<1>c. View(W(a)) \in Records \cup {None}
  BY ReplicaTypes, Views DEF Inv, View
<1>d. "idle" \notin Holding /\ "notice" \notin Holding
  BY DEF Holding, Writing
<1>1. CASE Look(a)
  <2>1. loc[a].pc = "idle" /\ UNCHANGED <<file, redis, lock, attempts, clear, last, held, cleared, delivered>>
    BY <1>1 DEF Look, At, Ghosts
  <2>2. Present(View(W(a))) /\ (GoesWith(a, "notice", View(W(a))) \/ Goes(a, "relock")) /\ (faults' = faults \/ Fault)
    BY <1>1 DEF Look
  <2>3. \/ loc' \in [Agents -> Locs] /\ Others(a) /\ loc'[a].pc = "notice" /\ loc'[a].rec = View(W(a))
        \/ loc' \in [Agents -> Locs] /\ Others(a) /\ loc'[a].pc = "relock"
    BY <1>a, <1>c, <2>2, LocWrites
  <2> QED
    BY <1>a, <1>d, <2>1, <2>2, <2>3
<1>2. CASE Quiet(a)
  <2>1. /\ loc[a].pc = "notice" /\ Rests(a)
        /\ UNCHANGED <<file, redis, lock, clear, last, faults, held, cleared, delivered>>
        /\ UNCHANGED attempts \/ Attempted(a, loc[a].rec, Told)
    BY <1>2 DEF Quiet, At, Ghosts
  <2>2. attempts' \in [Agents -> [Events -> 0..Told]]
    BY <1>a, <1>b, <2>1, AttemptTypes
  <2>3. loc' \in [Agents -> Locs] /\ Others(a) /\ loc'[a].pc = "idle"
    BY <1>a, <2>1, LocWrites
  <2> QED
    BY <1>d, <2>1, <2>2, <2>3
<1>3. CASE Restore(a)
  <2>1. /\ loc[a].pc = "notice" /\ GoesWith(a, "mark", [loc[a].rec EXCEPT !.page = "sent"])
        /\ UNCHANGED <<file, redis, lock, attempts, clear, last, faults, held, cleared, delivered>>
    BY <1>3 DEF Restore, At, Ghosts
  <2> DEFINE s == [loc[a].rec EXCEPT !.page = "sent"]
  <2>2. s \in Records
    BY <1>b, <2>1, Copies DEF Pages
  <2> HIDE DEF s
  <2>3. loc' \in [Agents -> Locs] /\ Others(a) /\ loc'[a].pc = "mark" /\ loc'[a].rec = s
    BY <1>a, <2>1, <2>2, LocWrites DEF s
  <2> QED
    BY <1>a, <1>d, <2>1, <2>2, <2>3, Presence
<1>4. CASE Unclaimed(a)
  <2>1. /\ loc[a].pc = "notice" /\ Rests(a) /\ attempts[a][loc[a].rec.gen] < MaxAttempts
        /\ UNCHANGED <<file, redis, lock, clear, last, faults, held, cleared, delivered>>
        /\ Attempted(a, loc[a].rec, attempts[a][loc[a].rec.gen] + 1) \/ Attempted(a, loc[a].rec, Told)
    BY <1>4 DEF Unclaimed, MayPage, At, Ghosts
  <2>2. attempts' \in [Agents -> [Events -> 0..Told]]
    BY <1>a, <1>b, <2>1, AttemptTypes
  <2>3. loc' \in [Agents -> Locs] /\ Others(a) /\ loc'[a].pc = "idle"
    BY <1>a, <2>1, LocWrites
  <2> QED
    BY <1>d, <2>1, <2>2, <2>3
<1>5. CASE Crash(a)
  <2>1. /\ Rests(a) /\ Fault /\ UNCHANGED <<file, redis, clear, last, held, cleared>>
        /\ lock' = IF lock = a THEN Nobody ELSE lock
        /\ attempts' = [attempts EXCEPT ![a] = [g \in Events |-> 0]]
        /\ delivered' = IF loc[a].pc = "finish" /\ loc[a].rec.page = "sent" THEN Unpaged ELSE delivered
    BY <1>5 DEF Crash, At
  <2>2. attempts' \in [Agents -> [Events -> 0..Told]]
    <3>1. [g \in Events |-> 0] \in [Events -> 0..Told]
      BY LatchAssumption DEF Told
    <3> QED
      BY <1>a, <2>1, <3>1
  <2>3. loc' \in [Agents -> Locs] /\ Others(a) /\ loc'[a].pc = "idle"
    BY <1>a, <2>1, LocWrites
  <2> QED
    BY <2>1, <2>2, <2>3
<1> QED
  BY <1>1, <1>2, <1>3, <1>4, <1>5 DEF QuietStep

\* Finish: the outcome is filed, or it is not and a delivery may be forgotten.
LEMMA FinishMoves ==
  ASSUME TypeOK, Owners, NEW a \in Agents, Finish(a)
  PROVE  /\ loc[a].pc = "finish" /\ loc[a].rec \in Records /\ lock = a /\ lock' = Nobody
         /\ loc' \in [Agents -> Locs] /\ Others(a) /\ loc'[a].pc = "mark" /\ loc'[a].rec = loc[a].rec
         /\ \/ file' = Filed(loc[a].rec, loc[a].rec.w) /\ UNCHANGED <<faults, delivered>>
            \/ /\ Fault /\ file' \in HalfFiled(loc[a].rec, loc[a].rec.w)
               /\ delivered' = IF loc[a].rec.page = "sent" THEN Unpaged ELSE delivered
<1>1. loc[a].pc = "finish" /\ lock' = Nobody /\ Goes(a, "mark")
  BY DEF Finish, At, Releases
<1>2. loc[a].rec \in Records /\ lock = a
  BY <1>1, ReplicaTypes, Presence DEF Owners, InHand, Holding
<1>3. loc' \in [Agents -> Locs] /\ Others(a) /\ loc'[a].pc = "mark" /\ loc'[a].rec = loc[a].rec
  <2>1. loc \in [Agents -> Locs] /\ "mark" \in Points
    BY TypeParts DEF Points
  <2> QED
    BY <1>1, <2>1, LocWrites
<1>4. \/ file' = Filed(loc[a].rec, loc[a].rec.w) /\ UNCHANGED <<faults, delivered>>
      \/ /\ Fault /\ file' \in HalfFiled(loc[a].rec, loc[a].rec.w)
         /\ delivered' = IF loc[a].rec.page = "sent" THEN Unpaged ELSE delivered
  BY DEF Finish
<1> QED
  BY <1>1, <1>2, <1>3, <1>4

\* Send: the page is delivered, or not.
LEMMA SendMoves ==
  ASSUME TypeOK, Owners, NEW a \in Agents, Send(a)
  PROVE  /\ loc[a].pc = "send" /\ loc[a].rec \in Records /\ lock = a
         /\ loc' \in [Agents -> Locs] /\ Others(a) /\ loc'[a].pc = "finish"
         /\ loc'[a].rec \in Records /\ From(loc'[a].rec, loc[a].rec)
         /\ UNCHANGED <<file, redis, lock, attempts, clear, last, faults, held, cleared>>
         /\ \/ loc'[a].rec.page = "sent" /\ delivered' = [delivered EXCEPT ![loc[a].rec.gen] = @ + 1]
            \/ delivered' = delivered
<1>1. PICK page \in {"sent", "failed"} :
        /\ GoesWith(a, "finish", [loc[a].rec EXCEPT !.page = page])
        /\ delivered' = [delivered EXCEPT ![loc[a].rec.gen] = IF page = "sent" THEN @ + 1 ELSE @]
  BY DEF Send
<1>2. loc[a].pc = "send" /\ UNCHANGED <<file, redis, lock, attempts, clear, last, faults, held, cleared>>
  BY DEF Send, At
<1>3. loc[a].rec \in Records /\ lock = a
  BY <1>2, ReplicaTypes, Presence DEF Owners, InHand, Holding
<1> DEFINE s == [loc[a].rec EXCEPT !.page = page]
<1>4. s \in Records /\ From(s, loc[a].rec) /\ s.page = page
  <2>1. page \in Pages
    BY DEF Pages
  <2> QED
    BY <1>3, <2>1, Copies DEF From
<1> HIDE DEF s
<1>5. loc' \in [Agents -> Locs] /\ Others(a) /\ loc'[a].pc = "finish" /\ loc'[a].rec = s
  <2>1. loc \in [Agents -> Locs] /\ "finish" \in Points
    BY TypeParts DEF Points
  <2>2. GoesWith(a, "finish", s)
    BY <1>1 DEF s
  <2> QED
    BY <1>4, <2>1, <2>2, LocWrites
<1>6. CASE page = "sent"
  BY <1>1, <1>2, <1>3, <1>4, <1>5, <1>6
<1>7. CASE page # "sent"
  <2>1. delivered' = delivered
    BY <1>1, <1>7, TypeParts
  <2> QED
    BY <1>2, <1>3, <1>4, <1>5, <2>1
<1> QED
  BY <1>6, <1>7

\* The steps of an agent.
FileStep(a) == (\E scope \in Scopes : Write(a, scope)) \/ Reread(a) \/ Claim(a) \/ Finish(a) \/ Mark(a)

LEMMA AgentSteps ==
  ASSUME NEW a \in Agents, Writes(a) \/ Reads(a) \/ Notifies(a) \/ Crash(a)
  PROVE  FileStep(a) \/ HashStep(a) \/ QuietStep(a) \/ Send(a)
BY DEF Writes, Reads, Notifies, FileStep, HashStep, QuietStep

\* What no step of one of these kinds changes.
LEMMA FileFrames ==
  ASSUME Inv, NEW a \in Agents, FileStep(a)
  PROVE  /\ redis' = redis /\ clear' = clear /\ held' = held /\ cleared' = cleared
         /\ delivered' = delivered \/ delivered' = Unpaged
         /\ last' = last \/ (last' = last + 1 /\ last' \in Events)
         /\ lock \in {Nobody, a} /\ loc[a].pc \in {"idle", "relock", "notice", "finish", "mark"}
         /\ lock' = lock \/ (lock = Nobody /\ lock' = a) \/ (lock = a /\ lock' = Nobody)
<1>1. ASSUME NEW scope \in Scopes, Write(a, scope)
      PROVE  /\ redis' = redis /\ clear' = clear /\ held' = held /\ cleared' = cleared /\ delivered' = delivered
             /\ last' = last \/ (last' = last + 1 /\ last' \in Events)
             /\ lock = Nobody /\ lock' = a /\ loc[a].pc = "idle"
  <2>1. last' = last \/ (last' = last + 1 /\ last' \in Events)
    BY <1>1, WriteMoves DEF Inv
  <2> QED
    BY <1>1, <2>1 DEF Write, Acquires, At, Ghosts
<1>2. CASE Reread(a)
  <2>1. lock' = lock \/ lock' = a
    BY <1>2 DEF Reread
  <2>2. loc[a].pc = "relock" /\ lock = Nobody
    BY <1>2 DEF Reread, At, Ghosts
  <2>3. redis' = redis /\ clear' = clear /\ last' = last /\ held' = held /\ cleared' = cleared /\ delivered' = delivered
    BY <1>2 DEF Reread, At, Ghosts
  <2> QED
    BY <2>1, <2>2, <2>3
<1>3. CASE Claim(a)
  <2>1. lock' = lock \/ lock' = a
    BY <1>3, ClaimMoves DEF Inv
  <2>2. loc[a].pc = "notice" /\ lock = Nobody
    BY <1>3 DEF Claim, MayPage, At, Ghosts
  <2>3. redis' = redis /\ clear' = clear /\ last' = last /\ held' = held /\ cleared' = cleared /\ delivered' = delivered
    BY <1>3 DEF Claim, MayPage, At, Ghosts
  <2> QED
    BY <2>1, <2>2, <2>3
<1>4. CASE Finish(a)
  <2>1. redis' = redis /\ clear' = clear /\ held' = held /\ cleared' = cleared /\ last' = last
    BY <1>4 DEF Finish
  <2> QED
    BY <1>4, <2>1, FinishMoves DEF Inv
<1>5. CASE Mark(a)
  <2>1. lock' = lock \/ lock' = a
    BY <1>5, MarkMoves DEF Inv
  <2>2. loc[a].pc = "mark" /\ lock = Nobody
    BY <1>5 DEF Mark, At, Ghosts
  <2>3. redis' = redis /\ clear' = clear /\ last' = last /\ held' = held /\ cleared' = cleared /\ delivered' = delivered
    BY <1>5 DEF Mark, At, Ghosts
  <2> QED
    BY <2>1, <2>2, <2>3
<1> QED
  BY <1>1, <1>2, <1>3, <1>4, <1>5 DEF FileStep

LEMMA FaultTypes ==
  ASSUME faults \in 0..MaxFaults, faults' = faults \/ Fault
  PROVE  faults' \in 0..MaxFaults
BY LatchAssumption DEF Fault

\* An agent that writes files goes where its record is present and, if it holds one, has the lock.
Goer(a) ==
  /\ loc' \in [Agents -> Locs] /\ Others(a) /\ loc'[a].pc \notin {"redis", "blind"}
  /\ loc'[a].pc \in InHand => Present(loc'[a].rec)
  /\ loc'[a].pc \in Holding => lock' = a

LEMMA FileTypes ==
  ASSUME Inv, NEW a \in Agents, FileStep(a)
  PROVE  /\ Goer(a) /\ file' \in Replicas
         /\ attempts' \in [Agents -> [Events -> 0..Told]] /\ faults' \in 0..MaxFaults
<1>a. /\ TypeOK /\ Owners /\ file \in Replicas /\ attempts \in [Agents -> [Events -> 0..Told]]
      /\ faults \in 0..MaxFaults /\ W(a) \in Workers
  BY TypeParts, ReplicaTypes DEF Inv
<1>1. ASSUME NEW scope \in Scopes, Write(a, scope)
      PROVE  /\ Goer(a) /\ file' \in Replicas
             /\ attempts' \in [Agents -> [Events -> 0..Told]] /\ faults' \in 0..MaxFaults
  <2>1. PICK r \in Records, read \in {Existing(a), None} :
          /\ Puts(r, W(a)) /\ (read = Existing(a) \/ file' = file)
          /\ loc' \in [Agents -> Locs] /\ Others(a) /\ loc'[a].pc = "writeDev"
          /\ \/ loc'[a].rec = r /\ faults' = faults
             \/ loc'[a].rec = Loosened(r) /\ Fault
    BY <1>1, <1>a, WriteMoves
  <2>2. file' \in Replicas
    BY <1>a, <2>1, PutFacts
  <2>3. faults' \in 0..MaxFaults
    BY <1>a, <2>1, FaultTypes
  <2>4. Present(loc'[a].rec)
    BY <2>1, Presence, Copies
  <2>5. lock' = a /\ attempts' = attempts
    BY <1>1 DEF Write, Acquires
  <2> QED
    BY <1>a, <2>1, <2>2, <2>3, <2>4, <2>5 DEF Goer
<1>2. ASSUME Reread(a)
      PROVE  /\ Goer(a) /\ file' \in Replicas
             /\ attempts' \in [Agents -> [Events -> 0..Told]] /\ faults' \in 0..MaxFaults
  <2>1. attempts' = attempts
    BY <1>2 DEF Reread
  <2>2. /\ loc' \in [Agents -> Locs] /\ Others(a)
        /\ \/ loc'[a].pc = "idle" /\ UNCHANGED <<file, lock, faults>>
           \/ /\ View(W(a)) \in Records /\ lock' = a /\ loc'[a].pc = "hydrateDev"
              /\ loc'[a].rec \in {View(W(a)), Loosened(View(W(a)))}
              /\ (file' = file \/ Puts(View(W(a)), W(a)))
              /\ (faults' = faults \/ Fault)
    BY <1>2, <1>a, RereadMoves DEF Puts
  <2>3. CASE loc'[a].pc = "idle" /\ UNCHANGED <<file, lock, faults>>
    BY <1>a, <2>1, <2>2, <2>3 DEF Goer, InHand, Holding, Writing
  <2>4. CASE /\ View(W(a)) \in Records /\ lock' = a /\ loc'[a].pc = "hydrateDev"
             /\ loc'[a].rec \in {View(W(a)), Loosened(View(W(a)))}
             /\ (file' = file \/ Puts(View(W(a)), W(a)))
             /\ (faults' = faults \/ Fault)
    <3>1. file' \in Replicas
      BY <1>a, <2>4, PutFacts
    <3>2. faults' \in 0..MaxFaults
      BY <1>a, <2>4, FaultTypes
    <3>3. Present(loc'[a].rec)
      BY <2>4, Presence, Copies
    <3> QED
      BY <1>a, <2>1, <2>2, <2>4, <3>1, <3>2, <3>3 DEF Goer
  <2> QED
    BY <2>2, <2>3, <2>4
<1>3. ASSUME Claim(a)
      PROVE  /\ Goer(a) /\ file' \in Replicas
             /\ attempts' \in [Agents -> [Events -> 0..Told]] /\ faults' \in 0..MaxFaults
  <2>1. loc[a].rec \in Records /\ loc' \in [Agents -> Locs] /\ Others(a) /\ attempts[a][loc[a].rec.gen] < MaxAttempts
    BY <1>3, <1>a, ClaimMoves
  <2>2. attempts' \in [Agents -> [Events -> 0..Told]]
    <3>1. \/ attempts' = attempts \/ Attempted(a, loc[a].rec, Told)
          \/ Attempted(a, loc[a].rec, attempts[a][loc[a].rec.gen] + 1)
      BY <1>3, <1>a, ClaimMoves
    <3> QED
      BY <1>a, <2>1, <3>1, AttemptTypes
  <2>3. \/ /\ loc'[a].pc \in {"idle", "mark"} /\ (loc'[a].pc = "mark" => loc'[a].rec \in Records)
           /\ file' = file /\ faults' = faults
        \/ \E mine \in Records :
             /\ Puts(mine, loc[a].rec.w) /\ (faults' = faults \/ Fault)
             /\ loc'[a].pc \in {"mark", "send"} /\ (loc'[a].pc = "send" => lock' = a)
             /\ loc'[a].rec \in Records
    BY <1>3, <1>a, ClaimMoves DEF Puts
  <2>4. file' \in Replicas /\ loc[a].rec.w \in Workers
    BY <1>a, <2>1, <2>3, Presence, PutFacts
  <2>5. faults' \in 0..MaxFaults
    BY <1>a, <2>3, FaultTypes
  <2>6. /\ loc'[a].pc \in {"idle", "mark", "send"} /\ (loc'[a].pc = "send" => lock' = a)
        /\ (loc'[a].pc \in {"mark", "send"} => loc'[a].rec \in Records)
    BY <2>3
  <2>7. Goer(a)
    BY <2>1, <2>6, Presence DEF Goer, InHand, Holding, Writing
  <2> QED
    BY <2>2, <2>4, <2>5, <2>7
<1>4. ASSUME Finish(a)
      PROVE  /\ Goer(a) /\ file' \in Replicas
             /\ attempts' \in [Agents -> [Events -> 0..Told]] /\ faults' \in 0..MaxFaults
  <2>1. attempts' = attempts
    BY <1>4 DEF Finish
  <2>2. /\ loc[a].rec \in Records /\ loc' \in [Agents -> Locs] /\ Others(a) /\ loc'[a].pc = "mark"
        /\ loc'[a].rec = loc[a].rec /\ Puts(loc[a].rec, loc[a].rec.w) /\ (faults' = faults \/ Fault)
    BY <1>4, <1>a, FinishMoves DEF Puts
  <2>3. file' \in Replicas
    BY <1>a, <2>2, Presence, PutFacts
  <2>4. faults' \in 0..MaxFaults
    BY <1>a, <2>2, FaultTypes
  <2>5. Goer(a)
    BY <2>2, Presence DEF Goer, InHand, Holding, Writing
  <2> QED
    BY <1>a, <2>1, <2>3, <2>4, <2>5
<1>5. ASSUME Mark(a)
      PROVE  /\ Goer(a) /\ file' \in Replicas
             /\ attempts' \in [Agents -> [Events -> 0..Told]] /\ faults' \in 0..MaxFaults
  <2>1. /\ loc[a].rec \in Records /\ loc' \in [Agents -> Locs] /\ Others(a) /\ MarkedWorker(a) \in Workers
        /\ \/ loc'[a].pc = "idle" /\ UNCHANGED <<file, lock, faults>>
           \/ \E new \in Records :
                /\ Puts(new, MarkedWorker(a)) /\ (faults' = faults \/ Fault)
                /\ \/ loc'[a].pc = "idle"
                   \/ loc'[a].pc = "markDev" /\ lock' = a /\ loc'[a].rec = Alias(new, MarkedWorker(a))
    BY <1>5, <1>a, MarkMoves DEF Puts
  <2>2. file' \in Replicas
    BY <1>a, <2>1, PutFacts
  <2>3. faults' \in 0..MaxFaults
    BY <1>a, <2>1, FaultTypes
  <2>4. loc'[a].pc = "idle" \/ (loc'[a].pc = "markDev" /\ lock' = a /\ loc'[a].rec \in Records)
    BY <2>1, Copies
  <2>5. Goer(a)
    BY <2>1, <2>4, Presence DEF Goer, InHand, Holding, Writing
  <2>6. attempts' \in [Agents -> [Events -> 0..Told]]
    <3>1. attempts' = attempts \/ Attempted(a, loc[a].rec, Told)
      BY <1>5 DEF Mark
    <3> QED
      BY <1>a, <2>1, <3>1, AttemptTypes
  <2> QED
    BY <2>2, <2>3, <2>5, <2>6
<1> QED
  BY <1>1, <1>2, <1>3, <1>4, <1>5 DEF FileStep

LEMMA DeliveryTypes ==
  ASSUME TypeOK, delivered' = delivered \/ delivered' = Unpaged
  PROVE  delivered' \in [Events -> 0..2]
BY TypeParts DEF Unpaged

LEMMA FileBasics ==
  ASSUME Inv, NEW a \in Agents, FileStep(a)
  PROVE  TypeOK' /\ Owners'
<1>a. TypeOK /\ Owners /\ redis \in Replicas /\ clear \in Clearings /\ last \in 0..MaxEvents /\ held \in BOOLEAN
      /\ cleared \subseteq Events /\ MaxEvents \in Nat /\ lock \in Agents \cup {Operator, Nobody}
  BY TypeParts, LatchAssumption DEF Inv
<1>1. /\ Goer(a) /\ file' \in Replicas
      /\ attempts' \in [Agents -> [Events -> 0..Told]] /\ faults' \in 0..MaxFaults
  BY FileTypes
<1>2. /\ redis' = redis /\ clear' = clear /\ held' = held /\ cleared' = cleared
      /\ (delivered' = delivered \/ delivered' = Unpaged)
  BY FileFrames
<1>3. last' \in 0..MaxEvents /\ (lock' = lock \/ (lock = Nobody /\ lock' = a) \/ (lock = a /\ lock' = Nobody))
  BY <1>a, FileFrames DEF Events
<1>4. lock' \in Agents \cup {Operator, Nobody}
  BY <1>a, <1>3
<1>5. Owners'
  BY <1>a, <1>1, <1>2, <1>3, OwnerFrame DEF Goer
<1>6. delivered' \in [Events -> 0..2]
  BY <1>a, <1>2, DeliveryTypes
<1>7. loc' \in [Agents -> Locs]
  BY <1>1 DEF Goer
<1> QED
  BY <1>a, <1>1, <1>2, <1>3, <1>4, <1>5, <1>6, <1>7 DEF TypeOK, Locs, Clearings

LEMMA HashBasics ==
  ASSUME Inv, NEW a \in Agents, HashStep(a)
  PROVE  TypeOK' /\ Owners'
<1>a. TypeOK /\ Owners /\ redis \in Replicas /\ held \in BOOLEAN /\ faults \in 0..MaxFaults /\ W(a) \in Workers
  BY TypeParts, ReplicaTypes DEF Inv
<1>1. /\ loc[a].rec \in Records /\ loc[a].pc \in Holding /\ loc[a].pc \notin {"send", "finish"} /\ lock = a
      /\ loc' \in [Agents -> Locs] /\ Others(a) /\ (KeepsOn(a) \/ GivesBack(a))
      /\ Puttings(a) /\ Acks(a) /\ (faults' = faults \/ Fault)
      /\ UNCHANGED <<file, attempts, clear, last, cleared, delivered>>
  BY HashMoves
<1>2. redis' \in Replicas
  <2>1. Alias(loc[a].rec, W(a)) \in Records /\ loc[a].rec.w \in Workers
    BY <1>a, <1>1, Copies, Presence
  <2> QED
    BY <1>a, <1>1, <2>1, HashWrites DEF Puttings
<1>3. faults' \in 0..MaxFaults
  BY <1>a, <1>1, FaultTypes
<1>4. held' \in BOOLEAN
  <2>1. loc[a].ok \in BOOLEAN
    BY TypeParts DEF Inv, Locs
  <2> QED
    BY <1>a, <1>1, <2>1 DEF Acks
<1>5. lock' = lock \/ lock' = Nobody
  BY <1>1 DEF KeepsOn, GivesBack
<1>6. /\ loc'[a].pc \notin {"redis", "blind"}
      /\ loc'[a].pc \in InHand => Present(loc'[a].rec)
      /\ loc'[a].pc \in Holding => lock' = a
  BY <1>1, Presence DEF KeepsOn, GivesBack, InHand, Holding, Writing
<1>7. Owners'
  BY <1>a, <1>1, <1>5, <1>6, OwnerFrame
<1> QED
  BY <1>a, <1>1, <1>2, <1>3, <1>4, <1>5, <1>7, TypeParts DEF TypeOK, Locs

LEMMA QuietBasics ==
  ASSUME Inv, NEW a \in Agents, QuietStep(a)
  PROVE  TypeOK' /\ Owners'
<1>a. TypeOK /\ Owners /\ faults \in 0..MaxFaults /\ lock \in Agents \cup {Operator, Nobody}
  BY TypeParts DEF Inv
<1>1. /\ loc' \in [Agents -> Locs] /\ Others(a) /\ loc'[a].pc \in {"idle", "notice", "relock", "mark"}
      /\ (loc'[a].pc \in {"notice", "mark"} => Present(loc'[a].rec))
      /\ (lock' = lock \/ (lock = a /\ lock' = Nobody))
      /\ attempts' \in [Agents -> [Events -> 0..Told]] /\ (faults' = faults \/ Fault)
      /\ UNCHANGED <<file, redis, clear, last, held, cleared>>
      /\ (delivered' = delivered \/ delivered' = Unpaged)
  BY QuietMoves
<1>2. faults' \in 0..MaxFaults
  BY <1>a, <1>1, FaultTypes
<1>3. delivered' \in [Events -> 0..2]
  BY <1>a, <1>1, DeliveryTypes
<1>4. loc'[a].pc \notin Holding /\ (loc'[a].pc \in InHand => Present(loc'[a].rec))
  BY <1>1 DEF Holding, Writing, InHand
<1>5. Owners'
  BY <1>a, <1>1, <1>4, OwnerFrame
<1> QED
  BY <1>a, <1>1, <1>2, <1>3, <1>5, TypeParts DEF TypeOK, Locs

LEMMA SendBasics ==
  ASSUME Inv, NEW a \in Agents, Send(a)
  PROVE  TypeOK' /\ Owners' /\ loc[a].rec.gen \in Events /\ delivered[loc[a].rec.gen] = 0
<1>a. TypeOK /\ Owners /\ delivered \in [Events -> 0..2]
  BY TypeParts DEF Inv
<1>1. /\ loc[a].pc = "send" /\ loc[a].rec \in Records /\ lock = a
      /\ loc' \in [Agents -> Locs] /\ Others(a) /\ loc'[a].pc = "finish"
      /\ loc'[a].rec \in Records /\ From(loc'[a].rec, loc[a].rec)
      /\ UNCHANGED <<file, redis, lock, attempts, clear, last, faults, held, cleared>>
      /\ \/ loc'[a].rec.page = "sent" /\ delivered' = [delivered EXCEPT ![loc[a].rec.gen] = @ + 1]
         \/ delivered' = delivered
  BY <1>a, SendMoves
<1>2. loc[a].rec.gen \in Events
  BY <1>1, Presence
<1>3. delivered[loc[a].rec.gen] = 0
  <2>1. ~(delivered[loc[a].rec.gen] > 0)
    BY <1>1, <1>2 DEF Inv, Rest, Pages3, NotAgain, Holding
  <2> QED
    BY <1>a, <1>2, <2>1
<1>4. delivered' \in [Events -> 0..2]
  BY <1>a, <1>1, <1>2, <1>3
<1>5. Owners'
  BY <1>a, <1>1, Presence, OwnerFrame DEF InHand, Holding
<1> QED
  BY <1>a, <1>1, <1>2, <1>3, <1>4, <1>5, TypeParts DEF TypeOK, Locs

-----------------------------------------------------------------------------
(* A step that writes files keeps the rest of the invariant, if what it    *)
(* writes is good and says of a page that it was sent.                     *)

\* What is written, when anything is.
Writable(S, O, r, w) ==
  /\ Puts(r, w)
  /\ file' # file => /\ StaysGood(S, O, r)
                     /\ r.scope = "worker" => r.w = w
                     /\ \A g \in Events : delivered'[g] > 0 /\ r.gen = g => r.page = "sent"

\* What is in the hands of the writer afterwards.
Carried(S, O, a) ==
  /\ loc'[a].pc \in Holding => StaysGood(S, O, loc'[a].rec)
  /\ Filing(a)'
  /\ \A g \in Events : delivered'[g] > 0 => NotAgain(a, g)'

\* The files said it before, or the page is what is filed.
Said(r, w) == \A g \in Events : delivered'[g] > 0 =>
  FilesSay(g) \/ (file' = Filed(r, w) /\ r.gen = g /\ r.page = "sent")

FileFrame(a) ==
  /\ redis' = redis /\ clear' = clear /\ held' = held /\ cleared' = cleared
  /\ (delivered' = delivered \/ delivered' = Unpaged)
  /\ (last' = last \/ last' = last + 1)
  /\ lock \in {Nobody, a} /\ Others(a)

LEMMA FilePuts ==
  ASSUME TypeOK, Owners, Rest, NEW S \in [Events -> Scopes], NEW O \in [Events -> Workers \cup {Nobody}], Named(S, O),
         NEW a \in Agents, NEW r \in Records, NEW w \in Workers,
         TypeOK', FileFrame(a), Writable(S, O, r, w), Said(r, w), Carried(S, O, a)
  PROVE  Rest' /\ Named(S, O)'
<1>a. /\ file' \in Replicas
      /\ (file'.dev = file.dev \/ (r.scope = "gpu" /\ file'.dev = r))
      /\ \A x \in Workers : \/ file'.wrk[x] = file.wrk[x]
                            \/ x = w /\ file'.wrk[x] = Alias(r, w) /\ (r.scope = "gpu" => file'.dev = r)
      /\ (file' = Filed(r, w) => (r.scope = "gpu" => file'.dev = r) /\ file'.wrk[w] = Alias(r, w))
  BY PutFacts DEF Writable
<1>b. /\ Alias(r, w) \in Records /\ Alias(r, w).gen = r.gen /\ Alias(r, w).scope = r.scope
      /\ Alias(r, w).page = r.page /\ Alias(r, w).w = w
  BY Copies
<1>c. \A b \in Agents : b # a => loc'[b] = loc[b] /\ loc[b].pc \notin Holding
  BY LatchAssumption DEF FileFrame, Others, Owners
<1>d. clear.pc = "idle"
  BY LatchAssumption, TypeParts DEF FileFrame, Owners, Clearings
<1>e. /\ redis' = redis /\ clear' = clear /\ held' = held /\ cleared' = cleared
      /\ last \in Nat /\ last' \in Nat /\ last <= last'
  BY TypeParts, LatchAssumption DEF FileFrame
<1>f. \A g \in Events : delivered'[g] > 0 => delivered[g] > 0 /\ delivered'[g] = delivered[g]
  BY TypeParts DEF FileFrame, Unpaged
<1>h. Present(r) /\ Present(Alias(r, w)) /\ r.gen \in Events /\ r.gen \in Nat /\ r.scope \in {"gpu", "worker"}
  BY <1>b, Presence
\* A record is not lost from the files.
<1>k. /\ Present(file.dev) => Present(file'.dev)
      /\ \A x \in Workers : Present(file.wrk[x]) => Present(file'.wrk[x])
  BY <1>a, <1>h
\* A file that changes is good.
<1>l. /\ file'.dev # file.dev => file' # file /\ file'.dev = r /\ r.scope = "gpu"
      /\ \A x \in Workers : file'.wrk[x] # file.wrk[x] => file' # file /\ x = w /\ file'.wrk[x] = Alias(r, w)
  BY <1>a
<1>m. \A v : Good(S, O, v) /\ v.gen \in Nat => StaysGood(S, O, v)
  BY <1>e DEF Good, StaysGood
<1>n. /\ file.dev \in Records \cup {None} /\ redis.dev \in Records \cup {None}
      /\ \A x \in Workers : file.wrk[x] \in Records \cup {None} /\ redis.wrk[x] \in Records \cup {None}
  BY ReplicaTypes
<1>1. Named(S, O)'
  <2>1. Present(file'.dev) => StaysGood(S, O, file'.dev)
    <3>1. CASE file'.dev = file.dev
      BY <1>m, <1>n, <3>1, Presence DEF Named
    <3>2. CASE file'.dev # file.dev
      BY <1>l, <3>2 DEF Writable
    <3> QED
      BY <3>1, <3>2
  <2>2. \A x \in Workers : Present(file'.wrk[x]) => StaysGood(S, O, file'.wrk[x])
    <3> SUFFICES ASSUME NEW x \in Workers, Present(file'.wrk[x]) PROVE StaysGood(S, O, file'.wrk[x])
      OBVIOUS
    <3>1. CASE file'.wrk[x] = file.wrk[x]
      BY <1>m, <1>n, <3>1, Presence DEF Named
    <3>2. CASE file'.wrk[x] # file.wrk[x]
      BY <1>b, <1>l, <3>2 DEF Writable, StaysGood
    <3> QED
      BY <3>1, <3>2
  <2>3. Present(redis'.dev) => StaysGood(S, O, redis'.dev)
    BY <1>e, <1>m, <1>n, Presence DEF Named
  <2>4. \A x \in Workers : Present(redis'.wrk[x]) => StaysGood(S, O, redis'.wrk[x])
    BY <1>e, <1>m, <1>n, Presence DEF Named
  <2>5. \A b \in Agents : loc'[b].pc \in Holding => StaysGood(S, O, loc'[b].rec)
    BY <1>c DEF Carried
  <2> QED
    BY <2>1, <2>2, <2>3, <2>4, <2>5 DEF Named, Good, StaysGood
<1>2. Placed'
  <2>1. Present(file'.dev) => file'.dev.scope = "gpu"
    BY <1>l DEF Rest, Placed
  <2>2. ASSUME NEW x \in Workers, Physical(file'.wrk[x]) PROVE Present(file'.dev)
    <3>1. CASE file'.wrk[x] = file.wrk[x]
      BY <1>k, <2>2, <3>1 DEF Rest, Placed
    <3>2. CASE file'.wrk[x] # file.wrk[x]
      BY <1>a, <1>b, <1>h, <2>2, <3>2 DEF Physical
    <3> QED
      BY <3>1, <3>2
  <2>3. ASSUME NEW x \in Workers, Present(file'.wrk[x]) PROVE file'.wrk[x].w = x
    BY <1>b, <1>l, <2>3 DEF Rest, Placed
  <2>4. \A x \in Workers : Present(redis'.wrk[x]) => redis'.wrk[x].w = x
    BY <1>e DEF Rest, Placed
  <2> QED
    BY <2>1, <2>2, <2>3, <2>4 DEF Placed, Physical, Present
<1>3. Counted'
  BY <1>d, <1>e, <1>f DEF Rest, Counted, Events
<1>4. Acked'
  BY <1>e, <1>k DEF Rest, Acked, Present
<1>5. Pages1'
  <2> SUFFICES ASSUME NEW g \in Events, delivered'[g] > 0
               PROVE  delivered'[g] = 1 /\ FilesSay(g)'
    BY DEF Pages1
  <2>1. delivered'[g] = 1
    BY <1>f DEF Rest, Pages1
  <2>2. CASE FilesSay(g)
    <3>1. Sent(file'.dev, g)
      BY <1>l, <2>2 DEF FilesSay, Sent, Holds, Writable
    <3>2. ASSUME NEW x \in Workers, ~Physical(file'.wrk[x]) PROVE Sent(file'.wrk[x], g)
      BY <1>b, <1>l, <2>2, <3>2 DEF FilesSay, Sent, Holds, Writable
    <3> QED
      BY <2>1, <3>1, <3>2 DEF FilesSay, Sent, Holds, Physical, Present
  <2>3. CASE file' = Filed(r, w) /\ r.gen = g /\ r.page = "sent"
    <3>1. CASE r.scope = "gpu"
      <4>1. file'.dev = r
        BY <1>a, <2>3, <3>1
      <4>2. ASSUME NEW x \in Workers, ~Physical(file'.wrk[x]), Holds(file'.wrk[x], g) PROVE FALSE
        <5>1. S[g] = "gpu"
          BY <1>1, <1>h, <2>3, <3>1, <4>1 DEF Named, Good
        <5>2. file'.wrk[x].scope = S[g]
          BY <1>1, <4>2 DEF Named, Good, Holds
        <5> QED
          BY <4>2, <5>1, <5>2 DEF Holds, Physical
      <4> QED
        BY <2>1, <2>3, <4>1, <4>2 DEF FilesSay, Sent, Holds, Physical, Present
    <3>2. CASE r.scope = "worker"
      <4>1. file'.wrk[w] = Alias(r, w)
        BY <1>a, <2>3
      <4>2. S[g] = "worker" /\ O[g] = w
        BY <1>1, <1>b, <1>h, <2>3, <3>2, <4>1 DEF Named, Good
      <4>3. ~Holds(file'.dev, g)
        BY <1>1, <1>2, <4>2 DEF Named, Good, Placed, Holds
      <4>4. ASSUME NEW x \in Workers, Holds(file'.wrk[x], g) PROVE file'.wrk[x].page = "sent"
        <5>1. file'.wrk[x].w = x /\ file'.wrk[x].w = O[g]
          BY <1>1, <1>2, <4>2, <4>4 DEF Named, Good, Placed, Holds
        <5> QED
          BY <1>b, <2>3, <4>1, <4>2, <5>1
      <4> QED
        BY <2>1, <4>3, <4>4 DEF FilesSay, Sent, Holds, Physical, Present
    <3> QED
      BY <1>h, <3>1, <3>2
  <2> QED
    BY <2>1, <2>2, <2>3 DEF Said
<1>6. Pages2'
  <2> SUFFICES ASSUME NEW g \in Events, delivered'[g] > 0
               PROVE  NotInRedis(g)'
    BY DEF Pages2
  <2>1. NotInRedis(g)
    BY <1>f DEF Rest, Pages2
  <2> QED
    BY <1>d, <1>e, <1>k, <2>1 DEF NotInRedis, Present, Physical, Holds
<1>7. Pages3'
  <2> SUFFICES ASSUME NEW g \in Events, delivered'[g] > 0, NEW b \in Agents
               PROVE  NotAgain(b, g)'
    BY DEF Pages3
  <2>1. CASE b = a
    BY <2>1 DEF Carried
  <2>2. CASE b # a
    BY <1>c, <2>2 DEF NotAgain
  <2> QED
    BY <2>1, <2>2
<1>8. \A b \in Agents : Filing(b)'
  <2> SUFFICES ASSUME NEW b \in Agents PROVE Filing(b)'
    OBVIOUS
  <2>1. CASE b = a
    BY <2>1 DEF Carried
  <2>2. CASE b # a
    BY <1>c, <2>2 DEF Filing, Holding, Writing
  <2> QED
    BY <2>1, <2>2
<1> QED
  BY <1>1, <1>2, <1>3, <1>4, <1>5, <1>6, <1>7, <1>8 DEF Rest

-----------------------------------------------------------------------------
(* The steps that write files.                                             *)

\* A generation that is not there yet may be given any scope and owner.
LEMMA Renaming ==
  ASSUME TypeOK, Owners, NEW S \in [Events -> Scopes], NEW O \in [Events -> Workers \cup {Nobody}], Named(S, O),
         NEW scope \in Scopes, NEW w \in Workers
  PROVE  LET T == [S EXCEPT ![last + 1] = scope]
             P == [O EXCEPT ![last + 1] = w]
         IN T \in [Events -> Scopes] /\ P \in [Events -> Workers \cup {Nobody}] /\ Named(T, P)
<1> DEFINE T == [S EXCEPT ![last + 1] = scope]
           P == [O EXCEPT ![last + 1] = w]
<1>1. T \in [Events -> Scopes] /\ P \in [Events -> Workers \cup {Nobody}]
  OBVIOUS
<1>2. last \in Nat
  BY TypeParts
<1>3. \A r \in Records : Good(S, O, r) => Good(T, P, r)
  <2> SUFFICES ASSUME NEW r \in Records, Good(S, O, r) PROVE Good(T, P, r)
    OBVIOUS
  <2>1. r.gen \in Events /\ r.gen \in Nat /\ r.gen # last + 1
    BY <1>2, Presence DEF Good
  <2>2. T[r.gen] = S[r.gen] /\ P[r.gen] = O[r.gen]
    BY <2>1
  <2> QED
    BY <2>2 DEF Good
<1>4. \A a \in Agents : loc[a].pc \in Holding => loc[a].rec \in Records
  BY ReplicaTypes, Presence DEF Owners, InHand
<1> HIDE DEF T, P
<1>6. Named(T, P)
  BY <1>3, <1>4, ReplicaTypes, Presence DEF Named
<1> QED
  BY <1>1, <1>6 DEF T, P

\* When nobody has the lock, nothing is on its way.
LEMMA Unheld ==
  ASSUME TypeOK, Owners, Rest, NEW a \in Agents, lock \in {Nobody, a}
  PROVE  /\ clear.pc = "idle" /\ \A b \in Agents : b # a => loc[b].pc \notin Holding
         /\ lock = Nobody => loc[a].pc \notin Holding
         /\ loc[a].pc # "finish" => \A g \in Events : delivered[g] > 0 => FilesSay(g)
<1>1. clear.pc = "idle"
  BY LatchAssumption, TypeParts DEF Owners, Clearings
<1>2. /\ \A b \in Agents : b # a => loc[b].pc \notin Holding
      /\ lock = Nobody => loc[a].pc \notin Holding
  BY LatchAssumption DEF Owners
<1>3. ASSUME loc[a].pc # "finish", NEW g \in Events, delivered[g] > 0 PROVE FilesSay(g)
  <2>1. ~OnItsWay(g)
    BY <1>2, <1>3 DEF OnItsWay, Holding
  <2> QED
    BY <1>3, <2>1 DEF Rest, Pages1
<1> QED
  BY <1>1, <1>2, <1>3

LEMMA Frames ==
  ASSUME Inv, NEW a \in Agents, FileStep(a)
  PROVE  FileFrame(a) /\ TypeOK' /\ Owners'
BY FileFrames, FileTypes, FileBasics DEF FileFrame, Goer

LEMMA WriteKeeps ==
  ASSUME Inv, NEW a \in Agents, NEW scope \in Scopes, Write(a, scope)
  PROVE  Inv'
<1>1. PICK S0 \in [Events -> Scopes], O0 \in [Events -> Workers \cup {Nobody}] : Named(S0, O0)
  BY DEF Inv
<1>a. TypeOK /\ Owners /\ Rest /\ W(a) \in Workers /\ last \in Nat
  BY TypeParts, ReplicaTypes DEF Inv
<1>b. FileFrame(a) /\ TypeOK' /\ Owners'
  BY Frames DEF FileStep
<1>2. PICK r \in Records, read \in {Existing(a), None} :
           /\ Puts(r, W(a)) /\ (read = Existing(a) \/ file' = file)
           /\ IF Preserved(scope, read) THEN r = read /\ last' = last
              ELSE r = New(a, scope) /\ last' = last + 1 /\ last' \in Events
           /\ loc' \in [Agents -> Locs] /\ Others(a) /\ loc'[a].pc = "writeDev"
           /\ \/ loc'[a].rec = r /\ file' = Filed(r, W(a)) /\ read = Existing(a) /\ faults' = faults
              \/ loc'[a].rec = Loosened(r) /\ loc'[a].ok = FALSE /\ Fault
  BY <1>a, WriteMoves
<1>c. lock = Nobody /\ delivered' = delivered /\ cleared' = cleared /\ loc[a].pc = "idle"
  BY DEF Write, Acquires, Ghosts, At
<1>d. \A g \in Events : delivered[g] > 0 => FilesSay(g)
  BY <1>a, <1>c, Unheld
<1>e. /\ loc'[a].rec.gen = r.gen /\ loc'[a].rec.scope = r.scope /\ loc'[a].rec.w = r.w
      /\ (loc'[a].ok => file' = Filed(r, W(a)))
  <2>1. loc'[a].ok \in BOOLEAN
    BY <1>2 DEF Locs
  <2> QED
    BY <1>2, <2>1, Copies
<1>f. /\ (file' = Filed(r, W(a)) => (r.scope = "gpu" => file'.dev = r) /\ file'.wrk[W(a)] = Alias(r, W(a)))
      /\ Present(r) /\ Present(Alias(r, W(a))) /\ r.gen \in Events /\ r.gen \in Nat
  BY <1>a, <1>2, PutFacts, Copies, Presence
<1>g. file.dev \in Records \cup {None} /\ file.wrk[W(a)] \in Records \cup {None}
  BY <1>a, ReplicaTypes
<1>3. CASE Preserved(scope, read)
  <2>1. r = Existing(a) /\ last' = last
    BY <1>2, <1>3 DEF Preserved, Present
  <2>2. IF r.scope = "gpu" THEN r = file.dev /\ Present(file.dev)
        ELSE r = file.wrk[W(a)] /\ ~Physical(file.wrk[W(a)]) /\ r.w = W(a) /\ r.scope = "worker"
    BY <1>a, <1>f, <1>g, <2>1, Presence DEF Existing, Rest, Placed, Physical
  <2>3. Good(S0, O0, r)
    BY <1>1, <1>a, <1>f, <2>2 DEF Named
  <2>4. StaysGood(S0, O0, r) /\ StaysGood(S0, O0, loc'[a].rec)
    BY <1>c, <1>e, <2>1, <2>3 DEF Good, StaysGood
  <2>5. \A g \in Events : delivered'[g] > 0 /\ r.gen = g => r.page = "sent"
    <3> SUFFICES ASSUME NEW g \in Events, delivered[g] > 0, r.gen = g PROVE r.page = "sent"
      BY <1>c
    <3>1. Sent(file.dev, g) /\ (~Physical(file.wrk[W(a)]) => Sent(file.wrk[W(a)], g))
      BY <1>a, <1>d DEF FilesSay
    <3> QED
      BY <1>f, <2>2, <3>1 DEF Sent, Holds
  <2>6. Writable(S0, O0, r, W(a))
    BY <1>2, <2>2, <2>4, <2>5 DEF Writable
  <2>7. Said(r, W(a))
    BY <1>c, <1>d DEF Said
  <2>8. /\ Present(file'.dev) \/ ~Present(file.dev)
        /\ Present(file'.wrk[W(a)]) \/ ~Present(file.wrk[W(a)])
    BY <1>a, <1>2, <1>f, PutFacts
  <2>9. Filing(a)'
    BY <1>2, <1>e, <2>2, <2>8 DEF Filing, Writing, Present
  <2>10. \A g \in Events : NotAgain(a, g)'
    BY <1>2, <1>e, <1>f, <2>2, <2>8 DEF NotAgain, Present
  <2>11. Carried(S0, O0, a)
    BY <2>4, <2>9, <2>10 DEF Carried
  <2>12. Rest' /\ Named(S0, O0)'
    BY <1>1, <1>a, <1>b, <2>6, <2>7, <2>11, FilePuts
  <2> QED
    BY <1>b, <2>12 DEF Inv
<1>4. CASE ~Preserved(scope, read)
  <2>1. r = New(a, scope) /\ last' = last + 1 /\ last' \in Events
    BY <1>2, <1>4
  <2>2. r.gen = last + 1 /\ r.scope = scope /\ r.w = W(a)
    BY <2>1 DEF New
  <2>3. PICK S \in [Events -> Scopes], O \in [Events -> Workers \cup {Nobody}] :
          Named(S, O) /\ S[last + 1] = scope /\ O[last + 1] = W(a)
    <3> DEFINE T == [S0 EXCEPT ![last + 1] = scope]
               P == [O0 EXCEPT ![last + 1] = W(a)]
    <3>1. T \in [Events -> Scopes] /\ P \in [Events -> Workers \cup {Nobody}] /\ Named(T, P)
      BY <1>1, <1>a, Renaming
    <3>2. T[last + 1] = scope /\ P[last + 1] = W(a)
      BY <2>1
    <3> HIDE DEF T, P
    <3> QED
      BY <3>1, <3>2
  <2>5. last + 1 \notin cleared /\ ~(delivered[last + 1] > 0)
    BY <1>a, <2>1 DEF Rest, Counted
  <2>6. StaysGood(S, O, r) /\ StaysGood(S, O, loc'[a].rec)
    BY <1>a, <1>c, <1>e, <2>1, <2>2, <2>3, <2>5 DEF StaysGood
  <2>7. Writable(S, O, r, W(a))
    BY <1>2, <1>c, <2>2, <2>5, <2>6 DEF Writable
  <2>8. Said(r, W(a))
    BY <1>c, <1>d DEF Said
  <2>9. Filing(a)'
    BY <1>2, <1>e, <1>f, <2>2 DEF Filing, Writing, Present
  <2>10. \A g \in Events : delivered'[g] > 0 => NotAgain(a, g)'
    BY <1>c, <1>e, <2>2, <2>5 DEF NotAgain
  <2>11. Carried(S, O, a)
    BY <2>6, <2>9, <2>10 DEF Carried
  <2>12. Rest' /\ Named(S, O)'
    BY <1>a, <1>b, <2>3, <2>7, <2>8, <2>11, FilePuts
  <2> QED
    BY <1>b, <2>3, <2>12 DEF Inv
<1> QED
  BY <1>3, <1>4

\* A step of an agent that leaves the files, and has nothing in its hands.
LEMMA RestKeeps ==
  ASSUME Inv, NEW a \in Agents, FileStep(a), file' = file, loc'[a].pc \notin Holding,
         loc[a].pc # "finish"
  PROVE  Inv'
<1>1. PICK S \in [Events -> Scopes], O \in [Events -> Workers \cup {Nobody}] : Named(S, O)
  BY DEF Inv
<1>a. TypeOK /\ Owners /\ Rest /\ W(a) \in Workers
  BY TypeParts, ReplicaTypes DEF Inv
<1>b. FileFrame(a) /\ TypeOK' /\ Owners'
  BY Frames
<1>2. PICK r \in Records : TRUE
  <2>1. [gen |-> 1, scope |-> "gpu", page |-> "sent", loose |-> FALSE, w |-> W(a)] \in Records
    BY <1>a, LatchAssumption DEF Records, Events, Scopes, Pages
  <2> QED
    BY <2>1
<1>3. \A g \in Events : delivered'[g] > 0 => delivered[g] > 0
  BY <1>a, <1>b, TypeParts DEF FileFrame, Unpaged
<1>4. Said(r, W(a))
  BY <1>3, <1>a, <1>b, Unheld DEF Said, FileFrame
<1>5. Writable(S, O, r, W(a))
  BY DEF Writable, Puts, HalfFiled
<1>6. Carried(S, O, a)
  BY DEF Carried, Filing, NotAgain, Holding, Writing
<1>7. Rest' /\ Named(S, O)'
  BY <1>1, <1>a, <1>b, <1>4, <1>5, <1>6, FilePuts
<1> QED
  BY <1>b, <1>7 DEF Inv

LEMMA RereadKeeps ==
  ASSUME Inv, NEW a \in Agents, Reread(a)
  PROVE  Inv'
<1>1. PICK S \in [Events -> Scopes], O \in [Events -> Workers \cup {Nobody}] : Named(S, O)
  BY DEF Inv
<1>a. TypeOK /\ Owners /\ Rest /\ W(a) \in Workers
  BY TypeParts, ReplicaTypes DEF Inv
<1>b. FileFrame(a) /\ TypeOK' /\ Owners'
  BY Frames DEF FileStep
<1> DEFINE v == View(W(a))
<1>2. /\ loc' \in [Agents -> Locs] /\ Others(a) /\ lock = Nobody
      /\ \/ loc'[a].pc = "idle" /\ UNCHANGED <<file, lock, faults>>
         \/ /\ v \in Records /\ lock' = a /\ loc'[a].pc = "hydrateDev"
            /\ \/ /\ Ready(v, file.dev, file.wrk[W(a)])
                  /\ loc'[a].rec = v /\ UNCHANGED <<file, faults>>
               \/ /\ ~Ready(v, file.dev, file.wrk[W(a)])
                  /\ \/ loc'[a].rec = v /\ file' = Filed(v, W(a)) /\ UNCHANGED faults
                     \/ loc'[a].rec = Loosened(v) /\ file' \in HalfFiled(v, W(a)) /\ Fault
  BY <1>a, RereadMoves
<1>c. delivered' = delivered /\ cleared' = cleared /\ last' = last /\ loc[a].pc = "relock"
  BY DEF Reread, Ghosts, At
<1>d. /\ clear.pc = "idle" /\ \A g \in Events : delivered[g] > 0 => FilesSay(g)
  BY <1>a, <1>2, <1>c, Unheld
<1>e. /\ file.dev \in Records \cup {None} /\ redis.dev \in Records \cup {None}
      /\ file.wrk[W(a)] \in Records \cup {None} /\ redis.wrk[W(a)] \in Records \cup {None}
  BY <1>a, ReplicaTypes
<1>v. /\ v \in Records \cup {None}
      /\ (Physical(file.dev) => From(v, file.dev))
      /\ (~Physical(file.dev) /\ Physical(file.wrk[W(a)]) => From(v, file.wrk[W(a)]))
      /\ (~Physical(file.dev) /\ ~Physical(file.wrk[W(a)]) /\ Physical(redis.dev) => From(v, redis.dev))
      /\ (~Physical(file.dev) /\ ~Physical(file.wrk[W(a)]) /\ ~Physical(redis.dev) /\ Physical(redis.wrk[W(a)]) =>
            From(v, redis.wrk[W(a)]))
      /\ (~Physical(file.dev) /\ ~Physical(file.wrk[W(a)]) /\ ~Physical(redis.dev) /\ ~Physical(redis.wrk[W(a)]) =>
            v = IF Present(file.wrk[W(a)]) THEN file.wrk[W(a)] ELSE redis.wrk[W(a)])
  BY <1>e, Views DEF View
<1> HIDE DEF v
<1>f. (Present(file.dev) <=> Physical(file.dev)) /\ (Physical(file.wrk[W(a)]) => Physical(file.dev))
  BY <1>a DEF Rest, Placed, Physical
<1>3. ASSUME v \in Records
      PROVE  /\ Good(S, O, v) /\ (v.scope = "worker" => v.w = W(a))
             /\ (Ready(v, file.dev, file.wrk[W(a)]) =>
                   IF v.scope = "gpu" THEN Present(file.dev) ELSE Present(file.wrk[W(a)]))
             /\ (~Ready(v, file.dev, file.wrk[W(a)]) => ~(delivered[v.gen] > 0))
  <2>a. Present(v) /\ v.gen \in Events /\ v.scope \in {"gpu", "worker"}
    BY <1>3, Presence
  <2>b. Ready(v, file.dev, file.wrk[W(a)]) =>
          IF v.scope = "gpu" THEN Present(file.dev) ELSE Present(file.wrk[W(a)])
    BY DEF Ready
  <2>c. \A b : Good(S, O, b) /\ From(v, b) => Good(S, O, v)
    BY DEF Good, From
  <2>1. CASE Physical(file.dev)
    <3>1. From(v, file.dev) /\ file.dev.scope = "gpu"
      BY <1>v, <2>1 DEF Physical
    <3>2. Good(S, O, v)
      BY <1>1, <2>1, <2>c, <3>1 DEF Named, Physical
    <3>3. v.scope = "gpu" /\ Ready(v, file.dev, file.wrk[W(a)])
      BY <2>1, <3>1 DEF Ready, From, Physical
    <3> QED
      BY <2>b, <3>2, <3>3
  <2>2. CASE ~Physical(file.dev) /\ Physical(redis.dev)
    <3>1. From(v, redis.dev) /\ redis.dev.scope = "gpu"
      BY <1>f, <1>v, <2>2 DEF Physical
    <3>2. Good(S, O, v)
      BY <1>1, <2>2, <2>c, <3>1 DEF Named, Physical
    <3>3. v.scope = "gpu" /\ redis.dev.gen = v.gen
      BY <3>1 DEF From
    <3>4. ~(delivered[v.gen] > 0)
      BY <1>a, <1>d, <1>f, <2>2, <2>a, <3>3 DEF Rest, Pages2, NotInRedis
    <3> QED
      BY <2>b, <3>2, <3>3, <3>4
  <2>3. CASE ~Physical(file.dev) /\ ~Physical(redis.dev) /\ Physical(redis.wrk[W(a)])
    <3>1. From(v, redis.wrk[W(a)]) /\ redis.wrk[W(a)].scope = "gpu"
      BY <1>f, <1>v, <2>3 DEF Physical
    <3>2. Good(S, O, v)
      BY <1>1, <1>a, <2>3, <2>c, <3>1 DEF Named, Physical
    <3>3. v.scope = "gpu" /\ redis.wrk[W(a)].gen = v.gen
      BY <3>1 DEF From
    <3>4. ~(delivered[v.gen] > 0)
      BY <1>a, <1>d, <1>f, <2>3, <2>a, <3>3 DEF Rest, Pages2, NotInRedis
    <3> QED
      BY <2>b, <3>2, <3>3, <3>4
  <2>4. CASE ~Physical(file.dev) /\ ~Physical(redis.dev) /\ ~Physical(redis.wrk[W(a)])
    <3>1. v = IF Present(file.wrk[W(a)]) THEN file.wrk[W(a)] ELSE redis.wrk[W(a)]
      BY <1>f, <1>v, <2>4
    <3>2. CASE Present(file.wrk[W(a)])
      <4>1. v = file.wrk[W(a)]
        BY <3>1, <3>2
      <4>2. v.scope = "worker"
        BY <1>f, <2>4, <2>a, <3>2, <4>1 DEF Physical
      <4>3. Ready(v, file.dev, file.wrk[W(a)])
        BY <3>2, <4>1, <4>2 DEF Ready
      <4>4. Good(S, O, v) /\ v.w = W(a)
        BY <1>1, <1>a, <3>2, <4>1 DEF Named, Rest, Placed
      <4> QED
        BY <2>b, <4>3, <4>4
    <3>3. CASE ~Present(file.wrk[W(a)])
      <4>1. v = redis.wrk[W(a)]
        BY <3>1, <3>3
      <4>2. v.scope = "worker"
        BY <2>4, <2>a, <4>1 DEF Physical
      <4>3. Good(S, O, v) /\ v.w = W(a)
        BY <1>1, <1>a, <2>a, <4>1 DEF Named, Rest, Placed
      <4>4. ~(delivered[v.gen] > 0)
        BY <1>a, <1>d, <2>4, <2>a, <3>3, <4>1 DEF Rest, Pages2, NotInRedis, Holds
      <4> QED
        BY <2>b, <4>3, <4>4
    <3> QED
      BY <3>2, <3>3
  <2> QED
    BY <2>1, <2>2, <2>3, <2>4
<1>s. \A r \in Records : Said(r, W(a))
  BY <1>c, <1>d DEF Said
<1>4. CASE loc'[a].pc = "idle" /\ UNCHANGED <<file, lock, faults>>
  BY <1>4, <1>c, RestKeeps DEF FileStep, Holding, Writing
<1>5. CASE /\ v \in Records /\ lock' = a /\ loc'[a].pc = "hydrateDev"
           /\ \/ /\ Ready(v, file.dev, file.wrk[W(a)])
                 /\ loc'[a].rec = v /\ UNCHANGED <<file, faults>>
              \/ /\ ~Ready(v, file.dev, file.wrk[W(a)])
                 /\ \/ loc'[a].rec = v /\ file' = Filed(v, W(a)) /\ UNCHANGED faults
                    \/ loc'[a].rec = Loosened(v) /\ file' \in HalfFiled(v, W(a)) /\ Fault
  <2>1. loc'[a].rec.gen = v.gen /\ loc'[a].rec.scope = v.scope /\ loc'[a].rec.w = v.w
    BY <1>5, Copies
  <2>2. StaysGood(S, O, v) /\ StaysGood(S, O, loc'[a].rec)
    BY <1>3, <1>5, <1>c, <2>1 DEF Good, StaysGood
  <2>3. Puts(v, W(a)) /\ (Ready(v, file.dev, file.wrk[W(a)]) => file' = file)
    BY <1>5 DEF Puts, HalfFiled
  <2>4. Writable(S, O, v, W(a))
    BY <1>3, <1>5, <1>c, <2>2, <2>3 DEF Writable
  <2>5. Filing(a)'
    BY <1>3, <1>5, <2>1 DEF Filing, Writing
  <2>6. \A g \in Events : delivered'[g] > 0 => NotAgain(a, g)'
    <3> SUFFICES ASSUME NEW g \in Events, delivered[g] > 0, v.gen = g
                 PROVE  IF v.scope = "gpu" THEN Present(file'.dev) ELSE Present(file'.wrk[W(a)])
      BY <1>3, <1>5, <1>c, <2>1, Presence DEF NotAgain, Present
    <3>1. Ready(v, file.dev, file.wrk[W(a)])
      BY <1>3, <1>5
    <3>2. file' = file
      BY <2>3, <3>1
    <3> QED
      BY <1>3, <1>5, <3>1, <3>2
  <2>7. Carried(S, O, a)
    BY <2>2, <2>5, <2>6 DEF Carried
  <2>8. Rest' /\ Named(S, O)'
    BY <1>1, <1>5, <1>a, <1>b, <1>s, <2>4, <2>7, FilePuts
  <2> QED
    BY <1>b, <2>8 DEF Inv
<1> QED
  BY <1>2, <1>4, <1>5

LEMMA ClaimKeeps ==
  ASSUME Inv, NEW a \in Agents, Claim(a)
  PROVE  Inv'
<1>1. PICK S \in [Events -> Scopes], O \in [Events -> Workers \cup {Nobody}] : Named(S, O)
  BY DEF Inv
<1>a. TypeOK /\ Owners /\ Rest
  BY DEF Inv
<1>b. FileFrame(a) /\ TypeOK' /\ Owners' /\ FileStep(a)
  BY Frames DEF FileStep
<1> DEFINE r == loc[a].rec
           now == Claimable(r)
<1>2. /\ r \in Records /\ loc' \in [Agents -> Locs] /\ Others(a) /\ lock = Nobody
      /\ \/ loc'[a].pc = "idle" /\ UNCHANGED <<file, lock, faults>>
         \/ /\ now \in Records /\ now.gen = r.gen
            /\ \/ loc'[a].pc = "mark" /\ UNCHANGED <<file, lock, faults, attempts>>
               \/ \E mine \in Records :
                    /\ From(mine, now) /\ now.page # "sent"
                    /\ \/ /\ file' = Filed(mine, r.w) /\ lock' = a
                          /\ loc'[a].pc = "send" /\ loc'[a].rec = mine
                       \/ /\ file' \in HalfFiled(mine, r.w)
                          /\ loc'[a].pc = "mark"
  BY <1>a, ClaimMoves
<1>c. delivered' = delivered /\ cleared' = cleared /\ last' = last /\ loc[a].pc = "notice"
  BY DEF Claim, MayPage, Ghosts, At
<1>d. \A g \in Events : delivered[g] > 0 => FilesSay(g)
  BY <1>a, <1>2, <1>c, Unheld
<1>e. r.w \in Workers /\ r.scope \in {"gpu", "worker"}
  BY <1>2, Presence
<1>n. now \in Records =>
        /\ Present(now)
        /\ IF now.scope = "gpu" THEN now = file.dev
           ELSE now = file.wrk[r.w] /\ ~Present(file.dev) /\ now.w = r.w /\ now.scope = "worker"
  <2> SUFFICES ASSUME now \in Records
               PROVE  /\ Present(now)
                      /\ IF now.scope = "gpu" THEN now = file.dev
                         ELSE now = file.wrk[r.w] /\ ~Present(file.dev) /\ now.w = r.w /\ now.scope = "worker"
    OBVIOUS
  <2>0. Present(now)
    BY Presence
  <2>1. CASE r.scope = "gpu"
    <3>1. now = file.dev
      BY <2>1 DEF Claimable
    <3> QED
      BY <1>a, <2>0, <3>1 DEF Rest, Placed
  <2>2. CASE r.scope = "worker"
    <3>1. now = (IF Present(file.dev) THEN None
                 ELSE IF Present(file.wrk[r.w]) /\ file.wrk[r.w].scope = "worker" THEN file.wrk[r.w] ELSE None)
      BY <2>2 DEF Claimable
    <3>2. now # None
      BY <2>0 DEF Present
    <3>3. ~Present(file.dev) /\ now = file.wrk[r.w] /\ now.scope = "worker"
      BY <3>1, <3>2
    <3> QED
      BY <1>a, <1>e, <2>0, <3>3 DEF Rest, Placed
  <2> QED
    BY <1>e, <2>1, <2>2
<1> HIDE DEF r, now
<1>3. CASE loc'[a].pc \in {"idle", "mark"} /\ file' = file
  BY <1>3, <1>b, <1>c, RestKeeps DEF Holding, Writing
<1>4. ASSUME now \in Records, NEW mine \in Records, From(mine, now), now.page # "sent",
             \/ /\ file' = Filed(mine, r.w) /\ lock' = a
                /\ loc'[a].pc = "send" /\ loc'[a].rec = mine
             \/ /\ file' \in HalfFiled(mine, r.w)
                /\ loc'[a].pc = "mark"
      PROVE  Inv'
  <2>a. mine.gen = now.gen /\ mine.scope = now.scope /\ mine.w = now.w
    BY <1>4 DEF From
  <2>1. Good(S, O, now)
    BY <1>1, <1>4, <1>e, <1>n DEF Named
  <2>2. StaysGood(S, O, mine)
    BY <1>c, <2>1, <2>a DEF Good, StaysGood
  <2>3. ~(delivered[mine.gen] > 0)
    <3> SUFFICES ASSUME delivered[mine.gen] > 0 PROVE FALSE
      OBVIOUS
    <3>1. mine.gen \in Events
      BY Presence
    <3>2. Sent(file.dev, mine.gen) /\ (~Physical(file.wrk[r.w]) => Sent(file.wrk[r.w], mine.gen))
      BY <1>d, <1>e, <3>1 DEF FilesSay
    <3> QED
      BY <1>4, <1>n, <2>a, <3>2 DEF Sent, Holds, Physical
  <2>4. Writable(S, O, mine, r.w)
    BY <1>4, <1>c, <1>n, <2>2, <2>3, <2>a DEF Writable, Puts
  <2>5. Said(mine, r.w)
    BY <1>c, <1>d DEF Said
  <2>6. Carried(S, O, a)
    <3>1. CASE loc'[a].pc = "mark"
      BY <3>1 DEF Carried, Filing, NotAgain, Holding, Writing
    <3>2. CASE file' = Filed(mine, r.w) /\ loc'[a].pc = "send" /\ loc'[a].rec = mine
      <4>1. /\ (mine.scope = "gpu" => file'.dev = mine) /\ file'.wrk[r.w] = Alias(mine, r.w)
            /\ (mine.scope # "gpu" => file'.dev = file.dev)
        BY <1>a, <1>e, <2>4, <3>2, PutFacts DEF Writable
      <4>2. Present(mine) /\ Present(Alias(mine, r.w)) /\ Alias(mine, r.w).gen = mine.gen
        BY <1>e, Presence, Copies
      <4>3. Filing(a)'
        BY <1>4, <1>n, <2>a, <3>2, <4>1, <4>2 DEF Filing, Writing, Holds, Present
      <4>4. \A g \in Events : delivered'[g] > 0 => NotAgain(a, g)'
        BY <1>c, <2>3, <3>2 DEF NotAgain
      <4> QED
        BY <2>2, <3>2, <4>3, <4>4 DEF Carried
    <3> QED
      BY <1>4, <3>1, <3>2
  <2>7. Rest' /\ Named(S, O)'
    BY <1>1, <1>a, <1>b, <1>e, <2>4, <2>5, <2>6, FilePuts
  <2> QED
    BY <1>b, <2>7 DEF Inv
<1> QED
  BY <1>2, <1>3, <1>4 DEF r, now

LEMMA FinishKeeps ==
  ASSUME Inv, NEW a \in Agents, Finish(a)
  PROVE  Inv'
<1>1. PICK S \in [Events -> Scopes], O \in [Events -> Workers \cup {Nobody}] : Named(S, O)
  BY DEF Inv
<1>a. TypeOK /\ Owners /\ Rest /\ delivered \in [Events -> 0..2]
  BY TypeParts DEF Inv
<1>b. FileFrame(a) /\ TypeOK' /\ Owners'
  BY Frames DEF FileStep
<1> DEFINE r == loc[a].rec
<1>2. /\ loc[a].pc = "finish" /\ r \in Records /\ lock = a
      /\ loc'[a].pc = "mark"
      /\ \/ file' = Filed(r, r.w) /\ UNCHANGED <<faults, delivered>>
         \/ /\ Fault /\ file' \in HalfFiled(r, r.w)
            /\ delivered' = IF r.page = "sent" THEN Unpaged ELSE delivered
  BY <1>a, FinishMoves
<1>c. cleared' = cleared /\ last' = last
  BY DEF Finish
<1>d. \A b \in Agents : b # a => loc[b].pc \notin Holding
  BY <1>a, <1>2, Unheld
<1>e. r.w \in Workers /\ r.gen \in Events
  BY <1>2, Presence
<1>f. \A g \in Events : delivered'[g] > 0 => delivered'[g] = delivered[g]
  BY <1>2 DEF Unpaged
<1>3. Good(S, O, r) /\ StaysGood(S, O, r)
  BY <1>1, <1>2, <1>c DEF Named, Holding, Good, StaysGood
<1>4. delivered[r.gen] > 0 => r.page = "sent"
  BY <1>2, <1>a, <1>e DEF Rest, Pages3, NotAgain, Holding
<1>5. \A g \in Events : delivered[g] > 0 => FilesSay(g) \/ (r.gen = g /\ r.page = "sent")
  BY <1>a, <1>d DEF Rest, Pages1, OnItsWay, Holding
<1> HIDE DEF r
<1>6. Said(r, r.w)
  <2> SUFFICES ASSUME NEW g \in Events, delivered'[g] > 0
               PROVE  FilesSay(g) \/ (file' = Filed(r, r.w) /\ r.gen = g /\ r.page = "sent")
    BY DEF Said
  <2>1. CASE file' = Filed(r, r.w)
    BY <1>5, <1>f, <2>1
  <2>2. CASE delivered' = IF r.page = "sent" THEN Unpaged ELSE delivered
    <3>1. r.page # "sent"
      BY <2>2 DEF Unpaged
    <3> QED
      BY <1>5, <1>f, <3>1
  <2> QED
    BY <1>2, <2>1, <2>2
<1>7. Writable(S, O, r, r.w)
  BY <1>2, <1>3, <1>4, <1>f DEF Writable, Puts
<1>8. Carried(S, O, a)
  BY <1>2 DEF Carried, Filing, NotAgain, Holding, Writing
<1>9. Rest' /\ Named(S, O)'
  BY <1>1, <1>2, <1>a, <1>b, <1>e, <1>6, <1>7, <1>8, FilePuts
<1> QED
  BY <1>b, <1>9 DEF Inv

LEMMA MarkKeeps ==
  ASSUME Inv, NEW a \in Agents, Mark(a)
  PROVE  Inv'
<1>1. PICK S \in [Events -> Scopes], O \in [Events -> Workers \cup {Nobody}] : Named(S, O)
  BY DEF Inv
<1>a. TypeOK /\ Owners /\ Rest
  BY DEF Inv
<1>b. FileFrame(a) /\ TypeOK' /\ Owners' /\ FileStep(a)
  BY Frames DEF FileStep
<1> DEFINE r == loc[a].rec
           now == Current(a)
           x == MarkedWorker(a)
<1>2. /\ r \in Records /\ lock = Nobody /\ x \in Workers
      /\ \/ loc'[a].pc = "idle" /\ UNCHANGED <<file, lock, faults>>
         \/ \E new \in Records :
              /\ now \in Records /\ now.scope = r.scope /\ now.gen = r.gen
              /\ From(new, now) /\ (now.page = "sent" => new.page = "sent")
              /\ \/ /\ file' = Filed(new, x) /\ lock' = a
                    /\ loc'[a].pc = "markDev" /\ loc'[a].rec = Alias(new, x)
                 \/ /\ file' \in HalfFiled(new, x)
                    /\ loc'[a].pc = "idle"
  BY <1>a, MarkMoves
<1>c. delivered' = delivered /\ cleared' = cleared /\ last' = last /\ loc[a].pc = "mark"
  BY DEF Mark, Ghosts, At
<1>d. \A g \in Events : delivered[g] > 0 => FilesSay(g)
  BY <1>a, <1>2, <1>c, Unheld
<1>n. now \in Records /\ now.scope = r.scope =>
        /\ Present(now)
        /\ IF now.scope = "gpu" THEN now = file.dev
           ELSE now = file.wrk[x] /\ ~Physical(file.wrk[x]) /\ now.w = x /\ now.scope = "worker"
  <2> SUFFICES ASSUME now \in Records, now.scope = r.scope
               PROVE  /\ Present(now)
                      /\ IF now.scope = "gpu" THEN now = file.dev
                         ELSE now = file.wrk[x] /\ ~Physical(file.wrk[x]) /\ now.w = x /\ now.scope = "worker"
    OBVIOUS
  <2>0. Present(now) /\ now.scope \in {"gpu", "worker"}
    BY Presence
  <2>1. now = IF r.scope = "gpu" /\ Present(file.dev) THEN file.dev ELSE file.wrk[x]
    BY DEF Current
  <2>2. CASE now.scope = "gpu"
    <3>1. Present(file.dev)
      BY <1>2, <1>a, <2>0, <2>1, <2>2 DEF Rest, Placed, Physical
    <3> QED
      BY <2>0, <2>1, <2>2, <3>1
  <2>3. CASE now.scope = "worker"
    <3>1. now = file.wrk[x]
      BY <2>1, <2>3
    <3> QED
      BY <1>2, <1>a, <2>0, <2>3, <3>1 DEF Rest, Placed, Physical
  <2> QED
    BY <2>0, <2>2, <2>3
<1> HIDE DEF r, now, x
<1>3. CASE loc'[a].pc = "idle" /\ file' = file
  BY <1>3, <1>b, <1>c, RestKeeps DEF Holding, Writing
<1>4. ASSUME NEW new \in Records, now \in Records, now.scope = r.scope,
             From(new, now), now.page = "sent" => new.page = "sent",
             \/ /\ file' = Filed(new, x) /\ lock' = a
                /\ loc'[a].pc = "markDev" /\ loc'[a].rec = Alias(new, x)
             \/ /\ file' \in HalfFiled(new, x)
                /\ loc'[a].pc = "idle"
      PROVE  Inv'
  <2>a. new.gen = now.gen /\ new.scope = now.scope /\ new.w = now.w /\ new.gen \in Events
    BY <1>4, Presence DEF From
  <2>1. Good(S, O, now)
    BY <1>1, <1>2, <1>4, <1>n DEF Named
  <2>2. StaysGood(S, O, new)
    BY <1>c, <2>1, <2>a DEF Good, StaysGood
  <2>3. delivered[new.gen] > 0 => new.page = "sent"
    <3> SUFFICES ASSUME delivered[new.gen] > 0 PROVE now.page = "sent"
      BY <1>4
    <3>2. Sent(file.dev, new.gen) /\ (~Physical(file.wrk[x]) => Sent(file.wrk[x], new.gen))
      BY <1>2, <1>d, <2>a DEF FilesSay
    <3> QED
      BY <1>4, <1>n, <2>a, <3>2 DEF Sent, Holds
  <2>4. Writable(S, O, new, x)
    BY <1>4, <1>c, <1>n, <2>2, <2>3, <2>a DEF Writable, Puts
  <2>5. Said(new, x)
    BY <1>c, <1>d DEF Said
  <2>6. Carried(S, O, a)
    <3>1. CASE loc'[a].pc = "idle"
      BY <3>1 DEF Carried, Filing, NotAgain, Holding, Writing
    <3>2. CASE file' = Filed(new, x) /\ loc'[a].pc = "markDev" /\ loc'[a].rec = Alias(new, x)
      <4>1. /\ (new.scope = "gpu" => file'.dev = new) /\ file'.wrk[x] = Alias(new, x)
        BY <1>2, <1>a, <2>4, <3>2, PutFacts DEF Writable
      <4>2. /\ Present(new) /\ Present(Alias(new, x)) /\ Alias(new, x).gen = new.gen
            /\ Alias(new, x).scope = new.scope /\ Alias(new, x).w = x
        BY <1>2, Presence, Copies
      <4>3. Filing(a)'
        BY <3>2, <4>1, <4>2 DEF Filing, Writing, Present
      <4>4. \A g \in Events : NotAgain(a, g)'
        BY <3>2, <4>1, <4>2 DEF NotAgain, Present
      <4>5. StaysGood(S, O, loc'[a].rec)
        BY <1>4, <1>n, <2>2, <2>a, <3>2, <4>2 DEF StaysGood
      <4> QED
        BY <4>3, <4>4, <4>5 DEF Carried
    <3> QED
      BY <1>4, <3>1, <3>2
  <2>7. Rest' /\ Named(S, O)'
    BY <1>1, <1>2, <1>a, <1>b, <2>4, <2>5, <2>6, FilePuts
  <2> QED
    BY <1>b, <2>7 DEF Inv
<1> QED
  BY <1>2, <1>3, <1>4 DEF r, now, x

LEMMA FileKeeps ==
  ASSUME Inv, NEW a \in Agents, FileStep(a)
  PROVE  Inv'
BY WriteKeeps, RereadKeeps, ClaimKeeps, FinishKeeps, MarkKeeps DEF FileStep

-----------------------------------------------------------------------------
(* The steps that leave the files.                                         *)

\* What a holder put in a hash is in its hands, or in the file of the device.
PutFrom(a, b) == \/ b = loc[a].rec
                 \/ loc[a].pc = "markDev" /\ b = file.dev /\ b \in Records

LEMMA HashPuts ==
  ASSUME TypeOK, Rest, NEW a \in Agents, loc[a].rec \in Records, Puttings(a)
  PROVE  /\ \/ redis'.dev = redis.dev
            \/ \E b \in Records : PutFrom(a, b) /\ b.scope = "gpu" /\ redis'.dev \in Records /\ From(redis'.dev, b)
         /\ \A x \in Workers :
              \/ redis'.wrk[x] = redis.wrk[x]
              \/ /\ loc[a].pc \in {"writeWrk", "hydrateWrk", "markWrk"} /\ redis'.wrk[x] \in Records /\ redis'.wrk[x].w = x
                 /\ redis'.wrk[x].gen = loc[a].rec.gen /\ redis'.wrk[x].scope = loc[a].rec.scope
                 /\ loc[a].rec.scope = "worker" => loc[a].rec.w = x
<1> DEFINE r == loc[a].rec
<1>a. W(a) \in Workers /\ r.w \in Workers
  BY ReplicaTypes, Presence
<1>b. r.scope = "worker" /\ loc[a].pc \in {"writeWrk", "hydrateWrk"} => r.w = W(a)
  BY DEF Rest, Filing, Writing
<1>c. /\ Alias(r, W(a)) \in Records /\ Alias(r, W(a)).gen = r.gen /\ Alias(r, W(a)).scope = r.scope
      /\ Alias(r, W(a)).w = W(a)
  BY <1>a, Copies
<1> HIDE DEF r
<1>1. CASE redis' = redis
  BY <1>1
<1>2. CASE loc[a].pc \in {"writeDev", "hydrateDev"} /\ DevPut(r)
  <2>1. redis'.wrk = redis.wrk /\ (redis'.dev = redis.dev \/ (r.scope = "gpu" /\ From(redis'.dev, r)))
    BY <1>2, HashWrites DEF r
  <2> QED
    BY <2>1 DEF PutFrom, From, r
<1>3. CASE loc[a].pc = "markDev" /\ file.dev \in Records /\ DevPut(file.dev)
  <2>1. redis'.wrk = redis.wrk /\ (redis'.dev = redis.dev \/ (file.dev.scope = "gpu" /\ From(redis'.dev, file.dev)))
    BY <1>3, HashWrites
  <2> QED
    BY <1>3, <2>1 DEF PutFrom, From
<1>4. CASE loc[a].pc \in {"writeWrk", "hydrateWrk"} /\ WrkPut(W(a), Alias(r, W(a)))
  <2>1. /\ redis'.dev = redis.dev /\ From(redis'.wrk[W(a)], Alias(r, W(a)))
        /\ \A y \in Workers : y # W(a) => redis'.wrk[y] = redis.wrk[y]
    BY <1>4, <1>a, <1>c, HashWrites
  <2> QED
    BY <1>4, <1>b, <1>c, <2>1 DEF From, r
<1>5. CASE loc[a].pc = "markWrk" /\ WrkPut(r.w, r)
  <2>1. /\ redis'.dev = redis.dev /\ From(redis'.wrk[r.w], r)
        /\ \A y \in Workers : y # r.w => redis'.wrk[y] = redis.wrk[y]
    BY <1>5, <1>a, HashWrites DEF r
  <2> QED
    BY <1>5, <2>1 DEF From, r
<1> QED
  BY <1>1, <1>2, <1>3, <1>4, <1>5 DEF Puttings, r

LEMMA HashKeeps ==
  ASSUME Inv, NEW a \in Agents, HashStep(a)
  PROVE  Inv'
<1>1. PICK S \in [Events -> Scopes], O \in [Events -> Workers \cup {Nobody}] : Named(S, O)
  BY DEF Inv
<1>a. TypeOK /\ Owners /\ Rest
  BY DEF Inv
<1>b. TypeOK' /\ Owners'
  BY HashBasics
<1> DEFINE r == loc[a].rec
<1>2. /\ r \in Records /\ loc[a].pc \in Holding /\ loc[a].pc \notin {"send", "finish"} /\ lock = a
      /\ loc' \in [Agents -> Locs] /\ Others(a) /\ (KeepsOn(a) \/ GivesBack(a))
      /\ Puttings(a) /\ Acks(a)
      /\ file' = file /\ clear' = clear /\ last' = last /\ cleared' = cleared /\ delivered' = delivered
  BY HashMoves
<1>3. clear.pc = "idle" /\ \A b \in Agents : b # a => loc'[b] = loc[b] /\ loc[b].pc \notin Holding
  BY <1>2, <1>a, Unheld DEF Others
<1>4. /\ \/ redis'.dev = redis.dev
         \/ \E b \in Records : PutFrom(a, b) /\ b.scope = "gpu" /\ redis'.dev \in Records /\ From(redis'.dev, b)
      /\ \A x \in Workers :
           \/ redis'.wrk[x] = redis.wrk[x]
           \/ /\ loc[a].pc \in {"writeWrk", "hydrateWrk", "markWrk"} /\ redis'.wrk[x] \in Records /\ redis'.wrk[x].w = x
              /\ redis'.wrk[x].gen = r.gen /\ redis'.wrk[x].scope = r.scope
              /\ r.scope = "worker" => r.w = x
  BY <1>2, <1>a, HashPuts
<1>5. Good(S, O, r) /\ Present(r)
  BY <1>1, <1>2, Presence DEF Named
<1>6. loc'[a].pc \in Holding => loc'[a].rec = r /\ loc'[a].ok = loc[a].ok /\ KeepsOn(a)
  BY <1>2 DEF KeepsOn, GivesBack, Holding, Writing
<1> HIDE DEF r
<1>7. Named(S, O)'
  <2>1. Good(S, O, file.dev) \/ ~Present(file.dev)
    BY <1>1 DEF Named
  <2>2. Present(redis'.dev) => StaysGood(S, O, redis'.dev)
    <3>1. CASE redis'.dev = redis.dev
      BY <1>1, <1>2, <3>1 DEF Named, Good, StaysGood
    <3>2. ASSUME NEW b \in Records, PutFrom(a, b), b.scope = "gpu", From(redis'.dev, b)
          PROVE  StaysGood(S, O, redis'.dev)
      <4>1. Good(S, O, b)
        BY <1>5, <2>1, <3>2, Presence DEF PutFrom, r
      <4> QED
        BY <1>2, <3>2, <4>1 DEF Good, StaysGood, From
    <3> QED
      BY <1>4, <3>1, <3>2
  <2>3. \A x \in Workers : Present(redis'.wrk[x]) => StaysGood(S, O, redis'.wrk[x])
    BY <1>1, <1>2, <1>4, <1>5 DEF Named, Good, StaysGood
  <2>4. Present(file'.dev) => StaysGood(S, O, file'.dev)
    BY <1>1, <1>2 DEF Named, Good, StaysGood
  <2>5. \A x \in Workers : Present(file'.wrk[x]) => StaysGood(S, O, file'.wrk[x])
    BY <1>1, <1>2 DEF Named, Good, StaysGood
  <2>6. \A b \in Agents : loc'[b].pc \in Holding => StaysGood(S, O, loc'[b].rec)
    BY <1>2, <1>3, <1>5, <1>6 DEF Good, StaysGood
  <2> QED
    BY <2>2, <2>3, <2>4, <2>5, <2>6 DEF Named, Good, StaysGood
<1>8. Placed'
  <2>1. \A x \in Workers : Present(redis'.wrk[x]) => redis'.wrk[x].w = x
    BY <1>4, <1>a DEF Rest, Placed
  <2> QED
    BY <1>2, <1>a, <2>1 DEF Rest, Placed, Physical, Present
<1>9. Counted'
  BY <1>2, <1>3, <1>a DEF Rest, Counted
<1>10. Acked'
  <2>1. loc[a].pc \in {"writeDev", "writeWrk"} /\ loc[a].ok /\ r.scope = "gpu" => Present(file.dev)
    BY <1>a DEF Rest, Filing, r
  <2> QED
    BY <1>2, <1>a, <2>1 DEF Rest, Acked, Acks, Present, r
<1>11. Pages1'
  <2>1. \A g \in Events : delivered[g] > 0 => FilesSay(g)
    BY <1>2, <1>a, Unheld
  <2> QED
    BY <1>2, <1>a, <2>1 DEF Rest, Pages1, FilesSay, Sent, Holds, Present, Physical
<1>12. Pages2'
  <2> SUFFICES ASSUME NEW g \in Events, delivered[g] > 0 PROVE NotInRedis(g)'
    BY <1>2 DEF Pages2
  <2>1. NotInRedis(g)
    BY <1>a DEF Rest, Pages2
  <2>2. r.gen = g => IF r.scope = "gpu" THEN Present(file.dev) ELSE Present(file.wrk[r.w])
    BY <1>2, <1>a DEF Rest, Pages3, NotAgain, r
  <2>3. ~Present(file.dev) => ~(Physical(redis'.dev) /\ redis'.dev.gen = g)
    <3>1. CASE redis'.dev = redis.dev
      BY <1>3, <2>1, <3>1 DEF NotInRedis
    <3>2. ASSUME NEW b \in Records, PutFrom(a, b), b.scope = "gpu", From(redis'.dev, b),
                 ~Present(file.dev), redis'.dev.gen = g
          PROVE  FALSE
      BY <2>2, <3>2, Presence DEF PutFrom, From, r
    <3> QED
      BY <1>4, <3>1, <3>2
  <2>4. ASSUME NEW x \in Workers, ~Present(file.dev), Physical(redis'.wrk[x]), redis'.wrk[x].gen = g
        PROVE  FALSE
    BY <1>3, <1>4, <2>1, <2>2, <2>4 DEF NotInRedis, Physical
  <2>5. ASSUME NEW x \in Workers, ~Present(file.wrk[x]), Holds(redis'.wrk[x], g)
        PROVE  Physical(redis'.wrk[x])
    <3>1. CASE redis'.wrk[x] = redis.wrk[x]
      BY <1>3, <2>1, <2>5, <3>1 DEF NotInRedis
    <3>2. CASE redis'.wrk[x] # redis.wrk[x]
      <4>1. /\ redis'.wrk[x] \in Records /\ redis'.wrk[x].gen = r.gen /\ redis'.wrk[x].scope = r.scope
            /\ (r.scope = "worker" => r.w = x)
        BY <1>4, <3>2
      <4>2. r.gen = g /\ r.scope \in {"gpu", "worker"}
        BY <2>5, <4>1, <1>2, Presence DEF Holds, r
      <4> QED
        BY <2>2, <2>5, <4>1, <4>2, Presence DEF Physical
    <3> QED
      BY <3>1, <3>2
  <2> QED
    BY <1>2, <1>3, <2>3, <2>4, <2>5 DEF NotInRedis, Physical, Present, Holds
<1>13. Pages3'
  <2> SUFFICES ASSUME NEW g \in Events, delivered[g] > 0, NEW b \in Agents PROVE NotAgain(b, g)'
    BY <1>2 DEF Pages3
  <2>1. NotAgain(b, g)
    BY <1>a DEF Rest, Pages3
  <2>2. CASE b = a
    BY <1>2, <1>6, <2>1, <2>2 DEF NotAgain, KeepsOn, Present, r
  <2>3. CASE b # a
    BY <1>3, <2>3 DEF NotAgain
  <2> QED
    BY <2>2, <2>3
<1>14. \A b \in Agents : Filing(b)'
  <2> SUFFICES ASSUME NEW b \in Agents PROVE Filing(b)'
    OBVIOUS
  <2>1. CASE b = a
    <3>1. Filing(a)
      BY <1>a DEF Rest
    <3> QED
      BY <1>2, <1>6, <2>1, <3>1 DEF Filing, Writing, Holding, KeepsOn, Present, r
  <2>2. CASE b # a
    BY <1>3, <2>2 DEF Filing, Holding, Writing
  <2> QED
    BY <2>1, <2>2
<1>15. Rest'
  BY <1>8, <1>9, <1>10, <1>11, <1>12, <1>13, <1>14 DEF Rest
<1> QED
  BY <1>b, <1>7, <1>15 DEF Inv

LEMMA QuietKeeps ==
  ASSUME Inv, NEW a \in Agents, QuietStep(a)
  PROVE  Inv'
<1>1. PICK S \in [Events -> Scopes], O \in [Events -> Workers \cup {Nobody}] : Named(S, O)
  BY DEF Inv
<1>a. TypeOK /\ Owners /\ Rest
  BY DEF Inv
<1>b. TypeOK' /\ Owners'
  BY QuietBasics
<1>2. /\ Others(a) /\ loc'[a].pc \in {"idle", "notice", "relock", "mark"}
      /\ file' = file /\ redis' = redis /\ clear' = clear /\ last' = last /\ held' = held /\ cleared' = cleared
      /\ \/ delivered' = delivered /\ (loc[a].pc \in Holding => loc[a].pc # "finish" \/ loc[a].rec.page # "sent")
         \/ delivered' = Unpaged
  BY QuietMoves
<1>3. loc'[a].pc \notin Holding /\ \A b \in Agents : b # a => loc'[b] = loc[b]
  BY <1>2 DEF Others, Holding, Writing
<1>4. \A g \in Events : delivered'[g] > 0 => delivered' = delivered
  BY <1>2 DEF Unpaged
<1>5. Named(S, O)'
  BY <1>1, <1>2, <1>3 DEF Named, Good, Present
<1>6. Placed' /\ Counted' /\ Acked'
  BY <1>2, <1>4, <1>a DEF Rest, Placed, Counted, Acked, Present, Physical
<1>7. Pages1'
  <2> SUFFICES ASSUME NEW g \in Events, delivered'[g] > 0
               PROVE  delivered'[g] = 1 /\ (FilesSay(g)' \/ OnItsWay(g)')
    BY DEF Pages1
  <2>1. delivered' = delivered /\ delivered[g] > 0
    BY <1>4
  <2>2. delivered[g] = 1 /\ (FilesSay(g) \/ OnItsWay(g))
    BY <1>a, <2>1 DEF Rest, Pages1
  <2>3. FilesSay(g) => FilesSay(g)'
    BY <1>2 DEF FilesSay, Sent, Holds, Present, Physical
  <2>4. OnItsWay(g) => OnItsWay(g)'
    <3>1. loc[a].pc = "finish" => loc[a].rec.page # "sent"
      <4>1. ~(delivered' = Unpaged)
        BY <2>1 DEF Unpaged
      <4> QED
        BY <1>2, <4>1 DEF Holding
    <3> QED
      BY <1>3, <3>1 DEF OnItsWay
  <2> QED
    BY <2>1, <2>2, <2>3, <2>4
<1>8. Pages2'
  BY <1>2, <1>4, <1>a DEF Rest, Pages2, NotInRedis, Present, Physical, Holds
<1>9. Pages3'
  <2> SUFFICES ASSUME NEW g \in Events, delivered'[g] > 0, NEW b \in Agents PROVE NotAgain(b, g)'
    BY DEF Pages3
  <2>1. NotAgain(b, g)
    BY <1>4, <1>a DEF Rest, Pages3
  <2> QED
    BY <1>2, <1>3, <2>1 DEF NotAgain, Present
<1>10. \A b \in Agents : Filing(b)'
  <2> SUFFICES ASSUME NEW b \in Agents PROVE Filing(b)'
    OBVIOUS
  <2>1. CASE b = a
    BY <1>3, <2>1 DEF Filing, Holding, Writing
  <2>2. CASE b # a
    <3>1. Filing(b)
      BY <1>a DEF Rest
    <3> QED
      BY <1>2, <1>3, <2>2, <3>1 DEF Filing, Holds, Present
  <2> QED
    BY <2>1, <2>2
<1>11. Rest'
  BY <1>6, <1>7, <1>8, <1>9, <1>10 DEF Rest
<1> QED
  BY <1>b, <1>5, <1>11 DEF Inv

LEMMA SendKeeps ==
  ASSUME Inv, NEW a \in Agents, Send(a)
  PROVE  Inv'
<1>1. PICK S \in [Events -> Scopes], O \in [Events -> Workers \cup {Nobody}] : Named(S, O)
  BY DEF Inv
<1>a. TypeOK /\ Owners /\ Rest /\ delivered \in [Events -> 0..2]
  BY TypeParts DEF Inv
<1> DEFINE r == loc[a].rec
<1>b. TypeOK' /\ Owners' /\ r.gen \in Events /\ delivered[r.gen] = 0
  BY SendBasics
<1>2. /\ loc[a].pc = "send" /\ r \in Records /\ lock = a
      /\ Others(a) /\ loc'[a].pc = "finish" /\ loc'[a].rec \in Records /\ From(loc'[a].rec, r)
      /\ file' = file /\ redis' = redis /\ clear' = clear /\ last' = last /\ held' = held /\ cleared' = cleared
      /\ \/ loc'[a].rec.page = "sent" /\ delivered' = [delivered EXCEPT ![r.gen] = @ + 1]
         \/ delivered' = delivered
  BY <1>a, SendMoves
<1>3. clear.pc = "idle" /\ \A b \in Agents : b # a => loc'[b] = loc[b] /\ loc[b].pc \notin Holding
  BY <1>2, <1>a, Unheld DEF Others
<1>4. loc'[a].rec.gen = r.gen /\ loc'[a].rec.scope = r.scope /\ loc'[a].rec.w = r.w
  BY <1>2 DEF From
<1>5. \A g \in Events : delivered'[g] > 0 =>
        \/ g # r.gen /\ delivered[g] > 0 /\ delivered'[g] = delivered[g]
        \/ g = r.gen /\ delivered'[g] = 1 /\ loc'[a].rec.page = "sent"
  BY <1>2, <1>a, <1>b
<1>6. Good(S, O, r) /\ r.scope \in {"gpu", "worker"} /\ r.w \in Workers
  BY <1>1, <1>2, Presence DEF Named, Holding
<1>7. IF r.scope = "gpu" THEN Holds(file.dev, r.gen)
      ELSE ~Present(file.dev) /\ Holds(file.wrk[r.w], r.gen)
  BY <1>2, <1>a DEF Rest, Filing
<1> HIDE DEF r
<1>8. Named(S, O)'
  <2>1. \A b \in Agents : loc'[b].pc \in Holding => StaysGood(S, O, loc'[b].rec)
    BY <1>2, <1>3, <1>4, <1>6 DEF Good, StaysGood
  <2> QED
    BY <1>1, <1>2, <2>1 DEF Named, Good, StaysGood, Present
<1>9. Placed' /\ Acked'
  BY <1>2, <1>a DEF Rest, Placed, Acked, Present, Physical
<1>10. Counted'
  <2>1. \A g \in Events : delivered'[g] > 0 => g <= last
    BY <1>5, <1>6, <1>a DEF Rest, Counted, Good
  <2> QED
    BY <1>2, <1>3, <1>a, <2>1 DEF Rest, Counted
<1>11. Pages1'
  <2> SUFFICES ASSUME NEW g \in Events, delivered'[g] > 0
               PROVE  delivered'[g] = 1 /\ (FilesSay(g)' \/ OnItsWay(g)')
    BY DEF Pages1
  <2>1. CASE g # r.gen /\ delivered[g] > 0 /\ delivered'[g] = delivered[g]
    <3>1. delivered[g] = 1 /\ FilesSay(g)
      BY <1>2, <1>a, <2>1, Unheld DEF Rest, Pages1
    <3> QED
      BY <1>2, <2>1, <3>1 DEF FilesSay, Sent, Holds, Present, Physical
  <2>2. CASE g = r.gen /\ delivered'[g] = 1 /\ loc'[a].rec.page = "sent"
    BY <1>2, <1>4, <2>2 DEF OnItsWay
  <2> QED
    BY <1>5, <2>1, <2>2
<1>12. Pages2'
  <2> SUFFICES ASSUME NEW g \in Events, delivered'[g] > 0 PROVE NotInRedis(g)
    BY <1>2 DEF Pages2, NotInRedis, Present, Physical, Holds
  <2>1. CASE delivered[g] > 0
    BY <1>a, <2>1 DEF Rest, Pages2
  <2>2. CASE g = r.gen
    <3>1. ASSUME NEW x \in Workers, Holds(redis.wrk[x], g)
          PROVE  redis.wrk[x].scope = S[g] /\ (S[g] = "worker" => x = O[g])
      BY <1>1, <1>a, <3>1 DEF Named, Good, Holds, Rest, Placed
    <3>2. Physical(redis.dev) /\ redis.dev.gen = g => S[g] = "gpu"
      BY <1>1 DEF Named, Good, Physical
    <3>3. S[g] = r.scope /\ (r.scope = "worker" => O[g] = r.w)
      BY <1>6, <2>2 DEF Good
    <3>4. CASE r.scope = "gpu"
      BY <1>7, <2>2, <3>1, <3>3, <3>4 DEF NotInRedis, Holds, Physical
    <3>5. CASE r.scope = "worker"
      <4>1. ASSUME NEW x \in Workers, ~Present(file.wrk[x]), Holds(redis.wrk[x], g) PROVE FALSE
        BY <1>7, <3>1, <3>3, <3>5, <4>1 DEF Holds
      <4>2. \A x \in Workers : ~(Physical(redis.wrk[x]) /\ redis.wrk[x].gen = g)
        BY <3>1, <3>3, <3>5 DEF Physical, Holds
      <4> QED
        BY <3>2, <3>3, <3>5, <4>1, <4>2 DEF NotInRedis
    <3> QED
      BY <1>6, <3>4, <3>5
  <2> QED
    BY <1>5, <2>1, <2>2
<1>13. Pages3'
  <2> SUFFICES ASSUME NEW g \in Events, delivered'[g] > 0, NEW b \in Agents PROVE NotAgain(b, g)'
    BY DEF Pages3
  <2>1. CASE b # a
    BY <1>3, <2>1 DEF NotAgain
  <2>2. CASE b = a /\ g # r.gen
    BY <1>4, <2>2 DEF NotAgain
  <2>3. CASE b = a /\ g = r.gen
    <3>1. loc'[a].rec.page = "sent"
      BY <1>5, <2>3
    <3> QED
      BY <1>2, <1>4, <1>7, <2>3, <3>1 DEF NotAgain, Holds, Present
  <2> QED
    BY <2>1, <2>2, <2>3
<1>14. \A b \in Agents : Filing(b)'
  <2> SUFFICES ASSUME NEW b \in Agents PROVE Filing(b)'
    OBVIOUS
  <2>1. CASE b = a
    BY <1>2, <1>4, <1>7, <2>1 DEF Filing, Writing, Holds, Present
  <2>2. CASE b # a
    BY <1>3, <2>2 DEF Filing, Holding, Writing
  <2> QED
    BY <2>1, <2>2
<1>15. Rest'
  BY <1>9, <1>10, <1>11, <1>12, <1>13, <1>14 DEF Rest
<1> QED
  BY <1>b, <1>8, <1>15 DEF Inv

-----------------------------------------------------------------------------
(* The operator, and Redis.                                                *)

\* Nobody has a record that he may write.
Free == \A a \in Agents : loc[a].pc \notin Holding

LEMMA FreeRest ==
  ASSUME Free, loc' = loc
  PROVE  (\A a \in Agents : Filing(a)') /\ Pages3' /\ (\A g \in Events : ~OnItsWay(g))
BY DEF Free, Filing, Pages3, NotAgain, OnItsWay, Holding, Writing

LEMMA ClearFilesKeeps ==
  ASSUME Inv, ClearFiles
  PROVE  Inv'
<1>1. PICK S \in [Events -> Scopes], O \in [Events -> Workers \cup {Nobody}] : Named(S, O)
  BY DEF Inv
<1>a. TypeOK /\ Owners /\ Rest
  BY DEF Inv
<1> DEFINE filed == {x \in Workers : Physical(file.wrk[x])}
           hashed == {x \in Workers : Physical(redis.wrk[x])}
<1>2. PICK w \in Workers :
        /\ file' = [dev |-> None,
                    wrk |-> [x \in Workers |-> IF x \in filed \cup {w} THEN None ELSE file.wrk[x]]]
        /\ clear' = [pc |-> "keys", w |-> w, gone |-> {g \in Events : Somewhere(file, redis, g)},
                     keys |-> filed \cup hashed \cup {w}]
  BY DEF ClearFiles
<1>3. /\ clear.pc = "idle" /\ lock = Nobody /\ lock' = Operator /\ held' = FALSE
      /\ UNCHANGED <<redis, loc, attempts, last, faults, cleared, delivered>>
  BY DEF ClearFiles, Acquires
<1>4. Free
  BY <1>3, <1>a, LatchAssumption DEF Owners, Free
<1>n. ~Present(None) /\ None \in Records \cup {None}
  BY Presence
<1>5. /\ file' \in Replicas /\ file'.dev = None
      /\ \A x \in Workers : /\ file'.wrk[x] = IF x \in filed \cup {w} THEN None ELSE file.wrk[x]
                            /\ file'.wrk[x] = file.wrk[x] \/ file'.wrk[x] = None
                            /\ ~Physical(file'.wrk[x])
  BY <1>2, <1>a, <1>n, ReplicaTypes DEF Replicas, Physical
<1>6. /\ clear' \in Clearings /\ clear'.pc = "keys" /\ clear'.keys = filed \cup hashed \cup {w}
      /\ clear'.gone = {g \in Events : Somewhere(file, redis, g)}
  BY <1>2 DEF Clearings
<1> HIDE DEF filed, hashed
<1>7. TypeOK'
  BY <1>3, <1>5, <1>6, <1>a DEF TypeOK, Clearings
<1>8. Owners'
  BY <1>3, <1>4, <1>a DEF Owners, Free
<1>9. Named(S, O)'
  BY <1>1, <1>3, <1>4, <1>5, <1>n DEF Named, Good, Free, Present
<1>10. Placed' /\ Acked'
  BY <1>3, <1>5, <1>a, <1>n DEF Rest, Placed, Acked, Present, Physical
<1>11. Counted'
  <2>1. \A g \in Events : Somewhere(file, redis, g) => g <= last
    BY <1>1 DEF Somewhere, Holds, Named, Good
  <2>2. clear'.gone \subseteq 1..last
    BY <1>6, <2>1, <1>a, TypeParts DEF Events
  <2>3. \A x \in Workers : Physical(redis.wrk[x]) => x \in clear'.keys
    BY <1>6 DEF hashed
  <2> QED
    BY <1>3, <1>a, <2>2, <2>3 DEF Rest, Counted, Physical, Present
<1>12. Pages1'
  <2> SUFFICES ASSUME NEW g \in Events, delivered[g] > 0
               PROVE  delivered[g] = 1 /\ FilesSay(g)'
    BY <1>3 DEF Pages1
  <2>1. delivered[g] = 1 /\ FilesSay(g)
    BY <1>3, <1>4, <1>a, FreeRest DEF Rest, Pages1
  <2>2. \A x \in Workers : Sent(file'.wrk[x], g)
    BY <1>5, <1>n, <2>1 DEF FilesSay, Sent, Holds, filed
  <2> QED
    BY <1>5, <1>n, <2>1, <2>2 DEF FilesSay, Sent, Holds, Present
<1>13. Pages2'
  <2> SUFFICES ASSUME NEW g \in Events, delivered[g] > 0 PROVE NotInRedis(g)'
    BY <1>3 DEF Pages2
  <2>1. NotInRedis(g)
    BY <1>a DEF Rest, Pages2
  <2>2. \A x \in Workers : x \notin clear'.keys => file'.wrk[x] = file.wrk[x]
    BY <1>5, <1>6
  <2> QED
    BY <1>3, <1>6, <2>1, <2>2 DEF NotInRedis, Present, Physical, Holds
<1>14. (\A a \in Agents : Filing(a)') /\ Pages3'
  BY <1>3, <1>4, FreeRest
<1>15. Rest'
  BY <1>10, <1>11, <1>12, <1>13, <1>14 DEF Rest
<1> QED
  BY <1>7, <1>8, <1>9, <1>15 DEF Inv

\* The operator's clear is over.
LEMMA Over ==
  ASSUME Inv, clear.pc = "keys", lock' = Nobody, clear' = Resting, loc' = loc
  PROVE  Free /\ Owners' /\ clear' \in Clearings /\ clear'.pc = "idle" /\ clear'.gone = {}
<1>1. Free
  BY LatchAssumption DEF Inv, Owners, Free
<1>2. clear' \in Clearings /\ clear'.pc = "idle" /\ clear'.gone = {}
  BY DEF Clearings, Resting
<1> QED
  BY <1>1, <1>2 DEF Inv, Owners, Free

LEMMA ClearKeysKeeps ==
  ASSUME Inv, ClearKeys
  PROVE  Inv'
<1>1. PICK S \in [Events -> Scopes], O \in [Events -> Workers \cup {Nobody}] : Named(S, O)
  BY DEF Inv
<1>a. TypeOK /\ Owners /\ Rest
  BY DEF Inv
<1>2. /\ clear.pc = "keys" /\ lock' = Nobody /\ clear' = Resting
      /\ redis' = [dev |-> None, wrk |-> [x \in Workers |-> IF x \in clear.keys THEN None ELSE redis.wrk[x]]]
      /\ cleared' = cleared \cup {g \in clear.gone : ~Somewhere(file, redis', g)}
      /\ UNCHANGED <<file, loc, attempts, last, faults, held, delivered>>
  BY DEF ClearKeys, Releases
<1>3. Free /\ Owners' /\ clear' \in Clearings /\ clear'.pc = "idle" /\ clear'.gone = {}
  BY <1>2, Over
<1>n. ~Present(None) /\ None \in Records \cup {None}
  BY Presence
<1>4. /\ redis' \in Replicas /\ redis'.dev = None
      /\ \A x \in Workers : redis'.wrk[x] = IF x \in clear.keys THEN None ELSE redis.wrk[x]
  BY <1>2, <1>a, <1>n, ReplicaTypes DEF Replicas
<1>5. cleared' \subseteq Events /\ cleared' \subseteq 1..last
  BY <1>2, <1>a, TypeParts DEF Rest, Counted, Clearings
<1>6. TypeOK'
  BY <1>2, <1>3, <1>4, <1>5, <1>a DEF TypeOK, Clearings
<1>7. Named(S, O)'
  <2>1. \A r : Good(S, O, r) /\ Somewhere(file, redis', r.gen) => StaysGood(S, O, r)
    BY <1>2 DEF Good, StaysGood
  <2>2. Present(file.dev) => StaysGood(S, O, file.dev)
    BY <1>1, <2>1 DEF Named, Somewhere, Holds
  <2>3. \A x \in Workers : Present(file.wrk[x]) => StaysGood(S, O, file.wrk[x])
    BY <1>1, <2>1 DEF Named, Somewhere, Holds
  <2>4. \A x \in Workers : Present(redis'.wrk[x]) => StaysGood(S, O, redis'.wrk[x])
    BY <1>1, <1>4, <1>n, <2>1 DEF Named, Somewhere, Holds
  <2> QED
    BY <1>2, <1>3, <1>4, <1>n, <2>2, <2>3, <2>4 DEF Named, Good, StaysGood, Free, Present
<1>8. Placed' /\ Acked'
  BY <1>2, <1>4, <1>a, <1>n DEF Rest, Placed, Acked, Present, Physical
<1>9. Counted'
  BY <1>2, <1>3, <1>5, <1>a DEF Rest, Counted
<1>10. Pages1'
  <2>1. \A g \in Events : ~OnItsWay(g)
    BY <1>2, <1>3, FreeRest
  <2> QED
    BY <1>2, <1>a, <2>1 DEF Rest, Pages1, FilesSay, Sent, Holds, Present, Physical
<1>11. Pages2'
  <2> SUFFICES ASSUME NEW g \in Events, delivered[g] > 0 PROVE NotInRedis(g)'
    BY <1>2 DEF Pages2
  <2>1. NotInRedis(g)
    BY <1>a DEF Rest, Pages2
  <2>2. \A x \in Workers : ~Physical(redis'.wrk[x])
    BY <1>2, <1>4, <1>a, <1>n DEF Rest, Counted, Physical
  <2>3. \A x \in Workers : ~Present(file.wrk[x]) => ~Holds(redis'.wrk[x], g)
    <3> SUFFICES ASSUME NEW x \in Workers, ~Present(file.wrk[x]), Holds(redis'.wrk[x], g) PROVE FALSE
      OBVIOUS
    <3>1. x \notin clear.keys /\ redis'.wrk[x] = redis.wrk[x]
      BY <1>4, <1>n DEF Holds
    <3> QED
      BY <2>1, <2>2, <3>1 DEF NotInRedis, Holds, Physical
  <2> QED
    BY <1>2, <1>4, <1>n, <2>2, <2>3 DEF NotInRedis, Present, Physical, Holds
<1>12. (\A a \in Agents : Filing(a)') /\ Pages3'
  BY <1>2, <1>3, FreeRest
<1>13. Rest'
  BY <1>8, <1>9, <1>10, <1>11, <1>12 DEF Rest
<1> QED
  BY <1>3, <1>6, <1>7, <1>13 DEF Inv

LEMMA ClearFailsKeeps ==
  ASSUME Inv, ClearFails
  PROVE  Inv'
<1>1. PICK S \in [Events -> Scopes], O \in [Events -> Workers \cup {Nobody}] : Named(S, O)
  BY DEF Inv
<1>a. TypeOK /\ Owners /\ Rest
  BY DEF Inv
<1>2. /\ clear.pc = "keys" /\ lock' = Nobody /\ clear' = Resting /\ Fault /\ delivered' = Unpaged
      /\ UNCHANGED <<file, redis, loc, attempts, last, held, cleared>>
  BY DEF ClearFails, Releases
<1>3. Free /\ Owners' /\ clear' \in Clearings /\ clear'.pc = "idle" /\ clear'.gone = {}
  BY <1>2, Over
<1>4. faults' \in 0..MaxFaults /\ delivered' \in [Events -> 0..2]
  BY <1>2, <1>a, TypeParts, FaultTypes, DeliveryTypes
<1>5. TypeOK'
  BY <1>2, <1>3, <1>4, <1>a DEF TypeOK, Clearings
<1>6. Named(S, O)'
  BY <1>1, <1>2 DEF Named, Good, Present
<1>7. \A g \in Events : ~(delivered'[g] > 0)
  BY <1>2 DEF Unpaged
<1>8. Placed' /\ Acked'
  BY <1>2, <1>a DEF Rest, Placed, Acked, Present, Physical
<1>9. Counted'
  BY <1>2, <1>3, <1>7, <1>a DEF Rest, Counted
<1>10. Pages1' /\ Pages2'
  BY <1>7 DEF Pages1, Pages2
<1>11. (\A a \in Agents : Filing(a)') /\ Pages3'
  BY <1>2, <1>3, FreeRest
<1>12. Rest'
  BY <1>8, <1>9, <1>10, <1>11 DEF Rest
<1> QED
  BY <1>3, <1>5, <1>6, <1>12 DEF Inv

LEMMA LoseKeeps ==
  ASSUME Inv, Lose
  PROVE  Inv'
<1>1. PICK S \in [Events -> Scopes], O \in [Events -> Workers \cup {Nobody}] : Named(S, O)
  BY DEF Inv
<1>a. TypeOK /\ Owners /\ Rest
  BY DEF Inv
<1>2. /\ redis' = Empty /\ Fault
      /\ UNCHANGED <<file, lock, loc, attempts, clear, last, held, cleared, delivered>>
  BY DEF Lose, Ghosts
<1>n. ~Present(None) /\ None \in Records \cup {None}
  BY Presence
<1>3. redis' \in Replicas /\ redis'.dev = None /\ \A x \in Workers : redis'.wrk[x] = None
  BY <1>2 DEF Replicas, Empty
<1>4. faults' \in 0..MaxFaults
  BY <1>2, <1>a, TypeParts, FaultTypes
<1>5. TypeOK'
  BY <1>2, <1>3, <1>4, <1>a DEF TypeOK
<1>6. Owners'
  BY <1>2, <1>a DEF Owners, Present
<1>7. Named(S, O)'
  BY <1>1, <1>2, <1>3, <1>n DEF Named, Good, Present
<1>8. Placed' /\ Acked' /\ Counted'
  BY <1>2, <1>3, <1>a, <1>n DEF Rest, Placed, Acked, Counted, Present, Physical
<1>9. Pages1'
  BY <1>2, <1>a DEF Rest, Pages1, FilesSay, OnItsWay, Sent, Holds, Present, Physical
<1>10. Pages2'
  BY <1>2, <1>3, <1>n DEF Pages2, NotInRedis, Present, Physical, Holds
<1>11. Pages3' /\ \A a \in Agents : Filing(a)'
  BY <1>2, <1>a DEF Rest, Pages3, NotAgain, Filing, Present, Holds
<1>12. Rest'
  BY <1>8, <1>9, <1>10, <1>11 DEF Rest
<1> QED
  BY <1>5, <1>6, <1>7, <1>12 DEF Inv

-----------------------------------------------------------------------------
(* The theorems.                                                           *)

LEMMA InvInit ==
  ASSUME Init
  PROVE  Inv
<1>n. ~Present(None) /\ None \in Records \cup {None}
  BY Presence
<1>e. Empty \in Replicas /\ Empty.dev = None /\ \A w \in Workers : Empty.wrk[w] = None
  BY DEF Empty, Replicas
<1>i. Idle \in Locs /\ Idle.pc = "idle"
  BY DEF Idle, Locs, Points
<1>c. Resting \in Clearings /\ Resting.pc = "idle" /\ Resting.gone = {}
  BY DEF Resting, Clearings
<1>1. TypeOK
  <2>1. file \in Replicas /\ redis \in Replicas /\ clear \in Clearings /\ lock \in Agents \cup {Operator, Nobody}
    BY <1>c, <1>e DEF Init
  <2>2. loc \in [Agents -> Locs]
    BY <1>i DEF Init
  <2>3. attempts \in [Agents -> [Events -> 0..Told]]
    <3>1. [g \in Events |-> 0] \in [Events -> 0..Told]
      BY LatchAssumption DEF Told
    <3> QED
      BY <3>1 DEF Init
  <2>4. last \in 0..MaxEvents /\ faults \in 0..MaxFaults /\ held \in BOOLEAN /\ cleared \subseteq Events
    <3>1. last = 0 /\ faults = 0 /\ held = FALSE /\ cleared = {}
      BY DEF Init
    <3>2. 0 \in 0..MaxEvents /\ 0 \in 0..MaxFaults
      BY LatchAssumption
    <3> QED
      BY <3>1, <3>2
  <2>5. delivered \in [Events -> 0..2]
    BY DEF Init, Unpaged
  <2> QED
    BY <2>1, <2>2, <2>3, <2>4, <2>5, TypeParts
<1>2. \A a \in Agents : loc[a].pc = "idle"
  BY <1>i DEF Init
<1>3. Owners
  BY <1>2, <1>c DEF Init, Owners, InHand, Holding, Writing
<1>4. Placed /\ Acked
  BY <1>e, <1>n DEF Init, Placed, Acked, Physical
<1>5. Counted
  BY <1>c DEF Init, Counted, Unpaged
<1>6. Pages1 /\ Pages2 /\ Pages3
  BY DEF Init, Pages1, Pages2, Pages3, Unpaged
<1>7. \A a \in Agents : Filing(a)
  BY <1>2 DEF Filing, Writing
<1>8. \E S \in [Events -> Scopes], O \in [Events -> Workers \cup {Nobody}] : Named(S, O)
  <2>1. \A S, O : Named(S, O)
    BY <1>2, <1>e, <1>n DEF Init, Named, Holding, Writing
  <2>2. [g \in Events |-> "gpu"] \in [Events -> Scopes] /\ [g \in Events |-> Nobody] \in [Events -> Workers \cup {Nobody}]
    BY DEF Scopes
  <2> QED
    BY <2>1, <2>2
<1> QED
  BY <1>1, <1>3, <1>4, <1>5, <1>6, <1>7, <1>8 DEF Inv, Rest

LEMMA InvNext ==
  ASSUME Inv, [Next]_vars
  PROVE  Inv'
<1>1. ASSUME NEW a \in Agents, Writes(a) \/ Reads(a) \/ Notifies(a) \/ Crash(a)
      PROVE  Inv'
  BY <1>1, AgentSteps, FileKeeps, HashKeeps, QuietKeeps, SendKeeps
<1>2. CASE Clears
  BY <1>2, ClearFilesKeeps, ClearKeysKeeps, ClearFailsKeeps DEF Clears
<1>3. CASE Lose
  BY <1>3, LoseKeeps
<1>4. CASE UNCHANGED vars
  <2>1. /\ file' = file /\ redis' = redis /\ lock' = lock /\ loc' = loc /\ attempts' = attempts /\ clear' = clear
        /\ last' = last /\ faults' = faults /\ held' = held /\ cleared' = cleared /\ delivered' = delivered
    BY <1>4 DEF vars
  <2>2. PICK S \in [Events -> Scopes], O \in [Events -> Workers \cup {Nobody}] : Named(S, O)
    BY DEF Inv
  <2>3. TypeOK' /\ Owners'
    BY <2>1 DEF Inv, TypeOK, Owners, Present
  <2>4. Named(S, O)'
    BY <2>1, <2>2 DEF Named, Good, Present
  <2>5. Placed' /\ Counted' /\ Acked'
    BY <2>1 DEF Inv, Rest, Placed, Counted, Acked, Present, Physical
  <2>6. Pages1' /\ Pages2'
    BY <2>1 DEF Inv, Rest, Pages1, Pages2, FilesSay, OnItsWay, NotInRedis, Sent, Holds, Present, Physical
  <2>7. Pages3' /\ \A a \in Agents : Filing(a)'
    BY <2>1 DEF Inv, Rest, Pages3, NotAgain, Filing, Holds, Present
  <2>8. Rest'
    BY <2>5, <2>6, <2>7 DEF Rest
  <2> QED
    BY <2>3, <2>4, <2>8 DEF Inv
<1> QED
  BY <1>1, <1>2, <1>3, <1>4 DEF Next

LEMMA InvAlways == Spec => []Inv
BY InvInit, InvNext, PTL DEF Spec

\* The replicas hold records, an agent is at one of its points with a record or none
\* in its hands, and the counts of attempts, generations and faults stay within their
\* bounds (gpu_quarantine.py, _quarantine_page_attempts).
THEOREM LatchTypes == Spec => []TypeOK
<1>1. Inv => TypeOK
  BY DEF Inv
<1> QED
  BY <1>1, InvAlways, PTL

\* An acknowledged physical latch closes the admission of every worker id of the GPU
\* until an operator clears it, whatever Redis forgets and whatever write fails: the
\* file of the device is there, and the strongest record is of its scope
\* (write_gpu_quarantine, _strongest_quarantine_record).
THEOREM AdmissionStaysClosed == Spec => []AdmissionIsClosed
<1>1. Inv => AdmissionIsClosed
  <2> SUFFICES ASSUME Inv, held, NEW w \in Workers PROVE Physical(View(w))
    BY DEF AdmissionIsClosed
  <2>1. Present(file.dev) /\ file.dev.scope = "gpu"
    BY DEF Inv, Rest, Acked, Placed
  <2>2. From(View(w), file.dev)
    BY <2>1, ReplicaTypes, Views DEF Inv, View, Physical
  <2> QED
    BY <2>1, <2>2, Presence DEF From, Physical
<1> QED
  BY <1>1, InvAlways, PTL

\* A generation that a clear reported as removed is in no replica ever again: what an
\* agent had in its hands before is compared with the files under the lock before it
\* is written (clear_gpu_quarantine; the second look of read_gpu_quarantine).
THEOREM ClearIsFinal == Spec => []ClearedStaysCleared
<1>1. Inv => ClearedStaysCleared
  BY DEF Inv, Named, Good, ClearedStaysCleared, Somewhere, Holds
<1> QED
  BY <1>1, InvAlways, PTL

\* No generation is paged twice under a claim, by one process or by several, unless a
\* durable mark of the delivery was lost: a claim finds the page "sent" in the files,
\* and Redis does not bring back a record that was paged
\* (acquire_gpu_quarantine_notification_claim, finish_gpu_quarantine_notification_claim).
THEOREM PagesAreSingle == Spec => []OnePagePerGeneration
<1>1. Inv => OnePagePerGeneration
  <2> SUFFICES ASSUME Inv, NEW g \in Events PROVE delivered[g] <= 1
    BY DEF OnePagePerGeneration
  <2>1. delivered[g] \in 0..2
    BY TypeParts DEF Inv
  <2>2. delivered[g] > 0 => delivered[g] = 1
    BY DEF Inv, Rest, Pages1
  <2> QED
    BY <2>1, <2>2
<1> QED
  BY <1>1, InvAlways, PTL

=============================================================================
