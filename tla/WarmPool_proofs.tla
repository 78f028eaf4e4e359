--------------------------- MODULE WarmPool_proofs ---------------------------
(***************************************************************************)
(* Theorems of WarmPool, for any coroutines, children, pool size and       *)
(* bounds.                                                                 *)
(***************************************************************************)
EXTENDS WarmPool, FiniteSetTheorems, TLAPS

-----------------------------------------------------------------------------
(* The invariant.                                                          *)

\* A coroutine that has taken a child from the idle list and not given it back.
Holds(c) == call[c].pc \notin {"idle", "reap", "reapRest"}

\* Where the fresh context of a recovery has no other handle.
Probing(c) == call[c].pc \in {"probe", "discard"}

\* Where a coroutine acts as the recovery of the pool.
Recovering(c) == call[c].pc \in {"contain", "drain", "probe", "discard", "containRest"}

\* Whoever acts on a child has one.
HandsFull ==
    /\ \A c \in Callers : Holds(c) => call[c].kid \in Kids
    /\ \A c \in Callers : Probing(c) => call[c].fresh \in Kids

\* A child is on the idle list, in the hands of one coroutine, under construction by
\* its thread, or the fresh context of the recovery: one of the four at a time.
IdleAreMembers == pool.idle \cup pool.busy \subseteq pool.workers

HeldOnce ==
    /\ \A c \in Callers : Holds(c) => call[c].kid \notin pool.idle
    /\ \A c, d \in Callers : c # d /\ Holds(c) /\ Holds(d) => call[c].kid # call[d].kid

MadeOnce ==
    \A k \in Kids : thread[k].pc # "none" =>
      k \notin pool.workers /\ \A c \in Callers : Holds(c) => call[c].kid # k

ProbedOnce ==
    \A c \in Callers : Probing(c) =>
      /\ call[c].fresh \notin pool.workers
      /\ thread[call[c].fresh].pc = "none"
      /\ \A d \in Callers : Holds(d) => call[d].kid # call[c].fresh

Roles == IdleAreMembers /\ HeldOnce /\ MadeOnce /\ ProbedOnce

\* No list, coroutine, thread or shutdown refers to k.
Unknown(k) ==
    /\ k \notin Tracked
    /\ \A c \in Callers : k \notin call[c].set
    /\ \A j \in Kids : k \notin thread[j].set
    /\ k \notin stop.set \cup stop.late

\* A child that is still being constructed cannot be in a set somebody is shutting down.
NewIsUnknown ==
    /\ \A k \in Kids : thread[k].pc \in {"begin", "build"} => Unknown(k)
    /\ \A c \in Callers : call[c].pc = "probe" => Unknown(call[c].fresh)

NewIsStarting == \A k \in Kids : thread[k].pc = "build" => proc[k] = "starting"

\* What a coroutine, a thread and the shutdown have in their hands, and where.
Shapes ==
    /\ \A c \in Callers : call[c].set # {} => call[c].pc \in {"reap", "reapRest", "retireRest", "contain", "containRest"}
    /\ \A k \in Kids : thread[k].set # {} => thread[k].pc = "clear"
    /\ stop.pc = "none" <=> ~pool.closing
    /\ stop.set # {} => stop.pc \in {"reap", "drain", "late"}
    /\ stop.late # {} => stop.pc = "late"
    /\ \A c \in Callers : Recovering(c) \/ call[c].pc = "join" => rlock = c

\* Each holder of a ticket that is under way has it, of no future generation.
HasTicket(h, g) == <<h, g>> \in tickets /\ g <= pool.gen

Ticketed ==
    /\ \A k \in Kids : thread[k].pc # "none" => HasTicket(k, thread[k].gen)
    /\ \A c \in Callers : call[c].pc \in {"reap", "reapRest"} \/ Recovering(c) => HasTicket(c, call[c].gen)
    /\ \A c \in Callers : call[c].pc \in {"retire", "retireRest"} => HasTicket(c, call[c].num)

\* After a failed proof the pool stays quarantined.
QuarantineLasts ==
    /\ \A c \in Callers : call[c].pc \in {"reapRest", "retireRest", "containRest"} => pool.health = "quarantined"
    /\ \A k \in Kids : thread[k].pc = "clear" => pool.health = "quarantined"

EmptyWhenDown == pool.closing \/ pool.health \in {"suspect", "quarantined"} => pool.workers = {}

\* Children under retirement, once each: retire counts them.
Weight(c) ==
    IF call[c].pc \in {"reap", "reapRest"} THEN call[c].num
    ELSE IF call[c].pc \in {"retire", "retireRest"} THEN 1 ELSE 0

Weights == [c \in Callers |-> Weight(c)]

OwedBy(W) == {t \in Callers \X Nat : 1 <= t[2] /\ t[2] <= W[t[1]]}

RetireIsCounted == IsFiniteSet(OwedBy(Weights)) /\ pool.retire = Cardinality(OwedBy(Weights))


\* A child of the present epoch is served until its coroutine lets it go.
Serving(c) == call[c].pc \in {"run", "validate", "recover", "restart"}

Open == ~pool.closing /\ pool.health # "quarantined"

EpochsOK ==
    /\ \A c \in Callers : call[c].epoch <= pool.epoch
    /\ \A c \in Callers : Serving(c) /\ Open /\ call[c].epoch = pool.epoch => call[c].kid \in pool.busy

\* The one coroutine whose fault is being validated has no replacement yet.
Validates(c) == call[c].pc = "restart" /\ call[c].val

ValidationOK ==
    /\ \A c, d \in Callers : c # d /\ Validates(c) /\ Validates(d) => call[c].gen # call[d].gen
    /\ \A c \in Callers : Validates(c) => call[c].gen <= pool.gen
    /\ \A c \in Callers : Validates(c) /\ call[c].gen = pool.gen =>
         /\ ~pool.closing
         /\ call[c].epoch = pool.epoch
         /\ pool.health \in {"healthy", "degraded_check"}
         /\ pool.health = "degraded_check" => pool.repl = 0
    /\ \A c \in Callers : call[c].pc = "retire" /\ call[c].fill /\ call[c].val => call[c].gen = call[c].num

\* A fault of an earlier epoch was contained, or is about to be.
FaultsOK ==
    /\ \A c \in Callers : Serving(c) /\ Open /\ call[c].epoch # pool.epoch =>
         \/ proc[call[c].kid] = "none"
         \/ \E d \in Callers : call[d].pc = "contain" /\ call[c].kid \in call[d].set
    /\ \A c \in Callers : call[c].pc = "contain" => call[c].kid \in call[c].set
    /\ \A c \in Callers : call[c].pc \in {"drain", "probe", "discard"} => proc[call[c].kid] = "none"
    /\ \A c \in Callers : call[c].pc = "return" /\ call[c].out = "contained" =>
         proc[call[c].kid] = "none" \/ pool.health = "quarantined"

\* The pool and the constructors while a recovery is under way.
RecoveryOK ==
    \A c \in Callers : Recovering(c) =>
      /\ pool.health \in {"suspect", "quarantined"}
      /\ Open => call[c].gen = pool.gen
      /\ \A k \in Kids : thread[k].pc # "none" => thread[k].gen < call[c].gen
      /\ \A d \in Callers : call[d].pc = "retire" /\ call[d].fill => call[d].num < call[c].gen

Runs(k) == proc[k] \in {"starting", "live", "exited"}

\* An earlier constructor or retirement still has k, under its ticket.
OldHands(k, g) ==
    \/ thread[k].pc \in {"build", "register", "discard"}
    \/ \E d \in Callers : call[d].pc = "reap" /\ k \in call[d].set /\ call[d].gen < g
    \/ \E d \in Callers : call[d].pc = "retire" /\ call[d].kid = k /\ call[d].num < g

ContainmentOK ==
    \A c \in Callers : call[c].pc \in {"contain", "drain"} /\ Open =>
      \A k \in Kids : Runs(k) => k \in call[c].set \/ OldHands(k, call[c].gen)

\* Who answers for a child that is not proven gone.
Handled(k) ==
    \/ k \in Tracked
    \/ thread[k].pc = "build"
    \/ stop.pc = "reap" /\ k \in stop.set
    \/ stop.pc = "late" /\ k \in stop.late
    \/ \E c \in Callers : k \in call[c].set \/ (Probing(c) /\ call[c].fresh = k)
    \/ \E j \in Kids : k \in thread[j].set

AllHandled == \A k \in Kids : proc[k] # "none" => Handled(k)

\* No child is being started.
Quiet == (\A k \in Kids : thread[k].pc # "build") /\ (\A c \in Callers : call[c].pc # "probe")

AllGone == \A k \in Kids : proc[k] = "none"

ShutdownOK ==
    /\ stop.pc \in {"drain", "late"} /\ ~stop.bad => \A k \in stop.set : proc[k] = "none"
    /\ stop.drained => stop.pc \in {"late", "done"} /\ Quiet
    /\ stop.pc = "late" /\ stop.drained /\ ~stop.bad => \A k \in Kids : proc[k] # "none" => k \in stop.late
    /\ stop.safe => stop.drained /\ stop.pc = "done" /\ AllGone

\* What began before the pool was quarantined is of an older generation.
QuarantineIsOld ==
    pool.health = "quarantined" =>
      /\ \A k \in Kids : thread[k].pc # "none" => thread[k].gen < pool.gen
      /\ \A d \in Callers : call[d].pc = "retire" /\ call[d].fill => call[d].num < pool.gen

-----------------------------------------------------------------------------
(* Helpers.                                                                *)

\* The sets of the model are finite, and their sizes numbers.
LEMMA Sizes == \A S \in SUBSET Kids : IsFiniteSet(S) /\ Cardinality(S) \in Nat
BY PoolAssumption, FS_Subset, FS_CardinalityType

LEMMA Names == None \notin Callers /\ None \notin Kids /\ Callers \cap Kids = {} /\ PoolSize \in Nat \ {0}
BY PoolAssumption

\* A thread that begins for the generation g.
Begun(g) == [NoThread EXCEPT !.pc = "begin", !.gen = g]

\* _ensure_capacity_locked fills the pool up and never shrinks anything.
LEMMA NeedType ==
  ASSUME NEW p \in PoolType
  PROVE  Need(p) \in Nat
<1>1. Cardinality(p.workers) \in Nat /\ p.repl \in Nat /\ p.retire \in Nat
  BY Sizes DEF PoolType
<1> QED
  BY <1>1, Names DEF Need

\* What starting the missing constructors does.
LEMMA TopUpEffect ==
  ASSUME NEW p \in PoolType, NEW th, NEW tk, TopUp(p, th, tk)
  PROVE  \E N \in SUBSET Fresh :
           /\ pool' = [p EXCEPT !.repl = p.repl + Need(p)]
           /\ Need(p) = 0 => N = {}
           /\ thread' = [k \in Kids |-> IF k \in N THEN Begun(p.gen) ELSE th[k]]
           /\ tickets' = tk \cup (N \X {p.gen})
<1>1. PICK N \in NewKids(Need(p)) :
        /\ pool' = [p EXCEPT !.repl = @ + Cardinality(N)]
        /\ thread' = [k \in Kids |-> IF k \in N THEN [NoThread EXCEPT !.pc = "begin", !.gen = p.gen] ELSE th[k]]
        /\ tickets' = tk \cup (N \X {p.gen})
  BY DEF TopUp
<1>2. N \in SUBSET Fresh /\ Cardinality(N) = Need(p)
  BY DEF NewKids
<1>3. IsFiniteSet(N)
  BY <1>2, Sizes DEF Fresh
<1>4. Need(p) = 0 => N = {}
  BY <1>2, <1>3, FS_EmptySet
<1>5. pool' = [p EXCEPT !.repl = p.repl + Need(p)]
  BY <1>1, <1>2 DEF PoolType
<1> QED
  BY <1>1, <1>2, <1>4, <1>5 DEF Begun

LEMMA BegunType == \A g \in Nat : Begun(g) \in ThreadType
BY DEF Begun, NoThread, ThreadType, ThreadPcs

LEMMA TopUpTypes ==
  ASSUME NEW p \in PoolType, NEW th \in [Kids -> ThreadType], NEW tk \in SUBSET ((Callers \cup Kids) \X Nat),
         TopUp(p, th, tk)
  PROVE  /\ pool' \in PoolType
         /\ thread' \in [Kids -> ThreadType]
         /\ tickets' \subseteq (Callers \cup Kids) \X Nat
<1>1. PICK N \in SUBSET Fresh :
           /\ pool' = [p EXCEPT !.repl = p.repl + Need(p)]
           /\ thread' = [k \in Kids |-> IF k \in N THEN Begun(p.gen) ELSE th[k]]
           /\ tickets' = tk \cup (N \X {p.gen})
  BY TopUpEffect
<1>2. p.gen \in Nat /\ p.repl \in Nat
  BY DEF PoolType
<1>3. Begun(p.gen) \in ThreadType
  BY <1>2, BegunType
<1>4. p.repl + Need(p) \in Nat
  BY <1>2, NeedType
<1>5. pool' \in PoolType
  BY <1>1, <1>4 DEF PoolType
<1>6. N \subseteq Kids
  BY DEF Fresh
<1> QED
  BY <1>1, <1>2, <1>3, <1>5, <1>6

-----------------------------------------------------------------------------
(* Retirements are counted, once each.                                     *)

LEMMA SpanSize ==
  ASSUME NEW c, NEW n \in Nat
  PROVE  IsFiniteSet({c} \X (1 .. n)) /\ Cardinality({c} \X (1 .. n)) = n
<1> DEFINE f == [i \in 1 .. n |-> <<c, i>>]
<1>1. f \in Bijection(1 .. n, {c} \X (1 .. n))
  <2>1. f \in [1 .. n -> {c} \X (1 .. n)]
    OBVIOUS
  <2>2. f \in Injection(1 .. n, {c} \X (1 .. n))
    BY <2>1 DEF Injection, IsInjective
  <2>3. \A t \in {c} \X (1 .. n) : \E i \in 1 .. n : f[i] = t
    OBVIOUS
  <2>4. f \in Surjection(1 .. n, {c} \X (1 .. n))
    BY <2>1, <2>3 DEF Surjection
  <2> QED
    BY <2>2, <2>4 DEF Bijection
<1>2. ExistsBijection(1 .. n, {c} \X (1 .. n))
  BY <1>1 DEF ExistsBijection
<1>3. IsFiniteSet(1 .. n) /\ Cardinality(1 .. n) = n
  BY FS_Interval
<1> QED
  BY <1>2, <1>3, FS_Bijection

LEMMA DisjointSum ==
  ASSUME NEW S, NEW T, IsFiniteSet(S), IsFiniteSet(T), S \cap T = {}
  PROVE  IsFiniteSet(S \cup T) /\ Cardinality(S \cup T) = Cardinality(S) + Cardinality(T)
<1>1. Cardinality(S) \in Nat /\ Cardinality(T) \in Nat /\ Cardinality(S \cap T) = 0
  BY FS_CardinalityType, FS_EmptySet
<1>2. IsFiniteSet(S \cup T) /\ Cardinality(S \cup T) = Cardinality(S) + Cardinality(T) - Cardinality(S \cap T)
  BY FS_Union
<1> QED
  BY <1>1, <1>2

\* The retirements of one coroutine, and those of the others.
LEMMA OwedSplits ==
  ASSUME NEW W \in [Callers -> Nat], NEW c \in Callers
  PROVE  /\ OwedBy(W) = OwedBy([W EXCEPT ![c] = 0]) \cup ({c} \X (1 .. W[c]))
         /\ OwedBy([W EXCEPT ![c] = 0]) \cap ({c} \X (1 .. W[c])) = {}
BY DEF OwedBy

LEMMA OwedChanges ==
  ASSUME NEW W \in [Callers -> Nat], NEW c \in Callers, NEW n \in Nat, IsFiniteSet(OwedBy(W))
  PROVE  LET V == [W EXCEPT ![c] = n] IN
         /\ IsFiniteSet(OwedBy(V))
         /\ W[c] <= Cardinality(OwedBy(W))
         /\ Cardinality(OwedBy(V)) = Cardinality(OwedBy(W)) - W[c] + n
<1> DEFINE V == [W EXCEPT ![c] = n]
           R == OwedBy([W EXCEPT ![c] = 0])
           S(m) == {c} \X (1 .. m)
<1>1. V \in [Callers -> Nat] /\ V[c] = n /\ [V EXCEPT ![c] = 0] = [W EXCEPT ![c] = 0] /\ W[c] \in Nat
  OBVIOUS
<1>2. OwedBy(W) = R \cup S(W[c]) /\ R \cap S(W[c]) = {}
  BY OwedSplits
<1>3. OwedBy(V) = R \cup S(n) /\ R \cap S(n) = {}
  BY <1>1, OwedSplits
<1>a. \A m \in Nat : IsFiniteSet(S(m)) /\ Cardinality(S(m)) = m
  BY SpanSize
<1> HIDE DEF V, R, S
<1>4. IsFiniteSet(R) /\ Cardinality(R) \in Nat
  BY <1>2, FS_Subset, FS_CardinalityType
<1>5. Cardinality(OwedBy(W)) = Cardinality(R) + W[c]
  BY <1>1, <1>2, <1>4, <1>a, DisjointSum
<1>6. IsFiniteSet(OwedBy(V)) /\ Cardinality(OwedBy(V)) = Cardinality(R) + n
  BY <1>3, <1>4, <1>a, DisjointSum
<1> QED
  BY <1>1, <1>4, <1>5, <1>6 DEF V

\* The counter covers what each coroutine still has to give back.
LEMMA RetireCovers ==
  ASSUME TypeOK, RetireIsCounted, NEW c \in Callers
  PROVE  Weight(c) \in Nat /\ pool.retire - Weight(c) \in Nat
<1>1. Weights \in [Callers -> Nat]
  BY DEF TypeOK, CallType, Weights, Weight
<1>2. Weights[c] = Weight(c)
  BY DEF Weights
<1>3. Weight(c) \in Nat /\ Weight(c) <= pool.retire
  BY <1>1, <1>2, OwedChanges DEF RetireIsCounted
<1> QED
  BY <1>3 DEF TypeOK, PoolType

\* A coroutine that puts down what it counted and takes up n of its own.
LEMMA RetireMoves ==
  ASSUME TypeOK, RetireIsCounted, NEW c \in Callers, NEW n \in Nat,
         Weights' = [Weights EXCEPT ![c] = n], pool'.retire = pool.retire - Weight(c) + n
  PROVE  RetireIsCounted'
<1>1. Weights \in [Callers -> Nat] /\ Weights[c] = Weight(c)
  BY DEF TypeOK, CallType, Weights, Weight
<1>2. /\ IsFiniteSet(OwedBy([Weights EXCEPT ![c] = n]))
      /\ Cardinality(OwedBy([Weights EXCEPT ![c] = n])) = Cardinality(OwedBy(Weights)) - Weights[c] + n
  BY <1>1, OwedChanges DEF RetireIsCounted
<1>3. OwedBy(Weights)' = OwedBy([Weights EXCEPT ![c] = n])
  BY DEF OwedBy
<1> QED
  BY <1>1, <1>2, <1>3 DEF RetireIsCounted

-----------------------------------------------------------------------------
(* Types.                                                                  *)

Typed == TypeOK /\ HandsFull /\ RetireIsCounted

LEMMA PoolFields ==
  ASSUME TypeOK
  PROVE  /\ pool \in PoolType
         /\ pool.workers \subseteq Kids /\ pool.idle \subseteq Kids /\ pool.busy \subseteq Kids
         /\ pool.retiring \subseteq Kids /\ pool.repl \in Nat /\ pool.retire \in Nat /\ pool.gen \in Nat
         /\ pool.epoch \in Nat /\ pool.spec \in Nat /\ pool.fails \in Nat
         /\ retained \subseteq Kids /\ Tracked \subseteq Kids
BY DEF TypeOK, PoolType, Tracked

LEMMA CallFields ==
  ASSUME TypeOK, NEW c \in Callers
  PROVE  /\ call[c] \in CallType /\ call[c].set \subseteq Kids
         /\ call[c].epoch \in Nat /\ call[c].gen \in Nat /\ call[c].num \in Nat
         /\ call[c].val \in BOOLEAN /\ call[c].fill \in BOOLEAN
BY DEF TypeOK, CallType

LEMMA ThreadFields ==
  ASSUME TypeOK, NEW k \in Kids
  PROVE  /\ thread[k] \in ThreadType /\ thread[k].set \subseteq Kids
         /\ thread[k].gen \in Nat /\ thread[k].val \in BOOLEAN /\ thread[k].gpu \in BOOLEAN
BY DEF TypeOK, ThreadType

\* The two ways to empty the pool.
LEMMA EmptiedType ==
  ASSUME TypeOK
  PROVE  Emptied(pool) \in PoolType /\ Unsafe(pool) \in PoolType
<1>1. pool.gen + 1 \in Nat /\ pool.epoch + 1 \in Nat /\ pool \in PoolType
  BY PoolFields
<1> DEFINE p == [pool EXCEPT !.workers = {}, !.idle = {}, !.busy = {}, !.gen = pool.gen + 1, !.repl = 0, !.spec = 0]
<1>2. p \in PoolType /\ p.epoch = pool.epoch
  BY <1>1 DEF PoolType
<1>3. Emptied(pool) = p
  BY <1>1 DEF Emptied, PoolType
<1>4. [p EXCEPT !.epoch = pool.epoch + 1, !.unsafe = TRUE, !.health = "quarantined"] \in PoolType
  BY <1>1, <1>2 DEF PoolType, Health
<1>5. Unsafe(pool) = [p EXCEPT !.epoch = pool.epoch + 1, !.unsafe = TRUE, !.health = "quarantined"]
  BY <1>2, <1>3 DEF Unsafe, PoolType
<1> QED
  BY <1>2, <1>3, <1>4, <1>5

LEMMA ReapTypes ==
  ASSUME TypeOK, NEW S \in SUBSET Kids, NEW ok, Reap(S, ok)
  PROVE  /\ proc' \in [Kids -> {"none", "starting", "live", "exited", "stillborn"}]
         /\ flag' \subseteq Kids /\ work' \subseteq Kids /\ retained' \subseteq Kids
BY DEF TypeOK, Reap, Records

\* One coroutine moves.
LEMMA CallMoves ==
  ASSUME TypeOK, HandsFull, NEW c \in Callers, NEW r \in CallType, Calls(c, r),
         r.pc \notin {"idle", "reap", "reapRest"} => r.kid \in Kids,
         r.pc \in {"probe", "discard"} => r.fresh \in Kids
  PROVE  call' \in [Callers -> CallType] /\ HandsFull'
BY DEF TypeOK, HandsFull, Holds, Probing, Calls

LEMMA IdleType == IdleCall \in CallType
BY DEF IdleCall, CallType, CallPcs

LEMMA LeaveTypes ==
  ASSUME TypeOK, HandsFull, NEW c \in Callers, Holds(c),
         NEW out \in {"none", "result", "contained", "unsafe", "taken"}, Leave(c, out)
  PROVE  call' \in [Callers -> CallType] /\ HandsFull'
<1> DEFINE r == [IdleCall EXCEPT !.pc = "return", !.kid = call[c].kid, !.out = out]
<1>1. r \in CallType /\ r.kid \in Kids /\ r.pc = "return"
  BY DEF IdleCall, CallType, CallPcs, HandsFull
<1>2. Calls(c, r)
  BY DEF Leave
<1> QED
  BY <1>1, <1>2, CallMoves

LEMMA TicketMoves ==
  ASSUME TypeOK, NEW h \in Callers \cup Kids, NEW g \in Nat
  PROVE  /\ tickets \cup {<<h, g>>} \in SUBSET ((Callers \cup Kids) \X Nat)
         /\ tickets \ {<<h, g>>} \in SUBSET ((Callers \cup Kids) \X Nat)
         /\ \A j \in Kids : (tickets \cup {<<j, g>>}) \ {<<h, g>>} \in SUBSET ((Callers \cup Kids) \X Nat)
BY DEF TypeOK

LEMMA SearchTypes ==
  ASSUME Typed, NEW c \in Callers,
         DetachDead(c) \/ Dispatch(c) \/ ReapDead(c) \/ ReapDeadUnproven(c) \/ ReapRest(c)
  PROVE  TypeOK' /\ HandsFull'
<1> USE DEF Typed
<1>f. /\ pool \in PoolType /\ pool.gen \in Nat /\ pool.retire \in Nat /\ retained \subseteq Kids
      /\ Tracked \subseteq Kids /\ call[c] \in CallType /\ call[c].set \subseteq Kids /\ call[c].gen \in Nat
  BY PoolFields, CallFields
<1>1. CASE DetachDead(c)
  <2>1. Dead \in SUBSET Kids /\ Cardinality(Dead) \in Nat /\ pool.retire + Cardinality(Dead) \in Nat
    BY <1>f, Sizes DEF Dead
  <2>2. /\ pool' = [pool EXCEPT !.retire = pool.retire + Cardinality(Dead), !.workers = @ \ Dead, !.idle = @ \ Dead]
        /\ tickets' = tickets \cup {<<c, pool.gen>>}
        /\ Calls(c, [IdleCall EXCEPT !.pc = "reap", !.gen = pool.gen, !.set = Dead, !.num = Cardinality(Dead)])
        /\ UNCHANGED <<proc, flag, work, retained, thread, rlock, stop>>
    BY <1>1, <1>f DEF DetachDead, PoolType
  <2>3. pool' \in PoolType
    BY <2>1, <2>2, <1>f DEF PoolType
  <2>4. [IdleCall EXCEPT !.pc = "reap", !.gen = pool.gen, !.set = Dead, !.num = Cardinality(Dead)] \in CallType
    BY <2>1, <1>f DEF IdleCall, CallType, CallPcs
  <2>5. call' \in [Callers -> CallType] /\ HandsFull'
    BY <2>2, <2>4, CallMoves DEF IdleCall
  <2> QED
    BY <2>2, <2>3, <2>5, <1>f, TicketMoves DEF TypeOK
<1>2. CASE Dispatch(c)
  <2>1. PICK k \in pool.idle :
         /\ TopUp([pool EXCEPT !.idle = @ \ {k}, !.busy = @ \cup {k},
                               !.spec = IF pool.health = "degraded_check" THEN @ - 1 ELSE @], thread, tickets)
         /\ work' = work \cup {k}
         /\ Calls(c, [IdleCall EXCEPT !.pc = "run", !.kid = k, !.epoch = pool.epoch])
    BY <1>2 DEF Dispatch
  <2> DEFINE s == IF pool.health = "degraded_check" THEN pool.spec - 1 ELSE pool.spec
             p == [pool EXCEPT !.idle = @ \ {k}, !.busy = @ \cup {k}, !.spec = s]
  <2>a. k \in Kids /\ pool.epoch \in Nat /\ pool.spec \in Nat
    BY PoolFields
  <2>b. pool.health = "degraded_check" => pool.spec > 0
    BY <1>2 DEF Dispatch, Admits
  <2>2. k \in Kids /\ s \in Nat /\ pool.epoch \in Nat
    BY <2>a, <2>b
  <2>3. p \in PoolType
    BY <2>2, <1>f DEF PoolType
  <2>4. TopUp(p, thread, tickets)
    BY <2>1, <1>f DEF PoolType
  <2>5. pool' \in PoolType /\ thread' \in [Kids -> ThreadType] /\ tickets' \subseteq (Callers \cup Kids) \X Nat
    <3> HIDE DEF p
    <3> QED
      BY <2>3, <2>4, TopUpTypes DEF TypeOK
  <2>6. [IdleCall EXCEPT !.pc = "run", !.kid = k, !.epoch = pool.epoch] \in CallType
    BY <2>2 DEF IdleCall, CallType, CallPcs
  <2>7. call' \in [Callers -> CallType] /\ HandsFull'
    BY <2>1, <2>2, <2>6, CallMoves DEF IdleCall
  <2> QED
    BY <1>2, <2>1, <2>2, <2>5, <2>7 DEF Dispatch, TypeOK
<1>3. ASSUME Detached(c, pool), call[c].pc \in {"reap", "reapRest"}
      PROVE  /\ pool' \in PoolType /\ thread' \in [Kids -> ThreadType]
             /\ tickets' \subseteq (Callers \cup Kids) \X Nat
             /\ call' \in [Callers -> CallType] /\ HandsFull'
  <2>1. pool.retire - call[c].num \in Nat
    BY <1>3, RetireCovers DEF Weight
  <2> DEFINE p == [pool EXCEPT !.retire = pool.retire - call[c].num]
  <2>2. p \in PoolType
    BY <2>1, <1>f DEF PoolType
  <2>3. TopUp(p, thread, tickets \ {<<c, call[c].gen>>}) /\ Calls(c, IdleCall)
    BY <1>3, <1>f DEF Detached, PoolType
  <2>4. pool' \in PoolType /\ thread' \in [Kids -> ThreadType] /\ tickets' \subseteq (Callers \cup Kids) \X Nat
    <3> HIDE DEF p
    <3> QED
      BY <2>2, <2>3, <1>f, TopUpTypes, TicketMoves DEF TypeOK
  <2> QED
    BY <2>3, <2>4, IdleType, CallMoves DEF IdleCall
<1>4. CASE ReapDead(c)
  BY <1>4, <1>3, <1>f, ReapTypes DEF ReapDead, TypeOK
<1>5. CASE ReapDeadUnproven(c)
  <2>1. PICK ok \in SUBSET call[c].set :
         /\ Reap(call[c].set, ok)
         /\ Calls(c, [call[c] EXCEPT !.pc = "reapRest", !.set = (Tracked \cup call[c].set) \ ok])
    BY <1>5, <1>f DEF ReapDeadUnproven, CallType
  <2>2. [call[c] EXCEPT !.pc = "reapRest", !.set = (Tracked \cup call[c].set) \ ok] \in CallType
    BY <1>f DEF CallType, CallPcs
  <2>3. call' \in [Callers -> CallType] /\ HandsFull'
    BY <2>1, <2>2, <1>f, CallMoves DEF CallType
  <2> QED
    BY <1>5, <2>1, <2>3, <1>f, ReapTypes, EmptiedType DEF ReapDeadUnproven, TypeOK
<1>6. CASE ReapRest(c)
  BY <1>6, <1>3, <1>f, ReapTypes DEF ReapRest, TypeOK
<1> QED
  BY <1>1, <1>2, <1>4, <1>5, <1>6

\* The end of a retirement.
LEMMA RetiredTypes ==
  ASSUME Typed, NEW c \in Callers, call[c].pc \in {"retire", "retireRest"},
         NEW out \in {"none", "result", "contained", "unsafe", "taken"},
         Retired(c, pool, thread, tickets, out)
  PROVE  /\ pool' \in PoolType /\ thread' \in [Kids -> ThreadType]
         /\ tickets' \subseteq (Callers \cup Kids) \X Nat
         /\ call' \in [Callers -> CallType] /\ HandsFull'
<1> USE DEF Typed
<1>1. pool.retire - 1 \in Nat /\ pool \in PoolType /\ call[c].num \in Nat
  BY RetireCovers, PoolFields, CallFields DEF Weight
<1> DEFINE p == [pool EXCEPT !.retire = pool.retire - 1, !.retiring = @ \ {call[c].kid}]
<1>2. p \in PoolType
  BY <1>1 DEF PoolType
<1>3. TopUp(p, thread, tickets \ {<<c, call[c].num>>}) /\ Leave(c, out)
  BY <1>1 DEF Retired, PoolType
<1>4. pool' \in PoolType /\ thread' \in [Kids -> ThreadType] /\ tickets' \subseteq (Callers \cup Kids) \X Nat
  <2> HIDE DEF p
  <2> QED
    BY <1>1, <1>2, <1>3, TopUpTypes, TicketMoves DEF TypeOK
<1> QED
  BY <1>3, <1>4, LeaveTypes DEF Holds

LEMMA RunTypes ==
  ASSUME Typed, NEW c \in Callers,
         \/ Finish(c) \/ FinishRetiring(c) \/ ContextFault(c) \/ Abandon(c) \/ Crashed(c) \/ Return(c)
         \/ BeginValidation(c) \/ Escalate(c)
  PROVE  TypeOK' /\ HandsFull'
<1> USE DEF Typed
<1>f. pool \in PoolType /\ pool.gen \in Nat /\ call[c] \in CallType
  BY PoolFields, CallFields
<1>1. CASE Finish(c)
  BY <1>1, LeaveTypes DEF Finish, Running, Holds, TypeOK
<1>2. ASSUME NEW pc \in {"restart", "validate", "recover"}, NEW v \in BOOLEAN, NEW g \in Nat, Holds(c),
             Calls(c, [call[c] EXCEPT !.pc = pc, !.val = v, !.gen = g])
      PROVE  call' \in [Callers -> CallType] /\ HandsFull'
  <2> DEFINE r == [call[c] EXCEPT !.pc = pc, !.val = v, !.gen = g]
  <2>1. r \in CallType /\ r.pc = pc /\ r.kid = call[c].kid
    BY <1>f DEF CallType, CallPcs
  <2> QED
    BY <1>2, <2>1, CallMoves DEF HandsFull
<1>3. ASSUME NEW pc \in {"restart", "validate", "recover"}, Holds(c), Calls(c, [call[c] EXCEPT !.pc = pc])
      PROVE  call' \in [Callers -> CallType] /\ HandsFull'
  <2> DEFINE r == [call[c] EXCEPT !.pc = pc]
  <2>1. r \in CallType /\ r.pc = pc /\ r.kid = call[c].kid
    BY <1>f DEF CallType, CallPcs
  <2> QED
    BY <1>3, <2>1, CallMoves DEF HandsFull
<1>4. CASE FinishRetiring(c)
  <2>1. Calls(c, [call[c] EXCEPT !.pc = "restart", !.val = FALSE, !.gen = call[c].gen]) /\ Holds(c) /\ call[c].gen \in Nat
    BY <1>4, <1>f DEF FinishRetiring, Running, Holds, CallType
  <2> QED
    BY <1>4, <2>1, <1>2 DEF FinishRetiring, TypeOK
<1>5. CASE ContextFault(c) \/ Abandon(c) \/ Crashed(c) \/ Escalate(c)
  BY <1>5, <1>3 DEF ContextFault, Abandon, Crashed, Escalate, Running, Holds, TypeOK
<1>6. CASE Return(c)
  <2> DEFINE k == call[c].kid
             back == IF k \in pool.workers /\ Alive(k) THEN {k} ELSE {}
             p == [pool EXCEPT !.busy = @ \ {k}, !.idle = @ \cup back]
  <2>1. back \in SUBSET Kids
    BY PoolFields
  <2>2. p \in PoolType
    BY <2>1, <1>f DEF PoolType
  <2>3. TopUp(p, thread, tickets)
    BY <1>6 DEF Return
  <2>4. pool' \in PoolType /\ thread' \in [Kids -> ThreadType] /\ tickets' \subseteq (Callers \cup Kids) \X Nat
    <3> HIDE DEF p
    <3> QED
      BY <2>2, <2>3, TopUpTypes DEF TypeOK
  <2>5. call' \in [Callers -> CallType] /\ HandsFull'
    BY <1>6, IdleType, CallMoves DEF Return, IdleCall
  <2> QED
    BY <1>6, <2>4, <2>5 DEF Return, TypeOK
<1>7. CASE BeginValidation(c)
  <2>1. pool' = [pool EXCEPT !.gen = pool.gen + 1, !.repl = 0, !.health = "degraded_check", !.spec = 1]
    BY <1>7, <1>f DEF BeginValidation, PoolType
  <2>2. pool.gen + 1 \in Nat
    BY <1>f
  <2>3. pool' \in PoolType
    BY <2>1, <2>2, <1>f DEF PoolType, Health
  <2>4. call' \in [Callers -> CallType] /\ HandsFull'
    BY <1>7, <2>2, <1>2 DEF BeginValidation, Holds
  <2> QED
    BY <1>7, <2>3, <2>4 DEF BeginValidation, TypeOK
<1> QED
  BY <1>1, <1>4, <1>5, <1>6, <1>7

LEMMA RestartTypes ==
  ASSUME Typed, NEW c \in Callers,
         BeginRestart(c) \/ Retire(c) \/ RetireUnproven(c) \/ RetireRest(c)
  PROVE  TypeOK' /\ HandsFull'
<1> USE DEF Typed
<1>f. /\ pool \in PoolType /\ pool.gen \in Nat /\ pool.retire \in Nat /\ pool.repl \in Nat /\ retained \subseteq Kids
      /\ Tracked \subseteq Kids /\ call[c] \in CallType /\ call[c].set \subseteq Kids /\ call[c].gen \in Nat
      /\ call[c].num \in Nat /\ call[c].val \in BOOLEAN
  BY PoolFields, CallFields
<1>1. CASE BeginRestart(c)
  <2>k. call[c].kid \in Kids
    BY <1>1 DEF BeginRestart, HandsFull, Holds
  <2>1. PICK fill \in BOOLEAN :
          /\ pool' = [pool EXCEPT !.workers = @ \ {call[c].kid}, !.idle = @ \ {call[c].kid}, !.busy = @ \ {call[c].kid},
                                  !.repl = IF fill THEN pool.repl + 1 ELSE pool.repl, !.retire = pool.retire + 1,
                                  !.retiring = @ \cup {call[c].kid}]
          /\ Calls(c, [call[c] EXCEPT !.pc = "retire", !.fill = fill, !.num = pool.gen])
    BY <1>1, <1>f DEF BeginRestart, PoolType
  <2>2. pool.retire + 1 \in Nat /\ (IF fill THEN pool.repl + 1 ELSE pool.repl) \in Nat
    BY <1>f
  <2>3. pool' \in PoolType
    BY <2>1, <2>2, <2>k, <1>f DEF PoolType
  <2>4. [call[c] EXCEPT !.pc = "retire", !.fill = fill, !.num = pool.gen] \in CallType
    BY <1>f DEF CallType, CallPcs
  <2>5. call' \in [Callers -> CallType] /\ HandsFull'
    BY <2>1, <2>4, <2>k, <1>f, CallMoves DEF CallType
  <2> QED
    BY <1>1, <2>3, <2>5, <2>k, <1>f, TicketMoves DEF BeginRestart, TypeOK
<1>2. CASE Retire(c)
  <2>k. call[c].kid \in Kids /\ Holds(c)
    BY <1>2 DEF Retire, HandsFull, Holds
  <2>1. CASE ~call[c].fill
    <3>1. Retired(c, pool, thread, tickets, "contained")
      BY <1>2, <2>1 DEF Retire
    <3> QED
      BY <1>2, <3>1, <2>k, RetiredTypes, ReapTypes DEF Retire, TypeOK
  <2>2. CASE call[c].fill
    <3>0. PICK g \in Nat : g = IF call[c].val THEN call[c].gen ELSE call[c].num
      BY <1>f
    <3>1. PICK n \in Fresh :
              /\ pool' = [pool EXCEPT !.retire = pool.retire - 1, !.retiring = @ \ {call[c].kid}]
              /\ thread' = [thread EXCEPT ![n] = [NoThread EXCEPT !.pc = "begin", !.gen = g, !.val = call[c].val]]
              /\ tickets' = (tickets \cup {<<n, g>>}) \ {<<c, call[c].num>>}
              /\ Leave(c, "contained")
      BY <1>2, <2>2, <3>0, <1>f DEF Retire, PoolType
    <3>2. n \in Kids
      BY DEF Fresh
    <3>3. pool.retire - 1 \in Nat
      BY <1>2, RetireCovers DEF Weight, Retire
    <3>4. pool' \in PoolType
      BY <3>1, <3>3, <1>f DEF PoolType
    <3>5. [NoThread EXCEPT !.pc = "begin", !.gen = g, !.val = call[c].val] \in ThreadType
      BY <1>f DEF NoThread, ThreadType, ThreadPcs
    <3>6. thread' \in [Kids -> ThreadType]
      BY <3>1, <3>2, <3>5 DEF TypeOK
    <3>7. tickets' \subseteq (Callers \cup Kids) \X Nat
      BY <3>1, <3>2, <1>f DEF TypeOK
    <3>8. call' \in [Callers -> CallType] /\ HandsFull'
      BY <3>1, <2>k, LeaveTypes
    <3> QED
      BY <1>2, <2>k, <3>4, <3>6, <3>7, <3>8, ReapTypes DEF Retire, TypeOK
  <2> QED
    BY <2>1, <2>2
<1>3. CASE RetireUnproven(c)
  <2>k. call[c].kid \in Kids
    BY <1>3 DEF RetireUnproven, HandsFull, Holds
  <2>1. [call[c] EXCEPT !.pc = "retireRest", !.set = Tracked \cup {call[c].kid}] \in CallType
    BY <2>k, <1>f DEF CallType, CallPcs
  <2>2. call' \in [Callers -> CallType] /\ HandsFull'
    BY <1>3, <2>1, <2>k, <1>f, CallMoves DEF RetireUnproven, CallType
  <2> QED
    BY <1>3, <2>2, <2>k, <1>f, ReapTypes, EmptiedType DEF RetireUnproven, TypeOK
<1>4. CASE RetireRest(c)
  BY <1>4, <1>f, RetiredTypes, ReapTypes DEF RetireRest, TypeOK
<1> QED
  BY <1>1, <1>2, <1>3, <1>4

LEMMA RecoverTypes ==
  ASSUME Typed, NEW c \in Callers,
         RecoverEnter(c) \/ Contain(c) \/ ContainUnproven(c) \/ DrainTimeout(c) \/ ContainRest(c) \/ Join(c)
  PROVE  TypeOK' /\ HandsFull'
<1> USE DEF Typed
<1>f. /\ pool \in PoolType /\ pool.gen \in Nat /\ pool.epoch \in Nat /\ retained \subseteq Kids
      /\ Tracked \subseteq Kids /\ call[c] \in CallType /\ call[c].set \subseteq Kids /\ call[c].gen \in Nat
      /\ call[c].epoch \in Nat
  BY PoolFields, CallFields
<1>k. ~(call[c].pc \in {"idle", "reap", "reapRest"}) => Holds(c) /\ call[c].kid \in Kids
  BY DEF HandsFull, Holds
<1>m. tickets \ {Mine(c)} \in SUBSET ((Callers \cup Kids) \X Nat)
  BY <1>f, TicketMoves DEF Mine
<1>1. CASE RecoverEnter(c)
  <2>k. call[c].pc = "recover" /\ call[c].kid \in Kids /\ Holds(c)
    BY <1>1, <1>k DEF RecoverEnter
  <2>1. CASE pool.closing
    <3>1. Calls(c, [call[c] EXCEPT !.pc = "join"])
      BY <1>1, <2>1 DEF RecoverEnter
    <3>2. [call[c] EXCEPT !.pc = "join"] \in CallType
      BY <1>f DEF CallType, CallPcs
    <3>3. call' \in [Callers -> CallType] /\ HandsFull'
      BY <3>1, <3>2, <2>k, <1>f, CallMoves DEF CallType
    <3> QED
      BY <1>1, <2>1, <3>3 DEF RecoverEnter, TypeOK
  <2>2. CASE /\ ~pool.closing
             /\ Leave(c, IF pool.health = "quarantined" /\ pool.unsafe THEN "unsafe" ELSE "contained")
             /\ UNCHANGED <<pool, tickets, rlock>>
    <3>1. call' \in [Callers -> CallType] /\ HandsFull'
      BY <2>2, <2>k, LeaveTypes
    <3> QED
      BY <1>1, <2>2, <3>1 DEF RecoverEnter, TypeOK
  <2>3. CASE /\ pool' = [Emptied(pool) EXCEPT !.epoch = @ + 1, !.repl = 1, !.health = "suspect"]
             /\ tickets' = tickets \cup {<<c, pool.gen + 1>>}
             /\ rlock' = c
             /\ Calls(c, [call[c] EXCEPT !.pc = "contain", !.gen = pool.gen + 1, !.set = Tracked \cup {call[c].kid}])
    <3>1. Emptied(pool) \in PoolType /\ Emptied(pool).epoch \in Nat
      BY EmptiedType DEF PoolType
    <3> DEFINE e == Emptied(pool)
    <3> HIDE DEF e
    <3>2. e.epoch + 1 \in Nat /\ e \in PoolType
      BY <3>1 DEF e
    <3>3. pool' = [e EXCEPT !.epoch = e.epoch + 1, !.repl = 1, !.health = "suspect"]
      BY <2>3, <3>2 DEF e, PoolType
    <3>4. pool' \in PoolType
      BY <3>2, <3>3 DEF PoolType, Health
    <3>5. pool.gen + 1 \in Nat
      BY <1>f
    <3>6. [call[c] EXCEPT !.pc = "contain", !.gen = pool.gen + 1, !.set = Tracked \cup {call[c].kid}] \in CallType
      BY <2>k, <3>5, <1>f DEF CallType, CallPcs
    <3>7. call' \in [Callers -> CallType] /\ HandsFull'
      BY <2>3, <3>6, <2>k, <1>f, CallMoves DEF CallType
    <3> QED
      BY <1>1, <2>3, <3>4, <3>5, <3>7, TicketMoves DEF RecoverEnter, TypeOK
  <2> QED
    BY <1>1, <2>1, <2>2, <2>3 DEF RecoverEnter
<1>2. CASE Contain(c)
  <2>1. [call[c] EXCEPT !.pc = "drain", !.set = {}] \in CallType
    BY <1>f DEF CallType, CallPcs
  <2>2. call' \in [Callers -> CallType] /\ HandsFull'
    BY <1>2, <2>1, <1>k, <1>f, CallMoves DEF Contain, CallType
  <2> QED
    BY <1>2, <2>2, <1>f, ReapTypes DEF Contain, TypeOK
<1>3. CASE ContainUnproven(c)
  <2>1. pool' \in PoolType
    <3>1. pool' = [pool EXCEPT !.unsafe = TRUE, !.repl = 0, !.health = "quarantined", !.spec = 0]
          \/ pool' = [pool EXCEPT !.unsafe = TRUE]
      BY <1>3 DEF ContainUnproven
    <3>2. CASE pool' = [pool EXCEPT !.unsafe = TRUE, !.repl = 0, !.health = "quarantined", !.spec = 0]
      BY <3>2, <1>f DEF PoolType, Health
    <3>3. CASE pool' = [pool EXCEPT !.unsafe = TRUE]
      BY <3>3, <1>f DEF PoolType
    <3> QED
      BY <3>1, <3>2, <3>3
  <2>2. call' \in [Callers -> CallType] /\ HandsFull'
    BY <1>3, <1>k, LeaveTypes DEF ContainUnproven
  <2> QED
    BY <1>3, <2>1, <2>2, <1>f, <1>m, ReapTypes DEF ContainUnproven, TypeOK
<1>4. CASE DrainTimeout(c)
  <2>1. [call[c] EXCEPT !.pc = "containRest", !.set = Tracked] \in CallType
    BY <1>f DEF CallType, CallPcs
  <2>2. call' \in [Callers -> CallType] /\ HandsFull'
    BY <1>4, <2>1, <1>k, <1>f, CallMoves DEF DrainTimeout, CallType
  <2> QED
    BY <1>4, <2>2, EmptiedType DEF DrainTimeout, TypeOK
<1>5. CASE ContainRest(c)
  <2>1. call' \in [Callers -> CallType] /\ HandsFull'
    BY <1>5, <1>k, LeaveTypes DEF ContainRest
  <2> QED
    BY <1>5, <2>1, <1>f, <1>m, ReapTypes DEF ContainRest, TypeOK
<1>6. CASE Join(c)
  <2>1. call' \in [Callers -> CallType] /\ HandsFull'
    BY <1>6, <1>k, LeaveTypes DEF Join
  <2> QED
    BY <1>6, <2>1 DEF Join, TypeOK
<1> QED
  BY <1>1, <1>2, <1>3, <1>4, <1>5, <1>6

\* The wrapper of a recovery.
LEMMA RecoveredTypes ==
  ASSUME Typed, NEW c \in Callers, Holds(c), Recovered(c, pool, tickets)
  PROVE  /\ tickets' \subseteq (Callers \cup Kids) \X Nat
         /\ call' \in [Callers -> CallType] /\ HandsFull'
         /\ rlock' \in Callers \cup {None}
<1> USE DEF Typed
<1>f. call[c] \in CallType /\ call[c].gen \in Nat /\ call[c].kid \in Kids
  BY CallFields DEF HandsFull
<1>1. tickets' \subseteq (Callers \cup Kids) \X Nat
  BY <1>f, TicketMoves DEF Recovered, Mine
<1>2. CASE pool.closing /\ ~pool.unsafe
  <2>1. Calls(c, [call[c] EXCEPT !.pc = "join", !.set = {}, !.fresh = None]) /\ UNCHANGED rlock
    BY <1>2 DEF Recovered
  <2>2. [call[c] EXCEPT !.pc = "join", !.set = {}, !.fresh = None] \in CallType
    BY <1>f DEF CallType, CallPcs
  <2>3. call' \in [Callers -> CallType] /\ HandsFull'
    BY <2>1, <2>2, <1>f, CallMoves DEF CallType
  <2> QED
    BY <1>1, <2>1, <2>3 DEF TypeOK
<1>3. CASE ~(pool.closing /\ ~pool.unsafe)
  <2>1. Leave(c, IF pool.unsafe THEN "unsafe" ELSE "contained") /\ rlock' = None
    BY <1>3 DEF Recovered
  <2>2. call' \in [Callers -> CallType] /\ HandsFull'
    BY <2>1, LeaveTypes
  <2> QED
    BY <1>1, <2>1, <2>2
<1> QED
  BY <1>2, <1>3

LEMMA ProbeTypes ==
  ASSUME Typed, NEW c \in Callers,
         Probe(c) \/ Probed(c) \/ ProbeFails(c) \/ ProbeUnproven(c) \/ DiscardProbe(c)
  PROVE  TypeOK' /\ HandsFull'
<1> USE DEF Typed
<1>f. /\ pool \in PoolType /\ retained \subseteq Kids /\ Tracked \subseteq Kids
      /\ call[c] \in CallType /\ call[c].set \subseteq Kids /\ call[c].gen \in Nat
  BY PoolFields, CallFields
<1>k. Holds(c) /\ call[c].kid \in Kids /\ call[c].pc \in {"drain", "probe", "discard"}
  BY DEF Probe, Probed, ProbeFails, ProbeUnproven, DiscardProbe, HandsFull, Holds
<1>n. call[c].pc # "drain" => call[c].fresh \in Kids
  BY <1>k DEF HandsFull, Probing
<1>m. tickets \ {Mine(c)} \in SUBSET ((Callers \cup Kids) \X Nat)
  BY <1>f, TicketMoves DEF Mine
<1>1. CASE Probe(c)
  <2>1. CASE \E n \in Fresh :
               /\ proc' = [proc EXCEPT ![n] = "starting"]
               /\ Calls(c, [call[c] EXCEPT !.pc = "probe", !.fresh = n])
               /\ UNCHANGED <<tickets, rlock>>
    <3>1. PICK n \in Kids :
               /\ proc' = [proc EXCEPT ![n] = "starting"]
               /\ Calls(c, [call[c] EXCEPT !.pc = "probe", !.fresh = n])
      BY <2>1 DEF Fresh
    <3>2. [call[c] EXCEPT !.pc = "probe", !.fresh = n] \in CallType
      BY <1>f DEF CallType, CallPcs
    <3>3. call' \in [Callers -> CallType] /\ HandsFull'
      BY <3>1, <3>2, <1>k, <1>f, CallMoves DEF CallType
    <3> QED
      BY <1>1, <2>1, <3>1, <3>3 DEF Probe, TypeOK
  <2>2. CASE Recovered(c, pool, tickets) /\ UNCHANGED proc
    BY <1>1, <2>2, <1>k, RecoveredTypes DEF Probe, TypeOK
  <2> QED
    BY <1>1, <2>1, <2>2 DEF Probe
<1>2. CASE Probed(c)
  <2>k. call[c].fresh \in Kids
    BY <1>2, <1>n DEF Probed
  <2>1. CASE Current(c) /\ pool.health = "suspect"
    <3> DEFINE p == [pool EXCEPT !.repl = 0, !.workers = @ \cup {call[c].fresh}, !.idle = @ \cup {call[c].fresh},
                                 !.fails = 0, !.health = "healthy"]
    <3>1. p \in PoolType
      BY <2>k, <1>f DEF PoolType, Health
    <3>2. TopUp(p, thread, tickets \ {Mine(c)}) /\ Leave(c, "contained") /\ rlock' = None
      BY <1>2, <2>1 DEF Probed
    <3>3. pool' \in PoolType /\ thread' \in [Kids -> ThreadType] /\ tickets' \subseteq (Callers \cup Kids) \X Nat
      <4> HIDE DEF p
      <4> QED
        BY <3>1, <3>2, <1>m, TopUpTypes DEF TypeOK
    <3>4. call' \in [Callers -> CallType] /\ HandsFull'
      BY <3>2, <1>k, LeaveTypes
    <3> QED
      BY <1>2, <2>k, <3>2, <3>3, <3>4 DEF Probed, TypeOK
  <2>2. CASE ~(Current(c) /\ pool.health = "suspect")
    <3>1. [call[c] EXCEPT !.pc = "discard"] \in CallType
      BY <1>f DEF CallType, CallPcs
    <3>2. call' \in [Callers -> CallType] /\ HandsFull'
      BY <1>2, <2>2, <3>1, <2>k, <1>k, <1>f, CallMoves DEF Probed, CallType
    <3> QED
      BY <1>2, <2>2, <2>k, <3>2 DEF Probed, TypeOK
  <2> QED
    BY <2>1, <2>2
<1>3. CASE ProbeFails(c)
  <2>1. pool' \in PoolType
    BY <1>3, <1>f DEF ProbeFails, PoolType, Health
  <2>2. /\ tickets' \subseteq (Callers \cup Kids) \X Nat
        /\ call' \in [Callers -> CallType] /\ HandsFull'
        /\ rlock' \in Callers \cup {None}
    BY <1>3, <1>k, RecoveredTypes DEF ProbeFails
  <2> QED
    BY <1>3, <2>1, <2>2, <1>n DEF ProbeFails, TypeOK
<1>4. ASSUME call[c].fresh \in Kids,
             Calls(c, [call[c] EXCEPT !.pc = "containRest", !.set = Tracked \cup {call[c].fresh}])
      PROVE  call' \in [Callers -> CallType] /\ HandsFull'
  <2>1. [call[c] EXCEPT !.pc = "containRest", !.set = Tracked \cup {call[c].fresh}] \in CallType
    BY <1>4, <1>f DEF CallType, CallPcs
  <2> QED
    BY <1>4, <2>1, <1>k, <1>f, CallMoves DEF CallType
<1>5. CASE ProbeUnproven(c)
  <2>1. call[c].fresh \in Kids /\ call' \in [Callers -> CallType] /\ HandsFull'
    BY <1>5, <1>4, <1>n DEF ProbeUnproven
  <2> QED
    BY <1>5, <2>1, EmptiedType DEF ProbeUnproven, TypeOK
<1>6. CASE DiscardProbe(c)
  <2>n. call[c].fresh \in Kids /\ {call[c].fresh} \in SUBSET Kids
    BY <1>6, <1>n DEF DiscardProbe
  <2>1. CASE Reap({call[c].fresh}, {call[c].fresh}) /\ Recovered(c, pool, tickets) /\ UNCHANGED pool
    <3>1. /\ tickets' \subseteq (Callers \cup Kids) \X Nat
          /\ call' \in [Callers -> CallType] /\ HandsFull'
          /\ rlock' \in Callers \cup {None}
      BY <2>1, <1>k, RecoveredTypes
    <3> QED
      BY <1>6, <2>1, <2>n, <3>1, ReapTypes DEF DiscardProbe, TypeOK
  <2>2. CASE /\ Reap({call[c].fresh}, {})
             /\ pool' = Unsafe(pool)
             /\ Calls(c, [call[c] EXCEPT !.pc = "containRest", !.set = Tracked \cup {call[c].fresh}])
             /\ UNCHANGED <<tickets, rlock>>
    BY <1>6, <2>2, <2>n, <1>4, ReapTypes, EmptiedType DEF DiscardProbe, TypeOK
  <2> QED
    BY <1>6, <2>1, <2>2 DEF DiscardProbe
<1> QED
  BY <1>1, <1>2, <1>3, <1>5, <1>6

\* Threads end, go on, or leave the callback of a quarantine.
LEMMA ThreadTakes ==
  ASSUME TypeOK, NEW k \in Kids, NEW pc \in ThreadPcs, NEW gpu \in BOOLEAN, NEW S \in SUBSET Kids
  PROVE  /\ [thread EXCEPT ![k].pc = pc, ![k].gpu = gpu, ![k].set = S] \in [Kids -> ThreadType]
         /\ [thread EXCEPT ![k].pc = pc, ![k].gpu = gpu] \in [Kids -> ThreadType]
         /\ [thread EXCEPT ![k].gpu = gpu, ![k].set = S] \in [Kids -> ThreadType]
         /\ [thread EXCEPT ![k].pc = pc] \in [Kids -> ThreadType]
<1>1. /\ [thread[k] EXCEPT !.pc = pc, !.gpu = gpu, !.set = S] \in ThreadType
      /\ [thread[k] EXCEPT !.pc = pc, !.gpu = gpu] \in ThreadType
      /\ [thread[k] EXCEPT !.gpu = gpu, !.set = S] \in ThreadType
      /\ [thread[k] EXCEPT !.pc = pc] \in ThreadType
  <2>1. thread[k] \in ThreadType
    BY DEF TypeOK
  <2>2. [thread[k] EXCEPT !.pc = pc, !.gpu = gpu, !.set = S] \in ThreadType
    BY <2>1 DEF ThreadType
  <2>3. [thread[k] EXCEPT !.pc = pc, !.gpu = gpu] \in ThreadType
    BY <2>1 DEF ThreadType
  <2>4. [thread[k] EXCEPT !.gpu = gpu, !.set = S] \in ThreadType
    BY <2>1 DEF ThreadType
  <2>5. [thread[k] EXCEPT !.pc = pc] \in ThreadType
    BY <2>1 DEF ThreadType
  <2> QED
    BY <2>2, <2>3, <2>4, <2>5
<1>2. [thread EXCEPT ![k].pc = pc, ![k].gpu = gpu, ![k].set = S] \in [Kids -> ThreadType]
  BY <1>1 DEF TypeOK
<1>3. [thread EXCEPT ![k].pc = pc, ![k].gpu = gpu] \in [Kids -> ThreadType]
  BY <1>1 DEF TypeOK
<1>4. [thread EXCEPT ![k].gpu = gpu, ![k].set = S] \in [Kids -> ThreadType]
  BY <1>1 DEF TypeOK
<1>5. [thread EXCEPT ![k].pc = pc] \in [Kids -> ThreadType]
  BY <1>1 DEF TypeOK
<1> QED
  BY <1>2, <1>3, <1>4, <1>5

LEMMA ThreadEnds ==
  ASSUME TypeOK, NEW k \in Kids
  PROVE  /\ [thread EXCEPT ![k] = NoThread] \in [Kids -> ThreadType]
         /\ Closes(k) \in SUBSET ((Callers \cup Kids) \X Nat)
<1>1. NoThread \in ThreadType
  BY DEF NoThread, ThreadType, ThreadPcs
<1> QED
  BY <1>1 DEF TypeOK, Closes

LEMMA EndsTypes ==
  ASSUME TypeOK, NEW k \in Kids, Ends(k)
  PROVE  thread' \in [Kids -> ThreadType] /\ tickets' \subseteq (Callers \cup Kids) \X Nat
BY ThreadEnds DEF Ends

LEMMA GoesTypes ==
  ASSUME TypeOK, NEW k \in Kids, NEW pc \in ThreadPcs, Goes(k, pc)
  PROVE  thread' \in [Kids -> ThreadType] /\ tickets' \subseteq (Callers \cup Kids) \X Nat
<1>1. [thread EXCEPT ![k].pc = pc] \in [Kids -> ThreadType]
  BY ThreadTakes
<1> QED
  BY <1>1 DEF Goes, TypeOK

LEMMA ThreadTypes ==
  ASSUME Typed, NEW k \in Kids, Replenish(k) \/ Exits(k)
  PROVE  TypeOK' /\ HandsFull'
<1> USE DEF Typed
<1>f. /\ pool \in PoolType /\ pool.repl \in Nat /\ pool.fails \in Nat /\ pool.gen \in Nat /\ retained \subseteq Kids
      /\ Tracked \subseteq Kids /\ thread[k] \in ThreadType /\ thread[k].set \subseteq Kids
  BY PoolFields, ThreadFields
<1>h. call' = call
  BY DEF Replenish, Build, BuildTimeout, Built, BuildFails, Register, RegisterStale, Discard, Failed, Clear, BackoffOver, Exits
<1>c. call' \in [Callers -> CallType] /\ HandsFull'
  BY <1>h DEF TypeOK, HandsFull, Holds, Probing
<1>e. {"begin", "build", "register", "failed", "discard", "clear", "backoff"} \subseteq ThreadPcs
  BY DEF ThreadPcs
<1>1. CASE Build(k)
  <2>1. thread' \in [Kids -> ThreadType] /\ tickets' \subseteq (Callers \cup Kids) \X Nat
    BY <1>1, <1>e, EndsTypes, GoesTypes DEF Build
  <2> QED
    BY <1>1, <1>c, <2>1 DEF Build, TypeOK
<1>2. CASE BuildTimeout(k)
  <2>1. thread' \in [Kids -> ThreadType] /\ tickets' \subseteq (Callers \cup Kids) \X Nat
    <3>1. CASE Ends(k)
      BY <3>1, EndsTypes
    <3>2. CASE thread' = [thread EXCEPT ![k].pc = "failed", ![k].gpu = TRUE] /\ UNCHANGED tickets
      <4>1. [thread EXCEPT ![k].pc = "failed", ![k].gpu = TRUE] \in [Kids -> ThreadType]
        BY <1>e, ThreadTakes
      <4> QED
        BY <3>2, <4>1 DEF TypeOK
    <3> QED
      BY <1>2, <3>1, <3>2 DEF BuildTimeout
  <2> QED
    BY <1>2, <1>c, <2>1 DEF BuildTimeout, TypeOK
<1>3. CASE Built(k)
  <2>1. thread' \in [Kids -> ThreadType] /\ tickets' \subseteq (Callers \cup Kids) \X Nat
    BY <1>3, <1>e, GoesTypes DEF Built
  <2> QED
    BY <1>3, <1>c, <2>1 DEF Built, TypeOK
<1>4. CASE BuildFails(k)
  <2>1. PICK f \in [reaped : BOOLEAN, gpu : BOOLEAN] :
         /\ proc' = [proc EXCEPT ![k] = IF f.reaped THEN "none" ELSE "stillborn"]
         /\ Records({k}, IF f.reaped THEN {k} ELSE {})
         /\ thread' = [thread EXCEPT ![k].pc = "failed", ![k].gpu = f.gpu]
    BY <1>4 DEF BuildFails, Failures
  <2>2. thread' \in [Kids -> ThreadType]
    BY <2>1, <1>e, ThreadTakes
  <2>3. retained' \subseteq Kids
    BY <2>1, <1>f DEF Records
  <2> QED
    BY <1>4, <1>c, <2>1, <2>2, <2>3 DEF BuildFails, TypeOK
<1>5. CASE Register(k)
  <2> DEFINE r == IF pool.repl > 0 THEN pool.repl - 1 ELSE 0
             s == IF thread[k].val THEN 0 ELSE pool.spec
             p == [pool EXCEPT !.repl = r]
             q == [pool EXCEPT !.repl = r, !.workers = @ \cup {k}, !.idle = @ \cup {k}, !.fails = 0,
                               !.health = "healthy", !.spec = s]
  <2>1. r \in Nat /\ s \in Nat
    BY <1>f DEF PoolType
  <2>2. p \in PoolType /\ q \in PoolType
    BY <2>1, <1>f DEF PoolType, Health
  <2>3. \/ TopUp(q, [thread EXCEPT ![k] = NoThread], Closes(k)) /\ retained' = retained \ {k}
        \/ TopUp(p, [thread EXCEPT ![k].pc = "discard"], tickets) /\ UNCHANGED retained
    BY <1>5, <1>f DEF Register, PoolType
  <2>4. [thread EXCEPT ![k].pc = "discard"] \in [Kids -> ThreadType]
    BY <1>e DEF TypeOK, ThreadType
  <2>5. [thread EXCEPT ![k] = NoThread] \in [Kids -> ThreadType] /\ Closes(k) \in SUBSET ((Callers \cup Kids) \X Nat)
    BY ThreadEnds
  <2> HIDE DEF p, q
  <2>6. pool' \in PoolType /\ thread' \in [Kids -> ThreadType] /\ tickets' \subseteq (Callers \cup Kids) \X Nat
    BY <2>2, <2>3, <2>4, <2>5, TopUpTypes DEF TypeOK
  <2> QED
    BY <1>5, <1>c, <1>f, <2>3, <2>6 DEF Register, TypeOK
<1>6. CASE RegisterStale(k)
  <2>1. thread' \in [Kids -> ThreadType] /\ tickets' \subseteq (Callers \cup Kids) \X Nat
    BY <1>6, <1>e, GoesTypes DEF RegisterStale
  <2> QED
    BY <1>6, <1>c, <2>1 DEF RegisterStale, TypeOK
<1>7. CASE Discard(k)
  <2>1. CASE Reap({k}, {k}) /\ Ends(k) /\ UNCHANGED pool
    <3>1. thread' \in [Kids -> ThreadType] /\ tickets' \subseteq (Callers \cup Kids) \X Nat
      BY <2>1, EndsTypes
    <3> QED
      BY <1>7, <2>1, <3>1, <1>c, ReapTypes DEF Discard, TypeOK
  <2>2. CASE /\ Reap({k}, {})
             /\ pool' = Unsafe(pool)
             /\ thread' = [thread EXCEPT ![k].pc = "clear", ![k].gpu = FALSE, ![k].set = Tracked \cup {k}]
             /\ UNCHANGED tickets
    <3>1. thread' \in [Kids -> ThreadType]
      <4>1. [thread EXCEPT ![k].pc = "clear", ![k].gpu = FALSE, ![k].set = Tracked \cup {k}] \in [Kids -> ThreadType]
        <5>1. "clear" \in ThreadPcs /\ Tracked \cup {k} \in SUBSET Kids /\ Tracked \in SUBSET Kids /\ TRUE \in BOOLEAN
          BY <1>e, <1>f
        <5> QED
          BY <5>1, ThreadTakes
      <4> QED
        BY <2>2, <4>1
    <3> QED
      BY <1>7, <2>2, <3>1, <1>c, ReapTypes, EmptiedType DEF Discard, TypeOK
  <2> QED
    BY <1>7, <2>1, <2>2 DEF Discard
<1>8. CASE Failed(k)
  <2>1. CASE Ends(k) /\ UNCHANGED pool
    BY <1>8, <2>1, <1>c, EndsTypes DEF Failed, TypeOK
  <2>2. CASE /\ pool' = [Emptied(pool) EXCEPT !.fails = @ + 1, !.health = "quarantined"]
             /\ thread' = [thread EXCEPT ![k].pc = "clear", ![k].gpu = TRUE, ![k].set = Tracked]
             /\ UNCHANGED tickets
    <3>1. thread' \in [Kids -> ThreadType]
      <4>1. [thread EXCEPT ![k].pc = "clear", ![k].gpu = TRUE, ![k].set = Tracked] \in [Kids -> ThreadType]
        <5>1. "clear" \in ThreadPcs /\ Tracked \cup {k} \in SUBSET Kids /\ Tracked \in SUBSET Kids /\ TRUE \in BOOLEAN
          BY <1>e, <1>f
        <5> QED
          BY <5>1, ThreadTakes
      <4> QED
        BY <2>2, <4>1
    <3> DEFINE e == Emptied(pool)
    <3>2. e \in PoolType
      BY EmptiedType
    <3> HIDE DEF e
    <3>3. pool' = [e EXCEPT !.fails = e.fails + 1, !.health = "quarantined"]
      BY <2>2, <3>2 DEF e, PoolType
    <3>4. e.fails + 1 \in Nat
      BY <3>2 DEF PoolType
    <3>5. pool' \in PoolType
      BY <3>2, <3>3, <3>4 DEF PoolType, Health
    <3> QED
      BY <1>8, <2>2, <3>1, <3>5, <1>c DEF Failed, TypeOK
  <2>3. CASE /\ pool' = [pool EXCEPT !.fails = @ + 1, !.gen = @ + 1, !.repl = 0, !.spec = 0, !.health = "bootstrap_failed"]
             /\ Ends(k)
    <3>1. pool.fails + 1 \in Nat /\ pool.gen + 1 \in Nat
      BY <1>f
    <3>2. pool' = [pool EXCEPT !.fails = pool.fails + 1, !.gen = pool.gen + 1, !.repl = 0, !.spec = 0,
                               !.health = "bootstrap_failed"]
      BY <2>3, <1>f DEF PoolType
    <3>3. pool' \in PoolType
      BY <3>1, <3>2, <1>f DEF PoolType, Health
    <3> QED
      BY <1>8, <2>3, <3>3, <1>c, EndsTypes DEF Failed, TypeOK
  <2>4. CASE pool' = [pool EXCEPT !.fails = @ + 1] /\ Goes(k, "backoff")
    <3>1. pool.fails + 1 \in Nat
      BY <1>f
    <3>2. pool' = [pool EXCEPT !.fails = pool.fails + 1]
      BY <2>4, <1>f DEF PoolType
    <3>3. pool' \in PoolType
      BY <3>1, <3>2, <1>f DEF PoolType
    <3>4. thread' \in [Kids -> ThreadType] /\ tickets' \subseteq (Callers \cup Kids) \X Nat
      BY <2>4, <1>e, GoesTypes
    <3> QED
      BY <1>8, <3>3, <3>4, <1>c DEF Failed, TypeOK
  <2> QED
    BY <1>8, <2>1, <2>2, <2>3, <2>4 DEF Failed
<1>9. CASE Clear(k)
  <2>1. PICK ok \in SUBSET thread[k].set :
         /\ Reap(thread[k].set, ok)
         /\ \/ /\ pool' = Unsafe(pool)
               /\ thread' = [thread EXCEPT ![k].gpu = FALSE, ![k].set = (Tracked \cup thread[k].set) \ ok]
               /\ UNCHANGED tickets
            \/ Ends(k) /\ UNCHANGED pool
    BY <1>9, <1>f DEF Clear, TypeOK, ThreadType
  <2>2. thread' \in [Kids -> ThreadType] /\ tickets' \subseteq (Callers \cup Kids) \X Nat
    <3>1. [thread EXCEPT ![k].gpu = FALSE, ![k].set = (Tracked \cup thread[k].set) \ ok] \in [Kids -> ThreadType]
      <4>1. (Tracked \cup thread[k].set) \ ok \in SUBSET Kids
        BY <1>f
      <4>2. "clear" \in ThreadPcs
        BY <1>e
      <4> QED
        BY <4>1, <4>2, ThreadTakes
    <3> QED
      BY <2>1, <3>1, EndsTypes DEF TypeOK
  <2>3. pool' \in PoolType
    BY <2>1, <1>f, EmptiedType
  <2> QED
    BY <1>9, <1>c, <1>f, <2>1, <2>2, <2>3, ReapTypes DEF Clear, TypeOK
<1>10. CASE BackoffOver(k)
  <2>1. CASE Ends(k) /\ UNCHANGED pool
    BY <1>10, <2>1, <1>c, EndsTypes DEF BackoffOver, TypeOK
  <2>2. CASE TopUp([pool EXCEPT !.repl = IF @ > 0 THEN @ - 1 ELSE 0], [thread EXCEPT ![k] = NoThread], Closes(k))
    <3> DEFINE r == IF pool.repl > 0 THEN pool.repl - 1 ELSE 0
               p == [pool EXCEPT !.repl = r]
    <3>1. r \in Nat
      BY <1>f
    <3>2. p \in PoolType
      BY <3>1, <1>f DEF PoolType
    <3>3. TopUp(p, [thread EXCEPT ![k] = NoThread], Closes(k))
      BY <2>2, <1>f DEF PoolType
    <3> HIDE DEF p
    <3>4. pool' \in PoolType /\ thread' \in [Kids -> ThreadType] /\ tickets' \subseteq (Callers \cup Kids) \X Nat
      BY <3>2, <3>3, ThreadEnds, TopUpTypes
    <3> QED
      BY <1>10, <1>c, <3>4 DEF BackoffOver, TypeOK
  <2> QED
    BY <1>10, <2>1, <2>2 DEF BackoffOver
<1>11. CASE Exits(k)
  BY <1>11, <1>c DEF Exits, TypeOK
<1> QED
  BY <1>1, <1>2, <1>3, <1>4, <1>5, <1>6, <1>7, <1>8, <1>9, <1>10, <1>11 DEF Replenish

LEMMA StopTypes ==
  ASSUME Typed, Stop
  PROVE  TypeOK' /\ HandsFull'
<1> USE DEF Typed
<1>f. /\ pool \in PoolType /\ pool.spec \in Nat /\ retained \subseteq Kids /\ Tracked \subseteq Kids
      /\ stop \in StopType /\ stop.set \subseteq Kids /\ stop.late \subseteq Kids
  BY PoolFields DEF TypeOK, StopType
<1>h. call' = call
  BY DEF Stop, StopBegin, StopReap, StopDrain, StopLate
<1>c. call' \in [Callers -> CallType] /\ HandsFull'
  BY <1>h DEF TypeOK, HandsFull, Holds, Probing
<1>1. CASE StopBegin
  <2> DEFINE e == Emptied(pool)
  <2>2. e \in PoolType
    BY EmptiedType
  <2> HIDE DEF e
  <2>3. [e EXCEPT !.closing = TRUE, !.spec = pool.spec] \in PoolType
    BY <2>2, <1>f DEF PoolType
  <2>4. stop' \in StopType
    BY <1>1, <1>f DEF StopBegin, StopType
  <2> QED
    BY <1>1, <1>c, <2>3, <2>4 DEF StopBegin, TypeOK, e
<1>2. CASE StopReap
  <2>1. PICK ok \in SUBSET stop.set :
         Reap(stop.set, ok) /\ stop' = [stop EXCEPT !.pc = "drain", !.bad = ok # stop.set]
    BY <1>2 DEF StopReap
  <2>2. stop' \in StopType
    BY <2>1, <1>f DEF StopType
  <2> QED
    BY <1>2, <1>c, <1>f, <2>1, <2>2, ReapTypes DEF StopReap, TypeOK
<1>3. CASE StopDrain
  <2>1. stop' \in StopType
    BY <1>3, <1>f DEF StopDrain, StopType, Drained
  <2>2. pool' \in PoolType
    BY <1>3, <1>f DEF StopDrain, PoolType
  <2> QED
    BY <1>3, <1>c, <2>1, <2>2 DEF StopDrain, TypeOK
<1>4. CASE StopLate
  <2>1. PICK ok \in SUBSET stop.late, sure \in BOOLEAN :
         /\ Reap(stop.late, ok)
         /\ pool' = [pool EXCEPT !.unsafe = @ \/ ~sure]
         /\ stop' = [stop EXCEPT !.pc = "done", !.set = {}, !.late = {}, !.safe = sure /\ ~pool.unsafe]
    <3>1. PICK ok \in SUBSET stop.late :
         LET sure == stop.drained /\ ~stop.bad /\ ok = stop.late IN
         /\ Reap(stop.late, ok)
         /\ pool' = [pool EXCEPT !.unsafe = @ \/ ~sure]
         /\ stop' = [stop EXCEPT !.pc = "done", !.set = {}, !.late = {}, !.safe = sure /\ ~pool.unsafe]
      BY <1>4 DEF StopLate
    <3>2. (stop.drained /\ ~stop.bad /\ ok = stop.late) \in BOOLEAN
      OBVIOUS
    <3> QED
      BY <3>1, <3>2
  <2>2. PICK u \in BOOLEAN, s \in BOOLEAN : u = (pool.unsafe \/ ~sure) /\ s = (sure /\ ~pool.unsafe)
    BY Zenon
  <2>3. pool' = [pool EXCEPT !.unsafe = u]
    BY <2>1, <2>2, <1>f DEF PoolType
  <2>4. pool' \in PoolType
    BY <2>3, <1>f DEF PoolType
  <2>5. stop' = [stop EXCEPT !.pc = "done", !.set = {}, !.late = {}, !.safe = s]
    BY <2>1, <2>2
  <2>6. stop' \in StopType
    BY <2>5, <1>f DEF StopType
  <2> QED
    BY <1>4, <1>c, <1>f, <2>1, <2>4, <2>6, ReapTypes DEF StopLate, TypeOK
<1> QED
  BY <1>1, <1>2, <1>3, <1>4 DEF Stop

LEMMA TypesKept ==
  ASSUME Typed, Next
  PROVE  TypeOK' /\ HandsFull'
<1>1. ASSUME NEW c \in Callers, Task(c)
      PROVE  TypeOK' /\ HandsFull'
  BY <1>1, SearchTypes, RunTypes, RestartTypes, RecoverTypes, ProbeTypes DEF Task
<1> QED
  BY <1>1, ThreadTypes, StopTypes DEF Next

-----------------------------------------------------------------------------
(* What topping up leaves as it is.                                        *)

SameLists == pool'.workers = pool.workers /\ pool'.idle = pool.idle /\ pool'.busy = pool.busy

\* The generation, the epoch and the health.
SameEra ==
    /\ pool'.gen = pool.gen /\ pool'.epoch = pool.epoch /\ pool'.health = pool.health
    /\ pool'.closing = pool.closing /\ pool'.unsafe = pool.unsafe

\* A thread that the step starts.
New(k) ==
    /\ k \in Fresh
    /\ thread'[k] = Begun(pool'.gen)
    /\ <<k, pool'.gen>> \in tickets'
    /\ pool'.health = "healthy" /\ ~pool'.closing

\* Threads and tickets are th and tk, and new ones.
Grown(th, tk) == tk \subseteq tickets' /\ \A k \in Kids : thread'[k] = th[k] \/ New(k)

Fits(p) == Cardinality(p.workers) + p.repl <= PoolSize

LEMMA TopUpGrows ==
  ASSUME NEW p \in PoolType, NEW th, NEW tk, TopUp(p, th, tk)
  PROVE  /\ pool'.workers = p.workers /\ pool'.idle = p.idle /\ pool'.busy = p.busy
         /\ pool'.retiring = p.retiring /\ pool'.retire = p.retire
         /\ pool'.gen = p.gen /\ pool'.epoch = p.epoch /\ pool'.health = p.health
         /\ pool'.closing = p.closing /\ pool'.unsafe = p.unsafe
         /\ Grown(th, tk)
         /\ p.health # "healthy" \/ p.closing => pool'.repl = p.repl
         /\ Fits(p) => Fits(pool')
<1>1. PICK N \in SUBSET Fresh :
           /\ pool' = [p EXCEPT !.repl = p.repl + Need(p)]
           /\ Need(p) = 0 => N = {}
           /\ thread' = [k \in Kids |-> IF k \in N THEN Begun(p.gen) ELSE th[k]]
           /\ tickets' = tk \cup (N \X {p.gen})
  BY TopUpEffect
<1>2. /\ pool'.workers = p.workers /\ pool'.idle = p.idle /\ pool'.busy = p.busy
      /\ pool'.retiring = p.retiring /\ pool'.retire = p.retire
      /\ pool'.gen = p.gen /\ pool'.epoch = p.epoch /\ pool'.health = p.health
      /\ pool'.closing = p.closing /\ pool'.unsafe = p.unsafe
      /\ pool'.repl = p.repl + Need(p)
  BY <1>1 DEF PoolType
<1>3. p.health # "healthy" \/ p.closing => Need(p) = 0 /\ N = {}
  BY <1>1 DEF Need
<1>4. Grown(th, tk)
  <2>1. \A k \in Kids : thread'[k] = IF k \in N THEN Begun(p.gen) ELSE th[k]
    BY <1>1
  <2>2. \A k \in N : <<k, p.gen>> \in tickets'
    BY <1>1
  <2> QED
    BY <1>1, <1>2, <1>3, <2>1, <2>2 DEF Grown, New
<1>5. p.health # "healthy" \/ p.closing => pool'.repl = p.repl
  BY <1>2, <1>3 DEF PoolType
<1>6. Fits(p) => Fits(pool')
  <2>1. Cardinality(p.workers) \in Nat /\ p.repl \in Nat /\ p.retire \in Nat
    BY Sizes DEF PoolType
  <2> QED
    BY <1>2, <2>1, Names DEF Fits, Need
<1> QED
  BY <1>2, <1>4, <1>5, <1>6

LEMMA DispatchEffect ==
  ASSUME TypeOK, NEW c \in Callers, Dispatch(c)
  PROVE  \E k \in pool.idle :
           /\ pool'.workers = pool.workers /\ pool'.idle = pool.idle \ {k} /\ pool'.busy = pool.busy \cup {k}
           /\ pool'.retiring = pool.retiring /\ pool'.retire = pool.retire
           /\ SameEra /\ Grown(thread, tickets)
           /\ pool.health # "healthy" \/ pool.closing => pool'.repl = pool.repl
           /\ Fits(pool) => Fits(pool')
           /\ call' = [call EXCEPT ![c] = [IdleCall EXCEPT !.pc = "run", !.kid = k, !.epoch = pool.epoch]]
           /\ UNCHANGED <<proc, retained, rlock, stop>>
<1>1. PICK k \in pool.idle :
       /\ TopUp([pool EXCEPT !.idle = @ \ {k}, !.busy = @ \cup {k},
                             !.spec = IF pool.health = "degraded_check" THEN @ - 1 ELSE @], thread, tickets)
       /\ Calls(c, [IdleCall EXCEPT !.pc = "run", !.kid = k, !.epoch = pool.epoch])
  BY DEF Dispatch
<1> DEFINE s == IF pool.health = "degraded_check" THEN pool.spec - 1 ELSE pool.spec
           p == [pool EXCEPT !.idle = @ \ {k}, !.busy = @ \cup {k}, !.spec = s]
<1>a. k \in Kids /\ pool.spec \in Nat /\ pool \in PoolType
  BY PoolFields
<1>b. pool.health = "degraded_check" => pool.spec > 0
  BY DEF Dispatch, Admits
<1>2. s \in Nat
  BY <1>a, <1>b
<1>3. p \in PoolType /\ p.workers = pool.workers /\ p.idle = pool.idle \ {k} /\ p.busy = pool.busy \cup {k}
      /\ p.retiring = pool.retiring /\ p.retire = pool.retire /\ p.repl = pool.repl
      /\ p.gen = pool.gen /\ p.epoch = pool.epoch /\ p.health = pool.health
      /\ p.closing = pool.closing /\ p.unsafe = pool.unsafe
  BY <1>2, <1>a DEF PoolType
<1>4. TopUp(p, thread, tickets)
  BY <1>1, <1>a DEF PoolType
<1> HIDE DEF p
<1>5. /\ pool'.workers = pool.workers /\ pool'.idle = pool.idle \ {k} /\ pool'.busy = pool.busy \cup {k}
      /\ pool'.retiring = pool.retiring /\ pool'.retire = pool.retire
      /\ SameEra /\ Grown(thread, tickets)
      /\ pool.health # "healthy" \/ pool.closing => pool'.repl = pool.repl
      /\ Fits(pool) => Fits(pool')
  BY <1>3, <1>4, TopUpGrows DEF SameEra, Fits
<1> QED
  BY <1>1, <1>5 DEF Dispatch, Calls

LEMMA DetachedEffect ==
  ASSUME Typed, NEW c \in Callers, call[c].pc \in {"reap", "reapRest"}, NEW p \in PoolType,
         p.retire = pool.retire, Detached(c, p)
  PROVE  /\ pool'.workers = p.workers /\ pool'.idle = p.idle /\ pool'.busy = p.busy
         /\ pool'.retiring = p.retiring /\ pool'.retire = p.retire - call[c].num
         /\ pool'.gen = p.gen /\ pool'.epoch = p.epoch /\ pool'.health = p.health
         /\ pool'.closing = p.closing /\ pool'.unsafe = p.unsafe
         /\ Grown(thread, tickets \ {<<c, call[c].gen>>})
         /\ p.health # "healthy" \/ p.closing => pool'.repl = p.repl
         /\ Fits(p) => Fits(pool')
         /\ call' = [call EXCEPT ![c] = IdleCall]
<1>1. p.retire - call[c].num \in Nat
  BY RetireCovers DEF Typed, Weight
<1> DEFINE q == [p EXCEPT !.retire = p.retire - call[c].num]
<1>2. q \in PoolType /\ q.workers = p.workers /\ q.idle = p.idle /\ q.busy = p.busy
      /\ q.retiring = p.retiring /\ q.retire = p.retire - call[c].num /\ q.repl = p.repl
      /\ q.gen = p.gen /\ q.epoch = p.epoch /\ q.health = p.health
      /\ q.closing = p.closing /\ q.unsafe = p.unsafe
  BY <1>1 DEF PoolType
<1>3. TopUp(q, thread, tickets \ {<<c, call[c].gen>>}) /\ Calls(c, IdleCall)
  BY DEF Detached, PoolType
<1> HIDE DEF q
<1> QED
  BY <1>2, <1>3, TopUpGrows DEF Calls, Fits

LEMMA RetiredEffect ==
  ASSUME Typed, NEW c \in Callers, call[c].pc \in {"retire", "retireRest"}, NEW out,
         Retired(c, pool, thread, tickets, out)
  PROVE  /\ SameLists /\ SameEra
         /\ pool'.retiring = pool.retiring \ {call[c].kid} /\ pool'.retire = pool.retire - 1
         /\ Grown(thread, tickets \ {<<c, call[c].num>>})
         /\ pool.health # "healthy" \/ pool.closing => pool'.repl = pool.repl
         /\ Fits(pool) => Fits(pool')
         /\ call' = [call EXCEPT ![c] = [IdleCall EXCEPT !.pc = "return", !.kid = call[c].kid, !.out = out]]
<1>1. pool.retire - 1 \in Nat /\ pool \in PoolType
  BY RetireCovers, PoolFields DEF Typed, Weight
<1> DEFINE q == [pool EXCEPT !.retire = pool.retire - 1, !.retiring = @ \ {call[c].kid}]
<1>2. q \in PoolType /\ q.workers = pool.workers /\ q.idle = pool.idle /\ q.busy = pool.busy
      /\ q.retiring = pool.retiring \ {call[c].kid} /\ q.retire = pool.retire - 1 /\ q.repl = pool.repl
      /\ q.gen = pool.gen /\ q.epoch = pool.epoch /\ q.health = pool.health
      /\ q.closing = pool.closing /\ q.unsafe = pool.unsafe
  BY <1>1 DEF PoolType
<1>3. TopUp(q, thread, tickets \ {<<c, call[c].num>>}) /\ Leave(c, out)
  BY <1>1 DEF Retired, PoolType
<1> HIDE DEF q
<1> QED
  BY <1>2, <1>3, TopUpGrows DEF Leave, Calls, Fits, SameLists, SameEra

LEMMA ReturnEffect ==
  ASSUME TypeOK, NEW c \in Callers, Return(c)
  PROVE  \E back \in SUBSET ({call[c].kid} \cap pool.workers) :
         /\ pool'.workers = pool.workers /\ pool'.idle = pool.idle \cup back /\ pool'.busy = pool.busy \ {call[c].kid}
         /\ pool'.retiring = pool.retiring /\ pool'.retire = pool.retire
         /\ SameEra /\ Grown(thread, tickets)
         /\ pool.health # "healthy" \/ pool.closing => pool'.repl = pool.repl
         /\ Fits(pool) => Fits(pool')
         /\ call' = [call EXCEPT ![c] = IdleCall]
         /\ UNCHANGED <<proc, retained, rlock, stop>>
<1> DEFINE back == IF call[c].kid \in pool.workers /\ Alive(call[c].kid) THEN {call[c].kid} ELSE {}
           q == [pool EXCEPT !.busy = @ \ {call[c].kid}, !.idle = @ \cup back]
<1>1. back \in SUBSET ({call[c].kid} \cap pool.workers) /\ back \in SUBSET Kids /\ pool \in PoolType
  BY PoolFields
<1>2. q \in PoolType /\ q.workers = pool.workers /\ q.idle = pool.idle \cup back /\ q.busy = pool.busy \ {call[c].kid}
      /\ q.retiring = pool.retiring /\ q.retire = pool.retire /\ q.repl = pool.repl
      /\ q.gen = pool.gen /\ q.epoch = pool.epoch /\ q.health = pool.health
      /\ q.closing = pool.closing /\ q.unsafe = pool.unsafe
  BY <1>1 DEF PoolType
<1>3. TopUp(q, thread, tickets) /\ Calls(c, IdleCall) /\ UNCHANGED <<proc, retained, rlock, stop>>
  BY DEF Return
<1> HIDE DEF q, back
<1>4. /\ pool'.workers = pool.workers /\ pool'.idle = pool.idle \cup back /\ pool'.busy = pool.busy \ {call[c].kid}
      /\ pool'.retiring = pool.retiring /\ pool'.retire = pool.retire
      /\ SameEra /\ Grown(thread, tickets)
      /\ pool.health # "healthy" \/ pool.closing => pool'.repl = pool.repl
      /\ Fits(pool) => Fits(pool')
  BY <1>2, <1>3, TopUpGrows DEF Fits, SameEra
<1> QED
  BY <1>1, <1>3, <1>4 DEF Calls

\* A replacement decided by _restart_worker: one new thread, whatever the pool has become.
LEMMA RetireEffect ==
  ASSUME Typed, NEW c \in Callers, Retire(c)
  PROVE  /\ SameLists /\ SameEra
         /\ pool'.retiring = pool.retiring \ {call[c].kid} /\ pool'.retire = pool.retire - 1
         /\ pool.health # "healthy" \/ pool.closing => pool'.repl = pool.repl
         /\ Fits(pool) => Fits(pool')
         /\ call' = [call EXCEPT ![c] = [IdleCall EXCEPT !.pc = "return", !.kid = call[c].kid, !.out = "contained"]]
         /\ \/ Grown(thread, tickets \ {<<c, call[c].num>>})
            \/ /\ call[c].fill
               /\ \E n \in Fresh, g \in Nat :
                    /\ g = IF call[c].val THEN call[c].gen ELSE call[c].num
                    /\ thread' = [thread EXCEPT ![n] = [NoThread EXCEPT !.pc = "begin", !.gen = g, !.val = call[c].val]]
                    /\ tickets' = (tickets \cup {<<n, g>>}) \ {<<c, call[c].num>>}
         /\ UNCHANGED <<rlock, stop>>
<1>f. pool \in PoolType /\ call[c].gen \in Nat /\ call[c].num \in Nat /\ pool.retire - 1 \in Nat
  BY PoolFields, CallFields, RetireCovers DEF Typed, Weight, Retire
<1>1. CASE ~call[c].fill
  <2>1. Retired(c, pool, thread, tickets, "contained")
    BY <1>1 DEF Retire
  <2> QED
    BY <2>1, RetiredEffect DEF Retire
<1>2. CASE call[c].fill
  <2>0. PICK g \in Nat : g = IF call[c].val THEN call[c].gen ELSE call[c].num
    BY <1>f
  <2>1. PICK n \in Fresh :
              /\ pool' = [pool EXCEPT !.retire = pool.retire - 1, !.retiring = @ \ {call[c].kid}]
              /\ thread' = [thread EXCEPT ![n] = [NoThread EXCEPT !.pc = "begin", !.gen = g, !.val = call[c].val]]
              /\ tickets' = (tickets \cup {<<n, g>>}) \ {<<c, call[c].num>>}
              /\ Leave(c, "contained")
    BY <1>2, <2>0, <1>f DEF Retire, PoolType
  <2>2. /\ SameLists /\ SameEra /\ pool'.repl = pool.repl
        /\ pool'.retiring = pool.retiring \ {call[c].kid} /\ pool'.retire = pool.retire - 1
    BY <2>1, <1>f DEF PoolType, SameLists, SameEra
  <2>3. Fits(pool) => Fits(pool')
    BY <2>2 DEF SameLists, Fits
  <2>4. call' = [call EXCEPT ![c] = [IdleCall EXCEPT !.pc = "return", !.kid = call[c].kid, !.out = "contained"]]
    BY <2>1 DEF Leave, Calls
  <2> QED
    BY <1>2, <2>0, <2>1, <2>2, <2>3, <2>4 DEF Retire
<1> QED
  BY <1>1, <1>2

\* The fresh context joins the emptied pool.
LEMMA ProbedEffect ==
  ASSUME Typed, NEW c \in Callers, Probed(c), Current(c), pool.health = "suspect"
  PROVE  /\ pool'.workers = pool.workers \cup {call[c].fresh} /\ pool'.idle = pool.idle \cup {call[c].fresh}
         /\ pool'.busy = pool.busy /\ pool'.retiring = pool.retiring /\ pool'.retire = pool.retire
         /\ pool'.gen = pool.gen /\ pool'.epoch = pool.epoch /\ pool'.health = "healthy"
         /\ pool'.closing = pool.closing /\ pool'.unsafe = pool.unsafe
         /\ Grown(thread, tickets \ {<<c, call[c].gen>>})
         /\ Cardinality(pool.workers \cup {call[c].fresh}) <= PoolSize => Fits(pool')
         /\ call' = [call EXCEPT ![c] = [IdleCall EXCEPT !.pc = "return", !.kid = call[c].kid, !.out = "contained"]]
         /\ proc' = [proc EXCEPT ![call[c].fresh] = "live"] /\ rlock' = None
         /\ UNCHANGED <<retained, stop>>
<1> DEFINE q == [pool EXCEPT !.repl = 0, !.workers = @ \cup {call[c].fresh}, !.idle = @ \cup {call[c].fresh},
                             !.fails = 0, !.health = "healthy"]
<1>1. pool \in PoolType /\ call[c].fresh \in Kids
  BY PoolFields DEF Typed, HandsFull, Probing, Probed
<1>2. q \in PoolType /\ q.workers = pool.workers \cup {call[c].fresh} /\ q.idle = pool.idle \cup {call[c].fresh}
      /\ q.busy = pool.busy /\ q.retiring = pool.retiring /\ q.retire = pool.retire /\ q.repl = 0
      /\ q.gen = pool.gen /\ q.epoch = pool.epoch /\ q.health = "healthy"
      /\ q.closing = pool.closing /\ q.unsafe = pool.unsafe
  BY <1>1 DEF PoolType, Health
<1>3. TopUp(q, thread, tickets \ {<<c, call[c].gen>>}) /\ Leave(c, "contained") /\ rlock' = None
  BY DEF Probed, Mine
<1>4. Cardinality(pool.workers \cup {call[c].fresh}) \in Nat
  <2>1. pool.workers \cup {call[c].fresh} \in SUBSET Kids
    BY <1>1 DEF PoolType
  <2> QED
    BY <2>1, Sizes
<1> HIDE DEF q
<1>5. Cardinality(pool.workers \cup {call[c].fresh}) <= PoolSize => Fits(q)
  BY <1>2, <1>4 DEF Fits
<1>6. call' = [call EXCEPT ![c] = [IdleCall EXCEPT !.pc = "return", !.kid = call[c].kid, !.out = "contained"]]
  BY <1>3 DEF Leave, Calls
<1>7. proc' = [proc EXCEPT ![call[c].fresh] = "live"] /\ UNCHANGED <<retained, stop>>
  BY DEF Probed
<1> QED
  BY <1>2, <1>3, <1>5, <1>6, <1>7, TopUpGrows

\* A child joins the pool, or the pool is full.
LEMMA RegisterEffect ==
  ASSUME TypeOK, NEW k \in Kids, Register(k)
  PROVE  /\ thread[k].pc = "register" /\ ~pool.closing /\ thread[k].gen = pool.gen
         /\ pool.health = IF thread[k].val THEN "degraded_check" ELSE "healthy"
         /\ pool'.busy = pool.busy /\ pool'.retiring = pool.retiring /\ pool'.retire = pool.retire
         /\ pool'.gen = pool.gen /\ pool'.epoch = pool.epoch
         /\ pool'.closing = pool.closing /\ pool'.unsafe = pool.unsafe
         /\ UNCHANGED <<proc, call, rlock, stop>>
         /\ \/ /\ Cardinality(pool.workers) < PoolSize
               /\ pool'.workers = pool.workers \cup {k} /\ pool'.idle = pool.idle \cup {k} /\ pool'.health = "healthy"
               /\ Grown([thread EXCEPT ![k] = NoThread], tickets \ {<<k, thread[k].gen>>})
               /\ retained' = retained \ {k}
               /\ Fits(pool) => Fits(pool')
            \/ /\ pool'.workers = pool.workers /\ pool'.idle = pool.idle /\ pool'.health = pool.health
               /\ Grown([thread EXCEPT ![k].pc = "discard"], tickets)
               /\ retained' = retained
               /\ Fits(pool) => Fits(pool')
               /\ pool.health # "healthy" => pool'.repl <= pool.repl
<1> DEFINE r == IF pool.repl > 0 THEN pool.repl - 1 ELSE 0
           s == IF thread[k].val THEN 0 ELSE pool.spec
           p == [pool EXCEPT !.repl = r]
           q == [pool EXCEPT !.repl = r, !.workers = @ \cup {k}, !.idle = @ \cup {k}, !.fails = 0,
                             !.health = "healthy", !.spec = s]
<1>1. r \in Nat /\ s \in Nat /\ pool \in PoolType /\ pool.repl \in Nat /\ r <= pool.repl
      /\ (r = pool.repl - 1 \/ (r = 0 /\ pool.repl = 0))
  BY PoolFields
<1> HIDE DEF r, s
<1>2. /\ p \in PoolType /\ p.workers = pool.workers /\ p.idle = pool.idle /\ p.busy = pool.busy
      /\ p.retiring = pool.retiring /\ p.retire = pool.retire /\ p.repl = r
      /\ p.gen = pool.gen /\ p.epoch = pool.epoch /\ p.health = pool.health
      /\ p.closing = pool.closing /\ p.unsafe = pool.unsafe
  BY <1>1 DEF PoolType
<1>3. /\ q \in PoolType /\ q.workers = pool.workers \cup {k} /\ q.idle = pool.idle \cup {k} /\ q.busy = pool.busy
      /\ q.retiring = pool.retiring /\ q.retire = pool.retire /\ q.repl = r
      /\ q.gen = pool.gen /\ q.epoch = pool.epoch /\ q.health = "healthy"
      /\ q.closing = pool.closing /\ q.unsafe = pool.unsafe
  BY <1>1 DEF PoolType, Health
<1>4. IF Cardinality(pool.workers) < PoolSize
      THEN TopUp(q, [thread EXCEPT ![k] = NoThread], Closes(k)) /\ retained' = retained \ {k}
      ELSE TopUp(p, [thread EXCEPT ![k].pc = "discard"], tickets) /\ UNCHANGED retained
  BY <1>1 DEF Register, PoolType, r, s
<1> HIDE DEF p, q
<1>5. Cardinality(pool.workers) \in Nat
  BY <1>1, Sizes DEF PoolType
<1>6. Fits(pool) => Fits(p)
  BY <1>1, <1>2, <1>5, Names DEF Fits
<1>7. Cardinality(pool.workers) < PoolSize /\ Fits(pool) => Fits(q)
  <2>1. Cardinality(q.workers) \in Nat /\ Cardinality(q.workers) <= Cardinality(pool.workers) + 1
    <3>1. IsFiniteSet(pool.workers)
      BY <1>1, Sizes DEF PoolType
    <3>2. /\ IsFiniteSet(pool.workers \cup {k})
          /\ Cardinality(pool.workers \cup {k})
               = IF k \in pool.workers THEN Cardinality(pool.workers) ELSE Cardinality(pool.workers) + 1
      BY <3>1, FS_AddElement
    <3> QED
      BY <1>3, <1>5, <3>2
  <2> QED
    BY <1>1, <1>3, <1>5, <2>1, Names DEF Fits
<1>8. CASE Cardinality(pool.workers) < PoolSize
  <2>1. /\ Cardinality(pool.workers) < PoolSize
        /\ pool'.workers = pool.workers \cup {k} /\ pool'.idle = pool.idle \cup {k} /\ pool'.health = "healthy"
        /\ Grown([thread EXCEPT ![k] = NoThread], tickets \ {<<k, thread[k].gen>>})
        /\ retained' = retained \ {k}
        /\ Fits(pool) => Fits(pool')
    BY <1>3, <1>4, <1>7, <1>8, TopUpGrows DEF Closes
  <2>2. /\ pool'.busy = pool.busy /\ pool'.retiring = pool.retiring /\ pool'.retire = pool.retire
        /\ pool'.gen = pool.gen /\ pool'.epoch = pool.epoch
        /\ pool'.closing = pool.closing /\ pool'.unsafe = pool.unsafe
    BY <1>3, <1>4, <1>8, TopUpGrows
  <2> QED
    BY <2>1, <2>2 DEF Register, Stale
<1>9. CASE ~(Cardinality(pool.workers) < PoolSize)
  <2>1. /\ pool'.workers = pool.workers /\ pool'.idle = pool.idle /\ pool'.health = pool.health
        /\ Grown([thread EXCEPT ![k].pc = "discard"], tickets)
        /\ retained' = retained
        /\ Fits(pool) => Fits(pool')
        /\ pool.health # "healthy" => pool'.repl <= pool.repl
    BY <1>1, <1>2, <1>4, <1>6, <1>9, TopUpGrows
  <2>2. /\ pool'.busy = pool.busy /\ pool'.retiring = pool.retiring /\ pool'.retire = pool.retire
        /\ pool'.gen = pool.gen /\ pool'.epoch = pool.epoch
        /\ pool'.closing = pool.closing /\ pool'.unsafe = pool.unsafe
    BY <1>2, <1>4, <1>9, TopUpGrows
  <2> QED
    BY <2>1, <2>2 DEF Register, Stale
<1> QED
  BY <1>8, <1>9

LEMMA BackoffEffect ==
  ASSUME TypeOK, NEW k \in Kids, BackoffOver(k)
  PROVE  /\ SameLists /\ SameEra /\ pool'.retiring = pool.retiring /\ pool'.retire = pool.retire
         /\ pool.health # "healthy" \/ pool.closing => pool'.repl <= pool.repl
         /\ Fits(pool) => Fits(pool')
         /\ Grown([thread EXCEPT ![k] = NoThread], tickets \ {<<k, thread[k].gen>>})
         /\ UNCHANGED <<proc, retained, call, rlock, stop>>
<1> DEFINE r == IF pool.repl > 0 THEN pool.repl - 1 ELSE 0
           p == [pool EXCEPT !.repl = r]
<1>1. r \in Nat /\ pool \in PoolType /\ pool.repl \in Nat /\ r <= pool.repl
  BY PoolFields
<1>5. Cardinality(pool.workers) \in Nat
  BY <1>1, Sizes DEF PoolType
<1> HIDE DEF r
<1>2. /\ p \in PoolType /\ p.workers = pool.workers /\ p.idle = pool.idle /\ p.busy = pool.busy
      /\ p.retiring = pool.retiring /\ p.retire = pool.retire /\ p.repl = r
      /\ p.gen = pool.gen /\ p.epoch = pool.epoch /\ p.health = pool.health
      /\ p.closing = pool.closing /\ p.unsafe = pool.unsafe
  BY <1>1 DEF PoolType
<1>3. CASE Stale(k)
  <2>1. thread' = [thread EXCEPT ![k] = NoThread] /\ tickets' = tickets \ {<<k, thread[k].gen>>} /\ UNCHANGED pool
    BY <1>3 DEF BackoffOver, Ends, Closes
  <2> QED
    BY <1>1, <2>1 DEF BackoffOver, SameLists, SameEra, Grown, Fits
<1>4. CASE ~Stale(k)
  <2>1. TopUp(p, [thread EXCEPT ![k] = NoThread], tickets \ {<<k, thread[k].gen>>})
    BY <1>1, <1>4 DEF BackoffOver, Closes, PoolType, r
  <2>2. Fits(pool) => Fits(p)
    BY <1>1, <1>2, <1>5, Names DEF Fits
  <2> HIDE DEF p
  <2> QED
    BY <1>1, <1>2, <2>1, <2>2, TopUpGrows DEF BackoffOver, SameLists, SameEra
<1> QED
  BY <1>3, <1>4

-----------------------------------------------------------------------------
(* Retirements stay counted.                                               *)

WeightOf(r) == IF r.pc \in {"reap", "reapRest"} THEN r.num ELSE IF r.pc \in {"retire", "retireRest"} THEN 1 ELSE 0

\* The coroutine c becomes r.
LEMMA RetireStep ==
  ASSUME Typed, NEW c \in Callers, NEW r, Calls(c, r), WeightOf(r) \in Nat,
         pool'.retire = pool.retire - Weight(c) + WeightOf(r)
  PROVE  RetireIsCounted'
<1>1. call' = [call EXCEPT ![c] = r] /\ call \in [Callers -> CallType]
  BY DEF Calls, Typed, TypeOK
<1>2. Weights' = [Weights EXCEPT ![c] = WeightOf(r)]
  BY <1>1 DEF Weights, Weight, WeightOf
<1> QED
  BY <1>2, RetireMoves DEF Typed

\* The coroutine neither takes a retirement up nor puts one down.
LEMMA RetireStays ==
  ASSUME Typed, NEW c \in Callers, NEW r, Calls(c, r), Weight(c) = 0, WeightOf(r) = 0, pool'.retire = pool.retire
  PROVE  RetireIsCounted'
BY RetireStep, PoolFields DEF Typed

LEMMA RetireKept ==
  ASSUME Typed, Next
  PROVE  RetireIsCounted'
<1>p. pool \in PoolType /\ pool.retire \in Nat
  BY PoolFields DEF Typed
<1>u. pool' = Unsafe(pool) => pool'.retire = pool.retire
  BY <1>p DEF Unsafe, Emptied, PoolType
<1>1. ASSUME call' = call, pool'.retire = pool.retire
      PROVE  RetireIsCounted'
  <2>1. Weights' = Weights
    BY <1>1 DEF Weights, Weight
  <2> QED
    BY <1>1, <2>1 DEF Typed, RetireIsCounted, OwedBy
<1>2. ASSUME NEW c \in Callers, Task(c)
      PROVE  RetireIsCounted'
  <2>f. call[c] \in CallType /\ call[c].num \in Nat /\ Weight(c) \in Nat
    BY CallFields, RetireCovers DEF Typed
  <2>1. CASE DetachDead(c)
    <3> DEFINE r == [IdleCall EXCEPT !.pc = "reap", !.gen = pool.gen, !.set = Dead, !.num = Cardinality(Dead)]
    <3>1. Dead \in SUBSET Kids
      BY PoolFields DEF Dead, Typed
    <3>2. Cardinality(Dead) \in Nat
      BY <3>1, Sizes
    <3>3. Calls(c, r) /\ pool'.retire = pool.retire + Cardinality(Dead)
      BY <2>1, <1>p DEF DetachDead, PoolType
    <3>4. Weight(c) = 0 /\ WeightOf(r) = Cardinality(Dead)
      BY <2>1 DEF DetachDead, Searching, Weight, WeightOf, IdleCall
    <3> HIDE DEF r
    <3> QED
      BY <3>2, <3>3, <3>4, <1>p, RetireStep
  <2>2. CASE Dispatch(c)
    <3>1. PICK k \in pool.idle : Calls(c, [IdleCall EXCEPT !.pc = "run", !.kid = k, !.epoch = pool.epoch])
      BY <2>2 DEF Dispatch
    <3>2. Weight(c) = 0 /\ pool'.retire = pool.retire
      BY <2>2, DispatchEffect DEF Dispatch, Searching, Weight, Typed
    <3> QED
      BY <3>1, <3>2, RetireStays DEF WeightOf, IdleCall
  <2>3. ASSUME Detached(c, pool), call[c].pc \in {"reap", "reapRest"}
        PROVE  RetireIsCounted'
    <3>1. Calls(c, IdleCall) /\ pool'.retire = pool.retire - call[c].num /\ Weight(c) = call[c].num
      BY <2>3, <1>p, DetachedEffect DEF Detached, Weight
    <3>2. WeightOf(IdleCall) = 0
      BY DEF WeightOf, IdleCall
    <3>3. pool.retire - call[c].num + 0 = pool.retire - call[c].num
      BY <1>p, <2>f
    <3> QED
      BY <3>1, <3>2, <3>3, RetireStep
  <2>4. CASE ReapDead(c) \/ ReapRest(c)
    BY <2>3, <2>4 DEF ReapDead, ReapRest
  <2>5. CASE ReapDeadUnproven(c)
    <3>1. PICK S : Calls(c, [call[c] EXCEPT !.pc = "reapRest", !.set = S])
      BY <2>5 DEF ReapDeadUnproven
    <3> DEFINE r == [call[c] EXCEPT !.pc = "reapRest", !.set = S]
    <3>2. Weight(c) = call[c].num /\ WeightOf(r) = call[c].num /\ pool'.retire = pool.retire
      BY <2>5, <2>f, <1>u DEF ReapDeadUnproven, Weight, WeightOf, CallType
    <3> HIDE DEF r
    <3>3. Calls(c, r)
      BY <3>1 DEF r
    <3> QED
      BY <3>2, <3>3, <2>f, <1>p, RetireStep
  <2>6. ASSUME NEW out, Leave(c, out), Weight(c) = 0, pool'.retire = pool.retire
        PROVE  RetireIsCounted'
    BY <2>6, RetireStays DEF Leave, WeightOf, IdleCall
  <2>7. ASSUME NEW pc \in CallPcs \ {"reap", "reapRest", "retire", "retireRest"}, NEW v, NEW g,
               Calls(c, [call[c] EXCEPT !.pc = pc, !.val = v, !.gen = g])
               \/ Calls(c, [call[c] EXCEPT !.pc = pc, !.val = v])
               \/ Calls(c, [call[c] EXCEPT !.pc = pc]),
               Weight(c) = 0, pool'.retire = pool.retire
        PROVE  RetireIsCounted'
    <3>1. ASSUME NEW r, Calls(c, r), r.pc = pc
          PROVE  RetireIsCounted'
      BY <2>7, <3>1, RetireStays DEF WeightOf
    <3> QED
      BY <2>7, <2>f, <3>1 DEF CallType
  <2>8. CASE Finish(c)
    BY <2>8, <2>6 DEF Finish, Running, Weight
  <2>9. CASE FinishRetiring(c) \/ ContextFault(c) \/ Abandon(c) \/ Crashed(c)
    BY <2>9, <2>7 DEF FinishRetiring, ContextFault, Abandon, Crashed, Running, Weight, CallPcs
  <2>10. CASE Return(c)
    BY <2>10, ReturnEffect, RetireStays DEF Return, WeightOf, IdleCall, Weight, Typed
  <2>11. CASE BeginValidation(c)
    <3>1. pool'.retire = pool.retire /\ Weight(c) = 0 /\ "restart" \in CallPcs
      BY <2>11, <1>p DEF BeginValidation, Weight, PoolType, CallPcs
    <3> QED
      BY <2>11, <3>1, <2>7 DEF BeginValidation
  <2>12. CASE Escalate(c)
    BY <2>12, <2>7 DEF Escalate, Weight, CallPcs
  <2>13. CASE BeginRestart(c)
    <3>1. PICK f, g : Calls(c, [call[c] EXCEPT !.pc = "retire", !.fill = f, !.num = g])
      BY <2>13 DEF BeginRestart
    <3> DEFINE r == [call[c] EXCEPT !.pc = "retire", !.fill = f, !.num = g]
    <3>2. pool'.retire = pool.retire + 1
      BY <2>13, <1>p DEF BeginRestart, PoolType
    <3>3. Weight(c) = 0 /\ WeightOf(r) = 1
      BY <2>13, <2>f DEF BeginRestart, Weight, WeightOf, CallType
    <3> HIDE DEF r
    <3>4. Calls(c, r)
      BY <3>1 DEF r
    <3> QED
      BY <3>2, <3>3, <3>4, <1>p, RetireStep
  <2>14. ASSUME NEW out, Leave(c, out), call[c].pc \in {"retire", "retireRest"}, pool'.retire = pool.retire - 1
         PROVE  RetireIsCounted'
    <3> DEFINE r == [IdleCall EXCEPT !.pc = "return", !.kid = call[c].kid, !.out = out]
    <3>1. Calls(c, r) /\ Weight(c) = 1 /\ WeightOf(r) = 0
      BY <2>14 DEF Leave, Weight, WeightOf, IdleCall
    <3> HIDE DEF r
    <3>2. pool'.retire = pool.retire - Weight(c) + WeightOf(r)
      BY <2>14, <3>1, <1>p
    <3> QED
      BY <3>1, <3>2, RetireStep
  <2>15. CASE Retire(c)
    BY <2>15, <2>14, RetireEffect DEF Retire, Retired
  <2>16. CASE RetireUnproven(c)
    <3>1. PICK S : Calls(c, [call[c] EXCEPT !.pc = "retireRest", !.set = S])
      BY <2>16 DEF RetireUnproven
    <3> DEFINE r == [call[c] EXCEPT !.pc = "retireRest", !.set = S]
    <3>2. Weight(c) = 1 /\ WeightOf(r) = 1 /\ pool'.retire = pool.retire
      BY <2>16, <2>f, <1>u DEF RetireUnproven, Weight, WeightOf, CallType
    <3> HIDE DEF r
    <3>3. Calls(c, r)
      BY <3>1 DEF r
    <3> QED
      BY <3>2, <3>3, <1>p, RetireStep
  <2>17. CASE RetireRest(c)
    BY <2>17, <2>14, RetiredEffect DEF RetireRest, Retired
  <2>18. CASE RecoverEnter(c)
    <3>1. pool'.retire = pool.retire /\ Weight(c) = 0
      BY <2>18, <1>p DEF RecoverEnter, Weight, PoolType, Emptied
    <3>2. CASE \E out : Leave(c, out)
      BY <3>1, <3>2, <2>6
    <3>3. CASE Calls(c, [call[c] EXCEPT !.pc = "join"])
      BY <3>1, <3>3, <2>7 DEF CallPcs
    <3>4. CASE \E S : Calls(c, [call[c] EXCEPT !.pc = "contain", !.gen = pool.gen + 1, !.set = S])
      <4>1. PICK S : Calls(c, [call[c] EXCEPT !.pc = "contain", !.gen = pool.gen + 1, !.set = S])
        BY <3>4
      <4> QED
        BY <3>1, <4>1, <2>f, RetireStays DEF WeightOf, CallType
    <3> QED
      BY <2>18, <3>2, <3>3, <3>4 DEF RecoverEnter
  <2>19. ASSUME NEW pc \in CallPcs \ {"reap", "reapRest", "retire", "retireRest"}, NEW S, NEW f,
               Calls(c, [call[c] EXCEPT !.pc = pc, !.set = S, !.fresh = f])
               \/ Calls(c, [call[c] EXCEPT !.pc = pc, !.set = S])
               \/ Calls(c, [call[c] EXCEPT !.pc = pc, !.fresh = f]),
               Weight(c) = 0, pool'.retire = pool.retire
        PROVE  RetireIsCounted'
    <3>1. ASSUME NEW r, Calls(c, r), r.pc = pc
          PROVE  RetireIsCounted'
      BY <2>19, <3>1, RetireStays DEF WeightOf
    <3> QED
      BY <2>19, <2>f, <3>1 DEF CallType
  <2>20. CASE Contain(c)
    BY <2>20, <2>19 DEF Contain, Weight, CallPcs
  <2>21. CASE ContainUnproven(c)
    <3>1. pool'.retire = pool.retire
      BY <2>21, <1>p DEF ContainUnproven, PoolType
    <3> QED
      BY <2>21, <3>1, <2>6 DEF ContainUnproven, Weight
  <2>22. ASSUME Recovered(c, pool, tickets), Weight(c) = 0, pool'.retire = pool.retire
         PROVE  RetireIsCounted'
    BY <2>22, <2>6, <2>19 DEF Recovered, CallPcs
  <2>23. CASE Probe(c)
    BY <2>23, <2>19, <2>22 DEF Probe, Weight, CallPcs
  <2>24. CASE DrainTimeout(c)
    BY <2>24, <2>19, <1>u DEF DrainTimeout, Weight, CallPcs
  <2>25. CASE ContainRest(c)
    BY <2>25, <2>6 DEF ContainRest, Weight
  <2>26. CASE Probed(c)
    <3>1. CASE Current(c) /\ pool.health = "suspect"
      BY <2>26, <3>1, <2>6, ProbedEffect DEF Probed, Weight
    <3>2. CASE ~(Current(c) /\ pool.health = "suspect")
      BY <2>26, <3>2, <2>7 DEF Probed, Weight, CallPcs
    <3> QED
      BY <3>1, <3>2
  <2>27. CASE ProbeFails(c)
    <3>1. pool'.retire = pool.retire
      BY <2>27, <1>p DEF ProbeFails, PoolType
    <3> QED
      BY <2>27, <3>1, <2>22 DEF ProbeFails, Weight
  <2>28. CASE ProbeUnproven(c)
    BY <2>28, <2>19, <1>u DEF ProbeUnproven, Weight, CallPcs
  <2>29. CASE DiscardProbe(c)
    BY <2>29, <2>19, <2>22, <1>u DEF DiscardProbe, Weight, CallPcs
  <2>30. CASE Join(c)
    BY <2>30, <2>6 DEF Join, Weight
  <2> QED
    BY <1>2, <2>1, <2>2, <2>4, <2>5, <2>8, <2>9, <2>10, <2>11, <2>12, <2>13, <2>15, <2>16, <2>17, <2>18,
       <2>20, <2>21, <2>23, <2>24, <2>25, <2>26, <2>27, <2>28, <2>29, <2>30 DEF Task
<1>3. ASSUME NEW k \in Kids, Replenish(k) \/ Exits(k)
      PROVE  RetireIsCounted'
  <2>1. call' = call
    BY <1>3 DEF Replenish, Build, BuildTimeout, Built, BuildFails, Register, RegisterStale, Discard, Failed, Clear,
       BackoffOver, Exits
  <2>2. CASE Build(k) \/ BuildTimeout(k) \/ Built(k) \/ BuildFails(k) \/ RegisterStale(k) \/ Exits(k)
    BY <2>1, <2>2, <1>1 DEF Build, BuildTimeout, Built, BuildFails, RegisterStale, Exits
  <2>3. CASE Register(k)
    BY <2>1, <2>3, <1>1, RegisterEffect DEF Typed
  <2>4. CASE BackoffOver(k)
    BY <2>1, <2>4, <1>1, BackoffEffect DEF Typed
  <2>5. CASE Discard(k) \/ Clear(k)
    BY <2>1, <2>5, <1>1, <1>u DEF Discard, Clear
  <2>6. CASE Failed(k)
    BY <2>1, <2>6, <1>1, <1>p DEF Failed, Emptied, PoolType
  <2> QED
    BY <1>3, <2>2, <2>3, <2>4, <2>5, <2>6 DEF Replenish
<1>4. CASE Stop
  <2>1. call' = call
    BY <1>4 DEF Stop, StopBegin, StopReap, StopDrain, StopLate
  <2>2. pool'.retire = pool.retire
    BY <1>4, <1>p DEF Stop, StopBegin, StopReap, StopDrain, StopLate, Emptied, PoolType
  <2> QED
    BY <2>1, <2>2, <1>1
<1> QED
  BY <1>2, <1>3, <1>4 DEF Next

\* Types hold from the first state on.
LEMMA TypedAtFirst ==
  ASSUME Init
  PROVE  Typed
<1>1. PICK W \in SUBSET Kids :
      /\ Cardinality(W) = PoolSize
      /\ proc = [k \in Kids |-> IF k \in W THEN "live" ELSE "none"]
      /\ flag = W
      /\ work = {}
      /\ pool = [workers |-> W, idle |-> W, busy |-> {}, retiring |-> {}, repl |-> 0, retire |-> 0,
                 gen |-> 0, epoch |-> 0, health |-> "healthy", spec |-> 0, fails |-> 0,
                 closing |-> FALSE, unsafe |-> FALSE]
      /\ retained = {}
      /\ tickets = {}
      /\ call = [c \in Callers |-> IdleCall]
      /\ thread = [k \in Kids |-> NoThread]
      /\ rlock = None
      /\ stop = [pc |-> "none", set |-> {}, late |-> {}, bad |-> FALSE, drained |-> FALSE, safe |-> FALSE]
  BY DEF Init
<1>2. pool \in PoolType
  BY <1>1 DEF PoolType, Health
<1>3. call \in [Callers -> CallType]
  BY <1>1, IdleType
<1>4. NoThread \in ThreadType
  BY DEF NoThread, ThreadType, ThreadPcs
<1>5. stop \in StopType
  BY <1>1 DEF StopType
<1>6. TypeOK
  BY <1>1, <1>2, <1>3, <1>4, <1>5 DEF TypeOK
<1>7. HandsFull
  BY <1>1 DEF HandsFull, Holds, Probing, IdleCall
<1>8. RetireIsCounted
  <2>1. \A c \in Callers : Weights[c] = 0
    BY <1>1 DEF Weights, Weight, IdleCall
  <2>2. OwedBy(Weights) = {}
    BY <2>1 DEF OwedBy
  <2> QED
    BY <1>1, <2>2, FS_EmptySet DEF RetireIsCounted
<1> QED
  BY <1>6, <1>7, <1>8 DEF Typed

LEMMA TypedStutter ==
  ASSUME Typed, UNCHANGED vars
  PROVE  Typed'
<1>1. Weights' = Weights
  BY DEF vars, Weights, Weight
<1>2. TypeOK' /\ HandsFull'
  BY DEF vars, Typed, TypeOK, HandsFull, Holds, Probing
<1>3. RetireIsCounted'
  BY <1>1 DEF vars, Typed, RetireIsCounted, OwedBy
<1> QED
  BY <1>2, <1>3 DEF Typed

-----------------------------------------------------------------------------
(* What the other steps do to the pool.                                    *)

NoLists == pool'.workers = {} /\ pool'.idle = {} /\ pool'.busy = {}

SameTime == pool'.gen = pool.gen /\ pool'.epoch = pool.epoch /\ pool'.closing = pool.closing

\* A failed proof: nothing is a member any more, and nothing will be.
Downed ==
    /\ NoLists
    /\ pool'.gen = pool.gen + 1 /\ pool'.epoch = pool.epoch + 1 /\ pool'.health = "quarantined"
    /\ pool'.closing = pool.closing /\ pool'.repl = 0 /\ pool'.retiring = pool.retiring

LEMMA UnsafeEffect ==
  ASSUME TypeOK, pool' = Unsafe(pool)
  PROVE  Downed
BY PoolFields DEF Unsafe, Emptied, PoolType, Downed, NoLists

\* The end of a retirement of dead children.
LEMMA ReapedEffect ==
  ASSUME Typed, NEW c \in Callers, ReapDead(c) \/ ReapRest(c)
  PROVE  /\ SameLists /\ SameEra /\ pool'.retiring = pool.retiring
         /\ Grown(thread, tickets \ {<<c, call[c].gen>>})
         /\ pool.health # "healthy" \/ pool.closing => pool'.repl = pool.repl
         /\ Fits(pool) => Fits(pool')
         /\ call' = [call EXCEPT ![c] = IdleCall]
         /\ \E ok \in SUBSET call[c].set : Reap(call[c].set, ok)
         /\ ReapDead(c) => Reap(call[c].set, call[c].set)
         /\ UNCHANGED <<rlock, stop>>
<1>1. pool \in PoolType /\ call[c].pc \in {"reap", "reapRest"} /\ Detached(c, pool)
  BY PoolFields DEF Typed, ReapDead, ReapRest
<1>2. /\ SameLists /\ SameEra /\ pool'.retiring = pool.retiring
      /\ Grown(thread, tickets \ {<<c, call[c].gen>>})
      /\ pool.health # "healthy" \/ pool.closing => pool'.repl = pool.repl
      /\ Fits(pool) => Fits(pool')
      /\ call' = [call EXCEPT ![c] = IdleCall]
  BY <1>1, DetachedEffect DEF SameLists, SameEra
<1>3. \E ok \in SUBSET call[c].set : Reap(call[c].set, ok)
  BY DEF ReapDead, ReapRest
<1> QED
  BY <1>2, <1>3 DEF ReapDead, ReapRest

LEMMA RetireRestEffect ==
  ASSUME Typed, NEW c \in Callers, RetireRest(c)
  PROVE  /\ SameLists /\ SameEra /\ pool'.retiring = pool.retiring \ {call[c].kid}
         /\ Grown(thread, tickets \ {<<c, call[c].num>>})
         /\ pool.health # "healthy" \/ pool.closing => pool'.repl = pool.repl
         /\ Fits(pool) => Fits(pool')
         /\ call' = [call EXCEPT ![c] = [IdleCall EXCEPT !.pc = "return", !.kid = call[c].kid, !.out = "unsafe"]]
         /\ \E ok \in SUBSET call[c].set : Reap(call[c].set, ok)
         /\ UNCHANGED <<rlock, stop>>
BY RetiredEffect DEF RetireRest

LEMMA DetachEffect ==
  ASSUME Typed, NEW c \in Callers, DetachDead(c)
  PROVE  /\ pool'.workers = pool.workers \ Dead /\ pool'.idle = pool.idle \ Dead /\ pool'.busy = pool.busy
         /\ pool'.repl = pool.repl /\ SameEra /\ pool'.retiring = pool.retiring
         /\ Dead \subseteq Tracked /\ Dead \cap pool.busy = {}
         /\ call' = [call EXCEPT ![c] = [IdleCall EXCEPT !.pc = "reap", !.gen = pool.gen, !.set = Dead,
                                                         !.num = Cardinality(Dead)]]
         /\ tickets' = tickets \cup {<<c, pool.gen>>}
<1>1. pool \in PoolType /\ Dead \subseteq Tracked /\ Dead \cap pool.busy = {}
  BY PoolFields DEF Typed, Dead
<1> HIDE DEF Dead
<1> QED
  BY <1>1 DEF DetachDead, Calls, SameEra, PoolType

LEMMA BeginRestartEffect ==
  ASSUME Typed, NEW c \in Callers, BeginRestart(c)
  PROVE  \E fill \in BOOLEAN :
         /\ pool'.workers = pool.workers \ {call[c].kid} /\ pool'.idle = pool.idle \ {call[c].kid}
         /\ pool'.busy = pool.busy \ {call[c].kid} /\ pool'.retiring = pool.retiring \cup {call[c].kid}
         /\ SameEra
         /\ pool'.repl = IF fill THEN pool.repl + 1 ELSE pool.repl
         /\ fill => IF call[c].val
                    THEN call[c].gen = pool.gen /\ pool.health = "degraded_check"
                    ELSE /\ pool.health = "healthy"
                         /\ Cardinality(pool.workers \ {call[c].kid}) + pool.repl + pool.retire < PoolSize
         /\ call' = [call EXCEPT ![c] = [call[c] EXCEPT !.pc = "retire", !.fill = fill, !.num = pool.gen]]
         /\ retained' = retained \cup {call[c].kid} /\ tickets' = tickets \cup {<<c, pool.gen>>}
<1>f. pool \in PoolType /\ pool.retire \in Nat /\ pool.repl \in Nat
  BY PoolFields DEF Typed
<1> DEFINE k == call[c].kid
           p == [pool EXCEPT !.workers = @ \ {k}, !.idle = @ \ {k}, !.busy = @ \ {k}]
           fits == IF call[c].val
                   THEN call[c].gen = p.gen /\ p.health = "degraded_check"
                   ELSE p.health = "healthy" /\ Cardinality(p.workers) + p.repl + p.retire < PoolSize
<1>1. PICK fill \in BOOLEAN : fill = fits
  <2>1. fits \in BOOLEAN
    BY Zenon
  <2> QED
    BY <2>1
<1>2. /\ p \in PoolType /\ p.workers = pool.workers \ {k} /\ p.idle = pool.idle \ {k} /\ p.busy = pool.busy \ {k}
      /\ p.retiring = pool.retiring /\ p.retire = pool.retire /\ p.repl = pool.repl
      /\ p.gen = pool.gen /\ p.epoch = pool.epoch /\ p.health = pool.health
      /\ p.closing = pool.closing /\ p.unsafe = pool.unsafe
  BY <1>f DEF PoolType
<1>3. /\ pool' = [p EXCEPT !.repl = IF fits THEN @ + 1 ELSE @, !.retire = @ + 1, !.retiring = @ \cup {k}]
      /\ retained' = retained \cup {k}
      /\ tickets' = tickets \cup {<<c, pool.gen>>}
      /\ Calls(c, [call[c] EXCEPT !.pc = "retire", !.fill = fits, !.num = pool.gen])
  BY DEF BeginRestart
<1>4. fill => IF call[c].val
              THEN call[c].gen = pool.gen /\ pool.health = "degraded_check"
              ELSE pool.health = "healthy" /\ Cardinality(pool.workers \ {k}) + pool.repl + pool.retire < PoolSize
  BY <1>1, <1>2
<1> HIDE DEF fits
<1>5. /\ pool' = [p EXCEPT !.repl = IF fill THEN @ + 1 ELSE @, !.retire = @ + 1, !.retiring = @ \cup {k}]
      /\ Calls(c, [call[c] EXCEPT !.pc = "retire", !.fill = fill, !.num = pool.gen])
  BY <1>1, <1>3
<1>6. PICK r \in Nat : r = IF fill THEN pool.repl + 1 ELSE pool.repl
  BY <1>f
<1> HIDE DEF p
<1>7. pool' = [p EXCEPT !.repl = r, !.retire = p.retire + 1, !.retiring = @ \cup {k}]
  BY <1>2, <1>5, <1>6 DEF PoolType
<1>8. /\ pool'.workers = pool.workers \ {k} /\ pool'.idle = pool.idle \ {k}
      /\ pool'.busy = pool.busy \ {k} /\ pool'.retiring = pool.retiring \cup {k}
      /\ SameEra /\ pool'.repl = r
  BY <1>2, <1>7 DEF PoolType, SameEra
<1>9. call' = [call EXCEPT ![c] = [call[c] EXCEPT !.pc = "retire", !.fill = fill, !.num = pool.gen]]
  BY <1>5 DEF Calls
<1> QED
  BY <1>3, <1>4, <1>6, <1>8, <1>9

\* The three ways through the door of the recovery.
LEMMA RecoverEnterEffect ==
  ASSUME Typed, NEW c \in Callers, RecoverEnter(c)
  PROVE  /\ call[c].pc = "recover" /\ rlock = None /\ UNCHANGED <<proc, flag, work, retained, thread, stop>>
         /\ \/ /\ pool.closing /\ rlock' = c /\ UNCHANGED <<pool, tickets>>
               /\ call' = [call EXCEPT ![c] = [call[c] EXCEPT !.pc = "join"]]
            \/ /\ ~pool.closing /\ (pool.health = "quarantined" \/ call[c].epoch # pool.epoch)
               /\ UNCHANGED <<pool, tickets, rlock>>
               /\ \E out \in {"unsafe", "contained"} :
                    call' = [call EXCEPT ![c] = [IdleCall EXCEPT !.pc = "return", !.kid = call[c].kid, !.out = out]]
            \/ /\ ~pool.closing /\ pool.health # "quarantined" /\ call[c].epoch = pool.epoch
               /\ NoLists /\ pool'.gen = pool.gen + 1 /\ pool'.epoch = pool.epoch + 1 /\ pool'.health = "suspect"
               /\ pool'.closing = pool.closing /\ pool'.repl = 1 /\ pool'.retiring = pool.retiring
               /\ tickets' = tickets \cup {<<c, pool.gen + 1>>} /\ rlock' = c
               /\ call' = [call EXCEPT ![c] = [call[c] EXCEPT !.pc = "contain", !.gen = pool.gen + 1,
                                                              !.set = Tracked \cup {call[c].kid}]]
<1>0. call[c].pc = "recover" /\ rlock = None /\ UNCHANGED <<proc, flag, work, retained, thread, stop>>
  BY DEF RecoverEnter
<1>1. CASE pool.closing
  BY <1>0, <1>1 DEF RecoverEnter, Calls
<1>2. CASE ~pool.closing /\ (pool.health = "quarantined" \/ call[c].epoch # pool.epoch)
  <2>1. \E out \in {"unsafe", "contained"} : Leave(c, out)
    BY <1>2 DEF RecoverEnter
  <2>2. UNCHANGED <<pool, tickets, rlock>>
    BY <1>2 DEF RecoverEnter
  <2> QED
    BY <1>0, <1>2, <2>1, <2>2 DEF Leave, Calls
<1>3. CASE ~pool.closing /\ ~(pool.health = "quarantined" \/ call[c].epoch # pool.epoch)
  <2>1. /\ pool' = [Emptied(pool) EXCEPT !.epoch = @ + 1, !.repl = 1, !.health = "suspect"]
        /\ tickets' = tickets \cup {<<c, pool.gen + 1>>}
        /\ rlock' = c
        /\ Calls(c, [call[c] EXCEPT !.pc = "contain", !.gen = pool.gen + 1, !.set = Tracked \cup {call[c].kid}])
    BY <1>3 DEF RecoverEnter
  <2>2. pool \in PoolType
    BY PoolFields DEF Typed
  <2>3. /\ NoLists /\ pool'.gen = pool.gen + 1 /\ pool'.epoch = pool.epoch + 1 /\ pool'.health = "suspect"
        /\ pool'.closing = pool.closing /\ pool'.repl = 1 /\ pool'.retiring = pool.retiring
    BY <2>1, <2>2 DEF Emptied, PoolType, NoLists
  <2> QED
    BY <1>0, <1>3, <2>1, <2>3 DEF Calls
<1> QED
  BY <1>1, <1>2, <1>3

LEMMA RecoveredEffect ==
  ASSUME NEW c \in Callers, Recovered(c, pool, tickets)
  PROVE  /\ tickets' = tickets \ {<<c, call[c].gen>>}
         /\ \/ /\ pool.closing /\ UNCHANGED rlock
               /\ call' = [call EXCEPT ![c] = [call[c] EXCEPT !.pc = "join", !.set = {}, !.fresh = None]]
            \/ /\ rlock' = None
               /\ \E out \in {"unsafe", "contained"} :
                    call' = [call EXCEPT ![c] = [IdleCall EXCEPT !.pc = "return", !.kid = call[c].kid, !.out = out]]
<1>1. CASE pool.closing /\ ~pool.unsafe
  BY <1>1 DEF Recovered, Mine, Calls
<1>2. CASE ~(pool.closing /\ ~pool.unsafe)
  <2>1. \E out \in {"unsafe", "contained"} : Leave(c, out)
    BY <1>2 DEF Recovered
  <2> QED
    BY <1>2, <2>1 DEF Recovered, Mine, Leave, Calls
<1> QED
  BY <1>1, <1>2

LEMMA ContainUnprovenEffect ==
  ASSUME Typed, NEW c \in Callers, ContainUnproven(c)
  PROVE  /\ SameLists /\ SameTime /\ pool'.retiring = pool.retiring
         /\ \/ Current(c) /\ pool'.health = "quarantined" /\ pool'.repl = 0
            \/ ~Current(c) /\ pool'.health = pool.health /\ pool'.repl = pool.repl
         /\ call' = [call EXCEPT ![c] = [IdleCall EXCEPT !.pc = "return", !.kid = call[c].kid, !.out = "unsafe"]]
         /\ tickets' = tickets \ {<<c, call[c].gen>>}
<1>1. pool \in PoolType
  BY PoolFields DEF Typed
<1>2. /\ SameLists /\ SameTime /\ pool'.retiring = pool.retiring
      /\ \/ Current(c) /\ pool'.health = "quarantined" /\ pool'.repl = 0
         \/ ~Current(c) /\ pool'.health = pool.health /\ pool'.repl = pool.repl
  BY <1>1 DEF ContainUnproven, SameLists, SameTime, PoolType
<1> QED
  BY <1>2 DEF ContainUnproven, Leave, Calls, Mine

LEMMA ProbeFailsEffect ==
  ASSUME Typed, NEW c \in Callers, ProbeFails(c)
  PROVE  /\ SameLists /\ SameTime /\ pool'.retiring = pool.retiring
         /\ \/ Current(c) /\ pool.health = "suspect" /\ pool'.health = "quarantined" /\ pool'.repl = 0
            \/ pool'.health = pool.health /\ pool'.repl = pool.repl
         /\ Recovered(c, pool, tickets)
BY PoolFields DEF Typed, ProbeFails, SameLists, SameTime, PoolType

\* A fault is to be validated by a replacement.
LEMMA BeginValidationEffect ==
  ASSUME Typed, NEW c \in Callers, BeginValidation(c)
  PROVE  /\ SameLists /\ pool'.retiring = pool.retiring
         /\ pool'.gen = pool.gen + 1 /\ pool'.epoch = pool.epoch /\ pool'.closing = pool.closing /\ ~pool.closing
         /\ pool.health = "healthy" /\ pool'.health = "degraded_check" /\ pool'.repl = 0
         /\ call[c].pc = "validate" /\ call[c].epoch = pool.epoch
         /\ call' = [call EXCEPT ![c] = [call[c] EXCEPT !.pc = "restart", !.val = TRUE, !.gen = pool.gen + 1]]
         /\ UNCHANGED <<proc, flag, work, retained, tickets, thread, rlock, stop>>
<1>1. pool \in PoolType
  BY PoolFields DEF Typed
<1> QED
  BY <1>1 DEF BeginValidation, Calls, SameLists, PoolType

\* A failed constructor.
LEMMA FailedEffect ==
  ASSUME Typed, NEW k \in Kids, Failed(k)
  PROVE  \/ Ends(k) /\ pool' = pool
         \/ /\ ~Stale(k) /\ NoLists /\ pool'.gen = pool.gen + 1 /\ pool'.epoch = pool.epoch
            /\ pool'.health = "quarantined" /\ pool'.closing = pool.closing /\ pool'.repl = 0
            /\ pool'.retiring = pool.retiring
            /\ thread' = [thread EXCEPT ![k].pc = "clear", ![k].gpu = TRUE, ![k].set = Tracked]
            /\ UNCHANGED tickets
         \/ /\ ~Stale(k) /\ SameLists /\ pool'.gen = pool.gen + 1 /\ pool'.epoch = pool.epoch
            /\ pool'.health = "bootstrap_failed" /\ pool'.closing = pool.closing /\ pool'.repl = 0
            /\ pool'.retiring = pool.retiring
            /\ Ends(k)
         \/ /\ ~Stale(k) /\ SameLists /\ SameEra /\ pool'.repl = pool.repl /\ pool'.retiring = pool.retiring
            /\ Goes(k, "backoff")
<1>1. pool \in PoolType
  BY PoolFields DEF Typed
<1>2. CASE Ends(k) /\ pool' = pool
  BY <1>2
<1>3. CASE /\ ~Stale(k)
           /\ pool' = [Emptied(pool) EXCEPT !.fails = @ + 1, !.health = "quarantined"]
           /\ thread' = [thread EXCEPT ![k].pc = "clear", ![k].gpu = TRUE, ![k].set = Tracked]
           /\ UNCHANGED tickets
  <2>1. /\ NoLists /\ pool'.gen = pool.gen + 1 /\ pool'.epoch = pool.epoch
        /\ pool'.health = "quarantined" /\ pool'.closing = pool.closing /\ pool'.repl = 0
        /\ pool'.retiring = pool.retiring
    BY <1>1, <1>3 DEF Emptied, NoLists, PoolType
  <2> QED
    BY <1>3, <2>1
<1>4. CASE /\ ~Stale(k)
           /\ pool' = [pool EXCEPT !.fails = @ + 1, !.gen = @ + 1, !.repl = 0, !.spec = 0, !.health = "bootstrap_failed"]
           /\ Ends(k)
  BY <1>1, <1>4 DEF SameLists, PoolType
<1>5. CASE ~Stale(k) /\ pool' = [pool EXCEPT !.fails = @ + 1] /\ Goes(k, "backoff")
  BY <1>1, <1>5 DEF SameLists, SameEra, PoolType
<1> QED
  BY <1>2, <1>3, <1>4, <1>5 DEF Failed

\* The shutdown of the pool.
LEMMA StopEffect ==
  ASSUME Typed, Stop
  PROVE  /\ UNCHANGED <<tickets, call, thread, rlock>>
         /\ pool'.retiring = pool.retiring /\ pool'.health = pool.health /\ pool'.epoch = pool.epoch
         /\ \/ /\ StopBegin /\ NoLists /\ pool'.closing /\ pool'.gen = pool.gen + 1 /\ pool'.repl = 0
               /\ stop' = [stop EXCEPT !.pc = "reap", !.set = Tracked]
            \/ /\ StopReap /\ pool' = pool
            \/ /\ StopDrain /\ NoLists /\ SameEra /\ pool'.repl = pool.repl
            \/ /\ StopLate /\ SameLists /\ SameTime /\ pool'.repl = pool.repl
<1>1. pool \in PoolType
  BY PoolFields DEF Typed
<1>2. CASE StopBegin
  BY <1>1, <1>2 DEF StopBegin, Emptied, NoLists, PoolType
<1>3. CASE StopReap
  BY <1>3 DEF StopReap
<1>4. CASE StopDrain
  BY <1>1, <1>4 DEF StopDrain, NoLists, SameEra, PoolType
<1>5. CASE StopLate
  <2>1. \E u : pool' = [pool EXCEPT !.unsafe = u]
    BY <1>5 DEF StopLate
  <2>2. SameLists /\ SameTime /\ pool'.repl = pool.repl /\ pool'.retiring = pool.retiring /\ pool'.health = pool.health
    BY <1>1, <2>1 DEF SameLists, SameTime, PoolType
  <2> QED
    BY <1>5, <2>2 DEF StopLate, SameTime
<1> QED
  BY <1>2, <1>3, <1>4, <1>5 DEF Stop

-----------------------------------------------------------------------------
(* The invariant, and what a step may do to one coroutine.                 *)

PoolInv ==
    /\ Typed /\ Roles /\ NewIsUnknown /\ NewIsStarting /\ Shapes /\ Ticketed
    /\ QuarantineLasts /\ QuarantineIsOld /\ EmptyWhenDown /\ EpochsOK /\ ValidationOK
    /\ FaultsOK /\ RecoveryOK /\ ContainmentOK /\ ProbeIsAlone
    /\ AllHandled /\ ShutdownOK /\ Fits(pool)

\* A step of c is one of c alone.
LEMMA TaskIsOne ==
  ASSUME Typed, NEW c \in Callers, Task(c)
  PROVE  \A d \in Callers \ {c} : call'[d] = call[d]
<1>1. ASSUME \E r : Calls(c, r)
      PROVE  \A d \in Callers \ {c} : call'[d] = call[d]
  BY <1>1 DEF Calls, Typed, TypeOK
<1>2. CASE DetachDead(c) \/ Dispatch(c) \/ ReapDead(c) \/ ReapDeadUnproven(c) \/ ReapRest(c)
  BY <1>1, <1>2 DEF DetachDead, Dispatch, ReapDead, ReapDeadUnproven, ReapRest, Detached
<1>3. CASE Finish(c) \/ FinishRetiring(c) \/ ContextFault(c) \/ Abandon(c) \/ Crashed(c)
  BY <1>1, <1>3 DEF Finish, FinishRetiring, ContextFault, Abandon, Crashed, Leave
<1>4. CASE Return(c) \/ BeginValidation(c) \/ Escalate(c) \/ BeginRestart(c)
  BY <1>1, <1>4 DEF Return, BeginValidation, Escalate, BeginRestart
<1>5. CASE Retire(c) \/ RetireUnproven(c) \/ RetireRest(c)
  BY <1>1, <1>5 DEF Retire, RetireUnproven, RetireRest, Retired, Leave
<1>6. CASE RecoverEnter(c) \/ Contain(c) \/ ContainUnproven(c) \/ DrainTimeout(c) \/ ContainRest(c) \/ Join(c)
  BY <1>1, <1>6 DEF RecoverEnter, Contain, ContainUnproven, DrainTimeout, ContainRest, Join, Leave
<1>7. CASE Probe(c) \/ ProbeFails(c) \/ ProbeUnproven(c) \/ DiscardProbe(c)
  BY <1>1, <1>7 DEF Probe, ProbeFails, ProbeUnproven, DiscardProbe, Recovered, Leave
<1>8. CASE Probed(c)
  BY <1>1, <1>8 DEF Probed, Leave
<1> QED
  BY <1>2, <1>3, <1>4, <1>5, <1>6, <1>7, <1>8 DEF Task

\* What a coroutine keeps as long as it is where it is.
Kept(c) ==
    /\ Holds(c)' => Dispatch(c) \/ (Holds(c) /\ call'[c].kid = call[c].kid)
    /\ Probing(c)' => Probe(c) \/ (Probing(c) /\ call'[c].fresh = call[c].fresh)
    /\ Serving(c)' => Dispatch(c) \/ (Serving(c) /\ call'[c].epoch = call[c].epoch)
    /\ call'[c].epoch \in {0, call[c].epoch} \/ Dispatch(c)
    /\ Recovering(c)' => RecoverEnter(c) \/ (Recovering(c) /\ call'[c].gen = call[c].gen /\ rlock' = rlock)
    /\ call'[c].pc = "join" => rlock' = c
    /\ call'[c].pc = "retire" => BeginRestart(c)
    /\ Validates(c)' => BeginValidation(c)

LEMMA TaskKeeps ==
  ASSUME Typed, Shapes, NEW c \in Callers, Task(c)
  PROVE  Kept(c)
<1>f. call \in [Callers -> CallType] /\ call[c] \in CallType
  BY DEF Typed, TypeOK
<1>s. Recovering(c) \/ call[c].pc = "join" => rlock = c
  BY DEF Shapes
<1>a. ASSUME NEW r, call' = [call EXCEPT ![c] = r], r.pc \in {"idle", "reap"}, r.epoch = 0
      PROVE  Kept(c)
  BY <1>a, <1>f DEF Kept, Holds, Probing, Serving, Recovering, Validates
<1>b. ASSUME Holds(c), NEW out,
             call' = [call EXCEPT ![c] = [IdleCall EXCEPT !.pc = "return", !.kid = call[c].kid, !.out = out]]
      PROVE  Kept(c)
  <2> DEFINE r == [IdleCall EXCEPT !.pc = "return", !.kid = call[c].kid, !.out = out]
  <2>1. r.pc = "return" /\ r.kid = call[c].kid /\ r.epoch = 0
    BY DEF IdleCall
  <2> HIDE DEF r
  <2>2. call'[c] = r
    BY <1>b, <1>f DEF r
  <2> QED
    BY <2>1, <2>2, <1>b DEF Kept, Holds, Probing, Serving, Recovering, Validates
<1>c. ASSUME NEW r, call' = [call EXCEPT ![c] = r], Holds(c), r.kid = call[c].kid, r.epoch = call[c].epoch,
             \/ r.pc = "validate" /\ call[c].pc = "run"
             \/ r.pc = "restart" /\ ~r.val /\ call[c].pc = "run"
             \/ r.pc = "recover" /\ call[c].pc \in {"run", "validate"}
             \/ r.pc = "restart" /\ BeginValidation(c) /\ call[c].pc = "validate"
             \/ r.pc = "retire" /\ BeginRestart(c)
             \/ r.pc = "retireRest"
             \/ r.pc = "join" /\ rlock' = c
             \/ r.pc = "contain" /\ RecoverEnter(c)
      PROVE  Kept(c)
  <2>1. call'[c] = r
    BY <1>c, <1>f
  <2> QED
    BY <1>c, <2>1 DEF Kept, Holds, Probing, Serving, Recovering, Validates
<1>d. ASSUME NEW r, call' = [call EXCEPT ![c] = r], call[c].pc \in {"contain", "drain", "probe", "discard"},
             r.kid = call[c].kid, r.epoch = call[c].epoch, r.gen = call[c].gen, rlock' = rlock,
             \/ r.pc \in {"drain", "containRest"}
             \/ r.pc = "probe" /\ Probe(c)
             \/ r.pc = "discard" /\ call[c].pc = "probe" /\ r.fresh = call[c].fresh
      PROVE  Kept(c)
  <2>1. call'[c] = r
    BY <1>d, <1>f
  <2> QED
    BY <1>d, <2>1 DEF Kept, Holds, Probing, Serving, Recovering, Validates
<1>r. ASSUME Recovering(c), Recovered(c, pool, tickets)
      PROVE  Kept(c)
  <2>1. Holds(c) /\ rlock = c
    BY <1>r, <1>s DEF Recovering, Holds
  <2>2. CASE UNCHANGED rlock /\ call' = [call EXCEPT ![c] = [call[c] EXCEPT !.pc = "join", !.set = {}, !.fresh = None]]
    BY <2>1, <2>2, <1>f, <1>c DEF CallType
  <2> QED
    BY <1>r, <2>1, <2>2, <1>b, RecoveredEffect
<1>h. ASSUME ~(call[c].pc \in {"idle", "reap", "reapRest"})
      PROVE  Holds(c)
  BY <1>h DEF Holds
<1>1. CASE DetachDead(c)
  <2> DEFINE r == [IdleCall EXCEPT !.pc = "reap", !.gen = pool.gen, !.set = Dead, !.num = Cardinality(Dead)]
  <2>1. r.pc = "reap" /\ r.epoch = 0
    BY DEF IdleCall
  <2>2. call' = [call EXCEPT ![c] = r]
    BY <1>1, DetachEffect
  <2> HIDE DEF r
  <2> QED
    BY <2>1, <2>2, <1>a
<1>2. CASE Dispatch(c)
  <2>0. TypeOK
    BY DEF Typed
  <2>1. PICK k \in pool.idle : call' = [call EXCEPT ![c] = [IdleCall EXCEPT !.pc = "run", !.kid = k, !.epoch = pool.epoch]]
    BY <1>2, <2>0, DispatchEffect
  <2>2. call'[c].pc = "run"
    BY <2>1, <1>f DEF IdleCall
  <2> QED
    BY <1>2, <2>2 DEF Kept, Probing, Recovering, Validates
<1>3. CASE ReapDead(c)
  <2>1. call' = [call EXCEPT ![c] = IdleCall]
    BY <1>3, ReapedEffect DEF Typed
  <2>2. IdleCall.pc = "idle" /\ IdleCall.epoch = 0
    BY DEF IdleCall
  <2> QED
    BY <2>1, <2>2, <1>a
<1>4. CASE ReapDeadUnproven(c)
  <2>1. PICK S : call' = [call EXCEPT ![c] = [call[c] EXCEPT !.pc = "reapRest", !.set = S]]
    BY <1>4 DEF ReapDeadUnproven, Calls
  <2>2. call'[c].pc = "reapRest" /\ call'[c].epoch = call[c].epoch
    BY <2>1, <1>f DEF CallType
  <2> QED
    BY <2>2 DEF Kept, Holds, Probing, Serving, Recovering, Validates
<1>5. CASE ReapRest(c)
  <2>1. call' = [call EXCEPT ![c] = IdleCall]
    BY <1>5, ReapedEffect DEF Typed
  <2>2. IdleCall.pc = "idle" /\ IdleCall.epoch = 0
    BY DEF IdleCall
  <2> QED
    BY <2>1, <2>2, <1>a
<1>6. CASE Finish(c)
  BY <1>6, <1>b, <1>h DEF Finish, Running, Leave, Calls
<1>7. CASE FinishRetiring(c)
  BY <1>7, <1>c, <1>h, <1>f DEF FinishRetiring, Running, Calls, CallType
<1>8. CASE ContextFault(c)
  BY <1>8, <1>c, <1>h, <1>f DEF ContextFault, Running, Calls, CallType
<1>9. CASE Abandon(c)
  BY <1>9, <1>c, <1>h, <1>f DEF Abandon, Running, Calls, CallType
<1>10. CASE Crashed(c)
  BY <1>10, <1>c, <1>h, <1>f DEF Crashed, Running, Calls, CallType
<1>11. CASE Return(c)
  <2>1. call' = [call EXCEPT ![c] = IdleCall]
    BY <1>11, ReturnEffect DEF Typed
  <2>2. IdleCall.pc = "idle" /\ IdleCall.epoch = 0
    BY DEF IdleCall
  <2> QED
    BY <2>1, <2>2, <1>a
<1>12. CASE BeginValidation(c)
  BY <1>12, <1>c, <1>h, <1>f, BeginValidationEffect DEF CallType
<1>13. CASE Escalate(c)
  BY <1>13, <1>c, <1>h, <1>f DEF Escalate, Calls, CallType
<1>14. CASE BeginRestart(c)
  <2>1. call[c].pc = "restart" /\ Holds(c)
    BY <1>14, <1>h DEF BeginRestart
  <2>2. \E fill \in BOOLEAN : call' = [call EXCEPT ![c] = [call[c] EXCEPT !.pc = "retire", !.fill = fill, !.num = pool.gen]]
    BY <1>14, BeginRestartEffect
  <2> QED
    BY <1>14, <2>1, <2>2, <1>c, <1>f DEF CallType
<1>15. CASE Retire(c)
  <2>1. call[c].pc = "retire"
    BY <1>15 DEF Retire
  <2> QED
    BY <1>15, <2>1, <1>b, <1>h, RetireEffect
<1>16. CASE RetireUnproven(c)
  BY <1>16, <1>c, <1>h, <1>f DEF RetireUnproven, Calls, CallType
<1>17. CASE RetireRest(c)
  <2>1. call[c].pc = "retireRest"
    BY <1>17 DEF RetireRest
  <2> QED
    BY <1>17, <2>1, <1>b, <1>h, RetireRestEffect
<1>18. CASE RecoverEnter(c)
  <2>1. call[c].pc = "recover" /\ Holds(c)
    BY <1>18, <1>h DEF RecoverEnter
  <2>2. CASE rlock' = c /\ call' = [call EXCEPT ![c] = [call[c] EXCEPT !.pc = "join"]]
    BY <2>1, <2>2, <1>c, <1>f DEF CallType
  <2>3. CASE call' = [call EXCEPT ![c] = [call[c] EXCEPT !.pc = "contain", !.gen = pool.gen + 1,
                                                         !.set = Tracked \cup {call[c].kid}]]
    BY <1>18, <2>1, <2>3, <1>c, <1>f DEF CallType
  <2> QED
    BY <1>18, <2>1, <2>2, <2>3, <1>b, RecoverEnterEffect
<1>19. CASE Contain(c)
  BY <1>19, <1>d, <1>f DEF Contain, Calls, CallType
<1>20. CASE ContainUnproven(c)
  BY <1>20, <1>b, <1>h DEF ContainUnproven, Leave, Calls
<1>21. CASE Probe(c)
  <2>1. call[c].pc = "drain" /\ Recovering(c)
    BY <1>21 DEF Probe, Recovering
  <2>2. CASE \E m : UNCHANGED rlock /\ call' = [call EXCEPT ![c] = [call[c] EXCEPT !.pc = "probe", !.fresh = m]]
    BY <1>21, <2>1, <2>2, <1>d, <1>f DEF CallType
  <2> QED
    BY <1>21, <2>1, <2>2, <1>r DEF Probe, Calls
<1>22. CASE DrainTimeout(c)
  BY <1>22, <1>d, <1>f DEF DrainTimeout, Calls, CallType
<1>23. CASE ContainRest(c)
  BY <1>23, <1>b, <1>h DEF ContainRest, Leave, Calls
<1>24. CASE Probed(c)
  <2>1. call[c].pc = "probe" /\ Recovering(c) /\ Holds(c)
    BY <1>24 DEF Probed, Recovering, Holds
  <2>2. CASE UNCHANGED rlock /\ call' = [call EXCEPT ![c] = [call[c] EXCEPT !.pc = "discard"]]
    BY <2>1, <2>2, <1>d, <1>f DEF CallType
  <2> QED
    BY <1>24, <2>1, <2>2, <1>b DEF Probed, Leave, Calls
<1>25. CASE ProbeFails(c)
  BY <1>25, <1>r DEF ProbeFails, Recovering
<1>26. CASE ProbeUnproven(c)
  BY <1>26, <1>d, <1>f DEF ProbeUnproven, Calls, CallType
<1>27. CASE DiscardProbe(c)
  <2>1. call[c].pc = "discard" /\ Recovering(c)
    BY <1>27 DEF DiscardProbe, Recovering
  <2>2. CASE \E S : UNCHANGED rlock /\ call' = [call EXCEPT ![c] = [call[c] EXCEPT !.pc = "containRest", !.set = S]]
    BY <2>1, <2>2, <1>d, <1>f DEF CallType
  <2> QED
    BY <1>27, <2>1, <2>2, <1>r DEF DiscardProbe, Calls
<1>28. CASE Join(c)
  BY <1>28, <1>b, <1>h DEF Join, Leave, Calls
<1> QED
  BY <1>1, <1>2, <1>3, <1>4, <1>5, <1>6, <1>7, <1>8, <1>9, <1>10, <1>11, <1>12, <1>13, <1>14, <1>15, <1>16, <1>17, <1>18, <1>19, <1>20, <1>21, <1>22, <1>23, <1>24, <1>25, <1>26, <1>27, <1>28 DEF Task

-----------------------------------------------------------------------------
(* What a step may do to the pool's lists, its era, the recovery lock and  *)
(* the threads.                                                            *)

Turned ==
    \/ Downed
    \/ \E k \in Kids :
         /\ Failed(k) /\ ~Stale(k) /\ pool'.gen = pool.gen + 1 /\ pool'.epoch = pool.epoch
         /\ pool'.closing = pool.closing /\ pool'.repl = 0
         /\ (NoLists /\ pool'.health = "quarantined") \/ (SameLists /\ pool'.health = "bootstrap_failed")
    \/ \E c \in Callers : BeginValidation(c)
    \/ \E c \in Callers :
         /\ RecoverEnter(c) /\ rlock = None /\ ~pool.closing /\ pool.health # "quarantined" /\ NoLists
         /\ call[c].epoch = pool.epoch
         /\ pool'.gen = pool.gen + 1 /\ pool'.epoch = pool.epoch + 1 /\ pool'.health = "suspect"
         /\ pool'.closing = pool.closing /\ pool'.repl = 1
         /\ call'[c].pc = "contain" /\ call'[c].gen = pool.gen + 1 /\ call'[c].set = Tracked \cup {call[c].kid}
    \/ \E c \in Callers :
         /\ call[c].pc \in {"contain", "probe"} /\ Current(c) /\ SameTime /\ SameLists
         /\ pool'.health = "quarantined" /\ pool'.repl = 0
    \/ \E k \in Kids :
         /\ Register(k) /\ SameTime /\ ~pool.closing /\ pool.health \in {"degraded_check", "healthy"}
         /\ pool'.health = "healthy"
    \/ \E c \in Callers :
         /\ Probed(c) /\ Current(c) /\ SameTime /\ pool.health = "suspect" /\ pool'.health = "healthy"
         /\ call[c].pc = "probe" /\ call'[c].pc = "return"
    \/ /\ StopBegin /\ NoLists /\ pool'.closing /\ pool'.gen = pool.gen + 1 /\ pool'.epoch = pool.epoch
       /\ pool'.health = pool.health /\ pool'.repl = 0

\* The era of the pool stays, or turns in one of these ways.
EraGoes == (SameTime /\ pool'.health = pool.health) \/ Turned

ListsGo ==
    \/ SameLists \/ (NoLists /\ (Turned \/ StopDrain))
    \/ \E c \in Callers : DetachDead(c) \/ Dispatch(c) \/ Return(c) \/ BeginRestart(c)
    \/ \E c \in Callers : Probed(c) /\ Current(c) /\ pool.health = "suspect"
    \/ \E k \in Kids : Register(k)

\* A thread that the step starts.
Begins(k) ==
    /\ k \in Fresh /\ thread'[k].pc = "begin" /\ thread'[k].set = {}
    /\ <<k, thread'[k].gen>> \in tickets'
    /\ \/ /\ thread'[k].gen = pool'.gen /\ pool'.health = "healthy" /\ ~pool'.closing
       \/ \E c \in Callers :
            /\ Retire(c) /\ call[c].pc = "retire" /\ call[c].fill
            /\ thread'[k].gen = IF call[c].val THEN call[c].gen ELSE call[c].num

ThreadsGo == \A k \in Kids : thread'[k] = thread[k] \/ Replenish(k) \/ Begins(k)

LEMMA GrownBegins ==
  ASSUME NEW th, NEW tk, Grown(th, tk), NEW k \in Kids, thread'[k] # th[k]
  PROVE  Begins(k)
BY DEF Grown, New, Begins, Begun, NoThread

LEMMA SameGoes ==
  ASSUME UNCHANGED pool
  PROVE  EraGoes /\ ListsGo
BY DEF EraGoes, SameTime, ListsGo, SameLists

LEMMA SameThreads ==
  ASSUME UNCHANGED thread
  PROVE  ThreadsGo
BY DEF ThreadsGo

LEMMA TaskGoes ==
  ASSUME Typed, NEW c \in Callers, Task(c)
  PROVE  EraGoes /\ ListsGo /\ ThreadsGo
<1> USE DEF EraGoes, ListsGo
<1>f. call \in [Callers -> CallType] /\ call[c] \in CallType /\ TypeOK
  BY DEF Typed, TypeOK
<1>t. ASSUME NEW tk, Grown(thread, tk)
      PROVE  ThreadsGo
  BY <1>t, GrownBegins DEF ThreadsGo
<1>d. ASSUME Downed
      PROVE  EraGoes /\ ListsGo
  BY <1>d DEF Downed, Turned
<1>s. ASSUME SameEra
      PROVE  EraGoes
  BY <1>s DEF SameEra, SameTime
<1>1. CASE DetachDead(c)
  BY <1>1, <1>s, SameThreads, DetachEffect DEF DetachDead
<1>2. CASE Dispatch(c)
  BY <1>2, <1>f, <1>s, <1>t, DispatchEffect
<1>3. CASE ReapDead(c)
  BY <1>3, <1>s, <1>t, ReapedEffect
<1>4. CASE ReapDeadUnproven(c)
  BY <1>4, <1>f, <1>d, UnsafeEffect, SameThreads DEF ReapDeadUnproven
<1>5. CASE ReapRest(c)
  BY <1>5, <1>s, <1>t, ReapedEffect
<1>6. CASE Finish(c)
  BY <1>6, SameGoes, SameThreads DEF Finish
<1>7. CASE FinishRetiring(c)
  BY <1>7, SameGoes, SameThreads DEF FinishRetiring
<1>8. CASE ContextFault(c)
  BY <1>8, SameGoes, SameThreads DEF ContextFault
<1>9. CASE Abandon(c)
  BY <1>9, SameGoes, SameThreads DEF Abandon
<1>10. CASE Crashed(c)
  BY <1>10, SameGoes, SameThreads DEF Crashed
<1>11. CASE Return(c)
  BY <1>11, <1>f, <1>s, <1>t, ReturnEffect
<1>12. CASE BeginValidation(c)
  BY <1>12, BeginValidationEffect, SameThreads DEF Turned
<1>13. CASE Escalate(c)
  BY <1>13, SameGoes, SameThreads DEF Escalate
<1>14. CASE BeginRestart(c)
  BY <1>14, <1>s, BeginRestartEffect, SameThreads DEF BeginRestart
<1>15. CASE Retire(c)
  <2>1. SameLists /\ SameEra /\ call[c].pc = "retire"
    BY <1>15, RetireEffect DEF Retire
  <2>2. CASE Grown(thread, tickets \ {<<c, call[c].num>>})
    BY <2>1, <2>2, <1>s, <1>t
  <2>3. CASE ~Grown(thread, tickets \ {<<c, call[c].num>>})
    <3>1. PICK m \in Fresh, g \in Nat :
               /\ g = IF call[c].val THEN call[c].gen ELSE call[c].num
               /\ thread' = [thread EXCEPT ![m] = [NoThread EXCEPT !.pc = "begin", !.gen = g, !.val = call[c].val]]
               /\ tickets' = (tickets \cup {<<m, g>>}) \ {<<c, call[c].num>>}
      BY <1>15, <2>3, RetireEffect
    <3>2. call[c].fill
      BY <1>15, <2>3, RetireEffect
    <3>3. m \in Kids /\ m # c /\ thread \in [Kids -> ThreadType]
      BY <1>f, Names DEF Fresh, TypeOK
    <3>4. thread'[m].pc = "begin" /\ thread'[m].set = {} /\ thread'[m].gen = g
      BY <3>1, <3>3 DEF NoThread
    <3>5. Begins(m)
      BY <1>15, <2>1, <3>1, <3>2, <3>3, <3>4 DEF Begins
    <3>6. \A k \in Kids \ {m} : thread'[k] = thread[k]
      BY <3>1, <3>3
    <3> QED
      BY <2>1, <3>5, <3>6, <1>s DEF ThreadsGo
  <2> QED
    BY <2>2, <2>3
<1>16. CASE RetireUnproven(c)
  BY <1>16, <1>f, <1>d, UnsafeEffect, SameThreads DEF RetireUnproven
<1>17. CASE RetireRest(c)
  BY <1>17, <1>s, <1>t, RetireRestEffect
<1>18. CASE RecoverEnter(c)
  <2>1. UNCHANGED thread
    BY <1>18, RecoverEnterEffect
  <2>2. CASE UNCHANGED pool
    BY <2>1, <2>2, SameGoes, SameThreads
  <2>3. CASE ~UNCHANGED pool
    <3>1. /\ rlock = None /\ ~pool.closing /\ pool.health # "quarantined" /\ call[c].epoch = pool.epoch
          /\ NoLists /\ pool'.gen = pool.gen + 1 /\ pool'.epoch = pool.epoch + 1 /\ pool'.health = "suspect"
          /\ pool'.closing = pool.closing /\ pool'.repl = 1
          /\ call' = [call EXCEPT ![c] = [call[c] EXCEPT !.pc = "contain", !.gen = pool.gen + 1,
                                                         !.set = Tracked \cup {call[c].kid}]]
      BY <1>18, <2>3, RecoverEnterEffect
    <3>2. call'[c].pc = "contain" /\ call'[c].gen = pool.gen + 1 /\ call'[c].set = Tracked \cup {call[c].kid}
      BY <3>1, <1>f DEF CallType
    <3> QED
      BY <1>18, <2>1, <3>1, <3>2, SameThreads DEF Turned
  <2> QED
    BY <2>2, <2>3
<1>19. CASE Contain(c)
  BY <1>19, SameGoes, SameThreads DEF Contain
<1>20. CASE ContainUnproven(c)
  <2>1. call[c].pc = "contain" /\ UNCHANGED thread
    BY <1>20 DEF ContainUnproven
  <2> QED
    BY <1>20, <2>1, ContainUnprovenEffect, SameThreads DEF Turned
<1>21. CASE Probe(c)
  BY <1>21, SameGoes, SameThreads DEF Probe
<1>22. CASE DrainTimeout(c)
  BY <1>22, <1>f, <1>d, UnsafeEffect, SameThreads DEF DrainTimeout
<1>23. CASE ContainRest(c)
  BY <1>23, SameGoes, SameThreads DEF ContainRest
<1>24. CASE Probed(c)
  <2>1. CASE Current(c) /\ pool.health = "suspect"
    <3>1. /\ SameTime /\ pool'.health = "healthy" /\ Grown(thread, tickets \ {<<c, call[c].gen>>})
          /\ call' = [call EXCEPT ![c] = [IdleCall EXCEPT !.pc = "return", !.kid = call[c].kid, !.out = "contained"]]
      BY <1>24, <2>1, ProbedEffect DEF SameTime
    <3>2. call[c].pc = "probe" /\ call'[c].pc = "return"
      BY <1>24, <3>1, <1>f DEF Probed, IdleCall
    <3>3. ThreadsGo
      BY <3>1, <1>t
    <3> QED
      BY <1>24, <2>1, <3>1, <3>2, <3>3 DEF Turned
  <2>2. CASE ~(Current(c) /\ pool.health = "suspect")
    BY <1>24, <2>2, SameGoes, SameThreads DEF Probed
  <2> QED
    BY <2>1, <2>2
<1>25. CASE ProbeFails(c)
  <2>1. call[c].pc = "probe" /\ UNCHANGED thread
    BY <1>25 DEF ProbeFails
  <2> QED
    BY <1>25, <2>1, ProbeFailsEffect, SameThreads DEF Turned
<1>26. CASE ProbeUnproven(c)
  BY <1>26, <1>f, <1>d, UnsafeEffect, SameThreads DEF ProbeUnproven
<1>27. CASE DiscardProbe(c)
  BY <1>27, <1>f, <1>d, UnsafeEffect, SameGoes, SameThreads DEF DiscardProbe
<1>28. CASE Join(c)
  BY <1>28, SameGoes, SameThreads DEF Join
<1> QED
  BY <1>1, <1>2, <1>3, <1>4, <1>5, <1>6, <1>7, <1>8, <1>9, <1>10, <1>11, <1>12, <1>13, <1>14, <1>15, <1>16, <1>17, <1>18, <1>19, <1>20, <1>21, <1>22, <1>23, <1>24, <1>25, <1>26, <1>27, <1>28 DEF Task

\* A thread keeps its generation and its ticket, until it ends.
LEMMA ReplenishGoes ==
  ASSUME Typed, NEW k \in Kids, Replenish(k)
  PROVE  /\ EraGoes /\ ListsGo /\ ThreadsGo /\ call' = call /\ rlock' = rlock
         /\ \A j \in Kids \ {k} : thread'[j] = thread[j] \/ Begins(j)
         /\ thread[k].pc # "none" /\ tickets \ {<<k, thread[k].gen>>} \subseteq tickets'
         /\ \/ thread'[k].pc = "none" /\ thread'[k].set = {}
            \/ /\ thread'[k].pc \notin {"none", "begin"}
               /\ thread'[k].gen = thread[k].gen /\ tickets \subseteq tickets'
               /\ thread'[k].pc = "build" => Build(k) /\ ~Stale(k)
               /\ thread'[k].pc = "register" => Built(k)
               /\ thread'[k].pc = "discard" => thread[k].pc = "register"
               /\ thread'[k].pc = "clear" => pool'.health = "quarantined" \/ thread[k].pc = "clear"
               /\ thread'[k].pc = "clear" \/ (thread[k].pc # "clear" /\ thread'[k].set = thread[k].set)
<1> USE DEF EraGoes, ListsGo
<1>f. TypeOK /\ thread \in [Kids -> ThreadType] /\ thread[k] \in ThreadType
  BY DEF Typed, TypeOK
<1>d. ASSUME Downed
      PROVE  EraGoes /\ ListsGo /\ pool'.health = "quarantined"
  BY <1>d DEF Downed, Turned
<1>s. ASSUME SameEra
      PROVE  EraGoes
  BY <1>s DEF SameEra, SameTime
<1>k. ThreadsGo <=> \A j \in Kids \ {k} : thread'[j] = thread[j] \/ Replenish(j) \/ Begins(j)
  BY DEF ThreadsGo
<1>e. ASSUME Ends(k)
      PROVE  /\ tickets \ {<<k, thread[k].gen>>} \subseteq tickets'
             /\ \A j \in Kids \ {k} : thread'[j] = thread[j]
             /\ thread'[k].pc = "none" /\ thread'[k].set = {}
  BY <1>e, <1>f DEF Ends, Closes, NoThread
<1>g. ASSUME NEW pc, Goes(k, pc)
      PROVE  /\ tickets' = tickets
             /\ \A j \in Kids \ {k} : thread'[j] = thread[j]
             /\ thread'[k].pc = pc /\ thread'[k].gen = thread[k].gen /\ thread'[k].set = thread[k].set
  BY <1>g, <1>f DEF Goes, ThreadType
<1>q. ASSUME NEW r, NEW tk, Grown([thread EXCEPT ![k] = r], tk), thread[k].pc # "none"
      PROVE  /\ thread'[k] = r /\ tk \subseteq tickets'
             /\ \A j \in Kids \ {k} : thread'[j] = thread[j] \/ Begins(j)
  <2> DEFINE th == [thread EXCEPT ![k] = r]
  <2>1. th[k] = r /\ \A j \in Kids \ {k} : th[j] = thread[j]
    BY <1>f
  <2>2. Grown(th, tk) /\ ~Begins(k)
    BY <1>q DEF Begins, Fresh
  <2> HIDE DEF th
  <2>3. \A j \in Kids : thread'[j] = th[j] \/ Begins(j)
    BY <2>2, GrownBegins
  <2> QED
    BY <2>1, <2>2, <2>3 DEF Grown
<1>1. CASE Build(k)
  BY <1>1, <1>e, <1>g, <1>k, SameGoes DEF Build
<1>2. CASE BuildTimeout(k)
  <2>1. CASE thread' = [thread EXCEPT ![k].pc = "failed", ![k].gpu = TRUE] /\ UNCHANGED tickets
    <3>1. /\ \A j \in Kids \ {k} : thread'[j] = thread[j]
          /\ thread'[k].pc = "failed" /\ thread'[k].gen = thread[k].gen /\ thread'[k].set = thread[k].set
      BY <2>1, <1>f DEF ThreadType
    <3> QED
      BY <1>2, <2>1, <3>1, <1>k, SameGoes DEF BuildTimeout
  <2> QED
    BY <1>2, <2>1, <1>e, <1>k, SameGoes DEF BuildTimeout
<1>3. CASE Built(k)
  BY <1>3, <1>g, <1>k, SameGoes DEF Built
<1>4. CASE BuildFails(k)
  <2>1. PICK b : thread' = [thread EXCEPT ![k].pc = "failed", ![k].gpu = b]
    BY <1>4 DEF BuildFails
  <2>2. /\ \A j \in Kids \ {k} : thread'[j] = thread[j]
        /\ thread'[k].pc = "failed" /\ thread'[k].gen = thread[k].gen /\ thread'[k].set = thread[k].set
    BY <2>1, <1>f DEF ThreadType
  <2> QED
    BY <1>4, <2>2, <1>k, SameGoes DEF BuildFails
<1>5. CASE Register(k)
  <2>0. /\ thread[k].pc = "register" /\ SameTime /\ ListsGo /\ ~pool.closing /\ UNCHANGED <<call, rlock>>
        /\ pool.health = IF thread[k].val THEN "degraded_check" ELSE "healthy"
        /\ pool'.health = "healthy" \/ pool'.health = pool.health
    BY <1>5, <1>f, RegisterEffect DEF SameTime
  <2>1. EraGoes
    BY <1>5, <2>0 DEF Turned
  <2>2. CASE Grown([thread EXCEPT ![k] = NoThread], tickets \ {<<k, thread[k].gen>>})
    <3>1. /\ thread'[k] = NoThread /\ tickets \ {<<k, thread[k].gen>>} \subseteq tickets'
          /\ \A j \in Kids \ {k} : thread'[j] = thread[j] \/ Begins(j)
      BY <2>0, <2>2, <1>q
    <3> QED
      BY <2>0, <2>1, <3>1, <1>k DEF NoThread
  <2>3. CASE Grown([thread EXCEPT ![k].pc = "discard"], tickets)
    <3>1. [thread EXCEPT ![k].pc = "discard"] = [thread EXCEPT ![k] = [thread[k] EXCEPT !.pc = "discard"]]
      OBVIOUS
    <3>2. /\ thread'[k] = [thread[k] EXCEPT !.pc = "discard"] /\ tickets \subseteq tickets'
          /\ \A j \in Kids \ {k} : thread'[j] = thread[j] \/ Begins(j)
      BY <2>0, <2>3, <3>1, <1>q
    <3>3. thread'[k].pc = "discard" /\ thread'[k].gen = thread[k].gen /\ thread'[k].set = thread[k].set
      BY <3>2, <1>f DEF ThreadType
    <3> QED
      BY <2>0, <2>1, <3>2, <3>3, <1>k
  <2> QED
    BY <1>5, <2>2, <2>3, <1>f, RegisterEffect
<1>6. CASE RegisterStale(k)
  BY <1>6, <1>g, <1>k, SameGoes DEF RegisterStale
<1>7. CASE Discard(k)
  <2>0. thread[k].pc = "discard" /\ UNCHANGED <<call, rlock>>
    BY <1>7 DEF Discard
  <2>1. CASE \E S : /\ pool' = Unsafe(pool)
                   /\ thread' = [thread EXCEPT ![k].pc = "clear", ![k].gpu = FALSE, ![k].set = S]
                   /\ UNCHANGED tickets
    <3>1. /\ \A j \in Kids \ {k} : thread'[j] = thread[j]
          /\ thread'[k].pc = "clear" /\ thread'[k].gen = thread[k].gen
      BY <2>1, <1>f DEF ThreadType
    <3> QED
      BY <2>0, <2>1, <3>1, <1>d, <1>f, <1>k, UnsafeEffect
  <2> QED
    BY <1>7, <2>0, <2>1, <1>e, <1>k, SameGoes DEF Discard
<1>8. CASE Failed(k)
  <2>0. thread[k].pc = "failed" /\ UNCHANGED <<call, rlock>>
    BY <1>8 DEF Failed
  <2>1. CASE /\ ~Stale(k) /\ NoLists /\ pool'.gen = pool.gen + 1 /\ pool'.epoch = pool.epoch
             /\ pool'.health = "quarantined" /\ pool'.closing = pool.closing /\ pool'.repl = 0
             /\ thread' = [thread EXCEPT ![k].pc = "clear", ![k].gpu = TRUE, ![k].set = Tracked]
             /\ UNCHANGED tickets
    <3>1. /\ \A j \in Kids \ {k} : thread'[j] = thread[j]
          /\ thread'[k].pc = "clear" /\ thread'[k].gen = thread[k].gen
      BY <2>1, <1>f DEF ThreadType
    <3> QED
      BY <1>8, <2>0, <2>1, <3>1, <1>k DEF Turned
  <2>2. CASE /\ ~Stale(k) /\ SameLists /\ pool'.gen = pool.gen + 1 /\ pool'.epoch = pool.epoch
             /\ pool'.health = "bootstrap_failed" /\ pool'.closing = pool.closing /\ pool'.repl = 0
             /\ Ends(k)
    BY <1>8, <2>0, <2>2, <1>e, <1>k DEF Turned
  <2>3. CASE SameLists /\ SameEra /\ Goes(k, "backoff")
    BY <2>0, <2>3, <1>s, <1>g, <1>k
  <2>4. CASE Ends(k) /\ pool' = pool
    BY <2>0, <2>4, <1>e, <1>k, SameGoes
  <2> QED
    BY <1>8, <2>1, <2>2, <2>3, <2>4, FailedEffect
<1>9. CASE Clear(k)
  <2>0. thread[k].pc = "clear" /\ UNCHANGED <<call, rlock>>
    BY <1>9 DEF Clear
  <2>1. CASE \E S : /\ pool' = Unsafe(pool)
                   /\ thread' = [thread EXCEPT ![k].gpu = FALSE, ![k].set = S]
                   /\ UNCHANGED tickets
    <3>1. /\ \A j \in Kids \ {k} : thread'[j] = thread[j]
          /\ thread'[k].pc = "clear" /\ thread'[k].gen = thread[k].gen
      BY <2>1, <1>f, <2>0 DEF ThreadType
    <3> QED
      BY <2>0, <2>1, <3>1, <1>d, <1>f, <1>k, UnsafeEffect
  <2> QED
    BY <1>9, <2>0, <2>1, <1>e, <1>k, SameGoes DEF Clear
<1>10. CASE BackoffOver(k)
  <2>0. thread[k].pc = "backoff" /\ UNCHANGED <<call, rlock>>
    BY <1>10 DEF BackoffOver
  <2>1. SameLists /\ SameEra /\ Grown([thread EXCEPT ![k] = NoThread], tickets \ {<<k, thread[k].gen>>})
    BY <1>10, <1>f, BackoffEffect
  <2>2. /\ thread'[k] = NoThread /\ tickets \ {<<k, thread[k].gen>>} \subseteq tickets'
        /\ \A j \in Kids \ {k} : thread'[j] = thread[j] \/ Begins(j)
    BY <2>0, <2>1, <1>q
  <2> QED
    BY <2>0, <2>1, <2>2, <1>k, <1>s DEF NoThread
<1> QED
  BY <1>1, <1>2, <1>3, <1>4, <1>5, <1>6, <1>7, <1>8, <1>9, <1>10 DEF Replenish

LEMMA PoolGoes ==
  ASSUME Typed, Next
  PROVE  EraGoes /\ ListsGo /\ ThreadsGo
<1>1. ASSUME Stop
      PROVE  EraGoes /\ ListsGo /\ ThreadsGo
  BY <1>1, StopEffect, SameThreads DEF EraGoes, ListsGo, Turned, SameTime, SameLists, SameEra
<1>2. ASSUME NEW k \in Kids, Exits(k)
      PROVE  EraGoes /\ ListsGo /\ ThreadsGo
  BY <1>2, SameGoes, SameThreads DEF Exits
<1> QED
  BY <1>1, <1>2, TaskGoes, ReplenishGoes DEF Next

\* Every coroutine stays, or makes its step.
LEMMA CallsGo ==
  ASSUME Typed, Shapes, Next, NEW c \in Callers
  PROVE  (call'[c] = call[c] \/ Task(c)) /\ (call'[c] = call[c] \/ Kept(c))
<1>1. ASSUME NEW d \in Callers, Task(d)
      PROVE  call'[c] = call[c] \/ Task(c)
  BY <1>1, TaskIsOne
<1>2. ASSUME NEW k \in Kids, Replenish(k) \/ Exits(k)
      PROVE  call'[c] = call[c]
  BY <1>2, ReplenishGoes DEF Exits
<1>3. ASSUME Stop
      PROVE  call'[c] = call[c]
  BY <1>3, StopEffect
<1> QED
  BY <1>1, <1>2, <1>3, TaskKeeps DEF Next

LEMMA DispatchTakes ==
  ASSUME Typed, NEW c \in Callers, Dispatch(c)
  PROVE  /\ call[c].pc = "idle" /\ call'[c].pc = "run" /\ call'[c].epoch = pool.epoch
         /\ call'[c].kid \in pool.idle /\ call'[c].kid \notin pool'.idle /\ call'[c].kid \in pool'.busy
         /\ pool'.epoch = pool.epoch /\ pool'.gen = pool.gen
<1>1. TypeOK /\ call \in [Callers -> CallType] /\ call[c].pc = "idle"
  BY DEF Typed, TypeOK, Dispatch, Searching
<1>2. PICK k \in pool.idle :
           /\ pool'.idle = pool.idle \ {k} /\ pool'.busy = pool.busy \cup {k} /\ SameEra
           /\ call' = [call EXCEPT ![c] = [IdleCall EXCEPT !.pc = "run", !.kid = k, !.epoch = pool.epoch]]
  BY <1>1, DispatchEffect
<1>3. call'[c].pc = "run" /\ call'[c].kid = k /\ call'[c].epoch = pool.epoch
  BY <1>1, <1>2 DEF IdleCall
<1> QED
  BY <1>1, <1>2, <1>3 DEF SameEra

\* The generation and the epoch only grow; a shutdown and a quarantine are for good.
LEMMA EraKept ==
  ASSUME Typed, QuarantineIsOld, Next
  PROVE  /\ pool.gen <= pool'.gen /\ pool.epoch <= pool'.epoch
         /\ pool.closing => pool'.closing
         /\ pool.health = "quarantined" => pool'.health = "quarantined"
         /\ pool'.gen = pool.gen => pool'.epoch = pool.epoch
<1>1. pool.gen \in Nat /\ pool.epoch \in Nat
  BY PoolFields DEF Typed
<1>2. ASSUME NEW k \in Kids, Failed(k), ~Stale(k)
      PROVE  pool.health # "quarantined"
  BY <1>1, <1>2 DEF QuarantineIsOld, Failed, Stale
<1>3. CASE SameTime /\ pool'.health = pool.health
  BY <1>1, <1>3 DEF SameTime
<1>4. CASE Turned
  <2>1. CASE Downed
    BY <1>1, <2>1 DEF Downed
  <2>2. CASE \E k \in Kids :
               /\ Failed(k) /\ ~Stale(k) /\ pool'.gen = pool.gen + 1 /\ pool'.epoch = pool.epoch
               /\ pool'.closing = pool.closing
    BY <1>1, <1>2, <2>2
  <2>3. ASSUME NEW c \in Callers, BeginValidation(c)
        PROVE  /\ pool'.gen = pool.gen + 1 /\ pool'.epoch = pool.epoch /\ ~pool.closing /\ pool.health = "healthy"
    BY <2>3, BeginValidationEffect
  <2>4. CASE /\ pool'.gen = pool.gen + 1 /\ pool'.epoch = pool.epoch + 1 /\ pool'.closing = pool.closing
             /\ pool.health # "quarantined"
    BY <1>1, <2>4
  <2>5. CASE SameTime /\ (pool.health # "quarantined" \/ pool'.health = "quarantined")
    BY <1>1, <2>5 DEF SameTime
  <2>6. CASE pool'.closing /\ pool'.gen = pool.gen + 1 /\ pool'.epoch = pool.epoch /\ pool'.health = pool.health
    BY <1>1, <2>6
  <2> QED
    BY <1>1, <1>4, <2>1, <2>2, <2>3, <2>4, <2>5, <2>6 DEF Turned
<1> QED
  BY <1>3, <1>4, PoolGoes DEF EraGoes

-----------------------------------------------------------------------------
(* Roles.                                                                  *)

\* A child that becomes a member: from its thread, or from the recovery.
Joins(k) ==
    \/ k \in Kids /\ thread[k].pc = "register" /\ thread'[k].pc = "none"
    \/ \E c \in Callers : call[c].pc = "probe" /\ call[c].fresh = k /\ call'[c].pc = "return"

LEMMA ListsGrow ==
  ASSUME Typed, Roles, Next
  PROVE  /\ pool'.idle \cup pool'.busy \subseteq pool'.workers
         /\ \A k \in pool'.workers : k \in pool.workers \/ Joins(k)
         /\ \A k \in pool'.idle :
              \/ k \in pool.idle
              \/ Joins(k)
              \/ \E c \in Callers : call[c].pc = "return" /\ call[c].kid = k /\ call'[c].pc = "idle"
<1>f. call \in [Callers -> CallType] /\ thread \in [Kids -> ThreadType] /\ TypeOK
  BY DEF Typed, TypeOK
<1>r. pool.idle \cup pool.busy \subseteq pool.workers
  BY DEF Roles, IdleAreMembers
<1>1. CASE SameLists \/ NoLists
  BY <1>1, <1>r DEF SameLists, NoLists
<1>2. ASSUME NEW c \in Callers, DetachDead(c)
      PROVE  /\ pool'.idle \subseteq pool.idle /\ pool'.workers \subseteq pool.workers
             /\ pool'.idle \cup pool'.busy \subseteq pool'.workers
  BY <1>2, <1>r, DetachEffect
<1>3. ASSUME NEW c \in Callers, Dispatch(c)
      PROVE  /\ pool'.idle \subseteq pool.idle /\ pool'.workers \subseteq pool.workers
             /\ pool'.idle \cup pool'.busy \subseteq pool'.workers
  BY <1>3, <1>r, <1>f, DispatchEffect
<1>4. ASSUME NEW c \in Callers, Return(c)
      PROVE  /\ pool'.idle \subseteq pool.idle \cup {call[c].kid} /\ pool'.workers \subseteq pool.workers
             /\ pool'.idle \cup pool'.busy \subseteq pool'.workers
             /\ call[c].pc = "return" /\ call'[c].pc = "idle"
  <2>1. call[c].pc = "return" /\ IdleCall.pc = "idle"
    BY <1>4 DEF Return, IdleCall
  <2> QED
    BY <1>4, <2>1, <1>r, <1>f, ReturnEffect
<1>5. ASSUME NEW c \in Callers, BeginRestart(c)
      PROVE  /\ pool'.idle \subseteq pool.idle /\ pool'.workers \subseteq pool.workers
             /\ pool'.idle \cup pool'.busy \subseteq pool'.workers
  BY <1>5, <1>r, BeginRestartEffect
<1>6. ASSUME NEW c \in Callers, Probed(c), Current(c), pool.health = "suspect"
      PROVE  /\ pool'.idle \subseteq pool.idle \cup {call[c].fresh}
             /\ pool'.workers \subseteq pool.workers \cup {call[c].fresh}
             /\ pool'.idle \cup pool'.busy \subseteq pool'.workers
             /\ Joins(call[c].fresh)
  <2>1. call' = [call EXCEPT ![c] = [IdleCall EXCEPT !.pc = "return", !.kid = call[c].kid, !.out = "contained"]]
    BY <1>6, ProbedEffect
  <2>2. call[c].pc = "probe" /\ call'[c].pc = "return"
    BY <1>6, <2>1, <1>f DEF Probed, IdleCall
  <2> QED
    BY <1>6, <2>2, <1>r, ProbedEffect DEF Joins
<1>7. ASSUME NEW k \in Kids, Register(k)
      PROVE  /\ pool'.idle \subseteq pool.idle \cup {j \in Kids : Joins(j)}
             /\ pool'.workers \subseteq pool.workers \cup {j \in Kids : Joins(j)}
             /\ pool'.idle \cup pool'.busy \subseteq pool'.workers
  <2>1. thread[k].pc = "register" /\ pool'.busy = pool.busy
    BY <1>7, <1>f, RegisterEffect
  <2>2. CASE pool'.workers = pool.workers /\ pool'.idle = pool.idle
    BY <2>1, <2>2, <1>r
  <2>3. CASE /\ pool'.workers = pool.workers \cup {k} /\ pool'.idle = pool.idle \cup {k}
             /\ Grown([thread EXCEPT ![k] = NoThread], tickets \ {<<k, thread[k].gen>>})
    <3>1. ~New(k) /\ [thread EXCEPT ![k] = NoThread][k] = NoThread
      BY <2>1, <1>f DEF New, Fresh
    <3>2. thread'[k].pc = "none"
      BY <2>3, <3>1 DEF Grown, NoThread
    <3> QED
      BY <2>1, <2>3, <3>2, <1>r DEF Joins
  <2> QED
    BY <1>7, <2>2, <2>3, <1>f, RegisterEffect
<1> QED
  BY <1>1, <1>2, <1>3, <1>4, <1>5, <1>6, <1>7, PoolGoes DEF ListsGo

\* A context that a coroutine opens is a fresh one.
LEMMA ProbeOpens ==
  ASSUME Typed, NEW c \in Callers, Probe(c), Probing(c)'
  PROVE  /\ call[c].pc = "drain" /\ ~Older(call[c].gen) /\ Current(c) /\ pool.health = "suspect"
         /\ call'[c].pc = "probe" /\ call'[c].fresh \in Fresh /\ call'[c].set = call[c].set
         /\ call'[c].kid = call[c].kid /\ call'[c].gen = call[c].gen
         /\ proc' = [proc EXCEPT ![call'[c].fresh] = "starting"]
         /\ UNCHANGED <<flag, work, pool, retained, tickets, thread, rlock, stop>>
<1>1. call \in [Callers -> CallType] /\ call[c] \in CallType /\ call[c].pc = "drain" /\ ~Older(call[c].gen)
      /\ UNCHANGED <<flag, work, pool, retained, thread, stop>>
  BY DEF Typed, TypeOK, Probe
<1>2. ASSUME Recovered(c, pool, tickets)
      PROVE  FALSE
  <2>1. CASE call' = [call EXCEPT ![c] = [call[c] EXCEPT !.pc = "join", !.set = {}, !.fresh = None]]
    BY <1>1, <2>1 DEF CallType, Probing
  <2>2. CASE \E out : call' = [call EXCEPT ![c] = [IdleCall EXCEPT !.pc = "return", !.kid = call[c].kid, !.out = out]]
    BY <1>1, <2>2 DEF IdleCall, Probing
  <2> QED
    BY <1>2, <2>1, <2>2, RecoveredEffect
<1>3. PICK n \in Fresh :
        /\ Current(c) /\ pool.health = "suspect" /\ proc' = [proc EXCEPT ![n] = "starting"]
        /\ call' = [call EXCEPT ![c] = [call[c] EXCEPT !.pc = "probe", !.fresh = n]]
        /\ UNCHANGED <<tickets, rlock>>
  BY <1>2 DEF Probe, Calls
<1>4. /\ call'[c].pc = "probe" /\ call'[c].fresh = n /\ call'[c].set = call[c].set
      /\ call'[c].kid = call[c].kid /\ call'[c].gen = call[c].gen
  BY <1>1, <1>3 DEF CallType
<1> QED
  BY <1>1, <1>3, <1>4

LEMMA HandsGo ==
  ASSUME Typed, Shapes, Next, NEW c \in Callers
  PROVE  /\ Holds(c)' => Dispatch(c) \/ (Holds(c) /\ call'[c].kid = call[c].kid)
         /\ Probing(c)' => Probe(c) \/ (Probing(c) /\ call'[c].fresh = call[c].fresh)
         /\ Serving(c)' => Dispatch(c) \/ (Serving(c) /\ call'[c].epoch = call[c].epoch)
         /\ call'[c].epoch \in {0, call[c].epoch} \/ Dispatch(c)
         /\ Recovering(c)' => RecoverEnter(c) \/ (Recovering(c) /\ call'[c].gen = call[c].gen)
         /\ call'[c].pc = "retire" => BeginRestart(c) \/ call'[c] = call[c]
         /\ Validates(c)' => BeginValidation(c) \/ call'[c] = call[c]
<1>1. CASE call'[c] = call[c]
  BY <1>1 DEF Holds, Probing, Serving, Recovering, Validates
<1>2. CASE Kept(c)
  BY <1>2 DEF Kept
<1> QED
  BY <1>1, <1>2, CallsGo

\* Two recoveries exclude each other.
LEMMA OneRecovers ==
  ASSUME Shapes, NEW c \in Callers, NEW d \in Callers, Recovering(c) \/ call[c].pc = "join",
         Recovering(d) \/ call[d].pc = "join"
  PROVE  c = d
BY DEF Shapes

LEMMA FreshIs ==
  ASSUME NEW k \in Fresh
  PROVE  /\ k \in Kids /\ proc[k] = "none" /\ thread[k].pc = "none" /\ Unknown(k) /\ k \notin pool.workers
         /\ \A c \in Callers : call[c].kid # k /\ call[c].fresh # k
BY DEF Fresh, Local, Tracked, Unknown

LEMMA RolesKept ==
  ASSUME PoolInv, Next
  PROVE  Roles'
<1>i. Typed /\ Roles /\ Shapes
  BY DEF PoolInv
<1>r. /\ pool.idle \cup pool.busy \subseteq pool.workers
      /\ \A c \in Callers : Holds(c) => call[c].kid \notin pool.idle
      /\ \A c, d \in Callers : c # d /\ Holds(c) /\ Holds(d) => call[c].kid # call[d].kid
      /\ \A k \in Kids : thread[k].pc # "none" =>
           k \notin pool.workers /\ \A c \in Callers : Holds(c) => call[c].kid # k
      /\ \A c \in Callers : Probing(c) =>
           /\ call[c].fresh \notin pool.workers
           /\ thread[call[c].fresh].pc = "none"
           /\ \A d \in Callers : Holds(d) => call[d].kid # call[c].fresh
  BY <1>i DEF Roles, IdleAreMembers, HeldOnce, MadeOnce, ProbedOnce
<1>k. /\ \A c \in Callers : Holds(c) => call[c].kid \in Kids
      /\ \A c \in Callers : Probing(c) => call[c].fresh \in Kids
      /\ \A c \in Callers : Probing(c)' => call'[c].fresh \in Kids
  BY <1>i, TypesKept DEF Typed, HandsFull
<1>l. /\ pool'.idle \cup pool'.busy \subseteq pool'.workers
      /\ \A k \in pool'.workers : k \in pool.workers \/ Joins(k)
      /\ \A k \in pool'.idle :
              \/ k \in pool.idle
              \/ Joins(k)
              \/ \E c \in Callers : call[c].pc = "return" /\ call[c].kid = k /\ call'[c].pc = "idle"
  BY <1>i, ListsGrow
<1>h. \A c \in Callers :
         /\ Holds(c)' => Dispatch(c) \/ (Holds(c) /\ call'[c].kid = call[c].kid)
         /\ Probing(c)' => Probe(c) \/ (Probing(c) /\ call'[c].fresh = call[c].fresh)
  BY <1>i, HandsGo
<1>d. \A c \in Callers : Dispatch(c) => call'[c].kid \in pool.idle /\ call'[c].kid \notin pool'.idle /\ call[c].pc = "idle"
  BY <1>i, DispatchTakes
<1>o. \A c, d \in Callers : Dispatch(c) /\ c # d => call'[d] = call[d]
  BY <1>i, TaskIsOne DEF Task
\* What a joining child was.
<1>j. \A k : Joins(k) =>
        /\ \A c \in Callers : Holds(c) => call[c].kid # k
        /\ k \notin pool.workers
        /\ k \in Kids /\ thread'[k].pc = "none"
        /\ \A c \in Callers : Probing(c)' => call'[c].fresh # k
  <2>1. ASSUME NEW k \in Kids, thread[k].pc = "register", thread'[k].pc = "none"
        PROVE  /\ \A c \in Callers : Holds(c) => call[c].kid # k
               /\ k \notin pool.workers
               /\ \A c \in Callers : Probing(c)' => call'[c].fresh # k
    <3>1. ASSUME NEW c \in Callers, Probing(c)'
          PROVE  call'[c].fresh # k
      <4>1. CASE Probe(c)
        BY <1>i, <2>1, <3>1, <4>1, ProbeOpens, FreshIs
      <4>2. CASE Probing(c) /\ call'[c].fresh = call[c].fresh
        BY <2>1, <4>2, <1>r
      <4> QED
        BY <3>1, <4>1, <4>2, <1>h
    <3> QED
      BY <2>1, <3>1, <1>r
  <2>2. ASSUME NEW c \in Callers, call[c].pc = "probe", call'[c].pc = "return", NEW k, k = call[c].fresh
        PROVE  /\ \A d \in Callers : Holds(d) => call[d].kid # k
               /\ k \notin pool.workers
               /\ k \in Kids /\ thread'[k].pc = "none"
               /\ \A d \in Callers : Probing(d)' => call'[d].fresh # k
    <3>1. Probing(c) /\ Recovering(c)
      BY <2>2 DEF Probing, Recovering
    <3>2. k \in Kids /\ thread[k].pc = "none" /\ ~Begins(k)
      BY <2>2, <3>1, <1>r, <1>k, FreshIs DEF Begins
    <3>3. ~Replenish(k)
      BY <1>i, <3>2, ReplenishGoes
    <3>4. thread'[k] = thread[k]
      BY <1>i, <3>2, <3>3, PoolGoes DEF ThreadsGo
    <3>5. ASSUME NEW d \in Callers, Probing(d)'
          PROVE  call'[d].fresh # k
      <4>1. CASE Probe(d)
        BY <1>i, <2>2, <3>5, <4>1, ProbeOpens, FreshIs
      <4>2. CASE Probing(d)
        <5>1. d = c
          BY <1>i, <3>1, <4>2, OneRecovers DEF Probing, Recovering
        <5> QED
          BY <2>2, <3>5, <5>1 DEF Probing
      <4> QED
        BY <3>5, <4>1, <4>2, <1>h
    <3> QED
      BY <2>2, <3>1, <3>2, <3>4, <3>5, <1>r
  <2> QED
    BY <2>1, <2>2 DEF Joins
<1>1. IdleAreMembers'
  BY <1>l DEF IdleAreMembers
<1>2. HeldOnce'
  <2>1. ASSUME NEW c \in Callers, Holds(c)'
        PROVE  call'[c].kid \notin pool'.idle
    <3>1. CASE Dispatch(c)
      BY <3>1, <1>d
    <3>2. CASE Holds(c) /\ call'[c].kid = call[c].kid
      <4>1. ASSUME NEW d \in Callers, call[d].pc = "return", call'[d].pc = "idle", call[d].kid = call[c].kid
            PROVE  FALSE
        <5>1. d # c /\ Holds(d)
          BY <2>1, <4>1 DEF Holds
        <5> QED
          BY <3>2, <4>1, <5>1, <1>r
      <4> QED
        BY <3>2, <4>1, <1>l, <1>j, <1>r
    <3> QED
      BY <2>1, <3>1, <3>2, <1>h
  <2>2. ASSUME NEW c \in Callers, NEW d \in Callers, c # d, Holds(c)', Holds(d)'
        PROVE  call'[c].kid # call'[d].kid
    <3>1. ~(Dispatch(c) /\ Dispatch(d))
      BY <2>2, <1>o, <1>d, DispatchTakes, <1>i
    <3> QED
      BY <2>2, <3>1, <1>h, <1>d, <1>r
  <2> QED
    BY <2>1, <2>2 DEF HeldOnce, Holds
<1>3. MadeOnce'
  <2>1. ASSUME NEW k \in Kids, thread'[k].pc # "none"
        PROVE  k \notin pool'.workers /\ \A c \in Callers : Holds(c)' => call'[c].kid # k
    <3>1. thread[k].pc # "none" \/ k \in Fresh
      BY <1>i, <2>1, PoolGoes, ReplenishGoes DEF ThreadsGo, Begins
    <3>2. k \notin pool.workers /\ \A c \in Callers : Holds(c) => call[c].kid # k
      BY <3>1, <1>r, FreshIs
    <3> QED
      BY <2>1, <3>2, <1>l, <1>j, <1>h, <1>d, <1>r
  <2> QED
    BY <2>1 DEF MadeOnce, Holds
<1>4. ProbedOnce'
  <2>1. ASSUME NEW c \in Callers, Probing(c)'
        PROVE  /\ call'[c].fresh \notin pool'.workers
               /\ thread'[call'[c].fresh].pc = "none"
               /\ \A d \in Callers : Holds(d)' => call'[d].kid # call'[c].fresh
    <3> DEFINE n == call'[c].fresh
    <3>1. CASE Probe(c)
      <4>1. n \in Fresh /\ UNCHANGED <<pool, thread>>
        BY <1>i, <2>1, <3>1, ProbeOpens
      <4>2. \A d \in Callers : Holds(d)' => call'[d].kid # n
        BY <4>1, <1>h, <1>d, <1>r, FreshIs
      <4> QED
        BY <4>1, <4>2, FreshIs
    <3>2. CASE Probing(c) /\ n = call[c].fresh
      <4>1. n \in Kids /\ n \notin pool.workers /\ thread[n].pc = "none" /\ \A d \in Callers : Holds(d) => call[d].kid # n
        BY <3>2, <1>r, <1>k
      <4>2. ~Begins(n)
        BY <3>2, FreshIs DEF Begins
      <4>3. thread'[n] = thread[n]
        BY <1>i, <4>1, <4>2, PoolGoes, ReplenishGoes DEF ThreadsGo
      <4>4. n \notin pool'.workers
        BY <2>1, <4>1, <1>l, <1>j
      <4>5. \A d \in Callers : Holds(d)' => call'[d].kid # n
        BY <4>1, <1>h, <1>d, <1>r
      <4> QED
        BY <4>1, <4>3, <4>4, <4>5
    <3> QED
      BY <2>1, <3>1, <3>2, <1>h
  <2> QED
    BY <2>1 DEF ProbedOnce, Probing, Holds
<1> QED
  BY <1>1, <1>2, <1>3, <1>4 DEF Roles

-----------------------------------------------------------------------------
(* What a coroutine has in its hands.                                      *)

Lasting(h) == \A i \in Callers \cup Kids, g \in Nat : i # h /\ <<i, g>> \in tickets => <<i, g>> \in tickets'

Carries(c) ==
    /\ \A k \in call'[c].set :
         \/ k \in Tracked \cup call[c].set
         \/ Holds(c) /\ k = call[c].kid
         \/ Probing(c) /\ k = call[c].fresh
    /\ call'[c].set # {} => call'[c].pc \in {"reap", "reapRest", "retireRest", "contain", "containRest"}
    /\ rlock' = rlock \/ rlock = None \/ rlock = c
    /\ Recovering(c)' \/ call'[c].pc = "join" => rlock' = c
    /\ Lasting(c)
    /\ call'[c].pc \in {"reap", "reapRest"} \/ Recovering(c)' => HasTicket(c, call[c].gen)'
    /\ call'[c].pc \in {"retire", "retireRest"} => HasTicket(c, call[c].num)'
    /\ call'[c].pc \in {"reapRest", "retireRest", "containRest"} => pool'.health = "quarantined"
    /\ stop' = stop

LEMMA TaskCarries ==
  ASSUME Typed, Shapes, Ticketed, QuarantineIsOld, QuarantineLasts, NEW c \in Callers, Task(c)
  PROVE  Carries(c)
<1>f. call \in [Callers -> CallType] /\ call[c] \in CallType /\ TypeOK /\ pool.gen \in Nat
      /\ call[c].gen \in Nat /\ call[c].num \in Nat
  BY PoolFields, CallFields DEF Typed, TypeOK
<1>e. pool.gen <= pool'.gen /\ pool'.gen \in Nat /\ (pool.health = "quarantined" => pool'.health = "quarantined")
  <2>1. Next
    BY DEF Next
  <2> QED
    BY <2>1, EraKept, TypesKept DEF TypeOK, PoolType
<1>s. /\ call[c].set # {} => call[c].pc \in {"reap", "reapRest", "retireRest", "contain", "containRest"}
      /\ Recovering(c) \/ call[c].pc = "join" => rlock = c
  BY DEF Shapes
<1>t. /\ call[c].pc \in {"reap", "reapRest"} \/ Recovering(c) => <<c, call[c].gen>> \in tickets /\ call[c].gen <= pool'.gen
      /\ call[c].pc \in {"retire", "retireRest"} => <<c, call[c].num>> \in tickets /\ call[c].num <= pool'.gen
  BY <1>e, <1>f DEF Ticketed, HasTicket
<1>q. call[c].pc \in {"reapRest", "retireRest", "containRest"} => pool.health = "quarantined"
  BY DEF QuarantineLasts
<1>l. ASSUME NEW g, tickets \ {<<c, g>>} \subseteq tickets'
      PROVE  Lasting(c)
  BY <1>l DEF Lasting
<1>h. ASSUME ~(call[c].pc \in {"idle", "reap", "reapRest"})
      PROVE  Holds(c)
  BY <1>h DEF Holds
\* A coroutine that ends up with nothing.
<1>a. ASSUME NEW r, call' = [call EXCEPT ![c] = r], r.set = {}, r.pc \in {"idle", "return"},
             rlock' = rlock \/ rlock = c, NEW g, tickets \ {<<c, g>>} \subseteq tickets', stop' = stop
      PROVE  Carries(c)
  <2>1. call'[c] = r
    BY <1>a, <1>f
  <2>2. Lasting(c)
    BY <1>a, <1>l
  <2> QED
    BY <1>a, <2>1, <2>2 DEF Carries, Recovering
<1>b. ASSUME NEW out, NEW g, tickets \ {<<c, g>>} \subseteq tickets', stop' = stop, rlock' = rlock \/ rlock = c,
             call' = [call EXCEPT ![c] = [IdleCall EXCEPT !.pc = "return", !.kid = call[c].kid, !.out = out]]
      PROVE  Carries(c)
  <2> DEFINE r == [IdleCall EXCEPT !.pc = "return", !.kid = call[c].kid, !.out = out]
  <2>1. r.set = {} /\ r.pc = "return"
    BY DEF IdleCall
  <2> HIDE DEF r
  <2>2. call' = [call EXCEPT ![c] = r]
    BY <1>b DEF r
  <2> QED
    BY <1>b, <2>1, <2>2, <1>a
<1>i. ASSUME NEW g, tickets \ {<<c, g>>} \subseteq tickets', stop' = stop, rlock' = rlock, call' = [call EXCEPT ![c] = IdleCall]
      PROVE  Carries(c)
  <2>1. IdleCall.set = {} /\ IdleCall.pc = "idle"
    BY DEF IdleCall
  <2> QED
    BY <1>i, <2>1, <1>a
\* A coroutine on its way, with nothing to shut down.
<1>c. ASSUME NEW r, call' = [call EXCEPT ![c] = r], r.set = {},
             \/ r.pc \in {"run", "validate", "restart", "recover"}
             \/ r.pc = "join" /\ rlock' = c
             \/ r.pc = "retire" /\ <<c, r.num>> \in tickets' /\ r.num <= pool'.gen
             \/ r.pc \in {"drain", "probe", "discard"} /\ r.gen = call[c].gen /\ rlock' = c
                /\ Recovering(c) /\ tickets' = tickets,
             rlock' = rlock \/ rlock = None, tickets \subseteq tickets', stop' = stop
      PROVE  Carries(c)
  <2>1. call'[c] = r
    BY <1>c, <1>f
  <2>2. Lasting(c)
    BY <1>c DEF Lasting
  <2>3. CASE r.pc \in {"run", "validate", "restart", "recover"}
    BY <1>c, <2>1, <2>2, <2>3 DEF Carries, Recovering
  <2>4. CASE r.pc = "join" /\ rlock' = c
    BY <1>c, <2>1, <2>2, <2>4 DEF Carries, Recovering
  <2>5. CASE r.pc = "retire" /\ <<c, r.num>> \in tickets' /\ r.num <= pool'.gen
    BY <1>c, <2>1, <2>2, <2>5 DEF Carries, Recovering, HasTicket
  <2>6. CASE r.pc \in {"drain", "probe", "discard"} /\ r.gen = call[c].gen /\ rlock' = c
             /\ Recovering(c) /\ tickets' = tickets
    BY <1>c, <1>t, <2>1, <2>2, <2>6 DEF Carries, HasTicket
  <2> QED
    BY <1>c, <2>3, <2>4, <2>5, <2>6
\* A coroutine with children to shut down after a failed proof.
<1>d. ASSUME NEW S, NEW pc, call' = [call EXCEPT ![c] = [call[c] EXCEPT !.pc = pc, !.set = S]],
             \/ pc = "reapRest" /\ call[c].pc = "reap"
             \/ pc = "retireRest" /\ call[c].pc = "retire"
             \/ pc = "containRest" /\ Recovering(c),
             \A k \in S : \/ k \in Tracked \cup call[c].set
                          \/ Holds(c) /\ k = call[c].kid
                          \/ Probing(c) /\ k = call[c].fresh,
             pool' = Unsafe(pool), UNCHANGED <<tickets, rlock, stop>>
      PROVE  Carries(c)
  <2>1. /\ call'[c].pc = pc /\ call'[c].set = S /\ call'[c].gen = call[c].gen /\ call'[c].num = call[c].num
    BY <1>d, <1>f DEF CallType
  <2>2. pool'.health = "quarantined"
    BY <1>d, <1>f, UnsafeEffect DEF Downed
  <2>3. Lasting(c)
    BY <1>d DEF Lasting
  <2>4. CASE pc = "reapRest" /\ call[c].pc = "reap"
    BY <1>d, <1>t, <2>1, <2>2, <2>3, <2>4 DEF Carries, Recovering, HasTicket
  <2>5. CASE pc = "retireRest" /\ call[c].pc = "retire"
    BY <1>d, <1>t, <2>1, <2>2, <2>3, <2>5 DEF Carries, Recovering, HasTicket
  <2>6. CASE pc = "containRest" /\ Recovering(c)
    BY <1>d, <1>t, <1>s, <2>1, <2>2, <2>3, <2>6 DEF Carries, HasTicket
  <2> QED
    BY <1>d, <2>4, <2>5, <2>6
<1>r. ASSUME Recovering(c), Recovered(c, pool, tickets), stop' = stop
      PROVE  Carries(c)
  <2>1. rlock = c /\ tickets' = tickets \ {<<c, call[c].gen>>}
    BY <1>r, <1>s, RecoveredEffect
  <2>2. CASE UNCHANGED rlock /\ call' = [call EXCEPT ![c] = [call[c] EXCEPT !.pc = "join", !.set = {}, !.fresh = None]]
    <3>1. call'[c].pc = "join" /\ call'[c].set = {}
      BY <2>2, <1>f DEF CallType
    <3>2. Lasting(c)
      BY <2>1, <1>l
    <3> QED
      BY <2>1, <2>2, <3>1, <3>2, <1>r DEF Carries, Recovering
  <2> QED
    BY <1>r, <2>1, <2>2, <1>b, RecoveredEffect
<1>1. CASE DetachDead(c)
  <2> DEFINE r == [IdleCall EXCEPT !.pc = "reap", !.gen = pool.gen, !.set = Dead, !.num = Cardinality(Dead)]
  <2>1. r.pc = "reap" /\ r.gen = pool.gen /\ r.set = Dead
    BY DEF IdleCall
  <2>2. call' = [call EXCEPT ![c] = r] /\ tickets' = tickets \cup {<<c, pool.gen>>} /\ Dead \subseteq Tracked
        /\ pool'.gen = pool.gen /\ rlock' = rlock /\ stop' = stop
    BY <1>1, DetachEffect DEF DetachDead, SameEra
  <2> HIDE DEF r
  <2>3. call'[c] = r /\ Lasting(c)
    BY <2>2, <1>f, <1>l
  <2> QED
    BY <2>1, <2>2, <2>3, <1>e DEF Carries, Recovering, HasTicket
<1>2. CASE Dispatch(c)
  <2>1. PICK k \in pool.idle : call' = [call EXCEPT ![c] = [IdleCall EXCEPT !.pc = "run", !.kid = k, !.epoch = pool.epoch]]
                                 /\ Grown(thread, tickets)
    BY <1>2, <1>f, DispatchEffect
  <2> DEFINE r == [IdleCall EXCEPT !.pc = "run", !.kid = k, !.epoch = pool.epoch]
  <2>2. r.pc = "run" /\ r.set = {}
    BY DEF IdleCall
  <2> HIDE DEF r
  <2>3. call' = [call EXCEPT ![c] = r] /\ tickets \subseteq tickets' /\ rlock' = rlock /\ stop' = stop
    BY <1>2, <2>1 DEF Grown, Dispatch, r
  <2> QED
    BY <2>2, <2>3, <1>c
<1>3. CASE ReapDead(c)
  <2>1. /\ tickets \ {<<c, call[c].gen>>} \subseteq tickets' /\ stop' = stop /\ rlock' = rlock
        /\ call' = [call EXCEPT ![c] = IdleCall]
    BY <1>3, ReapedEffect DEF Grown
  <2> QED
    BY <2>1, <1>i
<1>4. CASE ReapDeadUnproven(c)
  <2>1. PICK ok \in SUBSET call[c].set :
             call' = [call EXCEPT ![c] = [call[c] EXCEPT !.pc = "reapRest", !.set = (Tracked \cup call[c].set) \ ok]]
    BY <1>4, <1>f DEF ReapDeadUnproven, Calls, CallType
  <2>2. call[c].pc = "reap" /\ pool' = Unsafe(pool) /\ UNCHANGED <<tickets, rlock, stop>>
    BY <1>4 DEF ReapDeadUnproven
  <2> DEFINE S == (Tracked \cup call[c].set) \ ok
  <2>3. call' = [call EXCEPT ![c] = [call[c] EXCEPT !.pc = "reapRest", !.set = S]] /\ S \subseteq Tracked \cup call[c].set
    BY <2>1
  <2> HIDE DEF S
  <2> QED
    BY <2>2, <2>3, <1>d
<1>5. CASE ReapRest(c)
  <2>1. /\ tickets \ {<<c, call[c].gen>>} \subseteq tickets' /\ stop' = stop /\ rlock' = rlock
        /\ call' = [call EXCEPT ![c] = IdleCall]
    BY <1>5, ReapedEffect DEF Grown
  <2> QED
    BY <2>1, <1>i
<1>6. CASE Finish(c)
  <2>1. tickets \ {<<c, 0>>} \subseteq tickets' /\ stop' = stop /\ rlock' = rlock
    BY <1>6 DEF Finish
  <2> QED
    BY <1>6, <2>1, <1>b DEF Finish, Leave, Calls
<1>7. CASE FinishRetiring(c)
  <2> DEFINE r == [call[c] EXCEPT !.pc = "restart", !.val = FALSE]
  <2>1. call[c].pc = "run" /\ call' = [call EXCEPT ![c] = r] /\ UNCHANGED <<tickets, rlock, stop>>
    BY <1>7, <1>f DEF FinishRetiring, Running, Calls
  <2>2. r.pc \in {"validate", "restart", "recover"} /\ r.set = {}
    BY <2>1, <1>f, <1>s DEF CallType
  <2> HIDE DEF r
  <2> QED
    BY <2>1, <2>2, <1>c
<1>8. CASE ContextFault(c)
  <2> DEFINE r == [call[c] EXCEPT !.pc = "validate"]
  <2>1. call[c].pc = "run" /\ call' = [call EXCEPT ![c] = r] /\ UNCHANGED <<tickets, rlock, stop>>
    BY <1>8, <1>f DEF ContextFault, Running, Calls
  <2>2. r.pc \in {"validate", "restart", "recover"} /\ r.set = {}
    BY <2>1, <1>f, <1>s DEF CallType
  <2> HIDE DEF r
  <2> QED
    BY <2>1, <2>2, <1>c
<1>9. CASE Abandon(c)
  <2> DEFINE r == [call[c] EXCEPT !.pc = "recover"]
  <2>1. call[c].pc = "run" /\ call' = [call EXCEPT ![c] = r] /\ UNCHANGED <<tickets, rlock, stop>>
    BY <1>9, <1>f DEF Abandon, Running, Calls
  <2>2. r.pc \in {"validate", "restart", "recover"} /\ r.set = {}
    BY <2>1, <1>f, <1>s DEF CallType
  <2> HIDE DEF r
  <2> QED
    BY <2>1, <2>2, <1>c
<1>10. CASE Crashed(c)
  <2> DEFINE r == [call[c] EXCEPT !.pc = "recover"]
  <2>1. call[c].pc = "run" /\ call' = [call EXCEPT ![c] = r] /\ UNCHANGED <<tickets, rlock, stop>>
    BY <1>10, <1>f DEF Crashed, Running, Calls
  <2>2. r.pc \in {"validate", "restart", "recover"} /\ r.set = {}
    BY <2>1, <1>f, <1>s DEF CallType
  <2> HIDE DEF r
  <2> QED
    BY <2>1, <2>2, <1>c
<1>11. CASE Return(c)
  <2>1. tickets \ {<<c, 0>>} \subseteq tickets' /\ stop' = stop /\ rlock' = rlock /\ call' = [call EXCEPT ![c] = IdleCall]
    BY <1>11, <1>f, ReturnEffect DEF Grown
  <2> QED
    BY <2>1, <1>i
<1>12. CASE BeginValidation(c)
  <2> DEFINE r == [call[c] EXCEPT !.pc = "restart", !.val = TRUE, !.gen = pool.gen + 1]
  <2>1. call[c].pc = "validate" /\ call' = [call EXCEPT ![c] = r] /\ UNCHANGED <<tickets, rlock, stop>>
    BY <1>12, <1>f, BeginValidationEffect
  <2>2. r.pc \in {"validate", "restart", "recover"} /\ r.set = {}
    BY <2>1, <1>f, <1>s DEF CallType
  <2> HIDE DEF r
  <2> QED
    BY <2>1, <2>2, <1>c
<1>13. CASE Escalate(c)
  <2> DEFINE r == [call[c] EXCEPT !.pc = "recover"]
  <2>1. call[c].pc = "validate" /\ call' = [call EXCEPT ![c] = r] /\ UNCHANGED <<tickets, rlock, stop>>
    BY <1>13, <1>f DEF Escalate, Running, Calls
  <2>2. r.pc \in {"validate", "restart", "recover"} /\ r.set = {}
    BY <2>1, <1>f, <1>s DEF CallType
  <2> HIDE DEF r
  <2> QED
    BY <2>1, <2>2, <1>c
<1>14. CASE BeginRestart(c)
  <2>1. call[c].pc = "restart" /\ UNCHANGED <<rlock, stop>>
    BY <1>14 DEF BeginRestart
  <2>2. PICK fill \in BOOLEAN :
           /\ call' = [call EXCEPT ![c] = [call[c] EXCEPT !.pc = "retire", !.fill = fill, !.num = pool.gen]]
           /\ tickets' = tickets \cup {<<c, pool.gen>>}
    BY <1>14, BeginRestartEffect
  <2> DEFINE r == [call[c] EXCEPT !.pc = "retire", !.fill = fill, !.num = pool.gen]
  <2>3. r.pc = "retire" /\ r.num = pool.gen /\ r.set = {}
    BY <2>1, <1>f, <1>s DEF CallType
  <2> HIDE DEF r
  <2>4. call' = [call EXCEPT ![c] = r] /\ <<c, r.num>> \in tickets' /\ r.num <= pool'.gen
    BY <2>2, <2>3, <1>e DEF r
  <2> QED
    BY <2>1, <2>2, <2>3, <2>4, <1>c
<1>15. CASE Retire(c)
  <2>1. /\ UNCHANGED <<rlock, stop>>
        /\ call' = [call EXCEPT ![c] = [IdleCall EXCEPT !.pc = "return", !.kid = call[c].kid, !.out = "contained"]]
        /\ tickets \ {<<c, call[c].num>>} \subseteq tickets'
    BY <1>15, RetireEffect DEF Grown
  <2> QED
    BY <2>1, <1>b
<1>16. CASE RetireUnproven(c)
  <2>1. call[c].pc = "retire" /\ Holds(c) /\ pool' = Unsafe(pool) /\ UNCHANGED <<tickets, rlock, stop>>
    BY <1>16, <1>h DEF RetireUnproven
  <2>2. call' = [call EXCEPT ![c] = [call[c] EXCEPT !.pc = "retireRest", !.set = Tracked \cup {call[c].kid}]]
    BY <1>16 DEF RetireUnproven, Calls
  <2> QED
    BY <2>1, <2>2, <1>d
<1>17. CASE RetireRest(c)
  <2>1. /\ UNCHANGED <<rlock, stop>>
        /\ call' = [call EXCEPT ![c] = [IdleCall EXCEPT !.pc = "return", !.kid = call[c].kid, !.out = "unsafe"]]
        /\ tickets \ {<<c, call[c].num>>} \subseteq tickets'
    BY <1>17, RetireRestEffect DEF Grown
  <2> QED
    BY <2>1, <1>b
<1>18. CASE RecoverEnter(c)
  <2>1. call[c].pc = "recover" /\ rlock = None /\ stop' = stop /\ call[c].set = {} /\ Holds(c)
    BY <1>18, <1>s, <1>h, RecoverEnterEffect
  <2>2. CASE rlock' = c /\ UNCHANGED tickets /\ call' = [call EXCEPT ![c] = [call[c] EXCEPT !.pc = "join"]]
    <3> DEFINE r == [call[c] EXCEPT !.pc = "join"]
    <3>1. r.pc = "join" /\ r.set = {} /\ call' = [call EXCEPT ![c] = r]
      BY <2>1, <2>2, <1>f DEF CallType
    <3> HIDE DEF r
    <3> QED
      BY <2>1, <2>2, <3>1, <1>c
  <2>3. CASE UNCHANGED <<tickets, rlock>>
             /\ \E out : call' = [call EXCEPT ![c] = [IdleCall EXCEPT !.pc = "return", !.kid = call[c].kid, !.out = out]]
    <3>1. tickets \ {<<c, 0>>} \subseteq tickets'
      BY <2>3
    <3> QED
      BY <2>1, <2>3, <3>1, <1>b
  <2>4. CASE /\ pool'.gen = pool.gen + 1 /\ tickets' = tickets \cup {<<c, pool.gen + 1>>} /\ rlock' = c
             /\ call' = [call EXCEPT ![c] = [call[c] EXCEPT !.pc = "contain", !.gen = pool.gen + 1,
                                                            !.set = Tracked \cup {call[c].kid}]]
    <3>1. call'[c].pc = "contain" /\ call'[c].gen = pool.gen + 1 /\ call'[c].set = Tracked \cup {call[c].kid}
      BY <2>4, <1>f DEF CallType
    <3>2. Lasting(c)
      BY <2>4, <1>l
    <3> QED
      BY <2>1, <2>4, <3>1, <3>2, <1>e DEF Carries, HasTicket
  <2> QED
    BY <1>18, <2>2, <2>3, <2>4, RecoverEnterEffect
<1>19. CASE Contain(c)
  <2>1. call[c].pc = "contain" /\ Recovering(c) /\ UNCHANGED <<tickets, rlock, stop>>
    BY <1>19 DEF Contain, Recovering
  <2> DEFINE r == [call[c] EXCEPT !.pc = "drain", !.set = {}]
  <2>2. call' = [call EXCEPT ![c] = r] /\ r.pc = "drain" /\ r.set = {} /\ r.gen = call[c].gen
    BY <1>19, <1>f DEF Contain, Calls, CallType
  <2> HIDE DEF r
  <2> QED
    BY <2>1, <2>2, <1>c, <1>s
<1>20. CASE ContainUnproven(c)
  <2>1. rlock = c /\ stop' = stop /\ tickets \ {<<c, call[c].gen>>} \subseteq tickets'
    BY <1>20, <1>s DEF ContainUnproven, Recovering, Mine
  <2> QED
    BY <1>20, <2>1, <1>b DEF ContainUnproven, Leave, Calls
<1>21. CASE Probe(c)
  <2>1. call[c].pc = "drain" /\ Recovering(c) /\ stop' = stop
    BY <1>21 DEF Probe, Recovering
  <2>2. CASE \E m : UNCHANGED <<tickets, rlock>> /\ call' = [call EXCEPT ![c] = [call[c] EXCEPT !.pc = "probe", !.fresh = m]]
    <3>1. PICK m : call' = [call EXCEPT ![c] = [call[c] EXCEPT !.pc = "probe", !.fresh = m]]
      BY <2>2
    <3> DEFINE r == [call[c] EXCEPT !.pc = "probe", !.fresh = m]
    <3>2. r.pc = "probe" /\ r.set = {} /\ r.gen = call[c].gen /\ call' = [call EXCEPT ![c] = r]
      BY <2>1, <3>1, <1>f, <1>s DEF CallType
    <3> HIDE DEF r
    <3> QED
      BY <2>1, <2>2, <3>2, <1>c, <1>s
  <2> QED
    BY <1>21, <2>1, <2>2, <1>r DEF Probe, Calls
<1>22. CASE DrainTimeout(c)
  <2>1. call[c].pc = "drain" /\ Recovering(c) /\ pool' = Unsafe(pool) /\ UNCHANGED <<tickets, rlock, stop>>
    BY <1>22 DEF DrainTimeout, Recovering
  <2>2. call' = [call EXCEPT ![c] = [call[c] EXCEPT !.pc = "containRest", !.set = Tracked]]
    BY <1>22 DEF DrainTimeout, Calls
  <2> QED
    BY <2>1, <2>2, <1>d
<1>23. CASE ContainRest(c)
  <2>1. rlock = c /\ stop' = stop /\ tickets \ {<<c, call[c].gen>>} \subseteq tickets'
    BY <1>23, <1>s DEF ContainRest, Recovering, Mine
  <2> QED
    BY <1>23, <2>1, <1>b DEF ContainRest, Leave, Calls
<1>24. CASE Probed(c)
  <2>1. call[c].pc = "probe" /\ Recovering(c) /\ stop' = stop /\ rlock = c
    BY <1>24, <1>s DEF Probed, Recovering
  <2>2. CASE Current(c) /\ pool.health = "suspect"
    <3>1. /\ call' = [call EXCEPT ![c] = [IdleCall EXCEPT !.pc = "return", !.kid = call[c].kid, !.out = "contained"]]
          /\ tickets \ {<<c, call[c].gen>>} \subseteq tickets'
      BY <1>24, <2>2, ProbedEffect DEF Grown
    <3> QED
      BY <2>1, <3>1, <1>b
  <2>3. CASE UNCHANGED <<tickets, rlock>> /\ call' = [call EXCEPT ![c] = [call[c] EXCEPT !.pc = "discard"]]
    <3> DEFINE r == [call[c] EXCEPT !.pc = "discard"]
    <3>2. r.pc = "discard" /\ r.set = {} /\ r.gen = call[c].gen /\ call' = [call EXCEPT ![c] = r]
      BY <2>1, <2>3, <1>f, <1>s DEF CallType
    <3> HIDE DEF r
    <3> QED
      BY <2>1, <2>3, <3>2, <1>c, <1>s
  <2> QED
    BY <1>24, <2>2, <2>3 DEF Probed, Calls
<1>25. CASE ProbeFails(c)
  BY <1>25, <1>r DEF ProbeFails, Recovering
<1>26. CASE ProbeUnproven(c)
  <2>1. call[c].pc = "probe" /\ Recovering(c) /\ Probing(c) /\ stop' = stop
    BY <1>26 DEF ProbeUnproven, Recovering, Probing
  <2>2. CASE /\ pool' = Unsafe(pool) /\ UNCHANGED <<tickets, rlock>>
             /\ call' = [call EXCEPT ![c] = [call[c] EXCEPT !.pc = "containRest", !.set = Tracked \cup {call[c].fresh}]]
    BY <2>1, <2>2, <1>d
  <2> QED
    BY <1>26, <2>1, <2>2 DEF ProbeUnproven, Calls
<1>27. CASE DiscardProbe(c)
  <2>1. call[c].pc = "discard" /\ Recovering(c) /\ Probing(c) /\ stop' = stop
    BY <1>27 DEF DiscardProbe, Recovering, Probing
  <2>2. CASE /\ pool' = Unsafe(pool) /\ UNCHANGED <<tickets, rlock>>
             /\ call' = [call EXCEPT ![c] = [call[c] EXCEPT !.pc = "containRest", !.set = Tracked \cup {call[c].fresh}]]
    BY <2>1, <2>2, <1>d
  <2> QED
    BY <1>27, <2>1, <2>2, <1>r DEF DiscardProbe, Calls
<1>28. CASE Join(c)
  <2>1. rlock = c /\ stop' = stop /\ tickets \ {<<c, 0>>} \subseteq tickets'
    BY <1>28, <1>s DEF Join
  <2> QED
    BY <1>28, <2>1, <1>b DEF Join, Leave, Calls
<1> QED
  BY <1>1, <1>2, <1>3, <1>4, <1>5, <1>6, <1>7, <1>8, <1>9, <1>10, <1>11, <1>12, <1>13, <1>14, <1>15, <1>16, <1>17, <1>18, <1>19, <1>20, <1>21, <1>22, <1>23, <1>24, <1>25, <1>26, <1>27, <1>28 DEF Task

-----------------------------------------------------------------------------
(* Hands, tickets, and the lists of a pool that is down.                   *)

\* A thread goes from one of its points to the next.
Moves(k) ==
    /\ Replenish(k) /\ thread[k].pc # "none" /\ tickets \ {<<k, thread[k].gen>>} \subseteq tickets'
    /\ \/ thread'[k].pc = "none" /\ thread'[k].set = {}
       \/ /\ thread'[k].pc \notin {"none", "begin"}
          /\ thread'[k].gen = thread[k].gen /\ tickets \subseteq tickets'
          /\ thread'[k].pc = "build" => Build(k) /\ ~Stale(k)
          /\ thread'[k].pc = "register" => Built(k)
          /\ thread'[k].pc = "discard" => thread[k].pc = "register"
          /\ thread'[k].pc = "clear" => pool'.health = "quarantined" \/ thread[k].pc = "clear"
          /\ thread'[k].pc = "clear" \/ (thread[k].pc # "clear" /\ thread'[k].set = thread[k].set)

LEMMA ThreadGoes ==
  ASSUME Typed, Next, NEW k \in Kids
  PROVE  thread'[k] = thread[k] \/ Begins(k) \/ Moves(k)
<1>1. thread'[k] = thread[k] \/ Replenish(k) \/ Begins(k)
  BY PoolGoes DEF ThreadsGo
<1>2. ASSUME Replenish(k)
      PROVE  Moves(k)
  BY <1>2, ReplenishGoes DEF Moves
<1> QED
  BY <1>1, <1>2

LEMMA ReplenishStop ==
  ASSUME NEW k \in Kids, Replenish(k)
  PROVE  stop' = stop
<1>1. CASE Build(k) \/ BuildTimeout(k) \/ Built(k) \/ BuildFails(k)
  BY <1>1 DEF Build, BuildTimeout, Built, BuildFails
<1>2. CASE Register(k) \/ RegisterStale(k) \/ Discard(k)
  BY <1>2 DEF Register, RegisterStale, Discard
<1>3. CASE Failed(k) \/ Clear(k) \/ BackoffOver(k)
  BY <1>3 DEF Failed, Clear, BackoffOver
<1> QED
  BY <1>1, <1>2, <1>3 DEF Replenish

\* Whose step it is.
ByTask(c) == Task(c) /\ Carries(c) /\ Kept(c) /\ \A d \in Callers \ {c} : call'[d] = call[d]

ByThread(k) ==
    /\ Replenish(k) /\ Moves(k) /\ \A j \in Kids \ {k} : thread'[j] = thread[j] \/ Begins(j)
    /\ UNCHANGED <<call, rlock, stop>>

LEMMA StepCases ==
  ASSUME PoolInv, Next
  PROVE  \/ \E c \in Callers : ByTask(c)
         \/ \E k \in Kids : ByThread(k) \/ Exits(k)
         \/ Stop
<1>i. Typed /\ Shapes /\ Ticketed /\ QuarantineIsOld /\ QuarantineLasts
  BY DEF PoolInv
<1>1. ASSUME NEW c \in Callers, Task(c)
      PROVE  ByTask(c)
  BY <1>1, <1>i, TaskCarries, TaskKeeps, TaskIsOne DEF ByTask
<1>2. ASSUME NEW k \in Kids, Replenish(k)
      PROVE  ByThread(k)
  BY <1>2, <1>i, ReplenishGoes, ReplenishStop DEF ByThread, Moves
<1> QED
  BY <1>1, <1>2 DEF Next

\* The shutdown: what it holds, and since when the pool is closed.
LEMMA StopGoes ==
  ASSUME Typed, Shapes, Stop
  PROVE  /\ UNCHANGED <<tickets, call, thread, rlock>>
         /\ (stop.pc = "none" <=> ~pool.closing)'
         /\ (stop.set # {} => stop.pc \in {"reap", "drain", "late"})'
         /\ (stop.late # {} => stop.pc = "late")'
<1>f. stop \in StopType /\ pool.closing \in BOOLEAN
  BY DEF Typed, TypeOK, PoolType
<1>s. /\ stop.pc = "none" <=> ~pool.closing
      /\ stop.set # {} => stop.pc \in {"reap", "drain", "late"}
      /\ stop.late # {} => stop.pc = "late"
  BY DEF Shapes
<1>1. CASE StopBegin /\ pool'.closing /\ stop' = [stop EXCEPT !.pc = "reap", !.set = Tracked]
  <2>1. stop.pc = "none"
    BY <1>1 DEF StopBegin
  <2> DEFINE T == Tracked
  <2>2. stop' = [stop EXCEPT !.pc = "reap", !.set = T]
    BY <1>1
  <2> HIDE DEF T
  <2>3. stop'.pc = "reap" /\ stop'.late = stop.late
    BY <1>f, <2>2 DEF StopType
  <2> QED
    BY <1>1, <1>s, <2>1, <2>3, StopEffect
<1>2. CASE StopReap
  <2>1. stop.pc = "reap" /\ \E b : stop' = [stop EXCEPT !.pc = "drain", !.bad = b]
    BY <1>2 DEF StopReap
  <2>2. stop'.pc = "drain" /\ stop'.late = stop.late
    BY <1>f, <2>1 DEF StopType
  <2>3. pool' = pool
    BY <1>2 DEF StopReap
  <2> QED
    BY <1>s, <2>1, <2>2, <2>3, StopEffect
<1>3. CASE StopDrain
  <2>1. stop.pc = "drain" /\ \E s, b : stop' = [stop EXCEPT !.pc = "late", !.late = s, !.drained = b]
    BY <1>3 DEF StopDrain
  <2>2. stop'.pc = "late"
    BY <1>f, <2>1 DEF StopType
  <2>3. pool'.closing = pool.closing
    BY <1>3, PoolFields DEF StopDrain, Typed, PoolType
  <2> QED
    BY <1>s, <2>1, <2>2, <2>3, StopEffect
<1>4. CASE StopLate
  <2>1. stop.pc = "late" /\ \E b : stop' = [stop EXCEPT !.pc = "done", !.set = {}, !.late = {}, !.safe = b]
    BY <1>4 DEF StopLate
  <2>2. stop'.pc = "done" /\ stop'.set = {} /\ stop'.late = {}
    BY <1>f, <2>1 DEF StopType
  <2>3. pool'.closing = pool.closing
    BY <1>4, PoolFields DEF StopLate, Typed, PoolType
  <2> QED
    BY <1>s, <2>1, <2>2, <2>3, StopEffect
<1> QED
  BY <1>1, <1>2, <1>3, <1>4, StopEffect

LEMMA ClosingGoes ==
  ASSUME Typed, EraGoes
  PROVE  pool'.closing = pool.closing \/ StopBegin
BY BeginValidationEffect DEF EraGoes, Turned, SameTime, Downed

LEMMA ShapesKept ==
  ASSUME PoolInv, Next
  PROVE  Shapes'
<1>i. Typed /\ Shapes
  BY DEF PoolInv
<1>s. /\ \A c \in Callers : call[c].set # {} => call[c].pc \in {"reap", "reapRest", "retireRest", "contain", "containRest"}
      /\ \A k \in Kids : thread[k].set # {} => thread[k].pc = "clear"
      /\ stop.pc = "none" <=> ~pool.closing
      /\ stop.set # {} => stop.pc \in {"reap", "drain", "late"}
      /\ stop.late # {} => stop.pc = "late"
      /\ \A c \in Callers : Recovering(c) \/ call[c].pc = "join" => rlock = c
  BY <1>i DEF Shapes
<1>1. ASSUME NEW k \in Kids, thread'[k].set # {}
      PROVE  thread'[k].pc = "clear"
  BY <1>1, <1>s, <1>i, ThreadGoes DEF Moves, Begins
<1>2. CASE Stop
  BY <1>1, <1>2, <1>i, <1>s, StopGoes DEF Shapes, Recovering
<1>3. ASSUME ~StopBegin, stop' = stop
      PROVE  /\ (stop.pc = "none" <=> ~pool.closing)'
             /\ (stop.set # {} => stop.pc \in {"reap", "drain", "late"})'
             /\ (stop.late # {} => stop.pc = "late")'
  BY <1>3, <1>i, <1>s, PoolGoes, ClosingGoes
<1>b. ASSUME StopBegin
      PROVE  stop' # stop
  <2>1. stop \in StopType /\ stop.pc = "none" /\ stop'.pc = "reap"
    BY <1>b, <1>i DEF Typed, TypeOK, StopBegin, StopType
  <2> QED
    BY <2>1
<1>4. ASSUME NEW c \in Callers, ByTask(c)
      PROVE  Shapes'
  <2>1. stop' = stop /\ \A d \in Callers \ {c} : call'[d] = call[d]
    BY <1>4 DEF ByTask, Carries
  <2>2. \A d \in Callers : call'[d].set # {} => call'[d].pc \in {"reap", "reapRest", "retireRest", "contain", "containRest"}
    BY <1>4, <1>s, <2>1 DEF ByTask, Carries
  <2>3. ASSUME NEW d \in Callers, Recovering(d)' \/ call'[d].pc = "join"
        PROVE  rlock' = d
    <3>1. CASE d = c
      BY <1>4, <2>3, <3>1 DEF ByTask, Carries
    <3>2. CASE d # c
      <4>1. call'[d] = call[d]
        BY <2>1, <3>2
      <4>2. rlock = d
        BY <4>1, <2>3, <1>s DEF Recovering
      <4>3. rlock' = rlock \/ rlock = None \/ rlock = c
        BY <1>4 DEF ByTask, Carries
      <4> QED
        BY <4>2, <4>3, <3>2, PoolAssumption
    <3> QED
      BY <3>1, <3>2
  <2> QED
    BY <1>1, <1>3, <1>b, <2>1, <2>2, <2>3 DEF Shapes
<1>5. ASSUME call' = call, rlock' = rlock, stop' = stop
      PROVE  Shapes'
  BY <1>1, <1>3, <1>b, <1>5, <1>s DEF Shapes, Recovering
<1> QED
  BY <1>2, <1>4, <1>5, StepCases DEF ByThread, Exits

LEMMA TicketedKept ==
  ASSUME PoolInv, Next
  PROVE  Ticketed'
<1>i. Typed /\ Ticketed /\ ValidationOK /\ QuarantineIsOld /\ Typed' /\ Shapes
  BY TypesKept, RetireKept DEF PoolInv, Typed
<1>g. /\ pool.gen \in Nat /\ pool'.gen \in Nat /\ pool.gen <= pool'.gen
      /\ \A k \in Kids : thread[k].gen \in Nat /\ thread'[k].gen \in Nat
      /\ \A c \in Callers : call[c].gen \in Nat /\ call[c].num \in Nat
  BY <1>i, EraKept DEF Typed, TypeOK, PoolType, ThreadType, CallType
<1>t. /\ \A k \in Kids : thread[k].pc # "none" => <<k, thread[k].gen>> \in tickets /\ thread[k].gen <= pool.gen
      /\ \A c \in Callers : call[c].pc \in {"reap", "reapRest"} \/ Recovering(c) =>
           <<c, call[c].gen>> \in tickets /\ call[c].gen <= pool.gen
      /\ \A c \in Callers : call[c].pc \in {"retire", "retireRest"} =>
           <<c, call[c].num>> \in tickets /\ call[c].num <= pool.gen
  BY <1>i DEF Ticketed, HasTicket
<1>b. ASSUME NEW k \in Kids, Begins(k)
      PROVE  HasTicket(k, thread[k].gen)'
  <2>1. CASE thread'[k].gen = pool'.gen
    BY <1>b, <1>g, <2>1 DEF Begins, HasTicket
  <2>2. ASSUME NEW c \in Callers, call[c].pc = "retire", call[c].fill,
               thread'[k].gen = IF call[c].val THEN call[c].gen ELSE call[c].num
        PROVE  HasTicket(k, thread[k].gen)'
    <3>1. thread'[k].gen = call[c].num
      BY <2>2, <1>i DEF ValidationOK
    <3>2. call[c].num <= pool.gen
      BY <2>2, <1>t
    <3> QED
      BY <1>b, <1>g, <3>1, <3>2 DEF Begins, HasTicket
  <2> QED
    BY <1>b, <2>1, <2>2 DEF Begins
<1>h. ASSUME NEW h, NEW g \in Nat, <<h, g>> \in tickets', g <= pool.gen
      PROVE  <<h, g>> \in tickets' /\ g <= pool'.gen
  BY <1>h, <1>g
<1>k. ASSUME NEW k \in Kids, thread'[k].pc # "none",
             thread'[k] = thread[k] => <<k, thread[k].gen>> \in tickets'
      PROVE  HasTicket(k, thread[k].gen)'
  <2>1. CASE thread'[k] = thread[k]
    BY <1>k, <1>t, <1>g, <2>1 DEF HasTicket
  <2>2. CASE Moves(k)
    <3>1. thread[k].pc # "none" /\ thread'[k].gen = thread[k].gen /\ tickets \subseteq tickets'
      BY <1>k, <2>2 DEF Moves
    <3> QED
      BY <1>t, <1>g, <3>1 DEF HasTicket
  <2> QED
    BY <2>1, <2>2, <1>b, <1>i, ThreadGoes
<1>1. ASSUME NEW c \in Callers, ByTask(c)
      PROVE  Ticketed'
  <2>1. \A d \in Callers \ {c} : call'[d] = call[d]
    BY <1>1 DEF ByTask
  <2>2. \A i \in Callers \cup Kids, g \in Nat : i # c /\ <<i, g>> \in tickets => <<i, g>> \in tickets'
    BY <1>1 DEF ByTask, Carries, Lasting
  <2>3. ASSUME NEW k \in Kids, thread'[k].pc # "none"
        PROVE  HasTicket(k, thread[k].gen)'
    <3>1. k # c
      BY PoolAssumption
    <3> QED
      BY <2>2, <2>3, <3>1, <1>k, <1>t, <1>g
  <2>4. ASSUME NEW d \in Callers, call'[d].pc \in {"reap", "reapRest"} \/ Recovering(d)'
        PROVE  HasTicket(d, call[d].gen)'
    <3>1. CASE d = c
      BY <1>1, <2>4, <3>1 DEF ByTask, Carries
    <3>2. CASE d # c
      BY <2>1, <2>2, <2>4, <3>2, <1>t, <1>g DEF Recovering, HasTicket
    <3> QED
      BY <3>1, <3>2
  <2>5. ASSUME NEW d \in Callers, call'[d].pc \in {"retire", "retireRest"}
        PROVE  HasTicket(d, call[d].num)'
    <3>1. CASE d = c
      BY <1>1, <2>5, <3>1 DEF ByTask, Carries
    <3>2. CASE d # c
      BY <2>1, <2>2, <2>5, <3>2, <1>t, <1>g DEF HasTicket
    <3> QED
      BY <3>1, <3>2
  <2> QED
    BY <2>3, <2>4, <2>5 DEF Ticketed
<1>2. ASSUME call' = call,
             \A i \in Callers, g \in Nat : <<i, g>> \in tickets => <<i, g>> \in tickets',
             \A k \in Kids : thread'[k].pc # "none" => HasTicket(k, thread[k].gen)'
      PROVE  Ticketed'
  <2>1. ASSUME NEW d \in Callers, call'[d].pc \in {"reap", "reapRest"} \/ Recovering(d)'
        PROVE  HasTicket(d, call[d].gen)'
    BY <1>2, <2>1, <1>t, <1>g DEF Recovering, HasTicket
  <2>2. ASSUME NEW d \in Callers, call'[d].pc \in {"retire", "retireRest"}
        PROVE  HasTicket(d, call[d].num)'
    BY <1>2, <2>2, <1>t, <1>g DEF HasTicket
  <2> QED
    BY <1>2, <2>1, <2>2 DEF Ticketed
<1>3. ASSUME NEW k \in Kids, ByThread(k)
      PROVE  Ticketed'
  <2>1. tickets \ {<<k, thread[k].gen>>} \subseteq tickets' /\ call' = call
        /\ \A j \in Kids \ {k} : thread'[j] = thread[j] \/ Begins(j)
    BY <1>3 DEF ByThread, Moves
  <2>2. \A i \in Callers, g \in Nat : <<i, g>> \in tickets => <<i, g>> \in tickets'
    BY <2>1, PoolAssumption
  <2>3. ASSUME NEW j \in Kids, thread'[j].pc # "none"
        PROVE  HasTicket(j, thread[j].gen)'
    <3>1. CASE j # k
      BY <2>1, <2>3, <3>1, <1>k, <1>t, <1>g
    <3>2. CASE j = k
      <4>1. thread[k].pc # "none" /\ thread'[k].gen = thread[k].gen /\ tickets \subseteq tickets'
        BY <1>3, <2>3, <3>2 DEF ByThread, Moves
      <4> QED
        BY <4>1, <3>2, <1>t, <1>g DEF HasTicket
    <3> QED
      BY <3>1, <3>2
  <2> QED
    BY <1>2, <2>1, <2>2, <2>3
<1>4. ASSUME UNCHANGED <<tickets, call, thread>>
      PROVE  Ticketed'
  <2>1. \A k \in Kids : thread'[k].pc # "none" => HasTicket(k, thread[k].gen)'
    BY <1>4, <1>t, <1>g DEF HasTicket
  <2> QED
    BY <1>2, <1>4, <2>1
<1> QED
  BY <1>1, <1>3, <1>4, <1>i, StepCases, StopGoes DEF Exits

LEMMA QuarantineLastsKept ==
  ASSUME PoolInv, Next
  PROVE  QuarantineLasts'
<1>i. Typed /\ QuarantineLasts /\ QuarantineIsOld /\ Shapes
  BY DEF PoolInv
<1>q. /\ \A c \in Callers : call[c].pc \in {"reapRest", "retireRest", "containRest"} => pool.health = "quarantined"
      /\ \A k \in Kids : thread[k].pc = "clear" => pool.health = "quarantined"
      /\ pool.health = "quarantined" => pool'.health = "quarantined"
  BY <1>i, EraKept DEF QuarantineLasts
<1>1. ASSUME NEW k \in Kids, thread'[k].pc = "clear"
      PROVE  pool'.health = "quarantined"
  <2>1. CASE Moves(k)
    BY <1>1, <1>q, <2>1 DEF Moves
  <2>2. CASE Begins(k)
    BY <1>1, <2>2 DEF Begins
  <2>3. CASE thread'[k] = thread[k]
    BY <1>1, <1>q, <2>3
  <2> QED
    BY <2>1, <2>2, <2>3, <1>i, ThreadGoes
<1>2. \A c \in Callers : call'[c].pc \in {"reapRest", "retireRest", "containRest"} => pool'.health = "quarantined"
  <2>1. ASSUME NEW c \in Callers, ByTask(c), NEW d \in Callers,
               call'[d].pc \in {"reapRest", "retireRest", "containRest"}
        PROVE  pool'.health = "quarantined"
    BY <2>1, <1>q DEF ByTask, Carries
  <2>2. ASSUME call' = call, NEW d \in Callers, call'[d].pc \in {"reapRest", "retireRest", "containRest"}
        PROVE  pool'.health = "quarantined"
    BY <2>2, <1>q
  <2> QED
    BY <2>1, <2>2, <1>i, StepCases, StopGoes DEF ByThread, Exits
<1> QED
  BY <1>1, <1>2 DEF QuarantineLasts

LEMMA QuarantineIsOldKept ==
  ASSUME PoolInv, Next
  PROVE  QuarantineIsOld'
<1>i. Typed /\ Ticketed /\ QuarantineIsOld /\ RecoveryOK /\ ValidationOK /\ Shapes
  BY DEF PoolInv
<1>g. /\ pool.gen \in Nat /\ pool'.gen \in Nat /\ pool.gen <= pool'.gen
      /\ \A k \in Kids : thread[k].gen \in Nat
      /\ \A c \in Callers : call[c].gen \in Nat /\ call[c].num \in Nat
  BY <1>i, EraKept, TypesKept DEF Typed, TypeOK, PoolType, ThreadType, CallType
<1>q. SUFFICES ASSUME pool'.health = "quarantined"
               PROVE  /\ \A k \in Kids : thread'[k].pc # "none" => thread'[k].gen < pool'.gen
                      /\ \A d \in Callers : call'[d].pc = "retire" /\ call'[d].fill => call'[d].num < pool'.gen
  BY DEF QuarantineIsOld
\* What was of an older generation than a recovery, and than a quarantined pool.
<1>o. ASSUME NEW g \in Nat, g <= pool.gen, pool.health = "quarantined" => g < pool.gen,
             \A c \in Callers : Recovering(c) => g < call[c].gen
      PROVE  g < pool'.gen
  <2>1. CASE pool.health = "quarantined" \/ pool'.gen = pool.gen + 1
    BY <1>o, <1>g, <2>1
  <2>2. ASSUME NEW c \in Callers, call[c].pc \in {"contain", "probe"}, Current(c)
        PROVE  g < pool'.gen
    <3>1. Recovering(c) /\ call[c].gen = pool.gen
      BY <2>2 DEF Recovering, Current
    <3> QED
      BY <1>o, <1>g, <3>1
  <2>3. EraGoes
    BY <1>i, PoolGoes
  <2>4. \A c \in Callers : ~BeginValidation(c)
    BY <1>q, <1>i, BeginValidationEffect
  <2> QED
    BY <2>1, <2>2, <2>3, <2>4, <1>q DEF EraGoes, Turned, Downed
<1>k. ASSUME NEW k \in Kids, thread[k].pc # "none"
      PROVE  thread[k].gen < pool'.gen
  <2>1. thread[k].gen <= pool.gen /\ thread[k].gen \in Nat
    BY <1>k, <1>i, <1>g DEF Ticketed, HasTicket
  <2>2. pool.health = "quarantined" => thread[k].gen < pool.gen
    BY <1>k, <1>i DEF QuarantineIsOld
  <2>3. \A c \in Callers : Recovering(c) => thread[k].gen < call[c].gen
    BY <1>k, <1>i DEF RecoveryOK
  <2> QED
    BY <2>1, <2>2, <2>3, <1>o
<1>d. ASSUME NEW d \in Callers, call[d].pc = "retire", call[d].fill
      PROVE  call[d].num < pool'.gen
  <2>1. call[d].num <= pool.gen /\ call[d].num \in Nat
    BY <1>d, <1>i, <1>g DEF Ticketed, HasTicket
  <2>2. pool.health = "quarantined" => call[d].num < pool.gen
    BY <1>d, <1>i DEF QuarantineIsOld
  <2>3. \A c \in Callers : Recovering(c) => call[d].num < call[c].gen
    BY <1>d, <1>i DEF RecoveryOK
  <2> QED
    BY <2>1, <2>2, <2>3, <1>o
<1>1. ASSUME NEW k \in Kids, thread'[k].pc # "none"
      PROVE  thread'[k].gen < pool'.gen
  <2>1. CASE thread'[k] = thread[k]
    BY <1>1, <1>k, <2>1
  <2>2. CASE Moves(k)
    <3>1. thread[k].pc # "none" /\ thread'[k].gen = thread[k].gen
      BY <1>1, <2>2 DEF Moves
    <3> QED
      BY <3>1, <1>k
  <2>3. CASE Begins(k)
    <3>1. PICK c \in Callers : /\ call[c].pc = "retire" /\ call[c].fill
                               /\ thread'[k].gen = IF call[c].val THEN call[c].gen ELSE call[c].num
      BY <1>q, <2>3 DEF Begins
    <3>2. thread'[k].gen = call[c].num
      BY <3>1, <1>i DEF ValidationOK
    <3> QED
      BY <3>1, <3>2, <1>d
  <2> QED
    BY <2>1, <2>2, <2>3, <1>i, ThreadGoes
<1>2. ASSUME NEW d \in Callers, call'[d].pc = "retire", call'[d].fill
      PROVE  call'[d].num < pool'.gen
  <2>1. CASE call'[d] = call[d]
    BY <1>2, <1>d, <2>1
  <2>2. CASE BeginRestart(d)
    <3>1. PICK fill \in BOOLEAN :
             /\ SameEra /\ (fill => pool.health \in {"healthy", "degraded_check"})
             /\ call' = [call EXCEPT ![d] = [call[d] EXCEPT !.pc = "retire", !.fill = fill, !.num = pool.gen]]
      BY <2>2, <1>i, BeginRestartEffect
    <3>2. call'[d].fill = fill
      BY <3>1, <1>i DEF Typed, TypeOK, CallType
    <3> QED
      BY <3>1, <3>2, <1>2, <1>q DEF SameEra
  <2> QED
    BY <2>1, <2>2, <1>2, <1>i, HandsGo
<1> QED
  BY <1>1, <1>2

LEMMA EmptyWhenDownKept ==
  ASSUME PoolInv, Next
  PROVE  EmptyWhenDown'
<1>i. Typed /\ EmptyWhenDown /\ RecoveryOK
  BY DEF PoolInv
<1>1. SUFFICES ASSUME pool'.closing \/ pool'.health \in {"suspect", "quarantined"}
               PROVE  pool'.workers = {}
  BY DEF EmptyWhenDown
<1>2. EraGoes /\ ListsGo
  BY <1>i, PoolGoes
<1>3. CASE pool.workers = {} /\ pool'.closing = pool.closing
  <2>1. ASSUME NEW c \in Callers, DetachDead(c) \/ Dispatch(c) \/ Return(c) \/ BeginRestart(c)
        PROVE  pool'.workers \subseteq pool.workers
    BY <2>1, <1>i, DetachEffect, DispatchEffect, ReturnEffect, BeginRestartEffect DEF Typed
  <2>2. ASSUME NEW c \in Callers, Probed(c), Current(c), pool.health = "suspect"
        PROVE  FALSE
    BY <2>2, <1>1, <1>3, <1>i, ProbedEffect DEF Current
  <2>3. ASSUME NEW k \in Kids, Register(k)
        PROVE  FALSE
    BY <2>3, <1>1, <1>3, <1>i, RegisterEffect DEF Typed
  <2> QED
    BY <1>2, <1>3, <2>1, <2>2, <2>3 DEF ListsGo, SameLists, NoLists
<1>4. CASE SameTime /\ pool'.health = pool.health
  BY <1>1, <1>3, <1>4, <1>i DEF SameTime, EmptyWhenDown
<1>5. ASSUME NEW c \in Callers, call[c].pc \in {"contain", "probe"}, SameTime
      PROVE  pool'.workers = {}
  <2>1. pool.health \in {"suspect", "quarantined"}
    BY <1>5, <1>i DEF RecoveryOK, Recovering
  <2> QED
    BY <1>3, <1>5, <2>1, <1>i DEF SameTime, EmptyWhenDown
<1>6. ASSUME NEW k \in Kids, Failed(k), ~Stale(k), pool'.closing = pool.closing, pool'.health = "bootstrap_failed"
      PROVE  FALSE
  BY <1>1, <1>6 DEF Stale
<1>7. ASSUME NEW c \in Callers, BeginValidation(c)
      PROVE  FALSE
  BY <1>1, <1>7, <1>i, BeginValidationEffect
<1>8. ASSUME SameTime, ~pool.closing, pool'.health = "healthy"
      PROVE  FALSE
  BY <1>1, <1>8 DEF SameTime
<1>9. CASE Turned
  <2>1. CASE NoLists
    BY <2>1 DEF NoLists
  <2> QED
    BY <1>5, <1>6, <1>7, <1>8, <1>9, <2>1 DEF Turned, Downed, Current
<1> QED
  BY <1>2, <1>4, <1>9 DEF EraGoes

-----------------------------------------------------------------------------
(* The size of the pool, epochs, the validation and the recovery.          *)

\* Only the validation, the recovery and its fresh context count on more than the lists say.
SizeGoes ==
    /\ \/ Fits(pool) => Fits(pool')
       \/ \E c \in Callers : BeginRestart(c) \/ RecoverEnter(c)
       \/ \E c \in Callers : Probed(c) /\ Current(c) /\ pool.health = "suspect"
    /\ \/ pool'.repl <= pool.repl
       \/ pool'.health \in {"healthy", "suspect"}
       \/ \E c \in Callers : BeginRestart(c)

LEMMA TaskSizes ==
  ASSUME Typed, NEW c \in Callers, Task(c)
  PROVE  SizeGoes
<1>f. TypeOK /\ pool.repl \in Nat /\ pool'.repl \in Nat /\ IsFiniteSet(pool.workers) /\ IsFiniteSet(pool'.workers)
  <2>1. Next
    BY DEF Next
  <2>2. TypeOK /\ TypeOK'
    BY <2>1, TypesKept DEF Typed
  <2>3. pool.workers \subseteq Kids /\ pool'.workers \subseteq Kids /\ pool.repl \in Nat /\ pool'.repl \in Nat
    BY <2>2 DEF TypeOK, PoolType
  <2> QED
    BY <2>2, <2>3, FS_Subset, PoolAssumption
<1>u. ASSUME pool' = pool
      PROVE  SizeGoes
  BY <1>u, <1>f DEF SizeGoes
<1>w. ASSUME pool'.workers \subseteq pool.workers, pool'.repl <= pool.repl
      PROVE  SizeGoes
  <2>1. Cardinality(pool'.workers) <= Cardinality(pool.workers)
        /\ Cardinality(pool.workers) \in Nat /\ Cardinality(pool'.workers) \in Nat
    BY <1>w, <1>f, FS_Subset, FS_CardinalityType
  <2> QED
    BY <1>w, <1>f, <2>1, PoolAssumption DEF SizeGoes, Fits
<1>s. ASSUME SameLists, pool'.repl = pool.repl \/ pool'.repl = 0
      PROVE  SizeGoes
  BY <1>s, <1>f, <1>w DEF SameLists
<1>d. ASSUME NoLists, pool'.repl = 0 \/ pool'.repl = pool.repl
      PROVE  SizeGoes
  BY <1>d, <1>f, <1>w DEF NoLists
<1>e. ASSUME SameEra, Fits(pool) => Fits(pool'), pool.health # "healthy" \/ pool.closing => pool'.repl <= pool.repl
      PROVE  SizeGoes
  BY <1>e, <1>f DEF SizeGoes, SameEra
<1>e0. ASSUME SameEra, Fits(pool) => Fits(pool'), pool.health # "healthy" \/ pool.closing => pool'.repl = pool.repl
      PROVE  SizeGoes
  BY <1>e0, <1>f, <1>e
<1>1. CASE DetachDead(c)
  <2>1. pool'.workers \subseteq pool.workers /\ pool'.repl = pool.repl
    BY <1>1, DetachEffect
  <2> QED
    BY <2>1, <1>f, <1>w
<1>2. CASE Dispatch(c)
  BY <1>2, <1>e0, <1>f, DispatchEffect
<1>3. CASE ReapDead(c)
  BY <1>3, <1>e0, ReapedEffect
<1>4. CASE ReapDeadUnproven(c)
  BY <1>4, <1>d, <1>f, UnsafeEffect DEF ReapDeadUnproven, Downed
<1>5. CASE ReapRest(c)
  BY <1>5, <1>e0, ReapedEffect
<1>6. CASE Finish(c)
  BY <1>6, <1>u DEF Finish
<1>7. CASE FinishRetiring(c)
  BY <1>7, <1>u DEF FinishRetiring
<1>8. CASE ContextFault(c)
  BY <1>8, <1>u DEF ContextFault
<1>9. CASE Abandon(c)
  BY <1>9, <1>u DEF Abandon
<1>10. CASE Crashed(c)
  BY <1>10, <1>u DEF Crashed
<1>11. CASE Return(c)
  BY <1>11, <1>e0, <1>f, ReturnEffect
<1>12. CASE BeginValidation(c)
  BY <1>12, <1>s, BeginValidationEffect
<1>13. CASE Escalate(c)
  BY <1>13, <1>u DEF Escalate
<1>14. CASE BeginRestart(c)
  BY <1>14 DEF SizeGoes
<1>15. CASE Retire(c)
  BY <1>15, <1>e0, RetireEffect
<1>16. CASE RetireUnproven(c)
  BY <1>16, <1>d, <1>f, UnsafeEffect DEF RetireUnproven, Downed
<1>17. CASE RetireRest(c)
  BY <1>17, <1>e0, RetireRestEffect
<1>18. CASE RecoverEnter(c)
  <2>1. pool' = pool \/ pool'.health = "suspect"
    BY <1>18, RecoverEnterEffect
  <2> QED
    BY <1>18, <2>1, <1>u DEF SizeGoes
<1>19. CASE Contain(c)
  BY <1>19, <1>u DEF Contain
<1>20. CASE ContainUnproven(c)
  BY <1>20, <1>s, ContainUnprovenEffect
<1>21. CASE Probe(c)
  BY <1>21, <1>u DEF Probe
<1>22. CASE DrainTimeout(c)
  BY <1>22, <1>d, <1>f, UnsafeEffect DEF DrainTimeout, Downed
<1>23. CASE ContainRest(c)
  BY <1>23, <1>u DEF ContainRest
<1>24. CASE Probed(c)
  <2>1. CASE Current(c) /\ pool.health = "suspect"
    BY <1>24, <2>1, ProbedEffect DEF SizeGoes
  <2>2. CASE ~(Current(c) /\ pool.health = "suspect")
    BY <1>24, <2>2, <1>u DEF Probed
  <2> QED
    BY <2>1, <2>2
<1>25. CASE ProbeFails(c)
  BY <1>25, <1>s, ProbeFailsEffect
<1>26. CASE ProbeUnproven(c)
  BY <1>26, <1>d, <1>f, UnsafeEffect DEF ProbeUnproven, Downed
<1>27. CASE DiscardProbe(c)
  BY <1>27, <1>d, <1>f, <1>u, UnsafeEffect DEF DiscardProbe, Downed
<1>28. CASE Join(c)
  BY <1>28, <1>u DEF Join
<1> QED
  BY <1>1, <1>2, <1>3, <1>4, <1>5, <1>6, <1>7, <1>8, <1>9, <1>10, <1>11, <1>12, <1>13, <1>14, <1>15, <1>16, <1>17, <1>18, <1>19, <1>20, <1>21, <1>22, <1>23, <1>24, <1>25, <1>26, <1>27, <1>28 DEF Task

LEMMA ThreadSizes ==
  ASSUME Typed, NEW k \in Kids, Replenish(k)
  PROVE  SizeGoes
<1>f. TypeOK /\ pool.repl \in Nat /\ pool'.repl \in Nat /\ IsFiniteSet(pool.workers) /\ IsFiniteSet(pool'.workers)
  <2>1. Next
    BY DEF Next
  <2>2. TypeOK /\ TypeOK'
    BY <2>1, TypesKept DEF Typed
  <2>3. pool.workers \subseteq Kids /\ pool'.workers \subseteq Kids /\ pool.repl \in Nat /\ pool'.repl \in Nat
    BY <2>2 DEF TypeOK, PoolType
  <2> QED
    BY <2>2, <2>3, FS_Subset, PoolAssumption
<1>u. ASSUME pool' = pool
      PROVE  SizeGoes
  BY <1>u, <1>f DEF SizeGoes
<1>w. ASSUME pool'.workers \subseteq pool.workers, pool'.repl <= pool.repl
      PROVE  SizeGoes
  <2>1. Cardinality(pool'.workers) <= Cardinality(pool.workers)
        /\ Cardinality(pool.workers) \in Nat /\ Cardinality(pool'.workers) \in Nat
    BY <1>w, <1>f, FS_Subset, FS_CardinalityType
  <2> QED
    BY <1>w, <1>f, <2>1, PoolAssumption DEF SizeGoes, Fits
<1>s. ASSUME SameLists, pool'.repl = pool.repl \/ pool'.repl = 0
      PROVE  SizeGoes
  BY <1>s, <1>f, <1>w DEF SameLists
<1>d. ASSUME NoLists, pool'.repl = 0 \/ pool'.repl = pool.repl
      PROVE  SizeGoes
  BY <1>d, <1>f, <1>w DEF NoLists
<1>e. ASSUME SameEra, Fits(pool) => Fits(pool'), pool.health # "healthy" \/ pool.closing => pool'.repl <= pool.repl
      PROVE  SizeGoes
  BY <1>e, <1>f DEF SizeGoes, SameEra
<1>e0. ASSUME SameEra, Fits(pool) => Fits(pool'), pool.health # "healthy" \/ pool.closing => pool'.repl = pool.repl
      PROVE  SizeGoes
  BY <1>e0, <1>f, <1>e
<1>1. CASE Build(k)
  BY <1>1, <1>u DEF Build
<1>2. CASE BuildTimeout(k)
  BY <1>2, <1>u DEF BuildTimeout
<1>3. CASE Built(k)
  BY <1>3, <1>u DEF Built
<1>4. CASE BuildFails(k)
  BY <1>4, <1>u DEF BuildFails
<1>5. CASE Register(k)
  <2>1. \/ pool'.health = "healthy" /\ (Fits(pool) => Fits(pool'))
        \/ /\ pool'.health = pool.health /\ (Fits(pool) => Fits(pool'))
           /\ pool.health # "healthy" => pool'.repl <= pool.repl
    BY <1>5, <1>f, RegisterEffect
  <2> QED
    BY <2>1 DEF SizeGoes
<1>6. CASE RegisterStale(k)
  BY <1>6, <1>u DEF RegisterStale
<1>7. CASE Discard(k)
  BY <1>7, <1>u, <1>d, <1>f, UnsafeEffect DEF Discard, Downed
<1>8. CASE Failed(k)
  BY <1>8, <1>u, <1>d, <1>s, FailedEffect
<1>9. CASE Clear(k)
  BY <1>9, <1>u, <1>d, <1>f, UnsafeEffect DEF Clear, Downed
<1>10. CASE BackoffOver(k)
  BY <1>10, <1>f, <1>e, BackoffEffect
<1> QED
  BY <1>1, <1>2, <1>3, <1>4, <1>5, <1>6, <1>7, <1>8, <1>9, <1>10 DEF Replenish

LEMMA PoolSizes ==
  ASSUME Typed, Next
  PROVE  SizeGoes
<1>f. TypeOK /\ pool.repl \in Nat /\ pool'.repl \in Nat /\ IsFiniteSet(pool.workers) /\ IsFiniteSet(pool'.workers)
  <2>1. Next
    BY DEF Next
  <2>2. TypeOK /\ TypeOK'
    BY <2>1, TypesKept DEF Typed
  <2>3. pool.workers \subseteq Kids /\ pool'.workers \subseteq Kids /\ pool.repl \in Nat /\ pool'.repl \in Nat
    BY <2>2 DEF TypeOK, PoolType
  <2> QED
    BY <2>2, <2>3, FS_Subset, PoolAssumption
<1>u. ASSUME pool' = pool
      PROVE  SizeGoes
  BY <1>u, <1>f DEF SizeGoes
<1>w. ASSUME pool'.workers \subseteq pool.workers, pool'.repl <= pool.repl
      PROVE  SizeGoes
  <2>1. Cardinality(pool'.workers) <= Cardinality(pool.workers)
        /\ Cardinality(pool.workers) \in Nat /\ Cardinality(pool'.workers) \in Nat
    BY <1>w, <1>f, FS_Subset, FS_CardinalityType
  <2> QED
    BY <1>w, <1>f, <2>1, PoolAssumption DEF SizeGoes, Fits
<1>s. ASSUME SameLists, pool'.repl = pool.repl \/ pool'.repl = 0
      PROVE  SizeGoes
  BY <1>s, <1>f, <1>w DEF SameLists
<1>d. ASSUME NoLists, pool'.repl = 0 \/ pool'.repl = pool.repl
      PROVE  SizeGoes
  BY <1>d, <1>f, <1>w DEF NoLists
<1>e. ASSUME SameEra, Fits(pool) => Fits(pool'), pool.health # "healthy" \/ pool.closing => pool'.repl <= pool.repl
      PROVE  SizeGoes
  BY <1>e, <1>f DEF SizeGoes, SameEra
<1>e0. ASSUME SameEra, Fits(pool) => Fits(pool'), pool.health # "healthy" \/ pool.closing => pool'.repl = pool.repl
      PROVE  SizeGoes
  BY <1>e0, <1>f, <1>e
<1>1. CASE Stop
  <2>1. pool' = pool \/ (NoLists /\ (pool'.repl = 0 \/ pool'.repl = pool.repl)) \/ (SameLists /\ pool'.repl = pool.repl)
    BY <1>1, StopEffect
  <2> QED
    BY <2>1, <1>u, <1>d, <1>s
<1> QED
  BY <1>1, <1>u, TaskSizes, ThreadSizes DEF Next, Exits

LEMMA EpochsKept ==
  ASSUME PoolInv, Next
  PROVE  EpochsOK'
<1>i. Typed /\ Roles /\ EpochsOK /\ Shapes /\ QuarantineIsOld
  BY DEF PoolInv
<1>g. /\ pool.gen \in Nat /\ pool'.gen \in Nat /\ pool.gen <= pool'.gen
      /\ pool.epoch \in Nat /\ pool'.epoch \in Nat /\ pool.epoch <= pool'.epoch
      /\ \A c \in Callers : call[c].epoch \in Nat /\ call'[c].epoch \in Nat
  BY <1>i, EraKept, TypesKept DEF Typed, TypeOK, PoolType, CallType
<1>1. ASSUME NEW c \in Callers
      PROVE  call'[c].epoch <= pool'.epoch
  <2>1. call[c].epoch <= pool.epoch
    BY <1>i DEF EpochsOK
  <2> QED
    BY <2>1, <1>g, <1>i, HandsGo, DispatchTakes
<1>2. ASSUME NEW c \in Callers, Serving(c)', Open', call'[c].epoch = pool'.epoch
      PROVE  call'[c].kid \in pool'.busy
  <2>1. CASE Dispatch(c)
    BY <1>i, <2>1, DispatchTakes
  <2>2. CASE ~Dispatch(c)
    <3>0. Holds(c)'
      BY <1>2 DEF Serving, Holds
    <3>1. Serving(c) /\ Holds(c) /\ call'[c].epoch = call[c].epoch /\ call'[c].kid = call[c].kid
      BY <1>2, <1>i, <2>2, <3>0, HandsGo
    <3>2. pool'.epoch = pool.epoch /\ call[c].epoch = pool.epoch
      BY <1>2, <1>g, <1>i, <3>1 DEF EpochsOK
    <3>3. Open
      BY <1>2, <1>i, EraKept DEF Open
    <3>4. call[c].kid \in pool.busy
      BY <3>1, <3>2, <3>3, <1>i DEF EpochsOK
    <3>5. ASSUME NEW d \in Callers, Return(d) \/ BeginRestart(d)
          PROVE  call[d].kid # call[c].kid /\ pool'.busy = pool.busy \ {call[d].kid}
      <4>1. Holds(d) /\ pool'.busy = pool.busy \ {call[d].kid}
        BY <3>5, <1>i, ReturnEffect, BeginRestartEffect DEF Return, BeginRestart, Holds, Typed
      <4>2. CASE d = c /\ Return(d)
        BY <4>2, <3>1 DEF Return, Serving
      <4>3. CASE d = c /\ BeginRestart(d)
        <5>1. PICK fill : call' = [call EXCEPT ![d] = [call[d] EXCEPT !.pc = "retire", !.fill = fill, !.num = pool.gen]]
          BY <4>3, <1>i, BeginRestartEffect
        <5>2. call'[d].pc = "retire"
          BY <5>1, <1>i DEF Typed, TypeOK, CallType
        <5> QED
          BY <5>2, <4>3, <1>2 DEF Serving
      <4>4. CASE d # c
        BY <4>1, <4>4, <3>1, <1>i DEF Roles, HeldOnce
      <4> QED
        BY <4>1, <4>2, <4>3, <4>4, <3>5
    <3>6. ASSUME NEW d \in Callers, DetachDead(d) \/ Dispatch(d)
          PROVE  pool.busy \subseteq pool'.busy
      BY <3>6, <1>i, DetachEffect, DispatchEffect DEF Typed
    <3>7. ASSUME NEW d \in Callers, Probed(d), Current(d), pool.health = "suspect"
          PROVE  pool.busy \subseteq pool'.busy
      BY <3>7, <1>i, ProbedEffect
    <3>8. ASSUME NEW k \in Kids, Register(k)
          PROVE  pool.busy \subseteq pool'.busy
      BY <3>8, <1>i, RegisterEffect DEF Typed
    <3>9. CASE NoLists /\ (Turned \/ StopDrain)
      <4>1. ~StopDrain
        <5>1. StopDrain => pool.closing
          BY <1>i DEF StopDrain, Shapes
        <5> QED
          BY <5>1, <3>3 DEF Open
      <4>2. ASSUME NEW k \in Kids, Register(k)
            PROVE  FALSE
        <5>1. pool.busy \subseteq pool'.busy
          BY <3>8, <4>2
        <5> QED
          BY <5>1, <3>4, <3>9 DEF NoLists
      <4>3. ASSUME SameLists
            PROVE  FALSE
        BY <4>3, <3>4, <3>9 DEF SameLists, NoLists
      <4>4. ASSUME NEW d \in Callers, BeginValidation(d)
            PROVE  FALSE
        BY <4>3, <4>4, <1>i, BeginValidationEffect
      <4>5. ASSUME NEW d \in Callers, Probed(d), Current(d), pool.health = "suspect"
            PROVE  FALSE
        <5>1. pool.busy \subseteq pool'.busy
          BY <3>7, <4>5
        <5> QED
          BY <5>1, <3>4, <3>9 DEF NoLists
      <4>6. ~pool'.closing /\ pool'.health # "quarantined" /\ pool'.epoch = pool.epoch
        BY <1>2, <3>2 DEF Open
      <4>7. Turned
        BY <3>9, <4>1
      <4>8. CASE Downed
        BY <4>6, <4>8, <1>g DEF Downed
      <4>9. ASSUME NEW d \in Callers, Probed(d), Current(d), pool'.health = "healthy", pool.health = "suspect"
            PROVE  FALSE
        BY <4>5, <4>9
      <4> QED
        BY <4>2, <4>3, <4>4, <4>9, <4>6, <4>7, <4>8, <1>g DEF Turned
    <3>10. ListsGo
      BY <1>i, PoolGoes
    <3>11. CASE SameLists
      BY <3>1, <3>4, <3>11 DEF SameLists
    <3> QED
      BY <3>1, <3>4, <3>5, <3>6, <3>7, <3>8, <3>9, <3>10, <3>11 DEF ListsGo
  <2> QED
    BY <2>1, <2>2
<1> QED
  BY <1>1, <1>2 DEF EpochsOK

LEMMA ValidationKept ==
  ASSUME PoolInv, Next
  PROVE  ValidationOK'
<1>i. Typed /\ ValidationOK /\ RecoveryOK /\ Shapes /\ QuarantineIsOld /\ call \in [Callers -> CallType]
  BY DEF PoolInv, Typed, TypeOK
<1>g. /\ pool.gen \in Nat /\ pool'.gen \in Nat /\ pool.gen <= pool'.gen
      /\ pool.repl \in Nat /\ pool'.repl \in Nat
      /\ \A c \in Callers : call[c].gen \in Nat /\ call'[c].gen \in Nat
  BY <1>i, EraKept, TypesKept DEF Typed, TypeOK, PoolType, CallType
<1>v. /\ \A c, d \in Callers : c # d /\ Validates(c) /\ Validates(d) => call[c].gen # call[d].gen
      /\ \A c \in Callers : Validates(c) => call[c].gen <= pool.gen
      /\ \A c \in Callers : Validates(c) /\ call[c].gen = pool.gen =>
         /\ ~pool.closing
         /\ call[c].epoch = pool.epoch
         /\ pool.health \in {"healthy", "degraded_check"}
         /\ pool.health = "degraded_check" => pool.repl = 0
      /\ \A c \in Callers : call[c].pc = "retire" /\ call[c].fill /\ call[c].val => call[c].gen = call[c].num
  BY <1>i DEF ValidationOK
<1>b. ASSUME NEW c \in Callers, BeginValidation(c)
      PROVE  /\ call'[c].gen = pool.gen + 1 /\ pool'.gen = pool.gen + 1 /\ call'[c].epoch = pool'.epoch
             /\ ~pool'.closing /\ pool'.health = "degraded_check" /\ pool'.repl = 0
             /\ call[c].pc = "validate" /\ \A d \in Callers \ {c} : call'[d] = call[d]
  <2>1. call' = [call EXCEPT ![c] = [call[c] EXCEPT !.pc = "restart", !.val = TRUE, !.gen = pool.gen + 1]]
    BY <1>b, <1>i, BeginValidationEffect
  <2>2. call'[c].gen = pool.gen + 1 /\ call'[c].epoch = call[c].epoch
    BY <2>1, <1>i DEF CallType
  <2> QED
    BY <2>1, <2>2, <1>b, <1>i, BeginValidationEffect
<1>h. ASSUME NEW c \in Callers, Validates(c)'
      PROVE  BeginValidation(c) \/ (call'[c] = call[c] /\ Validates(c))
  BY <1>h, <1>i, HandsGo DEF Validates
<1>1. ASSUME NEW c \in Callers, NEW d \in Callers, c # d, Validates(c)', Validates(d)'
      PROVE  call'[c].gen # call'[d].gen
  <2>1. CASE BeginValidation(c)
    <3>1. call'[d] = call[d] /\ Validates(d)
      BY <2>1, <1>1, <1>b DEF Validates
    <3> QED
      BY <2>1, <3>1, <1>b, <1>v, <1>g
  <2>2. CASE BeginValidation(d)
    <3>1. call'[c] = call[c] /\ Validates(c)
      BY <2>2, <1>1, <1>b DEF Validates
    <3> QED
      BY <2>2, <3>1, <1>b, <1>v, <1>g
  <2> QED
    BY <2>1, <2>2, <1>1, <1>h, <1>v
<1>2. ASSUME NEW c \in Callers, Validates(c)'
      PROVE  call'[c].gen <= pool'.gen
  BY <1>2, <1>h, <1>b, <1>v, <1>g
<1>3. ASSUME NEW c \in Callers, Validates(c)', call'[c].gen = pool'.gen
      PROVE  /\ ~pool'.closing
             /\ call'[c].epoch = pool'.epoch
             /\ pool'.health \in {"healthy", "degraded_check"}
             /\ pool'.health = "degraded_check" => pool'.repl = 0
  <2>1. CASE BeginValidation(c)
    BY <2>1, <1>b
  <2>2. CASE call'[c] = call[c] /\ Validates(c)
    <3>1. call[c].gen = pool.gen /\ pool'.gen = pool.gen
      BY <2>2, <1>3, <1>v, <1>g
    <3>2. /\ ~pool.closing /\ call[c].epoch = pool.epoch
          /\ pool.health \in {"healthy", "degraded_check"}
          /\ pool.health = "degraded_check" => pool.repl = 0
      BY <2>2, <3>1, <1>v
    <3>3. pool'.epoch = pool.epoch
      BY <3>1, <1>i, EraKept
    <3>4. EraGoes
      BY <1>i, PoolGoes
    <3>5. ~pool'.closing /\ (pool'.health = "healthy" \/ pool'.health = pool.health)
      <4>1. CASE SameTime /\ pool'.health = pool.health
        BY <4>1, <3>2 DEF SameTime
      <4>2. ASSUME NEW d \in Callers, call[d].pc \in {"contain", "probe"}
            PROVE  FALSE
        BY <4>2, <3>2, <1>i DEF RecoveryOK, Recovering
      <4>3. \A d \in Callers : ~BeginValidation(d)
        BY <1>b, <3>1, <1>g
      <4>4. CASE Turned
        BY <4>4, <4>2, <4>3, <3>1, <3>2, <1>g DEF Turned, Downed, SameTime
      <4> QED
        BY <4>1, <4>4, <3>4 DEF EraGoes
    <3>6. ASSUME pool'.health = "degraded_check"
          PROVE  pool'.repl = 0
      <4>1. pool.health = "degraded_check" /\ pool.repl = 0
        BY <3>2, <3>5, <3>6
      <4>2. ASSUME NEW d \in Callers, BeginRestart(d)
            PROVE  pool'.repl = 0
        <5>1. PICK fill \in BOOLEAN :
                /\ pool'.repl = IF fill THEN pool.repl + 1 ELSE pool.repl
                /\ fill => call[d].val /\ call[d].gen = pool.gen
                /\ call' = [call EXCEPT ![d] = [call[d] EXCEPT !.pc = "retire", !.fill = fill, !.num = pool.gen]]
          BY <4>2, <4>1, <1>i, BeginRestartEffect
        <5>2. CASE ~fill
          BY <5>1, <5>2, <4>1
        <5>3. CASE fill
          <6>1. Validates(d) /\ call[d].gen = call[c].gen
            BY <5>1, <5>3, <4>2, <3>1 DEF Validates, BeginRestart
          <6>2. d = c
            BY <6>1, <2>2, <1>v
          <6>3. call'[d].pc = "retire"
            BY <5>1, <1>i DEF CallType
          <6> QED
            BY <6>2, <6>3, <1>3 DEF Validates
        <5> QED
          BY <5>2, <5>3
      <4>3. SizeGoes
        BY <1>i, PoolSizes
      <4>4. CASE pool'.repl <= pool.repl
        BY <4>1, <4>4, <1>g
      <4> QED
        BY <4>2, <4>3, <4>4, <3>6 DEF SizeGoes
    <3> QED
      BY <2>2, <3>2, <3>3, <3>5, <3>6
  <2> QED
    BY <2>1, <2>2, <1>3, <1>h
<1>4. ASSUME NEW c \in Callers, call'[c].pc = "retire", call'[c].fill, call'[c].val
      PROVE  call'[c].gen = call'[c].num
  <2>1. CASE call'[c] = call[c]
    BY <2>1, <1>4, <1>v
  <2>2. CASE BeginRestart(c)
    <3>1. PICK fill \in BOOLEAN :
            /\ fill => (call[c].val => call[c].gen = pool.gen)
            /\ call' = [call EXCEPT ![c] = [call[c] EXCEPT !.pc = "retire", !.fill = fill, !.num = pool.gen]]
      BY <2>2, <1>i, BeginRestartEffect
    <3>2. call'[c].fill = fill /\ call'[c].num = pool.gen /\ call'[c].gen = call[c].gen /\ call'[c].val = call[c].val
      BY <3>1, <1>i DEF CallType
    <3> QED
      BY <3>1, <3>2, <1>4
  <2> QED
    BY <2>1, <2>2, <1>4, <1>i, HandsGo
<1> QED
  BY <1>1, <1>2, <1>3, <1>4 DEF ValidationOK

LEMMA RecoveryKept ==
  ASSUME PoolInv, Next
  PROVE  RecoveryOK'
<1>i. /\ Typed /\ RecoveryOK /\ Shapes /\ Ticketed /\ QuarantineIsOld /\ ValidationOK
      /\ call \in [Callers -> CallType] /\ Shapes'
  BY ShapesKept DEF PoolInv, Typed, TypeOK
<1>g. /\ pool.gen \in Nat /\ pool'.gen \in Nat /\ pool.gen <= pool'.gen
      /\ \A k \in Kids : thread[k].gen \in Nat /\ thread'[k].gen \in Nat
      /\ \A c \in Callers : call[c].gen \in Nat /\ call[c].num \in Nat
  BY <1>i, EraKept, TypesKept DEF Typed, TypeOK, PoolType, CallType, ThreadType
<1>r. \A c \in Callers : Recovering(c) =>
      /\ pool.health \in {"suspect", "quarantined"}
      /\ Open => call[c].gen = pool.gen
      /\ \A k \in Kids : thread[k].pc # "none" => thread[k].gen < call[c].gen
      /\ \A d \in Callers : call[d].pc = "retire" /\ call[d].fill => call[d].num < call[c].gen
  BY <1>i DEF RecoveryOK
<1>t. /\ \A k \in Kids : thread[k].pc # "none" => thread[k].gen <= pool.gen
      /\ \A c \in Callers : Recovering(c) => call[c].gen <= pool.gen
      /\ \A c \in Callers : call[c].pc = "retire" => call[c].num <= pool.gen
  BY <1>i DEF Ticketed, HasTicket
<1>1. SUFFICES ASSUME NEW c \in Callers, Recovering(c)'
               PROVE  /\ pool'.health \in {"suspect", "quarantined"}
                      /\ Open' => call'[c].gen = pool'.gen
                      /\ \A k \in Kids : thread'[k].pc # "none" => thread'[k].gen < call'[c].gen
                      /\ \A d \in Callers : call'[d].pc = "retire" /\ call'[d].fill => call'[d].num < call'[c].gen
  BY DEF RecoveryOK
<1>2. CASE RecoverEnter(c)
  <2>1. UNCHANGED thread /\ \A d \in Callers \ {c} : call'[d] = call[d]
    <3>1. Task(c)
      BY <1>2 DEF Task
    <3> QED
      BY <3>1, <1>2, <1>i, TaskIsOne, RecoverEnterEffect
  <2>2. CASE pool'.health = "suspect" /\ pool'.gen = pool.gen + 1
             /\ call' = [call EXCEPT ![c] = [call[c] EXCEPT !.pc = "contain", !.gen = pool.gen + 1,
                                                              !.set = Tracked \cup {call[c].kid}]]
    <3>1. call'[c].gen = pool.gen + 1 /\ call'[c].pc = "contain"
      BY <2>2, <1>i DEF CallType
    <3>2. \A d \in Callers : call'[d].pc = "retire" => call[d].pc = "retire" /\ call'[d] = call[d]
      BY <2>1, <3>1
    <3>3. \A d \in Callers : call'[d].pc = "retire" => call'[d].num < call'[c].gen
      BY <3>1, <3>2, <1>t, <1>g
    <3>4. \A k \in Kids : thread'[k].pc # "none" => thread'[k].gen < call'[c].gen
      BY <2>1, <3>1, <1>t, <1>g
    <3> QED
      BY <2>2, <3>1, <3>3, <3>4
  <2>3. CASE call' = [call EXCEPT ![c] = [call[c] EXCEPT !.pc = "join"]]
    <3>1. call'[c].pc = "join"
      BY <2>3, <1>i DEF CallType
    <3> QED
      BY <3>1, <1>1 DEF Recovering
  <2>4. CASE \E out : call' = [call EXCEPT ![c] = [IdleCall EXCEPT !.pc = "return", !.kid = call[c].kid, !.out = out]]
    <3>1. call'[c].pc = "return"
      BY <2>4, <1>i DEF IdleCall
    <3> QED
      BY <3>1, <1>1 DEF Recovering
  <2> QED
    BY <1>2, <1>i, <2>2, <2>3, <2>4, RecoverEnterEffect
<1>3. CASE ~RecoverEnter(c)
  <2>1. Recovering(c) /\ call'[c].gen = call[c].gen
    BY <1>1, <1>3, <1>i, HandsGo
  <2>2. rlock = c /\ rlock' = c /\ rlock # None
    BY <1>1, <2>1, <1>i, PoolAssumption DEF Shapes
  <2>3. /\ pool.health \in {"suspect", "quarantined"}
        /\ Open => call[c].gen = pool.gen
        /\ \A k \in Kids : thread[k].pc # "none" => thread[k].gen < call[c].gen
        /\ \A d \in Callers : call[d].pc = "retire" /\ call[d].fill => call[d].num < call[c].gen
    BY <2>1, <1>r
  <2>4. EraGoes
    BY <1>i, PoolGoes
  <2>5. ASSUME NEW k \in Kids, Failed(k), ~Stale(k)
        PROVE  FALSE
    <3>1. thread[k].pc # "none" /\ thread[k].gen = pool.gen
      BY <2>5 DEF Failed, Stale
    <3> QED
      BY <3>1, <2>1, <2>3, <1>t, <1>g
  <2>6. \A d \in Callers : ~BeginValidation(d)
    BY <1>i, <2>3, BeginValidationEffect
  <2>7. ASSUME NEW d \in Callers, call[d].pc = "probe", call'[d].pc = "return"
        PROVE  FALSE
    <3>1. d = c
      BY <2>1, <2>7, <1>i, OneRecovers DEF Recovering
    <3> QED
      BY <2>7, <3>1, <1>1 DEF Recovering
  <2>8. pool'.health \in {"suspect", "quarantined"} /\ (Open' => Open /\ pool'.gen = pool.gen)
    <3>1. CASE SameTime /\ pool'.health = pool.health
      BY <3>1, <2>3 DEF SameTime, Open
    <3>2. CASE Turned
      <4>1. pool.health # "healthy" /\ pool.health # "degraded_check"
        BY <2>3
      <4> QED
        BY <3>2, <4>1, <2>2, <2>3, <2>5, <2>6, <2>7 DEF Turned, Downed, Open, SameTime, Current
    <3> QED
      BY <3>1, <3>2, <2>4 DEF EraGoes
  <2>9. ASSUME NEW k \in Kids, thread'[k].pc # "none"
        PROVE  thread'[k].gen < call[c].gen
    <3>1. CASE thread'[k] = thread[k]
      BY <2>9, <2>3, <3>1
    <3>2. CASE Moves(k)
      <4>1. thread[k].pc # "none" /\ thread'[k].gen = thread[k].gen
        BY <2>9, <3>2 DEF Moves
      <4> QED
        BY <4>1, <2>3
    <3>3. CASE Begins(k)
      <4>1. PICK d \in Callers : /\ call[d].pc = "retire" /\ call[d].fill
                                 /\ thread'[k].gen = IF call[d].val THEN call[d].gen ELSE call[d].num
        BY <2>8, <3>3 DEF Begins
      <4>2. thread'[k].gen = call[d].num
        BY <4>1, <1>i DEF ValidationOK
      <4> QED
        BY <4>1, <4>2, <2>3
    <3> QED
      BY <3>1, <3>2, <3>3, <1>i, ThreadGoes
  <2>10. ASSUME NEW d \in Callers, call'[d].pc = "retire", call'[d].fill
         PROVE  call'[d].num < call[c].gen
    <3>1. CASE call'[d] = call[d]
      BY <2>10, <2>3, <3>1
    <3>2. CASE BeginRestart(d)
      <4>1. PICK fill \in BOOLEAN :
              /\ fill => pool.health \in {"healthy", "degraded_check"}
              /\ call' = [call EXCEPT ![d] = [call[d] EXCEPT !.pc = "retire", !.fill = fill, !.num = pool.gen]]
        BY <3>2, <1>i, BeginRestartEffect
      <4>2. call'[d].fill = fill
        BY <4>1, <1>i DEF CallType
      <4> QED
        BY <4>1, <4>2, <2>10, <2>3
    <3> QED
      BY <3>1, <3>2, <2>10, <1>i, HandsGo
  <2> QED
    BY <2>1, <2>3, <2>8, <2>9, <2>10
<1> QED
  BY <1>2, <1>3

LEMMA FitsKept ==
  ASSUME PoolInv, Next
  PROVE  Fits(pool)'
<1>i. Typed /\ Roles /\ EpochsOK /\ ValidationOK /\ EmptyWhenDown /\ Fits(pool) /\ TypeOK /\ call \in [Callers -> CallType]
  BY DEF PoolInv, Typed, TypeOK
<1>f. /\ pool.repl \in Nat /\ pool.retire \in Nat /\ PoolSize \in Nat \ {0}
      /\ IsFiniteSet(pool.workers) /\ Cardinality(pool.workers) \in Nat
  <2>1. pool.workers \subseteq Kids
    BY <1>i, PoolFields
  <2> QED
    BY <2>1, <1>i, PoolFields, PoolAssumption, FS_Subset, FS_CardinalityType
<1>e. Cardinality({}) = 0
  BY FS_EmptySet
<1>1. ASSUME NEW c \in Callers, BeginRestart(c)
      PROVE  Fits(pool')
  <2> DEFINE W == pool.workers \ {call[c].kid}
  <2>1. PICK fill \in BOOLEAN :
          /\ pool'.workers = W
          /\ pool'.repl = IF fill THEN pool.repl + 1 ELSE pool.repl
          /\ fill => IF call[c].val
                     THEN call[c].gen = pool.gen /\ pool.health = "degraded_check"
                     ELSE Cardinality(W) + pool.repl + pool.retire < PoolSize
    BY <1>1, <1>i, BeginRestartEffect
  <2>2. Cardinality(W) \in Nat /\ Cardinality(W) <= Cardinality(pool.workers)
    BY <1>f, FS_Subset, FS_CardinalityType
  <2>3. CASE ~fill
    BY <1>f, <1>i, <2>1, <2>2, <2>3 DEF Fits
  <2>4. CASE fill /\ ~call[c].val
    BY <1>f, <2>1, <2>2, <2>4 DEF Fits
  <2>5. CASE fill /\ call[c].val
    <3>1. Validates(c) /\ call[c].gen = pool.gen /\ pool.health = "degraded_check"
      BY <1>1, <2>1, <2>5 DEF BeginRestart, Validates
    <3>2. ~pool.closing /\ call[c].epoch = pool.epoch /\ pool.repl = 0
      BY <3>1, <1>i DEF ValidationOK
    <3>3. call[c].kid \in pool.workers
      BY <3>1, <3>2, <1>i DEF EpochsOK, Validates, Serving, Open, Roles, IdleAreMembers
    <3>4. Cardinality(W) = Cardinality(pool.workers) - 1
      <4> DEFINE A == pool.workers
                 k == call[c].kid
      <4>1. k \in A /\ IsFiniteSet(A)
        BY <3>3, <1>f
      <4> HIDE DEF A, k
      <4>2. Cardinality(A \ {k}) = IF k \in A THEN Cardinality(A) - 1 ELSE Cardinality(A)
        BY <4>1, FS_RemoveElement
      <4> QED
        BY <4>1, <4>2 DEF A, k
    <3> QED
      BY <3>2, <3>4, <2>1, <2>2, <2>5, <1>f, <1>i DEF Fits
  <2> QED
    BY <2>3, <2>4, <2>5
<1>2. ASSUME NEW c \in Callers, RecoverEnter(c)
      PROVE  Fits(pool')
  <2>1. pool' = pool \/ (pool'.workers = {} /\ pool'.repl = 1)
    BY <1>2, <1>i, RecoverEnterEffect DEF NoLists
  <2>2. CASE pool' = pool
    BY <2>2, <1>i
  <2>3. CASE pool'.workers = {} /\ pool'.repl = 1
    <3>1. Cardinality(pool'.workers) = 0
      BY <2>3, <1>e
    <3> QED
      BY <2>3, <3>1, <1>f DEF Fits
  <2> QED
    BY <2>1, <2>2, <2>3
<1>3. ASSUME NEW c \in Callers, Probed(c), Current(c), pool.health = "suspect"
      PROVE  Fits(pool')
  <2>1. pool.workers = {}
    BY <1>3, <1>i DEF EmptyWhenDown
  <2>2. Cardinality(pool.workers \cup {call[c].fresh}) = 1
    BY <2>1, FS_Singleton
  <2>3. Cardinality(pool.workers \cup {call[c].fresh}) <= PoolSize
    BY <2>2, <1>f
  <2> QED
    BY <2>3, <1>3, <1>i, ProbedEffect
<1>4. SizeGoes
  BY <1>i, PoolSizes
<1>5. Fits(pool')
  BY <1>1, <1>2, <1>3, <1>4, <1>i DEF SizeGoes
<1> QED
  BY <1>5 DEF Fits

-----------------------------------------------------------------------------
(* What a step may do to the children themselves, and to their handles.    *)

\* Where a coroutine is when it takes a step.
LEMMA TaskAt ==
  ASSUME NEW c \in Callers, Task(c)
  PROVE  /\ call[c].pc = "reap" => ReapDead(c) \/ ReapDeadUnproven(c)
         /\ call[c].pc = "reapRest" => ReapRest(c)
         /\ call[c].pc = "retire" => Retire(c) \/ RetireUnproven(c)
         /\ call[c].pc = "retireRest" => RetireRest(c)
         /\ call[c].pc = "recover" => RecoverEnter(c)
         /\ call[c].pc = "contain" => Contain(c) \/ ContainUnproven(c)
         /\ call[c].pc = "drain" => Probe(c) \/ DrainTimeout(c)
         /\ call[c].pc = "probe" => Probed(c) \/ ProbeFails(c) \/ ProbeUnproven(c)
         /\ call[c].pc = "discard" => DiscardProbe(c)
         /\ call[c].pc = "containRest" => ContainRest(c)
         /\ call[c].pc = "join" => Join(c)
         /\ call[c].pc = "return" => Return(c)
<1>1. CASE DetachDead(c)
  BY <1>1 DEF DetachDead, Searching
<1>2. CASE Dispatch(c)
  BY <1>2 DEF Dispatch, Searching
<1>3. CASE ReapDead(c)
  BY <1>3 DEF ReapDead
<1>4. CASE ReapDeadUnproven(c)
  BY <1>4 DEF ReapDeadUnproven
<1>5. CASE ReapRest(c)
  BY <1>5 DEF ReapRest
<1>6. CASE Finish(c)
  BY <1>6 DEF Finish, Running
<1>7. CASE FinishRetiring(c)
  BY <1>7 DEF FinishRetiring, Running
<1>8. CASE ContextFault(c)
  BY <1>8 DEF ContextFault, Running
<1>9. CASE Abandon(c)
  BY <1>9 DEF Abandon, Running
<1>10. CASE Crashed(c)
  BY <1>10 DEF Crashed, Running
<1>11. CASE Return(c)
  BY <1>11 DEF Return
<1>12. CASE BeginValidation(c)
  BY <1>12 DEF BeginValidation
<1>13. CASE Escalate(c)
  BY <1>13 DEF Escalate
<1>14. CASE BeginRestart(c)
  BY <1>14 DEF BeginRestart
<1>15. CASE Retire(c)
  BY <1>15 DEF Retire
<1>16. CASE RetireUnproven(c)
  BY <1>16 DEF RetireUnproven
<1>17. CASE RetireRest(c)
  BY <1>17 DEF RetireRest
<1>18. CASE RecoverEnter(c)
  BY <1>18 DEF RecoverEnter
<1>19. CASE Contain(c)
  BY <1>19 DEF Contain
<1>20. CASE ContainUnproven(c)
  BY <1>20 DEF ContainUnproven
<1>21. CASE Probe(c)
  BY <1>21 DEF Probe
<1>22. CASE DrainTimeout(c)
  BY <1>22 DEF DrainTimeout
<1>23. CASE ContainRest(c)
  BY <1>23 DEF ContainRest
<1>24. CASE Probed(c)
  BY <1>24 DEF Probed
<1>25. CASE ProbeFails(c)
  BY <1>25 DEF ProbeFails
<1>26. CASE ProbeUnproven(c)
  BY <1>26 DEF ProbeUnproven
<1>27. CASE DiscardProbe(c)
  BY <1>27 DEF DiscardProbe
<1>28. CASE Join(c)
  BY <1>28 DEF Join
<1> QED
  BY <1>1, <1>2, <1>3, <1>4, <1>5, <1>6, <1>7, <1>8, <1>9, <1>10, <1>11, <1>12, <1>13, <1>14, <1>15, <1>16, <1>17, <1>18, <1>19, <1>20, <1>21, <1>22, <1>23, <1>24, <1>25, <1>26, <1>27, <1>28 DEF Task

\* A step of c touches what c has in its hands.
Touches(c) ==
    /\ \A k \in Kids :
         \/ proc'[k] = proc[k]
         \/ Probe(c) /\ Probing(c)' /\ k = call'[c].fresh
         \/ Probing(c) /\ k = call[c].fresh /\ (call[c].pc = "probe" \/ proc'[k] = "none")
         \/ proc'[k] = "none" /\ (k \in call[c].set \/ (Holds(c) /\ k = call[c].kid))
    /\ \A k \in retained' :
         \/ k \in retained \cup call[c].set
         \/ Holds(c) /\ k = call[c].kid
         \/ Probing(c) /\ k = call[c].fresh /\ ~Probing(c)'

LEMMA TaskTouches ==
  ASSUME Typed, NEW c \in Callers, Task(c)
  PROVE  Touches(c)
<1>f. call \in [Callers -> CallType] /\ call[c] \in CallType /\ TypeOK
      /\ proc \in [Kids -> {"none", "starting", "live", "exited", "stillborn"}]
  BY DEF Typed, TypeOK
<1>u. ASSUME UNCHANGED <<proc, retained>>
      PROVE  Touches(c)
  BY <1>u DEF Touches
<1>s. ASSUME NEW ok, Reap(call[c].set, ok)
      PROVE  Touches(c)
  BY <1>s DEF Touches, Reap, Records
<1>k. ASSUME NEW ok, Reap({call[c].kid}, ok), Holds(c)
      PROVE  Touches(c)
  BY <1>k DEF Touches, Reap, Records
<1>n. ASSUME Probing(c),
             \A k \in Kids : proc'[k] = proc[k] \/ (k = call[c].fresh /\ (call[c].pc = "probe" \/ proc'[k] = "none")),
             retained' \subseteq retained \cup {call[c].fresh}, retained' \subseteq retained \/ ~Probing(c)'
      PROVE  Touches(c)
  BY <1>n DEF Touches
<1>1. CASE DetachDead(c)
  BY <1>1, <1>u DEF DetachDead
<1>2. CASE Dispatch(c)
  BY <1>2, <1>u DEF Dispatch
<1>3. CASE ReapDead(c)
  BY <1>3, <1>s DEF ReapDead
<1>4. CASE ReapDeadUnproven(c)
  BY <1>4, <1>s DEF ReapDeadUnproven
<1>5. CASE ReapRest(c)
  BY <1>5, <1>s DEF ReapRest
<1>6. CASE Finish(c)
  BY <1>6, <1>u DEF Finish
<1>7. CASE FinishRetiring(c)
  BY <1>7, <1>u DEF FinishRetiring
<1>8. CASE ContextFault(c)
  BY <1>8, <1>u DEF ContextFault
<1>9. CASE Abandon(c)
  BY <1>9, <1>u DEF Abandon
<1>10. CASE Crashed(c)
  BY <1>10, <1>u DEF Crashed
<1>11. CASE Return(c)
  BY <1>11, <1>u DEF Return
<1>12. CASE BeginValidation(c)
  BY <1>12, <1>u DEF BeginValidation
<1>13. CASE Escalate(c)
  BY <1>13, <1>u DEF Escalate
<1>14. CASE BeginRestart(c)
  BY <1>14 DEF BeginRestart, Touches, Holds
<1>15. CASE Retire(c)
  BY <1>15, <1>k DEF Retire, Holds
<1>16. CASE RetireUnproven(c)
  BY <1>16, <1>k DEF RetireUnproven, Holds
<1>17. CASE RetireRest(c)
  BY <1>17, <1>s DEF RetireRest
<1>18. CASE RecoverEnter(c)
  BY <1>18, <1>u DEF RecoverEnter
<1>19. CASE Contain(c)
  BY <1>19, <1>s DEF Contain
<1>20. CASE ContainUnproven(c)
  BY <1>20, <1>s DEF ContainUnproven
<1>21. CASE Probe(c)
  <2>1. CASE UNCHANGED proc
    BY <1>21, <2>1, <1>u DEF Probe
  <2>2. CASE proc' # proc
    <3>1. PICK m \in Fresh : /\ proc' = [proc EXCEPT ![m] = "starting"]
                            /\ call' = [call EXCEPT ![c] = [call[c] EXCEPT !.pc = "probe", !.fresh = m]]
                            /\ retained' = retained
      BY <1>21, <2>2 DEF Probe, Calls
    <3>2. call'[c].pc = "probe" /\ call'[c].fresh = m
      BY <3>1, <1>f DEF CallType
    <3> QED
      BY <1>21, <3>1, <3>2, <1>f DEF Touches, Probing
  <2> QED
    BY <2>1, <2>2
<1>22. CASE DrainTimeout(c)
  BY <1>22, <1>u DEF DrainTimeout
<1>23. CASE ContainRest(c)
  BY <1>23, <1>s DEF ContainRest
<1>24. CASE Probed(c)
  BY <1>24, <1>n, <1>f DEF Probed, Probing
<1>25. CASE ProbeFails(c)
  BY <1>25, <1>n, <1>f DEF ProbeFails, Probing
<1>26. CASE ProbeUnproven(c)
  <2>1. call' = [call EXCEPT ![c] = [call[c] EXCEPT !.pc = "containRest", !.set = Tracked \cup {call[c].fresh}]]
    BY <1>26 DEF ProbeUnproven, Calls
  <2>2. call'[c].pc = "containRest"
    BY <2>1, <1>f DEF CallType
  <2> QED
    BY <1>26, <2>2, <1>n, <1>f DEF ProbeUnproven, Probing
<1>27. CASE DiscardProbe(c)
  <2>0. Probing(c)
    BY <1>27 DEF DiscardProbe, Probing
  <2>1. CASE Reap({call[c].fresh}, {call[c].fresh})
    <3>1. \A k \in Kids : proc'[k] = proc[k] \/ (k = call[c].fresh /\ proc'[k] = "none")
      BY <2>1, <1>f DEF Reap
    <3>2. retained' \subseteq retained
      BY <2>1 DEF Reap, Records
    <3> QED
      BY <2>0, <3>1, <3>2, <1>n
  <2>2. CASE /\ Reap({call[c].fresh}, {})
             /\ call' = [call EXCEPT ![c] = [call[c] EXCEPT !.pc = "containRest", !.set = Tracked \cup {call[c].fresh}]]
    <3>1. ~Probing(c)'
      BY <2>2, <1>f DEF CallType, Probing
    <3>2. \A k \in Kids : proc'[k] = proc[k]
      BY <2>2, <1>f DEF Reap
    <3>3. retained' \subseteq retained \cup {call[c].fresh}
      BY <2>2 DEF Reap, Records
    <3> QED
      BY <2>0, <3>1, <3>2, <3>3, <1>n
  <2> QED
    BY <1>27, <2>1, <2>2 DEF DiscardProbe, Calls
<1>28. CASE Join(c)
  BY <1>28, <1>u DEF Join
<1> QED
  BY <1>1, <1>2, <1>3, <1>4, <1>5, <1>6, <1>7, <1>8, <1>9, <1>10, <1>11, <1>12, <1>13, <1>14, <1>15, <1>16, <1>17, <1>18, <1>19, <1>20, <1>21, <1>22, <1>23, <1>24, <1>25, <1>26, <1>27, <1>28 DEF Task

\* What a coroutine may be answerable for, and a child that is not gone, is not forgotten.
Keeps(c) ==
    \A k \in Kids : proc'[k] # "none" =>
      /\ k \in Tracked \cup call[c].set => k \in Tracked' \cup call'[c].set
      /\ Probing(c) /\ call[c].fresh = k =>
           (Probing(c)' /\ call'[c].fresh = k) \/ k \in Tracked' \cup call'[c].set

LEMMA TaskHandles ==
  ASSUME Typed, Roles, Shapes, NEW c \in Callers, Task(c)
  PROVE  Keeps(c)
<1>f. call \in [Callers -> CallType] /\ call[c] \in CallType /\ TypeOK /\ Tracked \subseteq Kids
      /\ proc \in [Kids -> {"none", "starting", "live", "exited", "stillborn"}] /\ call[c].set \subseteq Kids
  BY PoolFields, CallFields DEF Typed, TypeOK
<1>s. call[c].set # {} => call[c].pc \in {"reap", "reapRest", "retireRest", "contain", "containRest"}
  BY DEF Shapes
<1>t. Tracked = pool.workers \cup retained /\ pool'.workers \cup retained' \subseteq Tracked'
  BY DEF Tracked, Roles, IdleAreMembers
<1>g. ASSUME ~(call[c].pc \in {"probe", "discard"}),
             \A k \in pool.workers \cup retained \cup call[c].set :
               proc'[k] = "none" \/ k \in pool'.workers \cup retained' \cup call'[c].set
      PROVE  Keeps(c)
  BY <1>g, <1>t DEF Keeps, Probing
<1>u. ASSUME call[c].pc \in {"idle", "run", "return", "validate", "restart", "recover", "join", "drain"},
             pool'.workers = pool.workers, retained' = retained
      PROVE  Keeps(c)
  BY <1>u, <1>s, <1>g
<1>r. ASSUME NEW S \in SUBSET Kids, NEW ok, Reap(S, ok)
      PROVE  \A k \in retained \cup S : k \in Kids => proc'[k] = "none" \/ k \in retained'
  BY <1>r DEF Reap, Records
<1>k. retained \subseteq Kids
  BY <1>f DEF TypeOK
\* Children shut down with the pool's lists as they are.
<1>l. ASSUME ~(call[c].pc \in {"probe", "discard"}), NEW S \in SUBSET Kids, NEW ok, Reap(S, ok), call[c].set \subseteq S,
             pool'.workers = pool.workers
      PROVE  Keeps(c)
  BY <1>l, <1>r, <1>k, <1>f, <1>g
<1>1. CASE DetachDead(c)
  <2>1. pool'.workers = pool.workers \ Dead /\ retained' = retained /\ call[c].pc = "idle"
    BY <1>1, DetachEffect DEF DetachDead, Searching
  <2> DEFINE r == [IdleCall EXCEPT !.pc = "reap", !.gen = pool.gen, !.set = Dead, !.num = Cardinality(Dead)]
  <2>2. r.set = Dead
    BY DEF IdleCall
  <2>3. call' = [call EXCEPT ![c] = r]
    BY <1>1, DetachEffect
  <2> HIDE DEF r
  <2>4. call'[c].set = Dead
    BY <2>2, <2>3, <1>f
  <2> QED
    BY <2>1, <2>4, <1>g, <1>s
<1>2. CASE Dispatch(c)
  BY <1>2, <1>u, <1>f, DispatchEffect DEF Dispatch, Searching
<1>3. CASE ReapDead(c)
  BY <1>3, <1>l, <1>f, ReapedEffect DEF ReapDead, SameLists
<1>4. CASE ReapDeadUnproven(c)
  <2>1. PICK ok \in SUBSET call[c].set :
          /\ Reap(call[c].set, ok)
          /\ call' = [call EXCEPT ![c] = [call[c] EXCEPT !.pc = "reapRest", !.set = (Tracked \cup call[c].set) \ ok]]
    BY <1>4, <1>f DEF ReapDeadUnproven, Calls, CallType
  <2>2. call[c].pc = "reap" /\ call'[c].set = (Tracked \cup call[c].set) \ ok
    BY <1>4, <2>1, <1>f DEF ReapDeadUnproven, CallType
  <2>3. \A k \in ok : proc'[k] = "none"
    BY <2>1, <1>f DEF Reap
  <2> QED
    BY <2>2, <2>3, <1>g, <1>t
<1>5. CASE ReapRest(c)
  BY <1>5, <1>l, <1>f, ReapedEffect DEF ReapRest, SameLists
<1>6. CASE Finish(c)
  BY <1>6, <1>u DEF Finish, Running
<1>7. CASE FinishRetiring(c)
  BY <1>7, <1>u DEF FinishRetiring, Running
<1>8. CASE ContextFault(c)
  BY <1>8, <1>u DEF ContextFault, Running
<1>9. CASE Abandon(c)
  BY <1>9, <1>u DEF Abandon, Running
<1>10. CASE Crashed(c)
  BY <1>10, <1>u DEF Crashed, Running
<1>11. CASE Return(c)
  BY <1>11, <1>u, <1>f, ReturnEffect DEF Return
<1>12. CASE BeginValidation(c)
  BY <1>12, <1>u, BeginValidationEffect DEF SameLists
<1>13. CASE Escalate(c)
  BY <1>13, <1>u DEF Escalate, Running
<1>14. CASE BeginRestart(c)
  BY <1>14, <1>g, <1>s, BeginRestartEffect DEF BeginRestart
<1>15. CASE Retire(c)
  <2>1. call[c].pc = "retire" /\ call[c].set = {} /\ call[c].kid \in Kids
    BY <1>15, <1>s DEF Retire, Typed, HandsFull, Holds
  <2> QED
    BY <1>15, <2>1, <1>l, RetireEffect DEF Retire, SameLists
<1>16. CASE RetireUnproven(c)
  <2>1. call[c].pc = "retire" /\ call' = [call EXCEPT ![c] = [call[c] EXCEPT !.pc = "retireRest", !.set = Tracked \cup {call[c].kid}]]
    BY <1>16, <1>f DEF RetireUnproven, Calls
  <2>2. Tracked \subseteq call'[c].set /\ call[c].set = {}
    BY <2>1, <1>f, <1>s DEF CallType
  <2> QED
    BY <2>1, <2>2, <1>g, <1>t
<1>17. CASE RetireRest(c)
  BY <1>17, <1>l, <1>f, RetireRestEffect DEF RetireRest, SameLists
<1>18. CASE RecoverEnter(c)
  <2>1. call[c].pc = "recover" /\ retained' = retained
    BY <1>18, RecoverEnterEffect
  <2>2. CASE pool' = pool
    BY <2>1, <2>2, <1>u
  <2>3. CASE call' = [call EXCEPT ![c] = [call[c] EXCEPT !.pc = "contain", !.gen = pool.gen + 1,
                                                       !.set = Tracked \cup {call[c].kid}]]
    <3>1. Tracked \subseteq call'[c].set /\ call[c].set = {}
      BY <2>1, <2>3, <1>f, <1>s DEF CallType
    <3> QED
      BY <2>1, <3>1, <1>g, <1>t
  <2> QED
    BY <1>18, <2>2, <2>3, RecoverEnterEffect
<1>19. CASE Contain(c)
  BY <1>19, <1>l, <1>f DEF Contain
<1>20. CASE ContainUnproven(c)
  BY <1>20, <1>l, <1>f, ContainUnprovenEffect DEF ContainUnproven, SameLists
<1>21. CASE Probe(c)
  BY <1>21, <1>u DEF Probe, Running
<1>22. CASE DrainTimeout(c)
  <2>1. call[c].pc = "drain" /\ call' = [call EXCEPT ![c] = [call[c] EXCEPT !.pc = "containRest", !.set = Tracked]]
    BY <1>22, <1>f DEF DrainTimeout, Calls
  <2>2. Tracked \subseteq call'[c].set /\ call[c].set = {}
    BY <2>1, <1>f, <1>s DEF CallType
  <2> QED
    BY <2>1, <2>2, <1>g, <1>t
<1>23. CASE ContainRest(c)
  BY <1>23, <1>l, <1>f DEF ContainRest
<1>24. CASE Probed(c)
  <2>1. call[c].pc = "probe" /\ call[c].set = {} /\ retained' = retained
    BY <1>24, <1>s DEF Probed
  <2>2. CASE Current(c) /\ pool.health = "suspect"
    <3>1. pool'.workers = pool.workers \cup {call[c].fresh}
      BY <1>24, <2>2, ProbedEffect
    <3> QED
      BY <2>1, <3>1, <1>t DEF Keeps
  <2>3. CASE pool' = pool /\ call' = [call EXCEPT ![c] = [call[c] EXCEPT !.pc = "discard"]]
    <3>1. call'[c].pc = "discard" /\ call'[c].fresh = call[c].fresh
      BY <2>3, <1>f DEF CallType
    <3> QED
      BY <2>1, <2>3, <3>1, <1>t DEF Keeps, Probing
  <2> QED
    BY <1>24, <2>2, <2>3 DEF Probed, Calls
<1>25. CASE ProbeFails(c)
  <2>1. call[c].pc = "probe" /\ call[c].set = {} /\ retained' = retained /\ pool'.workers = pool.workers
        /\ proc' = [proc EXCEPT ![call[c].fresh] = "none"]
    BY <1>25, <1>s, ProbeFailsEffect DEF ProbeFails, SameLists
  <2>2. \A k \in Kids : k = call[c].fresh => proc'[k] = "none"
    BY <2>1, <1>f
  <2> QED
    BY <2>1, <2>2, <1>t DEF Keeps
<1>26. CASE ProbeUnproven(c)
  <2>1. call[c].pc = "probe"
        /\ call' = [call EXCEPT ![c] = [call[c] EXCEPT !.pc = "containRest", !.set = Tracked \cup {call[c].fresh}]]
    BY <1>26 DEF ProbeUnproven, Calls
  <2>2. Tracked \cup {call[c].fresh} \subseteq call'[c].set /\ call[c].set = {}
    BY <2>1, <1>f, <1>s DEF CallType
  <2> QED
    BY <2>1, <2>2 DEF Keeps
<1>27. CASE DiscardProbe(c)
  <2>1. call[c].pc = "discard" /\ call[c].set = {} /\ call[c].fresh \in Kids
    BY <1>27, <1>s DEF DiscardProbe, Typed, HandsFull, Probing
  <2>2. CASE Reap({call[c].fresh}, {call[c].fresh}) /\ pool' = pool
    <3>1. \A k \in retained \cup {call[c].fresh} : proc'[k] = "none" \/ k \in retained'
      BY <2>1, <2>2, <1>r, <1>k
    <3> QED
      BY <2>1, <2>2, <3>1, <1>t DEF Keeps
  <2>3. CASE call' = [call EXCEPT ![c] = [call[c] EXCEPT !.pc = "containRest", !.set = Tracked \cup {call[c].fresh}]]
    <3>1. Tracked \cup {call[c].fresh} \subseteq call'[c].set
      BY <2>1, <2>3, <1>f DEF CallType
    <3> QED
      BY <2>1, <3>1 DEF Keeps
  <2> QED
    BY <1>27, <2>2, <2>3 DEF DiscardProbe, Calls
<1>28. CASE Join(c)
  BY <1>28, <1>u DEF Join, Running
<1> QED
  BY <1>1, <1>2, <1>3, <1>4, <1>5, <1>6, <1>7, <1>8, <1>9, <1>10, <1>11, <1>12, <1>13, <1>14, <1>15, <1>16, <1>17, <1>18, <1>19, <1>20, <1>21, <1>22, <1>23, <1>24, <1>25, <1>26, <1>27, <1>28 DEF Task

\* A step of a thread touches its child and what it is shutting down.
ThreadTouches(k) ==
    /\ \A j \in Kids :
         \/ proc'[j] = proc[j]
         \/ j = k /\ Build(k) /\ ~Stale(k) /\ thread'[k].pc = "build" /\ proc'[j] = "starting"
         \/ j = k /\ thread[k].pc = "build" /\ proc'[j] \in {"none", "stillborn"}
         \/ j = k /\ Built(k) /\ proc'[j] = "live"
         \/ j = k /\ thread[k].pc = "discard" /\ proc'[j] = "none"
         \/ j \in thread[k].set /\ proc'[j] = "none"
    /\ \A j \in retained' :
         \/ j \in retained \cup thread[k].set
         \/ j = k /\ thread[k].pc \in {"build", "discard"} /\ thread'[k].pc \notin {"begin", "build"}
    /\ \A j \in thread'[k].set :
         \/ j \in Tracked \cup thread[k].set
         \/ j = k /\ thread[k].pc = "discard" /\ thread'[k].pc = "clear"

ThreadKeeps(k) ==
    \A j \in Kids : proc'[j] # "none" =>
      /\ j \in Tracked \cup thread[k].set => j \in Tracked' \cup thread'[k].set
      /\ thread[k].pc = "build" /\ j = k => thread'[k].pc = "build" \/ j \in Tracked'

LEMMA ThreadHandles ==
  ASSUME Typed, Roles, Shapes, NEW k \in Kids, Replenish(k)
  PROVE  ThreadTouches(k) /\ ThreadKeeps(k)
<1>f. thread \in [Kids -> ThreadType] /\ thread[k] \in ThreadType /\ TypeOK /\ thread[k].set \subseteq Kids
      /\ retained \subseteq Kids /\ proc \in [Kids -> {"none", "starting", "live", "exited", "stillborn"}]
  BY ThreadFields DEF Typed, TypeOK
<1>s. thread[k].set # {} => thread[k].pc = "clear"
  BY DEF Shapes
<1>t. Tracked = pool.workers \cup retained /\ pool'.workers \cup retained' \subseteq Tracked'
  BY DEF Tracked, Roles, IdleAreMembers
\* Whoever does not construct a child is done with that.
<1>b. thread[k].pc # "begin" => thread'[k].pc \notin {"begin", "build"}
  BY ReplenishGoes DEF Build
<1>c. ASSUME thread[k].pc # "clear", \/ thread'[k].pc # "clear"
                                    \/ \E x \in ThreadType : x.set = thread[k].set /\ thread' = [thread EXCEPT ![k] = x]
      PROVE  thread'[k].set = {}
  BY <1>c, <1>s, <1>f, ReplenishGoes
<1>g. ASSUME NEW pc \in ThreadPcs, Goes(k, pc), pc # "clear", thread[k].pc # "clear"
      PROVE  thread'[k].pc = pc /\ thread'[k].set = {}
  <2>1. thread'[k].pc = pc
    BY <1>g, <1>f DEF Goes, ThreadType
  <2> QED
    BY <2>1, <1>g, <1>c
<1>u. ASSUME thread[k].pc \in {"begin", "register", "failed", "backoff"}, thread'[k].set \subseteq Tracked, UNCHANGED <<proc, retained>>,
             pool.workers \subseteq pool'.workers \cup thread'[k].set
      PROVE  ThreadTouches(k) /\ ThreadKeeps(k)
  BY <1>u, <1>s, <1>t DEF ThreadTouches, ThreadKeeps
<1>1. CASE Build(k)
  <2>1. thread[k].pc = "begin" /\ retained' = retained /\ pool' = pool
    BY <1>1 DEF Build
  <2>2. CASE Ends(k) /\ UNCHANGED proc
    <3>1. thread'[k].set = {}
      BY <2>2, <1>f DEF Ends, NoThread
    <3> QED
      BY <2>1, <2>2, <3>1, <1>u
  <2>3. CASE Goes(k, "build") /\ ~Stale(k) /\ proc' = [proc EXCEPT ![k] = "starting"]
    <3>1. thread'[k].pc = "build" /\ thread'[k].set = {}
      BY <2>1, <2>3, <1>g DEF ThreadPcs
    <3> QED
      BY <1>1, <2>1, <2>3, <3>1, <1>f, <1>s, <1>t DEF ThreadTouches, ThreadKeeps
  <2> QED
    BY <1>1, <2>2, <2>3 DEF Build
<1>2. CASE BuildTimeout(k)
  <2>1. thread[k].pc = "begin" /\ UNCHANGED <<proc, retained, pool>>
    BY <1>2 DEF BuildTimeout
  <2>2. thread'[k].set = {}
    <3>1. CASE Ends(k)
      BY <3>1, <1>f DEF Ends, NoThread
    <3>2. CASE thread' = [thread EXCEPT ![k].pc = "failed", ![k].gpu = TRUE]
      BY <2>1, <3>2, <1>f, <1>s DEF ThreadType
    <3> QED
      BY <1>2, <3>1, <3>2 DEF BuildTimeout
  <2> QED
    BY <2>1, <2>2, <1>u
<1>3. CASE Built(k)
  <2>1. /\ thread[k].pc = "build" /\ proc' = [proc EXCEPT ![k] = "live"] /\ retained' = retained \cup {k}
        /\ Goes(k, "register") /\ pool' = pool
    BY <1>3 DEF Built
  <2>2. thread'[k].pc = "register" /\ thread'[k].set = {}
    BY <2>1, <1>g DEF ThreadPcs
  <2> QED
    BY <1>3, <2>1, <2>2, <1>f, <1>s, <1>t DEF ThreadTouches, ThreadKeeps
<1>4. CASE BuildFails(k)
  <2>1. PICK x \in BOOLEAN, g \in BOOLEAN :
          /\ proc' = [proc EXCEPT ![k] = IF x THEN "none" ELSE "stillborn"]
          /\ Records({k}, IF x THEN {k} ELSE {})
          /\ thread' = [thread EXCEPT ![k].pc = "failed", ![k].gpu = g]
    BY <1>4 DEF BuildFails, Failures
  <2>2. thread[k].pc = "build" /\ pool' = pool
    BY <1>4 DEF BuildFails
  <2>3. thread'[k].pc = "failed" /\ thread'[k].set = {}
    BY <2>1, <2>2, <1>f, <1>s DEF ThreadType
  <2>4. CASE x
    BY <2>1, <2>2, <2>3, <2>4, <1>f, <1>s, <1>t DEF ThreadTouches, ThreadKeeps, Records
  <2>5. CASE ~x
    BY <2>1, <2>2, <2>3, <2>5, <1>f, <1>s, <1>t DEF ThreadTouches, ThreadKeeps, Records
  <2> QED
    BY <2>4, <2>5
<1>5. CASE Register(k)
  <2>1. thread[k].pc = "register" /\ proc' = proc
    BY <1>5, <1>f, RegisterEffect
  <2>2. thread'[k].set = {}
    <3>1. thread'[k].pc = "clear" => FALSE
      <4>1. thread'[k] \in {[thread EXCEPT ![k] = NoThread][k], [thread EXCEPT ![k].pc = "discard"][k]} \/ New(k)
        BY <1>5, <1>f, RegisterEffect DEF Grown
      <4>2. ~New(k)
        BY <2>1 DEF New, Fresh
      <4> QED
        BY <4>1, <4>2, <1>f DEF NoThread, ThreadType
    <3> QED
      BY <3>1, <2>1, <1>c
  <2>3. CASE pool'.workers = pool.workers \cup {k} /\ retained' = retained \ {k}
    BY <2>1, <2>2, <2>3, <1>s, <1>t DEF ThreadTouches, ThreadKeeps
  <2>4. CASE pool'.workers = pool.workers /\ retained' = retained
    BY <2>1, <2>2, <2>4, <1>u
  <2> QED
    BY <1>5, <2>3, <2>4, <1>f, RegisterEffect
<1>6. CASE RegisterStale(k)
  <2>1. thread[k].pc = "register" /\ UNCHANGED <<proc, retained, pool>> /\ Goes(k, "discard")
    BY <1>6 DEF RegisterStale
  <2>2. thread'[k].set = {}
    BY <2>1, <1>g DEF ThreadPcs
  <2> QED
    BY <2>1, <2>2, <1>u
<1>7. CASE Discard(k)
  <2>1. thread[k].pc = "discard" /\ thread'[k].pc \notin {"begin", "build"}
    BY <1>7, <1>b DEF Discard
  <2>2. CASE Reap({k}, {k}) /\ Ends(k) /\ pool' = pool
    <3>1. thread'[k].set = {}
      BY <2>2, <1>f DEF Ends, NoThread
    <3> QED
      BY <2>1, <2>2, <3>1, <1>f, <1>s, <1>t DEF ThreadTouches, ThreadKeeps, Reap, Records
  <2>3. CASE Reap({k}, {}) /\ thread' = [thread EXCEPT ![k].pc = "clear", ![k].gpu = FALSE, ![k].set = Tracked \cup {k}]
    <3>1. thread'[k].set = Tracked \cup {k} /\ thread'[k].pc = "clear"
      BY <2>3, <1>f DEF ThreadType
    <3> QED
      BY <2>1, <2>3, <3>1, <1>f, <1>s, <1>t DEF ThreadTouches, ThreadKeeps, Reap, Records
  <2> QED
    BY <1>7, <2>2, <2>3 DEF Discard
<1>8. CASE Failed(k)
  <2>1. thread[k].pc = "failed" /\ UNCHANGED <<proc, retained>>
    BY <1>8 DEF Failed
  <2>2. CASE thread' = [thread EXCEPT ![k].pc = "clear", ![k].gpu = TRUE, ![k].set = Tracked]
    <3>1. thread'[k].set = Tracked
      BY <2>2, <1>f DEF ThreadType
    <3> QED
      BY <2>1, <3>1, <1>t, <1>u
  <2>3. CASE Ends(k) /\ pool'.workers = pool.workers
    <3>1. thread'[k].set = {}
      BY <2>3, <1>f DEF Ends, NoThread
    <3> QED
      BY <2>1, <2>3, <3>1, <1>u
  <2>4. CASE Goes(k, "backoff") /\ pool'.workers = pool.workers
    <3>1. thread'[k].set = {}
      BY <2>1, <2>4, <1>g DEF ThreadPcs
    <3> QED
      BY <2>1, <2>4, <3>1, <1>u
  <2> QED
    BY <1>8, <2>2, <2>3, <2>4, FailedEffect DEF SameLists
<1>9. CASE Clear(k)
  <2>1. thread[k].pc = "clear"
    BY <1>9 DEF Clear
  <2>2. PICK ok \in SUBSET thread[k].set :
          /\ Reap(thread[k].set, ok)
          /\ \/ Ends(k) /\ pool' = pool
             \/ thread' = [thread EXCEPT ![k].gpu = FALSE, ![k].set = (Tracked \cup thread[k].set) \ ok]
    BY <1>9, <1>f DEF Clear, ThreadType
  <2>3. /\ \A j \in Kids : proc'[j] = IF j \in ok THEN "none" ELSE proc[j]
        /\ retained' = (retained \ ok) \cup (thread[k].set \ ok)
    BY <2>2 DEF Reap, Records
  <2>4. CASE Ends(k) /\ pool' = pool
    <3>1. thread'[k].set = {}
      BY <2>4, <1>f DEF Ends, NoThread
    <3> QED
      BY <2>1, <2>3, <2>4, <3>1, <1>f, <1>t DEF ThreadTouches, ThreadKeeps
  <2>5. CASE thread' = [thread EXCEPT ![k].gpu = FALSE, ![k].set = (Tracked \cup thread[k].set) \ ok]
    <3>1. thread'[k].set = (Tracked \cup thread[k].set) \ ok
      BY <2>5, <1>f DEF ThreadType
    <3> QED
      BY <2>1, <2>3, <3>1, <1>f, <1>t DEF ThreadTouches, ThreadKeeps
  <2> QED
    BY <2>2, <2>4, <2>5
<1>10. CASE BackoffOver(k)
  <2>1. thread[k].pc = "backoff" /\ UNCHANGED <<proc, retained>> /\ pool'.workers = pool.workers
    BY <1>10, <1>f, BackoffEffect DEF BackoffOver, SameLists
  <2>2. thread'[k] = [thread EXCEPT ![k] = NoThread][k] \/ New(k)
    BY <1>10, <1>f, BackoffEffect DEF Grown
  <2>3. ~New(k)
    BY <2>1 DEF New, Fresh
  <2>4. thread'[k].set = {}
    BY <2>2, <2>3, <1>f DEF NoThread
  <2> QED
    BY <2>1, <2>4, <1>u
<1> QED
  BY <1>1, <1>2, <1>3, <1>4, <1>5, <1>6, <1>7, <1>8, <1>9, <1>10 DEF Replenish

\* The shutdown.
StopTouches ==
    /\ \A k \in Kids : proc'[k] = proc[k] \/ (proc'[k] = "none" /\ k \in stop.set \cup stop.late)
    /\ retained' \subseteq retained \cup stop.set \cup stop.late
    /\ stop'.set \cup stop'.late \subseteq Tracked \cup stop.set \cup stop.late

\* What a shutdown is at.
AtHand == (IF stop.pc = "reap" THEN stop.set ELSE {}) \cup (IF stop.pc = "late" THEN stop.late ELSE {})

StopKeeps == \A k \in Kids : proc'[k] # "none" /\ k \in Tracked \cup AtHand => k \in Tracked' \cup AtHand'

LEMMA StopHandles ==
  ASSUME Typed, Roles, Shapes, EmptyWhenDown, Stop
  PROVE  StopTouches /\ StopKeeps
<1>f. /\ stop \in StopType /\ TypeOK /\ retained \subseteq Kids /\ stop.set \subseteq Kids /\ stop.late \subseteq Kids
      /\ proc \in [Kids -> {"none", "starting", "live", "exited", "stillborn"}] /\ pool \in PoolType
  BY DEF Typed, TypeOK, StopType
<1>s. (stop.pc = "none" <=> ~pool.closing) /\ (stop.set # {} => stop.pc \in {"reap", "drain", "late"})
      /\ (stop.late # {} => stop.pc = "late")
  BY DEF Shapes
<1>t. Tracked = pool.workers \cup retained /\ pool'.workers \cup retained' \subseteq Tracked'
  BY DEF Tracked, Roles, IdleAreMembers
<1>e. pool.closing => Tracked = retained
  BY <1>t DEF EmptyWhenDown
<1>1. CASE StopBegin
  <2> DEFINE T == Tracked
  <2>1. stop.pc = "none" /\ UNCHANGED <<proc, retained>> /\ stop' = [stop EXCEPT !.pc = "reap", !.set = T]
    BY <1>1 DEF StopBegin
  <2> HIDE DEF T
  <2>2. stop'.pc = "reap" /\ stop'.set = T /\ stop'.late = stop.late
    BY <2>1, <1>f DEF StopType
  <2>3. stop.set = {} /\ stop.late = {}
    BY <2>1, <1>s
  <2> QED
    BY <2>1, <2>2, <2>3, <1>s DEF StopTouches, StopKeeps, AtHand, T
<1>2. CASE StopReap
  <2>1. PICK ok \in SUBSET stop.set, b \in BOOLEAN :
          /\ Reap(stop.set, ok) /\ stop' = [stop EXCEPT !.pc = "drain", !.bad = b]
    BY <1>2 DEF StopReap
  <2>2. stop.pc = "reap" /\ pool' = pool /\ stop.late = {}
    BY <1>2, <1>s DEF StopReap
  <2>3. stop'.pc = "drain" /\ stop'.set = stop.set /\ stop'.late = stop.late
    BY <2>1, <1>f DEF StopType
  <2>4. /\ \A k \in Kids : proc'[k] = IF k \in ok THEN "none" ELSE proc[k]
        /\ retained' = (retained \ ok) \cup (stop.set \ ok)
    BY <2>1 DEF Reap, Records
  <2>5. StopTouches
    BY <2>2, <2>3, <2>4, <1>f DEF StopTouches
  <2>6. StopKeeps
    BY <2>2, <2>3, <2>4, <1>t DEF StopKeeps, AtHand
  <2> QED
    BY <2>5, <2>6
<1>3. CASE StopDrain
  <2>1. PICK b \in BOOLEAN : stop' = [stop EXCEPT !.pc = "late", !.late = Tracked \ stop.set, !.drained = b]
    BY <1>3 DEF StopDrain, Drained
  <2> DEFINE L == Tracked \ stop.set
  <2>2. stop' = [stop EXCEPT !.pc = "late", !.late = L, !.drained = b]
    BY <2>1
  <2>3. stop.pc = "drain" /\ UNCHANGED <<proc, retained>>
    BY <1>3 DEF StopDrain
  <2>4. L \subseteq Tracked
    OBVIOUS
  <2> HIDE DEF L
  <2>5. stop'.pc = "late" /\ stop'.set = stop.set /\ stop'.late = L
    BY <2>2, <1>f DEF StopType
  <2>6. Tracked = retained
    BY <2>3, <1>e, <1>s
  <2> QED
    BY <2>3, <2>4, <2>5, <2>6, <1>t, <1>s DEF StopTouches, StopKeeps, AtHand
<1>4. CASE StopLate
  <2>1. PICK ok \in SUBSET stop.late :
          /\ Reap(stop.late, ok)
          /\ \E b : stop' = [stop EXCEPT !.pc = "done", !.set = {}, !.late = {}, !.safe = b]
    BY <1>4 DEF StopLate
  <2>2. stop.pc = "late" /\ pool'.workers = pool.workers
    BY <1>4, <1>f DEF StopLate, PoolType
  <2>3. stop'.pc = "done" /\ stop'.set = {} /\ stop'.late = {}
    BY <2>1, <1>f DEF StopType
  <2>4. /\ \A k \in Kids : proc'[k] = IF k \in ok THEN "none" ELSE proc[k]
        /\ retained' = (retained \ ok) \cup (stop.late \ ok)
    BY <2>1 DEF Reap, Records
  <2>5. StopTouches
    BY <2>2, <2>3, <2>4, <1>f DEF StopTouches
  <2>6. StopKeeps
    BY <2>2, <2>3, <2>4, <1>t DEF StopKeeps, AtHand
  <2> QED
    BY <2>5, <2>6
<1> QED
  BY <1>1, <1>2, <1>3, <1>4 DEF Stop

-----------------------------------------------------------------------------
(* Children under construction.                                            *)

LEMMA StaysUnknown ==
  ASSUME PoolInv, Next, NEW k \in Kids, Unknown(k),
         \A c \in Callers : Holds(c) => call[c].kid # k,
         \A c \in Callers : Probing(c) /\ call[c].fresh = k => Probing(c)',
         thread[k].pc \in {"none", "begin"} \/ thread'[k].pc = "build"
  PROVE  Unknown(k)'
<1>i. Typed /\ Roles /\ Shapes /\ EmptyWhenDown
  BY DEF PoolInv
<1>u. /\ k \notin Tracked /\ k \notin pool.workers /\ k \notin retained
      /\ \A c \in Callers : k \notin call[c].set
      /\ \A j \in Kids : k \notin thread[j].set
      /\ k \notin stop.set \cup stop.late
  BY DEF Unknown, Tracked
<1>1. \A j \in Kids : k \notin thread'[j].set
  <2>1. ASSUME NEW j \in Kids
        PROVE  k \notin thread'[j].set
    <3>1. CASE Moves(j)
      <4>1. ThreadTouches(j)
        BY <3>1, <1>i, ThreadHandles DEF Moves
      <4> QED
        BY <4>1, <1>u DEF ThreadTouches
    <3> QED
      BY <3>1, <1>u, <1>i, ThreadGoes DEF Begins
  <2> QED
    BY <2>1
<1>2. k \notin pool'.workers /\ pool'.idle \cup pool'.busy \subseteq pool'.workers
  <2>1. ~Joins(k)
    <3>1. \A c \in Callers : call[c].pc = "probe" /\ call[c].fresh = k => call'[c].pc # "return"
      BY DEF Probing
    <3> QED
      BY <3>1 DEF Joins
  <2> QED
    BY <2>1, <1>i, <1>u, ListsGrow
<1>3. ASSUME k \notin retained'
      PROVE  k \notin Tracked'
  BY <1>2, <1>3 DEF Tracked
<1>4. ASSUME NEW c \in Callers, ByTask(c)
      PROVE  Unknown(k)'
  <2>1. Touches(c) /\ Carries(c) /\ \A d \in Callers \ {c} : call'[d] = call[d]
    BY <1>4, <1>i, TaskTouches DEF ByTask
  <2>2. k \notin call'[c].set
    <3>1. CASE Probing(c) /\ k = call[c].fresh
      BY <3>1, <2>1 DEF Carries, Probing
    <3> QED
      BY <3>1, <2>1, <1>u DEF Carries
  <2>3. k \notin retained'
    BY <2>1, <1>u DEF Touches
  <2>4. stop' = stop
    BY <2>1 DEF Carries
  <2> QED
    BY <2>1, <2>2, <2>3, <2>4, <1>1, <1>3, <1>u DEF Unknown
<1>5. ASSUME NEW j \in Kids, ByThread(j)
      PROVE  Unknown(k)'
  <2>1. ThreadTouches(j) /\ UNCHANGED <<call, stop>>
    BY <1>5, <1>i, ThreadHandles DEF ByThread
  <2>2. k \notin retained'
    BY <2>1, <1>u DEF ThreadTouches
  <2> QED
    BY <2>1, <2>2, <1>1, <1>3, <1>u DEF Unknown
<1>6. ASSUME NEW j \in Kids, Exits(j)
      PROVE  Unknown(k)'
  BY <1>6, <1>u DEF Exits, Unknown, Tracked
<1>7. CASE Stop
  <2>1. StopTouches /\ call' = call
    BY <1>7, <1>i, StopHandles, StopGoes
  <2>2. k \notin retained' /\ k \notin stop'.set \cup stop'.late
    BY <2>1, <1>u DEF StopTouches
  <2> QED
    BY <2>1, <2>2, <1>1, <1>3, <1>u DEF Unknown
<1> QED
  BY <1>4, <1>5, <1>6, <1>7, StepCases

\* The steps of a recovery.
LEMMA RecoveryGoes ==
  ASSUME Typed, NEW c \in Callers, Task(c), Recovering(c)
  PROVE  \/ Contain(c) /\ call'[c].pc = "drain"
         \/ Probe(c) /\ call'[c].pc = "probe"
         \/ Probed(c) /\ call'[c].pc = "discard"
         \/ call'[c].pc \in {"return", "join", "containRest"}
<1>f. call \in [Callers -> CallType] /\ call[c] \in CallType
  BY DEF Typed, TypeOK
<1>r. ASSUME NEW out, call' = [call EXCEPT ![c] = [IdleCall EXCEPT !.pc = "return", !.kid = call[c].kid, !.out = out]]
      PROVE  call'[c].pc = "return"
  BY <1>r, <1>f DEF IdleCall
<1>u. ASSUME NEW S, call' = [call EXCEPT ![c] = [call[c] EXCEPT !.pc = "containRest", !.set = S]]
      PROVE  call'[c].pc = "containRest"
  BY <1>u, <1>f DEF CallType
<1>j. ASSUME Recovered(c, pool, tickets)
      PROVE  call'[c].pc \in {"return", "join"}
  <2>1. CASE call' = [call EXCEPT ![c] = [call[c] EXCEPT !.pc = "join", !.set = {}, !.fresh = None]]
    BY <2>1, <1>f DEF CallType
  <2> QED
    BY <2>1, <1>j, <1>r, RecoveredEffect
<1>1. CASE call[c].pc = "contain"
  <2>1. CASE Contain(c)
    <3>1. call' = [call EXCEPT ![c] = [call[c] EXCEPT !.pc = "drain", !.set = {}]]
      BY <2>1 DEF Contain, Calls
    <3>2. call'[c].pc = "drain"
      BY <3>1, <1>f DEF CallType
    <3> QED
      BY <2>1, <3>2
  <2>2. CASE ContainUnproven(c)
    BY <2>2, <1>r, ContainUnprovenEffect
  <2> QED
    BY <1>1, <2>1, <2>2, TaskAt
<1>2. CASE call[c].pc = "drain"
  <2>1. CASE Probe(c)
    <3>1. ASSUME NEW m, call' = [call EXCEPT ![c] = [call[c] EXCEPT !.pc = "probe", !.fresh = m]]
          PROVE  call'[c].pc = "probe"
      BY <3>1, <1>f DEF CallType
    <3> QED
      BY <2>1, <3>1, <1>j DEF Probe, Calls
  <2>2. CASE DrainTimeout(c)
    BY <2>2, <1>u DEF DrainTimeout, Calls
  <2> QED
    BY <1>2, <2>1, <2>2, TaskAt
<1>3. CASE call[c].pc = "probe"
  <2>1. CASE Probed(c)
    <3>1. ASSUME call' = [call EXCEPT ![c] = [call[c] EXCEPT !.pc = "discard"]]
          PROVE  call'[c].pc = "discard"
      BY <3>1, <1>f DEF CallType
    <3> QED
      BY <2>1, <3>1, <1>r DEF Probed, Calls, Leave
  <2>2. CASE ProbeFails(c)
    BY <2>2, <1>j DEF ProbeFails
  <2>3. CASE ProbeUnproven(c)
    BY <2>3, <1>u DEF ProbeUnproven, Calls
  <2> QED
    BY <1>3, <2>1, <2>2, <2>3, TaskAt
<1>4. CASE call[c].pc = "discard"
  <2>1. DiscardProbe(c)
    BY <1>4, TaskAt
  <2> QED
    BY <2>1, <1>j, <1>u DEF DiscardProbe, Calls
<1>5. CASE call[c].pc = "containRest"
  <2>1. ContainRest(c)
    BY <1>5, TaskAt
  <2> QED
    BY <2>1, <1>r DEF ContainRest, Leave, Calls
<1> QED
  BY <1>1, <1>2, <1>3, <1>4, <1>5 DEF Recovering

\* A fresh context is opened by its own step.
LEMMA ProbeGoes ==
  ASSUME Typed, Shapes, Next, NEW c \in Callers, call'[c].pc = "probe"
  PROVE  Probe(c) \/ (call[c].pc = "probe" /\ call'[c] = call[c])
<1>1. CASE call'[c] = call[c]
  BY <1>1
<1>2. CASE Task(c)
  <2>1. Probe(c) \/ Probing(c)
    <3>1. Probing(c)'
      BY DEF Probing
    <3> QED
      BY <3>1, <1>2, TaskKeeps DEF Kept
  <2>2. Probing(c) => Recovering(c)
    BY DEF Probing, Recovering
  <2> QED
    BY <2>1, <2>2, <1>2, RecoveryGoes
<1> QED
  BY <1>1, <1>2, CallsGo

LEMMA NewIsUnknownKept ==
  ASSUME PoolInv, Next
  PROVE  NewIsUnknown'
<1>i. Typed /\ Roles /\ Shapes /\ NewIsUnknown
  BY DEF PoolInv
<1>k. \A c \in Callers : Probing(c) => call[c].fresh \in Kids
  BY <1>i DEF Typed, HandsFull
<1>1. ASSUME NEW k \in Kids, thread'[k].pc \in {"begin", "build"}
      PROVE  Unknown(k)'
  <2>1. CASE Begins(k)
    <3>1. k \in Fresh
      BY <2>1 DEF Begins
    <3>2. /\ thread[k].pc = "none" /\ Unknown(k)
          /\ \A c \in Callers : call[c].kid # k /\ call[c].fresh # k
      BY <3>1, FreshIs
    <3> QED
      BY <3>2, StaysUnknown
  <2>2. CASE ~Begins(k)
    <3>1. thread[k].pc \in {"begin", "build"} /\ (thread[k].pc = "build" => thread'[k].pc = "build")
      <4>1. CASE Moves(k)
        BY <4>1, <1>1 DEF Moves, Build
      <4> QED
        BY <4>1, <1>1, <2>2, <1>i, ThreadGoes
    <3>2. Unknown(k)
      BY <3>1, <1>i DEF NewIsUnknown
    <3>3. \A c \in Callers : (Holds(c) => call[c].kid # k) /\ (Probing(c) => call[c].fresh # k)
      BY <3>1, <1>i DEF Roles, MadeOnce, ProbedOnce
    <3> QED
      BY <3>1, <3>2, <3>3, StaysUnknown
  <2> QED
    BY <2>1, <2>2
<1>2. ASSUME NEW c \in Callers, call'[c].pc = "probe"
      PROVE  Unknown(call[c].fresh)'
  <2>n. PICK n : n = call'[c].fresh
    OBVIOUS
  <2>p. Probing(c)'
    BY <1>2 DEF Probing
  <2>1. CASE Probe(c)
    <3>1. n \in Fresh
      BY <2>1, <2>n, <2>p, <1>i, ProbeOpens
    <3>2. /\ n \in Kids /\ thread[n].pc = "none" /\ Unknown(n)
          /\ \A d \in Callers : call[d].kid # n /\ call[d].fresh # n
      BY <3>1, FreshIs
    <3>3. Unknown(n)'
      BY <3>2, StaysUnknown
    <3> QED
      BY <3>3, <2>n DEF Unknown, Tracked
  <2>2. CASE call[c].pc = "probe" /\ call'[c] = call[c]
    <3>1. Probing(c) /\ n = call[c].fresh /\ n \in Kids /\ Unknown(n)
      BY <2>2, <2>n, <1>k, <1>i DEF Probing, NewIsUnknown
    <3>2. thread[n].pc = "none" /\ \A d \in Callers : Holds(d) => call[d].kid # n
      BY <3>1, <1>i DEF Roles, ProbedOnce
    <3>3. \A d \in Callers : Probing(d) => d = c
      BY <3>1, <1>i, OneRecovers DEF Probing, Recovering
    <3>4. Unknown(n)'
      BY <3>1, <3>2, <3>3, <2>p, StaysUnknown
    <3> QED
      BY <3>4, <2>n DEF Unknown, Tracked
  <2> QED
    BY <2>1, <2>2, <1>2, <1>i, ProbeGoes
<1> QED
  BY <1>1, <1>2 DEF NewIsUnknown

\* Who changes what a child is.
ProcBy(k) ==
    \/ proc'[k] = proc[k]
    \/ proc[k] = "live" /\ proc'[k] = "exited"
    \/ \E c \in Callers :
         \/ Probe(c) /\ Probing(c)' /\ k = call'[c].fresh
         \/ Probing(c) /\ k = call[c].fresh /\ (call[c].pc = "probe" \/ proc'[k] = "none")
         \/ proc'[k] = "none" /\ (k \in call[c].set \/ (Holds(c) /\ k = call[c].kid))
    \/ Build(k) /\ ~Stale(k) /\ thread'[k].pc = "build" /\ proc'[k] = "starting"
    \/ thread[k].pc = "build" /\ thread'[k].pc # "build" /\ proc'[k] \in {"none", "stillborn"}
    \/ thread[k].pc = "build" /\ thread'[k].pc = "register" /\ proc'[k] = "live"
    \/ thread[k].pc = "discard" /\ proc'[k] = "none"
    \/ proc'[k] = "none" /\ (k \in stop.set \cup stop.late \/ \E j \in Kids : k \in thread[j].set)

LEMMA ProcGoes ==
  ASSUME PoolInv, Next, NEW k \in Kids
  PROVE  ProcBy(k)
<1>i. Typed /\ Roles /\ Shapes /\ EmptyWhenDown
  BY DEF PoolInv
<1>1. ASSUME NEW c \in Callers, ByTask(c)
      PROVE  ProcBy(k)
  BY <1>1, <1>i, TaskTouches DEF ByTask, Touches, ProcBy
<1>2. ASSUME NEW j \in Kids, ByThread(j)
      PROVE  ProcBy(k)
  <2>1. ThreadTouches(j) /\ Moves(j)
    BY <1>2, <1>i, ThreadHandles DEF ByThread
  <2>2. CASE j # k
    BY <2>1, <2>2 DEF ThreadTouches, ProcBy
  <2>3. CASE j = k
    <3>1. thread[k].pc = "build" => thread'[k].pc # "build"
      BY <2>1, <2>3 DEF Moves, Build
    <3>2. Built(k) => thread[k].pc = "build" /\ thread'[k].pc = "register"
      <4>1. ASSUME Built(k)
            PROVE  thread[k].pc = "build" /\ thread'[k].pc = "register"
        <5>1. thread' = [thread EXCEPT ![k].pc = "register"] /\ thread[k].pc = "build" /\ thread \in [Kids -> ThreadType]
          BY <4>1, <1>i DEF Built, Goes, Typed, TypeOK
        <5> QED
          BY <5>1 DEF ThreadType
      <4> QED
        BY <4>1
    <3> QED
      BY <2>1, <2>3, <3>1, <3>2 DEF ThreadTouches, ProcBy
  <2> QED
    BY <2>2, <2>3
<1>3. ASSUME NEW j \in Kids, Exits(j)
      PROVE  ProcBy(k)
  BY <1>3, <1>i DEF Exits, ProcBy, Typed, TypeOK
<1>4. CASE Stop
  BY <1>4, <1>i, StopHandles DEF StopTouches, ProcBy
<1> QED
  BY <1>1, <1>2, <1>3, <1>4, StepCases

LEMMA NewIsStartingKept ==
  ASSUME PoolInv, Next
  PROVE  NewIsStarting'
<1>i. Typed /\ Roles /\ Shapes /\ NewIsUnknown /\ NewIsStarting
  BY DEF PoolInv
<1>1. SUFFICES ASSUME NEW k \in Kids, thread'[k].pc = "build"
               PROVE  proc'[k] = "starting"
  BY DEF NewIsStarting
<1>2. CASE thread'[k] = thread[k]
  <2>1. proc[k] = "starting" /\ Unknown(k) /\ thread[k].pc = "build"
    BY <1>1, <1>2, <1>i DEF NewIsStarting, NewIsUnknown
  <2>2. \A c \in Callers : (Holds(c) => call[c].kid # k) /\ (Probing(c) => call[c].fresh # k)
    BY <2>1, <1>i DEF Roles, MadeOnce, ProbedOnce
  <2>3. \A c \in Callers : Probe(c) /\ Probing(c)' => call'[c].fresh # k
    <3>1. ASSUME NEW c \in Callers, Probe(c), Probing(c)'
          PROVE  call'[c].fresh \in Fresh
      BY <3>1, <1>i, ProbeOpens
    <3> QED
      BY <3>1, <2>1 DEF Fresh
  <2> QED
    BY <1>1, <2>1, <2>2, <2>3, ProcGoes DEF ProcBy, Unknown
<1>3. CASE Moves(k)
  <2>1. Build(k) /\ ~Stale(k)
    BY <1>1, <1>3 DEF Moves
  <2>2. Ends(k) => thread'[k].pc = "none"
    BY <1>i DEF Ends, NoThread, Typed, TypeOK
  <2>3. proc' = [proc EXCEPT ![k] = "starting"]
    BY <1>1, <2>1, <2>2 DEF Build
  <2> QED
    BY <2>3, <1>i DEF Typed, TypeOK
<1>4. CASE Begins(k)
  BY <1>1, <1>4 DEF Begins
<1> QED
  BY <1>2, <1>3, <1>4, <1>i, ThreadGoes

-----------------------------------------------------------------------------
(* Faults and their containment.                                           *)

\* A child that is gone comes back in three ways.
LEMMA ComesBack ==
  ASSUME PoolInv, Next, NEW k \in Kids, proc[k] = "none", proc'[k] # "none"
  PROVE  \/ Build(k) /\ ~Stale(k) /\ thread'[k].pc = "build" /\ proc'[k] = "starting"
         \/ \E c \in Callers : Probe(c) /\ Probing(c)' /\ k = call'[c].fresh
         \/ \E c \in Callers : call[c].pc = "probe" /\ k = call[c].fresh
<1>1. thread[k].pc # "build"
  BY DEF PoolInv, NewIsStarting
<1> QED
  BY <1>1, ProcGoes DEF ProcBy

LEMMA HeldStaysGone ==
  ASSUME PoolInv, Next, NEW c \in Callers, Holds(c), proc[call[c].kid] = "none"
  PROVE  proc'[call[c].kid] = "none"
<1>i. Typed /\ Roles
  BY DEF PoolInv
<1>1. call[c].kid \in Kids
  BY <1>i DEF Typed, HandsFull
<1>2. thread[call[c].kid].pc = "none" /\ \A d \in Callers : Probing(d) => call[d].fresh # call[c].kid
  BY <1>1, <1>i DEF Roles, MadeOnce, ProbedOnce
<1>3. ASSUME NEW d \in Callers, Probe(d), Probing(d)'
      PROVE  call'[d].fresh # call[c].kid
  <2>1. call'[d].fresh \in Fresh
    BY <1>3, <1>i, ProbeOpens
  <2> QED
    BY <2>1, FreshIs
<1> QED
  BY <1>1, <1>2, <1>3, ComesBack DEF Build, Probing

\* Who ends a task with an ordinary outcome.
LEMMA ContainedBy ==
  ASSUME Typed, NEW c \in Callers, Task(c), call'[c].pc = "return", call'[c].out = "contained"
  PROVE  Retire(c) \/ RecoverEnter(c) \/ call[c].pc \in {"drain", "probe", "discard"}
<1>f. call \in [Callers -> CallType] /\ call[c] \in CallType /\ TypeOK
  BY DEF Typed, TypeOK
<1>i. ASSUME call' = [call EXCEPT ![c] = IdleCall]
      PROVE  FALSE
  BY <1>i, <1>f DEF IdleCall
<1>o. ASSUME NEW out, out # "contained",
             call' = [call EXCEPT ![c] = [IdleCall EXCEPT !.pc = "return", !.kid = call[c].kid, !.out = out]]
      PROVE  FALSE
  BY <1>o, <1>f DEF IdleCall
<1>1. CASE DetachDead(c)
  <2>1. call'[c] = [IdleCall EXCEPT !.pc = "reap", !.gen = pool.gen, !.set = Dead, !.num = Cardinality(Dead)]
    BY <1>1, <1>f, DetachEffect
  <2> QED
    BY <2>1 DEF IdleCall
<1>2. CASE Dispatch(c)
  BY <1>2, <1>f, DispatchTakes
<1>3. CASE ReapDead(c)
  BY <1>3, <1>i, ReapedEffect
<1>4. CASE ReapDeadUnproven(c)
  <2>1. \E S : call' = [call EXCEPT ![c] = [call[c] EXCEPT !.pc = "reapRest", !.set = S]]
    BY <1>4 DEF ReapDeadUnproven, Calls
  <2> QED
    BY <2>1, <1>f DEF CallType
<1>5. CASE ReapRest(c)
  BY <1>5, <1>i, ReapedEffect
<1>6. CASE Finish(c)
  BY <1>6, <1>o DEF Finish, Leave, Calls
<1>7. CASE FinishRetiring(c)
  <2>1. call' = [call EXCEPT ![c] = [call[c] EXCEPT !.pc = "restart", !.val = FALSE]]
    BY <1>7 DEF FinishRetiring, Calls
  <2> QED
    BY <2>1, <1>f DEF CallType
<1>8. CASE ContextFault(c)
  <2>1. call' = [call EXCEPT ![c] = [call[c] EXCEPT !.pc = "validate"]]
    BY <1>8 DEF ContextFault, Calls
  <2> QED
    BY <2>1, <1>f DEF CallType
<1>9. CASE Abandon(c)
  <2>1. call' = [call EXCEPT ![c] = [call[c] EXCEPT !.pc = "recover"]]
    BY <1>9 DEF Abandon, Calls
  <2> QED
    BY <2>1, <1>f DEF CallType
<1>10. CASE Crashed(c)
  <2>1. call' = [call EXCEPT ![c] = [call[c] EXCEPT !.pc = "recover"]]
    BY <1>10 DEF Crashed, Calls
  <2> QED
    BY <2>1, <1>f DEF CallType
<1>11. CASE Return(c)
  BY <1>11, <1>i, <1>f, ReturnEffect
<1>12. CASE BeginValidation(c)
  <2>1. call' = [call EXCEPT ![c] = [call[c] EXCEPT !.pc = "restart", !.val = TRUE, !.gen = pool.gen + 1]]
    BY <1>12, BeginValidationEffect
  <2> QED
    BY <2>1, <1>f DEF CallType
<1>13. CASE Escalate(c)
  <2>1. call' = [call EXCEPT ![c] = [call[c] EXCEPT !.pc = "recover"]]
    BY <1>13 DEF Escalate, Calls
  <2> QED
    BY <2>1, <1>f DEF CallType
<1>14. CASE BeginRestart(c)
  <2>1. \E fill \in BOOLEAN : call' = [call EXCEPT ![c] = [call[c] EXCEPT !.pc = "retire", !.fill = fill, !.num = pool.gen]]
    BY <1>14, BeginRestartEffect
  <2> QED
    BY <2>1, <1>f DEF CallType
<1>15. CASE Retire(c)
  BY <1>15
<1>16. CASE RetireUnproven(c)
  <2>1. call' = [call EXCEPT ![c] = [call[c] EXCEPT !.pc = "retireRest", !.set = Tracked \cup {call[c].kid}]]
    BY <1>16 DEF RetireUnproven, Calls
  <2> QED
    BY <2>1, <1>f DEF CallType
<1>17. CASE RetireRest(c)
  BY <1>17, <1>o, RetireRestEffect
<1>18. CASE RecoverEnter(c)
  BY <1>18
<1>19. CASE Contain(c)
  <2>1. call' = [call EXCEPT ![c] = [call[c] EXCEPT !.pc = "drain", !.set = {}]]
    BY <1>19 DEF Contain, Calls
  <2> QED
    BY <2>1, <1>f DEF CallType
<1>20. CASE ContainUnproven(c)
  BY <1>20, <1>o, ContainUnprovenEffect
<1>21. CASE Probe(c)
  BY <1>21 DEF Probe
<1>22. CASE DrainTimeout(c)
  BY <1>22 DEF DrainTimeout
<1>23. CASE ContainRest(c)
  BY <1>23, <1>o DEF ContainRest, Leave, Calls
<1>24. CASE Probed(c)
  BY <1>24 DEF Probed
<1>25. CASE ProbeFails(c)
  BY <1>25 DEF ProbeFails
<1>26. CASE ProbeUnproven(c)
  BY <1>26 DEF ProbeUnproven
<1>27. CASE DiscardProbe(c)
  BY <1>27 DEF DiscardProbe
<1>28. CASE Join(c)
  BY <1>28, <1>o DEF Join, Leave, Calls
<1> QED
  BY <1>1, <1>2, <1>3, <1>4, <1>5, <1>6, <1>7, <1>8, <1>9, <1>10, <1>11, <1>12, <1>13, <1>14, <1>15, <1>16, <1>17, <1>18, <1>19, <1>20, <1>21, <1>22, <1>23, <1>24, <1>25, <1>26, <1>27, <1>28 DEF Task

\* What a coroutine that contains a fault has to shut down stays in its hands until it is gone,
\* or nothing is open any more.
LEMMA ContainGoes ==
  ASSUME PoolInv, Next, NEW d \in Callers, call[d].pc = "contain"
  PROVE  \/ call'[d] = call[d]
         \/ Contain(d) /\ call'[d].pc = "drain" /\ call'[d].gen = call[d].gen /\ \A k \in call[d].set : k \in Kids => proc'[k] = "none"
         \/ ~Open' /\ call'[d].pc = "return"
<1>i. Typed /\ Shapes /\ RecoveryOK /\ QuarantineIsOld
  BY DEF PoolInv
<1>f. call \in [Callers -> CallType] /\ call[d] \in CallType /\ proc \in [Kids -> {"none", "starting", "live", "exited", "stillborn"}]
  BY <1>i DEF Typed, TypeOK
<1>1. CASE Contain(d)
  <2>1. call' = [call EXCEPT ![d] = [call[d] EXCEPT !.pc = "drain", !.set = {}]] /\ Reap(call[d].set, call[d].set)
    BY <1>1 DEF Contain, Calls
  <2>2. call'[d].pc = "drain" /\ call'[d].gen = call[d].gen
    BY <2>1, <1>f DEF CallType
  <2>3. \A k \in call[d].set : k \in Kids => proc'[k] = "none"
    BY <2>1 DEF Reap
  <2> QED
    BY <1>1, <2>2, <2>3
<1>2. CASE ContainUnproven(d)
  <2>1. call'[d].pc = "return"
    <3>1. call' = [call EXCEPT ![d] = [IdleCall EXCEPT !.pc = "return", !.kid = call[d].kid, !.out = "unsafe"]]
      BY <1>2, <1>i, ContainUnprovenEffect
    <3> QED
      BY <3>1, <1>f DEF IdleCall
  <2>2. ASSUME Open'
        PROVE  FALSE
    <3>1. Open
      BY <2>2, <1>i, EraKept DEF Open
    <3>2. Current(d)
      BY <3>1, <1>i DEF RecoveryOK, Recovering, Current, Open
    <3> QED
      BY <1>2, <1>i, <2>2, <3>2, ContainUnprovenEffect DEF Open
  <2> QED
    BY <2>1, <2>2
<1> QED
  BY <1>1, <1>2, <1>i, CallsGo, TaskAt

LEMMA ToContain ==
  ASSUME Typed, Shapes, Next, NEW c \in Callers, call'[c].pc = "contain"
  PROVE  call'[c] = call[c] \/ RecoverEnter(c)
<1>1. CASE Task(c)
  <2>1. RecoverEnter(c) \/ Recovering(c)
    <3>1. Recovering(c)'
      BY DEF Recovering
    <3> QED
      BY <3>1, HandsGo
  <2> QED
    BY <1>1, <2>1, RecoveryGoes
<1> QED
  BY <1>1, CallsGo

LEMMA FaultsKept ==
  ASSUME PoolInv, Next
  PROVE  FaultsOK'
<1>i. /\ Typed /\ Roles /\ Shapes /\ EpochsOK /\ FaultsOK /\ RecoveryOK /\ QuarantineIsOld
      /\ call \in [Callers -> CallType] /\ proc \in [Kids -> {"none", "starting", "live", "exited", "stillborn"}]
  BY DEF PoolInv, Typed, TypeOK
<1>k. \A c \in Callers : Holds(c) => call[c].kid \in Kids
  BY <1>i DEF Typed, HandsFull
<1>o. /\ \A c \in Callers : Serving(c) /\ Open /\ call[c].epoch # pool.epoch =>
           \/ proc[call[c].kid] = "none"
           \/ \E d \in Callers : call[d].pc = "contain" /\ call[c].kid \in call[d].set
      /\ \A c \in Callers : call[c].pc = "contain" => call[c].kid \in call[c].set
      /\ \A c \in Callers : call[c].pc \in {"drain", "probe", "discard"} => proc[call[c].kid] = "none"
      /\ \A c \in Callers : call[c].pc = "return" /\ call[c].out = "contained" =>
           proc[call[c].kid] = "none" \/ pool.health = "quarantined"
  BY <1>i DEF FaultsOK
<1>e. ASSUME NEW d \in Callers, RecoverEnter(d)
      PROVE  \/ call'[d].pc # "contain" /\ pool'.epoch = pool.epoch
             \/ call'[d].pc = "contain" /\ call'[d].set = Tracked \cup {call[d].kid} /\ call'[d].kid = call[d].kid
  <2>1. CASE call' = [call EXCEPT ![d] = [call[d] EXCEPT !.pc = "join"]] /\ pool' = pool
    BY <2>1, <1>i DEF CallType
  <2>2. CASE pool' = pool /\ \E out : call' = [call EXCEPT ![d] = [IdleCall EXCEPT !.pc = "return", !.kid = call[d].kid, !.out = out]]
    <3>1. call'[d].pc = "return"
      BY <2>2, <1>i DEF IdleCall
    <3> QED
      BY <2>2, <3>1
  <2>3. CASE call' = [call EXCEPT ![d] = [call[d] EXCEPT !.pc = "contain", !.gen = pool.gen + 1,
                                                         !.set = Tracked \cup {call[d].kid}]]
    <3> DEFINE S == Tracked \cup {call[d].kid}
               g == pool.gen + 1
    <3>1. call' = [call EXCEPT ![d] = [call[d] EXCEPT !.pc = "contain", !.gen = g, !.set = S]]
      BY <2>3
    <3> HIDE DEF S, g
    <3>2. call'[d].pc = "contain" /\ call'[d].set = S /\ call'[d].kid = call[d].kid
      BY <3>1, <1>i DEF CallType
    <3> QED
      BY <3>2 DEF S
  <2> QED
    BY <1>e, <1>i, <2>1, <2>2, <2>3, RecoverEnterEffect
<1>1. ASSUME NEW c \in Callers, Serving(c)', Open', call'[c].epoch # pool'.epoch
      PROVE  \/ proc'[call'[c].kid] = "none"
             \/ \E d \in Callers : call'[d].pc = "contain" /\ call'[c].kid \in call'[d].set
  <2>1. ~Dispatch(c)
    BY <1>1, <1>i, DispatchTakes
  <2>2. Serving(c) /\ Holds(c) /\ call'[c].epoch = call[c].epoch /\ call'[c].kid = call[c].kid
    <3>1. Holds(c)'
      BY <1>1 DEF Serving, Holds
    <3> QED
      BY <1>1, <1>i, <2>1, <3>1, HandsGo
  <2>3. Open
    BY <1>1, <1>i, EraKept DEF Open
  <2>4. CASE call[c].epoch = pool.epoch
    <3>1. call[c].kid \in Tracked
      BY <2>2, <2>3, <2>4, <1>i DEF EpochsOK, Tracked
    <3>2. pool'.epoch # pool.epoch
      BY <1>1, <2>2, <2>4
    <3>3. EraGoes /\ pool'.health # "quarantined"
      BY <1>1, <1>i, PoolGoes DEF Open
    <3>4. \A d \in Callers : ~BeginValidation(d)
      BY <3>2, <1>i, BeginValidationEffect
    <3>5. PICK d \in Callers : RecoverEnter(d)
      BY <3>2, <3>3, <3>4 DEF EraGoes, Turned, SameTime, Downed
    <3>6. call'[d].pc = "contain" /\ call'[d].set = Tracked \cup {call[d].kid}
      BY <3>2, <3>5, <1>e
    <3> QED
      BY <2>2, <3>1, <3>6
  <2>5. CASE call[c].epoch # pool.epoch
    <3>1. CASE proc[call[c].kid] = "none"
      BY <2>2, <3>1, HeldStaysGone
    <3>2. ASSUME NEW d \in Callers, call[d].pc = "contain", call[c].kid \in call[d].set
          PROVE  proc'[call[c].kid] = "none" \/ (call'[d].pc = "contain" /\ call[c].kid \in call'[d].set)
      BY <3>2, <1>1, <1>k, <2>2, ContainGoes
    <3> QED
      BY <2>2, <2>3, <2>5, <3>1, <3>2, <1>o
  <2> QED
    BY <2>4, <2>5
<1>2. ASSUME NEW c \in Callers, call'[c].pc = "contain"
      PROVE  call'[c].kid \in call'[c].set
  BY <1>2, <1>e, <1>i, <1>o, ToContain
<1>3. ASSUME NEW c \in Callers, call'[c].pc \in {"drain", "probe", "discard"}
      PROVE  proc'[call'[c].kid] = "none"
  <2>1. Recovering(c)' /\ Holds(c)'
    BY <1>3 DEF Recovering, Holds
  <2>2. ~RecoverEnter(c)
    <3>1. ASSUME RecoverEnter(c)
          PROVE  FALSE
      <4>1. CASE call' = [call EXCEPT ![c] = [call[c] EXCEPT !.pc = "join"]]
        BY <4>1, <1>3, <1>i DEF CallType
      <4>2. CASE \E out : call' = [call EXCEPT ![c] = [IdleCall EXCEPT !.pc = "return", !.kid = call[c].kid, !.out = out]]
        BY <4>2, <1>3, <1>i DEF IdleCall
      <4>3. CASE call' = [call EXCEPT ![c] = [call[c] EXCEPT !.pc = "contain", !.gen = pool.gen + 1,
                                                         !.set = Tracked \cup {call[c].kid}]]
        BY <4>3, <1>3, <1>i DEF CallType
      <4> QED
        BY <3>1, <1>i, <4>1, <4>2, <4>3, RecoverEnterEffect
    <3> QED
      BY <3>1
  <2>3. Recovering(c)
    BY <2>1, <2>2, <1>i, HandsGo
  <2>4. Holds(c) /\ call'[c].kid = call[c].kid
    BY <2>1, <2>3, <1>i, HandsGo DEF Recovering, Dispatch, Searching
  <2>5. CASE call[c].pc \in {"drain", "probe", "discard"}
    BY <2>4, <2>5, <1>o, HeldStaysGone
  <2>6. CASE call[c].pc = "contain"
    <3>1. call[c].kid \in call[c].set
      BY <2>6, <1>o
    <3>2. call'[c] # call[c] /\ call'[c].pc # "return"
      BY <1>3, <2>6
    <3> QED
      BY <2>4, <2>6, <3>1, <3>2, <1>k, ContainGoes
  <2>7. CASE call[c].pc = "containRest"
    <3>1. call'[c] # call[c]
      BY <1>3, <2>7
    <3>2. Task(c)
      BY <3>1, <1>i, CallsGo
    <3> QED
      BY <1>3, <2>3, <2>7, <3>2, <1>i, RecoveryGoes DEF Contain, Probe, Probed
  <2> QED
    BY <2>3, <2>5, <2>6, <2>7 DEF Recovering
<1>4. ASSUME NEW c \in Callers, call'[c].pc = "return", call'[c].out = "contained"
      PROVE  proc'[call'[c].kid] = "none" \/ pool'.health = "quarantined"
  <2>1. Holds(c) /\ call'[c].kid = call[c].kid
    <3>1. Holds(c)'
      BY <1>4 DEF Holds
    <3>2. ~Dispatch(c)
      BY <1>4, <1>i, DispatchTakes
    <3> QED
      BY <3>1, <3>2, <1>i, HandsGo
  <2>2. pool.health = "quarantined" => pool'.health = "quarantined"
    BY <1>i, EraKept
  <2>3. CASE proc[call[c].kid] = "none" \/ pool.health = "quarantined"
    BY <2>1, <2>2, <2>3, HeldStaysGone
  <2>4. CASE call'[c] = call[c]
    BY <2>3, <2>4, <1>4, <1>o
  <2>5. CASE call[c].pc \in {"drain", "probe", "discard"}
    BY <2>3, <2>5, <1>o
  <2>6. CASE Retire(c)
    BY <2>1, <2>6, <1>i, <1>k DEF Retire, Reap
  <2>7. CASE RecoverEnter(c)
    <3>1. /\ rlock = None /\ ~pool.closing /\ call[c].pc = "recover"
          /\ pool.health = "quarantined" \/ call[c].epoch # pool.epoch
      <4>1. ASSUME NEW r, call' = [call EXCEPT ![c] = r]
            PROVE  r.pc = "return"
        BY <4>1, <1>4, <1>i
      <4>2. [call[c] EXCEPT !.pc = "join"].pc = "join"
        BY <1>i DEF CallType
      <4>3. [call[c] EXCEPT !.pc = "contain", !.gen = pool.gen + 1, !.set = Tracked \cup {call[c].kid}].pc = "contain"
        BY <1>i DEF CallType
      <4> QED
        BY <2>7, <1>i, <4>1, <4>2, <4>3, RecoverEnterEffect
    <3>2. CASE pool.health # "quarantined" /\ call[c].epoch # pool.epoch
      <4>1. Serving(c) /\ Open
        BY <3>1, <3>2 DEF Serving, Open
      <4>2. ASSUME NEW d \in Callers, call[d].pc = "contain"
            PROVE  FALSE
        BY <4>2, <3>1, <1>i, PoolAssumption DEF Shapes, Recovering
      <4> QED
        BY <4>1, <4>2, <3>2, <1>o, <2>3
    <3> QED
      BY <3>1, <3>2, <2>3
  <2> QED
    BY <2>4, <2>5, <2>6, <2>7, <1>4, <1>i, CallsGo, ContainedBy
<1> QED
  BY <1>1, <1>2, <1>3, <1>4 DEF FaultsOK

\* Beside a recovery nothing is started.
LEMMA NothingStarts ==
  ASSUME PoolInv, Next, NEW c \in Callers, Recovering(c), NEW k \in Kids, ~Runs(k),
         Probing(c) => k # call[c].fresh, Probing(c)' => k # call'[c].fresh
  PROVE  ~Runs(k)'
<1>i. /\ Typed /\ Shapes /\ RecoveryOK /\ Ticketed /\ NewIsStarting
      /\ proc \in [Kids -> {"none", "starting", "live", "exited", "stillborn"}]
  BY DEF PoolInv, Typed, TypeOK
<1>g. pool.gen \in Nat /\ call[c].gen \in Nat /\ thread[k].gen \in Nat /\ call[c].gen <= pool.gen
  BY <1>i DEF Typed, TypeOK, PoolType, CallType, ThreadType, Ticketed, HasTicket
<1>1. proc[k] \in {"none", "stillborn"}
  BY <1>i DEF Runs
<1>2. ~(Build(k) /\ ~Stale(k))
  BY <1>g, <1>i DEF RecoveryOK, Build, Stale
<1>3. thread[k].pc # "build"
  BY <1>1, <1>i DEF NewIsStarting
<1>4. ASSUME NEW d \in Callers, Probe(d) \/ Probing(d)
      PROVE  d = c
  <2>1. Recovering(d)
    BY <1>4 DEF Probe, Probing, Recovering
  <2> QED
    BY <2>1, <1>i, OneRecovers
<1>5. proc'[k] \in {"none", "stillborn"}
  BY <1>1, <1>2, <1>3, <1>4, ProcGoes DEF ProcBy
<1> QED
  BY <1>5 DEF Runs

LEMMA ContainmentKept ==
  ASSUME PoolInv, Next
  PROVE  ContainmentOK'
<1>i. /\ Typed /\ Shapes /\ RecoveryOK /\ Ticketed /\ NewIsStarting /\ ContainmentOK /\ QuarantineIsOld
      /\ QuarantineLasts /\ AllHandled /\ Roles /\ EmptyWhenDown
      /\ proc \in [Kids -> {"none", "starting", "live", "exited", "stillborn"}] /\ call \in [Callers -> CallType]
  BY DEF PoolInv, Typed, TypeOK
<1>g. /\ pool.gen \in Nat
      /\ \A c \in Callers : call[c].gen \in Nat /\ call[c].num \in Nat
      /\ \A k \in Kids : thread[k].gen \in Nat
  BY <1>i DEF Typed, TypeOK, PoolType, CallType, ThreadType
<1>t. /\ \A c \in Callers : call[c].pc \in {"reap", "reapRest"} \/ Recovering(c) => call[c].gen <= pool.gen
      /\ \A c \in Callers : call[c].pc \in {"retire", "retireRest"} => call[c].num <= pool.gen
  BY <1>i DEF Ticketed, HasTicket
<1>s. /\ \A c \in Callers : call[c].set # {} => call[c].pc \in {"reap", "reapRest", "retireRest", "contain", "containRest"}
      /\ \A k \in Kids : thread[k].set # {} => thread[k].pc = "clear"
      /\ stop.pc = "none" <=> ~pool.closing
      /\ \A c \in Callers : Recovering(c) \/ call[c].pc = "join" => rlock = c
  BY <1>i DEF Shapes
<1>1. SUFFICES ASSUME NEW c \in Callers, call'[c].pc \in {"contain", "drain"}, Open', NEW k \in Kids, Runs(k)'
               PROVE  \/ k \in call'[c].set
                      \/ thread'[k].pc \in {"build", "register", "discard"}
                      \/ \E d \in Callers : call'[d].pc = "reap" /\ k \in call'[d].set /\ call'[d].gen < call'[c].gen
                      \/ \E d \in Callers : call'[d].pc = "retire" /\ call'[d].kid = k /\ call'[d].num < call'[c].gen
  BY DEF ContainmentOK, OldHands
<1>2. Open /\ ~pool'.closing /\ pool'.health # "quarantined"
  BY <1>1, <1>i, EraKept DEF Open
<1>3. CASE RecoverEnter(c)
  <2>1. /\ rlock = None /\ proc' = proc /\ thread' = thread /\ call[c].pc = "recover"
        /\ \A d \in Callers \ {c} : call'[d] = call[d]
    <3>1. Task(c)
      BY <1>3 DEF Task
    <3> QED
      BY <3>1, <1>3, <1>i, RecoverEnterEffect, TaskIsOne
  <2>2. call'[c].gen = pool.gen + 1 /\ Tracked \subseteq call'[c].set
    <3>1. CASE call' = [call EXCEPT ![c] = [call[c] EXCEPT !.pc = "join"]]
      BY <3>1, <1>1, <1>i DEF CallType
    <3>2. CASE \E out : call' = [call EXCEPT ![c] = [IdleCall EXCEPT !.pc = "return", !.kid = call[c].kid, !.out = out]]
      BY <3>2, <1>1, <1>i DEF IdleCall
    <3>3. CASE call' = [call EXCEPT ![c] = [call[c] EXCEPT !.pc = "contain", !.gen = pool.gen + 1,
                                                         !.set = Tracked \cup {call[c].kid}]]
      BY <3>3, <1>i DEF CallType
    <3> QED
      BY <1>3, <1>i, <3>1, <3>2, <3>3, RecoverEnterEffect
  <2>3. Handled(k)
    BY <2>1, <1>1, <1>i DEF Runs, AllHandled
  <2>4. \A d \in Callers : ~Recovering(d)
    BY <2>1, <1>s, PoolAssumption
  <2>5. ASSUME NEW d \in Callers, k \in call[d].set
        PROVE  call'[d].pc = "reap" /\ k \in call'[d].set /\ call'[d].gen < call'[c].gen
    <3>1. call[d].pc = "reap"
      BY <2>4, <2>5, <1>s, <1>2, <1>i DEF Recovering, QuarantineLasts, Open
    <3>2. d # c
      BY <3>1, <2>1
    <3> QED
      BY <3>1, <3>2, <2>1, <2>2, <2>5, <1>t, <1>g
  <2>6. \A d \in Callers : ~Probing(d)
    BY <2>4 DEF Probing, Recovering
  <2>7. \A j \in Kids : k \notin thread[j].set
    BY <1>s, <1>2, <1>i DEF QuarantineLasts, Open
  <2>8. stop.pc = "none"
    BY <1>s, <1>2 DEF Open
  <2> QED
    BY <2>1, <2>2, <2>3, <2>5, <2>6, <2>7, <2>8 DEF Handled
<1>4. CASE ~RecoverEnter(c)
  <2>1. Recovering(c) /\ call'[c].gen = call[c].gen
    BY <1>1, <1>4, <1>i, HandsGo DEF Recovering
  <2>2. call[c].pc \in {"contain", "drain"}
    <3>1. CASE call'[c] = call[c]
      BY <3>1, <1>1
    <3>2. CASE Task(c)
      BY <3>2, <2>1, <1>1, <1>i, RecoveryGoes DEF Contain
    <3> QED
      BY <3>1, <3>2, <1>i, CallsGo
  <2>3. Runs(k)
    BY <1>1, <2>1, <2>2, NothingStarts DEF Probing
  <2>4. k \in call[c].set \/ OldHands(k, call[c].gen)
    BY <1>2, <1>i, <2>2, <2>3 DEF ContainmentOK
  <2>5. CASE k \in call[c].set
    <3>1. call[c].pc = "contain"
      BY <2>2, <2>5, <1>s
    <3> QED
      BY <3>1, <2>5, <1>1, ContainGoes DEF Runs
  <2>6. CASE thread[k].pc \in {"build", "register", "discard"}
    <3>1. CASE thread'[k] = thread[k]
      BY <2>6, <3>1
    <3>2. ~Begins(k)
      BY <2>6 DEF Begins, Fresh
    <3>3. CASE Moves(k)
      <4>0. Replenish(k) /\ thread \in [Kids -> ThreadType] /\ TypeOK
        BY <3>3, <1>i DEF Moves, Typed, TypeOK
      <4>1. ASSUME NEW pc, Goes(k, pc)
            PROVE  thread'[k].pc = pc
        BY <4>0, <4>1 DEF Goes, ThreadType
      <4>2. CASE thread[k].pc = "build"
        <5>1. Built(k) \/ BuildFails(k)
          BY <4>0, <4>2 DEF Replenish, Build, BuildTimeout, Register, RegisterStale, Discard, Failed, Clear, BackoffOver
        <5>2. ASSUME BuildFails(k)
              PROVE  FALSE
          <6>1. PICK x \in BOOLEAN : proc' = [proc EXCEPT ![k] = IF x THEN "none" ELSE "stillborn"]
            BY <5>2 DEF BuildFails, Failures
          <6>2. proc'[k] \in {"none", "stillborn"}
            BY <6>1, <1>i
          <6> QED
            BY <6>2, <1>1 DEF Runs
        <5> QED
          BY <5>1, <5>2, <4>1 DEF Built
      <4>3. CASE thread[k].pc = "register"
        <5>1. Register(k) \/ RegisterStale(k)
          BY <4>0, <4>3 DEF Replenish, Build, BuildTimeout, Built, BuildFails, Discard, Failed, Clear, BackoffOver
        <5>2. thread[k].gen # pool.gen
          BY <4>3, <2>1, <1>i, <1>g, <1>t DEF RecoveryOK
        <5> QED
          BY <5>1, <5>2, <4>0, <4>1, RegisterEffect DEF RegisterStale
      <4>4. CASE thread[k].pc = "discard"
        <5>1. Discard(k)
          BY <4>0, <4>4 DEF Replenish, Build, BuildTimeout, Built, BuildFails, Register, RegisterStale, Failed, Clear, BackoffOver
        <5>2. ASSUME Reap({k}, {k})
              PROVE  FALSE
          BY <5>2, <1>1 DEF Reap, Runs
        <5> QED
          BY <5>1, <5>2, <4>0, <1>2, UnsafeEffect DEF Discard, Downed
      <4> QED
        BY <2>6, <4>2, <4>3, <4>4
    <3> QED
      BY <3>1, <3>2, <3>3, <1>i, ThreadGoes
  <2>7. ASSUME NEW d \in Callers, call[d].pc = "reap", k \in call[d].set, call[d].gen < call[c].gen
        PROVE  call'[d].pc = "reap" /\ k \in call'[d].set /\ call'[d].gen < call'[c].gen
    <3>1. ASSUME Task(d)
          PROVE  FALSE
      <4>1. CASE ReapDead(d)
        BY <4>1, <2>7, <1>1 DEF ReapDead, Reap, Runs
      <4>2. CASE ReapDeadUnproven(d)
        BY <4>2, <1>2, <1>i, UnsafeEffect DEF ReapDeadUnproven, Downed, Typed
      <4> QED
        BY <3>1, <2>7, <4>1, <4>2, TaskAt
    <3>2. call'[d] = call[d]
      BY <3>1, <1>i, CallsGo
    <3> QED
      BY <3>2, <2>1, <2>7
  <2>8. ASSUME NEW d \in Callers, call[d].pc = "retire", call[d].kid = k, call[d].num < call[c].gen
        PROVE  call'[d].pc = "retire" /\ call'[d].kid = k /\ call'[d].num < call'[c].gen
    <3>1. ASSUME Task(d)
          PROVE  FALSE
      <4>1. CASE Retire(d)
        BY <4>1, <2>8, <1>1 DEF Retire, Reap, Runs
      <4>2. CASE RetireUnproven(d)
        BY <4>2, <1>2, <1>i, UnsafeEffect DEF RetireUnproven, Downed, Typed
      <4> QED
        BY <3>1, <2>8, <4>1, <4>2, TaskAt
    <3>2. call'[d] = call[d]
      BY <3>1, <1>i, CallsGo
    <3> QED
      BY <3>2, <2>1, <2>8
  <2> QED
    BY <2>4, <2>5, <2>6, <2>7, <2>8 DEF OldHands
<1> QED
  BY <1>3, <1>4

LEMMA ProbeIsAloneKept ==
  ASSUME PoolInv, Next
  PROVE  ProbeIsAlone'
<1>i. /\ Typed /\ Shapes /\ RecoveryOK /\ Ticketed /\ ContainmentOK /\ ProbeIsAlone
      /\ proc \in [Kids -> {"none", "starting", "live", "exited", "stillborn"}]
  BY DEF PoolInv, Typed, TypeOK
<1>g. pool.gen \in Nat /\ \A c \in Callers : call[c].gen \in Nat
  BY <1>i DEF Typed, TypeOK, PoolType, CallType
<1>p. proc' \in [Kids -> {"none", "starting", "live", "exited", "stillborn"}]
  BY <1>i, TypesKept DEF TypeOK
<1>1. SUFFICES ASSUME NEW c \in Callers, call'[c].pc = "probe", NEW k \in Kids, k # call'[c].fresh
               PROVE  ~Runs(k)'
  BY <1>p DEF ProbeIsAlone, Runs
<1>2. CASE Probe(c)
  <2>1. /\ call[c].pc = "drain" /\ ~Older(call[c].gen) /\ Current(c) /\ pool.health = "suspect"
        /\ proc' = [proc EXCEPT ![call'[c].fresh] = "starting"]
    BY <1>1, <1>2, <1>i, ProbeOpens DEF Probing
  <2>2. Open /\ Recovering(c)
    BY <2>1 DEF Open, Current, Recovering
  <2>3. call[c].set = {}
    BY <2>1, <1>i DEF Shapes
  <2>4. ~OldHands(k, call[c].gen)
    <3>1. thread[k].pc = "none"
      <4>1. thread[k].pc # "none" => <<k, thread[k].gen>> \in tickets /\ thread[k].gen < call[c].gen
        BY <2>2, <1>i DEF RecoveryOK, Ticketed, HasTicket
      <4> QED
        BY <4>1, <2>1 DEF Older
    <3>2. ASSUME NEW d \in Callers, call[d].pc = "reap", call[d].gen < call[c].gen
          PROVE  FALSE
      <4>1. <<d, call[d].gen>> \in tickets
        BY <3>2, <1>i DEF Ticketed, HasTicket
      <4> QED
        BY <4>1, <3>2, <2>1 DEF Older
    <3>3. ASSUME NEW d \in Callers, call[d].pc = "retire", call[d].num < call[c].gen
          PROVE  FALSE
      <4>1. <<d, call[d].num>> \in tickets
        BY <3>3, <1>i DEF Ticketed, HasTicket
      <4> QED
        BY <4>1, <3>3, <2>1 DEF Older
    <3> QED
      BY <3>1, <3>2, <3>3 DEF OldHands
  <2>5. ~Runs(k)
    BY <2>1, <2>2, <2>3, <2>4, <1>i DEF ContainmentOK
  <2> QED
    BY <2>1, <2>5, <1>1, <1>i DEF Runs
<1>3. CASE call[c].pc = "probe" /\ call'[c] = call[c]
  <2>1. ~Runs(k) /\ Recovering(c)
    BY <1>1, <1>3, <1>i DEF ProbeIsAlone, Runs, Recovering
  <2> QED
    BY <2>1, <1>1, <1>3, NothingStarts
<1> QED
  BY <1>1, <1>2, <1>3, <1>i, ProbeGoes

-----------------------------------------------------------------------------
(* Handles, and the shutdown.                                              *)

\* A child that is not gone keeps somebody who answers for it.
LEMMA HandledStays ==
  ASSUME PoolInv, Next, NEW k \in Kids, proc'[k] # "none", Handled(k)
  PROVE  Handled(k)'
<1>i. Typed /\ Roles /\ Shapes /\ EmptyWhenDown
  BY DEF PoolInv
<1>h. \/ k \in Tracked \/ thread[k].pc = "build" \/ k \in AtHand
      \/ \E c \in Callers : k \in call[c].set \/ (Probing(c) /\ call[c].fresh = k)
      \/ \E j \in Kids : k \in thread[j].set
  BY DEF Handled, AtHand
<1>a. k \in AtHand' => Handled(k)'
  BY DEF Handled, AtHand
<1>1. ASSUME thread[k].pc = "build"
      PROVE  Handled(k)'
  <2>1. ~Begins(k)
    BY <1>1 DEF Begins, Fresh
  <2>2. CASE Moves(k)
    <3>1. ThreadKeeps(k)
      BY <2>2, <1>i, ThreadHandles DEF Moves
    <3> QED
      BY <3>1, <1>1 DEF ThreadKeeps, Handled
  <2> QED
    BY <2>1, <2>2, <1>1, <1>i, ThreadGoes DEF Handled
<1>2. ASSUME NEW j \in Kids, k \in thread[j].set
      PROVE  Handled(k)'
  <2>1. ~Begins(j)
    BY <1>2, <1>i DEF Begins, Fresh, Shapes
  <2>2. CASE Moves(j)
    <3>1. ThreadKeeps(j)
      BY <2>2, <1>i, ThreadHandles DEF Moves
    <3> QED
      BY <3>1, <1>2 DEF ThreadKeeps, Handled
  <2> QED
    BY <2>1, <2>2, <1>2, <1>i, ThreadGoes DEF Handled
<1>3. ASSUME NEW c \in Callers, ByTask(c)
      PROVE  Handled(k)'
  <2>1. Keeps(c) /\ stop' = stop /\ \A d \in Callers \ {c} : call'[d] = call[d]
    BY <1>3, <1>i, TaskHandles DEF ByTask, Carries
  <2>2. CASE k \in Tracked
    BY <2>1, <2>2 DEF Keeps, Handled
  <2>3. CASE k \in AtHand
    <3>1. k \in AtHand'
      BY <2>1, <2>3 DEF AtHand
    <3> QED
      BY <3>1, <1>a
  <2>4. ASSUME NEW d \in Callers, k \in call[d].set \/ (Probing(d) /\ call[d].fresh = k)
        PROVE  Handled(k)'
    <3>1. CASE d = c
      BY <2>1, <2>4, <3>1 DEF Keeps, Handled
    <3>2. CASE d # c
      <4>1. call'[d] = call[d]
        BY <2>1, <3>2
      <4> QED
        BY <4>1, <2>4 DEF Handled, Probing
    <3> QED
      BY <3>1, <3>2
  <2> QED
    BY <2>2, <2>3, <2>4, <1>1, <1>2, <1>h
<1>4. ASSUME NEW j \in Kids, ByThread(j)
      PROVE  Handled(k)'
  <2>1. ThreadKeeps(j) /\ UNCHANGED <<call, stop>>
    BY <1>4, <1>i, ThreadHandles DEF ByThread
  <2>2. CASE k \in Tracked
    BY <2>1, <2>2 DEF ThreadKeeps, Handled
  <2>3. CASE k \in AtHand
    <3>1. k \in AtHand'
      BY <2>1, <2>3 DEF AtHand
    <3> QED
      BY <3>1, <1>a
  <2>4. ASSUME NEW d \in Callers, k \in call[d].set \/ (Probing(d) /\ call[d].fresh = k)
        PROVE  Handled(k)'
    BY <2>1, <2>4 DEF Handled, Probing
  <2> QED
    BY <2>2, <2>3, <2>4, <1>1, <1>2, <1>h
<1>5. ASSUME NEW j \in Kids, Exits(j)
      PROVE  Handled(k)'
  BY <1>5 DEF Exits, Handled, Tracked, Probing
<1>6. CASE Stop
  <2>1. StopKeeps /\ UNCHANGED <<call, thread>>
    BY <1>6, <1>i, StopHandles, StopGoes
  <2>2. CASE k \in Tracked \cup AtHand
    <3>1. k \in Tracked' \cup AtHand'
      BY <2>1, <2>2 DEF StopKeeps
    <3> QED
      BY <3>1, <1>a DEF Handled
  <2>3. ASSUME NEW d \in Callers, k \in call[d].set \/ (Probing(d) /\ call[d].fresh = k)
        PROVE  Handled(k)'
    BY <2>1, <2>3 DEF Handled, Probing
  <2> QED
    BY <2>2, <2>3, <1>1, <1>2, <1>h
<1> QED
  BY <1>3, <1>4, <1>5, <1>6, StepCases

LEMMA AllHandledKept ==
  ASSUME PoolInv, Next
  PROVE  AllHandled'
<1>1. SUFFICES ASSUME NEW k \in Kids, proc'[k] # "none"
               PROVE  Handled(k)'
  BY DEF AllHandled
<1>2. CASE Handled(k)
  BY <1>1, <1>2, HandledStays
<1>3. CASE ~Handled(k)
  <2>1. proc[k] = "none"
    BY <1>3 DEF PoolInv, AllHandled
  <2>2. CASE thread'[k].pc = "build"
    BY <2>2 DEF Handled
  <2>3. ASSUME NEW c \in Callers, Probe(c), Probing(c)', k = call'[c].fresh
        PROVE  Handled(k)'
    BY <2>3 DEF Handled
  <2>4. ASSUME NEW c \in Callers, call[c].pc = "probe", k = call[c].fresh
        PROVE  FALSE
    BY <2>4, <1>3 DEF Handled, Probing
  <2> QED
    BY <2>1, <2>2, <2>3, <2>4, <1>1, ComesBack
<1> QED
  BY <1>2, <1>3

\* A closing pool starts nothing.
LEMMA ClosedStartsNothing ==
  ASSUME PoolInv, Next, pool.closing
  PROVE  /\ Quiet => Quiet'
         /\ \A k \in Kids : proc[k] = "none" /\ proc'[k] # "none" =>
              \E c \in Callers : call[c].pc = "probe" /\ k = call[c].fresh
<1>i. Typed /\ Shapes
  BY DEF PoolInv
<1>1. \A k \in Kids : ~(Build(k) /\ ~Stale(k))
  BY DEF Stale
<1>2. \A c \in Callers : ~(Probe(c) /\ Probing(c)')
  BY <1>i, ProbeOpens DEF Current
<1>3. ASSUME NEW k \in Kids, thread'[k].pc = "build"
      PROVE  thread[k].pc = "build"
  BY <1>1, <1>3, <1>i, ThreadGoes DEF Begins, Moves
<1>4. ASSUME NEW c \in Callers, call'[c].pc = "probe"
      PROVE  call[c].pc = "probe"
  <2>1. Probing(c)'
    BY <1>4 DEF Probing
  <2> QED
    BY <2>1, <1>2, <1>4, <1>i, ProbeGoes
<1>5. Quiet => Quiet'
  BY <1>3, <1>4 DEF Quiet
<1>6. \A k \in Kids : proc[k] = "none" /\ proc'[k] # "none" =>
        \E c \in Callers : call[c].pc = "probe" /\ k = call[c].fresh
  BY <1>1, <1>2, ComesBack
<1> QED
  BY <1>5, <1>6

\* With every ticket returned, only the pool's lists name a child.
LEMMA DrainedIsQuiet ==
  ASSUME PoolInv, tickets = {}, stop.pc = "drain"
  PROVE  Quiet /\ \A k \in Kids : proc[k] # "none" => k \in Tracked
<1>i. Shapes /\ Ticketed /\ AllHandled
  BY DEF PoolInv
<1>1. \A k \in Kids : thread[k].pc = "none"
  BY <1>i DEF Ticketed, HasTicket
<1>2. \A c \in Callers : call[c].pc \notin {"reap", "reapRest", "retire", "retireRest"} /\ ~Recovering(c)
  BY <1>i DEF Ticketed, HasTicket
<1>3. \A c \in Callers : call[c].set = {} /\ ~Probing(c) /\ call[c].pc # "probe"
  BY <1>2, <1>i DEF Shapes, Recovering, Probing
<1>4. \A j \in Kids : thread[j].set = {}
  BY <1>1, <1>i DEF Shapes
<1> QED
  BY <1>1, <1>3, <1>4, <1>i DEF Quiet, AllHandled, Handled

\* The steps of the shutdown, as far as its own record goes.
LEMMA StopSteps ==
  ASSUME Typed, Stop
  PROVE  \/ StopBegin /\ stop.pc = "none" /\ stop'.pc = "reap" /\ stop'.drained = stop.drained /\ stop'.safe = stop.safe
         \/ /\ StopReap /\ stop.pc = "reap" /\ stop'.pc = "drain" /\ stop'.set = stop.set
            /\ stop'.drained = stop.drained /\ stop'.safe = stop.safe
            /\ ~stop'.bad => \A k \in stop.set : proc'[k] = "none"
         \/ /\ StopDrain /\ stop.pc = "drain" /\ stop'.pc = "late" /\ stop'.set = stop.set /\ stop'.bad = stop.bad
            /\ stop'.late = Tracked \ stop.set /\ stop'.drained = Drained /\ stop'.safe = stop.safe /\ proc' = proc
         \/ /\ StopLate /\ stop.pc = "late" /\ stop'.pc = "done" /\ stop'.drained = stop.drained
            /\ \A k \in Kids : proc[k] = "none" => proc'[k] = "none"
            /\ stop'.safe => /\ stop.drained /\ ~stop.bad
                             /\ \A k \in stop.late : proc'[k] = "none"
<1>f. stop \in StopType /\ stop.set \subseteq Kids /\ stop.late \subseteq Kids
  BY DEF Typed, TypeOK, StopType
<1>1. CASE StopBegin
  <2> DEFINE T == Tracked
  <2>1. stop.pc = "none" /\ stop' = [stop EXCEPT !.pc = "reap", !.set = T]
    BY <1>1 DEF StopBegin
  <2> HIDE DEF T
  <2> QED
    BY <1>1, <1>f, <2>1 DEF StopType
<1>2. CASE StopReap
  <2>1. PICK ok \in SUBSET stop.set : Reap(stop.set, ok) /\ stop' = [stop EXCEPT !.pc = "drain", !.bad = ok # stop.set]
    BY <1>2 DEF StopReap
  <2>2. stop.pc = "reap"
    BY <1>2 DEF StopReap
  <2>3. PICK b \in BOOLEAN : b = (ok # stop.set)
    OBVIOUS
  <2>4. stop' = [stop EXCEPT !.pc = "drain", !.bad = b]
    BY <2>1, <2>3
  <2>5. /\ stop'.pc = "drain" /\ stop'.set = stop.set /\ stop'.bad = b
        /\ stop'.drained = stop.drained /\ stop'.safe = stop.safe
    BY <1>f, <2>4 DEF StopType
  <2>6. ~b => \A k \in stop.set : proc'[k] = "none"
    BY <2>1, <2>3, <1>f DEF Reap
  <2> QED
    BY <1>2, <2>2, <2>5, <2>6
<1>3. CASE StopDrain
  <2> DEFINE L == Tracked \ stop.set
  <2>1. PICK b \in BOOLEAN : b = Drained
    BY DEF Drained
  <2>2. stop.pc = "drain" /\ stop' = [stop EXCEPT !.pc = "late", !.late = L, !.drained = b] /\ proc' = proc
    BY <1>3, <2>1 DEF StopDrain
  <2> HIDE DEF L
  <2>3. /\ stop'.pc = "late" /\ stop'.set = stop.set /\ stop'.bad = stop.bad /\ stop'.late = L
        /\ stop'.drained = b /\ stop'.safe = stop.safe
    BY <1>f, <2>2 DEF StopType
  <2>4. L = Tracked \ stop.set
    BY DEF L
  <2> QED
    BY <1>3, <2>1, <2>2, <2>3, <2>4
<1>4. CASE StopLate
  <2>1. PICK ok \in SUBSET stop.late :
          /\ Reap(stop.late, ok)
          /\ stop' = [stop EXCEPT !.pc = "done", !.set = {}, !.late = {},
                                  !.safe = (stop.drained /\ ~stop.bad /\ ok = stop.late) /\ ~pool.unsafe]
    BY <1>4 DEF StopLate
  <2>2. stop.pc = "late"
    BY <1>4 DEF StopLate
  <2>3. PICK b \in BOOLEAN : b = ((stop.drained /\ ~stop.bad /\ ok = stop.late) /\ ~pool.unsafe)
    OBVIOUS
  <2>4. stop' = [stop EXCEPT !.pc = "done", !.set = {}, !.late = {}, !.safe = b]
    BY <2>1, <2>3
  <2>5. stop'.pc = "done" /\ stop'.drained = stop.drained /\ stop'.safe = b
    BY <1>f, <2>4 DEF StopType
  <2>6. b => ok = stop.late /\ stop.drained /\ ~stop.bad
    BY <2>3
  <2>7. \A k \in Kids : (proc[k] = "none" => proc'[k] = "none") /\ (k \in ok => proc'[k] = "none")
    BY <2>1, <1>f DEF Reap
  <2> QED
    BY <1>4, <1>f, <2>2, <2>5, <2>6, <2>7
<1> QED
  BY <1>1, <1>2, <1>3, <1>4 DEF Stop

LEMMA StopOrSame ==
  ASSUME PoolInv, Next
  PROVE  Stop \/ stop' = stop
BY StepCases DEF ByTask, Carries, ByThread, Exits

LEMMA ShutdownKept ==
  ASSUME PoolInv, Next
  PROVE  ShutdownOK'
<1>i. Typed /\ Shapes /\ ShutdownOK /\ NewIsUnknown
  BY DEF PoolInv
<1>1. CASE stop' = stop
  <2>c. stop.pc # "none" => pool.closing
    BY <1>i DEF Shapes
  <2>d. stop.pc # "none" =>
          /\ Quiet => Quiet'
          /\ \A k \in Kids : proc[k] = "none" /\ proc'[k] # "none" =>
               \E c \in Callers : call[c].pc = "probe" /\ k = call[c].fresh
    BY <2>c, ClosedStartsNothing
  <2>q. stop.pc # "none" /\ Quiet => \A k \in Kids : proc[k] = "none" => proc'[k] = "none"
    BY <2>d DEF Quiet
  <2>1. ASSUME stop.pc \in {"drain", "late"}, ~stop.bad, NEW k \in stop.set
        PROVE  proc'[k] = "none"
    <3>1. k \in Kids /\ proc[k] = "none"
      BY <2>1, <1>i DEF Typed, TypeOK, StopType, ShutdownOK
    <3>2. \A c \in Callers : call[c].pc = "probe" => k # call[c].fresh
      BY <2>1, <1>i DEF NewIsUnknown, Unknown
    <3> QED
      BY <3>1, <3>2, <2>1, <2>d
  <2>2. stop.drained => stop.pc \in {"late", "done"} /\ Quiet /\ Quiet'
    BY <2>d, <1>i DEF ShutdownOK
  <2>3. stop.pc = "late" /\ stop.drained /\ ~stop.bad => \A k \in Kids : proc'[k] # "none" => k \in stop.late
    BY <2>2, <2>q, <1>i DEF ShutdownOK
  <2>4. stop.safe => stop.drained /\ stop.pc = "done" /\ AllGone'
    BY <2>2, <2>q, <1>i DEF ShutdownOK, AllGone
  <2> QED
    BY <1>1, <2>1, <2>2, <2>3, <2>4 DEF ShutdownOK
<1>2. CASE Stop
  <2>u. UNCHANGED <<call, thread>>
    BY <1>2, <1>i, StopGoes
  <2>q. Quiet => Quiet'
    BY <2>u DEF Quiet
  <2>d. (stop.drained => stop.pc \in {"late", "done"} /\ Quiet) /\ (stop.safe => stop.pc = "done")
    BY <1>i DEF ShutdownOK
  <2>1. CASE stop.pc = "none" /\ stop'.pc = "reap" /\ stop'.drained = stop.drained /\ stop'.safe = stop.safe
    <3>1. ~stop'.drained /\ ~stop'.safe
      BY <2>1, <2>d
    <3> QED
      BY <2>1, <3>1 DEF ShutdownOK
  <2>2. CASE /\ stop.pc = "reap" /\ stop'.pc = "drain" /\ stop'.set = stop.set
             /\ stop'.drained = stop.drained /\ stop'.safe = stop.safe
             /\ ~stop'.bad => \A k \in stop.set : proc'[k] = "none"
    <3>1. ~stop'.drained /\ ~stop'.safe
      BY <2>2, <2>d
    <3> QED
      BY <2>2, <3>1 DEF ShutdownOK
  <2>3. CASE /\ stop.pc = "drain" /\ stop'.pc = "late" /\ stop'.set = stop.set /\ stop'.bad = stop.bad
             /\ stop'.late = Tracked \ stop.set /\ stop'.drained = Drained /\ stop'.safe = stop.safe /\ proc' = proc
    <3>1. ~stop'.safe
      BY <2>3, <2>d
    <3>2. ~stop.bad => \A k \in stop.set : proc[k] = "none"
      BY <2>3, <1>i DEF ShutdownOK
    <3>3. stop'.drained => Quiet /\ \A k \in Kids : proc[k] # "none" => k \in Tracked
      BY <2>3, DrainedIsQuiet DEF Drained
    <3> QED
      BY <2>3, <2>q, <3>1, <3>2, <3>3 DEF ShutdownOK
  <2>4. CASE /\ stop.pc = "late" /\ stop'.pc = "done" /\ stop'.drained = stop.drained
             /\ \A k \in Kids : proc[k] = "none" => proc'[k] = "none"
             /\ stop'.safe => /\ stop.drained /\ ~stop.bad
                              /\ \A k \in stop.late : proc'[k] = "none"
    <3>1. stop'.safe => AllGone'
      BY <2>4, <1>i DEF ShutdownOK, AllGone
    <3> QED
      BY <2>4, <2>d, <2>q, <3>1 DEF ShutdownOK
  <2> QED
    BY <1>2, <1>i, <2>1, <2>2, <2>3, <2>4, StopSteps
<1> QED
  BY <1>1, <1>2, StopOrSame

-----------------------------------------------------------------------------
(* The invariant holds always.                                             *)

LEMMA InvAtFirst ==
  ASSUME Init
  PROVE  PoolInv
<1>1. PICK W \in SUBSET Kids :
      /\ Cardinality(W) = PoolSize
      /\ proc = [k \in Kids |-> IF k \in W THEN "live" ELSE "none"]
      /\ pool = [workers |-> W, idle |-> W, busy |-> {}, retiring |-> {}, repl |-> 0, retire |-> 0,
                 gen |-> 0, epoch |-> 0, health |-> "healthy", spec |-> 0, fails |-> 0,
                 closing |-> FALSE, unsafe |-> FALSE]
      /\ retained = {}
      /\ call = [c \in Callers |-> IdleCall]
      /\ thread = [k \in Kids |-> NoThread]
      /\ rlock = None
      /\ stop = [pc |-> "none", set |-> {}, late |-> {}, bad |-> FALSE, drained |-> FALSE, safe |-> FALSE]
  BY DEF Init
<1>c. \A c \in Callers : call[c].pc = "idle" /\ call[c].set = {} /\ call[c].epoch = 0
  BY <1>1 DEF IdleCall
<1>k. \A k \in Kids : thread[k].pc = "none" /\ thread[k].set = {}
  BY <1>1 DEF NoThread
<1>p. /\ pool.workers = W /\ pool.idle = W /\ pool.busy = {} /\ pool.repl = 0 /\ pool.epoch = 0
      /\ pool.health = "healthy" /\ pool.closing = FALSE
  BY <1>1
<1>s. stop.pc = "none" /\ stop.set = {} /\ stop.late = {} /\ stop.drained = FALSE /\ stop.safe = FALSE
  BY <1>1
<1>2. Typed
  BY TypedAtFirst
<1>3. Roles /\ NewIsUnknown /\ NewIsStarting
  BY <1>c, <1>k, <1>p DEF Roles, IdleAreMembers, HeldOnce, MadeOnce, ProbedOnce, Holds, Probing, NewIsUnknown, NewIsStarting
<1>4. Shapes /\ Ticketed
  BY <1>c, <1>k, <1>p, <1>s DEF Shapes, Ticketed, Recovering
<1>5. QuarantineLasts /\ QuarantineIsOld /\ EmptyWhenDown
  BY <1>c, <1>k, <1>p DEF QuarantineLasts, QuarantineIsOld, EmptyWhenDown
<1>6. EpochsOK /\ ValidationOK
  BY <1>c, <1>p DEF EpochsOK, ValidationOK, Serving, Validates
<1>7. FaultsOK /\ RecoveryOK /\ ContainmentOK /\ ProbeIsAlone
  BY <1>c DEF FaultsOK, RecoveryOK, ContainmentOK, ProbeIsAlone, Serving, Recovering
<1>8. AllHandled
  BY <1>1, <1>p DEF AllHandled, Handled, Tracked
<1>9. ShutdownOK
  BY <1>s DEF ShutdownOK
<1>10. Fits(pool)
  BY <1>1, <1>p, PoolAssumption DEF Fits
<1> QED
  BY <1>2, <1>3, <1>4, <1>5, <1>6, <1>7, <1>8, <1>9, <1>10 DEF PoolInv

LEMMA InvStutter ==
  ASSUME PoolInv, UNCHANGED vars
  PROVE  PoolInv'
<1>t. Tracked' = Tracked /\ UNCHANGED <<proc, pool, retained, tickets, call, thread, rlock, stop>>
  BY DEF vars, Tracked
<1>1. Typed'
  BY TypedStutter DEF PoolInv
<1>2. Roles'
  BY <1>t DEF PoolInv, Roles, IdleAreMembers, HeldOnce, MadeOnce, ProbedOnce, Holds, Probing
<1>3. NewIsUnknown' /\ NewIsStarting'
  BY <1>t DEF PoolInv, NewIsUnknown, NewIsStarting, Unknown
<1>4. Shapes' /\ Ticketed'
  BY <1>t DEF PoolInv, Shapes, Ticketed, HasTicket, Recovering
<1>5. QuarantineLasts' /\ QuarantineIsOld' /\ EmptyWhenDown'
  BY <1>t DEF PoolInv, QuarantineLasts, QuarantineIsOld, EmptyWhenDown
<1>6. EpochsOK' /\ ValidationOK'
  BY <1>t DEF PoolInv, EpochsOK, ValidationOK, Serving, Validates, Open
<1>7. FaultsOK' /\ RecoveryOK'
  BY <1>t DEF PoolInv, FaultsOK, RecoveryOK, Serving, Recovering, Open
<1>8. ContainmentOK' /\ ProbeIsAlone'
  BY <1>t DEF PoolInv, ContainmentOK, ProbeIsAlone, Open, Runs, OldHands
<1>9. AllHandled'
  BY <1>t DEF PoolInv, AllHandled, Handled, Probing
<1>10. ShutdownOK'
  BY <1>t DEF PoolInv, ShutdownOK, Quiet, AllGone
<1>11. Fits(pool)'
  BY <1>t DEF PoolInv, Fits
<1> QED
  BY <1>1, <1>2, <1>3, <1>4, <1>5, <1>6, <1>7, <1>8, <1>9, <1>10, <1>11 DEF PoolInv

LEMMA InvKept ==
  ASSUME PoolInv, Next
  PROVE  PoolInv'
<1>1. Typed'
  BY TypesKept, RetireKept DEF PoolInv, Typed
<1>2. Roles'
  BY RolesKept DEF PoolInv
<1> QED
  BY <1>1, <1>2, NewIsUnknownKept, NewIsStartingKept, ShapesKept, TicketedKept, QuarantineLastsKept,
     QuarantineIsOldKept, EmptyWhenDownKept, EpochsKept, ValidationKept, FaultsKept, RecoveryKept,
     ContainmentKept, ProbeIsAloneKept, AllHandledKept, ShutdownKept, FitsKept DEF PoolInv

\* The inductive invariant of the subprocess pool, whatever the coroutines in
\* execute_task, the replenishment threads and the shutdown do in any order.
THEOREM PoolIsKept == Spec => []PoolInv
<1>1. PoolInv /\ [Next]_vars => PoolInv'
  BY InvKept, InvStutter
<1> QED
  BY <1>1, InvAtFirst, PTL DEF Spec

\* The state of SubprocessWorkerPool stays well-typed, its retirement counter and the
\* restart counters included: nothing is ever counted below zero.
THEOREM PoolTypes == Spec => []TypeOK
<1>1. PoolInv => TypeOK
  BY DEF PoolInv, Typed
<1> QED
  BY <1>1, PoolIsKept, PTL

\* Members and constructors that are counted never exceed the pool size: neither
\* _ensure_capacity_locked, nor _restart_worker, nor a registration, nor a recovery
\* overfills the GPU, in whatever order their threads of old generations end.
THEOREM PoolNeverOverfills == Spec => []CapacityIsBounded
<1>1. PoolInv => CapacityIsBounded
  BY DEF PoolInv, Fits, CapacityIsBounded
<1> QED
  BY <1>1, PoolIsKept, PTL

\* No process loses its last handle (_UNREAPED_WORKER_HANDLES, the pool's lists, a
\* coroutine or a thread has it), and _get_idle_worker never meets a corrupt topology.
THEOREM PoolKeepsHandles == Spec => []HandlesAreKept
<1>1. PoolInv => NoLostChild
  BY DEF PoolInv, AllHandled, Handled, NoLostChild, Local
<1>2. PoolInv => NoLiveOrphan
  BY DEF PoolInv, Roles, IdleAreMembers, NoLiveOrphan
<1> QED
  BY <1>1, <1>2, PoolIsKept, PTL DEF HandlesAreKept

\* The CUDA probe of _recover_from_device_fault runs when no other child that ever
\* held a context is left, the late ones of older constructors included.
THEOREM ProbeRunsAlone == Spec => []ProbeIsAlone
<1>1. PoolInv => ProbeIsAlone
  BY DEF PoolInv
<1> QED
  BY <1>1, PoolIsKept, PTL

\* A shutdown that _shutdown_once reports as safe has left no CUDA process.
THEOREM SafeShutdownLeavesNobody == Spec => []SafeShutdownIsEmpty
<1>1. PoolInv => SafeShutdownIsEmpty
  BY DEF PoolInv, ShutdownOK, AllGone, SafeShutdownIsEmpty
<1> QED
  BY <1>1, PoolIsKept, PTL

\* execute_task gives a faulted, timed-out or recycled task an ordinary outcome only
\* with its child gone or the pool quarantined.
THEOREM FaultsAreContained == Spec => FaultIsContained
<1>1. ASSUME PoolInv, NEW c \in Callers, EndsOrdinarily(c)
      PROVE  proc[call[c].kid] = "none" \/ pool.health = "quarantined"
  BY <1>1 DEF PoolInv, FaultsOK, EndsOrdinarily
<1>2. PoolInv =>
        [\A c \in Callers : EndsOrdinarily(c) => proc[call[c].kid] = "none" \/ pool.health = "quarantined"]_vars
  BY <1>1
<1> QED
  BY <1>2, PoolIsKept, PTL DEF FaultIsContained
=============================================================================
