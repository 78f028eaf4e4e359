------------------------- MODULE ExclusiveExecution -------------------------
(***************************************************************************)
(* What the task store and the GPU workers promise together.  A task runs  *)
(* on one GPU at a time; it is retried, or gets its outcome, only when no  *)
(* CUDA child can still be executing it; and it gets one outcome, which    *)
(* stands until a force refresh opens the task again.                      *)
(***************************************************************************)
CONSTANTS Tasks, Workers, Outcomes

VARIABLES
    phase,      \* "absent", "open", "started", or the outcome of each task
    running     \* the workers on whose GPU a task may be executing

vars == <<phase, running>>

Phases == {"absent", "open", "started"} \cup Outcomes

Init ==
    /\ phase = [t \in Tasks |-> "absent"]
    /\ running = [t \in Tasks |-> {}]

Quiet(t) == running[t] = {}

Moves(t, from, to) ==
    /\ phase[t] \in from
    /\ phase' = [phase EXCEPT ![t] = to]
    /\ UNCHANGED running

Create(t) == Moves(t, {"absent"}, "open")
Start(t)  == Moves(t, {"open"}, "started")
Retry(t)  == Quiet(t) /\ Moves(t, {"started"}, "open")
Reopen(t) == Moves(t, Outcomes, "open")

Finish(t) == Quiet(t) /\ \E o \in Outcomes : Moves(t, {"open", "started"}, o)

\* The end of a workflow parent closes several open tasks at once.
Withdraw(S, o) ==
    /\ \A t \in S : phase[t] = "open" /\ Quiet(t)
    /\ phase' = [t \in Tasks |-> IF t \in S THEN o ELSE phase[t]]
    /\ UNCHANGED running

Launch(t, w) ==
    /\ phase[t] = "started" /\ Quiet(t)
    /\ running' = [running EXCEPT ![t] = {w}]
    /\ UNCHANGED phase

\* Children of w are gone: the child of one task, or all of them.
Reap(w, S) ==
    /\ running' = [t \in Tasks |-> IF t \in S THEN running[t] \ {w} ELSE running[t]]
    /\ UNCHANGED phase

Next ==
    \/ \E t \in Tasks : Create(t) \/ Start(t) \/ Retry(t) \/ Reopen(t) \/ Finish(t)
    \/ \E S \in SUBSET Tasks, o \in Outcomes : Withdraw(S, o)
    \/ \E t \in Tasks, w \in Workers : Launch(t, w)
    \/ \E w \in Workers, S \in SUBSET Tasks : Reap(w, S)

Spec == Init /\ [][Next]_vars
=============================================================================
