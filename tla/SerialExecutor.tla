--------------------------- MODULE SerialExecutor ---------------------------
(***************************************************************************)
(* What a Strand promises its clients (include/promeki/strand.h), with no   *)
(* threads, no lock and no pool: tasks are kept in one pending sequence, at *)
(* most one of them executes at any time, and each is resolved exactly      *)
(* once, with a value if it ran and with Error::Cancelled if a              *)
(* cancelPending() took it out before it started.                           *)
(*                                                                         *)
(* Strand.tla implements this module; see StrandRefinement there.           *)
(***************************************************************************)
EXTENDS Sequences

CONSTANTS Task,     \* the callables clients may submit, each at most once
          NoTask    \* "nothing executes"

VARIABLES pending,  \* submitted tasks that have not started, next one first
          current,  \* the task being executed, or NoTask
          urgent,   \* the tasks submitted as urgent
          doomed,   \* cancelled tasks whose Future is not resolved yet
          future    \* what a client can read from each task's Future

vars == <<pending, current, urgent, doomed, future>>

FutureState == {"none", "pending", "value", "cancelled"}

Init ==
    /\ pending = <<>>
    /\ current = NoTask
    /\ urgent = {} /\ doomed = {}
    /\ future = [k \in Task |-> "none"]

Accept(k) ==
    /\ future[k] = "none"
    /\ future' = [future EXCEPT ![k] = "pending"]
    /\ UNCHANGED <<current, doomed>>

\* A submission enters at the back ...
Submit(k) ==
    /\ Accept(k)
    /\ pending' = Append(pending, k)
    /\ UNCHANGED urgent

\* ... and an urgent one at the front.
SubmitUrgent(k) ==
    /\ Accept(k)
    /\ pending' = <<k>> \o pending
    /\ urgent' = urgent \cup {k}

\* The next task starts, and only when no other one executes.
Start ==
    /\ current = NoTask
    /\ pending # <<>>
    /\ current' = Head(pending)
    /\ pending' = Tail(pending)
    /\ UNCHANGED <<urgent, doomed, future>>

\* The executing task returns and its Future holds its result.
Finish ==
    /\ current # NoTask
    /\ future' = [future EXCEPT ![current] = "value"]
    /\ current' = NoTask
    /\ UNCHANGED <<pending, urgent, doomed>>

\* All the tasks that have not started are withdrawn at once ...
CancelPending ==
    /\ pending # <<>>
    /\ doomed' = doomed \cup {pending[i] : i \in DOMAIN pending}
    /\ pending' = <<>>
    /\ UNCHANGED <<current, urgent, future>>

\* ... and their Futures are resolved one by one.
ResolveCancel(k) ==
    /\ k \in doomed
    /\ doomed' = doomed \ {k}
    /\ future' = [future EXCEPT ![k] = "cancelled"]
    /\ UNCHANGED <<pending, current, urgent>>

Next ==
    \/ \E k \in Task : Submit(k) \/ SubmitUrgent(k) \/ ResolveCancel(k)
    \/ Start
    \/ Finish
    \/ CancelPending

Spec ==
    /\ Init
    /\ [][Next]_vars
    /\ WF_vars(Start)
    /\ WF_vars(Finish)
    /\ \A k \in Task : WF_vars(ResolveCancel(k))
=============================================================================
