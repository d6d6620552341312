------------------------------- MODULE Strand -------------------------------
(***************************************************************************)
(* Strand (include/promeki/strand.h): serial execution of tasks on a shared *)
(* ThreadPool, without a thread of its own.                                 *)
(*                                                                         *)
(* One step is one critical section of _mutex, one call into the pool, one  *)
(* task body or one cancel hook: everything that another thread can come    *)
(* between.  The pool is what Strand sees of it: a number of submitted      *)
(* runNext() callables, each taken by some worker later; an inline pool is  *)
(* one of zero threads, where ThreadPool::submit runs the callable on the   *)
(* calling thread.                                                          *)
(***************************************************************************)
EXTENDS Naturals, Sequences

CONSTANTS Task,      \* the callables clients submit, each at most once
          NoTask,    \* no task (used by the refinement mapping only)
          Caller,    \* threads that use the Strand from outside
          Worker     \* threads of the pool, when it has any

ASSUME StrandAssumption ==
    /\ NoTask \notin Task
    /\ Caller \cap Worker = {}

Thread == Caller \cup Worker

VARIABLES
    queue,     \* _queue: the entries not yet started
    running,   \* _running
    inline,    \* whether _pool has no threads and runs callables on the caller
    pooled,    \* runNext() callables the pool has accepted and not started
    pc,        \* where each thread is in submit, runNext, cancelPending, ...
    held,      \* the entries a thread has moved out of _queue
    future,    \* the state of the Future each submit returned
    urgent     \* history: the tasks submitted by submitUrgent

vars == <<queue, running, inline, pooled, pc, held, future, urgent>>

FutureState == {"none", "pending", "value", "cancelled"}

PC == {"idle",    \* outside the Strand
       "spawn",   \* owes the pool a submit(runNext)
       "pop",     \* entered runNext()
       "run",     \* executes the task body of held
       "finish",  \* the body returned: about to re-submit or go idle
       "cancel",  \* in cancelPending(), its entries moved out of _queue
       "wait",    \* in waitForIdle(), asleep on _idleCv
       "woken"}   \* in waitForIdle(), to test the predicate (again)

\* The threads that carry the one licence to run or to spawn.
RunnerPC == {"spawn", "pop", "run", "finish"}
Runner == {t \in Thread : pc[t] \in RunnerPC}

Elements(s) == {s[i] : i \in DOMAIN s}

Init ==
    /\ queue = <<>>
    /\ running = FALSE
    /\ inline \in BOOLEAN
    /\ pooled = 0
    /\ pc = [t \in Thread |-> "idle"]
    /\ held = [t \in Thread |-> <<>>]
    /\ future = [k \in Task |-> "none"]
    /\ urgent = {}

-----------------------------------------------------------------------------
(* Operations of the callers.  A task body may submit too (a command's      *)
(* completion signal that submits the next command), so a thread in "run"   *)
(* can; it never becomes the spawner, because _running holds throughout.    *)

\* Mutant: spawn whenever _queue was empty instead of whenever !_running.
EnqueueSpawnsOnEmpty(t, k) ==
    /\ pc[t] \in {"idle", "run"}
    /\ t \in Caller \/ pc[t] = "run"
    /\ future[k] = "none"
    /\ future' = [future EXCEPT ![k] = "pending"]
    /\ running' = TRUE
    /\ pc' = IF queue # <<>> THEN pc ELSE [pc EXCEPT ![t] = "spawn"]
    /\ UNCHANGED <<inline, pooled, held>>

Enqueue(t, k) ==
    /\ pc[t] \in {"idle", "run"}
    /\ t \in Caller \/ pc[t] = "run"
    /\ future[k] = "none"
    /\ future' = [future EXCEPT ![k] = "pending"]
    /\ running' = TRUE
    /\ pc' = IF running THEN pc ELSE [pc EXCEPT ![t] = "spawn"]
    /\ UNCHANGED <<inline, pooled, held>>

\* Mutant: submit() enters at the front.
SubmitAtFront(t, k) ==
    /\ Enqueue(t, k)
    /\ queue' = <<k>> \o queue
    /\ UNCHANGED urgent

Submit(t, k) ==
    /\ Enqueue(t, k)
    /\ queue' = Append(queue, k)
    /\ UNCHANGED urgent

SubmitUrgent(t, k) ==
    /\ Enqueue(t, k)
    /\ queue' = <<k>> \o queue
    /\ urgent' = urgent \cup {k}

\* Mutant: the queue is cleared and its entries are not kept.
CancelPendingDrops(t) ==
    /\ t \in Caller /\ pc[t] = "idle"
    /\ queue' = <<>>
    /\ pc' = [pc EXCEPT ![t] = "cancel"]
    /\ UNCHANGED <<inline, running, pooled, held, future, urgent>>

\* cancelPending(): the queue is moved out under the lock ...
CancelPending(t) ==
    /\ t \in Caller /\ pc[t] = "idle"
    /\ held' = [held EXCEPT ![t] = queue]
    /\ queue' = <<>>
    /\ pc' = [pc EXCEPT ![t] = "cancel"]
    /\ UNCHANGED <<inline, running, pooled, future, urgent>>

\* ... and each entry's cancel hook runs without it.
CancelOne(t) ==
    /\ pc[t] = "cancel" /\ held[t] # <<>>
    /\ future' = [future EXCEPT ![Head(held[t])] = "cancelled"]
    /\ held' = [held EXCEPT ![t] = Tail(held[t])]
    /\ UNCHANGED <<inline, queue, running, pooled, pc, urgent>>

CancelReturn(t) ==
    /\ pc[t] = "cancel" /\ held[t] = <<>>
    /\ pc' = [pc EXCEPT ![t] = "idle"]
    /\ UNCHANGED <<inline, queue, running, pooled, held, future, urgent>>

\* waitForIdle(), and the destructor, which is a waitForIdle().
WaitForIdle(t) ==
    /\ t \in Caller /\ pc[t] = "idle"
    /\ pc' = [pc EXCEPT ![t] = "woken"]
    /\ UNCHANGED <<inline, queue, running, pooled, held, future, urgent>>

\* Mutant: waitForIdle() waits for an empty queue.
TestQueueEmpty(t) ==
    /\ pc[t] = "woken"
    /\ pc' = [pc EXCEPT ![t] = IF queue # <<>> THEN "wait" ELSE "idle"]
    /\ UNCHANGED <<inline, queue, running, pooled, held, future, urgent>>

\* The predicate is tested under _mutex; a false one releases it in the wait.
TestIdle(t) ==
    /\ pc[t] = "woken"
    /\ pc' = [pc EXCEPT ![t] = IF running THEN "wait" ELSE "idle"]
    /\ UNCHANGED <<inline, queue, running, pooled, held, future, urgent>>

-----------------------------------------------------------------------------
(* The pool, and runNext() on one of its threads (or inline).               *)

\* _pool.submit(runNext), by the thread whose critical section decided on it.
Spawn(t) ==
    /\ pc[t] = "spawn"
    /\ IF inline
       THEN pc' = [pc EXCEPT ![t] = "pop"] /\ UNCHANGED pooled
       ELSE pc' = [pc EXCEPT ![t] = "idle"] /\ pooled' = pooled + 1
    /\ UNCHANGED <<inline, queue, running, held, future, urgent>>

\* A worker takes a runNext() out of the pool's task list.
Dispatch(w) ==
    /\ w \in Worker /\ pc[w] = "idle" /\ ~inline
    /\ pooled > 0
    /\ pooled' = pooled - 1
    /\ pc' = [pc EXCEPT ![w] = "pop"]
    /\ UNCHANGED <<inline, queue, running, held, future, urgent>>

\* First critical section of runNext(); the queue may be empty by now.
Pop(t) ==
    /\ pc[t] = "pop"
    /\ IF queue = <<>>
       THEN /\ pc' = [pc EXCEPT ![t] = "finish"]
            /\ UNCHANGED <<queue, held>>
       ELSE /\ pc' = [pc EXCEPT ![t] = "run"]
            /\ held' = [held EXCEPT ![t] = <<Head(queue)>>]
            /\ queue' = Tail(queue)
    /\ UNCHANGED <<inline, running, pooled, future, urgent>>

\* entry.run() returns: the promise has been fulfilled.
RunBody(t) ==
    /\ pc[t] = "run"
    /\ future' = [future EXCEPT ![Head(held[t])] = "value"]
    /\ held' = [held EXCEPT ![t] = <<>>]
    /\ pc' = [pc EXCEPT ![t] = "finish"]
    /\ UNCHANGED <<inline, queue, running, pooled, urgent>>

\* Mutant: nobody is woken.
WakeNobody(f) == f

\* wakeAll() on _idleCv.
WakeIdle(f) == [t \in Thread |-> IF f[t] = "wait" THEN "woken" ELSE f[t]]

\* Last critical section of runNext(): go idle, or run again for the rest.
FinishTask(t) ==
    /\ pc[t] = "finish"
    /\ IF queue = <<>>
       THEN /\ running' = FALSE
            /\ pc' = WakeIdle([pc EXCEPT ![t] = "idle"])
       ELSE /\ pc' = [pc EXCEPT ![t] = "spawn"]
            /\ UNCHANGED running
    /\ UNCHANGED <<inline, queue, pooled, held, future, urgent>>

-----------------------------------------------------------------------------
\* The steps a thread that is inside the Strand takes on its own.
Continue(t) ==
    \/ Spawn(t) \/ Pop(t) \/ RunBody(t) \/ FinishTask(t)
    \/ CancelOne(t) \/ CancelReturn(t) \/ TestIdle(t)

Request(t) ==
    \/ \E k \in Task : Submit(t, k) \/ SubmitUrgent(t, k)
    \/ CancelPending(t)
    \/ WaitForIdle(t)

Next ==
    \/ \E t \in Thread : Continue(t) \/ Request(t)
    \/ \E w \in Worker : Dispatch(w)

\* Every thread is scheduled, task bodies return, and the pool starts every
\* callable it accepted.  Nobody is obliged to call the Strand.
Fairness ==
    /\ \A t \in Thread : WF_vars(Continue(t))
    /\ WF_vars(\E w \in Worker : Dispatch(w))

Spec == Init /\ [][Next]_vars /\ Fairness

-----------------------------------------------------------------------------
(* Properties.                                                              *)

TypeOK ==
    /\ queue \in Seq(Task)
    /\ running \in BOOLEAN
    /\ inline \in BOOLEAN
    /\ pooled \in Nat
    /\ pc \in [Thread -> PC]
    /\ held \in [Thread -> Seq(Task)]
    /\ future \in [Task -> FutureState]
    /\ urgent \subseteq Task

\* strand.h:44 "Submitted callables themselves run serialized - that is the
\* contract": two threads never execute task bodies at once, whatever mix of
\* submitters, cancellers and pool threads raced on the way there.
MutualExclusion ==
    \A s, t \in Thread : pc[s] = "run" /\ pc[t] = "run" => s = t

\* _running is exactly "one runNext() is owed, pooled or executing", so a
\* second one is never spawned and a queued entry always has one coming; a
\* submitter that finds _running set may leave its entry behind.
SingleLicence ==
    /\ \A s, t \in Runner : s = t
    /\ pooled <= 1
    /\ pooled = 1 => Runner = {}
    /\ running <=> (pooled = 1 \/ Runner # {})
    /\ queue # <<>> => running

\* An unresolved Future always belongs to an entry that is in exactly one
\* place: the queue, the thread executing it, or a cancelPending() under way.
NoLostTask ==
    \A k \in Task :
        (future[k] = "pending") <=>
            \/ k \in Elements(queue)
            \/ \E t \in Thread : pc[t] \in {"run", "cancel"} /\ k \in Elements(held[t])

\* When waitForIdle() returns, no body executes and whatever is not resolved
\* is in the hands of a concurrent cancelPending().
IdleMeansQuiescent ==
    [][\A t \in Thread :
          TestIdle(t) /\ pc'[t] = "idle" =>
              /\ Runner = {}
              /\ \A k \in Task : future[k] = "pending" =>
                     \E s \in Thread : pc[s] = "cancel" /\ k \in Elements(held[s])]_vars

\* waitForIdle() (hence the destructor) returns once the submissions stop.
WaitReturns == \A t \in Caller : pc[t] = "wait" ~> pc[t] = "idle"

\* The refinement mapping: the entry being executed, and those that some
\* cancelPending() has moved out and not yet resolved.
Current ==
    IF \E t \in Thread : pc[t] = "run"
    THEN Head(held[CHOOSE t \in Thread : pc[t] = "run"])
    ELSE NoTask

Doomed == UNION {Elements(held[t]) : t \in {c \in Thread : pc[c] = "cancel"}}

Executor == INSTANCE SerialExecutor WITH
    pending <- queue, current <- Current, doomed <- Doomed

\* The Strand implements the abstract serial executor: bodies start in the
\* order of submission, urgent ones first, one at a time, and every Future is
\* resolved once.
StrandRefinement == Executor!Spec
=============================================================================
