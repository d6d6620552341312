----------------------------- MODULE ThreadPool -----------------------------
(***************************************************************************)
(* ThreadPool (threadpool.h, threadpool.cpp): a task list served by worker   *)
(* threads that are spawned on demand up to a maximum that can be changed.   *)
(*                                                                         *)
(* One step is one critical section of _mutex or one task body.  A worker    *)
(* asleep on _cv and one that was woken but has not got _mutex back are      *)
(* different places, and both are counted by _waitingCount.                  *)
(***************************************************************************)
EXTENDS Integers, Sequences, FiniteSets

CONSTANTS Task,       \* the callables submitted, each once
          Client,     \* threads that use the pool
          Worker,     \* names for worker threads; bounds the threads alive
          Casts,      \* which operations each client calls: the casts considered
          Timed,      \* clients whose waitForDone passes a timeout
          Counts      \* thread counts the pool is created with or resized to

Op == {"submit", "waitForDone", "clear", "setThreadCount", "destroy"}

ASSUME ThreadPoolAssumption ==
    /\ IsFiniteSet(Worker) /\ IsFiniteSet(Client)
    /\ Casts \subseteq [Client -> SUBSET Op]
    /\ Timed \subseteq Client
    /\ Counts \subseteq 0..Cardinality(Worker)

VARIABLES
    tasks,         \* _tasks
    status,        \* what became of each task
    worker,        \* where each worker thread is
    job,           \* the task each worker executes, as a sequence of length 0 or 1
    threads,       \* _threads: the workers that will be joined
    maxThreads,    \* _maxThreadCount
    threadCount,   \* _threadCount
    waitingCount,  \* _waitingCount
    activeCount,   \* _activeCount
    shutdown,      \* _shutdown
    client,        \* where each client is
    toJoin,        \* workers a client still has to join in its unlocked loop
    target,        \* the count it resizes to, -1 for the destructor
    role           \* the cast of this behaviour

counts == <<maxThreads, threadCount, waitingCount, activeCount, shutdown>>
list == <<tasks, status>>
workers == <<worker, job, threads>>
limits == <<maxThreads, threadCount, shutdown>>
resizing == <<toJoin, target, role>>
vars == <<list, workers, counts, client, resizing>>

TaskState == {"new", "queued", "running", "done", "dropped"}
WorkerPlace == {"unborn", "loop", "asleep", "woken", "run", "ran", "exited"}
ClientPlace == {"idle", "inline", "doneTest", "doneWait", "join", "joinLocked", "gone"}

In(place) == {w \in Worker : worker[w] = place}

\* spawnThreads(n) on thread names that are not in use.
Fresh(n) == {S \in SUBSET In("unborn") : Cardinality(S) = n}
Start(f, S) == [w \in Worker |-> IF w \in S THEN "loop" ELSE f[w]]

Init ==
    /\ tasks = <<>>
    /\ status = [k \in Task |-> "new"]
    /\ maxThreads \in Counts
    /\ threadCount \in {0, maxThreads}         \* lazy or not
    /\ \E S \in SUBSET Worker :
          /\ Cardinality(S) = threadCount
          /\ threads = S
          /\ worker = [w \in Worker |-> IF w \in S THEN "loop" ELSE "unborn"]
    /\ job = [w \in Worker |-> <<>>]
    /\ waitingCount = 0
    /\ activeCount = 0
    /\ shutdown = FALSE
    /\ client = [c \in Client |-> "idle"]
    /\ toJoin = [c \in Client |-> {}]
    /\ target = [c \in Client |-> 0]
    /\ role \in Casts

\* A client destroying its threads list under _mutex keeps everybody else out.
Free == \A c \in Client : client[c] # "joinLocked"

Idle(c, o) ==
    /\ client[c] = "idle" /\ o \in role[c] /\ Free
    /\ \A d \in Client : client[d] # "gone" /\ (client[d] = "join" => target[d] >= 0)

-----------------------------------------------------------------------------
(* submit(): in the list, maybe with a new worker, and one sleeper notified. *)

\* maybeSpawnOne(): the workers to spawn.
MaybeSpawnOne == IF threadCount < maxThreads /\ waitingCount = 0 THEN Fresh(1) ELSE {{}}

WakeOne(f) ==
    LET S == {w \in Worker : f[w] = "asleep"}
    IN  IF S = {} THEN {f} ELSE {[f EXCEPT ![w] = "woken"] : w \in S}

WakeAll(f) == [w \in Worker |-> IF f[w] = "asleep" THEN "woken" ELSE f[w]]

Submit(c, k) ==
    /\ Idle(c, "submit") /\ status[k] = "new" /\ maxThreads > 0
    /\ tasks' = Append(tasks, k)
    /\ status' = [status EXCEPT ![k] = "queued"]
    /\ \E S \in MaybeSpawnOne :
          /\ worker' \in WakeOne(Start(worker, S))
          /\ threads' = threads \cup S
          /\ threadCount' = threadCount + Cardinality(S)
    /\ UNCHANGED <<job, maxThreads, waitingCount, activeCount, shutdown, client, resizing>>

\* With no threads allowed the task runs on the caller, outside _activeCount.
SubmitInline(c, k) ==
    /\ Idle(c, "submit") /\ status[k] = "new" /\ maxThreads = 0
    /\ status' = [status EXCEPT ![k] = "running"]
    /\ client' = [client EXCEPT ![c] = "inline"]
    /\ UNCHANGED <<tasks, workers, counts, resizing>>

InlineReturn(c) ==
    /\ client[c] = "inline"
    /\ \E k \in Task :
          /\ status[k] = "running" /\ \A w \in Worker : job[w] # <<k>>
          /\ status' = [status EXCEPT ![k] = "done"]
    /\ client' = [client EXCEPT ![c] = "idle"]
    /\ UNCHANGED <<tasks, workers, counts, resizing>>

-----------------------------------------------------------------------------
(* workerFunc(): one test of the list per wake-up, then the task, then the   *)
(* bookkeeping.                                                              *)

\* The worker leaves the wait loop, or never entered it.
NoLongerWaiting(w) == IF worker[w] = "woken" THEN waitingCount - 1 ELSE waitingCount

Take(w) ==
    /\ Free /\ worker[w] \in {"loop", "woken"} /\ tasks # <<>>
    /\ waitingCount' = NoLongerWaiting(w)
    /\ activeCount' = activeCount + 1
    /\ tasks' = Tail(tasks)
    /\ job' = [job EXCEPT ![w] = <<Head(tasks)>>]
    /\ status' = [status EXCEPT ![Head(tasks)] = "running"]
    /\ worker' = [worker EXCEPT ![w] = "run"]
    /\ UNCHANGED <<threads, limits, client, resizing>>

FallAsleep(w) ==
    /\ Free /\ worker[w] \in {"loop", "woken"} /\ tasks = <<>> /\ ~shutdown
    /\ waitingCount' = NoLongerWaiting(w) + 1
    /\ worker' = [worker EXCEPT ![w] = "asleep"]
    /\ UNCHANGED <<list, job, threads, limits, activeCount, client, resizing>>

\* Mutant: shutdown makes a worker exit whatever is queued.
ExitNow == shutdown

\* Only an empty list lets a worker exit: shutdown drains what is queued.
MayExit == tasks = <<>> /\ shutdown

Exit(w) ==
    /\ Free /\ worker[w] \in {"loop", "woken"} /\ MayExit
    /\ waitingCount' = NoLongerWaiting(w)
    /\ worker' = [worker EXCEPT ![w] = "exited"]
    /\ UNCHANGED <<list, job, threads, limits, activeCount, client, resizing>>

\* The body returns and its Future is ready, before the pool counts it done.
Body(w) ==
    /\ worker[w] = "run"
    /\ status' = [status EXCEPT ![Head(job[w])] = "done"]
    /\ job' = [job EXCEPT ![w] = <<>>]
    /\ worker' = [worker EXCEPT ![w] = "ran"]
    /\ UNCHANGED <<tasks, threads, counts, client, resizing>>

WakeDone == [c \in Client |-> IF client[c] = "doneWait" THEN "doneTest" ELSE client[c]]

\* Mutant: _activeCount is tested before it is decremented.
NoOtherCounted == tasks = <<>> /\ activeCount = 0

\* The decremented _activeCount is 0 and the list is empty.
LastOne == tasks = <<>> /\ activeCount = 1

Account(w) ==
    /\ Free /\ worker[w] = "ran"
    /\ activeCount' = activeCount - 1
    /\ worker' = [worker EXCEPT ![w] = "loop"]
    /\ client' = IF LastOne THEN WakeDone ELSE client
    /\ UNCHANGED <<list, job, threads, limits, waitingCount, resizing>>

-----------------------------------------------------------------------------
(* waitForDone() and clear().                                                *)

WaitForDone(c) ==
    /\ Idle(c, "waitForDone")
    /\ client' = [client EXCEPT ![c] = "doneTest"]
    /\ UNCHANGED <<list, workers, counts, resizing>>

AllDone == tasks = <<>> /\ activeCount = 0

TestDone(c) ==
    /\ Free /\ client[c] = "doneTest"
    /\ client' = [client EXCEPT ![c] = IF AllDone THEN "idle" ELSE "doneWait"]
    /\ UNCHANGED <<list, workers, counts, resizing>>

DoneTimeout(c) ==
    /\ Free /\ client[c] = "doneWait" /\ c \in Timed
    /\ client' = [client EXCEPT ![c] = "idle"]
    /\ UNCHANGED <<list, workers, counts, resizing>>

\* Nobody waiting on _doneCv is told that the list is empty now.
Clear(c) ==
    /\ Idle(c, "clear")
    /\ tasks' = <<>>
    /\ status' = [k \in Task |-> IF status[k] = "queued" THEN "dropped" ELSE status[k]]
    /\ UNCHANGED <<workers, counts, client, resizing>>

-----------------------------------------------------------------------------
(* setThreadCount() and the destructor: shut down and join without the lock, *)
(* then, for a resize, drop the joined threads and start again.              *)

\* Mutant: sleeping workers are not told.
TellNobody(f) == f

\* The workers are told of the shutdown.
Tell(f) == WakeAll(f)

\* The join loop walks _threads unlocked; it is taken to see the list as it is
\* when the loop begins (a worker added during the loop is not joined by it).
BeginJoin(c, n) ==
    /\ shutdown' = TRUE
    /\ worker' = Tell(worker)
    /\ toJoin' = [toJoin EXCEPT ![c] = threads]
    /\ target' = [target EXCEPT ![c] = n]
    /\ client' = [client EXCEPT ![c] = "join"]
    /\ UNCHANGED <<list, job, threads, maxThreads, threadCount, waitingCount, activeCount,
                   role>>

SetThreadCount(c) ==
    /\ Idle(c, "setThreadCount")
    /\ \A d \in Client : client[d] # "join"      \* bound: one resize at a time
    /\ \E n \in Counts \ {maxThreads} : BeginJoin(c, n)

\* Destroying a pool other threads still use is outside any contract.
Destroy(c) ==
    /\ Idle(c, "destroy")
    /\ \A d \in Client : client[d] = "idle"
    /\ BeginJoin(c, -1)

Join(c, w) ==
    /\ client[c] = "join" /\ w \in toJoin[c] /\ worker[w] = "exited"
    /\ toJoin' = [toJoin EXCEPT ![c] = @ \ {w}]
    /\ UNCHANGED <<list, workers, counts, client, target, role>>

\* _threads.clear() under _mutex: ~BasicThread joins what the loop missed.
ClearThreads(c) ==
    /\ Free /\ client[c] = "join" /\ toJoin[c] = {} /\ target[c] >= 0
    /\ client' = [client EXCEPT ![c] = "joinLocked"]
    /\ UNCHANGED <<list, workers, counts, resizing>>

\* Mutants: _threadCount is not reset; _shutdown is not reset.
KeptCount == threadCount
KeptShutdown == shutdown

\* What the resize resets before it spawns.
ResetCount == 0
ResetShutdown == FALSE

Resized(c) ==
    /\ client[c] = "joinLocked" /\ threads \subseteq In("exited")
    /\ maxThreads' = target[c]
    /\ shutdown' = ResetShutdown
    /\ waitingCount' = 0
    /\ LET retired == [w \in Worker |-> IF w \in threads THEN "unborn" ELSE worker[w]]
       IN  \E n \in {0, target[c]}, S \in SUBSET Worker :      \* lazy or not
              /\ Cardinality(S) = n
              /\ \A w \in S : retired[w] = "unborn"
              /\ worker' = Start(retired, S)
              /\ threads' = S
              /\ threadCount' = ResetCount + n
    /\ client' = [client EXCEPT ![c] = "idle"]
    /\ UNCHANGED <<list, job, activeCount, resizing>>

Destroyed(c) ==
    /\ client[c] = "join" /\ toJoin[c] = {} /\ target[c] = -1
    /\ client' = [client EXCEPT ![c] = "gone"]
    /\ UNCHANGED <<list, workers, counts, resizing>>

-----------------------------------------------------------------------------
WorkerStep(w) == Take(w) \/ FallAsleep(w) \/ Exit(w) \/ Account(w)

ClientStep(c) ==
    \/ InlineReturn(c) \/ TestDone(c) \/ DoneTimeout(c) \/ ClearThreads(c)
    \/ Resized(c) \/ Destroyed(c) \/ \E w \in Worker : Join(c, w)

Request(c) ==
    \/ \E k \in Task : Submit(c, k) \/ SubmitInline(c, k)
    \/ WaitForDone(c) \/ Clear(c) \/ SetThreadCount(c) \/ Destroy(c)

Next ==
    \/ \E w \in Worker : WorkerStep(w) \/ Body(w)
    \/ \E c \in Client : ClientStep(c) \/ Request(c)

\* Threads are scheduled and bodies return.
Fairness ==
    /\ \A w \in Worker : WF_vars(WorkerStep(w)) /\ WF_vars(Body(w))
    /\ \A c \in Client : WF_vars(ClientStep(c))

Spec == Init /\ [][Next]_vars /\ Fairness

-----------------------------------------------------------------------------
(* Properties.                                                              *)

TypeOK ==
    /\ tasks \in Seq(Task)
    /\ status \in [Task -> TaskState]
    /\ worker \in [Worker -> WorkerPlace]
    /\ job \in [Worker -> Seq(Task)]
    /\ threads \subseteq Worker
    /\ maxThreads \in Counts
    /\ threadCount \in 0..Cardinality(Worker)
    /\ waitingCount \in 0..Cardinality(Worker)
    /\ activeCount \in 0..Cardinality(Worker)
    /\ shutdown \in BOOLEAN
    /\ client \in [Client -> ClientPlace]
    /\ toJoin \in [Client -> SUBSET Worker]
    /\ target \in [Client -> Counts \cup {-1, 0}]
    /\ role \in Casts

\* The counters that decide on spawning, on waking and on the end of
\* waitForDone() agree with where the threads really are, across resizes too.
CountsAgree ==
    /\ waitingCount = Cardinality(In("asleep") \cup In("woken"))
    /\ activeCount = Cardinality(In("run") \cup In("ran"))
    /\ threadCount = Cardinality(threads)
    /\ threadCount <= maxThreads
    /\ threads = Worker \ In("unborn")

\* The destructor returns from a pool that finished everything it accepted.
DestroyDrains ==
    \A c \in Client : client[c] = "gone" =>
        /\ tasks = <<>>
        /\ \A k \in Task : status[k] \notin {"queued", "running"}

\* Every submitted task runs (or is cleared), whatever resizes go on.
\* threadpool.h:61 "Fully thread-safe. submit, setThreadCount, ... may be
\* called concurrently from any thread".
EveryTaskRuns == \A k \in Task : status[k] = "queued" ~> status[k] \in {"done", "dropped"}

\* setThreadCount() returns.
ResizeReturns == \A c \in Client : client[c] \in {"join", "joinLocked"} ~> client[c] \in {"idle", "gone"}

\* waitForDone() does not sleep on when there is nothing left to wait for.
\* threadpool.h:249 "Blocks until all submitted tasks have completed".
DoneSeen ==
    \A c \in Client : (client[c] = "doneWait" /\ AllDone) ~> (client[c] # "doneWait" \/ ~AllDone)
=============================================================================
