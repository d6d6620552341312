--------------------------- MODULE ThreadPoolProofs ---------------------------
(***************************************************************************)
(* What holds of ThreadPool for every number of workers, clients and tasks:  *)
(* the types, the counters that agree with where the threads are, and a      *)
(* destructor that leaves no task behind.                                    *)
(*                                                                         *)
(* A worker that goes from one place to another moves one count by one       *)
(* (Moved).  A resize sets _waitingCount to 0 rather than counting: that is  *)
(* right because _threads holds every worker there is, and the locked join   *)
(* waits for all of them to exit.  For the destructor, every task is in one  *)
(* place (Placed), and workers leave only an empty list (Orderly).           *)
(***************************************************************************)
EXTENDS ThreadPool, FiniteSetTheorems, TLAPS

\* How many workers are at one of the places P.
At(f, P) == {w \in Worker : f[w] \in P}
Count(f, P) == Cardinality(At(f, P))

\* A count is a number between 0 and the number of worker names.
LEMMA Counted ==
  ASSUME NEW f, NEW P
  PROVE  Count(f, P) \in 0 .. Cardinality(Worker) /\ IsFiniteSet(At(f, P))
<1>1. At(f, P) \subseteq Worker /\ IsFiniteSet(Worker)
  BY ThreadPoolAssumption DEF At
<1>2. IsFiniteSet(At(f, P)) /\ Cardinality(At(f, P)) <= Cardinality(Worker)
  BY <1>1, FS_Subset
<1>3. Cardinality(At(f, P)) \in Nat /\ Cardinality(Worker) \in Nat
  BY <1>1, <1>2, FS_CardinalityType
<1> QED BY <1>2, <1>3 DEF Count

\* Worker w went from its place in f to its place in g.
Shifts(f, g, w, P) ==
    Count(g, P) = Count(f, P) + (IF g[w] \in P THEN 1 ELSE 0) - (IF f[w] \in P THEN 1 ELSE 0)

\* One worker that moves changes the count of a set of places by at most one.
LEMMA Moved ==
  ASSUME NEW P, NEW f, NEW g, NEW w \in Worker, \A v \in Worker : v # w => g[v] = f[v]
  PROVE  Shifts(f, g, w, P)
<1>1. Count(f, P) \in Nat /\ IsFiniteSet(At(f, P))
  BY Counted
<1>2. At(g, P) = IF g[w] \in P THEN At(f, P) \cup {w} ELSE At(f, P) \ {w}
  BY DEF At
<1>3. w \in At(f, P) <=> f[w] \in P
  BY DEF At
<1>4. Cardinality(At(f, P) \cup {w}) = IF w \in At(f, P) THEN Cardinality(At(f, P))
                                                          ELSE Cardinality(At(f, P)) + 1
  BY <1>1, FS_AddElement
<1>5. Cardinality(At(f, P) \ {w}) = IF w \in At(f, P) THEN Cardinality(At(f, P)) - 1
                                                       ELSE Cardinality(At(f, P))
  BY <1>1, FS_RemoveElement
<1>6. Count(g, P) = Count(f, P) + (IF g[w] \in P THEN 1 ELSE 0) - (IF f[w] \in P THEN 1 ELSE 0)
  <2>1. CASE g[w] \in P /\ f[w] \in P
    BY <1>1, <1>2, <1>3, <1>4, <2>1 DEF Count
  <2>2. CASE g[w] \in P /\ f[w] \notin P
    BY <1>1, <1>2, <1>3, <1>4, <2>2 DEF Count
  <2>3. CASE g[w] \notin P /\ f[w] \in P
    BY <1>1, <1>2, <1>3, <1>5, <2>3 DEF Count
  <2>4. CASE g[w] \notin P /\ f[w] \notin P
    BY <1>1, <1>2, <1>3, <1>5, <2>4 DEF Count
  <2> QED BY <2>1, <2>2, <2>3, <2>4
<1> QED BY <1>6 DEF Shifts

Sleepy == {"asleep", "woken"}
Busy == {"run", "ran"}

\* Counts that agree, in terms of Count.
Agreed ==
    /\ waitingCount = Count(worker, Sleepy)
    /\ activeCount = Count(worker, Busy)
    /\ threadCount = Cardinality(threads)
    /\ threadCount <= maxThreads
    /\ threads = Worker \ At(worker, {"unborn"})

\* Agreed is CountsAgree, in terms of Count.
LEMMA AgreedMeans == Agreed <=> CountsAgree
<1>1. In("asleep") \cup In("woken") = At(worker, Sleepy)
  BY DEF In, At, Sleepy
<1>2. In("run") \cup In("ran") = At(worker, Busy)
  BY DEF In, At, Busy
<1>3. In("unborn") = At(worker, {"unborn"})
  BY DEF In, At
<1> QED BY <1>1, <1>2, <1>3 DEF Agreed, CountsAgree, Count

\* Everything of TypeOK but the counters.
Typed ==
    /\ tasks \in Seq(Task) /\ status \in [Task -> TaskState] /\ worker \in [Worker -> WorkerPlace]
    /\ job \in [Worker -> Seq(Task)] /\ threads \subseteq Worker /\ maxThreads \in Counts
    /\ shutdown \in BOOLEAN /\ client \in [Client -> ClientPlace]
    /\ toJoin \in [Client -> SUBSET Worker] /\ target \in [Client -> Counts \cup {-1, 0}]
    /\ role \in Casts

\* A busy worker has its task in hand.
Handed == \A w \in Worker : worker[w] = "run" => job[w] # <<>>

\* A client in the loops of a resize knows where it leads.
Aimed ==
    \A c \in Client : /\ client[c] = "join" => target[c] \in Counts \cup {-1}
                      /\ client[c] = "joinLocked" => target[c] \in Counts

\* The inductive invariant.
IInv == Typed /\ Handed /\ Aimed /\ Agreed

\* The invariant is strong enough for the type invariant: counts are bounded.
LEMMA InvTyped == IInv => TypeOK
<1> SUFFICES ASSUME IInv PROVE TypeOK
  OBVIOUS
<1>1. waitingCount \in 0 .. Cardinality(Worker) /\ activeCount \in 0 .. Cardinality(Worker)
  BY Counted DEF IInv, Agreed
<1>2. threadCount \in 0 .. Cardinality(Worker)
  <2>1. threads \subseteq Worker /\ IsFiniteSet(Worker)
    BY ThreadPoolAssumption DEF IInv, Typed
  <2>2. IsFiniteSet(threads) /\ Cardinality(threads) <= Cardinality(Worker)
    BY <2>1, FS_Subset
  <2>3. Cardinality(threads) \in Nat /\ Cardinality(Worker) \in Nat
    BY <2>1, <2>2, FS_CardinalityType
  <2> QED BY <2>2, <2>3 DEF IInv, Agreed
<1> QED BY <1>1, <1>2 DEF IInv, Typed, TypeOK

\* The workers at the places P are the same.
LEMMA SameCount ==
  ASSUME NEW f, NEW g, NEW P, \A w \in Worker : f[w] \in P <=> g[w] \in P
  PROVE  Count(f, P) = Count(g, P) /\ At(f, P) = At(g, P)
<1>1. At(f, P) = At(g, P)
  BY DEF At
<1> QED BY <1>1 DEF Count

\* Starting workers makes a placement of workers.
LEMMA StartOf ==
  ASSUME NEW f \in [Worker -> WorkerPlace], NEW S
  PROVE  /\ Start(f, S) \in [Worker -> WorkerPlace]
         /\ \A w \in Worker : Start(f, S)[w] = IF w \in S THEN "loop" ELSE f[w]
BY DEF Start, WorkerPlace

\* Waking one sleeper changes nothing but its place.
LEMMA WakeOneOf ==
  ASSUME NEW f \in [Worker -> WorkerPlace], NEW g \in WakeOne(f)
  PROVE  /\ g \in [Worker -> WorkerPlace]
         /\ \A w \in Worker : g[w] = f[w] \/ (f[w] = "asleep" /\ g[w] = "woken")
BY DEF WakeOne, WorkerPlace

\* Waking all sleepers changes nothing but their places.
LEMMA WakeAllOf ==
  ASSUME NEW f \in [Worker -> WorkerPlace]
  PROVE  /\ WakeAll(f) \in [Worker -> WorkerPlace]
         /\ \A w \in Worker : WakeAll(f)[w] = f[w] \/ (f[w] = "asleep" /\ WakeAll(f)[w] = "woken")
BY DEF WakeAll, WorkerPlace

\* A new pool, lazy or not, satisfies the invariant.
LEMMA InvInit == Init => IInv
<1> SUFFICES ASSUME Init PROVE IInv
  OBVIOUS
<1>1. PICK S \in SUBSET Worker :
        /\ Cardinality(S) = threadCount /\ threads = S
        /\ worker = [w \in Worker |-> IF w \in S THEN "loop" ELSE "unborn"]
  BY DEF Init
<1>2. Typed
  <2>1. worker \in [Worker -> WorkerPlace] /\ threads \subseteq Worker
    BY <1>1 DEF WorkerPlace
  <2>2. /\ tasks \in Seq(Task) /\ status \in [Task -> TaskState] /\ job \in [Worker -> Seq(Task)]
        /\ client \in [Client -> ClientPlace]
    BY DEF Init, TaskState, ClientPlace
  <2>3. /\ maxThreads \in Counts /\ shutdown \in BOOLEAN /\ role \in Casts
        /\ toJoin \in [Client -> SUBSET Worker] /\ target \in [Client -> Counts \cup {-1, 0}]
    BY DEF Init
  <2> QED BY <2>1, <2>2, <2>3 DEF Typed
<1>3. Handed /\ Aimed
  BY <1>1 DEF Init, Handed, Aimed
<1>4. At(worker, Sleepy) = {} /\ At(worker, Busy) = {} /\ At(worker, {"unborn"}) = Worker \ S
  BY <1>1 DEF At, Sleepy, Busy
<1>5. threadCount <= maxThreads
  BY ThreadPoolAssumption, FS_CardinalityType DEF Init
<1> QED BY <1>1, <1>2, <1>3, <1>4, <1>5, FS_EmptySet DEF IInv, Agreed, Count, Init

\* Steps that leave the workers and what is counted alone.
LEMMA ClientOnly ==
  ASSUME IInv, UNCHANGED <<worker, job, threads, counts>>,
         tasks' \in Seq(Task), status' \in [Task -> TaskState], client' \in [Client -> ClientPlace],
         toJoin' \in [Client -> SUBSET Worker], target' \in [Client -> Counts \cup {-1, 0}],
         role' = role, Aimed'
  PROVE  IInv'
<1>1. Typed' /\ Handed'
  BY DEF IInv, Typed, Handed, counts
<1>2. Agreed'
  BY DEF IInv, Agreed, counts
<1> QED BY <1>1, <1>2 DEF IInv

\* Steps that move one worker, and count it.
LEMMA WorkerMoves ==
  ASSUME IInv, NEW w \in Worker, NEW x \in WorkerPlace \ {"unborn"}, worker[w] # "unborn",
         worker' = [worker EXCEPT ![w] = x], threads' = threads, limits' = limits,
         waitingCount' = waitingCount + (IF x \in Sleepy THEN 1 ELSE 0)
                                      - (IF worker[w] \in Sleepy THEN 1 ELSE 0),
         activeCount' = activeCount + (IF x \in Busy THEN 1 ELSE 0)
                                    - (IF worker[w] \in Busy THEN 1 ELSE 0)
  PROVE  Agreed' /\ worker' \in [Worker -> WorkerPlace]
<1>1. worker \in [Worker -> WorkerPlace]
  BY DEF IInv, Typed
<1>2. \A P : Count(worker', P) = Count(worker, P) + (IF x \in P THEN 1 ELSE 0)
                                                 - (IF worker[w] \in P THEN 1 ELSE 0)
  <2> TAKE P
  <2>1. worker'[w] = x /\ \A v \in Worker : v # w => worker'[v] = worker[v]
    BY <1>1
  <2>2. Shifts(worker, worker', w, P)
    BY <2>1, Moved
  <2> QED BY <2>1, <2>2 DEF Shifts
<1>3. At(worker', {"unborn"}) = At(worker, {"unborn"})
  BY <1>1 DEF At
<1>4. waitingCount' = Count(worker', Sleepy) /\ activeCount' = Count(worker', Busy)
  BY <1>2 DEF IInv, Agreed
<1> QED BY <1>1, <1>3, <1>4 DEF IInv, Agreed, limits

\* The worker's own steps.
LEMMA WorkerInv == ASSUME NEW w \in Worker, IInv, WorkerStep(w) \/ Body(w) PROVE IInv'
<1>0. /\ Typed /\ Handed /\ Aimed /\ Agreed /\ worker \in [Worker -> WorkerPlace]
      /\ waitingCount \in Nat /\ activeCount \in Nat
  <2>1. Count(worker, Sleepy) \in Nat /\ Count(worker, Busy) \in Nat
    BY Counted
  <2> QED BY <2>1 DEF IInv, Typed, Agreed
<1>1. CASE Take(w)
  <2>1. /\ worker[w] \in {"loop", "woken"} /\ tasks # <<>> /\ waitingCount' = NoLongerWaiting(w)
        /\ activeCount' = activeCount + 1 /\ tasks' = Tail(tasks)
        /\ job' = [job EXCEPT ![w] = <<Head(tasks)>>]
        /\ status' = [status EXCEPT ![Head(tasks)] = "running"]
        /\ worker' = [worker EXCEPT ![w] = "run"]
        /\ UNCHANGED <<threads, limits, client, resizing>>
    BY <1>1 DEF Take
  <2>2. Agreed' /\ worker' \in [Worker -> WorkerPlace]
    <3>1. /\ waitingCount' = waitingCount + 0 - (IF worker[w] \in Sleepy THEN 1 ELSE 0)
          /\ activeCount' = activeCount + 1 - 0
      BY <1>0, <2>1 DEF NoLongerWaiting, Sleepy
    <3>2. "run" \in WorkerPlace \ {"unborn"} /\ worker[w] # "unborn" /\ worker[w] \notin Busy
          /\ "run" \in Busy /\ "run" \notin Sleepy
      BY <2>1 DEF WorkerPlace, Busy, Sleepy
    <3> QED BY <1>0, <2>1, <3>1, <3>2, WorkerMoves
  <2>3. Head(tasks) \in Task /\ Tail(tasks) \in Seq(Task)
    BY <1>0, <2>1 DEF Typed
  <2>4. "running" \in TaskState
    BY DEF TaskState
  <2>5. Typed'
    BY <1>0, <2>1, <2>2, <2>3, <2>4 DEF Typed, limits, resizing
  <2>6. Handed'
    BY <1>0, <2>1, <2>3 DEF Handed, Typed
  <2>7. Aimed'
    BY <1>0, <2>1 DEF Aimed, resizing
  <2> QED BY <2>2, <2>5, <2>6, <2>7 DEF IInv
<1>2. CASE FallAsleep(w)
  <2>1. /\ worker[w] \in {"loop", "woken"} /\ waitingCount' = NoLongerWaiting(w) + 1
        /\ worker' = [worker EXCEPT ![w] = "asleep"]
        /\ UNCHANGED <<list, job, threads, limits, activeCount, client, resizing>>
    BY <1>2 DEF FallAsleep
  <2>2. Agreed' /\ worker' \in [Worker -> WorkerPlace]
    <3>1. waitingCount' = waitingCount + 1 - (IF worker[w] \in Sleepy THEN 1 ELSE 0)
      BY <1>0, <2>1 DEF NoLongerWaiting, Sleepy
    <3>2. "asleep" \in WorkerPlace \ {"unborn"} /\ worker[w] # "unborn" /\ worker[w] \notin Busy
          /\ "asleep" \notin Busy /\ "asleep" \in Sleepy
      BY <2>1 DEF WorkerPlace, Busy, Sleepy
    <3>3. activeCount' = activeCount + 0 - 0
      BY <1>0, <2>1
    <3> QED BY <1>0, <2>1, <3>1, <3>2, <3>3, WorkerMoves
  <2>3. Typed' /\ Handed' /\ Aimed'
    BY <1>0, <2>1, <2>2 DEF Typed, Handed, Aimed, limits, resizing, list
  <2> QED BY <2>2, <2>3 DEF IInv
<1>3. CASE Exit(w)
  <2>1. /\ worker[w] \in {"loop", "woken"} /\ waitingCount' = NoLongerWaiting(w)
        /\ worker' = [worker EXCEPT ![w] = "exited"]
        /\ UNCHANGED <<list, job, threads, limits, activeCount, client, resizing>>
    BY <1>3 DEF Exit
  <2>2. Agreed' /\ worker' \in [Worker -> WorkerPlace]
    <3>1. waitingCount' = waitingCount + 0 - (IF worker[w] \in Sleepy THEN 1 ELSE 0)
      BY <1>0, <2>1 DEF NoLongerWaiting, Sleepy
    <3>2. "exited" \in WorkerPlace \ {"unborn"} /\ worker[w] # "unborn" /\ worker[w] \notin Busy
          /\ "exited" \notin Busy /\ "exited" \notin Sleepy
      BY <2>1 DEF WorkerPlace, Busy, Sleepy
    <3>3. activeCount' = activeCount + 0 - 0
      BY <1>0, <2>1
    <3> QED BY <1>0, <2>1, <3>1, <3>2, <3>3, WorkerMoves
  <2>3. Typed' /\ Handed' /\ Aimed'
    BY <1>0, <2>1, <2>2 DEF Typed, Handed, Aimed, limits, resizing, list
  <2> QED BY <2>2, <2>3 DEF IInv
<1>4. CASE Account(w)
  <2>1. /\ worker[w] = "ran" /\ activeCount' = activeCount - 1
        /\ worker' = [worker EXCEPT ![w] = "loop"]
        /\ client' = IF LastOne THEN WakeDone ELSE client
        /\ UNCHANGED <<list, job, threads, limits, waitingCount, resizing>>
    BY <1>4 DEF Account
  <2>2. Agreed' /\ worker' \in [Worker -> WorkerPlace]
    <3>1. "loop" \in WorkerPlace \ {"unborn"} /\ worker[w] # "unborn" /\ worker[w] \in Busy
          /\ "loop" \notin Busy /\ "loop" \notin Sleepy /\ worker[w] \notin Sleepy
      BY <2>1 DEF WorkerPlace, Busy, Sleepy
    <3>2. waitingCount' = waitingCount + 0 - 0 /\ activeCount' = activeCount + 0 - 1
      BY <1>0, <2>1
    <3> QED BY <1>0, <2>1, <3>1, <3>2, WorkerMoves
  <2>3. client' \in [Client -> ClientPlace]
    BY <1>0, <2>1 DEF WakeDone, Typed, ClientPlace
  <2>4. \A c \in Client : client'[c] \in {"join", "joinLocked"} => client[c] = client'[c]
    BY <1>0, <2>1 DEF WakeDone, Typed
  <2>5. Typed' /\ Handed'
    BY <1>0, <2>1, <2>2, <2>3 DEF Typed, Handed, limits, resizing, list
  <2>6. Aimed'
    BY <1>0, <2>1, <2>4 DEF Aimed, resizing
  <2> QED BY <2>2, <2>5, <2>6 DEF IInv
<1>5. CASE Body(w)
  <2>1. /\ worker[w] = "run" /\ status' = [status EXCEPT ![Head(job[w])] = "done"]
        /\ job' = [job EXCEPT ![w] = <<>>] /\ worker' = [worker EXCEPT ![w] = "ran"]
        /\ UNCHANGED <<tasks, threads, counts, client, resizing>>
    BY <1>5 DEF Body
  <2>2. Agreed' /\ worker' \in [Worker -> WorkerPlace]
    <3>1. "ran" \in WorkerPlace \ {"unborn"} /\ worker[w] # "unborn" /\ worker[w] \in Busy
          /\ "ran" \in Busy /\ "ran" \notin Sleepy /\ worker[w] \notin Sleepy
      BY <2>1 DEF WorkerPlace, Busy, Sleepy
    <3>2. waitingCount' = waitingCount + 0 - 0 /\ activeCount' = activeCount + 1 - 1 /\ limits' = limits
      BY <1>0, <2>1 DEF counts, limits
    <3> QED BY <1>0, <2>1, <3>1, <3>2, WorkerMoves
  <2>3. "done" \in TaskState /\ <<>> \in Seq(Task)
    BY DEF TaskState
  <2>4. Typed' /\ Handed' /\ Aimed'
    BY <1>0, <2>1, <2>2, <2>3 DEF Typed, Handed, Aimed, counts, resizing
  <2> QED BY <2>2, <2>4 DEF IInv
<1> QED BY <1>1, <1>2, <1>3, <1>4, <1>5 DEF WorkerStep

\* Adding threads.
LEMMA Spawned ==
  ASSUME IInv, NEW S \in MaybeSpawnOne
  PROVE  /\ S \subseteq At(worker, {"unborn"}) /\ IsFiniteSet(S) /\ Cardinality(S) \in Nat
         /\ Cardinality(threads \cup S) = threadCount + Cardinality(S)
         /\ threadCount + Cardinality(S) <= maxThreads
<1>1. /\ threads \subseteq Worker /\ IsFiniteSet(Worker) /\ maxThreads \in Nat
      /\ threadCount = Cardinality(threads) /\ threadCount <= maxThreads
      /\ threads \cap At(worker, {"unborn"}) = {}
  BY ThreadPoolAssumption, FS_CardinalityType DEF IInv, Typed, Agreed
<1>2. IsFiniteSet(threads) /\ threadCount \in Nat
  BY <1>1, FS_Subset, FS_CardinalityType
<1>3. CASE S = {}
  BY <1>1, <1>2, <1>3, FS_EmptySet
<1>4. CASE S \in Fresh(1) /\ threadCount < maxThreads
  <2>1. S \subseteq At(worker, {"unborn"}) /\ Cardinality(S) = 1
    BY <1>4 DEF Fresh, In, At
  <2>2. IsFiniteSet(S)
    BY <1>1, <2>1, FS_Subset DEF At
  <2>3. threads \cap S = {}
    BY <1>1, <2>1
  <2>4. Cardinality(threads \cup S) = Cardinality(threads) + Cardinality(S)
                                       - Cardinality(threads \cap S)
    BY <1>2, <2>2, FS_Union
  <2>5. Cardinality(threads \cap S) = 0
    BY <2>3, FS_EmptySet, Zenon
  <2>6. Cardinality(threads \cup S) = threadCount + Cardinality(S)
    BY <1>1, <1>2, <2>1, <2>4, <2>5
  <2>7. threadCount + Cardinality(S) <= maxThreads
    BY <1>1, <1>2, <1>4, <2>1
  <2> QED BY <2>1, <2>2, <2>6, <2>7
<1> QED BY <1>3, <1>4 DEF MaybeSpawnOne

\* submit() keeps it: a new worker is in neither counter, nor is a woken one lost.
LEMMA SubmitInv == ASSUME NEW c \in Client, NEW k \in Task, IInv, Submit(c, k) PROVE IInv'
<1>0. Typed /\ Handed /\ Aimed /\ Agreed /\ worker \in [Worker -> WorkerPlace]
  BY DEF IInv, Typed
<1>1. /\ tasks' = Append(tasks, k) /\ status' = [status EXCEPT ![k] = "queued"]
      /\ UNCHANGED <<job, maxThreads, waitingCount, activeCount, shutdown, client, resizing>>
  BY DEF Submit
<1>2. PICK S \in MaybeSpawnOne :
        /\ worker' \in WakeOne(Start(worker, S)) /\ threads' = threads \cup S
        /\ threadCount' = threadCount + Cardinality(S)
  BY DEF Submit
<1>3. /\ S \subseteq At(worker, {"unborn"}) /\ Cardinality(threads \cup S) = threadCount + Cardinality(S)
      /\ threadCount + Cardinality(S) <= maxThreads
  BY Spawned
<1>4. PICK f \in [Worker -> WorkerPlace] :
        f = Start(worker, S) /\ \A w \in Worker : f[w] = IF w \in S THEN "loop" ELSE worker[w]
  BY <1>0, StartOf
<1>5. /\ worker' \in [Worker -> WorkerPlace]
      /\ \A w \in Worker : worker'[w] = f[w] \/ (f[w] = "asleep" /\ worker'[w] = "woken")
  <2>1. worker' \in WakeOne(f)
    BY <1>2, <1>4
  <2> QED BY <2>1, WakeOneOf
<1>6. \A w \in Worker : w \in S => worker[w] = "unborn"
  BY <1>3 DEF At
<1>7. \A w \in Worker : /\ worker[w] \in Sleepy <=> worker'[w] \in Sleepy
                        /\ worker[w] \in Busy <=> worker'[w] \in Busy
                        /\ worker'[w] = "unborn" <=> worker[w] = "unborn" /\ w \notin S
                        /\ worker'[w] = "run" <=> worker[w] = "run"
  BY <1>4, <1>5, <1>6 DEF Sleepy, Busy
<1>8. Count(worker, Sleepy) = Count(worker', Sleepy) /\ Count(worker, Busy) = Count(worker', Busy)
  BY <1>7, SameCount
<1>9. At(worker', {"unborn"}) = At(worker, {"unborn"}) \ S
  BY <1>7 DEF At
<1>10. threads' = Worker \ At(worker', {"unborn"})
  BY <1>0, <1>2, <1>3, <1>9 DEF Agreed, At
<1>11. Agreed'
  BY <1>0, <1>1, <1>2, <1>3, <1>8, <1>10 DEF Agreed
<1>12. Typed'
  <2>1. "queued" \in TaskState
    BY DEF TaskState
  <2>2. threads' \subseteq Worker
    BY <1>10
  <2> QED BY <1>0, <1>1, <1>5, <2>1, <2>2 DEF Typed, resizing
<1>13. Handed' /\ Aimed'
  BY <1>0, <1>1, <1>7 DEF Handed, Aimed, resizing
<1> QED BY <1>11, <1>12, <1>13 DEF IInv

\* The start of a resize or of the destructor keeps it.
LEMMA BeginJoinInv ==
  ASSUME NEW c \in Client, NEW n \in Counts \cup {-1}, IInv, BeginJoin(c, n), client[c] = "idle"
  PROVE  IInv'
<1>0. Typed /\ Handed /\ Aimed /\ Agreed /\ worker \in [Worker -> WorkerPlace]
  BY DEF IInv, Typed
<1>1. /\ shutdown' = TRUE /\ worker' = WakeAll(worker) /\ toJoin' = [toJoin EXCEPT ![c] = threads]
      /\ target' = [target EXCEPT ![c] = n] /\ client' = [client EXCEPT ![c] = "join"]
      /\ UNCHANGED <<list, job, threads, maxThreads, threadCount, waitingCount, activeCount, role>>
  BY DEF BeginJoin, Tell
<1>2. /\ worker' \in [Worker -> WorkerPlace]
      /\ \A w \in Worker : worker'[w] = worker[w] \/ (worker[w] = "asleep" /\ worker'[w] = "woken")
  BY <1>0, <1>1, WakeAllOf
<1>3. \A w \in Worker : /\ worker[w] \in Sleepy <=> worker'[w] \in Sleepy
                        /\ worker[w] \in Busy <=> worker'[w] \in Busy
                        /\ worker[w] \in {"unborn"} <=> worker'[w] \in {"unborn"}
                        /\ worker'[w] = "run" <=> worker[w] = "run"
  BY <1>2 DEF Sleepy, Busy
<1>4. /\ Count(worker, Sleepy) = Count(worker', Sleepy) /\ Count(worker, Busy) = Count(worker', Busy)
      /\ At(worker, {"unborn"}) = At(worker', {"unborn"})
  BY <1>3, SameCount
<1>5. Agreed'
  BY <1>0, <1>1, <1>4 DEF Agreed
<1>6. Typed'
  BY <1>0, <1>1, <1>2 DEF Typed, ClientPlace, list
<1>7. Handed'
  BY <1>0, <1>1, <1>3 DEF Handed
<1>8. Aimed'
  BY <1>0, <1>1 DEF Aimed, Typed
<1> QED BY <1>5, <1>6, <1>7, <1>8 DEF IInv

\* The end of a resize keeps it: every worker has exited, so 0 is the count.
LEMMA ResizedInv == ASSUME NEW c \in Client, IInv, Resized(c) PROVE IInv'
<1>0. Typed /\ Handed /\ Aimed /\ Agreed /\ worker \in [Worker -> WorkerPlace]
  BY DEF IInv, Typed
<1>1. /\ client[c] = "joinLocked" /\ threads \subseteq In("exited") /\ maxThreads' = target[c]
      /\ shutdown' = FALSE /\ waitingCount' = 0 /\ client' = [client EXCEPT ![c] = "idle"]
      /\ UNCHANGED <<list, job, activeCount, resizing>>
  BY DEF Resized, ResetShutdown
<1>2. PICK retired \in [Worker -> WorkerPlace] :
        retired = [w \in Worker |-> IF w \in threads THEN "unborn" ELSE worker[w]]
  BY <1>0 DEF WorkerPlace
<1>3. PICK n \in {0, target[c]}, S \in SUBSET Worker :
        /\ Cardinality(S) = n /\ worker' = Start(retired, S) /\ threads' = S /\ threadCount' = 0 + n
  BY <1>2 DEF Resized, ResetCount
<1>4. \A w \in Worker : worker[w] \in {"exited", "unborn"} /\ retired[w] = "unborn"
  BY <1>0, <1>1, <1>2 DEF Agreed, At, In
<1>5. /\ worker' \in [Worker -> WorkerPlace]
      /\ \A w \in Worker : worker'[w] = IF w \in S THEN "loop" ELSE "unborn"
  BY <1>3, <1>4, StartOf
<1>6. target[c] \in Counts /\ target[c] \in Nat
  <2>1. Cardinality(Worker) \in Nat
    BY ThreadPoolAssumption, FS_CardinalityType
  <2>2. target[c] \in Counts
    BY <1>0, <1>1 DEF Aimed
  <2>3. \A m \in Counts : m \in Nat
    BY <2>1, ThreadPoolAssumption
  <2> QED BY <2>2, <2>3
<1>7. At(worker, Busy) = {} /\ At(worker', Busy) = {} /\ At(worker', Sleepy) = {}
      /\ At(worker', {"unborn"}) = Worker \ S
  BY <1>4, <1>5 DEF At, Busy, Sleepy
<1>8. Agreed'
  BY <1>0, <1>1, <1>3, <1>6, <1>7, FS_EmptySet DEF Agreed, Count
<1>9. Typed'
  BY <1>0, <1>1, <1>3, <1>5, <1>6 DEF Typed, ClientPlace, list, resizing
<1>10. Handed' /\ Aimed'
  BY <1>0, <1>1, <1>5 DEF Handed, Aimed, Typed, resizing
<1> QED BY <1>8, <1>9, <1>10 DEF IInv

\* Every step of a client within a call keeps the invariant.
LEMMA ClientInv == ASSUME NEW c \in Client, IInv, ClientStep(c) PROVE IInv'
<1>0. Typed /\ Aimed /\ client \in [Client -> ClientPlace]
  BY DEF IInv, Typed
<1> USE DEF ClientPlace, resizing, workers, list
<1>1. CASE InlineReturn(c)
  <2>1. /\ client[c] = "inline" /\ \E k \in Task : status' = [status EXCEPT ![k] = "done"]
        /\ client' = [client EXCEPT ![c] = "idle"] /\ UNCHANGED <<tasks, workers, counts, resizing>>
    BY <1>1 DEF InlineReturn
  <2>2. status' \in [Task -> TaskState] /\ client' \in [Client -> ClientPlace]
    BY <1>0, <2>1 DEF Typed, TaskState
  <2>3. Aimed'
    BY <1>0, <2>1 DEF Aimed
  <2> QED BY <1>0, <2>1, <2>2, <2>3, ClientOnly DEF Typed
<1>2. CASE TestDone(c)
  <2>1. /\ client[c] = "doneTest" /\ client' = [client EXCEPT ![c] = IF AllDone THEN "idle" ELSE "doneWait"]
        /\ UNCHANGED <<list, workers, counts, resizing>>
    BY <1>2 DEF TestDone
  <2>2. client' \in [Client -> ClientPlace] /\ Aimed'
    BY <1>0, <2>1 DEF Aimed
  <2> QED BY <1>0, <2>1, <2>2, ClientOnly DEF Typed
<1>3. CASE DoneTimeout(c)
  <2>1. client' = [client EXCEPT ![c] = "idle"] /\ UNCHANGED <<list, workers, counts, resizing>>
    BY <1>3 DEF DoneTimeout
  <2>2. client' \in [Client -> ClientPlace] /\ Aimed'
    BY <1>0, <2>1 DEF Aimed
  <2> QED BY <1>0, <2>1, <2>2, ClientOnly DEF Typed
<1>4. CASE ClearThreads(c)
  <2>1. /\ client[c] = "join" /\ target[c] >= 0 /\ client' = [client EXCEPT ![c] = "joinLocked"]
        /\ UNCHANGED <<list, workers, counts, resizing>>
    BY <1>4 DEF ClearThreads
  <2>2. target[c] \in Counts
    BY <1>0, <2>1 DEF Aimed
  <2>3. client' \in [Client -> ClientPlace] /\ Aimed'
    BY <1>0, <2>1, <2>2 DEF Aimed
  <2> QED BY <1>0, <2>1, <2>3, ClientOnly DEF Typed
<1>5. CASE Destroyed(c)
  <2>1. client' = [client EXCEPT ![c] = "gone"] /\ UNCHANGED <<list, workers, counts, resizing>>
    BY <1>5 DEF Destroyed
  <2>2. client' \in [Client -> ClientPlace] /\ Aimed'
    BY <1>0, <2>1 DEF Aimed
  <2> QED BY <1>0, <2>1, <2>2, ClientOnly DEF Typed
<1>6. ASSUME NEW w \in Worker, Join(c, w) PROVE IInv'
  <2>1. toJoin' = [toJoin EXCEPT ![c] = toJoin[c] \ {w}]
        /\ UNCHANGED <<list, workers, counts, client, target, role>>
    BY <1>6 DEF Join
  <2>2. toJoin' \in [Client -> SUBSET Worker] /\ Aimed'
    BY <1>0, <2>1 DEF Typed, Aimed
  <2> QED BY <1>0, <2>1, <2>2, ClientOnly DEF Typed
<1> QED BY <1>1, <1>2, <1>3, <1>4, <1>5, <1>6, ResizedInv DEF ClientStep

\* Every call of a client keeps the invariant.
LEMMA RequestInv == ASSUME NEW c \in Client, IInv, Request(c) PROVE IInv'
<1>0. Typed /\ Aimed /\ client \in [Client -> ClientPlace]
  BY DEF IInv, Typed
<1> USE DEF ClientPlace, resizing, workers, list
<1>1. ASSUME NEW k \in Task, SubmitInline(c, k) PROVE IInv'
  <2>1. /\ status' = [status EXCEPT ![k] = "running"] /\ client' = [client EXCEPT ![c] = "inline"]
        /\ UNCHANGED <<tasks, workers, counts, resizing>>
    BY <1>1 DEF SubmitInline
  <2>2. status' \in [Task -> TaskState] /\ client' \in [Client -> ClientPlace] /\ Aimed'
    BY <1>0, <2>1 DEF Typed, TaskState, Aimed
  <2> QED BY <1>0, <2>1, <2>2, ClientOnly DEF Typed
<1>2. CASE WaitForDone(c)
  <2>1. client' = [client EXCEPT ![c] = "doneTest"] /\ UNCHANGED <<list, workers, counts, resizing>>
    BY <1>2 DEF WaitForDone
  <2>2. client' \in [Client -> ClientPlace] /\ Aimed'
    BY <1>0, <2>1 DEF Aimed
  <2> QED BY <1>0, <2>1, <2>2, ClientOnly DEF Typed
<1>3. CASE Clear(c)
  <2>1. /\ tasks' = <<>>
        /\ status' = [k \in Task |-> IF status[k] = "queued" THEN "dropped" ELSE status[k]]
        /\ UNCHANGED <<workers, counts, client, resizing>>
    BY <1>3 DEF Clear
  <2>2. tasks' \in Seq(Task) /\ status' \in [Task -> TaskState] /\ Aimed'
    BY <1>0, <2>1 DEF Typed, TaskState, Aimed
  <2> QED BY <1>0, <2>1, <2>2, ClientOnly DEF Typed
<1>4. CASE SetThreadCount(c)
  <2>1. client[c] = "idle" /\ \E n \in Counts : BeginJoin(c, n)
    BY <1>4 DEF SetThreadCount, Idle
  <2> QED BY <2>1, BeginJoinInv
<1>5. CASE Destroy(c)
  <2>1. client[c] = "idle" /\ BeginJoin(c, -1)
    BY <1>5 DEF Destroy, Idle
  <2> QED BY <2>1, BeginJoinInv
<1> QED BY <1>1, <1>2, <1>3, <1>4, <1>5, SubmitInv DEF Request

\* The invariant is inductive.
LEMMA InvStep == IInv /\ [Next]_vars => IInv'
<1>1. IInv /\ Next => IInv'
  BY WorkerInv, ClientInv, RequestInv DEF Next
<1>2. IInv /\ UNCHANGED vars => IInv'
  BY DEF IInv, Typed, Handed, Aimed, Agreed, vars, counts, list, workers, resizing
<1> QED BY <1>1, <1>2

\* Every variable of the pool keeps its type, the counters within the number
\* of workers.
THEOREM PoolTypeCorrect == Spec => []TypeOK
BY InvInit, InvStep, InvTyped, PTL DEF Spec

\* _waitingCount, _activeCount and _threadCount agree with where the threads
\* are, whoever submits, clears, waits, resizes or destroys (threadpool.cpp).
THEOREM PoolCountsAgree == Spec => []CountsAgree
<1>1. IInv => CountsAgree
  BY AgreedMeans DEF IInv
<1> QED BY <1>1, InvInit, InvStep, PTL DEF Spec

-----------------------------------------------------------------------------
(* The destructor drains the pool.  A task is in one place: in the list, in  *)
(* the hands of a worker, or run by the thread that submitted it (Placed).   *)
(* No worker exits while the list holds a task, a list that holds one has    *)
(* threads to serve it, and the join loop of the destructor misses none of   *)
(* them (Orderly), provided nobody submits while another thread resizes.     *)

\* A thread that submits is the only one that resizes.
NoRacing ==
    \A r \in Casts : \A c, d \in Client :
        "submit" \in r[c] /\ "setThreadCount" \in r[d] => c = d

\* The tasks clients run themselves, and the clients that do.
InlineTasks == {k \in Task : status[k] = "running" /\ \A w \in Worker : job[w] # <<k>>}
InlineClients == {c \in Client : client[c] = "inline"}

\* The list holds the queued tasks, each once.
Listed ==
    /\ \A i \in 1..Len(tasks) : status[tasks[i]] = "queued"
    /\ \A i, j \in 1..Len(tasks) : tasks[i] = tasks[j] => i = j
    /\ \A k \in Task : status[k] = "queued" => \E i \in 1..Len(tasks) : tasks[i] = k

\* A worker in its task has a running one in hand, and no other worker has it.
InHand ==
    /\ \A w \in Worker : worker[w] = "run" =>
          \E k \in Task : job[w] = <<k>> /\ status[k] = "running"
    /\ \A w \in Worker : worker[w] # "run" => job[w] = <<>>
    /\ \A v, w \in Worker : job[v] = job[w] /\ job[v] # <<>> => v = w

\* Every other running task is run by a client, and every such client has one.
Inlined == IsFiniteSet(InlineTasks) /\ Cardinality(InlineTasks) = Cardinality(InlineClients)

Placed == Listed /\ InHand /\ Inlined

\* Steps that move no task.
LEMMA PlacedStays ==
  ASSUME Placed, UNCHANGED <<tasks, status, job>>,
         \A w \in Worker : worker'[w] = "run" <=> worker[w] = "run",
         \A c \in Client : client'[c] = "inline" <=> client[c] = "inline"
  PROVE  Placed'
<1>1. InlineTasks' = InlineTasks /\ InlineClients' = InlineClients
  BY DEF InlineTasks, InlineClients
<1> QED BY <1>1 DEF Placed, Listed, InHand, Inlined

\* Nobody runs a task: the list is empty, and all is in order.
LEMMA PlacedInit == Init => Placed
<1> SUFFICES ASSUME Init PROVE Placed
  OBVIOUS
<1>1. tasks = <<>> /\ \A w \in Worker : worker[w] # "run" /\ job[w] = <<>>
  BY DEF Init
<1>2. InlineTasks = {} /\ InlineClients = {}
  BY DEF Init, InlineTasks, InlineClients
<1>3. Inlined
  BY <1>2, FS_EmptySet DEF Inlined
<1>4. \A k \in Task : status[k] = "new"
  BY DEF Init
<1> QED BY <1>1, <1>3, <1>4 DEF Placed, Listed, InHand

\* A new task is in no worker's hands, nor in the list.
LEMMA NewIsNowhere ==
  ASSUME Typed, Placed, NEW k \in Task, status[k] \in {"new", "queued"}
  PROVE  /\ \A w \in Worker : job[w] # <<k>>
         /\ k \notin InlineTasks
         /\ status[k] = "new" => \A i \in 1..Len(tasks) : tasks[i] # k
<1>1. ASSUME NEW w \in Worker, job[w] = <<k>> PROVE FALSE
  <2>1. worker[w] = "run"
    <3>1. <<k>> # <<>>
      OBVIOUS
    <3> QED BY <1>1, <3>1 DEF Placed, InHand
  <2>2. PICK j \in Task : job[w] = <<j>> /\ status[j] = "running"
    BY <2>1 DEF Placed, InHand
  <2>3. <<j>>[1] = <<k>>[1]
    BY <1>1, <2>2
  <2>4. j = k
    BY <2>3
  <2> QED BY <2>2, <2>4
<1> QED BY <1>1 DEF Placed, Listed, InlineTasks

\* submit() with workers: the task is in the list.
LEMMA PlacedSubmit ==
  ASSUME Typed, Placed, NEW k \in Task, status[k] = "new",
         tasks' = Append(tasks, k), status' = [status EXCEPT ![k] = "queued"],
         UNCHANGED <<job, client>>,
         \A w \in Worker : worker'[w] = "run" <=> worker[w] = "run"
  PROVE  Placed'
<1>1. /\ \A w \in Worker : job[w] # <<k>>
      /\ \A i \in 1..Len(tasks) : tasks[i] # k
  BY NewIsNowhere
<1>2. /\ Len(tasks') = Len(tasks) + 1 /\ Len(tasks) \in Nat /\ tasks'[Len(tasks) + 1] = k
      /\ \A i \in 1..Len(tasks) : tasks'[i] = tasks[i] /\ tasks[i] \in Task
  BY DEF Typed
<1>3. status' \in [Task -> TaskState] /\ status'[k] = "queued" /\ \A j \in Task : j # k => status'[j] = status[j]
  BY DEF Typed, TaskState
<1>4. Listed'
  <2>1. \A i \in 1..Len(tasks') : status'[tasks'[i]] = "queued"
    BY <1>1, <1>2, <1>3 DEF Placed, Listed
  <2>2. \A i, j \in 1..Len(tasks') : tasks'[i] = tasks'[j] => i = j
    BY <1>1, <1>2 DEF Placed, Listed
  <2>3. ASSUME NEW j \in Task, status'[j] = "queued"
        PROVE  \E i \in 1..Len(tasks') : tasks'[i] = j
    <3>1. CASE j = k
      BY <1>2, <3>1
    <3>2. CASE j # k
      <4>1. PICK i \in 1..Len(tasks) : tasks[i] = j
        BY <1>3, <2>3, <3>2 DEF Placed, Listed
      <4>2. i \in 1..Len(tasks') /\ tasks'[i] = j
        BY <1>2, <4>1
      <4> QED BY <4>2
    <3> QED BY <3>1, <3>2
  <2> QED BY <2>1, <2>2, <2>3 DEF Listed
<1>5. InHand'
  <2>1. ASSUME NEW w \in Worker, worker'[w] = "run"
        PROVE  \E j \in Task : job'[w] = <<j>> /\ status'[j] = "running"
    <3>1. PICK j \in Task : job[w] = <<j>> /\ status[j] = "running"
      BY <2>1 DEF Placed, InHand
    <3> QED BY <1>3, <3>1
  <2> QED BY <2>1 DEF Placed, InHand
<1>6. InlineTasks' = InlineTasks /\ InlineClients' = InlineClients
  BY <1>1, <1>3 DEF InlineTasks, InlineClients
<1> QED BY <1>4, <1>5, <1>6 DEF Placed, Inlined

\* submit() without workers: one more task and one more client that runs it.
LEMMA PlacedSubmitInline ==
  ASSUME Typed, Placed, NEW k \in Task, NEW c \in Client, status[k] = "new", client[c] = "idle",
         status' = [status EXCEPT ![k] = "running"], client' = [client EXCEPT ![c] = "inline"],
         UNCHANGED <<tasks, worker, job>>
  PROVE  Placed'
<1>1. /\ k \notin InlineTasks /\ \A w \in Worker : job[w] # <<k>>
      /\ \A i \in 1..Len(tasks) : tasks[i] # k
  BY NewIsNowhere
<1>2. /\ status'[k] = "running" /\ \A j \in Task : j # k => status'[j] = status[j]
      /\ \A i \in 1..Len(tasks) : tasks[i] \in Task
  BY DEF Typed
<1>3. Listed'
  BY <1>1, <1>2 DEF Placed, Listed
<1>4. InHand'
  <2>1. ASSUME NEW w \in Worker, worker'[w] = "run"
        PROVE  \E j \in Task : job'[w] = <<j>> /\ status'[j] = "running"
    <3>1. PICK j \in Task : job[w] = <<j>> /\ status[j] = "running"
      BY <2>1 DEF Placed, InHand
    <3> QED BY <1>2, <3>1
  <2> QED BY <2>1 DEF Placed, InHand
<1>5. InlineTasks' = InlineTasks \cup {k}
  BY <1>1, <1>2 DEF InlineTasks
<1>6. InlineClients' = InlineClients \cup {c} /\ c \notin InlineClients
  BY DEF InlineClients, Typed
<1>7. IsFiniteSet(InlineClients)
  BY ThreadPoolAssumption, FS_Subset DEF InlineClients
<1>8. /\ Cardinality(InlineTasks \cup {k}) = Cardinality(InlineTasks) + 1
      /\ IsFiniteSet(InlineTasks \cup {k})
  BY <1>1, FS_AddElement DEF Placed, Inlined
<1>9. Cardinality(InlineClients \cup {c}) = Cardinality(InlineClients) + 1
  BY <1>6, <1>7, FS_AddElement
<1> QED BY <1>3, <1>4, <1>5, <1>6, <1>8, <1>9 DEF Placed, Inlined

\* The task a client runs returns: one less of each.
LEMMA PlacedInlineReturn ==
  ASSUME Typed, Placed, NEW c \in Client, InlineReturn(c)
  PROVE  Placed'
<1>1. PICK k \in Task : /\ status[k] = "running" /\ \A w \in Worker : job[w] # <<k>>
                        /\ status' = [status EXCEPT ![k] = "done"]
  BY DEF InlineReturn
<1>2. /\ client[c] = "inline" /\ client' = [client EXCEPT ![c] = "idle"]
      /\ UNCHANGED <<tasks, worker, job>>
  BY DEF InlineReturn, workers
<1>3. /\ status'[k] = "done" /\ \A j \in Task : j # k => status'[j] = status[j]
      /\ \A i \in 1..Len(tasks) : tasks[i] \in Task
  BY <1>1 DEF Typed
<1>4. Listed'
  BY <1>1, <1>2, <1>3 DEF Placed, Listed
<1>5. InHand'
  <2>1. ASSUME NEW w \in Worker, worker'[w] = "run"
        PROVE  \E j \in Task : job'[w] = <<j>> /\ status'[j] = "running"
    <3>1. PICK j \in Task : job[w] = <<j>> /\ status[j] = "running"
      BY <1>2, <2>1 DEF Placed, InHand
    <3>2. j # k
      BY <1>1, <3>1
    <3> QED BY <1>2, <1>3, <3>1, <3>2
  <2> QED BY <1>2, <2>1 DEF Placed, InHand
<1>6. InlineTasks' = InlineTasks \ {k} /\ k \in InlineTasks
  BY <1>1, <1>2, <1>3 DEF InlineTasks
<1>7. InlineClients' = InlineClients \ {c} /\ c \in InlineClients
  BY <1>2 DEF InlineClients, Typed
<1>8. IsFiniteSet(InlineClients)
  BY ThreadPoolAssumption, FS_Subset DEF InlineClients
<1>9. /\ Cardinality(InlineTasks \ {k}) = Cardinality(InlineTasks) - 1
      /\ IsFiniteSet(InlineTasks \ {k})
  BY <1>6, FS_RemoveElement DEF Placed, Inlined
<1>10. Cardinality(InlineClients \ {c}) = Cardinality(InlineClients) - 1
  BY <1>7, <1>8, FS_RemoveElement
<1> QED BY <1>4, <1>5, <1>6, <1>7, <1>9, <1>10 DEF Placed, Inlined

\* A worker takes the first task of the list.
LEMMA PlacedTake == ASSUME Typed, Placed, NEW w \in Worker, Take(w) PROVE Placed'
<1> DEFINE h == Head(tasks)
<1>1. /\ worker[w] # "run" /\ tasks # <<>> /\ tasks' = Tail(tasks)
      /\ job' = [job EXCEPT ![w] = <<h>>] /\ status' = [status EXCEPT ![h] = "running"]
      /\ worker' = [worker EXCEPT ![w] = "run"] /\ client' = client
  BY DEF Take
<1>2. /\ Len(tasks) \in Nat \ {0} /\ h = tasks[1] /\ h \in Task
      /\ Len(tasks') = Len(tasks) - 1 /\ \A i \in 1..(Len(tasks) - 1) : tasks'[i] = tasks[i + 1]
      /\ \A i \in 1..Len(tasks) : tasks[i] \in Task
  BY <1>1 DEF Typed
<1> HIDE DEF h
<1>3. status[h] = "queued" /\ \A i \in 2..Len(tasks) : tasks[i] # h
  BY <1>2 DEF Placed, Listed
<1>4. status'[h] = "running" /\ \A j \in Task : j # h => status'[j] = status[j]
  BY <1>1, <1>2 DEF Typed
<1>5. h \notin InlineTasks /\ \A v \in Worker : job[v] # <<h>>
  BY <1>2, <1>3, NewIsNowhere
<1>6. job'[w] = <<h>> /\ job[w] = <<>> /\ \A v \in Worker : v # w => job'[v] = job[v]
  BY <1>1 DEF Typed, Placed, InHand
<1>7. Listed'
  <2>1. \A i \in 1..Len(tasks') : status'[tasks'[i]] = "queued"
    BY <1>2, <1>3, <1>4 DEF Placed, Listed
  <2>2. \A i, j \in 1..Len(tasks') : tasks'[i] = tasks'[j] => i = j
    BY <1>2 DEF Placed, Listed
  <2>3. ASSUME NEW j \in Task, status'[j] = "queued"
        PROVE  \E i \in 1..Len(tasks') : tasks'[i] = j
    <3>1. j # h /\ status[j] = "queued"
      BY <1>4, <2>3
    <3>2. PICK i \in 1..Len(tasks) : tasks[i] = j
      BY <3>1 DEF Placed, Listed
    <3>3. i - 1 \in 1..Len(tasks') /\ tasks'[i - 1] = j
      BY <1>2, <3>1, <3>2
    <3> QED BY <3>3
  <2> QED BY <2>1, <2>2, <2>3 DEF Listed
<1>8. InHand'
  <2>1. ASSUME NEW v \in Worker, worker'[v] = "run"
        PROVE  \E j \in Task : job'[v] = <<j>> /\ status'[j] = "running"
    <3>1. CASE v = w
      BY <1>2, <1>4, <1>6, <3>1
    <3>2. CASE v # w
      <4>1. PICK j \in Task : job[v] = <<j>> /\ status[j] = "running"
        BY <1>1, <2>1, <3>2 DEF Placed, InHand, Typed
      <4> QED BY <1>3, <1>4, <1>6, <3>2, <4>1
    <3> QED BY <3>1, <3>2
  <2>2. \A v \in Worker : worker'[v] # "run" => job'[v] = <<>>
    BY <1>1, <1>6 DEF Placed, InHand, Typed
  <2>3. \A u, v \in Worker : job'[u] = job'[v] /\ job'[u] # <<>> => u = v
    BY <1>5, <1>6 DEF Placed, InHand
  <2> QED BY <2>1, <2>2, <2>3 DEF InHand
<1>9. InlineTasks' = InlineTasks
  <2>1. \A j \in Task : (status'[j] = "running" /\ \A v \in Worker : job'[v] # <<j>>)
                        <=> (status[j] = "running" /\ \A v \in Worker : job[v] # <<j>>)
    <3> TAKE j \in Task
    <3>1. CASE j = h
      BY <1>3, <1>6, <3>1
    <3>2. CASE j # h
      <4>1. \A v \in Worker : job'[v] # <<j>> <=> job[v] # <<j>>
        BY <1>6, <3>2
      <4> QED BY <1>4, <3>2, <4>1
    <3> QED BY <3>1, <3>2
  <2> QED BY <2>1 DEF InlineTasks
<1>10. InlineClients' = InlineClients
  BY <1>1 DEF InlineClients
<1> QED BY <1>7, <1>8, <1>9, <1>10 DEF Placed, Inlined

\* The body of a worker's task returns.
LEMMA PlacedBody == ASSUME Typed, Placed, NEW w \in Worker, Body(w) PROVE Placed'
<1>1. PICK k \in Task : job[w] = <<k>> /\ status[k] = "running"
  BY DEF Body, Placed, InHand
<1>2. /\ worker[w] = "run" /\ status' = [status EXCEPT ![k] = "done"]
      /\ job' = [job EXCEPT ![w] = <<>>] /\ worker' = [worker EXCEPT ![w] = "ran"]
      /\ tasks' = tasks /\ client' = client
  BY <1>1 DEF Body
<1>3. /\ status'[k] = "done" /\ \A j \in Task : j # k => status'[j] = status[j]
      /\ \A i \in 1..Len(tasks) : tasks[i] \in Task
      /\ job'[w] = <<>> /\ \A v \in Worker : v # w => job'[v] = job[v]
  BY <1>2 DEF Typed
<1>4. \A v \in Worker : v # w => job[v] # <<k>>
  BY <1>1 DEF Placed, InHand
<1>5. Listed'
  BY <1>1, <1>2, <1>3 DEF Placed, Listed
<1>6. InHand'
  <2>1. ASSUME NEW v \in Worker, worker'[v] = "run"
        PROVE  \E j \in Task : job'[v] = <<j>> /\ status'[j] = "running"
    <3>1. v # w /\ worker[v] = "run"
      BY <1>2, <2>1 DEF Typed
    <3>2. PICK j \in Task : job[v] = <<j>> /\ status[j] = "running"
      BY <3>1 DEF Placed, InHand
    <3> QED BY <1>3, <1>4, <3>1, <3>2
  <2>2. \A v \in Worker : worker'[v] # "run" => job'[v] = <<>>
    BY <1>2, <1>3 DEF Placed, InHand, Typed
  <2>3. \A u, v \in Worker : job'[u] = job'[v] /\ job'[u] # <<>> => u = v
    BY <1>3 DEF Placed, InHand
  <2> QED BY <2>1, <2>2, <2>3 DEF InHand
<1>7. InlineTasks' = InlineTasks
  <2>1. \A j \in Task : (status'[j] = "running" /\ \A v \in Worker : job'[v] # <<j>>)
                        <=> (status[j] = "running" /\ \A v \in Worker : job[v] # <<j>>)
    <3> TAKE j \in Task
    <3>1. CASE j = k
      BY <1>1, <1>3, <3>1
    <3>2. CASE j # k
      <4>1. \A v \in Worker : job'[v] # <<j>> <=> job[v] # <<j>>
        BY <1>1, <1>3, <3>2
      <4> QED BY <1>3, <3>2, <4>1
    <3> QED BY <3>1, <3>2
  <2> QED BY <2>1 DEF InlineTasks
<1>8. InlineClients' = InlineClients
  BY <1>2 DEF InlineClients
<1> QED BY <1>5, <1>6, <1>7, <1>8 DEF Placed, Inlined

\* clear(): the queued tasks are dropped with the list.
LEMMA PlacedClear == ASSUME Typed, Placed, NEW c \in Client, Clear(c) PROVE Placed'
<1>1. /\ tasks' = <<>> /\ UNCHANGED <<worker, job, client>>
      /\ \A k \in Task : status'[k] = IF status[k] = "queued" THEN "dropped" ELSE status[k]
  BY DEF Clear, workers
<1>2. Listed'
  BY <1>1 DEF Listed
<1>3. InHand'
  <2>1. ASSUME NEW w \in Worker, worker'[w] = "run"
        PROVE  \E j \in Task : job'[w] = <<j>> /\ status'[j] = "running"
    <3>1. PICK j \in Task : job[w] = <<j>> /\ status[j] = "running"
      BY <1>1, <2>1 DEF Placed, InHand
    <3> QED BY <1>1, <3>1
  <2> QED BY <1>1, <2>1 DEF Placed, InHand
<1>4. InlineTasks' = InlineTasks /\ InlineClients' = InlineClients
  BY <1>1 DEF InlineTasks, InlineClients
<1> QED BY <1>2, <1>3, <1>4 DEF Placed, Inlined

\* No step loses a task or puts one in two places.
LEMMA PlacedStep == ASSUME IInv, Placed, [Next]_vars PROVE Placed'
<1>0. Typed /\ worker \in [Worker -> WorkerPlace] /\ client \in [Client -> ClientPlace]
  BY DEF IInv, Typed
<1>1. ASSUME NEW w \in Worker, WorkerStep(w) \/ Body(w) PROVE Placed'
  <2>1. CASE FallAsleep(w) \/ Exit(w)
    BY <1>0, <2>1, PlacedStays DEF FallAsleep, Exit, list
  <2>2. CASE Account(w)
    <3>1. \A c \in Client : client'[c] = "inline" <=> client[c] = "inline"
      BY <1>0, <2>2 DEF Account, WakeDone
    <3> QED BY <1>0, <2>2, <3>1, PlacedStays DEF Account, list
  <2> QED BY <1>0, <1>1, <2>1, <2>2, PlacedTake, PlacedBody DEF WorkerStep
<1>2. ASSUME NEW c \in Client, ClientStep(c) PROVE Placed'
  <2>1. CASE TestDone(c) \/ DoneTimeout(c) \/ ClearThreads(c) \/ Destroyed(c)
    <3>1. UNCHANGED <<tasks, status, job, worker>>
      BY <2>1 DEF TestDone, DoneTimeout, ClearThreads, Destroyed, list, workers
    <3>2. \A d \in Client : client'[d] = "inline" <=> client[d] = "inline"
      BY <1>0, <2>1 DEF TestDone, DoneTimeout, ClearThreads, Destroyed
    <3> QED BY <3>1, <3>2, PlacedStays
  <2>2. CASE Resized(c)
    <3>1. /\ UNCHANGED <<tasks, status, job>> /\ client[c] = "joinLocked"
          /\ threads \subseteq In("exited") /\ client' = [client EXCEPT ![c] = "idle"]
      BY <2>2 DEF Resized, list
    <3>2. \A w \in Worker : worker[w] \in {"exited", "unborn"}
      BY <1>0, <3>1 DEF IInv, Agreed, In, At
    <3>3. \A w \in Worker : worker'[w] # "run"
      <4>1. PICK S \in SUBSET Worker :
              worker' = Start([w \in Worker |-> IF w \in threads THEN "unborn" ELSE worker[w]], S)
        BY <2>2 DEF Resized
      <4> QED BY <3>2, <4>1 DEF Start
    <3>4. \A d \in Client : client'[d] = "inline" <=> client[d] = "inline"
      BY <1>0, <3>1
    <3>5. \A w \in Worker : worker'[w] = "run" <=> worker[w] = "run"
      BY <3>2, <3>3
    <3> QED BY <3>1, <3>4, <3>5, PlacedStays
  <2>3. ASSUME NEW w \in Worker, Join(c, w) PROVE Placed'
    BY <2>3, PlacedStays DEF Join, list, workers
  <2> QED BY <1>0, <1>2, <2>1, <2>2, <2>3, PlacedInlineReturn DEF ClientStep
<1>3. ASSUME NEW c \in Client, Request(c) PROVE Placed'
  <2>1. ASSUME NEW k \in Task, Submit(c, k) PROVE Placed'
    <3>1. /\ status[k] = "new" /\ tasks' = Append(tasks, k)
          /\ status' = [status EXCEPT ![k] = "queued"] /\ UNCHANGED <<job, client>>
      BY <2>1 DEF Submit
    <3>2. PICK S \in MaybeSpawnOne : worker' \in WakeOne(Start(worker, S))
      BY <2>1 DEF Submit
    <3>3. \A w \in S : worker[w] = "unborn"
      BY <3>2, Spawned DEF At
    <3>4. PICK f \in [Worker -> WorkerPlace] :
            f = Start(worker, S) /\ \A w \in Worker : f[w] = IF w \in S THEN "loop" ELSE worker[w]
      BY <1>0, StartOf
    <3>5. \A w \in Worker : worker'[w] = f[w] \/ (f[w] = "asleep" /\ worker'[w] = "woken")
      <4>1. worker' \in WakeOne(f)
        BY <3>2, <3>4
      <4> QED BY <4>1, WakeOneOf
    <3>6. \A w \in Worker : worker'[w] = "run" <=> worker[w] = "run"
      BY <3>3, <3>4, <3>5
    <3> QED BY <1>0, <3>1, <3>6, PlacedSubmit
  <2>2. ASSUME NEW k \in Task, SubmitInline(c, k) PROVE Placed'
    <3>1. /\ status[k] = "new" /\ client[c] = "idle" /\ status' = [status EXCEPT ![k] = "running"]
          /\ client' = [client EXCEPT ![c] = "inline"] /\ UNCHANGED <<tasks, worker, job>>
      BY <2>2 DEF SubmitInline, Idle, workers
    <3> QED BY <1>0, <3>1, PlacedSubmitInline
  <2>3. CASE WaitForDone(c)
    <3>1. \A d \in Client : client'[d] = "inline" <=> client[d] = "inline"
      BY <1>0, <2>3 DEF WaitForDone, Idle
    <3> QED BY <2>3, <3>1, PlacedStays DEF WaitForDone, list, workers
  <2>4. CASE SetThreadCount(c) \/ Destroy(c)
    <3>1. PICK n \in Counts \cup {-1} : BeginJoin(c, n) /\ client[c] = "idle"
      BY <2>4 DEF SetThreadCount, Destroy, Idle
    <3>2. /\ UNCHANGED <<tasks, status, job>> /\ client' = [client EXCEPT ![c] = "join"]
          /\ worker' = WakeAll(worker)
      BY <3>1 DEF BeginJoin, Tell, list
    <3>3. \A d \in Client : client'[d] = "inline" <=> client[d] = "inline"
      BY <1>0, <3>1, <3>2
    <3>4. \A w \in Worker : worker'[w] = "run" <=> worker[w] = "run"
      BY <1>0, <3>2, WakeAllOf
    <3> QED BY <3>2, <3>3, <3>4, PlacedStays
  <2> QED BY <1>0, <1>3, <2>1, <2>2, <2>3, <2>4, PlacedClear DEF Request
<1>4. CASE UNCHANGED vars
  BY <1>4, PlacedStays DEF vars, list, workers
<1> QED BY <1>1, <1>2, <1>3, <1>4 DEF Next

Joining(c) == client[c] \in {"join", "joinLocked"}
Ending(c) == client[c] \in {"join", "gone"} /\ target[c] = -1

\* Joins go one at a time: the destructor's alone, a resize's by a client that
\* resizes, and nothing follows the destructor.
OneAtATime ==
    /\ \A c, d \in Client : Joining(c) /\ Joining(d) => c = d
    /\ \A c \in Client : Joining(c) => Ending(c) \/ "setThreadCount" \in role[c]
    /\ \A c, d \in Client : Ending(c) /\ c # d => client[d] = "idle"
    /\ \A c \in Client : client[c] = "gone" => Ending(c) /\ toJoin[c] = {}

\* Without a join the workers stay; with one, they leave an empty list.
Staffed ==
    /\ (\A c \in Client : ~Joining(c) /\ client[c] # "gone") =>
          ~shutdown /\ \A w \in Worker : worker[w] # "exited"
    /\ \A w \in Worker : worker[w] = "exited" => tasks = <<>>
    /\ tasks # <<>> => threads # {}

\* The join loop has still to join every thread that has not exited.
Walked ==
    \A c \in Client : client[c] \in {"join", "gone"} =>
        \A w \in threads : w \in toJoin[c] \/ worker[w] = "exited"

Orderly == OneAtATime /\ Staffed /\ Walked

\* In the beginning nobody joins and there is nothing to leave.
LEMMA OrderInit == Init => Orderly
<1> SUFFICES ASSUME Init PROVE Orderly
  OBVIOUS
<1>1. /\ \A c \in Client : client[c] = "idle"
      /\ tasks = <<>> /\ ~shutdown /\ \A w \in Worker : worker[w] # "exited"
  BY DEF Init
<1> QED BY <1>1 DEF Orderly, OneAtATime, Staffed, Walked, Joining, Ending

\* A worker that stays, or exits from an empty list it was told to leave.
LEMMA WorkerOrder ==
  ASSUME IInv, Orderly, NEW w \in Worker, WorkerStep(w) \/ Body(w)
  PROVE  Orderly'
<1>0. worker \in [Worker -> WorkerPlace] /\ client \in [Client -> ClientPlace]
  BY DEF IInv, Typed
<1>1. UNCHANGED <<threads, shutdown, toJoin, target, role>>
  BY DEF WorkerStep, Take, FallAsleep, Exit, Account, Body, limits, counts, resizing
<1>2. \A c \in Client : client'[c] = client[c] \/ (client[c] = "doneWait" /\ client'[c] = "doneTest")
  BY <1>0 DEF WorkerStep, Take, FallAsleep, Exit, Account, Body, WakeDone
<1>3. /\ tasks' = tasks \/ (tasks # <<>> /\ tasks' = Tail(tasks))
      /\ tasks = <<>> => tasks' = <<>>
  BY DEF WorkerStep, Take, FallAsleep, Exit, Account, Body, list
<1>4. \A v \in Worker : worker'[v] = "exited" <=>
            worker[v] = "exited" \/ (v = w /\ Exit(w))
  <2>1. CASE Exit(w)
    BY <1>0, <2>1 DEF Exit
  <2>2. CASE ~Exit(w)
    <3>1. /\ worker[w] # "exited"
          /\ \E x \in WorkerPlace \ {"exited"} : worker' = [worker EXCEPT ![w] = x]
      BY <2>2 DEF WorkerStep, Take, FallAsleep, Account, Body, WorkerPlace
    <3> QED BY <1>0, <2>2, <3>1
  <2> QED BY <2>1, <2>2
<1>5. OneAtATime'
  <2>1. \A c \in Client : /\ Joining(c)' <=> Joining(c)
                          /\ Ending(c)' <=> Ending(c)
                          /\ client'[c] = "gone" <=> client[c] = "gone"
                          /\ client[c] = "idle" => client'[c] = "idle"
    BY <1>1, <1>2 DEF Joining, Ending
  <2> QED BY <1>1, <2>1 DEF Orderly, OneAtATime
<1>6. Staffed'
  <2>1. (\A c \in Client : ~Joining(c)' /\ client'[c] # "gone") =>
          ~shutdown' /\ \A v \in Worker : worker'[v] # "exited"
    <3> SUFFICES ASSUME \A c \in Client : ~Joining(c)' /\ client'[c] # "gone"
                 PROVE  ~shutdown' /\ \A v \in Worker : worker'[v] # "exited"
      OBVIOUS
    <3>1. \A c \in Client : ~Joining(c) /\ client[c] # "gone"
      BY <1>2 DEF Joining
    <3>2. ~shutdown /\ \A v \in Worker : worker[v] # "exited"
      BY <3>1 DEF Orderly, Staffed
    <3>3. ~Exit(w)
      BY <3>2 DEF Exit, MayExit
    <3> QED BY <1>1, <1>4, <3>2, <3>3
  <2>2. \A v \in Worker : worker'[v] = "exited" => tasks' = <<>>
    <3>1. Exit(w) => tasks = <<>>
      BY DEF Exit, MayExit
    <3> QED BY <1>3, <1>4, <3>1 DEF Orderly, Staffed
  <2>3. tasks' # <<>> => threads' # {}
    BY <1>1, <1>3 DEF Orderly, Staffed
  <2> QED BY <2>1, <2>2, <2>3 DEF Staffed
<1>7. Walked'
  <2>1. \A c \in Client : client'[c] \in {"join", "gone"} => client[c] \in {"join", "gone"}
    BY <1>2
  <2>2. threads \subseteq Worker
    BY DEF IInv, Typed
  <2> QED BY <1>1, <1>4, <2>1, <2>2 DEF Orderly, Walked
<1> QED BY <1>5, <1>6, <1>7 DEF Orderly

\* A call that joins nobody, and adds nothing to the list.
LEMMA CallOrder ==
  ASSUME IInv, Orderly, NEW c \in Client, NEW y \in ClientPlace \ {"join", "joinLocked", "gone"},
         client[c] \notin {"join", "joinLocked", "gone"},
         client[c] # "idle" \/ \A d \in Client : ~Ending(d),
         client' = [client EXCEPT ![c] = y],
         tasks' = tasks \/ tasks' = <<>>,
         UNCHANGED <<worker, threads, shutdown, toJoin, target, role>>
  PROVE  Orderly'
<1>1. client \in [Client -> ClientPlace]
  BY DEF IInv, Typed
<1>2. \A d \in Client : /\ Joining(d)' <=> Joining(d)
                        /\ Ending(d)' <=> Ending(d)
                        /\ client'[d] = "gone" <=> client[d] = "gone"
                        /\ client'[d] = "join" <=> client[d] = "join"
  BY <1>1 DEF Joining, Ending
<1>3. \A d, e \in Client : Ending(d) /\ d # e => client'[e] = "idle"
  <2> SUFFICES ASSUME NEW d \in Client, NEW e \in Client, Ending(d), d # e PROVE client'[e] = "idle"
    OBVIOUS
  <2>1. c # d
    BY DEF Ending
  <2>2. client[c] = "idle"
    BY <2>1 DEF Orderly, OneAtATime
  <2> QED BY <2>2
<1>4. OneAtATime'
  BY <1>2, <1>3 DEF Orderly, OneAtATime
<1>5. Staffed'
  BY <1>2 DEF Orderly, Staffed
<1>6. Walked'
  BY <1>2 DEF Orderly, Walked
<1> QED BY <1>4, <1>5, <1>6 DEF Orderly

\* Nobody ends the pool when a call begins.
LEMMA IdleNotEnding ==
  ASSUME NEW c \in Client, NEW o, Idle(c, o)
  PROVE  /\ client[c] = "idle" /\ o \in role[c]
         /\ \A d \in Client : ~Ending(d) /\ client[d] # "gone" /\ client[d] # "joinLocked"
BY DEF Idle, Free, Ending

\* Nobody joins when a call begins that only a client who resizes, or one that
\* leaves the pool to itself, could race with.
LEMMA SubmitOrder ==
  ASSUME NoRacing, IInv, Orderly, NEW c \in Client, NEW k \in Task, Submit(c, k)
  PROVE  Orderly'
<1>0. worker \in [Worker -> WorkerPlace] /\ threads \subseteq Worker /\ role \in Casts
  BY DEF IInv, Typed
<1>1. /\ client[c] = "idle" /\ "submit" \in role[c]
      /\ \A d \in Client : ~Ending(d) /\ client[d] # "gone" /\ client[d] # "joinLocked"
  BY IdleNotEnding DEF Submit
<1>2. \A d \in Client : ~Joining(d)
  <2> SUFFICES ASSUME NEW d \in Client, Joining(d) PROVE FALSE
    OBVIOUS
  <2>1. "setThreadCount" \in role[d]
    BY <1>1 DEF Orderly, OneAtATime
  <2>2. c = d
    BY <1>0, <1>1, <2>1 DEF NoRacing
  <2> QED BY <1>1, <2>2 DEF Joining
<1>3. ~shutdown /\ \A w \in Worker : worker[w] # "exited"
  BY <1>1, <1>2 DEF Orderly, Staffed
<1>4. UNCHANGED <<shutdown, client, toJoin, target, role>> /\ maxThreads > 0
  BY DEF Submit, resizing
<1>5. PICK S \in MaybeSpawnOne : worker' \in WakeOne(Start(worker, S)) /\ threads' = threads \cup S
  BY DEF Submit
<1>6. \A w \in Worker : worker'[w] # "exited"
  <2>1. PICK f \in [Worker -> WorkerPlace] :
          f = Start(worker, S) /\ \A w \in Worker : f[w] = IF w \in S THEN "loop" ELSE worker[w]
    BY <1>0, StartOf
  <2>2. \A w \in Worker : worker'[w] = f[w] \/ (f[w] = "asleep" /\ worker'[w] = "woken")
    <3>1. worker' \in WakeOne(f)
      BY <1>5, <2>1
    <3> QED BY <3>1, WakeOneOf
  <2> QED BY <1>3, <2>1, <2>2
<1>7. threads' # {}
  <2> SUFFICES ASSUME threads = {}, S = {} PROVE FALSE
    BY <1>5
  <2>1. threadCount = 0 /\ \A w \in Worker : worker[w] = "unborn"
    BY <1>0, FS_EmptySet DEF IInv, Agreed, At
  <2>2. waitingCount = 0
    <3>1. At(worker, Sleepy) = {}
      BY <2>1 DEF At, Sleepy
    <3> QED BY <3>1, FS_EmptySet DEF IInv, Agreed, Count
  <2>3. S \in Fresh(1)
    BY <1>4, <1>5, <2>1, <2>2 DEF MaybeSpawnOne
  <2> QED BY <2>3, FS_EmptySet DEF Fresh
<1>8. OneAtATime' /\ Walked'
  BY <1>1, <1>2, <1>4 DEF OneAtATime, Walked, Joining, Ending
<1>9. Staffed'
  BY <1>3, <1>4, <1>6, <1>7 DEF Staffed
<1> QED BY <1>8, <1>9 DEF Orderly

\* A join begins when there is none, and walks all the threads.
LEMMA JoinOrder ==
  ASSUME IInv, Orderly, NEW c \in Client, SetThreadCount(c) \/ Destroy(c)
  PROVE  Orderly'
<1>0. /\ worker \in [Worker -> WorkerPlace] /\ client \in [Client -> ClientPlace]
      /\ threads \subseteq Worker /\ toJoin \in [Client -> SUBSET Worker]
      /\ target \in [Client -> Counts \cup {-1, 0}]
  BY DEF IInv, Typed
<1>1. PICK n \in Counts \cup {-1} :
        /\ BeginJoin(c, n) /\ (n # -1 => "setThreadCount" \in role[c])
        /\ n = -1 => \A d \in Client : client[d] = "idle"
  <2>1. CASE SetThreadCount(c)
    <3>1. PICK n \in Counts : BeginJoin(c, n)
      BY <2>1 DEF SetThreadCount
    <3>2. n # -1
      BY ThreadPoolAssumption, FS_CardinalityType
    <3> QED BY <2>1, <3>1, <3>2 DEF SetThreadCount, Idle
  <2>2. CASE Destroy(c)
    BY <2>2 DEF Destroy
  <2> QED BY <2>1, <2>2
<1>2. /\ client[c] = "idle"
      /\ \A d \in Client : ~Ending(d) /\ client[d] \notin {"gone", "join", "joinLocked"}
  <2>1. \E o : Idle(c, o)
    BY DEF SetThreadCount, Destroy
  <2>2. \A d \in Client : client[d] # "join"
    BY DEF SetThreadCount, Destroy
  <2> QED BY <2>1, <2>2, IdleNotEnding
<1>3. ~shutdown /\ \A w \in Worker : worker[w] # "exited"
  BY <1>2 DEF Orderly, Staffed, Joining
<1>4. /\ worker' = WakeAll(worker) /\ toJoin' = [toJoin EXCEPT ![c] = threads]
      /\ target' = [target EXCEPT ![c] = n] /\ client' = [client EXCEPT ![c] = "join"]
      /\ UNCHANGED <<tasks, threads, role>>
  BY <1>1 DEF BeginJoin, Tell, list
<1>5. \A w \in Worker : worker'[w] # "exited"
  BY <1>0, <1>3, <1>4, WakeAllOf
<1>6. /\ client'[c] = "join" /\ target'[c] = n /\ toJoin'[c] = threads
      /\ \A d \in Client : d # c => client'[d] = client[d]
  BY <1>0, <1>4
<1>7. OneAtATime'
  <2>1. \A d \in Client : d # c => ~Joining(d)' /\ ~Ending(d)' /\ client'[d] # "gone"
    BY <1>2, <1>6 DEF Joining, Ending
  <2>2. Joining(c)' /\ client'[c] # "gone" /\ (Ending(c)' <=> n = -1)
    BY <1>6 DEF Joining, Ending
  <2>3. n = -1 => \A d \in Client : c # d => client'[d] = "idle"
    BY <1>1, <1>6
  <2> QED BY <1>1, <1>4, <2>1, <2>2, <2>3 DEF OneAtATime
<1>8. Staffed'
  <2>1. Joining(c)'
    BY <1>6 DEF Joining
  <2> QED BY <1>4, <1>5, <2>1 DEF Orderly, Staffed
<1>9. Walked'
  BY <1>2, <1>4, <1>6 DEF Walked
<1> QED BY <1>7, <1>8, <1>9 DEF Orderly

\* The end of a resize: the workers are gone, so is what was in the list.
LEMMA ResizedOrder ==
  ASSUME IInv, Orderly, NEW c \in Client, Resized(c)
  PROVE  Orderly'
<1>0. worker \in [Worker -> WorkerPlace] /\ client \in [Client -> ClientPlace]
  BY DEF IInv, Typed
<1>1. /\ client[c] = "joinLocked" /\ threads \subseteq In("exited") /\ shutdown' = FALSE
      /\ client' = [client EXCEPT ![c] = "idle"] /\ UNCHANGED <<tasks, toJoin, target, role>>
  BY DEF Resized, ResetShutdown, list, resizing
<1>2. \A w \in Worker : worker[w] \in {"exited", "unborn"}
  BY <1>0, <1>1 DEF IInv, Agreed, In, At
<1>3. \A w \in Worker : worker'[w] # "exited"
  <2>1. PICK S \in SUBSET Worker :
          worker' = Start([w \in Worker |-> IF w \in threads THEN "unborn" ELSE worker[w]], S)
    BY DEF Resized
  <2>2. \A w \in Worker : w \in threads <=> worker[w] # "unborn"
    BY DEF IInv, Agreed, At
  <2> QED BY <1>2, <2>1, <2>2 DEF Start
<1>4. tasks = <<>>
  <2>1. CASE threads = {}
    BY <2>1 DEF Orderly, Staffed
  <2>2. CASE threads # {}
    <3>1. PICK w \in Worker : worker[w] = "exited"
      BY <1>1, <2>2 DEF In
    <3> QED BY <3>1 DEF Orderly, Staffed
  <2> QED BY <2>1, <2>2
<1>5. \A d \in Client : ~Ending(d) /\ client[d] # "gone" /\ (d # c => ~Joining(d))
  <2>1. Joining(c) /\ ~Ending(c)
    BY <1>1 DEF Joining, Ending
  <2>2. \A d \in Client : d # c => ~Joining(d)
    BY <2>1 DEF Orderly, OneAtATime
  <2>3. \A d \in Client : ~Ending(d)
    BY <1>1, <2>1 DEF Orderly, OneAtATime
  <2> QED BY <2>2, <2>3 DEF Orderly, OneAtATime
<1>6. \A d \in Client : ~Joining(d)' /\ ~Ending(d)' /\ client'[d] \notin {"join", "gone"}
  BY <1>0, <1>1, <1>5 DEF Joining, Ending
<1>7. OneAtATime' /\ Walked'
  BY <1>6 DEF OneAtATime, Walked
<1>8. Staffed'
  BY <1>1, <1>3, <1>4 DEF Staffed
<1> QED BY <1>7, <1>8 DEF Orderly

\* The rest of a join.
LEMMA ClientOrder ==
  ASSUME IInv, Orderly, NEW c \in Client, ClientStep(c)
  PROVE  Orderly'
<1>0. client \in [Client -> ClientPlace] /\ toJoin \in [Client -> SUBSET Worker]
      /\ threads \subseteq Worker
  BY DEF IInv, Typed
<1>1. CASE InlineReturn(c) \/ TestDone(c) \/ DoneTimeout(c)
  <2>1. /\ client[c] \in {"inline", "doneTest", "doneWait"} /\ tasks' = tasks
        /\ UNCHANGED <<worker, threads, shutdown, toJoin, target, role>>
        /\ \E y \in {"idle", "doneWait"} : client' = [client EXCEPT ![c] = y]
    BY <1>1 DEF InlineReturn, TestDone, DoneTimeout, list, workers, counts, resizing
  <2>2. PICK y \in ClientPlace \ {"join", "joinLocked", "gone"} : client' = [client EXCEPT ![c] = y]
    BY <2>1 DEF ClientPlace
  <2> QED BY <2>1, <2>2, CallOrder
<1>2. CASE ClearThreads(c)
  <2>1. /\ client[c] = "join" /\ target[c] >= 0 /\ client' = [client EXCEPT ![c] = "joinLocked"]
        /\ UNCHANGED <<tasks, worker, threads, shutdown, toJoin, target, role>>
    BY <1>2 DEF ClearThreads, list, workers, counts, resizing
  <2>2. ~Ending(c) /\ Joining(c)
    BY <2>1 DEF Ending, Joining
  <2>3. \A d \in Client : /\ Joining(d)' <=> Joining(d)
                          /\ Ending(d)' <=> Ending(d)
                          /\ client'[d] = "gone" <=> client[d] = "gone"
                          /\ client'[d] = "join" => client[d] = "join"
    BY <1>0, <2>1, <2>2 DEF Joining, Ending
  <2>4. \A d \in Client : Ending(d) => client[c] = "idle"
    BY <2>2 DEF Orderly, OneAtATime
  <2>5. \A d \in Client : ~Ending(d)
    BY <2>1, <2>4
  <2>6. OneAtATime'
    BY <2>1, <2>3, <2>5 DEF Orderly, OneAtATime
  <2>7. Staffed' /\ Walked'
    BY <2>1, <2>3 DEF Orderly, Staffed, Walked
  <2> QED BY <2>6, <2>7 DEF Orderly
<1>3. CASE Destroyed(c)
  <2>1. /\ client[c] = "join" /\ toJoin[c] = {} /\ target[c] = -1
        /\ client' = [client EXCEPT ![c] = "gone"]
        /\ UNCHANGED <<tasks, worker, threads, shutdown, toJoin, target, role>>
    BY <1>3 DEF Destroyed, list, workers, counts, resizing
  <2>2. Ending(c) /\ Ending(c)' /\ client'[c] = "gone"
    BY <1>0, <2>1 DEF Ending
  <2>3. \A d \in Client : d # c => client[d] = "idle" /\ client'[d] = "idle"
    BY <1>0, <2>1, <2>2 DEF Orderly, OneAtATime
  <2>4. \A d \in Client : d # c => ~Joining(d)' /\ ~Ending(d)'
    BY <2>3 DEF Joining, Ending
  <2>5. ~Joining(c)'
    BY <2>2 DEF Joining
  <2>6. OneAtATime'
    BY <2>1, <2>2, <2>3, <2>4, <2>5 DEF OneAtATime
  <2>7. Staffed'
    BY <2>1, <2>2 DEF Orderly, Staffed
  <2>8. Walked'
    BY <2>1, <2>3 DEF Orderly, Walked
  <2> QED BY <2>6, <2>7, <2>8 DEF Orderly
<1>4. ASSUME NEW w \in Worker, Join(c, w) PROVE Orderly'
  <2>1. /\ client[c] = "join" /\ worker[w] = "exited" /\ toJoin' = [toJoin EXCEPT ![c] = toJoin[c] \ {w}]
        /\ UNCHANGED <<tasks, worker, threads, shutdown, client, target, role>>
    BY <1>4 DEF Join, list, workers, counts
  <2>2. \A d \in Client : /\ client[d] = "gone" => toJoin'[d] = toJoin[d]
                          /\ \A v \in Worker : v \in toJoin[d] => v \in toJoin'[d] \/ v = w
    BY <1>0, <2>1
  <2>3. OneAtATime' /\ Staffed'
    BY <2>1, <2>2 DEF Orderly, OneAtATime, Staffed, Joining, Ending
  <2>4. Walked'
    BY <1>0, <2>1, <2>2 DEF Orderly, Walked
  <2> QED BY <2>3, <2>4 DEF Orderly
<1> QED BY <1>1, <1>2, <1>3, <1>4, ResizedOrder DEF ClientStep

\* Every call.
LEMMA RequestOrder ==
  ASSUME NoRacing, IInv, Orderly, NEW c \in Client, Request(c)
  PROVE  Orderly'
<1>1. ASSUME NEW k \in Task, SubmitInline(c, k) PROVE Orderly'
  <2>1. /\ client[c] = "idle" /\ \A d \in Client : ~Ending(d)
        /\ client' = [client EXCEPT ![c] = "inline"] /\ tasks' = tasks
        /\ UNCHANGED <<worker, threads, shutdown, toJoin, target, role>>
    BY <1>1, IdleNotEnding DEF SubmitInline, list, workers, counts, resizing
  <2>2. "inline" \in ClientPlace \ {"join", "joinLocked", "gone"}
    BY DEF ClientPlace
  <2> QED BY <2>1, <2>2, CallOrder
<1>2. CASE WaitForDone(c)
  <2>1. /\ client[c] = "idle" /\ \A d \in Client : ~Ending(d)
        /\ client' = [client EXCEPT ![c] = "doneTest"] /\ tasks' = tasks
        /\ UNCHANGED <<worker, threads, shutdown, toJoin, target, role>>
    BY <1>2, IdleNotEnding DEF WaitForDone, list, workers, counts, resizing
  <2>2. "doneTest" \in ClientPlace \ {"join", "joinLocked", "gone"}
    BY DEF ClientPlace
  <2> QED BY <2>1, <2>2, CallOrder
<1>3. CASE Clear(c)
  <2>1. /\ client[c] = "idle" /\ \A d \in Client : ~Ending(d)
        /\ client' = client /\ tasks' = <<>> /\ client \in [Client -> ClientPlace]
        /\ UNCHANGED <<worker, threads, shutdown, toJoin, target, role>>
    BY <1>3, IdleNotEnding DEF Clear, workers, counts, resizing, IInv, Typed
  <2>2. "idle" \in ClientPlace \ {"join", "joinLocked", "gone"} /\ client' = [client EXCEPT ![c] = "idle"]
    BY <2>1 DEF ClientPlace
  <2> QED BY <2>1, <2>2, CallOrder
<1> QED BY <1>1, <1>2, <1>3, SubmitOrder, JoinOrder DEF Request

LEMMA OrderStep == ASSUME NoRacing, IInv, Orderly, [Next]_vars PROVE Orderly'
<1>1. CASE UNCHANGED vars
  BY <1>1 DEF vars, list, workers, counts, resizing, Orderly, OneAtATime, Staffed, Walked,
              Joining, Ending
<1> QED BY <1>1, WorkerOrder, ClientOrder, RequestOrder DEF Next

\* When the destructor has returned there is no worker left in a task, hence no
\* running task, and no list.
LEMMA GoneDrained == IInv /\ Placed /\ Orderly => DestroyDrains
<1> SUFFICES ASSUME IInv, Placed, Orderly, NEW c \in Client, client[c] = "gone"
             PROVE  tasks = <<>> /\ \A k \in Task : status[k] \notin {"queued", "running"}
  BY DEF DestroyDrains
<1>1. Ending(c) /\ toJoin[c] = {}
  BY DEF Orderly, OneAtATime
<1>2. \A w \in Worker : worker[w] \in {"exited", "unborn"}
  <2>1. \A w \in threads : worker[w] = "exited"
    BY <1>1 DEF Orderly, Walked
  <2> QED BY <2>1 DEF IInv, Agreed, At
<1>3. tasks = <<>>
  <2>1. CASE threads = {}
    BY <2>1 DEF Orderly, Staffed
  <2>2. CASE threads # {}
    <3>1. PICK w \in Worker : worker[w] = "exited"
      BY <1>2, <2>2 DEF IInv, Typed, Agreed, At
    <3> QED BY <3>1 DEF Orderly, Staffed
  <2> QED BY <2>1, <2>2
<1>4. \A k \in Task : status[k] # "queued"
  BY <1>3 DEF Placed, Listed
<1>5. InlineClients = {}
  BY <1>1 DEF Orderly, OneAtATime, InlineClients
<1>6. InlineTasks = {}
  BY <1>5, FS_EmptySet DEF Placed, Inlined
<1>7. \A w \in Worker : job[w] = <<>>
  BY <1>2 DEF Placed, InHand
<1>8. \A k \in Task : status[k] # "running"
  BY <1>6, <1>7 DEF InlineTasks
<1> QED BY <1>3, <1>4, <1>8

\* The destructor returns from a pool that has finished or dropped every task
\* it accepted (threadpool.cpp ~ThreadPool), for any number of threads, clients
\* and tasks, when no thread submits while another one resizes; a resize that
\* races with a submission can leave a task behind, with no thread to run it.
THEOREM PoolDestroyDrains == ASSUME NoRacing PROVE Spec => []DestroyDrains
<1>1. Init => IInv /\ Placed /\ Orderly
  BY InvInit, PlacedInit, OrderInit
<1>2. IInv /\ Placed /\ Orderly /\ [Next]_vars => (IInv /\ Placed /\ Orderly)'
  BY NoRacing, InvStep, PlacedStep, OrderStep
<1> QED BY <1>1, <1>2, GoneDrained, PTL DEF Spec
=============================================================================
