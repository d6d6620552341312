-------------------------------- MODULE Queue --------------------------------
(***************************************************************************)
(* Queue<T> (include/promeki/queue.h): the blocking queue between threads,   *)
(* one _mutex, the condition _cv shared by every caller that waits for an    *)
(* item or for emptiness, the condition _notFull for the bounded producers.  *)
(*                                                                         *)
(* One step is one critical section.  Elements are never compared, so the   *)
(* queue is its depth.  Which thread a wakeOne() reaches is free, as it is   *)
(* for std::condition_variable::notify_one.                                  *)
(***************************************************************************)
EXTENDS Integers, FiniteSets

CONSTANTS Thread,    \* the threads that share the queue
          Casts,     \* which operations each thread calls: the casts considered
          Timed,     \* the threads whose blocking calls pass a timeout
          Caps,      \* the values setMaxSize may be given; 0 is unbounded
          MaxDepth   \* bound: pushes that cannot block stop at this depth

Waiting == {"pop", "peek", "waitForEmpty"}   \* operations that wait on _cv
Op == Waiting \cup {"pushBlocking", "push", "pushList", "pushDropOldest", "tryPop",
                    "clear", "cancelWaiters", "reset", "setMaxSize"}

ASSUME QueueAssumption ==
    /\ IsFiniteSet(Thread)
    /\ Casts \subseteq [Thread -> SUBSET Op]
    /\ Timed \subseteq Thread
    /\ Caps \subseteq Nat
    /\ MaxDepth \in Nat

VARIABLES
    depth,      \* _queue.size()
    maxSize,    \* _maxSize
    cancelled,  \* _cancelled
    op,         \* the blocking operation each thread is in, or "none"
    at,         \* where it is: about to test its predicate, or asleep on a condition
    result,     \* what its last blocking call returned
    role        \* the cast of this behaviour

settings == <<maxSize, cancelled, role>>
blocked == <<op, at, result>>
vars == <<depth, settings, blocked>>

Places == {"out", "test", "cv", "notFull"}
Results == {"none", "ok", "timeout", "cancelled"}

Init ==
    /\ depth = 0
    /\ maxSize \in Caps
    /\ cancelled = FALSE
    /\ op = [t \in Thread |-> "none"]
    /\ at = [t \in Thread |-> "out"]
    /\ result = [t \in Thread |-> "none"]
    /\ role \in Casts

Asleep(f, c) == {t \in Thread : f[t] = c}

\* wakeOne() on condition c: any one sleeper, or nobody if there is none.
WakeOne(f, c) ==
    IF Asleep(f, c) = {} THEN {f} ELSE {[f EXCEPT ![t] = "test"] : t \in Asleep(f, c)}

\* wakeAll() on condition c.
WakeAll(f, c) == [t \in Thread |-> IF f[t] = c THEN "test" ELSE f[t]]

Full == maxSize > 0 /\ depth >= maxSize

\* The predicate each blocking operation waits for.
Ready(t) ==
    CASE op[t] \in {"pop", "peek"} -> cancelled \/ depth > 0
      [] op[t] = "waitForEmpty"    -> cancelled \/ depth = 0
      [] op[t] = "pushBlocking"    -> cancelled \/ ~Full

Condition(t) == IF op[t] \in Waiting THEN "cv" ELSE "notFull"

-----------------------------------------------------------------------------
(* Operations that do not block; the cap does not concern the plain pushes. *)

Idle(t, o) == at[t] = "out" /\ o \in role[t]

\* Mutant: consumers are woken only when the queue was empty.
AfterPushEdge(f) == IF depth = 0 THEN WakeOne(f, "cv") ELSE {f}

\* What adding one element wakes, given the places f.
AfterPush(f) == WakeOne(f, "cv")

Push(t) ==
    /\ Idle(t, "push") /\ depth < MaxDepth
    /\ depth' = depth + 1
    /\ at' \in AfterPush(at)
    /\ UNCHANGED <<settings, op, result>>

PushList(t) ==
    /\ Idle(t, "pushList")
    /\ \E n \in 2..(MaxDepth - depth) : depth' = depth + n
    /\ at' = WakeAll(at, "cv")
    /\ UNCHANGED <<settings, op, result>>

\* Evicts until one slot is free, then inserts; nothing once cancelled.
PushDropOldest(t) ==
    /\ Idle(t, "pushDropOldest") /\ ~cancelled
    /\ Full \/ depth < MaxDepth
    /\ depth' = IF Full THEN maxSize ELSE depth + 1
    /\ \E f \in AfterPush(at) : at' = IF Full THEN WakeAll(f, "notFull") ELSE f
    /\ UNCHANGED <<settings, op, result>>

\* Mutant: a take that empties the queue does not wake the drain waiters.
AfterTakeProducersOnly(f) == WakeOne(f, "notFull")

\* What removing the front element wakes, given the places f.
AfterTake(f) == WakeOne(IF depth = 1 THEN WakeAll(f, "cv") ELSE f, "notFull")

TryPop(t) ==
    /\ Idle(t, "tryPop") /\ depth > 0
    /\ depth' = depth - 1
    /\ at' \in AfterTake(at)
    /\ UNCHANGED <<settings, op, result>>

Clear(t) ==
    /\ Idle(t, "clear")
    /\ depth' = 0
    /\ at' = WakeAll(at, "notFull")
    /\ UNCHANGED <<settings, op, result>>

SetMaxSize(t) ==
    /\ Idle(t, "setMaxSize")
    /\ maxSize' \in Caps
    /\ at' = WakeAll(at, "notFull")
    /\ UNCHANGED <<depth, cancelled, op, result, role>>

\* Mutant: one consumer is woken, not all.
CancelWakesOne(f) == WakeOne(WakeAll(f, "notFull"), "cv")

\* What cancelWaiters() wakes.
CancelWakes(f) == {WakeAll(WakeAll(f, "cv"), "notFull")}

CancelWaiters(t) ==
    /\ Idle(t, "cancelWaiters")
    /\ cancelled' = TRUE
    /\ at' \in CancelWakes(at)
    /\ UNCHANGED <<depth, maxSize, op, result, role>>

Reset(t) ==
    /\ Idle(t, "reset")
    /\ cancelled' = FALSE
    /\ UNCHANGED <<depth, maxSize, blocked, role>>

-----------------------------------------------------------------------------
(* Operations that block: a call, then tests of the predicate under _mutex  *)
(* (at once and after every wake-up) until it holds or the timeout expires. *)

Call(t) ==
    \E o \in Waiting \cup {"pushBlocking"} :
        /\ Idle(t, o)
        /\ op' = [op EXCEPT ![t] = o]
        /\ at' = [at EXCEPT ![t] = "test"]
        /\ UNCHANGED <<depth, settings, result>>

Sleep(t) ==
    /\ at[t] = "test" /\ ~Ready(t)
    /\ at' = [at EXCEPT ![t] = Condition(t)]
    /\ UNCHANGED <<depth, settings, op, result>>

Leave(t, r) ==
    /\ op' = [op EXCEPT ![t] = "none"]
    /\ result' = [result EXCEPT ![t] = r]
    /\ UNCHANGED <<settings>>

Out(t) == [at EXCEPT ![t] = "out"]

\* pop(): an item is taken even from a cancelled queue.
PopTake(t) ==
    /\ at[t] = "test" /\ op[t] = "pop" /\ depth > 0
    /\ depth' = depth - 1
    /\ at' \in AfterTake(Out(t))
    /\ Leave(t, "ok")

Peek(t) ==
    /\ at[t] = "test" /\ op[t] = "peek" /\ depth > 0
    /\ at' = Out(t)
    /\ Leave(t, "ok")
    /\ UNCHANGED depth

\* pop() and peek() of a cancelled queue that has nothing left.
ReaderCancelled(t) ==
    /\ at[t] = "test" /\ op[t] \in {"pop", "peek"} /\ cancelled /\ depth = 0
    /\ at' = Out(t)
    /\ Leave(t, "cancelled")
    /\ UNCHANGED depth

\* waitForEmpty() says Ok for a cancelled queue too, drained or not.
Drained(t) ==
    /\ at[t] = "test" /\ op[t] = "waitForEmpty" /\ Ready(t)
    /\ at' = Out(t)
    /\ Leave(t, "ok")
    /\ UNCHANGED depth

PushInsert(t) ==
    /\ at[t] = "test" /\ op[t] = "pushBlocking" /\ ~cancelled /\ ~Full
    /\ depth < MaxDepth
    /\ depth' = depth + 1
    /\ at' \in AfterPush(Out(t))
    /\ Leave(t, "ok")

PushCancelled(t) ==
    /\ at[t] = "test" /\ op[t] = "pushBlocking" /\ cancelled
    /\ at' = Out(t)
    /\ Leave(t, "cancelled")
    /\ UNCHANGED depth

\* The wait of a timed call expires, and the predicate does not hold either.
Expire(t) ==
    /\ t \in Timed /\ at[t] \in {"cv", "notFull"} /\ ~Ready(t)
    /\ at' = Out(t)
    /\ Leave(t, "timeout")
    /\ UNCHANGED depth

\* It expires when the predicate holds: the call goes on as if woken.
ExpireReady(t) ==
    /\ t \in Timed /\ at[t] \in {"cv", "notFull"} /\ Ready(t)
    /\ at' = [at EXCEPT ![t] = "test"]
    /\ UNCHANGED <<depth, settings, op, result>>

-----------------------------------------------------------------------------
\* A thread inside a blocking call, awake.
Proceed(t) ==
    \/ Sleep(t) \/ PopTake(t) \/ Peek(t) \/ ReaderCancelled(t)
    \/ Drained(t) \/ PushInsert(t) \/ PushCancelled(t)

Timeout(t) == Expire(t) \/ ExpireReady(t)

Request(t) ==
    \/ Push(t) \/ PushList(t) \/ PushDropOldest(t) \/ TryPop(t) \/ Clear(t)
    \/ SetMaxSize(t) \/ CancelWaiters(t) \/ Reset(t) \/ Call(t)

Next == \E t \in Thread : Proceed(t) \/ Timeout(t) \/ Request(t)

\* Awake threads get the mutex and timers expire; nobody need call anything.
Fairness == \A t \in Thread : WF_vars(Proceed(t)) /\ WF_vars(Timeout(t))

Spec == Init /\ [][Next]_vars /\ Fairness

-----------------------------------------------------------------------------
(* Properties.                                                              *)

TypeOK ==
    /\ depth \in Nat
    /\ maxSize \in Caps
    /\ cancelled \in BOOLEAN
    /\ op \in [Thread -> Waiting \cup {"pushBlocking", "none"}]
    /\ at \in [Thread -> Places]
    /\ result \in [Thread -> Results]
    /\ role \in Casts

Awake(o) == {t \in Thread : at[t] = "test" /\ op[t] = o}
Sleeping(o) == {t \in Thread : at[t] \in {"cv", "notFull"} /\ op[t] = o}

\* No wake-up is lost.  If a consumer sleeps in pop(), every item has another
\* one that was woken and is about to take it; if a producer sleeps in
\* pushBlocking(), so has every free slot, and the cap is still in force.
NoStarvedThread ==
    /\ Sleeping("pop") # {} => depth <= Cardinality(Awake("pop"))
    /\ Sleeping("pushBlocking") # {} =>
           /\ maxSize > 0
           /\ maxSize - depth <= Cardinality(Awake("pushBlocking"))

\* A queue that is cancelled, and not reset, holds no thread for good.
CancelReleases ==
    \A t \in Thread : (cancelled /\ at[t] # "out") ~> (at[t] = "out" \/ ~cancelled)

\* A thread in waitForEmpty() does not sleep on once the queue is empty.
\* queue.h:357 "Blocks until the queue is empty."
EmptySeen ==
    \A t \in Thread : (t \in Sleeping("waitForEmpty") /\ depth = 0) ~> (at[t] # "cv" \/ depth > 0)
=============================================================================
