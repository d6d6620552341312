------------------------------- MODULE MCQueue -------------------------------
(* Queue with small casts of threads. *)
EXTENDS Queue

CONSTANTS p1, p2,   \* producers
          c1, c2,   \* consumers
          x         \* whoever does something else to the queue

Cast(producer, consumer, other) ==
    [t \in Thread |->
        CASE t \in {p1, p2} -> producer
          [] t \in {c1, c2} -> consumer
          [] t = x          -> other]

\* Bounded producers and consumers, disturbed in every way but by a drain waiter;
\* one reader next to a drain waiter, and producers that never block.
SafeCasts ==
    {Cast({"pushBlocking"}, {"pop"}, {"cancelWaiters", "tryPop", "clear", "setMaxSize"}),
     [t \in Thread |->
         CASE t \in {p1, p2} -> {"push", "pushList", "pushDropOldest"}
           [] t = c1         -> {"pop", "peek", "tryPop"}
           [] t = c2         -> {}
           [] t = x          -> {"waitForEmpty", "cancelWaiters", "reset"}]}
=============================================================================
