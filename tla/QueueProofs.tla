----------------------------- MODULE QueueProofs -----------------------------
(***************************************************************************)
(* Proofs about Queue.                                                      *)
(*                                                                         *)
(* That no wake-up is lost is inductive once two facts are added: where a   *)
(* thread is goes with the call it is in, and a cancelled queue has no      *)
(* sleeper (Placed).  Then every step is one of four kinds: it only wakes   *)
(* threads, it adds an item and wakes a reader for it, it frees a slot and  *)
(* wakes a producer for it, or it puts a thread to sleep that has nothing   *)
(* to wait on.  The notification of an item must reach a thread that takes  *)
(* it: this is the hypothesis ReadersAlike.                                 *)
(***************************************************************************)
EXTENDS Queue, FiniteSetTheorems, TLAPS

\* wakeOne() wakes one sleeper of its condition, if there is one.
LEMMA WakeOneType ==
  ASSUME NEW f \in [Thread -> Places], NEW c \in {"cv", "notFull"}, NEW g \in WakeOne(f, c)
  PROVE  /\ g \in [Thread -> Places]
         /\ \/ g = f /\ Asleep(f, c) = {}
            \/ \E u \in Asleep(f, c) : g = [f EXCEPT ![u] = "test"]
BY DEF WakeOne, Asleep, Places

\* wakeAll() wakes the sleepers of its condition and touches nobody else.
LEMMA WakeAllType ==
  ASSUME NEW f \in [Thread -> Places], NEW c \in {"cv", "notFull"}
  PROVE  /\ WakeAll(f, c) \in [Thread -> Places]
         /\ \A t \in Thread : WakeAll(f, c)[t] = IF f[t] = c THEN "test" ELSE f[t]
BY DEF WakeAll, Places

\* What a take makes of the places f.
Taken(f, g) ==
    /\ g \in [Thread -> Places]
    /\ \A s \in Thread : \/ g[s] = f[s] /\ (depth = 1 => f[s] # "cv")
                         \/ f[s] = "cv" /\ depth = 1 /\ g[s] = "test"
                         \/ f[s] = "notFull" /\ g[s] = "test"
    /\ (\E s \in Thread : f[s] = "notFull") =>
          \E u \in Thread : f[u] = "notFull" /\ g[u] = "test"

\* Removing an element wakes a producer, and everybody on _cv when it was the last.
LEMMA AfterTakeType ==
  ASSUME NEW f \in [Thread -> Places], NEW g \in AfterTake(f)
  PROVE  Taken(f, g)
<1>1. PICK h \in [Thread -> Places] : h = IF depth = 1 THEN WakeAll(f, "cv") ELSE f
  BY WakeAllType
<1>2. g \in WakeOne(h, "notFull")
  BY <1>1 DEF AfterTake
<1>3. /\ g \in [Thread -> Places]
      /\ \/ g = h /\ Asleep(h, "notFull") = {}
         \/ \E u \in Asleep(h, "notFull") : g = [h EXCEPT ![u] = "test"]
  BY <1>1, <1>2, WakeOneType
<1>4. \A s \in Thread : h[s] = IF depth = 1 /\ f[s] = "cv" THEN "test" ELSE f[s]
  BY <1>1, WakeAllType
<1>5. \A s \in Thread : g[s] = h[s] \/ (h[s] = "notFull" /\ g[s] = "test")
  BY <1>1, <1>3 DEF Asleep
<1>6. (\E s \in Thread : h[s] = "notFull") => \E u \in Thread : h[u] = "notFull" /\ g[u] = "test"
  BY <1>1, <1>3 DEF Asleep
<1>7. \A s \in Thread : \/ g[s] = f[s] /\ (depth = 1 => f[s] # "cv")
                        \/ f[s] = "cv" /\ depth = 1 /\ g[s] = "test"
                        \/ f[s] = "notFull" /\ g[s] = "test"
  <2> TAKE s \in Thread
  <2>1. g[s] = h[s] \/ (h[s] = "notFull" /\ g[s] = "test")
    BY <1>5
  <2>2. CASE depth = 1 /\ f[s] = "cv"
    BY <1>4, <2>1, <2>2
  <2>3. CASE ~(depth = 1 /\ f[s] = "cv")
    <3>1. h[s] = f[s]
      BY <1>4, <2>3
    <3>2. depth = 1 => f[s] # "cv"
      BY <2>3
    <3> QED BY <2>1, <3>1, <3>2
  <2> QED BY <2>2, <2>3
<1>8. \A s \in Thread : h[s] = "notFull" <=> f[s] = "notFull"
  BY <1>4
<1> QED BY <1>3, <1>6, <1>7, <1>8 DEF Taken

\* Where a thread is goes with what it is in, and a cancelled queue has no sleepers.
Placed ==
    /\ \A t \in Thread :
          /\ at[t] = "cv" => op[t] \in Waiting
          /\ at[t] = "notFull" => op[t] = "pushBlocking"
          /\ at[t] = "out" <=> op[t] = "none"
          /\ op[t] # "none" => op[t] \in role[t]
          /\ cancelled => at[t] \notin {"cv", "notFull"}

Base == TypeOK /\ Placed

\* A new queue is well-typed and has nobody in a call.
LEMMA BaseInit == Init => Base
<1> SUFFICES ASSUME Init PROVE Base
  OBVIOUS
<1>1. depth \in Nat /\ cancelled \in BOOLEAN /\ maxSize \in Caps /\ role \in Casts
  BY DEF Init
<1>2. /\ op \in [Thread -> Waiting \cup {"pushBlocking", "none"}]
      /\ at \in [Thread -> Places] /\ result \in [Thread -> Results]
  BY DEF Init, Places, Results
<1>3. Placed
  BY DEF Init, Placed
<1> QED BY <1>1, <1>2, <1>3 DEF Base, TypeOK

\* Every operation keeps types and places.
LEMMA BaseStep == Base /\ [Next]_vars => Base'
<1> SUFFICES ASSUME Base, [Next]_vars PROVE Base'
  OBVIOUS
<1> USE DEF Base, TypeOK, Placed, settings, blocked
<1>1. ASSUME NEW t \in Thread, Push(t) PROVE Base'
  <2>1. at' \in WakeOne(at, "cv") /\ depth' = depth + 1 /\ UNCHANGED <<settings, op, result>>
    BY <1>1 DEF Push, AfterPush
  <2> QED BY <2>1, WakeOneType DEF Asleep
<1>2. ASSUME NEW t \in Thread, PushList(t) PROVE Base'
  <2>1. at' = WakeAll(at, "cv") /\ depth' \in Nat /\ UNCHANGED <<settings, op, result>>
    BY <1>2, QueueAssumption DEF PushList
  <2> QED BY <2>1, WakeAllType
<1>3. ASSUME NEW t \in Thread, PushDropOldest(t) PROVE Base'
  <2>1. PICK f \in WakeOne(at, "cv") : at' = IF Full THEN WakeAll(f, "notFull") ELSE f
    BY <1>3 DEF PushDropOldest, AfterPush
  <2>2. f \in [Thread -> Places]
        /\ (f = at \/ \E u \in Asleep(at, "cv") : f = [at EXCEPT ![u] = "test"])
    BY WakeOneType
  <2>3. at' \in [Thread -> Places]
        /\ \A s \in Thread : at'[s] = f[s] \/ (f[s] = "notFull" /\ at'[s] = "test")
    BY <2>1, <2>2, WakeAllType
  <2>4. depth' \in Nat /\ UNCHANGED <<settings, op, result>>
    BY <1>3, QueueAssumption DEF PushDropOldest, Full
  <2> QED BY <2>2, <2>3, <2>4 DEF Asleep
<1>4. ASSUME NEW t \in Thread, TryPop(t) PROVE Base'
  <2>1. at' \in AfterTake(at) /\ depth' \in Nat /\ UNCHANGED <<settings, op, result>>
    BY <1>4 DEF TryPop
  <2>2. at' \in [Thread -> Places]
        /\ \A s \in Thread : at'[s] = at[s] \/ (at[s] \in {"cv", "notFull"} /\ at'[s] = "test")
    <3>1. Taken(at, at')
      BY <2>1, AfterTakeType
    <3> QED BY <3>1 DEF Taken
  <2> QED BY <2>1, <2>2
<1>5. ASSUME NEW t \in Thread, Clear(t) PROVE Base'
  BY <1>5, WakeAllType DEF Clear
<1>6. ASSUME NEW t \in Thread, SetMaxSize(t) PROVE Base'
  BY <1>6, WakeAllType DEF SetMaxSize
<1>7. ASSUME NEW t \in Thread, CancelWaiters(t) PROVE Base'
  <2> DEFINE g == WakeAll(at, "cv")
  <2>1. at' = WakeAll(g, "notFull") /\ cancelled' /\ UNCHANGED <<depth, maxSize, op, result, role>>
        /\ cancelled' = TRUE
    BY <1>7 DEF CancelWaiters, CancelWakes
  <2>2. g \in [Thread -> Places] /\ \A s \in Thread : g[s] = IF at[s] = "cv" THEN "test" ELSE at[s]
    BY WakeAllType
  <2> HIDE DEF g
  <2>3. /\ at' \in [Thread -> Places]
        /\ \A s \in Thread : at'[s] = IF g[s] = "notFull" THEN "test" ELSE g[s]
    BY <2>1, <2>2, WakeAllType
  <2> QED BY <2>1, <2>2, <2>3
<1>8. ASSUME NEW t \in Thread, Reset(t) PROVE Base'
  BY <1>8 DEF Reset
<1>9. ASSUME NEW t \in Thread, Call(t) PROVE Base'
  BY <1>9 DEF Call, Idle, Waiting, Places
<1>10. ASSUME NEW t \in Thread, Sleep(t) PROVE Base'
  <2>1. at' = [at EXCEPT ![t] = Condition(t)] /\ at[t] = "test" /\ ~Ready(t)
        /\ UNCHANGED <<depth, settings, op, result>>
    BY <1>10 DEF Sleep
  <2>2. op[t] # "none"
    BY <2>1
  <2>3. op[t] \in Waiting \/ op[t] = "pushBlocking"
    BY <2>2
  <2>4. ~cancelled
    BY <2>1, <2>3 DEF Ready, Waiting
  <2>5. CASE op[t] \in Waiting
    BY <2>1, <2>4, <2>5 DEF Condition, Places
  <2>6. CASE op[t] = "pushBlocking"
    BY <2>1, <2>4, <2>6 DEF Condition, Places, Waiting
  <2> QED BY <2>3, <2>5, <2>6
<1>11. ASSUME NEW t \in Thread, PopTake(t) PROVE Base'
  <2>1. PICK away \in [Thread -> Places] : away = [at EXCEPT ![t] = "out"]
    BY DEF Places
  <2>2. at' \in AfterTake(away) /\ depth' \in Nat
        /\ op' = [op EXCEPT ![t] = "none"] /\ result' = [result EXCEPT ![t] = "ok"]
        /\ UNCHANGED settings
    BY <1>11, <2>1 DEF PopTake, Leave, Out
  <2>3. at' \in [Thread -> Places]
        /\ \A s \in Thread : at'[s] = away[s] \/ (away[s] \in {"cv", "notFull"} /\ at'[s] = "test")
    <3>1. Taken(away, at')
      BY <2>1, <2>2, AfterTakeType
    <3> QED BY <3>1 DEF Taken
  <2> QED BY <2>1, <2>2, <2>3 DEF Results
<1>12. ASSUME NEW t \in Thread, Peek(t) PROVE Base'
  BY <1>12 DEF Peek, Out, Leave, Places, Results
<1>13. ASSUME NEW t \in Thread, ReaderCancelled(t) PROVE Base'
  BY <1>13 DEF ReaderCancelled, Out, Leave, Places, Results
<1>14. ASSUME NEW t \in Thread, Drained(t) PROVE Base'
  BY <1>14 DEF Drained, Out, Leave, Places, Results
<1>15. ASSUME NEW t \in Thread, PushInsert(t) PROVE Base'
  <2>1. PICK away \in [Thread -> Places] : away = [at EXCEPT ![t] = "out"]
    BY DEF Places
  <2>2. at' \in WakeOne(away, "cv") /\ depth' = depth + 1
        /\ op' = [op EXCEPT ![t] = "none"] /\ result' = [result EXCEPT ![t] = "ok"]
        /\ UNCHANGED settings
    BY <1>15, <2>1 DEF PushInsert, AfterPush, Leave, Out
  <2>3. at' \in [Thread -> Places]
        /\ (at' = away \/ \E u \in Asleep(away, "cv") : at' = [away EXCEPT ![u] = "test"])
    BY <2>2, WakeOneType
  <2>4. \A s \in Thread : at'[s] = away[s] \/ (away[s] = "cv" /\ at'[s] = "test")
    BY <2>1, <2>3 DEF Asleep
  <2> QED BY <2>1, <2>2, <2>3, <2>4 DEF Results
<1>16. ASSUME NEW t \in Thread, PushCancelled(t) PROVE Base'
  BY <1>16 DEF PushCancelled, Out, Leave, Places, Results
<1>17. ASSUME NEW t \in Thread, Expire(t) PROVE Base'
  BY <1>17 DEF Expire, Out, Leave, Places, Results
<1>18. ASSUME NEW t \in Thread, ExpireReady(t) PROVE Base'
  BY <1>18 DEF ExpireReady, Places
<1>19. CASE UNCHANGED vars
  BY <1>19 DEF vars
<1> QED
  BY <1>1, <1>2, <1>3, <1>4, <1>5, <1>6, <1>7, <1>8, <1>9, <1>10, <1>11, <1>12, <1>13,
     <1>14, <1>15, <1>16, <1>17, <1>18, <1>19
  DEF Next, Proceed, Timeout, Request

\* A consumer is never in reach of a notification meant for another kind of call.
ReadersAlike ==
    \A r \in Casts : \A t, u \in Thread : "pop" \in r[t] => r[u] \cap Waiting \subseteq {"pop"}

\* The halves of NoStarvedThread, for one proof each.
PopServed == Sleeping("pop") # {} => depth <= Cardinality(Awake("pop"))
PushServed ==
    Sleeping("pushBlocking") # {} =>
        maxSize > 0 /\ maxSize - depth <= Cardinality(Awake("pushBlocking"))

\* How the sizes of two sets of threads compare.
LEMMA Counted ==
  ASSUME NEW S, NEW T, S \subseteq Thread, T \subseteq Thread
  PROVE  /\ Cardinality(S) \in Nat /\ Cardinality(T) \in Nat
         /\ S \subseteq T => Cardinality(S) <= Cardinality(T)
         /\ \A t \in T : S = T \ {t} => Cardinality(S) = Cardinality(T) - 1
         /\ \A t : T \ {t} \subseteq S => Cardinality(T) - 1 <= Cardinality(S)
         /\ \A t \in T : t \notin S /\ S \subseteq T => Cardinality(S) + 1 <= Cardinality(T)
<1>1. IsFiniteSet(S) /\ IsFiniteSet(T)
  BY QueueAssumption, FS_Subset
<1>2. Cardinality(S) \in Nat /\ Cardinality(T) \in Nat
  BY <1>1, FS_CardinalityType
<1>3. S \subseteq T => Cardinality(S) <= Cardinality(T)
  BY <1>1, FS_Subset
<1>4. ASSUME NEW t PROVE Cardinality(T \ {t}) = IF t \in T THEN Cardinality(T) - 1 ELSE Cardinality(T)
  BY <1>1, FS_RemoveElement
<1>5. ASSUME NEW t PROVE T \ {t} \subseteq S => Cardinality(T) - 1 <= Cardinality(S)
  <2>1. T \ {t} \subseteq S => Cardinality(T \ {t}) <= Cardinality(S)
    BY <1>1, FS_Subset
  <2> QED BY <1>2, <1>4, <2>1
<1>6. ASSUME NEW t \in T PROVE t \notin S /\ S \subseteq T => Cardinality(S) + 1 <= Cardinality(T)
  <2>1. IsFiniteSet(T \ {t})
    BY <1>1, FS_RemoveElement
  <2>2. t \notin S /\ S \subseteq T => Cardinality(S) <= Cardinality(T \ {t})
    BY <2>1, FS_Subset
  <2> QED BY <1>2, <1>4, <2>2
<1> QED BY <1>2, <1>3, <1>4, <1>5, <1>6

\* Nobody fell asleep, nobody awake went away and the items became no more.
LEMMA PopKept ==
  ASSUME PopServed, Base, depth' \in Nat, depth' <= depth,
         Sleeping("pop")' \subseteq Sleeping("pop"), Awake("pop") \subseteq Awake("pop")',
         Awake("pop")' \subseteq Thread
  PROVE  PopServed'
<1>1. /\ Cardinality(Awake("pop")) \in Nat /\ Cardinality(Awake("pop")') \in Nat
      /\ Cardinality(Awake("pop")) <= Cardinality(Awake("pop")')
  BY Counted DEF Awake
<1> QED BY <1>1 DEF PopServed, Base, TypeOK

\* The same for the producers: the free slots became no more.
LEMMA PushKept ==
  ASSUME PushServed, Base, depth' \in Nat, depth' >= depth, maxSize' = maxSize, maxSize \in Nat,
         Sleeping("pushBlocking")' \subseteq Sleeping("pushBlocking"),
         Awake("pushBlocking") \subseteq Awake("pushBlocking")',
         Awake("pushBlocking")' \subseteq Thread
  PROVE  PushServed'
<1>1. /\ Cardinality(Awake("pushBlocking")) \in Nat /\ Cardinality(Awake("pushBlocking")') \in Nat
      /\ Cardinality(Awake("pushBlocking")) <= Cardinality(Awake("pushBlocking")')
  BY Counted DEF Awake
<1> QED BY <1>1 DEF PushServed, Base, TypeOK

\* A step that only wakes threads.
OnlyWakes == \A s \in Thread : at'[s] = at[s] \/ (at[s] \in {"cv", "notFull"} /\ at'[s] = "test")

\* Such a step adds nobody to the sleepers and takes nobody from those awake.
LEMMA WakesKeep ==
  ASSUME Base, OnlyWakes, op' = op, NEW o
  PROVE  /\ Sleeping(o)' \subseteq Sleeping(o) /\ Awake(o) \subseteq Awake(o)'
         /\ Awake(o)' \subseteq Thread
BY DEF OnlyWakes, Sleeping, Awake

\* A step that wakes one more thread that is in operation o.
LEMMA OneMore ==
  ASSUME Base, OnlyWakes, op' = op, NEW o,
         NEW u \in Thread, at[u] \in {"cv", "notFull"}, at'[u] = "test", op[u] = o
  PROVE  /\ Cardinality(Awake(o)) \in Nat /\ Cardinality(Awake(o)') \in Nat
         /\ Cardinality(Awake(o)) + 1 <= Cardinality(Awake(o)')
<1>1. Awake(o) \subseteq Thread /\ Awake(o)' \subseteq Thread /\ Awake(o) \subseteq Awake(o)'
  BY WakesKeep DEF Awake
<1>2. u \notin Awake(o) /\ u \in Awake(o)'
  BY DEF Awake
<1> QED BY <1>1, <1>2, Counted

\* Adding an element only wakes, and wakes a reader if one sleeps.
LEMMA PushWake ==
  ASSUME Base, NEW f \in AfterPush(at), at' = f
  PROVE  OnlyWakes /\ (at' = at => Asleep(at, "cv") = {})
                   /\ (Asleep(at, "cv") # {} => \E u \in Thread : at[u] = "cv" /\ at'[u] = "test")
<1>1. at \in [Thread -> Places] /\ f \in WakeOne(at, "cv")
  BY DEF Base, TypeOK, AfterPush
<1>2. f \in [Thread -> Places] 
      /\ \/ f = at /\ Asleep(at, "cv") = {}
         \/ \E u \in Asleep(at, "cv") : f = [at EXCEPT ![u] = "test"]
  BY <1>1, WakeOneType
<1> QED BY <1>1, <1>2 DEF OnlyWakes, Asleep

\* tryPop() only wakes, and wakes a producer if one sleeps.
LEMMA TakeWakes ==
  ASSUME Base, at' \in AfterTake(at)
  PROVE  /\ OnlyWakes
         /\ depth = 1 => Asleep(at', "cv") = {}
         /\ (\E s \in Thread : at[s] = "notFull") =>
               \E u \in Thread : at[u] = "notFull" /\ at'[u] = "test"
<1>1. at \in [Thread -> Places]
  BY DEF Base, TypeOK
<1>2. Taken(at, at')
  BY <1>1, AfterTakeType
<1> QED BY <1>2 DEF Taken, OnlyWakes, Asleep

Served == PopServed /\ PushServed

\* Depth and cap are numbers.
LEMMA CapType == Base => maxSize \in Nat /\ depth \in Nat
BY QueueAssumption DEF Base, TypeOK

\* On a cancelled queue nobody sleeps, so nobody starves.
LEMMA NoSleeper ==
  ASSUME Base', cancelled'
  PROVE  Served'
<1>1. \A s \in Thread : at'[s] \notin {"cv", "notFull"}
  BY DEF Base, Placed
<1>2. Sleeping("pop")' = {} /\ Sleeping("pushBlocking")' = {}
  BY <1>1 DEF Sleeping
<1> QED BY <1>2 DEF Served, PopServed, PushServed

\* An item more: a sleeping consumer, if there is one, is woken for it.
LEMMA PopPushed ==
  ASSUME ReadersAlike, Base, PopServed, at' \in AfterPush(at), depth' = depth + 1, op' = op
  PROVE  PopServed'
<1>1. OnlyWakes /\ (Asleep(at, "cv") # {} => \E u \in Thread : at[u] = "cv" /\ at'[u] = "test")
  BY PushWake
<1> SUFFICES ASSUME Sleeping("pop")' # {} PROVE (depth <= Cardinality(Awake("pop")))'
  BY DEF PopServed
<1>2. PICK s \in Sleeping("pop") : TRUE
  BY <1>1, WakesKeep
<1>3. s \in Asleep(at, "cv") /\ "pop" \in role[s] /\ s \in Thread
  BY <1>2 DEF Base, Placed, TypeOK, Sleeping, Asleep, Waiting
<1>4. PICK u \in Thread : at[u] = "cv" /\ at'[u] = "test"
  BY <1>1, <1>3
<1>5. op[u] = "pop"
  BY <1>3, <1>4 DEF Base, Placed, TypeOK, ReadersAlike, Waiting
<1>6. /\ Cardinality(Awake("pop")) \in Nat /\ Cardinality(Awake("pop")') \in Nat
      /\ Cardinality(Awake("pop")) + 1 <= Cardinality(Awake("pop")')
  BY <1>1, <1>4, <1>5, OneMore
<1>7. depth <= Cardinality(Awake("pop"))
  BY <1>2 DEF PopServed
<1> QED BY <1>6, <1>7, CapType

\* A slot more: a sleeping producer, if there is one, is woken for it.
LEMMA PushTaken ==
  ASSUME Base, PushServed, at' \in AfterTake(at), depth' = depth - 1, op' = op, maxSize' = maxSize
  PROVE  PushServed'
<1>1. /\ OnlyWakes
      /\ (\E s \in Thread : at[s] = "notFull") =>
            \E u \in Thread : at[u] = "notFull" /\ at'[u] = "test"
  BY TakeWakes
<1> SUFFICES ASSUME Sleeping("pushBlocking")' # {}
             PROVE  maxSize' > 0 /\ (maxSize - depth <= Cardinality(Awake("pushBlocking")))'
  BY DEF PushServed
<1>2. PICK s \in Sleeping("pushBlocking") : TRUE
  BY <1>1, WakesKeep
<1>3. s \in Thread /\ at[s] = "notFull"
  BY <1>2 DEF Base, Placed, TypeOK, Sleeping, Waiting
<1>4. PICK u \in Thread : at[u] = "notFull" /\ at'[u] = "test"
  BY <1>1, <1>3
<1>5. op[u] = "pushBlocking"
  BY <1>4 DEF Base, Placed
<1>6. LET n == Cardinality(Awake("pushBlocking"))
          m == Cardinality(Awake("pushBlocking")')
      IN  n \in Nat /\ m \in Nat /\ n + 1 <= m
  BY <1>1, <1>4, <1>5, OneMore
<1>7. maxSize > 0 /\ maxSize - depth <= Cardinality(Awake("pushBlocking"))
  BY <1>2 DEF PushServed
<1> QED BY <1>6, <1>7, CapType

\* A consumer that leaves with an item is one fewer for one item fewer.
LEMMA PopTakeServed ==
  ASSUME Base, Served, NEW t \in Thread, PopTake(t)
  PROVE  Served'
<1>1. PICK away \in [Thread -> Places] : away = [at EXCEPT ![t] = "out"]
  BY DEF Base, TypeOK, Places
<1>2. /\ at[t] = "test" /\ op[t] = "pop" /\ depth > 0 /\ depth' = depth - 1
      /\ at' \in AfterTake(away) /\ op' = [op EXCEPT ![t] = "none"] /\ maxSize' = maxSize
  BY <1>1 DEF PopTake, Out, Leave, settings
<1>3. Taken(away, at')
  BY <1>1, <1>2, AfterTakeType
<1>4. depth \in Nat /\ maxSize \in Nat
  BY CapType
<1>5. \A s \in Thread \ {t} : away[s] = at[s] /\ op'[s] = op[s]
  BY <1>1, <1>2 DEF Base, TypeOK
<1>6. away[t] = "out" /\ op'[t] = "none"
  BY <1>1, <1>2 DEF Base, TypeOK
<1>7. \A s \in Thread \ {t} : at'[s] = at[s] \/ (at[s] \in {"cv", "notFull"} /\ at'[s] = "test")
  BY <1>3, <1>5 DEF Taken
<1>8. \A o \in {"pop", "pushBlocking"} :
         Sleeping(o)' \subseteq Sleeping(o) /\ Awake(o) \ {t} \subseteq Awake(o)' /\ Awake(o)' \subseteq Thread
  BY <1>5, <1>6, <1>7 DEF Sleeping, Awake
<1>9. PopServed'
  <2>1. /\ Cardinality(Awake("pop")) \in Nat /\ Cardinality(Awake("pop")') \in Nat
        /\ Cardinality(Awake("pop")) - 1 <= Cardinality(Awake("pop")')
    BY <1>8, Counted DEF Awake
  <2>2. Sleeping("pop")' # {} => depth <= Cardinality(Awake("pop"))
    BY <1>8 DEF Served, PopServed
  <2> QED BY <1>2, <1>4, <2>1, <2>2 DEF PopServed
<1>10. ASSUME Sleeping("pushBlocking")' # {}
       PROVE  maxSize' > 0 /\ (maxSize - depth <= Cardinality(Awake("pushBlocking")))'
  <2>1. PICK s \in Sleeping("pushBlocking") : TRUE
    BY <1>8, <1>10
  <2>2. s \in Thread /\ at[s] = "notFull" /\ s # t
    BY <1>2, <2>1 DEF Base, Placed, TypeOK, Sleeping, Waiting
  <2>3. PICK u \in Thread : away[u] = "notFull" /\ at'[u] = "test"
    BY <1>3, <1>5, <2>2 DEF Taken
  <2>4. u # t /\ at[u] = "notFull" /\ op[u] = "pushBlocking" /\ op'[u] = "pushBlocking"
    BY <1>5, <1>6, <2>3 DEF Base, Placed
  <2>5. t \notin Awake("pushBlocking")
    BY <1>2 DEF Awake
  <2>6. /\ u \notin Awake("pushBlocking") /\ u \in Awake("pushBlocking")'
        /\ Awake("pushBlocking") \subseteq Awake("pushBlocking")'
    BY <1>8, <2>3, <2>4, <2>5 DEF Awake
  <2>7. /\ Cardinality(Awake("pushBlocking")) \in Nat /\ Cardinality(Awake("pushBlocking")') \in Nat
        /\ Cardinality(Awake("pushBlocking")) + 1 <= Cardinality(Awake("pushBlocking")')
    BY <1>8, <2>6, Counted DEF Awake
  <2>8. maxSize > 0 /\ maxSize - depth <= Cardinality(Awake("pushBlocking"))
    BY <2>1 DEF Served, PushServed
  <2> QED BY <1>2, <1>4, <2>7, <2>8
<1>11. PushServed'
  BY <1>10 DEF PushServed
<1> QED BY <1>9, <1>11 DEF Served

\* A producer that leaves is one fewer for one slot fewer.
LEMMA PushInsertServed ==
  ASSUME ReadersAlike, Base, Served, NEW t \in Thread, PushInsert(t)
  PROVE  Served'
<1>1. PICK away \in [Thread -> Places] : away = [at EXCEPT ![t] = "out"]
  BY DEF Base, TypeOK, Places
<1>2. /\ at[t] = "test" /\ op[t] = "pushBlocking" /\ depth' = depth + 1
      /\ at' \in WakeOne(away, "cv") /\ op' = [op EXCEPT ![t] = "none"] /\ maxSize' = maxSize
  BY <1>1 DEF PushInsert, AfterPush, Out, Leave, settings
<1>3. /\ at' \in [Thread -> Places]
      /\ \/ at' = away /\ Asleep(away, "cv") = {}
         \/ \E u \in Asleep(away, "cv") : at' = [away EXCEPT ![u] = "test"]
  BY <1>2, WakeOneType
<1>4. depth \in Nat /\ maxSize \in Nat
  BY CapType
<1>5. \A s \in Thread \ {t} : away[s] = at[s] /\ op'[s] = op[s]
  BY <1>1, <1>2 DEF Base, TypeOK
<1>6. away[t] = "out" /\ op'[t] = "none"
  BY <1>1, <1>2 DEF Base, TypeOK
<1>7. \A s \in Thread : at'[s] = away[s] \/ (away[s] = "cv" /\ at'[s] = "test")
  BY <1>1, <1>3 DEF Asleep
<1>8. \A o \in {"pop", "pushBlocking"} :
         Sleeping(o)' \subseteq Sleeping(o) /\ Awake(o) \ {t} \subseteq Awake(o)' /\ Awake(o)' \subseteq Thread
  BY <1>5, <1>6, <1>7 DEF Sleeping, Awake
<1>9. PushServed'
  <2>1. /\ Cardinality(Awake("pushBlocking")) \in Nat /\ Cardinality(Awake("pushBlocking")') \in Nat
        /\ Cardinality(Awake("pushBlocking")) - 1 <= Cardinality(Awake("pushBlocking")')
    BY <1>8, Counted DEF Awake
  <2>2. Sleeping("pushBlocking")' # {} =>
           maxSize > 0 /\ maxSize - depth <= Cardinality(Awake("pushBlocking"))
    BY <1>8 DEF Served, PushServed
  <2> QED BY <1>2, <1>4, <2>1, <2>2 DEF PushServed
<1>10. ASSUME Sleeping("pop")' # {}
       PROVE  (depth <= Cardinality(Awake("pop")))'
  <2>1. PICK s \in Sleeping("pop") : TRUE
    BY <1>8, <1>10
  <2>2. s \in Thread /\ at[s] = "cv" /\ s # t /\ "pop" \in role[s]
    BY <1>2, <2>1 DEF Base, Placed, TypeOK, Sleeping, Waiting
  <2>3. PICK u \in Asleep(away, "cv") : at' = [away EXCEPT ![u] = "test"]
    BY <1>3, <1>5, <2>2 DEF Asleep
  <2>4. u \in Thread /\ u # t /\ at[u] = "cv" /\ at'[u] = "test"
    BY <1>1, <1>5, <1>6, <2>3 DEF Asleep
  <2>5. op[u] = "pop" /\ op'[u] = "pop"
    BY <1>5, <2>2, <2>4 DEF Base, Placed, TypeOK, ReadersAlike, Waiting
  <2>6. t \notin Awake("pop")
    BY <1>2 DEF Awake
  <2>7. /\ u \notin Awake("pop") /\ u \in Awake("pop")'
        /\ Awake("pop") \subseteq Awake("pop")'
    BY <1>8, <2>4, <2>5, <2>6 DEF Awake
  <2>8. /\ Cardinality(Awake("pop")) \in Nat /\ Cardinality(Awake("pop")') \in Nat
        /\ Cardinality(Awake("pop")) + 1 <= Cardinality(Awake("pop")')
    BY <1>8, <2>7, Counted DEF Awake
  <2>9. depth <= Cardinality(Awake("pop"))
    BY <2>1 DEF Served, PopServed
  <2> QED BY <1>2, <1>4, <2>8, <2>9
<1>11. PopServed'
  BY <1>10 DEF PopServed
<1> QED BY <1>9, <1>11 DEF Served

\* Every operation keeps both halves.
LEMMA ServedStep ==
  ASSUME ReadersAlike, Base, Base', Served, [Next]_vars
  PROVE  Served'
<1> USE DEF Served
<1>a. depth \in Nat /\ maxSize \in Nat /\ depth' \in Nat /\ maxSize' \in Nat
  BY CapType, QueueAssumption DEF Base, TypeOK
<1>b. \A o : Awake(o) \subseteq Thread
  BY DEF Awake
<1>1. ASSUME NEW t \in Thread, Push(t) PROVE Served'
  <2>1. at' \in AfterPush(at) /\ depth' = depth + 1 /\ op' = op /\ maxSize' = maxSize
    BY <1>1 DEF Push, settings
  <2>2. OnlyWakes /\ (Asleep(at, "cv") # {} => \E u \in Thread : at[u] = "cv" /\ at'[u] = "test")
    BY <2>1, PushWake
  <2>3. PushServed'
    BY <1>a, <2>1, <2>2, WakesKeep, PushKept
  <2>4. PopServed'
    BY <2>1, PopPushed
  <2> QED BY <2>3, <2>4
<1>2. ASSUME NEW t \in Thread, PushList(t) PROVE Served'
  <2>1. at' = WakeAll(at, "cv") /\ op' = op /\ maxSize' = maxSize /\ depth' >= depth
    BY <1>2, <1>a, QueueAssumption DEF PushList, settings
  <2>2. at \in [Thread -> Places]
    BY DEF Base, TypeOK
  <2>3. \A s \in Thread : at'[s] = IF at[s] = "cv" THEN "test" ELSE at[s]
    BY <2>1, <2>2, WakeAllType
  <2>4. OnlyWakes
    BY <2>3 DEF OnlyWakes
  <2>5. PushServed'
    BY <1>a, <2>1, <2>4, WakesKeep, PushKept
  <2>6. Sleeping("pop")' = {}
    BY <2>1, <2>3 DEF Sleeping, Base, Placed
  <2> QED BY <2>5, <2>6 DEF PopServed
<1>3. ASSUME NEW t \in Thread, PushDropOldest(t) PROVE Served'
  <2>1. PICK f \in AfterPush(at) : at' = IF Full THEN WakeAll(f, "notFull") ELSE f
    BY <1>3 DEF PushDropOldest
  <2>2. /\ f \in [Thread -> Places]
        /\ \/ f = at /\ Asleep(at, "cv") = {}
           \/ \E u \in Asleep(at, "cv") : f = [at EXCEPT ![u] = "test"]
    <3>1. at \in [Thread -> Places] /\ f \in WakeOne(at, "cv")
      BY <2>1 DEF Base, TypeOK, AfterPush
    <3> QED BY <3>1, WakeOneType
  <2>3. \A s \in Thread : f[s] = at[s] \/ (at[s] = "cv" /\ f[s] = "test")
    BY <2>2 DEF Asleep
  <2>4. \A s \in Thread : Full => at'[s] = IF f[s] = "notFull" THEN "test" ELSE f[s]
    BY <2>1, <2>2, WakeAllType
  <2>5. OnlyWakes
    BY <2>1, <2>3, <2>4 DEF OnlyWakes
  <2>6. op' = op /\ maxSize' = maxSize /\ depth' = IF Full THEN maxSize ELSE depth + 1
    BY <1>3 DEF PushDropOldest, settings
  <2>7. CASE Full
    <3>1. PopServed'
      BY <1>a, <2>5, <2>6, <2>7, WakesKeep, PopKept DEF Full
    <3>2. Sleeping("pushBlocking")' = {}
      BY <2>3, <2>4, <2>5, <2>6, <2>7 DEF Sleeping, Base, Placed, OnlyWakes, Waiting
    <3> QED BY <3>1, <3>2 DEF PushServed
  <2>8. CASE ~Full
    <3>1. at' \in AfterPush(at) /\ depth' = depth + 1
      BY <2>1, <2>6, <2>8
    <3>2. PushServed'
      BY <1>a, <2>5, <2>6, <3>1, WakesKeep, PushKept
    <3>3. PopServed'
      BY <2>6, <3>1, PopPushed
    <3> QED BY <3>2, <3>3
  <2> QED BY <2>7, <2>8
<1>4. ASSUME NEW t \in Thread, TryPop(t) PROVE Served'
  <2>1. /\ at' \in AfterTake(at) /\ depth' = depth - 1 /\ depth > 0
        /\ op' = op /\ maxSize' = maxSize
    BY <1>4 DEF TryPop, settings
  <2>2. OnlyWakes
    BY <2>1, TakeWakes
  <2>3. PopServed'
    BY <1>a, <2>1, <2>2, WakesKeep, PopKept
  <2>4. PushServed'
    BY <2>1, PushTaken
  <2> QED BY <2>3, <2>4
<1>5. ASSUME NEW t \in Thread, Clear(t) PROVE Served'
  <2>1. at' = WakeAll(at, "notFull") /\ op' = op /\ maxSize' = maxSize /\ depth' = 0
    BY <1>5 DEF Clear, settings
  <2>2. at \in [Thread -> Places]
    BY DEF Base, TypeOK
  <2>3. \A s \in Thread : at'[s] = IF at[s] = "notFull" THEN "test" ELSE at[s]
    BY <2>1, <2>2, WakeAllType
  <2>4. OnlyWakes
    BY <2>3 DEF OnlyWakes
  <2>5. PopServed'
    BY <1>a, <2>1, <2>4, WakesKeep, PopKept
  <2>6. Sleeping("pushBlocking")' = {}
    BY <2>1, <2>3 DEF Sleeping, Base, Placed, Waiting
  <2> QED BY <2>5, <2>6 DEF PushServed
<1>6. ASSUME NEW t \in Thread, SetMaxSize(t) PROVE Served'
  <2>1. at' = WakeAll(at, "notFull") /\ op' = op /\ depth' = depth
    BY <1>6 DEF SetMaxSize
  <2>2. at \in [Thread -> Places]
    BY DEF Base, TypeOK
  <2>3. \A s \in Thread : at'[s] = IF at[s] = "notFull" THEN "test" ELSE at[s]
    BY <2>1, <2>2, WakeAllType
  <2>4. OnlyWakes
    BY <2>3 DEF OnlyWakes
  <2>5. PopServed'
    BY <1>a, <2>1, <2>4, WakesKeep, PopKept
  <2>6. Sleeping("pushBlocking")' = {}
    BY <2>1, <2>3 DEF Sleeping, Base, Placed, Waiting
  <2> QED BY <2>5, <2>6 DEF PushServed
<1>7. ASSUME NEW t \in Thread, CancelWaiters(t) PROVE Served'
  <2>1. cancelled'
    BY <1>7 DEF CancelWaiters
  <2> QED BY <2>1, NoSleeper
<1>8. ASSUME NEW t \in Thread, Reset(t) PROVE Served'
  BY <1>8 DEF Reset, blocked, PopServed, PushServed, Sleeping, Awake
<1>9. ASSUME NEW t \in Thread, Call(t) PROVE Served'
  <2>1. PICK o \in Waiting \cup {"pushBlocking"} :
          /\ at[t] = "out" /\ op' = [op EXCEPT ![t] = o] /\ at' = [at EXCEPT ![t] = "test"]
          /\ UNCHANGED <<depth, settings>>
    BY <1>9 DEF Call, Idle
  <2>2. \A p : Sleeping(p)' \subseteq Sleeping(p) /\ Awake(p) \subseteq Awake(p)'
    BY <2>1 DEF Sleeping, Awake, Base, TypeOK
  <2>3. \A p : Awake(p)' \subseteq Thread
    BY DEF Awake
  <2>4. depth' = depth /\ maxSize' = maxSize
    BY <2>1 DEF settings
  <2> QED BY <1>a, <2>2, <2>3, <2>4, PopKept, PushKept
<1>10. ASSUME NEW t \in Thread, Sleep(t) PROVE Served'
  <2>1. at' = [at EXCEPT ![t] = Condition(t)] /\ at[t] = "test" /\ ~Ready(t)
        /\ UNCHANGED <<depth, maxSize, op>>
    BY <1>10 DEF Sleep, settings
  <2>2. op[t] \in Waiting \cup {"pushBlocking"}
    BY <2>1 DEF Base, TypeOK, Placed
  <2>3. op[t] = "pop" => depth = 0
    BY <1>a, <2>1 DEF Ready
  <2>4. op[t] = "pushBlocking" => maxSize > 0 /\ depth >= maxSize
    BY <1>a, <2>1 DEF Ready, Full, Waiting
  <2>5. \A p : op[t] # p => Sleeping(p)' = Sleeping(p) /\ Awake(p)' = Awake(p)
    BY <2>1 DEF Sleeping, Awake, Base, TypeOK
  <2>6. \A p : Cardinality(Awake(p)') \in Nat
    <3> TAKE p
    <3>1. Awake(p)' \subseteq Thread
      BY DEF Awake
    <3> QED BY <3>1, Counted
  <2>7. PopServed'
    BY <1>a, <2>1, <2>3, <2>5, <2>6 DEF PopServed
  <2>8. PushServed'
    BY <1>a, <2>1, <2>4, <2>5, <2>6 DEF PushServed
  <2> QED BY <2>7, <2>8
<1>11. ASSUME NEW t \in Thread, PopTake(t) PROVE Served'
  BY <1>11, PopTakeServed
<1>12. ASSUME NEW t \in Thread, Peek(t) PROVE Served'
  <2>1. \A p \in {"pop", "pushBlocking"} : Sleeping(p)' = Sleeping(p) /\ Awake(p)' = Awake(p)
    BY <1>12 DEF Peek, Out, Leave, Sleeping, Awake, Base, TypeOK
  <2> QED BY <1>12, <2>1 DEF Peek, Leave, settings, PopServed, PushServed
<1>13. ASSUME NEW t \in Thread, ReaderCancelled(t) PROVE Served'
  <2>1. cancelled'
    BY <1>13 DEF ReaderCancelled, Leave, settings
  <2> QED BY <2>1, NoSleeper
<1>14. ASSUME NEW t \in Thread, Drained(t) PROVE Served'
  <2>1. \A p \in {"pop", "pushBlocking"} : Sleeping(p)' = Sleeping(p) /\ Awake(p)' = Awake(p)
    BY <1>14 DEF Drained, Out, Leave, Sleeping, Awake, Base, TypeOK
  <2> QED BY <1>14, <2>1 DEF Drained, Leave, settings, PopServed, PushServed
<1>15. ASSUME NEW t \in Thread, PushInsert(t) PROVE Served'
  BY <1>15, PushInsertServed
<1>16. ASSUME NEW t \in Thread, PushCancelled(t) PROVE Served'
  <2>1. cancelled'
    BY <1>16 DEF PushCancelled, Leave, settings
  <2> QED BY <2>1, NoSleeper
<1>17. ASSUME NEW t \in Thread, Expire(t) PROVE Served'
  <2>1. \A p \in {"pop", "pushBlocking"} : /\ Sleeping(p)' \subseteq Sleeping(p)
                                           /\ Awake(p) \subseteq Awake(p)' /\ Awake(p)' \subseteq Thread
    BY <1>17 DEF Expire, Out, Leave, Sleeping, Awake, Base, TypeOK
  <2>2. depth' = depth /\ maxSize' = maxSize
    BY <1>17 DEF Expire, Leave, settings
  <2> QED BY <1>a, <2>1, <2>2, PopKept, PushKept
<1>18. ASSUME NEW t \in Thread, ExpireReady(t) PROVE Served'
  <2>1. OnlyWakes /\ op' = op /\ depth' = depth /\ maxSize' = maxSize
    BY <1>18 DEF ExpireReady, OnlyWakes, Base, TypeOK, settings
  <2> QED BY <1>a, <2>1, WakesKeep, PopKept, PushKept
<1>19. CASE UNCHANGED vars
  BY <1>19 DEF vars, settings, blocked, PopServed, PushServed, Sleeping, Awake
<1> QED
  BY <1>1, <1>2, <1>3, <1>4, <1>5, <1>6, <1>7, <1>8, <1>9, <1>10, <1>11, <1>12, <1>13,
     <1>14, <1>15, <1>16, <1>17, <1>18, <1>19
  DEF Next, Proceed, Timeout, Request

-----------------------------------------------------------------------------
\* TypeOK: every reachable state of the queue is well-typed, for any threads and casts.
THEOREM QueueTypeCorrect == Spec => []TypeOK
<1>1. Base => TypeOK
  BY DEF Base
<1> QED BY <1>1, BaseInit, BaseStep, PTL DEF Spec

\* NoStarvedThread for any number of threads, any caps and any depth, where the
\* consumers share _cv with no peek() and no waitForEmpty(): while one sleeps, every
\* item has another consumer already woken for it, and so has every free slot.
THEOREM QueueNoStarvedThread ==
  ASSUME ReadersAlike
  PROVE  Spec => []NoStarvedThread
<1> DEFINE Inv == Base /\ Served
<1>1. Init => Inv
  <2>1. Init => Served
    BY DEF Init, Served, PopServed, PushServed, Sleeping
  <2> QED BY <2>1, BaseInit
<1>2. Inv /\ [Next]_vars => Inv'
  BY BaseStep, ServedStep
<1>3. Inv => NoStarvedThread
  BY DEF Served, PopServed, PushServed, NoStarvedThread
<1> HIDE DEF Inv
<1> QED BY <1>1, <1>2, <1>3, PTL DEF Spec

=============================================================================
