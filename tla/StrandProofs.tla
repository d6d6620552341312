---------------------------- MODULE StrandProofs ----------------------------
(***************************************************************************)
(* Theorems about Strand, for every set of tasks, callers and pool threads. *)
(***************************************************************************)
EXTENDS Strand, TLAPS

LEMMA TypeInit == Init => TypeOK
<1> SUFFICES ASSUME Init PROVE TypeOK
  OBVIOUS
<1>1. running \in BOOLEAN
  BY DEF Init
<1>2. pc \in [Thread -> PC] /\ future \in [Task -> FutureState]
  BY DEF Init, PC, FutureState
<1>3. held \in [Thread -> Seq(Task)]
  BY DEF Init
<1>4. queue \in Seq(Task)
  BY DEF Init
<1> QED
  BY <1>1, <1>2, <1>3, <1>4 DEF Init, TypeOK

LEMMA TypeStep == TypeOK /\ [Next]_vars => TypeOK'
<1> SUFFICES ASSUME TypeOK, [Next]_vars PROVE TypeOK'
  OBVIOUS
<1> USE DEF TypeOK, PC, FutureState, Thread
<1>1. ASSUME NEW t \in Thread, NEW k \in Task, Submit(t, k)
      PROVE  TypeOK'
  BY <1>1 DEF Submit, Enqueue
<1>2. ASSUME NEW t \in Thread, NEW k \in Task, SubmitUrgent(t, k)
      PROVE  TypeOK'
  BY <1>2 DEF SubmitUrgent, Enqueue
<1>3. ASSUME NEW t \in Thread, CancelPending(t)
      PROVE  TypeOK'
  BY <1>3 DEF CancelPending
<1>4. ASSUME NEW t \in Thread, WaitForIdle(t)
      PROVE  TypeOK'
  BY <1>4 DEF WaitForIdle
<1>5. ASSUME NEW t \in Thread, Spawn(t)
      PROVE  TypeOK'
  <2>1. CASE inline
    BY <1>5, <2>1 DEF Spawn
  <2>2. CASE ~inline
    <3>1. pooled' \in Nat
      BY <1>5, <2>2 DEF Spawn
    <3>2. pc' \in [Thread -> PC]
      BY <1>5, <2>2 DEF Spawn
    <3> QED
      BY <1>5, <3>1, <3>2 DEF Spawn
  <2> QED
    BY <2>1, <2>2
<1>6. ASSUME NEW t \in Thread, Pop(t)
      PROVE  TypeOK'
  <2>1. CASE queue = <<>>
    BY <1>6, <2>1 DEF Pop
  <2>2. CASE queue # <<>>
    <3>1. Head(queue) \in Task /\ Tail(queue) \in Seq(Task)
      BY <2>2
    <3>2. held' \in [Thread -> Seq(Task)]
      <4>1. <<Head(queue)>> \in Seq(Task)
        BY <3>1
      <4>2. held' = [held EXCEPT ![t] = <<Head(queue)>>]
        BY <1>6, <2>2 DEF Pop
      <4> QED
        BY <4>1, <4>2
    <3> QED
      BY <1>6, <2>2, <3>1, <3>2 DEF Pop
  <2> QED
    BY <2>1, <2>2
<1>7. ASSUME NEW t \in Thread, RunBody(t)
      PROVE  TypeOK'
  <2>1. future' \in [Task -> FutureState]
    BY <1>7 DEF RunBody
  <2>2. held' \in [Thread -> Seq(Task)]
    BY <1>7 DEF RunBody
  <2> QED
    BY <1>7, <2>1, <2>2 DEF RunBody
<1>8. ASSUME NEW t \in Thread, FinishTask(t)
      PROVE  TypeOK'
  BY <1>8 DEF FinishTask, WakeIdle
<1>9. ASSUME NEW t \in Thread, CancelOne(t)
      PROVE  TypeOK'
  BY <1>9 DEF CancelOne
<1>10. ASSUME NEW t \in Thread, CancelReturn(t)
      PROVE  TypeOK'
  BY <1>10 DEF CancelReturn
<1>11. ASSUME NEW t \in Thread, TestIdle(t)
      PROVE  TypeOK'
  BY <1>11 DEF TestIdle
<1>12. ASSUME NEW t \in Worker, Dispatch(t)
      PROVE  TypeOK'
  BY <1>12 DEF Dispatch
<1>13. CASE UNCHANGED vars
  BY <1>13 DEF vars
<1> QED
  BY <1>1, <1>2, <1>3, <1>4, <1>5, <1>6,
     <1>7, <1>8, <1>9, <1>10, <1>11, <1>12, <1>13
  DEF Next, Continue, Request

\* The types are those the module declares, whatever the threads do.
THEOREM StrandTypeCorrect == Spec => []TypeOK
BY TypeInit, TypeStep, PTL DEF Spec

\* SingleLicence is inductive given the types; MutualExclusion follows from it.
LEMMA LicenceInit == Init => SingleLicence
<1> SUFFICES ASSUME Init PROVE SingleLicence
  OBVIOUS
<1>1. Runner = {}
  BY DEF Init, Runner, RunnerPC
<1> QED
  BY <1>1 DEF Init, SingleLicence

LEMMA LicenceStep == TypeOK /\ SingleLicence /\ [Next]_vars => SingleLicence'
<1> SUFFICES ASSUME TypeOK, SingleLicence, [Next]_vars PROVE SingleLicence'
  OBVIOUS
<1> USE DEF TypeOK, SingleLicence, Runner, RunnerPC, Thread
<1>1. ASSUME NEW t \in Thread, NEW k \in Task, Submit(t, k)
      PROVE  SingleLicence'
  BY <1>1 DEF Submit, Enqueue, PC
<1>2. ASSUME NEW t \in Thread, NEW k \in Task, SubmitUrgent(t, k)
      PROVE  SingleLicence'
  BY <1>2 DEF SubmitUrgent, Enqueue, PC
<1>3. ASSUME NEW t \in Thread, CancelPending(t)
      PROVE  SingleLicence'
  BY <1>3 DEF CancelPending, PC
<1>4. ASSUME NEW t \in Thread, WaitForIdle(t)
      PROVE  SingleLicence'
  BY <1>4 DEF WaitForIdle, PC
<1>5. ASSUME NEW t \in Thread, Spawn(t)
      PROVE  SingleLicence'
  <2>1. Runner = {t} /\ pooled = 0 /\ running
    BY <1>5 DEF Spawn
  <2>2. CASE inline
    <3>1. Runner' = {t}
      BY <1>5, <2>1, <2>2 DEF Spawn
    <3> QED
      BY <1>5, <2>1, <2>2, <3>1 DEF Spawn
  <2>3. CASE ~inline
    <3>1. Runner' = {}
      BY <1>5, <2>1, <2>3 DEF Spawn
    <3> QED
      BY <1>5, <2>1, <2>3, <3>1 DEF Spawn
  <2> QED
    BY <2>2, <2>3
<1>6. ASSUME NEW t \in Thread, Pop(t)
      PROVE  SingleLicence'
  BY <1>6 DEF Pop, PC
<1>7. ASSUME NEW t \in Thread, RunBody(t)
      PROVE  SingleLicence'
  BY <1>7 DEF RunBody, PC
<1>8. ASSUME NEW t \in Thread, FinishTask(t)
      PROVE  SingleLicence'
  <2>1. Runner = {t} /\ pooled = 0 /\ running
    BY <1>8 DEF FinishTask
  <2>2. CASE queue = <<>>
    <3>1. Runner' = {}
      BY <1>8, <2>1, <2>2 DEF FinishTask, WakeIdle
    <3> QED
      BY <1>8, <2>1, <2>2, <3>1 DEF FinishTask
  <2>3. CASE queue # <<>>
    <3>1. Runner' = {t}
      BY <1>8, <2>1, <2>3 DEF FinishTask
    <3> QED
      BY <1>8, <2>1, <2>3, <3>1 DEF FinishTask
  <2> QED
    BY <2>2, <2>3
<1>9. ASSUME NEW t \in Thread, CancelOne(t)
      PROVE  SingleLicence'
  BY <1>9 DEF CancelOne, PC
<1>10. ASSUME NEW t \in Thread, CancelReturn(t)
      PROVE  SingleLicence'
  BY <1>10 DEF CancelReturn, PC
<1>11. ASSUME NEW t \in Thread, TestIdle(t)
      PROVE  SingleLicence'
  BY <1>11 DEF TestIdle, PC
<1>12. ASSUME NEW t \in Worker, Dispatch(t)
      PROVE  SingleLicence'
  BY <1>12 DEF Dispatch, PC
<1>13. CASE UNCHANGED vars
  BY <1>13 DEF vars, PC
<1> QED
  BY <1>1, <1>2, <1>3, <1>4, <1>5, <1>6,
     <1>7, <1>8, <1>9, <1>10, <1>11, <1>12, <1>13
  DEF Next, Continue, Request

\* _running stands for exactly one runNext() that is owed, pooled or executing.
THEOREM StrandSingleLicence == Spec => []SingleLicence
BY StrandTypeCorrect, LicenceInit, LicenceStep, PTL DEF Spec

\* Task bodies never overlap (the contract of strand.h:44).
THEOREM StrandMutualExclusion == Spec => []MutualExclusion
<1>1. SingleLicence => MutualExclusion
  BY DEF SingleLicence, MutualExclusion, Runner, RunnerPC
<1> QED
  BY StrandSingleLicence, <1>1, PTL

-----------------------------------------------------------------------------
(* No task is lost: every pending one is in exactly one place.              *)

NoDuplicates(s) == \A i, j \in DOMAIN s : s[i] = s[j] => i = j

\* What makes NoLostTask inductive: an entry is in one sequence, once, and only
\* a thread that runs it or cancels it holds any.
OnePlace ==
    /\ NoDuplicates(queue)
    /\ \A t \in Thread :
          /\ NoDuplicates(held[t])
          /\ Elements(held[t]) \cap Elements(queue) = {}
          /\ pc[t] \notin {"run", "cancel"} => Elements(held[t]) = {}
          /\ pc[t] = "run" => \E k \in Task : held[t] = <<k>>
    /\ \A s, t \in Thread : s # t => Elements(held[s]) \cap Elements(held[t]) = {}
    /\ \A k \in Task :
          future[k] = "pending" <=>
              k \in Elements(queue) \/ \E t \in Thread : k \in Elements(held[t])

LEMMA ElementsEmpty == Elements(<<>>) = {} /\ NoDuplicates(<<>>)
BY DEF Elements, NoDuplicates

LEMMA ElementsOne ==
  ASSUME NEW e PROVE Elements(<<e>>) = {e} /\ NoDuplicates(<<e>>)
BY DEF Elements, NoDuplicates

LEMMA ElementsAppend ==
  ASSUME NEW S, NEW s \in Seq(S), NEW e \in S
  PROVE  /\ Elements(Append(s, e)) = Elements(s) \cup {e}
         /\ NoDuplicates(s) /\ e \notin Elements(s) => NoDuplicates(Append(s, e))
<1> DEFINE a == Append(s, e)
<1>1. /\ a \in Seq(S) /\ Len(a) = Len(s) + 1 /\ DOMAIN a = 1..(Len(s) + 1)
      /\ DOMAIN s = 1..Len(s) /\ Len(s) \in Nat
      /\ \A i \in 1..Len(s) : a[i] = s[i]
      /\ a[Len(s) + 1] = e
  OBVIOUS
<1> HIDE DEF a
<1>2. Elements(a) = Elements(s) \cup {e}
  <2>1. ASSUME NEW x \in Elements(a) PROVE x \in Elements(s) \cup {e}
    <3>1. PICK i \in 1..(Len(s) + 1) : x = a[i]
      BY <1>1, <2>1 DEF Elements
    <3>2. CASE i \in 1..Len(s)
      BY <1>1, <3>1, <3>2 DEF Elements
    <3>3. CASE i = Len(s) + 1
      BY <1>1, <3>1, <3>3
    <3> QED
      BY <1>1, <3>2, <3>3
  <2>2. ASSUME NEW x \in Elements(s) PROVE x \in Elements(a)
    <3>1. PICK i \in 1..Len(s) : x = s[i]
      BY <1>1, <2>2 DEF Elements
    <3>2. i \in 1..(Len(s) + 1) /\ a[i] = x
      BY <1>1, <3>1
    <3> QED
      BY <1>1, <3>2 DEF Elements
  <2>3. e \in Elements(a)
    <3>1. Len(s) + 1 \in DOMAIN a
      BY <1>1
    <3> QED
      BY <1>1, <3>1 DEF Elements
  <2> QED
    BY <2>1, <2>2, <2>3
<1>3. ASSUME NoDuplicates(s), e \notin Elements(s) PROVE NoDuplicates(a)
  <2> SUFFICES ASSUME NEW i \in 1..(Len(s) + 1), NEW j \in 1..(Len(s) + 1), a[i] = a[j]
               PROVE  i = j
    BY <1>1 DEF NoDuplicates
  <2>1. \A k \in 1..Len(s) : a[k] # e
    BY <1>1, <1>3 DEF Elements
  <2>2. CASE i \in 1..Len(s) /\ j \in 1..Len(s)
    BY <1>1, <1>3, <2>2 DEF NoDuplicates
  <2>3. CASE i = Len(s) + 1 \/ j = Len(s) + 1
    BY <1>1, <2>1, <2>3
  <2> QED
    BY <1>1, <2>2, <2>3
<1> QED
  BY <1>2, <1>3 DEF a

LEMMA ElementsPrepend ==
  ASSUME NEW S, NEW s \in Seq(S), NEW e \in S
  PROVE  /\ Elements(<<e>> \o s) = Elements(s) \cup {e}
         /\ NoDuplicates(s) /\ e \notin Elements(s) => NoDuplicates(<<e>> \o s)
<1> DEFINE a == <<e>> \o s
<1>1. /\ DOMAIN a = 1..(Len(s) + 1)
      /\ DOMAIN s = 1..Len(s) /\ Len(s) \in Nat
      /\ a[1] = e
      /\ \A i \in 1..Len(s) : a[i + 1] = s[i]
      /\ \A i \in 2..(Len(s) + 1) : i - 1 \in 1..Len(s) /\ a[i] = s[i - 1]
  OBVIOUS
<1> HIDE DEF a
<1>2. Elements(a) = Elements(s) \cup {e}
  <2>1. ASSUME NEW x \in Elements(a) PROVE x \in Elements(s) \cup {e}
    <3>1. PICK i \in 1..(Len(s) + 1) : x = a[i]
      BY <1>1, <2>1 DEF Elements
    <3>2. CASE i \in 2..(Len(s) + 1)
      BY <1>1, <3>1, <3>2 DEF Elements
    <3>3. CASE i = 1
      BY <1>1, <3>1, <3>3
    <3> QED
      BY <1>1, <3>2, <3>3
  <2>2. ASSUME NEW x \in Elements(s) PROVE x \in Elements(a)
    <3>1. PICK i \in 1..Len(s) : x = s[i]
      BY <1>1, <2>2 DEF Elements
    <3>2. i + 1 \in 1..(Len(s) + 1) /\ a[i + 1] = x
      BY <1>1, <3>1
    <3> QED
      BY <1>1, <3>2 DEF Elements
  <2>3. e \in Elements(a)
    <3>1. 1 \in DOMAIN a
      BY <1>1
    <3> QED
      BY <1>1, <3>1 DEF Elements
  <2> QED
    BY <2>1, <2>2, <2>3
<1>3. ASSUME NoDuplicates(s), e \notin Elements(s) PROVE NoDuplicates(a)
  <2> SUFFICES ASSUME NEW i \in 1..(Len(s) + 1), NEW j \in 1..(Len(s) + 1), a[i] = a[j]
               PROVE  i = j
    BY <1>1 DEF NoDuplicates
  <2>1. ASSUME NEW k \in 2..(Len(s) + 1) PROVE a[k] # e
    <3>1. k - 1 \in DOMAIN s /\ a[k] = s[k - 1]
      BY <1>1
    <3>2. a[k] \in Elements(s)
      BY <3>1 DEF Elements
    <3> QED
      BY <1>3, <3>2
  <2>2. CASE i \in 2..(Len(s) + 1) /\ j \in 2..(Len(s) + 1)
    <3>1. i - 1 = j - 1
      BY <1>1, <1>3, <2>2 DEF NoDuplicates
    <3> QED
      BY <3>1
  <2>3. CASE i = 1 \/ j = 1
    BY <1>1, <2>1, <2>3
  <2> QED
    BY <1>1, <2>2, <2>3
<1> QED
  BY <1>2, <1>3 DEF a

LEMMA ElementsHeadTail ==
  ASSUME NEW S, NEW s \in Seq(S), s # <<>>
  PROVE  /\ Head(s) \in S /\ Tail(s) \in Seq(S)
         /\ Elements(s) = Elements(Tail(s)) \cup {Head(s)}
         /\ NoDuplicates(s) => Head(s) \notin Elements(Tail(s)) /\ NoDuplicates(Tail(s))
<1> DEFINE r == Tail(s)
<1>1. /\ Head(s) \in S /\ r \in Seq(S)
      /\ Len(s) \in Nat \ {0} /\ DOMAIN s = 1..Len(s)
      /\ DOMAIN r = 1..(Len(s) - 1)
      /\ Head(s) = s[1]
      /\ \A i \in 1..(Len(s) - 1) : r[i] = s[i + 1]
  OBVIOUS
<1> HIDE DEF r
<1>2. Elements(s) = Elements(r) \cup {Head(s)}
  <2>1. ASSUME NEW x \in Elements(s) PROVE x \in Elements(r) \cup {Head(s)}
    <3>1. PICK i \in 1..Len(s) : x = s[i]
      BY <1>1, <2>1 DEF Elements
    <3>2. CASE i = 1
      BY <1>1, <3>1, <3>2
    <3>3. CASE i # 1
      <4>1. i - 1 \in 1..(Len(s) - 1) /\ r[i - 1] = x
        BY <1>1, <3>1, <3>3
      <4> QED
        BY <1>1, <4>1 DEF Elements
    <3> QED
      BY <3>2, <3>3
  <2>2. ASSUME NEW x \in Elements(r) PROVE x \in Elements(s)
    <3>1. PICK i \in 1..(Len(s) - 1) : x = r[i]
      BY <1>1, <2>2 DEF Elements
    <3>2. i + 1 \in 1..Len(s) /\ s[i + 1] = x
      BY <1>1, <3>1
    <3> QED
      BY <1>1, <3>2 DEF Elements
  <2>3. Head(s) \in Elements(s)
    <3>1. 1 \in DOMAIN s
      BY <1>1
    <3> QED
      BY <1>1, <3>1 DEF Elements
  <2> QED
    BY <2>1, <2>2, <2>3
<1>3. ASSUME NoDuplicates(s) PROVE Head(s) \notin Elements(r) /\ NoDuplicates(r)
  <2>1. ASSUME NEW i \in 1..(Len(s) - 1) PROVE r[i] # Head(s)
    <3>1. i + 1 \in DOMAIN s /\ 1 \in DOMAIN s /\ i + 1 # 1
      BY <1>1
    <3> QED
      BY <1>1, <1>3, <3>1 DEF NoDuplicates
  <2>2. ASSUME NEW i \in 1..(Len(s) - 1), NEW j \in 1..(Len(s) - 1), r[i] = r[j]
        PROVE  i = j
    <3>1. i + 1 \in DOMAIN s /\ j + 1 \in DOMAIN s /\ s[i + 1] = s[j + 1]
      BY <1>1, <2>2
    <3>2. i + 1 = j + 1
      BY <1>3, <3>1 DEF NoDuplicates
    <3> QED
      BY <3>2
  <2>3. Head(s) \notin Elements(r)
    BY <1>1, <2>1 DEF Elements
  <2>4. NoDuplicates(r)
    BY <1>1, <2>2 DEF NoDuplicates
  <2> QED
    BY <2>3, <2>4
<1> QED
  BY <1>1, <1>2, <1>3 DEF r

LEMMA OnePlaceInit == Init => OnePlace
<1> SUFFICES ASSUME Init PROVE OnePlace
  OBVIOUS
<1>1. queue = <<>> /\ \A t \in Thread : held[t] = <<>> /\ pc[t] = "idle"
  BY DEF Init
<1>2. \A k \in Task : future[k] = "none"
  BY DEF Init
<1> QED
  BY <1>1, <1>2, ElementsEmpty DEF OnePlace

\* Whichever end a new task enters at, it was nowhere before.
LEMMA OnePlaceEnqueue ==
  ASSUME TypeOK, SingleLicence, OnePlace,
         NEW t \in Thread, NEW k \in Task, Enqueue(t, k),
         Elements(queue') = Elements(queue) \cup {k},
         NoDuplicates(queue) /\ k \notin Elements(queue) => NoDuplicates(queue')
  PROVE  OnePlace'
<1>1. /\ k \notin Elements(queue)
      /\ \A s \in Thread : k \notin Elements(held[s])
  BY DEF OnePlace, Enqueue
<1>2. held' = held /\ NoDuplicates(queue')
  BY <1>1 DEF Enqueue, OnePlace
<1>3. \A s \in Thread : pc'[s] = pc[s] \/ (pc[s] = "idle" /\ pc'[s] = "spawn")
  <2>1. pc[t] = "run" => running
    BY DEF SingleLicence, Runner, RunnerPC
  <2> QED
    BY <2>1 DEF Enqueue, TypeOK
<1>4. ASSUME NEW s \in Thread
      PROVE  /\ NoDuplicates(held'[s])
             /\ Elements(held'[s]) \cap Elements(queue') = {}
             /\ pc'[s] \notin {"run", "cancel"} => Elements(held'[s]) = {}
             /\ pc'[s] = "run" => \E j \in Task : held'[s] = <<j>>
  BY <1>1, <1>2, <1>3 DEF OnePlace
<1>5. \A r, s \in Thread : r # s => Elements(held'[r]) \cap Elements(held'[s]) = {}
  BY <1>2 DEF OnePlace
<1>6. ASSUME NEW j \in Task
      PROVE  future'[j] = "pending" <=>
               j \in Elements(queue') \/ \E s \in Thread : j \in Elements(held'[s])
  <2>1. future' = [future EXCEPT ![k] = "pending"]
    BY DEF Enqueue
  <2>2. CASE j = k
    BY <2>1, <2>2 DEF TypeOK
  <2>3. CASE j # k
    BY <1>2, <2>1, <2>3 DEF TypeOK, OnePlace
  <2> QED
    BY <2>2, <2>3
<1> QED
  BY <1>2, <1>4, <1>5, <1>6 DEF OnePlace

\* A step that moves no entry keeps OnePlace, if it lets go of none.
LEMMA OnePlaceStay ==
  ASSUME OnePlace, UNCHANGED <<queue, held, future>>,
         \A s \in Thread : pc'[s] = pc[s] \/ Elements(held[s]) = {},
         \A s \in Thread : pc'[s] = "run" => pc[s] = "run"
  PROVE  OnePlace'
<1>1. ASSUME NEW s \in Thread
      PROVE  /\ NoDuplicates(held'[s])
             /\ Elements(held'[s]) \cap Elements(queue') = {}
             /\ pc'[s] \notin {"run", "cancel"} => Elements(held'[s]) = {}
             /\ pc'[s] = "run" => \E j \in Task : held'[s] = <<j>>
  BY DEF OnePlace
<1>2. \A r, s \in Thread : r # s => Elements(held'[r]) \cap Elements(held'[s]) = {}
  BY DEF OnePlace
<1>3. \A j \in Task :
        future'[j] = "pending" <=>
          j \in Elements(queue') \/ \E s \in Thread : j \in Elements(held'[s])
  BY DEF OnePlace
<1>4. NoDuplicates(queue')
  BY DEF OnePlace
<1> QED
  BY <1>1, <1>2, <1>3, <1>4 DEF OnePlace

LEMMA OnePlaceCancelPending ==
  ASSUME TypeOK, OnePlace, NEW t \in Thread, CancelPending(t)
  PROVE  OnePlace'
<1>1. /\ queue' = <<>> /\ held'[t] = queue /\ pc'[t] = "cancel" /\ future' = future
      /\ Elements(held[t]) = {}
      /\ \A s \in Thread : s # t => held'[s] = held[s] /\ pc'[s] = pc[s]
  BY DEF CancelPending, TypeOK, OnePlace
<1>2. Elements(queue') = {} /\ NoDuplicates(queue')
  BY <1>1, ElementsEmpty
<1>3. ASSUME NEW s \in Thread
      PROVE  /\ NoDuplicates(held'[s])
             /\ Elements(held'[s]) \cap Elements(queue') = {}
             /\ pc'[s] \notin {"run", "cancel"} => Elements(held'[s]) = {}
             /\ pc'[s] = "run" => \E j \in Task : held'[s] = <<j>>
  <2>1. CASE s = t
    BY <1>1, <1>2, <2>1 DEF OnePlace
  <2>2. CASE s # t
    BY <1>1, <1>2, <2>2 DEF OnePlace
  <2> QED
    BY <2>1, <2>2
<1>4. \A r, s \in Thread : r # s => Elements(held'[r]) \cap Elements(held'[s]) = {}
  BY <1>1 DEF OnePlace
<1>5. ASSUME NEW j \in Task
      PROVE  future'[j] = "pending" <=>
               j \in Elements(queue') \/ \E s \in Thread : j \in Elements(held'[s])
  BY <1>1, <1>2 DEF OnePlace
<1> QED
  BY <1>2, <1>3, <1>4, <1>5 DEF OnePlace

\* A thread resolves the first entry it holds, and holds the rest.
LEMMA OnePlaceResolve ==
  ASSUME TypeOK, OnePlace, NEW t \in Thread, NEW v \in {"value", "cancelled"},
         held[t] # <<>>,
         queue' = queue,
         held' = [held EXCEPT ![t] = Tail(held[t])],
         future' = [future EXCEPT ![Head(held[t])] = v],
         \A s \in Thread : s # t => pc'[s] = pc[s],
         pc'[t] = "cancel" \/ (pc'[t] = "finish" /\ Tail(held[t]) = <<>>)
  PROVE  OnePlace'
<1> DEFINE h == Head(held[t])
<1> DEFINE r == Tail(held[t])
<1>1. /\ h \in Task /\ r \in Seq(Task)
      /\ Elements(held[t]) = Elements(r) \cup {h}
      /\ h \notin Elements(r) /\ NoDuplicates(r)
  <2>1. held[t] \in Seq(Task)
    BY DEF TypeOK
  <2>2. NoDuplicates(held[t])
    BY DEF OnePlace
  <2> QED
    BY <2>1, <2>2, ElementsHeadTail
<1>2. held'[t] = r /\ \A s \in Thread : s # t => held'[s] = held[s]
  BY DEF TypeOK
<1>3. future'[h] = v /\ \A j \in Task : j # h => future'[j] = future[j]
  BY <1>1 DEF TypeOK
<1>4. r = <<>> => Elements(r) = {}
  BY ElementsEmpty
<1>5. pc'[t] = "cancel" \/ (pc'[t] = "finish" /\ r = <<>>)
  OBVIOUS
<1> HIDE DEF h, r
<1>6. ASSUME NEW s \in Thread
      PROVE  /\ NoDuplicates(held'[s])
             /\ Elements(held'[s]) \cap Elements(queue') = {}
             /\ pc'[s] \notin {"run", "cancel"} => Elements(held'[s]) = {}
             /\ pc'[s] = "run" => \E j \in Task : held'[s] = <<j>>
  <2>1. CASE s = t
    BY <1>1, <1>2, <1>4, <1>5, <2>1 DEF OnePlace
  <2>2. CASE s # t
    BY <1>2, <2>2 DEF OnePlace
  <2> QED
    BY <2>1, <2>2
<1>7. ASSUME NEW q \in Thread, NEW s \in Thread, q # s
      PROVE  Elements(held'[q]) \cap Elements(held'[s]) = {}
  <2>1. \A u \in Thread : Elements(held'[u]) \subseteq Elements(held[u])
    BY <1>1, <1>2
  <2>2. Elements(held[q]) \cap Elements(held[s]) = {}
    BY <1>7 DEF OnePlace
  <2> QED
    BY <2>1, <2>2
<1>8. ASSUME NEW j \in Task
      PROVE  future'[j] = "pending" <=>
               j \in Elements(queue') \/ \E s \in Thread : j \in Elements(held'[s])
  <2>1. CASE j = h
    <3>1. j \notin Elements(queue') /\ \A s \in Thread : j \notin Elements(held'[s])
      BY <1>1, <1>2, <2>1 DEF OnePlace
    <3> QED
      BY <1>3, <2>1, <3>1
  <2>2. CASE j # h
    <3>1. \A s \in Thread : j \in Elements(held'[s]) <=> j \in Elements(held[s])
      BY <1>1, <1>2, <2>2
    <3> QED
      BY <1>3, <2>2, <3>1 DEF OnePlace
  <2> QED
    BY <2>1, <2>2
<1>9. NoDuplicates(queue')
  BY DEF OnePlace
<1> QED
  BY <1>6, <1>7, <1>8, <1>9 DEF OnePlace

LEMMA OnePlacePop ==
  ASSUME TypeOK, OnePlace, NEW t \in Thread, Pop(t), queue # <<>>
  PROVE  OnePlace'
<1> DEFINE h == Head(queue)
<1>1. /\ h \in Task
      /\ Elements(queue) = Elements(Tail(queue)) \cup {h}
      /\ h \notin Elements(Tail(queue)) /\ NoDuplicates(Tail(queue))
  BY ElementsHeadTail DEF TypeOK, OnePlace
<1>2. /\ queue' = Tail(queue) /\ held'[t] = <<h>> /\ pc'[t] = "run" /\ future' = future
      /\ \A s \in Thread : s # t => held'[s] = held[s] /\ pc'[s] = pc[s]
  BY DEF Pop, TypeOK
<1>3. Elements(held[t]) = {}
  BY DEF Pop, OnePlace
<1>4. Elements(held'[t]) = {h} /\ NoDuplicates(held'[t])
  BY <1>2, ElementsOne
<1> HIDE DEF h
<1>5. ASSUME NEW s \in Thread
      PROVE  /\ NoDuplicates(held'[s])
             /\ Elements(held'[s]) \cap Elements(queue') = {}
             /\ pc'[s] \notin {"run", "cancel"} => Elements(held'[s]) = {}
             /\ pc'[s] = "run" => \E j \in Task : held'[s] = <<j>>
  <2>1. CASE s = t
    BY <1>1, <1>2, <1>4, <2>1
  <2>2. CASE s # t
    BY <1>1, <1>2, <2>2 DEF OnePlace
  <2> QED
    BY <2>1, <2>2
<1>6. ASSUME NEW q \in Thread, NEW s \in Thread, q # s
      PROVE  Elements(held'[q]) \cap Elements(held'[s]) = {}
  BY <1>1, <1>2, <1>4, <1>6 DEF OnePlace
<1>7. ASSUME NEW j \in Task
      PROVE  future'[j] = "pending" <=>
               j \in Elements(queue') \/ \E s \in Thread : j \in Elements(held'[s])
  <2>1. (\E s \in Thread : j \in Elements(held'[s]))
          <=> j = h \/ \E s \in Thread : j \in Elements(held[s])
    BY <1>2, <1>3, <1>4
  <2> QED
    BY <1>1, <1>2, <2>1 DEF OnePlace
<1> QED
  BY <1>1, <1>2, <1>5, <1>6, <1>7 DEF OnePlace

LEMMA OnePlaceStep ==
  TypeOK /\ SingleLicence /\ OnePlace /\ [Next]_vars => OnePlace'
<1> SUFFICES ASSUME TypeOK, SingleLicence, OnePlace, [Next]_vars PROVE OnePlace'
  OBVIOUS
<1>1. ASSUME NEW t \in Thread, NEW k \in Task, Submit(t, k)
      PROVE  OnePlace'
  <2>1. queue' = Append(queue, k) /\ Enqueue(t, k) /\ queue \in Seq(Task)
    BY <1>1 DEF Submit, TypeOK
  <2> QED
    BY <2>1, ElementsAppend, OnePlaceEnqueue
<1>2. ASSUME NEW t \in Thread, NEW k \in Task, SubmitUrgent(t, k)
      PROVE  OnePlace'
  <2>1. queue' = <<k>> \o queue /\ Enqueue(t, k) /\ queue \in Seq(Task)
    BY <1>2 DEF SubmitUrgent, TypeOK
  <2> QED
    BY <2>1, ElementsPrepend, OnePlaceEnqueue
<1>3. ASSUME NEW t \in Thread, CancelPending(t)
      PROVE  OnePlace'
  BY <1>3, OnePlaceCancelPending
<1>4. ASSUME NEW t \in Thread, WaitForIdle(t)
      PROVE  OnePlace'
  <2>1. Elements(held[t]) = {}
    BY <1>4 DEF WaitForIdle, OnePlace
  <2> QED
    BY <1>4, <2>1, OnePlaceStay DEF WaitForIdle, TypeOK
<1>5. ASSUME NEW t \in Thread, Spawn(t)
      PROVE  OnePlace'
  <2>1. Elements(held[t]) = {}
    BY <1>5 DEF Spawn, OnePlace
  <2> QED
    BY <1>5, <2>1, OnePlaceStay DEF Spawn, TypeOK
<1>6. ASSUME NEW t \in Thread, Pop(t)
      PROVE  OnePlace'
  <2>1. CASE queue = <<>>
    <3>1. Elements(held[t]) = {}
      BY <1>6 DEF Pop, OnePlace
    <3> QED
      BY <1>6, <2>1, <3>1, OnePlaceStay DEF Pop, TypeOK
  <2>2. CASE queue # <<>>
    BY <1>6, <2>2, OnePlacePop
  <2> QED
    BY <2>1, <2>2
<1>7. ASSUME NEW t \in Thread, RunBody(t)
      PROVE  OnePlace'
  <2>1. PICK k \in Task : held[t] = <<k>>
    BY <1>7 DEF RunBody, OnePlace
  <2>2. held[t] # <<>> /\ Tail(held[t]) = <<>>
    BY <2>1
  <2>3. /\ queue' = queue /\ held' = [held EXCEPT ![t] = Tail(held[t])]
        /\ future' = [future EXCEPT ![Head(held[t])] = "value"]
        /\ pc'[t] = "finish" /\ \A s \in Thread : s # t => pc'[s] = pc[s]
    BY <1>7, <2>2 DEF RunBody, TypeOK
  <2> QED
    BY <2>2, <2>3, OnePlaceResolve
<1>8. ASSUME NEW t \in Thread, FinishTask(t)
      PROVE  OnePlace'
  <2>1. Elements(held[t]) = {}
    BY <1>8 DEF FinishTask, OnePlace
  <2>2. \A s \in Thread : pc[s] = "wait" => Elements(held[s]) = {}
    BY DEF OnePlace
  <2>3. UNCHANGED <<queue, held, future>>
    BY <1>8 DEF FinishTask
  <2>4. \A s \in Thread : s = t \/ pc[s] = "wait" \/ pc'[s] = pc[s]
    BY <1>8 DEF FinishTask, WakeIdle, TypeOK
  <2>5. \A s \in Thread : pc'[s] = "run" => pc[s] = "run"
    BY <1>8 DEF FinishTask, WakeIdle, TypeOK
  <2> QED
    BY <2>1, <2>2, <2>3, <2>4, <2>5, OnePlaceStay
<1>9. ASSUME NEW t \in Thread, CancelOne(t)
      PROVE  OnePlace'
  <2>1. /\ queue' = queue /\ held[t] # <<>>
        /\ held' = [held EXCEPT ![t] = Tail(held[t])]
        /\ future' = [future EXCEPT ![Head(held[t])] = "cancelled"]
        /\ pc' = pc /\ pc[t] = "cancel"
    BY <1>9 DEF CancelOne
  <2> QED
    BY <2>1, OnePlaceResolve
<1>10. ASSUME NEW t \in Thread, CancelReturn(t)
      PROVE  OnePlace'
  <2>1. Elements(held[t]) = {}
    BY <1>10, ElementsEmpty DEF CancelReturn
  <2> QED
    BY <1>10, <2>1, OnePlaceStay DEF CancelReturn, TypeOK
<1>11. ASSUME NEW t \in Thread, TestIdle(t)
      PROVE  OnePlace'
  <2>1. Elements(held[t]) = {}
    BY <1>11 DEF TestIdle, OnePlace
  <2> QED
    BY <1>11, <2>1, OnePlaceStay DEF TestIdle, TypeOK
<1>12. ASSUME NEW t \in Worker, Dispatch(t)
      PROVE  OnePlace'
  <2>1. t \in Thread
    BY DEF Thread
  <2>2. Elements(held[t]) = {}
    BY <1>12, <2>1 DEF Dispatch, OnePlace
  <2> QED
    BY <1>12, <2>1, <2>2, OnePlaceStay DEF Dispatch, TypeOK
<1>13. CASE UNCHANGED vars
  BY <1>13, OnePlaceStay DEF vars
<1> QED
  BY <1>1, <1>2, <1>3, <1>4, <1>5, <1>6,
     <1>7, <1>8, <1>9, <1>10, <1>11, <1>12, <1>13
  DEF Next, Continue, Request

LEMMA StrandOnePlace == Spec => []OnePlace
BY StrandTypeCorrect, StrandSingleLicence, OnePlaceInit, OnePlaceStep, PTL DEF Spec

\* Whatever cancelPending() moves out of the queue while runNext() takes from
\* it, an entry with an unresolved Future is in exactly one place, and an entry
\* with a resolved one is nowhere.
THEOREM StrandNoLostTask == Spec => []NoLostTask
<1>1. OnePlace => NoLostTask
  <2> SUFFICES ASSUME OnePlace, NEW k \in Task
               PROVE  (future[k] = "pending") <=>
                        \/ k \in Elements(queue)
                        \/ \E t \in Thread : pc[t] \in {"run", "cancel"} /\ k \in Elements(held[t])
    BY DEF NoLostTask
  <2>1. \A t \in Thread : k \in Elements(held[t]) => pc[t] \in {"run", "cancel"}
    BY DEF OnePlace
  <2> QED
    BY <2>1 DEF OnePlace
<1> QED
  BY <1>1, StrandOnePlace, PTL

\* waitForIdle() returns, and with it the destructor goes on, only when no
\* runNext() is owed or under way and every unresolved Future belongs to an
\* entry a concurrent cancelPending() has in hand: testing _running alone is
\* enough, because a queued entry always has a runNext() coming.
THEOREM StrandIdleMeansQuiescent == Spec => IdleMeansQuiescent
<1> DEFINE Quiescent ==
      \A t \in Thread :
          TestIdle(t) /\ pc'[t] = "idle" =>
              /\ Runner = {}
              /\ \A k \in Task : future[k] = "pending" =>
                     \E s \in Thread : pc[s] = "cancel" /\ k \in Elements(held[s])
<1>1. TypeOK /\ SingleLicence /\ OnePlace => Quiescent
  <2> SUFFICES ASSUME TypeOK, SingleLicence, OnePlace,
                      NEW t \in Thread, TestIdle(t), pc'[t] = "idle"
               PROVE  /\ Runner = {}
                      /\ \A k \in Task : future[k] = "pending" =>
                             \E s \in Thread : pc[s] = "cancel" /\ k \in Elements(held[s])
    OBVIOUS
  <2>1. ~running
    BY DEF TestIdle, TypeOK
  <2>2. Runner = {} /\ queue = <<>>
    BY <2>1 DEF SingleLicence
  <2>3. ASSUME NEW k \in Task, future[k] = "pending"
        PROVE  \E s \in Thread : pc[s] = "cancel" /\ k \in Elements(held[s])
    <3>1. k \notin Elements(queue)
      BY <2>2, ElementsEmpty
    <3>2. PICK s \in Thread : k \in Elements(held[s])
      BY <2>3, <3>1 DEF OnePlace
    <3>3. pc[s] \in {"run", "cancel"}
      BY <3>2 DEF OnePlace
    <3>4. pc[s] # "run"
      BY <2>2 DEF Runner, RunnerPC
    <3> QED BY <3>2, <3>3, <3>4
  <2> QED BY <2>2, <2>3
<1>2. TypeOK /\ SingleLicence /\ OnePlace => [Quiescent]_vars
  BY <1>1
<1> HIDE DEF Quiescent
<1>3. Spec => [][Quiescent]_vars
  BY <1>2, StrandTypeCorrect, StrandSingleLicence, StrandOnePlace, PTL
<1> QED BY <1>3 DEF Quiescent, IdleMeansQuiescent

-----------------------------------------------------------------------------
(* The Strand implements SerialExecutor, step by step.  Current and Doomed  *)
(* are taken apart once, for the state before and the state after a step.   *)

CurrentOf(p, h) ==
    IF \E t \in Thread : p[t] = "run"
    THEN Head(h[CHOOSE t \in Thread : p[t] = "run"])
    ELSE NoTask

DoomedOf(p, h) == UNION {Elements(h[t]) : t \in {c \in Thread : p[c] = "cancel"}}

LEMMA CurrentOfRunner ==
  ASSUME NEW p, NEW h, NEW t \in Thread, p[t] = "run",
         \A s \in Thread : p[s] = "run" => s = t
  PROVE  CurrentOf(p, h) = Head(h[t])
<1>1. (CHOOSE s \in Thread : p[s] = "run") = t
  OBVIOUS
<1> QED
  BY <1>1 DEF CurrentOf

LEMMA CurrentOfNobody ==
  ASSUME NEW p, NEW h, \A s \in Thread : p[s] # "run"
  PROVE  CurrentOf(p, h) = NoTask
BY DEF CurrentOf

LEMMA InDoomedOf ==
  ASSUME NEW p, NEW h, NEW x
  PROVE  x \in DoomedOf(p, h)
           <=> \E t \in Thread : p[t] = "cancel" /\ x \in Elements(h[t])
BY DEF DoomedOf

\* A step that moves no entry, into or out of a body or a cancellation.
LEMMA SameView ==
  ASSUME UNCHANGED held,
         \A s \in Thread : (pc'[s] = "run" <=> pc[s] = "run")
                           /\ (pc'[s] = "cancel" <=> pc[s] = "cancel")
  PROVE  Current' = Current /\ Doomed' = Doomed
<1>1. (CHOOSE t \in Thread : pc'[t] = "run") = (CHOOSE t \in Thread : pc[t] = "run")
  OBVIOUS
<1>2. Current' = Current
  BY <1>1 DEF Current
<1>3. {c \in Thread : pc'[c] = "cancel"} = {c \in Thread : pc[c] = "cancel"}
  OBVIOUS
<1>4. Doomed' = Doomed
  BY <1>3 DEF Doomed
<1> QED
  BY <1>2, <1>4

LEMMA RefineInit == Init => Executor!Init
<1> SUFFICES ASSUME Init PROVE Executor!Init
  OBVIOUS
<1>1. \A t \in Thread : pc[t] = "idle"
  BY DEF Init
<1>2. Current = NoTask
  BY <1>1 DEF Current
<1>3. Doomed = {}
  BY <1>1 DEF Doomed
<1> QED
  BY <1>2, <1>3 DEF Init, Executor!Init

LEMMA RefineEnqueue ==
  ASSUME TypeOK, SingleLicence, NEW t \in Thread, NEW k \in Task, Enqueue(t, k)
  PROVE  Executor!Accept(k)
<1>1. pc[t] = "run" => running
  BY DEF SingleLicence, Runner, RunnerPC
<1>2. UNCHANGED held
  BY DEF Enqueue
<1>3. \A s \in Thread : (pc'[s] = "run" <=> pc[s] = "run")
                        /\ (pc'[s] = "cancel" <=> pc[s] = "cancel")
  BY <1>1 DEF Enqueue, TypeOK
<1>4. Current' = Current /\ Doomed' = Doomed
  BY <1>2, <1>3, SameView
<1> QED
  BY <1>4 DEF Enqueue, Executor!Accept

LEMMA RefineCancelPending ==
  ASSUME TypeOK, OnePlace, NEW t \in Thread, CancelPending(t)
  PROVE  Executor!CancelPending \/ UNCHANGED Executor!vars
<1>1. /\ queue' = <<>> /\ UNCHANGED <<urgent, future>>
      /\ pc[t] = "idle" /\ pc'[t] = "cancel" /\ held'[t] = queue
      /\ Elements(held[t]) = {}
      /\ \A s \in Thread : s # t => held'[s] = held[s] /\ pc'[s] = pc[s]
  BY DEF CancelPending, TypeOK, OnePlace
<1>2. Current' = Current
  <2>1. CASE \A s \in Thread : pc[s] # "run"
    <3>1. \A s \in Thread : pc'[s] # "run"
      BY <1>1, <2>1
    <3> QED
      BY <2>1, <3>1 DEF Current
  <2>2. CASE \E s \in Thread : pc[s] = "run"
    <3>1. (CHOOSE s \in Thread : pc'[s] = "run") = (CHOOSE s \in Thread : pc[s] = "run")
      <4>1. \A s \in Thread : pc'[s] = "run" <=> pc[s] = "run"
        BY <1>1
      <4> QED
        BY <4>1
    <3>2. \A s \in Thread : pc[s] = "run" => held'[s] = held[s] /\ pc'[s] = "run"
      BY <1>1
    <3> QED
      BY <2>2, <3>1, <3>2 DEF Current
  <2> QED
    BY <2>1, <2>2
<1>3. Doomed' = Doomed \cup Elements(queue)
  <2>1. ASSUME NEW x
        PROVE  x \in DoomedOf(pc', held') <=> x \in DoomedOf(pc, held) \cup Elements(queue)
    <3>1. (\E s \in Thread : pc'[s] = "cancel" /\ x \in Elements(held'[s]))
            <=> \/ x \in Elements(queue)
                \/ \E s \in Thread : pc[s] = "cancel" /\ x \in Elements(held[s])
      BY <1>1
    <3> QED
      BY <3>1, InDoomedOf
  <2> QED
    BY <2>1 DEF Doomed, DoomedOf
<1>4. CASE queue = <<>>
  BY <1>1, <1>2, <1>3, <1>4, ElementsEmpty DEF Executor!vars
<1>5. CASE queue # <<>>
  BY <1>1, <1>2, <1>3, <1>5 DEF Executor!CancelPending, Elements
<1> QED
  BY <1>4, <1>5

LEMMA RefineCancelOne ==
  ASSUME TypeOK, OnePlace, NEW t \in Thread, CancelOne(t)
  PROVE  \E k \in Task : Executor!ResolveCancel(k)
<1> DEFINE h == Head(held[t])
<1>1. /\ h \in Task /\ Elements(held[t]) = Elements(Tail(held[t])) \cup {h}
      /\ h \notin Elements(Tail(held[t]))
  <2>1. held[t] \in Seq(Task) /\ held[t] # <<>> /\ NoDuplicates(held[t])
    BY DEF CancelOne, TypeOK, OnePlace
  <2> QED
    BY <2>1, ElementsHeadTail
<1>2. /\ pc' = pc /\ pc[t] = "cancel" /\ UNCHANGED <<queue, urgent>>
      /\ future' = [future EXCEPT ![h] = "cancelled"]
      /\ held'[t] = Tail(held[t])
      /\ \A s \in Thread : s # t => held'[s] = held[s]
  BY DEF CancelOne, TypeOK
<1> HIDE DEF h
<1>3. \A s \in Thread : s # t => h \notin Elements(held[s])
  BY <1>1 DEF OnePlace
<1>4. Current' = Current
  <2>1. CASE \A s \in Thread : pc[s] # "run"
    BY <1>2, <2>1 DEF Current
  <2>2. CASE \E s \in Thread : pc[s] = "run"
    <3>1. \A s \in Thread : pc[s] = "run" => held'[s] = held[s]
      BY <1>2
    <3> QED
      BY <1>2, <2>2, <3>1 DEF Current
  <2> QED
    BY <2>1, <2>2
<1>5. Doomed' = Doomed \ {h}
  <2>1. ASSUME NEW x
        PROVE  x \in DoomedOf(pc', held') <=> x \in DoomedOf(pc, held) \ {h}
    <3>1. (\E s \in Thread : pc'[s] = "cancel" /\ x \in Elements(held'[s]))
            <=> x # h /\ \E s \in Thread : pc[s] = "cancel" /\ x \in Elements(held[s])
      BY <1>1, <1>2, <1>3
    <3> QED
      BY <3>1, InDoomedOf
  <2> QED
    BY <2>1 DEF Doomed, DoomedOf
<1>6. h \in Doomed
  <2>1. h \in DoomedOf(pc, held)
    BY <1>1, <1>2, InDoomedOf
  <2> QED
    BY <2>1 DEF Doomed, DoomedOf
<1> QED
  BY <1>1, <1>2, <1>4, <1>5, <1>6 DEF Executor!ResolveCancel

LEMMA RefinePop ==
  ASSUME TypeOK, SingleLicence, OnePlace, NEW t \in Thread, Pop(t), queue # <<>>
  PROVE  Executor!Start
<1>1. /\ held'[t] = <<Head(queue)>> /\ queue' = Tail(queue) /\ UNCHANGED <<urgent, future>>
      /\ pc[t] = "pop" /\ pc'[t] = "run"
      /\ \A s \in Thread : s # t => held'[s] = held[s] /\ pc'[s] = pc[s]
  BY DEF Pop, TypeOK
<1>2. \A s \in Thread : pc[s] # "run"
  BY <1>1 DEF SingleLicence, Runner, RunnerPC
<1>3. Current = NoTask
  BY <1>2 DEF Current
<1>4. Current' = Head(queue)
  <2>1. \A s \in Thread : pc'[s] = "run" => s = t
    BY <1>1, <1>2
  <2>2. CurrentOf(pc', held') = Head(held'[t])
    BY <1>1, <2>1, CurrentOfRunner
  <2> QED
    BY <1>1, <2>2 DEF Current, CurrentOf
<1>5. Doomed' = Doomed
  <2>1. ASSUME NEW x
        PROVE  x \in DoomedOf(pc', held') <=> x \in DoomedOf(pc, held)
    <3>1. (\E s \in Thread : pc'[s] = "cancel" /\ x \in Elements(held'[s]))
            <=> \E s \in Thread : pc[s] = "cancel" /\ x \in Elements(held[s])
      BY <1>1
    <3> QED
      BY <3>1, InDoomedOf
  <2> QED
    BY <2>1 DEF Doomed, DoomedOf
<1> QED
  BY <1>1, <1>3, <1>4, <1>5 DEF Executor!Start

LEMMA RefineRunBody ==
  ASSUME TypeOK, SingleLicence, OnePlace, NEW t \in Thread, RunBody(t)
  PROVE  Executor!Finish
<1>1. /\ UNCHANGED <<queue, urgent>> /\ pc[t] = "run" /\ pc'[t] = "finish"
      /\ future' = [future EXCEPT ![Head(held[t])] = "value"]
      /\ \A s \in Thread : s # t => held'[s] = held[s] /\ pc'[s] = pc[s]
  BY DEF RunBody, TypeOK
<1>2. \A s \in Thread : pc[s] = "run" => s = t
  BY <1>1 DEF SingleLicence, Runner, RunnerPC
<1>3. Current = Head(held[t])
  <2>1. CurrentOf(pc, held) = Head(held[t])
    BY <1>1, <1>2, CurrentOfRunner
  <2> QED
    BY <2>1 DEF Current, CurrentOf
<1>4. Current # NoTask
  <2>1. PICK k \in Task : held[t] = <<k>>
    BY <1>1 DEF OnePlace
  <2> QED
    BY <1>3, <2>1, StrandAssumption DEF StrandAssumption
<1>5. Current' = NoTask
  <2>1. \A s \in Thread : pc'[s] # "run"
    BY <1>1, <1>2
  <2> QED
    BY <2>1 DEF Current
<1>6. Doomed' = Doomed
  <2>1. ASSUME NEW x
        PROVE  x \in DoomedOf(pc', held') <=> x \in DoomedOf(pc, held)
    <3>1. (\E s \in Thread : pc'[s] = "cancel" /\ x \in Elements(held'[s]))
            <=> \E s \in Thread : pc[s] = "cancel" /\ x \in Elements(held[s])
      BY <1>1
    <3> QED
      BY <3>1, InDoomedOf
  <2> QED
    BY <2>1 DEF Doomed, DoomedOf
<1> QED
  BY <1>1, <1>3, <1>4, <1>5, <1>6 DEF Executor!Finish

LEMMA RefineStep ==
  TypeOK /\ SingleLicence /\ OnePlace /\ [Next]_vars => [Executor!Next]_(Executor!vars)
<1> SUFFICES ASSUME TypeOK, SingleLicence, OnePlace, [Next]_vars
             PROVE  Executor!Next \/ UNCHANGED Executor!vars
  OBVIOUS
<1>1. ASSUME NEW t \in Thread, NEW k \in Task, Submit(t, k)
      PROVE  Executor!Next
  BY <1>1, RefineEnqueue DEF Submit, Executor!Submit, Executor!Next
<1>2. ASSUME NEW t \in Thread, NEW k \in Task, SubmitUrgent(t, k)
      PROVE  Executor!Next
  BY <1>2, RefineEnqueue DEF SubmitUrgent, Executor!SubmitUrgent, Executor!Next
<1>3. ASSUME NEW t \in Thread, CancelPending(t)
      PROVE  Executor!Next \/ UNCHANGED Executor!vars
  BY <1>3, RefineCancelPending DEF Executor!Next
<1>4. ASSUME NEW t \in Thread, CancelOne(t)
      PROVE  Executor!Next
  BY <1>4, RefineCancelOne DEF Executor!Next
<1>5. ASSUME NEW t \in Thread, RunBody(t)
      PROVE  Executor!Next
  BY <1>5, RefineRunBody DEF Executor!Next
<1>6. ASSUME NEW t \in Thread, WaitForIdle(t) \/ Spawn(t) \/ TestIdle(t)
      PROVE  UNCHANGED Executor!vars
  <2>1. UNCHANGED <<queue, urgent, future, held>>
    BY <1>6 DEF WaitForIdle, Spawn, TestIdle
  <2>2. \A s \in Thread : (pc'[s] = "run" <=> pc[s] = "run")
                          /\ (pc'[s] = "cancel" <=> pc[s] = "cancel")
    BY <1>6 DEF WaitForIdle, Spawn, TestIdle, TypeOK
  <2> QED
    BY <2>1, <2>2, SameView DEF Executor!vars
<1>7. ASSUME NEW t \in Thread, FinishTask(t)
      PROVE  UNCHANGED Executor!vars
  <2>1. UNCHANGED <<queue, urgent, future, held>>
    BY <1>7 DEF FinishTask
  <2>2. \A s \in Thread : (pc'[s] = "run" <=> pc[s] = "run")
                          /\ (pc'[s] = "cancel" <=> pc[s] = "cancel")
    BY <1>7 DEF FinishTask, WakeIdle, TypeOK
  <2> QED
    BY <2>1, <2>2, SameView DEF Executor!vars
<1>8. ASSUME NEW t \in Thread, CancelReturn(t)
      PROVE  UNCHANGED Executor!vars
  <2>1. /\ UNCHANGED <<queue, urgent, future, held>>
        /\ pc[t] = "cancel" /\ pc'[t] = "idle" /\ Elements(held[t]) = {}
        /\ \A s \in Thread : s # t => pc'[s] = pc[s]
    BY <1>8, ElementsEmpty DEF CancelReturn, TypeOK
  <2>2. Current' = Current
    <3>1. \A s \in Thread : pc'[s] = "run" <=> pc[s] = "run"
      BY <2>1
    <3>2. (CHOOSE s \in Thread : pc'[s] = "run") = (CHOOSE s \in Thread : pc[s] = "run")
      BY <3>1
    <3> QED
      BY <2>1, <3>1, <3>2 DEF Current
  <2>3. Doomed' = Doomed
    <3>1. ASSUME NEW x
          PROVE  x \in DoomedOf(pc', held') <=> x \in DoomedOf(pc, held)
      <4>1. (\E s \in Thread : pc'[s] = "cancel" /\ x \in Elements(held'[s]))
              <=> \E s \in Thread : pc[s] = "cancel" /\ x \in Elements(held[s])
        BY <2>1
      <4> QED
        BY <4>1, InDoomedOf
    <3> QED
      BY <3>1 DEF Doomed, DoomedOf
  <2> QED
    BY <2>1, <2>2, <2>3 DEF Executor!vars
<1>9. ASSUME NEW t \in Thread, Pop(t)
      PROVE  Executor!Next \/ UNCHANGED Executor!vars
  <2>1. CASE queue = <<>>
    <3>1. UNCHANGED <<queue, urgent, future, held>>
      BY <1>9, <2>1 DEF Pop
    <3>2. \A s \in Thread : (pc'[s] = "run" <=> pc[s] = "run")
                            /\ (pc'[s] = "cancel" <=> pc[s] = "cancel")
      BY <1>9, <2>1 DEF Pop, TypeOK
    <3> QED
      BY <3>1, <3>2, SameView DEF Executor!vars
  <2>2. CASE queue # <<>>
    BY <1>9, <2>2, RefinePop DEF Executor!Next
  <2> QED
    BY <2>1, <2>2
<1>10. ASSUME NEW t \in Worker, Dispatch(t)
       PROVE  UNCHANGED Executor!vars
  <2>1. UNCHANGED <<queue, urgent, future, held>>
    BY <1>10 DEF Dispatch
  <2>2. \A s \in Thread : (pc'[s] = "run" <=> pc[s] = "run")
                          /\ (pc'[s] = "cancel" <=> pc[s] = "cancel")
    BY <1>10 DEF Dispatch, TypeOK
  <2> QED
    BY <2>1, <2>2, SameView DEF Executor!vars
<1>11. CASE UNCHANGED vars
  <2>1. UNCHANGED <<queue, urgent, future, held, pc>>
    BY <1>11 DEF vars
  <2> QED
    BY <2>1, SameView DEF Executor!vars
<1> QED
  BY <1>1, <1>2, <1>3, <1>4, <1>5, <1>6, <1>7, <1>8, <1>9, <1>10, <1>11
  DEF Next, Continue, Request

\* What a client sees of a Strand is a serial executor: every step is a step of
\* SerialExecutor or invisible (its fairness is checked by the runs only).
THEOREM StrandImplementsExecutor ==
  Spec => Executor!Init /\ [][Executor!Next]_(Executor!vars)
BY StrandTypeCorrect, StrandSingleLicence, StrandOnePlace,
   RefineInit, RefineStep, PTL DEF Spec
=============================================================================
