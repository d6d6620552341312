--------------------------- MODULE RtpReceiveProofs ---------------------------
(***************************************************************************)
(* Theorems about RtpReceive, for every size of the sequence space, window, *)
(* delay and debounce, and every number of streams' packets.                *)
(*                                                                         *)
(* The reorder buffer is taken step by step: Emit, Drained, Overdue,        *)
(* MadeRoom and Insert each keep a buffer Sound; Dispatch and Tick then     *)
(* keep Inv.                                                                *)
(*                                                                         *)
(* Why a gap is delivered (Explained) is shown along the same operations.   *)
(* The extended highest number needs that wire numbers can be told apart    *)
(* (Separable) and arithmetic modulo the size of the sequence space.  The   *)
(* sender's order follows from it: every packet is put as far behind the    *)
(* first one as the sender sent it (FirstOut).                              *)
(***************************************************************************)
EXTENDS RtpReceive, FiniteSetTheorems, WellFoundedInduction, TLAPS

-----------------------------------------------------------------------------
(* Extrema.                                                                 *)

LEMMA LeastElement ==
  ASSUME NEW S \in SUBSET Nat, S # {}
  PROVE  \E m \in S : \A n \in S : m <= n
<1> DEFINE R == OpToRel(<, Nat)
<1>1. \E m \in S : \A n \in S : <<n, m>> \notin R
  <2>1. IsWellFoundedOn(R, Nat)
    BY NatLessThanWellFounded
  <2> HIDE DEF R
  <2> QED BY <2>1, WFMin
<1>2. \A m, n \in Nat : n < m => <<n, m>> \in R
  BY DEF OpToRel
<1> HIDE DEF R
<1>3. PICK m \in S : \A n \in S : <<n, m>> \notin R
  BY <1>1
<1>4. \A n \in S : ~(n < m)
  BY <1>2, <1>3
<1>5. S \subseteq Nat
  OBVIOUS
<1>6. \A n \in S : m <= n
  BY <1>4, <1>5
<1> QED BY <1>6

LEMMA GreatestElement ==
  ASSUME NEW S \in SUBSET Nat, S # {}, NEW b \in Nat, \A n \in S : n <= b
  PROVE  /\ Max(S) \in S /\ \A n \in S : n <= Max(S)
<1> DEFINE U == {k \in Nat : \A n \in S : n <= k}
<1>1. PICK u \in U : \A k \in U : u <= k
  BY LeastElement
<1>2. u \in S
  <2> SUFFICES ASSUME u \notin S PROVE FALSE
    OBVIOUS
  <2>1. \A n \in S : n <= u - 1
    BY <1>1
  <2>2. u - 1 \in Nat
    <3>1. PICK n \in S : n <= u - 1
      BY <2>1
    <3> QED BY <1>1, <3>1
  <2>3. u - 1 \in U
    BY <2>1, <2>2
  <2> QED BY <1>1, <2>3
<1>3. \E x \in S : \A y \in S : x >= y
  BY <1>1, <1>2
<1> QED BY <1>3 DEF Max

\* Strict inclusion is well-founded on the finite sets, which gives induction over them.
LEMMA FiniteBounded ==
  ASSUME NEW B, IsFiniteSet(B), \A e \in B : e.x \in Nat
  PROVE  \E b \in Nat : \A e \in B : e.x < b
<1> DEFINE Bounded(U) == \E b \in Nat : \A e \in U : e.x < b
           R == StrictSubsetOrdering(B)
           T == {U \in FiniteSubsetsOf(B) : ~ Bounded(U)}
<1> SUFFICES ASSUME ~ Bounded(B) PROVE FALSE
  OBVIOUS
<1>1. B \in T
  BY DEF FiniteSubsetsOf
<1>2. PICK U \in T : \A V \in T : <<V, U>> \notin R
  <2>1. IsWellFoundedOn(R, FiniteSubsetsOf(B))
    BY FS_StrictSubsetOrderingWellFounded
  <2>2. T \subseteq FiniteSubsetsOf(B) /\ T # {}
    BY <1>1
  <2> HIDE DEF R, T
  <2> QED BY <2>1, <2>2, WFMin
<1>3. U # {}
  BY <1>2
<1>4. PICK e \in U : TRUE
  BY <1>3
<1> DEFINE V == U \ {e}
<1>5. V \in FiniteSubsetsOf(B) /\ <<V, U>> \in R
  <2>1. IsFiniteSet(V) /\ U \subseteq B
    BY <1>2, FS_RemoveElement DEF FiniteSubsetsOf
  <2> QED BY <1>4, <2>1 DEF FiniteSubsetsOf, StrictSubsetOrdering
<1>6. PICK b \in Nat : \A f \in V : f.x < b
  <2>1. V \notin T
    BY <1>2, <1>5
  <2> QED BY <1>5, <2>1
<1>7. e.x \in Nat
  BY <1>2, <1>4 DEF FiniteSubsetsOf
<1>8. Bounded(U)
  <2>1. CASE e.x < b
    BY <1>6, <2>1
  <2>2. CASE ~(e.x < b)
    <3>1. e.x + 1 \in Nat /\ \A f \in U : f.x < e.x + 1
      <4> SUFFICES ASSUME NEW f \in U PROVE f.x < e.x + 1
        BY <1>7
      <4>1. CASE f = e
        BY <1>7, <4>1
      <4>2. CASE f \in V
        <5>1. f.x \in Nat /\ f.x < b
          BY <1>2, <1>6, <4>2 DEF FiniteSubsetsOf
        <5> QED BY <1>7, <2>2, <5>1
      <4> QED BY <4>1, <4>2
    <3> QED BY <3>1
  <2> QED BY <2>1, <2>2
<1> QED BY <1>2, <1>8

-----------------------------------------------------------------------------
(* The reorder buffer.                                                      *)

State == [buf : SUBSET Entry, expected : Nat, out : SUBSET Emitted, lost : SUBSET Nat]

\* The keys of _buf are distinct, and what was emitted lies behind the cursor and
\* behind everything held.
Sound(b) ==
    /\ b \in State
    /\ IsFiniteSet(b.buf)
    /\ \A e, f \in b.buf : e.x = f.x => e = f
    /\ \A o \in b.out : o.x < b.expected /\ \A e \in b.buf : o.x < e.x

LEMMA StateExcept ==
  ASSUME NEW b \in State, NEW B \in SUBSET Entry, NEW X \in Nat, NEW O \in SUBSET Emitted
  PROVE  [b EXCEPT !.buf = B, !.out = O, !.expected = X] \in State
BY DEF State

\* What emitting E makes of b.
EmitsOnly(b, E, c) ==
    /\ Sound(c) /\ c.buf = b.buf \ E /\ c.lost = b.lost
    /\ c.expected >= b.expected
    /\ \A e \in E : e.x < c.expected
    /\ c.expected = b.expected \/ \E e \in E : c.expected = e.x + 1
    /\ \A o \in c.out : o \in b.out \/ \E e \in E : o.stream = e.stream

LEMMA EmitSound ==
  ASSUME NEW b, Sound(b), NEW E \in SUBSET b.buf, NEW F,
         \A e \in E, f \in b.buf \ E : e.x < f.x
  PROVE  EmitsOnly(b, E, Emit(b, E, F))
<1> DEFINE c == Emit(b, E, F)
<1> DEFINE N == {b.expected} \cup {e.x + 1 : e \in E}
           O == {[x |-> e.x, stream |-> e.stream, n |-> e.n, forced |-> e \in F] : e \in E}
<1>1. /\ b.buf \subseteq Entry /\ b.expected \in Nat /\ b.out \subseteq Emitted
      /\ b.lost \subseteq Nat /\ IsFiniteSet(b.buf)
      /\ \A e \in b.buf : e.x \in Nat
  BY DEF Sound, State, Entry
<1>2. /\ c = [b EXCEPT !.buf = b.buf \ E, !.out = b.out \cup O, !.expected = Max(N)]
      /\ b \in State
  BY DEF Emit, Sound
<1>2a. c.buf = b.buf \ E /\ c.expected = Max(N) /\ c.out = b.out \cup O /\ c.lost = b.lost
  <2> HIDE DEF N, O
  <2> QED BY <1>2 DEF State
<1>3. /\ Max(N) \in N /\ \A n \in N : n <= Max(N)
      /\ N \subseteq Nat /\ b.expected \in N /\ \A e \in E : e.x + 1 \in N
  <2>1. N \in SUBSET Nat /\ N # {}
    BY <1>1
  <2>2. PICK k \in Nat : \A e \in b.buf : e.x < k
    BY <1>1, FiniteBounded
  <2>3. k + b.expected \in Nat /\ \A n \in N : n <= k + b.expected
    BY <1>1, <2>2
  <2>4. b.expected \in N /\ \A e \in E : e.x + 1 \in N
    OBVIOUS
  <2> HIDE DEF N
  <2> QED BY <2>1, <2>3, <2>4, GreatestElement
<1>4. O \subseteq Emitted
  <2> SUFFICES ASSUME NEW e \in E
               PROVE  [x |-> e.x, stream |-> e.stream, n |-> e.n, forced |-> e \in F] \in Emitted
    OBVIOUS
  <2>1. e.x \in Nat /\ e.stream \in Stream /\ e.n \in Nat
    BY <1>1 DEF Entry
  <2>2. (e \in F) \in BOOLEAN
    OBVIOUS
  <2> QED BY <2>1, <2>2, Zenon DEF Emitted
<1>5. Max(N) \in Nat /\ b.expected <= Max(N) /\ \A e \in E : e.x < Max(N)
  <2> HIDE DEF N
  <2>1. Max(N) \in Nat /\ b.expected <= Max(N)
    BY <1>3
  <2>2. \A e \in E : e.x + 1 <= Max(N) /\ e.x \in Nat
    BY <1>1, <1>3
  <2> QED BY <2>1, <2>2
<1>6. IsFiniteSet(b.buf \ E)
  BY <1>1, FS_Difference
<1>7. \A o \in O : \E e \in E : o.x = e.x /\ o.stream = e.stream
  OBVIOUS
<1> HIDE DEF N, O
<1>8. \A o \in b.out \cup O : o.x < Max(N) /\ \A e \in b.buf \ E : o.x < e.x
  <2>1. ASSUME NEW o \in b.out PROVE o.x < Max(N) /\ \A e \in b.buf \ E : o.x < e.x
    <3>1. o.x \in Nat /\ o.x < b.expected /\ \A e \in b.buf : o.x < e.x
      BY <1>1, <2>1 DEF Sound, Emitted
    <3> QED BY <1>1, <1>5, <3>1
  <2>2. ASSUME NEW o \in O PROVE o.x < Max(N) /\ \A e \in b.buf \ E : o.x < e.x
    BY <1>5, <1>7
  <2> QED BY <2>1, <2>2
<1>9. Sound(c)
  <2>1. c \in State
    <3>1. /\ b.buf \ E \in SUBSET Entry /\ Max(N) \in Nat
          /\ b.out \cup O \in SUBSET Emitted
      BY <1>1, <1>4, <1>5
    <3> DEFINE X == Max(N) D == b.buf \ E P == b.out \cup O
    <3> HIDE DEF X, D, P
    <3>2. [b EXCEPT !.buf = D, !.out = P, !.expected = X] \in State
      BY <1>2, <3>1, StateExcept DEF X, D, P
    <3> QED BY <1>2, <3>2 DEF X, D, P
  <2>2. \A e, f \in b.buf \ E : e.x = f.x => e = f
    BY DEF Sound
  <2> QED BY <1>2a, <1>6, <1>8, <2>1, <2>2 DEF Sound
<1>10. c.expected = b.expected \/ \E e \in E : c.expected = e.x + 1
  <2>1. Max(N) = b.expected \/ \E e \in E : Max(N) = e.x + 1
    BY <1>3 DEF N
  <2> QED BY <1>2a, <2>1
<1>11. \A o \in c.out : o \in b.out \/ \E e \in E : o.stream = e.stream
  BY <1>2a, <1>7
<1> QED BY <1>2a, <1>5, <1>9, <1>10, <1>11 DEF EmitsOnly

\* The expected packet is not held unless the cursor has moved past an entry.
NothingHeld(b) == (\A e \in b.buf : e.x >= b.expected) => b.expected \notin Keys(b.buf)

\* What a step from b to c may do to the packets: keep them, emit them, or lose them.
Within(b, c) ==
    /\ c.buf \subseteq b.buf
    /\ \A o \in c.out : o \in b.out \/ \E e \in b.buf : o.stream = e.stream

LEMMA DrainedSound ==
  ASSUME NEW b, Sound(b)
  PROVE  LET c == Drained(b) IN Sound(c) /\ Within(b, c) /\ NothingHeld(c)
<1> DEFINE E == {e \in b.buf : /\ e.x >= b.expected
                              /\ b.expected .. e.x \subseteq Keys(b.buf)
                              /\ \A f \in b.buf : f.x >= b.expected}
           c == Drained(b)
<1>1. /\ \A e \in b.buf : e.x \in Nat
      /\ b.expected \in Nat
      /\ \A e, f \in b.buf : e.x = f.x => e = f
  BY DEF Sound, State, Entry
<1>2. c = Emit(b, E, {})
  BY DEF Drained
<1>3. \A e \in E, f \in b.buf \ E : e.x < f.x
  <2> SUFFICES ASSUME NEW e \in E, NEW f \in b.buf \ E, ~(e.x < f.x) PROVE FALSE
    OBVIOUS
  <2>1. f.x >= b.expected /\ f.x <= e.x
    BY <1>1
  <2>2. b.expected .. f.x \subseteq b.expected .. e.x
    BY <1>1, <2>1
  <2> QED BY <2>1, <2>2
<1>4. E \in SUBSET b.buf
  OBVIOUS
<1> HIDE DEF E, c
<1>5. /\ Sound(c) /\ c.buf = b.buf \ E /\ c.expected >= b.expected
      /\ \A e \in E : e.x < c.expected
      /\ c.expected = b.expected \/ \E e \in E : c.expected = e.x + 1
      /\ \A o \in c.out : o \in b.out \/ \E e \in E : o.stream = e.stream
  <2>1. Sound(b)
    OBVIOUS
  <2>2. EmitsOnly(b, E, c)
    BY <1>2, <1>3, <1>4, <2>1, EmitSound
  <2> QED BY <2>2 DEF EmitsOnly
<1>6. Within(b, c)
  BY <1>4, <1>5 DEF Within
<1>7. NothingHeld(c)
  <2> SUFFICES ASSUME \A e \in c.buf : e.x >= c.expected, NEW f \in c.buf, f.x = c.expected
               PROVE  FALSE
    BY DEF NothingHeld, Keys
  <2>1. f \in b.buf /\ f \notin E
    BY <1>5
  <2>2. \A e \in b.buf : e.x >= b.expected
    <3> SUFFICES ASSUME NEW e \in b.buf PROVE e.x >= b.expected
      OBVIOUS
    <3>1. CASE e \in E
      BY <3>1 DEF E
    <3>2. CASE e \notin E
      <4>1. e.x >= c.expected /\ c.expected \in Nat
        BY <1>5, <3>2 DEF Sound, State
      <4> QED BY <1>1, <1>5, <4>1
    <3> QED BY <3>1, <3>2
  <2>3. b.expected .. f.x \subseteq Keys(b.buf)
    <3>1. CASE c.expected = b.expected
      BY <1>1, <2>1, <3>1 DEF Keys
    <3>2. CASE \E e \in E : c.expected = e.x + 1
      <4>1. PICK e \in E : c.expected = e.x + 1
        BY <3>2
      <4>2. b.expected .. e.x \subseteq Keys(b.buf) /\ e.x \in Nat
        BY <1>1, <1>4 DEF E
      <4>3. f.x = e.x + 1 /\ f.x \in Keys(b.buf)
        BY <2>1, <4>1 DEF Keys
      <4>4. \A k \in b.expected .. f.x : k \in b.expected .. e.x \/ k = f.x
        BY <1>1, <4>2, <4>3
      <4> QED BY <4>2, <4>3, <4>4
    <3> QED BY <1>5, <3>1, <3>2
  <2>4. f \in E
    BY <2>1, <2>2, <2>3 DEF E
  <2> QED BY <2>1, <2>4
<1> QED BY <1>5, <1>6, <1>7 DEF c

LEMMA OverdueSound ==
  ASSUME NEW b, Sound(b), NothingHeld(b), setup.delay \in Nat
  PROVE  LET c == Overdue(b) IN Sound(c) /\ Within(b, c) /\ NothingHeld(c)
<1> DEFINE E == {e \in b.buf : \A f \in Starts(b) : f.x <= e.x => f.age >= setup.delay}
           F == E \cap Starts(b)
           c == Emit(b, E, F)
<1>1. CASE setup.delay = 0
  BY <1>1 DEF Overdue, Within
<1>2. CASE setup.delay # 0
  <2>1. Overdue(b) = c
    BY <1>2 DEF Overdue
  <2>2. /\ \A e \in b.buf : e.x \in Nat
        /\ b.expected \in Nat
        /\ Starts(b) \subseteq b.buf
    BY DEF Sound, State, Entry, Starts
  <2>3. \A e \in E, f \in b.buf \ E : e.x < f.x
    BY <2>2
  <2>4. E \in SUBSET b.buf
    OBVIOUS
  <2> HIDE DEF E, F, c
  <2>5. /\ Sound(c) /\ c.buf = b.buf \ E /\ c.expected >= b.expected
        /\ \A e \in E : e.x < c.expected
        /\ c.expected = b.expected \/ \E e \in E : c.expected = e.x + 1
        /\ \A o \in c.out : o \in b.out \/ \E e \in E : o.stream = e.stream
    <3>1. EmitsOnly(b, E, c)
      BY <2>3, <2>4, EmitSound DEF c
    <3> QED BY <3>1 DEF EmitsOnly
  <2>6. Within(b, c)
    BY <2>4, <2>5 DEF Within
  <2>7. NothingHeld(c)
    <3> SUFFICES ASSUME \A e \in c.buf : e.x >= c.expected, NEW f \in c.buf, f.x = c.expected
                 PROVE  FALSE
      BY DEF NothingHeld, Keys
    <3>1. f \in b.buf /\ f \notin E /\ f.x \in Nat
      BY <2>2, <2>5
    <3>2. PICK s \in Starts(b) : s.x <= f.x /\ ~(s.age >= setup.delay)
      BY <3>1 DEF E
    <3>3. s \in c.buf
      <4>1. s \in b.buf /\ s.x \in Nat
        BY <2>2
      <4>2. s \notin E
        BY <3>2, <4>1 DEF E
      <4> QED BY <2>5, <4>1, <4>2
    <3>4. s.x = f.x /\ s.x \in Nat
      BY <2>2, <3>1, <3>2, <3>3
    <3>5. s.x > b.expected /\ s.x - 1 \notin Keys(b.buf)
      <4>1. CASE s.x < b.expected
        BY <2>2, <2>5, <3>4, <4>1
      <4>2. CASE s.x > b.expected /\ s.x - 1 \notin Keys(b.buf)
        BY <4>2
      <4> QED BY <4>1, <4>2 DEF Starts
    <3>6. PICK e \in E : c.expected = e.x + 1
      BY <2>2, <2>5, <3>4, <3>5
    <3>7. e.x = s.x - 1 /\ e \in b.buf
      BY <2>2, <2>4, <3>4, <3>6
    <3> QED BY <3>5, <3>7 DEF Keys
  <2> QED BY <2>1, <2>5, <2>6, <2>7 DEF c
<1> QED BY <1>1, <1>2

LEMMA RoomSound ==
  ASSUME NEW b, Sound(b), Cardinality(b.buf) <= MaxWindow
  PROVE  LET c == MadeRoom(b) IN
         /\ Sound(c) /\ Within(b, c) /\ c.out = b.out
         /\ Cardinality(c.buf) < MaxWindow
<1> DEFINE c == MadeRoom(b)
           h == HeadOf(b.buf)
<1>1. MaxWindow \in Nat \ {0} /\ Cardinality(b.buf) \in Nat
  BY RtpAssumption, FS_CardinalityType DEF Sound
<1>2. CASE Cardinality(b.buf) < MaxWindow
  BY <1>2 DEF MadeRoom, Within
<1>3. CASE ~(Cardinality(b.buf) < MaxWindow)
  <2>1. c = [b EXCEPT !.buf = @ \ {h}, !.lost = @ \cup {h.x},
                      !.expected = IF h.x >= @ THEN h.x + 1 ELSE @]
    BY <1>3 DEF MadeRoom
  <2>2. b.buf # {}
    BY <1>1, <1>3, FS_EmptySet
  <2>3. h \in b.buf /\ \A f \in b.buf : h.x <= f.x
    <3>1. Keys(b.buf) \in SUBSET Nat /\ Keys(b.buf) # {}
      BY <2>2 DEF Keys, Sound, State, Entry
    <3>2. PICK m \in Keys(b.buf) : \A n \in Keys(b.buf) : m <= n
      BY <3>1, LeastElement
    <3>3. \E e \in b.buf : \A f \in b.buf : e.x <= f.x
      BY <3>2 DEF Keys
    <3> QED BY <3>3 DEF HeadOf
  <2>4. h.x \in Nat /\ b.expected \in Nat
    BY <2>3 DEF Sound, State, Entry
  <2> DEFINE X == IF h.x >= b.expected THEN h.x + 1 ELSE b.expected
  <2>5. X \in Nat /\ X >= b.expected
    BY <2>4
  <2> HIDE DEF h, c, X
  <2>6. /\ c.buf = b.buf \ {h} /\ c.lost = b.lost \cup {h.x} /\ c.out = b.out
        /\ c.expected = X
    BY <2>1 DEF Sound, State, X
  <2>7. c \in State
    <3>1. b.buf \ {h} \in SUBSET Entry /\ b.lost \cup {h.x} \in SUBSET Nat /\ b.out \in SUBSET Emitted
      BY <2>4 DEF Sound, State
    <3>2. b \in State
      BY DEF Sound
    <3>3. c = [b EXCEPT !.buf = b.buf \ {h}, !.lost = b.lost \cup {h.x}, !.expected = X]
      BY <2>1, <3>2 DEF X, State
    <3> QED BY <2>5, <3>1, <3>2, <3>3 DEF State
  <2>8. IsFiniteSet(c.buf) /\ Cardinality(c.buf) = Cardinality(b.buf) - 1
    BY <2>3, <2>6, FS_RemoveElement DEF Sound
  <2>9. \A e, f \in c.buf : e.x = f.x => e = f
    BY <2>6 DEF Sound
  <2>10. \A o \in c.out : o.x < c.expected /\ \A e \in c.buf : o.x < e.x
    <3> SUFFICES ASSUME NEW o \in c.out PROVE o.x < c.expected /\ \A e \in c.buf : o.x < e.x
      OBVIOUS
    <3>1. o.x \in Nat /\ o.x < b.expected /\ \A e \in b.buf : o.x < e.x
      BY <2>6 DEF Sound, State, Emitted
    <3> QED BY <2>4, <2>5, <2>6, <3>1
  <2>11. Sound(c)
    BY <2>7, <2>8, <2>9, <2>10 DEF Sound
  <2>12. Within(b, c)
    BY <2>6 DEF Within
  <2> QED BY <1>1, <2>6, <2>8, <2>11, <2>12 DEF c
<1> QED BY <1>2, <1>3

LEMMA InsertSound ==
  ASSUME NEW b, Sound(b), NothingHeld(b), Cardinality(b.buf) <= MaxWindow,
         NEW q \in Packet, NEW x \in Nat, setup.delay \in Nat
  PROVE  LET c == Insert(b, q, x) IN
         /\ Sound(c) /\ NothingHeld(c) /\ Cardinality(c.buf) <= MaxWindow
         /\ \A o \in c.buf \cup c.out :
               o.stream = q.stream \/ \E e \in b.buf \cup b.out : o.stream = e.stream
<1>1. CASE Duplicate(b, x)
  BY <1>1 DEF Insert
<1>2. CASE ~Duplicate(b, x)
  <2> DEFINE r == MadeRoom(b)
             e == [x |-> x, stream |-> q.stream, n |-> q.n, age |-> 0]
             i == [r EXCEPT !.buf = @ \cup {e}]
             d == Drained(i)
             c == Overdue(d)
  <2>1. Insert(b, q, x) = c
    BY <1>2 DEF Insert
  <2>2. e \in Entry /\ e.x = x /\ e.stream = q.stream
    BY DEF Entry, Packet
  <2>3. Sound(r) /\ Within(b, r) /\ r.out = b.out /\ Cardinality(r.buf) < MaxWindow
    BY RoomSound
  <2>4. \A f \in r.buf : f.x # x
    BY <1>2, <2>3 DEF Duplicate, Keys, Within
  <2>5. \A o \in r.out : o.x < x
    <3> SUFFICES ASSUME NEW o \in r.out PROVE o.x < x
      OBVIOUS
    <3>1. o.x \in Nat /\ b.expected \in Nat /\ o.x < b.expected
      BY <2>3 DEF Sound, State, Emitted
    <3>2. ~(x < b.expected)
      BY <1>2 DEF Duplicate
    <3> QED BY <3>1, <3>2
  <2> HIDE DEF r, e
  <2>6. i.buf = r.buf \cup {e} /\ i.expected = r.expected /\ i.out = r.out /\ i.lost = r.lost
    BY <2>3 DEF Sound, State
  <2>7. i \in State
    <3>1. r.buf \cup {e} \in SUBSET Entry /\ r \in State
      BY <2>2, <2>3 DEF Sound, State
    <3> QED BY <3>1 DEF State
  <2> HIDE DEF i
  <2>8. IsFiniteSet(i.buf) /\ Cardinality(i.buf) <= MaxWindow
    <3>1. IsFiniteSet(r.buf) /\ Cardinality(r.buf) \in Nat /\ MaxWindow \in Nat
      BY <2>3, FS_CardinalityType, RtpAssumption DEF Sound
    <3>2. /\ IsFiniteSet(r.buf \cup {e})
          /\ Cardinality(r.buf \cup {e}) = Cardinality(r.buf)
             \/ Cardinality(r.buf \cup {e}) = Cardinality(r.buf) + 1
      BY <3>1, FS_AddElement
    <3> QED BY <2>3, <2>6, <3>1, <3>2
  <2>9. \A f, g \in i.buf : f.x = g.x => f = g
    BY <2>2, <2>3, <2>4, <2>6 DEF Sound
  <2>10. \A o \in i.out : o.x < i.expected /\ \A f \in i.buf : o.x < f.x
    BY <2>2, <2>3, <2>5, <2>6 DEF Sound
  <2>11. Sound(i)
    BY <2>7, <2>8, <2>9, <2>10 DEF Sound
  <2>12. Sound(d) /\ Within(i, d) /\ NothingHeld(d)
    BY <2>11, DrainedSound
  <2> HIDE DEF d
  <2>13. Sound(c) /\ Within(d, c) /\ NothingHeld(c)
    BY <2>12, OverdueSound
  <2> HIDE DEF c
  <2>14. Cardinality(c.buf) <= MaxWindow
    <3>1. c.buf \in SUBSET i.buf
      BY <2>12, <2>13 DEF Within
    <3>2. /\ IsFiniteSet(c.buf) /\ Cardinality(c.buf) <= Cardinality(i.buf)
          /\ Cardinality(c.buf) \in Nat /\ Cardinality(i.buf) \in Nat /\ MaxWindow \in Nat
      BY <2>8, <3>1, FS_Subset, FS_CardinalityType, RtpAssumption
    <3> QED BY <2>8, <3>2
  <2>15. \A o \in c.buf \cup c.out :
            o.stream = q.stream \/ \E f \in b.buf \cup b.out : o.stream = f.stream
    <3>1. \A o \in i.buf \cup i.out :
             o.stream = q.stream \/ \E f \in b.buf \cup b.out : o.stream = f.stream
      BY <2>2, <2>3, <2>6 DEF Within
    <3>2. \A o \in d.buf \cup d.out :
             o.stream = q.stream \/ \E f \in b.buf \cup b.out : o.stream = f.stream
      BY <2>12, <3>1 DEF Within
    <3> QED BY <2>13, <3>2 DEF Within
  <2> QED BY <2>1, <2>13, <2>14, <2>15
<1> QED BY <1>1, <1>2

-----------------------------------------------------------------------------
(* Why a packet is delivered behind a gap.                                  *)

\* Sequence number x may come next after O without having been forced: its predecessor was
\* emitted, or nothing before it was, or an evicted packet lies in between.
Follows(O, L, x) ==
    \/ x - 1 \in Keys(O)
    \/ \A p \in O : x <= p.x
    \/ \E l \in L : l < x /\ \A p \in O : p.x < x => p.x < l

Reasoned(b) == \A o \in b.out : o.forced \/ Follows(b.out, b.lost, o.x)

\* The cursor is where emission, or an eviction, left it.  Only an eviction leaves packets
\* below the cursor in _buf, and then it took one from between them and the cursor.
Grounded(b) ==
    \/ /\ \A f \in b.buf : f.x >= b.expected
       /\ b.expected - 1 \in Keys(b.out) \/ b.out = {}
    \/ \E l \in b.lost : l < b.expected /\ \A f \in b.buf \cup b.out : f.x < b.expected => f.x < l

Explained(b) == Sound(b) /\ Grounded(b) /\ Reasoned(b)

\* The numbers in a sound buffer are naturals.
LEMMA SoundNumbers ==
  ASSUME NEW b, Sound(b)
  PROVE  /\ b.expected \in Nat /\ b.lost \subseteq Nat
         /\ \A e \in b.buf : e.x \in Nat
         /\ \A o \in b.out : o.x \in Nat
         /\ b \in State
BY DEF Sound, State, Entry, Emitted

\* The same packet, under the same number.
Same(o, e) == o.x = e.x /\ o.stream = e.stream /\ o.n = e.n

\* What was emitted stays, and what joins it are the packets of E, those of F marked.
LEMMA EmitOut ==
  ASSUME NEW b, Sound(b), NEW E \in SUBSET b.buf, NEW F
  PROVE  LET c == Emit(b, E, F) IN
         /\ b.out \subseteq c.out
         /\ \A o \in c.out :
               o \in b.out \/ \E e \in E : Same(o, e) /\ (e \in F => o.forced)
         /\ \A e \in E : e.x \in Keys(c.out)
<1> DEFINE O == {[x |-> e.x, stream |-> e.stream, n |-> e.n, forced |-> e \in F] : e \in E}
<1>1. Emit(b, E, F).out = b.out \cup O
  BY DEF Emit, Sound, State
<1>2. ASSUME NEW o \in O PROVE \E e \in E : Same(o, e) /\ (e \in F => o.forced)
  <2>1. PICK e \in E : o = [x |-> e.x, stream |-> e.stream, n |-> e.n, forced |-> e \in F]
    OBVIOUS
  <2>2. Same(o, e)
    BY <2>1 DEF Same
  <2>3. o.forced = (e \in F)
    BY <2>1
  <2> QED BY <2>2, <2>3
<1>3. ASSUME NEW e \in E PROVE e.x \in Keys(O)
  <2> DEFINE o == [x |-> e.x, stream |-> e.stream, n |-> e.n, forced |-> e \in F]
  <2>1. o \in O /\ o.x = e.x
    OBVIOUS
  <2> HIDE DEF O, o
  <2> QED BY <2>1 DEF Keys
<1> HIDE DEF O
<1>4. Keys(O) \subseteq Keys(b.out \cup O)
  BY DEF Keys
<1> QED BY <1>1, <1>2, <1>3, <1>4

\* Emitting the oldest packets, of which each is forced, expected, or follows another, keeps
\* a buffer explained.
LEMMA EmitExplained ==
  ASSUME NEW b, Explained(b), NEW E \in SUBSET b.buf, NEW F,
         \A e \in E, f \in b.buf \ E : e.x < f.x,
         \A e \in E : e \in F \/ e.x = b.expected \/ e.x - 1 \in Keys(E)
  PROVE  Explained(Emit(b, E, F))
<1> DEFINE c == Emit(b, E, F)
<1>1. /\ b.expected \in Nat /\ b.lost \subseteq Nat
      /\ \A e \in b.buf : e.x \in Nat
      /\ \A o \in b.out : o.x \in Nat /\ o.x < b.expected /\ \A e \in b.buf : o.x < e.x
      /\ Sound(b) /\ Grounded(b) /\ Reasoned(b)
  BY SoundNumbers DEF Explained, Sound
<1>2. /\ Sound(c) /\ c.buf = b.buf \ E /\ c.lost = b.lost
      /\ c.expected >= b.expected /\ c.expected \in Nat
      /\ \A e \in E : e.x < c.expected
      /\ c.expected = b.expected \/ \E e \in E : c.expected = e.x + 1
      /\ \A o \in c.out : o.x \in Nat
  <2>1. EmitsOnly(b, E, c)
    BY <1>1, EmitSound
  <2> HIDE DEF c
  <2>2. Sound(c)
    BY <2>1 DEF EmitsOnly
  <2> QED BY <2>1, <2>2, SoundNumbers DEF EmitsOnly
<1>3. /\ b.out \subseteq c.out
      /\ \A o \in c.out : o \in b.out \/ \E e \in E : o.x = e.x /\ (e \in F => o.forced)
      /\ \A e \in E : e.x \in Keys(c.out)
  <2>1. /\ b.out \subseteq c.out
        /\ \A o \in c.out : o \in b.out \/ \E e \in E : Same(o, e) /\ (e \in F => o.forced)
        /\ \A e \in E : e.x \in Keys(c.out)
    BY <1>1, EmitOut
  <2> HIDE DEF c
  <2> QED BY <2>1 DEF Same
<1> HIDE DEF c
<1>4. Keys(b.out) \subseteq Keys(c.out) /\ Keys(E) \subseteq Keys(c.out)
  BY <1>3 DEF Keys
<1>5. ASSUME NEW o \in b.out PROVE o.forced \/ Follows(c.out, c.lost, o.x)
  <2>1. \A p \in c.out : p \in b.out \/ o.x < p.x
    BY <1>1, <1>3
  <2>2. CASE o.forced
    BY <2>2
  <2>3. CASE o.x - 1 \in Keys(b.out)
    BY <1>4, <2>3 DEF Follows
  <2>4. CASE \A p \in b.out : o.x <= p.x
    <3>1. \A p \in c.out : o.x <= p.x
      BY <1>1, <1>2, <2>1, <2>4
    <3> QED BY <3>1 DEF Follows
  <2>5. CASE \E l \in b.lost : l < o.x /\ \A p \in b.out : p.x < o.x => p.x < l
    <3>1. PICK l \in b.lost : l < o.x /\ \A p \in b.out : p.x < o.x => p.x < l
      BY <2>5
    <3>2. \A p \in c.out : p.x < o.x => p.x < l
      BY <1>1, <1>2, <2>1, <3>1
    <3> QED BY <1>2, <3>1, <3>2 DEF Follows
  <2> QED BY <1>1, <2>2, <2>3, <2>4, <2>5 DEF Reasoned, Follows
<1>6. Follows(c.out, c.lost, b.expected)
  <2>1. CASE \E l \in b.lost : /\ l < b.expected
                              /\ \A f \in b.buf \cup b.out : f.x < b.expected => f.x < l
    <3>1. PICK l \in b.lost : /\ l < b.expected
                              /\ \A f \in b.buf \cup b.out : f.x < b.expected => f.x < l
      BY <2>1
    <3>2. \A p \in c.out : p.x < b.expected => p.x < l
      <4> SUFFICES ASSUME NEW p \in c.out, p.x < b.expected PROVE p.x < l
        OBVIOUS
      <4>1. CASE p \in b.out
        BY <3>1, <4>1
      <4>2. CASE \E e \in E : p.x = e.x
        BY <3>1, <4>2
      <4> QED BY <1>3, <4>1, <4>2
    <3> QED BY <1>2, <3>1, <3>2 DEF Follows
  <2>2. CASE /\ \A f \in b.buf : f.x >= b.expected
             /\ b.expected - 1 \in Keys(b.out)
    BY <1>4, <2>2 DEF Follows
  <2>3. CASE /\ \A f \in b.buf : f.x >= b.expected
             /\ b.out = {}
    <3>1. \A p \in c.out : b.expected <= p.x
      BY <1>1, <1>3, <2>3
    <3> QED BY <3>1 DEF Follows
  <2> QED BY <1>1, <2>1, <2>2, <2>3 DEF Grounded
<1>7. ASSUME NEW o \in c.out PROVE o.forced \/ Follows(c.out, c.lost, o.x)
  <2>1. CASE o \in b.out
    BY <1>5, <2>1
  <2>2. ASSUME NEW e \in E, o.x = e.x, e \in F => o.forced
        PROVE  o.forced \/ Follows(c.out, c.lost, o.x)
    <3>1. CASE e \in F
      BY <2>2, <3>1
    <3>2. CASE e.x = b.expected
      BY <1>6, <2>2, <3>2
    <3>3. CASE e.x - 1 \in Keys(E)
      BY <1>4, <2>2, <3>3 DEF Follows
    <3> QED BY <3>1, <3>2, <3>3
  <2> QED BY <1>3, <2>1, <2>2
<1>8. Grounded(c)
  <2>1. CASE \E e \in E : c.expected = e.x + 1
    <3>1. PICK e \in E : c.expected = e.x + 1
      BY <2>1
    <3>2. \A f \in c.buf : f.x >= c.expected
      BY <1>1, <1>2, <3>1
    <3>3. c.expected - 1 \in Keys(c.out)
      <4>1. c.expected - 1 = e.x
        BY <1>1, <3>1
      <4> QED BY <1>3, <4>1
    <3> QED BY <3>2, <3>3 DEF Grounded
  <2>2. CASE /\ c.expected = b.expected
             /\ \A f \in b.buf : f.x >= b.expected
             /\ b.expected - 1 \in Keys(b.out) \/ b.out = {}
    <3>1. E = {}
      BY <1>1, <1>2, <2>2
    <3>2. c.out = b.out /\ c.buf = b.buf
      BY <1>2, <1>3, <3>1
    <3> QED BY <2>2, <3>2 DEF Grounded
  <2>3. CASE /\ c.expected = b.expected
             /\ \E l \in b.lost : /\ l < b.expected
                                  /\ \A f \in b.buf \cup b.out : f.x < b.expected => f.x < l
    <3>1. PICK l \in b.lost : /\ l < b.expected
                              /\ \A f \in b.buf \cup b.out : f.x < b.expected => f.x < l
      BY <2>3
    <3>2. \A f \in c.buf \cup c.out : f.x < c.expected => f.x < l
      <4> SUFFICES ASSUME NEW f \in c.buf \cup c.out, f.x < b.expected PROVE f.x < l
        BY <2>3
      <4>1. CASE f \in b.buf \cup b.out
        BY <3>1, <4>1
      <4>2. CASE \E e \in E : f.x = e.x
        BY <3>1, <4>2
      <4> QED BY <1>2, <1>3, <4>1, <4>2
    <3> QED BY <1>2, <2>3, <3>1, <3>2 DEF Grounded
  <2> QED BY <1>1, <1>2, <2>1, <2>2, <2>3 DEF Grounded
<1> QED BY <1>2, <1>7, <1>8 DEF Explained, Reasoned, c

LEMMA DrainedExplained == ASSUME NEW b, Explained(b) PROVE Explained(Drained(b))
<1> DEFINE E == {e \in b.buf : /\ e.x >= b.expected
                              /\ b.expected .. e.x \subseteq Keys(b.buf)
                              /\ \A f \in b.buf : f.x >= b.expected}
<1>1. /\ \A e \in b.buf : e.x \in Nat
      /\ b.expected \in Nat
  BY SoundNumbers DEF Explained
<1>2. Drained(b) = Emit(b, E, {})
  BY DEF Drained
<1>3. \A e \in E, f \in b.buf \ E : e.x < f.x
  <2> SUFFICES ASSUME NEW e \in E, NEW f \in b.buf \ E, ~(e.x < f.x) PROVE FALSE
    OBVIOUS
  <2>1. f.x >= b.expected /\ f.x <= e.x
    BY <1>1
  <2>2. b.expected .. f.x \subseteq b.expected .. e.x
    BY <1>1, <2>1
  <2> QED BY <2>1, <2>2
<1>4. \A e \in E : e.x = b.expected \/ e.x - 1 \in Keys(E)
  <2> SUFFICES ASSUME NEW e \in E, e.x # b.expected PROVE e.x - 1 \in Keys(E)
    OBVIOUS
  <2>1. e.x - 1 \in b.expected .. e.x /\ b.expected .. e.x \subseteq Keys(b.buf)
    BY <1>1
  <2>2. PICK f \in b.buf : f.x = e.x - 1
    BY <2>1 DEF Keys
  <2>3. b.expected .. f.x \subseteq b.expected .. e.x
    BY <1>1, <2>2
  <2>4. f \in E
    BY <2>1, <2>2, <2>3
  <2> QED BY <2>2, <2>4 DEF Keys
<1>5. E \in SUBSET b.buf
  OBVIOUS
<1> HIDE DEF E
<1> QED BY <1>2, <1>3, <1>4, <1>5, EmitExplained

LEMMA OverdueExplained == ASSUME NEW b, Explained(b) PROVE Explained(Overdue(b))
<1> DEFINE E == {e \in b.buf : \A f \in Starts(b) : f.x <= e.x => f.age >= setup.delay}
           F == E \cap Starts(b)
<1>1. CASE setup.delay = 0
  BY <1>1 DEF Overdue
<1>2. CASE setup.delay # 0
  <2>1. Overdue(b) = Emit(b, E, F)
    BY <1>2 DEF Overdue
  <2>2. /\ \A e \in b.buf : e.x \in Nat
        /\ b.expected \in Nat
        /\ Starts(b) \subseteq b.buf
    BY SoundNumbers DEF Explained, Starts
  <2>3. \A e \in E, f \in b.buf \ E : e.x < f.x
    BY <2>2
  <2>4. \A e \in E : e \in F \/ e.x = b.expected \/ e.x - 1 \in Keys(E)
    <3> SUFFICES ASSUME NEW e \in E, e \notin Starts(b), e.x # b.expected
                 PROVE  e.x - 1 \in Keys(E)
      OBVIOUS
    <3>1. e.x - 1 \in Keys(b.buf)
      BY <2>2 DEF Starts
    <3>2. PICK f \in b.buf : f.x = e.x - 1
      BY <3>1 DEF Keys
    <3>3. \A s \in Starts(b) : s.x <= f.x => s.x <= e.x
      BY <2>2, <3>2
    <3>4. f \in E
      BY <3>3
    <3> QED BY <3>2, <3>4 DEF Keys
  <2>5. E \in SUBSET b.buf
    OBVIOUS
  <2> HIDE DEF E, F
  <2> QED BY <2>1, <2>3, <2>4, <2>5, EmitExplained
<1> QED BY <1>1, <1>2

LEMMA RoomExplained ==
  ASSUME NEW b, Explained(b), Cardinality(b.buf) <= MaxWindow
  PROVE  /\ Grounded(MadeRoom(b)) /\ Reasoned(MadeRoom(b))
         /\ MadeRoom(b).expected >= b.expected
         /\ MadeRoom(b).expected > b.expected =>
               \E l \in MadeRoom(b).lost : /\ MadeRoom(b).expected = l + 1 /\ l \in Keys(b.buf)
                                           /\ \A o \in b.out : o.x < l
                                           /\ \A e \in MadeRoom(b).buf : e.x > l
<1> DEFINE c == MadeRoom(b)
           h == HeadOf(b.buf)
<1>1. /\ b.expected \in Nat /\ b.lost \subseteq Nat
      /\ \A e \in b.buf : e.x \in Nat
      /\ \A o \in b.out : o.x \in Nat /\ o.x < b.expected /\ \A e \in b.buf : o.x < e.x
      /\ \A e, f \in b.buf : e.x = f.x => e = f
      /\ Sound(b) /\ Grounded(b) /\ Reasoned(b) /\ b \in State
  BY SoundNumbers DEF Explained, Sound
<1>2. MaxWindow \in Nat \ {0} /\ Cardinality(b.buf) \in Nat
  BY <1>1, RtpAssumption, FS_CardinalityType DEF Sound
<1>3. CASE Cardinality(b.buf) < MaxWindow
  <2>1. c = b
    BY <1>3 DEF MadeRoom
  <2> QED BY <1>1, <2>1
<1>4. CASE ~(Cardinality(b.buf) < MaxWindow)
  <2>1. c = [b EXCEPT !.buf = @ \ {h}, !.lost = @ \cup {h.x},
                      !.expected = IF h.x >= @ THEN h.x + 1 ELSE @]
    BY <1>4 DEF MadeRoom
  <2>2. b.buf # {}
    BY <1>2, <1>4, FS_EmptySet
  <2>3. h \in b.buf /\ \A f \in b.buf : h.x <= f.x
    <3>1. Keys(b.buf) \in SUBSET Nat /\ Keys(b.buf) # {}
      BY <1>1, <2>2 DEF Keys
    <3>2. PICK m \in Keys(b.buf) : \A n \in Keys(b.buf) : m <= n
      BY <3>1, LeastElement
    <3>3. \E e \in b.buf : \A f \in b.buf : e.x <= f.x
      BY <3>2 DEF Keys
    <3> QED BY <3>3 DEF HeadOf
  <2> HIDE DEF h, c
  <2>4. /\ c.buf = b.buf \ {h} /\ c.lost = b.lost \cup {h.x} /\ c.out = b.out
        /\ c.expected = IF h.x >= b.expected THEN h.x + 1 ELSE b.expected
    BY <1>1, <2>1 DEF State
  <2>5. h.x \in Nat /\ h.x \in c.lost /\ b.lost \subseteq c.lost
    BY <1>1, <2>3, <2>4
  <2>6. /\ \A o \in b.out : o.x < h.x
        /\ \A e \in c.buf : e.x > h.x
    <3> SUFFICES ASSUME NEW e \in c.buf PROVE e.x > h.x
      BY <1>1, <2>3
    <3>1. e \in b.buf /\ e # h
      BY <2>4
    <3>2. e.x # h.x /\ h.x <= e.x /\ e.x \in Nat
      BY <1>1, <2>3, <3>1
    <3> QED BY <2>5, <3>2
  <2>7. Reasoned(c)
    <3> SUFFICES ASSUME NEW o \in b.out, Follows(b.out, b.lost, o.x)
                 PROVE  Follows(b.out, c.lost, o.x)
      BY <1>1, <2>4 DEF Reasoned
    <3> QED BY <2>5 DEF Follows
  <2>8. CASE h.x >= b.expected
    <3>1. c.expected = h.x + 1
      BY <2>4, <2>8
    <3>2. \A f \in c.buf \cup c.out : f.x < c.expected => f.x < h.x
      <4>1. \A f \in c.buf : ~(f.x < c.expected)
        BY <1>1, <2>4, <2>5, <2>6, <3>1
      <4> QED BY <2>4, <2>6, <4>1
    <3>3. Grounded(c)
      BY <2>5, <3>1, <3>2 DEF Grounded
    <3>4. h.x \in Keys(b.buf)
      BY <2>3 DEF Keys
    <3> QED BY <1>1, <2>5, <2>6, <2>7, <2>8, <3>1, <3>3, <3>4 DEF c
  <2>9. CASE ~(h.x >= b.expected)
    <3>1. c.expected = b.expected
      BY <2>4, <2>9
    <3>2. \E l \in b.lost : l < b.expected /\ \A f \in b.buf \cup b.out : f.x < b.expected => f.x < l
      BY <1>1, <2>3, <2>9 DEF Grounded
    <3>3. Grounded(c)
      BY <2>4, <2>5, <3>1, <3>2 DEF Grounded
    <3> QED BY <1>1, <2>7, <3>1, <3>3 DEF c
  <2> QED BY <2>8, <2>9
<1> QED BY <1>3, <1>4

LEMMA InsertExplained ==
  ASSUME NEW b, Explained(b), Cardinality(b.buf) <= MaxWindow, NEW q \in Packet, NEW x \in Nat
  PROVE  Explained(Insert(b, q, x))
<1>1. CASE Duplicate(b, x)
  BY <1>1 DEF Insert
<1>2. CASE ~Duplicate(b, x)
  <2> DEFINE r == MadeRoom(b)
             e == [x |-> x, stream |-> q.stream, n |-> q.n, age |-> 0]
             i == [r EXCEPT !.buf = @ \cup {e}]
  <2>1. Insert(b, q, x) = Overdue(Drained(i))
    BY <1>2 DEF Insert
  <2>2. e \in Entry /\ e.x = x
    BY DEF Entry, Packet
  <2>3. /\ b.expected \in Nat /\ b.lost \subseteq Nat /\ Sound(b)
        /\ \A o \in b.out : o.x \in Nat /\ o.x < b.expected
        /\ x >= b.expected /\ x \notin Keys(b.buf)
    BY <1>2, SoundNumbers DEF Explained, Sound, Duplicate
  <2>4. Sound(r) /\ r.out = b.out /\ r.buf \subseteq b.buf
    BY <2>3, RoomSound DEF Within
  <2>5. /\ Grounded(r) /\ Reasoned(r)
        /\ r.expected >= b.expected
        /\ r.expected > b.expected =>
              \E l \in r.lost : /\ r.expected = l + 1 /\ l \in Keys(b.buf)
                                /\ \A o \in b.out : o.x < l
                                /\ \A f \in r.buf : f.x > l
    BY RoomExplained
  <2> HIDE DEF r, e
  <2>6. /\ r.expected \in Nat /\ r.lost \subseteq Nat
        /\ \A f \in r.buf : f.x \in Nat
        /\ r \in State
    BY <2>4, SoundNumbers
  <2>7. i.buf = r.buf \cup {e} /\ i.expected = r.expected /\ i.out = r.out /\ i.lost = r.lost
    BY <2>6 DEF State
  <2>8. i \in State
    <3>1. r.buf \cup {e} \in SUBSET Entry
      BY <2>2, <2>6 DEF State
    <3> QED BY <2>6, <3>1 DEF State
  <2> HIDE DEF i
  <2>9. Sound(i)
    <3>1. IsFiniteSet(i.buf)
      BY <2>4, <2>7, FS_AddElement DEF Sound
    <3>2. \A f \in r.buf : f.x # x
      BY <2>3, <2>4 DEF Keys
    <3>3. \A f, g \in i.buf : f.x = g.x => f = g
      BY <2>2, <2>4, <2>7, <3>2 DEF Sound
    <3>4. \A o \in i.out : o.x < i.expected /\ \A f \in i.buf : o.x < f.x
      <4>1. \A o \in r.out : o.x < r.expected /\ \A f \in r.buf : o.x < f.x
        BY <2>4 DEF Sound
      <4>2. \A o \in r.out : o.x < x
        BY <2>3, <2>4
      <4> QED BY <2>2, <2>7, <4>1, <4>2
    <3> QED BY <2>8, <3>1, <3>3, <3>4 DEF Sound
  <2>10. Reasoned(i)
    BY <2>5, <2>7 DEF Reasoned
  <2>11. Grounded(i)
    <3>1. CASE r.expected > b.expected
      <4>1. PICK l \in r.lost : /\ r.expected = l + 1 /\ l \in Keys(b.buf)
                                /\ \A o \in b.out : o.x < l
                                /\ \A f \in r.buf : f.x > l
        BY <2>5, <3>1
      <4>2. \A f \in i.buf \cup i.out : f.x < i.expected => f.x < l
        <5> SUFFICES ASSUME NEW f \in i.buf \cup i.out, f.x < i.expected PROVE f.x < l
          OBVIOUS
        <5>1. CASE f \in r.buf
          BY <2>6, <2>7, <4>1, <5>1
        <5>2. CASE f = e
          <6>1. f.x # l
            BY <2>2, <2>3, <4>1, <5>2
          <6> QED BY <2>2, <2>6, <2>7, <4>1, <5>2, <6>1
        <5>3. CASE f \in r.out
          BY <2>4, <4>1, <5>3
        <5> QED BY <2>7, <5>1, <5>2, <5>3
      <4> QED BY <2>6, <2>7, <4>1, <4>2 DEF Grounded
    <3>2. CASE r.expected = b.expected
      <4>1. e.x >= i.expected
        BY <2>2, <2>3, <2>7, <3>2
      <4>2. CASE /\ \A f \in r.buf : f.x >= r.expected
                 /\ r.expected - 1 \in Keys(r.out) \/ r.out = {}
        BY <2>7, <4>1, <4>2 DEF Grounded
      <4>3. CASE \E l \in r.lost : /\ l < r.expected
                                   /\ \A f \in r.buf \cup r.out : f.x < r.expected => f.x < l
        <5>1. PICK l \in r.lost : /\ l < r.expected
                                  /\ \A f \in r.buf \cup r.out : f.x < r.expected => f.x < l
          BY <4>3
        <5>2. ~(e.x < i.expected)
          BY <2>2, <2>3, <2>6, <2>7, <4>1
        <5>3. \A f \in i.buf \cup i.out : f.x < i.expected => f.x < l
          BY <2>7, <5>1, <5>2
        <5> QED BY <2>7, <5>1, <5>3 DEF Grounded
      <4> QED BY <2>5, <4>2, <4>3 DEF Grounded
    <3> QED BY <2>3, <2>5, <2>6, <3>1, <3>2
  <2>12. Explained(i)
    BY <2>9, <2>10, <2>11 DEF Explained
  <2> QED BY <2>1, <2>12, DrainedExplained, OverdueExplained
<1> QED BY <1>1, <1>2

-----------------------------------------------------------------------------
(* The tracker and the pin.                                                 *)

Tracker == [init : BOOLEAN, probation : 0 .. MinSequential, base : Seq16,
            max : Seq16, bad : Nat, cycles : Nat]

LEMMA Modulo == \A a \in Int : a % SeqMod \in Seq16
BY RtpAssumption DEF Seq16

LEMMA TrackerExcept ==
  ASSUME NEW t \in Tracker, NEW m \in Seq16
  PROVE  /\ \A k \in 0 .. MinSequential : [t EXCEPT !.max = m, !.probation = k] \in Tracker
         /\ \A k \in 0 .. MinSequential : [t EXCEPT !.probation = k, !.max = m] \in Tracker
BY DEF Tracker

LEMMA ObserveType ==
  ASSUME NEW u \in Tracker, NEW seq \in Seq16
  PROVE  Observe(u, seq).tracker \in Tracker
<1> DEFINE t == Started(u, seq)
           y == (seq - 1) % SeqMod
           z == (seq + 1) % SeqMod
           delta == (seq - t.max) % SeqMod
<1>1. SeqMod \in Nat \ {0} /\ Seq16 \subseteq Nat
  BY RtpAssumption DEF Seq16
<1>2. y \in Seq16 /\ z \in Seq16
  BY <1>1, Modulo
<1>3. Anchored(seq) \in Tracker
  BY <1>1 DEF Anchored, Tracker, MinSequential
<1>4. t \in Tracker
  <2>1. CASE u.init
    BY <2>1 DEF Started
  <2>2. CASE ~u.init
    <3> DEFINE a == Anchored(seq)
    <3>1. t = [a EXCEPT !.max = y, !.probation = MinSequential]
      BY <2>2 DEF Started
    <3> HIDE DEF a, y, t
    <3>2. a \in Tracker
      BY <1>3 DEF a
    <3>3. MinSequential \in 0 .. MinSequential
      BY DEF MinSequential
    <3> QED BY <1>2, <3>1, <3>2, <3>3, TrackerExcept
  <2> QED BY <2>1, <2>2
<1> HIDE DEF t, y, z
<1>5. CASE t.probation > 0
  <2>1. Observe(u, seq).tracker = Probed(t, seq)
    BY <1>5 DEF Observe, t
  <2>2. [t EXCEPT !.probation = MinSequential - 1, !.max = seq] \in Tracker
    <3>1. MinSequential - 1 \in 0 .. MinSequential
      BY DEF MinSequential
    <3> QED BY <1>4, <3>1, TrackerExcept
  <2>3. [t EXCEPT !.probation = @ - 1, !.max = seq] \in Tracker
    <3>1. t.probation - 1 \in 0 .. MinSequential
      BY <1>4, <1>5 DEF Tracker, MinSequential
    <3> QED BY <1>4, <3>1, TrackerExcept
  <2> QED BY <1>3, <2>1, <2>2, <2>3 DEF Probed
<1>6. CASE t.probation = 0 /\ delta < MaxDropout
  <2> DEFINE n == IF Wraps(t, seq) THEN t.cycles + SeqMod ELSE t.cycles
  <2>1. Observe(u, seq).tracker = [t EXCEPT !.max = seq, !.cycles = n]
    <3>1. ~(t.probation > 0)
      BY <1>6
    <3>2. ~(t.probation = 0 /\ delta >= MaxDropout /\ delta > SeqMod - MaxMisorder)
      <4>1. delta \in Nat /\ MaxDropout \in Nat
        BY <1>1, <1>4, Modulo, RtpAssumption DEF Tracker, Seq16
      <4> HIDE DEF delta
      <4> QED BY <1>6, <4>1
    <3>3. Observe(u, seq)
          = [tracker |-> [t EXCEPT !.max = seq,
                                   !.cycles = IF Wraps(t, seq) THEN @ + SeqMod ELSE @],
             dropped |-> FALSE]
      BY <1>6, <3>1, <3>2 DEF Observe, t
    <3> QED BY <3>3
  <2>2. n \in Nat
    BY <1>1, <1>4 DEF Tracker
  <2> HIDE DEF n
  <2> QED BY <1>4, <2>1, <2>2 DEF Tracker
<1>7. CASE t.probation = 0 /\ delta >= MaxDropout /\ delta > SeqMod - MaxMisorder
  <2>1. delta \in Nat /\ MaxDropout \in Nat
    BY <1>1, <1>4, Modulo, RtpAssumption DEF Tracker, Seq16
  <2> HIDE DEF delta
  <2>2. ~(delta < MaxDropout)
    BY <1>7, <2>1
  <2>3. Observe(u, seq).tracker = t
    BY <1>7, <2>2 DEF Observe, t, delta
  <2> QED BY <1>4, <2>3
<1>8. CASE /\ ~(t.probation > 0)
           /\ ~(t.probation = 0 /\ delta < MaxDropout)
           /\ ~(t.probation = 0 /\ delta >= MaxDropout /\ delta > SeqMod - MaxMisorder)
  <2>1. Observe(u, seq).tracker = IF seq = t.bad THEN Anchored(seq) ELSE [t EXCEPT !.bad = z]
    BY <1>8 DEF Observe, t, z
  <2>2. [t EXCEPT !.bad = z] \in Tracker
    BY <1>1, <1>2, <1>4 DEF Tracker
  <2> QED BY <1>3, <2>1, <2>2
<1> QED BY <1>5, <1>6, <1>7, <1>8

-----------------------------------------------------------------------------
(* The session.                                                             *)

Now == [buf |-> buf, expected |-> cursor.expected, out |-> out, lost |-> lost]

\* The inductive invariant: a cursor or a pin that is not set means that nothing was kept.
Inv ==
    /\ TypeOK
    /\ Sound(Now) /\ NothingHeld(Now) /\ Cardinality(buf) <= MaxWindow
    /\ ~cursor.have => buf = {} /\ out = {}
    /\ ~pin.pinned => ~cursor.have
    /\ OneSource

LEMMA InvInit == Init => Inv
<1> SUFFICES ASSUME Init PROVE Inv
  OBVIOUS
<1>1. SeqMod \in Nat \ {0} /\ MaxWindow \in Nat \ {0}
  BY RtpAssumption
<1>2. IsFiniteSet(buf) /\ Cardinality(buf) = 0
  BY FS_EmptySet DEF Init
<1>3. tracker \in Tracker
  BY <1>1 DEF Init, Idle, Tracker, Seq16, MinSequential
<1>4. setup.ssrc[1] \in Ssrc
  BY RtpAssumption DEF Init, Stream
<1>5. TypeOK
  <2>1. hist \in [of : Stream, anchor : Nat, newest : Nat, mixed : BOOLEAN, astray : BOOLEAN]
    BY DEF Init, Stream
  <2>2. pin \in [pinned : BOOLEAN, ssrc : Ssrc, count : Nat, age : Nat]
    BY <1>4 DEF Init
  <2> QED
    BY <1>2, <1>3, <2>1, <2>2 DEF Init, TypeOK, Tracker, Unset
<1>6. Sound(Now)
  BY <1>2 DEF Init, Now, Sound, State, Unset
<1>7. NothingHeld(Now)
  BY DEF Init, Now, NothingHeld, Keys
<1> QED BY <1>1, <1>2, <1>5, <1>6, <1>7 DEF Inv, OneSource, Init, Unset

LEMMA PinType ==
  ASSUME TypeOK, NEW c \in Ssrc
  PROVE  LET v == CheckSsrcPin(c) IN
         /\ v.pin \in [pinned : BOOLEAN, ssrc : Ssrc, count : Nat, age : Nat]
         /\ v.what \in {"take", "drop", "change"}
         /\ v.what = "take" => v.pin.ssrc = c /\ (pin.pinned => pin.ssrc = c)
         /\ v.what = "change" => v.pin.ssrc = c
         /\ v.what = "drop" => v.pin.ssrc = pin.ssrc
         /\ v.pin.pinned
<1>1. pin \in [pinned : BOOLEAN, ssrc : Ssrc, count : Nat, age : Nat]
  BY DEF TypeOK
<1>2. CASE ~pin.pinned
  BY <1>1, <1>2 DEF CheckSsrcPin
<1>3. CASE pin.pinned /\ c = pin.ssrc
  BY <1>1, <1>3 DEF CheckSsrcPin
<1>4. CASE pin.pinned /\ c # pin.ssrc /\ (pin.count = 0 \/ pin.age > DebounceWindow)
  BY <1>1, <1>4 DEF CheckSsrcPin
<1>5. CASE pin.pinned /\ c # pin.ssrc /\ ~(pin.count = 0 \/ pin.age > DebounceWindow)
  <2>1. CASE pin.count + 1 < DebounceCount
    <3>1. CheckSsrcPin(c) = [pin |-> [pin EXCEPT !.count = @ + 1], what |-> "drop"]
      BY <1>5, <2>1 DEF CheckSsrcPin
    <3> QED BY <1>1, <1>5, <3>1
  <2>2. CASE ~(pin.count + 1 < DebounceCount)
    <3> DEFINE q == [pin EXCEPT !.count = 0, !.ssrc = c]
    <3>1. CheckSsrcPin(c) = [pin |-> q, what |-> "change"]
      BY <1>5, <2>2 DEF CheckSsrcPin
    <3>2. q \in [pinned : BOOLEAN, ssrc : Ssrc, count : Nat, age : Nat]
      BY <1>1
    <3>3. q.ssrc = c /\ q.pinned
      BY <1>1, <1>5
    <3> HIDE DEF q
    <3> QED BY <3>1, <3>2, <3>3
  <2> QED BY <2>1, <2>2
<1> QED BY <1>1, <1>2, <1>3, <1>4, <1>5

LEMMA DispatchInv ==
  ASSUME Inv, NEW q \in Packet, Dispatch(q), UNCHANGED <<setup, sent, ticks>>
  PROVE  Inv'
<1> DEFINE v == CheckSsrcPin(setup.ssrc[q.stream])
           change == v.what = "change"
           seq == Wire(q)
           t == Observe(IF change THEN Idle ELSE tracker, seq)
           x == t.tracker.cycles + seq
           b0 == IF change /\ Clears
                 THEN [buf |-> {}, expected |-> x, out |-> {}, lost |-> {}]
                 ELSE [buf |-> buf, expected |-> IF cursor.have THEN cursor.expected ELSE x,
                       out |-> out, lost |-> lost]
           b == Insert(b0, q, x)
<1>1. /\ pin' = v.pin
      /\ v.what = "drop" => UNCHANGED <<tracker, buf, cursor, out, lost, hist>>
      /\ v.what # "drop" => tracker' = t.tracker
      /\ v.what # "drop" /\ t.dropped => UNCHANGED <<buf, cursor, out, lost, hist>>
      /\ v.what # "drop" /\ ~t.dropped =>
            /\ buf' = b.buf /\ out' = b.out /\ lost' = b.lost
            /\ cursor' = [have |-> TRUE, expected |-> b.expected]
  BY DEF Dispatch
<1>2. hist' \in [of : Stream, anchor : Nat, newest : Nat, mixed : BOOLEAN, astray : BOOLEAN]
  <2>1. /\ hist \in [of : Stream, anchor : Nat, newest : Nat, mixed : BOOLEAN, astray : BOOLEAN]
        /\ q.n \in Nat /\ q.stream \in Stream
    BY DEF Inv, TypeOK, Packet
  <2> DEFINE anchors == t.tracker.base = seq /\ t.tracker # tracker /\ t.tracker = Anchored(seq)
             mistakes == ~anchors /\ t.tracker.probation = 0 /\ q.stream # hist.of
             mixes == mistakes \/ (hist.mixed /\ ~anchors)
             strays == mistakes \/ Astray(b0.buf \cup b0.out, q)
                       \/ (hist.astray /\ ~(change /\ Clears))
             h == [of |-> IF anchors THEN q.stream ELSE hist.of,
                   anchor |-> IF anchors THEN q.n ELSE hist.anchor,
                   newest |-> IF anchors \/ q.n > hist.newest THEN q.n ELSE hist.newest,
                   mixed |-> mixes, astray |-> strays]
  <2>2. hist' = hist \/ hist' = h
    BY DEF Dispatch
  <2>3. strays \in BOOLEAN /\ mixes \in BOOLEAN
    OBVIOUS
  <2> HIDE DEF anchors, strays, mixes
  <2>4. h \in [of : Stream, anchor : Nat, newest : Nat, mixed : BOOLEAN, astray : BOOLEAN]
    BY <2>1, <2>3
  <2> HIDE DEF h
  <2> QED BY <2>1, <2>2, <2>4
<1>3. /\ setup' = setup /\ sent' = sent /\ ticks' = ticks
      /\ setup \in Setups /\ sent \in [Stream -> Nat] /\ ticks \in Nat
      /\ setup.delay \in Nat /\ setup.ssrc[q.stream] \in Ssrc /\ Wire(q) \in Seq16
  <2>1. setup \in [delay : Nat, ssrc : [Stream -> Ssrc], first : [Stream -> Seq16]]
    BY RtpAssumption DEF Inv, TypeOK
  <2>2. q.stream \in Stream /\ q.n \in Nat
    BY DEF Packet
  <2>3. setup.first[q.stream] \in Int
    BY <2>1, <2>2, RtpAssumption DEF Seq16
  <2> QED BY <2>1, <2>2, <2>3, Modulo DEF Wire, Inv, TypeOK
<1>4. /\ v.pin \in [pinned : BOOLEAN, ssrc : Ssrc, count : Nat, age : Nat]
      /\ v.what \in {"take", "drop", "change"}
      /\ v.what = "take" => v.pin.ssrc = setup.ssrc[q.stream]
                             /\ (pin.pinned => pin.ssrc = setup.ssrc[q.stream])
      /\ v.what = "change" => v.pin.ssrc = setup.ssrc[q.stream]
      /\ v.what = "drop" => v.pin.ssrc = pin.ssrc
      /\ v.pin.pinned
  BY <1>3, PinType DEF Inv
<1>5. t.tracker \in Tracker /\ x \in Nat
  <2>1. Idle \in Tracker /\ tracker \in Tracker /\ Seq16 \subseteq Nat
    BY RtpAssumption DEF Inv, TypeOK, Idle, Tracker, Seq16, MinSequential
  <2>2. t.tracker \in Tracker
    BY <1>3, <2>1, ObserveType
  <2> HIDE DEF t
  <2>3. t.tracker.cycles \in Nat
    BY <2>2 DEF Tracker
  <2>4. Wire(q) \in Nat
    BY <1>3, <2>1
  <2> HIDE DEF seq
  <2>5. seq \in Nat
    BY <2>4 DEF seq
  <2> QED BY <2>2, <2>3, <2>5
<1>5a. change => ~t.dropped
  <2> SUFFICES ASSUME change PROVE t.dropped = FALSE
    OBVIOUS
  <2>1. Started(Idle, seq).probation > 0
    BY DEF Started, Idle, Anchored, MinSequential
  <2>2. Observe(Idle, seq).dropped = FALSE
    BY <2>1 DEF Observe
  <2> QED BY <2>2
<1> HIDE DEF v, t, seq
<1>6. /\ Sound(b0) /\ NothingHeld(b0) /\ Cardinality(b0.buf) <= MaxWindow
      /\ v.what = "take" => b0.buf = buf /\ b0.out = out
      /\ v.what = "change" => b0.buf = {} /\ b0.out = {}
  <2>1. CASE change
    <3>1. b0 = [buf |-> {}, expected |-> x, out |-> {}, lost |-> {}]
      BY <2>1 DEF Clears
    <3> HIDE DEF b0
    <3>2. IsFiniteSet({}) /\ Cardinality({}) = 0 /\ MaxWindow \in Nat
      BY FS_EmptySet, RtpAssumption
    <3>3. Sound(b0)
      BY <1>5, <3>1, <3>2 DEF Sound, State
    <3>4. NothingHeld(b0)
      BY <3>1 DEF NothingHeld, Keys
    <3> QED BY <2>1, <3>1, <3>2, <3>3, <3>4
  <2>2. CASE ~change /\ cursor.have
    <3>1. b0 = Now
      BY <2>2 DEF Now
    <3> HIDE DEF b0
    <3> QED BY <2>2, <3>1 DEF Inv, Now
  <2>3. CASE ~change /\ ~cursor.have
    <3>1. b0 = [buf |-> buf, expected |-> x, out |-> out, lost |-> lost]
      BY <2>3
    <3>2. buf = {} /\ out = {} /\ lost \subseteq Nat
      BY <2>3 DEF Inv, TypeOK
    <3> HIDE DEF b0
    <3>3. IsFiniteSet({}) /\ Cardinality({}) = 0 /\ MaxWindow \in Nat
      BY FS_EmptySet, RtpAssumption
    <3>4. Sound(b0)
      BY <1>5, <3>1, <3>2, <3>3 DEF Sound, State
    <3>5. NothingHeld(b0)
      BY <3>1, <3>2 DEF NothingHeld, Keys
    <3> QED BY <2>3, <3>1, <3>2, <3>3, <3>4, <3>5
  <2> QED BY <2>1, <2>2, <2>3
<1> HIDE DEF b0
<1>7. /\ Sound(b) /\ NothingHeld(b) /\ Cardinality(b.buf) <= MaxWindow
      /\ \A o \in b.buf \cup b.out :
            o.stream = q.stream \/ \E e \in b0.buf \cup b0.out : o.stream = e.stream
  BY <1>3, <1>5, <1>6, InsertSound
<1> HIDE DEF b, x
<1>8. CASE v.what = "drop" \/ t.dropped
  <2>1. UNCHANGED <<buf, cursor, out, lost>> /\ tracker' \in Tracker
    BY <1>1, <1>5, <1>8 DEF Inv, TypeOK, Tracker
  <2>2. TypeOK'
    BY <1>1, <1>2, <1>3, <1>4, <2>1 DEF Inv, TypeOK, Tracker
  <2>3. Now' = Now
    BY <2>1 DEF Now
  <2>4. OneSource'
    <3>1. CASE v.what = "drop" \/ v.what = "take"
      BY <1>1, <1>3, <1>4, <2>1, <3>1 DEF Inv, OneSource
    <3>2. CASE v.what = "change"
      BY <1>5a, <1>8, <3>2
    <3> QED BY <1>4, <3>1, <3>2
  <2> QED BY <1>1, <1>4, <2>1, <2>2, <2>3, <2>4 DEF Inv
<1>9. CASE ~(v.what = "drop" \/ t.dropped)
  <2>1. /\ buf' = b.buf /\ out' = b.out /\ lost' = b.lost /\ tracker' \in Tracker
        /\ cursor' = [have |-> TRUE, expected |-> b.expected]
    BY <1>1, <1>5, <1>9
  <2>2. b \in State /\ Now' = [buf |-> b.buf, expected |-> b.expected, out |-> b.out, lost |-> b.lost]
    BY <1>7, <2>1 DEF Now, Sound
  <2>3. Now' = b
    BY <2>2 DEF State
  <2>4. TypeOK'
    BY <1>1, <1>2, <1>3, <1>4, <1>7, <2>1 DEF TypeOK, Sound, State, Tracker
  <2>5. OneSource'
    <3> SUFFICES ASSUME NEW o \in b.buf \cup b.out
                 PROVE  setup.ssrc[o.stream] = v.pin.ssrc
      BY <1>1, <1>3, <2>1 DEF OneSource
    <3>1. v.pin.ssrc = setup.ssrc[q.stream]
      BY <1>4, <1>9
    <3>2. \A e \in b0.buf \cup b0.out : setup.ssrc[e.stream] = setup.ssrc[q.stream]
      <4>1. CASE v.what = "change"
        BY <1>6, <4>1
      <4>2. CASE v.what = "take"
        BY <1>4, <1>6, <4>2 DEF Inv, OneSource
      <4> QED BY <1>4, <1>9, <4>1, <4>2
    <3> QED BY <1>7, <3>1, <3>2
  <2> QED BY <1>1, <1>4, <1>7, <2>1, <2>3, <2>4, <2>5 DEF Inv
<1> QED BY <1>8, <1>9

LEMMA TickInv == ASSUME Inv, Tick PROVE Inv'
<1> DEFINE A(e) == [e EXCEPT !.age = Older(@, setup.delay)]
<1>1. /\ buf' = {A(e) : e \in buf}
      /\ UNCHANGED <<setup, sent, tracker, cursor, out, lost, hist>> /\ ticks' = ticks + 1
      /\ pin' = [pin EXCEPT !.age = IF pin.count > 0 THEN Older(@, DebounceWindow + 1) ELSE 0]
  BY DEF Tick
<1>2. setup.delay \in Nat
  BY RtpAssumption DEF Inv, TypeOK
<1>3. ASSUME NEW e \in buf
      PROVE  /\ A(e) \in Entry
             /\ A(e).x = e.x /\ A(e).stream = e.stream /\ e.x \in Nat
  <2>1. e \in Entry
    BY DEF Inv, TypeOK
  <2> DEFINE a == Older(e.age, setup.delay)
  <2>2. a \in Nat
    BY <1>2, <2>1 DEF Entry, Older
  <2>3. A(e) = [e EXCEPT !.age = a]
    OBVIOUS
  <2> HIDE DEF a, A
  <2> QED BY <2>1, <2>2, <2>3 DEF Entry
<1>4. IsFiniteSet(buf') /\ Cardinality(buf') <= Cardinality(buf)
  <2> DEFINE g == [e \in buf |-> A(e)]
  <2>1. g \in Surjection(buf, buf')
    <3> HIDE DEF A
    <3> QED BY <1>1 DEF Surjection
  <2>2. IsFiniteSet(buf)
    BY DEF Inv, TypeOK
  <2> HIDE DEF g
  <2> QED BY <2>1, <2>2, FS_Surjection
<1>5. pin' \in [pinned : BOOLEAN, ssrc : Ssrc, count : Nat, age : Nat]
      /\ pin'.ssrc = pin.ssrc /\ pin'.pinned = pin.pinned
  <2> DEFINE a == IF pin.count > 0 THEN Older(pin.age, DebounceWindow + 1) ELSE 0
  <2>1. pin \in [pinned : BOOLEAN, ssrc : Ssrc, count : Nat, age : Nat]
    BY DEF Inv, TypeOK
  <2>2. a \in Nat
    BY <2>1, RtpAssumption DEF Older
  <2>3. pin' = [pin EXCEPT !.age = a]
    BY <1>1
  <2> HIDE DEF a
  <2> QED BY <2>1, <2>2, <2>3
<1> HIDE DEF A
<1>6. TypeOK'
  <2>1. buf' \subseteq Entry
    BY <1>1, <1>3
  <2> QED BY <1>1, <1>4, <1>5, <2>1 DEF Inv, TypeOK
<1>7. Now' = [buf |-> buf', expected |-> cursor.expected, out |-> out, lost |-> lost]
  BY <1>1 DEF Now
<1>8. Sound(Now')
  <2>1. Now' \in State
    BY <1>6, <1>7, <1>1 DEF TypeOK, State
  <2>2. \A e, f \in buf' : e.x = f.x => e = f
    BY <1>1, <1>3 DEF Inv, Sound, Now
  <2>3. \A o \in out : o.x < cursor.expected /\ \A e \in buf' : o.x < e.x
    BY <1>1, <1>3 DEF Inv, Sound, Now
  <2> QED BY <1>4, <1>7, <2>1, <2>2, <2>3 DEF Sound
<1>9. NothingHeld(Now')
  <2>1. Keys(buf') = Keys(buf)
    BY <1>1, <1>3 DEF Keys
  <2>2. (\A e \in buf' : e.x >= cursor.expected) => \A e \in buf : e.x >= cursor.expected
    BY <1>1, <1>3
  <2> QED BY <1>7, <2>1, <2>2 DEF Inv, NothingHeld, Now
<1>10. Cardinality(buf') <= MaxWindow
  <2>1. Cardinality(buf) \in Nat /\ Cardinality(buf') \in Nat /\ MaxWindow \in Nat
    BY <1>4, FS_CardinalityType, RtpAssumption DEF Inv, TypeOK
  <2> QED BY <1>4, <2>1 DEF Inv
<1>11. OneSource'
  BY <1>1, <1>3, <1>5 DEF Inv, OneSource
<1>12. ~cursor'.have => buf' = {} /\ out' = {}
  BY <1>1 DEF Inv
<1> QED BY <1>1, <1>5, <1>6, <1>8, <1>9, <1>10, <1>11, <1>12 DEF Inv

LEMMA InvStep == Inv /\ [Next]_vars => Inv'
<1> SUFFICES ASSUME Inv, [Next]_vars PROVE Inv'
  OBVIOUS
<1>1. ASSUME NEW s \in Stream, Send(s) PROVE Inv'
  <2>1. /\ UNCHANGED <<setup, tracker, pin, buf, cursor, ticks, out, lost, hist>>
        /\ sent' \in [Stream -> Nat]
    BY <1>1 DEF Send, Inv, TypeOK
  <2> QED BY <2>1 DEF Inv, TypeOK, Now, OneSource
<1>2. ASSUME NEW s \in Stream, NEW n \in 0 .. MaxSent - 1, Arrive([stream |-> s, n |-> n])
      PROVE  Inv'
  <2>1. [stream |-> s, n |-> n] \in Packet
    BY RtpAssumption DEF Packet
  <2> QED BY <1>2, <2>1, DispatchInv DEF Arrive
<1>3. CASE Tick
  BY <1>3, TickInv
<1>4. CASE UNCHANGED vars
  BY <1>4 DEF vars, Inv, TypeOK, Now, OneSource
<1> QED BY <1>1, <1>2, <1>3, <1>4 DEF Next

LEMMA Invariance == Spec => []Inv
BY InvInit, InvStep, PTL DEF Spec

\* The fields of the tracker, the pin and the reorder buffer keep their types, whatever the
\* network does: modular arithmetic and the CHOOSE of the buffer's head stay in range.
THEOREM RtpTypeCorrect == Spec => []TypeOK
<1>1. Inv => TypeOK
  BY DEF Inv
<1> QED BY <1>1, Invariance, PTL

\* _buf never holds more than Config::maxWindow packets, and none twice.
THEOREM RtpWindowBounded == Spec => []WindowBounded
<1>1. Inv => WindowBounded
  BY DEF Inv, Sound, Now, WindowBounded
<1> QED BY <1>1, Invariance, PTL

\* rtpseqreorderbuffer.cpp delivers in order and at most once, over losses, duplicates,
\* overflow, deadlines and changes of SSRC.
THEOREM RtpNeverAgain == Spec => []NeverAgain
<1>1. Inv => NeverAgain
  BY DEF Inv, Sound, Now, NeverAgain
<1> QED BY <1>1, Invariance, PTL

\* insert() returns with the expected packet delivered, unless an overflow moved the
\* cursor past an entry.
THEOREM RtpNothingDeliverableHeld == Spec => []NothingDeliverableHeld
<1>1. Inv => NothingDeliverableHeld
  BY DEF Inv, NothingHeld, Now, NothingDeliverableHeld
<1> QED BY <1>1, Invariance, PTL

\* checkSsrcPin(): nothing held or delivered comes from an SSRC other than the pinned one.
THEOREM RtpOneSource == Spec => []OneSource
<1>1. Inv => OneSource
  BY DEF Inv
<1> QED BY <1>1, Invariance, PTL

-----------------------------------------------------------------------------
(* Gaps.                                                                    *)

LEMMA ExplainedInit == Init => Explained(Now)
<1> SUFFICES ASSUME Init PROVE Explained(Now)
  OBVIOUS
<1>1. Sound(Now)
  BY InvInit DEF Inv
<1>2. Now.buf = {} /\ Now.out = {}
  BY DEF Init, Now
<1> QED BY <1>1, <1>2 DEF Explained, Grounded, Reasoned

\* Nothing held and nothing emitted: any cursor will do.
LEMMA EmptyExplained ==
  ASSUME NEW x \in Nat, NEW L \in SUBSET Nat
  PROVE  Explained([buf |-> {}, expected |-> x, out |-> {}, lost |-> L])
<1> DEFINE b == [buf |-> {}, expected |-> x, out |-> {}, lost |-> L]
<1>1. b.buf = {} /\ b.out = {} /\ b.expected \in Nat /\ b.lost \subseteq Nat /\ b \in State
  BY DEF State
<1> HIDE DEF b
<1>2. Sound(b)
  BY <1>1, FS_EmptySet DEF Sound
<1>3. Grounded(b) /\ Reasoned(b)
  BY <1>1 DEF Grounded, Reasoned
<1> QED BY <1>2, <1>3 DEF Explained, b

LEMMA DispatchExplained ==
  ASSUME Inv, Explained(Now), NEW q \in Packet, Dispatch(q)
  PROVE  Explained(Now')
<1> DEFINE v == CheckSsrcPin(setup.ssrc[q.stream])
           change == v.what = "change"
           seq == Wire(q)
           t == Observe(IF change THEN Idle ELSE tracker, seq)
           x == t.tracker.cycles + seq
           b0 == IF change /\ Clears
                 THEN [buf |-> {}, expected |-> x, out |-> {}, lost |-> {}]
                 ELSE [buf |-> buf, expected |-> IF cursor.have THEN cursor.expected ELSE x,
                       out |-> out, lost |-> lost]
           b == Insert(b0, q, x)
<1>1. \/ UNCHANGED <<buf, cursor, out, lost>>
      \/ /\ buf' = b.buf /\ out' = b.out /\ lost' = b.lost
         /\ cursor' = [have |-> TRUE, expected |-> b.expected]
  BY DEF Dispatch
<1>2. x \in Nat
  <2>1. Idle \in Tracker /\ tracker \in Tracker /\ Seq16 \subseteq Nat
    BY RtpAssumption DEF Inv, TypeOK, Idle, Tracker, Seq16, MinSequential
  <2>2. Wire(q) \in Seq16
    <3>1. setup \in [delay : Nat, ssrc : [Stream -> Ssrc], first : [Stream -> Seq16]]
      BY RtpAssumption DEF Inv, TypeOK
    <3>2. q.stream \in Stream /\ q.n \in Nat
      BY DEF Packet
    <3>3. setup.first[q.stream] \in Nat
      BY <2>1, <3>1, <3>2
    <3> QED BY <3>2, <3>3, Modulo DEF Wire
  <2>3. t.tracker \in Tracker
    BY <2>1, <2>2, ObserveType
  <2> HIDE DEF t, seq
  <2>4. t.tracker.cycles \in Nat
    BY <2>3 DEF Tracker
  <2>5. seq \in Nat
    BY <2>1, <2>2 DEF seq
  <2> QED BY <2>4, <2>5
<1> HIDE DEF v, t, seq, x
<1>3. Explained(b0) /\ Cardinality(b0.buf) <= MaxWindow
  <2>1. Cardinality({}) <= MaxWindow
    BY FS_EmptySet, RtpAssumption
  <2>2. CASE change
    <3>1. b0 = [buf |-> {}, expected |-> x, out |-> {}, lost |-> {}]
      BY <2>2 DEF Clears
    <3>2. Explained(b0)
      BY <1>2, <3>1, EmptyExplained
    <3> QED BY <2>1, <3>1, <3>2
  <2>3. CASE ~change /\ cursor.have
    <3>1. b0 = Now
      BY <2>3 DEF Now
    <3> QED BY <3>1 DEF Inv, Now
  <2>4. CASE ~change /\ ~cursor.have
    <3>1. b0 = [buf |-> {}, expected |-> x, out |-> {}, lost |-> lost] /\ lost \in SUBSET Nat
      BY <2>4 DEF Inv, TypeOK
    <3> HIDE DEF b0
    <3>2. Explained(b0)
      BY <1>2, <3>1, EmptyExplained
    <3> QED BY <2>1, <3>1, <3>2
  <2> QED BY <2>2, <2>3, <2>4
<1> HIDE DEF b0
<1>4. Explained(b)
  BY <1>2, <1>3, InsertExplained
<1> HIDE DEF b
<1>5. CASE UNCHANGED <<buf, cursor, out, lost>>
  <2>1. Now' = Now
    BY <1>5 DEF Now
  <2> QED BY <2>1
<1>6. CASE /\ buf' = b.buf /\ out' = b.out /\ lost' = b.lost
           /\ cursor' = [have |-> TRUE, expected |-> b.expected]
  <2>1. b \in State
    BY <1>4, SoundNumbers DEF Explained
  <2>2. Now' = [buf |-> b.buf, expected |-> b.expected, out |-> b.out, lost |-> b.lost]
    BY <1>6 DEF Now
  <2>3. Now' = b
    BY <2>1, <2>2 DEF State
  <2> QED BY <1>4, <2>3
<1> QED BY <1>1, <1>5, <1>6

LEMMA TickExplained == ASSUME Inv, Explained(Now), Tick PROVE Explained(Now')
<1> DEFINE A(e) == [e EXCEPT !.age = Older(@, setup.delay)]
<1>1. buf' = {A(e) : e \in buf} /\ UNCHANGED <<cursor, out, lost>>
  BY DEF Tick
<1>2. Sound(Now')
  BY TickInv DEF Inv
<1>3. \A e \in buf : A(e).x = e.x
  BY DEF Inv, TypeOK, Entry
<1> HIDE DEF A
<1>4. \A f \in buf' : \E e \in buf : f.x = e.x
  BY <1>1, <1>3
<1>5. Now' = [buf |-> buf', expected |-> cursor.expected, out |-> out, lost |-> lost]
  BY <1>1 DEF Now
<1>6. Reasoned(Now')
  BY <1>5 DEF Explained, Reasoned, Now
<1>7. Grounded(Now')
  BY <1>4, <1>5 DEF Explained, Grounded, Now
<1> QED BY <1>2, <1>6, <1>7 DEF Explained

LEMMA ExplainedStep == Inv /\ Explained(Now) /\ [Next]_vars => Explained(Now')
<1> SUFFICES ASSUME Inv, Explained(Now), [Next]_vars PROVE Explained(Now')
  OBVIOUS
<1>1. ASSUME UNCHANGED <<buf, cursor, out, lost>> PROVE Explained(Now')
  <2>1. Now' = Now
    BY <1>1 DEF Now
  <2> QED BY <2>1
<1>2. ASSUME NEW s \in Stream, Send(s) PROVE Explained(Now')
  BY <1>1, <1>2 DEF Send
<1>3. ASSUME NEW s \in Stream, NEW n \in 0 .. MaxSent - 1, Arrive([stream |-> s, n |-> n])
      PROVE  Explained(Now')
  <2>1. [stream |-> s, n |-> n] \in Packet
    BY RtpAssumption DEF Packet
  <2> QED BY <1>3, <2>1, DispatchExplained DEF Arrive
<1>4. CASE Tick
  BY <1>4, TickExplained
<1>5. CASE UNCHANGED vars
  BY <1>1, <1>5 DEF vars
<1> QED BY <1>2, <1>3, <1>4, <1>5 DEF Next

\* A packet is delivered behind a gap only if its deadline forced it, or if an overflow
\* evicted a packet of the gap, over losses, duplicates, late packets, overflow and changes
\* of SSRC; insert() never skips a number for another reason.
THEOREM RtpGapsHaveReason == Spec => []GapsHaveReason
<1>1. (Explained(Now))' = Explained(Now')
  BY DEF Explained, Sound, Grounded, Reasoned, Follows
<1>2. Inv /\ Explained(Now) /\ [Next]_vars => (Explained(Now))'
  BY <1>1, ExplainedStep
<1>3. Explained(Now) => GapsHaveReason
  BY DEF Explained, Reasoned, Follows, Now, GapsHaveReason
<1> QED BY <1>2, <1>3, ExplainedInit, Invariance, PTL DEF Spec

-----------------------------------------------------------------------------
(* The extended highest sequence number.                                    *)

\* What a receiver of 16-bit numbers must rely on to tell a late packet from a gap: a packet
\* is late by no more than MaxMisorder, and a stream does not reach around into that zone.
Separable ==
    /\ Reach <= MaxMisorder
    /\ MaxDropout + MaxMisorder <= SeqMod
    /\ MaxSent + MaxMisorder <= SeqMod

LEMMA ModSmall == ASSUME NEW N \in Nat \ {0}, NEW a \in 0 .. N - 1 PROVE a % N = a
OBVIOUS

LEMMA ModUp == ASSUME NEW N \in Nat \ {0}, NEW a \in N .. 2 * N - 1 PROVE a % N = a - N
OBVIOUS

LEMMA ModDown == ASSUME NEW N \in Nat \ {0}, NEW a \in (0 - N) .. (0 - 1) PROVE a % N = a + N
OBVIOUS

\* Two numbers f + m and f + n less than a cycle apart, in a sequence that wraps at most once:
\* what their difference looks like, and whether the step passes the end.
LEMMA WireStep ==
  ASSUME NEW N \in Nat \ {0}, NEW f \in 0 .. N - 1, NEW m \in 0 .. N - 1, NEW n \in 0 .. N - 1
  PROVE  LET a == (f + m) % N
             b == (f + n) % N
         IN  /\ n >= m => /\ (b - a) % N = n - m
                          /\ (IF b < a THEN N ELSE 0) + b - a = n - m
             /\ n < m => (b - a) % N = N + n - m
<1> DEFINE a == (f + m) % N
           b == (f + n) % N
<1>1. a = IF f + m < N THEN f + m ELSE f + m - N
  <2>1. CASE f + m < N
    BY <2>1, ModSmall
  <2>2. CASE ~(f + m < N)
    <3>1. f + m \in N .. 2 * N - 1
      BY <2>2
    <3> QED BY <2>2, <3>1, ModUp
  <2> QED BY <2>1, <2>2
<1>2. b = IF f + n < N THEN f + n ELSE f + n - N
  <2>1. CASE f + n < N
    BY <2>1, ModSmall
  <2>2. CASE ~(f + n < N)
    <3>1. f + n \in N .. 2 * N - 1
      BY <2>2
    <3> QED BY <2>2, <3>1, ModUp
  <2> QED BY <2>1, <2>2
<1> HIDE DEF a, b
<1>3. a \in 0 .. N - 1 /\ b \in 0 .. N - 1
  BY <1>1, <1>2
<1>4. n >= m => b - a = n - m \/ b - a = n - m - N
  BY <1>1, <1>2
<1>5. n < m => b - a = n - m \/ b - a = n - m + N
  BY <1>1, <1>2
<1>6. /\ b - a \in 0 .. N - 1 => (b - a) % N = b - a
      /\ b - a \in (0 - N) .. (0 - 1) => (b - a) % N = b - a + N
  BY ModSmall, ModDown
<1>7. CASE n >= m
  <2>1. CASE b - a = n - m
    BY <1>3, <1>6, <1>7, <2>1 DEF a, b
  <2>2. CASE b - a = n - m - N
    BY <1>3, <1>6, <1>7, <2>2 DEF a, b
  <2> QED BY <1>4, <1>7, <2>1, <2>2
<1>8. CASE n < m
  <2>1. CASE b - a = n - m
    BY <1>3, <1>6, <1>8, <2>1 DEF a, b
  <2>2. CASE b - a = n - m + N
    BY <1>3, <1>6, <1>8, <2>2 DEF a, b
  <2> QED BY <1>5, <1>8, <2>1, <2>2
<1> QED BY <1>7, <1>8

\* The five outcomes of observe().
LEMMA ObserveCases ==
  ASSUME NEW u \in Tracker, NEW seq \in Seq16
  PROVE  LET v == Observe(u, seq).tracker
             dropped == Observe(u, seq).dropped
             delta == (seq - u.max) % SeqMod
         IN  \/ v.probation > 0
             \/ v = Anchored(seq) /\ v # u /\ ~dropped /\ u.init
             \/ /\ u.init /\ u.probation = 0 /\ delta < MaxDropout /\ ~dropped
                /\ v = [u EXCEPT !.max = seq, !.cycles = IF Wraps(u, seq) THEN @ + SeqMod ELSE @]
             \/ /\ u.init /\ u.probation = 0 /\ delta > SeqMod - MaxMisorder /\ v = u /\ ~dropped
             \/ /\ u.init /\ u.probation = 0 /\ dropped
                /\ v = [u EXCEPT !.bad = (seq + 1) % SeqMod]
<1> DEFINE v == Observe(u, seq).tracker
           dropped == Observe(u, seq).dropped
           delta == (seq - u.max) % SeqMod
<1>1. SeqMod \in Nat \ {0} /\ MaxDropout \in Nat /\ u.max \in Nat /\ seq \in Nat /\ seq < SeqMod
  BY RtpAssumption DEF Tracker, Seq16
<1>2. delta \in Nat
  BY <1>1, Modulo DEF Seq16
<1>3. CASE ~u.init
  <2> DEFINE t == Started(u, seq)
  <2>1. t.probation = MinSequential
    BY <1>3 DEF Started, Anchored
  <2>2. Observe(u, seq) = [tracker |-> Probed(t, seq), dropped |-> FALSE]
    BY <2>1 DEF Observe, MinSequential
  <2>3. t = [Anchored(seq) EXCEPT !.max = (seq - 1) % SeqMod, !.probation = MinSequential]
    BY <1>3 DEF Started
  <2>4. Probed(t, seq).probation = 1
    BY <2>1, <2>3 DEF Probed, Anchored, MinSequential
  <2> QED BY <2>2, <2>4
<1>4. CASE u.init /\ u.probation > 0
  <2>1. Observe(u, seq) = [tracker |-> Probed(u, seq), dropped |-> FALSE]
    BY <1>4 DEF Observe, Started
  <2>2. v = Probed(u, seq) /\ ~dropped
    BY <2>1
  <2>3. CASE seq # (u.max + 1) % SeqMod
    BY <2>2, <2>3 DEF Probed, MinSequential, Tracker
  <2>4. CASE seq = (u.max + 1) % SeqMod /\ u.probation = 1
    <3>1. v = Anchored(seq)
      BY <2>2, <2>4 DEF Probed
    <3>2. v # u
      BY <2>4, <3>1 DEF Anchored
    <3> QED BY <1>4, <2>2, <3>1, <3>2
  <2>5. CASE seq = (u.max + 1) % SeqMod /\ u.probation # 1
    <3>1. u.probation = 2
      BY <1>4, <2>5 DEF Tracker, MinSequential
    <3>2. v = [u EXCEPT !.probation = @ - 1, !.max = seq]
      BY <2>2, <2>5 DEF Probed
    <3> QED BY <3>1, <3>2 DEF Tracker
  <2> QED BY <2>3, <2>4, <2>5
<1>5. CASE u.init /\ u.probation = 0
  <2>1. Started(u, seq) = u
    BY <1>5 DEF Started
  <2>2. CASE delta < MaxDropout
    <3>1. ~(delta >= MaxDropout)
      BY <1>1, <1>2, <2>2
    <3>2. Observe(u, seq) =
             [tracker |-> [u EXCEPT !.max = seq,
                                    !.cycles = IF Wraps(u, seq) THEN @ + SeqMod ELSE @],
              dropped |-> FALSE]
      BY <1>5, <2>1, <2>2, <3>1 DEF Observe
    <3> QED BY <1>5, <2>2, <3>2
  <2>3. CASE delta >= MaxDropout /\ delta > SeqMod - MaxMisorder
    <3>1. ~(delta < MaxDropout)
      BY <1>1, <1>2, <2>3
    <3>2. Observe(u, seq) = [tracker |-> u, dropped |-> FALSE]
      BY <1>5, <2>1, <2>3, <3>1 DEF Observe
    <3> QED BY <1>5, <2>3, <3>2
  <2>4. CASE ~(delta < MaxDropout) /\ ~(delta >= MaxDropout /\ delta > SeqMod - MaxMisorder)
    <3>1. Observe(u, seq) = IF seq = u.bad THEN [tracker |-> Anchored(seq), dropped |-> FALSE]
                            ELSE [tracker |-> [u EXCEPT !.bad = (seq + 1) % SeqMod],
                                  dropped |-> TRUE]
      BY <1>5, <2>1, <2>4 DEF Observe
    <3>2. CASE seq = u.bad
      <4>1. v = Anchored(seq) /\ ~dropped
        BY <3>1, <3>2
      <4>2. v # u
        BY <1>1, <3>2, <4>1 DEF Anchored
      <4> QED BY <1>5, <4>1, <4>2
    <3>3. CASE seq # u.bad
      BY <1>5, <3>1, <3>3
    <3> QED BY <3>2, <3>3
  <2> QED BY <2>2, <2>3, <2>4
<1> QED BY <1>3, <1>4, <1>5 DEF Tracker, MinSequential

\* The tracker counts the packets of the stream it is anchored in: its last number is that of
\* the newest packet, and its distance from the base is right.
Counts ==
    /\ hist.newest < sent[hist.of]
    /\ tracker.max = Wire([stream |-> hist.of, n |-> hist.newest])
    /\ tracker.cycles + tracker.max - tracker.base = hist.newest - hist.anchor

Counted ==
    /\ \A s \in Stream : sent[s] <= MaxSent
    /\ tracker.init /\ tracker.probation = 0 /\ ~hist.mixed => Counts

LEMMA CountedInit == Init => Counted
<1>1. ASSUME NEW s \in Stream, Init PROVE sent[s] <= MaxSent
  BY <1>1, RtpAssumption DEF Init
<1> QED BY <1>1 DEF Counted, Init, Idle

\* What the packets of a stream look like to a tracker that counts them.
LEMMA DeltaOf ==
  ASSUME Inv, Counted, Separable, NEW s \in Stream, hist.newest < sent[s],
         NEW q \in Packet, q.n < sent[q.stream], q.n + Reach >= sent[q.stream], q.stream = s
  PROVE  LET m == Wire([stream |-> s, n |-> hist.newest])
             seq == Wire(q)
             delta == (seq - m) % SeqMod
         IN  /\ q.n >= hist.newest =>
                   /\ delta <= SeqMod - MaxMisorder
                   /\ (IF seq < m THEN SeqMod ELSE 0) + seq - m = q.n - hist.newest
             /\ q.n < hist.newest => delta >= MaxDropout
<1> DEFINE m == Wire([stream |-> s, n |-> hist.newest])
           seq == Wire(q)
           delta == (seq - m) % SeqMod
<1>1. /\ SeqMod \in Nat \ {0} /\ MaxDropout \in Nat /\ MaxMisorder \in Nat /\ MaxSent \in Nat
      /\ Reach \in Nat /\ hist.newest \in Nat /\ q.n \in Nat /\ q.stream \in Stream
      /\ sent[s] \in Nat /\ sent[s] <= MaxSent
  BY RtpAssumption DEF Inv, TypeOK, Packet, Counted
<1>2. setup.first[s] \in 0 .. SeqMod - 1
  BY RtpAssumption DEF Inv, TypeOK, Seq16
<1>3. /\ m = (setup.first[s] + hist.newest) % SeqMod
      /\ seq = (setup.first[s] + q.n) % SeqMod
  BY DEF Wire
<1>4. /\ hist.newest \in 0 .. SeqMod - 1 /\ q.n \in 0 .. SeqMod - 1
      /\ hist.newest - q.n <= MaxSent - 1 /\ q.n - hist.newest <= MaxSent - 1
  BY <1>1 DEF Separable
<1>5. /\ q.n >= hist.newest => /\ delta = q.n - hist.newest
                               /\ (IF seq < m THEN SeqMod ELSE 0) + seq - m = q.n - hist.newest
      /\ q.n < hist.newest => delta = SeqMod + q.n - hist.newest
  <2> DEFINE f == setup.first[s]
             i == hist.newest
             j == q.n
  <2>1. /\ f \in 0 .. SeqMod - 1 /\ i \in 0 .. SeqMod - 1 /\ j \in 0 .. SeqMod - 1
        /\ SeqMod \in Nat \ {0} /\ m = (f + i) % SeqMod /\ seq = (f + j) % SeqMod
    BY <1>1, <1>2, <1>3, <1>4
  <2> HIDE DEF f, i, j, m, seq
  <2>2. /\ j >= i => /\ delta = j - i
                     /\ (IF seq < m THEN SeqMod ELSE 0) + seq - m = j - i
        /\ j < i => delta = SeqMod + j - i
    BY <2>1, WireStep
  <2> QED BY <2>2 DEF i, j
<1>6. SeqMod - MaxMisorder >= MaxSent /\ Reach <= MaxMisorder /\ SeqMod - MaxMisorder >= MaxDropout
  BY <1>1 DEF Separable
<1>7. hist.newest - q.n <= Reach - 1
  BY <1>1
<1> HIDE DEF delta, m, seq
<1>8. q.n >= hist.newest => delta <= SeqMod - MaxMisorder
  BY <1>1, <1>4, <1>5, <1>6
<1>9. q.n < hist.newest => delta >= MaxDropout
  BY <1>1, <1>5, <1>6, <1>7
<1> QED BY <1>5, <1>8, <1>9 DEF delta, m, seq

LEMMA DispatchCounted ==
  ASSUME Inv, Counted, Separable, NEW q \in Packet, Dispatch(q),
         q.n < sent[q.stream], q.n + Reach >= sent[q.stream], UNCHANGED <<setup, sent>>
  PROVE  Counted'
<1> DEFINE v == CheckSsrcPin(setup.ssrc[q.stream])
           change == v.what = "change"
           seq == Wire(q)
           u == IF change THEN Idle ELSE tracker
           t == Observe(u, seq)
           anchors == t.tracker.base = seq /\ t.tracker # tracker /\ t.tracker = Anchored(seq)
<1>1. /\ pin' = v.pin
      /\ v.what = "drop" => UNCHANGED <<tracker, hist>>
      /\ v.what # "drop" => tracker' = t.tracker
      /\ v.what # "drop" /\ t.dropped => hist' = hist
      /\ v.what # "drop" /\ ~t.dropped =>
            /\ hist'.anchor = IF anchors THEN q.n ELSE hist.anchor
            /\ hist'.newest = IF anchors \/ q.n > hist.newest THEN q.n ELSE hist.newest
            /\ hist'.of = IF anchors THEN q.stream ELSE hist.of
            /\ ~hist'.mixed /\ ~anchors =>
                  ~hist.mixed /\ (t.tracker.probation = 0 => q.stream = hist.of)
  <2> DEFINE x == t.tracker.cycles + seq
             b0 == IF change /\ Clears
                   THEN [buf |-> {}, expected |-> x, out |-> {}, lost |-> {}]
                   ELSE [buf |-> buf, expected |-> IF cursor.have THEN cursor.expected ELSE x,
                         out |-> out, lost |-> lost]
             mistakes == ~anchors /\ t.tracker.probation = 0 /\ q.stream # hist.of
             mixes == mistakes \/ (hist.mixed /\ ~anchors)
             strays == mistakes \/ Astray(b0.buf \cup b0.out, q)
                       \/ (hist.astray /\ ~(change /\ Clears))
             h == [of |-> IF anchors THEN q.stream ELSE hist.of,
                   anchor |-> IF anchors THEN q.n ELSE hist.anchor,
                   newest |-> IF anchors \/ q.n > hist.newest THEN q.n ELSE hist.newest,
                   mixed |-> mixes, astray |-> strays]
  <2>1. /\ pin' = v.pin
        /\ v.what = "drop" => UNCHANGED <<tracker, hist>>
        /\ v.what # "drop" => tracker' = t.tracker
        /\ v.what # "drop" /\ t.dropped => hist' = hist
        /\ v.what # "drop" /\ ~t.dropped => hist' = h
    BY DEF Dispatch
  <2>2. /\ h.anchor = IF anchors THEN q.n ELSE hist.anchor
        /\ h.newest = IF anchors \/ q.n > hist.newest THEN q.n ELSE hist.newest
        /\ h.of = IF anchors THEN q.stream ELSE hist.of
        /\ h.mixed = mixes
    <3> HIDE DEF anchors, strays, mixes
    <3> QED OBVIOUS
  <2>3. ~mixes /\ ~anchors => ~hist.mixed /\ (t.tracker.probation = 0 => q.stream = hist.of)
    OBVIOUS
  <2> HIDE DEF h, anchors, mixes, v, t
  <2> QED BY <2>1, <2>2, <2>3
<1>2. /\ setup' = setup /\ sent' = sent /\ q.stream \in Stream /\ q.n \in Nat
      /\ setup.ssrc[q.stream] \in Ssrc
      /\ SeqMod \in Nat /\ MaxDropout \in Nat /\ MaxMisorder \in Nat
      /\ hist.newest \in Nat /\ hist.anchor \in Nat /\ hist.of \in Stream
      /\ tracker.max \in Nat /\ tracker.base \in Nat /\ tracker.cycles \in Nat
  BY RtpAssumption DEF Inv, TypeOK, Packet, Seq16
<1>3. seq \in Seq16 /\ seq \in Nat /\ tracker \in Tracker /\ Idle \in Tracker
  <2>1. setup.first \in [Stream -> Nat]
    BY RtpAssumption DEF Inv, TypeOK, Seq16
  <2>2. setup.first[q.stream] \in Nat
    BY <1>2, <2>1
  <2>3. Wire(q) \in Seq16
    BY <1>2, <2>2, Modulo DEF Wire
  <2>4. Idle \in Tracker /\ tracker \in Tracker
    BY RtpAssumption DEF Inv, TypeOK, Idle, Tracker, Seq16, MinSequential
  <2> QED BY <2>3, <2>4, RtpAssumption DEF Seq16
<1>4. /\ v.what \in {"take", "drop", "change"}
      /\ v.what = "take" => v.pin.ssrc = setup.ssrc[q.stream]
                            /\ (pin.pinned => pin.ssrc = setup.ssrc[q.stream])
      /\ v.what = "drop" => v.pin.ssrc = pin.ssrc
      /\ v.pin.pinned
  BY <1>2, PinType DEF Inv
<1>5. u \in Tracker
  BY <1>3
<1>6. \/ t.tracker.probation > 0
      \/ t.tracker = Anchored(seq) /\ t.tracker # u /\ ~t.dropped /\ u.init
      \/ /\ u.init /\ u.probation = 0 /\ (seq - u.max) % SeqMod < MaxDropout /\ ~t.dropped
         /\ t.tracker = [u EXCEPT !.max = seq,
                                  !.cycles = IF Wraps(u, seq) THEN @ + SeqMod ELSE @]
      \/ /\ u.init /\ u.probation = 0 /\ (seq - u.max) % SeqMod > SeqMod - MaxMisorder
         /\ t.tracker = u /\ ~t.dropped
      \/ /\ u.init /\ u.probation = 0 /\ t.dropped
         /\ t.tracker = [u EXCEPT !.bad = (seq + 1) % SeqMod]
  <2> HIDE DEF u, seq
  <2> QED BY <1>3, <1>5, ObserveCases
<1>7. /\ ~Idle.init
      /\ change => u = Idle
      /\ ~change => u = tracker
  BY DEF Idle
<1> HIDE DEF v, t, u
<1>8. ASSUME v.what # "drop", ~t.dropped, anchors PROVE Counts'
  <2>1. hist'.anchor = q.n /\ hist'.newest = q.n /\ hist'.of = q.stream
    BY <1>1, <1>8
  <2>2. tracker'.max = seq /\ tracker'.base = seq /\ tracker'.cycles = 0
    BY <1>1, <1>8 DEF Anchored
  <2>3. Wire([stream |-> hist.of, n |-> hist.newest])' = seq
    BY <1>2, <2>1 DEF Wire
  <2> HIDE DEF seq
  <2> QED BY <1>2, <1>3, <2>1, <2>2, <2>3 DEF Counts
<1>9. ASSUME v.what # "drop", tracker'.init, tracker'.probation = 0, ~hist'.mixed
      PROVE  Counts'
  <2>1. t.tracker = tracker' /\ ~(t.tracker.probation > 0) /\ t.tracker.probation = 0
    BY <1>1, <1>9
  <2>2. u.init /\ u = tracker
    BY <1>6, <1>7, <2>1
  <2>3. CASE t.tracker = Anchored(seq) /\ t.tracker # u /\ ~t.dropped
    <3>1. anchors
      BY <2>2, <2>3 DEF Anchored
    <3> QED BY <1>8, <1>9, <2>3, <3>1
  <2>4. ASSUME tracker.probation = 0, ~hist.mixed
        PROVE  /\ hist.newest < sent[hist.of]
               /\ tracker.max = Wire([stream |-> hist.of, n |-> hist.newest])
               /\ tracker.cycles + tracker.max - tracker.base = hist.newest - hist.anchor
    BY <2>2, <2>4 DEF Counted, Counts
  <2>5. ASSUME hist'.of = hist.of, hist'.newest < sent[hist.of],
               tracker'.max = Wire([stream |-> hist.of, n |-> hist'.newest]),
               tracker'.cycles + tracker'.max - tracker'.base = hist'.newest - hist'.anchor
        PROVE  Counts'
    <3>1. Wire([stream |-> hist.of, n |-> hist.newest])'
          = Wire([stream |-> hist.of, n |-> hist'.newest])
      BY <1>2, <2>5 DEF Wire
    <3> QED BY <1>2, <2>5, <3>1 DEF Counts
  <2>6. CASE /\ u.probation = 0 /\ (seq - u.max) % SeqMod < MaxDropout /\ ~t.dropped
             /\ t.tracker = [u EXCEPT !.max = seq,
                                      !.cycles = IF Wraps(u, seq) THEN @ + SeqMod ELSE @]
    <3>1. CASE anchors
      BY <1>8, <1>9, <2>6, <3>1
    <3>2. CASE ~anchors
      <4>1. ~hist.mixed /\ q.stream = hist.of
        BY <1>1, <1>9, <2>1, <2>6, <3>2
      <4>2. /\ hist.newest < sent[hist.of]
            /\ tracker.max = Wire([stream |-> hist.of, n |-> hist.newest])
            /\ tracker.cycles + tracker.max - tracker.base = hist.newest - hist.anchor
        BY <2>2, <2>4, <2>6, <4>1
      <4> DEFINE delta == (seq - tracker.max) % SeqMod
      <4>3. /\ q.n >= hist.newest =>
                  (IF seq < tracker.max THEN SeqMod ELSE 0) + seq - tracker.max = q.n - hist.newest
            /\ q.n < hist.newest => delta >= MaxDropout
        BY <1>2, <4>1, <4>2, DeltaOf
      <4>4. delta < MaxDropout /\ delta \in Nat
        BY <1>2, <1>3, <2>2, <2>6, Modulo DEF Seq16
      <4> HIDE DEF delta, seq, anchors
      <4>5. q.n >= hist.newest
        BY <1>2, <4>3, <4>4
      <4>6. hist'.anchor = hist.anchor /\ hist'.newest = q.n /\ hist'.of = hist.of
        BY <1>1, <1>2, <1>9, <2>6, <3>2, <4>5
      <4>7. /\ tracker'.max = seq /\ tracker'.base = tracker.base
            /\ tracker'.cycles = tracker.cycles + (IF seq < tracker.max THEN SeqMod ELSE 0)
        BY <1>2, <1>3, <2>1, <2>2, <2>6 DEF Tracker, Wraps
      <4>8. tracker'.cycles + tracker'.max - tracker'.base = hist'.newest - hist'.anchor
        BY <1>2, <1>3, <4>2, <4>3, <4>5, <4>6, <4>7
      <4>9. seq = Wire([stream |-> hist.of, n |-> hist'.newest])
        BY <4>1, <4>6 DEF seq, Wire
      <4> QED BY <2>5, <4>1, <4>6, <4>7, <4>8, <4>9
    <3> QED BY <3>1, <3>2
  <2>7. CASE /\ u.probation = 0 /\ (seq - u.max) % SeqMod > SeqMod - MaxMisorder
             /\ t.tracker = u /\ ~t.dropped
    <3>1. ~anchors
      BY <2>2, <2>7
    <3>2. ~hist.mixed /\ q.stream = hist.of
      BY <1>1, <1>9, <2>1, <2>7, <3>1
    <3>3. /\ hist.newest < sent[hist.of]
          /\ tracker.max = Wire([stream |-> hist.of, n |-> hist.newest])
          /\ tracker.cycles + tracker.max - tracker.base = hist.newest - hist.anchor
      BY <2>2, <2>4, <2>7, <3>2
    <3> DEFINE delta == (seq - tracker.max) % SeqMod
    <3>4. q.n >= hist.newest => delta <= SeqMod - MaxMisorder
      BY <1>2, <3>2, <3>3, DeltaOf
    <3>5. delta > SeqMod - MaxMisorder /\ delta \in Nat
      BY <1>2, <1>3, <2>2, <2>7, Modulo DEF Seq16
    <3> HIDE DEF delta, seq
    <3>6. ~(q.n > hist.newest)
      BY <1>2, <3>4, <3>5
    <3>7. /\ hist'.anchor = hist.anchor /\ hist'.newest = hist.newest /\ hist'.of = hist.of
          /\ tracker' = tracker
      BY <1>1, <1>9, <2>1, <2>2, <2>7, <3>1, <3>6
    <3> QED BY <2>5, <3>3, <3>7
  <2>8. CASE /\ u.probation = 0 /\ t.dropped
             /\ t.tracker = [u EXCEPT !.bad = (seq + 1) % SeqMod]
    <3>1. hist' = hist /\ tracker'.max = tracker.max /\ tracker'.base = tracker.base
          /\ tracker'.cycles = tracker.cycles
      BY <1>1, <1>3, <1>9, <2>1, <2>2, <2>8 DEF Tracker
    <3>2. /\ hist.newest < sent[hist.of]
          /\ tracker.max = Wire([stream |-> hist.of, n |-> hist.newest])
          /\ tracker.cycles + tracker.max - tracker.base = hist.newest - hist.anchor
      BY <1>9, <2>2, <2>4, <2>8, <3>1
    <3> QED BY <2>5, <3>1, <3>2
  <2> HIDE DEF seq
  <2> QED BY <1>6, <2>1, <2>3, <2>6, <2>7, <2>8
<1>10. ASSUME v.what = "drop", tracker'.init, tracker'.probation = 0, ~hist'.mixed
       PROVE  Counts'
  <2>1. tracker' = tracker /\ hist' = hist
    BY <1>1, <1>10
  <2>2. Counts
    BY <1>10, <2>1 DEF Counted
  <2> QED BY <1>2, <2>1, <2>2 DEF Counts, Wire
<1> QED BY <1>2, <1>9, <1>10 DEF Counted

LEMMA CountedStep ==
  ASSUME Separable, Inv, Counted, [Next]_vars
  PROVE  Counted'
<1>1. ASSUME sent' \in [Stream -> Nat], \A s \in Stream : sent[s] <= sent'[s] /\ sent'[s] <= MaxSent,
             UNCHANGED <<setup, tracker, hist>>
      PROVE  Counted'
  <2>1. ASSUME Counts PROVE Counts'
    <3>1. Wire([stream |-> hist.of, n |-> hist.newest])' = Wire([stream |-> hist.of, n |-> hist.newest])
      BY <1>1 DEF Wire
    <3>2. hist.newest < sent'[hist.of]
      BY <1>1, <2>1 DEF Counts, Inv, TypeOK
    <3> QED BY <1>1, <2>1, <3>1, <3>2 DEF Counts
  <2> QED BY <1>1, <2>1 DEF Counted
<1>2. sent \in [Stream -> Nat] /\ MaxSent \in Nat /\ \A s \in Stream : sent[s] <= MaxSent
  BY RtpAssumption DEF Inv, TypeOK, Counted
<1>3. ASSUME NEW s \in Stream, Send(s) PROVE Counted'
  <2>1. /\ sent[s] < MaxSent /\ sent' = [sent EXCEPT ![s] = @ + 1]
        /\ UNCHANGED <<setup, tracker, hist>>
    BY <1>3 DEF Send
  <2>2. sent' \in [Stream -> Nat] /\ \A r \in Stream : sent[r] <= sent'[r] /\ sent'[r] <= MaxSent
    BY <1>2, <2>1
  <2> QED BY <1>1, <2>1, <2>2
<1>4. ASSUME NEW s \in Stream, NEW n \in 0 .. MaxSent - 1, Arrive([stream |-> s, n |-> n])
      PROVE  Counted'
  <2> DEFINE q == [stream |-> s, n |-> n]
  <2>1. q \in Packet
    BY RtpAssumption DEF Packet
  <2>2. /\ q.n < sent[q.stream] /\ q.n + Reach >= sent[q.stream]
        /\ Dispatch(q) /\ UNCHANGED <<setup, sent>>
    BY <1>4 DEF Arrive
  <2> HIDE DEF q
  <2> QED BY <2>1, <2>2, DispatchCounted
<1>5. CASE Tick
  BY <1>1, <1>2, <1>5 DEF Tick
<1>6. CASE UNCHANGED vars
  BY <1>1, <1>2, <1>6 DEF vars
<1> QED BY <1>3, <1>4, <1>5, <1>6 DEF Next

\* rtpseqtracker.cpp: the extended highest sequence number is the newest packet's, over wraps,
\* gaps, repetitions, late packets, changes of SSRC and recognised restarts, as long as a late
\* packet and a gap can be told apart.
THEOREM RtpHighestTrue == ASSUME Separable PROVE Spec => []HighestTrue
<1>1. Counted => HighestTrue
  BY DEF Counted, Counts, HighestTrue
<1>2. Inv /\ Counted /\ [Next]_vars => Counted'
  BY CountedStep
<1> QED BY <1>1, <1>2, CountedInit, Invariance, PTL DEF Spec

-----------------------------------------------------------------------------
(* The order of the sender.                                                 *)

\* The packets of B are of the stream of o, and lie as far behind it in extended sequence
\* numbers as their sender put them.
InLine(B, o) ==
    \A e \in B : e.stream = o.stream /\ e.x >= o.x /\ e.x - o.x = e.n - o.n /\ e.n < MaxSent

\* One of B lies behind a wrap.
Crossed(B) == \E e \in B : e.x >= SeqMod

Held(b) == b.buf \cup b.out

\* A buffer in line with o, which was emitted.  The cursor is not alone behind a wrap.
LinedUp(b, o) ==
    /\ Sound(b) /\ o \in b.out /\ InLine(Held(b), o)
    /\ b.expected > SeqMod => Crossed(Held(b))

\* Emitting keeps a buffer in line.
LEMMA EmitLine ==
  ASSUME NEW b, NEW o, LinedUp(b, o), NEW E \in SUBSET b.buf, NEW F,
         \A e \in E, f \in b.buf \ E : e.x < f.x
  PROVE  LinedUp(Emit(b, E, F), o) /\ (Crossed(Held(b)) => Crossed(Held(Emit(b, E, F))))
<1> DEFINE c == Emit(b, E, F)
<1>1. Sound(b) /\ o \in b.out /\ InLine(Held(b), o) /\ SeqMod \in Nat
  BY RtpAssumption DEF LinedUp
<1>2. /\ Sound(c) /\ c.buf = b.buf \ E
      /\ c.expected = b.expected \/ \E e \in E : c.expected = e.x + 1
  <2>1. EmitsOnly(b, E, c)
    BY <1>1, EmitSound
  <2> QED BY <2>1 DEF EmitsOnly
<1>3. /\ b.out \subseteq c.out
      /\ \A p \in c.out : p \in b.out \/ \E e \in E : Same(p, e)
      /\ \A e \in E : e.x \in Keys(c.out)
  BY <1>1, EmitOut
<1> HIDE DEF c
<1>4. ASSUME NEW p \in Held(c) PROVE \E e \in Held(b) : Same(p, e)
  BY <1>2, <1>3 DEF Held, Same
<1>5. InLine(Held(c), o)
  BY <1>1, <1>4 DEF InLine, Same
<1>6. ASSUME NEW e \in Held(b) PROVE \E p \in Held(c) : p.x = e.x
  BY <1>2, <1>3 DEF Held, Keys
<1>7. Crossed(Held(b)) => Crossed(Held(c))
  BY <1>6 DEF Crossed
<1>8. ASSUME c.expected > SeqMod PROVE Crossed(Held(c))
  <2>1. CASE c.expected = b.expected
    BY <1>7, <1>8, <2>1 DEF LinedUp
  <2>2. CASE \E e \in E : c.expected = e.x + 1
    <3>1. PICK e \in E : c.expected = e.x + 1
      BY <2>2
    <3>2. e.x \in Nat /\ e \in Held(b)
      BY <1>1, SoundNumbers DEF Held
    <3>3. e.x >= SeqMod
      BY <1>1, <1>8, <3>1, <3>2
    <3> QED BY <1>7, <3>2, <3>3 DEF Crossed
  <2> QED BY <1>2, <2>1, <2>2
<1> QED BY <1>1, <1>2, <1>3, <1>5, <1>7, <1>8 DEF LinedUp, c

LEMMA DrainedLine ==
  ASSUME NEW b, NEW o, LinedUp(b, o)
  PROVE  LinedUp(Drained(b), o) /\ (Crossed(Held(b)) => Crossed(Held(Drained(b))))
<1> DEFINE E == {e \in b.buf : /\ e.x >= b.expected
                              /\ b.expected .. e.x \subseteq Keys(b.buf)
                              /\ \A f \in b.buf : f.x >= b.expected}
<1>1. b.expected \in Nat /\ \A e \in b.buf : e.x \in Nat
  BY SoundNumbers DEF LinedUp
<1>2. Drained(b) = Emit(b, E, {})
  BY DEF Drained
<1>3. \A e \in E, f \in b.buf \ E : e.x < f.x
  <2> SUFFICES ASSUME NEW e \in E, NEW f \in b.buf \ E, ~(e.x < f.x) PROVE FALSE
    OBVIOUS
  <2>1. f.x >= b.expected /\ f.x <= e.x
    BY <1>1
  <2>2. b.expected .. f.x \subseteq b.expected .. e.x
    BY <1>1, <2>1
  <2> QED BY <2>1, <2>2
<1>4. E \in SUBSET b.buf
  OBVIOUS
<1> HIDE DEF E
<1> QED BY <1>2, <1>3, <1>4, EmitLine

LEMMA OverdueLine ==
  ASSUME NEW b, NEW o, LinedUp(b, o)
  PROVE  LinedUp(Overdue(b), o) /\ (Crossed(Held(b)) => Crossed(Held(Overdue(b))))
<1> DEFINE E == {e \in b.buf : \A f \in Starts(b) : f.x <= e.x => f.age >= setup.delay}
           F == E \cap Starts(b)
<1>1. CASE setup.delay = 0
  BY <1>1 DEF Overdue
<1>2. CASE setup.delay # 0
  <2>1. Overdue(b) = Emit(b, E, F)
    BY <1>2 DEF Overdue
  <2>2. Starts(b) \subseteq b.buf /\ \A e \in b.buf : e.x \in Nat
    BY SoundNumbers DEF LinedUp, Starts
  <2>3. \A e \in E, f \in b.buf \ E : e.x < f.x
    BY <2>2
  <2>4. E \in SUBSET b.buf
    OBVIOUS
  <2> HIDE DEF E, F
  <2> QED BY <2>1, <2>3, <2>4, EmitLine
<1> QED BY <1>1, <1>2

\* Making room evicts one packet at most, and the cursor moves no further than behind it.
LEMMA RoomTakes ==
  ASSUME NEW b, Sound(b), Cardinality(b.buf) <= MaxWindow
  PROVE  LET c == MadeRoom(b) IN
         \/ c = b
         \/ \E h \in b.buf : /\ c.buf = b.buf \ {h} /\ c.out = b.out
                             /\ c.expected = b.expected \/ c.expected = h.x + 1
<1> DEFINE c == MadeRoom(b)
           h == HeadOf(b.buf)
<1>1. CASE Cardinality(b.buf) < MaxWindow
  BY <1>1 DEF MadeRoom
<1>2. CASE ~(Cardinality(b.buf) < MaxWindow)
  <2>1. c = [b EXCEPT !.buf = @ \ {h}, !.lost = @ \cup {h.x},
                      !.expected = IF h.x >= @ THEN h.x + 1 ELSE @]
    BY <1>2 DEF MadeRoom
  <2>2. b.buf # {}
    <3>1. MaxWindow \in Nat \ {0} /\ Cardinality({}) = 0
      BY RtpAssumption, FS_EmptySet
    <3> QED BY <1>2, <3>1
  <2>3. h \in b.buf
    <3>1. Keys(b.buf) \in SUBSET Nat /\ Keys(b.buf) # {}
      BY <2>2 DEF Keys, Sound, State, Entry
    <3>2. PICK m \in Keys(b.buf) : \A n \in Keys(b.buf) : m <= n
      BY <3>1, LeastElement
    <3>3. \E e \in b.buf : \A f \in b.buf : e.x <= f.x
      BY <3>2 DEF Keys
    <3> QED BY <3>3 DEF HeadOf
  <2> HIDE DEF h, c
  <2>4. /\ c.buf = b.buf \ {h} /\ c.out = b.out
        /\ c.expected = IF h.x >= b.expected THEN h.x + 1 ELSE b.expected
    BY <2>1 DEF Sound, State
  <2> QED BY <2>3, <2>4 DEF c
<1> QED BY <1>1, <1>2

\* A buffer with room and one packet more.
LEMMA AddedSound ==
  ASSUME NEW b, Sound(b), Cardinality(b.buf) <= MaxWindow, NEW q \in Packet, NEW x \in Nat,
         ~Duplicate(b, x)
  PROVE  LET e == [x |-> x, stream |-> q.stream, n |-> q.n, age |-> 0]
             i == [MadeRoom(b) EXCEPT !.buf = @ \cup {e}]
         IN  /\ Sound(i) /\ i.buf = MadeRoom(b).buf \cup {e}
             /\ i.out = MadeRoom(b).out /\ i.expected = MadeRoom(b).expected
<1> DEFINE r == MadeRoom(b)
           e == [x |-> x, stream |-> q.stream, n |-> q.n, age |-> 0]
           i == [r EXCEPT !.buf = @ \cup {e}]
<1>1. e \in Entry /\ e.x = x
  BY DEF Entry, Packet
<1>2. Sound(r) /\ r.out = b.out /\ r.buf \subseteq b.buf
  BY RoomSound DEF Within
<1>3. x >= b.expected /\ x \notin Keys(b.buf) /\ b.expected \in Nat
      /\ \A o \in b.out : o.x \in Nat /\ o.x < b.expected
  BY SoundNumbers DEF Duplicate, Sound
<1> HIDE DEF r, e
<1>4. r \in State
  BY <1>2, SoundNumbers
<1>5. i.buf = r.buf \cup {e} /\ i.expected = r.expected /\ i.out = r.out /\ i.lost = r.lost
  BY <1>4 DEF State
<1>6. i \in State
  <2>1. r.buf \cup {e} \in SUBSET Entry
    BY <1>1, <1>4 DEF State
  <2> QED BY <1>4, <2>1 DEF State
<1> HIDE DEF i
<1>7. IsFiniteSet(i.buf)
  BY <1>2, <1>5, FS_AddElement DEF Sound
<1>8. \A f, g \in i.buf : f.x = g.x => f = g
  <2>1. \A f \in r.buf : f.x # x
    BY <1>2, <1>3 DEF Keys
  <2> QED BY <1>1, <1>2, <1>5, <2>1 DEF Sound
<1>9. \A o \in i.out : o.x < i.expected /\ \A f \in i.buf : o.x < f.x
  <2>1. \A o \in r.out : o.x < r.expected /\ \A f \in r.buf : o.x < f.x
    BY <1>2 DEF Sound
  <2>2. \A o \in r.out : o.x < x
    BY <1>2, <1>3
  <2> QED BY <1>1, <1>5, <2>1, <2>2
<1>10. Sound(i)
  BY <1>6, <1>7, <1>8, <1>9 DEF Sound
<1> QED BY <1>5, <1>10 DEF i, r, e

\* insert() keeps a buffer in line if the packet is a duplicate, or fits in and does not take
\* the place of one that is ahead of it by a wrap.
LEMMA InsertLine ==
  ASSUME NEW b, NEW o, LinedUp(b, o), Cardinality(b.buf) <= MaxWindow,
         NEW q \in Packet, NEW x \in Nat,
         ~Duplicate(b, x) => /\ q.stream = o.stream /\ q.n < MaxSent
                             /\ x >= o.x /\ x - o.x = q.n - o.n
                             /\ x < SeqMod => \A e \in b.buf : e.x < SeqMod
  PROVE  /\ LinedUp(Insert(b, q, x), o)
         /\ x >= SeqMod \/ Crossed(Held(b)) => Crossed(Held(Insert(b, q, x)))
<1>0. Sound(b) /\ o \in b.out /\ InLine(Held(b), o) /\ SeqMod \in Nat /\ b.expected \in Nat
      /\ \A e \in b.buf : e.x \in Nat
  BY SoundNumbers, RtpAssumption DEF LinedUp
<1>1. CASE Duplicate(b, x)
  <2>1. Insert(b, q, x) = b
    BY <1>1 DEF Insert
  <2>2. ASSUME x >= SeqMod PROVE Crossed(Held(b))
    <3>1. CASE x < b.expected
      BY <1>0, <2>2, <3>1 DEF LinedUp
    <3>2. CASE x \in Keys(b.buf)
      BY <2>2, <3>2 DEF Keys, Held, Crossed
    <3> QED BY <1>1, <3>1, <3>2 DEF Duplicate
  <2> QED BY <2>1, <2>2
<1>2. CASE ~Duplicate(b, x)
  <2> DEFINE r == MadeRoom(b)
             e == [x |-> x, stream |-> q.stream, n |-> q.n, age |-> 0]
             i == [r EXCEPT !.buf = @ \cup {e}]
  <2>1. Insert(b, q, x) = Overdue(Drained(i))
    BY <1>2 DEF Insert
  <2>2. Sound(i) /\ i.buf = r.buf \cup {e} /\ i.out = r.out /\ i.expected = r.expected
    BY <1>0, <1>2, AddedSound
  <2>3. \/ r = b
        \/ \E h \in b.buf : /\ r.buf = b.buf \ {h} /\ r.out = b.out
                            /\ r.expected = b.expected \/ r.expected = h.x + 1
    BY <1>0, RoomTakes
  <2>4. e.x = x /\ e.stream = q.stream /\ e.n = q.n
    OBVIOUS
  <2> HIDE DEF r, e, i
  <2>5. Held(i) \subseteq Held(b) \cup {e} /\ o \in i.out /\ e \in Held(i)
    BY <1>0, <2>2, <2>3 DEF Held
  <2>6. InLine(Held(i), o)
    BY <1>0, <1>2, <2>4, <2>5 DEF InLine
  <2>7. x >= SeqMod => Crossed(Held(i))
    BY <2>4, <2>5 DEF Crossed
  <2>8. ASSUME Crossed(Held(b)) PROVE Crossed(Held(i))
    <3>1. CASE x >= SeqMod
      BY <2>7, <3>1
    <3>2. CASE x < SeqMod
      <4>1. PICK p \in Held(b) : p.x >= SeqMod
        BY <2>8 DEF Crossed
      <4>2. \A f \in b.buf : ~(f.x >= SeqMod)
        BY <1>0, <1>2, <3>2
      <4>3. p \in b.out
        BY <4>1, <4>2 DEF Held
      <4>4. p \in Held(i)
        BY <2>2, <2>3, <4>3 DEF Held
      <4> QED BY <4>1, <4>4 DEF Crossed
    <3> QED BY <1>0, <3>1, <3>2
  <2>9. ASSUME i.expected > SeqMod PROVE Crossed(Held(i))
    <3>1. CASE i.expected = b.expected
      BY <2>8, <2>9, <3>1 DEF LinedUp
    <3>2. ASSUME NEW h \in b.buf, i.expected = h.x + 1 PROVE Crossed(Held(i))
      <4>1. h.x >= SeqMod /\ h \in Held(b)
        BY <1>0, <2>9, <3>2 DEF Held
      <4> QED BY <2>8, <4>1 DEF Crossed
    <3> QED BY <2>2, <2>3, <3>1, <3>2
  <2>10. LinedUp(i, o)
    BY <2>2, <2>5, <2>6, <2>9 DEF LinedUp
  <2>11. LinedUp(Drained(i), o) /\ (Crossed(Held(i)) => Crossed(Held(Drained(i))))
    BY <2>10, DrainedLine
  <2> DEFINE d == Drained(i)
  <2> HIDE DEF d
  <2>12. LinedUp(d, o) /\ (Crossed(Held(i)) => Crossed(Held(d)))
    BY <2>11 DEF d
  <2>13. LinedUp(Overdue(d), o) /\ (Crossed(Held(d)) => Crossed(Held(Overdue(d))))
    BY <2>12, OverdueLine
  <2> QED BY <2>1, <2>7, <2>8, <2>12, <2>13 DEF d
<1> QED BY <1>1, <1>2

\* Numbers i and j of a stream that is shorter than a cycle, on the wire a and b: these differ
\* as in the stream, or by a cycle more or less, as one lies before and the other behind a wrap.
Apart(i, a, j, b) ==
    /\ a \in 0 .. SeqMod - 1 /\ b \in 0 .. SeqMod - 1
    /\ i - j < SeqMod /\ j - i < SeqMod
    /\ j >= i => b - a = j - i \/ b - a = j - i - SeqMod
    /\ j < i => b - a = j - i \/ b - a = j - i + SeqMod

LEMMA WireOf ==
  ASSUME Inv, Separable, NEW s \in Stream, NEW i \in Nat, NEW j \in Nat, i < MaxSent, j < MaxSent
  PROVE  Apart(i, Wire([stream |-> s, n |-> i]), j, Wire([stream |-> s, n |-> j]))
<1> DEFINE a == Wire([stream |-> s, n |-> i])
           b == Wire([stream |-> s, n |-> j])
           f == setup.first[s]
<1>1. /\ SeqMod \in Nat \ {0} /\ MaxSent \in Nat /\ MaxMisorder \in Nat
      /\ f \in 0 .. SeqMod - 1
  BY RtpAssumption DEF Inv, TypeOK, Seq16
<1>2. i \in 0 .. SeqMod - 1 /\ j \in 0 .. SeqMod - 1
  BY <1>1 DEF Separable
<1>3. a = (f + i) % SeqMod /\ b = (f + j) % SeqMod
  BY DEF Wire
<1>4. \A k \in 0 .. SeqMod - 1 : (f + k) % SeqMod = f + k \/ (f + k) % SeqMod = f + k - SeqMod
  <2> TAKE k \in 0 .. SeqMod - 1
  <2> HIDE DEF f
  <2>1. CASE f + k < SeqMod
    BY <1>1, <2>1, ModSmall
  <2>2. CASE ~(f + k < SeqMod)
    <3>1. f + k \in SeqMod .. 2 * SeqMod - 1
      BY <1>1, <2>2
    <3> QED BY <1>1, <3>1, ModUp
  <2> QED BY <2>1, <2>2
<1> HIDE DEF f, a, b
<1>5. f + i \in Int /\ f + j \in Int
  BY <1>1, <1>2
<1>6. a \in 0 .. SeqMod - 1 /\ b \in 0 .. SeqMod - 1
  BY <1>3, <1>5, Modulo DEF Seq16
<1>7. (a = f + i \/ a = f + i - SeqMod) /\ (b = f + j \/ b = f + j - SeqMod)
  BY <1>2, <1>3, <1>4
<1>8. b - a = j - i \/ b - a = j - i - SeqMod \/ b - a = j - i + SeqMod
  BY <1>1, <1>2, <1>6, <1>7
<1>9. i - j < SeqMod /\ j - i < SeqMod
  BY <1>1, <1>2
<1>10. /\ j >= i => b - a # j - i + SeqMod \/ (j = i /\ b - a = j - i)
       /\ j < i => b - a # j - i - SeqMod
  <2>1. j >= i => b - a # j - i + SeqMod
    BY <1>1, <1>2, <1>6
  <2>2. j < i => b - a # j - i - SeqMod
    BY <1>1, <1>2, <1>6
  <2> QED BY <2>1, <2>2
<1> QED BY <1>6, <1>8, <1>9, <1>10 DEF a, b, Apart

\* What observe() does in probation, and that it leaves the tracker initialised.
LEMMA ObserveProbation ==
  ASSUME NEW u \in Tracker, NEW seq \in Seq16
  PROVE  LET v == Observe(u, seq).tracker
             dropped == Observe(u, seq).dropped
         IN  /\ v.init
             /\ v.probation > 0 => ~dropped
             /\ ~u.init => v.probation > 0 /\ v.cycles = 0
             /\ u.init /\ v.probation > 0 => u.probation > 0 /\ v.cycles = u.cycles
<1> DEFINE v == Observe(u, seq).tracker
           dropped == Observe(u, seq).dropped
<1>1. SeqMod \in Nat \ {0}
  BY RtpAssumption
<1>2. CASE ~u.init
  <2> DEFINE t == Started(u, seq)
  <2>1. t = [Anchored(seq) EXCEPT !.max = (seq - 1) % SeqMod, !.probation = MinSequential]
    BY <1>2 DEF Started
  <2>2. t.probation = MinSequential /\ t.init /\ t.cycles = 0
    BY <2>1 DEF Anchored
  <2>3. Observe(u, seq) = [tracker |-> Probed(t, seq), dropped |-> FALSE]
    BY <2>2 DEF Observe, MinSequential
  <2>4. v = Probed(t, seq) /\ ~dropped
    BY <2>3
  <2>5. Probed(t, seq).probation = 1 /\ Probed(t, seq).init /\ Probed(t, seq).cycles = 0
    BY <2>1 DEF Probed, Anchored, MinSequential
  <2> HIDE DEF t
  <2> QED BY <1>2, <2>4, <2>5
<1>3. CASE u.init /\ u.probation > 0
  <2>1. Observe(u, seq) = [tracker |-> Probed(u, seq), dropped |-> FALSE]
    BY <1>3 DEF Observe, Started
  <2>2. v = Probed(u, seq) /\ ~dropped
    BY <2>1
  <2>3. Probed(u, seq).init /\ (Probed(u, seq).probation > 0 => Probed(u, seq).cycles = u.cycles)
    BY <1>3 DEF Probed, Tracker, Anchored
  <2> QED BY <1>3, <2>2, <2>3
<1>4. CASE u.init /\ ~(u.probation > 0)
  <2>1. u.probation = 0
    BY <1>4 DEF Tracker, MinSequential
  <2>2. Started(u, seq) = u
    BY <1>4 DEF Started
  <2> DEFINE forward == [u EXCEPT !.max = seq,
                                  !.cycles = IF Wraps(u, seq) THEN @ + SeqMod ELSE @]
             jump == [u EXCEPT !.bad = (seq + 1) % SeqMod]
  <2>3. v = Anchored(seq) \/ v = forward \/ v = u \/ v = jump
    <3>1. CASE (seq - u.max) % SeqMod < MaxDropout
      BY <2>1, <2>2, <3>1 DEF Observe
    <3>2. CASE ~((seq - u.max) % SeqMod < MaxDropout)
      BY <2>1, <2>2, <3>2 DEF Observe
    <3> QED BY <3>1, <3>2
  <2>4. /\ Anchored(seq).init /\ Anchored(seq).probation = 0
        /\ forward.init /\ forward.probation = 0 /\ jump.init /\ jump.probation = 0
    BY <1>4, <2>1 DEF Tracker, Anchored
  <2> HIDE DEF v, forward, jump
  <2>5. v.init /\ v.probation = 0
    BY <1>4, <2>1, <2>3, <2>4
  <2> QED BY <1>4, <2>5 DEF v
<1> QED BY <1>2, <1>3, <1>4

\* What dispatchToReceivers() does with a packet that the pin lets through and the tracker does
\* not drop: change and anchors say whether it brings in another SSRC and anchors the tracker.
Taken(q, t, x, b, change, anchors) ==
    /\ tracker' = t /\ x = t.cycles + Wire(q)
    /\ change \/ ~cursor.have => \E L \in SUBSET Nat :
          b = [buf |-> {}, expected |-> x, out |-> {}, lost |-> L]
    /\ ~change /\ cursor.have => b = Now
    /\ buf' = Insert(b, q, x).buf /\ out' = Insert(b, q, x).out
    /\ cursor'.have /\ cursor'.expected = Insert(b, q, x).expected
    /\ anchors <=> t = Anchored(Wire(q)) /\ t # tracker
    /\ hist'.of = IF anchors THEN q.stream ELSE hist.of
    /\ hist'.anchor = IF anchors THEN q.n ELSE hist.anchor
    /\ hist'.newest = IF anchors \/ q.n > hist.newest THEN q.n ELSE hist.newest
    /\ ~hist'.astray => /\ ~Astray(Held(b), q) /\ (change \/ ~hist.astray)
                        /\ ~anchors /\ t.probation = 0 => q.stream = hist.of
                        /\ hist'.mixed => ~anchors /\ hist.mixed

\* dispatchToReceivers() by its outcomes: the pin drops the packet, the tracker does, or
\* neither.
LEMMA DispatchForm ==
  ASSUME Inv, NEW q \in Packet, Dispatch(q)
  PROVE  \/ UNCHANGED <<tracker, buf, cursor, out, hist>>
         \/ \E change \in BOOLEAN :
               LET u == IF change THEN Idle ELSE tracker
                   t == Observe(u, Wire(q))
               IN  /\ ~change /\ cursor.have => setup.ssrc[q.stream] = pin.ssrc
                   /\ \/ t.dropped /\ tracker' = t.tracker /\ UNCHANGED <<buf, cursor, out, hist>>
                      \/ ~t.dropped /\ \E x, b : \E anchors \in BOOLEAN :
                                          Taken(q, t.tracker, x, b, change, anchors)
<1> DEFINE v == CheckSsrcPin(setup.ssrc[q.stream])
           change == v.what = "change"
           u == IF change THEN Idle ELSE tracker
           seq == Wire(q)
           t == Observe(u, seq)
           x == t.tracker.cycles + seq
           b == IF change /\ Clears
                THEN [buf |-> {}, expected |-> x, out |-> {}, lost |-> {}]
                ELSE [buf |-> buf, expected |-> IF cursor.have THEN cursor.expected ELSE x,
                      out |-> out, lost |-> lost]
           i == Insert(b, q, x)
           anchors == t.tracker.base = seq /\ t.tracker # tracker /\ t.tracker = Anchored(seq)
           mistakes == ~anchors /\ t.tracker.probation = 0 /\ q.stream # hist.of
           mixes == mistakes \/ (hist.mixed /\ ~anchors)
           strays == mistakes \/ Astray(b.buf \cup b.out, q)
                     \/ (hist.astray /\ ~(change /\ Clears))
           h == [of |-> IF anchors THEN q.stream ELSE hist.of,
                 anchor |-> IF anchors THEN q.n ELSE hist.anchor,
                 newest |-> IF anchors \/ q.n > hist.newest THEN q.n ELSE hist.newest,
                 mixed |-> mixes, astray |-> strays]
<1>1. /\ pin' = v.pin
      /\ v.what = "drop" => UNCHANGED <<tracker, buf, cursor, out, hist>>
      /\ v.what # "drop" => tracker' = t.tracker
      /\ v.what # "drop" /\ t.dropped => UNCHANGED <<buf, cursor, out, hist>>
      /\ v.what # "drop" /\ ~t.dropped =>
            /\ buf' = i.buf /\ out' = i.out /\ cursor' = [have |-> TRUE, expected |-> i.expected]
            /\ hist' = h
  BY DEF Dispatch
<1>2. v.what # "drop" /\ ~change /\ cursor.have => setup.ssrc[q.stream] = pin.ssrc
  <2>1. setup.ssrc[q.stream] \in Ssrc
    BY RtpAssumption DEF Inv, TypeOK, Packet
  <2>2. /\ v.what \in {"take", "drop", "change"}
        /\ v.what = "take" => (pin.pinned => pin.ssrc = setup.ssrc[q.stream])
    BY <2>1, PinType DEF Inv
  <2> HIDE DEF v
  <2> QED BY <2>2 DEF Inv
<1>3. /\ h.anchor = IF anchors THEN q.n ELSE hist.anchor
      /\ h.newest = IF anchors \/ q.n > hist.newest THEN q.n ELSE hist.newest
      /\ h.of = IF anchors THEN q.stream ELSE hist.of
      /\ h.mixed = mixes /\ h.astray = strays
  <2> HIDE DEF anchors, strays, mixes
  <2> QED OBVIOUS
<1>4. ~strays => /\ ~Astray(Held(b), q) /\ (change \/ ~hist.astray)
                 /\ ~anchors /\ t.tracker.probation = 0 => q.stream = hist.of
                 /\ mixes => ~anchors /\ hist.mixed
  <2>1. ~strays => ~mistakes /\ ~Astray(Held(b), q) /\ (change \/ ~hist.astray)
    BY DEF Clears, Held
  <2>2. mistakes = (~anchors /\ t.tracker.probation = 0 /\ q.stream # hist.of)
        /\ mixes = (mistakes \/ (hist.mixed /\ ~anchors))
    OBVIOUS
  <2> HIDE DEF strays, change, anchors, mistakes, mixes, t, b
  <2> QED BY <2>1, <2>2, Zenon
<1>5. anchors <=> t.tracker = Anchored(seq) /\ t.tracker # tracker
  BY DEF Anchored
<1>6. change \/ ~cursor.have => \E L \in SUBSET Nat :
         b = [buf |-> {}, expected |-> x, out |-> {}, lost |-> L]
  <2>1. CASE change
    BY <2>1 DEF Clears
  <2>2. CASE ~change /\ ~cursor.have
    <3>1. buf = {} /\ out = {} /\ lost \in SUBSET Nat
      BY <2>2 DEF Inv, TypeOK
    <3> QED BY <2>2, <3>1
  <2> QED BY <2>1, <2>2
<1>7. ~change /\ cursor.have => b = Now
  BY DEF Now
<1>8. change \in BOOLEAN /\ anchors \in BOOLEAN
  OBVIOUS
<1> HIDE DEF v, t, b, i, h, anchors, mixes, strays, x
<1>9. v.what # "drop" /\ ~t.dropped => Taken(q, t.tracker, x, b, change, anchors)
  <2> SUFFICES ASSUME v.what # "drop", ~t.dropped PROVE Taken(q, t.tracker, x, b, change, anchors)
    OBVIOUS
  <2>1. /\ tracker' = t.tracker /\ x = t.tracker.cycles + Wire(q)
        /\ buf' = Insert(b, q, x).buf /\ out' = Insert(b, q, x).out
        /\ cursor'.have /\ cursor'.expected = Insert(b, q, x).expected
        /\ hist' = h
    BY <1>1 DEF i, x
  <2> HIDE DEF change
  <2> QED BY <1>3, <1>4, <1>5, <1>6, <1>7, <2>1 DEF Taken
<1>10. CASE v.what = "drop"
  BY <1>1, <1>10
<1>11. CASE v.what # "drop"
  <2>1. tracker' = t.tracker /\ (~change /\ cursor.have => setup.ssrc[q.stream] = pin.ssrc)
    BY <1>1, <1>2, <1>11
  <2>2. t = Observe(IF change THEN Idle ELSE tracker, Wire(q))
    BY DEF t
  <2> HIDE DEF change, u, seq
  <2>3. CASE t.dropped
    <3>1. UNCHANGED <<buf, cursor, out, hist>>
      BY <1>1, <1>11, <2>3
    <3> QED BY <1>8, <2>1, <2>2, <2>3, <3>1
  <2>4. CASE ~t.dropped
    <3>1. Taken(q, t.tracker, x, b, change, anchors)
      BY <1>9, <1>11, <2>4
    <3> QED BY <1>8, <2>1, <2>2, <2>4, <3>1
  <2> QED BY <2>3, <2>4
<1> QED BY <1>10, <1>11

\* The first packet of a buffer is emitted at once, and is all there is.
LEMMA InsertFirst ==
  ASSUME NEW q \in Packet, NEW x \in Nat, NEW L \in SUBSET Nat
  PROVE  LET c == Insert([buf |-> {}, expected |-> x, out |-> {}, lost |-> L], q, x)
         IN  /\ c.buf = {} /\ c.expected = x + 1 /\ x \in Keys(c.out)
             /\ \A p \in c.out : p.x = x /\ p.stream = q.stream /\ p.n = q.n
<1> DEFINE b == [buf |-> {}, expected |-> x, out |-> {}, lost |-> L]
           e == [x |-> x, stream |-> q.stream, n |-> q.n, age |-> 0]
           i == [MadeRoom(b) EXCEPT !.buf = @ \cup {e}]
           d == Drained(i)
<1>1. Sound(b) /\ Cardinality(b.buf) = 0 /\ MaxWindow \in Nat \ {0}
  BY FS_EmptySet, RtpAssumption DEF Sound, State
<1>2. ~Duplicate(b, x)
  BY DEF Duplicate, Keys
<1>3. MadeRoom(b) = b
  BY <1>1 DEF MadeRoom
<1>4. Insert(b, q, x) = Overdue(d)
  BY <1>2 DEF Insert
<1>5. Sound(i) /\ i.buf = {e} /\ i.out = {} /\ i.expected = x
  <2>1. Cardinality(b.buf) <= MaxWindow
    BY <1>1
  <2> HIDE DEF b
  <2>2. /\ Sound(i) /\ i.buf = MadeRoom(b).buf \cup {e}
        /\ i.out = MadeRoom(b).out /\ i.expected = MadeRoom(b).expected
    BY <1>1, <1>2, <2>1, AddedSound
  <2>3. b.buf = {} /\ b.out = {} /\ b.expected = x
    BY DEF b
  <2> QED BY <1>3, <2>2, <2>3
<1>6. e.x = x /\ e.stream = q.stream /\ e.n = q.n
  OBVIOUS
<1> HIDE DEF b, e, i
<1>7. d = Emit(i, {e}, {})
  <2>1. {f \in i.buf : /\ f.x >= i.expected
                       /\ i.expected .. f.x \subseteq Keys(i.buf)
                       /\ \A g \in i.buf : g.x >= i.expected} = {e}
    <3>1. x .. x = {x} /\ Keys({e}) = {x}
      BY <1>6 DEF Keys
    <3> QED BY <1>5, <1>6, <3>1
  <2> QED BY <2>1 DEF Drained
<1>8. Sound(d) /\ d.buf = {} /\ d.expected = x + 1
  <2>1. EmitsOnly(i, {e}, d)
    BY <1>5, <1>7, EmitSound
  <2> HIDE DEF d
  <2> QED BY <1>5, <1>6, <2>1 DEF EmitsOnly
<1>9. /\ x \in Keys(d.out)
      /\ \A p \in d.out : p.x = x /\ p.stream = q.stream /\ p.n = q.n
  <2> DEFINE F == {}
             E == {e}
             c == Emit(i, E, F)
  <2>1. E \in SUBSET i.buf /\ Sound(i)
    BY <1>5
  <2> HIDE DEF F, E
  <2>2. /\ i.out \subseteq c.out
        /\ \A p \in c.out : p \in i.out \/ \E f \in E : Same(p, f) /\ (f \in F => p.forced)
        /\ \A f \in E : f.x \in Keys(c.out)
    BY <2>1, EmitOut
  <2> HIDE DEF c, d
  <2>3. /\ \A p \in c.out : p \in i.out \/ Same(p, e)
        /\ e.x \in Keys(c.out)
    BY <2>2 DEF E
  <2>4. d = c
    BY <1>7 DEF c, E, F
  <2> QED BY <1>5, <1>6, <2>3, <2>4 DEF Same
<1> HIDE DEF d
<1>10. CASE setup.delay = 0
  BY <1>4, <1>8, <1>9, <1>10 DEF Overdue, b
<1>11. CASE setup.delay # 0
  <2> DEFINE c == Emit(d, {}, {})
  <2>1. {f \in d.buf : \A g \in Starts(d) : g.x <= f.x => g.age >= setup.delay} = {}
    BY <1>8
  <2>2. Overdue(d) = c
    BY <1>11, <2>1 DEF Overdue
  <2>3. EmitsOnly(d, {}, c)
    BY <1>8, EmitSound
  <2>4. /\ d.out \subseteq c.out
        /\ \A p \in c.out : p \in d.out \/ \E f \in {} : Same(p, f) /\ (f \in {} => p.forced)
    BY <1>8, EmitOut
  <2> HIDE DEF c
  <2>5. c.buf = {} /\ c.expected = x + 1
    BY <1>8, <2>3 DEF EmitsOnly
  <2>6. c.out = d.out
    BY <2>4
  <2> QED BY <1>4, <1>9, <2>2, <2>5, <2>6 DEF b
<1> QED BY <1>10, <1>11

\* What the history says of the tracker's anchor, and what the tracker and the cursor have in
\* common.
Based ==
    /\ tracker.init <=> cursor.have
    /\ tracker.probation > 0 => tracker.cycles = 0
    /\ tracker.cycles = 0 \/ tracker.cycles >= SeqMod
    /\ tracker.init /\ tracker.probation = 0 =>
          /\ tracker.base = Wire([stream |-> hist.of, n |-> hist.anchor])
          /\ hist.anchor < sent[hist.of] /\ hist.anchor <= hist.newest
          /\ hist.mixed => hist.astray

LEMMA BasedInit == Init => Based
BY DEF Init, Based, Idle, Unset, MinSequential

\* The tracker after a packet it does not drop: still in probation, anchored at the packet, or
\* as it was up to its last number and the cycles.
LEMMA ObserveTaken ==
  ASSUME Inv, Based, NEW change \in BOOLEAN, NEW seq \in Seq16,
         ~Observe(IF change THEN Idle ELSE tracker, seq).dropped
  PROVE  LET v == Observe(IF change THEN Idle ELSE tracker, seq).tracker
         IN  /\ v.init
             /\ change \/ ~tracker.init => v.probation > 0
             /\ \/ v.probation > 0 /\ v.cycles = 0
                \/ v = Anchored(seq) /\ v # tracker /\ v.cycles = 0
                \/ /\ ~change /\ tracker.init /\ tracker.probation = 0 /\ v.probation = 0
                   /\ v.base = tracker.base
                   /\ \/ v = tracker
                      \/ v.max = seq /\ (v.cycles = tracker.cycles \/ v.cycles = tracker.cycles + SeqMod)
<1> DEFINE u == IF change THEN Idle ELSE tracker
           v == Observe(u, seq).tracker
           dropped == Observe(u, seq).dropped
           delta == (seq - u.max) % SeqMod
<1>1. tracker \in Tracker /\ Idle \in Tracker /\ ~Idle.init
  BY RtpAssumption DEF Inv, TypeOK, Tracker, Idle, Seq16, MinSequential
<1>2. u \in Tracker /\ (u.init => ~change /\ u = tracker)
  BY <1>1
<1>3. ~dropped
  OBVIOUS
<1>4. change \/ ~tracker.init => ~u.init
  BY <1>1
<1> HIDE DEF u
<1>5. /\ v.init
      /\ ~u.init => v.probation > 0 /\ v.cycles = 0
      /\ u.init /\ v.probation > 0 => u.probation > 0 /\ v.cycles = u.cycles
  BY <1>2, ObserveProbation
<1>6. \/ v.probation > 0
      \/ v = Anchored(seq) /\ v # u /\ ~dropped /\ u.init
      \/ /\ u.init /\ u.probation = 0 /\ delta < MaxDropout /\ ~dropped
         /\ v = [u EXCEPT !.max = seq, !.cycles = IF Wraps(u, seq) THEN @ + SeqMod ELSE @]
      \/ /\ u.init /\ u.probation = 0 /\ delta > SeqMod - MaxMisorder /\ v = u /\ ~dropped
      \/ /\ u.init /\ u.probation = 0 /\ dropped
         /\ v = [u EXCEPT !.bad = (seq + 1) % SeqMod]
  BY <1>2, ObserveCases
<1> HIDE DEF v, dropped, delta
<1>7. v.probation > 0 => v.cycles = 0
  BY <1>2, <1>5 DEF Based
<1>8. CASE v = Anchored(seq) /\ v # u /\ u.init
  <2>1. v.cycles = 0
    BY <1>8 DEF Anchored
  <2> QED BY <1>2, <1>4, <1>5, <1>8, <2>1 DEF u, v
<1>9. CASE /\ u.init /\ u.probation = 0
           /\ v = [u EXCEPT !.max = seq, !.cycles = IF Wraps(u, seq) THEN @ + SeqMod ELSE @]
  <2>1. /\ v.max = seq /\ v.base = u.base /\ v.probation = 0
        /\ v.cycles = u.cycles \/ v.cycles = u.cycles + SeqMod
    <3>1. CASE Wraps(u, seq)
      BY <1>2, <1>9, <3>1 DEF Tracker
    <3>2. CASE ~Wraps(u, seq)
      BY <1>2, <1>9, <3>2 DEF Tracker
    <3> QED BY <3>1, <3>2
  <2> QED BY <1>2, <1>4, <1>5, <1>9, <2>1 DEF u, v
<1>10. CASE u.init /\ u.probation = 0 /\ v = u
  BY <1>2, <1>4, <1>5, <1>10 DEF u, v
<1>11. CASE v.probation > 0
  BY <1>5, <1>7, <1>11 DEF u, v
<1> QED BY <1>3, <1>6, <1>8, <1>9, <1>10, <1>11

LEMMA DispatchBased ==
  ASSUME Inv, Based, NEW q \in Packet, q.n < sent[q.stream], Dispatch(q), UNCHANGED <<setup, sent>>
  PROVE  Based'
<1>1. /\ q.n \in Nat /\ hist.newest \in Nat /\ hist.anchor \in Nat /\ SeqMod \in Nat \ {0}
      /\ tracker.cycles \in Nat /\ Wire(q) \in Seq16 /\ tracker \in Tracker
  <2>1. setup.first[q.stream] + q.n \in Int
    BY RtpAssumption DEF Inv, TypeOK, Packet, Seq16
  <2>2. Wire(q) \in Seq16
    BY <2>1, Modulo DEF Wire
  <2> QED BY <2>2, RtpAssumption DEF Inv, TypeOK, Packet, Tracker
<1>2. ASSUME UNCHANGED <<cursor, hist>>, tracker'.init = tracker.init,
             tracker'.probation = tracker.probation, tracker'.cycles = tracker.cycles,
             tracker'.base = tracker.base
      PROVE  Based'
  <2>1. Wire([stream |-> hist.of, n |-> hist.anchor])' = Wire([stream |-> hist.of, n |-> hist.anchor])
    BY <1>2 DEF Wire
  <2> QED BY <1>2, <2>1 DEF Based
<1>3. CASE UNCHANGED <<tracker, buf, cursor, out, hist>>
  BY <1>2, <1>3
<1>4. ASSUME NEW change \in BOOLEAN,
             Observe(IF change THEN Idle ELSE tracker, Wire(q)).dropped,
             tracker' = Observe(IF change THEN Idle ELSE tracker, Wire(q)).tracker,
             UNCHANGED <<buf, cursor, out, hist>>
      PROVE  Based'
  <2> DEFINE u == IF change THEN Idle ELSE tracker
             seq == Wire(q)
  <2>1. u \in Tracker /\ (u.init => u = tracker)
    BY <1>1, RtpAssumption DEF Tracker, Idle, Seq16, MinSequential
  <2>2. Observe(u, seq).dropped /\ tracker' = Observe(u, seq).tracker
    BY <1>4
  <2>3. seq \in Seq16
    BY <1>1
  <2> HIDE DEF u, seq
  <2>4. ~(tracker'.probation > 0)
    BY <2>1, <2>2, <2>3, ObserveProbation
  <2>5. u.init /\ tracker' = [u EXCEPT !.bad = (seq + 1) % SeqMod]
    BY <2>1, <2>2, <2>3, <2>4, ObserveCases
  <2>6. /\ tracker'.init = tracker.init /\ tracker'.probation = tracker.probation
        /\ tracker'.cycles = tracker.cycles /\ tracker'.base = tracker.base
    BY <1>1, <2>1, <2>5 DEF Tracker
  <2> QED BY <1>2, <1>4, <2>6
<1>5. ASSUME NEW change \in BOOLEAN, NEW v, v = Observe(IF change THEN Idle ELSE tracker, Wire(q)).tracker,
             ~Observe(IF change THEN Idle ELSE tracker, Wire(q)).dropped,
             NEW x, NEW b, NEW anchors \in BOOLEAN, Taken(q, v, x, b, change, anchors)
      PROVE  Based'
  <2>1. /\ tracker' = v /\ cursor'.have
        /\ anchors <=> v = Anchored(Wire(q)) /\ v # tracker
        /\ hist'.of = IF anchors THEN q.stream ELSE hist.of
        /\ hist'.anchor = IF anchors THEN q.n ELSE hist.anchor
        /\ hist'.newest = IF anchors \/ q.n > hist.newest THEN q.n ELSE hist.newest
        /\ ~hist'.astray => /\ change \/ ~hist.astray
                            /\ hist'.mixed => ~anchors /\ hist.mixed
    BY <1>5 DEF Taken
  <2>2. /\ v.init
        /\ \/ v.probation > 0 /\ v.cycles = 0
           \/ v = Anchored(Wire(q)) /\ v # tracker /\ v.cycles = 0
           \/ /\ ~change /\ tracker.init /\ tracker.probation = 0 /\ v.probation = 0
              /\ v.base = tracker.base
              /\ \/ v = tracker
                 \/ v.cycles = tracker.cycles \/ v.cycles = tracker.cycles + SeqMod
    BY <1>1, <1>5, ObserveTaken
  <2>3. tracker'.init <=> cursor'.have
    BY <2>1, <2>2
  <2>4. /\ tracker'.probation > 0 => tracker'.cycles = 0
        /\ tracker'.cycles = 0 \/ tracker'.cycles >= SeqMod
    <3>1. tracker.cycles = 0 \/ tracker.cycles >= SeqMod
      BY DEF Based
    <3>2. v = Anchored(Wire(q)) => v.probation = 0
      BY DEF Anchored
    <3> QED BY <1>1, <2>1, <2>2, <3>1, <3>2
  <2>5. ASSUME tracker'.probation = 0
        PROVE  /\ tracker'.base = Wire([stream |-> hist.of, n |-> hist.anchor])'
               /\ hist'.anchor < sent[hist'.of] /\ hist'.anchor <= hist'.newest
               /\ hist'.mixed => hist'.astray
    <3>1. CASE anchors
      <4>1. hist'.of = q.stream /\ hist'.anchor = q.n /\ hist'.newest = q.n
        BY <2>1, <3>1
      <4>2. tracker'.base = Wire(q)
        BY <2>1, <3>1 DEF Anchored
      <4>3. Wire([stream |-> hist.of, n |-> hist.anchor])' = Wire(q)
        BY <4>1 DEF Wire
      <4> QED BY <1>1, <2>1, <3>1, <4>1, <4>2, <4>3
    <3>2. CASE ~anchors
      <4>1. /\ ~change /\ tracker.init /\ tracker.probation = 0 /\ tracker'.base = tracker.base
        BY <2>1, <2>2, <2>5, <3>2
      <4>2. hist'.of = hist.of /\ hist'.anchor = hist.anchor
        BY <2>1, <3>2
      <4>3. hist'.newest >= hist.newest
        BY <1>1, <2>1, <3>2
      <4>4. Wire([stream |-> hist.of, n |-> hist.anchor])' = Wire([stream |-> hist.of, n |-> hist.anchor])
        BY <4>2 DEF Wire
      <4>5. /\ tracker.base = Wire([stream |-> hist.of, n |-> hist.anchor])
            /\ hist.anchor < sent[hist.of] /\ hist.anchor <= hist.newest
            /\ hist.mixed => hist.astray
        BY <4>1 DEF Based
      <4>6. hist'.newest \in Nat
        BY <1>1, <2>1, <3>2
      <4>7. hist'.anchor < sent[hist'.of] /\ hist'.anchor <= hist'.newest
        BY <1>1, <4>2, <4>3, <4>5, <4>6
      <4>8. hist'.mixed => hist'.astray
        BY <2>1, <4>1, <4>5
      <4> QED BY <4>1, <4>4, <4>5, <4>7, <4>8
    <3> QED BY <3>1, <3>2
  <2> QED BY <2>3, <2>4, <2>5 DEF Based
<1> QED BY <1>3, <1>4, <1>5, DispatchForm

LEMMA BasedStep ==
  ASSUME Inv, Based, [Next]_vars
  PROVE  Based'
<1>1. ASSUME sent' \in [Stream -> Nat], \A s \in Stream : sent[s] <= sent'[s],
             UNCHANGED <<setup, tracker, cursor, hist>>
      PROVE  Based'
  <2>1. Wire([stream |-> hist.of, n |-> hist.anchor])' = Wire([stream |-> hist.of, n |-> hist.anchor])
    BY <1>1 DEF Wire
  <2>2. hist.anchor < sent[hist.of] => hist.anchor < sent'[hist.of]
    BY <1>1 DEF Inv, TypeOK
  <2> QED BY <1>1, <2>1, <2>2 DEF Based
<1>2. sent \in [Stream -> Nat]
  BY DEF Inv, TypeOK
<1>3. ASSUME NEW s \in Stream, Send(s) PROVE Based'
  <2>1. sent' = [sent EXCEPT ![s] = @ + 1] /\ UNCHANGED <<setup, tracker, cursor, hist>>
    BY <1>3 DEF Send
  <2>2. sent' \in [Stream -> Nat] /\ \A r \in Stream : sent[r] <= sent'[r]
    BY <1>2, <2>1
  <2> QED BY <1>1, <2>1, <2>2
<1>4. ASSUME NEW s \in Stream, NEW n \in 0 .. MaxSent - 1, Arrive([stream |-> s, n |-> n])
      PROVE  Based'
  <2> DEFINE q == [stream |-> s, n |-> n]
  <2>1. q \in Packet
    BY RtpAssumption DEF Packet
  <2>2. q.n < sent[q.stream] /\ Dispatch(q) /\ UNCHANGED <<setup, sent>>
    BY <1>4 DEF Arrive
  <2> HIDE DEF q
  <2> QED BY <2>1, <2>2, DispatchBased
<1>5. CASE Tick
  BY <1>1, <1>2, <1>5 DEF Tick
<1>6. CASE UNCHANGED vars
  BY <1>1, <1>2, <1>6 DEF vars
<1> QED BY <1>3, <1>4, <1>5, <1>6 DEF Next

\* A packet behind the newest wrap, in numbers: o is the first packet emitted, a the anchor, on
\* the wire y and z, and q the packet, on the wire w.
LEMMA NewestFits ==
  ASSUME NEW o \in Nat, NEW a \in Nat, NEW q \in Nat, NEW y \in Nat, NEW z \in Nat, NEW w \in Nat,
         Apart(o, y, q, w), Apart(o, y, a, z), a < o => z <= y, w - z = q - a - SeqMod
  PROVE  w - y = q - o - SeqMod
<1>1. SeqMod \in Nat \ {0}
  BY RtpAssumption
<1>2. CASE a < o
  BY <1>1, <1>2 DEF Apart
<1>3. CASE a >= o
  BY <1>1, <1>3 DEF Apart
<1> QED BY <1>2, <1>3

\* A late packet, where e is one that was put behind a wrap, on the wire v.
LEMMA LateFits ==
  ASSUME NEW o \in Nat, NEW e \in Nat, NEW q \in Nat, NEW y \in Nat, NEW v \in Nat, NEW w \in Nat,
         Apart(o, y, q, w), Apart(q, w, e, v), v + SeqMod - y = e - o,
         ~(q < e /\ w > v), ~(q < o /\ w > y)
  PROVE  w - y = q - o - SeqMod
<1>1. SeqMod \in Nat \ {0}
  BY RtpAssumption
<1>2. CASE q >= e
  BY <1>1, <1>2 DEF Apart
<1>3. CASE q < e /\ q >= o
  BY <1>1, <1>3 DEF Apart
<1>4. CASE q < e /\ q < o
  BY <1>1, <1>4 DEF Apart
<1> QED BY <1>2, <1>3, <1>4

\* There are no two runs of a sender under one SSRC.
NoRestart == setup.ssrc[1] # setup.ssrc[2] \/ \E s \in Stream : sent[s] = 0

\* o is the first packet emitted, under its number on the wire, and everything since is in line
\* with it.  Once the tracker counts cycles, a packet behind the wrap is held or was emitted.
FirstOut(o) ==
    /\ LinedUp(Now, o)
    /\ o.x = Wire(o) /\ o.n < sent[o.stream]
    /\ tracker.cycles > 0 => Crossed(Held(Now))
    /\ tracker.init /\ tracker.probation = 0 =>
          hist.of = o.stream /\ (hist.anchor < o.n => tracker.base <= o.x)

Aligned == cursor.have /\ NoRestart /\ ~hist.astray => \E o \in out : FirstOut(o)

LEMMA AlignedInit == Init => Aligned
BY DEF Init, Aligned, Unset

\* A packet put behind a wrap has a smaller number on the wire than the first one, by less than
\* a cycle.
LEMMA CrossedWire ==
  ASSUME Inv, Counted, Separable, NEW o, FirstOut(o), NEW e \in Held(Now), e.x >= SeqMod
  PROVE  /\ e.stream = o.stream /\ e.n \in Nat /\ o.n \in Nat /\ e.n < MaxSent
         /\ Wire(e) + SeqMod = e.x /\ e.x - o.x = e.n - o.n
<1>1. /\ o \in out /\ o \in Emitted /\ InLine(Held(Now), o)
  BY DEF FirstOut, LinedUp, Now, Inv, TypeOK
<1>2. /\ e.stream = o.stream /\ e.x >= o.x /\ e.x - o.x = e.n - o.n /\ e.n < MaxSent
  BY <1>1 DEF InLine
<1>3. /\ e.n \in Nat /\ e.x \in Nat /\ o.n \in Nat /\ o.x \in Nat /\ o.stream \in Stream
      /\ SeqMod \in Nat \ {0} /\ MaxSent \in Nat
  BY <1>1, RtpAssumption DEF Held, Now, Inv, TypeOK, Entry, Emitted
<1>4. o.n < MaxSent
  <2>1. o.n < sent[o.stream] /\ sent[o.stream] <= MaxSent /\ sent[o.stream] \in Nat
    BY <1>3 DEF FirstOut, Counted, Inv, TypeOK
  <2> QED BY <1>3, <2>1
<1>5. Apart(o.n, Wire(o), e.n, Wire(e))
  <2>1. Apart(o.n, Wire([stream |-> o.stream, n |-> o.n]), e.n, Wire([stream |-> o.stream, n |-> e.n]))
    BY <1>2, <1>3, <1>4, WireOf
  <2>2. /\ Wire([stream |-> o.stream, n |-> o.n]) = Wire(o)
        /\ Wire([stream |-> o.stream, n |-> e.n]) = Wire(e)
    BY <1>2 DEF Wire
  <2> QED BY <2>1, <2>2
<1>6. Wire(o) = o.x
  BY DEF FirstOut
<1>7. Wire(e) + SeqMod = e.x
  <2> DEFINE w == Wire(e)
  <2>1. Apart(o.n, o.x, e.n, w)
    BY <1>5, <1>6
  <2> HIDE DEF w
  <2>2. w + SeqMod = e.x
    BY <1>2, <1>3, <2>1 DEF Apart
  <2> QED BY <2>2 DEF w
<1> QED BY <1>2, <1>3, <1>7

\* A packet the tracker counts over a wrap, the newest or a late one, is put where the first
\* packet says.
LEMMA CountedFits ==
  ASSUME Inv, Inv', Based, Based', Counted, Counted', Separable, UNCHANGED <<setup, sent>>,
         NEW o, FirstOut(o), NEW q \in Packet, q.n < sent[q.stream], q.stream = o.stream,
         ~Astray(Held(Now), q),
         tracker.init, tracker.probation = 0, tracker'.init, tracker'.probation = 0,
         tracker'.cycles > 0, tracker'.base = tracker.base,
         tracker' = tracker \/ tracker'.max = Wire(q),
         hist'.of = q.stream, hist'.anchor = hist.anchor, ~hist'.mixed
  PROVE  tracker'.cycles + Wire(q) - o.x = q.n - o.n
<1> DEFINE w == Wire(q)
           a == hist.anchor
           z == tracker.base
           m == hist'.newest
<1>1. /\ o \in Emitted /\ o \in out /\ o.x = Wire(o) /\ o.n < sent[o.stream]
      /\ tracker.cycles > 0 => Crossed(Held(Now))
      /\ hist.of = o.stream /\ (a < o.n => z <= o.x)
  BY DEF FirstOut, LinedUp, Now, Inv, TypeOK
<1>2. /\ o.n \in Nat /\ o.x \in Nat /\ o.stream \in Stream /\ q.n \in Nat /\ a \in Nat /\ m \in Nat
      /\ SeqMod \in Nat \ {0} /\ MaxSent \in Nat /\ sent[o.stream] \in Nat
      /\ tracker'.cycles \in Nat
  BY <1>1, RtpAssumption DEF Inv, TypeOK, Emitted, Packet
<1>3. sent[o.stream] <= MaxSent
  BY <1>2 DEF Counted
<1>4. o.n < MaxSent /\ q.n < MaxSent
  BY <1>1, <1>2, <1>3
<1>5. /\ m < sent[o.stream] /\ tracker'.max = Wire([stream |-> o.stream, n |-> m])
      /\ tracker'.cycles + tracker'.max - z = m - a
  <2>1. Counts'
    BY DEF Counted
  <2>2. Wire([stream |-> hist.of, n |-> hist.newest])' = Wire([stream |-> o.stream, n |-> m])
    BY DEF Wire
  <2> QED BY <2>1, <2>2 DEF Counts
<1>6. /\ z = Wire([stream |-> o.stream, n |-> a]) /\ a < sent[o.stream] /\ a <= m
  <2>1. z = Wire([stream |-> hist.of, n |-> a]) /\ a < sent[hist.of]
    BY DEF Based
  <2>2. hist'.anchor <= hist'.newest
    BY DEF Based
  <2> QED BY <1>1, <2>1, <2>2
<1>7. tracker'.cycles >= SeqMod
  BY DEF Based
<1>8. a < MaxSent /\ m < MaxSent
  BY <1>2, <1>3, <1>5, <1>6
<1>9. Wire([stream |-> o.stream, n |-> o.n]) = o.x /\ Wire([stream |-> o.stream, n |-> q.n]) = w
  BY <1>1 DEF Wire
<1>10. /\ Apart(o.n, o.x, q.n, w) /\ Apart(o.n, o.x, a, z)
       /\ Apart(a, z, m, tracker'.max) /\ Apart(m, tracker'.max, q.n, w)
  <2>1. \A i, j \in Nat : i < MaxSent /\ j < MaxSent =>
           Apart(i, Wire([stream |-> o.stream, n |-> i]), j, Wire([stream |-> o.stream, n |-> j]))
    BY <1>2, WireOf
  <2> HIDE DEF w, a, z, m
  <2> QED BY <1>2, <1>4, <1>5, <1>6, <1>8, <1>9, <2>1
<1>11. w \in Nat /\ z \in Nat /\ tracker'.max \in Nat
  BY <1>2, <1>10 DEF Apart
<1>12. tracker'.cycles = SeqMod /\ tracker'.max - z = m - a - SeqMod
  <2> DEFINE y == tracker'.max
             c == tracker'.cycles
  <2>1. Apart(a, z, m, y) /\ c + y - z = m - a /\ c >= SeqMod /\ a <= m /\ y \in Nat /\ c \in Nat
    BY <1>2, <1>5, <1>6, <1>7, <1>10, <1>11
  <2> HIDE DEF w, a, z, m, y, c
  <2>2. c = SeqMod /\ y - z = m - a - SeqMod
    BY <1>2, <1>11, <2>1 DEF Apart
  <2> QED BY <2>2 DEF y, c
<1>13. CASE tracker'.max = w
  <2> HIDE DEF w, a, z, m
  <2>1. m = q.n
    BY <1>2, <1>10, <1>11, <1>13 DEF Apart
  <2>2. w - z = q.n - a - SeqMod
    BY <1>12, <1>13, <2>1
  <2>3. w - o.x = q.n - o.n - SeqMod
    <3> DEFINE i == o.n
               j == q.n
               y == o.x
    <3>1. /\ i \in Nat /\ j \in Nat /\ y \in Nat /\ a \in Nat /\ z \in Nat /\ w \in Nat
          /\ Apart(i, y, j, w) /\ Apart(i, y, a, z)
          /\ w - z = j - a - SeqMod
          /\ a < i => z <= y
      BY <1>1, <1>2, <1>10, <1>11, <2>2
    <3> HIDE DEF i, j, y
    <3>2. w - y = j - i - SeqMod
      BY <3>1, NewestFits
    <3> QED BY <3>2 DEF i, j, y
  <2> QED BY <1>2, <1>11, <1>12, <2>3 DEF w
<1>14. CASE tracker' = tracker
  <2>1. PICK e \in Held(Now) : e.x >= SeqMod
    <3>1. Crossed(Held(Now))
      BY <1>1, <1>14
    <3> QED BY <3>1 DEF Crossed
  <2>2. /\ e.stream = o.stream /\ e.n \in Nat /\ e.n < MaxSent
        /\ Wire(e) + SeqMod = e.x /\ e.x - o.x = e.n - o.n
    BY <2>1, CrossedWire
  <2> DEFINE v == Wire(e)
  <2>3. Apart(q.n, w, e.n, v)
    <3>1. Wire([stream |-> o.stream, n |-> e.n]) = v
      BY <2>2 DEF Wire
    <3>2. Apart(q.n, Wire([stream |-> o.stream, n |-> q.n]), e.n, Wire([stream |-> o.stream, n |-> e.n]))
      BY <1>2, <1>4, <2>2, WireOf
    <3> QED BY <1>9, <3>1, <3>2
  <2>4. ~(q.n < e.n /\ w > v) /\ ~(q.n < o.n /\ w > o.x)
    <3>1. o \in Held(Now)
      BY <1>1 DEF Held, Now
    <3> QED BY <1>1, <2>1, <2>2, <3>1 DEF Astray
  <2>5. v + SeqMod - o.x = e.n - o.n /\ v \in Nat
    <3> HIDE DEF v, w
    <3>1. v \in Nat
      BY <1>2, <2>3 DEF Apart
    <3>2. v + SeqMod = e.x
      BY <2>2 DEF v
    <3>3. e.x - o.x = e.n - o.n
      BY <2>2
    <3> QED BY <1>2, <3>1, <3>2, <3>3
  <2>6. w - o.x = q.n - o.n - SeqMod
    <3> DEFINE i == o.n
               j == q.n
               k == e.n
               y == o.x
    <3>1. /\ i \in Nat /\ j \in Nat /\ k \in Nat /\ y \in Nat /\ v \in Nat /\ w \in Nat
          /\ Apart(i, y, j, w) /\ Apart(j, w, k, v) /\ v + SeqMod - y = k - i
          /\ ~(j < k /\ w > v) /\ ~(j < i /\ w > y)
      BY <1>2, <1>10, <1>11, <2>2, <2>3, <2>4, <2>5
    <3> HIDE DEF i, j, k, y, v, w
    <3>2. w - y = j - i - SeqMod
      BY <3>1, LateFits
    <3> QED BY <3>2 DEF i, j, y
  <2> HIDE DEF w
  <2> QED BY <1>2, <1>11, <1>12, <2>6 DEF w
<1> QED BY <1>13, <1>14

\* A packet that is taken and not a duplicate fits in with the first one.
LEMMA TakenFits ==
  ASSUME Inv, Inv', Based, Based', Counted, Counted', Separable, UNCHANGED <<setup, sent>>,
         NEW o, FirstOut(o), NEW q \in Packet, q.n < sent[q.stream], q.stream = o.stream,
         cursor.have, ~hist.astray, ~hist'.astray,
         ~Observe(tracker, Wire(q)).dropped,
         NEW v, v = Observe(tracker, Wire(q)).tracker, NEW x,
         NEW anchors \in BOOLEAN, Taken(q, v, x, Now, FALSE, anchors), ~Duplicate(Now, x)
  PROVE  /\ q.n < MaxSent /\ x >= o.x /\ x - o.x = q.n - o.n
         /\ x < SeqMod => \A e \in buf : e.x < SeqMod
<1>1. /\ tracker' = v /\ x = v.cycles + Wire(q)
      /\ anchors <=> v = Anchored(Wire(q)) /\ v # tracker
      /\ hist'.of = IF anchors THEN q.stream ELSE hist.of
      /\ hist'.anchor = IF anchors THEN q.n ELSE hist.anchor
      /\ ~Astray(Held(Now), q)
      /\ ~anchors /\ v.probation = 0 => q.stream = hist.of
      /\ hist'.mixed => ~anchors /\ hist.mixed
  BY DEF Taken
<1>2. /\ q.n \in Nat /\ q.stream \in Stream /\ sent[q.stream] \in Nat /\ MaxSent \in Nat
      /\ SeqMod \in Nat \ {0} /\ sent[q.stream] <= MaxSent
  BY RtpAssumption DEF Packet, Inv, TypeOK, Counted
<1>3. /\ o \in out /\ o.n \in Nat /\ o.x \in Nat /\ o.x = Wire(o) /\ o.n < sent[o.stream]
      /\ InLine(Held(Now), o) /\ o \in Held(Now)
  BY DEF FirstOut, LinedUp, Now, Held, Inv, TypeOK, Emitted
<1>4. q.n < MaxSent /\ o.n < MaxSent
  BY <1>2, <1>3
<1>5. Apart(o.n, o.x, q.n, Wire(q))
  <2>1. Apart(o.n, Wire([stream |-> o.stream, n |-> o.n]), q.n, Wire([stream |-> o.stream, n |-> q.n]))
    BY <1>2, <1>3, <1>4, WireOf
  <2>2. /\ Wire([stream |-> o.stream, n |-> o.n]) = o.x
        /\ Wire([stream |-> o.stream, n |-> q.n]) = Wire(q)
    BY <1>3 DEF Wire
  <2> QED BY <2>1, <2>2
<1>6. x >= cursor.expected /\ o.x < cursor.expected /\ cursor.expected \in Nat
  <2>1. x \in Nat /\ cursor.expected \in Nat
    BY <1>1, <1>2, <1>5 DEF Inv, TypeOK, Apart
  <2>2. Sound(Now) /\ ~(x < cursor.expected)
    BY DEF Inv, Duplicate, Now
  <2>3. o.x < cursor.expected
    BY <1>3, <2>2 DEF Sound, Now
  <2> QED BY <2>1, <2>2, <2>3
<1>7. Wire(q) \in Seq16 /\ tracker.init
  BY <1>5 DEF Apart, Seq16, Based
<1>8. /\ v.init
      /\ \/ v.probation > 0 /\ v.cycles = 0
         \/ v = Anchored(Wire(q)) /\ v # tracker /\ v.cycles = 0
         \/ /\ tracker.probation = 0 /\ v.probation = 0 /\ v.base = tracker.base
            /\ v = tracker \/ v.max = Wire(q)
  <2> DEFINE w == Wire(q)
             change == FALSE
             t == Observe(IF change THEN Idle ELSE tracker, w)
  <2>1. w \in Seq16 /\ change \in BOOLEAN /\ ~t.dropped /\ v = t.tracker
    BY <1>7
  <2> HIDE DEF w, change
  <2>2. /\ t.tracker.init
        /\ \/ t.tracker.probation > 0 /\ t.tracker.cycles = 0
           \/ t.tracker = Anchored(w) /\ t.tracker # tracker /\ t.tracker.cycles = 0
           \/ /\ ~change /\ tracker.init /\ tracker.probation = 0 /\ t.tracker.probation = 0
              /\ t.tracker.base = tracker.base
              /\ \/ t.tracker = tracker
                 \/ /\ t.tracker.max = w
                    /\ \/ t.tracker.cycles = tracker.cycles
                       \/ t.tracker.cycles = tracker.cycles + SeqMod
    BY <2>1, ObserveTaken
  <2> HIDE DEF t
  <2> QED BY <2>1, <2>2 DEF w
<1>9. CASE v.cycles = 0
  <2> DEFINE w == Wire(q)
  <2>1. x = w /\ w > o.x /\ w \in Nat
    BY <1>1, <1>2, <1>3, <1>5, <1>6, <1>9 DEF Apart
  <2>2. ~(q.n < o.n)
    <3>1. ~(q.n < o.n /\ Wire(q) > Wire(o))
      BY <1>1, <1>3 DEF Astray
    <3> QED BY <1>3, <2>1, <3>1
  <2>3. Apart(o.n, o.x, q.n, w)
    BY <1>5
  <2> HIDE DEF w
  <2>4. x - o.x = q.n - o.n
    BY <1>2, <1>3, <2>1, <2>2, <2>3 DEF Apart
  <2>5. ASSUME NEW e \in buf, ~(e.x < SeqMod) PROVE FALSE
    <3>1. e \in Held(Now) /\ e.x >= SeqMod
      BY <1>2, <2>5 DEF Held, Now, Inv, TypeOK, Entry
    <3>2. /\ e.stream = o.stream /\ e.n \in Nat /\ e.n < MaxSent
          /\ Wire(e) + SeqMod = e.x /\ e.x - o.x = e.n - o.n
      BY <3>1, CrossedWire
    <3>3. ~(q.n < e.n /\ w > Wire(e))
      BY <1>1, <3>1, <3>2 DEF Astray, w
    <3> DEFINE y == Wire(e)
    <3>4. y + SeqMod - o.x = e.n - o.n /\ y \in Int /\ e.x \in Nat /\ e.x = y + SeqMod
      <4>1. e.x \in Nat
        BY DEF Inv, TypeOK, Entry
      <4>2. y + SeqMod = e.x
        BY <3>2
      <4>3. y \in Int
        <5>1. y = (setup.first[e.stream] + e.n) % SeqMod
          BY DEF Wire
        <5>2. setup.first[e.stream] + e.n \in Int
          BY <1>2, <3>2, RtpAssumption DEF Inv, TypeOK, Seq16
        <5> HIDE DEF y
        <5> QED BY <5>1, <5>2, Modulo, RtpAssumption DEF Seq16
      <4> HIDE DEF y
      <4> QED BY <1>2, <1>3, <3>2, <4>1, <4>2, <4>3
    <3> HIDE DEF y
    <3>5. Apart(q.n, w, e.n, y)
      <4>1. Apart(q.n, Wire([stream |-> o.stream, n |-> q.n]), e.n, Wire([stream |-> o.stream, n |-> e.n]))
        BY <1>2, <1>4, <3>2, WireOf
      <4>2. /\ Wire([stream |-> o.stream, n |-> q.n]) = w
            /\ Wire([stream |-> o.stream, n |-> e.n]) = y
        BY <3>2 DEF Wire, w, y
      <4> QED BY <4>1, <4>2
    <3>6. ~(q.n < e.n /\ w > y)
      BY <3>3 DEF y
    <3>7. e.n - o.n < SeqMod
      <4>1. Apart(o.n, Wire([stream |-> o.stream, n |-> o.n]), e.n, Wire([stream |-> o.stream, n |-> e.n]))
        BY <1>2, <1>3, <1>4, <3>2, WireOf
      <4> QED BY <4>1 DEF Apart
    <3>8. y < o.x
      BY <1>2, <1>3, <3>2, <3>4, <3>7
    <3>9. w - o.x = q.n - o.n
      BY <2>1, <2>4
    <3>10. q.n < e.n
      BY <1>2, <1>3, <2>1, <3>2, <3>4, <3>5, <3>9 DEF Apart
    <3> QED BY <1>3, <2>1, <3>4, <3>6, <3>8, <3>10
  <2>6. x >= o.x
    BY <1>3, <2>1
  <2> QED BY <1>4, <2>4, <2>5, <2>6
<1>10. CASE v.cycles # 0
  <2>1. /\ tracker.probation = 0 /\ v.probation = 0 /\ v.base = tracker.base
        /\ v = tracker \/ v.max = Wire(q)
    BY <1>8, <1>10
  <2>2. ~anchors
    BY <1>1, <1>10 DEF Anchored
  <2>3. v.cycles >= SeqMod /\ v.cycles \in Nat
    BY <1>1, <1>10 DEF Based, Inv, TypeOK
  <2>4. ~hist'.mixed
    BY <1>1, <1>7, <2>1 DEF Based
  <2>5. tracker'.cycles + Wire(q) - o.x = q.n - o.n
    <3>1. /\ tracker'.init /\ tracker'.probation = 0 /\ tracker'.cycles > 0
          /\ tracker'.base = tracker.base /\ (tracker' = tracker \/ tracker'.max = Wire(q))
          /\ hist'.of = q.stream /\ hist'.anchor = hist.anchor
      BY <1>1, <1>2, <1>8, <2>1, <2>2, <2>3
    <3> QED BY <1>1, <1>7, <2>1, <2>4, <3>1, CountedFits
  <2> DEFINE w == Wire(q)
  <2>6. w \in Nat /\ x = v.cycles + w /\ v.cycles + w - o.x = q.n - o.n
    BY <1>1, <1>2, <1>5, <2>5 DEF Apart
  <2> HIDE DEF w
  <2>7. o.x < SeqMod
    BY <1>2, <1>3, <1>5 DEF Apart
  <2>8. x >= SeqMod /\ x >= o.x /\ x - o.x = q.n - o.n /\ x \in Nat
    BY <1>2, <1>3, <2>3, <2>6, <2>7
  <2> QED BY <1>2, <1>4, <2>8
<1> QED BY <1>9, <1>10

\* What FirstOut says of the next state, the buffer being sound there.
LEMMA FirstOutNext ==
  ASSUME Inv', UNCHANGED setup, NEW o, o \in out', InLine(buf' \cup out', o),
         cursor'.expected > SeqMod \/ tracker'.cycles > 0 => Crossed(buf' \cup out'),
         o.x = Wire(o), o.n < sent'[o.stream],
         tracker'.init /\ tracker'.probation = 0 =>
            hist'.of = o.stream /\ (hist'.anchor < o.n => tracker'.base <= o.x)
  PROVE  FirstOut(o)'
<1>1. Sound(Now')
  BY DEF Inv
<1>2. Now'.buf = buf' /\ Now'.out = out' /\ Now'.expected = cursor'.expected
  BY DEF Now
<1>3. Held(Now') = buf' \cup out'
  BY <1>2 DEF Held
<1>4. LinedUp(Now', o)
  BY <1>1, <1>2, <1>3 DEF LinedUp
<1>5. Wire(o)' = Wire(o)
  BY DEF Wire
<1> QED BY <1>3, <1>4, <1>5 DEF FirstOut

\* The one source of a packet that is taken is that of the first one.
LEMMA SameStream ==
  ASSUME Inv, NoRestart, NEW o \in out, o.n < sent[o.stream],
         NEW q \in Packet, q.n < sent[q.stream], setup.ssrc[q.stream] = pin.ssrc
  PROVE  q.stream = o.stream
<1>1. setup.ssrc[o.stream] = pin.ssrc
  BY DEF Inv, OneSource
<1>2. o.stream \in Stream /\ q.stream \in Stream /\ o.n \in Nat /\ q.n \in Nat
  BY DEF Inv, TypeOK, Emitted, Packet
<1>3. CASE setup.ssrc[1] # setup.ssrc[2]
  BY <1>1, <1>2, <1>3 DEF Stream
<1>4. ASSUME NEW s \in Stream, sent[s] = 0 PROVE q.stream = o.stream
  <2>1. q.stream # s /\ o.stream # s
    BY <1>2, <1>4
  <2> QED BY <1>2, <2>1 DEF Stream
<1> QED BY <1>3, <1>4 DEF NoRestart

LEMMA DispatchAligned ==
  ASSUME Inv, Inv', Based, Based', Counted, Counted', Separable, Aligned,
         NEW q \in Packet, q.n < sent[q.stream], Dispatch(q), UNCHANGED <<setup, sent>>
  PROVE  Aligned'
<1> SUFFICES ASSUME cursor'.have, NoRestart', ~hist'.astray
             PROVE  \E o \in out' : FirstOut(o)'
  BY DEF Aligned
<1>1. NoRestart /\ (tracker.init <=> cursor.have)
  BY DEF NoRestart, Based
<1>2. Wire(q) \in Seq16 /\ tracker \in Tracker /\ q.n \in Nat
  <2>1. setup.first[q.stream] + q.n \in Int
    BY RtpAssumption DEF Inv, TypeOK, Packet, Seq16
  <2> QED BY <2>1, Modulo DEF Wire, Inv, TypeOK, Tracker, Packet
<1>3. ASSUME UNCHANGED <<buf, cursor, out, hist>>, tracker'.init = tracker.init,
             tracker'.probation = tracker.probation, tracker'.cycles = tracker.cycles,
             tracker'.base = tracker.base
      PROVE  \E o \in out' : FirstOut(o)'
  <2>1. PICK o \in out : FirstOut(o)
    BY <1>1, <1>3 DEF Aligned
  <2>2. /\ InLine(Held(Now), o) /\ (cursor.expected > SeqMod => Crossed(Held(Now)))
        /\ o.x = Wire(o) /\ o.n < sent[o.stream]
        /\ tracker.cycles > 0 => Crossed(Held(Now))
        /\ tracker.init /\ tracker.probation = 0 =>
              hist.of = o.stream /\ (hist.anchor < o.n => tracker.base <= o.x)
    BY <2>1 DEF FirstOut, LinedUp, Now
  <2>3. Held(Now) = buf' \cup out'
    BY <1>3 DEF Held, Now
  <2>4. FirstOut(o)'
    BY <1>3, <2>1, <2>2, <2>3, FirstOutNext
  <2> QED BY <1>3, <2>1, <2>4
<1>4. CASE UNCHANGED <<tracker, buf, cursor, out, hist>>
  BY <1>3, <1>4
<1>5. ASSUME NEW change \in BOOLEAN,
             Observe(IF change THEN Idle ELSE tracker, Wire(q)).dropped,
             tracker' = Observe(IF change THEN Idle ELSE tracker, Wire(q)).tracker,
             UNCHANGED <<buf, cursor, out, hist>>
      PROVE  \E o \in out' : FirstOut(o)'
  <2> DEFINE u == IF change THEN Idle ELSE tracker
             seq == Wire(q)
  <2>1. u \in Tracker /\ (u.init => u = tracker)
    BY <1>2, RtpAssumption DEF Tracker, Idle, Seq16, MinSequential
  <2>2. Observe(u, seq).dropped /\ tracker' = Observe(u, seq).tracker
    BY <1>5
  <2>3. seq \in Seq16
    BY <1>2
  <2> HIDE DEF u, seq
  <2>4. ~(tracker'.probation > 0)
    BY <2>1, <2>2, <2>3, ObserveProbation
  <2>5. u.init /\ tracker' = [u EXCEPT !.bad = (seq + 1) % SeqMod]
    BY <2>1, <2>2, <2>3, <2>4, ObserveCases
  <2>6. /\ tracker'.init = tracker.init /\ tracker'.probation = tracker.probation
        /\ tracker'.cycles = tracker.cycles /\ tracker'.base = tracker.base
    BY <1>2, <2>1, <2>5 DEF Tracker
  <2> QED BY <1>3, <1>5, <2>6
<1>6. ASSUME NEW change \in BOOLEAN, ~change /\ cursor.have => setup.ssrc[q.stream] = pin.ssrc,
             NEW v, v = Observe(IF change THEN Idle ELSE tracker, Wire(q)).tracker,
             ~Observe(IF change THEN Idle ELSE tracker, Wire(q)).dropped,
             NEW x, NEW b, NEW anchors \in BOOLEAN, Taken(q, v, x, b, change, anchors)
      PROVE  \E o \in out' : FirstOut(o)'
  <2>1. /\ tracker' = v /\ x = v.cycles + Wire(q)
        /\ change \/ ~cursor.have => \E L \in SUBSET Nat :
              b = [buf |-> {}, expected |-> x, out |-> {}, lost |-> L]
        /\ ~change /\ cursor.have => b = Now
        /\ buf' = Insert(b, q, x).buf /\ out' = Insert(b, q, x).out
        /\ cursor'.expected = Insert(b, q, x).expected
        /\ anchors <=> v = Anchored(Wire(q)) /\ v # tracker
        /\ hist'.of = IF anchors THEN q.stream ELSE hist.of
        /\ hist'.anchor = IF anchors THEN q.n ELSE hist.anchor
        /\ ~Astray(Held(b), q) /\ (change \/ ~hist.astray)
        /\ ~anchors /\ v.probation = 0 => q.stream = hist.of
    BY <1>6 DEF Taken
  <2>2. /\ v.init
        /\ change \/ ~tracker.init => v.probation > 0
        /\ \/ v.probation > 0 /\ v.cycles = 0
           \/ v = Anchored(Wire(q)) /\ v # tracker /\ v.cycles = 0
           \/ /\ ~change /\ tracker.init /\ tracker.probation = 0 /\ v.probation = 0
              /\ v.base = tracker.base
              /\ \/ v = tracker
                 \/ /\ v.max = Wire(q)
                    /\ v.cycles = tracker.cycles \/ v.cycles = tracker.cycles + SeqMod
    BY <1>2, <1>6, ObserveTaken
  <2>3. x \in Nat
    BY <1>2, <2>1 DEF Inv, TypeOK, Seq16
  <2>4. CASE change \/ ~cursor.have
    <3>1. v.probation > 0 /\ v.cycles = 0
      BY <1>1, <2>2, <2>4 DEF Anchored
    <3>2. PICK L \in SUBSET Nat : b = [buf |-> {}, expected |-> x, out |-> {}, lost |-> L]
      BY <2>1, <2>4
    <3>3. /\ buf' = {} /\ cursor'.expected = x + 1 /\ x \in Keys(out')
          /\ \A p \in out' : p.x = x /\ p.stream = q.stream /\ p.n = q.n
      BY <2>1, <2>3, <3>2, InsertFirst
    <3>4. PICK o \in out' : o.x = x
      BY <3>3 DEF Keys
    <3>5. o.stream = q.stream /\ o.n = q.n /\ Wire(o) = Wire(q)
      BY <3>3 DEF Wire
    <3>6. x = Wire(q) /\ x < SeqMod /\ SeqMod \in Nat
      BY <1>2, <2>1, <3>1, RtpAssumption DEF Seq16
    <3>7. InLine(buf' \cup out', o)
      <4>1. sent[q.stream] \in Nat /\ sent[q.stream] <= MaxSent /\ MaxSent \in Nat
        BY RtpAssumption DEF Inv, TypeOK, Counted, Packet
      <4>2. q.n < MaxSent
        BY <1>2, <4>1
      <4>3. x >= x /\ x - x = 0 /\ q.n - q.n = 0
        BY <1>2, <2>3
      <4> QED BY <3>3, <3>4, <3>5, <4>2, <4>3 DEF InLine
    <3>8. ~(cursor'.expected > SeqMod) /\ ~(tracker'.cycles > 0) /\ ~(tracker'.probation = 0)
      BY <2>1, <2>3, <3>1, <3>3, <3>6
    <3>9. FirstOut(o)'
      BY <3>4, <3>5, <3>6, <3>7, <3>8, FirstOutNext
    <3> QED BY <3>4, <3>9
  <2>5. CASE ~change /\ cursor.have
    <3>1. b = Now /\ ~hist.astray /\ ~change
      BY <2>1, <2>5
    <3>2. PICK o \in out : FirstOut(o)
      BY <1>1, <2>5, <3>1 DEF Aligned
    <3>3. /\ LinedUp(Now, o) /\ o.x = Wire(o) /\ o.n < sent[o.stream]
          /\ tracker.init /\ tracker.probation = 0 =>
                hist.of = o.stream /\ (hist.anchor < o.n => tracker.base <= o.x)
      BY <3>2 DEF FirstOut
    <3>4. q.stream = o.stream
      BY <1>1, <1>6, <2>5, <3>3, SameStream
    <3>5. ~Duplicate(Now, x) => /\ q.stream = o.stream /\ q.n < MaxSent
                                /\ x >= o.x /\ x - o.x = q.n - o.n
                                /\ x < SeqMod => \A e \in Now.buf : e.x < SeqMod
      <4> SUFFICES ASSUME ~Duplicate(Now, x)
                   PROVE  /\ q.n < MaxSent /\ x >= o.x /\ x - o.x = q.n - o.n
                          /\ x < SeqMod => \A e \in buf : e.x < SeqMod
        BY <3>4 DEF Now
      <4>1. /\ ~Observe(tracker, Wire(q)).dropped /\ v = Observe(tracker, Wire(q)).tracker
            /\ Taken(q, v, x, Now, FALSE, anchors)
        <5>1. change = FALSE
          BY <3>1
        <5> QED BY <1>6, <3>1, <5>1
      <4> QED BY <2>5, <3>1, <3>2, <3>4, <4>1, TakenFits
    <3>6. Cardinality(Now.buf) <= MaxWindow
      BY DEF Inv, Now
    <3> DEFINE c == Insert(Now, q, x)
    <3>7. LinedUp(c, o) /\ (x >= SeqMod \/ Crossed(Held(Now)) => Crossed(Held(c)))
      BY <2>3, <3>3, <3>5, <3>6, InsertLine
    <3>8. buf' = c.buf /\ out' = c.out /\ cursor'.expected = c.expected
      BY <2>1, <3>1
    <3> HIDE DEF c
    <3>9. /\ o \in out' /\ InLine(buf' \cup out', o)
          /\ cursor'.expected > SeqMod => Crossed(buf' \cup out')
          /\ x >= SeqMod => Crossed(buf' \cup out')
      BY <3>7, <3>8 DEF LinedUp, Held
    <3>10. tracker'.cycles > 0 => x >= SeqMod
      <4>1. tracker'.cycles \in Nat /\ (tracker'.cycles = 0 \/ tracker'.cycles >= SeqMod)
        BY DEF Based, Inv, TypeOK
      <4>2. Wire(q) \in Nat /\ SeqMod \in Nat
        BY <1>2, RtpAssumption DEF Seq16
      <4> QED BY <2>1, <4>1, <4>2
    <3>11. ASSUME tracker'.init, tracker'.probation = 0
           PROVE  hist'.of = o.stream /\ (hist'.anchor < o.n => tracker'.base <= o.x)
      <4>1. CASE anchors
        <5>1. hist'.of = q.stream /\ hist'.anchor = q.n /\ tracker'.base = Wire(q)
          BY <2>1, <4>1 DEF Anchored
        <5>2. ~(q.n < o.n /\ Wire(q) > Wire(o))
          <6>1. o \in Held(Now)
            BY <3>2 DEF Held, Now
          <6> QED BY <2>1, <3>1, <3>4, <6>1 DEF Astray
        <5>3. o.x \in Nat /\ Wire(q) \in Nat
          BY <1>2, <3>2 DEF Inv, TypeOK, Emitted, Seq16
        <5> HIDE DEF Wire
        <5> QED BY <3>3, <3>4, <5>1, <5>2, <5>3
      <4>2. CASE ~anchors
        <5>1. q.stream = hist.of /\ hist'.of = hist.of /\ hist'.anchor = hist.anchor
          BY <2>1, <3>11, <4>2
        <5>2. tracker.init /\ tracker.probation = 0 /\ tracker'.base = tracker.base
          BY <2>1, <2>2, <3>11, <4>2
        <5> QED BY <3>3, <5>1, <5>2
      <4> QED BY <4>1, <4>2
    <3>12. FirstOut(o)'
      BY <3>3, <3>9, <3>10, <3>11, FirstOutNext
    <3> QED BY <3>9, <3>12
  <2> QED BY <2>4, <2>5
<1> QED BY <1>4, <1>5, <1>6, DispatchForm

LEMMA AlignedStep ==
  ASSUME Inv, Inv', Based, Based', Counted, Counted', Separable, Aligned, [Next]_vars
  PROVE  Aligned'
<1>1. ASSUME sent' \in [Stream -> Nat], \A s \in Stream : sent[s] <= sent'[s],
             UNCHANGED <<setup, tracker, cursor, out, hist>>,
             \A e \in buf' : \E f \in buf : Same(e, f),
             \A f \in buf : \E e \in buf' : Same(e, f)
      PROVE  Aligned'
  <2> SUFFICES ASSUME cursor'.have, NoRestart', ~hist'.astray
               PROVE  \E o \in out' : FirstOut(o)'
    BY DEF Aligned
  <2>1. NoRestart
    <3>1. CASE setup'.ssrc[1] # setup'.ssrc[2]
      BY <1>1, <3>1 DEF NoRestart
    <3>2. ASSUME NEW s \in Stream, sent'[s] = 0 PROVE NoRestart
      <4>1. sent[s] \in Nat /\ sent[s] <= 0
        BY <1>1, <3>2 DEF Inv, TypeOK
      <4> QED BY <4>1 DEF NoRestart
    <3> QED BY <3>1, <3>2 DEF NoRestart
  <2>2. PICK o \in out : FirstOut(o)
    BY <1>1, <2>1 DEF Aligned
  <2>3. /\ InLine(Held(Now), o) /\ (cursor.expected > SeqMod => Crossed(Held(Now)))
        /\ o.x = Wire(o) /\ o.n < sent[o.stream]
        /\ tracker.cycles > 0 => Crossed(Held(Now))
        /\ tracker.init /\ tracker.probation = 0 =>
              hist.of = o.stream /\ (hist.anchor < o.n => tracker.base <= o.x)
    BY <2>2 DEF FirstOut, LinedUp, Now
  <2>4. /\ \A e \in buf' \cup out' : \E f \in Held(Now) : Same(e, f)
        /\ \A f \in Held(Now) : \E e \in buf' \cup out' : Same(e, f)
    <3>1. Held(Now) = buf \cup out
      BY DEF Held, Now
    <3>2. \A p \in out : Same(p, p)
      BY DEF Same
    <3> QED BY <1>1, <3>1, <3>2
  <2>5. InLine(buf' \cup out', o)
    BY <2>3, <2>4 DEF InLine, Same
  <2>6. Crossed(Held(Now)) => Crossed(buf' \cup out')
    BY <2>4 DEF Crossed, Same
  <2>7. o.n < sent'[o.stream]
    <3>1. o.n \in Nat /\ o.stream \in Stream /\ sent[o.stream] \in Nat
      BY <2>2 DEF Inv, TypeOK, Emitted
    <3>2. sent'[o.stream] \in Nat /\ sent[o.stream] <= sent'[o.stream]
      BY <1>1, <3>1
    <3> QED BY <2>3, <3>1, <3>2
  <2>8. FirstOut(o)'
    BY <1>1, <2>2, <2>3, <2>5, <2>6, <2>7, FirstOutNext
  <2> QED BY <1>1, <2>2, <2>8
<1>2. sent \in [Stream -> Nat] /\ \A e \in buf : Same(e, e)
  BY DEF Inv, TypeOK, Same
<1>3. ASSUME NEW s \in Stream, Send(s) PROVE Aligned'
  <2>1. sent' = [sent EXCEPT ![s] = @ + 1] /\ UNCHANGED <<setup, tracker, buf, cursor, out, hist>>
    BY <1>3 DEF Send
  <2>2. sent' \in [Stream -> Nat] /\ \A r \in Stream : sent[r] <= sent'[r]
    BY <1>2, <2>1
  <2> QED BY <1>1, <1>2, <2>1, <2>2
<1>4. ASSUME NEW s \in Stream, NEW n \in 0 .. MaxSent - 1, Arrive([stream |-> s, n |-> n])
      PROVE  Aligned'
  <2> DEFINE q == [stream |-> s, n |-> n]
  <2>1. q \in Packet
    BY RtpAssumption DEF Packet
  <2>2. q.n < sent[q.stream] /\ Dispatch(q) /\ UNCHANGED <<setup, sent>>
    BY <1>4 DEF Arrive
  <2> HIDE DEF q
  <2> QED BY <2>1, <2>2, DispatchAligned
<1>5. CASE Tick
  <2>1. /\ UNCHANGED <<setup, sent, tracker, cursor, out, hist>>
        /\ buf' = {[e EXCEPT !.age = Older(@, setup.delay)] : e \in buf}
    BY <1>5 DEF Tick
  <2>2. ASSUME NEW e \in buf PROVE Same([e EXCEPT !.age = Older(@, setup.delay)], e)
    <3>1. e \in Entry
      BY DEF Inv, TypeOK
    <3> QED BY <3>1 DEF Entry, Same
  <2>3. /\ \A e \in buf' : \E f \in buf : Same(e, f)
        /\ \A f \in buf : \E e \in buf' : Same(e, f)
    BY <2>1, <2>2
  <2>4. \A s \in Stream : sent[s] <= sent[s]
    BY <1>2
  <2> QED BY <1>1, <1>2, <2>1, <2>3, <2>4
<1>6. CASE UNCHANGED vars
  <2>1. \A s \in Stream : sent[s] <= sent[s]
    BY <1>2
  <2> QED BY <1>1, <1>2, <1>6, <2>1 DEF vars
<1> QED BY <1>3, <1>4, <1>5, <1>6 DEF Next

\* rtpseqreorderbuffer.cpp: packets are delivered in the order of their sender, over wraps, gaps,
\* repetitions, evictions, late packets and changes of SSRC, unless one came late across a wrap:
\* as long as a late packet and a gap can be told apart, and no sender restarts under its SSRC.
THEOREM RtpSentOrder == ASSUME Separable PROVE Spec => [](NoRestart => SentOrder)
<1>1. Inv /\ Aligned => (NoRestart => SentOrder)
  <2> SUFFICES ASSUME Inv, Aligned, NoRestart, ~hist.astray,
                      NEW p \in out, NEW q \in out, p.stream = q.stream, p.x < q.x
               PROVE  p.n < q.n
    BY DEF SentOrder
  <2>1. PICK o \in out : InLine(Held(Now), o)
    BY DEF Aligned, Inv, FirstOut, LinedUp
  <2>2. p.x - o.x = p.n - o.n /\ q.x - o.x = q.n - o.n
    BY <2>1 DEF InLine, Held, Now
  <2>3. /\ p.x \in Nat /\ p.n \in Nat /\ q.x \in Nat /\ q.n \in Nat /\ o.x \in Nat /\ o.n \in Nat
    BY DEF Inv, TypeOK, Emitted
  <2> QED BY <2>2, <2>3
<1>2. Inv /\ Based /\ [Next]_vars => Based'
  BY BasedStep
<1>3. Inv /\ Counted /\ [Next]_vars => Counted'
  BY CountedStep
<1>4. Inv /\ Inv' /\ Based /\ Based' /\ Counted /\ Counted' /\ Aligned /\ [Next]_vars => Aligned'
  BY AlignedStep
<1>5. Spec => []Based
  BY <1>2, BasedInit, Invariance, PTL DEF Spec
<1>6. Spec => []Counted
  BY <1>3, CountedInit, Invariance, PTL DEF Spec
<1> QED BY <1>1, <1>4, <1>5, <1>6, AlignedInit, Invariance, PTL DEF Spec

=============================================================================
