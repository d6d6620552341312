-------------------------- MODULE FrameBridgeProofs --------------------------
(***************************************************************************)
(* Theorems about FrameBridge, for any inputs, ring, attempts and setups.   *)
(*                                                                         *)
(* The seqlock: counters and frames of a slot never go back, and are odd    *)
(* only while the writer is at it.  The lockstep: a sync input is at most   *)
(* one frame behind, and only while the writer waits for it.                *)
(***************************************************************************)
EXTENDS FrameBridge, SequenceTheorems, TLAPS

Ring == 0 .. Depth - 1
ToInput == Tick \cup Bye

-----------------------------------------------------------------------------
(* Messages of one kind in a queue.                                         *)

Keyed(q, k) == {q[j] : j \in {l \in 1 .. Len(q) : q[l].key = k}}
Alone(q, k) == \A j, l \in 1 .. Len(q) : q[j].key = k /\ q[l].key = k => j = l

\* A queue that is empty has none.
LEMMA KeyedNone == ASSUME NEW k PROVE Keyed(<<>>, k) = {} /\ Alone(<<>>, k)
<1>1. PICK q \in Seq({k}) : q = <<>>
  BY EmptySeq
<1>2. Len(q) = 0
  BY <1>1
<1>3. 1 .. Len(q) = {}
  BY <1>2
<1>4. Keyed(q, k) = {} /\ Alone(q, k)
  BY <1>3 DEF Keyed, Alone
<1> QED BY <1>1, <1>4

\* One message more.
LEMMA KeyedAppend ==
  ASSUME NEW S, NEW q \in Seq(S), NEW m \in S, NEW k
  PROVE  /\ Append(q, m) \in Seq(S)
         /\ Keyed(Append(q, m), k) = IF m.key = k THEN Keyed(q, k) \cup {m} ELSE Keyed(q, k)
         /\ m.key # k /\ Alone(q, k) => Alone(Append(q, m), k)
         /\ Keyed(q, k) = {} => Alone(Append(q, m), k)
<1> DEFINE a == Append(q, m)
<1>1. /\ a \in Seq(S) /\ Len(a) = Len(q) + 1 /\ Len(q) \in Nat
      /\ a[Len(q) + 1] = m /\ \A j \in 1 .. Len(q) : a[j] = q[j]
  OBVIOUS
<1> HIDE DEF a
<1>2. \A x : x \in Keyed(a, k) <=> \E j \in 1 .. Len(a) : a[j].key = k /\ x = a[j]
  BY DEF Keyed
<1>3. \A x : x \in Keyed(q, k) <=> \E j \in 1 .. Len(q) : q[j].key = k /\ x = q[j]
  BY DEF Keyed
<1>4. \A x : x \in Keyed(a, k) <=> x \in Keyed(q, k) \/ (m.key = k /\ x = m)
  BY <1>1, <1>2, <1>3
<1>5. m.key # k /\ Alone(q, k) => Alone(a, k)
  BY <1>1 DEF Alone
<1>6. ASSUME Keyed(q, k) = {} PROVE Alone(a, k)
  <2>1. \A j \in 1 .. Len(q) : q[j].key # k
    BY <1>3, <1>6
  <2>2. \A j \in 1 .. Len(a) : a[j].key = k => j = Len(q) + 1
    BY <1>1, <2>1
  <2> QED BY <2>2 DEF Alone
<1>7. Keyed(a, k) = IF m.key = k THEN Keyed(q, k) \cup {m} ELSE Keyed(q, k)
  BY <1>4
<1> QED BY <1>1, <1>5, <1>6, <1>7 DEF a

\* The first message is taken.
LEMMA KeyedTail ==
  ASSUME NEW S, NEW q \in Seq(S), q # <<>>, NEW k
  PROVE  /\ Head(q) \in S /\ Tail(q) \in Seq(S)
         /\ Keyed(Tail(q), k) \subseteq Keyed(q, k)
         /\ Head(q).key = k => Head(q) \in Keyed(q, k)
         /\ Head(q).key # k => Keyed(Tail(q), k) = Keyed(q, k)
         /\ Alone(q, k) => Alone(Tail(q), k) /\ (Head(q).key = k => Keyed(Tail(q), k) = {})
<1> DEFINE t == Tail(q)
<1>1. /\ Len(q) \in Nat /\ Len(q) > 0 /\ t \in Seq(S) /\ Len(t) = Len(q) - 1
      /\ Head(q) = q[1] /\ Head(q) \in S /\ \A j \in 1 .. (Len(q) - 1) : t[j] = q[j + 1]
  OBVIOUS
<1> HIDE DEF t
<1>2. \A x : x \in Keyed(t, k) <=> \E j \in 1 .. Len(t) : t[j].key = k /\ x = t[j]
  BY DEF Keyed
<1>3. \A x : x \in Keyed(q, k) <=> \E j \in 1 .. Len(q) : q[j].key = k /\ x = q[j]
  BY DEF Keyed
<1>4. \A j \in 1 .. Len(t) : j + 1 \in 1 .. Len(q) /\ t[j] = q[j + 1]
  BY <1>1
<1>5. \A j \in 1 .. Len(q) : j = 1 \/ (j - 1 \in 1 .. Len(t) /\ t[j - 1] = q[j])
  BY <1>1
<1>6. Keyed(t, k) \subseteq Keyed(q, k)
  BY <1>2, <1>3, <1>4
<1>7. 1 \in 1 .. Len(q)
  BY <1>1
<1>8. Head(q).key = k => Head(q) \in Keyed(q, k)
  BY <1>1, <1>3, <1>7
<1>9. ASSUME Head(q).key # k PROVE Keyed(q, k) \subseteq Keyed(t, k)
  BY <1>1, <1>2, <1>3, <1>5, <1>9
<1>10. ASSUME Alone(q, k) PROVE Alone(t, k)
  <2> SUFFICES ASSUME NEW j \in 1 .. Len(t), NEW l \in 1 .. Len(t), t[j].key = k, t[l].key = k
               PROVE  j = l
    BY DEF Alone
  <2>1. j + 1 = l + 1
    BY <1>4, <1>10 DEF Alone
  <2> QED BY <1>1, <2>1
<1>11. ASSUME Alone(q, k), Head(q).key = k PROVE Keyed(t, k) = {}
  <2> SUFFICES ASSUME NEW j \in 1 .. Len(t), t[j].key = k PROVE FALSE
    BY <1>2
  <2>1. q[j + 1].key = k /\ q[1].key = k /\ j + 1 \in 1 .. Len(q)
    BY <1>1, <1>4, <1>11
  <2>2. j + 1 = 1
    BY <1>7, <1>11, <2>1 DEF Alone
  <2> QED BY <1>1, <2>2
<1> QED BY <1>1, <1>6, <1>8, <1>9, <1>10, <1>11 DEF t
-----------------------------------------------------------------------------
(* Types.                                                                   *)

\* The messages, by key.
LEMMA Messages ==
  /\ \A m \in ToInput : m.key = "TICK" => m \in Tick
  /\ \A m \in FromInput : m.key = "ACKT" => m.seq \in Nat
  /\ [key |-> "BYE"] \in ToInput /\ [key |-> "BYE"] \in FromInput /\ [key |-> "REDY"] \in FromInput
  /\ \A n \in Nat : [key |-> "ACKT", seq |-> n] \in FromInput
BY DEF ToInput, Tick, Bye, FromInput

\* Every step keeps the types.
LEMMA Typed == ASSUME TypeOK, [Next]_vars PROVE TypeOK'
<1> USE DEF ToInput, writer, members, ring, sockets, reader
<1>a. /\ number \in Nat /\ index \in 0 .. Depth - 1 /\ seq \in Nat /\ fails \in 0 .. MaxFails
      /\ slot \in [0 .. Depth - 1 -> [seq : Nat, frame : Nat, body : Nat]] /\ failed \subseteq Nat
  BY DEF TypeOK
<1>b. /\ clients \subseteq Input /\ todo \subseteq Input /\ parked \subseteq Input
      /\ alive \in [Input -> BOOLEAN]
      /\ down \in [Input -> Seq(ToInput)] /\ up \in [Input -> Seq(FromInput)]
      /\ st \in [Input -> {"out", "connecting", "open", "gone"}]
      /\ sent \in [Input -> Seq(Nat)] /\ got \in [Input -> Seq(Nat)] /\ noticed \subseteq Input
  BY DEF TypeOK
<1>c. /\ tick \in [Input -> [fresh : BOOLEAN, slot : 0 .. Depth - 1, seq : Nat, frame : Nat]]
      /\ rpc \in [Input -> {"drain", "load", "copy", "check"}] /\ tries \in [Input -> Nat]
      /\ copy \in [Input -> [seq : Nat, frame : Nat, body : Nat]]
  BY DEF TypeOK
<1>d. Depth \in Nat \ {0} /\ MaxFails \in Nat /\ 0 \in 0 .. Depth - 1
  BY BridgeAssumption
<1>1. CASE WriteFrame
  <2>1. clients' \subseteq Input /\ parked' = {} /\ pc' \in {"begin", "wait", "idle"}
    BY <1>b, <1>1 DEF WriteFrame, Service, Serviced
  <2>2. number' = number \/ number' = number + 1
    BY <1>1 DEF WriteFrame
  <2>3. number' \in Nat
    BY <1>a, <2>2
  <2>4. UNCHANGED <<setup, aborted, todo, index, seq, shaking, slot, alive, down, up, st, tick, rpc, tries, copy, fails, failed, sent, got, noticed>>
    BY <1>1 DEF WriteFrame
  <2> QED BY <2>1, <2>3, <2>4 DEF TypeOK
<1>2. CASE Poll
  BY <1>2 DEF Poll, Service, Serviced, TypeOK
<1>3. CASE Woken
  BY <1>3 DEF Woken, TypeOK
<1>4. CASE BeginWrite
  <2>1. slot' \in [0 .. Depth - 1 -> [seq : Nat, frame : Nat, body : Nat]] /\ pc' = "fill"
    <3>1. slot[index].seq \in Nat /\ slot[index].body \in Nat
      BY <1>a
    <3>2. [seq |-> slot[index].seq + 1, frame |-> number, body |-> slot[index].body]
             \in [seq : Nat, frame : Nat, body : Nat]
      BY <1>a, <3>1
    <3> QED BY <1>a, <1>4, <3>2 DEF BeginWrite
  <2>2. UNCHANGED <<setup, aborted, clients, todo, number, index, seq, shaking, parked, alive, down, up, st, tick, rpc, tries, copy, fails, failed, sent, got, noticed>>
    BY <1>4 DEF BeginWrite
  <2> QED BY <2>1, <2>2 DEF TypeOK
<1>5. CASE EndWrite
  <2>1. slot' \in [0 .. Depth - 1 -> [seq : Nat, frame : Nat, body : Nat]]
    <3>1. slot[index] \in [seq : Nat, frame : Nat, body : Nat]
      BY <1>a
    <3>2. [seq |-> slot[index].seq + 1, frame |-> slot[index].frame, body |-> number]
             \in [seq : Nat, frame : Nat, body : Nat]
      BY <1>a, <3>1
    <3> QED BY <1>a, <1>5, <3>2 DEF EndWrite
  <2>2. seq' \in Nat /\ pc' = "tick" /\ todo' = clients
    BY <1>a, <1>b, <1>c, <1>d, <1>5, <2>1 DEF EndWrite
  <2>3. UNCHANGED <<setup, aborted, clients, number, index, shaking, parked, alive, down, up, st, tick, rpc, tries, copy, fails, failed, sent, got, noticed>>
    BY <1>5 DEF EndWrite
  <2> QED BY <2>1, <2>2, <2>3 DEF TypeOK
<1>6. CASE FailWrite
  <2>1. slot' \in [0 .. Depth - 1 -> [seq : Nat, frame : Nat, body : Nat]]
    <3>1. slot[index] \in [seq : Nat, frame : Nat, body : Nat]
      BY <1>a
    <3>2. [slot[index] EXCEPT !.seq = slot[index].seq + 1] \in [seq : Nat, frame : Nat, body : Nat]
      BY <3>1
    <3> QED BY <1>a, <1>6, <3>2 DEF FailWrite
  <2>2. fails' \in 0 .. MaxFails /\ failed' \subseteq Nat /\ pc' = "idle"
    BY <1>a, <1>b, <1>c, <1>d, <1>6 DEF FailWrite
  <2>3. UNCHANGED <<setup, aborted, clients, todo, number, index, seq, shaking, parked, alive, down, up, st, tick, rpc, tries, copy, sent, got, noticed>>
    BY <1>6 DEF FailWrite
  <2> QED BY <2>1, <2>2, <2>3 DEF TypeOK
<1>7. CASE TicksSent
  BY <1>7 DEF TicksSent, TypeOK
<1>8. CASE WriteDone
  <2>1. index' \in 0 .. Depth - 1 /\ number' \in Nat /\ pc' = "idle"
    BY <1>a, <1>b, <1>c, <1>d, <1>8 DEF WriteDone
  <2>2. UNCHANGED <<setup, aborted, clients, todo, seq, shaking, parked, slot, alive, down, up, st, tick, rpc, tries, copy, fails, failed, sent, got, noticed>>
    BY <1>8 DEF WriteDone
  <2> QED BY <2>1, <2>2 DEF TypeOK
<1>9. CASE Abort
  BY <1>9 DEF Abort, TypeOK
<1>10. CASE Close
  BY <1>10 DEF Close, TypeOK
<1>11. CASE FinishClose
  <2>1. down' \in [Input -> Seq(ToInput)]
    <3>1. \A i \in Input : Append(down[i], [key |-> "BYE"]) \in Seq(ToInput)
      <4> TAKE i \in Input
      <4>1. down[i] \in Seq(ToInput) /\ [key |-> "BYE"] \in ToInput
        BY <1>b, Messages
      <4> HIDE DEF ToInput
      <4> QED BY <4>1, KeyedAppend
    <3>2. \A i \in Input : down[i] \in Seq(ToInput)
      BY <1>b
    <3> HIDE DEF ToInput
    <3> QED BY <1>11, <3>1, <3>2 DEF FinishClose
  <2>2. up' \in [Input -> Seq(FromInput)]
    BY <1>a, <1>b, <1>c, <1>d, <1>11 DEF FinishClose
  <2>3. pc' = "closed" /\ clients' = {} /\ parked' = {}
    BY <1>a, <1>b, <1>c, <1>d, <1>11 DEF FinishClose
  <2>4. UNCHANGED <<setup, aborted, todo, number, index, seq, shaking, slot, alive, st, tick, rpc, tries, copy, fails, failed, sent, got, noticed>>
    BY <1>11 DEF FinishClose
  <2> QED BY <2>1, <2>2, <2>3, <2>4 DEF TypeOK
<1>12. CASE Crash
  <2>1. up' \in [Input -> Seq(FromInput)]
    BY <1>a, <1>b, <1>c, <1>d, <1>12 DEF Crash
  <2>2. pc' = "crashed" /\ clients' = {} /\ parked' = {} /\ shaking' = None
    BY <1>a, <1>b, <1>c, <1>d, <1>12 DEF Crash
  <2>3. UNCHANGED <<setup, aborted, todo, number, index, seq, slot, alive, down, st, tick, rpc, tries, copy, fails, failed, sent, got, noticed>>
    BY <1>12 DEF Crash
  <2> QED BY <2>1, <2>2, <2>3 DEF TypeOK
<1>13. ASSUME NEW i \in Input, EmitTick(i) PROVE TypeOK'
  <2>1. [key |-> "TICK", slot |-> index, seq |-> seq, frame |-> number] \in ToInput
    BY <1>a, <1>b, <1>c, <1>d, <1>13 DEF EmitTick, ToInput, Tick
  <2>2. down' \in [Input -> Seq(ToInput)] /\ sent' \in [Input -> Seq(Nat)] /\ alive' \in [Input -> BOOLEAN]
    <3>1. down[i] \in Seq(ToInput) /\ sent[i] \in Seq(Nat)
      BY <1>b
    <3> HIDE DEF ToInput
    <3>2. Append(down[i], [key |-> "TICK", slot |-> index, seq |-> seq, frame |-> number]) \in Seq(ToInput)
      BY <2>1, <3>1, KeyedAppend
    <3>3. Append(sent[i], number) \in Seq(Nat)
      BY <1>a, <3>1
    <3>4. CASE alive[i] /\ st[i] # "gone"
      <4>1. /\ down' = [down EXCEPT ![i] = Append(down[i],
                          [key |-> "TICK", slot |-> index, seq |-> seq, frame |-> number])]
            /\ sent' = [sent EXCEPT ![i] = Append(sent[i], number)] /\ alive' = alive
        BY <1>13, <3>4 DEF EmitTick
      <4> QED BY <1>b, <3>2, <3>3, <4>1
    <3>5. CASE ~(alive[i] /\ st[i] # "gone")
      BY <1>b, <1>13, <3>5 DEF EmitTick
    <3> QED BY <3>4, <3>5
  <2>3. clients' \subseteq Input /\ todo' \subseteq Input
    BY <1>a, <1>b, <1>c, <1>d, <1>13 DEF EmitTick
  <2>4. UNCHANGED <<setup, pc, aborted, number, index, seq, shaking, parked, slot, up, st, tick, rpc, tries, copy, fails, failed, got, noticed>>
    BY <1>13 DEF EmitTick
  <2> QED BY <2>1, <2>2, <2>3, <2>4 DEF TypeOK
<1>14. ASSUME NEW i \in Input, Receive(i) PROVE TypeOK'
  <2>1. up' \in [Input -> Seq(FromInput)]
    BY <1>a, <1>b, <1>c, <1>d, <1>14 DEF Receive
  <2>2. clients' \subseteq Input /\ todo' \subseteq Input
    BY <1>a, <1>b, <1>c, <1>d, <1>14 DEF Receive
  <2>3. UNCHANGED <<setup, pc, aborted, number, index, seq, shaking, parked, slot, alive, down, st, tick, rpc, tries, copy, fails, failed, sent, got, noticed>>
    BY <1>14 DEF Receive
  <2> QED BY <2>1, <2>2, <2>3 DEF TypeOK
<1>15. ASSUME NEW i \in Input, Pass(i) PROVE TypeOK'
  BY <1>15 DEF Pass, TypeOK
<1>16. ASSUME NEW i \in Input, GiveUp(i) PROVE TypeOK'
  <2>1. up' \in [Input -> Seq(FromInput)]
    BY <1>a, <1>b, <1>c, <1>d, <1>16 DEF GiveUp
  <2>2. clients' \subseteq Input /\ todo' \subseteq Input
    BY <1>a, <1>b, <1>c, <1>d, <1>16 DEF GiveUp, Without
  <2>3. UNCHANGED <<setup, pc, aborted, number, index, seq, shaking, parked, slot, alive, down, st, tick, rpc, tries, copy, fails, failed, sent, got, noticed>>
    BY <1>16 DEF GiveUp
  <2> QED BY <2>1, <2>2, <2>3 DEF TypeOK
<1>17. ASSUME NEW i \in Input, Connect(i) PROVE TypeOK'
  BY <1>17 DEF Connect, TypeOK
<1>18. ASSUME NEW i \in Input, Accept(i) PROVE TypeOK'
  BY <1>18 DEF Accept, TypeOK
<1>19. ASSUME NEW i \in Input, Ready(i) PROVE TypeOK'
  <2>1. up' \in [Input -> Seq(FromInput)]
    BY <1>a, <1>b, <1>c, <1>d, <1>19, Messages DEF Ready
  <2>2. st' \in [Input -> {"out", "connecting", "open", "gone"}]
    BY <1>a, <1>b, <1>c, <1>d, <1>19 DEF Ready
  <2>3. UNCHANGED <<setup, pc, aborted, clients, todo, number, index, seq, shaking, parked, slot, alive, down, tick, rpc, tries, copy, fails, failed, sent, got, noticed>>
    BY <1>19 DEF Ready
  <2> QED BY <2>1, <2>2, <2>3 DEF TypeOK
<1>20. ASSUME NEW i \in Input, Park(i) PROVE TypeOK'
  <2>1. up' \in [Input -> Seq(FromInput)] /\ alive' \in [Input -> BOOLEAN]
    <3>1. up[i] \in Seq(FromInput) /\ up[i] # <<>>
      BY <1>b, <1>20 DEF Park
    <3>2. Tail(up[i]) \in Seq(FromInput)
      BY <3>1, KeyedTail
    <3> QED BY <1>b, <1>20, <3>2 DEF Park
  <2>2. shaking' = None /\ parked' \subseteq Input
    BY <1>a, <1>b, <1>c, <1>d, <1>20 DEF Park
  <2>3. UNCHANGED <<setup, pc, aborted, clients, todo, number, index, seq, slot, down, st, tick, rpc, tries, copy, fails, failed, sent, got, noticed>>
    BY <1>20 DEF Park
  <2> QED BY <2>1, <2>2, <2>3 DEF TypeOK
<1>21. ASSUME NEW i \in Input, Discard(i) PROVE TypeOK'
  <2>1. up' \in [Input -> Seq(FromInput)]
    BY <1>a, <1>b, <1>c, <1>d, <1>21 DEF Discard
  <2>2. st' \in [Input -> {"out", "connecting", "open", "gone"}] /\ shaking' = None
    BY <1>a, <1>b, <1>c, <1>d, <1>21 DEF Discard
  <2>3. UNCHANGED <<setup, pc, aborted, clients, todo, number, index, seq, parked, slot, alive, down, tick, rpc, tries, copy, fails, failed, sent, got, noticed>>
    BY <1>21 DEF Discard
  <2> QED BY <2>1, <2>2, <2>3 DEF TypeOK
<1>22. ASSUME NEW i \in Input, OpenFails(i) PROVE TypeOK'
  BY <1>22 DEF OpenFails, TypeOK
<1>23. ASSUME NEW i \in Input, Drain(i) PROVE TypeOK'
  <2>1. down[i] \in Seq(ToInput) /\ down[i] # <<>>
    <3>1. PICK k \in DOMAIN down[i] : down[i][k].key = "TICK"
      BY <1>23 DEF Drain, Available
    <3>2. down[i] \in Seq(ToInput)
      BY <1>b
    <3>3. DOMAIN down[i] = 1 .. Len(down[i])
      BY <3>2
    <3> QED BY <3>1, <3>2, <3>3, EmptySeq
  <2>2. Head(down[i]) \in ToInput /\ Tail(down[i]) \in Seq(ToInput)
    <3> HIDE DEF ToInput
    <3> QED BY <2>1, KeyedTail
  <2>3. down' \in [Input -> Seq(ToInput)]
    BY <1>a, <1>b, <1>c, <1>d, <1>23, <2>2 DEF Drain, ToInput
  <2>4. tick' \in [Input -> [fresh : BOOLEAN, slot : 0 .. Depth - 1, seq : Nat, frame : Nat]]
    BY <1>a, <1>b, <1>c, <1>d, <1>23, <2>2, Messages DEF Drain, Tick
  <2>5. noticed' \subseteq Input
    BY <1>a, <1>b, <1>c, <1>d, <1>23 DEF Drain
  <2>6. UNCHANGED <<setup, pc, aborted, clients, todo, number, index, seq, shaking, parked, slot, alive, up, st, rpc, tries, copy, fails, failed, sent, got>>
    BY <1>23 DEF Drain
  <2> QED BY <2>1, <2>2, <2>3, <2>4, <2>5, <2>6 DEF TypeOK
<1>24. ASSUME NEW i \in Input, ReadSlot(i) PROVE TypeOK'
  BY <1>24 DEF ReadSlot, TypeOK
<1>25. ASSUME NEW i \in Input, Load(i) PROVE TypeOK'
  <2>1. copy' \in [Input -> [seq : Nat, frame : Nat, body : Nat]]
    <3>1. slot[tick[i].slot].seq \in Nat /\ copy[i] \in [seq : Nat, frame : Nat, body : Nat]
      BY <1>a, <1>c
    <3>2. \A s \in Nat : [copy[i] EXCEPT !.seq = s] \in [seq : Nat, frame : Nat, body : Nat]
      BY <3>1
    <3>3. \A s \in Nat : [copy EXCEPT ![i].seq = s] \in [Input -> [seq : Nat, frame : Nat, body : Nat]]
      BY <1>c, <3>2
    <3> QED BY <1>c, <1>25, <3>1, <3>3 DEF Load
  <2>2. rpc' \in [Input -> {"drain", "load", "copy", "check"}] /\ tries' \in [Input -> Nat]
    <3>1. Retry(i) \/ (rpc' = [rpc EXCEPT ![i] = "copy"] /\ tries' = tries)
      BY <1>25 DEF Load
    <3>2. Retry(i) => rpc' \in [Input -> {"drain", "load", "copy", "check"}] /\ tries' \in [Input -> Nat]
      BY <1>c DEF Retry
    <3> QED BY <1>c, <3>1, <3>2
  <2>3. UNCHANGED <<setup, pc, aborted, clients, todo, number, index, seq, shaking, parked, slot, alive, down, up, st, tick, fails, failed, sent, got, noticed>>
    BY <1>25 DEF Load
  <2> QED BY <2>1, <2>2, <2>3 DEF TypeOK
<1>26. ASSUME NEW i \in Input, Copy(i) PROVE TypeOK'
  BY <1>26 DEF Copy, TypeOK
<1>27. ASSUME NEW i \in Input, Check(i) PROVE TypeOK'
  <2>1. copy' \in [Input -> [seq : Nat, frame : Nat, body : Nat]]
    BY <1>a, <1>b, <1>c, <1>d, <1>27 DEF Check, NoCopy
  <2>2. rpc' \in [Input -> {"drain", "load", "copy", "check"}] /\ tries' \in [Input -> Nat]
    <3>1. Retry(i) \/ (rpc' = [rpc EXCEPT ![i] = "drain"] /\ tries' = tries)
      BY <1>27 DEF Check
    <3>2. Retry(i) => rpc' \in [Input -> {"drain", "load", "copy", "check"}] /\ tries' \in [Input -> Nat]
      BY <1>c DEF Retry
    <3> QED BY <1>c, <3>1, <3>2
  <2>3. tick' \in [Input -> [fresh : BOOLEAN, slot : 0 .. Depth - 1, seq : Nat, frame : Nat]]
    <3>1. tick' = tick \/ tick' = [tick EXCEPT ![i].fresh = FALSE]
      BY <1>27 DEF Check
    <3>2. [tick[i] EXCEPT !.fresh = FALSE] \in [fresh : BOOLEAN, slot : 0 .. Depth - 1, seq : Nat, frame : Nat]
      <4>1. tick[i] \in [fresh : BOOLEAN, slot : 0 .. Depth - 1, seq : Nat, frame : Nat]
        BY <1>c
      <4> QED BY ONLY <4>1
    <3> QED BY <1>c, <3>1, <3>2
  <2>4. got' \in [Input -> Seq(Nat)]
    <3>1. got' = got \/ got' = [got EXCEPT ![i] = Append(got[i], copy[i].frame)]
      BY <1>27 DEF Check
    <3>2. got[i] \in Seq(Nat) /\ copy[i].frame \in Nat
      BY <1>b, <1>c
    <3>3. Append(got[i], copy[i].frame) \in Seq(Nat)
      BY <3>2
    <3> QED BY <1>b, <3>1, <3>3
  <2>5. up' \in [Input -> Seq(FromInput)]
    <3>1. up' = up \/ Send(i, [key |-> "ACKT", seq |-> tick[i].seq])
      BY <1>27 DEF Check
    <3>2. [key |-> "ACKT", seq |-> tick[i].seq] \in FromInput /\ up[i] \in Seq(FromInput)
      BY <1>b, <1>c, Messages
    <3>3. Append(up[i], [key |-> "ACKT", seq |-> tick[i].seq]) \in Seq(FromInput)
      BY <3>2, KeyedAppend
    <3> QED BY <1>b, <3>1, <3>3 DEF Send
  <2>6. UNCHANGED <<setup, pc, aborted, clients, todo, number, index, seq, shaking, parked, slot, alive, down, st, fails, failed, sent, noticed>>
    BY <1>27 DEF Check
  <2> QED BY <2>1, <2>2, <2>3, <2>4, <2>5, <2>6 DEF TypeOK
<1>28. ASSUME NEW i \in Input, Leave(i) PROVE TypeOK'
  <2>1. copy' \in [Input -> [seq : Nat, frame : Nat, body : Nat]]
    BY <1>a, <1>b, <1>c, <1>d, <1>28 DEF Leave, NoCopy
  <2>2. rpc' \in [Input -> {"drain", "load", "copy", "check"}] /\ tries' \in [Input -> Nat]
    BY <1>a, <1>b, <1>c, <1>d, <1>28 DEF Leave
  <2>3. tick' \in [Input -> [fresh : BOOLEAN, slot : 0 .. Depth - 1, seq : Nat, frame : Nat]]
    BY <1>a, <1>b, <1>c, <1>d, <1>28 DEF Leave, NoTick
  <2>4. st' \in [Input -> {"out", "connecting", "open", "gone"}]
    BY <1>a, <1>b, <1>c, <1>d, <1>28 DEF Leave
  <2>5. down' \in [Input -> Seq(ToInput)]
    BY <1>a, <1>b, <1>c, <1>d, <1>28 DEF Leave, ToInput
  <2>6. up' \in [Input -> Seq(FromInput)]
    <3>1. up' = up \/ Send(i, [key |-> "BYE"])
      BY <1>28 DEF Leave
    <3>2. [key |-> "BYE"] \in FromInput /\ up[i] \in Seq(FromInput)
      BY <1>b, Messages
    <3>3. Append(up[i], [key |-> "BYE"]) \in Seq(FromInput)
      BY <3>2, KeyedAppend
    <3> QED BY <1>b, <3>1, <3>3 DEF Send
  <2>7. UNCHANGED <<setup, pc, aborted, clients, todo, number, index, seq, shaking, parked, slot, alive, fails, failed, sent, got, noticed>>
    BY <1>28 DEF Leave
  <2> QED BY <2>1, <2>2, <2>3, <2>4, <2>5, <2>6, <2>7 DEF TypeOK
<1>29. CASE UNCHANGED vars
  BY <1>29 DEF vars, TypeOK
<1> QED BY <1>1, <1>2, <1>3, <1>4, <1>5, <1>6, <1>7, <1>8, <1>9, <1>10, <1>11, <1>12, <1>13, <1>14, <1>15, <1>16, <1>17, <1>18, <1>19, <1>20, <1>21, <1>22, <1>23, <1>24, <1>25, <1>26, <1>27, <1>28, <1>29 DEF Next, Writer, Handshake, ReadFrame

-----------------------------------------------------------------------------
(* The inductive invariant.                                                 *)

\* A slot holds a whole frame unless the writer is at work on it.
SlotSound(k) ==
    /\ slot[k].frame <= number
    /\ slot[k].seq % 2 = 0 => slot[k].body = slot[k].frame \/ slot[k].frame \in failed
    /\ slot[k].seq % 2 = 1 => pc = "crashed" \/ (pc = "fill" /\ k = index)

WriterSound ==
    /\ \A k \in Ring : SlotSound(k)
    /\ pc = "fill" => slot[index].seq % 2 = 1
    /\ pc \in {"fill", "tick"} => slot[index].frame = number
    /\ pc \in {"tick", "ack"} => todo \subseteq clients
    /\ pc = "closing" => aborted

\* The slot of a TICK never goes back to an earlier frame.
Announced(i) ==
    /\ \A m \in Keyed(down[i], "TICK") : slot[m.slot].frame >= m.frame
    /\ slot[tick[i].slot].frame >= tick[i].frame

\* As long as the counter is the one that was read, so is what was copied.
Copied(i) ==
    LET k == slot[tick[i].slot]
    IN  /\ rpc[i] \in {"copy", "check"} => copy[i].seq % 2 = 0 /\ copy[i].seq <= k.seq
        /\ rpc[i] = "check" /\ copy[i].seq = k.seq => copy[i].frame = k.frame /\ copy[i].body = k.body
        /\ rpc[i] # "drain" => tick[i].fresh

\* An input is on its way in, or with the writer, at one place only.
Places(i) ==
    /\ i \in clients => i \notin parked
    /\ i \in clients \cup parked => st[i] \in {"open", "gone"} /\ shaking # i
    /\ shaking = i => st[i] # "out"
    /\ st[i] \in {"out", "connecting"} => up[i] = <<>>

Entering(i) == st[i] \in {"out", "connecting"} \/ i \in parked \/ shaking = i
Attached(i) == i \in clients \/ Entering(i)

NoAck(i) == Keyed(up[i], "ACKT") = {}
NoTicks(i) == Keyed(down[i], "TICK") = {}

\* The input has returned whatever was announced to it ...
Even(i) == got[i] = sent[i] /\ NoTicks(i) /\ ~tick[i].fresh

\* ... or all but the last frame, whose TICK is under way or is being served.
Behind(i, n) ==
    /\ sent[i] = Append(got[i], n) /\ NoAck(i)
    /\ tick[i].fresh => NoTicks(i) /\ slot[tick[i].slot].frame = n
    /\ Alone(down[i], "TICK")
    /\ \A m \in Keyed(down[i], "TICK") : slot[m.slot].frame = n

\* The writer has announced a frame to the input and waits, or was aborted meanwhile.
Pending(i) ==
    \/ pc = "tick" /\ i \notin todo
    \/ pc = "ack" /\ (i \in todo \/ aborted)
    \/ pc \in {"idle", "closing"} /\ aborted

Lockstep(i) ==
    /\ Entering(i) => sent[i] = <<>> /\ got[i] = <<>> /\ NoAck(i)
    /\ Even(i) \/ (Pending(i) /\ \E n \in Nat : Behind(i, n))
    /\ Alone(up[i], "ACKT")
    /\ NoAck(i) \/ Pending(i)

Inv ==
    /\ TypeOK /\ WriterSound
    /\ \A i \in Input : Announced(i) /\ Copied(i) /\ Places(i)
    /\ \A i \in Input : i \in Sync /\ Attached(i) => Lockstep(i)

-----------------------------------------------------------------------------
(* Which steps touch what.                                                  *)

Own(i) ==
    \/ EmitTick(i) \/ Receive(i) \/ GiveUp(i) \/ Ready(i) \/ Park(i) \/ Discard(i)
    \/ Drain(i) \/ ReadSlot(i) \/ Load(i) \/ Copy(i) \/ Check(i) \/ Leave(i)

Untouched(i) ==
    /\ down'[i] = down[i] /\ up'[i] = up[i] /\ sent'[i] = sent[i] /\ got'[i] = got[i]
    /\ tick'[i] = tick[i] /\ rpc'[i] = rpc[i] /\ copy'[i] = copy[i]

\* What an input does, or what is done for it alone, is nothing to another.
LEMMA OthersUntouched ==
  ASSUME TypeOK, NEW i \in Input, NEW j \in Input, i # j, Own(j) PROVE Untouched(i)
<1> USE DEF TypeOK, Untouched
<1>1. CASE EmitTick(j)
  BY <1>1 DEF EmitTick, reader
<1>2. CASE Receive(j)
  BY <1>2 DEF Receive, reader
<1>3. CASE GiveUp(j)
  BY <1>3 DEF GiveUp, reader
<1>4. CASE Ready(j)
  BY <1>4 DEF Ready, reader
<1>5. CASE Park(j)
  BY <1>5 DEF Park, reader
<1>6. CASE Discard(j)
  BY <1>6 DEF Discard, reader
<1>7. CASE Drain(j)
  BY <1>7 DEF Drain
<1>8. CASE ReadSlot(j)
  BY <1>8 DEF ReadSlot, sockets
<1>9. CASE Load(j)
  BY <1>9 DEF Load, Retry, sockets
<1>10. CASE Copy(j)
  BY <1>10 DEF Copy, sockets
<1>11. CASE Check(j)
  BY <1>11 DEF Check, Retry, Send
<1>12. CASE Leave(j)
  BY <1>12 DEF Leave, Send
<1> QED BY <1>1, <1>2, <1>3, <1>4, <1>5, <1>6, <1>7, <1>8, <1>9, <1>10, <1>11, <1>12 DEF Own

\* The steps, as seen by one input.
LEMMA StepsOf ==
  ASSUME TypeOK, [Next]_vars, NEW i \in Input
  PROVE  Own(i) \/ FinishClose \/ Crash \/ Untouched(i)
<1> USE DEF reader, sockets
<1>1. ASSUME NEW j \in Input, Own(j) PROVE Own(i) \/ Untouched(i)
  BY <1>1, OthersUntouched
<1>2. CASE WriteFrame \/ Poll \/ Woken
  BY <1>2 DEF WriteFrame, Poll, Woken, Untouched
<1>3. CASE BeginWrite \/ EndWrite \/ FailWrite
  BY <1>3 DEF BeginWrite, EndWrite, FailWrite, Untouched
<1>4. CASE TicksSent \/ WriteDone \/ Abort \/ Close
  BY <1>4 DEF TicksSent, WriteDone, Abort, Close, Untouched
<1>5. ASSUME NEW j \in Input, Pass(j) \/ Connect(j) \/ Accept(j) \/ OpenFails(j) PROVE Untouched(i)
  BY <1>5 DEF Pass, Connect, Accept, OpenFails, Untouched
<1>6. CASE UNCHANGED vars
  BY <1>6 DEF vars, Untouched
<1> QED BY <1>1, <1>2, <1>3, <1>4, <1>5, <1>6 DEF Next, Writer, Handshake, ReadFrame, Own

Writing == BeginWrite \/ EndWrite \/ FailWrite

\* The writer moves on without touching the ring.
Moving ==
    /\ UNCHANGED <<slot, failed>> /\ number' \in {number, number + 1}
    /\ pc # "crashed" /\ pc' \notin {"fill", "tick"} /\ (pc = "fill" => pc' = "crashed")

Resting == UNCHANGED <<pc, number, index, slot, failed>>

\* The steps, as seen by the ring.
LEMMA StepsOfRing == ASSUME TypeOK, [Next]_vars PROVE Writing \/ Moving \/ Resting
<1> USE DEF Moving, Resting, ring, writer
<1>1. CASE WriteFrame
  BY <1>1 DEF WriteFrame
<1>2. CASE Woken
  BY <1>2 DEF Woken
<1>3. CASE TicksSent \/ WriteDone
  BY <1>3 DEF TicksSent, WriteDone
<1>4. CASE Close \/ FinishClose \/ Crash
  BY <1>4 DEF Close, FinishClose, Crash
<1>5. CASE Poll \/ Abort
  BY <1>5 DEF Poll, Abort
<1>6. ASSUME NEW j \in Input, EmitTick(j) \/ Receive(j) \/ GiveUp(j) \/ Pass(j) PROVE Resting
  BY <1>6 DEF EmitTick, Receive, GiveUp, Pass
<1>7. ASSUME NEW j \in Input, Connect(j) \/ OpenFails(j) \/ Handshake(j) PROVE Resting
  BY <1>7 DEF Connect, OpenFails, Handshake, Accept, Ready, Park, Discard
<1>8. ASSUME NEW j \in Input, ReadFrame(j) \/ Leave(j) PROVE Resting
  BY <1>8 DEF ReadFrame, Drain, ReadSlot, Load, Copy, Check, Leave
<1>9. CASE UNCHANGED vars
  BY <1>9 DEF vars
<1> QED BY <1>1, <1>2, <1>3, <1>4, <1>5, <1>6, <1>7, <1>8, <1>9 DEF Next, Writer, Writing

-----------------------------------------------------------------------------
(* The ring.                                                                *)

LEMMA Parity == \A n \in Nat : (n % 2 = 0 \/ n % 2 = 1) /\ (n % 2 = 0 <=> (n + 1) % 2 = 1)
OBVIOUS

\* A slot is left alone, or its counter goes up and its frame does not go down.
Grown(k) ==
    \/ slot'[k] = slot[k]
    \/ slot'[k].seq = slot[k].seq + 1 /\ slot'[k].frame >= slot[k].frame

\* What writing does to the slot of the frame and to the others.
LEMMA WritingSteps ==
  ASSUME TypeOK, Writing
  PROVE  /\ \A k \in Ring : k # index => slot'[k] = slot[k]
         /\ index \in Ring /\ slot'[index].seq = slot[index].seq + 1
         /\ number' = number /\ index' = index /\ failed \subseteq failed'
         /\ \/ /\ pc = "begin" /\ pc' = "fill" /\ slot'[index].frame = number
            \/ /\ pc = "fill" /\ pc' \in {"tick", "idle"} /\ slot'[index].frame = slot[index].frame
               /\ slot'[index].body = number \/ number \in failed'
<1>1. slot \in [Ring -> [seq : Nat, frame : Nat, body : Nat]] /\ index \in Ring
  BY DEF TypeOK, Ring
<1>2. CASE BeginWrite
  BY <1>1, <1>2 DEF BeginWrite, Ring
<1>3. CASE EndWrite
  BY <1>1, <1>3 DEF EndWrite, Ring
<1>4. CASE FailWrite
  BY <1>1, <1>4 DEF FailWrite, Ring
<1> QED BY <1>2, <1>3, <1>4 DEF Writing

LEMMA RingGrows == ASSUME TypeOK, WriterSound, [Next]_vars PROVE \A k \in Ring : Grown(k)
<1>1. CASE Writing
  <2>1. slot[index].frame \in Nat /\ number \in Nat /\ slot[index].frame <= number
    BY <1>1, WritingSteps DEF WriterSound, SlotSound, TypeOK
  <2>2. slot'[index].frame >= slot[index].frame
    <3>1. slot'[index].frame = number \/ slot'[index].frame = slot[index].frame
      BY <1>1, WritingSteps
    <3> QED BY <2>1, <3>1
  <2> QED BY <1>1, <2>2, WritingSteps DEF Grown
<1>2. CASE Moving \/ Resting
  BY <1>2 DEF Moving, Resting, Grown
<1> QED BY <1>1, <1>2, StepsOfRing

\* The clients still to be served are clients.
LEMMA TodoKept ==
  ASSUME TypeOK, WriterSound, [Next]_vars
  PROVE  /\ pc' \in {"tick", "ack"} => todo' \subseteq clients'
         /\ pc' = "closing" => aborted'
<1> DEFINE P == /\ pc' \in {"tick", "ack"} => todo' \subseteq clients'
                /\ pc' = "closing" => aborted'
<1> USE DEF WriterSound, members, writer
<1>1. CASE WriteFrame \/ Poll \/ Woken
  BY <1>1 DEF WriteFrame, Poll, Woken
<1>2. CASE BeginWrite \/ EndWrite \/ FailWrite
  BY <1>2 DEF BeginWrite, EndWrite, FailWrite
<1>3. CASE TicksSent \/ WriteDone
  BY <1>3 DEF TicksSent, WriteDone
<1>4. CASE Abort \/ Close \/ FinishClose \/ Crash
  BY <1>4 DEF Abort, Close, FinishClose, Crash
<1>5. ASSUME NEW j \in Input, EmitTick(j) PROVE P
  BY <1>5 DEF EmitTick
<1>6. ASSUME NEW j \in Input, Receive(j) \/ GiveUp(j) \/ Pass(j) PROVE P
  BY <1>6 DEF Receive, GiveUp, Without, Waiting, Pass
<1>7. ASSUME NEW j \in Input, Connect(j) \/ OpenFails(j) \/ Handshake(j) PROVE P
  BY <1>7 DEF Connect, OpenFails, Handshake, Accept, Ready, Park, Discard
<1>8. ASSUME NEW j \in Input, ReadFrame(j) \/ Leave(j) PROVE P
  BY <1>8 DEF ReadFrame, Drain, ReadSlot, Load, Copy, Check, Leave
<1>9. CASE UNCHANGED vars
  BY <1>9 DEF vars
<1> QED BY <1>1, <1>2, <1>3, <1>4, <1>5, <1>6, <1>7, <1>8, <1>9 DEF Next, Writer

\* The ring and the writer stay sound.
LEMMA WriterKept == ASSUME TypeOK, WriterSound, [Next]_vars PROVE WriterSound'
<1>1. /\ slot \in [Ring -> [seq : Nat, frame : Nat, body : Nat]] /\ index \in Ring /\ number \in Nat
      /\ failed \subseteq Nat
  BY DEF TypeOK, Ring
<1>2. CASE Writing
  <2>1. ASSUME NEW k \in Ring, k # index PROVE SlotSound(k)'
    <3>1. slot[k].seq \in Nat /\ slot[k].seq % 2 = 0
      <4>1. pc \in {"begin", "fill"}
        BY <1>2, WritingSteps
      <4> QED BY <1>1, <2>1, <4>1, Parity DEF WriterSound, SlotSound
    <3> QED BY <1>2, <2>1, <3>1, WritingSteps DEF WriterSound, SlotSound
  <2>2. CASE pc = "begin"
    <3>1. slot[index].seq \in Nat /\ slot[index].seq % 2 = 0
      BY <1>1, <2>2, Parity DEF WriterSound, SlotSound
    <3>2. slot'[index].seq % 2 = 1 /\ slot'[index].frame = number /\ pc' = "fill"
      BY <1>2, <2>2, <3>1, Parity, WritingSteps
    <3> QED BY <1>1, <1>2, <2>1, <3>2, WritingSteps DEF WriterSound, SlotSound
  <2>3. CASE pc = "fill"
    <3>1. slot[index].seq \in Nat /\ slot[index].seq % 2 = 1 /\ slot[index].frame = number
      BY <1>1, <2>3 DEF WriterSound
    <3>2. slot'[index].seq % 2 = 0
      BY <1>2, <3>1, Parity, WritingSteps
    <3>3. slot'[index].frame = number /\ pc' \in {"tick", "idle"}
      BY <1>2, <2>3, <3>1, WritingSteps
    <3>4. slot'[index].body = number \/ number \in failed'
      BY <1>2, <2>3, WritingSteps
    <3>5. SlotSound(index)'
      BY <1>1, <1>2, <3>2, <3>3, <3>4, WritingSteps DEF SlotSound
    <3> QED BY <1>1, <1>2, <2>1, <3>3, <3>5, TodoKept, WritingSteps DEF WriterSound
  <2> QED BY <1>2, <2>2, <2>3, WritingSteps
<1>3. CASE Moving
  <2>1. ASSUME NEW k \in Ring PROVE SlotSound(k)'
    BY <1>1, <1>3, <2>1 DEF Moving, WriterSound, SlotSound
  <2> QED BY <1>3, <2>1, TodoKept DEF Moving, WriterSound
<1>4. CASE Resting
  <2>1. ASSUME NEW k \in Ring PROVE SlotSound(k)'
    BY <1>4, <2>1 DEF Resting, WriterSound, SlotSound
  <2> QED BY <1>4, <2>1, TodoKept DEF Resting, WriterSound
<1> QED BY <1>2, <1>3, <1>4, StepsOfRing

-----------------------------------------------------------------------------
(* One input: its TICKs and its copy.                                       *)

\* The types of what belongs to one input.
LEMMA InputTypes ==
  ASSUME TypeOK, NEW i \in Input
  PROVE  /\ down[i] \in Seq(ToInput) /\ up[i] \in Seq(FromInput)
         /\ tick[i] \in [fresh : BOOLEAN, slot : Ring, seq : Nat, frame : Nat]
         /\ copy[i] \in [seq : Nat, frame : Nat, body : Nat]
         /\ rpc[i] \in {"drain", "load", "copy", "check"}
         /\ sent[i] \in Seq(Nat) /\ got[i] \in Seq(Nat)
BY DEF TypeOK, ToInput, Ring

\* The TICKs of a queue are typed.
LEMMA TicksTyped == ASSUME NEW q \in Seq(ToInput) PROVE Keyed(q, "TICK") \subseteq Tick
<1> SUFFICES ASSUME NEW j \in 1 .. Len(q), q[j].key = "TICK" PROVE q[j] \in Tick
  BY DEF Keyed
<1>1. q[j] \in ToInput
  OBVIOUS
<1> QED BY <1>1, Messages

\* What Drain() takes from the queue.
LEMMA Drained ==
  ASSUME TypeOK, NEW i \in Input, Drain(i)
  PROVE  LET m == Head(down[i])
         IN  /\ down'[i] = Tail(down[i]) /\ ~NoTicks(i) /\ m \in ToInput
             /\ Keyed(down'[i], "TICK") \subseteq Keyed(down[i], "TICK")
             /\ m.key # "TICK" => tick' = tick /\ Keyed(down'[i], "TICK") = Keyed(down[i], "TICK")
             /\ m.key = "TICK" =>
                   /\ m \in Keyed(down[i], "TICK")
                   /\ tick'[i] = [fresh |-> TRUE, slot |-> m.slot, seq |-> m.seq, frame |-> m.frame]
             /\ Alone(down[i], "TICK") =>
                   /\ Alone(down'[i], "TICK")
                   /\ m.key = "TICK" => Keyed(down'[i], "TICK") = {}
<1>1. down[i] \in Seq(ToInput)
  BY InputTypes
<1>2. PICK k \in DOMAIN down[i] : down[i][k].key = "TICK"
  BY DEF Drain, Available
<1>3. k \in 1 .. Len(down[i]) /\ down[i] # <<>>
  BY <1>1, <1>2, EmptySeq
<1>4. ~NoTicks(i)
  BY <1>2, <1>3 DEF NoTicks, Keyed
<1>5. /\ down \in [Input -> Seq(Tick \cup Bye)]
      /\ tick \in [Input -> [fresh : BOOLEAN, slot : 0 .. Depth - 1, seq : Nat, frame : Nat]]
  BY DEF TypeOK
<1>6. down'[i] = Tail(down[i])
  BY <1>5 DEF Drain
<1>7. IF Head(down[i]).key # "TICK" THEN tick' = tick
      ELSE tick'[i] = [fresh |-> TRUE, slot |-> Head(down[i]).slot,
                       seq |-> Head(down[i]).seq, frame |-> Head(down[i]).frame]
  BY <1>5 DEF Drain
<1> HIDE DEF ToInput
<1> QED BY <1>1, <1>3, <1>4, <1>6, <1>7, KeyedTail

\* What is under way keeps naming a slot that holds its frame or a later one.
LEMMA AnnouncedKept ==
  ASSUME TypeOK, WriterSound, [Next]_vars, NEW i \in Input, Announced(i) PROVE Announced(i)'
<1>1. \A k \in Ring : /\ slot[k].frame \in Nat /\ slot'[k].frame \in Nat
                      /\ slot'[k].frame >= slot[k].frame
  <2>1. slot \in [Ring -> [seq : Nat, frame : Nat, body : Nat]]
    BY DEF TypeOK, Ring
  <2>2. slot' \in [Ring -> [seq : Nat, frame : Nat, body : Nat]]
    BY Typed DEF TypeOK, Ring
  <2> QED BY <2>1, <2>2, RingGrows DEF Grown
<1>2. Keyed(down[i], "TICK") \subseteq Tick
  BY InputTypes, TicksTyped
<1>3. tick[i].slot \in Ring /\ tick[i].frame \in Nat
  BY InputTypes
<1>4. ASSUME down'[i] = down[i], tick'[i].slot = tick[i].slot, tick'[i].frame = tick[i].frame
      PROVE  Announced(i)'
  <2>1. \A m \in Keyed(down[i], "TICK") : m.slot \in Ring /\ m.frame \in Nat
    BY <1>2 DEF Tick, Ring
  <2> QED BY <1>1, <1>3, <1>4, <2>1 DEF Announced
<1>5. ASSUME slot' = slot, Keyed(down'[i], "TICK") \subseteq Keyed(down[i], "TICK"),
             slot[tick'[i].slot].frame >= tick'[i].frame
      PROVE  Announced(i)'
  BY <1>5 DEF Announced
<1>6. CASE EmitTick(i)
  <2> DEFINE m == [key |-> "TICK", slot |-> index, seq |-> seq, frame |-> number]
  <2>1. m \in ToInput /\ down[i] \in Seq(ToInput)
    BY InputTypes DEF TypeOK, ToInput, Tick
  <2>2. down'[i] = down[i] \/ down'[i] = Append(down[i], m)
    BY <1>6 DEF EmitTick, TypeOK
  <2>3. slot' = slot /\ tick' = tick /\ slot[index].frame = number
    BY <1>6 DEF EmitTick, ring, reader, WriterSound
  <2>4. number \in Nat
    BY DEF TypeOK
  <2>5. Keyed(down'[i], "TICK") \subseteq Keyed(down[i], "TICK") \cup {m}
    <3> HIDE DEF m, ToInput
    <3>1. Keyed(Append(down[i], m), "TICK") \in {Keyed(down[i], "TICK") \cup {m}, Keyed(down[i], "TICK")}
      BY <2>1, KeyedAppend
    <3> QED BY <2>2, <3>1
  <2> QED BY <2>3, <2>4, <2>5 DEF Announced
<1>7. CASE Drain(i)
  <2>1. slot' = slot
    BY <1>7 DEF Drain, ring
  <2>2. Keyed(down'[i], "TICK") \subseteq Keyed(down[i], "TICK")
    BY <1>7, Drained
  <2>3. CASE Head(down[i]).key = "TICK"
    <3> DEFINE m == Head(down[i])
    <3>1. /\ m \in Keyed(down[i], "TICK")
          /\ tick'[i] = [fresh |-> TRUE, slot |-> m.slot, seq |-> m.seq, frame |-> m.frame]
      BY <1>7, <2>3, Drained
    <3>2. slot[m.slot].frame >= m.frame
      BY <3>1 DEF Announced
    <3> HIDE DEF m
    <3>3. tick'[i].slot = m.slot /\ tick'[i].frame = m.frame
      BY <3>1
    <3> QED BY <1>5, <2>1, <2>2, <3>2, <3>3
  <2>4. CASE Head(down[i]).key # "TICK"
    <3>1. tick' = tick
      BY <1>7, <2>4, Drained
    <3> QED BY <1>5, <2>1, <2>2, <3>1 DEF Announced
  <2> QED BY <2>3, <2>4
<1>8. CASE Receive(i) \/ GiveUp(i) \/ Ready(i) \/ Park(i) \/ Discard(i)
  BY <1>4, <1>8 DEF Receive, GiveUp, Ready, Park, Discard, reader
<1>9. CASE ReadSlot(i) \/ Load(i) \/ Copy(i)
  BY <1>4, <1>9 DEF ReadSlot, Load, Copy, sockets
<1>10. CASE Check(i)
  <2>1. down' = down /\ (tick' = tick \/ tick' = [tick EXCEPT ![i].fresh = FALSE])
    BY <1>10 DEF Check
  <2>2. tick'[i].slot = tick[i].slot /\ tick'[i].frame = tick[i].frame
    <3>1. CASE tick' = [tick EXCEPT ![i].fresh = FALSE]
      <4>1. tick'[i] = [tick[i] EXCEPT !.fresh = FALSE]
        BY <3>1 DEF TypeOK
      <4> QED BY <4>1, InputTypes
    <3> QED BY <2>1, <3>1
  <2> QED BY <1>4, <2>1, <2>2
<1>11. CASE Leave(i)
  <2>1. down'[i] = <<>> /\ tick'[i] = NoTick
    BY <1>11 DEF Leave, TypeOK
  <2>2. 0 \in Ring
    BY BridgeAssumption DEF Ring
  <2> QED BY <1>1, <2>1, <2>2, KeyedNone DEF Announced, NoTick
<1>12. CASE FinishClose
  <2>1. tick' = tick /\ slot' = slot
    BY <1>12 DEF FinishClose, reader, ring
  <2>2. down[i] \in Seq(ToInput) /\ [key |-> "BYE"] \in ToInput
    BY InputTypes, Messages
  <2>3. down'[i] = down[i] \/ down'[i] = Append(down[i], [key |-> "BYE"])
    BY <1>12 DEF FinishClose
  <2>4. Keyed(down'[i], "TICK") = Keyed(down[i], "TICK")
    <3> DEFINE b == [key |-> "BYE"]
    <3>1. b \in ToInput /\ b.key # "TICK"
      BY <2>2
    <3> HIDE DEF ToInput, b
    <3>2. Keyed(Append(down[i], b), "TICK") = Keyed(down[i], "TICK")
      BY <2>2, <3>1, KeyedAppend
    <3> QED BY <2>3, <3>2 DEF b
  <2> QED BY <1>5, <2>1, <2>4 DEF Announced
<1>13. CASE Crash
  BY <1>4, <1>13 DEF Crash, reader
<1>14. CASE Untouched(i)
  BY <1>4, <1>14 DEF Untouched
<1> QED BY <1>6, <1>7, <1>8, <1>9, <1>10, <1>11, <1>12, <1>13, <1>14, StepsOf DEF Own

\* The copy is that of the counter that was read, for as long as the counter stands.
LEMMA CopiedKept ==
  ASSUME TypeOK, WriterSound, [Next]_vars, NEW i \in Input, Copied(i) PROVE Copied(i)'
<1> DEFINE k == tick[i].slot
<1>1. k \in Ring /\ slot[k] \in [seq : Nat, frame : Nat, body : Nat] /\ Grown(k)
  BY InputTypes, RingGrows DEF TypeOK, Ring
<1>2. copy[i].seq \in Nat
  BY InputTypes
<1>3. ASSUME tick'[i].slot = k, tick'[i].fresh = tick[i].fresh, rpc'[i] = rpc[i], copy'[i] = copy[i]
      PROVE  Copied(i)'
  BY <1>1, <1>2, <1>3 DEF Copied, Grown
<1>4. ASSUME rpc'[i] = "drain" \/ (rpc'[i] = "load" /\ tick'[i].fresh) PROVE Copied(i)'
  BY <1>4 DEF Copied
<1>5. CASE EmitTick(i) \/ Receive(i) \/ GiveUp(i) \/ Ready(i) \/ Park(i) \/ Discard(i)
  BY <1>3, <1>5 DEF EmitTick, Receive, GiveUp, Ready, Park, Discard, reader
<1>6. CASE Drain(i)
  BY <1>4, <1>6 DEF Drain
<1>7. CASE ReadSlot(i)
  BY <1>4, <1>7 DEF ReadSlot, TypeOK
<1>8. CASE Load(i)
  <2>1. tick' = tick /\ slot' = slot /\ tick[i].fresh
    BY <1>8 DEF Load, ring, Copied
  <2>2. CASE slot[k].seq % 2 = 1
    <3>1. Retry(i)
      BY <1>8, <2>2 DEF Load
    <3> QED BY <1>4, <2>1, <3>1 DEF Retry, TypeOK
  <2>3. CASE slot[k].seq % 2 # 1
    <3>1. /\ rpc' = [rpc EXCEPT ![i] = "copy"]
          /\ copy' = [copy EXCEPT ![i].seq = slot[k].seq]
      BY <1>8, <2>3 DEF Load
    <3>2. rpc'[i] = "copy" /\ copy'[i] = [copy[i] EXCEPT !.seq = slot[k].seq]
      BY <3>1 DEF TypeOK
    <3>3. copy'[i].seq = slot[k].seq
      BY <3>2, InputTypes
    <3>4. slot[k].seq % 2 = 0
      BY <1>1, <2>3, Parity
    <3> QED BY <1>1, <2>1, <3>2, <3>3, <3>4 DEF Copied
  <2> QED BY <2>2, <2>3
<1>9. CASE Copy(i)
  <2>1. tick' = tick /\ slot' = slot /\ rpc[i] = "copy" /\ rpc'[i] = "check"
    BY <1>9 DEF Copy, ring, TypeOK
  <2>2. copy'[i] = [seq |-> copy[i].seq, frame |-> slot[k].frame, body |-> slot[k].body]
    BY <1>9 DEF Copy, TypeOK
  <2> QED BY <2>1, <2>2 DEF Copied
<1>10. CASE Check(i)
  <2>1. CASE Stable(i)
    <3>1. rpc'[i] = "drain"
      BY <1>10, <2>1 DEF Check, TypeOK
    <3> QED BY <1>4, <3>1
  <2>2. CASE ~Stable(i)
    <3>1. Retry(i) /\ tick' = tick /\ rpc[i] = "check"
      BY <1>10, <2>2 DEF Check
    <3> QED BY <1>4, <3>1 DEF Retry, TypeOK, Copied
  <2> QED BY <2>1, <2>2
<1>11. CASE Leave(i)
  <2>1. rpc'[i] = "drain"
    BY <1>11 DEF Leave, TypeOK
  <2> QED BY <1>4, <2>1
<1>12. CASE FinishClose \/ Crash
  BY <1>3, <1>12 DEF FinishClose, Crash, reader
<1>13. CASE Untouched(i)
  BY <1>3, <1>13 DEF Untouched
<1> QED BY <1>5, <1>6, <1>7, <1>8, <1>9, <1>10, <1>11, <1>12, <1>13, StepsOf DEF Own

-----------------------------------------------------------------------------
(* One input: where it is.                                                  *)

\* An input is connecting, shaking hands, parked and a client in turn.
LEMMA PlacesKept ==
  ASSUME TypeOK, WriterSound, [Next]_vars, NEW i \in Input, Places(i) PROVE Places(i)'
<1> USE DEF Places, members, writer, sockets
<1>a. /\ up \in [Input -> Seq(FromInput)] /\ st \in [Input -> {"out", "connecting", "open", "gone"}]
      /\ shaking \in Input \cup {None} /\ None \notin Input
  BY BridgeAssumption DEF TypeOK
<1>1. CASE WriteFrame \/ Poll
  BY <1>1 DEF WriteFrame, Poll, Service, Serviced
<1>2. CASE Woken \/ Writing \/ TicksSent \/ WriteDone \/ Abort \/ Close
  BY <1>2 DEF Woken, Writing, BeginWrite, EndWrite, FailWrite, TicksSent, WriteDone, Abort, Close
<1>3. CASE FinishClose \/ Crash
  BY <1>a, <1>3 DEF FinishClose, Crash
<1>4. ASSUME NEW j \in Input, EmitTick(j) PROVE Places(i)'
  BY <1>4 DEF EmitTick
<1>5. ASSUME NEW j \in Input, Receive(j) PROVE Places(i)'
  <2>1. clients' \subseteq clients /\ UNCHANGED <<parked, shaking, st>> /\ up[j] # <<>>
    BY <1>5 DEF Receive
  <2>2. i = j \/ up'[i] = up[i]
    BY <1>a, <1>5 DEF Receive
  <2> QED BY <2>1, <2>2
<1>6. ASSUME NEW j \in Input, GiveUp(j) PROVE Places(i)'
  <2>1. clients' \subseteq clients /\ UNCHANGED <<parked, shaking, st>>
    BY <1>6 DEF GiveUp, Without
  <2>2. up'[i] = <<>> \/ up'[i] = up[i]
    BY <1>a, <1>6 DEF GiveUp
  <2> QED BY <2>1, <2>2
<1>7. ASSUME NEW j \in Input, Pass(j) PROVE Places(i)'
  BY <1>7 DEF Pass
<1>8. ASSUME NEW j \in Input, Connect(j) \/ Accept(j) \/ OpenFails(j) PROVE Places(i)'
  BY <1>a, <1>8 DEF Connect, Accept, OpenFails
<1>9. ASSUME NEW j \in Input, Ready(j) PROVE Places(i)'
  <2>1. UNCHANGED <<clients, parked, shaking>> /\ st[j] = "connecting"
    BY <1>9 DEF Ready
  <2>2. CASE i = j
    BY <1>a, <1>9, <2>1, <2>2 DEF Ready
  <2>3. CASE i # j
    BY <1>a, <1>9, <2>1, <2>3 DEF Ready
  <2> QED BY <2>2, <2>3
<1>10. ASSUME NEW j \in Input, Park(j) PROVE Places(i)'
  <2>1. shaking = j /\ shaking' = None /\ parked' = parked \cup {j} /\ up[j] # <<>>
        /\ UNCHANGED <<clients, st>>
    BY <1>10 DEF Park
  <2>2. i = j \/ up'[i] = up[i]
    BY <1>a, <1>10 DEF Park
  <2> QED BY <1>a, <2>1, <2>2
<1>11. ASSUME NEW j \in Input, Discard(j) PROVE Places(i)'
  <2>1. shaking = j /\ shaking' = None /\ UNCHANGED <<clients, parked>>
    BY <1>11 DEF Discard
  <2>2. IF i = j THEN up'[i] = <<>> /\ (st'[i] = "gone" \/ st'[i] = st[i])
        ELSE up'[i] = up[i] /\ st'[i] = st[i]
    BY <1>a, <1>11 DEF Discard
  <2> QED BY <1>a, <2>1, <2>2
<1>12. ASSUME NEW j \in Input, Drain(j) \/ ReadSlot(j) \/ Load(j) \/ Copy(j) PROVE Places(i)'
  BY <1>12 DEF Drain, ReadSlot, Load, Copy
<1>13. ASSUME NEW j \in Input, Check(j) \/ Leave(j) PROVE Places(i)'
  <2>1. UNCHANGED <<clients, parked, shaking>> /\ st[j] = "open"
    BY <1>13 DEF Check, Leave
  <2>2. IF i = j THEN st'[i] \in {"open", "gone"} ELSE st'[i] = st[i]
    BY <1>a, <1>13 DEF Check, Leave
  <2>3. i = j \/ up'[i] = up[i]
    BY <1>13, OthersUntouched DEF Own, Untouched
  <2> QED BY <2>1, <2>2, <2>3
<1>14. CASE UNCHANGED vars
  BY <1>14 DEF vars
<1> QED BY <1>1, <1>2, <1>3, <1>4, <1>5, <1>6, <1>7, <1>8, <1>9, <1>10, <1>11, <1>12, <1>13, <1>14
        DEF Next, Writer, Handshake, ReadFrame, Writing

\* What is served was served before or was on its way in; nobody enters twice.
LEMMA ScopeKept ==
  ASSUME TypeOK, WriterSound, [Next]_vars, NEW i \in Input, Places(i)
  PROVE  Attached(i)' => Attached(i) /\ (Entering(i)' => Entering(i))
<1> DEFINE P == Attached(i)' => Attached(i) /\ (Entering(i)' => Entering(i))
<1> USE DEF Attached, Entering, members, writer, sockets
<1>a. /\ st \in [Input -> {"out", "connecting", "open", "gone"}]
      /\ shaking \in Input \cup {None} /\ None \notin Input
  BY BridgeAssumption DEF TypeOK
<1>1. CASE WriteFrame \/ Poll
  BY <1>1 DEF WriteFrame, Poll, Service, Serviced
<1>2. CASE Woken \/ Writing \/ TicksSent \/ WriteDone \/ Abort \/ Close
  BY <1>2 DEF Woken, Writing, BeginWrite, EndWrite, FailWrite, TicksSent, WriteDone, Abort, Close
<1>3. CASE FinishClose \/ Crash
  BY <1>a, <1>3 DEF FinishClose, Crash
<1>4. ASSUME NEW j \in Input, EmitTick(j) PROVE P
  BY <1>4 DEF EmitTick
<1>5. ASSUME NEW j \in Input, Receive(j) \/ GiveUp(j) \/ Pass(j) PROVE P
  BY <1>5 DEF Receive, GiveUp, Without, Pass
<1>6. ASSUME NEW j \in Input, Connect(j) \/ Accept(j) \/ OpenFails(j) \/ Ready(j) PROVE P
  BY <1>a, <1>6 DEF Connect, Accept, OpenFails, Ready
<1>7. ASSUME NEW j \in Input, Park(j) PROVE P
  BY <1>a, <1>7 DEF Park
<1>8. ASSUME NEW j \in Input, Discard(j) PROVE P
  BY <1>a, <1>8 DEF Discard
<1>9. ASSUME NEW j \in Input, ReadFrame(j) PROVE P
  BY <1>9 DEF ReadFrame, Drain, ReadSlot, Load, Copy, Check
<1>10. ASSUME NEW j \in Input, Leave(j) PROVE P
  BY <1>a, <1>10 DEF Leave
<1>11. CASE UNCHANGED vars
  BY <1>11 DEF vars
<1> QED BY <1>1, <1>2, <1>3, <1>4, <1>5, <1>6, <1>7, <1>8, <1>9, <1>10, <1>11
        DEF Next, Writer, Handshake, Writing

\* The writer does not go on before the client has answered, is dropped or abort() is called.
LEMMA PendingKept ==
  ASSUME TypeOK, WriterSound, [Next]_vars, NEW i \in Sync, i \in clients, i \in clients',
         Pending(i), ~Receive(i)
  PROVE  Pending(i)'
<1> USE DEF Pending, members, writer
<1>1. CASE WriteFrame \/ Poll \/ Woken \/ Writing
  BY <1>1 DEF WriteFrame, Poll, Woken, Writing, BeginWrite, EndWrite, FailWrite
<1>2. CASE TicksSent \/ WriteDone
  BY <1>2 DEF TicksSent, WriteDone
<1>3. CASE Abort \/ Close \/ FinishClose \/ Crash
  BY <1>3 DEF Abort, Close, FinishClose, Crash
<1>4. ASSUME NEW j \in Input, EmitTick(j) PROVE Pending(i)'
  BY <1>4 DEF EmitTick
<1>5. ASSUME NEW j \in Input, Receive(j) PROVE Pending(i)'
  BY <1>5 DEF Receive, Waiting
<1>6. ASSUME NEW j \in Input, GiveUp(j) \/ Pass(j) PROVE Pending(i)'
  BY <1>6 DEF GiveUp, Without, Pass, Waiting
<1>7. ASSUME NEW j \in Input, Connect(j) \/ OpenFails(j) \/ Handshake(j) PROVE Pending(i)'
  BY <1>7 DEF Connect, OpenFails, Handshake, Accept, Ready, Park, Discard
<1>8. ASSUME NEW j \in Input, ReadFrame(j) \/ Leave(j) PROVE Pending(i)'
  BY <1>8 DEF ReadFrame, Drain, ReadSlot, Load, Copy, Check, Leave
<1>9. CASE UNCHANGED vars
  BY <1>9 DEF vars
<1> QED BY <1>1, <1>2, <1>3, <1>4, <1>5, <1>6, <1>7, <1>8, <1>9 DEF Next, Writer, Writing

-----------------------------------------------------------------------------
(* A sync input and the writer, in lockstep.                                *)

\* A frame more makes another sequence.
LEMMA AppendDiffers ==
  ASSUME NEW q \in Seq(Nat), NEW n \in Nat PROVE Append(q, n) # q /\ Append(q, n) # <<>>
<1>1. Len(Append(q, n)) = Len(q) + 1 /\ Len(q) \in Nat
  OBVIOUS
<1> QED BY <1>1, EmptySeq

\* A message that is not the one in question.
LEMMA OtherAppended ==
  ASSUME NEW S, NEW q \in Seq(S), NEW m \in S, NEW k, m.key # k
  PROVE  /\ Keyed(Append(q, m), k) = Keyed(q, k)
         /\ Alone(q, k) => Alone(Append(q, m), k)
BY KeyedAppend

LEMMA LockstepKept ==
  ASSUME TypeOK, WriterSound, [Next]_vars, NEW i \in Input, i \in Sync, Copied(i), Places(i),
         Attached(i) => Lockstep(i), Attached(i)'
  PROVE  Lockstep(i)'
<1>1. Attached(i) /\ Lockstep(i) /\ (Entering(i)' => Entering(i))
  BY ScopeKept
<1>2. got[i] \in Seq(Nat) /\ sent[i] \in Seq(Nat)
  BY InputTypes
<1>3. ASSUME NEW n \in Nat, Behind(i, n) PROVE ~Even(i) /\ ~Entering(i) /\ Pending(i)
  <2>1. sent[i] # got[i] /\ sent[i] # <<>>
    BY <1>2, <1>3, AppendDiffers DEF Behind
  <2> QED BY <1>1, <2>1 DEF Even, Lockstep
<1>4. ASSUME ~Even(i) \/ ~NoAck(i)
      PROVE  /\ Pending(i) /\ ~Entering(i) /\ slot' = slot /\ i \in clients /\ i \in clients'
             /\ ~Receive(i) => Pending(i)'
  <2>1. Pending(i) /\ ~Entering(i)
    BY <1>1, <1>3, <1>4 DEF Lockstep
  <2>2. i \in clients /\ i \in clients'
    BY <1>1, <2>1 DEF Attached
  <2>3. slot' = slot
    BY <2>1, StepsOfRing, WritingSteps DEF Pending, Moving, Resting
  <2> QED BY <2>1, <2>2, <2>3, PendingKept
<1>5. ASSUME NEW n \in Nat, Behind(i, n),
             sent'[i] = sent[i], got'[i] = got[i], NoAck(i) => NoAck(i)',
             tick'[i] = tick[i], down'[i] = down[i]
      PROVE  Behind(i, n)'
  <2>1. slot' = slot
    BY <1>3, <1>4, <1>5
  <2> QED BY <1>5, <2>1 DEF Behind, NoTicks
<1>6. ASSUME ~Receive(i), sent'[i] = sent[i], got'[i] = got[i], NoAck(i) => NoAck(i)',
             Alone(up[i], "ACKT") => Alone(up'[i], "ACKT"),
             tick'[i] = tick[i], down'[i] = down[i]
      PROVE  Lockstep(i)'
  <2>1. Even(i) => Even(i)'
    BY <1>6 DEF Even, NoTicks
  <2>2. ~Even(i) => Pending(i)' /\ \E n \in Nat : Behind(i, n)'
    BY <1>1, <1>4, <1>5, <1>6 DEF Lockstep
  <2>3. NoAck(i)' \/ Pending(i)'
    BY <1>4, <1>6
  <2>4. Entering(i)' => sent'[i] = <<>> /\ got'[i] = <<>> /\ NoAck(i)'
    BY <1>1, <1>6 DEF Lockstep
  <2>5. Alone(up[i], "ACKT")'
    BY <1>1, <1>6 DEF Lockstep
  <2> QED BY <2>1, <2>2, <2>3, <2>4, <2>5 DEF Lockstep
<1>7. ASSUME sent' = sent, got' = got, tick' = tick, down' = down,
             UNCHANGED st, up'[i] = Tail(up[i]), up[i] # <<>>
      PROVE  /\ NoAck(i) => NoAck(i)'
             /\ Alone(up[i], "ACKT") =>
                   /\ Alone(up'[i], "ACKT")
                   /\ Head(up[i]).key = "ACKT" => NoAck(i)'
  <2>1. up[i] \in Seq(FromInput)
    BY InputTypes
  <2>2. /\ Keyed(Tail(up[i]), "ACKT") \subseteq Keyed(up[i], "ACKT")
        /\ Alone(up[i], "ACKT") => /\ Alone(Tail(up[i]), "ACKT")
                                   /\ Head(up[i]).key = "ACKT" => Keyed(Tail(up[i]), "ACKT") = {}
    BY <1>7, <2>1, KeyedTail
  <2> QED BY <1>7, <2>2 DEF NoAck
<1>8. CASE EmitTick(i)
  <2> DEFINE m == [key |-> "TICK", slot |-> index, seq |-> seq, frame |-> number]
  <2>1. /\ pc = "tick" /\ i \in todo /\ i \in clients /\ slot' = slot /\ slot[index].frame = number
        /\ pc' = pc /\ todo' = todo \ {i} /\ up' = up /\ tick' = tick /\ got' = got
    BY <1>8 DEF EmitTick, WriterSound, ring, reader
  <2>2. ~Pending(i) /\ Pending(i)' /\ ~Entering(i)
    BY <2>1 DEF Pending, Entering, Places
  <2>3. Even(i) /\ NoAck(i) /\ NoAck(i)' /\ Alone(up[i], "ACKT")'
    BY <1>1, <2>1, <2>2 DEF Lockstep, NoAck
  <2>4. CASE alive[i] /\ st[i] # "gone"
    <3>1. down'[i] = Append(down[i], m) /\ sent'[i] = Append(sent[i], number)
      BY <1>8, <2>4 DEF EmitTick, TypeOK
    <3>2. m \in ToInput /\ down[i] \in Seq(ToInput) /\ number \in Nat
      BY InputTypes DEF TypeOK, ToInput, Tick
    <3>3. Keyed(down'[i], "TICK") \subseteq {m} /\ Alone(down'[i], "TICK")
      <4>1. Keyed(down[i], "TICK") = {}
        BY <2>3 DEF Even, NoTicks
      <4> HIDE DEF ToInput, m
      <4>2. Keyed(Append(down[i], m), "TICK") \in {Keyed(down[i], "TICK") \cup {m}, Keyed(down[i], "TICK")}
        BY <3>2, KeyedAppend
      <4>3. Alone(Append(down[i], m), "TICK")
        BY <3>2, <4>1, KeyedAppend
      <4> QED BY <3>1, <4>1, <4>2, <4>3
    <3>4. sent'[i] = Append(got'[i], number) /\ ~tick'[i].fresh
      BY <2>1, <2>3, <3>1 DEF Even
    <3>5. \A x \in Keyed(down'[i], "TICK") : slot'[x.slot].frame = number
      BY <2>1, <3>3
    <3>6. ASSUME NEW n \in Nat, n = number PROVE Behind(i, n)'
      BY <2>3, <3>3, <3>4, <3>5, <3>6 DEF Behind
    <3>7. \E n \in Nat : Behind(i, n)'
      BY <3>2, <3>6
    <3> QED BY <1>1, <2>2, <2>3, <3>7 DEF Lockstep
  <2>5. CASE ~(alive[i] /\ st[i] # "gone")
    <3>1. UNCHANGED <<down, sent>>
      BY <1>8, <2>5 DEF EmitTick
    <3> QED BY <1>1, <2>1, <2>2, <2>3, <3>1 DEF Lockstep, Even, NoTicks
  <2> QED BY <2>4, <2>5
<1>9. CASE Receive(i)
  <2> DEFINE m == Head(up[i])
  <2>1. /\ pc = "ack" /\ pc' = pc /\ i \in todo /\ i \in clients /\ up[i] # <<>>
        /\ sent' = sent /\ got' = got /\ tick' = tick /\ down' = down /\ UNCHANGED st
    BY <1>9 DEF Receive, Waiting, reader, WriterSound
  <2>2. ~Entering(i) /\ ~Entering(i)'
    BY <1>1, <2>1 DEF Entering, Places
  <2>3. m.key # "BYE" /\ up'[i] = Tail(up[i])
    <3>1. i \in clients'
      BY <2>2 DEF Attached
    <3> QED BY <1>9, <3>1 DEF Receive, TypeOK
  <2>4. CASE m.key = "ACKT"
    <3>1. ~NoAck(i) /\ NoAck(i)' /\ Alone(up'[i], "ACKT")
      <4>1. up[i] \in Seq(FromInput)
        BY InputTypes
      <4>2. Head(up[i]) \in Keyed(up[i], "ACKT")
        BY <2>1, <2>4, <4>1, KeyedTail
      <4> QED BY <1>1, <1>7, <2>1, <2>3, <2>4, <4>2 DEF Lockstep, NoAck
    <3>2. Even(i)
      BY <1>1, <3>1 DEF Lockstep, Behind
    <3>3. Even(i)'
      BY <2>1, <3>2 DEF Even, NoTicks
    <3> QED BY <2>2, <3>1, <3>3 DEF Lockstep
  <2>5. CASE m.key # "ACKT"
    <3>1. i \in todo'
      BY <1>9, <2>1, <2>3, <2>5 DEF Receive
    <3>2. Pending(i)'
      BY <2>1, <3>1 DEF Pending
    <3>3. (NoAck(i) => NoAck(i)') /\ Alone(up'[i], "ACKT")
      BY <1>1, <1>7, <2>1, <2>3 DEF Lockstep
    <3>4. Even(i) => Even(i)'
      BY <2>1 DEF Even, NoTicks
    <3>5. ~Even(i) => \E n \in Nat : Behind(i, n)'
      BY <1>1, <1>5, <2>1, <3>3 DEF Lockstep
    <3> QED BY <2>2, <3>2, <3>3, <3>4, <3>5 DEF Lockstep
  <2> QED BY <2>4, <2>5
<1>10. CASE ~Receive(i) /\ (GiveUp(i) \/ Discard(i) \/ Crash \/ FinishClose)
  <2>1. up'[i] = <<>>
    BY <1>10 DEF GiveUp, Discard, Crash, FinishClose, TypeOK
  <2>2. sent' = sent /\ got' = got /\ tick' = tick
    BY <1>10 DEF GiveUp, Discard, Crash, FinishClose, reader
  <2>3. down'[i] = down[i]
    <3>1. CASE FinishClose
      <4>1. i \notin clients \cup parked
        <5>1. clients' = {} /\ parked' = {} /\ shaking' = None /\ st' = st
          BY <3>1 DEF FinishClose
        <5>2. st[i] \in {"out", "connecting"}
          BY <5>1, BridgeAssumption DEF Attached, Entering
        <5> QED BY <5>2 DEF Places
      <4> QED BY <3>1, <4>1 DEF FinishClose
    <3> QED BY <1>10, <3>1 DEF GiveUp, Discard, Crash
  <2>4. NoAck(i)' /\ Alone(up'[i], "ACKT")
    BY <2>1, KeyedNone DEF NoAck
  <2> QED BY <1>6, <1>10, <2>2, <2>3, <2>4
<1>11. CASE ~Receive(i) /\ Ready(i)
  <2>1. up'[i] = Append(up[i], [key |-> "REDY"]) /\ sent' = sent /\ got' = got /\ tick' = tick /\ down' = down
    BY <1>11 DEF Ready, reader, TypeOK
  <2> DEFINE m == [key |-> "REDY"]
  <2>2. m \in FromInput /\ m.key # "ACKT" /\ up[i] \in Seq(FromInput)
    BY InputTypes, Messages
  <2>3. /\ Keyed(Append(up[i], m), "ACKT") = Keyed(up[i], "ACKT")
        /\ Alone(up[i], "ACKT") => Alone(Append(up[i], m), "ACKT")
    <3> HIDE DEF m
    <3> QED BY <2>2, OtherAppended
  <2> QED BY <1>6, <1>11, <2>1, <2>3 DEF NoAck
<1>12. CASE ~Receive(i) /\ Park(i)
  <2>1. up[i] # <<>> /\ up'[i] = Tail(up[i]) /\ sent' = sent /\ got' = got /\ tick' = tick /\ down' = down
        /\ UNCHANGED st
    BY <1>12 DEF Park, reader, TypeOK
  <2> QED BY <1>6, <1>7, <1>12, <2>1
<1>13. CASE ~Receive(i) /\ (Drain(i))
  <2>1. ~Even(i)
    BY <1>13, Drained DEF Even
  <2>2. PICK n \in Nat : Behind(i, n)
    BY <1>1, <2>1 DEF Lockstep
  <2>3. Pending(i)' /\ slot' = slot /\ ~Entering(i)'
    BY <1>1, <1>4, <1>13, <2>1
  <2>4. sent' = sent /\ got' = got /\ up' = up
    BY <1>13 DEF Drain
  <2>5. Alone(down'[i], "TICK") /\ \A m \in Keyed(down'[i], "TICK") : slot[m.slot].frame = n
    BY <1>13, <2>2, Drained DEF Behind
  <2>6. tick'[i].fresh => NoTicks(i)' /\ slot[tick'[i].slot].frame = n
    <3> DEFINE m == Head(down[i])
    <3>1. CASE m.key = "TICK"
      <4>1. /\ m \in Keyed(down[i], "TICK") /\ Keyed(down'[i], "TICK") = {}
            /\ tick'[i] = [fresh |-> TRUE, slot |-> m.slot, seq |-> m.seq, frame |-> m.frame]
        BY <1>13, <2>2, <3>1, Drained DEF Behind
      <4>2. slot[m.slot].frame = n
        BY <2>2, <4>1 DEF Behind
      <4> HIDE DEF m
      <4>3. tick'[i].slot = m.slot
        BY <4>1
      <4> QED BY <4>1, <4>2, <4>3 DEF NoTicks
    <3>2. CASE m.key # "TICK"
      <4>1. tick' = tick /\ Keyed(down'[i], "TICK") = Keyed(down[i], "TICK")
        BY <1>13, <3>2, Drained
      <4> QED BY <2>2, <4>1 DEF Behind, NoTicks
    <3> QED BY <3>1, <3>2
  <2>7. Behind(i, n)'
    BY <2>2, <2>3, <2>4, <2>5, <2>6 DEF Behind, NoAck
  <2> QED BY <1>1, <2>3, <2>4, <2>7 DEF Lockstep
<1>14. CASE ~Receive(i) /\ (ReadSlot(i) \/ Load(i) \/ Copy(i))
  <2>1. sent' = sent /\ got' = got /\ up' = up /\ tick' = tick /\ down' = down
    BY <1>14 DEF ReadSlot, Load, Copy, sockets
  <2> QED BY <1>6, <1>14, <2>1 DEF NoAck
<1>15. CASE ~Receive(i) /\ Check(i)
  <2>1. CASE ~Stable(i)
    <3>1. sent' = sent /\ got' = got /\ up' = up /\ tick' = tick /\ down' = down
      BY <1>15, <2>1 DEF Check
    <3> QED BY <1>6, <1>15, <3>1 DEF NoAck
  <2>2. CASE Stable(i)
    <3>1. tick[i].fresh /\ copy[i].frame = slot[tick[i].slot].frame
      BY <1>15, <2>2 DEF Check, Stable, Copied
    <3>2. ~Even(i)
      BY <3>1 DEF Even
    <3>3. PICK n \in Nat : Behind(i, n)
      BY <1>1, <3>2 DEF Lockstep
    <3>4. Pending(i)' /\ ~Entering(i)'
      BY <1>1, <1>4, <1>15, <3>2
    <3>5. got'[i] = Append(got[i], copy[i].frame) /\ sent' = sent /\ down' = down
      BY <1>15, <2>2 DEF Check, TypeOK
    <3>6. ~tick'[i].fresh
      <4>1. tick' = [tick EXCEPT ![i].fresh = FALSE]
        BY <1>15, <2>2 DEF Check
      <4>2. tick'[i] = [tick[i] EXCEPT !.fresh = FALSE]
        BY <4>1 DEF TypeOK
      <4> QED BY <4>2, InputTypes
    <3>7. Even(i)'
      BY <3>1, <3>3, <3>5, <3>6 DEF Even, Behind, NoTicks
    <3> DEFINE m == [key |-> "ACKT", seq |-> tick[i].seq]
    <3>8. up'[i] = up[i] \/ up'[i] = Append(up[i], m)
      BY <1>15, <2>2 DEF Check, Send, TypeOK
    <3>9. m \in FromInput /\ up[i] \in Seq(FromInput) /\ NoAck(i)
      BY <3>3, InputTypes, Messages DEF Behind
    <3>10. Alone(up'[i], "ACKT")
      <4> HIDE DEF m
      <4>1. Alone(Append(up[i], m), "ACKT")
        BY <3>9, KeyedAppend DEF NoAck
      <4> QED BY <1>1, <3>8, <4>1 DEF Lockstep
    <3> QED BY <3>4, <3>7, <3>10 DEF Lockstep
  <2> QED BY <2>1, <2>2
<1>16. CASE ~Receive(i) /\ Leave(i)
  <2>1. sent' = sent /\ got' = got /\ down'[i] = <<>> /\ tick'[i] = NoTick
    BY <1>16 DEF Leave, TypeOK
  <2> DEFINE m == [key |-> "BYE"]
  <2>2. up'[i] = up[i] \/ up'[i] = Append(up[i], m)
    BY <1>16 DEF Leave, Send, TypeOK
  <2>3. m \in FromInput /\ m.key # "ACKT" /\ up[i] \in Seq(FromInput)
    BY InputTypes, Messages
  <2>4. (NoAck(i) => NoAck(i)') /\ Alone(up'[i], "ACKT")
    <3> HIDE DEF m
    <3>1. /\ Keyed(Append(up[i], m), "ACKT") = Keyed(up[i], "ACKT")
          /\ Alone(up[i], "ACKT") => Alone(Append(up[i], m), "ACKT")
      BY <2>3, OtherAppended
    <3> QED BY <1>1, <2>2, <3>1 DEF NoAck, Lockstep
  <2>5. ~tick'[i].fresh /\ NoTicks(i)' /\ Keyed(down'[i], "TICK") = {} /\ Alone(down'[i], "TICK")
    BY <2>1, KeyedNone DEF NoTick, NoTicks
  <2>6. Even(i) => Even(i)'
    BY <2>1, <2>5 DEF Even
  <2>7. ~Even(i) => Pending(i)' /\ \E n \in Nat : Behind(i, n)'
    <3> SUFFICES ASSUME ~Even(i) PROVE Pending(i)' /\ \E n \in Nat : Behind(i, n)'
      OBVIOUS
    <3>1. PICK n \in Nat : Behind(i, n)
      BY <1>1 DEF Lockstep
    <3>2. Behind(i, n)'
      BY <2>1, <2>4, <2>5, <3>1 DEF Behind
    <3> QED BY <1>4, <1>16, <3>2
  <2>8. NoAck(i)' \/ Pending(i)'
    BY <1>4, <1>16, <2>4
  <2>9. Entering(i)' => sent'[i] = <<>> /\ got'[i] = <<>> /\ NoAck(i)'
    BY <1>1, <2>1, <2>4 DEF Lockstep
  <2> QED BY <2>4, <2>6, <2>7, <2>8, <2>9 DEF Lockstep
<1>17. CASE ~Receive(i) /\ Untouched(i)
  BY <1>6, <1>17 DEF Untouched, NoAck
<1> QED BY <1>8, <1>9, <1>10, <1>11, <1>12, <1>13, <1>14, <1>15, <1>16, <1>17, StepsOf DEF Own

-----------------------------------------------------------------------------
(* The theorems.                                                            *)

LEMMA InvInit == Init => Inv
<1> SUFFICES ASSUME Init PROVE Inv
  OBVIOUS
<1> USE DEF Init
<1>1. 0 \in 0 .. Depth - 1 /\ MaxFails \in Nat /\ 0 \in 0 .. MaxFails /\ None \notin Input
  BY BridgeAssumption
<1>2. \A S : <<>> \in Seq(S)
  OBVIOUS
<1>3. TypeOK
  <2>1. /\ slot \in [0 .. Depth - 1 -> [seq : Nat, frame : Nat, body : Nat]]
        /\ tick \in [Input -> [fresh : BOOLEAN, slot : 0 .. Depth - 1, seq : Nat, frame : Nat]]
        /\ copy \in [Input -> [seq : Nat, frame : Nat, body : Nat]]
    BY <1>1 DEF NoCopy, NoTick
  <2>2. /\ down \in [Input -> Seq(Tick \cup Bye)] /\ up \in [Input -> Seq(FromInput)]
        /\ sent \in [Input -> Seq(Nat)] /\ got \in [Input -> Seq(Nat)]
    BY <1>2
  <2> QED BY <1>1, <2>1, <2>2 DEF TypeOK
<1>4. WriterSound
  <2>1. \A k \in Ring : slot[k] = NoCopy
    BY DEF Ring
  <2>2. pc = "idle" /\ number = 0
    OBVIOUS
  <2> HIDE DEF Init
  <2>3. NoCopy.seq = 0 /\ NoCopy.frame = 0 /\ NoCopy.body = 0 /\ 0 % 2 = 0
    BY DEF NoCopy
  <2>4. \A k \in Ring : SlotSound(k)
    BY <2>1, <2>2, <2>3 DEF SlotSound
  <2> QED BY <2>2, <2>4 DEF WriterSound
<1>5. ASSUME NEW i \in Input PROVE Announced(i) /\ Copied(i) /\ Places(i) /\ Lockstep(i)
  <2>1. /\ down[i] = <<>> /\ up[i] = <<>> /\ sent[i] = <<>> /\ got[i] = <<>> /\ tick[i] = NoTick
        /\ rpc[i] = "drain" /\ st[i] = "out"
    OBVIOUS
  <2>2. slot[0].frame = 0
    BY <1>1 DEF NoCopy
  <2>3. Announced(i)
    BY <2>1, <2>2, KeyedNone DEF Announced, NoTick
  <2>4. Copied(i)
    BY <2>1 DEF Copied
  <2>5. Places(i)
    BY <1>1, <2>1, <1>5 DEF Places
  <2>6. Lockstep(i)
    BY <2>1, KeyedNone DEF Lockstep, Even, NoAck, NoTicks, NoTick
  <2> QED BY <2>3, <2>4, <2>5, <2>6
<1> QED BY <1>3, <1>4, <1>5 DEF Inv

\* Who is sync never changes.
LEMMA SetupKept == ASSUME [Next]_vars PROVE setup' = setup
<1>1. CASE WriteFrame \/ Abort \/ Close \/ Crash
  BY <1>1 DEF WriteFrame, Abort, Close, Crash
<1>2. CASE Writer
  BY <1>2 DEF Writer, Poll, Woken, BeginWrite, EndWrite, FailWrite, TicksSent, WriteDone,
              EmitTick, Receive, Pass, GiveUp, FinishClose
<1>3. ASSUME NEW i \in Input, Connect(i) \/ OpenFails(i) \/ Handshake(i) PROVE setup' = setup
  BY <1>3 DEF Connect, OpenFails, Handshake, Accept, Ready, Park, Discard
<1>4. ASSUME NEW i \in Input, ReadFrame(i) \/ Leave(i) PROVE setup' = setup
  BY <1>4 DEF ReadFrame, Drain, ReadSlot, Load, Copy, Check, Leave
<1>5. CASE UNCHANGED vars
  BY <1>5 DEF vars
<1> QED BY <1>1, <1>2, <1>3, <1>4, <1>5 DEF Next

LEMMA InvStep == Inv /\ [Next]_vars => Inv'
<1> SUFFICES ASSUME Inv, [Next]_vars PROVE Inv'
  OBVIOUS
<1>1. TypeOK /\ WriterSound /\ TypeOK' /\ WriterSound'
  BY Typed, WriterKept DEF Inv
<1>2. ASSUME NEW i \in Input PROVE (Announced(i) /\ Copied(i) /\ Places(i))'
  BY <1>1, AnnouncedKept, CopiedKept, PlacesKept DEF Inv
<1>3. ASSUME NEW i \in Input, (i \in Sync)', Attached(i)' PROVE Lockstep(i)'
  <2>1. i \in Sync
    BY <1>3, SetupKept DEF Sync
  <2>2. Copied(i) /\ Places(i) /\ (Attached(i) => Lockstep(i))
    BY <2>1 DEF Inv
  <2> QED BY <1>1, <1>3, <2>1, <2>2, LockstepKept
<1> QED BY <1>1, <1>2, <1>3 DEF Inv

LEMMA Invariance == Spec => []Inv
BY InvInit, InvStep, PTL DEF Spec

\* The ring, the sockets and the cursors of every reader keep their types.
THEOREM BridgeTypeCorrect == Spec => []TypeOK
<1>1. Inv => TypeOK
  BY DEF Inv
<1> QED BY <1>1, Invariance, PTL

\* A frame is got by Check() and in no other way.
LEMMA GotByCheck ==
  ASSUME TypeOK, [Next]_vars, NEW i \in Input, got'[i] # got[i]
  PROVE  Stable(i) /\ rpc[i] = "check"
<1>1. CASE Own(i)
  BY <1>1 DEF Own, EmitTick, Receive, GiveUp, Ready, Park, Discard, Drain, ReadSlot, Load, Copy,
              Check, Leave, reader
<1>2. CASE FinishClose \/ Crash
  BY <1>2 DEF FinishClose, Crash, reader
<1> QED BY <1>1, <1>2, StepsOf DEF Untouched

\* The seqlock of readSlot() and writeSlot(), for any ring and any number of readers: what
\* readFrame() returns is one frame, that of its TICK or a later one.
THEOREM BridgeReadsWhole == Spec => ReadsWhole
<1>1. ASSUME Inv, [Next]_vars, NEW i \in Input, got'[i] # got[i]
      PROVE  /\ copy[i].frame >= tick[i].frame
             /\ copy[i].body = copy[i].frame \/ copy[i].frame \in failed
  <2> DEFINE k == slot[tick[i].slot]
  <2>1. rpc[i] = "check" /\ k.seq = copy[i].seq
    BY <1>1, GotByCheck DEF Stable, Inv
  <2>2. Announced(i) /\ Copied(i)
    BY <1>1 DEF Inv
  <2>3. copy[i].frame = k.frame /\ copy[i].body = k.body /\ k.seq % 2 = 0
    BY <2>1, <2>2 DEF Copied
  <2>4. SlotSound(tick[i].slot)
    BY <1>1, InputTypes DEF Inv, WriterSound
  <2> QED BY <2>2, <2>3, <2>4 DEF Announced, SlotSound
<1>2. Inv /\ [Next]_vars =>
        [\A i \in Input : got'[i] # got[i] =>
            /\ copy[i].frame >= tick[i].frame
            /\ copy[i].body = copy[i].frame \/ copy[i].frame \in failed]_vars
  BY <1>1
<1> QED BY <1>2, Invariance, PTL DEF Spec, ReadsWhole

\* "the input must acknowledge every TICK before the output's writeFrame returns": a sync
\* input that stays attached misses no frame, however it, the others, abort() and the
\* timeouts interleave.
THEOREM BridgeSyncLossless == Spec => []SyncLossless
<1>1. ASSUME Inv, NEW i \in clients \cap Sync
      PROVE  /\ got[i] = sent[i] \/ (sent[i] # <<>> /\ got[i] = SubSeq(sent[i], 1, Len(sent[i]) - 1))
             /\ (pc \in {"idle", "wait", "begin", "fill"} /\ ~aborted) => got[i] = sent[i]
  <2>1. i \in Input /\ Lockstep(i) /\ got[i] \in Seq(Nat)
    BY <1>1, InputTypes DEF Inv, TypeOK, Attached
  <2>2. CASE Even(i)
    BY <2>2 DEF Even
  <2>3. CASE Pending(i) /\ \E n \in Nat : Behind(i, n)
    <3>1. PICK n \in Nat : sent[i] = Append(got[i], n)
      BY <2>3 DEF Behind
    <3>2. SubSeq(Append(got[i], n), 1, Len(Append(got[i], n)) - 1) = got[i]
      BY <2>1, AppendProperties
    <3>3. sent[i] # <<>>
      BY <2>1, <3>1, AppendDiffers
    <3> QED BY <2>3, <3>1, <3>2, <3>3 DEF Pending
  <2> QED BY <2>1, <2>2, <2>3 DEF Lockstep
<1>2. Inv => SyncLossless
  BY <1>1 DEF SyncLossless
<1> QED BY <1>2, Invariance, PTL

=============================================================================
