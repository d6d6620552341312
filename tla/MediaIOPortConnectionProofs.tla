--------------------- MODULE MediaIOPortConnectionProofs ---------------------
(***************************************************************************)
(* What holds of MediaIOPortConnection for any number of sinks and frames,   *)
(* any write depth, limits, cut points and gate changes: every invariant of  *)
(* its run.                                                                *)
(*                                                                         *)
(* Base is what all the rest needs: types, one pump callable at most on the  *)
(* loop, and a pump that takes frames in order.  On top of it come, each by  *)
(* its own induction, the bound of a sink, the announcement of the end, the  *)
(* frame limit and the frames themselves.  No frame is lost because the gate *)
(* looked at every active sink and nothing but the pump's own write takes a  *)
(* plain sink's room away before the frame reaches it (Room); a converter's  *)
(* backend does take it away, which is why the hypothesis is needed.         *)
(***************************************************************************)
EXTENDS MediaIOPortConnection, SequenceTheorems, FiniteSetTheorems, TLAPS

Callable == {"wake", "pump"} \cup Sink

\* At most one pump callable is on the loop l, and the flag s tells of it.
OnePump(l, s) ==
    /\ s \in BOOLEAN /\ l \in Seq(Callable)
    /\ s <=> \E i \in DOMAIN l : l[i] = "pump"
    /\ \A i, j \in DOMAIN l : l[i] = "pump" /\ l[j] = "pump" => i = j

\* Posting something else keeps that.
LEMMA PumpAppend ==
  ASSUME NEW l, NEW s, OnePump(l, s), NEW x \in Callable, x # "pump"
  PROVE  OnePump(Append(l, x), s)
<1>1. /\ Append(l, x) \in Seq(Callable)
      /\ DOMAIN Append(l, x) = DOMAIN l \cup {Len(l) + 1}
      /\ \A i \in DOMAIN l : Append(l, x)[i] = l[i]
      /\ Append(l, x)[Len(l) + 1] = x
  BY DEF OnePump
<1> QED BY <1>1 DEF OnePump

\* Posting the pump, once.
LEMMA PumpPost ==
  ASSUME NEW l, OnePump(l, FALSE)
  PROVE  OnePump(Append(l, "pump"), TRUE)
<1>1. /\ Append(l, "pump") \in Seq(Callable)
      /\ DOMAIN Append(l, "pump") = DOMAIN l \cup {Len(l) + 1}
      /\ \A i \in DOMAIN l : Append(l, "pump")[i] = l[i]
      /\ Append(l, "pump")[Len(l) + 1] = "pump"
  BY DEF OnePump, Callable
<1> QED BY <1>1 DEF OnePump

\* Running what is first on the loop.
LEMMA PumpTail ==
  ASSUME NEW l, NEW s, OnePump(l, s), l # <<>>
  PROVE  OnePump(Tail(l), IF Head(l) = "pump" THEN FALSE ELSE s)
<1>1. /\ Tail(l) \in Seq(Callable) /\ Len(l) \in Nat /\ Len(l) > 0
      /\ DOMAIN l = 1..Len(l) /\ DOMAIN Tail(l) = 1..(Len(l) - 1)
      /\ \A i \in 1..(Len(l) - 1) : Tail(l)[i] = l[i + 1]
      /\ Head(l) = l[1]
  BY EmptySeq DEF OnePump
<1>2. CASE Head(l) = "pump"
  <2>1. \A i \in 1..(Len(l) - 1) : l[i + 1] # "pump"
    BY <1>1, <1>2 DEF OnePump
  <2> QED BY <1>1, <1>2, <2>1 DEF OnePump
<1>3. CASE Head(l) # "pump"
  <2>1. \A i \in DOMAIN l : l[i] = "pump" => i - 1 \in 1..(Len(l) - 1) /\ Tail(l)[i - 1] = "pump"
    BY <1>1, <1>3
  <2>2. s <=> \E i \in DOMAIN Tail(l) : Tail(l)[i] = "pump"
    BY <1>1, <2>1 DEF OnePump
  <2>3. \A i, j \in DOMAIN Tail(l) : Tail(l)[i] = "pump" /\ Tail(l)[j] = "pump" => i = j
    BY <1>1 DEF OnePump
  <2> QED BY <1>1, <1>3, <2>2, <2>3 DEF OnePump
<1> QED BY <1>2, <1>3

\* A wake-up is no pump.
LEMMA PumpWake ==
  ASSUME NEW l, NEW s, OnePump(l, s)
  PROVE  OnePump(Wake(l), s)
<1>1. OnePump(Append(l, "wake"), s)
  BY PumpAppend DEF Callable
<1> QED BY <1>1 DEF Wake

\* schedulePump() on what is left of the loop.
LEMMA PumpScheduled ==
  ASSUME NEW l, OnePump(l, scheduled), SchedulePump(l)
  PROVE  OnePump(loop', scheduled')
BY PumpPost DEF SchedulePump, OnePump

-----------------------------------------------------------------------------
(* The loop.                                                                *)

Posted == OnePump(loop, scheduled)

SinkStep(k) ==
    RunWriteError(k) \/ Deliver(k) \/ SinkStrand(k) \/ CloseSink(k) \/ SetSinkGate(k)

\* The steps of the specification, those of one sink together.
LEMMA Steps ==
  ASSUME Next
  PROVE  \/ RunWake \/ RunPump \/ Gate \/ Fetch \/ Await \/ ConsumeNoFrame \/ ConsumeFrame
         \/ EndRound \/ ResolveRead \/ Produce \/ Stop
         \/ \E k \in Sink : SinkStep(k)
BY DEF Next, Loop, SinkStep

\* Every step keeps one pump callable for the flag.
LEMMA PostedStep ==
  ASSUME Posted, executed \in [Sink -> {"no", "ok", "failed"}], [Next]_vars
  PROVE  Posted'
<1> USE DEF Posted
<1>1. CASE UNCHANGED vars
  BY <1>1 DEF vars, posted
<1>2. CASE RunWake
  <2>1. OnePump(Tail(loop), scheduled)
    BY <1>2, PumpTail DEF RunWake
  <2> QED BY <1>2, <2>1, PumpScheduled DEF RunWake
<1>3. CASE RunPump
  BY <1>3, PumpTail DEF RunPump
<1>4. CASE Gate \/ Fetch \/ Await \/ ConsumeNoFrame \/ ConsumeFrame \/ EndRound \/ Stop
  BY <1>4 DEF Gate, Fetch, Await, ConsumeNoFrame, ConsumeFrame, EndRound, Stop, posted
<1>5. CASE ResolveRead \/ Produce
  BY <1>5, PumpWake DEF ResolveRead, Produce
<1>6. ASSUME NEW k \in Sink, SinkStep(k)
      PROVE  Posted'
  <2>1. CASE RunWriteError(k)
    <3>1. Head(loop) # "pump"
      BY <2>1, ConnectionAssumption DEF RunWriteError
    <3> QED BY <2>1, <3>1, PumpTail DEF RunWriteError
  <2>2. CASE Deliver(k) \/ CloseSink(k) \/ ExecuteWrite(k)
    BY <2>2 DEF Deliver, PassOver, CutHere, HoldBack, Write, WriteTryAgain, WriteNotOpen,
                CloseSink, ExecuteWrite, posted
  <2>3. CASE CompleteWrite(k)
    <3>1. OnePump(Wake(loop), scheduled) /\ OnePump(Append(loop, k), scheduled)
      BY PumpWake, PumpAppend, ConnectionAssumption DEF Callable
    <3>2. executed[k] = "ok" \/ executed[k] = "failed"
      BY <2>3 DEF CompleteWrite
    <3> QED BY <2>3, <3>1, <3>2 DEF CompleteWrite
  <2>4. CASE Drain(k)
    BY <2>4, PumpWake DEF Drain
  <2>5. CASE SetSinkGate(k)
    BY <2>5, PumpScheduled DEF SetSinkGate, posted
  <2> QED BY <1>6, <2>1, <2>2, <2>3, <2>4, <2>5 DEF SinkStep, SinkStrand
<1> QED BY <1>1, <1>2, <1>3, <1>4, <1>5, <1>6, Steps
-----------------------------------------------------------------------------
(* Types.                                                                   *)

\* What is being completed is still counted as pending.
Completing == \A k \in Sink : executed[k] # "no" => writing[k] # <<>>

\* The pump works only while the connection runs; it then delivers the frames
\* in the order the source hands them out, and none twice.
Serial ==
    /\ pc # "idle" => running
    /\ running => taken = cur + (IF read = "frame" THEN 1 ELSE 0)
    /\ pc = "deliver" => cur \in Frame

Base == TypeOK /\ Posted /\ Completing /\ Serial

\* A sequence with one more element.
LEMMA Appended ==
  ASSUME NEW S, NEW q \in Seq(S), NEW x \in S
  PROVE  /\ Append(q, x) \in Seq(S) /\ Len(Append(q, x)) = Len(q) + 1
         /\ DOMAIN Append(q, x) = DOMAIN q \cup {Len(q) + 1}
         /\ \A i \in DOMAIN q : Append(q, x)[i] = q[i] /\ i <= Len(q)
         /\ Append(q, x)[Len(q) + 1] = x
         /\ Len(q) \in Nat /\ DOMAIN q = 1..Len(q)
OBVIOUS

\* What the steps do to the state of one sink gives states of sinks.
LEMMA SinkUpdates ==
  ASSUME NEW s \in [Sink -> SinkState], NEW k \in Sink
  PROVE  /\ [s EXCEPT ![k].stopped = TRUE] \in [Sink -> SinkState]
         /\ [s EXCEPT ![k].doneByLimit = TRUE] \in [Sink -> SinkState]
         /\ [s EXCEPT ![k].force = FALSE] \in [Sink -> SinkState]
         /\ [s EXCEPT ![k].stopped = TRUE, ![k].force = FALSE] \in [Sink -> SinkState]
         /\ [s EXCEPT ![k].gateOpen = FALSE] \in [Sink -> SinkState]
         /\ [s EXCEPT ![k].gateOpen = TRUE, ![k].force = TRUE] \in [Sink -> SinkState]
BY DEF SinkState

\* So does an accepted write.
LEMMA SinkWritten ==
  ASSUME NEW s \in [Sink -> SinkState], NEW k \in Sink, NEW b \in BOOLEAN, NEW n \in Nat
  PROVE  [s EXCEPT ![k].force = FALSE, ![k].count = n, ![k].doneByLimit = b]
                \in [Sink -> SinkState]
BY DEF SinkState

\* What belongs to the sinks.
SinkTypes ==
    /\ sinks \in [Sink -> SinkState]
    /\ writing \in [Sink -> Seq(Frame)]
    /\ executed \in [Sink -> {"no", "ok", "failed"}]
    /\ fifo \in [Sink -> Nat] /\ sinkOpen \in [Sink -> BOOLEAN]
    /\ got \in [Sink -> Seq([n : Frame, key : BOOLEAN])]
    /\ skipped \in [Sink -> SUBSET Frame]

\* What belongs to the pump and the source.
PumpTypes ==
    /\ setup \in Setups
    /\ running \in BOOLEAN /\ upstreamDone \in BOOLEAN /\ allDone \in BOOLEAN
    /\ pc \in {"idle", "gate", "fetch", "test", "deliver"}
    /\ cur \in 0..Last /\ at \in 1..(Len(Order) + 1)
    /\ read \in {"none", "flight", "frame"} \cup Failure /\ attached \in BOOLEAN
    /\ taken \in 0..Last /\ avail \in 0..Last
    /\ flips \in 0..MaxFlips /\ fails \in 0..MaxFails

\* The type invariant by parts.
LEMMA TypesSplit == TypeOK /\ Posted <=> SinkTypes /\ PumpTypes /\ Posted
BY DEF TypeOK, SinkTypes, PumpTypes, Posted, OnePump, Callable

\* The same after a step.
LEMMA TypesSplitNext == TypeOK' /\ Posted' <=> SinkTypes' /\ PumpTypes' /\ Posted'
BY DEF TypeOK, SinkTypes, PumpTypes, Posted, OnePump, Callable

\* Every step keeps the types of the pump and the source.
LEMMA PumpTypesStep ==
  ASSUME SinkTypes, PumpTypes, [Next]_vars
  PROVE  PumpTypes'
<1> USE DEF PumpTypes, flags, place, source, bounds
<1>0. Last \in Nat /\ MaxFlips \in Nat /\ MaxFails \in Nat /\ Len(Order) \in Nat
  BY ConnectionAssumption
<1>1. CASE UNCHANGED vars
  BY <1>1 DEF vars
<1>2. CASE RunWake \/ RunPump
  BY <1>2 DEF RunWake, RunPump
<1>3. CASE Gate \/ Fetch \/ Await \/ EndRound \/ Stop
  BY <1>3 DEF Gate, Fetch, Await, EndRound, Stop, MaybeAllDone
<1>4. CASE ConsumeNoFrame \/ ConsumeFrame
  <2>1. CASE ConsumeNoFrame
    <3>1. upstreamDone' \in BOOLEAN /\ running' \in BOOLEAN
      BY <2>1 DEF ConsumeNoFrame
    <3> QED BY <2>1, <3>1 DEF ConsumeNoFrame
  <2>2. CASE ConsumeFrame
    <3>1. cur' \in 0..Last /\ at' \in 1..(Len(Order) + 1)
      BY <1>0, <2>2 DEF ConsumeFrame
    <3>2. pc' \in {"idle", "deliver"}
      BY <2>2 DEF ConsumeFrame
    <3> QED BY <2>2, <3>1, <3>2 DEF ConsumeFrame
  <2> QED BY <1>4, <2>1, <2>2
<1>5. CASE ResolveRead
  <2>1. taken' \in 0..Last
    BY <1>0, <1>5 DEF ResolveRead
  <2>2. read' \in {"none", "flight", "frame"} \cup Failure
    BY <1>5 DEF ResolveRead, ReadResult, Failure
  <2>3. fails' \in 0..MaxFails
    BY <1>0, <1>5 DEF ResolveRead
  <2> QED BY <1>5, <2>1, <2>2, <2>3 DEF ResolveRead
<1>6. CASE Produce
  BY <1>0, <1>6 DEF Produce
<1>7. ASSUME NEW k \in Sink, SinkStep(k)
      PROVE  PumpTypes'
  <2>1. CASE RunWriteError(k) \/ CloseSink(k) \/ SetSinkGate(k) \/ SinkStrand(k)
    BY <1>0, <2>1 DEF RunWriteError, MaybeAllDone, CloseSink, SetSinkGate, SinkStrand, ExecuteWrite,
                CompleteWrite, Drain
  <2>2. CASE Deliver(k)
    <3>1. at <= Len(Order) /\ at \in Nat
      BY <1>0, <2>2 DEF Deliver, PassOver, CutHere, HoldBack, Write, WriteTryAgain, WriteNotOpen,
                  Here, Writable
    <3> QED BY <1>0, <2>2, <3>1 DEF Deliver, PassOver, CutHere, HoldBack, Write, WriteTryAgain,
                  WriteNotOpen, Here, Writable
  <2> QED BY <1>7, <2>1, <2>2 DEF SinkStep
<1> QED BY <1>1, <1>2, <1>3, <1>4, <1>5, <1>6, <1>7, Steps

\* Every step keeps the types of what belongs to the sinks.
LEMMA SinkTypesStep ==
  ASSUME SinkTypes, PumpTypes, Completing, Serial, [Next]_vars
  PROVE  SinkTypes'
<1> USE DEF SinkTypes, strands, history
<1>1. CASE UNCHANGED vars
  BY <1>1 DEF vars
<1>2. CASE RunWake \/ RunPump \/ Gate \/ Fetch \/ Await \/ ConsumeNoFrame \/ ConsumeFrame
           \/ EndRound \/ Stop
  BY <1>2 DEF RunWake, RunPump, Gate, Fetch, Await, ConsumeNoFrame, ConsumeFrame, EndRound, Stop
<1>3. CASE ResolveRead \/ Produce
  BY <1>3 DEF ResolveRead, Produce
<1>4. ASSUME NEW k \in Sink, SinkStep(k)
      PROVE  SinkTypes'
  <2>1. CASE RunWriteError(k)
    <3>1. [sinks EXCEPT ![k].stopped = TRUE] \in [Sink -> SinkState]
      BY SinkUpdates
    <3>2. sinks' \in [Sink -> SinkState]
      BY <2>1, <3>1 DEF RunWriteError
    <3> QED BY <2>1, <3>2 DEF RunWriteError
  <2>2. CASE CloseSink(k)
    BY <2>2 DEF CloseSink
  <2>3. CASE SetSinkGate(k)
    <3>1. /\ [sinks EXCEPT ![k].gateOpen = FALSE] \in [Sink -> SinkState]
          /\ [sinks EXCEPT ![k].gateOpen = TRUE, ![k].force = TRUE] \in [Sink -> SinkState]
      BY SinkUpdates
    <3>2. sinks' \in [Sink -> SinkState]
      BY <2>3, <3>1 DEF SetSinkGate
    <3> QED BY <2>3, <3>2 DEF SetSinkGate
  <2>4. CASE ExecuteWrite(k)
    <3>0. fifo[k] + 1 \in Nat /\ [fifo EXCEPT ![k] = fifo[k] + 1] \in [Sink -> Nat]
      OBVIOUS
    <3>1. fifo' \in [Sink -> Nat]
      BY <2>4, <3>0 DEF ExecuteWrite
    <3>2. executed' \in [Sink -> {"no", "ok", "failed"}]
      BY <2>4 DEF ExecuteWrite
    <3> QED BY <2>4, <3>1, <3>2 DEF ExecuteWrite
  <2>5. CASE CompleteWrite(k)
    <3>1. writing[k] # <<>> /\ writing[k] \in Seq(Frame)
      BY <2>5 DEF CompleteWrite, Completing
    <3>2. Tail(writing[k]) \in Seq(Frame)
      BY <3>1
    <3> QED BY <2>5, <3>2 DEF CompleteWrite
  <2>6. CASE Drain(k)
    <3>1. fifo[k] - 1 \in Nat
      BY <2>6 DEF Drain
    <3> QED BY <2>6, <3>1 DEF Drain
  <2>7. CASE PassOver(k) \/ WriteTryAgain(k) \/ WriteNotOpen(k) \/ CutHere(k)
    <3>0. /\ [sinks EXCEPT ![k].doneByLimit = TRUE] \in [Sink -> SinkState]
          /\ [sinks EXCEPT ![k].force = FALSE] \in [Sink -> SinkState]
          /\ [sinks EXCEPT ![k].stopped = TRUE, ![k].force = FALSE] \in [Sink -> SinkState]
      BY SinkUpdates
    <3>1. sinks' \in [Sink -> SinkState]
      BY <2>7, <3>0 DEF PassOver, WriteTryAgain, WriteNotOpen, CutHere
    <3> QED BY <2>7, <3>1 DEF PassOver, WriteTryAgain, WriteNotOpen, CutHere
  <2>8. CASE HoldBack(k)
    BY <2>8 DEF HoldBack, Here, Serial
  <2>9. CASE Write(k)
    <3>1. cur \in Frame
      BY <2>9 DEF Write, Writable, Here, Serial
    <3>2. Stamp(k) \in BOOLEAN /\ sinks[k].count + 1 \in Nat /\ AtLimit(sinks[k].count + 1, k) \in BOOLEAN
      BY DEF Stamp, AtLimit, SinkState
    <3>3. sinks' \in [Sink -> SinkState]
      BY <2>9, <3>2, SinkWritten DEF Write
    <3>4. Append(writing[k], cur) \in Seq(Frame)
      BY <3>1
    <3>5. [n |-> cur, key |-> Stamp(k)] \in [n : Frame, key : BOOLEAN]
      BY <3>1, <3>2
    <3>6. Append(got[k], [n |-> cur, key |-> Stamp(k)]) \in Seq([n : Frame, key : BOOLEAN])
      BY <3>5, Appended
    <3> QED BY <2>9, <3>3, <3>4, <3>6 DEF Write
  <2> QED BY <1>4, <2>1, <2>2, <2>3, <2>4, <2>5, <2>6, <2>7, <2>8, <2>9
          DEF SinkStep, SinkStrand, Deliver
<1> QED BY <1>1, <1>2, <1>3, <1>4, Steps
\* Every step keeps Completing.
LEMMA CompletingStep ==
  ASSUME SinkTypes, Serial, Completing, [Next]_vars
  PROVE  Completing'
<1> USE DEF Completing, strands
<1>1. CASE UNCHANGED vars
  BY <1>1 DEF vars
<1>2. CASE RunWake \/ RunPump \/ Gate \/ Fetch \/ Await \/ ConsumeNoFrame \/ ConsumeFrame
           \/ EndRound \/ Stop \/ ResolveRead \/ Produce
  BY <1>2 DEF RunWake, RunPump, Gate, Fetch, Await, ConsumeNoFrame, ConsumeFrame, EndRound, Stop,
              ResolveRead, Produce
<1>3. ASSUME NEW k \in Sink, SinkStep(k)
      PROVE  Completing'
  <2>1. CASE RunWriteError(k) \/ CloseSink(k) \/ SetSinkGate(k) \/ Drain(k)
    BY <2>1 DEF RunWriteError, CloseSink, SetSinkGate, Drain
  <2>2. CASE ExecuteWrite(k) \/ CompleteWrite(k)
    BY <2>2 DEF ExecuteWrite, CompleteWrite, SinkTypes
  <2>3. CASE PassOver(k) \/ WriteTryAgain(k) \/ WriteNotOpen(k) \/ CutHere(k) \/ HoldBack(k)
    BY <2>3 DEF PassOver, WriteTryAgain, WriteNotOpen, CutHere, HoldBack
  <2>4. CASE Write(k)
    <3>1. writing' = [writing EXCEPT ![k] = Append(writing[k], cur)]
      BY <2>4 DEF Write
    <3>2. Append(writing[k], cur) # <<>>
      <4>1. cur \in Frame /\ writing[k] \in Seq(Frame)
        BY <2>4 DEF Write, Writable, Here, Serial, SinkTypes
      <4>2. Len(Append(writing[k], cur)) = Len(writing[k]) + 1 /\ Len(writing[k]) \in Nat
        BY <4>1, Appended
      <4> QED BY <4>2, EmptySeq
    <3> QED BY <2>4, <3>1, <3>2 DEF Write, SinkTypes
  <2> QED BY <1>3, <2>1, <2>2, <2>3, <2>4 DEF SinkStep, SinkStrand, Deliver
<1> QED BY <1>1, <1>2, <1>3, Steps

\* Every step keeps Serial.
LEMMA SerialStep ==
  ASSUME PumpTypes, Serial, [Next]_vars
  PROVE  Serial'
<1> USE DEF Serial, flags, place, source
<1>0. Last \in Nat /\ taken \in 0..Last /\ cur \in 0..Last /\ avail \in 0..Last
  BY ConnectionAssumption DEF PumpTypes
<1>1. CASE UNCHANGED vars
  BY <1>1 DEF vars
<1>2. CASE RunWake \/ RunPump \/ Gate \/ Fetch \/ Await \/ EndRound \/ Stop \/ Produce
  BY <1>2 DEF RunWake, RunPump, Gate, Fetch, Await, EndRound, Stop, Produce
<1>3. CASE ConsumeNoFrame
  <2>1. pc' = "idle" /\ taken' = taken /\ cur' = cur /\ read' = "none" /\ read # "frame"
    BY <1>3 DEF ConsumeNoFrame, Failure
  <2>2. running' => running
    BY <1>3 DEF ConsumeNoFrame
  <2> QED BY <2>1, <2>2
<1>4. CASE ConsumeFrame
  BY <1>0, <1>4 DEF ConsumeFrame, Frame
<1>5. CASE ResolveRead
  <2>1. taken' = taken + (IF read' = "frame" THEN 1 ELSE 0)
    BY <1>0, <1>5 DEF ResolveRead, ReadResult
  <2> QED BY <1>0, <1>5, <2>1 DEF ResolveRead
<1>6. ASSUME NEW k \in Sink, SinkStep(k)
      PROVE  Serial'
  <2>1. CASE RunWriteError(k) \/ CloseSink(k) \/ SetSinkGate(k) \/ Drain(k)
             \/ ExecuteWrite(k) \/ CompleteWrite(k)
    BY <2>1 DEF RunWriteError, CloseSink, SetSinkGate, Drain, ExecuteWrite, CompleteWrite
  <2>2. CASE PassOver(k) \/ CutHere(k) \/ HoldBack(k)
    BY <2>2 DEF PassOver, CutHere, HoldBack, Here
  <2>3. CASE Write(k) \/ WriteTryAgain(k) \/ WriteNotOpen(k)
    BY <2>3 DEF Write, WriteTryAgain, WriteNotOpen, Writable, Here
  <2> QED BY <1>6, <2>1, <2>2, <2>3 DEF SinkStep, SinkStrand, Deliver
<1> QED BY <1>1, <1>2, <1>3, <1>4, <1>5, <1>6, Steps

\* A started connection satisfies the base invariant.
LEMMA BaseInit == Init => Base
<1> SUFFICES ASSUME Init PROVE Base
  OBVIOUS
<1> USE ConnectionAssumption DEF Init
<1>1. Posted
  <2>1. loop = <<>> /\ <<>> \in Seq(Callable) /\ Len(<<>>) = 0 /\ scheduled = FALSE
    BY EmptySeq
  <2>2. DOMAIN loop = {}
    BY <2>1
  <2> QED BY <2>1, <2>2 DEF Posted, OnePump
<1>2. SinkTypes
  BY EmptySeq DEF SinkTypes, SinkState
<1>3. PumpTypes
  <2>1. Last \in Nat /\ MaxFlips \in Nat /\ MaxFails \in Nat /\ Len(Order) \in Nat
    OBVIOUS
  <2>2. avail \in 0..Last
    BY <2>1
  <2>3. cur \in 0..Last /\ taken \in 0..Last /\ at \in 1..(Len(Order) + 1)
    BY <2>1
  <2>4. flips \in 0..MaxFlips /\ fails \in 0..MaxFails
    BY <2>1
  <2> QED BY <2>2, <2>3, <2>4 DEF PumpTypes
<1>4. Completing /\ Serial
  BY DEF Completing, Serial
<1> QED BY <1>1, <1>2, <1>3, <1>4, TypesSplit DEF Base

\* The base invariant is inductive.
LEMMA BaseStep == Base /\ [Next]_vars => Base'
<1> SUFFICES ASSUME Base, [Next]_vars PROVE Base'
  OBVIOUS
<1>1. SinkTypes /\ PumpTypes /\ Posted /\ Completing /\ Serial
  BY TypesSplit DEF Base
<1>2. SinkTypes' /\ PumpTypes' /\ Completing' /\ Serial'
  BY <1>1, SinkTypesStep, PumpTypesStep, CompletingStep, SerialStep
<1>3. Posted'
  BY <1>1, PostedStep DEF SinkTypes
<1> QED BY <1>2, <1>3, TypesSplitNext DEF Base

\* The base invariant holds.
LEMMA BaseAlways == Spec => []Base
<1> QED BY BaseInit, BaseStep, PTL DEF Spec

\* Every variable of the connection keeps its type; no frame after the last is
\* read and no completion finds a sink with nothing pending.
THEOREM ConnectionTypeCorrect == Spec => []TypeOK
<1>1. Base => TypeOK
  BY DEF Base
<1> QED BY <1>1, BaseAlways, PTL

\* mediaioportconnection.h:441: _pumpScheduled stands for exactly one pump
\* callable on the loop.
THEOREM ConnectionOnePump == Spec => []OnePumpScheduled
<1>1. ASSUME Base PROVE OnePumpScheduled
  <2> DEFINE P == {i \in DOMAIN loop : loop[i] = "pump"}
  <2>1. OnePump(loop, scheduled)
    BY <1>1 DEF Base, Posted
  <2>2. CASE scheduled
    <3>1. PICK i \in DOMAIN loop : loop[i] = "pump"
      BY <2>1, <2>2 DEF OnePump
    <3>2. P = {i}
      BY <2>1, <3>1 DEF OnePump
    <3>3. Cardinality(P) = 1
      BY <3>2, FS_Singleton
    <3> QED BY <2>2, <3>3 DEF OnePumpScheduled
  <2>3. CASE ~scheduled
    <3>1. P = {}
      BY <2>1, <2>3 DEF OnePump
    <3>2. Cardinality(P) = 0
      BY <3>1, FS_EmptySet
    <3> QED BY <2>3, <3>2 DEF OnePumpScheduled
  <2> QED BY <2>2, <2>3
<1> QED BY <1>1, BaseAlways, PTL

-----------------------------------------------------------------------------
(* The sinks: none holds too much, and all of them being done is told.      *)

\* Every step keeps a sink within its write depth.
LEMMA BoundedStep ==
  ASSUME Base, SinkBounded, [Next]_vars
  PROVE  SinkBounded'
<1> USE DEF SinkBounded, flags, strands
<1>0. SinkTypes /\ WriteDepth \in Nat
  BY TypesSplit, ConnectionAssumption DEF Base
<1>1. CASE UNCHANGED vars
  BY <1>1 DEF vars
<1>2. CASE RunWake \/ RunPump \/ Gate \/ Fetch \/ Await \/ ConsumeNoFrame \/ ConsumeFrame
           \/ EndRound \/ Stop \/ ResolveRead \/ Produce
  BY <1>2 DEF RunWake, RunPump, Gate, Fetch, Await, ConsumeNoFrame, ConsumeFrame, EndRound, Stop,
              ResolveRead, Produce
<1>3. ASSUME NEW k \in Sink, SinkStep(k), NEW j \in Sink
      PROVE  Len(writing[j])' + fifo'[j] <=
                WriteDepth + IF executed'[j] = "ok" /\ j \in setup'.converters THEN 1 ELSE 0
  <2>0. /\ Len(writing[j]) \in Nat /\ fifo[j] \in Nat
        /\ Len(writing[j]) + fifo[j] <=
              WriteDepth + IF executed[j] = "ok" /\ j \in setup.converters THEN 1 ELSE 0
    BY <1>0 DEF SinkTypes
  <2>1. CASE RunWriteError(k) \/ CloseSink(k) \/ SetSinkGate(k)
    BY <2>0, <2>1 DEF RunWriteError, CloseSink, SetSinkGate
  <2>2. CASE ExecuteWrite(k)
    <3>1. /\ writing' = writing /\ setup' = setup
          /\ \/ executed'[j] = executed[j] /\ fifo'[j] = fifo[j]
             \/ /\ executed[j] = "no" /\ executed'[j] = "failed" /\ fifo'[j] = fifo[j]
             \/ /\ executed[j] = "no" /\ executed'[j] = "ok"
                /\ fifo'[j] = fifo[j] + (IF j \in setup.converters THEN 1 ELSE 0)
      BY <1>0, <2>0, <2>2 DEF ExecuteWrite, SinkTypes
    <3>2. Len(writing[j]) + fifo[j] <= WriteDepth \/ executed[j] = "ok"
      BY <1>0, <2>0
    <3> QED BY <1>0, <2>0, <3>1, <3>2
  <2>3. CASE CompleteWrite(k)
    <3>1. Len(Tail(writing[k])) = Len(writing[k]) - 1 /\ Len(writing[k]) \in Nat
      BY <1>0, <2>3, EmptySeq DEF CompleteWrite, Base, Completing, SinkTypes
    <3>2. /\ Len(writing'[j]) = IF j = k THEN Len(writing[j]) - 1 ELSE Len(writing[j])
          /\ fifo' = fifo /\ setup' = setup
          /\ executed'[j] = IF j = k THEN "no" ELSE executed[j]
      BY <1>0, <2>3, <3>1 DEF CompleteWrite, SinkTypes
    <3> QED BY <1>0, <2>0, <3>2
  <2>4. CASE Drain(k)
    BY <1>0, <2>0, <2>4 DEF Drain, SinkTypes
  <2>5. CASE PassOver(k) \/ WriteTryAgain(k) \/ WriteNotOpen(k) \/ CutHere(k) \/ HoldBack(k)
    BY <2>0, <2>5 DEF PassOver, WriteTryAgain, WriteNotOpen, CutHere, HoldBack
  <2>6. CASE Write(k)
    <3>1. Len(Append(writing[k], cur)) = Len(writing[k]) + 1 /\ Len(writing[k]) \in Nat
      BY <1>0 DEF SinkTypes
    <3>2. /\ Len(writing'[j]) = IF j = k THEN Len(writing[j]) + 1 ELSE Len(writing[j])
          /\ fifo' = fifo /\ setup' = setup /\ executed' = executed
          /\ Len(writing[k]) + fifo[k] < WriteDepth
      BY <1>0, <2>6, <3>1 DEF Write, Accepts, SinkTypes
    <3> QED BY <1>0, <2>0, <3>2
  <2> QED BY <1>3, <2>1, <2>2, <2>3, <2>4, <2>5, <2>6 DEF SinkStep, SinkStrand, Deliver
<1> QED BY <1>1, <1>2, <1>3, Steps

\* A sink never holds more frames than its write depth, those in the converter
\* behind it included but for the one being completed.
THEOREM ConnectionSinkBounded == Spec => []SinkBounded
<1>1. Init => SinkBounded
  BY EmptySeq, ConnectionAssumption DEF Init, SinkBounded
<1>2. Base /\ SinkBounded /\ [Next]_vars => SinkBounded'
  BY BoundedStep
<1> QED BY <1>1, <1>2, BaseAlways, PTL DEF Spec
\* No sink is left.
AllGone(s) == \A k \in Sink : Inactive(s, k)

\* Outside a round, the announcement was made if and only if it is true.
Announced ==
    /\ allDone => AllGone(sinks)
    /\ pc \notin {"gate", "deliver"} /\ AllGone(sinks) => allDone

\* A sink state that went from r to t without a write.
Kept(r, t) ==
    /\ t.count = r.count
    /\ r.stopped => t.stopped
    /\ r.doneByLimit => t.doneByLimit

\* It is still out if it was, and only then.
SameOut(r, t) == Kept(r, t) /\ t.stopped = r.stopped /\ t.doneByLimit = r.doneByLimit

\* What each of the updates of one sink's state does to its fields.
LEMMA Stopped ==
  ASSUME NEW s \in [Sink -> SinkState], NEW k \in Sink, NEW t,
         t = [s EXCEPT ![k].stopped = TRUE] \/ t = [s EXCEPT ![k].stopped = TRUE, ![k].force = FALSE]
  PROVE  Kept(s[k], t[k]) /\ t[k].stopped /\ \A j \in Sink : j # k => t[j] = s[j]
BY DEF SinkState, Kept

\* An update that ends a sink at its limit.
LEMMA Ended ==
  ASSUME NEW s \in [Sink -> SinkState], NEW k \in Sink, NEW t,
         t = [s EXCEPT ![k].doneByLimit = TRUE]
  PROVE  Kept(s[k], t[k]) /\ t[k].doneByLimit /\ \A j \in Sink : j # k => t[j] = s[j]
BY DEF SinkState, Kept

\* An update that takes the keyframe request away.
LEMMA Unforced ==
  ASSUME NEW s \in [Sink -> SinkState], NEW k \in Sink, NEW t,
         t = [s EXCEPT ![k].force = FALSE]
  PROVE  SameOut(s[k], t[k]) /\ \A j \in Sink : j # k => t[j] = s[j]
BY DEF SinkState, Kept, SameOut

\* A gate change: an opened gate asks for a keyframe.
LEMMA Gated ==
  ASSUME NEW s \in [Sink -> SinkState], NEW k \in Sink, NEW t,
         \/ t = [s EXCEPT ![k].gateOpen = FALSE] 
         \/ t = [s EXCEPT ![k].gateOpen = TRUE, ![k].force = TRUE]
  PROVE  /\ SameOut(s[k], t[k]) /\ (t[k].gateOpen => t[k].force)
         /\ \A j \in Sink : j # k => t[j] = s[j]
BY DEF SinkState, Kept, SameOut

\* The other sinks stay as they are.
Unmoved(k) == \A j \in Sink : j # k => sinks'[j] = sinks[j]

\* What a step of sink k does to the sink states.
LEMMA SinkSteps ==
  ASSUME SinkTypes, NEW k \in Sink, SinkStep(k)
  PROVE  Unmoved(k) /\ (Write(k) \/ Kept(sinks[k], sinks'[k]))
<1>0. sinks \in [Sink -> SinkState] /\ Kept(sinks[k], sinks[k])
  BY DEF SinkTypes, Kept
<1>1. CASE UNCHANGED sinks
  BY <1>0, <1>1 DEF Unmoved
<1>2. CASE RunWriteError(k) \/ WriteNotOpen(k)
  <2>1. \/ UNCHANGED sinks
        \/ sinks' = [sinks EXCEPT ![k].stopped = TRUE]
        \/ sinks' = [sinks EXCEPT ![k].stopped = TRUE, ![k].force = FALSE]
    BY <1>2 DEF RunWriteError, WriteNotOpen
  <2> QED BY <1>0, <1>1, <2>1, Stopped DEF Unmoved
<1>3. CASE CutHere(k)
  BY <1>0, <1>3, Ended DEF CutHere, Unmoved
<1>4. CASE SetSinkGate(k)
  <2>1. \/ sinks' = [sinks EXCEPT ![k].gateOpen = FALSE]
        \/ sinks' = [sinks EXCEPT ![k].gateOpen = TRUE, ![k].force = TRUE]
    BY <1>4 DEF SetSinkGate
  <2> QED BY <1>0, <2>1, Gated DEF Unmoved, SameOut
<1>5. CASE WriteTryAgain(k)
  BY <1>0, <1>5, Unforced DEF WriteTryAgain, Unmoved, SameOut
<1>6. CASE Write(k)
  <2>1. sinks[k].count + 1 \in Nat /\ AtLimit(sinks[k].count + 1, k) \in BOOLEAN
    BY <1>0 DEF SinkState, AtLimit
  <2>2. sinks' = [sinks EXCEPT ![k].force = FALSE, ![k].count = sinks[k].count + 1,
                               ![k].doneByLimit = AtLimit(sinks[k].count + 1, k)]
    BY <1>6 DEF Write
  <2>3. /\ sinks'[k].count = sinks[k].count + 1
        /\ sinks'[k].doneByLimit = AtLimit(sinks[k].count + 1, k)
        /\ \A j \in Sink : j # k => sinks'[j] = sinks[j]
    <3> DEFINE n == sinks[k].count + 1
               b == AtLimit(n, k)
    <3>1. n \in Nat /\ b \in BOOLEAN
      BY <2>1
    <3>2. sinks' = [sinks EXCEPT ![k].force = FALSE, ![k].count = n, ![k].doneByLimit = b]
      BY <2>2
    <3> HIDE DEF n, b
    <3>3. /\ sinks'[k].count = n /\ sinks'[k].doneByLimit = b
          /\ \A j \in Sink : j # k => sinks'[j] = sinks[j]
      BY <1>0, <3>1, <3>2 DEF SinkState
    <3> QED BY <3>3 DEF n, b
  <2> QED BY <1>6, <2>3 DEF Unmoved
<1>7. CASE CloseSink(k) \/ SinkStrand(k) \/ PassOver(k) \/ HoldBack(k)
  BY <1>1, <1>7 DEF CloseSink, SinkStrand, ExecuteWrite, CompleteWrite, Drain, PassOver, HoldBack
<1> QED BY <1>2, <1>3, <1>4, <1>5, <1>6, <1>7 DEF SinkStep, Deliver

\* A gate change and a refused write leave a sink in.
LEMMA StillIn ==
  ASSUME SinkTypes, NEW k \in Sink, SetSinkGate(k) \/ WriteTryAgain(k)
  PROVE  SameOut(sinks[k], sinks'[k])
<1>0. sinks \in [Sink -> SinkState]
  BY DEF SinkTypes
<1>1. \/ sinks' = [sinks EXCEPT ![k].gateOpen = FALSE]
      \/ sinks' = [sinks EXCEPT ![k].gateOpen = TRUE, ![k].force = TRUE]
      \/ sinks' = [sinks EXCEPT ![k].force = FALSE]
  BY DEF SetSinkGate, WriteTryAgain
<1> QED BY <1>0, <1>1, Gated, Unforced

\* What an accepted write does to its sink.
LEMMA WriteFields ==
  ASSUME SinkTypes, NEW k \in Sink, Write(k)
  PROVE  /\ sinks'[k].count = sinks[k].count + 1
         /\ sinks'[k].doneByLimit = AtLimit(sinks[k].count + 1, k)
         /\ ~sinks[k].doneByLimit /\ ~sinks[k].stopped
<1>0. sinks \in [Sink -> SinkState]
  BY DEF SinkTypes
<1>1. sinks[k].count + 1 \in Nat /\ AtLimit(sinks[k].count + 1, k) \in BOOLEAN
  BY <1>0 DEF SinkState, AtLimit
<1>2. ~Inactive(sinks, k)
  BY DEF Write, Writable
<1>3. sinks'[k].count = sinks[k].count + 1 /\ sinks'[k].doneByLimit = AtLimit(sinks[k].count + 1, k)
  <2>1. PICK b \in BOOLEAN : b = AtLimit(sinks[k].count + 1, k)
    BY <1>1
  <2>2. PICK n \in Nat : n = sinks[k].count + 1
    BY <1>1
  <2>3. sinks' = [sinks EXCEPT ![k].force = FALSE, ![k].count = n, ![k].doneByLimit = b]
    BY <2>1, <2>2 DEF Write
  <2>4. sinks'[k].count = n /\ sinks'[k].doneByLimit = b
    BY <1>0, <2>3 DEF SinkState
  <2> QED BY <2>1, <2>2, <2>4
<1> QED BY <1>2, <1>3 DEF Inactive

\* A sink that is out stays out.
LEMMA StaysOut ==
  ASSUME SinkTypes, NEW k \in Sink, SinkStep(k), NEW j \in Sink, Inactive(sinks, j)
  PROVE  Inactive(sinks', j)
<1>1. CASE j # k
  BY <1>1, SinkSteps DEF Unmoved, Inactive
<1>2. CASE j = k /\ Write(k)
  BY <1>2, WriteFields DEF Inactive
<1>3. CASE j = k /\ Kept(sinks[k], sinks'[k])
  BY <1>3 DEF Kept, Inactive
<1> QED BY <1>1, <1>2, <1>3, SinkSteps

\* Every step keeps the announcement true.
LEMMA AnnouncedStep ==
  ASSUME SinkTypes, PumpTypes, Announced, [Next]_vars
  PROVE  Announced'
<1> USE DEF Announced, flags, place
<1>1. CASE UNCHANGED vars
  BY <1>1 DEF vars, AllGone, Inactive
<1>2. CASE RunWake \/ RunPump \/ Fetch \/ Await \/ ResolveRead \/ Produce \/ ConsumeFrame
  <2>1. AllGone(sinks') <=> AllGone(sinks)
    BY <1>2 DEF RunWake, RunPump, Fetch, Await, ResolveRead, Produce, ConsumeFrame
  <2> QED BY <1>2, <2>1 DEF RunWake, RunPump, Fetch, Await, ResolveRead, Produce, ConsumeFrame
<1>3. CASE ConsumeNoFrame \/ Stop
  BY <1>3 DEF ConsumeNoFrame, Stop, PumpTypes
<1>4. CASE Gate \/ EndRound
  BY <1>4 DEF Gate, EndRound, MaybeAllDone, AllGone
<1>5. ASSUME NEW k \in Sink, SinkStep(k)
      PROVE  Announced'
  <2>1. AllGone(sinks) => AllGone(sinks')
    BY <1>5, StaysOut DEF AllGone
  <2>2. CASE RunWriteError(k)
    BY <2>1, <2>2 DEF RunWriteError, MaybeAllDone, AllGone
  <2>3. CASE CloseSink(k) \/ SinkStrand(k)
    <3>1. sinks' = sinks /\ pc' = pc /\ allDone' = allDone
      BY <2>3 DEF CloseSink, SinkStrand, ExecuteWrite, CompleteWrite, Drain
    <3> QED BY <3>1
  <2>4. CASE SetSinkGate(k)
    <3>1. AllGone(sinks') <=> AllGone(sinks)
      <4>1. SameOut(sinks[k], sinks'[k]) /\ Unmoved(k)
        BY <1>5, <2>4, SinkSteps, StillIn
      <4> QED BY <4>1 DEF SameOut, Unmoved, AllGone, Inactive
    <3>2. pc' = pc /\ allDone' = allDone
      BY <2>4 DEF SetSinkGate
    <3> QED BY <3>1, <3>2
  <2>5. CASE WriteTryAgain(k)
    <3>1. ~Inactive(sinks, k) /\ allDone' = allDone
      BY <2>5 DEF WriteTryAgain, Writable
    <3>2. ~AllGone(sinks') /\ ~AllGone(sinks)
      BY <1>5, <2>5, <3>1, StillIn DEF AllGone, Inactive, SameOut
    <3> QED BY <3>1, <3>2
  <2>6. CASE PassOver(k) \/ WriteNotOpen(k) \/ CutHere(k) \/ HoldBack(k) \/ Write(k)
    <3>1. pc' = "deliver" /\ allDone' = allDone
      BY <2>6 DEF PassOver, WriteNotOpen, CutHere, HoldBack, Write, Here, Writable
    <3> QED BY <2>1, <3>1
  <2> QED BY <1>5, <2>2, <2>3, <2>4, <2>5, <2>6 DEF SinkStep, Deliver
<1> QED BY <1>1, <1>2, <1>3, <1>4, <1>5, Steps

\* The announcement is always true outside a round.
LEMMA AnnouncedAlways == Spec => []Announced
<1>1. Init => Announced
  BY DEF Init, Announced
<1>2. Base /\ Announced /\ [Next]_vars => Announced'
  BY AnnouncedStep, TypesSplit DEF Base
<1> QED BY <1>1, <1>2, BaseAlways, PTL DEF Spec

\* Between two rounds, allSinksDone was emitted if and only if no sink is left.
THEOREM ConnectionAllDoneAnnounced == Spec => []AllDoneAnnounced
<1>1. Announced => AllDoneAnnounced
  BY DEF Announced, AllDoneAnnounced, Active, AllGone
<1> QED BY <1>1, AnnouncedAlways, PTL

-----------------------------------------------------------------------------
(* The frame limit.                                                         *)

\* A limited sink that goes on has, from its limit-th frame on, only frames
\* that are no cut points.
Limited ==
    \A k \in Sink :
        /\ sinks[k].count = Len(got[k])
        /\ setup.limit[k] > 0 /\ ~sinks[k].doneByLimit =>
              \A i \in DOMAIN got[k] : i >= setup.limit[k] => got[k][i].n \notin Cuts

\* What any step does to what the sinks got.
LEMMA GotSteps ==
  ASSUME Base, [Next]_vars, NEW j \in Sink
  PROVE  \/ got'[j] = got[j] /\ sinks'[j].count = sinks[j].count
               /\ (~sinks'[j].doneByLimit => ~sinks[j].doneByLimit)
         \/ Write(j)
<1>0. SinkTypes
  BY TypesSplit DEF Base
<1> USE <1>0 DEF history, SinkTypes, SinkState
<1>1. CASE UNCHANGED vars
  BY <1>1 DEF vars
<1>2. CASE RunWake \/ RunPump \/ Gate \/ Fetch \/ Await \/ ConsumeNoFrame \/ ConsumeFrame
           \/ EndRound \/ Stop \/ ResolveRead \/ Produce
  BY <1>2 DEF RunWake, RunPump, Gate, Fetch, Await, ConsumeNoFrame, ConsumeFrame, EndRound, Stop,
              ResolveRead, Produce
<1>3. ASSUME NEW k \in Sink, SinkStep(k)
      PROVE  \/ got'[j] = got[j] /\ sinks'[j].count = sinks[j].count
                   /\ (~sinks'[j].doneByLimit => ~sinks[j].doneByLimit)
             \/ Write(j)
  <2>1. CASE Write(k)
    <3>1. j # k => got'[j] = got[j]
      BY <2>1 DEF Write
    <3> QED BY <1>3, <2>1, <3>1, SinkSteps DEF Unmoved
  <2>2. CASE ~Write(k)
    <3>1. got' = got
      BY <1>3, <2>2 DEF SinkStep, RunWriteError, Deliver, PassOver, CutHere, HoldBack,
            WriteTryAgain, WriteNotOpen, SinkStrand, ExecuteWrite, CompleteWrite, Drain,
            CloseSink, SetSinkGate
    <3> QED BY <1>3, <2>2, <3>1, SinkSteps DEF Unmoved, Kept
  <2> QED BY <2>1, <2>2
<1> QED BY <1>1, <1>2, <1>3, Steps

\* What a write leaves behind at its sink.
LEMMA WriteEffect ==
  ASSUME Base, NEW k \in Sink, Write(k)
  PROVE  /\ Len(got'[k]) = Len(got[k]) + 1 /\ Len(got[k]) \in Nat
         /\ DOMAIN got'[k] = DOMAIN got[k] \cup {Len(got[k]) + 1}
         /\ \A i \in DOMAIN got[k] : got'[k][i] = got[k][i] /\ i \in 1..Len(got[k])
         /\ got'[k][Len(got[k]) + 1].n = cur
         /\ got'[k][Len(got[k]) + 1].key = Stamp(k)
         /\ cur \in Frame /\ cur \in Nat
<1>1. SinkTypes /\ PumpTypes /\ cur \in Frame
  BY TypesSplit DEF Base, Write, Writable, Here, Serial
<1>2. [n |-> cur, key |-> Stamp(k)] \in [n : Frame, key : BOOLEAN]
  BY <1>1 DEF Stamp, SinkTypes, SinkState
<1>3. got'[k] = Append(got[k], [n |-> cur, key |-> Stamp(k)])
  BY <1>1 DEF Write, SinkTypes
<1>4. got[k] \in Seq([n : Frame, key : BOOLEAN])
  BY <1>1 DEF SinkTypes
<1>5. got'[k][Len(got[k]) + 1] = [n |-> cur, key |-> Stamp(k)]
  BY <1>2, <1>3, <1>4, Appended
<1> QED BY <1>1, <1>2, <1>3, <1>4, <1>5, Appended DEF Frame

\* What the connection was set up for does not change.
LEMMA SetupStays ==
  ASSUME [Next]_vars
  PROVE  setup' = setup
<1> USE DEF flags
<1>1. CASE UNCHANGED vars
  BY <1>1 DEF vars
<1>2. CASE RunWake \/ RunPump \/ Gate \/ Fetch \/ Await \/ ConsumeNoFrame \/ ConsumeFrame
           \/ EndRound \/ Stop \/ ResolveRead \/ Produce
  BY <1>2 DEF RunWake, RunPump, Gate, Fetch, Await, ConsumeNoFrame, ConsumeFrame, EndRound, Stop,
              ResolveRead, Produce
<1>3. ASSUME NEW k \in Sink, SinkStep(k)
      PROVE  setup' = setup
  BY <1>3 DEF SinkStep, RunWriteError, Deliver, PassOver, CutHere, HoldBack, Write, WriteTryAgain,
              WriteNotOpen, SinkStrand, ExecuteWrite, CompleteWrite, Drain,
              CloseSink, SetSinkGate
<1> QED BY <1>1, <1>2, <1>3, Steps

\* Every step keeps Limited, of each sink.
LEMMA LimitedStep ==
  ASSUME Base, Limited, [Next]_vars, NEW j \in Sink
  PROVE  /\ sinks'[j].count = Len(got'[j])
         /\ setup'.limit[j] > 0 /\ ~sinks'[j].doneByLimit =>
              \A i \in DOMAIN got'[j] : i >= setup'.limit[j] => got'[j][i].n \notin Cuts
<1>1. setup' = setup /\ setup.limit[j] \in Nat
  BY SetupStays, TypesSplit, ConnectionAssumption DEF Base, PumpTypes
<1>2. CASE got'[j] = got[j] /\ sinks'[j].count = sinks[j].count
               /\ (~sinks'[j].doneByLimit => ~sinks[j].doneByLimit)
  BY <1>1, <1>2 DEF Limited
<1>3. CASE Write(j)
  <2>1. /\ sinks'[j].count = sinks[j].count + 1
        /\ sinks'[j].doneByLimit = AtLimit(sinks[j].count + 1, j)
        /\ ~sinks[j].doneByLimit
    BY <1>3, TypesSplit, WriteFields DEF Base
  <2>2. sinks[j].count = Len(got[j])
    BY DEF Limited
  <2>3. ASSUME setup.limit[j] > 0, ~sinks'[j].doneByLimit, NEW i \in DOMAIN got'[j],
               i >= setup.limit[j]
        PROVE  got'[j][i].n \notin Cuts
    <3>1. CASE i \in DOMAIN got[j]
      BY <1>3, <2>1, <2>3, <3>1, WriteEffect DEF Limited
    <3>2. CASE i = Len(got[j]) + 1
      <4>1. cur \notin Cuts
        BY <2>1, <2>2, <2>3, <3>2 DEF AtLimit
      <4> QED BY <1>3, <3>2, <4>1, WriteEffect
    <3> QED BY <1>3, <2>3, <3>1, <3>2, WriteEffect
  <2> QED BY <1>1, <1>3, <2>1, <2>2, <2>3, WriteEffect
<1> QED BY <1>2, <1>3, GotSteps

\* Every step keeps the cap at a cut.
LEMMA CapStep ==
  ASSUME Base, Limited, CapAtCut, [Next]_vars
  PROVE  CapAtCut'
<1> SUFFICES ASSUME NEW j \in Sink, setup'.limit[j] > 0, NEW i \in DOMAIN got'[j]
             PROVE  /\ i > setup'.limit[j] => got'[j][i].n \notin Cuts
                    /\ i >= setup'.limit[j] /\ got'[j][i].n \in Cuts => i = Len(got'[j])
  BY DEF CapAtCut
<1>1. setup' = setup
  BY SetupStays
<1>2. CASE got'[j] = got[j]
  BY <1>1, <1>2 DEF CapAtCut
<1>3. CASE Write(j)
  <2>1. ~sinks[j].doneByLimit /\ ~AtLimit(sinks[j].count, j) /\ sinks[j].count = Len(got[j])
    BY <1>3 DEF Write, Writable, Inactive, Limited
  <2>2. setup.limit[j] \in Nat
    BY TypesSplit, ConnectionAssumption DEF Base, PumpTypes
  <2>3. CASE i \in DOMAIN got[j]
    BY <1>1, <1>3, <2>1, <2>3, WriteEffect DEF Limited, CapAtCut
  <2>4. CASE i = Len(got[j]) + 1
    <3>1. i > setup.limit[j] => cur \notin Cuts
      BY <1>1, <1>3, <2>1, <2>2, <2>4, WriteEffect DEF AtLimit
    <3> QED BY <1>1, <1>3, <2>4, <3>1, WriteEffect
  <2> QED BY <1>3, <2>3, <2>4, WriteEffect
<1> QED BY <1>2, <1>3, GotSteps

\* mediaioportconnection.h:62: a limited sink ends at the first cut point on or
\* after its limit-th frame, wherever the cut points are.
THEOREM ConnectionCapAtCut == Spec => []CapAtCut
<1>1. Init => Limited /\ CapAtCut
  BY EmptySeq DEF Init, Limited, CapAtCut
<1>2. Base /\ Limited /\ CapAtCut /\ [Next]_vars => Limited' /\ CapAtCut'
  BY LimitedStep, CapStep DEF Limited
<1> QED BY <1>1, <1>2, BaseAlways, PTL DEF Spec
-----------------------------------------------------------------------------
(* Frames.  Only a connection into no converter keeps its promises here.    *)

\* The steps of the pump and of the source, and stuttering.
PumpStep ==
    \/ RunWake \/ RunPump \/ Gate \/ Fetch \/ Await \/ ConsumeNoFrame \/ ConsumeFrame
    \/ EndRound \/ ResolveRead \/ Produce \/ Stop \/ UNCHANGED vars

\* What the pump's and the source's own steps leave alone.
LEMMA PumpKeeps ==
  ASSUME PumpTypes, PumpStep
  PROVE  /\ sinks' = sinks /\ writing' = writing /\ fifo' = fifo
         /\ got' = got /\ skipped' = skipped
         /\ (allDone => allDone')
BY DEF PumpTypes, PumpStep, RunWake, RunPump, Gate, Fetch, Await, ConsumeNoFrame, ConsumeFrame, EndRound,
       ResolveRead, Produce, Stop, MaybeAllDone, vars, flags, strands, history

\* The pump delivers to the sink whose turn it is.
Turn(k) == pc = "deliver" /\ at \in DOMAIN Order /\ Order[at] = k

\* The steps of sink k by what they do to the round.
Kinds(k) ==
    \/ /\ RunWriteError(k) \/ CloseSink(k) \/ SetSinkGate(k) \/ SinkStrand(k)
       /\ pc' = pc /\ at' = at /\ cur' = cur
    \/ /\ PassOver(k) \/ WriteNotOpen(k) \/ CutHere(k) \/ HoldBack(k) \/ Write(k)
       /\ Turn(k) /\ pc' = "deliver" /\ at' = at + 1 /\ cur' = cur
    \/ WriteTryAgain(k) /\ Turn(k) /\ pc' = "idle" /\ at' = at /\ cur' = cur

\* These are all.
LEMMA SinkKinds ==
  ASSUME PumpTypes, NEW k \in Sink, SinkStep(k)
  PROVE  Kinds(k)
<1>1. CASE RunWriteError(k) \/ CloseSink(k) \/ SetSinkGate(k) \/ SinkStrand(k)
  <2>1. pc' = pc /\ at' = at /\ cur' = cur
    BY <1>1 DEF RunWriteError, CloseSink, SetSinkGate, SinkStrand, ExecuteWrite, CompleteWrite, Drain,
         flags, place
  <2> QED BY <1>1, <2>1 DEF Kinds
<1>2. CASE Deliver(k)
  <2>1. Here(k) /\ cur' = cur
    BY <1>2 DEF Deliver, PassOver, CutHere, HoldBack, Write, WriteTryAgain, WriteNotOpen, Writable
  <2>2. Turn(k)
    <3>1. at \in 1..Len(Order) /\ Order \in Seq(Sink)
      BY <2>1, ConnectionAssumption DEF Here, PumpTypes
    <3> QED BY <2>1, <3>1 DEF Here, Turn
  <2>3. \/ (PassOver(k) \/ WriteNotOpen(k) \/ CutHere(k) \/ HoldBack(k) \/ Write(k))
              /\ pc' = pc /\ at' = at + 1
        \/ WriteTryAgain(k) /\ pc' = "idle" /\ at' = at
    BY <1>2 DEF Deliver, PassOver, CutHere, HoldBack, Write, WriteTryAgain, WriteNotOpen
  <2> QED BY <2>1, <2>2, <2>3 DEF Kinds, Turn
<1> QED BY <1>1, <1>2 DEF SinkStep

\* A write and a frame held back end the turn of their sink.
LEMMA WriteTurn ==
  ASSUME PumpTypes, NEW k \in Sink, Write(k) \/ HoldBack(k)
  PROVE  Turn(k) /\ pc' = "deliver" /\ at' = at + 1 /\ cur' = cur
<1>1. Here(k) /\ pc' = pc /\ at' = at + 1 /\ cur' = cur
  BY DEF Write, Writable, HoldBack
<1>2. at \in 1..Len(Order) /\ Order \in Seq(Sink)
  BY <1>1, ConnectionAssumption DEF Here, PumpTypes
<1> QED BY <1>1, <1>2 DEF Here, Turn

\* What a step of sink k does to what the sinks got and were not given.
LEMMA HistorySteps ==
  ASSUME Base, NEW k \in Sink, SinkStep(k), NEW j \in Sink
  PROVE  /\ j # k => got'[j] = got[j] /\ skipped'[j] = skipped[j]
         /\ \/ Write(k) /\ skipped'[k] = skipped[k]
            \/ HoldBack(k) /\ got'[k] = got[k] /\ skipped'[k] = skipped[k] \cup {cur}
                 /\ sinks' = sinks /\ ~sinks[k].gateOpen
            \/ ~Write(k) /\ ~HoldBack(k) /\ got'[k] = got[k] /\ skipped'[k] = skipped[k]
<1>0. SinkTypes
  BY TypesSplit DEF Base
<1>1. CASE Write(k)
  BY <1>0, <1>1 DEF Write, SinkTypes
<1>2. CASE HoldBack(k) /\ ~Write(k)
  BY <1>0, <1>2 DEF HoldBack, SinkTypes
<1>3. CASE ~Write(k) /\ ~HoldBack(k)
  <2>1. got' = got /\ skipped' = skipped
    BY <1>3 DEF SinkStep, RunWriteError, Deliver, PassOver, CutHere,
            WriteTryAgain, WriteNotOpen, SinkStrand, ExecuteWrite, CompleteWrite, Drain,
            CloseSink, SetSinkGate, history
  <2> QED BY <1>3, <2>1
<1> QED BY <1>1, <1>2, <1>3

\* The announcement is not taken back.
LEMMA AllDoneStays ==
  ASSUME NEW k \in Sink, SinkStep(k), allDone
  PROVE  allDone'
BY DEF SinkStep, RunWriteError, Deliver, PassOver, CutHere, HoldBack, Write, MaybeAllDone,
       WriteTryAgain, WriteNotOpen, SinkStrand, ExecuteWrite, CompleteWrite, Drain,
       CloseSink, SetSinkGate, flags

\* Plain sinks have nothing in a converter.
Plain == setup.converters = {} => \A k \in Sink : fifo[k] = 0

\* Every step keeps plain sinks plain.
LEMMA PlainStep ==
  ASSUME Base, Plain, [Next]_vars
  PROVE  Plain'
<1> SUFFICES ASSUME setup.converters = {}, NEW j \in Sink PROVE fifo'[j] = 0
  BY SetupStays DEF Plain
<1>0. SinkTypes /\ PumpTypes /\ fifo[j] = 0
  BY TypesSplit DEF Base, Plain
<1>1. CASE PumpStep
  BY <1>0, <1>1, PumpKeeps
<1>2. ASSUME NEW k \in Sink, SinkStep(k)
      PROVE  fifo'[j] = 0
  <2>1. CASE ExecuteWrite(k)
    BY <1>0, <2>1 DEF ExecuteWrite
  <2>2. CASE Drain(k)
    BY <1>0, <2>2 DEF Drain, Plain
  <2>3. CASE ~ExecuteWrite(k) /\ ~Drain(k)
    BY <1>0, <1>2, <2>3 DEF SinkStep, RunWriteError, Deliver, PassOver, CutHere, HoldBack, Write,
       WriteTryAgain, WriteNotOpen, SinkStrand, CompleteWrite, CloseSink, SetSinkGate, strands
  <2> QED BY <2>1, <2>2, <2>3
<1> QED BY <1>1, <1>2, Steps DEF PumpStep

\* Only its own writes take a plain sink's room away.
LEMMA RoomStays ==
  ASSUME Base, Plain, [Next]_vars, setup.converters = {}, NEW k \in Sink, SinkStep(k),
         NEW j \in Sink, Accepts(j), j # k \/ ~Write(k)
  PROVE  Accepts(j)'
<1>0. SinkTypes /\ fifo[j] = 0 /\ fifo'[j] = 0 /\ Len(writing[j]) \in Nat /\ WriteDepth \in Nat
  <2>1. SinkTypes /\ WriteDepth \in Nat
    BY TypesSplit, ConnectionAssumption DEF Base
  <2>2. Plain' /\ setup' = setup
    BY PlainStep, SetupStays
  <2>3. fifo[j] = 0 /\ fifo'[j] = 0
    BY <2>2 DEF Plain
  <2>4. writing[j] \in Seq(Frame)
    BY <2>1 DEF SinkTypes
  <2>5. Len(writing[j]) \in Nat
    BY <2>4
  <2> QED BY <2>1, <2>3, <2>5
<1>1. Len(writing'[j]) <= Len(writing[j])
  <2>1. CASE CompleteWrite(k)
    <3>1. writing' = [writing EXCEPT ![k] = Tail(writing[k])]
      BY <2>1 DEF CompleteWrite
    <3>2. writing[k] \in Seq(Frame) /\ writing[k] # <<>>
      BY <1>0, <2>1 DEF SinkTypes, Base, Completing, CompleteWrite
    <3>3. Len(Tail(writing[k])) <= Len(writing[k])
      BY <3>2, EmptySeq
    <3> QED BY <1>0, <3>1, <3>3 DEF SinkTypes
  <2>2. CASE Write(k)
    BY <1>0, <2>2 DEF Write, SinkTypes
  <2>3. CASE ~CompleteWrite(k) /\ ~Write(k)
    <3>1. writing' = writing
      BY <2>3 DEF SinkStep, RunWriteError, Deliver, PassOver, CutHere, HoldBack,
       WriteTryAgain, WriteNotOpen, SinkStrand, ExecuteWrite, Drain, CloseSink, SetSinkGate, strands
    <3> QED BY <1>0, <3>1
  <2> QED BY <2>1, <2>2, <2>3
<1>2. Len(writing'[j]) \in Nat
  BY SinkTypesStep, TypesSplit DEF Base, SinkTypes
<1> QED BY <1>0, <1>1, <1>2 DEF Accepts

\* From the gate on, every active sink has room until it is written to.
Room ==
    setup.converters = {} =>
        /\ pc \in {"fetch", "test"} => \A j \in Sink : Inactive(sinks, j) \/ Accepts(j)
        /\ pc = "deliver" =>
              \A i \in DOMAIN Order : i >= at => Inactive(sinks, Order[i]) \/ Accepts(Order[i])

\* Every step keeps the room the gate saw.
LEMMA RoomStep ==
  ASSUME Base, Plain, Room, [Next]_vars
  PROVE  Room'
<1> SUFFICES ASSUME setup.converters = {}
             PROVE  /\ pc' \in {"fetch", "test"} => \A j \in Sink : Inactive(sinks', j) \/ Accepts(j)'
                    /\ pc' = "deliver" => \A i \in DOMAIN Order :
                          i >= at' => Inactive(sinks', Order[i]) \/ Accepts(Order[i])'
  BY SetupStays DEF Room
<1>0. SinkTypes /\ PumpTypes /\ \A i \in DOMAIN Order : Order[i] \in Sink
  BY TypesSplit, ConnectionAssumption DEF Base
<1>1. CASE PumpStep
  <2>1. sinks' = sinks /\ writing' = writing /\ fifo' = fifo
    BY <1>0, <1>1, PumpKeeps
  <2>2. \A j \in Sink : Accepts(j)' <=> Accepts(j)
    BY <2>1 DEF Accepts
  <2>3. CASE Gate
    BY <2>1, <2>2, <2>3 DEF Gate, RoomForAll, Active
  <2>4. CASE ConsumeFrame
    BY <1>0, <2>1, <2>2, <2>4 DEF ConsumeFrame, Room
  <2>5. CASE RunWake \/ RunPump \/ Fetch \/ Await \/ ConsumeNoFrame \/ EndRound
              \/ ResolveRead \/ Produce \/ Stop \/ UNCHANGED vars
    <3>1. CASE RunWake \/ ResolveRead \/ Produce \/ Stop \/ UNCHANGED vars
      <4>1. pc' = pc /\ at' = at
        BY <3>1 DEF RunWake, ResolveRead, Produce, Stop, vars, place
      <4> QED BY <1>0, <2>1, <2>2, <4>1 DEF Room
    <3>2. CASE RunPump \/ Await \/ ConsumeNoFrame \/ EndRound
      BY <3>2 DEF RunPump, Await, ConsumeNoFrame, EndRound
    <3>3. CASE Fetch
      BY <2>1, <2>2, <3>3 DEF Room, Fetch
    <3> QED BY <2>5, <3>1, <3>2, <3>3
  <2> QED BY <1>1, <2>3, <2>4, <2>5 DEF PumpStep
<1>2. ASSUME NEW k \in Sink, SinkStep(k)
      PROVE  /\ pc' \in {"fetch", "test"} => \A j \in Sink : Inactive(sinks', j) \/ Accepts(j)'
             /\ pc' = "deliver" => \A i \in DOMAIN Order :
                   i >= at' => Inactive(sinks', Order[i]) \/ Accepts(Order[i])'
  <2>1. Kinds(k)
    BY <1>0, <1>2, SinkKinds
  <2>2. \A j \in Sink : Inactive(sinks, j) => Inactive(sinks', j)
    BY <1>0, <1>2, StaysOut
  <2>3. \A j \in Sink : Accepts(j) /\ (j # k \/ ~Write(k)) => Accepts(j)'
    BY <1>2, RoomStays
  <2>4. CASE pc' = pc /\ at' = at /\ ~Write(k)
    BY <1>0, <2>2, <2>3, <2>4 DEF Room
  <2>5. CASE Turn(k) /\ pc' = "deliver" /\ at' = at + 1
    <3>1. \A i \in DOMAIN Order : i >= at' => i >= at /\ Order[i] # k
      BY <1>0, <2>5, ConnectionAssumption DEF Turn
    <3> QED BY <1>0, <2>2, <2>3, <2>5, <3>1 DEF Room, Turn
  <2>6. CASE pc' = "idle"
    BY <2>6
  <2>7. CASE Write(k)
    BY <1>0, <2>5, <2>7, WriteTurn
  <2> QED BY <2>1, <2>4, <2>5, <2>6, <2>7 DEF Kinds
<1> QED BY <1>1, <1>2, Steps DEF PumpStep
\* The last frame the sink at place i of the round was offered.
Seen(i) == IF pc = "deliver" /\ i >= at THEN cur - 1 ELSE cur

\* What sink k got, and what its gate held back.
Met(k) == Accepted(k) \cup skipped[k]

\* No sink has a frame from the future, each has its frames in order, and one
\* that is in has missed none.
Behind == \A i \in DOMAIN Order : \A n \in Met(Order[i]) : n <= Seen(i)
Increasing == \A k \in Sink : \A i, j \in DOMAIN got[k] : i < j => got[k][i].n < got[k][j].n
Complete ==
    setup.converters = {} /\ ~allDone =>
        \A i \in DOMAIN Order : ~Inactive(sinks, Order[i]) => 1..Seen(i) \subseteq Met(Order[i])

\* A write adds the frame under way to it.
LEMMA MetWrite ==
  ASSUME Base, NEW k \in Sink, Write(k)
  PROVE  Accepted(k)' = Accepted(k) \cup {cur}
BY WriteEffect DEF Accepted

\* Where a step of the pump or the source leaves Seen.
LEMMA SeenMoves ==
  ASSUME Base, PumpStep, NEW i \in DOMAIN Order
  PROVE  Seen(i) <= Seen(i)' /\ (~allDone => Seen(i)' = Seen(i))
<1>0. /\ cur \in Int /\ at \in Int /\ i \in 1..Len(Order) /\ Len(Order) \in Nat
      /\ (pc = "test" => running) /\ (running /\ read = "frame" => taken = cur + 1)
  BY TypesSplit, ConnectionAssumption DEF Base, PumpTypes, Serial
<1>1. CASE ResolveRead \/ Produce \/ Stop \/ RunWake \/ UNCHANGED vars
  <2>1. pc' = pc /\ at' = at /\ cur' = cur
    BY <1>1 DEF ResolveRead, Produce, Stop, RunWake, place, vars
  <2>2. Seen(i) \in Int /\ Seen(i)' = Seen(i)
    BY <1>0, <2>1 DEF Seen
  <2> QED BY <2>2
<1>2. CASE RunPump \/ Gate \/ Fetch \/ Await \/ ConsumeNoFrame
  <2>1. pc # "deliver" /\ pc' # "deliver" /\ cur' = cur
    BY <1>2 DEF RunPump, Gate, Fetch, Await, ConsumeNoFrame
  <2> QED BY <1>0, <2>1 DEF Seen
<1>3. CASE ConsumeFrame
  <2>1. /\ pc = "test" /\ cur' = cur + 1 /\ at' = 1
        /\ pc' = IF allDone THEN "idle" ELSE "deliver"
    BY <1>0, <1>3 DEF ConsumeFrame
  <2> QED BY <1>0, <2>1 DEF Seen
<1>4. CASE EndRound
  <2>1. pc' = "idle" /\ cur' = cur /\ ~(i >= at)
    BY <1>0, <1>4 DEF EndRound
  <2> QED BY <1>0, <2>1 DEF Seen
<1> QED BY <1>1, <1>2, <1>3, <1>4 DEF PumpStep

\* Where a step of sink k does: the sink whose turn it was has been offered cur.
LEMMA SeenTurns ==
  ASSUME Base, NEW k \in Sink, SinkStep(k), NEW i \in DOMAIN Order
  PROVE  /\ Seen(i) <= Seen(i)'
         /\ Order[i] # k /\ ~WriteTryAgain(k) => Seen(i)' = Seen(i)
         /\ Order[i] = k /\ (Write(k) \/ HoldBack(k)) =>
                Seen(i) = cur - 1 /\ Seen(i)' = cur /\ cur \in Frame
<1>0. /\ cur \in Int /\ at \in Int /\ i \in 1..Len(Order) /\ Len(Order) \in Nat
      /\ PumpTypes /\ (pc = "deliver" => cur \in Frame)
      /\ \A j \in DOMAIN Order : Order[i] = Order[j] => i = j
  <2>1. PumpTypes /\ (pc = "deliver" => cur \in Frame)
    BY TypesSplit DEF Base, Serial
  <2>2. Order \in Seq(Sink) /\ \A j \in DOMAIN Order : Order[i] = Order[j] => i = j
    BY ConnectionAssumption
  <2>3. i \in 1..Len(Order) /\ Len(Order) \in Nat /\ Last \in Nat
    BY <2>2, ConnectionAssumption
  <2> QED BY <2>1, <2>2, <2>3 DEF PumpTypes
<1>1. ASSUME pc' = pc, at' = at, cur' = cur
      PROVE  Seen(i) = Seen(i)' /\ Seen(i) \in Int
  BY <1>0, <1>1 DEF Seen
<1>2. ASSUME Turn(k), pc' = "deliver", at' = at + 1, cur' = cur
      PROVE  /\ Seen(i) <= Seen(i)'
             /\ Order[i] # k => Seen(i)' = Seen(i)
             /\ Order[i] = k => Seen(i) = cur - 1 /\ Seen(i)' = cur /\ cur \in Frame
  <2>1. Order[i] = k <=> i = at
    BY <1>0, <1>2 DEF Turn
  <2> QED BY <1>0, <1>2, <2>1 DEF Seen, Turn
<1>3. ASSUME Turn(k), pc' = "idle", cur' = cur
      PROVE  Seen(i) <= Seen(i)'
  BY <1>0, <1>3 DEF Seen
<1>4. CASE Write(k) \/ HoldBack(k)
  BY <1>0, <1>2, <1>4, WriteTurn
<1>5. CASE ~Write(k) /\ ~HoldBack(k)
  <2>1. Kinds(k)
    BY <1>0, SinkKinds
  <2> QED BY <1>1, <1>2, <1>3, <1>5, <2>1 DEF Kinds
<1> QED BY <1>4, <1>5
\* An element of a sequence.
LEMMA Element ==
  ASSUME NEW S, NEW g \in Seq(S), NEW i \in DOMAIN g
  PROVE  g[i] \in S
OBVIOUS

\* Sinks meet frames only.
LEMMA MetFrames ==
  ASSUME NEW k \in Sink
  PROVE  (SinkTypes => Met(k) \subseteq Frame) /\ (SinkTypes' => Met(k)' \subseteq Frame)
<1>1. ASSUME NEW g \in Seq([n : Frame, key : BOOLEAN]), NEW i \in DOMAIN g
      PROVE  g[i].n \in Frame
  <2>1. g[i] \in [n : Frame, key : BOOLEAN]
    BY Element
  <2> QED BY <2>1
<1>2. ASSUME SinkTypes PROVE Met(k) \subseteq Frame
  <2>1. got[k] \in Seq([n : Frame, key : BOOLEAN]) /\ skipped[k] \subseteq Frame
    BY <1>2 DEF SinkTypes
  <2> QED BY <1>1, <2>1 DEF Met, Accepted
<1>3. ASSUME SinkTypes' PROVE Met(k)' \subseteq Frame
  <2>1. got'[k] \in Seq([n : Frame, key : BOOLEAN]) /\ skipped'[k] \subseteq Frame
    BY <1>3 DEF SinkTypes
  <2> QED BY <1>1, <2>1 DEF Met, Accepted
<1> QED BY <1>2, <1>3

\* No step gives a sink a frame from the future.
LEMMA BehindStep ==
  ASSUME Base, Behind, [Next]_vars
  PROVE  Behind'
<1> SUFFICES ASSUME NEW i \in DOMAIN Order, NEW n \in Met(Order[i])' PROVE n <= Seen(i)'
  BY DEF Behind
<1>0. /\ SinkTypes /\ PumpTypes /\ cur \in Int /\ Order[i] \in Sink /\ SinkTypes'
      /\ PumpTypes' /\ cur' \in Int
  BY TypesSplit, TypesSplitNext, BaseStep, ConnectionAssumption DEF Base, PumpTypes
<1>1. n \in Int /\ Seen(i) \in Int /\ Seen(i)' \in Int
  <2>1. n \in Frame
    BY <1>0, MetFrames
  <2> QED BY <1>0, <2>1 DEF Seen, Frame
<1>2. CASE PumpStep
  <2>1. n \in Met(Order[i])
    BY <1>0, <1>2, PumpKeeps DEF Met, Accepted
  <2> QED BY <1>1, <1>2, <2>1, SeenMoves DEF Behind
<1>3. ASSUME NEW k \in Sink, SinkStep(k)
      PROVE  n <= Seen(i)'
  <2>1. CASE n \in Met(Order[i])
    BY <1>1, <1>3, <2>1, SeenTurns DEF Behind
  <2>2. CASE n \notin Met(Order[i])
    <3>1. Order[i] = k /\ (Write(k) \/ HoldBack(k))
      BY <1>0, <1>3, <2>2, HistorySteps DEF Met, Accepted
    <3>2. Met(k)' \subseteq Met(k) \cup {cur}
      BY <1>3, <3>1, HistorySteps, MetWrite DEF Met, Accepted
    <3>3. n = cur
      BY <2>2, <3>1, <3>2
    <3> QED BY <1>0, <1>1, <1>3, <3>1, <3>3, SeenTurns
  <2> QED BY <2>1, <2>2
<1> QED BY <1>2, <1>3, Steps DEF PumpStep

\* The sink of a place in the round, and a place of a sink.
LEMMA Places == \A k \in Sink : \E i \in DOMAIN Order : Order[i] = k
BY ConnectionAssumption

\* All that a sink was offered before comes before the frame it is offered now.
LEMMA Before ==
  ASSUME Base, Behind, NEW k \in Sink, SinkStep(k), Write(k) \/ HoldBack(k), NEW n \in Met(k)
  PROVE  n < cur /\ n \in Int /\ cur \in Frame /\ cur \in Int
<1>1. PICK i \in DOMAIN Order : Order[i] = k
  BY Places
<1>2. n <= Seen(i) /\ Seen(i) = cur - 1 /\ cur \in Frame
  BY <1>1, SeenTurns DEF Behind
<1>3. n \in Frame /\ cur \in Int
  BY TypesSplit, MetFrames, <1>2 DEF Base, Frame
<1> QED BY <1>2, <1>3 DEF Frame

\* Every step keeps the frames of each sink in order.
LEMMA IncreasingStep ==
  ASSUME Base, Behind, Increasing, [Next]_vars
  PROVE  Increasing'
<1> SUFFICES ASSUME NEW k \in Sink, NEW i \in DOMAIN got'[k], NEW j \in DOMAIN got'[k], i < j
             PROVE  got'[k][i].n < got'[k][j].n
  BY DEF Increasing
<1>1. CASE got'[k] = got[k]
  BY <1>1 DEF Increasing
<1>2. CASE Write(k)
  <2>1. SinkStep(k)
    BY <1>2 DEF SinkStep, Deliver
  <2>2. i \in 1..Len(got[k]) /\ i \in DOMAIN got[k] /\ got'[k][i] = got[k][i]
    BY <1>2, WriteEffect
  <2>3. CASE j \in DOMAIN got[k]
    BY <1>2, <2>2, <2>3, WriteEffect DEF Increasing
  <2>4. CASE j = Len(got[k]) + 1
    <3>1. got[k][i].n \in Met(k)
      BY <2>2 DEF Met, Accepted
    <3> QED BY <1>2, <2>1, <2>2, <2>4, <3>1, Before, WriteEffect
  <2> QED BY <1>2, <2>3, <2>4, WriteEffect
<1> QED BY <1>1, <1>2, GotSteps

\* No step makes a sink that is in miss a frame.
LEMMA CompleteStep ==
  ASSUME Base, Plain, Room, Complete, [Next]_vars
  PROVE  Complete'
<1> SUFFICES ASSUME setup.converters = {}, ~allDone', NEW i \in DOMAIN Order,
                    ~Inactive(sinks', Order[i])
             PROVE  1..Seen(i)' \subseteq Met(Order[i])'
  BY SetupStays DEF Complete
<1>0. /\ SinkTypes /\ PumpTypes /\ cur \in Int /\ Order[i] \in Sink
      /\ Seen(i) \in Int
  BY TypesSplit, ConnectionAssumption DEF Base, PumpTypes, Seen
<1>1. CASE PumpStep
  BY <1>0, <1>1, PumpKeeps, SeenMoves DEF Complete, Met, Accepted
<1>2. ASSUME NEW k \in Sink, SinkStep(k)
      PROVE  1..Seen(i)' \subseteq Met(Order[i])'
  <2>1. ~Inactive(sinks, Order[i]) /\ ~allDone
    BY <1>0, <1>2, StaysOut, AllDoneStays
  <2>2. 1..Seen(i) \subseteq Met(Order[i])
    BY <2>1 DEF Complete
  <2>3. Kinds(k)
    BY <1>0, <1>2, SinkKinds
  <2>4. ~WriteTryAgain(k)
    <3>1. ASSUME WriteTryAgain(k) PROVE FALSE
      <4>1. ~Inactive(sinks, k) /\ ~Accepts(k) /\ pc = "deliver"
        BY <3>1 DEF WriteTryAgain, Writable, Here
      <4>2. at \in DOMAIN Order /\ Order[at] = k
        BY <3>1, <4>1, <1>0, ConnectionAssumption DEF WriteTryAgain, Writable, Here, PumpTypes
      <4> QED BY <1>0, <4>1, <4>2 DEF Room, PumpTypes
    <3> QED BY <3>1
  <2>5. CASE Order[i] # k
    BY <1>0, <1>2, <2>2, <2>4, <2>5, SeenTurns, HistorySteps DEF Met, Accepted
  <2>6. CASE Order[i] = k /\ (Write(k) \/ HoldBack(k))
    <3>1. cur \in Met(k)' /\ Met(k) \subseteq Met(k)'
      BY <1>2, <2>6, HistorySteps, MetWrite DEF Met, Accepted
    <3>2. Seen(i) = cur - 1 /\ Seen(i)' = cur
      BY <1>2, <2>6, SeenTurns
    <3>3. 1..cur \subseteq 1..(cur - 1) \cup {cur}
      BY <1>0
    <3> QED BY <2>2, <2>6, <3>1, <3>2, <3>3
  <2>7. CASE Order[i] = k /\ ~Write(k) /\ ~HoldBack(k)
    <3>1. Met(k)' = Met(k)
      BY <1>2, <2>7, HistorySteps DEF Met, Accepted
    <3>2. ~PassOver(k) /\ ~WriteNotOpen(k) /\ ~CutHere(k)
      <4>1. ASSUME PassOver(k) PROVE FALSE
        BY <2>1, <2>7, <4>1 DEF PassOver
      <4>2. ASSUME WriteNotOpen(k) PROVE FALSE
        BY <1>0, <2>7, <4>2, Stopped DEF WriteNotOpen, SinkTypes, Inactive
      <4>3. ASSUME CutHere(k) PROVE FALSE
        BY <1>0, <2>7, <4>3, Ended DEF CutHere, SinkTypes, Inactive
      <4> QED BY <4>1, <4>2, <4>3
    <3>3. Seen(i)' = Seen(i)
      BY <2>3, <2>4, <2>7, <3>2 DEF Kinds, Seen
    <3> QED BY <2>2, <2>7, <3>1, <3>3
  <2> QED BY <2>5, <2>6, <2>7
<1> QED BY <1>1, <1>2, Steps DEF PumpStep
\* A frame was held back from sink k after the last one it got.
Gapped(k) == \E s \in skipped[k] : \A n \in Accepted(k) : n < s

\* A sink with a gap and an open gate has a keyframe request waiting.
Stamped ==
    setup.converters = {} => \A k \in Sink :
        ~Inactive(sinks, k) /\ Gapped(k) /\ sinks[k].gateOpen => sinks[k].force

\* Every step keeps the keyframe requests that are needed.
LEMMA StampedStep ==
  ASSUME Base, Plain, Room, Behind, Stamped, [Next]_vars
  PROVE  Stamped'
<1> SUFFICES ASSUME setup.converters = {}, NEW j \in Sink, ~Inactive(sinks', j), Gapped(j)',
                    sinks'[j].gateOpen
             PROVE  sinks'[j].force
  BY SetupStays DEF Stamped
<1>0. SinkTypes /\ PumpTypes /\ sinks \in [Sink -> SinkState]
  BY TypesSplit DEF Base, SinkTypes
<1>1. CASE sinks'[j] = sinks[j] /\ got'[j] = got[j] /\ skipped'[j] = skipped[j]
  BY <1>1 DEF Stamped, Gapped, Accepted, Inactive
<1>2. CASE PumpStep
  BY <1>0, <1>1, <1>2, PumpKeeps
<1>3. ASSUME NEW k \in Sink, SinkStep(k)
      PROVE  sinks'[j].force
  <2>1. CASE j # k
    BY <1>0, <1>1, <1>3, <2>1, HistorySteps, SinkSteps DEF Unmoved
  <2>2. CASE j = k /\ HoldBack(k)
    <3>1. sinks' = sinks /\ ~sinks[k].gateOpen
      BY <2>2 DEF HoldBack
    <3> QED BY <2>2, <3>1
  <2>3. CASE j = k /\ Write(k)
    <3>1. Accepted(k)' = Accepted(k) \cup {cur} /\ skipped'[k] = skipped[k]
      BY <1>0, <2>3, MetWrite DEF Write
    <3>2. PICK s \in skipped[k] : cur < s
      BY <2>3, <3>1 DEF Gapped
    <3>3. s < cur /\ s \in Int /\ cur \in Int
      BY <1>3, <2>3, Before DEF Met
    <3> QED BY <3>2, <3>3
  <2>4. CASE j = k /\ ~Write(k) /\ ~HoldBack(k)
    <3>1. CASE sinks' = sinks
      BY <1>1, <1>3, <2>4, <3>1, HistorySteps
    <3>2. CASE RunWriteError(k) \/ WriteNotOpen(k) \/ CutHere(k)
      <4>1. \/ UNCHANGED sinks
            \/ sinks' = [sinks EXCEPT ![k].stopped = TRUE]
            \/ sinks' = [sinks EXCEPT ![k].stopped = TRUE, ![k].force = FALSE]
            \/ sinks' = [sinks EXCEPT ![k].doneByLimit = TRUE]
        BY <3>2 DEF RunWriteError, WriteNotOpen, CutHere
      <4> QED BY <1>0, <2>4, <3>1, <4>1, Stopped, Ended DEF Inactive
    <3>3. CASE SetSinkGate(k)
      <4>1. \/ sinks' = [sinks EXCEPT ![k].gateOpen = FALSE]
            \/ sinks' = [sinks EXCEPT ![k].gateOpen = TRUE, ![k].force = TRUE]
        BY <3>3 DEF SetSinkGate
      <4> QED BY <1>0, <2>4, <4>1, Gated
    <3>4. CASE WriteTryAgain(k)
      <4>1. ~Inactive(sinks, k) /\ ~Accepts(k) /\ pc = "deliver"
        BY <3>4 DEF WriteTryAgain, Writable, Here
      <4>2. at \in DOMAIN Order /\ Order[at] = k
        BY <3>4, <4>1, <1>0, ConnectionAssumption DEF WriteTryAgain, Writable, Here, PumpTypes
      <4> QED BY <1>0, <4>1, <4>2 DEF Room, PumpTypes
    <3> QED BY <1>3, <2>4, <3>1, <3>2, <3>3, <3>4
            DEF SinkStep, Deliver, PassOver, SinkStrand, ExecuteWrite, CompleteWrite, Drain, CloseSink
  <2> QED BY <2>1, <2>2, <2>3, <2>4
<1> QED BY <1>2, <1>3, Steps DEF PumpStep

\* Every frame after a gap is stamped when it is written.
LEMMA KeyStep ==
  ASSUME Base, Behind, Stamped, KeyframeAfterGap, [Next]_vars
  PROVE  KeyframeAfterGap'
<1> SUFFICES ASSUME setup.converters = {}, NEW k \in Sink, NEW i \in DOMAIN got'[k],
                    NEW s \in skipped'[k], s < got'[k][i].n,
                    \A j \in 1..(i - 1) : got'[k][j].n < s
             PROVE  got'[k][i].key
  BY SetupStays DEF KeyframeAfterGap
<1>0. SinkTypes /\ PumpTypes
  BY TypesSplit DEF Base
<1>1. CASE got'[k] = got[k] /\ s \in skipped[k]
  BY <1>1 DEF KeyframeAfterGap
<1>2. CASE PumpStep
  BY <1>0, <1>1, <1>2, PumpKeeps
<1>3. CASE Write(k)
  <2>1. SinkStep(k) /\ skipped'[k] = skipped[k] /\ Stamp(k) = sinks[k].force
    BY <1>0, <1>3 DEF SinkStep, Deliver, Write, Stamp
  <2>2. CASE i \in DOMAIN got[k]
    <3>1. \A j \in 1..(i - 1) : j \in DOMAIN got[k]
      <4>1. DOMAIN got[k] = 1..Len(got[k]) /\ Len(got[k]) \in Nat
        BY <1>0 DEF SinkTypes
      <4> QED BY <2>2, <4>1
    <3> QED BY <1>3, <2>1, <2>2, <3>1, WriteEffect DEF KeyframeAfterGap
  <2>3. CASE i = Len(got[k]) + 1
    <3>1. \A j \in DOMAIN got[k] : j \in 1..(i - 1) /\ got'[k][j] = got[k][j]
      BY <1>3, <2>3, WriteEffect
    <3>2. Gapped(k)
      BY <2>1, <3>1 DEF Gapped, Accepted
    <3>3. ~Inactive(sinks, k) /\ sinks[k].gateOpen
      BY <1>3 DEF Write, Writable
    <3> QED BY <1>3, <2>1, <2>3, <3>2, <3>3, WriteEffect DEF Stamped
  <2> QED BY <1>3, <2>2, <2>3, WriteEffect
<1>4. ASSUME NEW j \in Sink, SinkStep(j), ~Write(k), ~(got'[k] = got[k] /\ s \in skipped[k])
      PROVE  FALSE
  <2>1. j = k /\ HoldBack(k) /\ s = cur /\ got'[k] = got[k]
    BY <1>4, HistorySteps
  <2>2. got[k][i].n \in Met(k)
    BY <2>1 DEF Met, Accepted
  <2>3. got[k][i].n < cur /\ got[k][i].n \in Int /\ cur \in Int
    BY <1>4, <2>1, <2>2, Before
  <2> QED BY <2>1, <2>3
<1> QED BY <1>1, <1>2, <1>3, <1>4, Steps DEF PumpStep

\* The inductive invariant about frames.
Frames == Plain /\ Room /\ Behind /\ Increasing /\ Complete /\ Stamped /\ KeyframeAfterGap

\* A started connection satisfies it.
LEMMA FramesInit == Init => Frames
<1> SUFFICES ASSUME Init PROVE Frames
  OBVIOUS
<1>0. /\ \A k \in Sink : got[k] = <<>> /\ skipped[k] = {} /\ fifo[k] = 0
      /\ pc = "gate" /\ cur = 0 /\ DOMAIN <<>> = {}
  BY EmptySeq DEF Init
<1>1. \A i \in DOMAIN Order : Order[i] \in Sink /\ Seen(i) = 0 /\ Met(Order[i]) = {}
  BY <1>0, ConnectionAssumption DEF Seen, Met, Accepted
<1>2. Plain /\ Room
  BY <1>0 DEF Plain, Room
<1>3. Behind /\ Complete
  BY <1>1 DEF Behind, Complete
<1>4. Increasing /\ Stamped /\ KeyframeAfterGap
  BY <1>0 DEF Increasing, Stamped, Gapped, KeyframeAfterGap
<1> QED BY <1>2, <1>3, <1>4 DEF Frames

\* It holds.
LEMMA FramesAlways == Spec => []Frames
<1>1. Base /\ Frames /\ [Next]_vars => Frames'
  BY PlainStep, RoomStep, BehindStep, IncreasingStep, CompleteStep, StampedStep, KeyStep DEF Frames
<1> QED BY <1>1, FramesInit, BaseAlways, PTL DEF Spec

\* Between two rounds, each frame read went to every sink that is in and was
\* not gated, once and in order, when no sink feeds a converter.
THEOREM ConnectionNoFrameLost == Spec => []NoFrameLost
<1>1. ASSUME Base, Frames, Serial, setup.converters = {} PROVE EveryFrameWritten
  <2> SUFFICES ASSUME NEW k \in Sink, pc = "idle", ~Inactive(sinks, k), ~allDone
               PROVE  1..cur \subseteq Accepted(k) \cup skipped[k]
    BY <1>1 DEF EveryFrameWritten, Frames, Increasing
  <2>1. PICK i \in DOMAIN Order : Order[i] = k
    BY Places
  <2>2. Seen(i) = cur
    BY DEF Seen
  <2> QED BY <1>1, <2>1, <2>2 DEF Frames, Complete, Met
<1>2. Base /\ Frames => NoFrameLost
  BY <1>1 DEF NoFrameLost, Base
<1> QED BY <1>2, BaseAlways, FramesAlways, PTL

\* mediaioportconnection.h:256: the first frame after a gate held some back asks
\* for a keyframe.
THEOREM ConnectionKeyframeAfterGap == Spec => []KeyframeAfterGap
<1>1. Frames => KeyframeAfterGap
  BY DEF Frames
<1> QED BY <1>1, FramesAlways, PTL
=============================================================================
