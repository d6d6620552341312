----------------------- MODULE MediaIOPortConnection -----------------------
(***************************************************************************)
(* A MediaIOPortConnection (src/proav/mediaioportconnection.cpp): the pump  *)
(* that moves frames from one source to several sinks.                      *)
(*                                                                         *)
(* The pump runs on the connection's EventLoop.  Everything else reaches it *)
(* as a callable on that loop: the frameReady, frameWanted and writeError   *)
(* slots are marshalled there, and so is the continuation of a read.  Reads *)
(* and writes complete on the strands of the MediaIOs meanwhile, between    *)
(* any two steps of the pump.                                               *)
(*                                                                         *)
(* The source is what MediaIOSource.tla shows of one with the default       *)
(* prefetch depth of 1: a request in flight, then its result (a read         *)
(* prefetched behind one that is already done adds no step: the pump only   *)
(* sees it when it asks for the next).  A leaf source blocks until it has a *)
(* frame; a transform (CSC, encoder, ...) answers TryAgain when its output  *)
(* FIFO is empty and fires frameReady for every write it takes.  A sink     *)
(* that is a transform's input counts the frames in that FIFO in            *)
(* pendingInternalWrites().                                                 *)
(***************************************************************************)
EXTENDS Naturals, Sequences, FiniteSets

CONSTANTS Sink,       \* the sinks of the connection
          Order,      \* the same in the order they were added
          Last,       \* frames the source has: 1..Last
          Cuts,       \* those that are safe cut points
          WriteDepth, \* _writeDepth of every sink
          Setups,     \* kinds of source and sinks to consider
          MaxFlips,   \* bound: gate changes
          MaxFails    \* bound: reads and writes that fail

\* No sink is added twice (addSink() does not look).
ASSUME ConnectionAssumption ==
    /\ Sink \cap {"wake", "pump"} = {}
    /\ Order \in Seq(Sink)
    /\ \A k \in Sink : \E i \in DOMAIN Order : Order[i] = k
    /\ \A i, j \in DOMAIN Order : Order[i] = Order[j] => i = j
    /\ Last \in Nat /\ Cuts \subseteq 1..Last
    /\ WriteDepth \in Nat \ {0}
    /\ Setups \subseteq [transform : BOOLEAN, converters : SUBSET Sink, limit : [Sink -> Nat]]
    /\ MaxFlips \in Nat /\ MaxFails \in Nat

VARIABLES
    setup,        \* a transform source? which sinks feed converters? frame limits (0: none)
    running,      \* _running
    upstreamDone, \* _upstreamDone: upstreamDone was emitted
    allDone,      \* _allSinksDoneEmitted
    scheduled,    \* _pumpScheduled
    loop,         \* the callables posted to the EventLoop
    pc,           \* where the pump is
    cur, at,      \* the frame it delivers, and the index of the next sink
    read,         \* _pendingRead: "none", "flight", or its result; if "frame", taken
    attached,     \* whether a continuation waits for that read
    taken,        \* frames the source has handed out
    avail,        \* frames it could have handed out by now
    sinks,        \* the SinkState of each sink
    writing,      \* the writes pending on each sink, next one first
    executed,     \* outcome of the one its strand is completing
    fifo,         \* frames a converter holds: pendingInternalWrites()
    sinkOpen,     \* whether the sink's MediaIO is open
    flips, fails, \* bounds
    got,          \* history: frames each sink accepted, and whether stamped
    skipped       \* history: frames each sink's closed gate held back

flags == <<setup, running, upstreamDone, allDone>>
posted == <<scheduled, loop>>
place == <<pc, cur, at>>
source == <<read, attached, taken, avail>>
strands == <<writing, executed, fifo, sinkOpen>>
bounds == <<flips, fails>>
history == <<got, skipped>>
vars == <<flags, posted, place, source, sinks, strands, bounds, history>>

Frame == 1..Last
Failure == {"end", "empty", "error"}

SinkState == [stopped : BOOLEAN, doneByLimit : BOOLEAN, gateOpen : BOOLEAN,
              force : BOOLEAN, count : Nat]

\* start(): the first pump is called at once.
Init ==
    /\ setup \in Setups
    /\ running = TRUE /\ upstreamDone = FALSE /\ allDone = FALSE
    /\ scheduled = FALSE /\ loop = <<>>
    /\ pc = "gate" /\ cur = 0 /\ at = 1
    /\ read = "none" /\ attached = FALSE /\ taken = 0
    /\ avail = IF setup.transform THEN 0 ELSE Last
    /\ sinks = [k \in Sink |-> [stopped |-> FALSE, doneByLimit |-> FALSE, gateOpen |-> TRUE,
                                force |-> FALSE, count |-> 0]]
    /\ writing = [k \in Sink |-> <<>>]
    /\ executed = [k \in Sink |-> "no"]
    /\ fifo = [k \in Sink |-> 0]
    /\ sinkOpen = [k \in Sink |-> TRUE]
    /\ flips = 0 /\ fails = 0
    /\ got = [k \in Sink |-> <<>>]
    /\ skipped = [k \in Sink |-> {}]

-----------------------------------------------------------------------------
(* The event loop.                                                          *)

\* Mutant: whatever is on the loop will do.
WakeOnEmptyLoop(l) == IF l # <<>> THEN l ELSE Append(l, "wake")

\* A wake-up behind another one changes nothing: the first posts the pump.
Wake(l) == IF l # <<>> /\ l[Len(l)] = "wake" THEN l ELSE Append(l, "wake")

\* schedulePump(), on the loop's thread: one pump callable at a time.
SchedulePump(l) ==
    /\ scheduled' = TRUE
    /\ loop' = IF scheduled THEN l ELSE Append(l, "pump")

\* A slot of frameReady or frameWanted, or the continuation of a read.
RunWake ==
    /\ pc = "idle" /\ loop # <<>> /\ Head(loop) = "wake"
    /\ SchedulePump(Tail(loop))
    /\ UNCHANGED <<flags, place, source, sinks, strands, bounds, history>>

Inactive(s, k) == s[k].stopped \/ s[k].doneByLimit
Active == {k \in Sink : ~Inactive(sinks, k)}

\* maybeEmitAllSinksDone().
MaybeAllDone(s) == allDone \/ \A k \in Sink : Inactive(s, k)

\* onSinkWriteError(), the slot of a sink's writeError.
RunWriteError(k) ==
    /\ pc = "idle" /\ loop # <<>> /\ Head(loop) = k
    /\ loop' = Tail(loop)
    /\ IF running
       THEN /\ sinks' = [sinks EXCEPT ![k].stopped = TRUE]
            /\ allDone' = MaybeAllDone(sinks')
       ELSE UNCHANGED <<allDone, sinks>>
    /\ UNCHANGED <<setup, running, upstreamDone, scheduled, place, source, strands, bounds,
                   history>>

\* pump() is entered.
RunPump ==
    /\ pc = "idle" /\ loop # <<>> /\ Head(loop) = "pump"
    /\ loop' = Tail(loop)
    /\ scheduled' = FALSE
    /\ pc' = IF running /\ ~upstreamDone THEN "gate" ELSE "idle"
    /\ UNCHANGED <<flags, cur, at, source, sinks, strands, bounds, history>>

-----------------------------------------------------------------------------
(* The pump.                                                                *)

\* Mutant: what waits in the converter is not counted.
AcceptsBlindly(k) == Len(writing[k]) < WriteDepth

\* MediaIOSink::writesAccepted() > 0.
Accepts(k) == Len(writing[k]) + fifo[k] < WriteDepth

\* Mutant: one sink with room is enough.
RoomForOne == Active = {} \/ \E k \in Active : Accepts(k)

\* Back-pressure: the slowest active sink holds up the whole connection.
RoomForAll == \A k \in Active : Accepts(k)

Gate ==
    /\ pc = "gate"
    /\ allDone' = MaybeAllDone(sinks)
    /\ pc' = IF RoomForAll THEN "fetch" ELSE "idle"
    /\ UNCHANGED <<setup, running, upstreamDone, posted, cur, at, source, sinks, strands,
                   bounds, history>>

\* The held request is used before another one is made.
Fetch ==
    /\ pc = "fetch"
    /\ pc' = "test"
    /\ read' = IF read = "none" THEN "flight" ELSE read
    /\ UNCHANGED <<flags, posted, cur, at, attached, taken, avail, sinks, strands, bounds,
                   history>>

\* Not resolved yet: then() will wake the pump.
Await ==
    /\ pc = "test" /\ read = "flight"
    /\ attached' = TRUE
    /\ pc' = "idle"
    /\ UNCHANGED <<flags, posted, cur, at, read, taken, avail, sinks, strands, bounds,
                   history>>

\* End of stream (or NotOpen, Cancelled), nothing yet (TryAgain), an error.
ConsumeNoFrame ==
    /\ pc = "test" /\ read \in Failure
    /\ read' = "none" /\ attached' = FALSE
    /\ upstreamDone' = (upstreamDone \/ read = "end")
    /\ running' = (running /\ read # "error")
    /\ pc' = "idle"
    /\ UNCHANGED <<setup, allDone, posted, cur, at, taken, avail, sinks, strands, bounds,
                   history>>

\* A frame; with no sink left it is dropped and nothing follows.
ConsumeFrame ==
    /\ pc = "test" /\ read = "frame"
    /\ read' = "none" /\ attached' = FALSE
    /\ cur' = taken
    /\ at' = 1
    /\ pc' = IF allDone THEN "idle" ELSE "deliver"
    /\ UNCHANGED <<flags, posted, taken, avail, sinks, strands, bounds, history>>

Here(k) == pc = "deliver" /\ at <= Len(Order) /\ Order[at] = k

\* Mutant: the limit is compared off by one.
AtLimitLate(n, k) == setup.limit[k] > 0 /\ n > setup.limit[k] /\ cur \in Cuts

\* The frame limit is reached, at a safe cut point.
AtLimit(n, k) == setup.limit[k] > 0 /\ n >= setup.limit[k] /\ cur \in Cuts

\* A stopped sink is passed over.
PassOver(k) ==
    /\ Here(k) /\ Inactive(sinks, k)
    /\ at' = at + 1
    /\ UNCHANGED <<flags, posted, pc, cur, source, sinks, strands, bounds, history>>

Writable(k) == Here(k) /\ ~Inactive(sinks, k) /\ ~AtLimit(sinks[k].count, k) /\ sinks[k].gateOpen

\* The limit was passed at a frame that is no cut point: this one is, and is cut.
CutHere(k) ==
    /\ Here(k) /\ ~Inactive(sinks, k) /\ AtLimit(sinks[k].count, k)
    /\ sinks' = [sinks EXCEPT ![k].doneByLimit = TRUE]
    /\ at' = at + 1
    /\ UNCHANGED <<flags, posted, pc, cur, source, strands, bounds, history>>

\* A closed gate: the frame is not for this sink.
HoldBack(k) ==
    /\ Here(k) /\ ~Inactive(sinks, k) /\ ~AtLimit(sinks[k].count, k) /\ ~sinks[k].gateOpen
    /\ skipped' = [skipped EXCEPT ![k] = @ \cup {cur}]
    /\ at' = at + 1
    /\ UNCHANGED <<flags, posted, pc, cur, source, sinks, strands, bounds, got>>

\* Mutant: the keyframe request is cleared without a stamp.
NoStamp(k) == FALSE

\* Whether the frame is stamped with a keyframe request.
Stamp(k) == sinks[k].force

\* MediaIOSink::writeFrame() takes it.  The first frame after a gate reopened
\* is stamped; the limit-th one at a cut point is the sink's last.
Write(k) ==
    /\ Writable(k) /\ sinkOpen[k] /\ Accepts(k)
    /\ writing' = [writing EXCEPT ![k] = Append(@, cur)]
    /\ got' = [got EXCEPT ![k] = Append(@, [n |-> cur, key |-> Stamp(k)])]
    /\ LET n == sinks[k].count + 1
       IN sinks' = [sinks EXCEPT ![k].force = FALSE, ![k].count = n,
                                 ![k].doneByLimit = AtLimit(n, k)]
    /\ at' = at + 1
    /\ UNCHANGED <<flags, posted, pc, cur, source, executed, fifo, sinkOpen, bounds,
                   skipped>>

\* TryAgain: the capacity went since the gate looked.  The pump gives up this
\* frame, for this sink and for those after it, and the stamp with it.
WriteTryAgain(k) ==
    /\ Writable(k) /\ sinkOpen[k] /\ ~Accepts(k)
    /\ sinks' = [sinks EXCEPT ![k].force = FALSE]
    /\ pc' = "idle"
    /\ UNCHANGED <<flags, posted, cur, at, source, strands, bounds, history>>

\* NotOpen: the sink is out, the others go on.
WriteNotOpen(k) ==
    /\ Writable(k) /\ ~sinkOpen[k]
    /\ sinks' = [sinks EXCEPT ![k].stopped = TRUE, ![k].force = FALSE]
    /\ at' = at + 1
    /\ UNCHANGED <<flags, posted, pc, cur, source, strands, bounds, history>>

\* The end of the round.
EndRound ==
    /\ pc = "deliver" /\ at > Len(Order)
    /\ allDone' = MaybeAllDone(sinks)
    /\ pc' = "idle"
    /\ UNCHANGED <<setup, running, upstreamDone, posted, cur, at, source, sinks, strands,
                   bounds, history>>

-----------------------------------------------------------------------------
(* Calls from the loop's thread: by its owner, or by the frame inspector,   *)
(* which runs between the read and the first sink.                          *)

SetSinkGate(k) ==
    /\ pc = "idle" \/ (pc = "deliver" /\ at = 1)
    /\ flips < MaxFlips
    /\ flips' = flips + 1
    /\ IF sinks[k].gateOpen
       THEN /\ sinks' = [sinks EXCEPT ![k].gateOpen = FALSE]
            /\ UNCHANGED <<posted>>
       ELSE /\ sinks' = [sinks EXCEPT ![k].gateOpen = TRUE, ![k].force = TRUE]
            /\ SchedulePump(loop)
    /\ UNCHANGED <<flags, place, source, strands, fails, history>>

\* stop(): the held request is let go.
Stop ==
    /\ pc = "idle" /\ running
    /\ running' = FALSE
    /\ read' = "none" /\ attached' = FALSE
    /\ UNCHANGED <<setup, upstreamDone, allDone, posted, place, taken, avail, sinks,
                   strands, bounds, history>>

-----------------------------------------------------------------------------
(* The strands of the source's and of the sinks' MediaIOs.                  *)

\* What the source's backend answers to a read.
ReadResult ==
    IF taken < avail THEN "frame"
    ELSE IF setup.transform THEN "empty" ELSE "end"

\* The read resolves, and its continuation is posted to the loop.
ResolveRead ==
    /\ read = "flight"
    /\ \/ /\ read' = ReadResult
          /\ taken' = IF taken < avail THEN taken + 1 ELSE taken
          /\ UNCHANGED fails
       \/ /\ fails < MaxFails
          /\ fails' = fails + 1
          /\ read' = "error"
          /\ UNCHANGED taken
    /\ loop' = IF attached THEN Wake(loop) ELSE loop
    /\ attached' = FALSE
    /\ UNCHANGED <<flags, scheduled, place, avail, sinks, strands, flips, history>>

\* A transform takes a write upstream and fires frameReady, if it has room.
Produce ==
    /\ setup.transform
    /\ avail < Last /\ avail - taken < WriteDepth
    /\ avail' = avail + 1
    /\ loop' = IF running THEN Wake(loop) ELSE loop
    /\ UNCHANGED <<flags, scheduled, place, read, attached, taken, sinks, strands, bounds,
                   history>>

\* The backend of a sink executes a write; a converter queues its output.
ExecuteWrite(k) ==
    /\ executed[k] = "no" /\ writing[k] # <<>>
    /\ \/ /\ executed' = [executed EXCEPT ![k] = "ok"]
          /\ fifo' = IF k \in setup.converters THEN [fifo EXCEPT ![k] = @ + 1] ELSE fifo
          /\ UNCHANGED fails
       \/ /\ fails < MaxFails
          /\ fails' = fails + 1
          /\ executed' = [executed EXCEPT ![k] = "failed"]
          /\ UNCHANGED fifo
    /\ UNCHANGED <<flags, posted, place, source, sinks, writing, sinkOpen, flips, history>>

\* completeCommand(Write): off the pending count, then frameWanted or writeError.
CompleteWrite(k) ==
    /\ executed[k] # "no"
    /\ executed' = [executed EXCEPT ![k] = "no"]
    /\ writing' = [writing EXCEPT ![k] = Tail(@)]
    /\ loop' = CASE ~running                          -> loop
                 [] running /\ executed[k] = "ok"     -> Wake(loop)
                 [] running /\ executed[k] = "failed" -> Append(loop, k)
    /\ UNCHANGED <<flags, scheduled, place, source, sinks, fifo, sinkOpen, bounds, history>>

\* Something downstream reads a frame out of the converter: frameWanted.
Drain(k) ==
    /\ executed[k] = "no" /\ fifo[k] > 0
    /\ fifo' = [fifo EXCEPT ![k] = @ - 1]
    /\ loop' = IF running THEN Wake(loop) ELSE loop
    /\ UNCHANGED <<flags, scheduled, place, source, sinks, writing, executed, sinkOpen,
                   bounds, history>>

\* A sink's MediaIO is closed by somebody else.
CloseSink(k) ==
    /\ sinkOpen[k] /\ fails < MaxFails
    /\ sinkOpen' = [sinkOpen EXCEPT ![k] = FALSE]
    /\ fails' = fails + 1
    /\ UNCHANGED <<flags, posted, place, source, sinks, writing, executed, fifo, flips,
                   history>>

-----------------------------------------------------------------------------
Deliver(k) ==
    PassOver(k) \/ CutHere(k) \/ HoldBack(k) \/ Write(k) \/ WriteTryAgain(k) \/ WriteNotOpen(k)

Loop ==
    \/ RunWake \/ RunPump \/ \E k \in Sink : RunWriteError(k)
    \/ Gate \/ Fetch \/ Await \/ ConsumeNoFrame \/ ConsumeFrame \/ EndRound
    \/ \E k \in Sink : Deliver(k)

SinkStrand(k) == ExecuteWrite(k) \/ CompleteWrite(k) \/ Drain(k)

Next ==
    \/ Loop
    \/ ResolveRead \/ Produce
    \/ Stop
    \/ \E k \in Sink : SinkStrand(k) \/ CloseSink(k) \/ SetSinkGate(k)

\* The loop runs what is posted to it, backends answer, and whatever reads a
\* converter's output keeps reading it.
Fairness ==
    /\ WF_vars(Loop)
    /\ WF_vars(ResolveRead)
    /\ WF_vars(Produce)
    /\ \A k \in Sink : WF_vars(SinkStrand(k))

Spec == Init /\ [][Next]_vars /\ Fairness

-----------------------------------------------------------------------------
(* Properties.                                                              *)

TypeOK ==
    /\ setup \in Setups
    /\ running \in BOOLEAN /\ upstreamDone \in BOOLEAN /\ allDone \in BOOLEAN
    /\ scheduled \in BOOLEAN /\ loop \in Seq({"wake", "pump"} \cup Sink)
    /\ pc \in {"idle", "gate", "fetch", "test", "deliver"}
    /\ cur \in 0..Last /\ at \in 1..(Len(Order) + 1)
    /\ read \in {"none", "flight", "frame"} \cup Failure /\ attached \in BOOLEAN
    /\ taken \in 0..Last /\ avail \in 0..Last
    /\ sinks \in [Sink -> SinkState]
    /\ writing \in [Sink -> Seq(Frame)]
    /\ executed \in [Sink -> {"no", "ok", "failed"}]
    /\ fifo \in [Sink -> Nat] /\ sinkOpen \in [Sink -> BOOLEAN]
    /\ flips \in 0..MaxFlips /\ fails \in 0..MaxFails
    /\ got \in [Sink -> Seq([n : Frame, key : BOOLEAN])]
    /\ skipped \in [Sink -> SUBSET Frame]

Accepted(k) == {got[k][i].n : i \in DOMAIN got[k]}

\* mediaioportconnection.h:441: the coalescing flag stands for exactly one
\* pump callable on the loop: no wake-up is lost to it, none is doubled.
OnePumpScheduled ==
    Cardinality({i \in DOMAIN loop : loop[i] = "pump"}) = IF scheduled THEN 1 ELSE 0

\* A sink never holds more frames than its write depth, those in a converter
\* behind it included.
SinkBounded ==
    \A k \in Sink :
        Len(writing[k]) + fifo[k] <=
            WriteDepth + IF executed[k] = "ok" /\ k \in setup.converters THEN 1 ELSE 0

\* Between two rounds, each frame read went to every sink that was active and
\* not gated, once and in order.
EveryFrameWritten ==
    \A k \in Sink :
        /\ \A i, j \in DOMAIN got[k] : i < j => got[k][i].n < got[k][j].n
        /\ pc = "idle" /\ ~Inactive(sinks, k) /\ ~allDone =>
               1..cur \subseteq Accepted(k) \cup skipped[k]

\* That holds when no sink feeds a converter.
NoFrameLost == setup.converters = {} => EveryFrameWritten

\* mediaioportconnection.h:62: a limited sink ends at the first cut point on or
\* after its limit-th frame, so that the group of pictures is complete.
CapAtCut ==
    \A k \in Sink :
        setup.limit[k] > 0 =>
            \A i \in DOMAIN got[k] :
                /\ i > setup.limit[k] => got[k][i].n \notin Cuts
                /\ i >= setup.limit[k] /\ got[k][i].n \in Cuts => i = Len(got[k])

\* mediaioportconnection.h:256: after a gate held frames back, the next frame
\* the sink gets asks for a keyframe.
KeyframeAfterGap ==
    setup.converters = {} =>
        \A k \in Sink : \A i \in DOMAIN got[k] :
            \A s \in skipped[k] :
                /\ s < got[k][i].n
                /\ \A j \in 1..(i - 1) : got[k][j].n < s
                => got[k][i].key

\* Between two rounds, allSinksDone was emitted if and only if no sink is left.
AllDoneAnnounced == pc = "idle" => (allDone <=> Active = {})

AllGated == \A k \in Active : ~sinks[k].gateOpen

\* A leaf source is read to its end: whatever order the loop runs things in,
\* some signal always brings the pump back, as long as a sink takes frames.
LeafDrains ==
    ~setup.transform /\ running ~> upstreamDone \/ ~running \/ allDone \/ AllGated
=============================================================================
