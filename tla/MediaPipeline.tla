---------------------------- MODULE MediaPipeline ----------------------------
(***************************************************************************)
(* A MediaPipeline (src/proav/mediapipeline.cpp): stages joined by routes,  *)
(* and the close that cascades through them.                                *)
(*                                                                         *)
(* The handlers of the pipeline and of its connections run on one EventLoop *)
(* and are one step each; what they call directly (a same-thread signal, a  *)
(* nested initiateClose()) is part of the step.  The strand of each stage   *)
(* runs beside them.  What a strand reports is a callable on the loop.      *)
(*                                                                         *)
(* A connection is what MediaIOPortConnection.tla shows of one: a pump that *)
(* reads a frame when every sink that still takes part has room.  A source  *)
(* makes `Frames' frames; a stage between two routes is a converter with an   *)
(* output queue; a "stuck" stage blocks in its backend until close() calls  *)
(* cancelBlockingWork().                                                    *)
(***************************************************************************)
EXTENDS Naturals, Sequences, FiniteSets, SequencesExt

CONSTANTS Stage,    \* the stages
          Setups,   \* routes, frame cap, watchdog and stuck stages to consider
          Frames,     \* frames a source has
          Depth,    \* _writeDepth of every sink
          MaxFails  \* bound: commands that fail

ASSUME PipelineAssumption ==
    /\ Stage # {}
    /\ Setups \subseteq [routes : SUBSET (Stage \X Stage), cap : Nat, watchdog : BOOLEAN,
                         stuck : SUBSET Stage]
    \* build() rejects fan-in.
    /\ \A u \in Setups : \A r, q \in u.routes : r[2] = q[2] => r = q
    /\ Frames \in Nat /\ Depth \in Nat \ {0} /\ MaxFails \in Nat

VARIABLES
    setup,     \* the configuration
    p,         \* the fields of the pipeline
    io,        \* each stage's MediaIO: "closed", "open" or "closing"
    strand,    \* the commands its strand has to execute
    conn,      \* the connection at its source port: "off", "on", or "done" (_upstreamDone)
    read,      \* that connection's read: "none", "flight", its result, or "parked": the
               \*   pump yielded on a TryAgain and waits for a frameReady
    fifo,      \* frames a converter has ready: pendingInternalWrites()
    stopped,   \* sinks that failed: SinkState::stopped
    loop,      \* callables posted to the pipeline's EventLoop
    fails,     \* bound
    made,      \* history: frames each source handed out
    taken,     \* history: frames each sink accepted (framesWritten)
    seen       \* history: an error was reported, the watchdog fired, stop() was called,
               \*   and the finishedSignals emitted

stages == <<io, strand, fifo>>
links == <<conn, read, stopped>>
history == <<made, taken, seen>>
vars == <<setup, p, stages, links, loop, fails, history>>

Downstream(s) == {k \in Stage : <<s, k>> \in setup.routes}
HasUpstream(k) == \E s \in Stage : <<s, k>> \in setup.routes
Upstream(k) == CHOOSE s \in Stage : <<s, k>> \in setup.routes
Source == {s \in Stage : ~HasUpstream(s)}
Producer == {s \in Stage : Downstream(s) # {}}
Terminal == Stage \ Producer

\* The state build() leaves.
Init ==
    /\ setup \in Setups
    /\ p = [state |-> "Built", closing |-> FALSE, clean |-> FALSE, error |-> FALSE,
            awaiting |-> {}, armed |-> FALSE]
    /\ io = [s \in Stage |-> "closed"] /\ strand = [s \in Stage |-> <<>>]
    /\ conn = [s \in Stage |-> "off"] /\ read = [s \in Stage |-> "none"]
    /\ fifo = [s \in Stage |-> 0]
    /\ stopped = {} /\ loop = <<>> /\ fails = 0
    /\ made = [s \in Stage |-> 0] /\ taken = [s \in Stage |-> 0]
    /\ seen = [reported |-> FALSE, forced |-> FALSE, stopped |-> FALSE, finished |-> <<>>]

-----------------------------------------------------------------------------
(* Closing.                                                                 *)

\* MediaIO::close() on the stages of S that are open: latch, and post the Close.
CloseStages(S, posted) ==
    LET now == {s \in S : io[s] = "open"}
    IN  /\ io' = [s \in Stage |-> IF s \in now THEN "closing" ELSE io[s]]
        /\ strand' = [s \in Stage |-> IF s \in now THEN Append(posted[s], "close")
                                                   ELSE posted[s]]

\* Mutant: a running pipeline closes everything at once.
TriggerAll == IF p.closing THEN {} ELSE Stage

\* The stages initiateClose() closes itself: with frames flowing, the true sources.
Triggers == IF p.closing THEN {} ELSE IF p.state = "Running" THEN Source ELSE Stage

\* Mutant: only the triggers are waited for.
AwaitTriggers == Triggers

\* _stagesAwaitingClosed as initiateClose() fills it.
Awaited == Stage

\* Mutant: an error that joins a close is forgotten.
JoinKeepsClean(clean) == p.clean

\* initiateClose() while a close is under way.
Join(clean) == p.clean /\ clean

\* initiateClose() of a pipeline whose stages were opened.
InitiateClose(clean) ==
    p' = IF p.closing THEN [p EXCEPT !.clean = Join(clean)]
         ELSE [p EXCEPT !.closing = TRUE, !.error = FALSE, !.clean = clean,
                        !.awaiting = Awaited, !.armed = setup.watchdog]

\* finalizeClose(), from q: announce, then destroyStages().
FinalizeClose(q) ==
    /\ p' = [q EXCEPT !.state = "Closed", !.closing = FALSE, !.awaiting = {}, !.armed = FALSE]
    /\ seen' = [seen EXCEPT !.finished = Append(@, q.clean /\ ~q.error)]
    /\ conn' = [s \in Stage |-> "off"] /\ read' = [s \in Stage |-> "none"]

\* close(), by the user.
CloseBuilt ==
    /\ p.state = "Built"
    /\ FinalizeClose([p EXCEPT !.clean = TRUE, !.error = FALSE])
    /\ UNCHANGED <<setup, stages, stopped, loop, fails, made, taken>>

Close ==
    /\ p.state \in {"Open", "Running", "Stopped"} /\ ~p.closing
    /\ InitiateClose(TRUE)
    /\ CloseStages(Triggers, strand)
    /\ UNCHANGED <<setup, fifo, links, loop, fails, history>>

\* Mutant: the watchdog closes the sources only.
EscalateSources == p.awaiting \cap Source

\* What forceCloseRemaining() closes.
Escalated == p.awaiting

\* timerEvent() of the close watchdog.
ForceCloseRemaining ==
    /\ p.armed
    /\ p' = [p EXCEPT !.armed = FALSE]
    /\ seen' = [seen EXCEPT !.forced = TRUE]
    /\ CloseStages(Escalated, strand)
    /\ UNCHANGED <<setup, fifo, links, loop, fails, made, taken>>

\* Mutant: the pipeline is closed when its sources are.
SourcesClosed(q) == q.closing /\ q.awaiting \cap Source = {}

\* Whether the last stage has closed.
AllClosed(q) == q.closing /\ q.awaiting = {}

\* onStageClosed(), the slot of a stage's closedSignal.
RunStageClosed ==
    /\ loop # <<>> /\ Head(loop).what = "closed"
    /\ loop' = Tail(loop)
    /\ LET q == [p EXCEPT !.error = @ \/ Head(loop).err, !.awaiting = @ \ {Head(loop).stage}]
       IN  IF AllClosed(q)
           THEN FinalizeClose(q)
           ELSE p' = q /\ UNCHANGED <<conn, read, seen>>
    /\ UNCHANGED <<setup, stages, stopped, fails, made, taken>>

-----------------------------------------------------------------------------
(* The other operations.                                                    *)

\* open(): every stage, in topological order, each waited for.  When one fails those
\* already open are closed again and the pipeline stays Built.
Open ==
    /\ p.state = "Built"
    /\ p' = [p EXCEPT !.state = "Open"]
    /\ io' = [s \in Stage |-> "open"]
    /\ UNCHANGED <<setup, strand, fifo, links, loop, fails, history>>

\* start().  It does not look whether the pipeline is closing.
Start ==
    /\ p.state = "Open"
    /\ p' = [p EXCEPT !.state = "Running", !.clean = FALSE]
    /\ conn' = [s \in Stage |-> IF s \in Producer THEN "on" ELSE "off"]
    /\ UNCHANGED <<setup, stages, read, stopped, loop, fails, history>>

\* stop(): the connections are stopped, and cancelPending() drops the reads.
Stop ==
    /\ p.state = "Running"
    /\ p' = [p EXCEPT !.state = "Stopped"]
    /\ conn' = [s \in Stage |-> "off"] /\ read' = [s \in Stage |-> "none"]
    /\ seen' = [seen EXCEPT !.stopped = TRUE]
    /\ UNCHANGED <<setup, stages, stopped, loop, fails, made, taken>>

-----------------------------------------------------------------------------
(* The pump of the connection at s.                                         *)

\* Sinks at their cap in the history f: framesWritten >= frameLimit, every frame being
\* a safe cut point.  Only terminal sinks have a cap.
AtCap(f) == {k \in Terminal : setup.cap > 0 /\ f[k] >= setup.cap}

Taking(s) == Downstream(s) \ (stopped \cup AtCap(taken))
Pending(k) == Len(SelectSeq(strand[k], LAMBDA c : c = "write"))

\* The back-pressure gate.
Pumping(s) == conn[s] = "on" /\ \A k \in Taking(s) : Pending(k) + fifo[k] < Depth

Fetch(s) ==
    /\ Pumping(s) /\ read[s] = "none" /\ io[s] = "open"
    /\ strand' = [strand EXCEPT ![s] = Append(@, "read")]
    /\ read' = [read EXCEPT ![s] = "flight"]
    /\ UNCHANGED <<setup, p, io, fifo, conn, stopped, loop, fails, history>>

\* TryAgain: the converter has nothing yet.  The frameReady of a write that came after
\* it may run the pump again, or be coalesced into this one.
PumpAgain(s) ==
    /\ Pumping(s) /\ read[s] = "again"
    /\ \E r \in {"parked", "none"} : read' = [read EXCEPT ![s] = r]
    /\ UNCHANGED <<setup, p, stages, conn, stopped, loop, fails, history>>

\* onSinkLimitReached(): no sink with a cap is left.
AllCapped(f) == AtCap(f) = Terminal

\* A frame goes to every sink that takes part, and may be the last some of them take;
\* with the last capped sink the pipeline closes.
PumpFrame(s) ==
    /\ Pumping(s) /\ read[s] = "frame"
    /\ read' = [read EXCEPT ![s] = "none"]
    /\ LET to == {k \in Taking(s) : io[k] = "open"}
           posted == [k \in Stage |-> IF k \in to THEN Append(strand[k], "write")
                                                  ELSE strand[k]]
       IN  /\ taken' = [k \in Stage |-> IF k \in to THEN taken[k] + 1 ELSE taken[k]]
           /\ stopped' = stopped \cup (Taking(s) \ to)
           /\ IF to \cap AtCap(taken') # {} /\ AllCapped(taken')
              THEN InitiateClose(TRUE) /\ CloseStages(Triggers, posted)
              ELSE strand' = posted /\ UNCHANGED <<p, io>>
    /\ UNCHANGED <<setup, fifo, conn, loop, fails, made, seen>>

\* The end of the stream, or NotOpen or Cancelled, which count as one: onUpstreamDone().
AtEnd(s) == read[s] = "end" \/ (read[s] \in {"none", "parked"} /\ io[s] # "open")

PumpEnd(s) ==
    /\ Pumping(s) /\ AtEnd(s)
    /\ conn' = [conn EXCEPT ![s] = "done"]
    /\ read' = [read EXCEPT ![s] = "none"]
    /\ InitiateClose(TRUE)
    /\ CloseStages(Triggers \cup Downstream(s), strand)
    /\ UNCHANGED <<setup, fifo, stopped, loop, fails, history>>

\* A read failed: the connection is dead; onSourceConnectionError().
PumpFailed(s) ==
    /\ Pumping(s) /\ read[s] = "failed"
    /\ conn' = [conn EXCEPT ![s] = "off"]
    /\ read' = [read EXCEPT ![s] = "none"]
    /\ InitiateClose(FALSE)
    /\ CloseStages(Triggers, strand)
    /\ seen' = [seen EXCEPT !.reported = TRUE]
    /\ UNCHANGED <<setup, fifo, stopped, loop, fails, made, taken>>

Pump(s) == Fetch(s) \/ PumpAgain(s) \/ PumpFrame(s) \/ PumpEnd(s) \/ PumpFailed(s)

\* A write failed: onSinkWriteError() and onSinkConnectionError().
RunWriteError ==
    /\ loop # <<>> /\ Head(loop).what = "error"
    /\ loop' = Tail(loop)
    /\ LET k == Head(loop).stage
       IN  IF conn[Upstream(k)] # "off" /\ k \notin stopped
           THEN /\ stopped' = stopped \cup {k}
                /\ InitiateClose(FALSE)
                /\ CloseStages(Triggers, strand)
                /\ seen' = [seen EXCEPT !.reported = @ \/ Head(loop).err]
           ELSE UNCHANGED <<p, io, strand, stopped, seen>>
    /\ UNCHANGED <<setup, fifo, conn, read, fails, made, taken>>

-----------------------------------------------------------------------------
(* The strands.                                                             *)

Turn(s, c) == strand[s] # <<>> /\ Head(strand[s]) = c

\* A stuck backend answers only when close() has cancelled its work.
Blocked(s) == s \in setup.stuck /\ io[s] = "open"
Cancelled(s) == s \in setup.stuck /\ io[s] = "closing"

Report(what, s, err) == loop' = Append(loop, [what |-> what, stage |-> s, err |-> err])

\* A read.  One that stop() cancelled is dropped.
ExecRead(s) ==
    /\ Turn(s, "read") /\ ~Blocked(s)
    /\ strand' = [strand EXCEPT ![s] = Tail(@)]
    /\ \/ /\ read[s] = "none"
          /\ UNCHANGED <<fifo, read, fails, made>>
       \/ /\ read[s] = "flight"
          /\ \/ /\ Cancelled(s) \/ (s \in Source /\ made[s] = Frames)
                /\ read' = [read EXCEPT ![s] = "end"]
                /\ UNCHANGED <<fifo, fails, made>>
             \/ /\ ~Cancelled(s) /\ s \in Source /\ made[s] < Frames
                /\ read' = [read EXCEPT ![s] = "frame"]
                /\ made' = [made EXCEPT ![s] = @ + 1]
                /\ UNCHANGED <<fifo, fails>>
             \/ /\ ~Cancelled(s) /\ s \notin Source
                /\ read' = [read EXCEPT ![s] = IF fifo[s] > 0 THEN "frame" ELSE "again"]
                /\ fifo' = [fifo EXCEPT ![s] = IF @ > 0 THEN @ - 1 ELSE 0]
                /\ UNCHANGED <<fails, made>>
             \/ /\ ~Cancelled(s) /\ fails < MaxFails
                /\ read' = [read EXCEPT ![s] = "failed"]
                /\ fails' = fails + 1
                /\ UNCHANGED <<fifo, made>>
    /\ UNCHANGED <<setup, p, io, conn, stopped, loop, taken, seen>>

\* A write, with the frameReady of its stage, and the writeError of one that failed or was cancelled.
ExecWrite(k) ==
    /\ Turn(k, "write") /\ ~Blocked(k)
    /\ strand' = [strand EXCEPT ![k] = Tail(@)]
    /\ \/ /\ ~Cancelled(k)
          /\ fifo' = [fifo EXCEPT ![k] = IF k \in Producer THEN @ + 1 ELSE 0]
          /\ read' = [read EXCEPT ![k] = IF @ = "parked" THEN "none" ELSE @]
          /\ UNCHANGED <<loop, fails>>
       \/ /\ Cancelled(k) /\ Report("error", k, FALSE)
          /\ UNCHANGED <<fifo, read, fails>>
       \/ /\ ~Cancelled(k) /\ fails < MaxFails
          /\ Report("error", k, TRUE)
          /\ fails' = fails + 1
          /\ UNCHANGED <<fifo, read>>
    /\ UNCHANGED <<setup, p, io, conn, stopped, history>>

\* A Close, and its closedSignal.  A converter's Close empties its queue.
ExecClose(s) ==
    /\ Turn(s, "close")
    /\ strand' = [strand EXCEPT ![s] = Tail(@)]
    /\ io' = [io EXCEPT ![s] = "closed"]
    /\ fifo' = [fifo EXCEPT ![s] = 0]
    /\ \E err \in BOOLEAN :
          /\ fails + (IF err THEN 1 ELSE 0) <= MaxFails
          /\ fails' = fails + (IF err THEN 1 ELSE 0)
          /\ Report("closed", s, err)
    /\ UNCHANGED <<setup, p, links, history>>

Exec(s) == ExecRead(s) \/ ExecWrite(s) \/ ExecClose(s)

-----------------------------------------------------------------------------

Handler == RunStageClosed \/ RunWriteError
User == Open \/ Start \/ Stop \/ Close \/ CloseBuilt

Next ==
    \/ User \/ ForceCloseRemaining \/ Handler
    \/ \E s \in Stage : Pump(s) \/ Exec(s)

Fairness ==
    /\ WF_vars(Handler) /\ WF_vars(ForceCloseRemaining)
    /\ \A s \in Stage : WF_vars(Pump(s)) /\ WF_vars(Exec(s))

Spec == Init /\ [][Next]_vars /\ Fairness

-----------------------------------------------------------------------------

Event == [what : {"closed", "error"}, stage : Stage, err : BOOLEAN]

TypeOK ==
    /\ setup \in Setups
    /\ p \in [state : {"Built", "Open", "Running", "Stopped", "Closed"}, closing : BOOLEAN,
              clean : BOOLEAN, error : BOOLEAN, awaiting : SUBSET Stage, armed : BOOLEAN]
    /\ io \in [Stage -> {"closed", "open", "closing"}]
    /\ strand \in [Stage -> Seq({"read", "write", "close"})]
    /\ conn \in [Stage -> {"off", "on", "done"}]
    /\ read \in [Stage -> {"none", "flight", "frame", "again", "parked", "end", "failed"}]
    /\ fifo \in [Stage -> Nat] /\ made \in [Stage -> Nat] /\ taken \in [Stage -> Nat]
    /\ stopped \subseteq Stage /\ loop \in Seq(Event) /\ fails \in 0 .. MaxFails
    /\ seen \in [reported : BOOLEAN, forced : BOOLEAN, stopped : BOOLEAN,
                 finished : Seq(BOOLEAN)]

\* Stages whose closedSignal is on its way to the pipeline.
Announced == {e.stage : e \in {l \in Range(loop) : l.what = "closed"}}

\* _stagesAwaitingClosed is right while the close cascades: a stage is in it from the
\* moment the close begins until its closedSignal has been handled, whoever closed it.
AwaitedExactly ==
    p.closing => p.awaiting = Announced \cup {s \in Stage : io[s] # "closed"}

\* finishedSignal is emitted once, when every stage has closed, with no command left on
\* any strand ("Sinks have flushed their in-flight writes by this point").
ClosedAfterAll ==
    /\ p.state = "Closed" =>
           /\ \A s \in Stage : io[s] = "closed" /\ strand[s] = <<>>
           /\ Len(seen.finished) = 1
    /\ p.state # "Closed" => seen.finished = <<>>

\* The cascade goes source first: unless the watchdog or stop() intervened, a consumer
\* of a true source is closed only after it was given every frame the source made.
SourceDrained ==
    \A s \in Source : \A k \in Taking(s) :
        (io[k] # "open" /\ ~seen.forced /\ ~seen.stopped) => taken[k] = made[s]

\* "The pipeline always follows an error with a finishedSignal emission with
\* clean=false", also when the error meets a close that began clean.
ErrorMeansUnclean ==
    (seen.reported /\ seen.finished # <<>>) => ~Last(seen.finished)

\* What keeps a close without watchdog from ending: a blocked sink, a stop(), a failure,
\* or a pump that yielded while its converter had a frame.
Hindered ==
    \/ setup.stuck \ Source # {} \/ seen.stopped \/ fails > 0
    \/ \E s \in Producer : read[s] = "parked" /\ fifo[s] > 0

\* Every close ends, whatever is stuck, fails or is stopped; without the watchdog, if
\* nothing is.
CloseEnds == p.closing ~> (p.state = "Closed" \/ (~setup.watchdog /\ Hindered))

=============================================================================
