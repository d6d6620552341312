------------------------- MODULE MediaPipelineProofs -------------------------
(***************************************************************************)
(* Proofs about MediaPipeline, for any stages and routes.                   *)
(*                                                                         *)
(* The close cascade is right because of what each stage's strand looks     *)
(* like: a stage that is closing has its Close as the last command (Ordered),*)
(* so a stage announces itself once and with an empty strand (ToldOnce).    *)
(* With the phases of the pipeline (nothing is closed before a close        *)
(* begins, a connection is on only while Running) this makes the set the    *)
(* pipeline waits for exact (Awaits), and the end what it should be (Ends). *)
(***************************************************************************)
EXTENDS MediaPipeline, SequenceTheorems, TLAPS

\* The enumerations of the model, named.
Command == {"read", "write", "close"}
IoState == {"closed", "open", "closing"}

\* A stage's strand goes with the state of its MediaIO: the Close is the last command.
Orderly(f, q) ==
    /\ f = "open" => \A i \in 1 .. Len(q) : q[i] # "close"
    /\ f = "closing" => /\ q # <<>> /\ q[Len(q)] = "close"
                        /\ \A i \in 1 .. (Len(q) - 1) : q[i] # "close"
    /\ f = "closed" => q = <<>>

\* A read or write posted to an open stage.
LEMMA OrderlyAppend ==
  ASSUME NEW q \in Seq(Command), NEW c \in Command \ {"close"}, Orderly("open", q)
  PROVE  Append(q, c) \in Seq(Command) /\ Orderly("open", Append(q, c))
BY DEF Orderly, Command

\* The Close posted to an open stage.
LEMMA OrderlyClose ==
  ASSUME NEW q \in Seq(Command), Orderly("open", q)
  PROVE  Append(q, "close") \in Seq(Command) /\ Orderly("closing", Append(q, "close"))
<1>1. "close" \in Command
  BY DEF Command
<1>2. /\ Append(q, "close") \in Seq(Command) /\ Len(Append(q, "close")) = Len(q) + 1
      /\ Append(q, "close")[Len(q) + 1] = "close"
      /\ \A i \in 1 .. Len(q) : Append(q, "close")[i] = q[i]
  BY <1>1
<1>3. Append(q, "close") # <<>>
  BY <1>2
<1> QED BY <1>2, <1>3 DEF Orderly

\* The strand takes its first command; a Close is the last one there is.
LEMMA OrderlyTail ==
  ASSUME NEW q \in Seq(Command), NEW f \in IoState, Orderly(f, q), q # <<>>
  PROVE  /\ Tail(q) \in Seq(Command)
         /\ Head(q) # "close" => Orderly(f, Tail(q))
         /\ Head(q) = "close" => f = "closing" /\ Tail(q) = <<>>
<1>1. /\ Len(q) \in Nat /\ Len(q) > 0 /\ Tail(q) \in Seq(Command) /\ Len(Tail(q)) = Len(q) - 1
      /\ Head(q) = q[1] /\ \A i \in 1 .. (Len(q) - 1) : Tail(q)[i] = q[i + 1]
  OBVIOUS
<1>a. Len(Tail(q)) = 0 => Tail(q) = <<>>
  BY <1>1, EmptySeq, Zenon
<1>b. Len(Tail(q)) > 0 => Tail(q) # <<>>
  <2>1. Tail(q) = <<>> => Len(Tail(q)) = 0
    BY EmptySeq, Zenon
  <2> QED BY <1>1, <2>1
<1>2. CASE f = "open"
  BY <1>1, <1>2 DEF Orderly
<1>3. CASE f = "closing"
  <2>1. /\ q[Len(q)] = "close" /\ \A i \in 1 .. (Len(q) - 1) : q[i] # "close"
    BY <1>3 DEF Orderly
  <2>2. CASE Len(q) = 1
    <3>1. Tail(q) = <<>>
      BY <1>1, <1>a, <2>2
    <3> QED BY <1>1, <1>3, <2>1, <2>2, <3>1
  <2>3. CASE Len(q) > 1
    <3>1. Head(q) # "close"
      BY <1>1, <2>1, <2>3
    <3>2. Tail(q) # <<>> /\ Tail(q)[Len(Tail(q))] = "close"
      <4>1. Len(q) - 1 \in 1 .. (Len(q) - 1)
        BY <1>1, <2>3
      <4>2. Tail(q)[Len(q) - 1] = q[Len(q) - 1 + 1]
        BY <1>1, <4>1
      <4> QED BY <1>1, <1>b, <2>1, <2>3, <4>2
    <3>3. \A i \in 1 .. (Len(Tail(q)) - 1) : Tail(q)[i] # "close"
      BY <1>1, <2>1, <2>3
    <3> QED BY <1>1, <1>3, <3>1, <3>2, <3>3 DEF Orderly
  <2> QED BY <1>1, <2>2, <2>3
<1>4. CASE f = "closed"
  BY <1>4 DEF Orderly
<1> QED BY <1>2, <1>3, <1>4 DEF IoState

\* The stages a list of events announces, each once.
Told(l) == {e.stage : e \in {m \in Range(l) : m.what = "closed"}}
Once(l) ==
    \A i, j \in 1 .. Len(l) :
        l[i].what = "closed" /\ l[j].what = "closed" /\ l[i].stage = l[j].stage => i = j

\* Told, by positions.
LEMMA ToldBy ==
  ASSUME NEW l \in Seq(Event)
  PROVE  /\ Told(l) \subseteq Stage
         /\ \A s : s \in Told(l) <=> \E i \in 1 .. Len(l) : l[i].what = "closed" /\ l[i].stage = s
<1>1. DOMAIN l = 1 .. Len(l) /\ \A i \in 1 .. Len(l) : l[i] \in Event
  OBVIOUS
<1>2. \A s : s \in Told(l) <=> \E i \in 1 .. Len(l) : l[i].what = "closed" /\ l[i].stage = s
  BY <1>1 DEF Told, Range
<1> QED BY <1>1, <1>2 DEF Event

\* An empty list announces nobody.
LEMMA ToldNothing == Told(<<>>) = {} /\ Once(<<>>)
<1>1. PICK l \in Seq(Event) : l = <<>>
  BY EmptySeq
<1>2. Len(l) = 0
  BY <1>1
<1>3. Told(l) = {}
  <2>1. \A s : s \in Told(l) <=> \E i \in 1 .. Len(l) : l[i].what = "closed" /\ l[i].stage = s
    BY ToldBy
  <2>2. 1 .. Len(l) = {}
    BY <1>2
  <2> QED BY <2>1, <2>2
<1>4. Once(l)
  BY <1>2 DEF Once
<1> QED BY <1>1, <1>3, <1>4

\* One event more.
LEMMA ToldAppend ==
  ASSUME NEW l \in Seq(Event), NEW e \in Event, Once(l), e.what = "closed" => e.stage \notin Told(l)
  PROVE  /\ Append(l, e) \in Seq(Event) /\ Once(Append(l, e))
         /\ Told(Append(l, e)) = IF e.what = "closed" THEN Told(l) \cup {e.stage} ELSE Told(l)
<1> DEFINE m == Append(l, e)
<1>1. /\ m \in Seq(Event) /\ Len(m) = Len(l) + 1 /\ Len(l) \in Nat
      /\ m[Len(l) + 1] = e /\ \A i \in 1 .. Len(l) : m[i] = l[i]
  OBVIOUS
<1>2. \A s : s \in Told(l) <=> \E i \in 1 .. Len(l) : l[i].what = "closed" /\ l[i].stage = s
  BY ToldBy
<1>3. \A s : s \in Told(m) <=> \E i \in 1 .. Len(m) : m[i].what = "closed" /\ m[i].stage = s
  BY <1>1, ToldBy
<1> HIDE DEF m
<1>4. Once(m)
  BY <1>1, <1>2 DEF Once
<1>5. \A s : s \in Told(m) <=> s \in Told(l) \/ (e.what = "closed" /\ s = e.stage)
  BY <1>1, <1>2, <1>3
<1>6. Told(m) = IF e.what = "closed" THEN Told(l) \cup {e.stage} ELSE Told(l)
  BY <1>5
<1> QED BY <1>1, <1>4, <1>6 DEF m

\* One event handled.
LEMMA ToldTail ==
  ASSUME NEW l \in Seq(Event), l # <<>>, Once(l)
  PROVE  /\ Tail(l) \in Seq(Event) /\ Once(Tail(l)) /\ Head(l) \in Event
         /\ Told(Tail(l)) = IF Head(l).what = "closed" THEN Told(l) \ {Head(l).stage} ELSE Told(l)
         /\ Head(l).what = "closed" => Head(l).stage \in Told(l)
<1> DEFINE m == Tail(l)
<1>1. /\ m \in Seq(Event) /\ Len(m) = Len(l) - 1 /\ Len(l) \in Nat /\ Len(l) > 0 /\ Len(m) \in Nat
      /\ Head(l) = l[1] /\ Head(l) \in Event /\ \A i \in 1 .. Len(m) : m[i] = l[i + 1]
  OBVIOUS
<1>2. \A s : s \in Told(l) <=> \E i \in 1 .. Len(l) : l[i].what = "closed" /\ l[i].stage = s
  BY ToldBy
<1>3. \A s : s \in Told(m) <=> \E i \in 1 .. Len(m) : m[i].what = "closed" /\ m[i].stage = s
  BY <1>1, ToldBy
<1> HIDE DEF m
<1>4. Once(m)
  BY <1>1 DEF Once
<1>5. ASSUME NEW s PROVE s \in Told(l) <=> s \in Told(m) \/ (l[1].what = "closed" /\ s = l[1].stage)
  <2>1. ASSUME s \in Told(l) PROVE s \in Told(m) \/ (l[1].what = "closed" /\ s = l[1].stage)
    <3>1. PICK i \in 1 .. Len(l) : l[i].what = "closed" /\ l[i].stage = s
      BY <1>2, <2>1
    <3>2. CASE i = 1
      BY <3>1, <3>2
    <3>3. CASE i # 1
      <4>1. i - 1 \in 1 .. Len(m) /\ m[i - 1] = l[i]
        BY <1>1, <3>3
      <4> QED BY <1>3, <3>1, <4>1
    <3> QED BY <3>2, <3>3
  <2>2. s \in Told(m) => s \in Told(l)
    BY <1>1, <1>2, <1>3
  <2>3. l[1].what = "closed" /\ s = l[1].stage => s \in Told(l)
    BY <1>1, <1>2
  <2> QED BY <2>1, <2>2, <2>3
<1>6. l[1].what = "closed" => l[1].stage \notin Told(m)
  <2> SUFFICES ASSUME l[1].what = "closed", l[1].stage \in Told(m) PROVE FALSE
    OBVIOUS
  <2>1. PICK i \in 1 .. Len(m) : m[i].what = "closed" /\ m[i].stage = l[1].stage
    BY <1>3
  <2>2. i + 1 \in 1 .. Len(l) /\ 1 \in 1 .. Len(l) /\ m[i] = l[i + 1] /\ i + 1 # 1
    BY <1>1
  <2> QED BY <2>1, <2>2 DEF Once
<1>7. Told(m) = IF l[1].what = "closed" THEN Told(l) \ {l[1].stage} ELSE Told(l)
  BY <1>5, <1>6
<1> QED BY <1>1, <1>4, <1>5, <1>7 DEF m

-----------------------------------------------------------------------------
PipeState == {"Built", "Open", "Running", "Stopped", "Closed"}
Pipe == [state : PipeState, closing : BOOLEAN, clean : BOOLEAN, error : BOOLEAN,
         awaiting : SUBSET Stage, armed : BOOLEAN]
Seen == [reported : BOOLEAN, forced : BOOLEAN, stopped : BOOLEAN, finished : Seq(BOOLEAN)]
ConnState == {"off", "on", "done"}
ReadState == {"none", "flight", "frame", "again", "parked", "end", "failed"}

\* TypeOK with its enumerations named.
LEMMA Types ==
  TypeOK <=>
    /\ setup \in Setups /\ p \in Pipe /\ io \in [Stage -> IoState]
    /\ strand \in [Stage -> Seq(Command)] /\ conn \in [Stage -> ConnState]
    /\ read \in [Stage -> ReadState] /\ fifo \in [Stage -> Nat] /\ made \in [Stage -> Nat]
    /\ taken \in [Stage -> Nat] /\ stopped \subseteq Stage /\ loop \in Seq(Event)
    /\ fails \in 0 .. MaxFails /\ seen \in Seen
BY Zenon DEF TypeOK, Pipe, PipeState, Seen, IoState, Command, ConnState, ReadState

\* The same of the next state.
LEMMA TypesNext ==
  TypeOK' <=>
    /\ setup' \in Setups /\ p' \in Pipe /\ io' \in [Stage -> IoState]
    /\ strand' \in [Stage -> Seq(Command)] /\ conn' \in [Stage -> ConnState]
    /\ read' \in [Stage -> ReadState] /\ fifo' \in [Stage -> Nat] /\ made' \in [Stage -> Nat]
    /\ taken' \in [Stage -> Nat] /\ stopped' \subseteq Stage /\ loop' \in Seq(Event)
    /\ fails' \in 0 .. MaxFails /\ seen' \in Seen
BY Zenon DEF TypeOK, Pipe, PipeState, Seen, IoState, Command, ConnState, ReadState

\* The stages are open, or on their way down.
Live == p.state \in {"Open", "Running", "Stopped"}

\* Every strand goes with its stage.
Ordered == \A s \in Stage : Orderly(io[s], strand[s])

\* A stage is announced once, when it is closed.
ToldOnce == Once(loop) /\ \A s \in Told(loop) : io[s] = "closed"

\* What each state of the pipeline says of its stages and connections.
Phases ==
    /\ p.state = "Built" => ~p.closing /\ loop = <<>> /\ \A s \in Stage : io[s] = "closed"
    /\ p.closing => Live
    /\ Live /\ ~p.closing => \A s \in Stage : io[s] = "open"
    /\ p.state = "Closed" => Told(loop) = {} /\ \A s \in Stage : io[s] = "closed"
    /\ \A s \in Stage : conn[s] # "off" => p.state = "Running"
    /\ p.armed => p.closing

\* Whom a close waits for.
Awaits == p.closing => p.awaiting = Told(loop) \cup {s \in Stage : io[s] # "closed"}

\* The finishedSignal, and what a reported error makes of it.
Ends ==
    /\ p.state # "Closed" => seen.finished = <<>>
    /\ p.state = "Closed" => Len(seen.finished) = 1
    /\ seen.reported => \/ p.closing /\ ~p.clean
                        \/ p.state = "Closed" /\ ~seen.finished[1]

Cascade == Ordered /\ ToldOnce /\ Phases /\ Awaits /\ Ends

\* A step that leaves the pipeline and its stages as they are.
LEMMA QuietStep ==
  ASSUME TypeOK, Cascade, p' = p, io' = io, seen' = seen,
         Once(loop'), Told(loop') = Told(loop), p.state = "Built" => loop' = <<>>,
         \A s \in Stage : conn'[s] # "off" => conn[s] # "off",
         Ordered'
  PROVE  Cascade'
<1>1. ToldOnce'
  BY DEF Cascade, ToldOnce
<1>2. Phases' /\ Awaits'
  BY DEF Cascade, Phases, Awaits, Live
<1>3. Ends'
  BY DEF Cascade, Ends
<1> QED BY <1>1, <1>2, <1>3 DEF Cascade

\* Closing stages keeps the strands in order and closes nobody at once.
LEMMA CloseStagesSound ==
  ASSUME io \in [Stage -> IoState], NEW posted \in [Stage -> Seq(Command)], NEW S,
         \A s \in Stage : Orderly(io[s], posted[s]), CloseStages(S, posted)
  PROVE  /\ io' \in [Stage -> IoState] /\ strand' \in [Stage -> Seq(Command)] /\ Ordered'
         /\ \A s \in Stage : io'[s] = "closed" <=> io[s] = "closed"
<1>1. /\ io' = [s \in Stage |-> IF s \in S /\ io[s] = "open" THEN "closing" ELSE io[s]]
      /\ strand' = [s \in Stage |-> IF s \in S /\ io[s] = "open" THEN Append(posted[s], "close")
                                                                 ELSE posted[s]]
  BY DEF CloseStages
<1>2. io' \in [Stage -> IoState]
  BY <1>1 DEF IoState
<1>3. \A s \in Stage : io'[s] = "closed" <=> io[s] = "closed"
  BY <1>1
<1>4. ASSUME NEW s \in Stage PROVE strand'[s] \in Seq(Command) /\ Orderly(io'[s], strand'[s])
  <2>1. CASE s \in S /\ io[s] = "open"
    <3>1. Orderly("open", posted[s])
      BY <2>1, Zenon
    <3>2. strand'[s] = Append(posted[s], "close") /\ io'[s] = "closing"
      BY <1>1, <2>1
    <3> QED BY <3>1, <3>2, OrderlyClose
  <2>2. CASE ~(s \in S /\ io[s] = "open")
    BY <1>1, <2>2
  <2> QED BY <2>1, <2>2
<1>5. strand' \in [Stage -> Seq(Command)]
  BY <1>1, <1>4
<1> QED BY <1>2, <1>3, <1>4, <1>5 DEF Ordered

\* What initiateClose() makes of the fields of the pipeline.
LEMMA InitiateSound ==
  ASSUME p \in Pipe, NEW clean \in BOOLEAN, InitiateClose(clean), setup \in Setups
  PROVE  /\ p' \in Pipe /\ p'.state = p.state /\ p'.closing = TRUE
         /\ p'.awaiting = IF p.closing THEN p.awaiting ELSE Stage
         /\ ~clean => ~p'.clean
         /\ p.closing /\ ~p.clean => ~p'.clean
<1>1. setup.watchdog \in BOOLEAN
  BY PipelineAssumption
<1>2. (p.clean /\ clean) \in BOOLEAN
  OBVIOUS
<1>3. CASE p.closing
  <2>1. p' = [p EXCEPT !.clean = (p.clean /\ clean)]
    BY <1>3 DEF InitiateClose, Join
  <2>2. p' \in Pipe /\ p'.clean = (p.clean /\ clean) /\ p'.state = p.state
        /\ p'.closing = p.closing /\ p'.awaiting = p.awaiting
    BY <1>2, <2>1 DEF Pipe
  <2> QED BY <1>3, <2>2 DEF Pipe
<1>4. CASE ~p.closing
  <2>1. p' = [p EXCEPT !.closing = TRUE, !.error = FALSE, !.clean = clean,
                       !.awaiting = Stage, !.armed = setup.watchdog]
    BY <1>4 DEF InitiateClose, Awaited
  <2>2. p' \in Pipe /\ p'.clean = clean /\ p'.state = p.state
        /\ p'.closing = TRUE /\ p'.awaiting = Stage
    BY <1>1, <2>1 DEF Pipe
  <2> QED BY <1>4, <2>2
<1> QED BY <1>3, <1>4

\* A step that begins a close, or joins the one under way.
LEMMA ClosingStep ==
  ASSUME TypeOK, Cascade, Live, NEW clean \in BOOLEAN, InitiateClose(clean),
         NEW posted \in [Stage -> Seq(Command)], NEW S,
         \A s \in Stage : Orderly(io[s], posted[s]), CloseStages(S, posted),
         Once(loop'), Told(loop') = Told(loop),
         \A s \in Stage : conn'[s] # "off" => conn[s] # "off",
         seen'.finished = seen.finished,
         seen'.reported => seen.reported \/ ~clean
  PROVE  Cascade' /\ p' \in Pipe /\ io' \in [Stage -> IoState] /\ strand' \in [Stage -> Seq(Command)]
<1>1. /\ io' \in [Stage -> IoState] /\ strand' \in [Stage -> Seq(Command)] /\ Ordered'
      /\ \A s \in Stage : io'[s] = "closed" <=> io[s] = "closed"
  BY CloseStagesSound, Types
<1>2. /\ p' \in Pipe /\ p'.state = p.state /\ p'.closing = TRUE
      /\ p'.awaiting = IF p.closing THEN p.awaiting ELSE Stage
      /\ ~clean => ~p'.clean
      /\ p.closing /\ ~p.clean => ~p'.clean
  BY InitiateSound, Types
<1>3. Told(loop) \subseteq Stage
  BY ToldBy, Types
<1>4. ToldOnce'
  BY <1>1, <1>3 DEF Cascade, ToldOnce
<1>5. Live' /\ Phases'
  BY <1>1, <1>2 DEF Cascade, Phases, Live
<1>6. Awaits'
  <2>1. {s \in Stage : io'[s] # "closed"} = {s \in Stage : io[s] # "closed"}
    BY <1>1
  <2>2. CASE p.closing
    BY <1>2, <2>1, <2>2 DEF Cascade, Awaits
  <2>3. CASE ~p.closing
    <3>1. {s \in Stage : io[s] # "closed"} = Stage
      BY <2>3 DEF Cascade, Phases
    <3> QED BY <1>2, <1>3, <2>1, <2>3, <3>1 DEF Awaits
  <2> QED BY <2>2, <2>3
<1>7. Ends'
  BY <1>2 DEF Cascade, Ends, Live
<1> QED BY <1>1, <1>2, <1>4, <1>5, <1>6, <1>7 DEF Cascade

\* A step that ends the close, or has nothing to close.
LEMMA FinalStep ==
  ASSUME TypeOK, Cascade, NEW q \in Pipe, FinalizeClose(q), p.state # "Closed",
         io' = io, strand' = strand, \A s \in Stage : io[s] = "closed",
         Once(loop'), Told(loop') = {},
         seen.reported => ~q.clean
  PROVE  Cascade' /\ p' \in Pipe /\ seen' \in Seen /\ conn' \in [Stage -> ConnState]
                  /\ read' \in [Stage -> ReadState]
<1>1. /\ p' = [q EXCEPT !.state = "Closed", !.closing = FALSE, !.awaiting = {}, !.armed = FALSE]
      /\ seen' = [seen EXCEPT !.finished = Append(@, q.clean /\ ~q.error)]
      /\ conn' = [s \in Stage |-> "off"] /\ read' = [s \in Stage |-> "none"]
  BY DEF FinalizeClose
<1>2. p' \in Pipe /\ p'.state = "Closed" /\ p'.closing = FALSE /\ p'.armed = FALSE
  <2>1. "Closed" \in PipeState /\ {} \in SUBSET Stage
    BY DEF PipeState
  <2> QED BY <1>1, <2>1 DEF Pipe
<1>3. conn' \in [Stage -> ConnState] /\ read' \in [Stage -> ReadState]
  BY <1>1 DEF ConnState, ReadState
<1>4. (q.clean /\ ~q.error) \in BOOLEAN
  OBVIOUS
<1>5. seen.finished = <<>> /\ seen \in Seen
  BY Types DEF Cascade, Ends
<1>6. PICK b \in BOOLEAN : b = (q.clean /\ ~q.error)
  BY <1>4
<1>7. Append(seen.finished, b) \in Seq(BOOLEAN) /\ Append(seen.finished, b) = <<b>>
  BY <1>5
<1>8. seen' = [seen EXCEPT !.finished = <<b>>]
  BY <1>1, <1>6, <1>7
<1>9. seen' \in Seen /\ seen'.finished = <<b>> /\ seen'.reported = seen.reported
  BY <1>5, <1>7, <1>8 DEF Seen
<1>10. Ends'
  <2>1. Len(<<b>>) = 1 /\ <<b>>[1] = b
    OBVIOUS
  <2>2. seen.reported => ~b
    BY <1>6
  <2> QED BY <1>2, <1>9, <2>1, <2>2 DEF Ends
<1>11. Ordered' /\ ToldOnce'
  BY DEF Cascade, Ordered, ToldOnce
<1>12. Phases' /\ Awaits'
  BY <1>1, <1>2 DEF Phases, Awaits, Live
<1> QED BY <1>2, <1>3, <1>9, <1>10, <1>11, <1>12 DEF Cascade

-----------------------------------------------------------------------------
\* The inductive invariant.
IInv == TypeOK /\ Cascade

\* What build() leaves satisfies the invariant.
LEMMA InvInit == Init => IInv
<1> SUFFICES ASSUME Init PROVE IInv
  OBVIOUS
<1>1. TypeOK
  <2>1. p \in Pipe
    BY DEF Init, Pipe, PipeState
  <2>2. seen \in Seen
    BY DEF Init, Seen
  <2>3. /\ io \in [Stage -> IoState] /\ strand \in [Stage -> Seq(Command)]
        /\ conn \in [Stage -> ConnState] /\ read \in [Stage -> ReadState]
    BY DEF Init, IoState, ConnState, ReadState
  <2>4. /\ fifo \in [Stage -> Nat] /\ made \in [Stage -> Nat] /\ taken \in [Stage -> Nat]
        /\ stopped \subseteq Stage /\ loop \in Seq(Event) /\ fails \in 0 .. MaxFails
        /\ setup \in Setups
    BY PipelineAssumption DEF Init
  <2> QED BY <2>1, <2>2, <2>3, <2>4, Types
<1>2. Told(loop) = {} /\ Once(loop)
  <2>1. loop = <<>>
    BY DEF Init
  <2>2. Told(loop) = {}
    BY <2>1, ToldNothing
  <2> QED BY <2>1, <2>2 DEF Once
<1>3. Ordered
  BY DEF Init, Ordered, Orderly
<1>4. ToldOnce /\ Awaits
  BY <1>2 DEF Init, ToldOnce, Awaits
<1>5. Phases
  BY DEF Init, Phases, Live
<1>6. Ends
  BY DEF Init, Ends
<1> QED BY <1>1, <1>3, <1>4, <1>5, <1>6 DEF IInv, Cascade

\* The user's calls.
LEMMA UserStep == IInv /\ User => IInv'
<1> SUFFICES ASSUME IInv, User PROVE IInv'
  OBVIOUS
<1>0. TypeOK /\ Cascade /\ p \in Pipe /\ seen \in Seen
  BY Types DEF IInv
<1>1. CASE Open
  <2>1. /\ p.state = "Built" /\ p' = [p EXCEPT !.state = "Open"]
        /\ io' = [s \in Stage |-> "open"]
        /\ UNCHANGED <<setup, strand, fifo, links, loop, fails, history>>
    BY <1>1 DEF Open
  <2>2. p' \in Pipe /\ p'.state = "Open" /\ p'.closing = p.closing /\ p'.armed = p.armed
        /\ p'.clean = p.clean
    <3>1. "Open" \in PipeState
      BY DEF PipeState
    <3> QED BY <1>0, <2>1, <3>1 DEF Pipe
  <2>3. io' \in [Stage -> IoState]
    BY <2>1 DEF IoState
  <2>4. TypeOK'
    BY <1>0, <2>1, <2>2, <2>3, Types, TypesNext DEF links, history
  <2>5. Told(loop) = {} /\ ~p.closing /\ loop = <<>>
    <3>1. loop = <<>> /\ ~p.closing
      BY <1>0, <2>1 DEF Cascade, Phases
    <3> QED BY <3>1, ToldNothing
  <2>6. Ordered'
    <3>1. \A s \in Stage : strand'[s] = <<>> /\ io'[s] = "open"
      BY <1>0, <2>1 DEF Cascade, Phases, Ordered, Orderly
    <3> QED BY <3>1 DEF Ordered, Orderly
  <2>7. ToldOnce' /\ Awaits'
    BY <1>0, <2>1, <2>2, <2>5 DEF Cascade, ToldOnce, Awaits
  <2>8. Phases'
    BY <1>0, <2>1, <2>2, <2>5 DEF Cascade, Phases, Live, links
  <2>9. Ends'
    BY <1>0, <2>1, <2>2, <2>5 DEF Cascade, Ends, history
  <2> QED BY <2>4, <2>6, <2>7, <2>8, <2>9 DEF IInv, Cascade
<1>2. CASE Start
  <2>1. /\ p.state = "Open" /\ p' = [p EXCEPT !.state = "Running", !.clean = FALSE]
        /\ conn' = [s \in Stage |-> IF s \in Producer THEN "on" ELSE "off"]
        /\ UNCHANGED <<setup, stages, read, stopped, loop, fails, history>>
    BY <1>2 DEF Start
  <2>2. p' \in Pipe /\ p'.state = "Running" /\ p'.closing = p.closing /\ p'.armed = p.armed
        /\ p'.clean = FALSE /\ p'.awaiting = p.awaiting
    <3>1. "Running" \in PipeState
      BY DEF PipeState
    <3> QED BY <1>0, <2>1, <3>1 DEF Pipe
  <2>3. conn' \in [Stage -> ConnState]
    BY <2>1 DEF ConnState
  <2>4. TypeOK'
    BY <1>0, <2>1, <2>2, <2>3, Types, TypesNext DEF stages, history
  <2>5. Ordered' /\ ToldOnce' /\ Awaits'
    BY <1>0, <2>1, <2>2 DEF Cascade, Ordered, ToldOnce, Awaits, stages
  <2>6. Phases'
    BY <1>0, <2>1, <2>2 DEF Cascade, Phases, Live, stages
  <2>7. Ends'
    BY <1>0, <2>1, <2>2 DEF Cascade, Ends, history
  <2> QED BY <2>4, <2>5, <2>6, <2>7 DEF IInv, Cascade
<1>3. CASE Stop
  <2>1. /\ p.state = "Running" /\ p' = [p EXCEPT !.state = "Stopped"]
        /\ conn' = [s \in Stage |-> "off"] /\ read' = [s \in Stage |-> "none"]
        /\ seen' = [seen EXCEPT !.stopped = TRUE]
        /\ UNCHANGED <<setup, stages, stopped, loop, fails, made, taken>>
    BY <1>3 DEF Stop
  <2>2. p' \in Pipe /\ p'.state = "Stopped" /\ p'.closing = p.closing /\ p'.armed = p.armed
        /\ p'.clean = p.clean /\ p'.awaiting = p.awaiting
    <3>1. "Stopped" \in PipeState
      BY DEF PipeState
    <3> QED BY <1>0, <2>1, <3>1 DEF Pipe
  <2>3. conn' \in [Stage -> ConnState] /\ read' \in [Stage -> ReadState]
    BY <2>1 DEF ConnState, ReadState
  <2>4. seen' \in Seen /\ seen'.finished = seen.finished /\ seen'.reported = seen.reported
    BY <1>0, <2>1 DEF Seen
  <2>5. TypeOK'
    BY <1>0, <2>1, <2>2, <2>3, <2>4, Types, TypesNext DEF stages
  <2>6. Ordered' /\ ToldOnce' /\ Awaits'
    BY <1>0, <2>1, <2>2 DEF Cascade, Ordered, ToldOnce, Awaits, stages
  <2>7. Phases'
    BY <1>0, <2>1, <2>2 DEF Cascade, Phases, Live, stages
  <2>8. Ends'
    BY <1>0, <2>1, <2>2, <2>4 DEF Cascade, Ends
  <2> QED BY <2>5, <2>6, <2>7, <2>8 DEF IInv, Cascade
<1>4. CASE Close
  <2>1. /\ Live /\ InitiateClose(TRUE) /\ CloseStages(Triggers, strand)
        /\ UNCHANGED <<setup, fifo, links, loop, fails, history>>
    BY <1>4 DEF Close, Live
  <2>2. strand \in [Stage -> Seq(Command)] /\ \A s \in Stage : Orderly(io[s], strand[s])
    BY <1>0, Types DEF Cascade, Ordered
  <2>3. /\ Once(loop') /\ Told(loop') = Told(loop) /\ seen' = seen /\ conn' = conn
    BY <1>0, <2>1 DEF Cascade, ToldOnce, links, history
  <2>4. /\ Cascade' /\ p' \in Pipe /\ io' \in [Stage -> IoState]
        /\ strand' \in [Stage -> Seq(Command)]
    BY <1>0, <2>1, <2>2, <2>3, ClosingStep
  <2>5. TypeOK'
    BY <1>0, <2>1, <2>4, Types, TypesNext DEF links, history
  <2> QED BY <2>4, <2>5 DEF IInv
<1>5. CASE CloseBuilt
  <2>1. PICK q \in Pipe : q = [p EXCEPT !.clean = TRUE, !.error = FALSE]
    BY <1>0 DEF Pipe
  <2>2. /\ p.state = "Built" /\ FinalizeClose(q)
        /\ UNCHANGED <<setup, stages, stopped, loop, fails, made, taken>>
    BY <1>5, <2>1 DEF CloseBuilt
  <2>3. /\ Once(loop') /\ Told(loop') = {} /\ io' = io /\ strand' = strand
        /\ \A s \in Stage : io[s] = "closed"
    <3>1. loop = <<>> /\ loop' = loop /\ io' = io /\ strand' = strand
          /\ \A s \in Stage : io[s] = "closed"
      BY <1>0, <2>2 DEF Cascade, Phases, stages
    <3>2. Told(loop) = {}
      BY <3>1, ToldNothing
    <3> QED BY <1>0, <3>1, <3>2 DEF Cascade, ToldOnce
  <2>4. ~seen.reported
    BY <1>0, <2>2 DEF Cascade, Phases, Ends
  <2>5. Cascade' /\ p' \in Pipe /\ seen' \in Seen /\ conn' \in [Stage -> ConnState]
        /\ read' \in [Stage -> ReadState]
    BY <1>0, <2>2, <2>3, <2>4, FinalStep
  <2>6. TypeOK'
    BY <1>0, <2>2, <2>5, Types, TypesNext DEF stages
  <2> QED BY <2>5, <2>6 DEF IInv
<1> QED BY <1>1, <1>2, <1>3, <1>4, <1>5 DEF User

-----------------------------------------------------------------------------
\* No write is among the commands q.
Writeless(q) == \A i \in 1 .. Len(q) : q[i] # "write"

\* Only a stage with an upstream is written to.
Fed ==
    /\ \A s \in Stage : HasUpstream(s) \/ Writeless(strand[s])
    /\ \A i \in 1 .. Len(loop) : loop[i].what = "error" => HasUpstream(loop[i].stage)

\* Only a write makes a strand one with writes.
LEMMA WritelessKept ==
  ASSUME NEW q \in Seq(Command), Writeless(q)
  PROVE  /\ \A c \in Command : c # "write" => Writeless(Append(q, c))
         /\ q # <<>> => Writeless(Tail(q)) /\ Head(q) # "write"
<1>1. \A c \in Command : c # "write" => Writeless(Append(q, c))
  BY DEF Writeless
<1>2. ASSUME q # <<>> PROVE Writeless(Tail(q)) /\ Head(q) # "write"
  <2>1. /\ Len(q) \in Nat /\ Len(q) > 0 /\ Len(Tail(q)) = Len(q) - 1
        /\ Head(q) = q[1] /\ \A i \in 1 .. (Len(q) - 1) : Tail(q)[i] = q[i + 1]
    BY <1>2
  <2> QED BY <2>1 DEF Writeless
<1> QED BY <1>1, <1>2

\* Steps that leave the loop alone and give no write to a stage without upstream.
LEMMA FedByStages ==
  ASSUME TypeOK, Fed, setup' = setup, loop' = loop,
         \A s \in Stage : Writeless(strand[s]) /\ ~HasUpstream(s) => Writeless(strand'[s])
  PROVE  Fed'
BY DEF Fed, HasUpstream

\* Closing stages gives no stage a write.
LEMMA FedClose ==
  ASSUME TypeOK, Fed, setup' = setup, NEW S, NEW posted \in [Stage -> Seq(Command)],
         CloseStages(S, posted),
         \A s \in Stage : Writeless(strand[s]) /\ ~HasUpstream(s) => Writeless(posted[s])
  PROVE  \A s \in Stage : HasUpstream(s) \/ Writeless(strand'[s])
<1> TAKE s \in Stage
<1>1. strand'[s] = posted[s] \/ strand'[s] = Append(posted[s], "close")
  BY DEF CloseStages
<1>2. posted[s] \in Seq(Command) /\ "close" \in Command /\ "close" # "write"
  BY DEF Command
<1>3. HasUpstream(s) \/ Writeless(posted[s])
  BY DEF Fed
<1> QED BY <1>1, <1>2, <1>3, WritelessKept

\* Handling an event.
LEMMA LoopTail ==
  ASSUME TypeOK, Fed, loop # <<>>, loop' = Tail(loop), setup' = setup
  PROVE  /\ \A i \in 1 .. Len(loop') : loop'[i].what = "error" => HasUpstream(loop'[i].stage)
         /\ Head(loop).what = "error" => HasUpstream(Head(loop).stage)
<1>1. loop \in Seq(Event)
  BY Types
<1>2. /\ Len(loop) \in Nat /\ Len(loop) > 0 /\ Len(Tail(loop)) = Len(loop) - 1
      /\ Head(loop) = loop[1] /\ \A i \in 1 .. (Len(loop) - 1) : Tail(loop)[i] = loop[i + 1]
  BY <1>1
<1> QED BY <1>2 DEF Fed

\* Reporting one.
LEMMA LoopReport ==
  ASSUME TypeOK, Fed, NEW s \in Stage, NEW what \in {"closed", "error"}, NEW err \in BOOLEAN,
         Report(what, s, err), what = "error" => HasUpstream(s), setup' = setup
  PROVE  /\ \A i \in 1 .. Len(loop') : loop'[i].what = "error" => HasUpstream(loop'[i].stage)
         /\ loop' \in Seq(Event)
<1>1. PICK e \in Event : e = [what |-> what, stage |-> s, err |-> err]
  BY DEF Event
<1>2. loop \in Seq(Event) /\ loop' = Append(loop, e)
  BY <1>1, Types DEF Report
<1>3. /\ Len(loop) \in Nat /\ Len(loop') = Len(loop) + 1 /\ loop'[Len(loop) + 1] = e
      /\ \A i \in 1 .. Len(loop) : loop'[i] = loop[i]
  BY <1>2
<1>4. e.what = "error" => HasUpstream(e.stage)
  BY <1>1
<1>5. ASSUME NEW i \in 1 .. Len(loop'), loop'[i].what = "error" PROVE HasUpstream(loop'[i].stage)
  <2>1. CASE i = Len(loop) + 1
    BY <1>3, <1>4, <1>5, <2>1
  <2>2. CASE i # Len(loop) + 1
    <3>1. i \in 1 .. Len(loop) /\ loop'[i] = loop[i]
      BY <1>3, <2>2
    <3> QED BY <1>5, <3>1 DEF Fed
  <2> QED BY <2>1, <2>2
<1> QED BY <1>2, <1>5

\* Every step keeps writes, and errors of writes, to stages with an upstream.
LEMMA FedStep == TypeOK /\ Fed /\ [Next]_vars => Fed'
<1> SUFFICES ASSUME TypeOK, Fed, [Next]_vars PROVE Fed'
  OBVIOUS
<1>a. strand \in [Stage -> Seq(Command)] /\ loop \in Seq(Event)
  BY Types
<1>1. CASE User
  <2>1. CASE Open \/ Start \/ Stop \/ CloseBuilt
    BY <2>1, FedByStages DEF Open, Start, Stop, CloseBuilt, stages
  <2>2. CASE Close
    <3>1. setup' = setup /\ loop' = loop /\ CloseStages(Triggers, strand)
      BY <2>2 DEF Close
    <3>2. \A s \in Stage : HasUpstream(s) \/ Writeless(strand'[s])
      BY <1>a, <3>1, FedClose
    <3> QED BY <3>1, <3>2 DEF Fed, HasUpstream
  <2> QED BY <1>1, <2>1, <2>2 DEF User
<1>2. CASE ForceCloseRemaining
  <2>1. setup' = setup /\ loop' = loop /\ CloseStages(Escalated, strand)
    BY <1>2 DEF ForceCloseRemaining
  <2>2. \A s \in Stage : HasUpstream(s) \/ Writeless(strand'[s])
    BY <1>a, <2>1, FedClose
  <2> QED BY <2>1, <2>2 DEF Fed, HasUpstream
<1>3. CASE RunStageClosed
  <2>1. setup' = setup /\ strand' = strand /\ loop # <<>> /\ loop' = Tail(loop)
    BY <1>3 DEF RunStageClosed, stages
  <2> QED BY <2>1, LoopTail DEF Fed, HasUpstream
<1>4. CASE RunWriteError
  <2>1. /\ setup' = setup /\ loop # <<>> /\ loop' = Tail(loop)
        /\ strand' = strand \/ CloseStages(Triggers, strand)
    BY <1>4 DEF RunWriteError
  <2>2. \A s \in Stage : HasUpstream(s) \/ Writeless(strand'[s])
    BY <1>a, <2>1, FedClose DEF Fed
  <2> QED BY <2>1, <2>2, LoopTail DEF Fed, HasUpstream
<1>5. ASSUME NEW s \in Stage, Pump(s) PROVE Fed'
  <2>1. CASE Fetch(s)
    <3>1. strand' = [strand EXCEPT ![s] = Append(@, "read")] /\ setup' = setup /\ loop' = loop
      BY <2>1 DEF Fetch
    <3>2. "read" \in Command /\ "read" # "write"
      BY DEF Command
    <3> QED BY <1>a, <3>1, <3>2, WritelessKept, FedByStages
  <2>2. CASE PumpAgain(s)
    BY <2>2, FedByStages DEF PumpAgain, stages
  <2>3. CASE PumpFrame(s)
    <3>1. PICK posted \in [Stage -> Seq(Command)] :
            /\ \A k \in Stage : posted[k] = strand[k] \/ k \in Downstream(s)
            /\ CloseStages(Triggers, posted) \/ strand' = posted
      <4> DEFINE to == {k \in Taking(s) : io[k] = "open"}
                 posted == [k \in Stage |-> IF k \in to THEN Append(strand[k], "write") ELSE strand[k]]
      <4>1. posted \in [Stage -> Seq(Command)]
        <5>1. "write" \in Command
          BY DEF Command
        <5> QED BY <1>a, <5>1
      <4>2. \A k \in Stage : posted[k] = strand[k] \/ k \in Downstream(s)
        BY DEF Taking
      <4>3. CloseStages(Triggers, posted) \/ strand' = posted
        BY <2>3 DEF PumpFrame
      <4> HIDE DEF posted
      <4> QED BY <4>1, <4>2, <4>3
    <3>2. setup' = setup /\ loop' = loop
      BY <2>3 DEF PumpFrame
    <3>3. \A k \in Stage : k \in Downstream(s) => HasUpstream(k)
      BY DEF Downstream, HasUpstream
    <3>4. \A k \in Stage : Writeless(strand[k]) /\ ~HasUpstream(k) => Writeless(posted[k])
      BY <3>1, <3>3
    <3>5. \A k \in Stage : HasUpstream(k) \/ Writeless(strand'[k])
      <4>1. CASE CloseStages(Triggers, posted)
        BY <3>2, <3>4, <4>1, FedClose
      <4>2. CASE strand' = posted
        BY <3>4, <4>2 DEF Fed
      <4> QED BY <3>1, <4>1, <4>2
    <3> QED BY <3>2, <3>5 DEF Fed, HasUpstream
  <2>4. CASE PumpEnd(s)
    <3>1. setup' = setup /\ loop' = loop /\ CloseStages(Triggers \cup Downstream(s), strand)
      BY <2>4 DEF PumpEnd
    <3>2. \A k \in Stage : HasUpstream(k) \/ Writeless(strand'[k])
      BY <1>a, <3>1, FedClose
    <3> QED BY <3>1, <3>2 DEF Fed, HasUpstream
  <2>5. CASE PumpFailed(s)
    <3>1. setup' = setup /\ loop' = loop /\ CloseStages(Triggers, strand)
      BY <2>5 DEF PumpFailed
    <3>2. \A k \in Stage : HasUpstream(k) \/ Writeless(strand'[k])
      BY <1>a, <3>1, FedClose
    <3> QED BY <3>1, <3>2 DEF Fed, HasUpstream
  <2> QED BY <1>5, <2>1, <2>2, <2>3, <2>4, <2>5 DEF Pump
<1>6. ASSUME NEW s \in Stage, Exec(s) PROVE Fed'
  <2>1. setup' = setup /\ strand' = [strand EXCEPT ![s] = Tail(@)] /\ strand[s] # <<>>
    BY <1>6 DEF Exec, ExecRead, ExecWrite, ExecClose, Turn
  <2>2. \A k \in Stage : Writeless(strand[k]) => Writeless(strand'[k])
    BY <1>a, <2>1, WritelessKept
  <2>3. CASE loop' = loop
    BY <2>1, <2>2, <2>3, FedByStages
  <2>4. CASE ExecWrite(s) /\ loop' # loop
    <3>1. Head(strand[s]) = "write"
      BY <2>4 DEF ExecWrite, Turn
    <3>2. HasUpstream(s)
      BY <1>a, <2>1, <3>1, WritelessKept DEF Fed
    <3>3. \E err \in BOOLEAN : Report("error", s, err)
      BY <2>4 DEF ExecWrite
    <3>4. \A i \in 1 .. Len(loop') : loop'[i].what = "error" => HasUpstream(loop'[i].stage)
      BY <2>1, <3>2, <3>3, LoopReport
    <3> QED BY <2>1, <2>2, <3>4 DEF Fed, HasUpstream
  <2>5. CASE ExecClose(s)
    <3>1. \E err \in BOOLEAN : Report("closed", s, err)
      BY <2>5 DEF ExecClose
    <3>2. \A i \in 1 .. Len(loop') : loop'[i].what = "error" => HasUpstream(loop'[i].stage)
      BY <2>1, <3>1, LoopReport
    <3> QED BY <2>1, <2>2, <3>2 DEF Fed, HasUpstream
  <2>6. CASE ExecRead(s)
    BY <2>3, <2>6 DEF ExecRead
  <2> QED BY <1>6, <2>3, <2>4, <2>5, <2>6 DEF Exec
<1>7. CASE UNCHANGED vars
  BY <1>7, FedByStages DEF vars, stages
<1> QED BY <1>1, <1>2, <1>3, <1>4, <1>5, <1>6, <1>7 DEF Next, Handler

-----------------------------------------------------------------------------
\* The stages that have announced themselves are closing down the pipeline.
LEMMA ToldWhileClosing ==
  ASSUME TypeOK, Cascade, Told(loop) # {}
  PROVE  p.closing /\ Live
<1>1. PICK s \in Told(loop) : s \in Stage
  BY ToldBy, Types
<1>2. io[s] = "closed" /\ loop # <<>>
  BY <1>1, ToldNothing DEF Cascade, ToldOnce
<1>3. p.state \in PipeState
  BY Types DEF Pipe
<1> QED BY <1>1, <1>2, <1>3 DEF Cascade, Phases, Live, PipeState

\* The close watchdog.
LEMMA WatchdogStep == IInv /\ ForceCloseRemaining => IInv'
<1> SUFFICES ASSUME IInv, ForceCloseRemaining PROVE IInv'
  OBVIOUS
<1>0. TypeOK /\ Cascade /\ p \in Pipe /\ seen \in Seen
  BY Types DEF IInv
<1>1. /\ p.armed /\ p' = [p EXCEPT !.armed = FALSE] /\ seen' = [seen EXCEPT !.forced = TRUE]
      /\ CloseStages(Escalated, strand)
      /\ UNCHANGED <<setup, fifo, links, loop, fails, made, taken>>
  BY DEF ForceCloseRemaining
<1>2. /\ p' \in Pipe /\ p'.state = p.state /\ p'.closing = p.closing /\ p'.clean = p.clean
      /\ p'.awaiting = p.awaiting /\ p'.armed = FALSE
  BY <1>0, <1>1 DEF Pipe
<1>3. seen' \in Seen /\ seen'.finished = seen.finished /\ seen'.reported = seen.reported
  BY <1>0, <1>1 DEF Seen
<1>4. strand \in [Stage -> Seq(Command)] /\ io \in [Stage -> IoState]
      /\ \A s \in Stage : Orderly(io[s], strand[s])
  BY <1>0, Types DEF Cascade, Ordered
<1>5. /\ io' \in [Stage -> IoState] /\ strand' \in [Stage -> Seq(Command)] /\ Ordered'
      /\ \A s \in Stage : io'[s] = "closed" <=> io[s] = "closed"
  BY <1>1, <1>4, CloseStagesSound
<1>6. p.closing /\ Live
  BY <1>0, <1>1 DEF Cascade, Phases
<1>7. TypeOK'
  BY <1>0, <1>1, <1>2, <1>3, <1>5, Types, TypesNext DEF links
<1>8. Told(loop) \subseteq Stage
  BY <1>0, ToldBy, Types
<1>9. ToldOnce'
  BY <1>0, <1>1, <1>5, <1>8 DEF Cascade, ToldOnce
<1>10. Phases'
  BY <1>0, <1>1, <1>2, <1>6 DEF Cascade, Phases, Live, links
<1>11. Awaits'
  <2>1. {s \in Stage : io'[s] # "closed"} = {s \in Stage : io[s] # "closed"}
    BY <1>5
  <2> QED BY <1>0, <1>1, <1>2, <2>1 DEF Cascade, Awaits
<1>12. Ends'
  BY <1>0, <1>2, <1>3, <1>6 DEF Cascade, Ends
<1> QED BY <1>5, <1>7, <1>9, <1>10, <1>11, <1>12 DEF IInv, Cascade

\* A closedSignal is handled.
LEMMA StageClosedStep == IInv /\ RunStageClosed => IInv'
<1> SUFFICES ASSUME IInv, RunStageClosed PROVE IInv'
  OBVIOUS
<1>0. TypeOK /\ Cascade /\ p \in Pipe /\ seen \in Seen /\ loop \in Seq(Event) /\ Once(loop)
  BY Types DEF IInv, Cascade, ToldOnce
<1>1. /\ loop # <<>> /\ Head(loop).what = "closed" /\ loop' = Tail(loop)
      /\ UNCHANGED <<setup, stages, stopped, fails, made, taken>>
  BY DEF RunStageClosed
<1>2. PICK e \in Event : e = Head(loop) /\ e.stage \in Told(loop)
  BY <1>0, <1>1, ToldTail
<1>3. /\ loop' \in Seq(Event) /\ Once(loop') /\ Told(loop') = Told(loop) \ {e.stage}
  BY <1>0, <1>1, <1>2, ToldTail
<1>4. /\ e.stage \in Stage /\ e.err \in BOOLEAN
  BY DEF Event
<1>5. io[e.stage] = "closed" /\ p.closing /\ Live
  BY <1>0, <1>2, ToldWhileClosing DEF Cascade, ToldOnce
<1>6. PICK q \in Pipe : q = [p EXCEPT !.error = @ \/ Head(loop).err, !.awaiting = @ \ {Head(loop).stage}]
  <2>1. (p.error \/ e.err) \in BOOLEAN /\ p.awaiting \ {e.stage} \in SUBSET Stage
    BY <1>0 DEF Pipe
  <2>2. [p EXCEPT !.error = (p.error \/ e.err), !.awaiting = p.awaiting \ {e.stage}] \in Pipe
    BY <1>0, <2>1 DEF Pipe
  <2> QED BY <1>2, <2>2
<1>7. /\ q.state = p.state /\ q.closing = p.closing /\ q.clean = p.clean /\ q.armed = p.armed
      /\ q.awaiting = p.awaiting \ {e.stage}
  BY <1>0, <1>2, <1>6 DEF Pipe
<1>8. \/ AllClosed(q) /\ FinalizeClose(q)
      \/ ~AllClosed(q) /\ p' = q /\ UNCHANGED <<conn, read, seen>>
  BY <1>6 DEF RunStageClosed
<1>9. q.awaiting = Told(loop') \cup {s \in Stage : io[s] # "closed"}
  BY <1>0, <1>3, <1>5, <1>7 DEF Cascade, Awaits
<1>10. io' = io /\ strand' = strand
  BY <1>1 DEF stages
<1>11. CASE AllClosed(q)
  <2>1. Told(loop') = {} /\ \A s \in Stage : io[s] = "closed"
    BY <1>9, <1>11 DEF AllClosed
  <2>2. (seen.reported => ~q.clean) /\ p.state # "Closed"
    BY <1>0, <1>5, <1>7 DEF Cascade, Ends, Live
  <2>3. FinalizeClose(q)
    BY <1>8, <1>11
  <2>4. Cascade' /\ p' \in Pipe /\ seen' \in Seen /\ conn' \in [Stage -> ConnState]
        /\ read' \in [Stage -> ReadState]
    BY <1>0, <1>3, <1>10, <2>1, <2>2, <2>3, FinalStep
  <2>5. TypeOK'
    BY <1>0, <1>1, <1>3, <2>4, Types, TypesNext DEF stages
  <2> QED BY <2>4, <2>5 DEF IInv
<1>12. CASE ~AllClosed(q)
  <2>1. p' = q /\ UNCHANGED <<conn, read, seen>>
    BY <1>8, <1>12
  <2>2. TypeOK'
    BY <1>0, <1>1, <1>3, <2>1, Types, TypesNext DEF stages
  <2>3. Ordered' /\ ToldOnce'
    BY <1>0, <1>3, <1>10 DEF Cascade, Ordered, ToldOnce
  <2>4. Phases'
    BY <1>0, <1>5, <1>7, <1>10, <2>1 DEF Cascade, Phases, Live
  <2>5. Awaits'
    BY <1>9, <1>10, <2>1 DEF Awaits
  <2>6. Ends'
    BY <1>0, <1>5, <1>7, <2>1 DEF Cascade, Ends
  <2> QED BY <2>2, <2>3, <2>4, <2>5, <2>6 DEF IInv, Cascade
<1> QED BY <1>11, <1>12

\* A writeError is handled.
LEMMA WriteErrorStep == IInv /\ Fed /\ RunWriteError => IInv'
<1> SUFFICES ASSUME IInv, Fed, RunWriteError PROVE IInv'
  OBVIOUS
<1>0. TypeOK /\ Cascade /\ p \in Pipe /\ seen \in Seen /\ loop \in Seq(Event) /\ Once(loop)
      /\ strand \in [Stage -> Seq(Command)]
  BY Types DEF IInv, Cascade, ToldOnce
<1>1. /\ loop # <<>> /\ Head(loop).what = "error" /\ loop' = Tail(loop)
      /\ UNCHANGED <<setup, fifo, conn, read, fails, made, taken>>
  BY DEF RunWriteError
<1>2. PICK e \in Event : e = Head(loop)
  BY <1>0, <1>1, ToldTail
<1>3. /\ loop' \in Seq(Event) /\ Once(loop') /\ Told(loop') = Told(loop)
  BY <1>0, <1>1, ToldTail
<1>4. e.stage \in Stage /\ e.err \in BOOLEAN
  BY DEF Event
<1>5. CASE conn[Upstream(e.stage)] # "off" /\ e.stage \notin stopped
  <2>1. /\ stopped' = stopped \cup {e.stage} /\ InitiateClose(FALSE) /\ CloseStages(Triggers, strand)
        /\ seen' = [seen EXCEPT !.reported = @ \/ e.err]
    BY <1>2, <1>5 DEF RunWriteError
  <2>2. Upstream(e.stage) \in Stage
    <3>1. HasUpstream(e.stage)
      BY <1>0, <1>1, <1>2, LoopTail
    <3> QED BY <3>1 DEF HasUpstream, Upstream
  <2>3. Live
    BY <1>0, <1>5, <2>2 DEF Cascade, Phases, Live
  <2>4. seen' \in Seen /\ seen'.finished = seen.finished
    <3>1. (seen.reported \/ e.err) \in BOOLEAN
      OBVIOUS
    <3> QED BY <1>0, <2>1, <3>1 DEF Seen
  <2>5. \A s \in Stage : Orderly(io[s], strand[s])
    BY <1>0 DEF Cascade, Ordered
  <2>6. Cascade' /\ p' \in Pipe /\ io' \in [Stage -> IoState] /\ strand' \in [Stage -> Seq(Command)]
    <3>1. (seen'.reported => seen.reported \/ ~FALSE) /\ conn' = conn
      BY <1>1
    <3> QED BY <1>0, <1>3, <2>1, <2>3, <2>4, <2>5, <3>1, ClosingStep
  <2>7. TypeOK'
    BY <1>0, <1>1, <1>3, <1>4, <2>1, <2>4, <2>6, Types, TypesNext
  <2> QED BY <2>6, <2>7 DEF IInv
<1>6. CASE ~(conn[Upstream(e.stage)] # "off" /\ e.stage \notin stopped)
  <2>1. UNCHANGED <<p, io, strand, stopped, seen>>
    BY <1>2, <1>6 DEF RunWriteError
  <2>2. TypeOK'
    BY <1>0, <1>1, <1>3, <2>1, Types, TypesNext
  <2>3. Ordered' /\ (p.state = "Built" => loop' = <<>>)
    BY <1>0, <1>1, <2>1 DEF Cascade, Ordered, Phases
  <2>4. Cascade'
    BY <1>0, <1>1, <1>3, <2>1, <2>3, QuietStep
  <2> QED BY <2>2, <2>4 DEF IInv
<1> QED BY <1>5, <1>6

\* The pump of a connection.
LEMMA PumpStep == ASSUME NEW s \in Stage, IInv, Pump(s) PROVE IInv'
<1>0. TypeOK /\ Cascade /\ p \in Pipe /\ seen \in Seen /\ Once(loop)
      /\ strand \in [Stage -> Seq(Command)] /\ io \in [Stage -> IoState]
      /\ conn \in [Stage -> ConnState] /\ read \in [Stage -> ReadState]
      /\ \A k \in Stage : Orderly(io[k], strand[k])
  BY Types DEF IInv, Cascade, ToldOnce, Ordered
<1>1. Live /\ p.state # "Built"
  <2>1. Pumping(s)
    BY DEF Pump, Fetch, PumpAgain, PumpFrame, PumpEnd, PumpFailed
  <2> QED BY <1>0, <2>1 DEF Pumping, Cascade, Phases, Live
<1>2. CASE Fetch(s)
  <2>1. /\ io[s] = "open" /\ strand' = [strand EXCEPT ![s] = Append(strand[s], "read")]
        /\ read' = [read EXCEPT ![s] = "flight"]
        /\ UNCHANGED <<setup, p, io, fifo, conn, stopped, loop, fails, history>>
    BY <1>2 DEF Fetch
  <2>2. "read" \in Command \ {"close"}
    BY DEF Command
  <2>3. Append(strand[s], "read") \in Seq(Command) /\ Orderly(io[s], Append(strand[s], "read"))
    <3>1. Orderly("open", strand[s])
      BY <1>0, <2>1, Zenon
    <3> QED BY <1>0, <2>1, <2>2, <3>1, OrderlyAppend
  <2>4. strand' \in [Stage -> Seq(Command)] /\ read' \in [Stage -> ReadState] /\ Ordered'
    <3>1. "flight" \in ReadState
      BY DEF ReadState
    <3> QED BY <1>0, <2>1, <2>3, <3>1 DEF Ordered
  <2>5. TypeOK'
    BY <1>0, <2>1, <2>4, Types, TypesNext DEF history
  <2>6. Cascade'
    BY <1>0, <1>1, <2>1, <2>4, QuietStep DEF history
  <2> QED BY <2>5, <2>6 DEF IInv
<1>3. CASE PumpAgain(s)
  <2>1. /\ \E r \in {"parked", "none"} : read' = [read EXCEPT ![s] = r]
        /\ UNCHANGED <<setup, p, stages, conn, stopped, loop, fails, history>>
    BY <1>3 DEF PumpAgain
  <2>2. read' \in [Stage -> ReadState]
    BY <1>0, <2>1 DEF ReadState
  <2>3. TypeOK'
    BY <1>0, <2>1, <2>2, Types, TypesNext DEF history, stages
  <2>4. Ordered'
    BY <1>0, <2>1 DEF Ordered, stages
  <2>5. Cascade'
    BY <1>0, <1>1, <2>1, <2>4, QuietStep DEF history, stages
  <2> QED BY <2>3, <2>5 DEF IInv
<1>4. CASE PumpFrame(s)
  <2> DEFINE to == {k \in Taking(s) : io[k] = "open"}
             posted == [k \in Stage |-> IF k \in to THEN Append(strand[k], "write") ELSE strand[k]]
  <2>1. /\ read' = [read EXCEPT ![s] = "none"]
        /\ taken' = [k \in Stage |-> IF k \in to THEN taken[k] + 1 ELSE taken[k]]
        /\ stopped' = stopped \cup (Taking(s) \ to)
        /\ \/ InitiateClose(TRUE) /\ CloseStages(Triggers, posted)
           \/ strand' = posted /\ UNCHANGED <<p, io>>
        /\ UNCHANGED <<setup, fifo, conn, loop, fails, made, seen>>
    BY <1>4 DEF PumpFrame
  <2>2. \A k \in Stage : posted[k] \in Seq(Command) /\ Orderly(io[k], posted[k])
    <3> TAKE k \in Stage
    <3>1. CASE k \in to
      <4>1. "write" \in Command \ {"close"} /\ io[k] = "open"
        BY <3>1 DEF Command
      <4>2. Orderly("open", strand[k])
        BY <1>0, <4>1, Zenon
      <4> QED BY <1>0, <3>1, <4>1, <4>2, OrderlyAppend
    <3>2. CASE k \notin to
      BY <1>0, <3>2
    <3> QED BY <3>1, <3>2
  <2>3. posted \in [Stage -> Seq(Command)]
    BY <2>2
  <2>4. /\ taken' \in [Stage -> Nat] /\ stopped' \subseteq Stage /\ read' \in [Stage -> ReadState]
    <3>1. "none" \in ReadState
      BY DEF ReadState
    <3>2. taken \in [Stage -> Nat] /\ stopped \subseteq Stage
      BY <1>0, Types
    <3>3. Taking(s) \subseteq Stage
      BY DEF Taking, Downstream
    <3> HIDE DEF to
    <3>4. taken' \in [Stage -> Nat]
      BY <2>1, <3>2
    <3>5. stopped' \subseteq Stage
      BY <2>1, <3>2, <3>3
    <3>6. read' \in [Stage -> ReadState]
      BY <1>0, <2>1, <3>1
    <3> QED BY <3>4, <3>5, <3>6
  <2> HIDE DEF posted, to
  <2>5. CASE InitiateClose(TRUE) /\ CloseStages(Triggers, posted)
    <3>1. Cascade' /\ p' \in Pipe /\ io' \in [Stage -> IoState] /\ strand' \in [Stage -> Seq(Command)]
      <4>1. TRUE \in BOOLEAN /\ conn' = conn /\ seen' = seen /\ loop' = loop
        BY <2>1
      <4> QED BY <1>0, <1>1, <2>2, <2>3, <2>5, <4>1, ClosingStep
    <3>2. TypeOK'
      BY <1>0, <2>1, <2>4, <3>1, Types, TypesNext
    <3> QED BY <3>1, <3>2 DEF IInv
  <2>6. CASE strand' = posted /\ UNCHANGED <<p, io>>
    <3>1. TypeOK'
      BY <1>0, <2>1, <2>3, <2>4, <2>6, Types, TypesNext
    <3>2. Ordered'
      BY <2>2, <2>6 DEF Ordered
    <3>3. Cascade'
      BY <1>0, <1>1, <2>1, <2>6, <3>2, QuietStep
    <3> QED BY <3>1, <3>3 DEF IInv
  <2> QED BY <2>1, <2>5, <2>6
<1>5. CASE PumpEnd(s)
  <2>1. /\ conn' = [conn EXCEPT ![s] = "done"] /\ read' = [read EXCEPT ![s] = "none"]
        /\ InitiateClose(TRUE) /\ CloseStages(Triggers \cup Downstream(s), strand)
        /\ conn[s] = "on"
        /\ UNCHANGED <<setup, fifo, stopped, loop, fails, history>>
    BY <1>5 DEF PumpEnd, Pumping
  <2>2. conn' \in [Stage -> ConnState] /\ read' \in [Stage -> ReadState]
        /\ \A k \in Stage : conn'[k] # "off" => conn[k] # "off"
    BY <1>0, <2>1 DEF ConnState, ReadState
  <2>3. seen' = seen /\ loop' = loop /\ TRUE \in BOOLEAN
    BY <2>1 DEF history
  <2>4. Cascade' /\ p' \in Pipe /\ io' \in [Stage -> IoState] /\ strand' \in [Stage -> Seq(Command)]
    BY <1>0, <1>1, <2>1, <2>2, <2>3, ClosingStep
  <2>5. TypeOK'
    BY <1>0, <2>1, <2>2, <2>4, Types, TypesNext DEF history
  <2> QED BY <2>4, <2>5 DEF IInv
<1>6. CASE PumpFailed(s)
  <2>1. /\ conn' = [conn EXCEPT ![s] = "off"] /\ read' = [read EXCEPT ![s] = "none"]
        /\ InitiateClose(FALSE) /\ CloseStages(Triggers, strand)
        /\ seen' = [seen EXCEPT !.reported = TRUE]
        /\ UNCHANGED <<setup, fifo, stopped, loop, fails, made, taken>>
    BY <1>6 DEF PumpFailed
  <2>2. conn' \in [Stage -> ConnState] /\ read' \in [Stage -> ReadState]
        /\ \A k \in Stage : conn'[k] # "off" => conn[k] # "off"
    BY <1>0, <2>1 DEF ConnState, ReadState
  <2>3. seen' \in Seen /\ seen'.finished = seen.finished
    BY <1>0, <2>1 DEF Seen
  <2>4. Cascade' /\ p' \in Pipe /\ io' \in [Stage -> IoState] /\ strand' \in [Stage -> Seq(Command)]
    <3>1. loop' = loop /\ FALSE \in BOOLEAN /\ (seen'.reported => seen.reported \/ ~FALSE)
      BY <2>1
    <3> QED BY <1>0, <1>1, <2>1, <2>2, <2>3, <3>1, ClosingStep
  <2>5. TypeOK'
    BY <1>0, <2>1, <2>2, <2>3, <2>4, Types, TypesNext
  <2> QED BY <2>4, <2>5 DEF IInv
<1> QED BY <1>2, <1>3, <1>4, <1>5, <1>6 DEF Pump

\* A command of a strand.
LEMMA ExecStep == ASSUME NEW s \in Stage, IInv, Exec(s) PROVE IInv'
<1>0. TypeOK /\ Cascade /\ p \in Pipe /\ seen \in Seen /\ Once(loop) /\ loop \in Seq(Event)
      /\ strand \in [Stage -> Seq(Command)] /\ io \in [Stage -> IoState]
      /\ read \in [Stage -> ReadState] /\ fifo \in [Stage -> Nat] /\ made \in [Stage -> Nat]
      /\ fails \in 0 .. MaxFails /\ MaxFails \in Nat
      /\ \A k \in Stage : Orderly(io[k], strand[k])
  BY Types, PipelineAssumption DEF IInv, Cascade, ToldOnce, Ordered
<1>1. strand[s] # <<>> /\ strand' = [strand EXCEPT ![s] = Tail(strand[s])]
  BY DEF Exec, ExecRead, ExecWrite, ExecClose, Turn
<1>2. /\ Tail(strand[s]) \in Seq(Command)
      /\ Head(strand[s]) # "close" => Orderly(io[s], Tail(strand[s]))
      /\ Head(strand[s]) = "close" => io[s] = "closing" /\ Tail(strand[s]) = <<>>
  BY <1>0, <1>1, OrderlyTail
<1>3. strand' \in [Stage -> Seq(Command)]
  BY <1>0, <1>1, <1>2
<1>4. p.state # "Built"
  <2>1. strand[s] # <<>> => io[s] # "closed"
    BY <1>0 DEF Orderly
  <2> QED BY <1>0, <1>1, <2>1 DEF Cascade, Phases
<1>5. CASE ExecRead(s)
  <2>1. Head(strand[s]) = "read"
        /\ UNCHANGED <<setup, p, io, conn, stopped, loop, taken, seen>>
    BY <1>5 DEF ExecRead, Turn
  <2>2. /\ fifo' \in [Stage -> Nat] /\ made' \in [Stage -> Nat] /\ fails' \in 0 .. MaxFails
        /\ read' \in [Stage -> ReadState]
    <3>1. {"end", "frame", "again", "failed"} \subseteq ReadState
      BY DEF ReadState
    <3>2. \/ UNCHANGED <<fifo, read, fails, made>>
          \/ read' = [read EXCEPT ![s] = "end"] /\ UNCHANGED <<fifo, fails, made>>
          \/ /\ read' = [read EXCEPT ![s] = "frame"] /\ UNCHANGED <<fifo, fails>>
             /\ made' = [made EXCEPT ![s] = made[s] + 1]
          \/ /\ read' = [read EXCEPT ![s] = IF fifo[s] > 0 THEN "frame" ELSE "again"]
             /\ fifo' = [fifo EXCEPT ![s] = IF fifo[s] > 0 THEN fifo[s] - 1 ELSE 0]
             /\ UNCHANGED <<fails, made>>
          \/ /\ read' = [read EXCEPT ![s] = "failed"] /\ fails < MaxFails /\ fails' = fails + 1
             /\ UNCHANGED <<fifo, made>>
      BY <1>5 DEF ExecRead
    <3>3. (IF fifo[s] > 0 THEN fifo[s] - 1 ELSE 0) \in Nat /\ made[s] + 1 \in Nat
      BY <1>0
    <3>4. (IF fifo[s] > 0 THEN "frame" ELSE "again") \in ReadState
      BY <3>1
    <3>5. fifo' = fifo \/ \E n \in Nat : fifo' = [fifo EXCEPT ![s] = n]
      BY <3>2, <3>3
    <3>6. made' = made \/ \E n \in Nat : made' = [made EXCEPT ![s] = n]
      BY <3>2, <3>3
    <3>7. read' = read \/ \E r \in ReadState : read' = [read EXCEPT ![s] = r]
      BY <3>1, <3>2, <3>4
    <3>8. fails' \in 0 .. MaxFails
      BY <1>0, <3>2
    <3> QED BY <1>0, <3>5, <3>6, <3>7, <3>8
  <2>3. TypeOK'
    BY <1>0, <1>3, <2>1, <2>2, Types, TypesNext
  <2>4. Ordered'
    BY <1>0, <1>1, <1>2, <2>1 DEF Ordered
  <2>5. Cascade'
    BY <1>0, <1>4, <2>1, <2>4, QuietStep
  <2> QED BY <2>3, <2>5 DEF IInv
<1>6. CASE ExecWrite(s)
  <2>1. Head(strand[s]) = "write" /\ UNCHANGED <<setup, p, io, conn, stopped, history>>
    BY <1>6 DEF ExecWrite, Turn
  <2>2. /\ fifo' \in [Stage -> Nat] /\ fails' \in 0 .. MaxFails /\ read' \in [Stage -> ReadState]
    <3>1. "none" \in ReadState
      BY DEF ReadState
    <3>2. \/ /\ fifo' = [fifo EXCEPT ![s] = IF s \in Producer THEN fifo[s] + 1 ELSE 0]
             /\ read' = [read EXCEPT ![s] = IF read[s] = "parked" THEN "none" ELSE read[s]]
             /\ UNCHANGED fails
          \/ UNCHANGED <<fifo, read, fails>>
          \/ fails < MaxFails /\ fails' = fails + 1 /\ UNCHANGED <<fifo, read>>
      BY <1>6 DEF ExecWrite
    <3>3. (IF s \in Producer THEN fifo[s] + 1 ELSE 0) \in Nat
      BY <1>0
    <3>4. (IF read[s] = "parked" THEN "none" ELSE read[s]) \in ReadState
      BY <1>0, <3>1
    <3>5. fifo' = fifo \/ \E n \in Nat : fifo' = [fifo EXCEPT ![s] = n]
      BY <3>2, <3>3
    <3>6. read' = read \/ \E r \in ReadState : read' = [read EXCEPT ![s] = r]
      BY <3>2, <3>4
    <3>7. fails' \in 0 .. MaxFails
      BY <1>0, <3>2
    <3> QED BY <1>0, <3>5, <3>6, <3>7
  <2>3. loop' \in Seq(Event) /\ Once(loop') /\ Told(loop') = Told(loop)
    <3>1. CASE loop' = loop
      BY <1>0, <3>1
    <3>2. CASE loop' # loop
      <4>1. \E err \in BOOLEAN : loop' = Append(loop, [what |-> "error", stage |-> s, err |-> err])
        BY <1>6, <3>2 DEF ExecWrite, Report
      <4>2. PICK e \in Event : loop' = Append(loop, e) /\ e.what = "error"
        BY <4>1 DEF Event
      <4> QED BY <1>0, <4>2, ToldAppend
    <3> QED BY <3>1, <3>2
  <2>4. TypeOK'
    BY <1>0, <1>3, <2>1, <2>2, <2>3, Types, TypesNext DEF history
  <2>5. Ordered'
    BY <1>0, <1>1, <1>2, <2>1 DEF Ordered
  <2>6. Cascade'
    BY <1>0, <1>4, <2>1, <2>3, <2>5, QuietStep DEF history
  <2> QED BY <2>4, <2>6 DEF IInv
<1>7. CASE ExecClose(s)
  <2>1. /\ Head(strand[s]) = "close" /\ io' = [io EXCEPT ![s] = "closed"]
        /\ fifo' = [fifo EXCEPT ![s] = 0]
        /\ UNCHANGED <<setup, p, links, history>>
    BY <1>7 DEF ExecClose, Turn
  <2>2. PICK err \in BOOLEAN :
          /\ fails + (IF err THEN 1 ELSE 0) <= MaxFails
          /\ fails' = fails + (IF err THEN 1 ELSE 0)
          /\ loop' = Append(loop, [what |-> "closed", stage |-> s, err |-> err])
    BY <1>7 DEF ExecClose, Report
  <2>3. PICK e \in Event : loop' = Append(loop, e) /\ e.what = "closed" /\ e.stage = s
    BY <2>2 DEF Event
  <2>4. io[s] = "closing" /\ strand'[s] = <<>>
    BY <1>0, <1>1, <1>2, <2>1
  <2>5. s \notin Told(loop)
    BY <1>0, <2>4 DEF Cascade, ToldOnce
  <2>6. loop' \in Seq(Event) /\ Once(loop') /\ Told(loop') = Told(loop) \cup {s}
    BY <1>0, <2>3, <2>5, ToldAppend
  <2>7. io' \in [Stage -> IoState] /\ fifo' \in [Stage -> Nat] /\ fails' \in 0 .. MaxFails
    BY <1>0, <2>1, <2>2 DEF IoState
  <2>8. TypeOK'
    BY <1>0, <1>3, <2>1, <2>6, <2>7, Types, TypesNext DEF links, history
  <2>9. Ordered'
    <3>1. Orderly("closed", <<>>)
      BY DEF Orderly
    <3>2. \A k \in Stage : k # s => io'[k] = io[k] /\ strand'[k] = strand[k]
      BY <1>0, <1>1, <2>1
    <3>3. io'[s] = "closed"
      BY <1>0, <2>1
    <3>4. ASSUME NEW k \in Stage PROVE Orderly(io'[k], strand'[k])
      <4>1. CASE k = s
        BY <2>4, <3>1, <3>3, <4>1
      <4>2. CASE k # s
        BY <1>0, <3>2, <4>2
      <4> QED BY <4>1, <4>2
    <3> QED BY <3>4 DEF Ordered
  <2>10. ToldOnce'
    <3>1. \A k \in Told(loop) : k \in Stage
      BY <1>0, ToldBy
    <3> QED BY <1>0, <2>1, <2>6, <3>1 DEF Cascade, ToldOnce
  <2>11. p.closing /\ Live
    <3>1. p.state \in PipeState
      BY <1>0 DEF Pipe
    <3> QED BY <1>0, <2>4, <3>1 DEF Cascade, Phases, Live, PipeState
  <2>12. Phases'
    BY <1>0, <2>1, <2>11 DEF Cascade, Phases, Live, links
  <2>13. Awaits'
    <3>1. {k \in Stage : io[k] # "closed"} = {k \in Stage : io'[k] # "closed"} \cup {s}
      BY <1>0, <2>1, <2>4
    <3> QED BY <1>0, <2>1, <2>6, <2>11, <3>1 DEF Cascade, Awaits
  <2>14. Ends'
    BY <1>0, <2>1 DEF Cascade, Ends, history
  <2> QED BY <2>8, <2>9, <2>10, <2>12, <2>13, <2>14 DEF IInv, Cascade
<1> QED BY <1>5, <1>6, <1>7 DEF Exec

\* Every step keeps the invariant.
LEMMA InvStep == IInv /\ Fed /\ [Next]_vars => IInv'
<1> SUFFICES ASSUME IInv, Fed, [Next]_vars PROVE IInv'
  OBVIOUS
<1>1. CASE Next
  BY <1>1, UserStep, WatchdogStep, StageClosedStep, WriteErrorStep, PumpStep, ExecStep
  DEF Next, Handler
<1>2. CASE UNCHANGED vars
  <2>1. TypeOK'
    BY <1>2, Types, TypesNext DEF IInv, vars, stages, links, history
  <2>2. Ordered' /\ p' = p /\ io' = io /\ seen' = seen /\ loop' = loop /\ conn' = conn
    BY <1>2 DEF IInv, Cascade, Ordered, vars, stages, links, history
  <2>3. Cascade'
    BY <2>2, QuietStep DEF IInv, Cascade, ToldOnce, Phases
  <2> QED BY <2>1, <2>3 DEF IInv
<1> QED BY <1>1, <1>2

\* Nothing is written before the start.
LEMMA FedInit == Init => Fed
BY DEF Init, Fed, Writeless

\* The invariant holds in every behaviour.
LEMMA Cascades == Spec => [](IInv /\ Fed)
<1>1. IInv => TypeOK
  BY DEF IInv
<1> QED BY <1>1, InvInit, FedInit, InvStep, FedStep, PTL DEF Spec

\* TypeOK: every reachable state of a pipeline is well-typed.
THEOREM PipelineTypeCorrect == Spec => []TypeOK
<1>1. IInv => TypeOK
  BY DEF IInv
<1> QED BY <1>1, Cascades, PTL

\* AwaitedExactly: during a close _stagesAwaitingClosed is exactly the stages that
\* have not closed or whose closedSignal is still on its way, for any routes and setups.
THEOREM PipelineAwaitedExactly == Spec => []AwaitedExactly
<1>1. IInv => AwaitedExactly
  BY DEF IInv, Cascade, Awaits, AwaitedExactly, Announced, Told
<1> QED BY <1>1, Cascades, PTL

\* ClosedAfterAll: finishedSignal is emitted once, after every stage has closed with
\* an empty strand.
THEOREM PipelineClosedAfterAll == Spec => []ClosedAfterAll
<1>1. IInv => ClosedAfterAll
  <2>1. \A f, q : Orderly(f, q) /\ f = "closed" => q = <<>>
    BY DEF Orderly
  <2> QED BY <2>1 DEF IInv, Cascade, Ordered, Phases, Ends, ClosedAfterAll
<1> QED BY <1>1, Cascades, PTL

\* ErrorMeansUnclean: once an error was reported, the close that follows, or that it
\* met, finishes with clean=false.
THEOREM PipelineErrorMeansUnclean == Spec => []ErrorMeansUnclean
<1>1. IInv => ErrorMeansUnclean
  <2> SUFFICES ASSUME IInv, seen.reported, seen.finished # <<>> PROVE ~Last(seen.finished)
    BY DEF ErrorMeansUnclean
  <2>1. p.state = "Closed" /\ Len(seen.finished) = 1
    BY DEF IInv, Cascade, Ends
  <2>2. ~p.closing
    BY <2>1 DEF IInv, Cascade, Phases, Live
  <2> QED BY <2>1, <2>2 DEF IInv, Cascade, Ends, Last
<1> QED BY <1>1, Cascades, PTL

-----------------------------------------------------------------------------
(* The cascade goes source first.  A source and a sink that still takes part *)
(* in it differ by at most the frame the connection has in hand (Level), and *)
(* once the sink is being closed no frame can come any more (Fenced).  Both  *)
(* end where the watchdog or stop() intervenes.                              *)

\* A consumer k of a true source s.
Feeds(s, k) == s \in Source /\ k \in Downstream(s)

\* The frame the pump has read and not delivered yet.
InPump(s) == IF read[s] = "frame" THEN 1 ELSE 0

Level ==
    \A s, k \in Stage :
        Feeds(s, k) /\ k \notin stopped /\ k \notin AtCap(taken) => taken[k] + InPump(s) = made[s]

\* No frame comes from s any more: nothing is being read, and a read needs the
\* stage open and its connection on.
Shut(s) == read[s] = "none" /\ (io[s] # "open" \/ (conn[s] # "on" /\ p.state # "Open"))

Fenced == \A s, k \in Stage : Feeds(s, k) /\ io[k] # "open" => Shut(s)

\* Nothing is read before the start, and a stop is remembered.
Still ==
    /\ p.state \in {"Built", "Open"} => \A s \in Stage : read[s] = "none"
    /\ p.state = "Stopped" => seen.stopped

Drain == seen.forced \/ seen.stopped \/ (Level /\ Fenced)

\* Routes do not change; a stage that is fed is no source, and has one upstream.
LEMMA Routes ==
  ASSUME setup \in Setups, setup' = setup
  PROVE  /\ \A s, k \in Stage : Feeds(s, k)' <=> Feeds(s, k)
         /\ Terminal' = Terminal
         /\ \A s, k \in Stage : Feeds(s, k) => k \notin Source
         /\ \A s, k, t \in Stage : Feeds(s, k) /\ k \in Downstream(t) => s = t
<1>1. \A s, k \in Stage : Feeds(s, k)' <=> Feeds(s, k)
  BY DEF Feeds, Source, HasUpstream, Downstream
<1>2. Terminal' = Terminal
  BY DEF Terminal, Producer, Downstream
<1>3. \A s, k \in Stage : Feeds(s, k) => k \notin Source
  BY DEF Feeds, Source, HasUpstream, Downstream
<1>4. ASSUME NEW s \in Stage, NEW k \in Stage, NEW t \in Stage, Feeds(s, k), k \in Downstream(t)
      PROVE  s = t
  <2>1. <<s, k>> \in setup.routes /\ <<t, k>> \in setup.routes
    BY <1>4 DEF Feeds, Downstream
  <2>2. \A r, q \in setup.routes : r[2] = q[2] => r = q
    BY PipelineAssumption
  <2>3. <<s, k>> = <<t, k>>
    BY <2>1, <2>2
  <2> QED BY <2>3
<1> QED BY <1>1, <1>2, <1>3, <1>4

\* Steps that hand out and deliver nothing.
LEMMA LevelStays ==
  ASSUME setup \in Setups, Level, setup' = setup, stopped \subseteq stopped',
         taken' = taken, made' = made,
         \A s, k \in Stage : Feeds(s, k) => InPump(s)' = InPump(s)
  PROVE  Level'
<1>1. AtCap(taken)' = AtCap(taken)
  BY Routes DEF AtCap
<1> QED BY <1>1, Routes DEF Level

\* Steps that begin no close of a sink, unless its source is shut.
LEMMA FencedStays ==
  ASSUME setup \in Setups, Fenced, setup' = setup,
         \A s \in Stage : Shut(s) => Shut(s)',
         \A s, k \in Stage : Feeds(s, k) /\ io'[k] # "open" => io[k] # "open" \/ Shut(s)'
  PROVE  Fenced'
BY Routes DEF Fenced

\* What stays shut.
LEMMA ShutStays ==
  ASSUME NEW s, Shut(s), read'[s] = "none",
         io[s] # "open" => io'[s] # "open",
         conn[s] # "on" => conn'[s] # "on" \/ io'[s] # "open",
         p.state # "Open" => p'.state # "Open"
  PROVE  Shut(s)'
BY DEF Shut

\* CloseStages, stage by stage.
LEMMA CloseOne ==
  ASSUME NEW S, NEW posted, CloseStages(S, posted), NEW k \in Stage
  PROVE  io'[k] = IF k \in S /\ io[k] = "open" THEN "closing" ELSE io[k]
BY DEF CloseStages

\* A close that a pipeline begins by itself closes a sink only with its source,
\* before the first frame.
LEMMA Triggered ==
  ASSUME IInv, Still, ~seen.stopped, NEW s \in Stage, NEW k \in Stage, Feeds(s, k),
         NEW posted, CloseStages(Triggers, posted), io'[k] # "open", io[k] = "open"
  PROVE  p.state = "Open" /\ read[s] = "none" /\ io'[s] # "open"
<1>1. k \in Triggers
  BY CloseOne
<1>2. ~p.closing /\ p.state # "Running"
  <2>1. k \notin Source
    BY DEF Feeds, Source, HasUpstream, Downstream
  <2> QED BY <1>1, <2>1 DEF Triggers
<1>3. p.state \in PipeState
  BY Types DEF IInv, Pipe
<1>4. p.state = "Open"
  BY <1>2, <1>3 DEF IInv, Cascade, Phases, Still, PipeState
<1>5. Triggers = Stage
  BY <1>2 DEF Triggers
<1>6. io'[s] # "open"
  BY <1>5, CloseOne
<1> QED BY <1>4, <1>6 DEF Still

\* The user's calls, but for stop().
LEMMA UserDrain ==
  ASSUME IInv, IInv', Still, Level, Fenced, ~seen.stopped,
         Open \/ Start \/ Close \/ CloseBuilt
  PROVE  Level' /\ Fenced'
<1>0. /\ setup \in Setups /\ p \in Pipe /\ setup' = setup /\ stopped' = stopped /\ taken' = taken
      /\ made' = made /\ conn \in [Stage -> ConnState] /\ read \in [Stage -> ReadState]
  BY Types DEF IInv, Open, Start, Close, CloseBuilt, FinalizeClose, links, history, stages
<1>1. CASE Open
  <2>1. read' = read /\ conn' = conn /\ \A s \in Stage : io'[s] = "open"
    BY <1>1 DEF Open, links
  <2>2. Level'
    BY <1>0, <2>1, LevelStays DEF InPump
  <2>3. Fenced'
    BY <2>1 DEF Fenced
  <2> QED BY <2>2, <2>3
<1>2. CASE Start
  <2>1. read' = read /\ io' = io /\ p.state = "Open" /\ p'.state = "Running"
    BY <1>0, <1>2 DEF Start, stages, Pipe
  <2>2. Level'
    BY <1>0, <2>1, LevelStays DEF InPump
  <2>3. \A s \in Stage : Shut(s) => Shut(s)'
    BY <2>1 DEF Shut
  <2>4. Fenced'
    BY <1>0, <2>1, <2>3, FencedStays
  <2> QED BY <2>2, <2>4
<1>3. CASE Close
  <2>1. /\ read' = read /\ conn' = conn /\ CloseStages(Triggers, strand) /\ InitiateClose(TRUE)
    BY <1>3 DEF Close, links
  <2>2. p'.state = p.state
    BY <1>0, <2>1, InitiateSound
  <2>3. Level'
    BY <1>0, <2>1, LevelStays DEF InPump
  <2>4. \A s \in Stage : Shut(s) => Shut(s)'
    BY <2>1, <2>2, CloseOne DEF Shut
  <2>5. \A s, k \in Stage : Feeds(s, k) /\ io'[k] # "open" => io[k] # "open" \/ Shut(s)'
    BY <2>1, <2>2, Triggered DEF Shut
  <2>6. Fenced'
    BY <1>0, <2>4, <2>5, FencedStays
  <2> QED BY <2>3, <2>6
<1>4. CASE CloseBuilt
  <2>1. /\ p.state = "Built" /\ io' = io /\ \A s \in Stage : read'[s] = "none" /\ conn'[s] = "off"
    BY <1>4 DEF CloseBuilt, FinalizeClose, stages
  <2>2. p'.state = "Closed"
    BY <1>0, <1>4 DEF CloseBuilt, FinalizeClose, Pipe
  <2>3. \A s \in Stage : read[s] = "none"
    BY <2>1 DEF Still
  <2>4. Level'
    BY <1>0, <2>1, <2>3, LevelStays DEF InPump
  <2>5. \A s \in Stage : Shut(s)'
    BY <2>1, <2>2 DEF Shut
  <2>6. Fenced'
    BY <1>0, <2>5, FencedStays
  <2> QED BY <2>4, <2>6
<1> QED BY <1>1, <1>2, <1>3, <1>4

\* The handlers of the loop.
LEMMA HandlerDrain ==
  ASSUME IInv, IInv', Still, Level, Fenced, ~seen.stopped, Handler
  PROVE  Level' /\ Fenced'
<1>0. /\ setup \in Setups /\ p \in Pipe /\ setup' = setup /\ taken' = taken /\ made' = made
      /\ loop \in Seq(Event)
  BY Types DEF IInv, Handler, RunStageClosed, RunWriteError
<1>1. CASE RunStageClosed
  <2>1. io' = io /\ stopped' = stopped /\ loop # <<>>
    BY <1>1 DEF RunStageClosed, stages
  <2> DEFINE q == [p EXCEPT !.error = @ \/ Head(loop).err, !.awaiting = @ \ {Head(loop).stage}]
  <2>2. q.state = p.state
    BY <1>0 DEF Pipe
  <2>3. CASE AllClosed(q)
    <3>1. FinalizeClose(q)
      BY <1>1, <2>3 DEF RunStageClosed
    <3>2. \A s \in Stage : read'[s] = "none" /\ conn'[s] = "off"
      BY <3>1 DEF FinalizeClose
    <3>3. p'.state = "Closed"
      BY <1>0, <3>1 DEF FinalizeClose, Pipe
    <3>4. \A s \in Stage : io[s] = "closed"
      BY <2>1, <3>3 DEF IInv, Cascade, Phases
    <3>5. \A s, k \in Stage : Feeds(s, k) => read[s] = "none"
      BY <3>4 DEF Fenced, Shut
    <3>6. \A s, k \in Stage : Feeds(s, k) => InPump(s)' = InPump(s)
      BY <3>2, <3>5 DEF InPump
    <3>7. Level'
      BY <1>0, <2>1, <3>6, LevelStays
    <3>8. \A s \in Stage : Shut(s)'
      BY <3>2, <3>3 DEF Shut
    <3>9. Fenced'
      BY <1>0, <3>8, FencedStays
    <3> QED BY <3>7, <3>9
  <2>4. CASE ~AllClosed(q)
    <3>1. p' = q /\ read' = read /\ conn' = conn
      BY <1>1, <2>4 DEF RunStageClosed
    <3>2. p'.state = p.state
      BY <2>2, <3>1
    <3> HIDE DEF q
    <3>3. Level'
      BY <1>0, <2>1, <3>1, LevelStays DEF InPump
    <3>4. \A s \in Stage : Shut(s) => Shut(s)'
      BY <2>1, <3>1, <3>2 DEF Shut
    <3>5. Fenced'
      BY <1>0, <2>1, <3>4, FencedStays
    <3> QED BY <3>3, <3>5
  <2> QED BY <2>3, <2>4
<1>2. CASE RunWriteError
  <2>1. read' = read /\ conn' = conn
    BY <1>2 DEF RunWriteError
  <2>2. \/ InitiateClose(FALSE) /\ CloseStages(Triggers, strand) /\ stopped \subseteq stopped'
        \/ UNCHANGED <<p, io, stopped>>
    BY <1>2 DEF RunWriteError
  <2>3. p'.state = p.state
    BY <1>0, <2>2, InitiateSound
  <2>4. Level'
    BY <1>0, <2>1, <2>2, LevelStays DEF InPump
  <2>5. \A s \in Stage : Shut(s) => Shut(s)'
    BY <2>1, <2>2, <2>3, CloseOne DEF Shut
  <2>6. \A s, k \in Stage : Feeds(s, k) /\ io'[k] # "open" => io[k] # "open" \/ Shut(s)'
    BY <2>1, <2>2, <2>3, Triggered DEF Shut
  <2>7. Fenced'
    BY <1>0, <2>5, <2>6, FencedStays
  <2> QED BY <2>4, <2>7
<1> QED BY <1>1, <1>2 DEF Handler

\* A frame the pump delivers reaches every sink that goes on taking part.
LEMMA DeliverLevel ==
  ASSUME IInv, Level, NEW t \in Stage, PumpFrame(t)
  PROVE  Level'
<1> DEFINE to == {k \in Taking(t) : io[k] = "open"}
<1>1. /\ read[t] = "frame" /\ read' = [read EXCEPT ![t] = "none"]
      /\ taken' = [k \in Stage |-> IF k \in to THEN taken[k] + 1 ELSE taken[k]]
      /\ stopped' = stopped \cup (Taking(t) \ to) /\ made' = made /\ setup' = setup
  BY DEF PumpFrame
<1>2. /\ setup \in Setups /\ taken \in [Stage -> Nat] /\ made \in [Stage -> Nat]
      /\ read \in [Stage -> ReadState]
  BY Types DEF IInv
<1>3. to \subseteq Taking(t) /\ Taking(t) = Downstream(t) \ (stopped \cup AtCap(taken))
  BY DEF Taking
<1> HIDE DEF to
<1>4. \A k \in Stage : taken'[k] = IF k \in to THEN taken[k] + 1 ELSE taken[k]
  BY <1>1
<1>5. setup.cap \in Nat
  BY <1>2, PipelineAssumption
<1>6. AtCap(taken) \subseteq AtCap(taken)'
  <2>1. Terminal' = Terminal /\ Terminal \subseteq Stage
    BY <1>1, <1>2, Routes DEF Terminal
  <2>2. \A k \in Stage : taken'[k] >= taken[k]
    BY <1>2, <1>4
  <2>3. \A k \in Stage : setup.cap > 0 /\ taken[k] >= setup.cap => taken'[k] >= setup.cap
    BY <1>2, <1>4, <1>5, <2>2
  <2> QED BY <1>1, <2>1, <2>3 DEF AtCap
<1>7. ASSUME NEW s \in Stage, NEW k \in Stage, Feeds(s, k), k \notin stopped', k \notin AtCap(taken)'
      PROVE  taken'[k] + InPump(s)' = made'[s]
  <2>1. k \notin stopped /\ k \notin AtCap(taken) /\ k \notin Taking(t) \ to
    BY <1>1, <1>6, <1>7
  <2>2. taken[k] + InPump(s) = made[s]
    BY <1>7, <2>1 DEF Level
  <2>3. CASE s = t
    <3>1. k \in to
      BY <1>3, <1>7, <2>1, <2>3 DEF Feeds
    <3>2. taken'[k] = taken[k] + 1 /\ InPump(s) = 1 /\ InPump(s)' = 0
      BY <1>1, <1>2, <1>4, <2>3, <3>1 DEF InPump
    <3> QED BY <1>1, <1>2, <2>2, <3>2
  <2>4. CASE s # t
    <3>1. k \notin to
      BY <1>1, <1>2, <1>3, <1>7, <2>4, Routes
    <3>2. taken'[k] = taken[k] /\ InPump(s)' = InPump(s)
      BY <1>1, <1>4, <2>4, <3>1 DEF InPump
    <3> QED BY <1>1, <2>2, <3>2
  <2> QED BY <2>3, <2>4
<1> QED BY <1>1, <1>2, <1>7, Routes DEF Level

\* The pump of a connection.
LEMMA PumpDrain ==
  ASSUME IInv, Still, Level, Fenced, ~seen.stopped, NEW t \in Stage, Pump(t)
  PROVE  Level' /\ Fenced'
<1>0. /\ setup \in Setups /\ p \in Pipe /\ setup' = setup /\ conn[t] = "on" /\ made' = made
      /\ conn \in [Stage -> ConnState] /\ read \in [Stage -> ReadState]
      /\ io \in [Stage -> IoState]
  BY Types DEF IInv, Pump, Fetch, PumpAgain, PumpFrame, PumpEnd, PumpFailed, Pumping, history
<1>a. p.state = "Running"
  BY <1>0 DEF IInv, Cascade, Phases
<1>1. CASE Fetch(t) \/ PumpAgain(t)
  <2>1. /\ UNCHANGED <<io, conn, p, stopped, taken>>
        /\ \E r \in {"flight", "parked", "none"} : read' = [read EXCEPT ![t] = r]
        /\ read[t] # "frame"
        /\ read[t] = "none" => io[t] = "open"
    BY <1>1 DEF Fetch, PumpAgain, stages, history
  <2>2. \A s \in Stage : Shut(s) => s # t
    BY <1>0, <2>1 DEF Shut
  <2>3. \A s \in Stage : Shut(s) => Shut(s)'
    BY <1>0, <2>1, <2>2 DEF Shut
  <2>4. \A s \in Stage : InPump(s)' = InPump(s)
    BY <1>0, <2>1 DEF InPump
  <2>5. Level'
    BY <1>0, <2>1, <2>4, LevelStays
  <2>6. Fenced'
    BY <1>0, <2>1, <2>3, FencedStays
  <2> QED BY <2>5, <2>6
<1>2. CASE PumpFrame(t)
  <2>1. read[t] = "frame" /\ read' = [read EXCEPT ![t] = "none"] /\ conn' = conn
    BY <1>2 DEF PumpFrame
  <2>2. \/ InitiateClose(TRUE) /\ \E posted : CloseStages(Triggers, posted)
        \/ UNCHANGED <<p, io>>
    BY <1>2 DEF PumpFrame
  <2>3. p'.state = p.state
    BY <1>0, <2>2, InitiateSound
  <2>4. \A s \in Stage : io[s] # "open" => io'[s] # "open"
    BY <2>2, CloseOne
  <2>5. ASSUME NEW s \in Stage, Shut(s) PROVE Shut(s)'
    <3>1. s # t
      BY <2>1, <2>5 DEF Shut
    <3>2. read'[s] = "none"
      BY <1>0, <2>1, <2>5, <3>1 DEF Shut
    <3> QED BY <2>1, <2>3, <2>4, <2>5, <3>2, ShutStays
  <2>6. ASSUME NEW s \in Stage, NEW k \in Stage, Feeds(s, k), io'[k] # "open" PROVE io[k] # "open"
    <3>1. CASE UNCHANGED <<p, io>>
      BY <2>6, <3>1
    <3>2. CASE \E posted : CloseStages(Triggers, posted)
      BY <1>a, <2>6, <3>2, Triggered
    <3> QED BY <2>2, <3>1, <3>2
  <2>7. Fenced'
    BY <1>0, <2>5, <2>6, FencedStays
  <2> QED BY <1>2, <2>7, DeliverLevel
<1>3. CASE PumpEnd(t)
  <2>1. /\ conn' = [conn EXCEPT ![t] = "done"] /\ read' = [read EXCEPT ![t] = "none"]
        /\ InitiateClose(TRUE) /\ CloseStages(Triggers \cup Downstream(t), strand)
        /\ UNCHANGED <<stopped, taken>> /\ read[t] # "frame"
    BY <1>3 DEF PumpEnd, AtEnd, history
  <2>2. p'.state = p.state
    BY <1>0, <2>1, InitiateSound
  <2>3. \A s \in Stage : InPump(s)' = InPump(s)
    BY <1>0, <2>1 DEF InPump
  <2>4. Level'
    BY <1>0, <2>1, <2>3, LevelStays
  <2>5. ASSUME NEW s \in Stage, Shut(s) PROVE Shut(s)'
    <3>1. read'[s] = "none" /\ (conn[s] # "on" => conn'[s] # "on")
      BY <1>0, <2>1, <2>5 DEF Shut
    <3>2. io[s] # "open" => io'[s] # "open"
      BY <2>1, CloseOne
    <3> QED BY <2>2, <2>5, <3>1, <3>2, ShutStays
  <2>6. Shut(t)'
    BY <1>0, <1>a, <2>1, <2>2 DEF Shut
  <2>7. ASSUME NEW s \in Stage, NEW k \in Stage, Feeds(s, k), io'[k] # "open"
        PROVE  io[k] # "open" \/ Shut(s)'
    <3>1. io[k] # "open" \/ k \in Triggers \cup Downstream(t)
      BY <2>1, <2>7, CloseOne
    <3>2. k \notin Triggers
      BY <1>0, <1>a, <2>7, Routes DEF Triggers
    <3>3. k \in Downstream(t) => s = t
      BY <1>0, <2>7, Routes
    <3> QED BY <2>6, <3>1, <3>2, <3>3
  <2>8. Fenced'
    BY <1>0, <2>5, <2>7, FencedStays
  <2> QED BY <2>4, <2>8
<1>4. CASE PumpFailed(t)
  <2>1. /\ conn' = [conn EXCEPT ![t] = "off"] /\ read' = [read EXCEPT ![t] = "none"]
        /\ InitiateClose(FALSE) /\ CloseStages(Triggers, strand)
        /\ UNCHANGED <<stopped, taken>> /\ read[t] = "failed"
    BY <1>4 DEF PumpFailed
  <2>2. p'.state = p.state
    BY <1>0, <2>1, InitiateSound
  <2>3. \A s \in Stage : InPump(s)' = InPump(s)
    BY <1>0, <2>1 DEF InPump
  <2>4. Level'
    BY <1>0, <2>1, <2>3, LevelStays
  <2>5. ASSUME NEW s \in Stage, Shut(s) PROVE Shut(s)'
    <3>1. read'[s] = "none" /\ (conn[s] # "on" => conn'[s] # "on")
      BY <1>0, <2>1, <2>5 DEF Shut
    <3>2. io[s] # "open" => io'[s] # "open"
      BY <2>1, CloseOne
    <3> QED BY <2>2, <2>5, <3>1, <3>2, ShutStays
  <2>6. \A s, k \in Stage : Feeds(s, k) /\ io'[k] # "open" => io[k] # "open"
    BY <1>a, <2>1, Triggered
  <2>7. Fenced'
    BY <1>0, <2>5, <2>6, FencedStays
  <2> QED BY <2>4, <2>7
<1> QED BY <1>1, <1>2, <1>3, <1>4 DEF Pump

\* A source that makes a frame has it in the pump's hands.
LEMMA ReadDrain ==
  ASSUME IInv, Level, Fenced, NEW t \in Stage, ExecRead(t)
  PROVE  Level' /\ Fenced'
<1>0. /\ setup \in Setups /\ made \in [Stage -> Nat] /\ taken \in [Stage -> Nat]
      /\ read \in [Stage -> ReadState]
      /\ UNCHANGED <<setup, p, io, conn, stopped, taken>>
  BY Types DEF IInv, ExecRead
<1>1. CASE read[t] # "flight"
  <2>1. UNCHANGED <<read, made>>
    BY <1>1 DEF ExecRead
  <2>2. Level'
    BY <1>0, <2>1, LevelStays DEF InPump
  <2>3. \A s \in Stage : Shut(s) => Shut(s)'
    BY <1>0, <2>1 DEF Shut
  <2>4. Fenced'
    BY <1>0, <2>3, FencedStays
  <2> QED BY <2>2, <2>4
<1>2. CASE read[t] = "flight"
  <2>1. \/ /\ \E r \in {"end", "failed"} : read' = [read EXCEPT ![t] = r]
           /\ made' = made
        \/ /\ t \in Source /\ read' = [read EXCEPT ![t] = "frame"]
           /\ made' = [made EXCEPT ![t] = made[t] + 1]
        \/ /\ t \notin Source /\ \E r \in {"frame", "again"} : read' = [read EXCEPT ![t] = r]
           /\ made' = made
    BY <1>2 DEF ExecRead
  <2>2. \A s \in Stage : Shut(s) => Shut(s)'
    <3> SUFFICES ASSUME NEW s \in Stage, Shut(s) PROVE Shut(s)'
      OBVIOUS
    <3>1. s # t
      BY <1>2 DEF Shut
    <3>2. read'[s] = "none"
      BY <1>0, <2>1, <3>1 DEF Shut
    <3> QED BY <1>0, <3>2, ShutStays
  <2>3. Fenced'
    BY <1>0, <2>2, FencedStays
  <2>4. AtCap(taken)' = AtCap(taken)
    BY <1>0, Routes DEF AtCap
  <2>5. \A s \in Source : InPump(s)' - made'[s] = InPump(s) - made[s] /\ made'[s] \in Nat
    <3> SUFFICES ASSUME NEW s \in Source
                 PROVE  InPump(s)' - made'[s] = InPump(s) - made[s] /\ made'[s] \in Nat
      OBVIOUS
    <3>1. s \in Stage
      BY DEF Source
    <3>2. CASE s # t
      BY <1>0, <2>1, <3>1, <3>2 DEF InPump
    <3>3. CASE s = t
      BY <1>0, <1>2, <2>1, <3>1, <3>3 DEF InPump
    <3> QED BY <3>2, <3>3
  <2>6. \A s \in Source : InPump(s) \in {0, 1} /\ InPump(s)' \in {0, 1}
    BY DEF InPump
  <2>7. ASSUME NEW s \in Stage, NEW k \in Stage, Feeds(s, k), k \notin stopped, k \notin AtCap(taken)
        PROVE  taken'[k] + InPump(s)' = made'[s]
    <3>1. taken[k] + InPump(s) = made[s] /\ s \in Source
      BY <2>7 DEF Level, Feeds
    <3>2. taken[k] \in Nat /\ made[s] \in Nat /\ taken'[k] = taken[k]
      BY <1>0
    <3> QED BY <2>5, <2>6, <3>1, <3>2
  <2>8. Level'
    BY <1>0, <2>4, <2>7, Routes DEF Level
  <2> QED BY <2>3, <2>8
<1> QED BY <1>1, <1>2

\* The strands.
LEMMA ExecDrain ==
  ASSUME IInv, Level, Fenced, NEW t \in Stage, Exec(t)
  PROVE  Level' /\ Fenced'
<1>1. CASE ExecWrite(t)
  <2>1. /\ setup \in Setups /\ read \in [Stage -> ReadState]
        /\ UNCHANGED <<setup, p, io, conn, stopped, taken, made>>
        /\ read' = read \/ read' = [read EXCEPT ![t] = IF read[t] = "parked" THEN "none" ELSE read[t]]
    BY <1>1, Types DEF IInv, ExecWrite, history
  <2>2. \A s \in Stage : /\ read'[s] = "frame" <=> read[s] = "frame"
                         /\ read[s] = "none" => read'[s] = "none"
    BY <2>1
  <2>3. Level'
    BY <2>1, <2>2, LevelStays DEF InPump, Feeds
  <2>4. \A s \in Stage : Shut(s) => Shut(s)'
    BY <2>1, <2>2 DEF Shut
  <2>5. Fenced'
    BY <2>1, <2>4, FencedStays
  <2> QED BY <2>3, <2>5
<1>2. CASE ExecClose(t)
  <2>1. /\ setup \in Setups /\ io \in [Stage -> IoState]
        /\ UNCHANGED <<setup, p, read, conn, stopped, taken, made>>
        /\ io' = [io EXCEPT ![t] = "closed"] /\ strand[t] # <<>> /\ Head(strand[t]) = "close"
    BY <1>2, Types DEF IInv, ExecClose, links, history, Turn
  <2>2. io[t] = "closing"
    <3>1. strand[t] \in Seq(Command) /\ io[t] \in IoState /\ Orderly(io[t], strand[t])
      BY Types DEF IInv, Cascade, Ordered
    <3> QED BY <2>1, <3>1, OrderlyTail
  <2>3. Level'
    BY <2>1, LevelStays DEF InPump
  <2>4. \A s \in Stage : io'[s] # "open" <=> io[s] # "open"
    BY <2>1, <2>2
  <2>5. \A s \in Stage : Shut(s) => Shut(s)'
    BY <2>1, <2>4 DEF Shut
  <2>6. Fenced'
    BY <2>1, <2>4, <2>5, FencedStays
  <2> QED BY <2>3, <2>6
<1> QED BY <1>1, <1>2, ReadDrain DEF Exec

\* stop() and the watchdog are remembered.
LEMMA SeenStays ==
  ASSUME IInv, [Next]_vars
  PROVE  /\ seen.forced => seen'.forced
         /\ seen.stopped => seen'.stopped
         /\ Stop => seen'.stopped
         /\ ForceCloseRemaining => seen'.forced
<1>1. seen \in Seen
  BY Types DEF IInv
<1>2. Stop => seen' = [seen EXCEPT !.stopped = TRUE]
  BY DEF Stop
<1>3. ForceCloseRemaining => seen' = [seen EXCEPT !.forced = TRUE]
  BY DEF ForceCloseRemaining
<1>4. \/ seen' = seen \/ Stop \/ ForceCloseRemaining
      \/ \E r : seen' = [seen EXCEPT !.reported = r] \/ seen' = [seen EXCEPT !.finished = r]
  <2>1. CASE User
    BY <2>1 DEF User, Open, Start, Close, CloseBuilt, FinalizeClose, history
  <2>2. CASE Handler
    BY <2>2 DEF Handler, RunStageClosed, RunWriteError, FinalizeClose
  <2>3. ASSUME NEW s \in Stage, Pump(s)
        PROVE  seen' = seen \/ \E r : seen' = [seen EXCEPT !.reported = r]
    BY <2>3 DEF Pump, Fetch, PumpAgain, PumpFrame, PumpEnd, PumpFailed, history
  <2>4. ASSUME NEW s \in Stage, Exec(s) PROVE seen' = seen
    BY <2>4 DEF Exec, ExecRead, ExecWrite, ExecClose, history
  <2>5. UNCHANGED vars => seen' = seen
    BY DEF vars, history
  <2> QED BY <2>1, <2>2, <2>3, <2>4, <2>5 DEF Next
<1> QED BY <1>1, <1>2, <1>3, <1>4 DEF Seen

\* Nothing is read before the start.
LEMMA StillStep == ASSUME IInv, IInv', Still, [Next]_vars PROVE Still'
<1>0. p \in Pipe /\ read \in [Stage -> ReadState] /\ conn \in [Stage -> ConnState]
  BY Types DEF IInv
<1>1. CASE User
  <2>1. CASE Open
    <3>1. read' = read /\ p.state = "Built" /\ p'.state = "Open"
      BY <1>0, <2>1 DEF Open, links, Pipe
    <3> QED BY <3>1 DEF Still
  <2>2. CASE Start
    <3>1. p'.state = "Running"
      BY <1>0, <2>2 DEF Start, Pipe
    <3> QED BY <3>1 DEF Still
  <2>3. CASE Stop
    <3>1. p'.state = "Stopped"
      BY <1>0, <2>3 DEF Stop, Pipe
    <3> QED BY <2>3, <3>1, SeenStays DEF Still
  <2>4. CASE Close
    <3>1. read' = read /\ seen' = seen /\ InitiateClose(TRUE) /\ setup \in Setups
      BY <2>4, Types DEF IInv, Close, links, history
    <3>2. p'.state = p.state
      BY <1>0, <3>1, InitiateSound
    <3> QED BY <3>1, <3>2 DEF Still
  <2>5. CASE CloseBuilt
    <3>1. p'.state = "Closed"
      BY <1>0, <2>5 DEF CloseBuilt, FinalizeClose, Pipe
    <3> QED BY <3>1 DEF Still
  <2> QED BY <1>1, <2>1, <2>2, <2>3, <2>4, <2>5 DEF User
<1>2. CASE ForceCloseRemaining
  <2>1. p'.state = p.state /\ read' = read
    BY <1>0, <1>2 DEF ForceCloseRemaining, links, Pipe
  <2> QED BY <1>2, <2>1, SeenStays DEF Still
<1>3. CASE RunStageClosed
  <2> DEFINE q == [p EXCEPT !.error = @ \/ Head(loop).err, !.awaiting = @ \ {Head(loop).stage}]
  <2>1. q.state = p.state
    BY <1>0 DEF Pipe
  <2>2. CASE FinalizeClose(q)
    <3>1. p'.state = "Closed"
      BY <1>0, <2>2 DEF FinalizeClose, Pipe
    <3> QED BY <3>1 DEF Still
  <2>3. CASE p' = q /\ UNCHANGED <<conn, read, seen>>
    <3>1. p'.state = p.state
      BY <2>1, <2>3
    <3> QED BY <2>3, <3>1 DEF Still
  <2> QED BY <1>3, <2>2, <2>3 DEF RunStageClosed
<1>4. CASE RunWriteError
  <2>1. read' = read /\ (p' = p \/ InitiateClose(FALSE)) /\ setup \in Setups
    BY <1>4, Types DEF IInv, RunWriteError
  <2>2. p'.state = p.state
    BY <1>0, <2>1, InitiateSound
  <2> QED BY <1>4, <2>1, <2>2, SeenStays DEF Still, Next, Handler
<1>5. ASSUME NEW s \in Stage, Pump(s) PROVE Still'
  <2>1. conn[s] = "on" /\ (p' = p \/ InitiateClose(FALSE) \/ InitiateClose(TRUE)) /\ setup \in Setups
    BY <1>5, Types DEF IInv, Pump, Fetch, PumpAgain, PumpFrame, PumpEnd, PumpFailed, Pumping
  <2>2. p.state = "Running"
    BY <2>1 DEF IInv, Cascade, Phases
  <2>3. p'.state = "Running"
    BY <1>0, <2>1, <2>2, InitiateSound
  <2> QED BY <2>3 DEF Still
<1>6. ASSUME NEW s \in Stage, Exec(s) PROVE Still'
  <2>1. p' = p /\ seen' = seen
    BY <1>6 DEF Exec, ExecRead, ExecWrite, ExecClose, history
  <2>2. \A k \in Stage : read[k] = "none" => read'[k] = "none"
    <3>1. CASE ExecRead(s)
      <4>1. read' = read \/ (read[s] = "flight" /\ \E r \in ReadState : read' = [read EXCEPT ![s] = r])
        BY <3>1 DEF ExecRead, ReadState
      <4> QED BY <1>0, <4>1
    <3>2. CASE ExecWrite(s)
      <4>1. read' = read \/ read' = [read EXCEPT ![s] = IF read[s] = "parked" THEN "none" ELSE read[s]]
        BY <3>2 DEF ExecWrite
      <4> QED BY <1>0, <4>1
    <3>3. CASE ExecClose(s)
      BY <3>3 DEF ExecClose, links
    <3> QED BY <1>6, <3>1, <3>2, <3>3 DEF Exec
  <2> QED BY <2>1, <2>2 DEF Still
<1>7. CASE UNCHANGED vars
  BY <1>7 DEF Still, vars, links, history
<1> QED BY <1>1, <1>2, <1>3, <1>4, <1>5, <1>6, <1>7 DEF Next, Handler

\* Every step keeps sources and sinks level, and a closing sink fenced.
LEMMA DrainStep == ASSUME IInv, IInv', Still, Drain, [Next]_vars PROVE Drain'
<1>1. CASE seen.forced \/ seen.stopped \/ Stop \/ ForceCloseRemaining
  BY <1>1, SeenStays DEF Drain
<1>2. CASE ~seen.forced /\ ~seen.stopped /\ ~Stop /\ ~ForceCloseRemaining
  <2>1. Level /\ Fenced
    BY <1>2 DEF Drain
  <2>2. CASE User
    BY <1>2, <2>1, <2>2, UserDrain DEF User, Drain
  <2>3. CASE Handler
    BY <1>2, <2>1, <2>3, HandlerDrain DEF Drain
  <2>4. ASSUME NEW s \in Stage, Pump(s) \/ Exec(s) PROVE Drain'
    BY <1>2, <2>1, <2>4, PumpDrain, ExecDrain DEF Drain
  <2>5. CASE UNCHANGED vars
    <3>1. UNCHANGED <<setup, p, io, conn, read, stopped, made, taken>> /\ setup \in Setups
      BY <2>5, Types DEF IInv, vars, stages, links, history
    <3>2. \A s \in Stage : Shut(s) => Shut(s)'
      BY <3>1 DEF Shut
    <3>3. Level' /\ Fenced'
      BY <2>1, <3>1, <3>2, LevelStays, FencedStays DEF InPump
    <3> QED BY <3>3 DEF Drain
  <2> QED BY <1>2, <2>2, <2>3, <2>4, <2>5 DEF Next
<1> QED BY <1>1, <1>2

\* No frame is made or read yet, and everything is closed.
LEMMA DrainInit == Init => Still /\ Drain
<1> SUFFICES ASSUME Init PROVE Still /\ Drain
  OBVIOUS
<1>1. \A s \in Stage : /\ made[s] = 0 /\ taken[s] = 0 /\ read[s] = "none" /\ io[s] = "closed"
                       /\ p.state = "Built"
  BY DEF Init
<1>2. Level /\ Fenced
  BY <1>1 DEF Level, Fenced, InPump, Shut
<1>3. p.state = "Built"
  BY DEF Init
<1> QED BY <1>1, <1>2, <1>3 DEF Still, Drain

\* SourceDrained: unless the watchdog or stop() intervened, a sink that still takes
\* part is closed only after it was given every frame its source made, whatever
\* fails and whoever closes first (mediapipeline.cpp initiateClose).
THEOREM PipelineSourceDrained == Spec => []SourceDrained
<1>1. TypeOK /\ Drain => SourceDrained
  <2> SUFFICES ASSUME TypeOK, Drain, NEW s \in Source, NEW k \in Taking(s),
                      io[k] # "open", ~seen.forced, ~seen.stopped
               PROVE  taken[k] = made[s]
    BY DEF SourceDrained
  <2>1. /\ s \in Stage /\ k \in Stage /\ Feeds(s, k) /\ k \notin stopped /\ k \notin AtCap(taken)
    BY DEF Source, Taking, Downstream, Feeds
  <2>2. taken[k] + InPump(s) = made[s] /\ read[s] = "none"
    BY <2>1 DEF Drain, Level, Fenced, Shut
  <2>3. taken[k] \in Nat
    BY <2>1, Types
  <2> QED BY <2>2, <2>3 DEF InPump
<1>2. IInv => TypeOK
  BY DEF IInv
<1>3. IInv /\ IInv' /\ Still /\ Drain /\ [Next]_vars => Still' /\ Drain'
  BY StillStep, DrainStep
<1> QED BY <1>1, <1>2, <1>3, DrainInit, Cascades, PTL DEF Spec
=============================================================================
