------------------------- MODULE MediaIOSourceProofs -------------------------
(***************************************************************************)
(* What holds of MediaIOSource for any number of sources, any prefetch      *)
(* depths, streams and casts.                                               *)
(*                                                                         *)
(* Base is what all the rest needs: types, and a process that works on a    *)
(* command has one.  Commands are never forgotten and never change kind,    *)
(* and a completed one stays completed (Widened).                           *)
(***************************************************************************)
EXTENDS MediaIOSource, SequenceTheorems, FiniteSetTheorems, TLAPS

-----------------------------------------------------------------------------
(* Sequences.                                                               *)

\* A sequence over some elements is one over more of them.
LEMMA SeqWiden ==
  ASSUME NEW S, NEW T, S \subseteq T
  PROVE  Seq(S) \subseteq Seq(T)
OBVIOUS

\* What is left of a sequence when its head is taken.
LEMMA TailFacts ==
  ASSUME NEW S, NEW q \in Seq(S), q # <<>>
  PROVE  /\ Head(q) \in S /\ Head(q) = q[1] /\ 1 \in DOMAIN q
         /\ Tail(q) \in Seq(S) /\ Len(Tail(q)) = Len(q) - 1 /\ Len(q) > 0
         /\ DOMAIN q = 1..Len(q) /\ DOMAIN Tail(q) = 1..(Len(q) - 1)
         /\ \A i \in 1..(Len(q) - 1) : Tail(q)[i] = q[i + 1]
<1>1. Len(q) > 0 /\ Len(q) \in Nat
  BY EmptySeq
<1> QED BY <1>1

\* What a sequence is when an element was appended.
LEMMA AppendFacts ==
  ASSUME NEW S, NEW q \in Seq(S), NEW x \in S
  PROVE  /\ Append(q, x) \in Seq(S) /\ Len(Append(q, x)) = Len(q) + 1
         /\ Len(q) \in Nat
         /\ DOMAIN q = 1..Len(q) /\ DOMAIN Append(q, x) = 1..(Len(q) + 1)
         /\ \A i \in 1..Len(q) : Append(q, x)[i] = q[i]
         /\ Append(q, x)[Len(q) + 1] = x /\ Append(q, x) # <<>>
OBVIOUS

\* Appending leaves the head.
LEMMA AppendHead ==
  ASSUME NEW S, NEW q \in Seq(S), NEW x \in S, q # <<>>
  PROVE  Append(q, x) # <<>> /\ Head(Append(q, x)) = Head(q)
<1>1. Len(q) > 0 /\ Len(q) \in Nat /\ Head(q) = q[1]
  BY TailFacts
<1>2. /\ Append(q, x) \in Seq(S) /\ Append(q, x) # <<>>
      /\ \A i \in 1..Len(q) : Append(q, x)[i] = q[i]
  BY AppendFacts
<1>3. Head(Append(q, x)) = Append(q, x)[1]
  BY <1>2, TailFacts
<1> QED BY <1>1, <1>2, <1>3

\* A function over 1..n is a sequence of length n.
LEMMA MapFacts ==
  ASSUME NEW S, NEW n \in Nat, NEW f \in [1..n -> S]
  PROVE  f \in Seq(S) /\ Len(f) = n /\ DOMAIN f = 1..n
OBVIOUS

-----------------------------------------------------------------------------
(* Types, with a count that may be any integer for now.                     *)

Types ==
    /\ open \in BOOLEAN /\ closing \in BOOLEAN
    /\ atEnd \in BOOLEAN /\ pending \in Int
    /\ depth \in [Source -> Depths]
    /\ armed \in [Source -> BOOLEAN]
    /\ cmds \in Seq(Command)
    /\ queue \in [Source -> Seq(DOMAIN cmds)]
    /\ strand \in Seq(DOMAIN cmds)
    /\ pos \in 0..Last /\ live \in BOOLEAN
    /\ pc \in [Source -> PC]
    /\ req \in [Source -> {0} \cup DOMAIN cmds]
    /\ room \in [Source -> Nat]
    /\ job \in [Proc -> Seq(DOMAIN cmds)]
    /\ step \in [Proc -> Step]
    /\ todo \in [Proc -> Seq(Source)]
    /\ cast \in Casts
    /\ \A s \in Source : calls[s] \in 0..MaxCalls[s]
    /\ calls \in [Source -> Nat]
    /\ seekId \in [Source -> {0} \cup DOMAIN cmds]
    /\ stored \in [Source -> {0} \cup DOMAIN cmds] /\ posted \in [Source -> Nat]

\* A process is somewhere in completeCommand exactly while it has commands to
\* complete, and has ports left where it goes through them.
Busy ==
    \A p \in Proc : /\ step[p] = "none" <=> job[p] = <<>>
                    /\ step[p] \in {"drop", "notify", "eos"} => todo[p] # <<>>

Base == Types /\ Busy

\* No command is forgotten, changes kind or becomes uncompleted.
Widened ==
    /\ cmds' \in Seq(Command)
    /\ Len(cmds) \in Nat /\ Len(cmds') \in Nat /\ Len(cmds) <= Len(cmds')
    /\ DOMAIN cmds = 1..Len(cmds) /\ DOMAIN cmds' = 1..Len(cmds')
    /\ DOMAIN cmds \subseteq DOMAIN cmds'
    /\ Seq(DOMAIN cmds) \subseteq Seq(DOMAIN cmds')
    /\ \A c \in DOMAIN cmds : /\ cmds'[c].kind = cmds[c].kind
                              /\ cmds[c].completed => cmds'[c].completed

\* The commands that are left as they were.
LEMMA SameWide ==
  ASSUME Types, UNCHANGED cmds
  PROVE  Widened
BY DEF Types, Widened

\* A submitted command is the last one, and at the back of the strand.
LEMMA PostWide ==
  ASSUME Types, NEW k \in {"read", "seek", "close"}, Post(k)
  PROVE  /\ Widened
         /\ strand' = Append(strand, Len(cmds) + 1) /\ strand' \in Seq(DOMAIN cmds')
         /\ Len(cmds') = Len(cmds) + 1
         /\ cmds'[Len(cmds) + 1] = NewCommand(k)
         /\ \A c \in DOMAIN cmds : cmds'[c] = cmds[c]
<1>1. NewCommand(k) \in Command
  BY DEF NewCommand, Command, Result
<1>2. /\ cmds' \in Seq(Command) /\ Len(cmds') = Len(cmds) + 1 /\ Len(cmds) \in Nat
      /\ DOMAIN cmds = 1..Len(cmds) /\ DOMAIN cmds' = 1..(Len(cmds) + 1)
      /\ \A c \in 1..Len(cmds) : cmds'[c] = cmds[c]
      /\ cmds'[Len(cmds) + 1] = NewCommand(k)
  BY <1>1, AppendFacts DEF Types, Post
<1>3. Seq(DOMAIN cmds) \subseteq Seq(DOMAIN cmds')
  BY <1>2, SeqWiden
<1>4. strand' \in Seq(DOMAIN cmds')
  <2>1. strand \in Seq(DOMAIN cmds') /\ Len(cmds) + 1 \in DOMAIN cmds'
    BY <1>2, <1>3 DEF Types
  <2> QED BY <2>1, AppendFacts DEF Post
<1> QED BY <1>2, <1>3, <1>4 DEF Widened, Post

\* One command is written over.
LEMMA UpdateWide ==
  ASSUME Types, NEW c \in DOMAIN cmds, NEW x \in Command,
         x.kind = cmds[c].kind, cmds[c].completed => x.completed,
         cmds' = [cmds EXCEPT ![c] = x]
  PROVE  /\ Widened /\ DOMAIN cmds' = DOMAIN cmds /\ cmds'[c] = x
         /\ \A d \in DOMAIN cmds : d # c => cmds'[d] = cmds[d]
<1>1. DOMAIN cmds = 1..Len(cmds) /\ Len(cmds) \in Nat /\ cmds \in [1..Len(cmds) -> Command]
  BY DEF Types
<1>2. cmds' \in [1..Len(cmds) -> Command]
  BY <1>1
<1>3. cmds' \in Seq(Command) /\ Len(cmds') = Len(cmds) /\ DOMAIN cmds' = 1..Len(cmds)
  BY <1>1, <1>2, MapFacts
<1> QED BY <1>1, <1>3 DEF Widened

\* A result is entered into one command.
LEMMA ResultWide ==
  ASSUME Types, NEW c \in DOMAIN cmds, NEW r \in Result,
         cmds' = [cmds EXCEPT ![c].result = r]
  PROVE  /\ Widened /\ DOMAIN cmds' = DOMAIN cmds /\ cmds'[c] = [cmds[c] EXCEPT !.result = r]
         /\ \A d \in DOMAIN cmds : cmds'[d].completed = cmds[d].completed
<1>1. cmds[c] \in Command
  BY DEF Types
<1> DEFINE x == [cmds[c] EXCEPT !.result = r]
<1>2. x \in Command /\ x.kind = cmds[c].kind /\ x.completed = cmds[c].completed
  BY <1>1 DEF Command
<1>3. cmds' = [cmds EXCEPT ![c] = x]
  OBVIOUS
<1> HIDE DEF x
<1>4. /\ Widened /\ DOMAIN cmds' = DOMAIN cmds /\ cmds'[c] = x
      /\ \A d \in DOMAIN cmds : d # c => cmds'[d] = cmds[d]
  BY <1>2, <1>3, UpdateWide
<1> QED BY <1>2, <1>4 DEF x

\* A cache is emptied, and its commands flagged.
LEMMA CancelAllWide ==
  ASSUME Types, NEW s \in Source, CancelAll(s)
  PROVE  /\ Widened /\ DOMAIN cmds' = DOMAIN cmds
         /\ queue' = [queue EXCEPT ![s] = <<>>] /\ queue' \in [Source -> Seq(DOMAIN cmds')]
         /\ armed' = [armed EXCEPT ![s] = FALSE]
         /\ ~Locked(s) /\ UNCHANGED depth
         /\ \A c \in DOMAIN cmds : /\ cmds'[c].completed = cmds[c].completed
                                   /\ cmds'[c].result = cmds[c].result
<1>1. DOMAIN cmds = 1..Len(cmds) /\ Len(cmds) \in Nat /\ \A c \in DOMAIN cmds : cmds[c] \in Command
  BY DEF Types
<1>2. \A c \in DOMAIN cmds : [cmds[c] EXCEPT !.cancelled = TRUE] \in Command
  BY <1>1 DEF Command
<1>3. cmds' \in [1..Len(cmds) -> Command]
  BY <1>1, <1>2 DEF CancelAll
<1>4. cmds' \in Seq(Command) /\ Len(cmds') = Len(cmds) /\ DOMAIN cmds' = 1..Len(cmds)
  BY <1>1, <1>3, MapFacts
<1>5. \A c \in DOMAIN cmds : /\ cmds'[c].completed = cmds[c].completed
                             /\ cmds'[c].kind = cmds[c].kind
                             /\ cmds'[c].result = cmds[c].result
  <2> TAKE c \in DOMAIN cmds
  <2>1. cmds'[c] = cmds[c] \/ cmds'[c] = [cmds[c] EXCEPT !.cancelled = TRUE]
    BY DEF CancelAll
  <2> QED BY <1>1, <2>1 DEF Command
<1>6. queue' = [queue EXCEPT ![s] = <<>>]
  BY DEF CancelAll, Emptied
<1>7. queue' \in [Source -> Seq(DOMAIN cmds')]
  BY <1>1, <1>4, <1>6 DEF Types
<1> QED BY <1>1, <1>4, <1>5, <1>6, <1>7 DEF Widened, CancelAll

\* A close's end-of-stream command comes last, completed, and joins a cache.
LEMMA EosWide ==
  ASSUME Types, NEW p \in Proc, PushEos(p), NextPort(p) \in Source
  PROVE  /\ Widened /\ Len(cmds') = Len(cmds) + 1
         /\ cmds'[Len(cmds) + 1].kind = "eos" /\ cmds'[Len(cmds) + 1].completed
         /\ \A c \in DOMAIN cmds : cmds'[c] = cmds[c]
         /\ queue' = [queue EXCEPT ![NextPort(p)] = Append(queue[NextPort(p)], Len(cmds) + 1)]
         /\ queue' \in [Source -> Seq(DOMAIN cmds')]
         /\ armed' = [armed EXCEPT ![NextPort(p)] =
                         CheckArmed(@, queue'[NextPort(p)], cmds')]
         /\ armed' \in [Source -> BOOLEAN]
         /\ ~Locked(NextPort(p)) /\ step[p] = "eos"
<1> DEFINE e == [kind |-> "eos", cancelled |-> FALSE, completed |-> TRUE, result |-> "eof"]
           s == NextPort(p)
<1>2. e \in Command /\ e.kind = "eos" /\ e.completed
  BY DEF Command, Result
<1>3. cmds' = Append(cmds, e)
  BY DEF PushEos
<1>4. /\ queue' = [queue EXCEPT ![s] = Enqueued(queue[s], Len(cmds'))]
      /\ armed' = [armed EXCEPT ![s] = CheckArmed(@, Enqueued(queue[s], Len(cmds')), cmds')]
      /\ ~Locked(s) /\ step[p] = "eos"
  BY <1>3 DEF PushEos
<1> HIDE DEF e
<1>5. /\ cmds' \in Seq(Command) /\ Len(cmds') = Len(cmds) + 1 /\ Len(cmds) \in Nat
      /\ DOMAIN cmds = 1..Len(cmds) /\ DOMAIN cmds' = 1..(Len(cmds) + 1)
      /\ \A c \in 1..Len(cmds) : cmds'[c] = cmds[c]
      /\ cmds'[Len(cmds) + 1] = e
  BY <1>2, <1>3, AppendFacts DEF Types
<1>6. Seq(DOMAIN cmds) \subseteq Seq(DOMAIN cmds')
  BY <1>5, SeqWiden
<1>7. queue' = [queue EXCEPT ![s] = Append(queue[s], Len(cmds) + 1)]
  BY <1>4, <1>5 DEF Enqueued
<1>8. \A r \in Source : queue[r] \in Seq(DOMAIN cmds')
  BY <1>6 DEF Types
<1>9. Append(queue[s], Len(cmds) + 1) \in Seq(DOMAIN cmds')
  <2>1. queue[s] \in Seq(DOMAIN cmds') /\ Len(cmds) + 1 \in DOMAIN cmds'
    BY <1>5, <1>8
  <2> QED BY <2>1, AppendFacts
<1>10. queue' \in [Source -> Seq(DOMAIN cmds')]
  BY <1>7, <1>8, <1>9 DEF Types
<1>11. queue'[s] = Enqueued(queue[s], Len(cmds'))
  BY <1>4 DEF Types
<1>12. armed' = [armed EXCEPT ![s] = CheckArmed(@, queue'[s], cmds')]
  BY <1>4, <1>11
<1>13. armed' \in [Source -> BOOLEAN]
  BY <1>12 DEF Types, CheckArmed
<1>14. Widened
  BY <1>5, <1>6 DEF Widened
<1> QED BY <1>2, <1>4, <1>5, <1>7, <1>10, <1>12, <1>13, <1>14

\* What the processes in completeCommand are working on.
LEMMA BusyFacts ==
  ASSUME Base, NEW p \in Proc, step[p] # "none"
  PROVE  /\ job[p] # <<>> /\ Current(p) \in DOMAIN cmds /\ Current(p) = job[p][1]
         /\ Tail(job[p]) \in Seq(DOMAIN cmds)
         /\ step[p] \in {"drop", "notify", "eos"} =>
               NextPort(p) \in Source /\ Tail(todo[p]) \in Seq(Source)
<1>1. job[p] # <<>> /\ job[p] \in Seq(DOMAIN cmds) /\ todo[p] \in Seq(Source)
  BY DEF Base, Types, Busy
<1>2. step[p] \in {"drop", "notify", "eos"} => todo[p] # <<>>
  BY DEF Base, Busy
<1> QED BY <1>1, <1>2, TailFacts DEF Current, NextPort

\* Steps of a call that submit nothing and leave the caches' contents alone.
Local(s) ==
    \/ ReadFrame(s) \/ Gate(s) \/ Cold(s) \/ TopUp(s) \/ Receive(s) \/ Then(s)
    \/ RunContinuation(s) \/ SetDepth(s) \/ Close(s) \/ Seek(s) \/ SetRate(s)
    \/ CancelPending(s)

\* Those that submit a command.
Submit(s) == ColdPost(s) \/ TopUpPost(s) \/ ClosePost(s) \/ SeekPost(s)

\* The steps of the specification by kind.
LEMMA Steps ==
  ASSUME Next
  PROVE  \/ \E s \in Source : \/ Local(s) \/ Submit(s) \/ Vend(s) \/ CancelWork(s)
                              \/ DropCaches(s) \/ RateReturn(s) \/ CancelPendingDrop(s)
         \/ Dispatch \/ Execute
         \/ \E p \in Proc : CompleteCommand(p)
BY DEF Next, Continue, Request, Strand, Local, Submit, Proc

\* A new MediaIO is well-typed and nobody is busy.
LEMMA BaseInit == Init => Base
<1> SUFFICES ASSUME Init PROVE Base
  OBVIOUS
<1>1. Types
  <2>1. /\ open \in BOOLEAN /\ closing \in BOOLEAN /\ atEnd \in BOOLEAN
        /\ live \in BOOLEAN /\ armed \in [Source -> BOOLEAN]
    BY Zenon DEF Init
  <2>6. pending \in Int
    BY DEF Init
  <2>5. /\ depth \in [Source -> Depths] /\ pos \in 0..Last /\ cast \in Casts
        /\ pc \in [Source -> PC] /\ step \in [Proc -> Step]
    BY SourceAssumption DEF Init, PC, Step
  <2>2. /\ cmds \in Seq(Command) /\ strand \in Seq(DOMAIN cmds)
        /\ queue \in [Source -> Seq(DOMAIN cmds)] /\ job \in [Proc -> Seq(DOMAIN cmds)]
        /\ todo \in [Proc -> Seq(Source)]
    BY DEF Init
  <2>3. /\ req \in [Source -> {0} \cup DOMAIN cmds] /\ room \in [Source -> Nat]
        /\ seekId \in [Source -> {0} \cup DOMAIN cmds]
        /\ stored \in [Source -> {0} \cup DOMAIN cmds] /\ posted \in [Source -> Nat]
        /\ calls \in [Source -> Nat]
    BY DEF Init
  <2>4. \A s \in Source : calls[s] \in 0..MaxCalls[s]
    BY SourceAssumption DEF Init
  <2> QED BY <2>1, <2>2, <2>3, <2>4, <2>5, <2>6 DEF Types
<1>2. Busy
  BY DEF Init, Busy
<1> QED BY <1>1, <1>2 DEF Base

\* What holds commands goes on holding commands.
LEMMA WideKeeps ==
  ASSUME Types, Widened
  PROVE  /\ queue \in [Source -> Seq(DOMAIN cmds')] /\ strand \in Seq(DOMAIN cmds')
         /\ job \in [Proc -> Seq(DOMAIN cmds')] /\ req \in [Source -> {0} \cup DOMAIN cmds']
         /\ seekId \in [Source -> {0} \cup DOMAIN cmds']
         /\ stored \in [Source -> {0} \cup DOMAIN cmds']
<1>1. Seq(DOMAIN cmds) \subseteq Seq(DOMAIN cmds') /\ DOMAIN cmds \subseteq DOMAIN cmds'
  BY DEF Widened
<1>2. /\ queue \in [Source -> Seq(DOMAIN cmds)] /\ strand \in Seq(DOMAIN cmds)
      /\ job \in [Proc -> Seq(DOMAIN cmds)] /\ req \in [Source -> {0} \cup DOMAIN cmds]
      /\ seekId \in [Source -> {0} \cup DOMAIN cmds]
      /\ stored \in [Source -> {0} \cup DOMAIN cmds]
  BY DEF Types
<1> QED BY <1>1, <1>2

\* A call is counted, and stays within the bound.
LEMMA CallTypes ==
  ASSUME Types, NEW s \in Source, NEW op, Call(s, op)
  PROVE  /\ calls' \in [Source -> Nat] /\ \A r \in Source : calls'[r] \in 0..MaxCalls[r]
<1>1. calls \in [Source -> Nat] /\ \A r \in Source : calls[r] \in 0..MaxCalls[r]
  BY DEF Types
<1>2. calls' = [calls EXCEPT ![s] = @ + 1] /\ calls[s] < MaxCalls[s] /\ MaxCalls[s] \in Nat
  BY SourceAssumption DEF Call
<1> QED BY <1>1, <1>2

\* Steps of a call that submit nothing.
LEMMA BaseLocal ==
  ASSUME Base, NEW s \in Source, Local(s)
  PROVE  Base' /\ UNCHANGED <<cmds, queue, strand, job, step, todo, seekId, pending, atEnd>>
<1> USE DEF Base
<1>1. UNCHANGED <<cmds, queue, strand, job, step, todo, seekId, pending, atEnd, open, pos,
                  live, cast>>
  BY DEF Local, ReadFrame, Gate, Cold, TopUp, Receive, Then, RunContinuation, SetDepth, Close,
         Seek, SetRate, CancelPending, latch, group, cache, commands, backend, user,
         completion, continuation, caller
<1>2. pc' \in [Source -> PC]
  BY DEF Local, ReadFrame, Gate, Cold, TopUp, Receive, Then, RunContinuation, SetDepth, Close,
         Seek, SetRate, CancelPending, user, Goto, Types, PC
<1>3. calls' \in [Source -> Nat] /\ \A r \in Source : calls'[r] \in 0..MaxCalls[r]
  <2>1. CASE \E op \in Op : Call(s, op)
    BY <2>1, CallTypes
  <2>2. CASE calls' = calls
    BY <2>2 DEF Types
  <2> QED BY <2>1, <2>2 DEF Local, ReadFrame, Gate, Cold, TopUp, Receive, Then,
         RunContinuation, SetDepth, Close, Seek, SetRate, CancelPending, caller, Op
<1>4. req' \in [Source -> {0} \cup DOMAIN cmds] /\ room' \in [Source -> Nat]
  <2>1. CASE Receive(s) \/ RunContinuation(s)
    BY <2>1 DEF Receive, RunContinuation, Types
  <2>2. CASE TopUp(s)
    BY <2>2 DEF TopUp, Types
  <2>3. CASE UNCHANGED <<req, room>>
    BY <2>3 DEF Types
  <2> QED BY <2>1, <2>2, <2>3 DEF Local, ReadFrame, Gate, Cold, Then, SetDepth, Close,
         Seek, SetRate, CancelPending, user
<1>5. armed' \in [Source -> BOOLEAN]
  BY DEF Local, ReadFrame, Gate, Cold, TopUp, Receive, Then, RunContinuation, SetDepth, Close,
         Seek, SetRate, CancelPending, cache, Types, CheckArmed
<1>6. closing' \in BOOLEAN /\ depth' \in [Source -> Depths]
  BY DEF Local, ReadFrame, Gate, Cold, TopUp, Receive, Then, RunContinuation, SetDepth, Close,
         Seek, SetRate, CancelPending, cache, latch, Types
<1>7. stored' \in [Source -> {0} \cup DOMAIN cmds] /\ posted' \in [Source -> Nat]
  BY DEF Local, ReadFrame, Gate, Cold, TopUp, Receive, Then, RunContinuation, SetDepth, Close,
         Seek, SetRate, CancelPending, continuation, Types, Kept
<1>8. Types'
  BY <1>1, <1>2, <1>3, <1>4, <1>5, <1>6, <1>7 DEF Types
<1>9. Busy'
  BY <1>1 DEF Busy
<1> QED BY <1>1, <1>8, <1>9

\* The sources of the group, in an order.
LEMMA PortsFacts == Ports \in Seq(Source) /\ Ports # <<>>
BY SourceAssumption

\* The stream has a length.
LEMMA LastNat == Last \in Nat
BY SourceAssumption

\* A prefetch depth is at least one.
LEMMA DepthPositive ==
  ASSUME NEW d \in Depths
  PROVE  d \in Nat /\ d - 1 \in Nat
<1>1. d \in Nat /\ d # 0
  BY SourceAssumption
<1> QED BY <1>1

\* Submitting.
LEMMA BaseSubmit ==
  ASSUME Base, NEW s \in Source, Submit(s)
  PROVE  Base' /\ Widened
<1> USE DEF Base
<1>1. PICK k \in {"read", "seek", "close"} : Post(k)
  BY DEF Submit, ColdPost, TopUpPost, ClosePost, SeekPost
<1>2. /\ Widened /\ strand' \in Seq(DOMAIN cmds')
      /\ Len(cmds) + 1 \in DOMAIN cmds'
  BY <1>1, PostWide DEF Widened
<1>3. /\ queue \in [Source -> Seq(DOMAIN cmds')] /\ job \in [Proc -> Seq(DOMAIN cmds')]
      /\ req \in [Source -> {0} \cup DOMAIN cmds'] /\ seekId \in [Source -> {0} \cup DOMAIN cmds']
      /\ stored \in [Source -> {0} \cup DOMAIN cmds']
  BY <1>2, WideKeeps
<1>4. UNCHANGED <<open, closing, depth, pos, live, job, step, todo, stored, posted, cast, calls>>
  BY DEF Submit, ColdPost, TopUpPost, ClosePost, SeekPost, latch, backend, completion, caller,
         continuation, cache
<1>5. queue' \in [Source -> Seq(DOMAIN cmds')]
  <2>1. CASE TopUpPost(s)
    <3>1. Append(queue[s], Len(cmds) + 1) \in Seq(DOMAIN cmds')
      BY <1>2, <1>3, AppendFacts
    <3> QED BY <1>3, <2>1, <3>1 DEF TopUpPost, Enqueued
  <2>2. CASE UNCHANGED queue
    BY <1>3, <2>2
  <2> QED BY <2>1, <2>2 DEF Submit, ColdPost, ClosePost, SeekPost, cache
<1>6. /\ req' \in [Source -> {0} \cup DOMAIN cmds']
      /\ seekId' \in [Source -> {0} \cup DOMAIN cmds']
  BY <1>2, <1>3 DEF Submit, ColdPost, TopUpPost, ClosePost, SeekPost, caller
<1>7. room' \in [Source -> Nat]
  <2>1. CASE ColdPost(s)
    <3>1. depth[s] - 1 \in Nat
      BY DepthPositive DEF Types
    <3> QED BY <2>1, <3>1 DEF ColdPost, Types
  <2>2. CASE UNCHANGED room
    BY <2>2 DEF Types
  <2> QED BY <2>1, <2>2 DEF Submit, TopUpPost, ClosePost, SeekPost
<1>8. pc' \in [Source -> PC] /\ armed' \in [Source -> BOOLEAN]
  BY DEF Submit, ColdPost, TopUpPost, ClosePost, SeekPost, Goto, Types, PC, cache
<1>9. pending' \in Int /\ atEnd' \in BOOLEAN
  <2>1. pending' = pending \/ pending' = pending + 1
    BY DEF Submit, ColdPost, TopUpPost, ClosePost, SeekPost, group
  <2>2. atEnd' = atEnd \/ atEnd' = FALSE
    BY DEF Submit, ColdPost, TopUpPost, ClosePost, SeekPost, group
  <2>3. pending' \in Int
    BY <2>1 DEF Types
  <2>4. atEnd' \in BOOLEAN
    BY Zenon, <2>2 DEF Types
  <2> QED BY <2>3, <2>4
<1>10. Types'
  <2>1. cmds' \in Seq(Command)
    BY <1>2 DEF Widened
  <2> QED BY <1>2, <1>3, <1>4, <1>5, <1>6, <1>7, <1>8, <1>9, <2>1 DEF Types
<1>11. Busy'
  BY <1>4 DEF Busy
<1> QED BY <1>2, <1>10, <1>11

\* Vending the head of a cache.
LEMMA BaseVend ==
  ASSUME Base, NEW s \in Source, Vend(s)
  PROVE  Base' /\ UNCHANGED <<cmds, strand, job, step, todo, seekId, pending, atEnd, stored, posted>>
<1> USE DEF Base
<1>1. UNCHANGED <<open, closing, cmds, strand, job, step, todo, seekId, pending, atEnd, stored,
                  posted, depth, pos, live, cast, calls>>
  BY DEF Vend, latch, group, commands, backend, completion, caller, continuation, cache
<1>2. CASE queue[s] = <<>>
  <2>1. UNCHANGED <<queue, armed, req, room>> /\ pc' \in [Source -> PC]
    BY <1>2 DEF Vend, cache, Goto, Types, PC
  <2> QED BY <1>1, <2>1 DEF Types, Busy
<1>3. CASE queue[s] # <<>>
  <2>1. Head(queue[s]) \in DOMAIN cmds /\ Tail(queue[s]) \in Seq(DOMAIN cmds)
    BY <1>3, TailFacts DEF Types
  <2>2. queue' \in [Source -> Seq(DOMAIN cmds)] /\ req' \in [Source -> {0} \cup DOMAIN cmds]
    <3>1. /\ queue' = [queue EXCEPT ![s] = Tail(queue[s])]
          /\ req' = [req EXCEPT ![s] = Head(queue[s])]
      BY <1>3 DEF Vend
    <3>2. queue \in [Source -> Seq(DOMAIN cmds)] /\ req \in [Source -> {0} \cup DOMAIN cmds]
      BY DEF Types
    <3>3. Head(queue[s]) \in {0} \cup DOMAIN cmds
      BY <2>1
    <3> DEFINE S == Seq(DOMAIN cmds)
               C == {0} \cup DOMAIN cmds
               t == Tail(queue[s])
               h == Head(queue[s])
    <3> HIDE DEF S, C, t, h
    <3>4. t \in S /\ h \in C /\ queue \in [Source -> S] /\ req \in [Source -> C]
      BY <2>1, <3>2, <3>3 DEF S, C, t, h
    <3>5. [queue EXCEPT ![s] = t] \in [Source -> S] /\ [req EXCEPT ![s] = h] \in [Source -> C]
      BY ONLY <3>4
    <3> QED BY <3>1, <3>5 DEF S, C, t, h
  <2>3. armed' \in [Source -> BOOLEAN] /\ pc' \in [Source -> PC]
    BY <1>3 DEF Vend, Types, Goto, PC
  <2>4. room' \in [Source -> Nat]
    <3>1. depth[s] \in Nat /\ depth[s] - 1 \in Nat
      BY DepthPositive DEF Types
    <3> QED BY <1>3, <3>1 DEF Vend, Types
  <2> QED BY <1>1, <2>2, <2>3, <2>4 DEF Types, Busy
<1> QED BY <1>1, <1>2, <1>3

\* A seek or a change of rate takes over what is on the strand.
LEMMA BaseCancelWork ==
  ASSUME Base, NEW s \in Source, CancelWork(s) \/ RateReturn(s)
  PROVE  Base' /\ UNCHANGED <<cmds, queue, armed, req, seekId, pending, stored, posted>>
<1> USE DEF Base
<1>1. s \in Proc /\ \A p \in Proc : p \in Source \/ p = Worker
  BY DEF Proc
<1>2. CASE CancelWork(s)
  <2>1. UNCHANGED <<open, closing, atEnd, pending, depth, queue, armed, cmds, pos, live, req,
                    room, stored, posted, cast, calls, seekId>>
    BY <1>2 DEF CancelWork, latch, group, cache, backend, caller, continuation
  <2>2. strand' = <<>> /\ job' = [job EXCEPT ![s] = strand]
        /\ step' = [step EXCEPT ![s] = IF strand = <<>> THEN "none" ELSE "start"]
        /\ todo' = [todo EXCEPT ![s] = Ports]
    BY <1>2 DEF CancelWork
  <2>3. pc' \in [Source -> PC]
    BY <1>2 DEF CancelWork, Goto, Types, PC
  <2>4. strand' \in Seq(DOMAIN cmds) /\ job' \in [Proc -> Seq(DOMAIN cmds)]
    <3>1. strand' \in Seq(DOMAIN cmds)
      BY <2>2
    <3> QED BY <1>1, <2>2, <3>1 DEF Types
  <2>5. step' \in [Proc -> Step] /\ todo' \in [Proc -> Seq(Source)]
    BY <2>2, SourceAssumption DEF Types, Step
  <2>6. Types'
    BY <2>1, <2>3, <2>4, <2>5 DEF Types
  <2>7. Busy'
    BY <1>1, <2>2, SourceAssumption DEF Types, Busy
  <2> QED BY <2>1, <2>6, <2>7
<1>3. CASE RateReturn(s)
  <2>1. UNCHANGED <<open, closing, pending, depth, queue, armed, cmds, strand, pos, live, req,
                    room, job, step, todo, stored, posted, cast, calls, seekId>>
    BY <1>3 DEF RateReturn, latch, cache, commands, backend, completion, caller, continuation
  <2>2. pc' \in [Source -> PC] /\ atEnd' \in BOOLEAN
    BY <1>3 DEF RateReturn, Goto, Types, PC
  <2> QED BY <2>1, <2>2 DEF Types, Busy
<1> QED BY <1>2, <1>3

\* Emptying caches.
LEMMA BaseDrop ==
  ASSUME Base, NEW s \in Source, DropCaches(s) \/ CancelPendingDrop(s)
  PROVE  Base' /\ Widened /\ UNCHANGED <<strand, job, step, seekId, pending, stored, posted, req>>
<1> USE DEF Base
<1>1. PICK r \in Source : CancelAll(r) /\ (DropCaches(s) => r = Head(todo[s]))
  <2>1. CASE DropCaches(s)
    <3>1. todo[s] \in Seq(Source) /\ todo[s] # <<>>
      BY <2>1 DEF DropCaches, Types, Proc
    <3> QED BY <2>1, <3>1, TailFacts DEF DropCaches
  <2>2. CASE CancelPendingDrop(s) /\ ~DropCaches(s)
    BY <2>2 DEF CancelPendingDrop
  <2> QED BY <2>1, <2>2
<1>2. /\ Widened /\ DOMAIN cmds' = DOMAIN cmds
      /\ queue' \in [Source -> Seq(DOMAIN cmds')]
      /\ armed' = [armed EXCEPT ![r] = FALSE] /\ UNCHANGED depth
  BY <1>1, CancelAllWide
<1>3. UNCHANGED <<open, closing, atEnd, pending, strand, pos, live, req, room, job, step,
                  stored, posted, cast, calls, seekId>>
  BY DEF DropCaches, CancelPendingDrop, latch, group, backend, user, completion, caller,
         continuation
<1>4. pc' \in [Source -> PC] /\ armed' \in [Source -> BOOLEAN]
  BY <1>2 DEF DropCaches, CancelPendingDrop, user, Goto, Types, PC
<1>5. todo' \in [Proc -> Seq(Source)] /\ \A p \in Proc : todo'[p] = todo[p] \/ step[p] = "none"
  <2>1. CASE DropCaches(s)
    <3>1. s \in Proc /\ todo[s] \in Seq(Source) /\ todo[s] # <<>> /\ job[s] = <<>>
      BY <2>1 DEF DropCaches, Dropping, Types, Proc
    <3>2. Tail(todo[s]) \in Seq(Source) /\ todo' = [todo EXCEPT ![s] = Tail(@)]
      BY <2>1, <3>1, TailFacts DEF DropCaches
    <3> QED BY <3>1, <3>2 DEF Types, Busy
  <2>2. CASE CancelPendingDrop(s)
    BY <2>2 DEF CancelPendingDrop, completion, Types
  <2> QED BY <2>1, <2>2
<1>6. Types'
  <2>1. cmds' \in Seq(Command)
    BY <1>2 DEF Widened
  <2> QED BY <1>2, <1>3, <1>4, <1>5, <2>1 DEF Types
<1>7. Busy'
  BY <1>3, <1>5 DEF Busy
<1> QED BY <1>2, <1>3, <1>6, <1>7

\* The strand's worker takes a command and has the backend execute it.
LEMMA BaseWorker ==
  ASSUME Base, Dispatch \/ Execute
  PROVE  Base' /\ Widened
         /\ UNCHANGED <<queue, armed, pc, req, seekId, pending, stored, posted, todo, open,
                        closing, cast>>
<1> USE DEF Base
<1>1. Worker \in Proc
  BY DEF Proc
<1>2. CASE Dispatch
  <2>1. UNCHANGED <<open, closing, atEnd, pending, depth, queue, armed, cmds, pos, live, pc, req,
                    room, todo, stored, posted, cast, calls, seekId>>
    BY <1>2 DEF Dispatch, latch, group, cache, backend, user, caller, continuation
  <2>2. Head(strand) \in DOMAIN cmds /\ Tail(strand) \in Seq(DOMAIN cmds)
    BY <1>2, TailFacts DEF Dispatch, Types
  <2>3. /\ job[Worker] = <<>> /\ job' = [job EXCEPT ![Worker] = <<Head(strand)>>]
        /\ strand' = Tail(strand)
        /\ step' = [step EXCEPT ![Worker] =
                      IF cmds[Head(strand)].cancelled THEN "start" ELSE "exec"]
    BY <1>2 DEF Dispatch
  <2>4. <<Head(strand)>> \in Seq(DOMAIN cmds) /\ <<Head(strand)>> # <<>>
    BY <2>2
  <2>5. job' \in [Proc -> Seq(DOMAIN cmds)] /\ strand' \in Seq(DOMAIN cmds)
    BY <1>1, <2>2, <2>3, <2>4 DEF Types
  <2>6. step' \in [Proc -> Step]
    BY <2>3 DEF Types, Step
  <2>7. Types'
    BY <2>1, <2>5, <2>6 DEF Types
  <2>8. Busy'
    BY <1>1, <2>1, <2>3, <2>4 DEF Types, Busy
  <2> QED BY <2>1, <2>7, <2>8, SameWide
<1>3. CASE Execute
  <2>1. UNCHANGED <<open, closing, atEnd, pending, depth, queue, armed, strand, pc, req, room,
                    job, todo, stored, posted, cast, calls, seekId>>
    BY <1>3 DEF Execute, latch, group, cache, user, caller, continuation
  <2>2. /\ step[Worker] = "exec" /\ step' = [step EXCEPT ![Worker] = "start"]
        /\ job[Worker] # <<>> /\ Current(Worker) \in DOMAIN cmds
    BY <1>1, <1>3, BusyFacts DEF Execute
  <2> DEFINE c == Current(Worker)
             r == Answer(cmds[c].kind)
  <2>3. r \in {"ok", "eof", "error"} /\ (r = "ok" => cmds[c].kind # "read" \/ pos # Last)
    BY DEF Answer
  <2>4. /\ cmds' = [cmds EXCEPT ![c].result = r]
        /\ live' = (live /\ cmds[c].kind # "close")
        /\ pos' = CASE cmds[c].kind = "read" /\ r = "ok" -> pos + 1
                    [] cmds[c].kind = "seek"             -> 0
                    [] OTHER                             -> pos
    BY <1>3 DEF Execute, Current
  <2> HIDE DEF c, r
  <2>5. Widened
    <3>1. r \in Result /\ c \in DOMAIN cmds
      BY <2>2, <2>3 DEF Result, c
    <3> QED BY <2>4, <3>1, ResultWide
  <2>6. live' \in BOOLEAN
    BY <2>4
  <2>7. pos' \in 0..Last
    <3>1. pos \in Nat /\ pos <= Last /\ Last \in Nat
      BY LastNat DEF Types
    <3>2. pos' = pos \/ pos' = 0 \/ (pos' = pos + 1 /\ pos # Last)
      BY <2>3, <2>4 DEF c, r
    <3> QED BY <3>1, <3>2
  <2>8. step' \in [Proc -> Step]
    BY <2>2 DEF Types, Step
  <2>9. Types'
    <3>1. /\ queue \in [Source -> Seq(DOMAIN cmds')] /\ strand \in Seq(DOMAIN cmds')
          /\ job \in [Proc -> Seq(DOMAIN cmds')] /\ req \in [Source -> {0} \cup DOMAIN cmds']
          /\ seekId \in [Source -> {0} \cup DOMAIN cmds']
          /\ stored \in [Source -> {0} \cup DOMAIN cmds'] /\ cmds' \in Seq(Command)
      BY <2>5, WideKeeps DEF Widened
    <3> QED BY <2>1, <2>6, <2>7, <2>8, <3>1 DEF Types
  <2>10. Busy'
    BY <1>1, <2>1, <2>2 DEF Types, Busy
  <2> QED BY <2>1, <2>5, <2>9, <2>10
<1> QED BY <1>2, <1>3

\* completeCommand.
LEMMA BaseComplete ==
  ASSUME Base, NEW p \in Proc, CompleteCommand(p)
  PROVE  Base' /\ Widened
         /\ UNCHANGED <<strand, pc, req, seekId, depth, cast>>
<1> USE DEF Base
<1>1. UNCHANGED <<depth, strand, pos, live, pc, req, room, cast, calls, seekId>>
  <2>1. UNCHANGED depth
    BY DEF CompleteCommand, Complete, DropSibling, Notify, PushEos, MarkCompleted, Reply,
           cache, CancelAll
  <2> QED BY <2>1 DEF CompleteCommand, Complete, DropSibling, Notify, PushEos, MarkCompleted, Reply,
         commands, backend, user, caller
<1>2. /\ step[p] # "none" /\ job[p] # <<>> /\ Current(p) \in DOMAIN cmds
      /\ Tail(job[p]) \in Seq(DOMAIN cmds)
      /\ step[p] \in {"drop", "notify", "eos"} =>
            NextPort(p) \in Source /\ Tail(todo[p]) \in Seq(Source)
  <2>1. step[p] # "none"
    BY DEF CompleteCommand, Complete, DropSibling, Notify, PushEos, MarkCompleted, Reply
  <2> QED BY <2>1, BusyFacts
<1> DEFINE Rest == /\ Widened
                   /\ queue' \in [Source -> Seq(DOMAIN cmds')]
                   /\ job' \in [Proc -> Seq(DOMAIN cmds')]
                   /\ step' \in [Proc -> Step] /\ todo' \in [Proc -> Seq(Source)]
                   /\ stored' \in [Source -> {0} \cup DOMAIN cmds']
                   /\ posted' \in [Source -> Nat]
                   /\ armed' \in [Source -> BOOLEAN]
                   /\ pending' \in Int
                   /\ atEnd' \in BOOLEAN /\ open' \in BOOLEAN /\ closing' \in BOOLEAN
                   /\ Busy'
<1>3. Rest => Base' /\ Widened
  <2> SUFFICES ASSUME Rest PROVE Base'
    OBVIOUS
  <2>1. /\ strand \in Seq(DOMAIN cmds') /\ req \in [Source -> {0} \cup DOMAIN cmds']
        /\ seekId \in [Source -> {0} \cup DOMAIN cmds'] /\ cmds' \in Seq(Command)
    BY WideKeeps DEF Widened
  <2> QED BY <1>1, <2>1 DEF Types
<1>4. ASSUME Widened
      PROVE  /\ queue \in [Source -> Seq(DOMAIN cmds')]
             /\ job \in [Proc -> Seq(DOMAIN cmds')]
             /\ stored \in [Source -> {0} \cup DOMAIN cmds']
  BY <1>4, WideKeeps
<1>5. CASE Complete(p)
  <2>1. UNCHANGED <<open, closing, queue, armed, job, stored, posted>>
    BY <1>5 DEF Complete, latch, cache, continuation
  <2>2. PICK r \in Result, x \in {"drop", "notify", "eos", "mark"} :
          /\ cmds' = [cmds EXCEPT ![Current(p)].result = r]
          /\ step' = [step EXCEPT ![p] = x]
          /\ pending' = pending \/ pending' = pending - 1
          /\ todo' = [todo EXCEPT ![p] = Ports]
    <3> DEFINE c == Current(p)
               r == IF cmds[c].result = "none" THEN "cancelled" ELSE cmds[c].result
           end == cmds[c].kind = "read" /\ r = "eof"
           x == CASE end -> "drop"
                  [] cmds[c].kind = "read" /\ ~end -> "notify"
                  [] cmds[c].kind = "close" -> "eos"
                  [] OTHER -> "mark"
    <3>1. r \in Result
      <4>1. cmds[c] \in Command
        BY <1>2 DEF Types
      <4>2. cmds[c].result \in Result
        BY <4>1 DEF Command
      <4> QED BY <4>2 DEF Result
    <3>2. x \in {"drop", "notify", "eos", "mark"}
      OBVIOUS
    <3>3. /\ cmds' = [cmds EXCEPT ![c].result = r]
          /\ step' = [step EXCEPT ![p] = x]
          /\ pending' = IF Uncounts(cmds[c].kind, r) THEN pending - 1 ELSE pending
          /\ todo' = [todo EXCEPT ![p] = Ports]
      BY Zenon, <1>5 DEF Complete
    <3> HIDE DEF r, x
    <3> QED BY <3>1, <3>2, <3>3
  <2>3. Widened
    BY <1>2, <2>2, ResultWide
  <2>4. atEnd' \in BOOLEAN
    BY <1>5 DEF Complete
  <2>5. pending' \in Int /\ step' \in [Proc -> Step] /\ todo' \in [Proc -> Seq(Source)]
    BY <2>2, PortsFacts DEF Types, Step
  <2>6. Busy'
    BY <1>2, <2>1, <2>2, PortsFacts DEF Types, Busy
  <2> QED BY <1>1, <1>3, <1>4, <2>1, <2>3, <2>4, <2>5, <2>6 DEF Types
<1>6. CASE DropSibling(p)
  <2>1. UNCHANGED <<open, closing, atEnd, job, stored, posted>>
    BY <1>6 DEF DropSibling, latch, continuation
  <2>2. /\ step[p] = "drop" /\ CancelAll(NextPort(p)) /\ NextPort(p) \in Source
        /\ Tail(todo[p]) \in Seq(Source)
        /\ todo' = [todo EXCEPT ![p] = IF LastPort(p) THEN Ports ELSE Tail(@)]
        /\ step' = [step EXCEPT ![p] = IF LastPort(p) THEN "notify" ELSE @]
        /\ pending' = pending \/ pending' = pending - 1
    BY <1>2, <1>6 DEF DropSibling
  <2>3. Widened /\ queue' \in [Source -> Seq(DOMAIN cmds')] /\ armed' \in [Source -> BOOLEAN]
    BY <2>2, CancelAllWide DEF Types
  <2>4. pending' \in Int /\ step' \in [Proc -> Step] /\ todo' \in [Proc -> Seq(Source)]
    <3>1. pending' \in Int
      BY <2>2 DEF Types
    <3>2. step' \in [Proc -> Step]
      BY <2>2 DEF Types, Step
    <3>3. todo' \in [Proc -> Seq(Source)]
      BY <2>2, PortsFacts DEF Types
    <3> QED BY <3>1, <3>2, <3>3
  <2>5. Busy'
    BY <1>2, <2>1, <2>2, PortsFacts DEF Types, Busy, LastPort
  <2> QED BY <1>1, <1>3, <1>4, <2>1, <2>3, <2>4, <2>5 DEF Types
<1>7. CASE Notify(p)
  <2>1. UNCHANGED <<open, closing, atEnd, pending, queue, cmds, job, stored, posted>>
    BY <1>7 DEF Notify, latch, group, commands, continuation
  <2>2. /\ step[p] = "notify" /\ Tail(todo[p]) \in Seq(Source)
        /\ todo' = [todo EXCEPT ![p] = Tail(@)]
        /\ step' = [step EXCEPT ![p] = IF LastPort(p) THEN "mark" ELSE @]
    BY <1>2, <1>7 DEF Notify
  <2>3. armed' \in [Source -> BOOLEAN]
    BY <1>7 DEF Notify, CheckArmed, Types
  <2>4. step' \in [Proc -> Step] /\ todo' \in [Proc -> Seq(Source)]
    BY <2>2 DEF Types, Step
  <2>5. Busy'
    BY <1>2, <2>1, <2>2 DEF Types, Busy, LastPort
  <2> QED BY <1>1, <1>3, <1>4, <2>1, <2>3, <2>4, <2>5, SameWide DEF Types
<1>8. CASE PushEos(p)
  <2>1. UNCHANGED <<atEnd, pending, job, stored, posted>>
    BY <1>8 DEF PushEos, group, continuation
  <2>2. /\ step[p] = "eos" /\ Tail(todo[p]) \in Seq(Source) /\ NextPort(p) \in Source
        /\ todo' = [todo EXCEPT ![p] = Tail(@)]
        /\ step' = [step EXCEPT ![p] = IF LastPort(p) THEN "mark" ELSE @]
    BY <1>2, <1>8 DEF PushEos
  <2>3. Widened /\ queue' \in [Source -> Seq(DOMAIN cmds')] /\ armed' \in [Source -> BOOLEAN]
    BY <1>8, <2>2, EosWide
  <2>4. step' \in [Proc -> Step] /\ todo' \in [Proc -> Seq(Source)]
    BY <2>2 DEF Types, Step
  <2>5. open' \in BOOLEAN /\ closing' \in BOOLEAN
    BY <1>8 DEF PushEos
  <2>6. Busy'
    BY <1>2, <2>1, <2>2 DEF Types, Busy, LastPort
  <2> QED BY <1>1, <1>3, <1>4, <2>1, <2>3, <2>4, <2>5, <2>6 DEF Types
<1>9. CASE MarkCompleted(p)
  <2>1. UNCHANGED <<open, closing, atEnd, pending, queue, armed, job, todo, stored, posted>>
    BY <1>9 DEF MarkCompleted, latch, group, cache, continuation
  <2>2. /\ step[p] = "mark" /\ step' = [step EXCEPT ![p] = "reply"]
        /\ cmds' = [cmds EXCEPT ![Current(p)] = Resolved(@)]
    BY <1>9 DEF MarkCompleted
  <2>3. Widened
    <3> DEFINE x == Resolved(cmds[Current(p)])
    <3>1. x \in Command /\ x.kind = cmds[Current(p)].kind /\ x.completed
      <4>1. cmds[Current(p)] \in Command
        BY <1>2 DEF Types
      <4> QED BY <4>1 DEF Command, Resolved
    <3>2. cmds' = [cmds EXCEPT ![Current(p)] = x]
      BY <2>2
    <3> HIDE DEF x
    <3> QED BY <1>2, <3>1, <3>2, UpdateWide
  <2>4. step' \in [Proc -> Step]
    BY <2>2 DEF Types, Step
  <2>5. Busy'
    BY <1>2, <2>1, <2>2 DEF Types, Busy
  <2> QED BY <1>1, <1>3, <1>4, <2>1, <2>3, <2>4, <2>5 DEF Types
<1>10. CASE Reply(p)
  <2>1. UNCHANGED <<open, closing, atEnd, pending, queue, armed, cmds>>
    BY <1>10 DEF Reply, latch, group, cache, commands
  <2>2. /\ job' = [job EXCEPT ![p] = Tail(@)]
        /\ step' = [step EXCEPT ![p] = IF Tail(job[p]) = <<>> THEN "none" ELSE "start"]
        /\ todo' = [todo EXCEPT ![p] = Ports]
    BY <1>10 DEF Reply
  <2>3. /\ stored' \in [Source -> {0} \cup DOMAIN cmds] /\ posted' \in [Source -> Nat]
    BY <1>10 DEF Reply, Types
  <2>4. /\ job' \in [Proc -> Seq(DOMAIN cmds)] /\ step' \in [Proc -> Step]
        /\ todo' \in [Proc -> Seq(Source)]
    BY <1>2, <2>2, PortsFacts DEF Types, Step
  <2>5. Busy'
    BY <1>2, <2>2, PortsFacts DEF Types, Busy
  <2> QED BY <1>1, <1>3, <1>4, <2>1, <2>3, <2>4, <2>5, SameWide DEF Types
<1> QED BY <1>1, <1>5, <1>6, <1>7, <1>8, <1>9, <1>10 DEF CompleteCommand

\* Every step keeps types and what processes are busy with, and widens the commands.
LEMMA BaseStep == Base /\ [Next]_vars => Base' /\ Widened
<1> SUFFICES ASSUME Base, [Next]_vars PROVE Base' /\ Widened
  OBVIOUS
<1>1. CASE UNCHANGED vars
  <2>1. Widened
    BY <1>1, SameWide DEF vars, commands, Base
  <2>2. Base'
    BY <1>1 DEF Base, Types, Busy, vars, latch, group, cache, commands, backend, user,
                completion, continuation, caller
  <2> QED BY <2>1, <2>2
<1>2. ASSUME NEW s \in Source, Local(s)
      PROVE  Base' /\ Widened
  BY <1>2, BaseLocal, SameWide DEF Base
<1>3. ASSUME NEW s \in Source, Submit(s)
      PROVE  Base' /\ Widened
  BY <1>3, BaseSubmit
<1>4. ASSUME NEW s \in Source, Vend(s)
      PROVE  Base' /\ Widened
  BY <1>4, BaseVend, SameWide DEF Base
<1>5. ASSUME NEW s \in Source, CancelWork(s) \/ RateReturn(s)
      PROVE  Base' /\ Widened
  BY <1>5, BaseCancelWork, SameWide DEF Base
<1>6. ASSUME NEW s \in Source, DropCaches(s) \/ CancelPendingDrop(s)
      PROVE  Base' /\ Widened
  BY <1>6, BaseDrop
<1>7. CASE Dispatch \/ Execute
  BY <1>7, BaseWorker
<1>8. ASSUME NEW p \in Proc, CompleteCommand(p)
      PROVE  Base' /\ Widened
  BY <1>8, BaseComplete
<1> QED BY <1>1, <1>2, <1>3, <1>4, <1>5, <1>6, <1>7, <1>8, Steps

\* Base holds always.
LEMMA BaseAlways == Spec => []Base
BY BaseInit, BaseStep, PTL DEF Spec

-----------------------------------------------------------------------------
(* frameReady.                                                              *)

\* An armed cache has a completed head.
HeadReady(a, q, c) == a => q # <<>> /\ c[Head(q)].completed

\* What a thread is told is ready stays ready.
LEMMA ArmedStep == Base /\ ArmedHeadReady /\ [Next]_vars => ArmedHeadReady'
<1> SUFFICES ASSUME Base, ArmedHeadReady, [Next]_vars PROVE ArmedHeadReady'
  OBVIOUS
<1> USE DEF Base
<1>0. Widened
  BY BaseStep
<1>1. \A s \in Source : HeadReady(armed[s], queue[s], cmds)
  BY DEF ArmedHeadReady, HeadReady
<1> DEFINE Fits(s) == /\ \/ queue'[s] = queue[s]
                          \/ \E x \in DOMAIN cmds' : queue'[s] = Append(queue[s], x)
                      /\ armed'[s] =>
                           armed[s] \/ (queue'[s] # <<>> /\ cmds'[Head(queue'[s])].completed)
<1>2. ASSUME NEW s \in Source, Fits(s)
      PROVE  HeadReady(armed'[s], queue'[s], cmds')
  <2> SUFFICES ASSUME armed'[s], armed[s] PROVE queue'[s] # <<>> /\ cmds'[Head(queue'[s])].completed
    BY <1>2 DEF HeadReady
  <2>1. queue[s] # <<>> /\ Head(queue[s]) \in DOMAIN cmds /\ cmds[Head(queue[s])].completed
    BY <1>1, TailFacts DEF Types, HeadReady
  <2>2. queue[s] \in Seq(DOMAIN cmds')
    BY <1>0, WideKeeps
  <2>3. queue'[s] # <<>> /\ Head(queue'[s]) = Head(queue[s])
    BY <1>2, <2>1, <2>2, AppendHead
  <2> QED BY <1>0, <2>1, <2>3 DEF Widened
<1>3. ASSUME NEW s \in Source, ~armed'[s]
      PROVE  HeadReady(armed'[s], queue'[s], cmds')
  BY <1>3 DEF HeadReady
<1>4. ASSUME NEW s \in Source, CancelAll(s)
      PROVE  \A r \in Source : HeadReady(armed'[r], queue'[r], cmds')
  <2> TAKE r \in Source
  <2>1. queue' = [queue EXCEPT ![s] = <<>>] /\ armed' = [armed EXCEPT ![s] = FALSE]
    BY <1>4, CancelAllWide
  <2>2. CASE r = s
    BY <1>3, <2>1, <2>2 DEF Types
  <2>3. CASE r # s
    BY <1>2, <2>1, <2>3 DEF Types
  <2> QED BY <2>2, <2>3
<1>5. ASSUME NEW s \in Source, Local(s)
      PROVE  \A r \in Source : HeadReady(armed'[r], queue'[r], cmds')
  <2> TAKE r \in Source
  <2>1. queue' = queue /\ cmds' = cmds
    BY <1>5, BaseLocal
  <2>2. armed' = armed \/ armed' = [armed EXCEPT ![s] = CheckArmed(@, queue[s], cmds)]
    BY <1>5 DEF Local, ReadFrame, Gate, Cold, TopUp, Receive, Then, RunContinuation, SetDepth,
         Close, Seek, SetRate, CancelPending, cache
  <2>3. armed'[r] => armed[r] \/ (queue'[r] # <<>> /\ cmds'[Head(queue'[r])].completed)
    BY <2>1, <2>2 DEF CheckArmed, Types
  <2> QED BY <1>2, <2>1, <2>3
<1>6. ASSUME NEW s \in Source, Submit(s)
      PROVE  \A r \in Source : HeadReady(armed'[r], queue'[r], cmds')
  <2> TAKE r \in Source
  <2>1. CASE ColdPost(s)
    <3>1. queue' = queue /\ armed' = [armed EXCEPT ![s] = FALSE]
      BY <2>1 DEF ColdPost
    <3>2. CASE r = s
      BY <1>3, <3>1, <3>2 DEF Types
    <3>3. CASE r # s
      BY <1>2, <3>1, <3>3 DEF Types
    <3> QED BY <3>2, <3>3
  <2>2. CASE TopUpPost(s)
    <3>1. Len(cmds) + 1 \in DOMAIN cmds'
      <4>1. Post("read")
        BY <2>2 DEF TopUpPost
      <4>2. Widened /\ Len(cmds') = Len(cmds) + 1
        BY <4>1, PostWide
      <4> QED BY <4>2 DEF Widened
    <3>2. queue' = [queue EXCEPT ![s] = Append(queue[s], Len(cmds) + 1)] /\ armed' = armed
      BY <2>2 DEF TopUpPost, Enqueued
    <3> QED BY <1>2, <3>1, <3>2 DEF Types
  <2>3. CASE ClosePost(s) \/ SeekPost(s)
    <3>1. queue' = queue /\ armed' = armed
      BY <2>3 DEF ClosePost, SeekPost, cache
    <3> QED BY <1>2, <3>1
  <2> QED BY <1>6, <2>1, <2>2, <2>3 DEF Submit
<1>7. ASSUME NEW s \in Source, Vend(s)
      PROVE  \A r \in Source : HeadReady(armed'[r], queue'[r], cmds')
  <2> TAKE r \in Source
  <2>1. CASE queue[s] = <<>>
    <3>1. queue' = queue /\ armed' = armed
      BY <1>7, <2>1 DEF Vend, cache
    <3> QED BY <1>2, <3>1
  <2>2. CASE queue[s] # <<>>
    <3>1. queue' = [queue EXCEPT ![s] = Tail(@)] /\ armed' = [armed EXCEPT ![s] = FALSE]
      BY <1>7, <2>2 DEF Vend
    <3>2. CASE r = s
      BY <1>3, <3>1, <3>2 DEF Types
    <3>3. CASE r # s
      BY <1>2, <3>1, <3>3 DEF Types
    <3> QED BY <3>2, <3>3
  <2> QED BY <2>1, <2>2
<1>8. ASSUME UNCHANGED <<queue, armed>>
      PROVE  \A r \in Source : HeadReady(armed'[r], queue'[r], cmds')
  BY <1>2, <1>8
<1>9. ASSUME NEW p \in Proc, CompleteCommand(p)
      PROVE  \A r \in Source : HeadReady(armed'[r], queue'[r], cmds')
  <2>1. CASE DropSibling(p)
    <3>1. CancelAll(NextPort(p)) /\ NextPort(p) \in Source
      BY <2>1, BusyFacts DEF DropSibling
    <3> QED BY <1>4, <3>1
  <2>2. CASE Notify(p)
    <3> TAKE r \in Source
    <3>1. queue' = queue /\ cmds' = cmds
          /\ armed' = [armed EXCEPT ![NextPort(p)] = CheckArmed(@, queue[NextPort(p)], cmds)]
      BY <2>2 DEF Notify, commands
    <3>2. armed'[r] => armed[r] \/ (queue'[r] # <<>> /\ cmds'[Head(queue'[r])].completed)
      BY <3>1 DEF CheckArmed, Types
    <3> QED BY <1>2, <3>1, <3>2
  <2>3. CASE PushEos(p)
    <3> TAKE r \in Source
    <3>1. NextPort(p) \in Source
      BY <2>3, BusyFacts DEF PushEos
    <3>2. /\ queue' = [queue EXCEPT ![NextPort(p)] = Append(queue[NextPort(p)], Len(cmds) + 1)]
          /\ armed' = [armed EXCEPT ![NextPort(p)] = CheckArmed(@, queue'[NextPort(p)], cmds')]
          /\ Len(cmds) + 1 \in DOMAIN cmds'
      BY <2>3, <3>1, EosWide DEF Widened
    <3>3. armed'[r] => armed[r] \/ (queue'[r] # <<>> /\ cmds'[Head(queue'[r])].completed)
      BY <3>2 DEF CheckArmed, Types
    <3> QED BY <1>2, <3>2, <3>3 DEF Types
  <2>4. CASE Complete(p) \/ MarkCompleted(p) \/ Reply(p)
    BY <1>8, <2>4 DEF Complete, MarkCompleted, Reply, cache
  <2> QED BY <1>9, <2>1, <2>2, <2>3, <2>4 DEF CompleteCommand
<1>10. ASSUME NEW s \in Source, DropCaches(s) \/ CancelPendingDrop(s)
       PROVE  \A r \in Source : HeadReady(armed'[r], queue'[r], cmds')
  <2>1. PICK r \in Source : CancelAll(r)
    BY <1>10, TailFacts DEF DropCaches, CancelPendingDrop, Types, Proc
  <2> QED BY <1>4, <2>1
<1>11. \A s \in Source : HeadReady(armed'[s], queue'[s], cmds')
  <2>1. CASE UNCHANGED vars
    BY <1>8, <2>1 DEF vars, cache
  <2>2. CASE \E s \in Source : CancelWork(s) \/ RateReturn(s)
    BY <1>8, <2>2, BaseCancelWork
  <2>3. CASE Dispatch \/ Execute
    BY <1>8, <2>3, BaseWorker
  <2> QED BY <1>5, <1>6, <1>7, <1>9, <1>10, <2>1, <2>2, <2>3, Steps
<1> QED BY <1>11 DEF ArmedHeadReady, HeadReady

\* mediaioreadcache.h:52: after frameReady a readFrame resolves without blocking -
\* whatever is cancelled, vended, ended or closed in the meantime.
THEOREM SourceArmedHeadReady == Spec => []ArmedHeadReady
<1>1. Init => ArmedHeadReady
  BY DEF Init, ArmedHeadReady
<1> QED BY <1>1, BaseAlways, ArmedStep, PTL DEF Spec

-----------------------------------------------------------------------------
(* Continuations.                                                           *)

\* A thread with request r, at place a, that may call ops: its callback is held by the
\* request's command, or posted for a command that has completed, or neither.
Slot(c, r, held, ready, a, ops) ==
    /\ held # 0 => held = r /\ ready = 0
    /\ ready > 0 => ready = 1 /\ held = 0 /\ r # 0 /\ c[r].completed
    /\ "then" \notin ops => held = 0 /\ ready = 0
    /\ a \in {"gate", "vend", "cold", "coldPost"} => r = 0

\* Callbacks are where they belong, and a process that looks for one has set the flag.
Attached ==
    /\ \A s \in Source : Slot(cmds, req[s], stored[s], posted[s], pc[s], cast[s])
    /\ \A p \in Proc : step[p] = "reply" => cmds[Current(p)].completed

\* What a process is to reply to has completed.
LEMMA ReplyStep ==
  ASSUME Base, Attached, [Next]_vars, NEW p \in Proc, step'[p] = "reply"
  PROVE  cmds'[Current(p)'].completed
<1>0. Base' /\ Widened
  BY BaseStep
<1>1. ASSUME step[p] = "reply", UNCHANGED job
      PROVE  cmds'[Current(p)'].completed
  <2>1. Current(p)' = Current(p) /\ Current(p) \in DOMAIN cmds /\ cmds[Current(p)].completed
    BY <1>1, BusyFacts DEF Current, Attached
  <2> QED BY <1>0, <2>1 DEF Widened
<1>2. ASSUME UNCHANGED <<step, job>>
      PROVE  cmds'[Current(p)'].completed
  BY <1>1, <1>2
<1>3. ASSUME NEW s \in Source, CancelWork(s)
      PROVE  cmds'[Current(p)'].completed
  <2>1. /\ job' = [job EXCEPT ![s] = strand]
        /\ step' = [step EXCEPT ![s] = IF strand = <<>> THEN "none" ELSE "start"]
    BY <1>3 DEF CancelWork
  <2>2. p # s /\ step[p] = "reply" /\ job'[p] = job[p]
    BY <2>1 DEF Base, Types
  <2>3. Current(p)' = Current(p) /\ Current(p) \in DOMAIN cmds /\ cmds[Current(p)].completed
    BY <2>2, BusyFacts DEF Current, Attached
  <2> QED BY <1>0, <2>3 DEF Widened
<1>4. CASE Dispatch
  <2>1. /\ job' = [job EXCEPT ![Worker] = <<Head(strand)>>]
        /\ step' = [step EXCEPT ![Worker] =
                      IF cmds[Head(strand)].cancelled THEN "start" ELSE "exec"]
    BY <1>4 DEF Dispatch
  <2>2. p # Worker /\ step[p] = "reply" /\ job'[p] = job[p]
    BY <2>1 DEF Base, Types
  <2>3. Current(p)' = Current(p) /\ Current(p) \in DOMAIN cmds /\ cmds[Current(p)].completed
    BY <2>2, BusyFacts DEF Current, Attached
  <2> QED BY <1>0, <2>3 DEF Widened
<1>5. CASE Execute
  <2>1. step' = [step EXCEPT ![Worker] = "start"] /\ UNCHANGED job
    BY <1>5 DEF Execute
  <2>2. step[p] = "reply"
    BY <2>1 DEF Base, Types
  <2> QED BY <1>1, <2>1, <2>2
<1>6. ASSUME NEW q \in Proc, Complete(q) \/ DropSibling(q) \/ Notify(q) \/ PushEos(q)
      PROVE  cmds'[Current(p)'].completed
  <2>1. PICK x \in {"drop", "notify", "eos", "mark"} :
           (step' = [step EXCEPT ![q] = x] \/ step' = step) /\ UNCHANGED job
    BY <1>6 DEF Complete, DropSibling, Notify, PushEos, LastPort, Base, Types
  <2>2. step[p] = "reply"
    BY <2>1 DEF Base, Types
  <2> QED BY <1>1, <2>1, <2>2
<1>7. ASSUME NEW q \in Proc, MarkCompleted(q)
      PROVE  cmds'[Current(p)'].completed
  <2>1. /\ step' = [step EXCEPT ![q] = "reply"] /\ UNCHANGED job /\ step[q] = "mark"
        /\ cmds' = [cmds EXCEPT ![Current(q)] = Resolved(@)]
    BY <1>7 DEF MarkCompleted
  <2>2. Current(p)' = Current(p)
    BY <2>1 DEF Current
  <2>3. CASE p = q
    <3>1. Current(q) \in DOMAIN cmds /\ cmds[Current(q)] \in Command
      BY <2>1, BusyFacts DEF Base, Types
    <3>2. cmds'[Current(q)] = Resolved(cmds[Current(q)])
      BY <2>1, <3>1
    <3>3. Resolved(cmds[Current(q)]).completed
      BY <3>1 DEF Resolved, Command
    <3> QED BY <2>2, <2>3, <3>2, <3>3
  <2>4. CASE p # q
    BY <1>1, <2>1, <2>4 DEF Base, Types
  <2> QED BY <2>3, <2>4
<1>8. ASSUME NEW q \in Proc, Reply(q)
      PROVE  cmds'[Current(p)'].completed
  <2>1. /\ job' = [job EXCEPT ![q] = Tail(@)]
        /\ step' = [step EXCEPT ![q] = IF Tail(job[q]) = <<>> THEN "none" ELSE "start"]
    BY <1>8 DEF Reply
  <2>2. p # q /\ step[p] = "reply" /\ job'[p] = job[p]
    BY <2>1 DEF Base, Types
  <2>3. Current(p)' = Current(p) /\ Current(p) \in DOMAIN cmds /\ cmds[Current(p)].completed
    BY <2>2, BusyFacts DEF Current, Attached
  <2> QED BY <1>0, <2>3 DEF Widened
<1>9. CASE UNCHANGED vars
  BY <1>2, <1>9 DEF vars, completion
<1>10. ASSUME NEW s \in Source, \/ Local(s) \/ Submit(s) \/ Vend(s) \/ DropCaches(s)
                                \/ RateReturn(s) \/ CancelPendingDrop(s)
       PROVE  cmds'[Current(p)'].completed
  <2>1. UNCHANGED <<step, job>>
    <3>1. CASE Local(s) \/ Vend(s) \/ DropCaches(s) \/ CancelPendingDrop(s)
      BY <3>1, BaseLocal, BaseVend, BaseDrop
    <3>2. CASE Submit(s) \/ RateReturn(s)
      BY <3>2 DEF Submit, ColdPost, TopUpPost, ClosePost, SeekPost, RateReturn, completion
    <3> QED BY <1>10, <3>1, <3>2
  <2> QED BY <1>2, <2>1
<1> QED BY <1>3, <1>4, <1>5, <1>6, <1>7, <1>8, <1>9, <1>10, Steps DEF CompleteCommand

\* No step disturbs what a thread has attached.
LEMMA SlotStep ==
  ASSUME Base, Attached, [Next]_vars, NEW s \in Source
  PROVE  Slot(cmds', req'[s], stored'[s], posted'[s], pc'[s], cast'[s])
<1> DEFINE Goal == Slot(cmds', req'[s], stored'[s], posted'[s], pc'[s], cast'[s])
           Before == {"gate", "vend", "cold", "coldPost"}
<1>0. Widened /\ Base'
  BY BaseStep
<1>1. /\ Slot(cmds, req[s], stored[s], posted[s], pc[s], cast[s])
      /\ req[s] # 0 => req[s] \in DOMAIN cmds
      /\ stored[s] # 0 => stored[s] \in DOMAIN cmds
      /\ posted[s] \in Nat /\ pc[s] \in PC
  BY DEF Attached, Base, Types
<1>2. ASSUME req'[s] = req[s], stored'[s] = stored[s], posted'[s] = posted[s],
             cast'[s] = cast[s], pc'[s] \in Before => pc[s] \in Before \/ req[s] = 0
      PROVE  Goal
  BY <1>0, <1>1, <1>2 DEF Slot, Widened
<1> HIDE DEF Goal
<1>3. cast'[s] = cast[s]
  <2>1. ASSUME NEW p, CompleteCommand(p) PROVE cast' = cast
    BY <2>1 DEF CompleteCommand, caller, Complete, DropSibling, Notify, PushEos, MarkCompleted,
                Reply
  <2>2. ASSUME NEW r, Request(r) PROVE cast' = cast
    BY <2>2 DEF Request, caller, ReadFrame, SetDepth, Close, Seek, SetRate, CancelPending
  <2>3. ASSUME NEW r, Gate(r) \/ Vend(r) \/ Cold(r) \/ ColdPost(r) \/ TopUp(r) \/ TopUpPost(r)
        PROVE  cast' = cast
    BY <2>3 DEF caller, Gate, Vend, Cold, ColdPost, TopUp, TopUpPost
  <2>4. ASSUME NEW r, Receive(r) \/ Then(r) \/ RunContinuation(r) \/ ClosePost(r)
        PROVE  cast' = cast
    BY <2>4 DEF caller, Receive, Then, RunContinuation, ClosePost
  <2>5. ASSUME NEW r, \/ CancelWork(r) \/ DropCaches(r) \/ SeekPost(r) \/ RateReturn(r)
                      \/ CancelPendingDrop(r)
        PROVE  cast' = cast
    BY <2>5 DEF caller, CancelWork, DropCaches, SeekPost, RateReturn, CancelPendingDrop
  <2>6. Dispatch \/ Execute => cast' = cast
    BY DEF caller, Dispatch, Execute
  <2>7. UNCHANGED vars => cast' = cast
    BY DEF vars, caller
  <2> QED BY <2>1, <2>2, <2>3, <2>4, <2>5, <2>6, <2>7 DEF Next, Continue, Strand
<1>4. ASSUME NEW r \in Source, Local(r)
      PROVE  Goal
  <2>1. CASE ReadFrame(r)
    <3>1. /\ UNCHANGED <<req, stored, posted>> /\ req[r] = 0
          /\ \A t \in Source : t # r => pc'[t] = pc[t]
      BY <1>4, <2>1 DEF ReadFrame, continuation, Goto
    <3> QED BY <1>2, <1>3, <3>1
  <2>2. CASE Gate(r) \/ Cold(r)
    <3>1. /\ UNCHANGED <<req, stored, posted>> /\ pc[r] \in Before
          /\ \A t \in Source : t # r => pc'[t] = pc[t]
      BY <2>2 DEF Gate, Cold, continuation, Goto, Base, Types
    <3> QED BY <1>2, <1>3, <3>1
  <2>3. CASE TopUp(r) \/ SetDepth(r) \/ Close(r) \/ Seek(r) \/ SetRate(r) \/ CancelPending(r)
    <3>1. /\ UNCHANGED <<req, stored, posted>>
          /\ \A t \in Source : pc'[t] = pc[t] \/ pc'[t] \notin Before
      BY <2>3 DEF TopUp, SetDepth, Close, Seek, SetRate, CancelPending, continuation, user, Goto,
                  Base, Types
    <3> QED BY <1>2, <1>3, <3>1
  <2>4. CASE Receive(r)
    <3>1. /\ UNCHANGED <<stored, posted, pc>> /\ req' = [req EXCEPT ![r] = 0]
          /\ "then" \notin cast[r]
      BY <2>4 DEF Receive, continuation
    <3>2. CASE s = r
      <4>1. req'[s] = 0 /\ stored'[s] = 0 /\ posted'[s] = 0
        BY <1>1, <3>1, <3>2 DEF Slot, Base, Types
      <4> QED BY <4>1 DEF Slot, Goal
    <3>3. CASE s # r
      BY <1>2, <1>3, <3>1, <3>3 DEF Base, Types
    <3> QED BY <3>2, <3>3
  <2>5. CASE Then(r)
    <3>1. /\ UNCHANGED <<req, pc, cmds>> /\ pc[r] = "idle" /\ req[r] # 0 /\ "then" \in cast[r]
          /\ stored[r] = 0 /\ posted[r] = 0
          /\ stored' = [stored EXCEPT ![r] = Kept(req[r])]
          /\ posted' = [posted EXCEPT ![r] = IF cmds[req[r]].completed THEN 1 ELSE 0]
      BY <2>5 DEF Then, user, commands
    <3>2. CASE s = r
      <4>1. /\ stored'[s] = IF cmds[req[s]].completed THEN 0 ELSE req[s]
            /\ posted'[s] = IF cmds[req[s]].completed THEN 1 ELSE 0
        BY <3>1, <3>2 DEF Kept, Base, Types
      <4> QED BY <1>3, <3>1, <3>2, <4>1 DEF Slot, Goal
    <3>3. CASE s # r
      BY <1>2, <1>3, <3>1, <3>3 DEF Base, Types
    <3> QED BY <3>2, <3>3
  <2>6. CASE RunContinuation(r)
    <3>1. /\ UNCHANGED <<stored, pc>> /\ posted[r] > 0
          /\ posted' = [posted EXCEPT ![r] = @ - 1] /\ req' = [req EXCEPT ![r] = 0]
      BY <2>6 DEF RunContinuation
    <3>2. CASE s = r
      <4>1. req'[s] = 0 /\ stored'[s] = 0 /\ posted'[s] = 0
        BY <1>1, <3>1, <3>2 DEF Slot, Base, Types
      <4> QED BY <4>1 DEF Slot, Goal
    <3>3. CASE s # r
      BY <1>2, <1>3, <3>1, <3>3 DEF Base, Types
    <3> QED BY <3>2, <3>3
  <2> QED BY <1>4, <2>1, <2>2, <2>3, <2>4, <2>5, <2>6 DEF Local
<1>5. ASSUME NEW r \in Source, Vend(r) \/ ColdPost(r)
      PROVE  Goal
  <2>1. /\ UNCHANGED <<stored, posted>> /\ pc[r] \in Before
        /\ (pc'[r] = "cold" /\ req' = req) \/ pc'[r] = "top"
        /\ \A t \in Source : t # r => pc'[t] = pc[t] /\ req'[t] = req[t]
    BY <1>5 DEF Vend, ColdPost, continuation, Goto, Base, Types
  <2>2. CASE s = r
    <3>1. req[s] = 0 /\ stored[s] = 0 /\ posted[s] = 0
      BY <1>1, <2>1, <2>2 DEF Slot
    <3> QED BY <1>2, <1>3, <2>1, <2>2, <3>1 DEF Slot, Goal
  <2>3. CASE s # r
    BY <1>2, <1>3, <2>1, <2>3
  <2> QED BY <2>2, <2>3
<1>6. ASSUME NEW r \in Source, \/ TopUpPost(r) \/ ClosePost(r) \/ SeekPost(r) \/ CancelWork(r)
                               \/ DropCaches(r) \/ RateReturn(r) \/ CancelPendingDrop(r)
      PROVE  Goal
  <2>1. /\ UNCHANGED <<req, stored, posted>>
        /\ \A t \in Source : pc'[t] = pc[t] \/ pc'[t] \notin Before
    BY <1>6 DEF TopUpPost, ClosePost, SeekPost, CancelWork, DropCaches, RateReturn,
                CancelPendingDrop, continuation, user, Goto, Base, Types
  <2> QED BY <1>2, <1>3, <2>1
<1>7. ASSUME Dispatch \/ Execute PROVE Goal
  BY <1>2, <1>3, <1>7, BaseWorker
<1>8. ASSUME NEW p \in Proc, \/ Complete(p) \/ DropSibling(p) \/ Notify(p) \/ PushEos(p)
                             \/ MarkCompleted(p)
      PROVE  Goal
  <2>1. UNCHANGED <<req, stored, posted, pc>>
    BY <1>8 DEF Complete, DropSibling, Notify, PushEos, MarkCompleted, continuation, user
  <2> QED BY <1>2, <1>3, <2>1
<1>9. ASSUME NEW p \in Proc, Reply(p)
      PROVE  Goal
  <2>1. /\ UNCHANGED <<req, pc, cmds>> /\ step[p] = "reply"
        /\ stored'[s] = (IF stored[s] = Current(p) THEN 0 ELSE stored[s])
        /\ posted'[s] = (IF stored[s] = Current(p) THEN posted[s] + 1 ELSE posted[s])
    BY <1>9 DEF Reply, user, commands
  <2>2. cmds[Current(p)].completed /\ Current(p) \in DOMAIN cmds /\ 0 \notin DOMAIN cmds
    <3>1. Current(p) \in DOMAIN cmds
      BY <2>1, BusyFacts
    <3>2. cmds[Current(p)].completed
      BY <2>1 DEF Attached
    <3>3. cmds \in Seq(Command)
      BY DEF Base, Types
    <3>4. 0 \notin DOMAIN cmds
      BY <3>3
    <3> QED BY <3>1, <3>2, <3>4
  <2>3. CASE stored[s] = Current(p)
    <3>1. stored[s] # 0 /\ stored[s] = req[s] /\ posted[s] = 0
      BY <1>1, <2>2, <2>3 DEF Slot
    <3>2. stored'[s] = 0 /\ posted'[s] = 1 /\ req'[s] # 0 /\ cmds'[req'[s]].completed
          /\ "then" \in cast[s]
      BY <1>1, <2>1, <2>2, <2>3, <3>1 DEF Slot
    <3> QED BY <1>1, <1>3, <2>1, <3>1, <3>2 DEF Slot, Goal
  <2>4. CASE stored[s] # Current(p)
    BY <1>2, <1>3, <2>1, <2>4
  <2> QED BY <2>3, <2>4
<1>10. ASSUME UNCHANGED vars PROVE Goal
  BY <1>2, <1>10 DEF vars, user, continuation, caller
<1>11. Goal
  BY <1>4, <1>5, <1>6, <1>7, <1>8, <1>9, <1>10, Steps DEF Submit, CompleteCommand
<1> QED BY <1>11 DEF Goal

\* Attached is inductive.
LEMMA AttachedStep == Base /\ Attached /\ [Next]_vars => Attached'
<1> SUFFICES ASSUME Base, Attached, [Next]_vars PROVE Attached'
  OBVIOUS
<1>1. \A s \in Source : Slot(cmds', req'[s], stored'[s], posted'[s], pc'[s], cast'[s])
  BY SlotStep
<1>2. \A p \in Proc : step'[p] = "reply" => cmds'[Current(p)'].completed
  BY ReplyStep
<1> QED BY <1>1, <1>2 DEF Attached

\* mediaiocommand.cpp:33: whichever of setCompletionCallback() and markCompleted() comes
\* first, a continuation reaches its EventLoop once, and not before its command completed.
THEOREM SourceContinuationOnce == Spec => []ContinuationOnce
<1>1. Init => Attached
  BY DEF Init, Attached, Slot
<1>2. Base /\ Attached => ContinuationOnce
  BY DEF Attached, Slot, ContinuationOnce
<1> QED BY <1>1, <1>2, BaseAlways, AttachedStep, PTL DEF Spec

-----------------------------------------------------------------------------
(* The order in which a source vends.                                       *)

Ascends(q) == \A i, j \in DOMAIN q : i < j => q[i] < q[j]

\* Caches hold reads in the order they were made, and a readFrame that goes on to
\* submit one found its cache empty and keeps it locked.
Ordered ==
    \A s \in Source : /\ Ascends(queue[s])
                      /\ pc[s] \in {"cold", "coldPost"} => queue[s] = <<>>

\* The newest command goes last.
LEMMA AscendsAppend ==
  ASSUME NEW n \in Nat, NEW q \in Seq(1..n), Ascends(q)
  PROVE  Ascends(Append(q, n + 1))
<1>1. /\ Len(q) \in Nat /\ DOMAIN q = 1..Len(q) /\ DOMAIN Append(q, n + 1) = 1..(Len(q) + 1)
      /\ \A i \in 1..Len(q) : Append(q, n + 1)[i] = q[i] /\ q[i] \in 1..n
      /\ Append(q, n + 1)[Len(q) + 1] = n + 1
  <2>1. q \in Seq(Nat)
    BY SeqWiden
  <2> QED BY <2>1, AppendFacts
<1> QED BY <1>1 DEF Ascends

\* Without its head it is still in order, behind the head.
LEMMA AscendsTail ==
  ASSUME NEW n \in Nat, NEW q \in Seq(1..n), Ascends(q), q # <<>>
  PROVE  Ascends(Tail(q)) /\ \A i \in DOMAIN Tail(q) : Tail(q)[i] > Head(q)
<1>1. /\ Head(q) = q[1] /\ 1 \in DOMAIN q /\ Len(q) > 0
      /\ DOMAIN q = 1..Len(q) /\ DOMAIN Tail(q) = 1..(Len(q) - 1) /\ Len(q) \in Nat
      /\ \A i \in 1..(Len(q) - 1) : Tail(q)[i] = q[i + 1]
      /\ \A i \in 1..Len(q) : q[i] \in Nat
  BY TailFacts
<1>2. ASSUME NEW i \in DOMAIN Tail(q), NEW j \in DOMAIN Tail(q), i < j
      PROVE  Tail(q)[i] < Tail(q)[j]
  <2>1. i + 1 \in DOMAIN q /\ j + 1 \in DOMAIN q /\ i + 1 < j + 1
    BY <1>1, <1>2
  <2>2. q[i + 1] < q[j + 1]
    BY <2>1 DEF Ascends
  <2> QED BY <1>1, <2>2
<1>3. ASSUME NEW i \in DOMAIN Tail(q)
      PROVE  Tail(q)[i] > Head(q)
  <2>1. i + 1 \in DOMAIN q /\ 1 < i + 1
    BY <1>1
  <2>2. q[1] < q[i + 1]
    BY <1>1, <2>1 DEF Ascends
  <2> QED BY <1>1, <2>1, <2>2
<1> QED BY <1>2, <1>3 DEF Ascends

\* Caches stay in order.
LEMMA OrderedStep == Base /\ Ordered /\ [Next]_vars => Ordered'
<1> SUFFICES ASSUME Base, Ordered, [Next]_vars, NEW s \in Source
             PROVE  /\ Ascends(queue'[s])
                    /\ pc'[s] \in {"cold", "coldPost"} => queue'[s] = <<>>
  BY DEF Ordered, Ascends
<1> DEFINE Empty == {"cold", "coldPost"}
           Goal == Ascends(queue'[s]) /\ (pc'[s] \in Empty => queue'[s] = <<>>)
<1>0. /\ Ascends(queue[s]) /\ (pc[s] \in Empty => queue[s] = <<>>)
      /\ Len(cmds) \in Nat /\ queue[s] \in Seq(1..Len(cmds))
  BY DEF Ordered, Base, Types
<1>1. ASSUME queue'[s] = queue[s], pc'[s] \in Empty => pc[s] \in Empty \/ queue[s] = <<>>
      PROVE  Goal
  BY <1>0, <1>1
<1>2. ASSUME queue'[s] = <<>>
      PROVE  Goal
  BY <1>2 DEF Ascends
<1>3. ASSUME queue'[s] = Append(queue[s], Len(cmds) + 1), pc'[s] \notin Empty
      PROVE  Goal
  BY <1>0, <1>3, AscendsAppend
<1> HIDE DEF Goal
<1>4. ASSUME NEW r \in Source, Local(r)
      PROVE  Goal
  <2>1. queue' = queue
    BY <1>4, BaseLocal
  <2>2. \A t \in Source : pc'[t] \in Empty => pc[t] \in Empty
    BY <1>4 DEF Local, ReadFrame, Gate, Cold, TopUp, Receive, Then, RunContinuation, SetDepth,
         Close, Seek, SetRate, CancelPending, user, Goto, Base, Types
  <2> QED BY <1>1, <2>1, <2>2
<1>5. ASSUME NEW r \in Source, Vend(r)
      PROVE  Goal
  <2>1. CASE queue[r] = <<>>
    <3>1. queue' = queue /\ \A t \in Source : t # r => pc'[t] = pc[t]
      BY <1>5, <2>1 DEF Vend, cache, Goto, Base, Types
    <3> QED BY <1>1, <2>1, <3>1
  <2>2. CASE queue[r] # <<>>
    <3>1. /\ queue' = [queue EXCEPT ![r] = Tail(@)]
          /\ pc'[r] = "top" /\ \A t \in Source : t # r => pc'[t] = pc[t]
      BY <1>5, <2>2 DEF Vend, Goto, Base, Types
    <3>2. CASE s = r
      <4>1. queue'[s] = Tail(queue[s]) /\ Ascends(Tail(queue[s]))
        BY <1>0, <2>2, <3>1, <3>2, AscendsTail DEF Base, Types
      <4> QED BY <3>1, <3>2, <4>1 DEF Goal
    <3>3. CASE s # r
      BY <1>1, <3>1, <3>3 DEF Base, Types
    <3> QED BY <3>2, <3>3
  <2> QED BY <2>1, <2>2
<1>6. ASSUME NEW r \in Source, TopUpPost(r)
      PROVE  Goal
  <2>1. /\ queue' = [queue EXCEPT ![r] = Append(queue[r], Len(cmds) + 1)]
        /\ pc'[r] = "top" /\ \A t \in Source : t # r => pc'[t] = pc[t]
    BY <1>6 DEF TopUpPost, Enqueued, Goto, Base, Types
  <2> QED BY <1>1, <1>3, <2>1 DEF Base, Types
<1>7. ASSUME NEW r \in Source, \/ ColdPost(r) \/ ClosePost(r) \/ SeekPost(r)
                               \/ CancelWork(r) \/ RateReturn(r)
      PROVE  Goal
  <2>1. queue' = queue /\ \A t \in Source : pc'[t] \in Empty => pc[t] \in Empty
    BY <1>7 DEF ColdPost, ClosePost, SeekPost, CancelWork, RateReturn, cache, Goto, Base, Types
  <2> QED BY <1>1, <2>1
<1>8. ASSUME NEW r \in Source, CancelAll(r),
             \A t \in Source : pc'[t] \in Empty => pc[t] \in Empty
      PROVE  Goal
  <2>1. queue' = [queue EXCEPT ![r] = <<>>]
    BY <1>8, CancelAllWide DEF Base
  <2> QED BY <1>1, <1>2, <1>8, <2>1 DEF Base, Types
<1>9. ASSUME NEW r \in Source, DropCaches(r) \/ CancelPendingDrop(r)
      PROVE  Goal
  <2>1. PICK t \in Source : CancelAll(t)
    BY <1>9, TailFacts DEF DropCaches, CancelPendingDrop, Base, Types, Proc
  <2>2. \A u \in Source : pc'[u] \in Empty => pc[u] \in Empty
    BY <1>9 DEF DropCaches, CancelPendingDrop, user, Goto, Base, Types
  <2> QED BY <1>8, <2>1, <2>2
<1>10. ASSUME NEW p \in Proc, DropSibling(p)
       PROVE  Goal
  <2>1. CancelAll(NextPort(p)) /\ NextPort(p) \in Source /\ UNCHANGED pc
    BY <1>10, BusyFacts DEF DropSibling, user
  <2> QED BY <1>8, <2>1
<1>11. ASSUME NEW p \in Proc, PushEos(p)
       PROVE  Goal
  <2>1. NextPort(p) \in Source /\ UNCHANGED pc
    BY <1>11, BusyFacts DEF PushEos, user
  <2>2. /\ queue' = [queue EXCEPT ![NextPort(p)] = Append(queue[NextPort(p)], Len(cmds) + 1)]
        /\ ~Locked(NextPort(p))
    BY <1>11, <2>1, EosWide DEF Base
  <2>3. CASE s = NextPort(p)
    BY <1>3, <2>1, <2>2, <2>3 DEF Base, Types, Locked
  <2>4. CASE s # NextPort(p)
    BY <1>1, <2>1, <2>2, <2>4 DEF Base, Types
  <2> QED BY <2>3, <2>4
<1>12. ASSUME NEW p \in Proc, Complete(p) \/ Notify(p) \/ MarkCompleted(p) \/ Reply(p)
       PROVE  Goal
  <2>1. UNCHANGED <<queue, pc>>
    BY <1>12 DEF Complete, Notify, MarkCompleted, Reply, cache, user
  <2> QED BY <1>1, <2>1
<1>13. ASSUME Dispatch \/ Execute
       PROVE  Goal
  BY <1>1, <1>13, BaseWorker
<1>14. ASSUME UNCHANGED vars
       PROVE  Goal
  BY <1>1, <1>14 DEF vars, cache, user
<1>15. Goal
  BY <1>4, <1>5, <1>6, <1>7, <1>9, <1>10, <1>11, <1>12, <1>13, <1>14, Steps
  DEF Submit, CompleteCommand
<1> QED BY <1>15 DEF Goal

\* mediaioreadcache.cpp: what a thread is vended was submitted before everything its
\* cache still holds, whoever prefetched, cancelled, ended or closed in between.
THEOREM SourceVendedInOrder == Spec => VendedInOrder
<1> DEFINE InOrder == \A s \in Source :
              req'[s] # req[s] /\ req'[s] # 0 =>
                 \A i \in DOMAIN queue'[s] : queue'[s][i] > req'[s]
<1>1. Init => Ordered
  BY DEF Init, Ordered, Ascends
<1>2. Base /\ Ordered /\ [Next]_vars => [InOrder]_vars
  <2> SUFFICES ASSUME Base, Ordered, Next, NEW s \in Source, req'[s] # req[s], req'[s] # 0
               PROVE  \A i \in DOMAIN queue'[s] : queue'[s][i] > req'[s]
    BY DEF InOrder
  <2>1. CASE \E r \in Source : Vend(r)
    <3>1. PICK r \in Source : Vend(r)
      BY <2>1
    <3>2. queue[r] # <<>>
      BY <3>1 DEF Vend
    <3>3. /\ req' = [req EXCEPT ![r] = Head(queue[r])]
          /\ queue' = [queue EXCEPT ![r] = Tail(@)]
      BY <3>1, <3>2 DEF Vend
    <3>4. s = r
      BY <3>3 DEF Base, Types
    <3>5. /\ queue[s] \in Seq(1..Len(cmds)) /\ Len(cmds) \in Nat /\ Ascends(queue[s])
          /\ req'[s] = Head(queue[s]) /\ queue'[s] = Tail(queue[s])
      BY <3>3, <3>4 DEF Base, Types, Ordered
    <3> QED BY <3>2, <3>4, <3>5, AscendsTail
  <2>2. CASE \E r \in Source : ColdPost(r)
    <3>1. PICK r \in Source : ColdPost(r)
      BY <2>2
    <3>2. req' = [req EXCEPT ![r] = Len(cmds) + 1] /\ queue' = queue /\ pc[r] = "coldPost"
      BY <3>1 DEF ColdPost
    <3>3. s = r
      BY <3>2 DEF Base, Types
    <3>4. queue'[s] = <<>>
      BY <3>2, <3>3 DEF Ordered
    <3> QED BY <3>4
  <2>3. CASE \E r \in Source : Local(r)
    <3>1. PICK r \in Source : Local(r)
      BY <2>3
    <3>2. req' = req \/ req' = [req EXCEPT ![r] = 0]
      BY <3>1 DEF Local, ReadFrame, Gate, Cold, TopUp, Receive, Then, RunContinuation, SetDepth,
                  Close, Seek, SetRate, CancelPending, user
    <3> QED BY <3>2 DEF Base, Types
  <2>4. CASE req' = req
    BY <2>4
  <2>5. CASE \E r \in Source : \/ TopUpPost(r) \/ ClosePost(r) \/ SeekPost(r) \/ CancelWork(r)
                               \/ DropCaches(r) \/ RateReturn(r) \/ CancelPendingDrop(r)
    BY <2>4, <2>5 DEF TopUpPost, ClosePost, SeekPost, CancelWork, DropCaches, RateReturn,
                      CancelPendingDrop, user
  <2>6. CASE Dispatch \/ Execute \/ \E p \in Proc : CompleteCommand(p)
    BY <2>4, <2>6, BaseWorker, BaseComplete
  <2> QED BY <2>1, <2>2, <2>3, <2>5, <2>6, Steps DEF Submit
<1> QED BY <1>1, <1>2, BaseAlways, OrderedStep, PTL DEF Spec, VendedInOrder

-----------------------------------------------------------------------------
(* Every command that is not completed is in one place.                     *)

Distinct(q) == \A i, j \in DOMAIN q : q[i] = q[j] => i = j

\* Nothing in an empty sequence, one thing in a sequence of one.
LEMMA ElementsSmall ==
  ASSUME NEW x
  PROVE  /\ Distinct(<<>>) /\ Elements(<<>>) = {}
         /\ Distinct(<<x>>) /\ Elements(<<x>>) = {x}
BY DEF Distinct, Elements

\* What a sequence of different elements holds when its head is taken.
LEMMA DistinctTail ==
  ASSUME NEW S, NEW q \in Seq(S), q # <<>>, Distinct(q)
  PROVE  /\ Distinct(Tail(q)) /\ Elements(q) = {Head(q)} \cup Elements(Tail(q))
         /\ Head(q) \notin Elements(Tail(q))
<1>1. /\ Head(q) = q[1] /\ 1 \in DOMAIN q /\ Len(q) > 0 /\ Len(q) \in Nat
      /\ DOMAIN q = 1..Len(q) /\ DOMAIN Tail(q) = 1..(Len(q) - 1)
      /\ \A i \in 1..(Len(q) - 1) : Tail(q)[i] = q[i + 1]
  BY TailFacts
<1>2. ASSUME NEW i \in DOMAIN Tail(q), NEW j \in DOMAIN Tail(q), Tail(q)[i] = Tail(q)[j]
      PROVE  i = j
  <2>1. i + 1 \in DOMAIN q /\ j + 1 \in DOMAIN q /\ q[i + 1] = q[j + 1]
    BY <1>1, <1>2
  <2>2. i + 1 = j + 1
    BY <2>1 DEF Distinct
  <2> QED BY <1>1, <2>2
<1>3. \A i \in DOMAIN q : i = 1 \/ (i - 1 \in DOMAIN Tail(q) /\ Tail(q)[i - 1] = q[i])
  BY <1>1
<1>4. ASSUME NEW x \in Elements(q)
      PROVE  x \in {Head(q)} \cup Elements(Tail(q))
  <2>1. PICK i \in DOMAIN q : x = q[i]
    BY DEF Elements
  <2>2. CASE i = 1
    BY <1>1, <2>1, <2>2
  <2>3. CASE i # 1
    <3>1. i - 1 \in DOMAIN Tail(q) /\ Tail(q)[i - 1] = x
      BY <1>3, <2>1, <2>3
    <3> QED BY <3>1 DEF Elements
  <2> QED BY <2>2, <2>3
<1>5. \A i \in DOMAIN Tail(q) : i + 1 \in DOMAIN q /\ i + 1 # 1 /\ Tail(q)[i] = q[i + 1]
  BY <1>1
<1>6. {Head(q)} \cup Elements(Tail(q)) \subseteq Elements(q)
  BY <1>1, <1>5 DEF Elements
<1>7. Head(q) \notin Elements(Tail(q))
  BY <1>1, <1>5 DEF Elements, Distinct
<1> QED BY <1>2, <1>4, <1>6, <1>7 DEF Distinct

\* What it holds when something new is appended.
LEMMA DistinctAppend ==
  ASSUME NEW S, NEW q \in Seq(S), NEW x \in S, Distinct(q), x \notin Elements(q)
  PROVE  Distinct(Append(q, x)) /\ Elements(Append(q, x)) = Elements(q) \cup {x}
<1>1. /\ Len(q) \in Nat /\ DOMAIN q = 1..Len(q) /\ DOMAIN Append(q, x) = 1..(Len(q) + 1)
      /\ \A i \in 1..Len(q) : Append(q, x)[i] = q[i]
      /\ Append(q, x)[Len(q) + 1] = x
  BY AppendFacts
<1>2. \A i \in DOMAIN q : q[i] # x
  BY DEF Elements
<1>3. Distinct(Append(q, x))
  BY <1>1, <1>2 DEF Distinct
<1>4. Elements(Append(q, x)) = Elements(q) \cup {x}
  BY <1>1 DEF Elements
<1> QED BY <1>3, <1>4

\* A command on the strand st or in a job of jb is in no other, and there once.
OnePlace(st, jb) ==
    /\ Distinct(st)
    /\ \A p \in Proc : Distinct(jb[p]) /\ Elements(st) \cap Elements(jb[p]) = {}
    /\ \A p, q \in Proc : p # q => Elements(jb[p]) \cap Elements(jb[q]) = {}

\* None of them has completed but the one that is being replied to.
Unfinished(st, jb, c, at) ==
    /\ \A x \in Elements(st) : ~c[x].completed
    /\ \A p \in Proc : \A x \in Elements(jb[p]) :
          c[x].completed => x = Head(jb[p]) /\ at[p] = "reply"

\* What a process does in completeCommand goes with its command, and a thread outside
\* cancelPendingWork has none.
Fitting ==
    /\ \A p \in Proc : /\ step[p] \in {"drop", "notify"} => cmds[Current(p)].kind = "read"
                       /\ step[p] = "eos" => cmds[Current(p)].kind = "close"
    /\ \A s \in Source : pc[s] \notin {"seekDrop", "rateDrop"} => job[s] = <<>>

Work == OnePlace(strand, job) /\ Unfinished(strand, job, cmds, step) /\ Fitting

\* What is on the strand or in a job is a command.
LEMMA ElementsIds ==
  ASSUME Types
  PROVE  /\ Elements(strand) \subseteq DOMAIN cmds
         /\ \A p \in Proc : Elements(job[p]) \subseteq DOMAIN cmds
BY DEF Types, Elements

\* At the start nothing is anywhere.
LEMMA WorkInit == Init => Work
<1> SUFFICES ASSUME Init PROVE Work
  OBVIOUS
<1>1. strand = <<>> /\ \A p \in Proc : job[p] = <<>> /\ step[p] = "none"
  BY DEF Init
<1>2. \A s \in Source : job[s] = <<>>
  BY DEF Init, Proc
<1> QED BY <1>1, <1>2, ElementsSmall DEF Work, OnePlace, Unfinished, Fitting

\* No command is in two places.
LEMMA OnePlaceStep ==
  ASSUME Base, Work, [Next]_vars
  PROVE  OnePlace(strand', job')
<1> USE DEF Base
<1>1. CASE UNCHANGED <<strand, job>>
  BY <1>1 DEF Work
<1>2. ASSUME NEW k \in {"read", "seek", "close"}, Post(k), UNCHANGED job
      PROVE  OnePlace(strand', job')
  <2>1. /\ strand' = Append(strand, Len(cmds) + 1) /\ Len(cmds) + 1 \notin DOMAIN cmds
        /\ Len(cmds) + 1 \in DOMAIN cmds' /\ strand \in Seq(DOMAIN cmds')
    BY <1>2, PostWide, WideKeeps DEF Widened
  <2>2. Distinct(strand') /\ Elements(strand') = Elements(strand) \cup {Len(cmds) + 1}
    BY <2>1, ElementsIds, DistinctAppend DEF Work, OnePlace
  <2> QED BY <1>2, <2>1, <2>2, ElementsIds DEF Work, OnePlace
<1>3. ASSUME NEW s \in Source, CancelWork(s)
      PROVE  OnePlace(strand', job')
  <2>1. strand' = <<>> /\ job' = [job EXCEPT ![s] = strand] /\ job[s] = <<>>
    BY <1>3 DEF CancelWork, Work, Fitting
  <2>2. s \in Proc /\ \A p \in Proc : job'[p] = IF p = s THEN strand ELSE job[p]
    BY <2>1 DEF Types, Proc
  <2>3. /\ Distinct(strand)
        /\ \A p \in Proc : Distinct(job[p]) /\ Elements(strand) \cap Elements(job[p]) = {}
        /\ \A p, q \in Proc : p # q => Elements(job[p]) \cap Elements(job[q]) = {}
    BY DEF Work, OnePlace
  <2>4. Distinct(strand') /\ Elements(strand') = {}
    BY <2>1, ElementsSmall
  <2>5. \A p \in Proc : Distinct(job'[p])
    BY <2>2, <2>3
  <2>6. ASSUME NEW p \in Proc, NEW q \in Proc, p # q
        PROVE  Elements(job'[p]) \cap Elements(job'[q]) = {}
    <3>1. CASE p = s
      <4>1. job'[p] = strand /\ job'[q] = job[q]
        BY <2>2, <2>6, <3>1
      <4> QED BY <2>3, <4>1
    <3>2. CASE q = s
      <4>1. job'[q] = strand /\ job'[p] = job[p]
        BY <2>2, <2>6, <3>2
      <4> QED BY <2>3, <4>1
    <3>3. CASE p # s /\ q # s
      <4>1. job'[p] = job[p] /\ job'[q] = job[q]
        BY <2>2, <3>3
      <4> QED BY <2>3, <2>6, <4>1
    <3> QED BY <3>1, <3>2, <3>3
  <2> QED BY <2>4, <2>5, <2>6 DEF OnePlace
<1>4. CASE Dispatch
  <2>1. /\ strand # <<>> /\ strand' = Tail(strand) /\ strand \in Seq(DOMAIN cmds)
        /\ job[Worker] = <<>> /\ job' = [job EXCEPT ![Worker] = <<Head(strand)>>]
    BY <1>4 DEF Dispatch, Types
  <2>2. /\ Distinct(strand') /\ Elements(strand) = {Head(strand)} \cup Elements(strand')
        /\ Head(strand) \notin Elements(strand')
    BY <2>1, DistinctTail DEF Work, OnePlace
  <2>3. \A p \in Proc : job'[p] = IF p = Worker THEN <<Head(strand)>> ELSE job[p]
    BY <2>1 DEF Types
  <2> QED BY <2>2, <2>3, ElementsSmall DEF Work, OnePlace
<1>5. ASSUME NEW p \in Proc, Reply(p)
      PROVE  OnePlace(strand', job')
  <2>1. job' = [job EXCEPT ![p] = Tail(@)] /\ UNCHANGED strand /\ step[p] = "reply"
    BY <1>5 DEF Reply, commands
  <2>2. job[p] # <<>> /\ job[p] \in Seq(DOMAIN cmds)
    BY <2>1 DEF Busy, Types
  <2>3. /\ Distinct(Tail(job[p])) /\ Elements(job[p]) = {Head(job[p])} \cup Elements(Tail(job[p]))
    BY <2>2, DistinctTail DEF Work, OnePlace
  <2>4. \A q \in Proc : job'[q] = IF q = p THEN Tail(job[p]) ELSE job[q]
    BY <2>1 DEF Types
  <2> QED BY <2>1, <2>3, <2>4 DEF Work, OnePlace
<1>6. ASSUME NEW s \in Source, Submit(s)
      PROVE  OnePlace(strand', job')
  BY <1>2, <1>6 DEF Submit, ColdPost, TopUpPost, ClosePost, SeekPost, completion
<1>7. ASSUME NEW p \in Proc, \/ Complete(p) \/ DropSibling(p) \/ Notify(p) \/ PushEos(p)
                             \/ MarkCompleted(p)
      PROVE  OnePlace(strand', job')
  BY <1>1, <1>7 DEF Complete, DropSibling, Notify, PushEos, MarkCompleted, commands
<1>8. ASSUME NEW s \in Source, \/ Local(s) \/ Vend(s) \/ RateReturn(s) \/ DropCaches(s)
                               \/ CancelPendingDrop(s)
      PROVE  OnePlace(strand', job')
  <2>1. CASE Local(s) \/ Vend(s) \/ DropCaches(s) \/ CancelPendingDrop(s)
    BY <1>1, <2>1, BaseLocal, BaseVend, BaseDrop
  <2>2. CASE RateReturn(s)
    BY <1>1, <2>2 DEF RateReturn, commands, completion
  <2> QED BY <1>8, <2>1, <2>2
<1>9. CASE Execute
  BY <1>1, <1>9 DEF Execute
<1>10. CASE UNCHANGED vars
  BY <1>1, <1>10 DEF vars, commands, completion
<1> QED BY <1>3, <1>4, <1>5, <1>6, <1>7, <1>8, <1>9, <1>10, Steps DEF CompleteCommand

\* Steps that hand no command on complete none, unless it is the one they work on.
LEMMA UnfinishedStep ==
  ASSUME Base, Work, [Next]_vars
  PROVE  Unfinished(strand', job', cmds', step')
<1> USE DEF Base
<1>0. /\ Elements(strand) \subseteq DOMAIN cmds
      /\ \A p \in Proc : Elements(job[p]) \subseteq DOMAIN cmds
      /\ Unfinished(strand, job, cmds, step) /\ OnePlace(strand, job)
  BY ElementsIds DEF Work
<1>1. ASSUME UNCHANGED <<strand, job>>,
             \A c \in DOMAIN cmds : cmds'[c].completed = cmds[c].completed,
             \A p \in Proc : step[p] = "reply" => step'[p] = "reply"
      PROVE  Unfinished(strand', job', cmds', step')
  BY <1>0, <1>1 DEF Unfinished
<1>2. ASSUME NEW s \in Source, Submit(s)
      PROVE  Unfinished(strand', job', cmds', step')
  <2>1. PICK k \in {"read", "seek", "close"} : Post(k)
    BY <1>2 DEF Submit, ColdPost, TopUpPost, ClosePost, SeekPost
  <2>2. UNCHANGED <<job, step>>
    BY <1>2 DEF Submit, ColdPost, TopUpPost, ClosePost, SeekPost, completion
  <2>3. /\ strand' = Append(strand, Len(cmds) + 1) /\ Len(cmds) + 1 \notin DOMAIN cmds
        /\ Len(cmds) + 1 \in DOMAIN cmds' /\ strand \in Seq(DOMAIN cmds')
        /\ cmds'[Len(cmds) + 1] = NewCommand(k) /\ \A c \in DOMAIN cmds : cmds'[c] = cmds[c]
    BY <2>1, PostWide, WideKeeps DEF Widened
  <2>4. Elements(strand') = Elements(strand) \cup {Len(cmds) + 1}
    BY <1>0, <2>3, DistinctAppend DEF OnePlace
  <2>5. ~NewCommand(k).completed
    BY DEF NewCommand
  <2> QED BY <1>0, <2>2, <2>3, <2>4, <2>5 DEF Unfinished
<1>3. ASSUME NEW s \in Source, CancelWork(s)
      PROVE  Unfinished(strand', job', cmds', step')
  <2>1. /\ strand' = <<>> /\ job' = [job EXCEPT ![s] = strand] /\ UNCHANGED cmds
        /\ step' = [step EXCEPT ![s] = IF strand = <<>> THEN "none" ELSE "start"]
    BY <1>3 DEF CancelWork
  <2>2. \A p \in Proc : /\ job'[p] = IF p = s THEN strand ELSE job[p]
                        /\ p # s => step'[p] = step[p]
    BY <2>1 DEF Types
  <2>3. Elements(strand') = {}
    BY <2>1, ElementsSmall
  <2>4. ASSUME NEW p \in Proc, NEW x \in Elements(job'[p]), cmds'[x].completed
        PROVE  x = Head(job'[p]) /\ step'[p] = "reply"
    <3>1. p # s
      BY <1>0, <2>1, <2>2, <2>4 DEF Unfinished
    <3> QED BY <1>0, <2>1, <2>2, <2>4, <3>1 DEF Unfinished
  <2> QED BY <2>3, <2>4 DEF Unfinished
<1>4. CASE Dispatch
  <2>1. /\ strand # <<>> /\ strand' = Tail(strand) /\ strand \in Seq(DOMAIN cmds)
        /\ job' = [job EXCEPT ![Worker] = <<Head(strand)>>] /\ UNCHANGED cmds
        /\ step' = [step EXCEPT ![Worker] =
                      IF cmds[Head(strand)].cancelled THEN "start" ELSE "exec"]
    BY <1>4 DEF Dispatch, Types
  <2>2. Elements(strand) = {Head(strand)} \cup Elements(strand')
    BY <1>0, <2>1, DistinctTail DEF OnePlace
  <2>3. \A p \in Proc : /\ job'[p] = IF p = Worker THEN <<Head(strand)>> ELSE job[p]
                        /\ p # Worker => step'[p] = step[p]
    BY <2>1 DEF Types
  <2> QED BY <1>0, <2>1, <2>2, <2>3, ElementsSmall DEF Unfinished
<1>5. CASE Execute
  <2>1. /\ UNCHANGED <<strand, job>> /\ step[Worker] = "exec" /\ Worker \in Proc
        /\ step' = [step EXCEPT ![Worker] = "start"]
    BY <1>5 DEF Execute, Proc
  <2>2. \A c \in DOMAIN cmds : cmds'[c].completed = cmds[c].completed
    <3> DEFINE r == Answer(cmds[Current(Worker)].kind)
    <3>1. r \in Result
      BY DEF Answer, Result
    <3>2. cmds' = [cmds EXCEPT ![Current(Worker)].result = r] /\ Current(Worker) \in DOMAIN cmds
      BY <1>5, <2>1, BusyFacts DEF Execute, Current
    <3> HIDE DEF r
    <3> QED BY <3>1, <3>2, ResultWide
  <2> QED BY <1>1, <2>1, <2>2 DEF Types
<1>6. ASSUME NEW p \in Proc, Complete(p)
      PROVE  Unfinished(strand', job', cmds', step')
  <2>1. /\ UNCHANGED <<strand, job>> /\ step[p] = "start"
        /\ \A q \in Proc : q # p => step'[q] = step[q]
    BY <1>6 DEF Complete, Types
  <2>2. \A c \in DOMAIN cmds : cmds'[c].completed = cmds[c].completed
    <3> DEFINE c == Current(p)
               r == IF cmds[c].result = "none" THEN "cancelled" ELSE cmds[c].result
    <3>1. c \in DOMAIN cmds /\ cmds[c] \in Command
      BY <2>1, BusyFacts DEF Types
    <3>2. r \in Result
      BY <3>1 DEF Command, Result
    <3>3. cmds' = [cmds EXCEPT ![c].result = r]
      BY Zenon, <1>6 DEF Complete
    <3> HIDE DEF r, c
    <3> QED BY <3>1, <3>2, <3>3, ResultWide
  <2> QED BY <1>1, <2>1, <2>2
<1>7. ASSUME NEW p \in Proc, DropSibling(p) \/ Notify(p) \/ PushEos(p)
      PROVE  Unfinished(strand', job', cmds', step')
  <2>1. /\ UNCHANGED <<strand, job>> /\ step[p] # "reply" /\ step[p] # "none"
        /\ \A q \in Proc : q # p => step'[q] = step[q]
    BY <1>7 DEF DropSibling, Notify, PushEos, commands, Types
  <2>2. \A c \in DOMAIN cmds : cmds'[c].completed = cmds[c].completed
    <3>1. CASE DropSibling(p)
      BY <3>1, BusyFacts, CancelAllWide DEF DropSibling
    <3>2. CASE Notify(p)
      BY <3>2 DEF Notify, commands
    <3>3. CASE PushEos(p)
      BY <3>3, BusyFacts, EosWide DEF PushEos
    <3> QED BY <1>7, <3>1, <3>2, <3>3
  <2> QED BY <1>1, <2>1, <2>2
<1>8. ASSUME NEW p \in Proc, MarkCompleted(p)
      PROVE  Unfinished(strand', job', cmds', step')
  <2>1. /\ UNCHANGED <<strand, job>> /\ step[p] = "mark" /\ step' = [step EXCEPT ![p] = "reply"]
        /\ cmds' = [cmds EXCEPT ![Current(p)] = Resolved(@)]
    BY <1>8 DEF MarkCompleted
  <2>2. job[p] # <<>> /\ Current(p) \in DOMAIN cmds
    BY <2>1, BusyFacts
  <2>3. Current(p) = Head(job[p]) /\ Current(p) \in Elements(job[p])
    BY <2>2, TailFacts DEF Types, Current, Elements
  <2>4. \A c \in DOMAIN cmds : c # Current(p) => cmds'[c] = cmds[c]
    BY <2>1
  <2>5. step'[p] = "reply" /\ \A q \in Proc : q # p => step'[q] = step[q]
    BY <2>1 DEF Types
  <2>6. \A x \in Elements(strand) : ~cmds'[x].completed
    BY <1>0, <2>3, <2>4 DEF Unfinished, OnePlace
  <2>7. ASSUME NEW q \in Proc, NEW x \in Elements(job[q]), cmds'[x].completed
        PROVE  x = Head(job[q]) /\ step'[q] = "reply"
    <3>1. CASE q = p
      BY <1>0, <2>1, <2>3, <2>4, <2>5, <2>7, <3>1 DEF Unfinished
    <3>2. CASE q # p
      <4>1. x # Current(p)
        BY <1>0, <2>3, <3>2 DEF OnePlace
      <4> QED BY <1>0, <2>4, <2>5, <2>7, <3>2, <4>1 DEF Unfinished
    <3> QED BY <3>1, <3>2
  <2> QED BY <2>1, <2>6, <2>7 DEF Unfinished
<1>9. ASSUME NEW p \in Proc, Reply(p)
      PROVE  Unfinished(strand', job', cmds', step')
  <2>1. /\ job' = [job EXCEPT ![p] = Tail(@)] /\ UNCHANGED <<strand, cmds>>
        /\ step' = [step EXCEPT ![p] = IF Tail(job[p]) = <<>> THEN "none" ELSE "start"]
        /\ step[p] = "reply"
    BY <1>9 DEF Reply, commands
  <2>2. job[p] # <<>> /\ job[p] \in Seq(DOMAIN cmds)
    BY <2>1, BusyFacts DEF Types
  <2>3. /\ Elements(job[p]) = {Head(job[p])} \cup Elements(Tail(job[p]))
        /\ Head(job[p]) \notin Elements(Tail(job[p]))
    BY <1>0, <2>2, DistinctTail DEF OnePlace
  <2>4. \A q \in Proc : /\ job'[q] = IF q = p THEN Tail(job[p]) ELSE job[q]
                        /\ q # p => step'[q] = step[q]
    BY <2>1 DEF Types
  <2> QED BY <1>0, <2>1, <2>3, <2>4 DEF Unfinished
<1>10. ASSUME NEW s \in Source, \/ Local(s) \/ Vend(s) \/ RateReturn(s) \/ DropCaches(s)
                                \/ CancelPendingDrop(s)
       PROVE  Unfinished(strand', job', cmds', step')
  <2>1. CASE Local(s) \/ Vend(s)
    BY <1>1, <2>1, BaseLocal, BaseVend
  <2>2. CASE RateReturn(s)
    BY <1>1, <2>2 DEF RateReturn, commands, completion
  <2>3. CASE DropCaches(s) \/ CancelPendingDrop(s)
    <3>1. PICK r \in Source : CancelAll(r)
      BY <2>3, TailFacts DEF DropCaches, CancelPendingDrop, Types, Proc
    <3>2. \A c \in DOMAIN cmds : cmds'[c].completed = cmds[c].completed
      BY <3>1, CancelAllWide
    <3> QED BY <1>1, <2>3, <3>2, BaseDrop
  <2> QED BY <1>10, <2>1, <2>2, <2>3
<1>11. CASE UNCHANGED vars
  BY <1>1, <1>11 DEF vars, commands, completion
<1> QED BY <1>2, <1>3, <1>4, <1>5, <1>6, <1>7, <1>8, <1>9, <1>10, <1>11, Steps
    DEF CompleteCommand

\* The step of a process goes with the kind of its command.
LEMMA KindStep ==
  ASSUME Base, Work, [Next]_vars, NEW p \in Proc
  PROVE  /\ step'[p] \in {"drop", "notify"} => cmds'[Current(p)'].kind = "read"
         /\ step'[p] = "eos" => cmds'[Current(p)'].kind = "close"
<1> DEFINE Goal == /\ step'[p] \in {"drop", "notify"} => cmds'[Current(p)'].kind = "read"
                   /\ step'[p] = "eos" => cmds'[Current(p)'].kind = "close"
<1> USE DEF Base
<1>0. /\ Widened
      /\ step[p] \in {"drop", "notify"} => cmds[Current(p)].kind = "read"
      /\ step[p] = "eos" => cmds[Current(p)].kind = "close"
      /\ step[p] # "none" => Current(p) \in DOMAIN cmds
  BY BaseStep, BusyFacts DEF Work, Fitting
<1>1. ASSUME job'[p] = job[p], \/ step'[p] = step[p]
                               \/ step[p] = "drop" /\ step'[p] = "notify"
      PROVE  Goal
  <2>1. Current(p)' = Current(p)
    BY <1>1 DEF Current
  <2> QED BY <1>0, <1>1, <2>1 DEF Widened
<1>2. ASSUME step'[p] \notin {"drop", "notify", "eos"}
      PROVE  Goal
  BY <1>2
<1> HIDE DEF Goal
<1>3. ASSUME NEW s \in Source, \/ Local(s) \/ Submit(s) \/ Vend(s) \/ RateReturn(s)
                               \/ DropCaches(s) \/ CancelPendingDrop(s)
      PROVE  Goal
  <2>1. CASE Local(s) \/ Vend(s) \/ DropCaches(s) \/ CancelPendingDrop(s)
    BY <1>1, <2>1, BaseLocal, BaseVend, BaseDrop
  <2>2. CASE Submit(s) \/ RateReturn(s)
    BY <1>1, <2>2 DEF Submit, ColdPost, TopUpPost, ClosePost, SeekPost, RateReturn, completion
  <2> QED BY <1>3, <2>1, <2>2
<1>4. ASSUME NEW s \in Source, CancelWork(s)
      PROVE  Goal
  <2>1. /\ job' = [job EXCEPT ![s] = strand]
        /\ step' = [step EXCEPT ![s] = IF strand = <<>> THEN "none" ELSE "start"]
    BY <1>4 DEF CancelWork
  <2> QED BY <1>1, <1>2, <2>1 DEF Types
<1>5. ASSUME Dispatch PROVE Goal
  <2>1. /\ job' = [job EXCEPT ![Worker] = <<Head(strand)>>]
        /\ step' = [step EXCEPT ![Worker] =
                      IF cmds[Head(strand)].cancelled THEN "start" ELSE "exec"]
    BY <1>5 DEF Dispatch
  <2> QED BY <1>1, <1>2, <2>1 DEF Types
<1>6. ASSUME Execute PROVE Goal
  <2>1. UNCHANGED job /\ step' = [step EXCEPT ![Worker] = "start"]
    BY <1>6 DEF Execute
  <2> QED BY <1>1, <1>2, <2>1 DEF Types
<1>7. ASSUME NEW q \in Proc, Complete(q)
      PROVE  Goal
  <2> DEFINE c == Current(q)
             r == IF cmds[c].result = "none" THEN "cancelled" ELSE cmds[c].result
             end == cmds[c].kind = "read" /\ r = "eof"
             x == CASE end -> "drop"
                    [] cmds[c].kind = "read" /\ ~end -> "notify"
                    [] cmds[c].kind = "close" -> "eos"
                    [] OTHER -> "mark"
  <2>1. UNCHANGED job /\ step' = [step EXCEPT ![q] = x] /\ step[q] = "start"
    BY Zenon, <1>7 DEF Complete
  <2>2. /\ x \in {"drop", "notify"} => cmds[c].kind = "read"
        /\ x = "eos" => cmds[c].kind = "close"
    OBVIOUS
  <2> HIDE DEF x
  <2>3. CASE p = q
    <3>1. step'[p] = x /\ Current(p)' = c /\ c \in DOMAIN cmds
      BY <1>0, <2>1, <2>3 DEF Types, Current
    <3> QED BY <1>0, <2>2, <3>1 DEF Goal, Widened
  <2>4. CASE p # q
    BY <1>1, <2>1, <2>4 DEF Types
  <2> QED BY <2>3, <2>4
<1>8. ASSUME NEW q \in Proc, DropSibling(q)
      PROVE  Goal
  <2>1. /\ UNCHANGED job /\ step[q] = "drop"
        /\ step' = [step EXCEPT ![q] = IF LastPort(q) THEN "notify" ELSE @]
    BY <1>8 DEF DropSibling
  <2> QED BY <1>1, <2>1 DEF Types
<1>9. ASSUME NEW q \in Proc, Notify(q) \/ PushEos(q)
      PROVE  Goal
  <2>1. /\ UNCHANGED job
        /\ step' = [step EXCEPT ![q] = IF LastPort(q) THEN "mark" ELSE @]
    BY <1>9 DEF Notify, PushEos
  <2> QED BY <1>1, <1>2, <2>1 DEF Types
<1>10. ASSUME NEW q \in Proc, MarkCompleted(q)
       PROVE  Goal
  <2>1. UNCHANGED job /\ step' = [step EXCEPT ![q] = "reply"]
    BY <1>10 DEF MarkCompleted
  <2> QED BY <1>1, <1>2, <2>1 DEF Types
<1>11. ASSUME NEW q \in Proc, Reply(q)
       PROVE  Goal
  <2>1. /\ job' = [job EXCEPT ![q] = Tail(@)]
        /\ step' = [step EXCEPT ![q] = IF Tail(job[q]) = <<>> THEN "none" ELSE "start"]
    BY <1>11 DEF Reply
  <2> QED BY <1>1, <1>2, <2>1 DEF Types
<1>12. ASSUME UNCHANGED vars PROVE Goal
  BY <1>1, <1>12 DEF vars, completion
<1>13. Goal
  BY <1>3, <1>4, <1>5, <1>6, <1>7, <1>8, <1>9, <1>10, <1>11, <1>12, Steps DEF CompleteCommand
<1> QED BY <1>13 DEF Goal

\* Only a thread in cancelPendingWork has commands of its own to complete.
LEMMA OwnJobStep ==
  ASSUME Base, Work, [Next]_vars, NEW s \in Source, pc'[s] \notin {"seekDrop", "rateDrop"}
  PROVE  job'[s] = <<>>
<1> USE DEF Base
<1>0. pc[s] \notin {"seekDrop", "rateDrop"} => job[s] = <<>>
  BY DEF Work, Fitting
<1>1. ASSUME UNCHANGED <<pc, job>>
      PROVE  job'[s] = <<>>
  BY <1>0, <1>1
<1>2. ASSUME NEW r \in Source, \/ Local(r) \/ Submit(r) \/ Vend(r) \/ RateReturn(r)
                               \/ DropCaches(r) \/ CancelPendingDrop(r)
      PROVE  job'[s] = <<>>
  <2>1. UNCHANGED job
    <3>1. CASE Local(r) \/ Vend(r) \/ DropCaches(r) \/ CancelPendingDrop(r)
      BY <3>1, BaseLocal, BaseVend, BaseDrop
    <3>2. CASE Submit(r) \/ RateReturn(r)
      BY <3>2 DEF Submit, ColdPost, TopUpPost, ClosePost, SeekPost, RateReturn, completion
    <3> QED BY <1>2, <3>1, <3>2
  <2>2. \/ pc'[s] = pc[s]
        \/ s = r /\ (pc[r] \notin {"seekDrop", "rateDrop"} \/ job[r] = <<>>)
    <3>1. CASE Local(r)
      BY <3>1 DEF Local, ReadFrame, Gate, Cold, TopUp, Receive, Then, RunContinuation, SetDepth,
                  Close, Seek, SetRate, CancelPending, Call, Goto, user, Types
    <3>2. CASE Submit(r) \/ RateReturn(r)
      BY <3>2 DEF Submit, ColdPost, TopUpPost, ClosePost, SeekPost, RateReturn, Dropping, Goto,
                  Types
    <3>3. CASE Vend(r) \/ DropCaches(r) \/ CancelPendingDrop(r)
      BY <3>3 DEF Vend, DropCaches, CancelPendingDrop, Goto, user, Types
    <3> QED BY <1>2, <3>1, <3>2, <3>3
  <2> QED BY <1>0, <2>1, <2>2
<1>3. ASSUME NEW r \in Source, CancelWork(r)
      PROVE  job'[s] = <<>>
  <2>1. /\ job' = [job EXCEPT ![r] = strand]
        /\ pc' = [pc EXCEPT ![r] = IF pc[r] = "seek" THEN "seekDrop" ELSE "rateDrop"]
    BY <1>3 DEF CancelWork, Goto
  <2>2. s # r /\ pc'[s] = pc[s] /\ job'[s] = job[s]
    BY <2>1 DEF Types, Proc
  <2> QED BY <1>0, <2>2
<1>4. CASE Dispatch
  <2>1. job' = [job EXCEPT ![Worker] = <<Head(strand)>>] /\ UNCHANGED pc
    BY <1>4 DEF Dispatch, user
  <2>2. s # Worker /\ s \in Proc
    BY SourceAssumption DEF Proc
  <2>3. job'[s] = job[s]
    BY <2>1, <2>2 DEF Types
  <2> QED BY <1>0, <2>1, <2>3
<1>5. CASE Execute
  BY <1>1, <1>5 DEF Execute, user
<1>6. ASSUME NEW p \in Proc, Reply(p)
      PROVE  job'[s] = <<>>
  <2>1. job' = [job EXCEPT ![p] = Tail(@)] /\ UNCHANGED pc /\ step[p] = "reply"
    BY <1>6 DEF Reply, user
  <2>2. job[p] # <<>>
    BY <2>1, BusyFacts
  <2> QED BY <1>0, <2>1, <2>2 DEF Types
<1>7. ASSUME NEW p \in Proc, \/ Complete(p) \/ DropSibling(p) \/ Notify(p) \/ PushEos(p)
                             \/ MarkCompleted(p)
      PROVE  job'[s] = <<>>
  BY <1>1, <1>7 DEF Complete, DropSibling, Notify, PushEos, MarkCompleted, user
<1>8. CASE UNCHANGED vars
  BY <1>1, <1>8 DEF vars, user, completion
<1> QED BY <1>2, <1>3, <1>4, <1>5, <1>6, <1>7, <1>8, Steps DEF CompleteCommand

\* Work is inductive.
LEMMA WorkStep == Base /\ Work /\ [Next]_vars => Work'
<1> SUFFICES ASSUME Base, Work, [Next]_vars PROVE Work'
  OBVIOUS
<1>1. Fitting'
  BY KindStep, OwnJobStep DEF Fitting
<1> QED BY <1>1, OnePlaceStep, UnfinishedStep DEF Work

-----------------------------------------------------------------------------
(* The reads in flight.                                                     *)

\* Command x of c is a read that has not been taken off the count yet.
InFlight(x, c, jb, at) ==
    /\ c[x].kind = "read" /\ ~c[x].completed
    /\ \A p \in Proc : jb[p] # <<>> /\ x = Head(jb[p]) => at[p] \notin {"notify", "mark"}

LEMMA OutstandingIs ==
  /\ Outstanding = {x \in DOMAIN cmds : InFlight(x, cmds, job, step)}
  /\ Outstanding' = {x \in DOMAIN cmds' : InFlight(x, cmds', job', step')}
BY DEF Outstanding, InFlight, Current

LEMMA OutstandingFinite ==
  ASSUME Types
  PROVE  IsFiniteSet(Outstanding)
<1>1. IsFiniteSet(1..Len(cmds))
  BY FS_Interval DEF Types
<1>2. Outstanding \subseteq 1..Len(cmds)
  BY DEF Outstanding, Types
<1> QED BY <1>1, <1>2, FS_Subset

\* A step may leave the reads in flight alone ...
LEMMA CountSame ==
  ASSUME PendingReadsCounted, Widened, UNCHANGED pending,
         \A x \in DOMAIN cmds : InFlight(x, cmds', job', step') <=> InFlight(x, cmds, job, step),
         \A x \in DOMAIN cmds' \ DOMAIN cmds : ~InFlight(x, cmds', job', step')
  PROVE  PendingReadsCounted'
<1>1. Outstanding' = Outstanding
  BY OutstandingIs DEF Widened
<1> QED BY <1>1 DEF PendingReadsCounted

\* ... submit one ...
LEMMA CountUp ==
  ASSUME Types, PendingReadsCounted, NEW y, DOMAIN cmds' = DOMAIN cmds \cup {y},
         y \notin DOMAIN cmds, pending' = pending + 1, InFlight(y, cmds', job', step'),
         \A x \in DOMAIN cmds : InFlight(x, cmds', job', step') <=> InFlight(x, cmds, job, step)
  PROVE  PendingReadsCounted'
<1>1. Outstanding' = Outstanding \cup {y} /\ y \notin Outstanding
  BY OutstandingIs
<1>2. Cardinality(Outstanding') = Cardinality(Outstanding) + 1
  BY <1>1, OutstandingFinite, FS_AddElement
<1> QED BY <1>2 DEF PendingReadsCounted

\* ... or take one off.
LEMMA CountDown ==
  ASSUME Types, PendingReadsCounted, NEW y \in DOMAIN cmds, DOMAIN cmds' = DOMAIN cmds,
         pending' = pending - 1, InFlight(y, cmds, job, step), ~InFlight(y, cmds', job', step'),
         \A x \in DOMAIN cmds :
            x # y => (InFlight(x, cmds', job', step') <=> InFlight(x, cmds, job, step))
  PROVE  PendingReadsCounted'
<1>1. Outstanding' = Outstanding \ {y} /\ y \in Outstanding
  BY OutstandingIs
<1>2. Cardinality(Outstanding') = Cardinality(Outstanding) - 1
  BY <1>1, OutstandingFinite, FS_RemoveElement
<1> QED BY <1>2 DEF PendingReadsCounted

\* The count follows every step.
LEMMA CountStep ==
  Base /\ Work /\ PendingReadsCounted /\ [Next]_vars => PendingReadsCounted'
<1> SUFFICES ASSUME Base, Work, PendingReadsCounted, [Next]_vars PROVE PendingReadsCounted'
  OBVIOUS
<1> USE DEF Base
<1>0. /\ Widened
      /\ \A p \in Proc : job[p] # <<>> => Head(job[p]) \in DOMAIN cmds
  BY BaseStep, TailFacts DEF Types
<1>1. ASSUME UNCHANGED <<pending, job, step>>, DOMAIN cmds' = DOMAIN cmds,
             \A x \in DOMAIN cmds : cmds'[x].completed = cmds[x].completed
      PROVE  PendingReadsCounted'
  BY <1>0, <1>1, CountSame DEF InFlight, Widened
<1>2. ASSUME NEW s \in Source, Local(s) \/ Vend(s) \/ RateReturn(s)
      PROVE  PendingReadsCounted'
  <2>1. UNCHANGED <<pending, job, step, cmds>>
    <3>1. CASE Local(s) \/ Vend(s)
      BY <3>1, BaseLocal, BaseVend
    <3>2. CASE RateReturn(s)
      BY <3>2, BaseCancelWork DEF RateReturn, completion
    <3> QED BY <1>2, <3>1, <3>2
  <2> QED BY <1>1, <2>1
<1>3. ASSUME NEW s \in Source, DropCaches(s) \/ CancelPendingDrop(s)
      PROVE  PendingReadsCounted'
  <2>1. PICK r \in Source : CancelAll(r)
    BY <1>3, TailFacts DEF DropCaches, CancelPendingDrop, Types, Proc
  <2> QED BY <1>1, <1>3, <2>1, CancelAllWide, BaseDrop
<1>4. ASSUME NEW k \in {"read", "seek", "close"}, Post(k), UNCHANGED <<job, step>>,
             pending' = IF k = "read" THEN pending + 1 ELSE pending
      PROVE  PendingReadsCounted'
  <2> DEFINE y == Len(cmds) + 1
  <2>1. /\ DOMAIN cmds' = DOMAIN cmds \cup {y} /\ y \notin DOMAIN cmds
        /\ cmds'[y] = NewCommand(k) /\ \A c \in DOMAIN cmds : cmds'[c] = cmds[c]
    <3>1. Post(k)
      BY <1>4
    <3>2. /\ Len(cmds) \in Nat /\ Len(cmds') = y
          /\ DOMAIN cmds = 1..Len(cmds) /\ DOMAIN cmds' = 1..Len(cmds')
      BY <1>0, <3>1, PostWide, TailFacts DEF Widened
    <3>3. DOMAIN cmds' = DOMAIN cmds \cup {y} /\ y \notin DOMAIN cmds
      BY ONLY <3>2
    <3>4. cmds'[y] = NewCommand(k) /\ \A c \in DOMAIN cmds : cmds'[c] = cmds[c]
      BY <3>1, PostWide, TailFacts
    <3> QED BY <3>3, <3>4
  <2>2. cmds'[y].kind = k /\ ~cmds'[y].completed
    BY <2>1 DEF NewCommand
  <2>3. \A x \in DOMAIN cmds : InFlight(x, cmds', job', step') <=> InFlight(x, cmds, job, step)
    BY <1>4, <2>1 DEF InFlight
  <2>4. InFlight(y, cmds', job', step') <=> k = "read"
    BY <1>0, <1>4, <2>1, <2>2 DEF InFlight
  <2> HIDE DEF y
  <2>5. CASE k = "read"
    BY <1>4, <2>1, <2>3, <2>4, <2>5, CountUp
  <2>6. CASE k # "read"
    BY <1>0, <1>4, <2>1, <2>3, <2>4, <2>6, CountSame
  <2> QED BY <2>5, <2>6
<1>5. ASSUME NEW s \in Source, Submit(s)
      PROVE  PendingReadsCounted'
  <2>1. CASE ColdPost(s) \/ TopUpPost(s)
    BY <1>4, <2>1 DEF ColdPost, TopUpPost, completion
  <2>2. CASE ClosePost(s)
    BY <1>4, <2>2 DEF ClosePost, completion, group
  <2>3. CASE SeekPost(s)
    BY <1>4, <2>3 DEF SeekPost, completion
  <2> QED BY <1>5, <2>1, <2>2, <2>3 DEF Submit
<1>6. ASSUME NEW s \in Source, CancelWork(s)
      PROVE  PendingReadsCounted'
  <2>1. /\ job' = [job EXCEPT ![s] = strand] /\ job[s] = <<>> /\ UNCHANGED <<cmds, pending>>
        /\ step' = [step EXCEPT ![s] = IF strand = <<>> THEN "none" ELSE "start"]
    BY <1>6 DEF CancelWork, group, Work, Fitting
  <2>2. \A p \in Proc : \/ job'[p] = job[p] /\ step'[p] = step[p]
                        \/ job[p] = <<>> /\ step'[p] \notin {"notify", "mark"}
    BY <2>1 DEF Types
  <2>3. \A x \in DOMAIN cmds : InFlight(x, cmds', job', step') <=> InFlight(x, cmds, job, step)
    BY <2>1, <2>2 DEF InFlight
  <2> QED BY <1>0, <2>1, <2>3, CountSame
<1>7. ASSUME Dispatch \/ Execute
      PROVE  PendingReadsCounted'
  <2>1. CASE Dispatch
    <3>1. /\ job' = [job EXCEPT ![Worker] = <<Head(strand)>>] /\ job[Worker] = <<>>
          /\ UNCHANGED <<cmds, pending>>
          /\ step' = [step EXCEPT ![Worker] =
                        IF cmds[Head(strand)].cancelled THEN "start" ELSE "exec"]
      BY <2>1 DEF Dispatch, group
    <3>2. \A p \in Proc : \/ job'[p] = job[p] /\ step'[p] = step[p]
                          \/ job[p] = <<>> /\ step'[p] \notin {"notify", "mark"}
      BY <3>1 DEF Types
    <3>3. \A x \in DOMAIN cmds : InFlight(x, cmds', job', step') <=> InFlight(x, cmds, job, step)
      BY <3>1, <3>2 DEF InFlight
    <3> QED BY <1>0, <3>1, <3>3, CountSame
  <2>2. CASE Execute
    <3> DEFINE r == Answer(cmds[Current(Worker)].kind)
    <3>1. /\ UNCHANGED <<job, pending>> /\ step[Worker] = "exec" /\ Worker \in Proc
          /\ step' = [step EXCEPT ![Worker] = "start"]
      BY <2>2 DEF Execute, Proc, group
    <3>2. r \in Result
      BY DEF Answer, Result
    <3>3. cmds' = [cmds EXCEPT ![Current(Worker)].result = r] /\ Current(Worker) \in DOMAIN cmds
      BY <2>2, <3>1, BusyFacts DEF Execute, Current
    <3> HIDE DEF r
    <3>4. DOMAIN cmds' = DOMAIN cmds /\ \A x \in DOMAIN cmds : cmds'[x].completed = cmds[x].completed
      BY <3>2, <3>3, ResultWide
    <3>5. \A p \in Proc : step'[p] \in {"notify", "mark"} <=> step[p] \in {"notify", "mark"}
      BY <3>1 DEF Types
    <3>6. \A x \in DOMAIN cmds : InFlight(x, cmds', job', step') <=> InFlight(x, cmds, job, step)
      BY <1>0, <3>1, <3>4, <3>5 DEF InFlight, Widened
    <3> QED BY <1>0, <3>1, <3>4, <3>6, CountSame
  <2> QED BY <1>7, <2>1, <2>2
<1>8. ASSUME NEW p \in Proc, step[p] \notin {"none", "notify", "mark", "reply"},
             cmds[Current(p)].kind = "read",
             pending' = pending - 1, UNCHANGED job, step' = [step EXCEPT ![p] = "notify"],
             DOMAIN cmds' = DOMAIN cmds,
             \A x \in DOMAIN cmds : cmds'[x].completed = cmds[x].completed
      PROVE  PendingReadsCounted'
  <2> DEFINE y == Current(p)
  <2>1. job[p] # <<>> /\ y \in DOMAIN cmds /\ y = Head(job[p]) /\ y \in Elements(job[p])
    BY <1>8, BusyFacts, TailFacts DEF Current, Elements, Types
  <2>2. \A q \in Proc : job[q] # <<>> => Head(job[q]) \in Elements(job[q])
    BY TailFacts DEF Elements, Types
  <2>3. \A q \in Proc : q # p => job[q] = <<>> \/ y # Head(job[q])
    BY <2>1, <2>2 DEF Work, OnePlace
  <2>4. ~cmds[y].completed
    BY <1>8, <2>1 DEF Work, Unfinished
  <2>5. InFlight(y, cmds, job, step)
    BY <1>8, <2>3, <2>4 DEF InFlight
  <2>6. ~InFlight(y, cmds', job', step')
    BY <1>8, <2>1 DEF InFlight, Types
  <2>7. \A x \in DOMAIN cmds :
           x # y => (InFlight(x, cmds', job', step') <=> InFlight(x, cmds, job, step))
    BY <1>0, <1>8, <2>1 DEF InFlight, Widened, Types
  <2> HIDE DEF y
  <2> QED BY <1>8, <2>1, <2>5, <2>6, <2>7, CountDown
<1>9. ASSUME NEW p \in Proc, UNCHANGED <<pending, job>>, NEW z, step' = [step EXCEPT ![p] = z],
             \/ step[p] \in {"notify", "mark"} <=> z \in {"notify", "mark"}
             \/ cmds[Current(p)].kind # "read",
             \A x \in DOMAIN cmds : cmds'[x].completed = cmds[x].completed,
             \A x \in DOMAIN cmds' \ DOMAIN cmds : cmds'[x].kind # "read"
      PROVE  PendingReadsCounted'
  <2>1. \A x \in DOMAIN cmds : InFlight(x, cmds', job', step') <=> InFlight(x, cmds, job, step)
    BY <1>0, <1>9 DEF InFlight, Widened, Types, Current
  <2>2. \A x \in DOMAIN cmds' \ DOMAIN cmds : ~InFlight(x, cmds', job', step')
    BY <1>9 DEF InFlight
  <2> QED BY <1>0, <1>9, <2>1, <2>2, CountSame
<1>10. ASSUME NEW p \in Proc, Complete(p)
       PROVE  PendingReadsCounted'
  <2> DEFINE c == Current(p)
             r == IF cmds[c].result = "none" THEN "cancelled" ELSE cmds[c].result
             end == cmds[c].kind = "read" /\ r = "eof"
             z == CASE end -> "drop"
                    [] cmds[c].kind = "read" /\ ~end -> "notify"
                    [] cmds[c].kind = "close" -> "eos"
                    [] OTHER -> "mark"
  <2>1. /\ cmds' = [cmds EXCEPT ![c].result = r]
        /\ step' = [step EXCEPT ![p] = z] /\ UNCHANGED job /\ step[p] = "start"
        /\ pending' = IF Uncounts(cmds[c].kind, r) THEN pending - 1 ELSE pending
    BY Zenon, <1>10 DEF Complete
  <2>2. c \in DOMAIN cmds /\ cmds[c] \in Command
    BY <2>1, BusyFacts DEF Types
  <2>3. r \in Result
    BY <2>2 DEF Command, Result
  <2> HIDE DEF r, c
  <2>4. /\ cmds[c].kind = "read" /\ r # "eof" => z = "notify"
        /\ cmds[c].kind = "read" /\ r = "eof" => z = "drop"
    <3>1. ASSUME cmds[c].kind = "read", r # "eof" PROVE z = "notify"
      <4>1. ~end
        BY <3>1
      <4> HIDE DEF end
      <4> QED BY <3>1, <4>1
    <3>2. ASSUME cmds[c].kind = "read", r = "eof" PROVE z = "drop"
      BY Zenon, <3>2
    <3> QED BY <3>1, <3>2
  <2> HIDE DEF z
  <2>5. DOMAIN cmds' = DOMAIN cmds /\ \A x \in DOMAIN cmds : cmds'[x].completed = cmds[x].completed
    BY <2>1, <2>2, <2>3, ResultWide
  <2>6. CASE cmds[c].kind = "read" /\ r # "eof"
    BY <1>8, <2>1, <2>4, <2>5, <2>6 DEF Uncounts, c
  <2>7. CASE ~(cmds[c].kind = "read" /\ r # "eof")
    <3>1. UNCHANGED pending
      BY <2>1, <2>7 DEF Uncounts
    <3>2. z \notin {"notify", "mark"} \/ cmds[c].kind # "read"
      BY <2>4, <2>7
    <3> QED BY <1>9, <2>1, <2>5, <3>1, <3>2 DEF c
  <2> QED BY <2>6, <2>7
<1>11. ASSUME NEW p \in Proc, DropSibling(p)
       PROVE  PendingReadsCounted'
  <2>1. /\ step[p] = "drop" /\ CancelAll(NextPort(p)) /\ UNCHANGED job
        /\ step' = [step EXCEPT ![p] = IF LastPort(p) THEN "notify" ELSE @]
        /\ pending' = IF LastPort(p) THEN pending - 1 ELSE pending
    BY <1>11 DEF DropSibling
  <2>2. DOMAIN cmds' = DOMAIN cmds /\ \A x \in DOMAIN cmds : cmds'[x].completed = cmds[x].completed
    BY <2>1, BusyFacts, CancelAllWide
  <2>3. CASE LastPort(p)
    BY <1>8, <2>1, <2>2, <2>3 DEF Work, Fitting
  <2>4. CASE ~LastPort(p)
    <3>1. step' = step
      BY <2>1, <2>4 DEF Types
    <3> QED BY <1>1, <2>1, <2>2, <2>4, <3>1
  <2> QED BY <2>3, <2>4
<1>12. ASSUME NEW p \in Proc, Notify(p)
       PROVE  PendingReadsCounted'
  <2>1. /\ step[p] = "notify" /\ UNCHANGED <<pending, job, cmds>>
        /\ step' = [step EXCEPT ![p] = IF LastPort(p) THEN "mark" ELSE @]
    BY <1>12 DEF Notify, group, commands
  <2>2. step' = [step EXCEPT ![p] = "mark"] \/ step' = [step EXCEPT ![p] = "notify"]
    BY <2>1
  <2> QED BY <1>9, <2>1, <2>2
<1>13. ASSUME NEW p \in Proc, PushEos(p)
       PROVE  PendingReadsCounted'
  <2>1. /\ step[p] = "eos" /\ UNCHANGED <<pending, job>>
        /\ step' = [step EXCEPT ![p] = IF LastPort(p) THEN "mark" ELSE @]
    BY <1>13 DEF PushEos, group
  <2>2. step' = [step EXCEPT ![p] = "mark"] \/ step' = [step EXCEPT ![p] = "eos"]
    BY <2>1
  <2>3. cmds[Current(p)].kind # "read"
    BY <2>1 DEF Work, Fitting
  <2>4. /\ \A x \in DOMAIN cmds : cmds'[x].completed = cmds[x].completed
        /\ \A x \in DOMAIN cmds' \ DOMAIN cmds : cmds'[x].kind # "read"
    <3>1. /\ Len(cmds') = Len(cmds) + 1 /\ cmds'[Len(cmds) + 1].kind = "eos"
          /\ \A x \in DOMAIN cmds : cmds'[x] = cmds[x]
      BY <1>13, <2>1, BusyFacts, EosWide
    <3>2. \A x \in DOMAIN cmds' \ DOMAIN cmds : x = Len(cmds) + 1
      BY <1>0, <3>1 DEF Widened
    <3> QED BY <3>1, <3>2
  <2> QED BY <1>9, <2>1, <2>2, <2>3, <2>4
<1>14. ASSUME NEW p \in Proc, MarkCompleted(p)
       PROVE  PendingReadsCounted'
  <2>1. /\ UNCHANGED <<job, pending>> /\ step[p] = "mark" /\ step' = [step EXCEPT ![p] = "reply"]
        /\ cmds' = [cmds EXCEPT ![Current(p)] = Resolved(@)]
    BY <1>14 DEF MarkCompleted, group
  <2>2. /\ job[p] # <<>> /\ Current(p) \in DOMAIN cmds /\ Current(p) = Head(job[p])
        /\ cmds[Current(p)] \in Command
    BY <2>1, BusyFacts DEF Current, Types
  <2>3. /\ DOMAIN cmds' = DOMAIN cmds
        /\ \A x \in DOMAIN cmds : x # Current(p) => cmds'[x] = cmds[x]
        /\ cmds'[Current(p)].completed
    BY <2>1, <2>2 DEF Resolved, Command
  <2>4. ~InFlight(Current(p), cmds, job, step) /\ ~InFlight(Current(p), cmds', job', step')
    BY <2>1, <2>2, <2>3 DEF InFlight
  <2>5. \A x \in DOMAIN cmds :
           x # Current(p) => (InFlight(x, cmds', job', step') <=> InFlight(x, cmds, job, step))
    BY <2>1, <2>2, <2>3 DEF InFlight, Types
  <2> QED BY <1>0, <2>1, <2>3, <2>4, <2>5, CountSame
<1>15. ASSUME NEW p \in Proc, Reply(p)
       PROVE  PendingReadsCounted'
  <2>1. /\ job' = [job EXCEPT ![p] = Tail(@)] /\ UNCHANGED <<cmds, pending>>
        /\ step' = [step EXCEPT ![p] = IF Tail(job[p]) = <<>> THEN "none" ELSE "start"]
        /\ step[p] = "reply"
    BY <1>15 DEF Reply, commands, group
  <2>2. \A q \in Proc : \/ job'[q] = job[q] /\ step'[q] = step[q]
                        \/ /\ step[q] \notin {"notify", "mark"}
                           /\ step'[q] \notin {"notify", "mark"}
    BY <2>1 DEF Types
  <2>3. \A x \in DOMAIN cmds : InFlight(x, cmds', job', step') <=> InFlight(x, cmds, job, step)
    BY <2>1, <2>2 DEF InFlight
  <2> QED BY <1>0, <2>1, <2>3, CountSame
<1>16. CASE UNCHANGED vars
  BY <1>1, <1>16 DEF vars, commands, group, completion
<1> QED BY <1>2, <1>3, <1>5, <1>6, <1>7, <1>10, <1>11, <1>12, <1>13, <1>14, <1>15, <1>16, Steps
    DEF CompleteCommand

\* Nothing is in flight at the start.
LEMMA CountInit == Init => PendingReadsCounted
<1> SUFFICES ASSUME Init PROVE PendingReadsCounted
  OBVIOUS
<1>1. Outstanding = {} /\ pending = 0
  BY DEF Init, Outstanding
<1> QED BY <1>1, FS_EmptySet DEF PendingReadsCounted

\* _pendingReadCount is the number of reads that were submitted and not taken off it: it
\* never leaks and never goes below zero, however a read ends.
THEOREM SourcePendingReadsCounted == Spec => []PendingReadsCounted
BY BaseAlways, WorkInit, WorkStep, CountInit, CountStep, PTL DEF Spec

\* The module's types.
THEOREM SourceTypeCorrect == Spec => []TypeOK
<1>1. Base /\ PendingReadsCounted => TypeOK
  <2> SUFFICES ASSUME Base, PendingReadsCounted PROVE TypeOK
    OBVIOUS
  <2>1. pending \in Nat
    BY OutstandingFinite, FS_CardinalityType DEF Base, PendingReadsCounted
  <2> QED BY <2>1 DEF Base, Types, TypeOK
<1> QED BY <1>1, BaseAlways, SourcePendingReadsCounted, PTL
=============================================================================
