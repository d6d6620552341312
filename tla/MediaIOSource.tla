--------------------------- MODULE MediaIOSource ---------------------------
(***************************************************************************)
(* The read side of a MediaIO (src/proav/mediaio.cpp, mediaiosource.cpp,    *)
(* mediaioreadcache.cpp, mediaioportgroup.cpp, sharedthreadmediaio.cpp):    *)
(* the sources of one port group, each with its prefetch cache, the strand  *)
(* their commands run on, and completeCommand(), which publishes results.   *)
(*                                                                         *)
(* One user thread per source reads from it, and may also close the         *)
(* MediaIO, seek, change the rate or the prefetch depth.  A step is one     *)
(* critical section of a cache's _mutex, one operation on the strand or one *)
(* access to an unlocked flag; a readFrame() keeps its cache locked over    *)
(* several of them.  The strand is the serial executor of SerialExecutor.   *)
(*                                                                         *)
(* The MediaIO starts open, with empty caches, and is not opened again.     *)
(***************************************************************************)
EXTENDS Naturals, Sequences, FiniteSets

CONSTANTS Source,   \* the sources of the group; each names its user thread too
          Ports,    \* the same in the order of MediaIOPortGroup::ports()
          Worker,   \* whichever pool thread runs the strand
          Casts,    \* what each thread may call, one choice per behaviour
          Depths,   \* prefetch depths
          Starts,   \* those the sources begin with, one choice per behaviour
          Last,     \* frames between the start of the stream and its end
          MaxCalls  \* bound: calls of each thread

Op == {"read", "then", "close", "seek", "setRate", "cancelPending", "setDepth"}

ASSUME SourceAssumption ==
    /\ Worker \notin Source
    /\ Ports \in Seq(Source) /\ Ports # <<>>
    /\ \A i, j \in DOMAIN Ports : Ports[i] = Ports[j] => i = j
    /\ \A s \in Source : \E i \in DOMAIN Ports : Ports[i] = s
    /\ Casts \subseteq [Source -> SUBSET Op]
    /\ Depths \subseteq Nat \ {0}
    /\ Starts \subseteq [Source -> Depths]
    /\ Last \in Nat /\ MaxCalls \in [Source -> Nat]

VARIABLES
    open, closing,   \* MediaIO::_open and _closing
    atEnd, pending,  \* the group's _atEnd and _pendingReadCount
    depth,           \* _depth of each cache
    queue,           \* _queue of each cache: positions in cmds
    armed,           \* _headReadyArmed of each cache
    cmds,            \* every command ever made, in the order they were
    strand,          \* the commands submitted and not started
    pos, live,       \* the backend: frames passed; between its Open and Close
    pc,              \* where each user thread is in its call
    req,             \* the request each thread got from readFrame, 0 for none
    room,            \* the local "target" of the readFrame under way
    job,             \* the commands each process is running or has to complete
    step, todo,      \* where it is in completeCommand, and the ports left there
    stored, posted,  \* the command that holds the _callback of each thread's request, 0
                     \*   for none; the callbacks posted to that thread's EventLoop
    cast, calls,     \* what each thread may call, and how much it has
    seekId           \* history: the last Seek each thread submitted

latch == <<open, closing>>
group == <<atEnd, pending>>
cache == <<depth, queue, armed>>
commands == <<cmds, strand>>
backend == <<pos, live>>
user == <<pc, req, room>>
completion == <<job, step, todo>>
caller == <<cast, calls, seekId>>
continuation == <<stored, posted>>
vars == <<latch, group, cache, commands, backend, user, completion, continuation, caller>>

Proc == Source \cup {Worker}

PC == {"idle", "gate", "vend", "cold", "coldPost", "top", "topPost",
       "closePost", "seek", "rate", "seekDrop", "rateDrop", "cancelPending"}
Step == {"none", "exec", "start", "drop", "notify", "eos", "mark", "reply"}
Result == {"none", "ok", "eof", "cancelled", "error"}

Command == [kind : {"read", "seek", "close", "eos"}, cancelled : BOOLEAN,
            completed : BOOLEAN, result : Result]

Elements(s) == {s[i] : i \in DOMAIN s}

\* readFrame holds the cache's _mutex from the pop to the last top-up.
Locked(s) == pc[s] \in {"cold", "coldPost", "top", "topPost"}

Init ==
    /\ open = TRUE /\ closing = FALSE
    /\ atEnd = FALSE /\ pending = 0
    /\ depth \in Starts
    /\ queue = [s \in Source |-> <<>>]
    /\ armed = [s \in Source |-> FALSE]
    /\ cmds = <<>>
    /\ strand = <<>>
    /\ pos = 0 /\ live = TRUE
    /\ pc = [s \in Source |-> "idle"]
    /\ req = [s \in Source |-> 0]
    /\ room = [s \in Source |-> 0]
    /\ job = [p \in Proc |-> <<>>]
    /\ step = [p \in Proc |-> "none"]
    /\ todo = [p \in Proc |-> <<>>]
    /\ stored = [s \in Source |-> 0] /\ posted = [s \in Source |-> 0]
    /\ cast \in Casts
    /\ calls = [s \in Source |-> 0]
    /\ seekId = [s \in Source |-> 0]

-----------------------------------------------------------------------------
(* The cache.                                                               *)

NewCommand(k) ==
    [kind |-> k, cancelled |-> FALSE, completed |-> FALSE, result |-> "none"]

\* MediaIO::submit on a strand: make the command and put it at the back.
Post(k) ==
    /\ cmds' = Append(cmds, NewCommand(k))
    /\ strand' = Append(strand, Len(cmds) + 1)

\* Mutant: any head will do.
CheckArmedUnresolved(a, q, c) == a \/ q # <<>>

\* checkArmedLocked() on a queue q of commands c; TRUE from FALSE emits frameReady.
CheckArmed(a, q, c) == a \/ (q # <<>> /\ c[Head(q)].completed)

\* Mutants: enqueued at the front; cancelled reads stay in the cache.
EnqueuedFirst(q, c) == <<c>> \o q
StillQueued(s) == queue

\* What a top-up and the EOS of a close do to _queue, and what cancelAll() does.
Enqueued(q, c) == Append(q, c)
Emptied(s) == [queue EXCEPT ![s] = <<>>]

\* MediaIOReadCache::cancelAll(); nothing is decremented here.
CancelAll(s) ==
    /\ ~Locked(s)
    /\ queue' = Emptied(s)
    /\ armed' = [armed EXCEPT ![s] = FALSE]
    /\ cmds' = [c \in DOMAIN cmds |->
                  IF c \in Elements(queue[s])
                  THEN [cmds[c] EXCEPT !.cancelled = TRUE] ELSE cmds[c]]
    /\ UNCHANGED depth

\* The refusals of submitOneLocked().
CanSubmit == open /\ ~closing /\ ~atEnd

-----------------------------------------------------------------------------
(* Calls of the user threads.                                               *)

Call(s, op) ==
    /\ pc[s] = "idle"
    /\ op \in cast[s]
    /\ calls[s] < MaxCalls[s]
    /\ calls' = [calls EXCEPT ![s] = @ + 1]

Goto(s, where) == pc' = [pc EXCEPT ![s] = where]

\* readFrame(): what the cache holds is vended before open and EOF are looked at.
ReadFrame(s) ==
    /\ Call(s, "read")
    /\ req[s] = 0
    /\ Goto(s, IF queue[s] # <<>> THEN "vend" ELSE "gate")
    /\ UNCHANGED <<latch, group, cache, commands, backend, req, room, completion, cast,
                   seekId, continuation>>

\* NotOpen or EndOfFile returned at once, or on to the cache.
Gate(s) ==
    /\ pc[s] = "gate"
    /\ Goto(s, IF CanSubmit THEN "vend" ELSE "idle")
    /\ UNCHANGED <<latch, group, cache, commands, backend, req, room, completion,
                   caller, continuation>>

\* MediaIOReadCache::readFrame(): lock, and pop the head if there is one.
Vend(s) ==
    /\ pc[s] = "vend"
    /\ IF queue[s] = <<>>
       THEN /\ Goto(s, "cold")
            /\ UNCHANGED <<cache, req, room>>
       ELSE /\ req' = [req EXCEPT ![s] = Head(queue[s])]
            /\ queue' = [queue EXCEPT ![s] = Tail(@)]
            /\ armed' = [armed EXCEPT ![s] = FALSE]
            /\ room' = [room EXCEPT ![s] =
                          IF cmds[Head(queue[s])].completed THEN depth[s] ELSE depth[s] - 1]
            /\ Goto(s, "top")
            /\ UNCHANGED depth
    /\ UNCHANGED <<latch, group, commands, backend, completion, caller, continuation>>

\* An empty cache submits a read to vend, or returns Invalid when it may not.
Cold(s) ==
    /\ pc[s] = "cold"
    /\ Goto(s, IF CanSubmit THEN "coldPost" ELSE "idle")
    /\ UNCHANGED <<latch, group, cache, commands, backend, req, room, completion,
                   caller, continuation>>

\* Its completion has to pass this cache's lock, so it is in flight when vended.
ColdPost(s) ==
    /\ pc[s] = "coldPost"
    /\ Post("read")
    /\ pending' = pending + 1
    /\ req' = [req EXCEPT ![s] = Len(cmds) + 1]
    /\ armed' = [armed EXCEPT ![s] = FALSE]
    /\ room' = [room EXCEPT ![s] = depth[s] - 1]
    /\ Goto(s, "top")
    /\ UNCHANGED <<latch, atEnd, depth, queue, backend, completion, caller, continuation>>

\* The top-up loop; its end re-arms on the new head and unlocks.
TopUp(s) ==
    /\ pc[s] = "top"
    /\ IF Len(queue[s]) < room[s] /\ CanSubmit
       THEN Goto(s, "topPost") /\ UNCHANGED <<armed, room>>
       ELSE /\ armed' = [armed EXCEPT ![s] = CheckArmed(@, queue[s], cmds)]
            /\ room' = [room EXCEPT ![s] = 0]
            /\ Goto(s, "idle")
    /\ UNCHANGED <<latch, group, depth, queue, commands, backend, req, completion,
                   caller, continuation>>

TopUpPost(s) ==
    /\ pc[s] = "topPost"
    /\ Post("read")
    /\ pending' = pending + 1
    /\ queue' = [queue EXCEPT ![s] = Enqueued(@, Len(cmds) + 1)]
    /\ Goto(s, "top")
    /\ UNCHANGED <<latch, atEnd, depth, armed, backend, req, room, completion, caller,
                   continuation>>

\* MediaIORequest::wait(): the request resolves and its holder takes the result.
Receive(s) ==
    /\ pc[s] = "idle" /\ req[s] # 0
    /\ "then" \notin cast[s]
    /\ cmds[req[s]].completed
    /\ req' = [req EXCEPT ![s] = 0]
    /\ UNCHANGED <<latch, group, cache, commands, backend, pc, room, completion,
                   caller, continuation>>

\* Mutant: the callback is stored whether or not it is posted at once.
KeptAlways(c) == c

\* What setCompletionCallback() leaves in the slot of command c.
Kept(c) == IF cmds[c].completed THEN 0 ELSE c

\* MediaIORequest::then(), once per request: under _callbackMutex, the callback is
\* stored, or posted to the caller's EventLoop when the command has completed.
Then(s) ==
    /\ pc[s] = "idle" /\ req[s] # 0
    /\ "then" \in cast[s] /\ stored[s] = 0 /\ posted[s] = 0
    /\ stored' = [stored EXCEPT ![s] = Kept(req[s])]
    /\ posted' = [posted EXCEPT ![s] = IF cmds[req[s]].completed THEN 1 ELSE 0]
    /\ UNCHANGED <<latch, group, cache, commands, backend, user, completion, caller>>

\* The EventLoop of the thread runs the callback, which takes the result.
RunContinuation(s) ==
    /\ pc[s] = "idle" /\ posted[s] > 0
    /\ posted' = [posted EXCEPT ![s] = @ - 1]
    /\ req' = [req EXCEPT ![s] = 0]
    /\ UNCHANGED <<latch, group, cache, commands, backend, pc, room, completion,
                   caller, stored>>

SetDepth(s) ==
    /\ Call(s, "setDepth")
    /\ \E d \in Depths \ {depth[s]} : depth' = [depth EXCEPT ![s] = d]
    /\ UNCHANGED <<latch, group, queue, armed, commands, backend, user, completion, cast,
                   seekId, continuation>>

\* close(): latch _closing, and submit a Close behind everything pending.
Close(s) ==
    /\ Call(s, "close")
    /\ open /\ ~closing
    /\ closing' = TRUE
    /\ Goto(s, "closePost")
    /\ UNCHANGED <<open, group, cache, commands, backend, req, room, completion, cast,
                   seekId, continuation>>

ClosePost(s) ==
    /\ pc[s] = "closePost"
    /\ Post("close")
    /\ Goto(s, "idle")
    /\ UNCHANGED <<latch, group, cache, backend, req, room, completion, caller,
                   continuation>>

\* Mutant: a seek is not refused while closing.
MaySeekAlways == open

\* seekToFrame() and setRate() pass their guards: only seeks look at _closing.
MaySeek == open /\ ~closing

Seek(s) ==
    /\ Call(s, "seek")
    /\ MaySeek
    /\ Goto(s, "seek")
    /\ UNCHANGED <<latch, group, cache, commands, backend, req, room, completion, cast,
                   seekId, continuation>>

SetRate(s) ==
    /\ Call(s, "setRate")
    /\ open
    /\ Goto(s, "rate")
    /\ UNCHANGED <<latch, group, cache, commands, backend, req, room, completion, cast,
                   seekId, continuation>>

\* Their cancelPendingWork(): every command that has not started is taken off
\* the strand, and completed as Cancelled by the thread that cancels.
CancelWork(s) ==
    /\ pc[s] \in {"seek", "rate"}
    /\ strand' = <<>>
    /\ job' = [job EXCEPT ![s] = strand]
    /\ step' = [step EXCEPT ![s] = IF strand = <<>> THEN "none" ELSE "start"]
    /\ todo' = [todo EXCEPT ![s] = Ports]
    /\ Goto(s, IF pc[s] = "seek" THEN "seekDrop" ELSE "rateDrop")
    /\ UNCHANGED <<latch, group, cache, cmds, backend, req, room, caller, continuation>>

Dropping(s) == pc[s] \in {"seekDrop", "rateDrop"} /\ job[s] = <<>>

\* Then every cache of the group is emptied, in turn ...
DropCaches(s) ==
    /\ Dropping(s) /\ todo[s] # <<>>
    /\ CancelAll(Head(todo[s]))
    /\ todo' = [todo EXCEPT ![s] = Tail(@)]
    /\ UNCHANGED <<latch, group, strand, backend, user, job, step, caller, continuation>>

\* ... the end-of-stream latch is cleared, and a seek submits its Seek.
SeekPost(s) ==
    /\ Dropping(s) /\ todo[s] = <<>> /\ pc[s] = "seekDrop"
    /\ atEnd' = FALSE
    /\ Post("seek")
    /\ seekId' = [seekId EXCEPT ![s] = Len(cmds) + 1]
    /\ Goto(s, "idle")
    /\ UNCHANGED <<latch, pending, cache, backend, req, room, completion, cast, calls,
                   continuation>>

RateReturn(s) ==
    /\ Dropping(s) /\ todo[s] = <<>> /\ pc[s] = "rateDrop"
    /\ atEnd' = FALSE
    /\ Goto(s, "idle")
    /\ UNCHANGED <<latch, pending, cache, commands, backend, req, room, completion,
                   caller, continuation>>

\* MediaIOSource::cancelPending(): empties this source's cache and nothing else.
CancelPending(s) ==
    /\ Call(s, "cancelPending")
    /\ open
    /\ Goto(s, "cancelPending")
    /\ UNCHANGED <<latch, group, cache, commands, backend, req, room, completion, cast,
                   seekId, continuation>>

CancelPendingDrop(s) ==
    /\ pc[s] = "cancelPending"
    /\ CancelAll(s)
    /\ Goto(s, "idle")
    /\ UNCHANGED <<latch, group, strand, backend, req, room, completion, caller,
                   continuation>>

-----------------------------------------------------------------------------
(* The strand's worker: the runner of SharedThreadMediaIO::submit.          *)

\* A command whose cancelled flag is set by now never reaches the backend.
Dispatch ==
    /\ job[Worker] = <<>> /\ strand # <<>>
    /\ job' = [job EXCEPT ![Worker] = <<Head(strand)>>]
    /\ strand' = Tail(strand)
    /\ step' = [step EXCEPT ![Worker] =
                  IF cmds[Head(strand)].cancelled THEN "start" ELSE "exec"]
    /\ UNCHANGED <<latch, group, cache, cmds, backend, user, todo, caller, continuation>>

\* The backend: reads move on to the next frame until there is none, a seek
\* goes back to the start, and nothing can be read once it is closed.
Answer(kind) ==
    CASE kind = "read" /\ ~live             -> "error"
      [] kind = "read" /\ live /\ pos = Last -> "eof"
      [] OTHER                               -> "ok"

\* dispatch(): executeCmd() of the backend, which may take its time.
Execute ==
    /\ step[Worker] = "exec"
    /\ LET c == Head(job[Worker])
           r == Answer(cmds[c].kind)
       IN  /\ cmds' = [cmds EXCEPT ![c].result = r]
           /\ live' = (live /\ cmds[c].kind # "close")
           /\ pos' = CASE cmds[c].kind = "read" /\ r = "ok" -> pos + 1
                       [] cmds[c].kind = "seek"             -> 0
                       [] OTHER                             -> pos
    /\ step' = [step EXCEPT ![Worker] = "start"]
    /\ UNCHANGED <<latch, group, cache, strand, user, job, todo, caller, continuation>>

-----------------------------------------------------------------------------
(* MediaIO::completeCommand, by the worker or by a thread that cancels.     *)

Current(p) == Head(job[p])
NextPort(p) == Head(todo[p])
LastPort(p) == Tail(todo[p]) = <<>>

\* Mutant: a cancelled read is not taken off the count.
UncountsUnlessCancelled(kind, r) == kind = "read" /\ r \notin {"eof", "cancelled"}

\* Whether the switch takes the command off _pendingReadCount.
Uncounts(kind, r) == kind = "read" /\ r # "eof"

\* The switch: an EndOfFile latches _atEnd before any cache is emptied, every
\* other read is taken off _pendingReadCount.
Complete(p) ==
    /\ step[p] = "start"
    /\ LET c == Current(p)
           r == IF cmds[c].result = "none" THEN "cancelled" ELSE cmds[c].result
           end == cmds[c].kind = "read" /\ r = "eof"
       IN  /\ cmds' = [cmds EXCEPT ![c].result = r]
           /\ atEnd' = (atEnd \/ end)
           /\ pending' = IF Uncounts(cmds[c].kind, r) THEN pending - 1 ELSE pending
           /\ step' = [step EXCEPT ![p] = CASE end                            -> "drop"
                                            [] cmds[c].kind = "read" /\ ~end -> "notify"
                                            [] cmds[c].kind = "close"         -> "eos"
                                            [] OTHER                          -> "mark"]
    /\ todo' = [todo EXCEPT ![p] = Ports]
    /\ UNCHANGED <<latch, cache, strand, backend, user, job, caller, continuation>>

\* EndOfFile: cancelAll() on every source of the group, then the count.
DropSibling(p) ==
    /\ step[p] = "drop"
    /\ CancelAll(NextPort(p))
    /\ todo' = [todo EXCEPT ![p] = IF LastPort(p) THEN Ports ELSE Tail(@)]
    /\ step' = [step EXCEPT ![p] = IF LastPort(p) THEN "notify" ELSE @]
    /\ pending' = IF LastPort(p) THEN pending - 1 ELSE pending
    /\ UNCHANGED <<latch, atEnd, strand, backend, user, job, caller, continuation>>

\* onCommandCompleted() on every source of the group.
Notify(p) ==
    /\ step[p] = "notify"
    /\ ~Locked(NextPort(p))
    /\ LET s == NextPort(p)
       IN armed' = [armed EXCEPT ![s] = CheckArmed(@, queue[s], cmds)]
    /\ todo' = [todo EXCEPT ![p] = Tail(@)]
    /\ step' = [step EXCEPT ![p] = IF LastPort(p) THEN "mark" ELSE @]
    /\ UNCHANGED <<latch, group, depth, queue, commands, backend, user, job, caller,
                   continuation>>

\* Close: pushSyntheticResult(EndOfFile) on every source, then resetClosedState().
PushEos(p) ==
    /\ step[p] = "eos"
    /\ ~Locked(NextPort(p))
    /\ LET s == NextPort(p)
           c == Append(cmds, [kind |-> "eos", cancelled |-> FALSE, completed |-> TRUE,
                              result |-> "eof"])
           q == Enqueued(queue[s], Len(c))
       IN  /\ cmds' = c
           /\ queue' = [queue EXCEPT ![s] = q]
           /\ armed' = [armed EXCEPT ![s] = CheckArmed(@, q, c)]
    /\ todo' = [todo EXCEPT ![p] = Tail(@)]
    /\ step' = [step EXCEPT ![p] = IF LastPort(p) THEN "mark" ELSE @]
    /\ open' = (open /\ ~LastPort(p))
    /\ closing' = (closing /\ ~LastPort(p))
    /\ UNCHANGED <<group, depth, strand, backend, user, job, caller, continuation>>

\* Mutant: a cancelled command is left unresolved.
ResolvedUnlessCancelled(c) == [c EXCEPT !.completed = @ \/ c.result # "cancelled"]

\* A command after markCompleted().
Resolved(c) == [c EXCEPT !.completed = TRUE]

\* markCompleted(): the flag that waiters look at under _completionMutex ...
MarkCompleted(p) ==
    /\ step[p] = "mark"
    /\ cmds' = [cmds EXCEPT ![Current(p)] = Resolved(@)]
    /\ step' = [step EXCEPT ![p] = "reply"]
    /\ UNCHANGED <<latch, group, cache, strand, backend, user, job, todo, caller,
                   continuation>>

\* ... and, under _callbackMutex, the callback that was stored by then.  On to the next
\* command this process has to complete.
Reply(p) ==
    /\ step[p] = "reply"
    /\ LET c == Current(p)
       IN  /\ stored' = [s \in Source |-> IF stored[s] = c THEN 0 ELSE stored[s]]
           /\ posted' = [s \in Source |-> IF stored[s] = c THEN posted[s] + 1 ELSE posted[s]]
    /\ job' = [job EXCEPT ![p] = Tail(@)]
    /\ step' = [step EXCEPT ![p] = IF Tail(job[p]) = <<>> THEN "none" ELSE "start"]
    /\ todo' = [todo EXCEPT ![p] = Ports]
    /\ UNCHANGED <<latch, group, cache, commands, backend, user, caller>>

-----------------------------------------------------------------------------
CompleteCommand(p) ==
    Complete(p) \/ DropSibling(p) \/ Notify(p) \/ PushEos(p) \/ MarkCompleted(p) \/ Reply(p)

\* What a thread inside a call, or waiting for its request, does next.
Continue(s) ==
    \/ Gate(s) \/ Vend(s) \/ Cold(s) \/ ColdPost(s) \/ TopUp(s) \/ TopUpPost(s)
    \/ Receive(s) \/ Then(s) \/ RunContinuation(s)
    \/ ClosePost(s)
    \/ CancelWork(s) \/ DropCaches(s) \/ SeekPost(s) \/ RateReturn(s)
    \/ CancelPendingDrop(s)
    \/ CompleteCommand(s)

Request(s) ==
    \/ ReadFrame(s) \/ SetDepth(s) \/ Close(s) \/ Seek(s) \/ SetRate(s) \/ CancelPending(s)

Strand == Dispatch \/ Execute \/ CompleteCommand(Worker)

Next ==
    \/ \E s \in Source : Continue(s) \/ Request(s)
    \/ Strand

\* Threads inside a call are scheduled, and the strand runs what it is given:
\* executeCmd() returns.  Nobody has to call anything.
Fairness ==
    /\ \A s \in Source : WF_vars(Continue(s))
    /\ WF_vars(Strand)

Spec == Init /\ [][Next]_vars /\ Fairness

-----------------------------------------------------------------------------
(* Properties.                                                              *)

TypeOK ==
    /\ open \in BOOLEAN /\ closing \in BOOLEAN
    /\ atEnd \in BOOLEAN /\ pending \in Nat
    /\ depth \in [Source -> Depths]
    /\ armed \in [Source -> BOOLEAN]
    /\ cmds \in Seq(Command)
    /\ queue \in [Source -> Seq(DOMAIN cmds)]
    /\ strand \in Seq(DOMAIN cmds)
    /\ pos \in 0..Last /\ live \in BOOLEAN
    /\ pc \in [Source -> PC]
    /\ req \in [Source -> {0} \cup DOMAIN cmds]
    /\ room \in [Source -> Nat]
    /\ job \in [Proc -> Seq(DOMAIN cmds)]
    /\ step \in [Proc -> Step]
    /\ todo \in [Proc -> Seq(Source)]
    /\ cast \in Casts
    /\ \A s \in Source : calls[s] \in 0..MaxCalls[s]
    /\ seekId \in [Source -> {0} \cup DOMAIN cmds]
    /\ stored \in [Source -> {0} \cup DOMAIN cmds] /\ posted \in [Source -> Nat]

\* Reads that were submitted and not taken off _pendingReadCount yet.
Outstanding ==
    {c \in DOMAIN cmds :
        /\ cmds[c].kind = "read" /\ ~cmds[c].completed
        /\ ~\E p \in Proc : /\ job[p] # <<>> /\ c = Current(p)
                            /\ step[p] \in {"notify", "mark"}}

\* The group's in-flight counter counts every read once, whether it ran, hit
\* the end of the stream, was flagged by a cancelAll or was taken off the
\* strand: it never leaks and never goes below zero.
PendingReadsCounted == pending = Cardinality(Outstanding)

\* mediaioreadcache.h:52: after frameReady "a subsequent readFrame will resolve
\* without blocking" - an armed cache always has a completed head.
ArmedHeadReady ==
    \A s \in Source : armed[s] => queue[s] # <<>> /\ cmds[Head(queue[s])].completed

\* A source vends its reads in the order they were submitted to the strand,
\* whatever prefetched, cancelled or end-of-stream commands came between.
VendedInOrder ==
    [][\A s \in Source :
          req'[s] # req[s] /\ req'[s] # 0 =>
              \A i \in DOMAIN queue'[s] : queue'[s][i] > req'[s]]_vars

\* What a thread reads after its own seek comes from after the seek: no read
\* prefetched at the old position is vended to it.
NoStaleRead ==
    [][\A s \in Source : req'[s] # req[s] /\ req'[s] # 0 => req'[s] > seekId[s]]_vars

\* mediaio_user_guide.md:136: "exactly one synthetic read result [...] is
\* appended to each source's read cache so signal-driven consumers see one
\* trailing frameReady": a source gets one EOS, and only its reader takes it.
EosReachesReader ==
    [][\A s \in Source :
          LET eos(q) == {c \in Elements(q) : cmds'[c].kind = "eos"}
          IN  /\ eos(queue[s]) \subseteq eos(queue'[s]) \cup {req'[s]}
              /\ eos(queue'[s]) # {} /\ eos(queue[s]) = {} => closing
              /\ Cardinality(eos(queue'[s])) <= 1]_vars

\* mediaiocommand.cpp:33: "either path runs the callback exactly once" - a callback
\* reaches its loop when the request has resolved, and no second one can follow.
ContinuationOnce ==
    \A s \in Source : posted[s] > 0 =>
        /\ posted[s] = 1 /\ stored[s] = 0
        /\ req[s] # 0 /\ cmds[req[s]].completed

\* mediaioportgroup.cpp:103: "seeking past EOF clears the EOF latch" - what latches it
\* after a seek is a read that was submitted after the seek.
SeekClearsEnd ==
    atEnd => \E c \in DOMAIN cmds :
                 /\ cmds[c].kind = "read" /\ cmds[c].result = "eof"
                 /\ \A s \in Source : c > seekId[s]

\* Every request that was vended resolves, and its holder gets the result; a
\* close completes, for nothing keeps the strand from reaching it.
EveryRequestResolves ==
    /\ \A s \in Source : req[s] # 0 ~> req[s] = 0
    /\ closing ~> ~open
=============================================================================
