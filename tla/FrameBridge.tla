----------------------------- MODULE FrameBridge -----------------------------
(***************************************************************************)
(* A FrameBridge (src/proav/framebridge.cpp): one output publishes frames   *)
(* through a ring of slots in shared memory, inputs in other processes read *)
(* them.  A control socket per input carries the TICK of each frame and,    *)
(* from inputs that asked for it, its ACK.                                  *)
(*                                                                         *)
(* Four parties run side by side: the writer (the strand that calls         *)
(* writeFrame() and close()), the AcceptWorker that shakes hands with new   *)
(* inputs, whoever calls abort(), and each input with its readFrame().      *)
(* Every one of them may crash.  Slots are guarded by a sequence counter    *)
(* only, so they are written and copied in steps; stores are seen in the    *)
(* order they are made.  A socket delivers what is sent, in order, until an *)
(* end is closed.                                                           *)
(***************************************************************************)
EXTENDS Naturals, Sequences, FiniteSets

CONSTANTS Input,     \* the inputs
          Setups,    \* who connects, who of them is sync, waitForConsumer, and a bound:
                     \*   the frames passed to writeFrame()
          Depth,     \* Config::ringDepth
          Attempts,  \* copies readSlot() tries before it answers TryAgain (4 in the code)
          MaxFails   \* bound: frames that do not fit their slot

None == "none"

ASSUME BridgeAssumption ==
    /\ None \notin Input
    /\ Setups \subseteq [inputs : SUBSET Input, sync : SUBSET Input, waits : BOOLEAN,
                         frames : Nat]
    /\ Depth \in Nat \ {0} /\ Attempts \in Nat \ {0} /\ MaxFails \in Nat

VARIABLES
    setup,     \* the configuration
    pc,        \* where the writer is; "idle" between two calls
    aborted,   \* abortFlag
    clients,   \* the inputs in `clients'; the order they are served in is left open
    todo,      \* those the loop over them has still to come to
    number,    \* nextFrameNumber
    index,     \* slotIndex
    seq,       \* currentSeq
    shaking,   \* the input the AcceptWorker shakes hands with
    parked,    \* pendingClients
    slot,      \* the ring: counter, header and payload of each slot
    alive,     \* isConnected() of the output's end of a socket
    down, up,  \* what is under way to an input, and to the output
    st,        \* an input: "out", "connecting", "open" or "gone"
    tick,      \* haveFreshTick and the last TICK drained
    rpc,       \* where its readFrame() is; "drain" between two calls
    tries,     \* attempts of this readSlot()
    copy,      \* seq1 and what was copied
    fails,     \* bound
    failed,    \* history: frames that did not fit
    sent,      \* history: frames announced to each input
    got,       \* history: frames each input's readFrame() returned
    noticed    \* history: inputs that emitted peerDisconnected

writer == <<pc, aborted, todo, number, index, seq>>
members == <<clients, parked>>
ring == <<slot, fails, failed>>
sockets == <<alive, down, up>>
reader == <<tick, rpc, tries, copy, got, noticed>>
vars == <<setup, writer, members, shaking, ring, sockets, st, reader, sent>>

Sync == setup.sync

\* Nothing read, nothing copied.
NoTick == [fresh |-> FALSE, slot |-> 0, seq |-> 0, frame |-> 0]
NoCopy == [seq |-> 0, frame |-> 0, body |-> 0]

\* openOutput() has returned; nobody has connected.
Init ==
    /\ setup \in Setups
    /\ pc = "idle" /\ aborted = FALSE /\ todo = {}
    /\ number = 0 /\ index = 0 /\ seq = 0
    /\ clients = {} /\ parked = {} /\ shaking = None
    /\ slot = [k \in 0 .. Depth - 1 |-> NoCopy]
    /\ alive = [i \in Input |-> FALSE]
    /\ down = [i \in Input |-> <<>>] /\ up = [i \in Input |-> <<>>]
    /\ st = [i \in Input |-> "out"]
    /\ tick = [i \in Input |-> NoTick]
    /\ rpc = [i \in Input |-> "drain"] /\ tries = [i \in Input |-> 0]
    /\ copy = [i \in Input |-> NoCopy]
    /\ fails = 0 /\ failed = {}
    /\ sent = [i \in Input |-> <<>>] /\ got = [i \in Input |-> <<>>]
    /\ noticed = {}

\* The output's end of an input's socket is open.
Held(i) == i \in clients \cup parked \/ shaking = i

Listening == pc \notin {"closing", "closed", "crashed"}

-----------------------------------------------------------------------------
(* The writer: FrameBridge::writeFrame().                                   *)

\* drainPending() and pruneDeadClients().
Serviced == {i \in clients \cup parked : alive[i]}
Service == clients' = Serviced /\ parked' = {}

\* The call, up to the decision whether there is anybody to publish to.
WriteFrame ==
    /\ pc = "idle" /\ ~aborted /\ number < setup.frames
    /\ Service
    /\ IF Serviced # {} THEN pc' = "begin" /\ number' = number
       ELSE IF setup.waits THEN pc' = "wait" /\ number' = number
       ELSE pc' = "idle" /\ number' = number + 1
    /\ UNCHANGED <<setup, aborted, todo, index, seq, shaking, ring, sockets, st, reader, sent>>

\* The loop that waits for a consumer: one round of it.
Poll ==
    /\ pc = "wait" /\ clients = {} /\ ~aborted
    /\ Service
    /\ UNCHANGED <<setup, writer, shaking, ring, sockets, st, reader, sent>>

\* Its end: Cancelled, or on with the frame.
Woken ==
    /\ pc = "wait" /\ (clients # {} \/ aborted)
    /\ pc' = IF aborted THEN "idle" ELSE "begin"
    /\ UNCHANGED <<setup, aborted, todo, number, index, seq, members, shaking, ring, sockets,
                   st, reader, sent>>

\* writeSlot(): the counter becomes odd and the header is written ...
BeginWrite ==
    /\ pc = "begin"
    /\ slot' = [slot EXCEPT ![index] = [seq |-> @.seq + 1, frame |-> number, body |-> @.body]]
    /\ pc' = "fill"
    /\ UNCHANGED <<setup, aborted, todo, number, index, seq, members, shaking, fails, failed,
                   sockets, st, reader, sent>>

\* ... then the payload, and the counter becomes even.
EndWrite ==
    /\ pc = "fill"
    /\ slot' = [slot EXCEPT ![index] = [seq |-> @.seq + 1, frame |-> @.frame, body |-> number]]
    /\ seq' = slot'[index].seq
    /\ pc' = "tick" /\ todo' = clients
    /\ UNCHANGED <<setup, aborted, number, index, members, shaking, fails, failed, sockets,
                   st, reader, sent>>

\* Metadata or audio exceed the slot: OutOfRange, the counter even again, the header left.
FailWrite ==
    /\ pc = "fill" /\ fails < MaxFails
    /\ slot' = [slot EXCEPT ![index].seq = @ + 1]
    /\ fails' = fails + 1 /\ failed' = failed \cup {number}
    /\ pc' = "idle"
    /\ UNCHANGED <<setup, aborted, todo, number, index, seq, members, shaking, sockets, st,
                   reader, sent>>

\* emitTick() to one client; a send to a closed socket only marks it disconnected.
EmitTick(i) ==
    /\ pc = "tick" /\ i \in todo
    /\ todo' = todo \ {i}
    /\ clients' = IF alive[i] THEN clients ELSE clients \ {i}
    /\ IF alive[i] /\ st[i] # "gone"
       THEN /\ down' = [down EXCEPT ![i] =
                  Append(@, [key |-> "TICK", slot |-> index, seq |-> seq, frame |-> number])]
            /\ sent' = [sent EXCEPT ![i] = Append(@, number)]
            /\ alive' = alive
       ELSE alive' = [alive EXCEPT ![i] = FALSE] /\ UNCHANGED <<down, sent>>
    /\ UNCHANGED <<setup, pc, aborted, number, index, seq, parked, shaking, ring, up, st, reader>>

TicksSent ==
    /\ pc = "tick" /\ todo = {}
    /\ pc' = "ack" /\ todo' = clients
    /\ UNCHANGED <<setup, aborted, number, index, seq, members, shaking, ring, sockets, st,
                   reader, sent>>

-----------------------------------------------------------------------------
(* waitForAcks().                                                           *)

Waiting(i) == pc = "ack" /\ ~aborted /\ i \in todo

\* Whether an ACK of counter a will do for the frame just published.
CaughtUp(a) == a >= seq

\* A message of a sync client: its ACK ends the wait, its BYE the connection.
Receive(i) ==
    /\ Waiting(i) /\ alive[i] /\ i \in Sync /\ up[i] # <<>>
    /\ LET m == Head(up[i])
       IN  /\ todo' = IF m.key = "BYE" \/ (m.key = "ACKT" /\ CaughtUp(m.seq))
                      THEN todo \ {i} ELSE todo
           /\ clients' = IF m.key = "BYE" THEN clients \ {i} ELSE clients
           /\ up' = [up EXCEPT ![i] = IF m.key = "BYE" THEN <<>> ELSE Tail(@)]
    /\ UNCHANGED <<setup, pc, aborted, number, index, seq, parked, shaking, ring, alive, down,
                   st, reader, sent>>

\* Nobody waits for the others.
Pass(i) ==
    /\ Waiting(i) /\ alive[i] /\ i \notin Sync
    /\ todo' = todo \ {i}
    /\ UNCHANGED <<setup, pc, aborted, number, index, seq, members, shaking, ring, sockets, st,
                   reader, sent>>

\* Mutant: there is no SyncAckTimeoutMs.
HopelessIfDead(i) == ~alive[i]

\* Disconnected, or SyncAckTimeoutMs went by without its ACK.
Hopeless(i) == ~alive[i] \/ i \in Sync

\* Mutant: a client that timed out is served again with the next frame.
KeptUnlessDead(i) == IF alive[i] THEN clients ELSE clients \ {i}

\* It is dropped.
Without(i) == clients \ {i}

GiveUp(i) ==
    /\ Waiting(i) /\ Hopeless(i)
    /\ todo' = todo \ {i} /\ clients' = Without(i)
    /\ up' = [up EXCEPT ![i] = <<>>]
    /\ UNCHANGED <<setup, pc, aborted, number, index, seq, parked, shaking, ring, alive, down,
                   st, reader, sent>>

\* All have answered, or abort() was called: writeFrame() returns Ok.
WriteDone ==
    /\ pc = "ack" /\ (todo = {} \/ aborted)
    /\ pc' = "idle" /\ index' = (index + 1) % Depth /\ number' = number + 1
    /\ UNCHANGED <<setup, aborted, todo, seq, members, shaking, ring, sockets, st, reader, sent>>

-----------------------------------------------------------------------------
(* Aborting, closing, crashing.                                             *)

Abort ==
    /\ Listening /\ ~aborted /\ aborted' = TRUE
    /\ UNCHANGED <<setup, pc, todo, number, index, seq, members, shaking, ring, sockets, st,
                   reader, sent>>

\* close(), up to the join with the AcceptWorker ...
Close ==
    /\ pc = "idle" /\ pc' = "closing" /\ aborted' = TRUE
    /\ UNCHANGED <<setup, todo, number, index, seq, members, shaking, ring, sockets, st, reader,
                   sent>>

\* ... and after it: a BYE for everybody, and the sockets are closed.
FinishClose ==
    /\ pc = "closing" /\ shaking = None
    /\ pc' = "closed" /\ clients' = {} /\ parked' = {}
    /\ down' = [i \in Input |-> IF i \in clients \cup parked /\ st[i] # "gone"
                                THEN Append(down[i], [key |-> "BYE"]) ELSE down[i]]
    /\ up' = [i \in Input |-> <<>>]
    /\ UNCHANGED <<setup, aborted, todo, number, index, seq, shaking, ring, alive, st, reader,
                   sent>>

Crash ==
    /\ pc \notin {"closed", "crashed"} /\ pc' = "crashed"
    /\ clients' = {} /\ parked' = {} /\ shaking' = None
    /\ up' = [i \in Input |-> <<>>]
    /\ UNCHANGED <<setup, aborted, todo, number, index, seq, ring, alive, down, st, reader, sent>>

-----------------------------------------------------------------------------
(* The AcceptWorker, and openInput() on the other side.                     *)

\* connect() succeeds as long as there is a backlog to wait in.
Connect(i) ==
    /\ i \in setup.inputs /\ st[i] = "out" /\ pc \notin {"closed", "crashed"}
    /\ st' = [st EXCEPT ![i] = "connecting"]
    /\ UNCHANGED <<setup, writer, members, shaking, ring, sockets, reader, sent>>

\* Mutant: connections are only accepted in writeFrame().
AcceptingInWrite == pc \notin {"idle", "closing", "closed", "crashed"}

\* The worker runs from openOutput() to close().
Accepting == Listening

\* HELO is answered with ACPT.
Accept(i) ==
    /\ Accepting /\ shaking = None /\ st[i] = "connecting"
    /\ shaking' = i
    /\ UNCHANGED <<setup, writer, members, ring, sockets, st, reader, sent>>

\* The input maps the ring and says REDY.
Ready(i) ==
    /\ st[i] = "connecting" /\ shaking = i
    /\ st' = [st EXCEPT ![i] = "open"]
    /\ up' = [up EXCEPT ![i] = Append(@, [key |-> "REDY"])]
    /\ UNCHANGED <<setup, writer, members, shaking, ring, alive, down, reader, sent>>

\* The worker hands the client to the writer.
Park(i) ==
    /\ shaking = i /\ up[i] # <<>>
    /\ shaking' = None /\ parked' = parked \cup {i}
    /\ alive' = [alive EXCEPT ![i] = TRUE]
    /\ up' = [up EXCEPT ![i] = Tail(@)]
    /\ UNCHANGED <<setup, writer, clients, ring, down, st, reader, sent>>

\* No REDY within HandshakeTimeoutMs: the socket is closed, even if one is just coming.
Discard(i) ==
    /\ shaking = i
    /\ shaking' = None /\ up' = [up EXCEPT ![i] = <<>>]
    /\ st' = IF st[i] = "connecting" THEN [st EXCEPT ![i] = "gone"] ELSE st
    /\ UNCHANGED <<setup, writer, members, ring, alive, down, reader, sent>>

\* The input's own timeout, or the output has closed the socket.
OpenFails(i) ==
    /\ st[i] = "connecting"
    /\ st' = [st EXCEPT ![i] = "gone"]
    /\ UNCHANGED <<setup, writer, members, shaking, ring, sockets, reader, sent>>

-----------------------------------------------------------------------------
(* The input: FrameBridge::readFrame().                                     *)

Send(i, m) == up' = IF Held(i) THEN [up EXCEPT ![i] = Append(@, m)] ELSE up

\* bytesAvailable() >= 40: a TICK has 40 bytes, a BYE, which is the last message, 8.
Available(i) == \E k \in DOMAIN down[i] : down[i][k].key = "TICK"

\* One message of those that have arrived.
Drain(i) ==
    /\ st[i] = "open" /\ rpc[i] = "drain" /\ Available(i)
    /\ LET m == Head(down[i])
       IN  /\ tick' = IF m.key # "TICK" THEN tick
                      ELSE [tick EXCEPT ![i] = [fresh |-> TRUE, slot |-> m.slot,
                                                seq |-> m.seq, frame |-> m.frame]]
           /\ noticed' = IF m.key = "BYE" THEN noticed \cup {i} ELSE noticed
    /\ down' = [down EXCEPT ![i] = Tail(@)]
    /\ UNCHANGED <<setup, writer, members, shaking, ring, alive, up, st, rpc, tries, copy, got, sent>>

\* Nothing more to drain, and a TICK that has not been served: readSlot().
ReadSlot(i) ==
    /\ st[i] = "open" /\ rpc[i] = "drain" /\ ~Available(i) /\ tick[i].fresh
    /\ rpc' = [rpc EXCEPT ![i] = "load"] /\ tries' = [tries EXCEPT ![i] = 0]
    /\ UNCHANGED <<setup, writer, members, shaking, ring, sockets, st, tick, copy, got,
                   noticed, sent>>

\* The next attempt, or TryAgain to the caller.
Retry(i) ==
    /\ tries' = [tries EXCEPT ![i] = @ + 1]
    /\ rpc' = [rpc EXCEPT ![i] = IF tries[i] + 1 < Attempts THEN "load" ELSE "drain"]

\* seq1; an odd one means that the writer is at work.
Load(i) ==
    /\ st[i] = "open" /\ rpc[i] = "load"
    /\ LET s == slot[tick[i].slot].seq
       IN  IF s % 2 = 1 THEN Retry(i) /\ copy' = copy
           ELSE /\ rpc' = [rpc EXCEPT ![i] = "copy"] /\ tries' = tries
                /\ copy' = [copy EXCEPT ![i].seq = s]
    /\ UNCHANGED <<setup, writer, members, shaking, ring, sockets, st, tick, got, noticed,
                   sent>>

Copy(i) ==
    /\ st[i] = "open" /\ rpc[i] = "copy"
    /\ LET k == slot[tick[i].slot]
       IN  copy' = [copy EXCEPT ![i] = [seq |-> @.seq, frame |-> k.frame, body |-> k.body]]
    /\ rpc' = [rpc EXCEPT ![i] = "check"]
    /\ UNCHANGED <<setup, writer, members, shaking, ring, sockets, st, tick, tries, got,
                   noticed, sent>>

\* Mutant: the second look at the counter is left out.
StableAlways(i) == TRUE

\* Whether the copy may be used.
Stable(i) == slot[tick[i].slot].seq = copy[i].seq

\* seq2: the frame is returned, and acknowledged if the input is a sync one.
Check(i) ==
    /\ st[i] = "open" /\ rpc[i] = "check"
    /\ copy' = [copy EXCEPT ![i] = NoCopy]
    /\ IF ~Stable(i) THEN Retry(i) /\ UNCHANGED <<tick, up, got>>
       ELSE /\ rpc' = [rpc EXCEPT ![i] = "drain"] /\ tries' = tries
            /\ tick' = [tick EXCEPT ![i].fresh = FALSE]
            /\ got' = [got EXCEPT ![i] = Append(@, copy[i].frame)]
            /\ IF i \in Sync THEN Send(i, [key |-> "ACKT", seq |-> tick[i].seq])
               ELSE up' = up
    /\ UNCHANGED <<setup, writer, members, shaking, ring, alive, down, st, noticed, sent>>

\* close() between two calls, or a crash: what was under way to the input is lost.
Leave(i) ==
    /\ st[i] = "open"
    /\ st' = [st EXCEPT ![i] = "gone"] /\ down' = [down EXCEPT ![i] = <<>>]
    /\ up' = up \/ (rpc[i] = "drain" /\ Send(i, [key |-> "BYE"]))
    /\ tick' = [tick EXCEPT ![i] = NoTick] /\ copy' = [copy EXCEPT ![i] = NoCopy]
    /\ rpc' = [rpc EXCEPT ![i] = "drain"] /\ tries' = [tries EXCEPT ![i] = 0]
    /\ UNCHANGED <<setup, writer, members, shaking, ring, alive, got, noticed, sent>>

-----------------------------------------------------------------------------

\* What the writer does next without being asked.
Writer ==
    \/ Poll \/ Woken \/ BeginWrite \/ EndWrite \/ FailWrite \/ TicksSent \/ WriteDone
    \/ \E i \in Input : EmitTick(i) \/ Receive(i) \/ Pass(i) \/ GiveUp(i)
    \/ FinishClose

Handshake(i) == Accept(i) \/ Ready(i) \/ Park(i) \/ Discard(i)

ReadFrame(i) == Drain(i) \/ ReadSlot(i) \/ Load(i) \/ Copy(i) \/ Check(i)

Next ==
    \/ WriteFrame \/ Abort \/ Close \/ Crash \/ Writer
    \/ \E i \in Input : \/ Connect(i) \/ OpenFails(i) \/ Handshake(i)
                        \/ ReadFrame(i) \/ Leave(i)

\* The strand and the worker run and their timeouts expire; inputs keep reading; who
\* waits in the backlog of a closed server is told.
Fairness ==
    /\ WF_vars(Writer)
    /\ \A i \in Input : /\ WF_vars(Handshake(i)) /\ WF_vars(ReadFrame(i))
                        /\ WF_vars(~Listening /\ OpenFails(i))

Spec == Init /\ [][Next]_vars /\ Fairness

-----------------------------------------------------------------------------

Tick == [key : {"TICK"}, slot : 0 .. Depth - 1, seq : Nat, frame : Nat]
Bye == [key : {"BYE"}]
FromInput == [key : {"REDY", "BYE"}] \cup [key : {"ACKT"}, seq : Nat]

TypeOK ==
    /\ setup \in Setups /\ aborted \in BOOLEAN
    /\ pc \in {"idle", "wait", "begin", "fill", "tick", "ack", "closing", "closed", "crashed"}
    /\ clients \subseteq Input /\ todo \subseteq Input /\ parked \subseteq Input
    /\ shaking \in Input \cup {None}
    /\ number \in Nat /\ index \in 0 .. Depth - 1 /\ seq \in Nat /\ fails \in 0 .. MaxFails
    /\ slot \in [0 .. Depth - 1 -> [seq : Nat, frame : Nat, body : Nat]]
    /\ alive \in [Input -> BOOLEAN]
    /\ down \in [Input -> Seq(Tick \cup Bye)] /\ up \in [Input -> Seq(FromInput)]
    /\ st \in [Input -> {"out", "connecting", "open", "gone"}]
    /\ tick \in [Input -> [fresh : BOOLEAN, slot : 0 .. Depth - 1, seq : Nat, frame : Nat]]
    /\ rpc \in [Input -> {"drain", "load", "copy", "check"}] /\ tries \in [Input -> Nat]
    /\ copy \in [Input -> [seq : Nat, frame : Nat, body : Nat]]
    /\ sent \in [Input -> Seq(Nat)] /\ got \in [Input -> Seq(Nat)]
    /\ failed \subseteq Nat /\ noticed \subseteq Input

\* framebridge.h:40: "the input must acknowledge every TICK before the output's
\* writeFrame returns": while a sync input is attached it returns every frame that was
\* announced to it, once and in order, and no slot is written over before that.
SyncLossless ==
    \A i \in clients \cap Sync :
        /\ got[i] = sent[i] \/ (sent[i] # <<>> /\ got[i] = SubSeq(sent[i], 1, Len(sent[i]) - 1))
        /\ (pc \in {"idle", "wait", "begin", "fill"} /\ ~aborted) => got[i] = sent[i]

\* The seqlock, and framebridge.h:325: readFrame() "Uses the last received TICK to locate
\* the slot". However far the writer laps a reader, what is returned is one frame, that
\* of the TICK or a later one; only what did not fit its slot can be seen half written.
ReadsWhole ==
    [][\A i \in Input : got'[i] # got[i] =>
          /\ copy[i].frame >= tick[i].frame
          /\ copy[i].body = copy[i].frame \/ copy[i].frame \in failed]_vars

\* "short enough that a truly-dead reader doesn't stall the pipeline indefinitely": a
\* writeFrame() with clients returns whatever they do, one without when it is aborted.
WriteReturns ==
    (pc \in {"begin", "fill", "tick", "ack"} \/ (pc = "wait" /\ aborted))
        ~> pc \in {"idle", "closing", "closed", "crashed"}

\* The reason for the AcceptWorker: an input that opens is answered although the writer
\* may not call writeFrame(), or may be waiting in it for a consumer.
InputAnswered == \A i \in Input : st[i] = "connecting" ~> st[i] # "connecting"

\* framebridge.h:364: peerDisconnected is emitted "on either side when the peer
\* disappears (EOF on the control socket)" - to an input that has had frames and goes on
\* reading, when the output has closed its socket or crashed.
PeerGoneNoticed ==
    \A i \in Input :
        st[i] = "open" /\ sent[i] # <<>> /\ ~Held(i) ~> i \in noticed \/ st[i] = "gone"

=============================================================================
