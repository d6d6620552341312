----------------------------- MODULE RtpReceive -----------------------------
(***************************************************************************)
(* The receive path of one RTP stream: dispatchToReceivers() and            *)
(* checkSsrcPin() of src/network/rtpsession.cpp, the RFC 3550 tracker that  *)
(* extends the sequence number (rtpseqtracker.cpp), and the reorder buffer  *)
(* behind it (rtpseqreorderbuffer.cpp).                                     *)
(*                                                                         *)
(* The receive threads, one per ST 2022-7 leg, handle a packet under        *)
(* _dispatchMutex, so a packet is one step.  What is hard is what arrives:  *)
(* packets are lost, reordered and duplicated, the sequence number wraps,   *)
(* the sender restarts elsewhere in the sequence space, and packets of      *)
(* another SSRC stray in or take over.                                      *)
(*                                                                         *)
(* A stream is what one run of a sender sends; a restart is a second stream *)
(* with the same SSRC.  Time passes in ticks, of which playoutDelay and the *)
(* debounce window are a number.                                            *)
(***************************************************************************)
EXTENDS Integers, FiniteSets, FiniteSetsExt

CONSTANTS SeqMod, MaxDropout, MaxMisorder,  \* as in rtpseqtracker.h
          MaxWindow,       \* Config::maxWindow
          DebounceCount,   \* kSsrcDebounceCount
          DebounceWindow,  \* kSsrcDebounceWindowMs, in ticks
          Ssrc,            \* the SSRCs
          Setups,          \* playout delays and streams to consider
          MaxSent,         \* bound: packets of a stream
          Reach,           \* bound: how many packets late a packet can be
          MaxTicks         \* bound

MinSequential == 2
Seq16 == 0 .. SeqMod - 1
Stream == {1, 2}

ASSUME RtpAssumption ==
    /\ SeqMod \in Nat \ {0} /\ MaxDropout \in 1 .. SeqMod /\ MaxMisorder \in 0 .. SeqMod
    /\ MaxWindow \in Nat \ {0} /\ DebounceCount \in Nat \ {0} /\ DebounceWindow \in Nat
    /\ MaxSent \in Nat /\ Reach \in Nat /\ MaxTicks \in Nat
    /\ Setups \subseteq [delay : Nat, ssrc : [Stream -> Ssrc], first : [Stream -> Seq16]]

VARIABLES
    setup,    \* delay is Config::playoutDelay in ticks, 0 for none
    sent,     \* packets each stream has sent
    tracker,  \* the fields of RtpSeqTracker
    pin,      \* SsrcPinState, with the age of mismatchFirstTime
    buf,      \* _buf: entries [x, stream, n, age], x the extended sequence number
    cursor,   \* _haveExpected and _expectedSeq
    ticks,    \* bound
    out,      \* history: packets emitted since the last clear(), forced ones marked
    lost,     \* history: sequence numbers evicted since then
    hist      \* history: the stream and packet that anchored the tracker, the newest since,
              \*   whether one of another stream was taken for the same, and whether what
              \*   is buffered or emitted is out of order for that or came late over a wrap

vars == <<setup, sent, tracker, pin, buf, cursor, ticks, out, lost, hist>>

Packet == [stream : Stream, n : Nat]
Wire(q) == (setup.first[q.stream] + q.n) % SeqMod

Idle == [init |-> FALSE, probation |-> MinSequential, base |-> 0, max |-> 0,
         bad |-> SeqMod + 1, cycles |-> 0]
Unset == [have |-> FALSE, expected |-> 0]

Init ==
    /\ setup \in Setups
    /\ sent = [s \in Stream |-> 0]
    /\ tracker = Idle
    /\ pin = [pinned |-> FALSE, ssrc |-> setup.ssrc[1], count |-> 0, age |-> 0]
    /\ buf = {} /\ cursor = Unset
    /\ ticks = 0 /\ out = {} /\ lost = {}
    /\ hist = [of |-> 1, anchor |-> 0, newest |-> 0, mixed |-> FALSE, astray |-> FALSE]

-----------------------------------------------------------------------------
(* RtpSeqTracker.                                                           *)

\* initSourceLocked().
Anchored(seq) == [init |-> TRUE, probation |-> 0, base |-> seq, max |-> seq,
                  bad |-> SeqMod + 1, cycles |-> 0]

\* The implicit initialisation observe() begins with.
Started(t, seq) ==
    IF t.init THEN t
    ELSE [Anchored(seq) EXCEPT !.max = (seq - 1) % SeqMod, !.probation = MinSequential]

\* Probation: two packets in a row anchor the source at the second.
Probed(t, seq) ==
    IF seq # (t.max + 1) % SeqMod
    THEN [t EXCEPT !.probation = MinSequential - 1, !.max = seq]
    ELSE IF t.probation = 1 THEN Anchored(seq)
    ELSE [t EXCEPT !.probation = @ - 1, !.max = seq]

\* Mutant: a repeated packet counts as a wrap.
WrapOnRepeat(t, seq) == seq <= t.max

\* Whether a step forward to seq passes the end of the 16-bit space.
Wraps(t, seq) == seq < t.max

\* What observe() makes of seq: the tracker after it, and whether the packet is dropped
\* as a large jump.
Observe(u, seq) ==
    LET t == Started(u, seq)
        delta == (seq - t.max) % SeqMod
        After(v, dropped) == [tracker |-> v, dropped |-> dropped]
    IN  CASE t.probation > 0 -> After(Probed(t, seq), FALSE)
          [] t.probation = 0 /\ delta < MaxDropout ->
                After([t EXCEPT !.max = seq,
                                !.cycles = IF Wraps(t, seq) THEN @ + SeqMod ELSE @], FALSE)
          [] t.probation = 0 /\ delta >= MaxDropout /\ delta > SeqMod - MaxMisorder ->
                After(t, FALSE)
          [] OTHER -> IF seq = t.bad THEN After(Anchored(seq), FALSE)
                      ELSE After([t EXCEPT !.bad = (seq + 1) % SeqMod], TRUE)

-----------------------------------------------------------------------------
(* RtpSeqReorderBuffer.  A state b of it is [buf, expected, out, lost].     *)

Keys(B) == {e.x : e \in B}
HeadOf(B) == CHOOSE e \in B : \A f \in B : e.x <= f.x

\* Emit E, of which the packets in F were forced by the deadline.
Emit(b, E, F) ==
    [b EXCEPT !.buf = @ \ E,
              !.out = @ \cup {[x |-> e.x, stream |-> e.stream, n |-> e.n, forced |-> e \in F] :
                              e \in E},
              !.expected = Max({@} \cup {e.x + 1 : e \in E})]

\* Mutants: one packet per call; everything held, gap or not.
DrainOne(b) == Emit(b, {e \in b.buf : e.x = b.expected /\ \A f \in b.buf : f.x >= e.x}, {})
DrainAll(b) == Emit(b, b.buf, {})

\* drainInOrderLocked(): the head while it is the expected one.
Drained(b) ==
    Emit(b, {e \in b.buf : /\ e.x >= b.expected
                           /\ b.expected .. e.x \subseteq Keys(b.buf)
                           /\ \A f \in b.buf : f.x >= b.expected}, {})

\* Entries that are not reached by draining from the one before them.
Starts(b) == {e \in b.buf : e.x < b.expected \/ (e.x > b.expected /\ e.x - 1 \notin Keys(b.buf))}

\* The deadline loop: heads as long as they are due, and what follows each in order.
Overdue(b) ==
    IF setup.delay = 0 THEN b
    ELSE LET E == {e \in b.buf : \A f \in Starts(b) : f.x <= e.x => f.age >= setup.delay}
         IN  Emit(b, E, E \cap Starts(b))

\* A full buffer drops its oldest packet and moves the cursor behind it.
MadeRoom(b) ==
    IF Cardinality(b.buf) < MaxWindow THEN b
    ELSE LET h == HeadOf(b.buf)
         IN  [b EXCEPT !.buf = @ \ {h}, !.lost = @ \cup {h.x},
                       !.expected = IF h.x >= @ THEN h.x + 1 ELSE @]

\* Mutant: only what is still buffered is a duplicate.
OnlyBuffered(b, x) == x \in Keys(b.buf)

\* Already emitted, given up, or held.
Duplicate(b, x) == x < b.expected \/ x \in Keys(b.buf)

\* insert().
Insert(b, q, x) ==
    IF Duplicate(b, x) THEN b
    ELSE LET r == MadeRoom(b)
             e == [x |-> x, stream |-> q.stream, n |-> q.n, age |-> 0]
         IN  Overdue(Drained([r EXCEPT !.buf = @ \cup {e}]))

-----------------------------------------------------------------------------
(* RtpSession.                                                              *)

\* Mutant: a change of SSRC leaves the buffer as it is.
KeepBuffer == FALSE

\* Whether accepting another SSRC clears the reorder buffer.
Clears == TRUE

\* checkSsrcPin(): the pin after a packet of SSRC c, and what becomes of the packet.
CheckSsrcPin(c) ==
    LET Verdict(q, what) == [pin |-> q, what |-> what]
    IN  CASE ~pin.pinned -> Verdict([pin EXCEPT !.pinned = TRUE, !.ssrc = c], "take")
          [] pin.pinned /\ c = pin.ssrc -> Verdict([pin EXCEPT !.count = 0], "take")
          [] pin.pinned /\ c # pin.ssrc /\ (pin.count = 0 \/ pin.age > DebounceWindow) ->
                Verdict([pin EXCEPT !.count = 1, !.age = 0], "drop")
          [] OTHER -> IF pin.count + 1 < DebounceCount
                      THEN Verdict([pin EXCEPT !.count = @ + 1], "drop")
                      ELSE Verdict([pin EXCEPT !.count = 0, !.ssrc = c], "change")

\* A packet from before a wrap that arrives when later ones were taken: its extended
\* sequence number is put into the new cycle.
Astray(B, q) ==
    \E o \in B : o.stream = q.stream /\ q.n < o.n /\ Wire(q) > Wire(o)

\* dispatchToReceivers() for packet q.
Dispatch(q) ==
    LET v == CheckSsrcPin(setup.ssrc[q.stream])
        change == v.what = "change"
        seq == Wire(q)
        t == Observe(IF change THEN Idle ELSE tracker, seq)
        x == t.tracker.cycles + seq
        b0 == IF change /\ Clears
              THEN [buf |-> {}, expected |-> x, out |-> {}, lost |-> {}]
              ELSE [buf |-> buf, expected |-> IF cursor.have THEN cursor.expected ELSE x,
                    out |-> out, lost |-> lost]
        b == Insert(b0, q, x)
        anchors == t.tracker.base = seq /\ t.tracker # tracker /\ t.tracker = Anchored(seq)
        mistakes == ~anchors /\ t.tracker.probation = 0 /\ q.stream # hist.of
    IN  /\ pin' = v.pin
        /\ IF v.what = "drop" THEN UNCHANGED <<tracker, buf, cursor, out, lost, hist>>
           ELSE /\ tracker' = t.tracker
                /\ IF t.dropped THEN UNCHANGED <<buf, cursor, out, lost, hist>>
                   ELSE /\ buf' = b.buf /\ out' = b.out /\ lost' = b.lost
                        /\ cursor' = [have |-> TRUE, expected |-> b.expected]
                        /\ hist' = [of |-> IF anchors THEN q.stream ELSE hist.of,
                                    anchor |-> IF anchors THEN q.n ELSE hist.anchor,
                                    newest |-> IF anchors \/ q.n > hist.newest THEN q.n
                                               ELSE hist.newest,
                                    mixed |-> mistakes \/ (hist.mixed /\ ~anchors),
                                    astray |-> mistakes \/ Astray(b0.buf \cup b0.out, q)
                                               \/ (hist.astray /\ ~(change /\ Clears))]

\* The sender and the network: a stream sends its next packet, a restarted sender nothing
\* of the old one; any of the last packets arrives, whether it did before or not.
Send(s) ==
    /\ sent[s] < MaxSent
    /\ setup.ssrc[1] = setup.ssrc[2] /\ s = 1 => sent[2] = 0
    /\ sent' = [sent EXCEPT ![s] = @ + 1]
    /\ UNCHANGED <<setup, tracker, pin, buf, cursor, ticks, out, lost, hist>>

Arrive(q) ==
    /\ q.n < sent[q.stream] /\ q.n + Reach >= sent[q.stream]
    /\ Dispatch(q)
    /\ UNCHANGED <<setup, sent, ticks>>

\* Ages count up to where the code stops telling them apart.
Older(age, limit) == IF age < limit THEN age + 1 ELSE age

Tick ==
    /\ ticks < MaxTicks
    /\ ticks' = ticks + 1
    /\ buf' = {[e EXCEPT !.age = Older(@, setup.delay)] : e \in buf}
    /\ pin' = [pin EXCEPT !.age = IF pin.count > 0 THEN Older(@, DebounceWindow + 1) ELSE 0]
    /\ UNCHANGED <<setup, sent, tracker, cursor, out, lost, hist>>

Next ==
    \/ \E s \in Stream : Send(s) \/ \E n \in 0 .. MaxSent - 1 : Arrive([stream |-> s, n |-> n])
    \/ Tick

Spec == Init /\ [][Next]_vars

-----------------------------------------------------------------------------

Entry == [x : Nat, stream : Stream, n : Nat, age : Nat]
Emitted == [x : Nat, stream : Stream, n : Nat, forced : BOOLEAN]

TypeOK ==
    /\ setup \in Setups /\ sent \in [Stream -> Nat] /\ ticks \in Nat
    /\ tracker \in [init : BOOLEAN, probation : 0 .. MinSequential, base : Seq16,
                    max : Seq16, bad : Nat, cycles : Nat]
    /\ pin \in [pinned : BOOLEAN, ssrc : Ssrc, count : Nat, age : Nat]
    /\ buf \subseteq Entry /\ IsFiniteSet(buf)
    /\ cursor \in [have : BOOLEAN, expected : Nat]
    /\ out \subseteq Emitted /\ lost \subseteq Nat
    /\ hist \in [of : Stream, anchor : Nat, newest : Nat, mixed : BOOLEAN, astray : BOOLEAN]

\* _buf is a map and stays within Config::maxWindow.
WindowBounded ==
    /\ \A e, f \in buf : e.x = f.x => e = f
    /\ Cardinality(buf) <= MaxWindow

\* Delivery is in order and at most once per sequence number, whatever is late, repeated,
\* overdue or evicted: what has been emitted lies behind the cursor and behind everything
\* that is still held.
NeverAgain ==
    \A o \in out : o.x < cursor.expected /\ \A e \in buf : o.x < e.x

\* The order is that of the sender, unless a packet came late across a wrap, or the numbers
\* of a restarted sender passed for a gap or a late packet.
SentOrder ==
    ~hist.astray =>
        \A o, q \in out : (o.stream = q.stream /\ o.x < q.x) => o.n < q.n

\* A gap in what is delivered has a reason: the packet behind it was overdue, or one in
\* the gap was evicted.
GapsHaveReason ==
    \A o \in out :
        \/ o.forced \/ o.x - 1 \in Keys(out)
        \/ \A q \in out : o.x <= q.x
        \/ \E l \in lost : l < o.x /\ \A q \in out : q.x < o.x => q.x < l

\* "As soon as the next-expected extended seq fills, emit it": it is never held, unless an
\* overflow moved the cursor past the very packet it made room for.
NothingDeliverableHeld ==
    (\A e \in buf : e.x >= cursor.expected) => cursor.expected \notin Keys(buf)

\* Between two changes of SSRC everything held and delivered is of the pinned one.
OneSource ==
    \A e \in buf \cup out : setup.ssrc[e.stream] = pin.ssrc

\* The tracker's extended highest sequence number, from which loss is reported, is that of
\* the newest packet since the anchor, over wraps, gaps, repetitions, late packets and every
\* restart it recognises.
HighestTrue ==
    (tracker.init /\ tracker.probation = 0 /\ ~hist.mixed) =>
        tracker.cycles + tracker.max - tracker.base = hist.newest - hist.anchor

=============================================================================
