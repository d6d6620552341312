---------------------------- MODULE MCRtpReceive ----------------------------
(* Sequence numbers of 5 bits, of which the dropout is half, as in the code; *)
(* the streams begin so that one wraps early.                               *)
EXTENDS RtpReceive

CONSTANTS first, second   \* SSRCs

Rtp(delay, s2, f1, f2) ==
    [delay |-> delay, ssrc |-> [s \in Stream |-> IF s = 1 THEN first ELSE s2],
     first |-> [s \in Stream |-> IF s = 1 THEN f1 ELSE f2]]

\* A stream that wraps and restarts so far ahead that it is recognised, with and without a
\* playout delay; a restart that looks like a gap; two SSRCs that wrap.
AllSetups == {Rtp(0, first, 30, 18), Rtp(1, first, 30, 18), Rtp(1, first, 4, 15),
              Rtp(1, second, 30, 31)}
=============================================================================
