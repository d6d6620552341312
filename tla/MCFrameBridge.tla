---------------------------- MODULE MCFrameBridge ----------------------------
(* One input alone, lapped or in lockstep; two of either kind together. *)
EXTENDS FrameBridge

CONSTANTS i1, i2

Bridge(inputs, sync, waits, frames) ==
    [inputs |-> inputs, sync |-> sync, waits |-> waits, frames |-> frames]

AllSetups ==
    {Bridge({i1}, s, w, 4) : s \in {{}, {i1}}, w \in BOOLEAN}
        \cup {Bridge({i1, i2}, {i1}, TRUE, 2)}
=============================================================================
