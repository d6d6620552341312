--------------------------- MODULE MCMediaPipeline ---------------------------
(* Three stages as a chain with a converter or as a fan-out of two sinks. *)
EXTENDS MediaPipeline

CONSTANTS s1, s2, s3

Chain == {<<s1, s2>>, <<s2, s3>>}
FanOut == {<<s1, s2>>, <<s1, s3>>}

Pipe(routes, cap, watchdog, stuck) ==
    [routes |-> routes, cap |-> cap, watchdog |-> watchdog, stuck |-> stuck]

\* With and without a watchdog; capped; a source or a sink that blocks.
AllSetups ==
    {Pipe(r, 0, w, {}) : r \in {Chain, FanOut}, w \in BOOLEAN}
        \cup {Pipe(r, 1, TRUE, {}) : r \in {Chain, FanOut}}
        \cup {Pipe(Chain, 0, TRUE, {s1}), Pipe(FanOut, 0, TRUE, {s3}),
              Pipe(Chain, 0, TRUE, {s3})}
=============================================================================
