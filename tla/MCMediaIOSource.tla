--------------------------- MODULE MCMediaIOSource ---------------------------
(* Two sources of one group; each .cfg picks what their threads may call. *)
EXTENDS MediaIOSource

CONSTANTS s1, s2, w

PortList == <<s1, s2>>
CallBound == [s \in Source |-> IF s = s1 THEN 3 ELSE 1]

\* The sources begin with different prefetch depths.
MixedDepths == {d \in [Source -> Depths] : d[s1] # d[s2]}

Cast(first, second) == [s \in Source |-> IF s = s1 THEN first ELSE second]

\* One thread seeks and closes while the other reads with continuations; one
\* changes the rate and cancels while the other reads.
SafeCasts ==
    {Cast({"read", "seek", "close"}, {"read", "then"}),
     Cast({"read", "setRate", "cancelPending", "setDepth"}, {"read"})}

\* One thread that seeks while its read is under way.
SeekCast == {Cast({"read", "seek"}, {})}
=============================================================================
