----------------------- MODULE MCMediaIOPortConnection -----------------------
(* Two sinks; each .cfg picks the kinds of source and sinks it considers. *)
EXTENDS MediaIOPortConnection

CONSTANTS k1, k2

SinkOrder == <<k1, k2>>
Limits(a, b) == [k \in Sink |-> IF k = k1 THEN a ELSE b]

\* A leaf into two plain sinks, one of them limited; into a converter and a
\* plain sink; a transform into two plain sinks.
AllSetups ==
    {[transform |-> FALSE, converters |-> {}, limit |-> Limits(0, 1)],
     [transform |-> FALSE, converters |-> {k1}, limit |-> Limits(0, 0)],
     [transform |-> TRUE, converters |-> {}, limit |-> Limits(0, 1)]}

ConverterSetup == {[transform |-> FALSE, converters |-> {k1}, limit |-> Limits(0, 0)]}
=============================================================================
