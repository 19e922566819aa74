-------------------------- MODULE MCEventBuffer --------------------------
(* Read lists and sizes for the runs of EventBuffer: buffers of two or three
   blocks, events that fill a block just about or not quite. *)
EXTENDS EventBuffer

Events(b, d, e) == [t \in EventType |-> CASE t = "begin" -> b
                                          [] t = "data" -> d
                                          [] t = "end" -> e]

\* Nothing, all that was declared, or more.
Extremes(d) == {0, d, d + Excess}

ThreeBlocks == 6144

LargeEvents == {Events(0, 2000, 0), Events(4000, 500, 3000), Events(5000, 5000, 5000),
                Events(0, 6120, 0), Events(0, 6130, 0), Events(0, 7000, 0)}

TwoBlocksUp == {0, 16384, 20000, 30000}
===========================================================================
