---------------------------- MODULE MCSignalQueue ----------------------------
(* SignalQueue with two workers and three signals, one of which may be the    *)
(* one whose handler always raises.                                           *)
EXTENDS SignalQueue

CONSTANTS s1, s2, s3, w1, w2

MCSignals == {s1, s2, s3}
MCWorkers == {w1, w2}
MCPoison == {s1}
MCOneFragile == {w2}
==============================================================================
