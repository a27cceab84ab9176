-------------------------- MODULE MCPacketGenerator --------------------------
(* Host scripts and traces for TLC. *)
EXTENDS PacketGenerator

OnePort == <<"nf0">>
TwoPorts == <<"nf0", "nf1">>

(* A trace of a two-word and a one-word packet, and one of two packets.    *)
TraceA == << <<Word(1, FALSE), Word(2, TRUE)>>, <<Word(3, TRUE)>> >>
TraceB == << <<Word(4, TRUE)>>, <<Word(5, TRUE)>> >>

(* Replays of nf0 only: the other ports are loaded and run by name.        *)
Cnt(n) == [q \in Queues |-> IF q = "nf0" THEN n ELSE 0]
LoadA == <<<<"nf0", TraceA>>>>
LoadB == <<<<"nf0", TraceB>>>>

(* Load and run in one call or in two, run again, load another trace.      *)
OnePortScripts == {
  Invocation(LoadA, Cnt(2), TRUE) \o <<Watch>> \o Invocation(LoadB, Cnt(3), TRUE),
  Invocation(LoadA, Cnt(0), FALSE) \o Invocation(<<>>, Cnt(1), TRUE)
    \o <<Watch>> \o Invocation(<<>>, Cnt(2), TRUE),
  Invocation(LoadB, Cnt(1), TRUE) \o <<Watch>> \o clear
    \o Invocation(LoadA, Cnt(1), TRUE) }

(* Two ports, loaded by separate calls, run together; a port is started    *)
(* again while it still replays or drains.                                 *)
LoadB1 == <<<<"nf1", TraceB>>>>
TwoPortScripts == {
  Invocation(LoadA, Cnt(0), FALSE) \o Invocation(LoadB1, Cnt(0), FALSE)
    \o Invocation(<<>>, [q \in Queues |-> IF q = "nf0" THEN 2 ELSE 1], TRUE),
  Invocation(LoadB1, [q \in Queues |-> IF q = "nf1" THEN 1 ELSE 0], TRUE) \o run }

AllScripts == OnePortScripts \cup TwoPortScripts

ASSUME MCLoadsInTurn == \A s \in AllScripts : SendsItsTrace(s) /\ LoadsInTurn(s)
(* The other scripts below break this order, each in its own way.          *)
ASSUME MCUsesInOrder == Scripts = AllScripts => \A s \in Scripts : UsesInOrder(s)

(* Both traces named in one call. *)
BothInOneCallScripts == { Invocation(LoadA \o LoadB1, [q \in Queues |-> 1], TRUE) }

(* A replay is cleared on its way, then another trace is loaded and run.   *)
ClearMidwayScripts == {
  Invocation(LoadA, Cnt(2), TRUE) \o clear \o Invocation(LoadB, Cnt(1), TRUE) }

(* The trace fills more cells than the RAM has.                            *)
LongTrace == [i \in 1 .. 5 |-> <<Word(i, TRUE)>>]
OverflowScripts == { Invocation(<<<<"nf0", LongTrace>>>>, Cnt(1), TRUE) }

(* A call with no generator option, such as one that only shows statistics, *)
(* while the generator runs.                                               *)
MonitorCallScripts == { Invocation(LoadA, Cnt(3), TRUE) \o Invocation(<<>>, Cnt(0), FALSE) }

(* One load and one run, for the driver that drops packets.                *)
PlainScripts == { Invocation(LoadA, Cnt(2), TRUE) }

(* Stop is pressed before any run.                                         *)
StopScripts == { Invocation(LoadA, Cnt(1), FALSE) \o stop_replay }
=============================================================================
