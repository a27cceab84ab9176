-------------------------- MODULE MCLatencyCapture --------------------------
(* Three packets asked for; the generator sends three or four, with a       *)
(* repeated time, a packet too short and a negative latency among them.     *)
EXTENDS LatencyCapture

Packet(tx, latency) == [tx |-> tx, rx |-> tx + latency, short |-> FALSE]
MCTraffics == {
  <<Packet(1, 5), Packet(2, 4), Packet(4, 4)>>,
  <<Packet(1, 5), Packet(2, 4), Packet(4, 4), Packet(5, 7)>>,
  <<Packet(1, 2), Packet(3, 2), Packet(3, 2), Packet(5, 3)>>,
  <<Packet(1, 2), [Packet(3, 2) EXCEPT !.short = TRUE], Packet(5, 3)>>,
  <<Packet(1, 2), Packet(3, -1), Packet(5, 3), Packet(6, 3)>> }
=============================================================================
