--------------------------- MODULE LatencyCapture ---------------------------
(***************************************************************************)
(* The latency measurement of timestamp_capture_cli_lib.py: packets that   *)
(* carry the times they left and came back are captured at a port and      *)
(* summed up.  timestamp_capture reads them from a raw socket one by one;  *)
(* timestamp_tcpdump has the tcpdump program capture them, polls the       *)
(* card's packet counter until enough have passed the port, and reads the  *)
(* dump.  osnt-tool-cmd.py clears the counters first, the tool             *)
(* timestamp_capture_cli.py does not.                                      *)
(*                                                                         *)
(* A packet counted at the port may be filtered out, lost on the way to    *)
(* the host, or come before anyone listens.  The two pauses are taken to   *)
(* be long enough: the first for the background programs to have started,  *)
(* the second for the packets counted to have reached the dump.  A time is *)
(* a whole number; the decoding of the stamps, the table of the results    *)
(* and the units are left out.                                             *)
(***************************************************************************)
EXTENDS Integers, Sequences, FiniteSets, SequencesExt, FiniteSetsExt

CONSTANTS
  pkt_no,     \* how many packets are asked for
  Traffics,   \* what the generator may send: sequences of [tx, rx, short],
              \* short if the packet ends before a time stamp position
  MaxMissed   \* bound: packets counted but filtered out, lost, or stale

ASSUME CaptureAssumption ==
  /\ pkt_no \in Nat \ {0} /\ MaxMissed \in Nat
  /\ \A t \in Traffics :
       /\ t \in Seq([tx : Int, rx : Int, short : BOOLEAN])
       /\ \A i, j \in DOMAIN t : i < j => t[i].tx <= t[j].tx

VARIABLES
  tool,       \* "socket" or "tcpdump"
  clears,     \* the counters are cleared first (osnt-tool-cmd.py)
  sends,      \* the tool starts the generator (-rnm); else someone else does
  pc,         \* where the tool is
  running,    \* the generator has been started
  traffic,    \* packets the generator has yet to send
  pkt_cnt,    \* the port's counter
  wire,       \* packets counted, on their way to the host's interface
  listening,  \* the socket is bound, or tcpdump has opened its file
  captured,   \* packets in the socket's buffer, or caught by tcpdump
  removed,    \* the background rm has run
  linked,     \* the name of the dump stands for tcpdump's file
  cal_ts,     \* the packets taken into the results
  missed      \* history: packets counted since the clear that were not captured

config == <<tool, clears, sends>>
network == <<running, traffic, pkt_cnt, wire>>
capture == <<listening, captured, removed, linked>>
vars == <<config, pc, network, capture, cal_ts, missed>>

(* The counter may hold packets of an earlier measurement.                 *)
Init ==
  /\ tool \in {"socket", "tcpdump"} /\ clears \in BOOLEAN /\ sends \in BOOLEAN
  /\ pc = "clear" /\ running = FALSE /\ traffic \in Traffics
  /\ missed \in 0 .. MaxMissed /\ pkt_cnt = missed
  /\ wire = <<>> /\ listening = FALSE /\ captured = <<>>
  /\ removed = FALSE /\ linked = FALSE /\ cal_ts = <<>>

-----------------------------------------------------------------------------
(* The network.                                                             *)

(* Another terminal starts the generator.                                  *)
OtherStarts ==
  /\ ~sends /\ ~running
  /\ running' = TRUE
  /\ UNCHANGED <<config, pc, traffic, pkt_cnt, wire, capture, cal_ts, missed>>

Arrive ==
  /\ running /\ traffic # <<>>
  /\ traffic' = Tail(traffic) /\ wire' = Append(wire, Head(traffic))
  /\ pkt_cnt' = pkt_cnt + 1
  /\ UNCHANGED <<config, pc, running, capture, cal_ts, missed>>

(* tcpdump stops when it has as many as -c says.                           *)
Deliver ==
  /\ wire # <<>> /\ wire' = Tail(wire)
  /\ captured' = IF listening /\ (tool = "tcpdump" => Len(captured) < pkt_no)
                 THEN Append(captured, Head(wire)) ELSE captured
  /\ missed' = IF listening THEN missed ELSE missed + 1
  /\ UNCHANGED <<config, pc, running, traffic, pkt_cnt, listening, removed, linked, cal_ts>>

(* A packet counted at the port does not come to the host.                 *)
Lose ==
  /\ wire # <<>> /\ missed < MaxMissed
  /\ wire' = Tail(wire) /\ missed' = missed + 1
  /\ UNCHANGED <<config, pc, running, traffic, pkt_cnt, capture, cal_ts>>

-----------------------------------------------------------------------------
(* The tool.                                                                *)

Clear ==
  /\ pc = "clear" /\ pc' = "open"
  /\ IF clears THEN pkt_cnt' = 0 /\ missed' = 0 ELSE UNCHANGED <<pkt_cnt, missed>>
  /\ UNCHANGED <<config, running, traffic, wire, capture, cal_ts>>

(* The socket is bound; or rm and tcpdump are put into the background.     *)
OpenCapture ==
  /\ pc = "open"
  /\ IF tool = "socket" THEN pc' = "start" /\ listening' = TRUE
     ELSE pc' = "settle" /\ UNCHANGED listening
  /\ UNCHANGED <<config, network, captured, removed, linked, cal_ts, missed>>

BackgroundRm ==
  /\ tool = "tcpdump" /\ pc \notin {"clear", "open"} /\ ~removed
  /\ removed' = TRUE /\ linked' = FALSE
  /\ UNCHANGED <<config, pc, network, listening, captured, cal_ts, missed>>

BackgroundTcpdump ==
  /\ tool = "tcpdump" /\ pc \notin {"clear", "open"} /\ ~listening
  /\ listening' = TRUE /\ linked' = TRUE
  /\ UNCHANGED <<config, pc, network, captured, removed, cal_ts, missed>>

FirstPause ==
  /\ pc = "settle" /\ removed /\ listening
  /\ pc' = "start"
  /\ UNCHANGED <<config, network, capture, cal_ts, missed>>

Start ==
  /\ pc = "start"
  /\ pc' = IF tool = "socket" THEN "receive" ELSE "poll"
  /\ running' = (running \/ sends)
  /\ UNCHANGED <<config, traffic, pkt_cnt, wire, capture, cal_ts, missed>>

(* A time of the same nanosecond as the packet before makes the bandwidth a *)
(* division by zero.                                                       *)
SameTime(p, q) == p.tx = q.tx
Negative(p) == p.rx < p.tx

(* An empty buffer and the division by zero are exceptions, which the loop *)
(* ignores: it reads on, without counting the packet.  A packet too short, *)
(* or with a negative latency, leaves the loop, and the summing up fails   *)
(* for want of this packet's result.                                       *)
IsLast_tooFar(n) == n > pkt_no
IsLast(n) == n = pkt_no

Receive ==
  /\ pc = "receive" /\ captured # <<>>
  /\ LET p == Head(captured)
         skipped == cal_ts # <<>> /\ SameTime(p, Last(cal_ts))
         broken == p.short \/ (~skipped /\ Negative(p))
     IN /\ pc' = IF broken THEN "failed"
                 ELSE IF ~skipped /\ IsLast(Len(cal_ts) + 1) THEN "sum" ELSE "receive"
        /\ cal_ts' = IF broken \/ skipped THEN cal_ts ELSE Append(cal_ts, p)
  /\ captured' = Tail(captured)
  /\ UNCHANGED <<config, network, listening, removed, linked, missed>>

(* The time from the first packet to the last divides the bytes: one packet *)
(* alone fails.                                                            *)
SumUp ==
  /\ pc = "sum"
  /\ pc' = IF Len(cal_ts) = 1 THEN "failed" ELSE "reported"
  /\ UNCHANGED <<config, network, capture, cal_ts, missed>>

EnoughCounted_oneLess == pkt_cnt + 1 >= pkt_no
EnoughCounted == pkt_cnt >= pkt_no

Poll ==
  /\ pc = "poll" /\ EnoughCounted
  /\ pc' = "pause"
  /\ UNCHANGED <<config, network, capture, cal_ts, missed>>

(* timestamp_calc exits, or fails on a division by zero, at a packet too    *)
(* short, with a negative latency or with the time of the packet before,   *)
(* and on a dump of less than two.                                         *)
timestamp_calc_fails(dump) ==
  \/ Len(dump) < 2
  \/ \E i \in DOMAIN dump : dump[i].short \/ Negative(dump[i])
  \/ \E i \in 1 .. Len(dump) - 1 : SameTime(dump[i], dump[i + 1])

(* The dump holds all packets if tcpdump has finished and closed it, else   *)
(* as many as it has written so far.                                       *)
SecondPauseAndCalc ==
  /\ pc = "pause" /\ wire = <<>>
  /\ \E n \in IF Len(captured) = pkt_no THEN {pkt_no} ELSE 0 .. Len(captured) :
       LET dump == IF linked THEN SubSeq(captured, 1, n) ELSE <<>>
       IN IF timestamp_calc_fails(dump) THEN pc' = "failed" /\ UNCHANGED cal_ts
          ELSE pc' = "reported" /\ cal_ts' = dump
  /\ UNCHANGED <<config, network, capture, missed>>

Tool == \/ Clear \/ OpenCapture \/ FirstPause \/ Start \/ Receive \/ SumUp
        \/ Poll \/ SecondPauseAndCalc

Network == OtherStarts \/ Arrive \/ Deliver \/ Lose

Next == Tool \/ BackgroundRm \/ BackgroundTcpdump \/ Network

(* The programs are scheduled, and a packet sent and not lost gets to the  *)
(* host.  Nothing makes another terminal start the generator.              *)
Spec == /\ Init /\ [][Next]_vars
        /\ WF_vars(Tool) /\ WF_vars(BackgroundRm) /\ WF_vars(BackgroundTcpdump)
        /\ WF_vars(Arrive) /\ WF_vars(Deliver)

-----------------------------------------------------------------------------
Latencies == [i \in DOMAIN cal_ts |-> cal_ts[i].rx - cal_ts[i].tx]

(* What the sum of the latencies is divided by: the socket version's last  *)
(* index plus one; timestamp_calc has counted that one already.            *)
Divisor == IF tool = "socket" THEN Len(cal_ts) ELSE Len(cal_ts) + 1

TypeOK ==
  /\ pc \in {"clear", "open", "settle", "start", "receive", "sum", "poll", "pause",
             "failed", "reported"}
  /\ pkt_cnt \in Nat /\ missed \in Nat
  /\ Len(cal_ts) <= pkt_no /\ (tool = "tcpdump" => Len(captured) <= pkt_no)
  /\ listening \in BOOLEAN /\ linked => listening

(* A report of the socket version is over as many packets as were asked    *)
(* for, no two with the same time; one of the tcpdump version too, if every *)
(* packet the port has counted since the clear came to the capture.  So it *)
(* is only the packets counted elsewhere (noise at the port, an earlier    *)
(* measurement, packets before tcpdump was up) that can make it short.     *)
ReportComplete ==
  pc = "reported" =>
    /\ \A i \in 1 .. Len(cal_ts) - 1 : cal_ts[i].tx < cal_ts[i + 1].tx
    /\ tool = "socket" \/ missed = 0 => Len(cal_ts) = pkt_no

(* The average printed lies between the least and the greatest latency     *)
(* printed beside it ("Min, Max, Average latency",                         *)
(* timestamp_capture_cli_lib.py:311).  Does not hold of the tcpdump        *)
(* version, whose divisor is one too many (line 310).                      *)
Between == LET s == ToSet(Latencies) sum == FoldLeft(LAMBDA a, b : a + b, 0, Latencies)
           IN Divisor * Min(s) <= sum /\ sum <= Divisor * Max(s)
AverageBetween == pc = "reported" => Between

(* A measurement asked for with -lpn reports on that many packets, by both *)
(* versions and both tools, whatever the counter held before.              *)
LpnPackets == pc = "reported" => Len(cal_ts) = pkt_no

(* The measurement comes to an end: the socket version once enough packets *)
(* with different times have come in, the other once the counter has       *)
(* reached the number, although only a part of the packets may be there.   *)
Ended == pc \in {"failed", "reported"}
Enough ==
  /\ pc \notin {"clear", "open"}
  /\ IF tool = "tcpdump" THEN pkt_cnt >= pkt_no
     ELSE Cardinality({p.tx : p \in ToSet(cal_ts \o captured)}) >= pkt_no
EndsWhenEnough == Enough ~> Ended
=============================================================================
