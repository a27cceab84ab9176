------------------------ MODULE LatencyCapture_proofs ------------------------
(***************************************************************************)
(* Proofs about LatencyCapture, for every number of packets asked for,     *)
(* every traffic and any number of packets lost or counted elsewhere.      *)
(***************************************************************************)
EXTENDS LatencyCapture, TLAPS

Packets == [tx : Int, rx : Int, short : BOOLEAN]

Sorted(s) == \A i, j \in DOMAIN s : i < j => s[i].tx <= s[j].tx
Before(s, t) == \A i \in DOMAIN s, j \in DOMAIN t : s[i].tx <= t[j].tx
Rising(s) == \A i \in 1 .. Len(s) - 1 : s[i].tx < s[i + 1].tx

-----------------------------------------------------------------------------
(* The invariant.                                                          *)
Types ==
  /\ tool \in {"socket", "tcpdump"} /\ pkt_cnt \in Nat /\ missed \in Nat
  /\ {cal_ts, captured, wire, traffic} \subseteq Seq(Packets)

(* Packets stay in the order they were sent in, from the generator to the  *)
(* capture; in the socket version to the results.                          *)
InOrder ==
  /\ Sorted(captured) /\ Sorted(wire) /\ Sorted(traffic)
  /\ Before(captured, wire) /\ Before(captured, traffic) /\ Before(wire, traffic)
  /\ Rising(cal_ts)

Socket ==
  /\ Before(cal_ts, captured) /\ Before(cal_ts, wire) /\ Before(cal_ts, traffic)
  /\ pc \in {"clear", "open", "start", "receive", "sum", "failed", "reported"}
  /\ pc \in {"clear", "open", "start", "receive"} => Len(cal_ts) < pkt_no
  /\ pc \in {"sum", "reported"} => Len(cal_ts) = pkt_no
  /\ Len(cal_ts) <= pkt_no

(* Every packet counted since the clear is missed, caught or on its way,   *)
(* unless tcpdump has all it wants.                                        *)
Tcpdump ==
  /\ Len(captured) <= pkt_no /\ Len(cal_ts) <= pkt_no
  /\ Len(captured) = pkt_no \/ pkt_cnt <= missed + Len(captured) + Len(wire)
  /\ pc \in {"clear", "open", "settle", "start", "poll", "pause", "failed", "reported"}
  /\ pc = "pause" => pkt_cnt >= pkt_no
  /\ pc = "reported" /\ missed = 0 => Len(cal_ts) = pkt_no

CaptureInv ==
  /\ Types /\ InOrder
  /\ tool = "socket" => Socket
  /\ tool = "tcpdump" => Tcpdump

-----------------------------------------------------------------------------
(* A packet moves from the head of one sequence to the end of another.     *)
LEMMA Dropped ==
  ASSUME NEW s \in Seq(Packets), s # <<>>
  PROVE  /\ Tail(s) \in Seq(Packets) /\ Head(s) \in Packets
         /\ Len(Tail(s)) = Len(s) - 1
         /\ Sorted(s) => Sorted(Tail(s))
         /\ \A t \in Seq(Packets) : Before(t, s) => Before(t, Tail(s))
         /\ \A t \in Seq(Packets) : Before(s, t) => Before(Tail(s), t)
<1>1. /\ Tail(s) \in Seq(Packets) /\ Head(s) \in Packets /\ Head(s) = s[1]
      /\ Len(Tail(s)) = Len(s) - 1 /\ Len(s) \in Nat \ {0}
      /\ \A i \in 1 .. Len(s) - 1 : Tail(s)[i] = s[i + 1]
  OBVIOUS
<1>2. /\ DOMAIN Tail(s) = 1 .. Len(s) - 1 /\ DOMAIN s = 1 .. Len(s)
  BY <1>1
<1>3. \A i \in DOMAIN Tail(s) : i + 1 \in DOMAIN s /\ Tail(s)[i] = s[i + 1]
  BY <1>1, <1>2
<1>4. Sorted(s) => Sorted(Tail(s))
  BY <1>1, <1>2, <1>3 DEF Sorted
<1>5. \A t \in Seq(Packets) : Before(t, s) => Before(t, Tail(s))
  BY <1>3 DEF Before
<1>6. \A t \in Seq(Packets) : Before(s, t) => Before(Tail(s), t)
  BY <1>3 DEF Before
<1>7. QED BY <1>1, <1>4, <1>5, <1>6

LEMMA Added ==
  ASSUME NEW s \in Seq(Packets), NEW t \in Seq(Packets), t # <<>>
  PROVE  /\ Append(s, Head(t)) \in Seq(Packets)
         /\ Len(Append(s, Head(t))) = Len(s) + 1
         /\ Sorted(s) /\ Before(s, t) => Sorted(Append(s, Head(t)))
         /\ Before(s, t) /\ Sorted(t) => Before(Append(s, Head(t)), Tail(t))
         /\ \A u \in Seq(Packets) :
              Before(s, u) /\ Before(t, u) => Before(Append(s, Head(t)), u)
         /\ \A u \in Seq(Packets) :
              Before(u, s) /\ Before(u, t) => Before(u, Append(s, Head(t)))
<1> DEFINE a == Append(s, Head(t))
<1>1. /\ Head(t) \in Packets /\ Head(t) = t[1] /\ 1 \in DOMAIN t
      /\ a \in Seq(Packets) /\ Len(a) = Len(s) + 1 /\ Len(s) \in Nat
      /\ DOMAIN a = 1 .. Len(s) + 1 /\ DOMAIN s = 1 .. Len(s)
      /\ \A i \in 1 .. Len(s) : a[i] = s[i]
      /\ a[Len(s) + 1] = t[1]
  OBVIOUS
<1> HIDE DEF a
<1>2. \A i \in DOMAIN a : (i \in DOMAIN s /\ a[i] = s[i]) \/ (i = Len(s) + 1 /\ a[i] = t[1])
  <2> TAKE i \in DOMAIN a
  <2>1. i \in 1 .. Len(s) \/ i = Len(s) + 1
    BY <1>1
  <2>2. QED BY <1>1, <2>1, Zenon
<1>3. ASSUME Sorted(s), Before(s, t) PROVE Sorted(a)
  <2> SUFFICES ASSUME NEW i \in DOMAIN a, NEW j \in DOMAIN a, i < j
               PROVE  a[i].tx <= a[j].tx
    BY DEF Sorted
  <2>1. i \in DOMAIN s /\ a[i] = s[i]
    BY <1>1
  <2>2. CASE j \in DOMAIN s
    BY <1>1, <1>3, <2>1, <2>2 DEF Sorted
  <2>3. CASE j = Len(s) + 1
    BY <1>1, <1>3, <2>1, <2>3 DEF Before
  <2>4. QED BY <1>2, <2>2, <2>3
<1>4. ASSUME Before(s, t), Sorted(t) PROVE Before(a, Tail(t))
  <2>1. /\ \A j \in DOMAIN Tail(t) : j + 1 \in DOMAIN t /\ 1 < j + 1 /\ Tail(t)[j] = t[j + 1]
    BY <1>1
  <2>2. QED BY <1>1, <1>2, <1>4, <2>1 DEF Before, Sorted
<1>5. \A u \in Seq(Packets) : Before(s, u) /\ Before(t, u) => Before(a, u)
  BY <1>1, <1>2 DEF Before
<1>6. \A u \in Seq(Packets) : Before(u, s) /\ Before(u, t) => Before(u, a)
  BY <1>1, <1>2 DEF Before
<1>7. QED BY <1>1, <1>3, <1>4, <1>5, <1>6 DEF a

(* A packet with another time than the last goes into the results.         *)
LEMMA Taken ==
  ASSUME NEW s \in Seq(Packets), NEW t \in Seq(Packets), t # <<>>, Rising(s), Before(s, t),
         s = <<>> \/ ~SameTime(Head(t), Last(s))
  PROVE  Rising(Append(s, Head(t)))
<1> DEFINE a == Append(s, Head(t))
<1>1. /\ Head(t) \in Packets /\ Head(t) = t[1] /\ 1 \in DOMAIN t
      /\ Len(a) = Len(s) + 1 /\ Len(s) \in Nat
      /\ \A i \in 1 .. Len(s) : a[i] = s[i] /\ s[i] \in Packets
      /\ a[Len(s) + 1] = t[1]
  OBVIOUS
<1>2. s # <<>> => Last(s) = s[Len(s)] /\ Len(s) \in DOMAIN s
  BY DEF Last
<1> HIDE DEF a
<1> SUFFICES ASSUME NEW i \in 1 .. Len(a) - 1 PROVE a[i].tx < a[i + 1].tx
  BY DEF Rising, a
<1>3. CASE i < Len(s)
  BY <1>1, <1>3 DEF Rising
<1>4. CASE i = Len(s)
  <2>1. s # <<>>
    BY <1>1, <1>4
  <2>2. s[i].tx <= t[1].tx /\ s[i].tx # t[1].tx
    BY <1>1, <1>2, <1>4, <2>1 DEF Before, SameTime
  <2>3. s[i].tx \in Int /\ t[1].tx \in Int
    BY <1>1, <1>4, <2>1 DEF Packets
  <2>4. QED BY <1>1, <1>4, <2>2, <2>3
<1>5. QED BY <1>1, <1>3, <1>4

-----------------------------------------------------------------------------
LEMMA InitCapture == Init => CaptureInv
<1> SUFFICES ASSUME Init PROVE CaptureInv
  OBVIOUS
<1>1. PICK t \in Traffics : traffic = t
  BY DEF Init
<1>2. /\ traffic \in Seq(Packets) /\ Sorted(traffic) /\ pkt_no \in Nat \ {0}
      /\ missed \in Nat /\ pkt_cnt = missed
  BY <1>1, CaptureAssumption DEF Init, Packets, Sorted
<1>3. /\ cal_ts = <<>> /\ captured = <<>> /\ wire = <<>> /\ pc = "clear"
      /\ tool \in {"socket", "tcpdump"}
  BY DEF Init
<1>4. Types
  BY <1>2, <1>3 DEF Types
<1>5. InOrder
  BY <1>2, <1>3 DEF InOrder, Sorted, Before, Rising
<1>6. Socket
  BY <1>2, <1>3 DEF Socket, Before
<1>7. tool = "tcpdump" => Tcpdump
  BY <1>2, <1>3 DEF Tcpdump
<1>8. QED BY <1>4, <1>5, <1>6, <1>7 DEF CaptureInv

(* The network.                                                            *)
LEMMA ArriveCapture == ASSUME CaptureInv, Arrive PROVE CaptureInv'
<1>1. /\ traffic # <<>> /\ traffic' = Tail(traffic) /\ wire' = Append(wire, Head(traffic))
      /\ pkt_cnt' = pkt_cnt + 1
      /\ UNCHANGED <<tool, pc, captured, cal_ts, missed>>
  BY DEF Arrive, config, capture
<1>2. Types /\ InOrder /\ (tool = "socket" => Socket) /\ (tool = "tcpdump" => Tcpdump)
  BY DEF CaptureInv
<1>3. /\ Tail(traffic) \in Seq(Packets) /\ Append(wire, Head(traffic)) \in Seq(Packets)
      /\ Len(wire') = Len(wire) + 1 /\ Len(wire) \in Nat /\ Len(captured) \in Nat
  BY <1>1, <1>2, Dropped, Added DEF Types
<1>4. Types'
  BY <1>1, <1>2, <1>3 DEF Types
<1>5. /\ Sorted(wire') /\ Sorted(traffic') /\ Before(captured, wire')
      /\ Before(captured, traffic') /\ Before(wire', traffic')
  BY <1>1, <1>2, Dropped, Added DEF Types, InOrder
<1>6. InOrder'
  BY <1>1, <1>2, <1>5 DEF InOrder
<1>7. tool = "socket" => Before(cal_ts, wire') /\ Before(cal_ts, traffic')
  BY <1>1, <1>2, Dropped, Added DEF Types, Socket
<1>8. tool = "socket" => Socket'
  BY <1>1, <1>2, <1>7 DEF Socket
<1>9. ASSUME tool = "tcpdump" PROVE Tcpdump'
  <2>1. /\ UNCHANGED <<tool, pc, captured, cal_ts, missed>> /\ pkt_cnt' = pkt_cnt + 1
        /\ pkt_no \in Nat /\ pkt_cnt \in Nat /\ missed \in Nat
    BY <1>1, <1>2, CaptureAssumption DEF Types
  <2>2. Len(captured) = pkt_no \/ pkt_cnt' <= missed + Len(captured) + Len(wire')
    BY <1>2, <1>3, <1>9, <2>1 DEF Tcpdump
  <2>3. QED BY <1>2, <1>9, <2>1, <2>2 DEF Tcpdump
<1>10. QED BY <1>1, <1>4, <1>6, <1>8, <1>9 DEF CaptureInv

LEMMA DeliverCapture == ASSUME CaptureInv, Deliver PROVE CaptureInv'
<1> DEFINE caught == listening /\ (tool = "tcpdump" => Len(captured) < pkt_no)
<1>1. /\ wire # <<>> /\ wire' = Tail(wire)
      /\ captured' = IF caught THEN Append(captured, Head(wire)) ELSE captured
      /\ missed' = IF listening THEN missed ELSE missed + 1
      /\ UNCHANGED <<tool, pc, traffic, cal_ts, pkt_cnt>>
  BY DEF Deliver, config
<1>2. Types /\ InOrder /\ (tool = "socket" => Socket) /\ (tool = "tcpdump" => Tcpdump)
  BY DEF CaptureInv
<1>3. /\ wire' \in Seq(Packets) /\ captured' \in Seq(Packets)
      /\ Len(wire') = Len(wire) - 1 /\ Len(wire) \in Nat /\ Len(captured) \in Nat
      /\ Len(captured') = IF caught THEN Len(captured) + 1 ELSE Len(captured)
  BY <1>1, <1>2, Dropped, Added DEF Types
<1>4. Types'
  BY <1>1, <1>2, <1>3 DEF Types
<1>5. /\ Sorted(wire') /\ Sorted(captured') /\ Before(captured', wire')
      /\ Before(captured', traffic) /\ Before(wire', traffic)
  BY <1>1, <1>2, Dropped, Added DEF Types, InOrder
<1>6. InOrder'
  BY <1>1, <1>2, <1>5 DEF InOrder
<1>7. tool = "socket" => Before(cal_ts, wire') /\ Before(cal_ts, captured')
  BY <1>1, <1>2, Dropped, Added DEF Types, Socket
<1>8. tool = "socket" => Socket'
  BY <1>1, <1>2, <1>7 DEF Socket
<1>9. ASSUME tool = "tcpdump" PROVE Tcpdump'
  <2>1. pkt_no \in Nat /\ pkt_cnt \in Nat /\ missed \in Nat
    BY <1>2, CaptureAssumption DEF Types
  <2>2. Len(captured') <= pkt_no
    BY <1>1, <1>2, <1>3, <1>9, <2>1 DEF Tcpdump
  <2>3. Len(captured') = pkt_no \/ pkt_cnt' <= missed' + Len(captured') + Len(wire')
    <3>1. Len(captured) = pkt_no \/ pkt_cnt <= missed + Len(captured) + Len(wire)
      BY <1>2, <1>9 DEF Tcpdump
    <3>2. CASE caught
      <4>1. Len(captured') = Len(captured) + 1 /\ Len(captured) < pkt_no
            /\ missed' = missed /\ pkt_cnt' = pkt_cnt
        BY <1>1, <1>3, <1>9, <3>2
      <4>2. QED BY <1>3, <2>1, <3>1, <4>1
    <3>3. CASE ~listening
      <4>1. captured' = captured /\ missed' = missed + 1 /\ pkt_cnt' = pkt_cnt
            /\ Len(captured') = Len(captured) /\ Len(wire') = Len(wire) - 1
        BY <1>1, <1>3, <3>3
      <4>2. Len(captured) = pkt_no
              \/ pkt_cnt <= (missed + 1) + Len(captured) + (Len(wire) - 1)
        BY <1>3, <2>1, <3>1
      <4>3. QED BY <4>1, <4>2
    <3>4. CASE listening /\ ~caught
      <4>1. captured' = captured /\ Len(captured) = pkt_no
        BY <1>1, <1>2, <1>3, <1>9, <2>1, <3>4 DEF Tcpdump
      <4>2. QED BY <4>1
    <3>5. QED BY <3>2, <3>3, <3>4
  <2>4. pc' = "reported" /\ missed' = 0 => Len(cal_ts') = pkt_no
    BY <1>1, <1>2, <1>9, <2>1 DEF Tcpdump
  <2>5. QED BY <1>1, <1>2, <1>9, <2>2, <2>3, <2>4 DEF Tcpdump
<1>10. QED BY <1>1, <1>4, <1>6, <1>8, <1>9 DEF CaptureInv

LEMMA LoseCapture == ASSUME CaptureInv, Lose PROVE CaptureInv'
<1>1. /\ wire # <<>> /\ wire' = Tail(wire) /\ missed' = missed + 1
      /\ UNCHANGED <<tool, pc, traffic, captured, cal_ts, pkt_cnt>>
  BY DEF Lose, config, capture
<1>2. Types /\ InOrder /\ (tool = "socket" => Socket) /\ (tool = "tcpdump" => Tcpdump)
  BY DEF CaptureInv
<1>3. /\ wire' \in Seq(Packets) /\ Len(wire') = Len(wire) - 1
      /\ Len(wire) \in Nat /\ Len(captured) \in Nat
  BY <1>1, <1>2, Dropped DEF Types
<1>4. Types'
  BY <1>1, <1>2, <1>3 DEF Types
<1>5. InOrder'
  BY <1>1, <1>2, Dropped DEF Types, InOrder
<1>6. tool = "socket" => Socket'
  BY <1>1, <1>2, Dropped DEF Types, Socket
<1>7. tool = "tcpdump" => Tcpdump'
  BY <1>1, <1>2, <1>3 DEF Tcpdump, Types
<1>8. QED BY <1>1, <1>4, <1>5, <1>6, <1>7 DEF CaptureInv

(* The tool.                                                               *)
LEMMA ReceiveCapture == ASSUME CaptureInv, Receive PROVE CaptureInv'
<1> DEFINE p == Head(captured)
           skipped == cal_ts # <<>> /\ SameTime(p, Last(cal_ts))
           broken == p.short \/ (~skipped /\ Negative(p))
<1>1. /\ captured # <<>> /\ captured' = Tail(captured) /\ pc = "receive"
      /\ pc' = IF broken THEN "failed"
               ELSE IF ~skipped /\ IsLast(Len(cal_ts) + 1) THEN "sum" ELSE "receive"
      /\ cal_ts' = IF broken \/ skipped THEN cal_ts ELSE Append(cal_ts, p)
      /\ UNCHANGED <<tool, wire, traffic, missed, pkt_cnt>>
  BY DEF Receive, config, network
<1>2. Types /\ InOrder /\ (tool = "socket" => Socket) /\ (tool = "tcpdump" => Tcpdump)
  BY DEF CaptureInv
<1>3. tool = "socket" /\ Socket
  BY <1>1, <1>2 DEF Types, Tcpdump
<1> HIDE DEF broken, skipped
<1>4. /\ captured' \in Seq(Packets) /\ cal_ts' \in Seq(Packets)
      /\ Len(cal_ts') = IF broken \/ skipped THEN Len(cal_ts) ELSE Len(cal_ts) + 1
  BY <1>1, <1>2, Dropped, Added DEF Types
<1>5. Types'
  BY <1>1, <1>2, <1>4 DEF Types
<1>6. Rising(cal_ts')
  <2>1. ~skipped => cal_ts = <<>> \/ ~SameTime(p, Last(cal_ts))
    BY DEF skipped
  <2>2. ~skipped => Rising(Append(cal_ts, p))
    BY <1>1, <1>2, <1>3, <2>1, Taken DEF Types, InOrder, Socket
  <2>3. QED BY <1>1, <1>2, <2>2 DEF InOrder
<1>7. /\ Sorted(captured') /\ Before(captured', wire) /\ Before(captured', traffic)
  BY <1>1, <1>2, Dropped DEF Types, InOrder
<1>8. InOrder'
  BY <1>1, <1>2, <1>6, <1>7 DEF InOrder
<1>9. /\ Before(cal_ts', captured') /\ Before(cal_ts', wire) /\ Before(cal_ts', traffic)
  <2>1. /\ Before(cal_ts, captured') /\ Before(cal_ts, wire) /\ Before(cal_ts, traffic)
    BY <1>1, <1>2, <1>3, Dropped DEF Types, Socket
  <2>2. /\ Before(Append(cal_ts, p), captured') /\ Before(Append(cal_ts, p), wire)
        /\ Before(Append(cal_ts, p), traffic)
    BY <1>1, <1>2, <1>3, Added DEF Types, Socket, InOrder
  <2>3. QED BY <1>1, <2>1, <2>2
<1>10. pkt_no \in Nat /\ Len(cal_ts) \in Nat
  BY <1>2, CaptureAssumption DEF Types
<1>11. Socket'
  BY <1>1, <1>3, <1>4, <1>9, <1>10 DEF Socket, IsLast
<1>12. QED BY <1>1, <1>3, <1>5, <1>8, <1>11 DEF CaptureInv

(* Of two packets next to each other in the dump none has the other's time. *)
LEMMA DumpRises ==
  ASSUME NEW s \in Seq(Packets), NEW n \in 0 .. Len(s), Sorted(s),
         ~timestamp_calc_fails(SubSeq(s, 1, n))
  PROVE  SubSeq(s, 1, n) \in Seq(Packets) /\ Len(SubSeq(s, 1, n)) = n
         /\ Rising(SubSeq(s, 1, n))
<1> DEFINE dump == SubSeq(s, 1, n)
<1>1. /\ dump \in Seq(Packets) /\ Len(dump) = n /\ Len(s) \in Nat
      /\ \A i \in 1 .. n : dump[i] = s[i] /\ i \in DOMAIN s /\ s[i] \in Packets
  OBVIOUS
<1>2. \A i \in 1 .. Len(dump) - 1 : ~SameTime(dump[i], dump[i + 1])
  BY DEF timestamp_calc_fails
<1> HIDE DEF dump
<1>3. Rising(dump)
  <2> SUFFICES ASSUME NEW i \in 1 .. n - 1 PROVE dump[i].tx < dump[i + 1].tx
    BY <1>1 DEF Rising
  <2>1. i \in 1 .. n /\ i + 1 \in 1 .. n /\ i < i + 1
    OBVIOUS
  <2>2. dump[i].tx <= dump[i + 1].tx
    BY <1>1, <2>1 DEF Sorted
  <2>3. dump[i].tx # dump[i + 1].tx
    BY <1>1, <1>2 DEF SameTime
  <2>4. dump[i].tx \in Int /\ dump[i + 1].tx \in Int
    BY <1>1, <2>1 DEF Packets
  <2>5. QED BY <2>2, <2>3, <2>4
<1>4. QED BY <1>1, <1>3 DEF dump

LEMMA CalcCapture == ASSUME CaptureInv, SecondPauseAndCalc PROVE CaptureInv'
<1>1. /\ pc = "pause" /\ wire = <<>>
      /\ UNCHANGED <<tool, wire, traffic, captured, missed, pkt_cnt>>
  BY DEF SecondPauseAndCalc, config, network, capture
<1>2. Types /\ InOrder /\ (tool = "socket" => Socket) /\ (tool = "tcpdump" => Tcpdump)
  BY DEF CaptureInv
<1>3. tool = "tcpdump" /\ Tcpdump
  BY <1>1, <1>2 DEF Types, Socket
<1>4. PICK n \in IF Len(captured) = pkt_no THEN {pkt_no} ELSE 0 .. Len(captured) :
        LET dump == IF linked THEN SubSeq(captured, 1, n) ELSE <<>>
        IN IF timestamp_calc_fails(dump) THEN pc' = "failed" /\ UNCHANGED cal_ts
           ELSE pc' = "reported" /\ cal_ts' = dump
  BY DEF SecondPauseAndCalc
<1>5. CASE pc' = "failed" /\ UNCHANGED cal_ts
  <2>1. Types' /\ InOrder'
    BY <1>1, <1>2, <1>5 DEF Types, InOrder
  <2>2. Tcpdump'
    BY <1>1, <1>3, <1>5 DEF Tcpdump
  <2>3. QED BY <1>1, <1>3, <2>1, <2>2 DEF CaptureInv
<1>6. CASE ~(pc' = "failed" /\ UNCHANGED cal_ts)
  <2>1. linked /\ ~timestamp_calc_fails(SubSeq(captured, 1, n))
        /\ pc' = "reported" /\ cal_ts' = SubSeq(captured, 1, n)
    <3>1. timestamp_calc_fails(<<>>)
      BY DEF timestamp_calc_fails
    <3>2. QED BY <1>4, <1>6, <3>1
  <2>2. Len(captured) \in Nat /\ pkt_no \in Nat /\ captured \in Seq(Packets)
    BY <1>2, CaptureAssumption DEF Types
  <2>3. n \in 0 .. Len(captured)
    BY <1>4, <2>2
  <2>4. cal_ts' \in Seq(Packets) /\ Len(cal_ts') = n /\ Rising(cal_ts')
    BY <1>2, <2>1, <2>2, <2>3, DumpRises DEF InOrder
  <2>5. Types'
    BY <1>1, <1>2, <2>4 DEF Types
  <2>6. InOrder'
    BY <1>1, <1>2, <2>4 DEF InOrder
  <2>7. missed = 0 => Len(captured) = pkt_no
    BY <1>1, <1>2, <1>3, <2>2 DEF Tcpdump, Types
  <2>8. missed = 0 => Len(cal_ts') = pkt_no
    BY <1>4, <2>4, <2>7
  <2>9. Tcpdump'
    BY <1>1, <1>3, <1>4, <2>1, <2>2, <2>4, <2>8 DEF Tcpdump
  <2>10. QED BY <1>1, <1>3, <2>5, <2>6, <2>9 DEF CaptureInv
<1>7. QED BY <1>5, <1>6

(* The other steps leave the packets where they are.                       *)
LEMMA ClearCapture == ASSUME CaptureInv, Clear PROVE CaptureInv'
<1>1. /\ pc = "clear" /\ pc' = "open"
      /\ (pkt_cnt' = 0 /\ missed' = 0) \/ UNCHANGED <<pkt_cnt, missed>>
      /\ UNCHANGED <<tool, wire, traffic, captured, cal_ts>>
  BY DEF Clear, config, capture
<1>2. Types /\ InOrder /\ (tool = "socket" => Socket) /\ (tool = "tcpdump" => Tcpdump)
  BY DEF CaptureInv
<1>3. Types' /\ InOrder'
  BY <1>1, <1>2 DEF Types, InOrder
<1>4. tool = "socket" => Socket'
  BY <1>1, <1>2 DEF Socket
<1>5. tool = "tcpdump" => Tcpdump'
  <2>1. Len(captured) \in Nat /\ Len(wire) \in Nat
    BY <1>2 DEF Types
  <2>2. QED BY <1>1, <1>2, <2>1 DEF Tcpdump
<1>6. QED BY <1>1, <1>3, <1>4, <1>5 DEF CaptureInv

LEMMA QuietCapture ==
  ASSUME CaptureInv,
         OpenCapture \/ FirstPause \/ Start \/ SumUp \/ Poll \/ BackgroundRm
           \/ BackgroundTcpdump \/ OtherStarts \/ UNCHANGED vars
  PROVE  CaptureInv'
<1>1. UNCHANGED <<tool, wire, traffic, captured, cal_ts, pkt_cnt, missed>>
  BY DEF OpenCapture, FirstPause, Start, SumUp, Poll, BackgroundRm, BackgroundTcpdump,
         OtherStarts, vars, config, network, capture
<1>2. Types /\ InOrder /\ (tool = "socket" => Socket) /\ (tool = "tcpdump" => Tcpdump)
  BY DEF CaptureInv
<1>3. Types' /\ InOrder'
  BY <1>1, <1>2 DEF Types, InOrder
<1>4. ASSUME tool = "socket" PROVE Socket'
  <2>1. Socket
    BY <1>2, <1>4
  <2>2. \/ pc = "open" /\ pc' = "start"
        \/ pc = "start" /\ pc' = "receive"
        \/ pc = "sum" /\ pc' \in {"failed", "reported"}
        \/ pc' = pc
    BY <1>4, <2>1 DEF Socket, OpenCapture, FirstPause, Start, SumUp, Poll, BackgroundRm,
         BackgroundTcpdump, OtherStarts, vars
  <2>3. QED BY <1>1, <2>1, <2>2 DEF Socket
<1>5. ASSUME tool = "tcpdump" PROVE Tcpdump'
  <2>1. Tcpdump
    BY <1>2, <1>5
  <2>2. \/ pc' \in {"settle", "start", "poll"}
        \/ pc = "poll" /\ pc' = "pause" /\ pkt_cnt >= pkt_no
        \/ pc' = pc
    BY <1>5, <2>1 DEF Tcpdump, OpenCapture, FirstPause, Start, SumUp, Poll, BackgroundRm,
         BackgroundTcpdump, OtherStarts, vars, EnoughCounted
  <2>3. QED BY <1>1, <2>1, <2>2 DEF Tcpdump
<1>6. QED BY <1>1, <1>3, <1>4, <1>5 DEF CaptureInv

(* The invariant holds of every behaviour.                                 *)
THEOREM CaptureInvariant == Spec => []CaptureInv
<1>1. Init => CaptureInv
  BY InitCapture
<1>2. CaptureInv /\ [Next]_vars => CaptureInv'
  BY ArriveCapture, DeliverCapture, LoseCapture, ReceiveCapture, CalcCapture, ClearCapture,
     QuietCapture DEF Next, Tool, Network
<1>3. QED BY <1>1, <1>2, PTL DEF Spec

(* Every variable has its type.                                            *)
THEOREM CaptureTypes == Spec => []TypeOK
<1> DEFINE Files == listening \in BOOLEAN /\ (linked => listening)
<1>1. Init => Files
  BY DEF Init
<1>2. Files /\ [Next]_vars => Files'
  <2> SUFFICES ASSUME Files, [Next]_vars PROVE Files'
    OBVIOUS
  <2>1. CASE Tool
    <3>1. (listening' = TRUE \/ UNCHANGED listening) /\ UNCHANGED linked
      BY <2>1 DEF Tool, Clear, OpenCapture, FirstPause, Start, Receive, SumUp, Poll,
                  SecondPauseAndCalc, capture
    <3>2. QED BY <3>1, Zenon
  <2>2. CASE BackgroundRm \/ BackgroundTcpdump
    BY <2>2 DEF BackgroundRm, BackgroundTcpdump
  <2>3. CASE Network
    BY <2>3 DEF Network, OtherStarts, Arrive, Deliver, Lose, capture
  <2>4. CASE UNCHANGED vars
    BY <2>4 DEF vars, capture
  <2>5. QED BY <2>1, <2>2, <2>3, <2>4 DEF Next
<1>3. CaptureInv /\ Files => TypeOK
  BY DEF CaptureInv, Types, Socket, Tcpdump, TypeOK
<1>4. QED BY <1>1, <1>2, <1>3, CaptureInvariant, PTL DEF Spec

(* A report is over as many packets as were asked for, no two with the same *)
(* time: always in the socket version, in the tcpdump version if every      *)
(* packet the port counted since the clear came to the capture, for any     *)
(* number asked for and any traffic (timestamp_capture_cli_lib.py:155, 323  *)
(* and 332).                                                               *)
THEOREM ReportsComplete == Spec => []ReportComplete
<1>1. CaptureInv => ReportComplete
  <2> SUFFICES ASSUME CaptureInv, pc = "reported"
               PROVE  /\ Rising(cal_ts)
                      /\ tool = "socket" \/ missed = 0 => Len(cal_ts) = pkt_no
    BY DEF ReportComplete, Rising
  <2>1. QED BY DEF CaptureInv, InOrder, Types, Socket, Tcpdump
<1>2. QED BY <1>1, CaptureInvariant, PTL
=============================================================================
