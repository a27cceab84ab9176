--------------------------- MODULE MonitorHost_proofs ---------------------------
(***************************************************************************)
(* The statistics and the filter of the monitoring tools, for any programs *)
(* and scripts that use them as monitor.py does, any number of rows and    *)
(* columns, any width of the counters, length of packets and traffic: what *)
(* one get_stats has read belongs to one instant, a display shows the      *)
(* packets that have come since the one before, the card ends with the     *)
(* filter asked for last, and no rule is replaced while packets pass.      *)
(***************************************************************************)
EXTENDS MonitorHost, SequenceTheorems, TLAPS

-----------------------------------------------------------------------------
(* Arithmetic modulo a width.                                              *)
LEMMA DivModSum ==
  ASSUME NEW w \in Int, w > 0, NEW x \in Int
  PROVE  x = w * (x \div w) + (x % w)
OBVIOUS

LEMMA DivMod ==
  ASSUME NEW w \in Nat \ {0}, NEW x \in Int
  PROVE  x % w \in 0 .. w - 1 /\ x \div w \in Int /\ x = w * (x \div w) + (x % w)
<1>1. x % w \in 0 .. w - 1 /\ x \div w \in Int
  OBVIOUS
<1>2. x = w * (x \div w) + (x % w)
  <2>1. w \in Int /\ w > 0
    OBVIOUS
  <2>2. QED BY <2>1, DivModSum
<1>3. QED BY <1>1, <1>2

LEMMA ModIs ==
  ASSUME NEW w \in Nat \ {0}, NEW k \in Int, NEW r \in 0 .. w - 1
  PROVE  (k * w + r) % w = r
<1> DEFINE x == k * w + r
<1>1. /\ x \in Int /\ x % w \in 0 .. w - 1 /\ x \div w \in Int
      /\ x = w * (x \div w) + (x % w)
  <2>1. x \in Int
    OBVIOUS
  <2> HIDE DEF x
  <2>2. QED BY <2>1, DivMod
<1> DEFINE q == x \div w  m == x % w
<1>2. k * w + r = q * w + m /\ q \in Int /\ m \in 0 .. w - 1
  BY <1>1
<1> HIDE DEF q, m, x
<1>3. (k - q) * w = m - r
  BY <1>2
<1>4. CASE k = q
  BY <1>2, <1>4 DEF m, x
<1>5. CASE k > q
  <2>1. k - q >= 1 /\ (k - q) * w >= w
    BY <1>2, <1>5
  <2>2. QED BY <1>2, <1>3, <2>1
<1>6. CASE k < q
  <2>1. (q - k) * w >= w
    BY <1>2, <1>6
  <2>2. (q - k) * w = r - m
    BY <1>2
  <2>3. QED BY <1>2, <2>1, <2>2
<1>7. QED BY <1>2, <1>4, <1>5, <1>6

LEMMA ModParts ==
  ASSUME NEW w \in Nat \ {0}, NEW x \in Nat
  PROVE  \E k \in Nat, r \in 0 .. w - 1 : x = k * w + r /\ x % w = r
<1>1. PICK q \in Int, r \in 0 .. w - 1 : x = w * q + r /\ x % w = r
  <2>1. x \in Int
    OBVIOUS
  <2>2. x % w \in 0 .. w - 1 /\ x \div w \in Int /\ x = w * (x \div w) + (x % w)
    BY <2>1, DivMod
  <2>3. QED BY <2>2, Zenon
<1>2. q \in Nat
  <2>1. ASSUME q < 0 PROVE FALSE
    <3>1. (- q) * w >= w
      BY <2>1
    <3>2. QED BY <1>1, <3>1
  <2>2. QED BY <2>1
<1>3. QED BY <1>1, <1>2

(* A multiple of the width makes no difference.                            *)
LEMMA ModShift ==
  ASSUME NEW w \in Nat \ {0}, NEW k \in Nat, NEW x \in Nat
  PROVE  (k * w + x) % w = x % w
<1>1. PICK j \in Nat, r \in 0 .. w - 1 : x = j * w + r /\ x % w = r
  BY ModParts
<1>2. k * w + x = (k + j) * w + r
  BY <1>1
<1>3. ((k + j) * w + r) % w = r
  BY ModIs
<1>4. QED BY <1>1, <1>2, <1>3

LEMMA ModAdd ==
  ASSUME NEW w \in Nat \ {0}, NEW x \in Nat, NEW b \in Nat
  PROVE  ((x % w) + b) % w = (x + b) % w /\ x % w \in Nat
<1>1. PICK j \in Nat, r \in 0 .. w - 1 : x = j * w + r /\ x % w = r
  BY ModParts
<1>2. x + b = j * w + (r + b)
  BY <1>1
<1>3. (j * w + (r + b)) % w = (r + b) % w
  <2> DEFINE y == r + b
  <2>1. y \in Nat
    OBVIOUS
  <2> HIDE DEF y
  <2>2. (j * w + y) % w = y % w
    BY <2>1, ModShift
  <2>3. QED BY <2>2 DEF y
<1>4. QED BY <1>1, <1>2, <1>3

LEMMA ModTimes ==
  ASSUME NEW w \in Nat \ {0}, NEW x \in Nat, NEW b \in Nat
  PROVE  ((x % w) * b) % w = (x * b) % w
<1>1. PICK j \in Nat, r \in 0 .. w - 1 : x = j * w + r /\ x % w = r
  BY ModParts
<1>2. x * b = (j * b) * w + r * b /\ j * b \in Nat /\ r * b \in Nat
  BY <1>1
<1>3. ((j * b) * w + r * b) % w = (r * b) % w
  BY <1>2, ModShift
<1>4. QED BY <1>1, <1>2, <1>3

(* What Difference makes of two counts taken modulo the width.             *)
LEMMA ModDifference ==
  ASSUME NEW w \in Nat \ {0}, NEW x \in Nat, NEW d \in Nat, d < w
  PROVE  LET a == x % w  b == (x + d) % w IN
         (IF b >= a THEN b - a ELSE b + (w - a)) = d
<1>1. PICK j \in Nat, r \in 0 .. w - 1 : x = j * w + r /\ x % w = r
  BY ModParts
<1>2. CASE r + d < w
  <2>1. x + d = j * w + (r + d) /\ r + d \in 0 .. w - 1
    BY <1>1, <1>2
  <2> DEFINE y == r + d
  <2>2. y \in 0 .. w - 1 /\ x + d = j * w + y
    BY <2>1
  <2> HIDE DEF y
  <2>3. (j * w + y) % w = y
    <3>1. j \in Int
      OBVIOUS
    <3>2. QED BY <2>2, <3>1, ModIs
  <2>4. (x + d) % w = r + d
    BY <2>2, <2>3 DEF y
  <2>5. QED BY <1>1, <2>4
<1>3. CASE r + d >= w
  <2>1. x + d = (j + 1) * w + (r + d - w) /\ r + d - w \in 0 .. w - 1
    BY <1>1, <1>3
  <2> DEFINE y == r + d - w  i == j + 1
  <2>2. y \in 0 .. w - 1 /\ x + d = i * w + y /\ i \in Int
    BY <2>1
  <2> HIDE DEF y, i
  <2>3. (i * w + y) % w = y
    BY <2>2, ModIs
  <2>4. (x + d) % w = r + d - w
    BY <2>2, <2>3 DEF y
  <2>5. QED BY <1>1, <2>4
<1>4. QED BY <1>1, <1>2, <1>3

-----------------------------------------------------------------------------
(* Types of what the statistics are made of.                               *)
ControlValues == [rst_stats : BOOLEAN, force_drop : BOOLEAN, tuple_pkt_en : BOOLEAN]
Count == [pkts : Nat, bytes : Nat, n : Nat, base : Nat]

Typed ==
  /\ script \in [Programs -> Seq(Steps)]
  /\ seen \in [Programs -> Count] /\ old \in [Programs -> Count]
  /\ rate \in [Programs -> Int]
  /\ counts \in Count /\ counts_tmp \in Count
  /\ control \in ControlValues /\ rd_value \in [Programs -> ControlValues]
  /\ stats_freeze \in BOOLEAN

LEMMA StepTypes ==
  ASSUME NEW step \in Steps
  PROVE  /\ step.op = "freeze" => step.val \in BOOLEAN /\ step = Freeze(step.val)
         /\ step.op = "write" => step.val \in ControlValues
         /\ \A b \in BOOLEAN : step = Freeze(b) => step.op = "freeze" /\ step.val = b
         /\ step.op \in {"pkt_cnt", "byte_cnt"} => step = Do(step.op)
BY DEF Steps, ControlValues, Freeze, Do

(* What a step of a program does to the statistics and the two registers.  *)
Effect(p) ==
  LET op == Arg(p).op IN
  /\ script[p] # <<>> /\ ticked = TRUE /\ ticked' = FALSE
  /\ script' = [script EXCEPT ![p] = Tail(@)]
  /\ UNCHANGED <<counts, counts_tmp, lost>>
  /\ op = "freeze" => /\ stats_freeze' = Arg(p).val
                       /\ freezers' = IF Arg(p).val THEN freezers \cup {p} ELSE {}
  /\ op # "freeze" => stats_freeze' = stats_freeze /\ freezers' = freezers
  /\ op = "start" => seen' = [seen EXCEPT ![p] = NoCounts] /\ old' = [old EXCEPT ![p] = NoCounts]
                     /\ rate' = [rate EXCEPT ![p] = 0]
  /\ op = "pkt_cnt" => seen' = [seen EXCEPT ![p] = [counts_tmp EXCEPT !.bytes = seen[p].bytes]]
  /\ op = "byte_cnt" => seen' = [seen EXCEPT ![p].bytes = counts_tmp.bytes]
  /\ op \notin {"start", "pkt_cnt", "byte_cnt"} => seen' = seen
  /\ op = "show" => /\ rate' = [rate EXCEPT ![p] = Difference(seen[p].pkts, old[p].pkts)]
                    /\ old' = [old EXCEPT ![p] = seen[p]]
  /\ op \notin {"start", "show"} => old' = old /\ rate' = rate
  /\ op = "write" => control' = Arg(p).val
  /\ op = "drop" => control' = [rd_value[p] EXCEPT !.force_drop = TRUE]
  /\ op = "undrop" => control' = [rd_value[p] EXCEPT !.force_drop = FALSE]
  /\ op \notin {"write", "drop", "undrop"} => control' = control
  /\ op = "read" => rd_value' = [rd_value EXCEPT ![p] = control]
  /\ op = "read_unmapped" => rd_value' = [rd_value EXCEPT ![p] = Control(FALSE, FALSE, FALSE)]
  /\ op \notin {"read", "read_unmapped"} => rd_value' = rd_value

LEMMA StepHasEffect ==
  ASSUME Typed, ticked \in BOOLEAN, NEW p \in Programs, Step(p)
  PROVE  Effect(p)
<1>1. /\ script[p] # <<>> /\ ticked = TRUE /\ ticked' = FALSE
      /\ script' = [script EXCEPT ![p] = Tail(@)]
      /\ UNCHANGED <<counts, counts_tmp, lost>>
  BY DEF Step, After, statistics
<1>2. CASE StartProgram(p)
  BY <1>1, <1>2 DEF StartProgram, StepOf, Arg, Effect, freezing
<1>3. CASE ReadControl(p)
  BY <1>1, <1>3 DEF ReadControl, StepOf, Arg, Effect, freezing
<1>4. CASE ReadUnmapped(p)
  BY <1>1, <1>4 DEF ReadUnmapped, StepOf, Arg, Effect, freezing
<1>5. CASE WriteControl(p)
  BY <1>1, <1>5 DEF WriteControl, StepOf, Arg, Effect, freezing
<1>6. CASE WriteFreeze(p)
  BY <1>1, <1>6 DEF WriteFreeze, StepOf, Arg, Effect
<1>7. CASE FillTables(p)
  BY <1>1, <1>7 DEF FillTables, StepOf, Arg, Effect, freezing
<1>8. CASE AccessTable(p)
  BY <1>1, <1>8 DEF AccessTable, StepOf, Arg, Effect, freezing
<1>9. CASE ReadStats(p)
  BY <1>1, <1>9 DEF ReadStats, StepOf, Arg, Effect, freezing
<1>10. CASE ShowStats(p)
  BY <1>1, <1>10 DEF ShowStats, StepOf, Arg, Effect, freezing
<1>11. QED
  BY <1>2, <1>3, <1>4, <1>5, <1>6, <1>7, <1>8, <1>9, <1>10 DEF Step

(* A refused access moves the program on, or ends it, and does no more.    *)
LEMMA RefusedHasEffect ==
  ASSUME NEW p \in Programs, Refused(p)
  PROVE  /\ \E q \in Programs \ {p} : script[q] # <<>>
         /\ script[p] # <<>> /\ lost' = TRUE
         /\ \/ script' = [script EXCEPT ![p] = Tail(@)]
            \/ script' = [script EXCEPT ![p] = <<>>]
         /\ Arg(p).op \in Writes \cup Reads
         /\ UNCHANGED <<seen, old, rate, counts, counts_tmp, control, rd_value, stats_freeze, freezers, ticked>>
BY DEF Refused, statistics, freezing

(* What is left of a script after a step.                                  *)
LEMMA ScriptAfter ==
  ASSUME Typed, NEW p \in Programs, script[p] # <<>>,
         script' = [script EXCEPT ![p] = Tail(@)]
  PROVE  /\ script' \in [Programs -> Seq(Steps)]
         /\ Arg(p) = script[p][1] /\ Arg(p) \in Steps
         /\ DOMAIN script[p] = 1 .. Len(script[p]) /\ Len(script[p]) \in Nat \ {0}
         /\ script'[p] \in Seq(Steps) /\ DOMAIN script'[p] = 1 .. Len(script[p]) - 1
         /\ Len(script'[p]) = Len(script[p]) - 1
         /\ \A i \in DOMAIN script'[p] : i + 1 \in DOMAIN script[p] /\ script'[p][i] = script[p][i + 1]
         /\ \A q \in Programs \ {p} : script'[q] = script[q]
<1>1. script[p] \in Seq(Steps) /\ script'[p] = Tail(script[p])
      /\ \A q \in Programs \ {p} : script'[q] = script[q]
  BY DEF Typed
<1>2. /\ Head(script[p]) \in Steps /\ Tail(script[p]) \in Seq(Steps)
      /\ Len(Tail(script[p])) = Len(script[p]) - 1
      /\ \A i \in 1 .. Len(Tail(script[p])) : Tail(script[p])[i] = script[p][i + 1]
  BY <1>1, HeadTailProperties
<1>3. Len(script[p]) \in Nat \ {0} /\ DOMAIN script[p] = 1 .. Len(script[p])
      /\ Head(script[p]) = script[p][1]
  BY <1>1
<1>4. script' \in [Programs -> Seq(Steps)]
  BY <1>1, <1>2 DEF Typed
<1> DEFINE t == Tail(script[p])
<1>5. DOMAIN t = 1 .. Len(script[p]) - 1 /\ \A i \in 1 .. Len(script[p]) - 1 : t[i] = script[p][i + 1]
  BY <1>2
<1>6. Arg(p) = Head(script[p])
  BY DEF Arg
<1> HIDE DEF t
<1>7. script'[p] = t /\ t \in Seq(Steps) /\ Len(t) = Len(script[p]) - 1
  BY <1>1, <1>2 DEF t
<1>8. \A i \in 1 .. Len(script[p]) - 1 : i + 1 \in 1 .. Len(script[p])
  BY <1>3
<1>9. QED BY <1>1, <1>2, <1>3, <1>4, <1>5, <1>6, <1>7, <1>8

(* Changes of a record of counts.                                          *)
Clearing(f, a) == [f EXCEPT !.n = a, !.base = a]
Growing(f, x, y) == [f EXCEPT !.pkts = x, !.bytes = y, !.n = @ + 1]

LEMMA ClearedIs ==
  ASSUME NEW f \in Count, NEW a \in Nat, NEW r, r = Clearing(f, a)
  PROVE  r \in Count /\ r.pkts = f.pkts /\ r.bytes = f.bytes /\ r.n = a /\ r.base = a
<1>1. r = [[f EXCEPT !.n = a] EXCEPT !.base = a]
  BY DEF Clearing
<1>2. PICK g : g = [f EXCEPT !.n = a]
  OBVIOUS
<1>3. g \in Count /\ g.pkts = f.pkts /\ g.bytes = f.bytes /\ g.n = a
  BY <1>2 DEF Count
<1>4. r = [g EXCEPT !.base = a]
  BY <1>1, <1>2
<1>5. QED BY <1>3, <1>4 DEF Count

LEMMA GrownIs ==
  \A f \in Count, x, y \in Nat :
    /\ Growing(f, x, y) \in Count
    /\ Growing(f, x, y).pkts = x /\ Growing(f, x, y).bytes = y
    /\ Growing(f, x, y).n = f.n + 1 /\ Growing(f, x, y).base = f.base
<1> TAKE f \in Count, x, y \in Nat
<1>0. PICK r : r = Growing(f, x, y)
  OBVIOUS
<1>1. PICK g : g = [f EXCEPT !.pkts = x]
  OBVIOUS
<1>2. g \in Count /\ g.pkts = x /\ g.n = f.n /\ g.base = f.base
  BY <1>1 DEF Count
<1>3. PICK h : h = [g EXCEPT !.bytes = y]
  OBVIOUS
<1>4. h \in Count /\ h.pkts = x /\ h.bytes = y /\ h.n = f.n /\ h.base = f.base
  BY <1>2, <1>3 DEF Count
<1>5. r = [h EXCEPT !.n = @ + 1]
  BY <1>0, <1>1, <1>3 DEF Growing
<1>6. h.n + 1 \in Nat
  BY <1>4 DEF Count
<1>7. r \in Count /\ r.pkts = x /\ r.bytes = y /\ r.n = f.n + 1 /\ r.base = f.base
  BY <1>4, <1>5, <1>6 DEF Count
<1>8. QED BY <1>0, <1>7

(* One clock edge of the counters.                                         *)
Cleared ==
  counts'.pkts = 0 /\ counts'.bytes = 0 /\ counts'.n = counts.n /\ counts'.base = counts.n

Grown ==
  /\ counts'.pkts = (counts.pkts + 1) % Width
  /\ counts'.bytes = (counts.bytes + PacketBytes) % Width
  /\ counts'.n = counts.n + 1 /\ counts'.base = counts.base

LEMMA TickEffect ==
  ASSUME Typed, NEW v \in BOOLEAN, Tick(v)
  PROVE  /\ counts' \in Count /\ counts_tmp' \in Count
         /\ UNCHANGED <<script, seen, old, rate, rd_value, control, stats_freeze, freezers, lost>>
         /\ control.rst_stats => Cleared
         /\ ~control.rst_stats => counts' = counts \/ Grown
         /\ counts_tmp' = IF control.rst_stats \/ stats_freeze THEN counts_tmp ELSE counts
<1>1. /\ UNCHANGED <<script, seen, old, rate, rd_value, control, stats_freeze, freezers, lost>>
      /\ counts_tmp' = IF control.rst_stats \/ stats_freeze THEN counts_tmp ELSE counts
  <2>1. /\ UNCHANGED <<script, seen, old, rate, rd_value, control, stats_freeze, freezers, lost>>
        /\ counts_tmp' = IF control.rst_stats THEN counts_tmp ELSE counts_tmp_next
    BY DEF Tick, programs, freezing
  <2>2. control.rst_stats \in BOOLEAN /\ stats_freeze \in BOOLEAN
    BY DEF Typed, ControlValues
  <2>3. QED BY <2>1, <2>2 DEF counts_tmp_next
<1>2. control.rst_stats \in BOOLEAN
  BY DEF Typed, ControlValues
<1>3. counts' = CASE control.rst_stats -> [NoCounts EXCEPT !.n = counts.n, !.base = counts.n]
                  [] ~control.rst_stats /\ v  -> Counted(PacketBytes)
                  [] ~control.rst_stats /\ ~v -> counts
  BY DEF Tick
<1>4. /\ control.rst_stats => counts' = [NoCounts EXCEPT !.n = counts.n, !.base = counts.n]
      /\ ~control.rst_stats => counts' = counts \/ counts' = Counted(PacketBytes)
  BY <1>3, Zenon
<1>5. control.rst_stats => Cleared /\ counts' \in Count
  <2>1. NoCounts \in Count /\ counts.n \in Nat /\ NoCounts.pkts = 0 /\ NoCounts.bytes = 0
    BY DEF NoCounts, Count, Typed
  <2>2. ASSUME control.rst_stats
        PROVE  /\ counts' \in Count /\ counts'.pkts = NoCounts.pkts
               /\ counts'.bytes = NoCounts.bytes
               /\ counts'.n = counts.n /\ counts'.base = counts.n
    <3>1. counts' = Clearing(NoCounts, counts.n)
      BY <1>4, <2>2 DEF Clearing
    <3>2. /\ counts' \in Count /\ counts'.pkts = NoCounts.pkts /\ counts'.bytes = NoCounts.bytes
          /\ counts'.n = counts.n /\ counts'.base = counts.n
      BY <2>1, <3>1, ClearedIs
    <3>3. QED BY <3>2
  <2>3. QED BY <2>1, <2>2 DEF Cleared
<1>6. counts' = Counted(PacketBytes) => Grown /\ counts' \in Count
  <2>1. SUFFICES ASSUME counts' = Counted(PacketBytes) PROVE Grown /\ counts' \in Count
    OBVIOUS
  <2>2. PICK k \in Nat : k = (counts.pkts + 1) % Width
    BY CounterAssumption DEF Typed, Count
  <2>3. PICK m \in Nat : m = (counts.bytes + PacketBytes) % Width
    BY CounterAssumption DEF Typed, Count
  <2>4. PICK c \in Count : c = counts
    BY DEF Typed
  <2>5. counts' = Growing(c, k, m)
    BY <2>1, <2>2, <2>3, <2>4, Zenon DEF Counted, Growing
  <2>6. c \in Count /\ k \in Nat /\ m \in Nat
    OBVIOUS
  <2>7. /\ Growing(c, k, m) \in Count
        /\ Growing(c, k, m).pkts = k /\ Growing(c, k, m).bytes = m
        /\ Growing(c, k, m).n = c.n + 1 /\ Growing(c, k, m).base = c.base
    BY <2>6, GrownIs, SMTT(20)
  <2>8. QED BY <2>2, <2>3, <2>4, <2>5, <2>7 DEF Grown
<1>7. counts' \in Count
  BY <1>2, <1>4, <1>5, <1>6 DEF Typed
<1>8. counts_tmp' \in Count
  BY <1>1 DEF Typed
<1>9. QED BY <1>1, <1>4, <1>5, <1>6, <1>7, <1>8, Zenon

LEMMA TypesKept ==
  ASSUME Typed, ticked \in BOOLEAN, [Next]_vars
  PROVE  Typed' /\ ticked' \in BOOLEAN
<1>1. ASSUME NEW p \in Programs, Step(p) PROVE Typed' /\ ticked' \in BOOLEAN
  <2>1. Effect(p)
    BY <1>1, StepHasEffect
  <2>2. /\ script' \in [Programs -> Seq(Steps)] /\ Arg(p) \in Steps
        /\ counts' \in Count /\ counts_tmp' \in Count /\ ticked' \in BOOLEAN
    BY <2>1, ScriptAfter DEF Effect, Typed
  <2>3. NoCounts \in Count /\ Control(FALSE, FALSE, FALSE) \in ControlValues
    BY DEF NoCounts, Count, Control, ControlValues
  <2>4. seen' \in [Programs -> Count]
    <3>1. seen \in [Programs -> Count] /\ counts_tmp \in Count
      BY DEF Typed
    <3>2. [counts_tmp EXCEPT !.bytes = seen[p].bytes] \in Count
      BY <3>1 DEF Count
    <3>3. [seen[p] EXCEPT !.bytes = counts_tmp.bytes] \in Count
      BY <3>1 DEF Count
    <3>4. Arg(p).op = "byte_cnt"
            => seen' = [seen EXCEPT ![p] = [seen[p] EXCEPT !.bytes = counts_tmp.bytes]]
      BY <2>1, <3>1 DEF Effect
    <3>5. QED BY <2>1, <2>3, <3>1, <3>2, <3>3, <3>4 DEF Effect
  <2>5. old' \in [Programs -> Count]
    BY <2>1, <2>3 DEF Effect, Typed
  <2>6. control' \in ControlValues
    <3>1. rd_value[p] \in ControlValues /\ control \in ControlValues
      BY DEF Typed
    <3>2. \A b \in BOOLEAN : [rd_value[p] EXCEPT !.force_drop = b] \in ControlValues
      BY <3>1 DEF ControlValues
    <3>3. Arg(p).op = "write" => Arg(p).val \in ControlValues
      BY <2>2, StepTypes
    <3>4. QED BY <2>1, <3>1, <3>2, <3>3 DEF Effect
  <2>7. rd_value' \in [Programs -> ControlValues]
    BY <2>1, <2>3, ZenonT(40) DEF Effect, Typed
  <2>8. stats_freeze' \in BOOLEAN
    BY <2>1, <2>2, StepTypes DEF Effect, Typed
  <2>9. rate' \in [Programs -> Int]
    <3>1. /\ rate \in [Programs -> Int] /\ seen[p].pkts \in Int /\ old[p].pkts \in Int
          /\ Width \in Int
      BY CounterAssumption, SMTT(40) DEF Typed, Count
    <3>2. Difference(seen[p].pkts, old[p].pkts) \in Int
      BY <3>1 DEF Difference
    <3>3. QED BY <2>1, <3>1, <3>2 DEF Effect
  <2>10. QED BY <2>2, <2>4, <2>5, <2>6, <2>7, <2>8, <2>9 DEF Typed
<1>2. ASSUME NEW p \in Programs, Refused(p) PROVE Typed' /\ ticked' \in BOOLEAN
  <2>1. \/ script' = [script EXCEPT ![p] = Tail(@)]
        \/ script' = [script EXCEPT ![p] = <<>>]
    BY <1>2, RefusedHasEffect
  <2>2. script' \in [Programs -> Seq(Steps)]
    <3>1. script[p] # <<>>
      BY <1>2, RefusedHasEffect
    <3>2. CASE script' = [script EXCEPT ![p] = Tail(@)]
      BY <3>1, <3>2, ScriptAfter
    <3>3. CASE script' = [script EXCEPT ![p] = <<>>]
      BY <3>3 DEF Typed
    <3>4. QED BY <2>1, <3>2, <3>3
  <2>3. UNCHANGED <<seen, old, rate, counts, counts_tmp, control, rd_value, stats_freeze, ticked>>
    BY <1>2, RefusedHasEffect
  <2>4. QED BY <2>2, <2>3 DEF Typed
<1>3. ASSUME NEW v \in BOOLEAN, Tick(v) PROVE Typed' /\ ticked' \in BOOLEAN
  BY <1>3, TickEffect DEF Typed, Tick
<1>4. CASE UNCHANGED vars
  BY <1>4 DEF vars, programs, freezing, statistics, Typed
<1>5. QED BY <1>1, <1>2, <1>3, <1>4 DEF Next

-----------------------------------------------------------------------------
(* The counts of one instant are those of equal packets.  As long as the   *)
(* freeze of a program is in force, the counters it reads stand still: what *)
(* it has read, while its thaw is among its next steps, is what they hold. *)
Halt == Freeze(TRUE)
Thaw == Freeze(FALSE)

Sized(c) == c.bytes = (c.pkts * PacketBytes) % Width

Reader(d) ==
  \A i \in DOMAIN script[d] : script[d][i] = Thaw =>
    /\ i > 1 => script[d][i - 1] = Do("byte_cnt")
    /\ i > 2 => script[d][i - 2] = Do("pkt_cnt")
    /\ i > 3 => script[d][i - 3] = Halt

Reading(d) ==
  \A i \in 1 .. 2 : i \in DOMAIN script[d] /\ script[d][i] = Thaw =>
    /\ seen[d].pkts = counts_tmp.pkts
    /\ i = 1 => Sized(seen[d])

SnapInv ==
  /\ Typed /\ ticked \in BOOLEAN
  /\ Sized(counts) /\ Sized(counts_tmp)
  /\ freezers # {} => stats_freeze
  /\ \A d \in Programs : Reader(d) /\ (d \in freezers => Reading(d))

LEMMA SizedGrows ==
  ASSUME Typed, Sized(counts), Grown
  PROVE  Sized(counts')
<1>1. PICK k \in Nat : k = counts.pkts
  BY DEF Typed, Count
<1>2. PICK b \in Nat : b = PacketBytes
  BY CounterAssumption
<1>3. PICK w \in Nat \ {0} : w = Width
  BY CounterAssumption
<1>4. (((k * b) % w) + b) % w = (((k + 1) % w) * b) % w
  <2>1. k * b \in Nat /\ k + 1 \in Nat
    OBVIOUS
  <2> DEFINE x == k * b
  <2>2. (x + b) = (k + 1) * b
    OBVIOUS
  <2>3. x \in Nat
    BY <2>1
  <2> HIDE DEF x
  <2>4. ((x % w) + b) % w = (x + b) % w
    BY <2>3, ModAdd
  <2>5. (((k + 1) % w) * b) % w = ((k + 1) * b) % w
    BY <2>1, ModTimes
  <2>6. QED BY <2>2, <2>4, <2>5 DEF x
<1>5. counts'.bytes = (counts.bytes + b) % w /\ counts'.pkts = (k + 1) % w
      /\ counts.bytes = (k * b) % w
  BY <1>1, <1>2, <1>3 DEF Grown, Sized
<1>6. counts'.bytes = (counts'.pkts * b) % w
  BY <1>4, <1>5
<1>7. QED BY <1>2, <1>3, <1>6 DEF Sized

LEMMA ReaderKept ==
  ASSUME Typed, NEW d \in Programs, Reader(d),
         NEW p \in Programs, script[p] # <<>>,
         \/ script' = [script EXCEPT ![p] = Tail(@)]
         \/ script' = [script EXCEPT ![p] = <<>>]
  PROVE  Reader(d)'
<1>1. CASE p # d
  <2>1. script'[d] = script[d]
    BY <1>1 DEF Typed
  <2>2. QED BY <2>1 DEF Reader
<1>2. CASE p = d /\ script' = [script EXCEPT ![p] = Tail(@)]
  <2>1. /\ script'[d] \in Seq(Steps) /\ DOMAIN script'[d] = 1 .. Len(script[d]) - 1
        /\ Len(script[d]) \in Nat
        /\ \A i \in DOMAIN script'[d] : i + 1 \in DOMAIN script[d]
                                      /\ script'[d][i] = script[d][i + 1]
    BY <1>2, ScriptAfter
  <2>2. SUFFICES ASSUME NEW i \in DOMAIN script'[d], script'[d][i] = Thaw
                 PROVE  /\ i > 1 => script'[d][i - 1] = Do("byte_cnt")
                        /\ i > 2 => script'[d][i - 2] = Do("pkt_cnt")
                        /\ i > 3 => script'[d][i - 3] = Halt
    BY DEF Reader
  <2>3. script[d][i + 1] = Thaw /\ i + 1 \in DOMAIN script[d] /\ i \in Nat \ {0}
    BY <2>1, <2>2
  <2>4. PICK j : j = i + 1
    OBVIOUS
  <2>5. /\ j > 1 => script[d][j - 1] = Do("byte_cnt")
        /\ j > 2 => script[d][j - 2] = Do("pkt_cnt")
        /\ j > 3 => script[d][j - 3] = Halt
    BY <2>3, <2>4 DEF Reader
  <2>6. \A k \in 1 .. 3 : i > k => script'[d][i - k] = script[d][(i - k) + 1]
    <3>1. \A k \in 1 .. 3 : i > k => i - k \in DOMAIN script'[d]
      BY <2>1, <2>2, <2>3
    <3>2. QED BY <2>1, <3>1
  <2>7. \A k \in 1 .. 3 : (i - k) + 1 = j - k /\ (i > k => j > k + 1)
    BY <2>3, <2>4
  <2>8. \A k \in 1 .. 3 : i > k => script'[d][i - k] = script[d][j - k]
    BY <2>6, <2>7, Zenon
  <2>9. i > 1 => script'[d][i - 1] = Do("byte_cnt")
    BY <2>3, <2>4, <2>5, <2>8
  <2>10. i > 2 => script'[d][i - 2] = Do("pkt_cnt")
    BY <2>3, <2>4, <2>5, <2>8
  <2>11. i > 3 => script'[d][i - 3] = Halt
    BY <2>3, <2>4, <2>5, <2>8
  <2>12. QED BY <2>9, <2>10, <2>11
<1>3. CASE p = d /\ script' = [script EXCEPT ![p] = <<>>]
  <2>1. script'[d] = <<>>
    BY <1>3 DEF Typed
  <2>2. DOMAIN script'[d] = {}
    BY <2>1
  <2>3. QED BY <2>2 DEF Reader
<1>4. QED BY <1>1, <1>2, <1>3

(* What a reader is about to do when its thaw is one of its next three     *)
(* steps.                                                                  *)
LEMMA BeforeThaw ==
  ASSUME Typed, NEW d \in Programs, Reader(d), script[d] # <<>>,
         script' = [script EXCEPT ![d] = Tail(@)],
         NEW i \in 1 .. 2, i \in DOMAIN script'[d], script'[d][i] = Thaw
  PROVE  /\ i = 2 => Arg(d) = Do("pkt_cnt")
         /\ i = 1 => /\ Arg(d) = Do("byte_cnt")
                     /\ 2 \in DOMAIN script[d] /\ script[d][2] = Thaw
<1>1. /\ Arg(d) = script[d][1]
      /\ i + 1 \in DOMAIN script[d] /\ script[d][i + 1] = Thaw
  BY ScriptAfter
<1>2. CASE i = 2
  <2>1. i + 1 = 3
    BY <1>2
  <2>2. script[d][3] = Thaw /\ 3 \in DOMAIN script[d]
    BY <1>1, <2>1, Zenon
  <2>3. 3 > 2 => script[d][3 - 2] = Do("pkt_cnt")
    BY <2>2, Zenon DEF Reader
  <2>4. script[d][1] = Do("pkt_cnt")
    BY <2>3
  <2>5. QED BY <1>1, <1>2, <2>4
<1>3. CASE i = 1
  <2>1. i + 1 = 2
    BY <1>3
  <2>2. script[d][2] = Thaw /\ 2 \in DOMAIN script[d]
    BY <1>1, <2>1, Zenon
  <2>3. 2 > 1 => script[d][2 - 1] = Do("byte_cnt")
    BY <2>2, Zenon DEF Reader
  <2>4. script[d][1] = Do("byte_cnt")
    BY <2>3
  <2>5. QED BY <1>1, <1>3, <2>2, <2>4
<1>4. QED BY <1>2, <1>3

LEMMA ReadingKept ==
  ASSUME Typed, ticked \in BOOLEAN, Sized(counts_tmp), NEW d \in Programs, Reader(d),
         d \in freezers => Reading(d), NEW p \in Programs, Effect(p), d \in freezers'
  PROVE  Reading(d)'
<1>1. SUFFICES ASSUME NEW i \in 1 .. 2, i \in DOMAIN script'[d], script'[d][i] = Thaw
               PROVE  /\ seen'[d].pkts = counts_tmp'.pkts
                      /\ i = 1 => Sized(seen'[d])
  BY DEF Reading
<1>2. /\ script[p] # <<>> /\ script' = [script EXCEPT ![p] = Tail(@)]
      /\ counts_tmp' = counts_tmp /\ seen \in [Programs -> Count] /\ counts_tmp \in Count
  BY DEF Effect, Typed
<1>3. CASE p # d
  <2>1. script'[d] = script[d] /\ seen'[d] = seen[d]
    BY <1>2, <1>3, ScriptAfter DEF Effect
  <2>2. d \in freezers
    BY <1>3 DEF Effect
  <2>3. QED BY <1>1, <1>2, <2>1, <2>2 DEF Reading
<1>4. CASE p = d /\ i = 2
  <2>1. Arg(d) = Do("pkt_cnt")
    BY <1>1, <1>2, <1>4, BeforeThaw
  <2>2. Arg(d).op = "pkt_cnt"
    BY <2>1 DEF Do
  <2>3. seen'[d] = [counts_tmp EXCEPT !.bytes = seen[d].bytes]
    BY <1>2, <1>4, <2>2 DEF Effect
  <2>4. QED BY <1>2, <1>4, <2>3 DEF Count
<1>5. CASE p = d /\ i = 1
  <2>1. Arg(d) = Do("byte_cnt") /\ 2 \in DOMAIN script[d] /\ script[d][2] = Thaw
    BY <1>1, <1>2, <1>5, BeforeThaw
  <2>2. Arg(d).op = "byte_cnt"
    BY <2>1 DEF Do
  <2>3. d \in freezers /\ seen' = [seen EXCEPT ![d].bytes = counts_tmp.bytes]
    BY <1>5, <2>2 DEF Effect
  <2>4. seen[d].pkts = counts_tmp.pkts
    BY <2>1, <2>3 DEF Reading
  <2>5. seen'[d].pkts = counts_tmp.pkts /\ seen'[d].bytes = counts_tmp.bytes
    <3>1. seen'[d] = [seen[d] EXCEPT !.bytes = counts_tmp.bytes] /\ seen[d] \in Count
      BY <1>2, <2>3
    <3>2. QED BY <2>4, <3>1 DEF Count
  <2>6. Sized(seen'[d])
    BY <2>5 DEF Sized
  <2>7. QED BY <1>2, <2>5, <2>6
<1>6. QED BY <1>3, <1>4, <1>5

(* A refused read ends the program, and a refused write is none of those   *)
(* that come right before a thaw.                                          *)
LEMMA ReadingRefused ==
  ASSUME Typed, NEW d \in Programs, Reader(d), d \in freezers => Reading(d),
         NEW p \in Programs, Refused(p), d \in freezers'
  PROVE  Reading(d)'
<1>1. /\ script[p] # <<>> /\ freezers' = freezers /\ seen' = seen /\ counts_tmp' = counts_tmp
      /\ \/ script' = [script EXCEPT ![p] = Tail(@)] /\ Arg(p).op \in Writes
         \/ script' = [script EXCEPT ![p] = <<>>]
  BY DEF Refused, statistics, freezing
<1>2. CASE p # d
  <2>1. script'[d] = script[d]
    BY <1>1, <1>2 DEF Typed
  <2>2. QED BY <1>1, <2>1 DEF Reading
<1>3. CASE p = d /\ script' = [script EXCEPT ![p] = Tail(@)] /\ Arg(p).op \in Writes
  <2>1. ASSUME NEW i \in 1 .. 2, i \in DOMAIN script'[d], script'[d][i] = Thaw PROVE FALSE
    <3>1. /\ i = 2 => Arg(d) = Do("pkt_cnt")
          /\ i = 1 => Arg(d) = Do("byte_cnt")
      <4>1. script[d] # <<>> /\ script' = [script EXCEPT ![d] = Tail(@)]
        BY <1>1, <1>3
      <4>2. QED BY <2>1, <4>1, BeforeThaw
    <3>2. QED BY <1>3, <3>1 DEF Do, Writes
  <2>2. QED BY <2>1 DEF Reading
<1>4. CASE p = d /\ script' = [script EXCEPT ![p] = <<>>]
  <2>1. script'[d] = <<>>
    BY <1>4 DEF Typed
  <2>2. DOMAIN script'[d] = {}
    BY <2>1
  <2>3. QED BY <2>2 DEF Reading
<1>5. QED BY <1>1, <1>2, <1>3, <1>4

LEMMA SnapInductive ==
  ASSUME SnapInv, [Next]_vars
  PROVE  SnapInv'
<1>1. /\ Typed /\ ticked \in BOOLEAN /\ Sized(counts) /\ Sized(counts_tmp)
      /\ freezers # {} => stats_freeze
      /\ \A d \in Programs : Reader(d) /\ (d \in freezers => Reading(d))
  BY DEF SnapInv
<1>2. Typed' /\ ticked' \in BOOLEAN
  BY <1>1, TypesKept
<1>3. ASSUME NEW p \in Programs, Step(p) PROVE SnapInv'
  <2>1. Effect(p)
    BY <1>1, <1>3, StepHasEffect
  <2>2. /\ counts' = counts /\ counts_tmp' = counts_tmp
        /\ script[p] # <<>> /\ script' = [script EXCEPT ![p] = Tail(@)]
    BY <2>1 DEF Effect
  <2>3. freezers' # {} => stats_freeze'
    <3>1. CASE Arg(p).op = "freeze"
      BY <2>1, <3>1 DEF Effect
    <3>2. CASE Arg(p).op # "freeze"
      BY <1>1, <2>1, <3>2 DEF Effect
    <3>3. QED BY <3>1, <3>2
  <2>4. ASSUME NEW d \in Programs PROVE Reader(d)'
    BY <1>1, <2>2, ReaderKept
  <2>5. ASSUME NEW d \in Programs, d \in freezers' PROVE Reading(d)'
    BY <1>1, <2>1, <2>5, ReadingKept
  <2>6. Sized(counts') /\ Sized(counts_tmp')
    BY <1>1, <2>2
  <2>7. QED BY <1>2, <2>3, <2>4, <2>5, <2>6 DEF SnapInv
<1>4. ASSUME NEW p \in Programs, Refused(p) PROVE SnapInv'
  <2>1. /\ script[p] # <<>> /\ freezers' = freezers /\ stats_freeze' = stats_freeze
        /\ counts' = counts /\ counts_tmp' = counts_tmp
        /\ \/ script' = [script EXCEPT ![p] = Tail(@)]
           \/ script' = [script EXCEPT ![p] = <<>>]
    BY <1>4, RefusedHasEffect
  <2>2. ASSUME NEW d \in Programs PROVE Reader(d)'
    BY <1>1, <2>1, ReaderKept
  <2>3. ASSUME NEW d \in Programs, d \in freezers' PROVE Reading(d)'
    BY <1>1, <1>4, <2>3, ReadingRefused
  <2>4. QED BY <1>1, <1>2, <2>1, <2>2, <2>3 DEF SnapInv
<1>5. ASSUME NEW v \in BOOLEAN, Tick(v) PROVE SnapInv'
  <2>1. /\ script' = script /\ seen' = seen /\ stats_freeze' = stats_freeze /\ freezers' = freezers
        /\ control.rst_stats => Cleared
        /\ ~control.rst_stats => counts' = counts \/ Grown
        /\ counts_tmp' = IF control.rst_stats \/ stats_freeze THEN counts_tmp ELSE counts
    BY <1>1, <1>5, TickEffect
  <2>2. Sized(counts')
    <3>1. CASE control.rst_stats
      <4>1. counts'.pkts = 0 /\ counts'.bytes = 0
        BY <2>1, <3>1 DEF Cleared
      <4>2. 0 = (0 * PacketBytes) % Width
        BY CounterAssumption
      <4>3. QED BY <4>1, <4>2 DEF Sized
    <3>2. CASE ~control.rst_stats
      BY <1>1, <2>1, <3>2, SizedGrows
    <3>3. QED BY <3>1, <3>2
  <2>3. counts_tmp' = counts_tmp \/ counts_tmp' = counts
    BY <2>1
  <2>4. stats_freeze => counts_tmp' = counts_tmp
    BY <2>1
  <2>5. Sized(counts_tmp')
    BY <1>1, <2>3
  <2>6. ASSUME NEW d \in Programs
        PROVE  Reader(d)' /\ (d \in freezers' => Reading(d)')
    BY <1>1, <2>1, <2>4 DEF Reader, Reading
  <2>7. QED BY <1>1, <1>2, <2>1, <2>2, <2>5, <2>6 DEF SnapInv
<1>6. CASE UNCHANGED vars
  <2>1. UNCHANGED <<script, seen, counts, counts_tmp, stats_freeze, freezers>>
    BY <1>6 DEF vars, programs, statistics, freezing
  <2>2. ASSUME NEW d \in Programs
        PROVE  Reader(d)' /\ (d \in freezers' => Reading(d)')
    BY <1>1, <2>1 DEF Reader, Reading
  <2>3. QED BY <1>1, <1>2, <2>1, <2>2 DEF SnapInv
<1>7. QED BY <1>3, <1>4, <1>5, <1>6 DEF Next

LEMMA InitTyped ==
  ASSUME Init
  PROVE  Typed /\ ticked \in BOOLEAN
<1>1. NoCounts \in Count /\ Control(FALSE, FALSE, FALSE) \in ControlValues
  BY DEF NoCounts, Count, Control, ControlValues
<1>2. script \in [Programs -> Seq(Steps)]
  BY ScriptAssumption DEF Init
<1>3. /\ seen \in [Programs -> Count] /\ old \in [Programs -> Count]
      /\ counts \in Count /\ counts_tmp \in Count
  BY <1>1 DEF Init
<1>4. rate \in [Programs -> Int]
  BY DEF Init
<1>5. /\ control \in ControlValues /\ rd_value \in [Programs -> ControlValues]
      /\ stats_freeze \in BOOLEAN /\ ticked \in BOOLEAN
  <2>1. \A b \in BOOLEAN : Control(FALSE, b, FALSE) \in ControlValues
    BY DEF Control, ControlValues
  <2>2. PICK b \in BOOLEAN : b = (Found(Programs) = "ones")
    OBVIOUS
  <2>3. control = Control(FALSE, b, FALSE)
    BY <2>2 DEF Init
  <2>4. QED BY <1>1, <2>1, <2>3 DEF Init
<1>6. QED BY <1>2, <1>3, <1>4, <1>5 DEF Typed

LEMMA InitSnap ==
  ASSUME Init, ReadsFrozen(script)
  PROVE  SnapInv
<1>1. Typed /\ ticked \in BOOLEAN
  BY InitTyped
<1>2. Sized(counts) /\ Sized(counts_tmp)
  BY CounterAssumption DEF Init, NoCounts, Sized
<1>3. freezers = {}
  BY DEF Init
<1>4. \A d \in Programs : Reader(d)
  BY DEF ReadsFrozen, Reader, Thaw, Halt
<1>5. QED BY <1>1, <1>2, <1>3, <1>4 DEF SnapInv

(* The counters one get_stats has read belong to one instant: for any      *)
(* number of programs that read them, each right between its two writes of *)
(* stats_freeze (get_stats in monitor.py), whatever else they do and the   *)
(* driver refuses, as long as the freeze of the program is in force until  *)
(* it lifts it itself.                                                     *)
THEOREM SnapshotHolds ==
  ASSUME \A s \in Scripts : ReadsFrozen(s)
  PROVE  Spec => []SnapshotConsistent
<1>1. Init => SnapInv
  BY InitSnap DEF Init
<1>2. SnapInv /\ [Next]_vars => SnapInv'
  BY SnapInductive
<1>3. SnapInv => SnapshotConsistent
  <2>1. SUFFICES ASSUME SnapInv, NEW p \in Programs, p \in freezers,
                        script[p] # <<>>, Head(script[p]).op = "freeze",
                        ~Head(script[p]).val
                 PROVE  Sized(seen[p])
    BY DEF SnapshotConsistent, OneInstant, Read, StepOf, Arg, Sized
  <2>2. Reading(p)
    BY <2>1 DEF SnapInv
  <2>3. /\ script[p] \in Seq(Steps) /\ 1 \in DOMAIN script[p] /\ Head(script[p]) = script[p][1]
        /\ script[p][1] \in Steps
    BY <2>1 DEF SnapInv, Typed
  <2>4. script[p][1] = Thaw
    <3>1. script[p][1] = Freeze(script[p][1].val) /\ script[p][1].val \in BOOLEAN
      BY <2>1, <2>3, StepTypes
    <3>2. script[p][1].val = FALSE
      BY <2>1, <2>3, <3>1
    <3>3. QED BY <3>1, <3>2, Zenon DEF Thaw
  <2>5. QED BY <2>2, <2>3, <2>4 DEF Reading
<1>4. QED BY <1>1, <1>2, <1>3, PTL DEF Spec

-----------------------------------------------------------------------------
(* The packets a display says have come.  The counters know their packets: *)
(* those counted since the last reset, modulo the width.  What a program   *)
(* has read is older than what the registers hold, and what it has shown   *)
(* is older still.                                                         *)
Times(c) == c.base <= c.n /\ c.pkts = (c.n - c.base) % Width

Counting ==
  /\ Times(counts) /\ Times(counts_tmp) /\ counts_tmp.n <= counts.n
  /\ \A p \in Programs :
       /\ Times(seen[p]) /\ Times(old[p])
       /\ old[p].n <= seen[p].n /\ seen[p].n <= counts_tmp.n

(* Without resets, nothing was ever counted before one.                    *)
Never ==
  /\ NeverResets(script)
  /\ ~control.rst_stats /\ counts.base = 0 /\ counts_tmp.base = 0
  /\ \A p \in Programs : ~rd_value[p].rst_stats /\ seen[p].base = 0 /\ old[p].base = 0

(* With resets: program d is alone, and what is left of its script still   *)
(* ends resets and freezes, starts again after a reset, and reads before   *)
(* it shows.                                                               *)
FreezesEnd(q) ==
  \A i \in DOMAIN q : q[i] = Halt =>
    i + 2 < Len(q) /\ q[i + 1] = Do("pkt_cnt") /\ q[i + 2] = Do("byte_cnt") /\ q[i + 3] = Thaw

ReadsFirst(q) ==
  \A i \in DOMAIN q : q[i].op = "show" =>
    /\ i > 3 => q[i - 3] = Do("pkt_cnt")
    /\ i > 2 => q[i - 2] = Do("byte_cnt")
    /\ i > 1 => q[i - 1] = Thaw

Alone(d) ==
  /\ \A p \in Programs \ {d} : script[p] = <<>>
  /\ EndsResets(script[d]) /\ FreezesEnd(script[d]) /\ StartsAgain(script[d])
  /\ ReadsFirst(script[d])

(* A reset that is on ends with the next step, and is never read; a freeze *)
(* ends within three.                                                      *)
ResetEnds(d) ==
  /\ control.rst_stats => /\ script[d] # <<>> /\ script[d][1].op = "write"
                          /\ ~Resets(script[d][1])
  /\ ~rd_value[d].rst_stats

FreezeEnds(d) ==
  stats_freeze =>
    \/ Len(script[d]) > 2 /\ script[d][1] = Do("pkt_cnt") /\ script[d][2] = Do("byte_cnt")
                          /\ script[d][3] = Thaw
    \/ Len(script[d]) > 1 /\ script[d][1] = Do("byte_cnt") /\ script[d][2] = Thaw
    \/ Len(script[d]) > 0 /\ script[d][1] = Thaw

(* The registers lag behind a reset until the clock edge after it.         *)
Lagging ==
  counts_tmp.base # counts.base => control.rst_stats \/ (ticked = FALSE /\ ~stats_freeze)

Calm == ~control.rst_stats /\ counts_tmp.base = counts.base

(* If a display comes before the next start, the one before it was never,  *)
(* or since the last reset; if it comes within three steps, the statistics *)
(* were read since then too.                                               *)
Shows(q, j) == j \in DOMAIN q /\ q[j].op = "show" /\ \A k \in 1 .. j - 1 : q[k].op # "start"

ShownSince(d) ==
  \A j \in DOMAIN script[d] : Shows(script[d], j) =>
    \/ old[d].pkts = 0 /\ old[d].n = 0
    \/ Calm /\ old[d].base = counts.base

ReadSince(d) ==
  \A j \in 1 .. 3 : j \in DOMAIN script[d] /\ script[d][j].op = "show" =>
    Calm /\ seen[d].base = counts.base

AloneState(d) ==
  ResetEnds(d) /\ FreezeEnds(d) /\ Lagging /\ ShownSince(d) /\ ReadSince(d)

RateInv ==
  /\ Typed /\ ticked \in BOOLEAN /\ Counting
  /\ Never \/ \E d \in Programs : Alone(d) /\ AloneState(d)

-----------------------------------------------------------------------------
(* The counts, step by step.                                               *)
LEMMA TimesGrows ==
  ASSUME Typed, Times(counts), Grown
  PROVE  Times(counts')
<1>1. counts.n \in Nat /\ counts.base \in Nat /\ counts.base <= counts.n
      /\ counts.pkts = (counts.n - counts.base) % Width
  BY DEF Typed, Count, Times
<1>2. PICK x \in Nat : x = counts.n - counts.base
  BY <1>1
<1>3. PICK w \in Nat \ {0} : w = Width
  BY CounterAssumption
<1>4. ((x % w) + 1) % w = (x + 1) % w
  BY ModAdd
<1>5. counts'.n - counts'.base = x + 1 /\ counts'.base <= counts'.n
  BY <1>1, <1>2 DEF Grown
<1>6. counts'.pkts = ((x % w) + 1) % w
  BY <1>1, <1>2, <1>3 DEF Grown
<1>7. counts'.pkts = (counts'.n - counts'.base) % Width
  BY <1>3, <1>4, <1>5, <1>6
<1>8. QED BY <1>5, <1>7 DEF Times

LEMMA TimesOfNone ==
  Times(NoCounts) /\ NoCounts.n = 0 /\ NoCounts.base = 0 /\ NoCounts.pkts = 0
BY CounterAssumption DEF Times, NoCounts

(* What a step of program p reads and keeps.                               *)
LEMMA SeenAfter ==
  ASSUME Typed, NEW p \in Programs, Effect(p)
  PROVE  /\ \A q \in Programs \ {p} : seen'[q] = seen[q] /\ old'[q] = old[q]
         /\ Arg(p).op = "start" => seen'[p] = NoCounts /\ old'[p] = NoCounts
         /\ Arg(p).op = "pkt_cnt" =>
              seen'[p].pkts = counts_tmp.pkts /\ seen'[p].n = counts_tmp.n
              /\ seen'[p].base = counts_tmp.base
         /\ Arg(p).op \notin {"start", "pkt_cnt"} =>
              seen'[p].pkts = seen[p].pkts /\ seen'[p].n = seen[p].n
              /\ seen'[p].base = seen[p].base
         /\ Arg(p).op = "show" => old'[p] = seen[p]
         /\ Arg(p).op \notin {"start", "show"} => old'[p] = old[p]
<1>1. seen \in [Programs -> Count] /\ old \in [Programs -> Count]
      /\ counts_tmp \in Count /\ seen[p] \in Count
  BY DEF Typed
<1>2. \A q \in Programs \ {p} : seen'[q] = seen[q] /\ old'[q] = old[q]
  BY <1>1 DEF Effect
<1>3. Arg(p).op = "start" => seen'[p] = NoCounts /\ old'[p] = NoCounts
  BY <1>1 DEF Effect
<1>4. Arg(p).op = "pkt_cnt" =>
        seen'[p].pkts = counts_tmp.pkts /\ seen'[p].n = counts_tmp.n
        /\ seen'[p].base = counts_tmp.base
  <2>1. Arg(p).op = "pkt_cnt" => seen'[p] = [counts_tmp EXCEPT !.bytes = seen[p].bytes]
    BY <1>1 DEF Effect
  <2>2. QED BY <1>1, <2>1 DEF Count
<1>5. Arg(p).op \notin {"start", "pkt_cnt"} =>
        seen'[p].pkts = seen[p].pkts /\ seen'[p].n = seen[p].n
        /\ seen'[p].base = seen[p].base
  <2>1. Arg(p).op = "byte_cnt" => seen'[p] = [seen[p] EXCEPT !.bytes = counts_tmp.bytes]
    BY <1>1 DEF Effect
  <2>2. Arg(p).op \notin {"start", "pkt_cnt", "byte_cnt"} => seen'[p] = seen[p]
    BY DEF Effect
  <2>3. QED BY <1>1, <2>1, <2>2 DEF Count
<1>6. /\ Arg(p).op = "show" => old'[p] = seen[p]
      /\ Arg(p).op \notin {"start", "show"} => old'[p] = old[p]
  BY <1>1 DEF Effect
<1>7. QED BY <1>2, <1>3, <1>4, <1>5, <1>6

LEMMA CountingStep ==
  ASSUME Typed, Counting, NEW p \in Programs, Effect(p)
  PROVE  Counting'
<1>1. counts' = counts /\ counts_tmp' = counts_tmp
  BY DEF Effect
<1>2. Times(counts') /\ Times(counts_tmp') /\ counts_tmp'.n <= counts'.n
  BY <1>1 DEF Counting
<1>3. ASSUME NEW q \in Programs
      PROVE  /\ Times(seen'[q]) /\ Times(old'[q])
             /\ old'[q].n <= seen'[q].n /\ seen'[q].n <= counts_tmp'.n
  <2>1. /\ Times(seen[q]) /\ Times(old[q]) /\ Times(counts_tmp)
        /\ old[q].n <= seen[q].n /\ seen[q].n <= counts_tmp.n
    BY DEF Counting
  <2>2. old[q].n \in Nat /\ seen[q].n \in Nat /\ counts_tmp.n \in Nat
    BY DEF Typed, Count
  <2>3. CASE q # p
    BY <1>1, <2>1, <2>3, SeenAfter
  <2>4. CASE q = p /\ Arg(p).op = "start"
    <3>1. seen'[p] = NoCounts /\ old'[p] = NoCounts
      BY <2>4, SeenAfter
    <3>2. QED BY <1>1, <2>2, <2>4, <3>1, TimesOfNone
  <2>5. CASE q = p /\ Arg(p).op = "pkt_cnt"
    <3>1. /\ seen'[p].pkts = counts_tmp.pkts /\ seen'[p].n = counts_tmp.n
          /\ seen'[p].base = counts_tmp.base /\ old'[p] = old[p]
      BY <2>5, SeenAfter
    <3>2. Times(seen'[p])
      BY <2>1, <3>1 DEF Times
    <3>3. QED BY <1>1, <2>1, <2>2, <2>5, <3>1, <3>2
  <2>6. CASE q = p /\ Arg(p).op \notin {"start", "pkt_cnt"}
    <3>1. /\ seen'[p].pkts = seen[p].pkts /\ seen'[p].n = seen[p].n
          /\ seen'[p].base = seen[p].base
          /\ old'[p] = old[p] \/ old'[p] = seen[p]
      BY <2>6, SeenAfter
    <3>2. Times(seen'[p])
      BY <2>1, <2>6, <3>1 DEF Times
    <3>3. Times(old'[p]) /\ old'[p].n <= seen'[p].n
      BY <2>1, <2>2, <2>6, <3>1
    <3>4. QED BY <1>1, <2>1, <2>6, <3>1, <3>2, <3>3
  <2>7. QED BY <2>3, <2>4, <2>5, <2>6
<1>4. QED BY <1>2, <1>3 DEF Counting

LEMMA CountingTick ==
  ASSUME Typed, Counting, NEW v \in BOOLEAN, Tick(v)
  PROVE  Counting'
<1>1. /\ seen' = seen /\ old' = old
      /\ control.rst_stats => Cleared
      /\ ~control.rst_stats => counts' = counts \/ Grown
      /\ counts_tmp' = counts_tmp \/ counts_tmp' = counts
  BY TickEffect
<1>2. /\ Times(counts) /\ Times(counts_tmp) /\ counts_tmp.n <= counts.n
      /\ counts.n \in Nat /\ counts.base \in Nat /\ counts_tmp.n \in Nat
  BY DEF Typed, Count, Counting
<1>3. Times(counts') /\ counts.n <= counts'.n
  <2>1. CASE Cleared
    <3>1. counts'.n - counts'.base = 0 /\ counts'.pkts = 0 /\ counts'.base <= counts'.n
          /\ counts.n <= counts'.n
      BY <1>2, <2>1 DEF Cleared
    <3>2. 0 = 0 % Width
      BY CounterAssumption
    <3>3. QED BY <3>1, <3>2 DEF Times
  <2>2. CASE counts' = counts
    BY <1>2, <2>2
  <2>3. CASE Grown
    <3>1. Times(counts')
      BY <1>2, <2>3, TimesGrows
    <3>2. counts.n <= counts'.n
      BY <1>2, <2>3 DEF Grown
    <3>3. QED BY <3>1, <3>2
  <2>4. QED BY <1>1, <2>1, <2>2, <2>3
<1>4. counts'.n \in Nat
  BY TickEffect DEF Count
<1>5. Times(counts_tmp') /\ counts_tmp'.n <= counts'.n /\ counts_tmp.n <= counts_tmp'.n
  BY <1>1, <1>2, <1>3, <1>4
<1>6. ASSUME NEW q \in Programs
      PROVE  /\ Times(seen'[q]) /\ Times(old'[q])
             /\ old'[q].n <= seen'[q].n /\ seen'[q].n <= counts_tmp'.n
  <2>1. seen[q].n \in Nat /\ counts_tmp'.n \in Nat
    <3>1. counts_tmp' \in Count
      BY TickEffect
    <3>2. QED BY <3>1 DEF Typed, Count
  <2>2. QED BY <1>1, <1>2, <1>5, <2>1 DEF Counting
<1>7. QED BY <1>3, <1>5, <1>6 DEF Counting

-----------------------------------------------------------------------------
(* What is left of a script, and that it keeps what Alone says of it.      *)
Shifted(q, t) ==
  /\ Len(q) \in Nat \ {0} /\ DOMAIN q = 1 .. Len(q)
  /\ Len(t) = Len(q) - 1 /\ DOMAIN t = 1 .. Len(q) - 1
  /\ \A i \in DOMAIN t : i + 1 \in DOMAIN q /\ t[i] = q[i + 1]

LEMMA ScriptShifted ==
  ASSUME Typed, NEW p \in Programs, Effect(p)
  PROVE  /\ Shifted(script[p], script'[p]) /\ \A q \in Programs \ {p} : script'[q] = script[q]
         /\ Arg(p) = script[p][1] /\ Arg(p) \in Steps /\ 1 \in DOMAIN script[p]
<1>1. script[p] # <<>> /\ script' = [script EXCEPT ![p] = Tail(@)]
  BY DEF Effect
<1>2. /\ Arg(p) = script[p][1] /\ Arg(p) \in Steps
      /\ DOMAIN script[p] = 1 .. Len(script[p]) /\ Len(script[p]) \in Nat \ {0}
      /\ DOMAIN script'[p] = 1 .. Len(script[p]) - 1
      /\ Len(script'[p]) = Len(script[p]) - 1
      /\ \A i \in DOMAIN script'[p] : i + 1 \in DOMAIN script[p] /\ script'[p][i] = script[p][i + 1]
      /\ \A q \in Programs \ {p} : script'[q] = script[q]
  BY <1>1, ScriptAfter
<1>3. Shifted(script[p], script'[p])
  BY <1>2 DEF Shifted
<1>4. 1 \in 1 .. Len(script[p])
  BY <1>2
<1>5. QED BY <1>2, <1>3, <1>4

LEMMA ResetsShift ==
  ASSUME NEW q, NEW t, Shifted(q, t), EndsResets(q)
  PROVE  EndsResets(t)
<1>1. SUFFICES ASSUME NEW i \in DOMAIN t, Resets(t[i])
               PROVE  i < Len(t) /\ t[i + 1].op = "write" /\ ~Resets(t[i + 1])
  BY Zenon DEF EndsResets
<1>2. i \in Nat /\ i + 1 \in DOMAIN q /\ t[i] = q[i + 1]
  BY DEF Shifted
<1>3. PICK j \in Nat : j = i + 1
  BY <1>2
<1>4. j < Len(q) /\ q[j + 1].op = "write" /\ ~Resets(q[j + 1])
  BY <1>1, <1>2, <1>3, Zenon DEF EndsResets
<1>5. i < Len(t) /\ j \in DOMAIN t
  BY <1>2, <1>3, <1>4 DEF Shifted
<1>6. t[j] = q[j + 1]
  BY <1>5 DEF Shifted
<1>7. QED BY <1>3, <1>4, <1>5, <1>6, Zenon

LEMMA FreezesShift ==
  ASSUME NEW q, NEW t, Shifted(q, t), FreezesEnd(q)
  PROVE  FreezesEnd(t)
<1>1. SUFFICES ASSUME NEW i \in DOMAIN t, t[i] = Halt
               PROVE  /\ i + 2 < Len(t) /\ t[i + 1] = Do("pkt_cnt")
                      /\ t[i + 2] = Do("byte_cnt") /\ t[i + 3] = Thaw
  BY Zenon DEF FreezesEnd
<1>2. i \in Nat /\ i + 1 \in DOMAIN q /\ t[i] = q[i + 1] /\ Len(q) \in Nat /\ Len(t) = Len(q) - 1
      /\ DOMAIN t = 1 .. Len(q) - 1
  BY DEF Shifted
<1>3. /\ (i + 1) + 2 < Len(q) /\ q[(i + 1) + 1] = Do("pkt_cnt")
      /\ q[(i + 1) + 2] = Do("byte_cnt") /\ q[(i + 1) + 3] = Thaw
  BY <1>1, <1>2, Zenon DEF FreezesEnd
<1>4. \A k \in 1 .. 3 : i + k \in DOMAIN t /\ (i + 1) + k = (i + k) + 1
  <2>1. i \in Nat /\ Len(q) \in Nat /\ (i + 1) + 2 < Len(q)
    BY <1>2, <1>3
  <2>2. \A k \in 1 .. 3 : i + k \in 1 .. Len(q) - 1 /\ (i + 1) + k = (i + k) + 1
    BY <2>1
  <2>3. QED BY <1>2, <2>2
<1>5. \A k \in 1 .. 3 : t[i + k] = q[(i + 1) + k]
  BY <1>4, Zenon DEF Shifted
<1>6. i + 2 < Len(t)
  BY <1>2, <1>3
<1>7. QED BY <1>3, <1>5, <1>6

LEMMA StartsShift ==
  ASSUME NEW q, NEW t, Shifted(q, t), StartsAgain(q)
  PROVE  StartsAgain(t)
<1>1. SUFFICES ASSUME NEW i \in DOMAIN t, NEW j \in DOMAIN t,
                      i < j, Resets(t[i]), t[j].op = "show"
               PROVE  \E k \in i .. j : t[k].op = "start"
  BY Zenon DEF StartsAgain
<1>2. /\ i \in Nat \ {0} /\ i + 1 \in DOMAIN q /\ t[i] = q[i + 1]
      /\ j \in Nat /\ j + 1 \in DOMAIN q /\ t[j] = q[j + 1]
      /\ i + 1 < j + 1
  BY <1>1 DEF Shifted
<1>3. PICK k \in (i + 1) .. (j + 1) : q[k].op = "start"
  BY <1>1, <1>2, Zenon DEF StartsAgain
<1>4. k - 1 \in i .. j /\ k - 1 \in DOMAIN t /\ (k - 1) + 1 = k
  BY <1>2 DEF Shifted
<1>5. t[k - 1] = q[k]
  BY <1>4 DEF Shifted
<1>6. QED BY <1>3, <1>4, <1>5

LEMMA ReadsShift ==
  ASSUME NEW q, NEW t, Shifted(q, t), ReadsFirst(q)
  PROVE  ReadsFirst(t)
<1>1. SUFFICES ASSUME NEW i \in DOMAIN t, t[i].op = "show"
               PROVE  /\ i > 3 => t[i - 3] = Do("pkt_cnt")
                      /\ i > 2 => t[i - 2] = Do("byte_cnt")
                      /\ i > 1 => t[i - 1] = Thaw
  BY Zenon DEF ReadsFirst
<1>2. i \in Nat /\ i + 1 \in DOMAIN q /\ t[i] = q[i + 1]
  BY DEF Shifted
<1>3. PICK j \in Nat : j = i + 1
  BY <1>2
<1>4. /\ j > 3 => q[j - 3] = Do("pkt_cnt")
      /\ j > 2 => q[j - 2] = Do("byte_cnt")
      /\ j > 1 => q[j - 1] = Thaw
  BY <1>1, <1>2, <1>3, Zenon DEF ReadsFirst
<1>5. \A k \in 1 .. 3 : i > k => i - k \in DOMAIN t /\ (i - k) + 1 = j - k /\ j > k
  BY <1>2, <1>3 DEF Shifted
<1>6. \A k \in 1 .. 3 : i > k => t[i - k] = q[j - k]
  BY <1>5, Zenon DEF Shifted
<1>7. QED BY <1>2, <1>3, <1>4, <1>5, <1>6

(* Only the program that is alone takes steps, and no access is refused.   *)
LEMMA AloneKept ==
  ASSUME Typed, NEW d \in Programs, Alone(d), NEW p \in Programs, Effect(p)
  PROVE  p = d /\ Alone(d)'
<1>1. script[p] # <<>>
  BY DEF Effect
<1>2. p = d
  BY <1>1 DEF Alone
<1>3. Shifted(script[d], script'[d]) /\ \A q \in Programs \ {d} : script'[q] = script[q]
  BY <1>2, ScriptShifted
<1>4. /\ EndsResets(script[d]) /\ FreezesEnd(script[d]) /\ StartsAgain(script[d])
      /\ ReadsFirst(script[d])
  BY DEF Alone
<1>5. EndsResets(script'[d])
  BY <1>3, <1>4, ResetsShift, Zenon
<1>6. FreezesEnd(script'[d])
  BY <1>3, <1>4, FreezesShift, Zenon
<1>7. StartsAgain(script'[d])
  BY <1>3, <1>4, StartsShift, Zenon
<1>8. ReadsFirst(script'[d])
  BY <1>3, <1>4, ReadsShift, Zenon
<1>9. \A q \in Programs \ {d} : script'[q] = <<>>
  BY <1>3 DEF Alone
<1>10. Alone(d)'
  BY <1>5, <1>6, <1>7, <1>8, <1>9, Zenon DEF Alone
<1>11. QED BY <1>2, <1>10

-----------------------------------------------------------------------------
(* A step of the program that is alone.                                    *)
LEMMA AloneFacts ==
  ASSUME Typed, NEW d \in Programs, AloneState(d), Effect(d)
  PROVE  /\ Shifted(script[d], script'[d]) /\ Arg(d) = script[d][1] /\ Arg(d) \in Steps
         /\ 1 \in DOMAIN script[d] /\ ticked = TRUE /\ ticked' = FALSE
         /\ counts' = counts /\ counts_tmp' = counts_tmp
         /\ control.rst_stats => Arg(d).op = "write" /\ ~Resets(Arg(d))
         /\ ~rd_value[d].rst_stats
         /\ counts_tmp.base # counts.base => control.rst_stats
<1>1. /\ Shifted(script[d], script'[d]) /\ Arg(d) = script[d][1] /\ Arg(d) \in Steps
      /\ 1 \in DOMAIN script[d]
  BY ScriptShifted
<1>2. ticked = TRUE /\ ticked' = FALSE /\ counts' = counts /\ counts_tmp' = counts_tmp
  BY DEF Effect
<1>3. /\ control.rst_stats => Arg(d).op = "write" /\ ~Resets(Arg(d))
      /\ ~rd_value[d].rst_stats
  BY <1>1 DEF AloneState, ResetEnds
<1>4. counts_tmp.base # counts.base => control.rst_stats
  BY <1>2 DEF AloneState, Lagging
<1>5. QED BY <1>1, <1>2, <1>3, <1>4

(* The control register after it: a reset only where the script has one.   *)
LEMMA ControlAfter ==
  ASSUME Typed, NEW d \in Programs, AloneState(d), Effect(d)
  PROVE  /\ control'.rst_stats => Resets(Arg(d))
         /\ ~rd_value'[d].rst_stats
<1>1. /\ Arg(d) \in Steps
      /\ control.rst_stats => Arg(d).op = "write" /\ ~Resets(Arg(d))
      /\ ~rd_value[d].rst_stats
  BY AloneFacts
<1>2. rd_value[d] \in ControlValues /\ control \in ControlValues
      /\ rd_value \in [Programs -> ControlValues]
  BY DEF Typed
<1>3. control'.rst_stats => Resets(Arg(d))
  <2>1. CASE Arg(d).op = "write"
    <3>1. control' = Arg(d).val
      BY <2>1 DEF Effect
    <3>2. QED BY <2>1, <3>1 DEF Resets
  <2>2. CASE Arg(d).op \in {"drop", "undrop"}
    <3>1. \E b \in BOOLEAN : control' = [rd_value[d] EXCEPT !.force_drop = b]
      BY <2>2 DEF Effect
    <3>2. control'.rst_stats = rd_value[d].rst_stats
      BY <1>2, <3>1 DEF ControlValues
    <3>3. QED BY <1>1, <3>2
  <2>3. CASE Arg(d).op \notin {"write", "drop", "undrop"}
    <3>1. control' = control
      BY <2>3 DEF Effect
    <3>2. QED BY <1>1, <2>3, <3>1
  <2>4. QED BY <2>1, <2>2, <2>3
<1>4. ~rd_value'[d].rst_stats
  <2>1. CASE Arg(d).op = "read"
    <3>1. rd_value'[d] = control
      BY <1>2, <2>1 DEF Effect
    <3>2. QED BY <1>1, <2>1, <3>1
  <2>2. CASE Arg(d).op = "read_unmapped"
    <3>1. rd_value'[d] = Control(FALSE, FALSE, FALSE)
      BY <1>2, <2>2 DEF Effect
    <3>2. QED BY <3>1 DEF Control
  <2>3. CASE Arg(d).op \notin {"read", "read_unmapped"}
    BY <1>1, <2>3 DEF Effect
  <2>4. QED BY <2>1, <2>2, <2>3
<1>5. QED BY <1>3, <1>4

LEMMA ResetEndsStep ==
  ASSUME Typed, NEW d \in Programs, Alone(d), AloneState(d), Effect(d)
  PROVE  ResetEnds(d)'
<1>1. ~rd_value'[d].rst_stats
  BY ControlAfter
<1>2. ASSUME control'.rst_stats
      PROVE  script'[d] # <<>> /\ script'[d][1].op = "write" /\ ~Resets(script'[d][1])
  <2>1. /\ Resets(script[d][1]) /\ 1 \in DOMAIN script[d] /\ Shifted(script[d], script'[d])
    BY <1>2, ControlAfter, AloneFacts
  <2>2. 1 < Len(script[d]) /\ script[d][1 + 1].op = "write" /\ ~Resets(script[d][1 + 1])
    BY <2>1, Zenon DEF Alone, EndsResets
  <2>3. 1 \in DOMAIN script'[d] /\ Len(script'[d]) > 0
    BY <2>1, <2>2 DEF Shifted
  <2>4. script'[d][1] = script[d][1 + 1]
    BY <2>1, <2>3 DEF Shifted
  <2>5. script'[d] # <<>>
    BY <2>3
  <2>6. QED BY <2>2, <2>4, <2>5, Zenon
<1>3. QED BY <1>1, <1>2, Zenon DEF ResetEnds

LEMMA FreezeEndsStep ==
  ASSUME Typed, NEW d \in Programs, Alone(d), AloneState(d), Effect(d)
  PROVE  FreezeEnds(d)'
<1> DEFINE q == script[d]  t == script'[d]
<1>1. /\ Shifted(q, t) /\ Arg(d) = q[1] /\ q[1] \in Steps /\ 1 \in DOMAIN q
  BY AloneFacts
<1>2. SUFFICES ASSUME stats_freeze'
      PROVE  \/ Len(t) > 2 /\ t[1] = Do("pkt_cnt") /\ t[2] = Do("byte_cnt") /\ t[3] = Thaw
             \/ Len(t) > 1 /\ t[1] = Do("byte_cnt") /\ t[2] = Thaw
             \/ Len(t) > 0 /\ t[1] = Thaw
  BY DEF FreezeEnds
<1>3. FreezesEnd(q) /\ FreezeEnds(d)
  BY DEF Alone, AloneState
<1>4. Thaw.op = "freeze"
  BY DEF Thaw, Freeze
<1>5. Arg(d).op = "freeze" => stats_freeze' = Arg(d).val
  BY DEF Effect
<1>6. Arg(d).op # "freeze" => stats_freeze' = stats_freeze
  BY DEF Effect
<1>7. /\ Len(q) \in Nat /\ Len(t) = Len(q) - 1 /\ DOMAIN t = 1 .. Len(q) - 1
      /\ \A i \in DOMAIN t : t[i] = q[i + 1]
  BY <1>1 DEF Shifted
<1>8. FreezeEnds(d) /\ stats_freeze =>
        \/ Len(q) > 2 /\ q[1] = Do("pkt_cnt") /\ q[2] = Do("byte_cnt") /\ q[3] = Thaw
        \/ Len(q) > 1 /\ q[1] = Do("byte_cnt") /\ q[2] = Thaw
        \/ Len(q) > 0 /\ q[1] = Thaw
  BY Zenon DEF FreezeEnds
<1> HIDE DEF q, t
<1>9. CASE Arg(d).op = "freeze"
  <2>1. q[1] = Freeze(Arg(d).val) /\ Arg(d).val \in BOOLEAN
    BY <1>1, <1>9, StepTypes
  <2>2. Arg(d).val = TRUE
    BY <1>2, <1>5, <1>9, <2>1
  <2>3. q[1] = Halt
    BY <2>1, <2>2, Zenon DEF Halt
  <2>4. /\ 1 + 2 < Len(q) /\ q[1 + 1] = Do("pkt_cnt") /\ q[1 + 2] = Do("byte_cnt")
        /\ q[1 + 3] = Thaw
    BY <1>1, <1>3, <2>3, Zenon DEF FreezesEnd
  <2>5. 1 \in DOMAIN t /\ 2 \in DOMAIN t /\ 3 \in DOMAIN t /\ Len(t) > 2
    BY <1>7, <2>4
  <2>6. t[1] = q[2] /\ t[2] = q[3] /\ t[3] = q[4]
    BY <1>7, <2>5
  <2>7. q[2] = Do("pkt_cnt") /\ q[3] = Do("byte_cnt") /\ q[4] = Thaw
    BY <2>4
  <2>8. QED BY <2>5, <2>6, <2>7
<1>10. CASE Arg(d).op # "freeze"
  <2>1. stats_freeze
    BY <1>2, <1>6, <1>10
  <2>2. q[1] # Thaw
    BY <1>1, <1>4, <1>10
  <2>3. CASE Len(q) > 2 /\ q[1] = Do("pkt_cnt") /\ q[2] = Do("byte_cnt") /\ q[3] = Thaw
    <3>1. 1 \in DOMAIN t /\ 2 \in DOMAIN t /\ Len(t) > 1
      BY <1>7, <2>3
    <3>2. t[1] = q[2] /\ t[2] = q[3]
      BY <1>7, <3>1
    <3>3. QED BY <2>3, <3>1, <3>2
  <2>4. CASE Len(q) > 1 /\ q[1] = Do("byte_cnt") /\ q[2] = Thaw
    <3>1. 1 \in DOMAIN t /\ Len(t) > 0
      BY <1>7, <2>4
    <3>2. t[1] = q[2]
      BY <1>7, <3>1
    <3>3. QED BY <2>4, <3>1, <3>2
  <2>5. QED BY <1>3, <1>8, <2>1, <2>2, <2>3, <2>4
<1>11. QED BY <1>9, <1>10

LEMMA LaggingStep ==
  ASSUME Typed, NEW d \in Programs, Alone(d), AloneState(d), Effect(d)
  PROVE  Lagging'
<1>1. /\ counts' = counts /\ counts_tmp' = counts_tmp /\ ticked' = FALSE
      /\ Arg(d) = script[d][1]
      /\ control.rst_stats => Arg(d).op = "write"
      /\ counts_tmp.base # counts.base => control.rst_stats
  BY AloneFacts
<1>2. ASSUME counts_tmp.base # counts.base
      PROVE  ~stats_freeze'
  <2>1. Arg(d).op = "write"
    BY <1>1, <1>2
  <2>2. stats_freeze' = stats_freeze
    BY <2>1 DEF Effect
  <2>3. script[d][1] # Thaw /\ script[d][1] # Do("pkt_cnt") /\ script[d][1] # Do("byte_cnt")
    BY <1>1, <2>1 DEF Thaw, Freeze, Do
  <2>4. ~stats_freeze
    BY <2>3 DEF AloneState, FreezeEnds
  <2>5. QED BY <2>2, <2>4
<1>3. QED BY <1>1, <1>2 DEF Lagging

LEMMA ReadSinceStep ==
  ASSUME Typed, NEW d \in Programs, Alone(d), AloneState(d), Effect(d)
  PROVE  ReadSince(d)'
<1> DEFINE q == script[d]  t == script'[d]
<1>1. /\ Shifted(q, t) /\ Arg(d) = q[1] /\ q[1] \in Steps /\ 1 \in DOMAIN q
      /\ counts' = counts /\ counts_tmp' = counts_tmp
      /\ control.rst_stats => Arg(d).op = "write"
      /\ counts_tmp.base # counts.base => control.rst_stats
  BY AloneFacts
<1>2. SUFFICES ASSUME NEW i \in 1 .. 3, i \in DOMAIN t, t[i].op = "show"
               PROVE  Calm' /\ seen'[d].base = counts'.base
  BY DEF ReadSince
<1>3. ReadsFirst(q) /\ ReadSince(d)
  BY DEF Alone, AloneState
<1>4. i + 1 \in DOMAIN q /\ t[i] = q[i + 1]
  BY <1>1, <1>2 DEF Shifted
<1>5. \A j \in 1 .. 3 : j \in DOMAIN q /\ q[j].op = "show" => Calm /\ seen[d].base = counts.base
  BY <1>3, Zenon DEF ReadSince
<1>6. control'.rst_stats => Resets(Arg(d))
  BY ControlAfter
<1>7. Arg(d).op # "write" => ~control'.rst_stats
  BY <1>6 DEF Resets
<1> HIDE DEF q, t
<1>8. CASE i = 3
  <2>1. q[4].op = "show" /\ 4 \in DOMAIN q
    BY <1>2, <1>4, <1>8
  <2>2. q[4 - 3] = Do("pkt_cnt")
    BY <1>3, <2>1 DEF ReadsFirst
  <2>3. Arg(d).op = "pkt_cnt"
    BY <1>1, <2>2 DEF Do
  <2>4. seen'[d].base = counts_tmp.base
    BY <2>3, SeenAfter
  <2>5. counts_tmp.base = counts.base
    BY <1>1, <2>3
  <2>6. QED BY <1>1, <1>7, <2>3, <2>4, <2>5 DEF Calm
<1>9. CASE i # 3
  <2>1. PICK j \in 1 .. 3 : j = i + 1
    BY <1>2, <1>9
  <2>2. q[j].op = "show" /\ j \in DOMAIN q /\ j > 1
    BY <1>2, <1>4, <2>1
  <2>3. Calm /\ seen[d].base = counts.base
    BY <1>5, <2>2
  <2>4. Arg(d).op \in {"byte_cnt", "freeze"}
    <3>1. CASE j = 2
      <4>1. q[2 - 1] = Thaw
        BY <1>3, <2>2, <3>1 DEF ReadsFirst
      <4>2. QED BY <1>1, <4>1 DEF Thaw, Freeze
    <3>2. CASE j = 3
      <4>1. q[3 - 2] = Do("byte_cnt")
        BY <1>3, <2>2, <3>2 DEF ReadsFirst
      <4>2. QED BY <1>1, <4>1 DEF Do
    <3>3. QED BY <2>1, <2>2, <3>1, <3>2
  <2>5. seen'[d].base = seen[d].base
    BY <2>4, SeenAfter
  <2>6. QED BY <1>1, <1>7, <2>3, <2>4, <2>5 DEF Calm
<1>10. QED BY <1>8, <1>9

LEMMA ShownSinceStep ==
  ASSUME Typed, NEW d \in Programs, Alone(d), AloneState(d), Effect(d)
  PROVE  ShownSince(d)'
<1> DEFINE q == script[d]  t == script'[d]
<1>1. /\ Shifted(q, t) /\ Arg(d) = q[1] /\ 1 \in DOMAIN q
      /\ counts' = counts /\ counts_tmp' = counts_tmp
  BY AloneFacts
<1>2. SUFFICES ASSUME NEW i \in DOMAIN t, Shows(t, i)
               PROVE  \/ old'[d].pkts = 0 /\ old'[d].n = 0
                      \/ Calm' /\ old'[d].base = counts'.base
  BY DEF ShownSince
<1>3. StartsAgain(q) /\ ReadSince(d) /\ ShownSince(d)
  BY DEF Alone, AloneState
<1>4. control'.rst_stats => Resets(q[1])
  BY <1>1, ControlAfter
<1>5. /\ Arg(d).op = "start" => old'[d] = NoCounts
      /\ Arg(d).op = "show" => old'[d] = seen[d]
      /\ Arg(d).op \notin {"start", "show"} => old'[d] = old[d]
  BY SeenAfter
<1>6. \A j \in DOMAIN q : Shows(q, j) =>
        \/ old[d].pkts = 0 /\ old[d].n = 0
        \/ Calm /\ old[d].base = counts.base
  BY <1>3, Zenon DEF ShownSince
<1>7. 1 \in DOMAIN q /\ q[1].op = "show" => Calm /\ seen[d].base = counts.base
  BY <1>3 DEF ReadSince
<1> HIDE DEF q, t
<1>8. /\ i \in Nat \ {0} /\ i + 1 \in DOMAIN q /\ t[i] = q[i + 1] /\ q[i + 1].op = "show"
      /\ \A k \in 1 .. i - 1 : k \in DOMAIN t /\ t[k] = q[k + 1] /\ t[k].op # "start"
  BY <1>1, <1>2 DEF Shifted, Shows
<1>9. \A k \in 2 .. i : q[k].op # "start"
  <2>1. SUFFICES ASSUME NEW k \in 2 .. i PROVE q[k].op # "start"
    OBVIOUS
  <2>2. k - 1 \in 1 .. i - 1 /\ (k - 1) + 1 = k
    BY <1>8
  <2>3. QED BY <1>8, <2>2
<1>10. CASE Arg(d).op = "start"
  BY <1>5, <1>10, TimesOfNone
<1>11. CASE Arg(d).op = "show"
  <2>1. ~control'.rst_stats
    BY <1>1, <1>4, <1>11 DEF Resets
  <2>2. QED BY <1>1, <1>5, <1>7, <1>11, <2>1 DEF Calm
<1>12. CASE Arg(d).op \notin {"start", "show"}
  <2>1. \A k \in 1 .. i : q[k].op # "start"
    <3>1. \A k \in 1 .. i : k = 1 \/ k \in 2 .. i
      BY <1>8
    <3>2. QED BY <1>1, <1>9, <1>12, <3>1
  <2>2. Shows(q, i + 1)
    <3>1. (i + 1) - 1 = i
      BY <1>8
    <3>2. QED BY <1>8, <2>1, <3>1 DEF Shows
  <2>3. ~control'.rst_stats
    <3>1. ASSUME Resets(q[1]) PROVE FALSE
      <4>1. PICK j \in DOMAIN q : j = i + 1
        BY <1>8
      <4>2. 1 < j /\ q[j].op = "show"
        BY <1>8, <4>1
      <4>3. PICK k \in 1 .. j : q[k].op = "start"
        BY <1>1, <1>3, <3>1, <4>2, Zenon DEF StartsAgain
      <4>4. k = j \/ k \in 1 .. i
        BY <1>8, <4>1
      <4>5. QED BY <2>1, <4>2, <4>3, <4>4
    <3>2. QED BY <1>4, <3>1
  <2>4. \/ old[d].pkts = 0 /\ old[d].n = 0
        \/ Calm /\ old[d].base = counts.base
    BY <1>6, <1>8, <2>2
  <2>5. QED BY <1>1, <1>5, <1>12, <2>3, <2>4 DEF Calm
<1>13. QED BY <1>10, <1>11, <1>12

-----------------------------------------------------------------------------
(* The invariant, and the display.                                         *)
LEMMA RateStep ==
  ASSUME RateInv, NEW p \in Programs, Step(p)
  PROVE  RateInv'
<1>1. Typed /\ ticked \in BOOLEAN /\ Counting /\ (Never \/ \E d \in Programs : Alone(d) /\ AloneState(d))
  BY DEF RateInv
<1>2. Effect(p)
  BY <1>1, StepHasEffect
<1>3. Typed' /\ ticked' \in BOOLEAN
  <2>1. [Next]_vars
    BY DEF Next
  <2>2. QED BY <1>1, <2>1, TypesKept
<1>4. Counting'
  BY <1>1, <1>2, CountingStep
<1>5. ASSUME NEW d \in Programs, Alone(d), AloneState(d)
      PROVE  Alone(d)' /\ AloneState(d)'
  <2>1. p = d /\ Alone(d)'
    BY <1>1, <1>2, <1>5, AloneKept
  <2>2. Effect(d)
    BY <1>2, <2>1
  <2>3. ResetEnds(d)'
    BY <1>1, <1>5, <2>2, ResetEndsStep
  <2>4. FreezeEnds(d)'
    BY <1>1, <1>5, <2>2, FreezeEndsStep
  <2>5. Lagging'
    BY <1>1, <1>5, <2>2, LaggingStep
  <2>6. ShownSince(d)'
    BY <1>1, <1>5, <2>2, ShownSinceStep
  <2>7. ReadSince(d)'
    BY <1>1, <1>5, <2>2, ReadSinceStep
  <2>8. QED BY <2>1, <2>3, <2>4, <2>5, <2>6, <2>7, Zenon DEF AloneState
<1>6. Never => Never'
  <2>1. SUFFICES ASSUME Never PROVE Never'
    OBVIOUS
  <2>2. /\ Shifted(script[p], script'[p]) /\ \A q \in Programs \ {p} : script'[q] = script[q]
        /\ Arg(p) = script[p][1] /\ 1 \in DOMAIN script[p]
    BY <1>1, <1>2, ScriptShifted
  <2>3. NeverResets(script)
    BY <2>1 DEF Never
  <2>4. NeverResets(script')
    <3>1. SUFFICES ASSUME NEW q \in Programs, NEW i \in DOMAIN script'[q]
                   PROVE  ~Resets(script'[q][i])
      BY Zenon DEF NeverResets
    <3>2. CASE q = p
      <4>1. i + 1 \in DOMAIN script[p] /\ script'[p][i] = script[p][i + 1]
        BY <2>2, <3>2 DEF Shifted
      <4>2. QED BY <2>3, <3>2, <4>1, Zenon DEF NeverResets
    <3>3. CASE q # p
      BY <2>2, <2>3, <3>1, <3>3, Zenon DEF NeverResets
    <3>4. QED BY <3>2, <3>3
  <2>5. ~Resets(Arg(p))
    BY <2>2, <2>3, Zenon DEF NeverResets
  <2>6. /\ counts'.base = 0 /\ counts_tmp'.base = 0
        /\ ~control.rst_stats
        /\ \A q \in Programs : ~rd_value[q].rst_stats /\ seen[q].base = 0 /\ old[q].base = 0
        /\ counts_tmp.base = 0
    BY <1>2, <2>1 DEF Never, Effect
  <2>7. rd_value[p] \in ControlValues /\ control \in ControlValues
        /\ rd_value \in [Programs -> ControlValues]
    BY <1>1 DEF Typed
  <2>8. ~control'.rst_stats
    <3>1. CASE Arg(p).op = "write"
      <4>1. control' = Arg(p).val
        BY <1>2, <3>1 DEF Effect
      <4>2. QED BY <2>5, <3>1, <4>1 DEF Resets
    <3>2. CASE Arg(p).op \in {"drop", "undrop"}
      <4>1. \E b \in BOOLEAN : control' = [rd_value[p] EXCEPT !.force_drop = b]
        BY <1>2, <3>2 DEF Effect
      <4>2. control'.rst_stats = rd_value[p].rst_stats
        BY <2>7, <4>1 DEF ControlValues
      <4>3. QED BY <2>6, <4>2
    <3>3. CASE Arg(p).op \notin {"write", "drop", "undrop"}
      <4>1. control' = control
        BY <1>2, <3>3 DEF Effect
      <4>2. QED BY <2>6, <4>1
    <3>4. QED BY <3>1, <3>2, <3>3
  <2>9. ASSUME NEW q \in Programs PROVE ~rd_value'[q].rst_stats
    <3>1. rd_value'[q] \in {rd_value[q], control, Control(FALSE, FALSE, FALSE)}
      BY <1>2, <2>7 DEF Effect
    <3>2. ~Control(FALSE, FALSE, FALSE).rst_stats
      BY DEF Control
    <3>3. QED BY <2>6, <3>1, <3>2
  <2>10. ASSUME NEW q \in Programs PROVE seen'[q].base = 0 /\ old'[q].base = 0
    <3>1. CASE q # p
      BY <1>1, <1>2, <2>6, <3>1, SeenAfter
    <3>2. CASE q = p
      <4>1. seen'[p].base = 0
        BY <1>1, <1>2, <2>6, SeenAfter, TimesOfNone
      <4>2. old'[p].base = 0
        BY <1>1, <1>2, <2>6, SeenAfter, TimesOfNone
      <4>3. QED BY <3>2, <4>1, <4>2
    <3>3. QED BY <3>1, <3>2
  <2>11. QED BY <2>4, <2>6, <2>8, <2>9, <2>10 DEF Never
<1>7. QED BY <1>1, <1>3, <1>4, <1>5, <1>6 DEF RateInv

LEMMA RateRefused ==
  ASSUME RateInv, NEW p \in Programs, Refused(p)
  PROVE  RateInv'
<1>1. Typed /\ ticked \in BOOLEAN /\ Counting /\ (Never \/ \E d \in Programs : Alone(d) /\ AloneState(d))
  BY DEF RateInv
<1>2. /\ \E q \in Programs \ {p} : script[q] # <<>>
      /\ script[p] # <<>>
      /\ \/ script' = [script EXCEPT ![p] = Tail(@)]
         \/ script' = [script EXCEPT ![p] = <<>>]
      /\ UNCHANGED <<seen, old, rate, counts, counts_tmp, control, rd_value, stats_freeze, ticked>>
  BY RefusedHasEffect
<1>3. Typed' /\ ticked' \in BOOLEAN
  <2>1. [Next]_vars
    BY DEF Next
  <2>2. QED BY <1>1, <2>1, TypesKept
<1>4. Counting'
  BY <1>1, <1>2 DEF Counting
<1>5. ~\E d \in Programs : Alone(d)
  BY <1>2 DEF Alone
<1>6. NeverResets(script)
  BY <1>1, <1>5 DEF Never
<1>7. NeverResets(script')
  <2>1. SUFFICES ASSUME NEW q \in Programs, NEW i \in DOMAIN script'[q]
                 PROVE  ~Resets(script'[q][i])
    BY Zenon DEF NeverResets
  <2>2. CASE script' = [script EXCEPT ![p] = Tail(@)]
    <3>1. /\ \A j \in DOMAIN script'[p] : j + 1 \in DOMAIN script[p] /\ script'[p][j] = script[p][j + 1]
          /\ \A r \in Programs \ {p} : script'[r] = script[r]
      BY <1>1, <1>2, <2>2, ScriptAfter
    <3>2. CASE q = p
      BY <1>6, <2>1, <3>1, <3>2, Zenon DEF NeverResets
    <3>3. CASE q # p
      BY <1>6, <2>1, <3>1, <3>3, Zenon DEF NeverResets
    <3>4. QED BY <3>2, <3>3
  <2>3. CASE script' = [script EXCEPT ![p] = <<>>]
    <3>1. script'[p] = <<>> /\ \A r \in Programs \ {p} : script'[r] = script[r]
      BY <1>1, <2>3 DEF Typed
    <3>2. q # p
      <4>1. DOMAIN <<>> = {}
        OBVIOUS
      <4>2. QED BY <2>1, <3>1, <4>1
    <3>3. QED BY <1>6, <2>1, <3>1, <3>2, Zenon DEF NeverResets
  <2>4. QED BY <1>2, <2>2, <2>3
<1>8. Never'
  BY <1>1, <1>2, <1>5, <1>7 DEF Never
<1>9. QED BY <1>3, <1>4, <1>8 DEF RateInv

LEMMA RateTick ==
  ASSUME RateInv, NEW v \in BOOLEAN, Tick(v)
  PROVE  RateInv'
<1>1. Typed /\ ticked \in BOOLEAN /\ Counting /\ (Never \/ \E d \in Programs : Alone(d) /\ AloneState(d))
  BY DEF RateInv
<1>2. /\ UNCHANGED <<script, seen, old, rate, rd_value, control, stats_freeze, freezers, lost>>
      /\ control.rst_stats => Cleared
      /\ ~control.rst_stats => counts' = counts \/ Grown
      /\ counts_tmp' = IF control.rst_stats \/ stats_freeze THEN counts_tmp ELSE counts
  BY <1>1, TickEffect
<1>3. Typed' /\ ticked' \in BOOLEAN
  <2>1. [Next]_vars
    BY DEF Next
  <2>2. QED BY <1>1, <2>1, TypesKept
<1>4. Counting'
  BY <1>1, CountingTick
<1>5. /\ ~control.rst_stats => counts'.base = counts.base
      /\ counts_tmp' = counts_tmp \/ counts_tmp' = counts
      /\ ~control.rst_stats /\ ~stats_freeze => counts_tmp' = counts
  BY <1>2 DEF Grown
<1>6. Calm => Calm' /\ counts'.base = counts.base
  BY <1>2, <1>5 DEF Calm
<1>7. ASSUME NEW d \in Programs, Alone(d), AloneState(d)
      PROVE  Alone(d)' /\ AloneState(d)'
  <2>1. Alone(d)' /\ ResetEnds(d)' /\ FreezeEnds(d)'
    BY <1>2, <1>7 DEF Alone, AloneState, ResetEnds, FreezeEnds
  <2>2. Lagging'
    <3>1. CASE control.rst_stats
      BY <1>2, <3>1 DEF Lagging
    <3>2. CASE ~control.rst_stats /\ ~stats_freeze
      BY <1>5, <3>2 DEF Lagging
    <3>3. CASE ~control.rst_stats /\ stats_freeze
      <4>1. counts_tmp.base = counts.base
        BY <1>7, <3>3 DEF AloneState, Lagging
      <4>2. QED BY <1>5, <3>3, <4>1 DEF Lagging
    <3>4. QED BY <3>1, <3>2, <3>3
  <2>3. ShownSince(d)' /\ ReadSince(d)'
    <3>1. ShownSince(d) /\ ReadSince(d)
      BY <1>7 DEF AloneState
    <3>2. ShownSince(d)'
      BY <1>2, <1>6, <3>1 DEF ShownSince
    <3>3. ReadSince(d)'
      BY <1>2, <1>6, <3>1 DEF ReadSince
    <3>4. QED BY <3>2, <3>3
  <2>4. QED BY <2>1, <2>2, <2>3, Zenon DEF AloneState
<1>8. Never => Never'
  BY <1>2, <1>5 DEF Never
<1>9. QED BY <1>1, <1>3, <1>4, <1>7, <1>8 DEF RateInv

LEMMA RateInductive ==
  ASSUME RateInv, [Next]_vars
  PROVE  RateInv'
<1>1. CASE UNCHANGED vars
  <2>1. UNCHANGED <<script, seen, old, rate, counts, counts_tmp, control, rd_value, stats_freeze, ticked>>
    BY <1>1 DEF vars, programs, freezing, statistics
  <2>2. Typed' /\ ticked' \in BOOLEAN
    BY TypesKept DEF RateInv
  <2>3. Counting => Counting'
    BY <2>1 DEF Counting
  <2>4. Never => Never'
    BY <2>1 DEF Never
  <2>5. ASSUME NEW d \in Programs, Alone(d), AloneState(d)
        PROVE  Alone(d)' /\ AloneState(d)'
    BY <2>1, <2>5 DEF Alone, AloneState, ResetEnds, FreezeEnds, Lagging, ShownSince,
                      ReadSince, Calm
  <2>6. QED BY <2>2, <2>3, <2>4, <2>5 DEF RateInv
<1>2. QED BY <1>1, RateStep, RateRefused, RateTick DEF Next

LEMMA InitRate ==
  ASSUME Init, NeverResets(script) \/ StartsAfterResets(script)
  PROVE  RateInv
<1>1. Typed /\ ticked \in BOOLEAN
  BY InitTyped
<1>2. /\ counts = NoCounts /\ counts_tmp = NoCounts /\ stats_freeze = FALSE
      /\ ~control.rst_stats
      /\ \A p \in Programs : seen[p] = NoCounts /\ old[p] = NoCounts
                             /\ rd_value[p] = Control(FALSE, FALSE, FALSE)
  BY DEF Init, Control
<1>3. ~Control(FALSE, FALSE, FALSE).rst_stats
  BY DEF Control
<1>4. Counting
  <2>1. Times(counts) /\ Times(counts_tmp) /\ counts_tmp.n <= counts.n
    BY <1>2, TimesOfNone
  <2>2. ASSUME NEW p \in Programs
        PROVE  /\ Times(seen[p]) /\ Times(old[p])
               /\ old[p].n <= seen[p].n /\ seen[p].n <= counts_tmp.n
    <3>1. seen[p] = NoCounts /\ old[p] = NoCounts /\ counts_tmp = NoCounts
      BY <1>2
    <3>2. Times(NoCounts) /\ NoCounts.n <= NoCounts.n
      BY TimesOfNone
    <3>3. QED BY <3>1, <3>2, Zenon
  <2>3. QED BY <2>1, <2>2 DEF Counting
<1>5. CASE NeverResets(script)
  <2>1. Never
    BY <1>2, <1>3, <1>5, TimesOfNone DEF Never
  <2>2. QED BY <1>1, <1>4, <2>1 DEF RateInv
<1>6. CASE StartsAfterResets(script)
  <2>1. PICK d \in Programs :
          /\ \A p \in Programs \ {d} : script[p] = <<>>
          /\ EndsResets(script[d]) /\ EndsFreezes(script[d]) /\ StartsAgain(script[d])
          /\ ShowsWhatItRead(script[d])
    BY <1>6 DEF StartsAfterResets
  <2>2. FreezesEnd(script[d])
    BY <2>1, Zenon DEF FreezesEnd, EndsFreezes, Halt, Thaw
  <2>3. \A i \in DOMAIN script[d] : script[d][i].op = "show" =>
          /\ i > 3 /\ script[d][i - 3] = Do("pkt_cnt") /\ script[d][i - 2] = Do("byte_cnt")
          /\ script[d][i - 1] = Thaw
    BY <2>1, Zenon DEF ShowsWhatItRead, Thaw
  <2>4. ReadsFirst(script[d])
    BY <2>3, Zenon DEF ReadsFirst
  <2>5. Alone(d)
    BY <2>1, <2>2, <2>4 DEF Alone
  <2>6. ResetEnds(d) /\ FreezeEnds(d) /\ Lagging
    BY <1>2, <1>3 DEF ResetEnds, FreezeEnds, Lagging
  <2>7. ShownSince(d)
    BY <1>2, TimesOfNone DEF ShownSince
  <2>8. ReadSince(d)
    <3>1. ASSUME NEW j \in 1 .. 3 PROVE ~(j \in DOMAIN script[d] /\ script[d][j].op = "show")
      BY <2>3
    <3>2. QED BY <3>1 DEF ReadSince
  <2>9. QED BY <1>1, <1>4, <2>5, <2>6, <2>7, <2>8 DEF RateInv, AloneState
<1>7. QED BY <1>5, <1>6

(* What a display computes.                                                *)
Packets(new, before) == Difference(new.pkts, before.pkts)

LEMMA DifferenceRight ==
  ASSUME NEW new \in Count, NEW before \in Count, Times(new), Times(before),
         before.n <= new.n,
         new.base = before.base \/ (before.pkts = 0 /\ before.n = 0),
         Since(new, before) < Width
  PROVE  Packets(new, before) = Since(new, before)
<1>1. /\ new.n \in Nat /\ new.base \in Nat /\ before.n \in Nat /\ before.base \in Nat
      /\ new.pkts \in Nat /\ before.pkts \in Nat
      /\ new.base <= new.n /\ before.base <= before.n
      /\ new.pkts = (new.n - new.base) % Width
      /\ before.pkts = (before.n - before.base) % Width
  BY DEF Count, Times
<1>2. PICK w \in Nat \ {0} : w = Width
  BY CounterAssumption
<1>3. CASE new.base = before.base
  <2>1. PICK x \in Nat : x = before.n - before.base
    BY <1>1
  <2>2. PICK e \in Nat : e = new.n - before.n
    BY <1>1
  <2>3. Since(new, before) = e
    BY <1>1, <1>3, <2>2 DEF Since
  <2>4. e < w
    BY <1>2, <2>3
  <2>5. new.n - new.base = x + e
    BY <1>1, <1>3, <2>1, <2>2
  <2>6. before.pkts = x % w /\ new.pkts = (x + e) % w
    BY <1>1, <1>2, <2>1, <2>5
  <2> DEFINE a == x % w  b == (x + e) % w
  <2>7. (IF b >= a THEN b - a ELSE b + (w - a)) = e
    BY <2>4, ModDifference
  <2>8. before.pkts = a /\ new.pkts = b
    BY <2>6
  <2> HIDE DEF a, b
  <2>9. Packets(new, before) = e
    BY <1>2, <2>7, <2>8 DEF Packets, Difference
  <2>10. QED BY <2>3, <2>9
<1>4. CASE before.pkts = 0 /\ before.n = 0
  <2>1. PICK x \in Nat : x = new.n - new.base
    BY <1>1
  <2>2. Since(new, before) = x
    BY <1>1, <1>4, <2>1 DEF Since
  <2>3. x \in 0 .. w - 1
    BY <1>2, <2>2
  <2>4. x % w = x
    <3>1. 0 \in Int /\ 0 * w + x = x
      BY <2>3
    <3>2. (0 * w + x) % w = x
      BY <2>3, <3>1, ModIs
    <3>3. QED BY <3>1, <3>2
  <2>5. new.pkts = x
    BY <1>1, <1>2, <2>1, <2>4
  <2>6. Packets(new, before) = x
    BY <1>1, <1>4, <2>5 DEF Packets, Difference
  <2>7. QED BY <2>2, <2>6
<1>5. QED BY <1>3, <1>4

(* The packets a display says have come are those counted since the one    *)
(* before, or since the last reset, though the counters wrap: for any      *)
(* programs that never reset them, and for one that is alone, ends each    *)
(* reset and each freeze, reads before it shows and starts again between a *)
(* reset and a display (as a call of osnt-tool-cmd.py does).  Accesses may *)
(* be refused.                                                             *)
THEOREM DisplayRight ==
  ASSUME \A s \in Scripts : NeverResets(s) \/ StartsAfterResets(s)
  PROVE  Spec => RateRight
<1>1. Init => RateInv
  BY InitRate DEF Init
<1>2. RateInv /\ [Next]_vars => RateInv'
  BY RateInductive
<1> DEFINE Shown ==
  \A p \in Programs :
    (StepOf(p, "show") /\ script'[p] # script[p] /\ Since(seen[p], old[p]) < Width)
      => rate'[p] = Since(seen[p], old[p])
<1>3. RateInv /\ [Next]_vars => [Shown]_vars
  <2>1. SUFFICES ASSUME RateInv, [Next]_vars, ~(UNCHANGED vars),
                        NEW p \in Programs, StepOf(p, "show"), script'[p] # script[p],
                        Since(seen[p], old[p]) < Width
                 PROVE  rate'[p] = Since(seen[p], old[p])
    OBVIOUS
  <2>2. Typed /\ ticked \in BOOLEAN /\ Counting
    BY <2>1 DEF RateInv
  <2>3. /\ seen[p] \in Count /\ old[p] \in Count /\ script[p] \in Seq(Steps)
        /\ script \in [Programs -> Seq(Steps)]
    BY <2>2 DEF Typed
  <2>4. /\ Arg(p).op = "show" /\ script[p] # <<>> /\ 1 \in DOMAIN script[p]
        /\ script[p][1].op = "show"
    BY <2>1, <2>3 DEF StepOf, Arg
  <2>5. Step(p)
    <3>1. ASSUME NEW q \in Programs, Step(q) PROVE q = p
      <4>1. script' = [script EXCEPT ![q] = Tail(@)]
        BY <3>1 DEF Step, After
      <4>2. QED BY <2>1, <2>3, <4>1
    <3>2. ASSUME NEW q \in Programs, Refused(q) PROVE FALSE
      <4>1. /\ Arg(q).op \in Writes \cup Reads
            /\ \/ script' = [script EXCEPT ![q] = Tail(@)]
               \/ script' = [script EXCEPT ![q] = <<>>]
        BY <3>2, RefusedHasEffect
      <4>2. q = p
        BY <2>1, <2>3, <4>1
      <4>3. QED BY <2>4, <4>1, <4>2 DEF Writes, Reads
    <3>3. ASSUME NEW v \in BOOLEAN, Tick(v) PROVE FALSE
      BY <2>1, <3>3 DEF Tick, programs
    <3>4. QED BY <2>1, <3>1, <3>2, <3>3 DEF Next
  <2>6. Effect(p)
    BY <2>2, <2>5, StepHasEffect
  <2>7. rate' = [rate EXCEPT ![p] = Packets(seen[p], old[p])]
    BY <2>4, <2>6 DEF Effect, Packets
  <2>8. Times(seen[p]) /\ Times(old[p]) /\ old[p].n <= seen[p].n
    BY <2>2 DEF Counting
  <2>9. seen[p].base = old[p].base \/ (old[p].pkts = 0 /\ old[p].n = 0)
    <3>1. CASE Never
      BY <3>1 DEF Never
    <3>2. ASSUME NEW d \in Programs, Alone(d), AloneState(d)
          PROVE  seen[p].base = old[p].base \/ (old[p].pkts = 0 /\ old[p].n = 0)
      <4>1. d = p
        BY <2>4, <3>2 DEF Alone
      <4>2. Shows(script[d], 1)
        BY <2>4, <4>1 DEF Shows
      <4>3. seen[d].base = counts.base
        BY <2>4, <3>2, <4>1 DEF AloneState, ReadSince
      <4>4. \/ old[d].pkts = 0 /\ old[d].n = 0
            \/ Calm /\ old[d].base = counts.base
        BY <2>4, <3>2, <4>1, <4>2 DEF AloneState, ShownSince
      <4>5. QED BY <4>1, <4>3, <4>4
    <3>3. QED BY <2>1, <3>1, <3>2 DEF RateInv
  <2>10. Packets(seen[p], old[p]) = Since(seen[p], old[p])
    BY <2>1, <2>3, <2>8, <2>9, DifferenceRight
  <2>11. rate \in [Programs -> Int]
    BY <2>2 DEF Typed
  <2>12. QED BY <2>7, <2>10, <2>11
<1>4. QED BY <1>1, <1>2, <1>3, PTL DEF Spec, RateRight
-----------------------------------------------------------------------------
(* The filter.  Types of what it is made of.                               *)
Values == Rules \cup {"ones", "zeros"}
RowValues == [ToSet(Columns) -> Values]

FilterTyped ==
  /\ tables \in [Programs -> [Rows -> RowValues]] /\ table \in [Rows -> RowValues]
  /\ wr_port \in RowValues /\ rd_port \in RowValues

LEMMA StepEntries ==
  ASSUME NEW step \in Steps
  PROVE  /\ step.op = "column" =>
              step.col \in ToSet(Columns) /\ step.entry \in Rows /\ step = Column(step.col, step.entry)
         /\ step.op \in {"clear", "wr_addr", "rd_addr", "get"} =>
              step.entry \in Rows /\ step = At(step.op, step.entry)
         /\ step.op = "asks" => step.rules \in [Rows -> Values]
         /\ \A o, e : step = At(o, e) => step.op = o /\ step.entry = e
         /\ \A c, e : step = Column(c, e) => step.op = "column" /\ step.col = c /\ step.entry = e
BY DEF Steps, Column, At, Values

LEMMA RowTyped ==
  ASSUME NEW v \in Values
  PROVE  Row(v) \in RowValues
BY DEF Row, RowValues

(* What a step of a program does to the filter.                            *)
FilterEffect(p) ==
  LET op == Arg(p).op IN
  /\ op = "asks" => /\ wanted' = Arg(p).rules
                    /\ tables' = [tables EXCEPT ![p] = [e \in Rows |->
                         IF Arg(p).rules[e] = "ones" THEN tables[p][e] ELSE Row(Arg(p).rules[e])]]
  /\ op # "asks" => wanted' = wanted
  /\ op = "clear" => tables' = [tables EXCEPT ![p][Arg(p).entry] = Row("ones")]
  /\ op = "get" => tables' = [tables EXCEPT ![p][Arg(p).entry] = rd_port]
  /\ op \notin {"asks", "clear", "get"} => tables' = tables
  /\ op = "column" =>
       wr_port' = [wr_port EXCEPT ![Arg(p).col] = tables[p][Arg(p).entry][Arg(p).col]]
  /\ op # "column" => wr_port' = wr_port
  /\ op = "wr_addr" => table' = [table EXCEPT ![Arg(p).entry] = wr_port]
  /\ op # "wr_addr" => table' = table
  /\ op = "rd_addr" => rd_port' = table[Arg(p).entry]
  /\ op # "rd_addr" => rd_port' = rd_port

LEMMA StepHasFilterEffect ==
  ASSUME FilterTyped, NEW p \in Programs, Step(p)
  PROVE  FilterEffect(p)
<1>1. tables[p] \in [Rows -> RowValues]
  BY DEF FilterTyped
<1>2. CASE FillTables(p)
  <2>1. CASE Arg(p).op = "asks"
    <3>1. /\ wanted' = Arg(p).rules
          /\ tables' = [tables EXCEPT ![p] = [e \in Rows |->
               IF Arg(p).rules[e] = "ones" THEN tables[p][e] ELSE Row(Arg(p).rules[e])]]
      BY <1>2, <2>1 DEF FillTables, StepOf, Arg, FilterTyped
    <3>2. QED BY <1>2, <2>1, <3>1 DEF FillTables, FilterEffect, filter
  <2>2. CASE Arg(p).op # "asks"
    BY <1>2, <2>2 DEF FillTables, StepOf, Arg, FilterEffect, filter
  <2>3. QED BY <2>1, <2>2
<1>3. CASE AccessTable(p)
  BY <1>3 DEF AccessTable, StepOf, Arg, FilterEffect, filter
<1>4. CASE StartProgram(p) \/ ReadControl(p) \/ ReadUnmapped(p)
  BY <1>4 DEF StartProgram, ReadControl, ReadUnmapped, StepOf, Arg, FilterEffect, filter
<1>5. CASE WriteControl(p) \/ WriteFreeze(p)
  BY <1>5 DEF WriteControl, WriteFreeze, StepOf, Arg, FilterEffect, filter
<1>6. CASE ReadStats(p) \/ ShowStats(p)
  BY <1>6 DEF ReadStats, ShowStats, StepOf, Arg, FilterEffect, filter
<1>7. QED BY <1>2, <1>3, <1>4, <1>5, <1>6 DEF Step

(* The same, row by row.                                                   *)
LEMMA RowsAfter ==
  ASSUME FilterTyped, NEW p \in Programs, FilterEffect(p), Arg(p) \in Steps
  PROVE  /\ FilterTyped'
         /\ \A r \in Programs \ {p} : tables'[r] = tables[r]
         /\ \A e \in Rows :
              /\ Arg(p).op = "clear" /\ Arg(p).entry = e => tables'[p][e] = Row("ones")
              /\ Arg(p).op = "asks" /\ Arg(p).rules[e] # "ones" =>
                   tables'[p][e] = Row(Arg(p).rules[e])
              /\ Arg(p).op = "get" /\ Arg(p).entry = e => tables'[p][e] = rd_port
              /\ (~Changes(Arg(p), e) /\ ~(Arg(p).op = "get" /\ Arg(p).entry = e)) =>
                   tables'[p][e] = tables[p][e]
              /\ Arg(p).op = "wr_addr" /\ Arg(p).entry = e => table'[e] = wr_port
              /\ Arg(p) # At("wr_addr", e) => table'[e] = table[e]
<1> DEFINE a == Arg(p)
<1>1. /\ tables \in [Programs -> [Rows -> RowValues]] /\ table \in [Rows -> RowValues]
      /\ wr_port \in RowValues /\ rd_port \in RowValues
  BY DEF FilterTyped
<1>2. CASE a.op = "asks"
  <2>1. a.rules \in [Rows -> Values]
    BY StepEntries, <1>2
  <2> DEFINE f == [e \in Rows |-> IF a.rules[e] = "ones" THEN tables[p][e] ELSE Row(a.rules[e])]
  <2>2. \A e \in Rows : Row(a.rules[e]) \in RowValues
    BY <2>1, RowTyped
  <2>3. f \in [Rows -> RowValues]
    BY <1>1, <2>2
  <2>4. \A e \in Rows : f[e] = IF a.rules[e] = "ones" THEN tables[p][e] ELSE Row(a.rules[e])
    OBVIOUS
  <2>5. tables' = [tables EXCEPT ![p] = f] /\ UNCHANGED filter
    BY <1>2 DEF FilterEffect, filter
  <2> HIDE DEF f
  <2>6. tables'[p] = f /\ \A r \in Programs \ {p} : tables'[r] = tables[r]
    BY <1>1, <2>5
  <2>7. FilterTyped'
    BY <1>1, <2>3, <2>5 DEF FilterTyped, filter
  <2>8. QED
    BY <1>2, <2>4, <2>5, <2>6, <2>7 DEF Changes, At, filter
<1>3. CASE a.op \in {"clear", "get"}
  <2>1. a.entry \in Rows /\ a = At(a.op, a.entry)
    BY StepEntries, <1>3
  <2>2. PICK r \in RowValues : /\ tables' = [tables EXCEPT ![p][a.entry] = r] /\ UNCHANGED filter
                               /\ a.op = "clear" => r = Row("ones")
                               /\ a.op = "get" => r = rd_port
    <3>1. Row("ones") \in RowValues
      BY RowTyped DEF Values
    <3>2. QED BY <1>1, <1>3, <3>1 DEF FilterEffect, filter
  <2>3. /\ tables'[p] = [tables[p] EXCEPT ![a.entry] = r]
        /\ \A s \in Programs \ {p} : tables'[s] = tables[s]
    BY <1>1, <2>2
  <2>4. \A e \in Rows : tables'[p][e] = IF e = a.entry THEN r ELSE tables[p][e]
    BY <1>1, <2>1, <2>3
  <2>5. FilterTyped'
    BY <1>1, <2>1, <2>2 DEF FilterTyped, filter
  <2>6. \A e \in Rows : a.op = "clear" /\ e = a.entry => Changes(a, e)
    BY <2>1, Zenon DEF Changes
  <2>7. \A e \in Rows : a # At("wr_addr", e)
    BY <1>3 DEF At
  <2>8. \A e \in Rows : table'[e] = table[e]
    BY <2>2 DEF filter
  <2>9. QED
    BY <1>3, <2>2, <2>3, <2>4, <2>5, <2>6, <2>8
<1>4. CASE a.op \notin {"asks", "clear", "get"}
  <2>1. tables' = tables
    BY <1>4 DEF FilterEffect
  <2>2. /\ a.op = "wr_addr" => a.entry \in Rows /\ a = At("wr_addr", a.entry)
        /\ a.op = "column" => a.col \in ToSet(Columns) /\ a.entry \in Rows
        /\ a.op = "rd_addr" => a.entry \in Rows
        /\ \A e : a = At("wr_addr", e) => a.op = "wr_addr" /\ a.entry = e
    BY StepEntries
  <2>3. \A e \in Rows : /\ a.op = "wr_addr" /\ a.entry = e => table'[e] = wr_port
                        /\ a # At("wr_addr", e) => table'[e] = table[e]
    BY <1>1, <2>2 DEF FilterEffect
  <2>4. FilterTyped'
    <3>1. table' \in [Rows -> RowValues]
      BY <1>1, <2>2 DEF FilterEffect
    <3>2. rd_port' \in RowValues
      BY <1>1, <2>2 DEF FilterEffect
    <3>3. wr_port' \in RowValues
      <4>1. CASE a.op = "column"
        <5>1. tables[p][a.entry][a.col] \in Values
          BY <1>1, <2>2, <4>1 DEF RowValues
        <5>2. QED BY <1>1, <2>2, <4>1, <5>1 DEF FilterEffect, RowValues
      <4>2. QED BY <1>1, <4>1 DEF FilterEffect
    <3>4. QED BY <1>1, <2>1, <3>1, <3>2, <3>3 DEF FilterTyped
  <2>5. QED BY <1>4, <2>1, <2>3, <2>4
<1>5. QED BY <1>2, <1>3, <1>4

(* A step more of a script.                                                *)
LEMMA ChosenNext ==
  ASSUME NEW q, NEW k \in Nat, NEW e, NEW v, Chosen(q, k + 1, e, v)
  PROVE  \/ q[k + 1] = At("clear", e) /\ v = "ones"
         \/ q[k + 1].op = "asks" /\ q[k + 1].rules[e] = v /\ v # "ones"
         \/ Chosen(q, k, e, v) /\ ~Changes(q[k + 1], e)
<1>1. PICK i \in 1 .. k + 1 :
        /\ \/ q[i] = At("clear", e) /\ v = "ones"
           \/ q[i].op = "asks" /\ q[i].rules[e] = v /\ v # "ones"
        /\ \A j \in i + 1 .. k + 1 : ~Changes(q[j], e)
  BY DEF Chosen
<1>2. CASE i = k + 1
  BY <1>1, <1>2
<1>3. CASE i # k + 1
  <2>1. i \in 1 .. k /\ k + 1 \in i + 1 .. k + 1 /\ \A j \in i + 1 .. k : j \in i + 1 .. k + 1
    BY <1>3
  <2>2. ~Changes(q[k + 1], e) /\ \A j \in i + 1 .. k : ~Changes(q[j], e)
    BY <1>1, <2>1
  <2>3. Chosen(q, k, e, v)
    BY <1>1, <2>1, <2>2, Zenon DEF Chosen
  <2>4. QED BY <2>2, <2>3
<1>4. QED BY <1>2, <1>3

LEMMA StoredNext ==
  ASSUME NEW q, NEW k \in Nat, NEW e, NEW v, Stored(q, k + 1, e, v)
  PROVE  \/ WritesRow(q, k + 1, e) /\ Chosen(q, k + 1, e, v)
         \/ Stored(q, k, e, v) /\ q[k + 1] # At("wr_addr", e)
<1>1. PICK i \in 1 .. k + 1 : /\ WritesRow(q, i, e) /\ Chosen(q, i, e, v)
                              /\ \A j \in i + 1 .. k + 1 : q[j] # At("wr_addr", e)
  BY Zenon DEF Stored
<1>2. CASE i = k + 1
  BY <1>1, <1>2
<1>3. CASE i # k + 1
  <2>1. i \in 1 .. k /\ k + 1 \in i + 1 .. k + 1 /\ \A j \in i + 1 .. k : j \in i + 1 .. k + 1
    BY <1>3
  <2>2. q[k + 1] # At("wr_addr", e) /\ \A j \in i + 1 .. k : q[j] # At("wr_addr", e)
    BY <1>1, <2>1, Zenon
  <2>3. Stored(q, k, e, v)
    BY <1>1, <2>1, <2>2, Zenon DEF Stored
  <2>4. QED BY <2>2, <2>3
<1>4. QED BY <1>2, <1>3

LEMMA DroppingNext ==
  ASSUME NEW q, NEW k \in Nat, Dropping(q, k + 2)
  PROVE  \/ q[k + 1].op = "drop"
         \/ Dropping(q, k + 1) /\ q[k + 1].op \notin {"write", "undrop"}
<1>1. PICK i \in 1 .. k + 1 :
        q[i].op = "drop" /\ \A j \in i + 1 .. k + 1 : q[j].op \notin {"write", "undrop"}
  <2>1. (k + 2) - 1 = k + 1
    OBVIOUS
  <2>2. QED BY <2>1 DEF Dropping
<1>2. CASE i = k + 1
  BY <1>1, <1>2
<1>3. CASE i # k + 1
  <2>1. i \in 1 .. k /\ k + 1 \in i + 1 .. k + 1 /\ \A j \in i + 1 .. k : j \in i + 1 .. k + 1
    BY <1>3
  <2>2. (k + 1) - 1 = k
    OBVIOUS
  <2>3. Dropping(q, k + 1)
    BY <1>1, <2>1, <2>2 DEF Dropping
  <2>4. QED BY <1>1, <2>1, <2>3
<1>4. QED BY <1>2, <1>3

(* Program d has done the first k steps of its script q.  Until it asks  *)
(* for a filter there is no rule anywhere, and none in a row of the card   *)
(* it has not written since.  As long as no access was refused, its own    *)
(* rows and those on the card are what its last steps have made them, the  *)
(* columns it has just written are in the write port, and the row it has   *)
(* just fetched is in the read port.                                       *)
Left(q, d, k) ==
  /\ k \in 0 .. Len(q) /\ Len(script[d]) = Len(q) - k
  /\ \A i \in DOMAIN script[d] : script[d][i] = q[k + i]

Ruleless(d) ==
  /\ NoRule(wr_port) /\ NoRule(rd_port)
  /\ \A e \in Rows : NoRule(tables[d][e]) /\ NoRule(table[e])

Unwritten(q, d, k) ==
  /\ NoneAsked(q, k) => Ruleless(d)
  /\ \A e \in Rows :
       (\A j \in 1 .. k : q[j] = At("wr_addr", e) => NoneAsked(q, j)) => NoRule(table[e])

OwnRows(q, d, k) ==
  \A e \in Rows, v \in Values : Chosen(q, k, e, v) => tables[d][e] = Row(v)

CardRows(q, k) ==
  \A e \in Rows, v \in Values : Stored(q, k, e, v) => table[e] = Row(v)

Collected(q, d, k) ==
  \A e \in Rows, t \in 0 .. Len(Columns) :
    k >= t /\ (\A c \in 1 .. t : q[k - t + c] = Column(Columns[c], e))
      => \A c \in 1 .. t : wr_port[Columns[c]] = tables[d][e][Columns[c]]

Fetched(q, k) ==
  \A e \in Rows : k > 0 /\ q[k] = At("rd_addr", e) => rd_port = table[e]

Asked(q, k) ==
  \A i \in 1 .. k : q[i].op = "asks" /\ (\A j \in i + 1 .. k : q[j].op # "asks")
    => wanted = q[i].rules

Agreed(q, d, k) ==
  /\ OwnRows(q, d, k) /\ CardRows(q, k) /\ Collected(q, d, k) /\ Fetched(q, k) /\ Asked(q, k)

LEMMA LeftStep ==
  ASSUME Typed, NEW d \in Programs, Effect(d), NEW q \in Seq(Steps), NEW k, Left(q, d, k)
  PROVE  /\ k \in Nat /\ k + 1 \in 1 .. Len(q)
         /\ Arg(d) = q[k + 1] /\ Arg(d) \in Steps /\ Left(q, d, k + 1)'
<1>1. /\ Shifted(script[d], script'[d])
      /\ Arg(d) = script[d][1] /\ Arg(d) \in Steps /\ 1 \in DOMAIN script[d]
  BY ScriptShifted
<1>2. /\ k \in 0 .. Len(q) /\ Len(script[d]) = Len(q) - k /\ Len(q) \in Nat
      /\ \A i \in DOMAIN script[d] : script[d][i] = q[k + i]
  BY DEF Left
<1>3. k + 1 \in 1 .. Len(q)
  BY <1>1, <1>2 DEF Shifted
<1>4. Left(q, d, k + 1)'
  <2>1. k + 1 \in 0 .. Len(q) /\ Len(script'[d]) = Len(q) - (k + 1)
    BY <1>1, <1>2, <1>3 DEF Shifted
  <2>2. ASSUME NEW i \in DOMAIN script'[d] PROVE script'[d][i] = q[(k + 1) + i]
    <3>1. i + 1 \in DOMAIN script[d] /\ script'[d][i] = script[d][i + 1] /\ i \in Int
      BY <1>1 DEF Shifted
    <3>2. script[d][i + 1] = q[k + (i + 1)] /\ k + (i + 1) = (k + 1) + i
      BY <1>2, <3>1
    <3>3. QED BY <3>1, <3>2
  <2>3. QED BY <2>1, <2>2 DEF Left
<1>5. QED BY <1>1, <1>2, <1>3, <1>4

LEMMA ColumnsCovered ==
  ASSUME NEW r \in RowValues, NEW v \in Values,
         \A c \in 1 .. Len(Columns) : r[Columns[c]] = v
  PROVE  r = Row(v)
<1>1. \A x \in ToSet(Columns) : r[x] = v
  <2>1. DOMAIN Columns = 1 .. Len(Columns)
    BY TableAssumption
  <2>2. QED BY <2>1 DEF ToSet
<1>2. QED BY <1>1 DEF RowValues, Row

(* A step of the program that sets the filter.                             *)
LEMMA RulelessStep ==
  ASSUME FilterTyped, NEW d \in Programs, FilterEffect(d), Arg(d) \in Steps,
         Arg(d).op # "asks", Ruleless(d)
  PROVE  Ruleless(d)'
<1> DEFINE a == Arg(d)
<1>1. /\ NoRule(wr_port) /\ NoRule(rd_port)
      /\ \A e \in Rows : NoRule(tables[d][e]) /\ NoRule(table[e])
  BY DEF Ruleless
<1>2. /\ a.op = "column" => a.col \in ToSet(Columns) /\ a.entry \in Rows
      /\ a.op \in {"clear", "wr_addr", "rd_addr", "get"} =>
           a.entry \in Rows /\ a = At(a.op, a.entry)
      /\ \A e : a = At("clear", e) => a.op = "clear" /\ a.entry = e
  BY StepEntries
<1>3. \A e \in Rows :
        /\ a.op = "clear" /\ a.entry = e => tables'[d][e] = Row("ones")
        /\ a.op = "get" /\ a.entry = e => tables'[d][e] = rd_port
        /\ (~Changes(a, e) /\ ~(a.op = "get" /\ a.entry = e)) => tables'[d][e] = tables[d][e]
        /\ a.op = "wr_addr" /\ a.entry = e => table'[e] = wr_port
        /\ a # At("wr_addr", e) => table'[e] = table[e]
  BY RowsAfter
<1>4. NoRule(Row("ones"))
  BY DEF NoRule, Row
<1>5. ASSUME NEW e \in Rows PROVE NoRule(tables'[d][e])
  <2>1. CASE a.op = "clear" /\ a.entry = e
    BY <1>3, <1>4, <2>1
  <2>2. CASE a.op = "get" /\ a.entry = e
    BY <1>1, <1>3, <2>2
  <2>3. CASE ~(a.op = "clear" /\ a.entry = e) /\ ~(a.op = "get" /\ a.entry = e)
    <3>1. ~Changes(a, e)
      BY <1>2, <2>3, Zenon DEF Changes
    <3>2. tables'[d][e] = tables[d][e]
      BY <1>3, <2>3, <3>1, Zenon
    <3>3. QED BY <1>1, <3>2
  <2>4. QED BY <2>1, <2>2, <2>3
<1>6. ASSUME NEW e \in Rows PROVE NoRule(table'[e])
  <2>1. CASE a = At("wr_addr", e)
    <3>1. a.op = "wr_addr" /\ a.entry = e
      BY <2>1, StepEntries
    <3>2. QED BY <1>1, <1>3, <3>1
  <2>2. CASE a # At("wr_addr", e)
    BY <1>1, <1>3, <2>2, Zenon
  <2>3. QED BY <2>1, <2>2
<1>7. NoRule(wr_port')
  <2>1. CASE a.op = "column"
    <3>1. /\ wr_port' = [wr_port EXCEPT ![a.col] = tables[d][a.entry][a.col]]
          /\ wr_port \in RowValues
      BY <2>1 DEF FilterEffect, FilterTyped
    <3>2. \A c \in ToSet(Columns) : wr_port'[c] \in {wr_port[c], tables[d][a.entry][c]}
      BY <1>2, <2>1, <3>1 DEF RowValues
    <3>3. NoRule(tables[d][a.entry])
      BY <1>1, <1>2, <2>1
    <3>4. QED BY <1>1, <3>2, <3>3 DEF NoRule
  <2>2. CASE a.op # "column"
    BY <1>1, <2>2 DEF FilterEffect
  <2>3. QED BY <2>1, <2>2
<1>8. NoRule(rd_port')
  <2>1. CASE a.op = "rd_addr"
    <3>1. rd_port' = table[a.entry] /\ a.entry \in Rows
      BY <1>2, <2>1 DEF FilterEffect
    <3>2. QED BY <1>1, <3>1
  <2>2. CASE a.op # "rd_addr"
    BY <1>1, <2>2 DEF FilterEffect
  <2>3. QED BY <2>1, <2>2
<1>9. QED BY <1>5, <1>6, <1>7, <1>8 DEF Ruleless, NoRule

LEMMA UnwrittenStep ==
  ASSUME FilterTyped, NEW d \in Programs, FilterEffect(d), NEW q, NEW k \in Nat,
         Arg(d) \in Steps, Arg(d) = q[k + 1], Unwritten(q, d, k)
  PROVE  Unwritten(q, d, k + 1)'
<1>1. k + 1 \in 1 .. k + 1 /\ \A j \in 1 .. k : j \in 1 .. k + 1
  OBVIOUS
<1>2. ASSUME NoneAsked(q, k + 1) PROVE Ruleless(d) /\ Ruleless(d)'
  <2>1. NoneAsked(q, k) /\ q[k + 1].op # "asks"
    BY <1>1, <1>2, Zenon DEF NoneAsked
  <2>2. Ruleless(d) /\ Arg(d).op # "asks"
    BY <2>1 DEF Unwritten
  <2>3. QED BY <2>2, RulelessStep
<1>3. ASSUME NEW e \in Rows,
             \A j \in 1 .. k + 1 : q[j] = At("wr_addr", e) => NoneAsked(q, j)
      PROVE  NoRule(table'[e])
  <2>1. CASE q[k + 1] = At("wr_addr", e)
    <3>1. NoneAsked(q, k + 1)
      BY <1>1, <1>3, <2>1, Zenon
    <3>2. Ruleless(d)'
      BY <1>2, <3>1
    <3>3. QED BY <3>2 DEF Ruleless, NoRule
  <2>2. CASE q[k + 1] # At("wr_addr", e)
    <3>1. table'[e] = table[e]
      <4>1. Arg(d) # At("wr_addr", e) => table'[e] = table[e]
        BY RowsAfter
      <4>2. QED BY <2>2, <4>1
    <3>2. NoRule(table[e])
      BY <1>1, <1>3, Zenon DEF Unwritten
    <3>3. QED BY <3>1, <3>2
  <2>3. QED BY <2>1, <2>2
<1>4. QED BY <1>2, <1>3, Zenon DEF Unwritten, NoneAsked, NoRule

LEMMA AgreedStep ==
  ASSUME FilterTyped, NEW d \in Programs, FilterEffect(d), NEW q \in Seq(Steps), ReadsBack(q),
         NEW k \in Nat, k + 1 \in 1 .. Len(q), Arg(d) = q[k + 1], Arg(d) \in Steps,
         Agreed(q, d, k)
  PROVE  Agreed(q, d, k + 1)'
<1> DEFINE a == q[k + 1]
<1>0. /\ FilterTyped'
      /\ \A e \in Rows :
              /\ Arg(d).op = "clear" /\ Arg(d).entry = e => tables'[d][e] = Row("ones")
              /\ Arg(d).op = "asks" /\ Arg(d).rules[e] # "ones" => tables'[d][e] = Row(Arg(d).rules[e])
              /\ Arg(d).op = "get" /\ Arg(d).entry = e => tables'[d][e] = rd_port
              /\ (~Changes(Arg(d), e) /\ ~(Arg(d).op = "get" /\ Arg(d).entry = e)) => tables'[d][e] = tables[d][e]
              /\ Arg(d).op = "wr_addr" /\ Arg(d).entry = e => table'[e] = wr_port
              /\ Arg(d) # At("wr_addr", e) => table'[e] = table[e]
  BY RowsAfter
<1>1. /\ FilterTyped'
      /\ \A e \in Rows :
              /\ a.op = "clear" /\ a.entry = e => tables'[d][e] = Row("ones")
              /\ a.op = "asks" /\ a.rules[e] # "ones" => tables'[d][e] = Row(a.rules[e])
              /\ a.op = "get" /\ a.entry = e => tables'[d][e] = rd_port
              /\ (~Changes(a, e) /\ ~(a.op = "get" /\ a.entry = e)) => tables'[d][e] = tables[d][e]
              /\ a.op = "wr_addr" /\ a.entry = e => table'[e] = wr_port
              /\ a # At("wr_addr", e) => table'[e] = table[e]
  BY <1>0, Zenon
<1>2. /\ a \in Steps
      /\ \A o, e : a = At(o, e) => a.op = o /\ a.entry = e
      /\ \A c, e : a = Column(c, e) => a.op = "column" /\ a.col = c /\ a.entry = e
      /\ a.op \in {"clear", "wr_addr", "rd_addr", "get"} => a.entry \in Rows /\ a = At(a.op, a.entry)
      /\ a.op = "column" => a.col \in ToSet(Columns) /\ a.entry \in Rows
  BY StepEntries
<1>3. /\ OwnRows(q, d, k) /\ CardRows(q, k) /\ Collected(q, d, k) /\ Fetched(q, k) /\ Asked(q, k)
  BY DEF Agreed
<1>4. OwnRows(q, d, k + 1)'
  <2>1. SUFFICES ASSUME NEW e \in Rows, NEW v \in Values, Chosen(q, k + 1, e, v)
                 PROVE  tables'[d][e] = Row(v)
    BY Zenon DEF OwnRows
  <2>2. CASE a = At("clear", e) /\ v = "ones"
    <3>1. a.op = "clear" /\ a.entry = e
      BY <1>2, <2>2
    <3>2. QED BY <1>1, <2>2, <3>1
  <2>3. CASE a.op = "asks" /\ a.rules[e] = v /\ v # "ones"
    BY <1>1, <2>3, Zenon
  <2>4. CASE Chosen(q, k, e, v) /\ ~Changes(a, e)
    <3>1. tables[d][e] = Row(v)
      BY <1>3, <2>4, Zenon DEF OwnRows
    <3>2. CASE ~(a.op = "get" /\ a.entry = e)
      BY <1>1, <2>4, <3>1, <3>2, Zenon
    <3>3. CASE a.op = "get" /\ a.entry = e
      <4>1. /\ k + 1 > 1 /\ q[(k + 1) - 1] = At("rd_addr", e)
            /\ \E w \in Values : Chosen(q, k + 1, e, w) /\ Stored(q, k + 1, e, w)
        <5>1. k + 1 \in DOMAIN q
          OBVIOUS
        <5>2. QED BY <3>3, <5>1, Zenon DEF ReadsBack, Values
      <4>2. k > 0 /\ q[k] = At("rd_addr", e)
        <5>1. (k + 1) - 1 = k /\ (k + 1 > 1 => k > 0)
          OBVIOUS
        <5>2. QED BY <4>1, <5>1
      <4>3. PICK w \in Values : Chosen(q, k + 1, e, w) /\ Stored(q, k + 1, e, w)
        BY <4>1
      <4>4. a # At("clear", e) /\ a.op # "asks" /\ a # At("wr_addr", e)
        BY <1>2, <3>3
      <4>5. Chosen(q, k, e, w)
        BY <4>3, <4>4, ChosenNext
      <4>6. Stored(q, k, e, w)
        BY <4>3, <4>4, StoredNext DEF WritesRow
      <4>7. tables[d][e] = Row(w) /\ table[e] = Row(w) /\ rd_port = table[e]
        BY <1>3, <4>2, <4>5, <4>6, Zenon DEF OwnRows, CardRows, Fetched
      <4>8. tables'[d][e] = rd_port
        BY <1>1, <3>3, Zenon
      <4>9. QED BY <3>1, <4>7, <4>8
    <3>4. QED BY <3>2, <3>3
  <2>5. QED BY <2>1, <2>2, <2>3, <2>4, ChosenNext
<1>5. CardRows(q, k + 1)'
  <2>1. SUFFICES ASSUME NEW e \in Rows, NEW v \in Values, Stored(q, k + 1, e, v)
                 PROVE  table'[e] = Row(v)
    BY Zenon DEF CardRows
  <2>2. CASE WritesRow(q, k + 1, e) /\ Chosen(q, k + 1, e, v)
    <3>1. /\ a = At("wr_addr", e) /\ k + 1 > Len(Columns)
          /\ \A c \in 1 .. Len(Columns) :
               q[(k + 1) - Len(Columns) + c - 1] = Column(Columns[c], e)
      BY <2>2 DEF WritesRow
    <3>2. PICK n \in Nat : n = Len(Columns)
      BY TableAssumption
    <3>3. k >= n /\ \A c \in 1 .. n : q[k - n + c] = Column(Columns[c], e)
      <4>1. k >= n
        BY <3>1, <3>2
      <4>2. ASSUME NEW c \in 1 .. n PROVE q[k - n + c] = Column(Columns[c], e)
        <5>1. (k + 1) - n + c - 1 = k - n + c
          OBVIOUS
        <5>2. QED BY <3>1, <3>2, <5>1
      <4>3. QED BY <4>1, <4>2
    <3>4. n \in 0 .. Len(Columns)
      BY <3>2
    <3>5. \A c \in 1 .. n : wr_port[Columns[c]] = tables[d][e][Columns[c]]
      BY <1>3, <3>3, <3>4, Zenon DEF Collected
    <3>6. Chosen(q, k, e, v)
      <4>1. a # At("clear", e) /\ a.op # "asks"
        BY <1>2, <3>1
      <4>2. QED BY <2>2, <4>1, ChosenNext
    <3>7. tables[d][e] = Row(v)
      BY <1>3, <3>6, Zenon DEF OwnRows
    <3>8. \A c \in 1 .. Len(Columns) : wr_port[Columns[c]] = v
      <4>1. DOMAIN Columns = 1 .. Len(Columns)
        BY TableAssumption
      <4>2. \A c \in 1 .. Len(Columns) : Columns[c] \in ToSet(Columns)
        BY <4>1 DEF ToSet
      <4>3. \A x \in ToSet(Columns) : Row(v)[x] = v
        BY DEF Row
      <4>4. QED BY <3>2, <3>5, <3>7, <4>2, <4>3
    <3>9. wr_port = Row(v)
      BY <3>8, ColumnsCovered DEF FilterTyped
    <3>10. a.op = "wr_addr" /\ a.entry = e
      BY <1>2, <3>1
    <3>11. QED BY <1>1, <3>9, <3>10
  <2>3. CASE Stored(q, k, e, v) /\ a # At("wr_addr", e)
    BY <1>1, <1>3, <2>3, Zenon DEF CardRows
  <2>4. QED BY <2>1, <2>2, <2>3, StoredNext
<1>6. Collected(q, d, k + 1)'
  <2>1. SUFFICES ASSUME NEW e \in Rows, NEW t \in 0 .. Len(Columns), k + 1 >= t,
                        \A c \in 1 .. t : q[(k + 1) - t + c] = Column(Columns[c], e),
                        NEW c \in 1 .. t
                 PROVE  wr_port'[Columns[c]] = tables'[d][e][Columns[c]]
    BY Zenon DEF Collected
  <2>2. PICK n \in Nat : t = n + 1
    <3>1. t \in Nat /\ t > 0
      OBVIOUS
    <3>2. t - 1 \in Nat /\ t = (t - 1) + 1
      BY <3>1
    <3>3. QED BY <3>2
  <2>3. a = Column(Columns[t], e)
    <3>1. (k + 1) - t + t = k + 1 /\ t \in 1 .. t
      OBVIOUS
    <3>2. QED BY <2>1, <3>1
  <2>4. k >= n /\ n \in 0 .. Len(Columns)
    BY <2>1, <2>2, TableAssumption
  <2>5. ASSUME NEW b \in 1 .. n PROVE q[k - n + b] = Column(Columns[b], e)
    <3>1. b \in 1 .. t /\ (k + 1) - t + b = k - n + b
      BY <2>2
    <3>2. QED BY <2>1, <3>1
  <2>6. \A b \in 1 .. n : wr_port[Columns[b]] = tables[d][e][Columns[b]]
    BY <1>3, <2>4, <2>5, Zenon DEF Collected
  <2>7. a.op = "column" /\ a.col = Columns[t] /\ a.entry = e /\ a.col \in ToSet(Columns)
    BY <1>2, <2>3, Zenon
  <2>8. /\ tables' = tables
        /\ wr_port' = [wr_port EXCEPT ![Columns[t]] = tables[d][e][Columns[t]]]
    BY <2>7 DEF FilterEffect
  <2>9. CASE Columns[c] = Columns[t]
    BY <2>7, <2>8, <2>9 DEF FilterTyped, RowValues
  <2>10. CASE Columns[c] # Columns[t]
    <3>1. c # t
      BY <2>10
    <3>2. c \in 1 .. n
      BY <2>2, <3>1
    <3>3. wr_port'[Columns[c]] = wr_port[Columns[c]]
      BY <2>7, <2>8, <2>10 DEF FilterTyped, RowValues
    <3>4. QED BY <2>6, <2>8, <3>2, <3>3
  <2>11. QED BY <2>9, <2>10
<1>7. Fetched(q, k + 1)'
  <2>1. SUFFICES ASSUME NEW e \in Rows, a = At("rd_addr", e)
                 PROVE  rd_port' = table'[e]
    BY Zenon DEF Fetched
  <2>2. a.op = "rd_addr" /\ a.entry = e
    BY <1>2, <2>1, Zenon
  <2>3. rd_port' = table[e] /\ table' = table
    BY <2>2 DEF FilterEffect
  <2>4. QED BY <2>3
<1>8. Asked(q, k + 1)'
  <2>1. SUFFICES ASSUME NEW i \in 1 .. k + 1, q[i].op = "asks",
                        \A j \in i + 1 .. k + 1 : q[j].op # "asks"
                 PROVE  wanted' = q[i].rules
    BY Zenon DEF Asked
  <2>2. CASE i = k + 1
    BY <2>1, <2>2 DEF FilterEffect
  <2>3. CASE i # k + 1
    <3>1. i \in 1 .. k /\ k + 1 \in i + 1 .. k + 1 /\ \A j \in i + 1 .. k : j \in i + 1 .. k + 1
      BY <2>3
    <3>2. wanted = q[i].rules
      BY <1>3, <2>1, <3>1, Zenon DEF Asked
    <3>3. a.op # "asks"
      BY <2>1, <3>1
    <3>4. QED BY <3>2, <3>3 DEF FilterEffect
  <2>4. QED BY <2>2, <2>3
<1>9. QED BY <1>4, <1>5, <1>6, <1>7, <1>8, Zenon DEF Agreed

(* The other programs leave the filter alone.  A program that is alone is  *)
(* never refused an access, and forces the drop from a "drop" on until it  *)
(* writes the register again.                                              *)
Quiet == {"start", "freeze", "pkt_cnt", "byte_cnt", "show"}

Others(d) ==
  \A p \in Programs \ {d} :
    /\ tables[p] \in {Filter(PowerOnFilter), Filter(ClearedFilter)}
    /\ \A i \in DOMAIN script[p] : script[p][i].op \in Quiet

Lone(s, d) == \A p \in Programs \ {d} : s[p] = <<>>

LoneState(q, d, k) ==
  /\ ~lost /\ \A p \in Programs \ {d} : script[p] = <<>>
  /\ Dropping(q, k + 1) => control.force_drop = TRUE

FilterInv(s, d, k) ==
  /\ Typed /\ ticked \in BOOLEAN /\ FilterTyped
  /\ Left(s[d], d, k) /\ Others(d) /\ Unwritten(s[d], d, k)
  /\ ~lost => Agreed(s[d], d, k)
  /\ Lone(s, d) => LoneState(s[d], d, k)

(* Whatever does not touch the filter, nor the program that sets it.       *)
LEMMA Undisturbed ==
  ASSUME NEW q, NEW d, NEW k, UNCHANGED <<tables, table, wr_port, rd_port, wanted>>
  PROVE  /\ Unwritten(q, d, k) => Unwritten(q, d, k)'
         /\ Agreed(q, d, k) => Agreed(q, d, k)'
         /\ Left(q, d, k) /\ script'[d] = script[d] => Left(q, d, k)'
BY DEF Unwritten, Ruleless, NoneAsked, NoRule, Agreed, OwnRows, CardRows, Collected, Fetched, Asked, Left

LEMMA OthersAfter ==
  ASSUME Typed, Typed', NEW d \in Programs, NEW p \in Programs, Others(d),
         \A r \in Programs \ {d} : tables'[r] = tables[r],
         script[p] # <<>>,
         \/ script' = [script EXCEPT ![p] = Tail(@)]
         \/ script' = [script EXCEPT ![p] = <<>>]
  PROVE  Others(d)'
<1>1. SUFFICES ASSUME NEW r \in Programs \ {d}, NEW i \in DOMAIN script'[r]
               PROVE  script'[r][i].op \in Quiet
  BY DEF Others
<1>2. \A j \in DOMAIN script[r] : script[r][j].op \in Quiet
  BY DEF Others
<1>3. CASE r # p
  <2>1. script'[r] = script[r]
    BY <1>3 DEF Typed
  <2>2. QED BY <1>1, <1>2, <2>1
<1>4. CASE r = p /\ script' = [script EXCEPT ![p] = Tail(@)]
  <2>1. \A j \in DOMAIN script'[p] : j + 1 \in DOMAIN script[p] /\ script'[p][j] = script[p][j + 1]
    BY <1>4, ScriptAfter
  <2>2. QED BY <1>1, <1>2, <1>4, <2>1
<1>5. CASE r = p /\ script' = [script EXCEPT ![p] = <<>>]
  <2>1. script'[r] = <<>>
    BY <1>5 DEF Typed
  <2>2. QED BY <1>1, <2>1
<1>6. QED BY <1>3, <1>4, <1>5

(* A step of the program that sets the filter.                             *)
LEMMA SetterStep ==
  ASSUME NEW s \in Scripts, NEW d \in Programs, SetsFilter(s, d), NEW k \in Nat,
         FilterInv(s, d, k), Step(d), Typed', ticked' \in BOOLEAN
  PROVE  FilterInv(s, d, k + 1)'
<1>1. PICK q \in Seq(Steps) : q = s[d]
  BY ScriptAssumption
<1>2. /\ Typed /\ ticked \in BOOLEAN /\ FilterTyped /\ Left(q, d, k) /\ Others(d) /\ Unwritten(q, d, k)
      /\ ~lost => Agreed(q, d, k)
      /\ Lone(s, d) => LoneState(q, d, k)
  BY <1>1 DEF FilterInv
<1>3. Effect(d) /\ FilterEffect(d) /\ ReadsBack(q)
  BY <1>1, <1>2, StepHasEffect, StepHasFilterEffect DEF SetsFilter
<1>4. /\ k + 1 \in 1 .. Len(q) /\ Arg(d) = q[k + 1] /\ Arg(d) \in Steps /\ Left(q, d, k + 1)'
  BY <1>2, <1>3, LeftStep
<1>5. /\ FilterTyped'
      /\ \A r \in Programs \ {d} : tables'[r] = tables[r]
      /\ \A e \in Rows : Arg(d) # At("wr_addr", e) => table'[e] = table[e]
  BY <1>2, <1>3, <1>4, RowsAfter
<1>6. lost' = lost /\ script[d] # <<>> /\ script' = [script EXCEPT ![d] = Tail(@)]
  BY <1>3 DEF Effect
<1>7. Others(d)'
  BY <1>2, <1>5, <1>6, OthersAfter
<1>8. Unwritten(q, d, k + 1)'
  BY <1>2, <1>3, <1>4, UnwrittenStep
<1>9. ~lost' => Agreed(q, d, k + 1)'
  BY <1>2, <1>3, <1>4, <1>6, AgreedStep
<1>10. Lone(s, d) => LoneState(q, d, k + 1)'
  <2>1. SUFFICES ASSUME Lone(s, d) PROVE LoneState(q, d, k + 1)'
    OBVIOUS
  <2>2. /\ ~lost /\ \A p \in Programs \ {d} : script[p] = <<>>
        /\ Dropping(q, k + 1) => control.force_drop = TRUE
    BY <1>2, <2>1 DEF LoneState
  <2>3. \A p \in Programs \ {d} : script'[p] = <<>>
    BY <1>2, <1>6, <2>2 DEF Typed
  <2>4. ASSUME Dropping(q, k + 2) PROVE control'.force_drop = TRUE
    <3>1. \/ Arg(d).op = "drop"
          \/ Dropping(q, k + 1) /\ Arg(d).op \notin {"write", "undrop"}
      BY <1>4, <2>4, DroppingNext
    <3>2. CASE Arg(d).op = "drop"
      <4>1. control' = [rd_value[d] EXCEPT !.force_drop = TRUE] /\ rd_value[d] \in ControlValues
        BY <1>2, <1>3, <3>2 DEF Effect, Typed
      <4>2. QED BY <4>1 DEF ControlValues
    <3>3. CASE Dropping(q, k + 1) /\ Arg(d).op \notin {"drop", "write", "undrop"}
      <4>1. control' = control
        BY <1>3, <3>3 DEF Effect
      <4>2. QED BY <2>2, <3>3, <4>1
    <3>4. QED BY <3>1, <3>2, <3>3
  <2>5. (k + 1) + 1 = k + 2
    OBVIOUS
  <2>6. QED BY <1>6, <2>2, <2>3, <2>4, <2>5 DEF LoneState
<1>11. QED BY <1>1, <1>2, <1>4, <1>5, <1>7, <1>8, <1>9, <1>10 DEF FilterInv

(* A step of another program: it only shows statistics.                    *)
LEMMA OtherStep ==
  ASSUME NEW s \in Scripts, NEW d \in Programs, NEW k \in Nat, FilterInv(s, d, k),
         NEW p \in Programs \ {d}, Step(p), Typed', ticked' \in BOOLEAN
  PROVE  FilterInv(s, d, k)' /\ UNCHANGED <<table, control>>
<1>1. PICK q \in Seq(Steps) : q = s[d]
  BY ScriptAssumption
<1>2. /\ Typed /\ ticked \in BOOLEAN /\ FilterTyped /\ Left(q, d, k) /\ Others(d) /\ Unwritten(q, d, k)
      /\ ~lost => Agreed(q, d, k)
      /\ Lone(s, d) => LoneState(q, d, k)
  BY <1>1 DEF FilterInv
<1>3. Effect(p) /\ FilterEffect(p)
  BY <1>2, StepHasEffect, StepHasFilterEffect
<1>4. /\ Arg(p) = script[p][1] /\ 1 \in DOMAIN script[p] /\ script'[d] = script[d]
  BY <1>2, <1>3, ScriptShifted
<1>5. Arg(p).op \in Quiet
  BY <1>2, <1>4, Zenon DEF Others
<1>6. UNCHANGED <<tables, table, wr_port, rd_port, wanted, control, lost>>
  BY <1>3, <1>5 DEF Effect, FilterEffect, Quiet
<1>7. script[p] # <<>> /\ script' = [script EXCEPT ![p] = Tail(@)]
  BY <1>3 DEF Effect
<1>8. Others(d)'
  BY <1>2, <1>6, <1>7, OthersAfter
<1>9. FilterTyped'
  BY <1>2, <1>6 DEF FilterTyped
<1>10. ~Lone(s, d)
  BY <1>2, <1>7 DEF LoneState
<1>11. Left(q, d, k)' /\ Unwritten(q, d, k)' /\ (~lost' => Agreed(q, d, k)')
  BY <1>2, <1>4, <1>6, Undisturbed
<1>12. QED BY <1>1, <1>6, <1>8, <1>9, <1>10, <1>11 DEF FilterInv

LEMMA FilterRefused ==
  ASSUME NEW s \in Scripts, NEW d \in Programs, NEW k \in Nat, FilterInv(s, d, k),
         NEW p \in Programs, Refused(p), Typed', ticked' \in BOOLEAN
  PROVE  \E m \in Nat : FilterInv(s, d, m)'
<1>1. PICK q \in Seq(Steps) : q = s[d]
  BY ScriptAssumption
<1>2. /\ Typed /\ ticked \in BOOLEAN /\ FilterTyped /\ Left(q, d, k) /\ Others(d) /\ Unwritten(q, d, k)
      /\ Lone(s, d) => LoneState(q, d, k)
  BY <1>1 DEF FilterInv
<1>3. /\ \E r \in Programs \ {p} : script[r] # <<>>
      /\ script[p] # <<>> /\ lost' = TRUE
      /\ \/ script' = [script EXCEPT ![p] = Tail(@)]
         \/ script' = [script EXCEPT ![p] = <<>>]
  BY RefusedHasEffect
<1>4. UNCHANGED <<tables, table, wr_port, rd_port, wanted>>
  BY DEF Refused, filter
<1>5. ~Lone(s, d)
  BY <1>2, <1>3 DEF LoneState
<1>6. FilterTyped' /\ Others(d)'
  BY <1>2, <1>3, <1>4, OthersAfter DEF FilterTyped
<1>7. \E m \in Nat : Left(q, d, m)' /\ m >= k
  <2>1. CASE p # d
    <3>1. script'[d] = script[d]
      BY <1>2, <1>3, <2>1 DEF Typed
    <3>2. QED BY <1>2, <1>4, <3>1, Undisturbed
  <2>2. CASE p = d /\ script' = [script EXCEPT ![p] = Tail(@)]
    <3>1. /\ Len(script[d]) \in Nat \ {0} /\ DOMAIN script'[d] = 1 .. Len(script[d]) - 1
          /\ Len(script'[d]) = Len(script[d]) - 1
          /\ \A i \in DOMAIN script'[d] : i + 1 \in DOMAIN script[d] /\ script'[d][i] = script[d][i + 1]
      BY <1>2, <1>3, <2>2, ScriptAfter
    <3>2. /\ k \in 0 .. Len(q) /\ Len(script[d]) = Len(q) - k /\ Len(q) \in Nat
          /\ \A i \in DOMAIN script[d] : script[d][i] = q[k + i]
      BY <1>2 DEF Left
    <3>3. k + 1 \in 0 .. Len(q) /\ Len(script'[d]) = Len(q) - (k + 1)
      BY <3>1, <3>2
    <3>4. ASSUME NEW i \in DOMAIN script'[d] PROVE script'[d][i] = q[(k + 1) + i]
      <4>1. i + 1 \in DOMAIN script[d] /\ script'[d][i] = script[d][i + 1] /\ i \in Int
        BY <3>1
      <4>2. script[d][i + 1] = q[k + (i + 1)] /\ k + (i + 1) = (k + 1) + i
        BY <3>2, <4>1
      <4>3. QED BY <4>1, <4>2
    <3>5. Left(q, d, k + 1)'
      BY <3>3, <3>4 DEF Left
    <3>6. QED BY <3>5
  <2>3. CASE p = d /\ script' = [script EXCEPT ![p] = <<>>]
    <3>1. script'[d] = <<>>
      BY <1>2, <2>3 DEF Typed
    <3>2. Len(q) \in Nat /\ Len(q) >= k
      BY <1>2 DEF Left
    <3>3. Left(q, d, Len(q))'
      <4>1. Len(<<>>) = 0 /\ DOMAIN <<>> = {}
        OBVIOUS
      <4>2. QED BY <3>1, <3>2, <4>1 DEF Left
    <3>4. QED BY <3>2, <3>3
  <2>4. QED BY <1>3, <2>1, <2>2, <2>3
<1>8. PICK m \in Nat : Left(q, d, m)' /\ m >= k
  BY <1>7
<1>9. Unwritten(q, d, m)'
  <2>1. \A j \in 1 .. k : j \in 1 .. m
    BY <1>8
  <2>2. NoneAsked(q, m) => NoneAsked(q, k)
    BY <2>1, Zenon DEF NoneAsked
  <2>3. Unwritten(q, d, m)
    BY <1>2, <2>1, <2>2, Zenon DEF Unwritten
  <2>4. QED BY <1>4, <2>3 DEF Unwritten, Ruleless, NoneAsked, NoRule
<1>10. FilterInv(s, d, m)'
  BY <1>1, <1>3, <1>5, <1>6, <1>8, <1>9 DEF FilterInv
<1>11. QED BY <1>10

LEMMA FilterKept ==
  ASSUME NEW s \in Scripts, NEW d \in Programs, SetsFilter(s, d), NEW k \in Nat,
         FilterInv(s, d, k), [Next]_vars
  PROVE  \E m \in Nat : FilterInv(s, d, m)'
<1>1. Typed' /\ ticked' \in BOOLEAN
  BY TypesKept DEF FilterInv
<1>2. ASSUME NEW p \in Programs, Step(p) PROVE \E m \in Nat : FilterInv(s, d, m)'
  <2>1. CASE p = d
    <3>1. FilterInv(s, d, k + 1)'
      BY <1>1, <1>2, <2>1, SetterStep
    <3>2. QED BY <3>1
  <2>2. CASE p # d
    BY <1>1, <1>2, <2>2, OtherStep
  <2>3. QED BY <2>1, <2>2
<1>3. ASSUME NEW p \in Programs, Refused(p) PROVE \E m \in Nat : FilterInv(s, d, m)'
  BY <1>1, <1>3, FilterRefused
<1>4. ASSUME UNCHANGED <<programs, control, filter>>
      PROVE  \E m \in Nat : FilterInv(s, d, m)'
  <2>1. UNCHANGED <<script, tables, table, wr_port, rd_port, wanted, control, lost>>
    BY <1>4 DEF programs, filter
  <2>2. /\ FilterTyped /\ Left(s[d], d, k) /\ Others(d) /\ Unwritten(s[d], d, k)
        /\ ~lost => Agreed(s[d], d, k)
        /\ Lone(s, d) => LoneState(s[d], d, k)
    BY DEF FilterInv
  <2>3. Left(s[d], d, k)' /\ Unwritten(s[d], d, k)' /\ (~lost' => Agreed(s[d], d, k)')
    BY <2>1, <2>2, Undisturbed
  <2>4. FilterTyped' /\ Others(d)' /\ (Lone(s, d) => LoneState(s[d], d, k)')
    BY <2>1, <2>2 DEF FilterTyped, Others, LoneState
  <2>5. QED BY <1>1, <2>3, <2>4 DEF FilterInv
<1>5. ASSUME NEW v \in BOOLEAN, Tick(v) PROVE \E m \in Nat : FilterInv(s, d, m)'
  BY <1>4, <1>5 DEF Tick
<1>6. QED BY <1>2, <1>3, <1>4, <1>5 DEF Next, vars

LEMMA InitFilter ==
  ASSUME Init, NEW d \in Programs, SetsFilter(script, d)
  PROVE  FilterInv(script, d, 0)
<1>1. Typed /\ ticked \in BOOLEAN
  BY InitTyped
<1>2. /\ tables = [p \in Programs |-> [e \in Rows |-> Row(Found({p}))]]
      /\ table = [e \in Rows |-> Row(Found(Programs))]
      /\ wr_port = Row(Found(Programs)) /\ rd_port = Row(Found(Programs)) /\ ~lost
  BY DEF Init
<1>3. /\ \A ps : Found(ps) \in {"ones", "zeros"}
      /\ \A v \in {"ones", "zeros"} : Row(v) \in RowValues /\ NoRule(Row(v))
  <2>1. \A v \in {"ones", "zeros"} : v \in Values
    BY DEF Values
  <2>2. \A v \in {"ones", "zeros"} : NoRule(Row(v))
    BY DEF NoRule, Row
  <2>3. QED BY <2>1, <2>2, RowTyped DEF Found
<1>4. \A v \in {"ones", "zeros"} :
        [e \in Rows |-> Row(v)] \in {Filter(PowerOnFilter), Filter(ClearedFilter)}
  <2>1. Filter(PowerOnFilter) = [e \in Rows |-> Row("zeros")]
    BY DEF Filter, PowerOnFilter
  <2>2. Filter(ClearedFilter) = [e \in Rows |-> Row("ones")]
    BY DEF Filter, ClearedFilter
  <2>3. QED BY <2>1, <2>2
<1>5. FilterTyped
  <2>1. \A v \in {"ones", "zeros"} : [e \in Rows |-> Row(v)] \in [Rows -> RowValues]
    BY <1>3
  <2>2. QED BY <1>2, <1>3, <2>1 DEF FilterTyped
<1>6. Left(script[d], d, 0)
  <2>1. script[d] \in Seq(Steps)
    BY <1>1 DEF Typed
  <2>2. Len(script[d]) \in Nat /\ \A i \in DOMAIN script[d] : 0 + i = i
    BY <2>1
  <2>3. QED BY <2>2 DEF Left
<1>7. Others(d)
  <2>1. \A p \in Programs : tables[p] = [e \in Rows |-> Row(Found({p}))]
    BY <1>2
  <2>2. ASSUME NEW p \in Programs
        PROVE  tables[p] \in {Filter(PowerOnFilter), Filter(ClearedFilter)}
    <3>1. PICK v \in {"ones", "zeros"} : v = Found({p})
      BY <1>3
    <3>2. tables[p] = [e \in Rows |-> Row(v)]
      BY <2>1, <3>1
    <3>3. QED BY <1>4, <3>2
  <2>3. QED BY <2>2 DEF Others, SetsFilter, Quiet
<1>8. Unwritten(script[d], d, 0)
  <2>1. \A e \in Rows : /\ tables[d][e] = Row(Found({d}))
                        /\ table[e] = Row(Found(Programs))
    BY <1>2
  <2>2. Ruleless(d)
    BY <1>2, <1>3, <2>1 DEF Ruleless
  <2>3. QED BY <2>2 DEF Unwritten, Ruleless
<1>9. Agreed(script[d], d, 0)
  <2>1. 1 .. 0 = {} /\ ~(0 > 0)
    OBVIOUS
  <2>2. OwnRows(script[d], d, 0) /\ CardRows(script[d], 0)
    BY <2>1, Zenon DEF OwnRows, CardRows, Chosen, Stored
  <2>3. Fetched(script[d], 0) /\ Asked(script[d], 0)
    BY <2>1, Zenon DEF Fetched, Asked
  <2>4. Collected(script[d], d, 0)
    <3>1. \A t \in 0 .. Len(Columns) : 0 >= t => 1 .. t = {}
      BY TableAssumption
    <3>2. QED BY <3>1 DEF Collected
  <2>5. QED BY <2>2, <2>3, <2>4 DEF Agreed
<1>10. ~Dropping(script[d], 0 + 1)
  BY DEF Dropping
<1>11. Lone(script, d) => LoneState(script[d], d, 0)
  BY <1>2, <1>10 DEF Lone, LoneState
<1>12. QED BY <1>1, <1>5, <1>6, <1>7, <1>8, <1>9, <1>11 DEF FilterInv

(* Its script ends with the filter it asks for last in its tables and on   *)
(* the card.                                                               *)
EndsLoaded(q) ==
  \E a \in DOMAIN q :
    /\ q[a].op = "asks" /\ \A i \in DOMAIN q : q[i].op = "asks" => i <= a
    /\ \A e \in Rows : Chosen(q, Len(q), e, q[a].rules[e]) /\ Stored(q, Len(q), e, q[a].rules[e])

LoadInv ==
  \E s \in Scripts, d \in Programs, k \in Nat :
    SetsFilter(s, d) /\ EndsLoaded(s[d]) /\ FilterInv(s, d, k)

LEMMA LoadedAtEnd ==
  ASSUME NEW s \in Scripts, NEW d \in Programs, NEW k \in Nat,
         EndsLoaded(s[d]), FilterInv(s, d, k), Done, ~lost
  PROVE  /\ table = Filter(wanted)
         /\ \A p \in Programs :
              tables[p] \in {Filter(PowerOnFilter), Filter(ClearedFilter), table}
<1>1. PICK q \in Seq(Steps) : q = s[d]
  BY ScriptAssumption
<1>2. FilterTyped /\ Left(q, d, k) /\ Others(d) /\ Agreed(q, d, k)
  BY <1>1 DEF FilterInv
<1>3. k = Len(q)
  <2>1. script[d] = <<>> /\ Len(q) \in Nat
    BY DEF Done
  <2>2. QED BY <1>2, <2>1 DEF Left
<1>4. PICK a \in DOMAIN q :
        /\ q[a].op = "asks" /\ \A i \in DOMAIN q : q[i].op = "asks" => i <= a
        /\ \A e \in Rows : Chosen(q, k, e, q[a].rules[e]) /\ Stored(q, k, e, q[a].rules[e])
  BY <1>1, <1>3 DEF EndsLoaded
<1>5. wanted = q[a].rules /\ wanted \in [Rows -> Values]
  <2>1. a \in 1 .. k /\ q[a] \in Steps
    BY <1>3
  <2>2. \A j \in a + 1 .. k : q[j].op # "asks"
    <3>1. \A j \in a + 1 .. k : j \in DOMAIN q /\ ~(j <= a)
      BY <1>3, <2>1
    <3>2. QED BY <1>4, <3>1, Zenon
  <2>3. wanted = q[a].rules
    BY <1>2, <1>4, <2>1, <2>2, Zenon DEF Agreed, Asked
  <2>4. q[a].rules \in [Rows -> Values]
    BY <1>4, <2>1, StepEntries
  <2>5. QED BY <2>3, <2>4
<1>6. \A e \in Rows : tables[d][e] = Row(wanted[e]) /\ table[e] = Row(wanted[e])
  BY <1>2, <1>4, <1>5 DEF Agreed, OwnRows, CardRows
<1>7. table \in [Rows -> RowValues] /\ tables[d] \in [Rows -> RowValues]
  BY <1>2 DEF FilterTyped
<1>8. table = Filter(wanted) /\ tables[d] = Filter(wanted)
  BY <1>6, <1>7 DEF Filter
<1>9. QED BY <1>2, <1>8 DEF Others

(* When the programs are done and no access was refused, the table on the  *)
(* card holds the filter asked for last, and the tables read back agree    *)
(* with it: for one program that fills the columns of a row right before   *)
(* its address, reads back no row it has not written, and leaves the rows  *)
(* of the last filter chosen and stored, whatever it loaded and cleared    *)
(* before, while others show statistics.                                   *)
THEOREM FilterLoaded ==
  ASSUME \A s \in Scripts : LoadsFilter(s)
  PROVE  Spec => []FilterIsWanted
<1>1. Init => LoadInv
  <2>1. SUFFICES ASSUME Init PROVE LoadInv
    OBVIOUS
  <2>2. script \in Scripts
    BY <2>1 DEF Init
  <2>3. PICK d \in Programs : SetsFilter(script, d) /\ EndsLoaded(script[d])
    BY <2>2, Zenon DEF LoadsFilter, EndsLoaded
  <2>4. FilterInv(script, d, 0)
    BY <2>1, <2>3, InitFilter
  <2>5. QED BY <2>2, <2>3, <2>4 DEF LoadInv
<1>2. LoadInv /\ [Next]_vars => LoadInv'
  <2>1. SUFFICES ASSUME [Next]_vars, NEW s \in Scripts, NEW d \in Programs, NEW k \in Nat,
                        SetsFilter(s, d), EndsLoaded(s[d]), FilterInv(s, d, k)
                 PROVE  LoadInv'
    BY DEF LoadInv
  <2>2. PICK m \in Nat : FilterInv(s, d, m)'
    BY <2>1, FilterKept
  <2>3. QED BY <2>1, <2>2 DEF LoadInv
<1>3. LoadInv => FilterIsWanted
  <2>1. SUFFICES ASSUME Done, ~lost, NEW s \in Scripts, NEW d \in Programs, NEW k \in Nat,
                        EndsLoaded(s[d]), FilterInv(s, d, k)
                 PROVE  /\ table = Filter(wanted)
                        /\ \A p \in Programs :
                             tables[p] \in {Filter(PowerOnFilter), Filter(ClearedFilter), table}
    BY DEF LoadInv, FilterIsWanted
  <2>2. QED BY <2>1, LoadedAtEnd
<1>4. QED BY <1>1, <1>2, <1>3, PTL DEF Spec

(* A row its script replaces was only written before the first filter, is  *)
(* written under the drop, or was cleared.                                 *)
Spares(s, d) ==
  \A i \in DOMAIN s[d] : s[d][i].op = "wr_addr" =>
    \/ \A j \in 1 .. i - 1 : s[d][j] = s[d][i] => NoneAsked(s[d], j)
    \/ /\ Lone(s, d)
       /\ Dropping(s[d], i) \/ Stored(s[d], i - 1, s[d][i].entry, "ones")

SpareInv ==
  \E s \in Scripts, d \in Programs, k \in Nat :
    SetsFilter(s, d) /\ Spares(s, d) /\ FilterInv(s, d, k)

LEMMA SparedStep ==
  ASSUME NEW s \in Scripts, NEW d \in Programs, NEW k \in Nat, Spares(s, d),
         FilterInv(s, d, k), [Next]_vars, ~control.force_drop,
         NEW e \in Rows, table'[e] # table[e]
  PROVE  NoRule(table[e])
<1>1. PICK q \in Seq(Steps) : q = s[d]
  BY ScriptAssumption
<1>2. /\ Typed /\ ticked \in BOOLEAN /\ FilterTyped /\ Left(q, d, k) /\ Unwritten(q, d, k)
      /\ ~lost => Agreed(q, d, k)
      /\ Lone(s, d) => LoneState(q, d, k)
  BY <1>1 DEF FilterInv
<1>3. Typed' /\ ticked' \in BOOLEAN
  BY <1>2, TypesKept
<1>4. Step(d)
  <2>1. ASSUME NEW p \in Programs \ {d}, Step(p) PROVE table' = table
    BY <1>3, <2>1, OtherStep
  <2>2. ASSUME NEW p \in Programs, Refused(p) PROVE table' = table
    BY <2>2 DEF Refused, filter
  <2>3. ASSUME NEW v \in BOOLEAN, Tick(v) PROVE table' = table
    BY <2>3 DEF Tick, filter
  <2>4. UNCHANGED vars => table' = table
    BY DEF vars, filter
  <2>5. QED BY <2>1, <2>2, <2>3, <2>4 DEF Next
<1>5. Effect(d) /\ FilterEffect(d)
  BY <1>2, <1>4, StepHasEffect, StepHasFilterEffect
<1>6. k + 1 \in 1 .. Len(q) /\ Arg(d) = q[k + 1] /\ Arg(d) \in Steps
  BY <1>2, <1>5, LeftStep
<1>7. Arg(d) = At("wr_addr", e)
  BY <1>2, <1>5, <1>6, RowsAfter
<1>8. q[k + 1] = At("wr_addr", e) /\ q[k + 1].op = "wr_addr" /\ q[k + 1].entry = e
  BY <1>6, <1>7, StepEntries
<1>9. \/ \A j \in 1 .. k : q[j] = At("wr_addr", e) => NoneAsked(q, j)
      \/ Lone(s, d) /\ (Dropping(q, k + 1) \/ Stored(q, k, e, "ones"))
  <2>1. k + 1 \in DOMAIN q /\ (k + 1) - 1 = k
    BY <1>6
  <2>2. QED BY <1>1, <1>8, <2>1 DEF Spares
<1>10. CASE \A j \in 1 .. k : q[j] = At("wr_addr", e) => NoneAsked(q, j)
  BY <1>2, <1>10, Zenon DEF Unwritten
<1>11. CASE Lone(s, d) /\ (Dropping(q, k + 1) \/ Stored(q, k, e, "ones"))
  <2>1. ~lost /\ Stored(q, k, e, "ones")
    BY <1>2, <1>11 DEF LoneState
  <2>2. "ones" \in Values
    BY DEF Values
  <2>3. table[e] = Row("ones")
    BY <1>2, <2>1, <2>2, Zenon DEF Agreed, CardRows
  <2>4. QED BY <2>3 DEF NoRule, Row
<1>12. QED BY <1>9, <1>10, <1>11

(* A rule in force is never replaced or removed while packets are let      *)
(* through: for one program that starts and loads one filter beside others *)
(* that show statistics, whatever the driver refuses; or is alone, and     *)
(* writes a row again only under the drop clear_rules forces, or where it  *)
(* has cleared it.                                                         *)
THEOREM RulesSpared ==
  ASSUME \A s \in Scripts : SparesRules(s)
  PROVE  Spec => NoRuleSwappedLive
<1>1. Init => SpareInv
  <2>1. SUFFICES ASSUME Init PROVE SpareInv
    OBVIOUS
  <2>2. script \in Scripts
    BY <2>1 DEF Init
  <2>3. PICK d \in Programs : SetsFilter(script, d) /\ Spares(script, d)
    BY <2>2, ZenonT(30) DEF SparesRules, Spares, Lone
  <2>4. FilterInv(script, d, 0)
    BY <2>1, <2>3, InitFilter
  <2>5. QED BY <2>2, <2>3, <2>4 DEF SpareInv
<1>2. SpareInv /\ [Next]_vars => SpareInv'
  <2>1. SUFFICES ASSUME [Next]_vars, NEW s \in Scripts, NEW d \in Programs, NEW k \in Nat,
                        SetsFilter(s, d), Spares(s, d), FilterInv(s, d, k)
                 PROVE  SpareInv'
    BY DEF SpareInv
  <2>2. PICK m \in Nat : FilterInv(s, d, m)'
    BY <2>1, FilterKept
  <2>3. QED BY <2>1, <2>2 DEF SpareInv
<1> DEFINE Spared ==
  ~control.force_drop =>
    \A e \in Rows : table'[e] # table[e] => NoRule(table[e])
<1>3. SpareInv /\ [Next]_vars => [Spared]_vars
  <2>1. SUFFICES ASSUME [Next]_vars, NEW s \in Scripts, NEW d \in Programs, NEW k \in Nat,
                        Spares(s, d), FilterInv(s, d, k), ~control.force_drop,
                        NEW e \in Rows, table'[e] # table[e]
                 PROVE  NoRule(table[e])
    BY DEF SpareInv
  <2>2. QED BY <2>1, SparedStep
<1>4. QED BY <1>1, <1>2, <1>3, PTL DEF Spec, NoRuleSwappedLive
=============================================================================
