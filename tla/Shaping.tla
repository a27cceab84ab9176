------------------------------- MODULE Shaping -------------------------------
(***************************************************************************)
(* One port of the generator behind its replay engine: the inter packet    *)
(* delay, the rate limiter it feeds, and the host that sets both.  Each    *)
(* core is a small FIFO with a machine behind it, and a wire when it is    *)
(* not enabled; the host changes its registers one write at a time while   *)
(* packets pass.  Tick is one clock edge of both cores.                    *)
(*                                                                         *)
(* Words are numbered in the order the engine offers them; data is left    *)
(* out.  Of a FIFO the ring is modelled, not its output registers.         *)
(***************************************************************************)
EXTENDS Integers, Sequences, FiniteSets, SequencesExt

CONSTANTS
  Traces,      \* pcap files: sequences of packets [words, time]
  OneSecond,   \* ticks in a second
  Stamped,     \* whether the engine keeps stamps: TRUE with external memory, FALSE in block RAM
  Rates, Delays, MaxOps,   \* what the user asks for, and how often
  Depth        \* words a FIFO takes before it says nearly full

ASSUME ShapingAssumption ==
  /\ {OneSecond, Depth} \subseteq Nat \ {0} /\ MaxOps \in Nat
  /\ Rates \subseteq Nat /\ Delays \subseteq Nat /\ Stamped \subseteq BOOLEAN
  /\ \A t \in Traces : t # <<>> /\ \A i \in DOMAIN t : t[i].words > 0 /\ t[i].time <= OneSecond
  /\ \A d \in Delays : d <= OneSecond

VARIABLES
  ipd, rl,                 \* registers of the two cores
  todo, ops,               \* the host: writes to do; operations so far
  trace, stamped,          \* the file, and whether its packets carry their stamps
  next,                    \* the word the engine offers next
  delayer, d_fifo,         \* the delay: [state, wait]; its FIFO
  limiter, l_fifo,         \* the limiter: [state, timer_ticks]; its FIFO
  out, dropped, stranded,  \* history: words on the wire; lost to a reset; a core was
                           \* disabled with words in its FIFO
  rest, steady,            \* history: ticks the last packet keeps the wire; below
  since, promised, spaced  \* history: ticks since the last packet began; the delay
                           \* promised then; below

regs == <<ipd, rl>>
host == <<regs, todo, ops>>
engine == <<trace, stamped, next>>
cores == <<delayer, d_fifo, limiter, l_fifo>>
history == <<out, dropped, stranded, rest, steady, since, promised, spaced>>
vars == <<host, engine, cores, history>>

Less1(n) == IF n = 0 THEN 0 ELSE n - 1

-----------------------------------------------------------------------------
(* What the engine offers.  load_pcap_ts stamps a packet with its distance  *)
(* from the one before, the first with a second.                           *)
pkt_time_diff(t, i) == IF i = 1 THEN OneSecond ELSE t[i].time - t[i - 1].time

(* The stamp is in the user bits of the first word of a packet.            *)
WordTable ==
  [t \in Traces, ts \in Stamped |->
     FlattenSeq([i \in DOMAIN t |->
       [j \in 1 .. t[i].words |->
          [pkt |-> i, first |-> j = 1, last |-> j = t[i].words,
           stamp |-> IF j = 1 /\ ts THEN pkt_time_diff(t, i) ELSE 0]]])]

Words == WordTable[trace, stamped]

(* What FlattenSeq makes of a file: its packets follow one another, and no *)
(* stamp is longer than a second.                                          *)
PacketsFollow(w) ==
  /\ Len(w) \in Nat /\ \A n \in 1 .. Len(w) : w[n].stamp \in 0 .. OneSecond
  /\ \A n \in 1 .. Len(w) - 1 : w[n + 1].first <=> w[n].last

InPackets == \A t \in Traces, ts \in Stamped : PacketsFollow(WordTable[t, ts])

-----------------------------------------------------------------------------
(* The host.                                                               *)
set_rate(r) == << <<"rl", "rate", r>> >>
rl_set_enable(b) == << <<"rl", "en", b>> >>
rl_set_reset(b) == << <<"rl", "rst", b>> >> \o set_rate(0) \o rl_set_enable(0)

set_delay(d) == << <<"ipd", "delay", d>> >>
set_use_reg(b) == << <<"ipd", "use_reg", b>> >>
ipd_set_enable(b) == << <<"ipd", "en", b>> >>
ipd_set_reset(b) ==
  << <<"ipd", "rst", b>> >> \o ipd_set_enable(0) \o set_delay(0) \o set_use_reg(0)

set_ipg(d) == set_delay(d) \o ipd_set_enable(1) \o set_use_reg(1)
set_ipg_ts(d) == set_delay(d) \o ipd_set_enable(1) \o set_use_reg(0)

on_rate_limiter_reset == rl_set_reset(1) \o rl_set_reset(0)
on_delay_reset == ipd_set_reset(1) \o ipd_set_reset(0)

UserActs ==
  /\ todo = <<>> /\ ops < MaxOps /\ ops' = ops + 1
  /\ \/ \E r \in Rates : todo' = set_rate(r)
     \/ \E d \in Delays : todo' \in {set_delay(d), set_ipg(d), set_ipg_ts(d)}
     \/ \E b \in {0, 1} : todo' \in {rl_set_enable(b), ipd_set_enable(b), set_use_reg(b)}
     \/ todo' \in {on_rate_limiter_reset, on_delay_reset}
  /\ UNCHANGED <<regs, engine, cores, history>>

(* The words of the packet on the wire so far.                             *)
OnWire == Len(out) - Max({0} \cup {i \in DOMAIN out : Words[out[i]].last})

(* Nothing under way on the wire or in the limiter's timer.                *)
Quiet == OnWire = 0 /\ limiter.timer_ticks = 0 /\ rest = 0

HostWrites ==
  /\ todo # <<>> /\ todo' = Tail(todo)
  /\ LET core == Head(todo)[1] reg == Head(todo)[2] v == Head(todo)[3]
         rl_switched == core = "rl" /\ reg = "en" /\ rl.en # v
         ipd_switched == core = "ipd" /\ reg = "en" /\ ipd.en # v
     IN /\ ipd' = IF core = "ipd" THEN [ipd EXCEPT ![reg] = v] ELSE ipd
        /\ rl' = IF core = "rl" THEN [rl EXCEPT ![reg] = v] ELSE rl
        /\ stranded' = (stranded \/ (rl_switched /\ l_fifo # <<>>)
                                 \/ (ipd_switched /\ d_fifo # <<>>))
        /\ steady' = (steady /\ (rl_switched => Quiet))
        /\ spaced' = (spaced /\ ipd'.en = ipd.en /\ rl'.en = rl.en)
  /\ UNCHANGED <<ops, engine, cores, out, dropped, rest, since, promised>>

-----------------------------------------------------------------------------
(* The wires.  `in' is what the engine offers, `mac' whether the sender    *)
(* behind the limiter is ready; an offer is <<>> or one word.              *)
l_ready_bypassDeaf(mac) == IF rl.en = 1 THEN Len(l_fifo) < Depth ELSE TRUE

l_ready(mac) == IF rl.en = 1 THEN Len(l_fifo) < Depth ELSE mac
d_ready(mac) == IF ipd.en = 1 THEN Len(d_fifo) < Depth ELSE l_ready(mac)

d_offer(in) ==
  IF ipd.en = 0 THEN in
  ELSE IF d_fifo # <<>> /\ (delayer.state = "IN_PKT_HEADER" => delayer.wait = 0)
       THEN <<Head(d_fifo)>> ELSE <<>>

l_offer(in) ==
  IF rl.en = 0 THEN d_offer(in)
  ELSE IF l_fifo # <<>> /\ limiter.state = "WAIT_FOR_PKT" THEN <<Head(l_fifo)>> ELSE <<>>

d_moves(in, mac) == d_offer(in) # <<>> /\ l_ready(mac)
l_moves(in, mac) == l_offer(in) # <<>> /\ mac
accepts(in, mac) == in # <<>> /\ d_ready(mac)

(* The FIFO of an enabled core: `put' arrives, and the head leaves.        *)
Fifo_newestFirst(fifo, gets, put) == put \o (IF gets THEN Tail(fifo) ELSE fifo)

Fifo(fifo, gets, put) == (IF gets THEN Tail(fifo) ELSE fifo) \o put

-----------------------------------------------------------------------------
(* The delay.  timer_ticks and delay_val are only compared, so the model   *)
(* keeps how much the one lacks to the other.                              *)
NextWait_afterBody(in, mac) ==
  IF ipd.en = 1 /\ d_moves(in, mac) /\ delayer.state = "IN_PKT_BODY"
  THEN Less1(IF ipd.use_reg = 1 THEN ipd.delay ELSE Words[Head(d_fifo)].stamp)
  ELSE Less1(delayer.wait)

NextWait(in, mac) ==
  IF ipd.en = 1 /\ d_moves(in, mac) /\ delayer.state = "IN_PKT_HEADER"
  THEN Less1(IF ipd.use_reg = 1 THEN ipd.delay ELSE Words[Head(d_fifo)].stamp)
  ELSE Less1(delayer.wait)

DelayerEdge(in, mac) ==
  IF ipd.rst = 1
  THEN /\ delayer' = [state |-> "IN_PKT_HEADER", wait |-> 0]
       /\ d_fifo' = <<>>
  ELSE /\ delayer' = [state |-> IF ipd.en = 0 THEN "IN_PKT_HEADER"
                                ELSE IF ~d_moves(in, mac) THEN delayer.state
                                ELSE IF Words[Head(d_fifo)].last THEN "IN_PKT_HEADER"
                                ELSE "IN_PKT_BODY",
                      wait |-> NextWait(in, mac)]
       /\ d_fifo' = IF ipd.en = 0 THEN d_fifo
                    ELSE Fifo(d_fifo, d_moves(in, mac), IF accepts(in, mac) THEN in ELSE <<>>)

(* The limiter: a packet is followed by a gap of its words times 2^rate.   *)
Limiter_gapFromLastWord(in, mac) ==
  CASE rl.en = 0 -> [limiter EXCEPT !.state = "WAIT_FOR_PKT"]
    [] rl.en = 1 /\ limiter.state = "WAIT_FOR_PKT" ->
         IF ~l_moves(in, mac) THEN limiter
         ELSE IF Words[Head(l_fifo)].last
              THEN [state |-> "WAIT_FOR_IPG", timer_ticks |-> limiter.timer_ticks * 2 ^ rl.rate]
              ELSE [limiter EXCEPT !.timer_ticks = @ + 1]
    [] OTHER -> IF limiter.timer_ticks > 1 THEN [limiter EXCEPT !.timer_ticks = @ - 1]
                ELSE [state |-> "WAIT_FOR_PKT", timer_ticks |-> 0]

Limiter_gapNeverOver(in, mac) ==
  CASE rl.en = 0 -> [limiter EXCEPT !.state = "WAIT_FOR_PKT"]
    [] rl.en = 1 /\ limiter.state = "WAIT_FOR_PKT" ->
         IF ~l_moves(in, mac) THEN limiter
         ELSE IF Words[Head(l_fifo)].last
              THEN [state |-> "WAIT_FOR_IPG",
                    timer_ticks |-> (limiter.timer_ticks + 1) * 2 ^ rl.rate]
              ELSE [limiter EXCEPT !.timer_ticks = @ + 1]
    [] OTHER -> [limiter EXCEPT !.timer_ticks = Less1(@)]

Limiter(in, mac) ==
  CASE rl.en = 0 -> [limiter EXCEPT !.state = "WAIT_FOR_PKT"]
    [] rl.en = 1 /\ limiter.state = "WAIT_FOR_PKT" ->
         IF ~l_moves(in, mac) THEN limiter
         ELSE IF Words[Head(l_fifo)].last
              THEN [state |-> "WAIT_FOR_IPG",
                    timer_ticks |-> (limiter.timer_ticks + 1) * 2 ^ rl.rate]
              ELSE [limiter EXCEPT !.timer_ticks = @ + 1]
    [] OTHER -> IF limiter.timer_ticks > 1 THEN [limiter EXCEPT !.timer_ticks = @ - 1]
                ELSE [state |-> "WAIT_FOR_PKT", timer_ticks |-> 0]

LimiterEdge(in, mac) ==
  IF rl.rst = 1
  THEN limiter' = [state |-> "WAIT_FOR_PKT", timer_ticks |-> 0] /\ l_fifo' = <<>>
  ELSE /\ limiter' = Limiter(in, mac)
       /\ l_fifo' = IF rl.en = 0 THEN l_fifo
                    ELSE Fifo(l_fifo, l_moves(in, mac),
                              IF d_moves(in, mac) THEN d_offer(in) ELSE <<>>)

-----------------------------------------------------------------------------
(* The histories.  A packet of w words keeps the wire w * 2^rate ticks      *)
(* after its last word; `steady' says the limiter has been switched or     *)
(* reset only when all was quiet, or all has been quiet since.             *)
RestAfter(in, mac) ==
  IF l_moves(in, mac) /\ rl.en = 1 /\ Words[l_offer(in)[1]].last
  THEN (OnWire + 1) * 2 ^ rl.rate ELSE Less1(rest)

(* `spaced' says that since the last packet began the delay has been       *)
(* enabled, the limiter disabled, and neither reset.                       *)
Starts(in, mac) == l_moves(in, mac) /\ Words[l_offer(in)[1]].first

(* The words a reset throws away: those the FIFO would hold without it.    *)
Flushed(core, fifo, gets, put) ==
  IF core.rst = 0 THEN {} ELSE ToSet(IF core.en = 0 THEN fifo ELSE Fifo(fifo, gets, put))

Histories(in, mac) ==
  /\ out' = IF l_moves(in, mac) THEN out \o l_offer(in) ELSE out
  /\ dropped' = dropped
       \cup Flushed(ipd, d_fifo, d_moves(in, mac), IF accepts(in, mac) THEN in ELSE <<>>)
       \cup Flushed(rl, l_fifo, l_moves(in, mac), IF d_moves(in, mac) THEN d_offer(in) ELSE <<>>)
  /\ rest' = IF rl.rst = 1 THEN 0 ELSE RestAfter(in, mac)
  /\ steady' = (Quiet' \/ (steady /\ rl.rst = 0))
  /\ IF Starts(in, mac)
     THEN /\ since' = 1 /\ spaced' = (ipd.en = 1 /\ ipd.rst = 0 /\ rl.en = 0)
          /\ promised' = IF ipd.use_reg = 1 THEN ipd.delay ELSE Words[l_offer(in)[1]].stamp
     ELSE /\ since' = Min({since + 1, OneSecond}) /\ spaced' = (spaced /\ ipd.rst = 0)
          /\ UNCHANGED promised
  /\ UNCHANGED stranded

Tick(in, mac) ==
  /\ UNCHANGED <<host, trace, stamped>>
  /\ DelayerEdge(in, mac) /\ LimiterEdge(in, mac) /\ Histories(in, mac)
  /\ next' = IF accepts(in, mac) THEN next + 1 ELSE next

Offers == IF next <= Len(Words) THEN {<<>>, <<next>>} ELSE {<<>>}

-----------------------------------------------------------------------------
(* The registers may have any value an earlier call left.                  *)
Init ==
  /\ \E e \in {0, 1}, d \in Delays \cup {0}, u \in {0, 1} :
       ipd = [rst |-> 0, en |-> e, use_reg |-> u, delay |-> d]
  /\ \E e \in {0, 1}, r \in Rates : rl = [rst |-> 0, en |-> e, rate |-> r]
  /\ todo = <<>> /\ ops = 0
  /\ trace \in Traces /\ stamped \in Stamped /\ next = 1
  /\ delayer = [state |-> "IN_PKT_HEADER", wait |-> 0] /\ d_fifo = <<>>
  /\ limiter = [state |-> "WAIT_FOR_PKT", timer_ticks |-> 0] /\ l_fifo = <<>>
  /\ out = <<>> /\ dropped = {} /\ stranded = FALSE /\ rest = 0 /\ steady = TRUE
  /\ since = OneSecond /\ promised = 0 /\ spaced = FALSE

Next ==
  \/ UserActs \/ HostWrites
  \/ \E in \in Offers, mac \in BOOLEAN : Tick(in, mac)

(* The clock runs, the engine offers a word again that was refused, the    *)
(* sender behind the port takes one that stays on offer, and a program     *)
(* that has begun to write registers goes on.                              *)
Spec ==
  /\ Init /\ [][Next]_vars
  /\ WF_vars(\E in \in Offers, mac \in BOOLEAN : Tick(in, mac))
  /\ WF_vars(\E in \in Offers, mac \in BOOLEAN : accepts(in, mac) /\ Tick(in, mac))
  /\ WF_vars(\E in \in Offers : l_moves(in, TRUE) /\ Tick(in, TRUE))
  /\ WF_vars(HostWrites)

-----------------------------------------------------------------------------
TypeOK ==
  /\ DOMAIN ipd = {"rst", "en", "use_reg", "delay"} /\ DOMAIN rl = {"rst", "en", "rate"}
  /\ {ipd.rst, ipd.en, ipd.use_reg, rl.rst, rl.en} \subseteq {0, 1}
  /\ delayer.state \in {"IN_PKT_HEADER", "IN_PKT_BODY"} /\ delayer.wait \in Nat
  /\ limiter.state \in {"WAIT_FOR_PKT", "WAIT_FOR_IPG"} /\ limiter.timer_ticks \in Nat
  /\ next \in 1 .. Len(Words) + 1 /\ dropped \subseteq 1 .. Len(Words)
  /\ Len(d_fifo) <= Depth /\ Len(l_fifo) <= Depth
  /\ rest \in Nat /\ since \in Nat /\ promised \in Nat

(* Every word the engine has handed over is on the wire, in one of the     *)
(* FIFOs, or lost to a reset, and in one place only, however the host      *)
(* enables and disables the two cores (rate_limiter_simple.v:148 and 157,  *)
(* inter_packet_delay.v:144 and 153, which change the path of a word).     *)
EachWordOnce ==
  /\ ToSet(out \o l_fifo \o d_fifo) \cup dropped = 1 .. next - 1
  /\ Len(out) + Len(l_fifo) + Len(d_fifo) + Cardinality(dropped) = next - 1

(* Words leave in the order they came, unless a core was disabled while    *)
(* its FIFO held some: those are overtaken and leave when it is enabled    *)
(* again (rate_limiter_simple.v:148-155, where the FIFO is not read).      *)
OvertakenOnlyIfStranded ==
  ~stranded => \A i, j \in DOMAIN (out \o l_fifo \o d_fifo) :
                 i < j => (out \o l_fifo \o d_fifo)[i] < (out \o l_fifo \o d_fifo)[j]

(* The limiter leaves the gap the host's to_string computes the rate from  *)
(* (generator.py:549: one part in 2^rate + 1), neither less nor more,      *)
(* whatever the host has changed since; it may be off only for the packet  *)
(* in the middle of which the limiter was switched or reset, or the first  *)
(* after a switch in a gap, which keeps timer_ticks.                       *)
GapAsShown ==
  steady /\ rl.en = 1 => (limiter.state = "WAIT_FOR_IPG" <=> rest > 0)

Began == Len(out') > Len(out) /\ Words[Last(out')].first

(* With the limiter off, packets begin at least as far apart on the wire   *)
(* as the delay in force when the earlier one began (inter_packet_delay.v: *)
(* 162-168), whatever is written to the delay's registers in between.      *)
DelayKept == [][Began /\ spaced /\ ~stranded => since >= promised]_vars

(* Nothing stays behind in a core that is enabled in the end, and the      *)
(* engine is not held up for ever.                                         *)
Drains ==
  <>[](/\ next > Len(Words) /\ (ipd.en = 1 => d_fifo = <<>>) /\ (rl.en = 1 => l_fifo = <<>>))

(* Replayed by their stamps, packets begin as far apart as they were       *)
(* captured: "Get the delay value for the next packet"                     *)
(* (inter_packet_delay.v:166) takes a stamp for the distance to the next,  *)
(* which the host computed as the distance to the one before               *)
(* (generator.py:386).  Does not hold.                                     *)
SpacedAsCaptured ==
  [][LET p == Words[Last(out')].pkt
     IN Began /\ spaced /\ ~stranded /\ stamped /\ ipd.use_reg = 0 /\ ops = 0 /\ p > 1
          => since >= trace[p].time - trace[p - 1].time]_vars
=============================================================================
