--------------------------- MODULE GeneratorTools ---------------------------
(***************************************************************************)
(* The generator's registers and the two programs that set them: the       *)
(* window of generator_gui.py, and calls of osnt-tool-cmd.py from a        *)
(* terminal beside it.  Each program keeps a copy of every register it has *)
(* read (its mirror) and shows or writes from the copy.  The setters of    *)
(* generator.py write a register and read it back.                         *)
(*                                                                         *)
(* A program is a sequence of steps, one register access or one local      *)
(* action each; accesses of the two programs interleave, local actions are *)
(* immediate.  The window refreshes its fields with SetValue, and wx then  *)
(* calls the field's change handler in the middle of the refresh, as if    *)
(* the user had typed; the handler is a frame on the window's stack.       *)
(*                                                                         *)
(* Start and done pulses, which leave every register as it was, are in     *)
(* GeneratorHost; sleeps, the log and the layout are left out.             *)
(***************************************************************************)
EXTENDS Integers, Sequences, FiniteSets, SequencesExt

CONSTANTS
  Ports,         \* the interfaces in order, as a sequence
  TraceWords,    \* memory words of a trace, as load_pcap counts them
  Calls,         \* the command lines the user may give, as a sequence
  Rates, Counts, Positions, Delays,   \* what the user may enter; delays in ns
  TextValues,    \* every number a text field may hold
  Plans          \* what may happen: how often the window is opened (0 or 1), how many
                 \* uses of its controls and which, how many calls and which, and how
                 \* many refused accesses

ASSUME PlansAssumption == \A p \in Plans :
  /\ {p.opens, p.ops, p.calls, p.refusals} \subseteq Nat /\ p.opens < 2
  /\ p.given \subseteq DOMAIN Calls

PortSet == ToSet(Ports)
Card == Ports[1]          \* registers of the whole card are filed under one port

TextRegs == {"replay_cnt", "delay", "rx_pos", "tx_pos"}
ShownRegs == {"replay_cnt", "mem_addr_low", "mem_addr_high", "rate", "rl_enable",
              "delay", "ipd_enable", "use_reg"}
Cells ==
  ((TextRegs \union ShownRegs \union {"rl_reset", "ipd_reset", "enable"}) \X PortSet)
    \union ({"rst", "em_reset", "em_enable"} \X {Card})

-----------------------------------------------------------------------------
(* Steps.                                                                   *)
Write(c, v) == <<[op |-> "write", cell |-> c, val |-> v]>>
Flush(c) == <<[op |-> "flush", cell |-> c]>>                  \* write the mirror
Read(c) == <<[op |-> "read", cell |-> c]>>
Send(q, kind) == <<[op |-> "send", q |-> q, kind |-> kind]>>  \* a trace, packet by packet
Assign(cs, v) == <<[op |-> "assign", cells |-> cs, val |-> v]>>
Show(cs) == <<[op |-> "show", cells |-> cs]>>
SetText(c) == <<[op |-> "text", cell |-> c]>>
LocalOps == {"assign", "show", "text"}

Each(steps(_)) == FlattenSeq([i \in 1 .. Len(Ports) |-> steps(Ports[i])])
AllPorts(r) == {r} \X PortSet

(* set_delay turns nanoseconds into ticks of 6.25 ns (times 160000000,     *)
(* divided by 1000000000); the window's field turns them back.  Both       *)
(* divisions drop the remainder.  (A definition named X_... is a plausible *)
(* slip in X, kept to show that the properties below notice it.)           *)
Ticks(ns) == (ns * 4) \div 25
Nanoseconds_unconverted(ticks) == ticks
Nanoseconds(ticks) == (ticks * 25) \div 4

(* generator.py.  A getter reads one register, or one of each port.        *)
Set_notReadBack(c, v) == Write(c, v)
Set(c, v) == Write(c, v) \o Read(c)
SetAll(r) == Each(LAMBDA q : Flush(<<r, q>>)) \o Each(LAMBDA q : Read(<<r, q>>))

rl_init(q) == Read(<<"rate", q>>) \o Read(<<"rl_enable", q>>) \o Read(<<"rl_reset", q>>)

rl_set_rate(q, v) == Set(<<"rate", q>>, v)
rl_set_enable(q, v) == Set(<<"rl_enable", q>>, v)
rl_set_reset(q, v) == Set(<<"rl_reset", q>>, v) \o rl_set_rate(q, 0) \o rl_set_enable(q, 0)

ipd_init(q) == Read(<<"ipd_enable", q>>) \o Read(<<"use_reg", q>>) \o Read(<<"delay", q>>)
                 \o Read(<<"ipd_reset", q>>)

ipd_set_enable(q, v) == Set(<<"ipd_enable", q>>, v)
set_use_reg(q, v) == Set(<<"use_reg", q>>, v)
set_delay(q, ns) == Set(<<"delay", q>>, Ticks(ns))

ipd_set_reset(q, v) ==
  Set(<<"ipd_reset", q>>, v) \o ipd_set_enable(q, 0) \o set_delay(q, 0) \o set_use_reg(q, 0)

extractor_init == Read(<<"em_enable", Card>>) \o Read(<<"em_reset", Card>>)
em_set_reset(v) == Set(<<"em_reset", Card>>, v)
em_set_enable(v) == Set(<<"em_enable", Card>>, v)

set_reset(v) == Set(<<"rst", Card>>, v)
set_mem_addr_low == SetAll("mem_addr_low")
set_mem_addr_high == SetAll("mem_addr_high")
set_enable == SetAll("enable")
set_replay_cnt == SetAll("replay_cnt")

engine_init ==
  Read(<<"rst", Card>>)
    \o FlattenSeq([i \in 1 .. 4 |->
         LET r == <<"replay_cnt", "mem_addr_low", "mem_addr_high", "enable">>[i]
         IN Each(LAMBDA q : Read(<<r, q>>))])

Clear(cs) == Assign(cs, 0) \o set_mem_addr_low \o set_mem_addr_high \o set_enable

clear ==
  LET rs == {"mem_addr_low", "mem_addr_high", "enable", "replay_cnt"}
  IN set_reset(1) \o Clear(rs \X PortSet) \o set_replay_cnt \o set_reset(0)

(* The traces get consecutive ranges of the memory, in port order.         *)
Bounds(pcaps) ==
  LET used(i) == TraceWords * Cardinality({j \in 1 .. i : Ports[j] \in pcaps})
  IN FlattenSeq([i \in 1 .. Len(Ports) |->
       Assign({<<"mem_addr_low", Ports[i]>>}, used(i - 1))
         \o Assign({<<"mem_addr_high", Ports[i]>>}, used(i))
         \o Assign({<<"enable", Ports[i]>>}, IF Ports[i] \in pcaps THEN 1 ELSE 0)])

(* load_pcap_only, which neither tool calls, leaves the engine in reset.   *)
load_pcap_only(pcaps, kind) ==
  set_reset(1) \o Each(LAMBDA q : IF q \in pcaps THEN Send(q, kind) ELSE <<>>)

(* load_pcap and load_pcap_ts differ in what they send: the second puts a  *)
(* packet with the time since the packet before in front of each.          *)
Load(pcaps, kind) ==
  LET rs == {"mem_addr_low", "mem_addr_high", "enable"}
  IN set_reset(1) \o Clear(rs \X PortSet) \o set_reset(0)
       \o Bounds(pcaps) \o set_mem_addr_low \o set_mem_addr_high \o set_enable
       \o Each(LAMBDA q : IF q \in pcaps THEN Send(q, kind) ELSE <<>>)

load_pcap(pcaps) == Load(pcaps, "plain")
load_pcap_ts(pcaps) == Load(pcaps, "stamped")

run == Assign(AllPorts("enable"), 0) \o set_enable

-----------------------------------------------------------------------------
(* osnt-tool-cmd.py: one call, with generator_cli_lib.py which it imports.  *)
InitGCli == Each(LAMBDA q : rl_init(q) \o ipd_init(q)) \o engine_init
              \o extractor_init \o em_set_reset(0) \o em_set_enable(0)

Loads_stampedFirst(load) ==
  LET of(kind) == {q \in PortSet : load[q] = kind}
  IN (IF of("stamped") = {} THEN <<>> ELSE load_pcap_ts(of("stamped")))
       \o (IF of("plain") = {} THEN <<>> ELSE load_pcap(of("plain") \union of("stamped")))

(* Each file is added to the table and the whole table is loaded again.    *)
Loads(load) ==
  LET plain == SelectSeq(Ports, LAMBDA q : load[q] = "plain")
      stamped == SelectSeq(Ports, LAMBDA q : load[q] = "stamped")
      first(s, n) == ToSet(SubSeq(s, 1, n))
  IN FlattenSeq([n \in 1 .. Len(plain) |-> load_pcap(first(plain, n))])
       \o FlattenSeq([n \in 1 .. Len(stamped) |->
            load_pcap_ts(ToSet(plain) \union first(stamped, n))])

cli_set_replay_cnt_ifGiven(q, v) ==
  IF v = 0 THEN <<>> ELSE Assign({<<"replay_cnt", q>>}, v) \o set_replay_cnt
cli_set_replay_cnt(q, v) == Assign({<<"replay_cnt", q>>}, v) \o set_replay_cnt

Timed(load) == \E q \in PortSet : load[q] = "stamped"

(* set_ipg and set_ipg_ts.                                                  *)
set_ipg(q, ns, timed) ==
  set_delay(q, ns) \o ipd_set_enable(q, 1) \o set_use_reg(q, IF timed THEN 0 ELSE 1)

set_ts_pos(r, pos) ==
  Each(LAMBDA q : IF pos[q] = 0 THEN <<>> ELSE Write(<<r, q>>, pos[q]))

Call(k) ==
  LET a == Calls[k]
  IN InitGCli \o
     (IF a.clear THEN clear
      ELSE Loads(a.load) \o Each(LAMBDA q : cli_set_replay_cnt(q, a.rpn[q]))
             \o Each(LAMBDA q : set_ipg(q, a.ipg[q], Timed(a.load)))
             \o set_ts_pos("tx_pos", a.txs) \o set_ts_pos("rx_pos", a.rxs)
             \o (IF a.run THEN run ELSE <<>>))

-----------------------------------------------------------------------------
(* generator_gui.py.                                                        *)
readings_init == Each(LAMBDA q :
  SetText(<<"replay_cnt", q>>)
    \o Show({"replay_cnt", "mem_addr_low", "mem_addr_high", "rate", "rl_enable"} \X {q})
    \o SetText(<<"delay", q>>)
    \o Show({"delay", "ipd_enable", "use_reg"} \X {q})
    \o SetText(<<"rx_pos", q>>) \o SetText(<<"tx_pos", q>>))

window_init ==
  Each(LAMBDA q : Read(<<"rx_pos", q>>) \o Read(<<"tx_pos", q>>))
    \o Each(LAMBDA q : rl_init(q) \o ipd_init(q)) \o engine_init
    \o extractor_init \o em_set_reset(0) \o em_set_enable(0) \o readings_init

(* The handlers of the text fields, called with the value in the field.    *)
on_replay_cnt_change(q, v) ==
  Assign({<<"replay_cnt", q>>}, v) \o set_replay_cnt \o Show({<<"replay_cnt", q>>})
on_delay_change(q, v) == set_delay(q, v) \o Show({<<"delay", q>>})
on_rx_pos_change(q, v) == Write(<<"rx_pos", q>>, v)
on_tx_pos_change(q, v) == Write(<<"tx_pos", q>>, v)

(* The slider and the toggle buttons.                                      *)
on_rate_change(q, v) == rl_set_rate(q, v) \o Show({<<"rate", q>>})
on_rate_limiter_enable(q, v) == rl_set_enable(q, v) \o Show({<<"rl_enable", q>>})
on_delay_enable(q, v) == ipd_set_enable(q, v) \o Show({<<"ipd_enable", q>>})
on_delay_use_reg(q, v) == set_use_reg(q, v) \o Show({<<"use_reg", q>>})

(* The buttons and the menu.                                               *)
on_rate_limiter_reset(q) == rl_set_reset(q, 1) \o readings_init \o rl_set_reset(q, 0)
on_delay_reset(q) == ipd_set_reset(q, 1) \o readings_init \o ipd_set_reset(q, 0)
on_reset_pcap == clear \o readings_init
on_select_pcap_file(q, kind) ==      \* kind is "none" when the dialog is cancelled
  (CASE kind = "none" -> <<>> [] kind = "plain" -> load_pcap({q})
     [] kind = "stamped" -> load_pcap_ts({q}))
    \o readings_init

Kinds == <<"none", "plain", "stamped">>

OnText == [replay_cnt |-> "on_replay_cnt_change", delay |-> "on_delay_change",
           rx_pos |-> "on_rx_pos_change", tx_pos |-> "on_tx_pos_change"]

UserOps ==
  ({"on_rate_change"} \X PortSet \X Rates)
    \union ({"on_rate_limiter_enable", "on_delay_enable", "on_delay_use_reg"}
              \X PortSet \X {0, 1})
    \union ({"on_rate_limiter_reset", "on_delay_reset"} \X PortSet \X {0})
    \union ({"on_select_pcap_file"} \X PortSet \X (1 .. 3))
    \union ({"on_start_replay", "on_reset_pcap"} \X {Card} \X {0})

(* The steps of every operation, by its name, port and value.              *)
OfPorts(Values, steps(_, _)) == [q \in PortSet |-> [v \in Values |-> steps(q, v)]]

Program ==
  [window |-> OfPorts({0}, LAMBDA q, v : window_init),
   call |-> OfPorts(DOMAIN Calls, LAMBDA q, v : Call(v)),
   on_replay_cnt_change |-> OfPorts(TextValues, on_replay_cnt_change),
   on_delay_change |-> OfPorts(TextValues, on_delay_change),
   on_rx_pos_change |-> OfPorts(TextValues, on_rx_pos_change),
   on_tx_pos_change |-> OfPorts(TextValues, on_tx_pos_change),
   on_rate_change |-> OfPorts(Rates, on_rate_change),
   on_rate_limiter_enable |-> OfPorts({0, 1}, on_rate_limiter_enable),
   on_delay_enable |-> OfPorts({0, 1}, on_delay_enable),
   on_delay_use_reg |-> OfPorts({0, 1}, on_delay_use_reg),
   on_rate_limiter_reset |-> OfPorts({0}, LAMBDA q, v : on_rate_limiter_reset(q)),
   on_delay_reset |-> OfPorts({0}, LAMBDA q, v : on_delay_reset(q)),
   on_select_pcap_file |->
     OfPorts(1 .. 3, LAMBDA q, v : on_select_pcap_file(q, Kinds[v])),
   on_start_replay |-> OfPorts({0}, LAMBDA q, v : run),
   on_reset_pcap |-> OfPorts({0}, LAMBDA q, v : on_reset_pcap)]

StepsOf(o) == Program[o[1]][o[2]][o[3]]

-----------------------------------------------------------------------------
Programs == {"window", "cli"}

VARIABLES
  reg,         \* the registers of the card
  loaded,      \* what the replay memory holds for each port
  mirror,      \* each program's copy of the registers
  stack,       \* the operation each program is in, innermost first: <<op, next step>>
  field,       \* the numbers in the window's text fields
  shown,       \* what the window's labels, sliders and toggles show
  pts_enable,  \* the window's TS Enable toggles
  alive,       \* the window is open
  plan,        \* what may still happen
  call,        \* history: the last call, if nothing else has touched the card since
  unread,      \* history: registers the other program wrote since the window read them
  unshown,     \* history: ... since the window read and showed them
  flaws        \* history: "lost" writes, "aborted" handlers, "reset" buttons pressed

card == <<reg, loaded>>
window == <<field, shown, pts_enable, alive>>
history == <<call, unread, unshown, flaws>>
vars == <<card, mirror, stack, window, plan, history>>

(* A card left as it was configured (everything 0), or with settings and   *)
(* traces of an earlier session.                                           *)
Init ==
  /\ \E left \in {0, 1} :
       /\ reg = [c \in Cells |-> IF c[1] \in TextRegs \union {"rate"} THEN left ELSE 0]
       /\ loaded = [q \in PortSet |-> IF left = 0 THEN "none" ELSE "stamped"]
  /\ mirror = [p \in Programs |-> [c \in Cells |-> 0]]
  /\ stack = [p \in Programs |-> <<>>]
  /\ field = [c \in TextRegs \X PortSet |-> 0]
  /\ shown = [c \in ShownRegs \X PortSet |-> 0]
  /\ pts_enable = [q \in PortSet |-> FALSE]
  /\ alive = FALSE
  /\ plan \in Plans
  /\ call = 0 /\ unread = {} /\ unshown = {} /\ flaws = {}

AtRest(p) == stack[p] = <<>>
Step(p) == LET frame == Head(stack[p]) IN StepsOf(frame[1])[frame[2]]

(* An access takes a run of another program; nothing comes between it and  *)
(* the local actions that follow.                                          *)
MayAccess == \A r \in Programs : ~AtRest(r) => Step(r).op \notin LocalOps

(* The stack after the present step, with a handler called from it on top. *)
Rest(p) ==
  LET frame == Head(stack[p])
  IN IF frame[2] = Len(StepsOf(frame[1])) THEN Tail(stack[p])
     ELSE << <<frame[1], frame[2] + 1>> >> \o Tail(stack[p])
Go(p) == stack' = [stack EXCEPT ![p] = Rest(p)]

NoteOther(p, c) ==     \* a write of p as seen from the window
  IF p = "window" THEN UNCHANGED <<unread, unshown>>
  ELSE unread' = unread \union {c} /\ unshown' = unshown \union {c}

(* wraxi.  The engine's reset returns addresses and machines to their      *)
(* start; the cells of the replay memory keep what they hold.              *)
WriteStep(p, s) ==
  /\ s.op \in {"write", "flush"}
  /\ LET v == IF s.op = "write" THEN s.val ELSE mirror[p][s.cell]
     IN /\ reg' = [reg EXCEPT ![s.cell] = v]
        /\ NoteOther(p, s.cell)
  /\ Go(p)
  /\ UNCHANGED <<loaded, mirror, window, plan, call, flaws>>

ReadStep(p, s) ==
  /\ s.op = "read"
  /\ LET c == s.cell
     IN /\ mirror' = [mirror EXCEPT ![p][c] = reg[c]]
        /\ unread' = IF p = "window" THEN unread \ {c} ELSE unread
  /\ Go(p)
  /\ UNCHANGED <<card, window, plan, call, unshown, flaws>>

(* An engine held in reset takes no packets.                               *)
SendStep(p, s) ==
  /\ s.op = "send"
  /\ loaded' = IF reg[<<"rst", Card>>] = 1 THEN loaded ELSE [loaded EXCEPT ![s.q] = s.kind]
  /\ Go(p)
  /\ UNCHANGED <<reg, mirror, window, plan, history>>

(* The driver refuses an access while another is under way.  wraxi's exit  *)
(* status is ignored.                                                      *)
WriteRefused(p, s) ==
  /\ s.op \in {"write", "flush"} /\ plan.refusals > 0
  /\ plan' = [plan EXCEPT !.refusals = @ - 1]
  /\ flaws' = flaws \union {"lost"} /\ call' = 0
  /\ Go(p)
  /\ UNCHANGED <<card, mirror, window, unread, unshown>>

(* int() of rdaxi's error text raises ValueError: a call ends there, the   *)
(* window loses the handler that made the read, or never comes up.         *)
ReadRefused(p, s) ==
  /\ s.op = "read" /\ plan.refusals > 0
  /\ stack' = [stack EXCEPT ![p] = Tail(@)]
  /\ alive' = (alive /\ Head(stack[p])[1][1] # "window")
  /\ plan' = [plan EXCEPT !.refusals = @ - 1]
  /\ flaws' = flaws \union {"aborted"} /\ call' = 0
  /\ UNCHANGED <<card, mirror, field, shown, pts_enable, unread, unshown>>

AssignStep(p, s) ==
  /\ s.op = "assign"
  /\ mirror' = [mirror EXCEPT ![p] = [c \in Cells |-> IF c \in s.cells THEN s.val ELSE @[c]]]
  /\ Go(p)
  /\ UNCHANGED <<card, window, plan, history>>

ShowStep(p, s) ==
  /\ s.op = "show"
  /\ LET cs == s.cells
     IN /\ shown' = [c \in DOMAIN shown |-> IF c \in cs THEN mirror[p][c] ELSE shown[c]]
        /\ unshown' = unshown \ (cs \ unread)
  /\ Go(p)
  /\ UNCHANGED <<card, mirror, field, pts_enable, alive, plan, call, unread, flaws>>

(* SetValue of a text field: IntCtrl passes the text event on when the     *)
(* number has changed, before SetValue returns.  The positions are those   *)
(* read when the window came up.                                           *)
FieldValue(c) ==
  IF c[1] = "delay" THEN Nanoseconds(mirror["window"][c]) ELSE mirror["window"][c]

SetTextStep(p, s) ==
  /\ s.op = "text"
  /\ LET c == s.cell v == FieldValue(c)
         handler == IF v = field[c] THEN <<>> ELSE << <<<<OnText[c[1]], c[2], v>>, 1>> >>
     IN /\ stack' = [stack EXCEPT ![p] = handler \o Rest(p)]
        /\ field' = [field EXCEPT ![c] = v]
  /\ UNCHANGED <<card, mirror, shown, pts_enable, alive, plan, history>>

-----------------------------------------------------------------------------
(* The user.                                                                *)
Begin(p, o) == stack' = [stack EXCEPT ![p] = << <<o, 1>> >>]

Open ==
  /\ ~alive /\ MayAccess /\ plan.opens > 0
  /\ plan' = [plan EXCEPT !.opens = @ - 1]
  /\ alive' = TRUE /\ call' = 0
  /\ Begin("window", <<"window", Card, 0>>)
  /\ UNCHANGED <<card, mirror, field, shown, pts_enable, unread, unshown, flaws>>

Act ==
  /\ alive /\ AtRest("window") /\ MayAccess /\ plan.ops > 0
  /\ plan' = [plan EXCEPT !.ops = @ - 1]
  /\ call' = 0

UseControl ==
  /\ Act
  /\ \E o \in UserOps :
       /\ o[1] \in plan.controls
       /\ o[1] = "on_select_pcap_file" =>
            Kinds[o[3]] \in {"none", IF pts_enable[o[2]] THEN "stamped" ELSE "plain"}
       /\ Begin("window", o)
       /\ flaws' = IF o[1] \in {"on_rate_limiter_reset", "on_delay_reset"}
                   THEN flaws \union {"reset"} ELSE flaws
  /\ UNCHANGED <<card, mirror, window, unread, unshown>>

(* A number is typed into a text field.                                    *)
Type ==
  /\ Act
  /\ \E r \in {r \in TextRegs : OnText[r] \in plan.controls}, q \in PortSet :
       \E v \in (CASE r = "replay_cnt" -> Counts [] r = "delay" -> Delays
                   [] OTHER -> Positions) \ {field[<<r, q>>]} :
         /\ field' = [field EXCEPT ![<<r, q>>] = v]
         /\ Begin("window", <<OnText[r], q, v>>)
  /\ UNCHANGED <<card, mirror, shown, pts_enable, alive, unread, unshown, flaws>>

on_pcap_ts_enable ==
  /\ Act /\ "on_pcap_ts_enable" \in plan.controls
  /\ \E q \in PortSet : pts_enable' = [pts_enable EXCEPT ![q] = ~@]
  /\ UNCHANGED <<card, mirror, stack, field, shown, alive, unread, unshown, flaws>>

(* A command line; the program starts with empty mirrors.                  *)
GiveCall ==
  /\ AtRest("cli") /\ MayAccess /\ plan.calls > 0
  /\ plan' = [plan EXCEPT !.calls = @ - 1]
  /\ \E k \in plan.given :
       Begin("cli", <<"call", Card, k>>) /\ call' = IF AtRest("window") THEN k ELSE 0
  /\ mirror' = [mirror EXCEPT !["cli"] = [c \in Cells |-> 0]]
  /\ UNCHANGED <<card, window, unread, unshown, flaws>>

Next ==
  \/ Open \/ UseControl \/ Type \/ on_pcap_ts_enable \/ GiveCall
  \/ \E p \in Programs : ~AtRest(p) /\
       LET s == Step(p)
       IN \/ AssignStep(p, s) \/ ShowStep(p, s) \/ SetTextStep(p, s)
          \/ /\ MayAccess
             /\ \/ WriteStep(p, s) \/ ReadStep(p, s) \/ SendStep(p, s)
                \/ WriteRefused(p, s) \/ ReadRefused(p, s)

Spec == Init /\ [][Next]_vars

-----------------------------------------------------------------------------
TypeOK ==
  /\ reg \in [Cells -> Nat] /\ loaded \in [PortSet -> ToSet(Kinds)]
  /\ mirror \in [Programs -> [Cells -> Nat]]
  /\ field \in [TextRegs \X PortSet -> TextValues]
  /\ \A p \in Programs : \A i \in DOMAIN stack[p] :
       stack[p][i][2] \in DOMAIN StepsOf(stack[p][i][1])
  /\ shown \in [ShownRegs \X PortSet -> Nat]
  /\ unread \subseteq Cells /\ unshown \subseteq Cells
  /\ flaws \subseteq {"lost", "aborted", "reset"}

(* "This value is read back from hardware" (generator_gui.py:343, 352, ...): *)
(* between the user's actions every label and toggle of the window shows   *)
(* its register, whatever handlers the refresh has called and in whatever  *)
(* order, except for a register a command line wrote after the window last *)
(* read and showed it; a lost write is shown as lost (unless it was one of *)
(* a Reset button, whose second half comes after the refresh).             *)
LabelsTruthful ==
  alive /\ AtRest("window") /\ "aborted" \notin flaws /\ ~{"lost", "reset"} \subseteq flaws =>
    \A c \in DOMAIN shown \ unshown : shown[c] = reg[c]

(* A refresh of the window calls the handlers of its text fields, and they *)
(* write registers the user has not touched.  Such a write leaves a        *)
(* register the window has read since as it is, but for two: a delay may   *)
(* lose one tick to the conversion, and a time stamp position returns to   *)
(* its value of the time the window was opened.                            *)
RefreshHarmless == [][ \A c \in Cells :
    (/\ Len(stack["window"]) > 1 /\ stack["window"]' # stack["window"]
     /\ reg'[c] # reg[c] /\ c \notin unread /\ "aborted" \notin flaws)
      => \/ c[1] = "delay" /\ reg'[c] = reg[c] - 1
         \/ c[1] \in {"rx_pos", "tx_pos"} /\ reg'[c] = mirror["window"][c] ]_vars

(* Both programs raise the engine's reset in the middle of an operation.   *)
(* However their accesses interleave, it is down again when both are done; *)
(* only a refused access can leave it up.                                  *)
EngineReleased ==
  (\A p \in Programs : AtRest(p)) /\ {"lost", "aborted"} \cap flaws = {} =>
    reg[<<"rst", Card>>] = 0

(* A command line that had the card to itself leaves the settings of all   *)
(* ports as it asks, also those it does not name (counts and gaps of 0,    *)
(* gap on) whatever they were; only positions not given stay.              *)
CallAsAsked ==
  AtRest("cli") /\ call # 0 /\ ~Calls[call].clear =>
    LET a == Calls[call]
    IN \A q \in PortSet :
         /\ reg[<<"replay_cnt", q>>] = a.rpn[q]
         /\ reg[<<"delay", q>>] = Ticks(a.ipg[q]) /\ reg[<<"ipd_enable", q>>] = 1
         /\ a.txs[q] # 0 => reg[<<"tx_pos", q>>] = a.txs[q]
         /\ a.rxs[q] # 0 => reg[<<"rx_pos", q>>] = a.rxs[q]

(* The delay module takes the gaps of a port from the stamps in its trace  *)
(* or from a register; a trace of the other kind than the mode in force    *)
(* has no stamps to take them from, or sends its stamps as packets.        *)
Fits(q) == loaded[q] = IF reg[<<"use_reg", q>>] = 0 THEN "stamped" ELSE "plain"
WouldMisplay(q) == loaded[q] # "none" /\ ~Fits(q) /\ reg[<<"replay_cnt", q>>] # 0

(* A command line that had the card to itself has set the mode of all      *)
(* ports, mixing -ifp and -ifpt or not, such that every trace it loaded    *)
(* fits it.  A trace of an earlier load survives the engine's resets and   *)
(* may not fit; its port would replay it only if the command line gave it  *)
(* a count and no trace.                                                   *)
TimedIffStamped ==
  AtRest("cli") /\ call # 0 /\ ~Calls[call].clear =>
    LET a == Calls[call]
    IN \A q \in PortSet : /\ a.load[q] # "none" => Fits(q)
                          /\ WouldMisplay(q) => a.load[q] = "none" /\ a.rpn[q] # 0

(* The same of all ports: no command line leaves a port ready to replay a  *)
(* trace under the mode of another.  It fails: -rpn for a trace that an    *)
(* earlier call loaded with -ifpt switches to the register's gap.          *)
NoTraceMisplayed ==
  AtRest("cli") /\ call # 0 => \A q \in PortSet : ~WouldMisplay(q)
=============================================================================
