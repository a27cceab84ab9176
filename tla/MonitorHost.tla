----------------------------- MODULE MonitorHost -----------------------------
(***************************************************************************)
(* The register traffic of the monitoring tools, and the registers it      *)
(* meets on the card: OSNTMonitorFilter and OSNTMonitorStats of monitor.py *)
(* as monitor_cli_lib.py, osnt-tool-cmd.py and monitor_gui.py use them;    *)
(* the control register, the filter table behind ipif_table_regs.v and the *)
(* counters of stats_handler.v.  The programs run concurrently; one step   *)
(* of a program is one run of wraxi or rdaxi, or work of its own.  One     *)
(* port, and its packet and byte counts, stand for all that get_stats      *)
(* reads; the packet cutter and the timer, in other cores, are left out.   *)
(***************************************************************************)
EXTENDS Integers, Sequences, SequencesExt

CONSTANTS
  Programs,      \* the programs that run at the same time
  Scripts,       \* what they may do: functions from Programs to steps
  Entries,       \* OSNT_MON_FILTER_NUM_ENTRIES
  Columns,       \* the columns of a rule, as a sequence
  Rules,         \* the rules that filter files name
  Width,         \* the counters are modulo Width (2**32)
  PacketBytes,   \* the length of the packets on the wire
  MaxPackets     \* bound on the packets that are counted

ASSUME CounterAssumption ==
  Width \in Nat \ {0} /\ PacketBytes \in Nat /\ MaxPackets \in Nat
ASSUME TableAssumption == Entries \in Nat \ {0} /\ Columns \in Seq(STRING)

VARIABLES
  script,                      \* per program: the steps still to do
  tables,                      \* per program: src_ip_table, src_ip_mask_table, ...
  rd_value,                    \* per program: the control value it has read
  seen, old, rate,             \* per program: statistics read, shown last, and Pkt/Sec
  control, stats_freeze,       \* registers 0x0 and 0x4
  wr_port, rd_port, table,     \* ipif_table_regs and the TCAM with its lut
  counts, counts_tmp,          \* stats_handler
  ticked,                      \* a clock edge has passed since the last step
  wanted,                      \* history: the filter last asked for
  lost,                        \* history: the driver has refused an access
  freezers                     \* history: whose freeze nobody has lifted yet

programs == <<script, tables, rd_value, seen, old, rate, wanted, lost>>
freezing == <<stats_freeze, freezers>>
filter == <<wr_port, rd_port, table>>
statistics == <<counts, counts_tmp>>
vars == <<programs, control, freezing, filter, statistics, ticked>>

-----------------------------------------------------------------------------
Rows == 0 .. Entries - 1
Row(rule) == [c \in ToSet(Columns) |-> rule]       \* a whole rule, by its name
Filter(rules) == [e \in Rows |-> Row(rules[e])]
ClearedFilter == [e \in Rows |-> "ones"]           \* 0xffffffff: matches nothing
PowerOnFilter == [e \in Rows |-> "zeros"]

Control(rst, drop, tuple) ==
  [rst_stats |-> rst, force_drop |-> drop, tuple_pkt_en |-> tuple]

(* pkt_cnt and byte_cnt of one port.  For the properties: n, the packets   *)
(* ever counted, and base, those of them before the last reset.            *)
NoCounts == [pkts |-> 0, bytes |-> 0, n |-> 0, base |-> 0]

(* A program that is past its start has cleared the filter, and left the   *)
(* drop on; at power-on there is nothing but zeros.                        *)
Running(p) == script[p] # <<>> /\ Head(script[p]).op # "start"
Found(ps) == IF \E p \in ps : Running(p) THEN "ones" ELSE "zeros"

Init ==
  /\ script \in Scripts
  /\ tables = [p \in Programs |-> [e \in Rows |-> Row(Found({p}))]]
  /\ rd_value = [p \in Programs |-> Control(FALSE, FALSE, FALSE)]
  /\ seen = [p \in Programs |-> NoCounts] /\ old = [p \in Programs |-> NoCounts]
  /\ rate = [p \in Programs |-> 0]
  /\ control = Control(FALSE, Found(Programs) = "ones", FALSE)
  /\ stats_freeze = FALSE /\ freezers = {}
  /\ wr_port = Row(Found(Programs)) /\ rd_port = Row(Found(Programs))
  /\ table = [e \in Rows |-> Row(Found(Programs))]
  /\ counts = NoCounts /\ counts_tmp = NoCounts
  /\ ticked = TRUE
  /\ wanted = [e \in Rows |-> Found(Programs)] /\ lost = FALSE

-----------------------------------------------------------------------------
(* The operations, as sequences of steps.  A definition named X_... is a   *)
(* plausible slip in X, kept to show that the properties notice it.        *)

Do(op) == [op |-> op]
Write(v) == [op |-> "write", val |-> v]
Freeze(b) == [op |-> "freeze", val |-> b]
Column(c, e) == [op |-> "column", col |-> c, entry |-> e]
At(op, e) == [op |-> op, entry |-> e]
Asks(rules) == [op |-> "asks", rules |-> rules]      \* the host's tables for a file

Steps ==
  [op : {"start", "read", "read_unmapped", "drop", "undrop", "pkt_cnt", "byte_cnt", "show"}]
    \cup [op : {"write"}, val : [rst_stats : BOOLEAN, force_drop : BOOLEAN, tuple_pkt_en : BOOLEAN]]
    \cup [op : {"freeze"}, val : BOOLEAN]
    \cup [op : {"column"}, col : ToSet(Columns), entry : Rows]
    \cup [op : {"clear", "wr_addr", "rd_addr", "get"}, entry : Rows]
    \cup [op : {"asks"}, rules : [Rows -> Rules \cup {"ones", "zeros"}]]

ASSUME ScriptAssumption == Scripts \subseteq [Programs -> Seq(Steps)]

EachColumn(steps(_)) == [i \in 1 .. Len(Columns) |-> steps(Columns[i])]
EachEntry(steps(_)) == FlattenSeq([e \in 1 .. Entries |-> steps(e - 1)])

set_rule(e) == EachColumn(LAMBDA c : Column(c, e)) \o <<At("wr_addr", e)>>

get_rule(e) == <<At("rd_addr", e), At("get", e)>>

clear_rules ==
  <<Do("read"), Do("drop")>>
    \o EachEntry(LAMBDA e : <<At("clear", e)>> \o set_rule(e) \o get_rule(e))

(* The address set_rules reads, twice the base address, belongs to no core. *)
set_rules == <<Do("read_unmapped"), Do("undrop")>> \o EachEntry(set_rule)

synch_rules == set_rules \o EachEntry(get_rule)

get_stats == <<Freeze(TRUE), Do("pkt_cnt"), Do("byte_cnt"), Freeze(FALSE)>>

reset ==
  <<Write(Control(TRUE, FALSE, FALSE)), Write(Control(FALSE, FALSE, FALSE))>> \o get_stats

(* Importing monitor_cli_lib.py constructs the filter and the statistics,  *)
(* whatever the call is for; the GUI's main window does the same.          *)
InitMCli == <<Do("start")>> \o clear_rules \o get_stats

load_rule(rules) == <<Asks(rules)>> \o synch_rules

cli_display_stats == get_stats \o <<Do("show")>>

set_clear == <<Asks(ClearedFilter)>> \o clear_rules \o reset

(* OnConfigFilter of the GUI: the rules are cleared before the file is     *)
(* read.                                                                   *)
OnConfigFilter(rules) == clear_rules \o load_rule(rules)

-----------------------------------------------------------------------------
(* How scripts use the statistics; get_stats, cli_display_stats and reset  *)
(* keep to it.  A program lifts a freeze right after it has read them, and *)
(* had frozen them right before.                                           *)
ReadsFrozen(s) ==
  \A p \in Programs : \A i \in DOMAIN s[p] :
    s[p][i] = Freeze(FALSE) =>
      i > 3 /\ s[p][i - 3] = Freeze(TRUE)
            /\ s[p][i - 2] = Do("pkt_cnt") /\ s[p][i - 1] = Do("byte_cnt")

(* The counters are never reset; or by a program that is alone, which ends *)
(* the reset at once, shows what it has just read, and starts again between *)
(* a reset and a display.                                                  *)
Resets(step) == step.op = "write" /\ step.val.rst_stats
NeverResets(s) == \A p \in Programs : \A i \in DOMAIN s[p] : ~Resets(s[p][i])

EndsResets(q) ==
  \A i \in DOMAIN q : Resets(q[i]) => i < Len(q) /\ q[i + 1].op = "write" /\ ~Resets(q[i + 1])

EndsFreezes(q) ==
  \A i \in DOMAIN q : q[i] = Freeze(TRUE) =>
    /\ i + 2 < Len(q) /\ q[i + 1] = Do("pkt_cnt") /\ q[i + 2] = Do("byte_cnt")
    /\ q[i + 3] = Freeze(FALSE)

StartsAgain(q) ==
  \A i, j \in DOMAIN q : i < j /\ Resets(q[i]) /\ q[j].op = "show"
    => \E k \in i .. j : q[k].op = "start"

ShowsWhatItRead(q) ==
  \A i \in DOMAIN q : q[i].op = "show" =>
    /\ i > 3 /\ q[i - 3] = Do("pkt_cnt") /\ q[i - 2] = Do("byte_cnt")
    /\ q[i - 1] = Freeze(FALSE)

StartsAfterResets(s) ==
  \E d \in Programs :
    /\ \A p \in Programs \ {d} : s[p] = <<>>
    /\ EndsResets(s[d]) /\ EndsFreezes(s[d]) /\ StartsAgain(s[d]) /\ ShowsWhatItRead(s[d])

(* How scripts use the filter.  After k steps of q the program's own row e *)
(* is v: the last step to change it was a file that names v, or a clear.   *)
Changes(step, e) == step = At("clear", e) \/ (step.op = "asks" /\ step.rules[e] # "ones")

Chosen(q, k, e, v) ==
  \E i \in 1 .. k :
    /\ \/ q[i] = At("clear", e) /\ v = "ones"
       \/ q[i].op = "asks" /\ q[i].rules[e] = v /\ v # "ones"
    /\ \A j \in i + 1 .. k : ~Changes(q[j], e)

(* And so is the row on the card: when it was last written, its columns    *)
(* came right before its address.                                          *)
WritesRow(q, i, e) ==
  /\ q[i] = At("wr_addr", e) /\ i > Len(Columns)
  /\ \A c \in 1 .. Len(Columns) : q[i - Len(Columns) + c - 1] = Column(Columns[c], e)

Stored(q, k, e, v) ==
  \E i \in 1 .. k : /\ WritesRow(q, i, e) /\ Chosen(q, i, e, v)
                    /\ \A j \in i + 1 .. k : q[j] # At("wr_addr", e)

(* One program sets the filter; the others only show statistics.  Each row *)
(* it reads back it has written.                                           *)
ReadsBack(q) ==
  \A i \in DOMAIN q : q[i].op = "get" =>
    LET e == q[i].entry IN
    /\ i > 1 /\ q[i - 1] = At("rd_addr", e)
    /\ \E v \in Rules \cup {"ones", "zeros"} : Chosen(q, i, e, v) /\ Stored(q, i, e, v)

SetsFilter(s, d) ==
  /\ \A p \in Programs \ {d} : \A i \in DOMAIN s[p] :
       s[p][i].op \in {"start", "freeze", "pkt_cnt", "byte_cnt", "show"}
  /\ ReadsBack(s[d])

(* The filter it asks for last is in its tables and on the card at the end. *)
LoadsFilter(s) ==
  \E d \in Programs :
    /\ SetsFilter(s, d)
    /\ \E a \in DOMAIN s[d] :
         /\ s[d][a].op = "asks" /\ \A i \in DOMAIN s[d] : s[d][i].op = "asks" => i <= a
         /\ \A e \in Rows : LET v == s[d][a].rules[e] IN
              Chosen(s[d], Len(s[d]), e, v) /\ Stored(s[d], Len(s[d]), e, v)

(* A row is written before it first holds a rule of a file, or for the    *)
(* first time with one; or by a program that is alone, under the drop, or  *)
(* where the row was cleared.                                              *)
Dropping(q, i) ==
  \E k \in 1 .. i - 1 :
    q[k].op = "drop" /\ \A j \in k + 1 .. i - 1 : q[j].op \notin {"write", "undrop"}

NoneAsked(q, k) == \A i \in 1 .. k : q[i].op # "asks"

SparesRules(s) ==
  \E d \in Programs :
    /\ SetsFilter(s, d)
    /\ \A i \in DOMAIN s[d] : s[d][i].op = "wr_addr" =>
         \/ \A j \in 1 .. i - 1 : s[d][j] = s[d][i] => NoneAsked(s[d], j)
         \/ /\ \A p \in Programs \ {d} : s[p] = <<>>
            /\ \/ Dropping(s[d], i)
               \/ Stored(s[d], i - 1, s[d][i].entry, "ones")

-----------------------------------------------------------------------------
(* The steps.  The step of program p, and what it leaves alone.            *)
StepOf(p, op) == script[p] # <<>> /\ Head(script[p]).op = op
Arg(p) == Head(script[p])

(* A clock edge passes between two accesses.                               *)
After(p) ==
  /\ script[p] # <<>> /\ ticked
  /\ script' = [script EXCEPT ![p] = Tail(@)] /\ ticked' = FALSE

StartProgram(p) ==
  /\ StepOf(p, "start")
  /\ seen' = [seen EXCEPT ![p] = NoCounts] /\ old' = [old EXCEPT ![p] = NoCounts]
  /\ rate' = [rate EXCEPT ![p] = 0]
  /\ UNCHANGED <<tables, rd_value, wanted, control, freezing, filter>>

ReadControl(p) ==
  /\ StepOf(p, "read") /\ rd_value' = [rd_value EXCEPT ![p] = control]
  /\ UNCHANGED <<tables, seen, old, rate, wanted, control, freezing, filter>>

(* An access to no core is answered with zeroes (decode error).            *)
ReadUnmapped(p) ==
  /\ StepOf(p, "read_unmapped")
  /\ rd_value' = [rd_value EXCEPT ![p] = Control(FALSE, FALSE, FALSE)]
  /\ UNCHANGED <<tables, seen, old, rate, wanted, control, freezing, filter>>

WriteControl_notKept(p) ==
  /\ \/ StepOf(p, "write") /\ control' = Arg(p).val
     \/ StepOf(p, "drop") /\ control' = rd_value[p]
     \/ StepOf(p, "undrop") /\ control' = [rd_value[p] EXCEPT !.force_drop = FALSE]
  /\ UNCHANGED <<tables, rd_value, seen, old, rate, wanted, freezing, filter>>

WriteControl(p) ==
  /\ \/ StepOf(p, "write") /\ control' = Arg(p).val
     \/ StepOf(p, "drop") /\ control' = [rd_value[p] EXCEPT !.force_drop = TRUE]
     \/ StepOf(p, "undrop") /\ control' = [rd_value[p] EXCEPT !.force_drop = FALSE]
  /\ UNCHANGED <<tables, rd_value, seen, old, rate, wanted, freezing, filter>>

WriteFreeze(p) ==
  /\ StepOf(p, "freeze") /\ stats_freeze' = Arg(p).val
  /\ freezers' = IF Arg(p).val THEN freezers \cup {p} ELSE {}
  /\ UNCHANGED <<tables, rd_value, seen, old, rate, wanted, control, filter>>

(* The program fills its own tables: for a file, or with the cleared rule. *)
FillTables_absentZero(p) ==
  /\ \/ /\ StepOf(p, "asks")
        /\ wanted' = Arg(p).rules
        /\ tables' = [tables EXCEPT ![p] = [e \in Rows |->
             IF Arg(p).rules[e] = "ones" THEN Row("zeros") ELSE Row(Arg(p).rules[e])]]
     \/ /\ StepOf(p, "clear")
        /\ tables' = [tables EXCEPT ![p][Arg(p).entry] = Row("ones")]
        /\ UNCHANGED wanted
  /\ UNCHANGED <<rd_value, seen, old, rate, control, freezing, filter>>

FillTables(p) ==
  /\ \/ /\ StepOf(p, "asks")
        /\ wanted' = Arg(p).rules
        /\ tables' = [tables EXCEPT ![p] = [e \in Rows |->
             IF Arg(p).rules[e] = "ones" THEN @[e] ELSE Row(Arg(p).rules[e])]]
     \/ /\ StepOf(p, "clear")
        /\ tables' = [tables EXCEPT ![p][Arg(p).entry] = Row("ones")]
        /\ UNCHANGED wanted
  /\ UNCHANGED <<rd_value, seen, old, rate, control, freezing, filter>>

(* ipif_table_regs: the columns collect in the write port; the address     *)
(* moves them to the table, or a row of the table to the read port.        *)
AccessTable(p) ==
  /\ \/ /\ StepOf(p, "column")
        /\ wr_port' = [wr_port EXCEPT ![Arg(p).col] = tables[p][Arg(p).entry][Arg(p).col]]
        /\ UNCHANGED <<tables, table, rd_port>>
     \/ /\ StepOf(p, "wr_addr")
        /\ table' = [table EXCEPT ![Arg(p).entry] = wr_port]
        /\ UNCHANGED <<tables, wr_port, rd_port>>
     \/ /\ StepOf(p, "rd_addr")
        /\ rd_port' = table[Arg(p).entry]
        /\ UNCHANGED <<tables, wr_port, table>>
     \/ /\ StepOf(p, "get")
        /\ tables' = [tables EXCEPT ![p][Arg(p).entry] = rd_port]
        /\ UNCHANGED filter
  /\ UNCHANGED <<rd_value, seen, old, rate, wanted, control, freezing>>

ReadStats(p) ==
  /\ \/ StepOf(p, "pkt_cnt") /\ seen' = [seen EXCEPT ![p] =
          [counts_tmp EXCEPT !.bytes = seen[p].bytes]]
     \/ StepOf(p, "byte_cnt") /\ seen' = [seen EXCEPT ![p].bytes = counts_tmp.bytes]
  /\ UNCHANGED <<tables, rd_value, old, rate, wanted, control, freezing, filter>>

(* The packets since the counters were shown before; a smaller count than  *)
(* before is taken for a counter that has wrapped.                         *)
Difference_noWrap(new, before) == new - before

Difference(new, before) == IF new >= before THEN new - before ELSE new + (Width - before)

ShowStats(p) ==
  /\ StepOf(p, "show")
  /\ rate' = [rate EXCEPT ![p] = Difference(seen[p].pkts, old[p].pkts)]
  /\ old' = [old EXCEPT ![p] = seen[p]]
  /\ UNCHANGED <<tables, rd_value, seen, wanted, control, freezing, filter>>

Step(p) ==
  /\ After(p)
  /\ \/ StartProgram(p)
     \/ ReadControl(p) \/ ReadUnmapped(p) \/ WriteControl(p) \/ WriteFreeze(p)
     \/ FillTables(p) \/ AccessTable(p) \/ ReadStats(p) \/ ShowStats(p)
  /\ UNCHANGED <<statistics, lost>>

(* The driver refuses an access while it serves another program's (EBUSY). *)
(* wraxi's exit status is not looked at: the write is lost.  The text that *)
(* rdaxi then prints is no number, and int() ends the program.             *)
Writes == {"write", "drop", "undrop", "freeze", "column", "wr_addr", "rd_addr"}
Reads == {"read", "read_unmapped", "get", "pkt_cnt", "byte_cnt"}

Refused(p) ==
  /\ \E q \in Programs \ {p} : script[q] # <<>> /\ Arg(q).op \in Writes \cup Reads
  /\ script[p] # <<>>
  /\ \/ Arg(p).op \in Writes /\ script' = [script EXCEPT ![p] = Tail(@)]
     \/ Arg(p).op \in Reads  /\ script' = [script EXCEPT ![p] = <<>>]
  /\ lost' = TRUE
  /\ UNCHANGED <<tables, rd_value, seen, old, rate, wanted, control, freezing,
                 filter, statistics, ticked>>

-----------------------------------------------------------------------------
(* stats_handler: one clock edge, with or without a packet.  rst_stats     *)
(* holds the counters at zero; the registers the host reads follow them    *)
(* one clock behind, unless they are frozen or rst_stats is high.          *)
Counted(b) ==
  [counts EXCEPT !.pkts = (@ + 1) % Width, !.bytes = (@ + b) % Width, !.n = @ + 1]

counts_tmp_next_live == counts

counts_tmp_next == IF stats_freeze THEN counts_tmp ELSE counts

Tick(pkt_valid) ==
  /\ pkt_valid => counts.n < MaxPackets
  /\ counts' = CASE control.rst_stats -> [NoCounts EXCEPT !.n = counts.n, !.base = counts.n]
                 [] ~control.rst_stats /\ pkt_valid  -> Counted(PacketBytes)
                 [] ~control.rst_stats /\ ~pkt_valid -> counts
  /\ counts_tmp' = IF control.rst_stats THEN counts_tmp ELSE counts_tmp_next
  /\ ticked' = TRUE
  /\ UNCHANGED <<programs, control, freezing, filter>>

Next == (\E p \in Programs : Step(p) \/ Refused(p)) \/ (\E pkt_valid \in BOOLEAN : Tick(pkt_valid))

Spec == Init /\ [][Next]_vars

-----------------------------------------------------------------------------
TypeOK ==
  /\ table \in [Rows -> [ToSet(Columns) -> Rules \cup {"ones", "zeros"}]]
  /\ wr_port \in [ToSet(Columns) -> Rules \cup {"ones", "zeros"}]
  /\ control \in [rst_stats : BOOLEAN, force_drop : BOOLEAN, tuple_pkt_en : BOOLEAN]
  /\ counts.pkts \in 0 .. Width - 1 /\ counts.bytes \in 0 .. Width - 1

(* When the programs are done and no access was refused, the filter table  *)
(* holds the filter that was asked for last, and the tables a program read *)
(* back (the synchronisation synch_rules promises) agree with it.  A       *)
(* program that only shows statistics keeps those of its start.            *)
Done == \A p \in Programs : script[p] = <<>>

FilterIsWanted ==
  Done /\ ~lost =>
    /\ table = Filter(wanted)
    /\ \A p \in Programs : tables[p] \in {Filter(PowerOnFilter), Filter(ClearedFilter), table}

(* "Makesure to drop packets as rules are not updated" (clear_rules): as   *)
(* long as the table is not the filter asked for, packets are dropped.     *)
DropWhileUpdating == table # Filter(wanted) => control.force_drop

(* A rule in force is never replaced or removed while packets are let      *)
(* through: clear_rules forces the drop before it touches the table, and   *)
(* set_rules, which lifts it first, only fills rows that are cleared.  So  *)
(* too if columns are refused, and the row holds a mixture.                *)
NoRule(row) == \A c \in ToSet(Columns) : row[c] \in {"ones", "zeros"}

NoRuleSwappedLive ==
  [][ ~control.force_drop =>
        \A e \in Rows : table'[e] # table[e] => NoRule(table[e]) ]_vars

(* The counters one get_stats has read belong to one instant, though they  *)
(* are read one by one while packets are counted, and wrap: however many   *)
(* programs read them and whatever the driver refuses, as long as the      *)
(* freeze the program has written is still in force when it lifts it.      *)
Read(p) == StepOf(p, "freeze") /\ ~Arg(p).val

OneInstant(p) == seen[p].bytes = (seen[p].pkts * PacketBytes) % Width

SnapshotConsistent == \A p \in Programs : Read(p) /\ p \in freezers => OneInstant(p)

(* The counters belong to one instant whenever no access was refused.  Two *)
(* programs that read them break it: there is one stats_freeze, and the    *)
(* first to be done lifts it for both (get_stats in monitor.py).           *)
SnapshotUnlessRefused == \A p \in Programs : Read(p) /\ ~lost => OneInstant(p)

(* The packets a display says have come are those counted since the        *)
(* display before or, if that is later, since the counters were reset; as  *)
(* long as fewer than Width have.                                          *)
Since(new, before) == new.n - (IF before.n > new.base THEN before.n ELSE new.base)

RateRight ==
  [][ \A p \in Programs :
        (StepOf(p, "show") /\ script'[p] # script[p] /\ Since(seen[p], old[p]) < Width)
           => rate'[p] = Since(seen[p], old[p]) ]_vars
=============================================================================
