---------------------------- MODULE GeneratorHost ----------------------------
(***************************************************************************)
(* The register and packet traffic of the host tools that drive the replay *)
(* engine: OSNTGeneratorPcapEngine in generator.py and the order in which  *)
(* osnt-tool-cmd.py and the GUI call it.  An operation is a sequence of    *)
(* steps; a step writes one register (a run of the wraxi program), sends a *)
(* packet through the network interface of a queue, or sleeps.             *)
(*                                                                         *)
(* The registers the engine ignores (mem_addr_low, mem_addr_high, enable)  *)
(* and all reads are left out.                                             *)
(***************************************************************************)
EXTENDS Integers, Sequences, SequencesExt

CONSTANT Ports   \* the interfaces nf0, nf1, ... in order, as a sequence

(* The steps. *)
WriteReg(reg, q, v) == [op |-> "write", reg |-> reg, q |-> q, val |-> v]

(* The packets of a trace one after the other, each with the words of the  *)
(* trace as far as it has been sent.                                       *)
SendTrace(q, packets) ==
  [i \in 1 .. Len(packets) |->
     [op |-> "send", q |-> q, packet |-> packets[i],
      trace |-> FlattenSeq(SubSeq(packets, 1, i))]]

Sleep == [op |-> "sleep"]      \* long enough for the packets sent so far to arrive
Watch == [op |-> "watch"]      \* the user waits until the generator has stopped

PerPort(steps(_)) == FlattenSeq([i \in 1 .. Len(Ports) |-> steps(Ports[i])])

set_reset(v) == <<WriteReg("rst", Ports[1], v)>>

(* Writes 1 and then 0 to every start register, whatever begin_replay says. *)
set_begin_replay ==
  PerPort(LAMBDA q : <<WriteReg("start", q, TRUE), WriteReg("start", q, FALSE)>>)

set_replay_cnt(cnt) == PerPort(LAMBDA q : <<WriteReg("count", q, cnt[q])>>)

(* pcaps: the loaded interfaces with their traces, in port order.  The    *)
(* loop over the dictionary `pkts' visits nf3 first and nf0 last, the order *)
(* Python 2 keeps these four keys in; only the interface it ended with     *)
(* gets wr_done.                                                           *)
load_pcap(pcaps) ==
  LET pkts == Reverse(pcaps)
      iface == Last(pkts)[1]
  IN set_reset(TRUE) \o set_begin_replay \o set_reset(FALSE)
       \o FlattenSeq([i \in 1 .. Len(pkts) |-> SendTrace(pkts[i][1], pkts[i][2])])
       \o <<Sleep, WriteReg("done", iface, TRUE), WriteReg("done", iface, FALSE)>>

run == set_begin_replay

stop_replay == set_begin_replay

clear ==
  set_reset(TRUE) \o set_begin_replay \o set_replay_cnt([q \in ToSet(Ports) |-> 0])
    \o set_reset(FALSE)

(* One call of osnt-tool-cmd.py: `loads' are its -ifp arguments, each a    *)
(* pair of a port and a trace, in port order.  Each is added to the table  *)
(* of traces and the whole table is loaded again; then the replay counts   *)
(* are set, to 0 for a port without -rpn; then -run.                       *)
Invocation(loads, cnt, runs) ==
  FlattenSeq([i \in 1 .. Len(loads) |-> load_pcap(SubSeq(loads, 1, i))])
    \o set_replay_cnt(cnt)
    \o (IF runs THEN run ELSE <<>>)
=============================================================================
