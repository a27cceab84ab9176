-------------------------- MODULE PcapReplayEngine --------------------------
(***************************************************************************)
(* osnt_sume_bram_pcap_replay_uengine.v: the traffic generator of the card.*)
(* Each queue has a write machine that stores the packets the host sends   *)
(* to its interface in a block RAM, a read machine that replays the RAM    *)
(* into a FIFO a number of times, and an output machine that moves the     *)
(* FIFO to the port.  The four copies in the source are one definition     *)
(* here, indexed by the queue.  The bypass (conf_path) is left out: no     *)
(* tool of the repository writes its register.                             *)
(*                                                                         *)
(* One action, Clock, is one edge of axis_aclk; the registers sw_rst,      *)
(* start_replay, replay_count and wr_done are written by the host between  *)
(* edges.  A RAM cell is one bus word with its marks.                      *)
(***************************************************************************)
EXTENDS Integers, Sequences, SequencesExt

CONSTANTS
  Queues,     \* the generator's queues, one per port
  MemSize,    \* the cells of a queue's RAM: addresses wrap at it
  FifoDepth   \* the ring size of a queue's fallthrough_small_fifo

ASSUME EngineAssumption ==
  /\ MemSize \in Nat /\ MemSize > 2
  /\ FifoDepth \in Nat /\ FifoDepth > 1

VARIABLES
  sw_rst, start_replay, replay_count, wr_done,   \* written by the host
  st_wr, wr_addr, wr_port,                       \* write machine, RAM write port
  mem, dina,                                     \* RAM and its output register
  st_rd, rd_addr, count,                         \* read machine
  r_start, r_rden, r_nearly_full,                \* delayed copies of wires
  fifo, st_m,                                    \* FIFO and output machine
  promised, sent                                 \* history: words owed, words out

registers == <<sw_rst, start_replay, replay_count, wr_done>>
machines == <<st_wr, wr_addr, wr_port, mem, dina, st_rd, rd_addr, count,
              r_start, r_rden, r_nearly_full, fifo, st_m>>
engineVars == <<registers, machines, promised, sent>>

-----------------------------------------------------------------------------
(* RAM cells: a packet word, the end mark, or nothing.                     *)
Cell(valid, end, last, id) == [valid |-> valid, end |-> end, last |-> last, id |-> id]
Word(id, last) == Cell(TRUE, FALSE, last, id)
EndMark == Cell(FALSE, TRUE, FALSE, 0)
Nil == Cell(FALSE, FALSE, FALSE, 0)

NoWord == [port |-> "none", word |-> Nil]   \* s_axis_tvalid low

Addresses == 0 .. MemSize - 1

Inc(a) == (a + 1) % MemSize

NoWrite == [en |-> FALSE, addr |-> 0, data |-> Nil]

EngineInit ==
  /\ sw_rst = FALSE
  /\ start_replay = [q \in Queues |-> FALSE]
  /\ replay_count = [q \in Queues |-> 0]
  /\ wr_done = [q \in Queues |-> FALSE]
  /\ st_wr = [q \in Queues |-> "IDLE"] /\ wr_addr = [q \in Queues |-> 1]
  /\ wr_port = [q \in Queues |-> NoWrite]
  /\ mem = [q \in Queues |-> [a \in Addresses |-> Nil]]
  /\ dina = [q \in Queues |-> Nil]
  /\ st_rd = [q \in Queues |-> "IDLE"] /\ rd_addr = [q \in Queues |-> 1]
  /\ count = [q \in Queues |-> 0]
  /\ r_start = [q \in Queues |-> FALSE] /\ r_rden = [q \in Queues |-> FALSE]
  /\ r_nearly_full = [q \in Queues |-> FALSE]
  /\ fifo = [q \in Queues |-> <<>>] /\ st_m = [q \in Queues |-> "IDLE"]
  /\ promised = [q \in Queues |-> <<>>] /\ sent = [q \in Queues |-> <<>>]

-----------------------------------------------------------------------------
(* The write machine of queue q, with `bus' the word on the shared stream: *)
(* IDLE takes a word of the queue's own interface; WR takes every word     *)
(* until wr_done, then stores the end mark and, in DONE, an empty cell.  A  *)
(* definition named X_... is a plausible slip in X, kept to show that the  *)
(* properties of PacketGenerator notice it.                                *)

Takes_anyPort(q, bus) == bus.word.valid

Takes(q, bus) == bus.word.valid /\ (st_wr[q] = "WR" \/ bus.port = q)

WriteData(q, bus) ==
  CASE st_wr[q] = "WR" /\ sw_rst -> Nil
    [] st_wr[q] = "WR" /\ ~sw_rst /\ wr_done[q] -> EndMark
    [] st_wr[q] = "DONE" -> Nil
    [] OTHER -> bus.word

Writes(q, bus) ==
  CASE st_wr[q] = "IDLE" -> Takes(q, bus)
    [] st_wr[q] = "WR"   -> sw_rst \/ wr_done[q] \/ Takes(q, bus)
    [] st_wr[q] = "DONE" -> TRUE

WriteStateNext(q, bus) ==
  CASE sw_rst -> "IDLE"
    [] st_wr[q] = "IDLE" /\ ~sw_rst -> IF Takes(q, bus) THEN "WR" ELSE "IDLE"
    [] st_wr[q] = "WR" /\ ~sw_rst   -> IF wr_done[q] THEN "DONE" ELSE "WR"
    [] st_wr[q] = "DONE" /\ ~sw_rst -> "IDLE"

WriteAddrNext(q, bus) ==
  IF sw_rst \/ st_wr[q] = "DONE" THEN 1
  ELSE IF Writes(q, bus) THEN Inc(wr_addr[q])
  ELSE IF st_wr[q] = "WR" THEN wr_addr[q] ELSE 1

WriteMachines(bus) ==
  /\ st_wr' = [q \in Queues |-> WriteStateNext(q, bus)]
  /\ wr_addr' = [q \in Queues |-> WriteAddrNext(q, bus)]
  /\ wr_port' = [q \in Queues |-> [en |-> Writes(q, bus), addr |-> wr_addr[q],
                   data |-> IF Writes(q, bus) THEN WriteData(q, bus) ELSE Nil]]

-----------------------------------------------------------------------------
(* The read machine.  nf[q] is the FIFO's nearly_full in this cycle.       *)

StartPulse(q) == start_replay[q] /\ ~r_start[q]

Begins_offByOne(q, nf) ==
  st_rd[q] = "IDLE" /\ StartPulse(q) /\ ~nf[q] /\ replay_count[q] > 1

Begins(q, nf) ==
  st_rd[q] = "IDLE" /\ StartPulse(q) /\ ~nf[q] /\ replay_count[q] # 0

Reading(q) == st_rd[q] = "RD" /\ ~sw_rst

AtEnd(q, nf) == Reading(q) /\ dina[q].end /\ ~nf[q]

ReadEnable(q, nf) == Begins(q, nf) \/ (Reading(q) /\ ~nf[q])

Again(q) == count[q] + 1 < replay_count[q]

ReadAddrNext(q, nf) ==
  IF sw_rst \/ AtEnd(q, nf) THEN 1
  ELSE IF ReadEnable(q, nf) THEN Inc(rd_addr[q])
  ELSE IF Reading(q) THEN rd_addr[q] ELSE 1

CountNext(q, nf) ==
  IF ~Reading(q) THEN 0
  ELSE IF AtEnd(q, nf) THEN (IF Again(q) THEN count[q] + 1 ELSE 0)
  ELSE count[q]

ReadStateNext(q, nf) ==
  IF \/ Begins(q, nf) /\ ~sw_rst
     \/ Reading(q) /\ (AtEnd(q, nf) => Again(q))
  THEN "RD" ELSE "IDLE"

ReadMachines(nf) ==
  /\ rd_addr' = [q \in Queues |-> ReadAddrNext(q, nf)]
  /\ count' = [q \in Queues |-> CountNext(q, nf)]
  /\ st_rd' = [q \in Queues |-> ReadStateNext(q, nf)]
  /\ r_start' = start_replay
  /\ r_rden' = [q \in Queues |-> ReadEnable(q, nf)]
  /\ r_nearly_full' = nf

(* One RAM port: a write has priority over the read address, and a read or *)
(* a write loads the output register with the old contents of the cell.    *)
Memory(nf) ==
  /\ dina' = [q \in Queues |->
                IF wr_port[q].en THEN mem[q][wr_port[q].addr]
                ELSE IF ReadEnable(q, nf) THEN mem[q][rd_addr[q]]
                ELSE dina[q]]
  /\ mem' = [q \in Queues |->
               IF wr_port[q].en
               THEN [mem[q] EXCEPT ![wr_port[q].addr] = wr_port[q].data]
               ELSE mem[q]]

-----------------------------------------------------------------------------
(* The FIFO, as the bounded queue FallthroughFifo implements: its flag     *)
(* nearly_full counts the ring only, so up to three more words may wait in *)
(* the registers; words reach its output some edges after they went in.    *)

NearlyFull == {nf \in [Queues -> BOOLEAN] : \A q \in Queues :
                 /\ nf[q] => Len(fifo[q]) >= FifoDepth - 1
                 /\ Len(fifo[q]) >= FifoDepth + 2 => nf[q]}

(* A word enters the FIFO while reading goes on, or when nearly_full falls *)
(* and the word read before the pause is still on the RAM's output.        *)
Enters_notAfterPause(q, nf) ==
  dina[q].valid /\ ~nf[q] /\ r_rden[q] /\ ReadEnable(q, nf)

Enters(q, nf) ==
  /\ dina[q].valid /\ ~nf[q]
  /\ (r_rden[q] /\ ReadEnable(q, nf)) \/ r_nearly_full[q]

(* go[q]: the port is ready and the FIFO shows a word.                     *)
Leaves(q, go) == st_m[q] = "SEND" /\ go[q]

Fifos(nf, go) ==
  fifo' = [q \in Queues |->
            (IF Leaves(q, go) THEN Tail(fifo[q]) ELSE fifo[q])
              \o (IF Enters(q, nf) THEN <<dina[q]>> ELSE <<>>)]

OutputMachines_count(go) ==
  st_m' = [q \in Queues |->
            IF st_m[q] = "IDLE"
            THEN IF go[q] /\ count[q] # 0 THEN "SEND" ELSE "IDLE"
            ELSE IF go[q] /\ Head(fifo[q]).last THEN "IDLE" ELSE "SEND"]

OutputMachines(go) ==
  st_m' = [q \in Queues |->
            IF st_m[q] = "IDLE"
            THEN IF go[q] /\ replay_count[q] # 0 THEN "SEND" ELSE "IDLE"
            ELSE IF go[q] /\ Head(fifo[q]).last THEN "IDLE" ELSE "SEND"]

-----------------------------------------------------------------------------
(* The history: what a replay that begins now owes, and what has left.     *)
Repeat(words, n) ==
  [i \in 1 .. n * Len(words) |-> words[((i - 1) % Len(words)) + 1]]

History(nf, go, trace) ==
  /\ promised' = [q \in Queues |->
                    IF Begins(q, nf) /\ ~sw_rst
                    THEN promised[q] \o Repeat(trace[q], replay_count[q])
                    ELSE promised[q]]
  /\ sent' = [q \in Queues |->
                IF Leaves(q, go) THEN Append(sent[q], Head(fifo[q])) ELSE sent[q]]

(* One clock edge, with the stream's word, the FIFO flags and the ports'   *)
(* readiness of this cycle; `trace' is what the host last loaded.          *)
Clock(bus, nf, go, trace) ==
  /\ nf \in NearlyFull
  /\ \A q \in Queues : go[q] => fifo[q] # <<>>
  /\ WriteMachines(bus)
  /\ ReadMachines(nf)
  /\ Memory(nf)
  /\ Fifos(nf, go)
  /\ OutputMachines(go)
  /\ History(nf, go, trace)
  /\ UNCHANGED registers
=============================================================================
