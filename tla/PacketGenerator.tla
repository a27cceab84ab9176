--------------------------- MODULE PacketGenerator ---------------------------
(***************************************************************************)
(* The replay engine driven by the host.  The host runs a script, one step *)
(* at a time; the packets it sends travel through the DMA channel and      *)
(* reach the engine in order, some clock edges later, while its register   *)
(* writes take another way and overtake them.                              *)
(***************************************************************************)
EXTENDS PcapReplayEngine, GeneratorHost

CONSTANTS
  Scripts,   \* the sequences of host steps to start from
  Drops      \* the driver may find its channel busy with the packet before

ASSUME PortsAssumption ==
  /\ ToSet(Ports) = Queues /\ Len(Ports) = Cardinality(Queues)
  /\ Drops \in BOOLEAN

(* The words of a packet, and the steps a script is made of.               *)
PacketWords == [valid : {TRUE}, end : {FALSE}, last : BOOLEAN, id : Nat]

Steps ==
  [op : {"write"}, reg : {"rst", "start", "done"}, q : Queues, val : BOOLEAN]
    \cup [op : {"write"}, reg : {"count"}, q : Queues, val : Nat]
    \cup [op : {"send"}, q : Queues, packet : Seq(PacketWords), trace : Seq(PacketWords)]
    \cup [op : {"sleep", "watch"}]

ASSUME ScriptAssumption == Scripts \subseteq Seq(Steps)

(* How load_pcap uses the engine when it loads one interface.  A packet it *)
(* sends is part of the trace; and before a packet is sent to another      *)
(* queue, it has slept and written the wr_done of the queue it sent to.    *)
SendsItsTrace(s) ==
  \A i \in DOMAIN s : s[i].op = "send" => ToSet(s[i].packet) \subseteq ToSet(s[i].trace)

Closes(step, q) == step.op = "write" /\ step.reg = "done" /\ step.q = q /\ step.val = TRUE

LoadsInTurn(s) ==
  \A i, j \in DOMAIN s :
    i < j /\ s[i].op = "send" /\ s[j].op = "send" /\ s[i].q # s[j].q =>
      \E k \in i .. j - 1 : s[k].op = "sleep" /\ Closes(s[k + 1], s[i].q)

(* How the host has to use the engine for its replays to be exact.  A use  *)
(* is what the host has written, and for each queue how far it has come:   *)
(* packets sent (loading), all arrived, wr_done raised (ended) and lowered *)
(* (closed), the end mark and the cell after it in the RAM (ready), a run  *)
(* begun (started) and watched until it has stopped (ready again).  A step *)
(* is allowed where the engine can follow it: one queue at a time takes    *)
(* the stream, a trace fits its RAM, wr_done is written when all words are *)
(* there, the reset spares what is loading or running, and the count of a  *)
(* running replay stays.  `Starts' is the only write that begins one.      *)
Stages == {"new", "loading", "arrived", "ended", "closed", "ready", "started"}

Busy == {"loading", "arrived", "ended"}

WritesTo(x, reg, q) == x.op = "write" /\ x.reg = reg /\ x.q = q

Starts(use, x, q) == WritesTo(x, "start", q) /\ x.val /\ ~use.rst /\ use.count[q] # 0

Allowed(use, x) ==
  /\ x.op = "send" =>
       /\ use.stage[x.q] \in {"new", "ready", "loading"} /\ ~use.rst
       /\ \A q \in Queues \ {x.q} : use.stage[q] \notin Busy
       /\ x.packet # <<>> /\ Len(x.trace) + 2 <= MemSize
       /\ x.trace = IF use.stage[x.q] = "loading" THEN use.trace[x.q] \o x.packet ELSE x.packet
  /\ x.op = "write" /\ x.reg = "rst" /\ x.val = TRUE =>
       \A q \in Queues : use.stage[q] \in {"new", "closed", "ready"}
  /\ x.op = "write" /\ x.reg = "done" =>
       use.stage[x.q] = IF x.val THEN "arrived" ELSE "ended"
  /\ x.op = "write" /\ x.reg = "count" => use.stage[x.q] # "started"
  /\ x.op = "write" /\ x.reg = "start" /\ x.val = TRUE /\ ~use.rst /\ use.count[x.q] # 0 =>
       use.stage[x.q] \in {"ready", "started"}

StageAfter(use, x, q) ==
  LET stage == use.stage[q] IN
  CASE x.op = "send" /\ x.q = q                -> "loading"
    [] x.op = "sleep" /\ stage = "loading"     -> "arrived"
    [] x.op = "watch" /\ stage = "started"     -> "ready"
    [] WritesTo(x, "done", q)                  -> IF x.val THEN "ended" ELSE "closed"
    [] Starts(use, x, q)                       -> "started"
    [] OTHER                                   -> IF stage = "closed" THEN "ready" ELSE stage

After(use, x) ==
  [stage |-> [q \in Queues |-> StageAfter(use, x, q)],
   rst   |-> IF x.op = "write" /\ x.reg = "rst" THEN x.val ELSE use.rst,
   count |-> [q \in Queues |-> IF WritesTo(x, "count", q) THEN x.val ELSE use.count[q]],
   trace |-> [q \in Queues |-> IF x.op = "send" /\ x.q = q THEN x.trace ELSE use.trace[q]]]

Unused ==
  [stage |-> [q \in Queues |-> "new"], rst |-> FALSE,
   count |-> [q \in Queues |-> 0], trace |-> [q \in Queues |-> <<>>]]

(* The uses a script makes of the engine, before each of its steps.        *)
Uses(s) ==
  LET use[i \in 1 .. Len(s) + 1] == IF i = 1 THEN Unused ELSE After(use[i - 1], s[i - 1])
  IN use

Along(s, use, uses) ==
  /\ uses[1] = use
  /\ \A i \in DOMAIN s : Allowed(uses[i], s[i]) /\ uses[i + 1] = After(uses[i], s[i])

UsesInOrder(s) == Along(s, Unused, Uses(s))

VARIABLES
  script,    \* the host steps still to do
  dma,       \* packet words on their way to the engine, with their port
  trace,     \* history: the trace last loaded for each queue
  loaded,    \* history: every trace loaded for each queue
  ticked     \* a clock edge has passed since the host's last step

vars == <<engineVars, script, dma, trace, loaded, ticked>>

Init ==
  /\ EngineInit
  /\ script \in Scripts
  /\ dma = <<>> /\ ticked = TRUE
  /\ trace = [q \in Queues |-> <<>>] /\ loaded = [q \in Queues |-> {}]

-----------------------------------------------------------------------------
(* Host steps.  Each is a run of a program on the host and takes far longer *)
(* than a clock period, so an edge passes between any two.                 *)

HostStep(op) ==
  /\ script # <<>> /\ Head(script).op = op
  /\ ticked /\ ticked' = FALSE
  /\ script' = Tail(script)

WriteRegister ==
  /\ HostStep("write")
  /\ LET w == Head(script)
         Set(r, name) == IF w.reg = name THEN [r EXCEPT ![w.q] = w.val] ELSE r
     IN /\ sw_rst' = IF w.reg = "rst" THEN w.val ELSE sw_rst
        /\ start_replay' = Set(start_replay, "start")
        /\ replay_count' = Set(replay_count, "count")
        /\ wr_done' = Set(wr_done, "done")
  /\ UNCHANGED <<machines, promised, sent, dma, trace, loaded>>

(* sume_start_xmit: a packet is handed to the card's DMA engine, or, while *)
(* the channel is still busy with the one before, dropped; the program is  *)
(* told it was sent in both cases.                                         *)
SendPacket ==
  /\ HostStep("send")
  /\ LET s == Head(script)
         onWay == [i \in 1 .. Len(s.packet) |-> [port |-> s.q, word |-> s.packet[i]]]
     IN /\ \/ dma' = dma \o onWay
           \/ Drops /\ dma # <<>> /\ UNCHANGED dma
        /\ trace' = [trace EXCEPT ![s.q] = s.trace]
        /\ loaded' = [loaded EXCEPT ![s.q] = @ \union {s.trace}]
  /\ UNCHANGED engineVars

SleepStep ==
  /\ HostStep("sleep") /\ dma = <<>>
  /\ UNCHANGED <<engineVars, dma, trace, loaded>>

Idle == \A q \in Queues :
  /\ st_rd[q] = "IDLE" /\ ~r_rden[q] /\ ~r_nearly_full[q]
  /\ fifo[q] = <<>> /\ st_m[q] = "IDLE"

WatchStep ==
  /\ HostStep("watch") /\ Idle /\ ~\E q \in Queues : StartPulse(q)
  /\ UNCHANGED <<engineVars, dma, trace, loaded>>

Host == WriteRegister \/ SendPacket \/ SleepStep \/ WatchStep

(* A clock edge, with or without the next word of the DMA channel.         *)
Edge(arrives, nf, go) ==
  /\ arrives => dma # <<>>
  /\ Clock(IF arrives THEN Head(dma) ELSE NoWord, nf, go, trace)
  /\ dma' = IF arrives THEN Tail(dma) ELSE dma
  /\ ticked' = TRUE
  /\ UNCHANGED <<script, trace, loaded>>

Hardware == \E arrives \in BOOLEAN, nf, go \in [Queues -> BOOLEAN] : Edge(arrives, nf, go)

Next == Host \/ Hardware

Spec == Init /\ [][Next]_vars

(* The clock and the host go on; the DMA channel delivers; a port that has *)
(* a word to send is ready again and again.                                *)
Delivery == \E nf, go \in [Queues -> BOOLEAN] : Edge(TRUE, nf, go)
Departure(q) == \E arrives \in BOOLEAN, nf, go \in [Queues -> BOOLEAN] :
                  go[q] /\ Edge(arrives, nf, go)

FairSpec ==
  /\ Spec
  /\ WF_vars(Host) /\ WF_vars(Hardware) /\ WF_vars(Delivery)
  /\ \A q \in Queues : WF_vars(Departure(q))

-----------------------------------------------------------------------------
TypeOK ==
  /\ sw_rst \in BOOLEAN
  /\ start_replay \in [Queues -> BOOLEAN] /\ wr_done \in [Queues -> BOOLEAN]
  /\ replay_count \in [Queues -> Nat] /\ count \in [Queues -> Nat]
  /\ st_wr \in [Queues -> {"IDLE", "WR", "DONE"}]
  /\ st_rd \in [Queues -> {"IDLE", "RD"}] /\ st_m \in [Queues -> {"IDLE", "SEND"}]
  /\ wr_addr \in [Queues -> Addresses] /\ rd_addr \in [Queues -> Addresses]

(* What a port has sent is always a beginning of what the host asked for:  *)
(* the loaded trace, whole and in order, as often as -rpn says, with no    *)
(* word lost or repeated however the port, the FIFO and the host are timed.*)
ReplayExact == \A q \in Queues : IsPrefix(sent[q], promised[q])

(* Every word a port sends belongs to a trace loaded for that port.        *)
OwnTraceOnly ==
  \A q \in Queues : ToSet(sent[q]) \subseteq UNION {ToSet(t) : t \in loaded[q]}

(* Inside a packet, a word is followed by the word that follows it in the  *)
(* trace: no packet leaves truncated or glued to another.                  *)
Follows(v, w, t) == \E i \in 1 .. Len(t) - 1 : t[i] = v /\ t[i + 1] = w

PacketsIntact ==
  \A q \in Queues : \A i \in 1 .. Len(sent[q]) - 1 :
    sent[q][i].last \/ \E t \in loaded[q] : Follows(sent[q][i], sent[q][i + 1], t)

(* Without a call of run no port sends anything.                           *)
NothingSent == \A q \in Queues : sent[q] = <<>>

(* Everything a replay owes is sent in the end, if the ports are ready     *)
(* again and again: no pause, wrap or restart leaves a word behind.        *)
ReplayCompletes == \A q \in Queues : sent[q] # promised[q] ~> sent[q] = promised[q]

(* A start pulse seen by an idle queue that has sent all it owes starts a  *)
(* replay: nothing left over in the FIFO or its flags swallows the pulse.  *)
StartTaken == [][ \A q \in Queues :
    (/\ ticked' /\ StartPulse(q) /\ st_rd[q] = "IDLE" /\ sent[q] = promised[q]
     /\ replay_count[q] # 0 /\ ~sw_rst)
      => st_rd'[q] = "RD" ]_vars
=============================================================================
