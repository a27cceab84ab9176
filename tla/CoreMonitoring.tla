--------------------------- MODULE CoreMonitoring ---------------------------
(***************************************************************************)
(* core_monitoring.v: the capture path of the card.  A packet from the     *)
(* ports goes into pkt_fifo while a parser reads its header; the parser's  *)
(* result travels through the lookup pipeline to the TCAM and comes back   *)
(* as a decision in hit_fifo; a second parser puts the packet's tuple in   *)
(* tuple_pkt_fifo.  The output machine takes packet, decision and tuple    *)
(* from the three FIFOs and relies on their being of the same packet.      *)
(*                                                                         *)
(* One action, Clock, is one edge of axi_aclk; WriteControl is the host's  *)
(* write of the register with force_drop and tuple_pkt_en.  Whether the    *)
(* TCAM matches a packet (or debug_mode says to take it) is chosen once    *)
(* per packet.  The FIFOs are the bounded queues FallthroughFifo is shown  *)
(* to implement.                                                           *)
(***************************************************************************)
EXTENDS Integers, Sequences, SequencesExt

CONSTANTS
  Packets,       \* the number of packets that arrive
  Lengths,       \* how many bus words a packet may have
  FifoDepth,     \* the ring size of the three FIFOs
  LookupStages,  \* clock edges from a packet's second word to its decision
  TupleStages,   \* the same for its tuple
  Controls       \* the host's writes: pairs of control values, before and after

(* An Ethernet frame has 60 bytes or more, two words of the bus.           *)
ASSUME LengthAssumption == Packets \in Nat /\ \A n \in Lengths : n \in Nat /\ n >= 2
ASSUME StagesAssumption == LookupStages \in Nat \ {0} /\ TupleStages \in Nat \ {0}

(* pkt_fifo (256 words) holds more words than arrive while a decision is on *)
(* its way (9 edges in the source, 4 for a tuple).                         *)
ASSUME DepthAssumption ==
  FifoDepth \in Nat /\ FifoDepth > LookupStages + 2 /\ TupleStages <= LookupStages

ControlValues == [force_drop : BOOLEAN, tuple_pkt_en : BOOLEAN]
ASSUME ControlAssumption == Controls \subseteq [before : ControlValues, after : ControlValues]

(* Two kinds of host: force_drop, once set, stays set (the tools of the   *)
(* repository clear it only in set_rules, MCCoreMonitoring); tuple_pkt_en   *)
(* is left alone.                                                          *)
DropStays == \A c \in Controls : c.before.force_drop => c.after.force_drop
TuplesStay == \A c \in Controls : c.before.tuple_pkt_en = c.after.tuple_pkt_en

VARIABLES
  stream,                  \* the place of the next word to come on s_axis
  length, matches,         \* the packets' lengths; those the TCAM matches
  force_drop, tuple_pkt_en,             \* written by the host
  parser, parsed,          \* the header parser: its state, the packet it is in
  lookups, tuples,         \* the two pipelines, as shift registers
  pkt_fifo, hit_fifo, tuple_pkt_fifo,
  dout,                    \* what pkt_fifo shows when it is empty: its last word
  state,                   \* the output machine
  out                      \* history: the words that have left on m_axis

control == <<force_drop, tuple_pkt_en>>
path == <<stream, parser, parsed, lookups, tuples, pkt_fifo, hit_fifo,
          tuple_pkt_fifo, dout, state, out>>
traffic == <<length, matches>>
vars == <<control, path, traffic>>

-----------------------------------------------------------------------------
Ids == 1 .. Packets
None == 0                            \* an empty stage of a pipeline

Word(p, n, last) == [pkt |-> p, word |-> n, last |-> last]
TupleWord(p, last) == Word(p, 0, last)   \* the tuple of p in place of a word
NoWord == Word(None, 0, FALSE)

(* A place in the traffic is a packet and the number of a word in it; the  *)
(* stream has ended at the place after the last packet.                    *)
Place(p, n) == [pkt |-> p, word |-> n]
WordAt(place) == Word(place.pkt, place.word, place.word = length[place.pkt])
Following(place) ==
  IF place.word < length[place.pkt] THEN Place(place.pkt, place.word + 1)
                                    ELSE Place(place.pkt + 1, 1)
Ended == stream.pkt > Packets

Init ==
  /\ length \in [Ids -> Lengths]
  /\ stream = Place(1, 1)
  /\ matches \in SUBSET Ids
  /\ force_drop \in BOOLEAN /\ tuple_pkt_en \in BOOLEAN
  /\ parser = "WAIT_PKT" /\ parsed = None
  /\ lookups = [i \in 1 .. LookupStages |-> None]
  /\ tuples = [i \in 1 .. TupleStages |-> None]
  /\ pkt_fifo = <<>> /\ hit_fifo = <<>> /\ tuple_pkt_fifo = <<>>
  /\ dout = NoWord
  /\ state = "WAIT_TILL_DONE_DECODE"
  /\ out = <<>>

-----------------------------------------------------------------------------
(* A definition named X_... is a plausible slip in X, kept to show that    *)
(* the properties below notice it.                                         *)

(* The values in_fifo_nearly_full may have: the flag counts the ring only. *)
NearlyFull_early == {nf \in BOOLEAN : nf <=> Len(pkt_fifo) >= 3}

NearlyFull ==
  {nf \in BOOLEAN : /\ nf => Len(pkt_fifo) >= FifoDepth - 1
                    /\ Len(pkt_fifo) >= FifoDepth + 2 => nf}

(* The parsers: the first word names the packet, the second completes the  *)
(* header, the rest is waited for.  `word' is the word taken, or NoWord.   *)
Completes_everyWord(word) == word # NoWord /\ parser # "WAIT_PKT"

Completes(word) == word # NoWord /\ parser = "PKT_WORD1"

Parse(word) ==
  /\ parser' = IF word = NoWord THEN parser
               ELSE IF parser = "WAIT_PKT" THEN "PKT_WORD1"
               ELSE IF word.last THEN "WAIT_PKT" ELSE "PKT_WAIT_EOP"
  /\ parsed' = IF word # NoWord /\ parser = "WAIT_PKT" THEN word.pkt ELSE parsed

Shift(stages, word) ==
  <<IF Completes(word) THEN parsed ELSE None>> \o Front(stages)

-----------------------------------------------------------------------------
(* The output machine.  The wires of one cycle, with `nf' the flag         *)
(* in_fifo_nearly_full and `ready' m_axis_tready.                          *)

Shown == IF pkt_fifo = <<>> THEN dout ELSE Head(pkt_fifo)

Waiting == state = "WAIT_TILL_DONE_DECODE"
Decided_hitOnly == Waiting /\ hit_fifo # <<>>

Decided == Waiting /\ hit_fifo # <<>> /\ tuple_pkt_fifo # <<>>
Forwards == Decided /\ Head(hit_fifo).hit /\ ~force_drop
Drops == Decided /\ ~Forwards
Discards(nf) == Waiting /\ ~Decided /\ nf

m_axis_tvalid == Forwards \/ (state = "IN_PACKET" /\ pkt_fifo # <<>>)

in_fifo_rd_en_unready(nf, ready) ==
  \/ m_axis_tvalid
  \/ Drops \/ Discards(nf) \/ state = "FLUSH"
  \/ state = "SM_PACKET" /\ pkt_fifo # <<>>

in_fifo_rd_en(nf, ready) ==
  \/ m_axis_tvalid /\ ready
  \/ Drops \/ Discards(nf) \/ state = "FLUSH"
  \/ state = "SM_PACKET" /\ pkt_fifo # <<>>

(* hit_fifo_rd_en and tuple_pkt_rd_en, which agree wherever they matter.   *)
TakesDecision_anyWord(nf, ready) ==
  \/ Forwards /\ ready
  \/ Drops
  \/ (Discards(nf) \/ state = "FLUSH") /\ Shown.last

TakesDecision_forwardOnly(nf, ready) == Forwards /\ ready

TakesDecision(nf, ready) ==
  \/ Forwards /\ ready
  \/ (Drops \/ Discards(nf) \/ state = "FLUSH") /\ Shown.last

state_next(nf, ready) ==
  CASE Forwards /\ ready -> IF tuple_pkt_en THEN "SM_PACKET" ELSE "IN_PACKET"
    [] Discards(nf)      -> IF Shown.last THEN "WAIT_TILL_DONE_DECODE" ELSE "FLUSH"
    [] ~Waiting /\ Shown.last /\ in_fifo_rd_en(nf, ready) -> "WAIT_TILL_DONE_DECODE"
    [] OTHER             -> state

(* The word on m_axis: the packet's, or its tuple in place of the data; the *)
(* first word is marked last exactly in tuple mode.                        *)
OutputWord ==
  LET tupleOf == IF tuple_pkt_fifo = <<>> THEN None ELSE Head(tuple_pkt_fifo)
      last == IF Waiting THEN tuple_pkt_en ELSE Shown.last
  IN IF tuple_pkt_en THEN TupleWord(tupleOf, last) ELSE [Shown EXCEPT !.last = last]

-----------------------------------------------------------------------------
(* One clock edge.  valid: the stream offers its next word.                *)
TailIf(b, s) == IF b /\ s # <<>> THEN Tail(s) ELSE s

Clock(valid, nf, ready) ==
  /\ valid => ~Ended
  /\ nf \in NearlyFull
  /\ LET taken == valid /\ ~nf
         word == IF taken THEN WordAt(stream) ELSE NoWord
         read == in_fifo_rd_en(nf, ready)
         takes == TakesDecision(nf, ready)
         looked == Last(lookups)
         tuple == Last(tuples)
     IN /\ stream' = IF taken THEN Following(stream) ELSE stream
        /\ Parse(word)
        /\ lookups' = Shift(lookups, word) /\ tuples' = Shift(tuples, word)
        /\ pkt_fifo' = TailIf(read, pkt_fifo) \o (IF taken THEN <<word>> ELSE <<>>)
        /\ hit_fifo' = TailIf(takes, hit_fifo)
             \o (IF looked = None THEN <<>>
                 ELSE <<[pkt |-> looked, hit |-> looked \in matches]>>)
        /\ tuple_pkt_fifo' = TailIf(takes, tuple_pkt_fifo)
             \o (IF tuple = None THEN <<>> ELSE <<tuple>>)
        /\ dout' = IF pkt_fifo' = <<>> THEN Shown ELSE NoWord
        /\ state' = state_next(nf, ready)
        /\ out' = IF m_axis_tvalid /\ ready THEN Append(out, OutputWord) ELSE out
  /\ UNCHANGED <<control, traffic>>

(* The host writes the control register, without regard to the traffic.    *)
WriteControl ==
  /\ \E c \in Controls :
       /\ c.before = [force_drop |-> force_drop, tuple_pkt_en |-> tuple_pkt_en]
       /\ force_drop' = c.after.force_drop /\ tuple_pkt_en' = c.after.tuple_pkt_en
  /\ UNCHANGED <<path, traffic>>

Edge == \E valid, nf, ready \in BOOLEAN : Clock(valid, nf, ready)
Arrival == \E nf, ready \in BOOLEAN : Clock(TRUE, nf, ready)
Departure == m_axis_tvalid /\ \E valid, nf \in BOOLEAN : Clock(valid, nf, TRUE)

Next == Edge \/ WriteControl

Spec == Init /\ [][Next]_vars

(* The clock runs, the ports deliver what they hold and the next core is   *)
(* ready again and again.                                                  *)
FairSpec == Spec /\ WF_vars(Edge) /\ WF_vars(Arrival) /\ WF_vars(Departure)

-----------------------------------------------------------------------------
TypeOK ==
  /\ parser \in {"WAIT_PKT", "PKT_WORD1", "PKT_WAIT_EOP"}
  /\ state \in {"WAIT_TILL_DONE_DECODE", "IN_PACKET", "SM_PACKET", "FLUSH"}
  /\ Len(lookups) = LookupStages /\ Len(tuples) = TupleStages
  /\ ToSet(lookups) \cup ToSet(tuples) \cup ToSet(tuple_pkt_fifo) \subseteq Ids \cup {None}
  /\ \A i \in DOMAIN hit_fifo : hit_fifo[i] \in [pkt : Ids, hit : BOOLEAN]
  /\ \A i \in DOMAIN pkt_fifo : pkt_fifo[i].pkt \in Ids

(* While the output machine waits, the oldest decision and the oldest      *)
(* tuple are those of the packet pkt_fifo shows, whose last word has not   *)
(* been read: the three FIFOs, filled at different times and emptied at    *)
(* different rates, never get out of step (WAIT_TILL_DONE_DECODE).         *)
Showing(p) == Shown.pkt = p /\ (pkt_fifo = <<>> => ~Shown.last)

InStep ==
  Waiting => /\ hit_fifo # <<>> => Showing(Head(hit_fifo).pkt)
             /\ tuple_pkt_fifo # <<>> => Showing(Head(tuple_pkt_fifo))

(* What leaves is what the filter selects: the matching packets whole and  *)
(* in order, or one tuple for each, and nothing else, however the input,   *)
(* the lookups and the output are timed.  Selects(e, w): w is what it      *)
(* selects after e; before the first word comes a packet 0 that is over.   *)
Selects(e, w) ==
  IF ~e.last THEN w = WordAt(Place(e.pkt, e.word + 1))
  ELSE /\ w.pkt \in matches /\ e.pkt < w.pkt
       /\ \A p \in matches : p <= e.pkt \/ w.pkt <= p
       /\ w = IF tuple_pkt_en THEN TupleWord(w.pkt, TRUE) ELSE WordAt(Place(w.pkt, 1))

OutBefore(i) == IF i = 1 THEN Word(None, 0, TRUE) ELSE out[i - 1]

OnlySelected == \A i \in DOMAIN out : Selects(OutBefore(i), out[i])

(* The whole of it: the matching packets, or a tuple for each.             *)
Selected ==
  FlattenSeq([p \in Ids |->
    IF p \notin matches THEN <<>>
    ELSE IF tuple_pkt_en THEN <<TupleWord(p, TRUE)>>
    ELSE [n \in 1 .. length[p] |-> WordAt(Place(p, n))]])

(* No packet is thrown away because its decision is late: pkt_fifo never   *)
(* fills up before it (the nearly-full branches of the output machine,     *)
(* which would drop a packet the filter selects, are never taken).         *)
NeverFlushed == state # "FLUSH" /\ \A nf \in NearlyFull : ~Discards(nf)

(* hit_fifo and tuple_pkt_fifo have no flow control of their own: the room *)
(* of pkt_fifo, two words a packet, is what keeps them from overflowing.   *)
RoomForDecisions == Len(hit_fifo) < FifoDepth /\ Len(tuple_pkt_fifo) < FifoDepth

(* Everything that arrives passes through, and unless the host has force_drop *)
(* set, every selected packet leaves.                                      *)
CaptureCompletes ==
  <>(Ended /\ pkt_fifo = <<>> /\ (out = Selected \/ force_drop))

(* A packet that leaves begins with its first word and goes on, word by    *)
(* word, to its last: "move the packet to the right output queue/s", as    *)
(* the comment above the output machine says.                              *)
WholePackets ==
  \A i \in DOMAIN out :
    IF i = 1 \/ out[i - 1].last THEN out[i].word = 1
    ELSE out[i].pkt = out[i - 1].pkt /\ out[i].word = out[i - 1].word + 1
=============================================================================
