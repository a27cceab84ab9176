---------------------------- MODULE PacketCutter ----------------------------
(***************************************************************************)
(* The packet cutter of the monitor and the programs that set it.  A       *)
(* packet longer than the cut is shortened; by default the words cut off   *)
(* are folded into a hash that is put behind what remains, with hash_en    *)
(* (which turns the hash off) they are dropped.  The host writes the       *)
(* length as three registers and the enable as a fourth, one by one, while *)
(* packets pass.                                                           *)
(*                                                                         *)
(* Lengths are in units of a fraction of a word.  Of a word the model      *)
(* keeps whose it is and how many units are valid; data, the hash and the  *)
(* byte masks are left out.  A clock edge at which a state keeps everything *)
(* as it is (output not ready, FIFO empty) is a stuttering step.           *)
(***************************************************************************)
EXTENDS Integers, Sequences, SequencesExt

CONSTANTS
  Word, Hash, MinCut,   \* units of a word (32 bytes), of a hash (16), the least cut (64)
  PktLengths,           \* lengths of the packets that pass
  CutLengths,           \* lengths the user asks for
  MaxPackets, MaxOps,   \* bounds
  Depth                 \* words the input FIFO takes before it says nearly full

ASSUME CutterAssumption ==
  /\ {Word, Hash, MinCut, MaxPackets, MaxOps, Depth} \subseteq Nat \ {0}
  /\ Hash < Word /\ Word < MinCut /\ PktLengths \subseteq Nat \ {0} /\ CutLengths \subseteq Nat \ {0}

VARIABLES
  cut_en, cut_words, cut_offset, cut_bytes, hash_en,   \* registers
  todo, cut_to_length,   \* the host: steps to do; the length the window shows (0: N/A)
  ops,                   \* operations of the host so far
  packets, sending,      \* packets begun so far; words of the last still to come
  fifo,                  \* the input FIFO
  state, cut_counter, pkt_cut_count, pkt_short, bytes_free,   \* the machine
  cur, out,              \* history: the packet at the output; the packets that have left
  troubled               \* history: a cut without hash has met one of its limits: it began
                         \* at a stale count of words, or its length was rewritten in it

regs == <<cut_en, cut_words, cut_offset, cut_bytes, hash_en>>
host == <<regs, todo, cut_to_length, ops>>
input == <<packets, sending>>
machine == <<state, cut_counter, pkt_cut_count, pkt_short, bytes_free>>
history == <<cur, out, troubled>>
vars == <<host, input, fifo, machine, history>>

Ceil(n) == (n + Word - 1) \div Word

(* The units missing in the last word; the code writes them as a byte mask, *)
(* which is 0 for a whole word and is taken for one.                       *)
Free_notWrapped(bytes) == Word - (bytes % Word)
Free(bytes) == (Word - (bytes % Word)) % Word

(* The length of a packet fits into its field of the metadata, 16 bits     *)
(* (tuser_fifo[15:0], packet_cutter.v), in bytes of which a word holds 32:  *)
(* the counter of a packet that is not to be cut, 2048 words                *)
(* (MAX_WORDS_PKT), does not run out.                                       *)
LengthFits == \A n \in PktLengths : Ceil(n) <= 2048

(* A packet at the output: the packets its words came from, the length it   *)
(* had and the one it is said to have, the units of it so far (each word     *)
(* once), the registers when it began; whether a word of it went out twice,  *)
(* whether its cut began at a stale count of words, and whether the host was *)
(* done with its writes when it began and wrote nothing while it passed.     *)
Nothing == [ids |-> {}, len |-> 0, claimed |-> 0, units |-> 0, en |-> 0, bytes |-> 0,
            hash_off |-> 0, twice |-> FALSE, astray |-> FALSE, steady |-> FALSE]

(* The registers are as at power-on or as earlier calls have left them:     *)
(* nothing turns the hash on again once turple_capture_conf.py was called.  *)
Init ==
  /\ \/ cut_words = 0 /\ cut_offset = 0 /\ cut_bytes = 0 /\ cut_en = 0
     \/ \E b \in CutLengths :
          /\ b > Word /\ cut_words = Ceil(b) - 2 /\ cut_offset = Free(b) /\ cut_bytes = b
          /\ cut_en \in {0, 1}
  /\ hash_en \in {0, 1} /\ todo = <<>> /\ ops = 0
  /\ cut_to_length = IF cut_en = 1 THEN cut_bytes ELSE 0
  /\ packets = 0 /\ sending = <<>> /\ fifo = <<>>
  /\ state = "WAIT_PKT" /\ cut_counter = 0 /\ pkt_cut_count = 1
  /\ pkt_short = FALSE /\ bytes_free = 0
  /\ cur = Nothing /\ out = <<>> /\ troubled = FALSE

-----------------------------------------------------------------------------
(* The host.                                                                *)

enable_cut(bytes) ==
  IF bytes <= Word THEN <<>>
  ELSE << <<"words", Ceil(bytes) - 2>>, <<"offset", Free(bytes)>>, <<"bytes", bytes>>,
          <<"en", 1>> >>

disable_cut == << <<"en", 0>> >>
display_cutter_status == << <<"show", 0>> >>

OnEnableCutter(bytes) == enable_cut(bytes) \o display_cutter_status
OnDisableCutter == disable_cut \o display_cutter_status

(* turple_capture_conf.py: cut to 64 bytes, without hash.                  *)
turple_capture_conf == enable_cut(MinCut) \o << <<"hash_en", 1>> >>

(* InitMCli, at the start of every call of the command line tools.         *)
InitMCli == disable_cut

UserActs ==
  /\ todo = <<>> /\ ops < MaxOps /\ ops' = ops + 1
  /\ \/ \E b \in CutLengths : todo' = OnEnableCutter(b)
     \/ todo' \in {OnDisableCutter, turple_capture_conf, InitMCli}
  /\ UNCHANGED <<regs, cut_to_length, input, fifo, machine, history>>

HostStep ==
  /\ todo # <<>> /\ todo' = Tail(todo)
  /\ LET r == Head(todo)[1] v == Head(todo)[2]
     IN /\ cut_en' = IF r = "en" THEN v ELSE cut_en
        /\ cut_words' = IF r = "words" THEN v ELSE cut_words
        /\ cut_offset' = IF r = "offset" THEN v ELSE cut_offset
        /\ cut_bytes' = IF r = "bytes" THEN v ELSE cut_bytes
        /\ hash_en' = IF r = "hash_en" THEN v ELSE hash_en
        /\ cut_to_length' = IF r # "show" THEN cut_to_length
                            ELSE IF cut_en = 1 THEN cut_bytes ELSE 0
        /\ cur' = [cur EXCEPT !.steady = @ /\ r = "show"]
        /\ troubled' = (troubled \/ (state = "CUT_PACKET" /\ r = "bytes" /\ v # cut_bytes))
  /\ UNCHANGED <<ops, input, fifo, machine, out>>

-----------------------------------------------------------------------------
(* The input: a packet is a run of words [id, len, units, last].            *)
WordsOf(id, len) ==
  [i \in 1 .. Ceil(len) |->
     [id |-> id, len |-> len, last |-> i = Ceil(len),
      units |-> IF i = Ceil(len) THEN len - (i - 1) * Word ELSE Word]]

NextWord ==
  /\ IF sending # <<>>
     THEN fifo' = Append(fifo, Head(sending)) /\ sending' = Tail(sending) /\ UNCHANGED packets
     ELSE /\ packets < MaxPackets /\ packets' = packets + 1
          /\ \E len \in PktLengths :
               LET words == WordsOf(packets + 1, len)
               IN fifo' = Append(fifo, Head(words)) /\ sending' = Tail(words)
  /\ UNCHANGED <<host, machine, history>>

(* A word is taken unless the FIFO is nearly full.                         *)
Arrive == Len(fifo) < Depth /\ NextWord

-----------------------------------------------------------------------------
(* packet_cutter.v, one action per state: the clock edges that go on.       *)
len_pkt_cut == IF hash_en = 1 THEN cut_bytes ELSE cut_bytes + Hash
word == Head(fifo)
pkt_cuttable == word.len > len_pkt_cut /\ len_pkt_cut >= MinCut
pkt_len_hashForgotten == IF cut_en = 1 /\ pkt_cuttable THEN cut_bytes ELSE word.len
pkt_len == IF cut_en = 1 /\ pkt_cuttable THEN len_pkt_cut ELSE word.len

(* Output n units of the word at the head of the FIFO; the last of them     *)
(* completes the packet at the output.                                     *)
Emit(c, n) == [c EXCEPT !.units = @ + n, !.ids = @ \union {word.id}]
Leaves(c) == out' = Append(out, c) /\ cur' = Nothing
Stays(c) == cur' = c /\ UNCHANGED out
Pass(c) == IF word.last THEN Leaves(Emit(c, word.units)) ELSE Stays(Emit(c, word.units))
Take == fifo # <<>> /\ fifo' = Tail(fifo)

(* A cycle without a packet, or with the output not ready.                 *)
WaitIdle ==
  /\ state = "WAIT_PKT" /\ pkt_cut_count' = 1
  /\ UNCHANGED <<host, input, fifo, state, cut_counter, pkt_short, bytes_free, history>>

(* The length in the first word is set to what the packet will be.         *)
WaitPkt ==
  /\ state = "WAIT_PKT" /\ Take
  /\ cut_counter' = IF cut_en = 1 THEN cut_words ELSE 2048
  /\ pkt_short' = ~pkt_cuttable
  /\ bytes_free' = cut_offset
  /\ LET cutting == pkt_cuttable /\ hash_en = 1
         first == [Nothing EXCEPT !.len = word.len, !.claimed = pkt_len, !.en = cut_en,
                     !.bytes = cut_bytes, !.hash_off = hash_en,
                     !.astray = (cutting /\ pkt_cut_count # 1), !.steady = (todo = <<>>)]
     IN /\ IF cutting
           THEN /\ pkt_cut_count' = pkt_cut_count + 1 /\ state' = "CUT_PACKET"
                /\ Stays(Emit(first, word.units))
           ELSE /\ pkt_cut_count' = 1 /\ state' = IF word.last THEN "WAIT_PKT" ELSE "IN_PACKET"
                /\ Pass(first)
        /\ troubled' = (troubled \/ first.astray)
  /\ UNCHANGED <<host, input>>

InPacket ==
  /\ state = "IN_PACKET" /\ fifo # <<>>
  /\ \/ /\ cut_counter # 0 \/ (word.last /\ pkt_short)
        /\ Take /\ Pass(cur)
        /\ state' = IF word.last THEN "WAIT_PKT" ELSE "IN_PACKET"
        /\ cut_counter' = IF word.last THEN cut_counter ELSE cut_counter - 1
     \/ /\ cut_counter = 0 /\ word.last /\ ~pkt_short
        /\ state' = "COMPLETE_PKT" /\ UNCHANGED <<fifo, cut_counter, cur, out>>
     \/ /\ cut_counter = 0 /\ ~word.last
        /\ Take /\ state' = "START_HASH" /\ UNCHANGED <<cut_counter, cur, out>>
  /\ pkt_cut_count' = 1
  /\ UNCHANGED <<host, input, pkt_short, bytes_free, troubled>>

(* The last word stays in the FIFO until the packet is completed.          *)
StartHash_takesLast ==
  /\ state = "START_HASH" /\ fifo # <<>>
  /\ Take /\ state' = IF word.last THEN "COMPLETE_PKT" ELSE "START_HASH"
  /\ UNCHANGED <<host, input, cut_counter, pkt_cut_count, pkt_short, bytes_free, history>>
StartHash ==
  /\ state = "START_HASH" /\ fifo # <<>>
  /\ IF word.last THEN state' = "COMPLETE_PKT" /\ UNCHANGED fifo
     ELSE Take /\ UNCHANGED state
  /\ UNCHANGED <<host, input, cut_counter, pkt_cut_count, pkt_short, bytes_free, history>>

SendLastWord_waitsForWord ==
  /\ state = "SEND_LAST_WORD" /\ fifo # <<>>
  /\ state' = "WAIT_PKT"
  /\ Leaves([cur EXCEPT !.units = @ + Hash - bytes_free])
  /\ UNCHANGED <<host, input, fifo, cut_counter, pkt_cut_count, pkt_short, bytes_free, troubled>>


(* The hash follows in the last word as far as there is room for it.       *)
CompletePkt ==
  /\ state = "COMPLETE_PKT" /\ Take
  /\ IF bytes_free < Hash
     THEN state' = "SEND_LAST_WORD" /\ Stays(Emit(cur, Word))
     ELSE state' = "WAIT_PKT" /\ Leaves(Emit(cur, Word - bytes_free + Hash))
  /\ UNCHANGED <<host, input, cut_counter, pkt_cut_count, pkt_short, bytes_free, troubled>>

SendLastWord ==
  /\ state = "SEND_LAST_WORD"
  /\ state' = "WAIT_PKT"
  /\ Leaves([cur EXCEPT !.units = @ + Hash - bytes_free])
  /\ UNCHANGED <<host, input, fifo, cut_counter, pkt_cut_count, pkt_short, bytes_free, troubled>>

(* Words are counted, and the length register is looked at again for every *)
(* one; the end of the packet in the FIFO is not.                          *)
CutPacket ==
  /\ state = "CUT_PACKET" /\ Take
  /\ IF Ceil(len_pkt_cut) = pkt_cut_count
     THEN /\ Leaves(Emit(cur, len_pkt_cut - (pkt_cut_count - 1) * Word))
          /\ state' = IF word.last THEN "WAIT_PKT" ELSE "CUT_PACKET_WAIT"
     ELSE Stays(Emit(cur, word.units)) /\ UNCHANGED state
  /\ pkt_cut_count' = pkt_cut_count + 1
  /\ UNCHANGED <<host, input, cut_counter, pkt_short, bytes_free, troubled>>

(* tvalid does not look at the FIFO here: with no word there, and the      *)
(* output ready, the word before goes out once more.  If that was the last  *)
(* of its packet it ends the packet at the output; of what then goes out,    *)
(* word for word a packet of its own, no record is kept.                    *)
CutStarved ==
  /\ state = "CUT_PACKET" /\ fifo = <<>>
  /\ LET again == [cur EXCEPT !.twice = TRUE]
     IN IF sending = <<>> /\ cur.ids # {}
        THEN out' = Append(out, again) /\ cur' = [Nothing EXCEPT !.twice = TRUE]
        ELSE Stays(again)
  /\ UNCHANGED <<host, input, fifo, machine, troubled>>

(* What is left of a cut packet is dropped.                                 *)
CutPacketWait ==
  /\ state = "CUT_PACKET_WAIT" /\ Take
  /\ state' = IF word.last THEN "WAIT_PKT" ELSE "CUT_PACKET_WAIT"
  /\ pkt_cut_count' = 1
  /\ UNCHANGED <<host, input, cut_counter, pkt_short, bytes_free, history>>

Edge == \/ WaitIdle \/ WaitPkt \/ InPacket \/ StartHash \/ CompletePkt \/ SendLastWord
        \/ CutPacket \/ CutStarved \/ CutPacketWait

Next == UserActs \/ HostStep \/ Arrive \/ Edge

(* The clock runs, the output is ready again and again, and a packet begun  *)
(* at the input comes to its end.                                          *)
Progress == WaitPkt \/ InPacket \/ StartHash \/ CompletePkt \/ SendLastWord \/ CutPacket
            \/ CutPacketWait
RestArrives == sending # <<>> /\ Arrive

Spec == Init /\ [][Next]_vars /\ WF_vars(Progress) /\ WF_vars(RestArrives)

-----------------------------------------------------------------------------
Units == 0 .. 2 * Hash + Word * MaxPackets * (Ceil(CHOOSE n \in PktLengths :
                                               \A m \in PktLengths : m <= n) + 1)
Words == [id : 1 .. MaxPackets, len : PktLengths, last : BOOLEAN, units : 1 .. Word]
Packet == [ids : SUBSET (1 .. MaxPackets), len : {0} \union PktLengths, claimed : Units,
           units : Units, en : {0, 1}, bytes : {0, MinCut} \union CutLengths,
           hash_off : {0, 1}, twice : BOOLEAN, astray : BOOLEAN, steady : BOOLEAN]

(* Every variable has its type; the FIFO never holds more than its depth.   *)
TypeOK ==
  /\ cut_en \in {0, 1} /\ hash_en \in {0, 1} /\ cut_words \in Nat
  /\ cut_offset \in 0 .. Word - 1 /\ cut_bytes \in {0, MinCut} \union CutLengths
  /\ cut_to_length \in {0, MinCut} \union CutLengths /\ ops \in 0 .. MaxOps
  /\ packets \in 0 .. MaxPackets /\ Range(sending) \subseteq Words
  /\ Range(fifo) \subseteq Words /\ Len(fifo) <= Depth
  /\ state \in {"WAIT_PKT", "IN_PACKET", "START_HASH", "COMPLETE_PKT", "SEND_LAST_WORD",
                "CUT_PACKET", "CUT_PACKET_WAIT"}
  /\ pkt_cut_count \in Nat /\ cut_counter \in Nat /\ bytes_free \in 0 .. Word - 1
  /\ pkt_short \in BOOLEAN /\ troubled \in BOOLEAN
  /\ cur \in Packet /\ Range(out) \subseteq Packet

(* The length a packet should leave with, by the registers at its start:    *)
(* its own with the cut disabled; cut without hash, the cut; and with hash   *)
(* the cut and the hash.                                                    *)
Expected(p) ==
  LET longer == p.hash_off = 0 /\ p.len > p.bytes + Hash /\ p.bytes + Hash >= MinCut
  IN IF p.en # 1 THEN p.len
     ELSE IF p.hash_off = 1 /\ p.len > p.bytes /\ p.bytes >= MinCut THEN p.bytes
     ELSE IF Ceil(p.len) > Ceil(p.bytes) \/ longer THEN p.bytes + Hash
     ELSE p.len

(* Cut without hash does not ask whether the cut is enabled (pkt_cuttable):  *)
(* what a packet meets while it is disabled but a length is left in the      *)
(* register (run by MCCutterLimits.cfg).                                  *)
IgnoresEnable(p) == p.en # 1 /\ p.hash_off = 1 /\ p.len > p.bytes /\ p.bytes >= MinCut

Undisturbed(p) == p.steady /\ ~p.astray

(* A packet that passed while the host wrote nothing leaves cut to the      *)
(* length set, with the hash behind it, or whole: however the words, the    *)
(* bytes free in the last of them and the hash carried over fall together.   *)
(* It does so after packets that ran together, too; only a packet whose own  *)
(* cut begins at a stale count of words (NeverJoined) or ignores the enable  *)
(* does not.  A word sent once more (NeverTwice) is counted once.            *)
CutAsConfigured ==
  \A p \in Range(out) : Undisturbed(p) /\ ~IgnoresEnable(p) => p.units = Expected(p)

(* With the cutter on and set to at least the least cut, the length a packet *)
(* claims in its metadata is the one it leaves with, unless it is longer     *)
(* than the cut by no more than the hash.  Nothing is said of a packet that  *)
(* began at a stale count or that had a word sent once more: what they claim *)
(* is too little.                                                           *)
ClaimTruthful ==
  \A p \in Range(out) :
     /\ Undisturbed(p) /\ ~p.twice /\ p.en = 1 /\ p.bytes >= MinCut
     /\ p.len \notin p.bytes + 1 .. p.bytes + Hash
     => p.claimed = p.units

OnePacketEach ==
  /\ \A i \in 1 .. Len(out) : out[i].ids = {i}
  /\ cur.ids \subseteq {Len(out) + 1}

(* Every packet leaves as one packet, in order, none lost or joined to the  *)
(* next, at whatever moment of it the host writes the registers one by one  *)
(* (monitor.py, enable_cut), until a cut without hash begins at a stale      *)
(* count of words or has its length rewritten.                              *)
BoundariesKept == ~troubled => OnePacketEach

(* Without the limits of cut without hash: the window says "Cutter set to   *)
(* length %d bytes." and packets run together (run by MCCutterLimits.cfg).  *)
NeverJoined == OnePacketEach

(* No word of a packet is sent twice: cut without hash sends the last one    *)
(* again whenever the next is late (run by MCCutterLimits.cfg).              *)
NeverTwice == \A p \in Range(out) : ~p.twice

(* With the window saying that the cutter is disabled, packets leave whole.  *)
DisabledIsOff ==
  [][\A p \in Range(out') \ Range(out) : cut_to_length = 0 /\ cut_en = 0 /\ Undisturbed(p)
       => p.units = p.len]_vars

(* Every packet that has begun leaves, though a cut packet may end before,  *)
(* at or after the word its length is reached in, and the host may change   *)
(* the registers at any moment of it.  Packets and their departures are     *)
(* only added, and MaxPackets bounds them: so it is enough that all of them  *)
(* have left again and again.                                               *)
Drains == []<>(Len(out) >= packets \/ troubled)
=============================================================================
