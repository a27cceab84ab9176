------------------------- MODULE PacketCutter_proofs -------------------------
(***************************************************************************)
(* Proofs that the packet cutter keeps packets apart and gives them the    *)
(* lengths that are set, for every size of words, hash, packets, cuts and  *)
(* FIFO, every number of packets and every order of register writes.       *)
(***************************************************************************)
EXTENDS PacketCutter, SequenceTheorems, TLAPS

WordRecords == [id : Int, len : Nat, last : BOOLEAN, units : Int]

(* The words still to come out of the FIFO, those not yet in it included.  *)
Total == Len(fifo) + Len(sending)
Line == [i \in 1 .. Total |-> IF i <= Len(fifo) THEN fifo[i] ELSE sending[i - Len(fifo)]]

(* A run L of n words: words of one packet, then those of the next, the    *)
(* last one the end of packet p.                                           *)
Chained(L, n, p) ==
  /\ \A i \in 1 .. n - 1 : L[i + 1].id = IF L[i].last THEN L[i].id + 1 ELSE L[i].id
  /\ n > 0 => L[n].last /\ L[n].id = p

(* A packet that begins at i does not end before its length says; the      *)
(* first word begins one if `first'.                                       *)
LongFrom(L, n, i) == \A k \in i .. i + Ceil(L[i].len) - 2 : k <= n /\ ~L[k].last
Whole(L, n, first) ==
  \A i \in 1 .. n : (IF i = 1 THEN first ELSE L[i - 1].last) => LongFrom(L, n, i)

(* The packet the next word belongs to.                                    *)
NextId == IF Total = 0 THEN packets + 1 ELSE Line[1].id

-----------------------------------------------------------------------------
(* The invariant.                                                          *)
HostSteps == {"words", "offset", "bytes", "en", "hash_en", "show"} \X Nat

Fields(c) ==
  c = [ids |-> c.ids, len |-> c.len, claimed |-> c.claimed, units |-> c.units, en |-> c.en,
       bytes |-> c.bytes, hash_off |-> c.hash_off, twice |-> c.twice, astray |-> c.astray,
       steady |-> c.steady]

Types ==
  /\ fifo \in Seq(WordRecords) /\ sending \in Seq(WordRecords)
  /\ packets \in Nat /\ out \in Seq(Range(out)) /\ Fields(cur)
  /\ cut_bytes \in Nat /\ cut_words \in Nat /\ hash_en \in {0, 1}
  /\ pkt_cut_count \in Nat
  /\ state \in {"WAIT_PKT", "IN_PACKET", "START_HASH", "COMPLETE_PKT", "SEND_LAST_WORD",
                "CUT_PACKET", "CUT_PACKET_WAIT"}
  /\ todo \in Seq(HostSteps)
  /\ \A i \in DOMAIN todo : todo[i][1] = "hash_en" => todo[i][2] = 1

Input == Chained(Line, Total, packets)
           /\ Whole(Line, Total, state \in {"WAIT_PKT", "SEND_LAST_WORD"})

Output ==
  /\ \A i \in 1 .. Len(out) : out[i].ids = {i}
  /\ state = "WAIT_PKT" => cur.ids = {} /\ NextId = Len(out) + 1
  /\ state \in {"IN_PACKET", "START_HASH", "COMPLETE_PKT", "CUT_PACKET"} =>
       cur.ids = {Len(out) + 1} /\ NextId = Len(out) + 1 /\ Total > 0
  /\ state = "COMPLETE_PKT" => Line[1].last
  /\ state = "SEND_LAST_WORD" => cur.ids = {Len(out) + 1} /\ NextId = Len(out) + 2
  /\ state = "CUT_PACKET_WAIT" => cur.ids = {} /\ NextId = Len(out) /\ Total > 0

(* A packet being cut does not end before the word its cut ends in.        *)
Cutting ==
  state = "CUT_PACKET" =>
    /\ hash_en = 1 /\ pkt_cut_count <= Ceil(cut_bytes)
    /\ \A k \in 1 .. Ceil(cut_bytes) - pkt_cut_count : k <= Total /\ ~Line[k].last

CutterInv == Types /\ (~troubled => Input /\ Output /\ Cutting)

-----------------------------------------------------------------------------
(* Lengths in words.                                                       *)
LEMMA CeilGrows ==
  ASSUME NEW m \in Nat, NEW n \in Nat, m <= n
  PROVE  Ceil(m) \in Nat /\ Ceil(n) \in Nat /\ Ceil(m) <= Ceil(n)
         /\ (n > 0 => Ceil(n) > 0) /\ (n > Word => Ceil(n) > 1)
<1> DEFINE a == m + Word - 1
           b == n + Word - 1
           w == Word
<1>1. a \in Nat /\ b \in Nat /\ a <= b /\ w \in Nat \ {0}
      /\ (n > 0 => b >= w) /\ (n > w => b >= 2 * w)
  BY CutterAssumption
<1> HIDE DEF a, b, w
<1>2. a \div w \in Int /\ b \div w \in Int
  BY <1>1
<1>3. a = w * (a \div w) + (a % w) /\ b = w * (b \div w) + (b % w)
      /\ a % w \in 0 .. w - 1 /\ b % w \in 0 .. w - 1
  BY <1>1
<1>4. a \div w <= b \div w
  BY <1>1, <1>2, <1>3
<1>5. a \div w >= 0 /\ b \div w >= 0
  BY <1>1, <1>2, <1>3
<1>6. (b >= w => b \div w > 0) /\ (b >= 2 * w => b \div w > 1)
  BY <1>1, <1>2, <1>3
<1>7. QED BY <1>1, <1>2, <1>4, <1>5, <1>6 DEF Ceil, a, b, w

-----------------------------------------------------------------------------
(* The line of words: its head goes, a packet comes, a word moves into the *)
(* FIFO.                                                                   *)
LEMMA LineTypes ==
  ASSUME fifo \in Seq(WordRecords), sending \in Seq(WordRecords)
  PROVE  /\ Total \in Nat /\ \A i \in 1 .. Total : Line[i] \in WordRecords
         /\ fifo # <<>> => Total > 0 /\ Head(fifo) = Line[1]
  BY DEF Total, Line

LEMMA HeadGoes ==
  ASSUME fifo \in Seq(WordRecords), sending \in Seq(WordRecords), Take, sending' = sending
  PROVE  /\ fifo' \in Seq(WordRecords) /\ sending' \in Seq(WordRecords)
         /\ Total' = Total - 1 /\ Total > 0
         /\ \A i \in 1 .. Total - 1 : Line'[i] = Line[i + 1]
<1>1. /\ fifo' \in Seq(WordRecords) /\ Len(fifo') = Len(fifo) - 1
      /\ Len(fifo) \in Nat \ {0} /\ Len(sending) \in Nat
      /\ \A i \in 1 .. Len(fifo) - 1 : fifo'[i] = fifo[i + 1]
  BY DEF Take
<1>2. Total' = Total - 1 /\ Total > 0 /\ Total \in Nat
  BY <1>1 DEF Total
<1>3. ASSUME NEW i \in 1 .. Total - 1 PROVE Line'[i] = Line[i + 1]
  <2>1. /\ Line'[i] = IF i <= Len(fifo') THEN fifo'[i] ELSE sending'[i - Len(fifo')]
        /\ Line[i + 1] = IF i + 1 <= Len(fifo) THEN fifo[i + 1]
                         ELSE sending[i + 1 - Len(fifo)]
    BY <1>2 DEF Line
  <2>2. CASE i + 1 <= Len(fifo)
    BY <1>1, <2>1, <2>2
  <2>3. CASE ~(i + 1 <= Len(fifo))
    <3>1. ~(i <= Len(fifo')) /\ i - Len(fifo') = i + 1 - Len(fifo)
      BY <1>1, <2>3
    <3>2. QED BY <2>1, <2>3, <3>1
  <2>4. QED BY <2>2, <2>3
<1>4. QED BY <1>1, <1>2, <1>3

LEMMA WordEnters ==
  ASSUME fifo \in Seq(WordRecords), sending \in Seq(WordRecords), sending # <<>>,
         fifo' = Append(fifo, Head(sending)), sending' = Tail(sending)
  PROVE  /\ fifo' \in Seq(WordRecords) /\ sending' \in Seq(WordRecords)
         /\ Total' = Total /\ Line' = Line
<1>1. /\ fifo' \in Seq(WordRecords) /\ sending' \in Seq(WordRecords)
      /\ Len(fifo') = Len(fifo) + 1 /\ Len(sending') = Len(sending) - 1
      /\ Len(fifo) \in Nat /\ Len(sending) \in Nat \ {0}
      /\ \A i \in 1 .. Len(fifo) : fifo'[i] = fifo[i]
      /\ fifo'[Len(fifo) + 1] = sending[1]
      /\ \A i \in 1 .. Len(sending) - 1 : sending'[i] = sending[i + 1]
  OBVIOUS
<1>2. Total' = Total
  BY <1>1 DEF Total
<1>3. ASSUME NEW i \in 1 .. Total
      PROVE  (IF i <= Len(fifo') THEN fifo'[i] ELSE sending'[i - Len(fifo')])
               = IF i <= Len(fifo) THEN fifo[i] ELSE sending[i - Len(fifo)]
  <2> DEFINE a == Len(fifo)
             b == Len(sending)
             f == fifo
             g == sending
             f2 == fifo'
             g2 == sending'
  <2>1. /\ a \in Nat /\ b \in Nat /\ b > 0 /\ i \in 1 .. a + b /\ Len(f2) = a + 1
        /\ \A k \in 1 .. a : f2[k] = f[k]
        /\ f2[a + 1] = g[1]
        /\ \A k \in 1 .. b - 1 : g2[k] = g[k + 1]
    BY <1>1 DEF Total
  <2> HIDE DEF a, b, f, g, f2, g2
  <2>2. (IF i <= a + 1 THEN f2[i] ELSE g2[i - (a + 1)]) = IF i <= a THEN f[i] ELSE g[i - a]
    <3>1. CASE i <= a
      BY <2>1, <3>1
    <3>2. CASE i = a + 1
      BY <2>1, <3>2
    <3>3. CASE i > a + 1
      <4>1. i - (a + 1) \in 1 .. b - 1 /\ (i - (a + 1)) + 1 = i - a
        BY <2>1, <3>3
      <4>2. g2[i - (a + 1)] = g[i - a]
        BY <2>1, <4>1
      <4>3. QED BY <2>1, <3>3, <4>2
    <3>4. QED BY <2>1, <3>1, <3>2, <3>3
  <2>3. QED BY <2>1, <2>2, Zenon DEF a, f, g, f2, g2
<1>4. Line' = Line
  BY <1>2, <1>3, Zenon DEF Line
<1>5. QED BY <1>1, <1>2, <1>4

LEMMA PacketEnters ==
  ASSUME fifo \in Seq(WordRecords), NEW words \in Seq(WordRecords), words # <<>>,
         sending = <<>>, fifo' = Append(fifo, Head(words)), sending' = Tail(words)
  PROVE  /\ fifo' \in Seq(WordRecords) /\ sending' \in Seq(WordRecords)
         /\ Total' = Total + Len(words)
         /\ \A i \in 1 .. Total : Line'[i] = Line[i]
         /\ \A i \in 1 .. Len(words) : Line'[Total + i] = words[i]
<1>1. /\ fifo' \in Seq(WordRecords) /\ sending' \in Seq(WordRecords)
      /\ Len(fifo') = Len(fifo) + 1 /\ Len(sending') = Len(words) - 1 /\ Len(sending) = 0
      /\ Len(fifo) \in Nat /\ Len(words) \in Nat \ {0}
      /\ \A i \in 1 .. Len(fifo) : fifo'[i] = fifo[i]
      /\ fifo'[Len(fifo) + 1] = words[1]
      /\ \A i \in 1 .. Len(words) - 1 : sending'[i] = words[i + 1]
  OBVIOUS
<1>2. Total = Len(fifo) /\ Total' = Total + Len(words)
  BY <1>1 DEF Total
<1>3. ASSUME NEW i \in 1 .. Total PROVE Line'[i] = Line[i]
  BY <1>1, <1>2 DEF Line
<1>4. ASSUME NEW i \in 1 .. Len(words) PROVE Line'[Total + i] = words[i]
  <2>1. Line'[Total + i] = IF Total + i <= Len(fifo') THEN fifo'[Total + i]
                           ELSE sending'[Total + i - Len(fifo')]
    BY <1>1, <1>2 DEF Line
  <2>2. CASE i = 1
    BY <1>1, <1>2, <2>1, <2>2
  <2>3. CASE i > 1
    <3>1. ~(Total + i <= Len(fifo')) /\ Total + i - Len(fifo') = i - 1
          /\ i - 1 \in 1 .. Len(words) - 1 /\ (i - 1) + 1 = i
      BY <1>1, <1>2, <2>3
    <3>2. QED BY <1>1, <2>1, <3>1
  <2>4. QED BY <1>1, <2>2, <2>3
<1>5. QED BY <1>1, <1>2, <1>3, <1>4

-----------------------------------------------------------------------------
(* What becomes of the two facts about a run of words.                     *)
LEMMA Shorter ==
  ASSUME NEW L, NEW M, NEW n \in Nat, n > 0, NEW p, NEW first,
         \A i \in 1 .. n : L[i] \in WordRecords,
         \A i \in 1 .. n - 1 : M[i] = L[i + 1],
         Chained(L, n, p), Whole(L, n, first)
  PROVE  /\ Chained(M, n - 1, p) /\ Whole(M, n - 1, L[1].last)
         /\ n = 1 => L[1].last /\ L[1].id = p
         /\ n > 1 => M[1].id = IF L[1].last THEN L[1].id + 1 ELSE L[1].id
<1>1. Chained(M, n - 1, p)
  <2>1. ASSUME NEW i \in 1 .. n - 1 - 1
        PROVE  M[i + 1].id = IF M[i].last THEN M[i].id + 1 ELSE M[i].id
    <3>1. i + 1 \in 1 .. n - 1 /\ i \in 1 .. n - 1
      OBVIOUS
    <3>2. M[i + 1] = L[(i + 1) + 1] /\ M[i] = L[i + 1]
      BY <3>1
    <3>3. QED BY <3>1, <3>2 DEF Chained
  <2>2. n - 1 > 0 => M[n - 1] = L[n]
    OBVIOUS
  <2>3. QED BY <2>1, <2>2 DEF Chained
<1>2. Whole(M, n - 1, L[1].last)
  <2> SUFFICES ASSUME NEW i \in 1 .. n - 1, IF i = 1 THEN L[1].last ELSE M[i - 1].last
               PROVE  LongFrom(M, n - 1, i)
    BY DEF Whole
  <2>1. i + 1 \in 1 .. n /\ i + 1 # 1 /\ (i + 1) - 1 = i
    OBVIOUS
  <2>2. L[i].last
    <3>1. CASE i = 1
      BY <3>1
    <3>2. CASE i # 1
      <4>1. i - 1 \in 1 .. n - 1 /\ (i - 1) + 1 = i
        BY <3>2
      <4>2. M[i - 1] = L[i]
        BY <4>1
      <4>3. QED BY <3>2, <4>2
    <3>3. QED BY <3>1, <3>2
  <2>3. LongFrom(L, n, i + 1)
    BY <2>1, <2>2 DEF Whole
  <2>4. M[i] = L[i + 1] /\ M[i].len \in Nat
    BY <2>1 DEF WordRecords
  <2>5. Ceil(M[i].len) \in Nat
    BY <2>4, CeilGrows
  <2> SUFFICES ASSUME NEW k \in i .. i + Ceil(M[i].len) - 2
               PROVE  k <= n - 1 /\ ~M[k].last
    BY DEF LongFrom
  <2>6. k + 1 \in (i + 1) .. (i + 1) + Ceil(L[i + 1].len) - 2
    BY <2>4, <2>5
  <2>7. k + 1 <= n /\ ~L[k + 1].last
    BY <2>3, <2>6 DEF LongFrom
  <2>8. k \in 1 .. n - 1
    BY <2>5, <2>7
  <2>9. QED BY <2>7, <2>8
<1>3. QED BY <1>1, <1>2 DEF Chained

LEMMA Longer ==
  ASSUME NEW L, NEW M, NEW n \in Nat, NEW p \in Int, NEW first, NEW m \in Nat, m > 0, NEW len,
         \A i \in 1 .. n : L[i] \in WordRecords /\ M[i] = L[i],
         \A i \in 1 .. m : M[n + i].id = p + 1 /\ M[n + i].last = (i = m) /\ M[n + i].len = len,
         Ceil(len) = m,
         Chained(L, n, p), Whole(L, n, first)
  PROVE  Chained(M, n + m, p + 1) /\ Whole(M, n + m, first)
<1>1. Chained(M, n + m, p + 1)
  <2>1. ASSUME NEW i \in 1 .. n + m - 1
        PROVE  M[i + 1].id = IF M[i].last THEN M[i].id + 1 ELSE M[i].id
    <3>1. CASE i + 1 <= n
      BY <3>1 DEF Chained
    <3>2. CASE i = n
      <4>1. M[n].last /\ M[n].id = p
        BY <3>2 DEF Chained
      <4>2. M[n + 1].id = p + 1
        OBVIOUS
      <4>3. QED BY <3>2, <4>1, <4>2
    <3>3. CASE i > n
      <4>1. PICK j \in 1 .. m - 1 : i = n + j
        <5>1. i - n \in 1 .. m - 1 /\ i = n + (i - n)
          BY <3>3
        <5>2. QED BY <5>1
      <4>2. j \in 1 .. m /\ j + 1 \in 1 .. m /\ j # m /\ i + 1 = n + (j + 1)
        BY <4>1
      <4>3. QED BY <4>1, <4>2, ZenonT(40)
    <3>4. QED BY <3>1, <3>2, <3>3
  <2>2. M[n + m].last /\ M[n + m].id = p + 1
    <3>1. m \in 1 .. m
      OBVIOUS
    <3>2. QED BY <3>1
  <2>3. QED BY <2>1, <2>2 DEF Chained
<1>2. Whole(M, n + m, first)
  <2> SUFFICES ASSUME NEW i \in 1 .. n + m, IF i = 1 THEN first ELSE M[i - 1].last,
                      NEW k \in i .. i + Ceil(M[i].len) - 2
               PROVE  k <= n + m /\ ~M[k].last
    BY DEF Whole, LongFrom
  <2>1. CASE i <= n
    <3>1. M[i] = L[i] /\ L[i].len \in Nat /\ Ceil(L[i].len) \in Nat
      BY <2>1, CeilGrows DEF WordRecords
    <3>2. IF i = 1 THEN first ELSE L[i - 1].last
      BY <2>1
    <3>3. LongFrom(L, n, i)
      BY <2>1, <3>2 DEF Whole
    <3>4. k \in i .. i + Ceil(L[i].len) - 2
      BY <3>1
    <3>5. k <= n /\ ~L[k].last
      BY <3>3, <3>4 DEF LongFrom
    <3>6. k \in 1 .. n
      BY <3>1, <3>4, <3>5
    <3>7. QED BY <3>5, <3>6
  <2>2. CASE i > n
    <3>1. PICK j \in 1 .. m : i = n + j
      <4>1. i - n \in 1 .. m /\ i = n + (i - n)
        BY <2>2
      <4>2. QED BY <4>1
    <3>2. j = 1
      <4>1. SUFFICES ASSUME j # 1 PROVE FALSE
        OBVIOUS
      <4>2. j - 1 \in 1 .. m /\ j - 1 # m /\ i - 1 = n + (j - 1) /\ i # 1
        BY <3>1, <4>1
      <4>3. ~M[i - 1].last
        BY <4>2
      <4>4. QED BY <4>2, <4>3
    <3>3. k \in n + 1 .. n + m - 1
      BY <3>1, <3>2
    <3>4. PICK h \in 1 .. m - 1 : k = n + h
      <4>1. k - n \in 1 .. m - 1 /\ k = n + (k - n)
        BY <3>3
      <4>2. QED BY <4>1
    <3>5. h \in 1 .. m /\ h # m
      OBVIOUS
    <3>6. ~M[n + h].last
      BY <3>5
    <3>7. QED BY <3>3, <3>4, <3>6
  <2>3. QED BY <2>1, <2>2
<1>3. QED BY <1>1, <1>2

IsPacket(words, id, len) ==
  /\ words \in Seq(WordRecords) /\ words # <<>> /\ Len(words) = Ceil(len)
  /\ Ceil(len) \in Nat /\ Ceil(len) > 0
  /\ \A i \in 1 .. Ceil(len) : words[i].id = id /\ words[i].len = len
                               /\ words[i].last = (i = Ceil(len))

LEMMA PacketWords ==
  ASSUME NEW id \in Int, NEW len \in Nat \ {0}
  PROVE  IsPacket(WordsOf(id, len), id, len)
<1>1. Ceil(len) \in Nat /\ Ceil(len) > 0
  BY CeilGrows
<1>2. \A i \in 1 .. Ceil(len) :
        [id |-> id, len |-> len, last |-> i = Ceil(len),
         units |-> IF i = Ceil(len) THEN len - (i - 1) * Word ELSE Word] \in WordRecords
  BY <1>1, CutterAssumption DEF WordRecords
<1>3. QED BY <1>1, <1>2 DEF WordsOf, IsPacket

(* A packet leaves.                                                        *)
LEMMA OneMore ==
  ASSUME NEW s, s \in Seq(Range(s)), NEW e
  PROVE  /\ Append(s, e) \in Seq(Range(Append(s, e)))
         /\ Len(s) \in Nat /\ Len(Append(s, e)) = Len(s) + 1
         /\ \A i \in 1 .. Len(s) : Append(s, e)[i] = s[i]
         /\ Append(s, e)[Len(s) + 1] = e
<1>1. s \in Seq(Range(s) \cup {e}) /\ Append(s, e) \in Seq(Range(s) \cup {e})
  OBVIOUS
<1>2. /\ Len(s) \in Nat /\ Len(Append(s, e)) = Len(s) + 1
      /\ DOMAIN Append(s, e) = 1 .. Len(s) + 1
      /\ \A i \in 1 .. Len(s) : Append(s, e)[i] = s[i]
      /\ Append(s, e)[Len(s) + 1] = e
  BY <1>1
<1>3. Append(s, e) \in Seq(Range(Append(s, e)))
  BY <1>1, <1>2 DEF Range
<1>4. QED BY <1>2, <1>3

LEMMA AtOutput ==
  ASSUME NEW c, Fields(c), NEW n
  PROVE  Fields(Emit(c, n)) /\ Emit(c, n).ids = c.ids \union {word.id}
<1> DEFINE w == word.id
           u == c.units + n
<1>1. Emit(c, n) = [c EXCEPT !.units = u, !.ids = @ \union {w}]
  BY DEF Emit
<1> HIDE DEF w, u
<1>2. Emit(c, n) = [c EXCEPT !.units = u, !.ids = c.ids \union {w}]
  BY <1>1
<1>3. QED BY <1>2 DEF Fields, w

(* The word at the head of the line is taken.                              *)
LEMMA WordTaken ==
  ASSUME Types, Chained(Line, Total, packets), NEW first, Whole(Line, Total, first),
         Take, UNCHANGED input
  PROVE  /\ fifo' \in Seq(WordRecords) /\ sending' \in Seq(WordRecords)
         /\ Total \in Nat /\ Total' = Total - 1 /\ Total > 0
         /\ word = Line[1] /\ word \in WordRecords
         /\ \A i \in 1 .. Total - 1 : Line'[i] = Line[i + 1]
         /\ Chained(Line', Total', packets') /\ Whole(Line', Total', word.last)
         /\ NextId = word.id /\ NextId' = IF word.last THEN NextId + 1 ELSE NextId
         /\ ~word.last => Total' > 0
<1>1. /\ fifo \in Seq(WordRecords) /\ sending \in Seq(WordRecords)
      /\ sending' = sending /\ packets' = packets
  BY DEF Types, input
<1>2. /\ Total \in Nat /\ \A i \in 1 .. Total : Line[i] \in WordRecords
      /\ Total > 0 /\ word = Line[1]
  BY <1>1, LineTypes DEF Take, word
<1>3. /\ fifo' \in Seq(WordRecords) /\ sending' \in Seq(WordRecords)
      /\ Total' = Total - 1 /\ \A i \in 1 .. Total - 1 : Line'[i] = Line[i + 1]
  BY <1>1, HeadGoes
<1>4. /\ Chained(Line', Total - 1, packets) /\ Whole(Line', Total - 1, Line[1].last)
      /\ Total = 1 => Line[1].last /\ Line[1].id = packets
      /\ Total > 1 => Line'[1].id = IF Line[1].last THEN Line[1].id + 1 ELSE Line[1].id
  <2> DEFINE L == Line
             M == Line'
             n == Total
  <2>1. /\ n \in Nat /\ n > 0 /\ \A i \in 1 .. n : L[i] \in WordRecords
        /\ \A i \in 1 .. n - 1 : M[i] = L[i + 1]
        /\ Chained(L, n, packets) /\ Whole(L, n, first)
    BY <1>2, <1>3
  <2> HIDE DEF L, M, n
  <2>2. /\ Chained(M, n - 1, packets) /\ Whole(M, n - 1, L[1].last)
        /\ n = 1 => L[1].last /\ L[1].id = packets
        /\ n > 1 => M[1].id = IF L[1].last THEN L[1].id + 1 ELSE L[1].id
    BY <2>1, Shorter
  <2>3. QED BY <2>2 DEF L, M, n
<1>5. NextId = Line[1].id
  BY <1>2 DEF NextId
<1>6. NextId' = IF Line[1].last THEN NextId + 1 ELSE NextId
  <2>1. NextId' = IF Total' = 0 THEN packets' + 1 ELSE Line'[1].id
    BY DEF NextId
  <2>2. CASE Total = 1
    <3>1. Total' = 0
      BY <1>3, <2>2
    <3>2. QED BY <1>1, <1>4, <1>5, <2>1, <2>2, <3>1
  <2>3. CASE Total # 1
    <3>1. Total > 1 /\ Total' # 0
      BY <1>2, <1>3, <2>3
    <3>2. QED BY <1>4, <1>5, <2>1, <3>1
  <2>4. QED BY <2>2, <2>3
<1>7. ~Line[1].last => Total' > 0
  BY <1>2, <1>3, <1>4
<1>8. word \in WordRecords
  <2>1. 1 \in 1 .. Total
    BY <1>2
  <2>2. QED BY <1>2, <2>1
<1>9. Chained(Line', Total', packets') /\ Whole(Line', Total', word.last)
  BY <1>1, <1>2, <1>3, <1>4
<1>10. QED BY <1>2, <1>3, <1>5, <1>6, <1>7, <1>8, <1>9

-----------------------------------------------------------------------------
(* What the user asks of the tools is written as register writes.          *)
LEMMA Asked ==
  ASSUME NEW b \in Nat
  PROVE  enable_cut(b) \in Seq(HostSteps)
         /\ \A i \in DOMAIN enable_cut(b) : enable_cut(b)[i][1] # "hash_en"
<1>1. CASE b <= Word
  BY <1>1 DEF enable_cut
<1>2. CASE ~(b <= Word)
  <2>1. Ceil(b) - 2 \in Nat
    <3>1. Word \in Nat /\ b > Word
      BY <1>2, CutterAssumption
    <3>2. QED BY <3>1, CeilGrows
  <2>2. Free(b) \in Nat
    <3>1. b % Word \in 0 .. Word - 1 /\ Word \in Nat \ {0}
      BY CutterAssumption
    <3> DEFINE r == Word - (b % Word)
    <3>2. r \in Nat
      BY <3>1
    <3> HIDE DEF r
    <3>3. r % Word \in Nat
      BY <3>1, <3>2
    <3>4. QED BY <3>3 DEF Free, r
  <2> DEFINE w == Ceil(b) - 2
             f == Free(b)
  <2>3. enable_cut(b) = << <<"words", w>>, <<"offset", f>>, <<"bytes", b>>, <<"en", 1>> >>
    BY <1>2 DEF enable_cut
  <2>4. w \in Nat /\ f \in Nat
    BY <2>1, <2>2
  <2> HIDE DEF w, f
  <2>5. QED BY <2>3, <2>4 DEF HostSteps
<1>3. QED BY <1>1, <1>2

LEMMA UserKeeps ==
  ASSUME CutterInv, UserActs
  PROVE  CutterInv'
<1> DEFINE Good(s) == s \in Seq(HostSteps)
                      /\ \A i \in DOMAIN s : s[i][1] = "hash_en" => s[i][2] = 1
<1>1. ASSUME NEW s, NEW t, Good(s), Good(t) PROVE Good(s \o t)
  <2> DEFINE P(x) == x[1] = "hash_en" => x[2] = 1
  <2>1. /\ s \in Seq(HostSteps) /\ \A i \in DOMAIN s : P(s[i])
        /\ t \in Seq(HostSteps) /\ \A i \in DOMAIN t : P(t[i])
    BY <1>1
  <2> HIDE DEF P
  <2> HIDE DEF HostSteps
  <2>2. /\ s \o t \in Seq(HostSteps) /\ Len(s) \in Nat /\ Len(t) \in Nat
        /\ DOMAIN s = 1 .. Len(s) /\ DOMAIN t = 1 .. Len(t)
        /\ DOMAIN (s \o t) = 1 .. Len(s) + Len(t)
    BY <2>1
  <2>3. ASSUME NEW i \in 1 .. Len(s) + Len(t) PROVE P((s \o t)[i])
    <3>1. CASE i <= Len(s)
      <4>1. i \in DOMAIN s /\ (s \o t)[i] = s[i]
        BY <2>1, <2>2, <3>1
      <4>2. QED BY <2>1, <4>1
    <3>2. CASE ~(i <= Len(s))
      <4>1. i - Len(s) \in DOMAIN t /\ (s \o t)[i] = t[i - Len(s)]
        BY <2>1, <2>2, <3>2
      <4>2. QED BY <2>1, <4>1
    <3>3. QED BY <3>1, <3>2
  <2>4. QED BY <2>2, <2>3 DEF P
<1>2. Good(disable_cut) /\ Good(display_cutter_status) /\ Good(<< <<"hash_en", 1>> >>)
  BY DEF disable_cut, display_cutter_status, HostSteps
<1>3. ASSUME NEW b \in Nat PROVE Good(enable_cut(b))
  BY Asked
<1>4. MinCut \in Nat /\ \A b \in CutLengths : b \in Nat
  BY CutterAssumption
<1> HIDE DEF Good
<1>5. Good(todo')
  BY <1>1, <1>2, <1>3, <1>4
     DEF UserActs, OnEnableCutter, OnDisableCutter, turple_capture_conf, InitMCli
<1>6. Types'
  BY <1>5 DEF CutterInv, Types, UserActs, regs, input, machine, history, Good, Fields
<1>7. QED
  BY <1>6 DEF CutterInv, UserActs, regs, input, machine, history, Input, Output, Cutting,
              Line, Total, NextId

LEMMA HostKeeps ==
  ASSUME CutterInv, HostStep
  PROVE  CutterInv'
<1> DEFINE r == Head(todo)[1]
           v == Head(todo)[2]
<1>1. /\ r \in {"words", "offset", "bytes", "en", "hash_en", "show"} /\ v \in Nat
      /\ r = "hash_en" => v = 1
      /\ Tail(todo) \in Seq(HostSteps)
      /\ \A i \in DOMAIN Tail(todo) : Tail(todo)[i][1] = "hash_en" => Tail(todo)[i][2] = 1
  <2>1. /\ todo \in Seq(HostSteps) /\ todo # <<>>
        /\ \A i \in DOMAIN todo : todo[i][1] = "hash_en" => todo[i][2] = 1
    BY DEF CutterInv, Types, HostStep
  <2> HIDE DEF r, v, HostSteps
  <2>2. Head(todo) = todo[1] /\ todo[1] \in HostSteps /\ 1 \in DOMAIN todo
    BY <2>1
  <2>3. r = todo[1][1] /\ v = todo[1][2]
    BY <2>2 DEF r, v
  <2>4. /\ Tail(todo) \in Seq(HostSteps)
        /\ \A i \in DOMAIN Tail(todo) : i + 1 \in DOMAIN todo /\ Tail(todo)[i] = todo[i + 1]
    BY <2>1
  <2>5. QED BY <2>1, <2>2, <2>3, <2>4 DEF HostSteps
<1>2. /\ todo' = Tail(todo)
      /\ cut_words' = IF r = "words" THEN v ELSE cut_words
      /\ cut_bytes' = IF r = "bytes" THEN v ELSE cut_bytes
      /\ hash_en' = IF r = "hash_en" THEN v ELSE hash_en
      /\ cur' = [cur EXCEPT !.steady = @ /\ r = "show"]
      /\ troubled' = (troubled \/ (state = "CUT_PACKET" /\ r = "bytes" /\ v # cut_bytes))
      /\ UNCHANGED <<packets, sending, fifo, state, pkt_cut_count, out>>
  BY DEF HostStep, input, machine
<1> HIDE DEF r, v
<1>3. Fields(cur') /\ cur'.ids = cur.ids
  BY <1>2 DEF CutterInv, Types, Fields
<1>4. Types'
  BY <1>1, <1>2, <1>3 DEF CutterInv, Types
<1>5. ASSUME ~troubled' PROVE Input' /\ Output' /\ Cutting'
  <2>1. /\ Input /\ Output /\ Cutting
        /\ state = "CUT_PACKET" => cut_bytes' = cut_bytes /\ (hash_en = 1 => hash_en' = 1)
    BY <1>1, <1>2, <1>5 DEF CutterInv
  <2>2. Line' = Line /\ Total' = Total /\ NextId' = NextId
    BY <1>2 DEF Line, Total, NextId
  <2>3. Input'
    BY <1>2, <2>1, <2>2 DEF Input
  <2>4. Output'
    BY <1>2, <1>3, <2>1, <2>2 DEF Output
  <2>5. Cutting'
    BY <1>2, <2>1, <2>2 DEF Cutting
  <2>6. QED BY <2>3, <2>4, <2>5
<1>6. QED BY <1>4, <1>5 DEF CutterInv

LEMMA ArriveKeeps ==
  ASSUME CutterInv, Arrive
  PROVE  CutterInv'
<1>1. Types /\ UNCHANGED <<host, machine, history>> /\ NextWord
  BY DEF CutterInv, Arrive, NextWord
<1>2. CASE sending # <<>>
  <2>1. /\ fifo \in Seq(WordRecords) /\ sending \in Seq(WordRecords) /\ packets' = packets
        /\ fifo' = Append(fifo, Head(sending)) /\ sending' = Tail(sending)
    BY <1>1, <1>2 DEF Types, NextWord
  <2>2. /\ fifo' \in Seq(WordRecords) /\ sending' \in Seq(WordRecords)
        /\ Total' = Total /\ Line' = Line
    BY <1>2, <2>1, WordEnters
  <2>3. NextId' = NextId
    BY <2>1, <2>2 DEF NextId
  <2>4. QED
    BY <1>1, <2>1, <2>2, <2>3
       DEF CutterInv, Types, Input, Output, Cutting, host, regs, machine, history, Fields
<1>3. CASE sending = <<>>
  <2>1. PICK len \in PktLengths :
          /\ packets' = packets + 1
          /\ fifo' = Append(fifo, Head(WordsOf(packets + 1, len)))
          /\ sending' = Tail(WordsOf(packets + 1, len))
    BY <1>1, <1>3 DEF NextWord
  <2> DEFINE words == WordsOf(packets + 1, len)
             m == Ceil(len)
  <2>2. packets \in Nat /\ fifo \in Seq(WordRecords) /\ sending \in Seq(WordRecords)
    BY <1>1 DEF Types
  <2>3. /\ words \in Seq(WordRecords) /\ words # <<>> /\ Len(words) = m
        /\ m \in Nat /\ m > 0
        /\ \A i \in 1 .. m : words[i].id = packets + 1 /\ words[i].len = len
                              /\ words[i].last = (i = m)
    <3>1. packets + 1 \in Int /\ len \in Nat \ {0}
      BY <2>2, CutterAssumption
    <3>2. IsPacket(words, packets + 1, len)
      BY <3>1, PacketWords
    <3> HIDE DEF words
    <3>3. QED BY <3>2 DEF IsPacket
  <2>4. fifo' = Append(fifo, Head(words)) /\ sending' = Tail(words)
    BY <2>1
  <2> HIDE DEF words
  <2>5. /\ fifo' \in Seq(WordRecords) /\ sending' \in Seq(WordRecords)
        /\ Total' = Total + m
        /\ \A i \in 1 .. Total : Line'[i] = Line[i]
        /\ \A i \in 1 .. m : Line'[Total + i] = words[i]
    BY <1>3, <2>2, <2>3, <2>4, PacketEnters
  <2>6. Total \in Nat /\ \A i \in 1 .. Total : Line[i] \in WordRecords
    BY <2>2, LineTypes
  <2>7. Types'
    BY <1>1, <2>1, <2>2, <2>5 DEF Types, host, regs, machine, history, Fields
  <2>8. ASSUME ~troubled' PROVE Input' /\ Output' /\ Cutting'
    <3>1. Input /\ Output /\ Cutting
      BY <1>1, <2>8 DEF CutterInv, history
    <3>2. state' = state /\ pkt_cut_count' = pkt_cut_count /\ hash_en' = hash_en
          /\ cut_bytes' = cut_bytes /\ cur' = cur /\ out' = out
      BY <1>1 DEF host, regs, machine, history
    <3> DEFINE first == state \in {"WAIT_PKT", "SEND_LAST_WORD"}
               L == Line
               M == Line'
               n == Total
    <3>3. /\ n \in Nat /\ \A i \in 1 .. n : L[i] \in WordRecords /\ M[i] = L[i]
          /\ \A i \in 1 .. m : M[n + i].id = packets + 1 /\ M[n + i].last = (i = m)
                                /\ M[n + i].len = len
          /\ Chained(L, n, packets) /\ Whole(L, n, first)
      <4>1. n \in Nat /\ \A i \in 1 .. n : L[i] \in WordRecords /\ M[i] = L[i]
        BY <2>5, <2>6, Zenon
      <4>2. \A i \in 1 .. m : M[n + i] = words[i]
        BY <2>5, Zenon
      <4>3. \A i \in 1 .. m : M[n + i].id = packets + 1 /\ M[n + i].last = (i = m)
                                /\ M[n + i].len = len
        BY <4>2, <2>3, Zenon
      <4>4. Chained(L, n, packets) /\ Whole(L, n, first)
        BY <3>1, Zenon DEF Input
      <4>5. QED BY <4>1, <4>3, <4>4, Zenon
    <3>4. packets \in Int /\ m \in Nat /\ m > 0 /\ Ceil(len) = m
      BY <2>2, <2>3
    <3> HIDE DEF L, M, n, m, first
    <3>5. Chained(M, n + m, packets + 1) /\ Whole(M, n + m, first)
      BY <3>3, <3>4, Longer
    <3>6. Input'
      BY <2>1, <2>5, <3>2, <3>5 DEF Input, L, M, n, first
    <3>7. NextId' = NextId /\ Total' > 0 /\ (Total > 0 => Line'[1] = Line[1])
      <4>1. Total' > 0 /\ Total' # 0
        BY <2>5, <2>6, <3>4
      <4>2. NextId' = Line'[1].id
        BY <4>1 DEF NextId
      <4>3. CASE Total = 0
        <5>1. 1 \in 1 .. m /\ n + 1 = 1
          BY <3>4, <4>3 DEF n
        <5>2. Line'[1].id = packets + 1
          BY <3>3, <5>1 DEF M
        <5>3. QED BY <4>1, <4>2, <4>3, <5>2 DEF NextId
      <4>4. CASE Total # 0
        <5>1. 1 \in 1 .. Total
          BY <2>6, <4>4
        <5>2. QED BY <2>5, <4>1, <4>2, <4>4, <5>1 DEF NextId
      <4>5. QED BY <4>3, <4>4
    <3>8. Output'
      BY <3>1, <3>2, <3>7 DEF Output
    <3>9. Cutting'
      <4>1. Total' \in Nat /\ Total <= Total'
        BY <2>5, <2>6, <3>4
      <4>2. ASSUME NEW k \in 1 .. Ceil(cut_bytes) - pkt_cut_count, state = "CUT_PACKET"
            PROVE  k <= Total' /\ ~Line'[k].last
        <5>1. k <= Total /\ ~Line[k].last
          BY <3>1, <4>2 DEF Cutting
        <5>2. k \in Int /\ k >= 1
          OBVIOUS
        <5>3. k \in 1 .. Total
          BY <2>6, <5>1, <5>2
        <5>4. QED BY <2>5, <2>6, <4>1, <5>1, <5>3
      <4>3. QED BY <3>1, <3>2, <4>2 DEF Cutting
    <3>10. QED BY <3>6, <3>8, <3>9
  <2>9. QED BY <2>7, <2>8 DEF CutterInv
<1>4. QED BY <1>2, <1>3

-----------------------------------------------------------------------------
(* The packet at the output.                                               *)
LEMMA PacketLeaves ==
  ASSUME out \in Seq(Range(out)), NEW c, Leaves(c)
  PROVE  /\ out' \in Seq(Range(out')) /\ Fields(cur') /\ cur'.ids = {}
         /\ Len(out) \in Nat /\ Len(out') = Len(out) + 1
         /\ (\A i \in 1 .. Len(out) : out[i].ids = {i}) /\ c.ids = {Len(out) + 1}
              => \A i \in 1 .. Len(out') : out'[i].ids = {i}
<1>1. /\ out' \in Seq(Range(out'))
      /\ Len(out) \in Nat /\ Len(out') = Len(out) + 1
      /\ \A i \in 1 .. Len(out) : out'[i] = out[i]
      /\ out'[Len(out) + 1] = c
  <2>1. out' = Append(out, c)
    BY DEF Leaves
  <2>2. /\ Append(out, c) \in Seq(Range(Append(out, c)))
        /\ Len(out) \in Nat /\ Len(Append(out, c)) = Len(out) + 1
        /\ \A i \in 1 .. Len(out) : Append(out, c)[i] = out[i]
        /\ Append(out, c)[Len(out) + 1] = c
    BY OneMore
  <2> DEFINE o == Append(out, c)
  <2>3. out' = o /\ o \in Seq(Range(o)) /\ Len(out) \in Nat /\ Len(o) = Len(out) + 1
        /\ (\A i \in 1 .. Len(out) : o[i] = out[i]) /\ o[Len(out) + 1] = c
    BY <2>1, <2>2
  <2> HIDE DEF o
  <2>4. QED BY <2>3, Zenon DEF Range
<1>2. Fields(cur') /\ cur'.ids = {}
  BY DEF Leaves, Nothing, Fields
<1> DEFINE n == Len(out)
           o == out'
<1>3. ASSUME \A i \in 1 .. n : out[i].ids = {i}, c.ids = {n + 1}, NEW i \in 1 .. n + 1
      PROVE  o[i].ids = {i}
  <2>1. n \in Nat /\ (\A k \in 1 .. n : o[k] = out[k]) /\ o[n + 1] = c
    BY <1>1
  <2> HIDE DEF n, o
  <2>2. CASE i <= n
    BY <1>3, <2>1, <2>2
  <2>3. CASE i = n + 1
    BY <1>3, <2>1, <2>3
  <2>4. QED BY <2>1, <2>2, <2>3
<1>4. QED BY <1>1, <1>2, <1>3

LEMMA WordPasses ==
  ASSUME out \in Seq(Range(out)), NEW c, Fields(c), Pass(c)
  PROVE  /\ out' \in Seq(Range(out')) /\ Fields(cur')
         /\ c.ids \subseteq {Len(out) + 1} /\ word.id = Len(out) + 1
             /\ (\A i \in 1 .. Len(out) : out[i].ids = {i})
              => /\ \A i \in 1 .. Len(out') : out'[i].ids = {i}
                 /\ IF word.last THEN cur'.ids = {} /\ Len(out') = Len(out) + 1
                    ELSE cur'.ids = {Len(out) + 1} /\ out' = out
<1> DEFINE e == Emit(c, word.units)
<1>1. Fields(e) /\ e.ids = c.ids \union {word.id}
  BY AtOutput
<1>2. CASE word.last
  <2>1. Leaves(e)
    BY <1>2 DEF Pass
  <2> HIDE DEF e
  <2>2. /\ out' \in Seq(Range(out')) /\ Fields(cur') /\ cur'.ids = {}
        /\ Len(out') = Len(out) + 1
        /\ (\A i \in 1 .. Len(out) : out[i].ids = {i}) /\ e.ids = {Len(out) + 1}
              => \A i \in 1 .. Len(out') : out'[i].ids = {i}
    BY <2>1, PacketLeaves
  <2>3. c.ids \subseteq {Len(out) + 1} /\ word.id = Len(out) + 1 => e.ids = {Len(out) + 1}
    BY <1>1
  <2>4. QED BY <1>2, <2>2, <2>3, Zenon
<1>3. CASE ~word.last
  <2>1. cur' = e /\ out' = out
    BY <1>3 DEF Pass, Stays
  <2> HIDE DEF e
  <2>2. c.ids \subseteq {Len(out) + 1} /\ word.id = Len(out) + 1 => e.ids = {Len(out) + 1}
    BY <1>1
  <2>3. Fields(cur')
    BY <1>1, <2>1
  <2>4. QED BY <1>3, <2>1, <2>2, <2>3, Zenon
<1>4. QED BY <1>2, <1>3

LEMMA Marked ==
  ASSUME NEW c, Fields(c)
  PROVE  Fields([c EXCEPT !.twice = TRUE])
<1> DEFINE d == [c EXCEPT !.twice = TRUE]
<1>1. d = [c EXCEPT !.twice = TRUE]
  OBVIOUS
<1>2. Fields(d)
  <2> HIDE DEF d
  <2> QED BY <1>1 DEF Fields
<1>3. QED BY <1>2

(* The record of a packet that begins.                                     *)
Begun(f) ==
  [Nothing EXCEPT !.len = word.len, !.claimed = pkt_len, !.en = cut_en, !.bytes = cut_bytes,
     !.hash_off = hash_en, !.astray = f, !.steady = (todo = <<>>)]

LEMMA BegunIs ==
  ASSUME NEW f
  PROVE  /\ Fields(Begun(f)) /\ Begun(f).ids = {} /\ Begun(f).len = word.len
         /\ Begun(f).claimed = pkt_len /\ Begun(f).en = cut_en /\ Begun(f).bytes = cut_bytes
         /\ Begun(f).hash_off = hash_en /\ Begun(f).units = 0 /\ Begun(f).astray = f
         /\ Begun(f).steady = (todo = <<>>)
<1> DEFINE t == todo = <<>>
           l == word.len
           z == Nothing
           b == Begun(f)
<1>1. Fields(z) /\ z.ids = {} /\ z.units = 0
  BY DEF Nothing, Fields
<1>2. b = [z EXCEPT !.len = l, !.claimed = pkt_len, !.en = cut_en, !.bytes = cut_bytes,
             !.hash_off = hash_en, !.astray = f, !.steady = t]
  BY DEF Begun
<1> HIDE DEF t, l, z, b
<1>3. /\ Fields(b) /\ b.ids = {} /\ b.len = l /\ b.claimed = pkt_len /\ b.en = cut_en
      /\ b.bytes = cut_bytes /\ b.hash_off = hash_en /\ b.units = 0 /\ b.astray = f
      /\ b.steady = t
  BY <1>1, <1>2 DEF Fields
<1> QED BY <1>3, Zenon DEF t, l, b

-----------------------------------------------------------------------------
(* The machine keeps the types.                                            *)
LEMMA EdgeTypes ==
  ASSUME Types, Edge
  PROVE  Types'
<1> USE DEF host, regs, input, machine, history
<1>1. /\ fifo \in Seq(WordRecords) /\ sending \in Seq(WordRecords)
      /\ out \in Seq(Range(out)) /\ Fields(cur) /\ pkt_cut_count \in Nat
  BY DEF Types
<1>2. UNCHANGED <<packets, sending, cut_bytes, cut_words, hash_en, todo>>
  BY DEF Edge, WaitIdle, WaitPkt, InPacket, StartHash, CompletePkt, SendLastWord,
         CutPacket, CutStarved, CutPacketWait
<1>3. /\ state' \in {"WAIT_PKT", "IN_PACKET", "START_HASH", "COMPLETE_PKT", "SEND_LAST_WORD",
                     "CUT_PACKET", "CUT_PACKET_WAIT"}
      /\ pkt_cut_count' \in Nat
  BY <1>1 DEF Types, Edge, WaitIdle, WaitPkt, InPacket, StartHash, CompletePkt, SendLastWord,
         CutPacket, CutStarved, CutPacketWait
<1>4. fifo' \in Seq(WordRecords)
  <2>1. fifo' = fifo \/ (fifo # <<>> /\ fifo' = Tail(fifo))
    BY DEF Edge, WaitIdle, WaitPkt, InPacket, StartHash, CompletePkt, SendLastWord,
           CutPacket, CutStarved, CutPacketWait, Take
  <2> HIDE DEF WordRecords
  <2>2. fifo # <<>> => Tail(fifo) \in Seq(WordRecords)
    BY <1>1
  <2>3. QED BY <1>1, <2>1, <2>2
<1>5. Fields(cur') /\ out' \in Seq(Range(out'))
  <2>1. CASE UNCHANGED <<cur, out>>
    BY <1>1, <2>1
  <2>2. ASSUME NEW c, Leaves(c) PROVE Fields(cur') /\ out' \in Seq(Range(out'))
    BY <1>1, <2>2, PacketLeaves
  <2>3. ASSUME NEW c, NEW n, Fields(c), Stays(Emit(c, n))
        PROVE  Fields(cur') /\ out' \in Seq(Range(out'))
    BY <1>1, <2>3, AtOutput DEF Stays
  <2>4. ASSUME NEW c, Fields(c), Pass(c) PROVE Fields(cur') /\ out' \in Seq(Range(out'))
    BY <1>1, <2>4, WordPasses
  <2>5. CASE WaitPkt
    <3> DEFINE cutting == pkt_cuttable /\ hash_en = 1
               first == Begun(cutting /\ pkt_cut_count # 1)
    <3>1. Fields(first)
      BY BegunIs
    <3>2. Stays(Emit(first, word.units)) \/ Pass(first)
      BY <2>5 DEF WaitPkt, Begun
    <3> HIDE DEF first
    <3>3. QED BY <2>3, <2>4, <3>1, <3>2
  <2>6. CASE InPacket
    BY <1>1, <2>1, <2>4, <2>6 DEF InPacket
  <2>7. CASE CompletePkt
    BY <1>1, <2>2, <2>3, <2>7 DEF CompletePkt
  <2>8. CASE SendLastWord
    BY <2>2, <2>8 DEF SendLastWord
  <2>9. CASE CutPacket
    BY <1>1, <2>2, <2>3, <2>9 DEF CutPacket
  <2>10. CASE CutStarved
    <3> DEFINE again == [cur EXCEPT !.twice = TRUE]
    <3>1. \/ cur' = again /\ out' = out
          \/ cur' = [Nothing EXCEPT !.twice = TRUE] /\ out' = Append(out, again)
      BY <2>10 DEF CutStarved, Stays
    <3>2. Fields(again) /\ Fields([Nothing EXCEPT !.twice = TRUE])
      <4>1. Fields(Nothing)
        BY DEF Fields, Nothing
      <4>2. QED BY <1>1, <4>1, Marked
    <3>3. Append(out, again) \in Seq(Range(Append(out, again)))
      BY <1>1, OneMore
    <3> DEFINE o == Append(out, again)
    <3>4. out' = o => out' \in Seq(Range(out'))
      <4>1. o \in Seq(Range(o))
        BY <3>3
      <4> HIDE DEF o
      <4> QED BY <4>1, Zenon DEF Range
    <3> QED BY <1>1, <3>1, <3>2, <3>4
  <2>11. QED
    BY <2>1, <2>5, <2>6, <2>7, <2>8, <2>9, <2>10 DEF Edge, WaitIdle, StartHash, CutPacketWait
<1>6. QED BY <1>2, <1>3, <1>4, <1>5 DEF Types

-----------------------------------------------------------------------------
(* Each state of the machine keeps the words in their packets.             *)
Kept == Input' /\ Output' /\ Cutting'

LEMMA WaitPktKeeps ==
  ASSUME Types, Input, Output, Cutting, WaitPkt, ~troubled'
  PROVE  Kept
<1> DEFINE cutting == pkt_cuttable /\ hash_en = 1
           n == Len(out) + 1
           first == Begun(cutting /\ pkt_cut_count # 1)
<1>1. /\ state = "WAIT_PKT" /\ Take /\ UNCHANGED <<host, input>>
      /\ cutting => /\ pkt_cut_count' = pkt_cut_count + 1 /\ state' = "CUT_PACKET"
                    /\ Stays(Emit(first, word.units)) /\ pkt_cut_count = 1
      /\ ~cutting => /\ pkt_cut_count' = 1
                     /\ state' = IF word.last THEN "WAIT_PKT" ELSE "IN_PACKET"
                     /\ Pass(first)
  <2>1. first.astray = (cutting /\ pkt_cut_count # 1)
    BY BegunIs
  <2>2. /\ state = "WAIT_PKT" /\ Take /\ UNCHANGED <<host, input>>
        /\ cutting => /\ pkt_cut_count' = pkt_cut_count + 1 /\ state' = "CUT_PACKET"
                      /\ Stays(Emit(first, word.units))
        /\ ~cutting => /\ pkt_cut_count' = 1
                       /\ state' = IF word.last THEN "WAIT_PKT" ELSE "IN_PACKET"
                       /\ Pass(first)
        /\ troubled' = (troubled \/ first.astray)
    BY DEF WaitPkt, Begun
  <2> HIDE DEF first
  <2> QED BY <2>1, <2>2, Zenon
<1>2. Fields(first) /\ first.ids = {}
  BY BegunIs
<1>3. Chained(Line, Total, packets) /\ Whole(Line, Total, TRUE)
  BY <1>1 DEF Input
<1>4. /\ Total \in Nat /\ Total' = Total - 1 /\ Total > 0
      /\ word = Line[1] /\ word \in WordRecords
      /\ \A i \in 1 .. Total - 1 : Line'[i] = Line[i + 1]
      /\ Chained(Line', Total', packets') /\ Whole(Line', Total', word.last)
      /\ NextId = word.id /\ NextId' = IF word.last THEN NextId + 1 ELSE NextId
      /\ ~word.last => Total' > 0
  BY <1>1, <1>3, WordTaken
<1>5. /\ NextId = n /\ word.id = n /\ Len(out) \in Nat /\ out \in Seq(Range(out))
      /\ \A i \in 1 .. Len(out) : out[i].ids = {i}
  BY <1>1, <1>4, SMTT(40) DEF Output, Types
<1>6. cut_bytes' = cut_bytes /\ hash_en' = hash_en
  BY <1>1 DEF host, regs
<1> HIDE DEF first
<1>7. CASE cutting
  <2>1. /\ pkt_cut_count' = 2 /\ state' = "CUT_PACKET" /\ hash_en = 1 /\ out' = out
        /\ cur' = Emit(first, word.units)
    BY <1>1, <1>6, <1>7 DEF Stays
  <2>2. /\ word.len \in Nat /\ cut_bytes \in Nat /\ word.len > cut_bytes
        /\ cut_bytes >= MinCut
    BY <1>4, <1>7, <2>1 DEF pkt_cuttable, len_pkt_cut, WordRecords, Types
  <2>3. cut_bytes > Word
    BY <2>2, CutterAssumption
  <2>4. /\ Ceil(cut_bytes) \in Nat /\ Ceil(word.len) \in Nat
        /\ Ceil(cut_bytes) <= Ceil(word.len) /\ Ceil(cut_bytes) > 1
    <3>1. /\ Ceil(cut_bytes) \in Nat /\ Ceil(word.len) \in Nat
          /\ Ceil(cut_bytes) <= Ceil(word.len)
      BY <2>2, CeilGrows
    <3>2. cut_bytes <= cut_bytes
      BY <2>2
    <3>3. Ceil(cut_bytes) > 1
      BY <2>2, <2>3, <3>2, CeilGrows
    <3>4. QED BY <3>1, <3>3
  <2>5. LongFrom(Line, Total, 1)
    BY <1>3, <1>4 DEF Whole
  <2>6. ASSUME NEW k \in 1 .. Ceil(cut_bytes) - 1 PROVE k <= Total /\ ~Line[k].last
    <3>1. k \in 1 .. 1 + Ceil(Line[1].len) - 2
      BY <1>4, <2>1, <2>4
    <3>2. QED BY <2>5, <3>1 DEF LongFrom
  <2>7. ~word.last
    <3>1. 1 \in 1 .. Ceil(cut_bytes) - 1
      BY <2>4
    <3>2. QED BY <1>4, <2>6, <3>1
  <2>8. cur'.ids = {n} /\ Len(out') + 1 = n
    BY <1>2, <1>5, <2>1, AtOutput
  <2>9. ASSUME NEW k \in 1 .. Ceil(cut_bytes) - 2 PROVE k <= Total' /\ ~Line'[k].last
    <3>1. k + 1 \in 1 .. Ceil(cut_bytes) - 1
      BY <2>4
    <3>2. k + 1 <= Total /\ ~Line[k + 1].last
      BY <2>6, <3>1
    <3>3. k \in 1 .. Total - 1
      BY <1>4, <2>4, <3>2
    <3>4. QED BY <1>4, <3>2, <3>3
  <2>10. Cutting'
    BY <1>6, <2>1, <2>4, <2>9 DEF Cutting
  <2>11. Output'
    BY <1>4, <1>5, <2>1, <2>7, <2>8 DEF Output
  <2>12. Input'
    <3>1. word.last = (state' \in {"WAIT_PKT", "SEND_LAST_WORD"})
      BY <1>4, <2>1, <2>7 DEF WordRecords
    <3>2. QED BY <1>4, <3>1 DEF Input
  <2>13. QED BY <2>10, <2>11, <2>12 DEF Kept
<1>8. CASE ~cutting
  <2>1. /\ pkt_cut_count' = 1 /\ state' = IF word.last THEN "WAIT_PKT" ELSE "IN_PACKET"
        /\ Pass(first)
    BY <1>1, <1>8
  <2>2. first.ids \subseteq {n}
    BY <1>2
  <2>3. /\ \A i \in 1 .. Len(out') : out'[i].ids = {i}
        /\ IF word.last THEN cur'.ids = {} /\ Len(out') = Len(out) + 1
           ELSE cur'.ids = {n} /\ out' = out
    BY <1>2, <1>5, <2>1, <2>2, WordPasses
  <2>4. Cutting'
    BY <2>1 DEF Cutting
  <2>5. Output'
    BY <1>4, <1>5, <2>1, <2>3 DEF Output
  <2>6. Input'
    <3>1. word.last = (state' \in {"WAIT_PKT", "SEND_LAST_WORD"})
      BY <1>4, <2>1 DEF WordRecords
    <3>2. QED BY <1>4, <3>1 DEF Input
  <2>7. QED BY <2>4, <2>5, <2>6 DEF Kept
<1>9. QED BY <1>7, <1>8

LEMMA LineStays ==
  ASSUME UNCHANGED <<fifo, input>>
  PROVE  Line' = Line /\ Total' = Total /\ NextId' = NextId /\ packets' = packets
<1>1. fifo' = fifo /\ sending' = sending /\ packets' = packets
  BY DEF input
<1>2. Line' = Line /\ Total' = Total
  BY <1>1 DEF Line, Total
<1>3. QED BY <1>1, <1>2 DEF NextId

LEMMA InPacketKeeps ==
  ASSUME Types, Input, Output, Cutting, InPacket, ~troubled'
  PROVE  Kept
<1>1. /\ state = "IN_PACKET" /\ UNCHANGED <<host, input, troubled>> /\ pkt_cut_count' = 1
      /\ out \in Seq(Range(out)) /\ Fields(cur)
  BY DEF InPacket, Types
<1>2. /\ Chained(Line, Total, packets)
      /\ Whole(Line, Total, state \in {"WAIT_PKT", "SEND_LAST_WORD"})
      /\ cur.ids = {Len(out) + 1} /\ NextId = Len(out) + 1 /\ Total > 0
      /\ \A i \in 1 .. Len(out) : out[i].ids = {i}
  BY <1>1 DEF Input, Output
<1>3. CASE /\ Take /\ Pass(cur)
           /\ state' = IF word.last THEN "WAIT_PKT" ELSE "IN_PACKET"
  <2>1. /\ Total \in Nat /\ Total' = Total - 1 /\ Total > 0
        /\ word = Line[1] /\ word \in WordRecords
        /\ \A i \in 1 .. Total - 1 : Line'[i] = Line[i + 1]
        /\ Chained(Line', Total', packets') /\ Whole(Line', Total', word.last)
        /\ NextId = word.id /\ NextId' = IF word.last THEN NextId + 1 ELSE NextId
        /\ ~word.last => Total' > 0
    BY <1>1, <1>2, <1>3, WordTaken
  <2>2. /\ \A i \in 1 .. Len(out') : out'[i].ids = {i}
        /\ IF word.last THEN cur'.ids = {} /\ Len(out') = Len(out) + 1
           ELSE cur'.ids = {Len(out) + 1} /\ out' = out
    BY <1>1, <1>2, <1>3, <2>1, WordPasses
  <2>3. Cutting'
    BY <1>1, <1>3 DEF Cutting
  <2>4. Output'
    BY <1>2, <1>3, <2>1, <2>2 DEF Output
  <2>5. Input'
    <3>1. word.last = (state' \in {"WAIT_PKT", "SEND_LAST_WORD"})
      BY <1>3, <2>1 DEF WordRecords
    <3>2. QED BY <2>1, <3>1 DEF Input
  <2>6. QED BY <2>3, <2>4, <2>5 DEF Kept
<1>4. CASE word.last /\ state' = "COMPLETE_PKT" /\ UNCHANGED <<fifo, cut_counter, cur, out>>
  <2>1. Line' = Line /\ Total' = Total /\ NextId' = NextId /\ packets' = packets
    BY <1>1, <1>4, LineStays
  <2>2. word = Line[1]
    BY <1>1, LineTypes DEF InPacket, Types, word
  <2>3. QED BY <1>1, <1>2, <1>4, <2>1, <2>2 DEF Kept, Input, Output, Cutting
<1>5. CASE ~word.last /\ Take /\ state' = "START_HASH" /\ UNCHANGED <<cut_counter, cur, out>>
  <2>1. /\ Total \in Nat /\ Total' = Total - 1 /\ Total > 0
        /\ word = Line[1] /\ word \in WordRecords
        /\ \A i \in 1 .. Total - 1 : Line'[i] = Line[i + 1]
        /\ Chained(Line', Total', packets') /\ Whole(Line', Total', word.last)
        /\ NextId = word.id /\ NextId' = IF word.last THEN NextId + 1 ELSE NextId
        /\ ~word.last => Total' > 0
    BY <1>1, <1>2, <1>5, WordTaken
  <2>2. Output'
    BY <1>2, <1>5, <2>1 DEF Output
  <2>3. Input'
    <3>1. word.last = (state' \in {"WAIT_PKT", "SEND_LAST_WORD"})
      BY <1>5, <2>1 DEF WordRecords
    <3>2. QED BY <2>1, <3>1 DEF Input
  <2>4. QED BY <1>1, <1>5, <2>2, <2>3 DEF Kept, Cutting
<1>6. QED BY <1>3, <1>4, <1>5 DEF InPacket

LEMMA StartHashKeeps ==
  ASSUME Types, Input, Output, Cutting, StartHash, ~troubled'
  PROVE  Kept
<1>1. /\ state = "START_HASH" /\ UNCHANGED <<host, input, cur, out>>
      /\ pkt_cut_count' = pkt_cut_count /\ fifo # <<>>
  BY DEF StartHash, history
<1>2. /\ Chained(Line, Total, packets)
      /\ Whole(Line, Total, state \in {"WAIT_PKT", "SEND_LAST_WORD"})
      /\ cur.ids = {Len(out) + 1} /\ NextId = Len(out) + 1 /\ Total > 0
      /\ \A i \in 1 .. Len(out) : out[i].ids = {i}
  BY <1>1 DEF Input, Output, Cutting
<1>3. CASE word.last
  <2>1. state' = "COMPLETE_PKT" /\ fifo' = fifo
    BY <1>3 DEF StartHash
  <2>2. Line' = Line /\ Total' = Total /\ NextId' = NextId /\ packets' = packets
    BY <1>1, <2>1, LineStays
  <2>3. word = Line[1]
    BY <1>1, LineTypes DEF Types, word
  <2>4. QED BY <1>1, <1>2, <1>3, <2>1, <2>2, <2>3 DEF Kept, Input, Output, Cutting
<1>4. CASE ~word.last
  <2>1. Take /\ state' = "START_HASH"
    BY <1>1, <1>4 DEF StartHash
  <2>2. /\ Total \in Nat /\ Total' = Total - 1 /\ Total > 0
        /\ word = Line[1] /\ word \in WordRecords
        /\ \A i \in 1 .. Total - 1 : Line'[i] = Line[i + 1]
        /\ Chained(Line', Total', packets') /\ Whole(Line', Total', word.last)
        /\ NextId = word.id /\ NextId' = IF word.last THEN NextId + 1 ELSE NextId
        /\ ~word.last => Total' > 0
    BY <1>1, <1>2, <2>1, WordTaken
  <2>3. Output'
    BY <1>1, <1>2, <1>4, <2>1, <2>2 DEF Output
  <2>4. Input'
    <3>1. word.last = (state' \in {"WAIT_PKT", "SEND_LAST_WORD"})
      BY <1>4, <2>1, <2>2 DEF WordRecords
    <3>2. QED BY <2>2, <3>1 DEF Input
  <2>5. QED BY <2>1, <2>3, <2>4 DEF Kept, Cutting
<1>5. QED BY <1>3, <1>4

LEMMA CompletePktKeeps ==
  ASSUME Types, Input, Output, Cutting, CompletePkt, ~troubled'
  PROVE  Kept
<1> DEFINE whole == Emit(cur, Word - bytes_free + Hash)
           part == Emit(cur, Word)
<1>1. /\ state = "COMPLETE_PKT" /\ Take /\ UNCHANGED <<host, input>>
      /\ pkt_cut_count' = pkt_cut_count
      /\ \/ state' = "SEND_LAST_WORD" /\ Stays(part)
         \/ state' = "WAIT_PKT" /\ Leaves(whole)
      /\ out \in Seq(Range(out)) /\ Fields(cur)
  BY DEF CompletePkt, Types
<1>2. /\ Chained(Line, Total, packets)
      /\ Whole(Line, Total, state \in {"WAIT_PKT", "SEND_LAST_WORD"})
      /\ cur.ids = {Len(out) + 1} /\ NextId = Len(out) + 1 /\ Total > 0 /\ Line[1].last
  BY <1>1 DEF Input, Output, Cutting
<1>3. \A i \in 1 .. Len(out) : out[i].ids = {i}
  BY DEF Output
<1>4. /\ Total \in Nat /\ Total' = Total - 1 /\ Total > 0
      /\ word = Line[1] /\ word \in WordRecords
      /\ \A i \in 1 .. Total - 1 : Line'[i] = Line[i + 1]
      /\ Chained(Line', Total', packets') /\ Whole(Line', Total', word.last)
      /\ NextId = word.id /\ NextId' = IF word.last THEN NextId + 1 ELSE NextId
      /\ ~word.last => Total' > 0
  BY <1>1, <1>2, WordTaken
<1>5. whole.ids = {Len(out) + 1} /\ part.ids = {Len(out) + 1}
  BY <1>1, <1>2, <1>4, AtOutput
<1> HIDE DEF whole, part
<1>6. state' \in {"WAIT_PKT", "SEND_LAST_WORD"} /\ word.last
  BY <1>1, <1>2, <1>4
<1>7. Input'
  <2>1. word.last = (state' \in {"WAIT_PKT", "SEND_LAST_WORD"})
    BY <1>4, <1>6 DEF WordRecords
  <2>2. QED BY <1>4, <2>1 DEF Input
<1>8. Cutting'
  BY <1>1, <1>2 DEF Cutting
<1>9. Output'
  <2>1. CASE state' = "SEND_LAST_WORD" /\ Stays(part)
    <3>1. cur'.ids = {Len(out') + 1} /\ out' = out
      BY <1>5, <2>1 DEF Stays
    <3>2. QED BY <1>2, <1>3, <1>4, <1>6, <2>1, <3>1 DEF Output
  <2>2. CASE state' = "WAIT_PKT" /\ Leaves(whole)
    <3>1. /\ cur'.ids = {} /\ Len(out) \in Nat /\ Len(out') = Len(out) + 1
          /\ \A i \in 1 .. Len(out') : out'[i].ids = {i}
      BY <1>1, <1>3, <1>5, <2>2, PacketLeaves
    <3>2. QED BY <1>2, <1>4, <1>6, <2>2, <3>1 DEF Output
  <2>3. QED BY <1>1, <2>1, <2>2
<1>10. QED BY <1>7, <1>8, <1>9 DEF Kept

LEMMA SendLastWordKeeps ==
  ASSUME Types, Input, Output, Cutting, SendLastWord, ~troubled'
  PROVE  Kept
<1> DEFINE c == [cur EXCEPT !.units = @ + Hash - bytes_free]
<1>1. /\ state = "SEND_LAST_WORD" /\ state' = "WAIT_PKT" /\ Leaves(c)
      /\ UNCHANGED <<fifo, input>> /\ pkt_cut_count' = pkt_cut_count
      /\ out \in Seq(Range(out)) /\ Fields(cur)
  BY DEF SendLastWord, Types
<1>2. c.ids = cur.ids
  BY <1>1 DEF Fields
<1> HIDE DEF c
<1>3. /\ cur.ids = {Len(out) + 1} /\ NextId = Len(out) + 2
      /\ \A i \in 1 .. Len(out) : out[i].ids = {i}
  BY <1>1 DEF Output, Cutting
<1>4. /\ cur'.ids = {} /\ Len(out) \in Nat /\ Len(out') = Len(out) + 1
      /\ \A i \in 1 .. Len(out') : out'[i].ids = {i}
  BY <1>1, <1>2, <1>3, PacketLeaves
<1>5. Line' = Line /\ Total' = Total /\ NextId' = NextId /\ packets' = packets
  BY <1>1, LineStays
<1>6. QED BY <1>1, <1>3, <1>4, <1>5 DEF Kept, Input, Output, Cutting

LEMMA CutPacketKeeps ==
  ASSUME Types, Input, Output, Cutting, CutPacket, ~troubled'
  PROVE  Kept
<1> DEFINE done == Ceil(len_pkt_cut) = pkt_cut_count
           end == Emit(cur, len_pkt_cut - (pkt_cut_count - 1) * Word)
           more == Emit(cur, word.units)
<1>1. /\ state = "CUT_PACKET" /\ Take /\ UNCHANGED <<host, input>>
      /\ pkt_cut_count' = pkt_cut_count + 1
      /\ IF done
         THEN Leaves(end) /\ state' = IF word.last THEN "WAIT_PKT" ELSE "CUT_PACKET_WAIT"
         ELSE Stays(more) /\ state' = "CUT_PACKET"
      /\ out \in Seq(Range(out)) /\ Fields(cur) /\ pkt_cut_count \in Nat /\ cut_bytes \in Nat
  BY DEF CutPacket, Types
<1>2. /\ Chained(Line, Total, packets)
      /\ Whole(Line, Total, state \in {"WAIT_PKT", "SEND_LAST_WORD"})
      /\ cur.ids = {Len(out) + 1} /\ NextId = Len(out) + 1 /\ Total > 0
      /\ hash_en = 1 /\ pkt_cut_count <= Ceil(cut_bytes)
      /\ \A k \in 1 .. Ceil(cut_bytes) - pkt_cut_count : k <= Total /\ ~Line[k].last
  BY <1>1 DEF Input, Output, Cutting
<1>3. /\ \A i \in 1 .. Len(out) : out[i].ids = {i}
      /\ hash_en' = hash_en /\ cut_bytes' = cut_bytes /\ len_pkt_cut = cut_bytes
  BY <1>1, <1>2 DEF Output, host, regs, len_pkt_cut
<1>4. /\ Total \in Nat /\ Total' = Total - 1 /\ Total > 0
      /\ word = Line[1] /\ word \in WordRecords
      /\ \A i \in 1 .. Total - 1 : Line'[i] = Line[i + 1]
      /\ Chained(Line', Total', packets') /\ Whole(Line', Total', word.last)
      /\ NextId = word.id /\ NextId' = IF word.last THEN NextId + 1 ELSE NextId
      /\ ~word.last => Total' > 0
  BY <1>1, <1>2, WordTaken
<1>5. end.ids = {Len(out) + 1} /\ more.ids = {Len(out) + 1}
  <2>1. Fields(cur) /\ word.id = Len(out) + 1 /\ cur.ids = {Len(out) + 1}
    BY <1>1, <1>2, <1>4
  <2>2. end.ids = cur.ids \union {word.id} /\ more.ids = cur.ids \union {word.id}
    BY <2>1, AtOutput
  <2> HIDE DEF end, more
  <2>3. QED BY <2>1, <2>2
<1> HIDE DEF end, more
<1>6. Ceil(cut_bytes) \in Nat
  <2>1. cut_bytes <= cut_bytes
    BY <1>1
  <2>2. QED BY <1>1, <2>1, CeilGrows
<1>7. ~done => ~word.last
  <2>1. ASSUME ~done PROVE 1 \in 1 .. Ceil(cut_bytes) - pkt_cut_count
    BY <1>1, <1>2, <1>3, <1>6, <2>1
  <2>2. QED BY <1>2, <1>4, <2>1
<1>8. Input'
  <2>1. word.last = (state' \in {"WAIT_PKT", "SEND_LAST_WORD"})
    BY <1>1, <1>4, <1>7 DEF WordRecords
  <2>2. QED BY <1>4, <2>1 DEF Input
<1>9. CASE done
  <2>1. Leaves(end) /\ state' = IF word.last THEN "WAIT_PKT" ELSE "CUT_PACKET_WAIT"
    BY <1>1, <1>9
  <2>2. /\ cur'.ids = {} /\ Len(out) \in Nat /\ Len(out') = Len(out) + 1
        /\ \A i \in 1 .. Len(out') : out'[i].ids = {i}
    BY <1>1, <1>3, <1>5, <2>1, PacketLeaves
  <2>3. Output'
    BY <1>2, <1>4, <2>1, <2>2 DEF Output
  <2>4. QED BY <1>8, <2>1, <2>3 DEF Kept, Cutting
<1>10. CASE ~done
  <2>1. /\ state' = "CUT_PACKET" /\ cur'.ids = {Len(out') + 1} /\ out' = out
        /\ pkt_cut_count < Ceil(cut_bytes) /\ ~word.last
    BY <1>1, <1>2, <1>3, <1>5, <1>6, <1>7, <1>10 DEF Stays
  <2>2. Output'
    BY <1>2, <1>3, <1>4, <2>1 DEF Output
  <2>3. ASSUME NEW k \in 1 .. Ceil(cut_bytes) - (pkt_cut_count + 1)
        PROVE  k <= Total' /\ ~Line'[k].last
    <3>1. k + 1 \in 1 .. Ceil(cut_bytes) - pkt_cut_count
      BY <1>1, <1>6
    <3>2. k + 1 <= Total /\ ~Line[k + 1].last
      BY <1>2, <3>1
    <3>3. k \in 1 .. Total - 1
      BY <1>1, <1>4, <1>6, <3>2
    <3>4. QED BY <1>4, <3>2, <3>3
  <2>4. Cutting'
    BY <1>1, <1>2, <1>3, <1>6, <2>1, <2>3 DEF Cutting
  <2>5. QED BY <1>8, <2>2, <2>4 DEF Kept
<1>11. QED BY <1>9, <1>10

LEMMA CutPacketWaitKeeps ==
  ASSUME Types, Input, Output, Cutting, CutPacketWait, ~troubled'
  PROVE  Kept
<1>1. /\ state = "CUT_PACKET_WAIT" /\ Take /\ UNCHANGED <<host, input, cur, out>>
      /\ state' = IF word.last THEN "WAIT_PKT" ELSE "CUT_PACKET_WAIT"
      /\ pkt_cut_count' = 1
  BY DEF CutPacketWait, history
<1>2. /\ Chained(Line, Total, packets)
      /\ Whole(Line, Total, state \in {"WAIT_PKT", "SEND_LAST_WORD"})
      /\ cur.ids = {} /\ NextId = Len(out)
      /\ \A i \in 1 .. Len(out) : out[i].ids = {i}
  BY <1>1 DEF Input, Output
<1>3. /\ Total \in Nat /\ Total' = Total - 1 /\ Total > 0
      /\ word = Line[1] /\ word \in WordRecords
      /\ \A i \in 1 .. Total - 1 : Line'[i] = Line[i + 1]
      /\ Chained(Line', Total', packets') /\ Whole(Line', Total', word.last)
      /\ NextId = word.id /\ NextId' = IF word.last THEN NextId + 1 ELSE NextId
      /\ ~word.last => Total' > 0
  BY <1>1, <1>2, WordTaken
<1>4. Input'
  <2>1. word.last = (state' \in {"WAIT_PKT", "SEND_LAST_WORD"})
    BY <1>1, <1>3 DEF WordRecords
  <2>2. QED BY <1>3, <2>1 DEF Input
<1>5. Output'
  BY <1>1, <1>2, <1>3 DEF Output
<1>6. QED BY <1>1, <1>4, <1>5 DEF Kept, Cutting

(* Clock edges that neither take a word nor end a packet: a packet being   *)
(* cut has a word to come.                                                 *)
LEMMA IdleKeeps ==
  ASSUME Types, Input, Output, Cutting, WaitIdle \/ CutStarved, ~troubled'
  PROVE  Kept
<1>1. ~(state = "CUT_PACKET" /\ fifo = <<>> /\ sending = <<>>)
  BY DEF Output, Total
<1>2. /\ UNCHANGED <<fifo, input, state, out, hash_en, cut_bytes>>
      /\ pkt_cut_count' = pkt_cut_count \/ state = "WAIT_PKT"
      /\ cur' = cur \/ cur' = [cur EXCEPT !.twice = TRUE]
      /\ Fields(cur)
  BY <1>1 DEF WaitIdle, CutStarved, Stays, host, regs, machine, history, Types
<1>3. cur'.ids = cur.ids
  BY <1>2 DEF Fields
<1>4. Line' = Line /\ Total' = Total /\ NextId' = NextId /\ packets' = packets
  BY <1>2, LineStays
<1>5. Input' /\ Output'
  BY <1>2, <1>3, <1>4 DEF Input, Output
<1>6. Cutting'
  BY <1>2, <1>4 DEF Cutting
<1>7. QED BY <1>5, <1>6 DEF Kept

-----------------------------------------------------------------------------
(* The types and, until a cut without hash has met one of its limits, the  *)
(* place of every word hold in every state (packet_cutter.v).              *)
THEOREM CutterInvariant == Spec => []CutterInv
<1>1. Init => CutterInv
  <2> SUFFICES ASSUME Init PROVE CutterInv
    OBVIOUS
  <2>1. Total = 0 /\ NextId = 1
    BY DEF Init, Total, NextId
  <2>2. Types
    <3>1. cut_bytes \in Nat /\ cut_words \in Nat
      <4>1. CASE cut_words = 0 /\ cut_bytes = 0
        BY <4>1
      <4>2. ASSUME NEW b \in CutLengths, b > Word, cut_words = Ceil(b) - 2, cut_bytes = b
            PROVE  cut_bytes \in Nat /\ cut_words \in Nat
        BY <4>2, CeilGrows, CutterAssumption
      <4> QED BY <4>1, <4>2 DEF Init
    <3>2. /\ fifo = <<>> /\ sending = <<>> /\ todo = <<>> /\ out = <<>> /\ cur = Nothing
          /\ packets = 0 /\ pkt_cut_count = 1 /\ state = "WAIT_PKT" /\ hash_en \in {0, 1}
      BY DEF Init
    <3> QED BY <3>1, <3>2 DEF Types, Fields, Nothing, Range
  <2>3. Input
    BY <2>1 DEF Init, Input, Chained, Whole
  <2>4. Output
    BY <2>1 DEF Init, Output, Nothing
  <2>5. Cutting
    BY DEF Init, Cutting
  <2>6. QED BY <2>2, <2>3, <2>4, <2>5 DEF CutterInv
<1>2. CutterInv /\ [Next]_vars => CutterInv'
  <2> SUFFICES ASSUME CutterInv, [Next]_vars PROVE CutterInv'
    OBVIOUS
  <2>1. CASE UserActs
    BY <2>1, UserKeeps
  <2>2. CASE HostStep
    BY <2>2, HostKeeps
  <2>3. CASE Arrive
    BY <2>3, ArriveKeeps
  <2>4. CASE Edge
    <3>1. Types /\ Types'
      BY <2>4, EdgeTypes DEF CutterInv
    <3>2. ASSUME ~troubled' PROVE Kept
      <4>1. ~troubled
        <5>1. CASE WaitPkt
          BY <3>2, <5>1, Zenon DEF WaitPkt
        <5>2. CASE ~WaitPkt
          <6>1. troubled' = troubled
            BY <2>4, <5>2 DEF Edge, WaitIdle, InPacket, StartHash, CompletePkt,
                              SendLastWord, CutPacket, CutStarved, CutPacketWait, history
          <6>2. QED BY <3>2, <6>1
        <5>3. QED BY <5>1, <5>2
      <4>2. Input /\ Output /\ Cutting
        BY <4>1 DEF CutterInv
      <4>3. QED
        BY <2>4, <3>1, <3>2, <4>2, WaitPktKeeps, InPacketKeeps, StartHashKeeps,
           CompletePktKeeps, SendLastWordKeeps, CutPacketKeeps, CutPacketWaitKeeps, IdleKeeps
           DEF Edge
    <3>3. QED BY <3>1, <3>2 DEF CutterInv, Kept
  <2>5. CASE UNCHANGED vars
    <3>1. /\ UNCHANGED <<host, fifo, input, machine, history>>
          /\ Line' = Line /\ Total' = Total /\ NextId' = NextId /\ packets' = packets
      BY <2>5, LineStays DEF vars
    <3>2. QED
      BY <3>1 DEF CutterInv, Types, Input, Output, Cutting, host, regs, input, machine,
                  history, Fields
  <2>6. QED BY <2>1, <2>2, <2>3, <2>4, <2>5 DEF Next
<1>3. QED BY <1>1, <1>2, PTL DEF Spec

(* Every packet leaves as one packet, in order, none lost or joined to the *)
(* next, whenever the host writes the registers (monitor.py, enable_cut).  *)
THEOREM PacketsApart == Spec => []BoundariesKept
<1>1. CutterInv => BoundariesKept
  BY DEF CutterInv, Types, Output, BoundariesKept, OnePacketEach
<1>2. QED BY <1>1, CutterInvariant, PTL

-----------------------------------------------------------------------------
(* Lengths.  A word of a packet has its length and, but for the last, is   *)
(* whole; the m-th word from word i is the first last one.                 *)
Sized(w) ==
  /\ w.len \in PktLengths
  /\ w.units = IF w.last THEN w.len - (Ceil(w.len) - 1) * Word ELSE Word

EndsAfter(L, n, i, m) ==
  /\ m >= 1 /\ i + m - 1 <= n /\ L[i + m - 1].last
  /\ \A j \in i .. i + m - 2 : ~L[j].last

(* The words of the line are those of packets of the lengths they carry,   *)
(* the last of them the end of one; the first word begins one if `first'.  *)
Measured(L, n, first) ==
  /\ \A i \in 1 .. n : Sized(L[i])
  /\ n > 0 => L[n].last
  /\ \A i \in 1 .. n - 1 : ~L[i].last => L[i + 1].len = L[i].len
  /\ \A i \in 1 .. n :
       (IF i = 1 THEN first ELSE L[i - 1].last) => EndsAfter(L, n, i, Ceil(L[i].len))

(* The lengths a packet should have and claim, by the registers it met.    *)
CutTo(p) == IF p.hash_off = 1 THEN p.bytes ELSE p.bytes + Hash
Cuttable(p) == p.len > CutTo(p) /\ CutTo(p) >= MinCut
Told(p) == p.claimed = IF p.en = 1 /\ Cuttable(p) THEN CutTo(p) ELSE p.len
Met(p) == p.len \in PktLengths /\ p.bytes \in Nat /\ p.hash_off \in {0, 1} /\ Told(p)

(* The length the machine gives it: Expected, but that cut without hash    *)
(* ignores the enable.                                                     *)
Due(p) ==
  LET longer == p.hash_off = 0 /\ p.len > p.bytes + Hash /\ p.bytes + Hash >= MinCut
  IN IF p.hash_off = 1 /\ p.len > p.bytes /\ p.bytes >= MinCut THEN p.bytes
     ELSE IF p.en = 1 /\ (Ceil(p.len) > Ceil(p.bytes) \/ longer) THEN p.bytes + Hash
     ELSE p.len
Exact(p) == Undisturbed(p) => Met(p) /\ p.units = Due(p)

(* A length in words, and what is missing in the last of them.             *)
LEMMA CeilIs ==
  ASSUME NEW n \in Nat \ {0}
  PROVE  /\ Ceil(n) \in Nat \ {0} /\ Free(n) \in 0 .. Word - 1
         /\ Ceil(n) * Word - Free(n) = n
<1> DEFINE w == Word
           a == n + w - 1
           q == a \div w
           d == n \div w
           r == n % w
<1>1. w \in Nat \ {0} /\ a \in Nat
  BY CutterAssumption
<1>2. q \in Int /\ a % w \in 0 .. w - 1 /\ a = w * q + (a % w)
  BY <1>1
<1>3. d \in Int /\ r \in 0 .. w - 1 /\ n = w * d + r
  BY <1>1
<1>4. Ceil(n) = q /\ Free(n) = (w - r) % w
  BY DEF Ceil, Free
<1>5. CASE r = 0
  <2>1. Free(n) = 0
    <3>1. (w - 0) % w = 0
      BY <1>1
    <3> QED BY <1>4, <1>5, <3>1
  <2>2. q = d
    <3> HIDE DEF w, q, d, r, a
    <3>1. a = n + w - 1
      BY DEF a
    <3>2. w * q + (a % w) = w * d + w - 1
      <4>1. n = w * d /\ w * d \in Int
        BY <1>1, <1>3, <1>5
      <4>2. a = w * d + w - 1
        BY <1>1, <3>1, <4>1
      <4> QED BY <1>2, <4>2
    <3>3. q < d + 1 /\ q > d - 1
      BY <1>1, <1>2, <1>3, <3>2
    <3> QED BY <1>2, <1>3, <3>3
  <2>3. q * w - 0 = n
    <3> HIDE DEF w, q, d, r, a
    <3> QED BY <1>1, <1>2, <1>3, <1>5, <2>2
  <2>4. q # 0 /\ q >= 0
    <3> HIDE DEF w, q, d, r, a
    <3> QED BY <1>1, <1>2, <2>3
  <2> QED BY <1>1, <1>2, <1>4, <2>1, <2>3, <2>4 DEF w
<1>6. CASE r # 0
  <2>1. Free(n) = w - r
    <3>1. w - r \in 0 .. w - 1
      BY <1>1, <1>3, <1>6
    <3>2. \A x \in 0 .. w - 1 : x % w = x
      BY <1>1
    <3> HIDE DEF w, r
    <3> QED BY <1>4, <3>1, <3>2
  <2>2. q = d + 1
    <3> HIDE DEF w, q, d, r, a
    <3>1. a = n + w - 1
      BY DEF a
    <3>2. w * q + (a % w) = w * d + r + w - 1
      BY <1>2, <1>3, <1>6, <3>1
    <3>3. q < d + 2 /\ q > d
      BY <1>1, <1>2, <1>3, <1>6, <3>2
    <3> QED BY <1>2, <1>3, <3>3
  <2>3. q * w - (w - r) = n
    <3> HIDE DEF w, q, d, r, a
    <3> QED BY <1>1, <1>2, <1>3, <1>6, <2>2
  <2>4. q # 0 /\ q >= 0
    <3> HIDE DEF w, q, d, r, a
    <3> QED BY <1>1, <1>2, <1>3, <2>2, <2>3
  <2>5. w - r \in 0 .. w - 1
    BY <1>1, <1>3, <1>6
  <2> QED BY <1>1, <1>2, <1>4, <2>1, <2>3, <2>4, <2>5 DEF w
<1> QED BY <1>5, <1>6

(* The head of the line goes.                                              *)
LEMMA MeasuredShorter ==
  ASSUME NEW L, NEW M, NEW n \in Nat, n > 0, NEW first,
         \A i \in 1 .. n - 1 : M[i] = L[i + 1], Measured(L, n, first)
  PROVE  /\ Measured(M, n - 1, L[1].last)
         /\ Sized(L[1])
         /\ \A m \in Int : EndsAfter(L, n, 1, m) =>
              /\ (m = 1 <=> L[1].last)
              /\ m > 1 => EndsAfter(M, n - 1, 1, m - 1) /\ M[1].len = L[1].len
<1>1. Sized(L[1]) /\ \A i \in 1 .. n - 1 : Sized(M[i])
  BY DEF Measured
<1>2. ASSUME NEW i \in 1 .. n - 1 - 1, ~M[i].last PROVE M[i + 1].len = M[i].len
  <2>1. i + 1 \in 1 .. n - 1 /\ i \in 1 .. n - 1 /\ M[i] = L[i + 1] /\ M[i + 1] = L[(i + 1) + 1]
    OBVIOUS
  <2> QED BY <1>2, <2>1 DEF Measured
<1>3. ASSUME NEW i \in 1 .. n - 1, NEW m \in Int, EndsAfter(L, n, i + 1, m)
      PROVE  EndsAfter(M, n - 1, i, m)
  <2>1. m >= 1 /\ i + m <= n /\ L[i + m].last /\ \A j \in i + 1 .. i + m - 1 : ~L[j].last
    <3>1. i + 1 + m - 1 = i + m /\ i + 1 + m - 2 = i + m - 1
      OBVIOUS
    <3> QED BY <1>3, <3>1 DEF EndsAfter
  <2>2. i + m - 1 \in 1 .. n - 1 /\ (i + m - 1) + 1 = i + m
    BY <2>1
  <2>3. M[i + m - 1] = L[i + m]
    BY <2>2
  <2>4. ASSUME NEW j \in i .. i + m - 2 PROVE ~M[j].last
    <3>1. j \in 1 .. n - 1 /\ j + 1 \in i + 1 .. i + m - 1
      BY <2>1
    <3> QED BY <2>1, <3>1
  <2> QED BY <2>1, <2>2, <2>3, <2>4 DEF EndsAfter
<1>4. ASSUME NEW i \in 1 .. n - 1, IF i = 1 THEN L[1].last ELSE M[i - 1].last
      PROVE  EndsAfter(M, n - 1, i, Ceil(M[i].len))
  <2>1. i + 1 \in 1 .. n /\ i + 1 # 1 /\ (i + 1) - 1 = i /\ M[i] = L[i + 1]
    OBVIOUS
  <2>2. L[i].last
    <3>1. i # 1 => i - 1 \in 1 .. n - 1 /\ (i - 1) + 1 = i
      OBVIOUS
    <3> QED BY <1>4, <3>1
  <2>3. EndsAfter(L, n, i + 1, Ceil(L[i + 1].len))
    BY <2>1, <2>2 DEF Measured
  <2>4. Ceil(L[i + 1].len) \in Int
    <3>1. L[i + 1].len \in Nat
      BY <2>1, CutterAssumption DEF Measured, Sized
    <3> QED BY <3>1, CeilGrows
  <2> QED BY <1>3, <2>1, <2>3, <2>4
<1>5. Measured(M, n - 1, L[1].last)
  <2>1. n - 1 > 0 => n - 1 \in 1 .. n - 1 /\ (n - 1) + 1 = n /\ n > 0
    OBVIOUS
  <2>2. n - 1 > 0 => M[n - 1].last
    BY <2>1 DEF Measured
  <2> QED BY <1>1, <1>2, <1>4, <2>2 DEF Measured
<1>6. ASSUME NEW m \in Int, EndsAfter(L, n, 1, m)
      PROVE  /\ (m = 1 <=> L[1].last)
             /\ m > 1 => EndsAfter(M, n - 1, 1, m - 1) /\ M[1].len = L[1].len
  <2>1. m >= 1 /\ m <= n /\ L[m].last /\ \A j \in 1 .. m - 1 : ~L[j].last
    <3>1. 1 + m - 1 = m /\ 1 + m - 2 = m - 1
      OBVIOUS
    <3> QED BY <1>6, <3>1 DEF EndsAfter
  <2>2. m > 1 => 1 \in 1 .. m - 1 /\ 1 \in 1 .. n - 1
    BY <2>1
  <2>3. m = 1 <=> L[1].last
    BY <2>1, <2>2
  <2>4. ASSUME m > 1 PROVE EndsAfter(M, n - 1, 1, m - 1) /\ M[1].len = L[1].len
    <3>1. /\ m - 1 >= 1 /\ 1 + (m - 1) - 1 = m - 1 /\ m - 1 \in 1 .. n - 1 /\ (m - 1) + 1 = m
          /\ 1 + (m - 1) - 2 = m - 2
      BY <2>1, <2>4
    <3>2. M[m - 1].last
      BY <2>1, <3>1
    <3>3. ASSUME NEW j \in 1 .. m - 2 PROVE ~M[j].last
      <4>1. j \in 1 .. n - 1 /\ j + 1 \in 1 .. m - 1
        BY <2>1
      <4> QED BY <2>1, <4>1
    <3>4. M[1].len = L[1].len
      <4>1. ~L[1].last /\ M[1] = L[1 + 1] /\ 1 \in 1 .. n - 1
        BY <2>1, <2>2, <2>4
      <4> QED BY <4>1 DEF Measured
    <3>5. EndsAfter(M, n - 1, 1, m - 1)
      BY <3>1, <3>2, <3>3 DEF EndsAfter
    <3> QED BY <3>4, <3>5
  <2> QED BY <2>3, <2>4
<1> QED BY <1>1, <1>5, <1>6

(* A packet joins the line.                                                *)
LEMMA MeasuredLonger ==
  ASSUME NEW L, NEW M, NEW n \in Nat, NEW first, NEW m \in Nat, m > 0, NEW len \in PktLengths,
         \A i \in 1 .. n : M[i] = L[i], Ceil(len) = m,
         \A i \in 1 .. m : M[n + i].last = (i = m) /\ M[n + i].len = len /\ Sized(M[n + i]),
         Measured(L, n, first)
  PROVE  /\ Measured(M, n + m, first)
         /\ \A i \in 1 .. n, k \in Int : EndsAfter(L, n, i, k) => EndsAfter(M, n + m, i, k)
<1>1. ASSUME NEW i \in 1 .. n, NEW k \in Int, EndsAfter(L, n, i, k)
      PROVE  EndsAfter(M, n + m, i, k)
  <2>1. k >= 1 /\ i + k - 1 <= n /\ L[i + k - 1].last /\ \A j \in i .. i + k - 2 : ~L[j].last
    BY <1>1 DEF EndsAfter
  <2>2. i + k - 1 \in 1 .. n /\ i + k - 1 <= n + m
    BY <2>1
  <2>3. ASSUME NEW j \in i .. i + k - 2 PROVE ~M[j].last
    <3>1. j \in 1 .. n
      BY <2>1
    <3> QED BY <2>1, <3>1
  <2> QED BY <2>1, <2>2, <2>3 DEF EndsAfter
<1>2. \A i \in 1 .. n + m : i \in 1 .. n \/ \E j \in 1 .. m : i = n + j
  <2> SUFFICES ASSUME NEW i \in 1 .. n + m, i \notin 1 .. n PROVE \E j \in 1 .. m : i = n + j
    OBVIOUS
  <2>1. i - n \in 1 .. m /\ i = n + (i - n)
    OBVIOUS
  <2> QED BY <2>1
<1>3. \A i \in 1 .. n + m : Sized(M[i])
  BY <1>2 DEF Measured
<1>4. ASSUME NEW i \in 1 .. n + m - 1, ~M[i].last PROVE M[i + 1].len = M[i].len
  <2>1. CASE i + 1 <= n
    BY <1>4, <2>1 DEF Measured
  <2>2. CASE i = n
    BY <1>4, <2>2 DEF Measured
  <2>3. CASE i > n
    <3>1. PICK j \in 1 .. m : i = n + j
      BY <1>2, <2>3
    <3>2. j + 1 \in 1 .. m /\ i + 1 = n + (j + 1)
      BY <3>1
    <3> QED BY <3>1, <3>2
  <2> QED BY <2>1, <2>2, <2>3
<1>5. ASSUME NEW i \in 1 .. n + m, IF i = 1 THEN first ELSE M[i - 1].last
      PROVE  EndsAfter(M, n + m, i, Ceil(M[i].len))
  <2>1. CASE i \in 1 .. n
    <3>1. (i # 1 => i - 1 \in 1 .. n) /\ M[i] = L[i]
      BY <2>1
    <3>2. EndsAfter(L, n, i, Ceil(L[i].len))
      BY <1>5, <2>1, <3>1 DEF Measured
    <3>3. L[i].len \in Nat
      BY <2>1, CutterAssumption DEF Measured, Sized
    <3>4. Ceil(L[i].len) \in Int
      BY <3>3, CeilGrows
    <3> QED BY <1>1, <2>1, <3>1, <3>2, <3>4
  <2>2. CASE i \notin 1 .. n
    <3>1. PICK j \in 1 .. m : i = n + j
      BY <1>2, <2>2
    <3>2. j = 1
      <4> SUFFICES ASSUME j # 1 PROVE FALSE
        OBVIOUS
      <4>1. j - 1 \in 1 .. m /\ j - 1 # m /\ i - 1 = n + (j - 1) /\ i # 1
        BY <3>1
      <4>2. M[n + (j - 1)].last = (j - 1 = m)
        BY <4>1
      <4> QED BY <1>5, <4>1, <4>2
    <3>3. M[i].len = len /\ i + m - 1 = n + m /\ m \in 1 .. m
      BY <3>1, <3>2
    <3>4. M[n + m].last
      BY <3>3
    <3>5. ASSUME NEW k \in i .. i + m - 2 PROVE ~M[k].last
      <4>1. PICK h \in 1 .. m - 1 : k = n + h
        <5>1. k - n \in 1 .. m - 1 /\ k = n + (k - n)
          BY <3>1, <3>2
        <5> QED BY <5>1
      <4>2. h \in 1 .. m /\ h # m
        OBVIOUS
      <4>3. M[n + h].last = (h = m)
        BY <4>2
      <4> QED BY <4>1, <4>2, <4>3
    <3> QED BY <3>3, <3>4, <3>5 DEF EndsAfter
  <2> QED BY <2>1, <2>2
<1>6. Measured(M, n + m, first)
  <2>1. m \in 1 .. m
    OBVIOUS
  <2>2. M[n + m].last
    BY <2>1
  <2> QED BY <1>3, <1>4, <1>5, <2>2 DEF Measured
<1> QED BY <1>1, <1>6

-----------------------------------------------------------------------------
(* The registers the cut is made of fit each other whenever the host is    *)
(* not about to write more of them (monitor.py, enable_cut).               *)
Consistent(words, offset, bytes) ==
  bytes > Word /\ words = Ceil(bytes) - 2 /\ offset = Free(bytes)
Settled == cut_en = 1 => Consistent(cut_words, cut_offset, cut_bytes)

Then == {<<"show", 0>>, <<"hash_en", 1>>}
Words4(b) == <<"words", Ceil(b) - 2>>
Offset4(b) == <<"offset", Free(b)>>
Setting(b, last) ==
  \/ todo = <<Words4(b), Offset4(b), <<"bytes", b>>, <<"en", 1>>, last>>
  \/ todo = <<Offset4(b), <<"bytes", b>>, <<"en", 1>>, last>> /\ cut_words = Ceil(b) - 2
  \/ /\ todo = << <<"bytes", b>>, <<"en", 1>>, last>>
     /\ cut_words = Ceil(b) - 2 /\ cut_offset = Free(b)
  \/ todo = << <<"en", 1>>, last>> /\ Consistent(cut_words, cut_offset, cut_bytes)

Resting == {<<>>, disable_cut, OnDisableCutter} \union {<<x>> : x \in Then}
Pending ==
  \/ Settled /\ todo \in Resting
  \/ \E b \in Nat, last \in Then : b > Word /\ Setting(b, last)

(* The steps of a call, and one more behind them.                          *)
LEMMA FiveSteps ==
  ASSUME NEW a, NEW b, NEW c, NEW d, NEW e
  PROVE  <<a, b, c, d>> \o <<e>> = <<a, b, c, d, e>>
<1> DEFINE S == {a, b, c, d, e}
           s == <<a, b, c, d>>
           t == <<e>>
           z == <<a, b, c, d, e>>
<1>1. s \in Seq(S) /\ t \in Seq(S) /\ Len(s) = 4 /\ Len(t) = 1 /\ z \in Seq(S) /\ Len(z) = 5
  OBVIOUS
<1>2. s \o t \in Seq(S) /\ Len(s \o t) = 5
  BY <1>1
<1>3. /\ (s \o t)[1] = z[1] /\ (s \o t)[2] = z[2] /\ (s \o t)[3] = z[3] /\ (s \o t)[4] = z[4]
      /\ (s \o t)[5] = z[5]
  BY <1>1
<1>4. \A i \in 1 .. 5 : (s \o t)[i] = z[i]
  BY <1>3
<1> HIDE DEF s, t, z, S
<1>5. s \o t = z
  <2>1. DOMAIN (s \o t) = 1 .. 5 /\ DOMAIN z = 1 .. 5 
    BY <1>1, <1>2
  <2>2. Len(s \o t) = Len(z) /\ \A i \in 1 .. Len(s \o t) : (s \o t)[i] = z[i]
    BY <1>1, <1>2, <1>4
  <2> QED BY <1>1, <1>2, <2>2, SeqEqual
<1> QED BY <1>5 DEF s, t, z

LEMMA PendingUser ==
  ASSUME Pending, UserActs
  PROVE  Pending'
<1>1. todo = <<>> /\ UNCHANGED regs
  BY DEF UserActs
<1>2. Settled
  <2>1. todo # <<>> => FALSE
    BY <1>1
  <2>2. ASSUME NEW b \in Nat, NEW last \in Then, Setting(b, last) PROVE FALSE
    BY <1>1, <2>2 DEF Setting, Words4, Offset4
  <2> QED BY <2>2 DEF Pending
<1>3. Settled'
  BY <1>1, <1>2 DEF Settled, Consistent, regs, Ceil, Free
<1>4. ASSUME NEW b \in Nat, NEW x \in Then, todo' = enable_cut(b) \o <<x>>
      PROVE  Pending'
  <2>1. CASE b <= Word
    <3>1. todo' = <<x>>
      BY <1>4, <2>1 DEF enable_cut
    <3>2. todo' \in Resting'
      BY <3>1 DEF Resting, Then
    <3> QED BY <1>3, <3>2 DEF Pending
  <2>2. CASE b > Word
    <3>1. todo' = << Words4(b), Offset4(b), <<"bytes", b>>, <<"en", 1>> >> \o <<x>>
      BY <1>4, <2>2, CutterAssumption DEF enable_cut, Words4, Offset4
    <3>2. todo' = << Words4(b), Offset4(b), <<"bytes", b>>, <<"en", 1>>, x>>
      BY <3>1, FiveSteps
    <3>3. Setting(b, x)'
      BY <3>2 DEF Setting, Words4, Offset4, Ceil, Free
    <3> QED BY <2>2, <3>3 DEF Pending, Then
  <2> QED BY <2>1, <2>2, CutterAssumption
<1>5. ASSUME todo' \in {OnDisableCutter, InitMCli} PROVE Pending'
  BY <1>3, <1>5, Zenon DEF Pending, Resting, InitMCli
<1>6. MinCut \in Nat /\ \A b \in CutLengths : b \in Nat
  BY CutterAssumption
<1>7. <<"show", 0>> \in Then /\ <<"hash_en", 1>> \in Then
  BY DEF Then
<1> QED
  BY <1>4, <1>5, <1>6, <1>7, Zenon
     DEF UserActs, OnEnableCutter, turple_capture_conf, display_cutter_status

LEMMA TwoSteps ==
  ASSUME NEW a, NEW b
  PROVE  <<a>> \o <<b>> = <<a, b>>
<1> DEFINE S == {a, b}
           s == <<a>>
           t == <<b>>
           z == <<a, b>>
<1>1. s \in Seq(S) /\ t \in Seq(S) /\ Len(s) = 1 /\ Len(t) = 1 /\ z \in Seq(S) /\ Len(z) = 2
  OBVIOUS
<1>2. s \o t \in Seq(S) /\ Len(s \o t) = 2
  BY <1>1
<1>3. (s \o t)[1] = z[1] /\ (s \o t)[2] = z[2]
  BY <1>1
<1>4. Len(s \o t) = Len(z) /\ \A i \in 1 .. Len(s \o t) : (s \o t)[i] = z[i]
  BY <1>1, <1>2, <1>3
<1> HIDE DEF s, t, z, S
<1>5. s \o t = z
  BY <1>1, <1>2, <1>4, SeqEqual
<1> QED BY <1>5 DEF s, t, z

(* A write goes: what it says and what is left.                            *)
LEMMA StepGoes ==
  ASSUME HostStep, NEW r, NEW v, Head(todo) = <<r, v>>
  PROVE  /\ todo' = Tail(todo)
         /\ cut_en' = IF r = "en" THEN v ELSE cut_en
         /\ cut_words' = IF r = "words" THEN v ELSE cut_words
         /\ cut_offset' = IF r = "offset" THEN v ELSE cut_offset
         /\ cut_bytes' = IF r = "bytes" THEN v ELSE cut_bytes
BY DEF HostStep

LEMMA PendingHost ==
  ASSUME Pending, HostStep
  PROVE  Pending'
<1>1. CASE Settled /\ todo \in Resting
  <2>1. todo # <<>>
    BY DEF HostStep
  <2>2. CASE todo = disable_cut
    <3>1. Head(todo) = <<"en", 0>> /\ Tail(todo) = <<>>
      BY <2>2 DEF disable_cut
    <3>2. todo' = <<>> /\ cut_en' = 0
      BY <3>1, StepGoes
    <3>3. Settled'
      BY <3>2 DEF Settled
    <3> QED BY <3>2, <3>3, Zenon DEF Pending, Resting
  <2>3. CASE todo = OnDisableCutter
    <3>1. todo = << <<"en", 0>>, <<"show", 0>> >>
      BY <2>3, TwoSteps DEF disable_cut, OnDisableCutter, display_cutter_status
    <3>2. Head(todo) = <<"en", 0>> /\ Tail(todo) = << <<"show", 0>> >>
      BY <3>1
    <3>3. todo' = Tail(todo) /\ cut_en' = 0
      BY <3>2, StepGoes
    <3>4. todo' \in Resting'
      BY <3>2, <3>3 DEF Resting, Then
    <3>5. Settled'
      BY <3>3 DEF Settled
    <3> QED BY <3>4, <3>5 DEF Pending
  <2>4. ASSUME NEW x \in Then, todo = <<x>> PROVE Pending'
    <3>1. Head(todo) = x /\ Tail(todo) = <<>>
      BY <2>4
    <3>2. todo' = <<>> /\ UNCHANGED <<cut_en, cut_words, cut_offset, cut_bytes>>
      <4>1. CASE x = <<"show", 0>>
        <5>1. Head(todo) = <<"show", 0>>
          BY <3>1, <4>1
        <5>2. /\ todo' = Tail(todo)
              /\ cut_en' = IF "show" = "en" THEN 0 ELSE cut_en
              /\ cut_words' = IF "show" = "words" THEN 0 ELSE cut_words
              /\ cut_offset' = IF "show" = "offset" THEN 0 ELSE cut_offset
              /\ cut_bytes' = IF "show" = "bytes" THEN 0 ELSE cut_bytes
          BY <5>1, StepGoes, Zenon
        <5> QED BY <3>1, <5>2
      <4>2. CASE x = <<"hash_en", 1>>
        <5>1. Head(todo) = <<"hash_en", 1>>
          BY <3>1, <4>2
        <5>2. /\ todo' = Tail(todo)
              /\ cut_en' = IF "hash_en" = "en" THEN 1 ELSE cut_en
              /\ cut_words' = IF "hash_en" = "words" THEN 1 ELSE cut_words
              /\ cut_offset' = IF "hash_en" = "offset" THEN 1 ELSE cut_offset
              /\ cut_bytes' = IF "hash_en" = "bytes" THEN 1 ELSE cut_bytes
          BY <5>1, StepGoes, Zenon
        <5> QED BY <3>1, <5>2
      <4> QED BY <2>4, <4>1, <4>2 DEF Then
    <3>3. Settled'
      BY <1>1, <3>2 DEF Settled, Consistent, Ceil, Free
    <3> QED BY <3>2, <3>3, Zenon DEF Pending, Resting
  <2> QED BY <1>1, <2>1, <2>2, <2>3, <2>4 DEF Resting
<1>2. ASSUME NEW b \in Nat, NEW last \in Then, b > Word, Setting(b, last)
      PROVE  Pending'
  <2> DEFINE y == <<"bytes", b>>
             on == <<"en", 1>>
  <2>1. CASE todo = <<Words4(b), Offset4(b), y, on, last>>
    <3>1. Head(todo) = Words4(b) /\ Tail(todo) = <<Offset4(b), y, on, last>>
      BY <2>1
    <3>2. todo' = <<Offset4(b), y, on, last>> /\ cut_words' = Ceil(b) - 2
      BY <3>1, StepGoes DEF Words4
    <3>3. Setting(b, last)'
      BY <3>2 DEF Setting, Offset4, Ceil, Free
    <3> QED BY <1>2, <3>3 DEF Pending
  <2>2. CASE todo = <<Offset4(b), y, on, last>> /\ cut_words = Ceil(b) - 2
    <3>1. Head(todo) = Offset4(b) /\ Tail(todo) = <<y, on, last>>
      BY <2>2
    <3>2. todo' = <<y, on, last>> /\ cut_words' = Ceil(b) - 2 /\ cut_offset' = Free(b)
      BY <2>2, <3>1, StepGoes DEF Offset4
    <3>3. Setting(b, last)'
      BY <3>2 DEF Setting, Ceil, Free
    <3> QED BY <1>2, <3>3 DEF Pending
  <2>3. CASE todo = <<y, on, last>> /\ cut_words = Ceil(b) - 2 /\ cut_offset = Free(b)
    <3>1. Head(todo) = y /\ Tail(todo) = <<on, last>>
      BY <2>3
    <3>2. todo' = <<on, last>> /\ cut_words' = Ceil(b) - 2 /\ cut_offset' = Free(b)
          /\ cut_bytes' = b
      BY <2>3, <3>1, StepGoes
    <3>3. Setting(b, last)'
      BY <1>2, <3>2 DEF Setting, Consistent, Ceil, Free
    <3> QED BY <1>2, <3>3 DEF Pending
  <2>4. CASE todo = <<on, last>> /\ Consistent(cut_words, cut_offset, cut_bytes)
    <3>1. Head(todo) = on /\ Tail(todo) = <<last>>
      BY <2>4
    <3>2. todo' = <<last>> /\ UNCHANGED <<cut_words, cut_offset, cut_bytes>>
      BY <3>1, StepGoes
    <3>3. Settled'
      BY <2>4, <3>2 DEF Settled, Consistent, Ceil, Free
    <3>4. todo' \in Resting'
      BY <3>2 DEF Resting, Then
    <3> QED BY <3>3, <3>4 DEF Pending
  <2> QED BY <1>2, <2>1, <2>2, <2>3, <2>4 DEF Setting
<1> QED BY <1>1, <1>2 DEF Pending

LEMMA PendingStays ==
  ASSUME Pending, UNCHANGED <<regs, todo>>
  PROVE  Pending'
BY DEF Pending, Settled, Resting, Setting, Consistent, Words4, Offset4, Then, disable_cut,
       OnDisableCutter, display_cutter_status, regs, Ceil, Free

-----------------------------------------------------------------------------
(* The lengths of the words to come, of the packets that have left and of  *)
(* the packet at the output: with k words of it out while it passes, with  *)
(* n while the hash is behind it, and, if nothing disturbs it, while it is *)
(* cut without hash.                                                       *)
Released == \A i \in 1 .. Len(out) : Exact(out[i])

WordsLeft(p) == IF p.en = 1 THEN Ceil(p.bytes) - 2 ELSE 2048
Counted(k) ==
  /\ cut_counter \in Nat /\ cut_counter = WordsLeft(cur) - (k - 1)
  /\ cur.en = 1 => cur.bytes > Word /\ bytes_free = Free(cur.bytes)
Passing(k) ==
  /\ k > 0 /\ cur.units = k * Word
  /\ EndsAfter(Line, Total, 1, Ceil(cur.len) - k) /\ Line[1].len = cur.len
  /\ Met(cur) /\ ~(Cuttable(cur) /\ cur.hash_off = 1)
  /\ pkt_short <=> ~Cuttable(cur)
  /\ cur.steady => Counted(k)

Hashed(n) ==
  /\ cur.bytes > Word /\ bytes_free = Free(cur.bytes) /\ cur.units = n * Word
  /\ Due(cur) = cur.bytes + Hash
Hashing(n) == Met(cur) /\ (cur.steady => Hashed(n))

Shortening ==
  /\ Met(cur) /\ Cuttable(cur) /\ cur.hash_off = 1 /\ hash_en = 1 /\ cur.bytes = cut_bytes
  /\ pkt_cut_count > 1 /\ pkt_cut_count <= Ceil(cut_bytes)
  /\ cur.units = (pkt_cut_count - 1) * Word
  /\ EndsAfter(Line, Total, 1, Ceil(cur.len) - (pkt_cut_count - 1))

Stage ==
  /\ state = "IN_PACKET" => \E k \in Nat : Passing(k)
  /\ state \in {"START_HASH", "COMPLETE_PKT"} => Hashing(Ceil(cur.bytes) - 1)
  /\ state = "SEND_LAST_WORD" => Hashing(Ceil(cur.bytes))
  /\ state = "COMPLETE_PKT" => Total > 0 /\ Line[1].last
  /\ state = "CUT_PACKET" => (Undisturbed(cur) => Shortening)

LineFits == Measured(Line, Total, state \in {"WAIT_PKT", "SEND_LAST_WORD"})
Lengths == LineFits /\ Released /\ Stage
LengthInv == Pending /\ Lengths

(* Two records of a packet that differ in what is out of it only.          *)
Similar(c, e) ==
  /\ e.len = c.len /\ e.claimed = c.claimed /\ e.en = c.en /\ e.bytes = c.bytes
  /\ e.hash_off = c.hash_off
Alike(c, e) == Similar(c, e) /\ e.twice = c.twice /\ e.astray = c.astray /\ e.steady = c.steady

LEMMA SimilarMeans ==
  ASSUME NEW c, NEW e, Similar(c, e)
  PROVE  /\ Met(c) => Met(e)
         /\ Cuttable(e) <=> Cuttable(c)
         /\ Due(e) = Due(c) /\ WordsLeft(e) = WordsLeft(c)
<1>1. Cuttable(e) <=> Cuttable(c)
  BY DEF Similar, Cuttable, CutTo
<1>2. CutTo(e) = CutTo(c) /\ WordsLeft(e) = WordsLeft(c)
  BY DEF Similar, CutTo, WordsLeft
<1>3. Due(e) = Due(c)
  BY DEF Similar, Due
<1>4. ASSUME Met(c) PROVE Met(e)
  <2>1. Told(e)
    BY <1>1, <1>2, <1>4, Zenon DEF Similar, Met, Told
  <2> QED BY <1>4, <2>1 DEF Similar, Met
<1> QED BY <1>1, <1>2, <1>3, <1>4

LEMMA Emitted ==
  ASSUME NEW c, Fields(c), NEW n
  PROVE  Alike(c, Emit(c, n)) /\ Emit(c, n).units = c.units + n
<1> DEFINE u == c.units + n
           s == c.ids \union {word.id}
<1>1. Emit(c, n) = [c EXCEPT !.units = u, !.ids = s]
  BY DEF Emit
<1> HIDE DEF u, s
<1>2. QED BY <1>1 DEF Fields, Alike, Similar, u

LEMMA LeftWell ==
  ASSUME out \in Seq(Range(out)), Released, NEW c, out' = Append(out, c), Exact(c)
  PROVE  Released'
<1> DEFINE o == Append(out, c)
           n == Len(out)
<1>1. out' = o
  OBVIOUS
<1>2. n \in Nat /\ Len(o) = n + 1 /\ (\A i \in 1 .. n : o[i] = out[i]) /\ o[n + 1] = c
  BY OneMore
<1>3. \A i \in 1 .. n : Exact(out[i])
  BY DEF Released
<1> HIDE DEF o, n
<1>4. ASSUME NEW i \in 1 .. n + 1 PROVE Exact(o[i])
  <2>1. CASE i <= n
    <3>1. i \in 1 .. n
      BY <1>2, <2>1
    <3> QED BY <1>2, <1>3, <3>1
  <2>2. CASE i = n + 1
    BY <1>2, <2>2
  <2> QED BY <1>2, <2>1, <2>2
<1>5. \A i \in 1 .. Len(out') : Exact(out'[i])
  BY <1>1, <1>2, <1>4, Zenon
<1> QED BY <1>5 DEF Released

(* The word at the head of the line is taken.                              *)
LEMMA MeasuredTaken ==
  ASSUME fifo \in Seq(WordRecords), sending \in Seq(WordRecords), sending' = sending,
         NEW first, Measured(Line, Total, first), Take
  PROVE  /\ Total \in Nat /\ Total > 0 /\ word = Line[1] /\ Sized(word)
         /\ word \in WordRecords
         /\ Measured(Line', Total', word.last)
         /\ \A m \in Int : EndsAfter(Line, Total, 1, m) =>
              /\ (m = 1 <=> word.last)
              /\ m > 1 => EndsAfter(Line', Total', 1, m - 1) /\ Line'[1].len = word.len
<1>1. /\ Total \in Nat /\ Total > 0 /\ word = Line[1]
      /\ \A i \in 1 .. Total : Line[i] \in WordRecords
  BY LineTypes DEF Take, word
<1>2. Total' = Total - 1 /\ \A i \in 1 .. Total - 1 : Line'[i] = Line[i + 1]
  BY HeadGoes
<1> DEFINE L == Line
           M == Line'
           n == Total
<1>3. /\ n \in Nat /\ n > 0 /\ (\A i \in 1 .. n - 1 : M[i] = L[i + 1])
      /\ Measured(L, n, first)
  BY <1>1, <1>2
<1> HIDE DEF L, M, n
<1>4. /\ Measured(M, n - 1, L[1].last)
      /\ Sized(L[1])
      /\ \A m \in Int : EndsAfter(L, n, 1, m) =>
           /\ (m = 1 <=> L[1].last)
           /\ m > 1 => EndsAfter(M, n - 1, 1, m - 1) /\ M[1].len = L[1].len
  BY <1>3, MeasuredShorter
<1>5. Total' = n - 1 /\ word = L[1] /\ word \in WordRecords
  <2>1. 1 \in 1 .. Total
    BY <1>1
  <2> QED BY <1>1, <1>2, <2>1 DEF L, n
<1> QED BY <1>1, <1>4, <1>5, Zenon DEF L, M, n

-----------------------------------------------------------------------------
(* The user and the host do not touch what passes.                         *)
LEMMA LengthsStay ==
  ASSUME Lengths, UNCHANGED <<cut_bytes, hash_en, fifo, input, machine, history>>
  PROVE  Lengths'
<1>1. Line' = Line /\ Total' = Total
  BY LineStays
<1>2. /\ state' = state /\ out' = out /\ cur' = cur /\ cut_counter' = cut_counter
      /\ bytes_free' = bytes_free /\ pkt_short' = pkt_short
      /\ pkt_cut_count' = pkt_cut_count /\ cut_bytes' = cut_bytes /\ hash_en' = hash_en
  BY DEF machine, history
<1>3. LineFits'
  BY <1>1, <1>2 DEF Lengths, LineFits
<1>4. Released'
  BY <1>2 DEF Lengths, Released
<1>5. ASSUME NEW k, Passing(k) PROVE Passing(k)'
  BY <1>1, <1>2, <1>5 DEF Passing, Counted
<1>6. ASSUME NEW n, Hashing(n) PROVE Hashing(n)'
  BY <1>2, <1>6 DEF Hashing, Hashed
<1>7. Shortening => Shortening'
  BY <1>1, <1>2 DEF Shortening, Ceil
<1>8. Stage'
  BY <1>1, <1>2, <1>5, <1>6, <1>7 DEF Lengths, Stage, Undisturbed
<1> QED BY <1>3, <1>4, <1>8 DEF Lengths

LEMMA UserMeasures ==
  ASSUME LengthInv, UserActs
  PROVE  LengthInv'
<1>1. UNCHANGED <<regs, input, fifo, machine, history>>
  BY DEF UserActs
<1>2. Pending'
  BY PendingUser DEF LengthInv
<1>3. Lengths'
  <2>1. Lengths /\ UNCHANGED <<cut_bytes, hash_en, fifo, input, machine, history>>
    BY <1>1 DEF LengthInv, regs
  <2> QED BY <2>1, LengthsStay
<1> QED BY <1>2, <1>3 DEF LengthInv

LEMMA HostMeasures ==
  ASSUME Types, LengthInv, HostStep
  PROVE  LengthInv'
<1> DEFINE r == Head(todo)[1]
           v == Head(todo)[2]
<1>1. /\ cut_bytes' = IF r = "bytes" THEN v ELSE cut_bytes
      /\ hash_en' = IF r = "hash_en" THEN v ELSE hash_en
      /\ cur' = [cur EXCEPT !.steady = @ /\ r = "show"]
      /\ UNCHANGED <<fifo, input, machine, out>>
  BY DEF HostStep
<1> HIDE DEF r, v
<1>2. Pending' /\ Lengths
  BY PendingHost DEF LengthInv
<1>3. /\ Similar(cur, cur') /\ cur'.units = cur.units /\ cur'.astray = cur.astray
      /\ cur'.steady => cur.steady /\ r = "show"
  BY <1>1 DEF Types, Fields, Similar
<1>4. /\ Met(cur) => Met(cur') /\ (Cuttable(cur') <=> Cuttable(cur))
      /\ Due(cur') = Due(cur) /\ WordsLeft(cur') = WordsLeft(cur)
  BY <1>3, SimilarMeans
<1>5. Line' = Line /\ Total' = Total
  BY <1>1, LineStays
<1>6. /\ state' = state /\ out' = out /\ cut_counter' = cut_counter
      /\ bytes_free' = bytes_free /\ pkt_short' = pkt_short
      /\ pkt_cut_count' = pkt_cut_count
  BY <1>1 DEF machine
<1>7. cur'.steady => cut_bytes' = cut_bytes /\ hash_en' = hash_en
  BY <1>1, <1>3
<1>8. LineFits'
  BY <1>2, <1>5, <1>6 DEF Lengths, LineFits
<1>9. Released'
  BY <1>2, <1>6 DEF Lengths, Released
<1>10. ASSUME NEW k, Passing(k) PROVE Passing(k)'
  BY <1>3, <1>4, <1>5, <1>6, <1>10 DEF Passing, Counted, Similar
<1>11. ASSUME NEW n, Hashing(n) PROVE Hashing(n)'
  BY <1>3, <1>4, <1>6, <1>11 DEF Hashing, Hashed, Similar
<1>12. ASSUME Undisturbed(cur) => Shortening, Undisturbed(cur') PROVE Shortening'
  <2>1. Undisturbed(cur) /\ cut_bytes' = cut_bytes /\ hash_en' = hash_en
    BY <1>3, <1>7, <1>12 DEF Undisturbed
  <2> QED BY <1>3, <1>4, <1>5, <1>6, <1>12, <2>1 DEF Shortening, Similar, Ceil
<1>13. cur'.bytes = cur.bytes
  BY <1>3 DEF Similar
<1>14. Stage'
  BY <1>2, <1>5, <1>6, <1>10, <1>11, <1>12, <1>13 DEF Lengths, Stage, Ceil
<1> QED BY <1>2, <1>8, <1>9, <1>14 DEF LengthInv, Lengths

LEMMA HasWord ==
  ASSUME fifo \in Seq(WordRecords), sending \in Seq(WordRecords),
         NEW k \in Int, EndsAfter(Line, Total, 1, k)
  PROVE  Total > 0
BY LineTypes DEF EndsAfter

LEMMA PacketSized ==
  ASSUME NEW id, NEW len \in PktLengths, NEW i \in 1 .. Ceil(len)
  PROVE  LET w == WordsOf(id, len)[i]
         IN w.last = (i = Ceil(len)) /\ w.len = len /\ Sized(w)
<1> DEFINE m == Ceil(len)
           w == WordsOf(id, len)[i]
<1>1. w = [id |-> id, len |-> len, last |-> i = m,
           units |-> IF i = m THEN len - (i - 1) * Word ELSE Word]
  BY DEF WordsOf
<1>2. i \in Int /\ m = Ceil(w.len) /\ w.len = len /\ w.last = (i = m)
  BY <1>1
<1>3. w.units = IF i = m THEN len - (i - 1) * Word ELSE Word
  BY <1>1
<1> HIDE DEF w, m
<1>4. w.units = IF w.last THEN len - (m - 1) * Word ELSE Word
  <2>1. CASE i = m
    BY <1>2, <1>3, <2>1
  <2>2. CASE i # m
    BY <1>2, <1>3, <2>2
  <2> QED BY <2>1, <2>2
<1>5. Sized(w)
  BY <1>2, <1>4 DEF Sized
<1> QED BY <1>2, <1>5 DEF w, m

(* A word or a packet comes to the line.                                   *)
LEMMA LineMeasures ==
  ASSUME Types, LengthInv, Arrive
  PROVE  Lengths'
<1>1. UNCHANGED <<host, machine, history>> /\ NextWord
  BY DEF Arrive, NextWord
<1>2. /\ state' = state /\ out' = out /\ cur' = cur /\ cut_counter' = cut_counter
      /\ bytes_free' = bytes_free /\ pkt_short' = pkt_short
      /\ pkt_cut_count' = pkt_cut_count /\ cut_bytes' = cut_bytes /\ hash_en' = hash_en
  BY <1>1 DEF host, regs, machine, history
<1>3. Lengths
  BY DEF LengthInv
<1> DEFINE first == state \in {"WAIT_PKT", "SEND_LAST_WORD"}
<1>4. /\ LineFits'
      /\ Total > 0 => Total' > 0 /\ Line'[1] = Line[1]
      /\ \A k \in Int : Total > 0 /\ EndsAfter(Line, Total, 1, k) => EndsAfter(Line', Total', 1, k)
  <2>1. fifo \in Seq(WordRecords) /\ sending \in Seq(WordRecords) /\ packets \in Nat
    BY DEF Types
  <2>2. CASE sending # <<>>
    <3>1. fifo' = Append(fifo, Head(sending)) /\ sending' = Tail(sending)
      BY <1>1, <2>2 DEF NextWord
    <3>2. Total' = Total /\ Line' = Line
      BY <2>1, <2>2, <3>1, WordEnters
    <3> QED BY <1>2, <1>3, <3>2 DEF Lengths, LineFits
  <2>3. CASE sending = <<>>
    <3>1. PICK len \in PktLengths :
            /\ fifo' = Append(fifo, Head(WordsOf(packets + 1, len)))
            /\ sending' = Tail(WordsOf(packets + 1, len))
      BY <1>1, <2>3 DEF NextWord
    <3> DEFINE words == WordsOf(packets + 1, len)
               m == Ceil(len)
               L == Line
               M == Line'
               n == Total
    <3>2. /\ words \in Seq(WordRecords) /\ words # <<>> /\ Len(words) = m
          /\ m \in Nat /\ m > 0
      <4>1. packets + 1 \in Int /\ len \in Nat \ {0}
        BY <2>1, CutterAssumption
      <4>2. IsPacket(words, packets + 1, len)
        BY <4>1, PacketWords
      <4> HIDE DEF words
      <4> QED BY <4>2 DEF IsPacket
    <3>3. \A i \in 1 .. m : words[i].last = (i = m) /\ words[i].len = len /\ Sized(words[i])
      BY PacketSized, Zenon
    <3>4. fifo' = Append(fifo, Head(words)) /\ sending' = Tail(words)
      BY <3>1
    <3> HIDE DEF words
    <3>5. /\ Total' = Total + m
          /\ \A i \in 1 .. Total : Line'[i] = Line[i]
          /\ \A i \in 1 .. m : Line'[Total + i] = words[i]
      BY <2>1, <2>3, <3>2, <3>4, PacketEnters
    <3>6. Total \in Nat
      BY <2>1, LineTypes
    <3>7. /\ n \in Nat /\ (\A i \in 1 .. n : M[i] = L[i]) /\ m \in Nat /\ m > 0 /\ Ceil(len) = m
          /\ \A i \in 1 .. m : M[n + i].last = (i = m) /\ M[n + i].len = len /\ Sized(M[n + i])
          /\ Measured(L, n, first)
      BY <1>3, <3>2, <3>3, <3>5, <3>6 DEF Lengths, LineFits
    <3> HIDE DEF L, M, n, m, first
    <3>8. /\ Measured(M, n + m, first)
          /\ \A i \in 1 .. n, k \in Int : EndsAfter(L, n, i, k) => EndsAfter(M, n + m, i, k)
      BY <3>7, MeasuredLonger
    <3>9. LineFits'
      BY <1>2, <3>5, <3>8 DEF LineFits, L, M, n, first
    <3>10. n > 0 => 1 \in 1 .. n
      BY <3>7
    <3>11. Total' = n + m
      BY <3>5 DEF n
    <3>12. Total > 0 => Total' > 0 /\ Line'[1] = Line[1]
      BY <3>2, <3>5, <3>6
    <3>13. ASSUME NEW k \in Int, n > 0, EndsAfter(L, n, 1, k) PROVE EndsAfter(M, n + m, 1, k)
      BY <3>8, <3>10, <3>13
    <3>14. \A k \in Int : Total > 0 /\ EndsAfter(Line, Total, 1, k) => EndsAfter(Line', Total', 1, k)
      BY <3>11, <3>13, Zenon DEF L, M, n
    <3> QED BY <3>9, <3>12, <3>14
  <2> QED BY <2>2, <2>3
<1>5. Released'
  BY <1>2, <1>3 DEF Lengths, Released
<1>6. ASSUME NEW k \in Nat, Passing(k) PROVE Passing(k)'
  <2>2. Ceil(cur.len) - k \in Int
    <3>1. cur.len \in Nat
      BY <1>6, CutterAssumption DEF Passing, Met
    <3> QED BY <3>1, CeilGrows
  <2>1. Total > 0
    BY <1>6, <2>2, HasWord DEF Passing, Types
  <2>3. EndsAfter(Line', Total', 1, Ceil(cur.len) - k)
    BY <1>4, <1>6, <2>1, <2>2 DEF Passing
  <2> QED BY <1>2, <1>4, <1>6, <2>1, <2>3 DEF Passing, Counted
<1>7. ASSUME NEW n, Hashing(n) PROVE Hashing(n)'
  BY <1>2, <1>7 DEF Hashing, Hashed
<1>8. ASSUME Shortening PROVE Shortening'
  <2>2. Ceil(cur.len) - (pkt_cut_count - 1) \in Int
    <3>1. cur.len \in Nat /\ pkt_cut_count \in Nat
      BY <1>8, CutterAssumption DEF Shortening, Met, Types
    <3> QED BY <3>1, CeilGrows
  <2>1. Total > 0
    BY <1>8, <2>2, HasWord DEF Shortening, Types
  <2>3. EndsAfter(Line', Total', 1, Ceil(cur.len) - (pkt_cut_count - 1))
    BY <1>4, <1>8, <2>1, <2>2 DEF Shortening
  <2> QED BY <1>2, <1>8, <2>3 DEF Shortening, Ceil
<1>9. Stage'
  <2>1. state = "COMPLETE_PKT" => Total' > 0 /\ Line'[1].last
    BY <1>3, <1>4 DEF Lengths, Stage
  <2> QED BY <1>2, <1>3, <1>6, <1>7, <1>8, <2>1 DEF Lengths, Stage, Undisturbed
<1> QED BY <1>4, <1>5, <1>9 DEF Lengths

-----------------------------------------------------------------------------
(* The length a packet should have, by what the machine finds out of it.   *)
LEMMA MetTypes ==
  ASSUME NEW p, Met(p)
  PROVE  /\ p.len \in Nat \ {0} /\ p.bytes \in Nat /\ p.hash_off \in {0, 1}
         /\ Ceil(p.len) \in Nat \ {0} /\ Ceil(p.bytes) \in Nat
         /\ Ceil(p.len) < Ceil(p.bytes) => p.len < p.bytes
         /\ p.bytes > Word => Ceil(p.bytes) > 1
<1>1. p.len \in Nat \ {0} /\ p.bytes \in Nat /\ p.hash_off \in {0, 1}
  BY CutterAssumption DEF Met
<1> DEFINE l == p.len
           b == p.bytes
<1>2. l \in Nat /\ b \in Nat /\ l > 0
  BY <1>1
<1> HIDE DEF l, b
<1>3. l <= l /\ b <= b /\ Word \in Nat
  BY <1>2, CutterAssumption
<1>4. Ceil(l) \in Nat /\ Ceil(l) > 0 /\ Ceil(b) \in Nat /\ (b > Word => Ceil(b) > 1)
  BY <1>2, <1>3, CeilGrows
<1>5. b <= l => Ceil(b) <= Ceil(l)
  BY <1>2, CeilGrows
<1> QED BY <1>1, <1>2, <1>4, <1>5 DEF l, b

LEMMA StaysWhole ==
  ASSUME NEW p, Met(p), ~(Cuttable(p) /\ p.hash_off = 1),
         p.en = 1 => Ceil(p.len) <= Ceil(p.bytes),
         p.en = 1 /\ Cuttable(p) => Ceil(p.len) < Ceil(p.bytes)
  PROVE  Due(p) = p.len
<1>1. /\ p.len \in Nat /\ p.bytes \in Nat /\ Ceil(p.len) \in Nat /\ Ceil(p.bytes) \in Nat
      /\ Ceil(p.len) < Ceil(p.bytes) => p.len < p.bytes
      /\ Hash \in Nat
  BY MetTypes, CutterAssumption
<1>2. ~(p.hash_off = 1 /\ p.len > p.bytes /\ p.bytes >= MinCut)
  BY DEF Cuttable, CutTo
<1>3. ~(p.en = 1 /\ p.hash_off = 0 /\ p.len > p.bytes + Hash /\ p.bytes + Hash >= MinCut)
  <2> SUFFICES ASSUME p.en = 1, p.hash_off = 0, p.len > p.bytes + Hash,
                      p.bytes + Hash >= MinCut
               PROVE  FALSE
    OBVIOUS
  <2>1. Cuttable(p)
    BY DEF Cuttable, CutTo
  <2> QED BY <1>1, <2>1
<1>4. ~(p.en = 1 /\ Ceil(p.len) > Ceil(p.bytes))
  BY <1>1
<1> QED BY <1>2, <1>3, <1>4 DEF Due

LEMMA GetsHash ==
  ASSUME NEW p, Met(p), ~(Cuttable(p) /\ p.hash_off = 1), p.en = 1,
         Cuttable(p) \/ Ceil(p.len) > Ceil(p.bytes)
  PROVE  Due(p) = p.bytes + Hash
<1>1. ~(p.hash_off = 1 /\ p.len > p.bytes /\ p.bytes >= MinCut)
  BY DEF Cuttable, CutTo
<1>2. Cuttable(p) => p.hash_off = 0 /\ p.len > p.bytes + Hash /\ p.bytes + Hash >= MinCut
  BY DEF Cuttable, CutTo, Met
<1> QED BY <1>1, <1>2 DEF Due

LEMMA AsExpected ==
  ASSUME NEW p, ~IgnoresEnable(p)
  PROVE  Due(p) = Expected(p)
BY DEF IgnoresEnable, Due, Expected

LEMMA IsCutOff ==
  ASSUME NEW p, Cuttable(p), p.hash_off = 1
  PROVE  Due(p) = p.bytes
BY DEF Due, Cuttable, CutTo

-----------------------------------------------------------------------------
(* A packet begins: it passes whole in one word, goes on, or is cut.       *)
LEMMA WaitPktMeasures ==
  ASSUME Types, LengthInv, WaitPkt
  PROVE  Lengths'
<1> DEFINE cutting == pkt_cuttable /\ hash_en = 1
           first == Begun(cutting /\ pkt_cut_count # 1)
           e == Emit(first, word.units)
           m == Ceil(word.len)
<1>1. /\ state = "WAIT_PKT" /\ Take /\ UNCHANGED <<host, input>>
      /\ cut_counter' = IF cut_en = 1 THEN cut_words ELSE 2048
      /\ pkt_short' = ~pkt_cuttable /\ bytes_free' = cut_offset
      /\ cutting => /\ pkt_cut_count' = pkt_cut_count + 1 /\ state' = "CUT_PACKET"
                    /\ Stays(e)
      /\ ~cutting => /\ state' = IF word.last THEN "WAIT_PKT" ELSE "IN_PACKET"
                     /\ Pass(first)
  BY DEF WaitPkt, Begun
<1>2. /\ fifo \in Seq(WordRecords) /\ sending \in Seq(WordRecords) /\ sending' = sending
      /\ out \in Seq(Range(out)) /\ cut_bytes \in Nat /\ hash_en \in {0, 1}
      /\ cut_words \in Nat /\ pkt_cut_count \in Nat
  BY <1>1 DEF Types, input
<1>3. Lengths /\ Pending
  BY DEF LengthInv, WaitPkt
<1>4. Measured(Line, Total, TRUE)
  BY <1>1, <1>3 DEF Lengths, LineFits
<1>5. /\ Total \in Nat /\ Total > 0 /\ word = Line[1] /\ Sized(word) /\ word \in WordRecords
      /\ Measured(Line', Total', word.last)
      /\ \A k \in Int : EndsAfter(Line, Total, 1, k) =>
           /\ (k = 1 <=> word.last)
           /\ k > 1 => EndsAfter(Line', Total', 1, k - 1) /\ Line'[1].len = word.len
  BY <1>1, <1>2, <1>4, MeasuredTaken
<1>6. EndsAfter(Line, Total, 1, m)
  <2>1. 1 \in 1 .. Total
    BY <1>5
  <2> QED BY <1>4, <1>5, <2>1 DEF Measured
<1>7. /\ first.len = word.len /\ first.claimed = pkt_len /\ first.en = cut_en
      /\ first.bytes = cut_bytes /\ first.hash_off = hash_en
      /\ first.units = 0 /\ first.steady = (todo = <<>>)
      /\ first.astray = (cutting /\ pkt_cut_count # 1)
  BY BegunIs
<1>8. Fields(first)
  BY BegunIs
<1> HIDE DEF first
<1>9. Alike(first, e) /\ e.units = first.units + word.units
  BY <1>8, Emitted
<1> HIDE DEF e
<1>10. /\ Similar(first, e) /\ e.astray = (cutting /\ pkt_cut_count # 1)
       /\ e.steady = (todo = <<>>) /\ e.units = word.units
  <2>1. word.units \in Int
    BY <1>5 DEF WordRecords
  <2> QED BY <1>7, <1>9, <2>1 DEF Alike
<1>11. Cuttable(first) <=> pkt_cuttable
  BY <1>7 DEF Cuttable, CutTo, pkt_cuttable, len_pkt_cut
<1>12. Met(first)
  <2>1. CutTo(first) = len_pkt_cut
    BY <1>7 DEF CutTo, len_pkt_cut
  <2>2. Told(first)
    BY <1>7, <1>11, <2>1, Zenon DEF Told, pkt_len
  <2> QED BY <1>2, <1>5, <1>7, <2>2 DEF Met, Sized
<1>13. Met(e) /\ (Cuttable(e) <=> pkt_cuttable)
  BY <1>10, <1>11, <1>12, SimilarMeans
<1>14. /\ e.len = word.len /\ e.en = cut_en /\ e.bytes = cut_bytes /\ e.hash_off = hash_en
  BY <1>7, <1>10 DEF Similar
<1>15. /\ m \in Nat \ {0} /\ Ceil(cut_bytes) \in Nat /\ word.len \in Nat
       /\ m < Ceil(cut_bytes) => word.len < cut_bytes
       /\ cut_bytes > Word => Ceil(cut_bytes) > 1
  BY <1>13, <1>14, MetTypes
<1>16. (m = 1 <=> word.last) /\ (m > 1 => EndsAfter(Line', Total', 1, m - 1)
                                       /\ Line'[1].len = word.len)
  BY <1>5, <1>6, <1>15
<1>17. e.steady => Settled
  <2>1. ASSUME todo = <<>>, NEW b \in Nat, NEW last \in Then, Setting(b, last) PROVE FALSE
    BY <2>1 DEF Setting, Words4, Offset4
  <2> QED BY <1>3, <1>10, <2>1 DEF Pending
<1> HIDE DEF m
<1>18. CASE cutting
  <2>1. /\ state' = "CUT_PACKET" /\ cur' = e /\ out' = out /\ pkt_cut_count' = pkt_cut_count + 1
        /\ cut_bytes' = cut_bytes /\ hash_en' = 1 /\ hash_en = 1
    BY <1>1, <1>18 DEF Stays, host, regs
  <2>2. /\ cut_bytes >= MinCut /\ word.len > cut_bytes /\ Ceil(cut_bytes) > 1
        /\ Ceil(cut_bytes) <= m
    <3>1. cut_bytes >= MinCut /\ word.len > cut_bytes
      BY <1>18 DEF pkt_cuttable, len_pkt_cut
    <3>2. cut_bytes > Word /\ ~(word.len < cut_bytes)
      BY <1>2, <1>15, <3>1, CutterAssumption
    <3> QED BY <1>15, <3>1, <3>2
  <2>3. ~word.last /\ EndsAfter(Line', Total', 1, m - 1)
    BY <1>15, <1>16, <2>2
  <2>4. ASSUME Undisturbed(cur') PROVE Shortening'
    <3>1. pkt_cut_count' = 2
      <4>1. ~(cutting /\ pkt_cut_count # 1)
        BY <1>10, <2>1, <2>4, Zenon DEF Undisturbed
      <4>2. pkt_cut_count = 1
        BY <1>18, <4>1, Zenon
      <4>3. QED BY <2>1, <4>2
    <3>2. e.units = (2 - 1) * Word
      <4>1. e.units = Word /\ Word \in Nat
        BY <1>5, <1>10, <2>3, CutterAssumption DEF Sized
      <4> QED BY <4>1
    <3>3. Ceil(cur'.len) = m
      BY <1>14, <2>1 DEF m
    <3>4. EndsAfter(Line', Total', 1, Ceil(cur'.len) - (2 - 1))
      BY <2>3, <3>3
    <3>5. Ceil(cut_bytes)' = Ceil(cut_bytes)
      BY <2>1 DEF Ceil
    <3>6. /\ Met(cur') /\ Cuttable(cur') /\ cur'.hash_off = 1 /\ cur'.bytes = cut_bytes'
          /\ cur'.units = (2 - 1) * Word /\ 2 <= Ceil(cut_bytes)'
      BY <1>13, <1>14, <1>15, <1>18, <2>1, <2>2, <3>2, <3>5
    <3> QED BY <2>1, <3>1, <3>4, <3>6 DEF Shortening
  <2>5. LineFits'
    <3>1. word.last = (state' \in {"WAIT_PKT", "SEND_LAST_WORD"})
      BY <1>5, <2>1, <2>3 DEF WordRecords
    <3> QED BY <1>5, <3>1 DEF LineFits
  <2> QED BY <1>3, <2>1, <2>4, <2>5 DEF Lengths, Stage, Released
<1>19. CASE ~cutting /\ word.last
  <2>1. state' = "WAIT_PKT" /\ out' = Append(out, e) /\ m = 1
    BY <1>1, <1>16, <1>19 DEF Pass, Leaves, e
  <2>2. Exact(e)
    <3> SUFFICES ASSUME e.steady PROVE e.units = Due(e)
      BY <1>13 DEF Exact, Undisturbed
    <3>1. e.units = e.len
      <4>1. word.units = word.len - (1 - 1) * Word /\ Word \in Nat
        BY <1>5, <1>19, <2>1, CutterAssumption DEF Sized, m
      <4> QED BY <1>10, <1>14, <1>15, <4>1
    <3>2. cut_en = 1 => m < Ceil(cut_bytes)
      BY <1>15, <1>17, <2>1 DEF Settled, Consistent
    <3>3. Ceil(e.len) = m /\ ~(Cuttable(e) /\ e.hash_off = 1)
      BY <1>13, <1>14, <1>19 DEF m
    <3>4. Due(e) = e.len
      <4>1. e.en = 1 => Ceil(e.len) < Ceil(e.bytes)
        BY <1>14, <3>2, <3>3
      <4>2. Ceil(e.len) \in Nat /\ Ceil(e.bytes) \in Nat
        BY <1>14, <1>15, <3>3
      <4>3. e.en = 1 => Ceil(e.len) <= Ceil(e.bytes)
        BY <4>1, <4>2
      <4> QED BY <1>13, <3>3, <4>1, <4>3, StaysWhole
    <3> QED BY <3>1, <3>4
  <2>3. Released'
    BY <1>2, <1>3, <2>1, <2>2, LeftWell DEF Lengths
  <2>4. LineFits'
    <3>1. word.last = (state' \in {"WAIT_PKT", "SEND_LAST_WORD"})
      BY <1>5, <1>19, <2>1 DEF WordRecords
    <3> QED BY <1>5, <3>1 DEF LineFits
  <2> QED BY <2>1, <2>3, <2>4 DEF Lengths, Stage
<1>20. CASE ~cutting /\ ~word.last
  <2>1. state' = "IN_PACKET" /\ cur' = e /\ out' = out
    BY <1>1, <1>20 DEF Pass, Stays, e
  <2>2. m > 1
    BY <1>15, <1>16, <1>20
  <2>3. Passing(1)'
    <3>1. cur'.units = 1 * Word
      <4>1. e.units = Word /\ Word \in Nat
        BY <1>5, <1>10, <1>20, CutterAssumption DEF Sized
      <4> QED BY <2>1, <4>1
    <3>2. Ceil(cur'.len) = m
      BY <1>14, <2>1 DEF m
    <3>3. EndsAfter(Line', Total', 1, Ceil(cur'.len) - 1) /\ Line'[1].len = cur'.len
      BY <1>14, <1>16, <2>1, <2>2, <3>2
    <3>4. Met(cur') /\ ~(Cuttable(cur') /\ cur'.hash_off = 1) /\ (pkt_short' <=> ~Cuttable(cur'))
      BY <1>1, <1>13, <1>14, <1>20, <2>1
    <3>5. ASSUME cur'.steady PROVE Counted(1)'
      <4>1. Settled
        BY <1>17, <2>1, <3>5
      <4>2. cut_counter' = WordsLeft(cur') /\ cut_counter' \in Nat
        BY <1>1, <1>2, <1>14, <2>1, <4>1 DEF WordsLeft, Settled, Consistent
      <4>3. cut_counter' = WordsLeft(cur') - (1 - 1)
        BY <4>2
      <4>4. cur'.en = 1 => cur'.bytes > Word /\ bytes_free' = Free(cur'.bytes)
        BY <1>1, <1>14, <2>1, <4>1 DEF Settled, Consistent
      <4> QED BY <4>2, <4>3, <4>4 DEF Counted
    <3> QED BY <3>1, <3>3, <3>4, <3>5 DEF Passing
  <2>4. LineFits'
    <3>1. word.last = (state' \in {"WAIT_PKT", "SEND_LAST_WORD"})
      BY <1>5, <1>20, <2>1 DEF WordRecords
    <3> QED BY <1>5, <3>1 DEF LineFits
  <2>5. 1 \in Nat
    OBVIOUS
  <2>6. Stage'
    BY <2>1, <2>3, <2>5 DEF Stage
  <2> QED BY <1>3, <2>1, <2>4, <2>6 DEF Lengths, Released
<1> QED BY <1>18, <1>19, <1>20

-----------------------------------------------------------------------------
(* A packet passes: a word of it goes, or its place is taken by the hash.  *)
LEMMA InPacketMeasures ==
  ASSUME LengthFits, Types, LengthInv, InPacket
  PROVE  Lengths'
<1>1. /\ state = "IN_PACKET" /\ fifo # <<>> /\ UNCHANGED <<host, input>>
      /\ UNCHANGED <<pkt_short, bytes_free>>
  BY DEF InPacket
<1>2. /\ fifo \in Seq(WordRecords) /\ sending \in Seq(WordRecords) /\ sending' = sending
      /\ out \in Seq(Range(out)) /\ Fields(cur)
  BY <1>1 DEF Types, input
<1>3. Lengths
  BY <1>1 DEF LengthInv
<1>4. PICK k \in Nat : Passing(k)
  BY <1>1, <1>3 DEF Lengths, Stage
<1> DEFINE l == Ceil(cur.len)
           b == Ceil(cur.bytes)
           w == Word
<1>5. /\ k > 0 /\ cur.units = k * w /\ EndsAfter(Line, Total, 1, l - k) /\ Line[1].len = cur.len
      /\ Met(cur) /\ ~(Cuttable(cur) /\ cur.hash_off = 1) /\ (pkt_short <=> ~Cuttable(cur))
  BY <1>4 DEF Passing
<1>6. /\ cur.len \in Nat \ {0} /\ cur.bytes \in Nat /\ l \in Nat \ {0} /\ b \in Nat
      /\ l < b => cur.len < cur.bytes
      /\ cur.bytes > Word => b > 1
      /\ w \in Nat \ {0} /\ l <= 2048
  BY <1>5, MetTypes, CutterAssumption DEF LengthFits, Met
<1>7. cur.steady => Counted(k)
  BY <1>4 DEF Passing
<1>8. /\ Total \in Nat /\ Total > 0 /\ word = Line[1] /\ Sized(word) /\ word \in WordRecords
  <2>1. /\ Total \in Nat /\ Total > 0 /\ word = Line[1]
        /\ \A i \in 1 .. Total : Line[i] \in WordRecords
    BY <1>1, <1>2, LineTypes DEF word
  <2>2. 1 \in 1 .. Total
    BY <2>1
  <2> QED BY <1>3, <2>1, <2>2 DEF Lengths, LineFits, Measured
<1>9. l - k >= 1 /\ (l - k = 1 <=> word.last)
  <2>1. l - k >= 1
    BY <1>5 DEF EndsAfter
  <2>2. l - k = 1 => word.last
    BY <1>5, <1>8 DEF EndsAfter
  <2>3. l - k # 1 => ~word.last
    <3> SUFFICES ASSUME l - k # 1 PROVE ~word.last
      OBVIOUS
    <3> DEFINE d == l - k
    <3>1. d \in Int /\ d >= 1 /\ d # 1 /\ EndsAfter(Line, Total, 1, d)
      BY <1>5, <1>6, <2>1
    <3> HIDE DEF d, l
    <3>2. 1 \in 1 .. 1 + d - 2
      BY <3>1
    <3> QED BY <1>8, <3>1, <3>2 DEF EndsAfter
  <2> QED BY <2>1, <2>2, <2>3
<1>10. ASSUME Take
       PROVE  /\ Measured(Line', Total', word.last)
              /\ l - k > 1 => EndsAfter(Line', Total', 1, (l - k) - 1) /\ Line'[1].len = word.len
  <2>1. Measured(Line, Total, state \in {"WAIT_PKT", "SEND_LAST_WORD"})
    BY <1>3 DEF Lengths, LineFits
  <2>2. /\ Measured(Line', Total', word.last)
        /\ \A m \in Int : EndsAfter(Line, Total, 1, m) =>
             /\ (m = 1 <=> word.last)
             /\ m > 1 => EndsAfter(Line', Total', 1, m - 1) /\ Line'[1].len = word.len
    BY <1>2, <1>10, <2>1, MeasuredTaken
  <2>3. l - k \in Int
    BY <1>6
  <2> QED BY <1>5, <2>2, <2>3
(* With the counter at its end and a packet longer than the cut, the cut   *)
(* is on and all the words before the hash are out.                        *)
<1>11. ASSUME cut_counter = 0, ~word.last \/ ~pkt_short
       PROVE  Hashing(b - 1)
  <2> SUFFICES ASSUME cur.steady PROVE Hashed(b - 1)
    BY <1>5 DEF Hashing
  <2>1. cut_counter = WordsLeft(cur) - (k - 1)
    BY <1>7 DEF Counted
  <2>2. cur.en = 1
    <3>1. k <= 2047
      BY <1>6, <1>9
    <3> QED BY <1>11, <2>1, <3>1 DEF WordsLeft
  <2>3. k = b - 1
    BY <1>6, <1>11, <2>1, <2>2 DEF WordsLeft
  <2>4. cur.bytes > Word /\ bytes_free = Free(cur.bytes)
    BY <1>7, <2>2 DEF Counted
  <2>5. Cuttable(cur) \/ l > b
    BY <1>5, <1>6, <1>9, <1>11, <2>3
  <2>6. Due(cur) = cur.bytes + Hash
    BY <1>5, <2>2, <2>5, GetsHash
  <2> QED BY <1>5, <2>3, <2>4, <2>6 DEF Hashed
<1> HIDE DEF l, b, w
<1>12. CASE cut_counter # 0 \/ (word.last /\ pkt_short)
  <2> DEFINE e == Emit(cur, word.units)
  <2>1. /\ Take /\ Pass(cur) /\ state' = IF word.last THEN "WAIT_PKT" ELSE "IN_PACKET"
        /\ cut_counter' = IF word.last THEN cut_counter ELSE cut_counter - 1
    BY <1>12 DEF InPacket
  <2>2. Alike(cur, e) /\ e.units = cur.units + word.units
    BY <1>2, Emitted
  <2>3. IF word.last THEN out' = Append(out, e) ELSE Stays(e)
    BY <2>1 DEF Pass, Leaves
  <2> HIDE DEF e
  <2>4. /\ Met(e) /\ (Cuttable(e) <=> Cuttable(cur))
        /\ Due(e) = Due(cur) /\ WordsLeft(e) = WordsLeft(cur)
    BY <1>5, <2>2, SimilarMeans DEF Alike
  <2>5. e.steady = cur.steady /\ e.len = cur.len /\ e.en = cur.en /\ e.bytes = cur.bytes
        /\ e.hash_off = cur.hash_off
    BY <2>2 DEF Alike, Similar
  <2>6. LineFits'
    <3>1. word.last = (state' \in {"WAIT_PKT", "SEND_LAST_WORD"})
      BY <1>8, <2>1 DEF WordRecords
    <3> QED BY <1>10, <2>1, <3>1 DEF LineFits
  <2>7. CASE word.last
    <3>1. e.units = e.len
      <4>1. word.units = cur.len - (l - 1) * w
        BY <1>5, <1>8, <2>7 DEF Sized, l, w
      <4>2. l - 1 = k
        BY <1>6, <1>9, <2>7
      <4> QED BY <1>5, <1>6, <2>2, <2>5, <4>1, <4>2
    <3>2. Exact(e)
      <4> SUFFICES ASSUME e.steady PROVE e.units = Due(e)
        BY <2>4 DEF Exact, Undisturbed
      <4>1. cut_counter \in Nat /\ cut_counter = WordsLeft(cur) - (k - 1)
        BY <1>7, <2>5 DEF Counted
      <4>2. cur.en = 1 => cut_counter = b - l
        BY <1>6, <1>9, <2>7, <4>1 DEF WordsLeft, b
      <4>3. cur.en = 1 => l <= b
        BY <1>6, <4>1, <4>2
      <4>4. cur.en = 1 /\ Cuttable(cur) => l < b
        BY <1>5, <1>6, <1>12, <4>1, <4>2
      <4>5. Due(cur) = cur.len
        BY <1>5, <4>3, <4>4, StaysWhole DEF l, b
      <4> QED BY <2>4, <2>5, <3>1, <4>5
    <3>3. Released'
      BY <1>2, <1>3, <2>3, <2>7, <3>2, LeftWell DEF Lengths
    <3>4. Stage'
      BY <2>1, <2>7 DEF Stage
    <3> QED BY <2>6, <3>3, <3>4 DEF Lengths
  <2>8. CASE ~word.last
    <3>1. state' = "IN_PACKET" /\ cur' = e /\ out' = out /\ cut_counter' = cut_counter - 1
          /\ cut_counter # 0
      BY <1>12, <2>1, <2>3, <2>8 DEF Stays
    <3>2. cur'.units = (k + 1) * Word
      <4>1. word.units = w
        BY <1>8, <2>8 DEF Sized, w
      <4>2. k * w + w = (k + 1) * w
        BY <1>6
      <4> QED BY <1>5, <2>2, <3>1, <4>1, <4>2 DEF w
    <3>3. l - k > 1
      BY <1>6, <1>9, <2>8
    <3>4. EndsAfter(Line', Total', 1, l - (k + 1)) /\ Line'[1].len = word.len
      <4>1. (l - k) - 1 = l - (k + 1)
        BY <1>6
      <4> QED BY <1>10, <2>1, <3>3, <4>1
    <3>5. EndsAfter(Line', Total', 1, Ceil(cur'.len) - (k + 1)) /\ Line'[1].len = cur'.len
      BY <1>5, <1>8, <2>5, <3>1, <3>4 DEF l
    <3>6. Met(cur') /\ ~(Cuttable(cur') /\ cur'.hash_off = 1) /\ (pkt_short' <=> ~Cuttable(cur'))
      BY <1>1, <1>5, <2>4, <2>5, <3>1
    <3>7. ASSUME cur'.steady PROVE Counted(k + 1)'
      <4>1. Counted(k)
        BY <1>7, <2>5, <3>1, <3>7
      <4>2. cut_counter' \in Nat /\ cut_counter' = WordsLeft(cur') - ((k + 1) - 1)
        <5>1. WordsLeft(cur) \in Int
          BY <1>6 DEF WordsLeft, b
        <5> QED BY <2>4, <3>1, <4>1, <5>1 DEF Counted
      <4>3. cur'.en = 1 => cur'.bytes > Word /\ bytes_free' = Free(cur'.bytes)
        BY <1>1, <2>5, <3>1, <4>1 DEF Counted
      <4> QED BY <4>2, <4>3 DEF Counted
    <3>8. Passing(k + 1)'
      BY <1>5, <3>2, <3>5, <3>6, <3>7 DEF Passing
    <3>9. k + 1 \in Nat
      OBVIOUS
    <3>10. Stage'
      BY <3>1, <3>8, <3>9 DEF Stage
    <3> QED BY <1>3, <2>6, <3>1, <3>10 DEF Lengths, Released
  <2> QED BY <2>7, <2>8
<1>13. ASSUME cut_counter = 0, ~word.last \/ ~pkt_short, UNCHANGED <<cur, out>>,
              state' \in {"START_HASH", "COMPLETE_PKT"},
              state' = "COMPLETE_PKT" => Total' > 0 /\ Line'[1].last
       PROVE  Stage' /\ Released'
  <2>1. Hashing(Ceil(cur.bytes) - 1)
    BY <1>11, <1>13 DEF b
  <2>2. Hashing(Ceil(cur.bytes) - 1)'
    BY <1>1, <1>13, <2>1 DEF Hashing, Hashed
  <2> QED BY <1>3, <1>13, <2>2 DEF Stage, Released, Lengths
<1>14. CASE cut_counter = 0 /\ word.last /\ ~pkt_short
  <2>1. state' = "COMPLETE_PKT" /\ UNCHANGED <<fifo, cur, out>>
    BY <1>14 DEF InPacket
  <2>2. Line' = Line /\ Total' = Total
    BY <1>1, <2>1, LineStays
  <2>3. LineFits'
    BY <1>1, <1>3, <2>1, <2>2 DEF LineFits, Lengths
  <2>4. Total' > 0 /\ Line'[1].last
    BY <1>8, <1>14, <2>2
  <2> QED BY <1>13, <1>14, <2>1, <2>3, <2>4 DEF Lengths
<1>15. CASE cut_counter = 0 /\ ~word.last
  <2>1. Take /\ state' = "START_HASH" /\ UNCHANGED <<cur, out>>
    BY <1>15 DEF InPacket
  <2>2. LineFits'
    <3>1. word.last = (state' \in {"WAIT_PKT", "SEND_LAST_WORD"})
      BY <1>8, <1>15, <2>1 DEF WordRecords
    <3> QED BY <1>10, <2>1, <3>1 DEF LineFits
  <2> QED BY <1>13, <1>15, <2>1, <2>2 DEF Lengths
<1> QED BY <1>12, <1>14, <1>15 DEF InPacket

(* The words the hash takes the place of go; it follows what has passed.   *)
LEMMA StartHashMeasures ==
  ASSUME Types, LengthInv, StartHash
  PROVE  Lengths'
<1>1. /\ state = "START_HASH" /\ fifo # <<>> /\ UNCHANGED <<host, input, out, cur>>
      /\ bytes_free' = bytes_free
  BY DEF StartHash, history
<1>2. /\ fifo \in Seq(WordRecords) /\ sending \in Seq(WordRecords) /\ sending' = sending
  BY <1>1 DEF Types, input
<1>3. Lengths /\ Hashing(Ceil(cur.bytes) - 1)
  BY <1>1 DEF LengthInv, Lengths, Stage
<1>4. Hashing(Ceil(cur.bytes) - 1)'
  BY <1>1, <1>3 DEF Hashing, Hashed
<1>5. state' \in {"START_HASH", "COMPLETE_PKT"}
  BY <1>1 DEF StartHash
<1>6. Stage' /\ Released'
  <2>1. ASSUME state' = "COMPLETE_PKT" PROVE Total' > 0 /\ Line'[1].last
    <3>1. word.last /\ fifo' = fifo
      BY <1>1, <2>1 DEF StartHash
    <3>2. Line' = Line /\ Total' = Total
      BY <1>1, <3>1, LineStays
    <3>3. Total > 0 /\ word = Line[1]
      BY <1>1, <1>2, LineTypes DEF word
    <3> QED BY <3>1, <3>2, <3>3
  <2> QED BY <1>1, <1>3, <1>4, <1>5, <2>1 DEF Stage, Released, Lengths
<1>7. LineFits'
  <2>1. CASE word.last
    <3>1. state' = "COMPLETE_PKT" /\ fifo' = fifo
      BY <2>1 DEF StartHash
    <3>2. Line' = Line /\ Total' = Total
      BY <1>1, <3>1, LineStays
    <3> QED BY <1>1, <1>3, <3>1, <3>2 DEF LineFits, Lengths
  <2>2. CASE ~word.last
    <3>1. Take /\ state' = "START_HASH"
      BY <1>1, <2>2 DEF StartHash
    <3>2. Measured(Line, Total, state \in {"WAIT_PKT", "SEND_LAST_WORD"})
      BY <1>3 DEF Lengths, LineFits
    <3>3. Measured(Line', Total', word.last) /\ word \in WordRecords
      BY <1>2, <3>1, <3>2, MeasuredTaken
    <3>4. word.last = (state' \in {"WAIT_PKT", "SEND_LAST_WORD"})
      BY <2>2, <3>1, <3>3 DEF WordRecords
    <3> QED BY <3>3, <3>4 DEF LineFits
  <2> QED BY <2>1, <2>2
<1> QED BY <1>6, <1>7 DEF Lengths

LEMMA CompletePktMeasures ==
  ASSUME Types, LengthInv, CompletePkt
  PROVE  Lengths'
<1> DEFINE whole == Emit(cur, Word - bytes_free + Hash)
           part == Emit(cur, Word)
           b == Ceil(cur.bytes)
           f == Free(cur.bytes)
           w == Word
<1>1. /\ state = "COMPLETE_PKT" /\ Take /\ UNCHANGED <<host, input>>
      /\ bytes_free' = bytes_free
      /\ \/ state' = "SEND_LAST_WORD" /\ Stays(part)
         \/ state' = "WAIT_PKT" /\ Leaves(whole)
      /\ out \in Seq(Range(out)) /\ Fields(cur)
  BY DEF CompletePkt, Types
<1>2. /\ fifo \in Seq(WordRecords) /\ sending \in Seq(WordRecords) /\ sending' = sending
  BY <1>1 DEF Types, input
<1>3. Lengths /\ Hashing(b - 1)
  BY <1>1 DEF LengthInv, Lengths, Stage
<1>4. Measured(Line, Total, state \in {"WAIT_PKT", "SEND_LAST_WORD"})
  BY <1>3 DEF Lengths, LineFits
<1>5. Measured(Line', Total', word.last) /\ word \in WordRecords /\ word = Line[1]
  BY <1>1, <1>2, <1>4, MeasuredTaken
<1>6. LineFits'
  <2>1. word.last = (state' \in {"WAIT_PKT", "SEND_LAST_WORD"})
    BY <1>1, <1>3, <1>5 DEF WordRecords, Lengths, Stage
  <2> QED BY <1>5, <2>1 DEF LineFits
<1>7. /\ Alike(cur, whole) /\ whole.units = cur.units + (Word - bytes_free + Hash)
      /\ Alike(cur, part) /\ part.units = cur.units + Word
  BY <1>1, Emitted
<1> HIDE DEF whole, part
<1>8. Met(cur) /\ Met(whole) /\ Met(part) /\ Due(whole) = Due(cur)
      /\ Due(part) = Due(cur)
  BY <1>3, <1>7, SimilarMeans DEF Hashing, Alike
<1>9. cur.bytes \in Nat /\ w \in Nat \ {0} /\ Hash \in Nat /\ b \in Nat
  BY <1>8, MetTypes, CutterAssumption
<1>10. ASSUME cur.steady
       PROVE  /\ cur.bytes > w /\ bytes_free = f /\ cur.units = (b - 1) * w
              /\ Due(cur) = cur.bytes + Hash
              /\ f \in 0 .. w - 1 /\ b * w - f = cur.bytes
              /\ (b - 1) * w + w = b * w
  <2>1. /\ cur.bytes > w /\ bytes_free = f /\ cur.units = (b - 1) * w
        /\ Due(cur) = cur.bytes + Hash
    BY <1>3, <1>10 DEF Hashing, Hashed
  <2>2. cur.bytes \in Nat \ {0}
    BY <1>9, <2>1
  <2>3. f \in 0 .. w - 1 /\ b * w - f = cur.bytes
    BY <2>2, CeilIs
  <2>4. (b - 1) * w + w = b * w
    <3> HIDE DEF b, w
    <3> QED BY <1>9
  <2> QED BY <2>1, <2>3, <2>4
<1> HIDE DEF b, f, w
<1>11. CASE state' = "SEND_LAST_WORD" /\ Stays(part)
  <2>1. cur' = part /\ out' = out
    BY <1>11 DEF Stays
  <2>2. Ceil(cur'.bytes) = b
    BY <1>7, <2>1 DEF Alike, Similar, b
  <2>3. Hashing(b)'
    <3>1. Met(cur')
      BY <1>8, <2>1
    <3>2. ASSUME cur'.steady
          PROVE  /\ cur'.bytes > Word /\ bytes_free' = Free(cur'.bytes) /\ cur'.units = b * Word
                 /\ Due(cur') = cur'.bytes + Hash
      <4>1. cur.steady /\ cur'.bytes = cur.bytes
        BY <1>7, <2>1, <3>2 DEF Alike, Similar
      <4>2. cur'.units = b * w
        BY <1>7, <1>10, <2>1, <4>1 DEF w
      <4> QED BY <1>1, <1>8, <1>10, <2>1, <4>1, <4>2 DEF w, f
    <3>3. b' = b
      BY <2>2 DEF b
    <3> QED BY <3>1, <3>2, <3>3 DEF Hashing, Hashed
  <2>4. Stage'
    BY <1>11, <2>2, <2>3 DEF Stage, b
  <2> QED BY <1>3, <1>6, <2>1, <2>4 DEF Lengths, Released
<1>12. CASE state' = "WAIT_PKT" /\ Leaves(whole)
  <2>1. Exact(whole)
    <3> SUFFICES ASSUME whole.steady PROVE whole.units = Due(whole)
      BY <1>8 DEF Exact, Undisturbed
    <3>1. cur.steady
      BY <1>7 DEF Alike
    <3> DEFINE y == cur.bytes
    <3>2. /\ whole.units = (b - 1) * w + (w - f + Hash) /\ Due(whole) = y + Hash
          /\ f \in Int /\ b * w - f = y /\ (b - 1) * w + w = b * w
      BY <1>7, <1>8, <1>10, <3>1 DEF w
    <3>3. (b - 1) * w \in Int /\ b * w \in Int /\ y \in Int
      BY <1>9
    <3> HIDE DEF y
    <3> QED BY <1>9, <3>2, <3>3
  <2>2. Released'
    BY <1>1, <1>3, <1>12, <2>1, LeftWell DEF Lengths, Leaves
  <2> QED BY <1>6, <1>12, <2>2 DEF Lengths, Stage
<1> QED BY <1>1, <1>11, <1>12

LEMMA SendLastWordMeasures ==
  ASSUME Types, LengthInv, SendLastWord
  PROVE  Lengths'
<1> DEFINE e == [cur EXCEPT !.units = @ + Hash - bytes_free]
           b == Ceil(cur.bytes)
           f == Free(cur.bytes)
           w == Word
           y == cur.bytes
<1>1. /\ state = "SEND_LAST_WORD" /\ state' = "WAIT_PKT" /\ Leaves(e)
      /\ UNCHANGED <<fifo, input>>
      /\ out \in Seq(Range(out)) /\ Fields(cur)
  BY DEF SendLastWord, Types
<1>2. Lengths /\ Hashing(b)
  BY <1>1 DEF LengthInv, Lengths, Stage
<1>3. LineFits'
  <2>1. Line' = Line /\ Total' = Total
    BY <1>1, LineStays
  <2> QED BY <1>1, <1>2, <2>1 DEF LineFits, Lengths
<1>4. Alike(cur, e) /\ e.units = cur.units + Hash - bytes_free
  BY <1>1 DEF Fields, Alike, Similar
<1> HIDE DEF e
<1>5. Met(cur) /\ Met(e) /\ Due(e) = Due(cur)
  BY <1>2, <1>4, SimilarMeans DEF Hashing, Alike
<1>6. y \in Nat /\ w \in Nat \ {0} /\ Hash \in Nat /\ b \in Nat
  BY <1>5, MetTypes, CutterAssumption
<1>7. Exact(e)
  <2> SUFFICES ASSUME e.steady PROVE e.units = Due(e)
    BY <1>5 DEF Exact, Undisturbed
  <2>1. cur.steady
    BY <1>4 DEF Alike
  <2>2. y > w /\ bytes_free = f /\ cur.units = b * w /\ Due(cur) = y + Hash
    BY <1>2, <2>1 DEF Hashing, Hashed
  <2>3. y \in Nat \ {0}
    BY <1>6, <2>2
  <2>4. f \in 0 .. w - 1 /\ b * w - f = y
    BY <2>3, CeilIs
  <2>5. b * w \in Int /\ f \in Int /\ e.units = b * w + Hash - f /\ Due(e) = y + Hash
    BY <1>4, <1>5, <1>6, <2>2, <2>4
  <2> HIDE DEF b, w, f, y
  <2> QED BY <1>6, <2>4, <2>5
<1>8. Released'
  BY <1>1, <1>2, <1>7, LeftWell DEF Lengths, Leaves
<1> QED BY <1>1, <1>3, <1>8 DEF Lengths, Stage

(* A packet is cut without hash: the word the cut ends in is its last.     *)
LEMMA CutPacketMeasures ==
  ASSUME Types, LengthInv, CutPacket
  PROVE  Lengths'
<1> DEFINE c == pkt_cut_count
           l == Ceil(cur.len)
           b == Ceil(cut_bytes)
           end == Emit(cur, len_pkt_cut - (pkt_cut_count - 1) * Word)
           more == Emit(cur, word.units)
<1>1. /\ state = "CUT_PACKET" /\ Take /\ UNCHANGED <<host, input>>
      /\ c' = c + 1
      /\ IF Ceil(len_pkt_cut) = c
         THEN /\ out' = Append(out, end)
              /\ state' = IF word.last THEN "WAIT_PKT" ELSE "CUT_PACKET_WAIT"
         ELSE Stays(more) /\ state' = state
      /\ out \in Seq(Range(out)) /\ Fields(cur) /\ c \in Nat /\ cut_bytes \in Nat
  BY DEF CutPacket, Types, Leaves
<1>2. /\ fifo \in Seq(WordRecords) /\ sending \in Seq(WordRecords) /\ sending' = sending
      /\ cut_bytes' = cut_bytes /\ hash_en' = hash_en
  BY <1>1 DEF Types, input, host, regs
<1>3. Lengths /\ (Undisturbed(cur) => Shortening)
  BY <1>1 DEF LengthInv, Lengths, Stage
<1>4. Measured(Line, Total, FALSE)
  <2>1. (state \in {"WAIT_PKT", "SEND_LAST_WORD"}) = FALSE
    BY <1>1
  <2>2. Measured(Line, Total, state \in {"WAIT_PKT", "SEND_LAST_WORD"})
    BY <1>3 DEF Lengths, LineFits
  <2> QED BY <2>1, <2>2
<1>5. /\ Measured(Line', Total', word.last) /\ word \in WordRecords /\ Sized(word)
      /\ \A m \in Int : EndsAfter(Line, Total, 1, m) =>
           /\ (m = 1 <=> word.last)
           /\ m > 1 => EndsAfter(Line', Total', 1, m - 1)
  BY <1>1, <1>2, <1>4, MeasuredTaken
<1>6. LineFits'
  <2>1. CASE Ceil(len_pkt_cut) = c
    <3>1. word.last = (state' \in {"WAIT_PKT", "SEND_LAST_WORD"})
      BY <1>1, <1>5, <2>1 DEF WordRecords
    <3> QED BY <1>5, <3>1 DEF LineFits
  <2>2. CASE Ceil(len_pkt_cut) # c
    <3>1. Measured(Line', Total', FALSE)
      BY <1>5 DEF Measured
    <3>2. (state' \in {"WAIT_PKT", "SEND_LAST_WORD"}) = FALSE
      BY <1>1, <2>2
    <3>3. Measured(Line', Total', state' \in {"WAIT_PKT", "SEND_LAST_WORD"})
      BY <3>1, <3>2
    <3> QED BY <3>3 DEF LineFits
  <2> QED BY <2>1, <2>2
<1>7. /\ Alike(cur, end) /\ end.units = cur.units + (len_pkt_cut - (c - 1) * Word)
      /\ Alike(cur, more) /\ more.units = cur.units + word.units
  BY <1>1, Emitted
<1> HIDE DEF end, more
<1>8. Undisturbed(end) = Undisturbed(cur) /\ Undisturbed(more) = Undisturbed(cur)
  BY <1>7 DEF Alike, Undisturbed
(* What an undisturbed packet has come to.                                 *)
<1>9. ASSUME Undisturbed(cur)
      PROVE  /\ Met(end) /\ Met(more) /\ Cuttable(more) /\ Due(end) = cut_bytes
             /\ hash_en = 1 /\ len_pkt_cut = cut_bytes /\ cur.bytes = cut_bytes
             /\ cur.hash_off = 1
             /\ c > 1 /\ c <= b /\ l \in Nat /\ b \in Nat /\ b <= l
             /\ (l - (c - 1) = 1 <=> word.last)
             /\ l - (c - 1) > 1 => EndsAfter(Line', Total', 1, l - (c - 1) - 1)
             /\ cur.units = (c - 1) * Word /\ Word \in Nat \ {0} /\ (c - 1) * Word \in Int
  <2>1. Shortening
    BY <1>3, <1>9
  <2>2. /\ Met(cur) /\ Cuttable(cur) /\ cur.hash_off = 1 /\ hash_en = 1
        /\ cur.bytes = cut_bytes /\ c > 1 /\ c <= b /\ cur.units = (c - 1) * Word
        /\ EndsAfter(Line, Total, 1, l - (c - 1))
    BY <2>1 DEF Shortening
  <2>3. /\ Met(end) /\ Met(more) /\ Cuttable(more) /\ Due(end) = Due(cur)
    BY <1>7, <2>2, SimilarMeans DEF Alike
  <2>4. Due(cur) = cut_bytes /\ len_pkt_cut = cut_bytes
    BY <2>2, IsCutOff DEF len_pkt_cut
  <2>5. l \in Nat /\ b \in Nat /\ b <= l
    <3>1. cur.len \in Nat /\ cur.len > cut_bytes
      BY <2>2, MetTypes DEF Cuttable, CutTo
    <3>2. cut_bytes <= cur.len
      BY <1>1, <3>1
    <3> QED BY <1>1, <3>1, <3>2, CeilGrows
  <2>6. l - (c - 1) \in Int
    BY <1>1, <2>5
  <2>7. /\ (l - (c - 1) = 1 <=> word.last)
        /\ l - (c - 1) > 1 => EndsAfter(Line', Total', 1, l - (c - 1) - 1)
    BY <1>5, <2>2, <2>6
  <2>8. Word \in Nat \ {0}
    BY CutterAssumption
  <2>9. (c - 1) * Word \in Int
    BY <1>1, <2>8
  <2> QED BY <2>2, <2>3, <2>4, <2>5, <2>7, <2>8, <2>9
<1>10. CASE Ceil(len_pkt_cut) = c
  <2>1. Exact(end)
    <3> SUFFICES ASSUME Undisturbed(cur) PROVE Met(end) /\ end.units = Due(end)
      BY <1>8 DEF Exact
    <3> QED BY <1>1, <1>7, <1>9
  <2>2. Released'
    BY <1>1, <1>3, <1>10, <2>1, LeftWell DEF Lengths
  <2>3. Stage'
    BY <1>1, <1>10 DEF Stage
  <2> QED BY <1>6, <2>2, <2>3 DEF Lengths
<1>11. CASE Ceil(len_pkt_cut) # c
  <2>1. state' = "CUT_PACKET" /\ cur' = more /\ out' = out
    BY <1>1, <1>11 DEF Stays
  <2>2. ASSUME Undisturbed(cur') PROVE Shortening'
    <3>1. Undisturbed(cur)
      BY <1>8, <2>1, <2>2
    <3> DEFINE w == Word
    <3>2. /\ c < b /\ b <= l /\ ~word.last /\ l \in Nat /\ b \in Nat
          /\ EndsAfter(Line', Total', 1, l - (c - 1) - 1)
      <4>1. c # b
        BY <1>9, <1>11, <3>1
      <4> HIDE DEF b, l, c
      <4>2. c \in Nat
        BY <1>1 DEF c
      <4>3. l - (c - 1) > 1
        BY <1>9, <3>1, <4>1, <4>2
      <4> QED BY <1>9, <3>1, <4>1, <4>2, <4>3
    <3>a. /\ Met(more) /\ Cuttable(more) /\ hash_en = 1 /\ cur.bytes = cut_bytes
          /\ cur.hash_off = 1 /\ c > 1 /\ cur.units = (c - 1) * Word /\ Word \in Nat \ {0}
          /\ (c - 1) * Word \in Int
      BY <1>9, <3>1
    <3>3. more.units = (c - 1) * w + w /\ c' - 1 = c
      <4>1. word.units = Word
        BY <1>5, <3>2 DEF Sized
      <4>2. c' - 1 = c
        BY <1>1
      <4>3. QED BY <1>7, <3>a, <4>1, <4>2
    <3>4. (c - 1) * w + w = c * w
      <4> HIDE DEF c, w
      <4>1. c \in Nat /\ w \in Nat
        BY <1>1, CutterAssumption DEF w, c
      <4> QED BY <4>1
    <3>5. cur'.units = (c' - 1) * Word
      BY <2>1, <3>3, <3>4
    <3>6. /\ cur'.bytes = cut_bytes' /\ cur'.hash_off = 1 /\ Met(cur') /\ Cuttable(cur')
          /\ hash_en' = 1 /\ c' > 1 /\ cur'.len = cur.len
      <4>1. more.bytes = cur.bytes /\ more.hash_off = cur.hash_off /\ more.len = cur.len
        BY <1>7 DEF Alike, Similar
      <4>2. c' > 1
        BY <1>1, <3>a
      <4>3. QED BY <1>2, <2>1, <3>a, <4>1, <4>2, Zenon
    <3>7. c' <= b /\ b' = b
      BY <1>1, <1>2, <3>2 DEF Ceil
    <3>8. EndsAfter(Line', Total', 1, Ceil(cur'.len) - (c' - 1))
      <4>1. Ceil(cur'.len) = l
        BY <3>6
      <4>2. l - (c - 1) - 1 = l - (c' - 1)
        BY <1>1, <3>2
      <4> HIDE DEF l
      <4> QED BY <3>2, <4>1, <4>2
    <3> QED BY <3>5, <3>6, <3>7, <3>8 DEF Shortening
  <2>3. Stage'
    BY <2>1, <2>2 DEF Stage
  <2> QED BY <1>3, <1>6, <2>1, <2>3 DEF Lengths, Released
<1> QED BY <1>10, <1>11

LEMMA CutPacketWaitMeasures ==
  ASSUME Types, LengthInv, CutPacketWait
  PROVE  Lengths'
<1>1. /\ state = "CUT_PACKET_WAIT" /\ Take /\ UNCHANGED <<input, cur, out>>
      /\ state' = IF word.last THEN "WAIT_PKT" ELSE "CUT_PACKET_WAIT"
  BY DEF CutPacketWait, history
<1>2. /\ fifo \in Seq(WordRecords) /\ sending \in Seq(WordRecords) /\ sending' = sending
  BY <1>1 DEF Types, input
<1>3. Lengths
  BY <1>1 DEF LengthInv
<1>4. Measured(Line, Total, state \in {"WAIT_PKT", "SEND_LAST_WORD"})
  BY <1>3 DEF Lengths, LineFits
<1>5. Measured(Line', Total', word.last) /\ word \in WordRecords
  BY <1>1, <1>2, <1>4, MeasuredTaken
<1>6. LineFits'
  <2>1. word.last = (state' \in {"WAIT_PKT", "SEND_LAST_WORD"})
    BY <1>1, <1>5 DEF WordRecords
  <2> QED BY <1>5, <2>1 DEF LineFits
<1> QED BY <1>1, <1>3, <1>6 DEF Lengths, Stage, Released

(* Clock edges without a word: one that ends a packet being cut finds it   *)
(* disturbed, as the last word of an undisturbed one is not out.           *)
LEMMA IdleMeasures ==
  ASSUME Types, LengthInv, WaitIdle \/ CutStarved
  PROVE  Lengths'
<1> DEFINE again == [cur EXCEPT !.twice = TRUE]
           rest == [Nothing EXCEPT !.twice = TRUE]
<1>1. /\ UNCHANGED <<fifo, input, state, cut_bytes, hash_en>>
      /\ Fields(cur) /\ out \in Seq(Range(out))
      /\ fifo \in Seq(WordRecords) /\ sending \in Seq(WordRecords)
  BY DEF WaitIdle, CutStarved, host, regs, machine, Types
<1>2. Lengths
  BY DEF LengthInv
<1>3. Line' = Line /\ Total' = Total
  BY <1>1, LineStays
<1>4. LineFits'
  BY <1>1, <1>2, <1>3 DEF Lengths, LineFits
<1>5. Similar(cur, again) /\ again.units = cur.units /\ Undisturbed(again) = Undisturbed(cur)
  BY <1>1 DEF Fields, Similar, Undisturbed
<1>6. ~Undisturbed(rest)
  BY DEF Undisturbed, Nothing
<1> HIDE DEF again, rest
<1>7. CASE WaitIdle
  BY <1>2, <1>4, <1>7 DEF WaitIdle, history, Lengths, Stage, Released
<1>8. CASE CutStarved
  <2>1. /\ state = "CUT_PACKET" /\ state' = state /\ fifo = <<>> /\ pkt_cut_count' = pkt_cut_count
        /\ \/ cur' = again /\ out' = out
           \/ sending = <<>> /\ cur' = rest /\ out' = Append(out, again)
    BY <1>8 DEF CutStarved, Stays, machine, again, rest
  <2>2. Undisturbed(cur) => Shortening
    BY <1>2, <2>1 DEF Lengths, Stage
  <2>3. CASE cur' = again /\ out' = out
    <3>1. ASSUME Undisturbed(cur') PROVE Shortening'
      <4>1. Shortening
        BY <1>5, <2>2, <2>3, <3>1
      <4>2. Met(cur') /\ Cuttable(cur')
        BY <1>5, <2>3, <4>1, SimilarMeans DEF Shortening
      <4> QED BY <1>1, <1>3, <1>5, <2>1, <2>3, <4>1, <4>2 DEF Shortening, Similar, Ceil
    <3> QED BY <1>2, <1>4, <2>1, <2>3, <3>1 DEF Lengths, Stage, Released
  <2>4. CASE sending = <<>> /\ cur' = rest /\ out' = Append(out, again)
    <3>1. ~Undisturbed(cur)
      <4> SUFFICES ASSUME Undisturbed(cur) PROVE FALSE
        OBVIOUS
      <4>1. Shortening
        BY <2>2
      <4>2. Ceil(cur.len) - (pkt_cut_count - 1) \in Int
        <5>1. cur.len \in Nat /\ pkt_cut_count \in Nat
          BY <4>1, CutterAssumption DEF Shortening, Met, Types
        <5> QED BY <5>1, CeilGrows
      <4>3. Total > 0
        BY <1>1, <4>1, <4>2, HasWord DEF Shortening
      <4>4. Total = 0
        BY <2>1, <2>4 DEF Total
      <4> QED BY <4>3, <4>4
    <3>2. Exact(again)
      BY <1>5, <3>1 DEF Exact
    <3>3. Released'
      BY <1>1, <1>2, <2>4, <3>2, LeftWell DEF Lengths
    <3>4. Stage'
      BY <1>6, <2>1, <2>4 DEF Stage
    <3> QED BY <1>4, <3>3, <3>4 DEF Lengths
  <2> QED BY <2>1, <2>3, <2>4
<1> QED BY <1>7, <1>8

-----------------------------------------------------------------------------
(* The registers, and the lengths of what comes, passes and has left, hold *)
(* in every state (monitor.py, enable_cut; packet_cutter.v).               *)
THEOREM LengthsHold ==
  ASSUME LengthFits
  PROVE  Spec => [](CutterInv /\ LengthInv)
<1>1. Init => LengthInv
  <2> SUFFICES ASSUME Init PROVE LengthInv
    OBVIOUS
  <2>1. Total = 0
    BY DEF Init, Total
  <2>2. Pending
    <3>1. Settled
      BY DEF Init, Settled, Consistent
    <3>2. todo = <<>>
      BY DEF Init
    <3> QED BY <3>1, <3>2 DEF Pending, Resting
  <2>3. LineFits
    BY <2>1 DEF LineFits, Measured
  <2>4. Released /\ Stage
    BY DEF Init, Released, Stage
  <2> QED BY <2>2, <2>3, <2>4 DEF LengthInv, Lengths
<1>2. CutterInv /\ CutterInv' /\ LengthInv /\ [Next]_vars => LengthInv'
  <2> SUFFICES ASSUME CutterInv, CutterInv', LengthInv, [Next]_vars PROVE LengthInv'
    OBVIOUS
  <2>1. Types
    BY DEF CutterInv
  <2>2. CASE UserActs
    BY <2>2, UserMeasures
  <2>3. CASE HostStep
    BY <2>1, <2>3, HostMeasures
  <2>4. CASE Arrive
    <3>1. UNCHANGED <<regs, todo>>
      BY <2>4 DEF Arrive, NextWord, host
    <3>2. Pending'
      BY <3>1, PendingStays DEF LengthInv
    <3>3. Lengths'
      BY <2>1, <2>4, LineMeasures
    <3> QED BY <3>2, <3>3 DEF LengthInv
  <2>5. CASE Edge
    <3>1. UNCHANGED <<regs, todo>>
      BY <2>5 DEF Edge, WaitIdle, WaitPkt, InPacket, StartHash, CompletePkt, SendLastWord,
                  CutPacket, CutStarved, CutPacketWait, host
    <3>2. Pending'
      BY <3>1, PendingStays DEF LengthInv
    <3>3. Lengths'
      BY <2>1, <2>5, WaitPktMeasures, InPacketMeasures, StartHashMeasures,
         CompletePktMeasures, SendLastWordMeasures, CutPacketMeasures,
         CutPacketWaitMeasures, IdleMeasures DEF Edge
    <3> QED BY <3>2, <3>3 DEF LengthInv
  <2>6. CASE UNCHANGED vars
    <3>1. /\ UNCHANGED <<regs, todo>>
          /\ UNCHANGED <<cut_bytes, hash_en, fifo, input, machine, history>>
      BY <2>6 DEF vars, host, regs
    <3>2. Pending'
      BY <3>1, PendingStays DEF LengthInv
    <3>3. Lengths'
      BY <3>1, LengthsStay DEF LengthInv
    <3> QED BY <3>2, <3>3 DEF LengthInv
  <2> QED BY <2>2, <2>3, <2>4, <2>5, <2>6 DEF Next
<1>3. Spec => []CutterInv
  BY CutterInvariant
<1> QED BY <1>1, <1>2, <1>3, PTL DEF Spec

(* A packet that passed while the host wrote nothing leaves cut to the     *)
(* length set, with the hash behind it, or whole, after packets that ran   *)
(* together too; left out are packets whose own cut begins at a stale      *)
(* count of words and those that are cut though the cut is disabled.  A    *)
(* word sent once more for want of the next counts once (packet_cutter.v). *)
THEOREM CutToLength ==
  ASSUME LengthFits
  PROVE  Spec => []CutAsConfigured
<1>1. CutterInv /\ LengthInv => CutAsConfigured
  <2> SUFFICES ASSUME CutterInv, LengthInv, NEW p \in Range(out),
                      Undisturbed(p), ~IgnoresEnable(p)
               PROVE  p.units = Expected(p)
    BY DEF CutAsConfigured
  <2>1. PICK i \in 1 .. Len(out) : p = out[i]
    BY DEF CutterInv, Types, Range
  <2>2. p.units = Due(p)
    BY <2>1 DEF LengthInv, Lengths, Released, Exact
  <2> QED BY <2>2, AsExpected
<1>2. Spec => [](CutterInv /\ LengthInv)
  BY LengthsHold
<1> QED BY <1>1, <1>2, PTL

(* With the cutter on and set to at least the least cut, an undisturbed    *)
(* packet of which no word was sent twice claims the length it leaves      *)
(* with, unless it is longer than the cut by no more than the hash         *)
(* (packet_cutter.v, pkt_len).                                             *)
THEOREM ClaimsItsLength ==
  ASSUME LengthFits
  PROVE  Spec => []ClaimTruthful
<1>1. CutterInv /\ LengthInv => ClaimTruthful
  <2> SUFFICES ASSUME CutterInv, LengthInv, NEW p \in Range(out),
                      Undisturbed(p), p.en = 1, p.bytes >= MinCut,
                      p.len \notin p.bytes + 1 .. p.bytes + Hash
               PROVE  p.claimed = p.units
    BY DEF ClaimTruthful
  <2>1. PICK i \in 1 .. Len(out) : p = out[i]
    BY DEF CutterInv, Types, Range
  <2>2. Met(p) /\ p.units = Due(p)
    BY <2>1 DEF LengthInv, Lengths, Released, Exact
  <2>3. /\ p.len \in Nat \ {0} /\ p.bytes \in Nat /\ p.hash_off \in {0, 1}
        /\ Ceil(p.len) \in Nat /\ Ceil(p.bytes) \in Nat
        /\ Hash \in Nat
    BY <2>2, MetTypes, CutterAssumption
  <2>4. p.claimed = IF Cuttable(p) THEN CutTo(p) ELSE p.len
    BY <2>2 DEF Met, Told
  <2>5. CASE Cuttable(p) /\ p.hash_off = 1
    BY <2>2, <2>4, <2>5, IsCutOff DEF CutTo
  <2>6. CASE Cuttable(p) /\ p.hash_off = 0
    <3>1. Due(p) = p.bytes + Hash
      BY <2>2, <2>6, GetsHash
    <3> QED BY <2>2, <2>4, <2>6, <3>1 DEF CutTo
  <2>7. CASE ~Cuttable(p)
    <3>1. p.len <= p.bytes
      BY <2>3, <2>7, CutterAssumption, SMTT(40) DEF Cuttable, CutTo
    <3>2. Ceil(p.len) <= Ceil(p.bytes)
      BY <2>3, <3>1, CeilGrows
    <3>3. Due(p) = p.len
      BY <2>2, <2>7, <3>2, StaysWhole
    <3> QED BY <2>2, <2>4, <2>7, <3>3
  <2> QED BY <2>3, <2>5, <2>6, <2>7
<1>2. Spec => [](CutterInv /\ LengthInv)
  BY LengthsHold
<1> QED BY <1>1, <1>2, PTL
=============================================================================
