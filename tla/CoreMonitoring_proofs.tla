----------------------- MODULE CoreMonitoring_proofs -----------------------
(***************************************************************************)
(* The capture path for any number and any lengths of packets, any sizes   *)
(* of the FIFOs and depths of the pipelines that DepthAssumption allows,   *)
(* any timing of input, nearly-full flag and output.                       *)
(***************************************************************************)
EXTENDS CoreMonitoring, SequenceTheorems, TLAPS

-----------------------------------------------------------------------------
(* Where the traffic is: PlaceIn(i) is the place of the i-th word of       *)
(* pkt_fifo and, after its last, that of the next word to come.            *)
PlaceIn(i) == IF i <= Len(pkt_fifo) THEN Place(pkt_fifo[i].pkt, pkt_fifo[i].word) ELSE stream
NextRead == PlaceIn(1)

(* The packet whose decision the output machine needs next, and the one    *)
(* whose header will be complete next.                                     *)
ToDecide == IF Waiting THEN NextRead.pkt ELSE NextRead.pkt + 1
ToParse == IF stream.word > 2 THEN stream.pkt + 1 ELSE stream.pkt

IsPlace(place) ==
  /\ place \in [pkt : 1 .. Packets + 1, word : Nat \ {0}]
  /\ IF place.pkt \in Ids THEN place.word <= length[place.pkt] ELSE place.word = 1

(* A place `distance' words before another: a packet that lies between has *)
(* two words or more.                                                      *)
Precedes(place, later, distance) ==
  IF place.pkt = later.pkt THEN later.word = place.word + distance
  ELSE /\ place.pkt < later.pkt
       /\ distance >= 2 * (later.pkt - place.pkt) + later.word - 2

(* pkt_fifo is a stretch of the traffic that ends where the stream begins. *)
InLine(i) ==
  /\ IsPlace(PlaceIn(i)) /\ PlaceIn(i).pkt \in Ids
  /\ pkt_fifo[i] = WordAt(PlaceIn(i))
  /\ PlaceIn(i + 1) = Following(PlaceIn(i))
  /\ Precedes(PlaceIn(i), stream, Len(pkt_fifo) + 1 - i)

BusWords == [pkt : Ids, word : Nat \ {0}, last : BOOLEAN]

Line ==
  /\ IsPlace(stream)
  /\ pkt_fifo \in Seq(BusWords)
  /\ Len(pkt_fifo) <= FifoDepth + 2
  /\ \A i \in 1 .. Len(pkt_fifo) : InLine(i)

(* The parser is where the stream is.                                      *)
Parser ==
  /\ parser = CASE stream.word = 1 -> "WAIT_PKT"
                [] stream.word = 2 -> "PKT_WORD1"
                [] OTHER -> "PKT_WAIT_EOP"
  /\ stream.word = 2 => parsed = stream.pkt

(* A pipeline holds the packets from first to last - 1, each once, the     *)
(* oldest in front; the second word of the packet in stage i went into     *)
(* pkt_fifo i edges ago and is among the last i words there.               *)
Pipeline(stages, first, last) ==
  /\ first <= last
  /\ \A p \in first .. last - 1 : \E i \in 1 .. Len(stages) : stages[i] = p
  /\ \A i \in 1 .. Len(stages) : stages[i] # None => stages[i] \in first .. last - 1
  /\ \A i, j \in 1 .. Len(stages) :
       i < j /\ stages[i] # None /\ stages[j] # None => stages[j] < stages[i]

Recent(stages) ==
  \A i \in 1 .. Len(stages), j \in 1 .. Len(pkt_fifo) :
    stages[i] # None /\ PlaceIn(j) = Place(stages[i], 2) => Len(pkt_fifo) - j < i

(* The decisions and the tuples that are ready are those of the packets    *)
(* from ToDecide on, the others that have been parsed are in a pipeline.   *)
HitsFrom(first, hits) ==
  /\ hits \in Seq([pkt : Ids, hit : BOOLEAN])
  /\ \A i \in 1 .. Len(hits) :
       hits[i].pkt = first + i - 1 /\ hits[i].hit = (hits[i].pkt \in matches)

TuplesFrom(first, labels) ==
  /\ labels \in Seq(Ids)
  /\ \A i \in 1 .. Len(labels) : labels[i] = first + i - 1

Results ==
  /\ HitsFrom(ToDecide, hit_fifo) /\ TuplesFrom(ToDecide, tuple_pkt_fifo)
  /\ lookups \in Seq(Nat) /\ Len(lookups) = LookupStages
  /\ tuples \in Seq(Nat) /\ Len(tuples) = TupleStages
  /\ Pipeline(lookups, ToDecide + Len(hit_fifo), ToParse) /\ Recent(lookups)
  /\ Pipeline(tuples, ToDecide + Len(tuple_pkt_fifo), ToParse) /\ Recent(tuples)

(* The output machine: a packet it has begun to forward is read beyond its *)
(* first word; one it is reading while it waits is being dropped.          *)
Machine ==
  /\ state \in {"WAIT_TILL_DONE_DECODE", "IN_PACKET", "SM_PACKET"}
  /\ ~Waiting => NextRead.word > 1
  /\ Waiting /\ NextRead.word > 1 =>
       Decided /\ ~Forwards
  /\ pkt_fifo = <<>> /\ NextRead.word > 1 => dout.pkt = NextRead.pkt /\ ~dout.last

Types ==
  /\ length \in [Ids -> Lengths] /\ matches \in SUBSET Ids
  /\ force_drop \in BOOLEAN /\ tuple_pkt_en \in BOOLEAN

Inv == Types /\ Line /\ Parser /\ Results /\ Machine

-----------------------------------------------------------------------------
(* What has left, as far as the machine has read.                          *)
LastOut == IF out = <<>> THEN Word(None, 0, TRUE) ELSE out[Len(out)]

Left ==
  /\ out \in Seq([pkt : Nat, word : Nat, last : BOOLEAN])
  /\ OnlySelected
  /\ Waiting => /\ LastOut.last /\ LastOut.pkt < NextRead.pkt
                /\ ~force_drop => \A p \in matches : p <= LastOut.pkt \/ NextRead.pkt <= p
  /\ ~Waiting => LastOut.pkt = NextRead.pkt
  /\ state = "IN_PACKET" =>
       /\ ~tuple_pkt_en /\ ~LastOut.last /\ LastOut.word + 1 = NextRead.word
  /\ state = "SM_PACKET" => tuple_pkt_en /\ LastOut.last

-----------------------------------------------------------------------------
(* The queues and the shift registers of one edge.                         *)
Less(b, s) == IF b /\ s # <<>> THEN 1 ELSE 0
More(c) == IF c THEN 1 ELSE 0
MoreOf(c, x) == IF c THEN <<x>> ELSE <<>>

(* One word may leave a queue at the front and one may join at the end.    *)
QueueAfter(s, m, b, c, x) ==
  /\ Len(m) = Len(s) - Less(b, s) + More(c)
  /\ \A i \in 1 .. Len(s) - Less(b, s) : m[i] = s[i + Less(b, s)]
  /\ c => m[Len(m)] = x

LEMMA QueueMoves ==
  ASSUME NEW S, NEW s \in Seq(S), NEW b \in BOOLEAN, NEW c \in BOOLEAN, NEW x, c => x \in S
  PROVE  /\ TailIf(b, s) \o MoreOf(c, x) \in Seq(S)
         /\ QueueAfter(s, TailIf(b, s) \o MoreOf(c, x), b, c, x)
<1> DEFINE t == TailIf(b, s)
           u == MoreOf(c, x)
<1>1. /\ t \in Seq(S) /\ Len(t) = Len(s) - Less(b, s)
      /\ \A i \in 1 .. Len(t) : t[i] = s[i + Less(b, s)]
  BY DEF TailIf, Less
<1>2. u \in Seq(S) /\ Len(u) = More(c) /\ (c => u[1] = x)
  BY DEF MoreOf, More
<1> HIDE DEF t, u
<1>3. /\ t \o u \in Seq(S) /\ Len(t \o u) = Len(t) + Len(u)
      /\ \A i \in 1 .. Len(t) : (t \o u)[i] = t[i]
      /\ c => (t \o u)[Len(t) + 1] = u[1]
  <2>1. /\ t \o u \in Seq(S) /\ Len(t \o u) = Len(t) + Len(u)
        /\ \A i \in 1 .. Len(t) + Len(u) :
             (t \o u)[i] = IF i <= Len(t) THEN t[i] ELSE u[i - Len(t)]
    BY <1>1, <1>2, ConcatProperties
  <2>2. Len(t) \in Nat /\ Len(u) \in Nat /\ (c => Len(u) = 1)
    BY <1>1, <1>2, LenProperties DEF More
  <2> QED BY <2>1, <2>2
<1>4. QueueAfter(s, t \o u, b, c, x)
  <2>1. Len(t \o u) = Len(s) - Less(b, s) + More(c)
    BY <1>1, <1>2, <1>3
  <2>2. \A i \in 1 .. Len(s) - Less(b, s) : (t \o u)[i] = s[i + Less(b, s)]
    BY <1>1, <1>3
  <2>3. c => (t \o u)[Len(t \o u)] = x
    BY <1>1, <1>2, <1>3 DEF More
  <2> QED BY <2>1, <2>2, <2>3 DEF QueueAfter
<1> QED BY <1>3, <1>4 DEF t, u

(* A shift register takes in one value and loses its last.                 *)
ShiftedIn(s, m, x) ==
  /\ Len(m) = Len(s)
  /\ m[1] = x
  /\ \A i \in 2 .. Len(s) : m[i] = s[i - 1]

LEMMA RegisterShifts ==
  ASSUME NEW s \in Seq(Nat), s # <<>>, NEW x \in Nat
  PROVE  <<x>> \o Front(s) \in Seq(Nat) /\ ShiftedIn(s, <<x>> \o Front(s), x)
<1> DEFINE f == Front(s)
           m == <<x>> \o f
<1>1. Len(s) \in Nat \ {0}
  OBVIOUS
<1>2. f \in Seq(Nat) /\ Len(f) = Len(s) - 1 /\ \A i \in 1 .. Len(s) - 1 : f[i] = s[i]
  <2>1. Front(s) = SubSeq(s, 1, Len(s) - 1)
    BY DEF Front
  <2>2. 1 \in Int /\ Len(s) - 1 \in Int /\ \A i \in 1 .. Len(s) - 1 : s[i] \in Nat
    BY <1>1
  <2>3. /\ SubSeq(s, 1, Len(s) - 1) \in Seq(Nat)
        /\ Len(SubSeq(s, 1, Len(s) - 1)) = IF 1 <= Len(s) - 1 THEN Len(s) - 1 - 1 + 1 ELSE 0
        /\ \A i \in 1 .. Len(s) - 1 - 1 + 1 : SubSeq(s, 1, Len(s) - 1)[i] = s[1 + i - 1]
    BY <2>2, SubSeqProperties
  <2>4. \A i \in 1 .. Len(s) - 1 : f[i] = s[i]
    BY <1>1, <2>1, <2>3
  <2>5. Len(f) = IF 1 <= Len(s) - 1 THEN Len(s) - 1 - 1 + 1 ELSE 0
    BY <2>1, <2>3
  <2>6. Len(f) = Len(s) - 1
    <3>1. \A k \in Nat \ {0} : (IF 1 <= k - 1 THEN k - 1 - 1 + 1 ELSE 0) = k - 1
      OBVIOUS
    <3> QED BY <1>1, <2>5, <3>1, Zenon
  <2> QED BY <2>1, <2>3, <2>4, <2>6
<1> HIDE DEF f
<1>3. m \in Seq(Nat) /\ Len(m) = Len(s) /\ m[1] = x
  BY <1>1, <1>2
<1>4. \A i \in 2 .. Len(s) : m[i] = f[i - 1]
  BY <1>1, <1>2
<1>5. \A i \in 2 .. Len(s) : m[i] = s[i - 1]
  BY <1>1, <1>2, <1>4
<1> QED BY <1>3, <1>5 DEF ShiftedIn, f

(* What comes out of a pipeline is the oldest packet in it, and the packet *)
(* that goes in is the one after the youngest.                             *)
LEMMA PipelineMoves ==
  ASSUME NEW s \in Seq(Nat), s # <<>>, NEW m, NEW first \in Nat \ {0}, NEW last \in Nat,
         Pipeline(s, first, last), NEW x \in {None, last}, last # 0, ShiftedIn(s, m, x)
  PROVE  /\ s[Len(s)] # None => s[Len(s)] = first
         /\ Pipeline(m, first + More(s[Len(s)] # None), last + More(x # None))
<1> DEFINE n == Len(s)
           out_ == s[n]
<1>1. n \in Nat \ {0} /\ \A i \in 1 .. n : s[i] \in Nat
  OBVIOUS
<1>2. None = 0
  BY DEF None
<1>3. /\ first <= last
      /\ \A p \in first .. last - 1 : \E i \in 1 .. n : s[i] = p
      /\ \A i \in 1 .. n : s[i] # 0 => s[i] \in first .. last - 1
      /\ \A i, j \in 1 .. n : i < j /\ s[i] # 0 /\ s[j] # 0 => s[j] < s[i]
  BY <1>2 DEF Pipeline
<1>4. Len(m) = n /\ m[1] = x /\ \A i \in 2 .. n : m[i] = s[i - 1]
  BY DEF ShiftedIn
<1> HIDE DEF n
<1>5. out_ # 0 => out_ = first
  <2> SUFFICES ASSUME out_ # 0 PROVE out_ = first
    OBVIOUS
  <2>1. out_ \in first .. last - 1
    BY <1>1, <1>3
  <2>2. first \in first .. last - 1
    BY <2>1
  <2>3. PICK i \in 1 .. n : s[i] = first
    BY <1>3, <2>2
  <2>4. i < n => s[n] < s[i]
    <3>1. i \in 1 .. n /\ n \in 1 .. n /\ s[i] # 0 /\ s[n] # 0
      BY <1>1, <2>3
    <3>2. QED BY <1>3, <3>1, Zenon
  <2> QED BY <1>1, <2>1, <2>3, <2>4
<1> DEFINE first_ == first + More(out_ # 0)
           last_ == last + More(x # 0)
<1>6. first_ \in Nat /\ last_ \in Nat /\ first_ <= last_ /\ first_ <= last
  <2>1. out_ # 0 => first <= last - 1
    BY <1>1, <1>3
  <2> QED BY <2>1, <1>3 DEF More
<1>7. \A p \in first_ .. last_ - 1 : \E i \in 1 .. n : m[i] = p
  <2> SUFFICES ASSUME NEW p \in first_ .. last_ - 1 PROVE \E i \in 1 .. n : m[i] = p
    OBVIOUS
  <2>1. CASE p = last
    <3>1. x = last
      BY <1>2, <2>1 DEF More
    <3> QED BY <1>1, <1>4, <2>1, <3>1
  <2>2. CASE p # last
    <3>1. p \in first .. last - 1
      BY <2>2, <1>2 DEF More
    <3>2. PICK i \in 1 .. n : s[i] = p
      BY <1>3, <3>1
    <3>3. i # n
      BY <3>1, <3>2, <1>5 DEF More
    <3>4. i + 1 \in 2 .. n /\ i + 1 \in 1 .. n /\ (i + 1) - 1 = i
      BY <1>1, <3>3
    <3>5. m[i + 1] = p
      BY <1>4, <3>2, <3>4
    <3> QED BY <3>4, <3>5
  <2> QED BY <2>1, <2>2
<1>8. \A i \in 1 .. n : m[i] # 0 => m[i] \in first_ .. last_ - 1
  <2> SUFFICES ASSUME NEW i \in 1 .. n, m[i] # 0 PROVE m[i] \in first_ .. last_ - 1
    OBVIOUS
  <2>1. CASE i = 1
    <3>1. m[i] = last /\ last_ = last + 1
      BY <1>2, <1>4, <2>1 DEF More
    <3> QED BY <3>1, <1>6
  <2>2. CASE i # 1
    <3>1. i \in 2 .. n /\ i - 1 \in 1 .. n /\ i - 1 < n
      BY <1>1, <2>2
    <3>2. m[i] = s[i - 1]
      BY <1>4, <3>1
    <3>3. s[i - 1] \in first .. last - 1
      BY <1>3, <3>1, <3>2
    <3>4. out_ # 0 => out_ < s[i - 1]
      BY <1>1, <1>3, <3>1, <3>2
    <3>5. last_ >= last /\ last_ \in Nat
      BY <1>2, <1>6 DEF More
    <3>6. CASE out_ = 0
      BY <1>6, <3>2, <3>3, <3>5, <3>6 DEF More
    <3>7. CASE out_ # 0
      <4>1. first < s[i - 1] /\ first_ = first + 1
        BY <1>5, <3>4, <3>7 DEF More
      <4> HIDE DEF first_, last_, out_
      <4> QED BY <3>2, <3>3, <3>5, <4>1
    <3> QED BY <3>6, <3>7
  <2> QED BY <2>1, <2>2
<1>9. \A i, j \in 1 .. n : i < j /\ m[i] # 0 /\ m[j] # 0 => m[j] < m[i]
  <2> SUFFICES ASSUME NEW i \in 1 .. n, NEW j \in 1 .. n, i < j, m[i] # 0, m[j] # 0
               PROVE  m[j] < m[i]
    OBVIOUS
  <2>1. j \in 2 .. n /\ j - 1 \in 1 .. n /\ m[j] = s[j - 1]
    BY <1>1, <1>4
  <2>2. CASE i = 1
    BY <1>2, <1>3, <1>4, <2>1, <2>2
  <2>3. CASE i # 1
    <3>0. i \in 2 .. n /\ i - 1 \in 1 .. n /\ i - 1 < j - 1
      BY <1>1, <2>1, <2>3
    <3>1. m[i] = s[i - 1]
      BY <1>4, <3>0
    <3> QED BY <1>3, <2>1, <3>0, <3>1
  <2> QED BY <2>2, <2>3
<1> QED BY <1>2, <1>4, <1>5, <1>6, <1>7, <1>8, <1>9 DEF Pipeline, n

-----------------------------------------------------------------------------
(* The traffic on its way through pkt_fifo.                                *)
LEMMA PlaceFollows ==
  ASSUME Types, NEW place, IsPlace(place), place.pkt \in Ids
  PROVE  /\ length[place.pkt] \in Nat /\ length[place.pkt] >= 2
         /\ IsPlace(Following(place))
         /\ \A old \in [pkt : Nat, word : Nat], d \in Nat :
              Precedes(old, place, d) => Precedes(old, Following(place), d + 1)
         /\ Precedes(place, Following(place), 1)
<1> DEFINE n == length[place.pkt]
<1>1. n \in Nat /\ n >= 2
  BY LengthAssumption DEF Types
<1>2. place.pkt \in Nat /\ place.word \in Nat \ {0} /\ place.word <= n /\ Packets \in Nat
  BY LengthAssumption DEF IsPlace, Ids
<1> HIDE DEF n
<1>3. CASE place.word < n
  <2>1. Following(place) = Place(place.pkt, place.word + 1)
    BY <1>3 DEF Following, n
  <2>2. /\ Following(place) \in [pkt : 1 .. Packets + 1, word : Nat \ {0}]
        /\ Following(place).pkt = place.pkt /\ Following(place).word = place.word + 1
    BY <1>2, <2>1 DEF Place, Ids
  <2>3. IsPlace(Following(place))
    BY <1>1, <1>2, <1>3, <2>2 DEF IsPlace, n
  <2>4. \A old \in [pkt : Nat, word : Nat], d \in Nat :
          Precedes(old, place, d) => Precedes(old, Following(place), d + 1)
    BY <1>2, <2>2 DEF Precedes
  <2>5. Precedes(place, Following(place), 1)
    BY <1>2, <2>2 DEF Precedes
  <2> QED BY <1>1, <2>3, <2>4, <2>5 DEF n
<1>4. CASE ~(place.word < n)
  <2>1. Following(place) = Place(place.pkt + 1, 1)
    BY <1>4 DEF Following, n
  <2>2. /\ Following(place) \in [pkt : 1 .. Packets + 1, word : Nat \ {0}]
        /\ Following(place).pkt = place.pkt + 1 /\ Following(place).word = 1
    BY <1>2, <2>1 DEF Place, Ids
  <2>3. IsPlace(Following(place))
    <3>1. Following(place).pkt \in Ids => Following(place).word <= length[Following(place).pkt]
      BY <2>2, LengthAssumption DEF Types
    <3> QED BY <2>2, <3>1 DEF IsPlace
  <2>4. place.word = n
    BY <1>1, <1>2, <1>4
  <2>5. \A old \in [pkt : Nat, word : Nat], d \in Nat :
          Precedes(old, place, d) => Precedes(old, Following(place), d + 1)
    BY <1>1, <1>2, <2>2, <2>4 DEF Precedes
  <2>6. Precedes(place, Following(place), 1)
    BY <1>2, <2>2 DEF Precedes
  <2> QED BY <1>1, <2>3, <2>5, <2>6 DEF n
<1> QED BY <1>3, <1>4

LEMMA WordsAtPlaces ==
  ASSUME NEW place, IsPlace(place), place.pkt \in Ids
  PROVE  /\ WordAt(place) \in BusWords
         /\ WordAt(place).pkt = place.pkt /\ WordAt(place).word = place.word
         /\ WordAt(place).last = (place.word = length[place.pkt])
         /\ Place(WordAt(place).pkt, WordAt(place).word) = place
         /\ WordAt(place) # NoWord
<1>1. place \in [pkt : 1 .. Packets + 1, word : Nat \ {0}]
  BY DEF IsPlace
<1> QED BY <1>1 DEF WordAt, Word, Place, BusWords, NoWord, None, Ids

(* A word that leaves or joins pkt_fifo moves the places by one.           *)
LEMMA LineMoves ==
  ASSUME Types, Line, NEW b \in BOOLEAN, NEW c \in BOOLEAN,
         c => ~Ended /\ Len(pkt_fifo) <= FifoDepth + 1,
         pkt_fifo' = TailIf(b, pkt_fifo) \o MoreOf(c, WordAt(stream)),
         stream' = IF c THEN Following(stream) ELSE stream, length' = length
  PROVE  /\ Line'
         /\ Len(pkt_fifo)' = Len(pkt_fifo) - Less(b, pkt_fifo) + More(c)
         /\ \A i \in 1 .. Len(pkt_fifo) + 1 - Less(b, pkt_fifo) :
              PlaceIn(i)' = PlaceIn(i + Less(b, pkt_fifo))
<1> DEFINE n == Len(pkt_fifo)
           r == Less(b, pkt_fifo)
<1>1. /\ IsPlace(stream) /\ pkt_fifo \in Seq(BusWords) /\ n <= FifoDepth + 2
      /\ \A i \in 1 .. n : InLine(i)
  BY DEF Line
<1>2. n \in Nat /\ r \in {0, 1} /\ r <= n
  BY <1>1 DEF Less
<1>3. c => stream.pkt \in Ids
  <2>1. stream.pkt \in 1 .. Packets + 1 /\ Packets \in Nat
    BY <1>1, LengthAssumption DEF IsPlace
  <2> QED BY <2>1 DEF Ended, Ids
<1>4. c => WordAt(stream) \in BusWords
  BY <1>1, <1>3, WordsAtPlaces
<1>a. /\ pkt_fifo' \in Seq(BusWords) /\ Len(pkt_fifo') = n - r + More(c)
      /\ \A i \in 1 .. n - r : pkt_fifo'[i] = pkt_fifo[i + r]
      /\ c => pkt_fifo'[Len(pkt_fifo')] = WordAt(stream)
  <2>1. /\ pkt_fifo' \in Seq(BusWords)
        /\ QueueAfter(pkt_fifo, pkt_fifo', b, c, WordAt(stream))
    BY <1>1, <1>4, QueueMoves
  <2> QED BY <2>1 DEF QueueAfter
<1>b. PICK m \in Nat : m = Len(pkt_fifo')
  BY <1>2, <1>a DEF More
<1> HIDE DEF n, r
<1>5. /\ pkt_fifo' \in Seq(BusWords) /\ m = n - r + More(c) /\ m = Len(pkt_fifo')
      /\ \A i \in 1 .. n - r : pkt_fifo'[i] = pkt_fifo[i + r]
      /\ c => pkt_fifo'[m] = WordAt(stream)
  BY <1>a, <1>b
<1>6. PlaceIn(n + 1) = stream /\ PlaceIn(m + 1)' = stream'
  BY <1>2, <1>5 DEF PlaceIn, n
<1>7. \A i \in 1 .. n + 1 - r : PlaceIn(i)' = PlaceIn(i + r)
  <2> SUFFICES ASSUME NEW i \in 1 .. n + 1 - r PROVE PlaceIn(i)' = PlaceIn(i + r)
    OBVIOUS
  <2>1. CASE i <= n - r
    <3>1. i \in 1 .. n - r /\ i <= m /\ i + r <= n
      BY <1>2, <1>5, <2>1 DEF More
    <3>2. PlaceIn(i)' = Place(pkt_fifo'[i].pkt, pkt_fifo'[i].word)
      <4>1. i <= Len(pkt_fifo')
        BY <1>b, <3>1
      <4> QED BY <4>1, Zenon DEF PlaceIn
    <3>3. PlaceIn(i + r) = Place(pkt_fifo[i + r].pkt, pkt_fifo[i + r].word)
      BY <3>1 DEF PlaceIn, n
    <3> QED BY <1>5, <3>1, <3>2, <3>3
  <2>2. CASE i = n + 1 - r
    <3>1. i + r = n + 1
      BY <1>2, <2>2
    <3>2. CASE c
      <4>1. i = m
        BY <1>2, <1>5, <2>2, <3>2 DEF More
      <4>2. pkt_fifo'[i] = WordAt(stream)
        BY <1>5, <3>2, <4>1
      <4>3. PlaceIn(i)' = Place(WordAt(stream).pkt, WordAt(stream).word)
        <5>1. PlaceIn(i)' = Place(pkt_fifo'[i].pkt, pkt_fifo'[i].word)
          BY <1>b, <4>1 DEF PlaceIn
        <5> QED BY <4>2, <5>1
      <4> QED BY <1>1, <1>3, <1>6, <3>1, <3>2, <4>3, WordsAtPlaces
    <3>3. CASE ~c
      <4>1. i = m + 1
        BY <1>2, <1>5, <2>2, <3>3 DEF More
      <4> QED BY <1>6, <3>1, <3>3, <4>1
    <3> QED BY <3>2, <3>3
  <2> QED BY <1>2, <2>1, <2>2
<1>8. IsPlace(stream)'
  <2>1. IsPlace(stream')
    BY <1>1, <1>3, PlaceFollows
  <2> QED BY <2>1 DEF IsPlace, Ids
<1>9. m <= FifoDepth + 2
  BY <1>1, <1>2, <1>5, DepthAssumption DEF More, n
<1>10. \A i \in 1 .. m : InLine(i)'
  <2> SUFFICES ASSUME NEW i \in 1 .. m PROVE InLine(i)'
    OBVIOUS
  <2>1. m + 1 - i \in Nat /\ n \in Nat /\ i \in Nat
    BY <1>2, <1>5 DEF More
  <2>2. CASE i <= n - r
    <3>1. i + r \in 1 .. n /\ i \in 1 .. n - r /\ i + 1 \in 1 .. n + 1 - r /\ i \in 1 .. n + 1 - r
      BY <1>2, <2>1, <2>2
    <3>2. InLine(i + r)
      BY <1>1, <3>1 DEF n
    <3>3. PlaceIn(i)' = PlaceIn(i + r) /\ PlaceIn(i + 1)' = PlaceIn(i + r + 1)
      <4>1. i + 1 + r = i + r + 1
        BY <1>2, <2>1
      <4> QED BY <1>7, <3>1, <4>1
    <3>4. pkt_fifo'[i] = pkt_fifo[i + r]
      BY <1>5, <3>1
    <3> DEFINE p == PlaceIn(i + r)
    <3>5. /\ IsPlace(p) /\ p.pkt \in Ids /\ pkt_fifo[i + r] = WordAt(p)
          /\ PlaceIn(i + r + 1) = Following(p) /\ Precedes(p, stream, n + 1 - (i + r))
      BY <3>2 DEF InLine, n
    <3> HIDE DEF p
    <3>6. Precedes(p, stream', m + 1 - i)
      <4>1. p \in [pkt : Nat, word : Nat] /\ n + 1 - (i + r) \in Nat
        BY <1>2, <2>1, <3>1, <3>5, LengthAssumption DEF IsPlace
      <4>2. CASE c
        <5>1. m + 1 - i = n + 1 - (i + r) + 1
          BY <1>2, <1>5, <2>1, <4>2 DEF More
        <5>2. Precedes(p, Following(stream), n + 1 - (i + r) + 1)
          BY <1>1, <1>3, <3>5, <4>1, <4>2, PlaceFollows
        <5> QED BY <4>2, <5>1, <5>2
      <4>3. CASE ~c
        <5>1. m + 1 - i = n + 1 - (i + r)
          BY <1>2, <1>5, <2>1, <4>3 DEF More
        <5> QED BY <3>5, <4>3, <5>1
      <4> QED BY <4>2, <4>3
    <3>7. /\ IsPlace(PlaceIn(i)') /\ PlaceIn(i)'.pkt \in Ids /\ pkt_fifo'[i] = WordAt(PlaceIn(i)')
          /\ PlaceIn(i + 1)' = Following(PlaceIn(i)')
          /\ Precedes(PlaceIn(i)', stream', m + 1 - i)
      BY <3>3, <3>4, <3>5, <3>6 DEF p
    <3> QED BY <1>b, <3>7 DEF InLine, IsPlace, WordAt, Following, Precedes, Ids
  <2>3. CASE ~(i <= n - r)
    <3>1. c /\ i = m /\ i = n + 1 - r /\ m + 1 - i = 1
      BY <1>2, <1>5, <2>1, <2>3 DEF More
    <3>2. PlaceIn(i)' = stream
      <4>1. i \in 1 .. n + 1 - r /\ i + r = n + 1
        BY <1>2, <2>1, <3>1
      <4> QED BY <1>6, <1>7, <4>1
    <3>3. PlaceIn(i + 1)' = Following(stream)
      BY <1>6, <3>1
    <3>4. Precedes(stream, Following(stream), 1)
      BY <1>1, <1>3, <3>1, PlaceFollows
    <3>5. /\ IsPlace(PlaceIn(i)') /\ PlaceIn(i)'.pkt \in Ids /\ pkt_fifo'[i] = WordAt(PlaceIn(i)')
          /\ PlaceIn(i + 1)' = Following(PlaceIn(i)')
          /\ Precedes(PlaceIn(i)', stream', m + 1 - i)
      BY <1>1, <1>3, <1>5, <3>1, <3>2, <3>3, <3>4
    <3> QED BY <1>b, <3>5 DEF InLine, IsPlace, WordAt, Following, Precedes, Ids
  <2> QED BY <2>2, <2>3
<1>11. Line'
  BY <1>5, <1>8, <1>9, <1>10 DEF Line, BusWords, Ids
<1> QED BY <1>5, <1>7, <1>11 DEF n, r

-----------------------------------------------------------------------------
(* What the output machine sees.                                           *)
LEMMA Reading ==
  ASSUME Types, Line
  PROVE  /\ IsPlace(NextRead) /\ IsPlace(stream) /\ Len(pkt_fifo) \in Nat
         /\ NextRead.pkt \in Nat \ {0} /\ NextRead.word \in Nat \ {0}
         /\ stream.pkt \in Nat \ {0} /\ stream.word \in Nat \ {0}
         /\ pkt_fifo = <<>> => NextRead = stream /\ Shown = dout
         /\ pkt_fifo # <<>> => /\ Len(pkt_fifo) >= 1 /\ NextRead.pkt \in Ids
                               /\ Shown = WordAt(NextRead)
                               /\ PlaceIn(2) = Following(NextRead)
                               /\ Precedes(NextRead, stream, Len(pkt_fifo))
         /\ ToDecide \in Nat \ {0} /\ ToParse \in Nat \ {0}
         /\ ToParse - 1 <= Packets /\ Packets \in Nat
<1>1. /\ IsPlace(stream) /\ pkt_fifo \in Seq(BusWords)
      /\ \A i \in 1 .. Len(pkt_fifo) : InLine(i)
  BY DEF Line
<1>2. Len(pkt_fifo) \in Nat /\ (pkt_fifo = <<>> <=> Len(pkt_fifo) = 0)
  BY <1>1
<1>3. pkt_fifo = <<>> => NextRead = stream /\ Shown = dout
  BY <1>2 DEF NextRead, PlaceIn, Shown
<1>4. ASSUME pkt_fifo # <<>>
      PROVE  /\ Len(pkt_fifo) >= 1 /\ NextRead.pkt \in Ids /\ IsPlace(NextRead)
             /\ Shown = WordAt(NextRead)
             /\ PlaceIn(2) = Following(NextRead)
             /\ Precedes(NextRead, stream, Len(pkt_fifo))
  <2>1. Len(pkt_fifo) >= 1 /\ InLine(1) /\ Len(pkt_fifo) + 1 - 1 = Len(pkt_fifo)
    BY <1>1, <1>2, <1>4
  <2>2. Shown = pkt_fifo[1]
    BY <1>1, <1>4 DEF Shown
  <2>3. 1 + 1 = 2
    OBVIOUS
  <2> QED BY <2>1, <2>2, <2>3 DEF InLine, NextRead
<1>5. IsPlace(NextRead)
  BY <1>1, <1>3, <1>4
<1>6. \A p : IsPlace(p) => p.pkt \in Nat \ {0} /\ p.word \in Nat \ {0}
  BY LengthAssumption DEF IsPlace
<1>7. ToDecide \in Nat \ {0} /\ ToParse \in Nat \ {0}
  BY <1>1, <1>5, <1>6 DEF ToDecide, ToParse
<1>8. ToParse - 1 <= Packets /\ Packets \in Nat
  BY <1>1, LengthAssumption DEF ToParse, IsPlace, Ids
<1> QED BY <1>1, <1>2, <1>3, <1>4, <1>5, <1>6, <1>7, <1>8

(* A packet all of whose decisions are still in a pipeline has at most as  *)
(* many words in pkt_fifo as the pipeline has stages, and one more.        *)
LEMMA PipelineShort ==
  ASSUME Inv, Waiting, NextRead.word = 1, NEW stages \in Seq(Nat), Recent(stages),
         Pipeline(stages, ToDecide, ToParse), Len(pkt_fifo) >= 3
  PROVE  Len(pkt_fifo) <= Len(stages) + 1
<1>1. Types /\ Line
  BY DEF Inv
<1> DEFINE p == NextRead.pkt
<1>2. /\ pkt_fifo # <<>> /\ p \in Ids /\ Precedes(NextRead, stream, Len(pkt_fifo))
      /\ stream.pkt \in Nat \ {0} /\ stream.word \in Nat \ {0} /\ p \in Nat \ {0}
      /\ PlaceIn(2) = Following(NextRead) /\ IsPlace(NextRead) /\ ToParse \in Nat
      /\ Len(pkt_fifo) \in Nat
  BY <1>1, Reading
<1>3. ToDecide = p
  BY DEF ToDecide
<1>4. p < ToParse
  BY <1>2 DEF Precedes, ToParse
<1>5. PICK i \in 1 .. Len(stages) : stages[i] = p
  <2>1. p \in ToDecide .. ToParse - 1
    BY <1>2, <1>3, <1>4
  <2>2. \A q \in ToDecide .. ToParse - 1 : \E i \in 1 .. Len(stages) : stages[i] = q
    BY DEF Pipeline
  <2> QED BY <2>1, <2>2, Zenon
<1>6. PlaceIn(2) = Place(p, 2)
  <2>1. length[p] >= 2 /\ length[p] \in Nat
    BY <1>1, <1>2, PlaceFollows
  <2> QED BY <1>2, <2>1 DEF Following
<1>7. 2 \in 1 .. Len(pkt_fifo) /\ stages[i] # None
  BY <1>2, <1>5 DEF None
<1>8. Len(pkt_fifo) - 2 < i
  BY <1>5, <1>6, <1>7 DEF Recent
<1> QED BY <1>2, <1>5, <1>8

LEMMA DecisionInTime ==
  ASSUME Inv, NEW nf \in NearlyFull
  PROVE  ~Discards(nf)
<1> SUFFICES ASSUME Waiting, ~Decided, nf PROVE FALSE
  BY DEF Discards
<1>1. Types /\ Line /\ Results /\ Machine
  BY DEF Inv
<1>2. NextRead.word \in Nat \ {0} /\ Len(pkt_fifo) \in Nat
  BY <1>1, Reading
<1>3. NextRead.word = 1
  BY <1>1, <1>2 DEF Machine
<1>4. /\ Len(pkt_fifo) >= FifoDepth - 1 /\ FifoDepth \in Nat /\ FifoDepth > LookupStages + 2
      /\ TupleStages <= LookupStages /\ LookupStages \in Nat \ {0} /\ TupleStages \in Nat \ {0}
  BY DepthAssumption, StagesAssumption DEF NearlyFull
<1>5. hit_fifo = <<>> \/ tuple_pkt_fifo = <<>>
  BY DEF Decided
<1>6. /\ lookups \in Seq(Nat) /\ Len(lookups) = LookupStages /\ Recent(lookups)
      /\ tuples \in Seq(Nat) /\ Len(tuples) = TupleStages /\ Recent(tuples)
      /\ Pipeline(lookups, ToDecide + Len(hit_fifo), ToParse)
      /\ Pipeline(tuples, ToDecide + Len(tuple_pkt_fifo), ToParse)
  BY <1>1 DEF Results
<1>7. ToDecide \in Nat /\ Len(<<>>) = 0
  BY <1>1, Reading
<1>8. CASE hit_fifo = <<>>
  <2>1. ToDecide + Len(hit_fifo) = ToDecide
    BY <1>7, <1>8
  <2>2. Pipeline(lookups, ToDecide, ToParse)
    BY <1>6, <2>1
  <2> QED BY <1>2, <1>3, <1>4, <1>6, <2>2, PipelineShort
<1>9. CASE tuple_pkt_fifo = <<>>
  <2>1. ToDecide + Len(tuple_pkt_fifo) = ToDecide
    BY <1>7, <1>9
  <2>2. Pipeline(tuples, ToDecide, ToParse)
    BY <1>6, <2>1
  <2> QED BY <1>2, <1>3, <1>4, <1>6, <2>2, PipelineShort
<1> QED BY <1>5, <1>8, <1>9

(* A decision is there only when the second word of its packet has come,   *)
(* and the packets in between fill pkt_fifo two words each.                *)
LEMMA DecisionsBounded ==
  ASSUME Inv
  PROVE  /\ Len(hit_fifo) \in Nat /\ Len(tuple_pkt_fifo) \in Nat
         /\ Waiting /\ NextRead.word = 1 /\ hit_fifo # <<>> => pkt_fifo # <<>>
         /\ Waiting /\ NextRead.word = 1 /\ tuple_pkt_fifo # <<>> => pkt_fifo # <<>>
         /\ RoomForDecisions
<1>1. Types /\ Line /\ Results /\ Machine
  BY DEF Inv
<1>2. /\ NextRead.pkt \in Nat \ {0} /\ NextRead.word \in Nat \ {0} /\ Len(pkt_fifo) \in Nat
      /\ stream.pkt \in Nat \ {0} /\ stream.word \in Nat \ {0}
      /\ ToDecide \in Nat \ {0} /\ ToParse \in Nat
      /\ pkt_fifo = <<>> => NextRead = stream
      /\ pkt_fifo # <<>> => Precedes(NextRead, stream, Len(pkt_fifo)) /\ Len(pkt_fifo) >= 1
  BY <1>1, Reading
<1>3. /\ hit_fifo \in Seq([pkt : Ids, hit : BOOLEAN]) /\ tuple_pkt_fifo \in Seq(Ids)
      /\ ToDecide + Len(hit_fifo) <= ToParse
      /\ ToDecide + Len(tuple_pkt_fifo) <= ToParse
  BY <1>1 DEF Results, Pipeline, HitsFrom, TuplesFrom
<1>4. /\ Len(hit_fifo) \in Nat /\ (hit_fifo # <<>> => Len(hit_fifo) >= 1)
      /\ Len(tuple_pkt_fifo) \in Nat /\ (tuple_pkt_fifo # <<>> => Len(tuple_pkt_fifo) >= 1)
  BY <1>3
<1>5. ASSUME Waiting, NextRead.word = 1, pkt_fifo = <<>> PROVE ToParse = ToDecide
  BY <1>2, <1>5 DEF ToParse, ToDecide
<1>6. ToDecide >= NextRead.pkt
  BY <1>2 DEF ToDecide
<1>7. FifoDepth \in Nat /\ FifoDepth >= 4 /\ Len(pkt_fifo) <= FifoDepth + 2
  BY <1>1, DepthAssumption, StagesAssumption DEF Line
<1>8. 2 * (ToParse - ToDecide) <= Len(pkt_fifo) + 1 \/ ToParse - ToDecide <= 1
  <2>1. CASE pkt_fifo = <<>>
    BY <1>2, <1>6, <2>1 DEF ToParse
  <2>2. CASE pkt_fifo # <<>>
    <3>1. CASE NextRead.pkt = stream.pkt
      BY <1>2, <1>6, <3>1 DEF ToParse
    <3>2. CASE NextRead.pkt # stream.pkt
      <4>1. Len(pkt_fifo) >= 2 * (stream.pkt - NextRead.pkt) + stream.word - 2
        BY <1>2, <2>2, <3>2 DEF Precedes
      <4>2. 2 * (ToParse - NextRead.pkt) <= Len(pkt_fifo) + 1
        <5>1. \A a, b, w, n \in Nat : n >= 2 * (b - a) + w - 2 /\ w > 0 =>
                /\ 2 * (b - a) <= n + 1
                /\ w > 2 => 2 * (b + 1 - a) <= n + 1
          OBVIOUS
        <5>2. /\ 2 * (stream.pkt - NextRead.pkt) <= Len(pkt_fifo) + 1
              /\ stream.word > 2 => 2 * (stream.pkt + 1 - NextRead.pkt) <= Len(pkt_fifo) + 1
          BY <1>2, <4>1, <5>1, SMTT(40)
        <5>3. CASE stream.word > 2
          <6>1. ToParse = stream.pkt + 1
            BY <5>3 DEF ToParse
          <6> QED BY <1>2, <5>2, <5>3, <6>1, SMTT(40)
        <5>4. CASE ~(stream.word > 2)
          <6>1. ToParse = stream.pkt
            BY <5>4 DEF ToParse
          <6> QED BY <1>2, <5>2, <6>1
        <5> QED BY <5>3, <5>4
      <4> QED BY <1>2, <1>6, <4>2
    <3> QED BY <3>1, <3>2
  <2> QED BY <2>1, <2>2
<1>9. RoomForDecisions
  <2>1. ToParse - ToDecide < FifoDepth
    BY <1>2, <1>7, <1>8
  <2> QED BY <1>2, <1>3, <1>4, <1>7, <2>1 DEF RoomForDecisions
<1> QED BY <1>2, <1>3, <1>4, <1>5, <1>9

-----------------------------------------------------------------------------
(* One edge, part by part.                                                 *)
InputWord(taken) == IF taken THEN WordAt(stream) ELSE NoWord
Completed(taken) == IF Completes(InputWord(taken)) THEN parsed ELSE None
Decision(p) == [pkt |-> p, hit |-> p \in matches]

LEMMA ClockParts ==
  ASSUME NEW valid \in BOOLEAN, NEW nf \in BOOLEAN, NEW ready \in BOOLEAN,
         Clock(valid, nf, ready), NEW taken \in BOOLEAN, taken = (valid /\ ~nf)
  PROVE  /\ taken => ~Ended /\ ~nf
         /\ nf \in NearlyFull
         /\ stream' = IF taken THEN Following(stream) ELSE stream
         /\ Parse(InputWord(taken))
         /\ lookups' = <<Completed(taken)>> \o Front(lookups)
         /\ tuples' = <<Completed(taken)>> \o Front(tuples)
         /\ pkt_fifo' = TailIf(in_fifo_rd_en(nf, ready), pkt_fifo) \o MoreOf(taken, WordAt(stream))
         /\ hit_fifo' = TailIf(TakesDecision(nf, ready), hit_fifo)
                          \o MoreOf(Last(lookups) # None, Decision(Last(lookups)))
         /\ tuple_pkt_fifo' = TailIf(TakesDecision(nf, ready), tuple_pkt_fifo)
                                \o MoreOf(Last(tuples) # None, Last(tuples))
         /\ dout' = IF pkt_fifo' = <<>> THEN Shown ELSE NoWord
         /\ state' = state_next(nf, ready)
         /\ out' = IF m_axis_tvalid /\ ready THEN Append(out, OutputWord) ELSE out
         /\ UNCHANGED <<force_drop, tuple_pkt_en, length, matches>>
<1>1. /\ taken => ~Ended /\ ~nf
      /\ nf \in NearlyFull
      /\ stream' = IF taken THEN Following(stream) ELSE stream
      /\ Parse(InputWord(taken))
      /\ lookups' = Shift(lookups, InputWord(taken))
      /\ tuples' = Shift(tuples, InputWord(taken))
      /\ pkt_fifo' = TailIf(in_fifo_rd_en(nf, ready), pkt_fifo)
                       \o (IF taken THEN <<InputWord(taken)>> ELSE <<>>)
      /\ hit_fifo' = TailIf(TakesDecision(nf, ready), hit_fifo)
           \o (IF Last(lookups) = None THEN <<>> ELSE <<Decision(Last(lookups))>>)
      /\ tuple_pkt_fifo' = TailIf(TakesDecision(nf, ready), tuple_pkt_fifo)
           \o (IF Last(tuples) = None THEN <<>> ELSE <<Last(tuples)>>)
      /\ dout' = IF pkt_fifo' = <<>> THEN Shown ELSE NoWord
      /\ state' = state_next(nf, ready)
      /\ out' = IF m_axis_tvalid /\ ready THEN Append(out, OutputWord) ELSE out
      /\ UNCHANGED <<force_drop, tuple_pkt_en, length, matches>>
  BY Zenon DEF Clock, InputWord, Decision, control, traffic
<1>2. \A x, y : MoreOf(x # None, y) = IF x = None THEN <<>> ELSE <<y>>
  BY Zenon DEF MoreOf
<1>3. (IF taken THEN <<InputWord(taken)>> ELSE <<>>) = MoreOf(taken, WordAt(stream))
  BY Zenon DEF MoreOf, InputWord
<1>4. /\ Shift(lookups, InputWord(taken)) = <<Completed(taken)>> \o Front(lookups)
      /\ Shift(tuples, InputWord(taken)) = <<Completed(taken)>> \o Front(tuples)
  BY Zenon DEF Shift, Completed
<1>5. /\ lookups' = <<Completed(taken)>> \o Front(lookups)
      /\ tuples' = <<Completed(taken)>> \o Front(tuples)
  BY <1>1, <1>4, Zenon
<1>6. pkt_fifo' = TailIf(in_fifo_rd_en(nf, ready), pkt_fifo) \o MoreOf(taken, WordAt(stream))
  BY <1>1, <1>3, Zenon
<1>7. hit_fifo' = TailIf(TakesDecision(nf, ready), hit_fifo)
                    \o MoreOf(Last(lookups) # None, Decision(Last(lookups)))
  BY <1>1, <1>2, Zenon
<1>8. tuple_pkt_fifo' = TailIf(TakesDecision(nf, ready), tuple_pkt_fifo)
                          \o MoreOf(Last(tuples) # None, Last(tuples))
  BY <1>1, <1>2, Zenon
<1> QED BY <1>1, <1>5, <1>6, <1>7, <1>8, Zenon

(* The header parser goes along with the stream and completes the header   *)
(* of a packet with its second word.                                       *)
LEMMA ParserMoves ==
  ASSUME Types, IsPlace(stream), Parser, NEW taken \in BOOLEAN, taken => ~Ended,
         stream' = IF taken THEN Following(stream) ELSE stream, length' = length,
         Parse(InputWord(taken))
  PROVE  /\ Parser'
         /\ Completed(taken) \in {None, ToParse}
         /\ Completed(taken) # None =>
              taken /\ stream.word = 2 /\ Completed(taken) = stream.pkt
         /\ ToParse' = ToParse + More(Completed(taken) # None)
<1>1. /\ stream.pkt \in Nat \ {0} /\ stream.word \in Nat \ {0} /\ None = 0
      /\ taken => stream.pkt \in Ids
  BY LengthAssumption DEF IsPlace, Ended, Ids, None
<1>2. CASE ~taken
  <2>1. stream' = stream /\ ~Completes(InputWord(taken)) /\ parser' = parser /\ parsed' = parsed
    <3>1. InputWord(taken) = NoWord
      BY <1>2 DEF InputWord
    <3>2. stream' = stream /\ ~Completes(InputWord(taken))
      BY <1>2, <3>1, Zenon DEF Completes
    <3>3. parsed' = parsed
      BY <3>1, Zenon DEF Parse
    <3>4. parser' = parser
      BY <3>1 DEF Parse
    <3> QED BY <3>2, <3>3, <3>4
  <2>2. Completed(taken) = None
    BY <2>1, Zenon DEF Completed
  <2>3. Parser' /\ ToParse' = ToParse
    BY <2>1, Zenon DEF Parser, ToParse
  <2>4. ToParse \in Nat
    BY <1>1 DEF ToParse
  <2> QED BY <2>2, <2>3, <2>4 DEF More
<1>3. CASE taken
  <2> DEFINE w == WordAt(stream)
             n == length[stream.pkt]
  <2>1. InputWord(taken) = w /\ w # NoWord /\ w.pkt = stream.pkt /\ w.last = (stream.word = n)
    BY <1>1, <1>3, WordsAtPlaces DEF InputWord
  <2>2. n \in Nat /\ n >= 2 /\ stream.word <= n
    BY <1>1, <1>3, PlaceFollows DEF IsPlace
  <2>3. stream' = Following(stream)
    BY <1>3
  <2> HIDE DEF w, n
  <2>4. /\ stream.word < n => stream'.pkt = stream.pkt /\ stream'.word = stream.word + 1
        /\ stream.word = n => stream'.pkt = stream.pkt + 1 /\ stream'.word = 1
    BY <1>1, <2>2, <2>3 DEF Following, Place, n
  <2>5. CASE stream.word = 1
    <3>1. parser = "WAIT_PKT" /\ stream'.word = 2 /\ stream'.pkt = stream.pkt
      BY <2>2, <2>4, <2>5 DEF Parser
    <3>2. parser' = "PKT_WORD1" /\ parsed' = stream.pkt /\ ~Completes(InputWord(taken))
      BY <2>1, <3>1 DEF Parse, Completes
    <3>3. Completed(taken) = None
      BY <3>2, Zenon DEF Completed
    <3>4. Parser'
      BY <3>1, <3>2 DEF Parser
    <3>5. ToParse = stream.pkt /\ ToParse' = stream.pkt
      BY <2>5, <3>1 DEF ToParse
    <3> QED BY <1>1, <3>3, <3>4, <3>5 DEF More
  <2>6. CASE stream.word = 2
    <3>1. parser = "PKT_WORD1" /\ parsed = stream.pkt
      BY <2>6 DEF Parser
    <3>2. parser' = (IF stream.word = n THEN "WAIT_PKT" ELSE "PKT_WAIT_EOP")
      BY <2>1, <3>1 DEF Parse
    <3>3. Completed(taken) = stream.pkt
      BY <2>1, <3>1, Zenon DEF Completed, Completes
    <3>4. Parser'
      <4>1. CASE stream.word = n
        BY <2>4, <3>2, <4>1 DEF Parser
      <4>2. CASE stream.word # n
        <5>1. stream'.word = 3
          BY <2>2, <2>4, <2>6, <4>2
        <5> QED BY <3>2, <4>2, <5>1 DEF Parser
      <4> QED BY <4>1, <4>2
    <3>5. ToParse = stream.pkt /\ ToParse' = stream.pkt + 1
      <4>1. CASE stream.word = n
        BY <1>1, <2>4, <2>6, <4>1 DEF ToParse
      <4>2. CASE stream.word # n
        BY <1>1, <2>2, <2>4, <2>6, <4>2 DEF ToParse
      <4> QED BY <4>1, <4>2
    <3> QED BY <1>1, <1>3, <2>6, <3>3, <3>4, <3>5 DEF More
  <2>7. CASE stream.word > 2
    <3>1. parser = "PKT_WAIT_EOP"
      BY <1>1, <2>7 DEF Parser
    <3>2. /\ parser' = (IF stream.word = n THEN "WAIT_PKT" ELSE "PKT_WAIT_EOP")
          /\ ~Completes(InputWord(taken))
      BY <2>1, <3>1 DEF Parse, Completes
    <3>3. Completed(taken) = None
      BY <3>2, Zenon DEF Completed
    <3>4. Parser'
      <4>1. CASE stream.word = n
        BY <2>4, <3>2, <4>1 DEF Parser
      <4>2. CASE stream.word # n
        <5>1. stream'.word \in Nat /\ stream'.word > 2
          BY <1>1, <2>2, <2>4, <2>7, <4>2
        <5> QED BY <3>2, <4>2, <5>1 DEF Parser
      <4> QED BY <4>1, <4>2
    <3>5. ToParse = stream.pkt + 1 /\ ToParse' = stream.pkt + 1
      <4>1. CASE stream.word = n
        BY <1>1, <2>4, <2>7, <4>1 DEF ToParse
      <4>2. CASE stream.word # n
        BY <1>1, <2>2, <2>4, <2>7, <4>2 DEF ToParse
      <4> QED BY <4>1, <4>2
    <3> QED BY <1>1, <3>3, <3>4, <3>5 DEF More
  <2> QED BY <1>1, <2>5, <2>6, <2>7
<1> QED BY <1>2, <1>3

(* A second word stays among the last of pkt_fifo while its packet moves   *)
(* on in the pipeline.                                                     *)
LEMMA RecentMoves ==
  ASSUME Types, Line, NEW taken \in BOOLEAN, NEW r \in {0, 1}, r <= Len(pkt_fifo),
         Len(pkt_fifo)' = Len(pkt_fifo) - r + More(taken),
         \A i \in 1 .. Len(pkt_fifo) + 1 - r : PlaceIn(i)' = PlaceIn(i + r),
         NEW s \in Seq(Nat), s # <<>>, NEW m, NEW x,
         ShiftedIn(s, m, x), Recent(s),
         x # None => taken /\ stream.word = 2 /\ x = stream.pkt
  PROVE  \A i \in 1 .. Len(m), j \in 1 .. Len(pkt_fifo)' :
           m[i] # None /\ PlaceIn(j)' = Place(m[i], 2) => Len(pkt_fifo)' - j < i
<1> DEFINE n == Len(pkt_fifo)
<1> SUFFICES ASSUME NEW i \in 1 .. Len(m), NEW j \in 1 .. Len(pkt_fifo)',
                    m[i] # None, PlaceIn(j)' = Place(m[i], 2)
             PROVE  Len(pkt_fifo)' - j < i
  OBVIOUS
<1>1. /\ n \in Nat /\ Len(s) \in Nat \ {0} /\ i \in Nat \ {0}
      /\ Len(pkt_fifo)' = n - r + More(taken)
      /\ stream.pkt \in Nat \ {0} /\ stream.word \in Nat \ {0} /\ IsPlace(stream)
  BY Reading DEF ShiftedIn
<1>2. /\ Len(m) = Len(s) /\ m[1] = x /\ \A k \in 2 .. Len(s) : m[k] = s[k - 1]
  BY DEF ShiftedIn
<1> HIDE DEF n
<1>3. j \in 1 .. n + 1 - r /\ j \in Nat /\ j + r \in Nat
  BY <1>1 DEF More
<1>4. PlaceIn(j + r) = Place(m[i], 2)
  BY <1>3 DEF n
<1>5. CASE j + r = n + 1
  BY <1>1, <1>3, <1>5 DEF More
<1>6. CASE j + r # n + 1
  <2>1. j + r \in 1 .. n
    BY <1>1, <1>3, <1>6
  <2>2. InLine(j + r)
    BY <2>1 DEF Line, n
  <2>3. Precedes(Place(m[i], 2), stream, n + 1 - (j + r))
    BY <1>4, <2>2 DEF InLine, n
  <2>4. i # 1
    <3> SUFFICES ASSUME i = 1 PROVE FALSE
      OBVIOUS
    <3>1. stream.word = 2 /\ m[i] = stream.pkt
      BY <1>2
    <3>2. stream.word = 2 + (n + 1 - (j + r))
      BY <2>3, <3>1 DEF Precedes, Place
    <3> QED BY <1>1, <2>1, <3>1, <3>2
  <2>5. i - 1 \in 1 .. Len(s) /\ i \in 2 .. Len(s)
    BY <1>1, <1>2, <2>4
  <2>6. m[i] = s[i - 1]
    BY <1>2, <2>5
  <2>7. n - (j + r) < i - 1
    <3>1. s[i - 1] # None /\ PlaceIn(j + r) = Place(s[i - 1], 2)
      BY <1>4, <2>6
    <3>2. \A k \in 1 .. Len(s), l \in 1 .. n :
            s[k] # None /\ PlaceIn(l) = Place(s[k], 2) => n - l < k
      BY DEF Recent, n
    <3> QED BY <2>1, <2>5, <3>1, <3>2
  <2>8. Len(pkt_fifo)' \in Int /\ Len(pkt_fifo)' <= n - r + 1 /\ n \in Nat /\ r \in Int
    BY <1>1, <1>3 DEF More
  <2> QED BY <1>1, <1>3, <2>7, <2>8
<1> QED BY <1>5, <1>6

-----------------------------------------------------------------------------
(* The output machine's moves.  It stays where it is, begins to forward a  *)
(* packet, drops a word of one, or goes on with the one it is forwarding.  *)
Stays(nf, ready) ==
  /\ ~(in_fifo_rd_en(nf, ready) /\ pkt_fifo # <<>>) /\ ~TakesDecision(nf, ready)
  /\ ~(m_axis_tvalid /\ ready)
  /\ state' = state

Begins(nf, ready) ==
  /\ in_fifo_rd_en(nf, ready) /\ pkt_fifo # <<>> /\ TakesDecision(nf, ready)
  /\ Waiting /\ Forwards /\ NextRead.word = 1
  /\ m_axis_tvalid /\ ready
  /\ state' = IF tuple_pkt_en THEN "SM_PACKET" ELSE "IN_PACKET"

DropsWord(nf, ready) ==
  /\ in_fifo_rd_en(nf, ready) /\ pkt_fifo # <<>>
  /\ Waiting /\ Drops
  /\ TakesDecision(nf, ready) <=> Shown.last
  /\ ~(m_axis_tvalid /\ ready)
  /\ state' = state

GoesOn(nf, ready) ==
  /\ in_fifo_rd_en(nf, ready) /\ pkt_fifo # <<>> /\ ~TakesDecision(nf, ready)
  /\ ~Waiting
  /\ m_axis_tvalid /\ ready <=> state = "IN_PACKET"
  /\ state' = IF Shown.last THEN "WAIT_TILL_DONE_DECODE" ELSE state

LEMMA MachineMoves ==
  ASSUME Inv, NEW nf \in BOOLEAN, NEW ready \in BOOLEAN, nf \in NearlyFull,
         state' = state_next(nf, ready)
  PROVE  \/ Stays(nf, ready) \/ Begins(nf, ready)
         \/ DropsWord(nf, ready) \/ GoesOn(nf, ready)
<1>1. Types /\ Line /\ Machine
  BY DEF Inv
<1>2. ~Discards(nf)
  BY DecisionInTime
<1>3. /\ state \in {"WAIT_TILL_DONE_DECODE", "IN_PACKET", "SM_PACKET"}
      /\ NextRead.word > 1 /\ Waiting => Decided /\ ~Forwards
      /\ pkt_fifo = <<>> /\ NextRead.word > 1 => ~dout.last
  BY <1>1 DEF Machine
<1>4. /\ NextRead.word \in Nat \ {0}
      /\ pkt_fifo = <<>> => Shown = dout
      /\ pkt_fifo # <<>> => Shown.last = (NextRead.word = length[NextRead.pkt])
  BY <1>1, Reading, WordsAtPlaces
<1>5. Decided /\ NextRead.word = 1 => pkt_fifo # <<>>
  BY DecisionsBounded DEF Decided
<1>6. CASE ~Waiting /\ pkt_fifo # <<>>
  <2>1. state = "IN_PACKET" \/ state = "SM_PACKET"
    BY <1>3, <1>6 DEF Waiting
  <2>2. ~Decided /\ ~Forwards /\ ~Drops
    BY <1>6, Zenon DEF Decided, Forwards, Drops
  <2>3. state # "FLUSH"
    BY <2>1
  <2>4. ~TakesDecision(nf, ready)
    BY <1>2, <2>2, <2>3, Zenon DEF TakesDecision
  <2>5. CASE state = "IN_PACKET"
    <3>1. m_axis_tvalid /\ (in_fifo_rd_en(nf, ready) <=> ready)
      <4>1. state # "SM_PACKET"
        BY <2>5
      <4> QED BY <1>2, <1>6, <2>2, <2>3, <2>5, <4>1, Zenon DEF m_axis_tvalid, in_fifo_rd_en
    <3>2. CASE ready
      <4>1. state' = IF Shown.last THEN "WAIT_TILL_DONE_DECODE" ELSE state
        BY <1>2, <1>6, <2>2, <3>1, <3>2 DEF state_next
      <4> QED BY <1>6, <2>4, <2>5, <3>1, <3>2, <4>1 DEF GoesOn
    <3>3. CASE ~ready
      <4>1. state' = state
        BY <1>2, <1>6, <2>2, <3>1, <3>3 DEF state_next
      <4> QED BY <2>4, <3>1, <3>3, <4>1 DEF Stays
    <3> QED BY <3>2, <3>3
  <2>6. CASE state = "SM_PACKET"
    <3>1. ~m_axis_tvalid /\ in_fifo_rd_en(nf, ready)
      <4>1. state # "IN_PACKET"
        BY <2>6
      <4> QED BY <1>6, <2>2, <2>6, <4>1, Zenon DEF m_axis_tvalid, in_fifo_rd_en
    <3>2. state' = IF Shown.last THEN "WAIT_TILL_DONE_DECODE" ELSE state
      BY <1>2, <1>6, <2>2, <3>1 DEF state_next
    <3> QED BY <1>6, <2>4, <2>6, <3>1, <3>2 DEF GoesOn
  <2> QED BY <2>1, <2>5, <2>6
<1>7. CASE ~Waiting /\ pkt_fifo = <<>>
  <2>1. ~Decided /\ ~Forwards /\ ~Drops
    BY <1>7, Zenon DEF Decided, Forwards, Drops
  <2>2. state # "FLUSH"
    BY <1>3
  <2>3. ~TakesDecision(nf, ready) /\ ~m_axis_tvalid
    BY <1>2, <1>7, <2>1, <2>2, Zenon DEF TakesDecision, m_axis_tvalid
  <2>4. ~in_fifo_rd_en(nf, ready)
    BY <1>2, <1>7, <2>1, <2>2, <2>3, Zenon DEF in_fifo_rd_en
  <2>5. state' = state
    BY <1>2, <2>1, <2>4 DEF state_next
  <2> QED BY <2>3, <2>4, <2>5 DEF Stays
<1>8. CASE Waiting /\ Decided /\ Forwards
  <2>1. NextRead.word = 1
    BY <1>3, <1>4, <1>8
  <2>2. pkt_fifo # <<>> /\ m_axis_tvalid /\ ~Drops
    BY <1>5, <1>8, <2>1 DEF m_axis_tvalid, Drops
  <2>3. state # "FLUSH" /\ state # "SM_PACKET"
    BY <1>8 DEF Waiting
  <2>4. (in_fifo_rd_en(nf, ready) <=> ready) /\ (TakesDecision(nf, ready) <=> ready)
    BY <1>2, <1>8, <2>2, <2>3, Zenon DEF in_fifo_rd_en, TakesDecision
  <2>5. CASE ready
    <3>1. state' = IF tuple_pkt_en THEN "SM_PACKET" ELSE "IN_PACKET"
      BY <1>2, <1>8, <2>5 DEF state_next
    <3> QED BY <1>8, <2>1, <2>2, <2>4, <2>5, <3>1 DEF Begins
  <2>6. CASE ~ready
    <3>1. state' = state
      BY <1>2, <1>8, <2>6 DEF state_next
    <3> QED BY <2>4, <2>6, <3>1 DEF Stays
  <2> QED BY <2>5, <2>6
<1>9. CASE Waiting /\ Decided /\ ~Forwards
  <2>1. Drops /\ ~m_axis_tvalid /\ state # "FLUSH"
    BY <1>9 DEF Drops, m_axis_tvalid, Waiting
  <2>2. in_fifo_rd_en(nf, ready) /\ (TakesDecision(nf, ready) <=> Shown.last)
    BY <1>9, <2>1, Zenon DEF in_fifo_rd_en, TakesDecision
  <2>3. state' = state
    BY <1>2, <1>9 DEF state_next
  <2>4. CASE pkt_fifo # <<>>
    BY <1>9, <2>1, <2>2, <2>3, <2>4 DEF DropsWord
  <2>5. CASE pkt_fifo = <<>>
    <3>1. NextRead.word > 1
      BY <1>4, <1>5, <1>9, <2>5
    <3>2. ~Shown.last
      BY <1>3, <1>4, <2>5, <3>1
    <3> QED BY <2>1, <2>2, <2>3, <2>5, <3>2 DEF Stays
  <2> QED BY <2>4, <2>5
<1>10. CASE Waiting /\ ~Decided
  <2>1. ~Forwards /\ ~Drops
    BY <1>10, Zenon DEF Forwards, Drops
  <2>2. state # "FLUSH" /\ state # "SM_PACKET" /\ state # "IN_PACKET"
    BY <1>10 DEF Waiting
  <2>3. ~TakesDecision(nf, ready) /\ ~m_axis_tvalid
    BY <1>2, <2>1, <2>2, Zenon DEF TakesDecision, m_axis_tvalid
  <2>4. ~in_fifo_rd_en(nf, ready)
    BY <1>2, <2>1, <2>2, <2>3, Zenon DEF in_fifo_rd_en
  <2>5. state' = state
    BY <1>2, <1>10, <2>1 DEF state_next
  <2> QED BY <2>3, <2>4, <2>5 DEF Stays
<1> QED BY <1>6, <1>7, <1>8, <1>9, <1>10

(* Whatever the machine does, the decision it needs next is that of the    *)
(* packet it reads next.                                                   *)
LEMMA DecidesNext ==
  ASSUME Inv, NEW nf \in BOOLEAN, NEW ready \in BOOLEAN,
         \/ Stays(nf, ready) \/ Begins(nf, ready)
         \/ DropsWord(nf, ready) \/ GoesOn(nf, ready),
         NextRead' = IF in_fifo_rd_en(nf, ready) /\ pkt_fifo # <<>>
                     THEN Following(NextRead) ELSE NextRead
  PROVE  /\ ToDecide' = ToDecide + More(TakesDecision(nf, ready))
         /\ TakesDecision(nf, ready) => hit_fifo # <<>> /\ tuple_pkt_fifo # <<>>
         /\ state' \in {"WAIT_TILL_DONE_DECODE", "IN_PACKET", "SM_PACKET"}
         /\ ~Waiting' => NextRead'.word > 1
         /\ Waiting' /\ NextRead'.word > 1 =>
              /\ ~TakesDecision(nf, ready) /\ hit_fifo # <<>> /\ tuple_pkt_fifo # <<>>
              /\ Head(hit_fifo).hit => force_drop
<1> DEFINE w == NextRead
           takes == TakesDecision(nf, ready)
<1>1. /\ Types /\ Line
      /\ state \in {"WAIT_TILL_DONE_DECODE", "IN_PACKET", "SM_PACKET"}
      /\ ~Waiting => w.word > 1
      /\ Waiting /\ w.word > 1 => Decided /\ ~Forwards
  BY DEF Inv, Machine
<1>2. /\ w.pkt \in Nat \ {0} /\ w.word \in Nat \ {0} /\ IsPlace(w) /\ ToDecide \in Nat
      /\ pkt_fifo # <<>> => w.pkt \in Ids /\ Shown = WordAt(w)
  BY <1>1, Reading
<1>3. ASSUME pkt_fifo # <<>>
      PROVE  /\ Shown.last <=> w.word = length[w.pkt]
             /\ Shown.last => Following(w).pkt = w.pkt + 1 /\ Following(w).word = 1
             /\ ~Shown.last => Following(w).pkt = w.pkt /\ Following(w).word = w.word + 1
             /\ w.word = 1 => ~Shown.last
  <2>1. length[w.pkt] \in Nat /\ length[w.pkt] >= 2 /\ w.word <= length[w.pkt]
    BY <1>1, <1>2, <1>3, PlaceFollows DEF IsPlace
  <2>2. Shown.last <=> w.word = length[w.pkt]
    BY <1>2, <1>3, WordsAtPlaces
  <2> QED BY <1>2, <2>1, <2>2 DEF Following, Place
<1>4. Decided => Waiting /\ hit_fifo # <<>> /\ tuple_pkt_fifo # <<>>
  BY Zenon DEF Decided
<1>5. Decided /\ ~Forwards => (Head(hit_fifo).hit => force_drop)
  BY Zenon DEF Forwards
<1>6. ToDecide = IF Waiting THEN w.pkt ELSE w.pkt + 1
  BY Zenon DEF ToDecide
<1>7. ToDecide' = IF Waiting' THEN NextRead'.pkt ELSE NextRead'.pkt + 1
  BY Zenon DEF ToDecide
<1>8. Waiting <=> state = "WAIT_TILL_DONE_DECODE"
  BY DEF Waiting
<1>9. Waiting' <=> state' = "WAIT_TILL_DONE_DECODE"
  BY DEF Waiting
<1> HIDE DEF w, takes
<1>10. CASE Stays(nf, ready)
  <2>1. ~takes /\ state' = state /\ NextRead' = w
    BY <1>10, Zenon DEF Stays, takes, w
  <2>2. Waiting' <=> Waiting
    BY <1>8, <1>9, <2>1
  <2>3. ToDecide' = ToDecide + More(takes)
    BY <1>2, <1>6, <1>7, <2>1, <2>2 DEF More
  <2> QED BY <1>1, <1>4, <1>5, <2>1, <2>2, <2>3 DEF takes
<1>11. CASE Begins(nf, ready)
  <2>1. /\ takes /\ Waiting /\ Forwards /\ w.word = 1 /\ pkt_fifo # <<>>
        /\ in_fifo_rd_en(nf, ready)
        /\ state' = IF tuple_pkt_en THEN "SM_PACKET" ELSE "IN_PACKET"
    BY <1>11 DEF Begins, takes, w
  <2>2. NextRead' = Following(w)
    BY <2>1 DEF w
  <2>3. NextRead'.pkt = w.pkt /\ NextRead'.word = 2
    BY <1>2, <1>3, <2>1, <2>2
  <2>4. ~Waiting' /\ Decided /\ state' \in {"WAIT_TILL_DONE_DECODE", "IN_PACKET", "SM_PACKET"}
    BY <1>9, <2>1 DEF Forwards
  <2>5. ToDecide' = ToDecide + More(takes)
    BY <1>2, <1>6, <1>7, <2>1, <2>3, <2>4 DEF More
  <2> QED BY <1>4, <2>3, <2>4, <2>5 DEF takes
<1>12. CASE DropsWord(nf, ready)
  <2>1. /\ Waiting /\ Drops /\ pkt_fifo # <<>> /\ (takes <=> Shown.last) /\ state' = state
        /\ in_fifo_rd_en(nf, ready)
    BY <1>12 DEF DropsWord, takes, w
  <2>2. NextRead' = Following(w)
    BY <2>1 DEF w
  <2>3. Waiting' /\ Decided /\ ~Forwards
    BY <1>8, <1>9, <2>1 DEF Drops
  <2>4. CASE Shown.last
    <3>1. NextRead'.pkt = w.pkt + 1 /\ NextRead'.word = 1 /\ takes
      BY <1>3, <2>1, <2>2, <2>4
    <3>2. ToDecide' = ToDecide + More(takes)
      BY <1>2, <1>6, <1>7, <2>1, <2>3, <3>1 DEF More
    <3> QED BY <1>1, <1>4, <2>1, <2>3, <3>1, <3>2 DEF takes
  <2>5. CASE ~Shown.last
    <3>1. NextRead'.pkt = w.pkt /\ ~takes
      BY <1>3, <2>1, <2>2, <2>5
    <3>2. ToDecide' = ToDecide + More(takes)
      BY <1>2, <1>6, <1>7, <2>1, <2>3, <3>1 DEF More
    <3> QED BY <1>1, <1>4, <1>5, <2>1, <2>3, <3>1, <3>2 DEF takes
  <2> QED BY <2>4, <2>5
<1>13. CASE GoesOn(nf, ready)
  <2>1. /\ ~takes /\ ~Waiting /\ pkt_fifo # <<>> /\ in_fifo_rd_en(nf, ready)
        /\ state' = IF Shown.last THEN "WAIT_TILL_DONE_DECODE" ELSE state
    BY <1>13 DEF GoesOn, takes, w
  <2>2. NextRead' = Following(w)
    BY <2>1 DEF w
  <2>3. CASE Shown.last
    <3>1. NextRead'.pkt = w.pkt + 1 /\ NextRead'.word = 1 /\ Waiting'
      BY <1>3, <1>9, <2>1, <2>2, <2>3
    <3>2. ToDecide' = ToDecide + More(takes)
      BY <1>2, <1>6, <1>7, <2>1, <3>1 DEF More
    <3>3. state' \in {"WAIT_TILL_DONE_DECODE", "IN_PACKET", "SM_PACKET"}
      BY <2>1, <2>3
    <3> QED BY <2>1, <3>1, <3>2, <3>3 DEF takes
  <2>4. CASE ~Shown.last
    <3>1. /\ NextRead'.pkt = w.pkt /\ NextRead'.word = w.word + 1 /\ state' = state
      BY <1>3, <2>1, <2>2, <2>4
    <3>2. ~Waiting'
      BY <1>8, <1>9, <2>1, <3>1
    <3>3. ToDecide' = ToDecide + More(takes)
      BY <1>2, <1>6, <1>7, <2>1, <3>1, <3>2 DEF More
    <3>4. NextRead'.word > 1
      BY <1>2, <3>1
    <3> QED BY <1>1, <2>1, <3>1, <3>2, <3>3, <3>4 DEF takes
  <2> QED BY <2>3, <2>4
<1> QED BY <1>10, <1>11, <1>12, <1>13

(* The decisions stay those of the packets from ToDecide on.               *)
HitsMoved(d, takes, looked, m) ==
  /\ HitsFrom(d + More(takes), m)
  /\ Len(m) = Len(hit_fifo) - More(takes) + More(looked # None)
  /\ hit_fifo # <<>> /\ ~takes => m # <<>> /\ Head(m) = Head(hit_fifo)

TuplesMoved(d, takes, looked, m) ==
  /\ TuplesFrom(d + More(takes), m)
  /\ Len(m) = Len(tuple_pkt_fifo) - More(takes) + More(looked # None)
  /\ tuple_pkt_fifo # <<>> /\ ~takes => m # <<>>

LEMMA HitsMove ==
  ASSUME Types, NEW d \in Nat \ {0}, NEW takes \in BOOLEAN, NEW looked \in Nat,
         HitsFrom(d, hit_fifo), takes => hit_fifo # <<>>,
         looked # None => looked = d + Len(hit_fifo) /\ looked <= Packets,
         NEW m, m = TailIf(takes, hit_fifo) \o MoreOf(looked # None, Decision(looked))
  PROVE  HitsMoved(d, takes, looked, m)
<1> DEFINE n == Len(hit_fifo)
           r == More(takes)
           c == looked # None
<1>a. /\ hit_fifo \in Seq([pkt : Ids, hit : BOOLEAN])
      /\ \A i \in 1 .. Len(hit_fifo) :
           hit_fifo[i].pkt = d + i - 1 /\ hit_fifo[i].hit = (hit_fifo[i].pkt \in matches)
  BY Zenon DEF HitsFrom
<1>1. None = 0 /\ Packets \in Nat
  BY LengthAssumption DEF None
<1>2. n \in Nat /\ (hit_fifo # <<>> <=> n >= 1) /\ r \in {0, 1} /\ r <= n
  BY <1>a DEF More
<1>3. Less(takes, hit_fifo) = r
  BY DEF Less, More
<1>4. c => Decision(looked) \in [pkt : Ids, hit : BOOLEAN]
  <2>1. (looked \in matches) \in BOOLEAN
    OBVIOUS
  <2> QED BY <1>1, <1>2, <2>1 DEF Decision, Ids
<1>5. m \in Seq([pkt : Ids, hit : BOOLEAN]) /\ QueueAfter(hit_fifo, m, takes, c, Decision(looked))
  <2> DEFINE S == [pkt : Ids, hit : BOOLEAN]
             x == Decision(looked)
  <2>1. hit_fifo \in Seq(S) /\ (c => x \in S) /\ c \in BOOLEAN
    BY <1>4, <1>a
  <2>2. m = TailIf(takes, hit_fifo) \o MoreOf(c, x)
    OBVIOUS
  <2> HIDE DEF S, x, c
  <2>3. m \in Seq(S) /\ QueueAfter(hit_fifo, m, takes, c, x)
    BY <2>1, <2>2, QueueMoves
  <2> QED BY <2>3 DEF S, x, c
<1>6. /\ Len(m) = n - r + More(c)
      /\ \A i \in 1 .. n - r : m[i] = hit_fifo[i + r]
      /\ c => m[Len(m)] = Decision(looked)
  BY <1>3, <1>5 DEF QueueAfter
<1> HIDE DEF n, r
<1>7. \A i \in 1 .. Len(m) :
        m[i].pkt = d + r + i - 1 /\ m[i].hit = (m[i].pkt \in matches)
  <2> SUFFICES ASSUME NEW i \in 1 .. Len(m)
               PROVE  m[i].pkt = d + r + i - 1 /\ m[i].hit = (m[i].pkt \in matches)
    OBVIOUS
  <2>1. CASE i <= n - r
    <3>1. i \in 1 .. n - r /\ i + r \in 1 .. n
      BY <1>2, <1>6, <2>1 DEF More
    <3>2. m[i] = hit_fifo[i + r]
      BY <1>6, <3>1
    <3>3. /\ hit_fifo[i + r].pkt = d + (i + r) - 1
          /\ hit_fifo[i + r].hit = (hit_fifo[i + r].pkt \in matches)
      BY <1>a, <3>1 DEF n
    <3>4. d + (i + r) - 1 = d + r + i - 1
      BY <1>2, <3>1
    <3> QED BY <3>2, <3>3, <3>4
  <2>2. CASE ~(i <= n - r)
    <3>1. c /\ i = Len(m) /\ i = n - r + 1
      BY <1>2, <1>6, <2>2 DEF More
    <3>2. m[i] = Decision(looked) /\ looked = d + n
      BY <1>6, <3>1 DEF n
    <3>3. m[i].pkt = looked /\ m[i].hit = (looked \in matches)
      BY <3>2 DEF Decision
    <3>4. d + n = d + r + i - 1
      <4>1. \A j, k \in Nat : i = j - k + 1 => d + j = d + k + i - 1
        OBVIOUS
      <4>2. n \in Nat /\ r \in Nat
        BY <1>2
      <4> QED BY <3>1, <4>1, <4>2, Zenon
    <3> QED BY <3>2, <3>3, <3>4
  <2> QED BY <2>1, <2>2
<1>8. ASSUME hit_fifo # <<>>, ~takes PROVE m # <<>> /\ Head(m) = Head(hit_fifo)
  <2>1. r = 0 /\ n >= 1 /\ 1 \in 1 .. n - r
    BY <1>2, <1>8 DEF r, More
  <2>2. m[1] = hit_fifo[1] /\ Len(m) >= 1
    BY <1>2, <1>6, <2>1 DEF More
  <2> QED BY <1>5, <1>8, <1>a, <2>2
<1>9. HitsFrom(d + r, m)
  BY <1>5, <1>7, Zenon DEF HitsFrom
<1> QED BY <1>6, <1>8, <1>9 DEF n, r, HitsMoved

LEMMA TuplesMove ==
  ASSUME NEW d \in Nat \ {0}, NEW takes \in BOOLEAN, NEW looked \in Nat,
         TuplesFrom(d, tuple_pkt_fifo), takes => tuple_pkt_fifo # <<>>,
         looked # None => looked = d + Len(tuple_pkt_fifo) /\ looked <= Packets,
         NEW m, m = TailIf(takes, tuple_pkt_fifo) \o MoreOf(looked # None, looked)
  PROVE  TuplesMoved(d, takes, looked, m)
<1> DEFINE n == Len(tuple_pkt_fifo)
           r == More(takes)
           c == looked # None
<1>a. /\ tuple_pkt_fifo \in Seq(Ids)
      /\ \A i \in 1 .. Len(tuple_pkt_fifo) : tuple_pkt_fifo[i] = d + i - 1
  BY Zenon DEF TuplesFrom
<1>1. None = 0 /\ Packets \in Nat
  BY LengthAssumption DEF None
<1>2. n \in Nat /\ (tuple_pkt_fifo # <<>> <=> n >= 1) /\ r \in {0, 1} /\ r <= n
  BY <1>a DEF More
<1>3. Less(takes, tuple_pkt_fifo) = r
  BY DEF Less, More
<1>4. c => looked \in Ids
  BY <1>1, <1>2 DEF Ids
<1>5. m \in Seq(Ids) /\ QueueAfter(tuple_pkt_fifo, m, takes, c, looked)
  BY <1>4, <1>a, QueueMoves
<1>6. /\ Len(m) = n - r + More(c)
      /\ \A i \in 1 .. n - r : m[i] = tuple_pkt_fifo[i + r]
      /\ c => m[Len(m)] = looked
  BY <1>3, <1>5 DEF QueueAfter
<1> HIDE DEF n, r
<1>7. \A i \in 1 .. Len(m) : m[i] = d + r + i - 1
  <2> SUFFICES ASSUME NEW i \in 1 .. Len(m) PROVE m[i] = d + r + i - 1
    OBVIOUS
  <2>1. CASE i <= n - r
    <3>1. i \in 1 .. n - r /\ i + r \in 1 .. n
      BY <1>2, <1>6, <2>1 DEF More
    <3>2. m[i] = tuple_pkt_fifo[i + r] /\ tuple_pkt_fifo[i + r] = d + (i + r) - 1
      BY <1>6, <1>a, <3>1 DEF n
    <3> QED BY <1>2, <3>1, <3>2
  <2>2. CASE ~(i <= n - r)
    <3>1. c /\ i = Len(m) /\ i = n - r + 1
      BY <1>2, <1>6, <2>2 DEF More
    <3>2. m[i] = looked /\ looked = d + n
      BY <1>6, <3>1 DEF n
    <3>3. \A j, k \in Nat : i = j - k + 1 => d + j = d + k + i - 1
      OBVIOUS
    <3>4. n \in Nat /\ r \in Nat
      BY <1>2
    <3>5. d + n = d + r + i - 1
      BY <3>1, <3>3, <3>4, Zenon
    <3> QED BY <3>2, <3>5
  <2> QED BY <2>1, <2>2
<1>8. ASSUME tuple_pkt_fifo # <<>>, ~takes PROVE m # <<>>
  <2>1. Len(m) >= 1
    BY <1>2, <1>6, <1>8 DEF r, More
  <2> QED BY <2>1
<1>9. TuplesFrom(d + r, m)
  BY <1>5, <1>7, Zenon DEF TuplesFrom
<1> QED BY <1>6, <1>8, <1>9 DEF n, r, TuplesMoved

-----------------------------------------------------------------------------
(* What a pipeline gives and keeps at one edge.                            *)
EdgeMoves(taken, r) ==
  /\ taken \in BOOLEAN /\ r \in {0, 1} /\ r <= Len(pkt_fifo)
  /\ Len(pkt_fifo)' = Len(pkt_fifo) - r + More(taken)
  /\ \A i \in 1 .. Len(pkt_fifo) + 1 - r : PlaceIn(i)' = PlaceIn(i + r)
  /\ Completed(taken) \in {None, ToParse}
  /\ Completed(taken) # None => taken /\ stream.word = 2 /\ Completed(taken) = stream.pkt
  /\ ToParse' = ToParse + More(Completed(taken) # None)

PipelineReady(s, first) ==
  /\ s \in Seq(Nat) /\ Len(s) >= 1 /\ first \in Nat \ {0}
  /\ Pipeline(s, first, ToParse) /\ Recent(s)

PipelineMoved(s, first, m) ==
  /\ Last(s) \in Nat /\ (Last(s) # None => Last(s) = first /\ Last(s) <= Packets)
  /\ m \in Seq(Nat) /\ Len(m) = Len(s)
  /\ Pipeline(m, first + More(Last(s) # None), ToParse')
  /\ \A i \in 1 .. Len(m), j \in 1 .. Len(pkt_fifo)' :
       m[i] # None /\ PlaceIn(j)' = Place(m[i], 2) => Len(pkt_fifo)' - j < i

LEMMA PipelineSteps ==
  ASSUME Types, Line, NEW taken, NEW r, EdgeMoves(taken, r), NEW s, NEW first,
         PipelineReady(s, first), NEW m, m = <<Completed(taken)>> \o Front(s)
  PROVE  PipelineMoved(s, first, m)
<1>b. /\ taken \in BOOLEAN /\ r \in {0, 1} /\ r <= Len(pkt_fifo)
      /\ Len(pkt_fifo)' = Len(pkt_fifo) - r + More(taken)
      /\ \A i \in 1 .. Len(pkt_fifo) + 1 - r : PlaceIn(i)' = PlaceIn(i + r)
      /\ Completed(taken) \in {None, ToParse}
      /\ Completed(taken) # None =>
           taken /\ stream.word = 2 /\ Completed(taken) = stream.pkt
      /\ ToParse' = ToParse + More(Completed(taken) # None)
  BY Zenon DEF EdgeMoves
<1>c. /\ s \in Seq(Nat) /\ Len(s) >= 1 /\ first \in Nat \ {0}
      /\ Pipeline(s, first, ToParse) /\ Recent(s)
  BY Zenon DEF PipelineReady
<1> DEFINE x == Completed(taken)
<1>1. /\ ToParse \in Nat \ {0} /\ ToParse - 1 <= Packets /\ Packets \in Nat
      /\ None = 0 /\ x \in Nat /\ s # <<>> /\ Len(s) \in 1 .. Len(s)
  <2>1. ToParse \in Nat \ {0} /\ ToParse - 1 <= Packets /\ Packets \in Nat
    BY Reading
  <2>2. s # <<>> /\ Len(s) \in 1 .. Len(s)
    BY <1>c
  <2> QED BY <1>b, <2>1, <2>2 DEF None
<1>a. x \in {None, ToParse} /\ m = <<x>> \o Front(s)
  BY <1>b
<1> HIDE DEF x
<1>2. m \in Seq(Nat) /\ ShiftedIn(s, m, x)
  BY <1>1, <1>a, <1>c, RegisterShifts
<1>3. Last(s) = s[Len(s)] /\ Last(s) \in Nat
  BY <1>1, <1>c DEF Last
<1>4. /\ s[Len(s)] # None => s[Len(s)] = first
      /\ Pipeline(m, first + More(s[Len(s)] # None), ToParse + More(x # None))
  <2>1. ToParse \in Nat /\ ToParse # 0 /\ s # <<>>
    BY <1>1
  <2> QED BY <1>2, <1>a, <1>c, <2>1, PipelineMoves
<1>5. Last(s) # None => Last(s) <= Packets
  <2>1. \A i \in 1 .. Len(s) : s[i] # None => s[i] \in first .. ToParse - 1
    BY <1>c DEF Pipeline
  <2>2. Last(s) # None => Last(s) \in first .. ToParse - 1
    BY <1>1, <1>3, <2>1
  <2> QED BY <1>1, <1>3, <2>2
<1>6. Pipeline(m, first + More(Last(s) # None), ToParse')
  BY <1>3, <1>4, <1>b, Zenon DEF x
<1>7. \A i \in 1 .. Len(m), j \in 1 .. Len(pkt_fifo)' :
        m[i] # None /\ PlaceIn(j)' = Place(m[i], 2) => Len(pkt_fifo)' - j < i
  <2>1. x # None => taken /\ stream.word = 2 /\ x = stream.pkt
    BY <1>b DEF x
  <2> QED BY <1>1, <1>2, <1>b, <1>c, <2>1, RecentMoves, ZenonT(40)
<1> QED BY <1>2, <1>3, <1>4, <1>5, <1>6, <1>7 DEF ShiftedIn, PipelineMoved

LEMMA ClockKeeps ==
  ASSUME Inv, NEW valid \in BOOLEAN, NEW nf \in BOOLEAN, NEW ready \in BOOLEAN,
         Clock(valid, nf, ready)
  PROVE  /\ Inv'
         /\ NextRead' = IF in_fifo_rd_en(nf, ready) /\ pkt_fifo # <<>>
                        THEN Following(NextRead) ELSE NextRead
<1> DEFINE read == in_fifo_rd_en(nf, ready)
           hits == Len(hit_fifo)
           labels == Len(tuple_pkt_fifo)
<1>1. PICK taken \in BOOLEAN : taken = (valid /\ ~nf)
  OBVIOUS
<1>t. PICK takes \in BOOLEAN : takes = TakesDecision(nf, ready)
  <2>1. TakesDecision(nf, ready) \in BOOLEAN
    BY Zenon DEF TakesDecision
  <2> QED BY <2>1
<1>2. /\ taken => ~Ended /\ ~nf
      /\ nf \in NearlyFull
      /\ stream' = IF taken THEN Following(stream) ELSE stream
      /\ Parse(InputWord(taken))
      /\ lookups' = <<Completed(taken)>> \o Front(lookups)
      /\ tuples' = <<Completed(taken)>> \o Front(tuples)
      /\ pkt_fifo' = TailIf(read, pkt_fifo) \o MoreOf(taken, WordAt(stream))
      /\ hit_fifo' = TailIf(takes, hit_fifo)
                       \o MoreOf(Last(lookups) # None, Decision(Last(lookups)))
      /\ tuple_pkt_fifo' = TailIf(takes, tuple_pkt_fifo)
                             \o MoreOf(Last(tuples) # None, Last(tuples))
      /\ dout' = IF pkt_fifo' = <<>> THEN Shown ELSE NoWord
      /\ state' = state_next(nf, ready)
      /\ UNCHANGED <<force_drop, tuple_pkt_en, length, matches>>
  BY <1>1, <1>t, ClockParts
<1>3. Types /\ Line /\ Parser /\ Results /\ Machine
  BY DEF Inv
<1>4. read \in BOOLEAN
  BY Zenon DEF in_fifo_rd_en
<1> HIDE DEF read
<1> DEFINE r == Less(read, pkt_fifo)
<1>5. /\ Len(pkt_fifo) \in Nat /\ r \in {0, 1} /\ r <= Len(pkt_fifo)
      /\ r = IF read /\ pkt_fifo # <<>> THEN 1 ELSE 0
  BY <1>3, Reading DEF Less
<1>6. taken => Len(pkt_fifo) <= FifoDepth + 1
  BY <1>2, <1>3, <1>5, DepthAssumption DEF NearlyFull, Line
<1>7. /\ Line'
      /\ Len(pkt_fifo)' = Len(pkt_fifo) - r + More(taken)
      /\ \A i \in 1 .. Len(pkt_fifo) + 1 - r : PlaceIn(i)' = PlaceIn(i + r)
  <2>1. taken => ~Ended /\ Len(pkt_fifo) <= FifoDepth + 1
    BY <1>2, <1>6
  <2> QED BY <1>2, <1>3, <1>4, <2>1, LineMoves
<1>8. NextRead' = IF read /\ pkt_fifo # <<>> THEN Following(NextRead) ELSE NextRead
  <2>1. 1 \in 1 .. Len(pkt_fifo) + 1 - r
    BY <1>5
  <2>2. NextRead' = PlaceIn(1 + r)
    BY <1>7, <2>1 DEF NextRead
  <2>3. CASE read /\ pkt_fifo # <<>>
    <3>1. 1 + r = 2
      BY <1>5, <2>3
    <3> QED BY <1>3, <2>2, <2>3, <3>1, Reading
  <2>4. CASE ~(read /\ pkt_fifo # <<>>)
    <3>1. 1 + r = 1
      BY <1>5, <2>4
    <3> QED BY <2>2, <2>4, <3>1 DEF NextRead
  <2> QED BY <2>3, <2>4
<1>9. Parser' /\ Completed(taken) \in {None, ToParse}
      /\ (Completed(taken) # None =>
            taken /\ stream.word = 2 /\ Completed(taken) = stream.pkt)
      /\ ToParse' = ToParse + More(Completed(taken) # None)
  <2>1. IsPlace(stream)
    BY <1>3 DEF Line
  <2> QED BY <1>2, <1>3, <2>1, ParserMoves
<1>10. /\ ToDecide' = ToDecide + More(takes)
       /\ takes => hit_fifo # <<>> /\ tuple_pkt_fifo # <<>>
       /\ state' \in {"WAIT_TILL_DONE_DECODE", "IN_PACKET", "SM_PACKET"}
       /\ ~Waiting' => NextRead'.word > 1
       /\ Waiting' /\ NextRead'.word > 1 =>
            /\ ~takes /\ hit_fifo # <<>> /\ tuple_pkt_fifo # <<>>
            /\ Head(hit_fifo).hit => force_drop
  <2>1. \/ Stays(nf, ready) \/ Begins(nf, ready)
        \/ DropsWord(nf, ready) \/ GoesOn(nf, ready)
    BY <1>2, MachineMoves
  <2> QED BY <1>8, <1>t, <2>1, DecidesNext DEF read
<1>11. /\ HitsFrom(ToDecide, hit_fifo) /\ TuplesFrom(ToDecide, tuple_pkt_fifo)
       /\ lookups \in Seq(Nat) /\ Len(lookups) = LookupStages /\ Recent(lookups)
       /\ tuples \in Seq(Nat) /\ Len(tuples) = TupleStages /\ Recent(tuples)
       /\ Pipeline(lookups, ToDecide + hits, ToParse)
       /\ Pipeline(tuples, ToDecide + labels, ToParse)
       /\ hits \in Nat /\ labels \in Nat
  BY <1>3, DecisionsBounded DEF Results
<1>12. /\ ToDecide \in Nat \ {0} /\ ToDecide + hits \in Nat \ {0} /\ ToDecide + labels \in Nat \ {0}
       /\ Len(lookups) >= 1 /\ Len(tuples) >= 1
  <2>1. ToDecide \in Nat \ {0}
    BY <1>3, Reading
  <2>2. Len(lookups) >= 1 /\ Len(tuples) >= 1
    BY <1>11, StagesAssumption
  <2> HIDE DEF hits, labels
  <2> QED BY <1>11, <2>1, <2>2
<1>e. EdgeMoves(taken, r)
  BY <1>5, <1>7, <1>9, Zenon DEF EdgeMoves
<1> HIDE DEF r
<1>13. /\ Last(lookups) \in Nat
       /\ Last(lookups) # None => Last(lookups) = ToDecide + hits /\ Last(lookups) <= Packets
       /\ lookups' \in Seq(Nat) /\ Len(lookups') = LookupStages
       /\ Pipeline(lookups', ToDecide + hits + More(Last(lookups) # None), ToParse')
       /\ Recent(lookups)'
  <2> DEFINE m == lookups'
             first == ToDecide + hits
  <2>1. m = <<Completed(taken)>> \o Front(lookups)
    BY <1>2
  <2>2. PipelineReady(lookups, first)
    BY <1>11, <1>12 DEF PipelineReady
  <2> HIDE DEF m, first
  <2>4. PipelineMoved(lookups, first, m)
    BY <1>3, <1>e, <2>1, <2>2, PipelineSteps, Zenon
  <2>3. Recent(lookups)'
    BY <2>4, Zenon DEF PipelineMoved, Recent, m, None, Place
  <2> QED BY <1>11, <2>3, <2>4 DEF PipelineMoved, m, first
<1>14. /\ Last(tuples) \in Nat
       /\ Last(tuples) # None => Last(tuples) = ToDecide + labels /\ Last(tuples) <= Packets
       /\ tuples' \in Seq(Nat) /\ Len(tuples') = TupleStages
       /\ Pipeline(tuples', ToDecide + labels + More(Last(tuples) # None), ToParse')
       /\ Recent(tuples)'
  <2> DEFINE m == tuples'
             first == ToDecide + labels
  <2>1. m = <<Completed(taken)>> \o Front(tuples)
    BY <1>2
  <2>2. PipelineReady(tuples, first)
    BY <1>11, <1>12 DEF PipelineReady
  <2> HIDE DEF m, first
  <2>4. PipelineMoved(tuples, first, m)
    BY <1>3, <1>e, <2>1, <2>2, PipelineSteps, Zenon
  <2>3. Recent(tuples)'
    BY <2>4, Zenon DEF PipelineMoved, Recent, m, None, Place
  <2> QED BY <1>11, <2>3, <2>4 DEF PipelineMoved, m, first
<1>15. /\ HitsFrom(ToDecide + More(takes), hit_fifo')
       /\ Len(hit_fifo') = hits - More(takes) + More(Last(lookups) # None)
       /\ hit_fifo # <<>> /\ ~takes => hit_fifo' # <<>> /\ Head(hit_fifo') = Head(hit_fifo)
  <2> DEFINE looked == Last(lookups)
             m == hit_fifo'
  <2>1. looked \in Nat /\ m = TailIf(takes, hit_fifo) \o MoreOf(looked # None, Decision(looked))
    BY <1>2, <1>13
  <2>2. looked # None => looked = ToDecide + hits /\ looked <= Packets
    BY <1>13
  <2> HIDE DEF looked, m
  <2>3. /\ HitsFrom(ToDecide + More(takes), m)
        /\ Len(m) = Len(hit_fifo) - More(takes) + More(looked # None)
        /\ hit_fifo # <<>> /\ ~takes => m # <<>> /\ Head(m) = Head(hit_fifo)
    <3> DEFINE d == ToDecide
    <3>1. /\ Types /\ d \in Nat \ {0} /\ takes \in BOOLEAN /\ looked \in Nat
          /\ HitsFrom(d, hit_fifo) /\ (takes => hit_fifo # <<>>)
          /\ (looked # None => looked = d + Len(hit_fifo) /\ looked <= Packets)
          /\ m = TailIf(takes, hit_fifo) \o MoreOf(looked # None, Decision(looked))
      BY <1>3, <1>4, <1>10, <1>11, <1>12, <2>1, <2>2
    <3> HIDE DEF d
    <3>2. HitsMoved(d, takes, looked, m)
      BY <3>1, HitsMove, Zenon
    <3> QED BY <3>2, Zenon DEF HitsMoved, d
  <2> QED BY <2>3 DEF looked, m
<1>16. /\ TuplesFrom(ToDecide + More(takes), tuple_pkt_fifo')
       /\ Len(tuple_pkt_fifo') = labels - More(takes) + More(Last(tuples) # None)
       /\ tuple_pkt_fifo # <<>> /\ ~takes => tuple_pkt_fifo' # <<>>
  <2> DEFINE looked == Last(tuples)
             m == tuple_pkt_fifo'
  <2>1. looked \in Nat /\ m = TailIf(takes, tuple_pkt_fifo) \o MoreOf(looked # None, looked)
    BY <1>2, <1>14
  <2>2. looked # None => looked = ToDecide + labels /\ looked <= Packets
    BY <1>14
  <2> HIDE DEF looked, m
  <2>3. /\ TuplesFrom(ToDecide + More(takes), m)
        /\ Len(m) = Len(tuple_pkt_fifo) - More(takes) + More(looked # None)
        /\ tuple_pkt_fifo # <<>> /\ ~takes => m # <<>>
    <3> DEFINE d == ToDecide
    <3>1. /\ d \in Nat \ {0} /\ takes \in BOOLEAN /\ looked \in Nat
          /\ TuplesFrom(d, tuple_pkt_fifo) /\ (takes => tuple_pkt_fifo # <<>>)
          /\ (looked # None => looked = d + Len(tuple_pkt_fifo) /\ looked <= Packets)
          /\ m = TailIf(takes, tuple_pkt_fifo) \o MoreOf(looked # None, looked)
      BY <1>3, <1>4, <1>10, <1>11, <1>12, <2>1, <2>2
    <3> HIDE DEF d
    <3>2. TuplesMoved(d, takes, looked, m)
      BY <3>1, TuplesMove, Zenon
    <3> QED BY <3>2, Zenon DEF TuplesMoved, d
  <2> QED BY <2>3 DEF looked, m
<1>17. Results'
  <2>1. /\ ToDecide' + Len(hit_fifo') = ToDecide + hits + More(Last(lookups) # None)
        /\ ToDecide' + Len(tuple_pkt_fifo') = ToDecide + labels + More(Last(tuples) # None)
    <3> DEFINE a == More(takes)
               b == More(Last(lookups) # None)
               c == More(Last(tuples) # None)
    <3>1. a \in {0, 1} /\ b \in {0, 1} /\ c \in {0, 1}
      BY DEF More
    <3>2. ToDecide \in Nat /\ hits \in Nat /\ labels \in Nat
      BY <1>11, <1>12
    <3>3. Len(hit_fifo') = hits - a + b /\ Len(tuple_pkt_fifo') = labels - a + c
      BY <1>15, <1>16
    <3> HIDE DEF a, b, c, hits, labels
    <3>4. /\ (ToDecide + a) + Len(hit_fifo') = ToDecide + hits + b
          /\ (ToDecide + a) + Len(tuple_pkt_fifo') = ToDecide + labels + c
      BY <3>1, <3>2, <3>3
    <3>5. ToDecide' = ToDecide + a
      BY <1>10 DEF a
    <3> QED BY <3>4, <3>5 DEF a, b, c
  <2>2. /\ Pipeline(lookups', ToDecide' + Len(hit_fifo'), ToParse')
        /\ Pipeline(tuples', ToDecide' + Len(tuple_pkt_fifo'), ToParse')
    BY <1>13, <1>14, <2>1
  <2>3. /\ Pipeline(lookups, ToDecide + Len(hit_fifo), ToParse)'
        /\ Pipeline(tuples, ToDecide + Len(tuple_pkt_fifo), ToParse)'
    BY <2>2, Zenon DEF Pipeline, None
  <2>4. HitsFrom(ToDecide, hit_fifo)' /\ TuplesFrom(ToDecide, tuple_pkt_fifo)'
    <3>1. HitsFrom(ToDecide', hit_fifo') /\ TuplesFrom(ToDecide', tuple_pkt_fifo')
      BY <1>10, <1>15, <1>16, Zenon
    <3>2. matches' = matches
      BY <1>2
    <3> QED BY <3>1, <3>2, Zenon DEF HitsFrom, TuplesFrom, Ids
  <2> QED BY <1>13, <1>14, <2>3, <2>4 DEF Results
<1>18. Machine'
  <2>1. Waiting' /\ NextRead'.word > 1 => Decided' /\ ~Forwards'
    <3> SUFFICES ASSUME Waiting', NextRead'.word > 1 PROVE Decided' /\ ~Forwards'
      OBVIOUS
    <3>1. hit_fifo' # <<>> /\ tuple_pkt_fifo' # <<>> /\ Head(hit_fifo') = Head(hit_fifo)
      BY <1>10, <1>15, <1>16
    <3>2. Head(hit_fifo').hit => force_drop'
      BY <1>2, <1>10, <3>1
    <3> QED BY <3>1, <3>2, Zenon DEF Decided, Forwards
  <2>2. pkt_fifo' = <<>> /\ NextRead'.word > 1 => dout'.pkt = NextRead'.pkt /\ ~dout'.last
    <3> SUFFICES ASSUME pkt_fifo' = <<>>, NextRead'.word > 1
                 PROVE  dout'.pkt = NextRead'.pkt /\ ~dout'.last
      OBVIOUS
    <3>1. dout' = Shown
      BY <1>2
    <3>2. CASE read /\ pkt_fifo # <<>>
      <4>1. NextRead' = Following(NextRead)
        BY <1>8, <3>2
      <4>2. /\ NextRead.pkt \in Ids /\ IsPlace(NextRead) /\ Shown = WordAt(NextRead)
            /\ NextRead.pkt \in Nat /\ NextRead.word \in Nat
        BY <1>3, <3>2, Reading
      <4>3. /\ Shown.pkt = NextRead.pkt
            /\ Shown.last = (NextRead.word = length[NextRead.pkt])
        BY <4>2, WordsAtPlaces
      <4>4. NextRead.word < length[NextRead.pkt]
        BY <4>1, <4>2 DEF Following, Place
      <4>5. length[NextRead.pkt] \in Nat
        BY <1>3, <4>2, PlaceFollows
      <4>6. NextRead'.pkt = NextRead.pkt /\ ~Shown.last
        <5>1. Following(NextRead) = Place(NextRead.pkt, NextRead.word + 1)
          BY <4>4, Zenon DEF Following
        <5>2. Following(NextRead).pkt = NextRead.pkt
          BY <5>1 DEF Place
        <5>3. NextRead.word # length[NextRead.pkt]
          BY <4>2, <4>4, <4>5
        <5>4. ~Shown.last
          BY <4>3, <5>3, Zenon
        <5> QED BY <4>1, <5>2, <5>4
      <4> QED BY <3>1, <4>3, <4>6
    <3>3. CASE ~(read /\ pkt_fifo # <<>>)
      <4>1. NextRead' = NextRead /\ r = 0
        BY <1>5, <1>8, <3>3
      <4>2. Len(pkt_fifo) = 0
        <5>1. Len(pkt_fifo)' = 0
          OBVIOUS
        <5> QED BY <1>5, <1>7, <4>1, <5>1 DEF More
      <4>3. pkt_fifo = <<>>
        <5>1. pkt_fifo # <<>> => Len(pkt_fifo) >= 1
          BY <1>3, Reading
        <5> QED BY <4>2, <5>1
      <4>4. Shown = dout
        BY <1>3, <4>3, Reading
      <4> QED BY <1>3, <3>1, <4>1, <4>3, <4>4 DEF Machine
    <3> QED BY <3>2, <3>3
  <2> QED BY <1>10, <2>1, <2>2 DEF Machine
<1>19. Types'
  BY <1>2, <1>3 DEF Types, Ids
<1> QED BY <1>7, <1>8, <1>9, <1>17, <1>18, <1>19 DEF Inv, read

-----------------------------------------------------------------------------
LEMMA InitInv == Init => Inv /\ Left
<1> SUFFICES ASSUME Init PROVE Inv /\ Left
  OBVIOUS
<1>1. /\ length \in [Ids -> Lengths] /\ stream = Place(1, 1) /\ matches \in SUBSET Ids
      /\ force_drop \in BOOLEAN /\ tuple_pkt_en \in BOOLEAN
      /\ parser = "WAIT_PKT" /\ parsed = None
      /\ lookups = [i \in 1 .. LookupStages |-> None]
      /\ tuples = [i \in 1 .. TupleStages |-> None]
      /\ pkt_fifo = <<>> /\ hit_fifo = <<>> /\ tuple_pkt_fifo = <<>>
      /\ dout = NoWord /\ state = "WAIT_TILL_DONE_DECODE" /\ out = <<>>
  BY DEF Init
<1>2. Packets \in Nat /\ LookupStages \in Nat \ {0} /\ TupleStages \in Nat \ {0} /\ FifoDepth \in Nat
  BY LengthAssumption, StagesAssumption, DepthAssumption
<1>3. stream.pkt = 1 /\ stream.word = 1 /\ stream \in [pkt : 1 .. Packets + 1, word : Nat \ {0}]
  BY <1>1, <1>2 DEF Place
<1>4. Len(pkt_fifo) = 0 /\ Len(hit_fifo) = 0 /\ Len(tuple_pkt_fifo) = 0 /\ Len(out) = 0
  BY <1>1
<1>5. Types
  BY <1>1 DEF Types
<1>6. IsPlace(stream)
  <2>1. stream.pkt \in Ids => length[stream.pkt] \in Nat /\ length[stream.pkt] >= 2
    BY <1>1, LengthAssumption
  <2> QED BY <1>3, <2>1 DEF IsPlace
<1>7. Line
  <2>1. pkt_fifo \in Seq(BusWords) /\ Len(pkt_fifo) <= FifoDepth + 2
    BY <1>1, <1>2, <1>4
  <2>2. \A i \in 1 .. Len(pkt_fifo) : InLine(i)
    BY <1>4
  <2> QED BY <1>6, <2>1, <2>2 DEF Line
<1>8. NextRead = stream /\ Waiting
  BY <1>1, <1>4 DEF NextRead, PlaceIn, Waiting
<1>9. ToDecide = 1 /\ ToParse = 1
  BY <1>3, <1>8 DEF ToDecide, ToParse
<1>10. Parser
  BY <1>1, <1>3 DEF Parser
<1>11. \A k \in Nat : LET s == [i \in 1 .. k |-> None] IN
         /\ s \in Seq(Nat) /\ Len(s) = k
         /\ Pipeline(s, 1, 1) /\ Recent(s)
  <2> SUFFICES ASSUME NEW k \in Nat
               PROVE  LET s == [i \in 1 .. k |-> None] IN
                        /\ s \in Seq(Nat) /\ Len(s) = k
                        /\ Pipeline(s, 1, 1) /\ Recent(s)
    OBVIOUS
  <2> DEFINE s == [i \in 1 .. k |-> None]
  <2>1. s \in Seq(Nat) /\ Len(s) = k /\ \A i \in 1 .. Len(s) : s[i] = None
    BY DEF None
  <2> HIDE DEF s
  <2>2. Pipeline(s, 1, 1)
    BY <2>1 DEF Pipeline
  <2>3. Recent(s)
    BY <2>1 DEF Recent
  <2> QED BY <2>1, <2>2, <2>3 DEF s
<1>12. Results
  <2>1. /\ lookups \in Seq(Nat) /\ Len(lookups) = LookupStages
        /\ Pipeline(lookups, 1, 1) /\ Recent(lookups)
    BY <1>1, <1>2, <1>11
  <2>2. /\ tuples \in Seq(Nat) /\ Len(tuples) = TupleStages
        /\ Pipeline(tuples, 1, 1) /\ Recent(tuples)
    BY <1>1, <1>2, <1>11
  <2>3. HitsFrom(ToDecide, hit_fifo) /\ TuplesFrom(ToDecide, tuple_pkt_fifo)
    BY <1>1, <1>4 DEF HitsFrom, TuplesFrom
  <2>4. 1 + Len(hit_fifo) = 1 /\ 1 + Len(tuple_pkt_fifo) = 1
    BY <1>4
  <2> QED BY <1>9, <2>1, <2>2, <2>3, <2>4 DEF Results
<1>13. Machine
  BY <1>1, <1>3, <1>8 DEF Machine
<1>14. Left
  <2>1. LastOut.last /\ LastOut.pkt = 0
    BY <1>1 DEF LastOut, Word, None
  <2>2. out \in Seq([pkt : Nat, word : Nat, last : BOOLEAN])
    BY <1>1
  <2>3. OnlySelected
    BY <1>1 DEF OnlySelected
  <2>4. NextRead.pkt = 1 /\ \A p \in matches : NextRead.pkt <= p
    BY <1>1, <1>3, <1>8 DEF Ids
  <2>5. state # "IN_PACKET" /\ state # "SM_PACKET"
    BY <1>1
  <2> QED BY <1>8, <2>1, <2>2, <2>3, <2>4, <2>5 DEF Left
<1> QED BY <1>5, <1>7, <1>10, <1>12, <1>13, <1>14 DEF Inv

(* Between two edges only the host moves, and it does not clear force_drop. *)
BetweenEdges ==
  /\ UNCHANGED <<stream, parser, parsed, lookups, tuples, pkt_fifo, hit_fifo,
                 tuple_pkt_fifo, dout, state, out>>
  /\ UNCHANGED <<length, matches>>
  /\ force_drop' \in BOOLEAN /\ tuple_pkt_en' \in BOOLEAN
  /\ force_drop => force_drop'

LEMMA WriteBetweenEdges ==
  ASSUME Types, DropStays, WriteControl \/ UNCHANGED vars
  PROVE  BetweenEdges
<1>1. CASE WriteControl
  <2>1. PICK c \in Controls :
          /\ c.before = [force_drop |-> force_drop, tuple_pkt_en |-> tuple_pkt_en]
          /\ force_drop' = c.after.force_drop /\ tuple_pkt_en' = c.after.tuple_pkt_en
    BY <1>1 DEF WriteControl
  <2>2. c \in [before : ControlValues, after : ControlValues]
    BY ControlAssumption
  <2>3. c.after \in ControlValues /\ c.before.force_drop = force_drop
    BY <2>1, <2>2
  <2>4. force_drop' \in BOOLEAN /\ tuple_pkt_en' \in BOOLEAN
    BY <2>1, <2>3 DEF ControlValues
  <2>5. force_drop => force_drop'
    BY <2>1, <2>3, Zenon DEF DropStays
  <2>6. /\ UNCHANGED <<stream, parser, parsed, lookups, tuples, pkt_fifo, hit_fifo,
                       tuple_pkt_fifo, dout, state, out>>
        /\ UNCHANGED <<length, matches>>
    BY <1>1 DEF WriteControl, path, traffic
  <2> QED BY <2>4, <2>5, <2>6 DEF BetweenEdges
<1>2. CASE UNCHANGED vars
  BY <1>2 DEF vars, control, path, traffic, Types, BetweenEdges
<1> QED BY <1>1, <1>2

LEMMA WriteKeeps ==
  ASSUME Inv, BetweenEdges
  PROVE  Inv' /\ NextRead' = NextRead
<1>1. Types /\ Line /\ Parser /\ Results /\ Machine
  BY DEF Inv
<1>2. /\ UNCHANGED <<stream, parser, parsed, lookups, tuples, pkt_fifo, hit_fifo,
                     tuple_pkt_fifo, dout, state, out>>
      /\ UNCHANGED <<length, matches>>
  BY DEF BetweenEdges
<1>3. /\ force_drop' \in BOOLEAN /\ tuple_pkt_en' \in BOOLEAN
      /\ force_drop => force_drop'
  BY DEF BetweenEdges
<1>4. Types'
  BY <1>1, <1>2, <1>3 DEF Types, Ids
<1>5. Line' /\ Parser'
  <2>1. \A i : PlaceIn(i)' = PlaceIn(i)
    BY <1>2, Zenon DEF PlaceIn, Place
  <2>2. \A place : /\ IsPlace(place)' <=> IsPlace(place)
                   /\ WordAt(place)' = WordAt(place) /\ Following(place)' = Following(place)
    BY <1>2, Zenon DEF IsPlace, WordAt, Following, Place, Word, Ids
  <2>3. \A i : InLine(i)' <=> InLine(i)
    BY <1>2, <2>1, <2>2, Zenon DEF InLine, Precedes, Ids
  <2>4. Line'
    BY <1>1, <1>2, <2>2, <2>3, Zenon DEF Line, BusWords, Ids
  <2>5. Parser'
    BY <1>1, <1>2, Zenon DEF Parser
  <2>6. QED BY <2>4, <2>5
<1>6. NextRead' = NextRead /\ ToDecide' = ToDecide /\ ToParse' = ToParse /\ (Waiting' <=> Waiting)
  BY <1>2, Zenon DEF NextRead, PlaceIn, ToDecide, ToParse, Waiting, Place
<1>7. Results'
  BY <1>1, <1>2, <1>6, Zenon
  DEF Results, HitsFrom, TuplesFrom, Pipeline, Recent, PlaceIn, Place, None, Ids
<1>8. Machine'
  <2>1. Decided' <=> Decided
    BY <1>2, <1>6, Zenon DEF Decided
  <2>2. Forwards' => Forwards
    BY <1>2, <1>3, <2>1, Zenon DEF Forwards
  <2> QED BY <1>1, <1>2, <1>6, <2>1, <2>2, Zenon DEF Machine
<1> QED BY <1>4, <1>5, <1>6, <1>7, <1>8 DEF Inv

(* The invariant of the capture path: it holds as long as the host does    *)
(* not clear force_drop.                                                   *)
THEOREM CaptureInvariant ==
  ASSUME DropStays PROVE Spec => []Inv
<1>1. Init => Inv
  BY InitInv
<1>2. Inv /\ [Next]_vars => Inv'
  <2> SUFFICES ASSUME Inv, [Next]_vars PROVE Inv'
    OBVIOUS
  <2>1. CASE Edge
    <3>1. PICK valid \in BOOLEAN, nf \in BOOLEAN, ready \in BOOLEAN : Clock(valid, nf, ready)
      BY <2>1 DEF Edge
    <3> QED BY <3>1, ClockKeeps
  <2>2. CASE WriteControl \/ UNCHANGED vars
    <3>1. BetweenEdges
      BY <2>2, WriteBetweenEdges DEF Inv
    <3> QED BY <3>1, WriteKeeps
  <2> QED BY <2>1, <2>2 DEF Next
<1> QED BY <1>1, <1>2, PTL DEF Spec

-----------------------------------------------------------------------------
(* The oldest decision and the oldest tuple are those of the packet that   *)
(* is read next.                                                           *)
LEMMA OldestDecision ==
  ASSUME Inv, Waiting
  PROVE  /\ hit_fifo # <<>> => /\ Head(hit_fifo).pkt = NextRead.pkt
                               /\ Head(hit_fifo).hit = (NextRead.pkt \in matches)
         /\ tuple_pkt_fifo # <<>> => Head(tuple_pkt_fifo) = NextRead.pkt
<1>1. Types /\ Line /\ Results
  BY DEF Inv
<1>2. ToDecide = NextRead.pkt /\ NextRead.pkt \in Nat
  BY <1>1, Reading DEF ToDecide
<1>3. ASSUME hit_fifo # <<>>
      PROVE  /\ Head(hit_fifo).pkt = NextRead.pkt
             /\ Head(hit_fifo).hit = (NextRead.pkt \in matches)
  <2>1. /\ hit_fifo \in Seq([pkt : Ids, hit : BOOLEAN])
        /\ \A i \in 1 .. Len(hit_fifo) :
             /\ hit_fifo[i].pkt = NextRead.pkt + i - 1
             /\ hit_fifo[i].hit = (hit_fifo[i].pkt \in matches)
    BY <1>1, <1>2 DEF Results, HitsFrom
  <2>2. 1 \in 1 .. Len(hit_fifo) /\ Head(hit_fifo) = hit_fifo[1]
    BY <1>3, <2>1
  <2>3. hit_fifo[1].pkt = NextRead.pkt + 1 - 1
    BY <2>1, <2>2
  <2>4. NextRead.pkt + 1 - 1 = NextRead.pkt
    BY <1>2
  <2>5. hit_fifo[1].hit = (hit_fifo[1].pkt \in matches)
    BY <2>1, <2>2, Zenon
  <2> QED BY <2>2, <2>3, <2>4, <2>5
<1>4. ASSUME tuple_pkt_fifo # <<>> PROVE Head(tuple_pkt_fifo) = NextRead.pkt
  <2>1. /\ tuple_pkt_fifo \in Seq(Ids)
        /\ \A i \in 1 .. Len(tuple_pkt_fifo) : tuple_pkt_fifo[i] = NextRead.pkt + i - 1
    BY <1>1, <1>2 DEF Results, TuplesFrom
  <2>2. 1 \in 1 .. Len(tuple_pkt_fifo) /\ Head(tuple_pkt_fifo) = tuple_pkt_fifo[1]
    BY <1>4, <2>1
  <2>3. tuple_pkt_fifo[1] = NextRead.pkt + 1 - 1
    BY <2>1, <2>2
  <2> QED BY <1>2, <2>2, <2>3
<1> QED BY <1>3, <1>4

(* InStep: while the output machine waits, the oldest decision and the     *)
(* oldest tuple are those of the packet pkt_fifo shows, unless the host    *)
(* clears force_drop.                                                      *)
THEOREM StaysInStep ==
  ASSUME DropStays PROVE Spec => []InStep
<1>1. Inv => InStep
  <2> SUFFICES ASSUME Inv, Waiting
               PROVE  /\ hit_fifo # <<>> => Showing(Head(hit_fifo).pkt)
                      /\ tuple_pkt_fifo # <<>> => Showing(Head(tuple_pkt_fifo))
    BY DEF InStep
  <2>1. Types /\ Line /\ Results /\ Machine
    BY DEF Inv
  <2>2. ToDecide = NextRead.pkt /\ NextRead.word \in Nat \ {0} /\ NextRead.pkt \in Nat
    BY <2>1, Reading DEF ToDecide
  <2>3. hit_fifo # <<>> => Head(hit_fifo).pkt = NextRead.pkt
    BY OldestDecision
  <2>4. tuple_pkt_fifo # <<>> => Head(tuple_pkt_fifo) = NextRead.pkt
    BY OldestDecision
  <2>5. CASE pkt_fifo # <<>>
    <3>1. Shown.pkt = NextRead.pkt
      BY <2>1, <2>5, Reading, WordsAtPlaces
    <3> QED BY <2>3, <2>4, <2>5, <3>1 DEF Showing
  <2>6. CASE pkt_fifo = <<>>
    <3>1. Shown = dout
      BY <2>1, <2>6, Reading
    <3>2. hit_fifo # <<>> \/ tuple_pkt_fifo # <<>> => NextRead.word > 1
      BY <2>2, <2>6, DecisionsBounded
    <3>3. hit_fifo # <<>> \/ tuple_pkt_fifo # <<>> => dout.pkt = NextRead.pkt /\ ~dout.last
      BY <2>1, <2>6, <3>2 DEF Machine
    <3> QED BY <2>3, <2>4, <2>6, <3>1, <3>3 DEF Showing
  <2> QED BY <2>5, <2>6
<1> QED BY <1>1, CaptureInvariant, PTL

(* NeverFlushed: pkt_fifo is never nearly full while a packet waits for    *)
(* its decision, for all FIFO sizes and pipelines DepthAssumption allows.  *)
THEOREM DecisionsInTime ==
  ASSUME DropStays PROVE Spec => []NeverFlushed
<1>1. Inv => NeverFlushed
  <2> SUFFICES ASSUME Inv PROVE NeverFlushed
    OBVIOUS
  <2>1. state # "FLUSH"
    BY DEF Inv, Machine
  <2>2. \A nf \in NearlyFull : ~Discards(nf)
    BY DecisionInTime
  <2> QED BY <2>1, <2>2, Zenon DEF NeverFlushed
<1> QED BY <1>1, CaptureInvariant, PTL

(* RoomForDecisions: the FIFOs of decisions and tuples, which have no flow *)
(* control, do not overflow.                                               *)
THEOREM DecisionsFit ==
  ASSUME DropStays PROVE Spec => []RoomForDecisions
<1>1. Inv => RoomForDecisions
  BY DecisionsBounded
<1> QED BY <1>1, CaptureInvariant, PTL

-----------------------------------------------------------------------------
(* What leaves.  A word the filter selects after the last one keeps what   *)
(* has left right.                                                         *)
OutWords == [pkt : Nat, word : Nat, last : BOOLEAN]

LEMMA OutGrows ==
  ASSUME out \in Seq(OutWords), OnlySelected, NEW w \in OutWords, Selects(LastOut, w),
         out' = Append(out, w), UNCHANGED <<length, matches, tuple_pkt_en>>
  PROVE  out' \in Seq(OutWords) /\ OnlySelected' /\ LastOut' = w
<1> DEFINE n == Len(out)
<1>1. /\ out' \in Seq(OutWords) /\ n \in Nat /\ Len(out') = n + 1 /\ out' # <<>>
      /\ out'[n + 1] = w /\ \A i \in 1 .. n : out'[i] = out[i]
      /\ DOMAIN out = 1 .. n /\ DOMAIN out' = 1 .. n + 1
      /\ out = <<>> <=> n = 0
  OBVIOUS
<1> HIDE DEF n
<1>2. LastOut' = w
  BY <1>1 DEF LastOut
<1>3. ASSUME NEW e, NEW x, Selects(e, x), NEW i, OutBefore(i)' = e, out'[i] = x
      PROVE  Selects(OutBefore(i), out[i])'
  <2>1. UNCHANGED <<length, matches, tuple_pkt_en>>
    OBVIOUS
  <2>2. \A p, q : WordAt(Place(p, q))' = WordAt(Place(p, q))
    BY <2>1, Zenon DEF WordAt, Word, Place
  <2>3. IF ~e.last THEN x = WordAt(Place(e.pkt, e.word + 1))'
        ELSE /\ x.pkt \in matches' /\ e.pkt < x.pkt
             /\ \A p \in matches' : p <= e.pkt \/ x.pkt <= p
             /\ x = IF tuple_pkt_en' THEN TupleWord(x.pkt, TRUE)
                    ELSE WordAt(Place(x.pkt, 1))'
    <3>1. matches' = matches /\ (tuple_pkt_en' <=> tuple_pkt_en)
      BY <2>1
    <3>2. IF ~e.last THEN x = WordAt(Place(e.pkt, e.word + 1))
          ELSE /\ x.pkt \in matches /\ e.pkt < x.pkt
               /\ \A p \in matches : p <= e.pkt \/ x.pkt <= p
               /\ x = IF tuple_pkt_en THEN TupleWord(x.pkt, TRUE)
                      ELSE WordAt(Place(x.pkt, 1))
      BY <1>3, Zenon DEF Selects
    <3>3. CASE ~e.last
      <4>1. x = WordAt(Place(e.pkt, e.word + 1))
        BY <3>2, <3>3, Zenon
      <4>2. x = WordAt(Place(e.pkt, e.word + 1))'
        BY <2>2, <4>1, Zenon
      <4> QED BY <3>3, <4>2, Zenon
    <3>4. CASE e.last
      <4>0. /\ x.pkt \in matches /\ e.pkt < x.pkt
            /\ \A p \in matches : p <= e.pkt \/ x.pkt <= p
            /\ x = IF tuple_pkt_en THEN TupleWord(x.pkt, TRUE) ELSE WordAt(Place(x.pkt, 1))
        BY <3>2, <3>4, Zenon
      <4>1. /\ x.pkt \in matches' /\ e.pkt < x.pkt
            /\ \A p \in matches' : p <= e.pkt \/ x.pkt <= p
            /\ x = IF tuple_pkt_en' THEN TupleWord(x.pkt, TRUE) ELSE WordAt(Place(x.pkt, 1))
        BY <3>1, <4>0, Zenon
      <4>2. x = IF tuple_pkt_en' THEN TupleWord(x.pkt, TRUE) ELSE WordAt(Place(x.pkt, 1))'
        BY <2>2, <4>1, Zenon
      <4> QED BY <3>4, <4>1, <4>2, Zenon
    <3> QED BY <3>3, <3>4
  <2> QED BY <1>3, <2>3, Zenon DEF Selects, WordAt, Word, TupleWord, Place
<1>4. ASSUME NEW i \in DOMAIN out' PROVE Selects(OutBefore(i), out[i])'
  <2>1. CASE i \in 1 .. n
    <3>1. PICK e, x : e = OutBefore(i) /\ x = out[i]
      OBVIOUS
    <3>2. Selects(e, x)
      BY <1>1, <2>1, <3>1 DEF OnlySelected
    <3>3. out'[i] = x /\ OutBefore(i)' = e
      <4>1. i # 1 => i - 1 \in 1 .. n
        BY <1>1, <2>1
      <4>2. out'[i] = x /\ (i # 1 => out'[i - 1] = out[i - 1])
        BY <1>1, <2>1, <3>1, <4>1
      <4> QED BY <3>1, <4>2, Zenon DEF OutBefore, Word, None
    <3> QED BY <1>3, <3>2, <3>3
  <2>2. CASE i = n + 1
    <3>1. PICK e : e = LastOut
      OBVIOUS
    <3>2. OutBefore(i)' = e /\ out'[i] = w
      <4>1. out'[i] = w
        BY <1>1, <2>2
      <4>2. CASE n = 0
        <5>1. i = 1 /\ out = <<>>
          BY <1>1, <2>2, <4>2
        <5> QED BY <3>1, <4>1, <5>1, Zenon DEF OutBefore, LastOut, Word, None
      <4>3. CASE n # 0
        <5>1. i # 1 /\ out # <<>> /\ i - 1 = n /\ out'[n] = out[n]
          BY <1>1, <2>2, <4>3
        <5> QED BY <3>1, <4>1, <5>1, Zenon DEF OutBefore, LastOut, Word, None, n
      <4> QED BY <4>2, <4>3
    <3> QED BY <1>3, <3>1, <3>2
  <2> QED BY <1>1, <2>1, <2>2
<1> QED BY <1>1, <1>2, <1>4 DEF OnlySelected

(* One edge: a packet begins with its decision and its tuple, goes on word *)
(* by word, or is dropped because the filter does not select it.           *)
LEMMA ClockKeepsLeft ==
  ASSUME Inv, Left, NEW valid \in BOOLEAN, NEW nf \in BOOLEAN, NEW ready \in BOOLEAN,
         Clock(valid, nf, ready)
  PROVE  Left'
<1> DEFINE w == NextRead
<1>1. Types /\ Line /\ Machine
  BY DEF Inv
<1>2. PICK taken \in BOOLEAN : taken = (valid /\ ~nf)
  OBVIOUS
<1>3. /\ nf \in NearlyFull /\ state' = state_next(nf, ready)
      /\ out' = IF m_axis_tvalid /\ ready THEN Append(out, OutputWord) ELSE out
      /\ UNCHANGED <<force_drop, tuple_pkt_en, length, matches>>
  BY <1>2, ClockParts, Zenon
<1>4. \/ Stays(nf, ready) \/ Begins(nf, ready)
      \/ DropsWord(nf, ready) \/ GoesOn(nf, ready)
  BY <1>3, MachineMoves
<1>5. NextRead' = IF in_fifo_rd_en(nf, ready) /\ pkt_fifo # <<>> THEN Following(w) ELSE w
  BY ClockKeeps
<1>6. /\ w.pkt \in Nat \ {0} /\ w.word \in Nat \ {0} /\ IsPlace(w)
      /\ pkt_fifo # <<>> => w.pkt \in Ids /\ Shown = WordAt(w)
  BY <1>1, Reading
<1>7. ASSUME pkt_fifo # <<>>
      PROVE  /\ Shown.last <=> w.word = length[w.pkt]
             /\ Shown.last => Following(w).pkt = w.pkt + 1 /\ Following(w).word = 1
             /\ ~Shown.last => Following(w).pkt = w.pkt /\ Following(w).word = w.word + 1
             /\ Shown \in OutWords /\ Shown.pkt = w.pkt /\ Shown.word = w.word
             /\ Shown = Word(w.pkt, w.word, w.word = length[w.pkt])
             /\ length[w.pkt] >= 2 /\ length[w.pkt] \in Nat
  <2>1. length[w.pkt] \in Nat /\ length[w.pkt] >= 2 /\ w.word <= length[w.pkt]
    BY <1>1, <1>6, <1>7, PlaceFollows DEF IsPlace
  <2>2. /\ Shown.last = (w.word = length[w.pkt]) /\ Shown \in BusWords
        /\ Shown.pkt = w.pkt /\ Shown.word = w.word
    BY <1>6, <1>7, WordsAtPlaces
  <2>3. Shown \in OutWords
    BY <2>2, LengthAssumption DEF BusWords, OutWords, Ids
  <2>4. Shown = Word(w.pkt, w.word, w.word = length[w.pkt])
    BY <1>6, <1>7 DEF WordAt
  <2>5. Shown.last <=> w.word = length[w.pkt]
    BY <2>2
  <2>6. /\ Shown.last => Following(w).pkt = w.pkt + 1 /\ Following(w).word = 1
        /\ ~Shown.last => Following(w).pkt = w.pkt /\ Following(w).word = w.word + 1
    BY <1>6, <2>1, <2>5 DEF Following, Place
  <2> QED BY <2>1, <2>2, <2>3, <2>4, <2>5, <2>6
<1>8. /\ out \in Seq(OutWords) /\ OnlySelected
      /\ Waiting => /\ LastOut.last /\ LastOut.pkt < w.pkt
                    /\ ~force_drop => \A p \in matches : p <= LastOut.pkt \/ w.pkt <= p
      /\ ~Waiting => LastOut.pkt = w.pkt
      /\ state = "IN_PACKET" =>
           ~tuple_pkt_en /\ ~LastOut.last /\ LastOut.word + 1 = w.word
      /\ state = "SM_PACKET" => tuple_pkt_en /\ LastOut.last
  BY DEF Left, OutWords
<1>9. LastOut.pkt \in Nat /\ \A p \in matches : p \in Nat
  <2>1. LastOut.pkt \in Nat
    <3>1. CASE out = <<>>
      BY <3>1 DEF LastOut, Word, None
    <3>2. CASE out # <<>>
      <4>1. Len(out) \in 1 .. Len(out)
        BY <1>8, <3>2
      <4>2. out[Len(out)] \in OutWords
        BY <1>8, <4>1
      <4> QED BY <3>2, <4>2 DEF LastOut, OutWords
    <3> QED BY <3>1, <3>2
  <2> QED BY <1>1, <2>1 DEF Types, Ids
<1>10. /\ Waiting <=> state = "WAIT_TILL_DONE_DECODE"
       /\ Waiting' <=> state' = "WAIT_TILL_DONE_DECODE"
       /\ state \in {"WAIT_TILL_DONE_DECODE", "IN_PACKET", "SM_PACKET"}
  BY <1>1 DEF Waiting, Machine
<1>11. ASSUME out' = out PROVE out' \in Seq(OutWords) /\ OnlySelected' /\ LastOut' = LastOut
  <2>1. UNCHANGED <<out, length, matches, tuple_pkt_en>>
    BY <1>3, <1>11
  <2> QED BY <1>8, <2>1 DEF OnlySelected, OutBefore, Selects, WordAt, Word, TupleWord, Place, None, LastOut
<1> HIDE DEF w
<1> SUFFICES /\ out' \in Seq(OutWords) /\ OnlySelected'
             /\ Waiting' =>
                  /\ LastOut'.last /\ LastOut'.pkt < NextRead'.pkt
                  /\ ~force_drop =>
                       \A p \in matches : p <= LastOut'.pkt \/ NextRead'.pkt <= p
             /\ ~Waiting' => LastOut'.pkt = NextRead'.pkt
             /\ state' = "IN_PACKET" =>
                  ~tuple_pkt_en /\ ~LastOut'.last /\ LastOut'.word + 1 = NextRead'.word
             /\ state' = "SM_PACKET" => tuple_pkt_en /\ LastOut'.last
  BY <1>3, Zenon DEF Left, OutWords
<1>12. CASE Stays(nf, ready)
  <2>1. state' = state /\ out' = out /\ NextRead' = w
    BY <1>3, <1>5, <1>12, Zenon DEF Stays
  <2>2. out' \in Seq(OutWords) /\ OnlySelected' /\ LastOut' = LastOut
    BY <1>11, <2>1
  <2> QED BY <1>8, <1>10, <2>1, <2>2
<1>13. CASE DropsWord(nf, ready)
  <2>1. /\ Waiting /\ Drops /\ pkt_fifo # <<>> /\ state' = state /\ out' = out
        /\ NextRead' = Following(w)
    BY <1>3, <1>5, <1>13, Zenon DEF DropsWord
  <2>2. out' \in Seq(OutWords) /\ OnlySelected' /\ LastOut' = LastOut
    BY <1>11, <2>1
  <2>3. ~force_drop => w.pkt \notin matches
    <3>1. Decided /\ ~Forwards
      BY <2>1, Zenon DEF Drops
    <3>2. ~force_drop => ~Head(hit_fifo).hit
      BY <3>1, Zenon DEF Forwards
    <3>3. Head(hit_fifo).hit = (w.pkt \in matches)
      BY <3>1, OldestDecision DEF Decided, w
    <3> QED BY <3>2, <3>3
  <2>4. NextRead'.pkt \in {w.pkt, w.pkt + 1}
    BY <1>7, <2>1
  <2> QED BY <1>6, <1>8, <1>9, <1>10, <2>1, <2>2, <2>3, <2>4
<1>14. CASE Begins(nf, ready)
  <2>1. /\ Waiting /\ Decided /\ Head(hit_fifo).hit /\ pkt_fifo # <<>> /\ w.word = 1
        /\ ~force_drop /\ out' = Append(out, OutputWord) /\ NextRead' = Following(w)
        /\ state' = IF tuple_pkt_en THEN "SM_PACKET" ELSE "IN_PACKET"
    BY <1>3, <1>5, <1>14, Zenon DEF Begins, Forwards, w
  <2>2. w.pkt \in matches /\ Head(tuple_pkt_fifo) = w.pkt /\ tuple_pkt_fifo # <<>>
    BY <2>1, OldestDecision DEF Decided, w
  <2>3. /\ ~Shown.last /\ NextRead'.pkt = w.pkt /\ NextRead'.word = 2
    BY <1>7, <2>1
  <2>4. PICK x : x = OutputWord
    OBVIOUS
  <2>5. CASE tuple_pkt_en
    <3>1. x = TupleWord(w.pkt, TRUE)
      BY <2>1, <2>2, <2>4, <2>5 DEF OutputWord
    <3>2. x \in OutWords /\ x.pkt = w.pkt /\ x.last
      BY <1>6, <3>1 DEF TupleWord, Word, OutWords
    <3>3. Selects(LastOut, x)
      <4>1. /\ x.pkt \in matches /\ LastOut.pkt < x.pkt
            /\ \A p \in matches : p <= LastOut.pkt \/ x.pkt <= p
            /\ x = TupleWord(x.pkt, TRUE)
        BY <1>8, <2>1, <2>2, <3>1, <3>2
      <4> QED BY <1>8, <2>1, <2>5, <4>1, Zenon DEF Selects
    <3>4. out' \in Seq(OutWords) /\ OnlySelected' /\ LastOut' = x
      BY <1>3, <1>8, <2>1, <2>4, <3>2, <3>3, OutGrows
    <3> QED BY <1>10, <2>1, <2>3, <2>5, <3>2, <3>4
  <2>6. CASE ~tuple_pkt_en
    <3>1. x = Word(w.pkt, 1, FALSE)
      <4>1. x = [Shown EXCEPT !.last = tuple_pkt_en]
        BY <2>1, <2>4, <2>6, Zenon DEF OutputWord
      <4>2. tuple_pkt_en = FALSE
        BY <1>1, <2>6 DEF Types
      <4>3. Shown = Word(w.pkt, 1, w.word = length[w.pkt])
        BY <1>7, <2>1
      <4> QED BY <4>1, <4>2, <4>3 DEF Word
    <3>2. x \in OutWords /\ x.pkt = w.pkt /\ ~x.last /\ x.word = 1
      BY <1>6, <3>1 DEF Word, OutWords
    <3>3. x = WordAt(Place(w.pkt, 1))
      <4>1. (1 = length[w.pkt]) = FALSE
        BY <1>7, <2>1
      <4> QED BY <3>1, <4>1 DEF WordAt, Place, Word
    <3>4. Selects(LastOut, x)
      <4>1. /\ x.pkt \in matches /\ LastOut.pkt < x.pkt
            /\ \A p \in matches : p <= LastOut.pkt \/ x.pkt <= p
            /\ x = WordAt(Place(x.pkt, 1))
        BY <1>8, <2>1, <2>2, <3>2, <3>3
      <4> QED BY <1>8, <2>1, <2>6, <4>1, Zenon DEF Selects
    <3>5. out' \in Seq(OutWords) /\ OnlySelected' /\ LastOut' = x
      BY <1>3, <1>8, <2>1, <2>4, <3>2, <3>4, OutGrows
    <3> QED BY <1>10, <2>1, <2>3, <2>6, <3>2, <3>5
  <2> QED BY <2>5, <2>6
<1>15. CASE GoesOn(nf, ready)
  <2>1. /\ ~Waiting /\ pkt_fifo # <<>> /\ NextRead' = Following(w)
        /\ state' = IF Shown.last THEN "WAIT_TILL_DONE_DECODE" ELSE state
        /\ out' = IF state = "IN_PACKET" THEN Append(out, OutputWord) ELSE out
    BY <1>3, <1>5, <1>15, Zenon DEF GoesOn
  <2>2. /\ Shown.last => NextRead'.pkt = w.pkt + 1
        /\ ~Shown.last => NextRead'.pkt = w.pkt /\ NextRead'.word = w.word + 1
    BY <1>7, <2>1
  <2>3. CASE state = "SM_PACKET"
    <3>1. out' = out /\ tuple_pkt_en /\ LastOut.last /\ LastOut.pkt = w.pkt
      BY <1>8, <2>1, <2>3
    <3>2. out' \in Seq(OutWords) /\ OnlySelected' /\ LastOut' = LastOut
      BY <1>11, <3>1
    <3>3. CASE Shown.last
      <4>1. state' = "WAIT_TILL_DONE_DECODE" /\ Waiting'
        BY <1>10, <2>1, <3>3
      <4> QED BY <1>6, <1>9, <2>2, <3>1, <3>2, <3>3, <4>1
    <3>4. CASE ~Shown.last
      <4>1. state' = "SM_PACKET" /\ ~Waiting'
        BY <1>10, <2>1, <2>3, <3>4
      <4> QED BY <2>2, <3>1, <3>2, <3>4, <4>1
    <3> QED BY <3>3, <3>4
  <2>4. CASE state = "IN_PACKET"
    <3>1. /\ out' = Append(out, OutputWord) /\ ~tuple_pkt_en /\ ~LastOut.last
          /\ LastOut.pkt = w.pkt /\ LastOut.word + 1 = w.word
      BY <1>8, <2>1, <2>4
    <3>2. PICK x : x = OutputWord
      OBVIOUS
    <3>3. x = Shown
      <4>1. x = [Shown EXCEPT !.last = Shown.last]
        BY <2>1, <3>1, <3>2, Zenon DEF OutputWord
      <4>2. Shown \in OutWords
        BY <1>7, <2>1
      <4> QED BY <4>1, <4>2 DEF OutWords
    <3>4. x \in OutWords /\ x.pkt = w.pkt /\ x.word = w.word
      BY <1>7, <2>1, <3>3
    <3>5. Selects(LastOut, x)
      <4>1. x = WordAt(Place(LastOut.pkt, LastOut.word + 1))
        BY <1>7, <2>1, <3>1, <3>3 DEF WordAt, Place
      <4> QED BY <3>1, <4>1, Zenon DEF Selects
    <3>6. out' \in Seq(OutWords) /\ OnlySelected' /\ LastOut' = x
      BY <1>3, <1>8, <3>1, <3>2, <3>4, <3>5, OutGrows
    <3>7. CASE Shown.last
      <4>1. state' = "WAIT_TILL_DONE_DECODE" /\ Waiting' /\ x.last
        BY <1>10, <2>1, <3>3, <3>7
      <4>2. x.pkt < NextRead'.pkt /\ x.pkt = w.pkt /\ NextRead'.pkt = w.pkt + 1
        BY <1>6, <2>2, <3>4, <3>7
      <4>3. \A p \in matches : p <= x.pkt \/ NextRead'.pkt <= p
        BY <1>6, <1>9, <4>2
      <4> QED BY <3>6, <4>1, <4>2, <4>3
    <3>8. CASE ~Shown.last
      <4>1. state' = "IN_PACKET" /\ ~Waiting' /\ ~x.last
        BY <1>10, <2>1, <2>4, <3>3, <3>8
      <4> QED BY <2>2, <3>1, <3>4, <3>6, <3>8, <4>1
    <3> QED BY <3>7, <3>8
  <2> QED BY <1>10, <2>1, <2>3, <2>4
<1> QED BY <1>4, <1>12, <1>13, <1>14, <1>15

(* OnlySelected: what leaves is the matching packets, whole and in order,  *)
(* or one tuple for each, however many packets there are and whatever the  *)
(* timing, as long as the host leaves the tuple mode alone and does not    *)
(* clear force_drop.                                                       *)
THEOREM OnlySelectedLeaves ==
  ASSUME DropStays, TuplesStay PROVE Spec => []OnlySelected
<1>1. Init => Inv /\ Left
  BY InitInv
<1>2. Inv /\ Left /\ [Next]_vars => (Inv /\ Left)'
  <2> SUFFICES ASSUME Inv, Left, [Next]_vars PROVE (Inv /\ Left)'
    OBVIOUS
  <2>1. CASE Edge
    <3>1. PICK valid \in BOOLEAN, nf \in BOOLEAN, ready \in BOOLEAN : Clock(valid, nf, ready)
      BY <2>1 DEF Edge
    <3> QED BY <3>1, ClockKeeps, ClockKeepsLeft
  <2>2. CASE WriteControl \/ UNCHANGED vars
    <3>1. BetweenEdges
      BY <2>2, WriteBetweenEdges DEF Inv
    <3>2. Inv' /\ NextRead' = NextRead
      BY <3>1, WriteKeeps
    <3>3. tuple_pkt_en' = tuple_pkt_en
      <4>1. CASE WriteControl
        <5>1. PICK c \in Controls :
                /\ c.before = [force_drop |-> force_drop, tuple_pkt_en |-> tuple_pkt_en]
                /\ tuple_pkt_en' = c.after.tuple_pkt_en
          BY <4>1 DEF WriteControl
        <5>2. c.before.tuple_pkt_en = tuple_pkt_en
          BY <5>1
        <5> QED BY <5>1, <5>2, Zenon DEF TuplesStay
      <4>2. CASE UNCHANGED vars
        BY <4>2 DEF vars, control
      <4> QED BY <2>2, <4>1, <4>2
    <3>4. /\ UNCHANGED <<out, state, length, matches>>
          /\ ~force_drop' => ~force_drop
      BY <3>1 DEF BetweenEdges
    <3>5. OnlySelected' /\ LastOut' = LastOut /\ (Waiting' <=> Waiting)
      BY <3>3, <3>4, SMTT(40)
      DEF Left, OnlySelected, OutBefore, Selects, WordAt, Word, TupleWord, Place, None, LastOut,
          Waiting
    <3>6. Left'
      BY <3>2, <3>3, <3>4, <3>5, Zenon DEF Left
    <3> QED BY <3>2, <3>6
  <2> QED BY <2>1, <2>2 DEF Next
<1>3. Left => OnlySelected
  BY DEF Left
<1> QED BY <1>1, <1>2, <1>3, PTL DEF Spec
=============================================================================
