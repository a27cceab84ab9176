----------------------- MODULE FallthroughFifo_proofs -----------------------
(***************************************************************************)
(* For every ring size and every set of words, the FIFO hands out the      *)
(* words in the order they were written, none lost, none twice, and        *)
(* implements the bounded queue of AbstractFifo.                           *)
(***************************************************************************)
EXTENDS FallthroughFifo, SequenceTheorems, TLAPS

(* A slot the pointer arithmetic names is a slot of the ring.              *)
LEMMA WrapInSlots ==
  ASSUME NEW p \in Slots, NEW k \in 0 .. MAX_DEPTH
  PROVE  Wrap(p + k) \in Slots
BY DepthAssumption DEF Wrap, Slots

(* Counting the unread words from the slot after rd_ptr, or one further    *)
(* from rd_ptr, names the same slot.                                       *)
LEMMA WrapShift ==
  ASSUME NEW p \in Slots, NEW k \in 0 .. MAX_DEPTH - 1
  PROVE  Wrap(Wrap(p + 1) + k) = Wrap(p + (k + 1))
BY DepthAssumption DEF Wrap, Slots

(* Two different distances below the ring size name two different slots.   *)
LEMMA WrapInjective ==
  ASSUME NEW p \in Slots, NEW i \in 0 .. MAX_DEPTH - 1,
         NEW j \in 0 .. MAX_DEPTH - 1, i # j
  PROVE  Wrap(p + i) # Wrap(p + j)
BY DepthAssumption DEF Wrap, Slots

LEMMA InitInv == Init => FifoInv
<1> SUFFICES ASSUME Init PROVE FifoInv
  OBVIOUS
<1>1. TypeOK
  <2>1. rd_ptr \in Slots /\ wr_ptr \in Slots /\ depth \in 0 .. MAX_DEPTH
    BY DepthAssumption DEF Init, Slots
  <2>2. pushed \in Seq(Data) /\ popped \in Nat
    BY DEF Init
  <2>3. QED BY <2>1, <2>2 DEF Init, TypeOK
<1>2. NothingLost /\ RegistersInOrder
  BY DEF Init, NothingLost, RegistersInOrder, Staged, Bit
<1>3. RingInOrder
  BY DepthAssumption DEF Init, RingInOrder, Wrap
<1>4. QED BY <1>1, <1>2, <1>3 DEF FifoInv

(* An edge with reset high empties everything the invariant speaks of.     *)
LEMMA ResetInv ==
  ASSUME FifoInv, NEW wr_en \in BOOLEAN, NEW din \in Data, Reset(wr_en, din)
  PROVE  FifoInv'
<1>1. TypeOK'
  <2>1. rd_ptr' \in Slots /\ wr_ptr' \in Slots /\ depth' \in 0 .. MAX_DEPTH
    BY DepthAssumption DEF Reset, Slots
  <2>2. pushed' \in Seq(Data) /\ popped' \in Nat
    BY DEF Reset
  <2>3. queue' \in [Slots -> Data] /\ fifo_dout' \in Data
    BY DEF FifoInv, TypeOK, Reset
  <2>4. QED BY <2>1, <2>2, <2>3, ZeroAssumption DEF Reset, TypeOK
<1>2. NothingLost' /\ RegistersInOrder'
  BY DEF Reset, NothingLost, RegistersInOrder, Staged, Bit
<1>3. RingInOrder'
  BY DepthAssumption DEF Reset, RingInOrder, Wrap
<1>4. QED BY <1>1, <1>2, <1>3 DEF FifoInv

(* The valid bits after an edge, as propositions.                          *)
LEMMA EdgeOfStages ==
  ASSUME TypeOK, NEW rd_en \in BOOLEAN, StageEdge(rd_en)
  PROVE  LET wud == (middle_valid \/ fifo_valid) /\ (rd_en \/ ~dout_valid)
             wum == fifo_valid /\ (middle_valid <=> wud)
         IN /\ fifo_valid' <=> fifo_rd_en \/ (fifo_valid /\ ~(wum \/ wud))
            /\ middle_valid' <=> wum \/ (middle_valid /\ ~wud)
            /\ dout_valid' <=> wud \/ (dout_valid /\ ~rd_en)
BY Zenon DEF TypeOK, StageEdge, will_update_dout, will_update_middle

(* An edge without reset: the words move one place at most, and the ones   *)
(* that stay keep their distance from the reader.                          *)
LEMMA ClockInv ==
  ASSUME FifoInv, NEW wr_en \in BOOLEAN, NEW rd_en \in BOOLEAN,
         NEW din \in Data, Clock(wr_en, din, rd_en)
  PROVE  FifoInv'
<1> DEFINE pop == rd_en /\ dout_valid
           wud == (middle_valid \/ fifo_valid) /\ (rd_en \/ ~dout_valid)
           wum == fifo_valid /\ (middle_valid <=> wud)
<1> USE DEF FifoInv
<1>0. fifo_rd_en \in BOOLEAN /\ (fifo_rd_en => depth > 0)
  BY DEF fifo_rd_en, TypeOK
<1>1. TypeOK'
  <2>1. depth' \in 0 .. MAX_DEPTH
    <3>1. depth \in 0 .. MAX_DEPTH /\ (wr_en => depth # MAX_DEPTH)
      BY DEF Clock, TypeOK, full
    <3>2. depth' = depth + Bit(wr_en) - Bit(fifo_rd_en)
      BY DEF Clock, RingEdge
    <3>3. QED BY <1>0, <3>1, <3>2, DepthAssumption DEF Bit
  <2>2. rd_ptr' \in Slots /\ wr_ptr' \in Slots
    <3>1. Wrap(rd_ptr + 1) \in Slots /\ Wrap(wr_ptr + 1) \in Slots
      BY DepthAssumption, WrapInSlots DEF TypeOK
    <3>2. QED BY <3>1 DEF Clock, RingEdge, TypeOK
  <2>3. queue' \in [Slots -> Data] /\ fifo_dout' \in Data
    <3>1. [queue EXCEPT ![wr_ptr] = din] \in [Slots -> Data] /\ queue[rd_ptr] \in Data
      BY DEF TypeOK
    <3>2. QED BY <3>1 DEF Clock, RingEdge, TypeOK
  <2>4. /\ middle_dout' \in Data /\ dout' \in Data
        /\ fifo_valid' \in BOOLEAN /\ middle_valid' \in BOOLEAN
        /\ dout_valid' \in BOOLEAN
    BY DEF Clock, StageEdge, TypeOK
  <2>5. pushed' \in Seq(Data) /\ popped' \in Nat
    BY DEF Clock, TypeOK
  <2>6. QED BY <2>1, <2>2, <2>3, <2>4, <2>5 DEF TypeOK
<1>2. Staged' = Staged + Bit(fifo_rd_en) - Bit(pop)
  <2>1. /\ fifo_valid' <=> fifo_rd_en \/ (fifo_valid /\ ~(wum \/ wud))
        /\ middle_valid' <=> wum \/ (middle_valid /\ ~wud)
        /\ dout_valid' <=> wud \/ (dout_valid /\ ~rd_en)
    BY EdgeOfStages DEF Clock
  <2>2. fifo_rd_en => ~(middle_valid /\ dout_valid /\ fifo_valid)
    BY DEF fifo_rd_en
  <2>3. QED BY <2>1, <2>2 DEF Staged, Bit, RegistersInOrder
<1>3. /\ Len(pushed') = Len(pushed) + Bit(wr_en)
      /\ \A k \in 1 .. Len(pushed) : pushed'[k] = pushed[k]
      /\ wr_en => pushed'[Len(pushed) + 1] = din
  BY DEF Clock, Bit, TypeOK
<1>4. popped' = popped + Bit(pop)
  BY DEF Clock, Bit, TypeOK
<1>5. Staged \in Nat /\ depth \in Nat /\ popped \in Nat /\ Len(pushed) \in Nat
  BY DEF Staged, Bit, TypeOK
<1>6. depth' = depth + Bit(wr_en) - Bit(fifo_rd_en)
  BY DEF Clock, RingEdge
<1>7. NothingLost'
  <2>1. /\ Bit(wr_en) \in {0, 1} /\ Bit(fifo_rd_en) \in {0, 1}
        /\ Bit(pop) \in {0, 1}
    BY DEF Bit
  <2>2. depth + Staged = Len(pushed) - popped
    BY DEF NothingLost
  <2>3. PICK w \in {0, 1}, r \in {0, 1}, p \in {0, 1} :
            /\ depth' = depth + w - r /\ Staged' = Staged + r - p
            /\ Len(pushed') = Len(pushed) + w /\ popped' = popped + p
    BY <2>1, <1>2, <1>3, <1>4, <1>6, Zenon
  <2>4. depth' + Staged' = Len(pushed') - popped'
    BY <2>2, <2>3, <1>5
  <2>5. QED BY <2>4 DEF NothingLost
<1>8. /\ wum => middle_dout' = fifo_dout
      /\ ~wum => middle_dout' = middle_dout
      /\ wud /\ middle_valid => dout' = middle_dout
      /\ wud /\ ~middle_valid => dout' = fifo_dout
      /\ ~wud => dout' = dout
  <2>1. /\ wud = will_update_dout(rd_en)
        /\ wum <=> will_update_middle(rd_en)
    BY Zenon DEF will_update_dout, will_update_middle, TypeOK
  <2>2. QED BY <2>1, Zenon DEF Clock, StageEdge
<1>9. /\ fifo_valid' <=> fifo_rd_en \/ (fifo_valid /\ ~(wum \/ wud))
      /\ middle_valid' <=> wum \/ (middle_valid /\ ~wud)
      /\ dout_valid' <=> wud \/ (dout_valid /\ ~rd_en)
  BY EdgeOfStages DEF Clock
<1>10. /\ fifo_rd_en => fifo_dout' = queue[rd_ptr]
       /\ ~fifo_rd_en => fifo_dout' = fifo_dout
  BY <1>0 DEF Clock, RingEdge
<1>11. /\ pop => popped' = popped + 1
       /\ ~pop => popped' = popped
  BY <1>4, <1>5 DEF Bit
<1>12. \A k \in 1 .. popped + Staged + depth : pushed'[k] = pushed[k]
  BY <1>3, <1>5 DEF NothingLost
<1>13. RegistersInOrder'
  <2>1. middle_valid' => dout_valid'
    BY <1>9 DEF RegistersInOrder
  <2>2. dout_valid' => dout' = pushed'[popped' + 1]
    <3>1. CASE wud /\ middle_valid
      <4>1. pop /\ dout' = pushed[popped + 2] /\ Staged >= 2
        BY <3>1, <1>8 DEF RegistersInOrder, Staged, Bit
      <4>2. QED BY <4>1, <1>5, <1>11, <1>12
    <3>2. CASE wud /\ ~middle_valid
      <4>1. dout' = pushed[popped + Staged] /\ Staged = 1 + Bit(dout_valid)
        BY <3>2, <1>8 DEF RegistersInOrder, Staged, Bit
      <4>2. popped' = popped + Bit(dout_valid) /\ Bit(dout_valid) \in {0, 1}
        BY <3>2, <1>11, <1>5 DEF Bit
      <4>3. QED BY <4>1, <4>2, <1>5, <1>12
    <3>3. CASE ~wud
      <4>1. dout_valid' => ~pop /\ dout' = pushed[popped + 1] /\ Staged >= 1
        BY <3>3, <1>8, <1>9 DEF RegistersInOrder, Staged, Bit
      <4>2. QED BY <4>1, <1>5, <1>11, <1>12
    <3>4. QED BY <3>1, <3>2, <3>3
  <2>3. middle_valid' => middle_dout' = pushed'[popped' + 2]
    <3>1. CASE wum
      <4>1. middle_dout' = pushed[popped + Staged] /\ Staged \in {2, 3}
            /\ (Staged = 3 <=> pop)
        BY <3>1, <1>8 DEF RegistersInOrder, Staged, Bit
      <4>2. QED BY <4>1, <1>5, <1>11, <1>12
    <3>2. CASE ~wum
      <4>1. middle_valid' => ~pop /\ middle_dout' = pushed[popped + 2] /\ Staged >= 2
        BY <3>2, <1>8, <1>9 DEF RegistersInOrder, Staged, Bit
      <4>2. QED BY <4>1, <1>5, <1>11, <1>12
    <3>3. QED BY <3>1, <3>2
  <2>4. fifo_valid' => fifo_dout' = pushed'[popped' + Staged']
    <3>1. CASE fifo_rd_en
      <4>1. queue[Wrap(rd_ptr + 0)] = pushed[popped + Staged + 0 + 1] /\ depth > 0
        BY <3>1, <1>0, <1>5 DEF RingInOrder
      <4>2. Wrap(rd_ptr + 0) = rd_ptr
        BY DepthAssumption DEF Wrap, TypeOK, Slots
      <4>3. popped' + Staged' = popped + Staged + 1
        BY <3>1, <1>2, <1>4, <1>5 DEF Bit
      <4>4. QED BY <3>1, <4>1, <4>2, <4>3, <1>5, <1>10, <1>12
    <3>2. CASE ~fifo_rd_en
      <4>1. fifo_valid' => /\ ~pop /\ Staged >= 1
                           /\ fifo_dout' = pushed[popped + Staged]
        BY <3>2, <1>9, <1>10 DEF RegistersInOrder, Staged, Bit
      <4>2. fifo_valid' => Staged' = Staged
        BY <3>2, <4>1, <1>2, <1>5 DEF Bit
      <4>3. QED BY <4>1, <4>2, <1>5, <1>11, <1>12
    <3>3. QED BY <3>1, <3>2
  <2>5. QED BY <2>1, <2>2, <2>3, <2>4 DEF RegistersInOrder
<1>14. \A j \in 0 .. depth + Bit(wr_en) - 1 :
         queue'[Wrap(rd_ptr + j)] = pushed'[popped + Staged + j + 1]
  <2> SUFFICES ASSUME NEW j \in 0 .. depth + Bit(wr_en) - 1
               PROVE  queue'[Wrap(rd_ptr + j)] = pushed'[popped + Staged + j + 1]
    OBVIOUS
  <2>0. /\ queue \in [Slots -> Data] /\ rd_ptr \in Slots /\ wr_ptr \in Slots
        /\ depth \in 0 .. MAX_DEPTH
    BY DEF TypeOK
  <2>1. wr_ptr = Wrap(rd_ptr + depth)
    BY DEF RingInOrder
  <2>2. wr_en => depth # MAX_DEPTH /\ queue' = [queue EXCEPT ![wr_ptr] = din]
    BY DEF Clock, RingEdge, full
  <2>3. CASE j < depth
    <3>1. j \in 0 .. depth - 1 /\ j \in 0 .. MAX_DEPTH - 1 /\ j \in 0 .. MAX_DEPTH
      BY <2>3, <2>0, DepthAssumption DEF Bit
    <3>2. queue[Wrap(rd_ptr + j)] = pushed[popped + Staged + j + 1]
      BY <3>1 DEF RingInOrder
    <3>3. pushed'[popped + Staged + j + 1] = pushed[popped + Staged + j + 1]
      BY <3>1, <1>5, <1>12
    <3>4. Wrap(rd_ptr + j) \in Slots
      BY <3>1, <2>0, WrapInSlots
    <3>5. wr_en => Wrap(rd_ptr + j) # wr_ptr
      <4> SUFFICES ASSUME wr_en PROVE Wrap(rd_ptr + j) # wr_ptr
        OBVIOUS
      <4>1. depth \in 0 .. MAX_DEPTH - 1
        BY <2>0, <2>2, DepthAssumption
      <4>2. QED BY <4>1, <3>1, <2>0, <2>1, <2>3, WrapInjective
    <3>6. queue'[Wrap(rd_ptr + j)] = queue[Wrap(rd_ptr + j)]
      <4>1. ~wr_en => queue' = queue
        BY DEF Clock, RingEdge
      <4>2. QED BY <4>1, <2>0, <2>2, <3>4, <3>5
    <3>7. QED BY <3>2, <3>3, <3>6
  <2>4. CASE ~(j < depth)
    <3>1. wr_en /\ j = depth
      BY <2>4, <2>0 DEF Bit
    <3>2. queue'[Wrap(rd_ptr + j)] = din
      BY <3>1, <2>0, <2>1, <2>2
    <3>3. popped + Staged + j + 1 = Len(pushed) + 1
      BY <3>1, <1>5 DEF NothingLost
    <3>4. QED BY <3>1, <3>2, <3>3, <1>3
  <2>5. QED BY <2>3, <2>4
<1>15. wr_ptr' = Wrap(rd_ptr' + depth')
  <2>1. /\ rd_ptr \in Slots /\ depth \in 0 .. MAX_DEPTH
        /\ wr_ptr = Wrap(rd_ptr + depth)
        /\ wr_en => depth # MAX_DEPTH
    BY DEF TypeOK, RingInOrder, Clock, full
  <2>2. /\ wr_ptr' = IF wr_en THEN Wrap(wr_ptr + 1) ELSE wr_ptr
        /\ rd_ptr' = IF fifo_rd_en THEN Wrap(rd_ptr + 1) ELSE rd_ptr
    BY DEF Clock, RingEdge
  <2>3. QED BY <2>1, <2>2, <1>0, <1>6, DepthAssumption DEF Wrap, Slots, Bit
<1>16. ASSUME NEW i \in 0 .. depth' - 1
       PROVE  queue'[Wrap(rd_ptr' + i)] = pushed'[popped' + Staged' + i + 1]
  <2>1. popped' + Staged' = popped + Staged + Bit(fifo_rd_en)
    <3>1. /\ Bit(fifo_rd_en) \in {0, 1}
          /\ Bit(pop) \in {0, 1}
      BY DEF Bit
    <3>2. PICK r \in {0, 1}, p \in {0, 1} :
            r = Bit(fifo_rd_en) /\ Staged' = Staged + r - p /\ popped' = popped + p
      BY <3>1, <1>2, <1>4, Zenon
    <3>3. QED BY <3>2, <1>5
  <2>2. CASE fifo_rd_en
    <3>1. /\ i + 1 \in 0 .. depth + Bit(wr_en) - 1
          /\ i \in 0 .. MAX_DEPTH - 1
      BY <2>2, <1>1, <1>5, <1>6, DepthAssumption DEF Bit, TypeOK
    <3>2. rd_ptr' = Wrap(rd_ptr + 1)
      BY <2>2 DEF Clock, RingEdge
    <3>3. Wrap(rd_ptr' + i) = Wrap(rd_ptr + (i + 1))
      BY <3>1, <3>2, WrapShift DEF TypeOK
    <3>4. popped' + Staged' + i + 1 = popped + Staged + (i + 1) + 1
      BY <2>1, <2>2, <1>5 DEF Bit
    <3>5. QED BY <3>1, <3>3, <3>4, <1>14
  <2>3. CASE ~fifo_rd_en
    <3>1. i \in 0 .. depth + Bit(wr_en) - 1
      BY <2>3, <1>5, <1>6 DEF Bit
    <3>2. rd_ptr' = rd_ptr
      BY <2>3 DEF Clock, RingEdge
    <3>3. popped' + Staged' + i + 1 = popped + Staged + i + 1
      BY <2>1, <2>3, <1>5 DEF Bit
    <3>4. QED BY <3>1, <3>2, <3>3, <1>14
  <2>4. QED BY <2>2, <2>3
<1>17. RingInOrder'
  BY <1>15, <1>16 DEF RingInOrder
<1>18. QED BY <1>1, <1>7, <1>13, <1>17

-----------------------------------------------------------------------------
(* The invariant holds in every reachable state: the initial states have   *)
(* it and both kinds of clock edge keep it.                                *)
THEOREM FifoInvariant == Spec => []FifoInv
<1>1. FifoInv /\ [Next]_vars => FifoInv'
  <2> SUFFICES ASSUME FifoInv, [Next]_vars PROVE FifoInv'
    OBVIOUS
  <2>1. ASSUME NEW wr_en \in BOOLEAN, NEW rd_en \in BOOLEAN, NEW din \in Data,
               Clock(wr_en, din, rd_en)
        PROVE  FifoInv'
    BY <2>1, ClockInv
  <2>2. ASSUME NEW wr_en \in BOOLEAN, NEW din \in Data, Reset(wr_en, din)
        PROVE  FifoInv'
    BY <2>2, ResetInv
  <2>3. CASE UNCHANGED vars
    BY <2>3 DEF vars, ring, stages, FifoInv, TypeOK, NothingLost, Staged,
                RegistersInOrder, RingInOrder
  <2>4. QED BY <2>1, <2>2, <2>3 DEF Next
<1>2. QED BY <1>1, InitInv, PTL DEF Spec

(* fallthrough_small_fifo.v delivers the words in the order of writing,    *)
(* whatever the reader and the writer do.                                  *)
THEOREM FifoOrder == Spec => []InOrder
<1>1. FifoInv => InOrder
  <2> SUFFICES ASSUME FifoInv, dout_valid
               PROVE  popped < Len(pushed) /\ dout = pushed[popped + 1]
    BY DEF InOrder
  <2>1. Staged >= 1 /\ Staged \in Nat /\ depth \in Nat /\ popped \in Nat
    BY DEF FifoInv, TypeOK, Staged, Bit
  <2>2. QED BY <2>1 DEF FifoInv, TypeOK, NothingLost, RegistersInOrder
<1>2. QED BY <1>1, FifoInvariant, PTL

(* The depth counter and the valid bits account for every unread word.     *)
THEOREM FifoKeepsAll == Spec => []NothingLost
<1>1. FifoInv => NothingLost
  BY DEF FifoInv
<1>2. QED BY <1>1, FifoInvariant, PTL

(* The registers keep their types: no pointer leaves the ring and depth    *)
(* never exceeds the ring size.                                            *)
THEOREM FifoTypes == Spec => []TypeOK
<1>1. FifoInv => TypeOK
  BY DEF FifoInv
<1>2. QED BY <1>1, FifoInvariant, PTL

-----------------------------------------------------------------------------
(* The refinement of AbstractFifo: the ring and the registers together     *)
(* hold the words written and not yet read, oldest first.                  *)
Unread == SubSeq(pushed, popped + 1, Len(pushed))

(* One register of the wrapper as a sequence of at most one word.          *)
LEMMA RegisterAsSequence ==
  ASSUME NEW b \in BOOLEAN, NEW w \in Data
  PROVE  /\ If(b, w) \in Seq(Data) /\ Len(If(b, w)) = Bit(b)
         /\ b => If(b, w)[1] = w
BY DEF If, Bit

(* Two sequences end to end, and one extended by a word, place by place.   *)
EndToEnd(S, s, t) ==
  /\ s \o t \in Seq(S) /\ Len(s \o t) = Len(s) + Len(t)
  /\ \A i \in 1 .. Len(s) + Len(t) :
       (s \o t)[i] = IF i <= Len(s) THEN s[i] ELSE t[i - Len(s)]

Extended(S, s, e) ==
  /\ Append(s, e) \in Seq(S) /\ Len(Append(s, e)) = Len(s) + 1
  /\ Append(s, e)[Len(s) + 1] = e
  /\ \A i \in 1 .. Len(s) : Append(s, e)[i] = s[i]

LEMMA SequencePlaces ==
  ASSUME NEW S
  PROVE  /\ \A s, t \in Seq(S) : EndToEnd(S, s, t)
         /\ \A s \in Seq(S), e \in S : Extended(S, s, e)
         /\ \A s \in Seq(S) : Len(s) \in Nat /\ \A i \in 1 .. Len(s) : s[i] \in S
<1>1. \A s, t \in Seq(S) : EndToEnd(S, s, t)
  BY ConcatProperties DEF EndToEnd
<1>2. \A s \in Seq(S), e \in S : Extended(S, s, e)
  BY AppendProperties DEF Extended
<1>3. \A s \in Seq(S) : Len(s) \in Nat /\ \A i \in 1 .. Len(s) : s[i] \in S
  BY LenProperties, ElementOfSeq
<1>4. QED BY <1>1, <1>2, <1>3

(* The word at a place of four sequences put end to end.                   *)
FourInARow(S, a, b, c, d) ==
  LET s == a \o b \o c \o d
      n == Len(a) + Len(b) + Len(c) + Len(d)
  IN /\ s \in Seq(S) /\ Len(s) = n
     /\ \A i \in 1 .. n :
          /\ i <= Len(a) => s[i] = a[i]
          /\ i > Len(a) /\ i <= Len(a) + Len(b) => s[i] = b[i - Len(a)]
          /\ i > Len(a) + Len(b) /\ i <= Len(a) + Len(b) + Len(c)
               => s[i] = c[i - Len(a) - Len(b)]
          /\ i > Len(a) + Len(b) + Len(c)
               => s[i] = d[i - Len(a) - Len(b) - Len(c)]

LEMMA FourPlaces ==
  ASSUME NEW S, NEW a \in Seq(S), NEW b \in Seq(S), NEW c \in Seq(S), NEW d \in Seq(S)
  PROVE  FourInARow(S, a, b, c, d)
<1> DEFINE ab == a \o b  abc == ab \o c  s == abc \o d
<1>1. Len(a) \in Nat /\ Len(b) \in Nat /\ Len(c) \in Nat /\ Len(d) \in Nat
  BY SequencePlaces
<1>2. EndToEnd(S, a, b)
  BY SequencePlaces
<1>3. /\ ab \in Seq(S) /\ Len(ab) = Len(a) + Len(b)
      /\ \A k \in 1 .. Len(a) + Len(b) :
           ab[k] = IF k <= Len(a) THEN a[k] ELSE b[k - Len(a)]
  BY <1>2, Zenon DEF EndToEnd
<1> HIDE DEF ab
<1>4. EndToEnd(S, ab, c)
  BY <1>3, SequencePlaces, Zenon
<1>5. /\ abc \in Seq(S) /\ Len(abc) = Len(ab) + Len(c)
      /\ \A k \in 1 .. Len(ab) + Len(c) :
           abc[k] = IF k <= Len(ab) THEN ab[k] ELSE c[k - Len(ab)]
  BY <1>4, Zenon DEF EndToEnd
<1> HIDE DEF abc
<1>6. EndToEnd(S, abc, d)
  BY <1>5, SequencePlaces, Zenon
<1>7. /\ s \in Seq(S) /\ Len(s) = Len(abc) + Len(d)
      /\ \A k \in 1 .. Len(abc) + Len(d) :
           s[k] = IF k <= Len(abc) THEN abc[k] ELSE d[k - Len(abc)]
  BY <1>6, Zenon DEF EndToEnd
<1> HIDE DEF s
<1>8. Len(s) = Len(a) + Len(b) + Len(c) + Len(d)
  BY <1>1, <1>3, <1>5, <1>7
<1>9. ASSUME NEW i \in 1 .. Len(a) + Len(b) + Len(c) + Len(d)
      PROVE  /\ i <= Len(a) => s[i] = a[i]
             /\ i > Len(a) /\ i <= Len(a) + Len(b) => s[i] = b[i - Len(a)]
             /\ i > Len(a) + Len(b) /\ i <= Len(a) + Len(b) + Len(c)
                  => s[i] = c[i - Len(a) - Len(b)]
             /\ i > Len(a) + Len(b) + Len(c)
                  => s[i] = d[i - Len(a) - Len(b) - Len(c)]
  <2>1. CASE i <= Len(a)
    <3>1. i \in 1 .. Len(ab) /\ i \in 1 .. Len(abc) /\ s[i] = ab[i]
      BY <1>1, <1>3, <1>5, <1>7, <2>1
    <3>2. ab[i] = a[i]
      BY <1>1, <1>3, <2>1
    <3>3. QED BY <1>1, <2>1, <3>1, <3>2
  <2>2. CASE i > Len(a) /\ i <= Len(a) + Len(b)
    <3>1. i \in 1 .. Len(ab) /\ i \in 1 .. Len(abc) /\ s[i] = ab[i]
      BY <1>1, <1>3, <1>5, <1>7, <2>2
    <3>2. ab[i] = b[i - Len(a)]
      BY <1>1, <1>3, <2>2
    <3>3. QED BY <1>1, <2>2, <3>1, <3>2
  <2>3. CASE i > Len(a) + Len(b) /\ i <= Len(a) + Len(b) + Len(c)
    <3>1. i \in 1 .. Len(abc) /\ s[i] = abc[i]
      BY <1>1, <1>3, <1>5, <1>7, <2>3
    <3>2. abc[i] = c[i - Len(ab)] /\ i - Len(ab) = i - Len(a) - Len(b)
      BY <1>1, <1>3, <1>5, <2>3
    <3>3. QED BY <1>1, <2>3, <3>1, <3>2, SMTT(40)
  <2>4. CASE i > Len(a) + Len(b) + Len(c)
    <3>1. /\ i \in 1 .. Len(abc) + Len(d) /\ ~(i <= Len(abc))
          /\ i - Len(abc) = i - Len(a) - Len(b) - Len(c)
      BY <1>1, <1>3, <1>5, <2>4
    <3>2. s[i] = d[i - Len(abc)]
      BY <1>7, <3>1
    <3>3. QED BY <1>1, <2>4, <3>1, <3>2
  <2>5. QED BY <1>1, <2>1, <2>2, <2>3, <2>4
<1>10. s = a \o b \o c \o d
  BY Zenon DEF s, abc, ab
<1>11. QED BY <1>7, <1>8, <1>9, <1>10, Zenon DEF FourInARow

(* What the registers and the ring hold is what was written and not read.  *)
LEMMA ContentsAreUnread ==
  FifoInv => /\ Contents = Unread /\ Unread \in Seq(Data)
             /\ Len(Unread) = Len(pushed) - popped
<1> SUFFICES ASSUME FifoInv
             PROVE  /\ Contents = Unread /\ Unread \in Seq(Data)
                    /\ Len(Unread) = Len(pushed) - popped
  OBVIOUS
<1> DEFINE a == If(dout_valid, dout)
           b == If(middle_valid, middle_dout)
           c == If(fifo_valid, fifo_dout)
           d == [i \in 1 .. depth |-> queue[Wrap(rd_ptr + i - 1)]]
<1>0. TypeOK /\ NothingLost /\ RegistersInOrder /\ RingInOrder
  BY DEF FifoInv
<1>1. /\ depth \in Nat /\ popped \in Nat /\ Len(pushed) \in Nat /\ pushed \in Seq(Data)
      /\ Staged \in Nat /\ popped + Staged + depth = Len(pushed)
  BY <1>0, LenProperties DEF TypeOK, NothingLost, Staged, Bit
<1>2. /\ a \in Seq(Data) /\ Len(a) = Bit(dout_valid) /\ (dout_valid => a[1] = dout)
      /\ b \in Seq(Data) /\ Len(b) = Bit(middle_valid) /\ (middle_valid => b[1] = middle_dout)
      /\ c \in Seq(Data) /\ Len(c) = Bit(fifo_valid) /\ (fifo_valid => c[1] = fifo_dout)
  BY <1>0, RegisterAsSequence DEF TypeOK
<1>3. /\ d \in Seq(Data) /\ Len(d) = depth
      /\ \A i \in 1 .. depth : d[i] = pushed[popped + Staged + i]
  <2>1. ASSUME NEW i \in 1 .. depth
        PROVE  /\ queue[Wrap(rd_ptr + i - 1)] \in Data
               /\ queue[Wrap(rd_ptr + i - 1)] = pushed[popped + Staged + i]
    <3>1. /\ i - 1 \in 0 .. depth - 1 /\ i - 1 \in 0 .. MAX_DEPTH /\ rd_ptr \in Slots
          /\ rd_ptr + i - 1 = rd_ptr + (i - 1)
      BY <1>0, <1>1, DepthAssumption DEF TypeOK, Slots
    <3>2. queue[Wrap(rd_ptr + (i - 1))] = pushed[popped + Staged + (i - 1) + 1]
      BY <1>0, <3>1 DEF RingInOrder
    <3>3. popped + Staged + (i - 1) + 1 = popped + Staged + i
      BY <1>1
    <3>4. Wrap(rd_ptr + (i - 1)) \in Slots
      BY <3>1, WrapInSlots
    <3>5. QED BY <1>0, <3>1, <3>2, <3>3, <3>4 DEF TypeOK
  <2>2. d \in [1 .. depth -> Data]
    BY <2>1
  <2>3. d \in Seq(Data) /\ Len(d) = depth
    BY <1>1, <2>2
  <2>4. QED BY <2>1, <2>3
<1> HIDE DEF a, b, c, d
<1>4. Contents = a \o b \o c \o d
  BY Zenon DEF Contents, a, b, c, d
<1>5. /\ Unread \in Seq(Data) /\ Len(Unread) = Len(pushed) - popped
      /\ \A i \in 1 .. Len(pushed) - popped : Unread[i] = pushed[popped + i]
  <2>1. \A i \in popped + 1 .. Len(pushed) : pushed[i] \in Data
    BY <1>1, ElementOfSeq
  <2>2. /\ Unread \in Seq(Data)
        /\ Len(Unread) = IF popped + 1 <= Len(pushed)
                           THEN Len(pushed) - (popped + 1) + 1 ELSE 0
        /\ \A i \in 1 .. Len(pushed) - (popped + 1) + 1 :
             Unread[i] = pushed[popped + 1 + i - 1]
    BY <1>1, <2>1, SubSeqProperties DEF Unread
  <2>3. QED BY <1>1, <2>2
<1>6. Staged = Len(a) + Len(b) + Len(c)
  BY <1>2 DEF Staged, Bit
<1>7. /\ Len(a) + Len(b) + Len(c) + Len(d) = Len(pushed) - popped
      /\ Len(a) \in {0, 1} /\ Len(b) \in {0, 1} /\ Len(c) \in {0, 1}
  BY <1>1, <1>2, <1>3, <1>6 DEF Bit
<1>8. ASSUME NEW i \in 1 .. Len(pushed) - popped
      PROVE  Contents[i] = pushed[popped + i]
  <2>1. i \in 1 .. Len(a) + Len(b) + Len(c) + Len(d)
    BY <1>7
  <2>2. /\ i <= Len(a) => Contents[i] = a[i]
        /\ i > Len(a) /\ i <= Len(a) + Len(b) => Contents[i] = b[i - Len(a)]
        /\ i > Len(a) + Len(b) /\ i <= Len(a) + Len(b) + Len(c)
             => Contents[i] = c[i - Len(a) - Len(b)]
        /\ i > Len(a) + Len(b) + Len(c)
             => Contents[i] = d[i - Len(a) - Len(b) - Len(c)]
    <3>1. FourInARow(Data, a, b, c, d)
      BY <1>2, <1>3, FourPlaces
    <3>2. QED BY <1>4, <2>1, <3>1, Zenon DEF FourInARow
  <2>3. CASE i <= Len(a)
    <3>1. dout_valid /\ i = 1
      BY <1>2, <1>7, <2>3 DEF Bit
    <3>2. QED BY <1>0, <1>2, <2>2, <2>3, <3>1 DEF RegistersInOrder
  <2>4. CASE i > Len(a) /\ i <= Len(a) + Len(b)
    <3>1. middle_valid /\ dout_valid /\ i = 2 /\ i - Len(a) = 1
      BY <1>0, <1>2, <1>7, <2>4 DEF Bit, RegistersInOrder
    <3>2. QED BY <1>0, <1>2, <2>2, <2>4, <3>1 DEF RegistersInOrder
  <2>5. CASE i > Len(a) + Len(b) /\ i <= Len(a) + Len(b) + Len(c)
    <3>1. fifo_valid /\ i = Staged /\ i - Len(a) - Len(b) = 1
      BY <1>2, <1>6, <1>7, <2>5 DEF Bit
    <3>2. QED BY <1>0, <1>2, <2>2, <2>5, <3>1 DEF RegistersInOrder
  <2>6. CASE i > Len(a) + Len(b) + Len(c)
    <3>1. /\ i - Len(a) - Len(b) - Len(c) \in 1 .. depth
          /\ popped + Staged + (i - Len(a) - Len(b) - Len(c)) = popped + i
      BY <1>1, <1>3, <1>6, <1>7, <2>6
    <3>2. QED BY <1>3, <2>2, <2>6, <3>1
  <2>7. QED BY <1>7, <2>3, <2>4, <2>5, <2>6
<1>9. Contents \in Seq(Data) /\ Len(Contents) = Len(pushed) - popped
  <2>1. FourInARow(Data, a, b, c, d)
    BY <1>2, <1>3, FourPlaces
  <2>2. /\ Contents \in Seq(Data)
        /\ Len(Contents) = Len(a) + Len(b) + Len(c) + Len(d)
    BY <1>4, <2>1, Zenon DEF FourInARow
  <2>3. QED BY <1>7, <2>2
<1>10. Contents = Unread
  <2>1. \A i \in 1 .. Len(Contents) : Contents[i] = Unread[i]
    BY <1>5, <1>8, <1>9
  <2>2. QED BY <1>5, <1>9, <2>1, SeqEqual
<1>11. QED BY <1>5, <1>10

(* A write appends to what is unread.                                      *)
LEMMA RestOfAppend ==
  ASSUME NEW S, NEW s \in Seq(S), NEW e \in S, NEW m \in 1 .. Len(s) + 1
  PROVE  SubSeq(Append(s, e), m, Len(s) + 1) = Append(SubSeq(s, m, Len(s)), e)
<1> DEFINE t == Append(s, e)  u == SubSeq(t, m, Len(s) + 1)
           v == SubSeq(s, m, Len(s))  w == Append(v, e)
<1>1. /\ t \in Seq(S) /\ Len(t) = Len(s) + 1 /\ Len(s) \in Nat
      /\ t[Len(s) + 1] = e /\ \A i \in 1 .. Len(s) : t[i] = s[i]
  <2>1. Extended(S, s, e) /\ Len(s) \in Nat
    BY SequencePlaces
  <2>2. QED BY <2>1, Zenon DEF Extended
<1>2. \A i \in m .. Len(s) : s[i] \in S
  BY <1>1, ElementOfSeq
<1>3. \A i \in m .. Len(s) + 1 : t[i] \in S
  BY <1>1, <1>2
<1> HIDE DEF t
<1>4. /\ u \in Seq(S) /\ Len(u) = Len(s) + 2 - m
      /\ \A i \in 1 .. Len(s) + 2 - m : u[i] = t[m + i - 1]
  <2>1. /\ u \in Seq(S)
        /\ Len(u) = IF m <= Len(s) + 1 THEN Len(s) + 1 - m + 1 ELSE 0
        /\ \A i \in 1 .. Len(s) + 1 - m + 1 : u[i] = t[m + i - 1]
    BY <1>1, <1>3, SubSeqProperties
  <2>2. QED BY <1>1, <2>1
<1>5. /\ v \in Seq(S) /\ Len(v) = Len(s) + 1 - m
      /\ \A i \in 1 .. Len(s) + 1 - m : v[i] = s[m + i - 1]
  <2>1. /\ v \in Seq(S)
        /\ Len(v) = IF m <= Len(s) THEN Len(s) - m + 1 ELSE 0
        /\ \A i \in 1 .. Len(s) - m + 1 : v[i] = s[m + i - 1]
    BY <1>1, <1>2, SubSeqProperties
  <2>2. QED BY <1>1, <2>1
<1> HIDE DEF u, v
<1>6. /\ w \in Seq(S) /\ Len(w) = Len(v) + 1
      /\ w[Len(v) + 1] = e /\ \A i \in 1 .. Len(v) : w[i] = v[i]
  <2>1. Extended(S, v, e)
    BY <1>5, SequencePlaces, Zenon
  <2>2. QED BY <2>1, Zenon DEF Extended
<1> HIDE DEF w
<1>7. Len(u) = Len(w) /\ Len(v) \in Nat
  BY <1>1, <1>4, <1>5, <1>6
<1>8. u = w
  <2>1. ASSUME NEW i \in 1 .. Len(u) PROVE u[i] = w[i]
    <3>1. CASE i = Len(u)
      <4>1. m + i - 1 = Len(s) + 1 /\ i = Len(v) + 1
        BY <1>1, <1>4, <1>5, <3>1
      <4>2. QED BY <1>1, <1>4, <1>6, <4>1
    <3>2. CASE i # Len(u)
      <4>1. i \in 1 .. Len(v) /\ m + i - 1 \in 1 .. Len(s)
        <5>1. PICK n \in Nat, k \in Nat : n = Len(s) /\ k = m /\ k >= 1 /\ k <= n + 1
          BY <1>1
        <5>2. i \in 1 .. n + 2 - k /\ i # n + 2 - k /\ Len(v) = n + 1 - k
          BY <1>4, <1>5, <3>2, <5>1
        <5>3. i \in 1 .. n + 1 - k /\ k + i - 1 \in 1 .. n
          BY <5>1, <5>2
        <5>4. QED BY <5>1, <5>2, <5>3
      <4>2. QED BY <1>1, <1>4, <1>5, <1>6, <4>1
    <3>3. QED BY <3>1, <3>2
  <2>2. QED BY <1>4, <1>6, <1>7, <2>1, SeqEqual
<1>9. QED BY <1>8 DEF u, w, v, t

(* A read takes the oldest of what is unread.                              *)
LEMMA RestOfTail ==
  ASSUME NEW S, NEW s \in Seq(S), NEW m \in 1 .. Len(s)
  PROVE  Tail(SubSeq(s, m, Len(s))) = SubSeq(s, m + 1, Len(s))
<1>1. Len(s) \in m .. Len(s)
  BY LenProperties
<1>2. QED BY <1>1, HeadTailOfSubSeq

(* An edge without reset is a step of the queue: a write, a read, both, or *)
(* a move between the registers that its user cannot see.                  *)
LEMMA ClockIsQueueStep ==
  ASSUME FifoInv, FifoInv', NEW wr_en \in BOOLEAN, NEW rd_en \in BOOLEAN,
         NEW din \in Data, Clock(wr_en, din, rd_en)
  PROVE  [Queue!Next]_Contents
<1>1. /\ Contents = Unread /\ Unread \in Seq(Data) /\ Len(Unread) = Len(pushed) - popped
      /\ Contents' = Unread'
  <2>1. Contents = Unread /\ Unread \in Seq(Data) /\ Len(Unread) = Len(pushed) - popped
    BY ContentsAreUnread
  <2>2. (Contents = Unread)'
    BY ContentsAreUnread, PTL
  <2>3. QED BY <2>1, <2>2
<1>2. /\ pushed' = IF wr_en THEN Append(pushed, din) ELSE pushed
      /\ popped' = IF rd_en /\ dout_valid THEN popped + 1 ELSE popped
  BY DEF Clock
<1>3. /\ pushed \in Seq(Data) /\ Len(pushed) \in Nat /\ popped \in Nat
      /\ depth + Staged = Len(pushed) - popped /\ depth \in Nat /\ Staged \in 0 .. 3
      /\ dout_valid => Staged > 0
      /\ wr_en => depth < MAX_DEPTH
  BY LenProperties, DepthAssumption
     DEF FifoInv, TypeOK, NothingLost, Staged, Bit, Clock, full
<1>4. /\ popped + 1 \in 1 .. Len(pushed) + 1
      /\ dout_valid => popped + 1 \in 1 .. Len(pushed) /\ popped + 2 \in 1 .. Len(pushed) + 1
      /\ wr_en => Len(Append(pushed, din)) = Len(pushed) + 1
  BY <1>3, AppendProperties
<1>5. dout_valid => Unread # <<>> /\ Tail(Unread) = SubSeq(pushed, popped + 2, Len(pushed))
  <2> SUFFICES ASSUME dout_valid
               PROVE  Unread # <<>> /\ Tail(Unread) = SubSeq(pushed, popped + 2, Len(pushed))
    OBVIOUS
  <2>1. Len(Unread) > 0 /\ Unread # <<>>
    BY <1>1, <1>3
  <2>2. Tail(SubSeq(pushed, popped + 1, Len(pushed)))
          = SubSeq(pushed, (popped + 1) + 1, Len(pushed))
    BY <1>3, <1>4, RestOfTail
  <2>3. (popped + 1) + 1 = popped + 2
    BY <1>3
  <2>4. QED BY <2>1, <2>2, <2>3 DEF Unread
<1>6. CASE wr_en /\ ~(rd_en /\ dout_valid)
  <2>1. Unread' = Append(Unread, din)
    <3>1. Unread' = SubSeq(Append(pushed, din), popped + 1, Len(pushed) + 1)
      BY <1>2, <1>4, <1>6 DEF Unread
    <3>2. QED BY <1>3, <1>4, <3>1, RestOfAppend DEF Unread
  <2>2. Len(Contents) < MAX_DEPTH + 3
    BY <1>1, <1>3, <1>6, DepthAssumption
  <2>3. Queue!Put
    BY <1>1, <2>1, <2>2 DEF Queue!Put
  <2>4. QED BY <2>3 DEF Queue!Next
<1>7. CASE wr_en /\ rd_en /\ dout_valid
  <2>1. Unread' = Append(Tail(Unread), din)
    <3>1. Unread' = SubSeq(Append(pushed, din), popped + 2, Len(pushed) + 1)
      <4>1. popped' = popped + 1 /\ pushed' = Append(pushed, din) /\ popped' + 1 = popped + 2
        BY <1>2, <1>3, <1>7
      <4>2. QED BY <4>1, <1>4, <1>7 DEF Unread
    <3>2. QED BY <1>3, <1>4, <1>5, <1>7, <3>1, RestOfAppend
  <2>2. Queue!PutAndGet
    BY <1>1, <1>5, <1>7, <2>1 DEF Queue!PutAndGet
  <2>3. QED BY <2>2 DEF Queue!Next
<1>8. CASE ~wr_en /\ rd_en /\ dout_valid
  <2>1. Unread' = Tail(Unread)
    <3>1. popped' + 1 = popped + 2 /\ pushed' = pushed
      BY <1>2, <1>3, <1>8
    <3>2. QED BY <3>1, <1>5, <1>8 DEF Unread
  <2>2. Queue!Get
    BY <1>1, <1>5, <1>8, <2>1 DEF Queue!Get
  <2>3. QED BY <2>2 DEF Queue!Next
<1>9. CASE ~wr_en /\ ~(rd_en /\ dout_valid)
  <2>1. Unread' = Unread
    BY <1>2, <1>9 DEF Unread
  <2>2. QED BY <1>1, <2>1
<1>10. QED BY <1>6, <1>7, <1>8, <1>9

(* small_fifo.v and the two registers fallthrough_small_fifo.v puts behind *)
(* it are, to the cores that use them, one queue of MAX_DEPTH + 3 words    *)
(* that a clock edge extends, shortens or both, and a reset empties.       *)
THEOREM FifoImplementsQueue == Spec => ImplementsQueue
<1>1. Init => Queue!Init
  <2> SUFFICES ASSUME Init PROVE Contents = <<>>
    BY DEF Queue!Init
  <2>1. Contents = Unread /\ Unread \in Seq(Data) /\ Len(Unread) = Len(pushed) - popped
    BY InitInv, ContentsAreUnread
  <2>2. Len(pushed) = 0 /\ popped = 0
    BY DEF Init
  <2>3. QED BY <2>1, <2>2, EmptySeq
<1>2. FifoInv /\ FifoInv' /\ [Next]_vars => [Queue!Next]_Contents
  <2> SUFFICES ASSUME FifoInv, FifoInv', [Next]_vars PROVE [Queue!Next]_Contents
    OBVIOUS
  <2>1. ASSUME NEW wr_en \in BOOLEAN, NEW rd_en \in BOOLEAN, NEW din \in Data,
               Clock(wr_en, din, rd_en)
        PROVE  [Queue!Next]_Contents
    BY <2>1, ClockIsQueueStep
  <2>2. ASSUME NEW wr_en \in BOOLEAN, NEW din \in Data, Reset(wr_en, din)
        PROVE  [Queue!Next]_Contents
    <3>1. (/\ Contents = Unread /\ Unread \in Seq(Data)
           /\ Len(Unread) = Len(pushed) - popped)'
      BY ContentsAreUnread, PTL
    <3>2. pushed' = <<>> /\ popped' = 0
      BY <2>2 DEF Reset
    <3>3. Unread' = <<>>
      <4>1. Unread' \in Seq(Data) /\ Len(Unread') = 0
        BY <3>1, <3>2
      <4>2. QED BY <4>1, EmptySeq
    <3>4. Queue!Flush
      BY <3>1, <3>3 DEF Queue!Flush
    <3>5. QED BY <3>4 DEF Queue!Next
  <2>3. CASE UNCHANGED vars
    BY <2>3 DEF vars, ring, stages, Contents
  <2>4. QED BY <2>1, <2>2, <2>3 DEF Next
<1>3. QED BY <1>1, <1>2, FifoInvariant, PTL DEF Spec, ImplementsQueue, Queue!Spec
=============================================================================
