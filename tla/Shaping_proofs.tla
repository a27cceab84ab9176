--------------------------- MODULE Shaping_proofs ---------------------------
(***************************************************************************)
(* For every file, depth, rate and delay, and whatever the host writes:    *)
(* words leave a port once and, unless the host disabled a core while its  *)
(* FIFO held words, in the order the engine offered them; the limiter      *)
(* keeps its gap behind a packet and the delay module the promised time.   *)
(***************************************************************************)
EXTENDS Shaping, FiniteSetTheorems, SequenceTheorems, TLAPS

(* Words in three sequences, one behind the other, and the next to come.   *)
Rising(s) == \A i, j \in DOMAIN s : i < j => s[i] < s[j]
Before(s, t) == \A i \in DOMAIN s, j \in DOMAIN t : s[i] < t[j]
Under(s, n) == \A i \in DOMAIN s : s[i] < n

InLine(a, b, c, n) ==
  /\ a \in Seq(Nat) /\ b \in Seq(Nat) /\ c \in Seq(Nat) /\ n \in Nat
  /\ Rising(a) /\ Rising(b) /\ Rising(c)
  /\ Before(a, b) /\ Before(a, c) /\ Before(b, c)
  /\ Under(a, n) /\ Under(b, n) /\ Under(c, n)

-----------------------------------------------------------------------------
(* The moves a clock edge is made of keep the line: the engine puts a word *)
(* at the end of the last sequence, a word moves on to the sequence ahead, *)
(* a reset empties one.                                                    *)
LEMMA WordComes ==
  ASSUME NEW a, NEW b, NEW c, NEW n, InLine(a, b, c, n)
  PROVE  InLine(a, b, Append(c, n), n + 1)
<1>1. /\ Append(c, n) \in Seq(Nat) /\ DOMAIN Append(c, n) = 1 .. Len(c) + 1
      /\ DOMAIN c = 1 .. Len(c) /\ Len(c) \in Nat
      /\ \A i \in 1 .. Len(c) : Append(c, n)[i] = c[i]
      /\ Append(c, n)[Len(c) + 1] = n
  BY DEF InLine
<1>2. Rising(Append(c, n))
  BY <1>1 DEF InLine, Rising, Under
<1>3. Before(a, Append(c, n)) /\ Before(b, Append(c, n))
  BY <1>1 DEF InLine, Before, Under
<1>4. Under(a, n + 1) /\ Under(b, n + 1) /\ Under(Append(c, n), n + 1)
  <2>1. \A i \in DOMAIN a : a[i] \in Nat
    BY DEF InLine
  <2>2. \A i \in DOMAIN b : b[i] \in Nat
    BY DEF InLine
  <2>3. \A i \in DOMAIN c : c[i] \in Nat
    BY DEF InLine
  <2>4. QED BY <1>1, <2>1, <2>2, <2>3 DEF InLine, Under
<1>5. QED BY <1>1, <1>2, <1>3, <1>4 DEF InLine

LEMMA WordMovesUp ==
  ASSUME NEW a, NEW b, NEW c, NEW n, InLine(a, b, c, n), c # <<>>
  PROVE  InLine(a, Append(b, Head(c)), Tail(c), n)
<1> DEFINE f == Append(b, Head(c))
           t == Tail(c)
<1>1. /\ Rising(b) /\ Rising(c) /\ Before(b, c)
      /\ Before(a, b) /\ Before(a, c) /\ Under(b, n) /\ Under(c, n)
  BY DEF InLine
<1>2. f \in Seq(Nat) /\ t \in Seq(Nat)
  BY DEF InLine
<1>3. /\ \A i \in DOMAIN t : i + 1 \in DOMAIN c /\ t[i] = c[i + 1] /\ 1 < i + 1
      /\ \A i, j \in DOMAIN t : i < j => i + 1 < j + 1
      /\ 1 \in DOMAIN c
  BY DEF InLine
<1>4. \A i \in DOMAIN f : \/ i \in DOMAIN b /\ f[i] = b[i]
                          \/ i = Len(b) + 1 /\ f[i] = c[1]
  BY DEF InLine
<1>5. /\ \A i, j \in DOMAIN f : i < j => i \in DOMAIN b
      /\ Len(b) + 1 \notin DOMAIN b
  BY DEF InLine
<1> HIDE DEF f, t
<1>6. Rising(f)
  BY <1>1, <1>3, <1>4, <1>5, SMTT(40) DEF Rising, Before
<1>7. Rising(t)
  BY <1>1, <1>3, Zenon DEF Rising
<1>8. Before(a, f) /\ Before(a, t)
  BY <1>1, <1>3, <1>4, Zenon DEF Before
<1>9. Before(f, t)
  BY <1>1, <1>3, <1>4, Zenon DEF Before, Rising
<1>10. Under(f, n) /\ Under(t, n)
  BY <1>1, <1>3, <1>4, Zenon DEF Under
<1>11. InLine(a, f, t, n)
  BY <1>1, <1>2, <1>6, <1>7, <1>8, <1>9, <1>10 DEF InLine
<1>12. QED BY <1>11 DEF f, t

LEMMA WordLeaves ==
  ASSUME NEW a, NEW b, NEW c, NEW n, InLine(a, b, c, n), b # <<>>
  PROVE  InLine(Append(a, Head(b)), Tail(b), c, n)
<1> DEFINE f == Append(a, Head(b))
           t == Tail(b)
<1>1. /\ Rising(a) /\ Rising(b) /\ Before(a, b)
      /\ Before(a, c) /\ Before(b, c) /\ Under(a, n) /\ Under(b, n)
  BY DEF InLine
<1>2. f \in Seq(Nat) /\ t \in Seq(Nat)
  BY DEF InLine
<1>3. /\ \A i \in DOMAIN t : i + 1 \in DOMAIN b /\ t[i] = b[i + 1] /\ 1 < i + 1
      /\ \A i, j \in DOMAIN t : i < j => i + 1 < j + 1
      /\ 1 \in DOMAIN b
  BY DEF InLine
<1>4. \A i \in DOMAIN f : \/ i \in DOMAIN a /\ f[i] = a[i]
                          \/ i = Len(a) + 1 /\ f[i] = b[1]
  BY DEF InLine
<1>5. /\ \A i, j \in DOMAIN f : i < j => i \in DOMAIN a
      /\ Len(a) + 1 \notin DOMAIN a
  BY DEF InLine
<1> HIDE DEF f, t
<1>6. Rising(f)
  BY <1>1, <1>3, <1>4, <1>5, SMTT(40) DEF Rising, Before
<1>7. Rising(t)
  BY <1>1, <1>3, Zenon DEF Rising
<1>8. Before(f, c) /\ Before(t, c)
  BY <1>1, <1>3, <1>4, Zenon DEF Before
<1>9. Before(f, t)
  BY <1>1, <1>3, <1>4, Zenon DEF Before, Rising
<1>10. Under(f, n) /\ Under(t, n)
  BY <1>1, <1>3, <1>4, Zenon DEF Under
<1>11. InLine(f, t, c, n)
  BY <1>1, <1>2, <1>6, <1>7, <1>8, <1>9, <1>10 DEF InLine
<1>12. QED BY <1>11 DEF f, t

LEMMA FifoEmptied ==
  ASSUME NEW a, NEW b, NEW c, NEW n, InLine(a, b, c, n)
  PROVE  InLine(a, <<>>, c, n) /\ InLine(a, b, <<>>, n)
BY DEF InLine, Rising, Before, Under

(* What is in line rises from end to end.                                  *)
LEMMA LineRises ==
  ASSUME NEW a, NEW b, NEW c, NEW n, InLine(a, b, c, n)
  PROVE  Rising(a \o b \o c)
<1> DEFINE q == a \o b \o c
<1>1. /\ DOMAIN q = 1 .. Len(a) + Len(b) + Len(c)
      /\ Len(a) \in Nat /\ Len(b) \in Nat /\ Len(c) \in Nat
      /\ DOMAIN a = 1 .. Len(a) /\ DOMAIN b = 1 .. Len(b) /\ DOMAIN c = 1 .. Len(c)
  BY DEF InLine
<1>2. \A i \in 1 .. Len(a) + Len(b) + Len(c) :
        q[i] = IF i <= Len(a) THEN a[i]
               ELSE IF i <= Len(a) + Len(b) THEN b[i - Len(a)]
               ELSE c[i - Len(a) - Len(b)]
  BY DEF InLine
<1> HIDE DEF q
<1>3. SUFFICES ASSUME NEW i \in DOMAIN q, NEW j \in DOMAIN q, i < j
               PROVE  q[i] < q[j]
  BY DEF Rising, q
<1> DEFINE InA(k) == k \in DOMAIN a /\ q[k] = a[k]
           InB(k) == k - Len(a) \in DOMAIN b /\ q[k] = b[k - Len(a)]
           InC(k) == k - Len(a) - Len(b) \in DOMAIN c /\ q[k] = c[k - Len(a) - Len(b)]
<1>4. \/ InA(i) /\ InA(j)
      \/ InA(i) /\ InB(j)
      \/ InA(i) /\ InC(j)
      \/ InB(i) /\ InB(j) /\ i - Len(a) < j - Len(a)
      \/ InB(i) /\ InC(j)
      \/ InC(i) /\ InC(j) /\ i - Len(a) - Len(b) < j - Len(a) - Len(b)
  <2>1. i \in Int /\ j \in Int
    BY <1>1, <1>3
  <2>2. CASE j <= Len(a)
    BY <1>1, <1>2, <1>3, <2>1, <2>2
  <2>3. CASE Len(a) < j /\ j <= Len(a) + Len(b)
    BY <1>1, <1>2, <1>3, <2>1, <2>3, SMTT(40)
  <2>4. CASE Len(a) + Len(b) < j
    BY <1>1, <1>2, <1>3, <2>1, <2>4, SMTT(40)
  <2>5. QED BY <1>1, <2>1, <2>2, <2>3, <2>4
<1>5. /\ Rising(a) /\ Rising(b) /\ Rising(c)
      /\ Before(a, b) /\ Before(a, c) /\ Before(b, c)
  BY DEF InLine
<1>6. QED BY <1>3, <1>4, <1>5, Zenon DEF Rising, Before


(* The same when a core is a wire: its FIFO is empty and the word goes     *)
(* past it.                                                                *)
LEMMA WordPassesDelay ==
  ASSUME NEW a, NEW b, NEW n, InLine(a, b, <<>>, n)
  PROVE  InLine(a, Append(b, n), <<>>, n + 1)
<1>1. InLine(a, b, Append(<<>>, n), n + 1)
  BY WordComes
<1>2. Append(<<>>, n) # <<>> /\ Head(Append(<<>>, n)) = n /\ Tail(Append(<<>>, n)) = <<>>
  BY DEF InLine
<1>3. QED BY <1>1, <1>2, WordMovesUp

LEMMA WordPassesLimiter ==
  ASSUME NEW a, NEW c, NEW n, InLine(a, <<>>, c, n), c # <<>>
  PROVE  InLine(Append(a, Head(c)), <<>>, Tail(c), n)
<1>1. InLine(a, Append(<<>>, Head(c)), Tail(c), n)
  BY WordMovesUp
<1>2. /\ Append(<<>>, Head(c)) # <<>> /\ Head(Append(<<>>, Head(c))) = Head(c)
      /\ Tail(Append(<<>>, Head(c))) = <<>>
  BY DEF InLine
<1>3. QED BY <1>1, <1>2, WordLeaves

LEMMA WordPassesBoth ==
  ASSUME NEW a, NEW n, InLine(a, <<>>, <<>>, n)
  PROVE  InLine(Append(a, n), <<>>, <<>>, n + 1)
<1>1. InLine(a, Append(<<>>, n), <<>>, n + 1)
  BY WordPassesDelay
<1>2. Append(<<>>, n) # <<>> /\ Head(Append(<<>>, n)) = n /\ Tail(Append(<<>>, n)) = <<>>
  BY DEF InLine
<1>3. QED BY <1>1, <1>2, WordLeaves

LEMMA ConcatOne ==
  ASSUME NEW s \in Seq(Nat), NEW x \in Nat
  PROVE  s \o <<x>> = Append(s, x) /\ s \o <<>> = s
OBVIOUS

-----------------------------------------------------------------------------
(* The invariant: what the registers and the writes to come may be, and,   *)
(* while nothing is stranded, that the words are in line and a disabled    *)
(* core holds none.                                                        *)
Writes ==
  ({"rl", "ipd"} \X {"rst", "en"} \X {0, 1}) \cup ({"ipd"} \X {"use_reg"} \X {0, 1})
    \cup ({"rl"} \X {"rate"} \X (Rates \cup {0}))
    \cup ({"ipd"} \X {"delay"} \X (Delays \cup {0}))

RegsOK ==
  /\ ipd \in [rst : {0, 1}, en : {0, 1}, use_reg : {0, 1}, delay : Delays \cup {0}]
  /\ rl \in [rst : {0, 1}, en : {0, 1}, rate : Rates \cup {0}]

WordsInLine ==
  /\ InLine(out, l_fifo, d_fifo, next)
  /\ rl.en = 0 => l_fifo = <<>>
  /\ ipd.en = 0 => d_fifo = <<>>

PortInv == RegsOK /\ todo \in Seq(Writes) /\ (~stranded => WordsInLine)

LEMMA InitPort == Init => PortInv
<1> SUFFICES ASSUME Init PROVE PortInv
  OBVIOUS
<1>1. RegsOK
  BY ShapingAssumption DEF Init, RegsOK, ShapingAssumption
<1>2. todo \in Seq(Writes)
  BY DEF Init
<1>3. WordsInLine
  BY DEF Init, WordsInLine, InLine, Rising, Before, Under
<1>4. QED BY <1>1, <1>2, <1>3 DEF PortInv

(* Every operation of the host is a sequence of such writes.               *)
LEMMA UserActsPort == PortInv /\ UserActs => PortInv'
<1> SUFFICES ASSUME PortInv, UserActs PROVE PortInv'
  OBVIOUS
<1>1. \A r \in Rates \cup {0}, b \in {0, 1}, d \in Delays \cup {0} :
        /\ set_rate(r) \in Seq(Writes) /\ set_delay(d) \in Seq(Writes)
        /\ rl_set_enable(b) \in Seq(Writes) /\ ipd_set_enable(b) \in Seq(Writes)
        /\ set_use_reg(b) \in Seq(Writes)
        /\ << <<"rl", "rst", b>> >> \in Seq(Writes) /\ << <<"ipd", "rst", b>> >> \in Seq(Writes)
  BY DEF set_rate, set_delay, rl_set_enable, ipd_set_enable, set_use_reg, Writes
<1>2. \A s, t \in Seq(Writes) : s \o t \in Seq(Writes)
  OBVIOUS
<1>3. \A b \in {0, 1} : rl_set_reset(b) \in Seq(Writes) /\ ipd_set_reset(b) \in Seq(Writes)
  BY <1>1, <1>2 DEF rl_set_reset, ipd_set_reset
<1>4. \A d \in Delays \cup {0} : set_ipg(d) \in Seq(Writes) /\ set_ipg_ts(d) \in Seq(Writes)
  BY <1>1, <1>2 DEF set_ipg, set_ipg_ts
<1>5. on_rate_limiter_reset \in Seq(Writes) /\ on_delay_reset \in Seq(Writes)
  BY <1>2, <1>3 DEF on_rate_limiter_reset, on_delay_reset
<1>6. todo' \in Seq(Writes)
  BY <1>1, <1>4, <1>5, ShapingAssumption DEF UserActs, ShapingAssumption
<1>7. QED
  BY <1>6 DEF UserActs, PortInv, RegsOK, WordsInLine, regs, engine, cores, history

LEMMA HostWritesPort == PortInv /\ HostWrites => PortInv'
<1> SUFFICES ASSUME PortInv, HostWrites PROVE PortInv'
  OBVIOUS
<1>1. PICK w \in Writes : w = Head(todo) /\ todo' \in Seq(Writes)
  BY DEF HostWrites, PortInv
<1>2. /\ ipd' = IF w[1] = "ipd" THEN [ipd EXCEPT ![w[2]] = w[3]] ELSE ipd
      /\ rl' = IF w[1] = "rl" THEN [rl EXCEPT ![w[2]] = w[3]] ELSE rl
      /\ stranded' = (\/ stranded
                      \/ w[1] = "rl" /\ w[2] = "en" /\ rl.en # w[3] /\ l_fifo # <<>>
                      \/ w[1] = "ipd" /\ w[2] = "en" /\ ipd.en # w[3] /\ d_fifo # <<>>)
      /\ UNCHANGED <<out, l_fifo, d_fifo, next>>
  BY <1>1 DEF HostWrites, engine, cores
<1>3. \/ w[1] \in {"rl", "ipd"} /\ w[2] \in {"rst", "en"} /\ w[3] \in {0, 1}
      \/ w[1] = "ipd" /\ w[2] = "use_reg" /\ w[3] \in {0, 1}
      \/ w[1] = "rl" /\ w[2] = "rate" /\ w[3] \in Rates \cup {0}
      \/ w[1] = "ipd" /\ w[2] = "delay" /\ w[3] \in Delays \cup {0}
  BY DEF Writes
<1>4. RegsOK'
  BY <1>2, <1>3 DEF PortInv, RegsOK
<1>5. ASSUME ~stranded' PROVE WordsInLine'
  <2>1. WordsInLine /\ UNCHANGED <<out, l_fifo, d_fifo, next>>
    BY <1>2, <1>5 DEF PortInv
  <2>2. rl'.en = rl.en \/ l_fifo = <<>>
    BY <1>2, <1>3, <1>5 DEF PortInv, RegsOK
  <2>3. ipd'.en = ipd.en \/ d_fifo = <<>>
    BY <1>2, <1>3, <1>5 DEF PortInv, RegsOK
  <2>4. QED BY <2>1, <2>2, <2>3 DEF WordsInLine
<1>6. QED BY <1>1, <1>4, <1>5 DEF PortInv



(* A clock edge is up to three moves: a word leaves the limiter, one goes  *)
(* from the delay to the limiter, one comes from the engine; a core that   *)
(* is a wire makes two or three of them one.  Here without the resets.     *)
NewOut(in, mac) == IF l_moves(in, mac) THEN out \o l_offer(in) ELSE out

NewLimiter(in, mac) ==
  IF rl.en = 0 THEN l_fifo
  ELSE Fifo(l_fifo, l_moves(in, mac), IF d_moves(in, mac) THEN d_offer(in) ELSE <<>>)

NewDelay(in, mac) ==
  IF ipd.en = 0 THEN d_fifo
  ELSE Fifo(d_fifo, d_moves(in, mac), IF accepts(in, mac) THEN in ELSE <<>>)

NewNext(in, mac) == IF accepts(in, mac) THEN next + 1 ELSE next

Sent(s, p, w) == IF p THEN Append(s, w) ELSE s
Left(s, p) == IF p THEN Tail(s) ELSE s

WordsTyped ==
  out \in Seq(Nat) /\ l_fifo \in Seq(Nat) /\ d_fifo \in Seq(Nat) /\ next \in Nat

(* What a FIFO holds after an edge, when what may arrive is one word.      *)
LEMMA FifoAfter ==
  ASSUME NEW s \in Seq(Nat), NEW gets \in BOOLEAN, gets => s # <<>>,
         NEW p \in BOOLEAN, NEW w, p => w \in Nat,
         NEW put, put = IF p THEN <<w>> ELSE <<>>
  PROVE  Fifo(s, gets, put) = Sent(Left(s, gets), p, w)
<1> DEFINE l == IF gets THEN Tail(s) ELSE s
<1>1. l \in Seq(Nat)
  OBVIOUS
<1> HIDE DEF l
<1>2. l \o put = IF p THEN Append(l, w) ELSE l
  BY <1>1, ConcatOne
<1>3. QED BY <1>2, Zenon DEF Fifo, Sent, Left, l

LEMMA MovesBothOn ==
  ASSUME RegsOK, WordsTyped, NEW in \in {<<>>, <<next>>}, NEW mac \in BOOLEAN,
         rl.en = 1, ipd.en = 1
  PROVE  /\ l_moves(in, mac) => l_fifo # <<>>
         /\ d_moves(in, mac) => d_fifo # <<>>
         /\ NewOut(in, mac) = Sent(out, l_moves(in, mac), Head(l_fifo))
         /\ NewLimiter(in, mac)
              = Sent(Left(l_fifo, l_moves(in, mac)), d_moves(in, mac), Head(d_fifo))
         /\ NewDelay(in, mac) = Sent(Left(d_fifo, d_moves(in, mac)), accepts(in, mac), next)
<1> DEFINE lm == l_moves(in, mac)  dm == d_moves(in, mac)  ac == accepts(in, mac)
<1>1. /\ lm => l_fifo # <<>> /\ l_offer(in) = <<Head(l_fifo)>>
      /\ dm => d_fifo # <<>> /\ d_offer(in) = <<Head(d_fifo)>>
      /\ ac => in = <<next>>
      /\ lm \in BOOLEAN /\ dm \in BOOLEAN /\ ac \in BOOLEAN
  BY DEF l_moves, l_offer, d_moves, d_offer, accepts
<1>2. /\ lm => Head(l_fifo) \in Nat
      /\ dm => Head(d_fifo) \in Nat
  BY <1>1 DEF WordsTyped
<1> HIDE DEF lm, dm, ac
<1>3. NewOut(in, mac) = Sent(out, lm, Head(l_fifo))
  BY <1>1, <1>2, ConcatOne DEF NewOut, Sent, WordsTyped, lm
<1>4. NewLimiter(in, mac) = Sent(Left(l_fifo, lm), dm, Head(d_fifo))
  <2> DEFINE put == IF dm THEN d_offer(in) ELSE <<>>  w == Head(d_fifo)
  <2>1. /\ put = (IF dm THEN <<w>> ELSE <<>>) /\ (dm => w \in Nat)
        /\ l_fifo \in Seq(Nat) /\ lm \in BOOLEAN /\ dm \in BOOLEAN /\ (lm => l_fifo # <<>>)
    BY <1>1, <1>2 DEF WordsTyped
  <2> HIDE DEF put, w
  <2>2. Fifo(l_fifo, lm, put) = Sent(Left(l_fifo, lm), dm, w)
    BY <2>1, FifoAfter
  <2>3. QED BY <1>1, <2>2 DEF NewLimiter, lm, dm, put, w
<1>5. NewDelay(in, mac) = Sent(Left(d_fifo, dm), ac, next)
  <2> DEFINE put == IF ac THEN in ELSE <<>>
  <2>1. /\ put = (IF ac THEN <<next>> ELSE <<>>) /\ next \in Nat
        /\ d_fifo \in Seq(Nat) /\ dm \in BOOLEAN /\ ac \in BOOLEAN /\ (dm => d_fifo # <<>>)
    BY <1>1 DEF WordsTyped
  <2> HIDE DEF put
  <2>2. Fifo(d_fifo, dm, put) = Sent(Left(d_fifo, dm), ac, next)
    BY <2>1, FifoAfter
  <2>3. QED BY <1>1, <2>2 DEF NewDelay, dm, ac, put
<1>6. QED BY <1>1, <1>3, <1>4, <1>5 DEF lm, dm, ac

LEMMA MovesDelayOff ==
  ASSUME RegsOK, WordsTyped, NEW in \in {<<>>, <<next>>}, NEW mac \in BOOLEAN,
         rl.en = 1, ipd.en = 0
  PROVE  /\ l_moves(in, mac) => l_fifo # <<>>
         /\ NewOut(in, mac) = Sent(out, l_moves(in, mac), Head(l_fifo))
         /\ NewLimiter(in, mac)
              = Sent(Left(l_fifo, l_moves(in, mac)), accepts(in, mac), next)
         /\ NewDelay(in, mac) = d_fifo
<1> DEFINE lm == l_moves(in, mac)  ac == accepts(in, mac)
<1>1. /\ lm => l_fifo # <<>> /\ l_offer(in) = <<Head(l_fifo)>>
      /\ d_moves(in, mac) = ac /\ d_offer(in) = in
      /\ ac => in = <<next>>
      /\ lm \in BOOLEAN /\ ac \in BOOLEAN
  BY DEF l_moves, l_offer, d_moves, d_offer, accepts, d_ready
<1>2. lm => Head(l_fifo) \in Nat
  BY <1>1 DEF WordsTyped
<1> HIDE DEF lm, ac
<1>3. NewOut(in, mac) = Sent(out, lm, Head(l_fifo))
  BY <1>1, <1>2, ConcatOne DEF NewOut, Sent, WordsTyped, lm
<1>4. NewLimiter(in, mac) = Sent(Left(l_fifo, lm), ac, next)
  <2> DEFINE put == IF ac THEN in ELSE <<>>
  <2>1. /\ put = (IF ac THEN <<next>> ELSE <<>>) /\ next \in Nat
        /\ l_fifo \in Seq(Nat) /\ lm \in BOOLEAN /\ ac \in BOOLEAN /\ (lm => l_fifo # <<>>)
    BY <1>1 DEF WordsTyped
  <2> HIDE DEF put
  <2>2. Fifo(l_fifo, lm, put) = Sent(Left(l_fifo, lm), ac, next)
    BY <2>1, FifoAfter
  <2>3. QED BY <1>1, <2>2 DEF NewLimiter, lm, put
<1>5. QED BY <1>1, <1>3, <1>4 DEF NewDelay, lm, ac

LEMMA MovesLimiterOff ==
  ASSUME RegsOK, WordsTyped, NEW in \in {<<>>, <<next>>}, NEW mac \in BOOLEAN,
         rl.en = 0, ipd.en = 1
  PROVE  /\ d_moves(in, mac) => d_fifo # <<>> /\ d_offer(in) = <<Head(d_fifo)>>
         /\ l_moves(in, mac) = d_moves(in, mac) /\ l_offer(in) = d_offer(in)
         /\ NewOut(in, mac) = Sent(out, d_moves(in, mac), Head(d_fifo))
         /\ NewLimiter(in, mac) = l_fifo
         /\ NewDelay(in, mac) = Sent(Left(d_fifo, d_moves(in, mac)), accepts(in, mac), next)
<1> DEFINE dm == d_moves(in, mac)  ac == accepts(in, mac)
<1>1. /\ dm => d_fifo # <<>> /\ d_offer(in) = <<Head(d_fifo)>>
      /\ l_moves(in, mac) = dm /\ l_offer(in) = d_offer(in)
      /\ ac => in = <<next>>
      /\ dm \in BOOLEAN /\ ac \in BOOLEAN
  BY DEF l_moves, l_offer, d_moves, d_offer, l_ready, accepts
<1>2. dm => Head(d_fifo) \in Nat
  BY <1>1 DEF WordsTyped
<1> HIDE DEF dm, ac
<1>3. NewOut(in, mac) = Sent(out, dm, Head(d_fifo))
  BY <1>1, <1>2, ConcatOne, ZenonT(40) DEF NewOut, Sent, WordsTyped
<1>4. NewDelay(in, mac) = Sent(Left(d_fifo, dm), ac, next)
  <2> DEFINE put == IF ac THEN in ELSE <<>>
  <2>1. /\ put = (IF ac THEN <<next>> ELSE <<>>) /\ next \in Nat
        /\ d_fifo \in Seq(Nat) /\ dm \in BOOLEAN /\ ac \in BOOLEAN /\ (dm => d_fifo # <<>>)
    BY <1>1 DEF WordsTyped
  <2> HIDE DEF put
  <2>2. Fifo(d_fifo, dm, put) = Sent(Left(d_fifo, dm), ac, next)
    BY <2>1, FifoAfter
  <2>3. QED BY <1>1, <2>2 DEF NewDelay, dm, ac, put
<1>5. QED BY <1>1, <1>3, <1>4 DEF NewLimiter, dm, ac

LEMMA MovesBothOff ==
  ASSUME RegsOK, WordsTyped, NEW in \in {<<>>, <<next>>}, NEW mac \in BOOLEAN,
         rl.en = 0, ipd.en = 0
  PROVE  /\ NewOut(in, mac) = Sent(out, accepts(in, mac), next)
         /\ NewLimiter(in, mac) = l_fifo
         /\ NewDelay(in, mac) = d_fifo
<1>1. /\ l_moves(in, mac) = accepts(in, mac) /\ l_offer(in) = in
      /\ accepts(in, mac) => in = <<next>>
  BY DEF l_moves, l_offer, d_offer, accepts, d_ready, l_ready
<1>2. out \o <<next>> = Append(out, next)
  BY ConcatOne DEF WordsTyped
<1>3. QED BY <1>1, <1>2 DEF NewOut, NewLimiter, NewDelay, Sent

(* Words in line stay in line.                                             *)
Passed(in, mac) ==
  InLine(NewOut(in, mac), NewLimiter(in, mac), NewDelay(in, mac), NewNext(in, mac))

LEMMA LineMoves ==
  ASSUME NEW a, NEW b, NEW c, NEW n, InLine(a, b, c, n), NEW p \in BOOLEAN
  PROVE  /\ (p => b # <<>>) => InLine(Sent(a, p, Head(b)), Left(b, p), c, n)
         /\ (p => c # <<>>) => InLine(a, Sent(b, p, Head(c)), Left(c, p), n)
         /\ InLine(a, b, Sent(c, p, n), IF p THEN n + 1 ELSE n)
BY WordLeaves, WordMovesUp, WordComes DEF Sent, Left

LEMMA LinePasses ==
  ASSUME RegsOK, WordsInLine, NEW in \in {<<>>, <<next>>}, NEW mac \in BOOLEAN
  PROVE  Passed(in, mac)
<1> DEFINE lm == l_moves(in, mac)  dm == d_moves(in, mac)  ac == accepts(in, mac)
<1>1. /\ InLine(out, l_fifo, d_fifo, next) /\ WordsTyped
      /\ rl.en \in {0, 1} /\ ipd.en \in {0, 1}
      /\ lm \in BOOLEAN /\ dm \in BOOLEAN /\ ac \in BOOLEAN
  BY DEF WordsInLine, InLine, WordsTyped, RegsOK, l_moves, d_moves, accepts
<1>2. CASE rl.en = 1 /\ ipd.en = 1
  <2>1. /\ lm => l_fifo # <<>>
        /\ dm => d_fifo # <<>>
        /\ NewOut(in, mac) = Sent(out, lm, Head(l_fifo))
        /\ NewLimiter(in, mac) = Sent(Left(l_fifo, lm), dm, Head(d_fifo))
        /\ NewDelay(in, mac) = Sent(Left(d_fifo, dm), ac, next)
    BY <1>1, <1>2, MovesBothOn
  <2> HIDE DEF lm, dm, ac
  <2>2. InLine(Sent(out, lm, Head(l_fifo)), Left(l_fifo, lm), d_fifo, next)
    BY <1>1, <2>1, LineMoves
  <2>3. InLine(Sent(out, lm, Head(l_fifo)), Sent(Left(l_fifo, lm), dm, Head(d_fifo)),
               Left(d_fifo, dm), next)
    BY <1>1, <2>1, <2>2, LineMoves, Zenon
  <2>4. InLine(Sent(out, lm, Head(l_fifo)), Sent(Left(l_fifo, lm), dm, Head(d_fifo)),
               Sent(Left(d_fifo, dm), ac, next), IF ac THEN next + 1 ELSE next)
    BY <1>1, <2>3, LineMoves, Zenon
  <2>5. QED BY <2>1, <2>4, Zenon DEF Passed, NewNext, ac
<1>3. CASE rl.en = 1 /\ ipd.en = 0
  <2>1. /\ lm => l_fifo # <<>>
        /\ NewOut(in, mac) = Sent(out, lm, Head(l_fifo))
        /\ NewLimiter(in, mac) = Sent(Left(l_fifo, lm), ac, next)
        /\ NewDelay(in, mac) = d_fifo /\ d_fifo = <<>>
    BY <1>1, <1>3, MovesDelayOff DEF WordsInLine
  <2> HIDE DEF lm, dm, ac
  <2>2. InLine(Sent(out, lm, Head(l_fifo)), Left(l_fifo, lm), <<>>, next)
    BY <1>1, <2>1, LineMoves
  <2>3. InLine(Sent(out, lm, Head(l_fifo)), Sent(Left(l_fifo, lm), ac, next), <<>>,
               IF ac THEN next + 1 ELSE next)
    BY <1>1, <2>2, WordPassesDelay DEF Sent
  <2>4. QED BY <2>1, <2>3, Zenon DEF Passed, NewNext, ac
<1>4. CASE rl.en = 0 /\ ipd.en = 1
  <2>1. /\ dm => d_fifo # <<>>
        /\ NewOut(in, mac) = Sent(out, dm, Head(d_fifo))
        /\ NewLimiter(in, mac) = l_fifo /\ l_fifo = <<>>
        /\ NewDelay(in, mac) = Sent(Left(d_fifo, dm), ac, next)
    BY <1>1, <1>4, MovesLimiterOff DEF WordsInLine
  <2> HIDE DEF lm, dm, ac
  <2>2. InLine(Sent(out, dm, Head(d_fifo)), <<>>, Left(d_fifo, dm), next)
    BY <1>1, <2>1, WordPassesLimiter DEF Sent, Left
  <2>3. InLine(Sent(out, dm, Head(d_fifo)), <<>>, Sent(Left(d_fifo, dm), ac, next),
               IF ac THEN next + 1 ELSE next)
    BY <1>1, <2>2, LineMoves, Zenon
  <2>4. QED BY <2>1, <2>3, Zenon DEF Passed, NewNext, ac
<1>5. CASE rl.en = 0 /\ ipd.en = 0
  <2>1. /\ NewOut(in, mac) = Sent(out, ac, next)
        /\ NewLimiter(in, mac) = <<>> /\ NewDelay(in, mac) = <<>>
        /\ InLine(out, <<>>, <<>>, next)
    BY <1>1, <1>5, MovesBothOff DEF WordsInLine
  <2> HIDE DEF lm, dm, ac
  <2>2. InLine(Sent(out, ac, next), <<>>, <<>>, IF ac THEN next + 1 ELSE next)
    BY <1>1, <2>1, WordPassesBoth DEF Sent
  <2>3. QED BY <2>1, <2>2, Zenon DEF Passed, NewNext, ac
<1>6. QED BY <1>1, <1>2, <1>3, <1>4, <1>5

(* A reset empties a FIFO whatever would have happened to it.              *)
LEMMA TickPort ==
  ASSUME PortInv, NEW in \in Offers, NEW mac \in BOOLEAN, Tick(in, mac)
  PROVE  PortInv'
<1>1. RegsOK' /\ todo' \in Seq(Writes) /\ stranded' = stranded
  BY DEF Tick, Histories, host, regs, PortInv, RegsOK
<1>2. ASSUME ~stranded PROVE WordsInLine'
  <2>1. WordsInLine /\ RegsOK /\ in \in {<<>>, <<next>>}
    BY <1>2 DEF PortInv, Offers
  <2>2. Passed(in, mac)
    BY <2>1, LinePasses
  <2>3. out' = NewOut(in, mac) /\ next' = NewNext(in, mac) /\ UNCHANGED <<ipd, rl>>
    BY DEF Tick, Histories, host, regs, NewOut, NewNext
  <2>4. l_fifo' = <<>> \/ l_fifo' = NewLimiter(in, mac)
    BY DEF Tick, LimiterEdge, NewLimiter
  <2>5. d_fifo' = <<>> \/ d_fifo' = NewDelay(in, mac)
    BY DEF Tick, DelayerEdge, NewDelay
  <2>6. InLine(out', l_fifo', d_fifo', next')
    BY <2>2, <2>3, <2>4, <2>5, FifoEmptied DEF Passed
  <2>7. (rl'.en = 0 => l_fifo' = <<>>) /\ (ipd'.en = 0 => d_fifo' = <<>>)
    BY <2>1, <2>3, <2>4, <2>5 DEF WordsInLine, NewLimiter, NewDelay
  <2>8. QED BY <2>6, <2>7 DEF WordsInLine
<1>3. QED BY <1>1, <1>2 DEF PortInv

(* The invariant holds of every behaviour.                                 *)
THEOREM PortInvariant == Spec => []PortInv
<1>1. Init => PortInv
  BY InitPort
<1>2. PortInv /\ [Next]_vars => PortInv'
  <2> SUFFICES ASSUME PortInv, [Next]_vars PROVE PortInv'
    OBVIOUS
  <2>1. CASE UserActs
    BY <2>1, UserActsPort
  <2>2. CASE HostWrites
    BY <2>2, HostWritesPort
  <2>3. CASE \E in \in Offers, mac \in BOOLEAN : Tick(in, mac)
    BY <2>3, TickPort
  <2>4. CASE UNCHANGED vars
    BY <2>4 DEF vars, host, regs, engine, cores, history, PortInv, RegsOK, WordsInLine
  <2>5. QED BY <2>1, <2>2, <2>3, <2>4 DEF Next
<1>3. QED BY <1>1, <1>2, PTL DEF Spec

(* Words leave the port in the order they came to it, for every file, FIFO *)
(* depth, rate, delay and order of register writes and resets, unless a    *)
(* core was disabled while its FIFO held some (rate_limiter_simple.v:148,  *)
(* inter_packet_delay.v:144).                                              *)
THEOREM OrderKept == Spec => []OvertakenOnlyIfStranded
<1>1. PortInv => OvertakenOnlyIfStranded
  BY LineRises DEF PortInv, WordsInLine, OvertakenOnlyIfStranded, Rising
<1>2. QED BY <1>1, PortInvariant, PTL

-----------------------------------------------------------------------------
(* The words of a sequence as a set, and what the moves do to it.          *)
Once(s) == \A i, j \in DOMAIN s : s[i] = s[j] => i = j

LEMMA AppendedOnce ==
  ASSUME NEW s \in Seq(Nat), Once(s), NEW x \in Nat, x \notin ToSet(s)
  PROVE  /\ Append(s, x) \in Seq(Nat) /\ Once(Append(s, x))
         /\ ToSet(Append(s, x)) = ToSet(s) \cup {x}
<1> DEFINE t == Append(s, x)
<1>1. /\ t \in Seq(Nat) /\ DOMAIN t = 1 .. Len(s) + 1 /\ DOMAIN s = 1 .. Len(s)
      /\ Len(s) \in Nat /\ t[Len(s) + 1] = x
      /\ \A i \in 1 .. Len(s) : t[i] = s[i]
  OBVIOUS
<1> HIDE DEF t
<1>2. \A i \in DOMAIN t : (i \in DOMAIN s /\ t[i] = s[i]) \/ (i = Len(s) + 1 /\ t[i] = x)
  BY <1>1
<1>3. \A i \in DOMAIN s : s[i] # x
  BY DEF ToSet
<1>4. Once(t)
  BY <1>2, <1>3, Zenon DEF Once
<1>5. ToSet(t) = ToSet(s) \cup {x}
  <2>1. ASSUME NEW y \in ToSet(t) PROVE y \in ToSet(s) \cup {x}
    BY <1>2, Zenon DEF ToSet
  <2>2. ASSUME NEW y \in ToSet(s) PROVE y \in ToSet(t)
    <3>1. PICK i \in DOMAIN s : y = s[i]
      BY DEF ToSet
    <3>2. i \in DOMAIN t /\ t[i] = y
      BY <1>1, <3>1
    <3>3. QED BY <3>2 DEF ToSet
  <2>3. x \in ToSet(t)
    <3>1. Len(s) + 1 \in DOMAIN t
      BY <1>1
    <3>2. QED BY <1>1, <3>1 DEF ToSet
  <2>4. QED BY <2>1, <2>2, <2>3
<1>6. QED BY <1>1, <1>4, <1>5 DEF t

LEMMA HeadTakenOnce ==
  ASSUME NEW s \in Seq(Nat), Once(s), s # <<>>
  PROVE  /\ Head(s) \in ToSet(s) /\ Tail(s) \in Seq(Nat) /\ Once(Tail(s))
         /\ ToSet(Tail(s)) = ToSet(s) \ {Head(s)}
<1> DEFINE t == Tail(s)  h == Head(s)
<1>1. /\ t \in Seq(Nat) /\ DOMAIN t = 1 .. Len(s) - 1 /\ DOMAIN s = 1 .. Len(s)
      /\ Len(s) \in Nat \ {0} /\ h = s[1]
      /\ \A i \in 1 .. Len(s) - 1 : t[i] = s[i + 1]
  OBVIOUS
<1> HIDE DEF t, h
<1>2. /\ \A i \in DOMAIN t : i + 1 \in DOMAIN s /\ t[i] = s[i + 1] /\ i + 1 # 1
      /\ \A i, j \in DOMAIN t : i + 1 = j + 1 => i = j
      /\ \A i \in DOMAIN s : i # 1 => i - 1 \in DOMAIN t /\ t[i - 1] = s[i]
      /\ 1 \in DOMAIN s
  BY <1>1, SMTT(40)
<1>3. h \in ToSet(s)
  BY <1>1, <1>2 DEF ToSet
<1>4. Once(t)
  <2>1. ASSUME NEW i \in DOMAIN t, NEW j \in DOMAIN t, t[i] = t[j] PROVE i = j
    <3>1. i + 1 \in DOMAIN s /\ j + 1 \in DOMAIN s /\ s[i + 1] = s[j + 1]
      BY <1>2, <2>1
    <3>2. i + 1 = j + 1
      BY <3>1, Zenon DEF Once
    <3>3. QED BY <1>2, <3>2
  <2>2. QED BY <2>1, Zenon DEF Once
<1>5. ToSet(t) = ToSet(s) \ {h}
  <2>1. ASSUME NEW y \in ToSet(t) PROVE y \in ToSet(s) /\ y # h
    <3>1. PICK i \in DOMAIN t : y = t[i]
      BY DEF ToSet
    <3>2. y = s[i + 1] /\ i + 1 \in DOMAIN s /\ i + 1 # 1
      BY <1>2, <3>1
    <3>3. y # s[1]
      BY <1>2, <3>2, Zenon DEF Once
    <3>4. QED BY <1>1, <3>2, <3>3 DEF ToSet
  <2>2. ASSUME NEW y \in ToSet(s), y # h PROVE y \in ToSet(t)
    <3>1. PICK i \in DOMAIN s : y = s[i]
      BY DEF ToSet
    <3>2. i - 1 \in DOMAIN t /\ t[i - 1] = y
      BY <1>1, <1>2, <2>2, <3>1
    <3>3. QED BY <3>2 DEF ToSet
  <2>3. QED BY <2>1, <2>2
<1>6. QED BY <1>1, <1>3, <1>4, <1>5 DEF t, h

(* A sequence without repetition has as many words as places.              *)
LEMMA OnceCounts ==
  ASSUME NEW s \in Seq(Nat), Once(s)
  PROVE  IsFiniteSet(ToSet(s)) /\ Cardinality(ToSet(s)) = Len(s) /\ Len(s) \in Nat
<1>1. Len(s) \in Nat /\ DOMAIN s = 1 .. Len(s) /\ s \in [1 .. Len(s) -> ToSet(s)]
  BY DEF ToSet
<1>2. s \in Bijection(1 .. Len(s), ToSet(s))
  BY <1>1, Zenon DEF Once, ToSet, Bijection, Injection, Surjection, IsInjective
<1>3. ExistsBijection(1 .. Len(s), ToSet(s))
  BY <1>2 DEF ExistsBijection
<1>4. IsFiniteSet(1 .. Len(s)) /\ Cardinality(1 .. Len(s)) = Len(s)
  BY <1>1, FS_Interval, SMTT(40)
<1>5. QED BY <1>1, <1>3, <1>4, FS_Bijection

LEMMA ToSetOfConcat ==
  ASSUME NEW s \in Seq(Nat), NEW t \in Seq(Nat)
  PROVE  ToSet(s \o t) = ToSet(s) \cup ToSet(t)
<1> DEFINE q == s \o t
<1>1. /\ Len(s) \in Nat /\ Len(t) \in Nat
      /\ DOMAIN s = 1 .. Len(s) /\ DOMAIN t = 1 .. Len(t) /\ DOMAIN q = 1 .. Len(s) + Len(t)
      /\ \A i \in 1 .. Len(s) + Len(t) : q[i] = IF i <= Len(s) THEN s[i] ELSE t[i - Len(s)]
  BY ConcatProperties, LenProperties
<1> HIDE DEF q
<1>2. ASSUME NEW y \in ToSet(q) PROVE y \in ToSet(s) \cup ToSet(t)
  <2>1. PICK i \in DOMAIN q : y = q[i]
    BY DEF ToSet
  <2>2. \/ i \in DOMAIN s /\ y = s[i]
        \/ i - Len(s) \in DOMAIN t /\ y = t[i - Len(s)]
    BY <1>1, <2>1
  <2>3. QED BY <2>2 DEF ToSet
<1>3. ASSUME NEW y \in ToSet(s) PROVE y \in ToSet(q)
  <2>1. PICK i \in DOMAIN s : y = s[i]
    BY DEF ToSet
  <2>2. i \in DOMAIN q /\ y = q[i]
    BY <1>1, <2>1
  <2>3. QED BY <2>2 DEF ToSet
<1>4. ASSUME NEW y \in ToSet(t) PROVE y \in ToSet(q)
  <2>1. PICK i \in DOMAIN t : y = t[i]
    BY DEF ToSet
  <2>2. i + Len(s) \in DOMAIN q /\ y = q[i + Len(s)]
    <3>1. /\ i + Len(s) \in 1 .. Len(s) + Len(t) /\ ~(i + Len(s) <= Len(s))
          /\ (i + Len(s)) - Len(s) = i
      BY <1>1
    <3>2. q[i + Len(s)] = t[(i + Len(s)) - Len(s)]
      BY <1>1, <3>1
    <3>3. QED BY <1>1, <2>1, <3>1, <3>2
  <2>3. QED BY <2>2 DEF ToSet
<1>5. ToSet(q) = ToSet(s) \cup ToSet(t)
  BY <1>2, <1>3, <1>4
<1>6. QED BY <1>5 DEF q

-----------------------------------------------------------------------------
(* Three sequences and a set share the words 1 .. n-1 between them.        *)
Shared(A, B, C, D, W) ==
  /\ A \cup B \cup C \cup D = W
  /\ A \cap B = {} /\ A \cap C = {} /\ A \cap D = {}
  /\ B \cap C = {} /\ B \cap D = {} /\ C \cap D = {}

Placed(a, b, c, D, n) ==
  /\ a \in Seq(Nat) /\ b \in Seq(Nat) /\ c \in Seq(Nat) /\ n \in Nat \ {0}
  /\ Once(a) /\ Once(b) /\ Once(c)
  /\ Shared(ToSet(a), ToSet(b), ToSet(c), D, 1 .. n - 1)

LEMMA PlacesSwap ==
  ASSUME NEW a, NEW b, NEW c, NEW D, NEW n, Placed(a, b, c, D, n)
  PROVE  /\ Placed(b, a, c, D, n) /\ Placed(a, c, b, D, n) /\ Placed(c, b, a, D, n)
BY DEF Placed, Shared

(* A word comes from the engine, moves from one sequence to another, or is *)
(* thrown away with all that its FIFO holds.                               *)
LEMMA WordIsPlaced ==
  ASSUME NEW a, NEW b, NEW c, NEW D, NEW n, Placed(a, b, c, D, n)
  PROVE  Placed(Append(a, n), b, c, D, n + 1)
<1> DEFINE A == ToSet(a)  B == ToSet(b)  C == ToSet(c)  W == 1 .. n - 1  V == 1 .. (n + 1) - 1
<1>1. Shared(A, B, C, D, W) /\ V = W \cup {n} /\ n \notin W /\ n \in Nat
      /\ n + 1 \in Nat \ {0}
  BY DEF Placed
<1>2. n \notin A
  BY <1>1, Zenon DEF Shared
<1>3. Append(a, n) \in Seq(Nat) /\ Once(Append(a, n)) /\ ToSet(Append(a, n)) = A \cup {n}
  BY <1>1, <1>2, AppendedOnce DEF Placed
<1> HIDE DEF A, B, C, W, V
<1>4. Shared(A \cup {n}, B, C, D, V)
  BY <1>1 DEF Shared
<1>5. QED BY <1>1, <1>3, <1>4, Zenon DEF Placed, A, B, C, V

LEMMA WordIsMoved ==
  ASSUME NEW a, NEW b, NEW c, NEW D, NEW n, Placed(a, b, c, D, n), b # <<>>
  PROVE  Placed(Append(a, Head(b)), Tail(b), c, D, n)
<1> DEFINE A == ToSet(a)  B == ToSet(b)  C == ToSet(c)  h == Head(b)
<1>1. Shared(A, B, C, D, 1 .. n - 1)
  BY DEF Placed
<1>2. /\ h \in B /\ Tail(b) \in Seq(Nat) /\ Once(Tail(b)) /\ ToSet(Tail(b)) = B \ {h}
      /\ h \in Nat
  BY HeadTakenOnce DEF Placed
<1>3. h \notin A
  BY <1>1, <1>2, Zenon DEF Shared
<1> HIDE DEF h
<1>4. Append(a, h) \in Seq(Nat) /\ Once(Append(a, h)) /\ ToSet(Append(a, h)) = A \cup {h}
  BY <1>2, <1>3, AppendedOnce DEF Placed
<1> HIDE DEF A, B, C
<1>5. Shared(A \cup {h}, B \ {h}, C, D, 1 .. n - 1)
  BY <1>1, <1>2 DEF Shared
<1>6. Placed(Append(a, h), Tail(b), c, D, n)
  BY <1>2, <1>4, <1>5, Zenon DEF Placed, A, B, C
<1>7. QED BY <1>6 DEF h

LEMMA WordsAreDropped ==
  ASSUME NEW a, NEW b, NEW c, NEW D, NEW n, Placed(a, b, c, D, n)
  PROVE  Placed(<<>>, b, c, D \cup ToSet(a), n)
<1>1. <<>> \in Seq(Nat) /\ Once(<<>>) /\ ToSet(<<>>) = {}
  BY DEF Once, ToSet
<1>2. Shared({}, ToSet(b), ToSet(c), D \cup ToSet(a), 1 .. n - 1)
  BY DEF Placed, Shared
<1>3. QED BY <1>1, <1>2, Zenon DEF Placed

(* Shared out like this, the numbers add up.                               *)
LEMMA ApartAddsUp ==
  ASSUME NEW S, NEW T, IsFiniteSet(S), IsFiniteSet(T), S \cap T = {}
  PROVE  /\ IsFiniteSet(S \cup T)
         /\ Cardinality(S \cup T) = Cardinality(S) + Cardinality(T)
<1>1. /\ IsFiniteSet(S \cup T)
      /\ Cardinality(S \cup T) = Cardinality(S) + Cardinality(T) - Cardinality(S \cap T)
  BY FS_Union
<1>2. Cardinality(S \cap T) = 0
  BY FS_EmptySet
<1>3. Cardinality(S) \in Nat /\ Cardinality(T) \in Nat
  BY FS_CardinalityType
<1>4. QED BY <1>1, <1>2, <1>3

LEMMA PlacedAddsUp ==
  ASSUME NEW a, NEW b, NEW c, NEW D, NEW n, Placed(a, b, c, D, n)
  PROVE  /\ ToSet(a \o b \o c) \cup D = 1 .. n - 1
         /\ Len(a) + Len(b) + Len(c) + Cardinality(D) = n - 1
<1> DEFINE A == ToSet(a)  B == ToSet(b)  C == ToSet(c)
<1>1. Shared(A, B, C, D, 1 .. n - 1) /\ n \in Nat \ {0}
  BY DEF Placed
<1>2. /\ IsFiniteSet(A) /\ Cardinality(A) = Len(a) /\ Len(a) \in Nat
      /\ IsFiniteSet(B) /\ Cardinality(B) = Len(b) /\ Len(b) \in Nat
      /\ IsFiniteSet(C) /\ Cardinality(C) = Len(c) /\ Len(c) \in Nat
  BY OnceCounts DEF Placed
<1>3. ToSet(a \o b \o c) = A \cup B \cup C
  <2>1. a \o b \in Seq(Nat) /\ ToSet(a \o b) = A \cup B
    BY ToSetOfConcat, ConcatProperties DEF Placed
  <2>2. ToSet((a \o b) \o c) = ToSet(a \o b) \cup C
    BY <2>1, ToSetOfConcat DEF Placed
  <2>3. QED BY <2>1, <2>2
<1> HIDE DEF A, B, C
<1>4. IsFiniteSet(1 .. n - 1) /\ Cardinality(1 .. n - 1) = n - 1
  BY <1>1, FS_Interval
<1>5. IsFiniteSet(D) /\ Cardinality(D) \in Nat
  <2>1. D \in SUBSET (1 .. n - 1)
    BY <1>1 DEF Shared
  <2>2. QED BY <1>4, <2>1, FS_Subset, FS_CardinalityType
<1>6. /\ IsFiniteSet(A \cup B) /\ Cardinality(A \cup B) = Len(a) + Len(b)
  <2>1. A \cap B = {}
    BY <1>1 DEF Shared
  <2>2. IsFiniteSet(A \cup B) /\ Cardinality(A \cup B) = Cardinality(A) + Cardinality(B)
    BY <1>2, <2>1, ApartAddsUp, Zenon
  <2>3. QED BY <1>2, <2>2
<1>7. /\ IsFiniteSet(A \cup B \cup C) /\ Cardinality(A \cup B \cup C) = Len(a) + Len(b) + Len(c)
  <2>1. (A \cup B) \cap C = {}
    BY <1>1 DEF Shared
  <2>2. /\ IsFiniteSet((A \cup B) \cup C)
        /\ Cardinality((A \cup B) \cup C) = Cardinality(A \cup B) + Cardinality(C)
    BY <1>2, <1>6, <2>1, ApartAddsUp, Zenon
  <2>3. QED BY <1>2, <1>6, <2>2
<1>8. Cardinality(A \cup B \cup C \cup D) = Len(a) + Len(b) + Len(c) + Cardinality(D)
  <2>1. (A \cup B \cup C) \cap D = {}
    BY <1>1 DEF Shared
  <2>2. QED BY <1>2, <1>5, <1>7, <2>1, ApartAddsUp
<1>9. A \cup B \cup C \cup D = 1 .. n - 1
  BY <1>1 DEF Shared
<1>10. QED BY <1>3, <1>4, <1>8, <1>9

LEMMA MaybeMoved ==
  ASSUME NEW a, NEW b, NEW c, NEW D, NEW n, Placed(a, b, c, D, n), NEW p \in BOOLEAN,
         p => b # <<>>
  PROVE  Placed(Sent(a, p, Head(b)), Left(b, p), c, D, n)
BY WordIsMoved DEF Sent, Left

LEMMA MaybeComes ==
  ASSUME NEW a, NEW b, NEW c, NEW D, NEW n, Placed(a, b, c, D, n), NEW p \in BOOLEAN
  PROVE  Placed(Sent(a, p, n), b, c, D, IF p THEN n + 1 ELSE n)
BY WordIsPlaced DEF Sent

(* The moves of a clock edge, without the resets, leave every word in one  *)
(* place, whatever a disabled core still holds.                            *)
LEMMA PlacesMove ==
  ASSUME RegsOK, Placed(out, l_fifo, d_fifo, dropped, next),
         NEW in \in {<<>>, <<next>>}, NEW mac \in BOOLEAN
  PROVE  Placed(NewOut(in, mac), NewLimiter(in, mac), NewDelay(in, mac), dropped,
                NewNext(in, mac))
<1> DEFINE lm == l_moves(in, mac)  dm == d_moves(in, mac)  ac == accepts(in, mac)
           n1 == IF ac THEN next + 1 ELSE next
<1>1. /\ WordsTyped /\ rl.en \in {0, 1} /\ ipd.en \in {0, 1}
      /\ lm \in BOOLEAN /\ dm \in BOOLEAN /\ ac \in BOOLEAN
      /\ n1 = NewNext(in, mac)
  BY DEF Placed, WordsTyped, RegsOK, l_moves, d_moves, accepts, NewNext
<1>2. CASE rl.en = 1 /\ ipd.en = 1
  <2>1. /\ lm => l_fifo # <<>>
        /\ dm => d_fifo # <<>>
        /\ NewOut(in, mac) = Sent(out, lm, Head(l_fifo))
        /\ NewLimiter(in, mac) = Sent(Left(l_fifo, lm), dm, Head(d_fifo))
        /\ NewDelay(in, mac) = Sent(Left(d_fifo, dm), ac, next)
    BY <1>1, <1>2, MovesBothOn
  <2> DEFINE o1 == Sent(out, lm, Head(l_fifo))  l1 == Left(l_fifo, lm)
             l2 == Sent(l1, dm, Head(d_fifo))  d1 == Left(d_fifo, dm)
             d2 == Sent(d1, ac, next)
  <2> HIDE DEF lm, dm, ac
  <2>2. Placed(o1, l1, d_fifo, dropped, next)
    BY <1>1, <2>1, MaybeMoved
  <2> HIDE DEF o1, l1
  <2>3. Placed(l1, d_fifo, o1, dropped, next)
    BY <2>2, PlacesSwap
  <2>4. Placed(l2, d1, o1, dropped, next)
    BY <1>1, <2>1, <2>3, MaybeMoved
  <2> HIDE DEF l2, d1
  <2>5. Placed(d1, l2, o1, dropped, next)
    BY <2>4, PlacesSwap
  <2>6. Placed(d2, l2, o1, dropped, n1)
    BY <1>1, <2>5, MaybeComes
  <2> HIDE DEF d2
  <2>7. Placed(o1, l2, d2, dropped, n1)
    BY <2>6, PlacesSwap
  <2>8. QED BY <1>1, <2>1, <2>7, Zenon DEF o1, l2, l1, d2, d1
<1>3. CASE rl.en = 1 /\ ipd.en = 0
  <2>1. /\ lm => l_fifo # <<>>
        /\ NewOut(in, mac) = Sent(out, lm, Head(l_fifo))
        /\ NewLimiter(in, mac) = Sent(Left(l_fifo, lm), ac, next)
        /\ NewDelay(in, mac) = d_fifo
    BY <1>1, <1>3, MovesDelayOff
  <2> DEFINE o1 == Sent(out, lm, Head(l_fifo))  l1 == Left(l_fifo, lm)
             l2 == Sent(l1, ac, next)
  <2> HIDE DEF lm, dm, ac
  <2>2. Placed(o1, l1, d_fifo, dropped, next)
    BY <1>1, <2>1, MaybeMoved
  <2> HIDE DEF o1, l1
  <2>3. Placed(l1, o1, d_fifo, dropped, next)
    BY <2>2, PlacesSwap
  <2>4. Placed(l2, o1, d_fifo, dropped, n1)
    BY <1>1, <2>3, MaybeComes
  <2> HIDE DEF l2
  <2>5. Placed(o1, l2, d_fifo, dropped, n1)
    BY <2>4, PlacesSwap
  <2>6. QED BY <1>1, <2>1, <2>5, Zenon DEF o1, l2, l1
<1>4. CASE rl.en = 0 /\ ipd.en = 1
  <2>1. /\ dm => d_fifo # <<>>
        /\ NewOut(in, mac) = Sent(out, dm, Head(d_fifo))
        /\ NewLimiter(in, mac) = l_fifo
        /\ NewDelay(in, mac) = Sent(Left(d_fifo, dm), ac, next)
    BY <1>1, <1>4, MovesLimiterOff
  <2> DEFINE o1 == Sent(out, dm, Head(d_fifo))  d1 == Left(d_fifo, dm)
             d2 == Sent(d1, ac, next)
  <2> HIDE DEF lm, dm, ac
  <2>2. Placed(out, d_fifo, l_fifo, dropped, next)
    BY PlacesSwap
  <2>3. Placed(o1, d1, l_fifo, dropped, next)
    BY <1>1, <2>1, <2>2, MaybeMoved
  <2> HIDE DEF o1, d1
  <2>4. Placed(d1, o1, l_fifo, dropped, next)
    BY <2>3, PlacesSwap
  <2>5. Placed(d2, o1, l_fifo, dropped, n1)
    BY <1>1, <2>4, MaybeComes
  <2> HIDE DEF d2
  <2>6. Placed(o1, d2, l_fifo, dropped, n1)
    BY <2>5, PlacesSwap
  <2>7. Placed(o1, l_fifo, d2, dropped, n1)
    BY <2>6, PlacesSwap
  <2>8. QED BY <1>1, <2>1, <2>7, Zenon DEF o1, d2, d1
<1>5. CASE rl.en = 0 /\ ipd.en = 0
  <2>1. /\ NewOut(in, mac) = Sent(out, ac, next)
        /\ NewLimiter(in, mac) = l_fifo /\ NewDelay(in, mac) = d_fifo
    BY <1>1, <1>5, MovesBothOff
  <2> HIDE DEF lm, dm, ac
  <2>2. Placed(Sent(out, ac, next), l_fifo, d_fifo, dropped, n1)
    BY <1>1, MaybeComes
  <2>3. QED BY <1>1, <2>1, <2>2, Zenon
<1>6. QED BY <1>1, <1>2, <1>3, <1>4, <1>5

(* A reset of a core moves what its FIFO would have held to the words lost. *)
LEMMA TickPlaces ==
  ASSUME RegsOK, Placed(out, l_fifo, d_fifo, dropped, next),
         NEW in \in Offers, NEW mac \in BOOLEAN, Tick(in, mac)
  PROVE  Placed(out, l_fifo, d_fifo, dropped, next)'
<1> DEFINE o1 == NewOut(in, mac)  l1 == NewLimiter(in, mac)  d1 == NewDelay(in, mac)
           n1 == NewNext(in, mac)
           D1 == dropped \cup (IF ipd.rst = 0 THEN {} ELSE ToSet(d1))
           D2 == D1 \cup (IF rl.rst = 0 THEN {} ELSE ToSet(l1))
<1>1. Placed(o1, l1, d1, dropped, n1)
  <2>1. in \in {<<>>, <<next>>}
    BY DEF Offers
  <2>2. QED BY <2>1, PlacesMove
<1>2. /\ out' = o1 /\ next' = n1
      /\ l_fifo' = IF rl.rst = 1 THEN <<>> ELSE l1
      /\ d_fifo' = IF ipd.rst = 1 THEN <<>> ELSE d1
      /\ rl.rst \in {0, 1} /\ ipd.rst \in {0, 1}
  BY DEF Tick, Histories, LimiterEdge, DelayerEdge, NewOut, NewNext, NewLimiter, NewDelay,
         RegsOK
<1>3. dropped' = D2
  <2>1. Flushed(ipd, d_fifo, d_moves(in, mac), IF accepts(in, mac) THEN in ELSE <<>>)
          = IF ipd.rst = 0 THEN {} ELSE ToSet(d1)
    BY Zenon DEF Flushed, NewDelay
  <2>2. Flushed(rl, l_fifo, l_moves(in, mac), IF d_moves(in, mac) THEN d_offer(in) ELSE <<>>)
          = IF rl.rst = 0 THEN {} ELSE ToSet(l1)
    BY Zenon DEF Flushed, NewLimiter
  <2>3. QED BY <2>1, <2>2, Zenon DEF Tick, Histories
<1> HIDE DEF o1, l1, d1, n1
<1>4. Placed(d_fifo', l1, o1, D1, n1)
  <2>1. Placed(d1, l1, o1, dropped, n1)
    BY <1>1, PlacesSwap
  <2>2. CASE ipd.rst = 0
    BY <1>2, <2>1, <2>2
  <2>3. CASE ipd.rst = 1
    <3>1. Placed(<<>>, l1, o1, dropped \cup ToSet(d1), n1)
      BY <2>1, WordsAreDropped
    <3>2. QED BY <1>2, <2>3, <3>1
  <2>4. QED BY <1>2, <2>2, <2>3
<1> HIDE DEF D1
<1>5. Placed(l_fifo', d_fifo', o1, D2, n1)
  <2>1. Placed(l1, d_fifo', o1, D1, n1)
    BY <1>4, PlacesSwap
  <2>2. CASE rl.rst = 0
    BY <1>2, <2>1, <2>2
  <2>3. CASE rl.rst = 1
    <3>1. Placed(<<>>, d_fifo', o1, D1 \cup ToSet(l1), n1)
      BY <2>1, WordsAreDropped
    <3>2. QED BY <1>2, <2>3, <3>1
  <2>4. QED BY <1>2, <2>2, <2>3
<1> HIDE DEF D2
<1>6. Placed(o1, l_fifo', d_fifo', D2, n1)
  <2>1. Placed(o1, d_fifo', l_fifo', D2, n1)
    BY <1>5, PlacesSwap
  <2>2. QED BY <2>1, PlacesSwap
<1>7. QED BY <1>2, <1>3, <1>6

LEMMA PlacesInvariant == Spec => []Placed(out, l_fifo, d_fifo, dropped, next)
<1>1. Init => Placed(out, l_fifo, d_fifo, dropped, next)
  BY DEF Init, Placed, Shared, Once, ToSet
<1>2. /\ PortInv /\ Placed(out, l_fifo, d_fifo, dropped, next) /\ [Next]_vars
      => Placed(out, l_fifo, d_fifo, dropped, next)'
  <2> SUFFICES ASSUME PortInv, Placed(out, l_fifo, d_fifo, dropped, next), [Next]_vars
               PROVE  Placed(out, l_fifo, d_fifo, dropped, next)'
    OBVIOUS
  <2>1. CASE \E in \in Offers, mac \in BOOLEAN : Tick(in, mac)
    BY <2>1, TickPlaces DEF PortInv
  <2>2. CASE UserActs \/ HostWrites \/ UNCHANGED vars
    <3>1. UNCHANGED <<out, l_fifo, d_fifo, dropped, next>>
      BY <2>2 DEF UserActs, HostWrites, vars, engine, cores, history
    <3>2. QED BY <3>1
  <2>3. QED BY <2>1, <2>2 DEF Next
<1>3. QED BY <1>1, <1>2, PortInvariant, PTL DEF Spec

(* No word the engine hands over is lost without a reset, none is sent     *)
(* twice, whatever the file and however the host enables, disables and     *)
(* resets the two cores while packets pass (rate_limiter_simple.v:148-157, *)
(* inter_packet_delay.v:144-153).                                          *)
THEOREM WordsOnce == Spec => []EachWordOnce
<1>1. Placed(out, l_fifo, d_fifo, dropped, next) => EachWordOnce
  BY PlacedAddsUp DEF EachWordOnce
<1>2. QED BY <1>1, PlacesInvariant, PTL

-----------------------------------------------------------------------------
(* The gap behind a packet.  First the words of the packet on the wire:    *)
(* the last end of a packet among the words sent is there to be counted    *)
(* from, and one more word either ends the packet or adds to it.           *)
EndsPacket(w) == Words[w].last
Ends == {0} \cup {i \in DOMAIN out : EndsPacket(out[i])}

WireOK ==
  /\ out \in Seq(Nat)
  /\ \E m \in Ends : \A k \in Ends : m >= k

LEMMA MaxIs ==
  ASSUME NEW S, S \subseteq Int, NEW m \in S, \A k \in S : m >= k
  PROVE  Max(S) = m
<1>1. \A x \in S : (\A k \in S : x >= k) => x = m
  BY DEF Max
<1>2. QED BY <1>1 DEF Max

LEMMA OnWireCounts ==
  WireOK => /\ OnWire \in Nat /\ Max(Ends) \in 0 .. Len(out)
            /\ \A k \in Ends : Max(Ends) >= k
            /\ OnWire = Len(out) - Max(Ends)
<1> SUFFICES ASSUME WireOK
             PROVE  /\ OnWire \in Nat /\ Max(Ends) \in 0 .. Len(out)
                    /\ \A k \in Ends : Max(Ends) >= k
                    /\ OnWire = Len(out) - Max(Ends)
  OBVIOUS
<1>1. Ends \subseteq 0 .. Len(out) /\ Len(out) \in Nat
  BY DEF WireOK, Ends
<1>2. PICK m \in Ends : \A k \in Ends : m >= k
  BY DEF WireOK
<1>3. Max(Ends) = m
  <2>1. Ends \subseteq Int
    BY <1>1
  <2>2. QED BY <1>2, <2>1, MaxIs
<1>4. OnWire = Len(out) - Max(Ends)
  BY Zenon DEF OnWire, Ends, EndsPacket
<1>5. QED BY <1>1, <1>2, <1>3, <1>4

LEMMA OnWireGrows ==
  ASSUME WireOK, NEW w \in Nat, out' = Append(out, w), UNCHANGED <<trace, stamped>>
  PROVE  WireOK' /\ OnWire' = IF EndsPacket(w) THEN 0 ELSE OnWire + 1
<1>1. /\ out' \in Seq(Nat) /\ Len(out') = Len(out) + 1 /\ Len(out) \in Nat
      /\ DOMAIN out = 1 .. Len(out) /\ DOMAIN out' = 1 .. Len(out) + 1
      /\ out'[Len(out) + 1] = w /\ \A i \in 1 .. Len(out) : out'[i] = out[i]
  BY DEF WireOK
<1>2. \A v : EndsPacket(v)' <=> EndsPacket(v)
  BY DEF EndsPacket, Words
<1>3. Ends' = {0} \cup {i \in DOMAIN out' : EndsPacket(out'[i])}
  BY <1>2 DEF Ends
<1>4. /\ OnWire \in Nat /\ Max(Ends) \in 0 .. Len(out) /\ \A k \in Ends : Max(Ends) >= k
      /\ OnWire = Len(out) - Max(Ends) /\ Max(Ends) \in Ends
  <2>1. PICK m \in Ends : \A k \in Ends : m >= k
    BY DEF WireOK
  <2>2. Ends \subseteq Int
    BY <1>1 DEF Ends
  <2>3. Max(Ends) = m
    BY <2>1, <2>2, MaxIs
  <2>4. QED BY <2>1, <2>3, OnWireCounts
<1>5. CASE EndsPacket(w)
  <2>1. Len(out) + 1 \in Ends' /\ \A k \in Ends' : Len(out) + 1 >= k
    BY <1>1, <1>3, <1>5
  <2>2. WireOK'
    BY <1>1, <2>1 DEF WireOK
  <2>3. Max(Ends)' = Len(out) + 1
    <3>1. Ends' \subseteq Int
      BY <1>1, <1>3
    <3>2. Max(Ends') = Len(out) + 1
      BY <2>1, <3>1, MaxIs
    <3>3. QED BY <3>2 DEF Max
  <2>4. (OnWire = Len(out) - Max(Ends))'
    BY <2>2, OnWireCounts, PTL
  <2>5. QED BY <1>1, <1>5, <2>2, <2>3, <2>4
<1>6. CASE ~EndsPacket(w)
  <2>1. Ends' = Ends
    <3>1. ASSUME NEW k PROVE k \in Ends' <=> k \in Ends
      <4>1. CASE k = Len(out) + 1
        BY <1>1, <1>3, <1>6, <4>1 DEF Ends
      <4>2. CASE k # Len(out) + 1
        BY <1>1, <1>3, <4>2 DEF Ends
      <4>3. QED BY <4>1, <4>2
    <3>2. QED BY <3>1
  <2>2. WireOK'
    BY <1>1, <2>1 DEF WireOK
  <2>3. (OnWire = Len(out) - Max(Ends))'
    BY <2>2, OnWireCounts, PTL
  <2>4. Max(Ends)' = Max(Ends)
    BY <2>1 DEF Max
  <2>5. QED BY <1>1, <1>4, <1>6, <2>2, <2>3, <2>4
<1>7. QED BY <1>5, <1>6

(* A power of two, as the number of subsets of a set.                      *)
LEMMA PowerOfTwo ==
  ASSUME NEW n \in Nat
  PROVE  2 ^ n \in Nat \ {0}
<1>1. IsFiniteSet(1 .. n) /\ Cardinality(1 .. n) = n
  BY FS_Interval
<1>2. IsFiniteSet(SUBSET (1 .. n)) /\ Cardinality(SUBSET (1 .. n)) = 2 ^ n
  BY <1>1, FS_SUBSET
<1>3. SUBSET (1 .. n) # {}
  OBVIOUS
<1>4. QED BY <1>2, <1>3, FS_CardinalityType, FS_EmptySet

(* The limiter's timer counts the words of the packet on the wire and then *)
(* the ticks it keeps the wire; while nothing disturbed it, these are what *)
(* the histories say.                                                      *)
LimiterTyped ==
  /\ limiter \in [state : {"WAIT_FOR_PKT", "WAIT_FOR_IPG"}, timer_ticks : Nat]
  /\ rest \in Nat
  /\ limiter.state = "WAIT_FOR_IPG" => limiter.timer_ticks > 0

TimerTrue ==
  /\ rl.en = 1 /\ limiter.state = "WAIT_FOR_PKT" => limiter.timer_ticks = OnWire /\ rest = 0
  /\ limiter.state = "WAIT_FOR_IPG" => limiter.timer_ticks = rest /\ OnWire = 0
  /\ rl.en = 0 => limiter.timer_ticks = 0 /\ rest = 0

GapInv == WireOK /\ LimiterTyped /\ (steady => TimerTrue)

(* When all is quiet the timer is true.                                    *)
LEMMA QuietIsTrue == LimiterTyped /\ Quiet => TimerTrue
BY DEF LimiterTyped, Quiet, TimerTrue

LEMMA HostWritesGap ==
  ASSUME PortInv, GapInv, HostWrites
  PROVE  GapInv'
<1>1. /\ UNCHANGED <<limiter, rest, out, trace, stamped>>
      /\ steady' => steady /\ (rl'.en # rl.en => Quiet)
  <2>1. PICK w \in Writes : w = Head(todo)
    BY DEF HostWrites, PortInv
  <2>2. /\ rl' = IF w[1] = "rl" THEN [rl EXCEPT ![w[2]] = w[3]] ELSE rl
        /\ steady' = (steady /\ (w[1] = "rl" /\ w[2] = "en" /\ rl.en # w[3] => Quiet))
    BY <2>1 DEF HostWrites
  <2>3. /\ w[1] = "rl" => w[2] \in {"rst", "en", "rate"}
        /\ rl \in [rst : {0, 1}, en : {0, 1}, rate : Rates \cup {0}]
    BY DEF Writes, PortInv, RegsOK
  <2>4. w[1] = "rl" /\ w[2] # "en" => rl'.en = rl.en
    BY <2>2, <2>3
  <2>5. w[1] = "rl" /\ w[2] = "en" => rl'.en = w[3]
    BY <2>2, <2>3
  <2>6. steady' => steady /\ (rl'.en # rl.en => Quiet)
    BY <2>2, <2>4, <2>5
  <2>7. UNCHANGED <<limiter, rest, out, trace, stamped>>
    BY DEF HostWrites, engine, cores
  <2>8. QED BY <2>6, <2>7
<1>2. OnWire' = OnWire /\ WireOK' /\ LimiterTyped'
  BY <1>1 DEF OnWire, Words, GapInv, WireOK, Ends, EndsPacket, LimiterTyped
<1>3. ASSUME steady' PROVE TimerTrue'
  <2>1. CASE rl'.en = rl.en
    BY <1>1, <1>2, <1>3, <2>1 DEF GapInv, TimerTrue
  <2>2. CASE rl'.en # rl.en
    <3>1. Quiet'
      BY <1>1, <1>2, <1>3, <2>2 DEF Quiet
    <3>2. QED BY <1>2, <3>1, QuietIsTrue, PTL
  <2>3. QED BY <2>1, <2>2
<1>4. QED BY <1>2, <1>3 DEF GapInv

(* What a clock edge does to the words on the wire.                        *)
LEMMA TickWire ==
  ASSUME PortInv, WordsTyped, GapInv, NEW in \in Offers, NEW mac \in BOOLEAN, Tick(in, mac)
  PROVE  /\ WireOK'
         /\ ~l_moves(in, mac) => OnWire' = OnWire
         /\ l_moves(in, mac) => OnWire' = IF EndsPacket(l_offer(in)[1]) THEN 0 ELSE OnWire + 1
         /\ rl.en = 1 /\ l_moves(in, mac)
              => limiter.state = "WAIT_FOR_PKT" /\ Head(l_fifo) = l_offer(in)[1]
<1>1. /\ out' = IF l_moves(in, mac) THEN out \o l_offer(in) ELSE out
      /\ UNCHANGED <<trace, stamped>>
      /\ in \in {<<>>, <<next>>}
  BY DEF Tick, Histories, Offers
<1>2. WireOK
  BY DEF GapInv
<1>3. CASE l_moves(in, mac)
  <2>1. PICK w \in Nat : l_offer(in) = <<w>>
    <3>1. /\ l_fifo # <<>> => Head(l_fifo) \in Nat
          /\ d_fifo # <<>> => Head(d_fifo) \in Nat
          /\ next \in Nat
      BY DEF WordsTyped
    <3>2. d_offer(in) # <<>> => \E v \in Nat : d_offer(in) = <<v>>
      BY <1>1, <3>1, Zenon DEF d_offer
    <3>3. l_offer(in) # <<>> => \E v \in Nat : l_offer(in) = <<v>>
      BY <3>1, <3>2, Zenon DEF l_offer
    <3>4. QED BY <1>3, <3>3 DEF l_moves
  <2>2. out' = Append(out, w) /\ l_offer(in)[1] = w
    BY <1>1, <1>3, <2>1, ConcatOne DEF WordsTyped
  <2>3. WireOK' /\ OnWire' = IF EndsPacket(w) THEN 0 ELSE OnWire + 1
    BY <1>1, <1>2, <2>2, OnWireGrows
  <2>4. rl.en = 1 => limiter.state = "WAIT_FOR_PKT" /\ Head(l_fifo) = l_offer(in)[1]
    BY <1>3 DEF l_moves, l_offer
  <2>5. QED BY <1>3, <2>2, <2>3, <2>4, Zenon
<1>4. CASE ~l_moves(in, mac)
  BY <1>1, <1>2, <1>4 DEF OnWire, Words, WireOK, Ends, EndsPacket
<1>5. QED BY <1>3, <1>4

LEMMA TickGap ==
  ASSUME PortInv, WordsTyped, GapInv, NEW in \in Offers, NEW mac \in BOOLEAN, Tick(in, mac)
  PROVE  GapInv'
<1> DEFINE lm == l_moves(in, mac)  last == EndsPacket(l_offer(in)[1])
           ticks == limiter.timer_ticks  pow == 2 ^ rl.rate
<1>1. /\ WireOK'
      /\ ~lm => OnWire' = OnWire
      /\ lm => OnWire' = IF last THEN 0 ELSE OnWire + 1
      /\ rl.en = 1 /\ lm => limiter.state = "WAIT_FOR_PKT" /\ Head(l_fifo) = l_offer(in)[1]
  BY TickWire, Zenon
<1>2. /\ OnWire \in Nat /\ ticks \in Nat /\ rest \in Nat /\ pow \in Nat \ {0}
      /\ rl.rst \in {0, 1} /\ rl.en \in {0, 1} /\ UNCHANGED rl
      /\ limiter.state \in {"WAIT_FOR_PKT", "WAIT_FOR_IPG"}
      /\ limiter.state = "WAIT_FOR_IPG" => ticks > 0
      /\ limiter = [state |-> limiter.state, timer_ticks |-> ticks]
  <2>1. rl.rate \in Nat
    <3>1. Rates \subseteq Nat /\ 0 \in Nat
      BY ShapingAssumption DEF ShapingAssumption
    <3>2. rl.rate \in Rates \cup {0}
      BY DEF PortInv, RegsOK
    <3>3. QED BY <3>1, <3>2, Zenon
  <2>2. UNCHANGED rl
    BY DEF Tick, host, regs
  <2>3. QED BY <2>1, <2>2, OnWireCounts, PowerOfTwo DEF GapInv, LimiterTyped, PortInv, RegsOK
<1>3. /\ rl.rst = 1 => rest' = 0
      /\ rl.rst = 0 => rest' = IF lm /\ rl.en = 1 /\ last THEN (OnWire + 1) * pow ELSE Less1(rest)
      /\ steady' => Quiet' \/ (steady /\ rl.rst = 0)
  <2>1. /\ rest' = IF rl.rst = 1 THEN 0 ELSE RestAfter(in, mac)
        /\ steady' = (Quiet' \/ (steady /\ rl.rst = 0))
    BY DEF Tick, Histories
  <2>2. RestAfter(in, mac) = IF lm /\ rl.en = 1 /\ last THEN (OnWire + 1) * pow ELSE Less1(rest)
    BY Zenon DEF RestAfter, EndsPacket
  <2>3. rl.rst = 0 => ~(rl.rst = 1)
    OBVIOUS
  <2>4. QED BY <2>1, <2>2, <2>3, Zenon
<1>4. CASE rl.rst = 1
  <2>1. limiter' = [state |-> "WAIT_FOR_PKT", timer_ticks |-> 0] /\ rest' = 0
    BY <1>3, <1>4 DEF Tick, LimiterEdge
  <2>2. LimiterTyped'
    BY <2>1 DEF LimiterTyped
  <2>3. Quiet' => TimerTrue'
    BY <2>2, QuietIsTrue, PTL
  <2>4. steady' => TimerTrue'
    BY <1>3, <1>4, <2>3
  <2>5. QED BY <1>1, <2>2, <2>4 DEF GapInv
<1>5. CASE rl.rst = 0
  <2>1. limiter' = Limiter(in, mac)
    BY <1>5 DEF Tick, LimiterEdge
  <2>2. /\ rl.en = 0 => limiter' = [limiter EXCEPT !.state = "WAIT_FOR_PKT"]
        /\ rl.en = 1 /\ limiter.state = "WAIT_FOR_PKT" /\ ~lm => limiter' = limiter
        /\ rl.en = 1 /\ limiter.state = "WAIT_FOR_PKT" /\ lm /\ last
             => limiter' = [state |-> "WAIT_FOR_IPG", timer_ticks |-> (ticks + 1) * pow]
        /\ rl.en = 1 /\ limiter.state = "WAIT_FOR_PKT" /\ lm /\ ~last
             => limiter' = [limiter EXCEPT !.timer_ticks = @ + 1]
        /\ rl.en = 1 /\ limiter.state = "WAIT_FOR_IPG" /\ ticks > 1
             => limiter' = [limiter EXCEPT !.timer_ticks = @ - 1]
        /\ rl.en = 1 /\ limiter.state = "WAIT_FOR_IPG" /\ ~(ticks > 1)
             => limiter' = [state |-> "WAIT_FOR_PKT", timer_ticks |-> 0]
    <3>1. CASE rl.en = 0
      BY <2>1, <3>1 DEF Limiter
    <3>2. CASE rl.en = 1 /\ limiter.state = "WAIT_FOR_PKT"
      <4>1. limiter' = IF ~lm THEN limiter
                       ELSE IF EndsPacket(Head(l_fifo))
                            THEN [state |-> "WAIT_FOR_IPG", timer_ticks |-> (ticks + 1) * pow]
                            ELSE [limiter EXCEPT !.timer_ticks = @ + 1]
        BY <2>1, <3>2 DEF Limiter, EndsPacket
      <4>2. lm => Head(l_fifo) = l_offer(in)[1]
        BY <1>1, <3>2
      <4>3. ~(rl.en = 0) /\ ~(limiter.state = "WAIT_FOR_IPG")
        BY <3>2
      <4>4. QED BY <3>2, <4>1, <4>2, <4>3, Zenon
    <3>3. CASE rl.en = 1 /\ limiter.state = "WAIT_FOR_IPG"
      BY <2>1, <3>3 DEF Limiter
    <3>4. \/ rl.en = 0
          \/ rl.en = 1 /\ limiter.state = "WAIT_FOR_PKT"
          \/ rl.en = 1 /\ limiter.state = "WAIT_FOR_IPG"
      BY <1>2, Zenon
    <3>5. QED BY <3>1, <3>2, <3>3, <3>4, Zenon
  <2> HIDE DEF pow, ticks, last, lm
  <2>3. (OnWire + 1) * pow \in Nat \ {0} /\ (ticks + 1) * pow \in Nat \ {0}
    BY <1>2
  <2>4. LimiterTyped'
    <3>1. rest' \in Nat
      BY <1>2, <1>3, <1>5, <2>3 DEF Less1
    <3>2. /\ limiter' \in [state : {"WAIT_FOR_PKT", "WAIT_FOR_IPG"}, timer_ticks : Nat]
          /\ limiter'.state = "WAIT_FOR_IPG" => limiter'.timer_ticks > 0
      BY <1>2, <2>2, <2>3 DEF ticks
    <3>3. QED BY <3>1, <3>2 DEF LimiterTyped
  <2>5. ASSUME steady' PROVE TimerTrue'
    <3>1. CASE Quiet'
      BY <2>4, <3>1, QuietIsTrue, PTL
    <3>2. CASE steady
      <4>1. /\ rl.en = 1 /\ limiter.state = "WAIT_FOR_PKT" => ticks = OnWire /\ rest = 0
            /\ limiter.state = "WAIT_FOR_IPG" => ticks = rest /\ OnWire = 0
            /\ rl.en = 0 => ticks = 0 /\ rest = 0
        BY <3>2 DEF GapInv, TimerTrue, ticks
      <4>2. CASE rl.en = 0
        <5>1. /\ limiter'.state = "WAIT_FOR_PKT" /\ limiter'.timer_ticks = ticks
          BY <1>2, <2>2, <4>2 DEF ticks
        <5>2. rest' = 0
          BY <1>3, <1>5, <4>1, <4>2 DEF Less1
        <5>3. QED BY <1>2, <4>1, <4>2, <5>1, <5>2 DEF TimerTrue
      <4>3. CASE rl.en = 1 /\ limiter.state = "WAIT_FOR_PKT" /\ ~lm
        BY <1>1, <1>2, <1>3, <1>5, <2>2, <4>1, <4>3 DEF TimerTrue, Less1, ticks
      <4>4. CASE rl.en = 1 /\ limiter.state = "WAIT_FOR_PKT" /\ lm /\ last
        <5>1. limiter'.state = "WAIT_FOR_IPG" /\ limiter'.timer_ticks = (ticks + 1) * pow
          BY <2>2, <4>4
        <5>2. rest' = (OnWire + 1) * pow /\ OnWire' = 0
          BY <1>1, <1>3, <1>5, <4>4
        <5>3. limiter'.timer_ticks = rest'
          BY <4>1, <4>4, <5>1, <5>2
        <5>4. QED BY <1>2, <4>4, <5>1, <5>2, <5>3 DEF TimerTrue
      <4>5. CASE rl.en = 1 /\ limiter.state = "WAIT_FOR_PKT" /\ lm /\ ~last
        <5>1. limiter'.state = "WAIT_FOR_PKT" /\ limiter'.timer_ticks = ticks + 1
          BY <1>2, <2>2, <4>5 DEF ticks
        <5>2. rest' = 0 /\ OnWire' = OnWire + 1
          BY <1>1, <1>3, <1>5, <4>1, <4>5 DEF Less1
        <5>3. QED BY <1>2, <4>1, <4>5, <5>1, <5>2 DEF TimerTrue
      <4>6. CASE rl.en = 1 /\ limiter.state = "WAIT_FOR_IPG"
        <5>1. ~lm /\ OnWire' = 0 /\ rest' = Less1(rest) /\ ticks = rest
          BY <1>1, <1>3, <1>5, <4>1, <4>6
        <5>2. CASE ticks > 1
          <6>1. limiter'.state = "WAIT_FOR_IPG" /\ limiter'.timer_ticks = ticks - 1
            BY <1>2, <2>2, <4>6, <5>2 DEF ticks
          <6>2. rest' = ticks - 1
            BY <1>2, <5>1, <5>2 DEF Less1
          <6>3. QED BY <1>2, <4>6, <5>1, <6>1, <6>2 DEF TimerTrue
        <5>3. CASE ~(ticks > 1)
          <6>1. limiter'.state = "WAIT_FOR_PKT" /\ limiter'.timer_ticks = 0
            BY <2>2, <4>6, <5>3
          <6>2. rest' = 0
            BY <1>2, <4>6, <5>1, <5>3 DEF Less1
          <6>3. QED BY <1>2, <4>6, <5>1, <6>1, <6>2 DEF TimerTrue
        <5>4. QED BY <5>2, <5>3
      <4>7. QED BY <1>2, <4>2, <4>3, <4>4, <4>5, <4>6
    <3>3. QED BY <1>3, <2>5, <3>1, <3>2
  <2>6. QED BY <1>1, <2>4, <2>5 DEF GapInv
<1>6. QED BY <1>2, <1>4, <1>5

LEMMA GapInvariant == Spec => []GapInv
<1>1. Init => GapInv
  <2> SUFFICES ASSUME Init PROVE GapInv
    OBVIOUS
  <2>1. out = <<>> /\ limiter = [state |-> "WAIT_FOR_PKT", timer_ticks |-> 0] /\ rest = 0
    BY DEF Init
  <2>2. Ends = {0} /\ WireOK
    BY <2>1 DEF Ends, WireOK
  <2>3. OnWire = 0
    <3>1. Max(Ends) \in 0 .. Len(out) /\ OnWire = Len(out) - Max(Ends)
      BY <2>2, OnWireCounts
    <3>2. QED BY <2>1, <3>1
  <2>4. LimiterTyped /\ TimerTrue
    BY <2>1, <2>3 DEF LimiterTyped, TimerTrue
  <2>5. QED BY <2>2, <2>4 DEF GapInv
<1>2. /\ PortInv /\ Placed(out, l_fifo, d_fifo, dropped, next) /\ GapInv /\ [Next]_vars
      => GapInv'
  <2> SUFFICES ASSUME PortInv, Placed(out, l_fifo, d_fifo, dropped, next), GapInv, [Next]_vars
               PROVE  GapInv'
    OBVIOUS
  <2>1. CASE \E in \in Offers, mac \in BOOLEAN : Tick(in, mac)
    <3>1. WordsTyped
      BY DEF Placed, WordsTyped
    <3>2. QED BY <2>1, <3>1, TickGap
  <2>2. CASE HostWrites
    BY <2>2, HostWritesGap
  <2>3. CASE UserActs \/ UNCHANGED vars
    <3>1. UNCHANGED <<out, limiter, rest, steady, rl, trace, stamped>>
      BY <2>3 DEF UserActs, vars, host, regs, engine, cores, history
    <3>2. Words' = Words
      BY <3>1, Zenon DEF Words
    <3>3. OnWire' = OnWire
      BY <3>1, <3>2, Zenon DEF OnWire
    <3>4. WireOK'
      BY <3>1, <3>2 DEF GapInv, WireOK, Ends, EndsPacket
    <3>5. QED BY <3>1, <3>3, <3>4 DEF GapInv, LimiterTyped, TimerTrue
  <2>4. QED BY <2>1, <2>2, <2>3 DEF Next
<1>3. QED BY <1>1, <1>2, PortInvariant, PlacesInvariant, PTL DEF Spec

(* Behind a packet of w words the limiter keeps the wire w * 2^rate ticks, *)
(* no more and no less, for every rate, whatever the host wrote since, as  *)
(* long as it did not switch or reset the limiter in the middle of one     *)
(* (rate_limiter_simple.v:157-190, generator.py:549).                      *)
THEOREM GapKept == Spec => []GapAsShown
<1>1. GapInv => GapAsShown
  BY DEF GapInv, GapAsShown, LimiterTyped, TimerTrue
<1>2. QED BY <1>1, GapInvariant, PTL

-----------------------------------------------------------------------------
(* The delay.  While nothing is stranded its FIFO holds the last words the *)
(* engine has handed over, one after the other; between a packet's first   *)
(* word and its last the machine is in the packet's body.                  *)
(* Consecutive words from n on.                                            *)
Run(s, n) == s \in Seq(Nat) /\ \A i \in 1 .. Len(s) : s[i] = n + i - 1

StartsPacket(w) == Words[w].first
Seen == next - Len(d_fifo)

Consecutive == Seen >= 1 /\ Run(d_fifo, Seen)

AtStart == Seen <= Len(Words) => StartsPacket(Seen)
Inside == Seen <= Len(Words) => ~StartsPacket(Seen)

(* What the delay still waits makes up for what is missing since a packet  *)
(* began.                                                                  *)
Waiting ==
  /\ ipd.en = 1 /\ rl.en = 0
  /\ promised \in 0 .. OneSecond /\ promised <= since + delayer.wait
  /\ delayer.state = "IN_PKT_HEADER" => AtStart

DelayTyped ==
  /\ trace \in Traces /\ stamped \in Stamped
  /\ next \in 1 .. Len(Words) + 1 /\ since \in Nat
  /\ delayer.state \in {"IN_PKT_HEADER", "IN_PKT_BODY"}

DelayTrue ==
  /\ Consecutive /\ delayer.wait \in Nat
  /\ delayer.state = "IN_PKT_BODY" => Inside
  /\ spaced => Waiting

DelayInv == DelayTyped /\ (~stranded => DelayTrue)

LEMMA MinIs ==
  ASSUME NEW a \in Int, NEW b \in Int
  PROVE  Min({a, b}) = IF a <= b THEN a ELSE b
<1> DEFINE m == IF a <= b THEN a ELSE b
<1>1. m \in {a, b} /\ \A y \in {a, b} : m <= y
  OBVIOUS
<1>2. \A x \in {a, b} : (\A y \in {a, b} : x <= y) => x = m
  OBVIOUS
<1> HIDE DEF m
<1>3. QED BY <1>1, <1>2 DEF Min, m

(* The words of a file, under the hypothesis of the theorem.               *)
LEMMA WordsFollow ==
  ASSUME InPackets, DelayTyped
  PROVE  /\ Len(Words) \in Nat
         /\ \A n \in 1 .. Len(Words) : Words[n].stamp \in 0 .. OneSecond
         /\ \A n \in 1 .. Len(Words) - 1 : StartsPacket(n + 1) <=> EndsPacket(n)
<1>1. PacketsFollow(Words)
  BY Zenon DEF InPackets, DelayTyped, Words
<1>2. QED BY <1>1 DEF PacketsFollow, StartsPacket, EndsPacket

LEMMA DelayRange ==
  ASSUME RegsOK
  PROVE  ipd.delay \in 0 .. OneSecond
<1>1. ipd.delay \in Delays \cup {0}
  BY DEF RegsOK
<1>2. \A d \in Delays \cup {0} : d \in 0 .. OneSecond
  BY ShapingAssumption DEF ShapingAssumption
<1>3. QED BY <1>1, <1>2, Zenon

LEMMA HostWritesDelay ==
  ASSUME PortInv, DelayInv, HostWrites
  PROVE  DelayInv'
<1>1. /\ UNCHANGED <<trace, stamped, next, since, promised, delayer, d_fifo>>
      /\ stranded => stranded'
  BY DEF HostWrites, engine, cores
<1>2. spaced' => spaced /\ ipd'.en = ipd.en /\ rl'.en = rl.en
  BY DEF HostWrites
<1>3. Words' = Words
  BY <1>1, Zenon DEF Words
<1>4. DelayTyped'
  BY <1>1, <1>3 DEF DelayInv, DelayTyped
<1>5. ASSUME ~stranded' PROVE DelayTrue'
  <2>1. DelayTrue
    BY <1>1, <1>5 DEF DelayInv
  <2>2. Consecutive' /\ (delayer'.state = "IN_PKT_BODY" => Inside')
    BY <1>1, <1>3, <2>1 DEF DelayTrue, Consecutive, Seen, Inside, StartsPacket
  <2>3. spaced' => Waiting'
    BY <1>1, <1>2, <1>3, <2>1 DEF DelayTrue, Waiting, AtStart, Seen, StartsPacket
  <2>4. QED BY <1>1, <2>1, <2>2, <2>3 DEF DelayTrue
<1>6. QED BY <1>4, <1>5 DEF DelayInv

After(n, gets) == IF gets THEN n + 1 ELSE n

(* What a clock edge does to an enabled delay that is not reset.           *)
DelayStep(in, mac, n) ==
  LET dm == d_moves(in, mac) IN
  /\ dm => /\ n <= Len(Words) /\ d_fifo # <<>> /\ Head(d_fifo) = n
           /\ d_offer(in) = <<n>>
           /\ delayer.state = "IN_PKT_HEADER" => delayer.wait = 0
  /\ Consecutive' /\ Seen' = After(n, dm)
  /\ delayer'.state = IF ~dm THEN delayer.state
                      ELSE IF EndsPacket(n) THEN "IN_PKT_HEADER" ELSE "IN_PKT_BODY"
  /\ delayer'.wait = IF dm /\ delayer.state = "IN_PKT_HEADER"
                     THEN Less1(IF ipd.use_reg = 1 THEN ipd.delay ELSE Words[n].stamp)
                     ELSE Less1(delayer.wait)

LEMMA RunTail ==
  ASSUME NEW n \in Nat, NEW s, Run(s, n), s # <<>>
  PROVE  Run(Tail(s), n + 1) /\ Len(Tail(s)) = Len(s) - 1 /\ Head(s) = n
<1>1. s \in Seq(Nat) /\ Len(s) \in Nat /\ Len(s) >= 1 /\ \A i \in 1 .. Len(s) : s[i] = n + i - 1
  BY DEF Run
<1>2. /\ Tail(s) \in Seq(Nat) /\ Len(Tail(s)) = Len(s) - 1
      /\ \A i \in 1 .. Len(Tail(s)) : Tail(s)[i] = s[i + 1]
  BY <1>1, HeadTailProperties
<1>3. ASSUME NEW i \in 1 .. Len(Tail(s)) PROVE Tail(s)[i] = n + 1 + i - 1
  <2>1. i + 1 \in 1 .. Len(s) /\ i \in Int
    BY <1>1, <1>2
  <2>2. Tail(s)[i] = s[i + 1] /\ s[i + 1] = n + (i + 1) - 1
    BY <1>1, <1>2, <2>1
  <2>3. QED BY <2>1, <2>2
<1>4. Head(s) = s[1] /\ s[1] = n + 1 - 1
  BY <1>1
<1>5. QED BY <1>2, <1>3, <1>4 DEF Run

LEMMA RunAppend ==
  ASSUME NEW n \in Nat, NEW s, Run(s, n), NEW e \in Nat, e = n + Len(s)
  PROVE  Run(Append(s, e), n) /\ Len(Append(s, e)) = Len(s) + 1
<1>1. s \in Seq(Nat) /\ Len(s) \in Nat /\ \A i \in 1 .. Len(s) : s[i] = n + i - 1
  BY DEF Run
<1> DEFINE t == Append(s, e)
<1>2. /\ t \in Seq(Nat) /\ Len(t) = Len(s) + 1
      /\ \A i \in 1 .. Len(s) : t[i] = s[i]
      /\ t[Len(s) + 1] = e
  BY <1>1, AppendProperties
<1> HIDE DEF t
<1>3. ASSUME NEW i \in 1 .. Len(t) PROVE t[i] = n + i - 1
  <2>1. CASE i \in 1 .. Len(s)
    <3>1. t[i] = s[i] /\ s[i] = n + i - 1
      BY <1>1, <1>2, <2>1
    <3>2. QED BY <3>1
  <2>2. CASE i = Len(s) + 1
    <3>1. t[i] = e
      BY <1>2, <2>2
    <3>2. QED BY <1>1, <2>2, <3>1
  <2>3. QED BY <1>1, <1>2, <2>1, <2>2
<1>4. Run(t, n) /\ Len(t) = Len(s) + 1
  BY <1>2, <1>3 DEF Run
<1>5. QED BY <1>4 DEF t

LEMMA FifoFollows ==
  ASSUME NEW n \in Nat, n >= 1, NEW s, Run(s, n), NEW e \in Nat, e = n + Len(s),
         NEW gets \in BOOLEAN, gets => s # <<>>, NEW p \in BOOLEAN
  PROVE  /\ Run(Sent(Left(s, gets), p, e), After(n, gets))
         /\ After(e, p) - Len(Sent(Left(s, gets), p, e)) = After(n, gets)
<1>1. PICK l, m : /\ l = Left(s, gets) /\ m = After(n, gets)
                  /\ m \in Nat /\ Run(l, m) /\ e = m + Len(l)
  <2>1. Len(s) \in Nat
    BY DEF Run
  <2>2. CASE gets
    <3>1. Run(Tail(s), n + 1) /\ Len(Tail(s)) = Len(s) - 1
      BY <2>2, RunTail
    <3> DEFINE k == Len(Tail(s))  j == Len(s)
    <3> HIDE DEF k, j
    <3>2. e = n + 1 + k /\ n + 1 \in Nat
      <4>1. k = j - 1 /\ e = n + j /\ j \in Nat
        BY <2>1, <3>1 DEF k, j
      <4>2. QED BY <4>1
    <3> USE DEF k
    <3>3. QED BY <2>2, <3>1, <3>2, Zenon DEF Left, After
  <2>3. CASE ~gets
    BY <2>3, Zenon DEF Left, After
  <2>4. QED BY <2>2, <2>3
<1>2. Run(Append(l, e), m) /\ Len(Append(l, e)) = Len(l) + 1 /\ Len(l) \in Nat
  BY <1>1, RunAppend DEF Run
<1>3. CASE p
  <2>1. Sent(l, p, e) = Append(l, e) /\ After(e, p) = e + 1
    BY <1>3, Zenon DEF Sent, After
  <2>2. e + 1 - Len(Append(l, e)) = m
    BY <1>1, <1>2
  <2>3. Sent(Left(s, gets), p, e) = Append(l, e) /\ After(n, gets) = m
    BY <1>1, <2>1, Zenon
  <2>4. After(e, p) - Len(Append(l, e)) = m
    BY <2>1, <2>2
  <2>5. QED BY <1>2, <2>3, <2>4, Zenon
<1>4. CASE ~p
  <2>1. Sent(l, p, e) = l /\ After(e, p) = e
    BY <1>4, Zenon DEF Sent, After
  <2>2. e - Len(l) = m
    BY <1>1, <1>2
  <2>3. QED BY <1>1, <2>1, <2>2, Zenon
<1>5. QED BY <1>3, <1>4

LEMMA DelayEdge ==
  ASSUME PortInv, DelayTyped, DelayTrue, InPackets, WordsTyped,
         NEW in \in Offers, NEW mac \in BOOLEAN, Tick(in, mac),
         ipd.rst = 0, ipd.en = 1
  PROVE  DelayStep(in, mac, Seen)
<1> DEFINE dm == d_moves(in, mac)  ac == accepts(in, mac)  n == Seen
<1>1. /\ RegsOK /\ in \in {<<>>, <<next>>} /\ rl.en \in {0, 1}
      /\ dm \in BOOLEAN /\ ac \in BOOLEAN
  BY DEF PortInv, RegsOK, Offers, d_moves, accepts
<1>2. /\ dm => d_fifo # <<>>
      /\ NewDelay(in, mac) = Sent(Left(d_fifo, dm), ac, next)
  BY <1>1, MovesBothOn, MovesLimiterOff
<1>3. /\ d_fifo' = NewDelay(in, mac)
      /\ next' = After(next, ac)
      /\ delayer'.state = IF ~dm THEN delayer.state
                          ELSE IF EndsPacket(Head(d_fifo)) THEN "IN_PKT_HEADER"
                          ELSE "IN_PKT_BODY"
      /\ delayer'.wait = NextWait(in, mac)
  <2>1. ~(ipd.rst = 1) /\ ~(ipd.en = 0)
    OBVIOUS
  <2>2. /\ d_fifo' = NewDelay(in, mac)
        /\ delayer' = [state |-> IF ~dm THEN delayer.state
                                 ELSE IF EndsPacket(Head(d_fifo)) THEN "IN_PKT_HEADER"
                                 ELSE "IN_PKT_BODY",
                       wait |-> NextWait(in, mac)]
    BY <2>1, Zenon DEF Tick, DelayerEdge, NewDelay, EndsPacket
  <2>3. next' = After(next, ac)
    BY Zenon DEF Tick, After
  <2>4. QED BY <2>2, <2>3
<1>4. /\ Run(d_fifo, n) /\ n >= 1 /\ next = n + Len(d_fifo) /\ next \in Nat /\ n \in Nat
      /\ next <= Len(Words) + 1 /\ Len(Words) \in Nat /\ Len(d_fifo) \in Nat
  BY WordsFollow, SMTT(40) DEF DelayTrue, Consecutive, DelayTyped, Seen, Run
<1>5. dm => n <= Len(Words) /\ Head(d_fifo) = n
  <2>1. dm => Len(d_fifo) >= 1 /\ Head(d_fifo) = n
    BY <1>2, <1>4, RunTail DEF Run
  <2>2. QED BY <1>4, <2>1
<1>6. dm => d_offer(in) = <<Head(d_fifo)>> /\ (delayer.state = "IN_PKT_HEADER" => delayer.wait = 0)
  BY DEF d_moves, d_offer
<1>7. NextWait(in, mac) = IF dm /\ delayer.state = "IN_PKT_HEADER"
                          THEN Less1(IF ipd.use_reg = 1 THEN ipd.delay ELSE Words[Head(d_fifo)].stamp)
                          ELSE Less1(delayer.wait)
  BY Zenon DEF NextWait
<1> HIDE DEF dm, ac, n
<1>8. d_fifo' = Sent(Left(d_fifo, dm), ac, next)
  BY <1>2, <1>3
<1>9. Run(d_fifo', After(n, dm)) /\ After(next, ac) - Len(d_fifo') = After(n, dm)
  BY <1>1, <1>2, <1>4, <1>8, FifoFollows
<1>10. Seen' = After(n, dm) /\ Consecutive'
  <2>1. Seen' = After(n, dm)
    BY <1>3, <1>9 DEF Seen
  <2>2. Seen' >= 1
    BY <1>1, <1>4, <2>1 DEF After
  <2>3. QED BY <1>9, <2>1, <2>2, Zenon DEF Consecutive, Run
<1>11. /\ delayer'.state = IF ~dm THEN delayer.state
                           ELSE IF EndsPacket(n) THEN "IN_PKT_HEADER" ELSE "IN_PKT_BODY"
       /\ delayer'.wait = IF dm /\ delayer.state = "IN_PKT_HEADER"
                          THEN Less1(IF ipd.use_reg = 1 THEN ipd.delay ELSE Words[n].stamp)
                          ELSE Less1(delayer.wait)
  <2>1. /\ delayer'.state = IF ~dm THEN delayer.state
                            ELSE IF EndsPacket(Head(d_fifo)) THEN "IN_PKT_HEADER"
                            ELSE "IN_PKT_BODY"
        /\ delayer'.wait = IF dm /\ delayer.state = "IN_PKT_HEADER"
                           THEN Less1(IF ipd.use_reg = 1 THEN ipd.delay
                                      ELSE Words[Head(d_fifo)].stamp)
                           ELSE Less1(delayer.wait)
    BY <1>3, <1>7 DEF dm
  <2>2. CASE dm
    BY <1>5, <2>1, <2>2, Zenon
  <2>3. CASE ~dm
    BY <2>1, <2>3, Zenon
  <2>4. QED BY <2>2, <2>3
<1>12. dm => n <= Len(Words) /\ d_fifo # <<>> /\ Head(d_fifo) = n /\ d_offer(in) = <<n>>
             /\ (delayer.state = "IN_PKT_HEADER" => delayer.wait = 0)
  BY <1>2, <1>5, <1>6 DEF dm
<1>13. QED BY <1>10, <1>11, <1>12, Zenon DEF DelayStep, dm, n

(* When a word leaves the delay in a packet's body, its packet has begun;  *)
(* when one leaves between packets, it begins one.                         *)
LEMMA TickDelayOn ==
  ASSUME PortInv, DelayTyped, DelayTrue, InPackets, WordsTyped,
         NEW in \in Offers, NEW mac \in BOOLEAN, Tick(in, mac),
         ipd.rst = 0, ipd.en = 1
  PROVE  DelayTrue'
<1> DEFINE dm == d_moves(in, mac)  n == Seen
           val == IF ipd.use_reg = 1 THEN ipd.delay ELSE Words[n].stamp
<1>1. /\ dm => n <= Len(Words) /\ d_offer(in) = <<n>>
      /\ Consecutive' /\ Seen' = After(n, dm)
      /\ delayer'.state = IF ~dm THEN delayer.state
                          ELSE IF EndsPacket(n) THEN "IN_PKT_HEADER" ELSE "IN_PKT_BODY"
      /\ delayer'.wait = IF dm /\ delayer.state = "IN_PKT_HEADER"
                         THEN Less1(val) ELSE Less1(delayer.wait)
  BY DelayEdge, Zenon DEF DelayStep
<1>2. /\ n \in Nat \ {0} /\ Len(Words) \in Nat /\ delayer.wait \in Nat /\ since \in Nat
      /\ OneSecond \in Nat \ {0}
      /\ delayer.state \in {"IN_PKT_HEADER", "IN_PKT_BODY"}
  BY WordsFollow, ShapingAssumption
  DEF DelayTrue, DelayTyped, Consecutive, Seen, Run, ShapingAssumption
<1>3. dm => val \in 0 .. OneSecond
  <2>1. ipd.delay \in 0 .. OneSecond
    BY DelayRange DEF PortInv
  <2>2. dm => Words[n].stamp \in 0 .. OneSecond
    <3>1. dm => n \in 1 .. Len(Words)
      BY <1>1, <1>2
    <3>2. QED BY <3>1, WordsFollow, Zenon
  <2>3. QED BY <2>1, <2>2
<1>4. Words' = Words /\ UNCHANGED <<ipd, rl>>
  BY Zenon DEF Tick, host, regs, Words
<1>5. dm => (n + 1 <= Len(Words) => (StartsPacket(n + 1) <=> EndsPacket(n)))
  <2>1. n + 1 <= Len(Words) => n \in 1 .. Len(Words) - 1
    BY <1>2
  <2>2. QED BY <2>1, WordsFollow, Zenon
<1>6. /\ AtStart' <=> (Seen' <= Len(Words) => StartsPacket(Seen'))
      /\ Inside' <=> (Seen' <= Len(Words) => ~StartsPacket(Seen'))
  BY <1>4, Zenon DEF AtStart, Inside, StartsPacket
<1>7. ASSUME rl.en = 0
      PROVE  /\ l_moves(in, mac) <=> dm
             /\ dm => l_offer(in)[1] = n
  <2>1. l_offer(in) = d_offer(in) /\ l_ready(mac) = mac
    BY <1>7 DEF l_offer, l_ready
  <2>2. l_moves(in, mac) <=> dm
    BY <2>1, Zenon DEF l_moves, d_moves
  <2>3. dm => l_offer(in) = <<n>>
    BY <1>1, <2>1, Zenon
  <2>4. QED BY <2>2, <2>3
<1>8. Starts(in, mac) /\ rl.en = 0 => dm /\ StartsPacket(n)
  BY <1>7, Zenon DEF Starts, StartsPacket
<1>9. dm /\ StartsPacket(n) /\ rl.en = 0 => Starts(in, mac) /\ l_offer(in)[1] = n
  BY <1>7, Zenon DEF Starts, StartsPacket
<1>10. /\ Starts(in, mac)
            => /\ since' = 1 /\ (spaced' => rl.en = 0)
               /\ promised' = IF ipd.use_reg = 1 THEN ipd.delay ELSE Words[l_offer(in)[1]].stamp
       /\ ~Starts(in, mac)
            => /\ since' = Min({since + 1, OneSecond}) /\ (spaced' => spaced)
               /\ promised' = promised
  BY Zenon DEF Tick, Histories
<1>11. Min({since + 1, OneSecond}) = IF since + 1 <= OneSecond THEN since + 1 ELSE OneSecond
  BY <1>2, MinIs
<1> HIDE DEF dm, n, val
<1>12. delayer'.wait \in Nat
  BY <1>1, <1>2, <1>3 DEF Less1
<1>13. ASSUME delayer'.state = "IN_PKT_BODY" PROVE Inside'
  <2>1. CASE dm
    <3>1. ~EndsPacket(n) /\ Seen' = n + 1
      BY <1>1, <1>13, <2>1 DEF After
    <3>2. QED BY <1>5, <1>6, <2>1, <3>1
  <2>2. CASE ~dm
    <3>1. Seen' = n /\ delayer.state = "IN_PKT_BODY"
      BY <1>1, <1>13, <2>2 DEF After
    <3>2. QED BY <1>6, <3>1 DEF DelayTrue, Inside, n
  <2>3. QED BY <2>1, <2>2
<1>14. ASSUME delayer'.state = "IN_PKT_HEADER", spaced', spaced \/ dm PROVE AtStart'
  <2>1. CASE dm
    <3>1. EndsPacket(n) /\ Seen' = n + 1
      BY <1>1, <1>14, <2>1 DEF After
    <3>2. QED BY <1>5, <1>6, <2>1, <3>1
  <2>2. CASE ~dm
    <3>1. Seen' = n /\ delayer.state = "IN_PKT_HEADER" /\ spaced
      BY <1>1, <1>14, <2>2 DEF After
    <3>2. QED BY <1>6, <3>1 DEF DelayTrue, Waiting, AtStart, n
  <2>3. QED BY <2>1, <2>2
<1>15. ASSUME spaced' PROVE Waiting'
  <2>1. CASE Starts(in, mac)
    <3>1. rl.en = 0 /\ dm /\ StartsPacket(n)
      BY <1>8, <1>10, <1>15, <2>1
    <3>2. delayer.state = "IN_PKT_HEADER"
      <4>1. ~Inside
        BY <1>1, <3>1 DEF Inside, n
      <4>2. QED BY <1>2, <4>1 DEF DelayTrue
    <3>3. promised' = val /\ since' = 1 /\ delayer'.wait = Less1(val)
      BY <1>1, <1>9, <1>10, <2>1, <3>1, <3>2 DEF val
    <3>4. promised' \in 0 .. OneSecond /\ promised' <= since' + delayer'.wait
      BY <1>2, <1>3, <3>1, <3>3 DEF Less1
    <3>5. QED BY <1>4, <1>14, <1>15, <3>1, <3>4 DEF Waiting
  <2>2. CASE ~Starts(in, mac)
    <3>1. spaced /\ Waiting
      BY <1>10, <1>15, <2>2 DEF DelayTrue
    <3>2. rl.en = 0 /\ promised \in 0 .. OneSecond /\ promised <= since + delayer.wait
      BY <3>1 DEF Waiting
    <3>3. ~(dm /\ delayer.state = "IN_PKT_HEADER")
      <4>1. ~(dm /\ StartsPacket(n))
        BY <1>9, <2>2, <3>2
      <4>2. dm /\ AtStart => StartsPacket(n)
        BY <1>1 DEF AtStart, n
      <4>3. QED BY <3>1, <4>1, <4>2 DEF Waiting
    <3>4. delayer'.wait = Less1(delayer.wait)
      BY <1>1, <3>3
    <3>5. promised' \in 0 .. OneSecond /\ promised' <= since' + delayer'.wait
      BY <1>2, <1>10, <1>11, <2>2, <3>2, <3>4 DEF Less1
    <3>6. QED BY <1>4, <1>14, <1>15, <3>1, <3>2, <3>5 DEF Waiting
  <2>3. QED BY <2>1, <2>2
<1>16. QED BY <1>1, <1>12, <1>13, <1>15 DEF DelayTrue

(* A delay that is reset or not enabled holds no word and waits for a      *)
(* packet; what follows is not spaced.                                     *)
LEMMA TickDelayOff ==
  ASSUME PortInv, DelayTyped, DelayTrue, InPackets, WordsTyped, ~stranded,
         NEW in \in Offers, NEW mac \in BOOLEAN, Tick(in, mac),
         ipd.rst = 1 \/ ipd.en = 0
  PROVE  DelayTrue'
<1>1. d_fifo' = <<>> /\ delayer'.state = "IN_PKT_HEADER" /\ delayer'.wait \in Nat
  <2>1. CASE ipd.rst = 1
    BY <2>1 DEF Tick, DelayerEdge
  <2>2. CASE ~(ipd.rst = 1)
    <3>1. ipd.en = 0 /\ d_fifo = <<>>
      BY <2>2 DEF PortInv, WordsInLine
    <3>2. NextWait(in, mac) = Less1(delayer.wait)
      BY <3>1 DEF NextWait
    <3>3. d_fifo' = d_fifo /\ delayer' = [state |-> "IN_PKT_HEADER", wait |-> NextWait(in, mac)]
      BY <2>2, <3>1, Zenon DEF Tick, DelayerEdge
    <3>4. QED BY <3>1, <3>2, <3>3 DEF DelayTrue, Less1
  <2>3. QED BY <2>1, <2>2
<1>2. next' \in Nat /\ next' >= 1
  BY WordsFollow DEF DelayTyped, Tick
<1>3. Consecutive'
  <2>1. d_fifo' \in Seq(Nat) /\ Len(d_fifo') = 0
    BY <1>1
  <2>2. Seen' = next' - Len(d_fifo')
    BY DEF Seen
  <2>3. PICK m \in Nat : next' = m /\ m >= 1
    BY <1>2, Zenon
  <2>4. Seen' >= 1
    BY <2>1, <2>2, <2>3
  <2>5. QED BY <2>1, <2>4 DEF Consecutive, Run
<1>4. ~spaced'
  <2>1. spaced' => (ipd.en = 1 /\ ipd.rst = 0) \/ (spaced /\ ipd.rst = 0)
    BY Zenon DEF Tick, Histories
  <2>2. spaced => ipd.en = 1
    BY DEF DelayTrue, Waiting
  <2>3. QED BY <2>1, <2>2
<1>5. QED BY <1>1, <1>3, <1>4 DEF DelayTrue

LEMMA TickDelay ==
  ASSUME PortInv, DelayInv, InPackets, WordsTyped,
         NEW in \in Offers, NEW mac \in BOOLEAN, Tick(in, mac)
  PROVE  DelayInv'
<1>1. /\ UNCHANGED <<trace, stamped, stranded>> /\ Words' = Words
      /\ next' = IF accepts(in, mac) THEN next + 1 ELSE next
      /\ accepts(in, mac) => next <= Len(Words)
      /\ Len(Words) \in Nat /\ DelayTyped
  <2>1. DelayTyped
    BY DEF DelayInv
  <2>2. UNCHANGED <<trace, stamped, stranded>> /\ next' = IF accepts(in, mac) THEN next + 1 ELSE next
    BY Zenon DEF Tick, Histories
  <2>3. Words' = Words
    BY <2>2, Zenon DEF Words
  <2>4. accepts(in, mac) => next <= Len(Words)
    BY Zenon DEF accepts, Offers
  <2>5. QED BY <2>1, <2>2, <2>3, <2>4, WordsFollow
<1>2. since' \in Nat
  <2>1. since' = 1 \/ since' = Min({since + 1, OneSecond})
    BY Zenon DEF Tick, Histories
  <2>2. since \in Nat /\ OneSecond \in Nat
    BY ShapingAssumption DEF DelayInv, DelayTyped, ShapingAssumption
  <2>3. QED BY <2>1, <2>2, MinIs
<1>3. delayer'.state \in {"IN_PKT_HEADER", "IN_PKT_BODY"}
  <2>1. \/ delayer'.state \in {"IN_PKT_HEADER", "IN_PKT_BODY"}
        \/ delayer'.state = delayer.state
    BY DEF Tick, DelayerEdge
  <2>2. QED BY <1>1, <2>1 DEF DelayTyped
<1>4. DelayTyped'
  BY <1>1, <1>2, <1>3 DEF DelayTyped
<1>5. ASSUME ~stranded' PROVE DelayTrue'
  <2>1. DelayTrue /\ ~stranded /\ DelayTyped
    BY <1>1, <1>5 DEF DelayInv
  <2>2. \/ ipd.rst = 0 /\ ipd.en = 1
        \/ ipd.rst = 1 \/ ipd.en = 0
    BY DEF PortInv, RegsOK
  <2>3. QED BY <2>1, <2>2, TickDelayOn, TickDelayOff
<1>6. QED BY <1>4, <1>5 DEF DelayInv

(* The step of DelayKept.                                                  *)
LEMMA BeginsInTime ==
  ASSUME PortInv, DelayInv, InPackets, WordsTyped, [Next]_vars
  PROVE  Began /\ spaced /\ ~stranded => since >= promised
<1> SUFFICES ASSUME Began, spaced, ~stranded PROVE since >= promised
  OBVIOUS
<1>1. DelayTrue /\ DelayTyped /\ Waiting
  BY DEF DelayInv, DelayTrue
<1>2. out' # out
  BY DEF Began, WordsTyped
<1>3. PICK in \in Offers, mac \in BOOLEAN : Tick(in, mac)
  BY <1>2 DEF Next, UserActs, HostWrites, history, vars
<1>4. out' = IF l_moves(in, mac) THEN out \o l_offer(in) ELSE out
  BY <1>3, Zenon DEF Tick, Histories
<1>5. l_moves(in, mac)
  BY <1>2, <1>4
<1>6. rl.en = 0 /\ ipd.en = 1
  BY <1>1 DEF Waiting
<1>7. /\ d_fifo # <<>> /\ l_offer(in) = <<Head(d_fifo)>>
      /\ delayer.state = "IN_PKT_HEADER" => delayer.wait = 0
  <2>1. l_offer(in) = d_offer(in) /\ d_offer(in) # <<>>
    BY <1>5, <1>6 DEF l_moves, l_offer
  <2>2. QED BY <1>6, <2>1 DEF d_offer
<1>8. Head(d_fifo) = Seen /\ Seen <= Len(Words) /\ Seen \in Nat
  <2>1. Seen \in Nat /\ Run(d_fifo, Seen) /\ Len(Words) \in Nat
    BY <1>1, WordsFollow DEF DelayTrue, Consecutive, DelayTyped, Seen, Run
  <2>2. Head(d_fifo) = Seen
    BY <1>7, <2>1, RunTail
  <2>3. Len(d_fifo) >= 1 /\ Len(d_fifo) \in Nat
    BY <1>7, <2>1 DEF Run
  <2>4. QED BY <1>1, <2>1, <2>2, <2>3 DEF DelayTyped, Seen
<1>9. Last(out') = Seen
  <2>1. out' = out \o <<Seen>>
    BY <1>4, <1>5, <1>7, <1>8
  <2>2. out' = Append(out, Seen)
    BY <1>8, <2>1, ConcatOne DEF WordsTyped
  <2>3. QED BY <1>8, <2>2 DEF WordsTyped, Last
<1>10. StartsPacket(Seen)
  BY <1>9, Zenon DEF Began, StartsPacket
<1>11. delayer.wait = 0
  BY <1>1, <1>7, <1>8, <1>10 DEF DelayTrue, DelayTyped, Inside
<1>12. QED BY <1>1, <1>11 DEF Waiting, DelayTyped

LEMMA DelayInvariant == InPackets => (Spec => []DelayInv)
<1> SUFFICES ASSUME InPackets PROVE Spec => []DelayInv
  OBVIOUS
<1>1. Init => DelayInv
  <2> SUFFICES ASSUME Init PROVE DelayInv
    OBVIOUS
  <2>1. trace \in Traces /\ stamped \in Stamped
    BY DEF Init
  <2>2. Len(Words) \in Nat
    <3>1. PacketsFollow(Words)
      BY <2>1, Zenon DEF InPackets, Words
    <3>2. QED BY <3>1 DEF PacketsFollow
  <2>3. DelayTyped
    BY <2>1, <2>2, ShapingAssumption DEF Init, DelayTyped, ShapingAssumption
  <2>4. DelayTrue
    BY DEF Init, DelayTrue, Consecutive, Seen, Run
  <2>5. QED BY <2>3, <2>4 DEF DelayInv
<1>2. /\ PortInv /\ Placed(out, l_fifo, d_fifo, dropped, next) /\ DelayInv /\ [Next]_vars
      => DelayInv'
  <2> SUFFICES ASSUME PortInv, Placed(out, l_fifo, d_fifo, dropped, next), DelayInv, [Next]_vars
               PROVE  DelayInv'
    OBVIOUS
  <2>1. CASE \E in \in Offers, mac \in BOOLEAN : Tick(in, mac)
    <3>1. WordsTyped
      BY DEF Placed, WordsTyped
    <3>2. QED BY <2>1, <3>1, TickDelay
  <2>2. CASE HostWrites
    BY <2>2, HostWritesDelay
  <2>3. CASE UserActs \/ UNCHANGED vars
    <3>1. UNCHANGED <<trace, stamped, next, since, promised, spaced, stranded, delayer, d_fifo, ipd, rl>>
      BY <2>3 DEF UserActs, vars, host, regs, engine, cores, history
    <3>2. Words' = Words
      BY <3>1, Zenon DEF Words
    <3>3. QED BY <3>1, <3>2 DEF DelayInv, DelayTyped, DelayTrue, Consecutive, Seen, Run,
                               Waiting, AtStart, Inside, StartsPacket
  <2>4. QED BY <2>1, <2>2, <2>3 DEF Next
<1>3. QED BY <1>1, <1>2, PortInvariant, PlacesInvariant, PTL DEF Spec

(* With the limiter off, packets begin at least as far apart on the wire   *)
(* as the delay in force when the earlier one began, for every file, FIFO  *)
(* depth and delay, whatever is written to the delay's registers meanwhile *)
(* (inter_packet_delay.v:162-168).                                         *)
THEOREM PacketsSpaced ==
  ASSUME InPackets PROVE Spec => DelayKept
<1>1. PortInv /\ Placed(out, l_fifo, d_fifo, dropped, next) /\ DelayInv /\ [Next]_vars
      => [Began /\ spaced /\ ~stranded => since >= promised]_vars
  <2> SUFFICES ASSUME PortInv, Placed(out, l_fifo, d_fifo, dropped, next), DelayInv, [Next]_vars
               PROVE  Began /\ spaced /\ ~stranded => since >= promised
    OBVIOUS
  <2>1. WordsTyped
    BY DEF Placed, WordsTyped
  <2>2. QED BY <2>1, BeginsInTime
<1>2. Spec => []DelayInv
  BY DelayInvariant
<1>3. QED BY <1>1, <1>2, PortInvariant, PlacesInvariant, PTL DEF Spec, DelayKept
=============================================================================
