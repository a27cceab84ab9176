------------------------ MODULE PacketGenerator_proofs ------------------------
(***************************************************************************)
(* For any queues, traces and sizes of the memory and the FIFO, and any     *)
(* timing of the ports, the host and the channel: in scripts that load the *)
(* queues in turn a port sends words of its own traces only (OwnTraces);   *)
(* the registers and machines keep their types (EngineTypes); and in       *)
(* scripts that use the engine in order, when the driver drops no packet,  *)
(* a port sends the loaded trace as often as asked, exactly (ExactReplay), *)
(* and no start pulse is lost (StartsTaken).                               *)
(***************************************************************************)
EXTENDS PacketGenerator, SequenceTheorems, TLAPS

(* The words of the traces loaded for a queue, and what its memory holds.  *)
Own(q) == UNION {ToSet(t) : t \in loaded[q]}
Cells == [valid : BOOLEAN, end : BOOLEAN, last : BOOLEAN, id : Nat]
Held(q) == Own(q) \cup {c \in Cells : ~c.valid}

OnWay == [port : Queues, word : PacketWords]

Typed ==
  /\ script \in Seq(Steps) /\ dma \in Seq(OnWay)
  /\ loaded \in [Queues -> SUBSET Seq(PacketWords)]
  /\ wr_done \in [Queues -> BOOLEAN] /\ sw_rst \in BOOLEAN /\ ticked \in BOOLEAN
  /\ st_wr \in [Queues -> {"IDLE", "WR", "DONE"}]

(* Every word on its way through queue q is a word of its own traces.      *)
Stored(q) ==
  /\ wr_addr[q] \in Addresses /\ rd_addr[q] \in Addresses
  /\ wr_port[q].addr \in Addresses /\ wr_port[q].data \in Held(q)
  /\ mem[q] \in [Addresses -> Held(q)] /\ dina[q] \in Held(q)
  /\ fifo[q] \in Seq(Own(q)) /\ sent[q] \in Seq(Own(q))

DmaOwn == \A i \in DOMAIN dma : dma[i].word \in Own(dma[i].port)

(* Queue q is open while it takes the words of any port, or will: then all *)
(* words on their way are its own, and before the host sends to another    *)
(* queue it waits for them and closes q.                                   *)
Open(q) == st_wr[q] = "WR" \/ \E i \in DOMAIN dma : dma[i].port = q

Awaits(q) ==
  \A j \in DOMAIN script : script[j].op = "send" /\ script[j].q # q =>
    \E k \in 1 .. j - 1 : script[k].op = "sleep" /\ Closes(script[k + 1], q)

Closing(q) == dma = <<>> /\ script # <<>> /\ Closes(script[1], q)
Closed(q) == dma = <<>> /\ wr_done[q] = TRUE /\ ticked = FALSE

Turn(q) == Awaits(q) \/ Closing(q) \/ Closed(q)

InTurn ==
  \A q \in Queues : Open(q) => (\A i \in DOMAIN dma : dma[i].port = q) /\ Turn(q)

OwnInv ==
  /\ Typed /\ SendsItsTrace(script) /\ LoadsInTurn(script)
  /\ InTurn /\ DmaOwn /\ \A q \in Queues : Stored(q)

-----------------------------------------------------------------------------
LEMMA StepTypes ==
  ASSUME NEW s \in Steps
  PROVE  /\ s.op \in {"write", "send", "sleep", "watch"}
         /\ s.op = "send" => s.q \in Queues /\ s.packet \in Seq(PacketWords)
                             /\ s.trace \in Seq(PacketWords)
         /\ s.op = "write" /\ s.reg = "done" => s.q \in Queues /\ s.val \in BOOLEAN
         /\ s.op = "write" /\ s.reg = "rst" => s.val \in BOOLEAN
BY DEF Steps

LEMMA OwnWords ==
  ASSUME Typed, NEW q \in Queues
  PROVE  Own(q) \subseteq PacketWords /\ \A w \in Held(q) : w.valid => w \in Own(q)
<1>1. loaded[q] \in SUBSET Seq(PacketWords)
  BY DEF Typed
<1>2. \A t \in Seq(PacketWords) : ToSet(t) \subseteq PacketWords
  BY DEF ToSet
<1>3. Own(q) \subseteq PacketWords
  BY <1>1, <1>2 DEF Own
<1>4. QED BY <1>3 DEF Held

(* The rest of the script after a step.                                    *)
LEMMA ScriptAfter ==
  ASSUME Typed, script # <<>>, script' = Tail(script)
  PROVE  /\ Head(script) = script[1] /\ script[1] \in Steps
         /\ Len(script) \in Nat \ {0} /\ DOMAIN script = 1 .. Len(script)
         /\ script' \in Seq(Steps) /\ DOMAIN script' = 1 .. Len(script) - 1
         /\ \A i \in DOMAIN script' : i + 1 \in DOMAIN script /\ script'[i] = script[i + 1]
<1>1. script \in Seq(Steps)
  BY DEF Typed
<1>2. /\ Head(script) \in Steps /\ Tail(script) \in Seq(Steps)
      /\ Len(Tail(script)) = Len(script) - 1
      /\ \A i \in 1 .. Len(Tail(script)) : Tail(script)[i] = script[i + 1]
  BY <1>1, HeadTailProperties
<1>3. Len(script) \in Nat \ {0} /\ DOMAIN script = 1 .. Len(script)
      /\ Head(script) = script[1]
  BY <1>1
<1> DEFINE t == Tail(script)
<1>4. DOMAIN t = 1 .. Len(script) - 1 /\ t \in Seq(Steps)
      /\ \A i \in 1 .. Len(script) - 1 : t[i] = script[i + 1]
  BY <1>2
<1>5. script' = t
  OBVIOUS
<1> HIDE DEF t
<1>6. \A i \in 1 .. Len(script) - 1 : i + 1 \in 1 .. Len(script)
  BY <1>3
<1>7. QED BY <1>2, <1>3, <1>4, <1>5, <1>6

LEMMA DmaAfter ==
  ASSUME dma \in Seq(OnWay), dma # <<>>
  PROVE  /\ Head(dma) = dma[1] /\ 1 \in DOMAIN dma /\ Head(dma) \in OnWay
         /\ Tail(dma) \in Seq(OnWay)
         /\ \A i \in DOMAIN Tail(dma) : i + 1 \in DOMAIN dma /\ Tail(dma)[i] = dma[i + 1]
<1>1. /\ Head(dma) \in OnWay /\ Tail(dma) \in Seq(OnWay)
      /\ Len(Tail(dma)) = Len(dma) - 1
      /\ \A i \in 1 .. Len(Tail(dma)) : Tail(dma)[i] = dma[i + 1]
  BY HeadTailProperties
<1>2. Len(dma) \in Nat \ {0} /\ DOMAIN dma = 1 .. Len(dma) /\ Head(dma) = dma[1]
  OBVIOUS
<1> DEFINE t == Tail(dma)
<1>3. t \in Seq(OnWay) /\ DOMAIN t = 1 .. Len(dma) - 1
      /\ \A i \in 1 .. Len(dma) - 1 : t[i] = dma[i + 1]
  BY <1>1
<1> HIDE DEF t
<1>4. \A i \in DOMAIN t : i + 1 \in DOMAIN dma /\ t[i] = dma[i + 1]
  BY <1>2, <1>3
<1>5. 1 \in DOMAIN dma
  BY <1>2
<1>6. QED BY <1>1, <1>2, <1>4, <1>5 DEF t

-----------------------------------------------------------------------------
(* The order of the host's steps.                                          *)
LEMMA ScriptRest ==
  ASSUME Typed, SendsItsTrace(script), LoadsInTurn(script),
         script # <<>>, script' = Tail(script)
  PROVE  SendsItsTrace(script') /\ LoadsInTurn(script')
<1>1. /\ DOMAIN script' \subseteq Nat \ {0}
      /\ \A i \in DOMAIN script' : i + 1 \in DOMAIN script /\ script'[i] = script[i + 1]
      /\ \E n \in Nat : DOMAIN script' = 1 .. n
  <2>1. /\ DOMAIN script' = 1 .. Len(script) - 1 /\ Len(script) \in Nat \ {0}
        /\ \A i \in DOMAIN script' : i + 1 \in DOMAIN script /\ script'[i] = script[i + 1]
    BY ScriptAfter
  <2>2. Len(script) - 1 \in Nat
    BY <2>1
  <2>3. QED BY <2>1, <2>2
<1>2. SendsItsTrace(script')
  BY <1>1, Zenon DEF SendsItsTrace
<1>3. ASSUME NEW i \in DOMAIN script', NEW j \in DOMAIN script', i < j,
             script'[i].op = "send", script'[j].op = "send", script'[i].q # script'[j].q
      PROVE  \E k \in i .. j - 1 : script'[k].op = "sleep" /\ Closes(script'[k + 1], script'[i].q)
  <2>1. /\ i + 1 \in DOMAIN script /\ script'[i] = script[i + 1] /\ i \in Nat
        /\ j + 1 \in DOMAIN script /\ script'[j] = script[j + 1] /\ j \in Nat
    BY <1>1
  <2>2. i + 1 < j + 1
    BY <1>3, <2>1
  <2>3. PICK k \in (i + 1) .. (j + 1) - 1 :
          script[k].op = "sleep" /\ Closes(script[k + 1], script[i + 1].q)
    BY <1>3, <2>1, <2>2, Zenon DEF LoadsInTurn
  <2>4. PICK n \in Nat : DOMAIN script' = 1 .. n
    BY <1>1
  <2>5. k - 1 \in i .. j - 1 /\ k - 1 \in 1 .. n /\ k \in 1 .. n /\ (k - 1) + 1 = k
    BY <1>1, <2>1, <2>4
  <2>6. script'[k - 1] = script[k] /\ script'[k] = script[k + 1]
    BY <1>1, <2>4, <2>5
  <2>7. QED BY <2>1, <2>3, <2>5, <2>6
<1>4. LoadsInTurn(script')
  BY <1>3, Zenon DEF LoadsInTurn
<1>5. QED BY <1>2, <1>4

(* What queue q waits for moves up with the script.                        *)
LEMMA AwaitsMoves ==
  ASSUME Typed, NEW q \in Queues, Awaits(q), script # <<>>, script' = Tail(script)
  PROVE  \/ Awaits(q)'
         \/ script[1].op = "sleep" /\ script' # <<>> /\ Closes(script'[1], q)
<1>1. /\ DOMAIN script' = 1 .. Len(script) - 1 /\ Len(script) \in Nat \ {0}
      /\ \A i \in DOMAIN script' : i + 1 \in DOMAIN script /\ script'[i] = script[i + 1]
  BY ScriptAfter
<1>2. SUFFICES ASSUME ~(script[1].op = "sleep" /\ script' # <<>> /\ Closes(script'[1], q))
               PROVE  Awaits(q)'
  OBVIOUS
<1>3. ASSUME NEW j \in DOMAIN script', script'[j].op = "send", script'[j].q # q
      PROVE  \E k \in 1 .. j - 1 : script'[k].op = "sleep" /\ Closes(script'[k + 1], q)
  <2>1. j + 1 \in DOMAIN script /\ script'[j] = script[j + 1]
        /\ j \in 1 .. Len(script) - 1
    BY <1>1
  <2>2. PICK k \in 1 .. (j + 1) - 1 : script[k].op = "sleep" /\ Closes(script[k + 1], q)
    BY <1>3, <2>1, Zenon DEF Awaits
  <2>3. k \in DOMAIN script' /\ script'[k] = script[k + 1]
    BY <1>1, <2>1
  <2>4. k # 1
    <3>1. k = 1 => script' # <<>>
      BY <2>3
    <3>2. QED BY <1>2, <2>2, <2>3, <3>1
  <2>5. k - 1 \in 1 .. j - 1 /\ k - 1 \in DOMAIN script' /\ (k - 1) + 1 = k
    BY <1>1, <2>1, <2>4
  <2>6. script'[k - 1] = script[k]
    BY <1>1, <2>5
  <2>7. QED BY <2>2, <2>3, <2>5, <2>6
<1>4. QED BY <1>3, Zenon DEF Awaits

-----------------------------------------------------------------------------
(* The host's steps keep the turns: nothing is sent to a queue while       *)
(* another is open.                                                        *)
LEMMA SendKeepsTurn ==
  ASSUME Typed, InTurn, LoadsInTurn(script), SendPacket
  PROVE  InTurn'
<1>1. /\ script # <<>> /\ script' = Tail(script) /\ Head(script).op = "send"
      /\ ticked /\ ticked' = FALSE /\ st_wr' = st_wr
  BY DEF SendPacket, HostStep, engineVars, machines
<1>2. /\ DOMAIN script' = 1 .. Len(script) - 1 /\ Len(script) \in Nat \ {0}
      /\ \A i \in DOMAIN script' : i + 1 \in DOMAIN script /\ script'[i] = script[i + 1]
      /\ Head(script) = script[1] /\ script[1] \in Steps /\ 1 \in DOMAIN script
  BY <1>1, ScriptAfter
<1>3. PICK p \in Queues :
        /\ p = script[1].q /\ script[1].packet \in Seq(PacketWords)
        /\ script[1].op = "send"
  BY <1>1, <1>2, StepTypes
<1>4. ASSUME NEW r \in Queues, Open(r) PROVE r = p
  <2>1. Turn(r)
    BY <1>4 DEF InTurn
  <2>2. CASE Awaits(r)
    <3>1. ~\E k \in 1 .. 1 - 1 : TRUE
      OBVIOUS
    <3>2. QED BY <2>2, <1>2, <1>3, <3>1, Zenon DEF Awaits
  <2>3. CASE Closing(r)
    BY <2>3, <1>3 DEF Closing, Closes
  <2>4. CASE Closed(r)
    BY <2>4, <1>1 DEF Closed
  <2>5. QED BY <2>1, <2>2, <2>3, <2>4 DEF Turn
<1>5. dma \in Seq(OnWay) /\ \A i \in DOMAIN dma : dma[i].port \in Queues
  <2>1. dma \in Seq(OnWay)
    BY DEF Typed
  <2>2. \A x \in OnWay : x.port \in Queues
    BY DEF OnWay
  <2>3. \A i \in DOMAIN dma : dma[i] \in OnWay
    BY <2>1
  <2>4. QED BY <2>1, <2>2, <2>3
<1>6. \A i \in DOMAIN dma : dma[i].port = p
  BY <1>4, <1>5, Zenon DEF Open
<1> DEFINE onWay == [i \in 1 .. Len(script[1].packet) |->
                       [port |-> p, word |-> script[1].packet[i]]]
<1>7. onWay \in Seq(OnWay) /\ \A i \in DOMAIN onWay : onWay[i].port = p
  BY <1>3 DEF OnWay
<1>8. dma' = dma \o onWay \/ dma' = dma
  BY <1>2, <1>3 DEF SendPacket
<1> HIDE DEF onWay
<1>9. \A i \in DOMAIN dma' : dma'[i].port = p
  <2>1. CASE dma' = dma
    BY <2>1, <1>6
  <2>2. CASE dma' = dma \o onWay
    BY <2>2, <1>5, <1>6, <1>7
  <2>3. QED BY <1>8, <2>1, <2>2
<1>10. Awaits(p)'
  <2>1. ASSUME NEW j \in DOMAIN script', script'[j].op = "send", script'[j].q # p
        PROVE  \E k \in 1 .. j - 1 : script'[k].op = "sleep" /\ Closes(script'[k + 1], p)
    <3>1. j + 1 \in DOMAIN script /\ script'[j] = script[j + 1] /\ 1 < j + 1
          /\ j \in 1 .. Len(script) - 1
      BY <1>2
    <3>2. PICK k \in 1 .. (j + 1) - 1 : script[k].op = "sleep" /\ Closes(script[k + 1], p)
      BY <2>1, <3>1, <1>2, <1>3, Zenon DEF LoadsInTurn
    <3>3. k # 1
      BY <3>2, <1>3
    <3>4. k - 1 \in 1 .. j - 1 /\ k - 1 \in DOMAIN script' /\ (k - 1) + 1 = k
          /\ k \in DOMAIN script'
      BY <1>2, <3>1, <3>3
    <3>5. script'[k - 1] = script[k] /\ script'[k] = script[k + 1]
      BY <1>2, <3>4
    <3>6. QED BY <3>2, <3>4, <3>5
  <2>2. QED BY <2>1, Zenon DEF Awaits
<1>11. ASSUME NEW q \in Queues, Open(q)'
       PROVE  (\A i \in DOMAIN dma' : dma'[i].port = q) /\ Turn(q)'
  <2>1. q = p
    <3>1. CASE st_wr'[q] = "WR"
      BY <3>1, <1>1, <1>4 DEF Open
    <3>2. CASE \E i \in DOMAIN dma' : dma'[i].port = q
      BY <3>2, <1>9
    <3>3. QED BY <1>11, <3>1, <3>2 DEF Open
  <2>2. QED BY <2>1, <1>9, <1>10 DEF Turn
<1>12. QED BY <1>11, Zenon DEF InTurn

(* A step that sends nothing leaves the queues open as they were, and the  *)
(* one that closes a queue is the write after a pause.                     *)
LEMMA QuietKeepsTurn ==
  ASSUME Typed, InTurn, SleepStep \/ WatchStep
  PROVE  InTurn'
<1>1. /\ script # <<>> /\ script' = Tail(script) /\ script[1].op \in {"sleep", "watch"}
      /\ ticked /\ st_wr' = st_wr /\ dma' = dma
      /\ script[1].op = "sleep" => dma = <<>>
  <2>1. script # <<>> /\ script' = Tail(script)
    BY DEF SleepStep, WatchStep, HostStep
  <2>2. Head(script) = script[1]
    BY <2>1, ScriptAfter
  <2>3. QED BY <2>1, <2>2 DEF SleepStep, WatchStep, HostStep, engineVars, machines
<1>2. ASSUME NEW q \in Queues, Open(q)'
      PROVE  (\A i \in DOMAIN dma' : dma'[i].port = q) /\ Turn(q)'
  <2>1. Open(q)
    BY <1>1, <1>2 DEF Open
  <2>2. (\A i \in DOMAIN dma : dma[i].port = q) /\ Turn(q)
    BY <2>1 DEF InTurn
  <2>3. CASE Awaits(q)
    <3>1. \/ Awaits(q)'
          \/ script[1].op = "sleep" /\ script' # <<>> /\ Closes(script'[1], q)
      BY <2>3, <1>1, AwaitsMoves
    <3>2. QED BY <3>1, <1>1, <2>2 DEF Turn, Closing
  <2>4. ~Closing(q) /\ ~Closed(q)
    BY <1>1 DEF Closing, Closes, Closed
  <2>5. QED BY <2>2, <2>3, <2>4 DEF Turn
<1>3. QED BY <1>2, Zenon DEF InTurn

LEMMA WriteKeepsTurn ==
  ASSUME Typed, InTurn, WriteRegister
  PROVE  InTurn'
<1>1. /\ script # <<>> /\ script' = Tail(script) /\ script[1].op = "write"
      /\ ticked' = FALSE /\ st_wr' = st_wr /\ dma' = dma
      /\ wr_done' = IF script[1].reg = "done"
                    THEN [wr_done EXCEPT ![script[1].q] = script[1].val] ELSE wr_done
  <2>1. script # <<>> /\ script' = Tail(script)
    BY DEF WriteRegister, HostStep
  <2>2. Head(script) = script[1]
    BY <2>1, ScriptAfter
  <2>3. QED BY <2>1, <2>2 DEF WriteRegister, HostStep, machines
<1>2. ASSUME NEW q \in Queues, Open(q)'
      PROVE  (\A i \in DOMAIN dma' : dma'[i].port = q) /\ Turn(q)'
  <2>1. Open(q)
    BY <1>1, <1>2 DEF Open
  <2>2. (\A i \in DOMAIN dma : dma[i].port = q) /\ Turn(q)
    BY <2>1 DEF InTurn
  <2>3. CASE Awaits(q)
    <3>1. Awaits(q)'
      BY <2>3, <1>1, AwaitsMoves
    <3>2. QED BY <3>1, <1>1, <2>2 DEF Turn
  <2>4. CASE Closing(q)
    <3>1. wr_done' = [wr_done EXCEPT ![q] = TRUE] /\ dma = <<>>
      BY <2>4, <1>1 DEF Closing, Closes
    <3>2. wr_done'[q] = TRUE
      BY <3>1 DEF Typed
    <3>3. QED BY <3>1, <3>2, <1>1, <2>2 DEF Turn, Closed
  <2>5. CASE Closed(q)
    <3>1. wr_done[q] = TRUE /\ dma = <<>>
      BY <2>5 DEF Closed
    <3>2. ticked /\ ticked = FALSE
      BY <2>5 DEF Closed, WriteRegister, HostStep
    <3>3. QED BY <3>2
  <2>6. QED BY <2>2, <2>3, <2>4, <2>5 DEF Turn
<1>3. QED BY <1>2, Zenon DEF InTurn

(* A clock edge opens no queue, and closes the one whose wr_done is set.   *)
LEMMA EdgeKeepsTurn ==
  ASSUME Typed, InTurn, NEW arrives \in BOOLEAN,
         NEW nf \in [Queues -> BOOLEAN], NEW go \in [Queues -> BOOLEAN],
         Edge(arrives, nf, go)
  PROVE  InTurn'
<1>1. /\ script' = script /\ dma' = IF arrives THEN Tail(dma) ELSE dma
      /\ arrives => dma # <<>>
      /\ dma \in Seq(OnWay)
  BY DEF Edge, Typed
<1>2. \A i \in DOMAIN dma' : \E j \in DOMAIN dma : dma'[i] = dma[j]
  <2>1. CASE arrives
    <3>1. dma' = Tail(dma) /\ dma # <<>>
      BY <2>1, <1>1
    <3>2. QED BY <3>1, <1>1, DmaAfter
  <2>2. CASE ~arrives
    BY <2>2, <1>1
  <2>3. QED BY <2>1, <2>2
<1>3. dma = <<>> => dma' = <<>>
  BY <1>1
<1> DEFINE bus == IF arrives THEN Head(dma) ELSE NoWord
<1>4. \A q \in Queues : st_wr'[q] = WriteStateNext(q, bus)
  BY DEF Edge, Clock, WriteMachines
<1>5. bus.word.valid => arrives /\ dma # <<>> /\ bus = dma[1] /\ 1 \in DOMAIN dma
  <2>1. CASE arrives
    BY <2>1, <1>1, DmaAfter
  <2>2. CASE ~arrives
    BY <2>2 DEF NoWord, Nil, Cell
  <2>3. QED BY <2>1, <2>2
<1> HIDE DEF bus
<1>6. ASSUME NEW q \in Queues, Open(q)'
      PROVE  (\A i \in DOMAIN dma' : dma'[i].port = q) /\ Turn(q)'
  <2>1. Open(q)
    <3>1. CASE \E i \in DOMAIN dma' : dma'[i].port = q
      BY <3>1, <1>2 DEF Open
    <3>2. CASE st_wr'[q] = "WR"
      <4>1. st_wr[q] \in {"IDLE", "WR", "DONE"}
        BY DEF Typed
      <4>2. WriteStateNext(q, bus) = "WR"
        BY <3>2, <1>4
      <4>3. CASE st_wr[q] = "IDLE"
        <5>1. Takes(q, bus)
          BY <4>2, <4>3 DEF WriteStateNext, Typed
        <5>2. bus.word.valid /\ bus.port = q
          BY <5>1, <4>3 DEF Takes
        <5>3. QED BY <5>2, <1>5 DEF Open
      <4>4. CASE st_wr[q] = "DONE"
        BY <4>2, <4>4 DEF WriteStateNext, Typed
      <4>5. QED BY <4>1, <4>3, <4>4 DEF Open
    <3>3. QED BY <1>6, <3>1, <3>2 DEF Open
  <2>2. (\A i \in DOMAIN dma : dma[i].port = q) /\ Turn(q)
    BY <2>1 DEF InTurn
  <2>3. \A i \in DOMAIN dma' : dma'[i].port = q
    BY <1>2, <2>2
  <2>4. CASE Awaits(q)
    <3>1. Awaits(q)'
      BY <2>4, <1>1 DEF Awaits
    <3>2. QED BY <3>1, <2>3 DEF Turn
  <2>5. CASE Closing(q)
    <3>1. Closing(q)'
      BY <2>5, <1>1, <1>3 DEF Closing
    <3>2. QED BY <3>1, <2>3 DEF Turn
  <2>6. CASE Closed(q)
    <3>1. dma' = <<>> /\ dma = <<>> /\ wr_done[q] = TRUE
      BY <2>6, <1>3 DEF Closed
    <3>2. st_wr[q] = "WR"
      BY <2>1, <3>1 DEF Open
    <3>3. WriteStateNext(q, bus) # "WR"
      BY <3>1, <3>2 DEF WriteStateNext, Typed
    <3>4. ~Open(q)'
      BY <3>1, <3>3, <1>4 DEF Open
    <3>5. QED BY <3>4, <1>6
  <2>7. QED BY <2>2, <2>4, <2>5, <2>6 DEF Turn
<1>7. QED BY <1>6, Zenon DEF InTurn

-----------------------------------------------------------------------------
(* The words on their way.                                                 *)
LEMMA Marks ==
  ASSUME NEW q \in Queues
  PROVE  Nil \in Held(q) /\ EndMark \in Held(q) /\ ~NoWord.word.valid
BY DEF Nil, EndMark, Cell, Cells, Held, NoWord

LEMMA Wraps ==
  /\ 1 \in Addresses
  /\ \A a \in Addresses : Inc(a) \in Addresses
<1>1. MemSize \in Nat /\ MemSize > 2
  BY EngineAssumption
<1>2. 1 \in Addresses
  BY <1>1 DEF Addresses
<1>3. ASSUME NEW a \in Addresses PROVE Inc(a) \in Addresses
  BY <1>1 DEF Addresses, Inc
<1>4. QED BY <1>2, <1>3

(* A queue's words stay its own as more traces are loaded for it.          *)
LEMMA StoredGrows ==
  ASSUME NEW q \in Queues, Stored(q), loaded[q] \subseteq loaded'[q],
         UNCHANGED machines, UNCHANGED sent
  PROVE  Stored(q)'
<1>1. /\ wr_addr' = wr_addr /\ rd_addr' = rd_addr /\ wr_port' = wr_port /\ mem' = mem
      /\ dina' = dina /\ fifo' = fifo /\ sent' = sent
  BY DEF machines
<1>2. Own(q) \subseteq Own(q)'
  BY DEF Own
<1>3. Held(q) \subseteq Held(q)'
  BY <1>2 DEF Held
<1>4. Seq(Own(q)) \subseteq Seq(Own(q)')
  BY <1>2
<1>5. [Addresses -> Held(q)] \subseteq [Addresses -> Held(q)']
  BY <1>3
<1>6. /\ wr_addr[q] \in Addresses /\ rd_addr[q] \in Addresses
      /\ wr_port[q].addr \in Addresses /\ wr_port[q].data \in Held(q)'
      /\ mem[q] \in [Addresses -> Held(q)'] /\ dina[q] \in Held(q)'
      /\ fifo[q] \in Seq(Own(q)') /\ sent[q] \in Seq(Own(q)')
  BY <1>3, <1>4, <1>5 DEF Stored
<1>7. Addresses' = Addresses
  OBVIOUS
<1>8. QED BY <1>1, <1>6 DEF Stored

(* What the write machine of a queue stores in one cycle.                  *)
LEMMA StoresOwn ==
  ASSUME Typed, InTurn, DmaOwn, NEW q \in Queues, NEW arrives \in BOOLEAN,
         arrives => dma # <<>>,
         Writes(q, IF arrives THEN Head(dma) ELSE NoWord)
  PROVE  WriteData(q, IF arrives THEN Head(dma) ELSE NoWord) \in Held(q)
<1>1. PICK bus : bus = IF arrives THEN Head(dma) ELSE NoWord
  OBVIOUS
<1>2. bus.word.valid => /\ 1 \in DOMAIN dma /\ dma[1].port = bus.port
                        /\ bus.word \in Own(bus.port)
  <2>1. CASE arrives
    <3>1. bus = dma[1] /\ 1 \in DOMAIN dma
      BY <2>1, <1>1, DmaAfter DEF Typed
    <3>2. QED BY <3>1 DEF DmaOwn
  <2>2. CASE ~arrives
    BY <2>2, <1>1, Marks
  <2>3. QED BY <2>1, <2>2
<1>3. Writes(q, bus)
  BY <1>1
<1>4. Takes(q, bus) => bus.word \in Own(q)
  <2>1. ASSUME Takes(q, bus) PROVE bus.port = q
    <3>1. bus.word.valid /\ (st_wr[q] = "WR" \/ bus.port = q)
      BY <2>1 DEF Takes
    <3>2. CASE st_wr[q] = "WR"
      BY <3>1, <3>2, <1>2 DEF InTurn, Open
    <3>3. QED BY <3>1, <3>2
  <2>2. QED BY <2>1, <1>2 DEF Takes
<1>5. WriteData(q, bus) \in {Nil, EndMark} \/ (Takes(q, bus) /\ WriteData(q, bus) = bus.word)
  <2>1. st_wr[q] \in {"IDLE", "WR", "DONE"} /\ sw_rst \in BOOLEAN /\ wr_done[q] \in BOOLEAN
    BY DEF Typed
  <2>2. CASE st_wr[q] = "IDLE"
    <3>1. Takes(q, bus)
      BY <2>2, <1>3 DEF Writes
    <3>2. WriteData(q, bus) = bus.word
      BY <2>2 DEF WriteData
    <3>3. QED BY <3>1, <3>2
  <2>3. CASE st_wr[q] = "DONE"
    BY <2>3 DEF WriteData
  <2>4. CASE st_wr[q] = "WR" /\ sw_rst
    BY <2>4 DEF WriteData
  <2>5. CASE st_wr[q] = "WR" /\ ~sw_rst /\ wr_done[q]
    BY <2>5 DEF WriteData
  <2>6. CASE st_wr[q] = "WR" /\ ~sw_rst /\ ~wr_done[q]
    <3>1. Takes(q, bus)
      BY <2>6, <1>3 DEF Writes
    <3>2. WriteData(q, bus) = bus.word
      BY <2>6 DEF WriteData
    <3>3. QED BY <3>1, <3>2
  <2>7. QED BY <2>1, <2>2, <2>3, <2>4, <2>5, <2>6
<1>6. WriteData(q, bus) \in Held(q)
  BY <1>4, <1>5, Marks DEF Held
<1>7. QED BY <1>1, <1>6

(* One clock edge moves a queue's own words on: from the stream to the     *)
(* RAM, to its output register, to the FIFO, to the port.                  *)
LEMMA EdgeKeepsOwn ==
  ASSUME Typed, InTurn, DmaOwn, NEW q \in Queues, Stored(q), NEW arrives \in BOOLEAN,
         NEW nf \in [Queues -> BOOLEAN], NEW go \in [Queues -> BOOLEAN],
         Edge(arrives, nf, go)
  PROVE  Stored(q)'
<1>1. PICK bus : bus = IF arrives THEN Head(dma) ELSE NoWord
  OBVIOUS
<1>2. Clock(bus, nf, go, trace) /\ loaded' = loaded /\ (arrives => dma # <<>>)
  BY <1>1 DEF Edge
<1>3. Own(q)' = Own(q) /\ Held(q)' = Held(q)
  BY <1>2 DEF Own, Held
<1>4. /\ wr_addr[q] \in Addresses /\ rd_addr[q] \in Addresses
      /\ wr_port[q].addr \in Addresses /\ wr_port[q].data \in Held(q)
      /\ mem[q] \in [Addresses -> Held(q)] /\ dina[q] \in Held(q)
      /\ fifo[q] \in Seq(Own(q)) /\ sent[q] \in Seq(Own(q))
  BY DEF Stored
<1>5. wr_addr'[q] \in Addresses
  <2>1. wr_addr'[q] = WriteAddrNext(q, bus)
    BY <1>2 DEF Clock, WriteMachines
  <2>2. QED BY <2>1, <1>4, Wraps DEF WriteAddrNext
<1>6. rd_addr'[q] \in Addresses
  <2>1. rd_addr'[q] = ReadAddrNext(q, nf)
    BY <1>2 DEF Clock, ReadMachines
  <2>2. QED BY <2>1, <1>4, Wraps DEF ReadAddrNext
<1>7. wr_port'[q].addr \in Addresses /\ wr_port'[q].data \in Held(q)
  <2>1. /\ wr_port'[q].addr = wr_addr[q]
        /\ wr_port'[q].data = IF Writes(q, bus) THEN WriteData(q, bus) ELSE Nil
    BY <1>2 DEF Clock, WriteMachines
  <2>2. Writes(q, bus) => WriteData(q, bus) \in Held(q)
    BY <1>1, <1>2, StoresOwn
  <2>3. QED BY <2>1, <2>2, <1>4, Marks
<1>8. mem'[q] \in [Addresses -> Held(q)]
  <2>1. mem'[q] = IF wr_port[q].en
                  THEN [mem[q] EXCEPT ![wr_port[q].addr] = wr_port[q].data]
                  ELSE mem[q]
    BY <1>2 DEF Clock, Memory
  <2>2. QED BY <2>1, <1>4
<1>9. dina'[q] \in Held(q)
  <2>1. dina'[q] = IF wr_port[q].en THEN mem[q][wr_port[q].addr]
                   ELSE IF ReadEnable(q, nf) THEN mem[q][rd_addr[q]]
                   ELSE dina[q]
    BY <1>2 DEF Clock, Memory
  <2>2. QED BY <2>1, <1>4
<1>10. Leaves(q, go) => fifo[q] # <<>>
  BY <1>2 DEF Clock, Leaves
<1>11. fifo'[q] \in Seq(Own(q))
  <2>1. fifo'[q] = (IF Leaves(q, go) THEN Tail(fifo[q]) ELSE fifo[q])
                     \o (IF Enters(q, nf) THEN <<dina[q]>> ELSE <<>>)
    BY <1>2 DEF Clock, Fifos
  <2>2. Enters(q, nf) => dina[q] \in Own(q)
    BY <1>4, OwnWords DEF Enters
  <2>3. PICK s : s = IF Leaves(q, go) THEN Tail(fifo[q]) ELSE fifo[q]
    OBVIOUS
  <2>4. PICK t : t = IF Enters(q, nf) THEN <<dina[q]>> ELSE <<>>
    OBVIOUS
  <2>5. s \in Seq(Own(q))
    BY <2>3, <1>4, <1>10
  <2>6. t \in Seq(Own(q))
    BY <2>4, <2>2
  <2>7. QED BY <2>1, <2>3, <2>4, <2>5, <2>6
<1>12. sent'[q] \in Seq(Own(q))
  <2>1. sent'[q] = IF Leaves(q, go) THEN Append(sent[q], Head(fifo[q])) ELSE sent[q]
    BY <1>2 DEF Clock, History
  <2>2. Leaves(q, go) => Head(fifo[q]) \in Own(q)
    BY <1>4, <1>10
  <2>3. QED BY <2>1, <2>2, <1>4
<1>13. QED BY <1>3, <1>5, <1>6, <1>7, <1>8, <1>9, <1>11, <1>12, Zenon DEF Stored

-----------------------------------------------------------------------------
LEMMA OwnInit ==
  ASSUME \A s \in Scripts : SendsItsTrace(s) /\ LoadsInTurn(s), Init
  PROVE  OwnInv
<1>1. /\ script \in Seq(Steps) /\ SendsItsTrace(script) /\ LoadsInTurn(script)
      /\ dma = <<>>
  BY ScriptAssumption DEF Init
<1>2. Typed
  <2>1. dma \in Seq(OnWay) /\ loaded \in [Queues -> SUBSET Seq(PacketWords)]
    BY <1>1 DEF Init
  <2>2. ticked \in BOOLEAN /\ sw_rst \in BOOLEAN
    BY DEF Init, EngineInit
  <2>3. /\ wr_done \in [Queues -> BOOLEAN]
        /\ st_wr \in [Queues -> {"IDLE", "WR", "DONE"}]
    BY DEF Init, EngineInit
  <2>4. QED BY <1>1, <2>1, <2>2, <2>3 DEF Typed
<1>3. InTurn /\ DmaOwn
  BY <1>1 DEF Init, EngineInit, InTurn, Open, DmaOwn
<1>4. ASSUME NEW q \in Queues PROVE Stored(q)
  <2>1. /\ wr_addr[q] = 1 /\ rd_addr[q] = 1 /\ wr_port[q] = NoWrite
        /\ mem[q] = [a \in Addresses |-> Nil] /\ dina[q] = Nil
        /\ fifo[q] = <<>> /\ sent[q] = <<>>
    BY DEF Init, EngineInit
  <2>2. 0 \in Addresses
    BY EngineAssumption DEF Addresses
  <2>3. QED BY <2>1, <2>2, Marks, Wraps DEF Stored, NoWrite
<1>5. QED BY <1>1, <1>2, <1>3, <1>4 DEF OwnInv

LEMMA SendKeepsOwn ==
  ASSUME OwnInv, SendPacket
  PROVE  OwnInv'
<1>1. Typed /\ SendsItsTrace(script) /\ LoadsInTurn(script) /\ InTurn /\ DmaOwn
      /\ \A q \in Queues : Stored(q)
  BY DEF OwnInv
<1>2. script # <<>> /\ script' = Tail(script) /\ Head(script).op = "send"
      /\ ticked' \in BOOLEAN /\ UNCHANGED machines /\ UNCHANGED registers /\ UNCHANGED sent
  BY DEF SendPacket, HostStep, engineVars
<1>3. script[1] \in Steps /\ script[1] = Head(script) /\ 1 \in DOMAIN script
      /\ script' \in Seq(Steps)
  BY <1>1, <1>2, ScriptAfter
<1>4. SendsItsTrace(script') /\ LoadsInTurn(script')
  BY <1>1, <1>2, ScriptRest
<1>5. PICK p \in Queues, packet \in Seq(PacketWords), tr \in Seq(PacketWords) :
        p = script[1].q /\ packet = script[1].packet /\ tr = script[1].trace
  BY <1>2, <1>3, StepTypes
<1>6. ToSet(packet) \subseteq ToSet(tr)
  BY <1>1, <1>2, <1>3, <1>5 DEF SendsItsTrace
<1> DEFINE onWay == [i \in 1 .. Len(packet) |-> [port |-> p, word |-> packet[i]]]
<1>7. /\ dma' = dma \o onWay \/ dma' = dma
      /\ loaded' = [loaded EXCEPT ![p] = @ \union {tr}]
  BY <1>3, <1>5 DEF SendPacket
<1>8. /\ onWay \in Seq(OnWay)
      /\ \A i \in DOMAIN onWay : onWay[i].port = p /\ onWay[i].word \in ToSet(tr)
  <2>1. \A i \in 1 .. Len(packet) : packet[i] \in PacketWords /\ packet[i] \in ToSet(packet)
    BY DEF ToSet
  <2>2. QED BY <2>1, <1>6 DEF OnWay
<1> HIDE DEF onWay
<1>9. dma \in Seq(OnWay) /\ loaded \in [Queues -> SUBSET Seq(PacketWords)]
  BY <1>1 DEF Typed
<1>10. /\ loaded' \in [Queues -> SUBSET Seq(PacketWords)]
       /\ tr \in loaded'[p] /\ \A q \in Queues : loaded[q] \subseteq loaded'[q]
  BY <1>7, <1>9
<1>11. Typed'
  <2>1. dma' \in Seq(OnWay)
    <3>1. dma \o onWay \in Seq(OnWay)
      BY <1>8, <1>9
    <3>2. QED BY <3>1, <1>7, <1>9
  <2>2. Seq(OnWay)' = Seq(OnWay) /\ Seq(Steps)' = Seq(Steps)
    OBVIOUS
  <2>3. st_wr' = st_wr /\ wr_done' = wr_done /\ sw_rst' = sw_rst
    BY <1>2 DEF machines, registers
  <2>4. QED BY <2>1, <2>3, <1>1, <1>2, <1>3, <1>10 DEF Typed
<1>12. InTurn'
  BY <1>1, SendKeepsTurn
<1>13. \A q \in Queues : Own(q) \subseteq Own(q)'
  BY <1>10 DEF Own
<1>14. ToSet(tr) \subseteq Own(p)'
  BY <1>10 DEF Own
<1>15. DmaOwn'
  <2>1. \A i \in DOMAIN dma : dma[i].port \in Queues /\ dma[i].word \in Own(dma[i].port)
    <3>1. \A i \in DOMAIN dma : dma[i] \in OnWay
      BY <1>9
    <3>2. QED BY <3>1, <1>1 DEF DmaOwn, OnWay
  <2>2. \A e : e.port \in Queues /\ e.word \in Own(e.port) => e.word \in Own(e.port)'
    BY <1>13
  <2>3. \A i \in DOMAIN dma' : \/ \E j \in DOMAIN dma : dma'[i] = dma[j]
                              \/ \E j \in DOMAIN onWay : dma'[i] = onWay[j]
    <3>1. CASE dma' = dma
      BY <3>1
    <3>2. CASE dma' = dma \o onWay
      <4>1. PICK m, n \in Nat : m = Len(dma) /\ n = Len(onWay)
        BY <1>8, <1>9
      <4>2. DOMAIN dma = 1 .. m /\ DOMAIN onWay = 1 .. n /\ DOMAIN dma' = 1 .. m + n
        BY <3>2, <4>1, <1>8, <1>9
      <4>3. \A i \in 1 .. m + n : dma'[i] = IF i <= m THEN dma[i] ELSE onWay[i - m]
        BY <3>2, <4>1, <1>8, <1>9
      <4>4. \A i \in 1 .. m + n : i \in 1 .. m \/ (~(i <= m) /\ i - m \in 1 .. n)
        BY <4>1
      <4>5. \A i \in 1 .. m : i <= m /\ i \in 1 .. m + n
        BY <4>1
      <4>6. QED BY <4>2, <4>3, <4>4, <4>5, Zenon
    <3>3. QED BY <1>7, <3>1, <3>2
  <2>4. ASSUME NEW i \in DOMAIN dma', NEW e, e = dma'[i]
        PROVE  e.port \in Queues /\ e.word \in Own(e.port)'
    <3>1. CASE \E j \in DOMAIN dma : e = dma[j]
      BY <3>1, <2>1, <2>2
    <3>2. CASE \E j \in DOMAIN onWay : e = onWay[j]
      BY <3>2, <1>8, <1>14
    <3>3. QED BY <2>3, <2>4, <3>1, <3>2
  <2>5. QED BY <2>4, Zenon DEF DmaOwn
<1>16. ASSUME NEW q \in Queues PROVE Stored(q)'
  BY <1>1, <1>2, <1>10, StoredGrows
<1>17. QED BY <1>4, <1>11, <1>12, <1>15, <1>16 DEF OwnInv

LEMMA QuietKeepsOwn ==
  ASSUME OwnInv, SleepStep \/ WatchStep \/ WriteRegister
  PROVE  OwnInv'
<1>1. Typed /\ SendsItsTrace(script) /\ LoadsInTurn(script) /\ InTurn /\ DmaOwn
      /\ \A q \in Queues : Stored(q)
  BY DEF OwnInv
<1>2. /\ script # <<>> /\ script' = Tail(script) /\ ticked' \in BOOLEAN
      /\ dma' = dma /\ loaded' = loaded /\ UNCHANGED machines /\ UNCHANGED sent
      /\ st_wr' = st_wr
  BY DEF SleepStep, WatchStep, WriteRegister, HostStep, engineVars, machines
<1>3. script[1] \in Steps /\ script[1] = Head(script) /\ script' \in Seq(Steps)
  BY <1>1, <1>2, ScriptAfter
<1>4. SendsItsTrace(script') /\ LoadsInTurn(script')
  BY <1>1, <1>2, ScriptRest
<1>5. wr_done' \in [Queues -> BOOLEAN] /\ sw_rst' \in BOOLEAN
  <2>1. wr_done \in [Queues -> BOOLEAN] /\ sw_rst \in BOOLEAN
    BY <1>1 DEF Typed
  <2>2. CASE WriteRegister
    <3>1. /\ script[1].op = "write"
          /\ sw_rst' = IF script[1].reg = "rst" THEN script[1].val ELSE sw_rst
          /\ wr_done' = IF script[1].reg = "done"
                        THEN [wr_done EXCEPT ![script[1].q] = script[1].val] ELSE wr_done
      BY <2>2, <1>3 DEF WriteRegister, HostStep
    <3>2. /\ script[1].reg = "done" => script[1].q \in Queues /\ script[1].val \in BOOLEAN
          /\ script[1].reg = "rst" => script[1].val \in BOOLEAN
      BY <3>1, <1>3, StepTypes
    <3>3. QED BY <3>1, <3>2, <2>1
  <2>3. CASE SleepStep \/ WatchStep
    BY <2>3, <2>1 DEF SleepStep, WatchStep, engineVars, registers
  <2>4. QED BY <2>2, <2>3
<1>6. Typed'
  BY <1>1, <1>2, <1>3, <1>5 DEF Typed
<1>7. InTurn'
  BY <1>1, QuietKeepsTurn, WriteKeepsTurn
<1>8. DmaOwn'
  BY <1>1, <1>2 DEF DmaOwn, Own
<1>9. ASSUME NEW q \in Queues PROVE Stored(q)'
  BY <1>1, <1>2, StoredGrows
<1>10. QED BY <1>4, <1>6, <1>7, <1>8, <1>9 DEF OwnInv

LEMMA HardwareKeepsOwn ==
  ASSUME OwnInv, Hardware
  PROVE  OwnInv'
<1>1. Typed /\ SendsItsTrace(script) /\ LoadsInTurn(script) /\ InTurn /\ DmaOwn
      /\ \A q \in Queues : Stored(q)
  BY DEF OwnInv
<1>2. PICK arrives \in BOOLEAN, nf \in [Queues -> BOOLEAN], go \in [Queues -> BOOLEAN] :
        Edge(arrives, nf, go)
  BY DEF Hardware
<1>3. /\ script' = script /\ loaded' = loaded /\ ticked' = TRUE
      /\ dma' = IF arrives THEN Tail(dma) ELSE dma
      /\ arrives => dma # <<>>
      /\ wr_done' = wr_done /\ sw_rst' = sw_rst
  BY <1>2 DEF Edge, Clock, registers
<1>4. dma \in Seq(OnWay)
  BY <1>1 DEF Typed
<1>5. dma' \in Seq(OnWay) /\ \A i \in DOMAIN dma' : \E j \in DOMAIN dma : dma'[i] = dma[j]
  <2>1. CASE arrives
    <3>1. dma' = Tail(dma) /\ dma # <<>>
      BY <2>1, <1>3
    <3>2. QED BY <3>1, <1>4, DmaAfter
  <2>2. CASE ~arrives
    BY <2>2, <1>3, <1>4
  <2>3. QED BY <2>1, <2>2
<1>6. st_wr' \in [Queues -> {"IDLE", "WR", "DONE"}]
  <2>1. PICK bus : st_wr' = [q \in Queues |-> WriteStateNext(q, bus)]
    BY <1>2 DEF Edge, Clock, WriteMachines
  <2>2. ASSUME NEW q \in Queues PROVE WriteStateNext(q, bus) \in {"IDLE", "WR", "DONE"}
    <3>1. st_wr[q] \in {"IDLE", "WR", "DONE"} /\ sw_rst \in BOOLEAN
      BY <1>1 DEF Typed
    <3>2. CASE sw_rst
      BY <3>2 DEF WriteStateNext
    <3>3. CASE ~sw_rst /\ st_wr[q] = "IDLE"
      BY <3>3 DEF WriteStateNext
    <3>4. CASE ~sw_rst /\ st_wr[q] = "WR"
      BY <3>4 DEF WriteStateNext
    <3>5. CASE ~sw_rst /\ st_wr[q] = "DONE"
      BY <3>5 DEF WriteStateNext
    <3>6. QED BY <3>1, <3>2, <3>3, <3>4, <3>5
  <2>3. QED BY <2>1, <2>2
<1>7. Typed'
  BY <1>1, <1>3, <1>5, <1>6 DEF Typed
<1>8. InTurn'
  BY <1>1, <1>2, EdgeKeepsTurn
<1>9. DmaOwn'
  BY <1>1, <1>3, <1>5 DEF DmaOwn, Own
<1>10. ASSUME NEW q \in Queues PROVE Stored(q)'
  BY <1>1, <1>2, EdgeKeepsOwn
<1>11. QED BY <1>1, <1>3, <1>7, <1>8, <1>9, <1>10 DEF OwnInv

LEMMA OwnStutters ==
  ASSUME OwnInv, UNCHANGED vars
  PROVE  OwnInv'
<1>1. /\ script' = script /\ dma' = dma /\ loaded' = loaded /\ ticked' = ticked
      /\ UNCHANGED machines /\ UNCHANGED sent
      /\ st_wr' = st_wr /\ wr_done' = wr_done /\ sw_rst' = sw_rst
  BY DEF vars, engineVars, machines, registers
<1>2. ASSUME NEW q \in Queues PROVE Stored(q)'
  BY <1>1, StoredGrows DEF OwnInv
<1>3. Typed' /\ DmaOwn'
  BY <1>1 DEF OwnInv, Typed, DmaOwn, Own
<1>4. InTurn'
  BY <1>1 DEF OwnInv, InTurn, Open, Turn, Awaits, Closing, Closed
<1>5. QED BY <1>1, <1>2, <1>3, <1>4 DEF OwnInv

(* In scripts that load the queues in turn, as load_pcap does when it is   *)
(* called once for each interface and let to finish, a port sends only     *)
(* words of traces loaded for its own queue: the shared stream, which a    *)
(* write machine in WR reads whatever the port, mixes nothing in.          *)
THEOREM OwnTraces ==
  ASSUME \A s \in Scripts : SendsItsTrace(s) /\ LoadsInTurn(s)
  PROVE  Spec => []OwnTraceOnly
<1>1. Init => OwnInv
  BY OwnInit
<1>2. OwnInv /\ [Next]_vars => OwnInv'
  BY SendKeepsOwn, QuietKeepsOwn, HardwareKeepsOwn, OwnStutters DEF Next, Host
<1>3. OwnInv => OwnTraceOnly
  <2>1. ASSUME OwnInv, NEW q \in Queues PROVE ToSet(sent[q]) \subseteq Own(q)
    <3>1. sent[q] \in Seq(Own(q))
      BY <2>1 DEF OwnInv, Stored
    <3>2. QED BY <3>1 DEF ToSet
  <2>2. QED BY <2>1 DEF OwnTraceOnly, Own
<1>4. QED BY <1>1, <1>2, <1>3, PTL DEF Spec

-----------------------------------------------------------------------------
(* Types, whatever the scripts.                                            *)
Celled(q) ==
  /\ wr_port[q].en \in BOOLEAN /\ wr_port[q].addr \in Addresses /\ wr_port[q].data \in Cells
  /\ mem[q] \in [Addresses -> Cells] /\ dina[q] \in Cells
  /\ fifo[q] \in Seq(Cells) /\ sent[q] \in Seq(Cells) /\ promised[q] \in Seq(Cells)

WellTyped ==
  /\ script \in Seq(Steps) /\ dma \in Seq(OnWay) /\ ticked \in BOOLEAN
  /\ trace \in [Queues -> Seq(PacketWords)]
  /\ r_start \in [Queues -> BOOLEAN] /\ r_rden \in [Queues -> BOOLEAN]
  /\ r_nearly_full \in [Queues -> BOOLEAN]
  /\ TypeOK
  /\ \A q \in Queues : Celled(q)

LEMMA WriteTypes ==
  ASSUME NEW s \in Steps, s.op = "write"
  PROVE  /\ s.reg \in {"rst", "start", "done", "count"} /\ s.q \in Queues
         /\ s.reg = "count" => s.val \in Nat
         /\ s.reg # "count" => s.val \in BOOLEAN
BY DEF Steps

(* The first step of a script, and the rest.                               *)
LEMMA FirstAndRest ==
  ASSUME NEW s \in Seq(Steps), s # <<>>
  PROVE  /\ Head(s) = s[1] /\ s[1] \in Steps /\ Tail(s) \in Seq(Steps)
         /\ 1 \in DOMAIN s
         /\ \A i \in DOMAIN Tail(s) : i + 1 \in DOMAIN s /\ Tail(s)[i] = s[i + 1] /\ i \in Nat
<1>1. /\ Head(s) \in Steps /\ Tail(s) \in Seq(Steps)
      /\ Len(Tail(s)) = Len(s) - 1
      /\ \A i \in 1 .. Len(Tail(s)) : Tail(s)[i] = s[i + 1]
  BY HeadTailProperties
<1>2. Len(s) \in Nat \ {0} /\ DOMAIN s = 1 .. Len(s) /\ Head(s) = s[1]
  OBVIOUS
<1> DEFINE t == Tail(s)
<1>3. t \in Seq(Steps) /\ DOMAIN t = 1 .. Len(s) - 1
      /\ \A i \in 1 .. Len(s) - 1 : t[i] = s[i + 1]
  BY <1>1
<1> HIDE DEF t
<1>4. \A i \in DOMAIN t : i + 1 \in DOMAIN s /\ t[i] = s[i + 1] /\ i \in Nat
  BY <1>2, <1>3
<1>5. 1 \in DOMAIN s
  BY <1>2
<1>6. QED BY <1>1, <1>2, <1>4, <1>5 DEF t

LEMMA CellMarks ==
  /\ Nil \in Cells /\ EndMark \in Cells
  /\ ~Nil.valid /\ ~Nil.end /\ ~EndMark.valid /\ EndMark.end = TRUE
  /\ PacketWords \subseteq Cells
  /\ \A w \in PacketWords : w.valid = TRUE /\ w.end = FALSE
  /\ ~NoWord.word.valid /\ NoWord.word = Nil
BY DEF Nil, EndMark, Cell, Cells, PacketWords, NoWord

(* The stream's word in a cycle.                                           *)
LEMMA BusWord ==
  ASSUME dma \in Seq(OnWay), NEW arrives \in BOOLEAN, arrives => dma # <<>>,
         NEW bus, bus = IF arrives THEN Head(dma) ELSE NoWord
  PROVE  /\ bus.word \in Cells
         /\ bus.word.valid => arrives
         /\ arrives => /\ bus = dma[1] /\ 1 \in DOMAIN dma /\ bus.word \in PacketWords
                       /\ bus.port \in Queues /\ bus.word.valid
<1>1. CASE arrives
  <2>1. bus = dma[1] /\ 1 \in DOMAIN dma /\ dma[1] \in OnWay
    BY <1>1, DmaAfter
  <2>2. bus.word \in PacketWords /\ bus.port \in Queues
    BY <2>1 DEF OnWay
  <2>3. QED BY <1>1, <2>1, <2>2, CellMarks
<1>2. CASE ~arrives
  BY <1>2, CellMarks
<1>3. QED BY <1>1, <1>2

LEMMA RepeatType ==
  ASSUME NEW w \in Seq(PacketWords), NEW n \in Nat
  PROVE  /\ Repeat(w, n) \in Seq(Cells) /\ Len(Repeat(w, n)) = n * Len(w)
         /\ n * Len(w) \in Nat
         /\ \A i \in 1 .. n * Len(w) : Repeat(w, n)[i] = w[((i - 1) % Len(w)) + 1]
<1> DEFINE k == n * Len(w)
<1>1. Len(w) \in Nat /\ DOMAIN w = 1 .. Len(w) /\ \A i \in 1 .. Len(w) : w[i] \in Cells
  BY CellMarks
<1>2. k \in Nat
  <2> DEFINE m == Len(w)
  <2>1. m \in Nat
    BY <1>1
  <2> HIDE DEF m
  <2>2. n * m \in Nat
    BY <2>1
  <2>3. QED BY <2>2 DEF m
<1>3. ASSUME NEW i \in 1 .. k PROVE ((i - 1) % Len(w)) + 1 \in 1 .. Len(w)
  <2> DEFINE m == Len(w)
  <2>1. m \in Nat /\ m # 0
    <3>1. m = 0 => k = 0
      OBVIOUS
    <3>2. k # 0
      BY <1>2, <1>3
    <3>3. QED BY <1>1, <3>1, <3>2
  <2>2. i \in Nat /\ i >= 1
    BY <1>2, <1>3
  <2> HIDE DEF m, k
  <2>3. (i - 1) % m \in 0 .. m - 1
    BY <2>1, <2>2
  <2>4. ((i - 1) % m) + 1 \in 1 .. m
    BY <2>1, <2>3
  <2>5. QED BY <2>4 DEF m
<1>4. Repeat(w, n) = [i \in 1 .. k |-> w[((i - 1) % Len(w)) + 1]]
  BY DEF Repeat
<1> HIDE DEF k
<1>5. QED BY <1>1, <1>2, <1>3, <1>4 DEF k

(* One edge moves cells: from the stream to the RAM, to its output         *)
(* register, to the FIFO, to the port.                                     *)
LEMMA EdgeCelled ==
  ASSUME WellTyped, NEW q \in Queues, NEW bus, bus.word \in Cells,
         NEW nf \in [Queues -> BOOLEAN], NEW go \in [Queues -> BOOLEAN],
         Clock(bus, nf, go, trace)
  PROVE  Celled(q)' /\ wr_addr'[q] \in Addresses /\ rd_addr'[q] \in Addresses
<1>1. Celled(q) /\ wr_addr[q] \in Addresses /\ rd_addr[q] \in Addresses
      /\ st_wr[q] \in {"IDLE", "WR", "DONE"} /\ sw_rst \in BOOLEAN /\ wr_done[q] \in BOOLEAN
      /\ replay_count[q] \in Nat /\ trace[q] \in Seq(PacketWords)
  BY DEF WellTyped, TypeOK
<1>2. /\ wr_port[q].en \in BOOLEAN /\ wr_port[q].addr \in Addresses
      /\ wr_port[q].data \in Cells
      /\ mem[q] \in [Addresses -> Cells] /\ dina[q] \in Cells
      /\ fifo[q] \in Seq(Cells) /\ sent[q] \in Seq(Cells) /\ promised[q] \in Seq(Cells)
  BY <1>1 DEF Celled
<1>5. wr_addr'[q] \in Addresses
  <2>1. wr_addr'[q] = WriteAddrNext(q, bus)
    BY DEF Clock, WriteMachines
  <2>2. QED BY <2>1, <1>1, Wraps DEF WriteAddrNext
<1>6. rd_addr'[q] \in Addresses
  <2>1. rd_addr'[q] = ReadAddrNext(q, nf)
    BY DEF Clock, ReadMachines
  <2>2. QED BY <2>1, <1>1, Wraps DEF ReadAddrNext
<1>7. wr_port'[q].addr \in Addresses /\ wr_port'[q].data \in Cells /\ wr_port'[q].en \in BOOLEAN
  <2>1. /\ wr_port'[q].addr = wr_addr[q] /\ wr_port'[q].en = Writes(q, bus)
        /\ wr_port'[q].data = IF Writes(q, bus) THEN WriteData(q, bus) ELSE Nil
    BY DEF Clock, WriteMachines
  <2>2. WriteData(q, bus) \in Cells
    <3>1. CASE st_wr[q] = "IDLE"
      BY <3>1 DEF WriteData
    <3>2. CASE st_wr[q] = "DONE"
      BY <3>2, CellMarks DEF WriteData
    <3>3. CASE st_wr[q] = "WR" /\ sw_rst
      BY <3>3, CellMarks DEF WriteData
    <3>4. CASE st_wr[q] = "WR" /\ ~sw_rst /\ wr_done[q]
      BY <3>4, CellMarks DEF WriteData
    <3>5. CASE st_wr[q] = "WR" /\ ~sw_rst /\ ~wr_done[q]
      BY <3>5 DEF WriteData
    <3>6. QED BY <1>1, <3>1, <3>2, <3>3, <3>4, <3>5
  <2>3. Writes(q, bus) \in BOOLEAN
    <3>1. CASE st_wr[q] = "IDLE"
      BY <3>1 DEF Writes, Takes
    <3>2. CASE st_wr[q] = "DONE"
      BY <3>2 DEF Writes
    <3>3. CASE st_wr[q] = "WR"
      BY <3>3 DEF Writes
    <3>4. QED BY <1>1, <3>1, <3>2, <3>3
  <2>4. QED BY <2>1, <2>2, <2>3, <1>1, CellMarks
<1>8. mem'[q] \in [Addresses -> Cells]
  <2>1. mem'[q] = IF wr_port[q].en
                  THEN [mem[q] EXCEPT ![wr_port[q].addr] = wr_port[q].data]
                  ELSE mem[q]
    BY DEF Clock, Memory
  <2>2. QED BY <2>1, <1>2
<1>9. dina'[q] \in Cells
  <2>1. dina'[q] = IF wr_port[q].en THEN mem[q][wr_port[q].addr]
                   ELSE IF ReadEnable(q, nf) THEN mem[q][rd_addr[q]]
                   ELSE dina[q]
    BY DEF Clock, Memory
  <2>2. QED BY <2>1, <1>1, <1>2
<1>10. Leaves(q, go) => fifo[q] # <<>>
  BY DEF Clock, Leaves
<1>11. fifo'[q] \in Seq(Cells)
  <2>1. fifo'[q] = (IF Leaves(q, go) THEN Tail(fifo[q]) ELSE fifo[q])
                     \o (IF Enters(q, nf) THEN <<dina[q]>> ELSE <<>>)
    BY DEF Clock, Fifos
  <2>3. PICK s : s = IF Leaves(q, go) THEN Tail(fifo[q]) ELSE fifo[q]
    OBVIOUS
  <2>4. PICK t : t = IF Enters(q, nf) THEN <<dina[q]>> ELSE <<>>
    OBVIOUS
  <2>5. s \in Seq(Cells)
    BY <2>3, <1>2, <1>10
  <2>6. t \in Seq(Cells)
    BY <2>4, <1>2
  <2>7. QED BY <2>1, <2>3, <2>4, <2>5, <2>6
<1>12. sent'[q] \in Seq(Cells)
  <2>1. sent'[q] = IF Leaves(q, go) THEN Append(sent[q], Head(fifo[q])) ELSE sent[q]
    BY DEF Clock, History
  <2>2. Leaves(q, go) => Head(fifo[q]) \in Cells
    BY <1>2, <1>10
  <2>3. QED BY <2>1, <2>2, <1>2
<1>13. promised'[q] \in Seq(Cells)
  <2>1. promised'[q] = IF Begins(q, nf) /\ ~sw_rst
                       THEN promised[q] \o Repeat(trace[q], replay_count[q])
                       ELSE promised[q]
    BY DEF Clock, History
  <2>2. Repeat(trace[q], replay_count[q]) \in Seq(Cells)
    BY <1>1, RepeatType
  <2>3. QED BY <2>1, <2>2, <1>2
<1>14. Celled(q)'
  BY <1>7, <1>8, <1>9, <1>11, <1>12, <1>13, Zenon DEF Celled
<1>15. QED BY <1>5, <1>6, <1>14

LEMMA TypesInit ==
  ASSUME Init
  PROVE  WellTyped
<1>1. /\ script \in Seq(Steps) /\ dma \in Seq(OnWay) /\ ticked \in BOOLEAN
      /\ trace \in [Queues -> Seq(PacketWords)]
  BY ScriptAssumption DEF Init
<1>2. /\ r_start \in [Queues -> BOOLEAN] /\ r_rden \in [Queues -> BOOLEAN]
      /\ r_nearly_full \in [Queues -> BOOLEAN] /\ TypeOK
  BY Wraps DEF Init, EngineInit, TypeOK
<1>3. ASSUME NEW q \in Queues PROVE Celled(q)
  <2>1. /\ wr_port[q] = NoWrite /\ mem[q] = [a \in Addresses |-> Nil] /\ dina[q] = Nil
        /\ fifo[q] = <<>> /\ sent[q] = <<>> /\ promised[q] = <<>>
    BY DEF Init, EngineInit
  <2>2. 0 \in Addresses
    BY EngineAssumption DEF Addresses
  <2>3. QED BY <2>1, <2>2, CellMarks DEF Celled, NoWrite
<1>4. QED BY <1>1, <1>2, <1>3 DEF WellTyped

LEMMA HostTypes ==
  ASSUME WellTyped, Host
  PROVE  WellTyped'
<1>1. /\ script # <<>> /\ script' = Tail(script) /\ ticked' = FALSE
      /\ UNCHANGED machines /\ UNCHANGED <<promised, sent>>
  BY DEF Host, SendPacket, SleepStep, WatchStep, WriteRegister, HostStep, engineVars
<1>2. script[1] \in Steps /\ script[1] = Head(script) /\ script' \in Seq(Steps)
  BY <1>1, FirstAndRest DEF WellTyped
<1>3. PICK x : x = script[1]
  OBVIOUS
<1>4. /\ dma \in Seq(OnWay) /\ trace \in [Queues -> Seq(PacketWords)]
      /\ sw_rst \in BOOLEAN /\ start_replay \in [Queues -> BOOLEAN]
      /\ wr_done \in [Queues -> BOOLEAN] /\ replay_count \in [Queues -> Nat]
  BY DEF WellTyped, TypeOK
<1>5. dma' \in Seq(OnWay) /\ trace' \in [Queues -> Seq(PacketWords)]
  <2>1. CASE SendPacket
    <3>1. PICK p \in Queues, packet \in Seq(PacketWords), tr \in Seq(PacketWords) :
            p = x.q /\ packet = x.packet /\ tr = x.trace
      BY <2>1, <1>2, <1>3, StepTypes DEF SendPacket, HostStep
    <3> DEFINE onWay == [i \in 1 .. Len(packet) |-> [port |-> p, word |-> packet[i]]]
    <3>2. dma' = dma \o onWay \/ dma' = dma
      BY <2>1, <3>1, <1>2, <1>3 DEF SendPacket
    <3>3. trace' = [trace EXCEPT ![p] = tr]
      BY <2>1, <3>1, <1>2, <1>3 DEF SendPacket
    <3>4. onWay \in Seq(OnWay)
      BY DEF OnWay
    <3> HIDE DEF onWay
    <3>5. dma \o onWay \in Seq(OnWay)
      BY <3>4, <1>4
    <3>6. QED BY <3>2, <3>3, <3>5, <1>4
  <2>2. CASE SleepStep \/ WatchStep \/ WriteRegister
    BY <2>2, <1>4 DEF SleepStep, WatchStep, WriteRegister
  <2>3. QED BY <2>1, <2>2 DEF Host
<1>6. /\ sw_rst' \in BOOLEAN /\ start_replay' \in [Queues -> BOOLEAN]
      /\ wr_done' \in [Queues -> BOOLEAN] /\ replay_count' \in [Queues -> Nat]
  <2>1. CASE WriteRegister
    <3>1. /\ x.op = "write"
          /\ sw_rst' = IF x.reg = "rst" THEN x.val ELSE sw_rst
          /\ wr_done' = IF x.reg = "done" THEN [wr_done EXCEPT ![x.q] = x.val] ELSE wr_done
          /\ start_replay' = IF x.reg = "start" THEN [start_replay EXCEPT ![x.q] = x.val]
                             ELSE start_replay
          /\ replay_count' = IF x.reg = "count" THEN [replay_count EXCEPT ![x.q] = x.val]
                             ELSE replay_count
      BY <2>1, <1>2, <1>3 DEF WriteRegister, HostStep
    <3>2. /\ x.q \in Queues /\ x.reg = "count" => x.val \in Nat
          /\ x.reg # "count" => x.val \in BOOLEAN
      BY <3>1, <1>2, <1>3, WriteTypes
    <3>3. sw_rst' \in BOOLEAN
      BY <3>1, <3>2, <1>4
    <3>4. start_replay' \in [Queues -> BOOLEAN]
      BY <3>1, <3>2, <1>4
    <3>5. wr_done' \in [Queues -> BOOLEAN]
      BY <3>1, <3>2, <1>4
    <3>6. replay_count' \in [Queues -> Nat]
      BY <3>1, <3>2, <1>4
    <3>7. QED BY <3>3, <3>4, <3>5, <3>6
  <2>2. CASE SleepStep \/ WatchStep \/ SendPacket
    BY <2>2, <1>4 DEF SleepStep, WatchStep, SendPacket, engineVars, registers
  <2>3. QED BY <2>1, <2>2 DEF Host
<1>7. /\ st_wr' = st_wr /\ wr_addr' = wr_addr /\ wr_port' = wr_port /\ mem' = mem
      /\ dina' = dina /\ st_rd' = st_rd /\ rd_addr' = rd_addr /\ count' = count
      /\ r_start' = r_start /\ r_rden' = r_rden /\ r_nearly_full' = r_nearly_full
      /\ fifo' = fifo /\ st_m' = st_m /\ sent' = sent /\ promised' = promised
  BY <1>1 DEF machines
<1>8. TypeOK'
  BY <1>6, <1>7 DEF WellTyped, TypeOK
<1>9. ASSUME NEW q \in Queues PROVE Celled(q)'
  BY <1>7 DEF WellTyped, Celled
<1>10. /\ r_start' \in [Queues -> BOOLEAN] /\ r_rden' \in [Queues -> BOOLEAN]
       /\ r_nearly_full' \in [Queues -> BOOLEAN] /\ ticked' \in BOOLEAN
  BY <1>1, <1>7 DEF WellTyped
<1>11. QED BY <1>2, <1>5, <1>8, <1>9, <1>10 DEF WellTyped

LEMMA EdgeTypes ==
  ASSUME WellTyped, NEW arrives \in BOOLEAN, NEW nf \in [Queues -> BOOLEAN],
         NEW go \in [Queues -> BOOLEAN], Edge(arrives, nf, go)
  PROVE  WellTyped'
<1>1. PICK bus : bus = IF arrives THEN Head(dma) ELSE NoWord
  OBVIOUS
<1>2. /\ Clock(bus, nf, go, trace) /\ (arrives => dma # <<>>)
      /\ dma' = IF arrives THEN Tail(dma) ELSE dma
      /\ ticked' = TRUE /\ script' = script /\ trace' = trace
  BY <1>1 DEF Edge
<1>3. dma \in Seq(OnWay)
  BY DEF WellTyped
<1>4. bus.word \in Cells
  BY <1>1, <1>2, <1>3, BusWord
<1>5. ASSUME NEW q \in Queues
      PROVE  Celled(q)' /\ wr_addr'[q] \in Addresses /\ rd_addr'[q] \in Addresses
  BY <1>2, <1>4, EdgeCelled
<1>6. dma' \in Seq(OnWay)
  BY <1>2, <1>3, DmaAfter
<1>7. /\ r_start' \in [Queues -> BOOLEAN] /\ r_rden' \in [Queues -> BOOLEAN]
      /\ r_nearly_full' \in [Queues -> BOOLEAN]
  <2>1. /\ r_start' = start_replay /\ r_nearly_full' = nf
        /\ r_rden' = [q \in Queues |-> ReadEnable(q, nf)]
    BY <1>2 DEF Clock, ReadMachines
  <2>2. \A q \in Queues : ReadEnable(q, nf) \in BOOLEAN
    BY DEF ReadEnable, Begins, Reading
  <2>3. start_replay \in [Queues -> BOOLEAN]
    BY DEF WellTyped, TypeOK
  <2>4. QED BY <2>1, <2>2, <2>3
<1>8. wr_addr' \in [Queues -> Addresses] /\ rd_addr' \in [Queues -> Addresses]
  <2>1. /\ wr_addr' = [q \in Queues |-> WriteAddrNext(q, bus)]
        /\ rd_addr' = [q \in Queues |-> ReadAddrNext(q, nf)]
    BY <1>2 DEF Clock, WriteMachines, ReadMachines
  <2>2. \A q \in Queues : WriteAddrNext(q, bus) \in Addresses /\ ReadAddrNext(q, nf) \in Addresses
    BY <1>5, <2>1
  <2>3. QED BY <2>1, <2>2
<1>9. st_wr' \in [Queues -> {"IDLE", "WR", "DONE"}]
  <2>1. st_wr' = [q \in Queues |-> WriteStateNext(q, bus)]
    BY <1>2 DEF Clock, WriteMachines
  <2>2. ASSUME NEW q \in Queues PROVE WriteStateNext(q, bus) \in {"IDLE", "WR", "DONE"}
    <3>1. st_wr[q] \in {"IDLE", "WR", "DONE"} /\ sw_rst \in BOOLEAN
      BY DEF WellTyped, TypeOK
    <3>2. CASE sw_rst
      BY <3>2 DEF WriteStateNext
    <3>3. CASE ~sw_rst /\ st_wr[q] = "IDLE"
      BY <3>3 DEF WriteStateNext
    <3>4. CASE ~sw_rst /\ st_wr[q] = "WR"
      BY <3>4 DEF WriteStateNext
    <3>5. CASE ~sw_rst /\ st_wr[q] = "DONE"
      BY <3>5 DEF WriteStateNext
    <3>6. QED BY <3>1, <3>2, <3>3, <3>4, <3>5
  <2>3. QED BY <2>1, <2>2
<1>10. st_rd' \in [Queues -> {"IDLE", "RD"}] /\ st_m' \in [Queues -> {"IDLE", "SEND"}]
  <2>1. st_rd' \in [Queues -> {"IDLE", "RD"}]
    BY <1>2 DEF Clock, ReadMachines, ReadStateNext
  <2>2. st_m' \in [Queues -> {"IDLE", "SEND"}]
    BY <1>2 DEF Clock, OutputMachines
  <2>3. QED BY <2>1, <2>2
<1>11. count' \in [Queues -> Nat]
  <2>1. count' = [q \in Queues |-> CountNext(q, nf)]
    BY <1>2 DEF Clock, ReadMachines
  <2>2. \A q \in Queues : count[q] \in Nat
    BY DEF WellTyped, TypeOK
  <2>3. \A q \in Queues : CountNext(q, nf) \in Nat
    BY <2>2 DEF CountNext
  <2>4. QED BY <2>1, <2>3
<1>12. TypeOK'
  <2>1. UNCHANGED <<sw_rst, start_replay, replay_count, wr_done>>
    BY <1>2 DEF Clock, registers
  <2>2. QED BY <2>1, <1>8, <1>9, <1>10, <1>11 DEF WellTyped, TypeOK
<1>13. QED BY <1>2, <1>5, <1>6, <1>7, <1>12 DEF WellTyped

LEMMA NextTypes ==
  ASSUME WellTyped, [Next]_vars
  PROVE  WellTyped'
<1>1. CASE Host
  BY <1>1, HostTypes
<1>2. CASE Hardware
  BY <1>2, EdgeTypes DEF Hardware
<1>3. CASE UNCHANGED vars
  <2>1. /\ script' = script /\ dma' = dma /\ ticked' = ticked /\ trace' = trace
        /\ UNCHANGED registers /\ UNCHANGED machines /\ UNCHANGED <<promised, sent>>
    BY <1>3 DEF vars, engineVars
  <2>2. TypeOK'
    BY <2>1 DEF WellTyped, TypeOK, registers, machines
  <2>3. \A q \in Queues : Celled(q)'
    BY <2>1 DEF WellTyped, Celled, machines
  <2>4. QED BY <2>1, <2>2, <2>3 DEF WellTyped, machines
<1>4. QED BY <1>1, <1>2, <1>3 DEF Next

(* The registers, the machines' states and the addresses keep their types, *)
(* whatever the host does: no counter or address leaves the memory.        *)
THEOREM EngineTypes == Spec => []TypeOK
<1>1. Init => WellTyped
  BY TypesInit
<1>2. WellTyped /\ [Next]_vars => WellTyped'
  BY NextTypes
<1>3. WellTyped => TypeOK
  BY DEF WellTyped
<1>4. QED BY <1>1, <1>2, <1>3, PTL DEF Spec

-----------------------------------------------------------------------------
(* Exact replay.  The uses of the engine still to come are in order.       *)
Rest(s, use) == \E uses : Along(s, use, uses)

UseAt(stage) ==
  [stage |-> stage, rst |-> sw_rst, count |-> replay_count, trace |-> trace]

ToDo(stage) == Rest(script, UseAt(stage))

(* The words of q on their way to the port; and the RAM of q with the      *)
(* write under way.                                                        *)
Line(q) == sent[q] \o fifo[q]

Eff(q) ==
  IF wr_port[q].en THEN [mem[q] EXCEPT ![wr_port[q].addr] = wr_port[q].data] ELSE mem[q]

Size(q) == Len(trace[q])

(* The trace of q fits, and the RAM holds its first n words; all of it and *)
(* the end mark; then nothing.                                             *)
Holds(q, n) ==
  /\ Size(q) >= 1 /\ Size(q) + 2 <= MemSize
  /\ \A i \in 1 .. n : Eff(q)[i] = trace[q][i]

Marked(q) == Holds(q, Size(q)) /\ Eff(q)[Size(q) + 1] = EndMark

Kept(q) ==
  /\ Marked(q) /\ st_wr[q] = "IDLE"
  /\ ~Eff(q)[Inc(Size(q) + 1)].valid /\ ~Eff(q)[Inc(Size(q) + 1)].end

Ending(q) == Marked(q) /\ st_wr[q] = "DONE" /\ wr_addr[q] = Inc(Size(q) + 1)

(* The first n words have arrived, the others are on their way.            *)
Taken(q, n) ==
  /\ Holds(q, n) /\ n + Len(dma) = Size(q)
  /\ st_wr[q] = (IF n = 0 THEN "IDLE" ELSE "WR") /\ wr_addr[q] = n + 1
  /\ \A i \in 1 .. Len(dma) : dma[i].port = q /\ dma[i].word = trace[q][n + i]

Loading(q) == \E n \in 0 .. Size(q) : Taken(q, n)

(* What the write machine of q has done when the use of q is at stage s.   *)
Writer(q, s) ==
  /\ st_wr[q] = "IDLE" => wr_addr[q] = 1
  /\ wr_done[q] <=> s = "ended"
  /\ s = "new" => st_wr[q] = "IDLE"
  /\ s = "loading" => Loading(q)
  /\ s = "arrived" => dma = <<>> /\ Loading(q)
  /\ s = "ended" => Ending(q) \/ Kept(q) \/ (~ticked /\ dma = <<>> /\ Loading(q))
  /\ s = "closed" => Kept(q) \/ (~ticked /\ Ending(q))
  /\ s = "ready" => Kept(q) /\ (ticked => ~wr_port[q].en)
  /\ s = "started" => Kept(q) /\ ~wr_port[q].en

(* The read machine rests: all that is promised is on its way, and nothing *)
(* left on the RAM's output can enter the FIFO.                            *)
Resting(q) ==
  /\ st_rd[q] = "IDLE" /\ rd_addr[q] = 1 /\ Line(q) = promised[q]
  /\ dina[q].valid =>
       fifo[q] = <<>> /\ ~r_nearly_full[q] /\ (r_rden[q] => r_start[q])

Quiet(q) ==
  /\ Resting(q) /\ fifo[q] = <<>> /\ ~r_nearly_full[q]
  /\ StartPulse(q) => sw_rst \/ replay_count[q] = 0

(* It plays: a replay owes its trace after the first `base' words.  In this *)
(* round the words before word j are on their way, and word j is on the    *)
(* RAM's output, or about to be read.                                      *)
Owes(q, base) ==
  /\ Len(promised[q]) = base + replay_count[q] * Size(q)
  /\ \A i \in 1 .. replay_count[q] * Size(q) :
       promised[q][base + i] = trace[q][((i - 1) % Size(q)) + 1]

Shows(q, j) ==
  \/ rd_addr[q] = Inc(j) /\ dina[q] = mem[q][j] /\ (r_rden[q] \/ r_nearly_full[q])
  \/ j = 1 /\ rd_addr[q] = 1 /\ ~dina[q].valid /\ ~dina[q].end

At(q, base, j) ==
  /\ count[q] < replay_count[q]
  /\ Len(Line(q)) = base + count[q] * Size(q) + (j - 1)
  /\ Shows(q, j)

Begun(q) ==
  /\ Len(Line(q)) <= Len(promised[q])
  /\ \A i \in 1 .. Len(Line(q)) : Line(q)[i] = promised[q][i]

Playing(q) ==
  /\ st_rd[q] = "RD" /\ Begun(q)
  /\ \E base \in Nat, j \in 1 .. Size(q) + 1 : Owes(q, base) /\ At(q, base, j)

Reader(q, s) ==
  /\ s = "started" => replay_count[q] # 0 /\ (Resting(q) \/ Playing(q))
  /\ s # "started" => Quiet(q)

(* The words on their way belong to the queue that is loading; one queue   *)
(* at a time is; the reset comes when none is in use.                      *)
InStage(stage) ==
  /\ \A i \in 1 .. Len(dma) : stage[dma[i].port] = "loading"
  /\ \A p, q \in Queues : stage[p] \in Busy /\ stage[q] \in Busy => p = q
  /\ sw_rst => \A q \in Queues : stage[q] \in {"new", "closed", "ready"}
  /\ ticked => r_start = start_replay

Exact(stage) ==
  /\ stage \in [Queues -> Stages]
  /\ ToDo(stage) /\ InStage(stage)
  /\ \A q \in Queues : Writer(q, stage[q]) /\ Reader(q, stage[q])

ExactInv == WellTyped /\ \E stage : Exact(stage)

-----------------------------------------------------------------------------
LEMMA RestMoves ==
  ASSUME NEW s \in Seq(Steps), s # <<>>, NEW use, Rest(s, use)
  PROVE  Allowed(use, s[1]) /\ Rest(Tail(s), After(use, s[1]))
<1>1. PICK uses : Along(s, use, uses)
  BY DEF Rest
<1>2. PICK r : r = Tail(s)
  OBVIOUS
<1>3. /\ 1 \in DOMAIN s
      /\ \A i \in DOMAIN r : i + 1 \in DOMAIN s /\ r[i] = s[i + 1] /\ i \in Nat
  BY <1>2, FirstAndRest
<1>4. /\ uses[1] = use
      /\ \A i \in DOMAIN s : Allowed(uses[i], s[i]) /\ uses[i + 1] = After(uses[i], s[i])
  BY <1>1, Zenon DEF Along
<1>5. Allowed(use, s[1]) /\ uses[1 + 1] = After(use, s[1])
  BY <1>3, <1>4, Zenon
<1> DEFINE more == [i \in Nat |-> uses[i + 1]]
<1>6. \A i \in Nat : more[i] = uses[i + 1] /\ i + 1 \in Nat
  OBVIOUS
<1>7. 1 \in Nat
  OBVIOUS
<1> HIDE DEF more
<1>8. more[1] = After(use, s[1])
  BY <1>5, <1>6, <1>7, Zenon
<1>9. \A i \in DOMAIN r : Allowed(more[i], r[i]) /\ more[i + 1] = After(more[i], r[i])
  BY <1>3, <1>4, <1>6, Zenon
<1>10. Along(r, After(use, s[1]), more)
  BY <1>8, <1>9, Zenon DEF Along
<1>11. QED BY <1>2, <1>5, <1>10, Zenon DEF Rest

LEMMA Regroup ==
  ASSUME NEW s \in Seq(Cells), NEW t \in Seq(Cells), NEW u \in Seq(Cells)
  PROVE  (s \o t) \o u = s \o (t \o u)
BY ConcatAssociative

(* A word that leaves the FIFO and one that enters it only lengthen the    *)
(* line.                                                                   *)
LEMMA LineMoves ==
  ASSUME WellTyped, NEW q \in Queues, NEW bus,
         NEW nf \in [Queues -> BOOLEAN], NEW go \in [Queues -> BOOLEAN],
         Clock(bus, nf, go, trace)
  PROVE  /\ Line(q) \in Seq(Cells)
         /\ Line(q)' = IF Enters(q, nf) THEN Append(Line(q), dina[q]) ELSE Line(q)
         /\ ~Leaves(q, go) /\ ~Enters(q, nf) => fifo'[q] = fifo[q]
         /\ fifo[q] = <<>> => ~Leaves(q, go) /\ ~nf[q]
<1>1. fifo[q] \in Seq(Cells) /\ sent[q] \in Seq(Cells) /\ dina[q] \in Cells
  BY DEF WellTyped, Celled
<1>2. PICK f, s, d : f = fifo[q] /\ s = sent[q] /\ d = dina[q]
  OBVIOUS
<1>3. f \in Seq(Cells) /\ s \in Seq(Cells) /\ d \in Cells
  BY <1>1, <1>2
<1>4. PICK e : e = IF Enters(q, nf) THEN <<d>> ELSE <<>>
  OBVIOUS
<1>5. e \in Seq(Cells)
  BY <1>3, <1>4
<1>6. /\ fifo'[q] = (IF Leaves(q, go) THEN Tail(f) ELSE f) \o e
      /\ sent'[q] = IF Leaves(q, go) THEN Append(s, Head(f)) ELSE s
      /\ Leaves(q, go) => f # <<>>
      /\ nf[q] => Len(f) >= FifoDepth - 1
  BY <1>2, <1>4 DEF Clock, Fifos, History, Leaves, NearlyFull
<1>7. sent'[q] \o fifo'[q] = (s \o f) \o e
  <2>1. CASE Leaves(q, go)
    <3>1. Head(f) \in Cells /\ Tail(f) \in Seq(Cells) /\ f = <<Head(f)>> \o Tail(f)
      BY <1>3, <1>6, <2>1
    <3>2. PICK h \in Cells, t \in Seq(Cells) : h = Head(f) /\ t = Tail(f)
      BY <3>1
    <3>3. Append(s, h) = s \o <<h>> /\ <<h>> \in Seq(Cells) /\ f = <<h>> \o t
      BY <1>3, <3>1, <3>2
    <3>4. sent'[q] \o fifo'[q] = (s \o <<h>>) \o (t \o e)
      BY <1>6, <2>1, <3>2, <3>3
    <3>5. t \o e \in Seq(Cells)
      BY <1>5, <3>2
    <3>6. (s \o <<h>>) \o (t \o e) = s \o (<<h>> \o (t \o e))
      BY <1>3, <3>3, <3>5, Regroup
    <3>7. (<<h>> \o t) \o e = <<h>> \o (t \o e)
      BY <1>5, <3>2, <3>3, Regroup, Zenon
    <3>8. (s \o f) \o e = s \o (f \o e)
      BY <1>3, <1>5, Regroup, Zenon
    <3>9. QED BY <3>3, <3>4, <3>6, <3>7, <3>8, Zenon
  <2>2. CASE ~Leaves(q, go)
    <3>1. sent'[q] \o fifo'[q] = s \o (f \o e)
      BY <1>6, <2>2
    <3>2. (s \o f) \o e = s \o (f \o e)
      BY <1>3, <1>5, ConcatAssociative
    <3>3. QED BY <3>1, <3>2
  <2>3. QED BY <2>1, <2>2
<1>8. Line(q)' = (s \o f) \o e /\ Line(q) = s \o f
  BY <1>2, <1>7 DEF Line
<1>9. s \o f \in Seq(Cells)
  BY <1>3
<1>10. (s \o f) \o e = IF Enters(q, nf) THEN Append(s \o f, d) ELSE s \o f
  <2>1. PICK l \in Seq(Cells) : l = s \o f
    BY <1>9
  <2>2. l \o e = IF Enters(q, nf) THEN Append(l, d) ELSE l
    <3>1. CASE Enters(q, nf)
      BY <3>1, <1>3, <1>4
    <3>2. CASE ~Enters(q, nf)
      BY <3>2, <1>4
    <3>3. QED BY <3>1, <3>2
  <2>3. QED BY <2>1, <2>2
<1>11. ~Leaves(q, go) /\ ~Enters(q, nf) => fifo'[q] = fifo[q]
  BY <1>2, <1>3, <1>4, <1>6
<1>12. fifo[q] = <<>> => ~Leaves(q, go) /\ ~nf[q]
  <2>1. FifoDepth - 1 > 0
    BY EngineAssumption
  <2>2. f = <<>> => Len(f) = 0
    OBVIOUS
  <2>3. QED BY <1>2, <1>6, <2>1, <2>2, EngineAssumption
<1>13. QED BY <1>2, <1>8, <1>9, <1>10, <1>11, <1>12, Zenon

(* What the read machine of a queue does in an edge.                       *)
LEMMA ReadEdge ==
  ASSUME WellTyped, NEW q \in Queues, NEW bus,
         NEW nf \in [Queues -> BOOLEAN], NEW go \in [Queues -> BOOLEAN],
         Clock(bus, nf, go, trace)
  PROVE  /\ rd_addr'[q] = ReadAddrNext(q, nf) /\ count'[q] = CountNext(q, nf)
         /\ st_rd'[q] = ReadStateNext(q, nf) /\ r_start'[q] = start_replay[q]
         /\ (r_rden'[q] <=> ReadEnable(q, nf)) /\ (r_nearly_full'[q] <=> nf[q])
         /\ replay_count' = replay_count /\ start_replay' = start_replay /\ sw_rst' = sw_rst
         /\ ~wr_port[q].en => /\ mem'[q] = mem[q]
                              /\ dina'[q] = IF ReadEnable(q, nf) THEN mem[q][rd_addr[q]]
                                            ELSE dina[q]
         /\ ~ReadEnable(q, nf) /\ ~wr_port[q].en => dina'[q] = dina[q]
         /\ promised'[q] = IF Begins(q, nf) /\ ~sw_rst
                           THEN promised[q] \o Repeat(trace[q], replay_count[q])
                           ELSE promised[q]
<1>1. /\ rd_addr'[q] = ReadAddrNext(q, nf) /\ count'[q] = CountNext(q, nf)
      /\ st_rd'[q] = ReadStateNext(q, nf) /\ r_start'[q] = start_replay[q]
      /\ r_nearly_full'[q] = nf[q]
  BY DEF Clock, ReadMachines
<1>2. r_rden'[q] = ReadEnable(q, nf)
  BY DEF Clock, ReadMachines
<1>3. replay_count' = replay_count /\ start_replay' = start_replay /\ sw_rst' = sw_rst
  BY DEF Clock, registers
<1>4. ~wr_port[q].en => /\ mem'[q] = mem[q]
                        /\ dina'[q] = IF ReadEnable(q, nf) THEN mem[q][rd_addr[q]]
                                      ELSE dina[q]
  BY DEF Clock, Memory
<1>5. promised'[q] = IF Begins(q, nf) /\ ~sw_rst
                     THEN promised[q] \o Repeat(trace[q], replay_count[q])
                     ELSE promised[q]
  BY DEF Clock, History
<1>6. (r_rden'[q] <=> ReadEnable(q, nf)) /\ (r_nearly_full'[q] <=> nf[q])
  BY <1>1, <1>2
<1>7. ~ReadEnable(q, nf) /\ ~wr_port[q].en => dina'[q] = dina[q]
  BY <1>4
<1>8. QED BY <1>1, <1>3, <1>4, <1>5, <1>6, <1>7, Zenon

(* A queue that is not started stays quiet: even a pulse under the reset   *)
(* leaves nothing that can enter the FIFO.                                 *)
LEMMA QuietEdge ==
  ASSUME WellTyped, NEW q \in Queues, NEW bus,
         NEW nf \in [Queues -> BOOLEAN], NEW go \in [Queues -> BOOLEAN],
         Clock(bus, nf, go, trace), Quiet(q)
  PROVE  Quiet(q)'
<1>1. /\ st_rd[q] = "IDLE" /\ rd_addr[q] = 1 /\ Line(q) = promised[q] /\ fifo[q] = <<>>
      /\ ~r_nearly_full[q] /\ (dina[q].valid /\ r_rden[q] => r_start[q])
      /\ StartPulse(q) => sw_rst \/ replay_count[q] = 0
  BY DEF Quiet, Resting
<1>2. Begins(q, nf) => sw_rst /\ ~r_start[q] /\ start_replay[q]
  BY <1>1 DEF Begins, StartPulse
<1>3. ~Reading(q) /\ (ReadEnable(q, nf) <=> Begins(q, nf)) /\ ~AtEnd(q, nf)
  BY <1>1 DEF Reading, ReadEnable, AtEnd
<1>4. ~Enters(q, nf)
  BY <1>1, <1>2, <1>3 DEF Enters
<1>5. ~Leaves(q, go) /\ ~nf[q] /\ fifo'[q] = <<>> /\ Line(q)' = Line(q)
  BY <1>1, <1>4, LineMoves
<1>6. /\ rd_addr'[q] = ReadAddrNext(q, nf) /\ st_rd'[q] = ReadStateNext(q, nf)
      /\ r_start'[q] = start_replay[q] /\ start_replay' = start_replay
      /\ (r_rden'[q] <=> ReadEnable(q, nf)) /\ (r_nearly_full'[q] <=> nf[q])
      /\ promised'[q] = IF Begins(q, nf) /\ ~sw_rst
                        THEN promised[q] \o Repeat(trace[q], replay_count[q])
                        ELSE promised[q]
  BY ReadEdge
<1>7. st_rd'[q] = "IDLE"
  BY <1>2, <1>3, <1>6 DEF ReadStateNext
<1>8. rd_addr'[q] = 1
  BY <1>2, <1>3, <1>6 DEF ReadAddrNext
<1>9. promised'[q] = promised[q]
  BY <1>2, <1>6
<1>10. r_rden'[q] => r_start'[q]
  BY <1>2, <1>3, <1>6
<1>11. ~r_nearly_full'[q] /\ ~StartPulse(q)'
  BY <1>5, <1>6 DEF StartPulse
<1>12. Resting(q)'
  BY <1>1, <1>5, <1>7, <1>8, <1>9, <1>10, <1>11 DEF Resting
<1>13. QED BY <1>5, <1>11, <1>12 DEF Quiet

-----------------------------------------------------------------------------
(* Arithmetic of the rounds of a replay.                                   *)
LEMMA Rounds ==
  ASSUME NEW L \in Nat, NEW c \in Nat, NEW r \in Nat, c < r
  PROVE  /\ c * L \in Nat /\ r * L \in Nat /\ c * L + L <= r * L
         /\ (c + 1) * L = c * L + L /\ (c + 1 = r => c * L + L = r * L)
         /\ 0 * L = 0
<1>1. c * L \in Nat /\ r * L \in Nat /\ (r - c - 1) * L \in Nat
  <2>1. r - c - 1 \in Nat
    OBVIOUS
  <2> DEFINE d == r - c - 1
  <2>2. c * L \in Nat /\ r * L \in Nat
    OBVIOUS
  <2> HIDE DEF d
  <2>3. d * L \in Nat
    BY <2>1 DEF d
  <2>4. QED BY <2>2, <2>3 DEF d
<1>2. (r - c - 1) * L = r * L - (c * L + L)
  OBVIOUS
<1>3. (c + 1) * L = c * L + L
  OBVIOUS
<1>4. QED BY <1>1, <1>2, <1>3

LEMMA DivModSum ==
  ASSUME NEW w \in Int, w > 0, NEW x \in Int
  PROVE  x = w * (x \div w) + (x % w)
OBVIOUS

(* The word that a round's position c * L + j stands for.                  *)
LEMMA RoundWord ==
  ASSUME NEW L \in Nat, NEW c \in Nat, NEW j \in 1 .. L
  PROVE  ((c * L + j - 1) % L) + 1 = j
<1>1. L \in Int /\ L > 0
  OBVIOUS
<1> DEFINE x == c * L + j - 1
<1>2. c * L \in Nat
  OBVIOUS
<1>3. x \in Int
  BY <1>2
<1> HIDE DEF x
<1>4. x = L * (x \div L) + (x % L) /\ x % L \in 0 .. L - 1 /\ x \div L \in Int
  BY <1>1, <1>3, DivModSum
<1> DEFINE k == x \div L  m == x % L
<1>5. c * L + (j - 1) = k * L + m /\ k \in Int /\ m \in 0 .. L - 1
  BY <1>4, <1>2 DEF x
<1> HIDE DEF k, m
<1>6. (c - k) * L = m - (j - 1)
  BY <1>5
<1>7. CASE c = k
  BY <1>5, <1>7 DEF m, x
<1>8. CASE c > k
  <2>1. (c - k) * L >= L
    BY <1>1, <1>5, <1>8
  <2>2. QED BY <1>5, <1>6, <2>1
<1>9. CASE c < k
  <2>1. (k - c) * L >= L
    BY <1>1, <1>5, <1>9
  <2>2. (k - c) * L = (j - 1) - m
    BY <1>5
  <2>3. QED BY <1>5, <2>1, <2>2
<1>10. QED BY <1>5, <1>7, <1>8, <1>9

LEMMA NextAddress ==
  ASSUME MemSize \in Nat, NEW L \in Nat \ {0}, L + 2 <= MemSize
  PROVE  /\ \A j \in 0 .. L : Inc(j) = j + 1 /\ j + 1 \in Addresses
         /\ Inc(L + 1) \in Addresses /\ Inc(L + 1) \notin 1 .. L + 1
<1>1. \A j \in 0 .. L : Inc(j) = j + 1 /\ j + 1 \in Addresses
  BY DEF Inc, Addresses
<1>2. CASE L + 2 = MemSize
  <2>1. Inc(L + 1) = 0
    <3>1. MemSize % MemSize = 0
      OBVIOUS
    <3>2. (L + 1) + 1 = MemSize
      BY <1>2
    <3>3. QED BY <3>1, <3>2 DEF Inc
  <2>2. 0 \in Addresses
    BY DEF Addresses
  <2>3. QED BY <1>1, <2>1, <2>2
<1>3. CASE L + 2 < MemSize
  <2>1. Inc(L + 1) = L + 2
    BY <1>3 DEF Inc
  <2>2. L + 2 \in Addresses
    BY <1>3 DEF Addresses
  <2>3. QED BY <1>1, <2>1, <2>2
<1>4. QED BY <1>2, <1>3

(* What a kept RAM shows when no write is under way.                       *)
LEMMA KeptReads ==
  ASSUME WellTyped, NEW q \in Queues, Kept(q), ~wr_port[q].en
  PROVE  /\ Size(q) \in Nat \ {0} /\ Size(q) + 2 <= MemSize /\ trace[q] \in Seq(PacketWords)
         /\ \A i \in 1 .. Size(q) : mem[q][i] = trace[q][i]
         /\ \A i \in 1 .. Size(q) : trace[q][i] \in PacketWords
         /\ \A i \in 1 .. Size(q) : mem[q][i].valid = TRUE /\ mem[q][i].end = FALSE
         /\ mem[q][Size(q) + 1] = EndMark
         /\ ~mem[q][Inc(Size(q) + 1)].valid /\ ~mem[q][Inc(Size(q) + 1)].end
         /\ \A j \in 0 .. Size(q) : Inc(j) = j + 1
         /\ Inc(1) = 2
<1>1. trace[q] \in Seq(PacketWords) /\ MemSize \in Nat
  BY EngineAssumption DEF WellTyped
<1>2. Eff(q) = mem[q]
  BY DEF Eff
<1>3. /\ Size(q) >= 1 /\ Size(q) + 2 <= MemSize
      /\ \A i \in 1 .. Size(q) : mem[q][i] = trace[q][i]
      /\ mem[q][Size(q) + 1] = EndMark
      /\ ~mem[q][Inc(Size(q) + 1)].valid /\ ~mem[q][Inc(Size(q) + 1)].end
  BY <1>2, Zenon DEF Kept, Marked, Holds
<1>4. Size(q) \in Nat \ {0} /\ \A i \in 1 .. Size(q) : trace[q][i] \in PacketWords
  BY <1>1, <1>3 DEF Size
<1>5. \A i \in 1 .. Size(q) : mem[q][i].valid = TRUE /\ mem[q][i].end = FALSE
  BY <1>3, <1>4, CellMarks
<1>6. \A j \in 0 .. Size(q) : Inc(j) = j + 1
  BY <1>1, <1>3, <1>4, NextAddress
<1>7. Inc(1) = 2
  <2>1. 1 \in 0 .. Size(q)
    BY <1>4
  <2>2. Inc(1) = 1 + 1
    BY <1>6, <2>1
  <2>3. QED BY <2>2
<1>8. QED BY <1>1, <1>3, <1>4, <1>5, <1>6, <1>7

(* A started queue that rests goes on resting, or begins to play.          *)
LEMMA RestingEdge ==
  ASSUME WellTyped, NEW q \in Queues, NEW bus,
         NEW nf \in [Queues -> BOOLEAN], NEW go \in [Queues -> BOOLEAN],
         Clock(bus, nf, go, trace), trace' = trace,
         Resting(q), Kept(q), ~wr_port[q].en, ~sw_rst, replay_count[q] # 0
  PROVE  Resting(q)' \/ Playing(q)'
<1>1. /\ st_rd[q] = "IDLE" /\ rd_addr[q] = 1 /\ Line(q) = promised[q]
      /\ dina[q].valid =>
           fifo[q] = <<>> /\ ~r_nearly_full[q] /\ (r_rden[q] => r_start[q])
  BY DEF Resting
<1>2. ~Reading(q) /\ ~AtEnd(q, nf) /\ (ReadEnable(q, nf) <=> Begins(q, nf))
  BY <1>1 DEF Reading, AtEnd, ReadEnable
<1>3. Begins(q, nf) => ~r_start[q]
  BY DEF Begins, StartPulse
<1>4. ~Enters(q, nf)
  BY <1>1, <1>2, <1>3 DEF Enters
<1>5. Line(q)' = Line(q) /\ (fifo[q] = <<>> => fifo'[q] = <<>> /\ ~nf[q])
  BY <1>4, LineMoves
<1>6. /\ rd_addr'[q] = ReadAddrNext(q, nf) /\ count'[q] = CountNext(q, nf)
      /\ st_rd'[q] = ReadStateNext(q, nf) /\ replay_count' = replay_count
      /\ (r_rden'[q] <=> ReadEnable(q, nf)) /\ (r_nearly_full'[q] <=> nf[q])
      /\ mem'[q] = mem[q]
      /\ dina'[q] = IF ReadEnable(q, nf) THEN mem[q][rd_addr[q]] ELSE dina[q]
      /\ promised'[q] = IF Begins(q, nf) /\ ~sw_rst
                        THEN promised[q] \o Repeat(trace[q], replay_count[q])
                        ELSE promised[q]
  BY ReadEdge
<1>7. CASE ~Begins(q, nf)
  <2>1. /\ st_rd'[q] = "IDLE" /\ rd_addr'[q] = 1 /\ promised'[q] = promised[q]
        /\ dina'[q] = dina[q] /\ ~r_rden'[q]
    BY <1>2, <1>6, <1>7 DEF ReadStateNext, ReadAddrNext
  <2>2. Resting(q)'
    BY <2>1, <1>1, <1>5, <1>6 DEF Resting
  <2>3. QED BY <2>2
<1>8. CASE Begins(q, nf)
  <2>1. /\ st_rd'[q] = "RD" /\ rd_addr'[q] = Inc(1) /\ count'[q] = 0
        /\ dina'[q] = mem'[q][1] /\ r_rden'[q]
    BY <1>1, <1>2, <1>6, <1>8 DEF ReadStateNext, ReadAddrNext, CountNext
  <2>2. PICK P \in Seq(Cells), T \in Seq(PacketWords), r \in Nat :
          P = promised[q] /\ T = trace[q] /\ r = replay_count[q]
    BY DEF WellTyped, TypeOK, Celled
  <2>3. PICK R \in Seq(Cells) :
          /\ R = Repeat(T, r) /\ Len(R) = r * Len(T)
          /\ \A i \in 1 .. r * Len(T) : R[i] = T[((i - 1) % Len(T)) + 1]
    BY RepeatType
  <2>4. promised'[q] = P \o R
    BY <1>6, <1>8, <2>2, <2>3
  <2>5. PICK n \in Nat, m \in Nat : n = Len(P) /\ m = Len(R)
    BY <2>2, <2>3
  <2>6. /\ Len(promised'[q]) = n + m
        /\ \A i \in 1 .. n : promised'[q][i] = P[i]
        /\ \A i \in 1 .. m : promised'[q][n + i] = R[i]
    <3>1. P \in Seq(Cells) /\ R \in Seq(Cells)
      BY <2>2, <2>3
    <3>2. QED BY <3>1, <2>4, <2>5
  <2>7. PICK len \in Nat : len = Len(T)
    BY <2>2
  <2>8. Size(q)' = len /\ replay_count'[q] = r /\ trace'[q] = T /\ Line(q)' = P
    BY <1>1, <1>5, <1>6, <2>2, <2>7 DEF Size
  <2>9. Owes(q, n)'
    <3>1. m = r * len
      BY <2>3, <2>5, <2>7
    <3>2. Len(promised'[q]) = n + r * len
      BY <2>6, <3>1
    <3>3. \A i \in 1 .. r * len : promised'[q][n + i] = T[((i - 1) % len) + 1]
      BY <2>3, <2>6, <2>7, <3>1
    <3>4. QED BY <3>2, <3>3, <2>8, Zenon DEF Owes
  <2>10. Begun(q)'
    <3>1. n <= n + m
      OBVIOUS
    <3>2. QED BY <3>1, <2>5, <2>6, <2>8 DEF Begun
  <2>11. At(q, n, 1)'
    <3>1. Shows(q, 1)'
      BY <2>1, Zenon DEF Shows
    <3>2. count'[q] < replay_count'[q]
      BY <2>1, <2>2, <2>8
    <3>3. 0 * len = 0
      OBVIOUS
    <3>4. n = n + count'[q] * len + (1 - 1)
      BY <2>1, <3>3
    <3>5. Len(Line(q)') = n + count'[q] * Size(q)' + (1 - 1)
      BY <2>5, <2>8, <3>4
    <3>6. QED BY <3>1, <3>2, <3>5 DEF At
  <2>12. 1 \in 1 .. len + 1
    OBVIOUS
  <2>13. Playing(q)'
    BY <2>1, <2>8, <2>9, <2>10, <2>11, <2>12, Zenon DEF Playing
  <2>14. QED BY <2>13
<1>9. QED BY <1>7, <1>8

(* A queue that plays stays paused, takes a word into the line, or passes  *)
(* the end mark: to the next round, or to rest.                            *)
LEMMA PlayingEdge ==
  ASSUME WellTyped, NEW q \in Queues, NEW bus,
         NEW nf \in [Queues -> BOOLEAN], NEW go \in [Queues -> BOOLEAN],
         Clock(bus, nf, go, trace), trace' = trace,
         Playing(q), Kept(q), ~wr_port[q].en, ~sw_rst
  PROVE  Resting(q)' \/ Playing(q)'
<1>1. PICK base \in Nat, j \in 1 .. Size(q) + 1 : Owes(q, base) /\ At(q, base, j)
  BY DEF Playing
<1>2. st_rd[q] = "RD" /\ Begun(q) /\ Reading(q) /\ ~Begins(q, nf)
  BY DEF Playing, Reading, Begins
<1>3. (ReadEnable(q, nf) <=> ~nf[q]) /\ (AtEnd(q, nf) <=> dina[q].end /\ ~nf[q])
  BY <1>2 DEF ReadEnable, AtEnd
<1>4. Enters(q, nf) <=> dina[q].valid /\ ~nf[q] /\ (r_rden[q] \/ r_nearly_full[q])
  BY <1>3 DEF Enters
<1>5. /\ rd_addr'[q] = ReadAddrNext(q, nf) /\ count'[q] = CountNext(q, nf)
      /\ st_rd'[q] = ReadStateNext(q, nf) /\ replay_count' = replay_count
      /\ (r_rden'[q] <=> ~nf[q]) /\ (r_nearly_full'[q] <=> nf[q])
      /\ mem'[q] = mem[q]
      /\ dina'[q] = IF ReadEnable(q, nf) THEN mem[q][rd_addr[q]] ELSE dina[q]
      /\ promised'[q] = promised[q]
  BY <1>2, <1>3, ReadEdge
<1>6. PICK P \in Seq(Cells), T \in Seq(PacketWords), r \in Nat, c \in Nat, L \in Nat \ {0},
           line \in Seq(Cells) :
        /\ P = promised[q] /\ T = trace[q] /\ r = replay_count[q] /\ c = count[q]
        /\ L = Size(q) /\ line = Line(q)
  <2>1. promised[q] \in Seq(Cells) /\ trace[q] \in Seq(PacketWords)
        /\ replay_count[q] \in Nat /\ count[q] \in Nat
    BY DEF WellTyped, TypeOK, Celled
  <2>2. Size(q) \in Nat \ {0}
    BY KeptReads
  <2>3. Line(q) \in Seq(Cells)
    BY LineMoves
  <2>4. QED BY <2>1, <2>2, <2>3
<1>7. /\ promised'[q] = P /\ trace'[q] = T /\ replay_count'[q] = r /\ Size(q)' = L
      /\ Size(q) = L
  BY <1>5, <1>6 DEF Size
<1>8. Owes(q, base)' /\ Len(P) = base + r * L
      /\ \A i \in 1 .. r * L : P[base + i] = T[((i - 1) % L) + 1]
  <2>1. Len(P) = base + r * L
        /\ \A i \in 1 .. r * L : P[base + i] = T[((i - 1) % L) + 1]
    BY <1>1, <1>6, Zenon DEF Owes
  <2>2. QED BY <2>1, <1>7, Zenon DEF Owes
<1>9. c < r /\ Len(line) = base + c * L + (j - 1) /\ Shows(q, j)
  BY <1>1, <1>6, Zenon DEF At
<1>10. /\ c * L \in Nat /\ r * L \in Nat /\ c * L + L <= r * L
       /\ (c + 1) * L = c * L + L /\ (c + 1 = r => c * L + L = r * L)
  <2>1. L \in Nat /\ c \in Nat /\ r \in Nat /\ c < r
    BY <1>6, <1>9
  <2>2. QED BY <2>1, Rounds, Zenon
<1>11. Len(line) <= Len(P) /\ \A i \in 1 .. Len(line) : line[i] = P[i]
  BY <1>2, <1>6, Zenon DEF Begun
<1>12. /\ L + 2 <= MemSize
       /\ \A i \in 1 .. L : /\ mem[q][i] = T[i] /\ T[i] \in PacketWords
                            /\ mem[q][i].valid = TRUE /\ mem[q][i].end = FALSE
       /\ mem[q][L + 1] = EndMark
       /\ ~mem[q][Inc(L + 1)].valid /\ ~mem[q][Inc(L + 1)].end
       /\ \A i \in 0 .. L : Inc(i) = i + 1
       /\ Inc(1) = 2
  <2>1. Size(q) = L /\ trace[q] = T
    BY <1>6
  <2>2. Size(q) + 2 <= MemSize
    BY KeptReads
  <2>3. \A i \in 1 .. Size(q) : mem[q][i] = trace[q][i]
    BY KeptReads
  <2>4. \A i \in 1 .. Size(q) : trace[q][i] \in PacketWords
    BY KeptReads
  <2>5. \A i \in 1 .. Size(q) : mem[q][i].valid = TRUE /\ mem[q][i].end = FALSE
    BY KeptReads
  <2>6. mem[q][Size(q) + 1] = EndMark
    BY KeptReads
  <2>7. ~mem[q][Inc(Size(q) + 1)].valid /\ ~mem[q][Inc(Size(q) + 1)].end
    BY KeptReads
  <2>8. (\A i \in 0 .. Size(q) : Inc(i) = i + 1) /\ Inc(1) = 2
    BY KeptReads
  <2>9. QED BY <2>1, <2>2, <2>3, <2>4, <2>5, <2>6, <2>7, <2>8, Zenon
<1>13. j \in Nat /\ j >= 1 /\ j <= L + 1
  BY <1>1, <1>6
<1>14. ASSUME ~Enters(q, nf) PROVE Line(q)' = line /\ Begun(q)'
  <2>1. Line(q)' = line
    BY <1>14, <1>6, LineMoves
  <2>2. QED BY <2>1, <1>7, <1>11, Zenon DEF Begun
<1>15. ASSUME NEW k \in 1 .. L + 1, st_rd'[q] = "RD", Begun(q)', At(q, base, k)'
       PROVE  Playing(q)'
  BY <1>15, <1>7, <1>8, Zenon DEF Playing
<1>16. CASE nf[q]
  <2>1. /\ ~Enters(q, nf) /\ dina'[q] = dina[q] /\ rd_addr'[q] = rd_addr[q]
        /\ count'[q] = c /\ st_rd'[q] = "RD" /\ r_nearly_full'[q]
    BY <1>16, <1>2, <1>3, <1>4, <1>5, <1>6
       DEF ReadAddrNext, CountNext, ReadStateNext
  <2>2. Shows(q, j)'
    BY <2>1, <1>5, <1>9 DEF Shows
  <2>3. At(q, base, j)'
    BY <2>1, <2>2, <1>7, <1>9, <1>14, Zenon DEF At
  <2>4. QED BY <2>1, <2>3, <1>1, <1>7, <1>14, <1>15, Zenon
<1>17. CASE ~nf[q] /\ j = 1 /\ rd_addr[q] = 1 /\ ~dina[q].valid /\ ~dina[q].end
  <2>1. /\ ~Enters(q, nf) /\ dina'[q] = mem'[q][1] /\ rd_addr'[q] = Inc(1)
        /\ count'[q] = c /\ st_rd'[q] = "RD" /\ r_rden'[q]
    BY <1>17, <1>2, <1>3, <1>4, <1>5, <1>6
       DEF ReadAddrNext, CountNext, ReadStateNext
  <2>2. Shows(q, 1)'
    BY <2>1, Zenon DEF Shows
  <2>3. Len(line) = base + c * L + (1 - 1)
    BY <1>9, <1>17
  <2>4. At(q, base, 1)'
    BY <2>1, <2>2, <2>3, <1>7, <1>9, <1>14, Zenon DEF At
  <2>5. 1 \in 1 .. L + 1
    BY <1>6
  <2>6. QED BY <2>1, <2>4, <2>5, <1>14, <1>15, Zenon
<1>18. CASE /\ ~nf[q] /\ j <= L /\ rd_addr[q] = Inc(j) /\ dina[q] = mem[q][j]
            /\ r_rden[q] \/ r_nearly_full[q]
  <2>1. j \in 1 .. L /\ j \in 0 .. L
    BY <1>13, <1>18
  <2>2. /\ dina[q] = T[j] /\ dina[q].valid = TRUE /\ dina[q].end = FALSE
        /\ T[j] \in PacketWords /\ Inc(j) = j + 1
    BY <1>12, <1>18, <2>1
  <2>3. /\ Enters(q, nf) /\ ~AtEnd(q, nf) /\ ReadEnable(q, nf)
    BY <1>3, <1>4, <1>18, <2>2
  <2>4. /\ rd_addr'[q] = Inc(j + 1) /\ dina'[q] = mem'[q][j + 1] /\ r_rden'[q]
        /\ count'[q] = c /\ st_rd'[q] = "RD"
    BY <1>2, <1>5, <1>6, <1>18, <2>2, <2>3 DEF ReadAddrNext, CountNext, ReadStateNext
  <2>5. Line(q)' = Append(line, T[j]) /\ T[j] \in Cells
    BY <1>6, <2>2, <2>3, LineMoves, CellMarks
  <2>6. PICK new \in Seq(Cells) : new = Append(line, T[j])
    <3>1. line \in Seq(Cells)
      BY <1>6
    <3>2. Append(line, T[j]) \in Seq(Cells)
      BY <2>5, <3>1, AppendProperties
    <3>3. QED BY <3>2
  <2>7. Len(new) = Len(line) + 1 /\ new[Len(line) + 1] = T[j] /\ Len(line) \in Nat
        /\ \A i \in 1 .. Len(line) : new[i] = line[i]
    <3>1. line \in Seq(Cells) /\ T[j] \in Cells /\ new = Append(line, T[j])
      BY <1>6, <2>5, <2>6
    <3>2. QED BY <3>1
  <2>8. P[Len(line) + 1] = T[j] /\ Len(line) + 1 <= Len(P)
    <3> DEFINE x == c * L + j
    <3>1. x \in 1 .. r * L
      <4> DEFINE u == c * L  v == r * L
      <4>1. u \in Nat /\ v \in Nat /\ u + L <= v
        BY <1>10
      <4> HIDE DEF u, v
      <4>2. u + j \in 1 .. v
        BY <4>1, <2>1, <1>6
      <4>3. QED BY <4>2 DEF u, v
    <3>2. ((x - 1) % L) + 1 = j
      <4>1. L \in Nat /\ c \in Nat /\ j \in 1 .. L
        BY <1>6, <2>1
      <4>2. ((c * L + j - 1) % L) + 1 = j
        BY <4>1, RoundWord, Zenon
      <4>3. QED BY <4>2
    <3>3. Len(line) + 1 = base + x
      <4> DEFINE u == c * L
      <4>1. u \in Nat /\ Len(line) = base + u + (j - 1)
        BY <1>9, <1>10
      <4> HIDE DEF u
      <4>2. Len(line) + 1 = base + (u + j)
        BY <4>1, <1>13
      <4>3. QED BY <4>2 DEF u
    <3> HIDE DEF x
    <3>4. P[base + x] = T[j]
      BY <1>8, <3>1, <3>2, Zenon
    <3>5. base + x <= Len(P)
      <4> DEFINE v == r * L
      <4>1. v \in Nat /\ Len(P) = base + v /\ x \in 1 .. v
        BY <1>8, <1>10, <3>1
      <4> HIDE DEF v
      <4>2. QED BY <4>1
    <3>6. QED BY <3>3, <3>4, <3>5
  <2>9. Len(new) <= Len(P) /\ \A i \in 1 .. Len(new) : new[i] = P[i]
    <3>1. \A i \in 1 .. Len(new) : i \in 1 .. Len(line) \/ i = Len(line) + 1
      BY <2>7
    <3>2. QED BY <3>1, <2>7, <2>8, <1>11, Zenon
  <2>10. Line(q)' = new
    BY <2>5, <2>6
  <2>11. Begun(q)'
    BY <2>9, <2>10, <1>7, Zenon DEF Begun
  <2>12. Shows(q, j + 1)'
    BY <2>4, Zenon DEF Shows
  <2>13. Len(new) = base + c * L + ((j + 1) - 1)
    <3> DEFINE u == c * L
    <3>1. u \in Nat /\ Len(line) = base + u + (j - 1)
      BY <1>9, <1>10
    <3> HIDE DEF u
    <3>2. Len(new) = base + u + ((j + 1) - 1)
      BY <3>1, <2>7, <1>13
    <3>3. QED BY <3>2 DEF u
  <2>14. At(q, base, j + 1)'
    BY <2>4, <2>10, <2>12, <2>13, <1>7, <1>9, Zenon DEF At
  <2>15. j + 1 \in 1 .. L + 1
    BY <2>1
  <2>16. QED BY <2>4, <2>11, <2>14, <2>15, <1>15, Zenon
<1>19. CASE /\ ~nf[q] /\ j = L + 1 /\ rd_addr[q] = Inc(j) /\ dina[q] = mem[q][j]
  <2>1. dina[q] = EndMark /\ rd_addr[q] = Inc(L + 1)
    BY <1>12, <1>19
  <2>2. ~dina[q].valid /\ dina[q].end
    BY <2>1, CellMarks
  <2>3. AtEnd(q, nf) /\ ~Enters(q, nf) /\ ReadEnable(q, nf)
    BY <2>2, <1>3, <1>4, <1>19
  <2>4. rd_addr'[q] = 1 /\ ~dina'[q].valid /\ ~dina'[q].end
    BY <2>1, <2>3, <1>5, <1>12 DEF ReadAddrNext
  <2>5. Line(q)' = line /\ Begun(q)'
    BY <2>3, <1>14
  <2>6. Len(line) = base + (c * L + L)
    <3> DEFINE u == c * L
    <3>1. u \in Nat /\ Len(line) = base + u + (j - 1)
      BY <1>9, <1>10
    <3> HIDE DEF u
    <3>2. Len(line) = base + (u + L)
      BY <3>1, <1>6, <1>19
    <3>3. QED BY <3>2 DEF u
  <2>7. CASE c + 1 < r
    <3>1. Again(q)
      BY <2>7, <1>6 DEF Again
    <3>2. st_rd'[q] = "RD" /\ count'[q] = c + 1
      BY <3>1, <2>3, <1>2, <1>5, <1>6 DEF ReadStateNext, CountNext
    <3>3. Shows(q, 1)'
      BY <2>4, Zenon DEF Shows
    <3>4. Len(line) = base + (c + 1) * L + (1 - 1)
      <4> DEFINE v == (c + 1) * L
      <4>1. Len(line) = base + v /\ v \in Nat
        <5>1. (c + 1) * L = c * L + L /\ c * L \in Nat /\ L \in Nat
          BY <1>6, <1>10
        <5>2. QED BY <5>1, <2>6
      <4> HIDE DEF v
      <4>2. Len(line) = base + v + (1 - 1)
        BY <4>1
      <4>3. QED BY <4>2 DEF v
    <3>5. At(q, base, 1)'
      BY <2>5, <2>7, <3>2, <3>3, <3>4, <1>7, Zenon DEF At
    <3>6. 1 \in 1 .. L + 1
      BY <1>6
    <3>7. QED BY <2>5, <3>2, <3>5, <3>6, <1>15, Zenon
  <2>8. CASE ~(c + 1 < r)
    <3>1. ~Again(q) /\ c + 1 = r
      BY <2>8, <1>6, <1>9 DEF Again
    <3>2. st_rd'[q] = "IDLE"
      BY <3>1, <2>3, <1>2, <1>5 DEF ReadStateNext
    <3>3. Len(line) = Len(P)
      BY <2>6, <3>1, <1>8, <1>10
    <3>4. line = P
      BY <3>3, <1>6, <1>11, SeqEqual
    <3>5. Resting(q)'
      BY <2>4, <2>5, <3>2, <3>4, <1>7 DEF Resting
    <3>6. QED BY <3>5
  <2>9. QED BY <2>7, <2>8
<1>20. \/ rd_addr[q] = Inc(j) /\ dina[q] = mem[q][j] /\ (r_rden[q] \/ r_nearly_full[q])
       \/ j = 1 /\ rd_addr[q] = 1 /\ ~dina[q].valid /\ ~dina[q].end
  BY <1>9 DEF Shows
<1>21. j <= L \/ j = L + 1
  BY <1>13, <1>6
<1>22. QED BY <1>16, <1>17, <1>18, <1>19, <1>20, <1>21, Zenon

-----------------------------------------------------------------------------
(* The write machine.                                                      *)
LEMMA WriteEdge ==
  ASSUME WellTyped, NEW q \in Queues, NEW bus,
         NEW nf \in [Queues -> BOOLEAN], NEW go \in [Queues -> BOOLEAN],
         Clock(bus, nf, go, trace)
  PROVE  /\ st_wr'[q] = WriteStateNext(q, bus) /\ wr_addr'[q] = WriteAddrNext(q, bus)
         /\ (wr_port'[q].en <=> Writes(q, bus)) /\ wr_done' = wr_done /\ sw_rst' = sw_rst
         /\ Eff(q) \in [Addresses -> Cells]
         /\ Writes(q, bus) => Eff(q)' = [Eff(q) EXCEPT ![wr_addr[q]] = WriteData(q, bus)]
         /\ ~Writes(q, bus) => Eff(q)' = Eff(q)
<1>1. /\ st_wr'[q] = WriteStateNext(q, bus) /\ wr_addr'[q] = WriteAddrNext(q, bus)
      /\ wr_port'[q] = [en |-> Writes(q, bus), addr |-> wr_addr[q],
                        data |-> IF Writes(q, bus) THEN WriteData(q, bus) ELSE Nil]
  BY DEF Clock, WriteMachines
<1>2. wr_done' = wr_done /\ sw_rst' = sw_rst
  BY DEF Clock, registers
<1>3. mem'[q] = Eff(q)
  BY DEF Clock, Memory, Eff
<1>4. /\ wr_port'[q].en = Writes(q, bus) /\ wr_port'[q].addr = wr_addr[q]
      /\ Writes(q, bus) => wr_port'[q].data = WriteData(q, bus)
  BY <1>1
<1>5. Eff(q) \in [Addresses -> Cells]
  BY DEF WellTyped, Celled, Eff
<1>6. Eff(q)' = IF wr_port'[q].en THEN [mem'[q] EXCEPT ![wr_port'[q].addr] = wr_port'[q].data]
                ELSE mem'[q]
  BY DEF Eff
<1>7. Writes(q, bus) => Eff(q)' = [Eff(q) EXCEPT ![wr_addr[q]] = WriteData(q, bus)]
  BY <1>3, <1>4, <1>6, Zenon
<1>8. ~Writes(q, bus) => Eff(q)' = Eff(q)
  BY <1>3, <1>4, <1>6, Zenon
<1>9. QED BY <1>1, <1>2, <1>4, <1>5, <1>7, <1>8

LEMMA WriteIdle ==
  ASSUME WellTyped, NEW q \in Queues, NEW bus,
         NEW nf \in [Queues -> BOOLEAN], NEW go \in [Queues -> BOOLEAN],
         Clock(bus, nf, go, trace), st_wr[q] = "IDLE", ~Takes(q, bus)
  PROVE  /\ st_wr'[q] = "IDLE" /\ wr_addr'[q] = 1
         /\ Eff(q)' = Eff(q) /\ ~wr_port'[q].en
<1>1. ~Writes(q, bus)
  BY DEF Writes
<1>2. WriteStateNext(q, bus) = "IDLE"
  <2>1. CASE sw_rst
    BY <2>1 DEF WriteStateNext
  <2>2. CASE ~sw_rst
    BY <2>2 DEF WriteStateNext
  <2>3. QED BY <2>1, <2>2
<1>3. WriteAddrNext(q, bus) = 1
  BY <1>1 DEF WriteAddrNext
<1>4. QED BY <1>1, <1>2, <1>3, WriteEdge

LEMMA WriteWaits ==
  ASSUME WellTyped, NEW q \in Queues, NEW bus,
         NEW nf \in [Queues -> BOOLEAN], NEW go \in [Queues -> BOOLEAN],
         Clock(bus, nf, go, trace), st_wr[q] = "WR", ~sw_rst, ~wr_done[q],
         ~bus.word.valid
  PROVE  st_wr'[q] = "WR" /\ wr_addr'[q] = wr_addr[q] /\ Eff(q)' = Eff(q)
<1>1. ~Writes(q, bus)
  BY DEF Writes, Takes
<1>2. WriteStateNext(q, bus) = "WR"
  BY DEF WriteStateNext
<1>3. WriteAddrNext(q, bus) = wr_addr[q]
  BY <1>1 DEF WriteAddrNext
<1>4. QED BY <1>1, <1>2, <1>3, WriteEdge

LEMMA WriteTakes ==
  ASSUME WellTyped, NEW q \in Queues, NEW bus,
         NEW nf \in [Queues -> BOOLEAN], NEW go \in [Queues -> BOOLEAN],
         Clock(bus, nf, go, trace), st_wr[q] \in {"IDLE", "WR"}, ~sw_rst, ~wr_done[q],
         bus.word.valid, bus.port = q
  PROVE  /\ st_wr'[q] = "WR" /\ wr_addr'[q] = Inc(wr_addr[q])
         /\ Eff(q)' = [Eff(q) EXCEPT ![wr_addr[q]] = bus.word]
<1>1. Takes(q, bus)
  BY DEF Takes
<1>2. Writes(q, bus)
  <2>1. CASE st_wr[q] = "IDLE"
    BY <2>1, <1>1 DEF Writes
  <2>2. CASE st_wr[q] = "WR"
    BY <2>2, <1>1 DEF Writes
  <2>3. QED BY <2>1, <2>2
<1>3. WriteData(q, bus) = bus.word /\ WriteStateNext(q, bus) = "WR"
  <2>1. CASE st_wr[q] = "IDLE"
    BY <2>1, <1>1 DEF WriteData, WriteStateNext
  <2>2. CASE st_wr[q] = "WR"
    BY <2>2 DEF WriteData, WriteStateNext
  <2>3. QED BY <2>1, <2>2
<1>4. WriteAddrNext(q, bus) = Inc(wr_addr[q])
  BY <1>2 DEF WriteAddrNext
<1>5. QED BY <1>2, <1>3, <1>4, WriteEdge

LEMMA WriteEnds ==
  ASSUME WellTyped, NEW q \in Queues, NEW bus,
         NEW nf \in [Queues -> BOOLEAN], NEW go \in [Queues -> BOOLEAN],
         Clock(bus, nf, go, trace), st_wr[q] = "WR", ~sw_rst, wr_done[q]
  PROVE  /\ st_wr'[q] = "DONE" /\ wr_addr'[q] = Inc(wr_addr[q])
         /\ Eff(q)' = [Eff(q) EXCEPT ![wr_addr[q]] = EndMark]
<1>1. Writes(q, bus)
  BY DEF Writes
<1>2. WriteData(q, bus) = EndMark /\ WriteStateNext(q, bus) = "DONE"
  BY DEF WriteData, WriteStateNext
<1>3. WriteAddrNext(q, bus) = Inc(wr_addr[q])
  BY <1>1 DEF WriteAddrNext
<1>4. QED BY <1>1, <1>2, <1>3, WriteEdge

LEMMA WriteCloses ==
  ASSUME WellTyped, NEW q \in Queues, NEW bus,
         NEW nf \in [Queues -> BOOLEAN], NEW go \in [Queues -> BOOLEAN],
         Clock(bus, nf, go, trace), st_wr[q] = "DONE"
  PROVE  /\ st_wr'[q] = "IDLE" /\ wr_addr'[q] = 1
         /\ Eff(q)' = [Eff(q) EXCEPT ![wr_addr[q]] = Nil]
<1>1. Writes(q, bus)
  BY DEF Writes
<1>2. WriteData(q, bus) = Nil
  BY DEF WriteData
<1>3. WriteStateNext(q, bus) = "IDLE"
  <2>1. CASE sw_rst
    BY <2>1 DEF WriteStateNext
  <2>2. CASE ~sw_rst
    BY <2>2 DEF WriteStateNext
  <2>3. QED BY <2>1, <2>2
<1>4. WriteAddrNext(q, bus) = 1
  BY DEF WriteAddrNext
<1>5. QED BY <1>1, <1>2, <1>3, <1>4, WriteEdge

(* The trace of q, as long as it fits.                                     *)
LEMMA Room ==
  ASSUME WellTyped, NEW q \in Queues, NEW n, Holds(q, n)
  PROVE  /\ Size(q) \in Nat \ {0} /\ Size(q) + 2 <= MemSize
         /\ \A j \in 0 .. Size(q) : Inc(j) = j + 1
         /\ \A j \in 0 .. Size(q) : j + 1 \in Addresses
         /\ Inc(Size(q) + 1) \in Addresses /\ Inc(Size(q) + 1) \notin 1 .. Size(q) + 1
<1>1. trace[q] \in Seq(PacketWords) /\ MemSize \in Nat
  BY EngineAssumption DEF WellTyped
<1>2. Size(q) \in Nat /\ Size(q) >= 1 /\ Size(q) + 2 <= MemSize
  BY <1>1 DEF Holds, Size
<1>3. PICK L \in Nat \ {0} : L = Size(q)
  BY <1>2
<1>4. /\ \A j \in 0 .. L : Inc(j) = j + 1 /\ j + 1 \in Addresses
      /\ Inc(L + 1) \in Addresses /\ Inc(L + 1) \notin 1 .. L + 1
  BY <1>1, <1>2, <1>3, NextAddress
<1>5. QED BY <1>2, <1>3, <1>4

(* An edge with the trace as it was: the loading queue takes the next word *)
(* of its trace or waits.                                                  *)
LEMMA TakenEdge ==
  ASSUME WellTyped, NEW q \in Queues, NEW arrives \in BOOLEAN,
         NEW nf \in [Queues -> BOOLEAN], NEW go \in [Queues -> BOOLEAN],
         Edge(arrives, nf, go), ~sw_rst, ~wr_done[q],
         NEW n \in 0 .. Size(q), Taken(q, n)
  PROVE  IF arrives THEN n + 1 \in 0 .. Size(q) /\ Taken(q, n + 1)' ELSE Taken(q, n)'
<1>1. PICK bus : bus = IF arrives THEN Head(dma) ELSE NoWord
  OBVIOUS
<1>2. /\ Clock(bus, nf, go, trace) /\ (arrives => dma # <<>>) /\ dma \in Seq(OnWay)
      /\ dma' = IF arrives THEN Tail(dma) ELSE dma
      /\ trace' = trace
  BY <1>1 DEF Edge, WellTyped
<1>3. /\ bus.word.valid => arrives
      /\ arrives => bus = dma[1] /\ 1 \in DOMAIN dma /\ bus.word.valid
  BY <1>1, <1>2, BusWord
<1>4. /\ Holds(q, n) /\ n + Len(dma) = Size(q)
      /\ st_wr[q] = (IF n = 0 THEN "IDLE" ELSE "WR") /\ wr_addr[q] = n + 1
      /\ \A i \in 1 .. Len(dma) : dma[i].port = q /\ dma[i].word = trace[q][n + i]
  BY DEF Taken
<1>5. /\ Size(q) \in Nat \ {0} /\ Size(q) + 2 <= MemSize
      /\ \A j \in 0 .. Size(q) : Inc(j) = j + 1
      /\ \A j \in 0 .. Size(q) : j + 1 \in Addresses
  BY <1>4, Room
<1>6. PICK L \in Nat \ {0}, T \in Seq(PacketWords) : L = Size(q) /\ T = trace[q]
  BY <1>5 DEF WellTyped
<1>7. Size(q)' = L /\ trace'[q] = T /\ n \in 0 .. L /\ n \in Nat
  BY <1>2, <1>5, <1>6 DEF Size
<1>8. CASE arrives
  <2>1. Len(dma) \in Nat /\ Len(dma) >= 1 /\ n + 1 \in 0 .. L /\ n + 1 # 0
    BY <1>2, <1>4, <1>6, <1>7, <1>8
  <2>2. bus.port = q /\ bus.word = T[n + 1] /\ bus.word.valid
    BY <2>1, <1>3, <1>4, <1>6, <1>8
  <2>3. st_wr[q] \in {"IDLE", "WR"}
    BY <1>4
  <2>4. /\ st_wr'[q] = "WR" /\ wr_addr'[q] = Inc(wr_addr[q])
        /\ Eff(q)' = [Eff(q) EXCEPT ![wr_addr[q]] = bus.word]
    BY <1>2, <2>2, <2>3, WriteTakes
  <2>5. wr_addr'[q] = (n + 1) + 1
    BY <2>1, <2>4, <1>4, <1>5, <1>6
  <2>6. PICK E \in [Addresses -> Cells] : E = Eff(q)
    BY <1>2, WriteEdge
  <2>7. Eff(q)' = [E EXCEPT ![n + 1] = T[n + 1]] /\ n + 1 \in Addresses
    BY <2>2, <2>4, <2>6, <1>4, <1>5
  <2>8. \A i \in 1 .. n + 1 : Eff(q)'[i] = T[i]
    <3>1. \A i \in 1 .. n + 1 : i \in Addresses
      <4>1. \A i \in 1 .. n + 1 : i - 1 \in 0 .. Size(q) /\ (i - 1) + 1 = i
        BY <1>6, <1>7
      <4>2. QED BY <4>1, <1>5
    <3>2. \A i \in 1 .. n : E[i] = T[i]
      BY <2>6, <1>4, <1>6 DEF Holds
    <3>3. \A i \in 1 .. n + 1 : i = n + 1 \/ (i # n + 1 /\ i \in 1 .. n)
      BY <1>7
    <3>4. QED BY <2>6, <2>7, <3>1, <3>2, <3>3
  <2>9. Holds(q, n + 1)'
    BY <2>8, <1>5, <1>6, <1>7 DEF Holds
  <2>10. /\ Len(dma') = Len(dma) - 1
         /\ \A i \in 1 .. Len(dma') : i + 1 \in 1 .. Len(dma) /\ dma'[i] = dma[i + 1]
    <3>1. dma' = Tail(dma) /\ dma # <<>>
      BY <1>2, <1>8
    <3>2. QED BY <3>1, <1>2
  <2>11. (n + 1) + Len(dma') = L
    BY <2>1, <2>10, <1>4, <1>6
  <2>12. \A i \in 1 .. Len(dma') : dma'[i].port = q /\ dma'[i].word = T[(n + 1) + i]
    <3>1. ASSUME NEW i \in 1 .. Len(dma')
          PROVE  dma'[i].port = q /\ dma'[i].word = T[(n + 1) + i]
      <4>1. i + 1 \in 1 .. Len(dma) /\ dma'[i] = dma[i + 1]
        BY <2>10
      <4>2. dma[i + 1].port = q /\ dma[i + 1].word = T[n + (i + 1)]
        BY <4>1, <1>4, <1>6, Zenon
      <4>3. n + (i + 1) = (n + 1) + i
        BY <2>1, <2>10, <1>7
      <4>4. QED BY <4>1, <4>2, <4>3
    <3>2. QED BY <3>1
  <2>13. Taken(q, n + 1)'
    BY <2>1, <2>4, <2>5, <2>9, <2>11, <2>12, <1>7, Zenon DEF Taken
  <2>14. QED BY <2>1, <2>13, <1>6, <1>8
<1>9. CASE ~arrives
  <2>1. ~bus.word.valid /\ dma' = dma
    BY <1>2, <1>3, <1>9
  <2>2. ~Takes(q, bus)
    BY <2>1 DEF Takes
  <2>3. st_wr'[q] = st_wr[q] /\ wr_addr'[q] = wr_addr[q] /\ Eff(q)' = Eff(q)
    <3>1. CASE n = 0
      <4>1. st_wr[q] = "IDLE" /\ wr_addr[q] = 1
        BY <3>1, <1>4
      <4>2. QED BY <4>1, <2>2, <1>2, WriteIdle
    <3>2. CASE n # 0
      <4>1. st_wr[q] = "WR"
        BY <3>2, <1>4
      <4>2. QED BY <4>1, <2>1, <1>2, WriteWaits
    <3>3. QED BY <3>1, <3>2
  <2>4. Holds(q, n)'
    BY <2>3, <1>4, <1>6, <1>7 DEF Holds
  <2>5. Taken(q, n)'
    BY <2>1, <2>3, <2>4, <1>4, <1>6, <1>7, Zenon DEF Taken
  <2>6. QED BY <2>5, <1>9
<1>10. QED BY <1>8, <1>9

(* A RAM that keeps the trace of q goes on keeping it.                     *)
LEMMA KeptEdge ==
  ASSUME WellTyped, NEW q \in Queues, NEW bus,
         NEW nf \in [Queues -> BOOLEAN], NEW go \in [Queues -> BOOLEAN],
         Clock(bus, nf, go, trace), trace' = trace, ~Takes(q, bus), Kept(q)
  PROVE  Kept(q)' /\ wr_addr'[q] = 1 /\ st_wr'[q] = "IDLE" /\ ~wr_port'[q].en
<1>1. st_wr[q] = "IDLE"
  BY DEF Kept
<1>2. st_wr'[q] = "IDLE" /\ wr_addr'[q] = 1 /\ Eff(q)' = Eff(q) /\ ~wr_port'[q].en
  BY <1>1, WriteIdle
<1>3. Size(q)' = Size(q) /\ trace'[q] = trace[q]
  BY DEF Size
<1>4. Kept(q)'
  BY <1>2, <1>3, Zenon DEF Kept, Marked, Holds
<1>5. QED BY <1>2, <1>4

(* The end mark comes after the last word, and an empty cell after it.     *)
LEMMA TakenEnds ==
  ASSUME WellTyped, NEW q \in Queues, NEW bus,
         NEW nf \in [Queues -> BOOLEAN], NEW go \in [Queues -> BOOLEAN],
         Clock(bus, nf, go, trace), trace' = trace, ~sw_rst, wr_done[q],
         Taken(q, Size(q))
  PROVE  Ending(q)' /\ st_wr'[q] = "DONE"
<1>1. /\ Holds(q, Size(q)) /\ wr_addr[q] = Size(q) + 1
      /\ st_wr[q] = (IF Size(q) = 0 THEN "IDLE" ELSE "WR")
  BY DEF Taken
<1>2. /\ Size(q) \in Nat \ {0}
      /\ \A j \in 0 .. Size(q) : j + 1 \in Addresses
  BY <1>1, Room
<1>3. st_wr[q] = "WR"
  BY <1>1, <1>2
<1>4. /\ st_wr'[q] = "DONE" /\ wr_addr'[q] = Inc(wr_addr[q])
      /\ Eff(q)' = [Eff(q) EXCEPT ![wr_addr[q]] = EndMark]
  BY <1>3, WriteEnds
<1>5. PICK L \in Nat \ {0}, E \in [Addresses -> Cells], T \in Seq(PacketWords) :
        L = Size(q) /\ E = Eff(q) /\ T = trace[q]
  <2>1. Eff(q) \in [Addresses -> Cells] /\ trace[q] \in Seq(PacketWords)
    BY WriteEdge DEF WellTyped
  <2>2. QED BY <1>2, <2>1, Zenon
<1>6. Eff(q)' = [E EXCEPT ![L + 1] = EndMark] /\ L + 1 \in Addresses
  BY <1>1, <1>2, <1>4, <1>5
<1>7. Size(q)' = L /\ trace'[q] = T
  BY <1>5 DEF Size
<1>8. \A i \in 1 .. L : E[i] = T[i] /\ i # L + 1 /\ i \in Addresses
  <2>1. \A i \in 1 .. L : E[i] = T[i]
    BY <1>1, <1>5 DEF Holds
  <2>2. \A i \in 1 .. L : i # L + 1 /\ i - 1 \in 0 .. Size(q) /\ (i - 1) + 1 = i
    BY <1>5
  <2>3. QED BY <2>1, <2>2, <1>2
<1>9. /\ \A i \in 1 .. L : Eff(q)'[i] = T[i]
      /\ Eff(q)'[L + 1] = EndMark
  BY <1>6, <1>8
<1>10. Size(q)' >= 1 /\ Size(q)' + 2 <= MemSize
  BY <1>1, <1>5, <1>7 DEF Holds
<1>11. Marked(q)'
  BY <1>7, <1>9, <1>10, Zenon DEF Marked, Holds
<1>12. wr_addr'[q] = Inc(L + 1)
  BY <1>1, <1>4, <1>5
<1>13. QED BY <1>4, <1>7, <1>11, <1>12, Zenon DEF Ending

LEMMA EndingEdge ==
  ASSUME WellTyped, NEW q \in Queues, NEW bus,
         NEW nf \in [Queues -> BOOLEAN], NEW go \in [Queues -> BOOLEAN],
         Clock(bus, nf, go, trace), trace' = trace, Ending(q)
  PROVE  Kept(q)' /\ wr_addr'[q] = 1 /\ st_wr'[q] = "IDLE"
<1>1. /\ Holds(q, Size(q)) /\ Eff(q)[Size(q) + 1] = EndMark
      /\ st_wr[q] = "DONE" /\ wr_addr[q] = Inc(Size(q) + 1)
  BY DEF Ending, Marked
<1>2. /\ Size(q) \in Nat \ {0}
      /\ \A j \in 0 .. Size(q) : j + 1 \in Addresses
      /\ Inc(Size(q) + 1) \in Addresses /\ Inc(Size(q) + 1) \notin 1 .. Size(q) + 1
  BY <1>1, Room
<1>3. /\ st_wr'[q] = "IDLE" /\ wr_addr'[q] = 1
      /\ Eff(q)' = [Eff(q) EXCEPT ![wr_addr[q]] = Nil]
  BY <1>1, WriteCloses
<1>4. PICK L \in Nat \ {0}, E \in [Addresses -> Cells], a \in Addresses, T \in Seq(PacketWords) :
        L = Size(q) /\ E = Eff(q) /\ T = trace[q] /\ a = Inc(Size(q) + 1)
  <2>1. Eff(q) \in [Addresses -> Cells] /\ trace[q] \in Seq(PacketWords)
    BY WriteEdge DEF WellTyped
  <2>2. Size(q) \in Nat \ {0} /\ Inc(Size(q) + 1) \in Addresses
    BY <1>2
  <2>3. QED BY <2>1, <2>2, Zenon
<1>5. Eff(q)' = [E EXCEPT ![a] = Nil] /\ a \notin 1 .. L + 1 /\ a = Inc(L + 1)
  BY <1>1, <1>2, <1>3, <1>4
<1>6. Size(q)' = L /\ trace'[q] = T
  BY <1>4 DEF Size
<1>7. \A i \in 1 .. L : E[i] = T[i] /\ i \in 1 .. L + 1 /\ i \in Addresses
  <2>1. \A i \in 1 .. L : E[i] = T[i]
    BY <1>1, <1>4 DEF Holds
  <2>2. \A i \in 1 .. L : i \in 1 .. L + 1 /\ i - 1 \in 0 .. Size(q) /\ (i - 1) + 1 = i
    BY <1>4
  <2>3. SUFFICES ASSUME NEW i \in 1 .. L
                 PROVE  E[i] = T[i] /\ i \in 1 .. L + 1 /\ i \in Addresses
    OBVIOUS
  <2>4. PICK j \in 0 .. Size(q) : j + 1 = i
    BY <2>2
  <2>5. QED BY <2>1, <2>2, <2>4, <1>2
<1>8. L + 1 \in 1 .. L + 1 /\ L + 1 \in Addresses /\ E[L + 1] = EndMark
  BY <1>1, <1>2, <1>4
<1>9. /\ \A i \in 1 .. L : Eff(q)'[i] = T[i]
      /\ Eff(q)'[L + 1] = EndMark
      /\ Eff(q)'[a] = Nil
  BY <1>5, <1>7, <1>8
<1>10. Size(q)' >= 1 /\ Size(q)' + 2 <= MemSize
  BY <1>1, <1>4, <1>6 DEF Holds
<1>11. Marked(q)'
  BY <1>6, <1>9, <1>10, Zenon DEF Marked, Holds
<1>12. ~Eff(q)'[Inc(L + 1)].valid /\ ~Eff(q)'[Inc(L + 1)].end
  BY <1>5, <1>9, CellMarks
<1>13. Kept(q)'
  BY <1>3, <1>6, <1>11, <1>12, Zenon DEF Kept
<1>14. QED BY <1>3, <1>13

LEMMA LoadingEdge ==
  ASSUME WellTyped, NEW q \in Queues, NEW arrives \in BOOLEAN,
         NEW nf \in [Queues -> BOOLEAN], NEW go \in [Queues -> BOOLEAN],
         Edge(arrives, nf, go), ~sw_rst, ~wr_done[q], Loading(q)
  PROVE  Loading(q)' /\ (st_wr'[q] = "IDLE" => wr_addr'[q] = 1)
<1>1. PICK n \in 0 .. Size(q) : Taken(q, n)
  BY DEF Loading
<1>2. Size(q)' = Size(q)
  BY DEF Edge, Size
<1>3. PICK m \in 0 .. Size(q) : Taken(q, m)'
  <2>1. IF arrives THEN n + 1 \in 0 .. Size(q) /\ Taken(q, n + 1)' ELSE Taken(q, n)'
    BY <1>1, TakenEdge
  <2>2. CASE arrives
    <3>1. PICK k : k = n + 1
      OBVIOUS
    <3>2. k \in 0 .. Size(q) /\ Taken(q, k)'
      BY <2>1, <2>2, <3>1
    <3>3. QED BY <3>2
  <2>3. CASE ~arrives
    BY <2>1, <2>3, <1>1
  <2>4. QED BY <2>2, <2>3
<1>4. Loading(q)'
  BY <1>2, <1>3, Zenon DEF Loading
<1>5. st_wr'[q] = (IF m = 0 THEN "IDLE" ELSE "WR") /\ wr_addr'[q] = m + 1
  BY <1>3, Zenon DEF Taken
<1>6. QED BY <1>4, <1>5

LEMMA LoadingIsTaken ==
  ASSUME WellTyped, NEW q \in Queues, dma = <<>>, Loading(q)
  PROVE  Taken(q, Size(q))
<1>1. PICK n \in 0 .. Size(q) : Taken(q, n)
  BY DEF Loading
<1>2. n + Len(dma) = Size(q)
  BY <1>1 DEF Taken
<1>3. n = Size(q)
  <2>1. Len(dma) = 0
    OBVIOUS
  <2>2. Size(q) \in Nat
    BY DEF Size, WellTyped
  <2>3. QED BY <1>2, <2>1, <2>2
<1>4. QED BY <1>1, <1>3

(* The stream's word goes to the queue that loads.                         *)
LEMMA TakesLoading ==
  ASSUME WellTyped, NEW stage, InStage(stage), NEW q \in Queues,
         NEW arrives \in BOOLEAN, arrives => dma # <<>>,
         NEW bus, bus = IF arrives THEN Head(dma) ELSE NoWord,
         stage[q] # "loading", st_wr[q] = "IDLE"
  PROVE  ~Takes(q, bus)
<1>1. dma \in Seq(OnWay)
  BY DEF WellTyped
<1>2. bus.word.valid => bus = dma[1] /\ 1 \in DOMAIN dma
  BY <1>1, BusWord
<1>3. bus.word.valid => stage[bus.port] = "loading"
  <2>1. DOMAIN dma = 1 .. Len(dma)
    BY <1>1
  <2>2. QED BY <1>2, <2>1 DEF InStage
<1>4. QED BY <1>3 DEF Takes

LEMMA WriterEdge ==
  ASSUME WellTyped, NEW stage \in [Queues -> Stages], InStage(stage),
         NEW q \in Queues, NEW arrives \in BOOLEAN,
         NEW nf \in [Queues -> BOOLEAN], NEW go \in [Queues -> BOOLEAN],
         Edge(arrives, nf, go),
         NEW s \in Stages, s = stage[q], Writer(q, s)
  PROVE  Writer(q, s)'
<1>1. PICK bus : bus = IF arrives THEN Head(dma) ELSE NoWord
  OBVIOUS
<1>2. /\ Clock(bus, nf, go, trace) /\ (arrives => dma # <<>>)
      /\ dma' = IF arrives THEN Tail(dma) ELSE dma
      /\ trace' = trace /\ ticked' = TRUE
  BY <1>1 DEF Edge
<1>3. wr_done' = wr_done
  BY <1>2 DEF Clock, registers
<1>4. /\ st_wr[q] = "IDLE" => wr_addr[q] = 1
      /\ wr_done[q] <=> s = "ended"
  BY DEF Writer
<1>5. s # "loading" /\ st_wr[q] = "IDLE" => ~Takes(q, bus)
  BY <1>1, <1>2, TakesLoading
<1>6. s \in Busy => ~sw_rst
  BY DEF InStage, Busy
<1>7. Kept(q) /\ s # "loading" =>
        Kept(q)' /\ wr_addr'[q] = 1 /\ st_wr'[q] = "IDLE" /\ ~wr_port'[q].en
  <2>1. ASSUME Kept(q), s # "loading"
        PROVE  Kept(q)' /\ wr_addr'[q] = 1 /\ st_wr'[q] = "IDLE" /\ ~wr_port'[q].en
    <3>1. ~Takes(q, bus)
      BY <2>1, <1>5 DEF Kept
    <3>2. QED BY <2>1, <3>1, <1>2, KeptEdge
  <2>2. QED BY <2>1
<1>8. Ending(q) => Kept(q)' /\ wr_addr'[q] = 1 /\ st_wr'[q] = "IDLE"
  BY <1>2, EndingEdge
<1>9. wr_done'[q] <=> s = "ended"
  BY <1>3, <1>4
<1>10. CASE s = "new"
  <2>1. st_wr'[q] = "IDLE" /\ wr_addr'[q] = 1
    <3>1. st_wr[q] = "IDLE"
      BY <1>10 DEF Writer
    <3>2. QED BY <3>1, <1>2, <1>5, <1>10, WriteIdle
  <2>2. QED BY <2>1, <1>9, <1>10, Zenon DEF Writer
<1>11. CASE s = "loading"
  <2>1. ~sw_rst /\ ~wr_done[q] /\ Loading(q)
    BY <1>4, <1>6, <1>11 DEF Writer, Busy
  <2>2. Loading(q)' /\ (st_wr'[q] = "IDLE" => wr_addr'[q] = 1)
    BY <2>1, LoadingEdge
  <2>3. QED BY <2>2, <1>9, <1>11, Zenon DEF Writer
<1>12. CASE s = "arrived"
  <2>1. ~sw_rst /\ ~wr_done[q] /\ Loading(q) /\ dma = <<>>
    BY <1>4, <1>6, <1>12 DEF Writer, Busy
  <2>2. Loading(q)' /\ (st_wr'[q] = "IDLE" => wr_addr'[q] = 1)
    BY <2>1, LoadingEdge
  <2>3. dma' = <<>>
    BY <2>1, <1>2
  <2>4. QED BY <2>2, <2>3, <1>9, <1>12, Zenon DEF Writer
<1>13. CASE s = "ended"
  <2>1. (Ending(q) \/ Kept(q))' /\ (st_wr'[q] = "IDLE" => wr_addr'[q] = 1)
    <3>1. CASE Ending(q)
      BY <3>1, <1>8
    <3>2. CASE Kept(q)
      BY <3>2, <1>7, <1>13
    <3>3. CASE dma = <<>> /\ Loading(q)
      <4>1. Taken(q, Size(q))
        BY <3>3, LoadingIsTaken
      <4>2. ~sw_rst /\ wr_done[q]
        BY <1>4, <1>6, <1>13 DEF Busy
      <4>3. Ending(q)' /\ st_wr'[q] = "DONE"
        BY <4>1, <4>2, <1>2, TakenEnds
      <4>4. QED BY <4>3
    <3>4. QED BY <3>1, <3>2, <3>3, <1>13 DEF Writer
  <2>2. QED BY <2>1, <1>2, <1>9, <1>13, Zenon DEF Writer
<1>14. CASE s = "closed"
  <2>1. Kept(q) \/ Ending(q)
    BY <1>14 DEF Writer
  <2>2. Kept(q)' /\ wr_addr'[q] = 1
    BY <2>1, <1>7, <1>8, <1>14
  <2>3. QED BY <2>2, <1>9, <1>14, Zenon DEF Writer
<1>15. CASE s \in {"ready", "started"}
  <2>1. Kept(q)
    BY <1>15 DEF Writer
  <2>2. Kept(q)' /\ wr_addr'[q] = 1 /\ ~wr_port'[q].en
    BY <2>1, <1>7, <1>15
  <2>3. s # "new" /\ s # "loading" /\ s # "arrived" /\ s # "ended" /\ s # "closed"
    BY <1>15
  <2>4. QED BY <2>2, <2>3, <1>9, Zenon DEF Writer
<1>16. QED BY <1>10, <1>11, <1>12, <1>13, <1>14, <1>15 DEF Stages

LEMMA ReaderEdge ==
  ASSUME WellTyped, NEW stage \in [Queues -> Stages], InStage(stage),
         NEW q \in Queues, NEW arrives \in BOOLEAN,
         NEW nf \in [Queues -> BOOLEAN], NEW go \in [Queues -> BOOLEAN],
         Edge(arrives, nf, go),
         NEW s \in Stages, s = stage[q], Writer(q, s), Reader(q, s)
  PROVE  Reader(q, s)'
<1>1. PICK bus : bus = IF arrives THEN Head(dma) ELSE NoWord
  OBVIOUS
<1>2. Clock(bus, nf, go, trace) /\ trace' = trace
  BY <1>1 DEF Edge
<1>3. replay_count' = replay_count
  BY <1>2 DEF Clock, registers
<1>4. CASE s = "started"
  <2>1. /\ Kept(q) /\ ~wr_port[q].en /\ replay_count[q] # 0
        /\ Resting(q) \/ Playing(q)
    BY <1>4 DEF Writer, Reader
  <2>2. ~sw_rst
    BY <1>4 DEF InStage
  <2>3. Resting(q)' \/ Playing(q)'
    <3>1. CASE Resting(q)
      BY <3>1, <2>1, <2>2, <1>2, RestingEdge
    <3>2. CASE Playing(q)
      BY <3>2, <2>1, <2>2, <1>2, PlayingEdge
    <3>3. QED BY <3>1, <3>2, <2>1
  <2>4. QED BY <2>1, <2>3, <1>3, <1>4 DEF Reader
<1>5. CASE s # "started"
  <2>1. Quiet(q)
    BY <1>5 DEF Reader
  <2>2. Quiet(q)'
    BY <2>1, <1>2, QuietEdge
  <2>3. QED BY <2>2, <1>5 DEF Reader
<1>6. QED BY <1>4, <1>5

LEMMA ExactEdge ==
  ASSUME WellTyped, NEW stage, Exact(stage), NEW arrives \in BOOLEAN,
         NEW nf \in [Queues -> BOOLEAN], NEW go \in [Queues -> BOOLEAN],
         Edge(arrives, nf, go)
  PROVE  Exact(stage)'
<1>1. /\ stage \in [Queues -> Stages] /\ ToDo(stage) /\ InStage(stage)
      /\ \A q \in Queues : Writer(q, stage[q]) /\ Reader(q, stage[q])
  BY DEF Exact
<1>2. PICK bus : bus = IF arrives THEN Head(dma) ELSE NoWord
  OBVIOUS
<1>3. /\ Clock(bus, nf, go, trace) /\ (arrives => dma # <<>>)
      /\ dma' = IF arrives THEN Tail(dma) ELSE dma
      /\ trace' = trace /\ ticked' = TRUE /\ script' = script
  BY <1>2 DEF Edge
<1>4. /\ sw_rst' = sw_rst /\ start_replay' = start_replay
      /\ replay_count' = replay_count /\ r_start' = start_replay
  BY <1>3 DEF Clock, registers, ReadMachines
<1>5. ToDo(stage)'
  BY <1>1, <1>3, <1>4 DEF ToDo, Rest, Along, UseAt
<1>6. InStage(stage)'
  <2>1. dma \in Seq(OnWay)
    BY DEF WellTyped
  <2>2. \A i \in 1 .. Len(dma') : \E j \in 1 .. Len(dma) : dma'[i] = dma[j]
    <3>1. CASE arrives
      <4>1. dma' = Tail(dma) /\ dma # <<>>
        BY <3>1, <1>3
      <4>2. QED BY <4>1, <2>1
    <3>2. CASE ~arrives
      BY <3>2, <1>3
    <3>3. QED BY <3>1, <3>2
  <2>3. \A i \in 1 .. Len(dma') : stage[dma'[i].port] = "loading"
    BY <1>1, <2>2 DEF InStage
  <2>4. QED BY <2>3, <1>1, <1>3, <1>4 DEF InStage
<1>7. ASSUME NEW q \in Queues PROVE Writer(q, stage[q])' /\ Reader(q, stage[q])'
  <2>1. PICK s \in Stages : s = stage[q]
    BY <1>1
  <2>2. Writer(q, s) /\ Reader(q, s)
    BY <1>1, <2>1
  <2>3. Writer(q, s)' /\ Reader(q, s)'
    BY <1>1, <2>1, <2>2, WriterEdge, ReaderEdge
  <2>4. QED BY <2>1, <2>3
<1>8. QED BY <1>1, <1>5, <1>6, <1>7 DEF Exact

-----------------------------------------------------------------------------
(* The host's steps.  `Moves' are those that take q to another stage.      *)
Started(x, q) == WritesTo(x, "start", q) /\ x.val /\ ~sw_rst /\ replay_count[q] # 0

Moves(x, q, s) ==
  \/ x.op = "send" /\ x.q = q
  \/ x.op = "sleep" /\ s = "loading"
  \/ x.op = "watch" /\ s = "started"
  \/ WritesTo(x, "done", q)
  \/ Started(x, q)

LEMMA NextStage ==
  ASSUME WellTyped, NEW stage \in [Queues -> Stages], NEW q \in Queues, NEW x \in Steps,
         NEW t, t = StageAfter(UseAt(stage), x, q)
  PROVE  /\ x.op = "send" /\ x.q = q => t = "loading"
         /\ x.op = "sleep" /\ stage[q] = "loading" => t = "arrived"
         /\ x.op = "watch" /\ stage[q] = "started" => t = "ready"
         /\ WritesTo(x, "done", q) => t = IF x.val THEN "ended" ELSE "closed"
         /\ Started(x, q) => t = "started"
         /\ ~Moves(x, q, stage[q]) => t = IF stage[q] = "closed" THEN "ready" ELSE stage[q]
         /\ t \in Stages
<1>1. PICK u : u = UseAt(stage)
  OBVIOUS
<1>2. u.stage[q] = stage[q] /\ (Starts(u, x, q) <=> Started(x, q))
  BY <1>1 DEF UseAt, Starts, Started
<1>3. x.op = "send" /\ x.q = q => t = "loading"
  BY <1>1 DEF StageAfter, WritesTo, Starts
<1>4. x.op = "sleep" /\ stage[q] = "loading" => t = "arrived"
  BY <1>1, <1>2 DEF StageAfter, WritesTo, Starts
<1>5. x.op = "watch" /\ stage[q] = "started" => t = "ready"
  BY <1>1, <1>2 DEF StageAfter, WritesTo, Starts
<1>6. WritesTo(x, "done", q) => t = IF x.val THEN "ended" ELSE "closed"
  BY <1>1, <1>2 DEF StageAfter, WritesTo, Starts
<1>7. Started(x, q) => t = "started"
  <2>1. SUFFICES ASSUME Started(x, q) PROVE t = "started"
    OBVIOUS
  <2>2. Starts(u, x, q) /\ x.op = "write" /\ ~WritesTo(x, "done", q)
    BY <2>1, <1>2 DEF Started, WritesTo
  <2>3. QED BY <2>2, <1>1 DEF StageAfter
<1>8. ~Moves(x, q, stage[q]) => t = IF stage[q] = "closed" THEN "ready" ELSE stage[q]
  <2>1. SUFFICES ASSUME ~Moves(x, q, stage[q])
                 PROVE  t = IF stage[q] = "closed" THEN "ready" ELSE stage[q]
    OBVIOUS
  <2>2. /\ ~(x.op = "send" /\ x.q = q) /\ ~(x.op = "sleep" /\ u.stage[q] = "loading")
        /\ ~(x.op = "watch" /\ u.stage[q] = "started") /\ ~WritesTo(x, "done", q)
        /\ ~Starts(u, x, q)
    BY <2>1, <1>2 DEF Moves
  <2>3. t = IF u.stage[q] = "closed" THEN "ready" ELSE u.stage[q]
    BY <2>2, <1>1 DEF StageAfter
  <2>4. QED BY <2>3, <1>2
<1>9. t \in Stages
  <2>1. stage[q] \in Stages
    OBVIOUS
  <2>2. CASE Moves(x, q, stage[q])
    BY <2>2, <1>3, <1>4, <1>5, <1>6, <1>7 DEF Moves, Stages
  <2>3. CASE ~Moves(x, q, stage[q])
    BY <2>1, <2>3, <1>8 DEF Stages
  <2>4. QED BY <2>2, <2>3
<1>10. QED BY <1>3, <1>4, <1>5, <1>6, <1>7, <1>8, <1>9

OnItsWay(x) == [i \in 1 .. Len(x.packet) |-> [port |-> x.q, word |-> x.packet[i]]]

(* What a host step changes.                                               *)
LEMMA HostEffects ==
  ASSUME WellTyped, ~Drops, Host, NEW x, x = script[1]
  PROVE  /\ script # <<>> /\ script' = Tail(script) /\ x \in Steps /\ ticked /\ ~ticked'
         /\ UNCHANGED machines /\ UNCHANGED <<promised, sent>>
         /\ sw_rst' = IF x.op = "write" /\ x.reg = "rst" THEN x.val ELSE sw_rst
         /\ replay_count' = [q \in Queues |-> IF WritesTo(x, "count", q) THEN x.val
                                              ELSE replay_count[q]]
         /\ trace' = [q \in Queues |-> IF x.op = "send" /\ x.q = q THEN x.trace ELSE trace[q]]
         /\ wr_done' = [q \in Queues |-> IF WritesTo(x, "done", q) THEN x.val ELSE wr_done[q]]
         /\ start_replay' = [q \in Queues |-> IF WritesTo(x, "start", q) THEN x.val
                                              ELSE start_replay[q]]
         /\ x.op # "send" => dma' = dma
         /\ x.op = "send" => dma' = dma \o OnItsWay(x)
         /\ x.op = "sleep" => dma = <<>>
         /\ x.op = "watch" => Idle /\ ~\E q \in Queues : StartPulse(q)
<1>1. /\ script # <<>> /\ script' = Tail(script) /\ ticked /\ ~ticked'
      /\ UNCHANGED machines /\ UNCHANGED <<promised, sent>>
  BY DEF Host, SendPacket, SleepStep, WatchStep, WriteRegister, HostStep, engineVars
<1>2. x \in Steps /\ x = Head(script)
  BY <1>1, FirstAndRest DEF WellTyped
<1>3. /\ trace \in [Queues -> Seq(PacketWords)]
      /\ sw_rst \in BOOLEAN /\ start_replay \in [Queues -> BOOLEAN]
      /\ wr_done \in [Queues -> BOOLEAN] /\ replay_count \in [Queues -> Nat]
  BY DEF WellTyped, TypeOK
<1>4. CASE WriteRegister
  <2>1. /\ x.op = "write" /\ dma' = dma /\ trace' = trace
        /\ sw_rst' = IF x.reg = "rst" THEN x.val ELSE sw_rst
        /\ wr_done' = IF x.reg = "done" THEN [wr_done EXCEPT ![x.q] = x.val] ELSE wr_done
        /\ start_replay' = IF x.reg = "start" THEN [start_replay EXCEPT ![x.q] = x.val]
                           ELSE start_replay
        /\ replay_count' = IF x.reg = "count" THEN [replay_count EXCEPT ![x.q] = x.val]
                           ELSE replay_count
    BY <1>2, <1>4 DEF WriteRegister, HostStep
  <2>2. \A reg : \A q \in Queues : WritesTo(x, reg, q) <=> x.reg = reg /\ x.q = q
    BY <2>1 DEF WritesTo
  <2>3. replay_count' = [q \in Queues |-> IF WritesTo(x, "count", q) THEN x.val
                                          ELSE replay_count[q]]
    <3>1. CASE x.reg = "count"
      BY <3>1, <2>1, <1>3 DEF WritesTo
    <3>2. CASE x.reg # "count"
      BY <3>2, <2>1, <1>3 DEF WritesTo
    <3>3. QED BY <3>1, <3>2
  <2>4. wr_done' = [q \in Queues |-> IF WritesTo(x, "done", q) THEN x.val ELSE wr_done[q]]
    <3>1. CASE x.reg = "done"
      BY <3>1, <2>1, <1>3 DEF WritesTo
    <3>2. CASE x.reg # "done"
      BY <3>2, <2>1, <1>3 DEF WritesTo
    <3>3. QED BY <3>1, <3>2
  <2>5. start_replay' = [q \in Queues |-> IF WritesTo(x, "start", q) THEN x.val
                                          ELSE start_replay[q]]
    <3>1. CASE x.reg = "start"
      BY <3>1, <2>1, <1>3 DEF WritesTo
    <3>2. CASE x.reg # "start"
      BY <3>2, <2>1, <1>3 DEF WritesTo
    <3>3. QED BY <3>1, <3>2
  <2>6. trace' = [q \in Queues |-> IF x.op = "send" /\ x.q = q THEN x.trace ELSE trace[q]]
    BY <2>1, <1>3
  <2>7. QED BY <1>1, <1>2, <2>1, <2>3, <2>4, <2>5, <2>6
<1>5. CASE SendPacket \/ SleepStep \/ WatchStep
  <2>1. /\ x.op \in {"send", "sleep", "watch"} /\ sw_rst' = sw_rst /\ wr_done' = wr_done
        /\ start_replay' = start_replay /\ replay_count' = replay_count
    BY <1>2, <1>5 DEF SendPacket, SleepStep, WatchStep, HostStep, engineVars, registers
  <2>2. /\ x.op # "send" => dma' = dma /\ trace' = trace
        /\ x.op = "sleep" => dma = <<>>
        /\ x.op = "watch" => Idle /\ ~\E q \in Queues : StartPulse(q)
    BY <1>2, <1>5 DEF SendPacket, SleepStep, WatchStep, HostStep
  <2>3. x.op = "send" =>
          /\ dma' = dma \o OnItsWay(x)
          /\ trace' = [trace EXCEPT ![x.q] = x.trace]
    BY <1>2, <1>5 DEF SendPacket, SleepStep, WatchStep, HostStep, OnItsWay
  <2>4. \A q \in Queues : /\ ~WritesTo(x, "count", q) /\ ~WritesTo(x, "done", q)
                          /\ ~WritesTo(x, "start", q)
    BY <2>1 DEF WritesTo
  <2>5. /\ replay_count' = [q \in Queues |-> IF WritesTo(x, "count", q) THEN x.val
                                             ELSE replay_count[q]]
        /\ wr_done' = [q \in Queues |-> IF WritesTo(x, "done", q) THEN x.val ELSE wr_done[q]]
        /\ start_replay' = [q \in Queues |-> IF WritesTo(x, "start", q) THEN x.val
                                             ELSE start_replay[q]]
    BY <2>1, <2>4, <1>3
  <2>6. trace' = [q \in Queues |-> IF x.op = "send" /\ x.q = q THEN x.trace ELSE trace[q]]
    BY <2>2, <2>3, <1>3
  <2>7. QED BY <1>1, <1>2, <2>1, <2>2, <2>3, <2>5, <2>6
<1>6. QED BY <1>4, <1>5 DEF Host

(* The use of the engine goes on in order.                                 *)
LEMMA HostUse ==
  ASSUME WellTyped, ~Drops, Host, NEW stage \in [Queues -> Stages], ToDo(stage),
         NEW x, x = script[1],
         NEW next, next = [q \in Queues |-> StageAfter(UseAt(stage), x, q)]
  PROVE  next \in [Queues -> Stages] /\ Allowed(UseAt(stage), x) /\ ToDo(next)'
<1>1. /\ script # <<>> /\ script' = Tail(script) /\ x \in Steps
      /\ sw_rst' = IF x.op = "write" /\ x.reg = "rst" THEN x.val ELSE sw_rst
      /\ replay_count' = [q \in Queues |-> IF WritesTo(x, "count", q) THEN x.val
                                           ELSE replay_count[q]]
      /\ trace' = [q \in Queues |-> IF x.op = "send" /\ x.q = q THEN x.trace ELSE trace[q]]
  BY HostEffects
<1>2. PICK u, s : u = UseAt(stage) /\ s = script
  OBVIOUS
<1>3. Rest(s, u) /\ s \in Seq(Steps) /\ s # <<>>
  BY <1>1, <1>2 DEF ToDo, WellTyped
<1>4. Allowed(u, x) /\ Rest(Tail(s), After(u, x))
  BY <1>2, <1>3, RestMoves
<1>5. UseAt(next)' = After(u, x)
  BY <1>1, <1>2 DEF UseAt, After
<1>6. PICK v, r : v = After(u, x) /\ r = Tail(s)
  OBVIOUS
<1>7. ToDo(next)'
  <2>1. Rest(r, v) /\ v = UseAt(next)' /\ r = script'
    BY <1>1, <1>2, <1>4, <1>5, <1>6
  <2>2. PICK uses : uses[1] = v /\ \A i \in DOMAIN r : Allowed(uses[i], r[i])
                                                     /\ uses[i + 1] = After(uses[i], r[i])
    BY <2>1, Zenon DEF Rest, Along
  <2>3. PICK w : w = UseAt(next)'
    OBVIOUS
  <2>4. QED BY <2>1, <2>2 DEF ToDo, Rest, Along
<1>8. next \in [Queues -> Stages]
  <2>1. \A q \in Queues : StageAfter(UseAt(stage), x, q) \in Stages
    BY <1>1, NextStage
  <2>2. QED BY <2>1
<1>9. QED BY <1>2, <1>4, <1>7, <1>8

(* What Allowed says of a step, queue by queue.                            *)
Lawful(stage, x) ==
  /\ x.op = "send" =>
       /\ x.q \in Queues /\ x.packet \in Seq(PacketWords) /\ x.trace \in Seq(PacketWords)
       /\ stage[x.q] \in {"new", "ready", "loading"} /\ ~sw_rst
       /\ \A q \in Queues \ {x.q} : stage[q] \notin Busy
       /\ x.packet # <<>> /\ Len(x.trace) + 2 <= MemSize
       /\ x.trace = IF stage[x.q] = "loading" THEN trace[x.q] \o x.packet ELSE x.packet
  /\ x.op = "write" /\ x.reg = "rst" /\ x.val = TRUE =>
       \A q \in Queues : stage[q] \in {"new", "closed", "ready"}
  /\ \A q \in Queues : WritesTo(x, "done", q) =>
       stage[q] = (IF x.val THEN "arrived" ELSE "ended") /\ x.val \in BOOLEAN
  /\ \A q \in Queues : WritesTo(x, "count", q) => stage[q] # "started"
  /\ \A q \in Queues : Started(x, q) => stage[q] \in {"ready", "started"}

LEMMA AllowedStep ==
  ASSUME WellTyped, NEW stage \in [Queues -> Stages], NEW x \in Steps,
         Allowed(UseAt(stage), x)
  PROVE  Lawful(stage, x)
<1>1. PICK u : u = UseAt(stage)
  OBVIOUS
<1>2. u.stage = stage /\ u.rst = sw_rst /\ u.count = replay_count /\ u.trace = trace
  BY <1>1 DEF UseAt
<1>3. Allowed(u, x)
  BY <1>1
<1>4. x.op = "send" =>
        /\ x.q \in Queues /\ x.packet \in Seq(PacketWords) /\ x.trace \in Seq(PacketWords)
        /\ stage[x.q] \in {"new", "ready", "loading"} /\ ~sw_rst
        /\ \A q \in Queues \ {x.q} : stage[q] \notin Busy
        /\ x.packet # <<>> /\ Len(x.trace) + 2 <= MemSize
        /\ x.trace = IF stage[x.q] = "loading" THEN trace[x.q] \o x.packet ELSE x.packet
  BY <1>2, <1>3, StepTypes DEF Allowed
<1>5. x.op = "write" /\ x.reg = "rst" /\ x.val = TRUE =>
        \A q \in Queues : stage[q] \in {"new", "closed", "ready"}
  BY <1>2, <1>3 DEF Allowed
<1>6. ASSUME NEW q \in Queues, WritesTo(x, "done", q)
      PROVE  stage[q] = (IF x.val THEN "arrived" ELSE "ended") /\ x.val \in BOOLEAN
  <2>1. x.op = "write" /\ x.reg = "done" /\ x.q = q /\ x.val \in BOOLEAN
    BY <1>6, WriteTypes DEF WritesTo
  <2>2. QED BY <2>1, <1>2, <1>3 DEF Allowed
<1>7. ASSUME NEW q \in Queues, WritesTo(x, "count", q) PROVE stage[q] # "started"
  BY <1>2, <1>3, <1>7 DEF Allowed, WritesTo
<1>8. ASSUME NEW q \in Queues, Started(x, q) PROVE stage[q] \in {"ready", "started"}
  <2>1. /\ x.op = "write" /\ x.reg = "start" /\ x.q = q /\ x.val = TRUE /\ ~sw_rst
        /\ replay_count[q] # 0
    <3>1. x.op = "write" /\ x.reg = "start" /\ x.q = q /\ x.val /\ ~sw_rst
          /\ replay_count[q] # 0
      BY <1>8 DEF Started, WritesTo
    <3>2. x.val \in BOOLEAN
      BY <3>1, WriteTypes
    <3>3. QED BY <3>1, <3>2
  <2>2. QED BY <2>1, <1>2, <1>3 DEF Allowed
<1>9. QED BY <1>4, <1>5, <1>6, <1>7, <1>8, Zenon DEF Lawful

(* A packet is sent to the one queue that is loading.                      *)
LEMMA HostInStage ==
  ASSUME WellTyped, ~Drops, Host, NEW stage \in [Queues -> Stages], InStage(stage),
         NEW x, x = script[1], Allowed(UseAt(stage), x),
         NEW next, next = [q \in Queues |-> StageAfter(UseAt(stage), x, q)]
  PROVE  InStage(next)'
<1>1. /\ x \in Steps /\ ~ticked'
      /\ sw_rst' = IF x.op = "write" /\ x.reg = "rst" THEN x.val ELSE sw_rst
      /\ x.op # "send" => dma' = dma
      /\ x.op = "send" => dma' = dma \o OnItsWay(x)
      /\ x.op = "sleep" => dma = <<>>
  BY HostEffects
<1>2. /\ x.op = "send" =>
           /\ x.q \in Queues /\ x.packet \in Seq(PacketWords)
           /\ stage[x.q] \in {"new", "ready", "loading"} /\ ~sw_rst
           /\ \A q \in Queues \ {x.q} : stage[q] \notin Busy
      /\ x.op = "write" /\ x.reg = "rst" /\ x.val = TRUE =>
           \A q \in Queues : stage[q] \in {"new", "closed", "ready"}
      /\ \A q \in Queues : WritesTo(x, "done", q) =>
           stage[q] = (IF x.val THEN "arrived" ELSE "ended") /\ x.val \in BOOLEAN
      /\ \A q \in Queues : Started(x, q) => stage[q] \in {"ready", "started"}
  <2>1. Lawful(stage, x)
    BY <1>1, AllowedStep
  <2>2. QED BY <2>1, Zenon DEF Lawful
<1>3. ASSUME NEW q \in Queues
      PROVE  /\ x.op = "send" /\ x.q = q => next[q] = "loading"
             /\ x.op = "sleep" /\ stage[q] = "loading" => next[q] = "arrived"
             /\ x.op = "watch" /\ stage[q] = "started" => next[q] = "ready"
             /\ WritesTo(x, "done", q) => next[q] = IF x.val THEN "ended" ELSE "closed"
             /\ Started(x, q) => next[q] = "started"
             /\ ~Moves(x, q, stage[q]) =>
                  next[q] = IF stage[q] = "closed" THEN "ready" ELSE stage[q]
  <2>1. next[q] = StageAfter(UseAt(stage), x, q)
    OBVIOUS
  <2>2. PICK t : t = StageAfter(UseAt(stage), x, q)
    OBVIOUS
  <2>3. next[q] = t
    BY <2>1, <2>2
  <2>4. QED BY <1>1, <2>2, <2>3, NextStage
<1>4. /\ \A i \in 1 .. Len(dma) : stage[dma[i].port] = "loading"
      /\ \A p, q \in Queues : stage[p] \in Busy /\ stage[q] \in Busy => p = q
      /\ sw_rst => \A q \in Queues : stage[q] \in {"new", "closed", "ready"}
  BY DEF InStage
<1>5. dma \in Seq(OnWay) /\ \A i \in 1 .. Len(dma) : dma[i].port \in Queues
  <2>1. dma \in Seq(OnWay)
    BY DEF WellTyped
  <2>2. \A i \in 1 .. Len(dma) : dma[i] \in OnWay
    BY <2>1
  <2>3. QED BY <2>1, <2>2 DEF OnWay
<1>6. \A i \in 1 .. Len(dma') : next[dma'[i].port] = "loading"
  <2>1. CASE x.op = "send"
    <3>1. PICK p \in Queues, packet \in Seq(PacketWords) : p = x.q /\ packet = x.packet
      BY <2>1, <1>2
    <3>2. \A q \in Queues : stage[q] = "loading" => q = p
      BY <2>1, <3>1, <1>2 DEF Busy
    <3>3. \A i \in 1 .. Len(dma) : dma[i].port = p
      BY <3>2, <1>4, <1>5
    <3> DEFINE onWay == [i \in 1 .. Len(packet) |-> [port |-> p, word |-> packet[i]]]
    <3>4. dma' = dma \o onWay
      BY <2>1, <3>1, <1>1 DEF OnItsWay
    <3>5. onWay \in Seq(OnWay) /\ \A i \in 1 .. Len(onWay) : onWay[i].port = p
      BY DEF OnWay
    <3> HIDE DEF onWay
    <3>6. \A i \in 1 .. Len(dma') : dma'[i].port = p
      <4>1. PICK d \in Seq(OnWay), e \in Seq(OnWay) : d = dma /\ e = onWay
        BY <1>5, <3>5
      <4>2. PICK m \in Nat, k \in Nat : m = Len(d) /\ k = Len(e)
        BY <4>1
      <4>3. PICK all \in Seq(OnWay) : all = d \o e
        BY ConcatProperties
      <4>4. /\ Len(all) = m + k
            /\ \A i \in 1 .. m + k : all[i] = IF i <= m THEN d[i] ELSE e[i - m]
        BY <4>2, <4>3, ConcatProperties
      <4>5. /\ \A i \in 1 .. m : d[i].port = p
            /\ \A i \in 1 .. k : e[i].port = p
        BY <3>3, <3>5, <4>1, <4>2, Zenon
      <4>6. ASSUME NEW i \in 1 .. m + k PROVE all[i].port = p
        <5>1. (i <= m /\ i \in 1 .. m) \/ (~(i <= m) /\ i - m \in 1 .. k)
          OBVIOUS
        <5>2. QED BY <4>4, <4>5, <5>1, Zenon
      <4>7. dma' = all
        BY <3>4, <4>1, <4>3
      <4>8. QED BY <4>4, <4>6, <4>7
    <3>7. next[p] = "loading"
      BY <2>1, <3>1, <1>3
    <3>8. QED BY <3>6, <3>7
  <2>2. CASE x.op = "sleep"
    BY <2>2, <1>1
  <2>3. CASE x.op # "send" /\ x.op # "sleep"
    <3>1. dma' = dma
      BY <2>3, <1>1
    <3>2. ASSUME NEW q \in Queues, stage[q] = "loading" PROVE next[q] = "loading"
      <4>1. ~WritesTo(x, "done", q) /\ ~Started(x, q)
        BY <3>2, <1>2
      <4>2. ~Moves(x, q, stage[q])
        BY <4>1, <3>2, <2>3 DEF Moves
      <4>3. QED BY <4>2, <3>2, <1>3
    <3>3. QED BY <3>1, <3>2, <1>4, <1>5
  <2>4. QED BY <2>1, <2>2, <2>3
<1>7. ASSUME NEW q \in Queues, next[q] \in Busy
      PROVE  stage[q] \in Busy \/ (x.op = "send" /\ x.q = q)
  <2>1. CASE x.op = "send" /\ x.q = q
    BY <2>1
  <2>2. CASE x.op = "sleep" /\ stage[q] = "loading"
    BY <2>2 DEF Busy
  <2>3. CASE x.op = "watch" /\ stage[q] = "started"
    BY <2>3, <1>3, <1>7 DEF Busy
  <2>4. CASE WritesTo(x, "done", q)
    BY <2>4, <1>2 DEF Busy
  <2>5. CASE Started(x, q)
    BY <2>5, <1>3, <1>7 DEF Busy
  <2>6. CASE ~Moves(x, q, stage[q])
    BY <2>6, <1>3, <1>7 DEF Busy
  <2>7. QED BY <2>1, <2>2, <2>3, <2>4, <2>5, <2>6 DEF Moves
<1>8. ASSUME NEW p \in Queues, NEW q \in Queues, next[p] \in Busy, next[q] \in Busy
      PROVE  p = q
  BY <1>2, <1>4, <1>7, <1>8
<1>9. ASSUME sw_rst', NEW q \in Queues PROVE next[q] \in {"new", "closed", "ready"}
  <2>1. stage[q] \in {"new", "closed", "ready"}
    <3>1. CASE x.op = "write" /\ x.reg = "rst"
      <4>1. x.val \in BOOLEAN
        BY <3>1, <1>1, WriteTypes
      <4>2. x.val = TRUE
        BY <4>1, <3>1, <1>1, <1>9
      <4>3. QED BY <4>2, <3>1, <1>2
    <3>2. CASE ~(x.op = "write" /\ x.reg = "rst")
      BY <3>2, <1>1, <1>4, <1>9
    <3>3. QED BY <3>1, <3>2
  <2>2. ~(x.op = "send")
    BY <1>1, <1>2, <1>9
  <2>3. ~WritesTo(x, "done", q)
    BY <2>1, <1>2
  <2>4. ~Started(x, q)
    <3>1. ASSUME Started(x, q) PROVE FALSE
      <4>1. x.reg # "rst" /\ ~sw_rst
        BY <3>1 DEF Started, WritesTo
      <4>2. QED BY <4>1, <1>1, <1>9
    <3>2. QED BY <3>1
  <2>5. ~Moves(x, q, stage[q])
    BY <2>1, <2>2, <2>3, <2>4 DEF Moves
  <2>6. QED BY <2>1, <2>5, <1>3
<1>10. QED BY <1>1, <1>6, <1>8, <1>9 DEF InStage

(* Sending to a queue starts or lengthens its trace by the words sent.     *)
LEMMA SendLoads ==
  ASSUME WellTyped, NEW p \in Queues, NEW packet \in Seq(PacketWords), packet # <<>>,
         NEW tr \in Seq(PacketWords), Len(tr) + 2 <= MemSize,
         \/ Loading(p) /\ tr = trace[p] \o packet
         \/ dma = <<>> /\ st_wr[p] = "IDLE" /\ wr_addr[p] = 1 /\ tr = packet,
         trace'[p] = tr, UNCHANGED machines,
         dma' = dma \o [i \in 1 .. Len(packet) |-> [port |-> p, word |-> packet[i]]]
  PROVE  Loading(p)'
<1>1. /\ st_wr' = st_wr /\ wr_addr' = wr_addr /\ Eff(p)' = Eff(p)
  BY DEF machines, Eff
<1>2. PICK d, old : d = dma /\ old = trace[p]
  OBVIOUS
<1>3. d \in Seq(OnWay) /\ old \in Seq(PacketWords)
  BY <1>2 DEF WellTyped
<1> DEFINE onWay == [i \in 1 .. Len(packet) |-> [port |-> p, word |-> packet[i]]]
<1>4. /\ onWay \in Seq(OnWay) /\ Len(onWay) = Len(packet)
      /\ \A i \in 1 .. Len(packet) : onWay[i].port = p /\ onWay[i].word = packet[i]
  BY DEF OnWay
<1>5. dma' = d \o onWay
  BY <1>2
<1> HIDE DEF onWay
<1>6. PICK m \in Nat, k \in Nat \ {0} : m = Len(d) /\ k = Len(packet)
  BY <1>3
<1>7. /\ Len(dma') = m + k
      /\ \A i \in 1 .. m : dma'[i] = d[i]
      /\ \A i \in 1 .. k : dma'[m + i] = onWay[i]
  <2>1. PICK e \in Seq(OnWay) : e = onWay
    BY <1>4
  <2>2. Len(d) = m /\ Len(e) = k /\ d \in Seq(OnWay)
    BY <1>3, <1>4, <1>6, <2>1
  <2>3. PICK all : all = d \o e
    OBVIOUS
  <2>4. /\ Len(all) = m + k
        /\ \A i \in 1 .. m : all[i] = d[i]
        /\ \A i \in 1 .. k : all[m + i] = e[i]
    <3>1. all \in Seq(OnWay) /\ Len(all) = m + k
      BY <2>2, <2>3, ConcatProperties
    <3>2. \A i \in 1 .. m + k : all[i] = IF i <= m THEN d[i] ELSE e[i - m]
      BY <2>2, <2>3, ConcatProperties
    <3>3. \A i \in 1 .. m : i \in 1 .. m + k /\ i <= m
      BY <1>6
    <3>4. \A i \in 1 .. k : m + i \in 1 .. m + k /\ ~(m + i <= m) /\ (m + i) - m = i
      BY <1>6
    <3>5. \A i \in 1 .. m : all[i] = d[i]
      BY <3>2, <3>3
    <3>6. ASSUME NEW i \in 1 .. k PROVE all[m + i] = e[i]
      <4>1. PICK a : a = m + i
        OBVIOUS
      <4>2. a \in 1 .. m + k /\ ~(a <= m) /\ a - m = i
        BY <3>4, <4>1
      <4>3. all[a] = e[a - m]
        BY <3>2, <4>2
      <4>4. QED BY <4>1, <4>2, <4>3
    <3>7. QED BY <3>1, <3>5, <3>6
  <2>5. QED BY <1>5, <2>1, <2>3, <2>4
<1>8. Size(p)' = Len(tr)
  BY DEF Size
<1>9. CASE Loading(p) /\ tr = trace[p] \o packet
  <2>1. PICK n \in 0 .. Size(p) : Taken(p, n)
    BY <1>9 DEF Loading
  <2>2. PICK len \in Nat : len = Len(old)
    BY <1>3
  <2>3. /\ Len(tr) = len + k /\ Size(p) = len
        /\ \A i \in 1 .. len : tr[i] = old[i]
        /\ \A i \in 1 .. k : tr[len + i] = packet[i]
    BY <1>2, <1>3, <1>6, <1>9, <2>2 DEF Size
  <2>4. /\ n + m = len /\ n \in 0 .. len
        /\ st_wr[p] = (IF n = 0 THEN "IDLE" ELSE "WR") /\ wr_addr[p] = n + 1
        /\ \A i \in 1 .. m : d[i].port = p /\ d[i].word = old[n + i]
        /\ len >= 1 /\ \A i \in 1 .. n : Eff(p)[i] = old[i]
    BY <1>2, <1>6, <2>1, <2>3 DEF Taken, Holds
  <2>5. Holds(p, n)'
    <3>1. \A i \in 1 .. n : i \in 1 .. len
      BY <2>4
    <3>2. \A i \in 1 .. n : Eff(p)'[i] = tr[i]
      BY <1>1, <2>3, <2>4, <3>1
    <3>3. Size(p)' >= 1 /\ Size(p)' + 2 <= MemSize
      BY <1>6, <1>8, <2>2, <2>3
    <3>4. QED BY <3>2, <3>3 DEF Holds
  <2>6. \A i \in 1 .. m + k : dma'[i].port = p /\ dma'[i].word = tr[n + i]
    <3>1. ASSUME NEW i \in 1 .. m PROVE dma'[i].port = p /\ dma'[i].word = tr[n + i]
      <4>1. n + i \in 1 .. len
        <5>1. n \in Nat /\ i \in Nat /\ i >= 1 /\ i <= m /\ n + m = len
          <6>1. n + m = len /\ n \in 0 .. len
            BY <2>4, Zenon
          <6>2. QED BY <6>1, <2>2
        <5>2. QED BY <5>1, <1>6, <2>2
      <4>2. QED BY <4>1, <1>7, <2>3, <2>4
    <3>2. ASSUME NEW i \in 1 .. k
          PROVE  dma'[m + i].port = p /\ dma'[m + i].word = tr[n + (m + i)]
      <4>1. n + (m + i) = len + i
        <5>1. n + m = len /\ n \in 0 .. len
          BY <2>4, Zenon
        <5>2. i \in Int /\ n \in Int
          BY <5>1, <2>2, <1>6
        <5>3. QED BY ONLY m \in Nat, len \in Nat, <5>1, <5>2
      <4>2. dma'[m + i] = onWay[i] /\ tr[len + i] = packet[i]
        BY <1>7, <2>3
      <4>3. onWay[i].port = p /\ onWay[i].word = packet[i]
        BY <1>4, <1>6
      <4>4. QED BY <4>1, <4>2, <4>3
    <3>3. SUFFICES ASSUME NEW i \in 1 .. m + k
                   PROVE  dma'[i].port = p /\ dma'[i].word = tr[n + i]
      OBVIOUS
    <3>4. CASE i \in 1 .. m
      BY <3>1, <3>4
    <3>5. CASE ~(i \in 1 .. m)
      <4>1. PICK j \in 1 .. k : m + j = i
        <5>1. i - m \in 1 .. k /\ m + (i - m) = i
          BY <1>6, <3>5
        <5>2. QED BY <5>1
      <4>2. QED BY <3>2, <4>1
    <3>6. QED BY <3>4, <3>5
  <2>7. n + (m + k) = Len(tr) /\ n \in 0 .. Len(tr)
    <3>1. PICK l \in Nat : l = len + k /\ l = Len(tr)
      BY <1>6, <2>2, <2>3
    <3>2. n + m = len /\ n \in 0 .. len
      BY <2>4, Zenon
    <3>3. m \in Nat /\ k \in Nat /\ l = len + k
      BY <1>6, <3>1, Zenon
    <3>4. n + (m + k) = l /\ n \in 0 .. l
      BY ONLY m \in Nat, k \in Nat, l \in Nat, len \in Nat, <2>2, <3>1, <3>2, <3>3
    <3>5. QED BY <3>1, <3>4
  <2>8. Taken(p, n)'
    BY <1>1, <1>7, <1>8, <2>4, <2>5, <2>6, <2>7, Zenon DEF Taken
  <2>9. QED BY <1>8, <2>7, <2>8, Zenon DEF Loading
<1>10. CASE dma = <<>> /\ st_wr[p] = "IDLE" /\ wr_addr[p] = 1 /\ tr = packet
  <2>1. m = 0
    BY <1>2, <1>6, <1>10
  <2>2. Holds(p, 0)'
    <3>1. Size(p)' >= 1 /\ Size(p)' + 2 <= MemSize
      BY <1>6, <1>8, <1>10
    <3>2. \A i \in 1 .. 0 : Eff(p)'[i] = trace'[p][i]
      OBVIOUS
    <3>3. QED BY <3>1, <3>2 DEF Holds
  <2>3. \A i \in 1 .. k : dma'[i].port = p /\ dma'[i].word = tr[0 + i]
    <3>1. ASSUME NEW i \in 1 .. k
          PROVE  dma'[i].port = p /\ dma'[i].word = tr[0 + i]
      <4>1. 0 + i = i /\ m + i = i
        BY <2>1
      <4>2. dma'[i] = onWay[i]
        BY <1>7, <4>1
      <4>3. QED BY <4>1, <4>2, <1>4, <1>6, <1>10
    <3>2. QED BY <3>1
  <2>4. 0 + Len(dma') = Len(tr) /\ 0 \in 0 .. Len(tr) /\ Len(dma') = k
    BY <1>6, <1>7, <1>10, <2>1
  <2>5. wr_addr'[p] = 0 + 1 /\ st_wr'[p] = "IDLE"
    BY <1>1, <1>10
  <2>6. PICK z : z = 0
    OBVIOUS
  <2>7. Taken(p, z)'
    BY <1>8, <2>2, <2>3, <2>4, <2>5, <2>6 DEF Taken
  <2>8. QED BY <1>8, <2>4, <2>6, <2>7, Zenon DEF Loading
<1>11. QED BY <1>9, <1>10

(* A host step that leaves the trace of a queue, and what is on its way.   *)
LEMMA WriterFrame ==
  ASSUME WellTyped, NEW q \in Queues, UNCHANGED machines, trace'[q] = trace[q]
  PROVE  /\ Kept(q) => Kept(q)'
         /\ Ending(q) => Ending(q)'
         /\ dma' = dma /\ Loading(q) => Loading(q)'
<1>1. /\ st_wr' = st_wr /\ wr_addr' = wr_addr /\ Eff(q)' = Eff(q) /\ Size(q)' = Size(q)
  BY DEF machines, Eff, Size
<1>2. Marked(q) => Marked(q)'
  BY <1>1, Zenon DEF Marked, Holds
<1>3. Kept(q) => Kept(q)'
  BY <1>1, <1>2, Zenon DEF Kept
<1>4. Ending(q) => Ending(q)'
  BY <1>1, <1>2, Zenon DEF Ending
<1>5. dma' = dma /\ Loading(q) => Loading(q)'
  <2>1. SUFFICES ASSUME dma' = dma, Loading(q) PROVE Loading(q)'
    OBVIOUS
  <2>2. PICK n \in 0 .. Size(q) : Taken(q, n)
    BY <2>1 DEF Loading
  <2>3. Taken(q, n)'
    BY <1>1, <2>1, <2>2, Zenon DEF Taken, Holds
  <2>4. QED BY <1>1, <2>2, <2>3, Zenon DEF Loading
<1>6. QED BY <1>3, <1>4, <1>5

LEMMA HostWriter ==
  ASSUME WellTyped, ~Drops, Host, NEW stage \in [Queues -> Stages], InStage(stage),
         NEW x, x = script[1], Allowed(UseAt(stage), x), NEW p \in Queues,
         NEW s \in Stages, s = stage[p], Writer(p, s),
         NEW t, t = StageAfter(UseAt(stage), x, p)
  PROVE  Writer(p, t)'
<1>1. /\ x \in Steps /\ ticked /\ ~ticked' /\ UNCHANGED machines
      /\ x.op # "send" => dma' = dma
      /\ x.op = "send" => dma' = dma \o OnItsWay(x)
      /\ x.op = "sleep" => dma = <<>>
  BY HostEffects
<1>2. trace'[p] = (IF x.op = "send" /\ x.q = p THEN x.trace ELSE trace[p])
  BY HostEffects
<1>3. wr_done'[p] = (IF WritesTo(x, "done", p) THEN x.val ELSE wr_done[p])
  BY HostEffects
<1>4. /\ x.op = "send" =>
           /\ x.q \in Queues /\ x.packet \in Seq(PacketWords) /\ x.trace \in Seq(PacketWords)
           /\ stage[x.q] \in {"new", "ready", "loading"} /\ ~sw_rst
           /\ \A q \in Queues \ {x.q} : stage[q] \notin Busy
           /\ x.packet # <<>> /\ Len(x.trace) + 2 <= MemSize
           /\ x.trace = IF stage[x.q] = "loading" THEN trace[x.q] \o x.packet ELSE x.packet
      /\ WritesTo(x, "done", p) =>
           stage[p] = (IF x.val THEN "arrived" ELSE "ended") /\ x.val \in BOOLEAN
      /\ Started(x, p) => stage[p] \in {"ready", "started"}
  <2>1. Lawful(stage, x)
    BY <1>1, AllowedStep
  <2>2. QED BY <2>1, Zenon DEF Lawful
<1>5. /\ x.op = "send" /\ x.q = p => t = "loading"
      /\ x.op = "sleep" /\ s = "loading" => t = "arrived"
      /\ x.op = "watch" /\ s = "started" => t = "ready"
      /\ WritesTo(x, "done", p) => t = IF x.val THEN "ended" ELSE "closed"
      /\ Started(x, p) => t = "started"
      /\ ~Moves(x, p, s) => t = IF s = "closed" THEN "ready" ELSE s
  BY <1>1, NextStage
<1>6. /\ st_wr[p] = "IDLE" => wr_addr[p] = 1
      /\ wr_done[p] <=> s = "ended"
  BY DEF Writer
<1>7. st_wr' = st_wr /\ wr_addr' = wr_addr /\ wr_port' = wr_port
  BY <1>1 DEF machines
<1>8. st_wr'[p] = "IDLE" => wr_addr'[p] = 1
  BY <1>6, <1>7
<1>9. s \in Busy /\ ~(x.op = "send" /\ x.q = p) => dma' = dma
  BY <1>1, <1>4
<1>10. ~(x.op = "send" /\ x.q = p) =>
         /\ Kept(p) => Kept(p)'
         /\ Ending(p) => Ending(p)'
         /\ dma' = dma /\ Loading(p) => Loading(p)'
  BY <1>1, <1>2, WriterFrame
<1>11. CASE x.op = "send" /\ x.q = p
  <2>1. s \in {"new", "ready", "loading"} /\ t = "loading"
    BY <1>4, <1>5, <1>11
  <2>2. ~wr_done'[p]
    BY <1>3, <1>6, <1>11, <2>1 DEF WritesTo
  <2>3. PICK packet \in Seq(PacketWords), tr \in Seq(PacketWords) :
          packet = x.packet /\ tr = x.trace
    BY <1>4, <1>11
  <2>4. dma' = dma \o [i \in 1 .. Len(packet) |-> [port |-> p, word |-> packet[i]]]
    BY <1>1, <1>11, <2>3 DEF OnItsWay
  <2>5. packet # <<>> /\ Len(tr) + 2 <= MemSize /\ trace'[p] = tr
    BY <1>2, <1>4, <1>11, <2>3
  <2>6. \/ Loading(p) /\ tr = trace[p] \o packet
        \/ dma = <<>> /\ st_wr[p] = "IDLE" /\ wr_addr[p] = 1 /\ tr = packet
    <3>1. CASE s = "loading"
      BY <3>1, <1>4, <1>11, <2>3 DEF Writer
    <3>2. CASE s \in {"new", "ready"}
      <4>1. st_wr[p] = "IDLE" /\ wr_addr[p] = 1
        BY <3>2 DEF Writer, Kept
      <4>2. dma = <<>>
        <5>1. dma \in Seq(OnWay)
          BY DEF WellTyped
        <5>2. ASSUME 1 \in 1 .. Len(dma) PROVE FALSE
          <6>1. dma[1] \in OnWay /\ stage[dma[1].port] = "loading"
            BY <5>1, <5>2 DEF InStage
          <6>2. PICK r \in Queues : r = dma[1].port
            BY <6>1 DEF OnWay
          <6>3. QED BY <6>1, <6>2, <3>2, <1>4, <1>11 DEF Busy
        <5>3. QED BY <5>1, <5>2
      <4>3. tr = packet
        BY <3>2, <1>4, <1>11, <2>3
      <4>4. QED BY <4>1, <4>2, <4>3
    <3>3. QED BY <3>1, <3>2, <2>1
  <2>7. Loading(p)'
    BY <1>1, <2>4, <2>5, <2>6, SendLoads
  <2>8. QED BY <1>8, <2>1, <2>2, <2>7, Zenon DEF Writer
<1>12. CASE x.op = "sleep" /\ s = "loading"
  <2>1. t = "arrived" /\ Loading(p) /\ dma = <<>> /\ dma' = dma
    BY <1>1, <1>5, <1>12 DEF Writer
  <2>2. Loading(p)' /\ dma' = <<>>
    BY <1>10, <1>12, <2>1
  <2>3. ~wr_done'[p]
    BY <1>3, <1>6, <1>12 DEF WritesTo
  <2>4. QED BY <1>8, <2>1, <2>2, <2>3, Zenon DEF Writer
<1>13. CASE x.op = "watch" /\ s = "started"
  <2>1. t = "ready" /\ Kept(p)
    BY <1>5, <1>13 DEF Writer
  <2>2. Kept(p)'
    BY <1>10, <1>13, <2>1
  <2>3. ~wr_done'[p]
    BY <1>3, <1>6, <1>13 DEF WritesTo
  <2>4. QED BY <1>1, <1>8, <2>1, <2>2, <2>3, Zenon DEF Writer
<1>14. CASE WritesTo(x, "done", p)
  <2>1. x.op = "write"
    BY <1>14 DEF WritesTo
  <2>2. CASE x.val
    <3>1. s = "arrived" /\ t = "ended" /\ dma' = dma /\ dma = <<>> /\ Loading(p)
      BY <1>1, <1>4, <1>5, <1>14, <2>1, <2>2 DEF Writer
    <3>2. Loading(p)' /\ dma' = <<>>
      BY <1>10, <2>1, <3>1
    <3>3. wr_done'[p]
      BY <1>3, <1>14, <2>2
    <3>4. QED BY <1>1, <1>8, <3>1, <3>2, <3>3, Zenon DEF Writer
  <2>3. CASE ~x.val
    <3>1. s = "ended" /\ t = "closed" /\ (Ending(p) \/ Kept(p))
      BY <1>1, <1>4, <1>5, <1>14, <2>3 DEF Writer
    <3>2. Ending(p)' \/ Kept(p)'
      BY <1>10, <2>1, <3>1
    <3>3. ~wr_done'[p]
      BY <1>3, <1>14, <2>3
    <3>4. QED BY <1>1, <1>8, <3>1, <3>2, <3>3, Zenon DEF Writer
  <2>4. QED BY <2>2, <2>3
<1>15. CASE Started(x, p)
  <2>1. t = "started" /\ s \in {"ready", "started"} /\ x.op = "write" /\ x.reg = "start"
    BY <1>4, <1>5, <1>15 DEF Started, WritesTo
  <2>2. Kept(p) /\ ~wr_port[p].en
    BY <1>1, <2>1 DEF Writer
  <2>3. Kept(p)' /\ ~wr_port'[p].en
    BY <1>7, <1>10, <2>1, <2>2
  <2>4. ~wr_done'[p]
    BY <1>3, <1>6, <2>1 DEF WritesTo
  <2>5. QED BY <1>8, <2>1, <2>3, <2>4, Zenon DEF Writer
<1>16. CASE ~Moves(x, p, s)
  <2>1. /\ ~(x.op = "send" /\ x.q = p) /\ ~WritesTo(x, "done", p)
        /\ t = IF s = "closed" THEN "ready" ELSE s
    BY <1>5, <1>16 DEF Moves
  <2>2. wr_done'[p] <=> t = "ended"
    BY <1>3, <1>6, <2>1
  <2>3. CASE s = "new"
    <3>1. t = "new" /\ st_wr'[p] = "IDLE"
      BY <2>1, <2>3, <1>7 DEF Writer
    <3>2. QED BY <3>1, <1>8, <2>2, Zenon DEF Writer
  <2>4. CASE s = "loading"
    <3>1. t = "loading" /\ Loading(p)'
      BY <2>1, <2>4, <1>9, <1>10 DEF Writer, Busy
    <3>2. QED BY <3>1, <1>8, <2>2, Zenon DEF Writer
  <2>5. CASE s = "arrived"
    <3>1. t = "arrived" /\ Loading(p)' /\ dma' = <<>>
      BY <2>1, <2>5, <1>9, <1>10 DEF Writer, Busy
    <3>2. QED BY <3>1, <1>8, <2>2, Zenon DEF Writer
  <2>6. CASE s = "ended"
    <3>1. t = "ended" /\ (Ending(p)' \/ Kept(p)')
      BY <2>1, <2>6, <1>1, <1>10 DEF Writer
    <3>2. QED BY <3>1, <1>8, <2>2, Zenon DEF Writer
  <2>7. CASE s \in {"closed", "ready"}
    <3>1. t = "ready" /\ Kept(p)'
      BY <2>1, <2>7, <1>1, <1>10 DEF Writer
    <3>2. QED BY <3>1, <1>1, <1>8, <2>2, Zenon DEF Writer
  <2>8. CASE s = "started"
    <3>1. t = "started" /\ Kept(p)' /\ ~wr_port'[p].en
      BY <2>1, <2>8, <1>7, <1>10 DEF Writer
    <3>2. QED BY <3>1, <1>8, <2>2, Zenon DEF Writer
  <2>9. QED BY <2>3, <2>4, <2>5, <2>6, <2>7, <2>8 DEF Stages
<1>17. QED BY <1>11, <1>12, <1>13, <1>14, <1>15, <1>16 DEF Moves

(* A host step that leaves what the read machine of a queue works on.      *)
LEMMA ReaderFrame ==
  ASSUME NEW q \in Queues, UNCHANGED machines, UNCHANGED <<promised, sent>>
  PROVE  /\ Resting(q) => Resting(q)'
         /\ trace'[q] = trace[q] /\ replay_count'[q] = replay_count[q] /\ Playing(q) => Playing(q)'
<1>1. /\ st_rd' = st_rd /\ rd_addr' = rd_addr /\ count' = count /\ dina' = dina /\ mem' = mem
      /\ r_start' = r_start /\ r_rden' = r_rden /\ r_nearly_full' = r_nearly_full
      /\ fifo' = fifo /\ promised' = promised /\ sent' = sent
  BY DEF machines
<1>2. Line(q)' = Line(q)
  BY <1>1, Zenon DEF Line
<1>3. Resting(q) => Resting(q)'
  BY <1>1, <1>2, Zenon DEF Resting
<1>4. SUFFICES ASSUME trace'[q] = trace[q], replay_count'[q] = replay_count[q], Playing(q)
               PROVE  Playing(q)'
  BY <1>3
<1>5. Size(q)' = Size(q)
  BY <1>4, Zenon DEF Size
<1>6. PICK base \in Nat, j \in 1 .. Size(q) + 1 : Owes(q, base) /\ At(q, base, j)
  BY <1>4 DEF Playing
<1>7. Owes(q, base)'
  BY <1>1, <1>4, <1>5, <1>6, Zenon DEF Owes
<1>8. At(q, base, j)'
  BY <1>1, <1>2, <1>4, <1>5, <1>6, Zenon DEF At, Shows
<1>9. st_rd'[q] = "RD" /\ Begun(q)'
  BY <1>1, <1>2, <1>4, Zenon DEF Playing, Begun
<1>10. QED BY <1>5, <1>6, <1>7, <1>8, <1>9, Zenon DEF Playing

LEMMA HostReader ==
  ASSUME WellTyped, ~Drops, Host, NEW stage \in [Queues -> Stages], InStage(stage),
         NEW x, x = script[1], Allowed(UseAt(stage), x), NEW p \in Queues,
         NEW s \in Stages, s = stage[p], Reader(p, s),
         NEW t, t = StageAfter(UseAt(stage), x, p)
  PROVE  Reader(p, t)'
<1>1. /\ x \in Steps /\ ticked /\ UNCHANGED machines /\ UNCHANGED <<promised, sent>>
      /\ sw_rst' = IF x.op = "write" /\ x.reg = "rst" THEN x.val ELSE sw_rst
      /\ x.op = "watch" => Idle /\ ~\E q \in Queues : StartPulse(q)
  BY HostEffects
<1>2. trace'[p] = (IF x.op = "send" /\ x.q = p THEN x.trace ELSE trace[p])
  BY HostEffects
<1>3. replay_count'[p] = (IF WritesTo(x, "count", p) THEN x.val ELSE replay_count[p])
  BY HostEffects
<1>4. start_replay'[p] = (IF WritesTo(x, "start", p) THEN x.val ELSE start_replay[p])
  BY HostEffects
<1>5. /\ x.op = "send" => stage[x.q] \in {"new", "ready", "loading"}
      /\ WritesTo(x, "done", p) => stage[p] = (IF x.val THEN "arrived" ELSE "ended")
      /\ WritesTo(x, "count", p) => stage[p] # "started"
  <2>1. Lawful(stage, x)
    BY <1>1, AllowedStep
  <2>2. QED BY <2>1, Zenon DEF Lawful
<1>6. /\ x.op = "send" /\ x.q = p => t = "loading"
      /\ x.op = "sleep" /\ s = "loading" => t = "arrived"
      /\ x.op = "watch" /\ s = "started" => t = "ready"
      /\ WritesTo(x, "done", p) => t = IF x.val THEN "ended" ELSE "closed"
      /\ Started(x, p) => t = "started"
      /\ ~Moves(x, p, s) => t = IF s = "closed" THEN "ready" ELSE s
  BY <1>1, NextStage
<1>7. /\ Resting(p) => Resting(p)'
      /\ trace'[p] = trace[p] /\ replay_count'[p] = replay_count[p] /\ Playing(p) => Playing(p)'
  BY <1>1, ReaderFrame
<1>8. /\ fifo' = fifo /\ r_nearly_full' = r_nearly_full /\ r_start' = r_start
      /\ r_start[p] <=> start_replay[p]
  BY <1>1 DEF machines, InStage
<1>9. CASE t = "started" /\ s = "started"
  <2>1. trace'[p] = trace[p]
    BY <1>2, <1>6, <1>9
  <2>2. replay_count'[p] = replay_count[p]
    BY <1>3, <1>5, <1>9
  <2>3. replay_count[p] # 0 /\ (Resting(p) \/ Playing(p))
    BY <1>9 DEF Reader
  <2>4. replay_count'[p] # 0 /\ (Resting(p)' \/ Playing(p)')
    BY <2>1, <2>2, <2>3, <1>7
  <2>5. QED BY <2>4, <1>9, Zenon DEF Reader
<1>10. CASE t = "started" /\ s # "started"
  <2>1. Started(x, p)
    <3>1. CASE WritesTo(x, "done", p)
      BY <3>1, <1>6, <1>10
    <3>2. CASE ~Moves(x, p, s)
      BY <3>2, <1>6, <1>10
    <3>3. QED BY <3>1, <3>2, <1>6, <1>10 DEF Moves
  <2>2. ~WritesTo(x, "count", p) /\ replay_count[p] # 0
    BY <2>1 DEF Started, WritesTo
  <2>3. replay_count'[p] # 0
    BY <2>2, <1>3
  <2>4. Resting(p)'
    BY <1>7, <1>10 DEF Reader, Quiet
  <2>5. QED BY <2>3, <2>4, <1>10, Zenon DEF Reader
<1>11. CASE t # "started" /\ s = "started"
  <2>1. x.op = "watch"
    <3>1. ~(x.op = "send" /\ x.q = p)
      BY <1>5, <1>11
    <3>2. ~WritesTo(x, "done", p) /\ ~Started(x, p)
      BY <1>5, <1>6, <1>11
    <3>3. CASE ~Moves(x, p, s)
      BY <3>3, <1>6, <1>11
    <3>4. QED BY <3>1, <3>2, <3>3, <1>11 DEF Moves
  <2>2. /\ st_rd[p] = "IDLE" /\ fifo[p] = <<>> /\ ~r_nearly_full[p] /\ ~StartPulse(p)
    BY <1>1, <2>1 DEF Idle
  <2>3. Resting(p)
    BY <2>2, <1>11 DEF Reader, Playing
  <2>4. ~WritesTo(x, "start", p)
    BY <2>1 DEF WritesTo
  <2>5. start_replay'[p] = start_replay[p]
    BY <2>4, <1>4
  <2>6. ~StartPulse(p)'
    BY <2>2, <2>5, <1>8, Zenon DEF StartPulse
  <2>7. Quiet(p)'
    BY <2>2, <2>3, <2>6, <1>7, <1>8, Zenon DEF Quiet
  <2>8. QED BY <2>7, <1>11, Zenon DEF Reader
<1>12. CASE t # "started" /\ s # "started"
  <2>1. Quiet(p)
    BY <1>12 DEF Reader
  <2>2. Resting(p)' /\ fifo'[p] = <<>> /\ ~r_nearly_full'[p]
    BY <2>1, <1>7, <1>8 DEF Quiet
  <2>3. ASSUME StartPulse(p)' PROVE sw_rst' \/ replay_count'[p] = 0
    <3>1. start_replay'[p] /\ ~r_start'[p]
      BY <2>3 DEF StartPulse
    <3>2. ~start_replay[p]
      BY <3>1, <1>8
    <3>3. WritesTo(x, "start", p) /\ x.val
      BY <3>1, <3>2, <1>4
    <3>4. ~WritesTo(x, "count", p) /\ ~(x.op = "write" /\ x.reg = "rst")
      BY <3>3 DEF WritesTo
    <3>5. sw_rst' = sw_rst /\ replay_count'[p] = replay_count[p]
      BY <3>4, <1>1, <1>3
    <3>6. ~Started(x, p)
      BY <1>6, <1>12
    <3>7. sw_rst \/ replay_count[p] = 0
      BY <3>3, <3>6 DEF Started
    <3>8. QED BY <3>5, <3>7
  <2>4. Quiet(p)'
    BY <2>2, <2>3, Zenon DEF Quiet
  <2>5. QED BY <2>4, <1>12, Zenon DEF Reader
<1>13. QED BY <1>9, <1>10, <1>11, <1>12

LEMMA ExactHost ==
  ASSUME WellTyped, ~Drops, Host, NEW stage, Exact(stage)
  PROVE  \E next : Exact(next)'
<1>1. /\ stage \in [Queues -> Stages] /\ ToDo(stage) /\ InStage(stage)
      /\ \A q \in Queues : Writer(q, stage[q]) /\ Reader(q, stage[q])
  BY DEF Exact
<1>2. PICK x : x = script[1]
  OBVIOUS
<1>3. PICK next : next = [q \in Queues |-> StageAfter(UseAt(stage), x, q)]
  OBVIOUS
<1>4. next \in [Queues -> Stages] /\ Allowed(UseAt(stage), x) /\ ToDo(next)'
  BY <1>1, <1>2, <1>3, HostUse
<1>5. InStage(next)'
  BY <1>1, <1>2, <1>3, <1>4, HostInStage
<1>6. ASSUME NEW p \in Queues PROVE Writer(p, next[p])' /\ Reader(p, next[p])'
  <2>1. PICK s \in Stages : s = stage[p]
    BY <1>1
  <2>2. PICK t : t = next[p]
    OBVIOUS
  <2>3. t = StageAfter(UseAt(stage), x, p)
    BY <1>3, <2>2
  <2>4. Writer(p, s) /\ Reader(p, s)
    BY <1>1, <2>1
  <2>5. Writer(p, t)'
    BY <1>1, <1>2, <1>4, <2>1, <2>3, <2>4, HostWriter
  <2>6. Reader(p, t)'
    BY <1>1, <1>2, <1>4, <2>1, <2>3, <2>4, HostReader
  <2>7. QED BY <2>2, <2>5, <2>6
<1>7. Exact(next)'
  BY <1>4, <1>5, <1>6 DEF Exact
<1>8. QED BY <1>7

LEMMA ExactInit ==
  ASSUME Init, \A s \in Scripts : UsesInOrder(s)
  PROVE  ExactInv
<1>1. PICK stage : stage = [q \in Queues |-> "new"]
  OBVIOUS
<1>2. stage \in [Queues -> Stages] /\ \A q \in Queues : stage[q] = "new"
  BY <1>1 DEF Stages
<1>3. ToDo(stage)
  <2>1. Along(script, Unused, Uses(script))
    BY DEF Init, UsesInOrder
  <2>2. UseAt(stage) = Unused
    BY <1>1 DEF Init, EngineInit, UseAt, Unused
  <2>3. PICK u : u = Unused
    OBVIOUS
  <2>4. Rest(script, u)
    BY <2>1, <2>3, Zenon DEF Rest
  <2>5. QED BY <2>2, <2>3, <2>4 DEF ToDo
<1>4. InStage(stage)
  BY <1>2 DEF Init, EngineInit, InStage, Busy
<1>5. ASSUME NEW q \in Queues PROVE Writer(q, "new") /\ Reader(q, "new")
  <2>1. /\ st_wr[q] = "IDLE" /\ wr_addr[q] = 1 /\ ~wr_done[q]
        /\ st_rd[q] = "IDLE" /\ rd_addr[q] = 1 /\ dina[q] = Nil
        /\ fifo[q] = <<>> /\ sent[q] = <<>> /\ promised[q] = <<>>
        /\ ~r_nearly_full[q] /\ ~start_replay[q]
    BY DEF Init, EngineInit
  <2>2. Line(q) = promised[q]
    BY <2>1 DEF Line
  <2>3. Resting(q)
    BY <2>1, <2>2, CellMarks DEF Resting
  <2>4. Quiet(q)
    BY <2>1, <2>3 DEF Quiet, StartPulse
  <2>5. QED BY <2>1, <2>4, Zenon DEF Writer, Reader
<1>6. Exact(stage)
  BY <1>2, <1>3, <1>4, <1>5 DEF Exact
<1>7. QED BY <1>6, TypesInit DEF ExactInv

LEMMA ExactStutter ==
  ASSUME WellTyped, NEW stage, Exact(stage), UNCHANGED vars
  PROVE  Exact(stage)'
<1>1. /\ script' = script /\ dma' = dma /\ trace' = trace /\ ticked' = ticked
      /\ UNCHANGED machines /\ UNCHANGED <<promised, sent>> /\ UNCHANGED registers
  BY DEF vars, engineVars
<1>2. /\ sw_rst' = sw_rst /\ start_replay' = start_replay /\ replay_count' = replay_count
      /\ wr_done' = wr_done /\ r_start' = r_start /\ wr_port' = wr_port /\ st_wr' = st_wr
      /\ wr_addr' = wr_addr /\ fifo' = fifo /\ r_nearly_full' = r_nearly_full
  BY <1>1 DEF machines, registers
<1>3. /\ stage \in [Queues -> Stages] /\ ToDo(stage) /\ InStage(stage)
      /\ \A q \in Queues : Writer(q, stage[q]) /\ Reader(q, stage[q])
  BY DEF Exact
<1>4. ToDo(stage)'
  BY <1>1, <1>2, <1>3 DEF ToDo, Rest, Along, UseAt
<1>5. InStage(stage)'
  BY <1>1, <1>2, <1>3, Zenon DEF InStage
<1>6. ASSUME NEW q \in Queues, NEW s, Writer(q, s), Reader(q, s)
      PROVE  Writer(q, s)' /\ Reader(q, s)'
  <2>1. /\ Kept(q) => Kept(q)'
        /\ Ending(q) => Ending(q)'
        /\ dma' = dma /\ Loading(q) => Loading(q)'
    BY <1>1, WriterFrame
  <2>2. /\ Resting(q) => Resting(q)'
        /\ trace'[q] = trace[q] /\ replay_count'[q] = replay_count[q] /\ Playing(q) => Playing(q)'
    BY <1>1, ReaderFrame
  <2>3. Writer(q, s)'
    BY <1>1, <1>2, <1>6, <2>1, Zenon DEF Writer
  <2>4. Quiet(q) => Quiet(q)'
    BY <1>2, <2>2, Zenon DEF Quiet, StartPulse
  <2>5. Reader(q, s)'
    BY <1>1, <1>2, <1>6, <2>2, <2>4, Zenon DEF Reader
  <2>6. QED BY <2>3, <2>5
<1>7. ASSUME NEW q \in Queues PROVE Writer(q, stage[q])' /\ Reader(q, stage[q])'
  <2>1. PICK s : s = stage[q]
    OBVIOUS
  <2>2. Writer(q, s)' /\ Reader(q, s)'
    BY <1>3, <1>6, <2>1
  <2>3. QED BY <2>1, <2>2
<1>8. QED BY <1>3, <1>4, <1>5, <1>7 DEF Exact

LEMMA ExactNext ==
  ASSUME ~Drops, ExactInv, [Next]_vars
  PROVE  ExactInv'
<1>1. WellTyped /\ WellTyped'
  BY NextTypes DEF ExactInv
<1>2. PICK stage : Exact(stage)
  BY DEF ExactInv
<1>3. \E next : Exact(next)'
  <2>1. CASE Host
    BY <1>1, <1>2, <2>1, ExactHost
  <2>2. CASE Hardware
    <3>1. PICK arrives \in BOOLEAN, nf \in [Queues -> BOOLEAN], go \in [Queues -> BOOLEAN] :
            Edge(arrives, nf, go)
      BY <2>2 DEF Hardware
    <3>2. Exact(stage)'
      BY <1>1, <1>2, <3>1, ExactEdge
    <3>3. QED BY <3>2
  <2>3. CASE UNCHANGED vars
    <3>1. Exact(stage)'
      BY <1>1, <1>2, <2>3, ExactStutter
    <3>2. QED BY <3>1
  <2>4. QED BY <2>1, <2>2, <2>3 DEF Next
<1>4. QED BY <1>1, <1>3 DEF ExactInv

(* What has left or is on its way is a beginning of what is promised.      *)
LEMMA ExactSent ==
  ASSUME ExactInv
  PROVE  ReplayExact
<1>1. PICK stage : Exact(stage)
  BY DEF ExactInv
<1>2. SUFFICES ASSUME NEW q \in Queues PROVE IsPrefix(sent[q], promised[q])
  BY DEF ReplayExact
<1>3. PICK s, f, o : s = sent[q] /\ f = fifo[q] /\ o = promised[q]
  OBVIOUS
<1>4. s \in Seq(Cells) /\ f \in Seq(Cells) /\ o \in Seq(Cells)
  BY <1>3 DEF ExactInv, WellTyped, Celled
<1>5. PICK l \in Seq(Cells) : l = s \o f
  BY <1>4, ConcatProperties
<1>6. /\ Len(l) = Len(s) + Len(f)
      /\ \A i \in 1 .. Len(s) + Len(f) : l[i] = IF i <= Len(s) THEN s[i] ELSE f[i - Len(s)]
  BY <1>4, <1>5, ConcatProperties
<1>7. Len(l) <= Len(o) /\ \A i \in 1 .. Len(l) : l[i] = o[i]
  <2>1. Line(q) = l
    BY <1>3, <1>5 DEF Line
  <2>2. Resting(q) \/ Playing(q)
    BY <1>1 DEF Exact, Reader, Quiet
  <2>3. CASE Resting(q)
    <3>1. l = o
      BY <1>3, <2>1, <2>3 DEF Resting
    <3>2. QED BY <3>1, <1>4
  <2>4. CASE Playing(q)
    BY <1>3, <2>1, <2>4 DEF Playing, Begun
  <2>5. QED BY <2>2, <2>3, <2>4
<1>8. PICK m \in Nat, n \in Nat, k \in Nat : m = Len(s) /\ n = Len(o) /\ k = Len(f)
  BY <1>4
<1>9. m <= n /\ \A i \in 1 .. m : s[i] = o[i]
  <2>1. m + k <= n
    BY <1>6, <1>7, <1>8
  <2>2. ASSUME NEW i \in 1 .. m PROVE s[i] = o[i]
    <3>1. i \in 1 .. m + k /\ i <= m
      BY <1>8
    <3>2. l[i] = s[i] /\ l[i] = o[i]
      BY <3>1, <1>6, <1>7, <1>8
    <3>3. QED BY <3>2
  <2>3. QED BY <2>1, <2>2
<1>10. \A i \in 1 .. m : s[i] \in Cells /\ o[i] \in Cells
  BY <1>4, <1>8, <1>9
<1>11. PICK a, b : a = SubSeq(s, 1, m) /\ b = SubSeq(o, 1, m)
  OBVIOUS
<1>12. a = b
  <2>1. 1 \in Int /\ m \in Int /\ m - 1 + 1 = m
    BY <1>8
  <2>2. /\ a \in Seq(Cells) /\ b \in Seq(Cells)
        /\ Len(a) = (IF 1 <= m THEN m - 1 + 1 ELSE 0) /\ Len(b) = (IF 1 <= m THEN m - 1 + 1 ELSE 0)
        /\ \A i \in 1 .. m - 1 + 1 : a[i] = s[1 + i - 1]
        /\ \A i \in 1 .. m - 1 + 1 : b[i] = o[1 + i - 1]
    BY <1>10, <1>11, <2>1, SubSeqProperties
  <2>3. Len(a) = m /\ Len(b) = m
    BY <2>1, <2>2, <1>8
  <2>4. ASSUME NEW i \in 1 .. m PROVE a[i] = b[i]
    <3>1. 1 + i - 1 = i /\ i \in 1 .. m - 1 + 1
      BY <2>1
    <3>2. a[i] = s[i] /\ b[i] = o[i]
      BY <2>2, <3>1
    <3>3. QED BY <3>2, <1>9
  <2>5. QED BY <2>2, <2>3, <2>4, SeqEqual
<1>13. IsPrefix(s, o)
  BY <1>8, <1>9, <1>11, <1>12 DEF IsPrefix
<1>14. QED BY <1>3, <1>13

(* A start pulse seen at rest begins a replay.                             *)
LEMMA PulseTaken ==
  ASSUME ExactInv, NEW q \in Queues, NEW arrives \in BOOLEAN,
         NEW nf \in [Queues -> BOOLEAN], NEW go \in [Queues -> BOOLEAN],
         Edge(arrives, nf, go),
         StartPulse(q), st_rd[q] = "IDLE", sent[q] = promised[q], replay_count[q] # 0, ~sw_rst
  PROVE  st_rd'[q] = "RD"
<1>1. PICK stage : Exact(stage)
  BY DEF ExactInv
<1>2. PICK bus : bus = IF arrives THEN Head(dma) ELSE NoWord
  OBVIOUS
<1>3. Clock(bus, nf, go, trace) /\ WellTyped
  BY <1>2 DEF Edge, ExactInv
<1>4. Resting(q)
  BY <1>1 DEF Exact, Reader, Quiet, Playing
<1>5. fifo[q] = <<>>
  <2>1. PICK s \in Seq(Cells), f \in Seq(Cells) : s = sent[q] /\ f = fifo[q]
    BY <1>3 DEF WellTyped, Celled
  <2>2. s \o f = s
    BY <1>4, <2>1 DEF Resting, Line
  <2>3. Len(s \o f) = Len(s) + Len(f)
    BY <2>1, ConcatProperties
  <2>4. PICK m \in Nat, n \in Nat : m = Len(s) /\ n = Len(f)
    BY <2>1
  <2>5. m = m + n
    BY <2>2, <2>3, <2>4, Zenon
  <2>6. Len(f) = 0
    BY <2>4, <2>5
  <2>7. QED BY <2>1, <2>6
<1>6. ~nf[q]
  BY <1>3, <1>5, LineMoves
<1>7. Begins(q, nf)
  BY <1>6 DEF Begins
<1>8. st_rd'[q] = ReadStateNext(q, nf)
  BY <1>3, ReadEdge
<1>9. QED BY <1>7, <1>8 DEF ReadStateNext

THEOREM ExactReplay ==
  ASSUME ~Drops, \A s \in Scripts : UsesInOrder(s)
  PROVE  Spec => []ReplayExact
<1>1. Init => ExactInv
  BY ExactInit
<1>2. ExactInv /\ [Next]_vars => ExactInv'
  BY ExactNext
<1>3. ExactInv => ReplayExact
  BY ExactSent
<1>4. QED BY <1>1, <1>2, <1>3, PTL DEF Spec

THEOREM StartsTaken ==
  ASSUME ~Drops, \A s \in Scripts : UsesInOrder(s)
  PROVE  Spec => StartTaken
<1>1. Init => ExactInv
  BY ExactInit
<1>2. ExactInv /\ [Next]_vars => ExactInv'
  BY ExactNext
<1>3. ASSUME ExactInv, Next, NEW q \in Queues,
             ticked', StartPulse(q), st_rd[q] = "IDLE", sent[q] = promised[q],
             replay_count[q] # 0, ~sw_rst
      PROVE  st_rd'[q] = "RD"
  <2>1. ~Host
    BY <1>3 DEF Host, WriteRegister, SendPacket, SleepStep, WatchStep, HostStep
  <2>2. PICK arrives \in BOOLEAN, nf \in [Queues -> BOOLEAN], go \in [Queues -> BOOLEAN] :
          Edge(arrives, nf, go)
    BY <1>3, <2>1 DEF Next, Hardware
  <2>3. QED BY <1>3, <2>2, PulseTaken
<1>4. ExactInv /\ [Next]_vars =>
        [\A q \in Queues :
           (/\ ticked' /\ StartPulse(q) /\ st_rd[q] = "IDLE" /\ sent[q] = promised[q]
            /\ replay_count[q] # 0 /\ ~sw_rst)
             => st_rd'[q] = "RD"]_vars
  BY <1>3
<1>5. QED BY <1>1, <1>2, <1>4, PTL DEF Spec, StartTaken
=============================================================================
