------------------------ MODULE RegisterAccess_proofs ------------------------
(***************************************************************************)
(* Proofs about RegisterAccess, for any number of programs, any number of  *)
(* requests, and callers that may time out or be interrupted.              *)
(***************************************************************************)
EXTENDS RegisterAccess, SequenceTheorems, TLAPS

(* The types of the variables TypeOK leaves out, which its steps rely on.  *)
TypeInv ==
  /\ TypeOK
  /\ inbox \in Seq([tag : Tags, kind : Kinds])
  /\ answers \in Seq(Tags)

LEMMA HeadAndTail ==
  ASSUME NEW S, NEW s \in Seq(S), s # <<>>
  PROVE  Head(s) \in S /\ Tail(s) \in Seq(S)
  OBVIOUS

LEMMA InitTypes == Init => TypeInv
  BY RegisterAssumption
  DEF Init, TypeInv, TypeOK, Request, Kinds, Tags, ChannelStates, Causes

(* Where an action leaves the callers, the driver and the card's queues.   *)
LEMMA CallerTypes ==
  ASSUME TypeInv, NEW p \in Procs, Caller(p)
  PROVE  TypeInv'
<1>1. CASE \E k \in Kinds : Initiate(p, k)
  <2>1. PICK k \in Kinds : Initiate(p, k) BY <1>1
  <2>2. rtag' \in Tags /\ sendbuf' \in [tag : Tags, kind : Kinds]
    BY <2>1, RegisterAssumption DEF TypeInv, TypeOK, Initiate, Request, Tags
  <2>3. pc' \in [Procs -> {"out", "sendLook", "sendSleep", "sendQuit", "recvLook", "recvSleep"}]
    BY <2>1 DEF TypeInv, TypeOK, Initiate
  <2> QED
    BY <2>1, <2>2, <2>3
    DEF TypeInv, TypeOK, Initiate, sume_reg_wr_locked, ChannelStates, cardTx, app, Tags
<1>2. CASE \E k \in Kinds : Busy(p, k)
  BY <1>2 DEF Busy, TypeInv, TypeOK, driver, cardRx, cardTx, app, Tags
<1>3. CASE Sent(p)
  BY <1>3 DEF Sent, TypeInv, TypeOK, ChannelStates, cardRx, cardTx, app, Tags
<1>4. CASE StopSending(p)
  BY <1>4 DEF StopSending, TypeInv, TypeOK, driver, cardRx, cardTx, app, Tags
<1>5. CASE GiveUpSending(p)
  BY <1>5 DEF GiveUpSending, TypeInv, TypeOK, ChannelStates, cardRx, cardTx, app, Tags
<1>6. CASE sume_read_reg_result(p)
  BY <1>6 DEF sume_read_reg_result, TypeInv, TypeOK, ChannelStates, cardRx, cardTx, app, Tags
<1>7. CASE GiveUpReceiving(p)
  BY <1>7 DEF GiveUpReceiving, TypeInv, TypeOK, driver, cardRx, cardTx, app, Tags
<1>8. CASE Sleep(p)
  BY <1>8 DEF Sleep, TypeInv, TypeOK, driver, cardRx, cardTx, app, Tags
<1> QED BY <1>1, <1>2, <1>3, <1>4, <1>5, <1>6, <1>7, <1>8 DEF Caller

LEMMA InterruptTypes ==
  ASSUME TypeInv, Interrupt
  PROVE  TypeInv'
<1>1. send' \in ChannelStates
  BY DEF TypeInv, TypeOK, Interrupt, SendNext, ChannelStates
<1>2. recv' \in ChannelStates \ {"LEN"}
  BY DEF TypeInv, TypeOK, Interrupt, RecvNext, ChannelStates
<1>3. pc' \in [Procs -> {"out", "sendLook", "sendSleep", "sendQuit", "recvLook", "recvSleep"}]
  BY DEF TypeInv, TypeOK, Interrupt, Woken
<1>4. tx' \in {"IDLE", "NEW_ACK", "WRITE", "WRITTEN"}
  BY DEF TypeInv, TypeOK, Interrupt
<1> QED
  BY <1>1, <1>2, <1>3, <1>4 DEF TypeInv, TypeOK, Interrupt, app, Tags

LEMMA CardTypes ==
  ASSUME TypeInv, Card
  PROVE  TypeInv'
<1>1. CASE RxListRead
  BY <1>1 DEF RxListRead, TypeInv, TypeOK, driver, cardTx, app, Tags, Causes
<1>2. CASE RxFetch
  <2>1. inbox' \in Seq([tag : Tags, kind : Kinds])
    BY <1>2 DEF RxFetch, TypeInv, TypeOK
  <2> QED BY <1>2, <2>1 DEF RxFetch, TypeInv, TypeOK, driver, cardTx, Tags
<1>3. CASE RxPartial
  BY <1>3 DEF RxPartial, TypeInv, TypeOK, driver, cardTx, app, Tags, Causes
<1>4. CASE RxDone
  BY <1>4 DEF RxDone, TypeInv, TypeOK, driver, cardTx, app, Tags, Causes
<1>5. CASE Execute
  <2>1. Head(inbox) \in [tag : Tags, kind : Kinds]
        /\ Tail(inbox) \in Seq([tag : Tags, kind : Kinds])
    BY <1>5, HeadAndTail DEF Execute, TypeInv
  <2>2. Head(inbox).tag \in Tags BY <2>1
  <2>3. answers' \in Seq(Tags) BY <1>5, <2>2 DEF Execute, TypeInv
  <2> QED BY <1>5, <2>1, <2>3 DEF Execute, TypeInv, TypeOK, driver, cardRx, cardTx, Tags
<1>6. CASE TxNew
  BY <1>6 DEF TxNew, TypeInv, TypeOK, driver, cardRx, app, Tags, Causes
<1>7. CASE TxListRead
  BY <1>7 DEF TxListRead, TypeInv, TypeOK, driver, cardRx, app, Tags, Causes
<1>8. CASE TxWrite
  <2>2. Head(answers) \in Tags /\ Tail(answers) \in Seq(Tags)
    BY <1>8 DEF TxWrite, TypeInv
  <2> QED BY <1>8, <2>2 DEF TxWrite, TypeInv, TypeOK, driver, cardRx, Tags
<1>9. CASE TxDone
  BY <1>9 DEF TxDone, TypeInv, TypeOK, driver, cardRx, app, Tags, Causes
<1> QED BY <1>1, <1>2, <1>3, <1>4, <1>5, <1>6, <1>7, <1>8, <1>9 DEF Card

THEOREM RegisterTypes == Spec => []TypeInv
<1>1. TypeInv /\ [Next]_vars => TypeInv'
  <2> SUFFICES ASSUME TypeInv, [Next]_vars PROVE TypeInv' OBVIOUS
  <2>1. CASE \E p \in Procs : Caller(p) BY <2>1, CallerTypes
  <2>2. CASE Interrupt BY <2>2, InterruptTypes
  <2>3. CASE Card BY <2>3, CardTypes
  <2>4. CASE UNCHANGED vars
    BY <2>4 DEF vars, driver, cardRx, cardTx, app, TypeInv, TypeOK
  <2> QED BY <2>1, <2>2, <2>3, <2>4 DEF Next
<1> QED BY InitTypes, <1>1, PTL DEF Spec

(* Every variable keeps its type, whatever the callers do.                 *)
THEOREM RegisterTypeOK == Spec => []TypeOK
<1>1. TypeInv => TypeOK BY DEF TypeInv
<1> QED BY RegisterTypes, <1>1, PTL

-----------------------------------------------------------------------------
(* One caller at a time.  The property is inductive by itself: the channel *)
(* is taken before the lock is dropped, and only the caller inside gives   *)
(* it back.                                                                *)

(* The interrupt handler wakes callers but lets none in or out.            *)
LEMMA WokenInside ==
  ASSUME TypeInv, Interrupt, NEW p \in Procs
  PROVE  Inside(p)' <=> Inside(p)
  BY DEF TypeInv, TypeOK, Interrupt, Woken, Inside

(* A caller's step concerns that caller only.                              *)
LEMMA OthersInside ==
  ASSUME TypeInv, NEW p \in Procs, Caller(p), NEW q \in Procs, q # p
  PROVE  Inside(q)' <=> Inside(q)
  BY DEF TypeInv, TypeOK, Caller, Initiate, Busy, Sent, StopSending, GiveUpSending,
         sume_read_reg_result, GiveUpReceiving, Sleep, Inside

LEMMA CallerExclusive ==
  ASSUME TypeInv, OneAtATime, NEW p \in Procs, Caller(p)
  PROVE  OneAtATime'
<1>1. ASSUME NEW q \in Procs, q # p PROVE Inside(q)' <=> Inside(q)
  BY <1>1, OthersInside
<1>2. CASE \E k \in Kinds : Initiate(p, k)
  BY <1>1, <1>2 DEF Initiate, sume_reg_wr_locked, OneAtATime
<1>3. CASE \E k \in Kinds : Busy(p, k)
  BY <1>3 DEF Busy, OneAtATime, Inside, driver
<1>4. ASSUME Inside(p), Inside(p)' => send' # "IDLE" PROVE OneAtATime'
  BY <1>1, <1>4 DEF OneAtATime
<1>5. CASE Sent(p)
  BY <1>4, <1>5 DEF Sent, OneAtATime, Inside, TypeInv, TypeOK
<1>6. CASE StopSending(p)
  BY <1>4, <1>6 DEF StopSending, OneAtATime, Inside, driver
<1>7. CASE GiveUpSending(p)
  BY <1>4, <1>7 DEF GiveUpSending, Inside, TypeInv, TypeOK
<1>8. CASE sume_read_reg_result(p)
  BY <1>4, <1>8 DEF sume_read_reg_result, Inside, TypeInv, TypeOK
<1>9. CASE GiveUpReceiving(p)
  BY <1>4, <1>9 DEF GiveUpReceiving, OneAtATime, Inside, driver
<1>10. CASE Sleep(p)
  BY <1>4, <1>10 DEF Sleep, OneAtATime, Inside, driver
<1> QED
  BY <1>2, <1>3, <1>5, <1>6, <1>7, <1>8, <1>9, <1>10 DEF Caller

(* No two programs are inside the driver's register calls together, and    *)
(* while one is, the channel is marked taken (sume_initiate_reg_write).    *)
THEOREM OneCaller == Spec => []OneAtATime
<1>1. Init => OneAtATime
  BY DEF Init, OneAtATime, Inside
<1>2. TypeInv /\ OneAtATime /\ [Next]_vars => OneAtATime'
  <2> SUFFICES ASSUME TypeInv, OneAtATime, [Next]_vars PROVE OneAtATime' OBVIOUS
  <2>1. CASE \E p \in Procs : Caller(p) BY <2>1, CallerExclusive
  <2>2. CASE Interrupt
    <3>1. send # "IDLE" => send' # "IDLE"
      BY <2>2 DEF Interrupt, SendNext
    <3> QED BY <2>2, <3>1, WokenInside DEF OneAtATime
  <2>3. CASE Card
    <3>1. UNCHANGED <<pc, send>>
      BY <2>3 DEF Card, RxListRead, RxFetch, RxPartial, RxDone, Execute, TxNew,
                  TxListRead, TxWrite, TxDone, driver
    <3> QED BY <3>1 DEF OneAtATime, Inside
  <2>4. CASE UNCHANGED vars
    BY <2>4 DEF vars, driver, OneAtATime, Inside
  <2> QED BY <2>1, <2>2, <2>3, <2>4 DEF Next
<1> QED BY RegisterTypes, <1>1, <1>2, PTL DEF Spec

-----------------------------------------------------------------------------
(* The whole way of a request, as long as no caller has given up.  The     *)
(* phases say where the transfer to the card, the transfer from the card   *)
(* and the unanswered read are; they move together.  A read may have taken *)
(* a value before the card wrote it: its answer is then left over.         *)

RxQuiet ==
  /\ rx = "IDLE" /\ ~rxList /\ ~rxElem /\ rxDoneRead
  /\ "RX_SG_BUF_RECVD" \notin vect /\ "RX_TXN_DONE" \notin vect

RxWaitsForList ==
  /\ send = "READY" /\ rx = "READ" /\ rxList /\ ~rxElem /\ rxDoneRead
  /\ "RX_SG_BUF_RECVD" \notin vect /\ "RX_TXN_DONE" \notin vect

RxHasList ==
  /\ send \in {"READY", "READ"}
  /\ ~rxList /\ ("RX_SG_BUF_RECVD" \in vect <=> send = "READY")
  /\ \/ rx = "READ" /\ rxElem /\ rxDoneRead /\ "RX_TXN_DONE" \notin vect
     \/ rx = "FETCHED" /\ ~rxElem /\ rxDoneRead /\ "RX_TXN_DONE" \notin vect
     \/ rx = "IDLE" /\ ~rxElem /\ ~rxDoneRead /\ "RX_TXN_DONE" \in vect

RxPhase ==
  /\ ~rxPartial
  /\ \/ send \in {"IDLE", "LEN"} /\ RxQuiet
     \/ RxWaitsForList
     \/ RxHasList

(* From no transfer (T0) over the list handed out (T2) and read (T3) to   *)
(* the answer in memory (T4); TLeft is a T3 whose reader did not wait.     *)
(* txDoneRead does not matter: a transfer whose end is never reported      *)
(* keeps later ones from starting.                                         *)
TxCauses == vect \cap {"TX_TXN", "TX_SG_BUF_RECVD"}
T0 == recv = "IDLE" /\ tx \in {"IDLE", "WRITTEN"} /\ ~txList /\ ~txElem /\ TxCauses = {}
TLeft == recv = "IDLE" /\ tx = "WRITE" /\ ~txList /\ txElem /\ TxCauses = {}
T1 == recv = "IDLE" /\ tx = "NEW_ACK" /\ ~txList /\ ~txElem /\ TxCauses = {"TX_TXN"}
T2 == /\ recv = "READY" /\ tx = "WRITE"
      /\ \/ txList /\ ~txElem /\ TxCauses = {}
         \/ ~txList /\ txElem /\ TxCauses = {"TX_SG_BUF_RECVD"}
T3 == recv = "READ" /\ tx = "WRITE" /\ ~txList /\ txElem /\ TxCauses = {}
T4 == /\ tx \in {"IDLE", "WRITTEN"} /\ ~txList /\ ~txElem
      /\ \/ recv = "READY" /\ TxCauses = {"TX_SG_BUF_RECVD"}
         \/ recv = "READ" /\ TxCauses = {}

(* No answer is due but perhaps one whose reader did not wait.             *)
Idle ==
  \/ T0 /\ answers = <<>>
  \/ TLeft /\ \E a : answers = <<a>>

(* A read is under way from the ioctl to the return of its result.         *)
Reading == send # "IDLE" /\ sendbuf.kind = "read"
Fetched == Reading /\ rx # "READ"

AllWrites(s) == \A i \in 1 .. Len(s) : s[i].kind = "write"

InBuffer == ~Fetched /\ AllWrites(inbox) /\ Idle
InInbox ==
  /\ Fetched /\ Idle
  /\ inbox # <<>> /\ inbox[Len(inbox)] = sendbuf
  /\ \A i \in 1 .. Len(inbox) - 1 : inbox[i].kind = "write"
InAnswers ==
  /\ Fetched /\ inbox = <<>>
  /\ \/ answers = <<rtag>> /\ (T0 \/ T1 \/ T2 \/ T3)
     \/ TLeft /\ \E a : answers = <<a, rtag>>
InMemory ==
  Fetched /\ inbox = <<>> /\ answers = <<>> /\ recvbuf = rtag /\ T4

ReadPhase == InBuffer \/ InInbox \/ InAnswers \/ InMemory

CallerPhase ==
  /\ sendbuf.tag = rtag
  /\ \A p \in Procs :
       /\ Inside(p) => sendbuf.kind = kind[p]
       /\ pc[p] # "sendQuit"
       /\ pc[p] \in {"recvLook", "recvSleep"} => send = "LEN" /\ kind[p] = "read"

WritePhase == send # "IDLE" /\ sendbuf.kind = "write" /\ rx # "READ" => Delivered(rtag)

(* TimelyAnswer and WriteDone without their condition, which is in        *)
(* TransferInv.                                                            *)
Answered == last.kind = "read" /\ last.res = "ok" /\ ~last.early => last.got = last.tag

Phases == RxPhase /\ ReadPhase /\ CallerPhase /\ WritePhase /\ Answered /\ WriteDone

TransferInv == TypeInv /\ OneAtATime /\ (~gaveUp => Phases)

-----------------------------------------------------------------------------
(* What the sequences between RIFFA and riffa_axi_lite keep.               *)

LEMMA DeliveredKept ==
  ASSUME TypeInv, NEW t, Delivered(t),
         UNCHANGED <<inbox, done>> \/ RxFetch \/ Execute
  PROVE  Delivered(t)'
<1>1. CASE UNCHANGED <<inbox, done>> BY <1>1 DEF Delivered
<1>2. CASE RxFetch
  <2>1. CASE t \in done BY <1>2, <2>1 DEF RxFetch, Delivered
  <2>2. CASE t \notin done
    <3>1. PICK i \in 1 .. Len(inbox) : inbox[i].tag = t BY <2>2 DEF Delivered
    <3>2. i \in 1 .. Len(inbox') /\ inbox'[i] = inbox[i]
      BY <1>2, <3>1 DEF RxFetch, TypeInv, TypeOK
    <3> QED BY <3>1, <3>2 DEF Delivered
  <2> QED BY <2>1, <2>2
<1>3. CASE Execute
  <2>1. CASE t \in done BY <1>3, <2>1 DEF Execute, Delivered
  <2>2. CASE t \notin done
    <3>1. PICK i \in 1 .. Len(inbox) : inbox[i].tag = t BY <2>2 DEF Delivered
    <3>2. CASE i = 1 BY <1>3, <3>1, <3>2 DEF Execute, Delivered, TypeInv
    <3>3. CASE i # 1
      <4>1. i - 1 \in 1 .. Len(inbox') /\ inbox'[i - 1] = inbox[i]
        BY <1>3, <3>3 DEF Execute, TypeInv
      <4> QED BY <3>1, <4>1 DEF Delivered
    <3> QED BY <3>2, <3>3
  <2> QED BY <2>1, <2>2
<1> QED BY <1>1, <1>2, <1>3

LEMMA FetchDelivers ==
  ASSUME TypeInv, RxFetch PROVE Delivered(sendbuf.tag)'
<1>1. Len(inbox) + 1 \in 1 .. Len(inbox') /\ inbox'[Len(inbox) + 1] = sendbuf
  BY DEF RxFetch, TypeInv, TypeOK
<1>2. sendbuf' = sendbuf BY DEF RxFetch, driver
<1> QED BY <1>1, <1>2 DEF Delivered

-----------------------------------------------------------------------------
USE DEF history

LEMMA InitPhases == Init => Phases
<1> SUFFICES ASSUME Init PROVE Phases OBVIOUS
<1>1. RxPhase BY DEF Init, RxPhase, RxQuiet
<1>2. ReadPhase
  BY DEF Init, ReadPhase, InBuffer, Fetched, Reading, AllWrites, Idle, T0, TxCauses
<1>3. CallerPhase BY DEF Init, CallerPhase, Inside, Request
<1>4. WritePhase /\ Answered /\ WriteDone
  BY DEF Init, WritePhase, Answered, WriteDone
<1> QED BY <1>1, <1>2, <1>3, <1>4 DEF Phases

(* A new request: the channel was free, so no transfer and no read is      *)
(* under way.                                                              *)
LEMMA InitiatePhases ==
  ASSUME TypeInv, OneAtATime, Phases, NEW p \in Procs, NEW k \in Kinds, Initiate(p, k)
  PROVE  Phases'
<1>1. RxQuiet /\ ~rxPartial BY DEF Phases, RxPhase, Initiate, RxWaitsForList, RxHasList
<1>2. RxPhase'
  BY <1>1 DEF Initiate, sume_reg_wr_locked, RxPhase, RxQuiet, RxWaitsForList
<1>3. InBuffer BY DEF Phases, ReadPhase, InBuffer, InInbox, InAnswers, InMemory, Fetched, Reading, Initiate
<1>4. InBuffer'
  BY <1>1, <1>3
  DEF InBuffer, Initiate, sume_reg_wr_locked, RxQuiet, Fetched, AllWrites, Idle, T0, TLeft, TxCauses,
      cardTx, app
<1>5. \A q \in Procs : q # p => ~Inside(q)
  BY DEF OneAtATime, Initiate
<1>6. CallerPhase'
  BY <1>5 DEF CallerPhase, Initiate, Inside, Request, TypeInv, TypeOK
<1>7. rx' = "READ" BY <1>1 DEF Initiate, sume_reg_wr_locked, RxQuiet
<1>8. WritePhase' /\ Answered' /\ WriteDone'
  BY <1>7 DEF Phases, WritePhase, Answered, WriteDone, Delivered, Initiate, app
<1> QED BY <1>2, <1>4, <1>6, <1>8 DEF Phases, ReadPhase

(* The end of a call.  A write goes out with its request delivered; a read *)
(* finds the transfer to the host complete, with its own answer.           *)
LEMMA SentPhases ==
  ASSUME TypeInv, OneAtATime, Phases, NEW p \in Procs, Sent(p)
  PROVE  Phases'
<1>1. RxQuiet /\ ~rxPartial /\ Inside(p) /\ sendbuf.kind = kind[p] /\ sendbuf.tag = rtag
  BY DEF Phases, RxPhase, CallerPhase, Sent, RxWaitsForList, RxHasList, Inside
<1>2. send' \in {"IDLE", "LEN"} BY DEF Sent
<1>3. RxPhase'
  BY <1>1, <1>2 DEF Sent, RxPhase, RxQuiet, cardRx
<1>4. ReadPhase'
  <2>1. CASE kind[p] = "write"
    <3>1. InBuffer
      BY <1>1, <2>1 DEF Phases, ReadPhase, InInbox, InAnswers, InMemory, Fetched, Reading
    <3>2. InBuffer'
      BY <1>1, <2>1, <3>1 DEF InBuffer, Fetched, Reading, AllWrites, Idle, T0, TLeft, TxCauses,
                               Sent, cardRx, cardTx, app
    <3> QED BY <3>2 DEF ReadPhase
  <2>2. CASE kind[p] # "write"
    BY <2>2 DEF Phases, ReadPhase, InBuffer, InInbox, InAnswers, InMemory, Fetched, Reading,
                AllWrites, Idle, T0, TLeft, T1, T2, T3, T4, TxCauses, Sent, cardRx, cardTx, app
  <2> QED BY <2>1, <2>2
<1>5. CallerPhase'
  <2>1. kind[p] \in Kinds BY DEF TypeInv, TypeOK
  <2>2. \A q \in Procs : q # p => ~Inside(q) BY <1>1 DEF OneAtATime
  <2> QED BY <2>1, <2>2 DEF Phases, CallerPhase, Sent, Inside, TypeInv, TypeOK, Kinds
<1>6. WritePhase'
  BY DEF Phases, WritePhase, Delivered, Sent, cardRx, app
<1>7. Answered'
  BY DEF Phases, Answered, Sent, Return
<1>8. WriteDone'
  <2>1. CASE kind[p] = "write"
    <3>1. Delivered(rtag)
      BY <1>1, <2>1 DEF Phases, WritePhase, Sent, RxQuiet
    <3> QED BY <2>1, <3>1 DEF WriteDone, Delivered, Sent, Return, app
  <2>2. CASE kind[p] # "write"
    BY <2>2 DEF Phases, WriteDone, Delivered, Sent, app
  <2> QED BY <2>1, <2>2
<1> QED BY <1>3, <1>4, <1>5, <1>6, <1>7, <1>8 DEF Phases

LEMMA ResultPhases ==
  ASSUME TypeInv, OneAtATime, Phases, NEW p \in Procs, sume_read_reg_result(p)
  PROVE  Phases'
<1>1. send = "LEN" /\ kind[p] = "read" /\ Inside(p) /\ sendbuf.kind = "read"
  BY DEF Phases, CallerPhase, sume_read_reg_result, Inside
<1>2. RxQuiet /\ ~rxPartial
  BY <1>1 DEF Phases, RxPhase, RxWaitsForList, RxHasList
<1>3. RxPhase'
  BY <1>2 DEF RxPhase, RxQuiet, sume_read_reg_result, cardRx
<1>4. (InMemory /\ T4) \/ (InAnswers /\ T3)
  BY <1>1 DEF Phases, ReadPhase, InBuffer, InInbox, InAnswers, InMemory, Idle, T0, TLeft,
         T1, T2, sume_read_reg_result
<1>5. InBuffer'
  <2>1. ~Fetched' /\ UNCHANGED <<inbox, answers, vect, cardTx>> /\ recv = "READ" /\ recv' = "IDLE"
    BY DEF Fetched, Reading, sume_read_reg_result, app
  <2>2. AllWrites(inbox)'
    BY <1>4, <2>1 DEF AllWrites, InMemory, InAnswers
  <2>3. CASE InMemory /\ T4
    <3>1. T0' /\ answers' = <<>>
      BY <2>1, <2>3 DEF InMemory, T4, T0, TxCauses, cardTx
    <3> QED BY <2>1, <2>2, <3>1 DEF InBuffer, Idle
  <2>4. CASE InAnswers /\ T3
    <3>1. TLeft' /\ answers' = <<rtag>>
      BY <2>1, <2>4 DEF InAnswers, TLeft, T3, TxCauses, cardTx
    <3> QED BY <2>1, <2>2, <3>1 DEF InBuffer, Idle
  <2> QED BY <1>4, <2>3, <2>4
<1>6. CallerPhase'
  <2>1. \A q \in Procs : q # p => ~Inside(q) BY <1>1 DEF OneAtATime
  <2> QED BY <2>1 DEF Phases, CallerPhase, sume_read_reg_result, Inside, TypeInv, TypeOK
<1>7. WritePhase' BY DEF WritePhase, sume_read_reg_result
<1>8. Answered' /\ WriteDone'
  BY <1>1, <1>4 DEF InMemory, T3, Answered, WriteDone, sume_read_reg_result, Return
<1> QED BY <1>3, <1>5, <1>6, <1>7, <1>8 DEF Phases, ReadPhase

LEMMA CallerPhases ==
  ASSUME TypeInv, OneAtATime, Phases, ~gaveUp', NEW p \in Procs, Caller(p)
  PROVE  Phases'
<1>1. CASE \E k \in Kinds : Initiate(p, k) BY <1>1, InitiatePhases
<1>2. CASE \E k \in Kinds : Busy(p, k)
  <2> USE <1>2 DEF Busy
  <2>1. RxPhase' /\ WritePhase' /\ Answered' /\ WriteDone'
    BY DEF Phases, RxPhase, RxQuiet, RxWaitsForList, RxHasList, WritePhase, Delivered,
           Answered, WriteDone, driver, cardRx, app
  <2>2. ReadPhase' /\ CallerPhase'
    BY DEF Phases, ReadPhase, InBuffer, InInbox, InAnswers, InMemory, Fetched, Reading,
           AllWrites, Idle, T0, TLeft, T1, T2, T3, T4, TxCauses, CallerPhase, Inside,
           driver, cardRx, cardTx, app
  <2> QED BY <2>1, <2>2 DEF Phases
<1>3. CASE Sent(p) BY <1>3, SentPhases
<1>4. CASE sume_read_reg_result(p) BY <1>4, ResultPhases
<1>5. CASE Sleep(p)
  <2> USE <1>5 DEF Sleep
  <2>1. RxPhase' /\ WritePhase' /\ Answered' /\ WriteDone'
    BY DEF Phases, RxPhase, RxQuiet, RxWaitsForList, RxHasList, WritePhase, Delivered,
           Answered, WriteDone, driver, cardRx, app
  <2>2. ReadPhase'
    BY DEF Phases, ReadPhase, InBuffer, InInbox, InAnswers, InMemory, Fetched, Reading,
           AllWrites, Idle, T0, TLeft, T1, T2, T3, T4, TxCauses, driver, cardRx, cardTx, app
  <2>3. CallerPhase'
    BY DEF Phases, CallerPhase, Inside, driver, TypeInv, TypeOK
  <2> QED BY <2>1, <2>2, <2>3 DEF Phases
<1>6. ~StopSending(p) /\ ~GiveUpReceiving(p)
  BY DEF StopSending, GiveUpReceiving
<1>7. ~GiveUpSending(p)
  BY DEF GiveUpSending, Phases, CallerPhase
<1> QED BY <1>1, <1>2, <1>3, <1>4, <1>5, <1>6, <1>7 DEF Caller

(* The handler moves each transfer on by the causes that are there.        *)
LEMMA InterruptPhases ==
  ASSUME TypeInv, OneAtATime, Phases, Interrupt
  PROVE  Phases'
<1> USE DEF Interrupt
<1>1. RxPhase'
  BY DEF Phases, RxPhase, RxQuiet, RxWaitsForList, RxHasList, SendNext, SendEnds
<1>2. Reading' = Reading /\ Fetched' = Fetched
  BY DEF Reading, Fetched, SendNext
<1>3. TxCauses' = {} BY DEF TxCauses
<1>4. ReadPhase'
  <2>1. T0 => T0' BY <1>3 DEF T0, TxCauses, RecvNext, RecvOpens
  <2>2. TLeft => TLeft' BY <1>3 DEF TLeft, TxCauses, RecvNext, RecvOpens
  <2>3. T1 => T2' BY <1>3 DEF T1, T2, TxCauses, RecvNext, RecvOpens
  <2>4. T2 => (T2 \/ T3)' BY <1>3 DEF T2, T3, TxCauses, RecvNext, RecvOpens
  <2>5. T3 => T3' BY <1>3 DEF T3, TxCauses, RecvNext, RecvOpens
  <2>6. T4 => T4' BY <1>3 DEF T4, TxCauses, RecvNext, RecvOpens
  <2>7. UNCHANGED <<inbox, answers, sendbuf, rtag, recvbuf>> BY DEF app
  <2>8. Idle => Idle' BY <2>1, <2>2, <2>7 DEF Idle
  <2>9. CASE InBuffer BY <1>2, <2>7, <2>8, <2>9 DEF ReadPhase, InBuffer, AllWrites
  <2>10. CASE InInbox BY <1>2, <2>7, <2>8, <2>10 DEF ReadPhase, InInbox
  <2>11. CASE InAnswers
    BY <1>2, <2>1, <2>2, <2>3, <2>4, <2>5, <2>7, <2>11 DEF ReadPhase, InAnswers
  <2>12. CASE InMemory BY <1>2, <2>6, <2>7, <2>12 DEF ReadPhase, InMemory
  <2> QED BY <2>9, <2>10, <2>11, <2>12 DEF Phases, ReadPhase
<1>5. CallerPhase'
  <2>1. ASSUME NEW q \in Procs PROVE Inside(q)' <=> Inside(q) BY WokenInside
  <2>2. ASSUME NEW q \in Procs
        PROVE  /\ pc'[q] # "sendQuit"
               /\ pc'[q] \in {"recvLook", "recvSleep"} => send' = "LEN" /\ kind[q] = "read"
    BY DEF Phases, CallerPhase, Woken, SendNext
  <2> QED BY <2>1, <2>2 DEF Phases, CallerPhase
<1>6. WritePhase'
  BY DEF Phases, WritePhase, SendNext, Delivered, app
<1>7. Answered' /\ WriteDone'
  BY DEF Phases, Answered, WriteDone, Delivered, app
<1> QED BY <1>1, <1>4, <1>5, <1>6, <1>7 DEF Phases

-----------------------------------------------------------------------------
(* The card's steps.  A step of the transfer to the card leaves the other  *)
(* transfer alone, and the reverse.                                        *)

LEMMA RxListReadPhases ==
  ASSUME TypeInv, Phases, RxListRead PROVE Phases'
<1> USE DEF RxListRead
<1>1. RxWaitsForList BY DEF Phases, RxPhase, RxQuiet, RxHasList
<1>2. RxPhase' BY <1>1 DEF Phases, RxPhase, RxWaitsForList, RxHasList, driver
<1>3. ReadPhase'
  BY DEF Phases, ReadPhase, InBuffer, InInbox, InAnswers, InMemory, Fetched, Reading,
         AllWrites, Idle, T0, TLeft, T1, T2, T3, T4, TxCauses, driver, cardTx, app
<1>4. CallerPhase' BY DEF Phases, CallerPhase, Inside, driver
<1>5. WritePhase' /\ Answered' /\ WriteDone'
  BY DEF Phases, WritePhase, Answered, WriteDone, Delivered, driver, app
<1> QED BY <1>2, <1>3, <1>4, <1>5 DEF Phases

LEMMA RxFetchPhases ==
  ASSUME TypeInv, Phases, RxFetch PROVE Phases'
<1> USE DEF RxFetch
<1>1. RxHasList BY DEF Phases, RxPhase, RxQuiet, RxWaitsForList
<1>2. RxPhase' BY <1>1 DEF Phases, RxPhase, RxHasList, driver
<1>3. send # "IDLE" /\ sendbuf.kind \in Kinds BY <1>1 DEF RxHasList, TypeInv, TypeOK
<1>4. InBuffer BY DEF Phases, ReadPhase, InInbox, InAnswers, InMemory, Fetched
<1>5. /\ Len(inbox') = Len(inbox) + 1
      /\ inbox'[Len(inbox) + 1] = sendbuf
      /\ \A i \in 1 .. Len(inbox) : inbox'[i] = inbox[i]
  BY DEF TypeInv, TypeOK
<1>6. Len(inbox) \in Nat BY DEF TypeInv
<1>7. Idle' BY <1>4 DEF InBuffer, Idle, T0, TLeft, TxCauses, driver, cardTx
<1>8. ReadPhase'
  <2>1. CASE sendbuf.kind = "read"
    <3>1. Fetched' BY <1>3, <2>1 DEF Fetched, Reading, driver
    <3>2. inbox' # <<>> /\ inbox'[Len(inbox')] = sendbuf
      BY <1>5, <1>6
    <3>3. \A i \in 1 .. Len(inbox') - 1 : inbox'[i].kind = "write"
      BY <1>4, <1>5, <1>6 DEF InBuffer, AllWrites
    <3> QED BY <1>4, <1>7, <3>1, <3>2, <3>3 DEF InBuffer, InInbox, ReadPhase, driver
  <2>2. CASE sendbuf.kind = "write"
    <3>1. ~Fetched' BY <2>2 DEF Fetched, Reading, driver
    <3>2. AllWrites(inbox)'
      BY <1>4, <1>5, <1>6, <2>2 DEF InBuffer, AllWrites
    <3> QED BY <1>4, <1>7, <3>1, <3>2 DEF InBuffer, ReadPhase
  <2> QED BY <1>3, <2>1, <2>2 DEF Kinds
<1>9. CallerPhase' BY DEF Phases, CallerPhase, Inside, driver
<1>10. WritePhase'
  BY FetchDelivers DEF Phases, CallerPhase, WritePhase, Delivered, driver
<1>11. Answered' BY DEF Phases, Answered
<1>12. WriteDone'
  BY DeliveredKept DEF Phases, WriteDone
<1> QED BY <1>2, <1>8, <1>9, <1>10, <1>11, <1>12 DEF Phases

LEMMA RxDonePhases ==
  ASSUME TypeInv, Phases, RxDone PROVE Phases'
<1> USE DEF RxDone
<1>1. RxHasList BY DEF Phases, RxPhase, RxQuiet, RxWaitsForList
<1>2. RxPhase' BY <1>1 DEF RxPhase, RxHasList, driver
<1>3. Fetched' = Fetched BY DEF Fetched, Reading, driver
<1>4. ReadPhase'
  BY <1>3 DEF Phases, ReadPhase, InBuffer, InInbox, InAnswers, InMemory,
              AllWrites, Idle, T0, TLeft, T1, T2, T3, T4, TxCauses, driver, cardTx, app
<1>5. CallerPhase' BY DEF Phases, CallerPhase, Inside, driver
<1>6. WritePhase' /\ Answered' /\ WriteDone'
  BY DEF Phases, WritePhase, Answered, WriteDone, Delivered, driver, app
<1> QED BY <1>2, <1>4, <1>5, <1>6 DEF Phases

LEMMA ExecutePhases ==
  ASSUME TypeInv, Phases, Execute PROVE Phases'
<1> USE DEF Execute
<1>1. RxPhase'
  BY DEF Phases, RxPhase, RxQuiet, RxWaitsForList, RxHasList, driver, cardRx
<1>2. Fetched' = Fetched BY DEF Fetched, Reading, driver, cardRx
<1>3. /\ Len(inbox) \in Nat \ {0} /\ Len(inbox') = Len(inbox) - 1
      /\ Head(inbox) = inbox[1]
      /\ \A i \in 1 .. Len(inbox) - 1 : inbox'[i] = inbox[i + 1]
  BY DEF TypeInv
<1>4. UNCHANGED <<recv, tx, txList, txElem, txDoneRead, vect, sendbuf, rtag>>
  BY DEF driver, cardTx
<1>5. (T0 => T0') /\ (TLeft => TLeft') BY <1>4 DEF T0, TLeft, TxCauses
<1>6. ReadPhase'
  <2>1. CASE InBuffer
    <3>1. Head(inbox).kind = "write" /\ AllWrites(inbox)'
      BY <1>3, <2>1 DEF InBuffer, AllWrites
    <3> QED BY <1>2, <1>5, <2>1, <3>1 DEF InBuffer, Idle, ReadPhase
  <2>2. CASE InInbox /\ Len(inbox) = 1
    <3>1. Head(inbox) = sendbuf /\ inbox' = <<>>
      BY <1>3, <2>2 DEF InInbox, TypeInv
    <3>2. answers' = Append(answers, rtag)
      BY <2>2, <3>1 DEF InInbox, Phases, CallerPhase, Fetched, Reading
    <3>3. Idle /\ Fetched'
      BY <1>2, <2>2 DEF InInbox
    <3>4. CASE T0 /\ answers = <<>>
      BY <1>4, <1>5, <3>1, <3>2, <3>3, <3>4 DEF InAnswers, ReadPhase
    <3>5. CASE TLeft /\ \E a : answers = <<a>>
      <4>1. PICK a : answers = <<a>>
        BY <3>5
      <4>2. answers' = <<a, rtag>>
        <5>1. rtag \in Nat
          BY DEF TypeInv, TypeOK, Tags
        <5>2. <<a>> \in Seq({a, rtag}) /\ Len(<<a>>) = 1 /\ <<a>>[1] = a
          OBVIOUS
        <5>3. /\ Append(<<a>>, rtag) \in Seq({a, rtag}) /\ Len(Append(<<a>>, rtag)) = 2
              /\ Append(<<a>>, rtag)[1] = a /\ Append(<<a>>, rtag)[2] = rtag
          BY <5>2
        <5>4. Append(<<a>>, rtag) = <<a, rtag>>
          <6> DEFINE s == Append(<<a>>, rtag)
                     t == <<a, rtag>>
          <6>1. s \in Seq({a, rtag}) /\ t \in Seq({a, rtag}) /\ Len(s) = Len(t)
                /\ \A i \in 1 .. Len(s) : s[i] = t[i]
            BY <5>3
          <6>2. s = t
            <7> HIDE DEF s, t
            <7> QED BY <6>1, SeqEqual
          <6> QED BY <6>2
        <5> QED BY <3>2, <4>1, <5>4
      <4>3. rtag' = rtag /\ TLeft'
        BY <1>4, <1>5, <3>5
      <4> QED BY <3>1, <3>3, <4>2, <4>3 DEF InAnswers, ReadPhase
    <3> QED BY <3>3, <3>4, <3>5 DEF Idle
  <2>3. CASE InInbox /\ Len(inbox) # 1
    <3>1. Head(inbox).kind = "write" BY <1>3, <2>3 DEF InInbox
    <3>2. inbox' # <<>> /\ inbox'[Len(inbox')] = sendbuf'
      <4>1. Len(inbox) - 1 \in 1 .. Len(inbox) - 1 /\ Len(inbox') = Len(inbox) - 1
        BY <1>3, <2>3
      <4>2. inbox'[Len(inbox) - 1] = inbox[Len(inbox)]
        BY <1>3, <4>1
      <4>3. inbox' # <<>>
        BY <1>3, <2>3, <4>1
      <4> QED BY <1>4, <2>3, <4>1, <4>2, <4>3 DEF InInbox
    <3>3. \A i \in 1 .. Len(inbox') - 1 : inbox'[i].kind = "write"
      BY <1>3, <2>3 DEF InInbox
    <3> QED BY <1>2, <1>5, <2>3, <3>1, <3>2, <3>3 DEF InInbox, Idle, ReadPhase
  <2> QED BY <2>1, <2>2, <2>3 DEF Phases, ReadPhase, InAnswers, InMemory
<1>7. CallerPhase' BY DEF Phases, CallerPhase, Inside, driver
<1>8. WritePhase'
  BY DeliveredKept DEF Phases, WritePhase, driver, cardRx
<1>9. Answered' BY DEF Phases, Answered
<1>10. WriteDone' BY DeliveredKept DEF Phases, WriteDone
<1> QED BY <1>1, <1>6, <1>7, <1>8, <1>9, <1>10 DEF Phases

(* A step of the transfer to the host touches neither the other transfer   *)
(* nor the callers.                                                        *)
LEMMA TxFrame ==
  ASSUME TypeInv, Phases, TxNew \/ TxListRead \/ TxWrite \/ TxDone
  PROVE  /\ RxPhase' /\ CallerPhase' /\ WritePhase' /\ Answered' /\ WriteDone'
         /\ (Fetched' <=> Fetched) /\ (AllWrites(inbox)' <=> AllWrites(inbox))
<1> USE DEF TxNew, TxListRead, TxWrite, TxDone
<1>1. /\ UNCHANGED <<pc, kind, driver, cardRx, inbox, done, last>>
      /\ \A c \in {"RX_SG_BUF_RECVD", "RX_TXN_DONE"} : c \in vect' <=> c \in vect
  BY DEF app
<1>2. RxPhase'
  BY <1>1 DEF Phases, RxPhase, RxQuiet, RxWaitsForList, RxHasList, driver, cardRx
<1>3. CallerPhase' BY <1>1 DEF Phases, CallerPhase, Inside, driver
<1>4. WritePhase' /\ Answered' /\ WriteDone'
  BY <1>1 DEF Phases, WritePhase, Answered, WriteDone, Delivered, driver, cardRx
<1>5. (Fetched' <=> Fetched) /\ (AllWrites(inbox)' <=> AllWrites(inbox))
  BY <1>1 DEF Fetched, Reading, AllWrites, driver, cardRx
<1> QED BY <1>2, <1>3, <1>4, <1>5

LEMMA TxPhases ==
  ASSUME TypeInv, Phases, TxNew \/ TxListRead \/ TxWrite \/ TxDone
  PROVE  Phases'
<1>0. UNCHANGED <<recv, sendbuf, rtag, inbox>>
  BY DEF TxNew, TxListRead, TxWrite, TxDone, driver, app
<1>1. CASE TxNew
  <2> USE <1>1 DEF TxNew
  <2>1. InAnswers /\ T0 /\ answers = <<rtag>>
    BY DEF Phases, ReadPhase, InBuffer, InInbox, InAnswers, InMemory, Idle, TLeft, T1, T2, T3
  <2>2. T1' /\ answers' = answers BY <1>0, <2>1 DEF T0, T1, TxCauses, app
  <2>3. InAnswers' BY <1>0, <2>1, <2>2, TxFrame DEF InAnswers
  <2> QED BY <2>3, TxFrame DEF Phases, ReadPhase
<1>2. CASE TxListRead
  <2> USE <1>2 DEF TxListRead
  <2>1. InAnswers /\ T2 /\ answers = <<rtag>>
    BY DEF Phases, ReadPhase, InBuffer, InInbox, InAnswers, InMemory, Idle, T0, TLeft, T1, T3, T4
  <2>2. T2' /\ answers' = answers BY <1>0, <2>1 DEF T2, TxCauses, app
  <2>3. InAnswers' BY <1>0, <2>1, <2>2, TxFrame DEF InAnswers
  <2> QED BY <2>3, TxFrame DEF Phases, ReadPhase
<1>3. CASE TxWrite
  <2> USE <1>3 DEF TxWrite
  <2>1. answers' = Tail(answers) /\ recvbuf' = Head(answers) /\ tx' = "WRITTEN"
        /\ ~txElem' /\ UNCHANGED <<txList, vect>> /\ tx = "WRITE" /\ txElem
    OBVIOUS
  <2>2. TLeft => T0' BY <1>0, <2>1 DEF TLeft, T0, TxCauses
  <2>3. T2 \/ T3 => T4' BY <1>0, <2>1 DEF T2, T3, T4, TxCauses
  <2>4. Idle => Idle'
    <3> SUFFICES ASSUME Idle PROVE Idle' OBVIOUS
    <3>1. TLeft /\ \E a : answers = <<a>> BY <2>1 DEF Idle, T0
    <3>2. answers' = <<>> BY <2>1, <3>1
    <3> QED BY <2>2, <3>1, <3>2 DEF Idle
  <2>5. CASE InBuffer
    <3>1. InBuffer' BY <2>4, <2>5, TxFrame, Zenon DEF InBuffer
    <3> QED BY <3>1, TxFrame DEF Phases, ReadPhase
  <2>6. CASE InInbox
    BY <1>0, <2>4, <2>6, TxFrame DEF InInbox, Phases, ReadPhase
  <2>7. CASE InAnswers
    <3>1. CASE TLeft /\ \E a : answers = <<a, rtag>>
      <4>1. answers' = <<rtag>> BY <2>1, <3>1
      <4> QED BY <1>0, <2>2, <2>7, <3>1, <4>1, TxFrame DEF InAnswers, Phases, ReadPhase
    <3>2. CASE answers = <<rtag>> /\ (T2 \/ T3)
      <4>1. answers' = <<>> /\ recvbuf' = rtag BY <2>1, <3>2
      <4> QED BY <1>0, <2>3, <2>7, <3>2, <4>1, TxFrame DEF InAnswers, InMemory, Phases, ReadPhase
    <3> QED BY <2>1, <2>7, <3>1, <3>2 DEF InAnswers, T0, T1
  <2>8. ~InMemory BY <2>1 DEF InMemory, T4
  <2> QED BY <2>5, <2>6, <2>7, <2>8 DEF Phases, ReadPhase
<1>4. CASE TxDone
  <2> USE <1>4 DEF TxDone
  <2>1. /\ tx = "WRITTEN" /\ tx' = "IDLE" /\ UNCHANGED <<txList, txElem, answers, recvbuf>>
        /\ TxCauses' = TxCauses
    BY DEF TxCauses, app
  <2>2. (T0 => T0') /\ (T4 => T4') BY <1>0, <2>1 DEF T0, T4
  <2>3. ~TLeft /\ ~T1 /\ ~T2 /\ ~T3 BY <2>1 DEF TLeft, T1, T2, T3
  <2>4. Idle => Idle' BY <2>1, <2>2, <2>3 DEF Idle
  <2>5. CASE InBuffer
    <3>1. InBuffer' BY <2>4, <2>5, TxFrame, Zenon DEF InBuffer
    <3> QED BY <3>1, TxFrame DEF Phases, ReadPhase
  <2>6. CASE InInbox BY <1>0, <2>4, <2>6, TxFrame DEF InInbox, Phases, ReadPhase
  <2>7. CASE InAnswers
    BY <1>0, <2>1, <2>2, <2>3, <2>7, TxFrame DEF InAnswers, Phases, ReadPhase
  <2>8. CASE InMemory
    BY <1>0, <2>1, <2>2, <2>8, TxFrame DEF InMemory, Phases, ReadPhase
  <2> QED BY <2>5, <2>6, <2>7, <2>8 DEF Phases, ReadPhase
<1> QED BY <1>1, <1>2, <1>3, <1>4

LEMMA CardPhases ==
  ASSUME TypeInv, Phases, Card PROVE Phases'
<1>1. ~RxPartial BY DEF RxPartial, Phases, RxPhase
<1> QED
  BY <1>1, RxListReadPhases, RxFetchPhases, RxDonePhases, ExecutePhases, TxPhases DEF Card

(* The invariant from which the properties below follow: the phases hold   *)
(* until a caller gives up (sume_riffa.c).                                 *)
THEOREM TransferInvariant == Spec => []TransferInv
<1>1. Init => Phases BY InitPhases
<1>2. TypeInv /\ OneAtATime /\ (~gaveUp => Phases) /\ [Next]_vars => (~gaveUp => Phases)'
  <2> SUFFICES ASSUME TypeInv, OneAtATime, ~gaveUp => Phases, [Next]_vars, ~gaveUp'
               PROVE  Phases'
    OBVIOUS
  <2>1. Phases
    <3>1. ~gaveUp
      BY DEF Next, Caller, Initiate, Busy, Sent, StopSending, GiveUpSending,
             sume_read_reg_result, GiveUpReceiving, Sleep, Interrupt, Card, RxListRead, RxFetch,
             RxPartial, RxDone, Execute, TxNew, TxListRead, TxWrite, TxDone, vars
    <3> QED BY <3>1
  <2>2. CASE \E p \in Procs : Caller(p) BY <2>1, <2>2, CallerPhases
  <2>3. CASE Interrupt BY <2>1, <2>3, InterruptPhases
  <2>4. CASE Card BY <2>1, <2>4, CardPhases
  <2>5. CASE UNCHANGED vars
    <3> USE <2>1, <2>5 DEF vars, driver, cardRx, cardTx, app
    <3>1. RxPhase' /\ WritePhase' /\ Answered' /\ WriteDone' /\ CallerPhase'
      BY DEF Phases, RxPhase, RxQuiet, RxWaitsForList, RxHasList, WritePhase, Delivered,
             Answered, WriteDone, CallerPhase, Inside
    <3>2. ReadPhase'
      BY DEF Phases, ReadPhase, InBuffer, InInbox, InAnswers, InMemory, Fetched, Reading,
             AllWrites, Idle, T0, TLeft, T1, T2, T3, T4, TxCauses
    <3> QED BY <3>1, <3>2 DEF Phases
  <2> QED BY <2>2, <2>3, <2>4, <2>5 DEF Next
<1>3. TypeInv /\ OneAtATime /\ (~gaveUp => Phases) => TransferInv BY DEF TransferInv
<1> QED BY RegisterTypes, OneCaller, <1>1, <1>2, <1>3, PTL DEF Spec

(* Until some caller has given up, a register read that succeeds returns   *)
(* the answer to its own request, unless it took the value before the card *)
(* had written it; such a read hands no wrong answer to those after it.    *)
THEOREM ReadsOwnAnswer == Spec => []TimelyAnswer
<1>1. TransferInv => TimelyAnswer BY DEF TransferInv, Phases, Answered, TimelyAnswer
<1> QED BY TransferInvariant, <1>1, PTL

(* Until some caller has given up, a register write whose ioctl returns 0  *)
(* has reached the card.                                                   *)
THEOREM WritesReachCard == Spec => [](~gaveUp => WriteDone)
<1>1. TransferInv => (~gaveUp => WriteDone) BY DEF TransferInv, Phases
<1> QED BY TransferInvariant, <1>1, PTL

(* While nobody gives up, the bounce buffer holds still as long as the     *)
(* card has a request to fetch from it: it is written only when the        *)
(* channel is free, and then the transfer before is over.                  *)
THEOREM BufferHoldsStill == ASSUME Patient PROVE Spec => BufferStable
<1>1. TransferInv /\ ~gaveUp /\ [Next]_vars => [sendbuf' # sendbuf => rx = "IDLE"]_vars
  <2> SUFFICES ASSUME TransferInv, ~gaveUp, Next, sendbuf' # sendbuf PROVE rx = "IDLE" OBVIOUS
  <2>1. PICK p \in Procs, k \in Kinds : Initiate(p, k)
    BY DEF Next, Caller, Busy, Sent, StopSending, GiveUpSending, sume_read_reg_result,
           GiveUpReceiving, Sleep, Interrupt, Card, RxListRead, RxFetch, RxPartial, RxDone,
           Execute, TxNew, TxListRead, TxWrite, TxDone, driver
  <2> QED
    BY <2>1 DEF TransferInv, Phases, RxPhase, RxQuiet, RxWaitsForList, RxHasList, Initiate
<1>2. Init => ~gaveUp BY DEF Init
<1>3. ~gaveUp /\ [Next]_vars => ~gaveUp'
  BY DEF Next, Caller, Initiate, Busy, Sent, StopSending, GiveUpSending,
         sume_read_reg_result, GiveUpReceiving, Sleep, Interrupt, Card, RxListRead, RxFetch,
         RxPartial, RxDone, Execute, TxNew, TxListRead, TxWrite, TxDone, vars
<1> QED BY TransferInvariant, <1>1, <1>2, <1>3, PTL DEF Spec, BufferStable
=============================================================================
