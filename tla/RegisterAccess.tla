---------------------------- MODULE RegisterAccess ----------------------------
(***************************************************************************)
(* Register access through sume_riffa.c: programs of the host (rdaxi,      *)
(* wraxi) call an ioctl, the driver hands a request to the card by DMA on  *)
(* RIFFA channel 1, an interrupt handler follows the transfer, and the     *)
(* answer to a read comes back by a second DMA transfer.                   *)
(*                                                                         *)
(* The parts that run side by side are the callers, the interrupt handler  *)
(* (atomic: it holds adapter->lock), the two halves of the RIFFA channel,  *)
(* and riffa_axi_lite.sv, which executes the requests.  A request carries  *)
(* a tag, and stands here for its address and value too.                   *)
(***************************************************************************)
EXTENDS Naturals, Sequences, FiniteSets

CONSTANTS
  Procs,       \* programs that may call the driver at the same time
  MaxTag,      \* bound on the requests of a behaviour
  Patient,     \* no caller is interrupted or times out
  QuickAnswer  \* an answer is in memory before an interrupt reports that
               \* the card has read where to put it

ASSUME RegisterAssumption ==
  /\ MaxTag \in Nat
  /\ Patient \in BOOLEAN /\ QuickAnswer \in BOOLEAN

VARIABLES
  pc, kind,           \* where each caller is, and what it asked for
  send, recv,         \* adapter->send[1]->state, adapter->recv[1]->state
  rtag,               \* adapter->send[1]->rtag, the newest tag
  sendbuf, recvbuf,   \* the bounce buffers
  vect,               \* pending interrupt causes
  rx, rxList, rxElem, rxPartial, rxDoneRead,   \* card: transfer from the host
  tx, txList, txElem, txDoneRead,              \* card: transfer to the host
  inbox, answers,     \* requests and answers between RIFFA and riffa_axi_lite
  done,               \* history: tags of the executed requests
  last,               \* history: the newest return of an ioctl
  gaveUp              \* history: some caller's wait has ended by a timeout or a signal

driver == <<send, recv, rtag, sendbuf>>
cardRx == <<rx, rxList, rxElem, rxPartial, rxDoneRead>>
cardTx == <<tx, txList, txElem, txDoneRead>>
app == <<inbox, answers, done>>
history == <<last, gaveUp>>
vars == <<pc, kind, driver, recvbuf, vect, cardRx, cardTx, app, history>>

Kinds == {"read", "write"}
Tags == 0 .. MaxTag
Request(t, k) == [tag |-> t, kind |-> k]
Return(p, r, t, got) ==
  [proc |-> p, kind |-> kind[p], res |-> r, tag |-> t, got |-> got,
   early |-> kind[p] = "read" /\ tx = "WRITE"]

Init ==
  /\ pc = [p \in Procs |-> "out"] /\ kind = [p \in Procs |-> "read"]
  /\ send = "IDLE" /\ recv = "IDLE" /\ rtag = 0
  /\ sendbuf = Request(0, "read") /\ recvbuf = 0
  /\ vect = {}
  /\ rx = "IDLE" /\ rxList = FALSE /\ rxElem = FALSE
  /\ rxPartial = FALSE /\ rxDoneRead = TRUE
  /\ tx = "IDLE" /\ txList = FALSE /\ txElem = FALSE /\ txDoneRead = TRUE
  /\ inbox = <<>> /\ answers = <<>> /\ done = {}
  /\ last = [proc |-> "none", kind |-> "read", res |-> "none", tag |-> 0, got |-> 0,
              early |-> FALSE] /\ gaveUp = FALSE

-----------------------------------------------------------------------------
(* The callers.                                                            *)

Inside(p) == pc[p] # "out"

(* sume_reg_wr_locked: tell the card the length and where the S/G list is. *)
(* The length starts a transfer when the card is idle; in the middle of    *)
(* one it asks for an early report of what has been received.              *)
sume_reg_wr_locked ==
  /\ send' = "READY"
  /\ rx' = IF rx = "IDLE" THEN "READ" ELSE rx
  /\ rxElem' = IF rx = "IDLE" THEN FALSE ELSE rxElem
  /\ rxPartial' = (rx # "IDLE")
  /\ rxList' = TRUE
  /\ UNCHANGED rxDoneRead

(* A definition named X_... is a plausible slip in X, kept to show that the *)
(* properties below notice it.                                             *)
Initiate_unchecked(p, k) ==
  /\ pc[p] = "out" /\ rtag < MaxTag
  /\ rtag' = rtag + 1
  /\ sendbuf' = Request(rtag + 1, k)
  /\ sume_reg_wr_locked
  /\ pc' = [pc EXCEPT ![p] = "sendLook"] /\ kind' = [kind EXCEPT ![p] = k]
  /\ UNCHANGED <<recv, recvbuf, vect, cardTx, app, history>>

(* sume_initiate_reg_write up to its wait.                                 *)
Initiate(p, k) ==
  /\ pc[p] = "out" /\ send = "IDLE" /\ rtag < MaxTag
  /\ rtag' = rtag + 1
  /\ sendbuf' = Request(rtag + 1, k)
  /\ sume_reg_wr_locked
  /\ pc' = [pc EXCEPT ![p] = "sendLook"] /\ kind' = [kind EXCEPT ![p] = k]
  /\ UNCHANGED <<recv, recvbuf, vect, cardTx, app, history>>

Busy(p, k) ==
  /\ pc[p] = "out" /\ send # "IDLE"
  /\ last' = [proc |-> p, kind |-> k, res |-> "EBUSY", tag |-> 0, got |-> 0,
              early |-> FALSE]
  /\ UNCHANGED <<pc, kind, driver, recvbuf, vect, cardRx, cardTx, app, gaveUp>>

(* The first wait ends because the card has fetched the request: a write   *)
(* is over, a read goes on to wait for its answer.                         *)
Sent(p) ==
  /\ pc[p] = "sendLook" /\ send = "LEN"
  /\ IF kind[p] = "write"
     THEN /\ send' = "IDLE" /\ last' = Return(p, "ok", rtag, 0)
          /\ pc' = [pc EXCEPT ![p] = "out"]
     ELSE /\ pc' = [pc EXCEPT ![p] = "recvLook"] /\ UNCHANGED <<send, last>>
  /\ UNCHANGED <<kind, recv, rtag, sendbuf, recvbuf, vect, cardRx, cardTx, app, gaveUp>>

(* A timeout or a signal ends the first wait; the caller then takes the    *)
(* lock, which the interrupt handler may have had in between, and gives    *)
(* the channel back.  A write returns 0 all the same.                      *)
StopSending(p) ==
  /\ ~Patient
  /\ pc[p] = "sendSleep" /\ pc' = [pc EXCEPT ![p] = "sendQuit"]
  /\ gaveUp' = TRUE
  /\ UNCHANGED <<kind, driver, recvbuf, vect, cardRx, cardTx, app, last>>

GiveUpSending(p) ==
  /\ pc[p] = "sendQuit"
  /\ send' = "IDLE"
  /\ last' = Return(p, IF kind[p] = "write" THEN "ok" ELSE "ERESTARTSYS", rtag, 0)
  /\ pc' = [pc EXCEPT ![p] = "out"]
  /\ UNCHANGED <<kind, recv, rtag, sendbuf, recvbuf, vect, cardRx, cardTx, app, gaveUp>>

(* The slips of forgetting to close the receiving side, and to free the     *)
(* sending side.                                                           *)
sume_read_reg_result_keepsSend(p) ==
  /\ pc[p] = "recvLook" /\ recv = "READ"
  /\ recv' = "IDLE"
  /\ last' = Return(p, "ok", rtag, recvbuf)
  /\ pc' = [pc EXCEPT ![p] = "out"]
  /\ UNCHANGED <<kind, send, rtag, sendbuf, recvbuf, vect, cardRx, cardTx, app, gaveUp>>

sume_read_reg_result_keepsRecv(p) ==
  /\ pc[p] = "recvLook" /\ recv = "READ"
  /\ send' = "IDLE"
  /\ last' = Return(p, "ok", rtag, recvbuf)
  /\ pc' = [pc EXCEPT ![p] = "out"]
  /\ UNCHANGED <<kind, recv, rtag, sendbuf, recvbuf, vect, cardRx, cardTx, app, gaveUp>>

(* sume_read_reg_result: take the value from the bounce buffer; a tag that *)
(* is not the request's is only reported in the kernel log.                *)
sume_read_reg_result(p) ==
  /\ pc[p] = "recvLook" /\ recv = "READ"
  /\ recv' = "IDLE" /\ send' = "IDLE"
  /\ last' = Return(p, "ok", rtag, recvbuf)
  /\ pc' = [pc EXCEPT ![p] = "out"]
  /\ UNCHANGED <<kind, rtag, sendbuf, recvbuf, vect, cardRx, cardTx, app, gaveUp>>

(* A timeout or a signal ends the second wait.                             *)
GiveUpReceiving_never(p) == FALSE

GiveUpReceiving(p) ==
  /\ ~Patient
  /\ pc[p] = "recvSleep"
  /\ last' = Return(p, "ERESTARTSYS", rtag, 0) /\ gaveUp' = TRUE
  /\ pc' = [pc EXCEPT ![p] = "out"]
  /\ UNCHANGED <<kind, driver, recvbuf, vect, cardRx, cardTx, app>>

(* wait_event: the condition is looked at on arrival and after a wake-up.  *)
Sleep(p) ==
  /\ \/ pc[p] = "sendLook" /\ send # "LEN" /\ pc' = [pc EXCEPT ![p] = "sendSleep"]
     \/ pc[p] = "recvLook" /\ recv # "READ" /\ pc' = [pc EXCEPT ![p] = "recvSleep"]
  /\ UNCHANGED <<kind, driver, recvbuf, vect, cardRx, cardTx, app, history>>

Caller(p) ==
  \/ \E k \in Kinds : Initiate(p, k) \/ Busy(p, k)
  \/ Sent(p) \/ StopSending(p) \/ GiveUpSending(p)
  \/ sume_read_reg_result(p) \/ GiveUpReceiving(p)
  \/ Sleep(p)

-----------------------------------------------------------------------------
(* sume_intr_handler: reads and clears the causes, and follows the two     *)
(* transfers as far as the causes allow.  A cause that does not fit the    *)
(* state is dropped.                                                       *)

SendNext_onList ==
  IF send \in {"READY", "READ"} /\ vect \cap {"RX_SG_BUF_RECVD", "RX_TXN_DONE"} # {}
  THEN "LEN" ELSE send

SendNext ==
  LET listed == IF send = "READY" /\ "RX_SG_BUF_RECVD" \in vect THEN "READ" ELSE send
  IN IF listed = "READ" /\ "RX_TXN_DONE" \in vect THEN "LEN" ELSE listed

SendEnds == SendNext = "LEN" /\ send # "LEN"

RecvNext ==
  LET opened == IF recv = "IDLE" /\ "TX_TXN" \in vect THEN "READY" ELSE recv
  IN IF opened = "READY" /\ "TX_SG_BUF_RECVD" \in vect THEN "READ" ELSE opened

RecvOpens == recv = "IDLE" /\ "TX_TXN" \in vect

RecvEnds == RecvNext = "READ" /\ "TX_TXN_DONE" \in vect

(* wake_up_interruptible on one of the two wait queues.                    *)
Woken_receiversOnly ==
  [p \in Procs |->
     IF RecvEnds /\ pc[p] = "recvSleep" THEN "recvLook" ELSE pc[p]]

Woken ==
  [p \in Procs |->
     IF SendEnds /\ pc[p] = "sendSleep" THEN "sendLook"
     ELSE IF RecvEnds /\ pc[p] = "recvSleep" THEN "recvLook"
     ELSE pc[p]]

Interrupt ==
  /\ vect # {} /\ vect' = {}
  /\ QuickAnswer => ("TX_SG_BUF_RECVD" \in vect => "TX_TXN_DONE" \in vect)
  /\ send' = SendNext /\ recv' = RecvNext
  /\ pc' = Woken
  /\ rxDoneRead' = (rxDoneRead \/ SendEnds)
  /\ tx' = IF RecvOpens /\ tx = "NEW_ACK" THEN "WRITE" ELSE tx
  /\ txElem' = IF RecvOpens THEN FALSE ELSE txElem
  /\ txList' = (txList \/ RecvOpens)
  /\ txDoneRead' = (txDoneRead \/ RecvEnds)
  /\ UNCHANGED <<kind, rtag, sendbuf, recvbuf, rx, rxList, rxElem, rxPartial, app, history>>

-----------------------------------------------------------------------------
(* The card, host to card: rx_port_reader.v and sg_list_requester.v.       *)

RxListRead ==
  /\ rxList /\ rxList' = FALSE /\ rxElem' = TRUE
  /\ vect' = vect \cup {"RX_SG_BUF_RECVD"}
  /\ UNCHANGED <<pc, kind, driver, recvbuf, rx, rxPartial, rxDoneRead, cardTx, app, history>>

(* The words are fetched from the bounce buffer as it is now.              *)
RxFetch ==
  /\ rx = "READ" /\ rxElem
  /\ rx' = "FETCHED" /\ rxElem' = FALSE
  /\ inbox' = Append(inbox, sendbuf)
  /\ UNCHANGED <<pc, kind, driver, recvbuf, vect, rxList, rxPartial, rxDoneRead, cardTx,
                 answers, done, history>>

RxPartial ==
  /\ rx = "FETCHED" /\ rxPartial /\ rxPartial' = FALSE
  /\ vect' = vect \cup {"RX_TXN_DONE"}
  /\ UNCHANGED <<pc, kind, driver, recvbuf, rx, rxList, rxElem, rxDoneRead, cardTx, app, history>>

(* The end is reported once the driver has read the length of the previous *)
(* transfer.                                                               *)
RxDone ==
  /\ rx = "FETCHED" /\ rxDoneRead
  /\ rx' = "IDLE" /\ rxPartial' = FALSE /\ rxDoneRead' = FALSE
  /\ vect' = vect \cup {"RX_TXN_DONE"}
  /\ UNCHANGED <<pc, kind, driver, recvbuf, rxList, rxElem, cardTx, app, history>>

(* riffa_axi_lite.sv: a write is performed, a read is answered.            *)
Execute ==
  /\ inbox # <<>> /\ inbox' = Tail(inbox)
  /\ done' = done \cup {Head(inbox).tag}
  /\ answers' = IF Head(inbox).kind = "read" THEN Append(answers, Head(inbox).tag)
                ELSE answers
  /\ UNCHANGED <<pc, kind, driver, recvbuf, vect, cardRx, cardTx, history>>

(* Card to host: tx_port_writer.v.                                         *)
TxNew ==
  /\ tx = "IDLE" /\ answers # <<>>
  /\ tx' = "NEW_ACK"
  /\ vect' = vect \cup {"TX_TXN"}
  /\ UNCHANGED <<pc, kind, driver, recvbuf, cardRx, txList, txElem, txDoneRead, app, history>>

TxListRead ==
  /\ txList /\ txList' = FALSE /\ txElem' = TRUE
  /\ vect' = vect \cup {"TX_SG_BUF_RECVD"}
  /\ UNCHANGED <<pc, kind, driver, recvbuf, cardRx, tx, txDoneRead, app, history>>

TxWrite ==
  /\ tx = "WRITE" /\ txElem /\ answers # <<>>
  /\ tx' = "WRITTEN" /\ txElem' = FALSE
  /\ recvbuf' = Head(answers) /\ answers' = Tail(answers)
  /\ UNCHANGED <<pc, kind, driver, vect, cardRx, txList, txDoneRead, inbox, done, history>>

TxDone ==
  /\ tx = "WRITTEN" /\ txDoneRead
  /\ tx' = "IDLE" /\ txDoneRead' = FALSE
  /\ vect' = vect \cup {"TX_TXN_DONE"}
  /\ UNCHANGED <<pc, kind, driver, recvbuf, cardRx, txList, txElem, app, history>>

Card == RxListRead \/ RxFetch \/ RxPartial \/ RxDone \/ Execute
          \/ TxNew \/ TxListRead \/ TxWrite \/ TxDone

Next == (\E p \in Procs : Caller(p)) \/ Interrupt \/ Card

Spec == Init /\ [][Next]_vars

(* The card works on, its interrupts are served, and a caller that can run *)
(* does; whether a program calls again is its own affair.                  *)
Returns(p) == Sent(p) \/ StopSending(p) \/ GiveUpSending(p) \/ sume_read_reg_result(p)
                \/ GiveUpReceiving(p) \/ Sleep(p)

FairSpec ==
  /\ Spec
  /\ WF_vars(Interrupt)
  /\ WF_vars(RxListRead) /\ WF_vars(RxFetch) /\ WF_vars(RxPartial) /\ WF_vars(RxDone)
  /\ WF_vars(Execute)
  /\ WF_vars(TxNew) /\ WF_vars(TxListRead) /\ WF_vars(TxWrite) /\ WF_vars(TxDone)
  /\ \A p \in Procs : WF_vars(Returns(p))

-----------------------------------------------------------------------------
ChannelStates == {"IDLE", "READY", "READ", "LEN"}
Causes == {"TX_TXN", "TX_SG_BUF_RECVD", "TX_TXN_DONE", "RX_SG_BUF_RECVD", "RX_TXN_DONE"}

TypeOK ==
  /\ pc \in [Procs -> {"out", "sendLook", "sendSleep", "sendQuit", "recvLook", "recvSleep"}]
  /\ kind \in [Procs -> Kinds]
  /\ send \in ChannelStates /\ recv \in ChannelStates \ {"LEN"}
  /\ rtag \in Tags /\ sendbuf \in [tag : Tags, kind : Kinds] /\ recvbuf \in Tags
  /\ vect \subseteq Causes
  /\ rx \in {"IDLE", "READ", "FETCHED"} /\ tx \in {"IDLE", "NEW_ACK", "WRITE", "WRITTEN"}

(* The ioctls take the register channel one at a time although each sleeps *)
(* without the lock (sume_initiate_reg_write, EBUSY): no two callers are   *)
(* inside, and while one is, the channel is not free.                      *)
OneAtATime ==
  /\ \A p, q \in Procs : Inside(p) /\ Inside(q) => p = q
  /\ (\E p \in Procs : Inside(p)) => send # "IDLE"

(* A read that succeeds returns the answer to its own request, never one   *)
(* left over from an earlier request.                                      *)
OwnAnswer == last.kind = "read" /\ last.res = "ok" => last.got = last.tag

(* The same without conditions on the card or on how long callers wait: as  *)
(* long as no wait has been given up, a read returns the answer of another   *)
(* request only if it took the value while the card still had an answer to   *)
(* write (sume_read_reg_result waits for READ, which the handler sets when   *)
(* the list is read).  Such a read may keep the next from ending in time, but  *)
(* hands no wrong answer to it.                                              *)
TimelyAnswer ==
  ~gaveUp /\ last.kind = "read" /\ last.res = "ok" /\ ~last.early => last.got = last.tag

(* A write whose ioctl returns 0 has been handed to the card, in full and  *)
(* as it was asked.                                                        *)
Delivered(t) == t \in done \/ \E i \in 1 .. Len(inbox) : inbox[i].tag = t
WriteDone == last.kind = "write" /\ last.res = "ok" => Delivered(last.tag)

(* The bounce buffer is not overwritten while the card still has to fetch  *)
(* the request in it.                                                      *)
BufferStable == [][ sendbuf' # sendbuf => rx = "IDLE" ]_vars

(* No caller waits for ever, and the register channel never stays taken.   *)
CallsReturn == \A p \in Procs : Inside(p) ~> ~Inside(p)
ChannelFreed == send # "IDLE" ~> send = "IDLE"
=============================================================================
