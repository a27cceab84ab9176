--------------------------- MODULE FallthroughFifo ---------------------------
(***************************************************************************)
(* fallthrough_small_fifo.v and the small_fifo.v it wraps: the word buffer *)
(* of every datapath core of OSNT-SUME.                                    *)
(*                                                                         *)
(* small_fifo is a ring in block RAM whose output register is loaded one   *)
(* clock after the read; the wrapper adds two registers so that a reader   *)
(* sees the oldest word on dout before it raises rd_en.  A word therefore  *)
(* travels ring -> fifo_dout -> middle_dout -> dout, and may skip the      *)
(* middle register.  One action is one clock edge: all registers change    *)
(* together, from the values of the wires before the edge.                 *)
(***************************************************************************)
EXTENDS Integers, Sequences

CONSTANTS
  Data,       \* the words that may be written
  Zero,       \* the word a reset loads into the data registers
  MAX_DEPTH,  \* the slots of the ring, 2**MAX_DEPTH_BITS
  MaxPushed   \* bound on the words written between two resets

ASSUME DepthAssumption == MAX_DEPTH \in Nat \ {0}
ASSUME BoundAssumption == MaxPushed \in Nat
ASSUME ZeroAssumption == Zero \in Data

VARIABLES
  queue, rd_ptr, wr_ptr, depth,           \* small_fifo
  fifo_dout,                              \* its output register
  fifo_valid, middle_valid, dout_valid,   \* the wrapper's valid bits
  middle_dout, dout,                      \* and data registers
  pushed, popped                          \* history: words written, words read

ring == <<queue, rd_ptr, wr_ptr, depth, fifo_dout>>
stages == <<fifo_valid, middle_valid, dout_valid, middle_dout, dout>>
vars == <<ring, stages, pushed, popped>>

Slots == 0 .. MAX_DEPTH - 1

-----------------------------------------------------------------------------
(* The flags a user of the FIFO sees. *)

full == depth = MAX_DEPTH
nearly_full == depth >= MAX_DEPTH - 1
empty == ~dout_valid

-----------------------------------------------------------------------------
(* The wrapper's wires.  A definition named X_... is a plausible slip in X, *)
(* kept to show that the properties below notice it.                       *)

will_update_dout_late(rd_en) == (middle_valid \/ fifo_valid) /\ rd_en

will_update_dout(rd_en) == (middle_valid \/ fifo_valid) /\ (rd_en \/ ~dout_valid)

will_update_middle_ifFree(rd_en) == fifo_valid /\ ~middle_valid

will_update_middle(rd_en) == fifo_valid /\ (middle_valid = will_update_dout(rd_en))

fifo_rd_en_always == depth # 0

fifo_rd_en == depth # 0 /\ ~(middle_valid /\ dout_valid /\ fifo_valid)

(* Pointers are MAX_DEPTH_BITS wide: they wrap. *)
Wrap(p) == IF p >= MAX_DEPTH THEN p - MAX_DEPTH ELSE p

Bit(b) == IF b THEN 1 ELSE 0

-----------------------------------------------------------------------------
Init ==
  /\ queue \in [Slots -> Data]            \* the RAM has no reset
  /\ rd_ptr = 0 /\ wr_ptr = 0 /\ depth = 0
  /\ fifo_dout \in Data /\ middle_dout \in Data /\ dout \in Data
  /\ fifo_valid = FALSE /\ middle_valid = FALSE /\ dout_valid = FALSE
  /\ pushed = <<>> /\ popped = 0

(* The ring's clock edge: `read' is its rd_en. *)
RingEdge(wr_en, din, read) ==
  /\ queue' = IF wr_en THEN [queue EXCEPT ![wr_ptr] = din] ELSE queue
  /\ fifo_dout' = IF read THEN queue[rd_ptr] ELSE fifo_dout
  /\ wr_ptr' = IF wr_en THEN Wrap(wr_ptr + 1) ELSE wr_ptr
  /\ rd_ptr' = IF read THEN Wrap(rd_ptr + 1) ELSE rd_ptr
  /\ depth' = depth + Bit(wr_en) - Bit(read)

(* The wrapper's clock edge. *)
StageEdge(rd_en) ==
  LET wum == will_update_middle(rd_en)
      wud == will_update_dout(rd_en)
  IN /\ middle_dout' = IF wum THEN fifo_dout ELSE middle_dout
     /\ dout' = IF wud THEN (IF middle_valid THEN middle_dout ELSE fifo_dout)
                ELSE dout
     /\ fifo_valid' = (fifo_rd_en \/ (fifo_valid /\ ~(wum \/ wud)))
     /\ middle_valid' = (wum \/ (middle_valid /\ ~wud))
     /\ dout_valid' = (wud \/ (dout_valid /\ ~rd_en))

(* A clock edge with the user's wr_en, din and rd_en.  Users write only    *)
(* while the FIFO is not full, the condition small_fifo.v reports as an    *)
(* error otherwise; a read of an empty FIFO returns nothing.               *)
Clock(wr_en, din, rd_en) ==
  /\ wr_en => ~full /\ Len(pushed) < MaxPushed
  /\ RingEdge(wr_en, din, fifo_rd_en)
  /\ StageEdge(rd_en)
  /\ pushed' = IF wr_en THEN Append(pushed, din) ELSE pushed
  /\ popped' = IF rd_en /\ dout_valid THEN popped + 1 ELSE popped

Reset_keepsMiddle(wr_en, din) ==
  /\ rd_ptr' = 0 /\ wr_ptr' = 0 /\ depth' = 0
  /\ fifo_valid' = FALSE /\ dout_valid' = FALSE
  /\ middle_dout' = Zero /\ dout' = Zero
  /\ pushed' = <<>> /\ popped' = 0
  /\ UNCHANGED <<queue, fifo_dout, middle_valid>>

(* A clock edge with reset high.  The RAM and its output register are not  *)
(* under the reset: a write or a read in that cycle still changes them.    *)
Reset(wr_en, din) ==
  /\ rd_ptr' = 0 /\ wr_ptr' = 0 /\ depth' = 0
  /\ queue' = IF wr_en THEN [queue EXCEPT ![wr_ptr] = din] ELSE queue
  /\ fifo_dout' = IF fifo_rd_en THEN queue[rd_ptr] ELSE fifo_dout
  /\ fifo_valid' = FALSE /\ middle_valid' = FALSE /\ dout_valid' = FALSE
  /\ middle_dout' = Zero /\ dout' = Zero
  /\ pushed' = <<>> /\ popped' = 0

Next ==
  \/ \E wr_en, rd_en \in BOOLEAN, din \in Data : Clock(wr_en, din, rd_en)
  \/ \E wr_en \in BOOLEAN, din \in Data : Reset(wr_en, din)

Spec == Init /\ [][Next]_vars

(* The clock never stops; nothing is assumed of the reader or the writer.  *)
FairSpec == Spec /\ WF_vars(\E wr_en, rd_en \in BOOLEAN, din \in Data :
                              Clock(wr_en, din, rd_en))

-----------------------------------------------------------------------------
(* The words the FIFO holds, oldest first: what a user is promised.        *)
If(b, w) == IF b THEN <<w>> ELSE <<>>

Contents ==
  If(dout_valid, dout) \o If(middle_valid, middle_dout)
    \o If(fifo_valid, fifo_dout)
    \o [i \in 1 .. depth |-> queue[Wrap(rd_ptr + i - 1)]]

Staged == Bit(fifo_valid) + Bit(middle_valid) + Bit(dout_valid)

TypeOK ==
  /\ queue \in [Slots -> Data]
  /\ rd_ptr \in Slots /\ wr_ptr \in Slots /\ depth \in 0 .. MAX_DEPTH
  /\ fifo_dout \in Data /\ middle_dout \in Data /\ dout \in Data
  /\ fifo_valid \in BOOLEAN /\ middle_valid \in BOOLEAN /\ dout_valid \in BOOLEAN
  /\ pushed \in Seq(Data) /\ popped \in Nat

(* The word offered on dout is the next one in the order of writing: no    *)
(* interleaving of writes, reads and the two internal moves loses,         *)
(* duplicates or reorders a word (fallthrough_small_fifo.v, always block). *)
InOrder == dout_valid => popped < Len(pushed) /\ dout = pushed[popped + 1]

(* Every word written and not yet read is in the ring or in exactly one    *)
(* register (the depth counter and the three valid bits agree).            *)
NothingLost == depth + Staged = Len(pushed) - popped

(* The FIFO implements the bounded queue of AbstractFifo; the registers    *)
(* add three places to the ring.                                           *)
Queue == INSTANCE AbstractFifo
           WITH Capacity <- MAX_DEPTH + 3, items <- Contents
ImplementsQueue == Queue!Spec

(* A word in the FIFO reaches dout without any help from the reader, the   *)
(* `fallthrough' of the header comment, unless a reset drops it.           *)
FallsThrough == (popped < Len(pushed)) ~> (dout_valid \/ popped = Len(pushed))

-----------------------------------------------------------------------------
(* The inductive invariant: where each unread word is.                     *)
RegistersInOrder ==
  /\ middle_valid => dout_valid
  /\ dout_valid => dout = pushed[popped + 1]
  /\ middle_valid => middle_dout = pushed[popped + 2]
  /\ fifo_valid => fifo_dout = pushed[popped + Staged]

RingInOrder ==
  /\ wr_ptr = Wrap(rd_ptr + depth)
  /\ \A i \in 0 .. depth - 1 :
       queue[Wrap(rd_ptr + i)] = pushed[popped + Staged + i + 1]

FifoInv == TypeOK /\ NothingLost /\ RegistersInOrder /\ RingInOrder
=============================================================================
