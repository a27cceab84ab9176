---------------------------- MODULE MCPacketCutter ----------------------------
(* Words of 4 units, a hash of 2, the least cut 8: the proportions of the   *)
(* code's 32, 16 and 64.                                                    *)
EXTENDS PacketCutter

ASSUME MCLengthFits == LengthFits
=============================================================================
