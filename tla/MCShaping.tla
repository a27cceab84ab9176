------------------------------ MODULE MCShaping ------------------------------
(* A file of three packets captured 1 and then 3 ticks apart, and one of a  *)
(* single packet that does not fit a FIFO.                                  *)
EXTENDS Shaping

MCTraces == { << [words |-> 2, time |-> 0], [words |-> 1, time |-> 1],
                 [words |-> 1, time |-> 4] >>,
              << [words |-> 3, time |-> 0] >> }

ASSUME MCInPackets == InPackets
=============================================================================
