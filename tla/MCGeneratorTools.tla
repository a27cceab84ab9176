-------------------------- MODULE MCGeneratorTools --------------------------
(* Two ports.  A typed delay of 10 ns is one tick, which the window shows   *)
(* as 6 ns, which is no tick; 50 ns are eight ticks and come back whole.    *)
EXTENDS GeneratorTools

MCPorts == <<0, 1>>
MCTraceWords == 3
MCRates == {2}
MCCounts == {2}
MCPositions == {7}
MCDelays == {10, 50}
MCTextValues == 0 .. 50

Zero == [q \in {0, 1} |-> 0]
NoLoad == [q \in {0, 1} |-> "none"]
Args == [clear |-> FALSE, load |-> NoLoad, rpn |-> Zero, ipg |-> Zero,
         txs |-> Zero, rxs |-> Zero, run |-> FALSE]

MCCalls == <<
  [Args EXCEPT !.load[0] = "plain", !.rpn[0] = 2, !.ipg[0] = 50, !.run = TRUE],
  [Args EXCEPT !.load = [q \in {0, 1} |-> IF q = 0 THEN "plain" ELSE "stamped"],
               !.txs[0] = 5, !.rxs[1] = 5],
  [Args EXCEPT !.rpn[1] = 3],
  [Args EXCEPT !.clear = TRUE] >>

(* The window alone: two uses of any control, or one and a refused access.  *)
(* Command lines alone, with a refused access.  The window beside a command *)
(* line: a typed count while a call sets counts, and both programs clearing *)
(* the engine at once.                                                      *)
Window(n, controls) == [opens |-> 1, ops |-> n, controls |-> controls, calls |-> 0,
                        given |-> {}, refusals |-> 0]
All == DOMAIN Program \union {"on_pcap_ts_enable"}

MCPlans == {
  Window(2, All),
  [Window(1, All) EXCEPT !.refusals = 1],
  [Window(0, {}) EXCEPT !.opens = 0, !.calls = 2, !.given = 1 .. 4, !.refusals = 1],
  [Window(1, {"on_replay_cnt_change"}) EXCEPT !.calls = 1, !.given = {3}],
  [Window(1, {"on_reset_pcap"}) EXCEPT !.calls = 1, !.given = {4}] }
=============================================================================
