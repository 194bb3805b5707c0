------------------------- MODULE MCStatePublisher --------------------------
(* TLC instance of StatePublisher: one scalar and one repeated signal, two *)
(* values each, and the code's own timing constants except the idle       *)
(* trigger, scaled from 600000 ms down to three ticks so that the idle    *)
(* switch happens within the explored behaviours.                        *)
EXTENDS StatePublisher


MCSeqValues == {<<1>>, <<1, 2>>}
=============================================================================
