---------------------------- MODULE MCControlsDay ---------------------------
(***************************************************************************)
(* Instances of ControlsDay for TLC.                                       *)
(***************************************************************************)
EXTENDS ControlsDay

Win(h1, m1, h2, m2) == [Start |-> [Hour |-> h1, Minute |-> m1],
                        End   |-> [Hour |-> h2, Minute |-> m2]]

MCTariff == {[tou |-> Win(1, 3, 0, 1), assertToU |-> TRUE, enabled |-> TRUE]}

MCNoTariff == {[tou |-> NoWindow, assertToU |-> FALSE, enabled |-> TRUE]}
=============================================================================
