----------------------------- MODULE MCControls -----------------------------
(***************************************************************************)
(* The instance of Controls for TLC, over a day of eight minutes.          *)
(***************************************************************************)
EXTENDS Controls

Win(h1, m1, h2, m2) == [Start |-> [Hour |-> h1, Minute |-> m1],
                        End   |-> [Hour |-> h2, Minute |-> m2]]

\* A tariff across midnight, so that it needs both slots; no tariff; and the
\* tariff with the controls switched off.
MCConfigs == {[tou |-> Win(1, 3, 0, 1), assertToU |-> TRUE, enabled |-> TRUE],
              [tou |-> NoWindow, assertToU |-> FALSE, enabled |-> TRUE],
              [tou |-> Win(1, 3, 0, 1), assertToU |-> TRUE, enabled |-> FALSE]}

\* Currents on either side of the clamp.
MCRequests == {-100, 9000}

MCAppWindows == {NoWindow, Win(0, 3, 1, 2)}
=============================================================================
