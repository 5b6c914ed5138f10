---------------------------- MODULE MCCommands -----------------------------
(* Commands with the lengths at the limits of the code.                    *)
EXTENDS Commands

MCDatas == {1, 300, 512}
MCVerdicts == {0, 1, -1, -57}
============================================================================
