------------------------------- MODULE MCMain -------------------------------
(* A keyboard with a letter, a cursor key, backspace and return.            *)
EXTENDS Main

MCKey  == {"a", "up", "bs", "cr"}
MCChar == {"a", "bs", "cr", "lf", "nul"}
MCLow  == [k \in MCKey |-> IF k = "up" THEN "nul" ELSE k]
=============================================================================
