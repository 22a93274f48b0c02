---------------------------- MODULE MCConsoleIn ----------------------------
(* A keyboard with one key of every kind the reading loop tells apart: a    *)
(* letter, backspace, return, Ctrl-J, and a wide character whose low byte   *)
(* is that of '\r' (U+010D).                                                *)
EXTENDS ConsoleIn

MCKey  == {"a", "bs", "cr", "lf", "wide"}
MCChar == {"a", "bs", "cr", "lf"}
MCLow  == [k \in MCKey |-> IF k = "wide" THEN "cr" ELSE k]
=============================================================================
