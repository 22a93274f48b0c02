----------------------------- MODULE MCGetLine -----------------------------
(* A keyboard with a letter, backspace and return, for lines ended by a     *)
(* newline or by the letter.                                                *)
EXTENDS GetLine

MCKey  == {"a", "bs", "cr"}
MCChar == {"a", "bs", "cr", "lf", "nul"}
MCLow  == [k \in MCKey |-> k]
=============================================================================
