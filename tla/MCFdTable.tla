----------------------------- MODULE MCFdTable -----------------------------
(* The table at its real size, three handles, and descriptors on both sides *)
(* of every limit the handlers check: below 0, the console, 3 and 4, 16 and *)
(* 17 (the limit they check), 19 and 20 (the end of the table).             *)
EXTENDS FdTable

MCFdArg == {-1, 0, 1, 3, 4, 5, 16, 17, 19, 20}
=============================================================================
