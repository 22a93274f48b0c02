---------------------------- MODULE MCConsoleOut ----------------------------
(* ConsoleOut on two plain bytes (one of them '\r'), buffers of up to three *)
(* bytes and two library calls.                                             *)
EXTENDS ConsoleOut
=============================================================================
