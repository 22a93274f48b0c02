----------------------------- MODULE MCHandlers -----------------------------
(* Three parts of linux-uefi.c that share no state, in one run that picks   *)
(* one of them at the start.                                                *)
(*                                                                          *)
(* The files: the table at its real size and three handles (MCFdTable has   *)
(* the descriptors).                                                        *)
(*                                                                          *)
(* The clock: the years around everything the conversion decides on: 1980   *)
(* (a leap year before the limit of the workaround), the limit itself, 2038 *)
(* and 2039 (the end of the fast path), the centuries 2100, 2200 and 2300,  *)
(* and 2400.                                                                *)
(*                                                                          *)
(* The paths: a buffer for three characters and paths of up to five, so     *)
(* that a path may be shorter than the buffer, fill it or be cut, after any *)
(* other.                                                                   *)
EXTENDS MCFdTable, EfiTime, Paths

VARIABLE handler   \* the part that runs

handlersVars == <<handler, fdVars, timeVars, pathVars>>

MCYears ==
  {1979, 1980, 1981} \cup (1999..2005) \cup (2036..2041) \cup (2099..2101)
  \cup (2199..2201) \cup (2299..2301) \cup (2399..2401) \cup {9999}

MCTimesOfDay == {<<0, 0, 0>>, <<23, 59, 59>>}

(* A clock nobody looks at stands still. *)
HandlersInit ==
  /\ handler \in {"files", "clock", "paths"}
  /\ FdInit /\ TimeInit /\ Init
  /\ handler # "clock" => Year = 2001 /\ tod = <<0, 0, 0>>

(* To keep old values of tv from multiplying the states, the program reads  *)
(* the clock after each of its movements.                                   *)
Polling == read = "stale" => read' # "stale"

HandlersNext ==
  /\ UNCHANGED handler
  /\ \/ handler = "files" /\ FdNext /\ UNCHANGED <<timeVars, pathVars>>
     \/ handler = "clock" /\ TimeNext /\ Polling /\ UNCHANGED <<fdVars, pathVars>>
     \/ handler = "paths" /\ Next /\ UNCHANGED <<fdVars, timeVars>>

HandlersSpec == HandlersInit /\ [][HandlersNext]_handlersVars
=============================================================================
