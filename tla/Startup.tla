------------------------------ MODULE Startup ------------------------------
(***************************************************************************)
(* efi_main: the volume it looks for before it calls main, and what it     *)
(* makes of main's result.  GetVolume ignores the status of all its calls. *)
(***************************************************************************)
EXTENDS Process

VARIABLE
  volume   \* the static Volume: "open", or "garbage"

(* HandleProtocol fails, and what it has not written is followed; or only  *)
(* OpenVolume fails, and GetVolume returns a variable it has not written.  *)
GetVolume ==
  \/ volume = "garbage" /\ machine = "wild"
  \/ volume \in {"open", "garbage"} /\ machine = "running"

(* Not only the low byte of main's result counts. *)
main_returns(status) ==
  machine' = IF status # 0 THEN "END_OF_FILE" ELSE "SUCCESS"
=============================================================================
