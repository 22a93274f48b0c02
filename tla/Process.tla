------------------------------ MODULE Process ------------------------------
(***************************************************************************)
(* The one process there is, and the power state of the machine under it:  *)
(* exit, kill and reboot.  The firmware may refuse BS->Exit and then comes *)
(* back from it; ResetSystem is written as if it could come back as well.  *)
(***************************************************************************)
EXTENDS Kernel

CONSTANTS
  Pid,      \* process numbers programs pass to kill
  Signal,   \* signals they pass
  Status    \* exit statuses

EMU_PID == 2
EMU_UID == 1000
EMU_GID == 1000

ASSUME ProcessAssumption ==
  Pid \subseteq Int /\ Signal \subseteq Int /\ Status \subseteq Int

VARIABLE
  machine   \* "running", or how it ended: with the status handed to BS->Exit,
            \* "hung" in an endless loop, "halted", "off" or "restarted"; or it
            \* may do anything, because it has followed a null pointer ("null")
            \* or one that nobody has written ("wild")

Pointer == {"valid", "null"}

(* BS->Exit(status): the image is gone, unless the firmware refuses. *)
BsExit(status, refused) == machine' \in {status, refused}

(* It returns if the firmware refuses, and the call then answers 0. *)
proc_exit(status) ==
  /\ BsExit(IF status # 0 THEN "END_OF_FILE" ELSE "SUCCESS", "running")
  /\ ret' = 0

proc_abort == BsExit("ABORTED", "hung")

(* Variant: no endless loop behind proc_abort, which may come back. *)
proc_kill_returning(pid, sig) ==
  LET error == IF pid = EMU_PID - 1 THEN EPERM
               ELSE IF pid # EMU_PID THEN ESRCH
               ELSE IF sig >= 30 THEN EINVAL ELSE 0
  IN  IF error # 0
        THEN ret' = -error /\ UNCHANGED machine
        ELSE BsExit("ABORTED", "running") /\ ret' = 0

(* Signal 0, the probe, aborts like any other. *)
proc_kill(pid, sig) ==
  LET error == IF pid = EMU_PID - 1 THEN EPERM
               ELSE IF pid # EMU_PID THEN ESRCH
               ELSE IF sig >= 30 THEN EINVAL ELSE 0
  IN  IF error # 0
        THEN ret' = -error /\ UNCHANGED machine
        ELSE proc_abort /\ UNCHANGED ret

Magic == {"right", "wrong"}

RebootCmd == {"CAD_OFF", "CAD_ON", "HALT", "KEXEC", "SW_SUSPEND", "POWER_OFF",
              "RESTART", "RESTART2", "unknown"}

(* What a command does to the machine; the rest are refused. *)
PowerState ==
  [c \in {"POWER_OFF", "RESTART", "RESTART2"} |->
     IF c = "POWER_OFF" THEN "off" ELSE "restarted"]

(* A restart with a message converts the string arg before anything else. *)
power_reboot(magic1, magic2, cmd, arg) ==
  IF magic1 = "wrong" \/ magic2 = "wrong" \/ cmd \notin DOMAIN PowerState \cup {"HALT"}
    THEN ret' = -EINVAL /\ UNCHANGED machine
  ELSE IF cmd = "HALT"
    THEN machine' = "halted" /\ UNCHANGED ret
  ELSE IF cmd = "RESTART2" /\ arg = "null"
    THEN machine' = "null" /\ UNCHANGED ret
  ELSE machine' \in {PowerState[cmd], "running"} /\ ret' = 0
=============================================================================
