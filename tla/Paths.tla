------------------------------- MODULE Paths -------------------------------
(***************************************************************************)
(* Path names: bstr_to_wstr(), which turns a C string into the CHAR16      *)
(* string the firmware wants, in one static buffer for all calls, and the  *)
(* firmware, which reads that string up to its terminator.                 *)
(*                                                                         *)
(* The buffer is cleared once, when the program is loaded: a conversion    *)
(* finds in it what longer paths have left there.                          *)
(***************************************************************************)
EXTENDS Integers, Sequences

CONSTANTS
  Char,     \* the bytes of a path: any but '\0'
  NUL,      \* '\0'
  Size,     \* sizeof(fres), 1024
  MaxPath   \* bound: length of the longest path

ASSUME PathsAssumption ==
  /\ NUL \notin Char
  /\ Size \in Nat /\ Size >= 4
  /\ MaxPath \in Nat

VARIABLES
  fres,   \* the static buffer, byte by byte
  input,  \* the path being converted, or converted last
  it,     \* index into it
  pc,     \* "idle", "copy", or "call": the firmware is going to be called
  name    \* history: the string the firmware has read last

pathVars == <<fres, input, it, pc, name>>

(* Variant: only the NUL of the last element is allowed for. *)
CapUnwidened == Size - 2

(* Variant: room for every element, and none for the terminator. *)
CapFull == Size \div 2

(* The number of characters that are converted at most, 510. *)
Cap == (Size \div 2) - 2

Init ==
  /\ fres = [i \in 0..(Size - 1) |-> NUL]
  /\ input = << >> /\ it = 0 /\ pc = "idle" /\ name = << >>

(* fd_stat(path), or a restart with a message. *)
bstr_to_wstr(path) ==
  /\ pc = "idle"
  /\ input' = path /\ it' = 0 /\ pc' = "copy"
  /\ UNCHANGED <<fres, name>>

CopyChar ==
  /\ pc = "copy" /\ it < Len(input) /\ it # Cap
  /\ fres' = [fres EXCEPT ![it * 2] = input[it + 1], ![it * 2 + 1] = NUL]
  /\ it' = it + 1
  /\ UNCHANGED <<input, pc, name>>

(* Variant: the static buffer is trusted to be clear behind the path. *)
TerminateNot ==
  /\ pc = "copy" /\ (it = Len(input) \/ it = Cap)
  /\ pc' = "call"
  /\ UNCHANGED <<fres, input, it, name>>

(* Variant: the terminator is stored by the loop. *)
TerminateAdvancing ==
  /\ pc = "copy" /\ (it = Len(input) \/ it = Cap)
  /\ fres' = [fres EXCEPT ![it * 2] = NUL, ![it * 2 + 1] = NUL]
  /\ it' = it + 1
  /\ pc' = "call"
  /\ UNCHANGED <<input, name>>

Terminate ==
  /\ pc = "copy" /\ (it = Len(input) \/ it = Cap)
  /\ fres' = [fres EXCEPT ![it * 2] = NUL, ![it * 2 + 1] = NUL]
  /\ pc' = "call"
  /\ UNCHANGED <<input, it, name>>

(* External: a CHAR16 string ends before its first zero element. *)
Element(i) == <<fres[i * 2], fres[i * 2 + 1]>>
Zero == <<NUL, NUL>>

WideString ==
  LET end == CHOOSE n \in 0..((Size \div 2) - 1) :
                Element(n) = Zero /\ \A j \in 0..(n - 1) : Element(j) # Zero
  IN  [i \in 1..end |-> Element(i - 1)]

(* Volume->Open, or OutputString; the answer does not matter here. *)
CallFirmware ==
  /\ pc = "call"
  /\ name' = WideString
  /\ pc' = "idle"
  /\ UNCHANGED <<fres, input, it>>

(* Paths of at most n bytes. *)
PathsUpTo(n) == UNION {[1..k -> Char] : k \in 0..n}

Next ==
  \/ \E path \in PathsUpTo(MaxPath) : bstr_to_wstr(path)
  \/ CopyChar \/ Terminate \/ CallFirmware

Spec == Init /\ [][Next]_pathVars

-----------------------------------------------------------------------------
PathTypeOK ==
  /\ fres \in [0..(Size - 1) -> Char \cup {NUL}]
  /\ input \in Seq(Char)
  /\ it \in 0..Len(input)
  /\ pc \in {"idle", "copy", "call"}
  /\ name \in Seq((Char \cup {NUL}) \X (Char \cup {NUL}))

(* Whatever bstr_to_wstr stores next, a character or the terminator, both  *)
(* bytes of it are inside the buffer, for paths of any length.             *)
ConversionInBounds == pc = "copy" => it * 2 + 1 \in DOMAIN fres

(* How much of a path the firmware gets to see. *)
CutLen(path) == IF Len(path) < Cap THEN Len(path) ELSE Cap

(* The firmware reads the path it was asked for and nothing of the longer  *)
(* ones before it; but a path that does not fit is cut off without an      *)
(* error, so that stat answers for the file its first 510 bytes name.      *)
FirmwareSeesCutPath ==
  pc = "idle" => name = [i \in 1..CutLen(input) |-> <<input[i], NUL>>]
=============================================================================
