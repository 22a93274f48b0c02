----------------------------- MODULE LineInput -----------------------------
(***************************************************************************)
(* What reading a line promises its caller: the keys are consumed in the   *)
(* order they were pressed, each becomes the next byte of the line, and    *)
(* the line ends with the first byte that equals the delimiter.  A         *)
(* backspace becomes some byte, nobody knows which; a keyboard that fails  *)
(* slips in a key nobody pressed; a line is lost only with the memory.     *)
(***************************************************************************)
EXTENDS Integers, Sequences

CONSTANTS
  Key,      \* keys
  Char,     \* bytes
  CharsOf,  \* the bytes a key may become
  MaxKeys   \* bound: number of keys, the ones slipped in included

VARIABLES
  typed,    \* all keys so far
  used,     \* how many of them lines have consumed
  busy,     \* is a line being read?
  delim,    \* its delimiter
  line,     \* its bytes so far
  starved   \* has memory run out?

lineVars == <<typed, used, busy, delim, line, starved>>

Init ==
  /\ typed = << >> /\ used = 0
  /\ busy = FALSE /\ delim \in Char /\ line = << >>
  /\ starved = FALSE

Type ==
  /\ Len(typed) < MaxKeys
  /\ \E k \in Key : typed' = Append(typed, k)
  /\ UNCHANGED <<used, busy, delim, line, starved>>

(* A key nobody pressed, before all that wait. *)
Intrude ==
  /\ busy /\ Len(typed) < MaxKeys
  /\ \E k \in Key :
       typed' = SubSeq(typed, 1, used) \o <<k>> \o SubSeq(typed, used + 1, Len(typed))
  /\ UNCHANGED <<used, busy, delim, line, starved>>

Begin ==
  /\ ~busy
  /\ busy' = TRUE /\ line' = << >>
  /\ delim' \in Char
  /\ starved' \in {starved, TRUE}
  /\ UNCHANGED <<typed, used>>

Consume ==
  /\ busy /\ used < Len(typed)
  /\ \E c \in CharsOf[typed[used + 1]] :
       /\ line' = Append(line, c)
       /\ busy' = (c # delim)
  /\ used' = used + 1
  /\ UNCHANGED <<typed, delim, starved>>

(* The source is not the console, or there is no memory for the line. *)
GiveUp ==
  /\ busy
  /\ starved' \in {starved, TRUE}
  /\ line = << >> \/ starved'
  /\ busy' = FALSE /\ line' = << >>
  /\ UNCHANGED <<typed, used, delim>>

Next == Type \/ Intrude \/ Begin \/ Consume \/ GiveUp

SafeSpec == Init /\ [][Next]_lineVars

(* A reader that has keys to consume does not stop in the middle. *)
Spec == SafeSpec /\ WF_lineVars(Consume)
=============================================================================
