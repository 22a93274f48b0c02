------------------------------ MODULE ConsoleIn ------------------------------
(***************************************************************************)
(* Console input: fd_read() on descriptor 0.                               *)
(*                                                                         *)
(* Two actors share the firmware's keyboard buffer: the user, who presses  *)
(* keys at any time, and the reading loop, which waits for a key, echoes   *)
(* it and stores its low byte.  The buffer is the part of typed that has   *)
(* not been taken yet: typed[taken + 1], typed[taken + 2], ...  The loop   *)
(* looks at no status: if it is woken up without a key, or the keyboard    *)
(* fails, it goes on with whatever its variable key happens to hold.       *)
(***************************************************************************)
EXTENDS Integers, Sequences, FiniteSets

CONSTANTS
  Key,        \* the keys of the keyboard (values of EFI_INPUT_KEY.UnicodeChar)
  Char,       \* bytes
  Low,        \* low byte of each key
  BS, CR, LF, \* '\b', '\r' and '\n'
  Unset,      \* content of a byte of the caller's buffer nobody has written
  MaxKeys,    \* bound: number of keys the user presses
  MaxCount,   \* bound: largest count passed to read()
  MaxFailures \* bound: number of times ReadKeyStroke delivers no key

ASSUME ConsoleInAssumption ==
  /\ Low \in [Key -> Char]
  /\ {BS, CR, LF} \subseteq Char
  /\ BS # CR /\ BS # LF /\ CR # LF
  /\ Unset \notin Char
  /\ MaxKeys \in Nat /\ MaxCount \in Nat /\ MaxFailures \in Nat

VARIABLES
  typed,   \* all keys pressed so far
  taken,   \* how many of them ReadKeyStroke has delivered
  failed,  \* how often it has delivered none
  got,     \* what the loop has worked on: the keys delivered and, for each
           \* failure, the content of its variable key
  echo,    \* what the reading loop has displayed
  reading, \* is a call of fd_read in progress?
  count,   \* its argument
  it,      \* its loop counter
  buf,     \* the caller's buffer
  ret,     \* result of the last call, 0 before the first one
  start    \* history: length of got when the call began

inVars == <<typed, taken, failed, got, echo, reading, count, it, buf, ret, start>>

(* Carriage return is handed over as a newline. *)
ToChar(k) == IF Low[k] = CR THEN LF ELSE Low[k]

(* What the loop displays for a key: the key, and a line feed after '\r'. *)
Echo(k) == IF Low[k] = CR THEN <<k, LF>> ELSE <<k>>

InInit ==
  /\ typed = << >> /\ taken = 0 /\ failed = 0 /\ got = << >> /\ echo = << >>
  /\ reading = FALSE /\ count = 0 /\ it = 0
  /\ buf = << >>
  /\ ret = 0 /\ start = 0

(* The user; the firmware queues the key. *)
Press(k) ==
  /\ Len(typed) < MaxKeys
  /\ typed' = Append(typed, k)
  /\ UNCHANGED <<taken, failed, got, echo, reading, count, it, buf, ret, start>>

(* fd_read(0, buf, n) enters its loop. *)
fd_read(n) ==
  /\ ~reading
  /\ reading' = TRUE
  /\ count' = n
  /\ it' = 0
  /\ buf' = [i \in 0..(n - 1) |-> Unset]
  /\ start' = Len(got)
  /\ UNCHANGED <<typed, taken, failed, got, echo, ret>>

(* Variant: every waiting key is taken out of the buffer with the first. *)
DeliveredFlushing(k) ==
  /\ taken < Len(typed)
  /\ k = typed[taken + 1]
  /\ taken' = Len(typed)
  /\ UNCHANGED failed

(* ReadKeyStroke delivers the next key in the buffer. *)
Delivered(k) ==
  /\ taken < Len(typed)
  /\ k = typed[taken + 1]
  /\ taken' = taken + 1
  /\ UNCHANGED failed

(* It delivers none, and key is what the stack held: its status, and that  *)
(* of WaitForEvent, are not looked at.                                     *)
NotDelivered(k) ==
  /\ failed < MaxFailures
  /\ failed' = failed + 1
  /\ UNCHANGED taken

(* Variant: the loop runs while it <= count. *)
NextKeyInclusive(k) ==
  /\ reading /\ it <= count
  /\ Delivered(k) \/ NotDelivered(k)
  /\ got' = Append(got, k)
  /\ UNCHANGED <<typed, count, start>>

(* An iteration begins: k is the key it is going to work on. *)
NextKey(k) ==
  /\ reading /\ it # count
  /\ Delivered(k) \/ NotDelivered(k)
  /\ got' = Append(got, k)
  /\ UNCHANGED <<typed, count, start>>

(* Variant: the backspace is displayed before the test. *)
SkipBackspaceAloud(k) ==
  /\ NextKey(k)
  /\ it = 0 /\ Low[k] = BS
  /\ it' = it + 1
  /\ echo' = echo \o Echo(k)
  /\ UNCHANGED <<reading, buf, ret>>

(* if (it == 0 && c == '\b') continue; -- the loop head still counts it. *)
SkipBackspace(k) ==
  /\ NextKey(k)
  /\ it = 0 /\ Low[k] = BS
  /\ it' = it + 1
  /\ UNCHANGED <<echo, reading, buf, ret>>

StoreKey(k) ==
  /\ NextKey(k)
  /\ ~(it = 0 /\ Low[k] = BS)
  /\ ToChar(k) # LF
  /\ echo' = echo \o Echo(k)
  /\ buf' = [buf EXCEPT ![it] = ToChar(k)]
  /\ it' = it + 1
  /\ UNCHANGED <<reading, ret>>

(* Variant: only what is displayed is translated. *)
StoreNewlineRaw(k) ==
  /\ NextKey(k)
  /\ ToChar(k) = LF
  /\ echo' = echo \o Echo(k)
  /\ buf' = [buf EXCEPT ![it] = Low[k]]
  /\ reading' = FALSE
  /\ ret' = it + 1
  /\ UNCHANGED it

(* Variant: the index is returned instead of the number of bytes. *)
StoreNewlineUncounted(k) ==
  /\ NextKey(k)
  /\ ToChar(k) = LF
  /\ echo' = echo \o Echo(k)
  /\ buf' = [buf EXCEPT ![it] = LF]
  /\ reading' = FALSE
  /\ ret' = it
  /\ UNCHANGED it

(* A line break leaves the loop without the increment of its head. *)
StoreNewline(k) ==
  /\ NextKey(k)
  /\ ToChar(k) = LF
  /\ echo' = echo \o Echo(k)
  /\ buf' = [buf EXCEPT ![it] = LF]
  /\ reading' = FALSE
  /\ ret' = it + 1
  /\ UNCHANGED it

(* The loop ends at it == count. *)
ReturnFull ==
  /\ reading /\ it = count
  /\ reading' = FALSE
  /\ ret' = it + 1
  /\ UNCHANGED <<typed, taken, failed, got, echo, count, it, buf, start>>

ReadStep ==
  \/ \E k \in Key : SkipBackspace(k) \/ StoreKey(k) \/ StoreNewline(k)
  \/ ReturnFull

InNext ==
  \/ \E k \in Key : Press(k)
  \/ \E n \in 0..MaxCount : fd_read(n)
  \/ ReadStep

InSpec == InInit /\ [][InNext]_inVars

-----------------------------------------------------------------------------
InTypeOK ==
  /\ typed \in Seq(Key)
  /\ taken \in 0..Len(typed)
  /\ failed \in 0..MaxFailures
  /\ got \in Seq(Key)
  /\ echo \in Seq(Key \cup {LF})
  /\ reading \in BOOLEAN
  /\ count \in Nat
  /\ it \in 0..count
  /\ buf \in [0..(count - 1) -> Char \cup {Unset}]
  /\ ret \in Nat
  /\ start \in 0..Len(got)

(* The number of iterations the current or last call has begun. *)
Received == Len(got) - start

(* Byte j of the caller's buffer once iteration j of the call has begun.   *)
Stored(j) ==
  LET k == got[start + 1 + j]
  IN  IF j = 0 /\ Low[k] = BS THEN Unset ELSE ToChar(k)

(* fd_read hands over what it gets in order, nothing lost, doubled or      *)
(* mixed with the keys of another call: byte j of the buffer is what came  *)
(* j-th since the call began.  The exception is a backspace in first       *)
(* place, which leaves byte 0 of the buffer unwritten.                     *)
BufferHoldsKeysInOrder ==
  \A j \in 0..(count - 1) :
    buf[j] = IF j < Received THEN Stored(j) ELSE Unset

(* A keyboard that fails puts in a key nobody has pressed, one for each    *)
(* failure, but takes away none: without those, what the loop works on is  *)
(* every key that has been delivered, in the order they were pressed.      *)
FailuresLoseNoKey ==
  \E ghosts \in SUBSET (1..Len(got)) :
    /\ Cardinality(ghosts) = failed
    /\ Len(got) = taken + failed
    /\ \A i \in (1..Len(got)) \ ghosts :
         got[i] = typed[i - Cardinality({j \in ghosts : j < i})]

(* The result of fd_read tells the bytes it delivered only when a line     *)
(* break ended it; a call that filled the buffer reports one byte more     *)
(* than the buffer holds.                                                  *)
ReturnIsExactOnlyAfterNewline ==
  ~reading /\ ret # 0 =>
    IF \E j \in 0..(count - 1) : buf[j] = LF
    THEN ret = Received /\ buf[ret - 1] = LF
    ELSE ret = count + 1 /\ Received = count

(* read(2): "the exported ones, whose interface must closely match the one *)
(* documented in man(2)" -- the number of bytes read is at most count.     *)
ReadReturnsAtMostCount == ~reading => ret <= count
=============================================================================
