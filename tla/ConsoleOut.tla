----------------------------- MODULE ConsoleOut -----------------------------
(***************************************************************************)
(* Console output: fd_write() on descriptors 1 and 2, and the functions of *)
(* the C library that end there (write, _putchar, _puts).                  *)
(*                                                                         *)
(* fd_write copies the caller's bytes into the array str_buf of count*2    *)
(* CHAR16, dropping NUL bytes and expanding '\n' to "\r\n", terminates it  *)
(* and hands it to the firmware.  The copy is modelled one byte at a time. *)
(* str_buf has one slot more here than in the code: the last one, at index *)
(* StrBufLen(count), is the element just past the end of the C array.      *)
(***************************************************************************)
EXTENDS UefiErrno, Translation

CONSTANTS
  Plain,      \* bytes copied as they are: every byte but NUL and LF
  NUL, LF,    \* '\0' and '\n'
  CR,         \* '\r', one of Plain
  Unset,      \* content of an element of str_buf nobody has written
  MaxCount,   \* bound: length of the longest buffer given to write()
  MaxCalls    \* bound: number of library calls the program makes

Byte == Plain \cup {NUL, LF}

ASSUME ConsoleOutAssumption ==
  /\ MaxCount \in Nat
  /\ MaxCalls \in Nat
  /\ NUL # LF /\ NUL \notin Plain /\ LF \notin Plain /\ CR \in Plain
  /\ Unset \notin Byte

VARIABLES
  todo,     \* the buffers the running library call has still to write
  pc,       \* control of fd_write: "idle", "copy", "output"
  src,      \* buf, the argument of fd_write; count is its length
  it,       \* index into buf
  str_it,   \* index into str_buf
  str_buf,  \* the CHAR16 array, and the element past its end
  ret,      \* result of the last fd_write
  screen,   \* everything the firmware displayed
  sent,     \* history: the bytes of all successful writes
  calls     \* number of library calls so far

vars == <<todo, pc, src, it, str_it, str_buf, ret, screen, sent, calls>>

Count == Len(src)

(* Variant: the array is not made larger for the expanded newlines. *)
StrBufLenSingle(count) == count

(* CHAR16 str_buf[count*2] *)
StrBufLen(count) == count * 2

(* Strings of at most n elements of S. *)
Strings(S, n) == UNION {[1..k -> S] : k \in 0..n}

Init ==
  /\ todo = << >> /\ pc = "idle" /\ calls = 0
  /\ src = << >> /\ it = 0 /\ str_it = 0 /\ str_buf = [i \in {0} |-> Unset]
  /\ ret = 0 /\ screen = << >> /\ sent = << >>

-----------------------------------------------------------------------------
(* The library calls of a program. *)

Call(buffers) ==
  /\ pc = "idle" /\ todo = << >> /\ calls < MaxCalls
  /\ todo' = buffers
  /\ calls' = calls + 1
  /\ UNCHANGED <<pc, src, it, str_it, str_buf, ret, screen, sent>>

write(buf) == Call(<<buf>>)

clibc_putchar(c) == Call(<< <<c>> >>)

(* strlen() stops at the first NUL, so the text has none. *)
clibc_puts(str) ==
  /\ \A i \in 1..Len(str) : str[i] # NUL
  /\ Call(<<str, <<LF>> >>)

-----------------------------------------------------------------------------
(* fd_write(1, buf, count) *)

(* Variant: the index of the previous call is not reset. *)
fd_write_resuming ==
  /\ pc = "idle" /\ todo # << >>
  /\ todo' = Tail(todo)
  /\ pc' = "copy"
  /\ src' = Head(todo)
  /\ str_it' = 0
  /\ str_buf' = [i \in 0..StrBufLen(Len(Head(todo))) |-> Unset]
  /\ UNCHANGED <<it, ret, screen, sent, calls>>

fd_write ==
  /\ pc = "idle" /\ todo # << >>
  /\ todo' = Tail(todo)
  /\ pc' = "copy"
  /\ src' = Head(todo)
  /\ it' = 0 /\ str_it' = 0
  /\ str_buf' = [i \in 0..StrBufLen(Len(Head(todo))) |-> Unset]
  /\ UNCHANGED <<ret, screen, sent, calls>>

(* One iteration of the copying loop, for the byte c = src_buf[it]. *)
Iterate(c) ==
  /\ pc = "copy" /\ it # Count /\ src[it + 1] = c
  /\ it' = it + 1
  /\ UNCHANGED <<todo, pc, src, ret, screen, sent, calls>>

(* Variant: continue without the decrement of str_it. *)
CopyNulAsGap ==
  /\ Iterate(NUL)
  /\ str_it' = str_it + 1
  /\ UNCHANGED str_buf

(* Variant: continue that skips the increments of the loop head. *)
CopyNulForever ==
  /\ pc = "copy" /\ it # Count /\ src[it + 1] = NUL
  /\ UNCHANGED vars

(* str_it-- followed by the str_it++ of the loop head; at str_it = 0 the   *)
(* decrement wraps the unsigned index around and the increment wraps back. *)
CopyNul ==
  /\ Iterate(NUL)
  /\ UNCHANGED <<str_it, str_buf>>

(* Variant: no carriage return. *)
CopyNewlineAsIs ==
  /\ Iterate(LF)
  /\ str_buf' = [str_buf EXCEPT ![str_it] = LF]
  /\ str_it' = str_it + 1

CopyNewline ==
  /\ Iterate(LF)
  /\ str_buf' = [str_buf EXCEPT ![str_it] = CR, ![str_it + 1] = LF]
  /\ str_it' = str_it + 2

CopyPlain ==
  \E c \in Plain :
    /\ Iterate(c)
    /\ str_buf' = [str_buf EXCEPT ![str_it] = c]
    /\ str_it' = str_it + 1

(* str_buf[str_it] = L'\0' *)
Terminate ==
  /\ pc = "copy" /\ it = Count
  /\ str_buf' = [str_buf EXCEPT ![str_it] = NUL]
  /\ pc' = "output"
  /\ UNCHANGED <<todo, src, it, str_it, ret, screen, sent, calls>>

(* External: OutputString displays the elements up to the first NUL. *)
Displayed ==
  LET end == CHOOSE i \in DOMAIN str_buf :
                /\ str_buf[i] = NUL
                /\ \A j \in 0..(i - 1) : str_buf[j] # NUL
  IN  [i \in 1..end |-> str_buf[i - 1]]

OutputString ==
  /\ pc = "output"
  /\ pc' = "idle"
  /\ screen' = screen \o Displayed
  /\ sent' = sent \o src
  /\ ret' = Count
  /\ UNCHANGED <<todo, src, it, str_it, str_buf, calls>>

(* External: the console answers with a device error, one of the codes the *)
(* translation does not name, and displays nothing.                        *)
OutputStringFails ==
  /\ pc = "output"
  /\ pc' = "idle"
  /\ ret' = -efi_status_to_errno("OTHER")
  /\ UNCHANGED <<todo, src, it, str_it, str_buf, screen, sent, calls>>

-----------------------------------------------------------------------------
Step ==
  \/ fd_write \/ CopyNul \/ CopyNewline \/ CopyPlain \/ Terminate
  \/ OutputString \/ OutputStringFails

Program ==
  \/ \E buf \in Strings(Byte, MaxCount) : write(buf)
  \/ \E c \in Byte : clibc_putchar(c)
  \/ \E str \in Strings(Byte \ {NUL}, MaxCount) : clibc_puts(str)

Next == Program \/ Step

Spec == Init /\ [][Next]_vars

(* A handler runs to its end: nothing preempts it on a UEFI machine.  What *)
(* the program calls next is up to the program.                            *)
FairSpec == Spec /\ WF_vars(Step)

-----------------------------------------------------------------------------
TypeOK ==
  /\ todo \in Seq(Seq(Byte))
  /\ pc \in {"idle", "copy", "output"}
  /\ src \in Seq(Byte)
  /\ it \in 0..Count
  /\ str_it \in Nat
  /\ str_buf \in [0..StrBufLen(Count) -> Byte \cup {Unset}]
  /\ ret \in Int
  /\ screen \in Seq(Byte)
  /\ sent \in Seq(Byte)
  /\ calls \in 0..MaxCalls

(* Every element the copying loop of fd_write stores, the second one of an *)
(* expanded newline included, lies inside str_buf[count*2].                *)
LoopStoresInBounds ==
  pc = "copy" /\ it # Count => str_it + 1 < StrBufLen(Count)

(* The terminator of fd_write goes past the end of str_buf, by one element,*)
(* exactly when the buffer holds newlines only: write(1, "\n", 1), so the  *)
(* second half of every _puts, and a write of no bytes.                    *)
TerminatorOverrunsOnNewlinesOnly ==
  pc = "copy" /\ it = Count =>
    /\ str_it <= StrBufLen(Count)
    /\ str_it = StrBufLen(Count) <=> \A i \in 1..Count : src[i] = LF

(* What a byte looks like on the screen. *)
Expand ==
  [c \in Byte |-> IF c = NUL THEN << >> ELSE IF c = LF THEN <<CR, LF>> ELSE <<c>>]

(* The screen shows the bytes of all the successful writes, in order, with *)
(* newlines expanded and NUL bytes dropped; no element of str_buf that was *)
(* never written, or was left over from another byte, gets displayed.      *)
ScreenShowsWhatWasWritten == screen = Translated(Expand, sent)

(* Every library call ends: the text of _puts and its newline are both     *)
(* handed to the firmware, even when the first of the two writes fails.    *)
CallsFinish == (todo # << >>) ~> (pc = "idle" /\ todo = << >>)
=============================================================================
