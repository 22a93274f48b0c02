------------------------------ MODULE GetLine ------------------------------
(***************************************************************************)
(* my_getdelim() and my_getline() of include/getdelim.h, on top of fd_read *)
(* of the console.                                                         *)
(*                                                                         *)
(* The program reads line after line into the same growing buffer, the way *)
(* getline is used.  *out is the function out, with one element for each   *)
(* allocated byte; it is empty while the pointer is NULL.  malloc and      *)
(* realloc may fail and are not checked: a store through NULL is the end   *)
(* of everything that can be said ("wild").                                *)
(***************************************************************************)
EXTENDS ConsoleIn, Translation

CONSTANTS
  NUL,      \* '\0'
  Delim,    \* the delimiters the program asks for ('\n' in my_getline)
  Input,    \* the descriptors it reads from; only 0 is the console
  MaxLines  \* bound: number of calls of my_getdelim

ASSUME GetLineAssumption ==
  /\ NUL \in Char /\ Delim \subseteq Char
  /\ Input \subseteq Nat
  /\ Unset \notin Char
  /\ MaxLines \in Nat
  /\ MaxCount >= 1   \* the bytes are read one at a time

VARIABLES
  gpc,       \* control of my_getdelim: "idle", "read", "wait", "wild"
  in,        \* its argument in
  delim,     \* its argument delim
  out,       \* *out, a function on 0..(number of allocated bytes - 1)
  out_size,  \* *out_size
  out_idx,   \* its local out_idx
  gret,      \* result of the last call
  calls,     \* number of calls so far
  nomem,     \* history: has an allocation failed?
  lineStart, \* history: length of got when the call began
  longest    \* history: length of the longest line read so far

lineOnly == <<gpc, in, delim, out, out_size, out_idx, gret, calls, nomem,
              lineStart, longest>>

allVars == <<inVars, lineOnly>>

(* char *input_buf = NULL; input_len is indeterminate, and not read before *)
(* my_getdelim has set it.                                                 *)
Init ==
  /\ InInit
  /\ gpc = "idle" /\ in = 0 /\ delim = LF
  /\ out = << >> /\ out_size = 0 /\ out_idx = 0
  /\ gret = 0 /\ calls = 0 /\ nomem = FALSE /\ lineStart = 0 /\ longest = 0

(* *out = malloc(2); *out_size = 1, for a program without a buffer. *)
AllocateFirst ==
  IF out # << >> THEN UNCHANGED <<out, out_size, nomem>>
  ELSE /\ out_size' = 1
       /\ \/ out' = [i \in 0..1 |-> Unset] /\ UNCHANGED nomem
          \/ UNCHANGED out /\ nomem' = TRUE

(* Variant: the line is added to what the buffer holds. *)
my_getdelim_appending(fd, d) ==
  /\ gpc = "idle" /\ calls < MaxLines
  /\ gpc' = "read"
  /\ in' = fd /\ delim' = d
  /\ AllocateFirst
  /\ calls' = calls + 1
  /\ lineStart' = Len(got)
  /\ UNCHANGED <<inVars, out_idx, gret, longest>>

my_getdelim(fd, d) ==
  /\ gpc = "idle" /\ calls < MaxLines
  /\ gpc' = "read"
  /\ in' = fd /\ delim' = d
  /\ out_idx' = 0
  /\ AllocateFirst
  /\ calls' = calls + 1
  /\ lineStart' = Len(got)
  /\ UNCHANGED <<inVars, gret, longest>>

(* read(in, &c, 1) on the console *)
ReadChar ==
  /\ gpc = "read" /\ in = 0
  /\ gpc' = "wait"
  /\ fd_read(1)
  /\ UNCHANGED <<in, delim, out, out_size, out_idx, gret, calls, nomem, lineStart, longest>>

(* On any other descriptor read() returns -1: the file table is empty, and *)
(* descriptors 1 to 3 are not readable.                                    *)
ReadFails ==
  /\ gpc = "read" /\ in # 0
  /\ gpc' = "idle"
  /\ gret' = -1
  /\ UNCHANGED <<inVars, in, delim, out, out_size, out_idx, calls, nomem, lineStart,
                 longest>>

ConsoleStep ==
  /\ gpc = "wait"
  /\ ReadStep
  /\ UNCHANGED lineOnly

(* The value of c after read(): a backspace has left it indeterminate. *)
Received1 == IF buf[0] = Unset THEN Char ELSE {buf[0]}

(* Variant: malloc in place of realloc. *)
Malloc(size) == [i \in 0..size |-> Unset]

(* realloc keeps the content and leaves the rest unwritten. *)
Realloc(size) ==
  [i \in 0..size |-> IF i \in DOMAIN out THEN out[i] ELSE Unset]

(* Variant: no room is made for the NUL. *)
GrownLate ==
  IF out_size < out_idx
    THEN [size |-> out_size + 1, bytes |-> Realloc(out_size + 1)]
    ELSE [size |-> out_size, bytes |-> out]

(* Variant: the buffer grows by two bytes. *)
GrownByTwo ==
  IF out_size < out_idx + 1
    THEN [size |-> out_size + 2, bytes |-> Realloc(out_size + 2)]
    ELSE [size |-> out_size, bytes |-> out]

(* One byte more, if the next store would not leave room for the NUL. *)
Grown ==
  IF out_size < out_idx + 1
    THEN [size |-> out_size + 1, bytes |-> Realloc(out_size + 1)]
    ELSE [size |-> out_size, bytes |-> out]

(* Variant: the delimiter does not stop the loop. *)
AddAnyChar(c) ==
  /\ gpc = "wait" /\ ~reading /\ out # << >>
  /\ c \in Received1
  /\ out_size' = Grown.size
  /\ out' = [Grown.bytes EXCEPT ![out_idx] = c]
  /\ out_idx' = out_idx + 1
  /\ gpc' = "read"
  /\ UNCHANGED <<inVars, in, delim, gret, calls, nomem, lineStart, longest>>

(* read() has returned 1 or 2, so it is not <= 0. *)
AddChar(c) ==
  /\ gpc = "wait" /\ ~reading /\ out # << >>
  /\ c \in Received1
  /\ c # delim
  /\ out_size' = Grown.size
  /\ out' = [Grown.bytes EXCEPT ![out_idx] = c]
  /\ out_idx' = out_idx + 1
  /\ gpc' = "read"
  /\ UNCHANGED <<inVars, in, delim, gret, calls, nomem, lineStart, longest>>

EndLine ==
  /\ gpc = "wait" /\ ~reading /\ out # << >>
  /\ delim \in Received1
  /\ out_size' = Grown.size
  /\ out' = [Grown.bytes EXCEPT ![out_idx] = delim, ![out_idx + 1] = NUL]
  /\ out_idx' = out_idx + 1
  /\ gret' = out_idx' + 1
  /\ gpc' = "idle"
  /\ longest' = IF out_idx' > longest THEN out_idx' ELSE longest
  /\ UNCHANGED <<inVars, in, delim, calls, nomem, lineStart>>

(* The store of c where *out is NULL: malloc has failed, or realloc does   *)
(* now, and the line is gone with the only pointer to it.                  *)
StoreToNull ==
  /\ gpc = "wait" /\ ~reading
  /\ \/ out = << >> /\ UNCHANGED <<out, out_size, nomem>>
     \/ /\ out # << >> /\ out_size < out_idx + 1
        /\ out' = << >> /\ out_size' = out_size + 1 /\ nomem' = TRUE
  /\ gpc' = "wild"
  /\ UNCHANGED <<inVars, in, delim, out_idx, gret, calls, lineStart, longest>>

User == \E k \in Key : Press(k) /\ UNCHANGED lineOnly

Reader ==
  \/ ReadChar \/ ReadFails \/ ConsoleStep
  \/ \E c \in Char : AddChar(c)
  \/ EndLine
  \/ StoreToNull

Next ==
  \/ \E fd \in Input, d \in Delim : my_getdelim(fd, d)
  \/ Reader
  \/ User

Spec == Init /\ [][Next]_allVars

(* A call of my_getdelim goes on as long as there are keys; the user may   *)
(* stop typing, the keyboard need not fail, and the program need not ask   *)
(* for another line.                                                       *)
FairSpec == Spec /\ WF_allVars(Reader /\ failed' = failed)

-----------------------------------------------------------------------------
LineTypeOK ==
  /\ InTypeOK
  /\ gpc \in {"idle", "read", "wait", "wild"}
  /\ in \in Input \cup {0} /\ delim \in Char
  /\ out_size \in Nat /\ out_idx \in Nat /\ longest \in Nat
  /\ gret \in Int /\ calls \in 0..MaxLines
  /\ nomem \in BOOLEAN
  /\ lineStart \in 0..Len(got)

(* The bytes of the line that have been stored. *)
Line == IF gpc = "wild" THEN << >> ELSE [i \in 1..out_idx |-> out[i - 1]]

Finished == gpc = "idle" /\ calls > 0 /\ gret > 0 /\ in = 0

(* Every store of my_getdelim, the terminator after the last byte included,*)
(* is inside the allocated block, and *out_size is one less than the size  *)
(* of that block: reusing the buffer for a longer line is safe, unless an  *)
(* allocation has failed and there is no block.                            *)
StoresInBounds ==
  calls > 0 =>
    \/ DOMAIN out = 0..out_size /\ out_idx \in DOMAIN out
    \/ nomem /\ out = << >>

(* my_getdelim stores one byte for every key since it was called, in order,*)
(* and stops at the first byte that equals the delimiter; the bytes of an  *)
(* earlier, longer line do not show through the terminator.                *)
LineMatchesKeys ==
  /\ \A i \in DOMAIN Line :
       LET k == got[lineStart + i]
       IN  Low[k] # BS => Line[i] = ToChar(k)
  /\ \A i \in DOMAIN Line : i < out_idx => Line[i] # delim
  /\ Finished => /\ gret = out_idx + 1
                 /\ Line[out_idx] = delim
                 /\ out[out_idx] = NUL
                 /\ Len(got) = lineStart + out_idx

(* main() cuts the newline off with input_buf[input_len-1] = '\0', where   *)
(* input_len is *out_size.  That hits the newline exactly for a line that  *)
(* is the longest read into this buffer; main reads one line only.         *)
CutHitsNewline ==
  Finished => (out_idx = longest <=> out_size = out_idx)

(* What a key leaves on the screen: a backspace, nothing. *)
ShownFor == [k \in Key |-> IF Low[k] = BS THEN << >> ELSE Echo(k)]

(* Called for one byte at a time, fd_read echoes every key but backspaces, *)
(* in order, with a line feed after each return: the screen shows what the *)
(* program gets, keys a failing keyboard made up included.                 *)
EchoOmitsBackspaces == echo = Translated(ShownFor, got)

(* A call of my_getdelim that finds a delimiter among the keys ends, also  *)
(* over a keyboard that fails now and then: the reader never waits for the *)
(* user with that key in the buffer.                                       *)
DelimiterEndsLine ==
  (gpc \in {"read", "wait"} /\ \E i \in (taken + 1)..Len(typed) : ToChar(typed[i]) = delim)
    ~> gpc \in {"idle", "wild"}

-----------------------------------------------------------------------------
(* The byte sequence handed to the caller, key by key. *)
CharsOf == [k \in Key |-> IF Low[k] = BS THEN Char ELSE {ToChar(k)}]

(* What has come out of the keyboard and what waits in it. *)
Stream == got \o SubSeq(typed, taken + 1, Len(typed))

Lines == INSTANCE LineInput WITH
           typed <- Stream,
           MaxKeys <- MaxKeys + MaxFailures,
           used <- lineStart + out_idx,
           busy <- gpc \in {"read", "wait"},
           line <- Line,
           starved <- nomem

(* my_getdelim over the console implements line input: storing, growing    *)
(* and reusing the buffer neither loses nor reorders a key, a line is lost *)
(* only when memory runs out, and a reader with keys to consume goes on    *)
(* consuming them.                                                         *)
ImplementsLineInput == Lines!Spec
=============================================================================
