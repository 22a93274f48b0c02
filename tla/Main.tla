-------------------------------- MODULE Main --------------------------------
(***************************************************************************)
(* The demonstration program, as far as it depends on what it is given: it *)
(* fills a block of malloc, reads a line, prints it without its newline,   *)
(* and waits for a return before it exits.  Its other output, its pauses   *)
(* and its failing write() change nothing here.                            *)
(***************************************************************************)
EXTENDS GetLine

VARIABLES
  mpc,      \* control of main: "start", "prompt", "line", "print", "drain",
            \* "getchar", "exit"
  printed   \* history: the string printf showed, << >> before

mainOnly == <<mpc, printed>>
mainVars == <<allVars, mainOnly>>

ASSUME MainAssumption == 0 \in Input /\ LF \in Delim /\ MaxLines > 0

MainInit == Init /\ mpc = "start" /\ printed = << >>

(* mbuf = malloc(16); strcpy(mbuf, "Hello") *)
FillBlock ==
  /\ mpc = "start" /\ gpc = "idle"
  /\ \/ mpc' = "prompt" /\ UNCHANGED <<gpc, nomem>>
     \/ gpc' = "wild" /\ nomem' = TRUE /\ UNCHANGED mpc
  /\ UNCHANGED <<inVars, in, delim, out, out_size, out_idx, gret, calls,
                 lineStart, longest, printed>>

my_getline ==
  /\ mpc = "prompt"
  /\ mpc' = "line"
  /\ my_getdelim(0, LF)
  /\ UNCHANGED printed

ReadLine == mpc = "line" /\ Reader /\ UNCHANGED mainOnly

(* Variant: the index is the length itself. *)
CutLate ==
  /\ mpc = "line" /\ gpc = "idle"
  /\ mpc' = "print"
  /\ out' = [out EXCEPT ![out_size] = NUL]
  /\ UNCHANGED <<inVars, gpc, in, delim, out_size, out_idx, gret, calls, nomem,
                 lineStart, longest, printed>>

(* input_buf[input_len-1] = '\0', whatever my_getline has returned *)
Cut ==
  /\ mpc = "line" /\ gpc = "idle"
  /\ mpc' = "print"
  /\ out' = [out EXCEPT ![out_size - 1] = NUL]
  /\ UNCHANGED <<inVars, gpc, in, delim, out_size, out_idx, gret, calls, nomem,
                 lineStart, longest, printed>>

(* printf of a string: the bytes up to the first NUL *)
PrintLine ==
  /\ mpc = "print"
  /\ mpc' = "drain"
  /\ \E n \in DOMAIN out :
       /\ out[n] = NUL /\ \A i \in 0..(n - 1) : out[i] # NUL
       /\ printed' = [i \in 1..n |-> out[i - 1]]
  /\ UNCHANGED allVars

(* getchar() reads one byte into a variable nobody has initialised. *)
GetChar ==
  /\ mpc = "drain"
  /\ mpc' = "getchar"
  /\ fd_read(1)
  /\ UNCHANGED <<lineOnly, printed>>

GetCharStep == mpc = "getchar" /\ ReadStep /\ UNCHANGED <<lineOnly, mainOnly>>

(* Variant: the loop waits for '\r'. *)
GotCharForCR ==
  /\ mpc = "getchar" /\ ~reading
  /\ \E c \in Received1 : mpc' = IF c = CR THEN "exit" ELSE "drain"
  /\ UNCHANGED <<allVars, printed>>

(* Variant: the loop ends with the first byte that is no newline. *)
GotCharInverted ==
  /\ mpc = "getchar" /\ ~reading
  /\ \E c \in Received1 : mpc' = IF c # LF THEN "exit" ELSE "drain"
  /\ UNCHANGED <<allVars, printed>>

(* while (getchar() != '\n'); exit(0) *)
GotChar ==
  /\ mpc = "getchar" /\ ~reading
  /\ \E c \in Received1 : mpc' = IF c = LF THEN "exit" ELSE "drain"
  /\ UNCHANGED <<allVars, printed>>

Program ==
  \/ FillBlock \/ my_getline \/ ReadLine \/ Cut \/ PrintLine
  \/ GetChar \/ GetCharStep \/ GotChar

MainNext == Program \/ (User /\ UNCHANGED mainOnly)

MainSpec == MainInit /\ [][MainNext]_mainVars

(* The program has the machine to itself; the keyboard need not fail. *)
FairMainSpec == MainSpec /\ WF_mainVars(Program /\ failed' = failed)

-----------------------------------------------------------------------------
(* Keys after which fd_read may hand over the byte c. *)
MayBe(k, c) == Low[k] = BS \/ ToChar(k) = c

(* main prints what was typed up to the first return, without it, and less *)
(* only if the line has a key without a character (the cursor keys) or a   *)
(* backspace, whose byte nobody knows.                                     *)
PrintsFirstLine ==
  mpc \in {"drain", "getchar", "exit"} =>
    LET n == Len(printed)
    IN  /\ n < Len(got)
        /\ \A i \in 1..n : MayBe(got[i], printed[i]) /\ printed[i] # LF
        /\ MayBe(got[n + 1], LF) \/ MayBe(got[n + 1], NUL)

(* The return that ended the line does not end the program as well: it     *)
(* exits at the next one, not before and not later; a backspace, which     *)
(* leaves getchar's variable as it was, may also end it.                   *)
ExitTakesItsOwnReturn ==
  mpc = "exit" =>
    /\ Len(got) > out_idx
    /\ MayBe(got[Len(got)], LF)
    /\ \A i \in (out_idx + 1)..(Len(got) - 1) : ToChar(got[i]) # LF

(* A user who presses return twice gets rid of the program, whatever else  *)
(* is typed and whatever the keyboard makes up, unless memory has run out. *)
TwoReturnsEndProgram ==
  (\E i, j \in 1..Len(typed) : i < j /\ ToChar(typed[i]) = LF /\ ToChar(typed[j]) = LF)
    ~> (mpc = "exit" \/ gpc = "wild")
=============================================================================
