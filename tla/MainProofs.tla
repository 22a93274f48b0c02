----------------------------- MODULE MainProofs -----------------------------
(* The demonstration program for any keyboard: what it prints is the first  *)
(* line that is typed, and the return it exits at is one of its own.        *)
EXTENDS Main, GetLineProofs

(* Before the call of my_getline nothing has been read. *)
BeforePart ==
  \/ mpc = "start" /\ gpc = "wild"
  \/ mpc \in {"start", "prompt"} /\ gpc = "idle" /\ LineInv /\ calls = 0 /\ got = << >>

(* The first line is the longest, which is what makes main's cut right. *)
FirstLinePart ==
  /\ mpc = "line"
  /\ LineInv /\ in = 0 /\ delim = LF /\ lineStart = 0
  /\ IF gpc = "idle" THEN Finished /\ longest = out_idx ELSE longest = 0

(* After the cut the block holds the line, with a NUL for its newline. *)
CutPart ==
  /\ mpc = "print"
  /\ ~reading /\ out_idx \in Nat /\ out_idx >= 1 /\ Len(got) = out_idx
  /\ DOMAIN out = 0..out_idx /\ out[out_idx - 1] = NUL
  /\ \A i \in 1..(out_idx - 1) : MayBe(got[i], out[i - 1]) /\ out[i - 1] # LF
  /\ MayBe(got[out_idx], LF)

(* What has been printed, and the keys getchar has had so far. *)
Shown ==
  LET n == Len(printed)
  IN  /\ n \in Nat /\ n < Len(got)
      /\ \A i \in 1..n : MayBe(got[i], printed[i]) /\ printed[i] # LF
      /\ MayBe(got[n + 1], LF) \/ MayBe(got[n + 1], NUL)

NoReturn(last) == \A i \in (out_idx + 1)..last : ToChar(got[i]) # LF

DrainPart ==
  /\ Shown /\ out_idx \in Nat /\ out_idx <= Len(got)
  /\ \/ mpc = "drain" /\ ~reading /\ NoReturn(Len(got))
     \/ /\ mpc = "getchar" /\ count = 1 /\ out_idx <= start /\ NoReturn(start)
        /\ ~reading => Len(got) = start + 1
     \/ mpc = "exit" /\ ~reading /\ ExitTakesItsOwnReturn

MainInv == InInv /\ (BeforePart \/ FirstLinePart \/ CutPart \/ DrainPart)

(* What the proofs use of the console's types. *)
LEMMA ConsoleTypes ==
  ASSUME InInv
  PROVE  /\ got \in Seq(Key) /\ Len(got) \in Nat /\ start \in Nat /\ start <= Len(got)
         /\ \A i \in 1..Len(got) : got[i] \in Key
BY DEF InInv, InTypeOK

(* The byte a call for one byte hands over is that of its key. *)
LEMMA ByteIsKey ==
  ASSUME InInv, count = 1, Len(got) = start + 1, NEW c \in Received1
  PROVE  /\ got[Len(got)] \in Key /\ MayBe(got[Len(got)], c)
         /\ c # LF => ToChar(got[Len(got)]) # LF
<1> DEFINE k == got[start + 1]
<1>1. start + 1 \in 1..Len(got) /\ k \in Key /\ start + 1 + 0 = start + 1
  BY ConsoleTypes
<1>2. Received = 1
  BY ConsoleTypes DEF Received
<1>3. buf[0] = Stored(0)
  BY <1>2 DEF InInv, BufferHoldsKeysInOrder
<1>4. Stored(0) = IF Low[k] = BS THEN Unset ELSE ToChar(k)
  BY <1>1 DEF Stored
<1>5. Low[k] # BS => c = ToChar(k)
  BY <1>1, <1>3, <1>4, ToCharIsChar DEF Received1
<1>6. Low[k] = BS => ToChar(k) # LF
  BY ConsoleInAssumption DEF ToChar
<1>7. MayBe(k, c)
  BY <1>5 DEF MayBe
<1>8. c # LF => ToChar(k) # LF
  BY <1>5, <1>6
<1> QED
  BY <1>1, <1>7, <1>8

(* What stands once the line has been printed does so as keys follow. *)
LEMMA ShownStays ==
  ASSUME InInv, Shown, printed' = printed, Len(got') \in Nat, Len(got) <= Len(got'),
         \A i \in 1..Len(got) : got'[i] = got[i]
  PROVE  Shown'
<1> DEFINE n == Len(printed)
<1>1. /\ n \in Nat /\ n < Len(got) /\ Len(got) \in Nat
      /\ \A i \in 1..n : MayBe(got[i], printed[i]) /\ printed[i] # LF
      /\ MayBe(got[n + 1], LF) \/ MayBe(got[n + 1], NUL)
  BY ConsoleTypes DEF Shown
<1>2. n + 1 \in 1..Len(got) /\ \A i \in 1..n : i \in 1..Len(got)
  BY <1>1
<1>3. got'[n + 1] = got[n + 1] /\ \A i \in 1..n : got'[i] = got[i]
  BY <1>2
<1>4. n < Len(got')
  BY <1>1
<1>5. \A i \in 1..n : MayBe(got'[i], printed[i])
  BY <1>1, <1>3
<1>6. MayBe(got'[n + 1], LF) \/ MayBe(got'[n + 1], NUL)
  BY <1>1, <1>3
<1> QED
  BY <1>1, <1>4, <1>5, <1>6 DEF Shown, MayBe, ToChar

(* The invariant holds when main is called. *)
LEMMA MainInitInv == MainInit => MainInv
<1> SUFFICES ASSUME MainInit PROVE MainInv
  OBVIOUS
<1>1. LineInv /\ InInv
  BY LineInit DEF MainInit, LineInv
<1>2. BeforePart
  BY <1>1 DEF MainInit, Init, InInit, BeforePart
<1> QED
  BY <1>1, <1>2 DEF MainInv

(* The user types: none of the parts mentions the keys that wait. *)
LEMMA MainUser == MainInv /\ User /\ UNCHANGED mainOnly => MainInv'
<1> SUFFICES ASSUME MainInv, NEW k \in Key, Press(k), UNCHANGED lineOnly, UNCHANGED mainOnly
             PROVE  MainInv'
  BY DEF User
<1>1. InInv'
  BY PressKeepsInv DEF MainInv
<1>2. UNCHANGED <<got, reading, count, it, buf, ret, start>>
  BY DEF Press
<1>3. UNCHANGED <<gpc, in, delim, out, out_size, out_idx, gret, calls, nomem, lineStart,
                  longest, mpc, printed>>
  BY DEF lineOnly, mainOnly
<1>4. LineInv => LineInv'
  BY UserKeepsInv DEF User
<1>5. BeforePart => BeforePart'
  BY <1>2, <1>3, <1>4 DEF BeforePart
<1>6. FirstLinePart => FirstLinePart'
  BY <1>2, <1>3, <1>4 DEF FirstLinePart, Finished
<1>7. CutPart => CutPart'
  BY <1>2, <1>3 DEF CutPart, MayBe, ToChar
<1>8. DrainPart => DrainPart'
  <2>1. Shown => Shown'
    BY <1>2, <1>3 DEF Shown, MayBe, ToChar
  <2> QED
    BY <1>2, <1>3, <2>1 DEF DrainPart, NoReturn, ExitTakesItsOwnReturn, MayBe, ToChar
<1> QED
  BY <1>1, <1>5, <1>6, <1>7, <1>8 DEF MainInv

(* Steps that leave the console alone. *)
LEMMA ConsoleStays == InInv /\ UNCHANGED inVars => InInv'
BY DEF inVars, InInv, InTypeOK, LoopPart, Received, Stored, ToChar,
       BufferHoldsKeysInOrder, ReturnIsExactOnlyAfterNewline

(* malloc and strcpy touch nothing of the line that is to come. *)
LEMMA FillBlockKeeps == MainInv /\ FillBlock => MainInv'
<1> SUFFICES ASSUME MainInv, FillBlock PROVE MainInv'
  OBVIOUS
<1>1. /\ mpc = "start" /\ gpc = "idle" /\ UNCHANGED inVars
      /\ UNCHANGED <<in, delim, out, out_size, out_idx, gret, calls, lineStart, longest>>
      /\ \/ mpc' = "prompt" /\ UNCHANGED <<gpc, nomem>>
         \/ gpc' = "wild" /\ mpc' = mpc
  BY DEF FillBlock
<1>2. InInv'
  BY <1>1, ConsoleStays DEF MainInv
<1>3. LineInv /\ calls = 0 /\ got = << >>
  BY <1>1 DEF MainInv, BeforePart, FirstLinePart, CutPart, DrainPart
<1>4. CASE mpc' = "prompt" /\ UNCHANGED <<gpc, nomem>>
  <2>1. UNCHANGED allVars
    BY <1>1, <1>4 DEF allVars, lineOnly
  <2>2. LineInv' /\ got' = got
    BY <1>1, <1>3, <2>1, LineNext DEF inVars
  <2>3. BeforePart'
    BY <1>1, <1>3, <1>4, <2>2 DEF BeforePart
  <2> QED
    BY <1>2, <2>3 DEF MainInv
<1>5. CASE gpc' = "wild" /\ mpc' = mpc
  <2>1. BeforePart'
    BY <1>1, <1>5 DEF BeforePart
  <2> QED
    BY <1>2, <2>1 DEF MainInv
<1> QED
  BY <1>1, <1>4, <1>5

(* The first call of my_getline finds no buffer and no keys taken. *)
LEMMA GetlineKeeps == MainInv /\ my_getline => MainInv'
<1> SUFFICES ASSUME MainInv, my_getline PROVE MainInv'
  OBVIOUS
<1>1. mpc = "prompt" /\ mpc' = "line" /\ my_getdelim(0, LF)
  BY DEF my_getline
<1>2. LineInv /\ calls = 0 /\ got = << >> /\ gpc = "idle"
  BY <1>1 DEF MainInv, BeforePart, FirstLinePart, CutPart, DrainPart
<1>3. LineInv'
  BY <1>1, <1>2, BeginKeepsInv, MainAssumption
<1>4. longest = 0
  BY <1>2 DEF LineInv, BlockPart
<1>5. gpc' = "read" /\ in' = 0 /\ delim' = LF /\ lineStart' = Len(got) /\ longest' = longest
  BY <1>1 DEF my_getdelim
<1>6. Len(got) = 0
  BY <1>2
<1>7. FirstLinePart'
  BY <1>1, <1>3, <1>4, <1>5, <1>6 DEF FirstLinePart
<1> QED
  BY <1>3, <1>7 DEF MainInv, LineInv

(* Before the line has ended, longest is 0; then it is the line's length. *)
LEMMA ReadLineKeeps == MainInv /\ ReadLine => MainInv'
<1> SUFFICES ASSUME MainInv, ReadLine PROVE MainInv'
  OBVIOUS
<1>1. mpc = "line" /\ Reader /\ mpc' = "line"
  BY DEF ReadLine, mainOnly
<1>2. FirstLinePart
  BY <1>1 DEF MainInv, BeforePart, CutPart, DrainPart
<1>3. LineInv'
  BY <1>1, <1>2, LineNext DEF FirstLinePart, Next
<1>4. CASE EndLine
  <2>1. /\ gpc = "wait" /\ gpc' = "idle" /\ out_idx' = out_idx + 1 /\ gret' = out_idx' + 1
        /\ longest' = IF out_idx' > longest THEN out_idx' ELSE longest
        /\ UNCHANGED <<in, delim, lineStart, calls>> /\ out # << >>
    BY <1>4 DEF EndLine
  <2>2. out_idx \in Nat /\ longest = 0 /\ calls \in Nat /\ calls # 0
    BY <1>2, <2>1, LineTypes DEF FirstLinePart, LineInv, BlockPart
  <2>3. longest' = out_idx' /\ gret' > 0 /\ calls' > 0
    BY <2>1, <2>2
  <2>4. FirstLinePart'
    BY <1>1, <1>2, <1>3, <2>1, <2>3 DEF FirstLinePart, Finished
  <2> QED
    BY <1>3, <2>4 DEF MainInv, LineInv
<1>5. CASE ~EndLine
  <2>1. /\ gpc # "idle" /\ gpc' # "idle" /\ UNCHANGED <<in, delim, lineStart, longest>>
    <3>1. in = 0
      BY <1>2 DEF FirstLinePart
    <3>2. CASE ReadChar
      BY <3>2 DEF ReadChar
    <3>3. CASE ConsoleStep
      BY <3>3 DEF ConsoleStep, lineOnly
    <3>4. CASE \E c \in Char : AddChar(c)
      BY <3>4 DEF AddChar
    <3>5. CASE StoreToNull
      BY <3>5 DEF StoreToNull
    <3> QED
      BY <1>1, <1>5, <3>1, <3>2, <3>3, <3>4, <3>5 DEF Reader, ReadFails
  <2>2. FirstLinePart'
    BY <1>1, <1>2, <1>3, <2>1 DEF FirstLinePart
  <2> QED
    BY <1>3, <2>2 DEF MainInv, LineInv
<1> QED
  BY <1>4, <1>5

(* The byte at *out_size - 1 is the newline of this line. *)
LEMMA CutKeeps == MainInv /\ Cut => MainInv'
<1> SUFFICES ASSUME MainInv, Cut PROVE MainInv'
  OBVIOUS
<1>1. /\ mpc = "line" /\ gpc = "idle" /\ mpc' = "print" /\ UNCHANGED inVars
      /\ out' = [out EXCEPT ![out_size - 1] = NUL] /\ UNCHANGED out_idx
  BY DEF Cut
<1>2. InInv'
  BY <1>1, ConsoleStays DEF MainInv
<1>3. FirstLinePart
  BY <1>1 DEF MainInv, BeforePart, CutPart, DrainPart
<1>4. /\ LineInv /\ Finished /\ longest = out_idx /\ lineStart = 0 /\ delim = LF
  BY <1>1, <1>3 DEF FirstLinePart
<1>5. out_idx \in Nat /\ out_idx >= 1 /\ out[out_idx - 1] = LF
  BY <1>4, LineTypes DEF LineInv, LinePart, Finished
<1>6. DOMAIN out = 0..out_idx /\ out_size = out_idx
  <2>1. out # << >>
    BY <1>1, <1>4, <1>5 DEF LineInv, BlockPart
  <2> QED
    BY <1>4, <1>5, <2>1 DEF LineInv, BlockPart
<1>7. ~reading /\ Len(got) = out_idx
  BY <1>1, <1>4, <1>5 DEF LineInv, KeyPart
<1>8. \A i \in 1..out_idx : MayBe(got[i], out[i - 1])
  <2>1. \A i \in 1..out_idx : IsKey(i) /\ lineStart + i = i
    BY <1>1, <1>4, <1>5 DEF LineInv, LinePart
  <2> QED
    BY <2>1 DEF IsKey, MayBe
<1>9. \A i \in 1..(out_idx - 1) : out[i - 1] # LF
  BY <1>1, <1>4 DEF LineInv, LinePart
<1>10. /\ DOMAIN out' = 0..out_idx /\ out'[out_idx - 1] = NUL
       /\ \A i \in 1..(out_idx - 1) : out'[i - 1] = out[i - 1]
  <2>1. out_size - 1 = out_idx - 1 /\ out_idx - 1 \in 0..out_idx
    BY <1>5, <1>6
  <2>2. \A i \in 1..(out_idx - 1) : i - 1 \in 0..out_idx /\ i - 1 # out_idx - 1
    BY <1>5
  <2> QED
    BY <1>1, <1>6, <2>1, <2>2
<1>11. out_idx \in 1..out_idx /\ \A i \in 1..(out_idx - 1) : i \in 1..out_idx
  BY <1>5
<1>12. MayBe(got[out_idx], LF)
  BY <1>5, <1>8, <1>11
<1>13. \A i \in 1..(out_idx - 1) : MayBe(got[i], out'[i - 1]) /\ out'[i - 1] # LF
  BY <1>8, <1>9, <1>10, <1>11
<1>14. got' = got /\ reading' = reading
  BY <1>1 DEF inVars
<1>15. CutPart'
  BY <1>1, <1>5, <1>7, <1>10, <1>12, <1>13, <1>14 DEF CutPart, MayBe, ToChar
<1> QED
  BY <1>2, <1>15 DEF MainInv

(* The first NUL is that of the cut, or the byte of a key without one. *)
LEMMA PrintKeeps == MainInv /\ PrintLine => MainInv'
<1> SUFFICES ASSUME MainInv, PrintLine PROVE MainInv'
  OBVIOUS
<1>1. mpc = "print" /\ mpc' = "drain" /\ UNCHANGED allVars
  BY DEF PrintLine
<1>2. PICK n \in DOMAIN out :
        /\ out[n] = NUL /\ \A i \in 0..(n - 1) : out[i] # NUL
        /\ printed' = [i \in 1..n |-> out[i - 1]]
  BY DEF PrintLine
<1>3. UNCHANGED <<inVars, out_idx, got, reading>>
  BY <1>1 DEF allVars, lineOnly, inVars
<1>4. InInv'
  BY <1>3, ConsoleStays DEF MainInv
<1>5. CutPart
  BY <1>1 DEF MainInv, BeforePart, FirstLinePart, DrainPart
<1>6. n \in Nat /\ n <= out_idx - 1 /\ out_idx \in Nat /\ Len(got) = out_idx
  <2>1. n \in 0..out_idx /\ out_idx \in Nat /\ out_idx >= 1 /\ out[out_idx - 1] = NUL
    BY <1>2, <1>5 DEF CutPart
  <2>2. ~(out_idx - 1 \in 0..(n - 1))
    BY <1>2, <2>1
  <2> QED
    BY <1>5, <2>1, <2>2 DEF CutPart
<1>7. /\ Len(printed') = n /\ \A i \in 1..n : printed'[i] = out[i - 1]
  <2> DEFINE S == {out[i - 1] : i \in 1..n}
  <2>1. printed' \in [1..n -> S]
    BY <1>2
  <2>2. \A i \in 1..n : printed'[i] = out[i - 1]
    BY <1>2
  <2> HIDE DEF S
  <2>3. printed' \in Seq(S) /\ Len(printed') = n
    BY <1>6, <2>1
  <2> QED
    BY <2>2, <2>3
<1>8. \A i \in 1..n : MayBe(got[i], printed'[i]) /\ printed'[i] # LF
  <2>1. \A i \in 1..n : i \in 1..(out_idx - 1)
    BY <1>6
  <2> QED
    BY <1>5, <1>7, <2>1 DEF CutPart
<1>9. MayBe(got[n + 1], LF) \/ MayBe(got[n + 1], NUL)
  <2>1. CASE n = out_idx - 1
    <3>1. n + 1 = out_idx
      BY <1>6, <2>1
    <3> QED
      BY <1>5, <3>1 DEF CutPart
  <2>2. CASE n # out_idx - 1
    <3>1. n + 1 \in 1..(out_idx - 1) /\ (n + 1) - 1 = n
      BY <1>6, <2>2
    <3> QED
      BY <1>2, <1>5, <3>1 DEF CutPart
  <2> QED
    BY <2>1, <2>2
<1>10. n < Len(got)
  BY <1>6
<1>11. Shown'
  BY <1>3, <1>6, <1>7, <1>8, <1>9, <1>10 DEF Shown, MayBe, ToChar
<1>12. NoReturn(Len(got))'
  <2>1. (out_idx + 1)..Len(got) = {}
    BY <1>6
  <2> QED
    BY <1>3, <2>1 DEF NoReturn
<1>13. ~reading' /\ out_idx' \in Nat /\ out_idx' <= Len(got')
  BY <1>3, <1>5, <1>6 DEF CutPart
<1>14. DrainPart'
  BY <1>1, <1>11, <1>12, <1>13 DEF DrainPart
<1> QED
  BY <1>4, <1>14 DEF MainInv

(* getchar begins behind the keys read so far. *)
LEMMA GetCharKeeps == MainInv /\ GetChar => MainInv'
<1> SUFFICES ASSUME MainInv, GetChar PROVE MainInv'
  OBVIOUS
<1>1. mpc = "drain" /\ mpc' = "getchar" /\ fd_read(1) /\ UNCHANGED <<out_idx, printed>>
  BY DEF GetChar, lineOnly
<1>2. InInv'
  BY <1>1, CallKeepsInv DEF MainInv
<1>3. reading' = TRUE /\ count' = 1 /\ start' = Len(got) /\ got' = got
  BY <1>1 DEF fd_read
<1>4. DrainPart
  BY <1>1 DEF MainInv, BeforePart, FirstLinePart, CutPart
<1>5. Shown'
  BY <1>1, <1>3, <1>4 DEF DrainPart, Shown, MayBe, ToChar
<1>6. NoReturn(Len(got)) /\ out_idx \in Nat /\ out_idx <= Len(got)
  BY <1>1, <1>4 DEF DrainPart
<1>7. NoReturn(start)'
  BY <1>1, <1>3, <1>6 DEF NoReturn, ToChar
<1>8. DrainPart'
  BY <1>1, <1>3, <1>5, <1>6, <1>7 DEF DrainPart
<1> QED
  BY <1>2, <1>8 DEF MainInv

(* A call for one byte takes one key, behind all that were taken before.    *)
LEMMA GetCharStepKeeps == MainInv /\ GetCharStep => MainInv'
<1> SUFFICES ASSUME MainInv, GetCharStep PROVE MainInv'
  OBVIOUS
<1>1. mpc = "getchar" /\ ReadStep /\ UNCHANGED <<mpc, printed, out_idx>>
  BY DEF GetCharStep, lineOnly, mainOnly
<1>2. InInv'
  BY <1>1, ReadStepKeepsInv DEF MainInv
<1>3. DrainPart /\ InInv
  BY <1>1 DEF MainInv, BeforePart, FirstLinePart, CutPart
<1>4. count = 1 /\ out_idx <= start /\ NoReturn(start) /\ Shown /\ out_idx \in Nat
  BY <1>1, <1>3 DEF DrainPart
<1>5. \/ \E k \in Key : NextKey(k)
      \/ ReturnFull
  BY <1>1 DEF ReadStep, SkipBackspace, StoreKey, StoreNewline
<1>6. /\ UNCHANGED <<count, start>> /\ Len(got') \in Nat /\ Len(got) <= Len(got')
      /\ \A i \in 1..Len(got) : got'[i] = got[i]
      /\ ~reading' => Len(got') = start + 1
  <2>1. CASE \E k \in Key : NextKey(k)
    <3> PICK k \in Key : NextKey(k)
      BY <2>1
    <3>1. got' = Append(got, k) /\ it # count /\ reading /\ UNCHANGED <<count, start>>
      BY DEF NextKey
    <3>2. Len(got') = Len(got) + 1 /\ \A i \in 1..Len(got) : got'[i] = got[i]
      BY <1>3, <3>1, ConsoleTypes
    <3>3. it = 0 /\ Received = it
      BY <1>3, <1>4, <3>1 DEF InInv, InTypeOK, LoopPart
    <3>4. Len(got) = start
      BY <1>3, <3>3, ConsoleTypes DEF Received
    <3>5. Len(got') \in Nat /\ Len(got) <= Len(got')
      BY <1>3, <3>2, ConsoleTypes
    <3> QED
      BY <3>1, <3>2, <3>4, <3>5
  <2>2. CASE ReturnFull
    <3>1. it = 1 /\ reading /\ UNCHANGED <<count, start, got>>
      BY <1>4, <2>2 DEF ReturnFull
    <3>2. Received = it
      BY <1>3, <3>1 DEF InInv, LoopPart
    <3>3. Len(got) = start + 1
      BY <1>3, <3>1, <3>2, ConsoleTypes DEF Received
    <3> QED
      BY <1>3, <3>1, <3>3, ConsoleTypes
  <2> QED
    BY <1>5, <2>1, <2>2
<1>7. Shown'
  BY <1>1, <1>3, <1>4, <1>6, ShownStays
<1>8. NoReturn(start)'
  <2>1. \A i \in (out_idx + 1)..start : i \in 1..Len(got)
    BY <1>3, <1>4, <1>6, ConsoleTypes
  <2> QED
    BY <1>1, <1>4, <1>6, <2>1 DEF NoReturn, ToChar
<1>9. out_idx' \in Nat /\ out_idx' <= Len(got')
  BY <1>1, <1>3, <1>4, <1>6, ConsoleTypes
<1>10. DrainPart'
  BY <1>1, <1>4, <1>6, <1>7, <1>8, <1>9 DEF DrainPart
<1> QED
  BY <1>2, <1>10 DEF MainInv

(* The loop ends with a byte that is a newline. *)
LEMMA GotCharKeeps == MainInv /\ GotChar => MainInv'
<1> SUFFICES ASSUME MainInv, NEW c \in Received1, mpc = "getchar", ~reading,
                    mpc' = IF c = LF THEN "exit" ELSE "drain",
                    UNCHANGED <<allVars, printed>>
             PROVE  MainInv'
  BY DEF GotChar
<1>1. UNCHANGED <<inVars, out_idx, got, reading, start>>
  BY DEF allVars, lineOnly, inVars
<1>2. InInv'
  BY <1>1, ConsoleStays DEF MainInv
<1>3. DrainPart /\ InInv
  BY DEF MainInv, BeforePart, FirstLinePart, CutPart
<1>4. /\ count = 1 /\ out_idx <= start /\ NoReturn(start) /\ Len(got) = start + 1
      /\ Shown /\ out_idx \in Nat /\ out_idx <= Len(got)
  BY <1>3 DEF DrainPart
<1>5. MayBe(got[Len(got)], c) /\ (c # LF => ToChar(got[Len(got)]) # LF)
  BY <1>3, <1>4, ByteIsKey
<1>6. Shown' /\ out_idx' \in Nat /\ out_idx' <= Len(got') /\ ~reading'
  BY <1>1, <1>4 DEF Shown, MayBe, ToChar
<1>7. CASE c = LF
  <2>1. Len(got) > out_idx /\ Len(got) - 1 = start
    BY <1>3, <1>4, ConsoleTypes
  <2>2. ExitTakesItsOwnReturn'
    BY <1>1, <1>4, <1>5, <1>7, <2>1 DEF ExitTakesItsOwnReturn, NoReturn, MayBe, ToChar
  <2> QED
    BY <1>2, <1>6, <1>7, <2>2 DEF MainInv, DrainPart
<1>8. CASE c # LF
  <2>1. \A i \in (out_idx + 1)..Len(got) : i \in (out_idx + 1)..start \/ i = Len(got)
    BY <1>3, <1>4, ConsoleTypes
  <2>2. NoReturn(Len(got))'
    BY <1>1, <1>4, <1>5, <1>8, <2>1 DEF NoReturn, ToChar
  <2> QED
    BY <1>2, <1>6, <1>8, <2>2 DEF MainInv, DrainPart
<1> QED
  BY <1>7, <1>8

(* Steps of nobody. *)
LEMMA MainStutter == MainInv /\ UNCHANGED mainVars => MainInv'
<1> SUFFICES ASSUME MainInv, UNCHANGED mainVars PROVE MainInv'
  OBVIOUS
<1>1. /\ UNCHANGED allVars /\ UNCHANGED inVars
      /\ UNCHANGED <<gpc, in, delim, out, out_size, out_idx, gret, calls, nomem, lineStart,
                     longest, mpc, printed>>
  BY DEF mainVars, mainOnly, allVars, lineOnly
<1>2. UNCHANGED <<got, reading, count, start>>
  BY <1>1 DEF inVars
<1>3. InInv'
  BY <1>1, ConsoleStays DEF MainInv
<1>4. LineInv => LineInv'
  BY <1>1, LineNext
<1>5. BeforePart => BeforePart'
  BY <1>1, <1>2, <1>4 DEF BeforePart
<1>6. FirstLinePart => FirstLinePart'
  BY <1>1, <1>2, <1>4 DEF FirstLinePart, Finished
<1>7. CutPart => CutPart'
  BY <1>1, <1>2 DEF CutPart, MayBe, ToChar
<1>8. DrainPart => DrainPart'
  <2>1. Shown => Shown'
    BY <1>1, <1>2 DEF Shown, MayBe, ToChar
  <2> QED
    BY <1>1, <1>2, <2>1 DEF DrainPart, NoReturn, ExitTakesItsOwnReturn, MayBe, ToChar
<1> QED
  BY <1>3, <1>5, <1>6, <1>7, <1>8 DEF MainInv

(* One step of main or of the user. *)
LEMMA MainKeepsInv == MainInv /\ [MainNext]_mainVars => MainInv'
BY MainUser, FillBlockKeeps, GetlineKeeps, ReadLineKeeps, CutKeeps, PrintKeeps,
   GetCharKeeps, GetCharStepKeeps, GotCharKeeps, MainStutter DEF MainNext, Program

(* The program keeps its invariant, whatever the user types. *)
THEOREM MainAlways == MainSpec => []MainInv
BY MainKeepsInv, MainInitInv, PTL DEF MainSpec

(* main prints the keys up to the first return, or to a key that has no     *)
(* character, though it cuts at the capacity and not at the length.         *)
THEOREM FirstLinePrinted == MainSpec => []PrintsFirstLine
<1>1. MainInv => PrintsFirstLine
  <2> SUFFICES ASSUME MainInv, mpc \in {"drain", "getchar", "exit"} PROVE PrintsFirstLine
    BY DEF PrintsFirstLine
  <2>1. Shown
    BY DEF MainInv, BeforePart, FirstLinePart, CutPart, DrainPart
  <2> QED
    BY <2>1 DEF Shown, PrintsFirstLine
<1> QED
  BY <1>1, MainAlways, PTL

(* The program exits at the first return after that of its line. *)
THEOREM ExitAtItsOwnReturn == MainSpec => []ExitTakesItsOwnReturn
<1>1. MainInv => ExitTakesItsOwnReturn
  <2> SUFFICES ASSUME MainInv, mpc = "exit" PROVE ExitTakesItsOwnReturn
    BY DEF ExitTakesItsOwnReturn
  <2> QED
    BY DEF MainInv, BeforePart, FirstLinePart, CutPart, DrainPart
<1> QED
  BY <1>1, MainAlways, PTL

-----------------------------------------------------------------------------
(* The program and its block. *)

(* Line input keeps its stores in the block, and goes wild without one.     *)
LEMMA LineBlock == LineInv => StoresInBounds /\ (gpc = "wild" => nomem)
<1>1. LineInv => StoresInBounds
  BY LineTypes DEF LineInv, BlockPart, StoresInBounds
<1>2. LineInv => (gpc = "wild" => nomem)
  BY DEF LineInv, BlockPart
<1> QED
  BY <1>1, <1>2

(* Where main cuts, the block holds the whole line and its NUL. *)
LEMMA CutInBlock ==
  ASSUME MainInv, Cut
  PROVE  /\ DOMAIN out = 0..out_size /\ out_idx \in DOMAIN out
         /\ out_size - 1 \in DOMAIN out
<1>1. mpc = "line" /\ gpc = "idle"
  BY DEF Cut
<1>2. LineInv /\ Finished
  BY <1>1 DEF MainInv, FirstLinePart, BeforePart, CutPart, DrainPart
<1>3. out_idx \in Nat /\ out_idx >= 1 /\ out_size \in Nat
  BY <1>1, <1>2, LineTypes DEF LineInv, LinePart
<1>4. out # << >>
  BY <1>1, <1>2, <1>3 DEF LineInv, BlockPart
<1>5. DOMAIN out = 0..out_size /\ out_idx <= out_size
  BY <1>2, <1>4 DEF LineInv, BlockPart
<1> QED
  BY <1>3, <1>5

(* The invariant: the stores of my_getdelim are in the block, and only a    *)
(* failed allocation makes the program store through NULL.                  *)
BlockInv == MainInv /\ StoresInBounds /\ (gpc = "wild" => nomem)

(* The cut is the one store into the block that is not line input's. *)
LEMMA BlockNext == BlockInv /\ [MainNext]_mainVars => BlockInv'
<1> SUFFICES ASSUME BlockInv, [MainNext]_mainVars
             PROVE  StoresInBounds' /\ (gpc' = "wild" => nomem')
  BY MainKeepsInv DEF BlockInv
<1>1. CASE UNCHANGED <<gpc, out, out_size, out_idx, calls, nomem>>
  BY <1>1 DEF BlockInv, StoresInBounds
<1>2. CASE FillBlock
  <2>1. mpc = "start" /\ gpc = "idle" /\ UNCHANGED calls
        /\ (gpc' = gpc \/ nomem' = TRUE)
    BY <1>2 DEF FillBlock
  <2>2. calls = 0
    BY <2>1 DEF BlockInv, MainInv, BeforePart, FirstLinePart, CutPart, DrainPart
  <2> QED
    BY <2>1, <2>2 DEF StoresInBounds
<1>3. CASE my_getline \/ ReadLine
  <2>1. MainInv' /\ mpc' = "line"
    BY <1>3, GetlineKeeps, ReadLineKeeps DEF BlockInv, my_getline, ReadLine, mainOnly
  <2>2. LineInv'
    BY <2>1 DEF MainInv, BeforePart, FirstLinePart, CutPart, DrainPart
  <2>3. (LineInv => StoresInBounds /\ (gpc = "wild" => nomem))'
    BY LineBlock, PTL
  <2> QED
    BY <2>2, <2>3
<1>4. CASE Cut
  <2>1. DOMAIN out = 0..out_size /\ out_idx \in DOMAIN out
    BY <1>4, CutInBlock DEF BlockInv
  <2>2. DOMAIN out' = DOMAIN out /\ UNCHANGED <<gpc, out_size, out_idx, nomem>>
    BY <1>4 DEF Cut
  <2> QED
    BY <2>1, <2>2 DEF StoresInBounds, BlockInv
<1>5. CASE PrintLine \/ GetChar \/ GetCharStep \/ GotChar \/ User \/ UNCHANGED mainVars
  BY <1>1, <1>5
  DEF PrintLine, GetChar, GetCharStep, GotChar, User, mainVars, allVars, lineOnly
<1> QED
  BY <1>2, <1>3, <1>4, <1>5 DEF MainNext, Program

(* Whatever the user types and whichever allocations fail. *)
THEOREM BlockAlways == MainSpec => []BlockInv
<1>1. MainInit => BlockInv
  BY MainInitInv, LineInit, LineBlock DEF MainInit, BlockInv
<1> QED
  BY <1>1, BlockNext, PTL DEF MainSpec

(* The line main reads is stored inside its block, the cut that is made at  *)
(* the capacity included.                                                   *)
THEOREM MainStoresInBounds == MainSpec => []StoresInBounds
BY BlockAlways, PTL DEF BlockInv

(* main stores through NULL only if malloc or realloc has failed. *)
THEOREM WildOnlyWithoutMemory == MainSpec => [](gpc = "wild" => nomem)
BY BlockAlways, PTL DEF BlockInv

(* input_buf[input_len-1] is a byte of the block. *)
THEOREM CutsInsideBlock == MainSpec => [][Cut => out_size - 1 \in DOMAIN out]_mainVars
<1>1. MainInv => [Cut => out_size - 1 \in DOMAIN out]_mainVars
  BY CutInBlock
<1> QED
  BY <1>1, MainAlways, PTL

-----------------------------------------------------------------------------
(* The program and the console. *)

(* my_getline and getchar call fd_read for one byte, and the rest of main   *)
(* leaves the console's input alone.                                        *)
LEMMA MainStepIsConsoleStep == [MainNext]_mainVars => [InNext]_inVars
<1> SUFFICES ASSUME [MainNext]_mainVars PROVE [InNext]_inVars
  OBVIOUS
<1>1. CASE my_getline \/ ReadLine \/ User
  <2>1. [Next]_allVars
    BY <1>1, MainAssumption DEF my_getline, ReadLine, Next
  <2> QED
    BY <2>1, LineStepIsConsoleStep
<1>2. CASE GetChar
  <2>1. 1 \in 0..MaxCount
    BY ConsoleInAssumption, GetLineAssumption
  <2> QED
    BY <1>2, <2>1 DEF GetChar, InNext
<1>3. CASE GetCharStep
  BY <1>3 DEF GetCharStep, InNext
<1>4. CASE FillBlock \/ Cut \/ PrintLine \/ GotChar \/ UNCHANGED mainVars
  BY <1>4 DEF FillBlock, Cut, PrintLine, GotChar, mainVars, allVars
<1> QED
  BY <1>1, <1>2, <1>3, <1>4 DEF MainNext, Program

(* What main does on the console's input is what a program may do there.    *)
THEOREM MainUsesConsole == MainSpec => InSpec
<1>1. MainInit => InInit
  BY DEF MainInit, Init
<1> QED
  BY <1>1, MainStepIsConsoleStep, PTL DEF MainSpec, InSpec

(* From the first key to the return it exits at, main is given every key    *)
(* that was delivered, and one made up for each failure of the keyboard.    *)
THEOREM MainLosesNoKey == MainSpec => []FailuresLoseNoKey
BY MainUsesConsole, FailuresCostNoKey, PTL

(* A step that takes a key is one of a call for one byte. *)
LEMMA MainEchoNext ==
  MainInv /\ EchoOmitsBackspaces /\ [MainNext]_mainVars => EchoOmitsBackspaces'
<1> SUFFICES ASSUME MainInv, EchoOmitsBackspaces, [MainNext]_mainVars
             PROVE  EchoOmitsBackspaces'
  OBVIOUS
<1>1. CASE UNCHANGED <<got, echo>>
  BY <1>1 DEF EchoOmitsBackspaces, ShownFor, Echo, Translated
<1>2. CASE my_getline
  BY <1>1, <1>2 DEF my_getline, my_getdelim, inVars
<1>3. CASE ReadLine
  <2>1. LineInv
    BY <1>3 DEF ReadLine, MainInv, BeforePart, FirstLinePart, CutPart, DrainPart
  <2>2. [Next]_allVars
    BY <1>3 DEF ReadLine, Next
  <2> QED
    BY <2>1, <2>2, EchoNext
<1>4. CASE GetCharStep
  <2>1. mpc = "getchar" /\ ReadStep
    BY <1>4 DEF GetCharStep
  <2>2. count = 1 /\ InInv
    BY <2>1 DEF MainInv, BeforePart, FirstLinePart, CutPart, DrainPart
  <2> QED
    BY <2>1, <2>2, ReadStepEchoes
<1>5. CASE \/ FillBlock \/ Cut \/ PrintLine \/ GetChar \/ GotChar \/ User
           \/ UNCHANGED mainVars
  BY <1>1, <1>5
  DEF FillBlock, Cut, PrintLine, GetChar, GotChar, User, Press, fd_read, mainVars,
      allVars, inVars
<1> QED
  BY <1>2, <1>3, <1>4, <1>5 DEF MainNext, Program

(* Its user sees every key but the backspaces, while main reads the line    *)
(* and while it waits for the return.                                       *)
THEOREM MainEchoes == MainSpec => []EchoOmitsBackspaces
<1>1. MainInit => MainInv /\ EchoOmitsBackspaces
  <2> SUFFICES ASSUME MainInit PROVE EchoOmitsBackspaces
    BY MainInitInv
  <2>1. Translated(ShownFor, << >>) = << >>
    BY ShownForShows, TranslatedEmpty
  <2> QED
    BY <2>1 DEF MainInit, Init, InInit, EchoOmitsBackspaces
<1>2. MainInv /\ EchoOmitsBackspaces /\ [MainNext]_mainVars
        => (MainInv /\ EchoOmitsBackspaces)'
  BY MainKeepsInv, MainEchoNext
<1> QED
  BY <1>1, <1>2, PTL DEF MainSpec
=============================================================================
