--------------------------- MODULE GetLineProofs ---------------------------
(* Line input for any keyboard, any number of keys and lines: the stores of *)
(* my_getdelim stay inside the block it has allocated, and a line holds the *)
(* keys since the call began, up to the first delimiter.                    *)
EXTENDS GetLine, ConsoleInProofs, TranslationProofs

(* The block has one byte more than *out_size, which is the length of the  *)
(* longest line so far, this one included, and at least 1.  A program that *)
(* has called my_getdelim is without a block only if memory ran out, and   *)
(* then nothing has been stored.                                           *)
BlockPart ==
  IF out = << >>
    THEN /\ calls = 0 => gpc = "idle"
         /\ calls # 0 => nomem
         /\ gpc # "wild" => out_idx = 0 /\ longest = 0
    ELSE /\ DOMAIN out = 0..out_size /\ calls # 0 /\ gpc # "wild"
         /\ 1 <= out_size /\ out_idx <= out_size /\ longest <= out_size
         /\ out_size \in {1, longest, out_idx}
         /\ gpc = "idle" => out_idx <= longest

(* Between two calls of fd_read everything the console has handed over is   *)
(* in the line; during one, or after it, there is one key that may not be.  *)
KeyPart ==
  /\ gpc \in {"idle", "read"} => ~reading /\ Len(got) = lineStart + out_idx
  /\ gpc \in {"wait", "wild"} =>
       /\ in = 0 /\ count = 1 /\ start = lineStart + out_idx
       /\ ~reading => Len(got) = start + 1
  /\ in # 0 => out_idx = 0

(* The byte stored for key number i of the line. *)
IsKey(i) ==
  Low[got[lineStart + i]] # BS => out[i - 1] = ToChar(got[lineStart + i])

LinePart ==
  gpc # "wild" =>
    /\ \A i \in 1..out_idx : IsKey(i)
    /\ \A i \in 1..(out_idx - 1) : out[i - 1] # delim
    /\ gpc # "idle" => \A i \in 1..out_idx : out[i - 1] # delim
    /\ Finished => /\ gret = out_idx + 1 /\ out_idx >= 1
                   /\ out[out_idx - 1] = delim /\ out[out_idx] = NUL

LineInv == InInv /\ LineTypeOK /\ BlockPart /\ KeyPart /\ LinePart

(* What the proofs use of the types. *)
LEMMA LineTypes ==
  ASSUME LineTypeOK
  PROVE  /\ out_size \in Nat /\ out_idx \in Nat /\ longest \in Nat /\ gret \in Int
         /\ calls \in Nat /\ lineStart \in Nat /\ Len(got) \in Nat
         /\ start \in Nat /\ lineStart <= Len(got) /\ start <= Len(got)
         /\ delim \in Char /\ got \in Seq(Key)
         /\ gpc \in {"idle", "read", "wait", "wild"}
BY GetLineAssumption DEF LineTypeOK, InTypeOK

(* The invariant holds when main is called. *)
LEMMA LineInit == Init => LineInv
<1> SUFFICES ASSUME Init PROVE LineInv
  OBVIOUS
<1>1. InInv
  BY InInitInv DEF Init
<1>2. LineTypeOK
  <2>1. nomem \in BOOLEAN
    BY DEF Init
  <2>2. lineStart \in 0..Len(got)
    BY DEF Init, InInit
  <2> QED
    BY <1>1, <2>1, <2>2, ConsoleInAssumption, GetLineAssumption DEF Init, LineTypeOK, InInv
<1>3. BlockPart
  BY DEF Init, BlockPart
<1>4. KeyPart /\ LinePart
  BY DEF Init, InInit, KeyPart, LinePart, Finished
<1> QED
  BY <1>1, <1>2, <1>3, <1>4 DEF LineInv

(* A key that is typed changes nothing of the line. *)
LEMMA UserKeepsInv == LineInv /\ User => LineInv'
<1> SUFFICES ASSUME LineInv, NEW k \in Key, Press(k), UNCHANGED lineOnly PROVE LineInv'
  BY DEF User
<1>1. UNCHANGED <<taken, failed, got, echo, reading, count, it, buf, ret, start>>
  BY DEF Press
<1>2. UNCHANGED <<gpc, in, delim, out, out_size, out_idx, gret, calls, nomem, lineStart,
                  longest>>
  BY DEF lineOnly
<1>3. InInv'
  BY PressKeepsInv DEF LineInv
<1>4. LineTypeOK'
  BY <1>1, <1>2, <1>3 DEF LineInv, LineTypeOK, InInv
<1>5. BlockPart' /\ KeyPart'
  BY <1>1, <1>2 DEF LineInv, BlockPart, KeyPart
<1>6. LinePart'
  BY <1>1, <1>2 DEF LineInv, LinePart, IsKey, ToChar, Finished
<1> QED
  BY <1>3, <1>4, <1>5, <1>6 DEF LineInv

(* A call of my_getdelim begins an empty line in the buffer of the last, or *)
(* in a new one, or without one.                                            *)
LEMMA BeginKeepsInv ==
  ASSUME LineInv, NEW fd \in Input, NEW d \in Delim, my_getdelim(fd, d)
  PROVE  LineInv'
<1>1. /\ gpc = "idle" /\ gpc' = "read" /\ in' = fd /\ delim' = d /\ out_idx' = 0
      /\ calls' = calls + 1 /\ lineStart' = Len(got) /\ calls < MaxLines
      /\ AllocateFirst /\ UNCHANGED <<gret, longest>>
  BY DEF my_getdelim
<1>2. UNCHANGED <<typed, taken, failed, got, echo, reading, count, it, buf, ret, start>>
  BY DEF my_getdelim, inVars
<1>3. InInv'
  BY <1>2 DEF LineInv, InInv, InTypeOK, LoopPart, Received, Stored, ToChar,
              BufferHoldsKeysInOrder, ReturnIsExactOnlyAfterNewline
<1>4. calls' # 0 /\ calls' \in 0..MaxLines
  BY <1>1, LineTypes, GetLineAssumption DEF LineInv
<1>5. BlockPart' /\ out_size' \in Nat
  <2>1. CASE out # << >>
    <3>1. UNCHANGED <<out, out_size, nomem>> /\ out_idx <= longest
      BY <1>1, <2>1 DEF AllocateFirst, LineInv, BlockPart
    <3> QED
      BY <1>1, <1>4, <2>1, <3>1, LineTypes DEF LineInv, BlockPart
  <2>2. CASE out = << >> /\ out' = [i \in 0..1 |-> Unset]
    <3>1. out_size' = 1 /\ longest = 0
      BY <1>1, <2>2 DEF AllocateFirst, LineInv, BlockPart
    <3>2. DOMAIN out' = 0..1 /\ DOMAIN << >> = {} /\ 0 \in 0..1
      BY <2>2
    <3>3. out' # << >>
      BY <3>2
    <3> QED
      BY <1>1, <1>4, <3>1, <3>2, <3>3 DEF BlockPart
  <2>3. CASE out = << >> /\ out' = << >> /\ nomem' = TRUE
    <3>1. out_size' = 1 /\ longest = 0
      BY <1>1, <2>3 DEF AllocateFirst, LineInv, BlockPart
    <3> QED
      BY <1>1, <1>4, <2>3, <3>1 DEF BlockPart
  <2> QED
    BY <1>1, <2>1, <2>2, <2>3 DEF AllocateFirst
<1>6. LineTypeOK'
  <2>1. nomem' \in BOOLEAN
    BY <1>1 DEF AllocateFirst, LineInv, LineTypeOK
  <2>2. lineStart' \in 0..Len(got')
    BY <1>1, <1>2, LineTypes DEF LineInv
  <2> QED
    BY <1>1, <1>3, <1>4, <1>5, <2>1, <2>2, LineTypes, GetLineAssumption
    DEF LineInv, LineTypeOK, InInv
<1>7. KeyPart'
  BY <1>1, <1>2, LineTypes DEF LineInv, KeyPart
<1>8. LinePart'
  BY <1>1 DEF LinePart, Finished
<1> QED
  BY <1>3, <1>5, <1>6, <1>7, <1>8 DEF LineInv

(* read(in, &c, 1) on the console begins at the first key not in the line. *)
LEMMA ReadCharKeepsInv == LineInv /\ ReadChar => LineInv'
<1> SUFFICES ASSUME LineInv, ReadChar PROVE LineInv'
  OBVIOUS
<1>1. /\ gpc = "read" /\ in = 0 /\ gpc' = "wait" /\ fd_read(1)
      /\ UNCHANGED <<in, delim, out, out_size, out_idx, gret, calls, nomem, lineStart, longest>>
  BY DEF ReadChar
<1>2. /\ reading' = TRUE /\ count' = 1 /\ start' = Len(got)
      /\ UNCHANGED <<typed, taken, failed, got, echo, ret>>
  BY <1>1 DEF fd_read
<1>3. InInv'
  BY <1>1, CallKeepsInv DEF LineInv
<1>4. LineTypeOK'
  BY <1>1, <1>2, <1>3 DEF LineInv, LineTypeOK, InInv
<1>5. BlockPart'
  BY <1>1 DEF LineInv, BlockPart
<1>6. KeyPart'
  BY <1>1, <1>2 DEF LineInv, KeyPart
<1>7. LinePart'
  BY <1>1, <1>2 DEF LineInv, LinePart, IsKey, ToChar, Finished
<1> QED
  BY <1>3, <1>4, <1>5, <1>6, <1>7 DEF LineInv

(* A read that fails ends the call with an empty line. *)
LEMMA ReadFailsKeepsInv == LineInv /\ ReadFails => LineInv'
<1> SUFFICES ASSUME LineInv, ReadFails PROVE LineInv'
  OBVIOUS
<1>1. /\ gpc = "read" /\ in # 0 /\ gpc' = "idle" /\ gret' = -1
      /\ UNCHANGED <<in, delim, out, out_size, out_idx, calls, nomem, lineStart, longest>>
  BY DEF ReadFails
<1>2. UNCHANGED <<typed, taken, failed, got, echo, reading, count, it, buf, ret, start>>
  BY DEF ReadFails, inVars
<1>3. InInv'
  BY <1>2 DEF LineInv, InInv, InTypeOK, LoopPart, Received, Stored, ToChar,
              BufferHoldsKeysInOrder, ReturnIsExactOnlyAfterNewline
<1>4. LineTypeOK'
  BY <1>1, <1>2, <1>3 DEF LineInv, LineTypeOK, InInv
<1>5. out_idx = 0
  BY <1>1 DEF LineInv, KeyPart
<1>6. BlockPart'
  BY <1>1, <1>5, LineTypes DEF LineInv, BlockPart
<1>7. KeyPart'
  BY <1>1, <1>2 DEF LineInv, KeyPart
<1>8. LinePart'
  BY <1>1, <1>2, <1>5 DEF LineInv, LinePart, IsKey, Finished
<1> QED
  BY <1>3, <1>4, <1>6, <1>7, <1>8 DEF LineInv

(* While fd_read waits for the key, and when it has it, the line is as it   *)
(* was; the call takes one key before it returns.                           *)
LEMMA ConsoleStepKeepsInv == LineInv /\ ConsoleStep => LineInv'
<1> SUFFICES ASSUME LineInv, ConsoleStep PROVE LineInv'
  OBVIOUS
<1>1. gpc = "wait" /\ ReadStep
  BY DEF ConsoleStep
<1>2. UNCHANGED <<gpc, in, delim, out, out_size, out_idx, gret, calls, nomem, lineStart,
                  longest>>
  BY DEF ConsoleStep, lineOnly
<1>3. InInv'
  BY <1>1, ReadStepKeepsInv DEF LineInv
<1>4. \/ \E k \in Key : NextKey(k) /\ reading
      \/ ReturnFull
  BY <1>1 DEF ReadStep, SkipBackspace, StoreKey, StoreNewline, NextKey
<1>5. reading /\ count = 1 /\ it \in 0..1 /\ Len(got) = start + it
  <2>1. reading /\ count = 1
    BY <1>1, <1>4 DEF LineInv, KeyPart, ReturnFull
  <2>2. it \in 0..1 /\ Received = it
    BY <2>1 DEF LineInv, InInv, InTypeOK, LoopPart
  <2> QED
    BY <2>1, <2>2, LineTypes DEF Received, LineInv
<1>6. /\ UNCHANGED <<count, start>> /\ Len(got) <= Len(got')
      /\ \A i \in 1..Len(got) : got'[i] = got[i]
      /\ ~reading' => Len(got') = start + 1
  <2>1. ASSUME NEW k \in Key, NextKey(k)
        PROVE  /\ UNCHANGED <<count, start>> /\ Len(got) <= Len(got')
               /\ \A i \in 1..Len(got) : got'[i] = got[i]
               /\ Len(got') = start + 1
    <3>1. got' = Append(got, k) /\ it # count /\ UNCHANGED <<count, start>>
      BY <2>1 DEF NextKey
    <3>2. Len(got') = Len(got) + 1 /\ \A i \in 1..Len(got) : got'[i] = got[i]
      BY <3>1, LineTypes DEF LineInv
    <3> QED
      BY <1>5, <3>1, <3>2, LineTypes DEF LineInv
  <2>2. CASE ReturnFull
    BY <1>5, <2>2, LineTypes DEF ReturnFull, LineInv
  <2> QED
    BY <1>4, <2>1, <2>2
<1>7. LineTypeOK'
  <2>1. lineStart' \in 0..Len(got')
    <3>1. got' \in Seq(Key)
      BY <1>3 DEF InInv, InTypeOK
    <3>2. Len(got') \in Nat
      BY <3>1
    <3> QED
      BY <1>2, <1>6, <3>2, LineTypes DEF LineInv
  <2> QED
    BY <1>2, <1>3, <2>1 DEF LineInv, LineTypeOK, InInv
<1>8. BlockPart'
  BY <1>2 DEF LineInv, BlockPart
<1>9. KeyPart'
  BY <1>1, <1>2, <1>6 DEF LineInv, KeyPart
<1>10. LinePart'
  <2>1. \A i \in 1..out_idx : lineStart + i \in 1..Len(got)
    BY <1>1, <1>5, LineTypes DEF LineInv, KeyPart
  <2> QED
    BY <1>1, <1>2, <1>6, <2>1 DEF LineInv, LinePart, IsKey, ToChar, Finished
<1> QED
  BY <1>3, <1>7, <1>8, <1>9, <1>10 DEF LineInv

(* The block grows by one byte exactly when the next store would not leave  *)
(* room for the NUL, and keeps the bytes of the line.                       *)
LEMMA GrownFacts ==
  ASSUME LineInv, gpc = "wait", out # << >>
  PROVE  /\ calls # 0 /\ Grown.size \in Nat
         /\ DOMAIN Grown.bytes = 0..Grown.size
         /\ out_idx + 1 <= Grown.size /\ longest <= Grown.size
         /\ Grown.size \in {1, longest, out_idx + 1}
         /\ \A j \in 0..(out_idx - 1) : Grown.bytes[j] = out[j]
<1>1. /\ calls # 0 /\ DOMAIN out = 0..out_size /\ out_idx <= out_size
      /\ longest <= out_size /\ out_size \in {1, longest, out_idx}
  BY DEF LineInv, BlockPart
<1>2. out_size \in Nat /\ out_idx \in Nat /\ longest \in Nat
  BY LineTypes DEF LineInv
<1>3. CASE out_size < out_idx + 1
  <2>1. out_size = out_idx
    BY <1>1, <1>2, <1>3
  <2>2. Grown.size = out_size + 1 /\ Grown.bytes = Realloc(out_size + 1)
    BY <1>3 DEF Grown
  <2>3. DOMAIN Realloc(out_size + 1) = 0..(out_size + 1)
    BY DEF Realloc
  <2>4. \A j \in 0..(out_idx - 1) : Realloc(out_size + 1)[j] = out[j]
    BY <1>1, <1>2, <2>1 DEF Realloc
  <2> QED
    BY <1>1, <1>2, <2>1, <2>2, <2>3, <2>4
<1>4. CASE ~(out_size < out_idx + 1)
  <2>1. Grown.size = out_size /\ Grown.bytes = out
    BY <1>4 DEF Grown
  <2> QED
    BY <1>1, <1>2, <1>4, <2>1
<1> QED
  BY <1>3, <1>4

(* The byte read() has delivered is that of the next key of the line. *)
LEMMA ReceivedIsKey ==
  ASSUME LineInv, gpc = "wait", ~reading, NEW c \in Received1
  PROVE  LET k == got[lineStart + (out_idx + 1)]
         IN  Low[k] # BS => c = ToChar(k)
<1> DEFINE k == got[start + 1]
<1>1. /\ count = 1 /\ start = lineStart + out_idx /\ Len(got) = start + 1
  BY DEF LineInv, KeyPart
<1>2. lineStart + (out_idx + 1) = start + 1 /\ start + 1 \in 1..Len(got)
      /\ start + 1 + 0 = start + 1
  BY <1>1, LineTypes DEF LineInv
<1>3. k \in Key
  BY <1>2, LineTypes DEF LineInv
<1>4. Received = 1
  BY <1>1, LineTypes DEF Received, LineInv
<1>5. buf[0] = Stored(0)
  BY <1>1, <1>4 DEF LineInv, InInv, BufferHoldsKeysInOrder
<1>6. Stored(0) = IF Low[k] = BS THEN Unset ELSE ToChar(k)
  BY <1>2 DEF Stored
<1>7. Low[k] # BS => c = ToChar(k)
  BY <1>3, <1>5, <1>6, ToCharIsChar DEF Received1
<1> QED
  BY <1>2, <1>7

(* What both ways of storing a byte do to the part of the line before it.   *)
LEMMA StoreByte ==
  ASSUME LineInv, gpc = "wait", ~reading, NEW c \in Received1,
         UNCHANGED <<inVars, delim, lineStart>>, out_idx' = out_idx + 1,
         \A j \in 0..(out_idx - 1) : out'[j] = out[j], out'[out_idx] = c
  PROVE  /\ \A i \in 1..out_idx' : IsKey(i)'
         /\ \A i \in 1..(out_idx' - 1) : out'[i - 1] # delim'
<1>1. out_idx \in Nat /\ got' = got
  BY LineTypes DEF LineInv, inVars
<1>2. \A i \in 1..out_idx : IsKey(i) /\ out[i - 1] # delim
  BY DEF LineInv, LinePart
<1>3. \A i \in 1..out_idx : out'[i - 1] = out[i - 1]
  BY <1>1
<1>4. \A i \in 1..out_idx : IsKey(i)' /\ out'[i - 1] # delim'
  BY <1>1, <1>2, <1>3 DEF IsKey, ToChar
<1>5. ASSUME NEW i, i = out_idx + 1 PROVE IsKey(i)'
  <2>1. LET k == got[lineStart + i]
        IN  Low[k] # BS => out'[out_idx] = ToChar(k)
    BY <1>5, ReceivedIsKey
  <2>2. i - 1 = out_idx
    BY <1>1, <1>5
  <2> QED
    BY <1>1, <2>1, <2>2 DEF IsKey, ToChar
<1>6. \A i \in 1..out_idx' : i \in 1..out_idx \/ i = out_idx + 1
  BY <1>1
<1>7. \A i \in 1..(out_idx' - 1) : i \in 1..out_idx
  BY <1>1
<1> QED
  BY <1>4, <1>5, <1>6, <1>7

(* A byte that is not the delimiter. *)
LEMMA AddCharKeepsInv ==
  ASSUME LineInv, NEW c \in Char, AddChar(c)
  PROVE  LineInv'
<1>1. /\ gpc = "wait" /\ ~reading /\ c \in Received1 /\ c # delim /\ out # << >>
      /\ out_size' = Grown.size /\ out' = [Grown.bytes EXCEPT ![out_idx] = c]
      /\ out_idx' = out_idx + 1 /\ gpc' = "read"
      /\ UNCHANGED <<inVars, in, delim, gret, calls, nomem, lineStart, longest>>
  BY DEF AddChar
<1>2. UNCHANGED <<typed, taken, failed, got, echo, reading, count, it, buf, ret, start>>
  BY <1>1 DEF inVars
<1>3. InInv'
  BY <1>2 DEF LineInv, InInv, InTypeOK, LoopPart, Received, Stored, ToChar,
              BufferHoldsKeysInOrder, ReturnIsExactOnlyAfterNewline
<1>4. /\ out_size' \in Nat /\ calls # 0 /\ DOMAIN out' = 0..out_size'
      /\ out_idx' <= out_size' /\ longest <= out_size'
      /\ out_size' \in {1, longest, out_idx'} /\ 1 <= out_size'
      /\ out_idx \in 0..out_size'
  BY <1>1, GrownFacts, LineTypes DEF LineInv
<1>5. LineTypeOK'
  BY <1>1, <1>2, <1>3, <1>4, LineTypes DEF LineInv, LineTypeOK, InInv
<1>6. BlockPart'
  <2>1. out' # << >>
    <3>1. out_idx \in DOMAIN out' /\ DOMAIN << >> = {}
      BY <1>4
    <3> QED
      BY <3>1
  <2> QED
    BY <1>1, <1>4, <2>1 DEF BlockPart
<1>7. KeyPart'
  BY <1>1, <1>2, LineTypes DEF LineInv, KeyPart
<1>8. LinePart'
  <2>1. DOMAIN Grown.bytes = 0..Grown.size /\ out_idx \in Nat
    BY <1>1, GrownFacts, LineTypes DEF LineInv
  <2>2. \A j \in 0..(out_idx - 1) : out'[j] = out[j]
    BY <1>1, <1>4, <2>1, GrownFacts
  <2>3. out'[out_idx] = c
    BY <1>1, <1>4, <2>1
  <2>4. /\ \A i \in 1..out_idx' : IsKey(i)'
        /\ \A i \in 1..(out_idx' - 1) : out'[i - 1] # delim'
    BY <1>1, <2>2, <2>3, StoreByte
  <2>5. \A i \in 1..out_idx' : out'[i - 1] # delim'
    <3>1. \A i \in 1..out_idx' : i \in 1..(out_idx' - 1) \/ i - 1 = out_idx
      BY <1>1, <2>1
    <3> QED
      BY <1>1, <2>3, <2>4, <3>1
  <2> QED
    BY <1>1, <2>4, <2>5 DEF LinePart, Finished
<1> QED
  BY <1>3, <1>5, <1>6, <1>7, <1>8 DEF LineInv

(* The delimiter and the NUL behind it. *)
LEMMA EndLineKeepsInv == LineInv /\ EndLine => LineInv'
<1> SUFFICES ASSUME LineInv, EndLine PROVE LineInv'
  OBVIOUS
<1>1. /\ gpc = "wait" /\ ~reading /\ delim \in Received1 /\ out # << >>
      /\ out_size' = Grown.size
      /\ out' = [Grown.bytes EXCEPT ![out_idx] = delim, ![out_idx + 1] = NUL]
      /\ out_idx' = out_idx + 1 /\ gpc' = "idle" /\ gret' = out_idx' + 1
      /\ longest' = IF out_idx' > longest THEN out_idx' ELSE longest
      /\ UNCHANGED <<inVars, in, delim, calls, nomem, lineStart>>
  BY DEF EndLine
<1>2. UNCHANGED <<typed, taken, failed, got, echo, reading, count, it, buf, ret, start>>
  BY <1>1 DEF inVars
<1>3. InInv'
  BY <1>2 DEF LineInv, InInv, InTypeOK, LoopPart, Received, Stored, ToChar,
              BufferHoldsKeysInOrder, ReturnIsExactOnlyAfterNewline
<1>4. /\ out_size' \in Nat /\ calls # 0 /\ DOMAIN out' = 0..out_size'
      /\ out_idx' <= out_size' /\ longest <= out_size'
      /\ out_size' \in {1, longest, out_idx'} /\ 1 <= out_size'
      /\ out_idx \in 0..out_size' /\ out_idx + 1 \in 0..out_size'
  <2>1. /\ out_size' \in Nat /\ calls # 0 /\ DOMAIN Grown.bytes = 0..out_size'
        /\ out_idx + 1 <= out_size' /\ longest <= out_size'
        /\ out_size' \in {1, longest, out_idx + 1}
    BY <1>1, GrownFacts
  <2>2. out_idx \in Nat
    BY LineTypes DEF LineInv
  <2>3. DOMAIN out' = 0..out_size'
    BY <1>1, <2>1
  <2> QED
    BY <1>1, <2>1, <2>2, <2>3
<1>5. longest' \in Nat /\ longest' <= out_size' /\ longest <= longest'
      /\ out_idx' <= longest' /\ longest' \in {longest, out_idx'}
  <2>1. out_idx' \in Nat /\ longest \in Nat
    BY <1>1, LineTypes DEF LineInv
  <2>2. CASE out_idx' > longest
    BY <1>1, <1>4, <2>1, <2>2
  <2>3. CASE ~(out_idx' > longest)
    BY <1>1, <1>4, <2>1, <2>3
  <2> QED
    BY <2>2, <2>3
<1>6. LineTypeOK'
  BY <1>1, <1>2, <1>3, <1>4, <1>5, LineTypes DEF LineInv, LineTypeOK, InInv
<1>7. BlockPart'
  <2>1. out_size' \in {1, longest', out_idx'}
    BY <1>1, <1>4, <1>5, LineTypes DEF LineInv
  <2>2. out' # << >>
    <3>1. out_idx \in DOMAIN out' /\ DOMAIN << >> = {}
      BY <1>4
    <3> QED
      BY <3>1
  <2> QED
    BY <1>1, <1>4, <1>5, <2>1, <2>2 DEF BlockPart
<1>8. KeyPart'
  BY <1>1, <1>2, LineTypes DEF LineInv, KeyPart
<1>9. LinePart'
  <2>1. DOMAIN Grown.bytes = 0..Grown.size /\ out_idx \in Nat
    BY <1>1, GrownFacts, LineTypes DEF LineInv
  <2>2. \A j \in 0..(out_idx - 1) : out'[j] = out[j]
    BY <1>1, <1>4, <2>1, GrownFacts
  <2>3. out'[out_idx] = delim /\ out'[out_idx + 1] = NUL
    BY <1>1, <1>4, <2>1
  <2>4. /\ \A i \in 1..out_idx' : IsKey(i)'
        /\ \A i \in 1..(out_idx' - 1) : out'[i - 1] # delim'
    BY <1>1, <2>2, <2>3, StoreByte
  <2>5. gret' = out_idx' + 1 /\ out_idx' >= 1 /\ out_idx' - 1 = out_idx
    BY <1>1, <2>1
  <2> QED
    BY <1>1, <2>3, <2>4, <2>5 DEF LinePart
<1> QED
  BY <1>3, <1>6, <1>7, <1>8, <1>9 DEF LineInv

(* A store through NULL: the memory has run out, and the line is gone. *)
LEMMA StoreToNullKeepsInv == LineInv /\ StoreToNull => LineInv'
<1> SUFFICES ASSUME LineInv, StoreToNull PROVE LineInv'
  OBVIOUS
<1>1. /\ gpc = "wait" /\ ~reading /\ gpc' = "wild" /\ out' = << >>
      /\ UNCHANGED <<inVars, in, delim, out_idx, gret, calls, lineStart, longest>>
  BY DEF StoreToNull
<1>2. UNCHANGED <<typed, taken, failed, got, echo, reading, count, it, buf, ret, start>>
  BY <1>1 DEF inVars
<1>3. InInv'
  BY <1>2 DEF LineInv, InInv, InTypeOK, LoopPart, Received, Stored, ToChar,
              BufferHoldsKeysInOrder, ReturnIsExactOnlyAfterNewline
<1>4. out_size' \in Nat
  BY LineTypes DEF StoreToNull, LineInv
<1>5. nomem' \in BOOLEAN
  BY DEF StoreToNull, LineInv, LineTypeOK
<1>6. LineTypeOK'
  BY <1>1, <1>2, <1>3, <1>4, <1>5 DEF LineInv, LineTypeOK, InInv
<1>7. calls # 0 /\ (out = << >> => nomem)
  BY <1>1 DEF LineInv, BlockPart
<1>8. BlockPart'
  BY <1>1, <1>7 DEF StoreToNull, BlockPart
<1>9. KeyPart' /\ LinePart'
  BY <1>1, <1>2 DEF LineInv, KeyPart, LinePart
<1> QED
  BY <1>3, <1>6, <1>8, <1>9 DEF LineInv

(* Every step of a program that reads lines keeps the invariant. *)
LEMMA LineNext == LineInv /\ [Next]_allVars => LineInv'
<1> SUFFICES ASSUME LineInv, [Next]_allVars PROVE LineInv'
  OBVIOUS
<1>1. CASE \E fd \in Input, d \in Delim : my_getdelim(fd, d)
  BY <1>1, BeginKeepsInv
<1>2. CASE Reader
  BY <1>2, ReadCharKeepsInv, ReadFailsKeepsInv, ConsoleStepKeepsInv,
     AddCharKeepsInv, EndLineKeepsInv, StoreToNullKeepsInv DEF Reader
<1>3. CASE User
  BY <1>3, UserKeepsInv
<1>4. CASE UNCHANGED allVars
  <2>1. UNCHANGED <<typed, taken, failed, got, echo, reading, count, it, buf, ret, start>>
    BY <1>4 DEF allVars, inVars
  <2>2. UNCHANGED <<gpc, in, delim, out, out_size, out_idx, gret, calls, nomem,
                    lineStart, longest>>
    BY <1>4 DEF allVars, lineOnly
  <2>3. InInv'
    BY <2>1 DEF LineInv, InInv, InTypeOK, LoopPart, Received, Stored, ToChar,
                BufferHoldsKeysInOrder, ReturnIsExactOnlyAfterNewline
  <2>4. LineTypeOK'
    BY <2>1, <2>2, <2>3 DEF LineInv, LineTypeOK, InInv
  <2>5. BlockPart' /\ KeyPart'
    BY <2>1, <2>2 DEF LineInv, BlockPart, KeyPart
  <2>6. LinePart'
    BY <2>1, <2>2 DEF LineInv, LinePart, IsKey, ToChar, Finished
  <2> QED
    BY <2>3, <2>4, <2>5, <2>6 DEF LineInv
<1> QED
  BY <1>1, <1>2, <1>3, <1>4 DEF Next

(* The lines of any program keep the invariant. *)
THEOREM LinesAlways == Spec => []LineInv
BY LineInit, LineNext, PTL DEF Spec

(* The state of line input has its types. *)
THEOREM LineTypesAlways == Spec => []LineTypeOK
BY LinesAlways, PTL DEF LineInv

(* Every store of my_getdelim, the NUL included, is inside its block, for   *)
(* lines of any length and a buffer reused any number of times; without a   *)
(* block it is only if an allocation has failed.                            *)
THEOREM LineStoresInBounds == Spec => []StoresInBounds
<1>1. LineInv => StoresInBounds
  BY LineTypes DEF LineInv, BlockPart, StoresInBounds
<1> QED
  BY <1>1, LinesAlways, PTL

(* A line is the keys since the call began, in order, up to the delimiter.  *)
THEOREM LineIsItsKeys == Spec => []LineMatchesKeys
<1>1. LineInv => LineMatchesKeys
  <2> SUFFICES ASSUME LineInv PROVE LineMatchesKeys
    OBVIOUS
  <2>1. out_idx \in Nat
    BY LineTypes DEF LineInv
  <2>2. CASE gpc = "wild"
    <3>1. Line = << >> /\ ~Finished
      BY <2>2 DEF Line, Finished
    <3>2. DOMAIN Line = {}
      BY <3>1
    <3> QED
      BY <3>1, <3>2 DEF LineMatchesKeys
  <2>3. CASE gpc # "wild"
    <3>1. DOMAIN Line = 1..out_idx /\ \A i \in 1..out_idx : Line[i] = out[i - 1]
      BY <2>1, <2>3 DEF Line
    <3>2. Finished => Len(got) = lineStart + out_idx
      BY DEF LineInv, KeyPart, Finished
    <3>3. Finished => out_idx \in 1..out_idx
      BY <2>1, <2>3 DEF LineInv, LinePart
    <3>4. \A i \in 1..out_idx : i < out_idx => i \in 1..(out_idx - 1)
      BY <2>1
    <3> QED
      BY <2>3, <3>1, <3>2, <3>3, <3>4 DEF LineInv, LinePart, IsKey, LineMatchesKeys
  <2> QED
    BY <2>2, <2>3
<1> QED
  BY <1>1, LinesAlways, PTL

(* *out_size is the place behind the newline exactly for a longest line.    *)
THEOREM CutIsForLongestLine == Spec => []CutHitsNewline
<1>1. LineInv => CutHitsNewline
  BY LineTypes DEF LineInv, BlockPart, LinePart, Finished, CutHitsNewline
<1> QED
  BY <1>1, LinesAlways, PTL

-----------------------------------------------------------------------------
(* Line input is a program over the console, so that whatever is proved of  *)
(* every program over the console holds of it.                              *)

(* my_getdelim calls fd_read for one byte at a time, and touches nothing    *)
(* else of the console.                                                     *)
LEMMA LineStepIsConsoleStep == [Next]_allVars => [InNext]_inVars
<1> SUFFICES ASSUME [Next]_allVars PROVE [InNext]_inVars
  OBVIOUS
<1>1. CASE User
  BY <1>1 DEF User, InNext
<1>2. CASE ReadChar
  <2>1. 1 \in 0..MaxCount
    BY ConsoleInAssumption, GetLineAssumption
  <2> QED
    BY <1>2, <2>1 DEF ReadChar, InNext
<1>3. CASE ConsoleStep
  BY <1>3 DEF ConsoleStep, InNext
<1>4. CASE UNCHANGED allVars
  BY <1>4 DEF allVars
<1> QED
  BY <1>1, <1>2, <1>3, <1>4
  DEF Next, Reader, my_getdelim, ReadFails, AddChar, EndLine, StoreToNull

(* What my_getdelim does on the console is what a program may do there.     *)
THEOREM LineUsesConsole == Spec => InSpec
<1>1. Init => InInit
  BY DEF Init
<1> QED
  BY <1>1, LineStepIsConsoleStep, PTL DEF Spec, InSpec

(* So a failing keyboard costs a line no key either: what my_getdelim is    *)
(* given is every key that was delivered, and one made up for each failure. *)
THEOREM LinesLoseNoKey == Spec => []FailuresLoseNoKey
BY LineUsesConsole, FailuresCostNoKey, PTL

-----------------------------------------------------------------------------
(* What is on the screen. *)

(* What the reader shows for a key is a sequence of characters.             *)
LEMMA ShownForShows == ShownFor \in [Key -> Seq(Key \cup {LF})]
<1>1. << >> \in Seq(Key \cup {LF})
  OBVIOUS
<1> QED
  BY <1>1, EchoIsShown DEF ShownFor

(* TranslatedAppend, for the keys. *)
LEMMA ShownForKey ==
  ASSUME NEW s \in Seq(Key), NEW k \in Key
  PROVE  Translated(ShownFor, Append(s, k)) = Translated(ShownFor, s) \o ShownFor[k]
BY ShownForShows, TranslatedAppend

(* A call for one byte looks at each key in first place: it shows none of   *)
(* the backspaces, and everything else.                                     *)
LEMMA IterationEchoes ==
  ASSUME InInv, EchoOmitsBackspaces, count = 1,
         NEW k \in Key, SkipBackspace(k) \/ StoreKey(k) \/ StoreNewline(k)
  PROVE  EchoOmitsBackspaces'
<1>1. NextKey(k)
  BY DEF SkipBackspace, StoreKey, StoreNewline
<1>2. it \in 0..count /\ it # count
  BY <1>1 DEF NextKey, InInv, InTypeOK
<1>3. it = 0
  BY <1>2
<1>4. got' = Append(got, k) /\ got \in Seq(Key)
  BY <1>1 DEF NextKey, InInv, InTypeOK
<1>5. echo \in Seq(Key \cup {LF})
  BY DEF InInv, InTypeOK
<1>6. echo' = echo \o ShownFor[k]
  <2>1. CASE SkipBackspace(k)
    <3>1. ShownFor[k] = << >> /\ echo' = echo
      BY <2>1 DEF SkipBackspace, ShownFor
    <3>2. echo \o << >> = echo
      BY <1>5
    <3> QED
      BY <3>1, <3>2
  <2>2. CASE StoreKey(k) \/ StoreNewline(k)
    <3>1. Low[k] # BS /\ echo' = echo \o Echo(k)
      BY <1>3, <2>2, ConsoleInAssumption DEF StoreKey, StoreNewline, ToChar
    <3> QED
      BY <3>1 DEF ShownFor
  <2> QED
    BY <2>1, <2>2
<1>7. Translated(ShownFor, Append(got, k)) = Translated(ShownFor, got) \o ShownFor[k]
  BY <1>4, ShownForKey
<1> QED
  BY <1>4, <1>6, <1>7 DEF EchoOmitsBackspaces, ShownFor, Echo

(* Any step of a call for one byte. *)
LEMMA ReadStepEchoes ==
  ASSUME InInv, EchoOmitsBackspaces, count = 1, ReadStep
  PROVE  EchoOmitsBackspaces'
<1>1. CASE \E k \in Key : SkipBackspace(k) \/ StoreKey(k) \/ StoreNewline(k)
  BY <1>1, IterationEchoes
<1>2. CASE ReturnFull
  BY <1>2 DEF ReturnFull, EchoOmitsBackspaces, ShownFor, Echo, Translated
<1> QED
  BY <1>1, <1>2 DEF ReadStep

(* The other steps show nothing and take no key. *)
LEMMA EchoNext ==
  LineInv /\ EchoOmitsBackspaces /\ [Next]_allVars => EchoOmitsBackspaces'
<1> SUFFICES ASSUME LineInv, EchoOmitsBackspaces, [Next]_allVars
             PROVE  EchoOmitsBackspaces'
  OBVIOUS
<1>1. CASE UNCHANGED <<got, echo>>
  BY <1>1 DEF EchoOmitsBackspaces, ShownFor, Echo, Translated
<1>2. ASSUME ConsoleStep PROVE EchoOmitsBackspaces'
  <2>1. gpc = "wait" /\ ReadStep
    BY <1>2 DEF ConsoleStep
  <2>2. InInv /\ count = 1
    BY <2>1 DEF LineInv, KeyPart
  <2> QED
    BY <2>1, <2>2, ReadStepEchoes
<1>3. ConsoleStep \/ UNCHANGED <<got, echo>>
  BY DEF Next, Reader, User, my_getdelim, ReadChar, ReadFails, AddChar, EndLine,
         StoreToNull, Press, fd_read, inVars, allVars
<1> QED
  BY <1>1, <1>2, <1>3

(* Every key but backspaces is echoed, in order, whatever the user types,   *)
(* whichever lines the program reads and however often the keyboard fails.  *)
THEOREM EchoIsEveryKeyButBackspaces == Spec => []EchoOmitsBackspaces
<1>1. Init => LineInv /\ EchoOmitsBackspaces
  <2> SUFFICES ASSUME Init PROVE LineInv /\ EchoOmitsBackspaces
    OBVIOUS
  <2>1. Translated(ShownFor, << >>) = << >>
    BY ShownForShows, TranslatedEmpty
  <2> QED
    BY <2>1, LineInit DEF Init, InInit, EchoOmitsBackspaces
<1>2. LineInv /\ EchoOmitsBackspaces /\ [Next]_allVars => (LineInv /\ EchoOmitsBackspaces)'
  BY LineNext, EchoNext
<1> QED
  BY <1>1, <1>2, PTL DEF Spec

-----------------------------------------------------------------------------
(* The safety half of the refinement.  The keys of the abstract             *)
(* specification are Stream: what has come out of the keyboard, made-up     *)
(* keys included, and behind it what waits there.  First, what the three    *)
(* things that can happen to the keyboard do to such a sequence.            *)

(* What is left of a sequence behind its first m elements. *)
Rest(s, m) == SubSeq(s, m + 1, Len(s))

(* Its length and its elements. *)
LEMMA RestOf ==
  ASSUME NEW s \in Seq(Key), NEW m \in 0..Len(s)
  PROVE  /\ Rest(s, m) \in Seq(Key) /\ Len(Rest(s, m)) = Len(s) - m
         /\ \A i \in 1..(Len(s) - m) : Rest(s, m)[i] = s[m + i]
<1>1. Len(s) \in Nat /\ m \in Nat /\ \A i \in (m + 1)..Len(s) : s[i] \in Key
  OBVIOUS
<1>2. Len(Rest(s, m)) = IF m + 1 <= Len(s) THEN Len(s) - (m + 1) + 1 ELSE 0
  BY <1>1, SubSeqProperties DEF Rest
<1>3. /\ Rest(s, m) \in Seq(Key)
      /\ \A i \in 1..(Len(s) - (m + 1) + 1) : Rest(s, m)[i] = s[(m + 1) + i - 1]
  BY <1>1, SubSeqProperties DEF Rest
<1>4. \A i \in 1..(Len(s) - m) : i \in 1..(Len(s) - (m + 1) + 1) /\ (m + 1) + i - 1 = m + i
  BY <1>1
<1> QED
  BY <1>1, <1>2, <1>3, <1>4

(* What has come out of the keyboard, g, with what waits in it behind. *)
LEMMA JoinedSeq ==
  ASSUME NEW g \in Seq(Key), NEW s \in Seq(Key), NEW m \in 0..Len(s)
  PROVE  /\ g \o Rest(s, m) \in Seq(Key)
         /\ Len(g \o Rest(s, m)) = Len(g) + (Len(s) - m)
         /\ \A i \in 1..(Len(g) + (Len(s) - m)) :
              (g \o Rest(s, m))[i] = IF i <= Len(g) THEN g[i] ELSE s[m + (i - Len(g))]
<1>1. /\ Rest(s, m) \in Seq(Key) /\ Len(Rest(s, m)) = Len(s) - m
      /\ \A i \in 1..(Len(s) - m) : Rest(s, m)[i] = s[m + i]
  BY RestOf
<1>2. Len(g) \in Nat /\ Len(s) \in Nat /\ m \in Nat
  OBVIOUS
<1>3. /\ g \o Rest(s, m) \in Seq(Key)
      /\ Len(g \o Rest(s, m)) = Len(g) + Len(Rest(s, m))
      /\ \A i \in 1..(Len(g) + Len(Rest(s, m))) :
           (g \o Rest(s, m))[i] = IF i <= Len(g) THEN g[i] ELSE Rest(s, m)[i - Len(g)]
  BY <1>1, ConcatProperties
<1>4. \A i \in 1..(Len(g) + (Len(s) - m)) :
        ~(i <= Len(g)) => i - Len(g) \in 1..(Len(s) - m)
  BY <1>2
<1> QED
  BY <1>1, <1>3, <1>4

(* A key that is pressed comes last. *)
LEMMA PressedIsLast ==
  ASSUME NEW g \in Seq(Key), NEW s \in Seq(Key), NEW m \in 0..Len(s), NEW k \in Key
  PROVE  g \o Rest(Append(s, k), m) = Append(g \o Rest(s, m), k)
<1> DEFINE t == Append(s, k)
           a == g \o Rest(t, m)
           b == g \o Rest(s, m)
           c == Append(b, k)
           n == Len(g) + (Len(s) - m)
<1>1. /\ t \in Seq(Key) /\ Len(t) = Len(s) + 1 /\ t[Len(s) + 1] = k
      /\ \A i \in 1..Len(s) : t[i] = s[i]
      /\ Len(s) \in Nat /\ Len(g) \in Nat /\ m \in Nat
  OBVIOUS
<1> HIDE DEF t
<1>2. m \in 0..Len(t) /\ n \in Nat /\ Len(g) + (Len(t) - m) = n + 1
  BY <1>1
<1>3. /\ a \in Seq(Key) /\ Len(a) = n + 1
      /\ \A i \in 1..(n + 1) :
           a[i] = IF i <= Len(g) THEN g[i] ELSE t[m + (i - Len(g))]
  <2>1. /\ a \in Seq(Key) /\ Len(a) = Len(g) + (Len(t) - m)
        /\ \A i \in 1..(Len(g) + (Len(t) - m)) :
             a[i] = IF i <= Len(g) THEN g[i] ELSE t[m + (i - Len(g))]
    BY <1>1, <1>2, JoinedSeq
  <2> QED
    BY <1>2, <2>1
<1>4. /\ b \in Seq(Key) /\ Len(b) = n
      /\ \A i \in 1..n : b[i] = IF i <= Len(g) THEN g[i] ELSE s[m + (i - Len(g))]
  BY JoinedSeq
<1> HIDE DEF a, b
<1>5. /\ c \in Seq(Key) /\ Len(c) = n + 1
      /\ \A i \in 1..n : c[i] = b[i]
      /\ c[n + 1] = k
  <2>1. /\ c \in Seq(Key) /\ Len(c) = Len(b) + 1
        /\ \A i \in 1..Len(b) : c[i] = b[i]
        /\ c[Len(b) + 1] = k
    BY <1>4, AppendProperties
  <2> QED
    BY <1>4, <2>1
<1>6. \A i \in 1..n : /\ i \in 1..(n + 1)
                      /\ ~(i <= Len(g)) => m + (i - Len(g)) \in 1..Len(s)
  BY <1>1, <1>2
<1> HIDE DEF c, n
<1>7. \A i \in 1..n : i \in 1..(n + 1) /\ a[i] = c[i]
  BY <1>1, <1>2, <1>3, <1>4, <1>5, <1>6
<1>8. a[n + 1] = k
  <2>1. n + 1 \in 1..(n + 1) /\ ~(n + 1 <= Len(g)) /\ m + ((n + 1) - Len(g)) = Len(s) + 1
    BY <1>1, <1>2 DEF n
  <2> QED
    BY <1>1, <1>3, <2>1
<1>9. \A i \in 1..(n + 1) : a[i] = c[i]
  <2>1. \A i \in 1..(n + 1) : i \in 1..n \/ i = n + 1
    BY <1>2
  <2> QED
    BY <1>5, <1>7, <1>8, <2>1
<1>10. a = c
  BY <1>3, <1>5, <1>9, SeqEqual
<1> QED
  BY <1>10 DEF a, b, c, t

(* A key that is delivered only moves from one part to the other. *)
LEMMA DeliveredStays ==
  ASSUME NEW g \in Seq(Key), NEW s \in Seq(Key), NEW m \in 0..Len(s), m < Len(s)
  PROVE  Append(g, s[m + 1]) \o Rest(s, m + 1) = g \o Rest(s, m)
<1> DEFINE h == Append(g, s[m + 1])
           a == h \o Rest(s, m + 1)
           b == g \o Rest(s, m)
           n == Len(g) + (Len(s) - m)
<1>1. Len(s) \in Nat /\ Len(g) \in Nat /\ m \in Nat /\ s[m + 1] \in Key
  OBVIOUS
<1>2. /\ h \in Seq(Key) /\ Len(h) = Len(g) + 1 /\ h[Len(g) + 1] = s[m + 1]
      /\ \A i \in 1..Len(g) : h[i] = g[i]
  BY <1>1
<1>3. m + 1 \in 0..Len(s) /\ n \in Nat /\ (Len(g) + 1) + (Len(s) - (m + 1)) = n
  BY <1>1
<1> HIDE DEF h
<1>4. /\ a \in Seq(Key) /\ Len(a) = n
      /\ \A i \in 1..n :
           a[i] = IF i <= Len(g) + 1 THEN h[i] ELSE s[(m + 1) + (i - (Len(g) + 1))]
  <2>1. /\ a \in Seq(Key) /\ Len(a) = Len(h) + (Len(s) - (m + 1))
        /\ \A i \in 1..(Len(h) + (Len(s) - (m + 1))) :
             a[i] = IF i <= Len(h) THEN h[i] ELSE s[(m + 1) + (i - Len(h))]
    BY <1>2, <1>3, JoinedSeq
  <2> QED
    BY <1>2, <1>3, <2>1
<1>5. /\ b \in Seq(Key) /\ Len(b) = n
      /\ \A i \in 1..n : b[i] = IF i <= Len(g) THEN g[i] ELSE s[m + (i - Len(g))]
  BY JoinedSeq
<1> HIDE DEF a, b
<1>6. ASSUME NEW i \in 1..n PROVE a[i] = b[i]
  <2>1. CASE i <= Len(g)
    BY <1>1, <1>2, <1>3, <1>4, <1>5, <2>1
  <2>2. CASE i = Len(g) + 1
    <3>1. m + (i - Len(g)) = m + 1 /\ i <= Len(g) + 1 /\ ~(i <= Len(g))
      BY <1>1, <2>2
    <3>2. a[i] = h[i] /\ b[i] = s[m + (i - Len(g))]
      BY <1>4, <1>5, <3>1
    <3> QED
      BY <1>2, <2>2, <3>1, <3>2
  <2>3. CASE i > Len(g) + 1
    <3>1. (m + 1) + (i - (Len(g) + 1)) = m + (i - Len(g)) /\ ~(i <= Len(g) + 1) /\ ~(i <= Len(g))
      BY <1>1, <1>3, <2>3
    <3> QED
      BY <1>4, <1>5, <3>1
  <2> QED
    BY <1>1, <1>3, <2>1, <2>2, <2>3
<1>7. a = b
  BY <1>4, <1>5, <1>6, SeqEqual
<1> QED
  BY <1>7 DEF a, b, h

(* A key made up by the keyboard is slipped in before all that wait. *)
LEMMA MadeUpIsBetween ==
  ASSUME NEW g \in Seq(Key), NEW s \in Seq(Key), NEW m \in 0..Len(s), NEW k \in Key
  PROVE  LET b == g \o Rest(s, m)
         IN  Append(g, k) \o Rest(s, m) =
               SubSeq(b, 1, Len(g)) \o <<k>> \o SubSeq(b, Len(g) + 1, Len(b))
<1> DEFINE r == Rest(s, m)
           b == g \o r
           u == SubSeq(b, 1, Len(g))
           v == SubSeq(b, Len(g) + 1, Len(b))
<1>1. Len(g) \in Nat /\ r \in Seq(Key) /\ Len(r) \in Nat
  BY RestOf
<1> HIDE DEF r
<1>2. /\ b \in Seq(Key) /\ Len(b) = Len(g) + Len(r)
      /\ \A i \in 1..(Len(g) + Len(r)) :
           b[i] = IF i <= Len(g) THEN g[i] ELSE r[i - Len(g)]
  BY <1>1, ConcatProperties
<1> HIDE DEF b
<1>3. \A i \in 1..Len(b) : b[i] \in Key
  BY <1>2
<1>4. u = g
  <2>1. \A i \in 1..Len(g) : i \in 1..Len(b)
    BY <1>1, <1>2
  <2>2. /\ u \in Seq(Key) /\ Len(u) = IF 1 <= Len(g) THEN Len(g) - 1 + 1 ELSE 0
        /\ \A i \in 1..(Len(g) - 1 + 1) : u[i] = b[1 + i - 1]
    BY <1>1, <1>3, <2>1, SubSeqProperties
  <2> HIDE DEF u
  <2>3. Len(u) = Len(g)
    BY <1>1, <2>2
  <2>4. \A i \in 1..Len(g) : i \in 1..(Len(g) - 1 + 1) /\ 1 + i - 1 = i /\ b[i] = g[i]
    BY <1>1, <1>2
  <2>5. \A i \in 1..Len(u) : u[i] = g[i]
    BY <2>2, <2>3, <2>4
  <2> QED
    BY <2>2, <2>3, <2>5, SeqEqual
<1>5. v = r
  <2>1. \A i \in (Len(g) + 1)..Len(b) : i \in 1..Len(b)
    BY <1>1, <1>2
  <2>2. /\ v \in Seq(Key)
        /\ Len(v) = IF Len(g) + 1 <= Len(b) THEN Len(b) - (Len(g) + 1) + 1 ELSE 0
        /\ \A i \in 1..(Len(b) - (Len(g) + 1) + 1) : v[i] = b[(Len(g) + 1) + i - 1]
    BY <1>1, <1>2, <1>3, <2>1, SubSeqProperties
  <2> HIDE DEF v
  <2>3. Len(v) = Len(r)
    BY <1>1, <1>2, <2>2
  <2>4. \A i \in 1..Len(r) : /\ i \in 1..(Len(b) - (Len(g) + 1) + 1)
                              /\ (Len(g) + 1) + i - 1 = Len(g) + i
                              /\ Len(g) + i \in 1..(Len(g) + Len(r))
                              /\ ~(Len(g) + i <= Len(g)) /\ (Len(g) + i) - Len(g) = i
    BY <1>1, <1>2
  <2>5. \A i \in 1..Len(r) : b[Len(g) + i] = r[i]
    BY <1>2, <2>4
  <2>6. ASSUME NEW i \in 1..Len(v) PROVE v[i] = r[i]
    <3>1. i \in 1..Len(r)
      BY <2>3
    <3>2. /\ i \in 1..(Len(b) - (Len(g) + 1) + 1)
          /\ (Len(g) + 1) + i - 1 = Len(g) + i
      BY <2>4, <3>1
    <3>3. v[i] = b[(Len(g) + 1) + i - 1]
      BY <2>2, <3>2
    <3> QED
      BY <2>5, <3>1, <3>2, <3>3
  <2> QED
    BY <1>1, <2>2, <2>3, <2>6, SeqEqual
<1>6. Append(g, k) = g \o <<k>>
  OBVIOUS
<1>7. Append(g, k) \o r = u \o <<k>> \o v
  BY <1>4, <1>5, <1>6
<1> QED
  BY <1>7 DEF b, r

(* A byte stored behind the line is the next of the line. *)
LEMMA LineGrows ==
  ASSUME NEW n \in Nat, NEW o, NEW p, NEW c, p[n] = c,
         \A j \in 0..(n - 1) : p[j] = o[j]
  PROVE  [i \in 1..(n + 1) |-> p[i - 1]] = Append([i \in 1..n |-> o[i - 1]], c)
<1> DEFINE S == {o[i - 1] : i \in 1..n} \cup {c}
           a == [i \in 1..(n + 1) |-> p[i - 1]]
           b == [i \in 1..n |-> o[i - 1]]
           d == Append(b, c)
<1>1. b \in Seq(S) /\ Len(b) = n
  <2>1. b \in [1..n -> S]
    OBVIOUS
  <2> HIDE DEF b, S
  <2> QED
    BY <2>1
<1>2. a \in Seq(S) /\ Len(a) = n + 1
  <2>1. \A i \in 1..(n + 1) : p[i - 1] \in S
    <3>1. \A i \in 1..(n + 1) : (i \in 1..n /\ i - 1 \in 0..(n - 1)) \/ i - 1 = n
      OBVIOUS
    <3> QED
      BY <3>1
  <2>2. a \in [1..(n + 1) -> S]
    BY <2>1
  <2> HIDE DEF a, S
  <2> QED
    BY <2>2
<1>3. c \in S
  OBVIOUS
<1>4. /\ \A i \in 1..(n + 1) : a[i] = p[i - 1]
      /\ \A i \in 1..n : b[i] = o[i - 1]
  OBVIOUS
<1> HIDE DEF a, b, S
<1>5. /\ d \in Seq(S) /\ Len(d) = Len(b) + 1
      /\ \A i \in 1..Len(b) : d[i] = b[i]
      /\ d[Len(b) + 1] = c
  BY <1>1, <1>3, AppendProperties
<1> HIDE DEF d
<1>6. ASSUME NEW i \in 1..(n + 1) PROVE a[i] = d[i]
  <2>1. CASE i \in 1..n
    <3>1. i - 1 \in 0..(n - 1)
      BY <2>1
    <3> QED
      BY <1>1, <1>4, <1>5, <2>1, <3>1
  <2>2. CASE i = n + 1
    <3>1. i - 1 = n
      BY <2>2
    <3> QED
      BY <1>1, <1>4, <1>5, <2>2, <3>1
  <2> QED
    BY <2>1, <2>2
<1>7. a = d
  BY <1>1, <1>2, <1>5, <1>6, SeqEqual
<1> QED
  BY <1>7 DEF a, b, d

(* Every key the console works on was delivered or made up. *)
Counted == Len(got) = taken + failed /\ Len(typed) <= MaxKeys

(* Only the iterations of fd_read and the user change the counts. *)
LEMMA CountedNext == LineInv /\ Counted /\ [Next]_allVars => Counted'
<1> SUFFICES ASSUME LineInv, Counted, [Next]_allVars PROVE Counted'
  OBVIOUS
<1>1. /\ got \in Seq(Key) /\ typed \in Seq(Key) /\ taken \in Nat /\ failed \in Nat
      /\ Len(got) \in Nat /\ Len(typed) \in Nat /\ MaxKeys \in Nat
  BY ConsoleInAssumption DEF LineInv, InInv, InTypeOK
<1>2. CASE UNCHANGED <<typed, taken, failed, got>>
  BY <1>2 DEF Counted
<1>3. CASE \E k \in Key : Press(k)
  <2> PICK k \in Key : Press(k)
    BY <1>3
  <2>1. Len(typed) < MaxKeys /\ typed' = Append(typed, k) /\ UNCHANGED <<taken, failed, got>>
    BY DEF Press
  <2>2. Len(typed') = Len(typed) + 1
    BY <1>1, <2>1
  <2> QED
    BY <1>1, <2>1, <2>2 DEF Counted
<1>4. CASE \E k \in Key : NextKey(k)
  <2> PICK k \in Key : NextKey(k)
    BY <1>4
  <2>1. got' = Append(got, k) /\ typed' = typed
    BY DEF NextKey
  <2>2. Len(got') = Len(got) + 1
    BY <1>1, <2>1
  <2>3. taken' + failed' = taken + failed + 1
    BY <1>1 DEF NextKey, Delivered, NotDelivered
  <2> QED
    BY <2>1, <2>2, <2>3 DEF Counted
<1>5. ReadStep => \/ UNCHANGED <<typed, taken, failed, got>>
                \/ \E k \in Key : NextKey(k)
  BY DEF ReadStep, SkipBackspace, StoreKey, StoreNewline, ReturnFull
<1> QED
  BY <1>2, <1>3, <1>4, <1>5
  DEF Next, Reader, User, my_getdelim, ReadChar, ReadFails, ConsoleStep, AddChar,
      EndLine, StoreToNull, fd_read, allVars, inVars

(* The keys of the abstract specification. *)
LEMMA StreamFacts ==
  ASSUME LineInv, Counted
  PROVE  /\ Stream = got \o Rest(typed, taken) /\ Stream \in Seq(Key)
         /\ Len(Stream) = Len(got) + (Len(typed) - taken)
         /\ Len(Stream) <= MaxKeys + failed
         /\ \A i \in 1..Len(got) : Stream[i] = got[i]
         /\ got \in Seq(Key) /\ typed \in Seq(Key) /\ taken \in 0..Len(typed)
         /\ taken \in Nat /\ failed \in 0..MaxFailures /\ Len(got) \in Nat
         /\ Len(typed) \in Nat
<1>1. /\ got \in Seq(Key) /\ typed \in Seq(Key) /\ taken \in 0..Len(typed)
      /\ failed \in 0..MaxFailures /\ taken \in Nat /\ Len(got) \in Nat
      /\ Len(typed) \in Nat /\ MaxKeys \in Nat
  BY ConsoleInAssumption DEF LineInv, InInv, InTypeOK
<1>2. Stream = got \o Rest(typed, taken)
  BY DEF Stream, Rest
<1>3. /\ Stream \in Seq(Key) /\ Len(Stream) = Len(got) + (Len(typed) - taken)
      /\ \A i \in 1..(Len(got) + (Len(typed) - taken)) :
           Stream[i] = IF i <= Len(got) THEN got[i] ELSE typed[taken + (i - Len(got))]
  BY <1>1, <1>2, JoinedSeq
<1>4. \A i \in 1..Len(got) : i \in 1..(Len(got) + (Len(typed) - taken)) /\ i <= Len(got)
  BY <1>1
<1>5. Len(Stream) <= MaxKeys + failed
  BY <1>1, <1>3 DEF Counted
<1> QED
  BY <1>1, <1>2, <1>3, <1>4, <1>5

(* A line of no bytes. *)
LEMMA NoLine == ASSUME NEW o PROVE [i \in 1..0 |-> o[i - 1]] = << >>
<1>1. [i \in 1..0 |-> o[i - 1]] \in [1..0 -> {}]
  OBVIOUS
<1>2. [i \in 1..0 |-> o[i - 1]] \in Seq({}) /\ Len([i \in 1..0 |-> o[i - 1]]) = 0
  BY <1>1
<1>3. << >> \in Seq({}) /\ Len(<< >>) = 0
  OBVIOUS
<1> QED
  BY <1>2, <1>3, SeqEqual

(* A step that touches neither the keys nor the line. *)
LEMMA LineRests ==
  ASSUME UNCHANGED <<got, typed, taken, delim, nomem, lineStart>>,
         UNCHANGED <<out, out_idx>>,
         \/ gpc' = gpc
         \/ gpc \in {"read", "wait"} /\ gpc' \in {"read", "wait"}
  PROVE  UNCHANGED Lines!lineVars
<1>1. UNCHANGED Stream
  BY DEF Stream
<1>2. UNCHANGED Line
  BY DEF Line
<1>3. UNCHANGED (lineStart + out_idx) /\ UNCHANGED delim /\ UNCHANGED nomem
  OBVIOUS
<1>4. UNCHANGED (gpc \in {"read", "wait"})
  OBVIOUS
<1> QED
  BY <1>1, <1>2, <1>3, <1>4 DEF Lines!lineVars

(* The steps, one by one.  A key pressed is a key typed. *)
LEMMA PressIsType ==
  ASSUME LineInv, Counted, NEW k \in Key, Press(k), UNCHANGED lineOnly
  PROVE  Lines!Type
<1>1. /\ Len(typed) < MaxKeys /\ typed' = Append(typed, k)
      /\ UNCHANGED <<taken, failed, got>>
  BY DEF Press
<1>2. UNCHANGED <<gpc, delim, out, out_idx, nomem, lineStart>>
  BY DEF lineOnly
<1>3. Len(Stream) < MaxKeys + MaxFailures
  BY <1>1, StreamFacts, ConsoleInAssumption DEF Counted
<1>4. Stream' = got \o Rest(Append(typed, k), taken)
  BY <1>1 DEF Stream, Rest
<1>5. Stream' = Append(Stream, k)
  <2>1. /\ got \in Seq(Key) /\ typed \in Seq(Key) /\ taken \in 0..Len(typed)
        /\ Stream = got \o Rest(typed, taken)
    BY StreamFacts
  <2>2. got \o Rest(Append(typed, k), taken) = Append(got \o Rest(typed, taken), k)
    BY <2>1, PressedIsLast
  <2> QED
    BY <1>4, <2>1, <2>2
<1>6. UNCHANGED Line
  BY <1>2 DEF Line
<1>7. UNCHANGED <<lineStart + out_idx, gpc \in {"read", "wait"}, delim, Line, nomem>>
  BY <1>2, <1>6
<1> QED
  BY <1>3, <1>5, <1>7 DEF Lines!Type

(* A call of my_getdelim begins a line behind the keys in use. *)
LEMMA CallIsBegin ==
  ASSUME LineInv, NEW fd \in Input, NEW d \in Delim, my_getdelim(fd, d)
  PROVE  Lines!Begin
<1>1. /\ gpc = "idle" /\ gpc' = "read" /\ delim' = d /\ out_idx' = 0
      /\ lineStart' = Len(got) /\ AllocateFirst
      /\ UNCHANGED <<got, typed, taken>>
  BY DEF my_getdelim, inVars
<1>2. lineStart' + out_idx' = lineStart + out_idx
  BY <1>1, LineTypes DEF LineInv, KeyPart
<1>3. UNCHANGED Stream
  BY <1>1 DEF Stream
<1>4. Line' = << >>
  BY <1>1, NoLine DEF Line
<1>5. delim' \in Char
  BY <1>1, GetLineAssumption
<1>6. nomem' \in {nomem, TRUE}
  BY <1>1 DEF AllocateFirst
<1>7. ~(gpc \in {"read", "wait"}) /\ (gpc \in {"read", "wait"})' = TRUE
  BY <1>1
<1> QED
  BY <1>2, <1>3, <1>4, <1>5, <1>6, <1>7 DEF Lines!Begin

(* A delivered key is one the abstract keyboard has; one the keyboard makes *)
(* up comes between those in use and those that wait.                       *)
LEMMA IterationIsIntrude ==
  ASSUME LineInv, Counted, NEW k \in Key, NextKey(k), gpc = "wait", UNCHANGED lineOnly
  PROVE  Lines!Intrude \/ UNCHANGED Lines!lineVars
<1>1. /\ got' = Append(got, k) /\ typed' = typed /\ reading /\ it # count
  BY DEF NextKey
<1>2. UNCHANGED <<gpc, delim, out, out_idx, nomem, lineStart>>
  BY DEF lineOnly
<1>3. UNCHANGED Line
  BY <1>2 DEF Line
<1>4. UNCHANGED <<lineStart + out_idx, gpc \in {"read", "wait"}, delim, Line, nomem>>
  BY <1>2, <1>3
<1>5. lineStart + out_idx = Len(got)
  <2>1. count = 1 /\ start = lineStart + out_idx
    BY DEF LineInv, KeyPart
  <2>2. it = 0 /\ Received = it
    BY <1>1, <2>1 DEF LineInv, InInv, InTypeOK, LoopPart
  <2> QED
    BY <2>1, <2>2, LineTypes DEF Received, LineInv
<1>6. CASE Delivered(k)
  <2>1. taken < Len(typed) /\ k = typed[taken + 1] /\ taken' = taken + 1
    BY <1>6 DEF Delivered
  <2>2. Stream' = Append(got, k) \o Rest(typed, taken + 1)
    BY <1>1, <2>1 DEF Stream, Rest
  <2>3. Stream' = Stream
    BY <2>1, <2>2, StreamFacts, DeliveredStays
  <2> QED
    BY <1>4, <2>3 DEF Lines!lineVars
<1>7. CASE NotDelivered(k)
  <2>1. failed < MaxFailures /\ taken' = taken
    BY <1>7 DEF NotDelivered
  <2>2. Len(Stream) < MaxKeys + MaxFailures
    BY <2>1, StreamFacts, ConsoleInAssumption
  <2>3. Stream' = Append(got, k) \o Rest(typed, taken)
    BY <1>1, <2>1 DEF Stream, Rest
  <2>4. Stream' = SubSeq(Stream, 1, Len(got)) \o <<k>> \o SubSeq(Stream, Len(got) + 1, Len(Stream))
    <3>1. /\ got \in Seq(Key) /\ typed \in Seq(Key) /\ taken \in 0..Len(typed)
          /\ got \o Rest(typed, taken) = Stream
      BY StreamFacts
    <3>2. LET b == got \o Rest(typed, taken)
          IN  Append(got, k) \o Rest(typed, taken) =
                SubSeq(b, 1, Len(got)) \o <<k>> \o SubSeq(b, Len(got) + 1, Len(b))
      BY <3>1, MadeUpIsBetween
    <3> QED
      BY <2>3, <3>1, <3>2
  <2>5. Stream' = SubSeq(Stream, 1, lineStart + out_idx) \o <<k>>
                    \o SubSeq(Stream, lineStart + out_idx + 1, Len(Stream))
    BY <1>5, <2>4
  <2>6. gpc \in {"read", "wait"}
    OBVIOUS
  <2> QED
    BY <1>4, <2>2, <2>5, <2>6 DEF Lines!Intrude
<1> QED
  BY <1>6, <1>7 DEF NextKey

(* Both ways of storing a byte consume the next key. *)
LEMMA StoreIsConsume ==
  ASSUME LineInv, Counted, gpc = "wait", ~reading, NEW c \in Received1,
         UNCHANGED <<inVars, delim, nomem, lineStart>>, out_idx' = out_idx + 1,
         \A j \in 0..(out_idx - 1) : out'[j] = out[j], out'[out_idx] = c,
         gpc' = IF c # delim THEN "read" ELSE "idle"
  PROVE  Lines!Consume
<1> DEFINE n == lineStart + out_idx
<1>1. /\ out_idx \in Nat /\ lineStart \in Nat /\ Len(got) = n + 1 /\ n \in Nat
  BY LineTypes DEF LineInv, KeyPart
<1>2. UNCHANGED <<got, typed, taken>>
  BY DEF inVars
<1>3. UNCHANGED Stream
  BY <1>2 DEF Stream
<1>4. n + 1 \in 1..Len(got) /\ n + 1 = lineStart + (out_idx + 1) /\ n < Len(Stream)
  BY <1>1, StreamFacts
<1>5. Stream[n + 1] = got[n + 1] /\ got[n + 1] \in Key
  BY <1>4, StreamFacts
<1>6. c \in CharsOf[Stream[n + 1]]
  <2>1. Low[got[n + 1]] # BS => c = ToChar(got[n + 1])
    BY <1>4, ReceivedIsKey
  <2>2. c \in Char
    <3>1. buf[0] \in Char \cup {Unset}
      <4>1. count = 1 /\ buf \in [0..(count - 1) -> Char \cup {Unset}]
        BY DEF LineInv, KeyPart, InInv, InTypeOK
      <4> QED
        BY <4>1
    <3> QED
      BY <3>1 DEF Received1
  <2> QED
    BY <1>5, <2>1, <2>2 DEF CharsOf
<1>7. Line' = Append(Line, c)
  <2>1. /\ Line = [i \in 1..out_idx |-> out[i - 1]]
        /\ Line' = [i \in 1..(out_idx + 1) |-> out'[i - 1]]
    BY DEF Line
  <2> QED
    BY <1>1, <2>1, LineGrows
<1>8. gpc \in {"read", "wait"} /\ (gpc \in {"read", "wait"})' = (c # delim)
  OBVIOUS
<1>9. lineStart' + out_idx' = n + 1
  BY <1>1
<1> QED
  BY <1>3, <1>4, <1>6, <1>7, <1>8, <1>9 DEF Lines!Consume

(* A store through NULL, and a read that fails, give the line up. *)
LEMMA StoreToNullIsGiveUp == LineInv /\ StoreToNull => Lines!GiveUp
<1> SUFFICES ASSUME LineInv, StoreToNull PROVE Lines!GiveUp
  OBVIOUS
<1>1. /\ gpc = "wait" /\ gpc' = "wild"
      /\ UNCHANGED <<got, typed, taken, delim, lineStart, out_idx>>
  BY DEF StoreToNull, inVars
<1>2. UNCHANGED Stream /\ UNCHANGED (lineStart + out_idx) /\ UNCHANGED delim
  BY <1>1 DEF Stream
<1>3. Line' = << >>
  BY <1>1 DEF Line
<1>4. nomem' = TRUE \/ (nomem' = nomem /\ nomem)
  BY DEF StoreToNull, LineInv, BlockPart
<1>5. nomem' /\ nomem' \in {nomem, TRUE}
  BY <1>4
<1>6. gpc \in {"read", "wait"} /\ (gpc \in {"read", "wait"})' = FALSE
  BY <1>1
<1> QED
  BY <1>2, <1>3, <1>5, <1>6 DEF Lines!GiveUp

(* A line that a failed read ends is given up.                              *)
LEMMA ReadFailsIsGiveUp == LineInv /\ ReadFails => Lines!GiveUp
<1> SUFFICES ASSUME LineInv, ReadFails PROVE Lines!GiveUp
  OBVIOUS
<1>1. /\ gpc = "read" /\ gpc' = "idle" /\ in # 0
      /\ UNCHANGED <<got, typed, taken, delim, lineStart, out, out_idx, nomem>>
  BY DEF ReadFails, inVars
<1>2. UNCHANGED Stream /\ UNCHANGED (lineStart + out_idx) /\ UNCHANGED delim
  BY <1>1 DEF Stream
<1>3. out_idx = 0
  BY <1>1 DEF LineInv, KeyPart
<1>4. Line = << >> /\ Line' = << >>
  BY <1>1, <1>3, NoLine DEF Line
<1>5. nomem' \in {nomem, TRUE}
  BY <1>1
<1>6. gpc \in {"read", "wait"} /\ (gpc \in {"read", "wait"})' = FALSE
  BY <1>1
<1> QED
  BY <1>2, <1>4, <1>5, <1>6 DEF Lines!GiveUp

(* A byte of the line, and the delimiter that ends it. *)
LEMMA AddCharIsConsume ==
  ASSUME LineInv, Counted, NEW c \in Char, AddChar(c)
  PROVE  Lines!Consume
<1>1. /\ gpc = "wait" /\ ~reading /\ c \in Received1 /\ c # delim /\ out # << >>
      /\ out' = [Grown.bytes EXCEPT ![out_idx] = c]
      /\ out_idx' = out_idx + 1 /\ gpc' = "read"
      /\ UNCHANGED <<inVars, delim, nomem, lineStart>>
  BY DEF AddChar
<1>2. out_idx \in Nat /\ out_idx \in 0..Grown.size /\ DOMAIN Grown.bytes = 0..Grown.size
  BY <1>1, GrownFacts, LineTypes DEF LineInv
<1>3. out'[out_idx] = c /\ \A j \in 0..(out_idx - 1) : out'[j] = out[j]
  BY <1>1, <1>2, GrownFacts
<1> QED
  BY <1>1, <1>3, StoreIsConsume

(* The delimiter that ends a line is consumed.                              *)
LEMMA EndLineIsConsume == LineInv /\ Counted /\ EndLine => Lines!Consume
<1> SUFFICES ASSUME LineInv, Counted, EndLine PROVE Lines!Consume
  OBVIOUS
<1>1. /\ gpc = "wait" /\ ~reading /\ delim \in Received1 /\ out # << >>
      /\ out' = [Grown.bytes EXCEPT ![out_idx] = delim, ![out_idx + 1] = NUL]
      /\ out_idx' = out_idx + 1 /\ gpc' = "idle"
      /\ UNCHANGED <<inVars, delim, nomem, lineStart>>
  BY DEF EndLine
<1>2. out_idx \in Nat /\ out_idx \in 0..Grown.size /\ DOMAIN Grown.bytes = 0..Grown.size
  BY <1>1, GrownFacts, LineTypes DEF LineInv
<1>3. out'[out_idx] = delim /\ \A j \in 0..(out_idx - 1) : out'[j] = out[j]
  BY <1>1, <1>2, GrownFacts
<1> QED
  BY <1>1, <1>3, StoreIsConsume

(* Every step is one of LineInput, or changes nothing of it. *)
LEMMA StepsAreLineInput ==
  LineInv /\ Counted /\ [Next]_allVars => [Lines!Next]_(Lines!lineVars)
<1> SUFFICES ASSUME LineInv, Counted, [Next]_allVars
             PROVE  Lines!Next \/ UNCHANGED Lines!lineVars
  OBVIOUS
<1>1. CASE \E fd \in Input, d \in Delim : my_getdelim(fd, d)
  BY <1>1, CallIsBegin DEF Lines!Next
<1>2. CASE ReadChar
  BY <1>2, LineRests DEF ReadChar, fd_read
<1>3. CASE ReadFails
  BY <1>3, ReadFailsIsGiveUp DEF Lines!Next
<1>4. CASE ConsoleStep
  <2>1. gpc = "wait" /\ ReadStep /\ UNCHANGED lineOnly
    BY <1>4 DEF ConsoleStep
  <2>2. CASE ReturnFull
    BY <2>1, <2>2, LineRests DEF ReturnFull, lineOnly
  <2>3. CASE \E k \in Key : NextKey(k)
    BY <2>1, <2>3, IterationIsIntrude DEF Lines!Next
  <2> QED
    BY <2>1, <2>2, <2>3 DEF ReadStep, SkipBackspace, StoreKey, StoreNewline
<1>5. CASE (\E c \in Char : AddChar(c)) \/ EndLine
  BY <1>5, AddCharIsConsume, EndLineIsConsume DEF Lines!Next
<1>6. CASE StoreToNull
  BY <1>6, StoreToNullIsGiveUp DEF Lines!Next
<1>7. CASE User
  BY <1>7, PressIsType DEF User, Lines!Next
<1>8. CASE UNCHANGED allVars
  BY <1>8, LineRests DEF allVars, inVars, lineOnly
<1> QED
  BY <1>1, <1>2, <1>3, <1>4, <1>5, <1>6, <1>7, <1>8 DEF Next, Reader

(* It begins with no keys and no line. *)
LEMMA InitIsLineInput == Init => Lines!Init /\ Counted
<1> SUFFICES ASSUME Init PROVE Lines!Init /\ Counted
  OBVIOUS
<1>1. /\ got = << >> /\ typed = << >> /\ taken = 0 /\ failed = 0
      /\ gpc = "idle" /\ delim = LF /\ out_idx = 0 /\ lineStart = 0 /\ nomem = FALSE
  BY DEF Init, InInit
<1>2. Len(got) = 0 /\ Len(typed) = 0 /\ got \in Seq(Key)
  BY <1>1
<1>3. Counted
  BY <1>1, <1>2, ConsoleInAssumption DEF Counted
<1>4. LineInv
  BY LineInit
<1>5. Stream = << >>
  <2>1. Stream \in Seq(Key) /\ Len(Stream) = 0
    BY <1>1, <1>2, <1>3, <1>4, StreamFacts
  <2> QED
    BY <2>1, EmptySeq
<1>6. Line = << >>
  BY <1>1, NoLine DEF Line
<1>7. delim \in Char /\ (gpc \in {"read", "wait"}) = FALSE /\ lineStart + out_idx = 0
  BY <1>1, ConsoleInAssumption
<1> QED
  BY <1>1, <1>3, <1>5, <1>6, <1>7 DEF Lines!Init

(* my_getdelim over the console implements line input, for any keyboard,    *)
(* any number of keys, lines and failures of keyboard and memory: whatever  *)
(* it does, its caller sees keys consumed in order, each for one byte.      *)
THEOREM LineInputImplemented == Spec => Lines!SafeSpec
<1>1. LineInv /\ Counted /\ [Next]_allVars => Counted' /\ [Lines!Next]_(Lines!lineVars)
  BY CountedNext, StepsAreLineInput
<1> QED
  BY <1>1, InitIsLineInput, LinesAlways, PTL DEF Spec, Lines!SafeSpec
=============================================================================
