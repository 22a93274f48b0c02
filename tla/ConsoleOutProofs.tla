-------------------------- MODULE ConsoleOutProofs --------------------------
(* Console output for buffers of any length and any number of calls: where  *)
(* the stores of fd_write go, and that what it displays has been written.   *)
EXTENDS ConsoleOut, TranslationProofs

(* The elements of str_buf before str_it have been written. *)
Filled == \A j \in 0..(str_it - 1) : str_buf[j] \in Byte \ {NUL}

(* In the loop, the index into str_buf is ahead of twice the index into    *)
(* buf by nothing, and even with it only after newlines alone.             *)
CopyPart ==
  /\ str_it <= 2 * it
  /\ str_it = 2 * it <=> \A i \in 1..it : src[i] = LF
  /\ Filled

(* After it, str_buf holds a text that ends inside it, or one past it. *)
OutputPart ==
  /\ str_it <= StrBufLen(Count)
  /\ str_buf[str_it] = NUL
  /\ Filled

CopyInv ==
  /\ TypeOK
  /\ pc = "copy" => CopyPart
  /\ pc = "output" => OutputPart

(* The buffers of a program are sequences of bytes. *)
LEMMA StringsAreSequences ==
  ASSUME NEW S, NEW n \in Nat, NEW s \in Strings(S, n)
  PROVE  s \in Seq(S)
BY DEF Strings

(* What the firmware displays is the text before the terminator. *)
LEMMA DisplayedIsText ==
  ASSUME TypeOK, OutputPart
  PROVE  /\ Displayed \in Seq(Byte)
         /\ Displayed = [i \in 1..str_it |-> str_buf[i - 1]]
<1> DEFINE IsEnd(i) == /\ i \in DOMAIN str_buf
                       /\ str_buf[i] = NUL
                       /\ \A j \in 0..(i - 1) : str_buf[j] # NUL
<1>1. DOMAIN str_buf = 0..StrBufLen(Count) /\ Count \in Nat /\ str_it \in Nat
  BY DEF TypeOK, Count
<1>2. IsEnd(str_it)
  BY <1>1 DEF OutputPart, Filled, StrBufLen
<1>3. \A i : IsEnd(i) => i = str_it
  BY <1>1 DEF OutputPart, Filled, StrBufLen
<1>4. (CHOOSE i \in DOMAIN str_buf :
         str_buf[i] = NUL /\ \A j \in 0..(i - 1) : str_buf[j] # NUL) = str_it
  BY <1>2, <1>3
<1>5. Displayed = [i \in 1..str_it |-> str_buf[i - 1]]
  BY <1>4 DEF Displayed
<1>6. \A i \in 1..str_it : str_buf[i - 1] \in Byte
  BY <1>1 DEF OutputPart, Filled
<1> QED
  BY <1>1, <1>5, <1>6

(* The invariant holds when main is called ... *)
LEMMA CopyInit == Init => CopyInv
<1> SUFFICES ASSUME Init PROVE CopyInv
  OBVIOUS
<1>1. TypeOK
  BY ConsoleOutAssumption DEF Init, TypeOK, StrBufLen, Count
<1> QED
  BY <1>1 DEF Init, CopyInv

(* ... and no library call of the program disturbs it. *)
LEMMA CallKeepsInv ==
  ASSUME CopyInv, NEW buffers \in Seq(Seq(Byte)), Call(buffers)
  PROVE  CopyInv'
BY ConsoleOutAssumption
   DEF CopyInv, TypeOK, Call, Count, CopyPart, OutputPart, Filled

(* The buffers of write, _putchar and _puts are sequences of bytes. *)
LEMMA ProgramKeepsInv == CopyInv /\ Program => CopyInv'
<1> SUFFICES ASSUME CopyInv, Program PROVE CopyInv'
  OBVIOUS
<1>1. ASSUME NEW buf \in Strings(Byte, MaxCount), write(buf) PROVE CopyInv'
  <2>1. <<buf>> \in Seq(Seq(Byte))
    BY StringsAreSequences, ConsoleOutAssumption
  <2> QED
    BY <1>1, <2>1, CallKeepsInv DEF write
<1>2. ASSUME NEW c \in Byte, clibc_putchar(c) PROVE CopyInv'
  <2>1. << <<c>> >> \in Seq(Seq(Byte))
    OBVIOUS
  <2> QED
    BY <1>2, <2>1, CallKeepsInv DEF clibc_putchar
<1>3. ASSUME NEW str \in Strings(Byte \ {NUL}, MaxCount), clibc_puts(str) PROVE CopyInv'
  <2>1. str \in Seq(Byte) /\ <<LF>> \in Seq(Byte)
    BY StringsAreSequences, ConsoleOutAssumption DEF Byte
  <2>2. <<str, <<LF>> >> \in Seq(Seq(Byte))
    BY <2>1
  <2> QED
    BY <1>3, <2>2, CallKeepsInv DEF clibc_puts
<1> QED
  BY <1>1, <1>2, <1>3 DEF Program

(* fd_write begins with an empty text. *)
LEMMA BeginKeepsInv == CopyInv /\ fd_write => CopyInv'
<1> SUFFICES ASSUME CopyInv, fd_write PROVE CopyInv'
  OBVIOUS
<1>1. Head(todo) \in Seq(Byte) /\ Tail(todo) \in Seq(Seq(Byte))
  BY DEF CopyInv, TypeOK, fd_write
<1>2. TypeOK'
  BY <1>1 DEF CopyInv, TypeOK, fd_write, Count
<1>3. CopyPart'
  BY DEF fd_write, CopyPart, Filled
<1> QED
  BY <1>2, <1>3 DEF CopyInv, fd_write

(* Where the loop of fd_write is, before it looks at the next byte. *)
LEMMA LoopPlace ==
  ASSUME CopyInv, pc = "copy", it # Count
  PROVE  /\ Count \in Nat /\ it \in Nat /\ it < Count /\ it + 1 \in 1..Count
         /\ str_it \in Nat /\ str_it + 1 < StrBufLen(Count)
         /\ src[it + 1] \in Byte
         /\ 1..(it + 1) = (1..it) \cup {it + 1}
<1>1. Count \in Nat /\ it \in 0..Count /\ str_it \in Nat /\ str_it <= 2 * it
  BY DEF CopyInv, CopyPart, TypeOK, Count
<1>2. it < Count
  BY <1>1
<1>3. src[it + 1] \in Byte
  BY <1>1, <1>2 DEF CopyInv, TypeOK, Count
<1> QED
  BY <1>1, <1>2, <1>3 DEF StrBufLen

(* The elements it may store to. *)
LEMMA LoopElements ==
  ASSUME CopyInv, pc = "copy", it # Count
  PROVE  /\ str_buf \in [0..StrBufLen(Count) -> Byte \cup {Unset}]
         /\ str_it \in 0..StrBufLen(Count) /\ str_it + 1 \in 0..StrBufLen(Count)
         /\ \A j \in 0..(str_it - 1) : j \in 0..StrBufLen(Count)
<1>1. StrBufLen(Count) \in Nat
  BY LoopPlace DEF StrBufLen
<1>2. str_buf \in [0..StrBufLen(Count) -> Byte \cup {Unset}]
  BY DEF CopyInv, TypeOK
<1> QED
  BY <1>1, <1>2, LoopPlace

(* A NUL byte leaves the text as it is and breaks the equality. *)
LEMMA NulKeepsInv == CopyInv /\ CopyNul => CopyInv'
<1> SUFFICES ASSUME CopyInv, CopyNul PROVE CopyInv'
  OBVIOUS
<1>1. /\ pc = "copy" /\ pc' = "copy" /\ it # Count /\ src[it + 1] = NUL /\ it' = it + 1
      /\ UNCHANGED <<todo, src, ret, screen, sent, calls, str_it, str_buf>>
  BY DEF CopyNul, Iterate
<1>2. TypeOK'
  BY <1>1, LoopPlace DEF CopyInv, TypeOK, Count
<1>3. CopyPart'
  <2>1. str_it' <= 2 * it' /\ str_it' # 2 * it'
    BY <1>1, LoopPlace DEF CopyInv, CopyPart
  <2>2. it + 1 \in 1..it' /\ src'[it + 1] # LF
    BY <1>1, LoopPlace, ConsoleOutAssumption
  <2> QED
    BY <1>1, <2>1, <2>2 DEF CopyInv, CopyPart, Filled
<1> QED
  BY <1>1, <1>2, <1>3 DEF CopyInv

(* A newline is two elements for one byte and keeps the equality. *)
LEMMA NewlineKeepsInv == CopyInv /\ CopyNewline => CopyInv'
<1> SUFFICES ASSUME CopyInv, CopyNewline PROVE CopyInv'
  OBVIOUS
<1>1. /\ pc = "copy" /\ pc' = "copy" /\ it # Count /\ src[it + 1] = LF
      /\ it' = it + 1 /\ str_it' = str_it + 2
      /\ str_buf' = [str_buf EXCEPT ![str_it] = CR, ![str_it + 1] = LF]
      /\ UNCHANGED <<todo, src, ret, screen, sent, calls>>
  BY DEF CopyNewline, Iterate
<1>2. CR \in Byte \ {NUL} /\ LF \in Byte \ {NUL}
  BY ConsoleOutAssumption DEF Byte
<1>3. TypeOK'
  <2>1. str_buf' \in [0..StrBufLen(Count') -> Byte \cup {Unset}]
    BY <1>1, <1>2, LoopElements DEF Count
  <2>2. it' \in 0..Count' /\ str_it' \in Nat
    BY <1>1, LoopPlace DEF Count
  <2> QED
    BY <1>1, <2>1, <2>2 DEF CopyInv, TypeOK
<1>4. CopyPart'
  <2>1. str_it' <= 2 * it' /\ (str_it' = 2 * it' <=> str_it = 2 * it)
    BY <1>1, LoopPlace DEF CopyInv, CopyPart
  <2>2. (\A i \in 1..it' : src'[i] = LF) <=> \A i \in 1..it : src[i] = LF
    BY <1>1, LoopPlace
  <2>3. Filled'
    <3>1. /\ str_buf'[str_it] = CR /\ str_buf'[str_it + 1] = LF
          /\ \A j \in 0..(str_it - 1) : str_buf'[j] = str_buf[j]
      BY <1>1, LoopElements, LoopPlace
    <3>2. \A j \in 0..(str_it - 1) : str_buf'[j] \in Byte \ {NUL}
      BY <1>1, <3>1 DEF CopyInv, CopyPart, Filled
    <3>3. \A j \in 0..(str_it' - 1) :
            j \in 0..(str_it - 1) \/ j = str_it \/ j = str_it + 1
      BY <1>1, LoopPlace
    <3> QED
      BY <1>2, <3>1, <3>2, <3>3 DEF Filled
  <2>4. str_it = 2 * it <=> \A i \in 1..it : src[i] = LF
    BY <1>1 DEF CopyInv, CopyPart
  <2> QED
    BY <2>1, <2>2, <2>3, <2>4 DEF CopyPart
<1> QED
  BY <1>1, <1>3, <1>4 DEF CopyInv

(* Any other byte is one element and breaks the equality. *)
LEMMA PlainKeepsInv == CopyInv /\ CopyPlain => CopyInv'
<1> SUFFICES ASSUME CopyInv, CopyPlain PROVE CopyInv'
  OBVIOUS
<1>1. PICK c \in Plain :
        /\ pc = "copy" /\ pc' = "copy" /\ it # Count /\ src[it + 1] = c
        /\ it' = it + 1 /\ str_it' = str_it + 1
        /\ str_buf' = [str_buf EXCEPT ![str_it] = c]
        /\ UNCHANGED <<todo, src, ret, screen, sent, calls>>
  BY DEF CopyPlain, Iterate
<1>2. c \in Byte \ {NUL} /\ c # LF
  BY ConsoleOutAssumption DEF Byte
<1>3. TypeOK'
  <2>1. str_buf' \in [0..StrBufLen(Count') -> Byte \cup {Unset}]
    BY <1>1, <1>2, LoopElements DEF Count
  <2>2. it' \in 0..Count' /\ str_it' \in Nat
    BY <1>1, LoopPlace DEF Count
  <2> QED
    BY <1>1, <2>1, <2>2 DEF CopyInv, TypeOK
<1>4. CopyPart'
  <2>1. str_it' <= 2 * it' /\ str_it' # 2 * it'
    BY <1>1, LoopPlace DEF CopyInv, CopyPart
  <2>2. it + 1 \in 1..it' /\ src'[it + 1] # LF
    BY <1>1, <1>2, LoopPlace
  <2>3. Filled'
    <3>1. /\ str_buf'[str_it] = c
          /\ \A j \in 0..(str_it - 1) : str_buf'[j] = str_buf[j]
      BY <1>1, LoopElements, LoopPlace
    <3>2. \A j \in 0..(str_it - 1) : str_buf'[j] \in Byte \ {NUL}
      BY <1>1, <3>1 DEF CopyInv, CopyPart, Filled
    <3>3. \A j \in 0..(str_it' - 1) : j \in 0..(str_it - 1) \/ j = str_it
      BY <1>1, LoopPlace
    <3> QED
      BY <1>2, <3>1, <3>2, <3>3 DEF Filled
  <2> QED
    BY <2>1, <2>2, <2>3 DEF CopyPart
<1> QED
  BY <1>1, <1>3, <1>4 DEF CopyInv

(* The terminator ends the text where the loop has left off. *)
LEMMA TerminateKeepsInv == CopyInv /\ Terminate => CopyInv'
<1> SUFFICES ASSUME CopyInv, Terminate PROVE CopyInv'
  OBVIOUS
<1>1. /\ pc = "copy" /\ it = Count /\ pc' = "output"
      /\ str_buf' = [str_buf EXCEPT ![str_it] = NUL]
      /\ UNCHANGED <<todo, src, it, str_it, ret, screen, sent, calls>>
  BY DEF Terminate
<1>2. Count \in Nat /\ str_it \in Nat /\ str_it <= StrBufLen(Count)
  BY <1>1 DEF CopyInv, CopyPart, TypeOK, Count, StrBufLen
<1>3. TypeOK'
  BY <1>1, <1>2 DEF CopyInv, TypeOK, Count, Byte
<1>4. OutputPart'
  <2>1. DOMAIN str_buf = 0..StrBufLen(Count) /\ Count' = Count
    BY <1>1 DEF CopyInv, TypeOK, Count
  <2>2. str_buf'[str_it'] = NUL
    BY <1>1, <1>2, <2>1 DEF StrBufLen
  <2>3. Filled'
    BY <1>1, <1>2, <2>1 DEF CopyInv, CopyPart, Filled, StrBufLen
  <2> QED
    BY <1>1, <1>2, <2>1, <2>2, <2>3 DEF OutputPart
<1> QED
  BY <1>1, <1>3, <1>4 DEF CopyInv

(* The firmware displays the text or refuses it. *)
LEMMA AnswerKeepsInv == CopyInv /\ (OutputString \/ OutputStringFails) => CopyInv'
<1> SUFFICES ASSUME CopyInv, OutputString \/ OutputStringFails PROVE CopyInv'
  OBVIOUS
<1>1. CASE OutputString
  <2>1. Displayed \in Seq(Byte)
    BY <1>1, DisplayedIsText DEF OutputString, CopyInv
  <2> QED
    BY <1>1, <2>1 DEF OutputString, CopyInv, TypeOK, Count
<1>2. CASE OutputStringFails
  BY <1>2 DEF OutputStringFails, CopyInv, TypeOK, Count, efi_status_to_errno, EIO
<1> QED
  BY <1>1, <1>2

(* Every step preserves the invariant. *)
LEMMA CopyNext == CopyInv /\ [Next]_vars => CopyInv'
<1> SUFFICES ASSUME CopyInv, [Next]_vars PROVE CopyInv'
  OBVIOUS
<1>1. CASE UNCHANGED vars
  BY <1>1 DEF vars, CopyInv, TypeOK, Count, CopyPart, OutputPart, Filled
<1> QED
  BY <1>1, ProgramKeepsInv, BeginKeepsInv, NulKeepsInv, NewlineKeepsInv,
     PlainKeepsInv, TerminateKeepsInv, AnswerKeepsInv
     DEF Next, Step

(* The invariant of console output, for buffers of any length. *)
THEOREM CopyAlways == Spec => []CopyInv
<1> QED
  BY CopyInit, CopyNext, PTL DEF Spec

(* The types of fd_write's variables and of the screen: in particular,     *)
(* nothing that was never written is ever displayed.                       *)
THEOREM TypesAlways == Spec => []TypeOK
<1>1. CopyInv => TypeOK
  BY DEF CopyInv
<1> QED
  BY <1>1, CopyAlways, PTL

(* The loop of fd_write stores inside str_buf[count*2], both elements of an*)
(* expanded newline included.                                              *)
THEOREM StoresStayInBounds == Spec => []LoopStoresInBounds
<1>1. CopyInv => LoopStoresInBounds
  BY LoopPlace DEF LoopStoresInBounds
<1> QED
  BY <1>1, CopyAlways, PTL

(* The terminator goes past the end of str_buf, by one element, for buffers*)
(* of newlines only, and for no others.                                    *)
THEOREM TerminatorPlace == Spec => []TerminatorOverrunsOnNewlinesOnly
<1>1. CopyInv => TerminatorOverrunsOnNewlinesOnly
  BY DEF CopyInv, CopyPart, TerminatorOverrunsOnNewlinesOnly, StrBufLen, TypeOK, Count
<1> QED
  BY <1>1, CopyAlways, PTL

-----------------------------------------------------------------------------
(* The contents of the screen.  The text in str_buf is at every iteration   *)
(* the translation of the bytes the loop has been through, and when it is   *)
(* handed over, of all bytes of the buffer.                                 *)
Copied == [i \in 1..it |-> src[i]]

Text == [i \in 1..str_it |-> str_buf[i - 1]]

ShownInv ==
  /\ CopyInv
  /\ pc = "copy" => Text = Translated(Expand, Copied)
  /\ pc = "output" => Text = Translated(Expand, src)
  /\ ScreenShowsWhatWasWritten

(* A byte is shown as at most two. *)
LEMMA ExpandShows == Expand \in [Byte -> Seq(Byte)]
<1>1. ASSUME NEW c \in Byte
      PROVE  (IF c = NUL THEN << >> ELSE IF c = LF THEN <<CR, LF>> ELSE <<c>>) \in Seq(Byte)
  <2>1. CR \in Byte /\ LF \in Byte
    BY ConsoleOutAssumption DEF Byte
  <2>2. << >> \in Seq(Byte) /\ <<CR, LF>> \in Seq(Byte) /\ <<c>> \in Seq(Byte)
    BY <2>1
  <2> QED
    BY <2>2
<1> QED
  BY <1>1 DEF Expand

(* TranslatedAppend, for the screen. *)
LEMMA ShownAppend ==
  ASSUME NEW s \in Seq(Byte), NEW c \in Byte
  PROVE  Translated(Expand, Append(s, c)) = Translated(Expand, s) \o Expand[c]
BY ExpandShows, TranslatedAppend, Zenon

(* TranslatedConcat, for the screen. *)
LEMMA ShownConcat ==
  ASSUME NEW s \in Seq(Byte), NEW t \in Seq(Byte)
  PROVE  Translated(Expand, s \o t) = Translated(Expand, s) \o Translated(Expand, t)
BY ExpandShows, TranslatedConcat

(* ConcatProperties, for bytes. *)
LEMMA Joined ==
  ASSUME NEW s \in Seq(Byte), NEW t \in Seq(Byte)
  PROVE  /\ s \o t \in Seq(Byte) /\ Len(s \o t) = Len(s) + Len(t)
         /\ \A i \in 1..(Len(s) + Len(t)) :
              (s \o t)[i] = IF i <= Len(s) THEN s[i] ELSE t[i - Len(s)]
OBVIOUS

(* What an iteration for byte c that stores the text e has to do. *)
LEMMA IterationShows ==
  ASSUME ShownInv, pc = "copy", it # Count,
         NEW c \in Byte, src[it + 1] = c, it' = it + 1, src' = src,
         NEW e \in Seq(Byte), e = Expand[c],
         str_it' = str_it + Len(e),
         \A j \in 0..(str_it - 1) : str_buf'[j] = str_buf[j],
         \A j \in 1..Len(e) : str_buf'[str_it + j - 1] = e[j]
  PROVE  Text' = Translated(Expand, Copied')
<1>1. CopyInv /\ it \in Nat /\ str_it \in Nat /\ Count \in Nat /\ it < Count
  BY LoopPlace DEF ShownInv
<1>2. \A i \in 1..it : src[i] \in Byte
  BY <1>1 DEF CopyInv, TypeOK, Count
<1>3. Copied \in Seq(Byte) /\ Len(Copied) = it
  <2>1. Copied \in [1..it -> Byte]
    BY <1>2 DEF Copied
  <2> HIDE DEF Copied
  <2> QED
    BY <1>1, <2>1
<1>4. Copied' = Append(Copied, c)
  <2>1. Copied' = [i \in 1..(it + 1) |-> src[i]]
    BY DEF Copied
  <2>2. /\ Append(Copied, c) \in Seq(Byte) /\ Len(Append(Copied, c)) = it + 1
        /\ \A i \in 1..it : Append(Copied, c)[i] = Copied[i]
        /\ Append(Copied, c)[it + 1] = c
    BY <1>1, <1>3
  <2> DEFINE longer == [i \in 1..(it + 1) |-> src[i]]
  <2>3. \A i \in 1..(it + 1) : src[i] \in Byte /\ (i \in 1..it \/ i = it + 1)
    BY <1>1, <1>2
  <2>4. longer \in [1..(it + 1) -> Byte]
    BY <2>3
  <2>5. \A i \in 1..(it + 1) : longer[i] = Append(Copied, c)[i]
    BY <1>1, <2>2, <2>3 DEF Copied
  <2> HIDE DEF longer
  <2>6. longer \in Seq(Byte) /\ Len(longer) = it + 1
    BY <1>1, <2>4
  <2>7. longer = Append(Copied, c)
    BY <2>2, <2>5, <2>6, SeqEqual
  <2> QED
    BY <2>1, <2>7 DEF longer
<1>5. Translated(Expand, Copied') = Text \o e
  <2>1. Translated(Expand, Append(Copied, c)) = Translated(Expand, Copied) \o Expand[c]
    BY <1>3, ShownAppend
  <2> QED
    BY <1>4, <2>1 DEF ShownInv
<1>6. Text \in Seq(Byte) /\ Len(Text) = str_it
  <2>1. \A i \in 1..str_it : str_buf[i - 1] \in Byte
    BY <1>1 DEF CopyInv, CopyPart, Filled
  <2>2. Text \in [1..str_it -> Byte]
    BY <2>1 DEF Text
  <2> HIDE DEF Text
  <2> QED
    BY <1>1, <2>2
<1>7. Text' = Text \o e
  <2> DEFINE n == str_it + Len(e)
             joined == Text \o e
             longer == [i \in 1..n |-> str_buf'[i - 1]]
  <2>1. Len(e) \in Nat /\ n \in Nat
    BY <1>1
  <2>2. Text' = longer
    BY DEF Text
  <2>3. /\ joined \in Seq(Byte) /\ Len(joined) = n
        /\ \A i \in 1..n : joined[i] = IF i <= str_it THEN Text[i] ELSE e[i - str_it]
    BY <1>6, Joined
  <2> HIDE DEF joined
  <2>4. ASSUME NEW i \in 1..n
        PROVE  longer[i] = IF i <= str_it THEN Text[i] ELSE e[i - str_it]
    <3>1. CASE i <= str_it
      <4>1. i \in 1..str_it /\ i - 1 \in 0..(str_it - 1)
        BY <1>1, <2>1, <3>1
      <4> QED
        BY <3>1, <4>1 DEF Text
    <3>2. CASE ~(i <= str_it)
      <4>1. i - str_it \in 1..Len(e) /\ str_it + (i - str_it) - 1 = i - 1
        BY <1>1, <2>1, <3>2
      <4> QED
        BY <3>2, <4>1
    <3> QED
      BY <3>1, <3>2
  <2>5. longer \in [1..n -> Byte]
    <3>1. ASSUME NEW i \in 1..n PROVE longer[i] \in Byte
      <4>1. \A k \in 1..Len(joined) : joined[k] \in Byte
        BY <2>3
      <4>2. joined[i] \in Byte
        BY <2>3, <4>1, Zenon
      <4>3. longer[i] = joined[i]
        BY <2>3, <2>4, Zenon
      <4> QED
        BY <4>2, <4>3, Zenon
    <3> QED
      BY <3>1
  <2> HIDE DEF longer, n
  <2>6. longer \in Seq(Byte) /\ Len(longer) = n
    BY <2>1, <2>5
  <2>7. longer = joined
    BY <2>3, <2>4, <2>6, SeqEqual
  <2> QED
    BY <2>2, <2>7 DEF joined
<1> QED
  BY <1>5, <1>7

(* A step that leaves the screen and the successful writes alone has only   *)
(* to say what the text is after it.                                        *)
LEMMA NothingShown ==
  ASSUME ShownInv, [Next]_vars, UNCHANGED <<screen, sent>>,
         pc' = "copy" => Text' = Translated(Expand, Copied'),
         pc' = "output" => Text' = Translated(Expand, src')
  PROVE  ShownInv'
<1>1. CopyInv'
  BY CopyNext DEF ShownInv
<1>2. ScreenShowsWhatWasWritten'
  BY DEF ShownInv, ScreenShowsWhatWasWritten, Expand, Translated
<1> QED
  BY <1>1, <1>2 DEF ShownInv

(* An iteration shows the next byte. *)
LEMMA CopyShows ==
  ASSUME ShownInv, [Next]_vars, CopyNul \/ CopyNewline \/ CopyPlain
  PROVE  ShownInv'
<1>1. PICK c \in Byte :
        /\ pc = "copy" /\ it # Count /\ src[it + 1] = c /\ it' = it + 1
        /\ UNCHANGED <<pc, src, screen, sent>>
        /\ \/ c = NUL /\ CopyNul
           \/ c = LF /\ CopyNewline
           \/ c \in Plain /\ str_buf' = [str_buf EXCEPT ![str_it] = c] /\ str_it' = str_it + 1
  BY DEF CopyNul, CopyNewline, CopyPlain, Iterate, Byte
<1>2. /\ Expand[NUL] = << >> /\ Expand[LF] = <<CR, LF>>
      /\ c \in Plain => Expand[c] = <<c>>
      /\ Expand[c] \in Seq(Byte)
  BY ExpandShows, ConsoleOutAssumption DEF Expand, Byte
<1>3. CopyInv /\ str_it \in Nat
  BY <1>1, LoopPlace DEF ShownInv
<1>4. CASE c = NUL /\ CopyNul
  <2> DEFINE e == Expand[c]
  <2>1. e \in Seq(Byte) /\ Len(e) = 0
    BY <1>2, <1>4
  <2>2. str_it' = str_it + Len(e) /\ \A j \in 0..(str_it - 1) : str_buf'[j] = str_buf[j]
    BY <1>3, <1>4, <2>1 DEF CopyNul
  <2>3. \A j \in 1..Len(e) : str_buf'[str_it + j - 1] = e[j]
    BY <2>1
  <2>4. Text' = Translated(Expand, Copied')
    BY <1>1, <2>1, <2>2, <2>3, IterationShows
  <2> QED
    BY <1>1, <2>4, NothingShown
<1>5. CASE c = LF /\ CopyNewline
  <2> DEFINE e == Expand[c]
  <2>1. e \in Seq(Byte) /\ Len(e) = 2 /\ e[1] = CR /\ e[2] = LF
    <3>1. e = <<CR, LF>> /\ e \in Seq(Byte)
      BY <1>2, <1>5, Zenon
    <3> HIDE DEF e
    <3> QED
      BY <3>1
  <2>2. str_it' = str_it + 2 /\ str_buf' = [str_buf EXCEPT ![str_it] = CR, ![str_it + 1] = LF]
    BY <1>5 DEF CopyNewline
  <2>3. /\ \A j \in 0..(str_it - 1) : str_buf'[j] = str_buf[j]
        /\ str_buf'[str_it] = CR /\ str_buf'[str_it + 1] = LF
    BY <1>1, <1>3, <2>2, LoopElements, LoopPlace
  <2> HIDE DEF e
  <2>4. ASSUME NEW j \in 1..Len(e) PROVE str_buf'[str_it + j - 1] = e[j]
    <3>1. \/ j = 1 /\ str_it + j - 1 = str_it
          \/ j = 2 /\ str_it + j - 1 = str_it + 1
      BY <1>3, <2>1
    <3> QED
      BY <2>1, <2>3, <3>1
  <2>5. Text' = Translated(Expand, Copied')
    BY <1>1, <2>1, <2>2, <2>3, <2>4, IterationShows DEF e
  <2> QED
    BY <1>1, <2>5, NothingShown
<1>6. CASE c \in Plain /\ str_buf' = [str_buf EXCEPT ![str_it] = c] /\ str_it' = str_it + 1
  <2> DEFINE e == Expand[c]
  <2>1. e \in Seq(Byte) /\ Len(e) = 1 /\ e[1] = c
    <3>1. e = <<c>> /\ e \in Seq(Byte)
      BY <1>2, <1>6, Zenon
    <3> HIDE DEF e
    <3> QED
      BY <3>1
  <2>2. /\ \A j \in 0..(str_it - 1) : str_buf'[j] = str_buf[j]
        /\ str_buf'[str_it] = c
    BY <1>1, <1>3, <1>6, LoopElements, LoopPlace
  <2> HIDE DEF e
  <2>3. ASSUME NEW j \in 1..Len(e) PROVE str_buf'[str_it + j - 1] = e[j]
    <3>1. j = 1 /\ str_it + j - 1 = str_it
      BY <1>3, <2>1
    <3> QED
      BY <2>1, <2>2, <3>1
  <2>4. Text' = Translated(Expand, Copied')
    BY <1>1, <1>6, <2>1, <2>2, <2>3, IterationShows DEF e
  <2> QED
    BY <1>1, <2>4, NothingShown
<1> QED
  BY <1>1, <1>4, <1>5, <1>6

(* Before the first iteration there is no text ... *)
LEMMA BeginShows ==
  ASSUME ShownInv, [Next]_vars, fd_write
  PROVE  ShownInv'
<1>1. it' = 0 /\ str_it' = 0 /\ pc' = "copy" /\ UNCHANGED <<screen, sent>>
  BY DEF fd_write
<1>2. Text' = << >> /\ Copied' = << >>
  BY <1>1 DEF Text, Copied
<1>3. Translated(Expand, << >>) = << >>
  BY ExpandShows, TranslatedEmpty
<1> QED
  BY <1>1, <1>2, <1>3, NothingShown

(* ... and after the last the terminator leaves it as it is. *)
LEMMA TerminateShows ==
  ASSUME ShownInv, [Next]_vars, Terminate
  PROVE  ShownInv'
<1>1. /\ pc = "copy" /\ it = Count /\ pc' = "output"
      /\ str_buf' = [str_buf EXCEPT ![str_it] = NUL]
      /\ UNCHANGED <<src, it, str_it, screen, sent>>
  BY DEF Terminate
<1>2. /\ str_it \in Nat /\ src \in Seq(Byte) /\ Count = Len(src)
      /\ str_buf \in [0..StrBufLen(Count) -> Byte \cup {Unset}]
      /\ CopyInv
  BY DEF ShownInv, CopyInv, TypeOK, Count
<1>3. Text' = Text
  <2>1. \A i \in 1..str_it : str_buf'[i - 1] = str_buf[i - 1]
    <3>1. str_it <= StrBufLen(Count) /\ StrBufLen(Count) \in Nat
      BY <1>1, <1>2 DEF CopyInv, CopyPart, TypeOK, Count, StrBufLen
    <3>2. \A i \in 1..str_it : i - 1 \in 0..StrBufLen(Count) /\ i - 1 # str_it
      BY <1>2, <3>1
    <3> QED
      BY <1>1, <1>2, <3>2
  <2>2. Text' = [i \in 1..str_it |-> str_buf'[i - 1]]
    BY <1>1 DEF Text
  <2> QED
    BY <2>1, <2>2, Zenon DEF Text
<1>4. Copied = src
  BY <1>1, <1>2 DEF Copied
<1>5. Text' = Translated(Expand, src')
  BY <1>1, <1>3, <1>4 DEF ShownInv
<1> QED
  BY <1>1, <1>5, NothingShown

(* The firmware displays the whole text or nothing. *)
LEMMA AnswerShows ==
  ASSUME ShownInv, [Next]_vars, OutputString \/ OutputStringFails
  PROVE  ShownInv'
<1>1. CASE OutputString
  <2>1. /\ pc = "output" /\ pc' = "idle"
        /\ screen' = screen \o Displayed /\ sent' = sent \o src
    BY <1>1 DEF OutputString
  <2>2. Displayed = Translated(Expand, src)
    BY <2>1, DisplayedIsText DEF ShownInv, CopyInv, Text
  <2>3. src \in Seq(Byte) /\ sent \in Seq(Byte) /\ screen = Translated(Expand, sent)
    BY DEF ShownInv, CopyInv, TypeOK, ScreenShowsWhatWasWritten
  <2>4. Translated(Expand, sent \o src) = Translated(Expand, sent) \o Translated(Expand, src)
    BY <2>3, ShownConcat
  <2>5. screen' = Translated(Expand, sent')
    BY <2>1, <2>2, <2>3, <2>4
  <2>6. CopyInv'
    BY CopyNext DEF ShownInv
  <2> QED
    BY <2>1, <2>5, <2>6 DEF ShownInv, ScreenShowsWhatWasWritten, Expand
<1>2. CASE OutputStringFails
  BY <1>2, NothingShown DEF OutputStringFails
<1> QED
  BY <1>1, <1>2

(* A step outside fd_write leaves the text as it is. *)
LEMMA OtherStepShows ==
  ASSUME ShownInv, [Next]_vars,
         UNCHANGED <<pc, src, it, str_it, str_buf, screen, sent>>
  PROVE  ShownInv'
<1>1. Text' = Text /\ Copied' = Copied
  BY DEF Text, Copied
<1> QED
  BY <1>1, NothingShown DEF ShownInv, Translated, Expand

(* The text is on the screen, whatever the program writes. *)
LEMMA ShownNext == ShownInv /\ [Next]_vars => ShownInv'
<1> SUFFICES ASSUME ShownInv, [Next]_vars PROVE ShownInv'
  OBVIOUS
<1>1. CASE Program \/ UNCHANGED vars
  <2>1. UNCHANGED <<pc, src, it, str_it, str_buf, screen, sent>>
    BY <1>1 DEF Program, write, clibc_putchar, clibc_puts, Call, vars
  <2> QED
    BY <2>1, OtherStepShows
<1>2. CASE Step
  BY <1>2, CopyShows, BeginShows, TerminateShows, AnswerShows DEF Step
<1> QED
  BY <1>1, <1>2 DEF Next

(* The screen shows the bytes of all successful writes, in order, newlines  *)
(* expanded and NULs dropped, for any buffers and any failures.             *)
THEOREM ScreenIsWhatWasWritten == Spec => []ScreenShowsWhatWasWritten
<1>1. Init => ShownInv
  <2> SUFFICES ASSUME Init PROVE ShownInv
    OBVIOUS
  <2>1. Translated(Expand, << >>) = << >>
    BY ExpandShows, TranslatedEmpty
  <2> QED
    BY <2>1, CopyInit DEF Init, ShownInv, ScreenShowsWhatWasWritten
<1>2. ShownInv => ScreenShowsWhatWasWritten
  BY DEF ShownInv
<1> QED
  BY <1>1, <1>2, ShownNext, PTL DEF Spec

-----------------------------------------------------------------------------
(* How long a library call takes: what CallsFinish rests on. *)

(* A buffer is no longer than the longest of write, or the byte of _putchar *)
(* and the newline of _puts; there are at most two.                         *)
BuffersShort ==
  Len(todo) <= 2 /\ \A i \in 1..Len(todo) : Len(todo[i]) <= MaxCount + 1

(* More steps than fd_write takes for such a buffer. *)
BufferSteps == MaxCount + 4

(* The buffers that wait, and what is left of the one being written. *)
StepsLeft ==
  Len(todo) * BufferSteps +
    (IF pc = "copy" THEN Count - it + 2 ELSE IF pc = "output" THEN 1 ELSE 0)

WorkInv ==
  /\ TypeOK /\ BuffersShort
  /\ pc # "idle" => Len(todo) <= 1 /\ Count <= MaxCount + 1

(* What the proofs use of the types. *)
LEMMA WorkTypes ==
  ASSUME TypeOK
  PROVE  /\ todo \in Seq(Seq(Byte)) /\ Len(todo) \in Nat /\ Count \in Nat
         /\ it \in 0..Count /\ pc \in {"idle", "copy", "output"}
         /\ BufferSteps \in Nat /\ MaxCount \in Nat /\ BufferSteps = MaxCount + 4
BY ConsoleOutAssumption DEF TypeOK, Count, BufferSteps

(* The buffers that wait when the next one is taken. *)
LEMMA NextBuffer ==
  ASSUME NEW s \in Seq(Seq(Byte)), s # << >>
  PROVE  /\ Head(s) = s[1] /\ Len(Tail(s)) = Len(s) - 1
         /\ Len(s) \in Nat /\ Len(s) >= 1 /\ 1 \in 1..Len(s)
         /\ \A i \in 1..Len(Tail(s)) : Tail(s)[i] = s[i + 1] /\ i + 1 \in 1..Len(s)
OBVIOUS

(* A library call asks for one buffer or two. *)
LEMMA ProgramAsks ==
  ASSUME Program
  PROVE  /\ pc = "idle" /\ todo = << >> /\ pc' = pc /\ src' = src /\ it' = it
         /\ BuffersShort'
<1>0. 1 <= MaxCount + 1
  BY ConsoleOutAssumption
<1>1. ASSUME NEW buf \in Strings(Byte, MaxCount), write(buf)
      PROVE  BuffersShort'
  <2>1. Len(buf) <= MaxCount
    BY ConsoleOutAssumption DEF Strings
  <2>2. todo' = <<buf>>
    BY <1>1 DEF write, Call
  <2>3. Len(todo') = 1 /\ todo'[1] = buf
    BY <2>2
  <2>4. Len(buf) <= MaxCount + 1
    BY <2>1, StringsAreSequences, ConsoleOutAssumption
  <2>5. \A i \in 1..Len(todo') : i = 1
    BY <2>3
  <2> QED
    BY <2>3, <2>4, <2>5 DEF BuffersShort
<1>2. ASSUME NEW c \in Byte, clibc_putchar(c)
      PROVE  BuffersShort'
  <2>1. todo' = << <<c>> >>
    BY <1>2 DEF clibc_putchar, Call
  <2>2. Len(todo') = 1 /\ Len(todo'[1]) = 1
    BY <2>1
  <2>3. Len(todo'[1]) <= MaxCount + 1
    BY <2>2, <1>0
  <2>4. \A i \in 1..Len(todo') : i = 1
    BY <2>2
  <2>5. Len(todo') <= 2
    BY <2>2
  <2> QED
    BY <2>3, <2>4, <2>5 DEF BuffersShort
<1>3. ASSUME NEW str \in Strings(Byte \ {NUL}, MaxCount), clibc_puts(str)
      PROVE  BuffersShort'
  <2>1. Len(str) <= MaxCount
    BY ConsoleOutAssumption DEF Strings
  <2>2. todo' = <<str, <<LF>> >>
    BY <1>3 DEF clibc_puts, Call
  <2>3. Len(todo') = 2 /\ todo'[1] = str /\ Len(todo'[2]) = 1
    BY <2>2
  <2>4. Len(str) <= MaxCount + 1
    BY <2>1, StringsAreSequences, ConsoleOutAssumption
  <2>5. Len(todo'[1]) <= MaxCount + 1 /\ Len(todo'[2]) <= MaxCount + 1
    BY <2>3, <2>4, <1>0
  <2>6. \A i \in 1..Len(todo') : i = 1 \/ i = 2
    BY <2>3
  <2>7. Len(todo') <= 2
    BY <2>3
  <2> QED
    BY <2>5, <2>6, <2>7 DEF BuffersShort
<1>4. pc = "idle" /\ todo = << >> /\ UNCHANGED <<pc, src, it>>
  BY DEF Program, write, clibc_putchar, clibc_puts, Call
<1> QED
  BY <1>1, <1>2, <1>3, <1>4 DEF Program

(* fd_write takes its buffer and exchanges its share of StepsLeft for less. *)
LEMMA BeginWorks ==
  ASSUME WorkInv, fd_write
  PROVE  /\ BuffersShort' /\ Len(todo') <= 1 /\ Count' <= MaxCount + 1
         /\ StepsLeft' < StepsLeft
<1>1. /\ pc = "idle" /\ todo # << >> /\ pc' = "copy" /\ todo' = Tail(todo)
      /\ src' = Head(todo) /\ it' = 0
  BY DEF fd_write
<1>2. /\ todo \in Seq(Seq(Byte)) /\ Len(todo) <= 2 /\ MaxCount \in Nat
      /\ BufferSteps = MaxCount + 4 /\ BufferSteps \in Nat
      /\ \A i \in 1..Len(todo) : Len(todo[i]) <= MaxCount + 1
  BY WorkTypes DEF WorkInv, BuffersShort
<1>3. /\ Head(todo) = todo[1] /\ Len(todo') = Len(todo) - 1
      /\ Len(todo) \in Nat /\ Len(todo) >= 1 /\ 1 \in 1..Len(todo)
      /\ \A i \in 1..Len(todo') : todo'[i] = todo[i + 1] /\ i + 1 \in 1..Len(todo)
  <2>1. /\ Head(todo) = todo[1] /\ Len(Tail(todo)) = Len(todo) - 1
        /\ Len(todo) \in Nat /\ Len(todo) >= 1 /\ 1 \in 1..Len(todo)
        /\ \A i \in 1..Len(Tail(todo)) :
             Tail(todo)[i] = todo[i + 1] /\ i + 1 \in 1..Len(todo)
    BY <1>1, <1>2, NextBuffer
  <2> QED
    BY <1>1, <2>1
<1>4. Count' = Len(todo[1]) /\ Count' \in Nat /\ Count' <= MaxCount + 1
  <2>1. todo[1] \in Seq(Byte)
    BY <1>2, <1>3
  <2> QED
    BY <1>1, <1>2, <1>3, <2>1 DEF Count
<1>5. BuffersShort'
  BY <1>2, <1>3 DEF BuffersShort
<1>6. StepsLeft = Len(todo) * BufferSteps /\ StepsLeft' = Len(todo') * BufferSteps + Count' + 2
  BY <1>1, <1>2, <1>3, <1>4 DEF StepsLeft, BufferSteps
<1> DEFINE rest == Len(todo') * BufferSteps
<1>7. rest \in Nat /\ Len(todo) * BufferSteps = rest + BufferSteps
  BY <1>2, <1>3
<1> HIDE DEF rest
<1>8. StepsLeft = rest + BufferSteps /\ StepsLeft' = rest + Count' + 2
  BY <1>6, <1>7 DEF rest
<1>9. StepsLeft' < StepsLeft
  BY <1>2, <1>4, <1>7, <1>8
<1>10. Len(todo') <= 1
  BY <1>2, <1>3
<1> QED
  BY <1>4, <1>5, <1>9, <1>10

(* The other steps of fd_write are one less each. *)
LEMMA WriteWorks ==
  ASSUME WorkInv, Step, ~fd_write
  PROVE  /\ UNCHANGED <<todo, src>> /\ (pc' # "idle" => pc # "idle")
         /\ StepsLeft' < StepsLeft
<1>1. UNCHANGED <<todo, src>> /\ Count' = Count
  <2>1. UNCHANGED <<todo, src>>
    BY Zenon DEF Step, CopyNul, CopyNewline, CopyPlain, Iterate, Terminate, OutputString,
                 OutputStringFails
  <2> QED
    BY <2>1, Zenon DEF Count
<1> DEFINE waiting == Len(todo) * BufferSteps
<1>2. waiting \in Nat /\ Count \in Nat /\ it \in 0..Count
  BY WorkTypes DEF WorkInv
<1>3. /\ waiting' = waiting
      /\ StepsLeft = waiting +
           (IF pc = "copy" THEN Count - it + 2 ELSE IF pc = "output" THEN 1 ELSE 0)
      /\ StepsLeft' = waiting +
           (IF pc' = "copy" THEN Count - it' + 2 ELSE IF pc' = "output" THEN 1 ELSE 0)
  BY <1>1 DEF StepsLeft, BufferSteps
<1> HIDE DEF waiting
<1>4. \/ pc = "copy" /\ pc' = "copy" /\ it' = it + 1
      \/ pc = "copy" /\ pc' = "output" /\ it = Count
      \/ pc = "output" /\ pc' = "idle"
  BY DEF Step, CopyNul, CopyNewline, CopyPlain, Iterate, Terminate, OutputString,
         OutputStringFails
<1> QED
  BY <1>1, <1>2, <1>3, <1>4

(* The invariant, and that every step of the library is one step nearer.    *)
LEMMA WorkNext ==
  ASSUME WorkInv, TypeOK', [Next]_vars
  PROVE  WorkInv' /\ (Step => StepsLeft' < StepsLeft)
<1>1. CASE Step
  <2>1. CASE fd_write
    BY <2>1, BeginWorks DEF WorkInv
  <2>2. CASE ~fd_write
    BY <1>1, <2>2, WriteWorks DEF WorkInv, BuffersShort, Count
  <2> QED
    BY <2>1, <2>2
<1>2. CASE Program /\ ~Step
  BY <1>2, ProgramAsks DEF WorkInv
<1>3. CASE UNCHANGED vars /\ ~Step
  BY <1>3 DEF WorkInv, BuffersShort, Count, vars
<1> QED
  BY <1>1, <1>2, <1>3 DEF Next

(* With what is known of the copy, for which the types are proved above. *)
LEMMA WorkAlwaysNext == CopyInv /\ WorkInv /\ [Next]_vars => CopyInv' /\ WorkInv'
BY CopyNext, WorkNext DEF CopyInv

(* The buffers of a program stay short, whatever it calls. *)
THEOREM WorkAlways == Spec => [](CopyInv /\ WorkInv)
<1>1. Init => CopyInv /\ WorkInv
  BY CopyInit, ConsoleOutAssumption DEF Init, CopyInv, WorkInv, BuffersShort
<1> QED
  BY <1>1, WorkAlwaysNext, PTL DEF Spec

(* Every step of the library leaves fewer to take, failing writes and bytes *)
(* that are dropped included: no call runs in circles.                      *)
THEOREM EveryStepIsProgress == Spec => [][Step => StepsLeft' < StepsLeft]_vars
<1>1. (CopyInv /\ WorkInv) /\ (CopyInv /\ WorkInv)' /\ [Next]_vars
        => [Step => StepsLeft' < StepsLeft]_vars
  BY WorkNext DEF CopyInv
<1> QED
  BY <1>1, WorkAlways, PTL DEF Spec

(* There are never more left than two buffers take, and none exactly when   *)
(* the call has ended.                                                      *)
THEOREM WorkIsBounded ==
  Spec => [](/\ StepsLeft \in 0..(2 * BufferSteps)
             /\ StepsLeft = 0 <=> pc = "idle" /\ todo = << >>)
<1>1. WorkInv => /\ StepsLeft \in 0..(2 * BufferSteps)
                 /\ StepsLeft = 0 <=> pc = "idle" /\ todo = << >>
  <2> SUFFICES ASSUME WorkInv
               PROVE  /\ StepsLeft \in 0..(2 * BufferSteps)
                      /\ StepsLeft = 0 <=> pc = "idle" /\ todo = << >>
    OBVIOUS
  <2>1. /\ todo \in Seq(Seq(Byte)) /\ Len(todo) \in Nat /\ Count \in Nat
        /\ it \in 0..Count /\ pc \in {"idle", "copy", "output"}
        /\ BufferSteps \in Nat /\ MaxCount \in Nat /\ BufferSteps = MaxCount + 4
    BY WorkTypes DEF WorkInv
  <2>2. /\ Len(todo) = 0 \/ Len(todo) = 1 \/ Len(todo) = 2
        /\ pc # "idle" => (Len(todo) = 0 \/ Len(todo) = 1) /\ Count <= MaxCount + 1
    <3>1. Len(todo) <= 2 /\ (pc # "idle" => Len(todo) <= 1 /\ Count <= MaxCount + 1)
      BY DEF WorkInv, BuffersShort
    <3> DEFINE n == Len(todo)
    <3>2. n \in Nat /\ n <= 2
      BY <2>1, <3>1
    <3>3. pc # "idle" => n <= 1 /\ Count <= MaxCount + 1
      BY <3>1
    <3> HIDE DEF n
    <3>4. (n = 0 \/ n = 1 \/ n = 2) /\ (n <= 1 => n = 0 \/ n = 1)
      BY <3>2
    <3> QED
      BY <3>3, <3>4 DEF n
  <2>3. Len(todo) = 0 <=> todo = << >>
    BY <2>1
  <2>4. Len(todo) * BufferSteps = IF Len(todo) = 0 THEN 0
                                  ELSE IF Len(todo) = 1 THEN BufferSteps
                                  ELSE 2 * BufferSteps
    <3>1. 0 * BufferSteps = 0 /\ 1 * BufferSteps = BufferSteps
      BY <2>1
    <3> QED
      BY <2>2, <3>1
  <2> DEFINE here == IF pc = "copy" THEN Count - it + 2 ELSE IF pc = "output" THEN 1 ELSE 0
  <2>5. /\ here \in Nat /\ (here = 0 <=> pc = "idle")
        /\ pc # "idle" => here <= BufferSteps
    BY <2>1, <2>2
  <2>6. StepsLeft = Len(todo) * BufferSteps + here
    BY DEF StepsLeft
  <2> HIDE DEF here
  <2> QED
    BY <2>1, <2>2, <2>3, <2>4, <2>5, <2>6
<1> QED
  BY <1>1, WorkAlways, PTL
=============================================================================
