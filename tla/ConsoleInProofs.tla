-------------------------- MODULE ConsoleInProofs ---------------------------
(* Console input for any keyboard, any number of keys and calls of any      *)
(* count: fd_read hands over the keys in order, and what its result means.  *)
EXTENDS ConsoleIn, FiniteSetTheorems, TLAPS

(* While a call is in progress its loop counter is the number of keys it    *)
(* has taken, and none of them was a line break, which would have ended it. *)
LoopPart ==
  reading =>
    /\ Received = it
    /\ \A j \in 0..(it - 1) : buf[j] # LF

InInv ==
  InTypeOK /\ LoopPart /\ BufferHoldsKeysInOrder /\ ReturnIsExactOnlyAfterNewline

(* A key is handed over as a byte; with it, at most a line feed is shown. *)
LEMMA ToCharIsChar ==
  ASSUME NEW k \in Key
  PROVE  /\ Low[k] \in Char /\ ToChar(k) \in Char
         /\ LF \in Char /\ Unset \notin Char
BY ConsoleInAssumption DEF ToChar

(* What a key puts on the screen: itself, or a newline as well.             *)
LEMMA EchoIsShown ==
  ASSUME NEW k \in Key
  PROVE  Echo(k) \in Seq(Key \cup {LF})
<1>1. <<k>> \in Seq(Key \cup {LF}) /\ <<k, LF>> \in Seq(Key \cup {LF})
  OBVIOUS
<1> QED
  BY <1>1 DEF Echo

(* The invariant holds before the first call. *)
LEMMA InInitInv == InInit => InInv
<1> SUFFICES ASSUME InInit PROVE InInv
  OBVIOUS
<1>1. /\ typed \in Seq(Key) /\ taken \in 0..Len(typed) /\ echo \in Seq(Key \cup {LF})
      /\ got \in Seq(Key) /\ start \in 0..Len(got)
  BY DEF InInit
<1>2. buf \in [0..(count - 1) -> Char \cup {Unset}]
  <2>1. 0..(count - 1) = {} /\ buf = << >>
    BY DEF InInit
  <2>2. << >> \in [{} -> Char \cup {Unset}]
    OBVIOUS
  <2> QED
    BY <2>1, <2>2
<1>3. InTypeOK
  <2>1. reading \in BOOLEAN
    BY DEF InInit
  <2>2. count \in Nat /\ it \in 0..count /\ ret \in Nat /\ failed \in 0..MaxFailures
    BY ConsoleInAssumption DEF InInit
  <2> QED
    BY <1>1, <1>2, <2>1, <2>2 DEF InTypeOK
<1>4. LoopPart /\ BufferHoldsKeysInOrder /\ ReturnIsExactOnlyAfterNewline
  BY DEF InInit, LoopPart, BufferHoldsKeysInOrder, ReturnIsExactOnlyAfterNewline
<1> QED
  BY <1>3, <1>4 DEF InInv

(* A key that is pressed joins the end of the keyboard buffer, which no     *)
(* call has looked at yet.                                                  *)
LEMMA PressKeepsInv ==
  ASSUME InInv, NEW k \in Key, Press(k)
  PROVE  InInv'
<1>1. /\ typed' = Append(typed, k) /\ typed \in Seq(Key)
      /\ UNCHANGED <<taken, failed, got, echo, reading, count, it, buf, ret, start>>
  BY DEF Press, InInv, InTypeOK
<1>2. typed' \in Seq(Key) /\ Len(typed') = Len(typed) + 1 /\ Len(typed) \in Nat
  BY <1>1
<1>3. InTypeOK'
  BY <1>1, <1>2 DEF InInv, InTypeOK
<1>4. BufferHoldsKeysInOrder'
  BY <1>1 DEF InInv, BufferHoldsKeysInOrder, Received, Stored, ToChar
<1>5. LoopPart' /\ ReturnIsExactOnlyAfterNewline'
  BY <1>1 DEF InInv, LoopPart, Received, ReturnIsExactOnlyAfterNewline
<1> QED
  BY <1>3, <1>4, <1>5 DEF InInv

(* A call begins with nothing taken and a buffer nobody has written.        *)
LEMMA CallKeepsInv ==
  ASSUME InInv, NEW n \in Nat, fd_read(n)
  PROVE  InInv'
<1>1. /\ reading' = TRUE /\ count' = n /\ it' = 0 /\ start' = Len(got)
      /\ buf' = [i \in 0..(n - 1) |-> Unset]
      /\ UNCHANGED <<typed, taken, failed, got, echo, ret>>
  BY DEF fd_read
<1>2. InTypeOK'
  <2>1. Len(got) \in Nat
    BY DEF InInv, InTypeOK
  <2> QED
    BY <1>1, <2>1 DEF InInv, InTypeOK
<1>3. Received' = 0
  <2>1. Len(got) \in Nat
    BY DEF InInv, InTypeOK
  <2> QED
    BY <1>1, <2>1 DEF Received
<1>4. LoopPart' /\ BufferHoldsKeysInOrder' /\ ReturnIsExactOnlyAfterNewline'
  BY <1>1, <1>3
  DEF LoopPart, BufferHoldsKeysInOrder, ReturnIsExactOnlyAfterNewline
<1> QED
  BY <1>2, <1>4 DEF InInv

(* What an iteration of the loop finds: it is iteration number it of the   *)
(* call, and the place of its key in the buffer has not been written.       *)
LEMMA NextKeyFacts ==
  ASSUME InInv, NEW k \in Key, NextKey(k)
  PROVE  /\ it \in 0..(count - 1) /\ it \in Nat /\ start \in Nat
         /\ Len(got) = start + it /\ Len(got') = start + it + 1
         /\ got' \in Seq(Key) /\ start \in 0..Len(got')
         /\ taken' \in 0..Len(typed) /\ failed' \in 0..MaxFailures
         /\ Received' = it + 1
         /\ \A j \in {it} :
              Stored(j)' = IF j = 0 /\ Low[k] = BS THEN Unset ELSE ToChar(k)
         /\ \A j \in 0..(it - 1) : Stored(j)' = Stored(j)
         /\ buf[it] = Unset
         /\ UNCHANGED <<typed, count, start>>
<1>1. /\ reading /\ it # count /\ got' = Append(got, k)
      /\ UNCHANGED <<typed, count, start>>
  BY DEF NextKey
<1>2. /\ it \in 0..(count - 1) /\ it \in Nat /\ start \in Nat
      /\ got \in Seq(Key) /\ Len(got) \in Nat /\ start <= Len(got)
  BY <1>1 DEF InInv, InTypeOK
<1>3. /\ got' \in Seq(Key) /\ Len(got') = Len(got) + 1 /\ got'[Len(got) + 1] = k
      /\ \A i \in 1..Len(got) : got'[i] = got[i]
  BY <1>1, <1>2
<1>4. Received = it /\ Len(got) = start + it
  BY <1>1, <1>2 DEF InInv, LoopPart, Received
<1>5. Received' = it + 1 /\ Len(got') = start + it + 1 /\ start \in 0..Len(got')
  BY <1>1, <1>2, <1>3, <1>4 DEF Received
<1>6. taken' \in 0..Len(typed) /\ failed' \in 0..MaxFailures
  <2>1. taken \in 0..Len(typed) /\ Len(typed) \in Nat /\ failed \in 0..MaxFailures
    BY DEF InInv, InTypeOK
  <2>2. CASE Delivered(k)
    BY <2>1, <2>2 DEF Delivered
  <2>3. CASE NotDelivered(k)
    BY <2>1, <2>3, ConsoleInAssumption DEF NotDelivered
  <2> QED
    BY <2>2, <2>3 DEF NextKey
<1>7. \A j \in {it} : Stored(j)' = IF j = 0 /\ Low[k] = BS THEN Unset ELSE ToChar(k)
  <2> TAKE j \in {it}
  <2>1. start + 1 + j = Len(got) + 1
    BY <1>2, <1>4
  <2>2. got'[start + 1 + j] = k
    BY <1>3, <2>1
  <2> QED
    BY <1>1, <2>2 DEF Stored, ToChar
<1>8. \A j \in 0..(it - 1) : Stored(j)' = Stored(j)
  <2> TAKE j \in 0..(it - 1)
  <2>1. start + 1 + j \in 1..Len(got)
    BY <1>2, <1>4
  <2> QED
    BY <1>1, <1>3, <2>1 DEF Stored, ToChar
<1>9. buf[it] = Unset
  BY <1>2, <1>4 DEF InInv, BufferHoldsKeysInOrder
<1> QED
  BY <1>1, <1>2, <1>3, <1>4, <1>5, <1>6, <1>7, <1>8, <1>9

(* Each of the three iterations leaves in the buffer what Stored says.      *)
LEMMA IterationKeepsOrder ==
  ASSUME InInv, NEW k \in Key, NextKey(k), NEW b,
         b = IF it = 0 /\ Low[k] = BS THEN Unset ELSE ToChar(k),
         buf' = [buf EXCEPT ![it] = b]
  PROVE  BufferHoldsKeysInOrder'
<1>1. /\ it \in 0..(count - 1) /\ it \in Nat /\ Received' = it + 1
      /\ count \in Nat /\ count' = count
  BY NextKeyFacts DEF InInv, InTypeOK
<1>2. DOMAIN buf = 0..(count - 1)
  BY DEF InInv, InTypeOK
<1>3. Received = it
  BY DEF InInv, LoopPart, NextKey
<1>4. ASSUME NEW j \in 0..(count - 1)
      PROVE  buf'[j] = IF j < Received' THEN Stored(j)' ELSE Unset
  <2>1. CASE j = it
    <3>1. buf'[j] = b
      BY <1>1, <1>2, <2>1
    <3>2. Stored(j)' = b
      BY <2>1, NextKeyFacts
    <3> QED
      BY <1>1, <2>1, <3>1, <3>2
  <2>2. CASE j # it
    <3>1. buf'[j] = buf[j]
      BY <1>2, <2>2
    <3>2. buf[j] = IF j < it THEN Stored(j) ELSE Unset
      BY <1>3 DEF InInv, BufferHoldsKeysInOrder
    <3>3. j < it => j \in 0..(it - 1)
      BY <1>1
    <3>4. j < it => Stored(j)' = Stored(j)
      BY <3>3, NextKeyFacts
    <3> QED
      BY <1>1, <2>2, <3>1, <3>2, <3>4
  <2> QED
    BY <2>1, <2>2
<1> QED
  BY <1>1, <1>4 DEF BufferHoldsKeysInOrder

(* if (it == 0 && c == '\b') continue; *)
LEMMA SkipBackspaceKeepsInv ==
  ASSUME InInv, NEW k \in Key, SkipBackspace(k)
  PROVE  InInv'
<1>1. /\ NextKey(k) /\ it = 0 /\ Low[k] = BS /\ it' = it + 1
      /\ UNCHANGED <<echo, reading, buf, ret>>
  BY DEF SkipBackspace
<1>2. /\ it \in 0..(count - 1) /\ Received' = it + 1 /\ buf[it] = Unset
      /\ got' \in Seq(Key) /\ start \in 0..Len(got')
      /\ taken' \in 0..Len(typed) /\ failed' \in 0..MaxFailures
      /\ UNCHANGED <<typed, count, start>>
  BY <1>1, NextKeyFacts
<1>3. InTypeOK'
  BY <1>1, <1>2 DEF InInv, InTypeOK
<1>4. BufferHoldsKeysInOrder'
  <2>1. buf' = [buf EXCEPT ![it] = Unset]
    BY <1>1, <1>2 DEF InInv, InTypeOK
  <2> QED
    BY <1>1, <1>2, <2>1, IterationKeepsOrder
<1>5. LoopPart'
  BY <1>1, <1>2, ConsoleInAssumption DEF LoopPart
<1>6. ReturnIsExactOnlyAfterNewline'
  BY <1>1 DEF NextKey, ReturnIsExactOnlyAfterNewline
<1> QED
  BY <1>3, <1>4, <1>5, <1>6 DEF InInv

(* A key that is no line break. *)
LEMMA StoreKeyKeepsInv ==
  ASSUME InInv, NEW k \in Key, StoreKey(k)
  PROVE  InInv'
<1>1. /\ NextKey(k) /\ ~(it = 0 /\ Low[k] = BS) /\ ToChar(k) # LF /\ reading
      /\ echo' = echo \o Echo(k) /\ buf' = [buf EXCEPT ![it] = ToChar(k)]
      /\ it' = it + 1 /\ UNCHANGED <<reading, ret>>
  BY DEF StoreKey, NextKey
<1>2. /\ it \in 0..(count - 1) /\ Received' = it + 1
      /\ got' \in Seq(Key) /\ start \in 0..Len(got')
      /\ taken' \in 0..Len(typed) /\ failed' \in 0..MaxFailures
      /\ UNCHANGED <<typed, count, start>>
  BY <1>1, NextKeyFacts
<1>3. echo' \in Seq(Key \cup {LF})
  BY <1>1, EchoIsShown DEF InInv, InTypeOK
<1>4. buf' \in [0..(count - 1) -> Char \cup {Unset}]
  BY <1>1, ToCharIsChar DEF InInv, InTypeOK
<1>5. InTypeOK'
  BY <1>1, <1>2, <1>3, <1>4 DEF InInv, InTypeOK
<1>6. BufferHoldsKeysInOrder'
  BY <1>1, <1>2, IterationKeepsOrder
<1>7. LoopPart'
  <2>1. DOMAIN buf = 0..(count - 1) /\ count \in Nat
    BY DEF InInv, InTypeOK
  <2>2. \A j \in 0..(it - 1) : buf[j] # LF
    BY <1>1 DEF InInv, LoopPart
  <2>3. \A j \in 0..it : buf'[j] # LF
    BY <1>1, <1>2, <2>1, <2>2
  <2> QED
    BY <1>1, <1>2, <2>3 DEF LoopPart
<1>8. ReturnIsExactOnlyAfterNewline'
  BY <1>1 DEF ReturnIsExactOnlyAfterNewline
<1> QED
  BY <1>5, <1>6, <1>7, <1>8 DEF InInv

(* A line break ends the call: its byte is the last one that counts.        *)
LEMMA StoreNewlineKeepsInv ==
  ASSUME InInv, NEW k \in Key, StoreNewline(k)
  PROVE  InInv'
<1>1. /\ NextKey(k) /\ ToChar(k) = LF /\ reading /\ reading' = FALSE
      /\ echo' = echo \o Echo(k) /\ buf' = [buf EXCEPT ![it] = LF]
      /\ it' = it /\ ret' = it + 1
  BY DEF StoreNewline, NextKey
<1>2. /\ it \in 0..(count - 1) /\ Received' = it + 1 /\ it \in Nat
      /\ got' \in Seq(Key) /\ start \in 0..Len(got')
      /\ taken' \in 0..Len(typed) /\ failed' \in 0..MaxFailures
      /\ UNCHANGED <<typed, count, start>>
  BY <1>1, NextKeyFacts
<1>3. LF = IF it = 0 /\ Low[k] = BS THEN Unset ELSE ToChar(k)
  <2>1. Low[k] # BS
    BY <1>1, ConsoleInAssumption DEF ToChar
  <2> QED
    BY <1>1, <2>1
<1>4. echo' \in Seq(Key \cup {LF})
  BY <1>1, EchoIsShown DEF InInv, InTypeOK
<1>5. buf' \in [0..(count - 1) -> Char \cup {Unset}]
  BY <1>1, ToCharIsChar DEF InInv, InTypeOK
<1>6. InTypeOK'
  <2>1. reading' \in BOOLEAN
    BY <1>1
  <2>2. it' \in 0..count' /\ ret' \in Nat /\ count' \in Nat
    BY <1>1, <1>2 DEF InInv, InTypeOK
  <2> QED
    BY <1>2, <1>4, <1>5, <2>1, <2>2 DEF InInv, InTypeOK
<1>7. BufferHoldsKeysInOrder'
  BY <1>1, <1>2, <1>3, IterationKeepsOrder
<1>8. LoopPart'
  BY <1>1 DEF LoopPart
<1>9. ReturnIsExactOnlyAfterNewline'
  <2>1. buf'[it] = LF
    BY <1>1, <1>2 DEF InInv, InTypeOK
  <2>2. it \in 0..(count' - 1) /\ ret' = Received' /\ ret' - 1 = it
    BY <1>1, <1>2
  <2> QED
    BY <2>1, <2>2 DEF ReturnIsExactOnlyAfterNewline
<1> QED
  BY <1>6, <1>7, <1>8, <1>9 DEF InInv

(* A full buffer ends the call, with the counter one past its last byte.    *)
LEMMA ReturnFullKeepsInv == InInv /\ ReturnFull => InInv'
<1> SUFFICES ASSUME InInv, ReturnFull PROVE InInv'
  OBVIOUS
<1>1. /\ reading /\ it = count /\ reading' = FALSE /\ ret' = it + 1
      /\ UNCHANGED <<typed, taken, failed, got, echo, count, it, buf, start>>
  BY DEF ReturnFull
<1>2. Received = count /\ Received' = Received /\ count \in Nat
  BY <1>1 DEF InInv, InTypeOK, LoopPart, Received
<1>3. InTypeOK'
  <2>1. reading' \in BOOLEAN
    BY <1>1
  <2>2. it' \in 0..count' /\ ret' \in Nat
    BY <1>1 DEF InInv, InTypeOK
  <2>3. UNCHANGED <<typed, taken, failed, got, echo, count, buf, start>>
    BY <1>1
  <2> QED
    BY <2>1, <2>2, <2>3 DEF InInv, InTypeOK
<1>4. BufferHoldsKeysInOrder'
  <2>1. \A j : Stored(j)' = Stored(j)
    BY <1>1 DEF Stored, ToChar
  <2> QED
    BY <1>1, <1>2, <2>1 DEF InInv, BufferHoldsKeysInOrder
<1>5. LoopPart'
  BY <1>1 DEF LoopPart
<1>6. ReturnIsExactOnlyAfterNewline'
  BY <1>1, <1>2 DEF InInv, LoopPart, ReturnIsExactOnlyAfterNewline
<1> QED
  BY <1>3, <1>4, <1>5, <1>6 DEF InInv

(* An iteration of the loop, or its end. *)
LEMMA ReadStepKeepsInv == InInv /\ ReadStep => InInv'
BY SkipBackspaceKeepsInv, StoreKeyKeepsInv, StoreNewlineKeepsInv,
   ReturnFullKeepsInv DEF ReadStep

(* Keys and calls in any order keep the invariant. *)
LEMMA NextKeepsInv == InInv /\ [InNext]_inVars => InInv'
<1> SUFFICES ASSUME InInv, [InNext]_inVars PROVE InInv'
  OBVIOUS
<1>1. CASE \E k \in Key : Press(k)
  BY <1>1, PressKeepsInv
<1>2. CASE \E n \in 0..MaxCount : fd_read(n)
  BY <1>2, CallKeepsInv
<1>3. CASE ReadStep
  BY <1>3, ReadStepKeepsInv
<1>4. CASE UNCHANGED inVars
  BY <1>4 DEF inVars, InInv, InTypeOK, LoopPart, Received, Stored, ToChar,
              BufferHoldsKeysInOrder, ReturnIsExactOnlyAfterNewline
<1> QED
  BY <1>1, <1>2, <1>3, <1>4 DEF InNext

(* The invariant of fd_read, for any keys, counts and interleaving.         *)
THEOREM InAlways == InSpec => []InInv
BY InInitInv, NextKeepsInv, PTL DEF InSpec

(* fd_read stores the keys since it was called, in the order they were      *)
(* pressed, whatever the user types meanwhile.                              *)
THEOREM KeysInOrderAlways == InSpec => []BufferHoldsKeysInOrder
BY InAlways, PTL DEF InInv

(* Its result is the number of bytes only if a line break ended the call;   *)
(* for a full buffer it is one more.                                        *)
THEOREM ResultAlways == InSpec => []ReturnIsExactOnlyAfterNewline
BY InAlways, PTL DEF InInv

-----------------------------------------------------------------------------
(* Keys made up by a failing keyboard.  Place i of got, if it is none of    *)
(* them, holds the key that was pressed so many places earlier as there are *)
(* made-up keys before it.                                                  *)
Before(ghosts, i) == {j \in ghosts : j < i}
PlaceOf(ghosts, i) == i - Cardinality(Before(ghosts, i))

Ghosts(ghosts) ==
  /\ ghosts \subseteq 1..Len(got) /\ IsFiniteSet(ghosts)
  /\ Cardinality(ghosts) = failed
  /\ Len(got) = taken + failed
  /\ \A i \in (1..Len(got)) \ ghosts :
       /\ PlaceOf(ghosts, i) \in 1..taken
       /\ got[i] = typed[PlaceOf(ghosts, i)]

GhostInv == InInv /\ \E ghosts : Ghosts(ghosts)

(* A step that begins no iteration leaves got, and what it came from, alone.*)
LEMMA GhostsStay ==
  ASSUME InInv, NEW ghosts, Ghosts(ghosts), UNCHANGED <<got, taken, failed>>,
         \A i \in 1..taken : typed'[i] = typed[i]
  PROVE  Ghosts(ghosts)'
BY DEF Ghosts, PlaceOf, Before

(* An iteration adds one key, and one made-up key if it was not delivered.  *)
LEMMA IterationKeepsGhosts ==
  ASSUME InInv, NEW ghosts, Ghosts(ghosts), NEW k \in Key, NextKey(k)
  PROVE  \E g : Ghosts(g)'
<1> DEFINE n == Len(got) + 1
<1>1. /\ got' = Append(got, k) /\ got \in Seq(Key) /\ typed' = typed
      /\ taken \in Nat /\ failed \in Nat /\ Len(got) \in Nat /\ Len(typed) \in Nat
  BY ConsoleInAssumption DEF NextKey, InInv, InTypeOK
<1>2. /\ Len(got') = n /\ got'[n] = k /\ n \in Nat
      /\ \A i \in 1..Len(got) : got'[i] = got[i]
  BY <1>1
<1>3. /\ ghosts \subseteq 1..Len(got) /\ IsFiniteSet(ghosts)
      /\ Cardinality(ghosts) = failed /\ Len(got) = taken + failed
      /\ \A i \in (1..Len(got)) \ ghosts :
           /\ PlaceOf(ghosts, i) \in 1..taken
           /\ got[i] = typed[PlaceOf(ghosts, i)]
  BY DEF Ghosts
<1>4. 1..n = (1..Len(got)) \cup {n} /\ n \notin 1..Len(got)
  BY <1>1
<1>5. CASE Delivered(k)
  <2>1. k = typed[taken + 1] /\ taken' = taken + 1 /\ failed' = failed
    BY <1>5 DEF Delivered
  <2>2. PlaceOf(ghosts, n) = taken + 1
    <3>1. \A j \in ghosts : j < n
      BY <1>1, <1>3
    <3>2. Before(ghosts, n) = ghosts
      BY <3>1 DEF Before
    <3> QED
      BY <1>1, <1>3, <3>2 DEF PlaceOf
  <2>3. ASSUME NEW i \in (1..n) \ ghosts
        PROVE  /\ PlaceOf(ghosts, i) \in 1..taken'
               /\ got'[i] = typed[PlaceOf(ghosts, i)]
    <3>1. CASE i = n
      BY <1>1, <1>2, <2>1, <2>2, <3>1
    <3>2. CASE i # n
      BY <1>1, <1>2, <1>3, <1>4, <2>1, <3>2
    <3> QED
      BY <3>1, <3>2
  <2>4. ghosts \subseteq 1..n /\ n = taken' + failed'
    BY <1>1, <1>3, <1>4, <2>1
  <2>5. Ghosts(ghosts)'
    BY <1>1, <1>2, <1>3, <2>1, <2>3, <2>4 DEF Ghosts, PlaceOf, Before
  <2> QED
    BY <2>5
<1>6. CASE NotDelivered(k)
  <2> DEFINE g == ghosts \cup {n}
  <2>1. failed' = failed + 1 /\ taken' = taken
    BY <1>6 DEF NotDelivered
  <2>2. IsFiniteSet(g) /\ Cardinality(g) = failed + 1
    BY <1>3, <1>4, FS_AddElement
  <2>3. ASSUME NEW i \in (1..n) \ g
        PROVE  /\ PlaceOf(g, i) \in 1..taken'
               /\ got'[i] = typed[PlaceOf(g, i)]
    <3>1. i \in (1..Len(got)) \ ghosts /\ ~(n < i)
      BY <1>1, <1>4
    <3>2. Before(g, i) = Before(ghosts, i)
      BY <3>1 DEF Before
    <3> QED
      BY <1>2, <1>3, <2>1, <3>1, <3>2 DEF PlaceOf
  <2>4. g \subseteq 1..n /\ n = taken' + failed'
    BY <1>1, <1>3, <1>4, <2>1
  <2>5. Cardinality(g) = failed' /\ 1..Len(got') = 1..n /\ Len(got') = taken' + failed'
    BY <1>2, <2>1, <2>2, <2>4
  <2>6. ASSUME NEW i \in (1..Len(got')) \ g
        PROVE  PlaceOf(g, i) \in 1..taken' /\ got'[i] = typed'[PlaceOf(g, i)]
    BY <1>1, <2>3, <2>5
  <2> HIDE DEF g
  <2>7. ASSUME NEW h, h = g PROVE Ghosts(h)'
    BY <2>2, <2>4, <2>5, <2>6, <2>7 DEF Ghosts, PlaceOf, Before
  <2> QED
    BY <2>7
<1> QED
  BY <1>5, <1>6 DEF NextKey

(* Every step of reader and user has made-up keys to show for failures.     *)
LEMMA NextKeepsGhosts == GhostInv /\ [InNext]_inVars => (\E ghosts : Ghosts(ghosts))'
<1> SUFFICES ASSUME InInv, NEW ghosts, Ghosts(ghosts), [InNext]_inVars
             PROVE  \E g : Ghosts(g)'
  BY DEF GhostInv
<1>1. CASE \E k \in Key : NextKey(k)
  BY <1>1, IterationKeepsGhosts
<1>2. CASE UNCHANGED <<got, taken, failed>> /\ UNCHANGED typed
  BY <1>2, GhostsStay
<1>3. CASE \E k \in Key : Press(k)
  <2>1. PICK k \in Key : Press(k)
    BY <1>3
  <2>2. /\ typed' = Append(typed, k) /\ typed \in Seq(Key) /\ taken \in 0..Len(typed)
        /\ UNCHANGED <<got, taken, failed>>
    BY <2>1 DEF Press, InInv, InTypeOK
  <2>3. \A i \in 1..taken : typed'[i] = typed[i]
    BY <2>2
  <2> QED
    BY <2>2, <2>3, GhostsStay
<1>4. CASE \E n \in 0..MaxCount : fd_read(n)
  BY <1>2, <1>4 DEF fd_read
<1>5. CASE ReadStep
  BY <1>1, <1>2, <1>5 DEF ReadStep, SkipBackspace, StoreKey, StoreNewline, ReturnFull
<1>6. CASE UNCHANGED inVars
  BY <1>2, <1>6 DEF inVars
<1> QED
  BY <1>3, <1>4, <1>5, <1>6 DEF InNext

(* However often the keyboard fails, each failure puts in one key and takes *)
(* none away.                                                               *)
THEOREM FailuresCostNoKey == InSpec => []FailuresLoseNoKey
<1>1. InInit => GhostInv
  <2> SUFFICES ASSUME InInit PROVE InInv /\ Ghosts({})
    BY DEF GhostInv
  <2>1. InInv
    BY InInitInv
  <2>2. Len(got) = 0 /\ taken = 0 /\ failed = 0
    BY DEF InInit
  <2>3. Ghosts({})
    BY <2>2, FS_EmptySet DEF Ghosts
  <2> QED
    BY <2>1, <2>3
<1>2. GhostInv /\ [InNext]_inVars => GhostInv'
  BY NextKeepsInv, NextKeepsGhosts DEF GhostInv
<1>3. GhostInv => FailuresLoseNoKey
  BY DEF GhostInv, Ghosts, PlaceOf, Before, FailuresLoseNoKey
<1> QED
  BY <1>1, <1>2, <1>3, PTL DEF InSpec

(* The state of console input has its types. *)
THEOREM InTypesAlways == InSpec => []InTypeOK
BY InAlways, PTL DEF InInv
=============================================================================
