----------------------------- MODULE PathsProofs -----------------------------
(* Path names for a buffer of any size, paths of any length and any number  *)
(* of conversions: no store leaves the buffer, and the firmware reads the   *)
(* path up to where it is cut.                                              *)
EXTENDS Paths, TLAPS

(* Element n of the buffer holds character n of the path. *)
Copied(n) == Element(n) = <<input[n + 1], NUL>>

CutName == [i \in 1..CutLen(input) |-> <<input[i], NUL>>]

(* The terminator ends up behind the last character copied; nothing is      *)
(* known of the buffer behind it.                                           *)
PathInv ==
  /\ PathTypeOK
  /\ it <= Cap
  /\ pc # "idle" => \A n \in 0..(it - 1) : Copied(n)
  /\ pc = "call" => it = CutLen(input) /\ Element(it) = Zero
  /\ pc = "idle" => name = CutName

(* The last character and the terminator fit into the buffer. *)
LEMMA CapFits ==
  /\ Cap \in Nat
  /\ \A n \in 0..Cap : n * 2 \in 0..(Size - 1) /\ n * 2 + 1 \in 0..(Size - 1)
                       /\ n \in 0..((Size \div 2) - 1)
BY PathsAssumption DEF Cap

(* Storing element n leaves the elements before it alone.                   *)
LEMMA StoreElement ==
  ASSUME PathTypeOK, NEW n \in 0..Cap, NEW c \in Char \cup {NUL},
         fres' = [fres EXCEPT ![n * 2] = c, ![n * 2 + 1] = NUL]
  PROVE  /\ fres' \in [0..(Size - 1) -> Char \cup {NUL}]
         /\ \A j \in 0..n : Element(j)' = IF j = n THEN <<c, NUL>> ELSE Element(j)
<1>1. /\ n * 2 \in DOMAIN fres /\ n * 2 + 1 \in DOMAIN fres
      /\ fres \in [0..(Size - 1) -> Char \cup {NUL}]
  BY CapFits DEF PathTypeOK
<1>2. fres' \in [0..(Size - 1) -> Char \cup {NUL}]
  BY <1>1
<1>3. ASSUME NEW j \in 0..n
      PROVE  Element(j)' = IF j = n THEN <<c, NUL>> ELSE Element(j)
  <2>1. CASE j = n
    <3>1. fres'[j * 2] = c /\ fres'[j * 2 + 1] = NUL
      BY <1>1, <2>1
    <3> QED
      BY <2>1, <3>1 DEF Element
  <2>2. CASE j # n
    <3>1. j * 2 # n * 2 /\ j * 2 # n * 2 + 1 /\ j * 2 + 1 # n * 2 /\ j * 2 + 1 # n * 2 + 1
      BY <2>2, CapFits
    <3>2. j \in 0..Cap
      BY CapFits
    <3>3. fres'[j * 2] = fres[j * 2] /\ fres'[j * 2 + 1] = fres[j * 2 + 1]
      BY <1>1, <3>1, <3>2, CapFits
    <3> QED
      BY <2>2, <3>3 DEF Element
  <2> QED
    BY <2>1, <2>2
<1> QED
  BY <1>2, <1>3

(* The buffer is clear, and the empty path has been converted. *)
LEMMA PathInit == Init => PathInv
<1> SUFFICES ASSUME Init PROVE PathInv
  OBVIOUS
<1>1. /\ fres = [i \in 0..(Size - 1) |-> NUL] /\ input = << >> /\ it = 0
      /\ pc = "idle" /\ name = << >>
  BY DEF Init
<1>2. fres \in [0..(Size - 1) -> Char \cup {NUL}]
  BY <1>1
<1>3. input \in Seq(Char) /\ Len(input) = 0 /\ name \in Seq((Char \cup {NUL}) \X (Char \cup {NUL}))
  BY <1>1
<1>4. PathTypeOK
  BY <1>1, <1>2, <1>3 DEF PathTypeOK
<1>5. CutLen(input) = 0
  BY <1>3, CapFits DEF CutLen
<1>6. name = CutName
  <2>1. 1..0 = {}
    OBVIOUS
  <2>2. [i \in {} |-> <<input[i], NUL>>] = << >>
    OBVIOUS
  <2> QED
    BY <1>1, <1>5, <2>1, <2>2 DEF CutName
<1> QED
  BY <1>1, <1>4, <1>6, CapFits DEF PathInv

(* A new path: nothing of it is copied yet. *)
LEMMA BeginKeepsInv ==
  ASSUME PathInv, NEW path \in Seq(Char), bstr_to_wstr(path)
  PROVE  PathInv'
<1>1. input' = path /\ it' = 0 /\ pc' = "copy" /\ fres' = fres /\ name' = name
  BY DEF bstr_to_wstr
<1>2. Len(path) \in Nat
  OBVIOUS
<1>3. PathTypeOK'
  BY <1>1, <1>2 DEF PathInv, PathTypeOK
<1> QED
  BY <1>1, <1>3, CapFits DEF PathInv

(* One character of the copying loop.                                       *)
LEMMA CopyKeepsInv == PathInv /\ CopyChar => PathInv'
<1> SUFFICES ASSUME PathInv, CopyChar PROVE PathInv'
  OBVIOUS
<1>1. /\ pc = "copy" /\ it < Len(input) /\ it # Cap /\ it' = it + 1
      /\ fres' = [fres EXCEPT ![it * 2] = input[it + 1], ![it * 2 + 1] = NUL]
      /\ UNCHANGED <<input, pc, name>>
  BY DEF CopyChar
<1>2. /\ it \in 0..Cap /\ it \in Nat /\ input \in Seq(Char) /\ Len(input) \in Nat
      /\ Cap \in Nat /\ PathTypeOK
  BY CapFits DEF PathInv, PathTypeOK
<1>3. input[it + 1] \in Char \cup {NUL}
  BY <1>1, <1>2
<1>4. /\ fres' \in [0..(Size - 1) -> Char \cup {NUL}]
      /\ \A j \in 0..it : Element(j)' = IF j = it THEN <<input[it + 1], NUL>> ELSE Element(j)
  BY <1>1, <1>2, <1>3, StoreElement
<1>5. PathTypeOK'
  <2>1. it' \in 0..Len(input')
    BY <1>1, <1>2
  <2>2. pc' = "copy" /\ input' \in Seq(Char) /\ name' \in Seq((Char \cup {NUL}) \X (Char \cup {NUL}))
    BY <1>1, <1>2 DEF PathTypeOK
  <2> QED
    BY <1>4, <2>1, <2>2 DEF PathTypeOK
<1>6. \A n \in 0..(it' - 1) : Copied(n)'
  <2> TAKE n \in 0..(it' - 1)
  <2>1. n \in 0..it
    BY <1>1, <1>2
  <2>2. CASE n = it
    BY <1>1, <1>4, <2>1, <2>2 DEF Copied
  <2>3. CASE n # it
    <3>1. Copied(n)
      BY <1>1, <1>2, <2>1, <2>3 DEF PathInv
    <3> QED
      BY <1>1, <1>4, <2>1, <2>3, <3>1 DEF Copied
  <2> QED
    BY <2>2, <2>3
<1>7. it' <= Cap
  BY <1>1, <1>2
<1> QED
  BY <1>1, <1>5, <1>6, <1>7 DEF PathInv

(* The terminator after the loop.                                           *)
LEMMA TerminateKeepsInv == PathInv /\ Terminate => PathInv'
<1> SUFFICES ASSUME PathInv, Terminate PROVE PathInv'
  OBVIOUS
<1>1. /\ pc = "copy" /\ (it = Len(input) \/ it = Cap) /\ pc' = "call"
      /\ fres' = [fres EXCEPT ![it * 2] = NUL, ![it * 2 + 1] = NUL]
      /\ UNCHANGED <<input, it, name>>
  BY DEF Terminate
<1>2. /\ it \in 0..Cap /\ it \in Nat /\ Len(input) \in Nat /\ Cap \in Nat /\ PathTypeOK
      /\ it <= Len(input)
  BY CapFits DEF PathInv, PathTypeOK
<1>3. /\ fres' \in [0..(Size - 1) -> Char \cup {NUL}]
      /\ \A j \in 0..it : Element(j)' = IF j = it THEN Zero ELSE Element(j)
  BY <1>1, <1>2, StoreElement DEF Zero
<1>4. PathTypeOK'
  BY <1>1, <1>2, <1>3 DEF PathTypeOK
<1>5. it = CutLen(input)
  BY <1>1, <1>2 DEF CutLen
<1>6. ASSUME NEW n \in 0..(it - 1) PROVE Copied(n)'
  <2>1. n \in 0..it /\ n # it
    BY <1>2
  <2>2. Copied(n)
    BY <1>1 DEF PathInv
  <2> QED
    BY <1>1, <1>3, <2>1, <2>2 DEF Copied
<1>7. ASSUME NEW n, n = it PROVE Element(n)' = Zero'
  <2>1. n \in 0..it
    BY <1>2, <1>7
  <2> QED
    BY <1>3, <1>7, <2>1 DEF Zero
<1>8. it' = CutLen(input)' /\ Zero' = Zero /\ it' = it
  BY <1>1, <1>5 DEF CutLen, Zero
<1>9. Element(it)' = Zero'
  BY <1>7, <1>8 DEF Element
<1> QED
  BY <1>1, <1>2, <1>4, <1>6, <1>8, <1>9 DEF PathInv

(* What the firmware reads ends at the terminator: no character is zero. *)
LEMMA FirmwareReads ==
  ASSUME PathInv, pc = "call"
  PROVE  WideString = CutName
<1>1. /\ it = CutLen(input) /\ Element(it) = Zero /\ it \in 0..Cap /\ it \in Nat
      /\ it <= Len(input) /\ Len(input) \in Nat /\ input \in Seq(Char)
      /\ \A n \in 0..(it - 1) : Copied(n)
  BY CapFits DEF PathInv, PathTypeOK
<1>2. it \in 0..((Size \div 2) - 1)
  BY <1>1, CapFits
<1>3. \A n \in 0..(it - 1) : Element(n) # Zero /\ Element(n) = <<input[n + 1], NUL>>
  <2> TAKE n \in 0..(it - 1)
  <2>1. input[n + 1] \in Char
    BY <1>1
  <2>2. input[n + 1] # NUL
    BY <2>1, PathsAssumption
  <2> QED
    BY <1>1, <2>2 DEF Copied, Zero
<1> DEFINE IsEnd(n) == Element(n) = Zero /\ \A j \in 0..(n - 1) : Element(j) # Zero
           end == CHOOSE n \in 0..((Size \div 2) - 1) : IsEnd(n)
<1>4. IsEnd(it)
  BY <1>1, <1>3
<1>5. ASSUME NEW n \in 0..((Size \div 2) - 1), IsEnd(n) PROVE n = it
  <2>1. CASE n < it
    BY <1>1, <1>3, <1>5, <2>1
  <2>2. CASE it < n
    BY <1>1, <1>5, <2>2
  <2> QED
    BY <1>1, <2>1, <2>2
<1>6. end = it
  <2> HIDE DEF IsEnd
  <2> QED
    BY <1>2, <1>4, <1>5
<1>7. WideString = [i \in 1..end |-> Element(i - 1)]
  BY DEF WideString
<1>8. \A i \in 1..it : Element(i - 1) = <<input[i], NUL>>
  <2> TAKE i \in 1..it
  <2>1. i - 1 \in 0..(it - 1) /\ (i - 1) + 1 = i
    BY <1>1
  <2> QED
    BY <1>3, <2>1
<1> HIDE DEF end
<1>9. WideString = [i \in 1..it |-> <<input[i], NUL>>]
  BY <1>6, <1>7, <1>8
<1> QED
  BY <1>1, <1>9 DEF CutName

(* The firmware reads the string.                                           *)
LEMMA CallKeepsInv == PathInv /\ CallFirmware => PathInv'
<1> SUFFICES ASSUME PathInv, CallFirmware PROVE PathInv'
  OBVIOUS
<1>1. pc = "call" /\ name' = WideString /\ pc' = "idle" /\ UNCHANGED <<fres, input, it>>
  BY DEF CallFirmware
<1>2. name' = CutName
  BY <1>1, FirmwareReads
<1>3. CutName' = CutName
  BY <1>1 DEF CutName, CutLen
<1>4. name' \in Seq((Char \cup {NUL}) \X (Char \cup {NUL}))
  <2>1. it \in Nat /\ it = CutLen(input) /\ it <= Len(input) /\ input \in Seq(Char)
    BY <1>1 DEF PathInv, PathTypeOK
  <2>2. \A i \in 1..it : <<input[i], NUL>> \in (Char \cup {NUL}) \X (Char \cup {NUL})
    BY <2>1
  <2> QED
    BY <1>2, <2>1, <2>2 DEF CutName
<1>5. PathTypeOK'
  BY <1>1, <1>4 DEF PathInv, PathTypeOK
<1> QED
  BY <1>1, <1>2, <1>3, <1>5 DEF PathInv

(* The invariant of bstr_to_wstr, whatever the buffer and the path.         *)
THEOREM PathsAlways == Spec => []PathInv
<1>1. PathInv /\ [Next]_pathVars => PathInv'
  <2> SUFFICES ASSUME PathInv, [Next]_pathVars PROVE PathInv'
    OBVIOUS
  <2>1. CASE \E path \in PathsUpTo(MaxPath) : bstr_to_wstr(path)
    <3>1. PathsUpTo(MaxPath) \subseteq Seq(Char)
      BY PathsAssumption DEF PathsUpTo
    <3> QED
      BY <2>1, <3>1, BeginKeepsInv
  <2>2. CASE UNCHANGED pathVars
    BY <2>2 DEF pathVars, PathInv, PathTypeOK, Copied, Element, Zero, CutName, CutLen
  <2> QED
    BY <2>1, <2>2, CopyKeepsInv, TerminateKeepsInv, CallKeepsInv DEF Next
<1> QED
  BY <1>1, PathInit, PTL DEF Spec

(* The conversion keeps its types. *)
THEOREM PathTypesAlways == Spec => []PathTypeOK
<1>1. PathInv => PathTypeOK
  BY DEF PathInv
<1> QED
  BY <1>1, PathsAlways, PTL

(* No store of bstr_to_wstr leaves the buffer, whatever its size and the    *)
(* length of the path.                                                      *)
THEOREM ConversionStaysInBounds == Spec => []ConversionInBounds
<1>1. PathInv => ConversionInBounds
  BY CapFits DEF PathInv, PathTypeOK, ConversionInBounds
<1> QED
  BY <1>1, PathsAlways, PTL

(* The firmware reads the path, cut where it does not fit, and nothing of   *)
(* the paths before it.                                                     *)
THEOREM FirmwareAlwaysSeesCutPath == Spec => []FirmwareSeesCutPath
<1>1. PathInv => FirmwareSeesCutPath
  BY DEF PathInv, FirmwareSeesCutPath, CutName
<1> QED
  BY <1>1, PathsAlways, PTL
=============================================================================
