---------------------------- MODULE RTPlf_proofs ----------------------------
(***************************************************************************)
(* Proofs about the strings, numbers and ticks of RTPlf, for arrays,       *)
(* sizes, strings, widths and values of RTSTRMAX of any kind.              *)
(***************************************************************************)
EXTENDS RTPlf, Powers_proofs, FiniteSetTheorems, SequenceTheorems,
        WellFoundedInduction, TLAPS

(* The array is one, and a terminator is near enough in it. *)
Memory(m) == DOMAIN m = 1..Room /\ m = [k \in 1..Room |-> m[k]]

Ends(m) == \E n \in 1..Room : n <= RTSTRMAX /\ m[n] = NUL

EndsInv == Memory(buffer) /\ Ends(buffer)

(***************************************************************************)
(* Strings in memory.                                                      *)
(***************************************************************************)

LEMMA MemoryLength ==
    ASSUME NEW m, Memory(m)
    PROVE  /\ m \in Seq({m[k] : k \in 1..Room})
           /\ Len(m) = Room
<1>1. Room \in Nat /\ DOMAIN m = 1..Room
  BY PlfAssumption DEF Memory
<1>2. m \in [1..Room -> {m[k] : k \in 1..Room}]
  BY DEF Memory
<1>3. m \in Seq({m[k] : k \in 1..Room})
  BY <1>1, <1>2, SeqDef
<1> QED
  BY <1>1, <1>3, LenProperties

(* The length of a text is where its first terminator is.                  *)
LEMMA TextLenIs ==
    ASSUME NEW m, Memory(m), NEW n \in 0..(Room - 1),
           \A k \in 1..n : m[k] # NUL, m[n + 1] = NUL
    PROVE  TextLen(m) = n
<1> DEFINE P(l) == /\ \A k \in 1..l : m[k] # NUL
                   /\ l < Len(m) => m[l + 1] = NUL
<1>1. Len(m) = Room /\ Room \in Nat \ {0}
  BY MemoryLength, PlfAssumption
<1>2. n \in 0..Len(m) /\ P(n)
  BY <1>1
<1>3. ASSUME NEW l \in 0..Len(m), P(l)
      PROVE  l = n
  <2>1. CASE l < n
    <3>1. l + 1 \in 1..n /\ l < Len(m)
      BY <1>1, <2>1
    <3> QED
      BY <1>3, <3>1
  <2>2. CASE n < l
    <3>1. n + 1 \in 1..l
      BY <1>1, <2>2
    <3> QED
      BY <1>3, <3>1
  <2> QED
    BY <1>1, <2>1, <2>2
<1> HIDE DEF P
<1>4. TextLen(m) = CHOOSE l \in 0..Len(m) : P(l)
  BY DEF TextLen, P
<1> QED
  BY <1>2, <1>3, <1>4

LEMMA FirstTerminator ==
    ASSUME NEW m, Ends(m)
    PROVE  \E n \in 1..Room : /\ n <= RTSTRMAX /\ m[n] = NUL
                              /\ \A k \in 1..(n - 1) : m[k] # NUL
<1> DEFINE T == {n \in 1..Room : n <= RTSTRMAX /\ m[n] = NUL}
<1>1. T \subseteq Nat /\ T # {} /\ Room \in Nat /\ RTSTRMAX \in Nat
  BY PlfAssumption DEF Ends
<1>2. PICK n \in T : \A t \in T : ~(<<t, n>> \in OpToRel(<, Nat))
  BY <1>1, NatLessThanWellFounded, WFMin
<1>3. \A t \in T : ~(t < n)
  BY <1>1, <1>2 DEF OpToRel
<1>4. ASSUME NEW k \in 1..(n - 1), m[k] = NUL
      PROVE  FALSE
  <2>1. k \in T /\ k < n
    BY <1>1, <1>4
  <2> QED
    BY <1>3, <2>1
<1> QED
  BY <1>4

LEMMA EndedText ==
    ASSUME NEW m, Memory(m), Ends(m)
    PROVE  TextLen(m) < Smaller(Room, RTSTRMAX)
<1>1. PICK n \in 1..Room : /\ n <= RTSTRMAX /\ m[n] = NUL
                           /\ \A k \in 1..(n - 1) : m[k] # NUL
  BY FirstTerminator
<1>2. Room \in Nat /\ RTSTRMAX \in Nat
  BY PlfAssumption
<1>3. TextLen(m) = n - 1
  <2>1. n - 1 \in 0..(Room - 1) /\ (n - 1) + 1 = n
    BY <1>2
  <2> QED
    BY <1>1, <2>1, TextLenIs
<1> QED
  BY <1>1, <1>2, <1>3 DEF Smaller

(***************************************************************************)
(* Copying.                                                                *)
(***************************************************************************)

(* What a copy leaves in the array, char by char. *)
LEMMA CopiedChars ==
    ASSUME NEW m, Memory(m), NEW size \in 1..Room, NEW s, Len(s) \in Nat
    PROVE  /\ Memory(Copied(m, size, s))
           /\ \A k \in 1..Room :
                 Copied(m, size, s)[k] =
                    IF k > size THEN m[k]
                    ELSE IF k = size /\ Len(s) >= size THEN NUL
                    ELSE IF k <= Len(s) THEN s[k] ELSE NUL
<1>1. Room \in Nat /\ DOMAIN m = 1..Room
  BY PlfAssumption DEF Memory
<1>2. /\ Memory(Strncpy(m, size, s))
      /\ \A k \in 1..Room :
            Strncpy(m, size, s)[k] =
               IF k > size THEN m[k] ELSE IF k <= Len(s) THEN s[k] ELSE NUL
  BY <1>1 DEF Strncpy, Memory
<1>3. CASE Len(s) >= size
  <2>1. Copied(m, size, s) = [Strncpy(m, size, s) EXCEPT ![size] = NUL]
    BY <1>3 DEF Copied, Truncated
  <2> DEFINE c == Strncpy(m, size, s)
  <2> HIDE DEF c
  <2>2. DOMAIN c = 1..Room
    BY <1>2 DEF Memory, c
  <2>3. [c EXCEPT ![size] = NUL] = [k \in 1..Room |-> IF k = size THEN NUL ELSE c[k]]
    BY <2>2
  <2>4. Copied(m, size, s) = [k \in 1..Room |-> IF k = size THEN NUL ELSE c[k]]
    BY <2>1, <2>3 DEF c
  <2>5. Memory(Copied(m, size, s))
    BY <2>4 DEF Memory
  <2>6. \A k \in 1..Room : c[k] = IF k > size THEN m[k]
                                  ELSE IF k <= Len(s) THEN s[k] ELSE NUL
    BY <1>2 DEF c
  <2> QED
    BY <1>1, <1>3, <2>4, <2>5, <2>6
<1>4. CASE ~(Len(s) >= size)
  <2>1. Copied(m, size, s) = Strncpy(m, size, s)
    BY <1>4 DEF Copied, Truncated
  <2> QED
    BY <1>1, <1>2, <1>4, <2>1
<1> QED
  BY <1>3, <1>4

LEMMA CopiedEnds ==
    ASSUME NEW m, Memory(m), NEW size \in 1..Room, size <= RTSTRMAX,
           NEW s, Len(s) \in Nat
    PROVE  Memory(Copied(m, size, s)) /\ Ends(Copied(m, size, s))
<1>1. Room \in Nat /\ RTSTRMAX \in Nat
  BY PlfAssumption
<1>2. CASE Len(s) >= size
  <2>1. Copied(m, size, s)[size] = NUL
    BY <1>1, <1>2, CopiedChars
  <2> QED
    BY <2>1, CopiedChars DEF Ends
<1>3. CASE ~(Len(s) >= size)
  <2>1. PICK k \in 1..Room : k = Len(s) + 1 /\ k <= size /\ k <= RTSTRMAX
    BY <1>1, <1>3
  <2>2. ~(k > size) /\ ~(k <= Len(s))
    BY <1>1, <2>1
  <2>3. Memory(Copied(m, size, s)) /\ Copied(m, size, s)[k] = NUL
    BY <1>3, <2>2, CopiedChars
  <2> QED
    BY <2>1, <2>3 DEF Ends
<1> QED
  BY <1>2, <1>3

(* The text in the array after a copy is as much of s as fits.             *)
LEMMA CopiedText ==
    ASSUME NEW m, Memory(m), NEW size \in 1..Room, NEW s \in Seq(Char \ {0})
    PROVE  Text(Copied(m, size, s)) = SubSeq(s, 1, Smaller(Len(s), size - 1))
<1> DEFINE c == Copied(m, size, s)
           n == Smaller(Len(s), size - 1)
<1>1. /\ Room \in Nat /\ Len(s) \in Nat /\ DOMAIN s = 1..Len(s)
      /\ \A k \in 1..Len(s) : s[k] \in Char \ {0}
  BY PlfAssumption, LenProperties, ElementOfSeq
<1>2. n \in 0..(Room - 1) /\ n <= Len(s) /\ n <= size - 1
  BY <1>1 DEF Smaller
<1>3. /\ Memory(c)
      /\ \A k \in 1..Room :
            c[k] = IF k > size THEN m[k]
                   ELSE IF k = size /\ Len(s) >= size THEN NUL
                   ELSE IF k <= Len(s) THEN s[k] ELSE NUL
  BY <1>1, CopiedChars
<1>4. \A k \in 1..n : c[k] = s[k]
  BY <1>1, <1>2, <1>3
<1>5. c[n + 1] = NUL
  BY <1>1, <1>2, <1>3 DEF Smaller
<1>6. \A k \in 1..n : c[k] # NUL
  BY <1>1, <1>2, <1>4 DEF NUL
<1> HIDE DEF c, n
<1>7. TextLen(c) = n
  BY <1>2, <1>3, <1>5, <1>6, TextLenIs
<1>8. Len(c) = Room /\ c \in Seq({c[k] : k \in 1..Room})
  BY <1>3, MemoryLength
<1>9. SubSeq(c, 1, n) = [k \in 1..n |-> c[k]]
  BY <1>1, <1>2, <1>8
<1>10. SubSeq(s, 1, n) = [k \in 1..n |-> s[k]]
  BY <1>1, <1>2
<1>11. Text(c) = SubSeq(s, 1, n)
  BY <1>4, <1>7, <1>9, <1>10 DEF Text
<1> QED
  BY <1>11 DEF c, n

(***************************************************************************)
(* What printing hands to the copy has a length.                           *)
(***************************************************************************)

LEMMA FiguresLength ==
    ASSUME NEW x, NEW base, NEW n \in Nat
    PROVE  \E S : Figures(x, base, n) \in Seq(S) /\ Len(Figures(x, base, n)) = n
<1> DEFINE g(k) == Digit((x \div Power(base, n - k)) % base)
           S == {g(k) : k \in 1..n}
<1>1. Figures(x, base, n) = [k \in 1..n |-> g(k)]
  BY DEF Figures
<1> HIDE DEF g
<1>2. Figures(x, base, n) \in [1..n -> S]
  BY <1>1
<1>3. Figures(x, base, n) \in Seq(S)
  BY <1>2, SeqDef
<1>4. DOMAIN Figures(x, base, n) = 1..n
  BY <1>1
<1>5. Len(Figures(x, base, n)) = n
  BY <1>3, <1>4, LenProperties
<1> QED
  BY <1>3, <1>5

LEMMA NumeralLength ==
    ASSUME NEW x, NEW base
    PROVE  \E S : Numeral(x, base) \in Seq(S) /\ Len(Numeral(x, base)) \in Nat
<1> DEFINE places == {k \in 1..Bits : k = 1 \/ x >= Power(base, k - 1)}
<1>1. IsFiniteSet(1..Bits)
  BY PlfAssumption, FS_Interval
<1>2. places \subseteq 1..Bits
  OBVIOUS
<1> HIDE DEF places
<1>3. Cardinality(places) \in Nat
  BY <1>1, <1>2, FS_Subset, FS_CardinalityType
<1>4. Numeral(x, base) = Figures(x, base, Cardinality(places))
  BY DEF Numeral, places
<1> QED
  BY <1>3, <1>4, FiguresLength

LEMMA SignedNumeralLength ==
    ASSUME NEW x
    PROVE  Len(SignedNumeral(x)) \in Nat
<1>1. CASE x < 0
  <2>1. PICK S : Numeral(-x, 10) \in Seq(S) /\ Len(Numeral(-x, 10)) \in Nat
    BY NumeralLength
  <2>2. <<Minus>> \in Seq(S \cup {Minus}) /\ Numeral(-x, 10) \in Seq(S \cup {Minus})
    BY <2>1
  <2>3. <<Minus>> \o Numeral(-x, 10) \in Seq(S \cup {Minus})
    BY <2>2, ConcatProperties
  <2> QED
    BY <1>1, <2>3, LenProperties DEF SignedNumeral
<1>2. CASE ~(x < 0)
  BY <1>2, NumeralLength DEF SignedNumeral
<1> QED
  BY <1>1, <1>2

LEMMA PrintBase2Length ==
    ASSUME NEW x, NEW size \in Nat \ {0}
    PROVE  Len(PrintBase2(x, size)) \in Nat
<1> DEFINE n == Smaller(Bits, size - 1)
<1>1. Bits \in Nat
  BY PlfAssumption
<1>2. PICK S : Figures(x, 2, Bits) \in Seq(S) /\ Len(Figures(x, 2, Bits)) = Bits
  BY <1>1, FiguresLength
<1>3. n \in 0..Bits
  BY <1>1 DEF Smaller
<1> HIDE DEF n
<1>4. SubSeq(Figures(x, 2, Bits), 1, n) \in Seq(S)
  BY <1>1, <1>2, <1>3, SubSeqProperties
<1> QED
  BY <1>4, LenProperties DEF PrintBase2, n

(***************************************************************************)
(* The calls.                                                              *)
(***************************************************************************)

LEMMA PrintEnds ==
    ASSUME EndsInv, NEW f, NEW x, NEW base, NEW size \in Sizes, NEW text,
           NEW n, size > 0 => Len(text) \in Nat, WriteNumeral(f, x, base, size, text, n)
    PROVE  EndsInv'
<1>1. CASE size > RTSTRMAX \/ size = 0
  <2>1. UNCHANGED buffer
    BY <1>1 DEF WriteNumeral, Panic
  <2> QED
    BY <2>1 DEF EndsInv, Memory, Ends
<1>2. CASE ~(size > RTSTRMAX) /\ size # 0
  <2>1. buffer' = Copied(buffer, size, text)
    BY <1>2 DEF WriteNumeral
  <2>2. size \in 1..Room /\ size <= RTSTRMAX /\ size > 0
    BY <1>2, PlfAssumption
  <2>3. Memory(Copied(buffer, size, text)) /\ Ends(Copied(buffer, size, text))
    BY <2>2, CopiedEnds DEF EndsInv
  <2> QED
    BY <2>1, <2>3 DEF EndsInv, Memory, Ends
<1> QED
  BY <1>1, <1>2

LEMMA CopyEnds ==
    ASSUME EndsInv, NEW size \in Sizes, NEW src \in Strings \cup {NULL},
           RTStrncpy(size, src)
    PROVE  EndsInv'
<1>1. CASE UNCHANGED buffer
  BY <1>1 DEF EndsInv, Memory, Ends
<1>2. CASE ~UNCHANGED buffer
  <2>1. /\ ~(size > RTSTRMAX) /\ size # 0
        /\ buffer' = IF src = NULL THEN [buffer EXCEPT ![1] = NUL]
                     ELSE Copied(buffer, size, src)
    BY <1>2 DEF RTStrncpy, Panic
  <2>2. /\ size \in 1..Room /\ size <= RTSTRMAX
        /\ 1 \in 1..Room /\ 1 <= RTSTRMAX
    BY <2>1, PlfAssumption
  <2>3. CASE src = NULL
    <3>1. buffer' = [buffer EXCEPT ![1] = NUL]
      BY <2>1, <2>3
    <3> QED
      BY <2>2, <3>1 DEF EndsInv, Memory, Ends
  <2>4. CASE src # NULL
    <3>1. Len(src) \in Nat
      BY <2>4, PlfAssumption, LenProperties
    <3>2. Memory(Copied(buffer, size, src)) /\ Ends(Copied(buffer, size, src))
      BY <2>2, <3>1, CopiedEnds DEF EndsInv
    <3> QED
      BY <2>1, <2>4, <3>2 DEF EndsInv, Memory, Ends
  <2> QED
    BY <2>3, <2>4
<1> QED
  BY <1>1, <1>2

(* The other calls only read the array. *)
Reading ==
    \/ RTStringTo32 \/ RTStrlen
    \/ \E base \in RTBase : RTStringToU32(base)
    \/ \E s \in Strings \cup {NULL}, first \in BOOLEAN :
          RTStrcmp(s, first) \/ \E n \in Sizes : RTStrncmp(s, first, n)
    \/ \E t \in Times : RTNow_tick(t) \/ RTNow_us(t)
    \/ RTTickFrequency_Hz

LEMMA ReadingKeeps ==
    ASSUME Reading
    PROVE  UNCHANGED buffer /\ call'.f # "RTStrncpy"
<1>1. CASE RTStringTo32 \/ RTStrlen
  BY <1>1 DEF RTStringTo32, RTStrlen, Panic
<1>2. CASE \E base \in RTBase : RTStringToU32(base)
  BY <1>2 DEF RTStringToU32, Panic
<1>3. ASSUME NEW s \in Strings \cup {NULL}, NEW first \in BOOLEAN, NEW n,
             NEW f \in {"RTStrcmp", "RTStrncmp"}, Compare(f, s, first, n)
      PROVE  UNCHANGED buffer /\ call'.f # "RTStrncpy"
  BY <1>3 DEF Compare, Panic
<1>4. CASE \E s \in Strings \cup {NULL}, first \in BOOLEAN :
             RTStrcmp(s, first) \/ \E n \in Sizes : RTStrncmp(s, first, n)
  BY <1>3, <1>4 DEF RTStrcmp, RTStrncmp, Panic
<1>5. CASE RTTickFrequency_Hz \/ \E t \in Times : RTNow_tick(t) \/ RTNow_us(t)
  BY <1>5 DEF RTTickFrequency_Hz, RTNow_tick, RTNow_us, Now
<1> QED
  BY <1>1, <1>2, <1>4, <1>5 DEF Reading

LEMMA PrintingEnds ==
    ASSUME EndsInv, NEW size \in Sizes,
           \/ \E x \in Numbers \cap Signed : RT32ToString(x, size)
           \/ \E x \in Numbers \cap Unsigned, base \in RTBase :
                 RTU32ToString(x, base, size)
    PROVE  EndsInv' /\ call'.f # "RTStrncpy"
<1>1. ASSUME NEW x, RT32ToString(x, size)
      PROVE  EndsInv' /\ call'.f # "RTStrncpy"
  <2>1. EndsInv'
    BY <1>1, SignedNumeralLength, PrintEnds DEF RT32ToString
  <2> QED
    BY <1>1, <2>1 DEF RT32ToString, WriteNumeral, Panic
<1>2. ASSUME NEW x, NEW base, RTU32ToString(x, base, size)
      PROVE  EndsInv' /\ call'.f # "RTStrncpy"
  <2> DEFINE used == IF base = RTBASE_AUTO THEN 10 ELSE base
  <2>1. CASE base = 2
    <3>1. size > 0 => Len(PrintBase2(x, size)) \in Nat
      BY PlfAssumption, PrintBase2Length
    <3>2. WriteNumeral("RTU32ToString", x, 2, size, PrintBase2(x, size), Bits)
      BY <1>2, <2>1 DEF RTU32ToString
    <3>3. EndsInv'
      BY <3>1, <3>2, PrintEnds
    <3>4. call'.f # "RTStrncpy"
      BY <3>2 DEF WriteNumeral, Panic
    <3> QED
      BY <3>3, <3>4
  <2>2. CASE base # 2
    <3>1. Len(Numeral(x, used)) \in Nat
      BY NumeralLength
    <3>2. WriteNumeral("RTU32ToString", x, used, size, Numeral(x, used),
                Len(Numeral(x, used)))
      BY <1>2, <2>2 DEF RTU32ToString
    <3>3. EndsInv'
      BY <3>1, <3>2, PrintEnds
    <3>4. call'.f # "RTStrncpy"
      BY <3>2 DEF WriteNumeral, Panic
    <3> QED
      BY <3>3, <3>4
  <2> QED
    BY <2>1, <2>2
<1> QED
  BY <1>1, <1>2

LEMMA NextCases ==
    ASSUME Next
    PROVE  \/ Reading
           \/ \E size \in Sizes :
                 \/ \E x \in Numbers \cap Signed : RT32ToString(x, size)
                 \/ \E x \in Numbers \cap Unsigned, base \in RTBase :
                       RTU32ToString(x, base, size)
           \/ \E size \in Sizes, src \in Strings \cup {NULL} : RTStrncpy(size, src)
  BY DEF Next, Reading

LEMMA EndsInvariance == Spec => []EndsInv
<1>1. Init => EndsInv
  <2> SUFFICES ASSUME Init PROVE EndsInv
    OBVIOUS
  <2>1. 1 \in 1..Room /\ 1 <= RTSTRMAX
    BY PlfAssumption
  <2> QED
    BY <2>1 DEF Init, EndsInv, Memory, Ends
<1>2. EndsInv /\ [Next]_vars => EndsInv'
  <2> SUFFICES ASSUME EndsInv, [Next]_vars PROVE EndsInv'
    OBVIOUS
  <2>1. CASE UNCHANGED vars
    BY <2>1 DEF vars, EndsInv, Memory, Ends
  <2>2. CASE Reading
    BY <2>2, ReadingKeeps DEF EndsInv, Memory, Ends
  <2>3. CASE Next /\ ~Reading
    BY <2>3, NextCases, PrintingEnds, CopyEnds
  <2> QED
    BY <2>1, <2>2, <2>3
<1> QED
  BY <1>1, <1>2, PTL DEF Spec

(* After any calls with any sizes, the array holds a string that ends      *)
(* within the array and within RTSTRMAX: no function reads past it, and    *)
(* RTStrlen does not panic on it (rtplf.c:250-251).                        *)
THEOREM TerminatedCorrect == Spec => []Terminated
<1>1. EndsInv => Terminated
  BY EndedText DEF EndsInv, Terminated
<1> QED
  BY <1>1, EndsInvariance, PTL

(* What RTStrncpy leaves in the array, and what it answers: whether that   *)
(* is not all of its source.                                               *)
CopyFlagged ==
    Copying(call) =>
        /\ Text(buffer) = SubSeq(call.src, 1, Smaller(Len(call.src), call.size - 1))
        /\ call.ret <=> Text(buffer) # call.src

LEMMA CopyFlaggedInvariance == Spec => []CopyFlagged
<1>1. Init => CopyFlagged
  BY DEF Init, CopyFlagged, Copying
<1>2. EndsInv /\ CopyFlagged /\ [Next]_vars => CopyFlagged'
  <2> SUFFICES ASSUME EndsInv, CopyFlagged, [Next]_vars PROVE CopyFlagged'
    OBVIOUS
  <2>1. CASE UNCHANGED vars
    BY <2>1 DEF vars, CopyFlagged, Copying, Text, TextLen
  <2>2. CASE Reading
    BY <2>2, ReadingKeeps DEF CopyFlagged, Copying
  <2>3. ASSUME NEW size \in Sizes, NEW src \in Strings \cup {NULL},
               RTStrncpy(size, src)
        PROVE  CopyFlagged'
    <3> SUFFICES ASSUME call'.f = "RTStrncpy", call'.size > 0, call'.src # NULL
                 PROVE  /\ Text(buffer)' = SubSeq(call'.src, 1,
                                 Smaller(Len(call'.src), call'.size - 1))
                        /\ call'.ret <=> Text(buffer)' # call'.src
      BY DEF CopyFlagged, Copying
    <3>1. /\ call' = [f |-> "RTStrncpy", size |-> size, src |-> src,
                      ret |-> IF src = NULL THEN size > 0
                              ELSE Truncated(size, src)]
          /\ size = 0 => UNCHANGED buffer
          /\ size # 0 => buffer' = IF src = NULL THEN [buffer EXCEPT ![1] = NUL]
                                   ELSE Copied(buffer, size, src)
      BY <2>3 DEF RTStrncpy, Panic
    <3>2. /\ src # NULL /\ src \in Seq(Char \ {0}) /\ size \in 1..Room
          /\ Len(src) \in Nat /\ Room \in Nat
      BY <3>1, PlfAssumption, LenProperties
    <3>3. buffer' = Copied(buffer, size, src) /\ (call'.ret <=> Len(src) >= size)
      <4>1. buffer' = Copied(buffer, size, src)
        BY <3>1, <3>2
      <4>2. call'.ret = IF src = NULL THEN size > 0 ELSE Truncated(size, src)
        BY <3>1, Zenon
      <4>3. call'.ret = Truncated(size, src)
        BY <3>2, <4>2, Zenon
      <4> QED
        BY <4>1, <4>3, Zenon DEF Truncated
    <3>4. Text(buffer)' = SubSeq(src, 1, Smaller(Len(src), size - 1))
      BY <3>2, <3>3, CopiedText DEF EndsInv, Text, TextLen
    <3>5. SubSeq(src, 1, Smaller(Len(src), size - 1)) # src <=> Len(src) >= size
      <4>1. CASE Len(src) >= size
        <5>1. Smaller(Len(src), size - 1) = size - 1 /\ size - 1 \in 0..Len(src)
          BY <3>2, <4>1 DEF Smaller
        <5>2. Len(SubSeq(src, 1, size - 1)) = size - 1
          BY <3>2, <5>1, SubSeqProperties
        <5> QED
          BY <3>2, <4>1, <5>1, <5>2
      <4>2. CASE ~(Len(src) >= size)
        <5>1. Smaller(Len(src), size - 1) = Len(src)
          BY <3>2, <4>2 DEF Smaller
        <5>2. SubSeq(src, 1, Len(src)) = src
          BY <3>2
        <5> QED
          BY <4>2, <5>1, <5>2
      <4> QED
        BY <4>1, <4>2
    <3> QED
      BY <3>1, <3>3, <3>4, <3>5
  <2>4. CASE Next /\ ~Reading /\
             ~\E size \in Sizes, src \in Strings \cup {NULL} : RTStrncpy(size, src)
    BY <2>4, NextCases, PrintingEnds DEF CopyFlagged, Copying
  <2> QED
    BY <2>1, <2>2, <2>3, <2>4
<1> QED
  BY <1>1, <1>2, EndsInvariance, PTL DEF Spec

(* RTStrncpy leaves as much of its source as fits, whatever was in the     *)
(* array, and nothing else (rtplf.c:269-276).                              *)
THEOREM CopiesWhatFitsCorrect == Spec => []CopiesWhatFits
<1>1. CopyFlagged => CopiesWhatFits
  BY DEF CopyFlagged, CopiesWhatFits
<1> QED
  BY <1>1, CopyFlaggedInvariance, PTL

(* The answers of RTStrncpy tell a whole copy from a part of one           *)
(* (rtplf.c:260, 276).                                                     *)
THEOREM CopyIsToldCorrect == Spec => CopyIsTold
<1> DEFINE Told ==
        Copying(call) /\ Copying(call') =>
            ((call.ret <=> call'.ret)
               <=> (Text(buffer) = call.src <=> Text(buffer)' = call'.src))
<1>1. CopyFlagged /\ CopyFlagged' /\ [Next]_vars => [Told]_vars
  <2> SUFFICES ASSUME CopyFlagged, CopyFlagged', Copying(call), Copying(call')
               PROVE  Told
    OBVIOUS
  <2>1. call.ret <=> Text(buffer) # call.src
    BY Zenon DEF CopyFlagged
  <2>2. call'.ret <=> Text(buffer)' # call'.src
    BY Zenon DEF CopyFlagged, Copying
  <2> QED
    BY <2>1, <2>2, Zenon
<1> QED
  BY <1>1, CopyFlaggedInvariance, PTL DEF Spec, CopyIsTold

(***************************************************************************)
(* Which call a step was, by the name it left in call.                     *)
(***************************************************************************)

CallIs(f) ==
    \/ /\ f = "RTPanic"
       /\ UNCHANGED <<buffer, holds>>
    \/ /\ f = "RT32ToString"
       /\ \E size \in Sizes, x \in Numbers \cap Signed : RT32ToString(x, size)
    \/ /\ f = "RTU32ToString"
       /\ \E size \in Sizes, x \in Numbers \cap Unsigned, base \in RTBase :
             RTU32ToString(x, base, size)
    \/ /\ f = "RTStringTo32"
       /\ RTStringTo32
    \/ /\ f = "RTStringToU32"
       /\ \E base \in RTBase : RTStringToU32(base)
    \/ /\ f = "RTStrncpy"
       /\ \E size \in Sizes, src \in Strings \cup {NULL} : RTStrncpy(size, src)
    \/ /\ f \in {"RTStrcmp", "RTStrncmp"}
       /\ \E s \in Strings \cup {NULL}, first \in BOOLEAN, n \in Nat :
             Compare(f, s, first, n)
    \/ /\ f = "RTStrlen"
       /\ RTStrlen
    \/ /\ f \in {"RTNow_tick", "RTNow_us"}
       /\ \E t \in Times : Now(f, t)
    \/ /\ f = "RTTickFrequency_Hz"
       /\ RTTickFrequency_Hz

LEMMA WriteNames ==
    ASSUME NEW f, NEW x, NEW base, NEW size, NEW text, NEW n,
           WriteNumeral(f, x, base, size, text, n)
    PROVE  call'.f = f \/ (call'.f = "RTPanic" /\ UNCHANGED <<buffer, holds>>)
  BY DEF WriteNumeral, Panic

LEMMA CompareNames ==
    ASSUME NEW f, NEW s, NEW first, NEW n, Compare(f, s, first, n)
    PROVE  call'.f = f \/ (call'.f = "RTPanic" /\ UNCHANGED <<buffer, holds>>)
  BY DEF Compare, Panic

LEMMA NextNames ==
    ASSUME Next
    PROVE  CallIs(call'.f)
<1>1. ASSUME NEW size \in Sizes, NEW x \in Numbers \cap Signed, RT32ToString(x, size)
      PROVE  CallIs(call'.f)
  <2>1. call'.f = "RT32ToString" \/ (call'.f = "RTPanic" /\ UNCHANGED <<buffer, holds>>)
    BY <1>1, WriteNames DEF RT32ToString
  <2> QED
    BY <1>1, <2>1 DEF CallIs
<1>2. ASSUME NEW size \in Sizes, NEW x \in Numbers \cap Unsigned, NEW base \in RTBase,
             RTU32ToString(x, base, size)
      PROVE  CallIs(call'.f)
  <2>1. call'.f = "RTU32ToString" \/ (call'.f = "RTPanic" /\ UNCHANGED <<buffer, holds>>)
    <3>1. CASE base = 2
      BY <1>2, <3>1, WriteNames DEF RTU32ToString
    <3>2. CASE base # 2
      BY <1>2, <3>2, WriteNames DEF RTU32ToString
    <3> QED
      BY <3>1, <3>2
  <2> QED
    BY <1>2, <2>1 DEF CallIs
<1>3. ASSUME NEW size \in Sizes, NEW src \in Strings \cup {NULL}, RTStrncpy(size, src)
      PROVE  CallIs(call'.f)
  <2>1. call'.f = "RTStrncpy" \/ (call'.f = "RTPanic" /\ UNCHANGED <<buffer, holds>>)
    BY <1>3 DEF RTStrncpy, Panic
  <2> QED
    BY <1>3, <2>1 DEF CallIs
<1>4. CASE RTStringTo32
  <2>1. call'.f = "RTStringTo32" \/ (call'.f = "RTPanic" /\ UNCHANGED <<buffer, holds>>)
    BY <1>4 DEF RTStringTo32, Panic
  <2> QED
    BY <1>4, <2>1 DEF CallIs
<1>5. ASSUME NEW base \in RTBase, RTStringToU32(base)
      PROVE  CallIs(call'.f)
  <2>1. call'.f = "RTStringToU32" \/ (call'.f = "RTPanic" /\ UNCHANGED <<buffer, holds>>)
    BY <1>5 DEF RTStringToU32, Panic
  <2> QED
    BY <1>5, <2>1 DEF CallIs
<1>6. ASSUME NEW s \in Strings \cup {NULL}, NEW first \in BOOLEAN, NEW n \in Nat,
             NEW f \in {"RTStrcmp", "RTStrncmp"}, Compare(f, s, first, n)
      PROVE  CallIs(call'.f)
  <2>1. call'.f = f \/ (call'.f = "RTPanic" /\ UNCHANGED <<buffer, holds>>)
    BY <1>6, CompareNames
  <2> QED
    BY <1>6, <2>1 DEF CallIs
<1>7. ASSUME NEW s \in Strings \cup {NULL}, NEW first \in BOOLEAN,
             RTStrcmp(s, first) \/ \E n \in Sizes : RTStrncmp(s, first, n)
      PROVE  CallIs(call'.f)
  <2>1. CASE RTStrcmp(s, first)
    <3>1. RTSTRMAX \in Nat
      BY PlfAssumption
    <3> QED
      BY <1>6, <2>1, <3>1 DEF RTStrcmp
  <2>2. ASSUME NEW n \in Sizes, RTStrncmp(s, first, n)
        PROVE  CallIs(call'.f)
    <3>1. n \in Nat
      BY PlfAssumption
    <3>2. CASE n > RTSTRMAX
      BY <2>2, <3>2 DEF RTStrncmp, Panic, CallIs
    <3>3. CASE ~(n > RTSTRMAX)
      BY <1>6, <2>2, <3>1, <3>3 DEF RTStrncmp
    <3> QED
      BY <3>2, <3>3
  <2> QED
    BY <1>7, <2>1, <2>2
<1>8. CASE RTStrlen
  <2>1. call'.f = "RTStrlen" \/ (call'.f = "RTPanic" /\ UNCHANGED <<buffer, holds>>)
    BY <1>8 DEF RTStrlen, Panic
  <2> QED
    BY <1>8, <2>1 DEF CallIs
<1>9. ASSUME NEW t \in Times, NEW f \in {"RTNow_tick", "RTNow_us"}, Now(f, t)
      PROVE  CallIs(call'.f)
  <2>1. call'.f = f
    BY <1>9 DEF Now
  <2> QED
    BY <1>9, <2>1 DEF CallIs
<1>10. ASSUME NEW t \in Times, RTNow_tick(t) \/ RTNow_us(t)
       PROVE  CallIs(call'.f)
  BY <1>9, <1>10 DEF RTNow_tick, RTNow_us
<1>11. CASE RTTickFrequency_Hz
  <2>1. call'.f = "RTTickFrequency_Hz"
    BY <1>11 DEF RTTickFrequency_Hz
  <2> QED
    BY <1>11, <2>1 DEF CallIs
<1> QED
  BY <1>1, <1>2, <1>3, <1>4, <1>5, <1>7, <1>8, <1>10, <1>11 DEF Next

(***************************************************************************)
(* The clock.                                                              *)
(***************************************************************************)

LEMMA TickIs ==
    ASSUME NEW t \in Nat
    PROVE  Tick(t) = t % Power(2, Bits)
<1> DEFINE m == Power(2, Bits)
           q == t \div Hz
           r == t % Hz
           a == q \div m
           b == q % m
<1>1. m \in Nat \ {0} /\ Hz \in Nat \ {0}
  <2>1. m \in Nat \ {0}
    BY PlfAssumption, PowerType
  <2> HIDE DEF m
  <2> QED
    BY <2>1, PlfAssumption
<1>2. q \in Nat /\ r \in Nat /\ t = Hz * q + r
  BY <1>1
<1> HIDE DEF m, q, r
<1>3. a \in Nat /\ b \in Nat /\ q = m * a + b
  BY <1>1, <1>2
<1>4. Tick(t) = (b * Hz + r) % m
  BY DEF Tick, m, q, r
<1> HIDE DEF a, b
<1>5. b * Hz + r \in Int /\ Hz * a \in Int
  BY <1>1, <1>2, <1>3
<1>6. t = (b * Hz + r) + m * (Hz * a)
  <2>1. Hz * (m * a + b) = b * Hz + m * (Hz * a)
    BY <1>1, <1>3
  <2> QED
    BY <1>1, <1>2, <1>3, <1>5, <2>1
<1> DEFINE y == b * Hz + r
           z == Hz * a
<1> HIDE DEF y, z
<1>7. (y + m * z) % m = y % m
  BY <1>1, <1>5, RemainderPlus DEF y, z
<1> QED
  BY <1>4, <1>6, <1>7 DEF m, y, z

LEMMA TickDifference ==
    ASSUME NEW t \in Nat, NEW u \in Nat, u - t \in Unsigned
    PROVE  (Tick(u) - Tick(t)) % Power(2, Bits) = u - t
<1> DEFINE m == Power(2, Bits)
           a == t \div m
           b == u \div m
<1>1. m \in Nat \ {0} /\ u - t \in 0..(m - 1)
  BY PlfAssumption, PowerType DEF Unsigned
<1>2. Tick(t) = t % m /\ Tick(u) = u % m
  BY TickIs
<1> HIDE DEF m
<1>3. a \in Int /\ b \in Int /\ t % m = t - m * a /\ u % m = u - m * b
  BY <1>1
<1> HIDE DEF a, b
<1>4. (u % m) - (t % m) = (u - t) + m * (a - b)
  BY <1>1, <1>3
<1> DEFINE d == u - t
           z == a - b
<1>5. d \in 0..(m - 1) /\ z \in Int
  BY <1>1, <1>3
<1> HIDE DEF d, z
<1>6. (d + m * z) % m = d % m
  BY <1>1, <1>5, RemainderPlus
<1>7. d % m = d
  BY <1>1, <1>5
<1> QED
  BY <1>2, <1>4, <1>6, <1>7 DEF m, d, z

TickInv == Timed(call.f) => call.t \in Nat /\ call.ret = Tick(call.t)

(* The 32 bits of the tick wrap, and so does the difference of two         *)
(* readings: it is the time between them as long as that fits, whichever   *)
(* of RTNow_tick and RTNow_us gave them (rtplf.c:76-94).                   *)
THEOREM ElapsedCorrect == Spec => Elapsed
<1>1. Init => TickInv
  BY DEF Init, TickInv, Timed
<1>2. TickInv /\ [Next]_vars => TickInv'
  <2> SUFFICES ASSUME TickInv, [Next]_vars PROVE TickInv'
    OBVIOUS
  <2>1. CASE UNCHANGED vars
    BY <2>1 DEF vars, TickInv
  <2>2. CASE Next
    <3> SUFFICES ASSUME Timed(call'.f)
                 PROVE  call'.t \in Nat /\ call'.ret = Tick(call'.t)
      BY DEF TickInv
    <3>1. PICK t \in Times : Now(call'.f, t)
      BY <2>2, NextNames DEF CallIs, Timed
    <3>2. t \in Nat /\ call'.t = t /\ call'.ret = Tick(t)
      BY <3>1, PlfAssumption DEF Now
    <3> QED
      BY <3>2
  <2> QED
    BY <2>1, <2>2
<1>3. TickInv /\ TickInv' /\ [Next]_vars =>
        [Timed(call.f) /\ Timed(call'.f) /\ call'.t - call.t \in Unsigned
         => (call'.ret - call.ret) % Power(2, Bits) = call'.t - call.t]_vars
  BY TickDifference DEF TickInv
<1> QED
  BY <1>1, <1>2, <1>3, PTL DEF Spec, Elapsed

(***************************************************************************)
(* Digits and the numerals made of them.                                   *)
(***************************************************************************)

Bases == {2, 8, 10, 16}

LEMMA DigitIsChar ==
    ASSUME NEW d \in 0..15
    PROVE  /\ Digit(d) \in Char \ {0}
           /\ Digit(d) \notin {Minus} \cup X
  BY DEF Digit, Char, Minus, X

LEMMA DigitValueIs ==
    ASSUME NEW d \in 0..15, NEW c \in Spelt(d)
    PROVE  DigitValue(c) = d
<1>1. \A e \in 0..15 : c \in Spelt(e) => d = e
  BY DEF Spelt
<1> QED
  BY <1>1 DEF DigitValue

LEMMA DigitIsSpelt ==
    ASSUME NEW d \in 0..15
    PROVE  Digit(d) \in Spelt(d)
  BY DEF Digit, Spelt

LEMMA DigitRead ==
    ASSUME NEW base \in Bases, NEW c \in Digits(base)
    PROVE  /\ DigitValue(c) \in 0..(base - 1)
           /\ c \notin {Minus, Plus} \cup X \cup Space
<1>1. PICK d \in 0..(base - 1) : c \in Spelt(d)
  BY DEF Digits
<1>2. d \in 0..15
  BY DEF Bases
<1>3. DigitValue(c) = d
  BY <1>1, <1>2, DigitValueIs
<1>4. c \notin {Minus, Plus} \cup X \cup Space
  BY <1>1, <1>2 DEF Spelt, Minus, Plus, X, Space
<1> QED
  BY <1>1, <1>3, <1>4

(* The first n chars are digits. *)
Figured(s, base, n) == \A k \in 1..n : s[k] \in Digits(base)

LEMMA FiguresAre ==
    ASSUME NEW x \in Nat, NEW base \in Bases, NEW n \in Nat
    PROVE  /\ Figures(x, base, n) \in Seq(Char \ {0})
           /\ Len(Figures(x, base, n)) = n
           /\ \A k \in 1..n :
                 /\ (x \div Power(base, n - k)) % base \in 0..(base - 1)
                 /\ Figures(x, base, n)[k] = Digit((x \div Power(base, n - k)) % base)
<1>1. ASSUME NEW k \in 1..n
      PROVE  (x \div Power(base, n - k)) % base \in 0..(base - 1)
  <2> DEFINE m == Power(base, n - k)
  <2>1. base \in Nat \ {0} /\ m \in Nat \ {0}
    BY PowerType DEF Bases
  <2> HIDE DEF m
  <2>2. x \div m \in Nat
    BY <2>1
  <2> DEFINE y == x \div m
  <2> HIDE DEF y
  <2>3. y % base \in 0..(base - 1)
    BY <2>1, <2>2 DEF y
  <2> QED
    BY <2>3 DEF m, y
<1> DEFINE g(k) == (x \div Power(base, n - k)) % base
<1>2. Figures(x, base, n) = [k \in 1..n |-> Digit(g(k))]
  BY DEF Figures
<1>3. \A k \in 1..n : g(k) \in 0..15
  <2>1. \A k \in 1..n : g(k) \in 0..(base - 1)
    BY <1>1
  <2> HIDE DEF g
  <2> QED
    BY <2>1 DEF Bases
<1> HIDE DEF g
<1>4. Figures(x, base, n) \in [1..n -> Char \ {0}]
  BY <1>2, <1>3, DigitIsChar
<1>5. Figures(x, base, n) \in Seq(Char \ {0})
  BY <1>4, SeqDef
<1>6. Len(Figures(x, base, n)) = n
  BY <1>4, <1>5, LenProperties
<1>7. \A k \in 1..n : Figures(x, base, n)[k] = Digit(g(k))
  BY <1>2
<1> QED
  BY <1>1, <1>5, <1>6, <1>7 DEF g

LEMMA FiguresAreDigits ==
    ASSUME NEW x \in Nat, NEW base \in Bases, NEW n \in Nat
    PROVE  Figured(Figures(x, base, n), base, n)
<1> SUFFICES ASSUME NEW k \in 1..n
             PROVE  Figures(x, base, n)[k] \in Digits(base)
  BY DEF Figured
<1>1. PICK d \in 0..(base - 1) : Figures(x, base, n)[k] = Digit(d)
  BY FiguresAre
<1>2. d \in 0..15
  BY DEF Bases
<1> QED
  BY <1>1, <1>2, DigitIsSpelt DEF Digits

(* A numeral has as many figures as the number needs. *)
LEMMA NumeralIs ==
    ASSUME NEW x \in 0..(Power(2, Bits) - 1), NEW base \in Bases
    PROVE  \E n \in 1..Bits : /\ Numeral(x, base) = Figures(x, base, n)
                              /\ x < Power(base, n)
<1> DEFINE places == {k \in 1..Bits : k = 1 \/ x >= Power(base, k - 1)}
<1>1. Bits \in Nat \ {0} /\ base \in Nat \ {0} /\ Power(2, Bits) \in Nat
  <2>1. Bits \in Nat \ {0} /\ base \in Nat \ {0}
    BY PlfAssumption DEF Bases
  <2> QED
    BY <2>1, PowerType
<1>2. x \in Nat /\ x < Power(2, Bits)
  BY <1>1
<1>3. Power(2, Bits) <= Power(base, Bits)
  <2> DEFINE S == {k \in Nat : Power(2, k) <= Power(base, k)}
  <2>1. 0 \in S
    BY <1>1, PowerZero
  <2>2. ASSUME NEW k \in Nat, k \in S PROVE k + 1 \in S
    <3> DEFINE p == Power(2, k)
               q == Power(base, k)
    <3>1. p \in Nat /\ q \in Nat /\ p <= q
      BY <1>1, <2>2, PowerType
    <3>2. Power(2, k + 1) = 2 * p /\ Power(base, k + 1) = base * q
      BY <1>1, PowerNext
    <3> HIDE DEF p, q
    <3>3. 2 * p <= base * q
      BY <3>1 DEF Bases
    <3> QED
      BY <3>2, <3>3
  <2> HIDE DEF S
  <2>3. \A k \in Nat : k \in S
    BY <2>1, <2>2, NatSetInduction
  <2> QED
    BY <1>1, <2>3 DEF S
<1>4. \A k \in 1..Bits : Power(base, k - 1) \in Nat
  BY <1>1, PowerType
<1>5. \E n \in 1..Bits : places = 1..n /\ x < Power(base, n)
  <2>1. CASE \A k \in 1..Bits : k \in places
    <3>1. places = 1..Bits /\ x < Power(base, Bits)
      <4>1. Power(base, Bits) \in Nat
        BY <1>1, PowerType
      <4> QED
        BY <1>1, <1>2, <1>3, <2>1, <4>1
    <3> QED
      BY <1>1, <3>1
  <2>2. ASSUME NEW j \in 1..Bits, j \notin places
        PROVE  \E n \in 1..Bits : places = 1..n /\ x < Power(base, n)
    <3> DEFINE T == {k \in 1..Bits : k \notin places}
    <3>1. \E n \in T : \A k \in T : ~(k < n)
      <4> HIDE DEF places
      <4>1. T \subseteq Nat /\ j \in T
        BY <1>1, <2>2
      <4> HIDE DEF T
      <4>2. \E n \in T : \A k \in T : ~(<<k, n>> \in OpToRel(<, Nat))
        BY <4>1, NatLessThanWellFounded, WFMin
      <4> QED
        BY <4>1, <4>2 DEF OpToRel
    <3>2. PICK n \in T : \A k \in T : ~(k < n)
      BY <3>1
    <3>3. n \in 1..Bits /\ n # 1 /\ x < Power(base, n - 1)
      BY <1>1, <1>2, <1>4
    <3>4. \A k \in 1..(n - 1) : k \in places
      BY <1>1, <3>2, <3>3
    <3>5. \A k \in n..Bits : k \notin places
      <4> TAKE k \in n..Bits
      <4>1. n - 1 \in Nat /\ k - 1 \in Nat /\ n - 1 <= k - 1 /\ k # 1
        BY <1>1, <3>3
      <4>2. Power(base, n - 1) <= Power(base, k - 1)
        BY <1>1, <4>1, PowerIncreases
      <4>3. Power(base, n - 1) \in Nat /\ Power(base, k - 1) \in Nat
        BY <1>1, <4>1, PowerType
      <4>4. ~(x >= Power(base, k - 1))
        BY <1>2, <3>3, <4>2, <4>3
      <4> QED
        BY <4>1, <4>4
    <3> HIDE DEF T
    <3>6. places \subseteq 1..Bits
      OBVIOUS
    <3> HIDE DEF places
    <3>7. /\ 1..(n - 1) \subseteq 1..Bits
          /\ \A k \in 1..Bits : k \in places <=> k \in 1..(n - 1)
      <4>1. \A k \in 1..Bits : k \in 1..(n - 1) \/ k \in n..Bits
        BY <1>1, <3>3
      <4>2. \A k \in 1..(n - 1) : k \in 1..Bits /\ k \notin n..Bits
        BY <1>1, <3>3
      <4> QED
        BY <3>4, <3>5, <4>1, <4>2, Zenon
    <3>8. places = 1..(n - 1)
      BY <3>6, <3>7, Zenon
    <3> QED
      BY <1>1, <3>3, <3>8
  <2> QED
    BY <2>1, <2>2
<1>6. PICK n \in 1..Bits : places = 1..n /\ x < Power(base, n)
  BY <1>5
<1>7. Numeral(x, base) = Figures(x, base, Cardinality(places))
  BY DEF Numeral
<1> HIDE DEF places
<1>8. Cardinality(places) = n
  BY <1>1, <1>6, FS_Interval
<1> QED
  BY <1>6, <1>7, <1>8

(***************************************************************************)
(* Reading digits.                                                         *)
(***************************************************************************)

LEMMA RunIs ==
    ASSUME NEW S, NEW s \in Seq(S), NEW C
    PROVE  /\ Run(s, C) \in 0..Len(s)
           /\ \A k \in 1..Run(s, C) : s[k] \in C
           /\ Run(s, C) < Len(s) => s[Run(s, C) + 1] \notin C
<1> DEFINE All(n) == \A k \in 1..n : s[k] \in C
           P(n) == All(n) /\ ~(n < Len(s) /\ s[n + 1] \in C)
           T == {n \in Nat : All(n)}
<1>1. Len(s) \in Nat
  BY LenProperties
<1>2. \E n \in 0..Len(s) : P(n)
  <2> SUFFICES ASSUME \A n \in 0..Len(s) : ~P(n) PROVE FALSE
    OBVIOUS
  <2>1. 0 \in T
    OBVIOUS
  <2>2. ASSUME NEW n \in 0..(Len(s) - 1), n \in T PROVE n + 1 \in T
    <3>1. n \in 0..Len(s) /\ All(n)
      BY <1>1, <2>2
    <3>2. s[n + 1] \in C
      BY <3>1
    <3>3. \A k \in 1..(n + 1) : k \in 1..n \/ k = n + 1
      BY <1>1
    <3>4. All(n + 1)
      BY <3>1, <3>2, <3>3
    <3> QED
      BY <1>1, <3>4
  <2> HIDE DEF T
  <2>3. \A n \in 0..Len(s) : n \in T
    BY <1>1, <2>1, <2>2, IntervalInduction
  <2>4. P(Len(s))
    BY <1>1, <2>3 DEF T
  <2> QED
    BY <1>1, <2>4
<1>3. Run(s, C) = CHOOSE n \in 0..Len(s) : P(n)
  BY DEF Run
<1> HIDE DEF P
<1>4. Run(s, C) \in 0..Len(s) /\ P(Run(s, C))
  BY <1>2, <1>3
<1> QED
  BY <1>4 DEF P

LEMMA RunUnique ==
    ASSUME NEW S, NEW s \in Seq(S), NEW C, NEW n \in 0..Len(s),
           \A k \in 1..n : s[k] \in C, n < Len(s) => s[n + 1] \notin C
    PROVE  Run(s, C) = n
<1> DEFINE d == Run(s, C)
<1>1. /\ d \in 0..Len(s) /\ (\A k \in 1..d : s[k] \in C) /\ Len(s) \in Nat
      /\ d < Len(s) => s[d + 1] \notin C
  BY RunIs, LenProperties
<1> HIDE DEF d
<1>2. ~(d < n)
  <2> SUFFICES ASSUME d < n PROVE FALSE
    OBVIOUS
  <2>1. d + 1 \in 1..n /\ d < Len(s)
    BY <1>1
  <2> QED
    BY <1>1, <2>1
<1>3. ~(n < d)
  <2> SUFFICES ASSUME n < d PROVE FALSE
    OBVIOUS
  <2>1. n + 1 \in 1..d /\ n < Len(s)
    BY <1>1
  <2> QED
    BY <1>1, <2>1
<1> QED
  BY <1>1, <1>2, <1>3 DEF d

LEMMA DigitRunIs ==
    ASSUME NEW S, NEW s \in Seq(S), NEW base
    PROVE  /\ DigitRun(s, base) \in 0..Len(s)
           /\ Figured(s, base, DigitRun(s, base))
           /\ DigitRun(s, base) < Len(s) =>
                 s[DigitRun(s, base) + 1] \notin Digits(base)
  BY RunIs DEF DigitRun, Figured

LEMMA DigitRunUnique ==
    ASSUME NEW S, NEW s \in Seq(S), NEW base, NEW n \in 0..Len(s),
           Figured(s, base, n), n < Len(s) => s[n + 1] \notin Digits(base)
    PROVE  DigitRun(s, base) = n
  BY RunUnique DEF DigitRun, Figured

(* The value of digits, one by one. *)
LEMMA ValueFunction ==
    ASSUME NEW s, NEW base \in Bases, NEW n \in Nat, Figured(s, base, n)
    PROVE  \E v \in [0..n -> Nat] :
              /\ v[0] = 0
              /\ \A k \in 1..n : v[k] = v[k - 1] * base + DigitValue(s[k])
              /\ Value(s, base, n) = v[n]
<1> DEFINE Fixed(v) == v = [k \in 0..n |-> IF k = 0 THEN 0
                                           ELSE v[k - 1] * base + DigitValue(s[k])]
           chosen == CHOOSE v : Fixed(v)
           digit == [k \in Nat |-> IF k \in 1..n THEN DigitValue(s[k]) ELSE 0]
           step == [k \in Nat |-> [v \in Nat |-> v * base + digit[k + 1]]]
<1>1. base \in Nat
  BY DEF Bases
<1>2. digit \in [Nat -> Nat]
  <2>1. \A k \in 1..n : DigitValue(s[k]) \in 0..(base - 1)
    BY DigitRead DEF Figured
  <2>2. \A k \in 1..n : DigitValue(s[k]) \in Nat
    BY <1>1, <2>1
  <2> QED
    BY <2>2
<1>3. \A k \in 1..n : digit[k] = DigitValue(s[k])
  OBVIOUS
<1> HIDE DEF digit
<1>4. step \in [Nat -> [Nat -> Nat]]
  BY <1>1, <1>2
<1>5. \E f : Iterates(f, Nat, 0, step)
  <2> HIDE DEF step
  <2> QED
    BY <1>4, Recursion
<1>6. PICK f \in [Nat -> Nat] : /\ f[0] = 0
                                /\ \A k \in Nat : f[k + 1] = f[k] * base + digit[k + 1]
  <2>1. PICK f : Iterates(f, Nat, 0, step)
    BY <1>5
  <2>2. f \in [Nat -> Nat] /\ f[0] = 0 /\ \A k \in Nat : f[k + 1] = step[k][f[k]]
    BY <2>1 DEF Iterates
  <2>3. \A k \in Nat : f[k + 1] = f[k] * base + digit[k + 1]
    BY <2>2
  <2> QED
    BY <2>2, <2>3
<1> DEFINE g == [k \in 0..n |-> f[k]]
<1>7. Fixed(g)
  <2>1. ASSUME NEW k \in 0..n
        PROVE  g[k] = IF k = 0 THEN 0 ELSE g[k - 1] * base + DigitValue(s[k])
    <3>1. CASE k = 0
      BY <1>6, <3>1
    <3>2. CASE k # 0
      <4>1. k - 1 \in Nat /\ k - 1 \in 0..n /\ k \in 1..n /\ (k - 1) + 1 = k
        BY <3>2
      <4>2. f[(k - 1) + 1] = f[k - 1] * base + digit[(k - 1) + 1]
        BY <1>6, <4>1
      <4> QED
        BY <1>3, <3>2, <4>1, <4>2
    <3> QED
      BY <3>1, <3>2
  <2> QED
    BY <2>1
<1> HIDE DEF Fixed
<1>8. Fixed(chosen)
  BY <1>7
<1>9. Value(s, base, n) = chosen[n]
  BY DEF Value, Fixed
<1> HIDE DEF chosen
<1>10. \A k \in 0..n : chosen[k] = IF k = 0 THEN 0
                                   ELSE chosen[k - 1] * base + DigitValue(s[k])
  BY <1>8 DEF Fixed
<1>11. \A k \in 0..n : chosen[k] = f[k]
  <2> DEFINE S == {k \in Nat : chosen[k] = f[k]}
  <2>1. 0 \in S
    BY <1>6, <1>10
  <2>2. ASSUME NEW k \in 0..(n - 1), k \in S PROVE k + 1 \in S
    <3>1. k + 1 \in 1..n /\ k + 1 \in 0..n /\ k + 1 # 0 /\ (k + 1) - 1 = k /\ k \in Nat
      OBVIOUS
    <3>2. chosen[k + 1] = chosen[k] * base + DigitValue(s[k + 1])
      BY <1>10, <3>1
    <3>3. f[k + 1] = f[k] * base + digit[k + 1]
      BY <1>6, <3>1
    <3>4. digit[k + 1] = DigitValue(s[k + 1])
      BY <1>3, <3>1
    <3>5. chosen[k] = f[k]
      BY <2>2
    <3> QED
      BY <3>1, <3>2, <3>3, <3>4, <3>5
  <2> HIDE DEF S
  <2>3. \A k \in 0..n : k \in S
    BY <2>1, <2>2, IntervalInduction
  <2> QED
    BY <2>3 DEF S
<1>12. chosen \in [0..n -> Nat]
  <2>1. chosen = [k \in 0..n |-> IF k = 0 THEN 0
                                 ELSE chosen[k - 1] * base + DigitValue(s[k])]
    BY <1>8 DEF Fixed
  <2> DEFINE h(k) == IF k = 0 THEN 0 ELSE chosen[k - 1] * base + DigitValue(s[k])
  <2>2. chosen = [k \in 0..n |-> h(k)]
    BY <2>1
  <2> HIDE DEF h
  <2>3. chosen = [k \in 0..n |-> chosen[k]]
    BY <2>2
  <2>4. \A k \in 0..n : chosen[k] \in Nat
    BY <1>6, <1>11
  <2> QED
    BY <2>3, <2>4
<1>13. \A k \in 1..n : chosen[k] = chosen[k - 1] * base + DigitValue(s[k])
  BY <1>10
<1>14. chosen[0] = 0
  BY <1>10
<1> QED
  BY <1>9, <1>12, <1>13, <1>14

LEMMA ValueBound ==
    ASSUME NEW s, NEW base \in Bases, NEW n \in Nat, Figured(s, base, n)
    PROVE  Value(s, base, n) \in 0..(Power(base, n) - 1)
<1>1. PICK v \in [0..n -> Nat] :
            /\ v[0] = 0
            /\ \A k \in 1..n : v[k] = v[k - 1] * base + DigitValue(s[k])
            /\ Value(s, base, n) = v[n]
  BY ValueFunction
<1>2. base \in Nat \ {0}
  BY DEF Bases
<1> DEFINE S == {k \in Nat : v[k] < Power(base, k)}
<1>3. 0 \in S
  BY <1>1, <1>2, PowerZero
<1>4. ASSUME NEW k \in 0..(n - 1), k \in S PROVE k + 1 \in S
  <2> DEFINE p == Power(base, k)
             d == DigitValue(s[k + 1])
             u == v[k]
  <2>1. k + 1 \in 1..n /\ k \in 0..n /\ (k + 1) - 1 = k /\ k \in Nat
    OBVIOUS
  <2>2. d \in 0..(base - 1)
    BY <2>1, DigitRead DEF Figured
  <2>3. v[k + 1] = u * base + d
    BY <1>1, <2>1
  <2>4. u \in Nat /\ p \in Nat /\ u < p /\ Power(base, k + 1) = base * p
    BY <1>2, <1>4, <2>1, PowerType, PowerNext
  <2> HIDE DEF p, d, u
  <2>5. u * base + d < base * p
    <3>1. (u + 1) * base <= p * base
      BY <1>2, <2>4
    <3>2. (u + 1) * base = u * base + base
      BY <1>2, <2>4
    <3>3. u * base \in Nat /\ p * base = base * p /\ base * p \in Nat
      BY <1>2, <2>4
    <3> QED
      BY <1>2, <2>2, <3>1, <3>2, <3>3
  <2> QED
    BY <2>1, <2>3, <2>4, <2>5
<1> HIDE DEF S
<1>5. \A k \in 0..n : k \in S
  BY <1>3, <1>4, IntervalInduction
<1>6. v[n] < Power(base, n)
  BY <1>5 DEF S
<1>7. v[n] \in Nat /\ Power(base, n) \in Nat
  BY <1>1, <1>2, PowerType
<1> QED
  BY <1>1, <1>6, <1>7

(* The figures of a number have its value. *)
LEMMA ValueOfFigures ==
    ASSUME NEW base \in Bases, NEW n \in Nat, NEW x \in 0..(Power(base, n) - 1)
    PROVE  Value(Figures(x, base, n), base, n) = x
<1> DEFINE s == Figures(x, base, n)
<1>1. base \in Nat \ {0} /\ Power(base, n) \in Nat /\ base \in 2..16
  <2>1. base \in Nat \ {0} /\ base \in 2..16
    BY DEF Bases
  <2> QED
    BY <2>1, PowerType
<1>2. x \in Nat /\ x < Power(base, n)
  BY <1>1
<1>3. /\ \A k \in 1..n : /\ (x \div Power(base, n - k)) % base \in 0..(base - 1)
                         /\ s[k] = Digit((x \div Power(base, n - k)) % base)
      /\ Figured(s, base, n)
  BY <1>2, FiguresAre, FiguresAreDigits
<1> HIDE DEF s
<1>4. PICK v \in [0..n -> Nat] :
            /\ v[0] = 0
            /\ \A k \in 1..n : v[k] = v[k - 1] * base + DigitValue(s[k])
            /\ Value(s, base, n) = v[n]
  BY <1>3, ValueFunction
<1> DEFINE S == {k \in Nat : v[k] = x \div Power(base, n - k)}
<1>5. 0 \in S
  <2> DEFINE m == Power(base, n)
  <2>1. m \in Nat \ {0} /\ x \in Nat /\ x < m
    BY <1>1, <1>2, PowerType
  <2> HIDE DEF m
  <2>2. x \div m = 0
    BY <2>1
  <2>3. n - 0 = n
    OBVIOUS
  <2> QED
    BY <1>4, <2>2, <2>3 DEF m
<1>6. ASSUME NEW k \in 0..(n - 1), k \in S PROVE k + 1 \in S
  <2> DEFINE m == Power(base, n - (k + 1))
             y == x \div m
  <2>1. /\ k + 1 \in 1..n /\ (k + 1) - 1 = k /\ k \in Nat /\ n - (k + 1) \in Nat
        /\ (n - (k + 1)) + 1 = n - k
    OBVIOUS
  <2>2. m \in Nat \ {0} /\ Power(base, n - k) = base * m
    BY <1>1, <2>1, PowerType, PowerNext, ZenonT(30)
  <2>3. /\ y % base \in 0..(base - 1) /\ s[k + 1] = Digit(y % base)
        /\ v[k + 1] = v[k] * base + DigitValue(s[k + 1])
    BY <1>3, <1>4, <2>1
  <2>4. v[k] = x \div Power(base, n - k)
    BY <1>6
  <2> HIDE DEF m
  <2>5. y \in Nat
    BY <1>2, <2>2
  <2>6. x \div (base * m) = y \div base
    <3>1. (x \div m) \div base = x \div (m * base)
      BY <1>1, <1>2, <2>2, DivisionTwice
    <3>2. m * base = base * m
      BY <1>1, <2>2
    <3> QED
      BY <3>1, <3>2
  <2> HIDE DEF y
  <2>7. DigitValue(s[k + 1]) = y % base
    <3> DEFINE r == y % base
    <3>1. r \in 0..15
      <4>1. r \in 0..(base - 1)
        BY <2>3
      <4> HIDE DEF r
      <4> QED
        BY <1>1, <4>1
    <3> HIDE DEF r
    <3>2. DigitValue(Digit(r)) = r
      BY <3>1, DigitIsSpelt, DigitValueIs
    <3> QED
      BY <2>3, <3>2 DEF r
  <2>8. (y \div base) * base + (y % base) = y
    BY <1>1, <2>5
  <2>9. v[k + 1] = y
    BY <2>2, <2>3, <2>4, <2>6, <2>7, <2>8
  <2> QED
    BY <2>1, <2>9 DEF y, m
<1> HIDE DEF S
<1>7. \A k \in 0..n : k \in S
  BY <1>5, <1>6, IntervalInduction
<1>8. v[n] = x \div Power(base, n - n)
  BY <1>7 DEF S
<1>9. n - n = 0 /\ Power(base, 0) = 1 /\ x \div 1 = x
  BY <1>1, <1>2, PowerZero
<1> QED
  BY <1>4, <1>8, <1>9 DEF s

(* A value does not change with a zero in front. *)
LEMMA ValueShifted ==
    ASSUME NEW s, NEW t, NEW base \in Bases, NEW n \in Nat, NEW i \in {0, 1},
           i = 1 => s[1] = Zero, \A k \in 1..n : s[i + k] = t[k],
           Figured(t, base, n)
    PROVE  Figured(s, base, i + n) /\ Value(s, base, i + n) = Value(t, base, n)
<1>1. Zero \in Spelt(0) /\ base \in Nat \ {0} /\ 0 \in 0..(base - 1)
  BY DEF Zero, Spelt, Bases
<1>2. Figured(s, base, i + n)
  <2> SUFFICES ASSUME NEW k \in 1..(i + n) PROVE s[k] \in Digits(base)
    BY DEF Figured
  <2>1. CASE k = 1 /\ i = 1
    BY <1>1, <2>1 DEF Digits
  <2>2. CASE ~(k = 1 /\ i = 1)
    <3>1. k - i \in 1..n /\ i + (k - i) = k
      BY <2>2
    <3>2. s[i + (k - i)] = t[k - i]
      BY <3>1
    <3>3. t[k - i] \in Digits(base)
      BY <3>1 DEF Figured
    <3> QED
      BY <3>1, <3>2, <3>3
  <2> QED
    BY <2>1, <2>2
<1>3. PICK v \in [0..(i + n) -> Nat] :
            /\ v[0] = 0
            /\ \A k \in 1..(i + n) : v[k] = v[k - 1] * base + DigitValue(s[k])
            /\ Value(s, base, i + n) = v[i + n]
  <2>1. i + n \in Nat
    OBVIOUS
  <2> QED
    BY <1>2, <2>1, ValueFunction, ZenonT(30)
<1>4. PICK w \in [0..n -> Nat] :
            /\ w[0] = 0
            /\ \A k \in 1..n : w[k] = w[k - 1] * base + DigitValue(t[k])
            /\ Value(t, base, n) = w[n]
  BY ValueFunction
<1> DEFINE S == {k \in Nat : v[i + k] = w[k]}
<1>5. 0 \in S
  <2>1. CASE i = 0
    BY <1>3, <1>4, <2>1
  <2>2. CASE i = 1
    <3>1. v[1] = v[1 - 1] * base + DigitValue(s[1])
      BY <1>3, <2>2
    <3>2. DigitValue(s[1]) = 0
      BY <1>1, <2>2, DigitValueIs
    <3> QED
      BY <1>1, <1>3, <1>4, <2>2, <3>1, <3>2
  <2> QED
    BY <2>1, <2>2
<1>6. ASSUME NEW k \in 0..(n - 1), k \in S PROVE k + 1 \in S
  <2>1. /\ k + 1 \in 1..n /\ (k + 1) - 1 = k /\ k \in Nat
        /\ i + (k + 1) \in 1..(i + n) /\ (i + (k + 1)) - 1 = i + k
    OBVIOUS
  <2>2. v[i + (k + 1)] = v[i + k] * base + DigitValue(s[i + (k + 1)])
    BY <1>3, <2>1
  <2>3. w[k + 1] = w[k] * base + DigitValue(t[k + 1])
    BY <1>4, <2>1
  <2>4. s[i + (k + 1)] = t[k + 1] /\ v[i + k] = w[k]
    BY <1>6, <2>1
  <2>5. v[i + (k + 1)] = w[k + 1]
    BY <2>2, <2>3, <2>4
  <2> QED
    BY <2>1, <2>5
<1> HIDE DEF S
<1>7. \A k \in 0..n : k \in S
  BY <1>5, <1>6, IntervalInduction
<1>8. v[i + n] = w[n]
  BY <1>7 DEF S
<1> QED
  BY <1>2, <1>3, <1>4, <1>8

(***************************************************************************)
(* The types of what is scanned.                                           *)
(***************************************************************************)

LEMMA WidthsAre ==
    /\ Bits \in Nat \ {0} /\ LongBits \in Nat \ {0}
    /\ Power(2, Bits) \in Nat \ {0} /\ Power(2, Bits - 1) \in Nat \ {0}
    /\ Power(2, Bits) = 2 * Power(2, Bits - 1)
    /\ Power(2, LongBits) \in Nat \ {0} /\ Power(2, LongBits - 1) \in Nat \ {0}
    /\ Power(2, Bits) <= Power(2, LongBits)
    /\ Power(2, Bits - 1) <= Power(2, LongBits - 1)
<1>1. /\ Bits \in Nat \ {0} /\ LongBits \in Nat \ {0} /\ LongBits >= Bits
      /\ Bits - 1 \in Nat /\ LongBits - 1 \in Nat /\ (Bits - 1) + 1 = Bits
  BY PlfAssumption
<1>2. Power(2, (Bits - 1) + 1) = 2 * Power(2, Bits - 1)
  BY <1>1, PowerNext
<1>3. /\ Power(2, Bits) \in Nat \ {0} /\ Power(2, Bits - 1) \in Nat \ {0}
      /\ Power(2, LongBits) \in Nat \ {0} /\ Power(2, LongBits - 1) \in Nat \ {0}
  BY <1>1, PowerType
<1>4. /\ Power(2, Bits) <= Power(2, LongBits)
      /\ Power(2, Bits - 1) <= Power(2, LongBits - 1)
  BY <1>1, PowerIncreases
<1> QED
  BY <1>1, <1>2, <1>3, <1>4

LEMMA FromType ==
    ASSUME NEW S, NEW s \in Seq(S), NEW k \in Nat \ {0}
    PROVE  From(s, k) \in Seq(S)
<1>1. Len(s) \in Nat /\ \A i \in 1..Len(s) : s[i] \in S
  BY LenProperties, ElementOfSeq
<1>2. \A i \in k..Len(s) : s[i] \in S
  BY <1>1
<1> QED
  BY <1>1, <1>2 DEF From

LEMMA FromIs ==
    ASSUME NEW S, NEW s \in Seq(S)
    PROVE  /\ From(s, 1) = s
           /\ s # <<>> => /\ From(s, 2) = Tail(s) /\ Tail(s) \in Seq(S)
                          /\ Len(Tail(s)) = Len(s) - 1 /\ Len(s) \in Nat \ {0}
                          /\ \A k \in 1..Len(Tail(s)) : Tail(s)[k] = s[1 + k]
<1>1. Len(s) \in Nat
  BY LenProperties
<1>2. From(s, 1) = s
  BY <1>1 DEF From
<1>3. ASSUME s # <<>>
      PROVE  /\ From(s, 2) = Tail(s) /\ Tail(s) \in Seq(S)
             /\ Len(Tail(s)) = Len(s) - 1 /\ Len(s) \in Nat \ {0}
             /\ \A k \in 1..Len(Tail(s)) : Tail(s)[k] = s[1 + k]
  <2>1. Len(s) \in Nat \ {0}
    BY <1>1, <1>3
  <2> DEFINE t == Tail(s)
             u == From(s, 2)
             n == Len(s) - 1
  <2>2. t \in Seq(S) /\ Len(t) = n /\ \A k \in 1..n : t[k] = s[k + 1]
    BY <1>3, <2>1
  <2>3. u \in Seq(S) /\ Len(u) = n /\ \A k \in 1..n : u[k] = s[k + 1]
    <3>1. \A k \in 2..Len(s) : s[k] \in S
      BY <2>1
    <3>2. 2 \in Int /\ Len(s) \in Int
      BY <2>1
    <3>3. /\ u \in Seq(S)
          /\ Len(u) = IF Len(s) < 2 THEN 0 ELSE Len(s) - 2 + 1
          /\ \A k \in 1..(Len(s) - 2 + 1) : u[k] = s[2 + k - 1]
      BY <2>1, <3>1, <3>2, SubSeqProperties DEF From
    <3>4. \A k \in 1..n : 2 + k - 1 = k + 1
      BY <2>1
    <3> QED
      BY <2>1, <3>3, <3>4
  <2> HIDE DEF t, u
  <2>4. u = t
    BY <2>2, <2>3, SeqEqual
  <2>5. \A k \in 1..n : s[k + 1] = s[1 + k]
    BY <2>1
  <2> QED
    BY <2>1, <2>2, <2>4, <2>5 DEF t, u
<1> QED
  BY <1>2, <1>3

LEMMA TrimmedType ==
    ASSUME NEW s \in Seq(Char)
    PROVE  Trimmed(s) \in Seq(Char) /\ Bare(Trimmed(s)) \in Seq(Char)
<1>1. Run(s, Space) \in 0..Len(s) /\ Len(s) \in Nat
  BY RunIs, LenProperties
<1>2. Run(s, Space) + 1 \in Nat \ {0}
  BY <1>1
<1>3. Trimmed(s) \in Seq(Char)
  BY <1>2, FromType DEF Trimmed
<1> QED
  BY <1>3 DEF Bare

LEMMA MagnitudeType ==
    ASSUME NEW s \in Seq(Char), NEW base \in Bases
    PROVE  \E p \in BOOLEAN, v \in Nat :
              Magnitude(s, base) = [parsed |-> p, value |-> v]
<1> DEFINE hex == base = 16 /\ Prefixed(s)
           digits == IF hex THEN From(s, 3) ELSE s
           n == DigitRun(digits, base)
           value == Value(digits, base, n)
<1>1. digits \in Seq(Char)
  BY FromType
<1> HIDE DEF digits
<1>2. n \in 0..Len(digits) /\ Figured(digits, base, n) /\ Len(digits) \in Nat
  BY <1>1, DigitRunIs, LenProperties
<1> HIDE DEF n
<1>3. value \in Nat
  <2>1. base \in Nat \ {0}
    BY DEF Bases
  <2>2. Power(base, n) \in Nat
    BY <1>2, <2>1, PowerType
  <2>3. value \in 0..(Power(base, n) - 1)
    BY <1>2, ValueBound
  <2> QED
    BY <2>2, <2>3
<1> HIDE DEF value
<1>4. Magnitude(s, base) = IF n = 0 /\ ~hex THEN Unparsed ELSE Parsed(value)
  BY DEF Magnitude, digits, n, value
<1> HIDE DEF hex
<1>5. CASE n = 0 /\ ~hex
  <2>1. Magnitude(s, base) = [parsed |-> FALSE, value |-> 0]
    BY <1>4, <1>5 DEF Unparsed
  <2>2. FALSE \in BOOLEAN /\ 0 \in Nat
    OBVIOUS
  <2> QED
    BY <2>1, <2>2
<1>6. CASE ~(n = 0 /\ ~hex)
  BY <1>3, <1>4, <1>6 DEF Parsed
<1> QED
  BY <1>5, <1>6

LEMMA ScanIs ==
    ASSUME NEW s, NEW base, NEW p, NEW v,
           Magnitude(Bare(Trimmed(s)), base) = [parsed |-> p, value |-> v]
    PROVE  Scan(s, base) =
              [parsed |-> p,
               value |-> (IF v > Power(2, LongBits) - 1 THEN Power(2, LongBits) - 1
                          ELSE (IF Negative(Trimmed(s)) THEN -v ELSE v)
                                  % ((Power(2, LongBits) - 1) + 1)) % Power(2, Bits)]
<1> DEFINE m == Magnitude(Bare(Trimmed(s)), base)
           max == Power(2, LongBits) - 1
           neg == Negative(Trimmed(s))
           long == IF v > max THEN max ELSE (IF neg THEN -v ELSE v) % (max + 1)
           c == Power(2, Bits)
<1>1. ScanLong(s, base) =
         [m EXCEPT !.value = IF @ > max THEN max ELSE (IF neg THEN -@ ELSE @) % (max + 1)]
  BY DEF ScanLong
<1>2. Scan(s, base) = [ScanLong(s, base) EXCEPT !.value = @ % c]
  BY DEF Scan
<1>3. m = [parsed |-> p, value |-> v]
  OBVIOUS
<1> HIDE DEF m, max, neg, c
<1>4. ScanLong(s, base) = [parsed |-> p, value |-> long]
  BY <1>1, <1>3
<1> HIDE DEF long
<1>5. Scan(s, base) = [parsed |-> p, value |-> long % c]
  BY <1>2, <1>4
<1> QED
  BY <1>5 DEF long, max, neg, c

LEMMA ScanSignedIs ==
    ASSUME NEW s, NEW p, NEW v,
           Magnitude(Bare(Trimmed(s)), 10) = [parsed |-> p, value |-> v]
    PROVE  ScanSigned(s) =
              [parsed |-> p,
               value |-> Wrapped(IF Negative(Trimmed(s))
                                 THEN -Smaller(v, Power(2, LongBits - 1))
                                 ELSE Smaller(v, Power(2, LongBits - 1) - 1))]
<1> DEFINE m == Magnitude(Bare(Trimmed(s)), 10)
           limit == Power(2, LongBits - 1)
           neg == Negative(Trimmed(s))
<1>1. ScanSigned(s) =
         [m EXCEPT !.value = Wrapped(IF neg THEN -Smaller(@, limit)
                                     ELSE Smaller(@, limit - 1))]
  BY DEF ScanSigned
<1>2. m = [parsed |-> p, value |-> v]
  OBVIOUS
<1> HIDE DEF m, limit, neg
<1>3. [m EXCEPT !.value = Wrapped(IF neg THEN -Smaller(@, limit) ELSE Smaller(@, limit - 1))]
         = [parsed |-> p, value |-> Wrapped(IF neg THEN -Smaller(v, limit)
                                            ELSE Smaller(v, limit - 1))]
  BY <1>2
<1> QED
  BY <1>1, <1>3 DEF limit, neg

LEMMA WrappedType ==
    ASSUME NEW v \in Int
    PROVE  Wrapped(v) \in Signed
<1> DEFINE h == Power(2, Bits - 1)
           m == Power(2, Bits)
<1>1. h \in Nat \ {0} /\ m = 2 * h
  BY WidthsAre
<1>2. Wrapped(v) = ((v + h) % m) - h /\ Signed = (-h)..(h - 1)
  BY DEF Wrapped, Signed
<1> HIDE DEF h, m
<1> DEFINE y == v + h
<1>3. y \in Int /\ m \in Nat \ {0}
  BY <1>1
<1> HIDE DEF y
<1>4. y % m \in 0..(m - 1)
  BY <1>3
<1> DEFINE z == y % m
<1> HIDE DEF z
<1>5. z - h \in (-h)..(h - 1)
  BY <1>1, <1>4 DEF z
<1> QED
  BY <1>2, <1>5 DEF y, z

LEMMA WrappedIs ==
    ASSUME NEW v \in Signed
    PROVE  Wrapped(v) = v
<1> DEFINE h == Power(2, Bits - 1)
           m == Power(2, Bits)
<1>1. h \in Nat \ {0} /\ m = 2 * h
  BY WidthsAre
<1>2. Wrapped(v) = ((v + h) % m) - h /\ v \in (-h)..(h - 1)
  BY DEF Wrapped, Signed
<1> HIDE DEF h, m
<1> DEFINE y == v + h
<1>3. y \in 0..(m - 1) /\ m \in Nat \ {0} /\ y - h = v
  BY <1>1, <1>2
<1> HIDE DEF y
<1>4. y % m = y
  BY <1>3
<1> QED
  BY <1>2, <1>3, <1>4 DEF y

LEMMA ScanType ==
    ASSUME NEW s \in Seq(Char)
    PROVE  /\ \A base \in Bases : Scan(s, base).value \in Unsigned
           /\ ScanBase2(s).value \in Unsigned
           /\ ScanSigned(s).value \in Signed
<1>1. ASSUME NEW base \in Bases PROVE Scan(s, base).value \in Unsigned
  <2> DEFINE max == Power(2, LongBits) - 1
             m == Power(2, Bits)
             t == Trimmed(s)
  <2>1. max \in Nat /\ m \in Nat \ {0}
    BY WidthsAre
  <2>2. PICK p \in BOOLEAN, v \in Nat : Magnitude(Bare(t), base) = [parsed |-> p, value |-> v]
    BY TrimmedType, MagnitudeType
  <2> DEFINE w == IF Negative(t) THEN -v ELSE v
             long == IF v > max THEN max ELSE w % (max + 1)
  <2>3. Scan(s, base) = [parsed |-> p, value |-> long % m]
    BY <2>2, ScanIs
  <2>4. w \in Int
    OBVIOUS
  <2> HIDE DEF max, m, t, w
  <2>5. w % (max + 1) \in Int
    BY <2>1, <2>4
  <2>6. long \in Int
    BY <2>1, <2>5
  <2> HIDE DEF long
  <2>7. long % m \in 0..(m - 1)
    BY <2>1, <2>6
  <2> QED
    BY <2>3, <2>7 DEF Unsigned, m
<1>2. ScanBase2(s).value \in Unsigned
  <2> DEFINE t == SubSeq(s, 1, Smaller(Len(s), Bits))
             n == DigitRun(t, 2)
  <2>1. Len(s) \in Nat /\ Bits \in Nat /\ Power(2, Bits) \in Nat \ {0}
    BY LenProperties, WidthsAre
  <2>2. Smaller(Len(s), Bits) \in 0..Len(s) /\ Smaller(Len(s), Bits) <= Bits
    BY <2>1 DEF Smaller
  <2>3. /\ t \in Seq(Char) /\ Len(t) = Smaller(Len(s), Bits)
        /\ \A k \in 1..Len(t) : t[k] = s[k]
    BY <2>1, <2>2, SubSeqProperties
  <2>4. 2 \in Bases
    BY DEF Bases
  <2>5. ScanBase2(s) = IF n = 0 THEN Unparsed ELSE Parsed(Value(s, 2, n))
    BY DEF ScanBase2
  <2> HIDE DEF t
  <2>6. n \in 0..Len(t) /\ Figured(t, 2, n)
    BY <2>3, DigitRunIs
  <2> HIDE DEF n
  <2>7. Figured(s, 2, n)
    BY <2>1, <2>2, <2>3, <2>6 DEF Figured
  <2>8. n \in Nat /\ n <= Bits
    BY <2>1, <2>2, <2>3, <2>6
  <2>9. Value(s, 2, n) \in 0..(Power(2, n) - 1)
    BY <2>4, <2>8, <2>7, ValueBound
  <2>10. Power(2, n) <= Power(2, Bits) /\ Power(2, n) \in Nat
    <3>1. 2 \in Nat \ {0}
      OBVIOUS
    <3>2. Power(2, n) <= Power(2, Bits)
      BY <2>1, <2>8, <3>1, PowerIncreases
    <3>3. Power(2, n) \in Nat \ {0}
      BY <2>8, <3>1, PowerType
    <3> QED
      BY <3>2, <3>3
  <2>11. Value(s, 2, n) \in Unsigned
    BY <2>1, <2>9, <2>10 DEF Unsigned
  <2> QED
    BY <2>1, <2>5, <2>11 DEF Unsigned, Parsed, Unparsed
<1>3. ScanSigned(s).value \in Signed
  <2> DEFINE limit == Power(2, LongBits - 1)
             t == Trimmed(s)
  <2>1. limit \in Nat \ {0} /\ 10 \in Bases
    BY WidthsAre DEF Bases
  <2>2. PICK p \in BOOLEAN, v \in Nat : Magnitude(Bare(t), 10) = [parsed |-> p, value |-> v]
    BY <2>1, TrimmedType, MagnitudeType
  <2> DEFINE w == IF Negative(t) THEN -Smaller(v, limit) ELSE Smaller(v, limit - 1)
  <2>3. ScanSigned(s) = [parsed |-> p, value |-> Wrapped(w)]
    BY <2>2, ScanSignedIs
  <2> HIDE DEF limit, t
  <2>4. w \in Int
    BY <2>1 DEF Smaller
  <2> HIDE DEF w
  <2> QED
    BY <2>3, <2>4, WrappedType
<1> QED
  BY <1>1, <1>2, <1>3

(***************************************************************************)
(* The chars of the array.                                                 *)
(***************************************************************************)

CharInv == buffer \in [1..Room -> Char]

LEMMA TextIs ==
    ASSUME NEW m \in [1..Room -> Char], Ends(m)
    PROVE  /\ Text(m) \in Seq(Char \ {0}) /\ Len(Text(m)) = TextLen(m)
           /\ TextLen(m) \in 0..(Room - 1) /\ TextLen(m) < RTSTRMAX
           /\ \A k \in 1..TextLen(m) : Text(m)[k] = m[k]
           /\ m[TextLen(m) + 1] = NUL
<1>1. PICK e \in 1..Room : /\ e <= RTSTRMAX /\ m[e] = NUL
                           /\ \A k \in 1..(e - 1) : m[k] # NUL
  BY FirstTerminator
<1>2. Room \in Nat /\ RTSTRMAX \in Nat
  BY PlfAssumption
<1> DEFINE n == e - 1
<1>3. n \in 0..(Room - 1) /\ n + 1 = e /\ n < RTSTRMAX
  BY <1>1, <1>2
<1>4. Memory(m)
  BY DEF Memory
<1>5. TextLen(m) = n
  BY <1>1, <1>3, <1>4, TextLenIs
<1>6. m \in Seq(Char) /\ Len(m) = Room
  <2>1. m \in Seq(Char)
    BY <1>2, SeqDef
  <2> QED
    BY <1>4, <2>1, MemoryLength
<1> HIDE DEF n
<1>7. SubSeq(m, 1, n) = [k \in 1..n |-> m[k]]
  BY <1>2, <1>3, <1>6
<1>8. \A k \in 1..n : k \in 1..Room /\ m[k] # NUL
  BY <1>1, <1>2, <1>3 DEF n
<1>9. \A k \in 1..n : m[k] \in Char \ {0}
  BY <1>8 DEF NUL
<1>10. SubSeq(m, 1, n) \in [1..n -> Char \ {0}]
  BY <1>7, <1>9
<1>11. Text(m) = SubSeq(m, 1, n)
  BY <1>5 DEF Text
<1>12. Text(m) \in Seq(Char \ {0})
  <2>1. n \in Nat
    BY <1>2, <1>3
  <2>2. SubSeq(m, 1, n) \in Seq(Char \ {0})
    BY <1>10, <2>1, SeqDef
  <2> QED
    BY <1>11, <2>2
<1>13. Len(Text(m)) = n
  BY <1>3, <1>10, <1>11, <1>12, LenProperties
<1> QED
  BY <1>1, <1>3, <1>5, <1>7, <1>11, <1>12, <1>13

LEMMA CopiedType ==
    ASSUME NEW m \in [1..Room -> Char], NEW size \in 1..Room, NEW s \in Seq(Char \ {0})
    PROVE  Copied(m, size, s) \in [1..Room -> Char]
<1>1. Len(s) \in Nat /\ \A k \in 1..Len(s) : s[k] \in Char
  BY LenProperties, ElementOfSeq
<1>2. Memory(m) /\ Room \in Nat
  BY PlfAssumption DEF Memory
<1> DEFINE c == Copied(m, size, s)
<1>3. /\ Memory(c)
      /\ \A k \in 1..Room :
            c[k] = IF k > size THEN m[k]
                   ELSE IF k = size /\ Len(s) >= size THEN NUL
                   ELSE IF k <= Len(s) THEN s[k] ELSE NUL
  BY <1>1, <1>2, CopiedChars
<1> HIDE DEF c
<1>4. NUL \in Char
  BY DEF NUL, Char
<1>5. \A k \in 1..Room : c[k] \in Char
  BY <1>1, <1>2, <1>3, <1>4
<1>6. c = [k \in 1..Room |-> c[k]]
  BY <1>3 DEF Memory
<1>7. c \in [1..Room -> Char]
  BY <1>5, <1>6
<1> QED
  BY <1>7 DEF c

(***************************************************************************)
(* What printing hands to the copy.                                        *)
(***************************************************************************)

(* What sprintf or rtplfPrintBase2 leaves of the text, whole, and its length. *)
Prints(text, whole, n, size) ==
    /\ whole \in Seq(Char \ {0}) /\ Len(whole) = n /\ n \in Nat
    /\ text \in Seq(Char \ {0})
    /\ size \in Nat \ {0} =>
          SubSeq(text, 1, Smaller(Len(text), size - 1))
             = SubSeq(whole, 1, Smaller(n, size - 1))

LEMMA NumeralType ==
    ASSUME NEW x \in 0..(Power(2, Bits) - 1), NEW base \in Bases
    PROVE  /\ Numeral(x, base) \in Seq(Char \ {0})
           /\ Len(Numeral(x, base)) \in Nat \ {0}
           /\ Figured(Numeral(x, base), base, Len(Numeral(x, base)))
           /\ Value(Numeral(x, base), base, Len(Numeral(x, base))) = x
<1>1. PICK n \in 1..Bits : Numeral(x, base) = Figures(x, base, n) /\ x < Power(base, n)
  BY NumeralIs
<1>2. x \in Nat /\ n \in Nat \ {0} /\ Power(base, n) \in Nat
  <2>1. Power(2, Bits) \in Nat /\ Bits \in Nat
    BY WidthsAre
  <2>2. base \in Nat \ {0}
    BY DEF Bases
  <2> QED
    BY <2>1, <2>2, PowerType
<1>3. x \in 0..(Power(base, n) - 1)
  BY <1>1, <1>2
<1>4. Figures(x, base, n) \in Seq(Char \ {0}) /\ Len(Figures(x, base, n)) = n
  BY <1>2, FiguresAre
<1>5. Figured(Figures(x, base, n), base, n)
  BY <1>2, FiguresAreDigits
<1>6. Value(Figures(x, base, n), base, n) = x
  BY <1>2, <1>3, ValueOfFigures
<1> QED
  BY <1>1, <1>2, <1>4, <1>5, <1>6

LEMMA SignedNumeralType ==
    ASSUME NEW x \in Signed
    PROVE  /\ SignedNumeral(x) \in Seq(Char \ {0})
           /\ Len(SignedNumeral(x)) \in Nat
           /\ x >= 0 => x \in 0..(Power(2, Bits) - 1)
           /\ x < 0 => -x \in 0..(Power(2, Bits) - 1)
<1>1. /\ x >= 0 => x \in 0..(Power(2, Bits) - 1)
      /\ x < 0 => -x \in 0..(Power(2, Bits) - 1)
      /\ x \in Int
  BY WidthsAre DEF Signed
<1>2. 10 \in Bases
  BY DEF Bases
<1>3. CASE x < 0
  <2>1. Numeral(-x, 10) \in Seq(Char \ {0})
    BY <1>1, <1>2, <1>3, NumeralType
  <2>2. <<Minus>> \in Seq(Char \ {0})
    BY DEF Minus, Char
  <2> DEFINE t == <<Minus>> \o Numeral(-x, 10)
  <2>3. t \in Seq(Char \ {0})
    BY <2>1, <2>2, ConcatProperties
  <2>4. SignedNumeral(x) = t
    BY <1>3 DEF SignedNumeral
  <2> HIDE DEF t
  <2> QED
    BY <1>1, <2>3, <2>4, LenProperties
<1>4. CASE ~(x < 0)
  <2>1. SignedNumeral(x) = Numeral(x, 10)
    BY <1>4 DEF SignedNumeral
  <2>2. x \in 0..(Power(2, Bits) - 1)
    BY <1>1, <1>4
  <2> QED
    BY <1>1, <1>2, <2>1, <2>2, NumeralType
<1> QED
  BY <1>3, <1>4

LEMMA SprintfPrints ==
    ASSUME NEW s \in Seq(Char \ {0}), NEW size
    PROVE  Prints(s, s, Len(s), size)
  BY LenProperties DEF Prints

LEMMA PrintBase2Prints ==
    ASSUME NEW x \in Nat, NEW size \in Nat \ {0}
    PROVE  Prints(PrintBase2(x, size), Figures(x, 2, Bits), Bits, size)
<1> DEFINE s == Figures(x, 2, Bits)
           n == Smaller(Bits, size - 1)
<1>1. Bits \in Nat /\ s \in Seq(Char \ {0}) /\ Len(s) = Bits
  <2>1. 2 \in Bases /\ Bits \in Nat
    BY WidthsAre DEF Bases
  <2> QED
    BY <2>1, FiguresAre
<1>2. PrintBase2(x, size) = SubSeq(s, 1, n)
  BY DEF PrintBase2
<1>3. n \in 0..Bits /\ n <= size - 1
  BY <1>1 DEF Smaller
<1> HIDE DEF s
<1> HIDE DEF n
<1>4. SubSeq(s, 1, n) \in Seq(Char \ {0}) /\ Len(SubSeq(s, 1, n)) = n
  BY <1>1, <1>3, SubSeqProperties
<1>5. Smaller(n, size - 1) = n
  BY <1>1, <1>3 DEF Smaller
<1>6. SubSeq(SubSeq(s, 1, n), 1, n) = SubSeq(s, 1, n)
  <2> DEFINE t == SubSeq(s, 1, n)
  <2> HIDE DEF t
  <2>1. t \in Seq(Char \ {0}) /\ Len(t) = n
    BY <1>4 DEF t
  <2>2. SubSeq(t, 1, Len(t)) = t
    BY <2>1
  <2> QED
    BY <2>1, <2>2 DEF t
<1>7. Prints(SubSeq(s, 1, n), s, Bits, size)
  <2>1. n = Smaller(Bits, size - 1)
    BY DEF n
  <2> QED
    BY <1>1, <1>4, <1>5, <1>6, <2>1 DEF Prints
<1> QED
  BY <1>2, <1>7 DEF s

(* A call that prints: its arguments, and what it hands to the copy. *)
PrintStep(f, x, base, size, text, n) ==
    /\ WriteNumeral(f, x, base, size, text, n)
    /\ f \in {"RT32ToString", "RTU32ToString"}
    /\ f = "RT32ToString" => x \in Signed
    /\ f = "RTU32ToString" => x \in Unsigned /\ base \in Bases
    /\ size \in Sizes /\ n \in Nat
    /\ size # 0 => Prints(text, Whole([f |-> f, x |-> x, base |-> base,
                                       whole |-> n < size]), n, size)

LEMMA Print32 ==
    ASSUME NEW size \in Sizes, NEW x \in Signed, RT32ToString(x, size)
    PROVE  \E base, text, n : PrintStep("RT32ToString", x, base, size, text, n)
<1> DEFINE s == SignedNumeral(x)
           h == [f |-> "RT32ToString", x |-> x, base |-> 10, whole |-> Len(s) < size]
<1>1. WriteNumeral("RT32ToString", x, 10, size, s, Len(s))
  BY DEF RT32ToString
<1>2. Whole(h) = s
  BY DEF Whole
<1>3. s \in Seq(Char \ {0}) /\ Len(s) \in Nat
  BY SignedNumeralType
<1>4. Prints(s, s, Len(s), size)
  BY <1>3, SprintfPrints
<1> HIDE DEF s
<1>5. Prints(s, Whole(h), Len(s), size)
  BY <1>2, <1>4
<1>6. PrintStep("RT32ToString", x, 10, size, s, Len(s))
  BY <1>1, <1>3, <1>5 DEF PrintStep
<1> QED
  BY <1>6

LEMMA PrintU32 ==
    ASSUME NEW size \in Sizes, NEW x \in Unsigned, NEW base \in RTBase,
           RTU32ToString(x, base, size)
    PROVE  \E used, text, n : PrintStep("RTU32ToString", x, used, size, text, n)
<1>1. x \in Nat /\ size \in Nat
  BY WidthsAre, PlfAssumption DEF Unsigned
<1>2. CASE base = 2
  <2> DEFINE t == PrintBase2(x, size)
             h == [f |-> "RTU32ToString", x |-> x, base |-> 2, whole |-> Bits < size]
  <2>1. WriteNumeral("RTU32ToString", x, 2, size, t, Bits)
    BY <1>2 DEF RTU32ToString
  <2>2. Whole(h) = Figures(x, 2, Bits)
    BY DEF Whole
  <2>3. size # 0 => Prints(t, Figures(x, 2, Bits), Bits, size)
    BY <1>1, PrintBase2Prints
  <2> HIDE DEF t
  <2>4. size # 0 => Prints(t, Whole(h), Bits, size)
    BY <2>2, <2>3
  <2>5. 2 \in Bases /\ Bits \in Nat
    BY WidthsAre DEF Bases
  <2>6. PrintStep("RTU32ToString", x, 2, size, t, Bits)
    BY <2>1, <2>4, <2>5 DEF PrintStep
  <2> QED
    BY <2>6
<1>3. CASE base # 2
  <2> DEFINE used == IF base = RTBASE_AUTO THEN 10 ELSE base
             s == Numeral(x, used)
             h == [f |-> "RTU32ToString", x |-> x, base |-> used, whole |-> Len(s) < size]
  <2>1. WriteNumeral("RTU32ToString", x, used, size, s, Len(s))
    BY <1>3 DEF RTU32ToString
  <2>2. used \in Bases /\ used # 2
    BY <1>3 DEF Bases, RTBase, RTBASE_AUTO
  <2> HIDE DEF used
  <2>3. Whole(h) = s
    BY <2>2 DEF Whole
  <2>4. s \in Seq(Char \ {0}) /\ Len(s) \in Nat
    BY <2>2, NumeralType DEF Unsigned
  <2>5. Prints(s, s, Len(s), size)
    BY <2>4, SprintfPrints
  <2> HIDE DEF s
  <2>6. Prints(s, Whole(h), Len(s), size)
    BY <2>3, <2>5
  <2>7. PrintStep("RTU32ToString", x, used, size, s, Len(s))
    BY <2>1, <2>2, <2>4, <2>6 DEF PrintStep
  <2> QED
    BY <2>7
<1> QED
  BY <1>2, <1>3

LEMMA PrintCalls ==
    ASSUME Next, call'.f \in {"RT32ToString", "RTU32ToString"}
    PROVE  \E x, base, size, text, n : PrintStep(call'.f, x, base, size, text, n)
<1>1. CASE call'.f = "RT32ToString"
  <2>1. PICK size \in Sizes, x \in Numbers \cap Signed : RT32ToString(x, size)
    BY <1>1, NextNames DEF CallIs
  <2>2. x \in Signed
    OBVIOUS
  <2>3. \E base, text, n : PrintStep("RT32ToString", x, base, size, text, n)
    BY <2>1, <2>2, Print32
  <2> QED
    BY <1>1, <2>3
<1>2. CASE call'.f = "RTU32ToString"
  <2>1. PICK size \in Sizes, x \in Numbers \cap Unsigned, base \in RTBase :
              RTU32ToString(x, base, size)
    BY <1>2, NextNames DEF CallIs
  <2>2. x \in Unsigned
    OBVIOUS
  <2>3. \E used, text, n : PrintStep("RTU32ToString", x, used, size, text, n)
    BY <2>1, <2>2, PrintU32
  <2> QED
    BY <1>2, <2>3
<1> QED
  BY <1>1, <1>2

LEMMA PrintType ==
    ASSUME CharInv, NEW f, NEW x, NEW base, NEW size, NEW text, NEW n,
           PrintStep(f, x, base, size, text, n)
    PROVE  CharInv' /\ (call'.f = f => call'.ret \in 0..Room)
<1>1. /\ WriteNumeral(f, x, base, size, text, n) /\ n \in Nat
      /\ size \in 0..Room /\ Room \in Nat /\ f # "RTPanic"
  BY PlfAssumption DEF PrintStep
<1>2. CASE size = 0 \/ size > RTSTRMAX
  <2>1. UNCHANGED buffer /\ (call'.f = f => call'.ret = 0)
    BY <1>1, <1>2, PlfAssumption DEF WriteNumeral, Panic
  <2> QED
    BY <1>1, <2>1 DEF CharInv
<1>3. CASE ~(size = 0 \/ size > RTSTRMAX)
  <2>1. buffer' = Copied(buffer, size, text) /\ call'.ret = Clipped(n, size)
    BY <1>1, <1>3 DEF WriteNumeral
  <2>2. text \in Seq(Char \ {0})
    BY <1>3 DEF PrintStep, Prints
  <2>3. CharInv'
    BY <1>1, <1>3, <2>1, <2>2, CopiedType DEF CharInv
  <2> QED
    BY <1>1, <1>3, <2>1, <2>3 DEF Clipped
<1> QED
  BY <1>2, <1>3

LEMMA CharInvStep ==
    ASSUME CharInv, Next
    PROVE  CharInv'
<1>1. CASE UNCHANGED buffer
  BY <1>1 DEF CharInv
<1>2. CASE call'.f \in {"RT32ToString", "RTU32ToString"}
  BY <1>2, PrintCalls, PrintType
<1>3. CASE call'.f = "RTStrncpy"
  <2>1. PICK size \in Sizes, src \in Strings \cup {NULL} : RTStrncpy(size, src)
    BY <1>3, NextNames DEF CallIs
  <2>2. CASE size = 0
    BY <1>1, <1>3, <2>1, <2>2 DEF RTStrncpy, Panic
  <2>3. CASE size # 0
    <3>1. size \in 1..Room /\ 1 \in 1..Room
      BY <2>3, PlfAssumption
    <3>2. buffer' = IF src = NULL THEN [buffer EXCEPT ![1] = NUL]
                    ELSE Copied(buffer, size, src)
      BY <1>3, <2>1, <2>3 DEF RTStrncpy, Panic
    <3>3. CASE src = NULL
      BY <3>1, <3>2, <3>3 DEF CharInv, NUL, Char
    <3>4. CASE src # NULL
      <4>1. src \in Seq(Char \ {0})
        BY <3>4, PlfAssumption
      <4> QED
        BY <3>1, <3>2, <3>4, <4>1, CopiedType DEF CharInv
    <3> QED
      BY <3>3, <3>4
  <2> QED
    BY <2>2, <2>3
<1>4. CASE ~UNCHANGED buffer
  <2>1. call'.f \in {"RT32ToString", "RTU32ToString", "RTStrncpy"}
    BY <1>4, NextNames DEF CallIs, Compare, Panic, RTStringTo32, RTStringToU32,
                           RTStrlen, RTTickFrequency_Hz, Now
  <2> QED
    BY <1>2, <1>3, <2>1
<1> QED
  BY <1>1, <1>4

(* The array holds chars, and a terminator near enough. *)
ArrayInv == CharInv /\ Ends(buffer)

LEMMA ArrayInvariance == Spec => []ArrayInv
<1>1. Init => CharInv
  BY DEF Init, CharInv, NUL, Char
<1>2. CharInv /\ [Next]_vars => CharInv'
  BY CharInvStep DEF CharInv, vars
<1>3. EndsInv => Ends(buffer)
  BY DEF EndsInv
<1> QED
  BY <1>1, <1>2, <1>3, EndsInvariance, PTL DEF Spec, ArrayInv

LEMMA GuessType ==
    ASSUME NEW s
    PROVE  Guess(s).base \in Bases /\ Guess(s).skip \in 0..2
<1>1. CASE Prefixed(s)
  BY <1>1 DEF Guess, Bases
<1>2. CASE ~Prefixed(s) /\ s[1] = Zero
  BY <1>2 DEF Guess, Bases
<1>3. CASE ~Prefixed(s) /\ s[1] # Zero /\ s[1] \in B
  BY <1>3 DEF Guess, Bases
<1>4. CASE ~Prefixed(s) /\ s[1] # Zero /\ s[1] \notin B
  BY <1>4 DEF Guess, Bases
<1> QED
  BY <1>1, <1>2, <1>3, <1>4

LEMMA ScanInType ==
    ASSUME NEW s \in Seq(Char), NEW base \in Bases
    PROVE  ScanIn(s, base).value \in Unsigned
  BY ScanType DEF ScanIn

LEMMA AnswerType ==
    ASSUME CharInv, Ends(buffer), CharInv', Next
    PROVE  TypeOK'
<1> DEFINE s == Text(buffer)
<1>1. s \in Seq(Char) /\ Len(s) \in 0..Room
  <2>1. s \in Seq(Char \ {0}) /\ Len(s) \in 0..(Room - 1) /\ Room \in Nat
    BY TextIs, PlfAssumption DEF CharInv
  <2>2. \A k \in 1..Len(s) : s[k] \in Char
    BY <2>1
  <2> HIDE DEF s
  <2>3. s \in Seq(Char)
    BY <2>1, <2>2
  <2> QED
    BY <2>1, <2>3
<1>2. call'.f \in {"RT32ToString", "RTU32ToString"} => call'.ret \in 0..Room
  BY PrintCalls, PrintType
<1>3. call'.f = "RTStrlen" => call'.ret \in 0..Room
  <2> SUFFICES ASSUME call'.f = "RTStrlen" PROVE call'.ret \in 0..Room
    OBVIOUS
  <2>1. RTStrlen
    BY NextNames DEF CallIs
  <2>2. call'.ret = Len(s)
    BY <2>1 DEF RTStrlen, Panic
  <2> QED
    BY <1>1, <2>2
<1>4. call'.f = "RTStringToU32" => call'.ret.value \in Unsigned
  <2> SUFFICES ASSUME call'.f = "RTStringToU32" PROVE call'.ret.value \in Unsigned
    OBVIOUS
  <2>1. PICK base \in RTBase : RTStringToU32(base)
    BY NextNames DEF CallIs
  <2> DEFINE g == Guess(s)
  <2>2. call'.ret = IF s = <<>> THEN Unparsed
                    ELSE IF base = RTBASE_AUTO THEN ScanIn(From(s, g.skip + 1), g.base)
                    ELSE ScanIn(s, base)
    BY <2>1 DEF RTStringToU32, Panic
  <2>3. g.base \in Bases /\ g.skip \in 0..2
    BY GuessType
  <2> HIDE DEF g
  <2> HIDE DEF s
  <2>4. CASE s = <<>>
    <3>1. call'.ret = [parsed |-> FALSE, value |-> 0]
      BY <2>2, <2>4 DEF Unparsed
    <3> QED
      BY <3>1, WidthsAre DEF Unsigned
  <2>5. CASE s # <<>> /\ base = RTBASE_AUTO
    <3>1. From(s, g.skip + 1) \in Seq(Char)
      <4>1. g.skip + 1 \in Nat \ {0}
        BY <2>3
      <4> QED
        BY <1>1, <4>1, FromType
    <3> QED
      BY <2>2, <2>3, <2>5, <3>1, ScanInType
  <2>6. CASE s # <<>> /\ base # RTBASE_AUTO
    <3>1. base \in Bases
      BY <2>6 DEF RTBase, Bases, RTBASE_AUTO
    <3> QED
      BY <1>1, <2>2, <2>6, <3>1, ScanInType
  <2> QED
    BY <2>4, <2>5, <2>6
<1>5. call'.f = "RTStringTo32" => call'.ret.value \in Signed
  <2> SUFFICES ASSUME call'.f = "RTStringTo32" PROVE call'.ret.value \in Signed
    OBVIOUS
  <2>1. RTStringTo32
    BY NextNames DEF CallIs
  <2>2. call'.ret = IF s = <<>> THEN Unparsed ELSE ScanSigned(s)
    BY <2>1 DEF RTStringTo32, Panic
  <2> HIDE DEF s
  <2>3. CASE s = <<>>
    <3>1. call'.ret = [parsed |-> FALSE, value |-> 0]
      BY <2>2, <2>3 DEF Unparsed
    <3> QED
      BY <3>1, WidthsAre DEF Signed
  <2>4. CASE s # <<>>
    BY <1>1, <2>2, <2>4, ScanType
  <2> QED
    BY <2>3, <2>4
<1>6. Timed(call'.f) => call'.ret \in Unsigned
  <2> SUFFICES ASSUME Timed(call'.f) PROVE call'.ret \in Unsigned
    OBVIOUS
  <2>1. PICK t \in Times : Now(call'.f, t)
    BY NextNames DEF CallIs, Timed
  <2>2. t \in Nat /\ call'.ret = Tick(t)
    BY <2>1, PlfAssumption DEF Now
  <2> DEFINE m == Power(2, Bits)
  <2>3. Tick(t) = t % m /\ m \in Nat \ {0}
    BY <2>2, TickIs, WidthsAre
  <2> HIDE DEF m
  <2>4. t % m \in 0..(m - 1)
    BY <2>2, <2>3
  <2> QED
    BY <2>2, <2>3, <2>4 DEF Unsigned, m
<1>7. call'.f = "RTTickFrequency_Hz" => call'.ret \in Unsigned
  <2> SUFFICES ASSUME call'.f = "RTTickFrequency_Hz" PROVE call'.ret \in Unsigned
    OBVIOUS
  <2>1. RTTickFrequency_Hz
    BY NextNames DEF CallIs
  <2>2. call'.ret = Hz
    BY <2>1 DEF RTTickFrequency_Hz
  <2> QED
    BY <2>2, PlfAssumption, WidthsAre DEF Unsigned
<1> QED
  BY <1>2, <1>3, <1>4, <1>5, <1>6, <1>7 DEF TypeOK, CharInv, Timed

(* Every value a function returns fits the type it is returned in, and     *)
(* every char written into the array is one: whatever is scanned, printed  *)
(* or read off the clock, at any width (rtplf.c:76-252).                   *)
THEOREM TypeCorrect == Spec => []TypeOK
<1>1. Init => TypeOK
  BY DEF Init, TypeOK, NUL, Char
<1>2. ArrayInv /\ ArrayInv' /\ TypeOK /\ [Next]_vars => TypeOK'
  <2> SUFFICES ASSUME ArrayInv, ArrayInv', TypeOK, [Next]_vars PROVE TypeOK'
    OBVIOUS
  <2>1. CASE UNCHANGED vars
    BY <2>1 DEF vars, TypeOK
  <2>2. CASE Next
    BY <2>2, AnswerType DEF ArrayInv
  <2> QED
    BY <2>1, <2>2
<1> QED
  BY <1>1, <1>2, ArrayInvariance, PTL DEF Spec

(***************************************************************************)
(* What the array holds after printing.                                    *)
(***************************************************************************)

HoldsInv ==
    holds # NULL /\ holds.whole =>
        /\ Text(buffer) = Whole(holds)
        /\ holds.f = "RT32ToString" => holds.x \in Signed
        /\ holds.f = "RTU32ToString" => holds.x \in Unsigned /\ holds.base \in Bases

LEMMA PrintedText ==
    ASSUME ArrayInv, ArrayInv', HoldsInv,
           NEW f, NEW x, NEW base, NEW size, NEW text, NEW n,
           PrintStep(f, x, base, size, text, n), call'.f = f
    PROVE  HoldsInv' /\ PrintedIsCounted'
<1>1. /\ WriteNumeral(f, x, base, size, text, n) /\ n \in Nat
      /\ size \in 0..Room /\ Room \in Nat /\ f # "RTPanic"
  BY PlfAssumption DEF PrintStep
<1>2. /\ ~(size > RTSTRMAX) /\ call'.size = size
      /\ size = 0 => UNCHANGED <<buffer, holds>>
  BY <1>1 DEF WriteNumeral, Panic
<1>3. CASE size = 0
  <2>1. HoldsInv'
    BY <1>2, <1>3 DEF HoldsInv
  <2>2. ~Printed'
    BY <1>2, <1>3 DEF Printed
  <2> QED
    BY <2>1, <2>2 DEF PrintedIsCounted
<1>4. CASE size # 0
  <2> DEFINE h == [f |-> f, x |-> x, base |-> base, whole |-> n < size]
             whole == Whole(h)
             k == Smaller(n, size - 1)
  <2>1. buffer' = Copied(buffer, size, text) /\ holds' = h /\ call'.ret = Clipped(n, size)
    BY <1>1, <1>2, <1>4 DEF WriteNumeral
  <2>2. Prints(text, whole, n, size) /\ size \in 1..Room /\ size \in Nat \ {0}
    BY <1>1, <1>4 DEF PrintStep
  <2>3. Memory(buffer)
    BY DEF ArrayInv, CharInv, Memory
  <2>4. Whole(holds)' = whole
    BY <2>1 DEF Whole
  <2> HIDE DEF whole
  <2>5. /\ whole \in Seq(Char \ {0}) /\ Len(whole) = n /\ text \in Seq(Char \ {0})
        /\ SubSeq(text, 1, Smaller(Len(text), size - 1)) = SubSeq(whole, 1, k)
    BY <2>2 DEF Prints
  <2>6. k \in 0..n /\ k <= size - 1 /\ (n < size => k = n) /\ Clipped(n, size) = k
    BY <1>1, <2>2 DEF Smaller, Clipped
  <2> HIDE DEF k
  <2>7. Text(buffer') = SubSeq(whole, 1, k)
    BY <2>1, <2>2, <2>3, <2>5, CopiedText
  <2>8. Len(SubSeq(whole, 1, k)) = k
    BY <1>1, <2>5, <2>6, SubSeqProperties
  <2>9. TextLen(buffer') = k
    <3>1. Len(Text(buffer')) = TextLen(buffer')
      BY TextIs DEF ArrayInv, CharInv, Ends
    <3> QED
      BY <2>7, <2>8, <3>1
  <2>10. PrintedIsCounted'
    <3>1. Text(buffer)' = SubSeq(Whole(holds)', 1, k) /\ TextLen(buffer)' = k
      BY <2>4, <2>7, <2>9
    <3>2. k = Smaller(Len(Whole(holds)'), call'.size - 1) /\ call'.ret = k
      BY <1>2, <2>1, <2>4, <2>5, <2>6 DEF k
    <3> QED
      BY <3>1, <3>2 DEF PrintedIsCounted
  <2>11. HoldsInv'
    <3> SUFFICES ASSUME holds'.whole
                 PROVE  /\ Text(buffer)' = Whole(holds)'
                        /\ holds'.f = "RT32ToString" => holds'.x \in Signed
                        /\ holds'.f = "RTU32ToString" =>
                              holds'.x \in Unsigned /\ holds'.base \in Bases
      BY DEF HoldsInv, Signed, Unsigned
    <3>1. n < size
      BY <2>1
    <3>2. k = n
      BY <2>6, <3>1
    <3>3. SubSeq(whole, 1, Len(whole)) = whole
      BY <2>5
    <3>4. Text(buffer)' = Whole(holds)'
      BY <2>4, <2>5, <2>7, <3>2, <3>3
    <3>5. /\ f = "RT32ToString" => x \in Signed
          /\ f = "RTU32ToString" => x \in Unsigned /\ base \in Bases
      BY DEF PrintStep
    <3>6. holds'.f = f /\ holds'.x = x /\ holds'.base = base
      BY <2>1
    <3> QED
      BY <3>4, <3>5, <3>6
  <2> QED
    BY <2>10, <2>11
<1> QED
  BY <1>3, <1>4

LEMMA HoldsStep ==
    ASSUME ArrayInv, ArrayInv', HoldsInv, Next
    PROVE  HoldsInv' /\ PrintedIsCounted'
<1>1. CASE call'.f \in {"RT32ToString", "RTU32ToString"}
  BY <1>1, PrintCalls, PrintedText
<1>2. CASE call'.f \notin {"RT32ToString", "RTU32ToString"}
  <2>1. PrintedIsCounted'
    BY <1>2 DEF PrintedIsCounted, Printed
  <2>2. UNCHANGED <<buffer, holds>> \/ holds' = NULL
    BY <1>2, NextNames DEF CallIs, Compare, Panic, RTStringTo32, RTStringToU32,
                           RTStrlen, RTTickFrequency_Hz, Now, RTStrncpy
  <2>3. HoldsInv'
    <3>1. CASE UNCHANGED <<buffer, holds>>
      BY <3>1 DEF HoldsInv
    <3>2. CASE holds' = NULL
      BY <3>2 DEF HoldsInv
    <3> QED
      BY <2>2, <3>1, <3>2
  <2> QED
    BY <2>1, <2>3
<1> QED
  BY <1>1, <1>2

LEMMA HoldsInvariance == Spec => [](HoldsInv /\ PrintedIsCounted)
<1>1. Init => HoldsInv /\ PrintedIsCounted
  BY DEF Init, HoldsInv, PrintedIsCounted, Printed
<1>2. ArrayInv /\ ArrayInv' /\ HoldsInv /\ PrintedIsCounted /\ [Next]_vars
        => HoldsInv' /\ PrintedIsCounted'
  <2> SUFFICES ASSUME ArrayInv, ArrayInv', HoldsInv, PrintedIsCounted, [Next]_vars
               PROVE  HoldsInv' /\ PrintedIsCounted'
    OBVIOUS
  <2>1. CASE UNCHANGED vars
    BY <2>1 DEF vars, HoldsInv, PrintedIsCounted, Printed
  <2>2. CASE Next
    BY <2>2, HoldsStep
  <2> QED
    BY <2>1, <2>2
<1> QED
  BY <1>1, <1>2, ArrayInvariance, PTL DEF Spec

(* However small the array, printing leaves in it the beginning of the     *)
(* number and its terminator, and returns how much of it it left           *)
(* (rtplf.c:102-107, 138-144).                                             *)
THEOREM PrintedIsCountedCorrect == Spec => []PrintedIsCounted
  BY HoldsInvariance, PTL

(***************************************************************************)
(* Reading back what was printed.                                          *)
(***************************************************************************)

LEMMA FirstDigit ==
    ASSUME NEW s, NEW base \in Bases, NEW n \in Nat \ {0}, Figured(s, base, n)
    PROVE  /\ s[1] \notin {Minus, Plus} /\ s[1] \notin Space
           /\ n >= 2 => ~Prefixed(s)
<1>1. s[1] \in Digits(base)
  BY DEF Figured
<1>2. s[1] \notin {Minus, Plus} /\ s[1] \notin Space
  BY <1>1, DigitRead
<1>3. ASSUME n >= 2 PROVE ~Prefixed(s)
  <2>1. s[2] \in Digits(base)
    BY <1>3 DEF Figured
  <2> QED
    BY <2>1, DigitRead DEF Prefixed
<1> QED
  BY <1>2, <1>3

(* A text that starts with no white space is read from its first char. *)
LEMMA Untrimmed ==
    ASSUME NEW s \in Seq(Char), s[1] \notin Space
    PROVE  Trimmed(s) = s
<1>1. 0 \in 0..Len(s) /\ Len(s) \in Nat
  BY LenProperties
<1>2. Run(s, Space) = 0
  BY <1>1, RunUnique
<1>3. Run(s, Space) + 1 = 1
  BY <1>2
<1> QED
  BY <1>3, FromIs DEF Trimmed

LEMMA MagnitudeIs ==
    ASSUME NEW s, NEW base, ~(base = 16 /\ Prefixed(s)), DigitRun(s, base) # 0
    PROVE  Magnitude(s, base) = Parsed(Value(s, base, DigitRun(s, base)))
<1> DEFINE hex == base = 16 /\ Prefixed(s)
           digits == IF hex THEN From(s, 3) ELSE s
<1>1. ~hex /\ digits = s
  OBVIOUS
<1>2. Magnitude(s, base) =
         IF DigitRun(digits, base) = 0 /\ ~hex THEN Unparsed
         ELSE Parsed(Value(digits, base, DigitRun(digits, base)))
  BY DEF Magnitude
<1> HIDE DEF hex, digits
<1> QED
  BY <1>1, <1>2

LEMMA ScanDigits ==
    ASSUME NEW s \in Seq(Char), NEW base \in Bases, ~(base = 16 /\ Prefixed(s)),
           NEW v, v = Value(s, base, DigitRun(s, base)),
           DigitRun(s, base) # 0, v \in Unsigned
    PROVE  Scan(s, base) = Parsed(v)
<1> DEFINE n == DigitRun(s, base)
           max == Power(2, LongBits) - 1
           m == Power(2, Bits)
<1>1. n \in Nat \ {0} /\ Figured(s, base, n)
  BY DigitRunIs, LenProperties
<1>2. s[1] \notin {Minus, Plus} /\ Trimmed(s) = s
  BY <1>1, FirstDigit, Untrimmed
<1>3. v \in Nat /\ max \in Nat /\ v <= max /\ m \in Nat \ {0} /\ v \in 0..(m - 1)
  BY WidthsAre DEF Unsigned
<1>4. Magnitude(s, base) = [parsed |-> TRUE, value |-> v]
  BY <1>1, MagnitudeIs DEF Parsed
<1>5. Bare(Trimmed(s)) = s /\ ~Negative(Trimmed(s))
  BY <1>2 DEF Bare, Negative
<1>6. Scan(s, base) = [parsed |-> TRUE,
                       value |-> (IF v > max THEN max ELSE v % (max + 1)) % m]
  BY <1>4, <1>5, ScanIs
<1> HIDE DEF m, max
<1>7. v % (max + 1) = v /\ v % m = v /\ ~(v > max)
  BY <1>3
<1>8. (IF v > max THEN max ELSE v % (max + 1)) % m = v
  BY <1>7
<1> QED
  BY <1>6, <1>8 DEF Parsed

LEMMA ScanBase2Digits ==
    ASSUME NEW s \in Seq(Char), DigitRun(s, 2) # 0, DigitRun(s, 2) <= Bits
    PROVE  ScanBase2(s) = Parsed(Value(s, 2, DigitRun(s, 2)))
<1> DEFINE n == DigitRun(s, 2)
           w == Smaller(Len(s), Bits)
           t == SubSeq(s, 1, w)
<1>1. /\ n \in 0..Len(s) /\ Figured(s, 2, n) /\ n <= Bits
      /\ n < Len(s) => s[n + 1] \notin Digits(2)
      /\ Len(s) \in Nat /\ Bits \in Nat
  BY DigitRunIs, LenProperties, WidthsAre
<1>2. w \in 0..Len(s) /\ n <= w
  BY <1>1 DEF Smaller
<1>3. t \in Seq(Char) /\ Len(t) = w /\ \A k \in 1..w : t[k] = s[k]
  BY <1>1, <1>2, SubSeqProperties
<1>4. ScanBase2(s) = IF DigitRun(t, 2) = 0 THEN Unparsed
                     ELSE Parsed(Value(s, 2, DigitRun(t, 2)))
  BY DEF ScanBase2
<1> HIDE DEF n, w, t
<1>5. Figured(t, 2, n) /\ (n < Len(t) => t[n + 1] \notin Digits(2)) /\ n \in 0..Len(t)
  BY <1>1, <1>2, <1>3 DEF Figured
<1>6. DigitRun(t, 2) = n
  BY <1>3, <1>5, DigitRunUnique
<1> QED
  BY <1>4, <1>6 DEF n

LEMMA ReadBackU32 ==
    ASSUME NEW x \in Unsigned, NEW base \in Bases, NEW s, s \in Seq(Char),
           s = IF base = 2 THEN Figures(x, 2, Bits) ELSE Numeral(x, base)
    PROVE  ScanIn(s, base) = Parsed(x) /\ s # <<>>
<1>1. x \in 0..(Power(2, Bits) - 1) /\ x \in Nat /\ Bits \in Nat \ {0}
  BY WidthsAre DEF Unsigned
<1>2. CASE base = 2
  <2>1. 2 \in Bases /\ s = Figures(x, 2, Bits)
    BY <1>2
  <2>2. Len(s) = Bits /\ Figured(s, 2, Bits) /\ Value(s, 2, Bits) = x
    <3>1. Len(s) = Bits
      BY <1>1, <2>1, FiguresAre
    <3>2. Figured(s, 2, Bits)
      BY <1>1, <2>1, FiguresAreDigits
    <3>3. Value(Figures(x, 2, Bits), 2, Bits) = x
      BY <1>1, <2>1, ValueOfFigures
    <3> QED
      BY <2>1, <3>1, <3>2, <3>3
  <2>3. DigitRun(s, 2) = Bits
    BY <1>1, <2>2, DigitRunUnique
  <2>4. ScanBase2(s) = Parsed(x)
    BY <1>1, <2>2, <2>3, ScanBase2Digits
  <2> QED
    BY <1>1, <1>2, <2>2, <2>4 DEF ScanIn
<1>3. CASE base # 2
  <2> DEFINE n == Len(s)
  <2>1. n \in Nat \ {0} /\ Figured(s, base, n) /\ Value(s, base, n) = x
    BY <1>1, <1>3, NumeralType
  <2>2. DigitRun(s, base) = n
    BY <2>1, DigitRunUnique
  <2>3. ~Prefixed(s)
    <3>1. n >= 2 => ~Prefixed(s)
      BY <2>1, FirstDigit
    <3> QED
      BY <2>1, <3>1 DEF Prefixed
  <2>4. Scan(s, base) = Parsed(x)
    BY <2>1, <2>2, <2>3, ScanDigits
  <2> QED
    BY <1>3, <2>1, <2>4 DEF ScanIn
<1> QED
  BY <1>2, <1>3

LEMMA ReadBack32 ==
    ASSUME NEW x \in Signed, NEW s, s = SignedNumeral(x)
    PROVE  ScanSigned(s) = Parsed(x) /\ s # <<>>
<1> DEFINE a == IF x < 0 THEN -x ELSE x
           u == Numeral(a, 10)
           n == Len(u)
           limit == Power(2, LongBits - 1)
<1>1. /\ a \in 0..(Power(2, Bits) - 1) /\ 10 \in Bases
      /\ x \in Int
      /\ s \in Seq(Char \ {0})
  BY SignedNumeralType, WidthsAre, SMTT(30) DEF Bases, Signed
<1>2. /\ u \in Seq(Char \ {0}) /\ n \in Nat \ {0} /\ Figured(u, 10, n)
      /\ Value(u, 10, n) = a
  BY <1>1, NumeralType
<1>3. s = IF x < 0 THEN <<Minus>> \o u ELSE u
  BY DEF SignedNumeral
<1> HIDE DEF u
<1>4. DigitRun(u, 10) = n /\ u[1] \notin {Minus, Plus} /\ u[1] \notin Space
  BY <1>1, <1>2, DigitRunUnique, FirstDigit
<1>5. s # <<>> /\ (Negative(s) <=> x < 0) /\ u = Bare(s) /\ s[1] \notin Space
  <2>1. CASE x < 0
    <3> DEFINE m == <<Minus>>
    <3>1. m \in Seq(Char \ {0}) /\ Len(m) = 1 /\ m[1] = Minus
      BY DEF Minus, Char
    <3>2. s = m \o u
      BY <1>3, <2>1
    <3> HIDE DEF m
    <3>3. /\ s \in Seq(Char \ {0}) /\ Len(s) = 1 + n /\ s[1] = m[1]
          /\ \A k \in 1..n : s[k + 1] = u[k]
      <4>1. /\ Len(m \o u) = Len(m) + Len(u)
            /\ \A i \in 1..(Len(m) + Len(u)) :
                  (m \o u)[i] = IF i <= Len(m) THEN m[i] ELSE u[i - Len(m)]
        BY <1>2, <3>1, ConcatProperties
      <4>2. \A k \in 1..n : k + 1 \in 1..(1 + n) /\ ~(k + 1 <= 1) /\ (k + 1) - 1 = k
        BY <1>2
      <4>3. 1 \in 1..(1 + n)
        BY <1>2
      <4> QED
        BY <1>1, <1>2, <3>1, <3>2, <4>1, <4>2, <4>3
    <3>4. s # <<>> /\ Negative(s) /\ s[1] \in {Minus, Plus} /\ s[1] \notin Space
      BY <1>2, <3>1, <3>3 DEF Negative, Minus, Space
    <3>5. Tail(s) = u
      <4>1. Tail(s) \in Seq(Char \ {0}) /\ Len(Tail(s)) = n
            /\ \A k \in 1..n : Tail(s)[k] = s[k + 1]
        BY <1>2, <3>3, <3>4
      <4> QED
        BY <1>2, <3>3, <4>1, SeqEqual
    <3> QED
      BY <2>1, <3>4, <3>5 DEF Bare
  <2>2. CASE ~(x < 0)
    BY <1>2, <1>3, <1>4, <2>2 DEF Bare, Negative
  <2> QED
    BY <2>1, <2>2
<1>6. /\ a \in Nat /\ limit \in Nat
      /\ x < 0 => a <= limit
      /\ ~(x < 0) => a <= limit - 1
  BY <1>1, WidthsAre, SMTT(30) DEF Signed
<1>7. a = IF x < 0 THEN -x ELSE x
  OBVIOUS
<1> HIDE DEF a, limit, n
<1>8. Magnitude(u, 10) = [parsed |-> TRUE, value |-> a]
  <2>1. DigitRun(u, 10) # 0 /\ a = Value(u, 10, DigitRun(u, 10)) /\ ~(10 = 16)
    BY <1>2, <1>4
  <2> QED
    BY <2>1, MagnitudeIs DEF Parsed
<1>9. Trimmed(s) = s
  <2>1. s \in Seq(Char)
    <3>1. \A k \in 1..Len(s) : s[k] \in Char
      BY <1>1
    <3> QED
      BY <1>1, <3>1
  <2> QED
    BY <1>5, <2>1, Untrimmed
<1>10. ScanSigned(s) =
          [parsed |-> TRUE, value |-> Wrapped(IF Negative(s) THEN -Smaller(a, limit)
                                              ELSE Smaller(a, limit - 1))]
  <2>1. Magnitude(Bare(Trimmed(s)), 10) = [parsed |-> TRUE, value |-> a]
    BY <1>5, <1>8, <1>9
  <2> QED
    BY <1>9, <2>1, ScanSignedIs DEF limit
<1>11. (IF Negative(s) THEN -Smaller(a, limit) ELSE Smaller(a, limit - 1)) = x
  BY <1>1, <1>5, <1>6, <1>7 DEF Smaller
<1>12. Wrapped(IF Negative(s) THEN -Smaller(a, limit) ELSE Smaller(a, limit - 1)) = x
  BY <1>11, WrappedIs
<1> QED
  BY <1>5, <1>10, <1>12 DEF Parsed

LEMMA RoundTripStep ==
    ASSUME ArrayInv, HoldsInv, Next
    PROVE  RoundTrip'
<1> SUFFICES ASSUME holds' # NULL, holds'.whole
             PROVE  /\ call'.f = "RTStringToU32" /\ holds'.f = "RTU32ToString"
                          /\ call'.base = holds'.base => call'.ret = Parsed(holds'.x)
                    /\ call'.f = "RTStringTo32" /\ holds'.f = "RT32ToString" =>
                          call'.ret = Parsed(holds'.x)
  BY DEF RoundTrip
<1> DEFINE s == Text(buffer)
<1>1. s \in Seq(Char)
  <2>1. s \in Seq(Char \ {0})
    BY TextIs DEF ArrayInv, CharInv
  <2>2. \A k \in 1..Len(s) : s[k] \in Char
    BY <2>1
  <2> HIDE DEF s
  <2> QED
    BY <2>1, <2>2
<1>2. ASSUME call'.f = "RTStringToU32", holds'.f = "RTU32ToString",
             call'.base = holds'.base
      PROVE  call'.ret = Parsed(holds'.x)
  <2>1. PICK base \in RTBase : RTStringToU32(base)
    BY <1>2, NextNames DEF CallIs
  <2>2. /\ UNCHANGED <<buffer, holds>> /\ call'.base = base
        /\ call'.ret = IF s = <<>> THEN Unparsed
                       ELSE IF base = RTBASE_AUTO
                       THEN ScanIn(From(s, Guess(s).skip + 1), Guess(s).base)
                       ELSE ScanIn(s, base)
    BY <1>2, <2>1 DEF RTStringToU32, Panic
  <2>3. s = Whole(holds) /\ holds.x \in Unsigned /\ holds.base \in Bases /\ base = holds.base
    BY <1>2, <2>2 DEF HoldsInv
  <2>4. s = IF base = 2 THEN Figures(holds.x, 2, Bits) ELSE Numeral(holds.x, base)
    BY <1>2, <2>2, <2>3 DEF Whole
  <2> HIDE DEF s
  <2>5. ScanIn(s, base) = Parsed(holds.x) /\ s # <<>>
    BY <1>1, <2>3, <2>4, ReadBackU32
  <2>6. base # RTBASE_AUTO
    BY <2>3 DEF Bases, RTBASE_AUTO
  <2> QED
    BY <2>2, <2>5, <2>6
<1>3. ASSUME call'.f = "RTStringTo32", holds'.f = "RT32ToString"
      PROVE  call'.ret = Parsed(holds'.x)
  <2>1. RTStringTo32
    BY <1>3, NextNames DEF CallIs
  <2>2. /\ UNCHANGED <<buffer, holds>>
        /\ call'.ret = IF s = <<>> THEN Unparsed ELSE ScanSigned(s)
    BY <1>3, <2>1 DEF RTStringTo32, Panic
  <2>3. s = Whole(holds) /\ holds.x \in Signed
    BY <1>3, <2>2 DEF HoldsInv
  <2>4. s = SignedNumeral(holds.x)
    BY <1>3, <2>2, <2>3 DEF Whole
  <2> HIDE DEF s
  <2>5. ScanSigned(s) = Parsed(holds.x) /\ s # <<>>
    BY <2>3, <2>4, ReadBack32
  <2> QED
    BY <2>2, <2>5
<1> QED
  BY <1>2, <1>3

(* A number printed whole is read back as the same number, in its base,    *)
(* whatever calls came in between and whatever lies behind the terminator  *)
(* (rtplf.c:97-226): every number of the type, at every width.             *)
THEOREM RoundTripCorrect == Spec => []RoundTrip
<1>1. Init => RoundTrip
  BY DEF Init, RoundTrip
<1>2. ArrayInv /\ (HoldsInv /\ PrintedIsCounted) /\ RoundTrip /\ [Next]_vars => RoundTrip'
  <2> SUFFICES ASSUME ArrayInv, HoldsInv, RoundTrip, [Next]_vars PROVE RoundTrip'
    OBVIOUS
  <2>1. CASE UNCHANGED vars
    BY <2>1 DEF vars, RoundTrip
  <2>2. CASE Next
    BY <2>2, RoundTripStep
  <2> QED
    BY <2>1, <2>2
<1> QED
  BY <1>1, <1>2, ArrayInvariance, HoldsInvariance, PTL DEF Spec

(***************************************************************************)
(* Comparing.                                                              *)
(***************************************************************************)

(* The first place where two strings differ, one ending being a difference. *)
LEMMA DifferenceIs ==
    ASSUME NEW s \in Seq(Char), NEW t \in Seq(Char)
    PROVE  LET k == Difference(s, t)
           IN  /\ k \in 1..(Len(s) + 1) /\ k \in 1..(Len(t) + 1)
               /\ \A i \in 1..(k - 1) : s[i] = t[i]
               /\ k > Len(s) \/ k > Len(t) \/ s[k] # t[k]
<1> DEFINE n == Smaller(Len(s), Len(t))
           Differs(k) == k > Len(s) \/ k > Len(t) \/ s[k] # t[k]
           P(k) == SubSeq(s, 1, k - 1) = SubSeq(t, 1, k - 1) /\ Differs(k)
           T == {k \in 1..(n + 1) : Differs(k)}
<1>1. Len(s) \in Nat /\ Len(t) \in Nat
  BY LenProperties
<1>2. n \in Nat /\ n <= Len(s) /\ n <= Len(t) /\ (n = Len(s) \/ n = Len(t))
  BY <1>1 DEF Smaller
<1> HIDE DEF n
<1>3. ASSUME NEW k \in 1..(n + 1)
      PROVE  SubSeq(s, 1, k - 1) = SubSeq(t, 1, k - 1)
                <=> \A i \in 1..(k - 1) : s[i] = t[i]
  <2>1. k - 1 \in Nat /\ k - 1 <= Len(s) /\ k - 1 <= Len(t)
    BY <1>2
  <2> DEFINE l == k - 1
  <2> HIDE DEF l
  <2>2. l \in Nat /\ l <= Len(s) /\ l <= Len(t)
    BY <2>1 DEF l
  <2>3. /\ SubSeq(s, 1, l) = [i \in 1..l |-> s[i]]
        /\ SubSeq(t, 1, l) = [i \in 1..l |-> t[i]]
    BY <1>1, <2>2
  <2> QED
    BY <2>3 DEF l
<1>4. \E k \in 1..(n + 1) : P(k)
  <2>1. n + 1 \in T
    BY <1>1, <1>2
  <2>2. \E k \in T : \A j \in T : ~(j < k)
    <3>1. T \subseteq Nat
      BY <1>2
    <3> HIDE DEF T
    <3>2. \E k \in T : \A j \in T : ~(<<j, k>> \in OpToRel(<, Nat))
      BY <2>1, <3>1, NatLessThanWellFounded, WFMin
    <3> QED
      BY <3>1, <3>2 DEF OpToRel
  <2>3. PICK k \in T : \A j \in T : ~(j < k)
    BY <2>2
  <2>4. k \in 1..(n + 1) /\ Differs(k)
    OBVIOUS
  <2>5. \A i \in 1..(k - 1) : i \in 1..(n + 1) /\ i < k
    BY <1>2, <2>4
  <2>6. \A i \in 1..(k - 1) : ~Differs(i)
    <3> HIDE DEF Differs
    <3> QED
      BY <2>3, <2>5
  <2>7. \A i \in 1..(k - 1) : s[i] = t[i]
    BY <2>6
  <2>8. P(k)
    BY <1>3, <2>4, <2>7
  <2> QED
    BY <2>4, <2>8
<1>5. Difference(s, t) = CHOOSE k \in 1..(n + 1) : P(k)
  BY DEF Difference, n
<1> DEFINE k == Difference(s, t)
<1> HIDE DEF P
<1>6. k \in 1..(n + 1) /\ P(k)
  BY <1>4, <1>5
<1> HIDE DEF k
<1>7. \A i \in 1..(k - 1) : s[i] = t[i]
  BY <1>3, <1>6 DEF P
<1>8. k \in 1..(Len(s) + 1) /\ k \in 1..(Len(t) + 1)
  BY <1>1, <1>2, <1>6
<1> QED
  BY <1>6, <1>7, <1>8 DEF P, k

LEMMA ComparisonsAre ==
    ASSUME NEW m1, NEW m2, NEW k \in Nat, k \in Differences(m1, m2),
           \A d \in Differences(m1, m2) : d \in Nat /\ k <= d
    PROVE  Comparisons(m1, m2) = {Order(m1, m2, k)}
<1> DEFINE D == Differences(m1, m2)
           F == {d \in D : \A j \in D : d <= j}
<1>1. F = {k}
  <2>1. k \in F
    OBVIOUS
  <2>2. \A d \in F : d = k
    <3> TAKE d \in F
    <3>1. d \in D /\ d <= k /\ k <= d /\ d \in Nat
      OBVIOUS
    <3> QED
      BY <3>1
  <2> HIDE DEF F
  <2> QED
    BY <2>1, <2>2
<1>2. D # {}
  OBVIOUS
<1>3. Comparisons(m1, m2) = {Order(m1, m2, d) : d \in F} \cup {v \in {-1, 1} : D = {}}
  BY DEF Comparisons
<1> HIDE DEF F, D
<1> QED
  BY <1>1, <1>2, <1>3

LEMMA CharsAreNumbers == \A c \in Char \ {0} : c \in Nat /\ 0 < c /\ ~(c < 0)
  BY DEF Char

(* The first char in which the array differs from another string is the    *)
(* first in which the two strings do.                                      *)
LEMMA FirstDifference ==
    ASSUME NEW m \in [1..Room -> Char], Ends(m), NEW t \in Seq(Char \ {0}),
           NEW o, o = t \o <<NUL>>, t # Text(m),
           NEW k, k = Difference(Text(m), t)
    PROVE  /\ k \in Nat /\ k \in Differences(m, o)
           /\ \A d \in Differences(m, o) : d \in Nat /\ k <= d
           /\ m[k] \in Nat /\ o[k] \in Nat
           /\ Precedes(Text(m), t) <=> m[k] < o[k]
<1> DEFINE s == Text(m)
<1>1. /\ s \in Seq(Char \ {0}) /\ Len(s) \in 0..(Room - 1)
      /\ \A i \in 1..Len(s) : s[i] = m[i]
      /\ m[Len(s) + 1] = NUL
      /\ Room \in Nat
  BY TextIs, PlfAssumption
<1> HIDE DEF s
<1>2. /\ Len(s) \in Nat /\ Len(t) \in Nat
      /\ \A i \in 1..Len(s) : s[i] \in Char \ {0}
      /\ \A i \in 1..Len(t) : t[i] \in Char \ {0}
  BY <1>1, LenProperties, ElementOfSeq
<1>3. s \in Seq(Char) /\ t \in Seq(Char)
  BY <1>1, <1>2
<1>4. DOMAIN o = 1..(Len(t) + 1) /\ o[Len(t) + 1] = NUL /\ \A i \in 1..Len(t) : o[i] = t[i]
  <2> DEFINE e == <<NUL>>
  <2>1. e \in Seq(Char) /\ Len(e) = 1 /\ e[1] = NUL
    BY DEF NUL, Char
  <2>2. o = t \o e
    OBVIOUS
  <2> HIDE DEF e
  <2>3. /\ o \in Seq(Char) /\ Len(o) = Len(t) + Len(e)
        /\ \A i \in 1..(Len(t) + Len(e)) :
              o[i] = IF i <= Len(t) THEN t[i] ELSE e[i - Len(t)]
    BY <1>3, <2>1, <2>2, ConcatProperties
  <2>4. DOMAIN o = 1..(Len(t) + 1)
    BY <2>1, <2>3, LenProperties
  <2>5. Len(t) + 1 \in 1..(Len(t) + Len(e)) /\ ~(Len(t) + 1 <= Len(t))
        /\ (Len(t) + 1) - Len(t) = 1
    BY <1>2, <2>1
  <2>6. \A i \in 1..Len(t) : i \in 1..(Len(t) + Len(e)) /\ i <= Len(t)
    BY <1>2, <2>1
  <2> QED
    BY <2>1, <2>3, <2>4, <2>5, <2>6
<1>5. /\ k \in 1..(Len(s) + 1) /\ k \in 1..(Len(t) + 1)
      /\ \A i \in 1..(k - 1) : s[i] = t[i]
      /\ k > Len(s) \/ k > Len(t) \/ s[k] # t[k]
  BY <1>3, DifferenceIs DEF s
<1>6. \A i \in 1..(k - 1) : m[i] = o[i]
  <2>1. \A i \in 1..(k - 1) : i \in 1..Len(s) /\ i \in 1..Len(t)
    BY <1>2, <1>5
  <2> QED
    BY <1>1, <1>4, <1>5, <2>1
<1>7. DOMAIN m = 1..Room /\ k \in 1..Room /\ k \in DOMAIN o /\ k \in Nat
  BY <1>1, <1>2, <1>4, <1>5
<1>8. \A d \in Differences(m, o) : d \in Nat /\ k <= d
  <2> TAKE d \in Differences(m, o)
  <2>1. d \in 1..Room /\ m[d] # o[d]
    BY <1>7 DEF Differences
  <2>2. ~(d < k)
    BY <1>1, <1>6, <1>7, <2>1
  <2> QED
    BY <1>1, <1>7, <2>1, <2>2
<1>9. Precedes(s, t) <=> k > Len(s) \/ (k <= Len(t) /\ s[k] < t[k])
  BY DEF Precedes, s
<1>10. CASE k > Len(s)
  <2>1. k = Len(s) + 1 /\ m[k] = 0
    BY <1>1, <1>2, <1>5, <1>10 DEF NUL
  <2>2. ~(k > Len(t))
    <3> SUFFICES ASSUME k > Len(t) PROVE FALSE
      OBVIOUS
    <3>1. Len(s) = Len(t) /\ \A i \in 1..Len(s) : s[i] = t[i]
      BY <1>2, <1>5, <2>1
    <3>2. s = t
      BY <1>3, <3>1, SeqEqual
    <3> QED
      BY <3>2 DEF s
  <2>3. k \in 1..Len(t) /\ o[k] \in Char \ {0}
    BY <1>2, <1>4, <1>5, <2>2
  <2>4. m[k] < o[k] /\ m[k] \in Nat /\ o[k] \in Nat
    BY <2>1, <2>3, CharsAreNumbers
  <2> QED
    BY <1>7, <1>8, <1>9, <1>10, <2>4 DEF Differences, s
<1>11. CASE ~(k > Len(s)) /\ k > Len(t)
  <2>1. k = Len(t) + 1 /\ o[k] = 0
    BY <1>2, <1>4, <1>5, <1>11 DEF NUL
  <2>2. k \in 1..Len(s) /\ m[k] \in Char \ {0}
    BY <1>1, <1>2, <1>5, <1>11
  <2>3. o[k] < m[k] /\ m[k] \in Nat /\ o[k] \in Nat /\ ~(m[k] < o[k])
    BY <2>1, <2>2, CharsAreNumbers
  <2>4. ~(k <= Len(t))
    BY <1>2, <1>7, <1>11
  <2> QED
    BY <1>7, <1>8, <1>9, <1>11, <2>3, <2>4 DEF Differences, s
<1>12. CASE ~(k > Len(s)) /\ ~(k > Len(t))
  <2>1. k \in 1..Len(s) /\ k \in 1..Len(t) /\ k <= Len(t)
    BY <1>2, <1>5, <1>12
  <2>2. m[k] = s[k] /\ o[k] = t[k] /\ s[k] # t[k]
    BY <1>1, <1>4, <1>5, <1>12, <2>1
  <2>3. m[k] \in Nat /\ o[k] \in Nat
    BY <1>2, <2>1, <2>2, CharsAreNumbers
  <2> QED
    BY <1>7, <1>8, <1>9, <1>12, <2>1, <2>2, <2>3 DEF Differences, s
<1> QED
  BY <1>10, <1>11, <1>12

LEMMA ComparesStep ==
    ASSUME ArrayInv, Next
    PROVE  ComparesInOrder'
<1> SUFFICES ASSUME call'.f \in {"RTStrcmp", "RTStrncmp"}, call'.n > 0,
                    call'.s # NULL, call'.s # Text(buffer')
             PROVE  call'.ret = IF Precedes(Text(buffer'), call'.s) <=> call'.first
                                THEN -1 ELSE 1
  BY DEF ComparesInOrder, Compared, Distinct
<1>1. PICK t \in Strings \cup {NULL}, first \in BOOLEAN, n \in Nat :
            Compare(call'.f, t, first, n)
  BY NextNames DEF CallIs
<1> DEFINE o == IF t = NULL THEN <<>> ELSE t \o <<NUL>>
           results == IF n = 0 THEN {0}
                      ELSE IF t = NULL THEN {IF first THEN 1 ELSE -1}
                      ELSE IF first THEN Comparisons(buffer, o)
                      ELSE Comparisons(o, buffer)
<1>2. /\ UNCHANGED <<buffer, holds>>
      /\ \E r \in results :
            call' = [f |-> call'.f, s |-> t, first |-> first, n |-> n, ret |-> r]
  BY <1>1 DEF Compare, Panic
<1> HIDE DEF results
<1>3. /\ call'.ret \in results /\ call'.s = t /\ call'.first = first /\ call'.n = n
      /\ buffer' = buffer
  BY <1>2
<1>4. t # NULL /\ n # 0 /\ t # Text(buffer) /\ t \in Seq(Char \ {0})
  BY <1>3, PlfAssumption
<1>5. o = t \o <<NUL>>
  BY <1>4
<1>6. results = IF first THEN Comparisons(buffer, o) ELSE Comparisons(o, buffer)
  BY <1>4 DEF results
<1> HIDE DEF o
<1> DEFINE k == Difference(Text(buffer), t)
           less == Precedes(Text(buffer), t)
<1>7. /\ k \in Nat /\ k \in Differences(buffer, o)
      /\ \A d \in Differences(buffer, o) : d \in Nat /\ k <= d
      /\ buffer[k] \in Nat /\ o[k] \in Nat
      /\ less <=> buffer[k] < o[k]
  BY <1>4, <1>5, FirstDifference DEF ArrayInv, CharInv
<1> HIDE DEF k, less
<1>8. Differences(o, buffer) = Differences(buffer, o) /\ buffer[k] # o[k]
  BY <1>7 DEF Differences
<1>9. CASE first
  <2>1. results = {Order(buffer, o, k)}
    BY <1>6, <1>7, <1>9, ComparisonsAre
  <2>2. call'.ret = IF less THEN -1 ELSE 1
    BY <1>3, <1>7, <2>1 DEF Order
  <2> QED
    BY <1>3, <1>9, <2>2 DEF less
<1>10. CASE ~first
  <2>1. results = {Order(o, buffer, k)}
    BY <1>6, <1>7, <1>8, <1>10, ComparisonsAre
  <2>2. o[k] < buffer[k] <=> ~less
    BY <1>7, <1>8
  <2>3. call'.ret = IF less THEN 1 ELSE -1
    BY <1>3, <2>1, <2>2 DEF Order
  <2> QED
    BY <1>3, <1>10, <2>3 DEF less
<1> QED
  BY <1>9, <1>10

(* RTStrcmp and RTStrncmp order two different strings by the first char in *)
(* which they differ, the terminator being the smallest, whichever of the  *)
(* two is the array and whatever lies behind its text, when that char is   *)
(* one of those to compare (rtplf.c:282-341).                              *)
THEOREM ComparesInOrderCorrect == Spec => []ComparesInOrder
<1>1. Init => ComparesInOrder
  BY DEF Init, ComparesInOrder, Compared
<1>2. ArrayInv /\ ComparesInOrder /\ [Next]_vars => ComparesInOrder'
  <2> SUFFICES ASSUME ArrayInv, ComparesInOrder, [Next]_vars PROVE ComparesInOrder'
    OBVIOUS
  <2>1. CASE UNCHANGED vars
    BY <2>1 DEF vars, ComparesInOrder, Compared, Distinct
  <2>2. CASE Next
    BY <2>2, ComparesStep
  <2> QED
    BY <2>1, <2>2
<1> QED
  BY <1>1, <1>2, ArrayInvariance, PTL DEF Spec

(***************************************************************************)
(* Reading numbers in any base.                                            *)
(***************************************************************************)

LEMMA ReadsGiven ==
    ASSUME NEW s \in Seq(Char), NEW base \in Bases, DigitRun(s, base) > 0,
           Value(s, base, DigitRun(s, base)) < Power(2, Bits),
           base = 2 => DigitRun(s, base) <= Bits,
           base = 16 => ~Prefixed(s)
    PROVE  ScanIn(s, base) = Parsed(Value(s, base, DigitRun(s, base)))
<1> DEFINE n == DigitRun(s, base)
           v == Value(s, base, n)
<1>1. n \in 0..Len(s) /\ Figured(s, base, n) /\ Len(s) \in Nat
  BY DigitRunIs, LenProperties
<1>2. n \in Nat /\ n # 0
  BY <1>1
<1>3. v \in Unsigned
  <2>1. base \in Nat \ {0}
    BY DEF Bases
  <2>2. v \in 0..(Power(base, n) - 1) /\ Power(base, n) \in Nat
    BY <1>1, <1>2, <2>1, ValueBound, PowerType
  <2> QED
    BY <2>2, WidthsAre DEF Unsigned
<1>4. CASE base = 2
  BY <1>2, <1>4, ScanBase2Digits DEF ScanIn
<1>5. CASE base # 2
  BY <1>2, <1>3, <1>5, ScanDigits DEF ScanIn
<1> QED
  BY <1>4, <1>5

LEMMA ReadsFrom ==
    ASSUME NEW s \in Seq(Char), NEW base \in Bases, NEW skip \in Nat, NEW ret,
           ret = ScanIn(From(s, skip + 1), base)
    PROVE  ReadsDigits(s, [base |-> base, skip |-> skip], ret)
<1> DEFINE digits == From(s, skip + 1)
<1>1. digits \in Seq(Char)
  BY FromType
<1> HIDE DEF digits
<1>2. ReadsDigits(s, [base |-> base, skip |-> skip], ret) <=>
         (/\ DigitRun(digits, base) > 0
          /\ Value(digits, base, DigitRun(digits, base)) < Power(2, Bits)
          /\ base = 2 => DigitRun(digits, base) <= Bits
          /\ base = 16 => ~Prefixed(digits)
          => ret = Parsed(Value(digits, base, DigitRun(digits, base))))
  BY DEF ReadsDigits, digits
<1>3. ret = ScanIn(digits, base)
  BY DEF digits
<1> QED
  BY <1>1, <1>2, <1>3, ReadsGiven

(* The 0 that makes a number octal is one of its digits or is not. *)
LEMMA ReadsOctal ==
    ASSUME NEW s \in Seq(Char), s # <<>>, s[1] = Zero, NEW ret,
           ret = ScanIn(From(s, 2), 8), DigitRun(Tail(s), 8) # 0
    PROVE  ReadsDigits(s, [base |-> 8, skip |-> 0], ret)
<1> DEFINE t == Tail(s)
           m == DigitRun(t, 8)
<1>1. /\ From(s, 1) = s /\ From(s, 2) = t /\ t \in Seq(Char) /\ Len(t) = Len(s) - 1
      /\ Len(s) \in Nat \ {0} /\ \A k \in 1..Len(t) : t[k] = s[1 + k]
  BY FromIs
<1> HIDE DEF t
<1>2. /\ m \in 0..Len(t) /\ Figured(t, 8, m)
      /\ m < Len(t) => t[m + 1] \notin Digits(8)
  BY <1>1, DigitRunIs
<1>3. m \in Nat \ {0} /\ 8 \in Bases
  BY <1>1, <1>2 DEF Bases, t
<1> HIDE DEF m
<1>4. \A k \in 1..m : s[1 + k] = t[k]
  BY <1>1, <1>2
<1>5. Figured(s, 8, 1 + m) /\ Value(s, 8, 1 + m) = Value(t, 8, m)
  BY <1>2, <1>3, <1>4, ValueShifted
<1>6. DigitRun(s, 8) = 1 + m
  <2>1. 1 + m \in 0..Len(s)
    BY <1>1, <1>2, <1>3
  <2>2. 1 + m < Len(s) => s[(1 + m) + 1] \notin Digits(8)
    <3> SUFFICES ASSUME 1 + m < Len(s) PROVE s[(1 + m) + 1] \notin Digits(8)
      OBVIOUS
    <3>1. m < Len(t) /\ m + 1 \in 1..Len(t) /\ 1 + (m + 1) = (1 + m) + 1
      BY <1>1, <1>3
    <3>2. t[m + 1] = s[1 + (m + 1)]
      BY <1>1, <3>1
    <3> QED
      BY <1>2, <3>1, <3>2
  <2> QED
    BY <1>5, <2>1, <2>2, DigitRunUnique
<1>7. ReadsDigits(s, [base |-> 8, skip |-> 0], ret) <=>
         (/\ DigitRun(s, 8) > 0
          /\ Value(s, 8, DigitRun(s, 8)) < Power(2, Bits)
          => ret = Parsed(Value(s, 8, DigitRun(s, 8))))
  BY <1>1 DEF ReadsDigits
<1>8. SUFFICES ASSUME Value(t, 8, m) < Power(2, Bits) PROVE ret = Parsed(Value(t, 8, m))
  BY <1>5, <1>6, <1>7
<1>9. ScanIn(t, 8) = Parsed(Value(t, 8, DigitRun(t, 8)))
  <2>1. m > 0
    BY <1>3
  <2> QED
    BY <1>1, <1>3, <1>8, <2>1, ReadsGiven DEF m
<1> QED
  BY <1>1, <1>9 DEF m

LEMMA ReadsStep ==
    ASSUME ArrayInv, Next
    PROVE  ReadsNumbers'
<1> SUFFICES ASSUME call'.f = "RTStringToU32", Text(buffer') # <<>>,
                    ~(call'.base = RTBASE_AUTO /\ LoneZero(Text(buffer')))
             PROVE  ReadsDigits(Text(buffer'), DocumentedBase(Text(buffer'), call'.base),
                                call'.ret)
  BY DEF ReadsNumbers
<1> DEFINE s == Text(buffer)
<1>1. PICK base \in RTBase : RTStringToU32(base)
  BY NextNames DEF CallIs
<1>2. /\ UNCHANGED <<buffer, holds>> /\ call'.base = base
      /\ call'.ret = IF s = <<>> THEN Unparsed
                     ELSE IF base = RTBASE_AUTO
                     THEN ScanIn(From(s, Guess(s).skip + 1), Guess(s).base)
                     ELSE ScanIn(s, base)
  BY <1>1 DEF RTStringToU32, Panic
<1>3. s \in Seq(Char)
  <2>1. s \in Seq(Char \ {0})
    BY TextIs DEF ArrayInv, CharInv
  <2>2. \A k \in 1..Len(s) : s[k] \in Char
    BY <2>1
  <2> HIDE DEF s
  <2> QED
    BY <2>1, <2>2
<1>4. Text(buffer') = s
  BY <1>2
<1> HIDE DEF s
<1> DEFINE doc == DocumentedBase(s, base)
           ret == call'.ret
<1>5. SUFFICES ReadsDigits(s, doc, ret)
  BY <1>2, <1>4
<1>6. s # <<>> /\ (base = RTBASE_AUTO => ~LoneZero(s))
  BY <1>2, <1>4
<1>7. ret = IF base = RTBASE_AUTO THEN ScanIn(From(s, Guess(s).skip + 1), Guess(s).base)
            ELSE ScanIn(s, base)
  BY <1>2, <1>6
<1> HIDE DEF ret
<1>8. ASSUME base = RTBASE_AUTO, doc = Guess(s)
      PROVE  ReadsDigits(s, doc, ret)
  <2> DEFINE g == Guess(s)
  <2>1. g.base \in Bases /\ g.skip \in 0..2 /\ g = [base |-> g.base, skip |-> g.skip]
    <3>1. g.base \in Bases /\ g.skip \in 0..2
      BY GuessType
    <3>2. g = [base |-> g.base, skip |-> g.skip]
      BY Zenon DEF Guess
    <3> QED
      BY <3>1, <3>2
  <2>2. ret = ScanIn(From(s, g.skip + 1), g.base)
    BY <1>7, <1>8
  <2> HIDE DEF g, doc
  <2>3. g.skip \in Nat
    BY <2>1
  <2>4. ReadsDigits(s, [base |-> g.base, skip |-> g.skip], ret)
    BY <1>3, <2>1, <2>2, <2>3, ReadsFrom
  <2> QED
    BY <1>8, <2>1, <2>4 DEF g
<1>9. CASE base # RTBASE_AUTO
  <2>1. doc = [base |-> base, skip |-> 0] /\ base \in Bases
    BY <1>9 DEF DocumentedBase, RTBase, Bases, RTBASE_AUTO
  <2> HIDE DEF doc
  <2>2. ret = ScanIn(From(s, 0 + 1), base)
    BY <1>3, <1>7, <1>9, FromIs
  <2> QED
    BY <1>3, <2>1, <2>2, ReadsFrom
<1>10. CASE base = RTBASE_AUTO /\ Prefixed(s)
  <2>1. doc = Guess(s)
    BY <1>10 DEF DocumentedBase, Guess
  <2> QED
    BY <1>8, <1>10, <2>1
<1>11. CASE base = RTBASE_AUTO /\ ~Prefixed(s) /\ s[1] = Zero
  <2>1. DigitRun(Tail(s), 8) # 0
    BY <1>6, <1>11 DEF LoneZero
  <2>2. /\ Tail(s) \in Seq(Char) /\ Len(Tail(s)) = Len(s) - 1 /\ Len(s) \in Nat \ {0}
        /\ \A k \in 1..Len(Tail(s)) : Tail(s)[k] = s[1 + k]
    BY <1>3, <1>6, FromIs
  <2>3. Len(s) > 1 /\ s[2] \in Digits(10)
    <3> DEFINE t == Tail(s)
               m == DigitRun(t, 8)
    <3>1. m \in 0..Len(t) /\ Figured(t, 8, m)
      BY <2>2, DigitRunIs
    <3> HIDE DEF t, m
    <3>2. m # 0 /\ Len(t) = Len(s) - 1 /\ Len(s) \in Nat \ {0}
      BY <2>1, <2>2 DEF t, m
    <3>3. 1 \in 1..m /\ 1 \in 1..Len(t) /\ Len(s) > 1
      BY <3>1, <3>2
    <3>4. t[1] \in Digits(8)
      BY <3>1, <3>3 DEF Figured
    <3>5. t[1] = s[1 + 1]
      BY <2>2, <3>3 DEF t
    <3>6. s[2] \in Digits(8)
      BY <3>4, <3>5
    <3> QED
      BY <3>3, <3>6 DEF Digits
  <2>4. doc = [base |-> 8, skip |-> 0]
    BY <1>11, <2>3 DEF DocumentedBase
  <2>5. Guess(s) = [base |-> 8, skip |-> 1]
    BY <1>11 DEF Guess
  <2> HIDE DEF doc
  <2>6. ret = ScanIn(From(s, 1 + 1), 8)
    BY <1>7, <1>11, <2>5
  <2> QED
    BY <1>3, <1>6, <1>11, <2>1, <2>4, <2>6, ReadsOctal
<1>12. CASE base = RTBASE_AUTO /\ ~Prefixed(s) /\ s[1] # Zero
  <2>1. doc = Guess(s)
    BY <1>12 DEF DocumentedBase, Guess
  <2> QED
    BY <1>8, <1>12, <2>1
<1> QED
  BY <1>9, <1>10, <1>11, <1>12

(* A number at the start of the text is read as rtplf.h:280-287 says, in   *)
(* the base given or guessed, and what follows it is ignored; but for a    *)
(* lone zero whose base is guessed (rtplf.c:166-226).                      *)
THEOREM ReadsNumbersCorrect == Spec => []ReadsNumbers
<1>1. Init => ReadsNumbers
  BY DEF Init, ReadsNumbers
<1>2. ArrayInv /\ ReadsNumbers /\ [Next]_vars => ReadsNumbers'
  <2> SUFFICES ASSUME ArrayInv, ReadsNumbers, [Next]_vars PROVE ReadsNumbers'
    OBVIOUS
  <2>1. CASE UNCHANGED vars
    BY <2>1 DEF vars, ReadsNumbers
  <2>2. CASE Next
    BY <2>2, ReadsStep
  <2> QED
    BY <2>1, <2>2
<1> QED
  BY <1>1, <1>2, ArrayInvariance, PTL DEF Spec
=============================================================================
