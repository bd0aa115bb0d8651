-------------------------------- MODULE RTPlf --------------------------------
(***************************************************************************)
(* The platform functions on strings and numbers, rtplf.c.                 *)
(*                                                                         *)
(* A program owns an array of char and calls the functions on it in any    *)
(* order: prints numbers into it, copies strings into it, reads numbers    *)
(* out of it, compares it.  The array is longer than most texts, so what   *)
(* an earlier call left behind the terminator is still there.  Each step   *)
(* is one call; `call' keeps its arguments and what it returned.           *)
(*                                                                         *)
(* The 32 bits of a number, the 64 of a long and the 50000 chars of        *)
(* RTSTRMAX are constants.  A char is its ASCII code, a string the         *)
(* sequence of its chars before the terminator.                            *)
(***************************************************************************)
EXTENDS Powers, Integers, Sequences, FiniteSets

CONSTANTS
    Bits, LongBits,     \* of a uint32_t, and of a long
    RTSTRMAX,           \* the longest string, terminator included
    Room, Sizes,        \* the length of the array, and the sizes passed with it
    Numbers,            \* the numbers the program prints
    Strings,            \* the other strings of the program
    Times, Hz,          \* what gettimeofday may say, in ticks; ticks in a second
    NULL

Char == 0..127

ASSUME PlfAssumption ==
    /\ Bits \in Nat \ {0} /\ LongBits \in Nat /\ LongBits >= Bits
    /\ RTSTRMAX \in Nat \ {0} /\ Room \in Nat \ {0}
    /\ Hz \in 1..(Power(2, Bits) - 1)
    /\ Sizes \subseteq 0..Room
    /\ Numbers \subseteq (-(Power(2, Bits - 1)))..(Power(2, Bits) - 1)
    /\ Strings \subseteq Seq(Char \ {0})
    /\ Times \subseteq Nat
    /\ NULL \notin Strings

VARIABLES
    buffer,     \* the array
    call,       \* the last call
    holds       \* history: the number printed into the array, NULL if none

vars == <<buffer, call, holds>>

Unsigned == 0..(Power(2, Bits) - 1)
Signed == (-(Power(2, Bits - 1)))..(Power(2, Bits - 1) - 1)

NUL == 0
Space == {32} \cup 9..13
Plus == 43
Minus == 45
Zero == 48
X == {120, 88}      \* 'x' and 'X'
B == {98, 66}       \* 'b' and 'B'

RTBASE_AUTO == 0
RTBase == {RTBASE_AUTO, 2, 8, 10, 16}

Running == call.f # "RTPanic"
Smaller(a, b) == IF a < b THEN a ELSE b

-----------------------------------------------------------------------------
(* Strings in memory. *)

(* RTStrlen panics when no terminator comes soon enough. *)
TooLong(s) == Len(s) >= RTSTRMAX

TextLen(m) ==
    CHOOSE n \in 0..Len(m) :
        /\ \A k \in 1..n : m[k] # NUL
        /\ n < Len(m) => m[n + 1] = NUL

Text(m) == SubSeq(m, 1, TextLen(m))

(* strncpy of the C library: the rest of the size is filled with zeroes. *)
Strncpy(m, size, s) ==
    [k \in DOMAIN m |-> IF k > size THEN m[k]
                        ELSE IF k <= Len(s) THEN s[k] ELSE NUL]

(* Faulty variant: a string that just fills the size is taken to fit. *)
TruncatedLate(size, s) == Len(s) > size

Truncated(size, s) == Len(s) >= size

(* Faulty variant: a truncated string is left without its terminator. *)
CopiedUnended(m, size, s) == Strncpy(m, size, s)

Copied(m, size, s) ==
    IF Truncated(size, s)
    THEN [Strncpy(m, size, s) EXCEPT ![size] = NUL]
    ELSE Strncpy(m, size, s)

-----------------------------------------------------------------------------
(* Numbers in text. *)

Digit(d) == IF d < 10 THEN 48 + d ELSE 87 + d

(* What is printed in lower case is read in either. *)
Spelt(d) == IF d < 10 THEN {48 + d} ELSE {87 + d, 55 + d}
Digits(base) == UNION {Spelt(d) : d \in 0..(base - 1)}
DigitValue(c) == CHOOSE d \in 0..15 : c \in Spelt(d)

Figures(x, base, n) ==
    [k \in 1..n |-> Digit((x \div Power(base, n - k)) % base)]

(* What sprintf prints with %lu, %lo and %lx, and with %ld. *)
Numeral(x, base) ==
    LET places == {k \in 1..Bits : k = 1 \/ x >= Power(base, k - 1)}
    IN  Figures(x, base, Cardinality(places))

SignedNumeral(x) ==
    IF x < 0 THEN <<Minus>> \o Numeral(-x, 10) ELSE Numeral(x, 10)

(* Faulty variant: the lowest bit comes out first. *)
PrintBase2Reversed(x, size) ==
    LET bits == Figures(x, 2, Bits)
    IN  SubSeq([k \in 1..Bits |-> bits[Bits + 1 - k]], 1, Smaller(Bits, size - 1))

(* rtplfPrintBase2 prints no more digits than fit, and returns all it has. *)
PrintBase2(x, size) ==
    SubSeq(Figures(x, 2, Bits), 1, Smaller(Bits, size - 1))

(* The length of the longest run of chars of a set at the start of s. *)
Run(s, chars) ==
    CHOOSE n \in 0..Len(s) :
        (\A k \in 1..n : s[k] \in chars) /\ ~(n < Len(s) /\ s[n + 1] \in chars)

DigitRun(s, base) == Run(s, Digits(base))

(* The value of the first n digits. *)
Value(s, base, n) ==
    LET v[k \in 0..n] ==
            IF k = 0 THEN 0 ELSE v[k - 1] * base + DigitValue(s[k])
    IN  v[n]

From(s, k) == SubSeq(s, k, Len(s))

Unparsed == [parsed |-> FALSE, value |-> 0]
Parsed(v) == [parsed |-> TRUE, value |-> v]

Prefixed(s) == Len(s) >= 2 /\ s[1] = Zero /\ s[2] \in X

(* sscanf of glibc: white space, a sign, for %lx a "0x", and digits. *)
Trimmed(s) == From(s, Run(s, Space) + 1)
Negative(s) == s # <<>> /\ s[1] = Minus
Bare(s) == IF s # <<>> /\ s[1] \in {Plus, Minus} THEN Tail(s) ELSE s

Magnitude(s, base) ==
    LET hex == base = 16 /\ Prefixed(s)
        digits == IF hex THEN From(s, 3) ELSE s
        n == DigitRun(digits, base)
    IN  IF n = 0 /\ ~hex THEN Unparsed ELSE Parsed(Value(digits, base, n))

(* %lu, %lo and %lx: a number too long for a long is the largest one,      *)
(* whatever its sign; another one is negated modulo the size of a long.    *)
ScanLong(s, base) ==
    LET t == Trimmed(s)
        max == Power(2, LongBits) - 1
        m == Magnitude(Bare(t), base)
    IN  [m EXCEPT !.value = IF @ > max THEN max
                            ELSE (IF Negative(t) THEN -@ ELSE @) % (max + 1)]

(* Faulty variant: the long is not cut to 32 bits. *)
ScanUncut(s, base) == ScanLong(s, base)

Scan(s, base) ==
    LET m == ScanLong(s, base)
    IN  [m EXCEPT !.value = @ % Power(2, Bits)]

Wrapped(v) == ((v + Power(2, Bits - 1)) % Power(2, Bits)) - Power(2, Bits - 1)

(* %ld: a number too long is the largest or the smallest. *)
ScanSigned(s) ==
    LET t == Trimmed(s)
        limit == Power(2, LongBits - 1)
        m == Magnitude(Bare(t), 10)
    IN  [m EXCEPT !.value = Wrapped(IF Negative(t) THEN -Smaller(@, limit)
                                    ELSE Smaller(@, limit - 1))]

(* rtplfScanBase2 looks at as many chars as a number has bits. *)
ScanBase2(s) ==
    LET n == DigitRun(SubSeq(s, 1, Smaller(Len(s), Bits)), 2)
    IN  IF n = 0 THEN Unparsed ELSE Parsed(Value(s, 2, n))

(* Faulty variant: the "b" is not skipped. *)
GuessKeepingB(s) ==
    IF Prefixed(s) THEN [base |-> 16, skip |-> 2]
    ELSE IF s[1] = Zero THEN [base |-> 8, skip |-> 1]
    ELSE [base |-> IF s[1] \in B THEN 2 ELSE 10, skip |-> 0]

(* The base is guessed from the first chars, and those are skipped. *)
Guess(s) ==
    IF Prefixed(s) THEN [base |-> 16, skip |-> 2]
    ELSE IF s[1] = Zero THEN [base |-> 8, skip |-> 1]
    ELSE IF s[1] \in B THEN [base |-> 2, skip |-> 1]
    ELSE [base |-> 10, skip |-> 0]

ScanIn(s, base) == IF base = 2 THEN ScanBase2(s) ELSE Scan(s, base)

-----------------------------------------------------------------------------
(* The calls. *)

Init ==
    /\ buffer = [k \in 1..Room |-> NUL]
    /\ call = [f |-> "none"]
    /\ holds = NULL

(* Faulty variant: the place of the terminator is counted. *)
ClippedLate(n, size) == IF n > size THEN size ELSE n

(* How many of n chars are written when size has to hold the terminator. *)
Clipped(n, size) == IF n >= size THEN size - 1 ELSE n

Panic == call' = [f |-> "RTPanic"] /\ UNCHANGED <<buffer, holds>>

(* RT32ToString and RTU32ToString: text is what sprintf or rtplfPrintBase2  *)
(* leaves in tmp, n the length of the whole numeral.                       *)
WriteNumeral(f, x, base, size, text, n) ==
    /\ Running
    /\ IF size > RTSTRMAX THEN Panic
       ELSE /\ call' = [f |-> f, size |-> size,
                        ret |-> IF size = 0 THEN 0 ELSE Clipped(n, size)]
            /\ IF size = 0 THEN UNCHANGED <<buffer, holds>>
               ELSE /\ buffer' = Copied(buffer, size, text)
                    /\ holds' = [f |-> f, x |-> x, base |-> base, whole |-> n < size]

RT32ToString(x, size) ==
    WriteNumeral("RT32ToString", x, 10, size, SignedNumeral(x), Len(SignedNumeral(x)))

RTU32ToString(x, base, size) ==
    IF base = 2
    THEN WriteNumeral("RTU32ToString", x, 2, size, PrintBase2(x, size), Bits)
    ELSE LET used == IF base = RTBASE_AUTO THEN 10 ELSE base
         IN  WriteNumeral("RTU32ToString", x, used, size, Numeral(x, used),
                   Len(Numeral(x, used)))

RTStringTo32 ==
    /\ Running
    /\ LET s == Text(buffer)
       IN  IF TooLong(s) THEN Panic
           ELSE /\ call' = [f |-> "RTStringTo32",
                            ret |-> IF s = <<>> THEN Unparsed ELSE ScanSigned(s)]
                /\ UNCHANGED <<buffer, holds>>

RTStringToU32(base) ==
    /\ Running
    /\ LET s == Text(buffer)
           g == Guess(s)
       IN  IF TooLong(s) THEN Panic
           ELSE /\ call' = [f |-> "RTStringToU32", base |-> base,
                            ret |-> IF s = <<>> THEN Unparsed
                                    ELSE IF base = RTBASE_AUTO
                                    THEN ScanIn(From(s, g.skip + 1), g.base)
                                    ELSE ScanIn(s, base)]
                /\ UNCHANGED <<buffer, holds>>

RTStrncpy(size, src) ==
    /\ Running
    /\ IF size > RTSTRMAX \/ (size > 0 /\ src # NULL /\ TooLong(src))
       THEN Panic
       ELSE /\ call' = [f |-> "RTStrncpy", size |-> size, src |-> src,
                        ret |-> IF src = NULL THEN size > 0
                                ELSE Truncated(size, src)]
            /\ IF size = 0 THEN UNCHANGED <<buffer, holds>>
               ELSE /\ buffer' = IF src = NULL THEN [buffer EXCEPT ![1] = NUL]
                                 ELSE Copied(buffer, size, src)
                    /\ holds' = NULL

(* The loop of RTStrcmp ends at a difference only: past the end of equal   *)
(* strings it goes on in memory this program says nothing about, until it  *)
(* meets one or RTSTRMAX chars have been compared.  m1 and m2 are the two  *)
(* arrays.                                                                 *)
Differences(m1, m2) == {k \in DOMAIN m1 \cap DOMAIN m2 : m1[k] # m2[k]}

Order(m1, m2, k) == IF m1[k] < m2[k] THEN -1 ELSE 1

(* Faulty variant: a later difference overrides an earlier one. *)
ComparisonsToTheEnd(m1, m2) ==
    {Order(m1, m2, k) : k \in {d \in Differences(m1, m2) :
                                 \A j \in Differences(m1, m2) : d >= j}}
    \cup {v \in {-1, 1} : Differences(m1, m2) = {}}

Comparisons(m1, m2) ==
    {Order(m1, m2, k) : k \in {d \in Differences(m1, m2) :
                                 \A j \in Differences(m1, m2) : d <= j}}
    \cup {v \in {-1, 1} : Differences(m1, m2) = {}}

Compare(f, s, first, n) ==
    LET other == IF s = NULL THEN <<>> ELSE s \o <<NUL>>
        results == IF n = 0 THEN {0}
                   ELSE IF s = NULL THEN {IF first THEN 1 ELSE -1}
                   ELSE IF first THEN Comparisons(buffer, other)
                   ELSE Comparisons(other, buffer)
    IN  /\ Running
        /\ \/ /\ \E r \in results :
                    call' = [f |-> f, s |-> s, first |-> first, n |-> n, ret |-> r]
              /\ UNCHANGED <<buffer, holds>>
           \/ n > 0 /\ s # NULL /\ Differences(buffer, other) = {} /\ Panic

RTStrcmp(s, first) == Compare("RTStrcmp", s, first, RTSTRMAX)

(* Of its size RTStrncmp only asks whether it is 0. *)
RTStrncmp(s, first, n) ==
    IF n > RTSTRMAX THEN Running /\ Panic ELSE Compare("RTStrncmp", s, first, n)

RTStrlen ==
    /\ Running
    /\ IF TooLong(Text(buffer)) THEN Panic
       ELSE /\ call' = [f |-> "RTStrlen", ret |-> Len(Text(buffer))]
            /\ UNCHANGED <<buffer, holds>>

(* Faulty variant: the counter stops at its largest value. *)
TickStopping(t) == Smaller(t, Power(2, Bits) - 1)

(* gettimeofday gives seconds and microseconds; the sum wraps at 2^32. *)
Tick(t) == ((((t \div Hz) % Power(2, Bits)) * Hz) + (t % Hz)) % Power(2, Bits)

Now(f, t) ==
    /\ Running
    /\ call' = [f |-> f, t |-> t, ret |-> Tick(t)]
    /\ UNCHANGED <<buffer, holds>>

RTNow_tick(t) == Now("RTNow_tick", t)

(* A tick is a microsecond. *)
RTNow_us(t) == Now("RTNow_us", t)

RTTickFrequency_Hz ==
    /\ Running
    /\ call' = [f |-> "RTTickFrequency_Hz", ret |-> Hz]
    /\ UNCHANGED <<buffer, holds>>

Next ==
    \/ \E size \in Sizes :
          \/ \E x \in Numbers \cap Signed : RT32ToString(x, size)
          \/ \E x \in Numbers \cap Unsigned, base \in RTBase : RTU32ToString(x, base, size)
          \/ \E src \in Strings \cup {NULL} : RTStrncpy(size, src)
    \/ RTStringTo32
    \/ \E base \in RTBase : RTStringToU32(base)
    \/ \E s \in Strings \cup {NULL}, first \in BOOLEAN :
          \/ RTStrcmp(s, first)
          \/ \E n \in Sizes : RTStrncmp(s, first, n)
    \/ RTStrlen
    \/ \E t \in Times : RTNow_tick(t) \/ RTNow_us(t)
    \/ RTTickFrequency_Hz

Spec == Init /\ [][Next]_vars

-----------------------------------------------------------------------------
(* Properties. *)

(* Every value returned fits the type it is returned in. *)
TypeOK ==
    /\ buffer \in [1..Room -> Char]
    /\ call.f \in {"RT32ToString", "RTU32ToString", "RTStrlen"} => call.ret \in 0..Room
    /\ call.f = "RTStringToU32" => call.ret.value \in Unsigned
    /\ call.f = "RTStringTo32" => call.ret.value \in Signed
    /\ call.f \in {"RTNow_tick", "RTNow_us", "RTTickFrequency_Hz"} => call.ret \in Unsigned

(* After any calls with any sizes the array holds a string that ends within *)
(* the array and within RTSTRMAX: reading it never leaves the array        *)
(* (rtplf.h:331, 208), and never panics (250-251).                         *)
Terminated == TextLen(buffer) < Smaller(Room, RTSTRMAX)

Printed == call.f \in {"RT32ToString", "RTU32ToString"} /\ call.size > 0

Whole(h) ==
    IF h.f = "RT32ToString" THEN SignedNumeral(h.x)
    ELSE IF h.base = 2 THEN Figures(h.x, 2, Bits)
    ELSE Numeral(h.x, h.base)

(* However small the array, printing leaves in it the beginning of the     *)
(* number, and returns how much of it (rtplf.c:102-107, 138-144).          *)
PrintedIsCounted ==
    Printed =>
        /\ call.ret = TextLen(buffer)
        /\ call.ret = Smaller(Len(Whole(holds)), call.size - 1)
        /\ Text(buffer) = SubSeq(Whole(holds), 1, call.ret)

(* A number printed whole is read back as the same number, in its base,    *)
(* whatever calls came in between and whatever lies behind the terminator. *)
RoundTrip ==
    holds # NULL /\ holds.whole =>
        /\ call.f = "RTStringToU32" /\ holds.f = "RTU32ToString"
              /\ call.base = holds.base => call.ret = Parsed(holds.x)
        /\ call.f = "RTStringTo32" /\ holds.f = "RT32ToString" =>
              call.ret = Parsed(holds.x)

(* However long the string and whatever was in the array, RTStrncpy leaves *)
(* in it as much of the string as fits, and nothing else (rtplf.c:269-276, *)
(* rtplf.h:331).                                                           *)
Copying(c) == c.f = "RTStrncpy" /\ c.size > 0 /\ c.src # NULL

CopiesWhatFits ==
    Copying(call) =>
        Text(buffer) = SubSeq(call.src, 1, Smaller(Len(call.src), call.size - 1))

(* The answers of RTStrncpy tell a whole copy from a part of one: two calls *)
(* in a row answer alike exactly when both or neither copied all            *)
(* (rtplf.c:260, 276).  Which answer means which is left open: there        *)
(* rtplf.h:348-349 and the code disagree.                                   *)
CopyIsTold ==
    [][Copying(call) /\ Copying(call') =>
          ((call.ret <=> call'.ret)
             <=> (Text(buffer) = call.src <=> Text(buffer)' = call'.src))]_vars

(* What rtplf.h:280-287 says of the guess; in base 8 the leading 0 is one  *)
(* of the digits.                                                          *)
DocumentedBase(s, base) ==
    IF base # RTBASE_AUTO THEN [base |-> base, skip |-> 0]
    ELSE IF Prefixed(s) THEN [base |-> 16, skip |-> 2]
    ELSE IF s[1] = Zero /\ Len(s) > 1 /\ s[2] \in Digits(10) THEN [base |-> 8, skip |-> 0]
    ELSE IF s[1] \in B THEN [base |-> 2, skip |-> 1]
    ELSE [base |-> 10, skip |-> 0]

(* A number that is there, in as many chars as its type may need, is read. *)
ReadsDigits(s, doc, ret) ==
    LET digits == From(s, doc.skip + 1)
        n == DigitRun(digits, doc.base)
        value == Value(digits, doc.base, n)
    IN  /\ n > 0
        /\ value < Power(2, Bits)
        /\ doc.base = 2 => n <= Bits
        /\ doc.base = 16 => ~Prefixed(digits)
        => ret = Parsed(value)

(* The guess gets no further than the 0: nothing that follows it is octal. *)
LoneZero(s) == s[1] = Zero /\ ~Prefixed(s) /\ DigitRun(Tail(s), 8) = 0

(* A number at the start of the text is read as documented, in the base    *)
(* given or guessed, and what follows it is ignored; but for a lone zero.  *)
ReadsNumbers ==
    LET s == Text(buffer)
    IN  call.f = "RTStringToU32" /\ s # <<>> =>
            \/ call.base = RTBASE_AUTO /\ LoneZero(s)
            \/ ReadsDigits(s, DocumentedBase(s, call.base), call.ret)

(* RTStrcmp and RTStrncmp order two strings by the first char in which     *)
(* they differ, the terminator being the smallest, when it is one of those *)
(* the caller wants compared (rtplf.h:363, 376-381).                       *)
Difference(s, t) ==
    CHOOSE k \in 1..(Smaller(Len(s), Len(t)) + 1) :
        /\ SubSeq(s, 1, k - 1) = SubSeq(t, 1, k - 1)
        /\ k > Len(s) \/ k > Len(t) \/ s[k] # t[k]

Precedes(s, t) ==
    LET k == Difference(s, t)
    IN  k > Len(s) \/ (k <= Len(t) /\ s[k] < t[k])

Compared == call.f \in {"RTStrcmp", "RTStrncmp"} /\ call.n > 0 /\ call.s # NULL

Distinct(n) == call.s # Text(buffer) /\ Difference(Text(buffer), call.s) <= n

ComparesInOrder ==
    Compared /\ Distinct(call.n) =>
        call.ret = IF Precedes(Text(buffer), call.s) <=> call.first THEN -1 ELSE 1

(* The time between two readings is right across the wrap of the counter,  *)
(* whichever of the two functions they come from.                          *)
Timed(f) == f \in {"RTNow_tick", "RTNow_us"}

Elapsed ==
    [][Timed(call.f) /\ Timed(call'.f) /\ call'.t - call.t \in Unsigned
         => (call'.ret - call.ret) % Power(2, Bits) = call'.t - call.t]_vars

-----------------------------------------------------------------------------
(* What rtplf.h says and the code does not do. *)

(* rtplf.h:363, 368, 376: strings compare as 0 when none of the chars to   *)
(* compare differ: when they are equal, and, in RTStrncmp, when they       *)
(* differ only after the first n.                                          *)
EqualIsZero == Compared /\ ~Distinct(call.n) => call.ret = 0

(* rtplf.h:287: in any other case base 10 is used; "0" is 0.               *)
ZeroIsRead ==
    call.f = "RTStringToU32" /\ Text(buffer) = <<Zero>> => call.ret = Parsed(0)
=============================================================================
