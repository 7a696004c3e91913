--------------------------------- MODULE Utf ---------------------------------
(***************************************************************************)
(* The conversions between encodings of Unicode (utf.hh).                  *)
(*                                                                         *)
(* A text is a sequence of units, the bytes of UTF-8 or the words of       *)
(* UTF-16; units are at the limits of what the code tells apart.  Errors   *)
(* are not told apart.  Arithmetic stands for shifts and masks.            *)
(***************************************************************************)
EXTENDS Integers, Sequences

CONSTANTS
    MaxBytes,   \* bound on the length of a text in UTF-8
    MaxUnits    \* bound on the length of a text in UTF-16

ASSUME UtfAssumption == MaxBytes \in Nat /\ MaxUnits \in Nat

Bytes == {0, 127, 128, 143, 144, 159, 160, 191, 192, 193, 194, 223, 224, 237, 239,
          240, 244, 245, 255}
Units16 == {0, 55295, 55296, 56319, 56320, 57343, 57344, 65535}

UpTo(n, S) == UNION {[1..k -> S] : k \in 0..n}

VARIABLES
    text,       \* the units, and the form they are in: "utf8" or "utf16"
    converted   \* the text in the other form; status: "none" yet, "ok" or "error"

utfVars == <<text, converted>>

Unconverted == [status |-> "none", units |-> << >>]

IsSurrogate(c) == 55296 <= c /\ c < 57344       \* 0xd800, 0xe000
IsValidCodePoint(c) == (0 <= c /\ c < 55296) \/ (57344 <= c /\ c < 1114112)

NoEncoding == << >>

-----------------------------------------------------------------------------
(* toUTF *)

ToUTF8(c) ==
    LET low(n) == 128 + ((c \div 64^n) % 64)
    IN CASE c < 128 -> <<c>>
         [] 128 <= c /\ c < 2048 -> <<192 + (c \div 64), low(0)>>
         [] 2048 <= c /\ c < 65536 ->
               IF IsSurrogate(c) THEN NoEncoding ELSE <<224 + (c \div 4096), low(1), low(0)>>
         [] 65536 <= c /\ c < 1114112 -> <<240 + (c \div 262144), low(2), low(1), low(0)>>
         [] OTHER -> NoEncoding

ToUTF16(c) ==
    CASE c < 65536 -> IF IsSurrogate(c) THEN NoEncoding ELSE <<c>>
      [] 65536 <= c /\ c < 1114112 ->
            <<55296 + ((c - 65536) \div 1024), 56320 + ((c - 65536) % 1024)>>
      [] OTHER -> NoEncoding

-----------------------------------------------------------------------------
(* fromUTF: the code point and the number of units, or 0 units for an error *)

Decoded(c, n) == [point |-> c, length |-> n]
Invalid == Decoded(65533, 0)

\* Fault: no lower limit.
FromUTF8ContSeqAny(s, first, length, lowerLimit) ==
    LET cont == {i \in 2..length : s[i] \div 64 = 2}
        payload(i) == IF i <= length THEN s[i] % 64 ELSE 0
        val == CASE length = 2 -> first * 64 + payload(2)
                 [] length = 3 -> (first * 64 + payload(2)) * 64 + payload(3)
                 [] length = 4 -> ((first * 64 + payload(2)) * 64 + payload(3)) * 64 + payload(4)
    IN IF cont # 2..length THEN Invalid ELSE Decoded(val, length)

FromUTF8ContSeq(s, first, length, lowerLimit) ==
    LET cont == {i \in 2..length : s[i] \div 64 = 2}
        payload(i) == IF i <= length THEN s[i] % 64 ELSE 0
        val == CASE length = 2 -> first * 64 + payload(2)
                 [] length = 3 -> (first * 64 + payload(2)) * 64 + payload(3)
                 [] length = 4 -> ((first * 64 + payload(2)) * 64 + payload(3)) * 64 + payload(4)
    IN IF cont # 2..length THEN Invalid
       ELSE IF val < lowerLimit THEN Decoded(val, 0)
       ELSE Decoded(val, length)

FromUTF8(s) ==
    LET lead == s[1]
        Read(n, lowerLimit) ==
            IF Len(s) < n THEN Invalid
            ELSE FromUTF8ContSeq(s, lead % 2^(7 - n), n, lowerLimit)
    IN CASE lead < 128 -> Decoded(lead, 1)
         [] (128 <= lead /\ lead < 194) \/ lead > 244 -> Invalid
         [] 194 <= lead /\ lead < 224 -> Read(2, 128)
         [] 224 <= lead /\ lead < 240 ->
               LET d == Read(3, 2048) IN IF IsSurrogate(d.point) THEN Decoded(d.point, 0) ELSE d
         [] 240 <= lead /\ lead <= 244 ->
               LET d == Read(4, 65536) IN IF d.point >= 1114112 THEN Decoded(d.point, 0) ELSE d

FromUTF16(s) ==
    LET lead == s[1]
    IN IF ~IsSurrogate(lead) THEN Decoded(lead, 1)
       ELSE IF lead < 56320 /\ Len(s) >= 2 /\ 56320 <= s[2] /\ s[2] < 57344
       THEN Decoded(65536 + ((lead % 1024) * 1024) + (s[2] % 1024), 2)
       ELSE Invalid

-----------------------------------------------------------------------------
From(form, s) == IF form = "utf8" THEN FromUTF8(s) ELSE FromUTF16(s)
To(form, c) == IF form = "utf8" THEN ToUTF8(c) ELSE ToUTF16(c)
Other(form) == IF form = "utf8" THEN "utf16" ELSE "utf8"

\* UTFConvertor, with forEachCodePoint
RECURSIVE Convert(_, _, _)
Convert(form, to, s) ==
    IF s = << >> THEN [status |-> "ok", units |-> << >>]
    ELSE LET d == From(form, s)
             encoded == To(to, d.point)
             rest == Convert(form, to, SubSeq(s, d.length + 1, Len(s)))
         IN IF d.length = 0 \/ encoded = NoEncoding THEN [status |-> "error", units |-> << >>]
            ELSE IF rest.status = "error" THEN rest
            ELSE [status |-> "ok", units |-> encoded \o rest.units]

\* isLeadingCodeUnit
IsLeadingCodeUnit(form, u) ==
    IF form = "utf8" THEN u \in 0..127 \/ u \in 194..244 ELSE ~(56320 <= u /\ u < 57344)

CodePointCount(form, s) == Len(SelectSeq(s, LAMBDA u : IsLeadingCodeUnit(form, u)))

\* compareByCodePoint of two texts in UTF-16: a surrogate is larger than a unit
\* that is not.
Compare16(a, b) ==
    LET differ == {i \in 1..Len(a) : i <= Len(b) /\ a[i] # b[i]}
        i == CHOOSE j \in differ : \A k \in differ : j <= k
    IN IF differ = {} THEN (IF Len(a) < Len(b) THEN -1 ELSE IF Len(a) > Len(b) THEN 1 ELSE 0)
       ELSE IF IsSurrogate(a[i]) = IsSurrogate(b[i]) THEN (IF a[i] < b[i] THEN -1 ELSE 1)
       ELSE IF IsSurrogate(a[i]) THEN 1 ELSE -1

\* toUTF of a text
ToUTF ==
    /\ converted.status = "none"
    /\ converted' = Convert(text.form, Other(text.form), text.units)
    /\ UNCHANGED text

UtfOf(form, units) ==
    /\ text = [form |-> form, units |-> units]
    /\ converted = Unconverted

UtfInit ==
    \/ \E units \in UpTo(MaxBytes, Bytes) : UtfOf("utf8", units)
    \/ \E units \in UpTo(MaxUnits, Units16) : UtfOf("utf16", units)

UtfNext == ToUTF

-----------------------------------------------------------------------------
(* Properties *)

\* The beginning of s is the encoding of a code point, of n units; or n = 0.
Encoded(form, s) ==
    LET cont(n) == Len(s) >= n /\ \A i \in 2..n : s[i] \in 128..191
        \* the second byte may be any, or is limited by the first one
        second == CASE s[1] = 224 -> 160..191 [] s[1] = 237 -> 128..159
                    [] s[1] = 240 -> 144..191 [] s[1] = 244 -> 128..143 [] OTHER -> 128..191
    IN IF form = "utf16"
       THEN IF s[1] \notin 55296..57343 THEN 1
            ELSE IF s[1] < 56320 /\ Len(s) > 1 /\ s[2] \in 56320..57343 THEN 2 ELSE 0
       ELSE IF s[1] < 128 THEN 1
            ELSE IF s[1] \in 194..223 /\ cont(2) THEN 2
            ELSE IF s[1] \in 224..239 /\ cont(3) /\ s[2] \in second THEN 3
            ELSE IF s[1] \in 240..244 /\ cont(4) /\ s[2] \in second THEN 4
            ELSE 0

RECURSIVE WellFormed(_, _)
WellFormed(form, s) ==
    s = << >> \/ LET n == Encoded(form, s)
                 IN n > 0 /\ WellFormed(form, SubSeq(s, n + 1, Len(s)))

\* Both orders of the texts in UTF-16: by units of the code, and by bytes of UTF-8.
SameOrder(a, b) ==
    LET x == Convert("utf16", "utf8", a).units
        y == Convert("utf16", "utf8", b).units
        differ == {i \in 1..Len(x) : i <= Len(y) /\ x[i] # y[i]}
        i == CHOOSE j \in differ : \A k \in differ : j <= k
        less == IF differ = {} THEN Len(x) < Len(y) ELSE x[i] < y[i]
    IN (Compare16(a, b) = -1) <=> less

\* A text is converted just when it is well-formed, whatever its units (an overlong
\* form, a surrogate, a truncated sequence); the conversion back gives the same
\* text, with as many code points; and the texts in UTF-16 are in the order of
\* their code points (utf.hh).
UtfIsCanonical ==
    LET form == text.form
        back == Convert(Other(form), form, converted.units)
    IN /\ converted.status = "error" => ~WellFormed(form, text.units)
       /\ converted.status = "ok" =>
            /\ WellFormed(form, text.units)
            /\ WellFormed(Other(form), converted.units)
            /\ back.units = text.units
            /\ CodePointCount(form, text.units) = CodePointCount(Other(form), converted.units)
            /\ form = "utf16" =>
                  \A b \in UpTo(2, Units16) : WellFormed("utf16", b) => SameOrder(text.units, b)

=============================================================================
