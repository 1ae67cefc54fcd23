--------------------------- MODULE NewstdStrings ---------------------------
(***************************************************************************)
(* What the helpers of Newstd promise, on all inputs up to MaxLen          *)
(* characters: each state is a triple of strings, grown a character at a   *)
(* time.                                                                   *)
(***************************************************************************)
EXTENDS Newstd

CONSTANTS
  Chars,    \* characters, as signed chars
  MaxLen    \* bound: characters of a string

ASSUME StringsAssumption ==
  /\ Chars \subseteq (-128 .. 127) \ {NUL}
  /\ MaxLen \in Nat

VARIABLES s, t, u

Init == s = <<>> /\ t = <<>> /\ u = <<>>

Grow(x) == Len(x) < MaxLen /\ \E c \in Chars : x' = Append(x, c)

Next ==
  \/ Grow(s) /\ UNCHANGED <<t, u>>
  \/ Grow(t) /\ UNCHANGED <<s, u>>
  \/ Grow(u) /\ UNCHANGED <<s, t>>

Spec == Init /\ [][Next]_<<s, t, u>>

(* The upper case of a string: a capital is 32 below its small letter.     *)
Small      == {65 + 32 + k : k \in 0 .. 25}
Capital(c) == IF c \in Small THEN c - 32 ELSE c
Upper(x) == [i \in DOMAIN x |-> Capital(x[i])]

(* my_stricmp orders strings up to case: 0 exactly for those that differ   *)
(* in case only, antisymmetric and transitive.  On 7-bit strings it is     *)
(* my_lexcmp of the upper case strings; a character that is negative as a  *)
(* signed char sorts before the end of a string, where my_lexcmp, which    *)
(* knows the length, puts the prefix first.                                *)
SevenBit(x) == \A i \in DOMAIN x : x[i] > 0

StricmpOrders ==
  /\ my_stricmp(s, t) = 0 <=> Upper(s) = Upper(t)
  /\ my_stricmp(s, t) = -my_stricmp(t, s)
  /\ my_stricmp(s, t) <= 0 /\ my_stricmp(t, u) <= 0 => my_stricmp(s, u) <= 0
  /\ SevenBit(s) /\ SevenBit(t) =>
       my_stricmp(s, t) = my_lexcmp(Upper(s), Upper(t))

(* my_lexcmp is a total order: 0 on equal ranges only, antisymmetric and   *)
(* transitive, though it is put together from an equality and a "less".    *)
LexcmpOrders ==
  /\ my_lexcmp(s, t) = 0 <=> s = t
  /\ my_lexcmp(s, t) = -my_lexcmp(t, s)
  /\ my_lexcmp(s, t) <= 0 /\ my_lexcmp(t, u) <= 0 => my_lexcmp(s, u) <= 0

(* _my_strncpy leaves a terminated string in a buffer of any size, the     *)
(* longest prefix of the source that fits, and touches nothing behind; it  *)
(* returns the length stored.  A UNICODE_STRING comes with its length; a   *)
(* null source gives the empty string.                                     *)
StrncpyTruncates ==
  \A N \in 1 .. MaxLen + 2, len \in {SIZE_MAX, Len(s)} :
    LET dest == [k \in 1 .. N |-> 1]
        copy == my_strncpy(dest, s, len)
        n    == my_strlen(copy.dest)
    IN  /\ \E k \in 1 .. N : copy.dest[k] = NUL
        /\ copy.ret = n + 1
        /\ SubSeq(copy.dest, 1, n) = SubSeq(s, 1, n)
        /\ n = Len(s) \/ n = N - 1
        /\ \A k \in n + 2 .. N : copy.dest[k] = dest[k]
        /\ my_strncpy(dest, NULL, len) = my_strncpy(dest, <<>>, SIZE_MAX)

(* The number that digits, the highest first, stand for.                   *)
Horner(base, digits) ==
  LET n[k \in 0 .. Len(digits)] == IF k = 0 THEN 0 ELSE base * n[k - 1] + digits[k]
  IN  n
NumberOf(base, digits) == Horner(base, digits)[Len(digits)]

Digit(c)  == IF c <= 57 THEN c - 48 ELSE c - 55
Digits(x) == [k \in DOMAIN x |-> Digit(x[k])]
Bytes     == [i \in DOMAIN s |-> (s[i] + 1) % 256]       \* a byte may be 0
HighFirst(b) == [k \in 1 .. Len(b) |-> b[Len(b) - k + 1]]

(* A value of any size, in little endian memory order, is printed as the   *)
(* hexadecimal number that reads as the value, two digits for each byte.   *)
PrintpReadsBack ==
  /\ Len(my_printp(Bytes)) = 2 * Len(Bytes)
  /\ NumberOf(16, Digits(my_printp(Bytes))) = NumberOf(256, HighFirst(Bytes))

=============================================================================
