------------------------------- MODULE Newstd -------------------------------
(***************************************************************************)
(* src/newstd.h: the string helpers every component uses.  A character is  *)
(* its code, a C string the sequence of its characters without the         *)
(* terminating 0.                                                          *)
(***************************************************************************)
EXTENDS Integers, Sequences

NUL == 0

CharAt(str, i) == IF i <= Len(str) THEN str[i] ELSE NUL      \* str[i - 1] in C
First(i, P(_)) == P(i) /\ \A j \in 1 .. i - 1 : ~P(j)

(* Mutant: z is not a letter.                                              *)
ToupperShort(c) == IF c \in 97 .. 121 THEN c - 97 + 65 ELSE c

my_toupper(c) == IF c \in 97 .. 122 THEN c - 97 + 65 ELSE c

(* my_strlen: up to the first NUL of a buffer.                             *)
my_strlen(buf) == (CHOOSE i \in DOMAIN buf : First(i, LAMBDA j : buf[j] = NUL)) - 1

(* my_stricmp: the first position where the upper case characters differ,  *)
(* or where both strings end, decides.                                     *)
my_stricmp(str1, str2) ==
  LET c1(i) == my_toupper(CharAt(str1, i))
      c2(i) == my_toupper(CharAt(str2, i))
      i == CHOOSE i \in 1 .. Len(str1) + 1 :
             First(i, LAMBDA j : c1(j) # c2(j) \/ c1(j) = NUL)
  IN  IF c1(i) = c2(i) THEN 0 ELSE IF c1(i) < c2(i) THEN -1 ELSE 1

(* Mutant: a prefix is not less.                                           *)
LexLessNoPrefix(s, t) ==
  \E i \in 1 .. Len(t) :
    /\ i <= Len(s)
    /\ \A j \in 1 .. i - 1 : s[j] = t[j]
    /\ s[i] < t[i]

(* std::lexicographical_compare.                                           *)
LexLess(s, t) ==
  \E i \in 1 .. Len(t) :
    /\ \A j \in 1 .. i - 1 : j <= Len(s) /\ s[j] = t[j]
    /\ i > Len(s) \/ s[i] < t[i]

(* my_lexcmp: equality first, for ranges of one length, then the order.    *)
my_lexcmp(s, t) ==
  IF Len(s) = Len(t) /\ s = t THEN 0 ELSE IF LexLess(s, t) THEN -1 ELSE 1

(* _my_strncpy(Dest, Src, Len): Dest is a buffer of N characters whose old *)
(* contents stay behind the terminator; SIZE_MAX as Len means up to the    *)
(* terminator of Src.  Returns the characters stored, terminator included. *)
SIZE_MAX == -1
NULL     == <<NUL>>        \* no C string: it would contain a terminator

Lesser(x, y) == IF x < y THEN x ELSE y

(* Mutant: no room is left for the terminator.                             *)
CopyLengthFull(N, src, len) ==
  Lesser(IF len = SIZE_MAX THEN Len(src) ELSE len, N)

CopyLength(N, src, len) ==
  Lesser(IF len = SIZE_MAX THEN Len(src) ELSE len, N - 1)

my_strncpy(dest, src, len) ==
  IF src = NULL
  THEN [dest |-> [dest EXCEPT ![1] = NUL], ret |-> 1]
  ELSE LET i == CopyLength(Len(dest), src, len)
       IN  [dest |-> [k \in DOMAIN dest |->
                        IF k <= i THEN CharAt(src, k)
                        ELSE IF k = i + 1 THEN NUL ELSE dest[k]],
            ret  |-> i + 1]

(* _my_get_hex, _my_print_char, _my_printp: two upper case digits a byte,  *)
(* the last byte of a little endian value first.                           *)
my_get_hex(i) == IF i <= 9 THEN i + 48 ELSE i - 10 + 65
my_print_char(data) == <<my_get_hex(data \div 16), my_get_hex(data % 16)>>

(* Mutant: the bytes in memory order.                                      *)
PrintpForward(src) ==
  [k \in 1 .. 2 * Len(src) |->
     my_print_char(src[1 + ((k - 1) \div 2)])[1 + ((k - 1) % 2)]]

my_printp(src) ==
  [k \in 1 .. 2 * Len(src) |->
     my_print_char(src[Len(src) - (k - 1) \div 2])[1 + ((k - 1) % 2)]]

=============================================================================
