---------------------------- MODULE NewstdProof -----------------------------
(***************************************************************************)
(* The string helpers, for any characters and strings of any length.       *)
(***************************************************************************)
EXTENDS NewstdStrings, SequenceTheorems, WellFoundedInduction, TLAPS

(* C strings, and the character that my_stricmp compares at a position.    *)
Str     == Seq((-128 .. 127) \ {NUL})
At(x, i) == my_toupper(CharAt(x, i))

(* A set of natural numbers that is not empty has a least one.             *)
LEMMA Least ==
  ASSUME NEW T, T \subseteq Nat, T # {}
  PROVE  \E m \in T : \A n \in T : m <= n
<1>1. PICK m \in T : \A n \in T : ~ (<<n, m>> \in OpToRel(<, Nat))
  BY WFMin, NatLessThanWellFounded
<1>2. \A n \in Nat : n < m => <<n, m>> \in OpToRel(<, Nat)
  BY DEF OpToRel
<1>3. \A n \in T : ~ (n < m)
  BY <1>1, <1>2
<1>4. QED
  BY <1>3

-----------------------------------------------------------------------------
(* my_toupper finds the small letters, and makes no terminator.            *)
LEMMA ToupperValue ==
  ASSUME NEW c \in Int, c # NUL, c >= -128
  PROVE  my_toupper(c) = Capital(c) /\ my_toupper(c) \in Int /\ my_toupper(c) # NUL
<1>1. c \in Small <=> c \in 97 .. 122
  <2>1. ASSUME c \in 97 .. 122 PROVE c \in Small
    <3>1. c - 97 \in 0 .. 25 /\ c = 65 + 32 + (c - 97)
      BY <2>1
    <3>2. QED
      BY <3>1 DEF Small
  <2>2. QED
    BY <2>1 DEF Small
<1>2. QED
  BY <1>1 DEF my_toupper, Capital, NUL

(* The terminator is the only NUL, and has no upper case.                  *)
LEMMA AtFacts ==
  ASSUME NEW x \in Str, NEW i \in Nat \ {0}
  PROVE  /\ At(x, i) \in Int
         /\ At(x, i) = NUL <=> i > Len(x)
         /\ i \in 1 .. Len(x) => At(x, i) = Capital(x[i]) /\ x[i] \in -128 .. 127
<1>1. CASE i > Len(x)
  BY <1>1 DEF At, CharAt, my_toupper, NUL, Str
<1>2. CASE i <= Len(x)
  <2>1. i \in 1 .. Len(x) /\ x[i] \in (-128 .. 127) \ {NUL}
    BY <1>2 DEF Str
  <2>2. At(x, i) = my_toupper(x[i])
    BY <1>2 DEF At, CharAt
  <2>3. QED
    <3> DEFINE c == x[i]
    <3>1. c \in Int /\ c # NUL /\ c >= -128 /\ c \in -128 .. 127
      <4>1. c \in (-128 .. 127) \ {NUL}
        BY <2>1
      <4> HIDE DEF c
      <4>2. QED
        BY <4>1
    <3>2. my_toupper(x[i]) = Capital(x[i]) /\ my_toupper(x[i]) \in Int /\ my_toupper(x[i]) # NUL
      BY <3>1, ToupperValue
    <3>3. At(x, i) = Capital(x[i]) /\ At(x, i) \in Int /\ At(x, i) # NUL /\ ~(i > Len(x))
      BY <1>2, <2>1, <2>2, <3>2
    <3>4. QED
      BY <3>1, <3>3
<1>3. QED
  BY <1>1, <1>2 DEF Str

(* The loop of my_stricmp ends at the first position that decides.         *)
Decides(x, y, i) ==
  /\ \A j \in 1 .. i - 1 : At(x, j) = At(y, j) /\ At(x, j) # NUL
  /\ At(x, i) # At(y, i) \/ At(x, i) = NUL

LEMMA StricmpValue ==
  ASSUME NEW x \in Str, NEW y \in Str
  PROVE  \E i \in 1 .. Len(x) + 1 :
           /\ Decides(x, y, i)
           /\ my_stricmp(x, y) = IF At(x, i) = At(y, i) THEN 0
                                 ELSE IF At(x, i) < At(y, i) THEN -1 ELSE 1
<1> DEFINE Stop(j) == At(x, j) # At(y, j) \/ At(x, j) = NUL
           T       == {j \in 1 .. Len(x) + 1 : Stop(j)}
           Goes(i) == Stop(i) /\ \A j \in 1 .. i - 1 : ~Stop(j)
           i       == CHOOSE i \in 1 .. Len(x) + 1 : Goes(i)
<1>1. Len(x) \in Nat
  BY DEF Str
<1>2. Len(x) + 1 \in T
  BY <1>1, AtFacts
<1>3. PICK m \in T : \A n \in T : m <= n
  <2>1. T \subseteq Nat
    BY <1>1
  <2>2. QED
    BY <1>2, <2>1, Least
<1>4. m \in 1 .. Len(x) + 1 /\ Goes(m)
  BY <1>1, <1>3
<1>5. i \in 1 .. Len(x) + 1 /\ Goes(i)
  <2> HIDE DEF Goes
  <2> QED  BY <1>4
<1>6. my_stricmp(x, y) = IF At(x, i) = At(y, i) THEN 0
                         ELSE IF At(x, i) < At(y, i) THEN -1 ELSE 1
  BY DEF my_stricmp, First, At
<1>7. Decides(x, y, i)
  BY <1>5 DEF Decides
<1>8. QED
  BY <1>5, <1>6, <1>7

(* my_stricmp is 0 for strings that differ in case only.                   *)
LEMMA StricmpZero ==
  ASSUME NEW x \in Str, NEW y \in Str
  PROVE  my_stricmp(x, y) = 0 <=> Upper(x) = Upper(y)
<1>1. PICK i \in 1 .. Len(x) + 1 :
        /\ Decides(x, y, i)
        /\ my_stricmp(x, y) = IF At(x, i) = At(y, i) THEN 0
                              ELSE IF At(x, i) < At(y, i) THEN -1 ELSE 1
  BY StricmpValue
<1>2. Len(x) \in Nat /\ Len(y) \in Nat
  BY DEF Str
<1> DEFINE m == Len(x)
           n == Len(y)
<1>d. DOMAIN x = 1 .. m /\ DOMAIN y = 1 .. n
  BY DEF Str
<1>3. ASSUME my_stricmp(x, y) = 0 PROVE Upper(x) = Upper(y)
  <2>1. At(x, i) = NUL /\ At(y, i) = NUL
    BY <1>1, <1>3 DEF Decides
  <2>2. i = Len(x) + 1 /\ i > Len(y)
    BY <1>2, <2>1, AtFacts
  <2>3. Len(y) = Len(x)
    <3>1. ASSUME Len(y) < Len(x) PROVE FALSE
      <4>1. Len(y) + 1 \in 1 .. i - 1
        BY <1>2, <2>2, <3>1
      <4>2. At(x, Len(y) + 1) = At(y, Len(y) + 1) /\ At(x, Len(y) + 1) # NUL
        BY <1>1, <4>1 DEF Decides
      <4>3. QED
        BY <1>2, <4>2, AtFacts
    <3>2. n <= m /\ m \in Nat /\ n \in Nat
      BY <1>2, <2>2
    <3>3. ~(n < m)
      BY <3>1
    <3> HIDE DEF m, n
    <3>4. n = m
      BY <3>2, <3>3
    <3>5. QED
      BY <3>4 DEF m, n
  <2>4. \A j \in 1 .. Len(x) : Capital(x[j]) = Capital(y[j])
    BY <1>1, <1>2, <2>2, <2>3, AtFacts DEF Decides
  <2>5. QED
    BY <1>d, <2>3, <2>4 DEF Upper
<1>4. ASSUME Upper(x) = Upper(y) PROVE my_stricmp(x, y) = 0
  <2>1. DOMAIN x = DOMAIN y
    <3>1. DOMAIN Upper(x) = DOMAIN x /\ DOMAIN Upper(y) = DOMAIN y
      BY DEF Upper
    <3>2. QED
      BY <1>4, <3>1
  <2>2. Len(x) = Len(y)
    <3>1. 1 .. m = 1 .. n /\ m \in Nat /\ n \in Nat
      BY <1>2, <1>d, <2>1
    <3> HIDE DEF m, n
    <3>2. m = n
      BY <3>1
    <3>3. QED
      BY <3>2 DEF m, n
  <2>3. \A j \in 1 .. Len(x) : Capital(x[j]) = Capital(y[j])
    <3> TAKE j \in 1 .. Len(x)
    <3>1. Upper(x)[j] = Capital(x[j]) /\ Upper(y)[j] = Capital(y[j])
      BY <1>d, <2>2 DEF Upper
    <3>2. QED
      BY <1>4, <3>1
  <2>4. At(x, i) = At(y, i)
    <3>1. CASE i \in 1 .. Len(x)
      <4>1. At(x, i) = Capital(x[i]) /\ At(y, i) = Capital(y[i])
        BY <1>2, <2>2, <3>1, AtFacts
      <4>2. QED
        BY <2>3, <3>1, <4>1
    <3>2. CASE i = Len(x) + 1
      BY <1>2, <2>2, <3>2, AtFacts DEF NUL
    <3>3. QED
      BY <1>2, <3>1, <3>2
  <2>5. QED
    BY <1>1, <2>4
<1>5. QED
  BY <1>3, <1>4

(* Two positions that decide are the same.                                 *)
LEMMA StricmpAntisymmetric ==
  ASSUME NEW x \in Str, NEW y \in Str
  PROVE  my_stricmp(x, y) = -my_stricmp(y, x)
<1>1. PICK i \in 1 .. Len(x) + 1 :
        /\ Decides(x, y, i)
        /\ my_stricmp(x, y) = IF At(x, i) = At(y, i) THEN 0
                              ELSE IF At(x, i) < At(y, i) THEN -1 ELSE 1
  BY StricmpValue
<1>2. PICK k \in 1 .. Len(y) + 1 :
        /\ Decides(y, x, k)
        /\ my_stricmp(y, x) = IF At(y, k) = At(x, k) THEN 0
                              ELSE IF At(y, k) < At(x, k) THEN -1 ELSE 1
  BY StricmpValue
<1>3. i \in Nat \ {0} /\ k \in Nat \ {0}
  BY DEF Str
<1>4. i = k
  BY <1>1, <1>2, <1>3 DEF Decides
<1>5. At(x, i) \in Int /\ At(y, i) \in Int
  BY <1>3, AtFacts
<1>6. QED
  BY <1>1, <1>2, <1>4, <1>5

LEMMA StricmpTransitive ==
  ASSUME NEW x \in Str, NEW y \in Str, NEW z \in Str,
         my_stricmp(x, y) <= 0, my_stricmp(y, z) <= 0
  PROVE  my_stricmp(x, z) <= 0
<1>1. PICK i \in 1 .. Len(x) + 1 :
        /\ Decides(x, y, i)
        /\ my_stricmp(x, y) = IF At(x, i) = At(y, i) THEN 0
                              ELSE IF At(x, i) < At(y, i) THEN -1 ELSE 1
  BY StricmpValue
<1>2. PICK j \in 1 .. Len(y) + 1 :
        /\ Decides(y, z, j)
        /\ my_stricmp(y, z) = IF At(y, j) = At(z, j) THEN 0
                              ELSE IF At(y, j) < At(z, j) THEN -1 ELSE 1
  BY StricmpValue
<1>3. PICK k \in 1 .. Len(x) + 1 :
        /\ Decides(x, z, k)
        /\ my_stricmp(x, z) = IF At(x, k) = At(z, k) THEN 0
                              ELSE IF At(x, k) < At(z, k) THEN -1 ELSE 1
  BY StricmpValue
<1>4. i \in Nat \ {0} /\ j \in Nat \ {0} /\ k \in Nat \ {0}
  BY DEF Str
<1>5. \A n \in Nat \ {0} : At(x, n) \in Int /\ At(y, n) \in Int /\ At(z, n) \in Int
  BY AtFacts
<1>6. At(x, i) <= At(y, i) /\ At(y, j) <= At(z, j)
  BY <1>1, <1>2, <1>4, <1>5
<1>7. At(x, k) <= At(z, k)
  <2>1. CASE k < i /\ k < j
    BY <1>1, <1>2, <1>4, <1>5, <2>1 DEF Decides
  <2>2. CASE i <= k /\ i <= j
    <3>0. At(y, i) <= At(z, i)
      <4>1. CASE i = j
        BY <1>6, <4>1
      <4>2. CASE i < j
        <5>1. At(y, i) = At(z, i)
          BY <1>2, <1>4, <4>2 DEF Decides
        <5>2. QED
          BY <1>4, <1>5, <5>1
      <4>3. QED
        BY <1>4, <2>2, <4>1, <4>2
    <3>1. CASE i = k
      BY <1>4, <1>5, <1>6, <3>0, <3>1
    <3>2. CASE i < k
      <4>1. At(x, i) = At(z, i) /\ At(x, i) # NUL
        BY <1>3, <1>4, <3>2 DEF Decides
      <4>2. At(x, i) = At(y, i)
        BY <1>4, <1>5, <1>6, <3>0, <4>1
      <4>3. QED
        BY <1>1, <4>1, <4>2 DEF Decides
    <3>3. QED
      BY <1>4, <2>2, <3>1, <3>2
  <2>3. CASE j <= k /\ j < i
    BY <1>1, <1>2, <1>3, <1>4, <1>5, <1>6, <2>3 DEF Decides
  <2>4. QED
    BY <1>4, <2>1, <2>2, <2>3
<1>8. QED
  BY <1>3, <1>4, <1>5, <1>7

-----------------------------------------------------------------------------
(* The first position where two sequences differ, or one of them ends.     *)
Differ(x, y, m) ==
  /\ m \in 1 .. Len(x) + 1 /\ m \in 1 .. Len(y) + 1
  /\ \A j \in 1 .. m - 1 : x[j] = y[j]
  /\ m \in 1 .. Len(x) /\ m \in 1 .. Len(y) => x[m] # y[m]

LEMMA DifferExists ==
  ASSUME NEW x \in Seq(Int), NEW y \in Seq(Int)
  PROVE  \E m \in Nat : Differ(x, y, m)
<1> DEFINE Ends(j) == j > Len(x) \/ j > Len(y) \/ x[j] # y[j]
           T       == {j \in Nat \ {0} : Ends(j)}
<1>1. Len(x) \in Nat /\ Len(y) \in Nat
  OBVIOUS
<1>2. Len(x) + 1 \in T /\ Len(y) + 1 \in T /\ T \subseteq Nat
  BY <1>1
<1>3. PICK m \in T : \A n \in T : m <= n
  <2> HIDE DEF T
  <2> QED  BY <1>2, Least
<1>4. m \in Nat \ {0} /\ Ends(m) /\ m <= Len(x) + 1 /\ m <= Len(y) + 1
  BY <1>2, <1>3
<1>5. ASSUME NEW j \in 1 .. m - 1 PROVE x[j] = y[j]
  <2>1. j \in Nat \ {0} /\ j < m
    BY <1>4
  <2>2. j \notin T
    BY <1>3, <1>4, <2>1
  <2>3. QED
    BY <2>1, <2>2
<1>6. Differ(x, y, m)
  BY <1>1, <1>4, <1>5 DEF Differ
<1>7. QED
  BY <1>4, <1>6

LEMMA DifferSymmetric ==
  ASSUME NEW x, NEW y, NEW m, Differ(x, y, m)
  PROVE  Differ(y, x, m)
BY DEF Differ

(* It decides which sequence is less, and is no end of equal ones.         *)
LEMMA DifferDecides ==
  ASSUME NEW x \in Seq(Int), NEW y \in Seq(Int), NEW m \in Nat, Differ(x, y, m)
  PROVE  LexLess(x, y) <=> m <= Len(y) /\ (m > Len(x) \/ x[m] < y[m])
<1>1. Len(x) \in Nat /\ Len(y) \in Nat
  OBVIOUS
<1>2. m >= 1 /\ m <= Len(x) + 1 /\ m <= Len(y) + 1
  BY <1>1 DEF Differ
<1>3. ASSUME m <= Len(y), m > Len(x) \/ x[m] < y[m] PROVE LexLess(x, y)
  <2>1. m \in 1 .. Len(y) /\ \A j \in 1 .. m - 1 : j <= Len(x) /\ x[j] = y[j]
    BY <1>1, <1>2, <1>3 DEF Differ
  <2>2. QED
    BY <1>3, <2>1 DEF LexLess
<1>4. ASSUME LexLess(x, y) PROVE m <= Len(y) /\ (m > Len(x) \/ x[m] < y[m])
  <2>1. PICK i \in 1 .. Len(y) : /\ \A j \in 1 .. i - 1 : j <= Len(x) /\ x[j] = y[j]
                                 /\ i > Len(x) \/ x[i] < y[i]
    BY <1>4 DEF LexLess
  <2>2. ~(i < m)
    <3>1. ASSUME i < m PROVE FALSE
      <4>1. i \in 1 .. m - 1 /\ i <= Len(x)
        BY <1>1, <1>2, <3>1
      <4>2. x[i] = y[i] /\ x[i] < y[i]
        BY <1>1, <2>1, <4>1 DEF Differ
      <4>3. x[i] \in Int
        BY <1>1, <4>1
      <4>4. QED
        BY <4>2, <4>3
    <3>2. QED
      BY <3>1
  <2>3. ~(m < i)
    <3>1. ASSUME m < i PROVE FALSE
      <4>1. m \in 1 .. i - 1 /\ m \in 1 .. Len(y)
        BY <1>1, <1>2, <3>1
      <4>2. m <= Len(x) /\ x[m] = y[m]
        BY <2>1, <4>1
      <4>3. m \in 1 .. Len(x)
        BY <1>1, <4>1, <4>2
      <4>4. QED
        BY <4>1, <4>2, <4>3 DEF Differ
    <3>2. QED
      BY <3>1
  <2>4. i = m
    BY <1>1, <2>2, <2>3
  <2>5. QED
    BY <1>1, <2>1, <2>4
<1>5. QED
  BY <1>3, <1>4

LEMMA DifferBefore ==
  ASSUME NEW x \in Seq(Int), NEW y \in Seq(Int), NEW m \in Nat, Differ(x, y, m),
         x # y
  PROVE  m <= Len(x) \/ m <= Len(y)
<1> SUFFICES ASSUME m > Len(x), m > Len(y) PROVE FALSE
  BY DEF Differ
<1>1. Len(x) \in Nat /\ Len(y) \in Nat /\ m \in 1 .. Len(x) + 1 /\ m \in 1 .. Len(y) + 1
  BY DEF Differ
<1>2. Len(x) = m - 1 /\ Len(y) = m - 1
  BY <1>1
<1>3. \A j \in 1 .. Len(x) : x[j] = y[j]
  BY <1>2 DEF Differ
<1>4. Len(x) = Len(y)
  BY <1>2
<1>5. QED
  BY <1>3, <1>4, SeqEqual

(* Of two sequences that are not equal exactly one is less.                *)
LEMMA LexTotal ==
  ASSUME NEW x \in Seq(Int), NEW y \in Seq(Int), x # y
  PROVE  LexLess(x, y) <=> ~LexLess(y, x)
<1>1. PICK m \in Nat : Differ(x, y, m)
  BY DifferExists
<1>2. Differ(y, x, m)
  BY <1>1, DifferSymmetric
<1>3. m <= Len(x) \/ m <= Len(y)
  BY <1>1, DifferBefore
<1>4. /\ LexLess(x, y) <=> m <= Len(y) /\ (m > Len(x) \/ x[m] < y[m])
      /\ LexLess(y, x) <=> m <= Len(x) /\ (m > Len(y) \/ y[m] < x[m])
  BY <1>1, <1>2, DifferDecides
<1>5. Len(x) \in Nat /\ Len(y) \in Nat /\ m >= 1
  BY <1>1 DEF Differ
<1>6. CASE m > Len(x) \/ m > Len(y)
  BY <1>3, <1>4, <1>5, <1>6
<1>7. CASE m <= Len(x) /\ m <= Len(y)
  <2> DEFINE a == x[m]
             b == y[m]
  <2>1. m \in 1 .. Len(x) /\ m \in 1 .. Len(y)
    BY <1>5, <1>7
  <2>2. a \in Int /\ b \in Int
    BY <2>1
  <2>3. a # b
    BY <1>1, <2>1 DEF Differ
  <2>4. /\ LexLess(x, y) <=> a < b
        /\ LexLess(y, x) <=> b < a
    BY <1>4, <1>5, <1>7
  <2> HIDE DEF a, b
  <2>5. QED
    BY <2>2, <2>3, <2>4
<1>8. QED
  BY <1>5, <1>6, <1>7

LEMMA LexTransitive ==
  ASSUME NEW x \in Seq(Int), NEW y \in Seq(Int), NEW z \in Seq(Int),
         LexLess(x, y), LexLess(y, z)
  PROVE  LexLess(x, z)
<1>1. PICK i \in 1 .. Len(y) : /\ \A n \in 1 .. i - 1 : n <= Len(x) /\ x[n] = y[n]
                               /\ i > Len(x) \/ x[i] < y[i]
  BY DEF LexLess
<1>2. PICK j \in 1 .. Len(z) : /\ \A n \in 1 .. j - 1 : n <= Len(y) /\ y[n] = z[n]
                               /\ j > Len(y) \/ y[j] < z[j]
  BY DEF LexLess
<1>3. Len(x) \in Nat /\ Len(y) \in Nat /\ Len(z) \in Nat /\ i \in Nat /\ j \in Nat
  OBVIOUS
<1>4. CASE i < j
  <2>1. i \in 1 .. Len(z) /\ i \in 1 .. j - 1
    BY <1>3, <1>4
  <2>2. \A n \in 1 .. i - 1 : n <= Len(x) /\ x[n] = z[n]
    BY <1>1, <1>2, <1>3, <1>4
  <2>3. i > Len(x) \/ x[i] < z[i]
    BY <1>1, <1>2, <2>1
  <2>4. QED
    BY <2>1, <2>2, <2>3 DEF LexLess
<1>5. CASE i = j
  <2>1. \A n \in 1 .. i - 1 : n <= Len(x) /\ x[n] = z[n]
    BY <1>1, <1>2, <1>5
  <2>2. i > Len(x) \/ x[i] < z[i]
    <3>1. CASE i <= Len(x)
      <4> DEFINE a == x[i]
                 b == y[i]
                 c == z[i]
      <4>1. a \in Int /\ b \in Int /\ c \in Int
        BY <1>3, <1>5, <3>1
      <4>2. a < b /\ b < c
        BY <1>1, <1>2, <1>3, <1>5, <3>1
      <4> HIDE DEF a, b, c
      <4>3. a < c
        BY <4>1, <4>2
      <4>4. QED
        BY <4>3 DEF a, c
    <3>2. QED
      BY <1>3, <3>1
  <2>3. i \in 1 .. Len(z)
    BY <1>5
  <2>4. QED
    BY <2>1, <2>2, <2>3 DEF LexLess
<1>6. CASE j < i
  <2>1. j \in 1 .. i - 1 /\ j <= Len(y)
    BY <1>3, <1>6
  <2>2. \A n \in 1 .. j - 1 : n <= Len(x) /\ x[n] = z[n]
    BY <1>1, <1>2, <1>3, <1>6
  <2>3. x[j] < z[j]
    <3>1. x[j] = y[j]
      BY <1>1, <2>1
    <3>2. y[j] < z[j]
      BY <1>2, <1>3, <2>1
    <3>3. QED
      BY <3>1, <3>2
  <2>4. QED
    BY <2>2, <2>3 DEF LexLess
<1>7. QED
  BY <1>3, <1>4, <1>5, <1>6

(* my_lexcmp, put together from the two.                                   *)
LEMMA LexcmpValue ==
  ASSUME NEW x \in Seq(Int), NEW y \in Seq(Int)
  PROVE  my_lexcmp(x, y) = IF x = y THEN 0 ELSE IF LexLess(x, y) THEN -1 ELSE 1
BY DEF my_lexcmp

LEMMA LexcmpIsOrder ==
  ASSUME NEW x \in Seq(Int), NEW y \in Seq(Int), NEW z \in Seq(Int)
  PROVE  /\ my_lexcmp(x, y) = 0 <=> x = y
         /\ my_lexcmp(x, y) = -my_lexcmp(y, x)
         /\ my_lexcmp(x, y) <= 0 /\ my_lexcmp(y, z) <= 0 => my_lexcmp(x, z) <= 0
<1>1. my_lexcmp(x, y) = 0 <=> x = y
  BY LexcmpValue
<1>2. my_lexcmp(x, y) = -my_lexcmp(y, x)
  <2>1. CASE x = y
    BY <2>1, LexcmpValue
  <2>2. CASE x # y
    <3>1. LexLess(x, y) <=> ~LexLess(y, x)
      BY <2>2, LexTotal
    <3>2. /\ my_lexcmp(x, y) = IF LexLess(x, y) THEN -1 ELSE 1
          /\ my_lexcmp(y, x) = IF LexLess(y, x) THEN -1 ELSE 1
      BY <2>2, LexcmpValue
    <3>3. QED
      BY <3>1, <3>2
  <2>3. QED
    BY <2>1, <2>2
<1>3. \A v, w \in Seq(Int) : my_lexcmp(v, w) <= 0 <=> v = w \/ LexLess(v, w)
  BY LexcmpValue
<1>4. ASSUME my_lexcmp(x, y) <= 0, my_lexcmp(y, z) <= 0 PROVE my_lexcmp(x, z) <= 0
  BY <1>3, <1>4, LexTransitive
<1>5. QED
  BY <1>1, <1>2, <1>4

(* Up to case my_stricmp is my_lexcmp, on characters above the terminator. *)
LEMMA StricmpIsLexcmp ==
  ASSUME NEW x \in Str, NEW y \in Str, SevenBit(x), SevenBit(y)
  PROVE  my_stricmp(x, y) = my_lexcmp(Upper(x), Upper(y))
<1> DEFINE X == Upper(x)
           Y == Upper(y)
<1>1. Len(x) \in Nat /\ Len(y) \in Nat /\ DOMAIN x = 1 .. Len(x) /\ DOMAIN y = 1 .. Len(y)
  BY DEF Str
<1>2. ASSUME NEW v \in Str, SevenBit(v)
      PROVE  /\ Upper(v) \in Seq(Int) /\ Len(Upper(v)) = Len(v)
             /\ \A n \in 1 .. Len(v) : Upper(v)[n] = At(v, n) /\ Upper(v)[n] > 0
  <2>1. Len(v) \in Nat /\ DOMAIN v = 1 .. Len(v)
    BY DEF Str
  <2>2. \A n \in 1 .. Len(v) : At(v, n) = Capital(v[n]) /\ At(v, n) \in Int
    <3> TAKE n \in 1 .. Len(v)
    <3>1. n \in Nat \ {0}
      BY <2>1
    <3>2. QED
      BY <3>1, AtFacts
  <2>3. Upper(v) = [n \in 1 .. Len(v) |-> Capital(v[n])]
    BY <2>1 DEF Upper
  <2>4. Upper(v) \in Seq(Int) /\ Len(Upper(v)) = Len(v)
    BY <2>1, <2>2, <2>3
  <2>5. ASSUME NEW n \in 1 .. Len(v) PROVE Upper(v)[n] = At(v, n) /\ Upper(v)[n] > 0
    <3> DEFINE c == v[n]
    <3>1. c \in -128 .. 127 /\ c > 0
      BY <1>2, <2>1, AtFacts DEF SevenBit
    <3> HIDE DEF c
    <3>2. Capital(c) > 0
      BY <3>1 DEF Capital, Small
    <3>3. Capital(v[n]) > 0
      BY <3>2 DEF c
    <3>4. QED
      BY <2>2, <2>3, <3>3
  <2>6. QED
    BY <2>4, <2>5
<1>3. CASE X = Y
  BY <1>2, <1>3, StricmpZero, LexcmpValue
<1>4. CASE X # Y
  <2>1. PICK i \in 1 .. Len(x) + 1 :
          /\ Decides(x, y, i)
          /\ my_stricmp(x, y) = IF At(x, i) = At(y, i) THEN 0
                                ELSE IF At(x, i) < At(y, i) THEN -1 ELSE 1
    BY StricmpValue
  <2>2. my_stricmp(x, y) # 0
    BY <1>4, StricmpZero
  <2>3. X \in Seq(Int) /\ Y \in Seq(Int) /\ Len(X) = Len(x) /\ Len(Y) = Len(y)
    BY <1>2
  <2>4. PICK m \in Nat : Differ(X, Y, m)
    BY <2>3, DifferExists
  <2>5. m \in Nat \ {0} /\ m <= Len(x) + 1 /\ m <= Len(y) + 1
    BY <1>1, <2>3, <2>4 DEF Differ
  <2>6. \A n \in Nat \ {0} : /\ n <= Len(x) => At(x, n) = X[n] /\ At(x, n) > 0
                             /\ n <= Len(y) => At(y, n) = Y[n] /\ At(y, n) > 0
                             /\ n > Len(x) => At(x, n) = 0
                             /\ n > Len(y) => At(y, n) = 0
    <3> TAKE n \in Nat \ {0}
    <3>1. n <= Len(x) => n \in 1 .. Len(x)
      BY <1>1
    <3>2. n <= Len(y) => n \in 1 .. Len(y)
      BY <1>1
    <3>3. n > Len(x) => At(x, n) = 0
      BY AtFacts DEF NUL
    <3>4. n > Len(y) => At(y, n) = 0
      BY AtFacts DEF NUL
    <3>5. QED
      BY <1>2, <3>1, <3>2, <3>3, <3>4
  <2>7. Decides(x, y, m)
    <3>1. ASSUME NEW n \in 1 .. m - 1 PROVE At(x, n) = At(y, n) /\ At(x, n) # NUL
      <4>1. n \in Nat \ {0} /\ n <= Len(x) /\ n <= Len(y)
        BY <1>1, <2>5
      <4>2. X[n] = Y[n]
        BY <2>4 DEF Differ
      <4>3. At(x, n) = X[n] /\ At(y, n) = Y[n]
        BY <2>6, <4>1
      <4>4. At(x, n) # NUL
        BY <1>1, <4>1, AtFacts
      <4>5. QED
        BY <4>2, <4>3, <4>4
    <3>2. At(x, m) # At(y, m) \/ At(x, m) = NUL
      <4>1. CASE m <= Len(x) /\ m <= Len(y)
        <5>1. X[m] # Y[m]
          BY <1>1, <2>3, <2>4, <2>5, <4>1 DEF Differ
        <5>2. QED
          BY <2>5, <2>6, <4>1, <5>1
      <4>2. CASE m > Len(x)
        BY <2>5, <4>2, AtFacts
      <4>3. CASE m <= Len(x) /\ m > Len(y)
        <5>1. At(x, m) # NUL /\ At(y, m) = NUL
          BY <1>1, <2>5, <4>3, AtFacts
        <5>2. QED
          BY <5>1
      <4>4. QED
        BY <1>1, <2>5, <4>1, <4>2, <4>3
    <3>3. QED
      BY <3>1, <3>2 DEF Decides
  <2>8. i = m
    BY <1>1, <2>1, <2>5, <2>7 DEF Decides
  <2>9. At(x, m) < At(y, m) <=> LexLess(X, Y)
    <3>1. LexLess(X, Y) <=> m <= Len(y) /\ (m > Len(x) \/ X[m] < Y[m])
      BY <2>3, <2>4, DifferDecides
    <3>2. CASE m > Len(y)
      <4>1. At(x, m) >= 0 /\ At(y, m) = 0 /\ At(x, m) \in Int
        <5>1. m <= Len(x) \/ m > Len(x)
          BY <1>1, <2>5
        <5>2. At(x, m) > 0 \/ At(x, m) = 0
          BY <2>5, <2>6, <5>1
        <5>3. At(x, m) \in Int /\ At(y, m) = 0
          BY <2>5, <2>6, <3>2, AtFacts
        <5>4. QED
          BY <5>2, <5>3
      <4>2. QED
        BY <1>1, <3>1, <3>2, <4>1
    <3>3. CASE m <= Len(y) /\ m > Len(x)
      BY <2>5, <2>6, <3>1, <3>3
    <3>4. CASE m <= Len(y) /\ m <= Len(x)
      <4>1. At(x, m) = X[m] /\ At(y, m) = Y[m]
        BY <2>5, <2>6, <3>4
      <4>2. QED
        BY <1>1, <3>1, <3>4, <4>1
    <3>5. QED
      BY <1>1, <2>5, <3>2, <3>3, <3>4
  <2>10. QED
    BY <1>4, <2>1, <2>2, <2>3, <2>8, <2>9, LexcmpValue
<1>5. QED
  BY <1>3, <1>4

-----------------------------------------------------------------------------
(* What _my_strncpy leaves in a buffer, whatever was in it, of a source    *)
(* whose length is given or not.                                           *)
Copied(dest, x, i) ==
  [k \in DOMAIN dest |-> IF k <= i THEN x[k] ELSE IF k = i + 1 THEN NUL ELSE dest[k]]

LEMMA StrncpyValue ==
  ASSUME NEW x \in Str, NEW N \in Nat \ {0}, NEW dest \in [1 .. N -> Int],
         NEW len \in {SIZE_MAX, Len(x)}
  PROVE  LET i == Lesser(Len(x), N - 1)
         IN  my_strncpy(dest, x, len) = [dest |-> Copied(dest, x, i), ret |-> i + 1]
<1> DEFINE i == Lesser(Len(x), N - 1)
<1>1. Len(x) \in Nat /\ DOMAIN dest = 1 .. N
  BY DEF Str
<1>2. Len(dest) = N
  <2>1. dest \in Seq(Int)
    BY SeqDef
  <2>2. Len(dest) \in Nat /\ DOMAIN dest = 1 .. Len(dest)
    BY <2>1
  <2> DEFINE m == Len(dest)
  <2>3. m \in Nat /\ 1 .. m = 1 .. N
    BY <1>1, <2>2
  <2> HIDE DEF m
  <2>4. m = N
    BY <2>3
  <2>5. QED
    BY <2>4 DEF m
<1>3. CopyLength(N, x, len) = i
  BY <1>1 DEF CopyLength, SIZE_MAX
<1>4. x # NULL
  <2>1. ASSUME x = NULL PROVE FALSE
    <3>1. Len(x) = 1 /\ x[1] = NUL
      BY <2>1 DEF NULL
    <3>2. x \in [1 .. 1 -> (-128 .. 127) \ {NUL}]
      BY <3>1, LenProperties DEF Str
    <3>3. QED
      BY <3>1, <3>2
  <2>2. QED
    BY <2>1
<1>5. \A k \in 1 .. N : k <= i => CharAt(x, k) = x[k]
  BY <1>1 DEF Lesser, CharAt
<1>6. my_strncpy(dest, x, len) =
        [dest |-> [k \in DOMAIN dest |-> IF k <= i THEN CharAt(x, k)
                                         ELSE IF k = i + 1 THEN NUL ELSE dest[k]],
         ret  |-> i + 1]
  BY <1>2, <1>3, <1>4 DEF my_strncpy
<1> HIDE DEF i
<1>7. [k \in DOMAIN dest |-> IF k <= i THEN CharAt(x, k)
                             ELSE IF k = i + 1 THEN NUL ELSE dest[k]]
        = Copied(dest, x, i)
  BY <1>1, <1>5 DEF Copied
<1>8. QED
  BY <1>6, <1>7 DEF i

(* my_strlen finds the first terminator.                                   *)
LEMMA StrlenValue ==
  ASSUME NEW buf, NEW n \in Nat, DOMAIN buf \subseteq Nat, 1 .. n + 1 \subseteq DOMAIN buf,
         0 \notin DOMAIN buf, buf[n + 1] = NUL, \A k \in 1 .. n : buf[k] # NUL
  PROVE  my_strlen(buf) = n
<1> DEFINE F(i) == buf[i] = NUL /\ \A j \in 1 .. i - 1 : ~(buf[j] = NUL)
           c    == CHOOSE i \in DOMAIN buf : F(i)
<1>1. n + 1 \in DOMAIN buf /\ F(n + 1)
  OBVIOUS
<1>2. c \in DOMAIN buf /\ F(c)
  <2> HIDE DEF F
  <2> QED  BY <1>1
<1>3. c \in Nat /\ c >= 1
  <2> HIDE DEF c
  <2>1. c \in Nat /\ c # 0
    BY <1>2
  <2>2. QED
    BY <2>1
<1>4. c = n + 1
  <2> HIDE DEF c
  <2> QED  BY <1>1, <1>2, <1>3
<1>5. my_strlen(buf) = c - 1
  BY DEF my_strlen, First
<1>6. QED
  BY <1>4, <1>5

LEMMA StrncpyIsPrefix ==
  ASSUME NEW x \in Str, NEW N \in Nat \ {0}, NEW dest \in [1 .. N -> Int],
         NEW len \in {SIZE_MAX, Len(x)}
  PROVE  LET copy == my_strncpy(dest, x, len)
             n    == my_strlen(copy.dest)
         IN  /\ \E k \in 1 .. N : copy.dest[k] = NUL
             /\ copy.ret = n + 1
             /\ SubSeq(copy.dest, 1, n) = SubSeq(x, 1, n)
             /\ n = Len(x) \/ n = N - 1
             /\ \A k \in n + 2 .. N : copy.dest[k] = dest[k]
<1> DEFINE copy == my_strncpy(dest, x, len)
           i    == Lesser(Len(x), N - 1)
           C    == Copied(dest, x, i)
<1>1. copy.dest = C /\ copy.ret = i + 1
  BY StrncpyValue
<1>2. Len(x) \in Nat /\ i \in Nat /\ i <= Len(x) /\ i + 1 <= N /\ (i = Len(x) \/ i = N - 1)
  BY DEF Lesser, Str
<1>3. \A k \in 1 .. Len(x) : x[k] # NUL
  BY ElementOfSeq DEF Str
<1> HIDE DEF i
<1>4. C = [k \in 1 .. N |-> IF k <= i THEN x[k] ELSE IF k = i + 1 THEN NUL ELSE dest[k]]
  BY DEF Copied
<1>5. /\ DOMAIN C = 1 .. N /\ C[i + 1] = NUL
      /\ \A k \in 1 .. i : C[k] = x[k] /\ C[k] # NUL
      /\ \A k \in i + 2 .. N : C[k] = dest[k]
  <2> HIDE DEF C
  <2>1. DOMAIN C = 1 .. N
    BY <1>4
  <2>2. C[i + 1] = NUL
    BY <1>2, <1>4
  <2>3. ASSUME NEW k \in 1 .. i PROVE C[k] = x[k] /\ C[k] # NUL
    <3>1. k \in 1 .. N /\ k <= i /\ k \in 1 .. Len(x)
      BY <1>2
    <3>2. C[k] = x[k]
      BY <1>4, <3>1
    <3>3. QED
      BY <1>3, <3>1, <3>2
  <2>4. ASSUME NEW k \in i + 2 .. N PROVE C[k] = dest[k]
    <3>1. k \in 1 .. N /\ ~(k <= i) /\ k # i + 1
      BY <1>2
    <3>2. QED
      BY <1>4, <3>1
  <2>5. QED
    BY <2>1, <2>2, <2>3, <2>4
<1> HIDE DEF C
<1>6. my_strlen(C) = i
  BY <1>2, <1>5, StrlenValue
<1>7. SubSeq(C, 1, i) = SubSeq(x, 1, i)
  <2>1. /\ SubSeq(C, 1, i) = [k \in 1 .. i |-> C[k]]
        /\ SubSeq(x, 1, i) = [k \in 1 .. i |-> x[k]]
    BY <1>2 
  <2>2. QED
    BY <1>5, <2>1
<1>8. QED
  BY <1>1, <1>2, <1>5, <1>6, <1>7

(* A null source leaves what an empty one leaves.                          *)
LEMMA StrncpyNull ==
  ASSUME NEW N \in Nat \ {0}, NEW dest \in [1 .. N -> Int], NEW len
  PROVE  my_strncpy(dest, NULL, len) = my_strncpy(dest, <<>>, SIZE_MAX)
<1>1. <<>> \in Str /\ Len(<<>>) = 0
  BY DEF Str
<1>2. Lesser(0, N - 1) = 0
  BY DEF Lesser
<1>3. my_strncpy(dest, <<>>, SIZE_MAX) = [dest |-> Copied(dest, <<>>, 0), ret |-> 1]
  BY <1>1, <1>2, StrncpyValue
<1>4. Copied(dest, <<>>, 0) = [dest EXCEPT ![1] = NUL]
  <2>1. Copied(dest, <<>>, 0) = [k \in 1 .. N |-> IF k = 1 THEN NUL ELSE dest[k]]
    BY DEF Copied
  <2>2. [dest EXCEPT ![1] = NUL] = [k \in 1 .. N |-> IF k = 1 THEN NUL ELSE dest[k]]
    OBVIOUS
  <2>3. QED
    BY <2>1, <2>2
<1>5. my_strncpy(dest, NULL, len) = [dest |-> [dest EXCEPT ![1] = NUL], ret |-> 1]
  BY DEF my_strncpy
<1>6. QED
  BY <1>3, <1>4, <1>5

-----------------------------------------------------------------------------
(* The recursion of Horner, up to position n of the digits.                *)
Sums(base, digits, n, f) ==
  /\ f \in [0 .. n -> Nat]
  /\ \A k \in 0 .. n : f[k] = IF k = 0 THEN 0 ELSE base * f[k - 1] + digits[k]

(* A function that satisfies it exists: by induction on n.                 *)
LEMMA SumsExist ==
  ASSUME NEW base \in Nat, NEW digits \in Seq(Nat)
  PROVE  \E f : Sums(base, digits, Len(digits), f)
<1> DEFINE Some(n) == \E f : Sums(base, digits, n, f)
           T       == {n \in 0 .. Len(digits) : ~Some(n)}
<1>1. Len(digits) \in Nat
  OBVIOUS
<1>2. Some(0)
  <2> DEFINE f == [k \in 0 .. 0 |-> 0]
  <2>1. Sums(base, digits, 0, f)
    BY DEF Sums
  <2>2. QED
    BY <2>1
<1>3. ASSUME NEW n \in 1 .. Len(digits), Some(n - 1) PROVE Some(n)
  <2>1. PICK f : Sums(base, digits, n - 1, f)
    BY <1>3
  <2>2. n \in Nat \ {0} /\ n - 1 \in 0 .. n - 1 /\ digits[n] \in Nat
    BY <1>1, ElementOfSeq
  <2> DEFINE last == base * f[n - 1] + digits[n]
             g    == [k \in 0 .. n |-> IF k = n THEN last ELSE f[k]]
  <2>3. last \in Nat
    <3> DEFINE a == f[n - 1]
               c == digits[n]
    <3>1. a \in Nat /\ c \in Nat
      BY <2>1, <2>2 DEF Sums
    <3> HIDE DEF a, c
    <3>2. base * a + c \in Nat
      BY <3>1
    <3>3. QED
      BY <3>2 DEF a, c
  <2>4. \A k \in 0 .. n - 1 : g[k] = f[k] /\ f[k] \in Nat
    BY <2>1, <2>2 DEF Sums
  <2>5. g[n] = last /\ DOMAIN g = 0 .. n
    BY <2>2
  <2>6. g \in [0 .. n -> Nat]
    BY <2>1, <2>2, <2>3 DEF Sums
  <2>7. \A k \in 0 .. n : g[k] = IF k = 0 THEN 0 ELSE base * g[k - 1] + digits[k]
    <3> HIDE DEF g
    <3> TAKE k \in 0 .. n
    <3>1. CASE k = n
      <4>1. g[k - 1] = f[n - 1]
        BY <2>2, <2>4, <3>1
      <4>2. QED
        BY <2>2, <2>5, <3>1, <4>1
    <3>2. CASE k # n
      <4>1. k \in 0 .. n - 1 /\ (k # 0 => k - 1 \in 0 .. n - 1)
        BY <2>2, <3>2
      <4>2. f[k] = IF k = 0 THEN 0 ELSE base * f[k - 1] + digits[k]
        BY <2>1, <4>1 DEF Sums
      <4>3. QED
        BY <2>4, <4>1, <4>2
    <3>3. QED
      BY <3>1, <3>2
  <2> HIDE DEF g
  <2>8. Sums(base, digits, n, g)
    BY <2>6, <2>7 DEF Sums
  <2>9. QED
    BY <2>8
<1> HIDE DEF Some
<1>4. ASSUME T # {} PROVE FALSE
  <2>1. T \subseteq Nat
    OBVIOUS
  <2>2. PICK m \in T : \A n \in T : m <= n
    <3> HIDE DEF T
    <3> QED  BY <1>4, <2>1, Least
  <2>3. m \in 0 .. Len(digits) /\ ~Some(m)
    BY <2>2
  <2>4. m # 0
    BY <1>2, <2>3
  <2>5. m \in 1 .. Len(digits) /\ m - 1 \in 0 .. Len(digits) /\ ~(m <= m - 1)
    BY <1>1, <2>3, <2>4
  <2>6. Some(m - 1)
    BY <2>2, <2>5
  <2>7. QED
    BY <1>3, <2>3, <2>5, <2>6
<1>5. Some(Len(digits))
  BY <1>1, <1>4
<1>6. QED
  BY <1>5 DEF Some

LEMMA HornerValue ==
  ASSUME NEW base \in Nat, NEW digits \in Seq(Nat)
  PROVE  Sums(base, digits, Len(digits), Horner(base, digits))
<1> DEFINE L == Len(digits)
           Fixed(f) == f = [k \in 0 .. L |-> IF k = 0 THEN 0
                                             ELSE base * f[k - 1] + digits[k]]
<1>1. PICK f : Sums(base, digits, L, f)
  BY SumsExist
<1>2. Fixed(f)
  BY <1>1 DEF Sums
<1>3. Horner(base, digits) = CHOOSE g : Fixed(g)
  BY DEF Horner
<1> DEFINE h == CHOOSE g : Fixed(g)
<1>4. Fixed(h)
  <2> HIDE DEF Fixed
  <2> QED  BY <1>2
<1> HIDE DEF h
<1>5. DOMAIN h = 0 .. L
  BY <1>4
<1>6. \A k \in 0 .. L : h[k] = IF k = 0 THEN 0 ELSE base * h[k - 1] + digits[k]
  BY <1>4
<1>7. \A k \in 0 .. L : h[k] = f[k]
  <2> DEFINE T == {k \in 0 .. L : h[k] # f[k]}
  <2>1. ASSUME T # {} PROVE FALSE
    <3>1. T \subseteq Nat
      OBVIOUS
    <3>2. PICK m \in T : \A n \in T : m <= n
      <4> HIDE DEF T
      <4> QED  BY <2>1, <3>1, Least
    <3>3. m \in 0 .. L /\ h[m] # f[m] /\ L \in Nat
      BY <3>2
    <3>4. m # 0
      BY <1>1, <1>6, <3>3 DEF Sums
    <3>5. m - 1 \in 0 .. L /\ ~(m <= m - 1)
      BY <3>3, <3>4
    <3>6. h[m - 1] = f[m - 1]
      BY <3>2, <3>5
    <3>7. /\ h[m] = base * h[m - 1] + digits[m]
          /\ f[m] = base * f[m - 1] + digits[m]
      BY <1>1, <1>6, <3>3, <3>4 DEF Sums
    <3>8. QED
      BY <3>3, <3>6, <3>7
  <2>2. QED
    BY <2>1
<1>8. h = f
  <2>1. h = [k \in 0 .. L |-> h[k]] /\ f = [k \in 0 .. L |-> f[k]]
    BY <1>1, <1>4, <1>5 DEF Sums
  <2>2. QED
    BY <1>7, <2>1
<1>9. QED
  BY <1>1, <1>3, <1>8 DEF h

(* The two digits of a byte read as the byte.                              *)
LEMMA DigitsOfByte ==
  ASSUME NEW c \in 0 .. 255
  PROVE  /\ my_print_char(c)[1] \in Nat /\ my_print_char(c)[2] \in Nat
         /\ Digit(my_print_char(c)[1]) \in Nat
         /\ Digit(my_print_char(c)[2]) \in Nat
         /\ c = 16 * Digit(my_print_char(c)[1]) + Digit(my_print_char(c)[2])
<1>1. /\ c \div 16 \in 0 .. 15 /\ c % 16 \in 0 .. 15
      /\ c = 16 * (c \div 16) + (c % 16)
  OBVIOUS
<1>2. ASSUME NEW d \in 0 .. 15
      PROVE  my_get_hex(d) \in Nat /\ Digit(my_get_hex(d)) = d
  BY DEF my_get_hex, Digit
<1>3. /\ my_print_char(c)[1] = my_get_hex(c \div 16)
      /\ my_print_char(c)[2] = my_get_hex(c % 16)
  BY DEF my_print_char
<1>4. QED
  BY <1>1, <1>2, <1>3

(* The characters of the printed bytes: byte q from the top gives digits   *)
(* 2q - 1 and 2q.                                                          *)
LEMMA PrintedDigits ==
  ASSUME NEW b \in Seq(0 .. 255)
  PROVE  LET D == Digits(my_printp(b))
         IN  /\ Len(my_printp(b)) = 2 * Len(b)
             /\ D \in Seq(Nat) /\ Len(D) = 2 * Len(b)
             /\ \A q \in 1 .. Len(b) :
                  b[Len(b) - q + 1] = 16 * D[2 * q - 1] + D[2 * q]
<1> DEFINE n == Len(b)
           P == my_printp(b)
           D == Digits(P)
           d(k) == my_print_char(b[n - (k - 1) \div 2])[1 + ((k - 1) % 2)]
<1>1. n \in Nat /\ \A k \in 1 .. n : b[k] \in 0 .. 255
  BY ElementOfSeq
<1>2. P = [k \in 1 .. 2 * n |-> d(k)]
  BY DEF my_printp
<1>3. \A k \in 1 .. 2 * n : Digit(d(k)) \in Nat
  <2> TAKE k \in 1 .. 2 * n
  <2>1. (k - 1) \div 2 \in 0 .. n - 1 /\ (k - 1) % 2 \in {0, 1}
    BY <1>1
  <2>2. n - (k - 1) \div 2 \in 1 .. n
    BY <1>1, <2>1
  <2>3. b[n - (k - 1) \div 2] \in 0 .. 255
    BY <1>1, <2>2
  <2>4. 1 + ((k - 1) % 2) = 1 \/ 1 + ((k - 1) % 2) = 2
    BY <2>1
  <2>5. QED
    BY <2>3, <2>4, DigitsOfByte
<1> HIDE DEF d, n
<1>4. D = [k \in 1 .. 2 * n |-> Digit(d(k))]
  BY <1>2 DEF Digits
<1>5. D \in Seq(Nat) /\ Len(D) = 2 * n /\ Len(P) = 2 * n
  BY <1>1, <1>2, <1>3, <1>4
<1>6. ASSUME NEW q \in 1 .. n
      PROVE  b[n - q + 1] = 16 * D[2 * q - 1] + D[2 * q]
  <2>1. /\ 2 * q - 1 \in 1 .. 2 * n /\ 2 * q \in 1 .. 2 * n
        /\ n - q + 1 \in 1 .. n
    BY <1>1
  <2>2. /\ ((2 * q - 1) - 1) \div 2 = q - 1 /\ ((2 * q - 1) - 1) % 2 = 0
        /\ (2 * q - 1) \div 2 = q - 1 /\ (2 * q - 1) % 2 = 1
    BY <1>1
  <2>3. n - (q - 1) = n - q + 1
    BY <1>1
  <2>4. /\ d(2 * q - 1) = my_print_char(b[n - q + 1])[1]
        /\ d(2 * q) = my_print_char(b[n - q + 1])[2]
    BY <2>2, <2>3 DEF d
  <2>5. D[2 * q - 1] = Digit(d(2 * q - 1)) /\ D[2 * q] = Digit(d(2 * q))
    BY <1>4, <2>1
  <2>6. b[n - q + 1] \in 0 .. 255
    BY <1>1, <2>1
  <2>7. QED
    BY <2>4, <2>5, <2>6, DigitsOfByte
<1>7. QED
  BY <1>5, <1>6 DEF n

(* Digit by digit and byte by byte the same number is read.                *)
LEMMA PrintpIsNumber ==
  ASSUME NEW b \in Seq(0 .. 255)
  PROVE  /\ Len(my_printp(b)) = 2 * Len(b)
         /\ NumberOf(16, Digits(my_printp(b))) = NumberOf(256, HighFirst(b))
<1> DEFINE n == Len(b)
           D == Digits(my_printp(b))
           B == HighFirst(b)
           f == Horner(16, D)
           g == Horner(256, B)
           T == {q \in 0 .. n : f[2 * q] # g[q]}
<1>1. n \in Nat /\ \A k \in 1 .. n : b[k] \in 0 .. 255
  BY ElementOfSeq
<1>2. /\ Len(my_printp(b)) = 2 * n
      /\ D \in Seq(Nat) /\ Len(D) = 2 * n
      /\ \A q \in 1 .. n : b[n - q + 1] = 16 * D[2 * q - 1] + D[2 * q]
  BY PrintedDigits
<1>3. B \in Seq(Nat) /\ Len(B) = n /\ \A q \in 1 .. n : B[q] = b[n - q + 1]
  <2>1. \A k \in 1 .. n : n - k + 1 \in 1 .. n
    BY <1>1
  <2>2. \A k \in 1 .. n : b[n - k + 1] \in Nat
    <3> TAKE k \in 1 .. n
    <3> DEFINE c == b[n - k + 1]
    <3>1. c \in 0 .. 255
      BY <1>1, <2>1
    <3> HIDE DEF c
    <3>2. c \in Nat
      BY <3>1
    <3>3. QED
      BY <3>2 DEF c
  <2> HIDE DEF n
  <2>3. B = [k \in 1 .. n |-> b[n - k + 1]]
    BY DEF HighFirst, n
  <2> HIDE DEF B
  <2>4. QED
    BY <1>1, <2>2, <2>3
<1> HIDE DEF n, D, B
<1>4. Sums(16, D, 2 * n, f) /\ Sums(256, B, n, g)
  BY <1>2, <1>3, HornerValue
<1> HIDE DEF f, g
<1>5. f[0] = g[0]
  BY <1>1, <1>4 DEF Sums
<1>6. ASSUME NEW q \in 1 .. n, f[2 * (q - 1)] = g[q - 1] PROVE f[2 * q] = g[q]
  <2>1. /\ 2 * q \in 0 .. 2 * n /\ 2 * q - 1 \in 0 .. 2 * n /\ 2 * q - 2 \in 0 .. 2 * n
        /\ 2 * q # 0 /\ 2 * q - 1 # 0 /\ q \in 0 .. n /\ q # 0 /\ q - 1 \in 0 .. n
        /\ (2 * q - 1) - 1 = 2 * q - 2 /\ 2 * (q - 1) = 2 * q - 2
    BY <1>1
  <2>2. f[2 * q] = 16 * f[2 * q - 1] + D[2 * q]
    BY <1>4, <2>1 DEF Sums
  <2>3. f[2 * q - 1] = 16 * f[2 * q - 2] + D[2 * q - 1]
    BY <1>4, <2>1 DEF Sums
  <2>4. g[q] = 256 * g[q - 1] + B[q]
    BY <1>4, <2>1 DEF Sums
  <2>5. B[q] = 16 * D[2 * q - 1] + D[2 * q]
    BY <1>2, <1>3
  <2>6. f[2 * q - 2] = g[q - 1]
    BY <1>6, <2>1
  <2>7. /\ f[2 * q - 2] \in Nat /\ f[2 * q - 1] \in Nat
        /\ D[2 * q - 1] \in Nat /\ D[2 * q] \in Nat
    <3>1. 2 * q - 1 \in 1 .. Len(D) /\ 2 * q \in 1 .. Len(D)
      BY <1>1, <1>2
    <3>2. QED
      BY <1>2, <1>4, <2>1, <3>1, ElementOfSeq DEF Sums
  <2> DEFINE x == f[2 * q - 2]
             y == f[2 * q - 1]
             c == D[2 * q - 1]
             e == D[2 * q]
  <2>8. /\ x \in Nat /\ y \in Nat /\ c \in Nat /\ e \in Nat
        /\ y = 16 * x + c
        /\ f[2 * q] = 16 * y + e
        /\ g[q] = 256 * x + (16 * c + e)
    BY <2>2, <2>3, <2>4, <2>5, <2>6, <2>7
  <2> HIDE DEF x, y, c, e
  <2>9. 16 * y + e = 256 * x + (16 * c + e)
    BY <2>8
  <2>10. QED
    BY <2>8, <2>9
<1>7. ASSUME T # {} PROVE FALSE
  <2>1. T \subseteq Nat
    BY <1>1
  <2>2. PICK m \in T : \A q \in T : m <= q
    <3> HIDE DEF T
    <3> QED  BY <1>7, <2>1, Least
  <2>3. m \in 0 .. n /\ f[2 * m] # g[m]
    BY <2>2
  <2>4. m # 0
    BY <1>5, <2>3
  <2>5. m \in 1 .. n /\ m - 1 \in 0 .. n /\ ~(m <= m - 1)
    BY <1>1, <2>3, <2>4
  <2>6. f[2 * (m - 1)] = g[m - 1]
    BY <2>2, <2>5
  <2>7. QED
    BY <1>6, <2>3, <2>5, <2>6
<1>8. f[2 * n] = g[n]
  BY <1>1, <1>7
<1>9. NumberOf(16, D) = f[2 * n] /\ NumberOf(256, B) = g[n]
  BY <1>2, <1>3 DEF NumberOf, f, g
<1>10. QED
  BY <1>2, <1>8, <1>9 DEF n, D, B

-----------------------------------------------------------------------------
(* The states of the specification are triples of strings.                 *)
StringsInv == {s, t, u} \subseteq Seq(Chars)

LEMMA StringsAreStr == Seq(Chars) \subseteq Str /\ Str \subseteq Seq(Int)
<1>1. Chars \subseteq (-128 .. 127) \ {NUL} /\ (-128 .. 127) \ {NUL} \subseteq Int
  BY StringsAssumption
<1>2. QED
  BY <1>1, SeqMonotonic, Zenon DEF Str

LEMMA StringsInvariant == Spec => []StringsInv
<1>1. Init => StringsInv
  BY DEF Init, StringsInv
<1>2. StringsInv /\ [Next]_<<s, t, u>> => StringsInv'
  <2> SUFFICES ASSUME StringsInv, [Next]_<<s, t, u>> PROVE StringsInv'
    OBVIOUS
  <2>1. s \in Seq(Chars) /\ t \in Seq(Chars) /\ u \in Seq(Chars)
    BY DEF StringsInv
  <2>2. \A x \in Seq(Chars), c \in Chars : Append(x, c) \in Seq(Chars)
    BY AppendProperties
  <2>3. CASE Grow(s) /\ UNCHANGED <<t, u>>
    BY <2>1, <2>2, <2>3 DEF StringsInv, Grow
  <2>4. CASE Grow(t) /\ UNCHANGED <<s, u>>
    BY <2>1, <2>2, <2>4 DEF StringsInv, Grow
  <2>5. CASE Grow(u) /\ UNCHANGED <<s, t>>
    BY <2>1, <2>2, <2>5 DEF StringsInv, Grow
  <2>6. CASE UNCHANGED <<s, t, u>>
    BY <2>1, <2>6 DEF StringsInv
  <2>7. QED
    BY <2>3, <2>4, <2>5, <2>6 DEF Next
<1>3. QED
  BY <1>1, <1>2, PTL DEF Spec

(* On strings of any characters and any length my_stricmp is an order up   *)
(* to case, and on 7-bit strings the one of my_lexcmp.                     *)
THEOREM StricmpOrdersHolds == Spec => []StricmpOrders
<1>1. StringsInv => StricmpOrders
  BY StringsAreStr, StricmpZero, StricmpAntisymmetric, StricmpTransitive, StricmpIsLexcmp
  DEF StringsInv, StricmpOrders
<1>2. QED
  BY <1>1, StringsInvariant, PTL

(* On strings of any length my_lexcmp is a total order.                    *)
THEOREM LexcmpOrdersHolds == Spec => []LexcmpOrders
<1>1. StringsInv => LexcmpOrders
  BY StringsAreStr, LexcmpIsOrder DEF StringsInv, LexcmpOrders
<1>2. QED
  BY <1>1, StringsInvariant, PTL

(* Of a string of any length _my_strncpy leaves the longest prefix that    *)
(* fits in a buffer of any size, terminated.                               *)
THEOREM StrncpyTruncatesHolds == Spec => []StrncpyTruncates
<1>1. StringsInv => StrncpyTruncates
  <2> SUFFICES ASSUME StringsInv, NEW N \in 1 .. MaxLen + 2, NEW len \in {SIZE_MAX, Len(s)}
               PROVE  LET dest == [k \in 1 .. N |-> 1]
                          copy == my_strncpy(dest, s, len)
                          n    == my_strlen(copy.dest)
                      IN  /\ \E k \in 1 .. N : copy.dest[k] = NUL
                          /\ copy.ret = n + 1
                          /\ SubSeq(copy.dest, 1, n) = SubSeq(s, 1, n)
                          /\ n = Len(s) \/ n = N - 1
                          /\ \A k \in n + 2 .. N : copy.dest[k] = dest[k]
                          /\ my_strncpy(dest, NULL, len) = my_strncpy(dest, <<>>, SIZE_MAX)
    BY DEF StrncpyTruncates
  <2>1. s \in Str /\ N \in Nat \ {0}
    BY StringsAssumption, StringsAreStr DEF StringsInv
  <2> DEFINE dest == [k \in 1 .. N |-> 1]
  <2>2. dest \in [1 .. N -> Int]
    OBVIOUS
  <2> HIDE DEF dest
  <2>3. my_strncpy(dest, NULL, len) = my_strncpy(dest, <<>>, SIZE_MAX)
    BY <2>1, <2>2, StrncpyNull
  <2> DEFINE copy == my_strncpy(dest, s, len)
             n    == my_strlen(copy.dest)
  <2>4. /\ \E k \in 1 .. N : copy.dest[k] = NUL
        /\ copy.ret = n + 1
        /\ SubSeq(copy.dest, 1, n) = SubSeq(s, 1, n)
        /\ n = Len(s) \/ n = N - 1
        /\ \A k \in n + 2 .. N : copy.dest[k] = dest[k]
    BY <2>1, <2>2, StrncpyIsPrefix, Zenon
  <2>5. QED
    BY <2>3, <2>4, Zenon DEF dest
<1>2. QED
  BY <1>1, StringsInvariant, PTL

(* A value of any number of bytes is printed as the digits of the value.   *)
THEOREM PrintpReadsBackHolds == Spec => []PrintpReadsBack
<1>1. StringsInv => PrintpReadsBack
  <2> SUFFICES ASSUME StringsInv PROVE PrintpReadsBack
    OBVIOUS
  <2>1. s \in Seq(Int)
    BY StringsAreStr DEF StringsInv
  <2>2. Len(s) \in Nat /\ DOMAIN s = 1 .. Len(s) /\ \A i \in 1 .. Len(s) : s[i] \in Int
    BY <2>1, ElementOfSeq
  <2>3. \A c \in Int : (c + 1) % 256 \in 0 .. 255
    OBVIOUS
  <2>4. Bytes \in Seq(0 .. 255)
    <3> DEFINE m == Len(s)
               e == [i \in 1 .. m |-> (s[i] + 1) % 256]
    <3>1. Bytes = e
      BY <2>2 DEF Bytes
    <3>2. m \in Nat /\ \A i \in 1 .. m : (s[i] + 1) % 256 \in 0 .. 255
      BY <2>2, <2>3
    <3> HIDE DEF m
    <3>3. e \in [1 .. m -> 0 .. 255]
      BY <3>2
    <3>4. e \in Seq(0 .. 255)
      BY <3>2, <3>3, SeqDef
    <3>5. QED
      BY <3>1, <3>4
  <2>5. QED
    BY <2>4, PrintpIsNumber DEF PrintpReadsBack
<1>2. QED
  BY <1>1, StringsInvariant, PTL

=============================================================================
