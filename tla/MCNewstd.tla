------------------------------ MODULE MCNewstd ------------------------------
EXTENDS NewstdStrings

(* A character that is negative as a signed char, A, Z, a, z and the one   *)
(* that follows z.                                                         *)
MCChars == {-1, 65, 90, 97, 122, 123}

=============================================================================
