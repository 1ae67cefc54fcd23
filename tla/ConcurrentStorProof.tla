------------------------ MODULE ConcurrentStorProof -------------------------
(***************************************************************************)
(* Safety of the store for every number of words, bits and threads.        *)
(***************************************************************************)
EXTENDS ConcurrentStor, TLAPS

(* Division: a quotient and a remainder determine the number, and back.    *)
LEMMA DivMod ==
  ASSUME NEW i \in Nat, NEW pos \in Nat, NEW u \in Nat \ {0}, pos < u
  PROVE  /\ (i * u + pos) \div u = i
         /\ (i * u + pos) % u = pos
  OBVIOUS

LEMMA DivModInverse ==
  ASSUME NEW n \in Nat, NEW u \in Nat \ {0}
  PROVE  /\ n \div u \in Nat
         /\ n % u \in 0 .. u - 1
         /\ n = (n \div u) * u + (n % u)
  OBVIOUS

LEMMA Times ==
  ASSUME NEW i \in Nat, NEW pos \in Nat, NEW u \in Nat \ {0}, pos < u, NEW w \in Nat
  PROVE  i < w <=> i * u + pos < w * u
  OBVIOUS

(* A word and a bit name one cell, and a cell one word and one bit: what   *)
(* Alloc returns is what Free finds again.                                 *)
LEMMA CellNamesBit ==
  /\ \A i \in WordIds, pos \in Bits :
       /\ CellAt(i, pos) \in Cells
       /\ WordOf(CellAt(i, pos)) = i
       /\ BitOf(CellAt(i, pos)) = pos
  /\ \A cell \in Cells :
       /\ WordOf(cell) \in WordIds
       /\ BitOf(cell) \in Bits
       /\ CellAt(WordOf(cell), BitOf(cell)) = cell
<1>1. ASSUME NEW i \in WordIds, NEW pos \in Bits
      PROVE  /\ CellAt(i, pos) \in Cells
             /\ WordOf(CellAt(i, pos)) = i
             /\ BitOf(CellAt(i, pos)) = pos
  <2>1. i \in Nat /\ pos \in Nat /\ pos < Unit /\ i < Words
    BY StorAssumption DEF WordIds, Bits
  <2>2. i * Unit + pos < Words * Unit
    BY <2>1, Times, StorAssumption
  <2>3. i * Unit + pos \in Nat /\ Words * Unit \in Nat
    BY <2>1, StorAssumption
  <2>4. CellAt(i, pos) \in Cells
    BY <2>2, <2>3 DEF CellAt, Cells
  <2>5. QED
    BY <2>1, <2>4, DivMod, StorAssumption DEF CellAt, WordOf, BitOf
<1>2. ASSUME NEW cell \in Cells
      PROVE  /\ WordOf(cell) \in WordIds
             /\ BitOf(cell) \in Bits
             /\ CellAt(WordOf(cell), BitOf(cell)) = cell
  <2>1. cell \in Nat /\ cell < Words * Unit
    BY StorAssumption DEF Cells
  <2> DEFINE i == cell \div Unit
             pos == cell % Unit
  <2>2. i \in Nat /\ pos \in 0 .. Unit - 1 /\ cell = i * Unit + pos
    BY <2>1, DivModInverse, StorAssumption
  <2>3. i < Words
    <3> HIDE DEF i, pos
    <3> QED  BY <2>1, <2>2, Times, StorAssumption
  <2>4. QED
    BY <2>2, <2>3, StorAssumption DEF CellAt, WordOf, BitOf, WordIds, Bits
<1>3. QED
  BY <1>1, <1>2

-----------------------------------------------------------------------------
(* Type correctness and the books together: a successful exchange takes a  *)
(* bit that was set, so the cell it hands out was nobody's.                *)
StorInv == TypeOK /\ BooksMatchOwners

(* A cell that a step hands out was nobody's before.                       *)
LEMMA CasTakesFree ==
  ASSUME StorInv, NEW t \in Threads, NEW cell \in Cells, AllocCas(t, cell)
  PROVE  /\ WordOf(cell) = word[t]
         /\ BitOf(cell) \in books[word[t]]
         /\ books' = [books EXCEPT ![word[t]] = @ \ {BitOf(cell)}]
         /\ owner[cell] = NoOne
<1>1. PICK pos \in Bits : /\ IsLowestBit(pos, book_old[t])
                          /\ books' = [books EXCEPT ![word[t]] = book_old[t] \ {pos}]
                          /\ cell = CellAt(word[t], pos)
  BY DEF AllocCas
<1>2. word[t] \in WordIds
  BY DEF StorInv, TypeOK
<1>3. WordOf(cell) = word[t] /\ BitOf(cell) = pos
  BY <1>1, <1>2, CellNamesBit
<1>4. books[word[t]] = book_old[t] /\ pos \in book_old[t]
  BY <1>1 DEF AllocCas, IsLowestBit
<1>5. QED
  BY <1>1, <1>2, <1>3, <1>4 DEF StorInv, TypeOK, BooksMatchOwners, IsFree

LEMMA TypePreserved ==
  ASSUME StorInv, [Next]_storVars
  PROVE  TypeOK'
<1> USE DEF StorInv, TypeOK
<1>1. \A t \in Threads : (word[t] + 1) % Words \in WordIds
  BY StorAssumption DEF WordIds
<1>2. ASSUME NEW t \in Threads, AllocStart(t) PROVE TypeOK'
  BY <1>2, StorAssumption DEF AllocStart, WordIds
<1>3. ASSUME NEW t \in Threads, AllocNoBit(t) PROVE TypeOK'
  BY <1>3, <1>1 DEF AllocNoBit, NextWord
<1>4. ASSUME NEW t \in Threads, AllocLoad(t) PROVE TypeOK'
  BY <1>4 DEF AllocLoad
<1>5. ASSUME NEW t \in Threads, AllocLost(t) PROVE TypeOK'
  BY <1>5, <1>1 DEF AllocLost, NextWord
<1>6. ASSUME NEW t \in Threads, NEW cell \in Cells, AllocCas(t, cell) PROVE TypeOK'
  <2>1. books' \in [WordIds -> SUBSET Bits]
    BY <1>6, CasTakesFree
  <2>2. QED
    BY <1>6, <2>1 DEF AllocCas
<1>7. ASSUME NEW cell \in Cells, Free(cell) PROVE TypeOK'
  BY <1>7, CellNamesBit DEF Free, storLocals
<1>8. CASE UNCHANGED storVars
  BY <1>8 DEF storVars, storLocals
<1>9. QED
  BY <1>2, <1>3, <1>4, <1>5, <1>6, <1>7, <1>8 DEF Next, Alloc, Scan

LEMMA BooksPreserved ==
  ASSUME StorInv, [Next]_storVars
  PROVE  BooksMatchOwners'
<1> SUFFICES ASSUME NEW c \in Cells
             PROVE  IsFree(c)' <=> owner'[c] = NoOne
  BY DEF BooksMatchOwners
<1> USE DEF StorInv, TypeOK
<1>1. IsFree(c) <=> owner[c] = NoOne
  BY DEF BooksMatchOwners
<1>2. WordOf(c)' = WordOf(c) /\ BitOf(c)' = BitOf(c)
  BY DEF WordOf, BitOf
<1>3. /\ WordOf(c) \in WordIds /\ BitOf(c) \in Bits
      /\ CellAt(WordOf(c), BitOf(c)) = c
  BY CellNamesBit
<1>4. CASE books' = books /\ owner' = owner
  BY <1>1, <1>2, <1>4 DEF IsFree
<1>5. ASSUME NEW t \in Threads, NEW cell \in Cells, AllocCas(t, cell)
      PROVE  IsFree(c)' <=> owner'[c] = NoOne
  <2>1. /\ WordOf(cell) = word[t]
        /\ books' = [books EXCEPT ![word[t]] = @ \ {BitOf(cell)}]
        /\ owner' = [owner EXCEPT ![cell] = t]
    BY <1>5, CasTakesFree DEF AllocCas
  <2>2. CASE c = cell
    BY <1>2, <1>3, <2>1, <2>2, StorAssumption DEF IsFree
  <2>3. CASE c # cell
    <3>1. WordOf(c) # WordOf(cell) \/ BitOf(c) # BitOf(cell)
      BY <1>3, <2>3, CellNamesBit
    <3>2. QED
      BY <1>1, <1>2, <1>3, <2>1, <2>3, <3>1 DEF IsFree
  <2>4. QED
    BY <2>2, <2>3
<1>6. ASSUME NEW cell \in Cells, Free(cell)
      PROVE  IsFree(c)' <=> owner'[c] = NoOne
  <2>1. /\ books' = [books EXCEPT ![WordOf(cell)] = @ \cup {BitOf(cell)}]
        /\ owner' = [owner EXCEPT ![cell] = NoOne]
    BY <1>6 DEF Free
  <2>2. CASE c = cell
    BY <1>2, <1>3, <2>1, <2>2 DEF IsFree
  <2>3. CASE c # cell
    <3>1. WordOf(c) # WordOf(cell) \/ BitOf(c) # BitOf(cell)
      BY <1>3, <2>3, CellNamesBit
    <3>2. QED
      BY <1>1, <1>2, <1>3, <2>1, <2>3, <3>1 DEF IsFree
  <2>4. QED
    BY <2>2, <2>3
<1>7. (books' = books /\ owner' = owner)
      \/ (\E t \in Threads, cell \in Cells : AllocCas(t, cell))
      \/ \E cell \in Cells : Free(cell)
  BY DEF Next, Alloc, Scan, AllocStart, AllocNoBit, AllocLoad, AllocLost, storVars
<1>8. QED
  BY <1>4, <1>5, <1>6, <1>7

-----------------------------------------------------------------------------
LEMMA InitEstablishes ==
  ASSUME StorInit
  PROVE  StorInv
<1>1. TypeOK
  BY StorAssumption DEF StorInit, TypeOK, WordIds, Bits
<1>2. BooksMatchOwners
  BY CellNamesBit DEF StorInit, BooksMatchOwners, IsFree
<1>3. QED
  BY <1>1, <1>2 DEF StorInv

(* The store's inductive invariant, through every race of the exchanges.   *)
THEOREM StorInvariant == Spec => []StorInv
<1>1. StorInv /\ [Next]_storVars => StorInv'
  BY TypePreserved, BooksPreserved DEF StorInv
<1>2. QED
  BY <1>1, InitEstablishes, PTL DEF Spec

(* The words, the scan positions and the owners stay in their ranges.      *)
THEOREM TypeCorrect == Spec => []TypeOK
BY StorInvariant, PTL DEF StorInv

(* No cell leaks and none is free while somebody has it.                   *)
THEOREM BooksHold == Spec => []BooksMatchOwners
BY StorInvariant, PTL DEF StorInv

(* No cell is handed out while a thread still has it.                      *)
THEOREM NoDoubleAllocHolds == Spec => NoDoubleAlloc
<1>1. StorInv /\ [Next]_storVars
      => [\A cell \in Cells :
            owner[cell] = NoOne \/ owner'[cell] \in {NoOne, owner[cell]}]_storVars
  <2> SUFFICES ASSUME StorInv, Next, NEW c \in Cells
               PROVE  owner[c] = NoOne \/ owner'[c] \in {NoOne, owner[c]}
    OBVIOUS
  <2> USE DEF StorInv, TypeOK
  <2>1. CASE owner' = owner
    BY <2>1
  <2>2. ASSUME NEW t \in Threads, NEW cell \in Cells, AllocCas(t, cell)
        PROVE  owner[c] = NoOne \/ owner'[c] = owner[c]
    BY <2>2, CasTakesFree DEF AllocCas
  <2>3. ASSUME NEW cell \in Cells, Free(cell)
        PROVE  owner'[c] \in {NoOne, owner[c]}
    BY <2>3 DEF Free
  <2>4. QED
    BY <2>1, <2>2, <2>3
    DEF Next, Alloc, Scan, AllocStart, AllocNoBit, AllocLoad, AllocLost
<1>2. QED
  BY <1>1, StorInvariant, PTL DEF Spec, NoDoubleAlloc

=============================================================================
