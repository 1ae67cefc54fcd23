--------------------------- MODULE ConcurrentStor ---------------------------
(***************************************************************************)
(* src/ConcurrentStor.h: a lock-free store of cells.  books is an array of *)
(* atomic words whose set bits are the free cells; a word is the set of    *)
(* its set bits.  Alloc scans the words round robin, takes the lowest set  *)
(* bit with a compare-and-swap and gives up the word after a failure; Free *)
(* sets the bit again with fetch_or.  One action per atomic access.        *)
(***************************************************************************)
EXTENDS Integers

CONSTANTS
  Words,     \* mux: number of bookkeeping words
  Unit,      \* unit: bits of a word
  Threads,   \* threads that call Alloc
  NoOne      \* owner of a free cell

ASSUME StorAssumption ==
  /\ Words \in Nat \ {0}
  /\ Unit \in Nat \ {0}
  /\ NoOne \notin Threads

VARIABLES
  books,     \* books[i]: set bits of word i
  apc,       \* where each thread is in Alloc
  word,      \* i: the word a thread is looking at
  book_old,  \* the value it loaded
  owner      \* history: the thread a cell was given to, until it is freed

storLocals == <<apc, word, book_old>>
storVars   == <<books, storLocals, owner>>

WordIds == 0 .. Words - 1
Bits    == 0 .. Unit - 1
Cells   == 0 .. Words * Unit - 1     \* cap = mux * unit

(* data + i*unit + pos, and back: pos / unit and pos % unit in Free.       *)
CellAt(i, pos) == i * Unit + pos
WordOf(cell)   == cell \div Unit
BitOf(cell)    == cell % Unit

IsFree(cell) == BitOf(cell) \in books[WordOf(cell)]

(* _BitScanForward: the lowest set bit.                                    *)
IsLowestBit(pos, book) == pos \in book /\ \A b \in book : pos <= b

-----------------------------------------------------------------------------
(* The constructor stores all ones in every word.                          *)
StorInit ==
  /\ books = [i \in WordIds |-> Bits]
  /\ apc = [t \in Threads |-> "idle"]
  /\ word = [t \in Threads |-> 0]
  /\ book_old = [t \in Threads |-> {}]
  /\ owner = [c \in Cells |-> NoOne]

(* Alloc starts its scan at word 0.                                        *)
AllocStart(t) ==
  /\ apc[t] = "idle"
  /\ apc' = [apc EXCEPT ![t] = "load"]
  /\ word' = [word EXCEPT ![t] = 0]
  /\ UNCHANGED <<books, book_old, owner>>

(* Mutants: the index is not wrapped; the scan stays at its word.          *)
NextWordNoWrap(t) == word' = [word EXCEPT ![t] = word[t] + 1]
SameWord(t)       == UNCHANGED word

(* The scan moves on to the next word.                                     *)
NextWord(t) == word' = [word EXCEPT ![t] = (word[t] + 1) % Words]

(* The word has no set bit: pause and try the next one.                    *)
AllocNoBit(t) ==
  /\ apc[t] = "load"
  /\ books[word[t]] = {}
  /\ NextWord(t)
  /\ UNCHANGED <<books, apc, book_old, owner>>

(* The word has a set bit.                                                 *)
AllocLoad(t) ==
  /\ apc[t] = "load"
  /\ books[word[t]] # {}
  /\ book_old' = [book_old EXCEPT ![t] = books[word[t]]]
  /\ apc' = [apc EXCEPT ![t] = "cas"]
  /\ UNCHANGED <<books, word, owner>>

(* Mutant: a plain store in the place of the compare-and-swap.             *)
AllocStore(t, cell) ==
  /\ apc[t] = "cas"
  /\ \E pos \in Bits :
       /\ IsLowestBit(pos, book_old[t])
       /\ books' = [books EXCEPT ![word[t]] = book_old[t] \ {pos}]
       /\ cell = CellAt(word[t], pos)
  /\ owner' = [owner EXCEPT ![cell] = t]
  /\ apc' = [apc EXCEPT ![t] = "idle"]
  /\ UNCHANGED <<word, book_old>>

(* The exchange succeeds and Alloc returns the cell of the lowest bit.     *)
AllocCas(t, cell) ==
  /\ apc[t] = "cas"
  /\ books[word[t]] = book_old[t]
  /\ \E pos \in Bits :
       /\ IsLowestBit(pos, book_old[t])
       /\ books' = [books EXCEPT ![word[t]] = book_old[t] \ {pos}]
       /\ cell = CellAt(word[t], pos)
  /\ owner' = [owner EXCEPT ![cell] = t]
  /\ apc' = [apc EXCEPT ![t] = "idle"]
  /\ UNCHANGED <<word, book_old>>

(* It fails: the loop goes on with the next word, not with this one.       *)
AllocLost(t) ==
  /\ apc[t] = "cas"
  /\ books[word[t]] # book_old[t]
  /\ NextWord(t)
  /\ apc' = [apc EXCEPT ![t] = "load"]
  /\ UNCHANGED <<books, book_old, owner>>

(* Mutant: a store of the one bit in the place of fetch_or.                *)
FreeStore(cell) ==
  /\ owner[cell] # NoOne
  /\ books' = [books EXCEPT ![WordOf(cell)] = {BitOf(cell)}]
  /\ owner' = [owner EXCEPT ![cell] = NoOne]
  /\ UNCHANGED storLocals

(* Free: whoever was handed the cell gives it back.                        *)
Free(cell) ==
  /\ owner[cell] # NoOne
  /\ books' = [books EXCEPT ![WordOf(cell)] = @ \cup {BitOf(cell)}]
  /\ owner' = [owner EXCEPT ![cell] = NoOne]
  /\ UNCHANGED storLocals

-----------------------------------------------------------------------------
Scan(t)  == AllocNoBit(t) \/ AllocLoad(t) \/ AllocLost(t)
Alloc(t) == Scan(t) \/ \E cell \in Cells : AllocCas(t, cell)

Next ==
  \/ \E t \in Threads : AllocStart(t) \/ Alloc(t)
  \/ \E cell \in Cells : Free(cell)

Spec == StorInit /\ [][Next]_storVars

(* A thread inside Alloc keeps running; nothing obliges anyone to free.    *)
FairSpec == Spec /\ \A t \in Threads : WF_storVars(Alloc(t))

-----------------------------------------------------------------------------
(* The variables range over what the code's types can hold.                *)
TypeOK ==
  /\ books \in [WordIds -> SUBSET Bits]
  /\ apc \in [Threads -> {"idle", "load", "cas"}]
  /\ word \in [Threads -> WordIds]
  /\ book_old \in [Threads -> SUBSET Bits]
  /\ owner \in [Cells -> Threads \cup {NoOne}]

(* The free bits are exactly the cells that nobody has: no cell leaks and  *)
(* none can be handed out while somebody has it.                           *)
BooksMatchOwners ==
  \A cell \in Cells : IsFree(cell) <=> owner[cell] = NoOne

(* A cell never passes from one thread to another without being freed.     *)
NoDoubleAlloc ==
  [][\A cell \in Cells : owner[cell] = NoOne \/ owner'[cell] \in {NoOne, owner[cell]}
    ]_storVars

(* Lock freedom: the threads do not all spin for ever while a cell is free. *)
SomeAllocReturns ==
  []<>((\E t \in Threads : apc[t] = "idle") \/ \A cell \in Cells : ~IsFree(cell))

=============================================================================
