CONSTANTS
  Words = 2
  Unit = 2
  Threads = {t1, t2, t3}
  NoOne = NoOne
SPECIFICATION FairSpec
INVARIANTS
  TypeOK
  BooksMatchOwners
PROPERTIES
  NoDoubleAlloc
  SomeAllocReturns
