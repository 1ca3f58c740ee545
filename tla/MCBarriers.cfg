SPECIFICATION BarriersSpec
CONSTANTS
  Process = {p1, p2, p3, p4}
  Thread = {t1, t2, t3}
  NoThread = NoThread
  Rounds = 3
INVARIANTS TypeOK GenerationInv SemTypeOK CountingInv PostsUsedUp
PROPERTIES ImplementsBarrier SemImplementsBarrier BarriersOpen
