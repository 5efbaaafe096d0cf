SPECIFICATION FairSpec
CONSTANTS
  Threads = {t1, t2, t3}
  Isr = Isr
  Msg = {m1, m2}
  Sz = 2
  NoMsg = NoMsg
  Sent = Sent
INVARIANTS TypeOK SemaphoresConsistent SlotAccounting
PROPERTIES ImplementsChannel FetcherServed
