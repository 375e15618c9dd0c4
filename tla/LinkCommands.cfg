CONSTANTS
  t1 = t1
  t2 = t2
  t3 = t3
  Threads = {t1, t2, t3}
  Users = {t1, t2, t3}
  Readers = {}
  Natives = {}
  Openers = {t1}
  Closers = {t1}
  LinkDrops = TRUE
  RefMod = 3
  Blocks = 1
  MaxLag = 0
  MaxQueue = 0
  MaxLog = 0
  NoThread = NoThread
  NoItem = NoItem
SPECIFICATION FairSpec
INVARIANT OneTransaction
INVARIANT HeldThroughout
INVARIANT BusyExact
