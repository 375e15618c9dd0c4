CONSTANTS
  t1 = t1
  t2 = t2
  Threads = {t1, t2}
  Users = {t1, t2}
  Readers = {t1}
  Natives = {}
  Openers = {t1}
  Closers = {}
  LinkDrops = FALSE
  RefMod = 4
  Blocks = 2
  MaxLag = 1
  MaxQueue = 0
  MaxLog = 1
  NoThread = NoThread
  NoItem = NoItem
SPECIFICATION Spec
INVARIANT HeldThroughout
