CONSTANTS
  t1 = t1
  Threads = {t1}
  Users = {t1}
  Readers = {t1}
  Natives = {t1}
  Openers = {t1}
  Closers = {t1}
  LinkDrops = TRUE
  RefMod = 2
  Blocks = 3
  MaxLag = 1
  MaxQueue = 3
  MaxLog = 1
  NoThread = NoThread
  NoItem = NoItem
SPECIFICATION FairSpec
INVARIANT TypeOK
INVARIANT CleanFrame
PROPERTY OwnReply
PROPERTY OperationReturns
