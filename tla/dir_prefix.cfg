SPECIFICATION Spec
CONSTANTS
  a = a  ab = ab  t1 = t1  t2 = t2  w1 = w1  w2 = w2  x = x
  Dbs = {a, ab}
  Tables = {t1}
  DbOpt = DbOpt  OptInFrm = OptInFrm
  LongerName <- Prefixed
  Bytes = {x}
  TempContents <- Written
  Zero = Zero
  MaxSize = 2
  Absent = Absent
  Threads = {w1}
  NoThread = NoThread  Closed = Closed  NoPath = NoPath
  MaxFaults = 0
INVARIANT
  DirListsFolder
