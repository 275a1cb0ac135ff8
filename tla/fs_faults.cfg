SPECIFICATION Spec
CONSTANTS
  a = a  ab = ab  t1 = t1  t2 = t2  w1 = w1  w2 = w2  x = x
  Dbs = {a}
  Tables = {t1, t2}
  DbOpt = DbOpt  OptInFrm = OptInFrm
  LongerName <- NoLongerName
  Bytes = {x}
  TempContents <- EmptyOrWritten
  Zero = Zero
  MaxSize = 1
  Absent = Absent
  Threads = {w1}
  NoThread = NoThread  Closed = Closed  NoPath = NoPath
  MaxFaults = 1
INVARIANT
  RenameKeepsTable
