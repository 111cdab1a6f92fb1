SPECIFICATION Spec
CONSTANTS
  h1 = h1  h2 = h2  f1 = f1  o1 = o1  dh = dh  df = df  do = do
  owner = owner  friend = friend  s1 = s1  p1 = p1  p2 = p2  t1 = t1  t2 = t2
  None = None
  Conn = {h1, h2, f1, o1}
  Device = {dh, df, do}
  Person = {owner, friend}
  DeviceOf <- MCDeviceOf
  PersonOf <- MCPersonOf
  HostDevice <- MCHostDevice
  Hosting = {h1, h2}
  Terminal = {s1}
  Pipe = {p1, p2}
  Task = {t1, t2}
  Loads <- MCLoads
  MaxDevices = 2
  MaxConnections = 2
  SessionPipes = 1
  DevicePipes = 1
  MaxCalls = 1
INVARIANTS DirectoryRight AccessKept PresenceKnown
CHECK_DEADLOCK FALSE
