SPECIFICATION Spec
CONSTANTS
  Threads = {t1, t2, t3}
  Callbacks = {f, g}
  MaxUnread = 2
INVARIANTS InstalledIsLive NotReplacedUnderCall NoGap LoggerAlive
PROPERTY AssignedOutOfSight
