\* c1 can be saved and started from; c2 can be saved, but no HTTP client can
\* be made for it; c3 has no admin key, so it only starts.
SPECIFICATION Spec
CONSTANTS
  Admin = {a1, a2}
  Parsable = {c1, c2, c3}
  Valid = {c1, c2}
  Startable = {c1, c3}
  Torn = torn
  Down = down
  Initial = c1
  Keep = 1
  Most = 2
  Seconds = 1
SYMMETRY Admins
CHECK_DEADLOCK FALSE
INVARIANTS
  TypeOK
  FileStartable
  LiveIsFile
  NoLostUpdate
  BackupKept
