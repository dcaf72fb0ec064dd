SPECIFICATION VaultSpec
CHECK_DEADLOCK FALSE
CONSTANTS
  VaultCalls = {k1, k2}
  Principals = {p1, p2}
  Sensitive = {pii}
  RecordTypes = {notes}
  Payloads = {x1}
  Fields = {f1}
  Null = Null
INVARIANTS ReleaseIsAudited
