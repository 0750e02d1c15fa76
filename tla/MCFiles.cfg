SPECIFICATION MCSpec
CONSTANTS
  Parts = {"backend", "enroll", "tools", "attest", "recall", "artifacts", "assayer"}
  Bytes = {1, 2}
  MaxChanges = 2
  Enrollers = {1, 2}
  Tools = {1, 2}
  Capabilities <- MCCapabilities
  MaxRows = 2
  Texts = {1, 2}
  FileCount = 2
  Worlds <- MCWorlds
  Protected = {}
  MaxEdits = 1
  MaxSnaps = 3
  Payloads = {1, 2}
  Passing = {1}
  MaxTampers = 2
  MaxVersions = 2
  MaxEvals = 2
  MaxMeddling = 3
INVARIANTS ExecutedIsVerified TrustRecordsHold RestoreUndoable ArtifactsSound
CHECK_DEADLOCK FALSE
