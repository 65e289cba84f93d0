\* Three requests under way at once, one thrown statement.
SPECIFICATION Spec
CONSTANTS
  a1 = a1
  a2 = a2
  Artifacts = {a1, a2}
  Size <- MCSize
  MaxBytes = 2
  MaxItems = 2
  KindOf <- MCKindOf
  NewerThan <- MCNewerThan
  Ids = {d1}
  Requests <- Handlers
  q1 = q1
  q2 = q2
  q3 = q3
  Bodies <- OwnerBodies
  PresetKeys = {"generated_document", "deck"}
  None = None
  MaxRequests = 3
  MaxFaults = 1
INVARIANTS
  ReferencedStayPinned
  DownloadsAreBooked
  PublicGetsPublished
  ArchivesAreCurrent
SYMMETRY Symmetric
CHECK_DEADLOCK FALSE
