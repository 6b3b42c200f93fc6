SPECIFICATION Spec
CONSTANTS
  Markets = {stocks}
  MaxFaults = 3
INVARIANTS TypeOK KillSafety ErrorsAreCleared AckedKillHolds StoreIsCurrent LogTellsTheStory
PROPERTIES RecoveredBeforeServing KeepsLicence
