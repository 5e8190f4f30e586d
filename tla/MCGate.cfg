CONSTANTS
  ClientTimeoutMs = 60000
  ExpectCpuset = 2
  Arms <- DocumentedArms
  MaxLost = 1
SPECIFICATION Spec
INVARIANTS OneArmPerEvidence AcceptedHadItsCore LostEvidenceRejects
CHECK_DEADLOCK FALSE
