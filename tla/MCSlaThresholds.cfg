\* Two instances, an escalation before the due date, a notification of the manager on it.
CONSTANTS
  tier1 = tier1
  tier2 = tier2
  Instances = {i1, i2}
  Thresholds = {1, 2}
  Due = 2
  Escalates = {1}
  TargetOf <- Targets
  Managed = {2}
  NoUser = {}
  Assignees = {tier1, tier2}
  Nobody = Nobody
  NoOp = NoOp
  MaxPercent = 3
  MaxFaults = 1
  MaxEdits = 1
SPECIFICATION FairSpec
INVARIANTS EscalatedWasAssigned
PROPERTIES ImplementsEscalations ThresholdIsRecorded
