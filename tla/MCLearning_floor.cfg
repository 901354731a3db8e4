SPECIFICATION Spec
CONSTANTS
  plain = plain
  keyed = keyed
  hinted = hinted
  None = None
  MaxObservations = 3
  RecoveryObservations = 2
  Keys = {"k"}
  Files = {}
  SaveEvery = 2
  MaxRestarts = 0
  Calls = {plain, keyed, hinted}
  Key <- Keyed
  Hint <- OneHint
  Offered <- Less
  Successes = {TRUE, FALSE}
  Peaks = {0, 2}
  MaxRetries = 1
  MaxCrashes = 1
CHECK_DEADLOCK FALSE
PROPERTY FloorNeedsFreshEvidence
