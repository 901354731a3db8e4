SPECIFICATION Spec
CONSTANTS
  plain = plain
  keyed = keyed
  hinted = hinted
  None = None
  MaxObservations = 2
  RecoveryObservations = 2
  Keys = {"k"}
  Files <- OneRun
  SaveEvery = 2
  MaxRestarts = 1
  Calls = {plain, keyed, hinted}
  Key <- Keyed
  Hint <- OneHint
  Offered <- Less
  Successes = {TRUE}
  Peaks = {0, 2}
  MaxRetries = 1
  MaxCrashes = 2
CHECK_DEADLOCK FALSE
INVARIANT TypeOK
INVARIANT CleanExitSavesAll
INVARIANT SkippedKeepsFloor
PROPERTY FileIsOneSnapshot
PROPERTY RestartsFromFile
PROPERTY StaysWarm
PROPERTY FloorsRatchet
