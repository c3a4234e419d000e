SPECIFICATION Spec
CONSTANTS
  Processes = {p1, p2}
  encoder = encoder
  vocab = vocab
  speaker = speaker
  int8 = int8
  MODEL_FILES <- TwoModelFiles
  ENCODER = encoder
  INT8 = int8
  SPEAKER_MODEL_FILE = speaker
  Commands <- SomeCommands
  pool_size = 2
  Parts = 2
  None = None
  MaxFaults = 1
INVARIANTS InstallTypeOK VerifiedUnlessShared DamagedHasWriter SuccessIsInstalled
PROPERTIES RecoversAlone
CHECK_DEADLOCK FALSE
