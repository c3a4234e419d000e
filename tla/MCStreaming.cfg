SPECIFICATION Spec
CONSTANTS
  ENDPOINT_BLANK_THRESHOLD = 2
  MAX_TOKENS_PER_STEP = 2
  HOP_LENGTH = 2
  N_FFT = 4
  MAX_BUFFER_SAMPLES = 12
  ENCODER_SUBSAMPLING = 2
  chunk_size = 6
  MaxFileSamples = 14
  Sizes = {2, 5, 13}
  MaxSamples = 18
  MaxTokens = 3
INVARIANTS GreedyTypeOK StreamTypeOK EndpointIffPause TokensOnce SamplesOnce WordTimesGrow
PROPERTIES ImplementsRnnt DecodeProgress
CHECK_DEADLOCK FALSE
