SPECIFICATION Spec
CONSTANTS
  NumBlocks = 3
  PerRequest = 2
  BlockLen = 2
  LastLen = 1
  HeaderLen = 1
  BitsPerByte = 2
  MaxRetries = 1
  MaxAttempts = 2
  MaxRepeats = 1
INVARIANTS
  BootsWholeImage
  NothingSkipped
  FlashWrittenOnce
PROPERTIES
  DownloadEnds
