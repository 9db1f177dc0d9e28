CONSTANTS
  CellsPerBlock = 6
  Depths = {0, 1, 2}
  Modes = {"NONE", "CTI"}
  Fill = Fill
  Blank = Blank
  Wild = Wild
  MaxBlocks = 10
  MaxEvents = 2
  Degree = 4
  LowTerms = {0, 1}
  Lengths <- ShortCodes
  NoisyBits = {0, 1, 5, 8}
  MaxNoise = 3
  SmallSpec <- SmallMatrix
  SmallQ = 2
  SmallRate = 5
  Unit = 65536
  Confidences = {3}
  MaxIterations = {2}
  MaxDoubts = 2
  Fft = 4
  PrefixLengths = {0, 1, 2, 3, 4}
  Fractions <- MCFractions
  MaxSymbols = 3
  MaxSamples = 40
  MaxChanges = 3
  BaseFft = 32
  Active <- MCActive
  Continual = {2, 5, 11, 14, 20, 25}
  Patterns <- MCPatterns
  Requests <- MCRequests
  MaxIndex = 5
  Sizes = {0, 1, 2, 5, 6, 8, 11, 12}
  Carriers = {6, 9}
  MaxCalls = 3
  BandFft = 12
  BandActive <- MCBandActive
  BandContinual = {3}
  BandPatterns <- MCBandPatterns
  BandRequests <- MCBandRequests
  MaxBand = 2
  Channels <- MCChannels
  Sent <- MCSent
  Alpha <- Half
  Noise = 1
  SizeT = 256
  Phases = {0, 3}
SPECIFICATION BandAlone
INVARIANT EqualizedAtItsCarrier
CHECK_DEADLOCK FALSE
