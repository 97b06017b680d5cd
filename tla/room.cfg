SPECIFICATION AllSpec
CONSTANTS
  Ids = {1, 2, 3, 4}
  Streams = {1, 2, 3}
  Early = {2, 3}
  Joiners = {1}
  Leavers = {2}
  Threads = {1, 2}
  ContinueMutePackets = 1
  MaxRounds = 1
  MaxInputs = 2
  Speakers = {1, 2}
  Energies = {1, 2, 7}
  Silence = 1
  FrameSize = 4
  IntRange = 16
INVARIANTS NobodyWaitsInVain FlagsAgree VoicesAreRight RoundsAreServed
PROPERTIES SpeakerIsLoudest
CHECK_DEADLOCK FALSE
