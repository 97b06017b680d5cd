SPECIFICATION Spec
CONSTANTS
  Streams = {s1, s2, s3}
  Teachers = {s1}
  Slots = 2
  Modulus = 8
  FirstNumbers = {3}
  PublishRequests = {{s2, s3}}
  None = None
  MaxParticipants = 2
  MaxLeaves = 1
  MaxInputs = 2
SYMMETRY Symmetry
INVARIANTS LinksAreConsistent ParticipantIsLinked
PROPERTIES NumbersContinue
CHECK_DEADLOCK FALSE
