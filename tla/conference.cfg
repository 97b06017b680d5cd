SPECIFICATION AllSpec
CONSTANTS
  Ids = {1, 2}
  MaxSeq = 2
  Key = {1}
  MaxReady = 3
  OldIds = {1, 2, 3}
  OldPrebuffering = 0
  MaxOldQueue = 2
  MaxSwitches = 1
  MaxLate = 1
INVARIANTS ElementIsSound
PROPERTIES SwitchIsSound
CHECK_DEADLOCK FALSE
