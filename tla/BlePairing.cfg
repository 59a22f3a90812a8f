CONSTANTS
  Hosts = {"nimble", "bluedroid"}
  MaxRetry = 2
  Window = 2
  MaxTime = 5
  MaxUses = 4
  MaxRadio = 5
  MaxBoots = 1
SPECIFICATION PairSpec
INVARIANTS
  WifiGivenBack
  MqttGivenBack
PROPERTY
  WindowEnds
CHECK_DEADLOCK FALSE
