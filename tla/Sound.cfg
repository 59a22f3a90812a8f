SPECIFICATION Spec
CONSTANTS
  Slots = 2
  MaxFails = 2
INVARIANTS
  WritesReachSpeaker
  SpeakerReleased
PROPERTIES
  WaitsEnd
  SaveIsAsked
