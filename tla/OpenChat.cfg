SPECIFICATION ChatSpec
CONSTANTS
  Rooms = {r1, r2}
  Others = {o1}
  Me = me
  Cap = 2
  MaxSent = 2
  MaxOwn = 1
  MaxQueue = 2
  MaxRepeats = 1
  MaxBreaks = 1
  MaxEntries = 2
INVARIANTS ShownOnce RoomIsHeard
