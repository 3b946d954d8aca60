SPECIFICATION DevSpec
CONSTANTS
  MaxDisplayRetries = 3
  SessionBudgets <- SessionInstances
  d1 = d1
  d2 = d2
  Nothing = Nothing
  AudioDevices = {d1, d2}
  FixedLevel = {d2}
  AudioBudgets <- AudioInstances
  CameraBudgets <- CameraInstances
  Fingers = {f1, f2, f3}
  PadSlots = 2
  PadFrames = 2
  PadEnds = 1
  Statuses = 2
  Removals = 1
  Readers = {r1, r2}
  Snapshots = 2
  Totals = {0, 2, 3, 5}
  ScanLimit = 4
  DisplayRequests = 3
INVARIANTS
  PowerAfterCleanStop EndsItsOwn  FrameShown
  ContactsKept PointerNeedsApplied  ScansApart HelpersApart
PROPERTIES
  StopsItsOwn SessionEnds AudioFollows CameraFollows
CHECK_DEADLOCK FALSE
