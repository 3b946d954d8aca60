SPECIFICATION AudFairSpec
CONSTANTS
  d1 = d1
  d2 = d2
  Nothing = Nothing
  AudioDevices = {d1, d2}
  FixedLevel = {d2}
  AudioBudgets <- BothUsers
PROPERTY AudioSettles
CHECK_DEADLOCK FALSE
