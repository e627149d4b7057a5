SPECIFICATION Spec
CONSTANTS
  Kinds = {"terminal", "exec", "pod", "journal", "docker", "sheet", "stats", "overview"}
  Keys = {a, b}
  NoKey = none
  Commands = {sh, c}
  NoCommand = none
  Shell = sh
  MaxSockets = 2
  MaxLines = 2
  MaxFrames = 3
  MaxSamples = 2
INVARIANTS
  SocketWanted
  LinesOfKey
  LiveIsLive
PROPERTIES
  ResetComesBack
  Reconnects
  OverviewCatchesUp
