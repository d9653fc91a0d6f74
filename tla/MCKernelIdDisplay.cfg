\* Display of ids whose info is a string of up to two characters.
SPECIFICATION Spec
CONSTANTS
  NoInfo = NoInfo
  Infos <- StrDebugInfos
INVARIANT
  DisplayNeverPanics
\* Display returns or panics; nothing follows.
CHECK_DEADLOCK FALSE
