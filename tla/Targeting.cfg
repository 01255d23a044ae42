SPECIFICATION BuilderSpec
CONSTANTS
  h1 = h1
  h2 = h2
  Hosts = {h1, h2}
  NoHost = NoHost
  Calls = {c1, c2}
  Inputs <- Names
  Data = {d1}
  Creators = {x1, x2}
  TLS = TRUE
  MaxSetters = 3
CHECK_DEADLOCK FALSE
INVARIANT PathIsKept
INVARIANT SettingsAreOfOneMoment
INVARIANT NamesAreDeduplicated
