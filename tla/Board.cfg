SPECIFICATION BoardSpec
CONSTANTS
  p1 = p1
  p2 = p2
  Proc = {p1, p2}
  Command = {"run", "sync", "resolve", "repair", "recover", "triage", "delete"}
  MaxCommands = 3
  MaxSwitches = 1
  MaxEdits = 1
  MaxCrash = 1
  MaxRelabel = 1
  MaxMishaps = 1
SYMMETRY Symmetry
INVARIANTS
    CommandsMend
PROPERTIES
    OthersKept
CHECK_DEADLOCK FALSE
