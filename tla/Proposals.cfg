CONSTANTS
  a = a  b = b  x = x  y = y  s1 = s1  s2 = s2
  Session = {s1, s2}
  Task = {a, b}
  Slice = {x, y}
  Foreign = nobody
  TriageAnswer <- MCTriageAnswer
  PrdAnswer <- MCPrdAnswer
  PrdOverride <- MCPrdOverride
  ConfiguredRoles <- MCConfiguredRoles
  Typed <- MCTyped
  Declared <- MCDeclared
  MaxTasks = 2
  StartOf <- MCStartOf
  MaxRefinements = 1
  MaxMeddling = 1
  MaxOthers = 1
  MaxFaults = 1
  MaxMishaps = 1
SPECIFICATION Spec
INVARIANTS
    WritesAreSound
PROPERTIES
    
    SessionsReport
    PlanKeepsOrder
