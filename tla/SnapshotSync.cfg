SPECIFICATION Spec
CONSTANTS
  scenes = scenes
  streaming = streaming
  mic = mic
  projection = projection
  a = a
  b = b
  Value = {a, b}
  Projection = projection
  Blank = Blank
  Absent = Absent
  Unknown = Unknown
  NotRead = NotRead
  Essential = {scenes}
  Lists = {scenes}
  Selections = {streaming}
  Inputs = {}
  Plan <- OutputPlan
  MaxRetries = 2
  MaxChanges = 2
  MaxFailures = 1
INVARIANT StaleInv
CHECK_DEADLOCK FALSE
