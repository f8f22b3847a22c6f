SPECIFICATION FirstFairSpec
CONSTANTS
  scenes = scenes
  streaming = streaming
  mic = mic
  projection = projection
  a = a
  b = b
  Value = {a, b}
  Projection = projection
  Blank = Blank
  Absent = Absent
  Unknown = Unknown
  NotRead = NotRead
  Essential = {scenes}
  Lists = {scenes}
  Selections = {}
  Inputs = {mic}
  Plan <- InputPlan
  MaxRetries = 2
  MaxChanges = 2
  MaxFailures = 0
PROPERTY EndsCaughtUp
CHECK_DEADLOCK FALSE
