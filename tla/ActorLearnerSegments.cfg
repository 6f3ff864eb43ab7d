SPECIFICATION Spec
CONSTANTS
  Adaptive = {insert}
  Scripted = {home}
  insert = insert
  reach = reach
  home = home
  StartPrimitive = insert
  StreamImmediately = {}
  MaxEnvSteps = 2
  Bc = {}
  Limited = {insert}
  Warmup = 1
  BufferCapacity = 1
  Budget = 1
  Broken = {}
  Interventions = {1}
  MaxPushed = 1
  MaxReceived = 1
INVARIANTS RerecordLeavesNoTrace ReportedStepsAdvance
PROPERTIES ActorExits
CHECK_DEADLOCK FALSE
