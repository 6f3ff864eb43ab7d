SPECIFICATION Spec
CONSTANTS
  Adaptive = {reach, insert}
  Scripted = {}
  reach = reach
  insert = insert
  StartPrimitive = insert
  StreamImmediately = {reach}
  MaxEnvSteps = 2
  Bc = {reach}
  Limited = {insert}
  Warmup = 1
  BufferCapacity = 1
  Budget = 2
  Broken = {2}
  Interventions = {1}
  MaxPushed = 2
  MaxReceived = 2
INVARIANTS NewestApplied UpdatesBacked
CHECK_DEADLOCK FALSE
