SPECIFICATION Spec
CONSTANTS
  Devices <- SomeDevices
  Masks <- SomeMasks
  Faults <- SomeFaults
  Bases <- SomeBases
  MaxRequests = 2
INVARIANTS TableFirst HandlerSeesFrame StackBounded MasksRestored OwnVectors ApicAnswers
CHECK_DEADLOCK FALSE
