SPECIFICATION Spec
CONSTANTS
  EventType = {1, 9, 12, 14}
  FileWords <- SomeWords
  MaxDevices = 3
  Usages <- AllUsages
  Commands <- MCCommands
  Requests <- MCRequests
  Cores = {2, 4}
INVARIANTS
  EventWithin TriggerOwned FilesKept InEffect
PROPERTIES
  RefusedChangesNothing
