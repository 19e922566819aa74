SPECIFICATION Spec
CONSTANTS
  NumberedRules <- RuleNames
  FixedRules <- FixedNames
  GivenNumbers <- Given
  AppNumbers <- App
  MaxFd = 2
  MaxAttempts = 3
  MaxSequence = 1
  MaxRestarts = 1
  MaxUnusual = 1
INVARIANTS
  NoFileTwice OwnDestination EnvironmentTells
PROPERTIES
  NothingLost NumbersGrow
