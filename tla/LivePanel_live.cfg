SPECIFICATION LiveSpec
CONSTANTS
  None = None
  MaxCalls = 2
  MaxEvents = 2
INVARIANTS
  OneOfEach
  KeepsTrying
  StoppedAsksSignIn
PROPERTIES
  ShownIsLive
  SignInResumes
CHECK_DEADLOCK FALSE
