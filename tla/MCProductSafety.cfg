\* The limits of the code.  The loop never clears the counter.
CONSTANTS
  CrashLimit = 3
  CountMax = 255
SPECIFICATION SafetySpec
INVARIANT EarlyCrashCleared
