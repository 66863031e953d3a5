SPECIFICATION AlgSpec
CONSTANTS
  MaxDeps = 3
  NSEC = 4
  FracBits = 16
  SecBits = 16
  WordBits = 4
  ServoWord = 5
  RelBits = 4
  RelHalf = 8
  BoolSyms = {"B"}
  TriSyms = {"T"}
  IntValues = {1, 20}
  MaxEdits = 1
  MaxRuns = 3
INVARIANTS
    ServoMathExact  DependenciesSound
  ConfigComesBack BuildCurrent
CHECK_DEADLOCK FALSE
