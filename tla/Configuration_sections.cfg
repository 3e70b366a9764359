CONSTANTS
  CommandLine <- MCCommandLine
  File <- MCFile
  Atoi <- MCAtoi
SPECIFICATION Spec
CHECK_DEADLOCK FALSE
INVARIANTS OneSectionAllowed
