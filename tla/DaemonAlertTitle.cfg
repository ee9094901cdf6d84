SPECIFICATION Spec
CONSTANTS
  Job <- MCJob
  MaxFailures = 3
PROPERTY LimitArms
