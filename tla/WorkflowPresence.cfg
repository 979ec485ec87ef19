SPECIFICATION Spec
CONSTANTS
  Instances = {left, right}
PROPERTIES
  RecordsKept
  LiveInstanceListed
  DeadRecordSwept
  StatusSettles
