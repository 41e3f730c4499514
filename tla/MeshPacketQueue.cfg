CONSTANTS
  us = us
  other = other
  Us = us
  Nodes <- MCNodes
  Ids <- MCIds
  Priorities <- MCPriorities
  MaxLen = 3
  MaxSends = 5
SPECIFICATION Spec
INVARIANTS TypeOK Sorted FirstComeFirstServed
PROPERTY EvictsOnlyTheLast
