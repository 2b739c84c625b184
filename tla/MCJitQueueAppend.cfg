SPECIFICATION Spec
CONSTANTS
  Resource <- MCResource
  Foreign <- MCForeign
  UserOrder = 1
  MaxEntry = 2
  MaxPosted = 1
  MaxRows = 1
  MaxEdits = 0
PROPERTIES AppendNeverInterrupts
