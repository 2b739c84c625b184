SPECIFICATION Spec
CONSTANTS
  Resource <- MCResource
  Foreign <- MCForeign
  UserOrder = 1
  MaxEntry = 2
  MaxPosted = 1
  MaxRows = 2
  MaxEdits = 1
INVARIANTS RowsExact ChangedNamesPlaying AsksForNext
PROPERTY SupersededNeverLands
