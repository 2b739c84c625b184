SPECIFICATION GiveBackSpec
CONSTANTS
  w1 = w1
  o1 = o1
  o2 = o2
  Window <- OneWindow
  Occurrence <- TwoOccurrences
  UserQueue <- UsersQueue
  UserTrack = 1
  SourceCount = 2
  MaxEntry = 2
  MaxReload = 0
  Upsets <- NativeUpsets
  MaxUpsets = 1
CHECK_DEADLOCK FALSE
INVARIANTS TicketLeadsToNext ReleasedIsGivenBack
PROPERTY GivenBackInOrder
