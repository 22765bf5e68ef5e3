SPECIFICATION TrafficSpec
CONSTANTS
  Ifaces = {1}
  MonthLengths <- MCMonthLengths
  FirstDay = 4
  MaxDay = 6
  ResetDays = {1, 3}
  Corrections = {1}
  MAX = 2
  MaxBytes = 2
  MaxUpheavals = 2
INVARIANTS
  FiguresMatchCalendar
PROPERTIES
  BooksOnlyWhatCrossed
  BooksAllThatCrossed
