CONSTANTS
  Values = {"v", "w"}
  MaxItems = 2
  MaxCopies = 1
SPECIFICATION CopySpec
INVARIANT CopyTypeOK
PROPERTIES WritesStayPrivate CopiesLookTheSame
CHECK_DEADLOCK FALSE
