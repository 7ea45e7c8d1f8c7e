CONSTANTS
  Within <- SpeltWithin
  Begins <- SpeltBegins
  Ends <- SpeltEnds
  MaxText = 5
  MaxPage = 2
  MaxItems = 2
  MaxPatches = 2
  Cases <- AllCases
SPECIFICATION IntakeSpec
CHECK_DEADLOCK FALSE
INVARIANTS IntakeInv NothingLost SpansMatchText OneExtractionPerClause AutoAdvanceJustified
PROPERTIES EditsLand ImplementsScreening
