CONSTANTS
  Within <- SpeltWithin
  Begins <- SpeltBegins
  Ends <- SpeltEnds
  MaxText = 1
  MaxPage = 1
  MaxItems = 1
  MaxPatches = 1
  Cases <- InvalidReplyCases
SPECIFICATION IntakeSpec
CHECK_DEADLOCK FALSE
INVARIANT ValidationRequiresReview
