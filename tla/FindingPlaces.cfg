SPECIFICATION Spec
INVARIANT PlacesPaidOut
CHECK_DEADLOCK FALSE
