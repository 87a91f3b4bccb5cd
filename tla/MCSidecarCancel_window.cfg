SPECIFICATION Spec
INVARIANT AnsweredCancelHolds
