SPECIFICATION Spec
INVARIANTS TypeOK ToldWorkerRemembers NoWorkAfterCancel 
PROPERTIES InFlightCancelEnds
