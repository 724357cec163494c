CONSTANT MaxMessages = 3
SPECIFICATION Spec
INVARIANTS FoundUnlessTogether OnceUnlessHalfStarted
PROPERTIES FaultEndsProcess EveryMessageRuns
CHECK_DEADLOCK FALSE
