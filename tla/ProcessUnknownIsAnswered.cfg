CONSTANT MaxMessages = 1
SPECIFICATION Spec
PROPERTY UnknownIsAnswered
CHECK_DEADLOCK FALSE
