SPECIFICATION Spec
CONSTANT MaxStarts = 3
INVARIANT LocalViewWontBeNil
CHECK_DEADLOCK FALSE
