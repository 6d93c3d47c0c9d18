\* Every byte string of up to five bytes, split into reads in every way.
CONSTANT MaxBytes = 5
SPECIFICATION Spec
INVARIANT ChunksFrameBytesRead
CHECK_DEADLOCK FALSE
