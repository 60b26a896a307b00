INIT PathInit
NEXT ParamsNext
INVARIANT TrimsLongestPrefix
CHECK_DEADLOCK FALSE
