INIT Nested
NEXT GetoptsNext
INVARIANT OptionsOnce
CHECK_DEADLOCK FALSE
