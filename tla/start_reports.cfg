SPECIFICATION InSpec
CONSTANTS
  MaxVersion = 2  MaxProps = 2  AtOnce = 1
INVARIANT StartSubmitsPlan
CHECK_DEADLOCK FALSE
