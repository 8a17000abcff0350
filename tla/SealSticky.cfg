\* The platform's pushes only, two items.
SPECIFICATION Spec
CONSTANTS
  Handlers = {platform}
  MaxItems = 2
  None = None
  CheckByte = CheckByte
CHECK_DEADLOCK FALSE
INVARIANT ItemNeedsBothLocks
