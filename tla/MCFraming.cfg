\* Headers up to one byte over the cap, bodies up to one byte over theirs, and
\* reads that can hold both, as READ_BUF can.
CONSTANTS
  HTTP_MAX_HEADERS = 3
  READ_BUF = 6
  UPLOAD_MAX_BYTES = 3
  MaxHead = 5
  MaxSent = 5
  Flaws <- MCFlaws
SPECIFICATION Spec
CHECK_DEADLOCK FALSE
INVARIANTS SplitDoesNotMatter BufferIsBounded
PROPERTIES EverythingIsAnswered
