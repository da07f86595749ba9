\* Streams of other programs that lack rows.
SPECIFICATION Spec
CONSTANTS
  Width = 2
  Height = 2
  OutputBuffer = 2
  InputBuffer = 2
  Strangers = {"short", "dictionary"}
PROPERTY MissingRowsAreRefused
\* An image is written and read once.
CHECK_DEADLOCK FALSE
