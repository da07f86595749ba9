\* Two rows of two pixels, through buffers smaller than a row.
SPECIFICATION Spec
CONSTANTS
  Width = 2
  Height = 2
  OutputBuffer = 2
  InputBuffer = 2
  Strangers = {"missing", "plain", "filtered", "short", "trailing", "dictionary", "interlaced"}
INVARIANTS
  ImportedIsWhole
  ExportedIsReadable
PROPERTY ImagesEnd
\* An image is written and read once.
CHECK_DEADLOCK FALSE
