\* A file of one block and one of two, three errors and three breaks.
SPECIFICATION Spec
CONSTANTS
  Names <- MCNames
  Overlaid <- MCOverlaid
  Size <- MCSize
  MAXRETRANS = 3
  MaxTries = 2
  MaxErrors = 3
  MaxBreaks = 3
INVARIANTS TypeOK UploadWhole FetchWhole
PROPERTY Transferred
