SPECIFICATION DictSpec
CONSTANTS
  Short = Short
  Medium = Medium
  Long = Long
  Huge = Huge
  Texts = {Short, Medium, Long, Huge}
  TextLen <- Lengths
  Rows = {1, 2, 3}
  MaxBuffer = 3
INVARIANT VerifiedIndexIsBound
CHECK_DEADLOCK FALSE
