\* Tables of at most half a word: num_inputs <= 4.  With the strings made of
\* them, for two inputs.
SPECIFICATION Spec
CONSTANTS
  Half = 16
  WordValues = {0, 5, 6, 15}
  NumWords = 1
  MaxOutputs = 4
  NoKey = NoKey
  NumInputs = 2
  Wirings <- MCWirings
  sys_outputs <- MCSysOutputs
INVARIANTS
  TypeOK
  SameKey
  DuplicatesDiscarded
  KeyAsParsed
  LineTellsTheTruth
  LoreKeysDiffer
