\* Tables that use every bit of a word: num_inputs = 5.
SPECIFICATION Spec
CONSTANTS
  Half = 4
  WordValues = {0, 3, 4, 6}
  NumWords = 1
  MaxOutputs = 4
  NoKey = NoKey
INVARIANTS
  SameKey
