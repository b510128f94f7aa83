\* Two inputs, up to three gates and three outputs.
SPECIFICATION Spec
CONSTANTS
  Threads = {t1}
  NoThread = NoThread
  MaxGates = 3
  MaxOutputs = 3
  Group = 128
  MaxRestarts = 0
  NumInputs = 2
  NoKey = {}
  Keys <- PipelineKeys
  OutputsOf <- PipelineOutputsOf
  HypSize <- PipelineHypSize
  Files <- PipelineFiles
INVARIANTS
  DatalogsTellTheTruth
