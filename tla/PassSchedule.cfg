SPECIFICATION PipelineSpec
CONSTANTS
  N = 99
  Sizes <- PipelineSizes
  Stages <- PipelineStages
  MaxIterations = 2
  Totals <- PipelineTotals
  Stamps <- PipelineStamps
INVARIANTS
  InputsFresh
  NeverOverlap
