\* From the module to the pictures of its graphs.  A count that is absent is
\* std::nullopt in the graph and in the profile.
SPECIFICATION DynamicSpec
CONSTANTS
  None = None
  NoCount = None
  Null = Null
  Log1p <- MCLog1p
  Modules <- MCDynamicModules
  MaxRevisits = 4
  MaxThreads = 1
  MaxLost = 1
  Texts = {"none"}
INVARIANTS GraphSurvivesFiles PictureIsWhole PictureTellsTheRun HeatTellsTheRun
\* A program ends, dies or reaches the bound.
CHECK_DEADLOCK FALSE
