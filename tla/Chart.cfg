SPECIFICATION ChartSpec
CONSTANTS
  HeaderHeight = 1
  SpacerHeight = 1
  AxisWidth = 2
  TimeAxisHeight = 1
  NavigatorHeight = 2
  Sizes <- MCSizes
  None = None
  MinVisible = 2
  SmallCount = 3
  MinInitial = 3
  MaxInitial = 4
  MinWidth = 4
  Density <- MCDensity
  LabelSpacing = 3
  TickSize = 1
  MinBins = 2
  MaxBins = 4
  BinHeight = 3
  TooltipGap = 1
  TooltipSize <- MCTooltipSize
  Histories <- MCHistories
  Batches <- MCBatches
  Points <- MCPoints
  Resizes <- MCResizes
  Configs <- MCConfigs
  Themes <- MCThemes
  Garbled = Garbled
  HandleWidth = 1
  MaxIncr = 2
  MaxCalls = 4
INVARIANTS
  RangeWithinData
  CachesMatchTheData
  CursorTellsWhatIsHeld
PROPERTIES
  DragKeepsTheOtherEdge
  EveryChangeIsPainted
