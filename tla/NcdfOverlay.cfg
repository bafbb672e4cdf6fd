SPECIFICATION Spec
CONSTANTS
  noon = noon
  midnight = midnight
  row = row
  NoData = NoData
  Data <- MCData
  Thin = {row}
SYMMETRY Symmetry
INVARIANTS
  TypeOK
  FrameIsCurrent
  LutIsOfCurrentStep
