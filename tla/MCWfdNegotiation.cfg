CONSTANTS
  NIdx <- MCNIdx
  Table <- MCTableFn
  RealIdx <- MCRealIdx
  SetterCells <- MCSetterCells
  UptoCells <- MCUptoCells
  Profiles <- MCProfiles
  Levels <- MCLevels
  Foreign <- MCForeign
SPECIFICATION Spec
INVARIANT PickBestFormatChoosesBestCommon
PROPERTY ExchangePreservesSinkFormats
INVARIANT ParsedViewIsBestOffer
