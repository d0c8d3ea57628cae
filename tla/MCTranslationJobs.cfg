SPECIFICATION JobsSpec
CONSTANTS
  u1 = u1
  l1 = l1
  i1 = i1
  i2 = i2
  i3 = i3
  j1 = j1
  j2 = j2
  A = A
  B = B
  x1 = x1
  NoHead = NoHead
  NoIntent = NoIntent
  Units <- MCUnits
  Locales <- MCLocales
  Ids <- MCIds
  Jobs <- MCJobs
  Slot <- MCSlot
  EditorIds <- MCEditorIds
  Wordings <- MCWordings
  Texts <- MCTexts
  Renders <- MCRenders
  Offers <- MCOffers
  FailureCodes <- MCFailureCodes
  MaxAttempts = 2
  MaxSources = 2
INVARIANTS
  JobsTypeOK
  EveryDispatchAccountedFor
  CompletedMeansStored
  HumanEditsStand
PROPERTIES
  OneDispatchPerLease
  TerminalIsFinal
  JobsImplementLedger
CHECK_DEADLOCK FALSE
