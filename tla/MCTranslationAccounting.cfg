SPECIFICATION AccountingSpec
CONSTANTS
  u1 = u1
  l1 = l1
  i1 = i1
  i2 = i2
  i3 = i3
  j1 = j1
  j2 = j2
  A = A
  x1 = x1
  a1 = a1
  a2 = a2
  NoHead = NoHead
  NoIntent = NoIntent
  NoAllowance = NoAllowance
  NoCharge = NoCharge
  Units <- MCUnits
  Locales <- MCLocales
  Ids <- MCIds
  Jobs <- MCJobs
  Slot <- MCSlot
  EditorIds <- MCEditorIds
  Wordings <- MCWordings
  Texts <- MCTexts
  Renders <- MCRenders
  Offers <- MCOffers
  FailureCodes <- MCFailureCodes
  Allowances <- MCAllowances
  Limit <- MCLimit
  MaxRequests <- MCMaxRequests
  MaxConcurrent <- MCMaxConcurrent
  Amounts <- MCAmounts
  Charges <- MCCharges
  MaxAttempts = 2
  MaxSources = 1
INVARIANTS
  SpentMeansDispatched
  UnknownBlocksRetry
  WithinCounts
  WithinLimit
PROPERTIES
  SpentIsFinal
  ImplementsJobs
CHECK_DEADLOCK FALSE
