SPECIFICATION FairSpec
CONSTANTS
  u1 = u1
  l1 = l1
  i1 = i1
  i3 = i3
  j1 = j1
  A = A
  B = B
  x1 = x1
  x2 = x2
  a1 = a1
  NoHead = NoHead
  NoIntent = NoIntent
  NoAllowance = NoAllowance
  NoCharge = NoCharge
  NoText = NoText
  Units <- MCUnits
  Locales <- MCLocales
  Ids <- MCIds
  Jobs <- MCJobs
  Slot <- MCSlot
  EditorIds <- MCEditorIds
  Wordings <- MCWordings
  Texts <- MCTexts
  Renders <- MCRenders
  Offers <- MCOffers
  FailureCodes <- MCFailureCodes
  Allowances <- MCAllowances
  Limit <- MCLimit
  MaxRequests <- MCMaxRequests
  MaxConcurrent <- MCMaxConcurrent
  Amounts <- MCAmounts
  Charges <- MCCharges
  Policy <- MCPolicy
  Runners = {r1, r2}
  Accounted = FALSE
  MaxAttempts = 2
  MaxSources = 2
PROPERTIES
  EveryJobEnds
  ImplementsQueue
CHECK_DEADLOCK FALSE
