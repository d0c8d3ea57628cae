SPECIFICATION Spec
CONSTANTS
  Units = {u1}
  Locales = {l1}
  Ids = {i1, i2}
  NoHead = NoHead
  NoRequest = NoRequest
  A = A
  B = B
  x1 = x1
  x2 = x2
  Wordings <- MCWordings
  Texts <- MCTexts
  Renders <- MCRenders
  Offers <- MCOffers
  Writers = {c1, c2}
  Syncers = {s1}
  MaxSources = 3
INVARIANTS
  TypeOK
  NoFork
  RecordedWordingIsTrue
  AckedMeansStored
PROPERTIES
  HeadNeverRestored
  ImplementsLedger
