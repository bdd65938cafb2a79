CONSTANTS
  Files = {"index", "b"}
  Index = "index"
  Sitemap = "sitemap"
  MaxVersion = 2
  LeftOut <- GrowingSplit
  TakenBack <- NoneBack
  FileJobsFail = TRUE
  Cancels = TRUE
  Crashes = TRUE
  Interrupts = {"exit"}
SPECIFICATION FairSpec
CHECK_DEADLOCK FALSE
INVARIANTS
  TypeOK
  SiteInv
  NoCollision
  UpToDateIsPublished
  ResumeFindsManifest
PROPERTIES
  ManifestComplete
  Converges
