CONSTANTS
  Files = {"index", "b"}
  Index = "index"
  Sitemap = "sitemap"
  MaxVersion = 2
  LeftOut <- ShrinkingSplit
  TakenBack <- NoneBack
  FileJobsFail = FALSE
  Cancels = FALSE
  Crashes = FALSE
  Interrupts = {}
SPECIFICATION Spec
INVARIANTS
  UpToDateIsPublished
