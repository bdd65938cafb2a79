SPECIFICATION Spec
CONSTANTS
  Names <- MCNames
  Activelink = 1
  Index = 2
  Sitemap = 4
  Css = {5}
  Html = {2, 4}
  Sizes = {1, 3}
  Texts <- MCTexts
  RedirectSize = 1
  MetadataSize = 1
  MaxManifestSize = 8
  MaxNumberSeparate = 1
INVARIANTS TypeOK WellChosen SamePlan QuietUnlessForced NothingLeftOut LimitKept
