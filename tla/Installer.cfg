SPECIFICATION FairSpec
CONSTANTS
  Size <- TwoSizes
  Base = 4
  Bases = {0, 4}
INVARIANTS
    Installed
    FsWhole
    FilesThere
PROPERTIES
    FilesKept
    AnalysisEnds
