CONSTANTS
  Contents = {base, new}
  Base = base
  NoFile = NoFile
  Long <- AddedIsLong
  Cut = Cut
  Publishers = {p1, p2}
  NoCommit = NoCommit
  MaxEdits = 2
  MaxChecks = 1
  MaxReviews = 2
  CommitIds = {1, 2, 3, 4, 5}
SPECIFICATION Spec
SYMMETRY Symmetry
CHECK_DEADLOCK FALSE
INVARIANTS
  TypeOK
  PublishedIsReviewed
  FirstRejectionStands
  RecordIsPublished
