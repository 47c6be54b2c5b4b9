SPECIFICATION Spec
CONSTANTS
  None = None
  Voxel = 2
  MaxEdits = 3
  Shells <- Candidates
  Scenes <- AllScenes
  Drifts <- Differences
  Foreign <- Strangers
INVARIANTS
  PublishedIsSound
  PublishedVerifies
  VerifiedIsSound
  RefusalIsExplained
CHECK_DEADLOCK FALSE
