SPECIFICATION Spec
CONSTANTS
  Keys <- MCKeys
  Scenes <- MCScenes
  Given <- MCGiven
  Loads <- MCLoads
INVARIANT TypeOK
INVARIANT CopyAgrees
INVARIANT RelationsFollowKeys
INVARIANT EagerLoadComplete
