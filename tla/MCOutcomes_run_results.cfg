SPECIFICATION Spec
CONSTANTS
  Runs = {"ra", "rb"}
  Stories <- MCStories
  Nodes = {"a", "b", "c"}
  MaxExecs = 5
  Tales <- MCTales
  Task = "m1"
  Episodes <- MCEpisodes
  Occasions <- MCOccasions
INVARIANT HistoryHolds
PROPERTIES ResultsHold CancelEnds SlotsHold RevisionHolds
\* A part comes to rest when its bounds are used up.
CHECK_DEADLOCK FALSE
