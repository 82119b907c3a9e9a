SPECIFICATION FairSpec
CONSTANTS
  Nodes = {1, 2}
  Versions = {"v1", "v2"}
  None = "none"
  Watchers = {"w1", "w2"}
  MaxChanges = 3
  Getters = {"g1"}
  TTL = 1
PROPERTIES CacheConverges LoopsEnd
