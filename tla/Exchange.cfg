SPECIFICATION SceneSpec
CONSTANTS
  Keys = {"a", "b", "c"}
  OnlyKey = "a"
  Infos = {1, 2}
  Capacity = 2
  MaxUsageLineBytes = 3
  MaxExchanges = 4
INVARIANTS
  CutsDoNotMatter
  ShortOnlyIfDropped
  BlameHasGrounds
  EveryCutIsLogged
PROPERTY
  KeepsOrder
