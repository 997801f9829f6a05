CONSTANTS
  Characters <- MCCharacters
  Names <- MCNames
  Configs <- MCConfigs
  Uris <- MCUris
  Files = {old, new}
  Missing = Missing
  Directory = Directory
  Nowhere = Nowhere
  MaxChanges = 1
SPECIFICATION StaticSpec
INVARIANTS
  TypeOK
  LoopInvariant
  RoutesToLongest
  NameOfConfig
  
