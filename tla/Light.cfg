SPECIFICATION LightFairSpec

CONSTANTS
  Hold = 2
  Raws = {0, 1, 2}
  NoRaw = NoRaw
  RawThreshold = 1
  RawRises = FALSE
  Brightnesses = {0, 1}
  ImageThreshold = 1

INVARIANTS
  LightTypeOK

PROPERTIES
  AdoptedUninterrupted
  LastingSceneAdopted
