SPECIFICATION Spec
CONSTANTS
  Builders = {b1, b2}
  Paths = {a}
  ImageNames = {i}
  Containers = {c1, c2}
  Keys = {k1, k2}
  Contents = {v1, v2, bad}
  Good = {v1, v2}
  NoArchive = NoArchive
  NoContainer = NoContainer
  NoImage = NoImage
SYMMETRY MCSymmetry
INVARIANTS
  TypeOK
  NothingLeft
  ContainersApart
  OneContent
PROPERTIES
  PublishesOnce
