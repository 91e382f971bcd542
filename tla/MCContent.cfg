CONSTANTS
  drama = drama
  comedy = comedy
  welles = welles
  Tags = {drama, comedy, welles}
  KindOf <- KindOfTag
  Asks <- ListedTags
  Titles = {t1, t2}
  MaxMovies = 2
  Users = {u1, u2}
  Infos = {i1}
  MaxFiles = 2
  Workers = {w1, w2}
  None = None
SPECIFICATION EditSpec
INVARIANTS
  TypeOK
  NoDanglingLink
  TitleOnce
  AvatarIsStored
PROPERTIES
  NothingHalfMade
  EditIsWhole
  LoneEditReplaces
  NoLostEdit
CONSTRAINT OnePart
SYMMETRY Symmetry
CHECK_DEADLOCK FALSE
