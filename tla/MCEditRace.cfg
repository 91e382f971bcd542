CONSTANTS
  drama = drama
  comedy = comedy
  welles = welles
  Tags = {drama, comedy, welles}
  KindOf <- KindOfTag
  Asks <- ListedTags
  Titles = {t1}
  MaxMovies = 1
  Users = {u1}
  Infos = {i1}
  MaxFiles = 0
  Workers = {w1, w2}
  None = None
SPECIFICATION EditSpec
PROPERTIES
  EditReplaces
SYMMETRY Symmetry
CHECK_DEADLOCK FALSE
