CONSTANTS
  Users = {u1, u2}
  Movies = {m1, m2}
  Moderators = {u2}
  Scores = {1, 10}
  Workers = {w1, w2}
  ReactionEndpoints <- AllReactionEndpoints
  MaxRows = 3
  MaxFavorites = 2
SPECIFICATION Spec
INVARIANTS
  TypeOK
  OneReactionPerUser
  NoOrphanReply
  ReplyIsNotified
  NothingOnDeletedMovie
PROPERTIES
  ImplementsOpinions
SYMMETRY Symmetry
CHECK_DEADLOCK FALSE
