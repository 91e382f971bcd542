------------------------------- MODULE Reactions -------------------------------
(***************************************************************************)
(* What users do to a movie besides buying it (routes/movies.py):          *)
(* favorites, likes and dislikes, ratings, comments and replies, while a   *)
(* moderator deletes comments and movies.  The rules of Store.tla hold: a  *)
(* SELECT, and a DELETE that is followed by other statements, is a step of *)
(* its own; writes take effect in the step that commits, or not at all     *)
(* when a unique or foreign key constraint does not hold then (500).       *)
(***************************************************************************)
EXTENDS Integers, FiniteSets

CONSTANTS
  Users, Movies,
  Moderators,  \* the users in the group MODERATOR or ADMIN
  Scores,      \* the scores that ratings take, a part of 1..10
  Workers,     \* the requests the server runs at the same time
  ReactionEndpoints,  \* the endpoints that clients call in this instance
  MaxRows,     \* bound on the likes, ratings and comments ever inserted
  MaxFavorites \* bound on the favorites at a time

AllReactionEndpoints ==
  { "add_favorite", "remove_favorite", "like_movie", "dislike_movie", "cancel_reaction",
    "rate_movie", "delete_rating", "add_comment", "add_reply", "delete_comment",
    "delete_movie" }

ASSUME ReactionConstantsOk ==
  /\ Moderators \subseteq Users
  /\ Scores \subseteq 1..10
  /\ ReactionEndpoints \subseteq AllReactionEndpoints
  /\ MaxRows \in Nat /\ MaxFavorites \in Nat
ASSUME WorkersFinite == IsFiniteSet(Workers)

Id == 1..MaxRows

Favorite == [user : Users, movie : Movies]
Like == [id : Id, user : Users, movie : Movies, isLike : BOOLEAN]
Rating == [id : Id, user : Users, movie : Movies, score : Scores]
Comment == [id : Id, user : Users, movie : Movies, parent : Id \cup {0}]
Notice == [to : Users, reply : Id]

VARIABLES
  films,      \* table movies
  favorites,  \* table movie_favorites
  likes,      \* table movie_likes, unique on movie and user
  ratings,    \* table movie_ratings, unique on movie and user
  comments,   \* table movie_comments, a reply has a parent
  notices,    \* the reply notifications in table notifications
  inserted,   \* how many ids were given out
  doing       \* the request each worker is running

reactionVars == <<films, favorites, likes, ratings, comments, notices, inserted, doing>>

\* rows: the ids of the rows an earlier statement of the request saw.
Task ==
  [ op : AllReactionEndpoints, pc : {"delete_old", "find", "commit"},
    user : Users, movie : Movies, rows : SUBSET Id,
    score : Scores \cup {0}, comment : Id \cup {0} ]
Resting == [op |-> "none"]

ReactionTypeOK ==
  /\ films \subseteq Movies
  /\ favorites \subseteq Favorite
  /\ likes \subseteq Like
  /\ ratings \subseteq Rating
  /\ comments \subseteq Comment
  /\ notices \subseteq Notice
  /\ inserted \in 0..MaxRows
  /\ doing \in [Workers -> Task \cup {Resting}]

ReactionInit ==
  /\ films = Movies
  /\ favorites = {} /\ likes = {} /\ ratings = {} /\ comments = {} /\ notices = {}
  /\ inserted = 0
  /\ doing = [w \in Workers |-> Resting]

-----------------------------------------------------------------------------
Doing(w, ops, label) == doing[w].op \in ops /\ doing[w].pc = label
Finish(w) == doing' = [doing EXCEPT ![w] = Resting]

\* A free worker takes a request.
Take(w, op, label, u, m, score, comment) ==
  /\ op \in ReactionEndpoints
  /\ doing[w] = Resting
  /\ doing' = [doing EXCEPT ![w] =
       [ op |-> op, pc |-> label, user |-> u, movie |-> m, rows |-> {},
         score |-> score, comment |-> comment ]]

\* The requests that delete without reading anything first are one step.
AtOnce(w, op) == op \in ReactionEndpoints /\ doing[w] = Resting /\ UNCHANGED doing

Own(table, u, m) == {r \in table : r.user = u /\ r.movie = m}
Ids(rows) == {r.id : r \in rows}

\* Every request in flight that may insert a row finds a free id.
Inserters == {"like_movie", "dislike_movie", "rate_movie", "add_comment", "add_reply"}
RoomForRow == inserted + Cardinality({w \in Workers : doing[w].op \in Inserters}) < MaxRows

-----------------------------------------------------------------------------
(* Favorites *)

RoomForFavorite ==
  Cardinality(favorites) + Cardinality({w \in Workers : doing[w].op = "add_favorite"})
    < MaxFavorites

AddFavorite(w, u, m) ==
  /\ RoomForFavorite
  /\ m \in films
  /\ Take(w, "add_favorite", "find", u, m, 0, 0)
  /\ UNCHANGED <<films, favorites, likes, ratings, comments, notices, inserted>>

\* A favorite that is there is answered at once.
FindFavorite(w) ==
  /\ Doing(w, {"add_favorite"}, "find")
  /\ IF [user |-> doing[w].user, movie |-> doing[w].movie] \in favorites
     THEN Finish(w)
     ELSE doing' = [doing EXCEPT ![w].pc = "commit"]
  /\ UNCHANGED <<films, favorites, likes, ratings, comments, notices, inserted>>

\* Movie and user are the primary key: a favorite added meanwhile is a 500, and
\* so is a movie that is gone.
CommitFavorite(w) ==
  /\ Doing(w, {"add_favorite"}, "commit")
  /\ favorites' = IF doing[w].movie \in films
                  THEN favorites \cup {[user |-> doing[w].user, movie |-> doing[w].movie]}
                  ELSE favorites
  /\ Finish(w)
  /\ UNCHANGED <<films, likes, ratings, comments, notices, inserted>>

RemoveFavorite(w, u, m) ==
  /\ AtOnce(w, "remove_favorite")
  /\ favorites' = favorites \ {[user |-> u, movie |-> m]}
  /\ UNCHANGED <<films, likes, ratings, comments, notices, inserted>>

-----------------------------------------------------------------------------
(* Likes and dislikes *)

LikeMovie(w, op, u, m) ==
  /\ op \in {"like_movie", "dislike_movie"}
  /\ RoomForRow
  /\ m \in films
  /\ Take(w, op, "delete_old", u, m, 0, 0)
  /\ UNCHANGED <<films, favorites, likes, ratings, comments, notices, inserted>>

\* Mutant of DeleteReaction: forgets the user in the WHERE.
DeleteReactionOfAll(w) ==
  /\ doing[w].op # "none" /\ doing[w].pc = "delete_old"
  /\ doing' = [doing EXCEPT ![w].pc = "commit",
                 ![w].rows = Ids({l \in likes : l.movie = doing[w].movie})]
  /\ UNCHANGED <<films, favorites, likes, ratings, comments, notices, inserted>>

\* DELETE of the reaction the user has now ...
DeleteReaction(w) ==
  /\ doing[w].op # "none" /\ doing[w].pc = "delete_old"
  /\ doing' = [doing EXCEPT ![w].pc = "commit",
                 ![w].rows = Ids(Own(likes, doing[w].user, doing[w].movie))]
  /\ UNCHANGED <<films, favorites, likes, ratings, comments, notices, inserted>>

\* Mutant of Unclaimed: movie and user are not unique.
UnclaimedAlways(table, w) == doing[w].movie \in films

\* An insert goes through: the movie is there and, but for the rows that the
\* request deletes, the user has no row for it (uq_movie_like_user,
\* uq_movie_rating_user).
Unclaimed(table, w) ==
  /\ doing[w].movie \in films
  /\ Ids(Own(table, doing[w].user, doing[w].movie)) \subseteq doing[w].rows

\* ... and insert of the new one, in one transaction.
CommitReaction(w) ==
  /\ Doing(w, {"like_movie", "dislike_movie"}, "commit")
  /\ IF Unclaimed(likes, w)
     THEN /\ likes' = {l \in likes : l.id \notin doing[w].rows} \cup
               {[ id |-> inserted + 1, user |-> doing[w].user, movie |-> doing[w].movie,
                  isLike |-> doing[w].op = "like_movie" ]}
          /\ inserted' = inserted + 1
     ELSE UNCHANGED <<likes, inserted>>
  /\ Finish(w)
  /\ UNCHANGED <<films, favorites, ratings, comments, notices>>

CancelReaction(w, u, m) ==
  /\ AtOnce(w, "cancel_reaction")
  /\ likes' = likes \ Own(likes, u, m)
  /\ UNCHANGED <<films, favorites, ratings, comments, notices, inserted>>

-----------------------------------------------------------------------------
(* Ratings *)

\* Mutant of RateMovie: stores the score one too high.
RateMovieAnyScore(w, u, m, s) ==
  /\ RoomForRow
  /\ m \in films
  /\ Take(w, "rate_movie", "find", u, m, s + 1, 0)
  /\ UNCHANGED <<films, favorites, likes, ratings, comments, notices, inserted>>

RateMovie(w, u, m, s) ==
  /\ RoomForRow
  /\ m \in films
  /\ Take(w, "rate_movie", "find", u, m, s, 0)
  /\ UNCHANGED <<films, favorites, likes, ratings, comments, notices, inserted>>

\* The rating the user has now; when it has this score the session is clean and
\* the commit writes nothing.
FindRating(w) ==
  LET existing == Own(ratings, doing[w].user, doing[w].movie)
  IN  /\ Doing(w, {"rate_movie"}, "find")
      /\ IF \E r \in existing : r.score = doing[w].score
         THEN Finish(w)
         ELSE doing' = [doing EXCEPT ![w].pc = "commit", ![w].rows = Ids(existing)]
      /\ UNCHANGED <<films, favorites, likes, ratings, comments, notices, inserted>>

\* UPDATE by primary key, which matches nothing when the rating was deleted
\* (StaleDataError, 500), or INSERT when there was none.
CommitRating(w) ==
  /\ Doing(w, {"rate_movie"}, "commit")
  /\ IF doing[w].rows # {}
     THEN /\ ratings' = {IF r.id \in doing[w].rows THEN [r EXCEPT !.score = doing[w].score] ELSE r :
                           r \in ratings}
          /\ UNCHANGED inserted
     ELSE IF Unclaimed(ratings, w)
     THEN /\ ratings' = ratings \cup
               {[ id |-> inserted + 1, user |-> doing[w].user, movie |-> doing[w].movie,
                  score |-> doing[w].score ]}
          /\ inserted' = inserted + 1
     ELSE UNCHANGED <<ratings, inserted>>
  /\ Finish(w)
  /\ UNCHANGED <<films, favorites, likes, comments, notices>>

DeleteRating(w, u, m) ==
  /\ AtOnce(w, "delete_rating")
  /\ ratings' = ratings \ Own(ratings, u, m)
  /\ UNCHANGED <<films, favorites, likes, comments, notices, inserted>>
=============================================================================
