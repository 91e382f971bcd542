------------------------------- MODULE Comments -------------------------------
(***************************************************************************)
(* Comments, replies and their deletion, and what the deletion of a movie  *)
(* does to everything users attached to it (routes/movies.py).             *)
(***************************************************************************)
EXTENDS Reactions

othersUnchanged == <<films, favorites, likes, ratings>>

AddComment(w, u, m) ==
  /\ RoomForRow
  /\ m \in films
  /\ Take(w, "add_comment", "commit", u, m, 0, 0)
  /\ UNCHANGED <<comments, notices, inserted, othersUnchanged>>

CommitComment(w) ==
  /\ Doing(w, {"add_comment"}, "commit")
  /\ IF doing[w].movie \in films
     THEN /\ comments' = comments \cup
               {[ id |-> inserted + 1, user |-> doing[w].user, movie |-> doing[w].movie,
                  parent |-> 0 ]}
          /\ inserted' = inserted + 1
     ELSE UNCHANGED <<comments, inserted>>
  /\ Finish(w)
  /\ UNCHANGED <<notices, othersUnchanged>>

AddReply(w, u, m, c) ==
  /\ RoomForRow
  /\ m \in films
  /\ Take(w, "add_reply", "find", u, m, 0, c)
  /\ UNCHANGED <<comments, notices, inserted, othersUnchanged>>

Parent(w) == {c \in comments : c.id = doing[w].comment}

\* 404 when the comment is not there or is on another movie.
FindParent(w) ==
  /\ Doing(w, {"add_reply"}, "find")
  /\ IF \E c \in Parent(w) : c.movie = doing[w].movie
     THEN doing' = [doing EXCEPT ![w].pc = "commit"]
     ELSE Finish(w)
  /\ UNCHANGED <<comments, notices, inserted, othersUnchanged>>

\* Mutant of CommitReply: only the author of a top-level comment is notified.
CommitReplyTopOnly(w) ==
  /\ Doing(w, {"add_reply"}, "commit")
  /\ IF Parent(w) # {}
     THEN /\ comments' = comments \cup
               {[ id |-> inserted + 1, user |-> doing[w].user, movie |-> doing[w].movie,
                  parent |-> doing[w].comment ]}
          /\ notices' = notices \cup
               {[to |-> c.user, reply |-> inserted + 1] :
                  c \in {x \in Parent(w) : x.user # doing[w].user /\ x.parent = 0}}
          /\ inserted' = inserted + 1
     ELSE UNCHANGED <<comments, notices, inserted>>
  /\ Finish(w)
  /\ UNCHANGED othersUnchanged

\* The reply and the notification of the comment's author, unless the author
\* replies to itself, in one commit.  parent_id is a foreign key: 500 when the
\* comment was deleted meanwhile.
CommitReply(w) ==
  /\ Doing(w, {"add_reply"}, "commit")
  /\ IF Parent(w) # {}
     THEN /\ comments' = comments \cup
               {[ id |-> inserted + 1, user |-> doing[w].user, movie |-> doing[w].movie,
                  parent |-> doing[w].comment ]}
          /\ notices' = notices \cup
               {[to |-> c.user, reply |-> inserted + 1] :
                  c \in {x \in Parent(w) : x.user # doing[w].user}}
          /\ inserted' = inserted + 1
     ELSE UNCHANGED <<comments, notices, inserted>>
  /\ Finish(w)
  /\ UNCHANGED othersUnchanged

\* The author, a moderator or an admin: 404 or 403 otherwise.
DeleteComment(w, u, c) ==
  /\ c \in comments
  /\ c.user = u \/ u \in Moderators
  /\ Take(w, "delete_comment", "commit", u, c.movie, 0, c.id)
  /\ UNCHANGED <<comments, notices, inserted, othersUnchanged>>

\* Mutant of Thread: the comment and its direct replies.
ThreadOneDeep(id) == {id} \cup {c.id : c \in {x \in comments : x.parent = id}}

\* A comment with its replies, their replies and so on: the least set that has
\* the comment and every reply to a member.  Nothing of it is left when the
\* comment is gone.
Thread(id) ==
  {x \in Ids(comments) :
     \A S \in SUBSET (Ids(comments) \cup {id}) :
       /\ id \in S
       /\ \A c \in comments : c.parent \in S => c.id \in S
       => x \in S}

\* The ORM deletes the replies it loads with the comment, the database (ON DELETE
\* CASCADE) those that came later.
CommitDeleteComment(w) ==
  /\ Doing(w, {"delete_comment"}, "commit")
  /\ comments' = {c \in comments : c.id \notin Thread(doing[w].comment)}
  /\ Finish(w)
  /\ UNCHANGED <<notices, inserted, othersUnchanged>>

-----------------------------------------------------------------------------
(* delete_movie, as these tables see it; Catalog.tla has the rest of it. *)

DeleteMovie(w, u, m) ==
  /\ u \in Moderators
  /\ m \in films
  /\ Take(w, "delete_movie", "commit", u, m, 0, 0)
  /\ UNCHANGED <<comments, notices, inserted, othersUnchanged>>

Off(m, table) == {r \in table : r.movie # m}

\* Mutant of CommitDeleteMovie: looks for favorites of the moderator only.
CommitDeleteMovieOwn(w) ==
  LET m == doing[w].movie
  IN  /\ Doing(w, {"delete_movie"}, "commit")
      /\ IF [user |-> doing[w].user, movie |-> m] \notin favorites
         THEN /\ films' = films \ {m}
              /\ likes' = Off(m, likes)
              /\ ratings' = Off(m, ratings)
              /\ comments' = Off(m, comments)
         ELSE UNCHANGED <<films, likes, ratings, comments>>
      /\ Finish(w)
      /\ UNCHANGED <<favorites, notices, inserted>>

\* likes, ratings and comments go with the movie (ON DELETE CASCADE); a favorite
\* keeps it: IntegrityError, 500.
CommitDeleteMovie(w) ==
  LET m == doing[w].movie
  IN  /\ Doing(w, {"delete_movie"}, "commit")
      /\ IF \A f \in favorites : f.movie # m
         THEN /\ films' = films \ {m}
              /\ likes' = Off(m, likes)
              /\ ratings' = Off(m, ratings)
              /\ comments' = Off(m, comments)
         ELSE UNCHANGED <<films, likes, ratings, comments>>
      /\ Finish(w)
      /\ UNCHANGED <<favorites, notices, inserted>>

-----------------------------------------------------------------------------
ReactionArrives(w) ==
  \/ \E u \in Users, m \in Movies :
       \/ AddFavorite(w, u, m) \/ RemoveFavorite(w, u, m)
       \/ \E op \in {"like_movie", "dislike_movie"} : LikeMovie(w, op, u, m)
       \/ CancelReaction(w, u, m)
       \/ \E s \in Scores : RateMovie(w, u, m, s)
       \/ DeleteRating(w, u, m)
       \/ AddComment(w, u, m)
       \/ \E c \in Ids(comments) : AddReply(w, u, m, c)
       \/ DeleteMovie(w, u, m)
  \/ \E u \in Users, c \in comments : DeleteComment(w, u, c)

ReactionStep(w) ==
  \/ FindFavorite(w) \/ CommitFavorite(w)
  \/ DeleteReaction(w) \/ CommitReaction(w)
  \/ FindRating(w) \/ CommitRating(w)
  \/ CommitComment(w) \/ FindParent(w) \/ CommitReply(w)
  \/ CommitDeleteComment(w) \/ CommitDeleteMovie(w)

Next == \E w \in Workers : ReactionArrives(w) \/ ReactionStep(w)

Spec == ReactionInit /\ [][Next]_reactionVars

TypeOK == ReactionTypeOK

\* A user likes or dislikes a movie, and has one rating of it, whatever clicks
\* overlap (movies.py:652-664, 973-993; models/movies.py:128, 176).
OneReactionPerUser ==
  /\ \A l, k \in likes : l.user = k.user /\ l.movie = k.movie => l = k
  /\ \A r, q \in ratings : r.user = q.user /\ r.movie = q.movie => r = q

\* A reply has its comment, on its movie, while comments and movies are deleted
\* under the requests that reply to them (movies.py:836-850, 899-901).
NoOrphanReply ==
  \A r \in comments :
    r.parent # 0 => \E c \in comments : c.id = r.parent /\ c.movie = r.movie

\* The author of a comment is notified of every reply of another user, and nobody
\* of its own (movies.py:852-861).
ReplyIsNotified ==
  \A r, c \in comments :
    r.parent = c.id => {n.to : n \in {x \in notices : x.reply = r.id}} = {c.user} \ {r.user}

\* Nothing is attached to a movie that is gone, whichever request read the movie
\* before it was deleted (models/movies.py:39, 122, 138, 171).
NothingOnDeletedMovie ==
  \A table \in {favorites, likes, ratings, comments} : \A r \in table : r.movie \in films
-----------------------------------------------------------------------------
(* Reactions and comments implement Opinions. *)

\* The rows without their ids.
OpinionsHeld == {[user |-> l.user, movie |-> l.movie, isLike |-> l.isLike] : l \in likes}
ScoresGiven == {[user |-> r.user, movie |-> r.movie, score |-> r.score] : r \in ratings}

Audience == INSTANCE Opinions WITH
  shown <- films, opinions <- OpinionsHeld, scores <- ScoresGiven,
  posts <- comments, told <- notices

\* However requests overlap, every step is one click of one user that takes effect
\* as a whole, or nothing: nobody's rows but the user's are replaced, nothing is lost
\* between a DELETE and its INSERT, and a deleted comment takes away exactly its
\* thread (movies.py:652-730, 835-935, 960-1024).
ImplementsOpinions == Audience!Spec
=============================================================================
