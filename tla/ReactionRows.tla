----------------------------- MODULE ReactionRows -----------------------------
(***************************************************************************)
(* What users attach to movies is consistent, for any number of users,     *)
(* movies, requests in flight and rows: one reaction and one rating, every *)
(* reply on its comment and announced, nothing on a deleted movie.         *)
(***************************************************************************)
EXTENDS Comments, FiniteSetTheorems, TLAPS

-----------------------------------------------------------------------------
(* The inductive invariant, by table *)

\* Ids were given out, and once.
RowsOK(table) ==
  /\ \A r \in table : r.id \in 1..inserted
  /\ \A r, q \in table : r.id = q.id => r = q

OnePerUser(table) ==
  \A r, q \in table : r.user = q.user /\ r.movie = q.movie => r = q

OnFilms(table) == \A r \in table : r.movie \in films

FavoritesInv == favorites \subseteq Favorite /\ OnFilms(favorites)

LikesInv == RowsOK(likes) /\ OnePerUser(likes) /\ OnFilms(likes)

RatingsInv ==
  /\ ratings \subseteq [id : Nat, user : Users, movie : Movies, score : Nat]
  /\ RowsOK(ratings) /\ OnePerUser(ratings) /\ OnFilms(ratings)

\* NoOrphanReply and ReplyIsNotified, with what they rest on: a notification is
\* about a comment that was inserted.
CommentsInv ==
  /\ comments \subseteq [id : Nat, user : Users, movie : Movies, parent : Nat]
  /\ notices \subseteq [to : Users, reply : Nat]
  /\ RowsOK(comments) /\ OnFilms(comments)
  /\ \A n \in notices : n.reply \in 1..inserted
  /\ NoOrphanReply /\ ReplyIsNotified

\* A request in flight knows rows that were inserted (ins is the last of them), and a
\* reply that is about to be stored the movie of its comment, one of com.
TaskOK(t, ins, com) ==
  /\ t.op # "none" =>
       t \in [ op : AllReactionEndpoints, pc : {"delete_old", "find", "commit"},
               user : Users, movie : Movies, rows : SUBSET (1..ins),
               score : Nat, comment : 0..ins ]
  /\ t.op = "none" => t = Resting
  /\ t.op = "add_reply" => t.comment # 0 /\ t.pc # "delete_old"
  /\ t.op = "add_reply" /\ t.pc = "commit" =>
       \A c \in com : c.id = t.comment => c.movie = t.movie

TasksInv ==
  /\ doing = [w \in Workers |-> doing[w]]
  /\ \A w \in Workers : TaskOK(doing[w], inserted, comments)

ReactionInv ==
  /\ films \subseteq Movies /\ inserted \in Nat
  /\ FavoritesInv /\ LikesInv /\ RatingsInv /\ CommentsInv /\ TasksInv

\* Ids are given out in order, also to comments.
Grows ==
  /\ inserted' \in Nat /\ inserted <= inserted'
  /\ \A c \in comments' : c \in comments \/ c.id > inserted

-----------------------------------------------------------------------------
(* Requests *)

LEMMA TaskKept ==
  ASSUME inserted \in Nat, Grows, NEW t, TaskOK(t, inserted, comments)
  PROVE  TaskOK(t, inserted', comments')
<1>1. 1..inserted \subseteq 1..inserted' /\ 0..inserted \subseteq 0..inserted'
  BY DEF Grows
<1>2. t.op # "none" =>
       t \in [ op : AllReactionEndpoints, pc : {"delete_old", "find", "commit"},
               user : Users, movie : Movies, rows : SUBSET (1..inserted'),
               score : Nat, comment : 0..inserted' ]
  BY <1>1 DEF TaskOK
<1>3. t.op = "add_reply" /\ t.pc = "commit" =>
        \A c \in comments' : c.id = t.comment => c.movie = t.movie
  <2>1. t.op = "add_reply" => t.comment \in 0..inserted
    BY DEF TaskOK
  <2>2. t.op = "add_reply" => \A c \in comments' : c.id = t.comment => c \in comments
    BY <2>1 DEF Grows
  <2> QED BY <2>2 DEF TaskOK
<1> QED BY <1>2, <1>3 DEF TaskOK

LEMMA TasksKept ==
  ASSUME ReactionInv, Grows, NEW w \in Workers, NEW t, doing' = [doing EXCEPT ![w] = t],
         TaskOK(t, inserted', comments')
  PROVE  TasksInv'
<1>1. \A x \in Workers : TaskOK(doing[x], inserted', comments')
  BY TaskKept DEF ReactionInv, TasksInv
<1>2. doing' = [x \in Workers |-> IF x = w THEN t ELSE doing[x]]
  BY DEF ReactionInv, TasksInv
<1> QED BY <1>1, <1>2 DEF TasksInv

LEMMA TasksStay ==
  ASSUME ReactionInv, Grows, doing' = doing
  PROVE  TasksInv'
BY TaskKept DEF ReactionInv, TasksInv

LEMMA FinishKept ==
  ASSUME ReactionInv, Grows, NEW w \in Workers, Finish(w)
  PROVE  TasksInv'
<1>1. TaskOK(Resting, inserted', comments')
  BY DEF TaskOK, Resting
<1> QED BY <1>1, TasksKept DEF Finish

\* The request of a worker that is not resting.
LEMMA TaskTyped ==
  ASSUME ReactionInv, NEW w \in Workers, doing[w].op # "none"
  PROVE  /\ doing[w] \in [ op : AllReactionEndpoints, pc : {"delete_old", "find", "commit"},
                           user : Users, movie : Movies, rows : SUBSET (1..inserted),
                           score : Nat, comment : 0..inserted ]
         /\ TaskOK(doing[w], inserted, comments)
BY DEF ReactionInv, TasksInv, TaskOK

-----------------------------------------------------------------------------
(* Tables that a step leaves alone, or only deletes from *)

LEMMA TablesShrink ==
  ASSUME ReactionInv, films' = films, inserted' \in Nat, inserted <= inserted'
  PROVE  /\ favorites' \subseteq favorites => FavoritesInv'
         /\ likes' \subseteq likes => LikesInv'
         /\ ratings' \subseteq ratings => RatingsInv'
         /\ UNCHANGED <<comments, notices>> => CommentsInv'
<1> USE DEF ReactionInv, RowsOK, OnePerUser, OnFilms
<1>1. favorites' \subseteq favorites => FavoritesInv'
  BY DEF FavoritesInv
<1>2. likes' \subseteq likes => LikesInv'
  BY DEF LikesInv
<1>3. ratings' \subseteq ratings => RatingsInv'
  BY DEF RatingsInv
<1>4. UNCHANGED <<comments, notices>> => CommentsInv'
  BY DEF CommentsInv, NoOrphanReply, ReplyIsNotified
<1> QED BY <1>1, <1>2, <1>3, <1>4

\* A step that reads, or deletes at once, changes one request at most.
LEMMA ReadKeeps ==
  ASSUME ReactionInv, NEW w \in Workers, UNCHANGED <<films, comments, notices, inserted>>,
         favorites' \subseteq favorites, likes' \subseteq likes, ratings' \subseteq ratings,
         \/ doing' = doing
         \/ Finish(w)
         \/ \E t : TaskOK(t, inserted, comments) /\ doing' = [doing EXCEPT ![w] = t]
  PROVE  ReactionInv'
<1>1. Grows
  BY DEF Grows, ReactionInv
<1>2. TasksInv'
  BY <1>1, TasksStay, FinishKept, TasksKept
<1> QED BY <1>2, TablesShrink DEF ReactionInv

-----------------------------------------------------------------------------
(* Arriving requests *)

LEMMA TakeKeeps ==
  ASSUME ReactionInv, NEW w \in Workers, NEW op \in AllReactionEndpoints,
         NEW label \in {"delete_old", "find", "commit"}, NEW u \in Users, NEW m \in Movies,
         NEW score \in Nat, NEW comment \in 0..inserted,
         op = "add_reply" => comment # 0 /\ label = "find",
         Take(w, op, label, u, m, score, comment),
         UNCHANGED <<films, favorites, likes, ratings, comments, notices, inserted>>
  PROVE  ReactionInv'
<1> DEFINE t == [ op |-> op, pc |-> label, user |-> u, movie |-> m, rows |-> {},
                  score |-> score, comment |-> comment ]
<1>1. "none" \notin AllReactionEndpoints
  BY DEF AllReactionEndpoints
<1>2. TaskOK(t, inserted, comments)
  BY <1>1 DEF TaskOK
<1> QED BY <1>2, ReadKeeps DEF Take

LEMMA ArrivalsKeep ==
  ASSUME ReactionInv, NEW w \in Workers, ReactionArrives(w) PROVE ReactionInv'
<1> USE DEF othersUnchanged
<1>1. 0 \in 0..inserted /\ 0 \in Nat
  BY DEF ReactionInv
<1>2. ASSUME NEW u \in Users, NEW m \in Movies,
             \/ AddFavorite(w, u, m) \/ LikeMovie(w, "like_movie", u, m)
             \/ LikeMovie(w, "dislike_movie", u, m) \/ AddComment(w, u, m)
             \/ DeleteMovie(w, u, m)
      PROVE  ReactionInv'
  <2>1. \E op \in AllReactionEndpoints \ {"add_reply"}, label \in {"delete_old", "find", "commit"} :
           Take(w, op, label, u, m, 0, 0)
    BY <1>2 DEF AddFavorite, LikeMovie, AddComment, DeleteMovie, AllReactionEndpoints
  <2>2. UNCHANGED <<films, favorites, likes, ratings, comments, notices, inserted>>
    BY <1>2 DEF AddFavorite, LikeMovie, AddComment, DeleteMovie
  <2> QED BY <1>1, <2>1, <2>2, TakeKeeps
<1>3. ASSUME NEW u \in Users, NEW m \in Movies, NEW s \in Scores, RateMovie(w, u, m, s)
      PROVE  ReactionInv'
  <2>1. s \in Nat /\ "rate_movie" \in AllReactionEndpoints
    BY ReactionConstantsOk DEF AllReactionEndpoints
  <2> QED BY <1>1, <1>3, <2>1, TakeKeeps DEF RateMovie
<1>4. ASSUME NEW u \in Users, NEW m \in Movies, NEW c \in Ids(comments), AddReply(w, u, m, c)
      PROVE  ReactionInv'
  <2>1. c \in 0..inserted /\ c # 0 /\ "add_reply" \in AllReactionEndpoints
    BY DEF Ids, ReactionInv, CommentsInv, RowsOK, AllReactionEndpoints
  <2> QED BY <1>1, <1>4, <2>1, TakeKeeps DEF AddReply
<1>5. ASSUME NEW u \in Users, NEW c \in comments, DeleteComment(w, u, c)
      PROVE  ReactionInv'
  <2>1. c.id \in 0..inserted /\ c.movie \in Movies /\ "delete_comment" \in AllReactionEndpoints
    BY DEF ReactionInv, CommentsInv, RowsOK, AllReactionEndpoints
  <2> QED BY <1>1, <1>5, <2>1, TakeKeeps DEF DeleteComment
<1>6. ASSUME NEW u \in Users, NEW m \in Movies,
             RemoveFavorite(w, u, m) \/ CancelReaction(w, u, m) \/ DeleteRating(w, u, m)
      PROVE  ReactionInv'
  BY <1>6, ReadKeeps DEF RemoveFavorite, CancelReaction, DeleteRating, AtOnce
<1> QED BY <1>2, <1>3, <1>4, <1>5, <1>6 DEF ReactionArrives

-----------------------------------------------------------------------------
(* Steps that read *)

LEMMA ReadingsKeep ==
  ASSUME ReactionInv, NEW w \in Workers,
         FindFavorite(w) \/ DeleteReaction(w) \/ FindRating(w) \/ FindParent(w)
  PROVE  ReactionInv'
<1> DEFINE old == Own(likes, doing[w].user, doing[w].movie)
           rated == Own(ratings, doing[w].user, doing[w].movie)
<1>1. UNCHANGED <<films, favorites, likes, ratings, comments, notices, inserted>>
  BY DEF FindFavorite, DeleteReaction, FindRating, FindParent, othersUnchanged
<1>2. doing[w].op # "none"
  BY DEF FindFavorite, DeleteReaction, FindRating, FindParent, Doing
<1>3. doing = [x \in Workers |-> doing[x]]
  BY DEF ReactionInv, TasksInv
<1>4. Ids(old) \subseteq 1..inserted /\ Ids(rated) \subseteq 1..inserted
  BY DEF Ids, Own, ReactionInv, LikesInv, RatingsInv, RowsOK
<1> HIDE DEF old, rated
<1>5. ASSUME NEW t, t = [doing[w] EXCEPT !.pc = "commit"], doing' = [doing EXCEPT ![w] = t],
             doing[w].op = "add_reply" =>
                \A c \in comments : c.id = doing[w].comment => c.movie = doing[w].movie
      PROVE  ReactionInv'
  <2>1. TaskOK(t, inserted, comments)
    BY <1>2, <1>5, TaskTyped DEF TaskOK
  <2> QED BY <1>1, <1>5, <2>1, ReadKeeps
<1>6. ASSUME NEW t, NEW rows \in SUBSET (1..inserted),
             t = [doing[w] EXCEPT !.pc = "commit", !.rows = rows],
             doing' = [doing EXCEPT ![w] = t], doing[w].op # "add_reply"
      PROVE  ReactionInv'
  <2>1. TaskOK(t, inserted, comments)
    BY <1>2, <1>6, TaskTyped DEF TaskOK
  <2> QED BY <1>1, <1>6, <2>1, ReadKeeps
<1>7. CASE Finish(w)
  BY <1>1, <1>7, ReadKeeps
<1>8. CASE FindFavorite(w) /\ ~Finish(w)
  BY <1>3, <1>5, <1>8 DEF FindFavorite, Doing
<1>9. CASE DeleteReaction(w)
  <2>1. doing[w].op # "add_reply"
    BY <1>2, <1>9, TaskTyped DEF DeleteReaction, TaskOK
  <2> QED BY <1>3, <1>4, <1>6, <1>9, <2>1 DEF DeleteReaction, old
<1>10. CASE FindRating(w) /\ ~Finish(w)
  BY <1>3, <1>4, <1>6, <1>10 DEF FindRating, Doing, rated
<1>11. CASE FindParent(w) /\ ~Finish(w)
  <2>1. PICK p \in Parent(w) : p.movie = doing[w].movie
    BY <1>11 DEF FindParent
  <2>2. \A c \in comments : c.id = doing[w].comment => c.movie = doing[w].movie
    BY <2>1 DEF Parent, ReactionInv, CommentsInv, RowsOK
  <2> QED BY <1>3, <1>5, <1>11, <2>2 DEF FindParent, Doing
<1> QED BY <1>7, <1>8, <1>9, <1>10, <1>11

-----------------------------------------------------------------------------
(* Commits *)

\* An id that is new: the row goes into a table beside the rows kept.
LEMMA RowAdded ==
  ASSUME inserted \in Nat, inserted' = inserted + 1, films' = films,
         NEW table, NEW kept, NEW new, NEW after, kept \subseteq table, after = kept \cup {new},
         RowsOK(table), OnFilms(table), OnePerUser(table),
         new.id = inserted + 1, new.movie \in films,
         \A r \in kept : ~(r.user = new.user /\ r.movie = new.movie)
  PROVE  /\ \A r \in after : r.id \in 1..inserted' /\ r.movie \in films'
         /\ \A r, q \in after : r.id = q.id => r = q
         /\ OnePerUser(after)
<1>1. \A r \in kept : r.id \in 1..inserted /\ r.id # new.id /\ r.movie \in films
  BY DEF RowsOK, OnFilms
<1>2. \A r \in after : r.id \in 1..inserted' /\ r.movie \in films'
  BY <1>1
<1>3. \A r, q \in after : r.id = q.id => r = q
  BY <1>1 DEF RowsOK
<1>4. OnePerUser(after)
  BY DEF OnePerUser
<1> QED BY <1>2, <1>3, <1>4

LEMMA FavoriteKeeps ==
  ASSUME ReactionInv, NEW w \in Workers, CommitFavorite(w) PROVE ReactionInv'
<1>1. doing[w].op # "none"
  BY DEF CommitFavorite, Doing
<1>2. UNCHANGED <<films, likes, ratings, comments, notices, inserted>> /\ Finish(w)
  BY DEF CommitFavorite
<1>3. Grows
  BY <1>2 DEF Grows, ReactionInv
<1>4. doing[w].user \in Users /\ doing[w].movie \in Movies
  BY <1>1, TaskTyped
<1>5. FavoritesInv'
  BY <1>2, <1>4 DEF CommitFavorite, ReactionInv, FavoritesInv, OnFilms, Favorite
<1> QED BY <1>2, <1>3, <1>5, FinishKept, TablesShrink DEF ReactionInv

LEMMA ReactionKeeps ==
  ASSUME ReactionInv, NEW w \in Workers, CommitReaction(w) PROVE ReactionInv'
<1>1. doing[w].op # "none" /\ Finish(w)
      /\ UNCHANGED <<films, favorites, ratings, comments, notices>>
  BY DEF CommitReaction, Doing
<1>2. CASE ~Unclaimed(likes, w)
  BY <1>1, <1>2, ReadKeeps DEF CommitReaction
<1>3. CASE Unclaimed(likes, w)
  <2> DEFINE kept == {l \in likes : l.id \notin doing[w].rows}
             new == [ id |-> inserted + 1, user |-> doing[w].user, movie |-> doing[w].movie,
                      isLike |-> doing[w].op = "like_movie" ]
  <2>1. likes' = kept \cup {new} /\ inserted' = inserted + 1
    BY <1>3 DEF CommitReaction
  <2>2. inserted \in Nat /\ inserted' \in Nat /\ Grows
    BY <1>1, <2>1 DEF ReactionInv, Grows
  <2>3. /\ new.id = inserted + 1 /\ new.movie \in films /\ kept \subseteq likes
        /\ \A r \in kept : ~(r.user = new.user /\ r.movie = new.movie)
    BY <1>3 DEF Unclaimed, Ids, Own
  <2>4. RowsOK(likes) /\ OnFilms(likes) /\ OnePerUser(likes)
    BY DEF ReactionInv, LikesInv
  <2> HIDE DEF kept, new
  <2>5. LikesInv'
    BY <1>1, <2>1, <2>2, <2>3, <2>4, RowAdded DEF LikesInv, RowsOK, OnFilms, OnePerUser
  <2> QED BY <1>1, <2>1, <2>2, <2>5, FinishKept, TablesShrink DEF ReactionInv
<1> QED BY <1>2, <1>3

LEMMA RatingKeeps ==
  ASSUME ReactionInv, NEW w \in Workers, CommitRating(w) PROVE ReactionInv'
<1>1. doing[w].op # "none" /\ Finish(w)
      /\ UNCHANGED <<films, favorites, likes, comments, notices>>
  BY DEF CommitRating, Doing
<1>2. doing[w].user \in Users /\ doing[w].movie \in Movies /\ doing[w].score \in Nat
  BY <1>1, TaskTyped
<1>3. CASE doing[w].rows # {}
  <2> DEFINE rescored(r) == IF r.id \in doing[w].rows THEN [r EXCEPT !.score = doing[w].score] ELSE r
  <2>1. ratings' = {rescored(r) : r \in ratings} /\ inserted' = inserted
    BY <1>3 DEF CommitRating
  <2>2. ASSUME NEW r \in ratings
        PROVE  /\ rescored(r) \in [id : Nat, user : Users, movie : Movies, score : Nat]
               /\ rescored(r).id = r.id /\ rescored(r).user = r.user /\ rescored(r).movie = r.movie
    BY <1>2 DEF ReactionInv, RatingsInv
  <2> HIDE DEF rescored
  <2>3. RatingsInv'
    BY <1>1, <2>1, <2>2 DEF ReactionInv, RatingsInv, RowsOK, OnePerUser, OnFilms
  <2>4. Grows
    BY <1>1, <2>1 DEF Grows, ReactionInv
  <2> QED BY <1>1, <2>1, <2>3, <2>4, FinishKept, TablesShrink DEF ReactionInv
<1>4. CASE doing[w].rows = {} /\ ~Unclaimed(ratings, w)
  BY <1>1, <1>4, ReadKeeps DEF CommitRating
<1>5. CASE doing[w].rows = {} /\ Unclaimed(ratings, w)
  <2> DEFINE new == [ id |-> inserted + 1, user |-> doing[w].user, movie |-> doing[w].movie,
                      score |-> doing[w].score ]
  <2>1. ratings' = ratings \cup {new} /\ inserted' = inserted + 1
    BY <1>5 DEF CommitRating
  <2>2. inserted \in Nat /\ inserted' \in Nat /\ Grows
    BY <1>1, <2>1 DEF ReactionInv, Grows
  <2>3. /\ new.id = inserted + 1 /\ new.movie \in films
        /\ \A r \in ratings : ~(r.user = new.user /\ r.movie = new.movie)
    BY <1>5 DEF Unclaimed, Ids, Own
  <2>4. RowsOK(ratings) /\ OnFilms(ratings) /\ OnePerUser(ratings)
    BY DEF ReactionInv, RatingsInv
  <2>5. ratings \cup {new} \subseteq [id : Nat, user : Users, movie : Movies, score : Nat]
    BY <1>2, <2>2 DEF ReactionInv, RatingsInv
  <2> HIDE DEF new
  <2>6. RatingsInv'
    BY <1>1, <2>1, <2>2, <2>3, <2>4, <2>5, RowAdded DEF RatingsInv, RowsOK, OnFilms, OnePerUser
  <2> QED BY <1>1, <2>1, <2>2, <2>6, FinishKept, TablesShrink DEF ReactionInv
<1> QED BY <1>3, <1>4, <1>5

\* A new comment, whose replies can only come later.
LEMMA CommentAdded ==
  ASSUME ReactionInv, NEW w \in Workers, NEW parent \in 0..inserted,
         UNCHANGED <<films, favorites, likes, ratings>>, Finish(w), doing[w].op # "none",
         doing[w].movie \in films, inserted' = inserted + 1,
         comments' = comments \cup {[ id |-> inserted + 1, user |-> doing[w].user,
                                      movie |-> doing[w].movie, parent |-> parent ]},
         notices' \subseteq [to : Users, reply : Nat],
         {n \in notices' : n.reply \in 1..inserted} = notices,
         \A n \in notices' : n.reply \in 1..inserted',
         parent # 0 => \E c \in comments : c.id = parent /\ c.movie = doing[w].movie,
         \A c \in comments : c.id = parent =>
            {n.to : n \in {x \in notices' : x.reply = inserted + 1}} = {c.user} \ {doing[w].user}
  PROVE  ReactionInv'
<1> DEFINE new == [ id |-> inserted + 1, user |-> doing[w].user, movie |-> doing[w].movie,
                    parent |-> parent ]
<1>1. inserted \in Nat /\ inserted' \in Nat /\ Grows
  BY DEF ReactionInv, Grows
<1>2. /\ new \in [id : Nat, user : Users, movie : Movies, parent : Nat]
      /\ new.id = inserted + 1 /\ new.parent = parent /\ new.movie = doing[w].movie
      /\ new.user = doing[w].user
  BY <1>1, TaskTyped
<1>3. comments' = comments \cup {new}
  OBVIOUS
<1> HIDE DEF new
<1>4. \A r \in comments : r.id \in 1..inserted /\ r.id # new.id /\ r.parent # new.id
  <2>1. \A r \in comments : r.id \in 1..inserted
    BY DEF ReactionInv, CommentsInv, RowsOK
  <2>2. \A r \in comments : r.parent # 0 => \E c \in comments : c.id = r.parent
    BY DEF ReactionInv, CommentsInv, NoOrphanReply
  <2> QED BY <1>1, <1>2, <2>1, <2>2
<1>5. RowsOK(comments)' /\ OnFilms(comments)'
  BY <1>1, <1>2, <1>3, <1>4 DEF ReactionInv, CommentsInv, RowsOK, OnFilms
<1>6. NoOrphanReply'
  BY <1>2, <1>3 DEF ReactionInv, CommentsInv, NoOrphanReply
<1>7. ReplyIsNotified'
  <2> SUFFICES ASSUME NEW r \in comments', NEW c \in comments', r.parent = c.id
               PROVE  {n.to : n \in {x \in notices' : x.reply = r.id}} = {c.user} \ {r.user}
    BY DEF ReplyIsNotified
  <2>1. c \in comments
    BY <1>1, <1>2, <1>3, <1>4
  <2>2. CASE r = new
    BY <1>2, <2>1, <2>2
  <2>3. CASE r \in comments
    <3>1. {x \in notices' : x.reply = r.id} = {x \in notices : x.reply = r.id}
      BY <1>4, <2>3
    <3> QED BY <2>1, <2>3, <3>1 DEF ReactionInv, CommentsInv, ReplyIsNotified
  <2> QED BY <1>3, <2>2, <2>3
<1>8. CommentsInv'
  BY <1>2, <1>3, <1>5, <1>6, <1>7 DEF ReactionInv, CommentsInv
<1> QED BY <1>1, <1>8, FinishKept, TablesShrink DEF ReactionInv

LEMMA CommentKeeps ==
  ASSUME ReactionInv, NEW w \in Workers, CommitComment(w) PROVE ReactionInv'
<1> USE DEF othersUnchanged
<1>1. doing[w].op # "none" /\ Finish(w)
      /\ UNCHANGED <<films, favorites, likes, ratings, notices>>
  BY DEF CommitComment, Doing
<1>2. CASE doing[w].movie \notin films
  BY <1>1, <1>2, ReadKeeps DEF CommitComment
<1>3. CASE doing[w].movie \in films
  <2>1. inserted' = inserted + 1 /\ inserted \in Nat
    BY <1>3 DEF CommitComment, ReactionInv
  <2>2. /\ notices' \subseteq [to : Users, reply : Nat]
        /\ {n \in notices' : n.reply \in 1..inserted} = notices
        /\ \A n \in notices' : n.reply \in 1..inserted'
    BY <1>1, <2>1 DEF ReactionInv, CommentsInv
  <2>3. \A c \in comments : c.id # 0
    BY DEF ReactionInv, CommentsInv, RowsOK
  <2>4. comments' = comments \cup {[ id |-> inserted + 1, user |-> doing[w].user,
                                     movie |-> doing[w].movie, parent |-> 0 ]}
    BY <1>3 DEF CommitComment
  <2> QED BY <1>1, <1>3, <2>1, <2>2, <2>3, <2>4, CommentAdded
<1> QED BY <1>2, <1>3

LEMMA ReplyKeeps ==
  ASSUME ReactionInv, NEW w \in Workers, CommitReply(w) PROVE ReactionInv'
<1> USE DEF othersUnchanged
<1>1. /\ doing[w].op = "add_reply" /\ doing[w].pc = "commit" /\ Finish(w)
      /\ UNCHANGED <<films, favorites, likes, ratings>>
  BY DEF CommitReply, Doing
<1>2. CASE Parent(w) = {}
  BY <1>1, <1>2, ReadKeeps DEF CommitReply
<1>3. CASE Parent(w) # {}
  <2> DEFINE told == {[to |-> c.user, reply |-> inserted + 1] :
                        c \in {x \in Parent(w) : x.user # doing[w].user}}
  <2>1. /\ inserted' = inserted + 1 /\ inserted \in Nat
        /\ comments' = comments \cup {[ id |-> inserted + 1, user |-> doing[w].user,
                                        movie |-> doing[w].movie, parent |-> doing[w].comment ]}
        /\ notices' = notices \cup told
    BY <1>3 DEF CommitReply, ReactionInv
  <2>2. PICK p \in comments : p.id = doing[w].comment
    BY <1>3 DEF Parent
  <2>3. Parent(w) = {p} /\ p.user \in Users /\ p.movie \in films
    BY <2>2 DEF Parent, ReactionInv, CommentsInv, RowsOK, OnFilms
  <2>4. p.movie = doing[w].movie /\ doing[w].comment \in 0..inserted
    BY <1>1, <2>2, TaskTyped DEF TaskOK
  <2>5. \A n \in told : n \in [to : Users, reply : Nat] /\ n.reply = inserted + 1
    BY <2>1, <2>3
  <2>6. \A y : (\E n \in told : n.to = y) <=> y \in {p.user} \ {doing[w].user}
    <3>1. CASE p.user = doing[w].user
      <4>1. told = {}
        BY <2>3, <3>1
      <4> QED BY <3>1, <4>1
    <3>2. CASE p.user # doing[w].user
      <4>1. {x \in Parent(w) : x.user # doing[w].user} = {p}
        BY <2>3, <3>2
      <4>2. told = {[to |-> p.user, reply |-> inserted + 1]}
        BY <4>1
      <4> HIDE DEF told
      <4> QED BY <3>2, <4>2
    <3> QED BY <3>1, <3>2
  <2> HIDE DEF told
  <2>7. \A n \in notices : n \in [to : Users, reply : Nat] /\ n.reply \in 1..inserted
    BY DEF ReactionInv, CommentsInv
  <2>8. /\ notices' \subseteq [to : Users, reply : Nat]
        /\ {n \in notices' : n.reply \in 1..inserted} = notices
        /\ \A n \in notices' : n.reply \in 1..inserted'
    BY <2>1, <2>5, <2>7
  <2>9. {x \in notices' : x.reply = inserted + 1} = told
    BY <2>1, <2>5, <2>7
  <2>10. {n.to : n \in {x \in notices' : x.reply = inserted + 1}} = {p.user} \ {doing[w].user}
    BY <2>6, <2>9
  <2>11. \A c \in comments : c.id = doing[w].comment => c = p
    BY <2>2 DEF ReactionInv, CommentsInv, RowsOK
  <2> QED BY <1>1, <2>1, <2>2, <2>3, <2>4, <2>8, <2>10, <2>11, CommentAdded
<1> QED BY <1>2, <1>3

-----------------------------------------------------------------------------
(* Deletions *)

\* Comments that lose no comment they reply to.
LEMMA CommentsDeleted ==
  ASSUME ReactionInv, comments' \subseteq comments, UNCHANGED <<notices, inserted>>,
         \A r \in comments', c \in comments : r.parent = c.id => c \in comments',
         OnFilms(comments)'
  PROVE  CommentsInv'
<1>1. NoOrphanReply'
  BY DEF ReactionInv, CommentsInv, NoOrphanReply
<1>2. ReplyIsNotified'
  BY DEF ReactionInv, CommentsInv, ReplyIsNotified
<1> QED BY <1>1, <1>2 DEF ReactionInv, CommentsInv, RowsOK

\* A reply to a comment of a thread is in the thread.
LEMMA ThreadClosed ==
  ASSUME NEW id, NEW c \in comments, NEW r \in comments, c.id \in Thread(id), r.parent = c.id
  PROVE  r.id \in Thread(id)
<1>1. r.id \in Ids(comments)
  BY DEF Ids
<1>2. ASSUME NEW S \in SUBSET (Ids(comments) \cup {id}), id \in S,
             \A x \in comments : x.parent \in S => x.id \in S
      PROVE  r.id \in S
  BY <1>2 DEF Thread
<1> QED BY <1>1, <1>2 DEF Thread

LEMMA DeletedCommentKeeps ==
  ASSUME ReactionInv, NEW w \in Workers, CommitDeleteComment(w) PROVE ReactionInv'
<1> USE DEF othersUnchanged
<1>1. Finish(w) /\ UNCHANGED <<films, favorites, likes, ratings, notices, inserted>>
  BY DEF CommitDeleteComment
<1>2. comments' = {c \in comments : c.id \notin Thread(doing[w].comment)}
  BY DEF CommitDeleteComment
<1>3. \A r \in comments', c \in comments : r.parent = c.id => c \in comments'
  BY <1>2, ThreadClosed
<1>4. CommentsInv'
  BY <1>1, <1>2, <1>3, CommentsDeleted DEF ReactionInv, CommentsInv, OnFilms
<1>5. Grows
  BY <1>1, <1>2 DEF Grows, ReactionInv
<1> QED BY <1>1, <1>4, <1>5, FinishKept, TablesShrink DEF ReactionInv

LEMMA DeletedMovieKeeps ==
  ASSUME ReactionInv, NEW w \in Workers, CommitDeleteMovie(w) PROVE ReactionInv'
<1> DEFINE m == doing[w].movie
<1>1. Finish(w) /\ UNCHANGED <<favorites, notices, inserted>>
  BY DEF CommitDeleteMovie
<1>2. CASE UNCHANGED <<films, likes, ratings, comments>>
  BY <1>1, <1>2, ReadKeeps
<1>3. CASE ~UNCHANGED <<films, likes, ratings, comments>>
  <2>1. /\ \A f \in favorites : f.movie # m
        /\ films' = films \ {m} /\ likes' = Off(m, likes) /\ ratings' = Off(m, ratings)
        /\ comments' = Off(m, comments)
    BY <1>3 DEF CommitDeleteMovie
  <2> HIDE DEF m
  <2>2. FavoritesInv'
    BY <1>1, <2>1 DEF ReactionInv, FavoritesInv, OnFilms
  <2>3. LikesInv'
    BY <1>1, <2>1 DEF ReactionInv, LikesInv, RowsOK, OnePerUser, OnFilms, Off
  <2>4. RatingsInv'
    BY <1>1, <2>1 DEF ReactionInv, RatingsInv, RowsOK, OnePerUser, OnFilms, Off
  <2>5. \A r \in comments', c \in comments : r.parent = c.id => c \in comments'
    BY <2>1 DEF Off, ReactionInv, CommentsInv, NoOrphanReply, RowsOK
  <2>6. CommentsInv'
    BY <1>1, <2>1, <2>5, CommentsDeleted DEF ReactionInv, CommentsInv, OnFilms, Off
  <2>7. Grows
    BY <1>1, <2>1 DEF Grows, ReactionInv, Off
  <2> QED BY <1>1, <2>1, <2>2, <2>3, <2>4, <2>6, <2>7, FinishKept DEF ReactionInv
<1> QED BY <1>2, <1>3

-----------------------------------------------------------------------------
(* The theorems *)

LEMMA InitReactions == ReactionInit => ReactionInv
<1> SUFFICES ASSUME ReactionInit PROVE ReactionInv
  OBVIOUS
<1>1. TasksInv
  BY DEF ReactionInit, TasksInv, TaskOK, Resting
<1>2. FavoritesInv /\ LikesInv /\ RatingsInv /\ CommentsInv
  BY DEF ReactionInit, FavoritesInv, LikesInv, RatingsInv, CommentsInv, RowsOK, OnePerUser,
         OnFilms, NoOrphanReply, ReplyIsNotified
<1> QED BY <1>1, <1>2 DEF ReactionInit, ReactionInv

LEMMA StepReactions == ReactionInv /\ [Next]_reactionVars => ReactionInv'
<1> SUFFICES ASSUME ReactionInv, [Next]_reactionVars PROVE ReactionInv'
  OBVIOUS
<1>1. ASSUME NEW w \in Workers, ReactionArrives(w) \/ ReactionStep(w) PROVE ReactionInv'
  BY <1>1, ArrivalsKeep, ReadingsKeep, FavoriteKeeps, ReactionKeeps, RatingKeeps, CommentKeeps,
     ReplyKeeps, DeletedCommentKeeps, DeletedMovieKeeps
  DEF ReactionStep
<1>2. CASE UNCHANGED reactionVars
  <2>1. Grows
    BY <1>2 DEF reactionVars, Grows, ReactionInv
  <2> QED BY <1>2, <2>1, TasksStay, TablesShrink DEF reactionVars, ReactionInv
<1> QED BY <1>1, <1>2 DEF Next

\* The inductive invariant holds in every reachable state.
THEOREM ReactionInvariant == Spec => []ReactionInv
BY InitReactions, StepReactions, PTL DEF Spec

\* However the clicks of users, the replacement of reactions and the deletion of movies
\* overlap, a user has one reaction to a movie and one rating of it, and nothing
\* is attached to a movie that is gone (movies.py:538-730, 948-1030, 476-530).
THEOREM ReactionsCorrect == Spec => [](OneReactionPerUser /\ NothingOnDeletedMovie)
<1>1. ReactionInv => OneReactionPerUser /\ NothingOnDeletedMovie
  BY DEF ReactionInv, FavoritesInv, LikesInv, RatingsInv, CommentsInv, OnePerUser, OnFilms,
         OneReactionPerUser, NothingOnDeletedMovie
<1> QED BY <1>1, ReactionInvariant, PTL

\* A reply has its comment, on its movie, and the author of that comment was told,
\* while comments, their threads and movies are deleted (movies.py:835-935).
THEOREM RepliesCorrect == Spec => [](NoOrphanReply /\ ReplyIsNotified)
<1>1. ReactionInv => NoOrphanReply /\ ReplyIsNotified
  BY DEF ReactionInv, CommentsInv
<1> QED BY <1>1, ReactionInvariant, PTL

-----------------------------------------------------------------------------
(* Typing: the ids that requests in flight may still need are reserved *)

\* Likes, and the scores of ratings and of requests.
ValuesOK ==
  /\ \A l \in likes : l \in [id : Nat, user : Users, movie : Movies, isLike : BOOLEAN]
  /\ \A r \in ratings : r.score \in Scores
  /\ \A w \in Workers : doing[w].op # "none" =>
       /\ doing[w].score \in Scores \cup {0}
       /\ doing[w].op = "rate_movie" => doing[w].score \in Scores

Inserting == {w \in Workers : doing[w].op \in Inserters}

IdsReserved == inserted + Cardinality(Inserting) <= MaxRows

LEMMA InsertingFinite ==
  /\ IsFiniteSet(Inserting) /\ Cardinality(Inserting) \in Nat
  /\ \A S \in SUBSET Inserting :
       Cardinality(S) \in Nat /\ Cardinality(S) <= Cardinality(Inserting)
<1>1. IsFiniteSet(Inserting)
  BY WorkersFinite, FS_Subset DEF Inserting
<1> QED BY <1>1, FS_Subset, FS_CardinalityType

\* A step that inserts nothing and lets no request in that may.
LEMMA NoneReserved ==
  ASSUME ReactionInv, IdsReserved, inserted' = inserted, Inserting' \subseteq Inserting
  PROVE  IdsReserved'
<1>1. Cardinality(Inserting') \in Nat /\ Cardinality(Inserting') <= Cardinality(Inserting)
  BY InsertingFinite, Zenon
<1> QED BY <1>1, InsertingFinite, ReactionConstantsOk DEF ReactionInv, IdsReserved

\* A request that may insert is let in when there is room for one more.
LEMMA OneReserved ==
  ASSUME ReactionInv, RoomForRow, NEW w \in Workers, inserted' = inserted,
         doing[w] = Resting, Inserting' = Inserting \cup {w}
  PROVE  IdsReserved'
<1>1. w \notin Inserting
  BY DEF Inserting, Inserters, Resting
<1>2. Cardinality(Inserting') = Cardinality(Inserting) + 1
  BY <1>1, InsertingFinite, FS_AddElement
<1>3. inserted + Cardinality(Inserting) < MaxRows
  BY DEF RoomForRow, Inserting
<1> QED BY <1>2, <1>3, InsertingFinite, ReactionConstantsOk DEF ReactionInv, IdsReserved

\* An insert uses the id of its request.
LEMMA ReservedUsed ==
  ASSUME ReactionInv, IdsReserved, NEW w \in Workers, inserted' = inserted + 1,
         doing[w].op \in Inserters, Finish(w)
  PROVE  IdsReserved'
<1>1. Inserting' = Inserting \ {w} /\ w \in Inserting
  BY DEF Finish, ReactionInv, TasksInv, Inserting, Inserters, Resting
<1>2. Cardinality(Inserting') = Cardinality(Inserting) - 1
  BY <1>1, InsertingFinite, FS_RemoveElement
<1> QED BY <1>2, InsertingFinite, ReactionConstantsOk DEF ReactionInv, IdsReserved

\* Beside ReactionInv, which knows that ids were given out, this is all that types need.
TypedInv == ValuesOK /\ IdsReserved

LEMMA TypedEnough == ReactionInv /\ TypedInv => TypeOK
<1> SUFFICES ASSUME ReactionInv, TypedInv PROVE TypeOK
  OBVIOUS
<1>1. inserted \in 0..MaxRows /\ 1..inserted \subseteq Id /\ 0..inserted \subseteq Id \cup {0}
  <2>1. inserted <= MaxRows /\ inserted \in Nat
    BY InsertingFinite, ReactionConstantsOk DEF ReactionInv, TypedInv, IdsReserved
  <2> QED BY <2>1, ReactionConstantsOk DEF Id
<1>2. likes \subseteq Like
  <2>1. \A l \in likes :
          l.id \in Id /\ l \in [id : Nat, user : Users, movie : Movies, isLike : BOOLEAN]
    BY <1>1 DEF ReactionInv, LikesInv, RowsOK, TypedInv, ValuesOK
  <2>2. \A l : l \in [id : Nat, user : Users, movie : Movies, isLike : BOOLEAN] /\ l.id \in Id =>
           l \in [id : Id, user : Users, movie : Movies, isLike : BOOLEAN]
    BY Zenon
  <2> QED BY <2>1, <2>2, Zenon DEF Like
<1>3. ratings \subseteq Rating
  BY <1>1 DEF ReactionInv, RatingsInv, RowsOK, TypedInv, ValuesOK, Rating
<1>4. comments \subseteq Comment /\ notices \subseteq Notice
  <2>1. \A c \in comments : c.id \in Id /\ c.parent \in Id \cup {0}
    BY <1>1 DEF ReactionInv, CommentsInv, RowsOK, NoOrphanReply
  <2>2. \A n \in notices : n.reply \in Id
    BY <1>1 DEF ReactionInv, CommentsInv
  <2> QED BY <2>1, <2>2 DEF ReactionInv, CommentsInv, Comment, Notice
<1>5. \A w \in Workers : doing[w] \in Task \cup {Resting}
  <2> TAKE w \in Workers
  <2>1. CASE doing[w].op = "none"
    BY <2>1 DEF ReactionInv, TasksInv, TaskOK
  <2>2. CASE doing[w].op # "none"
    <3> PICK t : t = doing[w]
      OBVIOUS
    <3>1. t \in [ op : AllReactionEndpoints, pc : {"delete_old", "find", "commit"},
                  user : Users, movie : Movies, rows : SUBSET (1..inserted),
                  score : Nat, comment : 0..inserted ]
      BY <2>2, TaskTyped
    <3>2. t.score \in Scores \cup {0} /\ t.rows \in SUBSET Id /\ t.comment \in Id \cup {0}
      BY <1>1, <2>2, <3>1 DEF TypedInv, ValuesOK
    <3>3. t \in Task
      BY <3>1, <3>2 DEF Task
    <3> QED BY <3>3
  <2> QED BY <2>1, <2>2
<1>6. doing \in [Workers -> Task \cup {Resting}]
  <2>1. doing = [w \in Workers |-> doing[w]]
    BY DEF ReactionInv, TasksInv
  <2> QED BY <1>5, <2>1
<1> QED BY <1>1, <1>2, <1>3, <1>4, <1>6 DEF ReactionInv, FavoritesInv, TypeOK, ReactionTypeOK

\* A row is inserted, or none, and the request is over.
LEMMA EndTyped ==
  ASSUME ReactionInv, TypedInv, NEW w \in Workers, Finish(w),
         \/ inserted' = inserted
         \/ inserted' = inserted + 1 /\ doing[w].op \in Inserters,
         \A l \in likes' : l \in [id : Nat, user : Users, movie : Movies, isLike : BOOLEAN],
         \A r \in ratings' : r.score \in Scores
  PROVE  TypedInv'
<1>1. doing' = [x \in Workers |-> IF x = w THEN Resting ELSE doing[x]]
  BY DEF Finish, ReactionInv, TasksInv
<1>2. ValuesOK'
  BY <1>1 DEF TypedInv, ValuesOK, Resting
<1>3. Inserting' \subseteq Inserting
  BY <1>1 DEF Inserting, Inserters, Resting
<1>4. IdsReserved'
  BY <1>3, NoneReserved, ReservedUsed DEF TypedInv
<1> QED BY <1>2, <1>4 DEF TypedInv

\* A step that reads, or deletes at once.
LEMMA ReadTyped ==
  ASSUME ReactionInv, TypedInv, NEW w \in Workers, inserted' = inserted,
         likes' \subseteq likes, ratings' \subseteq ratings,
         \/ doing' = doing
         \/ Finish(w)
         \/ /\ doing[w].op # "none"
            /\ \E t : /\ t.op = doing[w].op /\ t.score = doing[w].score
                     /\ doing' = [doing EXCEPT ![w] = t]
  PROVE  TypedInv'
<1>1. /\ \A l \in likes' : l \in [id : Nat, user : Users, movie : Movies, isLike : BOOLEAN]
      /\ \A r \in ratings' : r.score \in Scores
  BY DEF TypedInv, ValuesOK
<1>2. CASE doing' = doing
  <2>1. Inserting' = Inserting
    BY <1>2 DEF Inserting
  <2>2. ValuesOK'
    BY <1>1, <1>2 DEF TypedInv, ValuesOK
  <2> QED BY <2>1, <2>2, NoneReserved DEF TypedInv
<1>3. CASE Finish(w)
  BY <1>1, <1>3, EndTyped
<1>4. ASSUME NEW t, doing[w].op # "none", t.op = doing[w].op, t.score = doing[w].score,
             doing' = [doing EXCEPT ![w] = t]
      PROVE  TypedInv'
  <2>1. doing' = [x \in Workers |-> IF x = w THEN t ELSE doing[x]]
    BY <1>4 DEF ReactionInv, TasksInv
  <2>2. Inserting' = Inserting
    BY <1>4, <2>1 DEF Inserting
  <2>3. ValuesOK'
    BY <1>1, <1>4, <2>1 DEF TypedInv, ValuesOK
  <2> QED BY <2>2, <2>3, NoneReserved DEF TypedInv
<1> QED BY <1>2, <1>3, <1>4

\* An arriving request finds room for the row it may insert.
LEMMA TakeTyped ==
  ASSUME ReactionInv, TypedInv, NEW w \in Workers, NEW op, NEW label, NEW u, NEW m,
         NEW score \in Scores \cup {0}, NEW comment, Take(w, op, label, u, m, score, comment),
         op = "rate_movie" => score \in Scores, op \in Inserters => RoomForRow,
         UNCHANGED <<likes, ratings, inserted>>
  PROVE  TypedInv'
<1> DEFINE t == [ op |-> op, pc |-> label, user |-> u, movie |-> m, rows |-> {},
                  score |-> score, comment |-> comment ]
<1>1. t.op = op /\ t.score = score
  OBVIOUS
<1>2. doing' = [x \in Workers |-> IF x = w THEN t ELSE doing[x]] /\ doing[w] = Resting
  BY DEF Take, ReactionInv, TasksInv
<1> HIDE DEF t
<1>3. ValuesOK'
  BY <1>1, <1>2 DEF TypedInv, ValuesOK
<1>4. CASE op \in Inserters
  <2>1. Inserting' = Inserting \cup {w}
    BY <1>1, <1>2, <1>4 DEF Inserting
  <2> QED BY <1>2, <1>3, <1>4, <2>1, OneReserved DEF TypedInv
<1>5. CASE op \notin Inserters
  <2>1. Inserting' \subseteq Inserting
    BY <1>1, <1>2, <1>5 DEF Inserting
  <2> QED BY <1>3, <2>1, NoneReserved DEF TypedInv
<1> QED BY <1>4, <1>5

LEMMA ArrivalsTyped ==
  ASSUME ReactionInv, TypedInv, NEW w \in Workers, ReactionArrives(w) PROVE TypedInv'
<1> USE DEF othersUnchanged
<1>1. ASSUME NEW u \in Users, NEW m \in Movies,
             \/ AddFavorite(w, u, m) \/ LikeMovie(w, "like_movie", u, m)
             \/ LikeMovie(w, "dislike_movie", u, m) \/ AddComment(w, u, m)
             \/ DeleteMovie(w, u, m) \/ \E c \in Ids(comments) : AddReply(w, u, m, c)
      PROVE  TypedInv'
  <2>1. \E label, c : \E op \in AllReactionEndpoints \ {"rate_movie"} :
           (op \in Inserters => RoomForRow) /\ Take(w, op, label, u, m, 0, c)
    BY <1>1 DEF AddFavorite, LikeMovie, AddComment, DeleteMovie, AddReply,
         AllReactionEndpoints, Inserters
  <2>2. UNCHANGED <<likes, ratings, inserted>>
    BY <1>1 DEF AddFavorite, LikeMovie, AddComment, DeleteMovie, AddReply
  <2> QED BY <2>1, <2>2, TakeTyped
<1>2. ASSUME NEW u \in Users, NEW m \in Movies, NEW s \in Scores, RateMovie(w, u, m, s)
      PROVE  TypedInv'
  BY <1>2, TakeTyped DEF RateMovie
<1>3. ASSUME NEW u \in Users, NEW c \in comments, DeleteComment(w, u, c)
      PROVE  TypedInv'
  BY <1>3, TakeTyped DEF DeleteComment, Inserters
<1>4. ASSUME NEW u \in Users, NEW m \in Movies,
             RemoveFavorite(w, u, m) \/ CancelReaction(w, u, m) \/ DeleteRating(w, u, m)
      PROVE  TypedInv'
  BY <1>4, ReadTyped DEF RemoveFavorite, CancelReaction, DeleteRating, AtOnce
<1> QED BY <1>1, <1>2, <1>3, <1>4 DEF ReactionArrives

LEMMA ReadingsTyped ==
  ASSUME ReactionInv, TypedInv, NEW w \in Workers,
         FindFavorite(w) \/ DeleteReaction(w) \/ FindRating(w) \/ FindParent(w)
  PROVE  TypedInv'
<1>1. UNCHANGED <<likes, ratings, inserted>> /\ doing[w].op # "none"
  BY DEF FindFavorite, DeleteReaction, FindRating, FindParent, othersUnchanged, Doing
<1>2. /\ doing = [x \in Workers |-> doing[x]]
      /\ doing[w] = [doing[w] EXCEPT !.op = doing[w].op]
  BY <1>1, TaskTyped DEF ReactionInv, TasksInv
<1>3. ASSUME NEW rows, NEW t, t = [doing[w] EXCEPT !.pc = "commit"] \/
                             t = [doing[w] EXCEPT !.pc = "commit", !.rows = rows],
             doing' = [doing EXCEPT ![w] = t]
      PROVE  TypedInv'
  <2>1. t.op = doing[w].op /\ t.score = doing[w].score
    BY <1>1, <1>3, TaskTyped
  <2> QED BY <1>1, <1>3, <2>1, ReadTyped
<1>4. Finish(w) \/ \E rows, t : /\ t = [doing[w] EXCEPT !.pc = "commit"] \/
                                     t = [doing[w] EXCEPT !.pc = "commit", !.rows = rows]
                                /\ doing' = [doing EXCEPT ![w] = t]
  BY <1>2 DEF FindFavorite, DeleteReaction, FindRating, FindParent
<1> QED BY <1>1, <1>3, <1>4, ReadTyped

LEMMA CommitsTyped ==
  ASSUME ReactionInv, TypedInv, NEW w \in Workers,
         \/ CommitFavorite(w) \/ CommitReaction(w) \/ CommitRating(w)
         \/ CommitComment(w) \/ CommitReply(w)
         \/ CommitDeleteComment(w) \/ CommitDeleteMovie(w)
  PROVE  TypedInv'
<1> USE DEF othersUnchanged
<1>1. Finish(w) /\ doing[w].op # "none"
  BY DEF CommitFavorite, CommitReaction, CommitRating, CommitComment, CommitReply,
       CommitDeleteComment, CommitDeleteMovie, Doing
<1>2. \/ inserted' = inserted
      \/ inserted' = inserted + 1 /\ doing[w].op \in Inserters
  BY DEF CommitFavorite, CommitReaction, CommitRating, CommitComment, CommitReply,
       CommitDeleteComment, CommitDeleteMovie, Doing, Inserters
<1>3. \A l \in likes' : l \in [id : Nat, user : Users, movie : Movies, isLike : BOOLEAN]
  <2>1. \A l \in likes : l \in [id : Nat, user : Users, movie : Movies, isLike : BOOLEAN]
    BY DEF TypedInv, ValuesOK
  <2>2. CASE likes' \subseteq likes
    BY <2>1, <2>2
  <2>3. CASE CommitReaction(w)
    <3> DEFINE new == [ id |-> inserted + 1, user |-> doing[w].user, movie |-> doing[w].movie,
                        isLike |-> doing[w].op = "like_movie" ]
    <3>1. \A l \in likes' : l \in likes \/ l = new
      BY <2>3 DEF CommitReaction
    <3>2. inserted + 1 \in Nat /\ doing[w].user \in Users /\ doing[w].movie \in Movies
      BY <1>1, TaskTyped DEF ReactionInv
    <3>3. (doing[w].op = "like_movie") \in BOOLEAN
      BY Zenon
    <3>4. new \in [id : Nat, user : Users, movie : Movies, isLike : BOOLEAN]
      BY <3>2, <3>3, Zenon
    <3> HIDE DEF new
    <3> QED BY <2>1, <3>1, <3>4, Zenon
  <2> QED BY <2>2, <2>3 DEF CommitFavorite, CommitReaction, CommitRating, CommitComment,
            CommitReply, CommitDeleteComment, CommitDeleteMovie, Off
<1>4. \A r \in ratings' : r.score \in Scores
  <2>1. \A r \in ratings : r.score \in Scores
    BY DEF TypedInv, ValuesOK
  <2>2. CASE ratings' \subseteq ratings
    BY <2>1, <2>2
  <2>3. CASE CommitRating(w)
    <3>1. doing[w].score \in Scores
      BY <2>3 DEF CommitRating, Doing, TypedInv, ValuesOK
    <3>2. \A r \in ratings : [r EXCEPT !.score = doing[w].score].score \in Scores
      BY <3>1 DEF ReactionInv, RatingsInv
    <3>3. CASE doing[w].rows # {}
      <4>1. \A r \in ratings' : \E q \in ratings : r = q \/ r = [q EXCEPT !.score = doing[w].score]
        BY <2>3, <3>3 DEF CommitRating
      <4> QED BY <2>1, <3>2, <4>1
    <3>4. CASE doing[w].rows = {}
      <4> DEFINE new == [ id |-> inserted + 1, user |-> doing[w].user,
                          movie |-> doing[w].movie, score |-> doing[w].score ]
      <4>1. \A r \in ratings' : r \in ratings \/ r = new
        BY <2>3, <3>4 DEF CommitRating
      <4> QED BY <2>1, <3>1, <4>1
    <3> QED BY <3>3, <3>4
  <2> QED BY <2>2, <2>3 DEF CommitFavorite, CommitReaction, CommitRating, CommitComment,
            CommitReply, CommitDeleteComment, CommitDeleteMovie, Off
<1> QED BY <1>1, <1>2, <1>3, <1>4, EndTyped

LEMMA StepTyped == ReactionInv /\ TypedInv /\ [Next]_reactionVars => TypedInv'
<1> SUFFICES ASSUME ReactionInv, TypedInv, [Next]_reactionVars PROVE TypedInv'
  OBVIOUS
<1>1. ASSUME NEW w \in Workers, ReactionArrives(w) \/ ReactionStep(w) PROVE TypedInv'
  BY <1>1, ArrivalsTyped, ReadingsTyped, CommitsTyped DEF ReactionStep
<1>2. CASE UNCHANGED reactionVars
  BY <1>2 DEF reactionVars, TypedInv, ValuesOK, IdsReserved, Inserting
<1> QED BY <1>1, <1>2 DEF Next

LEMMA InitTyped == ReactionInit => TypedInv
<1> SUFFICES ASSUME ReactionInit PROVE TypedInv
  OBVIOUS
<1>1. Inserting = {} /\ ValuesOK
  BY DEF ReactionInit, Inserting, Inserters, ValuesOK, Resting
<1>2. IdsReserved
  BY <1>1, FS_EmptySet, ReactionConstantsOk DEF ReactionInit, IdsReserved
<1> QED BY <1>1, <1>2 DEF TypedInv

\* Every table and every request keeps its type, however many requests are in flight:
\* likes and ratings have scores of the schema, replies parents that were inserted, and
\* no request finds the ids used up (models/movies.py:118-180, movies.py:609-935).
THEOREM ReactionsTyped == Spec => []TypeOK
<1>1. Spec => []TypedInv
  BY InitTyped, StepTyped, ReactionInvariant, PTL DEF Spec
<1> QED BY <1>1, TypedEnough, ReactionInvariant, PTL

-----------------------------------------------------------------------------
(* Opinions: whose rows a request replaces, and who deletes a comment *)

Reactors == {"like_movie", "dislike_movie"}

\* The likes (of L) or ratings (of R) that a request replaces are its user's, and the
\* user of a deletion wrote the comment (one of C) or is a moderator.
TaskOwns(t, L, R, C) ==
  /\ t.op # "none" /\ t.pc = "delete_old" => t.op \in Reactors
  /\ t.op \in Reactors =>
       \A l \in L : l.id \in t.rows => l.user = t.user /\ l.movie = t.movie
  /\ t.op = "rate_movie" =>
       \A r \in R : r.id \in t.rows => r.user = t.user /\ r.movie = t.movie
  /\ t.op = "delete_comment" =>
       /\ t.comment # 0
       /\ \A c \in C : c.id = t.comment => c.user = t.user \/ t.user \in Moderators

OwnsInv == \A w \in Workers : TaskOwns(doing[w], likes, ratings, comments)

\* A row is new, with an id that nobody has seen, or its user and movie stay.
Heirs(old, new) ==
  \A r \in new :
    \/ \E q \in old : q.id = r.id /\ q.user = r.user /\ q.movie = r.movie
    \/ r.id > inserted
TablesInherit ==
  Heirs(likes, likes') /\ Heirs(ratings, ratings') /\ Heirs(comments, comments')

LEMMA OwnsKept ==
  ASSUME inserted \in Nat, TablesInherit, NEW t, TaskOK(t, inserted, comments),
         TaskOwns(t, likes, ratings, comments)
  PROVE  TaskOwns(t, likes', ratings', comments')
<1>1. CASE t.op = "none"
  BY <1>1 DEF TaskOwns, Reactors
<1>2. CASE t.op # "none"
  <2>1. t.rows \subseteq 1..inserted /\ t.comment \in 0..inserted
    BY <1>2 DEF TaskOK
  <2>2. \A i \in t.rows \cup {t.comment} : ~(i > inserted)
    BY <2>1
  <2>3. t.op \in Reactors => \A l \in likes' : l.id \in t.rows => l.user = t.user /\ l.movie = t.movie
    BY <2>2 DEF TaskOwns, TablesInherit, Heirs
  <2>4. t.op = "rate_movie" =>
           \A r \in ratings' : r.id \in t.rows => r.user = t.user /\ r.movie = t.movie
    BY <2>2 DEF TaskOwns, TablesInherit, Heirs
  <2>5. t.op = "delete_comment" =>
           \A c \in comments' : c.id = t.comment => c.user = t.user \/ t.user \in Moderators
    BY <2>2 DEF TaskOwns, TablesInherit, Heirs
  <2> QED BY <2>3, <2>4, <2>5 DEF TaskOwns
<1> QED BY <1>1, <1>2

LEMMA OwnsEdited ==
  ASSUME ReactionInv, OwnsInv, TablesInherit, NEW w \in Workers, NEW t,
         doing' = [doing EXCEPT ![w] = t], TaskOwns(t, likes', ratings', comments')
  PROVE  OwnsInv'
<1>1. \A x \in Workers : TaskOwns(doing[x], likes', ratings', comments')
  BY OwnsKept DEF ReactionInv, TasksInv, OwnsInv
<1>2. \A x \in Workers : doing'[x] = IF x = w THEN t ELSE doing[x]
  BY DEF ReactionInv, TasksInv
<1> QED BY <1>1, <1>2 DEF OwnsInv

LEMMA OwnsStays == ASSUME ReactionInv, OwnsInv, TablesInherit, doing' = doing PROVE OwnsInv'
BY OwnsKept DEF ReactionInv, TasksInv, OwnsInv

LEMMA OwnsFinished ==
  ASSUME ReactionInv, OwnsInv, TablesInherit, NEW w \in Workers, Finish(w) PROVE OwnsInv'
<1>1. TaskOwns(Resting, likes', ratings', comments')
  BY DEF TaskOwns, Resting, Reactors
<1> QED BY <1>1, OwnsEdited DEF Finish

LEMMA SameRowsInherit ==
  ASSUME likes' \subseteq likes, ratings' \subseteq ratings, comments' \subseteq comments
  PROVE  TablesInherit
BY DEF TablesInherit, Heirs

LEMMA CommitsInherit ==
  ASSUME ReactionInv, NEW w \in Workers,
         \/ CommitFavorite(w) \/ CommitReaction(w) \/ CommitRating(w) \/ CommitComment(w)
         \/ CommitReply(w) \/ CommitDeleteComment(w) \/ CommitDeleteMovie(w)
  PROVE  TablesInherit
<1> USE DEF othersUnchanged
<1>1. inserted + 1 > inserted
  BY DEF ReactionInv
<1>2. CASE CommitReaction(w)
  <2>1. /\ UNCHANGED <<ratings, comments>>
        /\ \A l \in likes' : l \in likes \/ l.id = inserted + 1
    BY <1>2 DEF CommitReaction
  <2> QED BY <1>1, <2>1 DEF TablesInherit, Heirs
<1>3. CASE CommitRating(w)
  <2> DEFINE rescored(r) == IF r.id \in doing[w].rows THEN [r EXCEPT !.score = doing[w].score] ELSE r
  <2>1. UNCHANGED <<likes, comments>>
    BY <1>3 DEF CommitRating
  <2>2. \A r \in ratings' : r.id = inserted + 1 \/ r \in ratings \/ \E q \in ratings : r = rescored(q)
    BY <1>3 DEF CommitRating
  <2>3. \A q \in ratings : /\ rescored(q).id = q.id /\ rescored(q).user = q.user
                           /\ rescored(q).movie = q.movie
    BY DEF ReactionInv, RatingsInv
  <2> HIDE DEF rescored
  <2>4. Heirs(ratings, ratings')
    BY <1>1, <2>2, <2>3 DEF Heirs
  <2> QED BY <2>1, <2>4 DEF TablesInherit, Heirs
<1>4. CASE CommitComment(w) \/ CommitReply(w)
  <2>1. /\ UNCHANGED <<likes, ratings>>
        /\ \A c \in comments' : c \in comments \/ c.id = inserted + 1
    BY <1>4 DEF CommitComment, CommitReply
  <2> QED BY <1>1, <2>1 DEF TablesInherit, Heirs
<1>5. CASE CommitFavorite(w) \/ CommitDeleteComment(w) \/ CommitDeleteMovie(w)
  BY <1>5, SameRowsInherit DEF CommitFavorite, CommitDeleteComment, CommitDeleteMovie, Off
<1> QED BY <1>2, <1>3, <1>4, <1>5

\* A request that arrives has seen no rows; a deletion is the author's or a moderator's.
LEMMA ArrivalsOwn ==
  ASSUME ReactionInv, OwnsInv, NEW w \in Workers, ReactionArrives(w) PROVE OwnsInv'
<1> USE DEF othersUnchanged
<1>1. likes' \subseteq likes /\ ratings' \subseteq ratings /\ comments' = comments
  BY DEF ReactionArrives, AddFavorite, RemoveFavorite, LikeMovie, CancelReaction, RateMovie,
         DeleteRating, AddComment, AddReply, DeleteMovie, DeleteComment
<1>2. TablesInherit
  BY <1>1, SameRowsInherit
<1>3. ASSUME NEW op, NEW label, NEW u, NEW m, NEW s, NEW c, Take(w, op, label, u, m, s, c),
             label = "delete_old" => op \in Reactors,
             op = "delete_comment" =>
               /\ c # 0
               /\ \A x \in comments : x.id = c => x.user = u \/ u \in Moderators
      PROVE  OwnsInv'
  <2> DEFINE t == [ op |-> op, pc |-> label, user |-> u, movie |-> m, rows |-> {},
                    score |-> s, comment |-> c ]
  <2>1. TaskOwns(t, likes', ratings', comments')
    BY <1>1, <1>3 DEF TaskOwns
  <2> QED BY <1>2, <1>3, <2>1, OwnsEdited DEF Take
<1>4. CASE \E u \in Users, m \in Movies :
             \/ AddFavorite(w, u, m) \/ AddComment(w, u, m) \/ DeleteMovie(w, u, m)
             \/ \E op \in Reactors : LikeMovie(w, op, u, m)
             \/ \E s \in Scores : RateMovie(w, u, m, s)
             \/ \E c \in Ids(comments) : AddReply(w, u, m, c)
  <2>1. \E label, u, m, s, c : \E op \in AllReactionEndpoints \ {"delete_comment"} :
           Take(w, op, label, u, m, s, c) /\ (label = "delete_old" => op \in Reactors)
    BY <1>4 DEF AddFavorite, AddComment, DeleteMovie, LikeMovie, RateMovie, AddReply,
                AllReactionEndpoints, Reactors
  <2> QED BY <1>3, <2>1
<1>5. ASSUME NEW u \in Users, NEW c \in comments, DeleteComment(w, u, c) PROVE OwnsInv'
  <2>1. c.id # 0 /\ \A x \in comments : x.id = c.id => x.user = u \/ u \in Moderators
    BY <1>5 DEF DeleteComment, ReactionInv, CommentsInv, RowsOK
  <2> QED BY <1>3, <1>5, <2>1 DEF DeleteComment
<1>6. CASE \E u \in Users, m \in Movies :
             RemoveFavorite(w, u, m) \/ CancelReaction(w, u, m) \/ DeleteRating(w, u, m)
  BY <1>2, <1>6, OwnsStays DEF RemoveFavorite, CancelReaction, DeleteRating, AtOnce
<1> QED BY <1>4, <1>5, <1>6 DEF ReactionArrives, Reactors

LEMMA ReadingsOwn ==
  ASSUME ReactionInv, OwnsInv, NEW w \in Workers,
         FindFavorite(w) \/ DeleteReaction(w) \/ FindRating(w) \/ FindParent(w)
  PROVE  OwnsInv'
<1> DEFINE t(rows) == [doing[w] EXCEPT !.pc = "commit", !.rows = rows]
           old == Ids(Own(likes, doing[w].user, doing[w].movie))
           rated == Ids(Own(ratings, doing[w].user, doing[w].movie))
<1>1. UNCHANGED <<likes, ratings, comments>> /\ doing[w].op # "none"
  BY DEF FindFavorite, DeleteReaction, FindRating, FindParent, othersUnchanged, Doing
<1>2. TablesInherit
  BY <1>1, SameRowsInherit
<1>3. TaskOwns(doing[w], likes, ratings, comments)
  BY DEF OwnsInv
<1>4. \A rows : /\ t(rows).op = doing[w].op /\ t(rows).pc = "commit"
                /\ t(rows).user = doing[w].user /\ t(rows).movie = doing[w].movie
                /\ t(rows).comment = doing[w].comment /\ t(rows).rows = rows
  BY <1>1, TaskTyped
<1>5. (\A l \in likes : l.id \in old => l.user = doing[w].user /\ l.movie = doing[w].movie)
      /\ (\A r \in ratings : r.id \in rated => r.user = doing[w].user /\ r.movie = doing[w].movie)
  BY DEF Ids, Own, ReactionInv, LikesInv, RatingsInv, RowsOK
<1>6. CASE Finish(w)
  BY <1>2, <1>6, OwnsFinished
<1>7. ASSUME ~Finish(w)
      PROVE  \/ doing' = [doing EXCEPT ![w] = t(doing[w].rows)]
             \/ doing[w].op \in Reactors /\ doing' = [doing EXCEPT ![w] = t(old)]
             \/ doing[w].op = "rate_movie" /\ doing' = [doing EXCEPT ![w] = t(rated)]
  <2>1. doing = [x \in Workers |-> doing[x]] /\ doing[w].op # "none"
    BY <1>1 DEF ReactionInv, TasksInv
  <2>2. doing[w] = [doing[w] EXCEPT !.rows = doing[w].rows]
    BY <2>1, TaskTyped
  <2>3. CASE FindFavorite(w) \/ FindParent(w)
    <3>1. doing' = [doing EXCEPT ![w].pc = "commit"]
      BY <1>7, <2>3 DEF FindFavorite, FindParent
    <3>2. [doing[w] EXCEPT !.pc = "commit"] = t(doing[w].rows)
      BY <2>1, TaskTyped
    <3> QED BY <2>1, <3>1, <3>2
  <2>4. CASE DeleteReaction(w)
    <3>1. doing[w].op \in Reactors
      BY <1>3, <2>4 DEF DeleteReaction, TaskOwns
    <3> QED BY <2>1, <2>4, <3>1 DEF DeleteReaction
  <2>5. CASE FindRating(w)
    BY <1>7, <2>1, <2>5 DEF FindRating, Doing
  <2> QED BY <2>3, <2>4, <2>5
<1> HIDE DEF t, old, rated
<1>8. TaskOwns(t(doing[w].rows), likes', ratings', comments')
  BY <1>1, <1>3, <1>4 DEF TaskOwns
<1>9. doing[w].op \in Reactors => TaskOwns(t(old), likes', ratings', comments')
  BY <1>1, <1>3, <1>4, <1>5 DEF TaskOwns, Reactors
<1>10. doing[w].op = "rate_movie" => TaskOwns(t(rated), likes', ratings', comments')
  BY <1>1, <1>3, <1>4, <1>5 DEF TaskOwns, Reactors
<1> QED BY <1>2, <1>6, <1>7, <1>8, <1>9, <1>10, OwnsEdited

LEMMA StepOwns == ReactionInv /\ OwnsInv /\ [Next]_reactionVars => OwnsInv'
<1> SUFFICES ASSUME ReactionInv, OwnsInv, [Next]_reactionVars PROVE OwnsInv'
  OBVIOUS
<1>1. ASSUME NEW w \in Workers, ReactionArrives(w) \/ ReactionStep(w) PROVE OwnsInv'
  <2>1. CASE \/ CommitFavorite(w) \/ CommitReaction(w) \/ CommitRating(w) \/ CommitComment(w)
             \/ CommitReply(w) \/ CommitDeleteComment(w) \/ CommitDeleteMovie(w)
    <3>1. Finish(w)
      BY <2>1 DEF CommitFavorite, CommitReaction, CommitRating, CommitComment, CommitReply,
                  CommitDeleteComment, CommitDeleteMovie
    <3> QED BY <2>1, <3>1, CommitsInherit, OwnsFinished
  <2> QED BY <1>1, <2>1, ArrivalsOwn, ReadingsOwn DEF ReactionStep
<1>2. CASE UNCHANGED reactionVars
  BY <1>2, SameRowsInherit, OwnsStays DEF reactionVars
<1> QED BY <1>1, <1>2 DEF Next

LEMMA InitOwns == ReactionInit => OwnsInv
BY DEF ReactionInit, OwnsInv, TaskOwns, Resting, Reactors

-----------------------------------------------------------------------------
(* Opinions: every step is a click or changes nothing *)

AudienceVars == <<films, favorites, OpinionsHeld, ScoresGiven, comments, notices>>

\* What a step needs to know.
Known == ReactionInv /\ TypedInv /\ OwnsInv

LEMMA RowsTyped ==
  ASSUME Known
  PROVE  /\ \A l \in likes : l \in [id : Nat, user : Users, movie : Movies, isLike : BOOLEAN]
         /\ \A r \in ratings : r \in [id : Nat, user : Users, movie : Movies, score : Nat]
BY DEF Known, ReactionInv, RatingsInv, TypedInv, ValuesOK

\* Tables that differ in the rows of one user and movie.
LEMMA OpinionsWithout ==
  ASSUME NEW u, NEW m, NEW T
  PROVE  {[user |-> l.user, movie |-> l.movie, isLike |-> l.isLike] :
             l \in {x \in T : ~(x.user = u /\ x.movie = m)}}
         = Audience!Others(u, m,
             {[user |-> l.user, movie |-> l.movie, isLike |-> l.isLike] : l \in T})
BY DEF Audience!Others

LEMMA ScoresWithout ==
  ASSUME NEW u, NEW m, NEW T
  PROVE  {[user |-> r.user, movie |-> r.movie, score |-> r.score] :
             r \in {x \in T : ~(x.user = u /\ x.movie = m)}}
         = Audience!Others(u, m,
             {[user |-> r.user, movie |-> r.movie, score |-> r.score] : r \in T})
BY DEF Audience!Others

-----------------------------------------------------------------------------
\* Requests that arrive only add a task, unless they are one statement.
LEMMA ArrivalsClick ==
  ASSUME Known, NEW w \in Workers, ReactionArrives(w)
  PROVE  Audience!Next \/ UNCHANGED AudienceVars
<1> USE DEF othersUnchanged
<1>1. ASSUME NEW u \in Users, NEW m \in Movies, RemoveFavorite(w, u, m) PROVE Audience!Next
  <2>1. favorites' = Audience!Others(u, m, favorites)
    BY <1>1 DEF RemoveFavorite, Audience!Others, Known, ReactionInv, FavoritesInv, Favorite
  <2>2. Audience!Unfavor(u, m)
    BY <1>1, <2>1 DEF RemoveFavorite, Audience!Unfavor, OpinionsHeld, ScoresGiven
  <2> QED BY <2>2 DEF Audience!Next
<1>2. ASSUME NEW u \in Users, NEW m \in Movies, CancelReaction(w, u, m) PROVE Audience!Next
  <2>1. likes' = {l \in likes : ~(l.user = u /\ l.movie = m)}
    BY <1>2 DEF CancelReaction, Own
  <2>2. OpinionsHeld' = Audience!Others(u, m, OpinionsHeld)
    BY <2>1, OpinionsWithout DEF OpinionsHeld
  <2>3. Audience!Withdraw(u, m)
    BY <1>2, <2>2 DEF CancelReaction, Audience!Withdraw, ScoresGiven
  <2> QED BY <2>3 DEF Audience!Next
<1>3. ASSUME NEW u \in Users, NEW m \in Movies, DeleteRating(w, u, m) PROVE Audience!Next
  <2>1. ratings' = {r \in ratings : ~(r.user = u /\ r.movie = m)}
    BY <1>3 DEF DeleteRating, Own
  <2>2. ScoresGiven' = Audience!Others(u, m, ScoresGiven)
    BY <2>1, ScoresWithout DEF ScoresGiven
  <2>3. Audience!Unrate(u, m)
    BY <1>3, <2>2 DEF DeleteRating, Audience!Unrate, OpinionsHeld
  <2> QED BY <2>3 DEF Audience!Next
<1>4. CASE \/ \E u \in Users, m \in Movies :
                \/ AddFavorite(w, u, m) \/ AddComment(w, u, m) \/ DeleteMovie(w, u, m)
                \/ \E op \in {"like_movie", "dislike_movie"} : LikeMovie(w, op, u, m)
                \/ \E s \in Scores : RateMovie(w, u, m, s)
                \/ \E c \in Ids(comments) : AddReply(w, u, m, c)
           \/ \E u \in Users, c \in comments : DeleteComment(w, u, c)
  <2>1. UNCHANGED <<films, favorites, likes, ratings, comments, notices>>
    BY <1>4 DEF AddFavorite, AddComment, DeleteMovie, LikeMovie, RateMovie, AddReply, DeleteComment
  <2> QED BY <2>1 DEF AudienceVars, OpinionsHeld, ScoresGiven
<1> QED BY <1>1, <1>2, <1>3, <1>4 DEF ReactionArrives

LEMMA ReadingsStutter ==
  ASSUME NEW w \in Workers,
         FindFavorite(w) \/ DeleteReaction(w) \/ FindRating(w) \/ FindParent(w)
  PROVE  UNCHANGED AudienceVars
BY DEF FindFavorite, DeleteReaction, FindRating, FindParent, othersUnchanged, AudienceVars,
       OpinionsHeld, ScoresGiven

LEMMA FavoriteClicks ==
  ASSUME Known, NEW w \in Workers, CommitFavorite(w)
  PROVE  Audience!Next \/ UNCHANGED AudienceVars
<1>1. doing[w].user \in Users /\ doing[w].movie \in Movies
  BY TaskTyped DEF CommitFavorite, Doing, Known
<1>2. UNCHANGED <<films, OpinionsHeld, ScoresGiven, comments, notices>>
  BY DEF CommitFavorite, OpinionsHeld, ScoresGiven
<1>3. CASE doing[w].movie \in films
  <2>1. Audience!Favor(doing[w].user, doing[w].movie)
    BY <1>2, <1>3 DEF CommitFavorite, Audience!Favor
  <2> QED BY <1>1, <2>1 DEF Audience!Next
<1>4. CASE doing[w].movie \notin films
  BY <1>2, <1>4 DEF CommitFavorite, AudienceVars
<1> QED BY <1>3, <1>4

\* The rows that the DELETE saw are those of the user, and by the unique constraint all.
LEMMA ReactionClicks ==
  ASSUME Known, NEW w \in Workers, CommitReaction(w)
  PROVE  Audience!Next \/ UNCHANGED AudienceVars
<1> DEFINE u == doing[w].user
           m == doing[w].movie
           liked == doing[w].op = "like_movie"
           new == [id |-> inserted + 1, user |-> u, movie |-> m, isLike |-> liked]
<1>1. u \in Users /\ m \in Movies /\ liked \in BOOLEAN /\ doing[w].op \in Reactors
  BY TaskTyped DEF CommitReaction, Doing, Known, Reactors
<1>2. UNCHANGED <<films, favorites, ScoresGiven, comments, notices>>
  BY DEF CommitReaction, ScoresGiven
<1>3. CASE ~Unclaimed(likes, w)
  BY <1>2, <1>3 DEF CommitReaction, AudienceVars, OpinionsHeld
<1>4. CASE Unclaimed(likes, w)
  <2>1. \A l \in likes : l.id \in doing[w].rows <=> l.user = u /\ l.movie = m
    BY <1>1, <1>4 DEF Known, OwnsInv, TaskOwns, Unclaimed, Ids, Own
  <2>2. likes' = {l \in likes : ~(l.user = u /\ l.movie = m)} \cup {new}
    <3>1. {l \in likes : l.id \notin doing[w].rows} = {l \in likes : ~(l.user = u /\ l.movie = m)}
      BY <2>1
    <3> QED BY <1>4, <3>1 DEF CommitReaction
  <2>3. new.user = u /\ new.movie = m /\ new.isLike = liked /\ m \in films
    BY <1>4 DEF Unclaimed
  <2> HIDE DEF u, m, liked, new
  <2>4. OpinionsHeld' = {[user |-> l.user, movie |-> l.movie, isLike |-> l.isLike] :
                           l \in {x \in likes : ~(x.user = u /\ x.movie = m)}}
                        \cup {[user |-> u, movie |-> m, isLike |-> liked]}
    BY <2>2, <2>3 DEF OpinionsHeld
  <2>5. OpinionsHeld' = Audience!Others(u, m, OpinionsHeld)
                        \cup {[user |-> u, movie |-> m, isLike |-> liked]}
    BY <2>4, OpinionsWithout DEF OpinionsHeld
  <2>6. Audience!React(u, m, liked)
    BY <1>2, <2>3, <2>5 DEF Audience!React
  <2> QED BY <1>1, <2>6 DEF Audience!Next
<1> QED BY <1>3, <1>4

LEMMA RatingClicks ==
  ASSUME Known, NEW w \in Workers, CommitRating(w)
  PROVE  Audience!Next \/ UNCHANGED AudienceVars
<1> DEFINE u == doing[w].user
           m == doing[w].movie
           s == doing[w].score
<1>1. /\ u \in Users /\ m \in Movies /\ s \in Scores
      /\ doing[w].op = "rate_movie" /\ doing[w].op # "none"
  BY TaskTyped DEF CommitRating, Doing, Known, TypedInv, ValuesOK
<1>2. UNCHANGED <<films, favorites, OpinionsHeld, comments, notices>>
  BY DEF CommitRating, OpinionsHeld
<1>3. ASSUME m \in films,
             ScoresGiven' = Audience!Others(u, m, ScoresGiven)
                            \cup {[user |-> u, movie |-> m, score |-> s]}
      PROVE  Audience!Next
  <2>1. Audience!Rate(u, m, s)
    BY <1>2, <1>3 DEF Audience!Rate
  <2> QED BY <1>1, <2>1 DEF Audience!Next
<1>4. CASE doing[w].rows = {} /\ ~Unclaimed(ratings, w)
  BY <1>2, <1>4 DEF CommitRating, AudienceVars, ScoresGiven
<1>5. CASE doing[w].rows = {} /\ Unclaimed(ratings, w)
  <2> DEFINE new == [id |-> inserted + 1, user |-> u, movie |-> m, score |-> s]
  <2>1. \A r \in ratings : ~(r.user = u /\ r.movie = m)
    BY <1>5 DEF Unclaimed, Ids, Own
  <2>2. ratings' = {r \in ratings : ~(r.user = u /\ r.movie = m)} \cup {new}
    <3>1. {r \in ratings : ~(r.user = u /\ r.movie = m)} = ratings
      BY <2>1
    <3> QED BY <1>5, <3>1 DEF CommitRating
  <2>3. new.user = u /\ new.movie = m /\ new.score = s /\ m \in films
    BY <1>5 DEF Unclaimed
  <2> HIDE DEF u, m, s, new
  <2>4. ScoresGiven' = {[user |-> r.user, movie |-> r.movie, score |-> r.score] :
                          r \in {x \in ratings : ~(x.user = u /\ x.movie = m)}}
                       \cup {[user |-> u, movie |-> m, score |-> s]}
    BY <2>2, <2>3 DEF ScoresGiven
  <2> QED BY <1>3, <2>3, <2>4, ScoresWithout DEF ScoresGiven
<1>6. CASE doing[w].rows # {}
  <2> DEFINE rescored(r) == IF r.id \in doing[w].rows THEN [r EXCEPT !.score = s] ELSE r
  <2>1. ratings' = {rescored(r) : r \in ratings}
    BY <1>6 DEF CommitRating
  <2>2. \A r \in ratings : r.id \in doing[w].rows => r.user = u /\ r.movie = m
    BY <1>1 DEF Known, OwnsInv, TaskOwns
  <2>3. CASE \A r \in ratings : r.id \notin doing[w].rows
    <3>1. ratings' = ratings
      BY <2>1, <2>3
    <3> QED BY <1>2, <3>1 DEF AudienceVars, ScoresGiven
  <2>4. ASSUME NEW q \in ratings, q.id \in doing[w].rows PROVE Audience!Next
    <3>1. q.user = u /\ q.movie = m
      BY <2>2, <2>4
    <3>2. \A r \in ratings : r.user = u /\ r.movie = m => r = q
      BY <3>1 DEF Known, ReactionInv, RatingsInv, OnePerUser
    <3>3. m \in films
      BY <3>1 DEF Known, ReactionInv, RatingsInv, OnFilms
    <3>4. /\ rescored(q).user = u /\ rescored(q).movie = m /\ rescored(q).score = s
          /\ \A r \in ratings : ~(r.user = u /\ r.movie = m) => rescored(r) = r
      BY <2>2, <2>4, <3>1, RowsTyped
    <3> HIDE DEF rescored, u, m, s
    <3>5. ratings' = {r \in ratings : ~(r.user = u /\ r.movie = m)} \cup {rescored(q)}
      BY <2>1, <3>1, <3>2, <3>4
    <3>6. ScoresGiven' = {[user |-> r.user, movie |-> r.movie, score |-> r.score] :
                            r \in {x \in ratings : ~(x.user = u /\ x.movie = m)}}
                         \cup {[user |-> u, movie |-> m, score |-> s]}
      BY <3>4, <3>5 DEF ScoresGiven
    <3> QED BY <1>3, <3>3, <3>6, ScoresWithout DEF ScoresGiven
  <2> QED BY <2>3, <2>4
<1> QED BY <1>4, <1>5, <1>6

-----------------------------------------------------------------------------
\* The id that a commit inserts is fresh, and there is one.
LEMMA NextIdFresh ==
  ASSUME Known, TypeOK', inserted' = inserted + 1
  PROVE  inserted + 1 \in Id /\ Audience!Fresh(inserted + 1)
<1>1. inserted \in Nat /\ inserted + 1 \in 0..MaxRows
  BY DEF Known, ReactionInv, TypeOK, ReactionTypeOK
<1>2. inserted + 1 \in Id
  BY <1>1, ReactionConstantsOk DEF Id
<1>3. \A c \in comments : c.id \in 1..inserted
  BY DEF Known, ReactionInv, CommentsInv, RowsOK
<1>4. \A n \in notices : n.reply \in 1..inserted
  BY DEF Known, ReactionInv, CommentsInv
<1> QED BY <1>1, <1>2, <1>3, <1>4 DEF Audience!Fresh

LEMMA CommentClicks ==
  ASSUME Known, TypeOK', NEW w \in Workers, CommitComment(w)
  PROVE  Audience!Next \/ UNCHANGED AudienceVars
<1> USE DEF othersUnchanged
<1>1. doing[w].user \in Users /\ doing[w].movie \in Movies
  BY TaskTyped DEF CommitComment, Doing, Known
<1>2. UNCHANGED <<films, favorites, OpinionsHeld, ScoresGiven, notices>>
  BY DEF CommitComment, OpinionsHeld, ScoresGiven
<1>3. CASE doing[w].movie \in films
  <2>1. inserted + 1 \in Id /\ Audience!Fresh(inserted + 1)
    BY <1>3, NextIdFresh DEF CommitComment
  <2>2. Audience!Say(doing[w].user, doing[w].movie, inserted + 1)
    BY <1>2, <1>3, <2>1 DEF CommitComment, Audience!Say
  <2> QED BY <1>1, <2>1, <2>2 DEF Audience!Next
<1>4. CASE doing[w].movie \notin films
  BY <1>2, <1>4 DEF CommitComment, AudienceVars
<1> QED BY <1>3, <1>4

LEMMA ReplyClicks ==
  ASSUME Known, TypeOK', NEW w \in Workers, CommitReply(w)
  PROVE  Audience!Next \/ UNCHANGED AudienceVars
<1> USE DEF othersUnchanged
<1>1. doing[w].user \in Users /\ doing[w].op = "add_reply" /\ doing[w].pc = "commit"
  BY TaskTyped DEF CommitReply, Doing, Known
<1>2. UNCHANGED <<films, favorites, OpinionsHeld, ScoresGiven>>
  BY DEF CommitReply, OpinionsHeld, ScoresGiven
<1>3. CASE Parent(w) = {}
  BY <1>2, <1>3 DEF CommitReply, AudienceVars
<1>4. CASE Parent(w) # {}
  <2>1. PICK c \in comments : c.id = doing[w].comment
    BY <1>4 DEF Parent
  <2>2. Parent(w) = {c}
    BY <2>1 DEF Parent, Known, ReactionInv, CommentsInv, RowsOK
  <2>3. c.movie = doing[w].movie
    BY <1>1, <2>1, TaskTyped DEF TaskOK, Known
  <2>4. inserted + 1 \in Id /\ Audience!Fresh(inserted + 1)
    BY <1>4, NextIdFresh DEF CommitReply
  <2>5. comments' = comments \cup {[ id |-> inserted + 1, user |-> doing[w].user,
                                     movie |-> c.movie, parent |-> c.id ]}
    BY <1>4, <2>1, <2>3 DEF CommitReply
  <2>6. notices' = IF c.user = doing[w].user THEN notices
                   ELSE notices \cup {[to |-> c.user, reply |-> inserted + 1]}
    <3>1. {x \in Parent(w) : x.user # doing[w].user} =
            IF c.user = doing[w].user THEN {} ELSE {c}
      BY <2>2
    <3> QED BY <1>4, <3>1 DEF CommitReply
  <2>7. Audience!Answer(doing[w].user, c, inserted + 1)
    BY <1>2, <2>4, <2>5, <2>6 DEF Audience!Answer
  <2> QED BY <1>1, <2>1, <2>4, <2>7 DEF Audience!Next
<1> QED BY <1>3, <1>4

\* What is in a thread is its comment, or a reply to a member: without it, the others
\* would be such a set, too.
LEMMA ThreadGrounded ==
  ASSUME NEW id \in Ids(comments), NEW p \in comments, p.id \in Thread(id), p.id # id,
         \A c \in comments : c.id = p.id => c = p
  PROVE  \E q \in comments : q.id \in Thread(id) /\ p.parent = q.id
<1> SUFFICES ASSUME \A q \in comments : q.id \in Thread(id) => p.parent # q.id PROVE FALSE
  OBVIOUS
<1> DEFINE S == Thread(id) \ {p.id}
<1>1. id \in Thread(id) /\ Thread(id) \subseteq Ids(comments)
  BY DEF Thread
<1>2. ASSUME NEW x \in comments, x.parent \in S PROVE x.id \in S
  <2>1. PICK q \in comments : q.id = x.parent
    BY <1>1, <1>2 DEF Ids
  <2>2. x.id \in Thread(id)
    BY <1>2, <2>1, ThreadClosed
  <2>3. x.id # p.id
    BY <1>2, <2>1
  <2> QED BY <2>2, <2>3
<1>3. S \in SUBSET (Ids(comments) \cup {id}) /\ id \in S
  BY <1>1
<1>4. p.id \in S
  <2> HIDE DEF S
  <2> QED BY <1>2, <1>3 DEF Thread
<1> QED BY <1>4

\* When the comment is gone, so are its replies.
LEMMA ThreadGone ==
  ASSUME NoOrphanReply, NEW id, id # 0, id \notin Ids(comments)
  PROVE  Thread(id) = {}
<1>1. \A c \in comments : c.parent # id
  BY DEF NoOrphanReply, Ids
<1>2. \A x \in Thread(id) : x \in {id} /\ x \in Ids(comments)
  BY <1>1 DEF Thread
<1> QED BY <1>2

LEMMA DeletionClicks ==
  ASSUME Known, NEW w \in Workers, CommitDeleteComment(w)
  PROVE  Audience!Next \/ UNCHANGED AudienceVars
<1> USE DEF othersUnchanged
<1> DEFINE u == doing[w].user
           id == doing[w].comment
<1>1. /\ u \in Users /\ id # 0
      /\ \A c \in comments : c.id = id => c.user = u \/ u \in Moderators
  BY TaskTyped DEF CommitDeleteComment, Doing, Known, OwnsInv, TaskOwns
<1>2. UNCHANGED <<films, favorites, OpinionsHeld, ScoresGiven, notices>>
  BY DEF CommitDeleteComment, OpinionsHeld, ScoresGiven
<1>3. comments' = {c \in comments : c.id \notin Thread(id)}
  BY DEF CommitDeleteComment
<1> HIDE DEF u, id
<1>4. CASE id \notin Ids(comments)
  <2>1. Thread(id) = {}
    BY <1>1, <1>4, ThreadGone DEF Known, ReactionInv, CommentsInv
  <2> QED BY <1>2, <1>3, <2>1 DEF AudienceVars
<1>5. CASE id \in Ids(comments)
  <2>1. PICK c \in comments : c.id = id
    BY <1>5 DEF Ids
  <2>2. \A p, q \in comments : p.id = q.id => p = q
    BY DEF Known, ReactionInv, CommentsInv, RowsOK
  <2>3. id \in Thread(id)
    BY <1>5 DEF Thread
  <2>4. ASSUME NEW p \in comments
        PROVE  p \notin comments' <=> p = c \/ \E q \in comments \ comments' : p.parent = q.id
    <3>1. p \notin comments' => p = c \/ \E q \in comments \ comments' : p.parent = q.id
      BY <1>3, <1>5, <2>1, <2>2, ThreadGrounded
    <3>2. p = c => p \notin comments'
      BY <1>3, <2>1, <2>3
    <3>3. (\E q \in comments \ comments' : p.parent = q.id) => p \notin comments'
      BY <1>3, ThreadClosed
    <3> QED BY <3>1, <3>2, <3>3
  <2>5. Audience!Retract(u, c)
    BY <1>1, <1>2, <1>3, <2>1, <2>4 DEF Audience!Retract
  <2> QED BY <1>1, <2>5 DEF Audience!Next
<1> QED BY <1>4, <1>5

\* A movie that was deleted before takes nothing with it any more.
LEMMA MovieClicks ==
  ASSUME Known, NEW w \in Workers, CommitDeleteMovie(w)
  PROVE  Audience!Next \/ UNCHANGED AudienceVars
<1> DEFINE m == doing[w].movie
<1>1. m \in Movies /\ UNCHANGED <<favorites, notices>>
  BY TaskTyped DEF CommitDeleteMovie, Doing, Known
<1>2. CASE UNCHANGED <<films, likes, ratings, comments>>
  BY <1>1, <1>2 DEF AudienceVars, OpinionsHeld, ScoresGiven
<1>3. CASE ~UNCHANGED <<films, likes, ratings, comments>>
  <2>1. /\ \A f \in favorites : f.movie # m
        /\ films' = films \ {m} /\ likes' = Off(m, likes) /\ ratings' = Off(m, ratings)
        /\ comments' = Off(m, comments)
    BY <1>3 DEF CommitDeleteMovie
  <2> HIDE DEF m
  <2>2. m \in films
    BY <1>3, <2>1 DEF Off, Known, ReactionInv, LikesInv, RatingsInv, CommentsInv, OnFilms
  <2>3. /\ OpinionsHeld' = {o \in OpinionsHeld : o.movie # m}
        /\ ScoresGiven' = {s \in ScoresGiven : s.movie # m}
    BY <2>1 DEF OpinionsHeld, ScoresGiven, Off
  <2>4. Audience!Remove(m)
    BY <1>1, <2>1, <2>2, <2>3 DEF Audience!Remove, Off
  <2> QED BY <1>1, <2>4 DEF Audience!Next
<1> QED BY <1>2, <1>3

-----------------------------------------------------------------------------
LEMMA InitAudience == ReactionInit => Audience!Init
BY DEF ReactionInit, Audience!Init, OpinionsHeld, ScoresGiven

LEMMA StepAudience ==
  Known /\ TypeOK' /\ [Next]_reactionVars => [Audience!Next]_AudienceVars
<1> SUFFICES ASSUME Known, TypeOK', [Next]_reactionVars
             PROVE  Audience!Next \/ UNCHANGED AudienceVars
  OBVIOUS
<1>1. ASSUME NEW w \in Workers, ReactionArrives(w) \/ ReactionStep(w)
      PROVE  Audience!Next \/ UNCHANGED AudienceVars
  BY <1>1, ArrivalsClick, ReadingsStutter, FavoriteClicks, ReactionClicks, RatingClicks,
     CommentClicks, ReplyClicks, DeletionClicks, MovieClicks
  DEF ReactionStep
<1>2. CASE UNCHANGED reactionVars
  BY <1>2 DEF reactionVars, AudienceVars, OpinionsHeld, ScoresGiven
<1> QED BY <1>1, <1>2 DEF Next

\* However requests overlap, what users see of favorites, reactions, ratings and comments
\* changes as Opinions says: by one click at a time, as a whole, of the user whose it is
\* (movies.py:538-730, 780-935, 948-1030).
THEOREM ClicksAreWhole == Spec => ImplementsOpinions
<1>1. Spec => []TypedInv
  BY InitTyped, StepTyped, ReactionInvariant, PTL DEF Spec
<1>2. Spec => []OwnsInv
  BY InitOwns, StepOwns, ReactionInvariant, PTL DEF Spec
<1>3. ReactionInv /\ TypedInv /\ OwnsInv => Known
  BY DEF Known
<1>4. Spec => Audience!Init /\ [][Audience!Next]_AudienceVars
  BY <1>1, <1>2, <1>3, ReactionsTyped, ReactionInvariant, InitAudience, StepAudience, PTL DEF Spec
<1> QED BY <1>4, PTL DEF ImplementsOpinions, Audience!Spec, AudienceVars
=============================================================================
