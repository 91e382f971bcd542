------------------------------- MODULE Opinions -------------------------------
(***************************************************************************)
(* What the site promises about the things users attach to movies, without *)
(* requests, row ids of likes and ratings, or interleavings: every click   *)
(* takes effect at once, on the user and the movie that it is about and on *)
(* nothing else.  A reaction or a rating that is changed is never missing  *)
(* in between; a reply and its notification come together; whoever deletes *)
(* a comment wrote it or is a moderator, and takes its thread away and not *)
(* one comment more; a movie goes with all that hangs on it.               *)
(***************************************************************************)
CONSTANTS Users, Movies, Moderators, Scores,
  Id  \* the names that comments are told apart by

VARIABLES
  shown,      \* SUBSET Movies: the movies there are
  favorites,  \* SUBSET [user : Users, movie : Movies]
  opinions,   \* SUBSET [user : Users, movie : Movies, isLike : BOOLEAN]
  scores,     \* SUBSET [user : Users, movie : Movies, score : Scores]
  posts,      \* SUBSET [id : Id, user : Users, movie : Movies, parent : Id \cup {0}]
  told        \* SUBSET [to : Users, reply : Id]: who heard of which reply

Init ==
  /\ shown = Movies
  /\ favorites = {} /\ opinions = {} /\ scores = {} /\ posts = {} /\ told = {}

Others(u, m, table) == {r \in table : ~(r.user = u /\ r.movie = m)}

-----------------------------------------------------------------------------
(* A user and a movie *)

Favor(u, m) ==
  /\ m \in shown
  /\ favorites' = favorites \cup {[user |-> u, movie |-> m]}
  /\ UNCHANGED <<shown, opinions, scores, posts, told>>

Unfavor(u, m) ==
  /\ favorites' = Others(u, m, favorites)
  /\ UNCHANGED <<shown, opinions, scores, posts, told>>

React(u, m, isLike) ==
  /\ m \in shown
  /\ opinions' = Others(u, m, opinions) \cup {[user |-> u, movie |-> m, isLike |-> isLike]}
  /\ UNCHANGED <<shown, favorites, scores, posts, told>>

Withdraw(u, m) ==
  /\ opinions' = Others(u, m, opinions)
  /\ UNCHANGED <<shown, favorites, scores, posts, told>>

Rate(u, m, s) ==
  /\ m \in shown
  /\ scores' = Others(u, m, scores) \cup {[user |-> u, movie |-> m, score |-> s]}
  /\ UNCHANGED <<shown, favorites, opinions, posts, told>>

Unrate(u, m) ==
  /\ scores' = Others(u, m, scores)
  /\ UNCHANGED <<shown, favorites, opinions, posts, told>>

-----------------------------------------------------------------------------
(* Discussions *)

Fresh(i) == (\A p \in posts : p.id # i) /\ (\A n \in told : n.reply # i)

Say(u, m, i) ==
  /\ m \in shown
  /\ Fresh(i)
  /\ posts' = posts \cup {[id |-> i, user |-> u, movie |-> m, parent |-> 0]}
  /\ UNCHANGED <<shown, favorites, opinions, scores, told>>

\* The author of the comment hears of it, unless it replies to itself.
Answer(u, c, i) ==
  /\ Fresh(i)
  /\ posts' = posts \cup {[id |-> i, user |-> u, movie |-> c.movie, parent |-> c.id]}
  /\ told' = IF c.user = u THEN told ELSE told \cup {[to |-> c.user, reply |-> i]}
  /\ UNCHANGED <<shown, favorites, opinions, scores>>

\* Gone are the comment and the replies to what is gone, and nothing else.
Retract(u, c) ==
  /\ u = c.user \/ u \in Moderators
  /\ posts' \subseteq posts
  /\ \A p \in posts :
       p \notin posts' <=> p = c \/ \E q \in posts \ posts' : p.parent = q.id
  /\ UNCHANGED <<shown, favorites, opinions, scores, told>>

-----------------------------------------------------------------------------
\* A movie that nobody has among the favorites, with all that hangs on it.
Remove(m) ==
  /\ m \in shown
  /\ \A f \in favorites : f.movie # m
  /\ shown' = shown \ {m}
  /\ opinions' = {o \in opinions : o.movie # m}
  /\ scores' = {s \in scores : s.movie # m}
  /\ posts' = {p \in posts : p.movie # m}
  /\ UNCHANGED <<favorites, told>>

Next ==
  \/ \E u \in Users, m \in Movies :
       \/ Favor(u, m) \/ Unfavor(u, m)
       \/ \E isLike \in BOOLEAN : React(u, m, isLike)
       \/ Withdraw(u, m)
       \/ \E s \in Scores : Rate(u, m, s)
       \/ Unrate(u, m)
       \/ \E i \in Id : Say(u, m, i)
  \/ \E u \in Users, c \in posts : Retract(u, c) \/ \E i \in Id : Answer(u, c, i)
  \/ \E m \in Movies : Remove(m)

Spec == Init /\ [][Next]_<<shown, favorites, opinions, scores, posts, told>>
=============================================================================
