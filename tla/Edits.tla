--------------------------------- MODULE Edits ---------------------------------
(***************************************************************************)
(* Content with a history variable: which updates of a movie overlap       *)
(* another request that changes the same movie.  It is read by a property  *)
(* and by no action.                                                       *)
(***************************************************************************)
EXTENDS Content

VARIABLE disturbed  \* the updates during which another request saved their movie

EditInit == Init /\ disturbed = {}

EditNext ==
  /\ Next
  /\ disturbed' =
       {w \in Workers :
          /\ job'[w].op = "update_movie"
          /\ \/ w \in disturbed
             \/ \E v \in Workers : Commit(v) /\ job[v].movie = job'[w].movie}

EditSpec == EditInit /\ [][EditNext]_<<vars, disturbed>>

-----------------------------------------------------------------------------
\* An update that no other change of its movie overlaps replaces what the movie has of
\* the kinds that it mentions by what it lists, and nothing else: the DELETE of each
\* kind finds all of its links (services/movies_service.py:95-115; routes/movies.py:433-435).
LoneEditReplaces ==
  [][\A w \in Workers, m \in MovieId :
        Saves(w, m) /\ w \notin disturbed => Tagged(m)' = Edited(w, m)]_<<vars, disturbed>>
=============================================================================
