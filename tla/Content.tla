-------------------------------- MODULE Content --------------------------------
(***************************************************************************)
(* Moderators editing the catalogue next to users editing their profiles.  *)
(***************************************************************************)
EXTENDS Library, Profiles

vars == <<libraryVars, profileVars, job>>

Init == LibraryInit /\ ProfileInit /\ job = [w \in Workers |-> Idle]

Arrive(w) ==
  \/ LibraryArrives(w) /\ UNCHANGED profileVars
  \/ ProfileArrives(w) /\ UNCHANGED libraryVars

\* The next statement of the request of w, or the end of its wait.
Step(w) ==
  \/ LibraryStep(w) /\ UNCHANGED profileVars
  \/ ProfileStep(w) /\ UNCHANGED libraryVars

Lose(w) ==
  \/ Abandon(w) /\ UNCHANGED profileVars
  \/ LoseRequest(w) /\ UNCHANGED libraryVars

Next == \E w \in Workers : Arrive(w) \/ Step(w) \/ Lose(w)

Spec == Init /\ [][Next]_vars

TypeOK ==
  /\ LibraryTypeOK
  /\ ProfileTypeOK
  /\ job \in [Workers -> LibraryJob \cup ProfileJob \cup {Idle}]
-----------------------------------------------------------------------------
\* No link outlives its movie or comes before its tag, whichever update links a
\* movie while it is being deleted (models/movies.py:17-32, services/movies_service.py:95-115).
NoDanglingLink ==
  \A l \in links : title[l.movie] # None /\ l.tag \in tags

\* Two movies never share name, year and time, although a title is free again the
\* moment that an update or a deletion of its movie commits, and not before
\* (models/movies.py:114).
TitleOnce ==
  \A m, n \in MovieId : title[m] # None /\ title[m] = title[n] => m = n

Tagged(m) == {t \in Tags : [movie |-> m, tag |-> t] \in links}

\* A failed request leaves nothing behind: a tag appears with a movie that has it,
\* and a movie appears with all the links that the request that creates it lists
\* (services/movies_service.py:146-174).
NothingHalfMade ==
  [][/\ \A t \in tags' \ tags : \E l \in links' : l.tag = t
     /\ \A m \in MovieId : title[m] = None /\ title'[m] # None =>
          \E w \in Workers : /\ job[w].op = "create_movie" /\ job[w].movie = m
                            /\ Tagged(m)' = job[w].ask.ids \cup job[w].ask.names]_vars

\* The update of m by the request of w takes effect.
Saves(w, m) == job[w].op = "update_movie" /\ job[w].movie = m /\ Commit(w)

\* What that should leave: the tags that the request lists, and those that the movie
\* has of the kinds that the request does not mention.
Edited(w, m) ==
  job[w].ask.ids \cup job[w].ask.names
    \cup {t \in Tagged(m) : KindOf[t] \notin job[w].ask.kinds}

\* An update is whole and keeps to what it mentions, whatever overlaps it: it leaves the
\* movie with every tag that it lists, and the kinds that it does not mention as they
\* are (services/movies_service.py:95-115, 202-238; routes/movies.py:426).
EditIsWhole ==
  [][\A w \in Workers, m \in MovieId : Saves(w, m) =>
        /\ Edited(w, m) \subseteq Tagged(m)'
        /\ \A t \in Tagged(m)' \ Edited(w, m) : KindOf[t] \in job[w].ask.kinds]_vars

\* An update replaces what the movie has of the kinds that it mentions
\* (routes/movies.py:433-435).
EditReplaces ==
  [][\A w \in Workers, m \in MovieId : Saves(w, m) => Tagged(m)' = Edited(w, m)]_vars

\* The avatar of a profile is a file that its user uploaded and that is in the
\* store, whichever uploads overlap or fail half way (routes/profiles.py:140-144).
AvatarIsStored ==
  \A u \in Users :
    profiles[u].avatar # 0 => [id |-> profiles[u].avatar, owner |-> u] \in bucket

\* An edit of the profile never takes back an avatar that was set since it loaded
\* the profile, nor an upload an edit (routes/profiles.py:91-98, 142-145).
NoLostEdit ==
  [][\A u \in Users : profiles[u] # NoProfile =>
        /\ profiles'[u].avatar = profiles[u].avatar \/ profiles'[u].info = profiles[u].info
        /\ profiles'[u].avatar # profiles[u].avatar =>
             \E w \in Workers : job[w].op = "upload_my_avatar" /\ job[w].file = profiles'[u].avatar]_vars
=============================================================================
