-------------------------------- MODULE Library --------------------------------
(***************************************************************************)
(* What moderators do to the catalogue: create_movie, update_movie and     *)
(* delete_movie (routes/movies.py, services/movies_service.py) on the      *)
(* tables movies, genres, directors and stars and the association tables.  *)
(*                                                                         *)
(* These requests write in the middle of their transactions (flush, and    *)
(* DELETE and INSERT statements of their own), so here the locks that      *)
(* PostgreSQL holds from a write to the end of its transaction are part of *)
(* the state: a statement that needs one waits, and a wait that can never  *)
(* end is broken by the deadlock detector.                                 *)
(*                                                                         *)
(* A tag is a genre, a director or a star, by its unique name.  A title is *)
(* the name, year and time of a movie.  Left out: the other columns, and   *)
(* what Catalog.tla and Comments.tla model of a deletion.                  *)
(***************************************************************************)
EXTENDS Desk

CONSTANTS
  Titles,     \* values of the unique (name, year, time)
  Tags,       \* genres, directors and stars that may come to exist
  KindOf,     \* which of the three a tag is
  Asks,       \* the ids and names that requests list
  MaxMovies,  \* bound on the movies ever inserted
  None        \* no title

Kinds == 1..3  \* genre, director, star: the order of prepare_related
Ask == [ids : SUBSET Tags, names : SUBSET Tags, kinds : SUBSET Kinds]

ASSUME LibraryConstantsOk ==
  /\ KindOf \in [Tags -> Kinds]
  /\ Asks \subseteq {a \in Ask : \A t \in a.ids \cup a.names : KindOf[t] \in a.kinds}
  /\ MaxMovies \in Nat
  /\ None \notin Titles

MovieId == 1..MaxMovies
Link == [movie : MovieId, tag : Tags]
NoAsk == [ids |-> {}, names |-> {}, kinds |-> {}]

VARIABLES
  title,   \* table movies: the title of each movie, None when there is no row
  tags,    \* tables genres, directors and stars
  links,   \* tables movie_genres, movie_directors and movie_stars
  lastId   \* the sequence of movies.id

libraryVars == <<title, tags, links, lastId>>

\* new, fields: the title, or other columns, that the request sets; prepare, sync:
\* the kinds that prepare_related and sync_associations still have to do; missing:
\* names to insert; rows: links that a statement saw and has to delete.  The rest
\* is what the transaction has written: titles in the unique index (claims), tags
\* (made), links (dropped, added) and the locks on the row of the movie.
LibraryJob ==
  [ op : {"create_movie", "update_movie", "delete_movie"},
    pc : {"insert_movie", "ids", "names", "insert_names", "update_row", "update_title",
          "find_links", "unlink", "link", "share", "drop", "commit"},
    movie : MovieId \cup {0}, new : Titles \cup {None}, fields : BOOLEAN, ask : Ask,
    prepare : SUBSET Kinds, sync : SUBSET Kinds, missing : SUBSET Tags, rows : SUBSET Link,
    claims : SUBSET Titles, made : SUBSET Tags, dropped : SUBSET Link, added : SUBSET Link,
    locks : SUBSET {"share", "row", "key"} ]

LibraryTypeOK ==
  /\ title \in [MovieId -> Titles \cup {None}]
  /\ tags \subseteq Tags
  /\ links \subseteq Link
  /\ lastId \in 0..MaxMovies

LibraryInit ==
  /\ title = [m \in MovieId |-> None]
  /\ tags = {}
  /\ links = {}
  /\ lastId = 0

-----------------------------------------------------------------------------
(* Locks.  A resource is a pair of a class and an object. *)

InLibrary(v) == job[v].op \in {"create_movie", "update_movie", "delete_movie"}

\* What the transaction of a request has locked.  An uncommitted row of a unique
\* index counts: another insert of the same value waits for the transaction.
Held(v) ==
  IF ~InLibrary(v) THEN {}
  ELSE {<<"title", t>> : t \in job[v].claims}
         \cup {<<"tag", t>> : t \in job[v].made}
         \cup {<<"link", l>> : l \in job[v].dropped \cup job[v].added}
         \cup {<<lock, job[v].movie>> : lock \in job[v].locks}

\* The resources that a request for x waits for.  A foreign key takes a share lock
\* on the movie, an UPDATE a row lock; a DELETE, and an UPDATE of the unique
\* columns, take a key lock, the only one that share locks conflict with.
Against(x) ==
  CASE x[1] = "share" -> {<<"key", x[2]>>}
    [] x[1] = "row" -> {<<"row", x[2]>>, <<"key", x[2]>>}
    [] x[1] = "key" -> {<<"share", x[2]>>, <<"row", x[2]>>, <<"key", x[2]>>}
    [] OTHER -> {x}

Holders(w, x) == {v \in Workers \ {w} : Held(v) \cap Against(x) # {}}
Free(w, x) == Holders(w, x) = {}

LinkTo(w, t) == [movie |-> job[w].movie, tag |-> t]

\* Mutant of KindLinks: the DELETE forgets which association table it is for.
MovieLinks(w, k) == {l \in links : l.movie = job[w].movie}

KindLinks(w, k) == {l \in links : l.movie = job[w].movie /\ KindOf[l.tag] = k}

First(kinds) == CHOOSE k \in kinds : \A x \in kinds : k <= x
Listed(w, k) == {t \in job[w].ask.ids \cup job[w].ask.names : KindOf[t] = k}
ToLink(w) == {t \in Listed(w, First(job[w].sync)) : LinkTo(w, t) \notin job[w].added}

\* The UPDATE of w changes the title that the movie has by now.
Retitles(w) == job[w].new \notin {None, title[job[w].movie]}

\* What the next statement of w locks: one of these, in an order that the request
\* or the plan of the query decides.
Needs(w) ==
  CASE ~InLibrary(w) -> {}
    [] job[w].pc \in {"insert_movie", "update_title"} -> {<<"title", job[w].new>>}
    [] job[w].pc = "insert_names" -> {<<"tag", t>> : t \in job[w].missing}
    [] job[w].pc = "update_row" ->
         {<<IF Retitles(w) THEN "key" ELSE "row", job[w].movie>>}
    [] job[w].pc = "unlink" -> {<<"link", l>> : l \in job[w].rows}
    [] job[w].pc = "link" -> {<<"link", LinkTo(w, t)>> : t \in ToLink(w)}
    [] job[w].pc = "share" -> {<<"share", job[w].movie>>}
    [] job[w].pc = "drop" -> {<<"key", job[w].movie>>}
    [] OTHER -> {}

Blocked(w) == Needs(w) # {} /\ \A x \in Needs(w) : ~Free(w, x)

\* w waits for requests that wait, and so on, for each other.
Deadlocked(w) ==
  \E S \in SUBSET Workers :
    /\ w \in S
    /\ \A v \in S : Blocked(v) /\ \A x \in Needs(v) : Holders(v, x) \cap S # {}

-----------------------------------------------------------------------------
Doing(w, label) == InLibrary(w) /\ job[w].pc = label

\* The request that runs the first statement of what is left: the UPDATE of the row,
\* which the first SELECT flushes, or else the commit; the kinds to prepare; the
\* kinds to sync.
Onward(j) ==
  LET flushes == /\ j.op = "update_movie" /\ (j.fields \/ j.new # None)
                 /\ j.locks \cap {"row", "key"} = {}
                 /\ j.prepare # {} \/ j.sync = {}
      listed == {t \in j.ask.ids : KindOf[t] = First(j.prepare)}
  IN  [j EXCEPT !.pc = CASE flushes -> "update_row"
                         [] ~flushes /\ j.prepare # {} -> IF listed # {} THEN "ids" ELSE "names"
                         [] ~flushes /\ j.prepare = {} /\ j.sync # {} -> "find_links"
                         [] OTHER -> "commit"]

Continue(w, j) == job' = [job EXCEPT ![w] = Onward(j)]

NewJob(op, m, t, fields, a) ==
  [ op |-> op, pc |-> "commit", movie |-> m, new |-> t, fields |-> fields, ask |-> a,
    prepare |-> {KindOf[x] : x \in a.ids \cup a.names}, sync |-> a.kinds,
    missing |-> {}, rows |-> {}, claims |-> {}, made |-> {}, dropped |-> {}, added |-> {},
    locks |-> {} ]

-----------------------------------------------------------------------------
(* create_movie and update_movie: the row of the movie *)

RoomForMovie ==
  lastId + Cardinality({w \in Workers : job[w].op = "create_movie"}) < MaxMovies

\* 400 unless the certification exists.
CreateMovie(w, t, a) ==
  /\ RoomForMovie
  /\ job[w] = Idle
  /\ job' = [job EXCEPT ![w] = [NewJob("create_movie", 0, t, TRUE, a) EXCEPT
                                  !.pc = "insert_movie"]]
  /\ UNCHANGED libraryVars

Taken(t) == \E m \in MovieId : title[m] = t

\* Mutant of InsertMovie: the movie is added and not flushed, so it has no id yet.
InsertMovieUnflushed(w) ==
  /\ Doing(w, "insert_movie")
  /\ Free(w, <<"title", job[w].new>>)
  /\ ~Taken(job[w].new)
  /\ Continue(w, [job[w] EXCEPT !.claims = {job[w].new}, !.sync = {}])
  /\ UNCHANGED libraryVars

\* flush of the new movie; uq_movie_name_year_time fails it.  The links of a new
\* movie conflict with nothing and are added with the commit.
InsertMovie(w) ==
  /\ Doing(w, "insert_movie")
  /\ Free(w, <<"title", job[w].new>>)
  /\ IF Taken(job[w].new)
     THEN End(w) /\ UNCHANGED libraryVars
     ELSE /\ lastId' = lastId + 1
          /\ Continue(w, [job[w] EXCEPT !.movie = lastId + 1, !.claims = {job[w].new},
                                        !.locks = {"key"}, !.sync = {}])
          /\ UNCHANGED <<title, tags, links>>

\* The movie is loaded, 404 when there is none.  A title that it has already is no
\* change; t is None when the request names no other one.
UpdateMovie(w, m, t, fields, a) ==
  /\ title[m] # None /\ t # title[m]
  /\ job[w] = Idle
  /\ job' = [job EXCEPT ![w] = Onward(NewJob("update_movie", m, t, fields, a))]
  /\ UNCHANGED libraryVars

\* UPDATE movies: a movie that is gone is a StaleDataError.
UpdateRow(w) ==
  /\ Doing(w, "update_row")
  /\ \A x \in Needs(w) : Free(w, x)
  /\ IF title[job[w].movie] = None
     THEN End(w)
     ELSE IF Retitles(w)
     THEN job' = [job EXCEPT ![w].locks = @ \cup {"key"}, ![w].pc = "update_title",
                             ![w].claims = {title[job[w].movie]}]
     ELSE Continue(w, [job[w] EXCEPT !.locks = @ \cup {"row"}])
  /\ UNCHANGED libraryVars

\* Mutant of UpdateTitle: the title is checked and not claimed in the unique index.
UpdateTitleUnclaimed(w) ==
  /\ Doing(w, "update_title")
  /\ IF Taken(job[w].new) THEN End(w) ELSE Continue(w, job[w])
  /\ UNCHANGED libraryVars

UpdateTitle(w) ==
  /\ Doing(w, "update_title")
  /\ Free(w, <<"title", job[w].new>>)
  /\ IF Taken(job[w].new)
     THEN End(w)
     ELSE Continue(w, [job[w] EXCEPT !.claims = @ \cup {job[w].new}])
  /\ UNCHANGED libraryVars

-----------------------------------------------------------------------------
(* prepare_related *)

\* After the ids of a kind come its names, if the request lists any.
NamesNext(w) ==
  IF \E t \in job[w].ask.names : KindOf[t] = First(job[w].prepare)
  THEN job' = [job EXCEPT ![w].pc = "names"]
  ELSE Continue(w, [job[w] EXCEPT !.prepare = @ \ {First(@)}])

\* validate_ids: 400 when one of them does not exist.
ValidateIds(w) ==
  /\ Doing(w, "ids")
  /\ IF {t \in job[w].ask.ids : KindOf[t] = First(job[w].prepare)} \subseteq tags
     THEN NamesNext(w)
     ELSE End(w)
  /\ UNCHANGED libraryVars

\* get_or_create_by_names: which names exist ...
FindNames(w) ==
  LET k == First(job[w].prepare)
      absent == {t \in job[w].ask.names : KindOf[t] = k} \ tags
  IN  /\ Doing(w, "names")
      /\ IF absent = {}
         THEN Continue(w, [job[w] EXCEPT !.prepare = @ \ {k}])
         ELSE job' = [job EXCEPT ![w].pc = "insert_names", ![w].missing = absent]
      /\ UNCHANGED libraryVars

\* Mutant of InsertNames: a new name is committed on the spot.
InsertNamesCommitted(w) ==
  /\ Doing(w, "insert_names")
  /\ \E t \in job[w].missing :
       LET j == [job[w] EXCEPT !.missing = @ \ {t}]
       IN  /\ tags' = tags \cup {t}
           /\ IF t \in tags THEN End(w)
              ELSE IF j.missing # {} THEN job' = [job EXCEPT ![w] = j]
              ELSE Continue(w, [j EXCEPT !.prepare = @ \ {First(@)}])
  /\ UNCHANGED <<title, links, lastId>>

\* ... and the INSERT of the others, row by row in the order of the list.  A name
\* that another request has committed since is an IntegrityError: 500.
InsertNames(w) ==
  /\ Doing(w, "insert_names")
  /\ \E t \in job[w].missing :
       LET rest == job[w].missing \ {t}
           j == [job[w] EXCEPT !.made = @ \cup {t}, !.missing = rest]
       IN  /\ Free(w, <<"tag", t>>)
           /\ IF t \in tags THEN End(w)
              ELSE IF rest # {} THEN job' = [job EXCEPT ![w] = j]
              ELSE Continue(w, [j EXCEPT !.prepare = @ \ {First(@)}])
  /\ UNCHANGED libraryVars

-----------------------------------------------------------------------------
(* sync_associations *)

\* The next thing after the DELETE: the INSERTs of the kind, if any.
Unlinked(w, j) ==
  IF ToLink(w) = {} THEN Continue(w, [j EXCEPT !.rows = {}, !.sync = @ \ {First(@)}])
                    ELSE job' = [job EXCEPT ![w] = [j EXCEPT !.rows = {}, !.pc = "link"]]

\* Mutant of FindLinks: the request adds to what the movie has.
FindNoLinks(w) ==
  /\ Doing(w, "find_links") /\ job[w].op = "update_movie"
  /\ Unlinked(w, job[w])
  /\ UNCHANGED libraryVars

\* DELETE of the links of one kind: the statement sees those committed now ...
FindLinks(w) ==
  LET seen == KindLinks(w, First(job[w].sync))
  IN  /\ Doing(w, "find_links") /\ job[w].op = "update_movie"
      /\ IF seen = {} THEN Unlinked(w, job[w])
                      ELSE job' = [job EXCEPT ![w].pc = "unlink", ![w].rows = seen]
      /\ UNCHANGED libraryVars

\* ... and deletes each of them that is still there when it gets its lock.
Unlink(w) ==
  /\ Doing(w, "unlink") /\ job[w].op = "update_movie"
  /\ \/ job[w].rows = {} /\ Unlinked(w, job[w])
     \/ \E l \in job[w].rows :
          LET j == [job[w] EXCEPT !.rows = @ \ {l}, !.dropped = @ \cup {l}]
          IN  /\ Free(w, <<"link", l>>)
              /\ IF j.rows = {} THEN Unlinked(w, j) ELSE job' = [job EXCEPT ![w] = j]
  /\ UNCHANGED libraryVars

\* The INSERT of one link: 500 when another request has committed the same.
AddLink(w) ==
  /\ Doing(w, "link")
  /\ \E t \in ToLink(w) :
       /\ Free(w, <<"link", LinkTo(w, t)>>)
       /\ IF LinkTo(w, t) \in links \ job[w].dropped
          THEN End(w)
          ELSE job' = [job EXCEPT ![w].added = @ \cup {LinkTo(w, t)}, ![w].pc = "share"]
  /\ UNCHANGED libraryVars

\* Mutant of ShareMovie: the association table has no foreign key to movies.
ShareNothing(w) ==
  /\ Doing(w, "share")
  /\ IF ToLink(w) # {} THEN job' = [job EXCEPT ![w].pc = "link"]
     ELSE Continue(w, [job[w] EXCEPT !.sync = @ \ {First(@)}])
  /\ UNCHANGED libraryVars

\* Its foreign key: 500 when the movie is gone.
ShareMovie(w) ==
  LET j == [job[w] EXCEPT !.locks = @ \cup {"share"}]
  IN  /\ Doing(w, "share")
      /\ Free(w, <<"share", job[w].movie>>)
      /\ IF title[job[w].movie] = None
         THEN End(w)
         ELSE IF ToLink(w) # {} THEN job' = [job EXCEPT ![w] = [j EXCEPT !.pc = "link"]]
         ELSE Continue(w, [j EXCEPT !.sync = @ \ {First(@)}])
      /\ UNCHANGED libraryVars

-----------------------------------------------------------------------------
(* delete_movie *)

DeleteMovie(w, m) ==
  /\ title[m] # None
  /\ job[w] = Idle
  /\ job' = [job EXCEPT ![w] = [NewJob("delete_movie", m, None, FALSE, NoAsk) EXCEPT
                                  !.pc = "find_links"]]
  /\ UNCHANGED libraryVars

\* The flush loads the links of the movie ...
LoadLinks(w) ==
  LET seen == {l \in links : l.movie = job[w].movie}
  IN  /\ Doing(w, "find_links") /\ job[w].op = "delete_movie"
      /\ job' = [job EXCEPT ![w].rows = seen,
                            ![w].pc = IF seen = {} THEN "drop" ELSE "unlink"]
      /\ UNCHANGED libraryVars

\* ... deletes them by primary key: when one is gone SQLAlchemy raises a
\* StaleDataError if the driver counts the rows, or goes on ...
DropLinks(w) ==
  /\ Doing(w, "unlink") /\ job[w].op = "delete_movie"
  /\ \E l \in job[w].rows :
       /\ Free(w, <<"link", l>>)
       /\ \/ job' = [job EXCEPT ![w].rows = @ \ {l}, ![w].dropped = @ \cup ({l} \cap links),
                                ![w].pc = IF job[w].rows = {l} THEN "drop" ELSE "unlink"]
          \/ l \notin links /\ End(w)
  /\ UNCHANGED libraryVars

\* ... and then the movie.  A link that was committed since is still there and
\* refers to it: IntegrityError, 500.
DropMovie(w) ==
  LET m == job[w].movie
  IN  /\ Doing(w, "drop")
      /\ Free(w, <<"key", m>>)
      /\ IF \E l \in links \ job[w].dropped : l.movie = m
         THEN End(w)
         ELSE job' = [job EXCEPT ![w].locks = {"key"}, ![w].pc = "commit",
                                 ![w].claims = {title[m]} \ {None}]
      /\ UNCHANGED libraryVars

-----------------------------------------------------------------------------
(* How a transaction ends *)

AllLinks(w) == {LinkTo(w, t) : t \in job[w].ask.ids \cup job[w].ask.names}

\* The request of v when the links of gone have been deleted: a DELETE that waits for
\* one passes over it, also if the same link was inserted again.
Without(v, gone) ==
  IF job[v].op = "update_movie" THEN [job[v] EXCEPT !.rows = @ \ gone] ELSE job[v]

Commit(w) ==
  LET j == job[w]
  IN  /\ Doing(w, "commit")
      /\ title' = IF j.op = "delete_movie" THEN [title EXCEPT ![j.movie] = None]
                  ELSE IF j.new # None THEN [title EXCEPT ![j.movie] = j.new]
                  ELSE title
      /\ tags' = tags \cup j.made
      /\ links' = (links \ j.dropped)
                    \cup (IF j.op = "create_movie" THEN AllLinks(w) ELSE j.added)
      /\ job' = [v \in Workers |-> IF v = w THEN Idle ELSE Without(v, j.dropped)]
      /\ UNCHANGED lastId

\* PostgreSQL aborts a transaction of the cycle: 500.
DeadlockDetected(w) ==
  /\ InLibrary(w)
  /\ Deadlocked(w)
  /\ End(w)
  /\ UNCHANGED libraryVars

\* The transaction is rolled back half way: the process dies, the client is gone,
\* or a constraint on what is left out here fails (certification_id, a name that
\* the request lists twice, a favorite of the movie, a movie that was sold).
Abandon(w) ==
  /\ InLibrary(w)
  /\ End(w)
  /\ UNCHANGED libraryVars

LibraryArrives(w) ==
  \/ \E t \in Titles, a \in Asks : CreateMovie(w, t, a)
  \/ \E m \in MovieId, a \in Asks :
       \/ \E t \in Titles : UpdateMovie(w, m, t, TRUE, a)
       \/ \E fields \in BOOLEAN : UpdateMovie(w, m, None, fields, a)
  \/ \E m \in MovieId : DeleteMovie(w, m)

LibraryStep(w) ==
  \/ InsertMovie(w) \/ UpdateRow(w) \/ UpdateTitle(w)
  \/ ValidateIds(w) \/ FindNames(w) \/ InsertNames(w)
  \/ FindLinks(w) \/ Unlink(w) \/ AddLink(w) \/ ShareMovie(w)
  \/ LoadLinks(w) \/ DropLinks(w) \/ DropMovie(w)
  \/ Commit(w) \/ DeadlockDetected(w)
=============================================================================
