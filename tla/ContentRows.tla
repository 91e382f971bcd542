------------------------------ MODULE ContentRows ------------------------------
(***************************************************************************)
(* What Content promises of the catalogue and of the profiles holds for    *)
(* any titles, tags, users and any number of requests: the locks that a    *)
(* request holds, and the order in which it takes them, are enough.        *)
(***************************************************************************)
EXTENDS Edits, FiniteSetTheorems, TLAPS

-----------------------------------------------------------------------------
(* The inductive invariant: what a request of the catalogue has done *)

Listing(j) == j.ask.ids \cup j.ask.names

\* At every statement of the request.
Body(j) ==
  /\ j \in LibraryJob
  /\ j.op # "delete_movie" => j.ask \in Asks
  /\ j.op = "create_movie" => j.new # None /\ j.rows = {} /\ j.dropped = {} /\ j.added = {}
  /\ j.op = "delete_movie" => /\ j.ask = NoAsk /\ j.new = None /\ j.made = {}
                              /\ j.sync = {} /\ j.prepare = {} /\ j.added = {}
Core(j) == Body(j) /\ j.movie <= lastId

\* The tags that it lists exist, for it at least, when their kind is prepared.
Prepared(j) ==
  /\ \A t \in Listing(j) : KindOf[t] \in j.prepare \/ t \in tags \cup j.made
  /\ j.made \cup j.missing \subseteq j.ask.names

\* It only touches links of its movie and of the kinds that it lists, and adds those
\* of each kind that it has synced.
Linked(j) ==
  /\ \A l \in j.rows \cup j.dropped \cup j.added : l.movie = j.movie
  /\ \A l \in j.added : l.tag \in Listing(j)
  /\ j.op = "update_movie" =>
       /\ j.sync \subseteq j.ask.kinds
       /\ \A l \in j.rows \cup j.dropped : KindOf[l.tag] \in j.ask.kinds
       /\ \A t \in Listing(j) :
            KindOf[t] \in j.sync \/ [movie |-> j.movie, tag |-> t] \in j.added

\* A title that it claims belongs to no movie but its own, whose key it has locked;
\* a movie that it has locked is there.
Claimed(j) ==
  /\ j.claims # {} => "key" \in j.locks
  /\ \A t \in j.claims, m \in MovieId : title[m] = t => m = j.movie
  /\ j.op = "update_movie" /\ j.locks # {} => title[j.movie] # None

\* Between two statements of create_movie and update_movie.
Settled(j) ==
  /\ j.op # "delete_movie"
  /\ j.movie # 0
  /\ j.op = "create_movie" =>
       j.sync = {} /\ j.locks = {"key"} /\ j.new \in j.claims /\ title[j.movie] = None
  /\ j.added # {} => "share" \in j.locks
  /\ j.new # None /\ j.locks \cap {"row", "key"} # {} =>
       j.new \in j.claims \/ title[j.movie] = j.new

\* Where it is.
Placed(j) ==
  /\ j.pc = "insert_movie" => j.op = "create_movie" /\ j.movie = 0 /\ j.locks = {}
  /\ j.pc = "update_title" => /\ j.op = "update_movie" /\ j.new # None /\ "key" \in j.locks
                              /\ Settled([j EXCEPT !.claims = @ \cup {j.new}])
  /\ j.pc = "share" => Settled([j EXCEPT !.locks = @ \cup {"share"}])
  /\ j.pc \in {"names", "insert_names"} =>
       \A t \in j.ask.ids : KindOf[t] = First(j.prepare) => t \in tags
  /\ j.pc = "insert_names" =>
       \A t \in j.ask.names : KindOf[t] = First(j.prepare) => t \in tags \cup j.made \cup j.missing
  /\ j.op = "delete_movie" => j.movie # 0 /\ j.pc \in {"find_links", "unlink", "drop", "commit"}
  /\ j.op # "delete_movie" /\ j.pc \notin {"insert_movie", "update_title", "share"} => Settled(j)
  /\ j.pc \in {"find_links", "unlink", "link", "share", "commit"} => j.prepare = {}
  /\ j.pc \in {"find_links", "unlink", "link", "share", "drop", "update_row"} =>
       j.op # "create_movie"
  /\ j.pc \in {"link", "share", "update_row"} => j.op = "update_movie"
  /\ j.pc = "find_links" /\ j.op = "update_movie" => j.sync # {}
  /\ j.pc = "drop" => j.op = "delete_movie"

\* What it has when it commits.
Complete(j) ==
  j.pc = "commit" =>
    /\ j.sync = {}
    /\ j.op = "update_movie" /\ j.new # None => j.locks \cap {"row", "key"} # {}
    /\ j.op = "delete_movie" =>
         "key" \in j.locks /\ \A l \in links : l.movie = j.movie => l \in j.dropped

Fits(j) ==
  /\ Core(j)
  /\ Prepared(j)
  /\ Linked(j)
  /\ Claimed(j)
  /\ Placed(j)
  /\ Complete(j)

\* Two requests that run side by side.
Apart(i, j) ==
  /\ i.movie = j.movie /\ "key" \in i.locks => j.locks = {}
  /\ i.claims \cap j.claims = {}

Jobs == LibraryJob \cup ProfileJob \cup {Idle}
Inserting == {w \in Workers : InLibrary(w) /\ job[w].pc = "insert_movie"}

LibraryInv ==
  /\ LibraryTypeOK
  /\ job \in [Workers -> Jobs]
  /\ \A w \in Workers : InLibrary(w) => Fits(job[w])
  /\ \A v, w \in Workers : v # w /\ InLibrary(v) /\ InLibrary(w) => Apart(job[v], job[w])
  /\ NoDanglingLink
  /\ TitleOnce
  /\ \A m \in MovieId : title[m] # None => m <= lastId
  /\ lastId + Cardinality(Inserting) <= MaxMovies

-----------------------------------------------------------------------------
(* Lemmas about the operators of Library *)

LEMMA FirstIsFirst == ASSUME NEW K, K \subseteq Kinds, K # {} PROVE First(K) \in K
<1>1. \E k \in K : \A x \in K : k <= x
  <2>1. CASE 1 \in K
    BY <2>1 DEF Kinds
  <2>2. CASE 1 \notin K /\ 2 \in K
    BY <2>2 DEF Kinds
  <2>3. CASE 1 \notin K /\ 2 \notin K
    <3>1. \A x \in K : x = 3
      BY <2>3 DEF Kinds
    <3>2. PICK k \in K : TRUE
      OBVIOUS
    <3> QED BY <3>1, <3>2
  <2> QED BY <2>1, <2>2, <2>3
<1> QED BY <1>1 DEF First

LEMMA LibraryJobs ==
  ASSUME LibraryInv
  PROVE  /\ \A w \in Workers : job[w] \in Jobs
         /\ \A w \in Workers : InLibrary(w) => job[w] \in LibraryJob /\ Fits(job[w])
BY DEF LibraryInv, Fits, Core, Body

LEMMA FreeKey ==
  ASSUME LibraryInv, NEW w \in Workers, NEW m, Free(w, <<"key", m>>),
         NEW v \in Workers, v # w, InLibrary(v), job[v].movie = m
  PROVE  job[v].locks = {}
<1>1. job[v].locks \subseteq {"share", "row", "key"}
  BY LibraryJobs DEF LibraryJob
<1>2. \A lock \in job[v].locks : <<lock, m>> \in Held(v)
  BY DEF Held
<1>3. Against(<<"key", m>>) = {<<"share", m>>, <<"row", m>>, <<"key", m>>}
  BY DEF Against
<1>4. Held(v) \cap Against(<<"key", m>>) = {}
  BY DEF Free, Holders
<1> QED BY <1>1, <1>2, <1>3, <1>4

LEMMA FreeRow ==
  ASSUME LibraryInv, NEW w \in Workers, NEW m, NEW lock \in {"row", "share"},
         Free(w, <<lock, m>>), NEW v \in Workers, v # w, InLibrary(v), job[v].movie = m
  PROVE  "key" \notin job[v].locks
<1>1. "key" \in job[v].locks => <<"key", m>> \in Held(v)
  BY DEF Held
<1>2. <<"key", m>> \in Against(<<lock, m>>)
  BY DEF Against
<1>3. Held(v) \cap Against(<<lock, m>>) = {}
  BY DEF Free, Holders
<1> QED BY <1>1, <1>2, <1>3

LEMMA FreeTitle ==
  ASSUME NEW w \in Workers, NEW t, Free(w, <<"title", t>>),
         NEW v \in Workers, v # w, InLibrary(v)
  PROVE  t \notin job[v].claims
<1>1. t \in job[v].claims => <<"title", t>> \in Held(v)
  BY DEF Held
<1>2. <<"title", t>> \in Against(<<"title", t>>)
  BY DEF Against
<1>3. Held(v) \cap Against(<<"title", t>>) = {}
  BY DEF Free, Holders
<1> QED BY <1>1, <1>2, <1>3

\* Where Onward goes on.
LEMMA OnwardBody ==
  ASSUME NEW j, Body(j), Prepared(j), Linked(j), Claimed(j), Settled(j)
  PROVE  LET r == Onward(j)
         IN  /\ Body(r) /\ Prepared(r) /\ Linked(r) /\ Claimed(r) /\ Placed(r) /\ Complete(r)
             /\ r.pc # "insert_movie" /\ r.op = j.op /\ r.movie = j.movie
             /\ r.locks = j.locks /\ r.claims = j.claims
<1>1. PICK p : /\ Onward(j) = [j EXCEPT !.pc = p]
               /\ \/ p = "update_row" /\ j.op = "update_movie"
                  \/ p = "ids"
                  \/ p = "names" /\ {t \in j.ask.ids : KindOf[t] = First(j.prepare)} = {}
                  \/ p = "find_links" /\ j.prepare = {} /\ j.sync # {}
                  \/ /\ p = "commit" /\ j.prepare = {} /\ j.sync = {}
                     /\ j.op = "update_movie" /\ j.new # None => j.locks \cap {"row", "key"} # {}
  BY Zenon DEF Onward
<1> DEFINE r == Onward(j)
<1>2. /\ r \in LibraryJob
      /\ r.op = j.op /\ r.pc = p /\ r.movie = j.movie /\ r.new = j.new /\ r.ask = j.ask
      /\ r.prepare = j.prepare /\ r.sync = j.sync /\ r.missing = j.missing /\ r.rows = j.rows
      /\ r.claims = j.claims /\ r.made = j.made /\ r.dropped = j.dropped /\ r.added = j.added
      /\ r.locks = j.locks
  BY <1>1 DEF Body, LibraryJob
<1> HIDE DEF r
<1>3. Body(r) /\ Prepared(r) /\ Linked(r) /\ Claimed(r)
  BY <1>2 DEF Body, Prepared, Linked, Claimed, Listing
<1>4. Settled(r)
  BY <1>2 DEF Settled
<1>5. Placed(r) /\ Complete(r)
  BY <1>1, <1>2, <1>4 DEF Placed, Complete, Settled
<1> QED BY <1>1, <1>2, <1>3, <1>4, <1>5 DEF r

LEMMA OnwardFits ==
  ASSUME NEW j, Core(j), Prepared(j), Linked(j), Claimed(j), Settled(j)
  PROVE  /\ Fits(Onward(j))
         /\ Onward(j).pc # "insert_movie" /\ Onward(j).movie = j.movie
         /\ Onward(j).locks = j.locks /\ Onward(j).claims = j.claims
BY OnwardBody DEF Core, Fits

-----------------------------------------------------------------------------
(* The ways in which a request moves without touching a table *)

Quiet(w, j) == job' = [job EXCEPT ![w] = j] /\ UNCHANGED libraryVars

\* It cannot lock or claim what another request has.
Beside(w, j) ==
  \A v \in Workers : v # w /\ InLibrary(v) => Apart(job[v], j) /\ Apart(j, job[v])

LEMMA QuietRows ==
  ASSUME LibraryInv, NEW w \in Workers, NEW j \in Jobs, Quiet(w, j),
         j.op \in {"create_movie", "update_movie", "delete_movie"} => Fits(j) /\ Beside(w, j),
         Inserting' \subseteq Inserting \/ lastId + Cardinality(Inserting') <= MaxMovies
  PROVE  LibraryInv'
<1>1. job' \in [Workers -> Jobs] /\ LibraryTypeOK' /\ NoDanglingLink' /\ TitleOnce'
      /\ \A m \in MovieId : title'[m] # None => m <= lastId'
  BY DEF LibraryInv, Quiet, libraryVars, LibraryTypeOK, NoDanglingLink, TitleOnce
<1>2. \A v \in Workers : job'[v] = IF v = w THEN j ELSE job[v]
  BY DEF LibraryInv, Quiet
<1>3. \A v \in Workers : InLibrary(v)' => Fits(job'[v])
  BY <1>2 DEF LibraryInv, InLibrary
<1>4. \A v \in Workers : InLibrary(v)' => Fits(job[v])'
  BY <1>3 DEF Fits, Core, Body, Prepared, Linked, Claimed, Placed, Settled, Complete, Quiet, libraryVars
<1>5. \A v, x \in Workers : v # x /\ InLibrary(v)' /\ InLibrary(x)' => Apart(job'[v], job'[x])
  BY <1>2 DEF LibraryInv, InLibrary, Beside
<1>6. lastId' + Cardinality(Inserting') <= MaxMovies
  <2>1. CASE Inserting' \subseteq Inserting
    <3>1. IsFiniteSet(Inserting)
      BY WorkersFinite, FS_Subset DEF Inserting
    <3>2. /\ Cardinality(Inserting') <= Cardinality(Inserting)
          /\ Cardinality(Inserting') \in Nat /\ Cardinality(Inserting) \in Nat
      BY <2>1, <3>1, FS_Subset, FS_CardinalityType
    <3> QED BY <3>2, LibraryConstantsOk DEF LibraryInv, LibraryTypeOK, Quiet, libraryVars
  <2>2. CASE lastId + Cardinality(Inserting') <= MaxMovies
    BY <2>2 DEF Quiet, libraryVars
  <2> QED BY <2>1, <2>2
<1> QED BY <1>1, <1>4, <1>5, <1>6 DEF LibraryInv, Apart

\* The step keeps the invariant, the request of w stays one of the catalogue or ends, and
\* those of the profiles stand still.
Onto(w) ==
  /\ LibraryInv'
  /\ \A v \in Workers : v # w => job'[v] = job[v] \/ job'[v] \in LibraryJob
  /\ job'[w] = Idle \/ job'[w] \in LibraryJob

LEMMA EndRows ==
  ASSUME LibraryInv, NEW w \in Workers, End(w), UNCHANGED libraryVars PROVE Onto(w)
<1>1. Idle \in Jobs /\ Quiet(w, Idle) /\ Idle.op = "none"
  BY DEF Jobs, Idle, Quiet, End
<1>2. Inserting' \subseteq Inserting
  BY <1>1 DEF Inserting, InLibrary, Quiet, LibraryInv
<1> QED BY <1>1, <1>2, QuietRows DEF Quiet, LibraryInv, Onto

\* A request goes on without a new lock or claim.
LEMMA GoRows ==
  ASSUME LibraryInv, NEW w \in Workers, NEW j, Quiet(w, j), Fits(j), j.pc # "insert_movie",
         Beside(w, j)
  PROVE  Onto(w)
<1>1. j \in LibraryJob /\ j \in Jobs
  BY DEF Fits, Core, Body, Jobs
<1>2. Inserting' \subseteq Inserting
  BY DEF Inserting, InLibrary, Quiet, LibraryInv
<1> QED BY <1>1, <1>2, QuietRows DEF Quiet, LibraryInv, Onto

LEMMA SameLocks ==
  ASSUME LibraryInv, NEW w \in Workers, InLibrary(w), NEW j, j.movie = job[w].movie,
         j.locks = job[w].locks, j.claims \subseteq job[w].claims
  PROVE  Beside(w, j)
BY DEF LibraryInv, Beside, Apart

LEMMA MoreLocks ==
  ASSUME LibraryInv, NEW w \in Workers, InLibrary(w), NEW j, j.movie = job[w].movie,
         NEW lock \in {"row", "share"}, Free(w, <<lock, j.movie>>),
         j.locks = job[w].locks \cup {lock}, j.claims = job[w].claims
  PROVE  Beside(w, j)
<1> SUFFICES ASSUME NEW v \in Workers, v # w, InLibrary(v)
             PROVE  Apart(job[v], j) /\ Apart(j, job[v])
  BY DEF Beside
<1>1. Apart(job[v], job[w]) /\ Apart(job[w], job[v])
  BY DEF LibraryInv
<1>2. job[v].movie = j.movie => "key" \notin job[v].locks
  BY FreeRow
<1> QED BY <1>1, <1>2 DEF Apart

\* A request that gets the key of a movie finds no other lock on it, and may claim the
\* title that the movie has.
LEMMA KeyIsExclusive ==
  ASSUME LibraryInv, NEW w \in Workers, InLibrary(w), NEW j, Free(w, <<"key", j.movie>>),
         j.movie \in MovieId, j.claims \subseteq {title[j.movie]}
  PROVE  Beside(w, j)
<1> SUFFICES ASSUME NEW v \in Workers, v # w, InLibrary(v)
             PROVE  Apart(job[v], j) /\ Apart(j, job[v])
  BY DEF Beside
<1>1. job[v].movie = j.movie => job[v].locks = {}
  BY FreeKey
<1>2. Claimed(job[v])
  BY LibraryJobs DEF Fits
<1>3. job[v].claims \cap j.claims = {}
  BY <1>1, <1>2 DEF Claimed
<1> QED BY <1>1, <1>3 DEF Apart

LEMMA ContinueRows ==
  ASSUME LibraryInv, NEW w \in Workers, NEW j, Continue(w, j), UNCHANGED libraryVars,
         Core(j), Prepared(j), Linked(j), Claimed(j), Settled(j), Beside(w, j)
  PROVE  Onto(w)
<1>1. /\ Fits(Onward(j)) /\ Onward(j).pc # "insert_movie"
      /\ Onward(j).movie = j.movie /\ Onward(j).locks = j.locks /\ Onward(j).claims = j.claims
  BY OnwardFits
<1>2. Beside(w, Onward(j))
  BY <1>1 DEF Beside, Apart
<1>3. Quiet(w, Onward(j))
  BY DEF Continue, Quiet
<1> QED BY <1>1, <1>2, <1>3, GoRows
-----------------------------------------------------------------------------
(* The first statement of a request *)

LEMMA NewJobIsJob ==
  ASSUME NEW op \in {"create_movie", "update_movie", "delete_movie"}, NEW m \in MovieId \cup {0},
         NEW t \in Titles \cup {None}, NEW fields \in BOOLEAN, NEW a \in Asks \cup {NoAsk}
  PROVE  NewJob(op, m, t, fields, a) \in LibraryJob
<1>1. a \in Ask
  BY LibraryConstantsOk DEF NoAsk, Ask
<1>2. {KindOf[x] : x \in a.ids \cup a.names} \in SUBSET Kinds
  BY <1>1, LibraryConstantsOk DEF Ask
<1> QED BY <1>1, <1>2 DEF NewJob, LibraryJob, Ask

LEMMA CreateMovieRows ==
  ASSUME LibraryInv, NEW w \in Workers, NEW t \in Titles, NEW a \in Asks, CreateMovie(w, t, a)
  PROVE  Onto(w)
<1> DEFINE n == NewJob("create_movie", 0, t, TRUE, a)
           r == [n EXCEPT !.pc = "insert_movie"]
<1>1. n \in LibraryJob
  BY NewJobIsJob
<1>2. /\ n.op = "create_movie" /\ n.movie = 0 /\ n.new = t /\ n.ask = a /\ n.missing = {}
      /\ n.prepare = {KindOf[x] : x \in a.ids \cup a.names} /\ n.rows = {} /\ n.claims = {}
      /\ n.made = {} /\ n.dropped = {} /\ n.added = {} /\ n.locks = {}
  BY DEF NewJob
<1>3. Quiet(w, r)
  BY DEF CreateMovie, Quiet
<1> HIDE DEF n
<1>4. /\ r \in LibraryJob /\ r.pc = "insert_movie"
      /\ r.op = "create_movie" /\ r.movie = 0 /\ r.new = t /\ r.ask = a /\ r.missing = {}
      /\ r.prepare = {KindOf[x] : x \in a.ids \cup a.names} /\ r.rows = {} /\ r.claims = {}
      /\ r.made = {} /\ r.dropped = {} /\ r.added = {} /\ r.locks = {}
  BY <1>1, <1>2 DEF LibraryJob
<1> HIDE DEF r
<1>5. Fits(r)
  <2>1. Core(r) /\ Prepared(r) /\ Linked(r) /\ Claimed(r)
    BY <1>4, LibraryConstantsOk
       DEF Core, Body, Prepared, Listing, Linked, Claimed, LibraryInv, LibraryTypeOK
  <2>2. Placed(r) /\ Complete(r)
    BY <1>4 DEF Placed, Complete
  <2> QED BY <2>1, <2>2 DEF Fits
<1>6. Beside(w, r)
  <2> SUFFICES ASSUME NEW v \in Workers, InLibrary(v)
               PROVE  Apart(job[v], r) /\ Apart(r, job[v])
    BY DEF Beside
  <2> QED BY <1>4 DEF Apart
<1>7. lastId + Cardinality(Inserting') <= MaxMovies
  <2> DEFINE Creating == {v \in Workers : job[v].op = "create_movie"}
  <2>1. /\ Inserting \subseteq Creating
        /\ IsFiniteSet(Creating) /\ IsFiniteSet(Inserting)
    <3>1. \A v \in Workers : InLibrary(v) /\ job[v].pc = "insert_movie" => job[v].op = "create_movie"
      BY LibraryJobs DEF Fits, Placed
    <3> QED BY <3>1, WorkersFinite, FS_Subset DEF Inserting
  <2>2. Inserting' = Inserting \cup {w} /\ w \notin Inserting
    <3>1. ~InLibrary(w)
      BY DEF InLibrary, CreateMovie, Idle
    <3>2. job'[w] = r /\ \A v \in Workers : v # w => job'[v] = job[v]
      BY <1>3 DEF Quiet, LibraryInv
    <3> QED BY <1>4, <3>1, <3>2 DEF Inserting, InLibrary
  <2>3. /\ Cardinality(Inserting') = Cardinality(Inserting) + 1
        /\ Cardinality(Inserting) <= Cardinality(Creating)
        /\ Cardinality(Inserting) \in Nat /\ Cardinality(Creating) \in Nat
    BY <2>1, <2>2, FS_AddElement, FS_Subset, FS_CardinalityType
  <2>4. lastId + Cardinality(Creating) < MaxMovies
    BY DEF CreateMovie, RoomForMovie
  <2> QED BY <2>3, <2>4, LibraryConstantsOk DEF LibraryInv, LibraryTypeOK
<1>8. LibraryInv'
  BY <1>3, <1>4, <1>5, <1>6, <1>7, QuietRows DEF Jobs
<1> QED BY <1>3, <1>4, <1>8 DEF Quiet, LibraryInv, Onto

LEMMA UpdateMovieRows ==
  ASSUME LibraryInv, NEW w \in Workers, NEW m \in MovieId, NEW t \in Titles \cup {None},
         NEW fields \in BOOLEAN, NEW a \in Asks, UpdateMovie(w, m, t, fields, a)
  PROVE  Onto(w)
<1> DEFINE n == NewJob("update_movie", m, t, fields, a)
<1>1. n \in LibraryJob
  BY NewJobIsJob
<1>2. /\ n.op = "update_movie" /\ n.movie = m /\ n.new = t /\ n.ask = a /\ n.missing = {}
      /\ n.prepare = {KindOf[x] : x \in a.ids \cup a.names} /\ n.rows = {} /\ n.claims = {}
      /\ n.made = {} /\ n.dropped = {} /\ n.added = {} /\ n.locks = {} /\ n.sync = a.kinds
  BY DEF NewJob
<1>3. Continue(w, n) /\ UNCHANGED libraryVars
  BY DEF UpdateMovie, Continue
<1> HIDE DEF n
<1>4. m # 0 /\ m <= lastId
  BY DEF UpdateMovie, LibraryInv, MovieId
<1>5. Core(n) /\ Prepared(n) /\ Linked(n) /\ Claimed(n) /\ Settled(n)
  BY <1>1, <1>2, <1>4, LibraryConstantsOk
     DEF Core, Body, Prepared, Listing, Linked, Claimed, Settled
<1>6. Beside(w, n)
  <2> SUFFICES ASSUME NEW v \in Workers, InLibrary(v)
               PROVE  Apart(job[v], n) /\ Apart(n, job[v])
    BY DEF Beside
  <2> QED BY <1>2 DEF Apart
<1> QED BY <1>3, <1>5, <1>6, ContinueRows

LEMMA DeleteMovieRows ==
  ASSUME LibraryInv, NEW w \in Workers, NEW m \in MovieId, DeleteMovie(w, m)
  PROVE  Onto(w)
<1> DEFINE n == NewJob("delete_movie", m, None, FALSE, NoAsk)
           r == [n EXCEPT !.pc = "find_links"]
<1>1. n \in LibraryJob
  BY NewJobIsJob
<1>2. /\ n.op = "delete_movie" /\ n.movie = m /\ n.new = None /\ n.ask = NoAsk
      /\ n.missing = {} /\ n.prepare = {} /\ n.rows = {} /\ n.claims = {} /\ n.sync = {}
      /\ n.made = {} /\ n.dropped = {} /\ n.added = {} /\ n.locks = {}
  BY DEF NewJob, NoAsk
<1>3. Quiet(w, r)
  BY DEF DeleteMovie, Quiet
<1> HIDE DEF n
<1>4. /\ r \in LibraryJob /\ r.pc = "find_links"
      /\ r.op = "delete_movie" /\ r.movie = m /\ r.new = None /\ r.ask = NoAsk
      /\ r.missing = {} /\ r.prepare = {} /\ r.rows = {} /\ r.claims = {} /\ r.sync = {}
      /\ r.made = {} /\ r.dropped = {} /\ r.added = {} /\ r.locks = {}
  BY <1>1, <1>2 DEF LibraryJob
<1> HIDE DEF r
<1>5. m # 0 /\ m <= lastId
  BY DEF DeleteMovie, LibraryInv, MovieId
<1>6. Fits(r)
  <2>1. Core(r) /\ Prepared(r) /\ Linked(r) /\ Claimed(r)
    BY <1>4, <1>5 DEF Core, Body, Prepared, Listing, Linked, Claimed, NoAsk
  <2>2. Placed(r) /\ Complete(r)
    BY <1>4, <1>5 DEF Placed, Complete
  <2> QED BY <2>1, <2>2 DEF Fits
<1>7. Beside(w, r)
  <2> SUFFICES ASSUME NEW v \in Workers, InLibrary(v)
               PROVE  Apart(job[v], r) /\ Apart(r, job[v])
    BY DEF Beside
  <2> QED BY <1>4 DEF Apart
<1> QED BY <1>3, <1>4, <1>6, <1>7, GoRows
-----------------------------------------------------------------------------
(* update_movie: the row of the movie *)

LEMMA UpdateRowRows ==
  ASSUME LibraryInv, NEW w \in Workers, UpdateRow(w) PROVE Onto(w)
<1> DEFINE j == job[w]
<1>1. /\ Fits(j) /\ j \in LibraryJob /\ InLibrary(w) /\ j.op = "update_movie" /\ j.pc = "update_row"
      /\ j.movie \in MovieId /\ Settled(j) /\ UNCHANGED libraryVars
  BY LibraryJobs DEF UpdateRow, Doing, Fits, Placed, Settled, LibraryJob
<1>2. CASE title[j.movie] = None
  BY <1>1, <1>2, EndRows DEF UpdateRow
<1>3. CASE title[j.movie] # None /\ Retitles(w)
  <2> DEFINE r == [j EXCEPT !.locks = @ \cup {"key"}, !.pc = "update_title",
                            !.claims = {title[j.movie]}]
  <2>1. Quiet(w, r)
    BY <1>1, <1>3, LibraryJobs DEF UpdateRow, Quiet, LibraryInv
  <2>2. /\ r \in LibraryJob
        /\ r.op = "update_movie" /\ r.pc = "update_title" /\ r.movie = j.movie /\ r.new = j.new
        /\ r.ask = j.ask /\ r.prepare = j.prepare /\ r.sync = j.sync /\ r.missing = j.missing
        /\ r.rows = j.rows /\ r.claims = {title[j.movie]} /\ r.made = j.made
        /\ r.dropped = j.dropped /\ r.added = j.added /\ r.locks = j.locks \cup {"key"}
    BY <1>1, <1>3 DEF LibraryJob, LibraryInv, LibraryTypeOK
  <2>3. r.new # None /\ Free(w, <<"key", j.movie>>)
    BY <1>1, <1>3, <2>2 DEF UpdateRow, Needs, Retitles
  <2> HIDE DEF r
  <2>4. Core(r) /\ Prepared(r) /\ Linked(r)
    BY <1>1, <2>2 DEF Fits, Core, Body, Prepared, Listing, Linked
  <2>5. Claimed(r)
    BY <1>1, <1>3, <2>2 DEF LibraryInv, TitleOnce, Claimed
  <2>6. Settled([r EXCEPT !.claims = @ \cup {r.new}])
    <3> DEFINE x == [r EXCEPT !.claims = @ \cup {r.new}]
    <3>1. /\ x.op = "update_movie" /\ x.movie = j.movie /\ x.new = r.new /\ r.new \in x.claims
          /\ x.added = j.added /\ x.locks = r.locks
      BY <2>2 DEF LibraryJob
    <3> HIDE DEF x
    <3>2. Settled(x)
      BY <1>1, <2>2, <3>1 DEF Settled
    <3> QED BY <3>2 DEF x
  <2>7. Fits(r)
    BY <2>2, <2>3, <2>4, <2>5, <2>6 DEF Fits, Placed, Complete
  <2>8. Beside(w, r)
    BY <1>1, <2>2, <2>3, KeyIsExclusive
  <2> QED BY <2>1, <2>2, <2>7, <2>8, GoRows
<1>4. CASE title[j.movie] # None /\ ~Retitles(w)
  <2> DEFINE r == [j EXCEPT !.locks = @ \cup {"row"}]
  <2>1. Continue(w, r)
    BY <1>4 DEF UpdateRow
  <2>2. /\ r \in LibraryJob
        /\ r.op = "update_movie" /\ r.movie = j.movie /\ r.new = j.new
        /\ r.ask = j.ask /\ r.prepare = j.prepare /\ r.sync = j.sync /\ r.missing = j.missing
        /\ r.rows = j.rows /\ r.claims = j.claims /\ r.made = j.made
        /\ r.dropped = j.dropped /\ r.added = j.added /\ r.locks = j.locks \cup {"row"}
    BY <1>1 DEF LibraryJob
  <2>3. /\ r.new # None => r.new = title[r.movie]
        /\ Free(w, <<"row", j.movie>>)
    BY <1>1, <1>4, <2>2 DEF UpdateRow, Needs, Retitles
  <2> HIDE DEF r
  <2>4. Core(r) /\ Prepared(r) /\ Linked(r) /\ Claimed(r) /\ Settled(r)
    BY <1>1, <1>4, <2>2, <2>3 DEF Fits, Core, Body, Prepared, Listing, Linked, Claimed, Settled
  <2>5. Beside(w, r)
    BY <1>1, <2>2, <2>3, MoreLocks
  <2> QED BY <1>1, <2>1, <2>4, <2>5, ContinueRows
<1> QED BY <1>2, <1>3, <1>4

LEMMA UpdateTitleRows ==
  ASSUME LibraryInv, NEW w \in Workers, UpdateTitle(w) PROVE Onto(w)
<1> DEFINE j == job[w]
           r == [j EXCEPT !.claims = @ \cup {j.new}]
<1>1. /\ Fits(j) /\ j \in LibraryJob /\ InLibrary(w) /\ j.op = "update_movie"
      /\ j.new # None /\ "key" \in j.locks /\ Settled(r) /\ UNCHANGED libraryVars
  BY LibraryJobs DEF UpdateTitle, Doing, Fits, Placed
<1>2. CASE Taken(j.new)
  BY <1>1, <1>2, EndRows DEF UpdateTitle
<1>3. CASE ~Taken(j.new)
  <2>1. Continue(w, r)
    BY <1>3 DEF UpdateTitle
  <2>2. /\ r \in LibraryJob
        /\ r.op = "update_movie" /\ r.movie = j.movie /\ r.new = j.new
        /\ r.ask = j.ask /\ r.prepare = j.prepare /\ r.sync = j.sync /\ r.missing = j.missing
        /\ r.rows = j.rows /\ r.claims = j.claims \cup {j.new} /\ r.made = j.made
        /\ r.dropped = j.dropped /\ r.added = j.added /\ r.locks = j.locks
    BY <1>1 DEF LibraryJob
  <2> HIDE DEF r
  <2>3. Core(r) /\ Prepared(r) /\ Linked(r)
    BY <1>1, <2>2 DEF Fits, Core, Body, Prepared, Listing, Linked
  <2>4. Claimed(r)
    BY <1>1, <1>3, <2>2 DEF Fits, Claimed, Taken
  <2>5. Beside(w, r)
    <3> SUFFICES ASSUME NEW v \in Workers, v # w, InLibrary(v)
                 PROVE  Apart(job[v], r) /\ Apart(r, job[v])
      BY DEF Beside
    <3>1. j.new \notin job[v].claims
      BY FreeTitle DEF UpdateTitle
    <3>2. Apart(job[v], j) /\ Apart(j, job[v])
      BY <1>1 DEF LibraryInv
    <3> QED BY <2>2, <3>1, <3>2 DEF Apart
  <2> QED BY <1>1, <2>1, <2>3, <2>4, <2>5, ContinueRows
<1> QED BY <1>2, <1>3

-----------------------------------------------------------------------------
(* prepare_related *)

\* The kind that was first is prepared.
LEMMA KindDone ==
  ASSUME LibraryInv, NEW w \in Workers, InLibrary(w), UNCHANGED libraryVars,
         NEW j, Core(j), Prepared(j), Linked(j), Claimed(j), Settled(j), Beside(w, j),
         \A t \in Listing(j) : KindOf[t] = First(j.prepare) => t \in tags \cup j.made,
         Continue(w, [j EXCEPT !.prepare = @ \ {First(@)}])
  PROVE  Onto(w)
<1> DEFINE r == [j EXCEPT !.prepare = @ \ {First(@)}]
<1>1. /\ r \in LibraryJob
      /\ r.op = j.op /\ r.movie = j.movie /\ r.new = j.new /\ r.ask = j.ask
      /\ r.prepare = j.prepare \ {First(j.prepare)} /\ r.sync = j.sync /\ r.missing = j.missing
      /\ r.rows = j.rows /\ r.claims = j.claims /\ r.made = j.made
      /\ r.dropped = j.dropped /\ r.added = j.added /\ r.locks = j.locks
  BY DEF Core, Body, LibraryJob
<1>2. Continue(w, r)
  OBVIOUS
<1> HIDE DEF r
<1>3. Core(r) /\ Prepared(r) /\ Linked(r) /\ Claimed(r) /\ Settled(r)
  BY <1>1 DEF Core, Body, Prepared, Listing, Linked, Claimed, Settled
<1>4. Beside(w, r)
  BY <1>1 DEF Beside, Apart
<1> QED BY <1>2, <1>3, <1>4, ContinueRows

LEMMA ValidateIdsRows ==
  ASSUME LibraryInv, NEW w \in Workers, ValidateIds(w) PROVE Onto(w)
<1> DEFINE j == job[w]
           known == \A t \in j.ask.ids : KindOf[t] = First(j.prepare) => t \in tags
<1>1. /\ Fits(j) /\ j \in LibraryJob /\ InLibrary(w) /\ j.pc = "ids" /\ Settled(j)
      /\ UNCHANGED libraryVars /\ Beside(w, j) /\ j.op # "delete_movie"
  BY LibraryJobs, SameLocks DEF ValidateIds, Doing, Fits, Placed
<1>2. CASE End(w)
  BY <1>1, <1>2, EndRows
<1>3. CASE known /\ \A t \in j.ask.names : KindOf[t] # First(j.prepare)
  <2>1. CASE End(w)
    BY <1>1, <2>1, EndRows
  <2>2. CASE Continue(w, [j EXCEPT !.prepare = @ \ {First(@)}])
    BY <1>1, <1>3, <2>2, KindDone DEF Fits, Listing
  <2> QED BY <1>3, <2>1, <2>2 DEF ValidateIds, NamesNext
<1>4. CASE known /\ job' = [job EXCEPT ![w].pc = "names"]
  <2> DEFINE r == [j EXCEPT !.pc = "names"]
  <2>1. /\ r \in LibraryJob
        /\ r.op = j.op /\ r.pc = "names" /\ r.movie = j.movie /\ r.new = j.new /\ r.ask = j.ask
        /\ r.prepare = j.prepare /\ r.sync = j.sync /\ r.missing = j.missing
        /\ r.rows = j.rows /\ r.claims = j.claims /\ r.made = j.made
        /\ r.dropped = j.dropped /\ r.added = j.added /\ r.locks = j.locks
    BY <1>1 DEF LibraryJob
  <2>2. Quiet(w, r)
    BY <1>1, <1>4 DEF Quiet, LibraryInv
  <2> HIDE DEF r
  <2>3. Core(r) /\ Prepared(r) /\ Linked(r) /\ Claimed(r) /\ Settled(r)
    BY <1>1, <2>1 DEF Fits, Core, Body, Prepared, Listing, Linked, Claimed, Settled
  <2>4. Fits(r)
    BY <1>1, <1>4, <2>1, <2>3 DEF Fits, Placed, Complete
  <2>5. Beside(w, r)
    BY <1>1, <2>1, SameLocks
  <2> QED BY <2>1, <2>2, <2>4, <2>5, GoRows
<1> QED BY <1>2, <1>3, <1>4 DEF ValidateIds, NamesNext

LEMMA FindNamesRows ==
  ASSUME LibraryInv, NEW w \in Workers, FindNames(w) PROVE Onto(w)
<1> DEFINE j == job[w]
           absent == {t \in j.ask.names : KindOf[t] = First(j.prepare)} \ tags
<1>1. /\ Fits(j) /\ j \in LibraryJob /\ InLibrary(w) /\ j.pc = "names" /\ Settled(j)
      /\ UNCHANGED libraryVars /\ Beside(w, j) /\ j.op # "delete_movie"
      /\ \A t \in j.ask.ids : KindOf[t] = First(j.prepare) => t \in tags
  BY LibraryJobs, SameLocks DEF FindNames, Doing, Fits, Placed
<1>2. CASE absent = {}
  <2>1. Continue(w, [j EXCEPT !.prepare = @ \ {First(@)}])
    BY <1>2 DEF FindNames
  <2>2. \A t \in Listing(j) : KindOf[t] = First(j.prepare) => t \in tags
    BY <1>1, <1>2 DEF Listing
  <2> QED BY <1>1, <2>1, <2>2, KindDone DEF Fits
<1>3. CASE absent # {}
  <2> DEFINE r == [j EXCEPT !.pc = "insert_names", !.missing = absent]
  <2>1. /\ r \in LibraryJob
        /\ r.op = j.op /\ r.pc = "insert_names" /\ r.movie = j.movie /\ r.new = j.new
        /\ r.ask = j.ask /\ r.prepare = j.prepare /\ r.sync = j.sync /\ r.missing = absent
        /\ r.rows = j.rows /\ r.claims = j.claims /\ r.made = j.made
        /\ r.dropped = j.dropped /\ r.added = j.added /\ r.locks = j.locks
    BY <1>1 DEF LibraryJob, Ask
  <2>2. Quiet(w, r)
    BY <1>1, <1>3 DEF FindNames, Quiet, LibraryInv
  <2> HIDE DEF r
  <2>3. Core(r) /\ Prepared(r) /\ Linked(r) /\ Claimed(r) /\ Settled(r)
    BY <1>1, <2>1 DEF Fits, Core, Body, Prepared, Listing, Linked, Claimed, Settled
  <2>4. Fits(r)
    BY <1>1, <2>1, <2>3 DEF Fits, Placed, Complete
  <2>5. Beside(w, r)
    BY <1>1, <2>1, SameLocks
  <2> QED BY <2>1, <2>2, <2>4, <2>5, GoRows
<1> QED BY <1>2, <1>3

LEMMA InsertNamesRows ==
  ASSUME LibraryInv, NEW w \in Workers, InsertNames(w) PROVE Onto(w)
<1> DEFINE j == job[w]
<1>1. /\ Fits(j) /\ j \in LibraryJob /\ InLibrary(w) /\ j.pc = "insert_names" /\ Settled(j)
      /\ UNCHANGED libraryVars /\ j.op # "delete_movie"
      /\ \A t \in j.ask.ids : KindOf[t] = First(j.prepare) => t \in tags
      /\ \A t \in j.ask.names : KindOf[t] = First(j.prepare) => t \in tags \cup j.made \cup j.missing
  BY LibraryJobs DEF InsertNames, Doing, Fits, Placed
<1>2. CASE End(w)
  BY <1>1, <1>2, EndRows
<1>3. ASSUME NEW t \in j.missing, ~End(w),
             LET r == [j EXCEPT !.made = @ \cup {t}, !.missing = j.missing \ {t}]
             IN  IF j.missing \ {t} # {} THEN job' = [job EXCEPT ![w] = r]
                 ELSE Continue(w, [r EXCEPT !.prepare = @ \ {First(@)}])
      PROVE  Onto(w)
  <2> DEFINE r == [j EXCEPT !.made = @ \cup {t}, !.missing = j.missing \ {t}]
  <2>1. t \in j.ask.names /\ t \in Tags
    BY <1>1 DEF Fits, Prepared, LibraryJob
  <2>2. /\ r \in LibraryJob
        /\ r.op = j.op /\ r.pc = "insert_names" /\ r.movie = j.movie /\ r.new = j.new
        /\ r.ask = j.ask /\ r.prepare = j.prepare /\ r.sync = j.sync
        /\ r.missing = j.missing \ {t} /\ r.made = j.made \cup {t}
        /\ r.rows = j.rows /\ r.claims = j.claims
        /\ r.dropped = j.dropped /\ r.added = j.added /\ r.locks = j.locks
    BY <1>1, <2>1 DEF LibraryJob
  <2>3. IF r.missing # {} THEN job' = [job EXCEPT ![w] = r]
        ELSE Continue(w, [r EXCEPT !.prepare = @ \ {First(@)}])
    BY <1>3, <2>2
  <2> HIDE DEF r
  <2>4. Core(r) /\ Prepared(r) /\ Linked(r) /\ Claimed(r) /\ Settled(r)
    BY <1>1, <2>1, <2>2 DEF Fits, Core, Body, Prepared, Listing, Linked, Claimed, Settled
  <2>5. Beside(w, r)
    BY <1>1, <2>2, SameLocks
  <2>6. CASE r.missing # {}
    <3>1. Fits(r)
      BY <1>1, <2>2, <2>4 DEF Fits, Placed, Complete
    <3> QED BY <1>1, <2>2, <2>3, <2>5, <2>6, <3>1, GoRows DEF Quiet
  <2>7. CASE r.missing = {}
    <3>1. \A x \in Listing(r) : KindOf[x] = First(r.prepare) => x \in tags \cup r.made
      BY <1>1, <2>2, <2>7 DEF Listing
    <3> QED BY <1>1, <2>3, <2>4, <2>5, <2>7, <3>1, KindDone
  <2> QED BY <2>6, <2>7
<1> QED BY <1>2, <1>3 DEF InsertNames
-----------------------------------------------------------------------------
(* sync_associations *)

\* The kind that was first is synced: its links are added.
LEMMA SyncDone ==
  ASSUME LibraryInv, NEW w \in Workers, UNCHANGED libraryVars,
         NEW j, Core(j), Prepared(j), Linked(j), Claimed(j), Settled(j), Beside(w, j),
         j.op = "update_movie", NEW gone,
         \A t \in Listing(j) :
           KindOf[t] = First(j.sync) => [movie |-> j.movie, tag |-> t] \in j.added,
         Continue(w, [j EXCEPT !.rows = gone, !.sync = @ \ {First(@)}]), gone \subseteq j.rows
  PROVE  Onto(w)
<1> DEFINE r == [j EXCEPT !.rows = gone, !.sync = @ \ {First(@)}]
<1>1. /\ r \in LibraryJob
      /\ r.op = j.op /\ r.movie = j.movie /\ r.new = j.new /\ r.ask = j.ask
      /\ r.prepare = j.prepare /\ r.sync = j.sync \ {First(j.sync)} /\ r.missing = j.missing
      /\ r.rows = gone /\ r.claims = j.claims /\ r.made = j.made
      /\ r.dropped = j.dropped /\ r.added = j.added /\ r.locks = j.locks
  BY DEF Core, Body, LibraryJob
<1>2. Continue(w, r)
  OBVIOUS
<1> HIDE DEF r
<1>3. Core(r) /\ Prepared(r) /\ Linked(r) /\ Claimed(r) /\ Settled(r)
  BY <1>1 DEF Core, Body, Prepared, Listing, Linked, Claimed, Settled
<1>4. Beside(w, r)
  BY <1>1 DEF Beside, Apart
<1> QED BY <1>2, <1>3, <1>4, ContinueRows

LEMMA NothingToLink ==
  ASSUME LibraryInv, NEW w \in Workers, InLibrary(w), ToLink(w) = {}
  PROVE  \A t \in Listing(job[w]) : KindOf[t] = First(job[w].sync) =>
           [movie |-> job[w].movie, tag |-> t] \in job[w].added
BY DEF ToLink, Listed, LinkTo, Listing

LEMMA UnlinkedRows ==
  ASSUME LibraryInv, NEW w \in Workers, InLibrary(w), UNCHANGED libraryVars,
         job[w].op = "update_movie", job[w].prepare = {}, Settled(job[w]),
         NEW j \in LibraryJob,
         j.op = job[w].op, j.movie = job[w].movie, j.new = job[w].new, j.ask = job[w].ask,
         j.prepare = job[w].prepare, j.sync = job[w].sync, j.missing = job[w].missing,
         j.claims = job[w].claims, j.made = job[w].made, j.added = job[w].added,
         j.locks = job[w].locks, j.rows \subseteq job[w].rows, Linked(j), Unlinked(w, j)
  PROVE  Onto(w)
<1>1. Fits(job[w]) /\ job[w] \in LibraryJob
  BY LibraryJobs
<1>2. Core(j) /\ Prepared(j) /\ Claimed(j) /\ Settled(j)
  BY <1>1 DEF Fits, Core, Body, Prepared, Listing, Claimed, Settled
<1>3. Beside(w, j)
  BY SameLocks
<1>4. CASE ToLink(w) = {}
  <2>1. \A t \in Listing(j) :
          KindOf[t] = First(j.sync) => [movie |-> j.movie, tag |-> t] \in j.added
    BY <1>4, NothingToLink DEF Listing
  <2>2. Continue(w, [j EXCEPT !.rows = {}, !.sync = @ \ {First(@)}])
    BY <1>4 DEF Unlinked
  <2> QED BY <1>2, <1>3, <2>1, <2>2, SyncDone
<1>5. CASE ToLink(w) # {}
  <2> DEFINE r == [j EXCEPT !.rows = {}, !.pc = "link"]
  <2>1. /\ r \in LibraryJob
        /\ r.op = j.op /\ r.pc = "link" /\ r.movie = j.movie /\ r.new = j.new /\ r.ask = j.ask
        /\ r.prepare = j.prepare /\ r.sync = j.sync /\ r.missing = j.missing
        /\ r.rows = {} /\ r.claims = j.claims /\ r.made = j.made
        /\ r.dropped = j.dropped /\ r.added = j.added /\ r.locks = j.locks
    BY DEF LibraryJob
  <2>2. Quiet(w, r)
    BY <1>5 DEF Unlinked, Quiet
  <2> HIDE DEF r
  <2>3. Core(r) /\ Prepared(r) /\ Linked(r) /\ Claimed(r) /\ Settled(r)
    BY <1>2, <2>1 DEF Core, Body, Prepared, Listing, Linked, Claimed, Settled
  <2>4. Fits(r)
    BY <2>1, <2>3 DEF Fits, Placed, Complete
  <2>5. Beside(w, r)
    BY <2>1, SameLocks
  <2> QED BY <2>1, <2>2, <2>4, <2>5, GoRows
<1> QED BY <1>4, <1>5

LEMMA FindLinksRows ==
  ASSUME LibraryInv, NEW w \in Workers, FindLinks(w) PROVE Onto(w)
<1> DEFINE j == job[w]
           seen == KindLinks(w, First(j.sync))
<1>1. /\ Fits(j) /\ j \in LibraryJob /\ InLibrary(w) /\ j.op = "update_movie" /\ Settled(j)
      /\ UNCHANGED libraryVars /\ j.prepare = {} /\ j.sync # {} /\ Linked(j)
  BY LibraryJobs DEF FindLinks, Doing, Fits, Placed
<1>2. CASE seen = {}
  BY <1>1, <1>2, UnlinkedRows DEF FindLinks
<1>3. CASE seen # {}
  <2> DEFINE r == [j EXCEPT !.pc = "unlink", !.rows = seen]
  <2>1. seen \subseteq Link /\ \A l \in seen : l.movie = j.movie /\ KindOf[l.tag] = First(j.sync)
    BY DEF KindLinks, LibraryInv, LibraryTypeOK
  <2>2. Quiet(w, r)
    BY <1>1, <1>3 DEF FindLinks, Quiet, LibraryInv
  <2>3. First(j.sync) \in j.ask.kinds
    BY <1>1, FirstIsFirst DEF Linked, LibraryJob
  <2> HIDE DEF seen
  <2>4. /\ r \in LibraryJob
        /\ r.op = j.op /\ r.pc = "unlink" /\ r.movie = j.movie /\ r.new = j.new /\ r.ask = j.ask
        /\ r.prepare = j.prepare /\ r.sync = j.sync /\ r.missing = j.missing
        /\ r.rows = seen /\ r.claims = j.claims /\ r.made = j.made
        /\ r.dropped = j.dropped /\ r.added = j.added /\ r.locks = j.locks
    BY <1>1, <2>1 DEF LibraryJob
  <2> HIDE DEF r
  <2>5. Core(r) /\ Prepared(r) /\ Linked(r) /\ Claimed(r) /\ Settled(r)
    BY <1>1, <2>1, <2>3, <2>4 DEF Fits, Core, Body, Prepared, Listing, Linked, Claimed, Settled
  <2>6. Fits(r)
    BY <1>1, <2>4, <2>5 DEF Fits, Placed, Complete
  <2>7. Beside(w, r)
    BY <1>1, <2>4, SameLocks
  <2> QED BY <2>2, <2>4, <2>6, <2>7, GoRows
<1> QED BY <1>2, <1>3 DEF FindLinks

LEMMA UnlinkRows ==
  ASSUME LibraryInv, NEW w \in Workers, Unlink(w) PROVE Onto(w)
<1> DEFINE j == job[w]
<1>1. /\ Fits(j) /\ j \in LibraryJob /\ InLibrary(w) /\ j.op = "update_movie" /\ Settled(j)
      /\ UNCHANGED libraryVars /\ j.prepare = {} /\ Linked(j) /\ j.pc = "unlink"
  BY LibraryJobs DEF Unlink, Doing, Fits, Placed
<1>2. CASE Unlinked(w, j)
  BY <1>1, <1>2, UnlinkedRows
<1>3. ASSUME NEW l \in j.rows, NEW r, r = [j EXCEPT !.rows = @ \ {l}, !.dropped = @ \cup {l}],
             IF r.rows = {} THEN Unlinked(w, r) ELSE job' = [job EXCEPT ![w] = r]
      PROVE  Onto(w)
  <2>1. /\ r \in LibraryJob
        /\ r.op = j.op /\ r.pc = "unlink" /\ r.movie = j.movie /\ r.new = j.new /\ r.ask = j.ask
        /\ r.prepare = j.prepare /\ r.sync = j.sync /\ r.missing = j.missing
        /\ r.rows = j.rows \ {l} /\ r.claims = j.claims /\ r.made = j.made
        /\ r.dropped = j.dropped \cup {l} /\ r.added = j.added /\ r.locks = j.locks
    BY <1>1, <1>3 DEF LibraryJob
  <2>2. Core(r) /\ Prepared(r) /\ Linked(r) /\ Claimed(r) /\ Settled(r)
    BY <1>1, <2>1 DEF Fits, Core, Body, Prepared, Listing, Linked, Claimed, Settled
  <2>3. CASE r.rows = {}
    BY <1>1, <1>3, <2>1, <2>2, <2>3, UnlinkedRows
  <2>4. CASE r.rows # {}
    <3>1. Fits(r)
      BY <1>1, <2>1, <2>2 DEF Fits, Placed, Complete
    <3>2. Beside(w, r)
      BY <1>1, <2>1, SameLocks
    <3> QED BY <1>1, <1>3, <2>1, <2>4, <3>1, <3>2, GoRows DEF Quiet
  <2> QED BY <2>3, <2>4
<1> QED BY <1>2, <1>3 DEF Unlink

LEMMA AddLinkRows ==
  ASSUME LibraryInv, NEW w \in Workers, AddLink(w) PROVE Onto(w)
<1> DEFINE j == job[w]
<1>1. /\ Fits(j) /\ j \in LibraryJob /\ InLibrary(w) /\ j.op = "update_movie" /\ Settled(j)
      /\ UNCHANGED libraryVars /\ j.prepare = {} /\ j.pc = "link" /\ j.movie \in MovieId
  BY LibraryJobs DEF AddLink, Doing, Fits, Placed, Settled, LibraryJob
<1>2. CASE End(w)
  BY <1>1, <1>2, EndRows
<1>3. ASSUME NEW t \in ToLink(w),
             job' = [job EXCEPT ![w].added = @ \cup {LinkTo(w, t)}, ![w].pc = "share"]
      PROVE  Onto(w)
  <2> DEFINE link == [movie |-> j.movie, tag |-> t]
             r == [j EXCEPT !.added = @ \cup {link}, !.pc = "share"]
  <2>1. t \in Listing(j) /\ link \in Link /\ link.movie = j.movie /\ link.tag = t
    BY <1>1 DEF ToLink, Listed, Listing, Link, LibraryJob, Ask
  <2>2. Quiet(w, r)
    BY <1>1, <1>3 DEF Quiet, LibraryInv, LinkTo
  <2> HIDE DEF link
  <2>3. /\ r \in LibraryJob
        /\ r.op = j.op /\ r.pc = "share" /\ r.movie = j.movie /\ r.new = j.new /\ r.ask = j.ask
        /\ r.prepare = j.prepare /\ r.sync = j.sync /\ r.missing = j.missing
        /\ r.rows = j.rows /\ r.claims = j.claims /\ r.made = j.made
        /\ r.dropped = j.dropped /\ r.added = j.added \cup {link} /\ r.locks = j.locks
    BY <1>1, <2>1 DEF LibraryJob
  <2> HIDE DEF r
  <2>4. Core(r) /\ Prepared(r) /\ Linked(r) /\ Claimed(r)
    BY <1>1, <2>1, <2>3 DEF Fits, Core, Body, Prepared, Listing, Linked, Claimed
  <2>5. Settled([r EXCEPT !.locks = @ \cup {"share"}])
    <3> DEFINE x == [r EXCEPT !.locks = @ \cup {"share"}]
    <3>1. /\ x.op = "update_movie" /\ x.movie = j.movie /\ x.new = j.new
          /\ x.claims = j.claims /\ x.locks = j.locks \cup {"share"}
      BY <1>1, <2>3 DEF LibraryJob
    <3> HIDE DEF x
    <3>2. Settled(x)
      BY <1>1, <3>1 DEF Settled
    <3> QED BY <3>2 DEF x
  <2>6. Fits(r)
    BY <1>1, <2>3, <2>4, <2>5 DEF Fits, Placed, Complete
  <2>7. Beside(w, r)
    BY <1>1, <2>3, SameLocks
  <2> QED BY <2>2, <2>3, <2>6, <2>7, GoRows
<1> QED BY <1>2, <1>3 DEF AddLink

LEMMA ShareMovieRows ==
  ASSUME LibraryInv, NEW w \in Workers, ShareMovie(w) PROVE Onto(w)
<1> DEFINE j == job[w]
           r == [j EXCEPT !.locks = @ \cup {"share"}]
<1>1. /\ Fits(j) /\ j \in LibraryJob /\ InLibrary(w) /\ j.op = "update_movie" /\ Settled(r)
      /\ UNCHANGED libraryVars /\ j.prepare = {} /\ Linked(j) /\ j.pc = "share"
  BY LibraryJobs DEF ShareMovie, Doing, Fits, Placed
<1>2. CASE End(w)
  BY <1>1, <1>2, EndRows
<1>3. CASE title[j.movie] # None
  <2>1. /\ r \in LibraryJob
        /\ r.op = j.op /\ r.movie = j.movie /\ r.new = j.new /\ r.ask = j.ask
        /\ r.prepare = j.prepare /\ r.sync = j.sync /\ r.missing = j.missing
        /\ r.rows = j.rows /\ r.claims = j.claims /\ r.made = j.made
        /\ r.dropped = j.dropped /\ r.added = j.added /\ r.locks = j.locks \cup {"share"}
    BY <1>1 DEF LibraryJob
  <2>2. IF ToLink(w) # {} THEN job' = [job EXCEPT ![w] = [r EXCEPT !.pc = "link"]]
        ELSE Continue(w, [r EXCEPT !.sync = @ \ {First(@)}])
    BY <1>3 DEF ShareMovie
  <2> HIDE DEF r
  <2>3. Core(r) /\ Prepared(r) /\ Linked(r) /\ Claimed(r)
    BY <1>1, <1>3, <2>1 DEF Fits, Core, Body, Prepared, Listing, Linked, Claimed
  <2>4. Beside(w, r)
    BY <1>1, <2>1, MoreLocks DEF ShareMovie
  <2>5. CASE ToLink(w) = {}
    <3>1. \A t \in Listing(r) :
            KindOf[t] = First(r.sync) => [movie |-> r.movie, tag |-> t] \in r.added
      BY <1>1, <2>1, <2>5, NothingToLink DEF Listing
    <3>2. [r EXCEPT !.sync = @ \ {First(@)}] = [r EXCEPT !.rows = r.rows, !.sync = @ \ {First(@)}]
      BY <2>1 DEF LibraryJob
    <3> QED BY <1>1, <2>1, <2>2, <2>3, <2>4, <2>5, <3>1, <3>2, SyncDone
  <2>6. CASE ToLink(w) # {}
    <3> DEFINE x == [r EXCEPT !.pc = "link"]
    <3>1. /\ x \in LibraryJob
          /\ x.op = r.op /\ x.pc = "link" /\ x.movie = r.movie /\ x.new = r.new /\ x.ask = r.ask
          /\ x.prepare = r.prepare /\ x.sync = r.sync /\ x.missing = r.missing
          /\ x.rows = r.rows /\ x.claims = r.claims /\ x.made = r.made
          /\ x.dropped = r.dropped /\ x.added = r.added /\ x.locks = r.locks
      BY <2>1 DEF LibraryJob
    <3>2. Quiet(w, x)
      BY <1>1, <2>2, <2>6 DEF Quiet
    <3> HIDE DEF x
    <3>3. Core(x) /\ Prepared(x) /\ Linked(x) /\ Claimed(x) /\ Settled(x)
      BY <1>1, <2>3, <3>1 DEF Core, Body, Prepared, Listing, Linked, Claimed, Settled
    <3>4. Fits(x)
      BY <1>1, <2>1, <3>1, <3>3 DEF Fits, Placed, Complete
    <3>5. Beside(w, x)
      BY <2>4, <3>1 DEF Beside, Apart
    <3> QED BY <3>1, <3>2, <3>4, <3>5, GoRows
  <2> QED BY <2>5, <2>6
<1> QED BY <1>2, <1>3 DEF ShareMovie
-----------------------------------------------------------------------------
(* delete_movie *)

\* A deletion goes on and has not locked anything new.
LEMMA DeletionGoes ==
  ASSUME LibraryInv, NEW w \in Workers, InLibrary(w), job[w].op = "delete_movie",
         NEW r \in LibraryJob, Quiet(w, r), r.op = "delete_movie", r.movie = job[w].movie,
         r.new = job[w].new, r.ask = job[w].ask, r.prepare = job[w].prepare,
         r.sync = job[w].sync, r.made = job[w].made, r.added = job[w].added,
         r.missing = job[w].missing, r.claims = job[w].claims, r.locks = job[w].locks,
         r.pc \in {"unlink", "drop"}, \A l \in r.rows \cup r.dropped : l.movie = r.movie
  PROVE  Onto(w)
<1>1. Fits(job[w])
  BY LibraryJobs
<1>2. Core(r) /\ Prepared(r) /\ Linked(r) /\ Claimed(r)
  BY <1>1 DEF Fits, Core, Body, Prepared, Listing, Linked, Claimed
<1>3. Fits(r)
  BY <1>1, <1>2 DEF Fits, Core, Body, Placed, Complete
<1> QED BY <1>3, SameLocks, GoRows

LEMMA LoadLinksRows ==
  ASSUME LibraryInv, NEW w \in Workers, LoadLinks(w) PROVE Onto(w)
<1> DEFINE j == job[w]
           seen == {l \in links : l.movie = j.movie}
           label == IF seen = {} THEN "drop" ELSE "unlink"
           r == [j EXCEPT !.rows = seen, !.pc = label]
<1>1. /\ Fits(j) /\ j \in LibraryJob /\ InLibrary(w) /\ j.op = "delete_movie"
      /\ UNCHANGED libraryVars
  BY LibraryJobs DEF LoadLinks, Doing
<1>2. seen \subseteq Link /\ label \in {"drop", "unlink"} /\ \A l \in seen : l.movie = j.movie
  BY DEF LibraryInv, LibraryTypeOK
<1>3. Quiet(w, r)
  BY <1>1 DEF LoadLinks, Quiet, LibraryInv
<1> HIDE DEF seen, label
<1>4. /\ r \in LibraryJob
      /\ r.op = j.op /\ r.pc = label /\ r.movie = j.movie /\ r.new = j.new /\ r.ask = j.ask
      /\ r.prepare = j.prepare /\ r.sync = j.sync /\ r.missing = j.missing
      /\ r.rows = seen /\ r.claims = j.claims /\ r.made = j.made
      /\ r.dropped = j.dropped /\ r.added = j.added /\ r.locks = j.locks
  BY <1>1, <1>2 DEF LibraryJob
<1> HIDE DEF r
<1>5. \A l \in r.rows \cup r.dropped : l.movie = r.movie
  BY <1>1, <1>2, <1>4 DEF Fits, Linked
<1> QED BY <1>1, <1>2, <1>3, <1>4, <1>5, DeletionGoes

LEMMA DropLinksRows ==
  ASSUME LibraryInv, NEW w \in Workers, DropLinks(w) PROVE Onto(w)
<1> DEFINE j == job[w]
<1>1. /\ Fits(j) /\ j \in LibraryJob /\ InLibrary(w) /\ j.op = "delete_movie"
      /\ UNCHANGED libraryVars
  BY LibraryJobs DEF DropLinks, Doing
<1>2. CASE End(w)
  BY <1>1, <1>2, EndRows
<1>3. ASSUME NEW l \in j.rows,
             job' = [job EXCEPT ![w].rows = @ \ {l}, ![w].dropped = @ \cup ({l} \cap links),
                                ![w].pc = IF j.rows = {l} THEN "drop" ELSE "unlink"]
      PROVE  Onto(w)
  <2> DEFINE label == IF j.rows = {l} THEN "drop" ELSE "unlink"
             r == [j EXCEPT !.rows = @ \ {l}, !.dropped = @ \cup ({l} \cap links), !.pc = label]
  <2>1. Quiet(w, r)
    BY <1>1, <1>3 DEF Quiet, LibraryInv
  <2>2. label \in {"drop", "unlink"}
    OBVIOUS
  <2> HIDE DEF label
  <2>3. /\ r \in LibraryJob
        /\ r.op = j.op /\ r.pc = label /\ r.movie = j.movie /\ r.new = j.new /\ r.ask = j.ask
        /\ r.prepare = j.prepare /\ r.sync = j.sync /\ r.missing = j.missing
        /\ r.rows = j.rows \ {l} /\ r.claims = j.claims /\ r.made = j.made
        /\ r.dropped = j.dropped \cup ({l} \cap links) /\ r.added = j.added /\ r.locks = j.locks
    BY <1>1, <2>2 DEF LibraryJob
  <2> HIDE DEF r
  <2>4. \A x \in r.rows \cup r.dropped : x.movie = r.movie
    BY <1>1, <2>3 DEF Fits, Linked
  <2> QED BY <1>1, <2>1, <2>2, <2>3, <2>4, DeletionGoes
<1> QED BY <1>2, <1>3 DEF DropLinks

LEMMA DropMovieRows ==
  ASSUME LibraryInv, NEW w \in Workers, DropMovie(w) PROVE Onto(w)
<1> DEFINE j == job[w]
<1>1. /\ Fits(j) /\ j \in LibraryJob /\ InLibrary(w) /\ j.op = "delete_movie"
      /\ UNCHANGED libraryVars /\ j.movie \in MovieId
  BY LibraryJobs DEF DropMovie, Doing, Fits, Placed, LibraryJob
<1>2. CASE End(w)
  BY <1>1, <1>2, EndRows
<1>3. CASE ~End(w)
  <2> DEFINE had == {title[j.movie]} \ {None}
             r == [j EXCEPT !.locks = {"key"}, !.pc = "commit", !.claims = had]
  <2>1. /\ \A l \in links : l.movie = j.movie => l \in j.dropped
        /\ Quiet(w, r) /\ Free(w, <<"key", j.movie>>)
    BY <1>1, <1>3 DEF DropMovie, Quiet, LibraryInv
  <2>2. had \subseteq Titles /\ had \subseteq {title[j.movie]}
    BY <1>1 DEF LibraryInv, LibraryTypeOK
  <2>3. \A t \in had, m \in MovieId : title[m] = t => m = j.movie
    BY <1>1 DEF LibraryInv, TitleOnce
  <2> HIDE DEF had
  <2>4. /\ r \in LibraryJob
        /\ r.op = j.op /\ r.pc = "commit" /\ r.movie = j.movie /\ r.new = j.new /\ r.ask = j.ask
        /\ r.prepare = j.prepare /\ r.sync = j.sync /\ r.missing = j.missing
        /\ r.rows = j.rows /\ r.claims = had /\ r.made = j.made
        /\ r.dropped = j.dropped /\ r.added = j.added /\ r.locks = {"key"}
    BY <1>1, <2>2 DEF LibraryJob
  <2> HIDE DEF r
  <2>5. Core(r) /\ Prepared(r) /\ Linked(r) /\ Claimed(r)
    BY <1>1, <2>3, <2>4 DEF Fits, Core, Body, Prepared, Listing, Linked, Claimed
  <2>6. Fits(r)
    BY <1>1, <2>1, <2>4, <2>5 DEF Fits, Core, Body, Placed, Complete
  <2>7. Beside(w, r)
    BY <1>1, <2>1, <2>2, <2>4, KeyIsExclusive
  <2> QED BY <2>1, <2>4, <2>6, <2>7, GoRows
<1> QED BY <1>2, <1>3
-----------------------------------------------------------------------------
(* create_movie: the new row *)

LEMMA InsertMovieRows ==
  ASSUME LibraryInv, NEW w \in Workers, InsertMovie(w) PROVE Onto(w)
<1> DEFINE j == job[w]
<1>1. /\ Fits(j) /\ j \in LibraryJob /\ InLibrary(w) /\ j.op = "create_movie"
      /\ j.pc = "insert_movie" /\ j.locks = {} /\ j.claims = {} /\ j.movie = 0
  BY LibraryJobs DEF InsertMovie, Doing, Fits, Placed, Claimed
<1>2. CASE Taken(j.new)
  BY <1>2, EndRows DEF InsertMovie
<1>3. CASE ~Taken(j.new)
  <2> DEFINE m == lastId + 1
             n == [j EXCEPT !.movie = m, !.claims = {j.new}, !.locks = {"key"}, !.sync = {}]
             r == Onward(n)
  <2>1. lastId' = m /\ Continue(w, n) /\ UNCHANGED <<title, tags, links>>
    BY <1>3 DEF InsertMovie
  <2>2. job' = [job EXCEPT ![w] = r]
    BY <2>1 DEF Continue
  <2>3. /\ IsFiniteSet(Inserting) /\ w \in Inserting
        /\ Cardinality(Inserting) \in Nat /\ Cardinality(Inserting) # 0
    BY <1>1, WorkersFinite, FS_Subset, FS_CardinalityType, FS_EmptySet DEF Inserting
  <2>4. m \in MovieId /\ lastId \in Nat /\ title[m] = None
    BY <2>3, LibraryConstantsOk DEF LibraryInv, LibraryTypeOK, MovieId
  <2>5. n \in LibraryJob
    BY <1>1, <2>4 DEF LibraryJob, Fits, Core, Body
  <2>6. /\ n.op = "create_movie" /\ n.movie = m /\ n.new = j.new /\ n.ask = j.ask
        /\ n.prepare = j.prepare /\ n.sync = {} /\ n.missing = j.missing
        /\ n.rows = j.rows /\ n.claims = {j.new} /\ n.made = j.made
        /\ n.dropped = j.dropped /\ n.added = j.added /\ n.locks = {"key"}
    BY <1>1 DEF LibraryJob
  <2> HIDE DEF n
  <2>7. Body(n) /\ Prepared(n) /\ Linked(n) /\ Claimed(n) /\ Settled(n)
    <3>1. Body(n) /\ Prepared(n) /\ Linked(n)
      BY <1>1, <2>5, <2>6 DEF Fits, Core, Body, Prepared, Listing, Linked
    <3>2. Claimed(n)
      BY <1>3, <2>6 DEF Claimed, Taken
    <3>3. Settled(n)
      BY <1>1, <2>4, <2>6 DEF Settled, MovieId, Fits, Core, Body
    <3> QED BY <3>1, <3>2, <3>3
  <2>8. /\ Body(r) /\ Prepared(r) /\ Linked(r) /\ Claimed(r) /\ Placed(r) /\ Complete(r)
        /\ r.pc # "insert_movie" /\ r.op = "create_movie" /\ r.movie = m
        /\ r.locks = {"key"} /\ r.claims = {j.new}
    BY <2>6, <2>7, OnwardBody
  <2> HIDE DEF r
  <2>9. \A v \in Workers : job'[v] = IF v = w THEN r ELSE job[v]
    BY <2>2 DEF LibraryInv
  <2>10. ASSUME NEW v \in Workers, InLibrary(v)'
         PROVE  LET x == job'[v] IN Body(x) /\ Prepared(x) /\ Linked(x) /\ Claimed(x)
                                    /\ Placed(x) /\ Complete(x) /\ x.movie <= lastId'
    <3>1. CASE v = w
      BY <2>1, <2>4, <2>8, <2>9, <3>1
    <3>2. CASE v # w
      <4>1. Fits(job[v]) /\ job[v] \in LibraryJob /\ job'[v] = job[v]
        BY <2>9, <2>10, <3>2, LibraryJobs DEF InLibrary
      <4> QED BY <2>1, <2>4, <4>1 DEF Fits, Core, LibraryJob, MovieId
    <3> QED BY <3>1, <3>2
  <2>11. \A v \in Workers : InLibrary(v)' => Fits(job[v])'
    BY <2>1, <2>10
       DEF Fits, Core, Body, Prepared, Linked, Claimed, Placed, Settled, Complete
  <2>12. \A v, x \in Workers : v # x /\ InLibrary(v)' /\ InLibrary(x)' => Apart(job'[v], job'[x])
    <3>1. Beside(w, r)
      <4> SUFFICES ASSUME NEW v \in Workers, v # w, InLibrary(v)
                   PROVE  Apart(job[v], r) /\ Apart(r, job[v])
        BY DEF Beside
      <4>1. j.new \notin job[v].claims
        BY FreeTitle DEF InsertMovie
      <4>2. job[v].movie # m
        BY <2>4, LibraryJobs DEF Fits, Core, LibraryJob, MovieId
      <4> QED BY <2>8, <4>1, <4>2 DEF Apart
    <3> QED BY <2>9, <3>1 DEF LibraryInv, InLibrary, Beside
  <2>13. lastId' + Cardinality(Inserting') <= MaxMovies
    <3>1. Inserting' = Inserting \ {w}
      BY <2>8, <2>9 DEF Inserting, InLibrary
    <3>2. Cardinality(Inserting') = Cardinality(Inserting) - 1
      BY <2>3, <3>1, FS_RemoveElement
    <3> QED BY <2>1, <2>3, <2>4, <3>2, LibraryConstantsOk DEF LibraryInv
  <2>14. job' \in [Workers -> Jobs]
    BY <2>2, <2>8 DEF Body, Jobs, LibraryInv
  <2>15. LibraryTypeOK' /\ NoDanglingLink' /\ TitleOnce'
    BY <2>1, <2>4 DEF LibraryInv, LibraryTypeOK, NoDanglingLink, TitleOnce, MovieId
  <2>16. \A x \in MovieId : title'[x] # None => x <= lastId'
    BY <2>1, <2>4 DEF LibraryInv, MovieId
  <2>17. LibraryInv'
    BY <2>11, <2>12, <2>13, <2>14, <2>15, <2>16 DEF LibraryInv, Apart
  <2> QED BY <2>8, <2>9, <2>17 DEF Body, Onto
<1> QED BY <1>2, <1>3
-----------------------------------------------------------------------------
(* The commit *)

\* What a transaction leaves of the links, and what it adds to them.
Kept(w) == links \ job[w].dropped
Added(w) == IF job[w].op = "create_movie" THEN AllLinks(w) ELSE job[w].added

LEMMA CommitFacts ==
  ASSUME LibraryInv, NEW w \in Workers, Commit(w)
  PROVE  LET j == job[w]
             m == j.movie
         IN  /\ j \in LibraryJob /\ Fits(j) /\ m \in MovieId /\ InLibrary(w)
             /\ j.prepare = {} /\ j.sync = {}
             /\ \A n \in MovieId : n # m => title'[n] = title[n]
             /\ j.op = "delete_movie" => title'[m] = None
             /\ j.op = "create_movie" =>
                  /\ j.dropped = {} /\ title[m] = None /\ title'[m] = j.new /\ j.new # None
                  /\ j.new \in j.claims
             /\ j.op = "update_movie" =>
                  \/ title'[m] = title[m]
                  \/ title'[m] = j.new /\ title[m] # None /\ j.new # None /\ j.new \in j.claims
             /\ title'[m] # title[m] => "key" \in j.locks
             /\ tags' = tags \cup j.made
             /\ links' = Kept(w) \cup Added(w)
             /\ job'[w] = Idle /\ \A v \in Workers : v # w => job'[v] = Without(v, j.dropped)
             /\ title' \in [MovieId -> Titles \cup {None}]
             /\ lastId' = lastId
<1> DEFINE j == job[w]
           m == j.movie
<1>1. j \in LibraryJob /\ Fits(j) /\ InLibrary(w) /\ j.pc = "commit"
  BY LibraryJobs DEF Commit, Doing
<1>2. m \in MovieId /\ (j.op # "delete_movie" => Settled(j)) /\ j.prepare = {} /\ j.sync = {}
  BY <1>1 DEF Fits, Placed, Complete, Settled, LibraryJob
<1>3. /\ title' = IF j.op = "delete_movie" THEN [title EXCEPT ![m] = None]
                  ELSE IF j.new # None THEN [title EXCEPT ![m] = j.new]
                  ELSE title
      /\ tags' = tags \cup j.made /\ links' = Kept(w) \cup Added(w) /\ lastId' = lastId
      /\ job'[w] = Idle /\ \A v \in Workers : v # w => job'[v] = Without(v, j.dropped)
  BY DEF Commit, Kept, Added
<1>4. title \in [MovieId -> Titles \cup {None}] /\ job \in [Workers -> Jobs]
  BY DEF LibraryInv, LibraryTypeOK
<1>5. CASE j.op = "delete_movie"
  BY <1>1, <1>2, <1>3, <1>4, <1>5 DEF Fits, Complete
<1>6. CASE j.op = "create_movie"
  <2>1. /\ j.dropped = {} /\ j.new # None /\ j.new \in Titles
        /\ title[m] = None /\ j.locks = {"key"} /\ j.new \in j.claims
    BY <1>1, <1>2, <1>6 DEF Fits, Core, Body, Settled, LibraryJob
  <2> QED BY <1>1, <1>2, <1>3, <1>4, <1>6, <2>1
<1>7. CASE j.op = "update_movie"
  <2>1. CASE j.new = None
    BY <1>1, <1>2, <1>3, <1>4, <1>7, <2>1
  <2>2. CASE j.new # None
    <3>1. j.locks \cap {"row", "key"} # {} /\ title[m] # None /\ j.new \in Titles
      BY <1>1, <1>7, <2>2 DEF Fits, Complete, Claimed, LibraryJob
    <3>2. j.new \in j.claims \/ title[m] = j.new
      BY <1>2, <1>7, <2>2, <3>1 DEF Settled
    <3>3. j.new \in j.claims => "key" \in j.locks
      BY <1>1 DEF Fits, Claimed
    <3> QED BY <1>1, <1>2, <1>3, <1>4, <1>7, <2>2, <3>1, <3>2, <3>3
  <2> QED BY <2>1, <2>2
<1> QED BY <1>1, <1>5, <1>6, <1>7 DEF LibraryJob

\* The links that it adds are of its movie and have the tags that it lists.
LEMMA AddedLinks ==
  ASSUME LibraryInv, NEW w \in Workers, Commit(w), NEW l \in Added(w)
  PROVE  /\ l \in Link /\ l.movie = job[w].movie /\ l.tag \in Listing(job[w])
         /\ l.tag \in tags'
         /\ job[w].op # "delete_movie" /\ title'[l.movie] # None
         /\ job[w].op = "create_movie" => job[w].locks = {"key"}
         /\ job[w].op = "update_movie" => "share" \in job[w].locks
<1> DEFINE j == job[w]
<1>1. /\ j \in LibraryJob /\ Fits(j) /\ j.movie \in MovieId /\ j.pc = "commit" /\ InLibrary(w)
      /\ j.prepare = {} /\ tags' = tags \cup j.made
  BY CommitFacts DEF Commit, Doing
<1>2. l \in Link /\ l.movie = j.movie /\ l.tag \in Listing(j)
  <2>1. CASE j.op = "create_movie"
    <3>1. PICK t \in Listing(j) : l = [movie |-> j.movie, tag |-> t]
      BY <2>1 DEF Added, AllLinks, LinkTo, Listing
    <3>2. t \in Tags
      BY <1>1 DEF Listing, LibraryJob, Ask
    <3> QED BY <1>1, <3>1, <3>2 DEF Link
  <2>2. CASE j.op # "create_movie"
    BY <1>1, <2>2 DEF Added, Fits, Linked, LibraryJob
  <2> QED BY <2>1, <2>2
<1>3. j.op # "delete_movie"
  BY <1>1 DEF Added, Fits, Core, Body
<1>4. l.tag \in tags'
  BY <1>1, <1>2 DEF Fits, Prepared
<1>5. Settled(j) /\ (j.op = "update_movie" => j.added # {})
  BY <1>1, <1>3 DEF Fits, Placed, Added
<1>6. title'[j.movie] # None
  <2>1. j.op = "update_movie" => title[j.movie] # None
    BY <1>1, <1>5 DEF Fits, Claimed, Settled
  <2> QED BY <1>1, <1>3, <2>1, CommitFacts DEF LibraryJob
<1> QED BY <1>2, <1>3, <1>4, <1>5, <1>6 DEF Settled

\* A request that has fewer links to delete is the same otherwise.
LEMMA FewerRows ==
  ASSUME NEW x \in LibraryJob, Fits(x), x.op = "update_movie", NEW gone
  PROVE  LET y == [x EXCEPT !.rows = @ \ gone]
         IN  /\ y \in LibraryJob /\ Fits(y) /\ y.op = x.op /\ y.pc = x.pc
             /\ y.movie = x.movie /\ y.locks = x.locks /\ y.claims = x.claims
<1> DEFINE y == [x EXCEPT !.rows = @ \ gone]
<1>1. /\ y \in LibraryJob
      /\ y.op = x.op /\ y.pc = x.pc /\ y.movie = x.movie /\ y.new = x.new /\ y.ask = x.ask
      /\ y.prepare = x.prepare /\ y.sync = x.sync /\ y.missing = x.missing
      /\ y.rows = x.rows \ gone /\ y.claims = x.claims /\ y.made = x.made
      /\ y.dropped = x.dropped /\ y.added = x.added /\ y.locks = x.locks
  BY DEF LibraryJob
<1> HIDE DEF y
<1>2. Core(y) /\ Prepared(y) /\ Linked(y) /\ Claimed(y) /\ Complete(y)
  BY <1>1 DEF Fits, Core, Body, Prepared, Listing, Linked, Claimed, Complete
<1>3. ASSUME NEW r, NEW s, Settled(r), s.op = r.op, s.movie = r.movie, s.new = r.new,
             s.added = r.added, s.locks = r.locks, s.claims = r.claims, s.sync = r.sync
      PROVE  Settled(s)
  BY <1>3 DEF Settled
<1>4. CASE x.pc = "update_title"
  <2> DEFINE r == [x EXCEPT !.claims = @ \cup {x.new}]
             s == [y EXCEPT !.claims = @ \cup {y.new}]
  <2>1. /\ r.op = x.op /\ r.movie = x.movie /\ r.new = x.new /\ r.added = x.added
        /\ r.locks = x.locks /\ r.claims = x.claims \cup {x.new} /\ r.sync = x.sync
    BY DEF LibraryJob
  <2>2. /\ s.op = y.op /\ s.movie = y.movie /\ s.new = y.new /\ s.added = y.added
        /\ s.locks = y.locks /\ s.claims = y.claims \cup {y.new} /\ s.sync = y.sync
    BY <1>1 DEF LibraryJob
  <2>3. Settled(r)
    BY <1>4 DEF Fits, Placed
  <2> HIDE DEF r, s
  <2>4. Settled(s)
    BY <1>1, <1>3, <2>1, <2>2, <2>3
  <2>5. Placed(y)
    BY <1>1, <1>4, <2>4 DEF Fits, Placed, s
  <2> QED BY <1>1, <1>2, <2>5 DEF Fits, y
<1>5. CASE x.pc = "share"
  <2> DEFINE r == [x EXCEPT !.locks = @ \cup {"share"}]
             s == [y EXCEPT !.locks = @ \cup {"share"}]
  <2>1. /\ r.op = x.op /\ r.movie = x.movie /\ r.new = x.new /\ r.added = x.added
        /\ r.locks = x.locks \cup {"share"} /\ r.claims = x.claims /\ r.sync = x.sync
    BY DEF LibraryJob
  <2>2. /\ s.op = y.op /\ s.movie = y.movie /\ s.new = y.new /\ s.added = y.added
        /\ s.locks = y.locks \cup {"share"} /\ s.claims = y.claims /\ s.sync = y.sync
    BY <1>1 DEF LibraryJob
  <2>3. Settled(r)
    BY <1>5 DEF Fits, Placed
  <2> HIDE DEF r, s
  <2>4. Settled(s)
    BY <1>1, <1>3, <2>1, <2>2, <2>3
  <2>5. Placed(y)
    BY <1>1, <1>5, <2>4 DEF Fits, Placed, s
  <2> QED BY <1>1, <1>2, <2>5 DEF Fits, y
<1>6. CASE x.pc \notin {"update_title", "share"}
  <2>1. Settled(x) => Settled(y)
    BY <1>1, <1>3
  <2>2. Placed(y)
    BY <1>1, <1>6, <2>1 DEF Fits, Placed
  <2> QED BY <1>1, <1>2, <2>2 DEF Fits, y
<1> QED BY <1>4, <1>5, <1>6

\* The request of v after the commit of another one.
LEMMA OthersGoOn ==
  ASSUME LibraryInv, NEW w \in Workers, Commit(w), NEW v \in Workers, v # w, InLibrary(v)
  PROVE  /\ job'[v] \in LibraryJob /\ job'[v].op = job[v].op /\ job'[v].pc = job[v].pc
         /\ job'[v].movie = job[v].movie /\ job'[v].locks = job[v].locks
         /\ job'[v].claims = job[v].claims
         /\ \E x : x = job'[v] /\ Fits(x)
<1>1. job'[v] = Without(v, job[w].dropped) /\ job[v] \in LibraryJob /\ Fits(job[v])
  BY CommitFacts, LibraryJobs
<1> QED BY <1>1, FewerRows DEF Without

\* What is true of a request beside it stays so: where the title of its movie changes it
\* has no lock.
LEMMA CommitKeepsOthers ==
  ASSUME LibraryInv, NEW w \in Workers, Commit(w), NEW x \in LibraryJob, Fits(x),
         Apart(job[w], x), Apart(x, job[w])
  PROVE  Fits(x)'
<1> DEFINE j == job[w]
           m == j.movie
<1>1. Fits(x) /\ x \in LibraryJob
  OBVIOUS
<1>2. Apart(j, x) /\ Apart(x, j)
  OBVIOUS
<1>3. /\ m \in MovieId /\ \A n \in MovieId : n # m => title'[n] = title[n]
      /\ title'[m] # title[m] => "key" \in j.locks
      /\ tags \subseteq tags' /\ lastId' = lastId
  BY CommitFacts
<1>4. x.movie = m /\ title'[m] # title[m] => x.locks = {} /\ x.claims = {}
  BY <1>1, <1>2, <1>3 DEF Apart, Fits, Claimed
<1>5. Core(x)' /\ Prepared(x)' /\ Linked(x)'
  BY <1>1, <1>3 DEF Fits, Core, Body, Prepared, Linked
<1>6. Claimed(x)'
  <2>1. ASSUME NEW t \in x.claims, NEW n \in MovieId, title'[n] = t PROVE n = x.movie
    <3>1. CASE title'[n] = title[n]
      BY <1>1, <2>1, <3>1 DEF Fits, Claimed
    <3>2. CASE title'[n] # title[n]
      <4>1. n = m /\ t # None /\ t \notin j.claims
        BY <1>1, <1>2, <1>3, <2>1, <3>2, LibraryConstantsOk DEF Apart, LibraryJob
      <4>2. title'[m] = None \/ title'[m] \in j.claims
        BY <3>2, <4>1, CommitFacts DEF LibraryJob
      <4> QED BY <2>1, <4>1, <4>2
    <3> QED BY <3>1, <3>2
  <2>2. x.op = "update_movie" /\ x.locks # {} => title'[x.movie] # None
    <3> SUFFICES ASSUME x.op = "update_movie", x.locks # {} PROVE title'[x.movie] # None
      OBVIOUS
    <3>1. title[x.movie] # None /\ x.movie \in MovieId
      <4>1. x.movie # 0
        BY <1>1 DEF Fits, Placed, Settled, LibraryJob
      <4> QED BY <1>1, <4>1 DEF Fits, Claimed, LibraryJob
    <3> QED BY <1>3, <1>4, <3>1
  <2> QED BY <1>1, <2>1, <2>2 DEF Fits, Claimed
<1>7. ASSUME NEW y, Settled(y), y.movie = x.movie, y.op = x.op, y.new = x.new, x.movie \in MovieId,
             y.op = "create_movie" => x.locks # {},
             y.locks \cap {"row", "key"} # {} => x.locks # {}
      PROVE  Settled(y)'
  BY <1>3, <1>4, <1>7 DEF Settled
<1>8. Placed(x)'
  <2>1. x.pc # "insert_movie" => x.movie \in MovieId
    BY <1>1 DEF Fits, Placed, Settled, LibraryJob
  <2>2. CASE x.pc = "update_title"
    <3> DEFINE y == [x EXCEPT !.claims = @ \cup {x.new}]
    <3>1. y.movie = x.movie /\ y.op = x.op /\ y.new = x.new /\ y.locks = x.locks
      BY <1>1 DEF LibraryJob
    <3>2. Settled(y) /\ x.op = "update_movie"
      BY <1>1, <2>2 DEF Fits, Placed
    <3> HIDE DEF y
    <3>3. Settled(y)'
      BY <1>7, <2>1, <2>2, <3>1, <3>2
    <3> QED BY <1>1, <1>3, <2>2, <3>3 DEF Fits, Placed, y
  <2>3. CASE x.pc = "share"
    <3> DEFINE y == [x EXCEPT !.locks = @ \cup {"share"}]
    <3>1. y.movie = x.movie /\ y.op = x.op /\ y.new = x.new /\ y.locks = x.locks \cup {"share"}
      BY <1>1 DEF LibraryJob
    <3>2. Settled(y) /\ x.op = "update_movie"
      BY <1>1, <2>3 DEF Fits, Placed
    <3> HIDE DEF y
    <3>3. Settled(y)'
      BY <1>7, <2>1, <2>3, <3>1, <3>2
    <3> QED BY <1>1, <1>3, <2>3, <3>3 DEF Fits, Placed, y
  <2>4. CASE x.pc \notin {"update_title", "share"}
    <3>1. x.op # "delete_movie" /\ x.pc # "insert_movie" => Settled(x)'
      <4> SUFFICES ASSUME x.op # "delete_movie", x.pc # "insert_movie" PROVE Settled(x)'
        OBVIOUS
      <4>1. Settled(x)
        BY <1>1, <2>4 DEF Fits, Placed
      <4> QED BY <1>7, <2>1, <4>1 DEF Settled
    <3> QED BY <1>1, <1>3, <2>4, <3>1 DEF Fits, Placed
  <2> QED BY <2>2, <2>3, <2>4
<1>9. Complete(x)'
  <2>1. ASSUME x.pc = "commit", x.op = "delete_movie", NEW l \in links', l.movie = x.movie
        PROVE  l \in x.dropped
    <3>1. "key" \in x.locks /\ (l \in links => l \in x.dropped)
      BY <1>1, <2>1 DEF Fits, Complete
    <3>2. CASE l \in Kept(w)
      BY <3>1, <3>2 DEF Kept
    <3>3. CASE l \in Added(w)
      <4>1. l.movie = m /\ j.locks # {}
        BY <3>3, AddedLinks, CommitFacts DEF LibraryJob
      <4> QED BY <1>2, <2>1, <3>1, <4>1 DEF Apart
    <3> QED BY <2>1, <3>2, <3>3, CommitFacts
  <2> QED BY <1>1, <2>1 DEF Fits, Complete
<1> QED BY <1>5, <1>6, <1>8, <1>9 DEF Fits

LEMMA CommitRows ==
  ASSUME LibraryInv, NEW w \in Workers, Commit(w) PROVE Onto(w)
<1> DEFINE j == job[w]
           m == j.movie
<1>1. /\ j \in LibraryJob /\ Fits(j) /\ m \in MovieId /\ InLibrary(w)
      /\ \A n \in MovieId : n # m => title'[n] = title[n]
      /\ job'[w] = Idle /\ \A v \in Workers : v # w => job'[v] = Without(v, j.dropped)
      /\ title' \in [MovieId -> Titles \cup {None}] /\ lastId' = lastId
      /\ tags' = tags \cup j.made /\ links' = Kept(w) \cup Added(w)
  BY CommitFacts
<1>2. ASSUME NEW v \in Workers, InLibrary(v)'
      PROVE  /\ v # w /\ InLibrary(v) /\ job'[v].pc = job[v].pc /\ job'[v].movie = job[v].movie
             /\ job'[v].locks = job[v].locks /\ job'[v].claims = job[v].claims
  <2>1. v # w
    <3>1. Idle.op = "none"
      BY DEF Idle
    <3>2. job'[v].op \in {"create_movie", "update_movie", "delete_movie"}
      BY <1>2 DEF InLibrary
    <3> QED BY <1>1, <3>1, <3>2
  <2>2. InLibrary(v)
    BY <1>1, <1>2, <2>1 DEF InLibrary, Without
  <2> QED BY <2>1, <2>2, OthersGoOn
<1>3. \A v \in Workers : InLibrary(v)' => Fits(job[v])'
  <2> SUFFICES ASSUME NEW v \in Workers, InLibrary(v)' PROVE Fits(job[v])'
    OBVIOUS
  <2>1. v # w /\ InLibrary(v)
    BY <1>2
  <2>2. PICK x : x = job'[v] /\ Fits(x)
    BY <2>1, OthersGoOn
  <2>3. /\ x \in LibraryJob /\ x.movie = job[v].movie /\ x.locks = job[v].locks
        /\ x.claims = job[v].claims
    BY <2>1, <2>2, OthersGoOn
  <2>4. Apart(j, job[v]) /\ Apart(job[v], j)
    BY <1>1, <2>1 DEF LibraryInv
  <2>5. Apart(j, x) /\ Apart(x, j)
    BY <2>3, <2>4 DEF Apart
  <2>6. Fits(x)'
    BY <2>2, <2>3, <2>5, CommitKeepsOthers
  <2> QED BY <2>2, <2>6 DEF Fits, Core, Body, Prepared, Linked, Claimed, Placed, Settled, Complete
<1>4. \A v, x \in Workers : v # x /\ InLibrary(v)' /\ InLibrary(x)' => Apart(job'[v], job'[x])
  BY <1>2 DEF LibraryInv, Apart
<1>5. LibraryTypeOK'
  <2>1. tags' \subseteq Tags
    BY <1>1 DEF LibraryInv, LibraryTypeOK, LibraryJob
  <2>2. links' \subseteq Link
    BY <1>1, AddedLinks DEF Kept, LibraryInv, LibraryTypeOK
  <2> QED BY <1>1, <2>1, <2>2 DEF LibraryInv, LibraryTypeOK
<1>6. job' \in [Workers -> Jobs]
  <2>1. \A v \in Workers : job'[v] \in Jobs
    <3> SUFFICES ASSUME NEW v \in Workers PROVE job'[v] \in Jobs
      OBVIOUS
    <3>1. CASE v # w /\ InLibrary(v)
      BY <3>1, OthersGoOn DEF Jobs
    <3>2. CASE v # w /\ ~InLibrary(v)
      BY <1>1, <3>2 DEF Without, InLibrary, LibraryInv
    <3> QED BY <1>1, <3>1, <3>2 DEF Jobs
  <2> QED BY <2>1 DEF Commit
<1>7. NoDanglingLink'
  <2> SUFFICES ASSUME NEW l \in links' PROVE title'[l.movie] # None /\ l.tag \in tags'
    BY DEF NoDanglingLink
  <2>1. CASE l \in Added(w)
    BY <2>1, AddedLinks
  <2>2. CASE l \in Kept(w)
    <3>1. l \in links /\ l \notin j.dropped /\ l.movie \in MovieId
      BY <2>2 DEF Kept, LibraryInv, LibraryTypeOK, Link
    <3>2. title[l.movie] # None /\ l.tag \in tags
      BY <3>1 DEF LibraryInv, NoDanglingLink
    <3>3. l.movie = m => j.op # "delete_movie"
      BY <1>1, <3>1 DEF Fits, Complete, Commit, Doing
    <3>4. l.movie = m => title'[m] # None
      BY <1>1, <3>2, <3>3, CommitFacts DEF LibraryJob
    <3> QED BY <1>1, <3>1, <3>2, <3>4
  <2> QED BY <1>1, <2>1, <2>2
<1>8. TitleOnce'
  <2> SUFFICES ASSUME NEW a \in MovieId, NEW b \in MovieId, title'[a] # None,
                      title'[a] = title'[b], a # b
               PROVE  FALSE
    BY DEF TitleOnce
  <2>1. ASSUME NEW n \in MovieId, n # m, title'[m] = title'[n], title'[m] # None PROVE FALSE
    <3>1. title'[n] = title[n]
      BY <1>1, <2>1
    <3>2. CASE title'[m] = title[m]
      BY <1>1, <2>1, <3>1, <3>2 DEF LibraryInv, TitleOnce
    <3>3. CASE title'[m] # title[m]
      <4>1. title'[m] \in j.claims
        BY <2>1, <3>3, CommitFacts DEF LibraryJob
      <4> QED BY <1>1, <2>1, <3>1, <4>1 DEF Fits, Claimed
    <3> QED BY <3>2, <3>3
  <2>2. CASE a # m /\ b # m
    BY <1>1, <2>2 DEF LibraryInv, TitleOnce
  <2> QED BY <1>1, <2>1, <2>2
<1>9. \A n \in MovieId : title'[n] # None => n <= lastId'
  BY <1>1 DEF LibraryInv, Fits, Core
<1>10. lastId' + Cardinality(Inserting') <= MaxMovies
  <2>1. Inserting' \subseteq Inserting
    BY <1>2 DEF Inserting
  <2>2. IsFiniteSet(Inserting)
    BY WorkersFinite, FS_Subset DEF Inserting
  <2>3. /\ Cardinality(Inserting') <= Cardinality(Inserting)
        /\ Cardinality(Inserting') \in Nat /\ Cardinality(Inserting) \in Nat
    BY <2>1, <2>2, FS_Subset, FS_CardinalityType
  <2> QED BY <1>1, <2>3, LibraryConstantsOk DEF LibraryInv, LibraryTypeOK
<1>11. LibraryInv'
  BY <1>3, <1>4, <1>5, <1>6, <1>7, <1>8, <1>9, <1>10 DEF LibraryInv, Apart
<1>12. \A v \in Workers : v # w => job'[v] = job[v] \/ job'[v] \in LibraryJob
  BY <1>1, OthersGoOn DEF Without, InLibrary
<1> QED BY <1>1, <1>11, <1>12 DEF Onto

\* Every step of a request of the catalogue.
LEMMA LibraryRows ==
  ASSUME LibraryInv, NEW w \in Workers, LibraryArrives(w) \/ LibraryStep(w) \/ Abandon(w)
  PROVE  Onto(w)
<1>1. ASSUME NEW t \in Titles, NEW a \in Asks, CreateMovie(w, t, a) PROVE Onto(w)
  BY <1>1, CreateMovieRows
<1>2. ASSUME NEW m \in MovieId, NEW t \in Titles \cup {None}, NEW fields \in BOOLEAN, NEW a \in Asks,
             UpdateMovie(w, m, t, fields, a)
      PROVE  Onto(w)
  BY <1>2, UpdateMovieRows
<1>3. ASSUME NEW m \in MovieId, DeleteMovie(w, m) PROVE Onto(w)
  BY <1>3, DeleteMovieRows
<1>4. CASE LibraryStep(w) \/ Abandon(w)
  BY <1>4, InsertMovieRows, UpdateRowRows, UpdateTitleRows, ValidateIdsRows, FindNamesRows,
     InsertNamesRows, FindLinksRows, UnlinkRows, AddLinkRows, ShareMovieRows, LoadLinksRows,
     DropLinksRows, DropMovieRows, CommitRows, EndRows
     DEF LibraryStep, DeadlockDetected, Abandon
<1> QED BY <1>1, <1>2, <1>3, <1>4 DEF LibraryArrives

-----------------------------------------------------------------------------
(* The profiles *)

\* A request about a profile has its file in the store before it goes on, and writes to
\* a profile that is there.
ProfileFits(j) ==
  /\ j \in ProfileJob
  /\ j.pc = "put_file" => j.op = "upload_my_avatar"
  /\ j.op = "upload_my_avatar" /\ j.pc # "put_file" => [id |-> j.file, owner |-> j.user] \in bucket
  /\ j.op = "update_my_profile" => j.info \in Infos
  /\ j.pc = "write" => profiles[j.user] # NoProfile /\ j.op # "get_my_profile"

ProfileInv ==
  /\ ProfileTypeOK
  /\ AvatarIsStored
  /\ \A w \in Workers : InProfiles(w) => ProfileFits(job[w])

KeepsEdits ==
  \A u \in Users : profiles[u] # NoProfile =>
    /\ profiles'[u].avatar = profiles[u].avatar \/ profiles'[u].info = profiles[u].info
    /\ profiles'[u].avatar # profiles[u].avatar =>
         \E w \in Workers : job[w].op = "upload_my_avatar" /\ job[w].file = profiles'[u].avatar

LEMMA ProfileJobs ==
  ASSUME LibraryInv, ProfileInv
  PROVE  /\ job \in [Workers -> Jobs]
         /\ \A w \in Workers : InProfiles(w) => ProfileFits(job[w]) /\ job[w] \in ProfileJob
BY DEF LibraryInv, ProfileInv, ProfileFits

\* The catalogue does not see the profiles ...
LEMMA ProfilesBeside ==
  ASSUME LibraryInv, NEW w \in Workers, NEW j \in ProfileJob \cup {Idle}, Quiet(w, j)
  PROVE  LibraryInv'
<1>1. j \in Jobs /\ j.op \notin {"create_movie", "update_movie", "delete_movie"}
  BY DEF Jobs, ProfileJob, ProfileOps, Idle
<1>2. Inserting' \subseteq Inserting
  BY <1>1 DEF Inserting, InLibrary, Quiet, LibraryInv
<1> QED BY <1>1, <1>2, QuietRows

\* ... and a step of a profile that takes no file and no row away keeps what the others know.
LEMMA ProfileMoves ==
  ASSUME LibraryInv, ProfileInv, NEW w \in Workers, NEW j \in Jobs, job' = [job EXCEPT ![w] = j],
         j.op \in ProfileOps =>
           ProfileFits(j) \/ (/\ j \in ProfileJob
                              /\ j.pc # "put_file"
                              /\ j.op = "update_my_profile" => j.info \in Infos
                              /\ j.op = "upload_my_avatar" =>
                                   [id |-> j.file, owner |-> j.user] \in bucket'
                              /\ j.pc = "write" => /\ profiles'[j.user] # NoProfile
                                                   /\ j.op # "get_my_profile"),
         bucket \subseteq bucket', \A u \in Users : profiles[u] # NoProfile => profiles'[u] # NoProfile
  PROVE  \A v \in Workers : InProfiles(v)' => ProfileFits(job[v])'
<1>1. \A v \in Workers : job'[v] = IF v = w THEN j ELSE job[v]
  BY DEF LibraryInv
<1> SUFFICES ASSUME NEW v \in Workers, InProfiles(v)' PROVE ProfileFits(job[v])'
  OBVIOUS
<1>2. CASE v = w
  BY <1>1, <1>2 DEF InProfiles, ProfileFits, ProfileJob
<1>3. CASE v # w
  <2>1. ProfileFits(job[v]) /\ job'[v] = job[v]
    BY <1>1, <1>3 DEF InProfiles, ProfileInv
  <2> QED BY <2>1 DEF ProfileFits, ProfileJob
<1> QED BY <1>2, <1>3

LEMMA OthersKeepProfiles ==
  ASSUME LibraryInv, ProfileInv, NEW w \in Workers, NEW j \in Jobs, job' = [job EXCEPT ![w] = j],
         j.op \in ProfileOps => ProfileFits(j), UNCHANGED profileVars
  PROVE  ProfileInv' /\ KeepsEdits
<1>1. ProfileTypeOK' /\ AvatarIsStored'
  BY DEF ProfileInv, ProfileTypeOK, AvatarIsStored, profileVars
<1>2. \A v \in Workers : InProfiles(v)' => ProfileFits(job[v])'
  BY ProfileMoves DEF profileVars
<1>3. KeepsEdits
  BY DEF KeepsEdits, profileVars
<1> QED BY <1>1, <1>2, <1>3 DEF ProfileInv

ProfileStepOK == LibraryInv' /\ ProfileInv' /\ KeepsEdits

\* A step of a profile that writes nothing.
LEMMA ProfileGoes ==
  ASSUME LibraryInv, ProfileInv, NEW w \in Workers, NEW j, job' = [job EXCEPT ![w] = j],
         j = Idle \/ ProfileFits(j), UNCHANGED <<libraryVars, profileVars>>
  PROVE  ProfileStepOK
<1>1. j \in ProfileJob \cup {Idle} /\ j \in Jobs /\ (j.op \in ProfileOps => ProfileFits(j))
  BY DEF ProfileFits, Jobs, Idle, ProfileOps
<1>2. LibraryInv'
  BY <1>1, ProfilesBeside DEF Quiet
<1>3. ProfileInv' /\ KeepsEdits
  BY <1>1, OthersKeepProfiles
<1> QED BY <1>2, <1>3 DEF ProfileStepOK

LEMMA OpenRows ==
  ASSUME LibraryInv, ProfileInv, NEW w \in Workers, NEW op \in ProfileOps,
         NEW label \in {"put_file", "find"}, NEW u \in Users, NEW info \in Infos \cup {"unset"},
         Open(w, op, label, u, info), UNCHANGED libraryVars,
         op = "upload_my_avatar" <=> label = "put_file",
         op = "update_my_profile" => info \in Infos
  PROVE  ProfileStepOK
<1> DEFINE r == [op |-> op, pc |-> label, user |-> u, info |-> info, file |-> 0, seen |-> Blank]
<1>1. r \in ProfileJob
  BY DEF ProfileJob, Blank, Profile
<1>2. ProfileFits(r)
  BY <1>1 DEF ProfileFits
<1> QED BY <1>2, ProfileGoes DEF Open

LEMMA PutFileRows ==
  ASSUME LibraryInv, ProfileInv, NEW w \in Workers, PutFile(w), UNCHANGED libraryVars
  PROVE  ProfileStepOK
<1> DEFINE j == job[w]
<1>1. j \in ProfileJob /\ ProfileFits(j) /\ j.op = "upload_my_avatar" /\ j.user \in Users
      /\ UNCHANGED profiles /\ job \in [Workers -> Jobs] /\ bucket \subseteq [id : FileId, owner : Users]
  BY ProfileJobs DEF PutFile, On, ProfileFits, ProfileJob, ProfileInv, ProfileTypeOK
<1>2. PICK f \in FileId : /\ bucket' = bucket \cup {[id |-> f, owner |-> j.user]}
                          /\ job' = [job EXCEPT ![w].pc = "find", ![w].file = f]
  BY DEF PutFile
<1> DEFINE r == [j EXCEPT !.pc = "find", !.file = f]
<1>3. /\ r \in ProfileJob /\ r.op = j.op /\ r.pc = "find" /\ r.user = j.user /\ r.file = f
      /\ job' = [job EXCEPT ![w] = r]
  BY <1>1, <1>2 DEF ProfileJob
<1> HIDE DEF r
<1>4. LibraryInv'
  BY <1>3, ProfilesBeside DEF Quiet
<1>5. \A v \in Workers : InProfiles(v)' => ProfileFits(job[v])'
  BY <1>1, <1>2, <1>3, ProfileMoves DEF Jobs
<1>6. ProfileTypeOK' /\ AvatarIsStored' /\ KeepsEdits
  BY <1>1, <1>2 DEF ProfileInv, ProfileTypeOK, AvatarIsStored, KeepsEdits
<1> QED BY <1>4, <1>5, <1>6 DEF ProfileInv, ProfileStepOK

LEMMA BlankIsProfile == /\ NoProfile \notin Profile /\ Blank \in Profile /\ Blank # NoProfile
                        /\ Blank.avatar = 0
<1>1. "none" \notin Infos \cup {"unset"}
  BY ProfileConstantsOk
<1> QED BY <1>1 DEF NoProfile, Profile, Blank

\* The request ends, or goes on with a profile that is there.
LEMMA LoadedRequest ==
  ASSUME LibraryInv, ProfileInv, NEW w \in Workers, InProfiles(w), job[w].pc # "put_file",
         NEW p \in Profile, Loaded(w, p)
  PROVE  \E r : /\ job' = [job EXCEPT ![w] = r]
                /\ \/ r = Idle
                   \/ /\ r \in ProfileJob /\ r.op = job[w].op /\ r.pc = "write"
                      /\ r.user = job[w].user /\ r.info = job[w].info /\ r.file = job[w].file
                      /\ r.op # "get_my_profile"
<1> DEFINE j == job[w]
<1>1. j \in ProfileJob /\ job \in [Workers -> Jobs]
  BY ProfileJobs
<1>2. CASE j.op = "get_my_profile"
  BY <1>2 DEF Loaded, End
<1>3. CASE j.op # "get_my_profile"
  <2> DEFINE r == [j EXCEPT !.pc = "write", !.seen = p]
  <2>1. job' = [job EXCEPT ![w] = r]
    BY <1>1, <1>3 DEF Loaded
  <2>2. /\ r \in ProfileJob /\ r.op = j.op /\ r.pc = "write" /\ r.user = j.user
        /\ r.info = j.info /\ r.file = j.file
    BY <1>1 DEF ProfileJob
  <2> HIDE DEF r
  <2> QED BY <1>3, <2>1, <2>2
<1> QED BY <1>2, <1>3

LEMMA FindProfileRows ==
  ASSUME LibraryInv, ProfileInv, NEW w \in Workers, FindProfile(w), UNCHANGED libraryVars
  PROVE  ProfileStepOK
<1> DEFINE j == job[w]
<1>1. /\ j \in ProfileJob /\ ProfileFits(j) /\ j.pc = "find" /\ InProfiles(w)
      /\ UNCHANGED profileVars /\ job \in [Workers -> Jobs] /\ j.user \in Users
  BY ProfileJobs DEF FindProfile, On, ProfileJob
<1>2. CASE profiles[j.user] = NoProfile
  <2> DEFINE r == [j EXCEPT !.pc = "insert"]
  <2>1. job' = [job EXCEPT ![w] = r]
    BY <1>1, <1>2 DEF FindProfile
  <2>2. /\ r \in ProfileJob /\ r.op = j.op /\ r.pc = "insert" /\ r.user = j.user
        /\ r.info = j.info /\ r.file = j.file
    BY <1>1 DEF ProfileJob
  <2> HIDE DEF r
  <2>3. ProfileFits(r)
    BY <1>1, <2>2 DEF ProfileFits
  <2> QED BY <1>1, <2>1, <2>3, ProfileGoes
<1>3. CASE profiles[j.user] # NoProfile
  <2>1. profiles[j.user] \in Profile
    BY <1>1, <1>3 DEF ProfileInv, ProfileTypeOK
  <2>2. PICK r : /\ job' = [job EXCEPT ![w] = r]
                 /\ \/ r = Idle
                    \/ /\ r \in ProfileJob /\ r.op = j.op /\ r.pc = "write"
                       /\ r.user = j.user /\ r.info = j.info /\ r.file = j.file
                       /\ r.op # "get_my_profile"
    BY <1>1, <1>3, <2>1, LoadedRequest DEF FindProfile
  <2>3. r = Idle \/ ProfileFits(r)
    BY <1>1, <1>3, <2>2 DEF ProfileFits
  <2> QED BY <1>1, <2>2, <2>3, ProfileGoes
<1> QED BY <1>2, <1>3

LEMMA InsertProfileRows ==
  ASSUME LibraryInv, ProfileInv, NEW w \in Workers, InsertProfile(w), UNCHANGED libraryVars
  PROVE  ProfileStepOK
<1> DEFINE j == job[w]
<1>1. /\ j \in ProfileJob /\ ProfileFits(j) /\ j.pc = "insert" /\ InProfiles(w)
      /\ UNCHANGED bucket /\ job \in [Workers -> Jobs] /\ j.user \in Users
      /\ profiles \in [Users -> Profile \cup {NoProfile}]
  BY ProfileJobs DEF InsertProfile, On, ProfileJob, ProfileInv, ProfileTypeOK
<1>2. CASE profiles[j.user] # NoProfile
  BY <1>1, <1>2, ProfileGoes DEF InsertProfile, End, profileVars
<1>3. CASE profiles[j.user] = NoProfile
  <2>1. profiles' = [profiles EXCEPT ![j.user] = Blank] /\ Loaded(w, Blank)
    BY <1>3 DEF InsertProfile
  <2>2. PICK r : /\ job' = [job EXCEPT ![w] = r]
                 /\ \/ r = Idle
                    \/ /\ r \in ProfileJob /\ r.op = j.op /\ r.pc = "write"
                       /\ r.user = j.user /\ r.info = j.info /\ r.file = j.file
                       /\ r.op # "get_my_profile"
    BY <1>1, <2>1, BlankIsProfile, LoadedRequest
  <2>3. r \in Jobs /\ r \in ProfileJob \cup {Idle} /\ (r = Idle => r.op \notin ProfileOps)
    BY <2>2 DEF Jobs, Idle, ProfileOps
  <2>4. LibraryInv'
    BY <2>2, <2>3, ProfilesBeside DEF Quiet
  <2>5. /\ profiles'[j.user] # NoProfile
        /\ \A u \in Users : profiles[u] # NoProfile => profiles'[u] # NoProfile
    BY <1>1, <2>1, BlankIsProfile
  <2>6. \A v \in Workers : InProfiles(v)' => ProfileFits(job[v])'
    <3>1. r.op = "upload_my_avatar" => [id |-> r.file, owner |-> r.user] \in bucket' \/ r = Idle
      BY <1>1, <2>2 DEF ProfileFits
    <3>2. r.op = "update_my_profile" => r.info \in Infos \/ r = Idle
      BY <1>1, <2>2 DEF ProfileFits
    <3> QED BY <1>1, <2>2, <2>3, <2>5, <3>1, <3>2, ProfileMoves
  <2>7. ProfileTypeOK' /\ AvatarIsStored' /\ KeepsEdits
    BY <1>1, <1>3, <2>1, BlankIsProfile DEF ProfileInv, ProfileTypeOK, AvatarIsStored, KeepsEdits
  <2> QED BY <2>4, <2>6, <2>7 DEF ProfileInv, ProfileStepOK
<1> QED BY <1>2, <1>3

LEMMA WriteProfileRows ==
  ASSUME LibraryInv, ProfileInv, NEW w \in Workers, WriteProfile(w), UNCHANGED libraryVars
  PROVE  ProfileStepOK
<1> DEFINE j == job[w]
           old == profiles[j.user]
           new == IF j.op = "upload_my_avatar" THEN [old EXCEPT !.avatar = j.file]
                  ELSE IF j.info # j.seen.info THEN [old EXCEPT !.info = j.info]
                  ELSE old
<1>1. /\ j \in ProfileJob /\ ProfileFits(j) /\ j.pc = "write" /\ InProfiles(w)
      /\ UNCHANGED bucket /\ job \in [Workers -> Jobs] /\ j.user \in Users
      /\ profiles \in [Users -> Profile \cup {NoProfile}]
      /\ job' = [job EXCEPT ![w] = Idle] /\ profiles' = [profiles EXCEPT ![j.user] = new]
  BY ProfileJobs DEF WriteProfile, On, ProfileJob, ProfileInv, ProfileTypeOK, End
<1>2. old \in Profile /\ j.op \in {"upload_my_avatar", "update_my_profile"}
  BY <1>1 DEF ProfileFits, ProfileJob, ProfileOps
<1>3. /\ new \in Profile
      /\ j.op = "upload_my_avatar" => new.avatar = j.file /\ new.info = old.info
      /\ j.op = "update_my_profile" => new.avatar = old.avatar
  BY <1>1, <1>2 DEF ProfileJob, Profile
<1> HIDE DEF new
<1>4. LibraryInv'
  BY <1>1, ProfilesBeside DEF Quiet
<1>5. \A v \in Workers : InProfiles(v)' => ProfileFits(job[v])'
  <2>1. Idle \in Jobs /\ Idle.op \notin ProfileOps
    BY DEF Jobs, Idle, ProfileOps
  <2>2. \A u \in Users : profiles[u] # NoProfile => profiles'[u] # NoProfile
    BY <1>1, <1>3, BlankIsProfile
  <2> QED BY <1>1, <2>1, <2>2, ProfileMoves
<1>6. ProfileTypeOK'
  BY <1>1, <1>3 DEF ProfileInv, ProfileTypeOK
<1>7. AvatarIsStored'
  BY <1>1, <1>2, <1>3 DEF ProfileInv, AvatarIsStored, ProfileFits
<1>8. KeepsEdits
  BY <1>1, <1>2, <1>3 DEF KeepsEdits
<1> QED BY <1>4, <1>5, <1>6, <1>7, <1>8 DEF ProfileInv, ProfileStepOK

LEMMA ProfileRows ==
  ASSUME LibraryInv, ProfileInv, NEW w \in Workers, UNCHANGED libraryVars,
         ProfileArrives(w) \/ ProfileStep(w) \/ LoseRequest(w)
  PROVE  ProfileStepOK
<1>1. CASE ProfileArrives(w)
  <2>1. ASSUME NEW u \in Users, GetMyProfile(w, u) PROVE ProfileStepOK
    BY <2>1, OpenRows DEF GetMyProfile, ProfileOps
  <2>2. ASSUME NEW u \in Users, NEW info \in Infos, UpdateMyProfile(w, u, info) PROVE ProfileStepOK
    BY <2>2, OpenRows DEF UpdateMyProfile, ProfileOps
  <2>3. ASSUME NEW u \in Users, UploadMyAvatar(w, u) PROVE ProfileStepOK
    BY <2>3, OpenRows DEF UploadMyAvatar, ProfileOps
  <2> QED BY <1>1, <2>1, <2>2, <2>3 DEF ProfileArrives
<1>2. CASE ProfileStep(w)
  BY <1>2, PutFileRows, FindProfileRows, InsertProfileRows, WriteProfileRows DEF ProfileStep
<1>3. CASE LoseRequest(w)
  BY <1>3, ProfileGoes DEF LoseRequest, End
<1> QED BY <1>1, <1>2, <1>3

-----------------------------------------------------------------------------
(* What an update that nothing disturbs leaves of the kinds that it mentions *)

\* The kinds of which it has not found the links yet.
Unfound(j) == IF j.pc \in {"unlink", "link", "share"} THEN j.sync \ {First(j.sync)} ELSE j.sync

\* Of the others it has deleted every link, or is about to.
Replaces(j, L) ==
  /\ j.pc # "unlink" => j.rows = {}
  /\ \A l \in L : l.movie = j.movie /\ KindOf[l.tag] \in j.ask.kinds \ Unfound(j) =>
                    l \in j.dropped \cup j.rows

EditInv == \A w \in Workers \ disturbed : job[w].op = "update_movie" => Replaces(job[w], links)

\* Between two kinds.
LEMMA OnwardReplaces ==
  ASSUME NEW j \in LibraryJob, NEW L, j.rows = {},
         \A l \in L : l.movie = j.movie /\ KindOf[l.tag] \in j.ask.kinds \ j.sync => l \in j.dropped
  PROVE  Onward(j).op = j.op /\ Replaces(Onward(j), L)
<1>1. PICK p : /\ Onward(j) = [j EXCEPT !.pc = p]
               /\ p \in {"update_row", "ids", "names", "find_links", "commit"}
  BY Zenon DEF Onward
<1> DEFINE r == Onward(j)
<1>2. /\ r.op = j.op /\ r.pc = p /\ r.movie = j.movie /\ r.ask = j.ask /\ r.sync = j.sync
      /\ r.rows = j.rows /\ r.dropped = j.dropped
  BY <1>1 DEF LibraryJob
<1> HIDE DEF r
<1>3. Replaces(r, L)
  BY <1>1, <1>2 DEF Replaces, Unfound
<1> QED BY <1>2, <1>3 DEF r

\* The request of w, if it is an update still, knows what it deletes.
Tracks(w) == job'[w].op = "update_movie" => Replaces(job'[w], links)

LEMMA ContinueTracks ==
  ASSUME LibraryInv, NEW w \in Workers, NEW j \in LibraryJob, Continue(w, j),
         j.op = "update_movie" =>
           /\ j.rows = {}
           /\ \A l \in links : l.movie = j.movie /\ KindOf[l.tag] \in j.ask.kinds \ j.sync =>
                                 l \in j.dropped
  PROVE  Tracks(w)
<1>1. job'[w] = Onward(j)
  BY DEF Continue, LibraryInv
<1>2. CASE j.op = "update_movie"
  BY <1>1, <1>2, OnwardReplaces DEF Tracks
<1>3. CASE j.op # "update_movie"
  <2>1. Onward(j).op = j.op
    BY DEF Onward, LibraryJob
  <2> QED BY <1>1, <1>3, <2>1 DEF Tracks
<1> QED BY <1>2, <1>3

\* A request that ends, or is none of update_movie.
LEMMA EndTracks == ASSUME LibraryInv, NEW w \in Workers, End(w) PROVE Tracks(w)
<1>1. job'[w] = Idle /\ Idle.op = "none"
  BY DEF End, LibraryInv, Idle
<1> QED BY <1>1 DEF Tracks

\* Before it syncs the first kind, and between two of them.
LEMMA PrepareTracks ==
  ASSUME LibraryInv, NEW w \in Workers, job[w].op = "update_movie" => Replaces(job[w], links),
         UpdateRow(w) \/ UpdateTitle(w) \/ ValidateIds(w) \/ FindNames(w) \/ InsertNames(w)
  PROVE  Tracks(w)
<1> DEFINE j == job[w]
<1>1. /\ j \in LibraryJob /\ job \in [Workers -> Jobs]
      /\ j.pc \in {"update_row", "update_title", "ids", "names", "insert_names"}
  BY LibraryJobs DEF LibraryInv, UpdateRow, UpdateTitle, ValidateIds, FindNames, InsertNames, Doing
<1>2. j.op = "update_movie" =>
        /\ j.rows = {}
        /\ \A l \in links : l.movie = j.movie /\ KindOf[l.tag] \in j.ask.kinds \ j.sync =>
                              l \in j.dropped
  BY <1>1 DEF Replaces, Unfound
<1>3. ASSUME NEW r \in LibraryJob, r.op = j.op, r.movie = j.movie, r.ask = j.ask, r.sync = j.sync,
             r.rows = j.rows, r.dropped = j.dropped,
             \/ Continue(w, r)
             \/ job' = [job EXCEPT ![w] = r] /\ r.pc \in {"update_title", "names", "insert_names"}
      PROVE  Tracks(w)
  <2>1. CASE Continue(w, r)
    BY <1>2, <1>3, <2>1, ContinueTracks
  <2>2. CASE job' = [job EXCEPT ![w] = r] /\ r.pc \in {"update_title", "names", "insert_names"}
    BY <1>1, <1>2, <1>3, <2>2 DEF Tracks, Replaces, Unfound
  <2> QED BY <1>3, <2>1, <2>2
<1>4. CASE UpdateRow(w)
  <2>1. CASE job' = [job EXCEPT ![w].locks = @ \cup {"key"}, ![w].pc = "update_title",
                                ![w].claims = {title[job[w].movie]}]
             /\ title[job[w].movie] # None
    <3> DEFINE r == [j EXCEPT !.locks = @ \cup {"key"}, !.pc = "update_title",
                              !.claims = {title[j.movie]}]
    <3>1. title[j.movie] \in Titles
      <4>1. j.movie \in MovieId
        BY <1>1, <1>4, LibraryJobs DEF UpdateRow, Doing, Fits, Placed, Settled, LibraryJob
      <4> QED BY <2>1, <4>1 DEF LibraryInv, LibraryTypeOK
    <3>2. job' = [job EXCEPT ![w] = r]
      BY <1>1, <2>1
    <3>3. /\ r \in LibraryJob /\ r.op = j.op /\ r.movie = j.movie /\ r.ask = j.ask
          /\ r.sync = j.sync /\ r.rows = j.rows /\ r.dropped = j.dropped /\ r.pc = "update_title"
      BY <1>1, <3>1 DEF LibraryJob
    <3> HIDE DEF r
    <3> QED BY <1>3, <3>2, <3>3
  <2>2. CASE Continue(w, [j EXCEPT !.locks = @ \cup {"row"}])
    <3> DEFINE r == [j EXCEPT !.locks = @ \cup {"row"}]
    <3>1. /\ r \in LibraryJob /\ r.op = j.op /\ r.movie = j.movie /\ r.ask = j.ask
          /\ r.sync = j.sync /\ r.rows = j.rows /\ r.dropped = j.dropped
      BY <1>1 DEF LibraryJob
    <3> HIDE DEF r
    <3>2. Continue(w, r)
      BY <2>2 DEF r
    <3> QED BY <1>3, <3>1, <3>2
  <2> QED BY <1>4, <2>1, <2>2, EndTracks DEF UpdateRow
<1>5. CASE UpdateTitle(w)
  <2>1. CASE Continue(w, [j EXCEPT !.claims = @ \cup {j.new}])
    <3> DEFINE r == [j EXCEPT !.claims = @ \cup {j.new}]
    <3>1. j.new \in Titles
      BY <1>1, <1>5, LibraryJobs DEF UpdateTitle, Doing, Fits, Placed, LibraryJob
    <3>2. /\ r \in LibraryJob /\ r.op = j.op /\ r.movie = j.movie /\ r.ask = j.ask
          /\ r.sync = j.sync /\ r.rows = j.rows /\ r.dropped = j.dropped
      BY <1>1, <3>1 DEF LibraryJob
    <3> HIDE DEF r
    <3>3. Continue(w, r)
      BY <2>1 DEF r
    <3> QED BY <1>3, <3>2, <3>3
  <2> QED BY <1>5, <2>1, EndTracks DEF UpdateTitle
<1>6. ASSUME NEW k, Continue(w, [j EXCEPT !.prepare = @ \ {k}]) PROVE Tracks(w)
  <2> DEFINE r == [j EXCEPT !.prepare = @ \ {k}]
  <2>1. /\ r \in LibraryJob /\ r.op = j.op /\ r.movie = j.movie /\ r.ask = j.ask
        /\ r.sync = j.sync /\ r.rows = j.rows /\ r.dropped = j.dropped
    BY <1>1 DEF LibraryJob
  <2> HIDE DEF r
  <2>2. Continue(w, r)
    BY <1>6 DEF r
  <2> QED BY <1>3, <2>1, <2>2
<1>7. CASE ValidateIds(w)
  <2>1. CASE job' = [job EXCEPT ![w].pc = "names"]
    <3> DEFINE r == [j EXCEPT !.pc = "names"]
    <3>1. job' = [job EXCEPT ![w] = r]
      BY <1>1, <2>1
    <3>2. /\ r \in LibraryJob /\ r.op = j.op /\ r.movie = j.movie /\ r.ask = j.ask
          /\ r.sync = j.sync /\ r.rows = j.rows /\ r.dropped = j.dropped /\ r.pc = "names"
      BY <1>1 DEF LibraryJob
    <3> HIDE DEF r
    <3> QED BY <1>3, <3>1, <3>2
  <2> QED BY <1>6, <1>7, <2>1, EndTracks DEF ValidateIds, NamesNext
<1>8. CASE FindNames(w)
  <2> DEFINE absent == {t \in j.ask.names : KindOf[t] = First(j.prepare)} \ tags
  <2>1. CASE job' = [job EXCEPT ![w].pc = "insert_names", ![w].missing = absent]
    <3> DEFINE r == [j EXCEPT !.pc = "insert_names", !.missing = absent]
    <3>1. job' = [job EXCEPT ![w] = r]
      BY <1>1, <2>1
    <3>2. absent \subseteq Tags
      BY <1>1 DEF LibraryJob, Ask
    <3> HIDE DEF absent
    <3>3. /\ r \in LibraryJob /\ r.op = j.op /\ r.movie = j.movie /\ r.ask = j.ask
          /\ r.sync = j.sync /\ r.rows = j.rows /\ r.dropped = j.dropped /\ r.pc = "insert_names"
      BY <1>1, <3>2 DEF LibraryJob
    <3> HIDE DEF r
    <3> QED BY <1>3, <3>1, <3>3
  <2> QED BY <1>6, <1>8, <2>1 DEF FindNames
<1>9. CASE InsertNames(w)
  <2>1. PICK t \in j.missing :
          LET rest == j.missing \ {t}
              i == [j EXCEPT !.made = @ \cup {t}, !.missing = rest]
          IN  IF t \in tags THEN End(w)
              ELSE IF rest # {} THEN job' = [job EXCEPT ![w] = i]
              ELSE Continue(w, [i EXCEPT !.prepare = @ \ {First(@)}])
    BY <1>9 DEF InsertNames
  <2>2. t \in Tags
    BY <1>1 DEF LibraryJob
  <2> DEFINE i == [j EXCEPT !.made = @ \cup {t}, !.missing = j.missing \ {t}]
             r == [i EXCEPT !.prepare = @ \ {First(@)}]
  <2>3. /\ i \in LibraryJob /\ i.op = j.op /\ i.movie = j.movie /\ i.ask = j.ask
        /\ i.sync = j.sync /\ i.rows = j.rows /\ i.dropped = j.dropped /\ i.pc = "insert_names"
    BY <1>1, <1>9, <2>2 DEF LibraryJob, InsertNames, Doing
  <2>4. /\ r \in LibraryJob /\ r.op = j.op /\ r.movie = j.movie /\ r.ask = j.ask
        /\ r.sync = j.sync /\ r.rows = j.rows /\ r.dropped = j.dropped
    <3> HIDE DEF i
    <3> QED BY <2>3 DEF LibraryJob
  <2>5. End(w) \/ job' = [job EXCEPT ![w] = i] \/ Continue(w, r)
    BY <2>1
  <2> HIDE DEF i, r
  <2> QED BY <1>3, <2>3, <2>4, <2>5, EndTracks
<1> QED BY <1>4, <1>5, <1>7, <1>8, <1>9

\* The DELETE of a kind is done.
LEMMA UnlinkedTracks ==
  ASSUME LibraryInv, NEW w \in Workers, NEW j \in LibraryJob, Unlinked(w, j),
         \A l \in links :
           l.movie = j.movie /\ KindOf[l.tag] \in j.ask.kinds \ (j.sync \ {First(j.sync)}) =>
             l \in j.dropped
  PROVE  Tracks(w)
<1>1. CASE Continue(w, [j EXCEPT !.rows = {}, !.sync = @ \ {First(@)}])
  <2> DEFINE r == [j EXCEPT !.rows = {}, !.sync = @ \ {First(@)}]
  <2>1. /\ r \in LibraryJob /\ r.movie = j.movie /\ r.ask = j.ask
        /\ r.sync = j.sync \ {First(j.sync)} /\ r.rows = {} /\ r.dropped = j.dropped
    BY DEF LibraryJob
  <2> HIDE DEF r
  <2>2. Continue(w, r)
    BY <1>1 DEF r
  <2> QED BY <2>1, <2>2, ContinueTracks
<1>2. CASE job' = [job EXCEPT ![w] = [j EXCEPT !.rows = {}, !.pc = "link"]]
  <2> DEFINE r == [j EXCEPT !.rows = {}, !.pc = "link"]
  <2>1. /\ r.movie = j.movie /\ r.ask = j.ask /\ r.sync = j.sync /\ r.rows = {}
        /\ r.dropped = j.dropped /\ r.pc = "link"
    BY DEF LibraryJob
  <2>2. job'[w] = r
    BY <1>2 DEF LibraryInv
  <2> HIDE DEF r
  <2> QED BY <2>1, <2>2 DEF Tracks, Replaces, Unfound
<1> QED BY <1>1, <1>2 DEF Unlinked

LEMMA SyncTracks ==
  ASSUME LibraryInv, NEW w \in Workers, job[w].op = "update_movie" => Replaces(job[w], links),
         FindLinks(w) \/ Unlink(w) \/ AddLink(w) \/ ShareMovie(w)
  PROVE  Tracks(w)
<1> DEFINE j == job[w]
           k == First(j.sync)
<1>1. /\ j \in LibraryJob /\ job \in [Workers -> Jobs] /\ j.op = "update_movie"
      /\ Replaces(j, links) /\ InLibrary(w)
  BY LibraryJobs DEF LibraryInv, FindLinks, Unlink, AddLink, ShareMovie, Doing, Fits, Placed
<1>2. CASE FindLinks(w)
  <2> DEFINE seen == KindLinks(w, k)
  <2>1. \A l \in links : l.movie = j.movie /\ KindOf[l.tag] \in j.ask.kinds \ (j.sync \ {k}) =>
                           l \in j.dropped \cup seen
    BY <1>1, <1>2 DEF FindLinks, Doing, KindLinks, Replaces, Unfound
  <2>2. CASE seen = {}
    BY <1>1, <1>2, <2>1, <2>2, UnlinkedTracks DEF FindLinks
  <2>3. CASE seen # {}
    <3> DEFINE r == [j EXCEPT !.pc = "unlink", !.rows = seen]
    <3>1. job'[w] = r
      BY <1>1, <1>2, <2>3 DEF FindLinks
    <3> HIDE DEF seen
    <3>2. /\ r.movie = j.movie /\ r.ask = j.ask /\ r.sync = j.sync /\ r.rows = seen
          /\ r.dropped = j.dropped /\ r.pc = "unlink"
      BY <1>1 DEF LibraryJob
    <3> HIDE DEF r
    <3> QED BY <2>1, <3>1, <3>2 DEF Tracks, Replaces, Unfound
  <2> QED BY <2>2, <2>3
<1>3. CASE Unlink(w)
  <2>1. /\ j.pc = "unlink"
        /\ \A l \in links : l.movie = j.movie /\ KindOf[l.tag] \in j.ask.kinds \ (j.sync \ {k}) =>
                              l \in j.dropped \cup j.rows
    BY <1>1, <1>3 DEF Unlink, Doing, Replaces, Unfound
  <2>2. CASE j.rows = {} /\ Unlinked(w, j)
    BY <1>1, <2>1, <2>2, UnlinkedTracks
  <2>3. ASSUME NEW l \in j.rows, NEW r, r = [j EXCEPT !.rows = @ \ {l}, !.dropped = @ \cup {l}],
               IF r.rows = {} THEN Unlinked(w, r) ELSE job' = [job EXCEPT ![w] = r]
        PROVE  Tracks(w)
    <3>1. /\ r \in LibraryJob /\ r.movie = j.movie /\ r.ask = j.ask /\ r.sync = j.sync
          /\ r.rows = j.rows \ {l} /\ r.dropped = j.dropped \cup {l} /\ r.pc = "unlink"
      BY <1>1, <2>1, <2>3 DEF LibraryJob
    <3>2. CASE Unlinked(w, r) /\ r.rows = {}
      BY <2>1, <3>1, <3>2, UnlinkedTracks
    <3>3. CASE job' = [job EXCEPT ![w] = r]
      <4>1. job'[w] = r
        BY <1>1, <3>3
      <4> QED BY <2>1, <3>1, <4>1 DEF Tracks, Replaces, Unfound
    <3> QED BY <2>3, <3>2, <3>3
  <2> QED BY <1>3, <2>2, <2>3 DEF Unlink
<1>4. ASSUME NEW r \in LibraryJob, r.movie = j.movie, r.ask = j.ask, r.sync = j.sync,
             r.rows = j.rows, r.dropped = j.dropped, j.pc \in {"link", "share"},
             \/ job' = [job EXCEPT ![w] = r] /\ r.pc \in {"link", "share"}
             \/ Continue(w, [r EXCEPT !.sync = @ \ {First(@)}])
      PROVE  Tracks(w)
  <2>1. CASE job' = [job EXCEPT ![w] = r] /\ r.pc \in {"link", "share"}
    <3>1. job'[w] = r
      BY <1>1, <2>1
    <3> QED BY <1>1, <1>4, <2>1, <3>1 DEF Tracks, Replaces, Unfound
  <2>2. CASE Continue(w, [r EXCEPT !.sync = @ \ {First(@)}])
    <3> DEFINE s == [r EXCEPT !.sync = @ \ {First(@)}]
    <3>1. /\ s \in LibraryJob /\ s.movie = j.movie /\ s.ask = j.ask /\ s.sync = j.sync \ {k}
          /\ s.rows = j.rows /\ s.dropped = j.dropped
      BY <1>4 DEF LibraryJob
    <3>2. Continue(w, s)
      BY <2>2
    <3> HIDE DEF s
    <3>3. /\ s.rows = {}
          /\ \A l \in links : l.movie = s.movie /\ KindOf[l.tag] \in s.ask.kinds \ s.sync =>
                                l \in s.dropped
      BY <1>1, <1>4, <3>1 DEF Replaces, Unfound
    <3> QED BY <3>1, <3>2, <3>3, ContinueTracks
  <2> QED BY <1>4, <2>1, <2>2
<1>5. CASE AddLink(w)
  <2>1. PICK t \in ToLink(w) :
          \/ End(w)
          \/ job' = [job EXCEPT ![w].added = @ \cup {LinkTo(w, t)}, ![w].pc = "share"]
    BY <1>5 DEF AddLink
  <2> DEFINE r == [j EXCEPT !.added = @ \cup {LinkTo(w, t)}, !.pc = "share"]
  <2>2. CASE job' = [job EXCEPT ![w].added = @ \cup {LinkTo(w, t)}, ![w].pc = "share"]
    <3>1. job' = [job EXCEPT ![w] = r]
      BY <1>1, <2>2
    <3>2. LinkTo(w, t) \in Link
      <4>1. j.movie \in MovieId
        BY <1>1, LibraryJobs DEF Fits, Placed, Settled, LibraryJob
      <4>2. t \in Tags
        BY <1>1 DEF ToLink, Listed, LibraryJob, Ask
      <4> QED BY <4>1, <4>2 DEF LinkTo, Link
    <3>3. /\ r \in LibraryJob /\ r.movie = j.movie /\ r.ask = j.ask /\ r.sync = j.sync
          /\ r.rows = j.rows /\ r.dropped = j.dropped /\ r.pc = "share" /\ j.pc = "link"
      BY <1>1, <1>5, <3>2 DEF LibraryJob, AddLink, Doing
    <3> HIDE DEF r
    <3> QED BY <1>4, <3>1, <3>3
  <2> QED BY <2>1, <2>2, EndTracks
<1>6. CASE ShareMovie(w)
  <2> DEFINE i == [j EXCEPT !.locks = @ \cup {"share"}]
             r == [i EXCEPT !.pc = "link"]
  <2>1. /\ i \in LibraryJob /\ i.movie = j.movie /\ i.ask = j.ask /\ i.sync = j.sync
        /\ i.rows = j.rows /\ i.dropped = j.dropped /\ j.pc = "share"
    BY <1>1, <1>6 DEF LibraryJob, ShareMovie, Doing
  <2>2. /\ r \in LibraryJob /\ r.movie = j.movie /\ r.ask = j.ask /\ r.sync = j.sync
        /\ r.rows = j.rows /\ r.dropped = j.dropped /\ r.pc = "link"
    <3> HIDE DEF i
    <3> QED BY <2>1 DEF LibraryJob
  <2>3. \/ End(w) \/ job' = [job EXCEPT ![w] = r]
        \/ Continue(w, [i EXCEPT !.sync = @ \ {First(@)}])
    BY <1>6 DEF ShareMovie
  <2> HIDE DEF i, r
  <2> QED BY <1>4, <2>1, <2>2, <2>3, EndTracks
<1> QED BY <1>2, <1>3, <1>5, <1>6

\* The others: requests that are no update, or have just come.
LEMMA OtherTracks ==
  ASSUME LibraryInv, NEW w \in Workers,
         \/ LibraryArrives(w) \/ InsertMovie(w) \/ LoadLinks(w) \/ DropLinks(w) \/ DropMovie(w)
         \/ DeadlockDetected(w) \/ Abandon(w)
  PROVE  Tracks(w)
<1>1. CASE DeadlockDetected(w) \/ Abandon(w)
  BY <1>1, EndTracks DEF DeadlockDetected, Abandon
<1>2. ASSUME NEW m \in MovieId, NEW t \in Titles \cup {None}, NEW fields \in BOOLEAN, NEW a \in Asks,
             UpdateMovie(w, m, t, fields, a)
      PROVE  Tracks(w)
  <2> DEFINE r == NewJob("update_movie", m, t, fields, a)
  <2>1. r \in LibraryJob
    BY NewJobIsJob
  <2>2. r.rows = {} /\ r.ask = a /\ r.sync = a.kinds
    BY DEF NewJob
  <2>3. Continue(w, r)
    BY <1>2 DEF UpdateMovie, Continue
  <2> HIDE DEF r
  <2> QED BY <2>1, <2>2, <2>3, ContinueTracks
<1>3. ASSUME job'[w].op \in {"create_movie", "delete_movie"} PROVE Tracks(w)
  BY <1>3 DEF Tracks
<1>4. ASSUME NEW t \in Titles, NEW a \in Asks, CreateMovie(w, t, a) PROVE Tracks(w)
  BY <1>3, <1>4 DEF CreateMovie, NewJob, LibraryInv
<1>5. ASSUME NEW m \in MovieId, DeleteMovie(w, m) PROVE Tracks(w)
  BY <1>3, <1>5 DEF DeleteMovie, NewJob, LibraryInv
<1>6. CASE InsertMovie(w)
  <2>1. job[w] \in LibraryJob /\ job[w].op = "create_movie"
    BY <1>6, LibraryJobs DEF InsertMovie, Doing, Fits, Placed
  <2>2. CASE End(w)
    BY <2>2, EndTracks
  <2>3. CASE Continue(w, [job[w] EXCEPT !.movie = lastId + 1, !.claims = {job[w].new},
                                        !.locks = {"key"}, !.sync = {}])
    <3> DEFINE r == [job[w] EXCEPT !.movie = lastId + 1, !.claims = {job[w].new},
                                   !.locks = {"key"}, !.sync = {}]
    <3>1. PICK p : Onward(r) = [r EXCEPT !.pc = p]
      BY Zenon DEF Onward
    <3>2. Onward(r).op = "create_movie"
      BY <2>1, <3>1 DEF LibraryJob
    <3>3. job'[w] = Onward(r)
      BY <2>3 DEF Continue, LibraryInv
    <3> HIDE DEF r
    <3> QED BY <1>3, <3>2, <3>3
  <2> QED BY <1>6, <2>2, <2>3 DEF InsertMovie
<1>7. CASE LoadLinks(w) \/ DropLinks(w) \/ DropMovie(w)
  <2>1. job[w] \in LibraryJob /\ job[w].op = "delete_movie" /\ job \in [Workers -> Jobs]
    BY <1>7, LibraryJobs DEF LibraryInv, LoadLinks, DropLinks, DropMovie, Doing, Fits, Placed
  <2>2. CASE LoadLinks(w)
    <3>1. job'[w].op = job[w].op
      BY <2>1, <2>2 DEF LoadLinks, LibraryJob
    <3> QED BY <1>3, <2>1, <3>1
  <2>3. CASE DropLinks(w)
    <3>1. End(w) \/ job'[w].op = job[w].op
      BY <2>1, <2>3 DEF DropLinks, LibraryJob
    <3> QED BY <1>3, <2>1, <3>1, EndTracks
  <2>4. CASE DropMovie(w)
    <3>1. End(w) \/ job'[w].op = job[w].op
      BY <2>1, <2>4 DEF DropMovie, LibraryJob
    <3> QED BY <1>3, <2>1, <3>1, EndTracks
  <2> QED BY <1>7, <2>2, <2>3, <2>4
<1> QED BY <1>1, <1>2, <1>4, <1>5, <1>6, <1>7 DEF LibraryArrives

LEMMA LibraryTracks ==
  ASSUME LibraryInv, NEW w \in Workers, LibraryArrives(w) \/ LibraryStep(w) \/ Abandon(w),
         ~Commit(w), job[w].op = "update_movie" => Replaces(job[w], links)
  PROVE  Tracks(w)
BY PrepareTracks, SyncTracks, OtherTracks DEF LibraryStep

\* No request but that of w moves.
Alone(w) == \A v \in Workers : v # w => job'[v] = job[v]

LEMMA LibraryAlone ==
  ASSUME LibraryInv, NEW w \in Workers, LibraryArrives(w) \/ LibraryStep(w) \/ Abandon(w), ~Commit(w)
  PROVE  Alone(w)
<1>1. ASSUME NEW j, job' = [job EXCEPT ![w] = j] PROVE Alone(w)
  BY <1>1 DEF Alone, LibraryInv
<1>2. ASSUME NEW j, Continue(w, j) \/ Unlinked(w, j) PROVE Alone(w)
  BY <1>1, <1>2 DEF Continue, Unlinked
<1>3. CASE End(w) \/ NamesNext(w)
  BY <1>2, <1>3 DEF End, NamesNext, Alone, LibraryInv
<1>4. CASE LibraryArrives(w) \/ Abandon(w)
  BY <1>3, <1>4 DEF LibraryArrives, Abandon, CreateMovie, UpdateMovie, DeleteMovie, Alone, LibraryInv
<1>5. CASE InsertMovie(w) \/ UpdateRow(w) \/ UpdateTitle(w)
  BY <1>2, <1>3, <1>5 DEF InsertMovie, UpdateRow, UpdateTitle, Alone, LibraryInv
<1>6. CASE ValidateIds(w) \/ FindNames(w) \/ InsertNames(w)
  BY <1>2, <1>3, <1>6 DEF ValidateIds, FindNames, InsertNames, Alone, LibraryInv
<1>7. CASE FindLinks(w) \/ Unlink(w) \/ AddLink(w) \/ ShareMovie(w)
  BY <1>2, <1>3, <1>7 DEF FindLinks, Unlink, AddLink, ShareMovie, Alone, LibraryInv
<1>8. CASE LoadLinks(w) \/ DropLinks(w) \/ DropMovie(w) \/ DeadlockDetected(w)
  BY <1>3, <1>8 DEF LoadLinks, DropLinks, DropMovie, DeadlockDetected, Alone, LibraryInv
<1> QED BY <1>4, <1>5, <1>6, <1>7, <1>8 DEF LibraryStep

\* The commit of another movie's request leaves an update what it knows.
LEMMA CommitTracks ==
  ASSUME LibraryInv, NEW w \in Workers, Commit(w), NEW v \in Workers, v # w,
         job[v].op = "update_movie", job[v].movie # job[w].movie, Replaces(job[v], links)
  PROVE  job'[v].op = "update_movie" /\ Replaces(job'[v], links')
<1> DEFINE j == job[v]
           gone == job[w].dropped
<1>1. /\ j \in LibraryJob /\ \A l \in gone : l.movie = job[w].movie
      /\ links' = Kept(w) \cup Added(w) /\ job'[v] = [j EXCEPT !.rows = @ \ gone]
  BY CommitFacts, LibraryJobs DEF InLibrary, Fits, Linked, Without
<1> DEFINE r == [j EXCEPT !.rows = @ \ gone]
<1>2. /\ r.op = j.op /\ r.pc = j.pc /\ r.movie = j.movie /\ r.ask = j.ask /\ r.sync = j.sync
      /\ r.rows = j.rows \ gone /\ r.dropped = j.dropped
  BY <1>1 DEF LibraryJob
<1> HIDE DEF r
<1>3. \A l \in links' : l.movie = j.movie => l \in links /\ l \notin gone
  BY <1>1, AddedLinks DEF Kept
<1>4. Replaces(r, links')
  BY <1>2, <1>3 DEF Replaces, Unfound
<1> QED BY <1>1, <1>2, <1>4 DEF r

LEMMA ProfileAlone ==
  ASSUME LibraryInv, ProfileInv, NEW w \in Workers,
         ProfileArrives(w) \/ ProfileStep(w) \/ LoseRequest(w)
  PROVE  Alone(w) /\ job'[w].op # "update_movie"
<1>1. job \in [Workers -> Jobs] /\ ProfileOps = {"get_my_profile", "update_my_profile", "upload_my_avatar"}
  BY DEF LibraryInv, ProfileOps
<1>2. CASE End(w)
  BY <1>1, <1>2 DEF End, Idle, Alone
<1>3. CASE ProfileArrives(w)
  <2>1. ASSUME NEW op \in ProfileOps, NEW label, NEW u, NEW info, Open(w, op, label, u, info)
        PROVE  Alone(w) /\ job'[w].op # "update_movie"
    BY <1>1, <2>1 DEF Open, Alone
  <2> QED BY <1>1, <1>3, <2>1 DEF ProfileArrives, GetMyProfile, UpdateMyProfile, UploadMyAvatar
<1>4. CASE ProfileStep(w)
  <2>1. job[w] \in ProfileJob /\ job[w].op \in ProfileOps
    BY <1>4, ProfileJobs DEF ProfileStep, PutFile, FindProfile, InsertProfile, WriteProfile, On, InProfiles
  <2>2. End(w) \/ (Alone(w) /\ job'[w].op = job[w].op)
    BY <1>1, <1>4, <2>1 DEF ProfileStep, PutFile, FindProfile, InsertProfile, WriteProfile, Loaded,
       Alone, ProfileJob
  <2> QED BY <1>1, <1>2, <2>1, <2>2
<1> QED BY <1>2, <1>3, <1>4 DEF LoseRequest

-----------------------------------------------------------------------------
(* What a commit makes visible *)

\* No other statement of the catalogue does.
LEMMA OnlyCommitsShow ==
  ASSUME NEW w \in Workers, LibraryArrives(w) \/ LibraryStep(w) \/ Abandon(w), ~Commit(w)
  PROVE  UNCHANGED <<title, tags, links>>
BY DEF LibraryArrives, LibraryStep, Abandon, libraryVars, CreateMovie, UpdateMovie, DeleteMovie,
   InsertMovie, UpdateRow, UpdateTitle, ValidateIds, FindNames, InsertNames, FindLinks, Unlink,
   AddLink, ShareMovie, LoadLinks, DropLinks, DropMovie, DeadlockDetected

TagsArriveLinked == \A t \in tags' \ tags : \E l \in links' : l.tag = t

MoviesArriveLinked ==
  \A m \in MovieId : title[m] = None /\ title'[m] # None =>
    \E w \in Workers : /\ job[w].op = "create_movie" /\ job[w].movie = m
                      /\ Tagged(m)' = job[w].ask.ids \cup job[w].ask.names

EditsAreWhole ==
  \A w \in Workers, m \in MovieId : Saves(w, m) =>
    /\ Edited(w, m) \subseteq Tagged(m)'
    /\ \A t \in Tagged(m)' \ Edited(w, m) : KindOf[t] \in job[w].ask.kinds

EditsReplace ==
  \A w \in Workers, m \in MovieId :
    Saves(w, m) /\ w \notin disturbed => Tagged(m)' = Edited(w, m)

\* At the commit of create_movie or update_movie every tag that it lists is linked.
LEMMA ListedAreAdded ==
  ASSUME LibraryInv, NEW w \in Workers, Commit(w), job[w].op # "delete_movie",
         NEW t \in Listing(job[w])
  PROVE  [movie |-> job[w].movie, tag |-> t] \in Added(w)
<1>1. job[w] \in LibraryJob /\ Linked(job[w]) /\ job[w].sync = {}
  BY CommitFacts DEF Fits
<1>2. CASE job[w].op = "create_movie"
  BY <1>2 DEF Added, AllLinks, LinkTo, Listing
<1>3. CASE job[w].op = "update_movie"
  BY <1>1, <1>3 DEF Added, Linked
<1> QED BY <1>1, <1>2, <1>3 DEF LibraryJob

LEMMA CommitLinksTags ==
  ASSUME LibraryInv, NEW w \in Workers, Commit(w) PROVE TagsArriveLinked
<1> SUFFICES ASSUME NEW t \in tags' \ tags PROVE \E l \in links' : l.tag = t
  BY DEF TagsArriveLinked
<1>1. t \in job[w].made /\ links' = Kept(w) \cup Added(w) /\ Fits(job[w])
  BY CommitFacts
<1>2. job[w].op # "delete_movie" /\ t \in Listing(job[w])
  BY <1>1 DEF Fits, Core, Body, Prepared, Listing
<1>3. [movie |-> job[w].movie, tag |-> t] \in links'
  BY <1>1, <1>2, ListedAreAdded
<1> QED BY <1>3

\* What the movie of w has after the commit: what it lists, and what it had and w has not
\* deleted.
LEMMA CommittedTags ==
  ASSUME LibraryInv, NEW w \in Workers, Commit(w), job[w].op # "delete_movie",
         NEW m, m = job[w].movie
  PROVE  /\ Listing(job[w]) \subseteq Tagged(m)'
         /\ \A t \in Tags : [movie |-> m, tag |-> t] \notin job[w].dropped =>
              (t \in Tagged(m)' <=> t \in Tagged(m) \cup Listing(job[w]))
         /\ \A t \in Tags : [movie |-> m, tag |-> t] \in job[w].dropped =>
              (t \in Tagged(m)' <=> t \in Listing(job[w]))
<1> DEFINE j == job[w]
           to(t) == [movie |-> m, tag |-> t]
<1>1. /\ j \in LibraryJob /\ links' = Kept(w) \cup Added(w)
      /\ \A t \in Listing(j) : t \in Tags /\ to(t) \in Added(w)
  BY CommitFacts, ListedAreAdded DEF Listing, LibraryJob, Ask
<1>2. \A t : to(t).tag = t
  OBVIOUS
<1>3. Tagged(m) = {t \in Tags : to(t) \in links} /\ Tagged(m)' = {t \in Tags : to(t) \in links'}
  BY DEF Tagged
<1> HIDE DEF to
<1>4. \A t : to(t) \in Added(w) => t \in Listing(j)
  BY <1>2, AddedLinks
<1>5. \A t \in Tags : t \in Tagged(m)' <=> t \in Listing(j) \/ (t \in Tagged(m) /\ to(t) \notin j.dropped)
  BY <1>1, <1>3, <1>4 DEF Kept
<1> QED BY <1>1, <1>3, <1>5 DEF to

LEMMA CommitLinksMovies ==
  ASSUME LibraryInv, NEW w \in Workers, Commit(w) PROVE MoviesArriveLinked
<1> SUFFICES ASSUME NEW m \in MovieId, title[m] = None, title'[m] # None
             PROVE  /\ job[w].op = "create_movie" /\ job[w].movie = m
                    /\ Tagged(m)' = job[w].ask.ids \cup job[w].ask.names
  BY DEF MoviesArriveLinked
<1>1. job[w].movie = m /\ job[w].op = "create_movie" /\ job[w].dropped = {}
  BY CommitFacts DEF LibraryJob
<1>2. Tagged(m) = {}
  BY DEF Tagged, LibraryInv, NoDanglingLink
<1>3. Tagged(m)' \subseteq Tags
  BY DEF Tagged
<1>4. Tagged(m)' = Listing(job[w])
  BY <1>1, <1>2, <1>3, CommittedTags
<1> QED BY <1>1, <1>4 DEF Listing

\* A DELETE keeps to the kinds that are mentioned.
LEMMA SavesAreWhole == ASSUME LibraryInv PROVE EditsAreWhole
<1> SUFFICES ASSUME NEW w \in Workers, NEW m \in MovieId, Saves(w, m)
             PROVE  /\ Edited(w, m) \subseteq Tagged(m)'
                    /\ \A t \in Tagged(m)' \ Edited(w, m) : KindOf[t] \in job[w].ask.kinds
  BY DEF EditsAreWhole
<1> DEFINE j == job[w]
<1>1. Commit(w) /\ j.op = "update_movie" /\ m = j.movie /\ Linked(j)
  BY CommitFacts DEF Saves, Fits
<1>2. \A t \in Tags : KindOf[t] \notin j.ask.kinds => [movie |-> m, tag |-> t] \notin j.dropped
  <2> SUFFICES ASSUME NEW l \in j.dropped PROVE KindOf[l.tag] \in j.ask.kinds
    OBVIOUS
  <2> QED BY <1>1 DEF Linked
<1>3. Tagged(m) \subseteq Tags /\ Tagged(m)' \subseteq Tags
  BY DEF Tagged
<1>4. Edited(w, m) = Listing(j) \cup {t \in Tagged(m) : KindOf[t] \notin j.ask.kinds}
  BY DEF Edited, Listing
<1> QED BY <1>1, <1>2, <1>3, <1>4, CommittedTags

\* A DELETE that nothing disturbs finds all of them.
LEMMA SavesReplace == ASSUME LibraryInv, EditInv PROVE EditsReplace
<1> SUFFICES ASSUME NEW w \in Workers, NEW m \in MovieId, Saves(w, m), w \notin disturbed
             PROVE  Tagged(m)' = Edited(w, m)
  BY DEF EditsReplace
<1> DEFINE j == job[w]
<1>1. /\ Commit(w) /\ j.op = "update_movie" /\ m = j.movie /\ j.pc = "commit" /\ j.sync = {}
      /\ Replaces(j, links)
  BY CommitFacts DEF Saves, Commit, Doing, EditInv
<1>2. \A t \in Tagged(m) : KindOf[t] \in j.ask.kinds => [movie |-> m, tag |-> t] \in j.dropped
  <2>1. \A l \in links : l.movie = m /\ KindOf[l.tag] \in j.ask.kinds => l \in j.dropped
    BY <1>1 DEF Replaces, Unfound
  <2> QED BY <2>1 DEF Tagged
<1>3. Tagged(m) \subseteq Tags /\ Tagged(m)' \subseteq Tags
  BY DEF Tagged
<1>4. EditsAreWhole
  BY SavesAreWhole
<1>5. /\ Edited(w, m) \subseteq Tagged(m)'
      /\ \A t \in Tagged(m)' \ Edited(w, m) : KindOf[t] \in j.ask.kinds
  BY <1>4 DEF EditsAreWhole
<1>6. Edited(w, m) = Listing(j) \cup {t \in Tagged(m) : KindOf[t] \notin j.ask.kinds}
  BY DEF Edited, Listing
<1>7. Tagged(m)' \subseteq Edited(w, m)
  BY <1>1, <1>2, <1>3, <1>5, <1>6, CommittedTags
<1> QED BY <1>5, <1>7

-----------------------------------------------------------------------------
(* The whole specification *)

Inv == LibraryInv /\ ProfileInv

LEMMA InitRows == ASSUME Init PROVE Inv
<1>1. job = [w \in Workers |-> Idle] /\ \A w \in Workers : ~InLibrary(w) /\ ~InProfiles(w)
  BY DEF Init, InLibrary, InProfiles, Idle, ProfileOps
<1>2. LibraryTypeOK /\ NoDanglingLink /\ TitleOnce /\ lastId = 0 /\ \A m \in MovieId : title[m] = None
  BY LibraryConstantsOk DEF Init, LibraryInit, LibraryTypeOK, NoDanglingLink, TitleOnce
<1>3. Inserting = {}
  BY <1>1 DEF Inserting
<1>4. LibraryInv
  BY <1>1, <1>2, <1>3, FS_EmptySet, LibraryConstantsOk DEF LibraryInv, Jobs
<1>5. ProfileTypeOK /\ AvatarIsStored
  BY DEF Init, ProfileInit, ProfileTypeOK, AvatarIsStored, NoProfile
<1> QED BY <1>1, <1>4, <1>5 DEF Inv, ProfileInv

\* Everything that the theorems say of one step.
StepOK ==
  /\ Inv'
  /\ KeepsEdits
  /\ TagsArriveLinked
  /\ MoviesArriveLinked

LEMMA NothingShown ==
  ASSUME UNCHANGED <<title, tags, links>>
  PROVE  TagsArriveLinked /\ MoviesArriveLinked
BY DEF TagsArriveLinked, MoviesArriveLinked

\* A step of the catalogue is none of the profiles.
LEMMA OntoKeepsProfiles ==
  ASSUME Inv, NEW w \in Workers, Onto(w), UNCHANGED profileVars
  PROVE  ProfileInv' /\ KeepsEdits
<1>1. ProfileTypeOK' /\ AvatarIsStored'
  BY DEF Inv, ProfileInv, ProfileTypeOK, AvatarIsStored, profileVars
<1>2. \A v \in Workers : InProfiles(v)' => ProfileFits(job[v])'
  <2> SUFFICES ASSUME NEW v \in Workers, InProfiles(v)' PROVE ProfileFits(job[v])'
    OBVIOUS
  <2>1. v # w /\ job'[v] = job[v]
    BY DEF Onto, InProfiles, ProfileOps, Idle, LibraryJob
  <2>2. ProfileFits(job[v])
    BY <2>1 DEF Inv, ProfileInv, InProfiles
  <2> QED BY <2>1, <2>2 DEF ProfileFits, ProfileJob, profileVars
<1>3. KeepsEdits
  BY DEF KeepsEdits, profileVars
<1> QED BY <1>1, <1>2, <1>3 DEF ProfileInv

LEMMA StepRows == ASSUME Inv, [Next]_vars PROVE StepOK
<1>1. ASSUME NEW w \in Workers, LibraryArrives(w) \/ LibraryStep(w) \/ Abandon(w),
             UNCHANGED profileVars
      PROVE  StepOK
  <2>1. Onto(w)
    BY <1>1, LibraryRows DEF Inv
  <2>2. ProfileInv' /\ KeepsEdits
    BY <1>1, <2>1, OntoKeepsProfiles
  <2>3. TagsArriveLinked /\ MoviesArriveLinked
    BY <1>1, OnlyCommitsShow, NothingShown, CommitLinksTags, CommitLinksMovies DEF Inv
  <2> QED BY <2>1, <2>2, <2>3 DEF StepOK, Inv, Onto
<1>2. ASSUME NEW w \in Workers, ProfileArrives(w) \/ ProfileStep(w) \/ LoseRequest(w),
             UNCHANGED libraryVars
      PROVE  StepOK
  <2>1. ProfileStepOK
    BY <1>2, ProfileRows DEF Inv
  <2> QED BY <1>2, <2>1, NothingShown DEF StepOK, Inv, ProfileStepOK, libraryVars
<1>3. CASE UNCHANGED vars
  <2>1. UNCHANGED <<title, tags, links, lastId, profiles, bucket, job>>
    BY <1>3 DEF vars, libraryVars, profileVars
  <2>2. LibraryInv'
    <3>1. Inserting' = Inserting
      BY <2>1 DEF Inserting, InLibrary
    <3>2. \A w \in Workers : InLibrary(w)' => Fits(job[w])'
      BY <2>1 DEF Inv, LibraryInv, InLibrary, Fits, Core, Body, Prepared, Linked, Claimed, Placed,
         Settled, Complete
    <3> QED BY <2>1, <3>1, <3>2 DEF Inv, LibraryInv, LibraryTypeOK, NoDanglingLink, TitleOnce,
           InLibrary, Apart
  <2>3. ProfileInv'
    BY <2>1 DEF Inv, ProfileInv, ProfileTypeOK, AvatarIsStored, InProfiles, ProfileFits
  <2> QED BY <2>1, <2>2, <2>3, NothingShown DEF StepOK, Inv, KeepsEdits
<1> QED BY <1>1, <1>2, <1>3 DEF Next, Arrive, Step, Lose

LEMMA EditRows == ASSUME Inv, EditInv, [EditNext]_<<vars, disturbed>> PROVE EditInv'
<1> SUFFICES ASSUME NEW v \in Workers, v \notin disturbed', job'[v].op = "update_movie"
             PROVE  Replaces(job'[v], links')
  BY DEF EditInv
<1>1. CASE UNCHANGED <<vars, disturbed>>
  BY <1>1 DEF vars, libraryVars, EditInv, Replaces, Unfound
<1> SUFFICES ASSUME EditNext PROVE Replaces(job'[v], links')
  BY <1>1
<1>2. v \notin disturbed /\ \A w \in Workers : Commit(w) => job[w].movie # job'[v].movie
  BY DEF EditNext
<1>3. job[v].op = "update_movie" => Replaces(job[v], links)
  BY <1>2 DEF EditInv
<1>4. ASSUME NEW w \in Workers, Alone(w), Tracks(w), UNCHANGED links
      PROVE  Replaces(job'[v], links')
  BY <1>3, <1>4 DEF Alone, Tracks
<1>5. ASSUME NEW w \in Workers, LibraryArrives(w) \/ LibraryStep(w) \/ Abandon(w)
      PROVE  Replaces(job'[v], links')
  <2>1. CASE Commit(w)
    <3>1. v # w /\ job'[v] = Without(v, job[w].dropped)
      BY <2>1, CommitFacts DEF Inv, Idle
    <3>2. job[v].op = "update_movie"
      BY <3>1 DEF Without
    <3>3. job'[v].movie = job[v].movie
      BY <2>1, <3>1, <3>2, OthersGoOn DEF Inv, InLibrary
    <3> QED BY <1>2, <1>3, <2>1, <3>1, <3>2, <3>3, CommitTracks DEF Inv
  <2>2. CASE ~Commit(w)
    <3>1. w \notin disturbed => (job[w].op = "update_movie" => Replaces(job[w], links))
      BY DEF EditInv
    <3>2. v = w => Tracks(w)
      BY <1>2, <1>5, <2>2, <3>1, LibraryTracks DEF Inv
    <3>3. Alone(w) /\ UNCHANGED links
      BY <1>5, <2>2, LibraryAlone, OnlyCommitsShow DEF Inv
    <3> QED BY <1>3, <3>2, <3>3 DEF Alone, Tracks
  <2> QED BY <2>1, <2>2
<1>6. ASSUME NEW w \in Workers, ProfileArrives(w) \/ ProfileStep(w) \/ LoseRequest(w),
             UNCHANGED libraryVars
      PROVE  Replaces(job'[v], links')
  BY <1>4, <1>6, ProfileAlone DEF Inv, Tracks, libraryVars
<1> QED BY <1>5, <1>6 DEF EditNext, Next, Arrive, Step, Lose

\* The requests of moderators and of users keep what the proofs know of each of them
\* (services/movies_service.py, routes/profiles.py).
THEOREM ContentInvariant == Spec => []Inv
BY InitRows, StepRows, PTL DEF Spec, StepOK

\* Rows, transactions and files stay what the modules say they are.
THEOREM ContentTyped == Spec => []TypeOK
<1>1. Inv => TypeOK
  BY DEF Inv, LibraryInv, ProfileInv, TypeOK, Jobs
<1> QED BY <1>1, ContentInvariant, PTL

\* However many updates link a movie while it is deleted, no link outlives it: a link
\* holds a share lock on the movie until it commits, a deletion the key lock
\* (models/movies.py:17-32, services/movies_service.py:95-115).
THEOREM LinksCorrect == Spec => []NoDanglingLink
<1>1. Inv => NoDanglingLink
  BY DEF Inv, LibraryInv
<1> QED BY <1>1, ContentInvariant, PTL

\* A title belongs to one movie: whoever writes it, or gives it up, keeps it claimed in
\* the unique index until the transaction ends (models/movies.py:114).
THEOREM TitlesUnique == Spec => []TitleOnce
<1>1. Inv => TitleOnce
  BY DEF Inv, LibraryInv
<1> QED BY <1>1, ContentInvariant, PTL

\* A movie and the new tags that come with it appear in one commit, with every link that
\* the request lists (services/movies_service.py:146-174).
THEOREM CreatedWhole == Spec => NothingHalfMade
<1>1. Inv /\ [Next]_vars => [TagsArriveLinked /\ MoviesArriveLinked]_vars
  BY StepRows DEF StepOK
<1> QED BY <1>1, ContentInvariant, PTL DEF Spec, NothingHalfMade, TagsArriveLinked, MoviesArriveLinked

\* The update that commits leaves its movie with every tag that its request lists and does
\* not touch the kinds that it does not mention, whatever other requests did meanwhile
\* (services/movies_service.py:95-115, 202-238).
THEOREM EditedWhole == Spec => EditIsWhole
<1>1. Inv /\ [Next]_vars => [EditsAreWhole]_vars
  BY SavesAreWhole DEF Inv
<1> QED BY <1>1, ContentInvariant, PTL DEF Spec, EditIsWhole, EditsAreWhole

\* Content with its history variable is Content.
THEOREM EditsAreContent == EditSpec => Spec
<1>1. EditInit => Init
  BY DEF EditInit
<1>2. [EditNext]_<<vars, disturbed>> => [Next]_vars
  BY DEF EditNext
<1> QED BY <1>1, <1>2, PTL DEF EditSpec, Spec

\* An update during which no other request saves its movie leaves of the kinds that it
\* mentions what its request lists, and nothing else: its DELETE of a kind finds every
\* link of the kind, and only a commit can add one behind it
\* (services/movies_service.py:95-115, routes/movies.py:433-435).
THEOREM LoneEditsReplace == EditSpec => LoneEditReplaces
<1>1. EditInit => EditInv
  BY DEF EditInit, Init, Idle, EditInv
<1>2. Inv /\ EditInv /\ [EditNext]_<<vars, disturbed>> => EditInv'
  BY EditRows
<1>3. EditSpec => [](Inv /\ EditInv)
  BY <1>1, <1>2, EditsAreContent, ContentInvariant, PTL DEF EditSpec
<1>4. Inv /\ EditInv /\ [EditNext]_<<vars, disturbed>> => [EditsReplace]_<<vars, disturbed>>
  BY SavesReplace DEF Inv
<1> QED BY <1>3, <1>4, PTL DEF EditSpec, LoneEditReplaces, EditsReplace

\* The avatar of a profile is a file of its user in the store (routes/profiles.py:140-144).
THEOREM AvatarCorrect == Spec => []AvatarIsStored
<1>1. Inv => AvatarIsStored
  BY DEF Inv, ProfileInv
<1> QED BY <1>1, ContentInvariant, PTL

\* Edits and uploads of one profile write different columns, so neither undoes the other
\* (routes/profiles.py:91-98, 142-145).
THEOREM EditsKept == Spec => NoLostEdit
<1>1. Inv /\ [Next]_vars => [KeepsEdits]_vars
  BY StepRows DEF StepOK
<1> QED BY <1>1, ContentInvariant, PTL DEF Spec, NoLostEdit, KeepsEdits
=============================================================================
