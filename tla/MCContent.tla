------------------------------- MODULE MCContent -------------------------------
(***************************************************************************)
(* Instances of Content for TLC: two genres and a director.  One request   *)
(* names both genres; one lists the id of a genre, names the director and  *)
(* mentions all kinds; one lists the id of the other genre.                *)
(***************************************************************************)
EXTENDS Edits, TLC

CONSTANTS drama, comedy, welles

KindOfTag == drama :> 1 @@ comedy :> 1 @@ welles :> 2

ListedTags ==
  { [ids |-> {}, names |-> {drama, comedy}, kinds |-> {1}],
    [ids |-> {drama}, names |-> {welles}, kinds |-> {1, 2, 3}],
    [ids |-> {comedy}, names |-> {}, kinds |-> {1}] }

\* A state constraint: the requests of moderators and those of users share no table and
\* no lock, so each part is explored to the end while the tables of the other are empty.
OnePart ==
  lastId = 0 \/ (bucket = {} /\ \A u \in Users : profiles[u] = NoProfile)

\* Sound: no property names a worker or a title.
Symmetry == Permutations(Workers) \cup Permutations(Titles)
=============================================================================
