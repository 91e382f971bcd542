------------------------------- MODULE Profiles -------------------------------
(***************************************************************************)
(* The profile of a user and its avatar (routes/profiles.py, storages/).   *)
(* The file goes to the object store before anything is written to the     *)
(* database, and a profile that does not exist yet is created in a         *)
(* transaction of its own, so an upload has three steps that last.         *)
(***************************************************************************)
EXTENDS Desk

CONSTANTS
  Users,
  Infos,     \* values of the fields that the user edits, all of them as one
  MaxFiles   \* bound on the uploads

FileId == 1..MaxFiles
ProfileOps == {"get_my_profile", "update_my_profile", "upload_my_avatar"}
Profile == [info : Infos \cup {"unset"}, avatar : FileId \cup {0}]
Blank == [info |-> "unset", avatar |-> 0]
NoProfile == [info |-> "none", avatar |-> 0]

ASSUME ProfileConstantsOk == MaxFiles \in Nat /\ {"unset", "none"} \cap Infos = {}

VARIABLES
  profiles,  \* table user_profiles: the profile of each user, NoProfile when there is none
  bucket     \* the object store: the files and who uploaded them

profileVars == <<profiles, bucket>>

\* seen: the profile as the request has loaded it; info, file: what it writes.
ProfileJob ==
  [ op : ProfileOps, pc : {"put_file", "find", "insert", "write"}, user : Users,
    info : Infos \cup {"unset"}, file : FileId \cup {0}, seen : Profile ]

ProfileTypeOK ==
  /\ profiles \in [Users -> Profile \cup {NoProfile}]
  /\ bucket \subseteq [id : FileId, owner : Users]

ProfileInit ==
  /\ profiles = [u \in Users |-> NoProfile]
  /\ bucket = {}

-----------------------------------------------------------------------------
InProfiles(w) == job[w].op \in ProfileOps
On(w, label) == InProfiles(w) /\ job[w].pc = label

Open(w, op, label, u, info) ==
  /\ job[w] = Idle
  /\ job' = [job EXCEPT ![w] =
       [op |-> op, pc |-> label, user |-> u, info |-> info, file |-> 0, seen |-> Blank]]
  /\ UNCHANGED profileVars

GetMyProfile(w, u) == Open(w, "get_my_profile", "find", u, "unset")
UpdateMyProfile(w, u, info) == Open(w, "update_my_profile", "find", u, info)

RoomForFile ==
  Cardinality(bucket) + Cardinality({w \in Workers : On(w, "put_file")}) < MaxFiles

\* 400 unless it is an image.
UploadMyAvatar(w, u) ==
  RoomForFile /\ Open(w, "upload_my_avatar", "put_file", u, "unset")

\* Mutant of PutFile: a file that the object store refuses is passed over.
PutFileUnchecked(w) ==
  /\ On(w, "put_file")
  /\ \E f \in FileId : job' = [job EXCEPT ![w].pc = "find", ![w].file = f]
  /\ UNCHANGED profileVars

\* upload_fileobj, under a key that no other upload has.  The file stays,
\* whatever becomes of the request.
PutFile(w) ==
  /\ On(w, "put_file")
  /\ \E f \in FileId :
       /\ f = Cardinality(bucket) + 1
       /\ bucket' = bucket \cup {[id |-> f, owner |-> job[w].user]}
       /\ job' = [job EXCEPT ![w].pc = "find", ![w].file = f]
  /\ UNCHANGED profiles

\* The request goes on with the profile p.
Loaded(w, p) ==
  IF job[w].op = "get_my_profile" THEN End(w)
  ELSE job' = [job EXCEPT ![w].pc = "write", ![w].seen = p]

\* _get_or_create_profile: the SELECT ...
FindProfile(w) ==
  /\ On(w, "find")
  /\ IF profiles[job[w].user] = NoProfile
     THEN job' = [job EXCEPT ![w].pc = "insert"]
     ELSE Loaded(w, profiles[job[w].user])
  /\ UNCHANGED profileVars

\* ... and the INSERT with its commit.  user_id is unique: 500 when another request
\* was faster.
InsertProfile(w) ==
  /\ On(w, "insert")
  /\ IF profiles[job[w].user] # NoProfile
     THEN End(w) /\ UNCHANGED profiles
     ELSE /\ profiles' = [profiles EXCEPT ![job[w].user] = Blank]
          /\ Loaded(w, Blank)
  /\ UNCHANGED bucket

\* Mutant of WriteProfile: the UPDATE writes the whole row as it was loaded.
WriteWholeProfile(w) ==
  LET j == job[w]
  IN  /\ On(w, "write")
      /\ profiles' = [profiles EXCEPT ![j.user] =
           IF j.op = "upload_my_avatar" THEN [j.seen EXCEPT !.avatar = j.file]
                                        ELSE [j.seen EXCEPT !.info = j.info]]
      /\ End(w)
      /\ UNCHANGED bucket

\* UPDATE by primary key of the columns whose value is not the one loaded.
WriteProfile(w) ==
  /\ On(w, "write")
  /\ profiles' = [profiles EXCEPT ![job[w].user] =
       IF job[w].op = "upload_my_avatar" THEN [@ EXCEPT !.avatar = job[w].file]
       ELSE IF job[w].info # job[w].seen.info THEN [@ EXCEPT !.info = job[w].info]
       ELSE @]
  /\ End(w)
  /\ UNCHANGED bucket

\* The process dies, the client is gone, or the object store refuses the file.
LoseRequest(w) ==
  /\ InProfiles(w)
  /\ End(w)
  /\ UNCHANGED profileVars

ProfileArrives(w) ==
  \E u \in Users :
    \/ GetMyProfile(w, u)
    \/ \E info \in Infos : UpdateMyProfile(w, u, info)
    \/ UploadMyAvatar(w, u)

ProfileStep(w) ==
  \/ PutFile(w) \/ FindProfile(w) \/ InsertProfile(w) \/ WriteProfile(w)
=============================================================================
