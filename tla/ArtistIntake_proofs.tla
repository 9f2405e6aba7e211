------------------------- MODULE ArtistIntake_proofs -------------------------
(***************************************************************************)
(* Theorems about ArtistIntake, for every set of images, addresses,        *)
(* releases and requests:                                                  *)
(*   IntakeTypes    rows keep their types, and requests what they read,    *)
(*   IntakeImages   an image in storage is listed, on its way or lost by   *)
(*                  one of the steps that the model names,                 *)
(* and until a write is excused                                            *)
(*   IntakeDraft    the draft of a linked intake is whole, and             *)
(*   IntakeEdits    the owner's edits of it are not overwritten.           *)
(***************************************************************************)
EXTENDS ArtistIntake, TLAPS

Carrying == {"stored", "register", "unstore"}
Converting == {"profile", "releases", "link"}
Pcs == {"idle", "save", "upload", "review", "reopen", "rotate", "listed", "delete", "archive"}
       \union Carrying \union Converting

Request == [pc : Pcs, linked : BOOLEAN, paths : SUBSET Images,
            content : Content \union {None}, image : Images \union {None},
            left : SUBSET Releases]

\* A request carries an image from the upload to the registration, and answers from
\* the reading of the intake to the link; it reopens and converts only an intake that
\* it read as not linked.
Knows(q) ==
  /\ q.image # None <=> q.pc \in Carrying
  /\ q.content # None <=> q.pc \in Converting
  /\ q.pc \in {"reopen"} \union Converting => ~q.linked
  /\ q.pc = "profile" => q.left = q.content.releases

Types ==
  /\ TypeOK
  /\ request \in [Requests -> Request]
  /\ \A r \in Requests : Knows(request[r])

\* An image on its way is nobody else's. It is listed nowhere, unless its
\* registration was not answered, and until it is to be deleted it is in storage.
Carried == \A r \in Requests : request[r].image # None =>
  /\ \A o \in Requests \ {r} : request[o].image # request[r].image
  /\ request[r].image \in intake.paths => request[r].image \in missing
  /\ \A o \in Requests : request[r].image \in request[o].paths => request[r].image \in missing
  /\ request[r].pc # "unstore" => request[r].image \in stored \union missing

\* An archive of an intake that was not linked has deleted what it read, or lost it.
Archiving(r) == request[r].pc = "archive" /\ ~Linked(r)
Emptied == \A r \in Requests : Archiving(r) => request[r].paths \intersect stored \subseteq orphans
Accounted ==
  /\ stored \subseteq intake.paths \union InFlight \union orphans
  /\ \A i \in intake.paths \ (stored \union missing) :
       \E r \in Requests : Archiving(r) /\ i \in request[r].paths

Files == Carried /\ Emptied /\ Accounted

\* Answers are saved and reviewed only in an intake that was read as not linked.
Unlinked == \A r \in Requests : request[r].pc \in {"save", "review"} => ~Linked(r)

\* How far a conversion has come with the draft.
Converted == \A r \in Requests :
  /\ request[r].pc \in {"releases", "link"} =>
       profile # None /\ request[r].content.releases \ request[r].left \subseteq rows
  /\ request[r].pc = "link" =>
       /\ request[r].content.releases \subseteq rows
       /\ ~profile.edited => /\ profile.image = request[r].content.image
                             /\ profile.catalog = request[r].content.releases

Whole == intake.linked =>
  /\ intake.status \in {"CONVERTED", "ARCHIVED"}
  /\ profile # None
  /\ ~profile.edited => /\ profile.image = intake.content.image
                        /\ profile.catalog = intake.content.releases
  /\ intake.content.releases \subseteq rows

Drafts == Unlinked /\ Converted /\ Whole
IInv == Types /\ Files /\ (excused \/ Drafts)

LEMMA IdleKnows == Idle \in Request /\ Knows(Idle) /\ Idle.pc = "idle" /\ Idle.image = None
                   /\ Idle.content = None /\ Idle.paths = {}
BY DEF Idle, Request, Knows, Pcs, Carrying, Converting

LEMMA InitIInv == Init => IInv
<1> SUFFICES ASSUME Init PROVE IInv
  OBVIOUS
<1>1. \A r \in Requests : request[r] = Idle BY DEF Init
<1>2. request \in [Requests -> Request] BY <1>1, IdleKnows DEF Init
<1>3. intake \in Intake /\ intake.paths = {} /\ ~intake.linked
  <2>1. PICK x \in Releases :
          intake = [status |-> "DRAFT", expired |-> FALSE, linked |-> FALSE, paths |-> {},
                    content |-> [image |-> None, releases |-> {x}]]
    BY DEF Init
  <2>2. {x} \in (SUBSET Releases) \ {{}} OBVIOUS
  <2>3. [image |-> None, releases |-> {x}] \in Content BY <2>2 DEF Content
  <2> QED BY <2>1, <2>3 DEF Intake
<1>4. TypeOK BY <1>3 DEF Init, TypeOK
<1>5. Types BY <1>1, <1>2, <1>4, IdleKnows DEF Types
<1>6. Carried /\ Emptied BY <1>1, IdleKnows DEF Carried, Emptied, Archiving
<1>7. Accounted BY <1>3 DEF Init, Accounted
<1>8. Drafts BY <1>1, <1>3, IdleKnows DEF Drafts, Unlinked, Converted, Whole
<1> QED BY <1>5, <1>6, <1>7, <1>8 DEF IInv, Files

\* What a step finds in the row and in its request.
LEMMA Known ==
  ASSUME IInv, NEW r \in Requests
  PROVE  /\ intake \in Intake /\ intake.content \in Content /\ intake.paths \subseteq Images
         /\ intake.linked \in BOOLEAN
         /\ excused \in BOOLEAN /\ profile \in Profile \union {None} /\ rows \subseteq Releases
         /\ stored \subseteq Images /\ orphans \subseteq Images /\ missing \subseteq Images
         /\ request[r] \in Request /\ Knows(request[r])
         /\ request[r].paths \subseteq Images
BY DEF IInv, Types, TypeOK, Intake, Request

-----------------------------------------------------------------------------
(* One request is replaced *)

LEMMA Others ==
  ASSUME IInv, NEW r \in Requests, NEW q \in Request, Knows(q), TypeOK',
         request' = [request EXCEPT ![r] = q]
  PROVE  /\ Types'
         /\ \A o \in Requests : request'[o] = IF o = r THEN q ELSE request[o]
<1>1. \A o \in Requests : request'[o] = IF o = r THEN q ELSE request[o] BY DEF IInv, Types
<1>2. request' \in [Requests -> Request] BY DEF IInv, Types
<1>3. \A o \in Requests : Knows(request'[o]) BY <1>1 DEF IInv, Types
<1> QED BY <1>1, <1>2, <1>3 DEF Types

\* A step that leaves the files alone, and reads at most the list.
LEMMA FilesKept ==
  ASSUME IInv, NEW r \in Requests, NEW q \in Request, Knows(q),
         request' = [request EXCEPT ![r] = q], UNCHANGED files, intake'.paths = intake.paths,
         request[r].pc # "archive", q.pc # "archive", q.image = request[r].image,
         q.paths \subseteq intake.paths \union request[r].paths,
         q.pc \in {"stored", "register"} => request[r].pc # "unstore"
  PROVE  Files'
<1> USE DEF files
<1>1. \A o \in Requests : request'[o] = IF o = r THEN q ELSE request[o] BY DEF IInv, Types
<1>2. InFlight' = InFlight BY <1>1 DEF InFlight
<1>3. Carried'
  <2>1. q.image # None => q.pc \in Carrying BY DEF Knows
  <2>2. q.image # None /\ q.pc # "unstore" => q.image \in stored \union missing
    BY <2>1 DEF Carrying, IInv, Files, Carried
  <2> SUFFICES ASSUME NEW o \in Requests, request'[o].image # None
               PROVE  /\ \A p \in Requests \ {o} : request'[p].image # request'[o].image
                      /\ request'[o].image \in intake.paths => request'[o].image \in missing
                      /\ \A p \in Requests :
                           request'[o].image \in request'[p].paths => request'[o].image \in missing
                      /\ request'[o].pc # "unstore" => request'[o].image \in stored \union missing
    BY DEF Carried
  <2>3. request'[o].image = request[o].image /\ request[o].image # None BY <1>1
  <2>4. \A p \in Requests \ {o} : request'[p].image # request'[o].image
    BY <1>1, <2>3 DEF IInv, Files, Carried
  <2>5. request'[o].image \in intake.paths => request'[o].image \in missing
    BY <2>3 DEF IInv, Files, Carried
  <2>6. ASSUME NEW p \in Requests, request'[o].image \in request'[p].paths
        PROVE  request'[o].image \in missing
    BY <1>1, <2>3, <2>5, <2>6 DEF IInv, Files, Carried
  <2>7. request'[o].pc # "unstore" => request'[o].image \in stored \union missing
    BY <1>1, <2>2, <2>3 DEF IInv, Files, Carried
  <2> QED BY <2>4, <2>5, <2>6, <2>7
<1>4. \A o \in Requests : Archiving(o)' <=> o # r /\ Archiving(o) BY <1>1 DEF Archiving, Linked
<1>5. \A o \in Requests : Archiving(o) => o # r BY DEF Archiving
<1>6. Emptied' BY <1>1, <1>4 DEF IInv, Files, Emptied
<1>7. Accounted'
  <2>1. \A i \in intake.paths \ (stored \union missing) :
          \E o \in Requests : Archiving(o)' /\ i \in request'[o].paths
    BY <1>1, <1>4, <1>5 DEF IInv, Files, Accounted
  <2> QED BY <1>2, <2>1 DEF IInv, Files, Accounted
<1> QED BY <1>3, <1>6, <1>7 DEF Files

\* A step that leaves the draft alone, and neither goes on with a conversion nor
\* writes anything but a status into the row.
LEMMA DraftQuiet ==
  ASSUME IInv, NEW r \in Requests, NEW q \in Request,
         request' = [request EXCEPT ![r] = q], UNCHANGED draft,
         intake'.linked = intake.linked, intake'.content = intake.content,
         intake'.status \in {intake.status, "ARCHIVED"},
         q.pc \notin {"releases", "link"},
         excused \/ (q.pc \in {"save", "review"} => ~q.linked)
  PROVE  excused \/ Drafts'
<1> SUFFICES ASSUME ~excused PROVE Drafts'
  OBVIOUS
<1>1. \A o \in Requests : request'[o] = IF o = r THEN q ELSE request[o] BY DEF IInv, Types
<1>2. Unlinked' BY <1>1 DEF IInv, Drafts, Unlinked, Linked
<1>3. Converted' BY <1>1 DEF IInv, Drafts, Converted, draft
<1>4. Whole' BY DEF IInv, Drafts, Whole, draft
<1> QED BY <1>2, <1>3, <1>4 DEF Drafts

\* A step that only moves a request on, and not past a step of a conversion or of an
\* archive.
LEMMA MoveStep ==
  ASSUME IInv, NEW r \in Requests, NEW q \in Request, Knows(q),
         request' = [request EXCEPT ![r] = q],
         UNCHANGED <<intake, files, draft, excused>>,
         request[r].pc # "archive", q.pc \notin {"archive", "releases", "link"},
         q.image = request[r].image, q.paths \subseteq intake.paths \union request[r].paths,
         q.pc \in {"stored", "register"} => request[r].pc # "unstore",
         excused \/ (q.pc \in {"save", "review"} => ~q.linked)
  PROVE  IInv'
<1>1. TypeOK' BY DEF IInv, Types, TypeOK, files, draft
<1>2. Types' BY <1>1, Others
<1>3. Files' BY FilesKept
<1>4. excused \/ Drafts' BY DraftQuiet
<1> QED BY <1>2, <1>3, <1>4 DEF IInv

-----------------------------------------------------------------------------
(* Reading *)

LEMMA BeginStep ==
  ASSUME IInv, NEW r \in Requests, NEW q \in Request, Knows(q), Begin(r, q),
         q.pc \notin {"archive", "releases", "link"} \union Carrying,
         q.image = None, q.paths = {},
         excused \/ (q.pc \in {"save", "review"} => ~q.linked)
  PROVE  IInv'
<1>1. request[r].pc = "idle" /\ request' = [request EXCEPT ![r] = q]
      /\ UNCHANGED <<intake, files, draft, excused>>
  BY DEF Begin
<1>2. request[r].image = None BY <1>1, Known DEF Knows, Carrying
<1> QED BY <1>1, <1>2, MoveStep DEF Carrying

\* An intake that takes answers or reviews is not linked.
LEMMA OpenUnlinked ==
  ASSUME IInv, intake.status \in {"DRAFT", "SUBMITTED", "REVIEWED"}, ~excused
  PROVE  ~intake.linked
BY DEF IInv, Drafts, Whole

LEMMA ReadLinked ==
  ASSUME IInv, NEW r \in Requests, NEW pc \in {"save", "review", "reopen", "rotate"}, Read(r, pc),
         pc \in {"save", "review"} => intake.status \in {"DRAFT", "SUBMITTED", "REVIEWED"},
         pc = "reopen" => ~intake.linked
  PROVE  IInv'
<1> DEFINE q == [Idle EXCEPT !.pc = pc, !.linked = intake.linked]
<1>1. Begin(r, q) BY DEF Read
<1>2. pc \in Pcs /\ intake.linked \in BOOLEAN BY Known DEF Pcs
<1>3. q \in Request /\ q.pc = pc /\ q.linked = intake.linked /\ q.image = None
      /\ q.content = None /\ q.paths = {}
  BY <1>2 DEF Idle, Request
<1> HIDE DEF q
<1>4. Knows(q) BY <1>3 DEF Knows, Carrying, Converting
<1>5. q.pc \notin {"archive", "releases", "link"} \union Carrying BY <1>3 DEF Carrying
<1>6. excused \/ (q.pc \in {"save", "review"} => ~q.linked) BY <1>3, OpenUnlinked
<1> QED BY <1>1, <1>3, <1>4, <1>5, <1>6, BeginStep

LEMMA ReadOther ==
  ASSUME IInv, NEW r \in Requests, NEW pc \in {"upload", "listed"},
         Begin(r, [Idle EXCEPT !.pc = pc])
  PROVE  IInv'
<1> DEFINE q == [Idle EXCEPT !.pc = pc]
<1>1. q \in Request /\ q.pc = pc /\ q.image = None /\ q.content = None /\ q.paths = {}
  BY DEF Idle, Request, Pcs
<1> HIDE DEF q
<1>2. Knows(q) BY <1>1 DEF Knows, Carrying, Converting
<1>3. q.pc \notin {"archive", "releases", "link", "save", "review"} \union Carrying
  BY <1>1 DEF Carrying
<1> QED BY <1>1, <1>2, <1>3, BeginStep DEF q

LEMMA ReadForConversionStep == ASSUME IInv, NEW r \in Requests, ReadForConversion(r) PROVE IInv'
<1> DEFINE q == [Idle EXCEPT !.pc = "profile", !.linked = intake.linked,
                             !.content = intake.content, !.left = intake.content.releases]
<1>1. Begin(r, q) /\ ~intake.linked BY DEF ReadForConversion
<1>2. intake.content \in Content /\ intake.content.releases \in SUBSET Releases
      /\ intake.content # None /\ intake.linked \in BOOLEAN
  BY Known, IntakeConstants DEF Content
<1>3. q \in Request /\ q.pc = "profile" /\ ~q.linked /\ q.image = None /\ q.paths = {}
      /\ q.content = intake.content /\ q.left = intake.content.releases
  BY <1>1, <1>2 DEF Idle, Request, Pcs, Converting
<1> HIDE DEF q
<1>4. Knows(q) BY <1>2, <1>3 DEF Knows, Carrying, Converting
<1>5. q.pc \notin {"archive", "releases", "link", "save", "review"} \union Carrying
  BY <1>3 DEF Carrying
<1> QED BY <1>1, <1>3, <1>4, <1>5, BeginStep

-----------------------------------------------------------------------------
(* The artist's answers, the administrators' decisions, the owner's edits *)

LEMMA RowStep ==
  ASSUME IInv, NEW r \in Requests, NEW row \in Intake, NEW same \in BOOLEAN,
         request[r].pc \in {"save", "review", "reopen", "rotate", "link"},
         Write(r, row, same), row.paths = intake.paths,
         ~same \/ excused \/ Whole'
  PROVE  IInv'
<1>1. request' = [request EXCEPT ![r] = Idle] /\ intake' = row /\ excused' = (excused \/ ~same)
      /\ UNCHANGED <<files, draft>>
  BY DEF Write, Reply, Stale
<1>2. request[r].image = None BY Known DEF Knows, Carrying
<1>3. TypeOK' BY <1>1, Known DEF TypeOK, files, draft
<1>4. Types' /\ \A o \in Requests : request'[o] = IF o = r THEN Idle ELSE request[o]
  BY <1>1, <1>3, IdleKnows, Others
<1>5. Files' BY <1>1, <1>2, IdleKnows, FilesKept
<1>6. excused' \/ (Unlinked' /\ Converted')
  BY <1>1, <1>4, IdleKnows DEF IInv, Drafts, Unlinked, Linked, Converted, draft
<1> QED BY <1>1, <1>4, <1>5, <1>6 DEF IInv, Drafts

LEMMA SaveStep == ASSUME IInv, NEW r \in Requests, Save(r) PROVE IInv'
<1>1. PICK c \in Content, submit \in BOOLEAN :
        /\ request[r].pc = "save"
        /\ Write(r, [intake EXCEPT !.content = c, !.status = IF submit THEN "SUBMITTED" ELSE "DRAFT"],
                 Same(r))
  BY DEF Save
<1> DEFINE row == [intake EXCEPT !.content = c, !.status = IF submit THEN "SUBMITTED" ELSE "DRAFT"]
<1>2. row \in Intake /\ row.paths = intake.paths /\ row.linked = intake.linked
  BY Known DEF Intake
<1>3. intake' = row BY <1>1 DEF Write
<1> HIDE DEF row
<1>4. Same(r) /\ ~excused => ~intake.linked
  BY <1>1, Known DEF IInv, Drafts, Unlinked, Same, Linked
<1>5. Same(r) /\ ~excused => Whole' BY <1>2, <1>3, <1>4 DEF Whole
<1>6. Same(r) \in BOOLEAN BY DEF Same
<1> QED BY <1>1, <1>2, <1>5, <1>6, RowStep DEF row

LEMMA ReviewStep == ASSUME IInv, NEW r \in Requests, Review(r) PROVE IInv'
<1> DEFINE row == [intake EXCEPT !.status = "REVIEWED"]
<1>1. request[r].pc = "review" /\ Write(r, row, Same(r)) BY DEF Review
<1>2. row \in Intake /\ row.paths = intake.paths /\ row.linked = intake.linked
  BY Known DEF Intake
<1>3. intake' = row BY <1>1 DEF Write
<1> HIDE DEF row
<1>4. Same(r) /\ ~excused => ~intake.linked
  BY <1>1, Known DEF IInv, Drafts, Unlinked, Same, Linked
<1>5. Same(r) /\ ~excused => Whole' BY <1>2, <1>3, <1>4 DEF Whole
<1>6. Same(r) \in BOOLEAN BY DEF Same
<1> QED BY <1>1, <1>2, <1>5, <1>6, RowStep

LEMMA ReopenStep == ASSUME IInv, NEW r \in Requests, Reopen(r) PROVE IInv'
<1> DEFINE row == [intake EXCEPT !.status = "DRAFT", !.expired = FALSE]
<1>1. request[r].pc = "reopen" /\ Write(r, row, Same(r)) BY DEF Reopen
<1>2. row \in Intake /\ row.paths = intake.paths /\ row.linked = intake.linked
  BY Known DEF Intake
<1>3. intake' = row BY <1>1 DEF Write
<1> HIDE DEF row
<1>4. Same(r) => ~intake.linked BY <1>1, Known DEF Knows, Same, Linked
<1>5. Same(r) => Whole' BY <1>2, <1>3, <1>4 DEF Whole
<1>6. Same(r) \in BOOLEAN BY DEF Same
<1> QED BY <1>1, <1>2, <1>5, <1>6, RowStep

LEMMA RotateStep == ASSUME IInv, NEW r \in Requests, Rotate(r) PROVE IInv'
<1> DEFINE row == [intake EXCEPT !.expired = FALSE]
<1>1. request[r].pc = "rotate" /\ Write(r, row, TRUE) BY DEF Rotate
<1>2. row \in Intake /\ row.paths = intake.paths /\ row.content = intake.content
      /\ row.linked = intake.linked /\ row.status = intake.status
  BY Known DEF Intake
<1>3. intake' = row /\ UNCHANGED draft BY <1>1 DEF Write
<1> HIDE DEF row
<1>4. ~excused => Whole' BY <1>2, <1>3 DEF IInv, Drafts, Whole, draft
<1> QED BY <1>1, <1>2, <1>4, RowStep

\* A step that is not one of a request.
LEMMA KeepRequests ==
  ASSUME IInv, TypeOK', UNCHANGED <<request, files, excused>>, intake'.paths = intake.paths,
         excused \/ (Converted' /\ Whole')
  PROVE  IInv'
<1>1. Types' BY DEF IInv, Types
<1>2. Carried' BY DEF IInv, Files, Carried, files
<1>3. \A o \in Requests : Archiving(o)' <=> Archiving(o) BY DEF Archiving, Linked
<1>4. Emptied' BY <1>3 DEF IInv, Files, Emptied, files
<1>5. Accounted' BY <1>3 DEF IInv, Files, Accounted, InFlight, files
<1>6. excused \/ Unlinked' BY DEF IInv, Drafts, Unlinked, Linked
<1> QED BY <1>1, <1>2, <1>4, <1>5, <1>6 DEF IInv, Files, Drafts

LEMMA ExpireStep == ASSUME IInv, Expire PROVE IInv'
<1>1. intake' = [intake EXCEPT !.expired = TRUE] /\ UNCHANGED <<files, draft, request, excused>>
  BY DEF Expire
<1>2. intake \in Intake BY DEF IInv, Types, TypeOK
<1>3. [intake EXCEPT !.expired = TRUE] \in Intake BY <1>2 DEF Intake
<1>4. intake' \in Intake /\ intake'.status = intake.status /\ intake'.linked = intake.linked
      /\ intake'.content = intake.content /\ intake'.paths = intake.paths
  BY <1>1, <1>2, <1>3 DEF Intake
<1>5. TypeOK' BY <1>1, <1>4 DEF IInv, Types, TypeOK, files, draft
<1>6. excused \/ (Converted' /\ Whole')
  BY <1>1, <1>4 DEF IInv, Drafts, Converted, Whole, files, draft
<1> QED BY <1>1, <1>4, <1>5, <1>6, KeepRequests DEF files

LEMMA EditProfileStep == ASSUME IInv, EditProfile PROVE IInv'
<1>1. profile # None /\ profile' = [profile EXCEPT !.edited = TRUE]
      /\ UNCHANGED <<intake, files, rows, request, excused>>
  BY DEF EditProfile
<1>2. profile \in Profile BY <1>1 DEF IInv, Types, TypeOK
<1>3. [profile EXCEPT !.edited = TRUE] \in Profile BY <1>2 DEF Profile
<1>4. profile' \in Profile /\ profile'.edited BY <1>1, <1>2, <1>3 DEF Profile
<1>5. profile' # None BY <1>4, IntakeConstants
<1>6. TypeOK' BY <1>1, <1>4 DEF IInv, Types, TypeOK, files
<1>7. excused \/ (Converted' /\ Whole')
  BY <1>1, <1>4, <1>5 DEF IInv, Drafts, Converted, Whole, files
<1> QED BY <1>1, <1>6, <1>7, KeepRequests DEF files

-----------------------------------------------------------------------------
(* Images *)

LEMMA StoreAssetStep == ASSUME IInv, NEW r \in Requests, StoreAsset(r) PROVE IInv'
<1>1. PICK i \in Images \ Named :
        /\ request[r].pc = "upload"
        /\ stored' = stored \union {i}
        /\ \/ /\ request' = [request EXCEPT ![r].pc = "stored", ![r].image = i]
              /\ UNCHANGED orphans
           \/ Reply(r) /\ orphans' = orphans \union {i}
        /\ UNCHANGED <<intake, missing, draft, excused>>
  BY DEF StoreAsset
<1>2. i # None BY IntakeConstants
<1>3. request[r].image = None /\ request[r].content = None
  BY <1>1, Known DEF Knows, Carrying, Converting
<1>4. PICK q : /\ request' = [request EXCEPT ![r] = q]
               /\ q \in Request /\ Knows(q) /\ q.pc \in {"stored", "idle"}
               /\ q.paths \subseteq request[r].paths
               /\ \/ q.pc = "stored" /\ q.image = i /\ UNCHANGED orphans
                  \/ q.image = None /\ orphans' = orphans \union {i}
  <2>1. CASE Reply(r) /\ orphans' = orphans \union {i}
    BY <2>1, IdleKnows DEF Reply
  <2>2. CASE request' = [request EXCEPT ![r].pc = "stored", ![r].image = i] /\ UNCHANGED orphans
    <3> DEFINE q == [request[r] EXCEPT !.pc = "stored", !.image = i]
    <3>1. request' = [request EXCEPT ![r] = q] BY <2>2 DEF IInv, Types
    <3>2. q \in Request /\ q.pc = "stored" /\ q.image = i /\ q.content = request[r].content
          /\ q.paths = request[r].paths
      BY Known DEF Request, Pcs, Carrying
    <3> HIDE DEF q
    <3>3. Knows(q) BY <1>2, <1>3, <3>2 DEF Knows, Carrying, Converting
    <3> QED BY <2>2, <3>1, <3>2, <3>3
  <2> QED BY <1>1, <2>1, <2>2
<1>5. TypeOK' BY <1>1, <1>4, Known DEF TypeOK, draft
<1>6. Types' /\ \A o \in Requests : request'[o] = IF o = r THEN q ELSE request[o]
  BY <1>4, <1>5, Others
<1>7. \A o \in Requests : request[o].image # i /\ i \notin request[o].paths
  BY <1>2 DEF Named, InFlight
<1>8. i \notin intake.paths /\ i \notin stored BY DEF Named
<1>9. Carried'
  BY <1>1, <1>3, <1>4, <1>6, <1>7, <1>8 DEF IInv, Files, Carried
<1>10. \A o \in Requests : Archiving(o)' <=> Archiving(o) /\ o # r
  BY <1>4, <1>6 DEF Archiving, Linked
<1>11. \A o \in Requests : Archiving(o) => o # r BY <1>1 DEF Archiving
<1>12. Emptied' BY <1>1, <1>4, <1>6, <1>7, <1>10 DEF IInv, Files, Emptied
<1>13. Accounted'
  <2>1. InFlight \subseteq InFlight' BY <1>3, <1>6 DEF InFlight
  <2>2. i \in InFlight' \union orphans' BY <1>2, <1>4, <1>6 DEF InFlight
  <2>3. stored' \subseteq intake'.paths \union InFlight' \union orphans'
    BY <1>1, <1>4, <2>1, <2>2 DEF IInv, Files, Accounted
  <2>4. \A x \in intake'.paths \ (stored' \union missing') :
          \E o \in Requests : Archiving(o)' /\ x \in request'[o].paths
    BY <1>1, <1>6, <1>10, <1>11 DEF IInv, Files, Accounted
  <2> QED BY <2>3, <2>4 DEF Accounted
<1>14. excused \/ Drafts' BY <1>1, <1>4, DraftQuiet
<1> QED BY <1>1, <1>6, <1>9, <1>12, <1>13, <1>14 DEF IInv, Files

LEMMA ReadForRegisterStep == ASSUME IInv, NEW r \in Requests, ReadForRegister(r) PROVE IInv'
<1> DEFINE q == IF intake.status = "DRAFT"
                THEN [request[r] EXCEPT !.pc = "register", !.paths = intake.paths]
                ELSE [request[r] EXCEPT !.pc = "unstore"]
<1>1. request[r].pc = "stored" /\ request' = [request EXCEPT ![r] = q]
      /\ UNCHANGED <<intake, files, draft, excused>>
  BY DEF ReadForRegister, IInv, Types
<1>2. q \in Request /\ q.pc \in {"register", "unstore"} /\ q.image = request[r].image
      /\ q.content = request[r].content /\ q.linked = request[r].linked
      /\ q.paths \subseteq intake.paths \union request[r].paths
  BY Known DEF Request, Pcs, Carrying
<1> HIDE DEF q
<1>3. Knows(q) BY <1>1, <1>2, Known DEF Knows, Carrying, Converting
<1> QED BY <1>1, <1>2, <1>3, MoveStep

\* What the list becomes when an image is registered: the rest of it was read.
LEMMA ListingStep ==
  ASSUME IInv, NEW r \in Requests, Listing(r), NEW q \in Request, Knows(q),
         request' = [request EXCEPT ![r] = q], UNCHANGED <<stored, draft, excused>>,
         \/ q.pc = "idle" /\ q.image = None /\ q.paths = {}
            /\ missing' = missing \union (request[r].paths \ intake.paths)
         \/ q.pc = "unstore" /\ q.image = request[r].image /\ q.paths = request[r].paths
            /\ missing' = missing \union (request[r].paths \ intake.paths) \union {request[r].image}
  PROVE  IInv'
<1>1. request[r].pc = "register"
      /\ intake' = [intake EXCEPT !.paths = request[r].paths \union {request[r].image}]
      /\ orphans' = orphans \union (intake.paths \ request[r].paths)
  BY DEF Listing
<1> PICK i : i = request[r].image OBVIOUS
<1>2. i # None /\ i \in Images
  BY <1>1, Known DEF Knows, Carrying, Request
<1>3. /\ intake' \in Intake /\ intake'.paths = request[r].paths \union {i}
      /\ intake'.linked = intake.linked /\ intake'.content = intake.content
      /\ intake'.status = intake.status
  BY <1>1, <1>2, Known DEF Intake
<1>4. TypeOK' BY <1>1, <1>2, <1>3, Known DEF TypeOK, draft
<1>5. Types' /\ \A o \in Requests : request'[o] = IF o = r THEN q ELSE request[o]
  BY <1>4, Others
<1>6. i \in stored \union missing BY <1>1, <1>2 DEF IInv, Files, Carried
<1>7. missing \subseteq missing' /\ orphans \subseteq orphans'
      /\ (q.image # None => q.image = i /\ i \in missing' /\ q.pc = "unstore")
      /\ q.paths \subseteq request[r].paths
  BY <1>1
<1>8. Carried'
  <2> SUFFICES ASSUME NEW o \in Requests, request'[o].image # None
               PROVE  /\ \A p \in Requests \ {o} : request'[p].image # request'[o].image
                      /\ request'[o].image \in intake'.paths => request'[o].image \in missing'
                      /\ \A p \in Requests :
                           request'[o].image \in request'[p].paths => request'[o].image \in missing'
                      /\ request'[o].pc # "unstore" => request'[o].image \in stored' \union missing'
    BY DEF Carried
  <2>1. request'[o].image = request[o].image /\ request[o].image # None BY <1>2, <1>5, <1>7
  <2>2. \A p \in Requests \ {o} : request'[p].image # request'[o].image
    BY <1>5, <1>7, <2>1 DEF IInv, Files, Carried
  <2>3. CASE o = r BY <1>5, <1>7, <2>1, <2>2, <2>3
  <2>4. CASE o # r
    <3>1. request[o].image # i BY <2>1, <2>4 DEF IInv, Files, Carried
    <3>2. request[o].image \in request[r].paths => request[o].image \in missing'
      BY <1>7, <2>1 DEF IInv, Files, Carried
    <3>3. \A p \in Requests : request'[p].paths \subseteq request[p].paths BY <1>5, <1>7
    <3> QED BY <1>3, <1>5, <1>7, <2>1, <2>2, <2>4, <3>1, <3>2, <3>3 DEF IInv, Files, Carried
  <2> QED BY <2>3, <2>4
<1>9. \A o \in Requests : Archiving(o)' <=> Archiving(o) /\ o # r
  BY <1>5 DEF Archiving, Linked
<1>10. \A o \in Requests : Archiving(o) => o # r BY <1>1 DEF Archiving
<1>11. Emptied' BY <1>5, <1>7, <1>9 DEF IInv, Files, Emptied
<1>12. Accounted'
  <2>1. InFlight \subseteq InFlight' \union {i} BY <1>5 DEF InFlight
  <2>2. stored' \subseteq intake'.paths \union InFlight' \union orphans'
    BY <1>1, <1>3, <2>1 DEF IInv, Files, Accounted
  <2>3. ASSUME NEW x \in intake'.paths \ (stored' \union missing')
        PROVE  \E o \in Requests : Archiving(o)' /\ x \in request'[o].paths
    <3>1. x # i BY <1>6, <1>7
    <3>2. x \in intake.paths \ (stored \union missing) BY <1>3, <1>7, <3>1
    <3> QED BY <1>5, <1>9, <1>10, <3>2 DEF IInv, Files, Accounted
  <2> QED BY <2>2, <2>3 DEF Accounted
<1>13. excused \/ Drafts' BY <1>3, DraftQuiet
<1> QED BY <1>5, <1>8, <1>11, <1>12, <1>13 DEF IInv, Files

LEMMA RegisterStep == ASSUME IInv, NEW r \in Requests, Register(r) PROVE IInv'
BY IdleKnows, ListingStep DEF Register, Reply

LEMMA FailRegisterStep == ASSUME IInv, NEW r \in Requests, FailRegister(r) PROVE IInv'
<1> DEFINE q == [request[r] EXCEPT !.pc = "unstore"]
<1>1. /\ request[r].pc = "register" /\ request' = [request EXCEPT ![r] = q]
      /\ UNCHANGED <<stored, draft, excused>>
      /\ \/ UNCHANGED <<intake, orphans, missing>>
         \/ /\ Listing(r)
            /\ missing' = missing \union (request[r].paths \ intake.paths) \union {request[r].image}
  BY DEF FailRegister, IInv, Types
<1>2. q \in Request /\ q.pc = "unstore" /\ q.image = request[r].image /\ q.paths = request[r].paths
      /\ q.content = request[r].content /\ q.linked = request[r].linked
  BY Known DEF Request, Pcs, Carrying
<1> HIDE DEF q
<1>3. Knows(q) BY <1>1, <1>2, Known DEF Knows, Carrying, Converting
<1>4. CASE UNCHANGED <<intake, orphans, missing>>
  BY <1>1, <1>2, <1>3, <1>4, MoveStep DEF files
<1>5. CASE Listing(r) /\ missing' = missing \union (request[r].paths \ intake.paths)
                                            \union {request[r].image}
  BY <1>1, <1>2, <1>3, <1>5, ListingStep
<1> QED BY <1>1, <1>4, <1>5

LEMMA DeleteStoredStep == ASSUME IInv, NEW r \in Requests, DeleteStored(r) PROVE IInv'
<1> PICK i : i = request[r].image OBVIOUS
<1>1. /\ request[r].pc = "unstore"
      /\ \/ stored' = stored \ {i} /\ UNCHANGED orphans
         \/ UNCHANGED stored /\ orphans' = orphans \union {i}
      /\ request' = [request EXCEPT ![r] = Idle] /\ UNCHANGED <<intake, missing, draft, excused>>
  BY DEF DeleteStored, Reply
<1>2. i # None /\ i \in Images BY <1>1, Known DEF Knows, Carrying, Request
<1>3. TypeOK' BY <1>1, <1>2, Known DEF TypeOK, draft
<1>4. Types' /\ \A o \in Requests : request'[o] = IF o = r THEN Idle ELSE request[o]
  BY <1>1, <1>3, IdleKnows, Others
<1>5. stored' \subseteq stored /\ stored \ {i} \subseteq stored' /\ orphans \subseteq orphans'
      /\ i \notin stored' \ orphans'
  BY <1>1
<1>6. Carried'
  <2> SUFFICES ASSUME NEW o \in Requests, request'[o].image # None
               PROVE  /\ \A p \in Requests \ {o} : request'[p].image # request'[o].image
                      /\ request'[o].image \in intake'.paths => request'[o].image \in missing'
                      /\ \A p \in Requests :
                           request'[o].image \in request'[p].paths => request'[o].image \in missing'
                      /\ request'[o].pc # "unstore" => request'[o].image \in stored' \union missing'
    BY DEF Carried
  <2>1. o # r /\ request'[o] = request[o] BY <1>4, IdleKnows
  <2>2. request[o].image # i BY <2>1 DEF IInv, Files, Carried
  <2>3. \A p \in Requests : request'[p].paths \subseteq request[p].paths BY <1>4, IdleKnows
  <2>4. \A p \in Requests \ {o} : request'[p].image # request'[o].image
    BY <1>4, <2>1, IdleKnows DEF IInv, Files, Carried
  <2> QED BY <1>1, <1>5, <2>1, <2>2, <2>3, <2>4 DEF IInv, Files, Carried
<1>7. \A o \in Requests : Archiving(o)' <=> Archiving(o) /\ o # r
  BY <1>4, IdleKnows DEF Archiving, Linked
<1>8. \A o \in Requests : Archiving(o) => o # r BY <1>1 DEF Archiving
<1>9. Emptied' BY <1>4, <1>5, <1>7 DEF IInv, Files, Emptied
<1>10. Accounted'
  <2>1. InFlight \subseteq InFlight' \union {i} BY <1>4 DEF InFlight
  <2>2. stored' \subseteq intake'.paths \union InFlight' \union orphans'
    BY <1>1, <1>5, <2>1 DEF IInv, Files, Accounted
  <2>3. i \in intake.paths => i \in missing BY <1>2 DEF IInv, Files, Carried
  <2>4. ASSUME NEW x \in intake'.paths \ (stored' \union missing')
        PROVE  \E o \in Requests : Archiving(o)' /\ x \in request'[o].paths
    <3>1. x \in intake.paths \ (stored \union missing) BY <1>1, <1>5, <2>3
    <3> QED BY <1>4, <1>7, <1>8, <3>1 DEF IInv, Files, Accounted
  <2> QED BY <2>2, <2>4 DEF Accounted
<1>11. excused \/ Drafts' BY <1>1, IdleKnows, DraftQuiet
<1> QED BY <1>1, <1>4, <1>6, <1>9, <1>10, <1>11 DEF IInv, Files

-----------------------------------------------------------------------------
(* Archives, and requests that fail *)

LEMMA ReadForArchiveStep == ASSUME IInv, NEW r \in Requests, ReadForArchive(r) PROVE IInv'
<1> DEFINE q == [Idle EXCEPT !.pc = "delete", !.linked = intake.linked, !.paths = intake.paths]
<1>1. request[r].pc \in {"idle", "listed"} /\ request' = [request EXCEPT ![r] = q]
      /\ UNCHANGED <<intake, files, draft, excused>>
  BY DEF ReadForArchive
<1>2. q \in Request /\ q.pc = "delete" /\ q.paths = intake.paths /\ q.image = None
      /\ q.content = None
  BY Known DEF Idle, Request, Pcs
<1> HIDE DEF q
<1>3. Knows(q) BY <1>2 DEF Knows, Carrying, Converting
<1>4. request[r].image = None BY <1>1, Known DEF Knows, Carrying
<1> QED BY <1>1, <1>2, <1>3, <1>4, MoveStep

LEMMA DeleteImagesStep == ASSUME IInv, NEW r \in Requests, DeleteImages(r) PROVE IInv'
<1> DEFINE doomed == IF Linked(r) THEN {} ELSE request[r].paths \intersect stored
           q == [request[r] EXCEPT !.pc = "archive"]
<1>1. PICK kept \in SUBSET doomed :
        /\ request[r].pc = "delete"
        /\ stored' = stored \ (doomed \ kept) /\ orphans' = orphans \union kept
        /\ request' = [request EXCEPT ![r] = q] /\ UNCHANGED <<intake, missing, draft, excused>>
  BY DEF DeleteImages, IInv, Types
<1>2. q \in Request /\ q.pc = "archive" /\ q.image = request[r].image /\ q.paths = request[r].paths
      /\ q.content = request[r].content /\ q.linked = request[r].linked
  BY Known DEF Request, Pcs
<1> HIDE DEF q
<1>3. Knows(q) /\ q.image = None
  BY <1>1, <1>2, Known DEF Knows, Carrying, Converting
<1>4. doomed \subseteq stored /\ doomed \subseteq request[r].paths OBVIOUS
<1>5. ~Linked(r) => request[r].paths \intersect stored \subseteq doomed OBVIOUS
<1>6. Linked(r) => doomed = {} OBVIOUS
<1> HIDE DEF doomed
<1>7. TypeOK' BY <1>1, <1>4, Known DEF TypeOK, draft
<1>8. Types' /\ \A o \in Requests : request'[o] = IF o = r THEN q ELSE request[o]
  BY <1>1, <1>2, <1>3, <1>7, Others
<1>9. InFlight' = InFlight BY <1>2, <1>8 DEF InFlight
<1>10. Carried'
  <2> SUFFICES ASSUME NEW o \in Requests, request'[o].image # None
               PROVE  /\ \A p \in Requests \ {o} : request'[p].image # request'[o].image
                      /\ request'[o].image \in intake'.paths => request'[o].image \in missing'
                      /\ \A p \in Requests :
                           request'[o].image \in request'[p].paths => request'[o].image \in missing'
                      /\ request'[o].pc # "unstore" => request'[o].image \in stored' \union missing'
    BY DEF Carried
  <2>1. o # r /\ request'[o] = request[o] BY <1>3, <1>8
  <2>2. \A p \in Requests : request'[p].paths = request[p].paths
                            /\ request'[p].image = request[p].image
    BY <1>2, <1>8
  <2>3. request[o].image \in doomed => request[o].image \in missing
    BY <1>4, <2>1 DEF IInv, Files, Carried
  <2> QED BY <1>1, <2>1, <2>2, <2>3 DEF IInv, Files, Carried
<1>11. \A o \in Requests : Archiving(o)' <=> Archiving(o) \/ (o = r /\ ~Linked(r))
  BY <1>1, <1>2, <1>8 DEF Archiving, Linked
<1>12. Emptied'
  <2> SUFFICES ASSUME NEW o \in Requests, Archiving(o)'
               PROVE  request'[o].paths \intersect stored' \subseteq orphans'
    BY DEF Emptied
  <2>1. CASE o = r BY <1>1, <1>2, <1>5, <1>8, <1>11, <2>1 DEF Archiving
  <2>2. CASE o # r BY <1>1, <1>8, <1>11, <2>2 DEF IInv, Files, Emptied
  <2> QED BY <2>1, <2>2
<1>13. Accounted'
  <2>1. stored' \subseteq intake'.paths \union InFlight' \union orphans'
    BY <1>1, <1>9 DEF IInv, Files, Accounted
  <2>2. ASSUME NEW x \in intake'.paths \ (stored' \union missing')
        PROVE  \E o \in Requests : Archiving(o)' /\ x \in request'[o].paths
    <3>1. CASE x \in stored
      <4>1. x \in doomed BY <1>1, <2>2, <3>1
      <4>2. Archiving(r)' /\ x \in request'[r].paths
        BY <1>2, <1>4, <1>6, <1>8, <1>11, <4>1
      <4> QED BY <4>2
    <3>2. CASE x \notin stored
      <4>1. PICK o \in Requests : Archiving(o) /\ x \in request[o].paths
        BY <1>1, <2>2, <3>2 DEF IInv, Files, Accounted
      <4>2. Archiving(o)' /\ x \in request'[o].paths BY <1>2, <1>8, <1>11, <4>1
      <4> QED BY <4>2
    <3> QED BY <3>1, <3>2
  <2> QED BY <2>1, <2>2 DEF Accounted
<1>14. excused \/ Drafts' BY <1>1, <1>2, DraftQuiet
<1> QED BY <1>1, <1>8, <1>10, <1>12, <1>13, <1>14 DEF IInv, Files

LEMMA ArchiveStep == ASSUME IInv, NEW r \in Requests, Archive(r) PROVE IInv'
<1> DEFINE paths == IF Linked(r) THEN request[r].paths ELSE {}
<1>1. /\ request[r].pc = "archive"
      /\ intake' = [intake EXCEPT !.status = "ARCHIVED", !.paths = paths]
      /\ orphans' = orphans \union (intake.paths \ request[r].paths)
      /\ missing' = missing \union (paths \ intake.paths)
      /\ request' = [request EXCEPT ![r] = Idle] /\ UNCHANGED <<stored, draft, excused>>
  BY DEF Archive, Reply
<1>2. paths \subseteq request[r].paths /\ (~Linked(r) => paths = {}) OBVIOUS
<1> HIDE DEF paths
<1>3. /\ intake' \in Intake /\ intake'.paths = paths /\ intake'.status = "ARCHIVED"
      /\ intake'.linked = intake.linked /\ intake'.content = intake.content
  BY <1>1, <1>2, Known DEF Intake
<1>4. TypeOK' BY <1>1, <1>2, <1>3, Known DEF TypeOK, draft
<1>5. Types' /\ \A o \in Requests : request'[o] = IF o = r THEN Idle ELSE request[o]
  BY <1>1, <1>4, IdleKnows, Others
<1>6. request[r].image = None BY <1>1, Known DEF Knows, Carrying
<1>7. InFlight' = InFlight BY <1>5, <1>6, IdleKnows DEF InFlight
<1>8. Carried'
  <2> SUFFICES ASSUME NEW o \in Requests, request'[o].image # None
               PROVE  /\ \A p \in Requests \ {o} : request'[p].image # request'[o].image
                      /\ request'[o].image \in intake'.paths => request'[o].image \in missing'
                      /\ \A p \in Requests :
                           request'[o].image \in request'[p].paths => request'[o].image \in missing'
                      /\ request'[o].pc # "unstore" => request'[o].image \in stored' \union missing'
    BY DEF Carried
  <2>1. o # r /\ request'[o] = request[o] BY <1>5, IdleKnows
  <2>2. \A p \in Requests : request'[p].paths \subseteq request[p].paths BY <1>5, IdleKnows
  <2>3. \A p \in Requests \ {o} : request'[p].image # request'[o].image
    BY <1>5, <2>1, IdleKnows DEF IInv, Files, Carried
  <2> QED BY <1>1, <1>2, <1>3, <2>1, <2>2, <2>3 DEF IInv, Files, Carried
<1>9. \A o \in Requests : Archiving(o)' <=> Archiving(o) /\ o # r
  BY <1>5, IdleKnows DEF Archiving, Linked
<1>10. Emptied' BY <1>1, <1>5, <1>9 DEF IInv, Files, Emptied
<1>11. Accounted'
  <2>1. ASSUME NEW x \in stored' PROVE x \in intake'.paths \union InFlight' \union orphans'
    <3>1. x \in stored /\ x \in intake.paths \union InFlight \union orphans
      BY <1>1, <2>1 DEF IInv, Files, Accounted
    <3>2. CASE Linked(r)
      <4>1. paths = request[r].paths BY <3>2 DEF paths
      <4> QED BY <1>1, <1>3, <1>7, <3>1, <4>1
    <3>3. CASE ~Linked(r)
      <4>1. x \in request[r].paths => x \in orphans
        BY <1>1, <3>1, <3>3 DEF IInv, Files, Emptied, Archiving
      <4> QED BY <1>1, <1>7, <3>1, <4>1
    <3> QED BY <3>2, <3>3
  <2>2. ASSUME NEW x \in intake'.paths \ (stored' \union missing')
        PROVE  \E o \in Requests : Archiving(o)' /\ x \in request'[o].paths
    <3>1. Linked(r) /\ x \in intake.paths \ (stored \union missing) BY <1>1, <1>2, <1>3, <2>2
    <3>2. ~Archiving(r) BY <3>1 DEF Archiving
    <3> QED BY <1>5, <1>9, <3>1, <3>2 DEF IInv, Files, Accounted
  <2> QED BY <2>1, <2>2 DEF Accounted
<1>12. excused \/ Drafts' BY <1>1, <1>3, IdleKnows, DraftQuiet
<1> QED BY <1>1, <1>5, <1>8, <1>10, <1>11, <1>12 DEF IInv, Files

LEMMA FailStep == ASSUME IInv, NEW r \in Requests, Fail(r) PROVE IInv'
<1>1. /\ orphans' = orphans \union ({request[r].image} \ {None})
      /\ missing' = IF Archiving(r) THEN missing \union request[r].paths ELSE missing
      /\ request' = [request EXCEPT ![r] = Idle] /\ UNCHANGED <<intake, stored, draft, excused>>
  BY DEF Fail, Reply, Archiving
<1>2. TypeOK'
  <2>1. request[r].image # None => request[r].image \in Images BY Known DEF Request
  <2> QED BY <1>1, <2>1, Known DEF TypeOK, draft
<1>3. Types' /\ \A o \in Requests : request'[o] = IF o = r THEN Idle ELSE request[o]
  BY <1>1, <1>2, IdleKnows, Others
<1>4. Carried'
  <2> SUFFICES ASSUME NEW o \in Requests, request'[o].image # None
               PROVE  /\ \A p \in Requests \ {o} : request'[p].image # request'[o].image
                      /\ request'[o].image \in intake'.paths => request'[o].image \in missing'
                      /\ \A p \in Requests :
                           request'[o].image \in request'[p].paths => request'[o].image \in missing'
                      /\ request'[o].pc # "unstore" => request'[o].image \in stored' \union missing'
    BY DEF Carried
  <2>1. o # r /\ request'[o] = request[o] BY <1>3, IdleKnows
  <2>2. \A p \in Requests : request'[p].paths \subseteq request[p].paths BY <1>3, IdleKnows
  <2>3. \A p \in Requests \ {o} : request'[p].image # request'[o].image
    BY <1>3, <2>1, IdleKnows DEF IInv, Files, Carried
  <2>4. missing \subseteq missing' BY <1>1
  <2> QED BY <1>1, <2>1, <2>2, <2>3, <2>4 DEF IInv, Files, Carried
<1>5. \A o \in Requests : Archiving(o)' <=> Archiving(o) /\ o # r
  BY <1>3, IdleKnows DEF Archiving, Linked
<1>6. Emptied' BY <1>1, <1>3, <1>5 DEF IInv, Files, Emptied
<1>7. Accounted'
  <2>1. InFlight \subseteq InFlight' \union ({request[r].image} \ {None}) BY <1>3 DEF InFlight
  <2>2. stored' \subseteq intake'.paths \union InFlight' \union orphans'
    BY <1>1, <2>1 DEF IInv, Files, Accounted
  <2>3. ASSUME NEW x \in intake'.paths \ (stored' \union missing')
        PROVE  \E o \in Requests : Archiving(o)' /\ x \in request'[o].paths
    <3>1. PICK o \in Requests : Archiving(o) /\ x \in request[o].paths
      BY <1>1, <2>3 DEF IInv, Files, Accounted
    <3>2. o # r BY <1>1, <2>3, <3>1
    <3>3. Archiving(o)' /\ x \in request'[o].paths BY <1>3, <1>5, <3>1, <3>2
    <3> QED BY <3>3
  <2> QED BY <2>2, <2>3 DEF Accounted
<1>8. excused \/ Drafts' BY <1>1, IdleKnows, DraftQuiet
<1> QED BY <1>1, <1>3, <1>4, <1>6, <1>7, <1>8 DEF IInv, Files

-----------------------------------------------------------------------------
(* The conversion *)

\* A conversion that goes on undisturbed is of an intake that is not linked, and is
\* the only one.
LEMMA FreshAlone ==
  ASSUME IInv, NEW r \in Requests, request[r].pc \in Converting, Fresh(r)
  PROVE  /\ ~intake.linked /\ request[r].content = intake.content
         /\ \A o \in Requests \ {r} : request[o].pc \notin Converting
BY Known DEF Fresh, Same, Linked, Knows

\* A step of a conversion r to q that writes the draft.
LEMMA DraftStep ==
  ASSUME IInv, NEW r \in Requests, NEW q \in Request, Knows(q),
         request' = [request EXCEPT ![r] = q], request[r].pc \in Converting, q.pc \in Converting,
         q.paths = request[r].paths, q.content = request[r].content,
         TypeOK', excused' = (excused \/ ~Fresh(r)), UNCHANGED <<intake, files>>,
         q.pc \in {"releases", "link"} =>
           profile' # None /\ (excused \/ q.content.releases \ q.left \subseteq rows'),
         q.pc = "link" =>
           /\ excused \/ q.content.releases \subseteq rows'
           /\ ~profile'.edited => /\ profile'.image = q.content.image
                                  /\ profile'.catalog = q.content.releases
  PROVE  IInv'
<1>1. request[r] \in Request /\ Knows(request[r]) BY Known
<1>2. request[r].image = None /\ q.image = None /\ request[r].pc # "archive"
      /\ q.pc \notin {"archive", "stored", "register", "save", "review"}
  BY <1>1 DEF Knows, Carrying, Converting
<1>3. Types' /\ \A o \in Requests : request'[o] = IF o = r THEN q ELSE request[o]
  BY Others
<1>4. Files' BY <1>2, FilesKept
<1>5. ASSUME ~excused' PROVE Drafts'
  <2>1. ~excused /\ Fresh(r) BY <1>5
  <2>2. ~intake.linked /\ \A o \in Requests \ {r} : request[o].pc \notin Converting
    BY <2>1, FreshAlone
  <2>3. Whole' BY <2>2 DEF Whole
  <2>4. Converted' BY <1>3, <2>1, <2>2 DEF Converted, Converting
  <2>5. Unlinked' BY <1>2, <1>3, <2>1 DEF IInv, Drafts, Unlinked, Linked
  <2> QED BY <2>3, <2>4, <2>5 DEF Drafts
<1> QED BY <1>3, <1>4, <1>5 DEF IInv

\* saveArtistProfile.
LEMMA SaveDraftStep ==
  ASSUME IInv, NEW r \in Requests, NEW from \in {"profile", "releases"}, NEW catalog \in SUBSET Releases,
         NEW to, SaveDraft(r, from, to, catalog),
         to = IF from = "profile" THEN "releases" ELSE "link",
         from = "releases" => catalog = request[r].content.releases
  PROVE  IInv'
<1> DEFINE q == [request[r] EXCEPT !.pc = to]
           new == [image |-> request[r].content.image, catalog |-> catalog, edited |-> FALSE]
<1>1. /\ request[r].pc = from /\ (from = "releases" => request[r].left = {})
      /\ request' = [request EXCEPT ![r] = q] /\ profile' = new
      /\ excused' = (excused \/ ~Fresh(r)) /\ UNCHANGED <<intake, files, rows>>
  BY DEF SaveDraft, Stale, IInv, Types
<1>2. request[r] \in Request /\ Knows(request[r]) BY Known
<1>3. q \in Request /\ q.pc = to /\ q.linked = request[r].linked /\ q.paths = request[r].paths
      /\ q.image = request[r].image /\ q.content = request[r].content /\ q.left = request[r].left
  BY <1>2 DEF Request, Pcs, Converting
<1>4. request[r].pc \in Converting /\ to \in {"releases", "link"} /\ to \in Converting
  BY <1>1 DEF Converting
<1>5. request[r].content \in Content BY <1>2, <1>4 DEF Knows, Request
<1>6. new \in Profile BY <1>5 DEF Content, Profile
<1>7. new.image = request[r].content.image /\ new.catalog = catalog OBVIOUS
<1> HIDE DEF q, new
<1>8. Knows(q) BY <1>1, <1>2, <1>3, <1>4 DEF Knows, Carrying, Converting
<1>9. profile' # None BY <1>1, <1>6, IntakeConstants
<1>10. TypeOK' BY <1>1, <1>6, Known DEF TypeOK, files
<1>11. q.content.releases \ q.left \subseteq rows'
        \/ (excused /\ from = "releases")
  <2>1. CASE from = "profile" BY <1>1, <1>2, <1>3, <2>1 DEF Knows
  <2>2. CASE from = "releases" BY <1>1, <1>3, <2>2 DEF IInv, Drafts, Converted
  <2> QED BY <2>1, <2>2
<1>12. to = "link" => /\ excused \/ q.content.releases \subseteq rows'
                      /\ profile'.image = q.content.image /\ profile'.catalog = q.content.releases
  BY <1>1, <1>3, <1>7, <1>11
<1> QED BY <1>1, <1>3, <1>4, <1>8, <1>9, <1>10, <1>11, <1>12, DraftStep

LEMMA SaveProfileStep == ASSUME IInv, NEW r \in Requests, SaveProfile(r) PROVE IInv'
BY SaveDraftStep DEF SaveProfile

LEMMA SaveCatalogStep == ASSUME IInv, NEW r \in Requests, SaveCatalog(r) PROVE IInv'
<1>1. SaveDraft(r, "releases", "link", request[r].content.releases) BY DEF SaveCatalog
<1>2. request[r].pc = "releases" BY <1>1 DEF SaveDraft
<1>3. request[r].content \in Content BY <1>2, Known DEF Knows, Request, Converting
<1>4. request[r].content.releases \in SUBSET Releases BY <1>3 DEF Content
<1> QED BY <1>1, <1>4, SaveDraftStep

LEMMA SaveReleaseStep == ASSUME IInv, NEW r \in Requests, SaveRelease(r) PROVE IInv'
<1>1. PICK x \in request[r].left :
        /\ request[r].pc = "releases"
        /\ rows' = rows \union {x}
        /\ request' = [request EXCEPT ![r].left = @ \ {x}]
        /\ Stale(Fresh(r)) /\ UNCHANGED <<intake, files, profile>>
  BY DEF SaveRelease
<1> DEFINE q == [request[r] EXCEPT !.left = @ \ {x}]
<1>2. request' = [request EXCEPT ![r] = q] /\ excused' = (excused \/ ~Fresh(r)) BY <1>1 DEF Stale
<1>3. request[r] \in Request /\ Knows(request[r]) BY Known
<1>4. q \in Request /\ q.pc = request[r].pc /\ q.linked = request[r].linked
      /\ q.paths = request[r].paths /\ q.image = request[r].image
      /\ q.content = request[r].content /\ q.left = request[r].left \ {x}
  BY <1>3 DEF Request
<1>5. x \in Releases BY <1>1, <1>3 DEF Request
<1> HIDE DEF q
<1>6. Knows(q) BY <1>1, <1>3, <1>4 DEF Knows, Carrying, Converting
<1>7. TypeOK' BY <1>1, <1>2, <1>5, Known DEF TypeOK, files
<1>8. request[r].pc \in Converting BY <1>1 DEF Converting
<1>9. request[r].image = None /\ q.pc \notin {"archive", "stored", "register"}
  BY <1>3, <1>4, <1>8 DEF Knows, Carrying, Converting
<1>10. CASE excused
  <2>1. Types' BY <1>2, <1>4, <1>6, <1>7, Others
  <2>2. Files' BY <1>1, <1>2, <1>4, <1>6, <1>9, FilesKept
  <2> QED BY <1>2, <1>10, <2>1, <2>2 DEF IInv
<1>11. CASE ~excused
  <2>1. profile' # None /\ q.content.releases \ q.left \subseteq rows'
    BY <1>1, <1>4, <1>11 DEF IInv, Drafts, Converted
  <2> QED BY <1>1, <1>2, <1>4, <1>6, <1>7, <1>8, <2>1, DraftStep
<1> QED BY <1>10, <1>11

LEMMA LinkStep == ASSUME IInv, NEW r \in Requests, Link(r) PROVE IInv'
<1> DEFINE row == [intake EXCEPT !.status = "CONVERTED", !.linked = TRUE]
           same == Fresh(r)
<1>1. request[r].pc = "link" /\ Write(r, row, same) BY DEF Link
<1>2. row \in Intake /\ row.paths = intake.paths /\ row.content = intake.content
      /\ row.linked /\ row.status = "CONVERTED"
  BY Known DEF Intake
<1>3. same \in BOOLEAN BY DEF Fresh
<1>4. intake' = row /\ UNCHANGED draft BY <1>1 DEF Write
<1> HIDE DEF row
<1>5. ASSUME same, ~excused PROVE Whole'
  <2>1. request[r].content = intake.content BY <1>5 DEF Fresh
  <2>2. /\ profile # None /\ intake.content.releases \subseteq rows
        /\ ~profile.edited => /\ profile.image = intake.content.image
                              /\ profile.catalog = intake.content.releases
    BY <1>1, <1>5, <2>1 DEF IInv, Drafts, Converted
  <2> QED BY <1>2, <1>4, <2>2 DEF Whole, draft
<1> HIDE DEF same
<1> QED BY <1>1, <1>2, <1>3, <1>5, RowStep

-----------------------------------------------------------------------------
(* The invariant, and the theorems *)

LEMMA ReadSteps ==
  ASSUME IInv, NEW r \in Requests,
         \/ ReadForSave(r) \/ ReadForReview(r) \/ ReadForReopen(r) \/ ReadForRotate(r)
         \/ ReadForUpload(r) \/ ListExpired(r)
  PROVE  IInv'
<1>1. ReadForSave(r) => IInv' BY ReadLinked DEF ReadForSave, Editable
<1>2. ReadForReview(r) => IInv' BY ReadLinked DEF ReadForReview, Submitted
<1>3. ReadForReopen(r) => IInv' BY ReadLinked DEF ReadForReopen
<1>4. ReadForRotate(r) => IInv' BY ReadLinked DEF ReadForRotate
<1>5. ReadForUpload(r) => IInv' BY ReadOther DEF ReadForUpload
<1>6. ListExpired(r) => IInv' BY ReadOther DEF ListExpired
<1> QED BY <1>1, <1>2, <1>3, <1>4, <1>5, <1>6

LEMMA NextIInv == IInv /\ [Next]_vars => IInv'
<1> SUFFICES ASSUME IInv, [Next]_vars PROVE IInv'
  OBVIOUS
<1>1. ASSUME NEW r \in Requests,
             \/ ReadForSave(r) \/ ReadForReview(r) \/ ReadForReopen(r) \/ ReadForRotate(r)
             \/ ReadForUpload(r) \/ ListExpired(r)
      PROVE  IInv'
  BY <1>1, ReadSteps
<1>2. ASSUME NEW r \in Requests, Save(r) \/ Review(r) \/ Reopen(r) \/ Rotate(r) PROVE IInv'
  BY <1>2, SaveStep, ReviewStep, ReopenStep, RotateStep
<1>3. ASSUME NEW r \in Requests,
             \/ StoreAsset(r) \/ ReadForRegister(r) \/ Register(r) \/ FailRegister(r)
             \/ DeleteStored(r)
      PROVE  IInv'
  BY <1>3, StoreAssetStep, ReadForRegisterStep, RegisterStep, FailRegisterStep, DeleteStoredStep
<1>4. ASSUME NEW r \in Requests, ReadForArchive(r) \/ DeleteImages(r) \/ Archive(r) PROVE IInv'
  BY <1>4, ReadForArchiveStep, DeleteImagesStep, ArchiveStep
<1>5. ASSUME NEW r \in Requests,
             \/ ReadForConversion(r) \/ SaveProfile(r) \/ SaveRelease(r) \/ SaveCatalog(r) \/ Link(r)
      PROVE  IInv'
  BY <1>5, ReadForConversionStep, SaveProfileStep, SaveReleaseStep, SaveCatalogStep, LinkStep
<1>6. ASSUME NEW r \in Requests, Fail(r) PROVE IInv' BY <1>6, FailStep
<1>7. EditProfile \/ Expire => IInv' BY EditProfileStep, ExpireStep
<1>8. CASE UNCHANGED vars
  <2>1. excused \/ (Converted' /\ Whole')
    BY <1>8 DEF vars, files, draft, IInv, Drafts, Converted, Whole
  <2>2. TypeOK' BY <1>8 DEF vars, files, draft, IInv, Types, TypeOK
  <2>3. UNCHANGED <<request, files, excused, intake>> BY <1>8 DEF vars, files
  <2> QED BY <2>1, <2>2, <2>3, KeepRequests
<1> QED BY <1>1, <1>2, <1>3, <1>4, <1>5, <1>6, <1>7, <1>8 DEF Next

LEMMA Invariance == Spec => []IInv
BY InitIInv, NextIInv, PTL DEF Spec

\* Whatever requests interleave and fail, the rows keep their declared shape, and
\* every request under way has what its later steps use: an upload its image, a
\* conversion the answers it read, and a reopening and a conversion started from an
\* intake that was not linked.
THEOREM IntakeTypes ==
  Spec => [](/\ TypeOK
             /\ request \in [Requests -> Request]
             /\ \A r \in Requests : Knows(request[r]))
<1>1. IInv => /\ TypeOK
              /\ request \in [Requests -> Request]
              /\ \A r \in Requests : Knows(request[r])
  BY DEF IInv, Types
<1> QED BY <1>1, Invariance, PTL

\* Whatever requests interleave, fail or find the storage failing: every image in
\* storage is listed, on its way, or among those a named step lost, and what is
\* listed exists, is being deleted by an archive, or is among those.
THEOREM IntakeImages == Spec => []ImagesAccounted
<1>1. IInv => ImagesAccounted
  BY DEF IInv, Files, Accounted, Archiving, ImagesAccounted
<1> QED BY <1>1, Invariance, PTL

\* However often a conversion failed and was repeated, the draft of a linked intake
\* holds the answers as they were submitted.
THEOREM IntakeDraft == Spec => []LinkedDraftIsWhole
<1>1. IInv => LinkedDraftIsWhole
  BY DEF IInv, Drafts, Whole, LinkedDraftIsWhole
<1> QED BY <1>1, Invariance, PTL

\* No conversion overwrites the owner's edits of a draft that is already linked.
THEOREM IntakeEdits == Spec => EditsSurvive
<1>1. ASSUME IInv, Next, intake.linked, profile # None, profile.edited
      PROVE  excused' \/ profile'.edited
  <2>1. ASSUME NEW r \in Requests, NEW from, NEW to, NEW catalog, from \in Converting,
               SaveDraft(r, from, to, catalog)
        PROVE  excused'
    <3>1. request[r].pc = from /\ excused' = (excused \/ ~Fresh(r)) BY <2>1 DEF SaveDraft, Stale
    <3>2. ~Fresh(r) BY <1>1, <2>1, <3>1, FreshAlone
    <3> QED BY <3>1, <3>2
  <2>2. ASSUME NEW r \in Requests, SaveProfile(r) \/ SaveCatalog(r) PROVE excused'
    BY <2>1, <2>2 DEF SaveProfile, SaveCatalog, Converting
  <2>3. EditProfile => profile'.edited
    <3>1. profile \in Profile BY <1>1 DEF IInv, Types, TypeOK
    <3> QED BY <3>1 DEF EditProfile, Profile
  <2>4. ASSUME NEW r \in Requests,
               \/ ReadForSave(r) \/ ReadForReview(r) \/ ReadForReopen(r) \/ ReadForRotate(r)
               \/ ReadForUpload(r) \/ ListExpired(r) \/ ReadForConversion(r)
        PROVE  UNCHANGED profile
    BY <2>4 DEF ReadForSave, ReadForReview, ReadForReopen, ReadForRotate, ReadForUpload,
                ListExpired, ReadForConversion, Read, Begin, draft
  <2>5. ASSUME NEW r \in Requests,
               \/ Save(r) \/ Review(r) \/ Reopen(r) \/ Rotate(r) \/ Archive(r) \/ Link(r)
        PROVE  UNCHANGED profile
    BY <2>5 DEF Save, Review, Reopen, Rotate, Archive, Link, Write, draft
  <2>6. ASSUME NEW r \in Requests,
               \/ StoreAsset(r) \/ ReadForRegister(r) \/ Register(r) \/ FailRegister(r)
               \/ DeleteStored(r) \/ ReadForArchive(r) \/ DeleteImages(r) \/ SaveRelease(r) \/ Fail(r)
        PROVE  UNCHANGED profile
    BY <2>6 DEF StoreAsset, ReadForRegister, Register, FailRegister, DeleteStored,
                ReadForArchive, DeleteImages, SaveRelease, Fail, draft
  <2>7. Expire => UNCHANGED profile BY DEF Expire, draft
  <2> QED BY <1>1, <2>2, <2>3, <2>4, <2>5, <2>6, <2>7 DEF Next
<1>2. IInv /\ [Next]_vars =>
        [intake.linked /\ profile # None /\ profile.edited => excused' \/ profile'.edited]_vars
  BY <1>1
<1> QED BY <1>2, Invariance, PTL DEF Spec, EditsSurvive
=============================================================================
