---------------------------- MODULE ArtistIntake ----------------------------
(***************************************************************************)
(* The intake of a managed artist: the artist fills in a form and uploads  *)
(* images through a private link, administrators review, reopen, archive   *)
(* and convert it into an unpublished profile with its releases.  No       *)
(* operation is a transaction: each reads the intake, and writes it later  *)
(* without looking again.                                                  *)
(* Sources: lib/repositories/artist-intakes.ts, app/api/artist-intake.     *)
(*                                                                         *)
(* One intake. Of the answers the address of the profile image and the     *)
(* releases are kept. Any address will do, that of an uploaded image or of *)
(* one elsewhere: the code never compares it with the uploads.             *)
(* A request with a link that was replaced finds no intake: only requests  *)
(* with the present link are modelled. The notification of the owner is    *)
(* left out.                                                               *)
(***************************************************************************)
EXTENDS Integers

CONSTANTS
  Images,    \* images the artist may upload
  Urls,      \* addresses a profile image may have
  Releases,  \* releases the artist may describe
  Requests,  \* requests that may be open at one time
  None

VARIABLES
  intake,    \* the ArtistIntake row
  stored,    \* images in the asset storage
  orphans,   \* history: images that may stay in storage unlisted, each added by
             \* the step that loses it
  missing,   \* history: images that may be listed though deleted, likewise
  profile,   \* the draft ArtistProfile made of the intake, or None
  rows,      \* releases that have a Release row
  request,
  excused    \* history, see Stale

vars == <<intake, stored, orphans, missing, profile, rows, request, excused>>
files == <<stored, orphans, missing>>
draft == <<profile, rows>>

Content == [image : Urls \union {None}, releases : (SUBSET Releases) \ {{}}]
Intake == [status : {"DRAFT", "SUBMITTED", "REVIEWED", "CONVERTED", "ARCHIVED"},
           expired : BOOLEAN, linked : BOOLEAN, paths : SUBSET Images, content : Content]
Profile == [image : Urls \union {None}, catalog : SUBSET Releases, edited : BOOLEAN]

ASSUME IntakeConstants == None \notin Images \union Urls \union Content \union Profile

\* linked, paths, content: what the request has read of the intake; image: its
\* upload; left: releases it has not saved yet.
Idle == [pc |-> "idle", linked |-> FALSE, paths |-> {}, content |-> None, image |-> None,
         left |-> {}]

\* createArtistIntakeInvite, and a first form with one release.
Init ==
  /\ \E x \in Releases :
       intake = [status |-> "DRAFT", expired |-> FALSE, linked |-> FALSE, paths |-> {},
                 content |-> [image |-> None, releases |-> {x}]]
  /\ stored = {} /\ orphans = {} /\ missing = {} /\ rows = {}
  /\ profile = None
  /\ request = [r \in Requests |-> Idle]
  /\ excused = FALSE

Reply(r) == request' = [request EXCEPT ![r] = Idle]
Begin(r, q) == /\ request[r].pc = "idle" /\ request' = [request EXCEPT ![r] = q]
               /\ UNCHANGED <<intake, files, draft, excused>>

\* A write to an intake that was linked since the request read it, and a
\* conversion that is overtaken (see Fresh), are excused from what the properties
\* say of the draft.
Stale(same) == excused' = (excused \/ ~same)
Linked(r) == request[r].linked
Same(r) == Linked(r) = intake.linked
Read(r, pc) == Begin(r, [Idle EXCEPT !.pc = pc, !.linked = intake.linked])

Write(r, row, same) ==
  intake' = row /\ Stale(same) /\ Reply(r) /\ UNCHANGED <<files, draft>>

-----------------------------------------------------------------------------
(* The artist's link: saveArtistIntakeResponse *)

Editable == intake.status = "DRAFT" /\ ~intake.expired
ReadForSave(r) == Editable /\ Read(r, "save")

\* To submit the form the artist gives some address of a profile image.
Save(r) == \E c \in Content, submit \in BOOLEAN :
  /\ request[r].pc = "save"
  /\ submit => c.image # None
  /\ Write(r, [intake EXCEPT !.content = c, !.status = IF submit THEN "SUBMITTED" ELSE "DRAFT"],
           Same(r))

-----------------------------------------------------------------------------
(* The image route, registerArtistIntakeAsset *)

ReadForUpload(r) ==
  /\ intake.status # "SUBMITTED" /\ (intake.status = "DRAFT" => ~intake.expired)
  /\ Begin(r, [Idle EXCEPT !.pc = "upload"])

InFlight == {request[r].image : r \in Requests} \ {None}

\* File names are generated: a new image has a name that is found nowhere.
Named == stored \union orphans \union missing \union InFlight \union intake.paths
         \union UNION {request[r].paths : r \in Requests}

\* Storage may keep the image and not answer: the route ends, and deletes nothing.
StoreAsset(r) == \E i \in Images \ Named :
  /\ request[r].pc = "upload"
  /\ stored' = stored \union {i}
  /\ \/ /\ request' = [request EXCEPT ![r].pc = "stored", ![r].image = i]
        /\ UNCHANGED orphans
     \/ Reply(r) /\ orphans' = orphans \union {i}
  /\ UNCHANGED <<intake, missing, draft, excused>>

ReadForRegister(r) ==
  /\ request[r].pc = "stored"
  /\ request' = [request EXCEPT ![r] =
       IF intake.status = "DRAFT" THEN [@ EXCEPT !.pc = "register", !.paths = intake.paths]
       ELSE [@ EXCEPT !.pc = "unstore"]]
  /\ UNCHANGED <<intake, files, draft, excused>>

\* The list is written back as it was read, with the image: what was added in the
\* meantime is dropped, what an archive removed in the meantime is listed again.
Listing(r) ==
  LET q == request[r]
  IN /\ q.pc = "register"
     /\ intake' = [intake EXCEPT !.paths = q.paths \union {q.image}]
     /\ orphans' = orphans \union (intake.paths \ q.paths)

Register(r) ==
  /\ Listing(r)
  /\ missing' = missing \union (request[r].paths \ intake.paths)
  /\ Reply(r) /\ UNCHANGED <<stored, draft, excused>>

\* Mutant: the image stays in storage.
FailRegisterKeepsImage(r) ==
  /\ request[r].pc = "register"
  /\ Reply(r) /\ UNCHANGED <<intake, files, draft, excused>>

\* The catch of the route, when the intake or the database refused the image, or
\* listed it and the answer was lost: the image is deleted all the same.
FailRegister(r) ==
  LET q == request[r]
  IN /\ q.pc = "register"
     /\ \/ UNCHANGED <<intake, orphans, missing>>
        \/ /\ Listing(r)
           /\ missing' = missing \union (q.paths \ intake.paths) \union {q.image}
     /\ request' = [request EXCEPT ![r].pc = "unstore"]
     /\ UNCHANGED <<stored, draft, excused>>

\* deleteAsset logs an error of the storage and returns.
DeleteStored(r) ==
  LET i == request[r].image
  IN /\ request[r].pc = "unstore"
     /\ \/ stored' = stored \ {i} /\ UNCHANGED orphans
        \/ UNCHANGED stored /\ orphans' = orphans \union {i}
     /\ Reply(r) /\ UNCHANGED <<intake, missing, draft, excused>>

-----------------------------------------------------------------------------
(* Administrators: review, reopen, rotate *)

Submitted == intake.status \in {"SUBMITTED", "REVIEWED"}
ReadForReview(r) == Submitted /\ Read(r, "review")
Review(r) ==
  /\ request[r].pc = "review"
  /\ Write(r, [intake EXCEPT !.status = "REVIEWED"], Same(r))

\* Reopening an archived intake brings back a form whose images may be deleted.
ReadForReopen(r) == ~intake.linked /\ Read(r, "reopen")
Reopen(r) ==
  /\ request[r].pc = "reopen"
  /\ Write(r, [intake EXCEPT !.status = "DRAFT", !.expired = FALSE],
           Same(r))

Rotatable == intake.status = "DRAFT" /\ ~intake.linked
ReadForRotate(r) == Rotatable /\ Read(r, "rotate")
Rotate(r) ==
  /\ request[r].pc = "rotate"
  /\ Write(r, [intake EXCEPT !.expired = FALSE], TRUE)

-----------------------------------------------------------------------------
(* archiveArtistIntake; archiveExpiredArtistIntakes lists, and archives what *)
(* it listed                                                                 *)

ListExpired(r) == /\ Rotatable /\ intake.expired
                  /\ Begin(r, [Idle EXCEPT !.pc = "listed"])

ReadForArchive(r) ==
  /\ request[r].pc \in {"idle", "listed"}
  /\ request' = [request EXCEPT ![r] =
       [Idle EXCEPT !.pc = "delete", !.linked = intake.linked, !.paths = intake.paths]]
  /\ UNCHANGED <<intake, files, draft, excused>>

\* Every image of an intake that is not linked is deleted with deleteAsset, which
\* may fail silently for any of them; those of a linked one are kept.
DeleteImages(r) ==
  LET q == request[r]
      doomed == IF Linked(r) THEN {} ELSE q.paths \intersect stored
  IN /\ q.pc = "delete"
     /\ \E kept \in SUBSET doomed :
          stored' = stored \ (doomed \ kept) /\ orphans' = orphans \union kept
     /\ request' = [request EXCEPT ![r].pc = "archive"]
     /\ UNCHANGED <<intake, missing, draft, excused>>

\* The list is emptied, or that of a linked intake written back, whatever was
\* added to it or removed from it in the meantime.
Archive(r) ==
  LET q == request[r]
      paths == IF Linked(r) THEN q.paths ELSE {}
  IN /\ q.pc = "archive"
     /\ intake' = [intake EXCEPT !.status = "ARCHIVED", !.paths = paths]
     /\ orphans' = orphans \union (intake.paths \ q.paths)
     /\ missing' = missing \union (paths \ intake.paths)
     /\ Reply(r) /\ UNCHANGED <<stored, draft, excused>>

-----------------------------------------------------------------------------
(* convertArtistIntakeToDraft *)

\* Mutant: a linked intake is converted again.
ReadForConversionAgain(r) ==
  /\ Submitted \/ intake.linked
  /\ Begin(r, [Idle EXCEPT !.pc = "profile", !.linked = intake.linked,
                           !.content = intake.content, !.left = intake.content.releases])

ReadForConversion(r) ==
  /\ ~intake.linked /\ Submitted
  /\ Begin(r, [Idle EXCEPT !.pc = "profile", !.linked = intake.linked,
                           !.content = intake.content, !.left = intake.content.releases])

\* The answers a conversion has read have not changed, nobody has linked the intake,
\* and no other conversion is under way.
Fresh(r) ==
  /\ Same(r) /\ request[r].content = intake.content
  /\ \A o \in Requests \ {r} : request[o].content = None

\* Mutant: the profile of an earlier conversion is left as it is.
SaveDraftOnce(r, from, to, catalog) ==
  LET q == request[r]
      old == IF profile = None THEN q.content.image ELSE profile.image
  IN /\ q.pc = from /\ (from = "releases" => q.left = {})
     /\ profile' = [image |-> old, catalog |-> catalog, edited |-> FALSE]
     /\ request' = [request EXCEPT ![r].pc = to]
     /\ Stale(Fresh(r)) /\ UNCHANGED <<intake, files, rows>>

\* saveArtistProfile writes every column, whoever wrote it before.
SaveDraft(r, from, to, catalog) ==
  LET q == request[r]
  IN /\ q.pc = from /\ (from = "releases" => q.left = {})
     /\ profile' = [image |-> q.content.image, catalog |-> catalog, edited |-> FALSE]
     /\ request' = [request EXCEPT ![r].pc = to]
     /\ Stale(Fresh(r)) /\ UNCHANGED <<intake, files, rows>>

SaveProfile(r) == SaveDraft(r, "profile", "releases", {})
SaveCatalog(r) == SaveDraft(r, "releases", "link", request[r].content.releases)

SaveRelease(r) == \E x \in request[r].left :
  /\ request[r].pc = "releases"
  /\ rows' = rows \union {x}
  /\ request' = [request EXCEPT ![r].left = @ \ {x}]
  /\ Stale(Fresh(r)) /\ UNCHANGED <<intake, files, profile>>

Link(r) ==
  /\ request[r].pc = "link"
  /\ Write(r, [intake EXCEPT !.status = "CONVERTED", !.linked = TRUE], Fresh(r))

-----------------------------------------------------------------------------
\* The owner edits the draft profile.
EditProfile == /\ profile # None
               /\ profile' = [profile EXCEPT !.edited = TRUE]
               /\ UNCHANGED <<intake, files, rows, request, excused>>

\* The link's date passes; a draft is shown as EXPIRED from then on.
Expire == /\ ~intake.expired
          /\ intake' = [intake EXCEPT !.expired = TRUE]
          /\ UNCHANGED <<files, draft, request, excused>>

\* A query fails or the process dies. An image on its way stays in storage; an
\* archive leaves what it has deleted on the list.
Fail(r) ==
  LET q == request[r]
  IN /\ q.pc # "idle"
     /\ orphans' = orphans \union ({q.image} \ {None})
     /\ missing' = IF q.pc = "archive" /\ ~Linked(r) THEN missing \union q.paths ELSE missing
     /\ Reply(r) /\ UNCHANGED <<intake, stored, draft, excused>>

Next ==
  \/ \E r \in Requests :
       \/ ReadForSave(r) \/ Save(r)
       \/ ReadForUpload(r) \/ StoreAsset(r) \/ ReadForRegister(r) \/ Register(r)
       \/ FailRegister(r) \/ DeleteStored(r)
       \/ ReadForReview(r) \/ Review(r) \/ ReadForReopen(r) \/ Reopen(r)
       \/ ReadForRotate(r) \/ Rotate(r)
       \/ ListExpired(r) \/ ReadForArchive(r) \/ DeleteImages(r) \/ Archive(r)
       \/ ReadForConversion(r) \/ SaveProfile(r) \/ SaveRelease(r) \/ SaveCatalog(r) \/ Link(r)
       \/ Fail(r)
  \/ EditProfile \/ Expire

Spec == Init /\ [][Next]_vars

-----------------------------------------------------------------------------
(* Properties *)

\* Rows have the declared shape.
TypeOK ==
  /\ intake \in Intake
  /\ stored \subseteq Images /\ orphans \subseteq Images /\ missing \subseteq Images
  /\ profile \in Profile \union {None}
  /\ rows \subseteq Releases
  /\ excused \in BOOLEAN

\* However many conversions failed halfway and were repeated, after reopenings and
\* corrections between them, and whatever is saved over a submission or archived
\* under a conversion: a linked intake takes no more answers, and the draft it is
\* linked to, until the owner edits it, holds the answers as they were submitted,
\* and every release of its catalog exists.
LinkedDraftIsWhole ==
  intake.linked /\ ~excused =>
    /\ intake.status \in {"CONVERTED", "ARCHIVED"}
    /\ profile # None
    /\ ~profile.edited => /\ profile.image = intake.content.image
                          /\ profile.catalog = intake.content.releases
    /\ intake.content.releases \subseteq rows

\* Every image in storage is listed or on its way, so archiving deletes it, unless
\* storage failed to delete it or kept it without an answer, its request died, or a
\* list read before it was added was written back. And every image that is listed
\* exists, unless an archive is removing it or died doing so, its registration was
\* not answered, or a list read before it was archived was written back.
ImagesAccounted ==
  /\ stored \subseteq intake.paths \union InFlight \union orphans
  /\ \A i \in intake.paths \ (stored \union missing) :
       \E r \in Requests : request[r].pc = "archive" /\ ~Linked(r) /\ i \in request[r].paths

\* What the owner edits in a draft after its intake was linked is not overwritten.
EditsSurvive == [][intake.linked /\ profile # None /\ profile.edited =>
  excused' \/ profile'.edited]_vars
=============================================================================
