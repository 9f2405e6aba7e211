-------------------------- MODULE ArtistPublication --------------------------
(***************************************************************************)
(* Publishing managed artist profiles: the draft is edited, frozen into a  *)
(* preview version, approved outside the system, published; a preview may  *)
(* be superseded or revoked.  Requests of the administrators run side by   *)
(* side: each reads, and then writes in one transaction that does not look *)
(* again.  Source: lib/repositories/artist-profiles.ts.                    *)
(*                                                                         *)
(* Of a profile's content only the slug matters here. A preview that has   *)
(* expired is one nobody approves any more.                                *)
(***************************************************************************)
EXTENDS Integers

CONSTANTS
  Artists,
  Slugs,
  Versions,  \* identities a frozen version may get
  Requests,  \* requests that may be open at one time
  None

VARIABLES
  profile,   \* ArtistProfile rows, or None
  version,   \* ArtistProfileVersion rows, or None
  approvals, \* versions with an ArtistProfileApproval row
  request,
  raced      \* history: was a slug published on top of one the check had not seen?

vars == <<profile, version, approvals, request, raced>>

Profile == [slug : Slugs,
            workflow : {"DRAFT", "AWAITING_APPROVAL", "APPROVED", "PUBLISHED"},
            published : Versions \union {None}, publishedSlug : Slugs \union {None}]
Version == [artist : Artists, number : Nat, slug : Slugs,
            status : {"AWAITING_APPROVAL", "APPROVED", "REVOKED"},
            superseded : BOOLEAN, revoked : BOOLEAN]

ASSUME PublicationConstants == None \notin Profile \union Version \union Versions \union Slugs

\* version: the one to decide on; status, slug, number: as the request has read them.
Idle == [pc |-> "idle", artist |-> None, version |-> None, status |-> None,
         slug |-> None, number |-> 0, overtaken |-> FALSE]

Init ==
  /\ profile = [a \in Artists |-> None]
  /\ version = [v \in Versions |-> None]
  /\ approvals = {}
  /\ request = [r \in Requests |-> Idle]
  /\ raced = FALSE

Profiles == {a \in Artists : profile[a] # None}
VersionsOf(a) == {v \in Versions : version[v] # None /\ version[v].artist = a}

\* The review link works, until its date.
Active(v) == ~version[v].revoked /\ ~version[v].superseded

Read(r, q) == /\ request[r].pc = "idle" /\ request' = [request EXCEPT ![r] = q]
              /\ UNCHANGED <<profile, version, approvals, raced>>
Reply(r) == request' = [request EXCEPT ![r] = Idle]

-----------------------------------------------------------------------------
(* saveArtistProfile: one transaction; the workflow is left as it is *)

SaveProfile(a) == \E s \in Slugs :
  /\ \A b \in Profiles \ {a} : profile[b].slug # s
  /\ profile' = [profile EXCEPT ![a] =
       IF a \in Profiles THEN [profile[a] EXCEPT !.slug = s]
       ELSE [slug |-> s, workflow |-> "DRAFT", published |-> None, publishedSlug |-> None]]
  /\ UNCHANGED <<version, approvals, request, raced>>

-----------------------------------------------------------------------------
(* createArtistPreviewVersion *)

ReadDraft(r) == \E a \in Profiles :
  Read(r, [Idle EXCEPT !.pc = "snapshot", !.artist = a, !.slug = profile[a].slug])

Numbers(a) == {version[v].number : v \in VersionsOf(a)}
ReadLatest(r) ==
  LET used == Numbers(request[r].artist)
  IN /\ request[r].pc = "snapshot"
     /\ \E latest \in used \union {0} :
          /\ \A n \in used : n <= latest
          /\ request' = [request EXCEPT ![r].pc = "preview", ![r].number = latest + 1]
     /\ UNCHANGED <<profile, version, approvals, raced>>

\* Mutant: the earlier preview keeps its link.
CreatePreviewBesides(r) ==
  LET q == request[r]
  IN /\ q.pc = "preview" /\ q.number \notin Numbers(q.artist)
     /\ \E new \in Versions :
          /\ version[new] = None
          /\ version' = [version EXCEPT ![new] =
               [artist |-> q.artist, number |-> q.number, slug |-> q.slug,
                status |-> "AWAITING_APPROVAL", superseded |-> FALSE, revoked |-> FALSE]]
     /\ profile' = [profile EXCEPT ![q.artist].workflow = "AWAITING_APPROVAL"]
     /\ Reply(r)
     /\ UNCHANGED <<approvals, raced>>

\* The number is unique for the artist: of two previews that read the same latest
\* version one is rolled back.
CreatePreview(r) ==
  LET q == request[r]
  IN /\ q.pc = "preview" /\ q.number \notin Numbers(q.artist)
     /\ \E new \in Versions :
          /\ version[new] = None
          /\ version' = [v \in Versions |->
               CASE v = new -> [artist |-> q.artist, number |-> q.number, slug |-> q.slug,
                                status |-> "AWAITING_APPROVAL", superseded |-> FALSE,
                                revoked |-> FALSE]
                 [] v # new /\ v \in VersionsOf(q.artist) /\ Active(v) ->
                      [version[v] EXCEPT !.superseded = TRUE]
                 [] OTHER -> version[v]]
     /\ profile' = [profile EXCEPT ![q.artist].workflow = "AWAITING_APPROVAL"]
     /\ Reply(r)
     /\ UNCHANGED <<approvals, raced>>

-----------------------------------------------------------------------------
(* recordArtistProfileApproval, revokeArtistPreviewVersion *)

Decide(r, pc, v, status) ==
  Read(r, [Idle EXCEPT !.pc = pc, !.artist = version[v].artist, !.version = v,
                       !.status = status])

ReadForApproval(r) == \E a \in Artists : \E v \in VersionsOf(a) :
  version[v].status = "AWAITING_APPROVAL" /\ Active(v) /\ Decide(r, "approve", v, None)

Approve(r) ==
  LET q == request[r]
  IN /\ q.pc = "approve"
     /\ approvals' = approvals \union {q.version}
     /\ version' = [version EXCEPT ![q.version].status = "APPROVED"]
     /\ profile' = [profile EXCEPT ![q.artist].workflow = "APPROVED"]
     /\ Reply(r) /\ UNCHANGED raced

ReadForRevocation(r) == \E a \in Artists : \E v \in VersionsOf(a) :
  ~version[v].revoked /\ Decide(r, "revoke", v, version[v].status)

\* An approval is not taken back, but a status read before it is written back.
Revoke(r) ==
  LET q == request[r]
  IN /\ q.pc = "revoke"
     /\ version' = [version EXCEPT ![q.version].revoked = TRUE,
          ![q.version].status = IF q.status = "AWAITING_APPROVAL" THEN "REVOKED" ELSE q.status]
     /\ profile' = [profile EXCEPT ![q.artist].workflow = "DRAFT"]
     /\ Reply(r) /\ UNCHANGED <<approvals, raced>>

-----------------------------------------------------------------------------
(* publishArtistProfile *)

\* Mutants: any preview with a working link is published; only drafts are compared.
ReadForPublicationUnapproved(r) == \E a \in Artists : \E v \in VersionsOf(a) :
  Active(v) /\ Decide(r, "check", v, None)

DraftedElsewhere(a, s) == \E b \in Profiles \ {a} : profile[b].slug = s

ReadForPublication(r) == \E a \in Artists : \E v \in VersionsOf(a) :
  version[v].status = "APPROVED" /\ Decide(r, "check", v, None)

PublishedElsewhere(a, s) == \E b \in Profiles \ {a} :
  profile[b].publishedSlug = s /\ profile[b].published # None

CheckSlug(r) ==
  LET q == request[r]
  IN /\ q.pc = "check"
     /\ request' = [request EXCEPT ![r] =
          IF PublishedElsewhere(q.artist, version[q.version].slug) THEN Idle
          ELSE [q EXCEPT !.pc = "publish"]]
     /\ UNCHANGED <<profile, version, approvals, raced>>

Publish(r) ==
  LET q == request[r]
  IN /\ q.pc = "publish"
     /\ version' = [version EXCEPT ![q.version].revoked = TRUE]
     /\ profile' = [profile EXCEPT ![q.artist] = [@ EXCEPT
          !.published = q.version, !.publishedSlug = version[q.version].slug,
          !.workflow = "PUBLISHED"]]
     /\ raced' = (raced \/ q.overtaken)
     /\ request' = [o \in Requests |->
          IF o = r THEN Idle
          ELSE [request[o] EXCEPT !.overtaken = @ \/ request[o].pc = "publish"]]
     /\ UNCHANGED approvals

-----------------------------------------------------------------------------
\* A transaction fails, on the unique number or otherwise, or the process dies.
Fail(r) == /\ request[r].pc # "idle" /\ Reply(r)
           /\ UNCHANGED <<profile, version, approvals, raced>>

Next ==
  \/ \E a \in Artists : SaveProfile(a)
  \/ \E r \in Requests :
       \/ ReadDraft(r) \/ ReadLatest(r) \/ CreatePreview(r)
       \/ ReadForApproval(r) \/ Approve(r) \/ ReadForRevocation(r) \/ Revoke(r)
       \/ ReadForPublication(r) \/ CheckSlug(r) \/ Publish(r) \/ Fail(r)

Spec == Init /\ [][Next]_vars

-----------------------------------------------------------------------------
(* Properties *)

\* Rows have the declared shape.
TypeOK ==
  /\ profile \in [Artists -> Profile \union {None}]
  /\ version \in [Versions -> Version \union {None}]
  /\ approvals \subseteq Versions
  /\ raced \in BOOLEAN

\* The only review link of an artist that works is that of the latest version,
\* however previews, decisions and failures interleave: an older link stops working
\* (a decision that has read its preview before that is still written).
ActivePreviewIsLatest == \A a \in Artists : \A v, w \in VersionsOf(a) :
  Active(v) => version[w].number <= version[v].number /\ (Active(w) => w = v)

\* What is live was approved, belongs to the artist, is served under the slug it
\* was frozen with, and has no review link left; a newer draft, preview,
\* revocation or decision under way takes none of it away.
LiveIsApproved == \A a \in Profiles :
  LET v == profile[a].published
  IN v # None => /\ v \in VersionsOf(a) /\ v \in approvals
                 /\ version[v].revoked
                 /\ profile[a].publishedSlug = version[v].slug

\* Two artists are live under different slugs, unless a publication was written
\* between the slug check and the write of another one.
LiveSlugsDiffer == raced \/
  \A a, b \in Profiles :
    profile[a].published # None /\ profile[b].published # None /\ a # b =>
      profile[a].publishedSlug # profile[b].publishedSlug
=============================================================================
