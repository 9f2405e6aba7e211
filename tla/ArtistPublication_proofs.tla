----------------------- MODULE ArtistPublication_proofs -----------------------
(***************************************************************************)
(* Theorems about ArtistPublication, for every set of artists, slugs,      *)
(* versions and requests.                                                  *)
(*   PublicationTypes   rows and requests keep their types, requests agree *)
(*     with the rows they have read.                                       *)
(*   PublicationLatest  only the latest preview has a working link,        *)
(*   PublicationLive    what is live was approved, and                     *)
(*   PublicationSlugs   two artists are live under different slugs, unless *)
(*                      publications raced.                                *)
(*   PublicationKept    what was frozen, closed, approved or live is never *)
(*                      changed, reopened, forgotten or taken down.        *)
(***************************************************************************)
EXTENDS ArtistPublication, TLAPS

Deciding == {"approve", "revoke", "check", "publish"}
Statuses == {"AWAITING_APPROVAL", "APPROVED", "REVOKED"}
Request == [pc : {"idle", "snapshot", "preview"} \union Deciding,
            artist : Artists \union {None}, version : Versions \union {None},
            status : Statuses \union {None},
            slug : Slugs \union {None}, number : Nat, overtaken : BOOLEAN]

Types == TypeOK /\ request \in [Requests -> Request]

\* Every version belongs to an artist with a profile.
Owned == \A v \in Versions : version[v] # None => profile[version[v].artist] # None

\* The numbers of an artist's versions start with one and have no gaps.
Numbered == \A a \in Artists : \A n \in Numbers(a) : n > 0 /\ 1..n \subseteq Numbers(a)

\* An approved status is backed by an approval.
ApprovedRows == \A v \in Versions :
  version[v] # None /\ version[v].status = "APPROVED" => v \in approvals

\* What a request under way has read still belongs together; the number it counts
\* on follows numbers that are taken, so that, if it is free, it is the next one;
\* and an approved status it acts on is backed by an approval.
Good(q) ==
  /\ q.pc \in {"snapshot", "preview"} => q.artist \in Profiles /\ q.slug \in Slugs
  /\ q.pc = "preview" => q.number > 0 /\ 1..(q.number - 1) \subseteq Numbers(q.artist)
  /\ q.pc \in Deciding => q.artist \in Artists /\ q.version \in VersionsOf(q.artist)
  /\ q.pc \in {"check", "publish"} => q.version \in approvals
  /\ q.pc = "revoke" => q.status \in Statuses /\ (q.status = "APPROVED" => q.version \in approvals)

\* A slug that was checked is still free, unless the request was overtaken.
SlugFree(q) == q.pc = "publish" /\ ~q.overtaken =>
  ~PublishedElsewhere(q.artist, version[q.version].slug)

GoodRequests == \A r \in Requests : Good(request[r]) /\ SlugFree(request[r])

Base == Types /\ Owned /\ Numbered /\ ApprovedRows /\ GoodRequests
IInv == Base /\ ActivePreviewIsLatest /\ LiveIsApproved /\ LiveSlugsDiffer

LEMMA InitIInv == Init => IInv
<1> SUFFICES ASSUME Init PROVE IInv
  OBVIOUS
<1>1. Idle \in Request /\ Idle.pc = "idle" BY DEF Idle, Request
<1>2. Types BY <1>1 DEF Init, Types, TypeOK
<1>3. \A a \in Artists : VersionsOf(a) = {} BY DEF Init, VersionsOf
<1>4. \A a \in Artists : Numbers(a) = {} BY <1>3 DEF Numbers
<1>5. Owned /\ ApprovedRows BY DEF Init, Owned, ApprovedRows
<1>6. Numbered BY <1>4 DEF Numbered
<1>7. GoodRequests
  <2>1. \A r \in Requests : request[r].pc = "idle" BY <1>1 DEF Init
  <2> QED BY <2>1 DEF GoodRequests, Good, SlugFree, Deciding
<1>8. ActivePreviewIsLatest BY <1>3 DEF ActivePreviewIsLatest
<1>9. LiveIsApproved /\ LiveSlugsDiffer BY DEF Init, LiveIsApproved, LiveSlugsDiffer, Profiles
<1> QED BY <1>2, <1>5, <1>6, <1>7, <1>8, <1>9 DEF IInv, Base

-----------------------------------------------------------------------------
(* Steps that only read *)

ReadStep(r) ==
  \/ ReadDraft(r) \/ ReadLatest(r) \/ ReadForApproval(r) \/ ReadForRevocation(r)
  \/ ReadForPublication(r) \/ CheckSlug(r) \/ Fail(r)
WriteStep(r) == CreatePreview(r) \/ Approve(r) \/ Revoke(r) \/ Publish(r)

LEMMA IdleGood == Idle \in Request /\ Good(Idle) /\ SlugFree(Idle)
BY DEF Idle, Request, Good, SlugFree, Deciding

\* Reading a version to decide on it.
LEMMA DecideGood ==
  ASSUME Types, NEW r \in Requests, NEW a \in Artists, NEW v \in VersionsOf(a),
         NEW pc \in Deciding \ {"publish"},
         NEW status \in Statuses \union {None},
         pc = "check" => v \in approvals,
         pc = "revoke" => status \in Statuses /\ (status = "APPROVED" => v \in approvals),
         Decide(r, pc, v, status)
  PROVE  /\ UNCHANGED <<profile, version, approvals, raced>>
         /\ \E q \in Request : /\ request' = [request EXCEPT ![r] = q]
                               /\ Good(q) /\ SlugFree(q)
<1> DEFINE q == [Idle EXCEPT !.pc = pc, !.artist = version[v].artist, !.version = v,
                             !.status = status]
<1>1. v \in Versions /\ version[v].artist = a BY DEF VersionsOf
<1>2. q.pc = pc /\ q.artist = a /\ q.version = v /\ q.status = status
  BY <1>1, IdleGood DEF Request
<1>3. q \in Request
  <2>1. [[[[Idle EXCEPT !.pc = pc] EXCEPT !.artist = version[v].artist] EXCEPT !.version = v]
           EXCEPT !.status = status] \in Request
    BY <1>1, IdleGood DEF Request, Deciding
  <2> QED BY <2>1
<1>6. request' = [request EXCEPT ![r] = q] /\ UNCHANGED <<profile, version, approvals, raced>>
  BY DEF Decide, Read
<1> HIDE DEF q
<1>4. Good(q) BY <1>2 DEF Good, Deciding
<1>5. SlugFree(q) BY <1>2 DEF SlugFree, Deciding
<1> QED BY <1>3, <1>4, <1>5, <1>6

LEMMA ReadStepGood ==
  ASSUME Base, NEW r \in Requests, ReadStep(r)
  PROVE  /\ UNCHANGED <<profile, version, approvals, raced>>
         /\ \E q \in Request : /\ request' = [request EXCEPT ![r] = q]
                               /\ Good(q) /\ SlugFree(q)
<1> USE DEF Base
<1>0. request[r] \in Request /\ Good(request[r]) BY DEF Types, GoodRequests
<1>1. CASE ReadDraft(r)
  <2>1. PICK a \in Profiles :
          Read(r, [Idle EXCEPT !.pc = "snapshot", !.artist = a, !.slug = profile[a].slug])
    BY <1>1 DEF ReadDraft
  <2> DEFINE q == [Idle EXCEPT !.pc = "snapshot", !.artist = a, !.slug = profile[a].slug]
  <2>2. request' = [request EXCEPT ![r] = q] /\ UNCHANGED <<profile, version, approvals, raced>>
    BY <2>1 DEF Read
  <2>3. a \in Artists /\ profile[a] \in Profile BY DEF Profiles, Types, TypeOK
  <2>4. profile[a].slug \in Slugs BY <2>3 DEF Profile
  <2>5. [[[Idle EXCEPT !.pc = "snapshot"] EXCEPT !.artist = a] EXCEPT !.slug = profile[a].slug]
          \in Request
    BY <2>3, <2>4, IdleGood DEF Request
  <2>6. q \in Request /\ q.pc = "snapshot" /\ q.artist = a /\ q.slug = profile[a].slug
    BY <2>5, IdleGood DEF Request
  <2> HIDE DEF q
  <2>7. Good(q) /\ SlugFree(q) BY <2>4, <2>6 DEF Good, SlugFree, Deciding
  <2> QED BY <2>2, <2>6, <2>7
<1>2. CASE ReadLatest(r)
  <2> DEFINE used == Numbers(request[r].artist)
  <2>1. request[r].pc = "snapshot" BY <1>2 DEF ReadLatest
  <2>2. PICK latest \in used \union {0} :
          request' = [request EXCEPT ![r].pc = "preview", ![r].number = latest + 1]
    BY <1>2 DEF ReadLatest
  <2>3. request[r].artist \in Artists /\ request[r].artist \in Profiles /\ request[r].slug \in Slugs
    BY <1>0, <2>1 DEF Good, Profiles
  <2>4. latest \in Nat
    <3>1. \A v \in VersionsOf(request[r].artist) : version[v].number \in Nat
      BY DEF VersionsOf, Types, TypeOK, Version
    <3> QED BY <3>1 DEF Numbers
  <2>5. 1..latest \subseteq used
    <3>1. CASE latest = 0 BY <3>1
    <3>2. CASE latest \in used BY <3>2, <2>3 DEF Numbered
    <3> QED BY <3>1, <3>2
  <2> DEFINE q == [request[r] EXCEPT !.pc = "preview", !.number = latest + 1]
  <2>6. q \in Request
    <3>1. latest + 1 \in Nat BY <2>4
    <3>2. [[request[r] EXCEPT !.pc = "preview"] EXCEPT !.number = latest + 1] \in Request
      BY <1>0, <3>1 DEF Request
    <3> QED BY <3>2
  <2>7. /\ q.pc = "preview" /\ q.number = latest + 1
        /\ q.artist = request[r].artist /\ q.slug = request[r].slug
    BY <1>0 DEF Request
  <2>8. (latest + 1) - 1 = latest /\ latest + 1 > 0 BY <2>4
  <2>9. request' = [request EXCEPT ![r] = q] BY <2>2
  <2> HIDE DEF q, used
  <2>10. Good(q) BY <2>3, <2>5, <2>7, <2>8 DEF Good, Deciding, used
  <2>11. SlugFree(q) BY <2>7 DEF SlugFree
  <2>12. UNCHANGED <<profile, version, approvals, raced>> BY <1>2 DEF ReadLatest
  <2> QED BY <2>6, <2>9, <2>10, <2>11, <2>12
<1>3. CASE ReadForApproval(r)
  <2>1. PICK a \in Artists : \E v \in VersionsOf(a) : Decide(r, "approve", v, None)
    BY <1>3 DEF ReadForApproval
  <2>2. PICK v \in VersionsOf(a) : Decide(r, "approve", v, None) BY <2>1
  <2> QED BY <2>2, DecideGood DEF Deciding
<1>4. CASE ReadForRevocation(r)
  <2>1. PICK a \in Artists : \E v \in VersionsOf(a) : Decide(r, "revoke", v, version[v].status)
    BY <1>4 DEF ReadForRevocation
  <2>2. PICK v \in VersionsOf(a) : Decide(r, "revoke", v, version[v].status) BY <2>1
  <2>3. v \in Versions /\ version[v] \in Version /\ version[v] # None
    BY DEF VersionsOf, Types, TypeOK
  <2>4. version[v].status \in Statuses BY <2>3 DEF Version, Statuses
  <2>6. version[v].status = "APPROVED" => v \in approvals BY <2>3 DEF ApprovedRows
  <2> HIDE DEF Base
  <2> QED BY <2>2, <2>4, <2>6, DecideGood DEF Deciding, Base
<1>5. CASE ReadForPublication(r)
  <2>1. PICK a \in Artists : \E v \in VersionsOf(a) :
          version[v].status = "APPROVED" /\ Decide(r, "check", v, None)
    BY <1>5 DEF ReadForPublication
  <2>2. PICK v \in VersionsOf(a) : version[v].status = "APPROVED" /\ Decide(r, "check", v, None)
    BY <2>1
  <2>3. v \in approvals BY <2>2 DEF VersionsOf, ApprovedRows
  <2> QED BY <2>2, <2>3, DecideGood DEF Deciding
<1>6. CASE CheckSlug(r)
  <2> DEFINE q == [request[r] EXCEPT !.pc = "publish"]
  <2>1. request[r].pc = "check" /\ UNCHANGED <<profile, version, approvals, raced>>
    BY <1>6 DEF CheckSlug
  <2>2. CASE PublishedElsewhere(request[r].artist, version[request[r].version].slug)
    BY <1>6, <2>1, <2>2, IdleGood DEF CheckSlug
  <2>3. CASE ~PublishedElsewhere(request[r].artist, version[request[r].version].slug)
    <3>1. request' = [request EXCEPT ![r] = q] BY <1>6, <2>3 DEF CheckSlug
    <3>2. q \in Request BY <1>0 DEF Request, Deciding
    <3>3. q.pc = "publish" /\ q.artist = request[r].artist /\ q.version = request[r].version
      BY <1>0 DEF Request
    <3> HIDE DEF q
    <3>4. Good(q) BY <1>0, <2>1, <3>3 DEF Good, Deciding
    <3>5. SlugFree(q) BY <2>3, <3>3 DEF SlugFree
    <3> QED BY <2>1, <3>1, <3>2, <3>4, <3>5
  <2> QED BY <2>2, <2>3
<1>7. CASE Fail(r) BY <1>7, IdleGood DEF Fail, Reply
<1> QED BY <1>1, <1>2, <1>3, <1>4, <1>5, <1>6, <1>7 DEF ReadStep

-----------------------------------------------------------------------------
(* Steps that write *)

\* Rows are never taken away, what identifies a version never changes, a link that is
\* closed stays closed and an approval given.
Persist ==
  /\ \A a \in Profiles : profile'[a] # None
  /\ \A v \in Versions : version[v] # None =>
       /\ version'[v] # None
       /\ version'[v].artist = version[v].artist /\ version'[v].number = version[v].number
       /\ version'[v].slug = version[v].slug
       /\ version[v].revoked => version'[v].revoked
       /\ version[v].superseded => version'[v].superseded
  /\ approvals \subseteq approvals'

\* What is live stays live until another version, approved before, replaces it.
StillLive == \A a \in Profiles :
  LET v == profile[a].published
      w == profile'[a].published
  IN v # w => w \in approvals /\ w \in VersionsOf(a)

\* A step that publishes nothing.
LiveUnchanged ==
  /\ \A b \in Artists : profile'[b] # None /\ profile'[b].published # None =>
       /\ profile[b] # None /\ profile[b].published = profile'[b].published
       /\ profile[b].publishedSlug = profile'[b].publishedSlug
  /\ \A b \in Profiles : profile'[b].published = profile[b].published

\* A step that creates no version and gives no link back.
NothingNew == \A v \in Versions : version'[v] # None =>
  version[v] # None /\ (Active(v)' => Active(v))

LEMMA PersistGood ==
  ASSUME Types, Persist, NEW q, Good(q)
  PROVE  Good(q)'
<1>1. \A a \in Artists : VersionsOf(a) \subseteq VersionsOf(a)'
  BY DEF VersionsOf, Persist
<1>2. \A a \in Artists : Numbers(a) \subseteq Numbers(a)'
  <2>1. \A a \in Artists : \A v \in VersionsOf(a) : version[v].number = version'[v].number
    BY DEF VersionsOf, Persist
  <2> QED BY <1>1, <2>1 DEF Numbers
<1>3. Profiles \subseteq Profiles' BY DEF Profiles, Persist
<1>4. approvals \subseteq approvals' BY DEF Persist
<1>5. q.pc \in {"snapshot", "preview"} => q.artist \in Artists BY DEF Good, Profiles
<1> QED BY <1>1, <1>2, <1>3, <1>4, <1>5 DEF Good

\* What the request of a writing step has read.
LEMMA Writer ==
  ASSUME Base, NEW r \in Requests, request[r].pc \in Deciding
  PROVE  /\ request[r].artist \in Artists /\ request[r].version \in Versions
         /\ version[request[r].version] \in Version
         /\ version[request[r].version].artist = request[r].artist
         /\ profile[request[r].artist] # None /\ profile[request[r].artist] \in Profile
BY PublicationConstants DEF Base, GoodRequests, Good, VersionsOf, Types, TypeOK, Owned

LEMMA SaveProfileRows ==
  ASSUME Base, NEW a \in Artists, SaveProfile(a)
  PROVE  /\ TypeOK' /\ Persist /\ LiveUnchanged /\ NothingNew
         /\ UNCHANGED <<version, approvals, request, raced>>
<1>1. PICK s \in Slugs :
        profile' = [profile EXCEPT ![a] =
          IF a \in Profiles THEN [profile[a] EXCEPT !.slug = s]
          ELSE [slug |-> s, workflow |-> "DRAFT", published |-> None, publishedSlug |-> None]]
  BY DEF SaveProfile
<1>2. UNCHANGED <<version, approvals, request, raced>> BY DEF SaveProfile
<1>3. profile \in [Artists -> Profile \union {None}] BY DEF Base, Types, TypeOK
<1>4. CASE a \in Profiles
  <2>1. profile[a] \in Profile BY <1>3, <1>4 DEF Profiles
  <2>2. [profile[a] EXCEPT !.slug = s] \in Profile BY <2>1 DEF Profile
  <2>3. profile' = [profile EXCEPT ![a] = [profile[a] EXCEPT !.slug = s]] BY <1>1, <1>4
  <2>4. /\ [profile[a] EXCEPT !.slug = s].published = profile[a].published
        /\ [profile[a] EXCEPT !.slug = s].publishedSlug = profile[a].publishedSlug
    BY <2>1 DEF Profile
  <2>5. TypeOK' BY <1>2, <1>3, <2>2, <2>3 DEF Base, Types, TypeOK
  <2>6. Persist BY <1>2, <1>3, <2>2, <2>3, PublicationConstants DEF Persist, Profiles
  <2>7. LiveUnchanged BY <1>3, <1>4, <2>3, <2>4 DEF LiveUnchanged, Profiles
  <2> QED BY <1>2, <2>5, <2>6, <2>7 DEF NothingNew, Active
<1>5. CASE a \notin Profiles
  <2> DEFINE new == [slug |-> s, workflow |-> "DRAFT", published |-> None, publishedSlug |-> None]
  <2>1. new \in Profile /\ new.published = None BY DEF Profile
  <2>2. profile' = [profile EXCEPT ![a] = new] BY <1>1, <1>5
  <2> HIDE DEF new
  <2>3. TypeOK' BY <1>2, <1>3, <2>1, <2>2 DEF Base, Types, TypeOK
  <2>4. Persist BY <1>2, <1>3, <2>1, <2>2, PublicationConstants DEF Persist, Profiles
  <2>5. LiveUnchanged BY <1>3, <1>5, <2>1, <2>2 DEF LiveUnchanged, Profiles
  <2> QED BY <1>2, <2>3, <2>4, <2>5 DEF NothingNew, Active
<1> QED BY <1>4, <1>5

\* One step of Approve, Revoke or Publish changes one version and one profile.
LEMMA OneVersion ==
  ASSUME Base, NEW v \in Versions, NEW row \in Version, version[v] # None,
         row.artist = version[v].artist, row.number = version[v].number,
         row.slug = version[v].slug, row.superseded = version[v].superseded,
         version[v].revoked => row.revoked,
         version' = [version EXCEPT ![v] = row],
         NEW a \in Artists, NEW p \in Profile, profile[a] # None,
         profile' = [profile EXCEPT ![a] = p],
         approvals \subseteq approvals', approvals' \subseteq Versions, raced' \in BOOLEAN
  PROVE  TypeOK' /\ Persist /\ NothingNew
<1>1. TypeOK' BY DEF Base, Types, TypeOK
<1>2. Persist BY PublicationConstants DEF Base, Types, TypeOK, Persist, Profiles
<1>3. NothingNew
  <2>1. version \in [Versions -> Version \union {None}] BY DEF Base, Types, TypeOK
  <2>2. version'[v] = row /\ \A w \in Versions \ {v} : version'[w] = version[w] BY <2>1
  <2>3. row.revoked \in BOOLEAN /\ version[v].revoked \in BOOLEAN
    BY <2>1 DEF Version
  <2> QED BY <2>2, <2>3 DEF NothingNew, Active
<1> QED BY <1>1, <1>2, <1>3

LEMMA ApproveRows ==
  ASSUME Base, NEW r \in Requests, Approve(r)
  PROVE  /\ TypeOK' /\ Persist /\ LiveUnchanged /\ NothingNew /\ ApprovedRows'
         /\ request' = [request EXCEPT ![r] = Idle] /\ UNCHANGED raced
<1> DEFINE q == request[r]
           row == [version[q.version] EXCEPT !.status = "APPROVED"]
           p == [profile[q.artist] EXCEPT !.workflow = "APPROVED"]
<1>1. q.pc \in Deciding BY DEF Approve, Deciding
<1>2. /\ q.artist \in Artists /\ q.version \in Versions /\ version[q.version] \in Version
      /\ profile[q.artist] # None /\ profile[q.artist] \in Profile
  BY <1>1, Writer
<1>3. row \in Version /\ row.artist = version[q.version].artist
      /\ row.number = version[q.version].number /\ row.slug = version[q.version].slug
      /\ row.superseded = version[q.version].superseded
      /\ row.revoked = version[q.version].revoked
  BY <1>2 DEF Version
<1>4. p \in Profile /\ p.published = profile[q.artist].published
      /\ p.publishedSlug = profile[q.artist].publishedSlug
  BY <1>2 DEF Profile
<1>5. /\ version' = [version EXCEPT ![q.version] = row]
      /\ profile' = [profile EXCEPT ![q.artist] = p]
      /\ approvals' = approvals \union {q.version}
      /\ request' = [request EXCEPT ![r] = Idle] /\ UNCHANGED raced
  BY DEF Approve, Reply
<1>6. version[q.version] # None BY <1>2, PublicationConstants
<1>7. approvals \subseteq Versions /\ raced \in BOOLEAN
      /\ profile \in [Artists -> Profile \union {None}]
      /\ version \in [Versions -> Version \union {None}]
  BY DEF Base, Types, TypeOK
<1> HIDE DEF row, p, q
<1>8. TypeOK' /\ Persist /\ NothingNew
  BY <1>2, <1>3, <1>4, <1>5, <1>6, <1>7, OneVersion
<1>9. LiveUnchanged BY <1>2, <1>4, <1>5, <1>7 DEF LiveUnchanged
<1>10. ApprovedRows' BY <1>2, <1>5, <1>6, <1>7 DEF ApprovedRows, Base
<1> QED BY <1>5, <1>8, <1>9, <1>10

LEMMA RevokeRows ==
  ASSUME Base, NEW r \in Requests, Revoke(r)
  PROVE  /\ TypeOK' /\ Persist /\ LiveUnchanged /\ NothingNew /\ ApprovedRows'
         /\ request' = [request EXCEPT ![r] = Idle] /\ UNCHANGED raced
<1> DEFINE q == request[r]
           status == IF q.status = "AWAITING_APPROVAL" THEN "REVOKED" ELSE q.status
           row == [[version[q.version] EXCEPT !.revoked = TRUE] EXCEPT !.status = status]
           p == [profile[q.artist] EXCEPT !.workflow = "DRAFT"]
<1>1. q.pc = "revoke" /\ q.pc \in Deciding BY DEF Revoke, Deciding
<1>2. /\ q.artist \in Artists /\ q.version \in Versions /\ version[q.version] \in Version
      /\ profile[q.artist] # None /\ profile[q.artist] \in Profile
  BY <1>1, Writer
<1>3. status \in Statuses /\ (status = "APPROVED" => q.version \in approvals)
  BY <1>1 DEF Base, GoodRequests, Good, Statuses
<1>4. version' = [version EXCEPT ![q.version] = row]
  BY <1>2 DEF Revoke, Base, Types, TypeOK
<1>5. /\ profile' = [profile EXCEPT ![q.artist] = p]
      /\ request' = [request EXCEPT ![r] = Idle] /\ UNCHANGED <<approvals, raced>>
  BY DEF Revoke, Reply
<1> HIDE DEF status
<1>6. row \in Version /\ row.artist = version[q.version].artist
      /\ row.number = version[q.version].number /\ row.slug = version[q.version].slug
      /\ row.superseded = version[q.version].superseded
      /\ row.revoked = TRUE /\ row.status = status
  BY <1>2, <1>3 DEF Version, Statuses
<1>7. p \in Profile /\ p.published = profile[q.artist].published
      /\ p.publishedSlug = profile[q.artist].publishedSlug
  BY <1>2 DEF Profile
<1>8. version[q.version] # None BY <1>2, PublicationConstants
<1>9. approvals \subseteq Versions /\ raced \in BOOLEAN
      /\ profile \in [Artists -> Profile \union {None}]
      /\ version \in [Versions -> Version \union {None}]
  BY DEF Base, Types, TypeOK
<1> HIDE DEF row, p, q
<1>10. TypeOK' /\ Persist /\ NothingNew
  BY <1>2, <1>4, <1>5, <1>6, <1>7, <1>8, <1>9, OneVersion
<1>11. LiveUnchanged BY <1>2, <1>5, <1>7, <1>9 DEF LiveUnchanged
<1>12. ApprovedRows' BY <1>2, <1>3, <1>4, <1>5, <1>6, <1>9 DEF ApprovedRows, Base
<1> QED BY <1>5, <1>10, <1>11, <1>12

LEMMA PublishRows ==
  ASSUME Base, NEW r \in Requests, Publish(r)
  PROVE  /\ TypeOK' /\ Persist /\ NothingNew /\ ApprovedRows'
         /\ request[r].artist \in Artists /\ profile[request[r].artist] # None
         /\ request[r].version \in approvals' /\ version'[request[r].version].revoked
         /\ \A b \in Artists \ {request[r].artist} : profile'[b] = profile[b]
         /\ profile'[request[r].artist].published = request[r].version
         /\ profile'[request[r].artist].publishedSlug = version[request[r].version].slug
         /\ request[r].version \in VersionsOf(request[r].artist)
<1> DEFINE q == request[r]
           row == [version[q.version] EXCEPT !.revoked = TRUE]
           p == [[[profile[q.artist] EXCEPT !.published = q.version]
                    EXCEPT !.publishedSlug = version[q.version].slug]
                    EXCEPT !.workflow = "PUBLISHED"]
<1>1. q.pc = "publish" /\ q.pc \in Deciding BY DEF Publish, Deciding
<1>2. /\ q.artist \in Artists /\ q.version \in Versions /\ version[q.version] \in Version
      /\ profile[q.artist] # None /\ profile[q.artist] \in Profile
  BY <1>1, Writer
<1>3. q.version \in approvals /\ q.version \in VersionsOf(q.artist)
  BY <1>1 DEF Base, GoodRequests, Good, Deciding
<1>4. version' = [version EXCEPT ![q.version] = row] BY DEF Publish
<1>5. profile' = [profile EXCEPT ![q.artist] = p]
  BY <1>2 DEF Publish
<1>6. /\ UNCHANGED approvals /\ raced' = (raced \/ q.overtaken)
  BY DEF Publish
<1>7. row \in Version /\ row.artist = version[q.version].artist
      /\ row.number = version[q.version].number /\ row.slug = version[q.version].slug
      /\ row.superseded = version[q.version].superseded
      /\ row.revoked = TRUE /\ row.status = version[q.version].status
  BY <1>2 DEF Version
<1>8. version[q.version].slug \in Slugs BY <1>2 DEF Version
<1>9. p \in Profile /\ p.published = q.version /\ p.publishedSlug = version[q.version].slug
  BY <1>2, <1>8 DEF Profile
<1>10. version[q.version] # None BY <1>2, PublicationConstants
<1>11. approvals \subseteq Versions /\ raced \in BOOLEAN /\ q.overtaken \in BOOLEAN
       /\ profile \in [Artists -> Profile \union {None}]
       /\ version \in [Versions -> Version \union {None}]
  BY DEF Base, Types, TypeOK, Request
<1> HIDE DEF row, p, q
<1>12. approvals \subseteq approvals' /\ approvals' \subseteq Versions /\ raced' \in BOOLEAN
  BY <1>6, <1>11
<1>13. TypeOK' /\ Persist /\ NothingNew
  BY <1>2, <1>4, <1>5, <1>7, <1>9, <1>10, <1>12, OneVersion
<1>14. ApprovedRows' BY <1>2, <1>4, <1>6, <1>7, <1>10, <1>11 DEF ApprovedRows, Base
<1>15. version'[q.version].revoked BY <1>2, <1>4, <1>7, <1>11
<1> QED BY <1>2, <1>3, <1>5, <1>6, <1>9, <1>11, <1>13, <1>14, <1>15 DEF q

\* The number of a new version is the next one: those before it are taken, and no
\* larger one is, since it is free.
LEMMA CreatePreviewRows ==
  ASSUME Base, NEW r \in Requests, CreatePreview(r)
  PROVE  /\ TypeOK' /\ Persist /\ LiveUnchanged /\ ApprovedRows' /\ Owned'
         /\ Numbered' /\ (ActivePreviewIsLatest => ActivePreviewIsLatest')
         /\ request' = [request EXCEPT ![r] = Idle] /\ UNCHANGED raced
<1> DEFINE q == request[r]
           a == q.artist
           row == [artist |-> a, number |-> q.number, slug |-> q.slug,
                   status |-> "AWAITING_APPROVAL", superseded |-> FALSE, revoked |-> FALSE]
           p == [profile[a] EXCEPT !.workflow = "AWAITING_APPROVAL"]
<1>1. q.pc = "preview" /\ q.number \notin Numbers(a) BY DEF CreatePreview
<1>2. /\ a \in Profiles /\ a \in Artists /\ q.slug \in Slugs /\ q.number \in Nat /\ q.number > 0
      /\ 1..(q.number - 1) \subseteq Numbers(a)
  BY <1>1 DEF Base, GoodRequests, Good, Profiles, Types, Request
<1>3. PICK new \in Versions :
        /\ version[new] = None
        /\ version' = [v \in Versions |->
             CASE v = new -> row
               [] v # new /\ v \in VersionsOf(a) /\ Active(v) ->
                    [version[v] EXCEPT !.superseded = TRUE]
               [] OTHER -> version[v]]
  BY DEF CreatePreview
<1>4. profile' = [profile EXCEPT ![a] = p] /\ request' = [request EXCEPT ![r] = Idle]
      /\ UNCHANGED <<approvals, raced>>
  BY DEF CreatePreview, Reply
<1>5. row \in Version /\ row.artist = a /\ row.number = q.number
      /\ row.status = "AWAITING_APPROVAL"
  BY <1>2 DEF Version
<1>6. approvals \subseteq Versions /\ raced \in BOOLEAN
      /\ profile \in [Artists -> Profile \union {None}]
      /\ version \in [Versions -> Version \union {None}]
  BY DEF Base, Types, TypeOK
<1>7. profile[a] \in Profile BY <1>2, <1>6 DEF Profiles
<1>8. p \in Profile /\ p.published = profile[a].published
      /\ p.publishedSlug = profile[a].publishedSlug
  BY <1>7 DEF Profile
<1> HIDE DEF row, p
\* Old versions keep everything but their link, which those of the artist lose.
<1>9. ASSUME NEW v \in Versions, v # new
      PROVE  /\ version'[v] # None <=> version[v] # None
             /\ version[v] # None => /\ version'[v] \in Version
                                     /\ version'[v].artist = version[v].artist
                                     /\ version'[v].number = version[v].number
                                     /\ version'[v].slug = version[v].slug
                                     /\ version'[v].status = version[v].status
                                     /\ version'[v].revoked = version[v].revoked
                                     /\ version'[v].superseded <=>
                                          (version[v].superseded \/ (v \in VersionsOf(a) /\ Active(v)))
  <2>1. CASE version[v] = None
    BY <1>3, <1>9, <2>1 DEF VersionsOf
  <2>2. CASE version[v] # None
    <3>1. version[v] \in Version BY <1>6, <2>2
    <3>2. [version[v] EXCEPT !.superseded = TRUE] \in Version BY <3>1 DEF Version
    <3>3. /\ [version[v] EXCEPT !.superseded = TRUE].artist = version[v].artist
          /\ [version[v] EXCEPT !.superseded = TRUE].number = version[v].number
          /\ [version[v] EXCEPT !.superseded = TRUE].slug = version[v].slug
          /\ [version[v] EXCEPT !.superseded = TRUE].status = version[v].status
          /\ [version[v] EXCEPT !.superseded = TRUE].revoked = version[v].revoked
          /\ [version[v] EXCEPT !.superseded = TRUE].superseded = TRUE
      BY <3>1 DEF Version
    <3>4. CASE v \in VersionsOf(a) /\ Active(v)
      <4>1. version'[v] = [version[v] EXCEPT !.superseded = TRUE] BY <1>3, <1>9, <3>4
      <4> QED BY <2>2, <3>2, <3>3, <3>4, <4>1, PublicationConstants
    <3>5. CASE ~(v \in VersionsOf(a) /\ Active(v))
      <4>1. version'[v] = version[v] BY <1>3, <1>9, <3>5
      <4>2. version[v].superseded \in BOOLEAN BY <3>1 DEF Version
      <4> QED BY <2>2, <3>1, <3>5, <4>1, <4>2
    <3> QED BY <3>4, <3>5
  <2> QED BY <2>1, <2>2
<1>10. version'[new] = row /\ version'[new] # None BY <1>3, <1>5, PublicationConstants
<1>11. TypeOK'
  <2>1. \A v \in Versions : version'[v] \in Version \union {None}
    BY <1>5, <1>9, <1>10
  <2>2. version' \in [Versions -> Version \union {None}]
    <3>1. version' = [v \in Versions |-> version'[v]] BY <1>3
    <3> QED BY <2>1, <3>1
  <2>3. profile' \in [Artists -> Profile \union {None}] BY <1>4, <1>6, <1>8
  <2> QED BY <1>4, <1>6, <2>2, <2>3 DEF TypeOK
<1>12. Persist
  <2>1. \A b \in Profiles : profile'[b] # None
    BY <1>4, <1>6, <1>8, PublicationConstants DEF Profiles
  <2>2. \A v \in Versions : version[v] # None => v # new BY <1>3
  <2> QED BY <1>4, <1>9, <2>1, <2>2 DEF Persist
<1>13. LiveUnchanged BY <1>2, <1>4, <1>6, <1>8 DEF LiveUnchanged, Profiles
<1>14. ApprovedRows'
  <2>1. "AWAITING_APPROVAL" # "APPROVED" OBVIOUS
  <2> QED BY <1>4, <1>5, <1>9, <1>10, <2>1 DEF ApprovedRows, Base
<1>15. Owned'
  <2>1. ASSUME NEW v \in Versions, version'[v] # None PROVE profile'[version'[v].artist] # None
    <3>1. CASE v = new
      <4>1. version'[v].artist = a BY <1>5, <1>10, <3>1
      <4> QED BY <1>2, <1>12, <4>1 DEF Persist
    <3>2. CASE v # new
      <4>1. version[v] # None /\ version'[v].artist = version[v].artist BY <1>9, <2>1, <3>2
      <4>2. version[v].artist \in Artists BY <1>6, <4>1 DEF Version
      <4>3. version[v].artist \in Profiles BY <4>1, <4>2 DEF Base, Owned, Profiles
      <4> QED BY <1>12, <4>1, <4>3 DEF Persist
    <3> QED BY <3>1, <3>2
  <2> QED BY <2>1 DEF Owned
<1>16. \A b \in Artists : VersionsOf(b)' = VersionsOf(b) \union (IF b = a THEN {new} ELSE {})
  BY <1>3, <1>5, <1>9, <1>10 DEF VersionsOf
<1>17. \A v \in VersionsOf(a) : version[v].number < q.number
  <2>1. ASSUME NEW v \in VersionsOf(a), ~(version[v].number < q.number) PROVE FALSE
    <3>1. version[v].number \in Nat BY <1>6 DEF VersionsOf, Version
    <3>2. q.number \in 1..version[v].number BY <1>2, <2>1, <3>1
    <3>3. version[v].number \in Numbers(a) BY DEF Numbers
    <3> QED BY <1>1, <1>2, <3>2, <3>3 DEF Base, Numbered
  <2> QED BY <2>1
<1>18. \A b \in Artists :
         Numbers(b)' = Numbers(b) \union (IF b = a THEN {q.number} ELSE {})
  <2>1. \A b \in Artists : \A v \in VersionsOf(b) : version'[v].number = version[v].number
    BY <1>3, <1>9 DEF VersionsOf
  <2>2. version'[new].number = q.number BY <1>5, <1>10
  <2> QED BY <1>16, <2>1, <2>2 DEF Numbers
<1>19. Numbered'
  <2> SUFFICES ASSUME NEW b \in Artists, NEW n \in Numbers(b)'
               PROVE  n > 0 /\ 1..n \subseteq Numbers(b)'
    BY DEF Numbered
  <2>1. CASE n \in Numbers(b) BY <1>18, <2>1 DEF Base, Numbered
  <2>2. CASE n \notin Numbers(b)
    <3>1. b = a /\ n = q.number BY <1>18, <2>2
    <3>2. \A m \in 1..n : m = n \/ m \in 1..(n - 1) BY <1>2, <3>1
    <3> QED BY <1>2, <1>18, <3>1, <3>2
  <2> QED BY <2>1, <2>2
<1>20. ASSUME ActivePreviewIsLatest PROVE ActivePreviewIsLatest'
  <2> SUFFICES ASSUME NEW b \in Artists, NEW v \in VersionsOf(b)', NEW w \in VersionsOf(b)',
                      Active(v)'
               PROVE  /\ version'[w].number <= version'[v].number
                      /\ Active(w)' => w = v
    BY DEF ActivePreviewIsLatest
  <2>0. v \in Versions /\ w \in Versions BY DEF VersionsOf
  <2>1. \A o \in VersionsOf(a) : ~Active(o)'
    <3>1. \A o \in VersionsOf(a) : o \in Versions /\ o # new /\ version[o] # None
      BY <1>3 DEF VersionsOf
    <3>2. \A o \in VersionsOf(a) : version[o].superseded \in BOOLEAN /\ version[o].revoked \in BOOLEAN
      BY <1>6, <3>1 DEF Version
    <3> QED BY <1>9, <3>1, <3>2 DEF Active
  <2>2. CASE b = a
    <3>1. v = new BY <1>16, <2>1, <2>2
    <3>2. version'[v].number = q.number BY <1>5, <1>10, <3>1
    <3>3. CASE w = new BY <1>2, <3>1, <3>2, <3>3
    <3>4. CASE w # new
      <4>1. w \in VersionsOf(a) BY <1>16, <2>2, <3>4
      <4>2. version[w].number < q.number /\ version'[w].number = version[w].number
        BY <1>9, <1>17, <2>0, <3>4, <4>1 DEF VersionsOf
      <4>3. version[w].number \in Nat BY <1>6, <4>1 DEF VersionsOf, Version
      <4> QED BY <1>2, <2>1, <3>2, <4>1, <4>2, <4>3
    <3> QED BY <3>3, <3>4
  <2>3. CASE b # a
    <3>1. v \in VersionsOf(b) /\ w \in VersionsOf(b) BY <1>16, <2>3
    <3>2. v # new /\ w # new /\ version[v] # None /\ version[w] # None
      BY <1>3, <3>1 DEF VersionsOf
    <3>3. Active(v) /\ (Active(w)' => Active(w)) BY <1>9, <2>0, <3>2 DEF Active
    <3>4. version'[v].number = version[v].number /\ version'[w].number = version[w].number
      BY <1>9, <2>0, <3>2
    <3> QED BY <1>20, <3>1, <3>3, <3>4 DEF ActivePreviewIsLatest
  <2> QED BY <2>2, <2>3
<1> QED BY <1>4, <1>11, <1>12, <1>13, <1>14, <1>15, <1>19, <1>20

-----------------------------------------------------------------------------
(* Steps that publish nothing *)

LEMMA SameRequest ==
  ASSUME NEW o, NEW p, p = request'[o], Good(p)', SlugFree(p)'
  PROVE  Good(request[o])' /\ SlugFree(request[o])'
BY DEF Good, SlugFree, Numbers, VersionsOf, Profiles, PublishedElsewhere

\* The request of the step is replaced by one that knows what it should, and the
\* others still know it.
LEMMA RequestsStep ==
  ASSUME Base, Persist, LiveUnchanged, TypeOK', NEW r \in Requests,
         NEW q \in Request, Good(q), SlugFree(q), request' = [request EXCEPT ![r] = q]
  PROVE  Types' /\ GoodRequests'
<1>1. Types' BY DEF Types, Base
<1>2. ASSUME NEW o \in Request, Good(o), SlugFree(o) PROVE Good(o)' /\ SlugFree(o)'
  <2>1. Good(o)' BY <1>2, PersistGood DEF Base
  <2>2. ASSUME o.pc = "publish", ~o.overtaken,
               PublishedElsewhere(o.artist, version[o.version].slug)'
        PROVE  FALSE
    <3>1. o.version \in Versions /\ version[o.version] # None /\ o.artist \in Artists
      BY <1>2, <2>2 DEF Good, Deciding, VersionsOf
    <3>2. version'[o.version].slug = version[o.version].slug BY <3>1 DEF Persist
    <3>3. PICK b \in Profiles' \ {o.artist} :
            profile'[b].publishedSlug = version[o.version].slug /\ profile'[b].published # None
      BY <2>2, <3>2 DEF PublishedElsewhere
    <3>4. b \in Artists /\ profile'[b] # None BY DEF Profiles
    <3>5. b \in Profiles /\ profile[b].published # None
          /\ profile[b].publishedSlug = version[o.version].slug
      BY <3>3, <3>4 DEF LiveUnchanged, Profiles
    <3>6. PublishedElsewhere(o.artist, version[o.version].slug)
      BY <3>3, <3>5 DEF PublishedElsewhere
    <3> QED BY <1>2, <2>2, <3>6 DEF SlugFree
  <2> QED BY <2>1, <2>2 DEF SlugFree
<1>3. \A o \in Requests : request'[o] = IF o = r THEN q ELSE request[o]
  BY DEF Base, Types
<1>4. \A o \in Requests : request[o] \in Request /\ Good(request[o]) /\ SlugFree(request[o])
  BY DEF Base, Types, GoodRequests
<1>5. \A o \in Requests : Good(request[o])' /\ SlugFree(request[o])'
  <2> SUFFICES ASSUME NEW o \in Requests PROVE Good(request[o])' /\ SlugFree(request[o])'
    OBVIOUS
  <2>1. PICK p \in Request : p = request'[o] /\ Good(p) /\ SlugFree(p) BY <1>3, <1>4
  <2>2. Good(p)' /\ SlugFree(p)' BY <1>2, <2>1
  <2> QED BY <2>1, <2>2, SameRequest
<1> QED BY <1>1, <1>5 DEF GoodRequests

\* What is live stays as it is, and was approved before.
LEMMA LiveStep ==
  ASSUME IInv, Persist, LiveUnchanged, UNCHANGED raced
  PROVE  LiveIsApproved' /\ LiveSlugsDiffer'
<1>1. \A a \in Artists : profile'[a] # None /\ profile'[a].published # None =>
        /\ a \in Profiles /\ profile'[a].published = profile[a].published
        /\ profile'[a].publishedSlug = profile[a].publishedSlug
  BY DEF LiveUnchanged, Profiles
<1>2. LiveIsApproved'
  <2> SUFFICES ASSUME NEW a \in Artists, profile'[a] # None, profile'[a].published # None
               PROVE  LET v == profile'[a].published
                      IN /\ v \in VersionsOf(a)' /\ v \in approvals'
                         /\ version'[v].revoked
                         /\ profile'[a].publishedSlug = version'[v].slug
    BY DEF LiveIsApproved, Profiles
  <2> DEFINE v == profile[a].published
  <2>1. v = profile'[a].published /\ v # None /\ a \in Profiles BY <1>1
  <2>2. v \in VersionsOf(a) /\ v \in approvals /\ version[v].revoked
        /\ profile[a].publishedSlug = version[v].slug
    BY <2>1 DEF IInv, LiveIsApproved
  <2>3. v \in Versions /\ version[v] # None /\ version[v].artist = a BY <2>2 DEF VersionsOf
  <2>4. version'[v] # None /\ version'[v].artist = a /\ version'[v].slug = version[v].slug
        /\ version'[v].revoked /\ v \in approvals'
    BY <2>2, <2>3 DEF Persist
  <2>5. profile'[a].publishedSlug = profile[a].publishedSlug BY <1>1
  <2> HIDE DEF v
  <2> QED BY <2>1, <2>2, <2>3, <2>4, <2>5 DEF VersionsOf
<1>3. LiveSlugsDiffer'
  BY <1>1 DEF IInv, LiveSlugsDiffer, Profiles
<1> QED BY <1>2, <1>3

\* Nothing new: numbers, owners and links are those of before.
LEMMA NothingNewStep ==
  ASSUME IInv, Persist, NothingNew, TypeOK'
  PROVE  Owned' /\ Numbered' /\ ActivePreviewIsLatest'
<1> USE DEF IInv, Base
<1>1. \A v \in Versions : version'[v] # None <=> version[v] # None
  BY DEF Persist, NothingNew
<1>2. \A v \in Versions : version[v] # None =>
        version'[v].artist = version[v].artist /\ version'[v].number = version[v].number
  BY DEF Persist
<1>3. \A a \in Artists : VersionsOf(a)' = VersionsOf(a) BY <1>1, <1>2 DEF VersionsOf
<1>4. \A a \in Artists : Numbers(a)' = Numbers(a)
  <2>1. \A a \in Artists : \A v \in VersionsOf(a) : version'[v].number = version[v].number
    BY <1>2 DEF VersionsOf
  <2> QED BY <1>3, <2>1 DEF Numbers
<1>5. Owned'
  <2>1. \A v \in Versions : version[v] # None => version[v].artist \in Artists
    BY PublicationConstants DEF Types, TypeOK, Version
  <2>2. \A a \in Artists : profile[a] # None => profile'[a] # None BY DEF Persist, Profiles
  <2> QED BY <1>1, <1>2, <2>1, <2>2 DEF Owned
<1>6. Numbered' BY <1>4 DEF Numbered
<1>7. ActivePreviewIsLatest'
  <2> SUFFICES ASSUME NEW a \in Artists, NEW v \in VersionsOf(a)', NEW w \in VersionsOf(a)',
                      Active(v)'
               PROVE  version'[w].number <= version'[v].number /\ (Active(w)' => w = v)
    BY DEF ActivePreviewIsLatest
  <2>1. v \in VersionsOf(a) /\ w \in VersionsOf(a) BY <1>3
  <2>2. v \in Versions /\ w \in Versions /\ version[v] # None /\ version[w] # None
    BY <2>1 DEF VersionsOf
  <2>3. Active(v) /\ (Active(w)' => Active(w)) BY <1>1, <2>2 DEF NothingNew
  <2> QED BY <1>2, <2>1, <2>2, <2>3 DEF ActivePreviewIsLatest
<1> QED BY <1>5, <1>6, <1>7

-----------------------------------------------------------------------------
(* Publish *)

LEMMA PublishStep ==
  ASSUME IInv, NEW r \in Requests, Publish(r)
  PROVE  Types' /\ GoodRequests' /\ LiveIsApproved' /\ LiveSlugsDiffer'
<1> DEFINE q == request[r]
           a == q.artist
           v == q.version
<1>0. Base BY DEF IInv
<1>1. /\ TypeOK' /\ Persist /\ a \in Artists /\ profile[a] # None
      /\ v \in approvals' /\ version'[v].revoked /\ v \in VersionsOf(a)
      /\ \A b \in Artists \ {a} : profile'[b] = profile[b]
      /\ profile'[a].published = v /\ profile'[a].publishedSlug = version[v].slug
  BY <1>0, PublishRows
<1>2. \A o \in Requests : request[o] \in Request /\ Good(request[o]) /\ SlugFree(request[o])
  BY <1>0 DEF Base, Types, GoodRequests
<1>3. request' = [o \in Requests |->
        IF o = r THEN Idle
        ELSE [request[o] EXCEPT !.overtaken = @ \/ request[o].pc = "publish"]]
  BY DEF Publish
<1>4. q.pc = "publish" /\ raced' = (raced \/ q.overtaken) BY DEF Publish
<1> HIDE DEF q, a, v
<1>5. ASSUME NEW o \in Requests
      PROVE  request'[o] \in Request /\ Good(request[o])' /\ SlugFree(request[o])'
  <2>1. CASE o = r
    <3>1. request'[o] = Idle BY <1>3, <2>1
    <3>2. request'[o].pc = "idle" BY <3>1 DEF Idle
    <3> QED BY <3>1, <3>2, IdleGood DEF Good, SlugFree, Deciding
  <2>2. CASE o # r
    <3> DEFINE new == [request[o] EXCEPT !.overtaken = request[o].overtaken \/ request[o].pc = "publish"]
    <3>1. request'[o] = new BY <1>3, <2>2
    <3>2. request[o] \in Request BY <1>2
    <3>3. (request[o].overtaken \/ request[o].pc = "publish") \in BOOLEAN BY <3>2 DEF Request
    <3>4. new \in Request BY <3>2, <3>3 DEF Request
    <3>5. /\ new.pc = request[o].pc /\ new.artist = request[o].artist
          /\ new.version = request[o].version /\ new.status = request[o].status
          /\ new.slug = request[o].slug /\ new.number = request[o].number
          /\ new.pc = "publish" => new.overtaken
      BY <3>2, <3>3 DEF Request
    <3>6. PICK p \in Request :
            /\ p = new /\ p.pc = request[o].pc /\ p.artist = request[o].artist
            /\ p.version = request[o].version /\ p.status = request[o].status
            /\ p.slug = request[o].slug /\ p.number = request[o].number
            /\ p.pc = "publish" => p.overtaken
      BY <3>4, <3>5
    <3> HIDE DEF new
    <3>7. Good(p) BY <1>2, <3>6 DEF Good
    <3>8. Good(p)' BY <1>0, <1>1, <3>7, PersistGood DEF Base
    <3>9. SlugFree(p)' BY <3>6 DEF SlugFree
    <3> QED BY <3>1, <3>6, <3>8, <3>9, SameRequest
  <2> QED BY <2>1, <2>2
<1>6. Types'
  <2>1. request' = [o \in Requests |-> request'[o]] BY <1>3
  <2>2. request' \in [Requests -> Request] BY <1>5, <2>1
  <2> QED BY <1>1, <2>2 DEF Types
<1>7. GoodRequests' BY <1>5 DEF GoodRequests
<1>8. v \in Versions /\ version[v] # None /\ version[v].artist = a BY <1>1 DEF VersionsOf
<1>9. version'[v] # None /\ version'[v].artist = a /\ version'[v].slug = version[v].slug
  BY <1>1, <1>8 DEF Persist
<1>10. LiveIsApproved'
  <2> SUFFICES ASSUME NEW b \in Artists, profile'[b] # None, profile'[b].published # None
               PROVE  LET w == profile'[b].published
                      IN /\ w \in VersionsOf(b)' /\ w \in approvals'
                         /\ version'[w].revoked
                         /\ profile'[b].publishedSlug = version'[w].slug
    BY DEF LiveIsApproved, Profiles
  <2>1. CASE b = a BY <1>1, <1>8, <1>9, <2>1 DEF VersionsOf
  <2>2. CASE b # a
    <3> DEFINE w == profile[b].published
    <3>1. profile'[b] = profile[b] /\ b \in Profiles BY <1>1, <2>2 DEF Profiles
    <3>2. w \in VersionsOf(b) /\ w \in approvals /\ version[w].revoked
          /\ profile[b].publishedSlug = version[w].slug
      BY <3>1 DEF IInv, LiveIsApproved
    <3>3. w \in Versions /\ version[w] # None /\ version[w].artist = b BY <3>2 DEF VersionsOf
    <3>4. version'[w] # None /\ version'[w].artist = b /\ version'[w].slug = version[w].slug
          /\ version'[w].revoked /\ w \in approvals'
      BY <1>1, <3>2, <3>3 DEF Persist
    <3> QED BY <3>1, <3>2, <3>3, <3>4 DEF VersionsOf
  <2> QED BY <2>1, <2>2
\* If the request was not overtaken, nobody else is live under its slug.
<1>11. LiveSlugsDiffer'
  <2> SUFFICES ASSUME ~raced', NEW b \in Artists, NEW c \in Artists, b # c,
                      profile'[b] # None, profile'[c] # None,
                      profile'[b].published # None, profile'[c].published # None
               PROVE  profile'[b].publishedSlug # profile'[c].publishedSlug
    BY DEF LiveSlugsDiffer, Profiles
  <2>1. ~raced /\ ~q.overtaken BY <1>4
  <2>2. ~PublishedElsewhere(a, version[v].slug)
    BY <1>2, <1>4, <2>1 DEF SlugFree, q, a, v
  <2>3. ASSUME NEW d \in Artists \ {a}, profile'[d] # None, profile'[d].published # None
        PROVE  profile'[d].publishedSlug # version[v].slug
    <3>1. profile'[d] = profile[d] BY <1>1
    <3> QED BY <2>2, <2>3, <3>1 DEF PublishedElsewhere, Profiles
  <2>4. CASE b = a BY <1>1, <2>3, <2>4
  <2>5. CASE c = a BY <1>1, <2>3, <2>5
  <2>6. CASE b # a /\ c # a
    <3>1. profile'[b] = profile[b] /\ profile'[c] = profile[c] BY <1>1, <2>6
    <3> QED BY <2>1, <3>1 DEF IInv, LiveSlugsDiffer, Profiles
  <2> QED BY <2>4, <2>5, <2>6
<1> QED BY <1>6, <1>7, <1>10, <1>11

-----------------------------------------------------------------------------
(* The theorems *)

LEMMA NextIInv == IInv /\ [Next]_vars => IInv'
<1> SUFFICES ASSUME IInv, [Next]_vars PROVE IInv'
  OBVIOUS
<1>0. Base BY DEF IInv
<1>1. CASE UNCHANGED vars
  <2> USE <1>1 DEF vars
  <2>1. Types' /\ Owned' /\ ApprovedRows' BY <1>0 DEF Base, Types, TypeOK, Owned, ApprovedRows
  <2>2. Numbered' BY <1>0 DEF Base, Numbered, Numbers, VersionsOf
  <2>3. GoodRequests'
    BY <1>0 DEF Base, GoodRequests, Good, SlugFree, Profiles, Numbers, VersionsOf, PublishedElsewhere
  <2>4. ActivePreviewIsLatest' BY DEF IInv, ActivePreviewIsLatest, VersionsOf, Active
  <2>5. LiveIsApproved' /\ LiveSlugsDiffer'
    BY DEF IInv, LiveIsApproved, LiveSlugsDiffer, VersionsOf, Profiles
  <2> QED BY <2>1, <2>2, <2>3, <2>4, <2>5 DEF IInv, Base
<1>2. ASSUME NEW a \in Artists, SaveProfile(a) PROVE IInv'
  <2>1. /\ TypeOK' /\ Persist /\ LiveUnchanged /\ NothingNew
        /\ UNCHANGED <<version, approvals, request, raced>>
    BY <1>0, <1>2, SaveProfileRows
  <2>2. Types' BY <1>0, <2>1 DEF Base, Types
  <2>3. GoodRequests'
    <3>1. CASE Requests = {} BY <3>1 DEF GoodRequests
    <3>2. ASSUME NEW r \in Requests PROVE GoodRequests'
      <4>1. request' = [request EXCEPT ![r] = request[r]]
        BY <1>0, <2>1 DEF Base, Types
      <4>2. request[r] \in Request /\ Good(request[r]) /\ SlugFree(request[r])
        BY <1>0 DEF Base, Types, GoodRequests
      <4> QED BY <1>0, <2>1, <4>1, <4>2, RequestsStep
    <3> QED BY <3>1, <3>2
  <2>4. LiveIsApproved' /\ LiveSlugsDiffer' BY <2>1, LiveStep
  <2>5. Owned' /\ Numbered' /\ ActivePreviewIsLatest' BY <2>1, NothingNewStep
  <2>6. ApprovedRows' BY <1>0, <2>1 DEF Base, ApprovedRows
  <2> QED BY <2>2, <2>3, <2>4, <2>5, <2>6 DEF IInv, Base
<1>3. ASSUME NEW r \in Requests, ReadStep(r) PROVE IInv'
  <2>1. /\ UNCHANGED <<profile, version, approvals, raced>>
        /\ \E q \in Request : /\ request' = [request EXCEPT ![r] = q]
                              /\ Good(q) /\ SlugFree(q)
    BY <1>0, <1>3, ReadStepGood
  <2>2. PICK q \in Request : request' = [request EXCEPT ![r] = q] /\ Good(q) /\ SlugFree(q)
    BY <2>1
  <2>3. TypeOK' /\ Persist /\ LiveUnchanged /\ NothingNew
    BY <1>0, <2>1 DEF Base, Types, TypeOK, Persist, LiveUnchanged, NothingNew, Active, Profiles
  <2>4. Types' /\ GoodRequests' BY <1>0, <2>2, <2>3, RequestsStep
  <2>5. LiveIsApproved' /\ LiveSlugsDiffer' BY <2>1, <2>3, LiveStep
  <2>6. Owned' /\ Numbered' /\ ActivePreviewIsLatest' BY <2>3, NothingNewStep
  <2>7. ApprovedRows' BY <1>0, <2>1 DEF Base, ApprovedRows
  <2> QED BY <2>4, <2>5, <2>6, <2>7 DEF IInv, Base
<1>4. ASSUME NEW r \in Requests, Approve(r) \/ Revoke(r) PROVE IInv'
  <2>1. /\ TypeOK' /\ Persist /\ LiveUnchanged /\ NothingNew /\ ApprovedRows'
        /\ request' = [request EXCEPT ![r] = Idle] /\ UNCHANGED raced
    BY <1>0, <1>4, ApproveRows, RevokeRows
  <2>2. Types' /\ GoodRequests' BY <1>0, <2>1, IdleGood, RequestsStep
  <2>3. LiveIsApproved' /\ LiveSlugsDiffer' BY <2>1, LiveStep
  <2>4. Owned' /\ Numbered' /\ ActivePreviewIsLatest' BY <2>1, NothingNewStep
  <2> QED BY <2>1, <2>2, <2>3, <2>4 DEF IInv, Base
<1>5. ASSUME NEW r \in Requests, CreatePreview(r) PROVE IInv'
  <2>1. /\ TypeOK' /\ Persist /\ LiveUnchanged /\ ApprovedRows' /\ Owned'
        /\ Numbered' /\ (ActivePreviewIsLatest => ActivePreviewIsLatest')
        /\ request' = [request EXCEPT ![r] = Idle] /\ UNCHANGED raced
    BY <1>0, <1>5, CreatePreviewRows
  <2>2. Types' /\ GoodRequests' BY <1>0, <2>1, IdleGood, RequestsStep
  <2>3. LiveIsApproved' /\ LiveSlugsDiffer' BY <2>1, LiveStep
  <2>4. ActivePreviewIsLatest BY DEF IInv
  <2> QED BY <2>1, <2>2, <2>3, <2>4 DEF IInv, Base
<1>6. ASSUME NEW r \in Requests, Publish(r) PROVE IInv'
  <2>1. Types' /\ GoodRequests' /\ LiveIsApproved' /\ LiveSlugsDiffer' BY <1>6, PublishStep
  <2>2. TypeOK' /\ Persist /\ NothingNew /\ ApprovedRows' BY <1>0, <1>6, PublishRows
  <2>3. Owned' /\ Numbered' /\ ActivePreviewIsLatest' BY <2>2, NothingNewStep
  <2> QED BY <2>1, <2>2, <2>3 DEF IInv, Base
<1> QED BY <1>1, <1>2, <1>3, <1>4, <1>5, <1>6 DEF Next, ReadStep

LEMMA Invariance == Spec => []IInv
BY InitIInv, NextIInv, PTL DEF Spec

\* Every row keeps its type, every version belongs to an artist there is, and what
\* a request has read is typed and still belongs together.
THEOREM PublicationTypes == Spec => [](Types /\ Owned /\ GoodRequests)
<1>1. IInv => Types /\ Owned /\ GoodRequests BY DEF IInv, Base
<1> QED BY <1>1, Invariance, PTL

\* The only review link of an artist that works is that of the latest version,
\* for any number of concurrent previews, decisions and failures.
THEOREM PublicationLatest == Spec => []ActivePreviewIsLatest
<1>1. IInv => ActivePreviewIsLatest BY DEF IInv
<1> QED BY <1>1, Invariance, PTL

\* What is live was approved, belongs to the artist, is served under the slug it was
\* frozen with, and has no working review link.
THEOREM PublicationLive == Spec => []LiveIsApproved
<1>1. IInv => LiveIsApproved BY DEF IInv
<1> QED BY <1>1, Invariance, PTL

\* Two artists are live under different slugs, unless publications raced.
THEOREM PublicationSlugs == Spec => []LiveSlugsDiffer
<1>1. IInv => LiveSlugsDiffer BY DEF IInv
<1> QED BY <1>1, Invariance, PTL

LEMMA PublishKeepsLive ==
  ASSUME Base, NEW r \in Requests, Publish(r)
  PROVE  StillLive
<1> DEFINE q == request[r]
<1>1. /\ \A b \in Artists \ {q.artist} : profile'[b] = profile[b]
      /\ profile'[q.artist].published = q.version
      /\ q.artist \in Artists /\ q.version \in VersionsOf(q.artist)
  BY PublishRows
<1>2. q.version \in approvals
  BY DEF Publish, Base, GoodRequests, Good
<1> HIDE DEF q
<1> QED BY <1>1, <1>2 DEF StillLive, Profiles

LEMMA NextKeeps == IInv /\ [Next]_vars => Persist /\ StillLive
<1> SUFFICES ASSUME Base, [Next]_vars PROVE Persist /\ StillLive
  BY DEF IInv
<1>0. LiveUnchanged => StillLive BY DEF LiveUnchanged, StillLive
<1>1. CASE UNCHANGED <<profile, version, approvals>>
  BY <1>1 DEF Base, Types, TypeOK, Persist, StillLive, Profiles
<1>2. CASE UNCHANGED vars BY <1>1, <1>2 DEF vars
<1>3. ASSUME NEW a \in Artists, SaveProfile(a) PROVE Persist /\ StillLive
  BY <1>0, <1>3, SaveProfileRows
<1>4. ASSUME NEW r \in Requests, ReadStep(r) PROVE Persist /\ StillLive
  BY <1>1, <1>4, ReadStepGood
<1>5. ASSUME NEW r \in Requests, Approve(r) \/ Revoke(r) PROVE Persist /\ StillLive
  BY <1>0, <1>5, ApproveRows, RevokeRows
<1>6. ASSUME NEW r \in Requests, CreatePreview(r) PROVE Persist /\ StillLive
  BY <1>0, <1>6, CreatePreviewRows
<1>7. ASSUME NEW r \in Requests, Publish(r) PROVE Persist /\ StillLive
  BY <1>7, PublishRows, PublishKeepsLive
<1> QED BY <1>2, <1>3, <1>4, <1>5, <1>6, <1>7 DEF Next, ReadStep

\* A frozen version keeps its artist, number and slug, so that what was approved is
\* what goes live; a closed link never works again; and what is live is only ever
\* replaced by a version of the artist that was approved before, whatever is saved,
\* revoked or superseded meanwhile (publishArtistProfile is the one that writes it).
THEOREM PublicationKept == Spec => [][Persist /\ StillLive]_vars
<1>1. IInv /\ [Next]_vars => [Persist /\ StillLive]_vars BY NextKeeps
<1> QED BY <1>1, Invariance, PTL DEF Spec
=============================================================================
