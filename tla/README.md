# The vvviruz command center, specified in TLA+

This directory specifies the parts of the command center in which several
requests, jobs or messages can meet: what each of them reads, when it writes,
and what the owner may rely on afterwards. The modules are checked with TLC on
small instances, and the central invariants are proved with TLAPS for instances
of every size.

`PROJECT.json` lists the components, the runs, the source lines of every
definition, the hazards and the theorems. This file explains them.

## 1. The system

A Next.js application in TypeScript for one owner (there is a single
administrator account). Requests are served by functions that live for seconds
to minutes; several may run at the same time, and each may be killed at any
`await`. They share

- a relational database behind Prisma (SQLite locally, PostgreSQL in production,
  with its default isolation level READ COMMITTED: a transaction's reads see
  what others commit in between, a conditional `updateMany` re-evaluates its
  condition on the latest row, and unique columns are enforced at write time);
- a private object store (Vercel Blob, or a directory locally), not covered by
  any transaction;
- an email provider (Resend) and Meta's conversions API over HTTP;
- two cron routes: backups at 09:00 and analytics maintenance at 09:30.

Whenever an operation touches more than one of these, or reads in one query and
writes in another, other requests run in between. This is where the hard
behaviours are; the table says, for each component, which.

| component | state | operations | what is hard, and what makes it correct |
|---|---|---|---|
| Spotify import | `AnalyticsImport` and its rows; preview and raw objects; an encrypted token in the browser | preview, commit, withdraw, reprocess | reads long before it writes, across database and storage; retries with an idempotency key; replacement chains. History is append-only, a file is imported once, answers are true, a retained raw file is really there |
| Storage retention cleanup | `rawFileExpiresAt`, `rawFileDeletedAt`; object creation times | one sweep a day, plus a script | lists storage and rows at different moments, deletes later, may die or overlap. Takes nothing that is needed, marks nothing that is still there, reclaims everything else |
| Email campaigns | `EmailCampaign.status`, `sentAt`, `EmailSendLog` | create, edit, delete, send | the status is a lock held across a slow loop of external calls. One send, and one more per edit that made it a draft again; none after a complete one; a log that is true |
| Audience | `Subscriber` | signup, unsubscribe by token, owner edits, deletion | changes while a send works through its list |
| Release mapping | the mapping columns of `AnalyticsImportRow`, release aliases, period snapshots, audit rows | suggest, confirm, remap, leave unmatched, revoke an alias | read-committed races decided by unique scope keys and by one version check; summaries that are counted, then written. One confirmed row per import and release, one active alias per scope, snapshots that never change |
| Meta ad imports | batches, files, observations, daily resolutions and their events | preview, commit (possibly replacing), withdraw, recalculate | a derived table has to agree with the accepted batches after every interleaving |
| Promotion campaign timeline | campaigns, intervals, system events, suggestions | add, close and correct intervals, accept suggestions | overlap is checked by a read before the insert |
| Managed artist publication | `ArtistProfile`, `ArtistProfileVersion`, approvals | save, preview, approve, revoke, publish | each request reads, then writes in a transaction that does not look again. One working review link, of the latest version; what is live was approved and stays as frozen |
| Artist intake and conversion | intake, draft response, asset list, artist profile, draft releases | save, submit, review, reopen, rotate, archive, convert | read-modify-write of one row by two people; a conversion in many steps that has to be resumable |
| Administrator authentication | sessions with a stage, TOTP enrolment, an in-memory throttle | login, TOTP challenge, setup, logout | stages of several sessions of one account; rotation that deletes, then creates |
| Public rate limits | counter rows per key and window | consume | read in one query, written in another |
| Backups | run rows, backup blobs | create daily or weekly, verify, prune | two destinations that fail separately; pruning that must not take the last good copy |
| Playlists | memberships with positions, featured release | replace memberships, feature | positions stay 0..n-1, the featured release stays a member |
| Breaking Barz and annotations | annotation, lyric anchor, public entry | save, publish, re-anchor | three rows that move together |
| Retention engine | none (pure functions over daily series) | confidence, persistence, classification | boundary cases of windows and ratios |
| Releases, copies, site content | one row each | form saves | little: single writes |
| Short links, public analytics | event rows | record, redirect | deduplicated by one unique key |
| Ads reporting, recommendations | none of its own | queries | little: read models |
| Commissions | one row per request | submit, update | little |
| Private object storage | objects | put, get, delete, list | external service, modelled where it is used |
| User interface | component state | - | not a subject here |

Interactions. The send route reads the audience and writes campaign and log. A
Spotify commit writes the rows that release mapping later confirms; mapping
snapshots feed the retention engine. The sweep reads import rows of both
Spotify and Meta and deletes their objects. A Meta commit updates daily
resolutions, from which the timeline derives interval suggestions. Conversion
of an intake creates a profile and draft releases.

## 2. Modules

| module | what it is | status |
|---|---|---|
| `ImportLedger` | abstract specification: what the import history promises | checked, proved |
| `SpotifyImport` | previews, commits, withdrawals and sweeps, step by step; implements `ImportLedger` | checked, safety and refinement proved |
| `CampaignSend` | send, edit and delete requests over one campaign and a changing audience | checked, safety proved |
| `ReleaseDecisions` | abstract specification: what the mapping requests promise, each one atomic decision | checked as refined |
| `ReleaseMapping` | confirm, remap, unmatch and revoke as read-committed transactions; implements `ReleaseDecisions` | checked, safety and refinement proved |
| `MetaImport` | previews, commits, replacements and withdrawals of Meta exports, with the daily resolutions they recalculate | checked, proved |
| `MetaSuggestions` | `MetaImport` composed with the generation of interval suggestions that follows each import | checked, proved |
| `CampaignTimeline` | the owner's changes to intervals and status, the lifecycle events derived from them, and suggestions that come and go | checked, proved |
| `ArtistPublication` | managed profiles: draft, preview versions, approval, revocation, publication | checked, proved |
| `ArtistIntake` | the intake of an artist: form, uploads, review, archiving and the resumable conversion | checked, proved |
| `MC*` | the symmetry sets and state constraints of TLC's runs | |
| `*_proofs` | theorems and their proofs | |

A process (a request, a sweep) is a member of a constant set, and its local
variables are the fields of a record in a function over that set; `pc` names the
`await` it stands before. One action is what the code does between two awaits
that others can observe. A database transaction is one action where its
constraints decide by themselves, and several where the code reads and later
writes under READ COMMITTED. Names follow the code.

### ImportLedger

`ledger[i]` is a row once import `i` is accepted. `Accept`, `AcceptReplacing`
and `Withdraw` are atomic. Nothing in it knows of requests, tokens or storage:
it is what a reader of the history may assume.

### SpotifyImport

Sources: `lib/analytics/spotify-import-service.ts`, `retention-cleanup.ts`, the
delete functions of `lib/server/asset-storage.ts`.

| in the model | in the code |
|---|---|
| `imports[r]` | the `AnalyticsImport` row request `r` created: hash, key, artist+type (`scope`), status, `replacedByImportId`, `rawFileExpiresAt`, `rawFileDeletedAt` |
| `raw[r]`, `temp[p]` | the objects under `analytics-raw` and `analytics-preview`, by creation time |
| `preview[p]` | one preview request and the token it returned: the user, the file, the issue time |
| `PreviewUpload`, `ReprocessRequest`, `ReprocessReadRaw`, `PreviewStore` | `createSpotifyImportPreview`, `reprocessSpotifyImport` |
| `CommitBegin` | decryption of the token, its checks, the lookup by idempotency key |
| `CheckHash`, `ReadPreview`, `RecheckHash`, `CheckTarget`, `Upload` | the awaits before the transaction, in order |
| `CommitTransaction`, `AbortTransaction`, `LoseCommitAck` | the transaction: committed; rolled back; committed with its acknowledgement lost |
| `DeleteRaw`, `FindWinner` | the catch block: compensation, then finding out who won |
| `DeletePreview` | after the transaction |
| `WithdrawRead`, `WithdrawUpdate` | `withdrawSpotifyImport`, whose conditional update re-decides |
| `SweepStart` ... `SweepEnd` | `runRetentionCleanup`: the concurrent listings, the plan, deletion object by object, marking |
| `CommitDies`, `PreviewDies`, `WithdrawDies`, `SweepDies` | the platform kills the function |
| `Tick` | time passes; nothing outlives `MaxRun` |

A file is its hash; parsing, reconciliation and confirmations are a choice
between going on and `INVALID`. Whatever the browser may send is enumerated:
any user, key, token, scope and replacement target, in any combination, so
stolen, expired and reused tokens and keys are all included. `deleteAsset` swallows
storage errors (the object may stay), `deleteStoredAssetStrict` reports them.

The `Timing` assumption relates the constants as the configuration does: the
preview object is kept at least an hour, the token lives 15 minutes and a
request minutes, so `PreviewTTL + MaxRun < PreviewRetention`; orphans are taken
after at least a day, and raw files are retained for days, so both exceed
`MaxRun`. None of the safety properties would hold without it.

### CampaignSend

Sources: `app/api/campaigns/**`, `lib/repositories/audience.ts`, `lib/email`.

| in the model | in the code |
|---|---|
| `campaign` | the row: status and whether `sentAt` is set; `None` once deleted |
| `logs`, `mail` | `EmailSendLog` rows; what the provider accepted |
| `SendRead`, `SendList`, `SendLock` | the route's read, the list of recipients, `markCampaignSendingIfReady` |
| `Deliver`, `LogSent`, `LogFailed`, `Finish` | the loop over the recipients and the final status |
| `EditRead`, `EditReread`, `EditUpsert` | PUT: the route's read, then `saveCampaign`'s own read and upsert |
| `DeleteRead`, `DeleteRow` | DELETE, with the cascade to the log |
| `UpsertExclusiveSubscriber`, `UnsubscribeByToken`, `SaveSubscriber`, `DeleteSubscriber` | everything that changes whom the campaign reaches |

An email can be accepted although its answer is lost: the route cannot tell that
from a refusal and counts a failure. The same goes for a log row. It is inserted inside
the `try` of the delivery, so when it is written and the answer of the database is lost, the
catch writes a second row, `failed`, for the same recipient; `unheard` remembers whom that
happened to. A deleted subscriber leaves `Deleted`
behind so that ids are not reused (they are generated): a log row that names
one is refused by its foreign key. `Faults` switches database failures and killed requests on.

### ReleaseMapping

Sources: `lib/analytics/release-mapping-service.ts`, `release-matching.ts`, the
tables of `prisma/schema.postgres.prisma`, and what `commitSpotifyImport` leaves in them.

| in the model | in the code |
|---|---|
| `row[r]` | the mapping columns of an `AnalyticsImportRow`: its import, its alias scope (normalized title and release date), status, release, applied alias, `mappingVersion` |
| `alias[a]` | `ReleaseImportAlias`; one that a request creates carries the request's name, one that was there before its scope's |
| `snapshot[r]` | the `SongPeriodSnapshot` of the row: the release it was taken for |
| `summary[m]` | the two counts `refreshImportMappingSummary` writes |
| `change[c]` | a request's transaction: the statement it stands before, what it read, what it has written and not yet committed (`wrote`) |
| `ConfirmRead`, `RemapRead`, `ReadRelations` | `requireRow`: the row, then in further queries the relations Prisma includes |
| `FindDuplicate` | the `findFirst` for another row confirmed for the release |
| `UnmatchRead`, `RevokeRead` | the reads of `leaveMappingUnmatched` and `revokeReleaseAlias` |
| `RevokeAlias`, `FindAlias`, `CreateAlias` | the update of the old alias by id; `createOrReuseAlias` |
| `FindSnapshot`, `CreateSnapshot` | `createSnapshotIfMissing` |
| `WriteRow`, `CountRows` | the update of the row (by id; a remap's also by version), then the counts |
| `Commit`, `Abort`, `Refuse` | the end of the transaction; a rollback for any reason |

A transaction reads what is committed and its own writes. Its own writes become
visible in `Commit`. A write waits while another open transaction has
written the same row or holds the same value of a unique column
(`confirmedScopeKey`, `activeScopeKey`, `mappingRowId`, release in import and
period); when that one has ended, the write succeeds or the request is refused, by
what is committed then. Two transactions that wait for each other are covered
by `Abort`. `mappingVersion` is compared by a remap's update, which is re-evaluated
on the latest row; the other updates name their row by id alone, and so do they here.

`Init` is what commits of imports and earlier decisions leave behind: any
distribution of rows over imports and scopes, any active aliases, a confirmed row
with its snapshot, an unmatched one possibly with the snapshot it once got.
Rows of one import may share a scope, since the parser rejects repeated titles
as written and the scope normalizes them.

`ReleaseDecisions` is what the service promises of whoever uses it: a request
that is answered was one decision, atomic, on the rows, aliases and snapshots of that
moment, and one that is refused or lost decided nothing. A request asks (`Ask`, with
`MayAsk` the check of its first read), and is refused (`Refuse`) or answered (`Answer`), by
one of four decisions. `Confirm` and `Remap` give a row a release that no other row of its
import has (`Free`), with no alias, one that fits, or a new one where the scope has no
active one (`Apply`). A confirmation keeps the row's snapshot or takes it
(`Figures`); a remap finds the row with another release, ends its alias, which
names its successor, and keeps the snapshot. `Unmatch` and `Revoke` are the other two.
The abstract row is the concrete one without status and version (`Decided`), aliases and
snapshots are the same, and `Asked` is what each open request asks for. `asked` is
there because a decision is judged by its request: without it, a remap that forgot
to end its alias would pass for a confirmation of a row that is confirmed already. Two things
the code's sequential reading would suggest are not promised, since
interleavings break them: that a confirmed row was unmatched before, and that an
alias which a request applies is still active when it commits.

### MetaImport and MetaSuggestions

Sources: `lib/ads/meta-import-service.ts`, `meta-evidence-contract.ts`, and
`generateMetaIntervalSuggestions` of `lib/analytics/campaign-timeline-service.ts`.

| in the model | in the code |
|---|---|
| `batch[c]` | the `AdImportBatch` commit `c` created, with its file's observations: key, target, arrival, state |
| `resolution[d]` | `MetaDailyResolution` of a day: who created the row, the winning batch, its version |
| `preview[p]`, `raw` | preview tokens and their objects; the batches whose file is in `ads-raw` |
| `orphans` | a history: files whose upload was not answered, or whose deletion failed |
| `request[r]` | how far a commit or a withdrawal is, and what it has read (`seen`: the winners, `existing`: the rows) |
| `Start` ... `StoreRaw` | `commitMetaImport` before its transaction, one query or upload each |
| `Create`, `Replace`, `Update` | the insert with its unique columns; the conditional update of the target; a withdrawal's update by id |
| `Observe`, `ReadExisting`, `Write` | `recalculateMetaDailyResolutions`: two reads, then the writes and COMMIT |
| `AckLost`, `Rollback`, `Cleanup` | the catch block after a COMMIT whose answer is lost, and after a rollback; the preview's deletion |
| `Discard` | the deletion of the stored file, whose errors the code ignores |
| `Winner` | `resolveCanonicalDaily`: trust in the origin of `sourceAsOf`, then `sourceAsOf`, then `acceptedAt` |
| `current`, `superseded` | `CampaignEvidence` by `suggestionState`: key and fingerprint |
| `ReadFacts`, `ReadEvidence`, `WriteWindow`, `Retire` | the generation that follows a commit, a replay or a withdrawal: one transaction per window |

An export is what the resolution can tell apart: the days it reports with a
spend of zero or one, the origin and date of its `sourceAsOf`, and whether it is
eligible. One batch is one file; a day stands for one identity key. `raced` is
the set of days whose last recalculation was overtaken by the commit of another
transaction after its reads. The properties about resolutions except those
days, and there is no other reason for one to be wrong.

Storage is not reliable. An upload may fail or be kept without an answer (the
request then fails, and does not know of the file), and a deletion may fail
unseen, so that a file stays after a conflict or a failure; a preview that was to
be deleted may be found again by `ReadFiles`. Nothing in the code reclaims a
file of `ads-raw` that no batch names but the sweep, which is not modelled for Meta.

### CampaignTimeline

Source: `lib/analytics/campaign-timeline-service.ts`.

| in the model | in the code |
|---|---|
| `campaign`, `interval[i]` | the status of the `PromotionCampaign`; `CampaignActiveInterval` rows: days, confirmation, `supersedesIntervalId` |
| `events` | `CampaignTimelineEvent` rows of `SYSTEM_INTERVAL_SYNC` that are confirmed, and the change that wrote each |
| `change[c]` | a transaction: the statement before which it stands, the row it inserts, the one it marks, the events it found |
| `Add`, `ConfirmSuggestion`, `RejectSuggestion`, `Correct`, `UpdateCampaign` | the owner's requests, up to `validateIntervalConflict` |
| `Validate`, `Insert`, `Mark` | the checks; the insert of a successor; the update by id |
| `FindEvents`, `TakeEvents`, `DeriveEvents` | `syncIntervalEvents`: read the events, supersede them, insert those of the intervals |
| `Suggest` | a suggestion from `MetaSuggestions`, which may supersede another one |

`raced` records that a change committed on top of another that had committed since it
began; `stale`, that no other change of confirmed intervals has repaired the
events since.

### ArtistPublication

Source: `lib/repositories/artist-profiles.ts`.

| in the model | in the code |
|---|---|
| `profile[a]`, `version[v]`, `approvals` | `ArtistProfile` (slug, workflow, what is published), `ArtistProfileVersion`, `ArtistProfileApproval` |
| `ReadDraft`, `ReadLatest`, `CreatePreview` | `createArtistPreviewVersion`: the draft, the latest number, the transaction |
| `ReadForApproval`, `Approve`, `ReadForRevocation`, `Revoke` | `recordArtistProfileApproval`, `revokeArtistPreviewVersion`: a read and a transaction each |
| `ReadForPublication`, `CheckSlug`, `Publish` | `publishArtistProfile` |

The transactions of this component are batches of statements that hold no
condition, so one action stands for each. `raced` records a publication written
between the slug check and the write of another one.

### ArtistIntake

Sources: `lib/repositories/artist-intakes.ts`, the image route of `app/api/artist-intake`.

| in the model | in the code |
|---|---|
| `intake` | the row: status, whether its date has passed, whether it is linked to a profile, `uploadedAssetPaths`, and of the answers the address of the profile image and the releases |
| `stored` | the images in storage |
| `orphans`, `missing` | histories: images that may be stored though unlisted, listed though deleted, each added by the step that loses it |
| `profile`, `rows` | the draft `ArtistProfile` and the `Release` rows a conversion makes |
| `ReadForSave`, `Save` | `saveArtistIntakeResponse` |
| `ReadForUpload` ... `Register` | the image route: check, store, register |
| `FailRegister`, `DeleteStored` | its catch, also after a registration that was written and not answered; `deleteAsset`, which swallows errors |
| `ReadForArchive`, `DeleteImages`, `Archive`, `ListExpired` | `archiveArtistIntake` and `archiveExpiredArtistIntakes` |
| `ReadForConversion`, `SaveProfile`, `SaveRelease`, `SaveCatalog`, `Link` | `convertArtistIntakeToDraft`, which may stop anywhere and be repeated |

No operation here is a transaction, and none looks again before it writes. So
two requests that overlap can undo each other, and the hazards name the cases.
The profile image is an address (`Urls`), as in the form, which takes any http(s) URL
and never compares it with the uploads: what a draft shows and what is stored are
independent. `excused` becomes true when an intake that was linked since a request read it
is written, or a conversion goes on beside another one or over answers that have
changed; `LinkedDraftIsWhole` and `EditsSurvive` say what is true before: that no sequence of
failures, repetitions, reopenings and corrections harms the draft. `ImagesAccounted` holds
throughout: an image is only lost by a deletion that storage fails, a store or a registration that is
not answered, a request that dies or a list that is written back, and each of these
steps names the image it loses in `orphans` or `missing`.

## 3. What the runs show

Runs that must pass:

| run | instance | shows |
|---|---|---|
| `ledger` | 4 imports, 4 hashes, 4 keys, 2 scopes | history is append-only; replacement columns agree |
| `spotify_commit` | 2 commits, 2 previews, 2 withdrawals, 2 of everything else, lost acknowledgements, no clock | every answer is true unless the acknowledgement was lost; one fate per import; `SpotifyImport` implements `ImportLedger` |
| `spotify_sweep` | 1 commit, 2 previews, 2 sweeps, lost acknowledgements, clock to 4 | overlapping, failing and dying sweeps take neither a retained raw file nor the preview of a running commit, and mark no stored file as deleted |
| `spotify_reclaim` | 2 commits, 1 sweep, batches of 1, lost acknowledgements | orphans, old previews and expired files are all dealt with in the end |
| `campaign_lock` | 3 sends, 1 edit, 1 deletion, faults, 1 subscriber, 1 change | one request emails the audience, and one more once the edit is saved; none after a send that ended as sent and no saved edit; the lock is given back unless a request ends with an error |
| `campaign_log` | 2 sends, 1 edit, 1 deletion, faults, 2 subscribers, 1 change | status and log never claim more than was delivered, even after an edit gave the lock away, until the campaign is deleted; a recipient is logged with both outcomes only after a lost answer |
| `mapping_changes` | 3 requests of any kind, 2 rows of one scope in one import or two, 2 releases | rows, aliases and snapshots stay consistent; a remap replaces nothing it did not see; `ReleaseMapping` implements `ReleaseDecisions` |
| `meta` | 2 commits, 1 withdrawal, 3 exports over 3 days, faults (2.9 million states) | a resolution names the canonical batch unless its last recalculation was overtaken; answers agree with the rows; a missing or left over file has one of the causes named; SYNCED means synchronised |
| `timeline` | 3 requests of any kind, 2 suggestions, 2 days (2.6 million states) | confirmed intervals overlap only after a race; events follow the intervals; lineages are chains and no confirmed interval is lost |
| `publication` | 2 artists, 2 slugs, 3 versions, 2 requests at a time, failures (1.1 million states) | one working review link, of the latest version; what is live was approved and stays frozen; slugs differ unless publications race |
| `intake` | 2 requests at a time, 2 images, 2 addresses, 2 releases, failures (3.2 million states) | a linked draft is whole; images are accounted for; the owner's edits survive |

Bounds, and why they are enough. Two commits are enough for every race on a
unique column, since such a race is decided between a pair of rows. They do not
show two replacements competing for an import a third request made, which the
abstract ledger and the conditional update of `WriteImport` cover: `ledger` runs
chains of four. The clock reaches 4 with retentions of 2 and 3, so objects
pass through every age relation: younger than, exactly at and beyond each
threshold. `BatchSize = 1` with two candidates makes every batch overflow. Two
subscribers give a send that is partly delivered. One change of the
audience (`MaxChanges = 1`) lets a subscriber leave, be deleted or come between the list and the
email; the proofs cover any number. In `mapping_changes` three requests are one more than any
race between two needs: a chain of successors is made by two remaps and broken by a third
request's revocation. Two rows are what a unique column tells apart; both have one scope so that all
requests compete for one alias, and rows of different scopes have only the
import and its releases in common, which the choice of imports covers. The
proofs cover every number of each. The exports of `meta` overlap pairwise on
one day each, one is trusted less than the others, and one reports an explicit zero, so that
a replacement changes winners and windows; two commits and a withdrawal are the least that a race on a
day and a return to earlier facts need. In `timeline` the third change is the one that repairs or
inherits what two racing ones left; two days make intervals that touch, nest and stay
open. `publication` names requests that are reused for ever: two are open at a time, and
only the number of versions is bounded, by the state constraint `FewVersions`. `intake` has no bound on the
length of its behaviours; the constraint `Judged` does not go on from excused states,
in which nothing is said of the draft, and `OneLost` not from states in which two images
have been lost; `OneLost` of `meta` likewise stops at the second file that is left in storage. What
these files and images have in common is one step that loses them, so a second one
meets nothing that the first did not, and the proofs hold without the constraints. Symmetry is used for safety
only, over sets whose members no definition tells apart.

Deadlock is not checked: requests end and the constants name
finitely many, so all behaviours stop.

Fairness. `spotify_reclaim` assumes weak fairness of each sweep: the cron route
runs every day and a run that is not killed goes on. Since a sweep may fail for
ever when the storage does, its properties are conditional on `StorageRecovers`
(from some point on no deletion fails and no sweep dies). `campaign_lock`
assumes weak fairness of each send request; its `SendEnds` is conditional on no request ending
with an error, since one that is killed does not give the lock back. No fairness is assumed of owners, subscribers or the clock.

Each property of these runs is also shown to be able to fail: `PROJECT.json`
names, for each, an operator beside the real one (marked "Mutant" in the
modules) that is the same code with a plausible slip, under which TLC finds the
property violated.

### Statements the code does not keep

The run `meta_restore` checks a sentence of the repository that TLC refutes.
`docs/operations/ad-lab-campaign-evidence.md:60` says "Withdrawal recalculates
from the remaining canonical observations and can restore the earlier suggestion
set." After commit A, commit B of another day and the withdrawal of B, the facts
are again those of A; the evidence of these facts exists, superseded, and its
fingerprint is unique for the campaign, so the synchronisation that should
restore it answers RETRY_REQUIRED each time.

Other disagreements met while modelling. They are behaviours of the models (the
actions named produce them), but no run is spent on them:

| statement | what happens instead | in the model |
|---|---|---|
| "If retained raw data is available, reprocess to a new private preview. Reconfirm ..." (`docs/operations/audience-retention-lab.md:37`) | the new preview's hash belongs to the import it came from: always `DUPLICATE_FILE` (`spotify-import-service.ts:438`) | `CheckHash` |
| "no database rows were committed" (`spotify-import-service.ts:638`) | they were, if only the acknowledgement was lost, and the raw object has been deleted | `LoseCommitAck`, `DeleteRaw` |
| "This campaign is already sending. Wait for it to finish" (send route `:43`) | saving the campaign writes `draft` over `sending` (`campaigns/[id]/route.ts:77`), and a second request sends concurrently | `EditUpsert` |
| "Review the delivery log before trying again" (send route `:139`) | after an error that leaves the loop the status stays `sending` and every retry is refused; and the log may show a recipient both as sent and as failed | `LogSent`, `LogFailed`, `SendDies` |
| "Mapping is already confirmed; use remap to change it." (`release-mapping-service.ts:198`) | two confirmations that both read the row as unmatched both commit, if it had kept its snapshot; the second changes the release | `WriteRow` |
| "This file, bundle, or idempotency key was committed concurrently." (`meta-import-service.ts:352`) | no unique column covers a file: two commits of one file that pass the check together are both accepted | `CheckDuplicates`, `Create` |
| "Campaign suggestion was already resolved." (`campaign-timeline-service.ts:171`) | a rejection and a confirmation that both read it as unresolved both succeed; the confirmed interval then supersedes a rejected suggestion, which `LineageIsLinear` admits only after a race | `RejectSuggestion`, `ConfirmSuggestion` |
| "Only the current, active preview version can be approved." (`artist-profiles.ts:897`) | a revocation or a newer preview between the read and the transaction does not stop the approval, and the version can be published | `ReadForApproval`, `Approve` |
| "Unused uploaded images associated with it will be deleted." (`components/artist-intake-admin-controls.tsx:109`) | the archive deletes all images of an intake that is not linked, those its answers use too; reopening it brings the form back without them | `DeleteImages`, `Reopen` |

## 4. What is proved

All theorems hold for any sets of requests, previews, sweeps,
subscribers and values that satisfy the modules' named assumptions.

`ImportLedger_proofs`. `LedgerTypes`, `LedgerReplacements` and
`LedgerHistory` are the properties of the ledger; `LedgerUnique`, that it holds a file and a key
once, restates its guards and is there for `SpotifyRowsUnique`, where it says something. `ReplacementsAgree` is
inductive together with `TypeOK`; its last conjunct (no two imports replaced by
one) needs that a fresh import is named in no `replacedBy`, which its other
conjuncts give (whatever is named is accepted).

`SpotifyImport_proofs`. `SpotifyTypes` states `InputInv` with the types: a request that is
served has the input its later steps read. `SpotifyRawFileKept` and
`SpotifyMarkedFileIsGone` rest on `RetentionInv`, which says how far everybody
can have got:

- `RequestInv`: a served request is at most `MaxRun` old and created its object
  during its life;
- `ListedInv`: an object a sweep listed as an orphan candidate is `OrphanRetention` old by the
  sweep's start, so its request is over and cannot insert its row any more;
- `DeletableInv`: hence an accepted import missing from the listed references has
  an object too young to be listed, whichever listing came first; so after
  the plan no orphan belongs to an accepted import. Expired files are expired by the
  sweep's own start time, and a file being marked is gone.

All of it allows for lost acknowledgements (`CommitAckLost`). `AckLost` names the one case in
which they do harm: the compensating `DeleteRaw` removes the file of an accepted import, and
its request reports a failure. `RawFileKept` and `AnswersAreTrue` except that case and no
other, and say what they said before where `CommitAckLost` is FALSE. `RequestInv` has it
that a failure is kept until the request ends, so a request that failed replays nothing.

The other results rest on one classification of steps (lemma `Cases`): a step leaves the
import rows alone (`Kept`), writes what one accepted request writes (`Written`) or
withdraws one import (`Withdrew`). `SpotifyImplementsLedger`, that every
behaviour implements the ledger, needs `TargetInv`: the import a request goes on with is
of its own scope. `SpotifyOneFate` needs `FateInv`, which says what a replacement or
withdrawal that succeeded left in its target's row, and that nobody writes that row again.
`SpotifyAnswers` needs `AnswerInv` (what an answer says, and what a request already knows
before it gives it); `SpotifyPreviewKept` needs `PreviewInv`: a preview whose object is missing
is too old for any commit that still runs, or its file is imported. `SpotifyRowsUnique`,
`SpotifyReplacements` and `SpotifyHistory` carry the ledger's theorems over to the import
rows along the refinement: they are not proved a second time but follow from
`SpotifyImplementsLedger` and the instance `Proved` of `ImportLedger_proofs`. The ledger's theorems
need that `None` is no import row (`NoneIsNoRow`).

`CampaignSend_proofs`. All of it holds with edits, deletions and faults; the one
assumption is that there are finitely many requests. `CampaignLogs` needs that the
recipient being worked on has left the queue and that the request has not logged it yet, unless
in a row that was written unheard, after which it counts a failure.
`CampaignLock` counts: `LockInv` adds to `OneSendPerDraft` that while the campaign can be
sent, there is a saved edit for every request that emails its audience or has sent it. Taking the
lock uses that room up, a failed send and a saved edit make it again, and a deletion ends the
matter until an edit brings the campaign back. `CampaignSentOnce` is its case without saved edits.
`CampaignDelivered` says of every request that what has left the queue was logged as sent or counted as
failed (`ProgressInv`), and of every status that an edit has seen and may write back that
some request did send (`SentInv`). It and `CampaignFailure` speak of campaigns that were not deleted (`LogKept`):
the upsert of an edit can bring a deleted campaign back as it was, without the log that went
with it.

`ReleaseMapping_proofs`. `Base` holds the types, what a request knows at each
statement, that the aliases it names exist and fit, and that a row it means to
confirm has a snapshot or gets one in the same transaction (a remap takes none: it
relies on the one its confirmed row has, and nothing ever takes it away).
`MappingTypes` and `MappingAliases` follow. The uniqueness theorems need more
than uniqueness of what is committed: `RowKeys`, `AliasKeys` and `SnapshotKeys`
say that an open transaction that has written a unique column excludes every
committed row and every other open transaction with the same value, so that its
`Commit` cannot collide. They give `MappingOneRow`, `MappingOneAlias`, `MappingFigures`
and `MappingSnapshotsStay`. `RowKeys` also says that the row a remap has written still has
the version it read, which gives `MappingRemap`. `MappingSuperseded` needs of every remap under
way (`LinkOk`) that the alias it revokes is of its song and not good for its release, and that
it has the successor at hand by the time it writes. `MappingImplementsDecisions` needs what a
remap knows of its row (`RemapOk`, in `Plans`): as long as the row has the version that was read, its
release is the one that was read, and its alias is the one the remap is going to end, or is not
active and will not be again. With `RowKeys` the version is the same at `Commit`, so all
of it holds there; `Before` names the aliases between the end of the old one and
the creation of the new, and each kind of commit maps to its decision
(`CommitConfirms`, `CommitRemaps`, `CommitUnmatches`, `CommitRevokes`). Every other statement
asks, is refused or stutters, since it serves what the request asked for (`Serves`,
`TurnPlan`, `TurnAsks`). That snapshots never change (`SnapshotsStay`) is proved, and checked
as part of the refinement. Every step is of one of six kinds (lemma
`StepKinds`), so the invariants are proved once for all steps that write nothing.

`ArtistPublication_proofs`. The three properties are inductive together with
`Base`: versions belong to profiles (`Owned`), the numbers of an artist are
1 to the latest without gaps (`Numbered`, which is what makes a stale `latest + 1`
collide rather than skip), an approved version has its approval (`ApprovedRows`), and what
an open request has read is still true in the part its write relies on
(`GoodRequests`): an approved version stays approved, and the slug checked is free
until another publication overtakes the request. `PublicationTypes` states the types with
`Owned` and `GoodRequests`. `PublicationLatest`,
`PublicationLive` and `PublicationSlugs` follow. `PublicationKept` is an action property of
the same invariant: no step changes what a frozen version is, reopens a closed link (`Persist`), or
replaces what is live by anything but a version approved before (`StillLive`). It needs
the invariant because publishing does not look again at what the request has read.

`ArtistIntake_proofs`. The invariant is `IInv == Types /\ Files /\ (excused \/ Drafts)`.
`Types` says of every open request also what it knows (`Knows`), and `IntakeTypes` states that.
`Files` says whose every image is (`Carried`: on its way with one request, and listed nowhere
unless its registration was not answered; `Emptied`: an archive has deleted what it read,
or lost it) and contains `Accounted`, which is `IntakeImages`; it holds in excused states too.
`Drafts` says how far a conversion has come (`Converted`: the profile and the releases it has
already saved are those of the content it read), and that answers are saved and reviewed
only in an intake that was read as not linked (`Unlinked`). At `Link` the former becomes `Whole`,
which gives `IntakeDraft`; `IntakeEdits` follows since a conversion's steps are excused
once the intake is linked.

`MetaSuggestions_proofs`. For imports, the invariant is `MInv`: types, the property
`CanonicalUnlessRaced` itself, and for every request `Good`. `Known`, `Owns` and `Alone` say
what its key, its token and its arrival are worth (arrivals differ, so the order of two
observations is never a tie); `Marks` that the batch it has marked is nobody else's until
it ends; `Fresh` that what it has computed is still right on every day no other
transaction has written since: this is the strengthening that `CanonicalUnlessRaced` needs at
the write. `Answer` and `Stored` are the conjuncts of the other two properties; `Owns` has it that
only a request that answered a conflict or a failure has left a file as an orphan. `MetaTypes` states
`Known` with the types. That a day
with observations has a first one is a theorem too (`FirstExists`: least elements of sets of
naturals, applied to trust, source time and arrival in turn), and `WinnerSame` carries a
winner over to batches that differ only where they say nothing of the day. For generations,
`SInv` says that without overlap one generation at most is running, that no key has two
current suggestions, and that the running one has its windows 1 to `done` current and
under the later keys what it read (`Wrote`). When it retires nothing more, these are
exactly the windows: `MetaSynced`. Assumed: `Days` is a finite set of integers, and `None`
is neither a request nor one of the rows.

`CampaignTimeline_proofs`. The invariant is `IInv`: `Types`, `Rows` (what committed
rows refer to exists), `LineageIsLinear`, `NoOverlapUnlessRaced`, `EventsAgree`, and `Sound` of
every open change: what it carries fits its kind (`Fits`); nobody else has resolved its
target, unless it was overtaken (`Targets`); the successor column, which is unique, is free
for it among committed rows and open changes (`Free`); and what it has validated
(`Checked`) or found and derived (`Reads`) holds until another change of the
campaign commits. `Alike` rows have the same events, which is what suggestions and their
rejection need. `TimelineNoOverlap`, `TimelineEvents` and `TimelineLineage` follow;
`TimelinePreserved` is the action property of the same invariant. Assumed: `None` is no id and
no interval.

The first theorem of each proof module (`LedgerTypes`, `SpotifyTypes`,
`CampaignTypes`, `MappingTypes`, `MetaTypes`, `TimelineTypes`, `PublicationTypes`,
`IntakeTypes`) is type correctness, on which the others rest; those that also say what
requests know state it.

Only model-checked: liveness (`SendEnds`, `OrphansReclaimed`, `ExpiredFilesMarked`), which
needs ENABLED and is out of the prover's reach.

## 5. Not modelled

- The CSV parsers, the reconciliation figures, confirmations and warnings:
  data conversion, present as a choice between success and `INVALID`.
- The row tables of an import (songs, periods): written in the same transaction
  as the import row, hence present as the reasons for which it may abort.
- `acceptAnalyticsImport`, `withdrawAnalyticsImport`, `replaceAnalyticsImport`
  of `lib/repositories/analytics-imports.ts`: only tests call them.
- Release mapping: the ranking of suggestions, the audit rows (each is inserted in the transaction
  it describes), the backfill of old imports; a withdrawal or replacement of the import during a request.
- Meta imports: the CSV parser, the reviewed account time zone, metric families and
  identities beyond one per day; links between Meta campaigns and promotions are fixed
  (when one changes, suggestions keyed by the old link stay current: `meta-promotion-links.ts:98`).
- The campaign timeline: events the owner enters, source snapshots, audit rows.
- Artist profiles: all content but the slug, the catalog and home page placement;
  promotion of a home page item to an editorial release. Release credits
  (`public-site.ts:183`) show the draft name and slug of a published artist, where
  `scripts/test-artist-workflow-polish.ts:87` expects what is published; these are read models.
- Intakes: replaced links, the notification of the owner, the form's fields. A
  conversion that failed halfway and is repeated after a correction may leave release rows that
  no catalog names.
- The dry run of the sweep (it changes nothing) and its Meta half (same steps).
- Test sends (they write no row), the audience filter, the copy of an email.
- Encryption of the tokens, TOTP, password hashing: cryptography.
- The components marked "little" in section 1: single-row writes and read models.

## 6. Plan

Done: `ImportLedger`, `SpotifyImport`, `CampaignSend`, `ReleaseDecisions`, `ReleaseMapping`, `MetaImport`,
`MetaSuggestions`, `CampaignTimeline`, `ArtistPublication` and `ArtistIntake`, each with
proofs. Left, in this order:

1. `AdminSession`, `PublicRateLimit`, `Backups`, `Playlists`, `FanContent`: small modules.
2. `RetentionEngine`: pure functions against reference definitions.
3. A withdrawal of an import while a mapping request runs.
