# TLA+ verification of the SaaS backend

A NestJS / Prisma / PostgreSQL backend: authentication with access and refresh
tokens, user profiles behind a cache, file uploads to one of five storage
providers, a mail queue, and a global HTTP pipeline with an idempotency layer.
Source paths below are relative to the repository, so that `src/modules/...`
is the application.

The models describe what happens *between* the awaits of the code: every
database, cache or storage call is an action of its own, so that requests
interleave as they do on one event loop and across the PM2 cluster instances
that `src/docs/DEPLOYMENT_GUIDE.md` describes (they share the database and the
object store, but not memory).

## Inventory

| Component | State | Operations | What is hard | What makes it correct |
|---|---|---|---|---|
| Idempotency interceptor (`core/interceptors/idempotency.interceptor.ts`) | `idempotency_records` table | lookup by key or by hash, delete of a stale row, handler, create | lookup and create are not atomic; delete by key; two TTLs; failures and crashes after the handler took effect | answers taken from records are justified; a stored request is not processed again inside its window |
| User profile and cache (`modules/user`, `core/cache`) | `users` row, in-memory cache of each process | findById, update, remove; get/set/del | fills racing invalidation; per-process caches; silent cache failures | reads after a write are fresh; removed users are gone; staleness is bounded by the TTL |
| Auth sessions (`modules/auth`, `core/guards`) | `users.refresh_token`, `status`, `deleted_at`; tokens held by clients | register, login, refresh, logout, bearer check, role check | read-check-write across awaits; token lifetime against row state | who may hold a session, and when it ends |
| Storage providers (`modules/upload/infrastructure/providers`) | temp and permanent objects | saveTemp, commit, delete, head, cleanup, presign, complete | check-copy-delete without a transaction, identifiers that name published files, concurrent commits, cleanup racing both | no uploaded file is lost or duplicated without an answer saying so |
| Upload use cases (`modules/upload/application`) | raw temp files, staged files | processFile, commitFile, removeFile, cleanupTemp | six awaits that may fail; local files of Multer and of the provider share a directory | an accepted upload can be committed; what failed leaves nothing behind |
| File rules (`modules/upload/domain`, `infrastructure/config`, `infrastructure/multer`, `shared/utils/encryption.util.ts`) | none | Multer's filter, validate, process, encrypt | three places rule on size and type, each in its own way | nothing is staged against the rules of its type |
| Upload audit log (`infrastructure/audit`) | buffer in memory | log | one entry, pushed by reference, changes afterwards | it says what the client was told |
| Direct uploads (`infrastructure/signing`, `local-direct.controller.ts`, `generateUploadUrl`, `head`, `completePresignedUpload`) | objects, the clock | issue, PUT, complete, download URL, GET | where the URL leads and what its signature covers, expiry during a PUT, two ways a body arrives, five ways to look for an object | a URL works for what it was handed out for, and for nothing more |
| Temp cleanup (`cleanupTemp` of the providers) | temp objects of many files | list a page, delete a page or a file | the listing changes between pages, by others and by the cleanup itself | what was stale is gone when it completes; it ends |
| HTTP pipeline (`main.ts`, `app.module.ts`, `core/filters`, `core/pipes`, `core/interceptors`, `core/middleware`, `shared/context`) | `AsyncLocalStorage` store of each request | parser, middleware, throttler, guards, idempotency, pipe, handler, interceptor, filter | requests interleave; which error survives to the client | diagnostics are the request's own |
| Roles and bearer check (`core/guards`, `core/decorators`, `jwt.strategy.ts`) | none; reads `users` | canActivate, validate | the row changes while requests are under way | nobody gets past by an old role or status |
| Mail queue (`modules/jobs`) | Bull jobs in Redis | sendEmail, handleSend | retries, stalls, at-least-once delivery | deliveries are bounded; every job ends |
| User listing (`shared/utils`, `shared/dto`, `base.repository.ts`, `user.controller.ts`) | none; reads `users` | a page: items and count | two queries a page; offsets into a changing table | nobody is skipped or repeated without a cause |
| Start-up and configuration (`main.ts`, `core/config`, `upload-config.service.ts`, `upload-v1.module.ts`) | configuration of the process | import, validate, choose, construct, connect, bind | values are read at different times, and five places refuse them | a process that listens can serve |
| Health | none | read-only probes | none of its own | - |
| Sanitizer, logging, Swagger | none | output, rewriting of strings | none of interest | - |

Two parts interact through state alone: a user's row is read and written by the
auth service, the user service and the bearer check of every request, and a
staged file by uploads, commits, removes and cleanups. The idempotency
interceptor wraps every POST, whatever module serves it. Modules that share
state are modelled together; those that share none are checked side by side.

## Plan

Written so far, in this order: `Idempotency`, `UserProfile`, `AuthSession`,
`StagedFile` and `StorageCommit`, each with its runs and proofs; then
`TempCleanup`, `DirectUpload`, `UploadPipeline`, `RequestPipeline`, `MailQueue`,
`UserListing` and `Bootstrap`, composed in `Service`, and proofs about each and
about their composition; then `IdempotentRequest`, which `Idempotency` implements, and
`AccountSession`, which `AuthSession` implements.
What is left, in this order:

1. An abstract cache of one profile, with `UserProfile` shown to implement it.
2. `AccountProfile`: `AuthSession` composed with `UserProfile` on one row, so that
   a bearer check, a cached profile and a removal meet.
3. The audit entries of commit and remove.
4. Liveness of the older modules: a request that is not lost is answered, under
   weak fairness of the steps of its instance.

## Modules

| Module | What it is |
|---|---|
| `IdempotentRequest` | abstract: what the interceptor promises its clients, with no table, clock or database |
| `Idempotency` | `IdempotencyInterceptor`; implements `IdempotentRequest` |
| `UserProfile` | `UserService` over one row and the profile cache of each instance |
| `AccountSession` | abstract: one session per account, open or closed, and who may open it |
| `AuthSession` | `AuthService`, the bearer check and the soft delete, over one account; implements `AccountSession` |
| `StagedFile` | abstract: what the two-stage upload promises of one file |
| `StorageCommit` | upload, commit, remove and cleanup of one file on S3/R2, ImageKit, Cloudinary and the local disk; implements `StagedFile` |
| `UploadPipeline` | one file through Multer, controller, validator, processor, encryption, `saveTemp` and the audit log |
| `DirectUpload` | one object key from its upload URL to its download, on all providers |
| `TempCleanup` | `cleanupTemp()` of each provider over many files |
| `RequestPipeline` | `main.ts`, middleware, guards, pipe, interceptors and filter, with the request context |
| `MailQueue` | `EmailQueue` and `EmailProcessor` on Bull |
| `UserListing` | `GET /users`, page by page, against a changing table |
| `Bootstrap` | a start, from the imports to `listen()` |
| `Service` | the seven before it composed; they share no variable, so one of them runs at a time (`part`) and their states add up instead of multiplying |
| `MC...` with its `.cfg` files | the instances for TLC |
| `...Proofs` | theorems and their proofs |

Conventions. `pc[r]` is the await at which a request (or storage call) stands; an
action is everything the code does from one await to the next. `answer[r]` is what
the client was answered. `Crash` stops the instance serving a request at any
await, in `StorageCommit` between a copy and its deletion: there a death at any other
await is a call that never goes on, for nothing is fair. Variables marked *history* are read
by no action; they are there for the properties: `prior[r]` holds the requests
that were answered when `r` arrived, so that `q \in prior[r]` says that `q` came
before `r` and `q \notin prior[r] /\ r \notin prior[q]` that they overlapped. Definitions marked
*Mutant* are plausible mistakes that stand beside the definition they would
replace; no action uses them, and each breaks one property.

### IdempotentRequest and Idempotency

`records` is the table `idempotency_records`; a response body is named by the
request that produced it. `Receive` takes `now` and begins the lookup;
`FindKeyed`, `PurgeExpired` and `FindDuplicate` are the two lookups and the delete
of a stale row; `Handle` is the route's handler taking effect; `Store` is
`storeRecord`, whose failures are swallowed. `Fail` is a call that throws, of the
database or the handler; `FailLate` a handler that throws after its effect, as
`register` does when `create()` is done and `saveRefreshToken` fails
(`auth.service.ts:70`): the client is answered 500, nothing goes on record, and its
retry runs again. Both the unique index (NULL keys never
collide, empty ones do) and the two comparisons with `now` (`<` for keyed rows, `>`
for hash rows) are kept.

- `AnswersJustified`: a replay, 422 or 409 is owed to a record that another
  request stored and that is valid at this request's `now`.
- `NoReprocessing`: a retry inside the TTL runs its handler again only if a
  request that had read an older, expired row deleted the new one by key.
- `NoDoubleSubmit`: without a key, a repeat inside the window never runs.
- `Refines`: the interceptor implements `IdempotentRequest`. There a request takes
  effect and its response goes on record, or it is answered from a record, or it
  fails, which says nothing about its effect. How the
  record of one request answers another is their `bond`, which the mapping computes
  once and for all from the two headers and fingerprints; a record has *lapsed* when
  its `expiresAt` has passed, by `<` or by `<=` as the code compares. A request never
  takes effect while a record stands that answers it and that it could have found
  in force, and a record is withdrawn only by a request that has found a lapsed one.
  The abstract module says what follows for a client, whatever implements it:
  `OneOrTheOther` (an answer from a record excludes an effect, and only what its own
  client was answered is on record: a failed request, though it may have taken effect,
  answers nobody) and `RepeatsExcused`. That a failed request had no effect is not
  promised, for it is not so.

`now` and the `createdAt` of a row are one clock here. In the code they are the
process's and the database's; a skew between them, which would lengthen or shorten the
window of a hash, is not modelled.

### UserProfile

Every write of the row gives it the next revision, and a profile is named by the
revision it was read at. `LookupCache`, `LoadRow`, `FillCache` are `findById`;
`LoadRow`, `WriteRow`, `ClearCache` are `update` and `remove`. `Evict` is the LRU
store making room, `Restart` an instance that loses its memory.

- `ReadsFresh`: a read after a write, on the same instance and with a working
  cache, sees the write, unless a read under way during it filled the cache late.
- `RemovedIsGone`: after a remove only a stale cache entry still answers.
- `HitsJustified`: a hit repeats what an earlier read loaded, at most a TTL ago.

### AccountSession and AuthSession

`user` is the row of one email address; a refresh token is named by the request
that generated it. `Check...` are the reads with their refusals; `Create`,
`SaveRefreshToken`, `StampLogin`, `ClearSession`, `SoftDelete` the writes, which go
by id whatever the row has become. `Matches` is bcryptjs: it compares 72 bytes,
which all refresh tokens of one user share, so any token matches any stored hash.

- `LogoutEndsSession`, `TokenWorks`: when a session ends, and that nothing but an
  overlapping or later logout takes a handed-out refresh token away.
- `RemovedIsOut`, `StatusEnforced`, `OneAccount`: a removed account can only
  refresh; suspension is enforced; one address has one account.
- `Refines`: all of it implements `AccountSession`, which has no tokens: the account
  has one session, open or closed. A request is admitted or refused by what stands
  when it is looked at; then a login, register or refresh opens the session, a
  logout closes it, and a removal or a change of status does neither. `Opened`, that
  a hash is stored at all, is all that counts of the token machinery. A register is
  looked at by the unique index, not by its `findByEmail`: until `create()` it is
  pending, though an early refusal is a refusal.

### StagedFile and StorageCommit

Versions of the file are numbered as they are staged. `files[p]` is the version at
each of its places: the temp key, and the permanent folder of each upload type. The
file is uploaded through the server (`SaveTemp`, `RemoveRaw`) or put, perhaps
repeatedly, to a presigned URL (`Put`; on the local disk by a client that goes to
the path the router serves, see `DirectUpload`); `Age` is the passing of the
retention (24 h), before which a presigned URL (3600 s) has long expired.

What a call names is its `job`. An identifier with a slash is used as it is and not
checked for the temp prefix (`s3-storage.provider.ts:121`), so that a commit names
the temp key, or a permanent one, whose file it then moves to another type's folder;
a flat filename leads where `FlatName` says, or `Nowhere`. A remove takes either kind
of URL. A commit is

- on S3 and R2 `FindSource`, `CopyS3`, `DeleteS3`;
- on ImageKit `FindSource`, `FetchImageKit`, `ReuploadImageKit`, `DiscardImageKit`;
- on the local disk `FindSource`, `RenameLocal`; on Cloudinary `RenameCloudinary`.

`FindTarget` and `Unlink` (or `DestroyCloudinary`) are `delete()`, `ListStale` and
`Sweep` are `cleanupTemp()`. No code calls `cleanupTemp()`: cleanups are calls that
may come at any time.

- `PublishedStays`: a published file goes only by a remove of it, or a commit that
  names the published file itself, that was not answered before its commit arrived.
- `RemoveSticks`: a removed file comes back only by a commit that overlapped the
  remove or came later, or by a later PUT.
- `NeverOlder`: a commit of the staged file puts an older version in place of a newer
  one only on ImageKit, which fetches the bytes before it uploads them. A commit of a
  published file can, on any provider: what lies in the other folder may be older.
- `CommitOnce`: where commits rename, no version is in two places. A staged version is
  published twice only on a provider that copies, by commits that overlapped,
  failed, or could not delete the temp file.
- `MissExplained`: the causes of a commit's 404: a flat name that leads nowhere; the
  staged file was taken by a commit, a remove, a cleanup or the raw file's unlink; or
  the folder that was named had no file, or one that was taken since.
- `Refines`: each provider implements `StagedFile`, in which a version leaves its place
  only when somebody asked for it by that place (`asked`), or, if staged, because it
  was published or has expired. `exact` tells the providers that publish just what
  is at the place that was named from those that do not: ImageKit, and S3 when a
  presigned URL is put to again while a commit is between its copy and its delete.

### UploadPipeline

`upPc` is the await at which the upload stands: Multer, then `processFile` with
`Validate`, `Process` (sharp, and encryption), `Save` and `Finish` (the unlink of
Multer's file and the audit entry). Each may throw, into `FailUpload`, the catch
block. A file is its upload type, MIME type, signature, extension and size;
`Registry` has the rules of every type in the registry. `UpCrash` stops the
instance.

- `RawCollected`: an answered upload leaves no raw file, but for an unlink that
  failed and for types named like a route, refused before the try block.
- `AuditAgrees`: the entry ends up as the answer, though it is pushed first and
  changed afterwards.
- `StagedAsRuled`: what is staged, also after a crash, obeys the rules of its type;
  its signature was checked unless the validator could not read the file.

### DirectUpload

A signature is the record of the fields it covers. `Issue` hands out an upload
descriptor, `BeginPut` is a PUT whose headers are verified, `EndPutLocal` (or
`EndPutRemote`, the store itself) the end of its body, perhaps past the expiry;
`Complete` is the head() with its size tolerance, `IssueDownload` and `Download` the
way back. `due` says whether the client did what its descriptor asks.

A local URL is issued for `/upload/local/direct` (`IssuedPath`). The controller names no
version, and `main.ts:104` gives such controllers the default one: the router serves
`/v1/upload/local/direct` (`RoutedPath`), and the issued URL is a 404 for PUT and GET
alike. The HMAC does not cover the path, so that a client that puts `/v1` before it is
served; the model has clients of both kinds, and what is said of the local disk past
the 404 is about the second. (`/health` is in the same position. A public base URL
that happened to end in `/v1` would hide it; none is assumed.)

- `WithinSigned`: what lies at a local key was sent in time, in its type and within
  its size. `drainBody` lets 64 KB more through; only the caller's check, which a
  comment calls redundant, keeps the limit.
- `DescriptorUsable`: a client that obeys is refused for seven named causes only: a
  local URL used at the path it names; POST on S3 and the local disk; a body smaller
  than the size asked for on S3, which signs that size as the `ContentLength`; a body
  that arrives in one piece with its headers; one over twice the global cap, though it
  was signed for; ImageKit's unique names; and Cloudinary's files that are no images.

### TempCleanup

Files are numbered in the order of the listing. S3 continues by a token, ImageKit
by an offset, which it moves on although files of the page are gone; Cloudinary
follows `next_cursor` and destroys the files of a page one by one; the disk is walked. `Arrive`, `TakeAway` and `GrowStale` go
on meanwhile.

- `SweepComplete`: which stale files a complete cleanup may leave.
- `SweepEnds`: it ends, whatever arrives.
- `EventuallySwept`: if somebody kept calling it, every stale file would go.

### RequestPipeline

`rpPc` is the await; `RpRefuseEarly`, `RpEnter`, `RpAuthenticate` (twice: the global
guards and the same ones again at the controllers), `RpLookUp`, `RpValidate`,
`RpUseCache`, `RpFinish` and `RpSave` are the stages; `RpChangeRow` is the
administrator meanwhile. `StoreOf` is `AsyncLocalStorage`, `Resolved` the exception filter.

- `OwnDiagnostics`: an answer carries its own request id and cache count, but for
  refusals before the scope, and replays.
- `CurrentRole`: past the guards, the row this request read was good enough.

### MailQueue, UserListing, Bootstrap

`MailQueue`: a job is delayed, waiting, active, sent (the provider has it, the
handler has yet to return), completed or failed; `Stall` takes it from its worker,
whose handler may still deliver (`GhostDelivers`). `SendsBounded` bounds the
deliveries; `MailSettles`: every job ends.

`UserListing`: `FindMany` and `CountUsers`, the two queries of `Promise.all`, come in
either order, and rows change between them and between pages.
`SkipsExplained` and `RepeatsExplained` name all causes of a hole or a repeat.

`Bootstrap`: `BtImport` (where the Multer cap is read from `process.env`),
`BtReadEnvironment`, `BtChooseProvider`, `BtConstruct`, `BtConnect` and
`BtCheckProvider` in either order, `BtBind`; `Die` exits. `ListeningReady`: a process
that listens was given all required settings, a `JWT_SECRET` that is not empty, numbers
that convert, and a registered provider with its keys, and its `$connect()` has
returned. It does not say more, for the code does not see to more:
`JWT_REFRESH_SECRET` and `IMAGE_ENCRYPTION_KEY` may be empty strings
(`env.config.ts:77`, `:105`), and `$connect()` on a `PrismaPg` adapter makes a pool that
need not have reached a database. `LimitsAgree`: its two size caps agree unless the
setting stands in a file only; `BootSettles`: a start listens or exits.

## Runs

| Run | Module and cfg | Bounds | Result |
|---|---|---|---|
| `idempotency` | `MCIdempotency.cfg` | 3 requests, 1 key, absent and empty headers, 2 payloads, 2 instants | passes, the refinement included |
| `idempotency_race` | `MCIdempotencyRace.cfg` | 4 requests of one key, 3 instants | passes |
| `idempotency_retry` | `MCIdempotencyRetry.cfg` | 4 requests of one key, 2 instants | `RetryReplayed` violated |
| `idempotency_racers` | `MCIdempotencyRacers.cfg` | 2 requests of one key | `RacersAgree` violated |
| `user_profile` | `MCUserProfile.cfg` | 3 requests, 2 instances, 2 instants | passes |
| `user_removed` | `MCUserProfileLate.cfg` | 3 requests, 1 instance | `RemovedIsNotFound` violated |
| `auth` | `MCAuthSession.cfg` | 3 requests, one change of status | passes, the refinement included |
| `auth_rotation` | `MCAuthSessionRotation.cfg` | 2 requests | `RotationInvalidates` violated |
| `storage` | `MCStorageCommit.cfg` | 3 calls by flat name, temp key or one permanent key, 2 upload types, 2 PUTs, all providers and modes | passes, the refinement included |
| `upload_local` | `MCStorageCommitLocal.cfg` | 1 call | `UploadStays` violated |
| `service` | `MCService.cfg` | below | passes |
| `local_urls` | `MCServicePaths.cfg` | as `service` | `IssuedUrlServed` violated |

Why the bounds suffice. The races of the properties involve two parties and a
bystander: a write, a read that overlapped it and a later read; a commit, a
commit that overlapped it and a remove or cleanup; hence three requests. The
stale purge needs four: the one whose row expired, the one that read it and
sleeps, the one that stores the fresh row, and the retry. Two instants show both
sides of an expiry when a TTL is 0, and `Ttl`s enter the models only by comparison.
One key, row, account or file suffices because the code never lets two of
them meet, other than through LRU eviction (`Evict`), and the properties are about
one. Two PUTs give an older and a newer version, and two types a folder to move a
published file to, with a third call to put something else there.

The bounds of `service`, part by part. *Upload*: four good files, one of each kind of
rule, and every file that departs from one in one respect, under three extensions,
in five configurations. *Direct*: both paths, sizes 0, exact, one over, past the headroom and
past the hard cap, against signed sizes below and above each; one PUT against a URL of one second and three instants, so that
a body may end after the expiry. *Cleanup*: three files, one to a page, and one
fault: with the offset a page behind, a file is skipped and a later one is
not. *Mail*: two jobs, three attempts (those of the code), one stall, one worker.
*Listing*: three users, pages of two, one change: enough to move one across the
boundary of a page. *Request*: two requests, one that interleaves with another, two
cache calls each and one change of the row. *Start*: every environment that departs
from a good one in two settings. `CHECK_DEADLOCK FALSE` is set
because every request ends: a run of finitely many requests stops.

The violated runs state what the documentation says, and the code does not do:

- `RetryReplayed` (`src/docs/API.md:37`): the stale row is deleted by key alone.
- `RacersAgree` (`idempotency.interceptor.ts:227`): the loser of the unique index
  answers with a response of its own.
- `RemovedIsNotFound` (`user.service.ts:29`): a late fill revives a removed profile.
- `RotationInvalidates` (`auth/docs/API.md:141`): a rotated refresh token works on.
- `IssuedUrlServed` (`local-direct.controller.ts:42`): the stable path without a version
  that local URLs name is not the one served.
- `UploadStays` (`upload/docs/API.md:43`): on the local disk, an upload that keeps
  its extension is staged under the name of Multer's raw file and unlinked with it.

### Fairness

Safety properties hold however late or never a step comes. The four liveness
properties, all in `service`, assume weak fairness only:

- `ClFairness`: a cleanup that has begun goes on, for each of its awaits is a call
  that resolves or rejects. `EventuallySwept` has the recurring call of
  `cleanupTemp()` as an explicit premise: nothing in the code makes it, though
  `upload/docs/API.md:384` speaks of a cron.
- `MailFairness`: Bull's timer promotes, its workers take, and a handler settles: it
  waits for a timer of 100 ms. No fairness is assumed of stalls or ghosts.
- `BtFairness`: the calls of a start return or throw. Of `$connect()`, and of the port's
  bind, this is assumed; a call that did neither would leave a start hanging.

## Proofs

Each theorem holds for every value of the constants: any number of requests,
calls, instances, upload types and PUTs, any TTLs. The assumptions are the named
ones of the modules (special keys and tokens differ from ordinary ones, bounds
are naturals, setups are well-formed, the upload's type is a type). The argument
is the same each time: `IInv` holds initially, each action preserves it (one step
per action), and it implies the properties. What has to be added to the properties:

- *Idempotency*: every row is what its request stored and keys are unique
  (`RowsFaithful`), rows vanish by deletes only (`RowsKept`), a delete was decided
  on stale rows (`PurgesStale`), and a request past its lookup missed only what was
  expired or purged (`LookupMissed`). The properties are about answers; these carry
  what was seen at the lookup to the answer.
  `Implementation` proves `Spec => Refines`, from `RInv`, which adds two facts:
  what a request past its lookup still finds under its key it saw expired
  (`StandsStale`), so that a handler may take effect where the code runs it (`MayRun`),
  whether it then returns (`Handle`) or throws (`FailLate`, which maps to a `Fail` with
  an effect); and who is about to delete
  has found an expired row (`PurgesOwed`), so that `PurgeExpired` maps to `Withdraw`,
  which takes the fresh row too if one has come meanwhile. Every other step maps to
  the abstract action of its name, to `Lapse` or to a stutter. The unique index is
  what `Finish` asks of keyed requests; `LookupMissed` alone would not do, for it
  says of a record that it is gone *or* expired, and a delete that was late may take
  one that is neither.
  `PromiseKept` proves the two promises of `IdempotentRequest` itself, with `Gone` as
  the strengthening (what has left the record had somebody entitled to remove it),
  and `InterceptorKeepsPromise` carries them over to the code's model.
- *UserProfile*: a loaded revision is no older than any answered write
  (`LoadsFresh`), nothing is loaded from a removed row (`LoadsLive`), and a cache
  entry has a read that put it there, late if it is stale (`CacheExplained`).
- *AuthSession*: the properties for requests that passed their check and are not
  answered yet (`RefreshExplained`, `...Early`), and that a stored hash goes only by a
  logout (`SessionKept`). Its `TypeOK` is part of the invariant, and proved.
  `Implementation` proves `Spec => Refines`. `StepOf` says that a step moves the course
  of its own request only, and `CheckRefines` treats the five checks alike: what
  passes is exactly what `AccountSession` welcomes, except that a register passes with
  a removed account too, and is refused by `Create`. That any stored hash admits any
  token is where `Matches` comes in; that no hash is stored without an account, so
  that a refresh need not ask for one, is `Existence`.
- *StorageCommit*: how far each label has come (`Labels`, `Deeds`), that what is
  staged is the last version and how it went (`Staging`), who published what is in
  a folder (`Origins`), and that a version committed and dropped is neither staged
  nor fetched again (`Taken`). `Moves` reduces the 21 actions to five cases: the files
  rest (`Rests`), a version is staged (`Stages`), the temp key is cleared (`Clears`), a
  call empties the place it named (`Empties`) or publishes (`Publishes`); from these
  the properties follow. `Implementation` proves `Spec => Refines` with the refinement
  mapping at the end of the module: an upload counts as staged from its answer on,
  `landed` is what the history variable `copied` holds, `asked` the places that the
  removes, and the commits of published files, have named.

- *UploadPipeline* (`UpProgress`): what the file has passed by each await, that
  nothing is logged or answered before the end, and which bytes are to be saved.
- *DirectUpload* (`DirProgress`): what a URL was signed for, and what the body under
  way has been verified to be; the properties follow where it lands.
- *RequestPipeline* (`RpProgress`): a store counts its request's calls, and a record
  names a request that was answered under that key. `StepKeeps` shows once that a
  step of one request leaves the others' parts alone; then each stage is about its
  own request. A replay is the delicate case: it repeats an answer, which is final.
- *MailQueue* (`MailCounted`): each delivery, and the one a ghost may yet make, is
  paid for by an attempt, a stall or the handler that runs.
- *Bootstrap* (`BtPhases`): what each phase has established.
- *TempCleanup* (`ClReach`): what a cleanup under way owes (`Owed`: the files that
  `SweepComplete` asks it to remove) still lies ahead in the listing, or on the page
  it is deleting. The delicate steps are the listing of a page and the departure of
  files between two pages. `RanksCount` (ranks in a finite set leave no gap),
  `FullPage` and `PastPage` say that a file past a page makes ImageKit go on and
  stands at the next offset or later; `LeaveAhead` that a departure behind a file
  does not change its rank.
- *UserListing* (`WalkShape`, `NotYetShown`, `AlreadyShown`): who was there all the
  time and was not shown stands past the places covered so far, and the count read
  tells of it; who was shown stands before. `PageShows` turns the definition of a page
  into places, where no two keys are equal; `CountGoesOn` is the arithmetic of
  `totalPages`.

- *Service* (`ServiceImplementsParts`): a step of the service is a step of one part
  and a stutter of the others, so that it implements each part's specification, its
  fairness included. From this `ServiceTypes` and `ServiceSafe` follow by temporal
  logic alone, with nothing proved again.

Weak fairness speaks of `ENABLED`, which is out of the prover's reach. One liveness
property is proved all the same: `StartSettles` derives `BootSettles` from
`BtGoesOn`, which is `BtFairness` with its `ENABLED` spelled out by hand: a start
takes a step of its own again and again, or again and again there is none it can
take (`~BtCanGo`). A start has six places where it can wait, the two hooks
counted apart; `GoesForth` says where a step leads from each, `CanGoUnlessSettled`
that none is a dead end, which takes one more invariant (`HooksDue`).

A cleanup and a mail take a number of steps that depends on the constants, and the
prover has no induction for that. What makes them end is proved: `SweepsAdvance`
and `MailsAdvance` (and `BootsAdvance`) are their variants, as action properties.
Each step moves its part forward in a well-founded order, bounded for every value
of the constants, and nobody else moves it back; that a step which can be taken is
taken is what is left to TLC.

Further assumptions there: setups, asks and inputs are records of the right shape,
sizes and the clock are naturals.

Only model-checked: three liveness properties (`SweepEnds`, `EventuallySwept`,
`MailSettles`), and `BootSettles` under `WF_btVars` itself; that each property can be violated by a plausible
mistake (the mutants); and the violations above. There are no recursive
definitions.

## Not modelled

Pixels, cipher texts and the bytes of signatures are abstracted to which
transformation was applied and what a signature covers. Passwords are right,
access tokens of `AuthSession` do not expire, and Bull, Prisma, PostgreSQL and the
storage services do what their calls say or fail; of what S3 signs, only what the code
hands to the SDK is counted. In `StorageCommit` a key that denotes no place of the
file is one (`Nowhere`), and the listing of a cleanup is that of one file;
`TempCleanup` has many. Of the HTTP pipeline the sanitizer, the counters
of the throttler (any request may be refused), logging and the counters of database
queries, whose attribution to a request is Prisma's, are left out, and
idempotency is reduced to the answer saved under a key: its module has the rest. Of the
audit log the entries of commit and remove are left out, and that its buffer is
never trimmed has no state in which it is wrong. Health probes only read; what
they throw is modelled. Swagger, logging and sanitizing change nothing that a
later request depends on. Code without a caller is left out: `getPaginationParams`,
`buildOrderBy`, `registerFileType`, `createImageUploadMiddleware`,
`validateOrThrow`, `generateThumbnail`, `extractMetadata`, `decryptBuffer`, presigned
DELETE URLs, the upload and notification queues.

What was met while modelling and is not a property of a run:

- An identifier with a slash is used verbatim: a commit can move a published file to
  another folder, over what is there, and without a remove (`upload.controller.ts:91`).
- Presigned uploads bypass validation, processing and encryption altogether.
- Category caps above Multer's cap are unreachable.
- ImageKit's cleanup does not descend into subfolders, Cloudinary's lists images
  only, S3's lists `tempPrefix` while presigned keys are hard-coded `uploads/temp/`.
- A replayed answer carries the first request's id (`src/docs/API.md:70`), and no
  context ever has the `userId` that `src/docs/API.md:202` mentions.
- A failed validation is answered 400 `ERR_HTTP_400` without the fields, where
  `src/docs/API.md:263` has 422 `ERR_VALIDATION_FAILED`: the exception filter keeps the
  code of an `ApiError`, or the fields of a message that is an array, and the pipe
  throws neither (`validation.pipe.ts:57`; `Resolved` in `RequestPipeline`).
- Every protected route reads the user's row twice, and a database error in that
  read is answered 401.
- A database failure in the health check is answered 500 rather than 503.
- `search` of the user listing is documented, but the controller passes no filters.
- No shutdown hooks are enabled, so that `onModuleDestroy` does not run on SIGTERM.

`PROJECT.json` lists all parts with the reasons.
