# Videum in TLA+

TLA+ models of the Videum video platform: a NestJS API (`src/nestjs-project`),
a worker process of the same code base, a Next.js frontend that acts as a
backend-for-frontend (`src/next-frontend`), PostgreSQL, Redis with BullMQ, and
an S3-compatible store (MinIO). The modules are written from the code; the
configurations check them on small instances with TLC; the `*Proofs` modules
prove with TLAPS what matters most for instances of every size.

Short names for source files: VS `videos/videos.service.ts`, VP
`videos/processors/video-processing.processor.ts`, RC
`videos/processors/upload-reconciliation.processor.ts`, SS
`storage/storage.service.ts`, AS `auth/auth.service.ts`, US
`users/users.service.ts`, CS `channels/channels.service.ts`, all under
`src/nestjs-project/src`; RF `lib/auth/refresh.ts`, EM
`lib/auth/error-mapping.ts`, SF, LF and FF `components/auth/signup-form.tsx`,
`login-form.tsx` and `forgot-password-form.tsx`, under `src/next-frontend`.

## 1. Inventory

### Components

| component | state it keeps | operations | module |
|---|---|---|---|
| Video upload and playback (VS, `videos.controller.ts`) | rows of `videos` | `createDraft`, `completeUpload`, `getForPlayback`, `getDownloadUrl` | VideoPipeline |
| Processing (VP, in the worker) | the run of a job; writes `videos` and a thumbnail | `process`, its `catch` | VideoPipeline |
| Reconciliation (RC, in the worker) | the list of one sweep; writes `videos` | `process`, repeated at `reconciliationIntervalMs` | VideoPipeline |
| Object storage (SS, MinIO) | multipart uploads, source objects, thumbnails | initiate, complete, HEAD, put, presign | VideoPipeline (as the pipeline uses it), MultipartParts (how many parts) |
| Worker and queue (`worker/`, BullMQ) | the `process-video` queue, job locks | deliver, redeliver a stalled job, repeat the sweep | VideoPipeline |
| Sessions (AS) | rows of `refresh_tokens` | `login`, `refresh`, `logout`, the revocation in `resetPassword` | RefreshTokens |
| Mailed links (AS) | rows of `verification_tokens`, two columns of `users` | `resendConfirmation`, `forgotPassword`, `confirm`, `resetPassword` | VerificationTokens |
| Registration (AS, US, CS) | rows of `users`, `channels`, `verification_tokens` | `register`, `createUserWithChannel`, `createChannel` | Registration |
| Mail | none | send, or throw | Registration (its outcomes) |
| BFF session (`lib/auth/session.ts`, RF, `app/api/auth/login`, `logout`) | the encrypted session cookie; `refreshPromise`, one for the process | set, destroy, refresh once, repeat a call | BffSession; what the API does with the token in RefreshTokens |
| Forms, BFF routes, error mapping (SF, LF, FF, EM, `app/api/auth/*`) | fields, errors and the view of a form | type, submit, show an answer | AuthForms |
| Access tokens and guard | none (JWT) | sign, verify | their effect in BffSession and RefreshTokens |
| Exceptions and filters, DTOs, ValidationPipe | none | answer with a status and a code | AuthForms, as far as the forms tell them apart |
| Configuration, migrations | none at run time | | initial states and constraints of the API's modules |
| Seeds, OpenAPI export, components without state | none | | not modelled |

### How they interact

The client never sends video bytes through the API. `createDraft` opens a
multipart upload and hands out presigned part URLs; the client puts the parts,
then calls `completeUpload`, which completes the upload in the store, HEADs the
object, saves the row as `processing` and enqueues a job. A worker takes the
job, writes a thumbnail and sets the row to `ready`, or to `failed` in its
`catch`. A sweep that BullMQ repeats looks for rows left in `uploading` and
rescues or fails them. All of them share the row and the store, and none uses a
transaction, a lock or a conditional update.

A form posts to a route of the frontend server, which passes the call on to the
API and its answer back; the form maps the code of an error to a field, or to a
message above its fields, sometimes with a link. A browser holds a cookie with
an access token and a refresh token. A request to the frontend server reads the
cookie when it starts and sends it back, if changed, with its response; between
the two it may make several calls of the API. When one is refused with 401, the
frontend server presents the refresh token, at most once at a time for the whole
process, and repeats the call; the API rotates the token. `logout`, `resetPassword` and
the detection of reuse revoke whole families of tokens. Registration writes the
user, the channel and the first link in three transactions and compensates a
failure of the second by deleting the user. Links are mailed by registration,
`resendConfirmation` and `forgotPassword`, and consumed by `confirm` and
`resetPassword`.

### What is hard

* *Interleavings at every `await`.* Each service reads a row, awaits, and saves
  what it read: `completeUpload` (three calls to the store in between),
  `resetPassword` (the hash in between), the sweep (all earlier drafts of its
  list in between), `refresh` (two writes side by side).
* *Delivery.* BullMQ delivers a job at least once: a run whose lock expires goes
  on while another one starts. A failed job has no second attempt.
* *Failure between two steps.* Upload and row, row and job, user and channel,
  invalidated and new link, password and revocation are written separately.
* *Shared state of the frontend server.* `refreshPromise` (RF:5) is awaited by
  the requests of all browsers; each works on its own copy of a cookie, and
  responses may arrive in any order.
* *Forms that go stale.* A visitor types while a request is under way, submits
  again after an answer was lost, and has several tabs; the answer is bound to
  whatever the fields hold by then.
* *Retries and timeouts.* A completion retried after a lost answer, a refresh
  retried within the grace period of 10 s, the sweep against a slow client.
* *Limits.* `MAX_RETRIES` nicknames; `maxStalledCount`; the number of parts.

### What makes each component correct

* Pipeline: what is published can be played; no URL names a missing object; no
  work without a source; the size check has no hole but the rescue; what says
  processing is being processed and ends; abandoned drafts are settled.
* Sessions: a session that was ended stays ended; a family has one active
  token, its browser holds it, and the alarm for reuse is never false.
* Registration: success means a complete account; failure leaves nothing behind
  that blocks the email, with the one exception that is known; retries end.
* Links: the latest link works; a used link is dead; one link of a type is
  alive; a confirmed user stays confirmed.
* BFF: one refresh at a time; no session reaches another browser; a browser that
  makes one request at a time can always go on; a logout ends the session, unless
  the API was rotating its token just then (section 6).
* Forms: an account is announced once, and only when it is there; hints and
  blame are about what was sent; nobody is signed in without an account; the
  errors at email and password are those of the values shown.
* Parts: the presigned URLs take the whole file and none is left over.

The list of hazards, each at its line, is in `PROJECT.json`.

## 2. Modules

    VideoLifecycle   <-- VideoPipeline      <-- VideoPipelineProofs
                         VideoPipeline, MultipartParts <-- MCVideoPipeline
    SessionLifecycle <-- RefreshTokens      <-- RefreshTokensProofs        MCRefreshTokens
    SessionLifecycle <-- BffSession         <-- BffSessionProofs           MCBffSession
                         Registration       <-- RegistrationProofs         MCRegistration
                         VerificationTokens <-- VerificationTokensProofs   MCVerificationTokens
                         AuthForms          <-- AuthFormsProofs            MCAuthForms

An `MC` module adds the symmetry set and the values of constants that a
configuration cannot write. Operators whose name has an underscore
(`VerifyObject_AnySize`) are *faulty variants* of the operator they precede:
each shows that a property of a run fails if the code had that bug. They are not
part of any specification.

The modules of the API overlap where components meet: BffSession has the
rotation of RefreshTokens in the same steps (read, two writes, answer), but what
the API does after a refusal or at a logout as one; AuthForms takes Registration
as four steps (found free, saved, undone, answered) with the statuses the forms
tell apart, and of the mailed links what confirms an account, takes that back,
or keeps the account from being deleted. What a property needs of the other side is in
each module; what it abstracts from is named in its comments.

Conventions: a call, a sweep or a run is a record with a program counter `pc`;
what it read before an `await` is in that record. The actions are the pieces of
code between two `await`s that let somebody else in. Reads that nothing else can
invalidate are merged with the step that follows. Calls that are refused without
changing anything (validation, authorization, not found) have no step.

### VideoPipeline

| code | model |
|---|---|
| columns `status`, `upload_id` (null or not), `thumbnail_key` with `duration_seconds`, `created_at` | `status`, `upload_id`, `thumbnail`, `aged` |
| the multipart upload, its parts, the object, the thumbnail | `upload`, `landed`, `object` (of the declared size or another), `poster` |
| VS:81 `createDraft` | `InitiateUpload`, `SaveDraft`, `DraftDies` |
| VS:130 `completeUpload` | `ReadDraft`, `CompleteMultipart` or `MultipartRejected`, `VerifyObject`, `LoadForSave`, `SaveProcessing`, `EnqueueCompleted`, `RequestDies` |
| RC `process` | `SweepScan`, `SweepHead`, `SweepRescue`, `SweepEnqueue`, `SweepFail`, `SweepDraftThrows` (the `catch` in the loop), `SweepDies` |
| VP `process` | `TakeJob`, `RunRead`, `RunProcess`, `RunPublish`, `RunThrows`, `RunFail`, `RunDone`, `WorkerQueryThrows`, `WorkerDies`, `RunStalls` |
| VS `getForPlayback`, `getDownloadUrl` | `GetForPlayback`, `GetDownloadUrl`; `urls` records what was handed out |

The queue is a bag, `queue[<<video, stalls>>]`: workers may run jobs
concurrently and BullMQ promises no order that the code relies on.

Assumed of the environment, and named here because the code does not show it:

* TypeORM `save` is two queries: `LoadForSave` reads the row again and decides
  which columns the entity changes (`Changes`), `SaveProcessing` writes these and
  no others. `completeUpload` therefore may write back a stale `thumbnail_key`,
  or leave `status` as somebody else set it in between, but never inserts a
  second row. `overtaken` is history: a run settled the row between the two.
* BullMQ redelivers a job whose lock expired at most `maxStalledCount` times
  (default 1; the code does not set it) and makes one attempt (`attempts` is not
  set).
* The store shows nothing to HEAD before `CompleteMultipartUpload`. Whether it
  answers a second completion of the same upload with success or with
  `NoSuchUpload` differs between stores: `RepeatCompletes` allows both.
* Nothing deletes objects (the code never does).

**VideoLifecycle** is the abstract specification: a row, its source and its
thumbnail, with no requests, queue or workers. `VideoPipeline` implements it
under the mapping `source <- Stored` (all else by name). It deliberately does
*not* say `uploading -> processing -> ready | failed`: the code does not keep
that order (section 6). What it takes to keep it is a theorem: `OneSettler` says
that of the calls, sweeps, runs and waiting jobs of a video no two exist at
once, and in every behaviour in which that is always so the row follows
`RowOrder` (WithoutOverlapInOrder).

### RefreshTokens

The rows of one user. A family is named by its first token. `revoked_at` is
null, recent (within `REFRESH_GRACE_PERIOD_MS`) or past. A rotation is two
writes started by `Promise.all` (AS:225): `SaveRevoked` and `InsertSuccessor`
come in either order, and `WriteFails` is the answer to the client after one of
them failed while the other is still under way. `held` is the refresh token in a
browser's cookie; the answers of the API change it as
`lib/auth/refresh.ts` and the login and logout routes do. Two variables are
history. `ended` tells which families were revoked as a whole, and whether a
rotation was under way just then. `disturbed` says that a browser has started a
call while another one of its own was in flight, or that a call has come to
nothing (its answer lost, the call dead, one of its writes failed); the claims
about rotation are made until then, over every interleaving of the browsers with
each other, with logouts and with a reset.

Time is lazy: a token expires when a call looks at it (`SeesExpired`), which is
the only moment that makes a difference, and the grace period ends only for
tokens that some browser holds (`Held`), since nobody presents the others. Both
keep the states few without losing a behaviour of the calls.

| code | model |
|---|---|
| AS `login`, `generateRefreshToken` | `LoginVerify`, `LoginInsert` |
| AS `refresh` | `Refresh` (the branch is decided on the row as read), `SaveRevoked`, `InsertSuccessor`, `LookupFamily`, `RevokeFamily` |
| AS `logout`, the logout route | `BeginLogout`, `LogoutRevoke`, `LogoutRefused` |
| AS `resetPassword`, its last query | `ResetSave`, `ResetRevoke`, `ResetDies` |
| the cookie | `Answer`, `Forget` |
| time, failures | `GraceEnds`, `Expire`, `ResponseLost`, `CallDies`, `WriteFails` |

### SessionLifecycle

What both sides promise about a session, without tokens or calls: it is opened
once, by a login; the browsers that hold it only become fewer; it ends once. All
sessions may do so in one step, since one step of the code can end many. It
follows that a session has one holder at most (`OneHolder`), whatever implements
it. `SessionOf` is the refinement mapping, with one session for each family:

| | RefreshTokens | BffSession |
|---|---|---|
| opened | the family has its first token | the same |
| live | it has an active token, or a rotation that will insert one | the same: a token that is active or pending |
| holders | browsers with a token of it in the cookie, or in a call under way | browsers with a token of it in the cookie, or in a request's copy of it |

Neither needs `disturbed`: that an ended session stays ended, and that no session
changes hands, is promised whatever overlaps or fails. A session that is revoked
while it rotates lives on, which the abstract specification allows as it allows
the end to come later (section 6): what is promised to end is a session without
an active token and without a rotation that will insert one.

### Registration

A user is named by the call that registers it. All emails have one local part,
so that all channels want the same nickname: the case the retries are for.
`CheckNickname` is the `findOne` of CS, `InsertChannel` its insert and commit. A
unique violation (Postgres 23505) aborts the transaction, so the next query of
the retry fails (25P02) and the whole `createChannel` throws: that is why
`InsertChannel` goes to `undo` and not back to `check`. `pinned` says that a
verification token refers to the user; its foreign key has no ON DELETE action,
so the compensating delete (US:32) is refused.

### VerificationTokens

The links of one user. `confirm` and `resetPassword` read the token with its
user, then `Promise.all` two saves: `SaveToken` and `SaveUser`, in either
order. `SaveUser` of a reset writes `is_confirmed` back as it was read.
`forgotPassword` and `resendConfirmation` are `Issue`, `Invalidate`, `Create`.
`latest` and `uses` are history, and so are `overlapped` (two calls were in
flight at once) and `failed` (a query failed or a call died): each property is
claimed until one of the two, and the run has both. The first link of a user,
created by registration, is the one `Issue` step whose `Invalidate` finds
nothing.

### BffSession

The frontend server between the browsers and the API. A request is a record with
`jar`, its copy of the cookie: `cookies()` is bound to the request, so two
requests of one browser do not see each other's changes, and the response that
comes last decides what the browser keeps. `dirty` says whether it will set or
delete the cookie at all.

| code | model |
|---|---|
| a handler that makes calls through `withRefresh` | `BeginCalls`, the steps of its calls, `Respond` |
| RF `withRefresh`, `refreshOnce` | `FetchOk`, `FetchDenied` (starts the refresh, or waits for the one under way), `Settle` |
| RF `tryRefresh` | `RefreshOk`, `RefreshRefused`, `RefreshFails`, `RefreshThrows`; `SaveSession` is `setSession` or `destroySession` |
| login and logout routes | `Login`, `Logout`, `LogoutIgnored` |
| AS `refresh`, which reads the token | `Rotate` if it is active, else `Grace` or `Refuse` |
| AS `refresh`, its two saves | `Revoke`, `Insert`, `WriteFails`; `RefreshOk` is the answer once both are done |
| time, failures | `AccessExpires`, `GraceEnds`, `ResponseLost` |

No route of the repository uses `withRefresh` yet; the requests of the model use
it as its tests do (`refresh.integration.test.ts`): several calls at once in one
handler, and handlers of several browsers in one process. The second fetch of
`withRefresh` ends the call whatever it answers, so it has no step of its own.
Tokens are numbered in the order the API makes them, so that "made before
`stale`" is "expired". The row of a token that a rotation has made is `pending`
until it is inserted, or `failed`; `replaces` names the token that is still to be
saved as revoked for it. The two writes go on in either order, also when nobody
waits for the answer any more, and a logout may fall between the read and any of
them. A session of another user would be a copy or a cookie
with a token whose `user` is another browser. `disturbed` has the browsers that
overlapped requests, or for which an answer was lost or a write of a rotation
failed, `signedOut` those whose last login was ended by a logout that found no
rotation of the user with an insert still to come (`Pending`).

### AuthForms

One browser with several tabs, each with a signup, login or forgot-password
form. `form` is what a tab shows (`fresh` until the first submission is over,
then `submitted`, or the `success` view) and the request it waits for; `error`
is react-hook-form's `formState.errors`: under the email `schema` or `server`,
under the other fields `schema`, above the form `root.serverError` or
`root.confirmation`. `call` is a request at the API, which goes on when its page
is left or its answer lost. `account` is what the API has for an email, `named`
the accounts that a row of `verification_tokens` refers to: its foreign key
refuses their deletion, and a confirmation or a reset begins with one.

| code | model |
|---|---|
| the fields, with mode `onSubmit` and reValidateMode `onChange` | `EditEmail`, `EditPassword`, `Typed` |
| the schemas of SF, LF, FF | `SignupSchemaTakes`, `LoginSchemaTakes`, `EmailError`, `Errors` |
| `handleSubmit`, `onSubmit` | `SubmitRefused`, `Submit`, then `Succeeds`, `LoggedIn`, `Fails` or `Rejects` |
| EM | `SignupError`, `LoginError`, `ForgotError` |
| ValidationPipe and DTOs | `DtoTakes`, `Refuse` |
| AS `register`, US `createUserWithChannel` | `FindUser`, `SaveUser`, `UndoUser`, `Registered` |
| AS `login`, `forgotPassword` | `Login`, `Forgot` |
| throttler, failing queries and mails | `Throws` |
| `resendConfirmation` or `forgotPassword`, asked for elsewhere | `Link` |
| AS `confirm`; AS `resetPassword`, which saves `is_confirmed` as it read it | `Confirm`; `Unconfirm` |
| the end of a session | `SignOut` |
| `getStrengthLevel` | `StrengthLevel` (in a theorem only) |

Abstractions, and why they are sound for the properties:

* The fields are the email and the password. A signup has three more: full name,
  terms, and `confirmPassword`, whose check compares it with `password` (SF:37).
  Of these the model has only that they may refuse a submission (`SubmitRefused`
  is always possible at a signup); they are sent nowhere, no error of the API is
  shown at them, and the errors under them are not modelled. The checks of email
  and password look at nothing else, so that their own errors, which
  `ErrorsAreCurrent` is about, do not depend on what is left out. Of
  `confirmPassword` it would be false (section 6).
* A reset that read the user before the confirmation may end at any time after
  it. `Unconfirm` can therefore follow every confirmation: a link for such a
  reset can always have been mailed before.
* A password is its length and the classes of its characters, all that the
  schema, the DTO and the meter look at. Whether it is that of the account is
  left open at each login.
* `Unusual` stands for the addresses that zod accepts and class-validator
  refuses (the two use different patterns); it is the one value that reaches the
  API and is answered 400, apart from passwords of more than 128 characters.
* 500 stands for 429 too: all three tables send both to `root.serverError`.
* A form that was never submitted is not left for another page: it might as well
  have been the other one from the start. A request that nobody waits for, and
  that can only answer, is dropped (`Left`).
* `router.refresh()` and the session context render again and change nothing
  here.

`asked` (the email of the submission whose outcome is shown), `blind` (forms
typed in while their first submission was under way, when nothing is validated)
and `undone` (emails whose new account was deleted again) are history.

### MultipartParts

`partCount` of SS:108 and the sizes `CreateVideoDto` accepts, as pure functions.
There is no state and no run of its own: the theorems hold for every size and
every part size. That the parts add up to the file is a sum over a number of
parts that is not fixed, an induction the prover does not do; `MCVideoPipeline`
has TLC evaluate it (`PartsAddUp`) for all sizes up to 30 bytes and part sizes
up to 8, which has every remainder.

## 3. Runs

| run | checks | shows |
|---|---|---|
| `pipeline_all_faults` | TypeOK, PublishedIsPlayable, UrlsResolve, WorkHasASource, OnlyRescuesSkipTheSizeCheck, ImplementsLifecycle | safety of the pipeline under every failure |
| `pipeline_no_crash` | ProcessingIsDriven, ProcessingSettles, AbandonedDraftsAreSettled | progress while no process crashes |
| `sessions_all_faults` | TypeOK, EndedSessionsStayEnded, OneActivePerFamily, IdleClientHoldsActive, AlarmsAreTrue | an ended session never returns, whatever overlaps or fails; until a browser overlaps its calls or one comes to nothing, rotation is right |
| `registration_all_faults` | TypeOK, SuccessMeansAccount, OnlyPinnedUsersLackAChannel, CallsMakeHeadway, RegistrationEnds | accounts are complete or gone; every step of a call takes it nearer to its end, which comes |
| `links_all_faults` | TypeOK, LatestLinkWorks, SpentLinksAreDead, OneActiveLink, ConfirmedIsFinal | overlapping calls that do not fail keep the links right; calls that do not overlap keep one link alive and a confirmation for good, wherever they die |
| `bff_all_faults` | TypeOK, OneRefreshAtATime, SessionsAreOwn, RestingCookieIsActive, SignedOutStaysOut | one promise for all browsers mixes no sessions, a browser that makes one request at a time can go on, a logout is final unless a rotation was to insert a token |
| `forms_all_faults` | TypeOK, CreatedOnce, HintIsTrue, BlameIsRight, SignedInHasAccount, ErrorsAreCurrent | what the forms say is true, whatever is typed, lost or submitted twice |
| `finding_*` | one claim each | a document or comment that the code does not keep (section 5) |

`CHECK_DEADLOCK FALSE` is set where the system may really come to rest: all
videos settled and nobody watching, all tokens used up, all registrations ended.
A visitor can always type, so `forms_all_faults` checks for deadlock.

### Bounds

* **Pipeline.** One video: no guard or effect relates two videos, and only a
  sweep's list holds several, whose drafts it handles one by one. Two requests,
  two sweeps and two workers are the smallest numbers at which two of a kind
  race on the row, and a request, a sweep and a run race at once. One redelivery
  is BullMQ's default. The queue needs no bound: a call is let in only while the
  row still has its upload id, so finitely many jobs are ever made (RequestsInv
  and WorkHasASource are the reason). `pipeline_no_crash` has one sweep, which
  repeats.
* **Sessions.** Three tokens give a login and two rotations, or a rotation next
  to a second family. Two browsers with two calls: one browser that overlaps its
  own, or two browsers at once. The grace period is the two values of
  `revoked_at`.
* **Registration.** Three calls, two emails (so two calls want one email), one
  base nickname that is taken and one suffix, so that every retry collides;
  `MAX_RETRIES` is 2 instead of 5. One concurrent `forgotPassword`. In
  `finding_nickname_race` nothing is taken and two suffixes are free, to show
  that the failure is not for want of a name.
* **Links.** Three tokens, so that two links of one type and one of the other
  exist, and a link is mailed while two are alive. Two calls overlap.
* **BFF.** Two browsers; two requests, one of which makes two calls at once, so
  that calls of one request and of two wait for one promise. `MaxIssued = 3`
  answers of the API with tokens, of which `MaxLogins = 2` are logins: both
  browsers sign in and one rotates, or one rotates twice or uses the grace
  period. The proofs need neither bound.
* **Forms.** Two forms of any of the three kinds and two calls about one email:
  everything that two tabs can do to one account. One password that everybody
  takes; the fields start blank, which is the one that is refused, and a password
  that was typed is not cleared again. The proofs
  are for any passwords.
Symmetry: calls, workers, sweeps, tokens, browsers, emails and suffixes are only
compared for equality, so they are permuted in the runs that check invariants
and action properties. The runs with liveness use none.

### Fairness

`pipeline_no_crash` assumes weak fairness of: `SaveDraft` (a request that was
begun goes on), `Age` (time passes), each `RequestStep`, each `SweepStep`
(BullMQ repeats the sweep, RC is registered with an interval in the worker
module), and each `RunStep` (workers run and take waiting jobs). It assumes
nothing of clients: that parts are ever put, or that `completeUpload` is ever
called, is left open. Failures are never forced: a run that throws still ends in
`RunFail`. `RegistrationEnds` assumes that a call in progress goes on.

Both liveness properties of the pipeline hold only while nothing crashes; see
section 6 for why they do not under crashes.

## 4. Proofs

Everything below is proved for any number of videos, calls, tokens, and so on,
from the named assumption of each module (which only says that the "nothing"
values are not members, and that numbers are natural).

| theorem | statement | under |
|---|---|---|
| VideoPipelineProofs!TypeCorrect, ReadyCanBePlayed, UrlsNeverDangle, NoWorkWithoutSource, SizeCheckHolds | the five invariants of `pipeline_all_faults` | all faults |
| VideoPipelineProofs!PipelineImplementsLifecycle | VideoPipeline implements VideoLifecycle | all faults |
| VideoPipelineProofs!ProcessingAlwaysDriven | ProcessingIsDriven | at most stalls |
| VideoPipelineProofs!WithoutOverlapInOrder, WithoutOverlapReadyIsFinal | RowsInOrder, ReadyIsFinal: rows follow the documented order, a ready video stays ready | all faults, while OneSettler |
| SessionLifecycle!OneHolder | a session has one holder at most | |
| RefreshTokensProofs!Implementation, NeverShared | RefreshTokens implements SessionLifecycle; OneHolder for it | all faults |
| RefreshTokensProofs!TypeCorrect, EndedForGood | two invariants of `sessions_all_faults` | all faults |
| RefreshTokensProofs!OneActive, IdleHoldsActive, NoFalseAlarm | the other three | until a browser is disturbed |
| RegistrationProofs!TypeCorrect, SuccessIsComplete, LeftoversArePinned | the three invariants of `registration_all_faults` | all faults |
| RegistrationProofs!RetriesAreBounded | CallsMakeHeadway: a call ends after MaxRetries + 6 steps at the latest | all faults |
| VerificationTokensProofs!TypeCorrect | TypeOK | all faults |
| VerificationTokensProofs!SpentIsDead, LatestWorks | SpentLinksAreDead, LatestLinkWorks | until a call fails |
| VerificationTokensProofs!OneLink, ConfirmedStays | OneActiveLink, ConfirmedIsFinal | until two calls overlap |
| BffSessionProofs!TypeCorrect, SingleFlight, NoSessionMixedUp, LogoutIsFinal | four invariants of `bff_all_faults` | all faults |
| BffSessionProofs!Calmness, RestingGoesOn | the fifth, RestingCookieIsActive, and the invariant it rests on | until a browser is disturbed |
| BffSessionProofs!Implementation, NeverShared | BffSession implements SessionLifecycle; OneHolder for it | all faults |
| AuthFormsProofs!TypeCorrect, CreationIsToldOnce, HintsAreTrue, BlameIsDeserved, SessionsHaveAccounts, ErrorsFollowValues | the six invariants of `forms_all_faults` | all faults |
| AuthFormsProofs!MeterAgrees | the strength meter against the signup schema | every password |
| MultipartParts!PartsCoverTheFile, EveryPartHasBytes, DefaultFitsTheLimit, SmallestPartSize | the parts cover the file, none is empty, and S3's limit of 10000 is kept from 1073742 bytes a part on | every size |

**VideoPipeline.** The key notion is `Backed(v)`: the source is stored, the row
has left `uploading` and forgotten its upload id, and if the size differs the
timeout has passed. Once true it stays true: no action deletes an object or sets
a status back to `uploading`. `IInv` says that everything that makes or does
work (a row that is processing or ready, a waiting job, a run, a request or a
sweep about to enqueue) is backed, and that everything an actor carries across
an `await` (a stale `thumbnail`, a pending list, a HEAD result) is still true
enough. The invariants the runs check are not inductive alone: `RunPublish`
needs to know that its video is backed and its thumbnail stored, which was
established three steps before by another actor.
The refinement is proved action by action: most steps stutter; a save by a
request or the sweep is `Accept`, `SweepFail` and `RunFail` are `Fail`.
`ProcessingIsDriven` is preserved on top of `IInv`: a step that takes a driver
away either settles the row or leaves another driver.
The theorems without overlap have `[]OneSettler` as a hypothesis. `OrderOk(v)`
says that what an actor read of a row before its `await` is still so: a request
or a sweep about to save finds `uploading`, a run about to publish or to fail
does not find `ready`. It is preserved because nobody else is there to change
the row (lemma `Alone`), failures and the redelivery after a crash included (a
stall is an overlap: the job waits again while its run goes on). What the
interleavings of the pipeline put at risk is thereby one thing, the stale read.

**RefreshTokens.** A family that was ended while nobody rotated it has no active
token (QuietInv), and no call is in a position to give it one (CallsInv): a
rotation starts only from a token read as active. A rotation that read it
*before* the end is excluded by the definition of "quiet", which is exactly the
race that section 6 describes. `OrderlyInv` is what rotation relies on until a
browser is disturbed: a browser has one call (OneCallInv), which presents what
the browser holds (PresentedInv); no token is held or about to be held by two
browsers (ApartInv); and a family is a line whose last token is active, except
for the one a rotation is about to revoke (LineInv, PairInv).
For the refinement, `LifeInv` knows that a family is named by a token of its own
and that a call carries tokens of the table, so that only the insert of a login
opens a session, and that under a name not used before. All other steps can only
take holders or life away: a rotation hands the family on before it lets go of
the old token, and an ended family cannot begin one, since a rotation starts
from an active token.

**Registration.** `Progress` says what a call has behind it at each point. With
it the compensation's effect (`UndoUser`) is known: the user is gone, or pinned. `StepsLeft` is a measure of
what a call has before it, in which a replaced nickname costs one; every step of
the call takes it down and nobody else's step touches it, so that of the
termination that TLC checks (RegistrationEnds) only the fairness is not proved.

**VerificationTokens.** `HalfWritten` says which of the two writes of a
consuming call has been made. `Spent` and `Latest` add to the two properties the
calls that are still to make them true. Until two calls overlap at most one is
not idle, and the number of links of a type is bounded by what it has left to do.

**BffSession.** A refresh under way belongs to the request of its call and
presents the token of that request's copy, and what it makes belongs to the same
user and family (SentInv, RotatingOk); copies and cookies hold tokens of their
own browser only (OwnInv); what a rotation has yet to revoke is a token of the
user for whom it makes one (ReplacesInv); and after a logout that no rotation
overlapped no row of the user is active or pending (SignedInv), so that no
answer of a refresh can make another one. A logout during a rotation is excluded
by the definition of `signedOut`: it is the race of section 6, not a gap of the
model.
`Calm` is what a browser that was never disturbed relies on: it has one request;
the copy in that request holds a token that is active and that nobody is about
to revoke (`Firm`), or else a rotation of its own call is making the one that
will be (`Making`); and as long as the copy is not changed it is what the cookie
holds. With one promise for all browsers, what has to be shown is that the steps
of one browser's refresh leave the others as they were: they change no row but
those of their own family, and a family belongs to one browser (FamilyInv). The
refinement rests on the same invariant and on `ChainInv` (a family is named by a
token that exists), and needs nothing of `disturbed`.

**AuthForms.** `Linked`: a waiting form has a call to itself, about what it
asked, and shows no refusal. `CallsOk`: what the point a call has reached tells
of its account. `Makers`: an account is made by one call and told of by one
form. `Screens`: what each form shows. None is inductive alone; that
"Account created!" is true needs that nobody but the call that saved a user
deletes it, which is `Makers` at the step `UndoUser`. `Pinned`: an account that a
token names exists, a confirmed one is named by a token, and so is that of
whoever is signed in. SignedInHasAccount follows: a failed registration deletes
only what no token names. That whoever is signed in is *confirmed* is false of
the code (section 6), which is why the argument goes through the tokens. The theorems cover passwords and address kinds beyond the run.

**Only model-checked:** ProcessingSettles, AbandonedDraftsAreSettled,
RegistrationEnds (liveness is beyond the prover), PartsAddUp (an induction), and
the counterexamples. Conversely, ImplementsSessions and RowsInOrder are proved
and are in no run. TLC found no counterexample to the former on the instances
of `sessions_all_faults` and `bff_all_faults`, nor to the latter within
OneSettler on that of `pipeline_all_faults`, but takes too long over the former
for a run that is repeated; the faulty variants `Refresh_AnyToken` and
`SaveSession_ForAll` violate it.

## 5. Where documents and code disagree

Each is a run that finds a counterexample; `PROJECT.json` quotes the lines.

* `finding_ready_undone_by_rerun`: a run whose lock expired and its redelivery
  overlap; both read `processing`; one publishes, the other fails and its
  `catch` sets a ready video to `failed`. The phase document says that re-running
  a ready video is a no-op. It is one whenever nothing overlaps
  (WithoutOverlapReadyIsFinal).
* `finding_uploaded_draft_failed`: the sweep is meant to rescue drafts whose
  parts were all uploaded and never completed. HEAD sees an object only after
  completion, so the sweep fails exactly these.
* `finding_orphan_upload`: if `createDraft` dies before its save, the open
  multipart upload is in no row; the sweep only reads rows.
* `finding_grace_returns_revoked`: a retry within the grace period gets back the
  token it presented, which is revoked, not the latest one of the family. The
  browser keeps it, and its next refresh after the grace period raises the alarm.
* `finding_nickname_race`: the retry after a unique violation runs in an aborted
  transaction and cannot succeed; the registration ends in an error although a
  nickname is free.

Found while modelling, without a run of its own:

* The single flight is per process, not "per request" or "per-request-context"
  (`technical-decisions-phase-02-auth-frontend.md:127`, `:143`, `:145`; RF:5). A
  401 of one browser waits for the refresh of another and, if that fails, is
  answered "Session expired" although its own session is good; if it succeeds,
  its call is repeated with its own old access token. BffSession shows that no
  session is mixed up by it. It also means that "exactly one refresh"
  (`phase-02-auth-frontend.md:249`) holds for all browsers together.
* "A `400` response renders an inline error on the offending field"
  (`phase-02-auth-frontend.md:492`): EM:32 puts it above the signup form.
* "Client-side validation [...] mirrors the backend rules 1:1"
  (`phase-02-auth-frontend.md:493`): the client has no maximum of 128
  characters, the DTO asks for no letter and no digit.
* LF:85 links to `/resend-confirmation`, a page that does not exist.
* The meter calls a password of letters and signs "Strong" that the schema
  refuses for want of a digit; only a full meter is a promise (`MeterAgrees`).

## 6. Known limits of the code

What the models also show, and the properties are therefore worded to allow:

* **Stale saves of the pipeline.** `completeUpload` saves, and the sweep
  updates, whatever the row holds by then (VS:167, RC:68, RC:79). A second
  completion or a slow sweep can take a row from `ready` back to `processing`
  (a new job then settles it again) or from `processing` to `failed`.
* **Torn save.** The save of a second completion is a SELECT and an UPDATE
  (VS:167). If it reads a row that the sweep has put to `processing` and a run
  publishes the video before the UPDATE, the UPDATE has no `status` to write but
  sets `thumbnail_key` to null: the video stays `ready`, its thumbnail is in the
  store, and the row does not name it. PublishedIsPlayable leaves out just that
  (`overtaken`).
* **Size.** A draft refused with UPLOAD_SIZE_MISMATCH (VS:156) keeps its
  finalized object; the sweep rescues and publishes it without comparing
  sizes (RC:66).
* **Repeated completion.** Of two overlapping completions the second may be told
  UPLOAD_OBJECT_MISSING (VS:152) though the object is there.
* **Lost jobs.** A crash between the save and the enqueue (VS:169, RC:72) leaves
  a row in `processing` for ever; so does a worker that dies more often than
  jobs are redelivered, or a database that fails in the `catch` of VP. Nothing
  sweeps `processing`.
* **Concurrent refreshes.** Two refreshes of one token that both read it as
  active leave two active tokens, where `technical-decisions-phase-02-auth.md`
  (line 84) calls tokens single-use. `OneActivePerFamily` is claimed for
  browsers that make one call at a time.
* **Refresh against logout.** A rotation in flight during a logout, a reset or
  an alarm inserts its successor afterwards and survives
  (`phase-02-auth.md:339`). That is the "busy" of `ended`, and the `Pending` of
  `signedOut`: the logout has destroyed the cookie, but the answer of the refresh
  may come after it and bring back one that can be refreshed.
* **Alarm.** Reuse revokes one family, while the message at
  `domain.exception.ts:47` says that all sessions are revoked.
* **Login against reset.** A login that verified the old password before the
  reset opens its session after the revocation (`phase-02-auth.md:372`). A reset
  that dies between the two revokes nothing.
* **Orphan users.** A crash between user and channel (US:22), or a link issued
  in between that pins the user (US:32), leaves a user without a channel whose
  email cannot be registered again (`phase-02-auth.md:187`, `:460`). For such a
  user `forgotPassword` and `resendConfirmation` create the link and then throw
  on `user.channel` (AS:254, AS:152; `phase-02-auth.md:370`). Two concurrent
  registrations of one email are told apart by the constraint only, and the
  loser gets 500 instead of 409.
* **Forms.** A refusal is bound to the email field by then, so "log in" may stand
  under an address it is not about (`HintIsTrue` leaves out a field that was
  typed in). A registration whose answer was lost is answered 409 when it is
  submitted again. A rejected fetch, or an answer that is not JSON, leaves the
  form without any message. A value typed while the first submission is under way
  is not validated when that submission fails (`blind`). After a submission a
  change validates its own field only, and the comparison of the two passwords
  stands under `confirmPassword` (SF:37): whoever then changes `password` instead
  is left with the error of a mismatch that is gone, or is not shown one that has
  come about, until the next submission. A 409 may be about an
  account that is deleted a moment later (`undone`).
* **BFF.** The session is destroyed by any answer of a refresh that is not ok, a
  429 among them, and all browsers share the address of the frontend server.
  A browser that overlaps requests may end up with the older of two cookies, and
  one that loses an answer with a token that is good for the grace period only
  (`disturbed`).
* **Parts.** `STORAGE_PART_SIZE_BYTES` may be 0 or negative; the number of parts
  is then infinite, or one.
* **Links.** Overlapping calls with one link both succeed (AS:309, AS:266;
  `phase-02-auth.md:374`). Two overlapping requests leave two active links
  (AS:242; `:376`). A reset that read the user before a confirmation writes
  `is_confirmed` back to false (AS:268; `:216`), also that of a user who has
  signed in meanwhile and stays so (`Unconfirm`). If one of the two writes fails,
  a link may have changed the user and still be alive.

## 7. Not modelled, and why

Tokens are never guessed and hashes never collide: tokens are model values.
The access token is a signature and an expiry; it outlives a logout by design.
ffprobe and ffmpeg either succeed or throw. The start of the processes is left
out: the creation of the bucket by API and worker at once (SS:92, whose
`BucketAlreadyOwnedByYou` is ignored), the registration of the sweep's
scheduler, migrations and seeds; all of it ends before anybody is served. So is
what has no state that a property could relate: wording, templates, paging, the
sanitizing of nicknames, icons and layout components, the session context, the
export of the OpenAPI document and the types generated from it. Throttling is
configuration of a library and appears as a refusal. The repository's own tests
and mocks, about a third of its lines, are read as documentation of what is
expected and are not modelled.

## 8. Plan

Done, in this order: VideoLifecycle and VideoPipeline with the refinement and
its proofs; RefreshTokens; Registration; VerificationTokens; BffSession;
MultipartParts; AuthForms, each with its proofs; RestingCookieIsActive;
SessionLifecycle and its two implementations; the pipeline without overlap; the
measure of a registration. What could follow:

1. The composition of RefreshTokens and VerificationTokens over `resetPassword`:
   the password, the link and the revocation in one behaviour.
2. An abstract specification of accounts (absent, incomplete, complete,
   confirmed) that Registration implements and AuthForms observes.
3. The other liveness properties: a measure for a job, as StepsLeft is one for a
   call, would leave only the fairness of ProcessingSettles to TLC.
