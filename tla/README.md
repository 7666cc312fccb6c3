# Verification of pxl-api

TLA+ models of the parts of pxl-api (a NestJS API over Postgres) where requests, cron
jobs, several API instances and remote services meet. TLC checks them on small
instances; TLAPS proves theorems about them for every instance. Paths below are
relative to the repository; `src/` there holds the API.

How to run, in this directory:

    tlc -workers 2 -config MCSweeps.cfg MCContentPublishing.tla
    tlapm ContentPublishing_proofs.tla

and likewise for the other runs of section 3 and proof modules of section 4.
`PROJECT.json` lists the runs with their modules and configurations, the lines of the
source each definition stands for, and the hazards with the properties about them.

## 1. The system

| Part | State | Operations | Talks to |
|---|---|---|---|
| content (`src/content`) | `content_items`: status, scheduledAt, socialTargets, publishResults, publishAttempts | create, PATCH, schedule, publish | Meta, Google Calendar, automation log |
| content publisher (`src/scheduler/content-publisher.service.ts`) | an advisory lock; the list of a running sweep | every minute, in every instance: select, filter by approval, publish, count failures | content, approvals, automation log |
| approvals, client portal | `approvals`: status, revisionCount | ask, decide (team or client), comment | content |
| social connections | `meta_authorizations`, `social_connections`, `meta_oauth_states` | authorise, synchronise Pages, disconnect | Meta |
| automation | `automation_logs` | log, retry by hand or every ten minutes | clients, content |
| drive, calendar | folders and events at Google; `clients.driveFolderUrl` | provision, browse, upload; create a reminder | Google |
| clients, users, auth | `clients`, `users`, `auth_tokens` | create, invite, link, unlink, disable, reset a password | drive, onboarding tasks, email |
| leads, onboarding | `leads`, `onboarding_tasks` | capture and score, convert to a client; a public form, a checklist | clients |
| reminders, insights (`src/scheduler`) | an advisory lock each; `lastReminderAt`, analytics rows | hourly reminders, hourly ingestion of metrics | email, Meta |
| workspace | channels, messages, boards, tasks, pages | CRUD, defaults created when they are listed, activity messages | all parts post to it |
| reports, assets, campaigns, pillars, templates | one table each, by client | CRUD; send a report, tag an asset | content, email, a language model |
| analytics, operations, ai, settings | one table each | CRUD and read-only summaries | a language model |

All state is in Postgres. A request handler or cron job is a sequence of awaits: a row
that one statement read may have changed when the next one writes, unless both are in
one transaction and lock it, which few are. Several API instances may run, and each runs
every cron job. Calls to Meta and Google can fail, or succeed without the caller
learning it. Nothing is retried but by the next tick of a cron job. So what is hard
here is: values read, then written back; a remote effect and the row that records it;
two runs of the same job; check-then-insert. `PROJECT.json` lists these hazards, each at
its line, with the properties that look for it.

## 2. What is modelled

### ContentItems

The rows of items and approvals and every request that changes them.

| Variable | Code |
|---|---|
| `content` | one row of `content_items` per item; `results` is `publishResults`, `attempts` is `publishAttempts`; `edition` (not in the code) counts the edits that started the results anew |
| `approvals` | the approvals of an item by `createdAt` |
| `connected` | the targets whose connection is CONNECTED, not expired, and fit for the platform |
| `edit`, `decide` | handlers between their read and their write |
| `byHand`, `lastDecision`, `approvedOnce`, `history` | history for the properties; no action reads them for a guard but for the bounds |

`Create`, `Schedule`, `CreateApproval` are one write each (the rows they read first only
serve to reject the request). `EditRead`/`EditWrite` is `ContentService.update`, and
`DecideRead`/`DecideWrite` is `ApprovalsService.update`, which is also
`ClientPortalService.decideApproval`. The time of day is reduced to whether
`scheduledAt` is none, in the future or past (`When`, `TimePasses`). Captions, media and
names are not represented: what matters of an edit is whether it resets the results.
The statuses that no operation reads or sets are one (`IDEA`).

### ContentPublishing

Extends it with `ContentService.publish` and the sweep.

| Variable | Code |
|---|---|
| `lock` | the Postgres advisory lock 4815162342 |
| `sweep` | per instance: the local variables of `runPublishSweep` |
| `pub` | per instance and per request: the local variables of one call of `publish` |
| `posts` | what Meta has: the posts of an item on a target, per edition |
| `abandoned` | `content-auto-publish-abandoned` rows of the automation log |
| `disturbed` | history, see below |
| `crashes` | bound on crashes |

Every await of `publish` ends a step: `PublishRead` (the row), `PublishCheck` (the
connections), `PublishPost` (one target, with the outcome accepted, rejected or lost),
`PublishSave`, `PublishFinish`. The targets are taken in any order, where the code takes
them in the order of the array. The sweep is `SweepStart`, `SweepFilter`, then per item
`SweepPublish`, the steps of publish, and `SweepSucceeded` or `SweepFailure` and
`SweepLog`, and at last `SweepEnd`. `Crash` ends a sweep or a request anywhere; the lock
goes with the transaction. `StatementFails` is a statement of publish that the database
rejects while the process lives on: publish throws, and the sweep counts a failure as it
counts one of Meta. After a save, publish goes on with the row that the UPDATE returned, so
the caption and media of the next target are those of that row (`edition`), with the
targets and results of its own copy.

Four things make a second post unavoidable or a result stale in this code: an answer of
Meta that is lost, a crash or a failure between a post and its save, a publish request
that overlaps another call for the item, and a PATCH that writes back results it read
earlier or replaces the media while they are being published. `disturbed` records the
items this happened to. `PostedOnce`, `SucceededWasPosted` and `PublishedEverywhere` say
that nothing else breaks them; `NeverPostedTwice` says it without the exception, as the
documentation does, and fails.

### PublishOnce

What publishing promises of an item, without calls, copies, sweeps and locks: the present
edition is posted to a target once, a post is recorded after it was made, and an item is
published when its targets are all recorded; an edit starts a new edition or leaves the
record alone. `PublishesAsPromised` says that ContentPublishing implements it: the posts
are Meta's, what is recorded are the results that read SUCCEEDED, an item is published
that reads PUBLISHED without a request having set its status, and the promise is broken
off on an item that was disturbed. That a call records and finishes from a copy it took
before others wrote the row is what the refinement is about.

### AutomationRetry

What the API starts at Google in the background, and the retry of what failed. It shares
no state with the modules above but the fact that an item was scheduled, and stands on
its own.

| Variable | Code |
|---|---|
| `begun` | clients created, items scheduled (each item once) |
| `linked` | clients whose `driveFolderUrl` is set |
| `made` | at Google: the folder trees of a client, the reminders of an item (counted to 2) |
| `failed` | the rows of `automation_logs` with status FAILED and a retryable event, oldest first |
| `unlogged`, `inserting` | `logEvent` and `createPublishReminder` calls in flight, which nobody awaits |
| `work` | per worker (the automation of a new client, a tick of the cron job, a retry request): where `provisionDriveFolder` or `retry` is |
| `queue` | the rows a tick has still to retry |
| `stopped`, `unsure`, `overlapped`, `raced` | history: an entity hit by a crash, by a lost answer, by two workers at once, by two retries of one row at once |

`CheckClient` is the read of the client, `DriveAnswers` the call to Drive, `SaveFolder`
the write of the URL, `StartReminder` and `CalendarAnswers` the insert into the calendar,
`LogFailure` the insert of the FAILED row, `Mark` the update to SUCCEEDED, which follows
whatever the retry came to. A SUCCEEDED row leaves the model, and its id may be used
again when nobody remembers it. The outcome `lost` stands for every way a thing is made
and the caller sees an error: a timeout, an answer without a link, or an URL that could
not be saved. A tick that outlasts ten minutes meets the next one: an instance of the
model is a tick, so two instances are that case as well.

Left out: a deployment without Drive or Calendar (nothing is made, nothing fails), an item
that is scheduled again (it gets a second reminder on purpose), and a PATCH that clears
the URL with null (nothing provisions a folder then).

### ClientAccounts

Users, the clients they sign in for, their password links, leads, and one task of each
client's onboarding checklist.

| Variable | Code |
|---|---|
| `users`, `userRow`, `removed` | `users`; ids that were deleted |
| `clients`, `clientRow` | `clients`: `email` and `userId` |
| `leads`, `leadRow` | `leads`: `email` and `clientId` |
| `tokenRow` | `auth_tokens` |
| `checklist` | `onboarding_tasks`: a task's status and `completedAt` |
| `req` | requests between two statements: the next one, what was read, what was asked for |
| `spent`, `made`, `moved`, `disturbed` | history |

A request makes its reads in one step and then one step per statement that writes: none
of these services locks what it read. `UpdateUser` and `Relink` are the two UPDATEs of
`UsersService.update`, `UseToken` the mark that `resetPassword` makes after them.
`CreateBoth` is the one transaction that makes a client with its user. The unique columns
of the database (the email of a user, the email and the user of a client) are guards of
the steps that write them. The transaction of `createPortalUser` reads under READ
COMMITTED and takes no lock before it writes, so it is two steps: `FindPortalUser`, its
reads of the user, the role and the link, and `CreatePortalUser`, its writes with the
commit, which does not look at the role again. `Crash` stops a request between two writes.

`disturbed` holds what two requests had in hand at once and what one that stopped had:
the user and the client of a request are updated by separate statements, so the
agreements below hold outside of these windows only. The properties say that nothing
else breaks them.

### Reminders, InsightsIngestion

The two hourly sweeps of every instance, each under an advisory lock that a transaction
holds while the work is done outside of it. Times are ages, kept up to the age from which
on nothing tells them apart, so that time may pass for ever; `Tick` and `Hour` pass it.

| Variable | Code |
|---|---|
| `reminderLock`, `insightsLock` | the locks `REMINDERS_LOCK_KEY`, `INSIGHTS_SWEEP_LOCK_KEY` |
| `waiting`, `age`, `reminded` | approvals PENDING and leads NEW; `createdAt`, `lastReminderAt` |
| `sweep`, `ingestion` | per instance: the local variables of the sweep |
| `publishedAt`, `capturedAt` | of items PUBLISHED lately; the newest analytics row of each |
| `mailed`, `lagged`, `cut`, `ingestedAt`, `lockLost` | history: the age of the last mail about an item, what its sweep had taken by then, and see below |

`SelectDue`, `NotifyTeam` and `MarkReminded` are the statements of one reminder sweep, for
the approvals and then for the leads: one mail for all, then one mark per row, with the
time the sweep began. The mail has a time of its own, so after a sweep that was late the
next mail is less than an interval away from the last, by as much as that sweep was late.
`RemindedOnce` says so: the sweeps of two mails began an interval apart. `CutShort` and
`StopIngestion` end a sweep anywhere, and the lock with it; `LoseLock` and
`LoseInsightsLock` are the loss of the connection that holds the lock while the sweep goes
on. `cut` and `lockLost` record what that touched. An approval comes back to PENDING
nowhere in the code; a lead may become NEW again (`Reopen`).

### MetaConnections, OneTimeLink

The connections of one client to Facebook Pages.

| Variable | Code |
|---|---|
| `oauthState` | `meta_oauth_states`: valid, lapsed or deleted, and `usedAt` |
| `auth` | `meta_authorizations`: token and status of an owner, a Meta user |
| `conn` | `social_connections`: owner, token and status of a Page |
| `request` | callbacks and synchronisations between two statements |
| `lapsed` | tokens past `tokenExpiresAt` |
| `redeemed`, `met` | history |

`CallBack`, `ConsumeOauthState`, `Exchange` and `upsertAuthorization` are
`completeMetaOauth`; `FetchAllPages`, `WritePage`, `ListUnlisted` and `RevokeUnlisted` are
`syncPageConnections`, one step per statement or call to Meta. The Instagram account of a
Page goes with the Page's row.

OneTimeLink is what a link promises: it may be presented by many, and one redeems it. The
rows of `meta_oauth_states` implement it (`LinksRedeemedOnce`, with the instance `Links`):
`presented` is the callbacks between their SELECT and their UPDATE, and a row that was
purged reads as lapsed. The password links of ClientAccounts do not implement it, as they
are marked after their use; `TokenSpentOnce` says what they keep.

### WorkspaceChannels, WorkspaceTasks

| Variable | Code |
|---|---|
| `channel`, `message` | `workspace_channels` by slug and type, `workspace_messages` |
| `visit` | requests that seed the defaults, post an activity or make a channel, between two statements |
| `board`, `task`, `comment`, `page` | the other tables of the workspace |
| `errand` | updates of tasks and new comments, between two statements |
| `clouded`, `byHand`, `turned`, `announced`, `tangled` | history |

`FindDefault`, `InsertDefault` and `RereadDefault` are `ensureChannelDefault` (select,
insert on conflict do nothing, select again); `Look` and `Welcome` are
`ensureSystemMessage`. The foreign keys that delete the messages of a channel and the
comments of a task, and that take the board away from a task, are part of the deletions. A
`chat` message is any text but the welcome of its channel, as the code knows the welcome
by its text. `updateTask`, `WriteTask` and `Announce` are the update of a task and the
message that follows when it is completed.

### Catalogue

What the team keeps of each client: `campaign`, `pillar`, `template` (the client of each
row), `item` (client and campaign), `asset` (client and tags), `report` (client, status,
sentAt), and `call`, the requests of several statements: `CheckNewItem` and `InsertItem`,
`CheckItem` and `EditItem`, which check the campaign of an item in one statement and write
it in a later one; `AutoTag`, `GenerateTags` and `SaveTags`, which read an asset, ask a
language model and write all tags back; `Send`, `MarkSent` and `NotifyUser`, which read a
report with its client, mark it and then mail the client (`Then` is their order). A PATCH
may clear the campaign of an item (`Null`). `strayed`, `overtaken`, `mailed` and `given` are
history.

## 3. The runs

| Run | Bounds | Shows |
|---|---|---|
| `items` | 1 item, 1 target, 2 approvals of 2 revisions, 2 decisions and 1 edit in flight, 3 attempts | the status agrees with the approvals; the revision count is exact unless two decisions of one approval overlap |
| `sweeps` | 1 item, 2 targets, 2 instances, 1 crash, 3 attempts, lost answers; a failing statement counts as the crash | the inductive invariant of the proofs (types, one sweep at a time, attempts as read), the retry cap, the gate, one post per target |
| `requests` | 1 item, 2 targets, 1 sweep, 1 publish request, 1 edit, 2 editions; cut at the first disturbance | sweep, request and edit in every order keep the results truthful, and implement PublishOnce |
| `progress` | 1 item, 1 target, 2 instances, 1 crash, 2 attempts | an eligible item is dealt with |
| `stale_edit` | as `requests` without the request, caption edits only | finding: `NeverPostedTwice` is violated |
| `gate` | 2 approvals, 1 sweep | finding: `GateUsesLatestDecision` is violated |
| `retries` | 1 client, 1 item, one of the two begun; 1 tick, 1 retry request, batch of 2, 3 row ids, 1 call and 1 insert in flight per entity, 1 crash, lost answers | no failure is forgotten, and the inductive invariant of the proofs; one folder tree and one reminder, and one FAILED row per entity, unless two workers raced, one crashed, or an answer was lost |
| `retry_progress` | 1 client and 2 items together, 1 tick at a time, batch of 2, 4 row ids, no crash | every FAILED row is retried, while fewer others keep failing than the batch holds |
| `retry_twice` | 1 client, 2 instances | finding: `RetryIsIdempotent` is violated |
| `accounts` | 2 users, 2 clients, 1 lead, 1 password link, 2 emails, 2 requests of several statements; begins empty or with an invited client | a linked account is a CLIENT and its client keeps its email; a link sets one password; a lead becomes one client; a task is completed while DONE; each but for requests that met |
| `hourly` | reminders: 2 instances, 1 approval, 1 lead, stale after 1 tick, an interval of 2, sweeps of up to 1 tick, 1 fault; insights: 2 instances, 2 items, an interval of 2 and a lookback of 1, 1 fault | the sweeps of two mails about an item began an interval apart; one analytics row per interval; what is due is reminded |
| `services` | connections: 2 links, 2 owners, 2 Pages, 2 requests, 3 tokens; channels: 3, 3 messages, 2 requests; tasks: 2 boards, 1 task, 2 updates, 1 comment, 2 pages; catalogue: 2 clients, 2 campaigns, 1 row of each other table, 2 tags, 2 requests | links are redeemed once; Pages are as Meta lists them; the workspace is seeded once and keeps its activity; completions are announced; an item's campaign is of its client, tags are kept, and who is mailed about a report finds it marked as sent |

One item is enough for the properties of `sweeps` and `requests`: they relate the posts,
the results and the attempts of one item, and the code handles the items of a sweep one
after the other, sharing nothing between them but the list. Two targets are the least that
fail in part, two instances the least that compete. Two entities of AutomationRetry meet
only in the list of a tick, so `retries` begins one of them (`OneEntity` in
MCAutomationRetry cuts the rest) and `retry_progress`, where the order of the list
matters, begins three, one more than its batch, so that a row can be left behind. A tick
and a request race one another as two ticks do.

Two of a thing are the least that can be confused with one another (two Pages, two
clients and emails, two links), and two requests the least that race; the third token of
`services` lets both requests bring one to an owner that has one. The services of
MCServices share no row, so each behaviour has a `focus` and leaves the others as they
began; MCHourly and MCClientAccounts do the same for parts that have nothing in common but
the clients. As they share no state, the services may take their rows from the same model
values, and one set of permutations is a symmetry of each. Behaviours with the focus
`pages` begin with an owner connected already (`Settled`), a state that a callback leads
to, and follow at most one link.

Histories such as `disturbed`, `met`, `clouded`, `tangled`, `strayed`, `overtaken`, `cut`
and `lockLost` name the overlaps, stops and losses a property excepts: where the code
reads and writes without a lock, two requests at once do break what it says. Such a property does
not look for that hazard, which is there: it tells that only these break it, and its mutant
that it can fail without them.

Deadlock is checked in the runs of the content modules and in `hourly`, where the clock
never stops. The runs of AutomationRetry come to rest when all is made and nothing failed,
`accounts` and `services` when their requests are used up, so it is not checked there.

Fairness (`FairSpec` of ContentPublishing): weak fairness of the steps of each instance's
sweep. The cron job runs every minute, every await in it ends (the calls to Meta have a 60
s timeout), and Postgres releases the lock of a session that ends. Requests, edits and
decisions are never forced to happen. Crashes are bounded, as an instance that always
crashes publishes nothing. `FairSpec` of AutomationRetry: weak fairness of the ticks of
the cron job, of the calendar insert and of the insert of a FAILED row, all of which end
or fail in the code; calls may fail every time. `EveryFailureIsRetried` has a premise: of
the other entities, fewer keep failing for ever than a tick takes (`FailsNoMore` of the
rest). Without it the row waits for ever, as TLC finds when the premise allows as many
others as the batch holds: their failures leave the newest rows of every tick. In the code
that is five. One tick runs at a time in this run. `RemindersFairness`: time passes, the
hourly cron job of each instance runs when the lock is free, and a sweep that began goes
on. Whether a mail goes out is left open, as is whether anybody deals with an item; faults
are bounded.

### Findings

- `stale_edit`: PATCH writes back the `publishResults` it read; a post saved in between is
  forgotten and made again.
- `gate`: the sweep goes by the approval created last, the documentation by the decision
  made last.
- `retry_twice`: the retry of a Drive folder is called idempotent, and two ticks that
  retry one row make two trees.

## 4. What is proved

`ContentPublishing_proofs` proves, for any sets of items, targets, instances, callers and
any bounds, from the assumptions named in the two modules (the bounds are naturals, an
instance is not a caller, `NoOne` is not an instance):

- `TypeCorrect`: `Spec => []TypeOK`;
- `SweepInvariant`: `Spec => []SweepInv`, and from it
- `SweepsExclude` (`OneSweep`), `RetryCap` (`AbandonedOnce`), `ApprovalGate`
  (`NeverApprovedIsHeldBack`).

`AbandonedOnce` is not inductive: whether a failure is the last is computed from the
attempts the sweep read at its start, while the count is incremented in the row. It holds
because nobody else changes the attempts while the lock is held. `SweepInv` adds just
that: an instance in a sweep holds the lock (`OneSweep`); the attempts of a listed item
are those read (`Listed`); of the item in hand they are those read, and one more once the
failure is counted, with no event yet (`Handled`). The gate needs that an APPROVED
approval, or an item on the filtered list, goes back to an approving decision
(`ApprovedWasDecided`), and that a decision in flight finds its approval
(`DecisionsFindApprovals`).

`PublishOnce_proofs` extends it, for the same constants, with what publishing does to an
item that was not disturbed:

- `PostedAtMostOnce` (`PostedOnce`), `PublishedIsPosted` (`PublishedEverywhere`),
  `ResultsAreEarned` (`SucceededWasPosted`);
- `PublishingIsPromised`: `Spec => PublishesAsPromised`, the refinement of PublishOnce.

A publish call works on its own copy of the results and saves it between two posts, so the
row lags behind Meta. `UndisturbedInv` says by how much: one call at most has the item in
hand (`OneCall`); its copy names exactly the targets posted in the present edition, and
the row the same, or one fewer between a post and its save (`CopyAgrees`); without a call
between the two the row is exact (`RowAgrees`); no later edition has been posted yet
(`NoneAhead`). `ResultsAreEarned` holds of disturbed items as well and has an invariant of
its own (`ClaimedInv`): whoever claims a post, the row, a call or an edit, has the claim
from another or made the post. For the refinement each item is mapped to a row of
PublishOnce (`View`); a step of ContentPublishing changes the view of one item at most,
and there it is a post, a record, a publication, a new edition or nothing.

`AutomationRetry_proofs` proves, for any sets of clients, items, instances, requests and
row ids, and any batch and bounds, from the assumptions of AutomationRetry (clients, items
and retriers are disjoint, the batch is positive):

- `RetryTypeCorrect`: `Spec => []RetryTypeOK`;
- `RetryInvariant`: `Spec => []RetryInv`, and from it
- `NoFailureForgotten` (`NothingForgotten`);
- `NothingMadeTwice` (`MadeOnce`) and `FailuresDoNotMultiply` (`OneFailureEach`).

`NothingForgotten` is not inductive: the FAILED row that keeps an entity may be the very
one a retry that failed is about to mark SUCCEEDED. `RetryInv` asks for a row that nobody
is about to mark (`Kept`). A mark then leaves it alone because ids name one row
(`IdsAreUnique`) and the workers and lists that remember an id remember its entity
(`HoldersAgree`, `QueuesAgree`); a new row is not about to be marked because its id is
new. The proof has one lemma per kind of step; the steps of a worker share one
(`WorkMoves`): whatever ends the work on an entity leaves it done or in progress.

The last two need more, `OnceInv`: what an entity waits for is in one place, in a call in
flight, with the worker of a new client or in one row that no mark is about to take away
(`InOnePlace`), and two retries that hold one row have raced (`Exclusive`). A tree is then
made by one worker, before which there was none and after which it is linked or about to
be (`OneProvisioner`, `OneTree`), and an item that has its reminder has nothing left to
make another (`OneReminder`).

`ClientAccounts_proofs` proves, for any number of users, clients, leads, links, emails and
requests, from the assumptions of ClientAccounts:

- `AccountsAreSound`: the inductive invariant, `AccountsTypeOK /\ AccountsInv`, and from it
- `AccountsAreTyped` (`AccountsTypeOK`), `PortalUsersAreClients` (`LinkedIsClientUser`),
  `TokensAreSpentOnce` (`TokenSpentOnce`), `LeadsAreConvertedOnce` (`ConvertedOnce`),
  `TasksAgree` (`CompletedWhenDone`), `PortalEmailsAreKept` (`LinkedEmailIsKept`).

None of them is inductive: each request checks in one statement and writes in a later one.
`AccountsInv` says of each request what it still knows of the rows it read (`Fits`: the
role of its user, whether its link is spent, the state of its task, the email of its
lead), unless it shares a row with another, and then the row is among the disturbed
(`Noticed`); and of the tables what follows (`LinkIsKept`, `TokenIsKept`, `TaskIsKept`,
`LeadIsKept`).

`MetaConnections_proofs` proves, for any sets of links, owners, Pages, requests and
tokens, from the assumption that `None` is none of these:

- `MetaTypeCorrect`: `MetaSpec => []MetaTypeOK`;
- `LinksImplemented`: `MetaSpec => LinksRedeemedOnce`, the refinement of OneTimeLink, and
  `OneRedeems`, which is proved of OneTimeLink and carried over: no two callbacks redeem
  one link;
- `SyncIsSound`, the inductive invariant of the synchronisations, and from it
  `SynchronisedExactly` (`SyncedExactly`) and `ExpiredTellsTheTruth` (`ExpiredIsLapsed`).

The types are inductive with `RowsInv`: a revocation updates rows that a request listed
earlier, and no operation deletes them (`HandsHold`). The refinement rests on
`UsedIsRedeemed`: a row has its `usedAt` exactly when a callback got past it, so the
UPDATE that finds the row unused finds that nobody has redeemed the link. Each step of the
connections is a step of the links or leaves them as they are; most leave them
(`RequestsAreQuiet`).

`SyncInv` follows a synchronisation through its statements (`InStep`): the authorization
has the token the request read, the Pages it is done with are connected as it wrote them,
those it will revoke are the others of its owner, and it marks EXPIRED only a token that
has lapsed. Two requests at work at once, or a disconnection under one, are in `met`
(`Noticed`), so beside one that is not nobody changes the rows.

`Services_proofs` proves, for any rows and any requests, from the assumptions of
Catalogue, WorkspaceTasks and WorkspaceChannels (the values for no row, for nothing
sent and for a column cleared are none of the rows; channels and requests are finite sets):

- of the catalogue, `CatalogueIsSound` and from it `CampaignsFitTheirItems`
  (`CampaignOfClient`), `MailedReportsAreMarked` (`MailedIsMarked`), `NoTagIsLost`
  (`TagsKept`);
- of the tasks, `TasksAreSound` and from it `CompletionsAreAnnounced` (`AnnouncedExactly`);
- of the channels, `ChannelsAreSound` and from it `ActivityIsNotLost` (`ActivityStays`) and
  `SeedingIsIdempotent` (`SeededExactly`);
- of the services together, `ServicesAreSound` and `ServicesAreTyped` (`ServicesTypeOK`),
  of the specification that MCServices checks, begun afresh or from `Settled`.

In the catalogue a new item, or an edit, in flight still agrees with the campaign it was
checked against (`EditFits`), unless the item has strayed; the tags about to be written
include those of the asset (`TagsInv`); and a request about to mail has marked its report
(`SendsHold`). Of the tasks, an update remembers the status it read (`StatusSeen`); two
updates of a task tangle it (`OneAtATime`). `AnnouncedExactly` counts requests, so its
proof adds and removes one element of a finite set at each step (`CompletingChanges`), and
the bounds of the type invariant follow from the requests that are left (`InBounds`). Of
the channels, the row in hand of a post is of type SYSTEM, which no deletion takes
(`Holds`); a seeding request that nobody overlapped has the default channels in hand
(`Seeding`), and until a request was disturbed no channel is welcomed twice. That
`uniqueSlug` finds a suffix is the pigeonhole principle: there is one suffix more than
there are channels (`SlugIsFree`).

`ContentItems_proofs` proves, for any items, targets, requests and bounds:

- `ItemsTypeCorrect`: `ItemsSpec => []ItemsTypeOK`, together with
  `DecisionsFindApprovals`;
- `StatusSpeaksTrue` (`StatusAgreesWithApprovals`);
- `RevisionsAreCounted` (`RevisionCountIsExact`).

The count of revisions is read with the approval and written by a later statement. It is
exact because a decision in flight still has the count it should (`CountsInHand`): the
approval it read is as it was and no other decision has it in hand, or else the two raced,
which the property excepts. ContentPublishing_proofs extends this module: a request of the
content module is a step of ContentPublishing.

`Hourly_proofs` proves of the reminders, for any instances, approvals, leads, times and
number of faults:

- `RemindersTypeCorrect`: `RemindersSpec => []RemindersTypeOK`;
- `RemindedOnceInAnInterval`: `RemindersSpec => RemindedOnce`.

A row is marked with the time its sweep began, which is before the mail by what the sweep
had taken (`MailedBefore`), so outside of a sweep the mark of an item is no older than the
sweep of the last mail about it (`MarkedAfterMail`), and what a sweep finds due was mailed
by one that began an interval before (`DueIsOld`). A sweep that lost its lock goes on
beside the one that took it: whatever it has in hand, or finds due, is excepted, because
anything else was marked since by a sweep that began later (`StrayedIsBehind`,
`HolderIsLatest`).

It proves of the ingestion, for any instances, items, interval, lookback and number of
faults, from the assumptions of InsightsIngestion:

- `InsightsTypeCorrect`: `InsightsSpec => []InsightsTypeOK`, which includes that whoever is
  in an ingestion holds the lock, while none was lost;
- `OnceInAnInterval`: `InsightsSpec => IngestedOnce`.

`IngestedOnce` needs that the newest row of an item is no older than the last one a sweep
added (`NewestIsNewest`), and that what a sweep has still to fetch was last ingested an
interval ago (`LeftIsStale`). The list is read once, and stays right because the lock
keeps the sweeps of others out and time only makes rows older.

`HourlyAreTyped` proves `HourlyTypeOK` of the two sweeps together, in the specification
that MCHourly checks.

## 5. What is only model-checked

- Liveness (`EligibleIsDealtWith`, `EveryFailureIsRetried`, `DueIsReminded`): the proof
  system does not reason about fairness and ENABLED. Every invariant and every action
  property of the passing runs, and both refinements, are proved.
- Whatever needs induction over data, and every RECURSIVE operator, stays with TLC; the
  modules declare none.

## 6. What makes each part correct, and what is not modelled

| Part | Correct means | Modelled |
|---|---|---|
| content, publishing | one post per target and edition; PUBLISHED only when posted everywhere; results truthful; an item names a campaign of its client | yes, but for the normalisation of platform names and the listing of items |
| content publisher | one sweep at a time; failures counted exactly; given up once, at the cap; approved items only; every eligible item dealt with | yes |
| approvals, portal | the item's status speaks of an approval it has; revisions counted once each | yes, but for comments, which are only inserted |
| automation, drive, calendar | nothing forgotten; made once; failures do not multiply; every failure retried | yes, but for browsing and uploading, which keep no state |
| leads, onboarding | a lead becomes one client; `completedAt` is set exactly while a task is DONE | yes, but for the score of a lead and the summary of a checklist: pure functions of the rows |
| clients, users, auth | a portal user is a CLIENT and serves one client, whose email stays; a password link is used once | yes, but for logging in, which reads only, and the columns nothing here depends on |
| social connections | a link is redeemed once; after a synchronisation the connections are those of the Pages it read; EXPIRED means expired | yes |
| reminders, insights | sweeps that remind of an item begin an interval apart, metrics are ingested once per interval; whatever is due is reminded | yes; not the metrics themselves |
| workspace | one default channel of a kind; one welcome message; activity is not lost; a completed task is announced once | channels, messages, boards, tasks, comments and pages; not who may see a channel, nor the updates that rename a channel, board or page |
| reports, assets, campaigns, pillars, templates | a client mailed about a report finds it marked as sent, and its own; tags are not lost | yes |
| feature access, organisations, settings, audit, page visits | one statement per request on one row | no: nothing relates two states |
| operations, analytics summaries, best time, health score | read-only | no: sums over rows, without state |
| ai, notifications | calls to a language model or a mail server, and a log | only whether a mail goes out, where its caller is modelled |
| common, config, schema, scripts, migrations | bootstrapping, formatting, operators' tools | no; the models take their rows and unique columns from the schema |

## 7. Plan

What is left, in this order:

1. A theorem about PublishOnce itself that the refinement carries over, as `OneRedeems`.
2. The hazards of PROJECT.json that no property covers: an item given up stays given up
   when it is scheduled again; a process that stops between the last attempt and its
   event; a folder set by hand while the folders are provisioned; a mail that fails
   without its caller knowing.
3. Who may see a channel of the workspace: its members, the clients and the roles.
