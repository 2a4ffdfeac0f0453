# SilentBeat in TLA+

SilentBeat is a dead man's switch: the owner of a switch checks in with a PIN
before a deadline, and when no check-in comes the encrypted message is released
to the recipient. The program is a Cloudflare Worker (`worker/src`), a static
web client (`web`), SQL migrations, and a design canvas (`design/project`) in
which the screens are laid out. This directory models their logic in TLA+,
checks it with TLC on small instances, and proves most of what TLC checks with
TLAPS for every instance.

## 1. The system

### Components, their state and their operations

| Component | State it keeps | Operations | Where |
|---|---|---|---|
| Switch API | D1 rows `users`, `switches`, `recipients`; R2 ciphertexts | create (direct or by invitation), check-in (defuse or duress PIN), finalize, delete, legacy enroll, delete account | `routes/switches.ts`, `checkins.ts`, `recipients.ts`, `account.ts` |
| SwitchTimer, one Durable Object per switch | `switchId`, `expiryAt`, an alarm | `/arm`, `/checkin`, `/cancel`, `/release`, `alarm()`, `release()` | `do/SwitchTimer.ts` |
| Cron sweeper | a heartbeat key in KV | every 5 minutes: select up to 100 overdue armed rows, call `/release` for each | `cron.ts`, `wrangler.toml` |
| Audit log | D1 `audit_log`, a hash chain | append, through the singleton AuditLogger object; read a page; signed root | `do/AuditLogger.ts`, `lib/auditlog.ts`, `routes/log.ts` |
| Plans | `users.plan`, `current_period_end` | effective plan, limits, count of active switches | `lib/plans.ts` |
| Release download | KV token, R2 ciphertext | fetch once with the token | `routes/release.ts`, `web/decrypt.html` |
| Contacts | D1 `account_recipients`, KV challenge | invite, re-invite, enroll begin and finish, decrypt bundle, delete | `routes/account_recipients.ts`, `recipient_enroll.ts`, `web/enroll-account.html` |
| Authentication | D1 `magic_tokens`, `passkey_credentials`; KV sessions and challenges; `localStorage` | magic link, passkey sign-up, sign-in and removal, sign-out | `routes/auth.ts`, `middleware.ts`, `lib/session.ts`, the signed-in pages |
| PIN limiter | KV list of failure times | locked?, record, clear | `lib/ratelimit.ts` |
| Status page | KV heartbeat, log; the panels shown | classify ages, poll, draw incidents | `routes/status.ts`, `web/status.js` |
| Cryptography | none | split and combine keys, encrypt, wrap, hash PINs, choose their slots | `web/app.js`, `lib/crypto.ts` |
| Design canvas | sections, order, deletions, a sidecar file | rename, delete, drag, focus, load, save | `design-canvas.jsx` |
| Viewport and tweaks panel | transform in `localStorage`, open or closed, position | zoom, pan, drag, messages with the host | `design-canvas.jsx`, `tweaks-panel.jsx` |

### How they interact

Nothing in the worker holds a transaction across two stores. A handler reads a
row, awaits PIN hashes, R2, another batch, an RPC to the switch's SwitchTimer
and an append to the log, and at every await any other handler, alarm or cron
pass may run. `release()` itself awaits D1, KV, the mail provider and the log.
A D1 batch is atomic; a SwitchTimer `/arm`, `/checkin` or `/cancel` is atomic
because input gates close while the object waits for its own storage; a
`release()` is not, because it waits for D1.

Handlers catch a failed SwitchTimer RPC and go on; most other failures end the
handler where it is. A thrown `alarm()` is called again by the runtime, a
failed `/release` is dropped by the cron.

The pages hold what the server must not know: the key of a message until it is
split, and a contact's private key while it is wrapped or used. They reach the
server by calls that may be refused or lost, and several pages of one person may
be open at once. The design canvas speaks with the host that shows it by
`postMessage`, in order each way, and keeps its edits in a file that it reads
and writes with a delay.

### What is hard

Interleavings of check-in, purge, finalize, account deletion, alarm and cron on
one switch; a stale alarm; lost RPCs; a handler that dies half-way between two
stores; the alarm and the cron running one release twice; a row that is tested
in one statement and written in another; a token that is looked up in one call
and deleted in another; the log under concurrent appends and reads; a slow read
that comes after an edit; two ends that switch the same thing. `PROJECT.json`
lists each hazard at its line with the properties that would catch it.

### What makes each component correct

* Switch API and SwitchTimer: no release before the promised deadline; at most
  one; an armed switch always ends, whatever alarm is lost; a purge leaves no
  ciphertext; nothing that has ended comes back.
* Cron: no overdue switch starves, whatever rows the SELECT picks; its heartbeat
  is never fresher than its work.
* Audit log: a linear chain, an answered append is in it, a mirror can be made
  while it grows, a signed checkpoint stays true.
* Contacts and download: the envelope of a switch opens with the bundle its
  contact is given; an enrolled key is final; a link that was mailed leads to
  the message until somebody has it; the token is a one-time ticket.
* Authentication: no credential outlives its account, no session is forgotten
  but by a lost call, an ended session sends nobody in circles, a link is a one-time ticket.
* Limiter: a lock is earned, it ends, and guesses in sequence are limited.
* Pages: what is computed from an answer agrees with it.
* Design canvas: every artboard once, nothing saved is overwritten unread, what
  was deleted stays deleted; page and host agree when messages have arrived.

## 2. Modules

| Module | What it is |
|---|---|
| `DeadMansSwitch` | The abstract promise: phases, a pledged deadline, who is owed an email. No stores, handlers or failures. |
| `SwitchLifecycle` | The Switch API, SwitchTimer and cron over D1, R2, KV and the alarms, one action per awaited call, with failures. |
| `SwitchPromises` | Properties of `SwitchLifecycle` and the refinement mapping to `DeadMansSwitch`. |
| `PublicLog` | The abstract promise of the log: an append is one step, or none. |
| `AuditLog` | The AuditLogger's critical section, its callers and a paging reader; the refinement mapping to `PublicLog`. |
| `Displays` | Pure functions of the pages: ages, countdowns, incident bars, the RECENT list, the panel's controls. |
| `StatusPage` | Extends `AuditLog`: heartbeat, status answer, polling page, signed checkpoint. |
| `OneTimeTicket` | The abstract ticket: issued, accepted, spent, served; what follows of it. |
| `Envelope` | The cryptography as terms, the split of the key bit by bit, the PIN slots. |
| `Contacts` | Extends `Envelope`: the owner's calls about contacts and the contacts' enrollment pages. |
| `Delivery` | Extends `Contacts`: deletion of a contact, a switch for a contact from creation to download. |
| `PinLimiter` | The sliding window of wrong PINs and the check-ins around it. |
| `SignIn` | Links, passkeys, sessions, account deletion, and the browsers that hold the sessions. |
| `DesignCanvas` | Sections, edits, sidecar file, drag, focus. |
| `CanvasHost` | Viewport, tweaks panel and host, with both message queues. |
| `Lists` | `Keep`, JavaScript's `filter`, which `PinLimiter` and `DesignCanvas` use. |
| `ListsProofs` | Induction over the numbers, the existence of what a recursion over a list defines, what `Keep` returns. |
| `SwitchProofs` | `SwitchLifecycle`: types; no release before the deadline; at most one; it implements `DeadMansSwitch`; what the stores, the log and the alarms say of each other. |
| `StatusPageProofs` | The chain and its atomic appends, its mirrors, the status page and the checkpoints; all of `Displays`. |
| `DeliveryProofs` | Keys and their halves, envelopes, PINs and downloads; the download token implements `OneTimeTicket`. |
| `SignInProofs` | Accounts, sessions and links; the magic link implements `OneTimeTicket`. |
| `CanvasHostProofs` | Page and host agree when their messages have arrived; a page lands where it was left. |
| `DesignCanvasProofs` | Each artboard once, whatever the order; the sidecar file against edits, slow reads and reloads; what is deleted stays so. |
| `PinLimiterProofs` | A lock is earned, and guesses in sequence are limited. |
| `MCSwitchLifecycle`, `MCAuditLog`, `MCDelivery`, `MCPinLimiter`, `MCSignIn`, `MCDesignCanvas`, `MCCanvasHost` | The above for TLC: symmetry and constants. |

Actions are named for handler and call, in the order of the code, and an
operator whose comment says "With a bug" is a plausible slip that the
properties are tried against; no specification uses it.

### SwitchLifecycle and the code

* **Stores.** `account`, `status`, `expiry`, `recip` and `envelope` are the D1
  rows; `payload` is R2; `token` is KV; `bound` and `alarm` are the storage of
  the SwitchTimer objects; `log` is the public log seen as one sequence per
  switch; `mailed`, `warned`, `invited` are the emails sent. `envelope` is a
  row's encrypted share B, wherever it is stored.
* **Processes.** `make[s]` is the `POST /api/switches` that creates `s`;
  `req[r]` any other API call, with the ids, deadline and rows it carries in
  its local variables; `run[e]` a `release()` in flight, run by the object's
  alarm (`e` a switch) or by a cron pass (`e` a sweeper), with the row it read;
  `todo[w]` the rows a cron pass has yet to call.
* **Actions**: `CheckinRead`, `VerifyDefuse`, `DefuseCommit`, `DefuseExtend`,
  `DefuseLog`, and so on. `VerifyDefuse` and `VerifyDuress` are the two good
  outcomes of the PIN check; a wrong PIN changes nothing this model keeps.
* **Failures.** `FailCreate`, `FailReq`, `FailRun`, `FailSweep` end a process
  before its next call, because a call threw or the isolate died. `LostCall` is
  a SwitchTimer RPC that fails and is caught. A failed alarm is set again, or
  given up (`gaveUp`). Each costs one of `MaxFaults`.
* **Time** is one clock; `Timer` is `timer_seconds`.
* **History.** `pledged[s]` is the deadline that the last arming or check-in
  promised. A check-in that commits while a `release()` has already read the
  row promises nothing (0): see the finding `ReleaseHonoursExpiry`.
* Both deletions of a row by the account's `ON DELETE CASCADE` and the foreign
  keys that make a late INSERT fail are in `CloseDrop`, `CreateRefused`,
  `DefuseCommit` and `DuressRow`.

### AuditLog, StatusPage and the code

`Enter` is the start of `blockConcurrencyWhile`, where `Date.now()` is read;
`SelectLast` and `Insert` are its two D1 statements; `Abort` is a failure
before the INSERT, and `Insert` may lose its reply. Hashes are tuples of what is
hashed, so they are equal exactly when their inputs are. `ReadPage` is
`GET /api/log?limit=&before=`, used as a mirror would. A handler that appends sees
`PublicLog`: its entry appears in one step, dated between the entry before and
now, or never does, and an answer may be lost. `Published` and `Asking` are
what `AuditLog` is mapped to. This is why `SwitchLifecycle` has an append as one
step, `Write`, which may fail before or after it has written.

`SweepBegin` and `SweepEnd` are the start of a cron pass and its heartbeat;
`Asked`, `ReadAudit`, `ReadBeat`, `ReadDispatch` the four steps of
`GET /api/status/pipeline`, and `Shown` the page that draws its answer or fails;
`RootRead` and `RootSign` the two steps of `GET /api/log/root`. The log grows
between any two of them.

### Contacts, Delivery and the code

`row` is D1 `account_recipients`, `chal` the KV challenge, `mailed` the invite
tokens a contact has. A page (`tab`) goes through `BeginRead`, `SaltWrite`,
`ChalPut`, `FinRead`, `FinVerify`, `FinUpdate`, `FinCleanup`; an owner's call
(`call`) through `Invite` and `Mail`, `ReinviteRead`, `Reissue` and `Mail`, or
`DeleteCount` and `Delete`. The salt, credential and key pair of a page are
named by the page. `Delivery` adds a switch from `FetchKey` (the owner's page
encrypts share B) to `InsertSwitch`, its release (`ReleaseUpdate`, `PutToken`,
`MailLink`) or purge, and a reading page: `Unlock` (bundle, PRF, private key, share B), `ReadToken`, `ReadBlob`,
`SpendToken` and the `Body` on its way. `overlap` is history: contacts with two
begins or two finishes in flight at once, which the code lets replace each
other's salt or key; the properties about keys say nothing of those.

When a switch is released is `SwitchLifecycle`'s matter. From the UPDATE on
`Delivery` has the calls of the release as well, because what a link leads to
depends on them: the run may throw, or die, before and after each, and is not
made again, so that a released switch may be without a token or a link for good.
Both modules have the rows of a switch, and agree on what leaves them: a purge
removes the ciphertext first and the status later, a release needs `armed`. The
ciphertext that a duress PIN or the deletion of the account removes is not in
`Delivery`; a DELETE, which is, removes it in the same way.

### PinLimiter and the code

`fails` is the KV list, with ages in place of times so that the clock is not
bounded. `TestLock` is `pinIsLocked`, `RightPin` and `WrongPin` the two hash
checks, `ClearFailures`, `RecordRead` and `RecordWrite` the KV calls. `wrong`
and `guessed` are history: the failures within the window as they happened.

### SignIn and the code

One address; an account that is deleted and made again is a new `users` row with
a number of its own, so that what is left of the old one can be told. A browser
is at a page, idle or at a step of a call: `RequestLink`, `NewUser`, `NewLink`;
`ConsumeRead`, `ConsumeMark`, `OpenSession`; `SignOut`, `DeleteAccount`,
`DeleteUser`, `EndSession`; `RegisterBegin` to `RegisterClean`; `Authenticate`,
`AuthBump`, `OpenSession`. `LoadSignin`, `LoadDashboard` and `LoadSettings` are
the pages with their redirects. Only a 401 (or, in the settings, an answer without
a user) makes a page leave: when the load of the dashboard or of the settings
fails in any other way, the page stays, and is `unloaded`, with the session it
has, which the person may use, leave or reload from there. `EndSession` may end
the session and lose its answer; then the browser keeps what it held. `stray` is history: sessions that another
sign-in of the browser replaced, or whose answer or sign-out was lost.

### DesignCanvas, CanvasHost and the code

`DesignCanvas` has `state.sections`, `state.focus`, the sidecar file and what of
the page decides on them: whether the read has settled, the 250 ms write timer,
the menu, the drag, the drops in their 180 ms. `source` is the revision of the
page's source and may be another after a reload, so that a saved order may name
artboards that are gone. `SlotIds` is the order shown.

`CanvasHost` has the transform (a scale in steps, a pan), the gesture, the drag
and the panel. `up` and `down` are the messages in flight. The host is external
and does what the comments of the two files say of it: it shows `% zoom` and a
toggle, probes the page at the `load` event, opens a panel that announces
itself, and echoes a dismissal. `Reload` is a page that can flush
(`pagehide`), `Kill` one that cannot.

## 3. What TLC checks

| Run | Instance | Shows |
|---|---|---|
| `release` | 1 switch, 2 API calls, its alarm, 1 cron pass | `TypeOK`, `CheckinHonoured`, `AtMostOneRelease` |
| `finalize` | 1 switch, 3 API calls, its alarm | `NoResurrection` and `KeepsPromise` (refinement of `DeadMansSwitch`): enrollment, finalize and a purge need three calls to meet |
| `purge` | 1 switch, 2 API calls, its alarm, 1 fault | `PurgedPayloadGone`, `DuressNoticeTrue`, `ArmedCanDeliver`, `LogCausality`, `TimerCovers` |
| `liveness` | 1 switch, 1 API call, 1 cron pass, 1 fault | `ArmedEnds` when an alarm, an RPC or a run is lost; `ReleaseCompletes` while nothing has failed |
| `backlog` | 2 switches, 1 cron pass, LIMIT 1, 1 fault | `ArmedEnds` with more overdue rows than the LIMIT |
| `audit` | 2 appends, pages of 1, 1 cron pass, 1 poll or checkpoint | `ChainLinear`, `MirrorUnbroken`, `AppendsAreAtomic` (refinement of `PublicLog`); `SweeperTold`, `PanelsAgree`, `CheckpointHolds`; `DisplaysTrue`, over bounded inputs |
| `delivery` | 1 contact, 2 enrollment pages, 2 owner's calls, 2 invitations, 1 switch, 2 reading pages, 1 lost body | `EnvelopeOpens`, `KeyFinal`, `MessageReachable`, `DownloadIsTicket` (refinement of `OneTimeTicket`); `PinsDistinguished`, over all PINs and flips |
| `pin` | 2 check-ins in flight, window 2, threshold 3 | `LockIsEarned`, `GuessesLimited`, `LockoutEnds` |
| `access` | 2 browsers, 2 links, 2 sessions, 1 passkey, 2 accounts in turn | `NoOrphans`, `SessionsAccounted`, `EndedSessionLeaves`, `LinkIsTicket` (refinement of `OneTimeTicket`) |
| `canvas` | 3 sections, 2 revisions of the source, 2 edits, 2 loads | `SlotsExact`, `ShownIsSaved`, `SavedKept`, `DeletedStays` |
| `host` | 2 pans, 2 pointers, 2 window widths, 2 ranges of zoom, 2 loads | `ToolbarInSync`, `PanelInStep`, `PanelVisible`, `Landed` |
| `stale_read` | 1 switch, 1 API call, its alarm | A violation: see below |

The type invariant of `SwitchLifecycle` is in the run `release`; those of the
other modules hold on the same instances. All are proved.

**Bounds.** `Timer = 1` and `MaxTime = 2` give a creation and a check-in each
its own deadline, and time after both, so that an alarm can be early, on time or
late. One switch is enough where a property is about one: switches share
only the plan's limit, the cron's LIMIT and the account, and `backlog` has two.
One fault is enough to reach every half-done state, and keeps the runs within
minutes. A request slot serves one call, so two slots are two calls that race or
follow each other. Two appends are one race for the critical section, with the
second one's `prev_hash` at stake, and a mirror that meets a new entry between
its pages; a third changes the size of the log only. `MaxVisits` gives a
behaviour a poll or a checkpoint, as the two do not touch each other. Two pages
of a contact and two readers are the least that race; two invitations are the
least that make a token stale; two calls of the owner the least in which an
invitation and its re-invitation, or a delete, meet. A key has two bits, so that
a share differs from the key and from the other share. A window of two steps has
an age that is new, one that still counts and one that does not; the threshold is
larger than the number of clients, so that a lock takes requests in sequence as
well as at once. Two accounts in turn are what a leftover of a deleted
account needs to be told from the new one. A deletion that withdraws two good
links at once would need a third link, which is beyond the time of a run with
two browsers; the proof of `LinksAreTickets` covers it. Two edits are an edit and one that
overwrites it or is lost before it; two loads are what is left and what is found.
In `host` a behaviour has either two inputs to the canvas, one to each of canvas and panel, or
five to the panel (`Budgets`): to open it, grab it, close it under the mouse,
move it and open it again takes five.

Without `CHECK_DEADLOCK FALSE` TLC would report the end of the bounded time,
and of the request slots, inputs and edits.

**Fairness.** `FairSpec` (`SwitchLifecycle`) is weak fairness of the clock, of
the cron's steps and of the steps of a `release()` that has begun. The cron
trigger comes round every five minutes (`wrangler.toml:42-43`) and a call that
is awaited is answered or fails. Nothing is assumed of alarms, of the owner or
of API requests: the liveness properties hold although an alarm may never fire.
`LiveSpec` of `PinLimiter` is weak fairness of the clock alone: a lockout ends
whatever the clients go on sending. `LiveSpec` of `SignIn` is weak fairness, for
each browser, of a page that has begun to load making its call and acting on the
answer, or on its failure: a `fetch` ends in one of them. Nothing is assumed of the
person, nor that a call succeeds: `EndedSessionLeaves` says that the session is
forgotten or the page stays where its call failed, and that no redirects go round. The other specifications are about
safety and have none.

### Disagreements with the documentation

The run `stale_read` has one property, `ReleaseHonoursExpiry`, which states what
a comment of `SwitchTimer.ts` says, and TLC violates it: a check-in committed
between `release()`'s SELECT and its UPDATE is answered "defused" and the
message is released all the same.

These others are in the models' reachable states, and no property of a run:

* A check-in that started on an armed switch answers "defused" although the
  switch was released or purged meanwhile: the batch of `checkins.ts:128-135`
  does not test the status again.
* The deadline is counted from the creation (`switches.ts:101`); a finalize that
  comes after it arms a switch that is already overdue (`switches.ts:281`), and
  the next alarm or cron pass releases it.
* Two creations in flight exceed the plan's limit (`switches.ts:65`), which
  `plans.ts:1-3` calls the place of its enforcement.
* A run that dies or throws after the UPDATE of `SwitchTimer.ts:107` leaves a
  released switch that no later run looks at again: without a log entry, although
  the comment above the UPDATE has the log written at that point, and, if it was
  before the `put` of line 122 or the email, without a token or a link.
  `ReleaseCompletes` speaks of releases of which no call fails, and
  `MessageReachable` of switches whose link was mailed.
* A comment of `tweaks-panel.jsx:184-185` has the host's echo hide the panel;
  `dismiss()` has hidden it already (line 247). `PanelInStep` holds either way.
* A creation that races the account's deletion leaves its ciphertext in R2
  (`account.ts:22` reads the switches once). A creation for a contact that is
  deleted meanwhile does the same (`Delivery.InsertSwitch`).
* Two `enroll/begin` calls in flight both find no salt, and the second replaces
  the one the first has answered, which "must remain stable"
  (`recipient_enroll.ts:57-64`); two finishes may replace each other's key
  (`recipient_enroll.ts:177`). `KeyFinal` and `EnvelopeOpens` except them, through
  `overlap`.
* The answer "destroy or re-target the switches first"
  (`account_recipients.ts:142`) does not lead to a deletion: the row of a
  destroyed switch keeps its `account_recipient_id`, and the foreign key of
  `0007_account_recipients.sql:47` refuses the DELETE (`Delivery.Delete`).
* "Subsequent requests get 404" (`release.ts:23-25`) and "token already used"
  (`auth.ts:65`) hold for requests that come after the token was spent. Two
  that are in flight before are both served; `OneTimeTicket` says so.
* `settings.html:125` says that sessions go with the account; `account.ts:45`
  ends the caller's. The others stay in KV until they expire, for a user that is
  no more; `EndedSessionLeaves` and `NoOrphans` show what the pages make of it.
* The RECENT panel of a switch has a row "switch armed" from
  `recipients.test_fire_confirmed_at` (`switches.ts:237`, `247`), which nothing in
  `worker/src` writes: the row is never shown.
* A sign-out that fails is swallowed (`settings.html:307`): the page forgets a
  session that lives on. `SessionsAccounted` excepts it, through `stray`.

## 4. What TLAPS proves

Every theorem is for any sets of switches, requests, pages and so on and any
bounds, from the assumptions that the modules name. These are: the sets that
stand for different things are disjoint, and `None` is none of the values it
stands beside (`Delivery.ValueAssumption`: no slot number, no share of a key);
bounds and times are numbers; a page is loaded at least once; a canvas can be
panned (`CanvasHost.PanAssumption`) and has a section, each once
(`DesignCanvas.SectionsAssumption`); a source lists the artboards of a section,
each once (`SourcesAssumption`). TLC evaluates each on the instances of the runs.

| Theorem | States |
|---|---|
| **`SwitchProofs`** | |
| `TypeCorrect` | `Spec => [](TypeOK /\ ReqOK /\ RunOK)`: the types, and that what works on a switch names one of the account |
| `NeverBeforeDeadline` | `Spec => []CheckinHonoured` |
| `ReleasedAtMostOnce` | `Spec => []AtMostOneRelease` |
| `ImplementsDeadMansSwitch` | `Spec => KeepsPromise` |
| `NeverComesBack` | `Spec => NoResurrection` |
| `PurgeErases` | `Spec => []PurgedPayloadGone` |
| `NoticeIsTrue` | `Spec => []DuressNoticeTrue` |
| `ArmedDelivers` | `Spec => []ArmedCanDeliver` |
| `CausesFirst` | `Spec => []LogCausality` |
| `TimerAlwaysCovers` | `Spec => []TimerCovers` |
| **`StatusPageProofs`** | |
| `LogTypes`, `ChainIsLinear`, `AnswersAreLogged`, `TimesNeverGoBack` | `StatusSpec =>` `[]TypeOK`, `[]ChainLinear`, `[]AnsweredIsLogged`, `[]TimesOrdered` |
| `AppendsAreOneStep` | `StatusSpec => AppendsAreAtomic` |
| `EntriesAreAuthored` | `StatusSpec => []Public!Authored`: every entry is of one call, no call has two |
| `MirrorsAreUnbroken` | `StatusSpec => []MirrorUnbroken` |
| `SweeperIsTold`, `PanelsAlwaysAgree`, `CheckpointsHold` | `StatusSpec =>` `[]SweeperTold`, `[]PanelsAgree`, `[]CheckpointHolds` |
| `AllTimesShown`, `AllScrubsHold`, `AllTracksHold` | `TimeShown`, `ScrubHolds`, `TrackHolds` of every number |
| `AllBarsHold` | `BarsShow` of every list of incidents and every set of days |
| `AllActivityShown` | `ActivityShown` of any events and check-ins, with times shared or not |
| `DisplaysAreTrue` | `StatusSpec => []DisplaysTrue`, from these |
| **`DeliveryProofs`** | |
| `TypeCorrect` | `Spec => []TypeOK` |
| `KeysAreFinal` | `Spec => KeyFinal` |
| `EnvelopesOpen`, `MessagesReachable`, `PinsAreTold` | `Spec =>` `[]EnvelopeOpens`, `[]MessageReachable`, `[]PinsDistinguished` |
| `HalvesTellNothing` | Either half of a split key fits every key, by exactly one other half |
| `DownloadsAreTickets` | `Spec => DownloadIsTicket` |
| `SpentTokensAdmitNobody` | `Spec => []Ticket!ServedWhenSpent /\ Ticket!SpentForGood` |
| **`SignInProofs`** | |
| `TypeCorrect`, `NothingOrphaned`, `AllSessionsAccounted` | `Spec =>` `[]TypeOK`, `[]NoOrphans`, `[]SessionsAccounted` |
| `LinksAreTickets` | `Spec => LinkIsTicket` |
| `SpentLinksAdmitNobody` | `Spec => []Ticket!ServedWhenSpent /\ Ticket!SpentForGood` |
| **`CanvasHostProofs`** | |
| `TypeCorrect`, `ToolbarAlwaysRight`, `PanelAlwaysInStep`, `PanelAlwaysVisible` | `CanvasSpec =>` `[]TypeOK`, `[]ToolbarInSync`, `[]PanelInStep`, `[]PanelVisible` |
| `PagesLand` | `CanvasSpec => Landed` |
| **`PinLimiterProofs`** | |
| `TypesHold` | `Spec => []TypeOK` |
| `LocksAreEarned`, `GuessesAreLimited` | `Spec =>` `[]LockIsEarned`, `[]GuessesLimited` |
| **`DesignCanvasProofs`** | |
| `TypeCorrect`, `SlotsAreExact` | `Spec =>` `[]TypeOK`, `[]SlotsExact` |
| `ShownAlwaysSaved` | `Spec => []ShownIsSaved` |
| `ArrowsStayShown` | `Spec =>` every `Arrow` and `ArrowSection` step leads from an artboard that is shown to one that is |
| `SavedIsKept`, `DeletedNeverReturns` | `Spec => SavedKept`, `Spec => DeletedStays` |

### The inductive invariants

**A release** (`SwitchProofs.IInv`). `TypeInv` adds to the types that a
request or run at work on a switch names one. `RowsInv`: there is no row before
its INSERT, so no alarm, cron or request can know of the switch. `DeadlineInv`:
an armed row's deadline is at least the pledged one; so is the deadline that a
run has read and not yet acted on, whose switch cannot be pending any more; a
run at its UPDATE has found that deadline past. This is why `CheckinHonoured`
survives the gap between SELECT and UPDATE. `OnceInv`: a switch that may still
be released has no email, no release entry and no run past its UPDATE; two runs
past their UPDATE have different switches; such a run has written no release
entry yet, and before its email none was sent. Together they make the
conditional UPDATE the only gate that is needed. The refinement (an abstract
`Release` needs `pledge <= clock`, an abstract `Deliver` that nobody else owes
the email) and `NoResurrection` follow from `IInv` as well.

**The stores** (`SwitchProofs`). `BornInv`: nobody holds, was told of or is
at work on a switch before its row. `PayloadInv`: a ciphertext is stored before
the row and leaves only by the hand of a purge, so that a purged row has none.
`EnvelopeInv`: a pending row has a recipient and an armed one its share B.
`LogInv`: whoever may write, or lead to, an armed or enrolled entry comes after
the created one. `TimerInv`: an armed switch whose object knows its id has an
alarm, or its own run on its way to set one; it needs to be known that a run
past its UPDATE works on a switch that is armed no more, as such a run will
drop the alarm.

**The log** (`StatusPageProofs`). `GateInv`: the one append that is inside has
the latest time, and what it has read of the last row is still so. The chain and
the answers follow. `MirrorInv`: a mirror holds the rows from its newest one
down to the one it asks before. `SweepInv`: whatever heartbeat is stored, on its
way or read is the start of a pass that is done, or none. `PollInv` and `RootInv`:
what a reader of the log has is true of rows that are there, which the log's
growth cannot change. `GateInv` also makes `Insert` the step in which an append
takes place: nobody else has been inside since its time was taken, so the
time is still between the last entry's and now. `Authored` is inductive over the
steps of `PublicLog`, and so over all of `StatusSpec`.

**What the pages show** (`StatusPageProofs`). A sort is known by its ranks: the rank
of an event is how many are newer, events of one time being told apart by the
order in which they were pushed, so that ranks are distinct numbers below the
number of events, and each is somebody's. The panel sorts twice,
check-ins first, and what the first sort drops has five newer check-ins.

**Contacts and downloads** (`DeliveryProofs`). `BundleOK`: the bundle of an
enrolled contact is of one page throughout (salt, credential, wrapped key),
unless two of its pages overlapped. `PageOK`: what a page that has not finished
knows of its contact, from the salt it was answered to the row it read.
`SwitchOK`: an envelope is sealed for the key the contact has, from the time the
owner's page fetched it. That a contact cannot be deleted under its
switch (the foreign key) and cannot be enrolled again carries it to the end.
`TokenInv`: a switch with a token, a link or an expired token has a run that has
put the token; one that is about to mail the link has stored its token and mailed
none; a reader has been mailed its link; a switch whose page has stored its
ciphertext has it, or was purged. So a link that is mailed leads to both, wherever
the run stops. That `CombineShares` undoes `SplitKey` is proved for keys of
any length, and `PinsMean` for any PINs. `HalvesTellNothing` says that neither share
tells anything of the key: the other one that makes it is a function of both.

**Sign-in** (`SignInProofs`). `ActsInv`: a browser in the middle of a call holds
what the call needs of links, keys and accounts. `RowsOwned`: a good link and a
passkey are of an account that has been. `NoOrphans` and `SessionsAccounted` are
inductive with them.

**Tickets.** That nothing is served before its ticket is spent, and that a spent one
admits nobody new, holds of every step of `OneTimeTicket` from a state in which
the first does; the mappings carry both to tokens and links.

**Page and host** (`CanvasHostProofs`). Neither agreement holds while messages
are in flight, so the invariants speak of what the queues will leave behind.
`ToolbarInv`: the host will be shown the scale by the last zoom in the queue, or
shows it already, or a probe is on its way that will be answered. `PanelInv`: the
last toggle on its way down agrees with the host, and panel and host agree when
none is on its way, unless a dismissal or the announcement of the panel is
on its way up. `KeptInv`: what must be kept is stored, unless the timer is to
write it.

**The limiter** (`PinLimiterProofs`). A list of failures is ordered by age, so
that what the filter leaves of it is its end, and it can be read from there:
`Age(l, k)` is the age of its `k`-th newest, or the window if it has no more.
`EarnedInv`: whatever list is stored, or carried by a request, has for each of
its failures one found wrong that is no older. Two requests that write one after
the other's read lose a failure, and never make one. `LimitInv`, about guesses,
is for requests that come one at a time: the list that is stored has each guess
that counts, but for the one whose request has yet to write it.

**The sidecar file** (`DesignCanvasProofs`). `OrdersInv`: no order has an artboard
twice, in the state, in the file, under a drag or on its way from a drop, so
that what the filters of `SlotIds` make of one has none twice either. `PendingInv`: before the
read settles nothing is written, and only edits make the sections differ from
empty. `UneditedInv`: after it a section is as stored until it is edited.

**Lists** (`ListsProofs`). What a filter returns is an induction over the list,
and the library's induction theorems take an operator, which no prover here can
instantiate. The well-ordering of the numbers can be used (`LeastExists`), and
`Induction` follows from it for a set in place of the operator. `FoldExists`
gives the function that a recursion defines, so that `Keep` and `Bar` are what
their recursions say.

**Layout.** Each module goes handler by handler. Where most steps leave a part
of the invariant alone, one lemma says when they do (`Calm` steps of a switch,
`OtherKeeps`, `Idles`), and the other steps are treated one by one.

### What the proofs changed

* `OneTimeTicket.Withdraw` is of a set of tickets: one deletion of an account
  withdraws all its links, which the refinement failed on until then.
* `StatusPage.AgeState`, the two formatters of `Displays` and
  `Envelope.Meaning` are written with IF, in the code's order. As CASE their arms
  overlapped: TLC takes the first arm that is true, TLA+ means any.
* A canvas without a sidecar file is `NoFile`, an empty mapping, and no longer
  `None`, of which nothing says that it is no state of the sections.
* The assumptions on `None`, `Pan`, `MaxLoads`, `Sections` and `Sources` were
  needed, and are what the code has; the one that `PinLimiter` made of its
  clients was not, and is gone.
* `TypeOK` of `PinLimiter` bounded the length of the list of failures, which held
  of the two requests of the run and not of three: requests that have passed the
  test of the lock may each add a failure to a list that is full by then.
* The RECENT panel was sorted by times that differ, and said to show the last
  ones. `sort` is stable and times may be shared; what matters, and
  what `ActivityShown` says, is when an event is left out.
* That a request or a run works on a switch of the account is no part of
  `SwitchLifecycle.TypeOK`, but every invariant needs it; `TypeCorrect` states it.
* `AnsweredIsLogged` was a property of the run `audit`. It is a theorem still; the run
  has `AppendsAreAtomic`, which says more.
* `Recent`, `SlotIds` and `Drop` use `Lists.Keep`, and `Bar` is a recursion over the
  incidents, in place of the library's `SelectSeq` and `FoldLeft`, which are defined
  by recursive operators.

### Only model-checked

* The liveness properties `ArmedEnds`, `ReleaseCompletes`, `LockoutEnds` and
  `EndedSessionLeaves`: fairness is outside the prover's reach.
* `ReleaseHonoursExpiry` is false, and the run `stale_read` shows how.

## 5. Not modelled

* ULIDs: identifiers are members of the models' sets, and nothing in the code
  orders by them. The entry point `index.ts`: a routing table.
* The strength of the cryptography: in `Envelope` a ciphertext opens with its
  key only, and hashes and signatures are injective.
* The choice of a plan and its size and timer limits (`plans.ts`): tests of one
  number at the start of a creation. The count of active switches is modelled.
* The legacy pages that keep share B in the browser between the creation and the
  finalize, and the key the legacy recipient's row holds: `SwitchLifecycle` has
  the calls they make and the status of the row.
* Contacts inside `SwitchLifecycle`: a direct creation finds an enrolled contact
  or is refused before it writes. `Delivery` has both. A contact cannot vanish under an existing switch, because the foreign
  key of `0007_account_recipients.sql:47` has no `ON DELETE`.
* The status page's ping of the edge and its list of incidents; an answer of an
  earlier poll that comes after a later one; a slow cron pass that overlaps the
  next one and moves the heartbeat back (`SweeperTold` is a bound from one side,
  which this cannot break).
* Of the design canvas: a reorder that is committed in the very render that
  hydrates the page, which the write that is skipped there could swallow; export, styling, and two tabs that share one
  `localStorage`. An edit made within the 250 ms before a reload is lost, as the
  code has it; no text promises otherwise, so no property is about it.
* The mock-up screens (`primitives.jsx`, `screens-*.jsx`) keep no state of the
  product; `scripts/check-ui-consistency.sh` is a lint. The files under
  `design_handoff_silentbeat` are copies of those that are modelled.

## 6. Plan

Done: the models, and the proofs of section 4: every invariant and every action
property or refinement that a run checks is a theorem, but for the one that is
violated. Left:

1. The liveness properties, when a prover for fairness is at hand.
2. `PublicLog` under `SwitchLifecycle`, as a composition of the two specifications
   in place of the correspondence of their steps.
