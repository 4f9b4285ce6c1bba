# A verification development for GinBot

GinBot is a chat bot: one server process with a PostgreSQL database, a cron loop
and a blob store, and one client process per platform (Discord, Matrix) that
talks to it over Connect RPC. This directory holds TLA+ modules of the parts of
it whose correctness depends on more than one actor, on what fails and when, or
on arithmetic at its limits; configurations that model-check them with TLC; and
proofs checked by TLAPS.

Paths below are relative to the repository root (`pkg/...`, `cmd/...`).

## 1. Inventory

| Component | State | Operations | Talks to | Hard part |
|---|---|---|---|---|
| Reminder delivery (`pkg/db/reminder.go`, `pkg/grpc/server/reminder.go`, `pkg/cron/cronjob/remind.go`, `pkg/discord/actions.go`) | `reminder` rows: status, datetime, claimed_at, delivery_attempts, deleted | create, update, delete; reclaim, claim (cron); confirm (RPC) | cron -> action stream -> client -> Discord -> ConfirmDelivery | at-least-once delivery over a lossy push with crashes on both sides |
| Reminder cap and references (`pkg/db/reminder.go` 41-111) | rows of one owner | count, number, insert under an advisory lock; list, resolve a number | reminders, the import | rows that leave and re-enter the count; numbers resolved before they are used |
| Reminder schedule and parsing (`pkg/reminder`) | none | parse a time, next occurrence, interval floor | reminders | arithmetic of fixed width, late confirmations |
| Action streams, server (`pkg/grpc/server/reverse.go`) | registry of clients, a bounded channel and three goroutines per stream | register, send, receive, SendAction, Shutdown | cron goroutine, HTTP server | closing a channel another goroutine sends on; peers that stop reading |
| Action streams, client (`pkg/grpc/client`) | open stream, backoff | register, connect, dispatch serially, wait; deadlines and retries of unary calls | server | outages, refused places, answers lost after the server acted |
| Cron loop (`pkg/cron/cron.go`) | ticker | a job per second, minute, hour, inline | the jobs | dropped ticks, slow jobs |
| Server process (`cmd/ginbot-server/main.go`) | readiness, signals, pool | start, drain, shut down | everything | order of the shutdown steps |
| Trigger files (`pkg/grpc/server/trigger.go`, `pkg/db/file.go`, `pkg/storage`) | `file` rows, blobs by content hash | fetch, deduplicate, insert, put; orphan sweep | triggers, cron | two stores without a common transaction |
| Trigger service (`pkg/grpc/server/trigger.go`, `pkg/db/trigger.go`) | `trigger` rows, fire counts | create, update, delete, get, list, execute, statistics, file | users | checks and writes are separate statements |
| Trigger cache (`pkg/trigger/cache.go`) | candidates per instance under one mutex | lookup with load, invalidate | database | load racing a write |
| Trigger playback (`pkg/discord/interactions.go`, `undo.go`, `pkg/trigger/limiter.go`) | attempt slots, undo windows, limiter map | attempt, undo, Allow, Prune | TryTrigger, Discord | a goroutine per message; clocks read before locks; deadlines |
| Trigger matching (`pkg/trigger/select.go`, `pattern.go`, `chance.go`, `spoiler.go`) | none | select, roll | playback | none: pure |
| Repost detection (`pkg/grpc/server/repost.go`, `pkg/db/repost.go`, `pkg/cron/cronjob/retention.go`) | `repost_entry`, `repost_fingerprint` | check, index; retention sweep | Discord client, fetcher, cron | match then insert without a transaction; edits |
| Perceptual index (`pkg/repost/repost.go`) | configured tiers | chunk, distance, normalise, grade | repost detection | recall bound of the chunk columns |
| URL normalisation, fingerprints (`pkg/repost/urlnorm`, `fingerprint`) | none | extract, canonicalise, hash | repost detection | many links of one page, like links of two |
| Directory (`pkg/db/user.go`, `instance.go`, `destination.go`) | users, identities, instances, destinations | register, upsert, resolve the caller | interceptors, the import | first contact from several calls at once |
| Interceptors (`pkg/grpc/interceptor`) | origin cache | recover, validate, clearance, origin | every call | stale cached origins; accounts that change during a call |
| Command registry (`pkg/command`) | registry, filled at start | register, resolve, generate, bind | Discord client | one folded name space, two surfaces |
| Commands and responses (`pkg/discord`) | none | acknowledge, call, answer in messages | all services, Discord | private answers, partial failures |
| Small services (`entertainment.go`, `utility.go`, `analytics.go`) | none | one statement or computation each | clients | an interval as wide as its type |
| Legacy migration (`cmd/ginbot-migrate`) | two databases, `migration_id_map` | one import in many passes | a server that may run | dry, cut and repeated runs |
| Matrix client (`pkg/matrix`) | none | connects, ignores actions | stream | a stub |
| Configuration, logging, generated code | none | | | none |

What makes each modelled part correct is stated by its properties (section 4);
`hazards` in PROJECT.json lists where the code could go wrong, at its lines, with
the property that would catch it. Every one listed has a property.

## 2. Modules and the code

Every module reads the same way: constants with named assumptions, variables
(program state first, history variables apart and marked as such), one action
per handler step, the next-state relation, the specification, and the properties. A
database statement, or a transaction, is one atomic step; between two statements
of a handler anything else may happen. Each `MC...` module holds only the values,
symmetries and choice of parts TLC needs. An operator whose comment begins
"Mutant of" is a plausible bug in the definition it names. It is not part of the
specification; replacing that definition by it violates the property named for it
in PROJECT.json.

### Reminders

**Reminder** - `row` is the table; `cron` is the goroutine inside `remind()`
(reclaim statement, claim statement, one push per claimed row); `stream` and
`buffer` are the reverse stream of each client and its bounded channel, which
drops when full; `work` holds what a client does with one action: received,
posted (the ConfirmDelivery call is on its way), read (the handler has loaded the
row and not yet written). The owner creates, edits and deletes meanwhile.
`ServerCrash` keeps the rows and loses everything else; `ClientCrash` loses the
queue and the work of a client. The action that travels names the reminder only,
as in the code; the claim number it carries in the model is history.

**ReminderLifecycle** - the abstract specification: five phases and a budget of
tries. `Reminder` implements it (`LifecycleSpec`), with `phase` the status or
"DELETED", and `tries` the column `delivery_attempts`. A step of it may move
several reminders because reclaim and claim are single statements over many rows.

**ReminderQuota** - the transaction of `CreateReminder` statement by statement
(advisory lock, count, number, insert, commit), the import's insert that numbers
rows without the lock, and the moves of a row that change what the cap counts. An
insert waits for a row with its owner and number that is still uncommitted, as
the unique index makes it wait.

**ReminderNumbers** - extends ReminderQuota with the calls that name a reminder:
the listing that shows numbers, and get, update and delete by number or by id, in
the two statements each takes. `shown` is history: which number meant which row,
and to whom.

**Schedule** - `NextOccurrenceAfter`: the division and product of
`advanceByDelay`, with saturating differences and wrapping products of a chosen
width, and the bounded walk over a calendar, which reports a lost phase when it
gives up; `ValidateRepeatInterval` with the samples it takes of a calendar.

**When** - `ParseWhen`: lengths read character by character in the arithmetic of
that width, slash dates and ISO dates read numeral by numeral, in the order the
code tries them; what is none of these goes to a phrase parser that may or may
not make something of it.

### Streams, calls, the process

**ReverseStream** - `clients` is the registry behind its RWMutex, `handler`,
`sender` and `receiver` the goroutines of each stream, `actions` its channel,
`push` the loop of `SendAction`, which holds the read lock.

**Connection** - the other end: `RunClientActionStream` registers, opens,
receives, waits and tries again, with its backoff and when it is reset, against a
server that comes and goes, keeps a place for a while after the connection is
dead, may have given it to another process, and checks the account when a stream
opens and only then. The Matrix client runs the same loop.

**Calls** - one unary call: the client's deadline and its retries of the listed
procedures, the server's recovery, validation and clearance, and the handlers of
the small services. An attempt the client has given up goes on in the server,
beside the next. An operator changes accounts meanwhile. Random numbers are
drawn with an interval that may be as wide as its type.

**ServerLifecycle** - `main()` from the moment it serves: signals, readiness,
the drain, the shutdown with its deadline, the streams it tells to leave, the
cron loop with its ticker of one pending tick, the pool, in the order of main and
its deferred calls, on the path where the listener fails too.

**Directory** - `Register` and its races, the caller the clearance interceptor
resolves, the transaction that writes the rows of a guild and a channel, and the
origin cache with its eviction.

**Import** - extends Directory and ReminderQuota: the legacy import, row by row of
a dump through all its passes in one transaction, dry runs, runs that are cut
off and runs repeated with a later dump, while the server registers, creates and
edits. `tx` is what the transaction has written, `blob` the store, which no
transaction covers.

### Triggers

**TriggerFiles** - `file` and `trigger` are the tables and `blobs` the keys of the
blob store. A handler goes through fetch, `GetOrCreateFileByHash` (`Dedupe` or
`Insert`), `Put` if it inserted, and the trigger's own write. The sweep lists a
batch, soft-deletes a row, deletes its blob, and so on. `Crash` loses handlers
and sweep in the middle.

**TriggerService** - the handlers users call by name, statement by statement: a
short id resolved, the origin looked up, visibility, ownership, phrase and mode
checked, the write, the page. Any statement may fail. `could` and `walk` are
history: what a caller might have seen, and what a walk through the pages owes.

**TriggerCache** - `lock` is the mutex, `cached` and `set` the map, `call` the
lookups, `write` the trigger handlers with their commit and, later, their
`Invalidate`. A commit may be applied and still be reported as failed.

**TriggerPlayback** - `pc` says where the goroutine of each message is, or its
call on the server; `waiting` holds those whose goroutine still waits, so a
deadline (`Expire`) separates the two. `windows` is the map of `undo.go`, `last`
the map of the limiter, `row` the trigger table. Every `time.Now()` is a step of
its own, before the lock it is used under; `Stall` bounds how long a call may be
held up between the two.

### Reposts

**Perceptual** - chunks, Hamming distance, normalised tiers and grading, as
operators over hashes that are sets of bit positions.

**RepostIndex** - extends Perceptual. `check` holds the goroutines inside
`attemptRepost`, one per message and one per edit of it, going through their
candidates: exact lookup, perceptual lookup, insert. `entries` is the index with
its fingerprints, `sweep` the hourly retention job.

**Canonical** - a link as a record of host labels, path segments and query pairs;
how a message offers it (`ExtractURLs`, the punctuation around it), the known
hosts and their identities, the generic rules, tracking parameters, what is
excluded. Those who share a link rewrite it in the ways that keep the page.

### Commands

**Commands** - the registry: definitions registered one by one, every collision
that aborts start-up, resolution from chat words, and the application commands
generated for Discord; parsing and binding of arguments.

**Catalogue** - the commands of the Discord client as they are defined.

**Interactions** - one command from the interaction to the last message: deferral,
checks, calls, the answer in one or several messages, follow-ups and edits, direct
messages, errors. Each send and each call may fail.

## 3. How the parts meet

The modules share interfaces, not variables, except where one extends another.
Reminder contains the stream as a bounded queue that drops and may break;
ReverseStream shows that pushing meets no closed channel and that broken streams
end; Connection shows that the client comes back, which is what makes the next
claim worth making. Reminder takes of a repeat only that it moves to a later
instant, and Schedule says to which; of an edit that it names an instant, and When
says which. TriggerPlayback selects from a candidate set that may be stale;
TriggerCache says how stale it can be, and TriggerService what the table may hold.
TriggerFiles has the trigger rows only as references to files. RepostIndex has the
identity of a link as data, and Canonical says what it is. Import composes with
Directory and ReminderQuota in full, because it writes the same rows while they
do; ReminderNumbers joins them in MCImport. ServerLifecycle has the jobs and
handlers of the other modules only as holders of the pool.

## 4. Runs

A module that shares no state with another is checked in the same run where that
keeps one instance per boundary of the system: a behaviour then is of one part or
of the other (`part`, or a `sample`), and what is idle stays as it began.

| Run | Question | Bounds |
|---|---|---|
| ReminderTwoClients | is a claim budget kept, is the lifecycle implemented; do repeats keep their phase, are times read as written | 1 reminder, 2 symmetric clients, cap 2, grace 1, buffer 1, clock to 2, 1 edit; instants 0 to 20, delays 2, 4, 6, six calendars, durations within 12; all texts of up to 5 of 8 characters, 3500 slash and 180 ISO dates |
| ReminderLive | is a due reminder claimed, is every claim closed | as above with 1 client and the clock to 3 |
| ReminderDuplicateConfirmIsNoOp | a violation: see section 5 | as the first |
| Import | cap and numbers of creates, the origin cache, one import of each row, the bytes of files, numbers that keep their meaning | 2 creates and a registration of one identity in one channel, a dump of one user, 2 files of one content, 2 triggers of one phrase and a late reminder, 2 runs, cap 1, 1 move, cache of 1; 1 asking call, pages of 1 |
| ReverseStream | closed channels, the registry, the end of streams; calls that act once and as cleared; the client comes back | 2 streams for 1 place, 1 action, buffer 1; every procedure, 2 retries, a deadline of 9 units, clearances 0, 1, 20, 50, 1 change, numbers of 3 bits; backoff 1 to 3, 3 faults |
| ServerLifecycle | order of the stops, the drain, the time it takes, the hours | a call, a stream and a probe, drain 1, timeout 2, 2 signals, an hour of 2 ticks, clock to 5 |
| TriggerFiles | the grace, blobs and rows, collection | 2 files, 2 contents, 1 trigger, 2 handlers, grace 1, batch 1, clock to 2 |
| TriggerFilesDedupedFileHasBlob | a violation: see section 5 | 3 files of 1 content, 2 triggers, clock to 3 |
| TriggerCache | coherence, currency of lookups, nobody waits for ever | 1 instance, 1 trigger with 1 edit, 2 lookups, 2 writers |
| TriggerPlayback | limiter, undo, freshness; stored pairs, paging, scope; names, privacy, honest answers | 2 or 3 messages by script, 1 slot, window 2, interval 2, stall 1, clock to 3; 3 calls by scenario, 4 rows, 2 users, 2 guilds, pages of 1; the real catalogue, pairs of colliding definitions, answers of up to 3 messages |
| RepostIndexMatch | is what was indexed found, and only that; one identity per page | 3 messages, 1 edit, 2 guilds, 2 authors, 2 slots, 3 chunks of 1 bit; 25 pages under 35 links and their rewritings |
| RepostIndexSweep | what the sweep takes, and that it gets there | 2 messages, 1 edit, 3 guilds, batch 1, tolerance 1, clock to 1 |

What each property says stands above it in its module. Why these bounds are enough
for the cases that matter:

- One reminder suffices for delivery because rows are independent in every
  statement; the proofs cover any set of reminders, so batches are not left to
  the bound. Two clients are what a double confirm takes. A cap of 2 separates the
  last attempt from the one before it; a grace of 1 with a clock to 2 lets a claim
  expire and be made again.
- Durations within 12 let every product and difference of the schedule saturate or
  wrap over instants up to 20; the proofs have any width. The calendars have
  one gap, two gaps, a hole, an end, and no instant at all. Five characters are two
  units with a number of two digits: numbers, products and sums fit exactly, or
  fail by one, in every order.
- A cap of 1 makes two creates contend; the import adds a row with the number one
  of them has taken. Two files of one content and two triggers of one phrase are
  the duplicates the passes look for; a late row makes the second dump differ.
- Two streams for one place let one wait for the other to give it up. Requests
  name every procedure, those of a kind by one example with each caller and
  malformation; a retry fits its deadline, just fits it or does not.
- A call, a stream and a probe are the three ways a request ends; five ticks hold
  both waits and an hour.
- Two files suffice for a predecessor and its successor under one key; two
  handlers race on them while the sweep is between its deletes.
- One instance suffices for the cache because its only cross-instance state is the
  mutex, which the lookups contend for.
- Playback takes its messages from scripts in place of all combinations: two
  forced fires of one author; two responses and an undo; one response and two
  undos; an undo by somebody else; a message that is no attempt. The trigger
  service takes scenarios likewise: two updates of one row with a reader, a walk
  beside deletes and creates, reads by strangers, regular expressions, files.
- Three chunks of one bit make the recall bound 2, with images one, two and three
  bits apart on both sides of it; `TierProbable = 7` is out of range on purpose so
  that the clamp matters. The pages are every known source under its several
  names and the neighbours only a careful rule keeps apart.
- A message that claims to be a day old, the tolerance, is past a retention of one
  day when the clock is at 1, the earliest the sweep may take it; one that claims two
  is not believed. A guild that keeps 0 days and one whose deletes fail stand beside.

Symmetry is declared only in runs without liveness, and for sets nothing orders.
Deadlock is checked except where the system really ends: in Import (runs and calls
end), ServerLifecycle (the process exits), ReverseStream (streams and calls end)
and TriggerPlayback (calls and commands end).

Every bound on a counter is a constant with the word "bound" in its comment.
`Patience` (TriggerFiles) and `Stall` (TriggerPlayback) are more than bounds: they
say that a call does not outlive its deadline, which is shorter than the grace,
and that a goroutine is not held up for longer than that.

### Fairness

- Reminder: the cron goroutine keeps ticking, and a reclaim or claim that is tried
  again and again succeeds in the end (strong fairness, since crashes and database
  errors interrupt them); a started loop of pushes goes on; the clock runs.
  Nothing is asked of clients, streams, owners or crashes. The one-second ticker of
  `pkg/cron/cron.go` justifies the first; a database that fails for ever would
  make any such promise empty.
- TriggerFiles: the sweep keeps starting and each row it lists again and again is
  soft-deleted in the end.
- TriggerCache: handlers keep running, and `sync.Mutex` hands itself to a waiter
  in the end (its starvation mode), hence strong fairness on taking it.
- ReverseStream: goroutines that can go on do, and a writer gets the RWMutex though
  readers keep coming. Nothing is assumed of a peer that is still connected; when
  it is gone, the pending send fails.
- Connection: the loop takes its own steps, for it waits only for calls with a
  deadline, a timer and a handler; the ping finds a dead connection, on either
  side. Nothing is asked of servers, other processes or operators: the property
  holds where nothing stands in the way from some time on.
- ServerLifecycle: goroutines run and the clock does; a handler whose connection
  was cut returns, so does a stream that was told to; a job ends. Nothing is asked
  of a call that still has its connection.
- RepostIndex: the loop comes round, the sweep goes through its list whatever its
  deletes do, and the server is not shut down for ever. That the deletes of a
  guild succeed in the end is part of the property, guild by guild.

## 5. Where the repository says otherwise

Two runs expect a violation.

- **ReminderDuplicateConfirmIsNoOp.** The comment above
  `AdvanceReminderStatusIfSent` (`pkg/db/reminder.go` 268) says that its guard makes
  a duplicate ConfirmDelivery a no-op. The guard tests the status, and a confirm
  does not name the claim it answers. After a reclaim, or after a reschedule and
  the next claim, the row is SENT again, and a late confirm of the earlier claim
  settles the later one, of which nothing has been posted yet.
- **TriggerFilesDedupedFileHasBlob.** Only the upload that inserted the file row
  writes the blob (`pkg/grpc/server/trigger.go` 242). If that write fails, or the
  server stops before it, the row stays live and later uploads of the same content
  deduplicate onto it and succeed without bytes; `pkg/db/file.go` 17 says the flag
  tells the caller whether it must also write the blob.

Smaller things met while modelling, without a run of their own. Where a property
has to allow for one, its definition says so.

Reminders and the server:

- dispatch is serial, so a backlog may outlast the grace and a reminder is posted
  twice (`pkg/db/reminder.go` 19 accepts this);
- with two clients on one platform, a FAILED confirm of one settles the reminder
  that the other has posted;
- a confirm that settles a reminder leaves `delivery_attempts` as it is; only a
  reschedule and an edit by the owner reset it;
- an edit that moves a reminder to another destination without naming a schedule
  does not check the schedule against that destination's shortest interval; a
  create, unlike an edit, does not refuse an instant in the past;
- the cap counts pending rows when one is created: rows that were claimed,
  rescheduled, edited or imported become active again without being counted; the
  listing shows the 25 earliest by datetime, of any status;
- `parse.go` 14 says that what does not parse is refused and never approximated,
  but its `atoi` does not notice overflow, so a numeral in a date that is too wide
  for an int is read as what is left of it (`ReadsAsWritten` leaves those out);
- a tick dropped at the full hour skips the hourly jobs of that hour
  (`pkg/cron/cron.go` 102; `HoursAreServed` allows for exactly this).

Triggers:

- "the latest response is the one an undo means" (`pkg/discord/undo.go` 50): arming
  is not ordered with posting, so of two responses the one armed last is meant;
- a forced fire is charged by the limiter before the response exists, so a missing
  file or an expired deadline costs the author the interval; it counts as a fire
  even when nothing plays;
- "one forced fire per ForcedInterval" (`pkg/trigger/limiter.go` 8) holds up to
  the time a call is held up between reading the clock and the lock
  (`ForcedSpacing` states it with that allowance);
- two updates of one trigger, each checked against what it read, can store a
  phrase and a mode nobody checked together (`pkg/grpc/server/trigger.go` 655
  explains why a pair must be checked; `StoredTogether` allows for two updates);
- `/trigger mod` with a file shadows a reply that was there;
- pages are cut by OFFSET, so a walk beside deletions skips rows;
- a lookup of the origin that fails makes ListTriggers answer as in a direct message.

Reposts:

- an exact repost is indexed without a fingerprint (`pkg/grpc/server/repost.go`
  236), so once the original is swept its near duplicates are no longer found;
- two posts of one item whose checks overlap are both taken for originals: the
  lookup and the insert are separate statements;
- normalising is not idempotent: of "www.www.", of double slashes at the end and of
  %2F one layer is taken at a time; http and https of a page on no known host are
  two identities.

Accounts, commands, the import:

- an account that was marked deleted never registers again: Register finds it, and
  what it returns may not do anything;
- applicationCommands keys its groups by lower case, while the registry also trims;
- chat has no way to answer to the invoker only, so what is ephemeral on the slash
  surface is public there; the error of a public slow command is public;
- a listing sent by direct message that breaks off midway is reported as not sent;
- the import numbers reminders without the owner's lock, so a create beside it may
  be refused; a legacy account whose identity has registered already is imported
  and reachable by nobody; a file that an earlier run mapped is not looked at again;
  direct messages of users without a Discord authorization share one destination.

## 6. What is proved

All proofs hold for every value of the constants that the named assumptions allow.
The bounds may be any naturals, and the sets of actors any sets unless it is said
that they are finite. A property that is not inductive as it stands is proved from
an invariant that is; what that invariant adds is said below, for it is why the code
is right.

**ReminderProofs** proves, for `Spec` of Reminder:

| Theorem | Statement |
|---|---|
| TypeCorrect | `[]TypeOK` |
| ClaimStampCorrect | a claim stamp exactly on SENT rows |
| AttemptsCapCorrect | no attempt beyond the cap; a waiting row has one left |
| OneRecordCorrect | at most one delivery record per claim |
| ClaimBudgetCorrect | an unedited one-shot is claimed at most MaxDeliveryAttempts times |
| SettledIsFinalCorrect | only its owner moves a settled row; a deleted one never moves |
| LifecycleCorrect | Reminder implements ReminderLifecycle |

Assumed: `GraceAssumption`, `AttemptsAssumption`, `BoundsAssumption` and
`NoneAssumption`. The argument: lemmas on the record operators (`Edited`,
`Claimed`, `Reclaimed`, `Advanced`, `Rescheduled`) say what each does to a row.
Type correctness is proved action by action. Then `EveryStepMoves` shows once that
a step of `Next` is, for each reminder, one of a few moves of its row and counters,
whichever actor took it. Each invariant is preserved by each move, a short lemma
per invariant, so no later proof looks at the actions again. `ClaimStampMarksSent`,
`AttemptsWithinCap` and `OneRecordPerClaim` are inductive with `TypeOK` in front.
`ClaimBudget` is not: a confirm decides from the row it read earlier, and claims
are counted apart from attempts. It is strengthened to `BudgetInv`: what a handler
read about repetition is what the row still says unless its owner edited it
(`SnapshotHolds`), the attempt counter of an unedited one-shot is the total of its
claims (`CounterIsTotal`), and an id without a row was never claimed
(`UnusedUnclaimed`). The refinement follows from the same moves: each maps to
`Arm`, `Delete`, `Deliver`, `Retry`, `Settle` or `Same` of the lifecycle, where
`Deliver` and `Retry` need the inductive invariant for their guards.

The same module proves of Schedule, for any width, anchor, instant and delay, that
the arithmetic of `advanceByDelay` finds the first occurrence after now or gives up
(`EveryIsExact`), that lateness is forgotten (`EveryForgetsLateness`: the
occurrence after a late delivery is the one the first anchor gives), and when alone
the phase is lost (`EveryKeepsPhase`). They rest on lemmas about division, and on
the observation that a difference that did not saturate makes a product that does
not wrap. `CalendarKeepsPhase` says the same of the bounded walk along any finite
calendar. What it reaches is the first instant after now, because its bound is on
ranks: whatever comes before an instant it reached has a lower rank (`WalkFindsFirst`).
It is the same from where an earlier confirmation moved the reminder, because fewer
instants lie ahead of that (`Fewer`). And it does not give up on a regular calendar
that was accepted: the one gap that was measured is no less than `MinIntervalDM`
(`AcceptedGap`), dividing by it sends the instants that have passed to different
numbers below `MaxAdvanceSteps - 1` (`FewInSpan`), so there are no more of them.
`PhaseCorrect` joins the two to `[]RepeatsKeepPhase`, for any delays and calendars.
Assumed: `TicksAssumption`, `NeverAssumption`, `StepsAssumption` (the bounds are
positive) and `SamplesAssumption` (delays are whole seconds, as the library makes
them; calendars are finite, which the library's five years of looking ahead make
them; time is any beginning of the naturals, all of them included). Of When it proves, for any width and any units, that a digit and a unit of
a length are read exactly or refused (`DigitIsExact`, `UnitIsExact`), and that what
is being read never leaves its width (`ReadingStays`), which is the condition of the
other two: the guards before each multiplication and addition are exactly the
conditions for the unbounded result to fit.

**ImportProofs** proves what holds of reminders' numbers, of the directory and of
the legacy import, alone and beside each other:

| Theorem | Specification | Statement |
|---|---|---|
| CapCorrect, CollisionCorrect | QuotaSpec | creates stay within the cap and never collide |
| NumberCorrect | NumbersSpec | a number means the row it was shown for, or nothing once that is deleted |
| ImportImplementsQuota | Spec of Import | the import beside a server implements QuotaSpec |
| QuotaBesideImport | Spec of Import | the cap holds beside an import too |
| CacheCorrect | Spec of Import | a cached origin is a row that was committed |
| FilesFollowed | Spec of Import | a live file has its bytes; a dry run leaves none behind |
| OnceCorrect | Spec of Import | a legacy row is there, once, exactly when the map says so |

Assumed: the sets of creates and imports are finite, `WorkAssumption` (every run may
make the rows its dump asks for) and `ServedAssumption` (a create is a visit, an
account may own reminders) beside the assumptions of Directory and ReminderQuota.

- `QuotaInv` adds, for every call between two of its statements, that it holds its
  owner's advisory lock, that what it counted has not become too small for the rows
  its owner has added since, and that the number it took is above every number a
  create of its owner has committed. A create that counts needs the count of committed
  rows to bound the fresh ones, which are some of them; the cardinalities are compared
  by lemmas on adding and removing one row.
- `NumbersInv` adds to it that numbers are unique within an owner for good, deleted
  rows included, that what was shown still bears the number it was shown with
  (`ShownInv`), and what a call has resolved between its two statements (`AskOK`).
  `RowsStay` and `RowsAppear` say once what any step does to any row.
- `ImportInv` is the conjunction of six. `DirectoryInv`: a call past its
  interceptors has a caller, and one that has written its place finds it there;
  hence what it caches is true, and evicting keeps it so. `RunInv`: what a run has
  written is its transaction's, all bytes a run that is not dry names are in the
  store, and between runs nothing is held. `OnceInv`: rows stored correspond one to
  one with the entries of the map, and rows stored or being made with the map and the
  entries being made; the commit needs the second, the rollback the first.
  `NumberedInv`: a reminder that has its number and no row yet is the one its run is
  at and is not in the map. The refinement takes each step of either specification to
  a step of ReminderQuota or a stutter; a rollback is the abort of every insert held.

**TransportProofs** proves, for `Spec` of ReverseStream, any streams, platforms,
capacity and buffer, `StreamTypeCorrect`, `PushCorrect` and `RegistryCorrect`. The
invariant `StreamInv` adds that a served stream's channel is open and that a push
under way walks streams that are still registered; it is preserved because
removal needs the write lock, which a walk excludes, and closing comes after
removal.

For `CallSpec` of Calls, any users, clearances, requests, deadlines and backoffs, it
proves `CallTypeCorrect` and `ActsOnceCorrect` (a call writes once at most, and only
what its user had the clearance for). That a call writes once rests on two facts of
different kinds, joined by `CallInv`: nothing that writes is among the procedures the
client retries (`WritersAreTriedOnce`), and what is not retried has one try
(`TriesInv`), each try writing under its own number (`WrittenInv`). For the clearance,
`HeldInv` has whatever the caller has now among what it had during the call, and
`ServingInv` says of an attempt that passed the chain that what its lookup found is
among it and was enough, whatever the operator has changed since. Every step of the
server, of whichever handler, is first shown to be a `ServerStep`: one write or none,
one row shown or none, one attempt left behind; the invariant is then kept once for
all of them. Assumed: `RequestsAssumption`, a request has the fields of its type.

**ServerLifecycleProofs** proves, for `Spec` of ServerLifecycle, any requests, any
drain delay, any shutdown timeout above 0 and any ticks: `ServerTypeCorrect`,
`PoolCorrect` (nobody meets a closed pool), `StopsCorrect` (a stop keeps its waits)
and `HoursCorrect` (no hour is lost unless a round of jobs outlasted a tick).
`OrderInv` says what main has behind it at each of its stops. `DrainInv`
relates what a prober was told, or may still be told by an answer under way, to
the instant the drain began: the promise is broken only when readiness is
withdrawn after the wait. `WaitsInv` counts from the instant main stopped serving
through each stop, and adds that a shutdown that has lasted a tick no longer waits
for a stream. `TickInv`: a pending tick came after the running round began. That the
timeout is positive is needed: at 0 a stream that was told to leave may be cut.

**TriggerFilesProofs** proves, for `Spec` of TriggerFiles, any files, contents,
triggers and handlers, `FilesTypeCorrect`, `GraceCorrect` (a trigger that got its
file within the grace keeps it) and `BlobsCorrect` (a live row whose blob was
written still has it unless the write raced the sweep, and no blob is stranded
unless its deletion failed). Assumed: `PatienceAssumption`, a
call does not outlive the grace (30 seconds against an hour in the code). `GraceInv`
extends the promise to the rows on the sweep's list; `CallInv` bounds how long a
call has had its row; `RowsInv` has the partial unique index; `BetweenInv` says
which rows may share the key between the sweep's two deletes.

**TriggerProofs** proves, for `ServiceSpec` of TriggerService, any calls, rows and
requests: `ServiceTypeCorrect`, `StoredTogetherCorrect`, `AnswersCorrect` and, for any
page size and finitely many triggers (`TableAssumption`), `WalkCorrect`.
`ServiceInv` says of every call that it stands at a statement of its own handler
(`Planned`), and of one past its checks what they established and what may have
changed since (`Checked`); a write then keeps phrase and mode paired or marks the
row as raced. `ScopeInv` says what an answer carries between its statements: a row
that was read is no more than its user might have seen then, if the check that
follows lets it through, because the scope of a row never changes.

`WalkInv` is about a listing while it pages by offset, and rows come and go under it.
The rank of a row is how many rows come before it; a row is due when it was there at
the start, was not deleted and has not been shown; and the listing is on course while
the rows that are due and ranked before its offset are no more than those that were
deleted. An insert only raises ranks. A delete lowers them by one, so at most one row
slips behind the offset, the one whose rank the offset was (`CourseShrinks`): no two
rows share a rank, as ties of the date are broken by the id (`RankIsOwn`). A page
shows the rows of its ranks, and a short one the last of them (`CoursePage`). So when
the listing ends, what is due was passed, and is no more than what was deleted.

For `Spec` of TriggerPlayback, any finite set of messages, any slots, windows,
interval and stall, it proves `PlaybackTypeCorrect`, `SpacingCorrect` (two forced
fires of an author are an interval apart, less the stall), `UndoCorrect` (an undo
takes one response, of its author, its channel and its time) and `FreshCorrect`
(what is posted was not older than the message). `ReadingInv`: a clock that was read
for the limiter is at most a stall old. `GrantInv`: a grant within the interval is
still remembered by the limiter, or a later one of its author is; pruning keeps it
because its cutoff is an interval back. `WindowInv` and `TakenInv`: a window is that
of a response that is armed once, and a response that was taken is in no window.
`RowsInv` and `FreshInv`: triggers are edited and deleted once, and what was selected
was live when its message came. `SlotsInv`: the counter of slots is the number of those
who hold one.

For `InteractionSpec` of Interactions, which begins with the registration of Commands,
it proves `NamesCorrect` (`NamesResolveAlike`: every way to name a command
leads to it and to no other once the bot serves), `PrivateCorrect` (what is for its
invoker reaches no channel) and `AnswersWholeCorrect` (an answer is whole or says it
is not, and success is told of what was done), for any definitions, any folding of
names, any requests and any failures. Assumed: `NamesAssumption` (definitions have
the fields of their type; the sorted names have those of the grouped commands) and
`CatalogueAssumption` (a command fits its handler: what writes is slow and so
acknowledged first, what is for its invoker says so in each answer or is deferred,
what is sent directly is for its invoker, a button stands under a roll). TLC
evaluates both on the real catalogue, so that a command added without fitting shows
there.

- `RegistryInv`: no two registered commands share a name, no group is a command's
  name, no two share group and subcommand, and each has a handler. `Accepts` keeps
  it because a name is compared folded with all the names there are; a lookup then
  finds one command (`NamesResolveAlike` rests on no more than this, and on the
  listing of application commands covering the registry).
- `InteractionInv` is the conjunction of what a command is at each stage: that it
  was resolved and fits (`Commanded`), what was acknowledged and to whom (`Acked`),
  which answer was chosen (`Answered`), how many writes were made and reported
  (`Counted`), that the texts sent are the first parts of the answer, in order
  (`SoFar`), and what is left when it is done (`Finished`). `PrivateStaysPrivate` is
  inductive with these: a followed-up message takes its reader from the
  acknowledgement, and that one was chosen from the command before its handler ran.

**RepostProofs** proves `TiersOrdered` (whatever is configured, the normalised
tiers ascend within 0 and MaxDistance) and `IndexRecall` (two hashes within
`Probable` of each other agree on a whole chunk). The second rests on a pigeonhole
lemma: were all ChunkCount chunks different, picking a differing bit in each
would be an injection of the chunks into the differing bits, of which there are
fewer. It is what `repost.go` 11-14 claims of eight chunks, for any number.

For `Spec` of RepostIndex, any messages, contents and hashes, any retention and
tolerance, it proves `RepostTypeCorrect`, `FlagsCorrect` (a candidate that is about to
be indexed as new missed no entry that was there before its check and still is; one
that was matched is a post of somebody else in the guild that is the same) and
`SweepCorrect` (no entry is swept before its guild's retention is over, less the
tolerance). Assumed: `ItemsAssumption`, the items of a message are keys and hashes;
finitely many instances. `MatchInv` has five parts besides the types and the property.
`BegunInv`: a check under way has its message, and what a creation still has to add is
some of what it set out with. `TimeInv`: no sweep is ahead of the clock, and a claimed
time is within the tolerance of the check; `SweepCorrect` rests on this. `KeyInv`: an
entry's key is that of its item. `SeenInv`: an entry that is there, or that a check
has seen, is behind the creation that added it, so none that was swept comes back to
be missed. `HashInv`: at the second lookup, by chunks, nothing that was seen has the
exact key, and `IndexRecall` supplies that the chunks miss nothing within `Probable`.
A lookup that has matches returns one: the nearest, and of those an oldest, which
exist because a nonempty set of naturals has a least element (`Least`, from the
library's `WFMin` instead of an induction).

For `LinkSpec` of Canonical it proves `IdentityCorrect` (`[]OneIdentity`), for any
pages, links, excluded hosts and limits. Assumed: `CandidatesAssumption`, and
`FormsAssumption`, which is about the links a page is first known by and not about
what becomes of them: they are links with a host, they close what they open, those of
one page have one key, and those of two pages have different ones. TLC evaluates it
on the 35 links of the 25 pages. What is proved is that no chain of rewritings,
punctuation, posting, extraction and sharing again changes a key. `LinkInv` adds that
the link is still proper (`Proper`) and that its key is that of its page, which each
rewriting keeps for a reason of its own: capitals, `www`, the default port, a fragment
and a last slash vanish in `Generic`; the order of a query in its bag; what tracks in
`NormalizedQuery`, and no rule reads a parameter that is stripped; the scheme where a
rule reads an id, which is made without it. For the punctuation, the trimmed ending is a
longest prefix that stays, and the link's own ending is one, because what the sentence
adds either never stays or closes more than the link opens. Names of hosts and
parameters are compared as strings the provers know nothing of, so the module says
which texts there are (`Texts`, `Written`).

**TriggerCacheProofs** proves, for `Spec` of TriggerCache and any sets of instances,
triggers, lookups and writers:

| Theorem | Statement |
|---|---|
| CacheTypeCorrect | `[]TypeOK`; the mutex belongs to whoever loads or stores |
| CoherentCorrect | a cached set is right, or a write of its instance is pending or lost |
| LookupIsCurrentCorrect | an undisturbed lookup gets a set that was right while it ran |

`Coherent` is not inductive: a result that was loaded and is not yet stored must be
as good as a cached one, and a writer must still name the instance of its trigger.
`CacheInv` adds `LoadedIsSound`, `ScopesAgree` and `InstancesNamed`. Its one delicate
step is `Invalidate`, which could leave such a result behind; it needs the mutex,
and by `TypeOK` whoever is about to store holds it. `LookupIsCurrent` is
strengthened to `AllCurrent`: what an undisturbed lookup has seen contains what the
table says, what the cache holds, and what anyone is about to store. When a lookup
begins this follows from `CacheInv`; afterwards each step keeps it.

Only model-checked:

- liveness under fairness, and ENABLED, which the prover does not reach:
  `DueIsClaimed`, `ClaimIsClosed`, `AbandonedIsCollected`, `NobodyWaitsForEver`,
  `StreamsEnd`, `StreamComesBack`, `PastEntriesGo`, `StoppingEnds`;
- `WhatIsReadWasWritten`: what the parsers compute by folding over a text is an
  induction over its characters. The proofs have each character of a length.

## 7. What is not modelled

- Trigger matching (`pkg/trigger/select.go`, `pattern.go`, `chance.go`,
  `spoiler.go`): regular expressions over Unicode text and a dice roll, pure
  functions of one message. TriggerPlayback has their outcomes as a choice.
- Text: tokenising of chat commands and their prefix, the phrase and cron parsers
  (libraries), percent-decoding and the parsing of URLs (the standard library),
  the wording and layout of answers, embeds and timestamps.
- Bytes and pixels: what a fetch checks of an address and of a download, the
  fingerprints of images and videos. RepostIndex has hashes as data.
- Start-up: configuration, logging, mutual TLS, migrations of the schema, the
  opening of the Discord and Matrix sessions. A failure there ends the process
  before it serves.
- Of the import: the parser of the dump, the conversion of phrases, birthdays and
  clearances, and two imports at once, which nobody is meant to run.
- The Matrix client beyond its connection: it ignores every action.
- Generated code: 14,660 lines of protobuf and Connect code under `pkg/gen`, about
  half of the implementation. It has no behaviour of its own beyond encoding.

Discord itself is an actor that accepts or refuses; its deletion of the undo message
is left out because nothing depends on it.

## 8. Plan

Done: everything in section 2. What could follow, by what it would add:

1. Reminder with a token per claim, to see what a confirm that named its claim would
   promise; with it, the first finding becomes a property.
2. Trigger selection and chance as operators (`select.go`, `chance.go`), and the
   conversion of legacy phrases, checked against reference definitions.
3. Import beside a second import, if the tool is ever run by more than one operator.
