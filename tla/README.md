# A verification project for Front-Agent

Front-Agent answers the support mail of a Front inbox: Front posts a webhook for
every message, the service stores it, an orchestrator classifies the message,
writes drafts, tickets and hand-offs through a set of tools, and scheduled jobs
retry, remind, report and send a daily digest. This directory holds TLA+ models of
its stateful core, TLC runs over small instances, and TLAPS proofs.

## 1. The system and its parts

| Part | Code | State | Operations |
|---|---|---|---|
| Durable inbox | `services/webhook_inbox.py` | table `webhook_inbox` | enqueue, claim (with lease), complete, fail, list due |
| Webhook processing | `webhooks/front_webhook.py` | table `webhook_events`, conversation locks, a semaphore of 2 | receive, process an event, retry due events |
| Orchestrator | `agent/orchestrator.py` | table `conversation_states` | `handle_email`, initial route, agent loop |
| Route policy | `agent/routing.py`, `classification.py`, `message_identity.py` | none | pure decisions |
| Tools and dedupe | `agent/tool_registry.py`, `tools/state.py` | table `conversation_actions`, identity locks | `execute_tool_call` |
| Sybil digest | `tools/sybil_digest.py`, `routes/ops.py` | table `sybil_notifications` | queue, digest (claim, post, settle, recover), dismiss |
| Scheduler, maintenance | `tasks/scheduler.py`, `services/ops_metadata.py` | table `conversation_states` | retry job (1 min), digest (daily), auto-close, metadata, reports, shutdown |
| Reminders | `services/unanswered_reminders.py` | `conversation_actions` rows | scan |
| Draft adoption | `services/draft_adoption.py` | table `draft_adoptions` | classify, refresh |
| Ops sessions | `services/ops_auth.py` | in-memory sessions, failures | login, logout, lockout |
| Clients | `tools/front.py`, `linear.py`, `feishu.py`, search, billing | none | HTTP with bounded retries |

How they meet. A webhook request and the retry job both call
`process_inbox_event`; it runs `handle_email` under the conversation's lock; that
calls tools through `execute_tool_call`; one of the tools queues a Sybil
notification, which the daily digest takes. The tables are shared with the Ops
page and, while a restart overlaps, with a second server process. Everything else
that is shared (locks, semaphore) belongs to one process and is lost with it.
The maintenance jobs write the orchestrator's rows without a conversation's lock;
the checks that the reminder scan leaves in `conversation_actions` are evidence for
the draft metrics.

What is hard: every `await` lets another coroutine in; a process may stop between
any two commits; Front delivers an event again whenever it likes; a provider may
accept a write and lose its answer; leases may run out under a worker that is
slow. The list of places is in `PROJECT.json` under `hazards`.

## 2. What each part promises

* An accepted event is tried at most six times, ends as `processed` or
  `dead_letter`, is `processed` only when `webhook_events` holds it, and is handled
  twice only if a crash or database error lost the record of the first time.
* A claim is won by one task; as long as one process uses the database, the token that
  task works with is its own, and a task that lost its lease changes nothing.
* Locks and permits always come back.
* A queued notification is finally sent or dismissed, is sent again only after a
  failure, and is not posted once it was dismissed.
* An outgoing action is not repeated for the same identity unless an answer, a
  record or the process was lost.
* Only unambiguous spam is archived; a flagged legal threat is forwarded to the legal
  team, but for the routes that come before it, and is not left to the language model.
* A message whose handling broke off is not acknowledged unhandled; a sender's
  appeal is answered with one template; a case with a review ticket gets no second
  one; a conversation that was handed off stays open.
* A customer's message that waited too long is reminded of, and once; what a scan
  has not looked at is not hidden by what it has.
* A draft that was found to be answered stays so.

Most of these hold with exceptions, which the properties name one by one and section 4
explains.

## 3. Modules

| Module | Models |
|---|---|
| `WebhookInbox` | the rows of `webhook_inbox` and each statement on them, one action a transaction |
| `FrontWebhook` (extends it) | tasks of the server processes: requests, retry job, locks, semaphore, claim, ledger check, handling, recording, completing, failing; database errors, crashes, time |
| `DurableDelivery` | the abstract promise of the webhook service; `FrontWebhook` implements it |
| `FrontWebhookProofs` | the theorems about `FrontWebhook` |
| `SybilDigest` | notifications, queueing, digest runs, dismissal |
| `SybilDigestProofs` | the theorems about it |
| `ActionLedger` | `execute_tool_call` with its ledger and locks |
| `ActionLedgerProofs` | the theorems about it |
| `RoutePolicy` | the decision tables of `classification.py` and `routing.py`, without state |
| `RoutePolicyProofs` | what the tables guarantee for any classification |
| `ConversationFlow` (extends it) | `handle_email` on the conversations of one sender: early returns, linked appeals, routes, the agent loop and its guards, failures and the state they save |
| `OpsMaintenance` (extends it) | auto-close and metadata enrichment over the same rows, and crashes |
| `OpsMaintenanceProofs` | the theorems about tickets, hand-offs and who writes a row |
| `HandlingProofs` (extends it and `RoutePolicyProofs`) | the theorems about routes, lost messages, templates, and types |
| `FrontTimeline` | what people do in Front, the step of a conversation and the checks of the scan, which the next two share |
| `UnansweredReminders` (extends it) | the reminder scan |
| `DraftAdoption` (extends `FrontTimeline`) | the classification of drafts and the refreshes of their rows |
| `TimelineJobs` | composes these two |
| `TimelineJobsProofs` | the theorems about it |
| `MCFrontWebhook`, `MCSybilDigest`, `MCActionLedger`, `MCConversationFlow`, `MCTimelineJobs` | instances for TLC |

### How state and actions correspond to the code

`FrontWebhook`. `inbox` is the table, with the status names of the code. `wait` and
`lease` are the minutes until `available_at` and `lease_expires_at`, because the code
compares those timestamps with the current time only; `Tick` is one minute. `ledger` is
`webhook_events`. `pc[w]` is the `await` at which task `w` stands: `lookup`
(`get_webhook`), `lock` and `slot` (the two `async with`), `claim` (the committed update),
`reread` (the select after it), `check` (select on `webhook_events`), `handle`, `record`
(insert into it), `complete`, `fail_read` and `fail_write` (the select and the update of
`fail_webhook`). `won[w]` is the token that the task's own update wrote, `token[w]` is
`claim.lease_token`, the one it read back; a fresh `uuid4` is the number of the claim.
`convLock` and `permits` are the asyncio locks and semaphore of each process. `claims`,
`handled` and `faults` are history. `handle_email` is its outcome: it succeeds, raises, or
the message is ignored. What it does to the outside is the subject of the other modules.

`SybilDigest`. `rows` is the table, `rows[i].error` the column in which a digest keeps
its lease. `QueueRead` and `QueueWrite` are the select and the flush of
`queue_sybil_notification`, which are two statements without a lock. `StartDigest`
reads the rows being sent, `ClaimBatch` is the rest of the claiming transaction (the
module's header says why that is one action), `SelectClaimed` reads the text,
`Post`/`PostFails` are Feishu's two routes, `MarkSent`/`Restore` the final update.
`Fitting` is the number of notifications that survive the client's cut of the text at
3500 characters.

`ActionLedger`. An identity is a conversation and a key; ticket keys have a sender. A
ticket without a trusted sender or message has one of `TitleKeys` instead: it is an
action of its conversation, without a window and without a review.
`Call` computes it, `TakeLock` is the `async with`, `CheckLedger` is
`_existing_action`, `Review` the semantic check of tickets, `Act`, `ActRefused` and
`ActUnanswered` are what the provider may do, `Record` is `_should_record_result` and
`record_action`. `left` is what remains of the 24 hours of a row. A result is `done`,
`failed`, `marked` (a ticket whose URL holds one of the words that
`_should_record_result` looks for) or `empty` (Linear answered without an issue, which
the code reports as created).

`RoutePolicy`. A text is the set of pattern families that match it, a classification
a category, a sub-type, the flag `legal_threat` and the families its summary and
evidence match. `Rules` has the rules of `decide_initial_route` in their order;
`InitialRoute` takes the first that holds.

`ConversationFlow`. `row` is `conversation_states`: category, sub-type, step, whether
the payload has a `linear_url`, the age of `waiting_since`, and whether the Ops page
lacks a summary. `msg` is the customer's messages: a mail is the pattern families of its
subject and body (`text`), which the handler of the conversation reads, and those of what
a transcript shows (`shown`: bodies only, cut at the end), which is all that handlers of
other conversations read. `away` is the conversations moved out of the Support inboxes;
`Ignore` is the check that every attempt makes first.

`run[c]` is the one handler of a conversation (its lock is in `FrontWebhook`), with
`old`, the state it read first, and `pc`, the await at which it stands: `classify`, `link`
(the follow-up of a linked appeal), `route`, `loop` (the agent loop), `save` and `put` (the
commit of `set_state`, at the end of the handling and within the loop), `refresh` (the
loading of the row after a commit in the loop) and `error`. `copy` is the row as the
handler's session has it loaded. `set_state` assigns every column of that object, but the
session writes only those that differ from what it loaded (`Flushed`), so what a job wrote
meanwhile may survive a save or be overwritten by it. `BeginAppeal` and `BeginCase` read
the state and at most `LinkLimit` other conversations of the sender (five in the code);
`SkipReply` is the early return. `keep` is `keep_open_state_step`: a hand-off sets it, and
a ticket does unless its URL, which holds the title, reads like a failure (`AfterTicket`).
The language model may make any of four calls in any order: a ticket, a hand-off, a move
to another inbox, `state_set` with one of `ModelStates`; calls that change nothing here
are left out. `SaveError` is the webhook's error path, after which the event is delivered
again. `opened`, `known`, `forgot`, `repeated`, `tried`, `covered`, `unsaved` and
`mistaken` are history.

`OpsMaintenance`. `close` is what auto-close selected and has still to archive, with
its single commit at the end; it writes `step` and `waiting_since` only, because the
ORM updates changed columns. `copies` is what enrichment read before its requests;
`WriteBack` writes the whole payload. `closedOver` is history.

`FrontTimeline`, `UnansweredReminders`, `DraftAdoption`. `items` is the messages and
comments of a conversation with their times, `checks` the rows of type
`unanswered_email_sla`. `FirstPage` is what the client fetches of them. `updated` is the
time of the last change; `Stamp` is what `_timestamp` makes of a search result, which is
the time the conversation began for those (`Dated`) whose result carries `created_at`.
The row of `conversation_states` is `step` and `waiting`, which `SaveState` changes, and
`acted` is the conversations with another recorded action (`RecordAction`), which leaves
the step alone. `Search` is `_candidate_conversations`, `Load` one snapshot, and `Skip`,
`Settle`, `Remind` and `RecordReminder` the branches of the loop; a failed commit ends the
scan, because the session is not rolled back. A refresh is one draft's turn in
`refresh_draft_adoptions`: `existing` is the row it read first, and each of
`LoadMessages`, `ReadEvidence`, `LoadComments`, `LoadStatus` adds evidence and
classifies anew; `WriteStatus` is the commit.

## 4. Runs

| Run | Instance | Shows |
|---|---|---|
| `webhook_safety` | 1 process, 2 events of a conversation, 2 requests and the retry job, 2 attempts, 1 fault | rows recoverable, ledger before `processed`, a task's token is its own, mutual exclusion, nothing leaks, no repetition without a fault |
| `webhook_overlap` | 2 processes, 1 event, a task in the old one, a request and the retry job in the new one (1 permit, batches of 1), 2 attempts, 1 fault | a claim has one winner, a lease ends by its token or by time, refinement of `DurableDelivery`, every event settles |
| `webhook_settled` | as small as the case allows | violation: a recorded event can be dead-lettered |
| `sybil_digest` | 2 digest runs, 3 queue calls, 2 faults, text of 1 | final states are final, one owner of a claim, repetition needs a fault, sent only if accepted |
| `sybil_daily` | 1 digest run, 2 conversations, 1 fault | every row settles, dismissed is not posted |
| `sybil_lost` | no faults | violation: a message overwritten while it was posted is marked sent |
| `sybil_clipped` | no faults | violation: notifications cut off the digest are marked sent |
| `action_ledger` | 2 tasks, 2 requests of a sender in 2 conversations, 1 ticket without a sender, 3 calls, 1 fault | the check holds when the write is made, no repetition without a fault or an answer that reads like one, skipped only if performed, every call returns |
| `ledger_window` | 1 request, 3 calls, no faults | violation: a ticket after the window is not recorded |
| `conversation_flow` | 3 conversations of a sender, 4 messages (4 mailboxes), `LinkLimit` 1, 3 tool calls in one conversation, 1 fault | the decision tables over all classifications; no message lost from sight, one template, one ticket, hand-offs stay open, only the owner writes, but for the named losses |
| `enrichment_overwrites` | the same, no faults | violation: enrichment overwrites a stored ticket |
| `timeline_jobs` | 2 conversations (1 draft, 1 with `created_at`), pages of 1, 2 refreshes, the scan, 2 events, 1 fault | reminders repeat only after a loss, a message is hidden only in the named cases; a scan serves what is due; verdicts are not taken back, gathering in stages is sound |

The largest are `timeline_jobs` (4.1 million distinct states), `conversation_flow`
(1.5 million), `action_ledger` (319,000) and `webhook_safety` (136,000).

**Bounds.** Six attempts become two, the first and the last, which is where the code
differs (the proofs are for any number). Two tasks that may share a lock and a third
behind them give every order of acquiring. With one permit only one task at a time is
inside, so the new process of `webhook_overlap` shows a task waiting for a permit but not
the lock at work; `webhook_safety` has two permits for that. Tasks of different
conversations that compete for one permit are in no instance; `NothingLeaks` is proved for
any number of both. One fault is enough to lose any one commit; two in the digest let a
run that recovers rows fail as well. Delays and leases are one minute, since only their
end matters. `MaxFaults`, `MaxQueued` and `MaxCalls` are bounds in guards, so liveness is
not cut off by a constraint. Four lease markers for two runs: a marker is drawn again once
nobody holds it. Two conversations of one sender are enough to link appeals in both
directions, a third is beyond a `LinkLimit` of one, and two messages in one of them let a
message fail, be retried and followed up; three tool calls give every order of a ticket, a
hand-off, a move and a saved state. The mailboxes are an education case with a later mail,
another case with a later appeal, appeals in two conversations of which one is in the
subject alone, and appeals in two conversations beside a third. The states the language
model may save are an education case with its ticket that waits, an account marked as
suspended and done, and one closed as spam. None of them is closed as spam and waits all
the same: auto-close could then write over it, and `LoneAppealIsDrafted` is not stated for
a model that asks for such a row. In `timeline_jobs` `MaxBusy` lets two of the scan and
the two refreshes be under way at once, since every property speaks of at most two; a page
of one item shows what the page of the code leaves out; the delays are one unit of time,
and one of the first mails is older than the start of reminding. `CHECK_DEADLOCK FALSE` is
used where calls, messages or events are bounded, which are the ledger runs and the last
three. Symmetry is used only in runs without liveness.

**Fairness.** A coroutine that can run is run (weak fairness of its step): every
client sets an HTTP timeout, so no call hangs for ever. Asyncio locks and semaphores
wake waiters in order (strong fairness of taking them). The scheduler fires the retry
job each minute and the digest each day; the clock advances. Nobody is obliged to
send, to dismiss, or to use the command line, and no fault is obliged to happen.
`conversation_flow`, `enrichment_overwrites` and `timeline_jobs` check safety only and
assume no fairness.

### What the exceptions in the properties stand for

Several properties name the cases in which the code does not keep the plain promise. Those
of `NothingUnseen`, `OneTemplatePerSender`, `LoneAppealIsDrafted` and
`SecondTicketNeedsLoss` are each needed in the instance: without any one of them TLC finds
the property violated. Where a document promises more, it is listed below.

* `UniqueOwner`: with two processes a task may read back the token of a later claim, when
  its lease ran out between its update and its read; both tasks then hold that token, and
  the slower can end the claim of the other. It never reads back an earlier one.
* `RepeatNeedsFault` of the ledger leaves out requests, whose window ends by itself, and
  tickets whose URL holds "failed", "blocked" or "unknown_tool", which are not recorded.
* `SecondTicketNeedsLoss`: the row of an education case loses its `linear_url` when the
  error path, an initial route, another category or an older copy of enrichment replaces
  the payload; the next follow-up may then open another ticket.
* `NothingUnseen`: when a crash leaves a state behind, or the error path fails, or
  auto-close turns the failure into `done`, the retried event is skipped as a reply; when
  the conversation was moved to another inbox before the failure, the retry is recorded as
  ignored before `handle_email` is called. An explicit appeal that comes in between also
  replaces the failed state.
* `OneTemplatePerSender`: an appeal that is explicit by its subject alone, or beyond the
  6000 characters of a transcript, is not seen by the handler of another conversation, and
  neither is one outside the conversations it looks at.
* `LoneAppealIsDrafted`: two simultaneous appeals of one sender in two conversations are
  each taken for a follow-up of the other, and neither gets the template. Even the only
  appeal of a sender may be left without one (`mistaken`): the row already says
  `account_suspended`, because the language model saved that, as `skills/education.md:215`
  tells it to, or the classifier paired it with a category whose route is the agent loop,
  and the appeal then counts as a follow-up of its own row.
* `LegalThreatsEscalate`: a creator's offer, an unclear category and a suspension come
  before the legal rule; the first goes to the marketing inbox, the second to Bobby, and
  for the third a template is drafted.
* `HandOffStaysOpen` covers states saved after the hand-off. One saved before it in the
  same run keeps its step, the direct notice for emotional messages is no hand-off to the
  guard, and neither is a ticket whose URL reads like a failure. A row that waits with step
  `done` is never closed by auto-close.
* `FollowUpKeepsTicket` is about what a save takes away. A ticket that enrichment dropped
  meanwhile is not always put back: a payload equal to the loaded one is not written.
* `RepeatedReminderNeedsLoss`: a reminder whose answer or record is lost is sent again.
* `HiddenNeedsOverlap`: a check recorded after a newer message had arrived is newer than
  that message, which then waits for the next change of the conversation. Where a search
  result carries `created_at`, `_timestamp` takes that before `updated_at`, and after its
  first check the conversation is never looked at again. The tests only have results
  without it (`tests/test_unanswered_reminders.py:65-84`); what Front answers is outside
  the repository, so the model has both.
* `ScanServesDue` is about scans in which nothing failed and the conversations they took.
  A failed commit ends the scan; conversations that are never recorded (too early, or not
  loaded) may fill the ten places for as long as they are the newest; and the customer's
  mail may be pushed off the first page by later ones.
* `HandledNeedsWork`: the checks of the reminder scan and the hand-off after an error are
  recorded actions, so a draft whose customer was merely reminded of, or whose later
  message failed, is `handled_without_send`.
* `VerdictOnlyImproves`: a refresh that read the row before another settled it, or a
  forced one that cannot reach Front or no longer finds every answer on the first page,
  takes a reply back.

### Disagreements with the documents

Shown by a run:

1. `webhook_settled`: a crash between the `webhook_events` commit and
   `complete_webhook` on the last attempt leaves an expired lease, and `claim_webhook`
   then writes `dead_letter`. The design lists "`webhook_events` already contains the
   event ID" as a successful outcome.
2. `sybil_lost`: `queue_sybil_notification` may overwrite the message of a row that a
   digest has read; the row is then marked sent with a message nobody saw.
3. `sybil_clipped`: a digest longer than 3500 characters loses its end, and all its
   rows are marked sent.
4. `ledger_window`: `record_action` keeps the row that is older than the window, so a
   second ticket of the same conversation and message is not remembered.
5. `enrichment_overwrites`: the metadata job writes back the payload it read before its
   request, over a ticket or a summary saved meanwhile; `README.md:385` and
   `docs/runtime-boundaries.md:176-178` say that it never overwrites stored values.

Seen in the model, as exceptions of the properties above, without a run of their own:

6. A later claim's token may reach the worker of an earlier one (`UniqueOwner`), although
   `docs/superpowers/specs/2026-07-14-durable-webhook-recovery-design.md:121-122` says that
   a stale worker cannot overwrite the result of a later claim. It takes two processes.
7. `README.md:101` lists the flag `legal_threat` with the route to the legal team; a
   creator's offer, an unclear category and a suspension are routed elsewhere although they
   carry it (`LegalThreatsEscalate`; the order of the rules in `agent/routing.py`).
8. `agent/routing.py:156-159` says that a suspension always receives its draft; one that
   was marked before by the language model or by the classifier may not
   (`LoneAppealIsDrafted`).

## 5. Proofs

Every safety invariant and action property that a passing run checks is also a theorem
(but for `LoneAppealIsDrafted`), and so is the refinement, for every value of the
constants that the assumptions allow: any sets of tasks, conversations, messages, keys and
markers (finite where they are counted), any bounds, any number of faults. None of the
properties is inductive by itself; each module below names the invariant that is, and what
it adds.

The assumptions are the named ones of the modules, which TLC evaluates in each run. They
say that bounds are numbers, tables have their domains, and null values are no members.
Three say more: `StatesAssumption` and `AnswersAssumption` (what the language model asks
to save is a row, and the classifier's answer is normalized or unreadable, which
`set_state` and `normalize_classification` ensure), and the part of
`TimelineAssumption` by which one conversation is the latest to begin. A few theorems
have hypotheses of their own, which are stated in them and explained here.

### `FrontWebhookProofs`

`TypeCorrect`, `RowsStayRecoverable`, `OwnersAreUnique`, `StaleWorkersAreHarmless`,
`TasksExclude`, `NeverLeaks`; `Refinement`: every step of `FrontWebhook` is a step of
`DurableDelivery` or leaves its variables alone. `RepeatsTakeFaults` and
`RecordedIsNotRepeated` assume `OneProcess`, because two processes may handle an event at
once (section 6).

`InductiveInvariant` adds: `claims` counts the attempts of a row and bounds every token
ever written; the token of a row being processed is the latest claim; each claim is won by
one task, and the token that task has read back is no earlier than it (`Winners`); a task
at `complete` has its event in the ledger; the attempts a task has `seen` are those of the
row as long as the row still has its token. From these, a late `fail_webhook` matches no
row, and giving up after `attempts` reached the limit is the abstract "given up after the
last try". That with one process the token is the task's own needs the lock, which is held
from the update to the read (`OwnClaim`, an induction on top of the next one).
`MutexInvariant` is a second induction: locks are held by exactly the tasks between
`slot` and the end, and the permits missing from a process are as many as its tasks
inside. `RepeatInvariant` rests on both: with one process one task at a time is past the
lock with an event, so what `check` read stays true until `record`, and each success of
`handle_email` is in the ledger, about to be, or lost to a fault.

### `ActionLedgerProofs`

`TypeCorrect`, `ChecksStayTrue`, `RecordsAreBacked`, `RepeatsTakeFaults`. The invariant
says that a task inside the block holds the lock of its identity (`LockHeld`), so no
other task of that identity is inside; that a good answer stands for an accepted write
(`ResultBacked`); and that of the writes of an identity a fault has paid for all, or for
all but one that the ledger holds or a task is about to record (`RepeatsPaid`). The
last is what makes the count inductive: a lost answer pays at once for a write that
another call will repeat later. It counts what the property counts: neither requests,
whose window ends by itself, nor the writes whose answer reads like a failure.

### `SybilDigestProofs`

`TypeCorrect`, `SentRowsWereAccepted`, `StaleDigestsAreHarmless`, `FinalStatesStay`,
`RepostsTakeFaults`, `DismissedStaysUnposted`. The invariant `IInv` (types and `Leases`)
says that runs at work have different markers, that a run's list of lapsed rows has only
rows whose lease passed, and that a row under a run's marker was claimed by that run and,
once the text is made, is in it. A run's final update therefore reaches only rows that
were in its own text.

`RepostsTakeFaults` is an account: for each row and message, the posts made so far, one
if the row may still be taken for another post (`Open`), the runs that may still post it
(`Carriers`) and the runs whose lease ran out before their text was made (`Prepaid`) are
together at most `1 + faults`. Each step moves one of these to another, or a fault pays.
A row on which a run in time is at work is not open (`Covered`), which is where the
leases come in. `DismissedStaysUnposted` assumes `Digests = {Daily}`: with a
command-line run beside the daily one the property is false (section 6).

### `TimelineJobsProofs`

`RepeatsNeedLoss`, `SkipHidesOnlyOvertaken`, `DueIsServed` from `ScanInv`: whatever the
scan has decided, or a check says, was right of the timeline it was read from, and what is
closed stays closed because timelines only grow (`DecisionsSound`, `ChecksSound`); while
nothing has failed, what was due at the search is closed or is still on the scan's lists
(`OwedKept`), and what was reminded of has its check or gets it next (`NoLoss`); a check
as new as the last change is about the latest mail or came from an overtaken scan
(`FreshChecks`), which decides the skip wherever the search tells the last change.
`Closed` has the case that later mails push the customer's off the first page, where it
then stays, since pages only move on. `TypeCorrect`, `HandledWasWorkedOn`,
`VerdictsOnlyImprove`, `StagesOnlySkipComments` from `AdoptionInv`: what a status says of
a conversation is so and stays so, and the evidence of a stage that was reached has
settled nothing yet.

### `RoutePolicyProofs` and the orchestrator

`ThreatsAreRouted` and `ArchivesAreClear` hold for every classification. They go through
`FirstRouteRule`, that `InitialRoute` is the first rule that holds.

`OpsMaintenanceProofs`: `SecondTicket`, `KeepOpen`, `KeepTicket`, `OwnerOnly`. `IInv` adds
to `SecondTicketNeedsLoss` that a ticket which a row ever showed is still there or is
among those `forgot` (`KnownOrForgot`), and that a handler which began with a known ticket
either read it into `old` or its row had lost it (`HandlerKnows`). A ticket is opened only
when `_blocked_reply_tools` does not see one in `old`, so one that was known must have
been lost. What `SetState` asks for has been through the two guards (`Guarded`), and
`FlushedRow` carries that to the table: each column then has the guarded value or is left
as it was. That is why `HandOffStaysOpen` and `FollowUpKeepsTicket` speak of what a save
changes: a column left alone may hold what a job wrote. The related conversations and the
decision tables play no part here.

`HandlingProofs`: `LegalThreats`, `ArchivesUnambiguously`, `NothingStaysUnseen`,
`OneTemplate`, `TypeCorrect`. `HInv` adds to `IInv`

* `HandlersAtWork`: the handler's message is pending and among those it saw, and the
  classification it goes by is the one its own text forces, if it forces one;
* `CopiesFit`: what a handler's session has loaded has the step and the wait of the row,
  unless auto-close wrote over it. Only so does the failed state reach the row: of the
  error path's save, too, only the columns that differ from the loaded copy are written;
* `FailuresWait`: a message that is `tried` and has no excuse waits with the failed row,
  or is among the messages that the conversation's handler saw;
* `OneDraft`: while nothing has failed, transcripts show every appeal and no conversation
  is beyond the limit, the explicit template is in, or on the way to, one conversation, and
  Front shows the appeal there. Two handlers that begin at the same time cannot both miss
  the other's mail, because Front has a message before its handler.

`TInv` adds what handlers hold at each place. `TypeOK` is about the words that the code,
the classifier and the model put into a row, and no route leaves a step to be saved that
is not one of them.

**Only model-checked:** `LoneAppealIsDrafted`, whose instance leaves out a state of the
language model that the code allows (section 4, bounds); and liveness, `EventuallySettled`,
`EveryRowSettles` and `EveryCallReturns`, which is outside the prover's reach, and with it
the fairness. The five violations are counterexamples and need no proof.

## 6. What is not modelled, and limits

* Sessions and the login limit: a list in one process's memory, changed without an await, so
  its edges are settled by unit tests. The Ops pages and reports are reads.
* The metrics over draft adoptions: sums computed on read.
* Liveness of `handle_email` and of the jobs: a handler ends because each of its steps does,
  and its event is settled by `FrontWebhook`; that a reminder is finally sent does not hold
  (see `ScanServesDue`).
* In the scan: `dry_run`, the branch for closed conversations, which the search has already
  removed, and scans of two processes at once. Its two requests for one conversation are
  read at one moment.
* In `handle_email`: prompts, comments, attachments, case memory, the repair of
  `sender_email`, and the 30 days within which conversations are linked.
* Draft adoption: a draft without the hash of its body, since every recorded draft has one
  in its key.
* Two handlers in two processes may work on one event at once when a lease runs out; the
  code fences the row, not the outside. Repetition is therefore stated for one process.
* The operator's dismissal is checked against one digest run at a time. With a command-line
  run beside the daily one, a queue write that clears the `error` column frees a row that is
  being posted, and it can be dismissed before it appears.
* HTTP clients, HTML, search and billing: I/O and text. Signature checks and JSON parsing
  come before any state.
* Growth of the conversation-lock table: memory only.

## 7. Plan

1. Done: `WebhookInbox`, `FrontWebhook`, `DurableDelivery`, proofs; `SybilDigest`;
   `ActionLedger`.
2. Done: `RoutePolicy`, `ConversationFlow`, `OpsMaintenance`, proofs; `FrontTimeline`,
   `UnansweredReminders`, `DraftAdoption`, `TimelineJobs`.
3. Done: proofs of the safety invariants and action properties of the runs, in
   `ActionLedgerProofs`, `SybilDigestProofs`, `TimelineJobsProofs`, `RoutePolicyProofs`,
   `OpsMaintenanceProofs` and `HandlingProofs`.
4. Left: an abstract specification of the digest (a queue whose rows are claimed, sent or
   dismissed) and of the ledger, with refinements like that of `DurableDelivery`; the
   digest's theorem on dismissed rows for several runs, in the weaker form that holds;
   `LoneAppealIsDrafted` for every value of the constants; scans of overlapping processes.
