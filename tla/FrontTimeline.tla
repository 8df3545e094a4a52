----------------------------- MODULE FrontTimeline -----------------------------
(* What the reminder scan and the draft metrics read: the timelines of the     *)
(* conversations in Front, which other people write and of which front.py      *)
(* fetches the first page, the rows of conversation_actions, and the step and  *)
(* the waiting time of conversation_states.                                    *)
EXTENDS Naturals, Sequences, SequencesExt

CONSTANTS
  Convs,
  FirstMail,   \* the time of the customer mail each conversation began with
  Drafted,     \* the conversations a draft was created for at that time
  Dated,       \* those whose search result carries the time they began
  PageSize,    \* the messages, and the comments, of a first page
  Steps,       \* the steps that are saved
  Kinds,       \* the kinds of items that people add
  MaxTime,     \* bound of the clock
  MaxEvents,   \* bound of what people do
  MaxFaults    \* bound of failed requests, failed commits and crashes

VARIABLES
  now,
  events,    \* how often people acted
  items,     \* messages and comments of each conversation: kind and time
  open,      \* the conversations that are open
  updated,   \* the time of each conversation's last change
  step,      \* the step in conversation_states
  waiting,   \* the conversations with a waiting_since
  acted,     \* the conversations with another recorded action since the draft
  stepped,   \* history: the conversations that had a step of a handled case
  checks,    \* the scan's rows in conversation_actions: message and time
  faults

rows == <<step, waiting, acted, stepped>>
front == <<now, events, items, open, updated, rows>>
timelineVars == <<front, checks, faults>>

Times == 0..MaxTime
\* customer    a customer's mail
\* reply       a sent mail to the customer; exact: with the body of the draft
\* internal    a teammate's mail that Front marks as inbound
\* bobby       Bobby's comment; bobby_wait: one that says it is waiting
\* robot       a comment of the API user
CommentKinds == {"bobby", "bobby_wait", "robot"}
ItemKinds == {"customer", "reply", "exact", "internal"} \cup CommentKinds

\* The steps by which classify_draft_adoption takes a case for handled, and the
\* kinds of steps that are saved: a new draft, one that waits, one that is handled.
HandledSteps == {"done", "forwarded_keep_open", "moved_inbox", "ticket_created", "closed_spam"}
StepNames == {"draft_created", "awaiting", "forwarded_keep_open"}

\* There are conversations, and one of them is the latest to begin.
ASSUME TimelineAssumption ==
  /\ MaxTime \in Nat /\ MaxEvents \in Nat /\ MaxFaults \in Nat
  /\ IsFiniteSet(Convs)
  /\ FirstMail \in [Convs -> Times]
  /\ \E c \in Convs : \A d \in Convs : FirstMail[d] <= FirstMail[c]
  /\ Drafted \subseteq Convs /\ Dated \subseteq Convs
  /\ PageSize \in Nat \ {0}
  /\ Steps \subseteq StepNames
  /\ Kinds \subseteq ItemKinds

Latest(s) == CHOOSE i \in s : \A j \in s : j.at <= i.at
Fault == faults < MaxFaults /\ faults' = faults + 1

\* get_conversation_messages and get_conversation_comments: a first page each,
\* the newest first.
SameList(i, j) == i.kind \in CommentKinds <=> j.kind \in CommentKinds
Newer(c, i) == {j \in items[c] : SameList(i, j) /\ j.at > i.at}
FirstPage(c) == {i \in items[c] : Cardinality(Newer(c, i)) < PageSize}

\* _timestamp of a search result: created_at comes before updated_at.
Stamp(c) == IF c \in Dated THEN FirstMail[c] ELSE updated[c]

Change(c) ==
  /\ now < MaxTime /\ events < MaxEvents
  /\ now' = now + 1 /\ events' = events + 1
  /\ updated' = [updated EXCEPT ![c] = now + 1]

\* Somebody writes.  A customer's mail opens the conversation again.
Write(c) ==
  /\ Change(c)
  /\ \E kind \in Kinds :
       /\ items' = [items EXCEPT ![c] = @ \cup {[kind |-> kind, at |-> now + 1]}]
       /\ open' = IF kind = "customer" THEN open \cup {c} ELSE open
  /\ UNCHANGED <<rows, checks, faults>>

Archive(c) ==
  /\ c \in open
  /\ Change(c)
  /\ open' = open \ {c}
  /\ UNCHANGED <<items, rows, checks, faults>>

\* A tool that is recorded: a ticket, a forward, or the hand-off to Bobby after a
\* handler's error.  It leaves the step alone.
RecordAction(c) ==
  /\ c \in Drafted
  /\ events < MaxEvents /\ events' = events + 1
  /\ acted' = acted \cup {c}
  /\ UNCHANGED <<now, items, open, updated, step, waiting, stepped, checks, faults>>

\* set_state, or the stale close: any step, with or without a waiting time.
SaveState(c) ==
  /\ c \in Drafted
  /\ events < MaxEvents /\ events' = events + 1
  /\ \E new \in Steps :
       /\ step' = [step EXCEPT ![c] = new]
       /\ stepped' = IF new \in HandledSteps THEN stepped \cup {c} ELSE stepped
  /\ waiting' \in {waiting \cup {c}, waiting \ {c}}
  /\ UNCHANGED <<now, items, open, updated, acted, checks, faults>>

Tick ==
  /\ now < MaxTime
  /\ now' = now + 1
  /\ UNCHANGED <<events, items, open, updated, rows, checks, faults>>

TimelineInit ==
  /\ now = CHOOSE t \in Times :
       t \in {FirstMail[c] : c \in Convs} /\ \A c \in Convs : FirstMail[c] <= t
  /\ events = 0
  /\ items = [c \in Convs |-> {[kind |-> "customer", at |-> FirstMail[c]]}]
  /\ open = Convs
  /\ updated = FirstMail
  /\ step = [c \in Convs |-> IF c \in Drafted THEN "draft_created" ELSE "none"]
  /\ waiting = {} /\ acted = {} /\ stepped = {}
  /\ checks = [c \in Convs |-> {}]
  /\ faults = 0

People == \E c \in Convs : Write(c) \/ Archive(c) \/ RecordAction(c) \/ SaveState(c)
================================================================================
