--------------------------- MODULE ConversationFlow ----------------------------
(* agent/orchestrator.py: handle_email on the conversations of one sender, the *)
(* rows of conversation_states that it reads and writes, and the error path of *)
(* webhooks/front_webhook.py.  A conversation has at most one handler, because *)
(* the webhook holds its lock (FrontWebhook); a message that was not finished  *)
(* is delivered again.  pc is the await at which a handler stands.             *)
EXTENDS RoutePolicy, FiniteSets

CONSTANTS
  Convs,        \* conversations of one sender
  Msgs,         \* messages the customer may send
  ConvOf,       \* the conversation of each message
  Mailboxes,    \* what the customer may write: a mail or NoMail for each message
  NoMail,
  LinkLimit,    \* related conversations that a handler looks at
  RawAnswers,   \* what the classifier may answer
  ModelStates,  \* the rows the language model may ask state_set to save
  MaxCalls,     \* tool calls in each conversation
  MaxFaults     \* exceptions and crashes

\* A mail: what its subject and body say together, and what a transcript of its
\* conversation shows of it, which leaves out the subject and is cut at its end.
Mail(text, shown) == [text |-> text, shown |-> shown]
Mails == [text : SUBSET CustomerWords, shown : SUBSET CustomerWords]

ASSUME FlowAssumption ==
  /\ ConvOf \in [Msgs -> Convs]
  /\ IsFiniteSet(Convs)
  /\ Mailboxes \subseteq [Msgs -> Mails \cup {NoMail}]
  /\ LinkLimit \in Nat
  /\ MaxCalls \in [Convs -> Nat]
  /\ MaxFaults \in Nat

VARIABLES
  row,        \* conversation_states: category, sub-type, step, whether the
              \* payload has a linear_url, the wait of waiting_since, and whether
              \* the Ops page misses a sender or a summary
  msg,        \* the messages: mail and state of delivery
  run,        \* the handler of each conversation
  ticketed,   \* messages whose ticket is in conversation_actions
  template,   \* template drafts: conversation, and for which kind of appeal
  away,       \* conversations that were moved out of the Support inboxes
  faults,
  calls,      \* tool calls of the agent runs of each conversation
  \* history
  opened,     \* tickets opened in each conversation
  known,      \* conversations whose education row ever showed a ticket
  forgot,     \* conversations whose row lost that ticket again
  repeated,   \* conversations where a follow-up opened a ticket after one was known
  tried,      \* messages whose handling was broken off
  covered,    \* messages that a handler which finished its work had before it
  unsaved,    \* conversations in which a failure was not written to the row
  mistaken    \* conversations whose appeal was taken for a follow-up of a row that
              \* says suspension although no template was drafted

history == <<opened, known, forgot, repeated, tried, covered, unsaved, mistaken>>
flowVars == <<row, msg, run, ticketed, template, away, faults, calls, history>>

NoRow == [step |-> "none"]
Row(category, sub, step, url, wait, blank) ==
  [category |-> category, sub_type |-> sub, step |-> step, linear_url |-> url,
   waiting |-> wait, blank |-> blank]
FailedRow == Row("unclear", "none", "failed_needs_review", FALSE, "no", FALSE)

\* A handler: the message, the state it read first, the row as its session has it
\* loaded, the related conversations it found, the classification or route it acts
\* on, the row it asks set_state to save, and the step that the keep-open guard
\* remembers.
Idle == [pc |-> "idle"]
NoStep == "none"
Handler(pc, m, linked) ==
  [pc |-> pc, msg |-> m, old |-> row[ConvOf[m]], copy |-> row[ConvOf[m]], linked |-> linked,
   saw |-> {n \in Msgs : ConvOf[n] = ConvOf[m] /\ msg[n].state # "unsent"},
   knew |-> ConvOf[m] \in known,
   class |-> NoClass, save |-> NoRow, keep |-> NoStep]

--------------------------------------------------------------------------------
(* What handle_email decides from the row it reads and the text.               *)

\* Mutant: the error path's state is not recognised.
NoFailedRetry(old) == FALSE
IsFailedRetry(old) == old # NoRow /\ old.step = "failed_needs_review"

\* education_topic_classification
TopicOf(old, text) ==
  IF old = NoRow THEN SchoolCancellation(text)
  ELSE IF Suspension(text) # NoClass /\ Suspension(text).category = "education"
  THEN Suspension(text)
  ELSE IF old.category = "education" THEN NoClass
  ELSE IF EducationTopic(text) # NoClass THEN EducationTopic(text)
  ELSE SchoolCancellation(text)

InitialFlow(old, text) ==
  \/ old = NoRow
  \/ old.step \in {"initial", "done", "failed_needs_review"}
  \/ TopicOf(old, text) # NoClass

CreditNoteConfirmation(old) ==
  /\ old.category = "billing"
  /\ old.sub_type = "invoice"
  /\ old.step = "awaiting_credit_note_confirmation"

\* The early returns for replies on conversations that were handled before.
SkipsReply(old, text) ==
  /\ old # NoRow
  /\ ~IsFailedRetry(old)
  /\ \/ /\ old.category # "education"
        /\ ~CreditNoteConfirmation(old)
        /\ TopicOf(old, text) = NoClass
        /\ Suspension(text) = NoClass
     \/ old.step = "closed_spam"

\* _load_linked_conversation_history: at most LinkLimit conversations of the
\* sender, in an order that Front chooses.
Wrote(c) == \E m \in Msgs : ConvOf[m] = c /\ msg[m].state # "unsent"
Related(c) == {d \in Convs \ {c} : Wrote(d)}
LookedAt(c, seen) ==
  /\ seen \subseteq Related(c)
  /\ seen = Related(c) \/ Cardinality(seen) = LinkLimit

\* Mutant: the states alone.
NoAppealsInFront == {}

\* _linked_suspension_cases: a state of a suspension, or a transcript with an
\* explicit appeal.
SuspendedRows ==
  {d \in Convs : row[d] # NoRow /\ row[d].sub_type = "account_suspended"}
AppealsInFront ==
  {ConvOf[m] : m \in {n \in Msgs : /\ msg[n].state # "unsent"
                                  /\ Suspension(msg[n].mail.shown) # NoClass}}

\* Mutant: any earlier case is taken for an appeal.
OwnCaseAny(c) == IF row[c] # NoRow THEN {c} ELSE {}
OwnCase(c) == SuspendedRows \cap {c}

\* Mutants: the ticket's URL is not looked at; a follow-up saves the payload of
\* the model; a hand-off protects against archiving only; the model's own choice
\* of a conversation.
TicketBlockedByStep(old) ==
  old # NoRow /\ old.category = "education" /\ old.step = "forwarded_keep_open"
MergedNot(old, r) == r
CoercedSpam(keep, r) ==
  IF keep = NoStep \/ r.step # "closed_spam" THEN r ELSE [r EXCEPT !.step = keep]
PreparedNamed(c, named) == named

\* _blocked_reply_tools and _preserved_reply_payload
TicketBlocked(old) ==
  /\ old # NoRow
  /\ old.category = "education"
  /\ old.step = "forwarded_keep_open" \/ old.linear_url
Merged(old, r) ==
  IF TicketBlocked(old)
  THEN [r EXCEPT !.linear_url = @ \/ old.linear_url, !.blank = @ /\ old.blank]
  ELSE r

\* _remember_keep_open_step after a ticket, which it overlooks when the result reads
\* like a failure (the title is part of the URL), and _coerce_keep_open_state_args.
KEEP_OPEN_TERMINAL_STEPS == {"done", "closed_spam"}
AfterTicket(keep, marked) ==
  IF marked \/ keep # NoStep THEN keep ELSE "draft_created"
Coerced(keep, r) ==
  IF keep = NoStep \/ r.step \notin KEEP_OPEN_TERMINAL_STEPS THEN r
  ELSE [r EXCEPT !.step = IF r.category = "unclear" THEN "manual_review" ELSE keep,
                 !.waiting = "no"]

\* prepare_llm_tool_call overwrites the conversation that the model named.
PreparedConv(c, named) == c

\* The session of a handler keeps the object of the state it read first and does
\* not load it again; without one, set_state loads what the table has.
Loaded(c) == IF run[c].old # NoRow THEN run[c].copy ELSE row[c]

\* set_state assigns every column of the loaded object, but only those columns that
\* differ from what was loaded are written.  The payload is one column, and may
\* differ (anew) in what is not modelled of it; a new wait is always another time.
PayloadFields == {"linear_url", "blank"}
Assigned(copy, r, anew) ==
  LET differ == {f \in DOMAIN r : r[f] # copy[f]}
  IN  differ \cup (IF r.waiting = "fresh" THEN {"waiting"} ELSE {})
             \cup (IF anew \/ differ \cap PayloadFields # {} THEN PayloadFields ELSE {})
Flushed(old, copy, r, anew) ==
  IF copy = NoRow THEN r
  ELSE [f \in DOMAIN r |-> IF f \in Assigned(copy, r, anew) THEN r[f] ELSE old[f]]

--------------------------------------------------------------------------------
KnowsTicket(r) == r # NoRow /\ r.category = "education" /\ r.linear_url

\* Every writer of a row goes through here: the table and its history.
WriteRows(rows) ==
  /\ row' = rows
  /\ known' = known \cup {c \in Convs : KnowsTicket(rows[c])}
  /\ forgot' = forgot \cup {c \in Convs : KnowsTicket(row[c]) /\ ~KnowsTicket(rows[c])}

\* set_state of r by the handler of c, from where its object is loaded: the commit
\* is the next step.
Asks(c, pc, r) == run' = [run EXCEPT ![c].pc = pc, ![c].save = r, ![c].copy = Loaded(c)]
Commit(c, d) ==
  \E anew \in BOOLEAN :
    WriteRows([row EXCEPT ![d] = Flushed(row[d], run[c].copy, run[c].save, anew)])
\* A classified case is handled with the whole conversation before it, an
\* explicit appeal with its own text alone.
Finish(c) ==
  LET m == run[c].msg IN
  /\ run' = [run EXCEPT ![c] = Idle]
  /\ msg' = [msg EXCEPT ![m].state = "processed"]
  /\ covered' = covered \cup (IF Suspension(msg[m].mail.text) # NoClass THEN {m} ELSE run[c].saw)

\* The customer writes; Front shows the message at once and delivers an event.
Arrive(m) ==
  /\ msg[m].state = "unsent"
  /\ msg[m].mail # NoMail
  /\ msg' = [msg EXCEPT ![m].state = "pending"]
  /\ UNCHANGED <<row, run, ticketed, template, away, faults, calls, history>>

Ready(c, m) == run[c].pc = "idle" /\ ConvOf[m] = c /\ msg[m].state = "pending"

\* Every attempt first asks Front for the inboxes of the conversation: a message of
\* one that left the Support inboxes is recorded as ignored, without a handler.
Ignore(c, m) ==
  /\ Ready(c, m)
  /\ c \in away
  /\ msg' = [msg EXCEPT ![m].state = "processed"]
  /\ UNCHANGED <<row, run, ticketed, template, away, faults, calls, history>>

\* A status that is neither 200 nor transient lets the handler go on.
Unchecked(c) == IF c \in away THEN 1 ELSE 0

\* The early returns of handle_email come after the related conversations are read.
SkipReply(c, m) ==
  /\ Ready(c, m)
  /\ faults' = faults + Unchecked(c) /\ faults' <= MaxFaults
  /\ SkipsReply(row[c], msg[m].mail.text)
  /\ msg' = [msg EXCEPT ![m].state = "processed"]
  /\ UNCHANGED <<row, run, ticketed, template, away, calls, history>>

\* The related conversations that read like a suspension: by their state or an
\* appeal in the transcript, or by what else the code searches of them (a summary, a
\* reason, a reply of the team).  A failing request to Front leaves the states.
ReadLinked(c, linked) ==
  \E seen \in SUBSET Convs, unread \in {0, 1} :
    /\ LookedAt(c, seen)
    /\ linked \subseteq seen /\ seen \cap SuspendedRows \subseteq linked
    /\ unread = 0 => seen \cap AppealsInFront \subseteq linked
    /\ faults' = faults + Unchecked(c) + unread
    /\ faults' <= MaxFaults

\* An explicit appeal is linked to an earlier case or gets the template.
BeginAppeal(c, m) ==
  /\ Ready(c, m)
  /\ ~SkipsReply(row[c], msg[m].mail.text)
  /\ Suspension(msg[m].mail.text) # NoClass
  /\ \E linked \in SUBSET Convs :
       /\ ReadLinked(c, linked)
       /\ run' = [run EXCEPT ![c] =
            [Handler(IF linked \cup OwnCase(c) = {} THEN "route" ELSE "link", m,
                     linked \cup OwnCase(c))
               EXCEPT !.class = Suspension(msg[m].mail.text)]]
       /\ mistaken' = IF /\ linked = {} /\ c \in SuspendedRows
                         /\ \A kind \in {"explicit", "classified"} : <<c, kind>> \notin template
                      THEN mistaken \cup {c} ELSE mistaken
  /\ UNCHANGED <<row, msg, ticketed, template, away, calls, opened, known, forgot, repeated,
                 tried, covered, unsaved>>

BeginCase(c, m) ==
  /\ Ready(c, m)
  /\ ~SkipsReply(row[c], msg[m].mail.text)
  /\ Suspension(msg[m].mail.text) = NoClass
  /\ \E linked \in SUBSET Convs :
       /\ ReadLinked(c, linked)
       /\ run' = [run EXCEPT ![c] =
            Handler(IF InitialFlow(row[c], msg[m].mail.text) THEN "classify" ELSE "loop",
                    m, linked)]
  /\ UNCHANGED <<row, msg, ticketed, template, away, calls, history>>

\* _classify, or the topic the reply changed to; then the route.
Classify(c) ==
  LET h == run[c]
      text == msg[h.msg].mail.text
      topic == TopicOf(h.old, text)
  IN  /\ h.pc = "classify"
      /\ \E raw \in RawAnswers :
           LET cl == IF topic # NoClass THEN topic ELSE Classified(raw, text)
               suspended == /\ cl.category \in {"account", "education"}
                            /\ cl.sub_type = "account_suspended"
           IN run' = [run EXCEPT ![c].class = cl, ![c].pc =
                IF suspended /\ h.linked # {} THEN "link"
                ELSE IF InitialRoute(cl).tool = "skill" THEN "loop" ELSE "route"]
      /\ UNCHANGED <<row, msg, ticketed, template, away, faults, calls, history>>

\* _handle_linked_account_suspension_followup: comments, then a state that keeps
\* the payload of the row.
LinkAppeal(c) ==
  LET h == run[c] IN
  /\ h.pc = "link"
  /\ \E step \in {"manual_review", "failed_needs_review"} :
       /\ step = "failed_needs_review" => faults < MaxFaults
       /\ faults' = IF step = "failed_needs_review" THEN faults + 1 ELSE faults
       /\ Asks(c, "save", Row(h.class.category, "account_suspended", step,
                              h.old # NoRow /\ h.old.linear_url, "no", FALSE))
  /\ UNCHANGED <<row, msg, ticketed, template, away, calls, history>>

\* _execute_initial_route up to set_state, whose payload replaces the old one.  A
\* call that failed may have done its work.
RouteTool(c) ==
  LET h == run[c]
      route == InitialRoute(h.class)
      sub == IF route.sub_type = "none" THEN h.class.sub_type ELSE route.sub_type
      Result(step) == Asks(c, "save", Row(route.category, sub, step, FALSE, "no", FALSE))
      moved == IF route.tool \in InboxMoves THEN away \cup {c} ELSE away
      drafted == IF route.tool # "template_draft" THEN template
                 ELSE template \cup
                        {<<c, IF Suspension(msg[h.msg].mail.text) # NoClass
                              THEN "explicit" ELSE "classified">>}
  IN  /\ h.pc = "route"
      /\ \/ /\ Result(route.step)
            /\ template' = drafted /\ away' = moved
            /\ UNCHANGED faults
         \/ /\ faults < MaxFaults
            /\ faults' = faults + 1
            /\ Result("failed_needs_review")
            /\ \/ UNCHANGED <<template, away>>
               \/ template' = drafted /\ away' = moved
      /\ UNCHANGED <<row, msg, ticketed, calls, history>>

\* The commit of set_state that ends the handling.
Save(c) ==
  /\ run[c].pc = "save"
  /\ Commit(c, c)
  /\ Finish(c)
  /\ UNCHANGED <<ticketed, template, away, faults, calls, opened, repeated, tried, unsaved, mistaken>>

--------------------------------------------------------------------------------
(* _run_agent_loop: the tool calls of the language model, in any order.        *)

InLoop(c) ==
  /\ run[c].pc = "loop"
  /\ calls[c] < MaxCalls[c]
  /\ calls' = [calls EXCEPT ![c] = @ + 1]
Keeps(c, keep) == run' = [run EXCEPT ![c].keep = keep]

\* linear_create_ticket: the ledger may know this request, or the review may find
\* another ticket that means the same.  A result that reads like a failure is
\* neither recorded nor remembered.
CreateTicket(c) ==
  LET h == run[c] IN
  /\ InLoop(c)
  /\ ~TicketBlocked(h.old)
  /\ \/ /\ h.msg \in ticketed \/ opened[c] > 0
        /\ Keeps(c, AfterTicket(h.keep, FALSE))
        /\ UNCHANGED <<ticketed, opened, repeated>>
     \/ /\ h.msg \notin ticketed
        /\ \E marked \in BOOLEAN :
             /\ Keeps(c, AfterTicket(h.keep, marked))
             /\ ticketed' = IF marked THEN ticketed ELSE ticketed \cup {h.msg}
        /\ opened' = [opened EXCEPT ![c] = @ + 1]
        /\ repeated' = IF h.knew THEN repeated \cup {c} ELSE repeated
  /\ UNCHANGED <<row, msg, template, away, faults, known, forgot, tried, covered, unsaved,
                 mistaken>>

\* A hand-off that KEEP_OPEN_HANDOFF_TOOLS lists.
HandOff(c) ==
  /\ InLoop(c)
  /\ Keeps(c, "forwarded_keep_open")
  /\ UNCHANGED <<row, msg, ticketed, template, away, faults, history>>

\* A move to another team's inbox.
MoveInbox(c) ==
  /\ InLoop(c)
  /\ away' = away \cup {c}
  /\ UNCHANGED <<row, msg, run, ticketed, template, faults, history>>

\* state_set; the model cannot know a ticket that does not exist.
SetState(c) ==
  LET h == run[c] IN
  /\ InLoop(c)
  /\ \E s \in ModelStates :
       /\ s.linear_url => opened[c] > 0
       /\ Asks(c, "put", Coerced(h.keep, Merged(h.old, s)))
  /\ UNCHANGED <<row, msg, ticketed, template, away, faults, history>>

\* Its commit, and the loading of what the row is then, which is another query.
Put(c) ==
  /\ run[c].pc = "put"
  /\ \E named \in Convs : Commit(c, PreparedConv(c, named))
  /\ run' = [run EXCEPT ![c].pc = "refresh", ![c].copy = run[c].save]
  /\ UNCHANGED <<msg, ticketed, template, away, faults, calls, opened, repeated, tried, covered,
                 unsaved, mistaken>>
Refresh(c) ==
  /\ run[c].pc = "refresh"
  /\ run' = [run EXCEPT ![c].pc = "loop", ![c].copy = row[c]]
  /\ UNCHANGED <<row, msg, ticketed, template, away, faults, calls, history>>

\* The loop ends; a first handling that saved nothing is left for review.
EndLoop(c) ==
  LET h == run[c] IN
  /\ h.pc = "loop"
  /\ IF InitialFlow(h.old, msg[h.msg].mail.text) /\ row[c] = NoRow
     THEN /\ Asks(c, "save", Row(h.class.category, h.class.sub_type, "failed_needs_review",
                                 FALSE, "no", FALSE))
          /\ UNCHANGED <<msg, covered>>
     ELSE Finish(c)
  /\ UNCHANGED <<row, ticketed, template, away, faults, calls, opened, known, forgot, repeated,
                 tried, unsaved, mistaken>>

--------------------------------------------------------------------------------
(* Failures.                                                                   *)

\* Any await of the handler may raise; the error path will save a state that a
\* retry recognises.
Raise(c) ==
  /\ run[c].pc \notin {"idle", "error"}
  /\ faults < MaxFaults
  /\ faults' = faults + 1
  /\ Asks(c, "error", FailedRow)
  /\ UNCHANGED <<row, msg, ticketed, template, away, calls, history>>

GiveUp(c) ==
  /\ run[c].pc = "error"
  /\ run' = [run EXCEPT ![c] = Idle]
  /\ tried' = tried \cup {run[c].msg}

\* The state is saved, and the event fails.
SaveError(c) ==
  /\ GiveUp(c)
  /\ Commit(c, c)
  /\ UNCHANGED <<msg, ticketed, template, away, faults, calls, opened, repeated, covered, unsaved,
                 mistaken>>

\* That save may fail as well, which is only logged.
SaveErrorFails(c) ==
  /\ GiveUp(c)
  /\ faults < MaxFaults
  /\ faults' = faults + 1
  /\ unsaved' = unsaved \cup {c}
  /\ UNCHANGED <<row, msg, ticketed, template, away, calls, opened, known, forgot, repeated, covered,
                 mistaken>>

\* The process stops: no handler reaches its error path.
Busy == {c \in Convs : run[c].pc # "idle"}
StopHandlers ==
  /\ faults < MaxFaults
  /\ faults' = faults + 1
  /\ run' = [c \in Convs |-> Idle]
  /\ tried' = tried \cup {run[c].msg : c \in Busy}
  /\ unsaved' = unsaved \cup Busy
  /\ UNCHANGED <<row, msg, ticketed, template, away, calls, opened, known, forgot, repeated, covered,
                 mistaken>>

FlowInit ==
  /\ row = [c \in Convs |-> NoRow]
  /\ \E mailbox \in Mailboxes :
       msg = [m \in Msgs |-> [state |-> "unsent", mail |-> mailbox[m]]]
  /\ run = [c \in Convs |-> Idle]
  /\ ticketed = {}
  /\ template = {}
  /\ away = {}
  /\ faults = 0
  /\ calls = [c \in Convs |-> 0]
  /\ opened = [c \in Convs |-> 0]
  /\ known = {} /\ forgot = {} /\ repeated = {}
  /\ tried = {} /\ covered = {} /\ unsaved = {} /\ mistaken = {}

Handle(c) ==
  \/ \E m \in Msgs : Ignore(c, m) \/ SkipReply(c, m) \/ BeginAppeal(c, m) \/ BeginCase(c, m)
  \/ Classify(c) \/ LinkAppeal(c) \/ RouteTool(c) \/ Save(c) \/ EndLoop(c)
  \/ Put(c) \/ Refresh(c) \/ SaveError(c)
CallTool(c) == CreateTicket(c) \/ HandOff(c) \/ MoveInbox(c) \/ SetState(c)
================================================================================
