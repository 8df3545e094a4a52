---------------------------- MODULE OpsMaintenance -----------------------------
(* The jobs that write conversation_states beside the handlers: the auto-close *)
(* of tasks/scheduler.py and the enrichment of services/ops_metadata.py.  Both *)
(* read rows, wait for Front, and write what they made of the copies; neither  *)
(* takes the lock of a conversation.                                           *)
EXTENDS ConversationFlow

VARIABLES
  close,       \* the rows auto-close picked and those it has not archived yet
  copies,      \* the rows as enrichment read them, NoRow when written back
  closedOver   \* history: conversations closed although a handler had moved on or
               \* was at work

jobVars == <<close, copies, closedOver>>
vars == <<flowVars, jobVars>>

NoClose == [picked |-> {}, left |-> {}]
NoCopies == [c \in Convs |-> NoRow]

\* Ten days pass without an answer.
Age(c) ==
  /\ row[c] # NoRow /\ row[c].waiting = "fresh"
  /\ row' = [row EXCEPT ![c].waiting = "stale"]
  /\ UNCHANGED <<msg, run, ticketed, template, away, faults, calls, history, jobVars>>

Stale == {c \in Convs : row[c] # NoRow /\ row[c].waiting = "stale" /\ row[c].step # "done"}
SelectStale ==
  /\ close = NoClose
  /\ Stale # {}
  /\ close' = [picked |-> Stale, left |-> Stale]
  /\ UNCHANGED <<flowVars, copies, closedOver>>

\* resolve_conversation; what it returns is ignored.
ArchiveStale(c) ==
  /\ c \in close.left
  /\ close' = [close EXCEPT !.left = @ \ {c}]
  /\ UNCHANGED <<flowVars, copies, closedOver>>

\* Mutant: what is left to archive is not forgotten.
CloseRaisesHalf ==
  /\ close.left # {}
  /\ faults < MaxFaults
  /\ faults' = faults + 1
  /\ close' = [close EXCEPT !.picked = {}]
  /\ UNCHANGED <<row, msg, run, ticketed, template, away, calls, history, copies, closedOver>>

\* It may raise, and the job ends without its commit.
CloseRaises ==
  /\ close.left # {}
  /\ faults < MaxFaults
  /\ faults' = faults + 1
  /\ close' = NoClose
  /\ UNCHANGED <<row, msg, run, ticketed, template, away, calls, history, copies, closedOver>>

\* One commit; it writes step and waiting_since, and only those.
CommitClose ==
  /\ close.picked # {} /\ close.left = {}
  /\ WriteRows([c \in Convs |->
       IF c \in close.picked THEN [row[c] EXCEPT !.step = "done", !.waiting = "no"]
       ELSE row[c]])
  /\ closedOver' = closedOver \cup
                    {c \in close.picked : row[c].waiting # "stale" \/ run[c].pc # "idle"}
  /\ close' = NoClose
  /\ UNCHANGED <<msg, run, ticketed, template, away, faults, calls, opened, repeated, tried,
                 covered, unsaved, mistaken, copies>>

\* enrich_missing_conversation_metadata selects its rows once ...
SelectBlank ==
  /\ copies = NoCopies
  /\ \E c \in Convs : row[c] # NoRow /\ row[c].blank
  /\ copies' = [c \in Convs |-> IF row[c] # NoRow /\ row[c].blank THEN row[c] ELSE NoRow]
  /\ UNCHANGED <<flowVars, close, closedOver>>

\* ... and writes back the whole payload of each copy after its Front request,
\* with the summary when Front has one.
WriteBack(c) ==
  /\ copies[c] # NoRow
  /\ \E blank \in BOOLEAN :
       WriteRows([row EXCEPT ![c].linear_url = copies[c].linear_url, ![c].blank = blank])
  /\ copies' = [copies EXCEPT ![c] = NoRow]
  /\ UNCHANGED <<msg, run, ticketed, template, away, faults, calls, opened, repeated, tried,
                 covered, unsaved, mistaken, close, closedOver>>

\* The job's timeout of 60 seconds cancels the rest.
CancelEnrichment ==
  /\ copies # NoCopies
  /\ copies' = NoCopies
  /\ UNCHANGED <<flowVars, close, closedOver>>

Crash ==
  /\ Busy # {} \/ close # NoClose \/ copies # NoCopies
  /\ StopHandlers
  /\ close' = NoClose
  /\ copies' = NoCopies
  /\ UNCHANGED closedOver

Init == FlowInit /\ close = NoClose /\ copies = NoCopies /\ closedOver = {}

Next ==
  \/ \E m \in Msgs : Arrive(m) /\ UNCHANGED jobVars
  \/ \E c \in Convs : /\ Handle(c) \/ CallTool(c) \/ Raise(c) \/ SaveErrorFails(c)
                      /\ UNCHANGED jobVars
  \/ \E c \in Convs : Age(c) \/ WriteBack(c) \/ ArchiveStale(c)
  \/ SelectStale \/ CommitClose \/ CloseRaises
  \/ SelectBlank \/ CancelEnrichment
  \/ Crash

Spec == Init /\ [][Next]_vars

--------------------------------------------------------------------------------
\* The words that the code, the classifier or the language model puts in a row:
\* a category outside the allowed ones, and the step of a route that is left to
\* the agent loop, are not among the code's.
Categories == ALLOWED_CATEGORIES \cup {s.category : s \in ModelStates}
SubTypeNames ==
  {"none", "account_suspended", "collaboration", "technology_integration",
   "credit_allowance_200", "cancel_subscription", "email_expired_graduated",
   "rejected", "no_discount", "how_to_apply"}
  \cup {raw.sub_type : raw \in RawAnswers \ {NoClass}} \cup {s.sub_type : s \in ModelStates}
Steps ==
  {"moved_inbox", "closed_spam", "manual_review", "draft_created",
   "forwarded_keep_open", "failed_needs_review", "done"}
  \cup {s.step : s \in ModelStates}
Rows == [category : Categories, sub_type : SubTypeNames, step : Steps,
         linear_url : BOOLEAN, waiting : {"no", "fresh", "stale"}, blank : BOOLEAN]
        \cup {NoRow}

\* What the language model asks to save is a row, and what the classifier answers
\* is normalized to the fields of a classification, or could not be read.
ASSUME StatesAssumption == ModelStates \subseteq Rows \ {NoRow}
ASSUME AnswersAssumption ==
  \A raw \in RawAnswers \ {NoClass} :
    raw = Class(raw.category, raw.sub_type, raw.flags, raw.words)

\* The table keeps to those words, the handlers and the jobs keep their shapes; a
\* copy that is to be written back belongs to a row that exists.
TypeOK ==
  /\ row \in [Convs -> Rows]
  /\ \A m \in Msgs : msg[m].state \in {"unsent", "pending", "processed"}
  /\ \A c \in Convs : run[c].pc \in {"idle", "route", "link", "classify", "loop", "put", "refresh",
                                "save", "error"}
  /\ ticketed \subseteq Msgs
  /\ template \subseteq Convs \X {"explicit", "classified"}
  /\ away \subseteq Convs
  /\ faults \in 0..MaxFaults
  /\ close.left \subseteq close.picked
  /\ \A c \in Convs : copies[c] # NoRow => row[c] # NoRow

\* Whatever the classifier answers, only a conversation without any sign of a
\* threat, a partnership, a proposal or a creator's offer is archived, and no
\* handler archives a message that is an explicit appeal or changed the topic.
ArchiveIsUnambiguous ==
  /\ ArchivesClearSpamOnly
  /\ \A c \in Convs :
       run[c].pc = "route" /\ InitialRoute(run[c].class).tool = "close" =>
         LET text == msg[run[c].msg].mail.text
         IN  Suspension(text) = NoClass /\ TopicOf(run[c].old, text) = NoClass

\* A message that the classifier flagged as a legal threat is forwarded to the legal
\* team unless it is a creator's offer, unclear or a suspension, and no first
\* handling of one reaches the language model's tools.
LegalThreatsEscalate ==
  /\ ThreatsReachPeople
  /\ \A c \in Convs :
       run[c].pc \in {"loop", "put", "refresh"} /\ run[c].class # NoClass =>
         "legal_threat" \notin run[c].class.flags

\* Once the row of an education case has shown its review ticket, a follow-up
\* opens another only if the row lost it again: to a failure's state, to a
\* route's, to a recategorised case, or to an older copy of enrichment, which the
\* documents rule out (EnrichmentFillsBlanks).
SecondTicketNeedsLoss == repeated \subseteq forgot

\* A message whose handling was broken off is not acknowledged before a handler
\* has finished with it, unless its failure never reached the row (a crash, or
\* the error path failed too), auto-close wrote over the row, the conversation was
\* moved out of the Support inboxes before (each attempt looks at the inboxes
\* first), or an explicit appeal in the same conversation was handled in between.
NothingUnseen ==
  \A m \in tried :
    msg[m].state = "processed" =>
      \/ m \in covered
      \/ ConvOf[m] \in unsaved \cup closedOver \cup away
      \/ \E n \in Msgs \ {m} : /\ ConvOf[n] = ConvOf[m]
                               /\ n \in covered
                               /\ Suspension(msg[n].mail.text) # NoClass

\* Explicit appeals of one sender in several conversations get one template: of
\* two handlers, the later to read Front sees the other's message.  A second one
\* needs a failed request, an appeal that a transcript does not show (by its
\* subject alone, or beyond the cut), or more conversations than are looked at.
OneTemplatePerSender ==
  Cardinality({c \in Convs : <<c, "explicit">> \in template}) > 1 =>
    \/ faults > 0
    \/ Cardinality({c \in Convs : Wrote(c)}) > LinkLimit + 1
    \/ \E m \in Msgs : /\ msg[m].state # "unsent"
                       /\ Suspension(msg[m].mail.text) # NoClass
                       /\ Suspension(msg[m].mail.shown) = NoClass

\* A sender with a single conversation gets the template for an explicit appeal,
\* whatever the conversation was about before, unless something failed, it was
\* closed as spam (and auto-close may have written over that at once), it was moved
\* to another inbox, or it was taken for a follow-up of its own row, which the
\* classifier or the language model had marked as a suspension without a template.
\* (Two conversations may each be taken for a follow-up of the other, and then
\* neither gets it.)  No state of ModelStates may close spam and wait all the same.
LoneAppealIsDrafted ==
  \A m \in Msgs :
    LET c == ConvOf[m] IN
    /\ msg[m].state = "processed"
    /\ Suspension(msg[m].mail.text) # NoClass
    /\ faults = 0
    /\ \A n \in Msgs : ConvOf[n] # c => msg[n].state = "unsent"
    /\ c \notin closedOver \cup away \cup mistaken
    => \/ row[c].step = "closed_spam"
       \/ \E kind \in {"explicit", "classified"} : <<c, kind>> \in template

\* Once a hand-off or a ticket of this agent run has succeeded (and does not read
\* like a failure), no state that the run saves finishes the conversation: it is
\* finished after the save only if it was before, by auto-close or by what the run
\* had saved earlier.
HandOffStaysOpen ==
  [][\A c \in Convs :
       /\ run[c].pc = "put" /\ run[c].keep # NoStep
       /\ run'[c] # run[c]
       /\ row'[c] # NoRow /\ row'[c].step \in KEEP_OPEN_TERMINAL_STEPS
       => row[c] # NoRow /\ row'[c].step = row[c].step]_vars

\* What a follow-up that began with the ticket in its row saves never takes the
\* ticket out of the row, whatever payload the language model asks for.  (It does
\* not always put it back when enrichment dropped it meanwhile: a payload equal to
\* the one it loaded is not written.)
FollowUpKeepsTicket ==
  [][\A c \in Convs :
       /\ run[c].pc = "put" /\ KnowsTicket(run[c].old)
       /\ run'[c] # run[c]
       /\ row[c] # NoRow /\ row[c].linear_url
       => row'[c].linear_url]_vars

\* README.md:385, "never overwrites existing values" (README.md:70 and
\* docs/runtime-boundaries.md:176 say the same): what enrichment writes back leaves
\* a stored ticket and a stored summary alone.
EnrichmentFillsBlanks ==
  [][\A c \in Convs :
       copies[c] # NoRow /\ row'[c] # row[c] /\ UNCHANGED run =>
         /\ row[c].linear_url => row'[c].linear_url
         /\ ~row[c].blank => ~row'[c].blank]_vars

\* While no job writes, a row changes only by a step of the handler that holds
\* its conversation, whatever conversation the language model names.
OnlyOwnerWrites ==
  [][\A c \in Convs :
       /\ row'[c] # row[c]
       /\ UNCHANGED <<close, copies>>
       => run'[c] # run[c] \/ [row'[c] EXCEPT !.waiting = "fresh"] = row[c]]_vars
================================================================================
