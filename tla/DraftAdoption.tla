----------------------------- MODULE DraftAdoption -----------------------------
(* services/draft_adoption.py: what became of the draft of a conversation.  The *)
(* scheduler's report job and the Ops page may refresh at the same time.  A run *)
(* is modelled per draft: its drafts share nothing but a cache that holds one   *)
(* entry a conversation.                                                        *)
EXTENDS FrontTimeline

CONSTANTS
  Refreshers,    \* the refreshes that may run at the same time
  Forcing,       \* those that may be asked to look at settled drafts again
  PendingAfter   \* the 24 hours

ASSUME AdoptionAssumption == Forcing \subseteq Refreshers /\ PendingAfter \in Nat

VARIABLES
  adoption,   \* the status in draft_adoptions, "none" without a row
  refresh     \* each refresh: the row it read first and the evidence it has

adoptionVars == <<adoption, refresh>>

TERMINAL_STATUSES == {"exact_adopted", "modified_or_manual"}
Statuses == TERMINAL_STATUSES \cup {"pending_review", "handled_without_send",
             "waiting", "no_followup_detected", "unknown"}
WaitingSteps == {"awaiting", "manual_review", "skill_in_progress"}

\* classify_draft_adoption: evidence is what was sent and what was noted since
\* the draft, whether there are other actions, the step and whether there is a
\* waiting time, whether Front shows the conversation as open, and whether the
\* draft is old.  The key of every recorded draft holds the hash of its body, so
\* none is without one.
NoEvidence == [sent |-> "none", notes |-> "none", workflow |-> FALSE, step |-> "none",
               waits |-> FALSE, shown |-> FALSE, old |-> FALSE]
Evidence == [sent : {"none", "exact", "other"}, notes : {"none", "waiting", "other"},
             workflow : BOOLEAN, step : StepNames, waits : BOOLEAN,
             shown : BOOLEAN, old : BOOLEAN]
Rules(e) ==
  << <<e.sent = "exact", "exact_adopted">>,
     <<e.sent = "other", "modified_or_manual">>,
     <<e.notes = "waiting", "waiting">>,
     <<e.notes = "other", "handled_without_send">>,
     <<e.workflow, "handled_without_send">>,
     <<e.step \in HandledSteps, "handled_without_send">>,
     <<e.waits \/ e.step \in WaitingSteps \/ e.shown, "waiting">>,
     <<~e.old, "pending_review">>,
     <<TRUE, "no_followup_detected">> >>
Classify(e) ==
  LET rules == Rules(e)
      first == CHOOSE i \in DOMAIN rules :
                 rules[i][1] /\ \A j \in 1..(i - 1) : ~rules[j][1]
  IN  rules[first][2]

\* The stages in which refresh_draft_adoptions gathers the evidence, and the
\* statuses with which each is content.
\* Mutant: content with a draft that is not old yet.
ContentPending(status) == status \in {"handled_without_send", "waiting", "pending_review"}
Content(status) == status \in {"handled_without_send", "waiting"}
Stage(e, pc) ==
  CASE pc = "messages" -> [NoEvidence EXCEPT !.sent = e.sent, !.old = e.old]
    [] pc = "evidence" -> [e EXCEPT !.notes = "none", !.shown = FALSE]
    [] pc = "comments" -> [e EXCEPT !.shown = FALSE]
    [] pc = "status"   -> e
\* The stage after pc, when e was gathered.
After(pc, e) ==
  CASE pc = "messages" /\ Classify(e) \notin TERMINAL_STATUSES -> "evidence"
    [] pc = "evidence" /\ ~Content(Classify(e)) -> "comments"
    [] pc = "comments" /\ ~Content(Classify(e)) -> "status"
    [] OTHER -> "write"
Staged(e) ==
  LET verdict[pc \in {"messages", "evidence", "comments", "status", "write"}] ==
        LET seen == Stage(e, pc) IN
        IF After(pc, seen) = "write" THEN Classify(seen) ELSE verdict[After(pc, seen)]
  IN  verdict["messages"]

\* What a timeline holds since the draft: of the messages that were fetched, one
\* whose body is the draft's comes first, of the comments only the latest counts.
Since(c, kinds) == {i \in items[c] : i.kind \in kinds /\ i.at >= FirstMail[c]}
AnswerKinds == {"exact", "reply", "internal"}
Sent(c) ==
  IF Since(c, {"exact"}) \cap FirstPage(c) # {} THEN "exact"
  ELSE IF Since(c, AnswerKinds) \cap FirstPage(c) # {} THEN "other" ELSE "none"
Noted(c) ==
  LET notes == Since(c, CommentKinds) \cap FirstPage(c)
  IN  IF notes = {} THEN "none"
      ELSE IF Latest(notes).kind = "bobby_wait" THEN "waiting" ELSE "other"
\* Mutant: the draft itself is counted.
WorkflowWithDraft(c) ==
  c \in Drafted \/ c \in acted \/ \E k \in checks[c] : k.at >= FirstMail[c]
\* _workflow_evidence: any other action of the conversation since the draft, the
\* checks of the reminder scan among them, whatever the step.
Workflow(c) ==
  \/ c \in acted
  \/ \E k \in checks[c] : k.at >= FirstMail[c]

NoRefresh == [pc |-> "idle"]
Unread == UNCHANGED <<timelineVars, adoption>>

\* A refresh starts with a copy of the draft's row.
Begin(r, c) ==
  /\ refresh[r] = NoRefresh
  /\ refresh' = [refresh EXCEPT ![r] = [pc |-> "messages", conv |-> c,
                   existing |-> adoption[c], evidence |-> NoEvidence, result |-> "none"]]
  /\ Unread

\* Mutants: other tools' rows are taken for drafts; a settled draft is looked at
\* again.
StartAnyRefresh(r, c) == (adoption[c] \in TERMINAL_STATUSES => r \in Forcing) /\ Begin(r, c)
RestartRefresh(r, c) == c \in Drafted /\ Begin(r, c)

\* db.get; a settled draft is looked at again only by force.
StartRefresh(r, c) ==
  /\ c \in Drafted
  /\ adoption[c] \in TERMINAL_STATUSES => r \in Forcing
  /\ Begin(r, c)

\* Each stage adds to the evidence and classifies it anew; with the verdict the
\* evidence is done with.
Decide(r, status) ==
  refresh' = [refresh EXCEPT ![r].pc = "write", ![r].evidence = NoEvidence, ![r].result = status]
Gather(r, pc, e) ==
  /\ refresh[r].pc = pc
  /\ IF After(pc, e) = "write" THEN Decide(r, Classify(e))
     ELSE refresh' = [refresh EXCEPT ![r].evidence = e, ![r].pc = After(pc, e)]
  /\ Unread
LoadMessages(r) ==
  LET c == refresh[r].conv IN
  Gather(r, "messages", [NoEvidence EXCEPT !.sent = Sent(c),
                           !.old = now - FirstMail[c] >= PendingAfter])
ReadEvidence(r) ==
  LET c == refresh[r].conv IN
  Gather(r, "evidence", [refresh[r].evidence EXCEPT !.workflow = Workflow(c),
                           !.step = step[c], !.waits = c \in waiting])
LoadComments(r) ==
  Gather(r, "comments", [refresh[r].evidence EXCEPT !.notes = Noted(refresh[r].conv)])
LoadStatus(r) ==
  Gather(r, "status", [refresh[r].evidence EXCEPT !.shown = refresh[r].conv \in open])

\* A failed request leaves the draft unknown.
LoadFails(r) ==
  /\ refresh[r].pc \in {"messages", "comments", "status"}
  /\ Fault
  /\ Decide(r, "unknown")
  /\ UNCHANGED <<front, checks, adoption>>

\* A new row is inserted, which fails when the other refresh was faster; of an
\* existing row only what differs from the copy is written.
WriteStatus(r) ==
  LET c == refresh[r].conv
      old == refresh[r].existing
      new == refresh[r].result
  IN /\ refresh[r].pc = "write"
     /\ adoption' = [adoption EXCEPT ![c] =
          IF old = new \/ (old = "none" /\ @ # "none") THEN @ ELSE new]
     /\ refresh' = [refresh EXCEPT ![r] = NoRefresh]
     /\ UNCHANGED timelineVars

AdoptionInit ==
  /\ adoption = [c \in Convs |-> "none"]
  /\ refresh = [r \in Refreshers |-> NoRefresh]
StopRefreshes == refresh' = [r \in Refreshers |-> NoRefresh] /\ UNCHANGED adoption
Refresh(r) ==
  \/ LoadMessages(r) \/ ReadEvidence(r) \/ LoadComments(r) \/ LoadStatus(r)
  \/ WriteStatus(r)

--------------------------------------------------------------------------------
\* What settles a draft before the comments are asked for.
RowSettles(e) == e.workflow \/ e.waits \/ e.step \in HandledSteps \cup WaitingSteps

\* Gathering the evidence in stages finds a reply whenever there is one, and
\* changes the verdict of the whole evidence only where it never loads the
\* comments, because the other actions, the step or the waiting time had already
\* settled it.
StagesAgree ==
  \A e \in Evidence :
    /\ Staged(e) \in TERMINAL_STATUSES <=> Classify(e) \in TERMINAL_STATUSES
    /\ Staged(e) # Classify(e) => e.notes # "none" /\ RowSettles(e)

\* The stages agree with the whole evidence in that sense, and no refresh asks
\* Front for more after a reply, other work or a comment has settled its draft.
StagingOnlySkipsComments ==
  /\ StagesAgree
  /\ \A r \in Refreshers :
       LET e == refresh[r].evidence
           pc == refresh[r].pc
       IN  /\ pc \in {"evidence", "comments", "status"} => e.sent = "none"
           /\ pc \in {"comments", "status"} => ~RowSettles(e)
           /\ pc = "status" => e.notes = "none"

\* Once a reply is counted, the draft stays answered, and an exact adoption stays
\* exact: only a refresh of this draft that had read the row before, or a forced
\* one that cannot reach Front or no longer finds every answer on the first page,
\* takes that back.
VerdictOnlyImproves ==
  [][\A c \in Convs :
       adoption[c] \in TERMINAL_STATUSES /\ adoption'[c] # adoption[c] =>
         \/ adoption[c] = "modified_or_manual" /\ adoption'[c] = "exact_adopted"
         \/ \E r \in Refreshers :
              /\ refresh[r].pc = "write" /\ refresh[r].conv = c
              /\ \/ refresh[r].existing \notin TERMINAL_STATUSES
                 \/ r \in Forcing /\ refresh[r].result = "unknown"
                 \/ r \in Forcing /\ ~(Since(c, AnswerKinds) \subseteq FirstPage(c))]_adoption

\* A draft counts as handled without an answer only if somebody commented, the
\* step was once that of a handled case, or something besides the draft was
\* recorded: the hand-off after an error counts, and so does a check of the
\* reminder scan, which it makes of a message that nobody has looked at as well.
HandledNeedsWork ==
  \A c \in Convs : adoption[c] = "handled_without_send" =>
    \/ Since(c, CommentKinds) # {}
    \/ c \in stepped \cup acted
    \/ checks[c] # {}
================================================================================
