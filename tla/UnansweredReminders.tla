-------------------------- MODULE UnansweredReminders --------------------------
(* services/unanswered_reminders.py: a scan every 15 minutes picks the open    *)
(* conversations that changed since their last check, loads their timelines,   *)
(* and then decides one after the other, with the time at which it began.      *)
EXTENDS FrontTimeline

CONSTANTS
  Support, Assigned,  \* the conversations the two searches find
  ScanLimit,          \* conversations of one scan
  RemindAfter,        \* the 12 hours
  StartAt,            \* earlier messages are not reminded of
  Weekdays            \* the times at which a scan may begin

ASSUME ReminderAssumption ==
  /\ Support \subseteq Convs /\ Assigned \subseteq Convs
  /\ ScanLimit \in Nat \ {0}
  /\ RemindAfter \in Nat \ {0}
  /\ StartAt \in Nat
  /\ Weekdays \subseteq Nat

VARIABLES
  scan,        \* what the scan has still to load and to decide
  reminded,    \* history: reminders Feishu accepted, by conversation and message
  repeated,    \* history: whether one was accepted twice
  overlapped,  \* history: conversations checked on a timeline older than their
               \* latest customer message
  owed         \* history: the messages that were due when the scan chose its
               \* conversations

history == <<reminded, repeated, overlapped, owed>>
reminderVars == <<scan, history>>

NoScan == [pc |-> "idle", began |-> 0, load |-> <<>>, decide |-> <<>>]
Verdicts == {"settled", "early", "due"}

\* evaluate_unanswered_timeline; a message is known by its time.
Of(timeline, kinds) == {i \in timeline : i.kind \in kinds}
HasMail(timeline) == Of(timeline, {"customer"}) # {}
LatestMail(timeline) == Latest(Of(timeline, {"customer"})).at
Handled(timeline) ==
  \E i \in Of(timeline, {"reply", "exact", "bobby", "bobby_wait"}) :
    i.at > LatestMail(timeline)

\* What the loop does with a timeline: before_start, customer_replied and
\* bobby_commented are checks that need no reminder.
Verdict(timeline, began) ==
  CASE LatestMail(timeline) < StartAt \/ Handled(timeline) -> "settled"
    [] began < LatestMail(timeline) + RemindAfter -> "early"
    [] OTHER -> "due"

\* Mutant: a conversation that was checked once is never looked at again.
CheckedOnce(c) == checks[c] # {}

\* _last_sla_checks and the skip in _candidate_conversations.
CheckedSinceUpdate(c) == checks[c] # {} /\ Latest(checks[c]).at >= Stamp(c)

\* The latest time first.
IsOrdered(s) == \A i, j \in DOMAIN s : i < j => Stamp(s[i]) >= Stamp(s[j])
Candidates(found) ==
  LET fresh == {c \in found \cap open : ~CheckedSinceUpdate(c)}
  IN  {SubSeq(s, 1, IF Len(s) > ScanLimit THEN ScanLimit ELSE Len(s)) :
         s \in {t \in SetToSeqs(fresh) : IsOrdered(t)}}

IsDue(c) == Verdict(items[c], now) = "due" /\ <<c, LatestMail(items[c])>> \notin reminded

\* _candidate_conversations; a search that fails leaves the other's result.
Search ==
  /\ scan = NoScan
  /\ now \in Weekdays
  /\ \E found \in {Support \cup Assigned, Support, Assigned} :
       /\ IF found = Support \cup Assigned THEN UNCHANGED faults ELSE Fault
       /\ \E load \in Candidates(found) :
            /\ load # <<>>
            /\ scan' = [pc |-> "load", began |-> now, load |-> load, decide |-> <<>>]
            /\ owed' = {<<c, LatestMail(items[c])>> : c \in {d \in ToSet(load) : IsDue(d)}}
  /\ UNCHANGED <<front, checks, reminded, repeated, overlapped>>

\* _front_snapshot, one conversation after the other; all are loaded before the
\* first decision.  One that fails to load is left out, and so is one without a
\* mail of the customer on the first page.
Loaded(decide) ==
  scan' = IF Len(scan.load) > 1
          THEN [scan EXCEPT !.load = Tail(@), !.decide = decide]
          ELSE IF decide = <<>> THEN NoScan
          ELSE [NoScan EXCEPT !.pc = "decide", !.decide = decide]
Load ==
  LET c == Head(scan.load)
      timeline == FirstPage(c)
  IN /\ scan.pc = "load"
     /\ \/ /\ HasMail(timeline)
           /\ Loaded(Append(scan.decide,
                [conv |-> c, message |-> LatestMail(timeline),
                 verdict |-> Verdict(timeline, scan.began)]))
           /\ UNCHANGED faults
        \/ ~HasMail(timeline) /\ Loaded(scan.decide) /\ UNCHANGED faults
        \/ Loaded(scan.decide) /\ Fault
     /\ UNCHANGED <<front, checks, history>>

Current == Head(scan.decide)
\* Mutant: the loop ends instead of going on.
NoNextConversation == scan' = NoScan

NextConversation ==
  scan' = IF Len(scan.decide) = 1 THEN NoScan
          ELSE [scan EXCEPT !.pc = "decide", !.decide = Tail(@)]

\* get_action finds the message, or it is too early: nothing is recorded.
NothingToRecord ==
  \/ Current.verdict = "early"
  \/ \E k \in checks[Current.conv] : k.message = Current.message
Skip ==
  /\ scan.pc = "decide"
  /\ NothingToRecord
  /\ NextConversation
  /\ UNCHANGED <<timelineVars, history>>

\* _record_terminal_check.  A failed commit is not rolled back: the queries for
\* the conversations that are left fail as well, and the scan is over.
Record ==
  LET c == Current.conv IN
  /\ \/ /\ NextConversation
        /\ checks' = [checks EXCEPT ![c] = @ \cup {[message |-> Current.message, at |-> now]}]
        /\ overlapped' = IF LatestMail(items[c]) # Current.message
                         THEN overlapped \cup {c} ELSE overlapped
        /\ UNCHANGED faults
     \/ scan' = NoScan /\ Fault /\ UNCHANGED <<checks, overlapped>>
  /\ UNCHANGED <<front, reminded, repeated, owed>>
Settle ==
  /\ scan.pc = "decide"
  /\ ~NothingToRecord
  /\ Current.verdict = "settled"
  /\ Record

\* send_bobby_personal_text: accepted, refused, or accepted without an answer.
\* Only an accepted reminder is recorded, and only afterwards.
Accepted ==
  LET id == <<Current.conv, Current.message>>
  IN /\ reminded' = reminded \cup {id}
     /\ repeated' = (repeated \/ id \in reminded)
Remind ==
  /\ scan.pc = "decide"
  /\ ~NothingToRecord
  /\ Current.verdict = "due"
  /\ \/ Accepted /\ scan' = [scan EXCEPT !.pc = "record"] /\ UNCHANGED faults
     \/ Accepted /\ NextConversation /\ Fault
     \/ UNCHANGED <<reminded, repeated>> /\ NextConversation /\ Fault
  /\ UNCHANGED <<front, checks, overlapped, owed>>
\* Mutant: what was sent is not recorded.
ForgetReminder ==
  scan.pc = "record" /\ NextConversation /\ UNCHANGED <<timelineVars, history>>
RecordReminder == scan.pc = "record" /\ Record

ReminderInit == scan = NoScan /\ reminded = {} /\ repeated = FALSE /\ overlapped = {} /\ owed = {}
Scan == Search \/ Load \/ Skip \/ Settle \/ Remind \/ RecordReminder

--------------------------------------------------------------------------------
\* A customer message is reminded of at most once, unless the answer of Feishu,
\* the commit of the check or the process was lost after the first time.
RepeatedReminderNeedsLoss == repeated => faults > 0

\* A conversation whose latest customer message was never checked is passed over
\* only if that message arrived while a scan was at work on an older timeline, or
\* if the search says when the conversation began: the first check then hides
\* whatever the customer writes later.
HiddenNeedsOverlap ==
  \A c \in open :
    /\ ~\E k \in checks[c] : k.message = LatestMail(items[c])
    /\ CheckedSinceUpdate(c)
    => c \in overlapped \cup Dated

\* When a scan is over and no request, no commit and no process has failed, each
\* message that was due when it chose the conversation was reminded of, or
\* somebody answered it meanwhile, or the customer wrote again, or later mails
\* have pushed the customer's off the first page.
ScanServesDue ==
  [][scan # NoScan /\ scan' = NoScan /\ faults' = 0 =>
       \A o \in owed :
         \/ o \in reminded'
         \/ LatestMail(items[o[1]]) # o[2]
         \/ Handled(items[o[1]])
         \/ ~HasMail(FirstPage(o[1]))]_scan
================================================================================
