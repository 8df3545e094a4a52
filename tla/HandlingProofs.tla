---------------------------- MODULE HandlingProofs -----------------------------
(* What becomes of the messages: which routes a handler takes, who is told     *)
(* about a failure, and how often an appeal is answered, for any number of     *)
(* conversations, messages, tool calls and failures, whatever the customer     *)
(* writes and whatever the classifier and the language model answer.           *)
EXTENDS OpsMaintenanceProofs, RoutePolicyProofs, FiniteSetTheorems

\* Messages keep their shape, and the failures are counted.
MailOK ==
  /\ faults \in Nat
  /\ DOMAIN msg = Msgs
  /\ \A m \in Msgs : DOMAIN msg[m] = {"state", "mail"}
  /\ \A m \in Msgs : msg[m].state \in {"unsent", "pending", "processed"}

\* An explicit appeal.
Explicit(m) == "suspension" \in msg[m].mail.text

\* What a handler h of c has before it, when t is its message: it is pending, and
\* the handler saw it with all the others.  What it goes by is what the text says,
\* or what the classifier answered to a text that says nothing of itself.
AtWork(c, h, t) ==
  /\ h.msg \in Msgs /\ ConvOf[h.msg] = c
  /\ h.msg \in h.saw
  /\ t.state = "pending"
  /\ h.pc = "classify" => Suspension(t.mail.text) = NoClass
  /\ h.pc \in {"loop", "put", "refresh"} /\ h.class # NoClass =>
       "legal_threat" \notin h.class.flags
  /\ h.pc = "error" => h.save = FailedRow
  /\ h.pc = "route" =>
       IF Suspension(t.mail.text) # NoClass THEN h.class = Suspension(t.mail.text)
       ELSE TopicOf(h.old, t.mail.text) # NoClass => h.class = TopicOf(h.old, t.mail.text)

HandlersAtWork ==
  \A c \in Convs : \A h, t :
    run[c] = h /\ h # Idle /\ msg[h.msg] = t => AtWork(c, h, t)

\* What the session of a handler has loaded is the row but for what the jobs write:
\* its step and whether it waits are the row's, unless auto-close wrote over it.
Fits(copy, r) ==
  copy # NoRow =>
    /\ r # NoRow
    /\ r.step = copy.step
    /\ r.waiting = "no" <=> copy.waiting = "no"
CopiesFit ==
  \A c \in Convs \ closedOver :
    /\ run[c] # Idle
    /\ run[c].old # NoRow \/ run[c].pc \in {"save", "put", "error"}
    => Fits(run[c].copy, row[c])

\* A message whose handling was broken off and that no excuse covers waits with
\* the failure in its row, or a handler has it before it.
Excused(m) ==
  \/ m \in covered
  \/ ConvOf[m] \in unsaved \cup closedOver \cup away
  \/ \E n \in Msgs \ {m} : ConvOf[n] = ConvOf[m] /\ n \in covered /\ Explicit(n)
FailureNoted(c) ==
  row[c] # NoRow /\ row[c].step = "failed_needs_review" /\ row[c].waiting = "no"
Waits(m, c) ==
  /\ msg[m].state = "pending"
  /\ IF run[c] = Idle THEN FailureNoted(c) ELSE m \in run[c].saw
FailuresWait ==
  /\ tried \subseteq Msgs
  /\ \A m \in tried : \A c \in Convs : ConvOf[m] = c => Excused(m) \/ Waits(m, c)

\* While nothing has failed, a handler looks at all conversations and transcripts
\* show the appeals, the explicit template is in one conversation, drafted or about
\* to be, and Front shows an appeal there.
AllSeen ==
  /\ faults = 0
  /\ Cardinality({c \in Convs : Wrote(c)}) <= LinkLimit + 1
  /\ \A m \in Msgs : msg[m].state # "unsent" /\ Explicit(m) =>
                      "suspension" \in msg[m].mail.shown
Appealed(c) == \E m \in Msgs : ConvOf[m] = c /\ msg[m].state # "unsent" /\ Explicit(m)
Drafts(c) ==
  \/ <<c, "explicit">> \in template
  \/ /\ run[c] # Idle /\ run[c].pc = "route"
     /\ \E m \in Msgs : m = run[c].msg /\ Explicit(m)
OneDraft ==
  AllSeen =>
    /\ \A c \in Convs : Drafts(c) => Appealed(c)
    /\ \A c, d \in Convs : Drafts(c) /\ Drafts(d) => c = d

HInv == IInv /\ MailOK /\ HandlersAtWork /\ CopiesFit /\ FailuresWait /\ OneDraft

--------------------------------------------------------------------------------
(* Steps, as the messages and the handlers see them.                           *)

LEMMA ExplicitIs ==
  ASSUME NEW text
  PROVE  /\ Suspension(text) # NoClass <=> "suspension" \in text
         /\ Suspension(text) # NoClass =>
              /\ Suspension(text).category \in {"account", "education"}
              /\ Suspension(text).sub_type = "account_suspended"
              /\ Suspension(text).words = {} /\ Suspension(text).flags = {}
BY DEF Suspension, Class, NoClass

\* A handler at work, in the terms of its actions.
LEMMA WorkingOn ==
  ASSUME HInv, NEW c \in Convs, run[c].pc # "idle"
  PROVE  /\ run[c] # Idle /\ DOMAIN run[c] = HandlerFields
         /\ AtWork(c, run[c], msg[run[c].msg])
         /\ run[c].msg \in Msgs /\ ConvOf[run[c].msg] = c
         /\ msg[run[c].msg].state = "pending"
         /\ run[c].msg \in run[c].saw
<1>1. run[c] # Idle /\ HandlerOK(run[c])
  BY WorkingHandler DEF HInv
<1>2. AtWork(c, run[c], msg[run[c].msg])
  BY <1>1 DEF HInv, HandlersAtWork
<1>3. QED
  BY <1>1, <1>2 DEF AtWork, HandlerOK

\* One conversation's handler moves, and no other, or no handler moves, or all stop.
LEMMA WhoMoves ==
  ASSUME HInv, [Next]_vars, NEW c \in Convs
  PROVE  \/ run'[c] = run[c]
         \/ /\ Handle(c) \/ CallTool(c) \/ Raise(c) \/ SaveErrorFails(c)
            /\ UNCHANGED jobVars
         \/ Crash
<1>1. CASE \E d \in Convs : /\ Handle(d) \/ CallTool(d) \/ Raise(d) \/ SaveErrorFails(d)
                            /\ UNCHANGED jobVars
  BY <1>1, OthersStay DEF HInv
<1>2. CASE \/ \E m \in Msgs : Arrive(m)
           \/ \E d \in Convs : Age(d) \/ WriteBack(d) \/ ArchiveStale(d)
           \/ SelectStale \/ CommitClose \/ CloseRaises \/ SelectBlank \/ CancelEnrichment
           \/ UNCHANGED vars
  BY <1>2 DEF Arrive, Age, WriteBack, ArchiveStale, SelectStale, CommitClose, CloseRaises,
              SelectBlank, CancelEnrichment, flowVars, vars
<1>3. QED
  BY <1>1, <1>2 DEF Next

\* The faults are counted, up to their bound.
LEMMA FaultsCounted ==
  ASSUME HInv, [Next]_vars
  PROVE  /\ faults' \in Nat /\ faults <= faults'
         /\ faults' = faults \/ faults' <= MaxFaults
<1>1. faults \in Nat /\ MaxFaults \in Nat
  BY FlowAssumption DEF HInv, MailOK
<1>2. ASSUME NEW c \in Convs, NEW m \in Msgs,
             SkipReply(c, m) \/ BeginAppeal(c, m) \/ BeginCase(c, m)
      PROVE  \E more \in Nat : faults' = faults + more /\ faults' <= MaxFaults
  <2>1. Unchecked(c) \in Nat
    BY DEF Unchecked
  <2>2. CASE SkipReply(c, m)
    BY <2>1, <2>2 DEF SkipReply
  <2>3. CASE BeginAppeal(c, m) \/ BeginCase(c, m)
    <3>1. PICK unread \in {0, 1} :
            faults' = faults + Unchecked(c) + unread /\ faults' <= MaxFaults
      BY <2>3 DEF BeginAppeal, BeginCase, ReadLinked
    <3>2. Unchecked(c) + unread \in Nat /\ faults' = faults + (Unchecked(c) + unread)
      BY <1>1, <2>1, <3>1
    <3>3. QED
      BY <3>1, <3>2
  <2>4. QED
    BY <1>2, <2>2, <2>3
<1>3. ASSUME NEW c \in Convs, Handle(c) \/ CallTool(c) \/ Raise(c) \/ SaveErrorFails(c)
      PROVE  \/ faults' = faults
             \/ faults' = faults + 1 /\ faults < MaxFaults
             \/ \E m \in Msgs : SkipReply(c, m) \/ BeginAppeal(c, m) \/ BeginCase(c, m)
  BY <1>3 DEF Handle, CallTool, Raise, SaveErrorFails, Ignore, Classify, LinkAppeal,
              RouteTool, Save, EndLoop, Put, Refresh, SaveError, CreateTicket, HandOff,
              MoveInbox, SetState
<1>4. CASE \/ \E m \in Msgs : Arrive(m)
           \/ \E d \in Convs : Age(d) \/ WriteBack(d) \/ ArchiveStale(d)
           \/ SelectStale \/ CommitClose \/ CloseRaises \/ SelectBlank \/ CancelEnrichment
           \/ Crash \/ UNCHANGED vars
  <2>1. faults' = faults \/ (faults' = faults + 1 /\ faults < MaxFaults)
    BY <1>4 DEF Arrive, Age, WriteBack, ArchiveStale, SelectStale, CommitClose, CloseRaises,
                SelectBlank, CancelEnrichment, Crash, StopHandlers, flowVars, vars
  <2>2. QED
    BY <1>1, <2>1
<1>5. CASE \E c \in Convs : Handle(c) \/ CallTool(c) \/ Raise(c) \/ SaveErrorFails(c)
  <2>1. \/ faults' = faults
        \/ faults' = faults + 1 /\ faults < MaxFaults
        \/ \E more \in Nat : faults' = faults + more /\ faults' <= MaxFaults
    BY <1>2, <1>3, <1>5
  <2>2. QED
    BY <1>1, <2>1
<1>6. QED
  BY <1>4, <1>5 DEF Next

\* A message changes by one of five steps.
LEMMA MailMoves ==
  ASSUME HInv, [Next]_vars
  PROVE  \/ UNCHANGED msg
         \/ \E m \in Msgs : Arrive(m)
         \/ \E c \in Convs, m \in Msgs : Ignore(c, m) \/ SkipReply(c, m)
         \/ \E c \in Convs : Finish(c) /\ (Save(c) \/ EndLoop(c))
<1>1. ASSUME NEW c \in Convs, Handle(c) \/ CallTool(c) \/ Raise(c) \/ SaveErrorFails(c)
      PROVE  \/ UNCHANGED msg
             \/ \E m \in Msgs : Ignore(c, m) \/ SkipReply(c, m)
             \/ Finish(c) /\ (Save(c) \/ EndLoop(c))
  BY <1>1 DEF Handle, CallTool, Raise, SaveErrorFails, BeginAppeal, BeginCase, Classify,
              LinkAppeal, RouteTool, Save, EndLoop, Put, Refresh, SaveError, CreateTicket,
              HandOff, MoveInbox, SetState
<1>2. CASE \/ \E d \in Convs : Age(d) \/ WriteBack(d) \/ ArchiveStale(d)
           \/ SelectStale \/ CommitClose \/ CloseRaises \/ SelectBlank \/ CancelEnrichment
           \/ Crash \/ UNCHANGED vars
  BY <1>2 DEF Age, WriteBack, ArchiveStale, SelectStale, CommitClose, CloseRaises,
              SelectBlank, CancelEnrichment, Crash, StopHandlers, flowVars, vars
<1>3. QED
  BY <1>1, <1>2 DEF Next

\* No step changes a mail or recalls a message; a message that waits is ignored,
\* or finished by a handler that skips it or that ends with it.
LEMMA MailKept ==
  ASSUME HInv, [Next]_vars
  PROVE  /\ MailOK'
         /\ \A m \in Msgs :
              /\ msg'[m].mail = msg[m].mail
              /\ msg[m].state # "unsent" => msg'[m].state # "unsent"
              /\ \/ msg'[m] = msg[m]
                 \/ msg[m].state = "unsent"
                 \/ \E c \in Convs : Ignore(c, m) \/ SkipReply(c, m)
                 \/ \E c \in Convs : /\ Finish(c) /\ (Save(c) \/ EndLoop(c))
                                     /\ run[c].msg = m
<1>1. faults' \in Nat
  BY FaultsCounted DEF HInv, MailOK
<1>2. CASE UNCHANGED msg
  BY <1>1, <1>2 DEF HInv, MailOK
<1>3. ASSUME NEW n \in Msgs, NEW s \in {"pending", "processed"},
             msg' = [msg EXCEPT ![n].state = s]
      PROVE  /\ MailOK'
             /\ \A m \in Msgs : /\ msg'[m].mail = msg[m].mail
                                /\ msg[m].state # "unsent" => msg'[m].state # "unsent"
                                /\ m # n => msg'[m] = msg[m]
  <2>1. \A m \in Msgs : m # n => msg'[m] = msg[m]
    BY <1>3 DEF HInv, MailOK
  <2>2. /\ DOMAIN msg' = Msgs /\ DOMAIN msg'[n] = {"state", "mail"}
        /\ msg'[n].state = s /\ msg'[n].mail = msg[n].mail
    BY <1>3 DEF HInv, MailOK
  <2>3. QED
    BY <1>1, <2>1, <2>2 DEF HInv, MailOK
<1>4. CASE \E n \in Msgs : Arrive(n)
  <2>1. PICK n \in Msgs : Arrive(n)
    BY <1>4
  <2>2. msg' = [msg EXCEPT ![n].state = "pending"] /\ msg[n].state = "unsent"
    BY <2>1 DEF Arrive
  <2>3. QED
    BY <1>3, <2>2
<1>5. CASE \E c \in Convs, n \in Msgs : Ignore(c, n) \/ SkipReply(c, n)
  <2>1. PICK c \in Convs, n \in Msgs : Ignore(c, n) \/ SkipReply(c, n)
    BY <1>5
  <2>2. msg' = [msg EXCEPT ![n].state = "processed"]
    BY <2>1 DEF Ignore, SkipReply
  <2>3. QED
    BY <1>3, <2>1, <2>2
<1>6. CASE \E c \in Convs : Finish(c) /\ (Save(c) \/ EndLoop(c))
  <2>1. PICK c \in Convs : Finish(c) /\ (Save(c) \/ EndLoop(c))
    BY <1>6
  <2>2. run[c].msg \in Msgs /\ msg' = [msg EXCEPT ![run[c].msg].state = "processed"]
    BY <2>1, WorkingOn DEF Finish, Save, EndLoop
  <2>3. QED
    BY <1>3, <2>1, <2>2
<1>7. QED
  BY <1>2, <1>4, <1>5, <1>6, MailMoves

LEMMA ExplicitStays ==
  ASSUME HInv, [Next]_vars, NEW m \in Msgs
  PROVE  Explicit(m)' <=> Explicit(m)
BY MailKept DEF Explicit

\* While a handler stays, its message stays.
LEMMA MessageStays ==
  ASSUME HInv, [Next]_vars, NEW c \in Convs, run[c].pc # "idle", run'[c] # Idle
  PROVE  msg'[run[c].msg] = msg[run[c].msg]
<1> DEFINE m == run[c].msg
<1>1. m \in Msgs /\ ConvOf[m] = c /\ msg[m].state = "pending"
  BY WorkingOn
<1>2. ASSUME NEW d \in Convs, Ignore(d, m) \/ SkipReply(d, m)
      PROVE  FALSE
  BY <1>1, <1>2 DEF Ignore, SkipReply, Ready
<1>3. ASSUME NEW d \in Convs, Finish(d), Save(d) \/ EndLoop(d), run[d].msg = m
      PROVE  FALSE
  <2>1. d = c
    BY <1>1, <1>3, WorkingOn DEF Save, EndLoop
  <2>2. run'[c] = Idle
    BY <1>3, <2>1 DEF Finish, HInv, IInv, Shaped
  <2>3. QED
    BY <2>2
<1>4. QED
  BY <1>1, <1>2, <1>3, MailKept

--------------------------------------------------------------------------------
(* Handlers.                                                                   *)

\* What a handler knows does not change while neither it nor its message does.
LEMMA QuietHandler ==
  ASSUME HInv, [Next]_vars, NEW c \in Convs, run'[c] = run[c], run[c] # Idle
  PROVE  AtWork(c, run'[c], msg'[run'[c].msg])
<1>1. run[c].pc # "idle"
  BY DEF HInv, IInv, Shaped, HandlerOK
<1>2. msg'[run'[c].msg] = msg[run[c].msg] /\ AtWork(c, run[c], msg[run[c].msg])
  BY <1>1, MessageStays, WorkingOn
<1>3. QED
  BY <1>2

\* A handler that begins.
LEMMA BeganAtWork ==
  ASSUME HInv, [Next]_vars, NEW c \in Convs, NEW m \in Msgs,
         BeginAppeal(c, m) \/ BeginCase(c, m)
  PROVE  /\ run'[c].msg = m /\ run'[c] # Idle
         /\ run'[c].old = row[c] /\ run'[c].copy = row[c]
         /\ run'[c].saw = {n \in Msgs : ConvOf[n] = c /\ msg[n].state # "unsent"}
         /\ run'[c].pc = "route" => BeginAppeal(c, m)
         /\ AtWork(c, run'[c], msg'[m])
<1>1. /\ ConvOf[m] = c /\ msg[m].state = "pending" /\ msg' = msg
      /\ DOMAIN run = Convs
  BY DEF BeginAppeal, BeginCase, Ready, HInv, IInv, Shaped
<1>2. CASE BeginCase(c, m)
  <2>1. PICK linked : run' = [run EXCEPT ![c] =
            Handler(IF InitialFlow(row[c], msg[m].mail.text) THEN "classify" ELSE "loop",
                    m, linked)]
    BY <1>2 DEF BeginCase
  <2>2. Suspension(msg[m].mail.text) = NoClass
    BY <1>2 DEF BeginCase
  <2>3. /\ run'[c].msg = m /\ run'[c].pc \in {"classify", "loop"}
        /\ run'[c].saw = {n \in Msgs : ConvOf[n] = c /\ msg[n].state # "unsent"}
        /\ run'[c].class = NoClass /\ run'[c].old = row[c] /\ run'[c].copy = row[c]
    BY <1>1, <2>1 DEF Handler
  <2>4. QED
    BY <1>1, <2>2, <2>3 DEF AtWork, Idle
<1>3. CASE BeginAppeal(c, m)
  <2>1. PICK linked : run' = [run EXCEPT ![c] =
            [Handler(IF linked \cup OwnCase(c) = {} THEN "route" ELSE "link", m,
                     linked \cup OwnCase(c))
               EXCEPT !.class = Suspension(msg[m].mail.text)]]
    BY <1>3 DEF BeginAppeal
  <2>2. Suspension(msg[m].mail.text) # NoClass
    BY <1>3 DEF BeginAppeal
  <2>3. /\ run'[c].msg = m /\ run'[c].pc \in {"route", "link"}
        /\ run'[c].saw = {n \in Msgs : ConvOf[n] = c /\ msg[n].state # "unsent"}
        /\ run'[c].class = Suspension(msg[m].mail.text)
        /\ run'[c].old = row[c] /\ run'[c].copy = row[c]
    BY <1>1, <2>1 DEF Handler
  <2>4. QED
    BY <1>1, <1>3, <2>2, <2>3 DEF AtWork, Idle
<1>4. QED
  BY <1>2, <1>3

\* What the classification leads to.
LEMMA ClassifiedAtWork ==
  ASSUME HInv, [Next]_vars, NEW c \in Convs, Classify(c)
  PROVE  /\ run'[c].msg = run[c].msg /\ run'[c] # Idle
         /\ run'[c].saw = run[c].saw
         /\ run'[c].old = run[c].old /\ run'[c].copy = run[c].copy
         /\ run[c] # Idle /\ run'[c].pc \in {"link", "loop", "route"}
         /\ run'[c].pc = "route" => ~Explicit(run[c].msg)
         /\ AtWork(c, run'[c], msg'[run'[c].msg])
<1> DEFINE text == msg[run[c].msg].mail.text
           topic == TopicOf(run[c].old, text)
           Cl(raw) == IF topic # NoClass THEN topic ELSE Classified(raw, text)
           Suspended(cl) == /\ cl.category \in {"account", "education"}
                            /\ cl.sub_type = "account_suspended"
           To(cl) == IF Suspended(cl) /\ run[c].linked # {} THEN "link"
                     ELSE IF InitialRoute(cl).tool = "skill" THEN "loop" ELSE "route"
<1>1. PICK raw \in RawAnswers :
        run' = [run EXCEPT ![c].class = Cl(raw), ![c].pc = To(Cl(raw))]
  BY DEF Classify
<1>2. \E cl : /\ run' = [run EXCEPT ![c].class = cl, ![c].pc = To(cl)]
              /\ topic # NoClass => cl = topic
  <2> DEFINE cl == Cl(raw)
  <2>1. topic # NoClass => cl = topic
    OBVIOUS
  <2>2. run' = [run EXCEPT ![c].class = cl, ![c].pc = To(cl)]
    BY <1>1
  <2> HIDE DEF cl, To, topic
  <2>3. QED
    BY <2>1, <2>2
<1> HIDE DEF Cl
<1>3. PICK cl : /\ run' = [run EXCEPT ![c].class = cl, ![c].pc = To(cl)]
                /\ topic # NoClass => cl = topic
  BY <1>2
<1>4. /\ run[c].pc = "classify" /\ run[c] # Idle /\ DOMAIN run[c] = HandlerFields
      /\ AtWork(c, run[c], msg[run[c].msg]) /\ DOMAIN run = Convs
  BY WorkingOn DEF Classify, HInv, IInv, Shaped
<1>5. To(cl) \in {"link", "loop", "route"} /\ (To(cl) = "loop" => "legal_threat" \notin cl.flags)
  BY RouteGuards
<1>6. Suspension(text) = NoClass
  BY <1>4 DEF AtWork
<1>7. ~Explicit(run[c].msg)
  BY <1>6, ExplicitIs DEF Explicit
<1> HIDE DEF To
<1>8. /\ run'[c].msg = run[c].msg /\ run'[c].saw = run[c].saw /\ run'[c].old = run[c].old
      /\ run'[c].class = cl /\ run'[c].pc = To(cl) /\ run'[c].copy = run[c].copy
  BY <1>3, <1>4 DEF HandlerFields
<1>9. run'[c] # Idle /\ msg'[run[c].msg] = msg[run[c].msg]
  BY <1>4, <1>5, <1>8, MessageStays DEF Idle
<1> HIDE DEF topic
<1>10. AtWork(c, run'[c], msg[run[c].msg])
  BY <1>3, <1>4, <1>5, <1>6, <1>8 DEF AtWork, topic
<1>11. QED
  BY <1>4, <1>5, <1>7, <1>8, <1>9, <1>10

\* The steps of a handler that go on from there.
GoesOn(c) ==
  \/ LinkAppeal(c) \/ RouteTool(c) \/ (EndLoop(c) /\ run'[c] # Idle)
  \/ Put(c) \/ Refresh(c) \/ CallTool(c) \/ Raise(c)

\* What set_state is asked for, by a handler that stands anywhere.
LEMMA AskedFor ==
  ASSUME HInv, NEW c \in Convs, run[c].pc # "idle", NEW pc, NEW r, Asks(c, pc, r)
  PROVE  /\ run'[c].pc = pc /\ run'[c].save = r /\ run'[c].copy = Loaded(c)
         /\ run'[c].msg = run[c].msg /\ run'[c].old = run[c].old
         /\ run'[c].saw = run[c].saw /\ run'[c].class = run[c].class
BY WorkingOn DEF Asks, HandlerFields, HInv, IInv, Shaped

LEMMA Moves ==
  ASSUME HInv, NEW c \in Convs, GoesOn(c)
  PROVE  /\ run[c].pc # "idle" /\ run[c] # Idle /\ run'[c] # Idle
         /\ run'[c].msg = run[c].msg /\ run'[c].old = run[c].old
         /\ run'[c].saw = run[c].saw /\ run'[c].class = run[c].class
         /\ \/ run'[c].pc = "save"
            \/ run'[c].pc = "error" /\ run'[c].save = FailedRow
            \/ /\ run[c].pc \in {"loop", "put", "refresh"}
               /\ run'[c].pc \in {"loop", "put", "refresh"}
<1>1. run[c].pc # "idle"
  BY DEF GoesOn, LinkAppeal, RouteTool, EndLoop, Put, Refresh, CallTool, CreateTicket,
         HandOff, MoveInbox, SetState, InLoop, Raise
<1>2. run[c] # Idle /\ DOMAIN run[c] = HandlerFields /\ DOMAIN run = Convs
  BY <1>1, WorkingOn DEF HInv, IInv, Shaped
<1>3. CASE LinkAppeal(c) \/ RouteTool(c) \/ (EndLoop(c) /\ run'[c] # Idle)
  <2>1. \E r : Asks(c, "save", r)
    BY <1>2, <1>3 DEF LinkAppeal, RouteTool, EndLoop, Finish
  <2>2. QED
    BY <1>1, <1>2, <2>1, AskedFor DEF Idle
<1>4. CASE Raise(c)
  BY <1>1, <1>2, <1>4, AskedFor DEF Raise, Idle
<1>5. CASE SetState(c)
  <2>1. run[c].pc = "loop" /\ \E r : Asks(c, "put", r)
    BY <1>5 DEF SetState, InLoop
  <2>2. QED
    BY <1>1, <1>2, <2>1, AskedFor DEF Idle
<1>6. CASE CreateTicket(c) \/ HandOff(c) \/ MoveInbox(c)
  <2>1. run[c].pc = "loop" /\ (UNCHANGED run \/ \E keep : Keeps(c, keep))
    BY <1>6 DEF CreateTicket, HandOff, MoveInbox, InLoop
  <2>2. /\ run'[c].msg = run[c].msg /\ run'[c].old = run[c].old /\ run'[c].pc = run[c].pc
        /\ run'[c].saw = run[c].saw /\ run'[c].class = run[c].class
    BY <1>2, <2>1 DEF Keeps, HandlerFields
  <2>3. QED
    BY <1>1, <1>2, <2>1, <2>2 DEF Idle
<1>7. CASE Put(c) \/ Refresh(c)
  <2>1. run[c].pc \in {"put", "refresh"}
    BY <1>7 DEF Put, Refresh
  <2>2. PICK pc \in {"refresh", "loop"}, copy \in {row[c], run[c].save} :
          run' = [run EXCEPT ![c].pc = pc, ![c].copy = copy]
    BY <1>7 DEF Put, Refresh
  <2>3. /\ run'[c].msg = run[c].msg /\ run'[c].old = run[c].old /\ run'[c].pc = pc
        /\ run'[c].saw = run[c].saw /\ run'[c].class = run[c].class
    BY <1>2, <2>2 DEF HandlerFields
  <2>4. QED
    BY <1>1, <1>2, <2>1, <2>3 DEF Idle
<1>8. QED
  BY <1>3, <1>4, <1>5, <1>6, <1>7 DEF GoesOn, CallTool

LEMMA GoesOnAtWork ==
  ASSUME HInv, [Next]_vars, NEW c \in Convs, GoesOn(c)
  PROVE  /\ run'[c].msg = run[c].msg /\ run'[c] # Idle
         /\ run'[c].saw = run[c].saw
         /\ run'[c].pc # "route" /\ run[c] # Idle
         /\ AtWork(c, run'[c], msg'[run'[c].msg])
<1>1. run[c].pc # "idle" /\ run'[c] # Idle
  BY Moves
<1>2. msg'[run[c].msg] = msg[run[c].msg] /\ AtWork(c, run[c], msg[run[c].msg])
  BY <1>1, MessageStays, WorkingOn
<1>3. QED
  BY <1>2, Moves DEF AtWork

\* A handler that ends.
LEMMA Ends ==
  ASSUME HInv, NEW c \in Convs,
         Save(c) \/ (EndLoop(c) /\ run'[c] = Idle) \/ SaveError(c) \/ SaveErrorFails(c)
  PROVE  /\ run'[c] = Idle
         /\ (Finish(c) /\ UNCHANGED <<tried, unsaved>>) \/ (GiveUp(c) /\ UNCHANGED covered)
<1>1. DOMAIN run = Convs
  BY DEF HInv, IInv, Shaped
<1>2. CASE EndLoop(c) /\ run'[c] = Idle
  <2>1. run[c].pc = "loop" /\ UNCHANGED <<tried, unsaved>>
    BY <1>2 DEF EndLoop
  <2>2. ASSUME NEW r, Asks(c, "save", r)
        PROVE  FALSE
    BY <1>2, <2>1, <2>2, AskedFor DEF Idle
  <2>3. QED
    BY <1>2, <2>1, <2>2 DEF EndLoop
<1>3. CASE Save(c) \/ SaveError(c) \/ SaveErrorFails(c)
  BY <1>1, <1>3 DEF Save, Finish, SaveError, SaveErrorFails, GiveUp
<1>4. QED
  BY <1>2, <1>3

LEMMA StepHandlersAtWork ==
  ASSUME HInv, [Next]_vars
  PROVE  HandlersAtWork'
<1> SUFFICES ASSUME NEW c \in Convs, run'[c] # Idle
             PROVE  AtWork(c, run'[c], msg'[run'[c].msg])
  BY DEF HandlersAtWork
<1>1. CASE run'[c] = run[c]
  BY <1>1, QuietHandler
<1>2. CASE \E m \in Msgs : Ignore(c, m) \/ SkipReply(c, m)
  BY <1>1, <1>2 DEF Ignore, SkipReply
<1>3. CASE \E m \in Msgs : BeginAppeal(c, m) \/ BeginCase(c, m)
  BY <1>3, BeganAtWork
<1>4. CASE Classify(c)
  BY <1>4, ClassifiedAtWork
<1>5. CASE LinkAppeal(c) \/ RouteTool(c) \/ EndLoop(c) \/ Put(c) \/ Refresh(c) \/ CallTool(c)
           \/ Raise(c)
  BY <1>5, GoesOnAtWork DEF GoesOn
<1>6. CASE Save(c) \/ SaveError(c) \/ SaveErrorFails(c)
  BY <1>6, Ends
<1>7. CASE Crash
  BY <1>7 DEF Crash, StopHandlers
<1>8. QED
  BY <1>1, <1>2, <1>3, <1>4, <1>5, <1>6, <1>7, WhoMoves DEF Handle

--------------------------------------------------------------------------------
(* Failures.                                                                   *)

\* What excuses a message stays.
LEMMA HistoryGrows ==
  ASSUME HInv, [Next]_vars
  PROVE  /\ covered \subseteq covered' /\ unsaved \subseteq unsaved'
         /\ closedOver \subseteq closedOver' /\ away \subseteq away'
<1>1. ASSUME NEW c \in Convs, Handle(c) \/ CallTool(c) \/ Raise(c) \/ SaveErrorFails(c)
      PROVE  /\ covered \subseteq covered' /\ unsaved \subseteq unsaved'
             /\ away \subseteq away'
  BY <1>1 DEF Handle, CallTool, Raise, SaveErrorFails, Ignore, SkipReply, BeginAppeal,
              BeginCase, Classify, LinkAppeal, RouteTool, Save, EndLoop, Finish, Put, Refresh,
              SaveError, GiveUp, CreateTicket, HandOff, MoveInbox, SetState, history
<1>2. CASE \/ \E m \in Msgs : Arrive(m) /\ UNCHANGED jobVars
           \/ \E d \in Convs : Age(d) \/ WriteBack(d) \/ ArchiveStale(d)
           \/ SelectStale \/ CommitClose \/ CloseRaises \/ SelectBlank \/ CancelEnrichment
           \/ Crash \/ UNCHANGED vars
  BY <1>2 DEF Arrive, Age, WriteBack, ArchiveStale, SelectStale, CommitClose, CloseRaises,
              SelectBlank, CancelEnrichment, Crash, StopHandlers, flowVars, vars, jobVars,
              history
<1>3. CASE \E c \in Convs : /\ Handle(c) \/ CallTool(c) \/ Raise(c) \/ SaveErrorFails(c)
                            /\ UNCHANGED jobVars
  BY <1>1, <1>3 DEF jobVars
<1>4. QED
  BY <1>2, <1>3 DEF Next

LEMMA ExcuseStays ==
  ASSUME HInv, [Next]_vars, NEW m \in Msgs, Excused(m)
  PROVE  Excused(m)'
BY HistoryGrows, ExplicitStays DEF Excused

\* While a handler does not move, what its row says of the step and of waiting stays
\* unless auto-close writes over it.
LEMMA RowStays ==
  ASSUME HInv, [Next]_vars, NEW c \in Convs, row[c] # NoRow, run'[c] = run[c]
  PROVE  \/ /\ row'[c] # NoRow /\ row'[c].step = row[c].step
            /\ row'[c].waiting = "no" <=> row[c].waiting = "no"
         \/ c \in closedOver'
         \/ run[c] = Idle /\ row[c].waiting = "stale"
<1> SUFFICES ASSUME row'[c] # row[c]
             PROVE  \/ /\ row'[c] # NoRow /\ row'[c].step = row[c].step
                       /\ row'[c].waiting = "no" <=> row[c].waiting = "no"
                    \/ c \in closedOver'
                    \/ run[c] = Idle /\ row[c].waiting = "stale"
  OBVIOUS
<1>1. IsRow(row[c]) /\ DOMAIN row = Convs
  BY DEF HInv, IInv, Shaped
<1>2. ASSUME NEW d \in Convs, Handle(d) \/ CallTool(d) \/ Raise(d) \/ SaveErrorFails(d)
      PROVE  FALSE
  BY <1>2, OwnerWrites DEF HInv
<1>3. ASSUME NEW d \in Convs, WriteBack(d)
      PROVE  /\ row'[c] # NoRow /\ row'[c].step = row[c].step
             /\ row'[c].waiting = row[c].waiting
  <2>1. PICK blank \in BOOLEAN :
          row' = [row EXCEPT ![d].linear_url = copies[d].linear_url, ![d].blank = blank]
    BY <1>3 DEF WriteBack, WriteRows
  <2>2. d = c
    BY <1>1, <2>1
  <2>3. /\ row'[c].step = row[c].step /\ row'[c].waiting = row[c].waiting
        /\ IsRow(row'[c])
    BY <1>1, <2>1, <2>2 DEF IsRow, RowFields
  <2>4. QED
    BY <2>3, RowsAreNotNoRow
<1>4. ASSUME NEW d \in Convs, Age(d)
      PROVE  /\ row'[c] # NoRow /\ row'[c].step = row[c].step
             /\ row'[c].waiting # "no" /\ row[c].waiting # "no"
  <2>1. row[d].waiting = "fresh" /\ row' = [row EXCEPT ![d].waiting = "stale"]
    BY <1>4 DEF Age
  <2>2. d = c
    BY <1>1, <2>1
  <2>3. /\ row'[c].step = row[c].step /\ row'[c].waiting = "stale" /\ IsRow(row'[c])
    BY <1>1, <2>1, <2>2 DEF IsRow, RowFields
  <2>4. QED
    BY <2>1, <2>2, <2>3, RowsAreNotNoRow
<1>5. CASE CommitClose
  <2>1. c \in close.picked
    BY <1>1, <1>5 DEF CommitClose, WriteRows
  <2>2. run[c] = Idle \/ run[c].pc # "idle"
    BY DEF HInv, IInv, Shaped, HandlerOK
  <2>3. QED
    BY <1>5, <2>1, <2>2 DEF CommitClose
<1>6. CASE \/ \E m \in Msgs : Arrive(m)
           \/ \E d \in Convs : ArchiveStale(d)
           \/ SelectStale \/ CloseRaises \/ SelectBlank \/ CancelEnrichment
           \/ Crash \/ UNCHANGED vars
  BY <1>6 DEF Arrive, ArchiveStale, SelectStale, CloseRaises, SelectBlank,
              CancelEnrichment, Crash, StopHandlers, flowVars, vars
<1>7. QED
  BY <1>2, <1>3, <1>4, <1>5, <1>6 DEF Next

\* A failure in a row stays until a handler of the conversation has it before it,
\* or auto-close writes over it.
LEMMA NotedStays ==
  ASSUME HInv, [Next]_vars, NEW c \in Convs, FailureNoted(c), run'[c] = run[c]
  PROVE  FailureNoted(c)' \/ c \in closedOver'
BY RowStays DEF FailureNoted

\* When a session's row fits the table's, set_state leaves the step that was asked
\* for, and waiting if that was.
LEMMA FlushedFits ==
  ASSUME NEW old, NEW copy, NEW r, IsRow(r), Fits(copy, old), NEW anew \in BOOLEAN
  PROVE  /\ Flushed(old, copy, r, anew) # NoRow
         /\ Flushed(old, copy, r, anew).step = r.step
         /\ Flushed(old, copy, r, anew).waiting = "no" <=> r.waiting = "no"
<1>1. CASE copy = NoRow
  BY <1>1, RowsAreNotNoRow DEF Flushed
<1>2. CASE copy # NoRow
  <2> DEFINE A == Assigned(copy, r, anew)
             w == Flushed(old, copy, r, anew)
  <2>1. w = [f \in RowFields |-> IF f \in A THEN r[f] ELSE old[f]]
    BY <1>2 DEF Flushed, IsRow
  <2>2. /\ r.step # copy.step => "step" \in A
        /\ r.waiting # copy.waiting => "waiting" \in A
    BY DEF Assigned, IsRow, RowFields
  <2> HIDE DEF A, w
  <2>3. /\ w.step = IF "step" \in A THEN r.step ELSE old.step
        /\ w.waiting = IF "waiting" \in A THEN r.waiting ELSE old.waiting
        /\ IsRow(w)
    BY <2>1 DEF RowFields, IsRow
  <2>4. w # NoRow /\ w.step = r.step /\ (w.waiting = "no" <=> r.waiting = "no")
    BY <1>2, <2>2, <2>3, RowsAreNotNoRow DEF Fits
  <2>5. QED
    BY <2>4 DEF w
<1>3. QED
  BY <1>1, <1>2

\* So the commit of a handler whose row auto-close left alone.
LEMMA CommitFits ==
  ASSUME HInv, NEW c \in Convs, run[c].pc \in {"save", "put", "error"}, Commit(c, c),
         c \notin closedOver
  PROVE  /\ row'[c] # NoRow /\ row'[c].step = run[c].save.step
         /\ row'[c].waiting = "no" <=> run[c].save.waiting = "no"
<1>1. PICK anew \in BOOLEAN :
        row' = [row EXCEPT ![c] = Flushed(row[c], run[c].copy, run[c].save, anew)]
  BY DEF Commit, WriteRows
<1>2. run[c] # Idle /\ IsRow(run[c].save)
  BY WorkingHandler DEF HInv, HandlerOK
<1>3. Fits(run[c].copy, row[c])
  BY <1>2 DEF HInv, CopiesFit
<1>4. row'[c] = Flushed(row[c], run[c].copy, run[c].save, anew)
  BY <1>1 DEF HInv, IInv, Shaped
<1>5. QED
  BY <1>2, <1>3, <1>4, FlushedFits

LEMMA StepCopiesFit ==
  ASSUME HInv, [Next]_vars
  PROVE  CopiesFit'
<1> SUFFICES ASSUME NEW c \in Convs, c \notin closedOver', run'[c] # Idle,
                    run'[c].old # NoRow \/ run'[c].pc \in {"save", "put", "error"}
             PROVE  Fits(run'[c].copy, row'[c])
  BY DEF CopiesFit
<1>1. /\ c \notin closedOver
      /\ run[c] # Idle /\ (run[c].old # NoRow \/ run[c].pc \in {"save", "put", "error"}) =>
           Fits(run[c].copy, row[c])
      /\ DOMAIN run = Convs
  BY HistoryGrows DEF HInv, CopiesFit, IInv, Shaped
<1>2. CASE run'[c] = run[c]
  BY <1>1, <1>2, RowStays DEF Fits
<1>3. CASE \E m \in Msgs : BeginAppeal(c, m) \/ BeginCase(c, m)
  <2>1. PICK m \in Msgs : BeginAppeal(c, m) \/ BeginCase(c, m)
    BY <1>3
  <2>2. row' = row /\ run'[c].copy = row[c]
    BY <2>1, BeganAtWork DEF BeginAppeal, BeginCase, history
  <2>3. QED
    BY <2>2 DEF Fits
<1>4. ASSUME run[c].pc # "idle", row' = row, NEW pc, NEW r, Asks(c, pc, r)
      PROVE  Fits(run'[c].copy, row'[c])
  <2>1. run'[c].copy = Loaded(c) /\ run[c] # Idle
    BY <1>4, AskedFor, WorkingOn
  <2>2. CASE run[c].old # NoRow
    BY <1>1, <1>4, <2>1, <2>2 DEF Loaded
  <2>3. CASE run[c].old = NoRow
    BY <1>4, <2>1, <2>3 DEF Loaded, Fits
  <2>4. QED
    BY <2>2, <2>3
<1>5. CASE LinkAppeal(c) \/ RouteTool(c) \/ EndLoop(c) \/ SetState(c) \/ Raise(c)
  <2>1. run[c].pc # "idle" /\ row' = row
    BY <1>5 DEF LinkAppeal, RouteTool, EndLoop, SetState, InLoop, Raise
  <2>2. \E pc, r : Asks(c, pc, r)
    BY <1>1, <1>5 DEF LinkAppeal, RouteTool, EndLoop, Finish, SetState, Raise
  <2>3. QED
    BY <1>4, <2>1, <2>2
<1>6. CASE Classify(c)
  BY <1>1, <1>6, ClassifiedAtWork DEF Classify
<1>7. CASE Put(c)
  <2>1. run[c].pc = "put" /\ Commit(c, c)
    BY <1>7 DEF Put, PreparedConv
  <2>2. run[c] # Idle /\ DOMAIN run[c] = HandlerFields
    BY <2>1, WorkingOn
  <2>3. run'[c].copy = run[c].save
    BY <1>1, <1>7, <2>2 DEF Put, HandlerFields
  <2>4. QED
    BY <1>1, <2>1, <2>3, CommitFits DEF Fits
<1>8. CASE Refresh(c)
  <2>1. run[c].pc = "refresh" /\ row' = row
    BY <1>8 DEF Refresh
  <2>2. DOMAIN run[c] = HandlerFields
    BY <2>1, WorkingOn
  <2>3. run'[c].copy = row[c]
    BY <1>1, <1>8, <2>2 DEF Refresh, HandlerFields
  <2>4. QED
    BY <2>1, <2>3 DEF Fits
<1>9. CASE Save(c) \/ SaveError(c) \/ SaveErrorFails(c)
  BY <1>9, Ends
<1>10. CASE (\E m \in Msgs : Ignore(c, m) \/ SkipReply(c, m)) \/ MoveInbox(c)
  BY <1>2, <1>10 DEF Ignore, SkipReply, MoveInbox
<1>11. CASE Crash
  BY <1>11 DEF Crash, StopHandlers
<1>12. CASE CreateTicket(c) \/ HandOff(c)
  <2>1. /\ run[c].pc = "loop" /\ row' = row
        /\ \E keep : run' = [run EXCEPT ![c].keep = keep]
    BY <1>12 DEF CreateTicket, HandOff, InLoop, Keeps
  <2>2. run[c] # Idle /\ DOMAIN run[c] = HandlerFields
    BY <2>1, WorkingOn
  <2>3. /\ run'[c].copy = run[c].copy /\ run'[c].old = run[c].old
        /\ run'[c].pc = run[c].pc
    BY <1>1, <2>1, <2>2 DEF HandlerFields
  <2>4. QED
    BY <1>1, <2>1, <2>2, <2>3
<1>13. QED
  BY <1>2, <1>3, <1>5, <1>6, <1>7, <1>8, <1>9, <1>10, <1>11, <1>12, WhoMoves DEF Handle, CallTool

\* A message that waits is finished only by the handler that has it, or ignored.
LEMMA WaitingStays ==
  ASSUME HInv, [Next]_vars, NEW m \in Msgs, NEW c \in Convs, ConvOf[m] = c,
         Waits(m, c)
  PROVE  \/ msg'[m] = msg[m]
         \/ c \in away
         \/ Finish(c) /\ (Save(c) \/ EndLoop(c)) /\ run[c].msg = m
<1>1. msg[m].state = "pending"
  BY DEF Waits
<1>2. ASSUME NEW d \in Convs, SkipReply(d, m)
      PROVE  FALSE
  <2>1. d = c /\ run[c].pc = "idle" /\ SkipsReply(row[c], msg[m].mail.text)
    BY <1>2 DEF SkipReply, Ready
  <2>2. FailureNoted(c)
    BY <2>1 DEF Waits, HInv, IInv, Shaped, HandlerOK
  <2>3. QED
    BY <2>1, <2>2 DEF SkipsReply, IsFailedRetry, FailureNoted
<1>3. ASSUME NEW d \in Convs, Finish(d), Save(d) \/ EndLoop(d), run[d].msg = m
      PROVE  d = c
  BY <1>3, WorkingOn DEF Save, EndLoop
<1>4. ASSUME NEW d \in Convs, Ignore(d, m)
      PROVE  c \in away
  BY <1>4 DEF Ignore, Ready
<1>5. QED
  BY <1>1, <1>2, <1>3, <1>4, MailKept

\* Finishing a message covers it and what the handler saw, or is an appeal.
LEMMA FinishExcuses ==
  ASSUME HInv, [Next]_vars, NEW m \in Msgs, NEW c \in Convs, ConvOf[m] = c,
         Finish(c), run[c].pc # "idle", m \in run[c].saw
  PROVE  Excused(m)'
<1> DEFINE n == run[c].msg
<1>1. n \in Msgs /\ ConvOf[n] = c
  BY WorkingOn
<1>2. covered' = covered \cup (IF Suspension(msg[n].mail.text) # NoClass THEN {n} ELSE run[c].saw)
  BY DEF Finish
<1>3. CASE Suspension(msg[n].mail.text) = NoClass \/ m = n
  BY <1>2, <1>3 DEF Excused
<1>4. CASE Suspension(msg[n].mail.text) # NoClass /\ m # n
  <2>1. PICK k \in Msgs \ {m} : k = n
    BY <1>1, <1>4
  <2>2. ConvOf[k] = c /\ k \in covered'
    BY <1>1, <1>2, <1>4, <2>1
  <2>3. Explicit(k)'
    BY <1>4, <2>1, ExplicitIs, ExplicitStays DEF Explicit
  <2>4. QED
    BY <2>1, <2>2, <2>3 DEF Excused
<1>5. QED
  BY <1>3, <1>4

\* The error path leaves the failure in the row, unless auto-close wrote over it.
LEMMA ErrorNoted ==
  ASSUME HInv, NEW c \in Convs, SaveError(c)
  PROVE  /\ run'[c] = Idle /\ msg' = msg
         /\ FailureNoted(c)' \/ c \in closedOver
<1>1. run[c].pc = "error" /\ Commit(c, c)
  BY DEF SaveError, GiveUp
<1>2. run'[c] = Idle /\ msg' = msg
  BY DEF SaveError, GiveUp, HInv, IInv, Shaped
<1>3. run[c].save = FailedRow
  BY <1>1, WorkingOn DEF AtWork
<1>4. FailedRow.step = "failed_needs_review" /\ FailedRow.waiting = "no"
  BY DEF FailedRow, Row
<1>5. QED
  BY <1>1, <1>2, <1>3, <1>4, CommitFits DEF FailureNoted

\* What waits goes on waiting or is excused.
LEMMA WaitsOn ==
  ASSUME HInv, [Next]_vars, NEW m \in Msgs, NEW c \in Convs, ConvOf[m] = c,
         Waits(m, c)
  PROVE  Excused(m)' \/ Waits(m, c)'
<1>1. CASE run[c] # Idle /\ Finish(c)
  <2>1. run[c].pc # "idle" /\ m \in run[c].saw
    BY <1>1 DEF Waits, HInv, IInv, Shaped, HandlerOK
  <2>2. QED
    BY <1>1, <2>1, FinishExcuses
<1>2. CASE c \in away
  BY <1>2, HistoryGrows DEF Excused
<1>3. CASE ~(run[c] # Idle /\ Finish(c)) /\ c \notin away
  <2>1. msg'[m] = msg[m]
    <3>1. Save(c) \/ EndLoop(c) => run[c].pc # "idle"
      BY DEF Save, EndLoop
    <3>2. Save(c) \/ EndLoop(c) => run[c] # Idle
      BY <3>1 DEF Idle
    <3>3. QED
      BY <1>3, <3>2, WaitingStays
  <2>2. msg'[m].state = "pending"
    BY <2>1 DEF Waits
  <2>3. CASE run'[c] = run[c]
    <3>1. CASE run[c] = Idle
      <4>1. FailureNoted(c)' \/ c \in closedOver'
        BY <2>3, <3>1, NotedStays DEF Waits
      <4>2. QED
        BY <2>2, <2>3, <3>1, <4>1 DEF Waits, Excused
    <3>2. CASE run[c] # Idle
      BY <2>2, <2>3, <3>2 DEF Waits
    <3>3. QED
      BY <3>1, <3>2
  <2>4. CASE \E n \in Msgs : BeginAppeal(c, n) \/ BeginCase(c, n)
    <3>1. /\ run'[c] # Idle
          /\ run'[c].saw = {n \in Msgs : ConvOf[n] = c /\ msg[n].state # "unsent"}
      BY <2>4, BeganAtWork
    <3>2. m \in run'[c].saw
      BY <3>1 DEF Waits
    <3>3. QED
      BY <2>2, <3>1, <3>2 DEF Waits
  <2>5. CASE Classify(c) \/ GoesOn(c)
    <3>1. run[c] # Idle
      <4>1. Classify(c) => run[c].pc = "classify"
        BY DEF Classify
      <4>2. QED
        BY <2>5, <4>1, GoesOnAtWork DEF Idle
    <3>2. run'[c].saw = run[c].saw /\ run'[c] # Idle
      BY <2>5, GoesOnAtWork, ClassifiedAtWork
    <3>3. QED
      BY <2>2, <3>1, <3>2 DEF Waits
  <2>6. CASE Save(c) \/ (EndLoop(c) /\ run'[c] = Idle)
    <3>1. run[c].pc \in {"save", "loop"}
      BY <2>6 DEF Save, EndLoop
    <3>2. run[c] # Idle /\ ~GiveUp(c)
      BY <3>1 DEF Idle, GiveUp
    <3>3. QED
      BY <1>3, <2>6, <3>2, Ends
  <2>7. CASE SaveError(c)
    BY <2>2, <2>7, ErrorNoted, HistoryGrows DEF Waits, Excused
  <2>8. CASE SaveErrorFails(c)
    BY <2>8 DEF SaveErrorFails, Excused
  <2>9. CASE Crash /\ run'[c] # run[c]
    <3>1. c \in Busy
      BY <2>9 DEF Crash, StopHandlers, Busy, HInv, IInv, Shaped, HandlerOK
    <3>2. QED
      BY <2>9, <3>1 DEF Crash, StopHandlers, Excused
  <2>10. CASE \E n \in Msgs : Ignore(c, n) \/ SkipReply(c, n)
    BY <2>3, <2>10 DEF Ignore, SkipReply
  <2>11. CASE Handle(c)
    BY <2>4, <2>5, <2>6, <2>7, <2>10, <2>11 DEF Handle, GoesOn
  <2>12. QED
    BY <2>3, <2>5, <2>8, <2>9, <2>11, WhoMoves DEF GoesOn
<1>4. QED
  BY <1>1, <1>2, <1>3

\* A handling that is broken off leaves the failure in the row, or is excused.
LEMMA BrokenOff ==
  ASSUME HInv, [Next]_vars, NEW m \in tried', m \notin tried
  PROVE  m \in Msgs /\ (Excused(m)' \/ Waits(m, ConvOf[m])')
<1>1. \/ \E c \in Convs : /\ SaveError(c) \/ SaveErrorFails(c)
                          /\ run[c].msg = m
      \/ Crash /\ \E c \in Busy : run[c].msg = m
  <2>1. ASSUME NEW c \in Convs, Handle(c) \/ CallTool(c) \/ Raise(c) \/ SaveErrorFails(c)
        PROVE  SaveError(c) \/ SaveErrorFails(c) \/ UNCHANGED tried
    BY <2>1 DEF Handle, CallTool, Raise, Ignore, SkipReply, BeginAppeal, BeginCase, Classify,
                LinkAppeal, RouteTool, Save, EndLoop, Put, Refresh, CreateTicket, HandOff,
                MoveInbox, SetState, history
  <2>2. CASE \/ \E n \in Msgs : Arrive(n)
             \/ \E d \in Convs : Age(d) \/ WriteBack(d) \/ ArchiveStale(d)
             \/ SelectStale \/ CommitClose \/ CloseRaises \/ SelectBlank \/ CancelEnrichment
             \/ UNCHANGED vars
    BY <2>2 DEF Arrive, Age, WriteBack, ArchiveStale, SelectStale, CommitClose, CloseRaises,
                SelectBlank, CancelEnrichment, flowVars, vars, history
  <2>3. CASE Crash
    BY <2>3 DEF Crash, StopHandlers
  <2>4. CASE \E c \in Convs : SaveError(c) \/ SaveErrorFails(c)
    BY <2>4 DEF SaveError, SaveErrorFails, GiveUp
  <2>5. QED
    BY <2>1, <2>2, <2>3, <2>4 DEF Next
<1>2. CASE \E c \in Convs : /\ SaveError(c) \/ SaveErrorFails(c)
                            /\ run[c].msg = m
  <2>1. PICK c \in Convs : (SaveError(c) \/ SaveErrorFails(c)) /\ run[c].msg = m
    BY <1>2
  <2>2. m \in Msgs /\ ConvOf[m] = c /\ msg[m].state = "pending"
    BY <2>1, WorkingOn DEF SaveError, SaveErrorFails, GiveUp
  <2>3. CASE SaveErrorFails(c)
    BY <2>2, <2>3 DEF SaveErrorFails, Excused
  <2>4. CASE SaveError(c)
    <3>1. closedOver \subseteq closedOver'
      BY HistoryGrows
    <3>2. QED
      BY <2>2, <2>4, <3>1, ErrorNoted DEF Waits, Excused
  <2>5. QED
    BY <2>1, <2>3, <2>4
<1>3. CASE Crash /\ \E c \in Busy : run[c].msg = m
  BY <1>3, WorkingOn DEF Crash, StopHandlers, Busy, Excused
<1>4. QED
  BY <1>1, <1>2, <1>3

LEMMA StepFailuresWait ==
  ASSUME HInv, [Next]_vars
  PROVE  FailuresWait'
<1>1. ASSUME NEW m \in tried'
      PROVE  m \in Msgs /\ \A c \in Convs : ConvOf[m] = c => Excused(m)' \/ Waits(m, c)'
  <2>1. CASE m \in tried
    BY <2>1, WaitsOn, ExcuseStays DEF HInv, FailuresWait
  <2>2. CASE m \notin tried
    BY <2>2, BrokenOff
  <2>3. QED
    BY <2>1, <2>2
<1>2. QED
  BY <1>1 DEF FailuresWait

--------------------------------------------------------------------------------
(* Templates.                                                                  *)

\* Only the route of a handler adds a template, of the kind that its text asks for.
LEMMA TemplateMoves ==
  ASSUME HInv, [Next]_vars
  PROVE  \/ UNCHANGED template
         \/ \E c \in Convs :
              /\ RouteTool(c) /\ InitialRoute(run[c].class).tool = "template_draft"
              /\ template' = template \cup
                   {<<c, IF Explicit(run[c].msg) THEN "explicit" ELSE "classified">>}
<1>1. ASSUME NEW c \in Convs, Handle(c) \/ CallTool(c) \/ Raise(c) \/ SaveErrorFails(c)
      PROVE  RouteTool(c) \/ UNCHANGED template
  BY <1>1 DEF Handle, CallTool, Raise, SaveErrorFails, Ignore, SkipReply, BeginAppeal,
              BeginCase, Classify, LinkAppeal, Save, EndLoop, Put, Refresh, SaveError,
              CreateTicket, HandOff, MoveInbox, SetState
<1>2. ASSUME NEW c \in Convs, RouteTool(c)
      PROVE  \/ UNCHANGED template
             \/ /\ InitialRoute(run[c].class).tool = "template_draft"
                /\ template' = template \cup
                     {<<c, IF Explicit(run[c].msg) THEN "explicit" ELSE "classified">>}
  BY <1>2, ExplicitIs DEF RouteTool, Explicit
<1>3. CASE \/ \E m \in Msgs : Arrive(m)
           \/ \E d \in Convs : Age(d) \/ WriteBack(d) \/ ArchiveStale(d)
           \/ SelectStale \/ CommitClose \/ CloseRaises \/ SelectBlank \/ CancelEnrichment
           \/ Crash \/ UNCHANGED vars
  BY <1>3 DEF Arrive, Age, WriteBack, ArchiveStale, SelectStale, CommitClose, CloseRaises,
              SelectBlank, CancelEnrichment, Crash, StopHandlers, flowVars, vars
<1>4. QED
  BY <1>1, <1>2, <1>3 DEF Next

\* A conversation comes to draft only when its handler begins with an appeal.
LEMMA DraftsBegin ==
  ASSUME HInv, [Next]_vars, NEW c \in Convs, Drafts(c)'
  PROVE  Drafts(c) \/ \E m \in Msgs : BeginAppeal(c, m) /\ run'[c].pc = "route"
<1>1. CASE <<c, "explicit">> \in template'
  <2>1. CASE <<c, "explicit">> \notin template
    <3>1. PICK d \in Convs :
            /\ RouteTool(d)
            /\ <<c, "explicit">> = <<d, IF Explicit(run[d].msg) THEN "explicit" ELSE "classified">>
      BY <1>1, <2>1, TemplateMoves
    <3>2. d = c /\ Explicit(run[c].msg)
      BY <3>1
    <3>3. run[c].pc = "route"
      BY <3>1, <3>2 DEF RouteTool
    <3>4. run[c].msg \in Msgs /\ run[c] # Idle
      BY <3>3, WorkingOn
    <3>5. QED
      BY <3>2, <3>3, <3>4 DEF Drafts
  <2>2. QED
    BY <2>1 DEF Drafts
<1>2. CASE /\ run'[c] # Idle /\ run'[c].pc = "route"
           /\ \E m \in Msgs : m = run'[c].msg /\ Explicit(m)'
  <2> PICK m \in Msgs : m = run'[c].msg /\ Explicit(m)'
    BY <1>2
  <2>0. Explicit(m)
    BY ExplicitStays
  <2>1. CASE run'[c] = run[c]
    BY <1>2, <2>0, <2>1 DEF Drafts
  <2>2. CASE Classify(c)
    BY <1>2, <2>0, <2>2, ClassifiedAtWork
  <2>3. CASE LinkAppeal(c) \/ RouteTool(c) \/ EndLoop(c) \/ Put(c) \/ Refresh(c)
             \/ CallTool(c) \/ Raise(c)
    BY <1>2, <2>3, GoesOnAtWork DEF GoesOn
  <2>4. CASE Save(c) \/ SaveError(c) \/ SaveErrorFails(c)
    BY <1>2, <2>4, Ends
  <2>5. CASE Crash
    BY <1>2, <2>5 DEF Crash, StopHandlers
  <2>6. CASE \E n \in Msgs : BeginCase(c, n) \/ BeginAppeal(c, n)
    BY <1>2, <2>6, BeganAtWork
  <2>7. CASE \E n \in Msgs : Ignore(c, n) \/ SkipReply(c, n)
    BY <2>1, <2>7 DEF Ignore, SkipReply
  <2>8. CASE Handle(c)
    BY <2>2, <2>3, <2>4, <2>6, <2>7, <2>8 DEF Handle
  <2>9. QED
    BY <2>1, <2>3, <2>4, <2>5, <2>8, WhoMoves
<1>3. QED
  BY <1>1, <1>2 DEF Drafts

\* What all handlers see now they saw before.
LEMMA SeenBefore ==
  ASSUME HInv, [Next]_vars, AllSeen'
  PROVE  AllSeen
<1>1. \A m \in Msgs : /\ msg'[m].mail = msg[m].mail
                      /\ msg[m].state # "unsent" => msg'[m].state # "unsent"
  BY MailKept
<1>2. faults = 0
  BY FaultsCounted DEF AllSeen, HInv, MailOK
<1>3. \A m \in Msgs : msg[m].state # "unsent" /\ Explicit(m) =>
                     "suspension" \in msg[m].mail.shown
  <2> SUFFICES ASSUME NEW m \in Msgs, msg[m].state # "unsent", Explicit(m)
               PROVE  "suspension" \in msg[m].mail.shown
    OBVIOUS
  <2>1. msg'[m].mail = msg[m].mail /\ msg'[m].state # "unsent"
    BY <1>1
  <2>2. "suspension" \in msg'[m].mail.shown
    BY <2>1 DEF AllSeen, Explicit
  <2>3. QED
    BY <2>1, <2>2
<1>4. Cardinality({c \in Convs : Wrote(c)}) <= LinkLimit + 1
  <2> DEFINE S == {c \in Convs : Wrote(c)}
             T == {c \in Convs : Wrote(c)'}
  <2>1. IsFiniteSet(Convs) /\ LinkLimit \in Nat
    BY FlowAssumption
  <2>2. S \subseteq T
    <3>1. ASSUME NEW c \in Convs, Wrote(c)
          PROVE  Wrote(c)'
      BY <1>1, <3>1 DEF Wrote
    <3>2. QED
      BY <3>1
  <2>3. IsFiniteSet(T) /\ Cardinality(T) <= LinkLimit + 1
    BY <2>1, FS_Subset DEF AllSeen
  <2> HIDE DEF S, T
  <2>4. /\ Cardinality(S) <= Cardinality(T)
        /\ Cardinality(S) \in Nat /\ Cardinality(T) \in Nat
    BY <2>2, <2>3, FS_Subset, FS_CardinalityType
  <2>5. Cardinality(S) <= LinkLimit + 1
    BY <2>1, <2>3, <2>4
  <2>6. QED
    BY <2>5 DEF S
<1>5. QED
  BY <1>2, <1>3, <1>4 DEF AllSeen

\* When the limit is not reached a handler looks at every related conversation.
LEMMA LooksAtAll ==
  ASSUME AllSeen, NEW c \in Convs, Wrote(c), NEW seen, LookedAt(c, seen)
  PROVE  seen = Related(c)
<1> SUFFICES ASSUME seen \in SUBSET Related(c), Cardinality(seen) = LinkLimit
             PROVE  seen = Related(c)
  BY DEF LookedAt
<1> DEFINE S == {d \in Convs : Wrote(d)}
           R == Related(c)
<1>1. IsFiniteSet(S) /\ LinkLimit \in Nat /\ Cardinality(S) <= LinkLimit + 1
  BY FlowAssumption, FS_Subset DEF AllSeen
<1>2. R = S \ {c} /\ c \in S
  BY DEF Related
<1> HIDE DEF S, R
<1>3. IsFiniteSet(R) /\ Cardinality(R) = Cardinality(S) - 1
  BY <1>1, <1>2, FS_RemoveElement
<1>4. Cardinality(seen) <= Cardinality(R) /\ (Cardinality(R) = Cardinality(seen) => R = seen)
  BY <1>3, FS_Subset DEF R
<1>5. Cardinality(S) \in Nat /\ Cardinality(R) \in Nat
  BY <1>1, <1>3, FS_CardinalityType
<1>6. Cardinality(R) = Cardinality(seen)
  BY <1>1, <1>3, <1>4, <1>5
<1>7. QED
  BY <1>4, <1>6 DEF R

\* A handler that goes on to the template has seen no other conversation appeal.
LEMMA DraftsAlone ==
  ASSUME HInv, [Next]_vars, AllSeen', NEW c \in Convs, NEW m \in Msgs,
         BeginAppeal(c, m), run'[c].pc = "route", NEW d \in Convs, d # c
  PROVE  ~Appealed(d) /\ ~(\E n \in Msgs : BeginAppeal(d, n))
<1>1. PICK linked \in SUBSET Convs :
        /\ ReadLinked(c, linked)
        /\ run' = [run EXCEPT ![c] =
             [Handler(IF linked \cup OwnCase(c) = {} THEN "route" ELSE "link", m,
                      linked \cup OwnCase(c))
                EXCEPT !.class = Suspension(msg[m].mail.text)]]
  BY DEF BeginAppeal
<1>2. linked = {}
  <2>1. linked \cup OwnCase(c) # {} => run'[c].pc = "link"
    BY <1>1 DEF Handler, HInv, IInv, Shaped
  <2>2. QED
    BY <2>1
<1>3. AllSeen
  BY SeenBefore
<1>4. PICK seen \in SUBSET Convs :
        LookedAt(c, seen) /\ seen \cap AppealsInFront = {}
  <2>1. PICK seen \in SUBSET Convs, unread \in {0, 1} :
          /\ LookedAt(c, seen)
          /\ unread = 0 => seen \cap AppealsInFront \subseteq linked
          /\ faults' = faults + Unchecked(c) + unread
    BY <1>1 DEF ReadLinked
  <2>2. faults = 0 /\ faults' = 0 /\ Unchecked(c) \in {0, 1}
    BY <1>3 DEF AllSeen, Unchecked
  <2>3. unread = 0
    BY <2>1, <2>2
  <2>4. QED
    BY <1>2, <2>1, <2>3
<1>5. seen = Related(c)
  <2>1. Wrote(c)
    BY DEF BeginAppeal, Ready, Wrote
  <2>2. QED
    BY <1>3, <1>4, <2>1, LooksAtAll
<1>6. ~Appealed(d)
  <2> SUFFICES ASSUME NEW n \in Msgs, ConvOf[n] = d, msg[n].state # "unsent", Explicit(n)
               PROVE  FALSE
    BY DEF Appealed
  <2>2. d \in AppealsInFront
    <3>1. "suspension" \in msg[n].mail.shown
      BY <1>3 DEF AllSeen
    <3>2. Suspension(msg[n].mail.shown) # NoClass
      BY <3>1, ExplicitIs
    <3>3. QED
      BY <3>2 DEF AppealsInFront
  <2>3. d \in Related(c)
    BY DEF Related, Wrote
  <2>4. QED
    BY <1>4, <1>5, <2>2, <2>3
<1>7. ASSUME NEW n \in Msgs, BeginAppeal(d, n)
      PROVE  FALSE
  <2>1. run'[d] = run[d]
    BY OthersStay DEF Handle, HInv
  <2>2. run[d] = Idle
    BY <1>7 DEF BeginAppeal, Ready, HInv, IInv, Shaped, HandlerOK
  <2>3. run'[d] # Idle
    BY <1>7, BeganAtWork
  <2>4. QED
    BY <2>1, <2>2, <2>3
<1>8. QED
  BY <1>6, <1>7

LEMMA StepOneDraft ==
  ASSUME HInv, [Next]_vars
  PROVE  OneDraft'
<1> SUFFICES ASSUME AllSeen'
             PROVE  /\ \A c \in Convs : Drafts(c)' => Appealed(c)'
                    /\ \A c, d \in Convs : Drafts(c)' /\ Drafts(d)' => c = d
  BY DEF OneDraft
<1>1. AllSeen
  BY SeenBefore
<1>2. /\ \A c \in Convs : Drafts(c) => Appealed(c)
      /\ \A c, d \in Convs : Drafts(c) /\ Drafts(d) => c = d
  BY <1>1 DEF HInv, OneDraft
<1>3. ASSUME NEW c \in Convs, Drafts(c)'
      PROVE  Appealed(c)'
  <2>1. Appealed(c)
    <3>1. CASE Drafts(c)
      BY <1>2, <3>1
    <3>2. ASSUME NEW m \in Msgs, BeginAppeal(c, m)
          PROVE  Appealed(c)
      <4>1. /\ ConvOf[m] = c /\ msg[m].state # "unsent"
            /\ Suspension(msg[m].mail.text) # NoClass
        BY <3>2 DEF BeginAppeal, Ready
      <4>2. QED
        BY <4>1, ExplicitIs DEF Appealed, Explicit
    <3>3. QED
      BY <1>3, <3>1, <3>2, DraftsBegin
  <2>2. QED
    BY <2>1, MailKept, ExplicitStays DEF Appealed
<1>4. ASSUME NEW c \in Convs, NEW d \in Convs, Drafts(c)', Drafts(d)', c # d
      PROVE  FALSE
  <2>1. CASE Drafts(c) /\ Drafts(d)
    BY <1>2, <1>4, <2>1
  <2>2. ASSUME NEW m \in Msgs, BeginAppeal(c, m), run'[c].pc = "route"
        PROVE  FALSE
    BY <1>1, <1>2, <1>4, <2>2, DraftsAlone, DraftsBegin
  <2>3. ASSUME NEW m \in Msgs, BeginAppeal(d, m), run'[d].pc = "route"
        PROVE  FALSE
    BY <1>1, <1>2, <1>4, <2>3, DraftsAlone, DraftsBegin
  <2>4. QED
    BY <1>4, <2>1, <2>2, <2>3, DraftsBegin
<1>5. QED
  BY <1>3, <1>4

--------------------------------------------------------------------------------

LEMMA InitHInv ==
  ASSUME Init
  PROVE  HInv
<1>1. IInv
  BY InitIInv
<1>2. PICK mailbox \in Mailboxes :
        msg = [m \in Msgs |-> [state |-> "unsent", mail |-> mailbox[m]]]
  BY DEF Init, FlowInit
<1>3. MailOK
  BY <1>2 DEF Init, FlowInit, MailOK
<1>4. HandlersAtWork /\ CopiesFit /\ FailuresWait /\ OneDraft
  BY DEF Init, FlowInit, HandlersAtWork, CopiesFit, FailuresWait, OneDraft, Drafts
<1>5. QED
  BY <1>1, <1>3, <1>4 DEF HInv

\* The invariant of the handlers and of what they leave behind.
THEOREM HandlingInvariant == Spec => []HInv
<1>1. Init => HInv
  BY InitHInv
<1>2. HInv /\ [Next]_vars => HInv'
  <2> SUFFICES ASSUME HInv, [Next]_vars
               PROVE  HInv'
    OBVIOUS
  <2>1. IInv'
    BY StepKeeps DEF HInv
  <2>2. MailOK'
    BY MailKept
  <2>3. QED
    BY <2>1, <2>2, StepHandlersAtWork, StepCopiesFit, StepFailuresWait, StepOneDraft
       DEF HInv
<1>3. QED
  BY <1>1, <1>2, PTL DEF Spec

\* A message flagged as a legal threat is forwarded to the legal team unless it is a
\* creator's offer, unclear or a suspension, and no first handling of one reaches the
\* language model's tools (decide_initial_route).
THEOREM LegalThreats == Spec => []LegalThreatsEscalate
<1>1. HInv => LegalThreatsEscalate
  <2> SUFFICES ASSUME HInv, NEW c \in Convs, run[c].pc \in {"loop", "put", "refresh"},
                      run[c].class # NoClass
               PROVE  "legal_threat" \notin run[c].class.flags
    BY ThreatsAreRouted DEF LegalThreatsEscalate
  <2>1. AtWork(c, run[c], msg[run[c].msg])
    BY WorkingOn
  <2>2. QED
    BY <2>1 DEF AtWork
<1>2. QED
  BY <1>1, HandlingInvariant, PTL

\* A conversation is not archived as spam for what its customer's text says.
LEMMA TopicsAreNoSpam ==
  ASSUME NEW old, NEW text
  PROVE  /\ Suspension(text) # NoClass => Suspension(text).category # "spam"
         /\ TopicOf(old, text) # NoClass => TopicOf(old, text).category # "spam"
<1>1. Suspension(text) # NoClass => Suspension(text).category # "spam"
  BY ExplicitIs
<1>2. SchoolCancellation(text) # NoClass => SchoolCancellation(text).category # "spam"
  BY DEF SchoolCancellation, Class
<1>3. EducationTopic(text) # NoClass => EducationTopic(text).category # "spam"
  BY <1>1 DEF EducationTopic, Class
<1>4. QED
  BY <1>1, <1>2, <1>3 DEF TopicOf

\* Only a conversation without any sign of a threat, a partnership, a proposal or
\* a creator's offer is archived, and no handler archives a message that is an
\* explicit appeal or changed the topic (_execute_initial_route).
THEOREM ArchivesUnambiguously == Spec => []ArchiveIsUnambiguous
<1>1. HInv => ArchiveIsUnambiguous
  <2> SUFFICES ASSUME HInv, NEW c \in Convs, run[c].pc = "route",
                      InitialRoute(run[c].class).tool = "close"
               PROVE  /\ Suspension(msg[run[c].msg].mail.text) = NoClass
                      /\ TopicOf(run[c].old, msg[run[c].msg].mail.text) = NoClass
    BY ArchivesAreClear DEF ArchiveIsUnambiguous
  <2>1. run[c].class.category = "spam"
    BY RouteGuards DEF ClearSpam
  <2>2. AtWork(c, run[c], msg[run[c].msg])
    BY WorkingOn
  <2>3. Suspension(msg[run[c].msg].mail.text) = NoClass
    BY <2>1, <2>2, TopicsAreNoSpam DEF AtWork
  <2>4. QED
    BY <2>1, <2>2, <2>3, TopicsAreNoSpam DEF AtWork
<1>2. QED
  BY <1>1, HandlingInvariant, PTL

\* A message whose handling was broken off is acknowledged only when a handler
\* has finished with it, or one of the named losses excuses it (the error path of
\* webhooks/front_webhook.py and is_failed_retry_state).
THEOREM NothingStaysUnseen == Spec => []NothingUnseen
<1>1. HInv => NothingUnseen
  <2> SUFFICES ASSUME HInv, NEW m \in tried, msg[m].state = "processed"
               PROVE  \/ m \in covered
                      \/ ConvOf[m] \in unsaved \cup closedOver \cup away
                      \/ \E n \in Msgs \ {m} : /\ ConvOf[n] = ConvOf[m]
                                               /\ n \in covered
                                               /\ Suspension(msg[n].mail.text) # NoClass
    BY DEF NothingUnseen
  <2>1. m \in Msgs /\ ConvOf[m] \in Convs
    BY FlowAssumption DEF HInv, FailuresWait
  <2>2. Excused(m) \/ Waits(m, ConvOf[m])
    BY <2>1 DEF HInv, FailuresWait
  <2>3. Excused(m)
    BY <2>2 DEF Waits
  <2>4. QED
    BY <2>3, ExplicitIs DEF Excused, Explicit
<1>2. QED
  BY <1>1, HandlingInvariant, PTL

\* Explicit appeals of one sender in several conversations get one template, unless
\* a request failed, a transcript does not show an appeal, or the sender has more
\* conversations than are looked at (_linked_suspension_cases).
THEOREM OneTemplate == Spec => []OneTemplatePerSender
<1>1. HInv => OneTemplatePerSender
  <2> SUFFICES ASSUME HInv,
                      ~(faults > 0),
                      ~(Cardinality({c \in Convs : Wrote(c)}) > LinkLimit + 1),
                      ~(\E m \in Msgs : /\ msg[m].state # "unsent"
                                       /\ Suspension(msg[m].mail.text) # NoClass
                                       /\ Suspension(msg[m].mail.shown) = NoClass)
               PROVE  ~(Cardinality({c \in Convs : <<c, "explicit">> \in template}) > 1)
    BY DEF OneTemplatePerSender
  <2> DEFINE S == {c \in Convs : <<c, "explicit">> \in template}
  <2>1. AllSeen
    <3>1. IsFiniteSet({c \in Convs : Wrote(c)})
      BY FlowAssumption, FS_Subset
    <3>2. Cardinality({c \in Convs : Wrote(c)}) \in Nat /\ LinkLimit \in Nat /\ faults \in Nat
      BY <3>1, FS_CardinalityType, FlowAssumption DEF HInv, MailOK
    <3>3. Cardinality({c \in Convs : Wrote(c)}) <= LinkLimit + 1 /\ faults = 0
      <4> DEFINE k == Cardinality({c \in Convs : Wrote(c)})
      <4>1. k \in Nat /\ ~(k > LinkLimit + 1) /\ LinkLimit \in Nat
        BY <3>2
      <4> HIDE DEF k
      <4>2. k <= LinkLimit + 1 /\ faults = 0
        BY <3>2, <4>1
      <4>3. QED
        BY <4>2 DEF k
    <3>4. QED
      BY <3>3, ExplicitIs DEF AllSeen, Explicit
  <2>2. \A c, d \in S : c = d
    BY <2>1 DEF HInv, OneDraft, Drafts
  <2>3. S = {} \/ \E c \in S : S = {c}
    <3> HIDE DEF S
    <3>1. QED
      BY <2>2
  <2>4. Cardinality(S) = 0 \/ Cardinality(S) = 1
    <3> HIDE DEF S
    <3>1. QED
      BY <2>3, FS_EmptySet, FS_Singleton
  <2>5. QED
    BY <2>4
<1>2. QED
  BY <1>1, HandlingInvariant, PTL

--------------------------------------------------------------------------------
(* Types.                                                                      *)

IsClass(cl) == cl.category \in ALLOWED_CATEGORIES /\ cl.sub_type \in SubTypeNames
Written == Rows \ {NoRow}

\* What a handler h with message t holds: a classification when it goes by one,
\* and a row when it is about to save.
Holds(h, t) ==
  /\ h.pc \in {"route", "link", "classify", "loop", "put", "refresh", "save", "error"}
  /\ h.old \in Rows
  /\ h.pc = "route" => IsClass(h.class) /\ InitialRoute(h.class).tool # "skill"
  /\ h.pc = "link" => IsClass(h.class)
  /\ h.pc \in {"loop", "put", "refresh"} /\ InitialFlow(h.old, t.mail.text) => IsClass(h.class)
  /\ h.pc \in {"save", "put", "error"} => h.save \in Written

HandlersHold ==
  \A c \in Convs : \A h, t :
    run[c] = h /\ h # Idle /\ msg[h.msg] = t => Holds(h, t)

TablesTyped ==
  /\ row \in [Convs -> Rows]
  /\ copies \in [Convs -> Rows]
  /\ ticketed \subseteq Msgs
  /\ template \subseteq Convs \X {"explicit", "classified"}
  /\ away \subseteq Convs
  /\ faults <= MaxFaults
  /\ \A c \in Convs : run[c] # Idle /\ run[c].copy # NoRow => row[c] # NoRow
  /\ close.left \subseteq close.picked

TInv == HInv /\ HandlersHold /\ TablesTyped

LEMMA RowTypes ==
  ASSUME NEW a \in Categories, NEW b \in SubTypeNames, NEW s \in Steps,
         NEW u \in BOOLEAN, NEW w \in {"no", "fresh", "stale"}, NEW k \in BOOLEAN
  PROVE  Row(a, b, s, u, w, k) \in Written
<1>1. Row(a, b, s, u, w, k) \in Rows
  BY DEF Row, Rows
<1>2. Row(a, b, s, u, w, k) # NoRow
  BY RowShape, RowsAreNotNoRow
<1>3. QED
  BY <1>1, <1>2 DEF Written

LEMMA WrittenFields ==
  ASSUME NEW r \in Written
  PROVE  /\ IsRow(r) /\ r # NoRow
         /\ r = Row(r.category, r.sub_type, r.step, r.linear_url, r.waiting, r.blank)
         /\ r.category \in Categories /\ r.sub_type \in SubTypeNames /\ r.step \in Steps
         /\ r.linear_url \in BOOLEAN /\ r.blank \in BOOLEAN
         /\ r.waiting \in {"no", "fresh", "stale"}
BY DEF Written, Rows, IsRow, RowFields, Row

\* Topics and classifications keep to the words.
LEMMA TopicTypes ==
  ASSUME NEW old, NEW text
  PROVE  /\ Suspension(text) # NoClass => IsClass(Suspension(text))
         /\ TopicOf(old, text) # NoClass => IsClass(TopicOf(old, text))
<1> USE DEF IsClass, ALLOWED_CATEGORIES, SubTypeNames
<1>1. Suspension(text) # NoClass => IsClass(Suspension(text))
  BY ExplicitIs
<1>2. SchoolCancellation(text) # NoClass => IsClass(SchoolCancellation(text))
  BY DEF SchoolCancellation, Class
<1>3. EducationTopic(text) # NoClass => IsClass(EducationTopic(text))
  <2>1. EducationSubType(text) \in SubTypeNames
    <3> DEFINE hits == {i \in DOMAIN EducationOrder : EducationOrder[i][1] \in text}
    <3>1. DOMAIN EducationOrder = 1..5 /\ \A i \in 1..5 : EducationOrder[i][2] \in SubTypeNames
      BY DEF EducationOrder
    <3>2. hits # {} => Min(hits) \in 1..5
      <4>1. hits \in SUBSET (1..10) /\ hits \subseteq 1..5
        BY <3>1
      <4> HIDE DEF hits
      <4>2. QED
        BY <4>1, SmallestRule
    <3>3. EducationSubType(text) =
            IF hits = {} THEN "how_to_apply" ELSE EducationOrder[Min(hits)][2]
      BY DEF EducationSubType
    <3>4. "how_to_apply" \in SubTypeNames
      OBVIOUS
    <3> HIDE DEF hits
    <3>5. QED
      BY <3>1, <3>2, <3>3, <3>4
  <2>2. QED
    BY <1>1, <2>1 DEF EducationTopic, Class
<1>4. QED
  BY <1>1, <1>2, <1>3 DEF TopicOf

LEMMA AnswerTypes ==
  ASSUME NEW raw \in RawAnswers, NEW text
  PROVE  IsClass(Classified(raw, text))
<1>1. CASE raw = NoClass
  BY <1>1 DEF Classified, Unclear, Class, IsClass, ALLOWED_CATEGORIES, SubTypeNames
<1>2. CASE raw # NoClass
  <2>1. raw = Class(raw.category, raw.sub_type, raw.flags, raw.words)
    BY <1>2, AnswersAssumption
  <2>2. raw.sub_type \in SubTypeNames
    BY <1>2 DEF SubTypeNames
  <2>3. \E a \in ALLOWED_CATEGORIES :
          Normalized(raw) = Class(a, raw.sub_type, raw.flags, raw.words)
    BY <1>2, <2>1 DEF Normalized, Class, ALLOWED_CATEGORIES
  <2>4. PICK a \in ALLOWED_CATEGORIES :
          Normalized(raw) = Class(a, raw.sub_type, raw.flags, raw.words)
    BY <2>3
  <2>5. Classified(raw, text) = Protected(Normalized(raw), text)
    BY <1>2 DEF Classified
  <2> DEFINE n == Normalized(raw)
  <2>6. \/ Protected(n, text) = n
        \/ Protected(n, text) =
             Class("partnership", "technology_integration", raw.flags, raw.words)
    <3>1. n = Class(a, raw.sub_type, raw.flags, raw.words)
      BY <2>4
    <3> HIDE DEF n
    <3>2. QED
      BY <3>1 DEF Protected, Class
  <2>7. "partnership" \in ALLOWED_CATEGORIES /\ "technology_integration" \in SubTypeNames
    BY DEF ALLOWED_CATEGORIES, SubTypeNames
  <2>8. QED
    BY <2>2, <2>4, <2>5, <2>6, <2>7 DEF IsClass, Class
<1>3. QED
  BY <1>1, <1>2

LEMMA RouteTypes ==
  ASSUME NEW cl, IsClass(cl)
  PROVE  /\ InitialRoute(cl).category \in ALLOWED_CATEGORIES
         /\ InitialRoute(cl).sub_type \in SubTypeNames
         /\ InitialRoute(cl).tool # "skill" => InitialRoute(cl).step \in Steps
<1>1. cl.sub_type \in SubTypeNames /\ RoutedCategory(cl) \in ALLOWED_CATEGORIES
  BY DEF IsClass, RoutedCategory, ALLOWED_CATEGORIES
<1>2. /\ {"marketing", "spam", "legal", "security", "business"} \subseteq ALLOWED_CATEGORIES
      /\ {"collaboration", "none"} \subseteq SubTypeNames
      /\ {"moved_inbox", "closed_spam", "manual_review", "draft_created",
          "forwarded_keep_open"} \subseteq Steps
  BY DEF ALLOWED_CATEGORIES, SubTypeNames, Steps
<1>3. \A k \in 1..10 : /\ Rules(cl)[k].route.category \in ALLOWED_CATEGORIES
                       /\ Rules(cl)[k].route.sub_type \in SubTypeNames
                       /\ \/ Rules(cl)[k].route.tool = "skill"
                          \/ Rules(cl)[k].route.step \in Steps
  BY <1>1, <1>2 DEF Rules, Route, SkillRoute
<1>4. QED
  BY <1>3, FirstRouteRule

\* What the guards of the agent loop let the model save is a row.
LEMMA GuardedTypes ==
  ASSUME NEW keep \in KeepSteps, NEW old \in Rows, NEW s \in ModelStates
  PROVE  Coerced(keep, Merged(old, s)) \in Written
<1> DEFINE m == Merged(old, s)
           g == Coerced(keep, m)
<1>1. s \in Written
  BY StatesAssumption DEF Written
<1>2. m = s \/ \E u, k \in BOOLEAN :
                 m = Row(s.category, s.sub_type, s.step, u, s.waiting, k)
  <2>1. CASE ~TicketBlocked(old)
    BY <2>1 DEF Merged
  <2>2. CASE TicketBlocked(old)
    <3>1. m = [s EXCEPT !.linear_url = @ \/ old.linear_url, !.blank = @ /\ old.blank]
      BY <2>2 DEF Merged
    <3>2. m = Row(s.category, s.sub_type, s.step, s.linear_url \/ old.linear_url, s.waiting,
                  s.blank /\ old.blank)
      BY <1>1, <3>1, WrittenFields DEF Row
    <3>3. (s.linear_url \/ old.linear_url) \in BOOLEAN /\ (s.blank /\ old.blank) \in BOOLEAN
      OBVIOUS
    <3>4. QED
      BY <3>2, <3>3
  <2>3. QED
    BY <2>1, <2>2
<1>3. m \in Written
  <2>1. CASE m = s
    BY <1>1, <2>1
  <2>2. ASSUME NEW u \in BOOLEAN, NEW k \in BOOLEAN,
               m = Row(s.category, s.sub_type, s.step, u, s.waiting, k)
        PROVE  m \in Written
    <3>1. /\ s.category \in Categories /\ s.sub_type \in SubTypeNames /\ s.step \in Steps
          /\ s.waiting \in {"no", "fresh", "stale"}
      BY <1>1, WrittenFields
    <3>2. Row(s.category, s.sub_type, s.step, u, s.waiting, k) \in Written
      BY <3>1, RowTypes
    <3> HIDE DEF m
    <3>3. QED
      BY <2>2, <3>2
  <2> HIDE DEF m
  <2>3. QED
    BY <1>2, <2>1, <2>2
<1>4. {"manual_review", "draft_created", "forwarded_keep_open"} \subseteq Steps
  BY DEF Steps
<1> HIDE DEF m
<1>5. \/ g = m
      \/ \E t \in Steps : g = Row(m.category, m.sub_type, t, m.linear_url, "no", m.blank)
  <2>1. CASE keep = NoStep \/ m.step \notin KEEP_OPEN_TERMINAL_STEPS
    BY <2>1 DEF Coerced
  <2>2. CASE ~(keep = NoStep \/ m.step \notin KEEP_OPEN_TERMINAL_STEPS)
    <3> DEFINE t == IF m.category = "unclear" THEN "manual_review" ELSE keep
    <3>1. t \in Steps
      BY <1>4, <2>2 DEF KeepSteps, NoStep
    <3>2. g = [m EXCEPT !.step = t, !.waiting = "no"]
      BY <2>2 DEF Coerced
    <3> HIDE DEF t
    <3>3. g = Row(m.category, m.sub_type, t, m.linear_url, "no", m.blank)
      BY <1>3, <3>2, WrittenFields DEF Row
    <3>4. QED
      BY <3>1, <3>3
  <2>3. QED
    BY <2>1, <2>2
<1>6. ASSUME NEW t \in Steps, g = Row(m.category, m.sub_type, t, m.linear_url, "no", m.blank)
      PROVE  g \in Written
  <2>1. /\ m.category \in Categories /\ m.sub_type \in SubTypeNames
        /\ m.linear_url \in BOOLEAN /\ m.blank \in BOOLEAN
    BY <1>3, WrittenFields
  <2>2. Row(m.category, m.sub_type, t, m.linear_url, "no", m.blank) \in Written
    BY <2>1, RowTypes
  <2>3. QED
    BY <1>6, <2>2
<1>7. g \in Written
  <2> HIDE DEF g
  <2> QED
    BY <1>3, <1>5, <1>6
<1>8. QED
  BY <1>7 DEF m

LEMMA HoldsNow ==
  ASSUME TInv, NEW c \in Convs, run[c].pc # "idle"
  PROVE  /\ Holds(run[c], msg[run[c].msg])
         /\ DOMAIN run[c] = HandlerFields /\ DOMAIN run = Convs
<1>1. HInv
  BY DEF TInv
<1>2. run[c] # Idle /\ DOMAIN run[c] = HandlerFields
  BY <1>1, WorkingOn
<1>3. QED
  BY <1>1, <1>2 DEF TInv, HandlersHold, HInv, IInv, Shaped

LEMMA BeganHolds ==
  ASSUME TInv, [Next]_vars, NEW c \in Convs, NEW m \in Msgs,
         BeginAppeal(c, m) \/ BeginCase(c, m)
  PROVE  Holds(run'[c], msg'[run'[c].msg])
<1>1. /\ ConvOf[m] = c /\ msg' = msg /\ DOMAIN run = Convs /\ row[c] \in Rows
  BY DEF BeginAppeal, BeginCase, Ready, TInv, HInv, IInv, Shaped, TablesTyped
<1>2. CASE BeginCase(c, m)
  <2> DEFINE pc == IF InitialFlow(row[c], msg[m].mail.text) THEN "classify" ELSE "loop"
  <2>1. PICK linked : run' = [run EXCEPT ![c] = Handler(pc, m, linked)]
    BY <1>2 DEF BeginCase
  <2>2. pc \in {"classify", "loop"} /\ (pc = "loop" => ~InitialFlow(row[c], msg[m].mail.text))
    OBVIOUS
  <2> HIDE DEF pc
  <2>3. run'[c].msg = m /\ run'[c].pc = pc /\ run'[c].old = row[c]
    BY <1>1, <2>1 DEF Handler
  <2>4. QED
    BY <1>1, <2>2, <2>3 DEF Holds
<1>3. CASE BeginAppeal(c, m)
  <2>1. PICK linked : run' = [run EXCEPT ![c] =
            [Handler(IF linked \cup OwnCase(c) = {} THEN "route" ELSE "link", m,
                     linked \cup OwnCase(c))
               EXCEPT !.class = Suspension(msg[m].mail.text)]]
    BY <1>3 DEF BeginAppeal
  <2> DEFINE cl == Suspension(msg[m].mail.text)
  <2>2. cl # NoClass
    BY <1>3 DEF BeginAppeal
  <2>3. cl.category \in {"account", "education"} /\ cl.sub_type = "account_suspended"
    BY <2>2, ExplicitIs
  <2>4. IsClass(cl)
    BY <2>2, TopicTypes
  <2>5. /\ run'[c].msg = m /\ run'[c].pc \in {"route", "link"} /\ run'[c].old = row[c]
        /\ run'[c].class = cl
    BY <1>1, <2>1 DEF Handler
  <2> HIDE DEF cl
  <2>6. InitialRoute(cl).tool # "skill"
    BY <2>3, SuspendedRoute DEF Route
  <2>7. QED
    BY <1>1, <2>4, <2>5, <2>6 DEF Holds
<1>4. QED
  BY <1>2, <1>3

LEMMA ClassifiedHolds ==
  ASSUME TInv, [Next]_vars, NEW c \in Convs, Classify(c)
  PROVE  Holds(run'[c], msg'[run'[c].msg])
<1> DEFINE text == msg[run[c].msg].mail.text
           topic == TopicOf(run[c].old, text)
           Cl(raw) == IF topic # NoClass THEN topic ELSE Classified(raw, text)
           Suspended(cl) == /\ cl.category \in {"account", "education"}
                            /\ cl.sub_type = "account_suspended"
           To(cl) == IF Suspended(cl) /\ run[c].linked # {} THEN "link"
                     ELSE IF InitialRoute(cl).tool = "skill" THEN "loop" ELSE "route"
<1>1. PICK raw \in RawAnswers :
        run' = [run EXCEPT ![c].class = Cl(raw), ![c].pc = To(Cl(raw))]
  BY DEF Classify
<1>2. IsClass(Cl(raw))
  <2>1. topic # NoClass => IsClass(topic)
    BY TopicTypes
  <2>2. IsClass(Classified(raw, text))
    BY AnswerTypes
  <2> HIDE DEF topic
  <2>3. QED
    BY <2>1, <2>2
<1>3. \E cl : run' = [run EXCEPT ![c].class = cl, ![c].pc = To(cl)] /\ IsClass(cl)
  <2> DEFINE cl == Cl(raw)
  <2>1. run' = [run EXCEPT ![c].class = cl, ![c].pc = To(cl)] /\ IsClass(cl)
    BY <1>1, <1>2
  <2> HIDE DEF cl, To
  <2>2. QED
    BY <2>1
<1> HIDE DEF Cl, topic
<1>4. PICK cl : run' = [run EXCEPT ![c].class = cl, ![c].pc = To(cl)] /\ IsClass(cl)
  BY <1>3
<1>5. /\ run[c].pc = "classify" /\ DOMAIN run[c] = HandlerFields /\ DOMAIN run = Convs
      /\ run[c].old \in Rows
  BY HoldsNow DEF Classify, Holds
<1>6. /\ To(cl) \in {"link", "loop", "route"}
      /\ To(cl) = "route" => InitialRoute(cl).tool # "skill"
  OBVIOUS
<1> HIDE DEF To
<1>7. run'[c].old = run[c].old /\ run'[c].class = cl /\ run'[c].pc = To(cl)
  BY <1>4, <1>5 DEF HandlerFields
<1>8. QED
  BY <1>4, <1>5, <1>6, <1>7 DEF Holds

\* What the linked appeal, the route, the end of the loop and the error path ask
\* set_state to save.
LEMMA SavesHold ==
  ASSUME TInv, [Next]_vars, NEW c \in Convs,
         LinkAppeal(c) \/ RouteTool(c) \/ (EndLoop(c) /\ run'[c] # Idle) \/ Raise(c)
  PROVE  Holds(run'[c], msg'[run'[c].msg])
<1>1. run[c].pc # "idle" /\ HInv
  BY DEF LinkAppeal, RouteTool, EndLoop, Raise, TInv
<1>2. Holds(run[c], msg[run[c].msg])
  BY <1>1, HoldsNow
<1>3. "failed_needs_review" \in Steps /\ "manual_review" \in Steps
      /\ "account_suspended" \in SubTypeNames /\ ALLOWED_CATEGORIES \subseteq Categories
      /\ "no" \in {"no", "fresh", "stale"} /\ FALSE \in BOOLEAN
  BY DEF Steps, SubTypeNames, Categories
<1>4. \E s \in Written : \E pc \in {"save", "error"} : Asks(c, pc, s)
  <2>1. CASE LinkAppeal(c)
    <3>1. PICK step \in {"manual_review", "failed_needs_review"} :
            Asks(c, "save", Row(run[c].class.category, "account_suspended", step,
                                run[c].old # NoRow /\ run[c].old.linear_url, "no", FALSE))
      BY <2>1 DEF LinkAppeal
    <3>2. run[c].class.category \in Categories /\ step \in Steps
      BY <1>2, <1>3, <2>1 DEF LinkAppeal, Holds, IsClass
    <3>3. (run[c].old # NoRow /\ run[c].old.linear_url) \in BOOLEAN
      OBVIOUS
    <3>4. Row(run[c].class.category, "account_suspended", step,
              run[c].old # NoRow /\ run[c].old.linear_url, "no", FALSE) \in Written
      BY <1>3, <3>2, <3>3, RowTypes
    <3>5. QED
      BY <3>1, <3>4
  <2>2. CASE RouteTool(c)
    <3> DEFINE cl == run[c].class
               route == InitialRoute(cl)
               sub == IF route.sub_type = "none" THEN cl.sub_type ELSE route.sub_type
    <3>1. PICK step \in {route.step, "failed_needs_review"} :
            Asks(c, "save", Row(route.category, sub, step, FALSE, "no", FALSE))
      BY <2>2 DEF RouteTool
    <3>2. IsClass(cl) /\ InitialRoute(cl).tool # "skill"
      BY <1>2, <2>2 DEF RouteTool, Holds
    <3> HIDE DEF cl
    <3>3. route.category \in Categories /\ sub \in SubTypeNames /\ step \in Steps
      BY <1>3, <3>2, RouteTypes DEF IsClass
    <3> HIDE DEF route, sub
    <3>4. Row(route.category, sub, step, FALSE, "no", FALSE) \in Written
      BY <1>3, <3>3, RowTypes
    <3>5. QED
      BY <3>1, <3>4
  <2>3. CASE EndLoop(c) /\ run'[c] # Idle
    <3>1. /\ run[c].pc = "loop" /\ InitialFlow(run[c].old, msg[run[c].msg].mail.text)
          /\ Asks(c, "save", Row(run[c].class.category, run[c].class.sub_type,
                                 "failed_needs_review", FALSE, "no", FALSE))
      BY <1>1, <2>3 DEF EndLoop, Finish, HInv, IInv, Shaped
    <3>2. run[c].class.category \in Categories /\ run[c].class.sub_type \in SubTypeNames
      BY <1>2, <1>3, <3>1 DEF Holds, IsClass
    <3>3. Row(run[c].class.category, run[c].class.sub_type, "failed_needs_review",
              FALSE, "no", FALSE) \in Written
      BY <1>3, <3>2, RowTypes
    <3>4. QED
      BY <3>1, <3>3
  <2>4. CASE Raise(c)
    <3>1. Asks(c, "error", FailedRow)
      BY <2>4 DEF Raise
    <3>2. FailedRow \in Written
      BY RowTypes DEF FailedRow, Categories, ALLOWED_CATEGORIES, SubTypeNames, Steps
    <3>3. QED
      BY <3>1, <3>2
  <2>5. QED
    BY <2>1, <2>2, <2>3, <2>4
<1>5. PICK s \in Written, pc \in {"save", "error"} : Asks(c, pc, s)
  BY <1>4
<1>6. run'[c].pc = pc /\ run'[c].save = s /\ run'[c].old = run[c].old
  BY <1>1, <1>5, AskedFor
<1>7. QED
  BY <1>2, <1>6 DEF Holds

\* The handlers that stay as they are, or call a tool.
LEMMA StayingHolds ==
  ASSUME TInv, [Next]_vars, NEW c \in Convs, run'[c] # Idle, run[c].pc # "idle",
         run'[c] = run[c] \/ CallTool(c) \/ Put(c) \/ Refresh(c)
  PROVE  Holds(run'[c], msg'[run'[c].msg])
<1>1. /\ Holds(run[c], msg[run[c].msg]) /\ HInv /\ IInv
      /\ DOMAIN run[c] = HandlerFields /\ DOMAIN run = Convs
  BY HoldsNow DEF TInv, HInv
<1>2. msg'[run[c].msg] = msg[run[c].msg]
  BY <1>1, MessageStays
<1>3. CASE run'[c] = run[c]
  BY <1>1, <1>2, <1>3
<1>4. CASE SetState(c)
  <2>1. run[c].pc = "loop" /\ run[c].keep \in KeepSteps /\ run[c].old \in Rows
    BY <1>1, <1>4, WorkingHandler DEF SetState, InLoop, HandlerOK, Holds
  <2>2. PICK s \in ModelStates : Asks(c, "put", Coerced(run[c].keep, Merged(run[c].old, s)))
    BY <1>4 DEF SetState
  <2>3. Coerced(run[c].keep, Merged(run[c].old, s)) \in Written
    BY <2>1, GuardedTypes
  <2>4. PICK r \in Written : Asks(c, "put", r)
    BY <2>2, <2>3
  <2>5. /\ run'[c].pc = "put" /\ run'[c].save = r /\ run'[c].old = run[c].old
        /\ run'[c].msg = run[c].msg /\ run'[c].class = run[c].class
    BY <1>1, <2>4, AskedFor
  <2>6. QED
    BY <1>1, <1>2, <2>1, <2>5 DEF Holds
<1>5. CASE CreateTicket(c) \/ HandOff(c) \/ MoveInbox(c)
  <2>1. run[c].pc = "loop" /\ (UNCHANGED run \/ \E keep : Keeps(c, keep))
    BY <1>5 DEF CreateTicket, HandOff, MoveInbox, InLoop
  <2>2. /\ run'[c].msg = run[c].msg /\ run'[c].old = run[c].old /\ run'[c].pc = run[c].pc
        /\ run'[c].class = run[c].class
    BY <1>1, <2>1 DEF Keeps, HandlerFields
  <2>3. QED
    BY <1>1, <1>2, <2>1, <2>2 DEF Holds
<1>6. CASE Put(c) \/ Refresh(c)
  <2>1. run[c].pc \in {"put", "refresh"}
    BY <1>6 DEF Put, Refresh
  <2>2. PICK pc \in {"refresh", "loop"}, copy \in {row[c], run[c].save} :
          run' = [run EXCEPT ![c].pc = pc, ![c].copy = copy]
    BY <1>6 DEF Put, Refresh
  <2>3. /\ run'[c].msg = run[c].msg /\ run'[c].old = run[c].old /\ run'[c].pc = pc
        /\ run'[c].class = run[c].class
    BY <1>1, <2>2 DEF HandlerFields
  <2>4. QED
    BY <1>1, <1>2, <2>1, <2>3 DEF Holds
<1>7. QED
  BY <1>3, <1>4, <1>5, <1>6 DEF CallTool

LEMMA StepHandlersHold ==
  ASSUME TInv, [Next]_vars
  PROVE  HandlersHold'
<1> SUFFICES ASSUME NEW c \in Convs, run'[c] # Idle
             PROVE  Holds(run'[c], msg'[run'[c].msg])
  BY DEF HandlersHold
<1>1. HInv /\ IInv
  BY DEF TInv, HInv
<1>2. CASE run'[c] = run[c]
  <2>1. run[c].pc # "idle"
    BY <1>1, <1>2 DEF IInv, Shaped, HandlerOK
  <2>2. QED
    BY <1>2, <2>1, StayingHolds
<1>3. CASE \E m \in Msgs : Ignore(c, m) \/ SkipReply(c, m)
  BY <1>2, <1>3 DEF Ignore, SkipReply
<1>4. CASE \E m \in Msgs : BeginAppeal(c, m) \/ BeginCase(c, m)
  BY <1>4, BeganHolds
<1>5. CASE Classify(c)
  BY <1>5, ClassifiedHolds
<1>6. CASE LinkAppeal(c) \/ RouteTool(c) \/ EndLoop(c) \/ Raise(c)
  BY <1>6, SavesHold
<1>7. CASE CallTool(c) \/ Put(c) \/ Refresh(c)
  <2>1. run[c].pc # "idle"
    BY <1>1, <1>7, Moves DEF GoesOn
  <2>2. QED
    BY <1>7, <2>1, StayingHolds
<1>8. CASE Save(c) \/ SaveError(c) \/ SaveErrorFails(c)
  BY <1>1, <1>8, Ends
<1>9. CASE Crash
  BY <1>9 DEF Crash, StopHandlers
<1>10. CASE Handle(c)
  BY <1>3, <1>4, <1>5, <1>6, <1>7, <1>8, <1>10 DEF Handle
<1>11. QED
  BY <1>1, <1>2, <1>6, <1>7, <1>8, <1>9, <1>10, WhoMoves

\* A row with one field changed is a row.
LEMMA UpdatedField ==
  ASSUME NEW r \in Written
  PROVE  /\ \A s \in Steps : [r EXCEPT !.step = s] \in Written
         /\ \A u \in BOOLEAN : [r EXCEPT !.linear_url = u] \in Written
         /\ \A w \in {"no", "fresh", "stale"} : [r EXCEPT !.waiting = w] \in Written
         /\ \A k \in BOOLEAN : [r EXCEPT !.blank = k] \in Written
<1>1. /\ r = Row(r.category, r.sub_type, r.step, r.linear_url, r.waiting, r.blank)
      /\ r.category \in Categories /\ r.sub_type \in SubTypeNames /\ r.step \in Steps
      /\ r.linear_url \in BOOLEAN /\ r.blank \in BOOLEAN
      /\ r.waiting \in {"no", "fresh", "stale"}
  BY WrittenFields
<1>2. ASSUME NEW s \in Steps PROVE [r EXCEPT !.step = s] \in Written
  <2>1. [r EXCEPT !.step = s] = Row(r.category, r.sub_type, s, r.linear_url, r.waiting, r.blank)
    BY <1>1 DEF Row
  <2>2. Row(r.category, r.sub_type, s, r.linear_url, r.waiting, r.blank) \in Written
    BY <1>1, RowTypes
  <2>3. QED
    BY <2>1, <2>2
<1>3. ASSUME NEW u \in BOOLEAN PROVE [r EXCEPT !.linear_url = u] \in Written
  <2>1. [r EXCEPT !.linear_url = u] = Row(r.category, r.sub_type, r.step, u, r.waiting, r.blank)
    BY <1>1 DEF Row
  <2>2. Row(r.category, r.sub_type, r.step, u, r.waiting, r.blank) \in Written
    BY <1>1, RowTypes
  <2>3. QED
    BY <2>1, <2>2
<1>4. ASSUME NEW w \in {"no", "fresh", "stale"} PROVE [r EXCEPT !.waiting = w] \in Written
  <2>1. [r EXCEPT !.waiting = w] = Row(r.category, r.sub_type, r.step, r.linear_url, w, r.blank)
    BY <1>1 DEF Row
  <2>2. Row(r.category, r.sub_type, r.step, r.linear_url, w, r.blank) \in Written
    BY <1>1, RowTypes
  <2>3. QED
    BY <2>1, <2>2
<1>5. ASSUME NEW k \in BOOLEAN PROVE [r EXCEPT !.blank = k] \in Written
  <2>1. [r EXCEPT !.blank = k] = Row(r.category, r.sub_type, r.step, r.linear_url, r.waiting, k)
    BY <1>1 DEF Row
  <2>2. Row(r.category, r.sub_type, r.step, r.linear_url, r.waiting, k) \in Written
    BY <1>1, RowTypes
  <2>3. QED
    BY <2>1, <2>2
<1>6. QED
  BY <1>2, <1>3, <1>4, <1>5

\* The updates of the jobs keep a row a row.
LEMMA UpdatedRows ==
  ASSUME NEW r \in Written, NEW u \in BOOLEAN, NEW k \in BOOLEAN
  PROVE  /\ [r EXCEPT !.waiting = "stale"] \in Rows
         /\ [r EXCEPT !.step = "done", !.waiting = "no"] \in Rows
         /\ [r EXCEPT !.linear_url = u, !.blank = k] \in Rows
<1>1. [r EXCEPT !.waiting = "stale"] \in Written
  BY UpdatedField
<1>2. PICK d \in Written : d = [r EXCEPT !.step = "done"]
  BY UpdatedField DEF Steps
<1>3. [d EXCEPT !.waiting = "no"] \in Written
  BY UpdatedField
<1>4. PICK e \in Written : e = [r EXCEPT !.linear_url = u]
  BY UpdatedField
<1>5. [e EXCEPT !.blank = k] \in Written
  BY UpdatedField
<1>6. [r EXCEPT !.step = "done", !.waiting = "no"] = [d EXCEPT !.waiting = "no"]
  BY <1>2
<1>7. [r EXCEPT !.linear_url = u, !.blank = k] = [e EXCEPT !.blank = k]
  BY <1>4
<1>8. QED
  BY <1>1, <1>3, <1>5, <1>6, <1>7 DEF Written

\* So does what set_state leaves in a row that exists.
LEMMA FlushedTypes ==
  ASSUME NEW old \in Written, NEW copy, NEW r \in Written, NEW anew \in BOOLEAN
  PROVE  Flushed(old, copy, r, anew) \in Written
<1>1. CASE copy = NoRow
  BY <1>1 DEF Flushed
<1>2. CASE copy # NoRow
  <2> DEFINE A == Assigned(copy, r, anew)
             w == Flushed(old, copy, r, anew)
  <2>1. IsRow(r)
    BY WrittenFields
  <2>2. w = [f \in RowFields |-> IF f \in A THEN r[f] ELSE old[f]]
    BY <1>2, <2>1 DEF Flushed, IsRow
  <2> HIDE DEF A, w
  <2>3. w = Row(w.category, w.sub_type, w.step, w.linear_url, w.waiting, w.blank)
    BY <2>2 DEF Row, RowFields
  <2>4. /\ w.category \in {r.category, old.category}
        /\ w.sub_type \in {r.sub_type, old.sub_type}
        /\ w.step \in {r.step, old.step}
        /\ w.linear_url \in {r.linear_url, old.linear_url}
        /\ w.waiting \in {r.waiting, old.waiting}
        /\ w.blank \in {r.blank, old.blank}
    BY <2>2 DEF RowFields
  <2>5. /\ w.category \in Categories /\ w.sub_type \in SubTypeNames /\ w.step \in Steps
        /\ w.waiting \in {"no", "fresh", "stale"}
    BY <2>4, WrittenFields
  <2>6. w.linear_url \in BOOLEAN /\ w.blank \in BOOLEAN
    <3>1. /\ r.linear_url \in BOOLEAN /\ old.linear_url \in BOOLEAN
          /\ r.blank \in BOOLEAN /\ old.blank \in BOOLEAN
      BY WrittenFields
    <3>2. QED
      BY <2>4, <3>1, Zenon
  <2>7. w \in Written
    BY <2>3, <2>5, <2>6, RowTypes
  <2>8. QED
    BY <2>7 DEF w
<1>3. QED
  BY <1>1, <1>2

\* No row vanishes, so what a session has loaded stays a copy of a row.
LEMMA RowsRemain ==
  ASSUME HInv, [Next]_vars, NEW c \in Convs, row[c] # NoRow
  PROVE  row'[c] # NoRow
<1>1. IsRow(row[c]) /\ DOMAIN row = Convs /\ IInv
  BY DEF HInv, IInv, Shaped
<1>2. ASSUME NEW d \in Convs, run[d].pc \in {"save", "put", "error"}, Commit(d, d)
      PROVE  row'[c] # NoRow
  <2>1. PICK r : IsRow(r) /\ row' = [row EXCEPT ![d] = r]
    BY <1>1, <1>2, CommitWrites DEF WriteRows
  <2>2. QED
    BY <1>1, <2>1, RowsAreNotNoRow
<1>3. ASSUME NEW d \in Convs, Handle(d) \/ CallTool(d) \/ Raise(d) \/ SaveErrorFails(d)
      PROVE  row' = row \/ (run[d].pc \in {"save", "put", "error"} /\ Commit(d, d))
  BY <1>3 DEF Handle, CallTool, Raise, SaveErrorFails, Ignore, SkipReply, BeginAppeal,
              BeginCase, Classify, LinkAppeal, RouteTool, Save, EndLoop, Put, PreparedConv,
              Refresh, SaveError, GiveUp, CreateTicket, HandOff, MoveInbox, SetState, history
<1>4. ASSUME NEW r, IsRow(r), row'[c] = r
      PROVE  row'[c] # NoRow
  BY <1>4, RowsAreNotNoRow
<1>5. ASSUME NEW d \in Convs, Age(d) \/ WriteBack(d)
      PROVE  row'[c] # NoRow
  <2>1. \/ row' = [row EXCEPT ![d].waiting = "stale"]
        \/ \E blank \in BOOLEAN :
             row' = [row EXCEPT ![d].linear_url = copies[d].linear_url, ![d].blank = blank]
    BY <1>5 DEF Age, WriteBack, WriteRows
  <2>2. DOMAIN row'[c] = DOMAIN row[c]
    BY <1>1, <2>1
  <2>3. QED
    BY <1>1, <2>2 DEF IsRow, RowFields, NoRow
<1>6. CASE CommitClose
  <2>1. row' = [d \in Convs |->
                  IF d \in close.picked THEN [row[d] EXCEPT !.step = "done", !.waiting = "no"]
                  ELSE row[d]]
    BY <1>6 DEF CommitClose, WriteRows
  <2>2. DOMAIN row'[c] = DOMAIN row[c]
    BY <2>1
  <2>3. QED
    BY <1>1, <2>2 DEF IsRow, RowFields, NoRow
<1>7. CASE \/ \E m \in Msgs : Arrive(m)
           \/ \E d \in Convs : ArchiveStale(d)
           \/ SelectStale \/ CloseRaises \/ SelectBlank \/ CancelEnrichment
           \/ Crash \/ UNCHANGED vars
  BY <1>7 DEF Arrive, ArchiveStale, SelectStale, CloseRaises, SelectBlank,
              CancelEnrichment, Crash, StopHandlers, flowVars, vars
<1>8. QED
  BY <1>2, <1>3, <1>5, <1>6, <1>7 DEF Next

LEMMA CopiesRemain ==
  ASSUME TInv, [Next]_vars, NEW c \in Convs, run'[c] # Idle, run'[c].copy # NoRow
  PROVE  row'[c] # NoRow
<1>1. /\ HInv /\ DOMAIN run = Convs
      /\ run[c] # Idle /\ run[c].copy # NoRow => row[c] # NoRow
  BY DEF TInv, TablesTyped, HInv, IInv, Shaped
<1>2. CASE row[c] # NoRow
  BY <1>1, <1>2, RowsRemain
<1>3. CASE run[c] # Idle /\ run'[c].copy = run[c].copy
  BY <1>1, <1>3, RowsRemain
<1>4. ASSUME run[c].pc # "idle", NEW pc, NEW r, Asks(c, pc, r)
      PROVE  row'[c] # NoRow
  <2>1. run'[c].copy = Loaded(c) /\ run[c] # Idle
    BY <1>1, <1>4, AskedFor, WorkingOn
  <2>2. QED
    BY <1>1, <1>2, <2>1, RowsRemain DEF Loaded
<1>5. CASE LinkAppeal(c) \/ RouteTool(c) \/ EndLoop(c) \/ SetState(c) \/ Raise(c)
  <2>1. run[c].pc # "idle"
    BY <1>5 DEF LinkAppeal, RouteTool, EndLoop, SetState, InLoop, Raise
  <2>2. \E pc, r : Asks(c, pc, r)
    BY <1>1, <1>5 DEF LinkAppeal, RouteTool, EndLoop, Finish, SetState, Raise
  <2>3. QED
    BY <1>4, <2>1, <2>2
<1>6. CASE run'[c] = run[c]
  BY <1>1, <1>6, RowsRemain
<1>7. CASE \E m \in Msgs : BeginAppeal(c, m) \/ BeginCase(c, m)
  BY <1>1, <1>2, <1>7, BeganAtWork
<1>8. CASE Classify(c)
  BY <1>1, <1>3, <1>8, ClassifiedAtWork
<1>9. CASE CreateTicket(c) \/ HandOff(c)
  <2>1. run[c].pc = "loop" /\ \E keep : run' = [run EXCEPT ![c].keep = keep]
    BY <1>9 DEF CreateTicket, HandOff, InLoop, Keeps
  <2>2. run[c] # Idle /\ DOMAIN run[c] = HandlerFields
    BY <1>1, <2>1, WorkingOn
  <2>3. run'[c].copy = run[c].copy
    BY <1>1, <2>1, <2>2 DEF HandlerFields
  <2>4. QED
    BY <1>3, <2>2, <2>3
<1>10. CASE Put(c)
  <2>1. run[c].pc = "put" /\ Commit(c, c) /\ IInv
    BY <1>1, <1>10 DEF Put, PreparedConv, HInv
  <2>2. PICK r : IsRow(r) /\ row' = [row EXCEPT ![c] = r]
    BY <2>1, CommitWrites DEF WriteRows
  <2>3. QED
    BY <2>1, <2>2, RowsAreNotNoRow DEF IInv, Shaped
<1>11. CASE Refresh(c)
  <2>1. run[c].pc = "refresh" /\ run' = [run EXCEPT ![c].pc = "loop", ![c].copy = row[c]]
    BY <1>11 DEF Refresh
  <2>2. DOMAIN run[c] = HandlerFields
    BY <1>1, <2>1, WorkingOn
  <2>3. run'[c].copy = row[c]
    BY <1>1, <2>1, <2>2 DEF HandlerFields
  <2>4. QED
    BY <1>2, <2>3
<1>12. CASE Save(c) \/ SaveError(c) \/ SaveErrorFails(c)
  BY <1>1, <1>12, Ends
<1>13. CASE (\E m \in Msgs : Ignore(c, m) \/ SkipReply(c, m)) \/ MoveInbox(c)
  BY <1>6, <1>13 DEF Ignore, SkipReply, MoveInbox
<1>14. CASE Crash
  BY <1>14 DEF Crash, StopHandlers
<1>15. QED
  BY <1>1, <1>5, <1>6, <1>7, <1>8, <1>9, <1>10, <1>11, <1>12, <1>13, <1>14, WhoMoves
  DEF Handle, CallTool

\* A handler writes rows.
LEMMA HandlerRows ==
  ASSUME TInv, [Next]_vars, NEW c \in Convs,
         Handle(c) \/ CallTool(c) \/ Raise(c) \/ SaveErrorFails(c)
  PROVE  row' \in [Convs -> Rows]
<1>1. row \in [Convs -> Rows] /\ IInv /\ HInv
  BY DEF TInv, HInv, TablesTyped
<1>2. CASE run[c].pc \in {"save", "put", "error"} /\ Commit(c, c)
  <2>1. PICK anew \in BOOLEAN :
          row' = [row EXCEPT ![c] = Flushed(row[c], run[c].copy, run[c].save, anew)]
    BY <1>2 DEF Commit, WriteRows
  <2>2. run[c] # Idle /\ run[c].save \in Written
    BY <1>1, <1>2, HoldsNow, WorkingOn DEF Holds
  <2>3. Flushed(row[c], run[c].copy, run[c].save, anew) \in Written
    <3>1. CASE run[c].copy = NoRow
      BY <2>2, <3>1 DEF Flushed
    <3>2. CASE run[c].copy # NoRow
      <4>1. row[c] \in Written
        BY <1>1, <2>2, <3>2 DEF TInv, TablesTyped, Written
      <4>2. QED
        BY <2>2, <4>1, FlushedTypes
    <3>3. QED
      BY <3>1, <3>2
  <2>4. QED
    BY <1>1, <2>1, <2>3 DEF Written
<1>3. CASE UNCHANGED row
  BY <1>1, <1>3
<1>4. QED
  BY <1>2, <1>3 DEF Handle, CallTool, Raise, SaveErrorFails, Ignore, SkipReply, BeginAppeal,
              BeginCase, Classify, LinkAppeal, RouteTool, Save, EndLoop, Put, PreparedConv,
              Refresh, SaveError, GiveUp, CreateTicket, HandOff, MoveInbox, SetState, history

\* The jobs write rows, and copy what they read.
LEMMA JobRows ==
  ASSUME TInv, [Next]_vars,
         \/ \E c \in Convs : Age(c) \/ WriteBack(c) \/ ArchiveStale(c)
         \/ SelectStale \/ CommitClose \/ CloseRaises \/ SelectBlank \/ CancelEnrichment
         \/ Crash \/ UNCHANGED vars \/ \E m \in Msgs : Arrive(m) /\ UNCHANGED jobVars
  PROVE  row' \in [Convs -> Rows] /\ copies' \in [Convs -> Rows]
         /\ close'.left \subseteq close'.picked
<1>1. /\ row \in [Convs -> Rows] /\ copies \in [Convs -> Rows]
      /\ close.left \subseteq close.picked /\ DOMAIN close = {"picked", "left"}
      /\ IInv /\ NoRow \in Rows
  BY DEF TInv, HInv, TablesTyped, IInv, JobsOK, Rows
<1>2. ASSUME NEW c \in Convs, Age(c)
      PROVE  /\ row' \in [Convs -> Rows]
             /\ UNCHANGED <<copies, close>>
  <2>1. row[c] \in Written /\ row' = [row EXCEPT ![c].waiting = "stale"]
    BY <1>1, <1>2 DEF Age, Written
  <2> DEFINE r == [row[c] EXCEPT !.waiting = "stale"]
  <2>3. r \in Rows
    BY <2>1, UpdatedRows
  <2>4. row' = [row EXCEPT ![c] = r]
    BY <1>1, <2>1
  <2> HIDE DEF r
  <2>5. QED
    BY <1>1, <1>2, <2>3, <2>4 DEF Age, jobVars
<1>3. ASSUME NEW c \in Convs, WriteBack(c)
      PROVE  /\ row' \in [Convs -> Rows]
             /\ copies' \in [Convs -> Rows] /\ UNCHANGED close
  <2>1. PICK blank \in BOOLEAN :
          row' = [row EXCEPT ![c].linear_url = copies[c].linear_url, ![c].blank = blank]
    BY <1>3 DEF WriteBack, WriteRows
  <2>2. row[c] \in Written /\ copies[c] \in Written
    BY <1>1, <1>3 DEF WriteBack, Written, IInv, JobsOK
  <2> DEFINE r == [row[c] EXCEPT !.linear_url = copies[c].linear_url, !.blank = blank]
  <2>3. copies[c].linear_url \in BOOLEAN
    BY <2>2, WrittenFields
  <2>4. r \in Rows
    BY <2>2, <2>3, UpdatedRows
  <2>5. row' = [row EXCEPT ![c] = r]
    <3>1. DOMAIN row[c] = RowFields
      BY <2>2, WrittenFields DEF IsRow
    <3>2. QED
      BY <1>1, <2>1, <3>1 DEF RowFields
  <2> HIDE DEF r
  <2>6. QED
    BY <1>1, <1>3, <2>4, <2>5 DEF WriteBack
<1>4. CASE CommitClose
  <2> DEFINE Closed(c) == [row[c] EXCEPT !.step = "done", !.waiting = "no"]
  <2>1. /\ row' = [c \in Convs |-> IF c \in close.picked THEN Closed(c) ELSE row[c]]
        /\ close' = NoClose /\ UNCHANGED copies
    BY <1>4 DEF CommitClose, WriteRows
  <2>2. ASSUME NEW c \in Convs, c \in close.picked
        PROVE  Closed(c) \in Rows
    <3>1. row[c] \in Written
      BY <1>1, <2>2 DEF Written, IInv, JobsOK
    <3>2. QED
      BY <3>1, UpdatedRows
  <2> HIDE DEF Closed
  <2>3. QED
    BY <1>1, <2>1, <2>2 DEF NoClose
<1>5. CASE \/ \E c \in Convs : ArchiveStale(c)
           \/ SelectStale \/ CloseRaises
  BY <1>1, <1>5 DEF ArchiveStale, SelectStale, CloseRaises, flowVars, NoClose
<1>6. CASE SelectBlank \/ CancelEnrichment
  BY <1>1, <1>6 DEF SelectBlank, CancelEnrichment, flowVars, NoCopies
<1>7. CASE Crash \/ UNCHANGED vars \/ \E m \in Msgs : Arrive(m) /\ UNCHANGED jobVars
  BY <1>1, <1>7 DEF Crash, StopHandlers, Arrive, vars, flowVars, jobVars, NoCopies, NoClose
<1>8. QED
  BY <1>1, <1>2, <1>3, <1>4, <1>5, <1>6, <1>7

LEMMA StepTablesTyped ==
  ASSUME TInv, [Next]_vars
  PROVE  TablesTyped'
<1>1. HInv
  BY DEF TInv
<1>2. row' \in [Convs -> Rows] /\ copies' \in [Convs -> Rows]
      /\ close'.left \subseteq close'.picked
  <2>1. ASSUME NEW c \in Convs, Handle(c) \/ CallTool(c) \/ Raise(c) \/ SaveErrorFails(c),
               UNCHANGED jobVars
        PROVE  row' \in [Convs -> Rows] /\ copies' \in [Convs -> Rows]
               /\ close'.left \subseteq close'.picked
    BY <2>1, HandlerRows DEF jobVars, TInv, TablesTyped
  <2>2. QED
    BY <2>1, JobRows DEF Next
<1>3. template' \subseteq Convs \X {"explicit", "classified"}
  BY <1>1, TemplateMoves DEF TInv, TablesTyped
<1>4. ticketed' \subseteq Msgs
  <2>1. ASSUME NEW c \in Convs, Handle(c) \/ CallTool(c) \/ Raise(c) \/ SaveErrorFails(c)
        PROVE  UNCHANGED ticketed \/ (CreateTicket(c) /\ ticketed' \subseteq ticketed \cup {run[c].msg})
    BY <2>1 DEF Handle, CallTool, Raise, SaveErrorFails, SkipReply, BeginAppeal, BeginCase,
                Classify, LinkAppeal, RouteTool, Save, EndLoop, Put, Refresh, SaveError,
                CreateTicket, HandOff, MoveInbox, SetState, Ignore
  <2>2. CASE \/ \E m \in Msgs : Arrive(m)
             \/ \E d \in Convs : Age(d) \/ WriteBack(d) \/ ArchiveStale(d)
             \/ SelectStale \/ CommitClose \/ CloseRaises \/ SelectBlank \/ CancelEnrichment
             \/ Crash \/ UNCHANGED vars
    BY <2>2 DEF Arrive, Age, WriteBack, ArchiveStale, SelectStale, CommitClose, CloseRaises,
                SelectBlank, CancelEnrichment, Crash, StopHandlers, flowVars, vars,
                TInv, TablesTyped
  <2>3. ASSUME NEW c \in Convs, CreateTicket(c)
        PROVE  run[c].msg \in Msgs
    BY <1>1, <2>3, WorkingOn DEF CreateTicket, InLoop
  <2>4. QED
    BY <2>1, <2>2, <2>3 DEF Next, TInv, TablesTyped
<1>5. away' \subseteq Convs
  <2>1. ASSUME NEW c \in Convs, Handle(c) \/ CallTool(c) \/ Raise(c) \/ SaveErrorFails(c)
        PROVE  away' \subseteq away \cup {c}
    BY <2>1 DEF Handle, CallTool, Raise, SaveErrorFails, Ignore, SkipReply, BeginAppeal,
                BeginCase, Classify, LinkAppeal, RouteTool, Save, EndLoop, Put, Refresh,
                SaveError, CreateTicket, HandOff, MoveInbox, SetState
  <2>2. CASE \/ \E m \in Msgs : Arrive(m)
             \/ \E d \in Convs : Age(d) \/ WriteBack(d) \/ ArchiveStale(d)
             \/ SelectStale \/ CommitClose \/ CloseRaises \/ SelectBlank \/ CancelEnrichment
             \/ Crash \/ UNCHANGED vars
    BY <2>2 DEF Arrive, Age, WriteBack, ArchiveStale, SelectStale, CommitClose, CloseRaises,
                SelectBlank, CancelEnrichment, Crash, StopHandlers, flowVars, vars,
                TInv, TablesTyped
  <2>3. QED
    BY <2>1, <2>2 DEF Next, TInv, TablesTyped
<1>6. faults' <= MaxFaults
  BY <1>1, FaultsCounted DEF TInv, TablesTyped
<1>7. QED
  BY <1>2, <1>3, <1>4, <1>5, <1>6, CopiesRemain DEF TablesTyped

LEMMA InitTInv ==
  ASSUME Init
  PROVE  TInv
<1>1. HInv
  BY InitHInv
<1>2. TablesTyped
  BY FlowAssumption DEF Init, FlowInit, TablesTyped, Rows, NoCopies, NoClose
<1>3. HandlersHold
  BY DEF Init, FlowInit, HandlersHold
<1>4. QED
  BY <1>1, <1>2, <1>3 DEF TInv

\* Rows, handlers and jobs hold only words of the code, of the classifier and of
\* the language model, and every handler what its place in handle_email calls for.
THEOREM TypeInvariant == Spec => []TInv
<1>1. Init => TInv
  BY InitTInv
<1>2. TInv /\ [Next]_vars => TInv'
  <2> SUFFICES ASSUME TInv, [Next]_vars
               PROVE  TInv'
    OBVIOUS
  <2>1. HInv'
    <3>1. HInv
      BY DEF TInv
    <3>2. IInv'
      BY <3>1, StepKeeps DEF HInv
    <3>3. QED
      BY <3>1, <3>2, MailKept, StepHandlersAtWork, StepCopiesFit, StepFailuresWait,
         StepOneDraft DEF HInv
  <2>2. QED
    BY <2>1, StepHandlersHold, StepTablesTyped DEF TInv
<1>3. QED
  BY <1>1, <1>2, PTL DEF Spec

\* The rows keep to the words of the code, the classifier and the language model,
\* and the handlers and the jobs to their shapes, through every step.
THEOREM TypeCorrect == Spec => []TypeOK
<1>1. TInv => TypeOK
  <2> SUFFICES ASSUME TInv
               PROVE  TypeOK
    OBVIOUS
  <2>1. \A c \in Convs :
          run[c].pc \in {"idle", "route", "link", "classify", "loop", "put", "refresh",
                          "save", "error"}
    <3> TAKE c \in Convs
    <3>1. CASE run[c] = Idle
      BY <3>1 DEF Idle
    <3>2. CASE run[c] # Idle
      BY <3>2 DEF TInv, HandlersHold, Holds
    <3>3. QED
      BY <3>1, <3>2
  <2>2. faults \in 0..MaxFaults
    BY FlowAssumption DEF TInv, TablesTyped, HInv, MailOK
  <2>3. QED
    BY <2>1, <2>2 DEF TypeOK, TInv, TablesTyped, HInv, IInv, JobsOK, MailOK
<1>2. QED
  BY <1>1, TypeInvariant, PTL
================================================================================
