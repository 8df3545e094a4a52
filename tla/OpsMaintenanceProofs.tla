------------------------- MODULE OpsMaintenanceProofs --------------------------
(* What the orchestrator and the maintenance jobs guarantee for any number of  *)
(* conversations, messages, tool calls and failures, whatever the customer     *)
(* writes and whatever the classifier and the language model answer.           *)
EXTENDS OpsMaintenance, TLAPS

RowFields == {"category", "sub_type", "step", "linear_url", "waiting", "blank"}
HandlerFields == {"pc", "msg", "old", "copy", "linked", "saw", "knew", "class",
                  "save", "keep"}
\* A record with the fields of a row.
IsRow(r) == DOMAIN r = RowFields /\ r = [f \in RowFields |-> r[f]]
KeepSteps == {NoStep, "draft_created", "forwarded_keep_open"}

\* The keep-open step is none or one that keeps the conversation open; what a
\* handler is about to save is a row, and what it has loaded is one or nothing.  A
\* state of the agent loop has been through the guards.
Guarded(h) ==
  /\ KnowsTicket(h.old) => h.save.linear_url
  /\ h.keep # NoStep => h.save.step \notin KEEP_OPEN_TERMINAL_STEPS
HandlerOK(h) ==
  /\ DOMAIN h = HandlerFields
  /\ h.pc # "idle"
  /\ h.keep \in KeepSteps
  /\ h.copy = NoRow \/ IsRow(h.copy)
  /\ h.pc \in {"save", "put", "error"} => IsRow(h.save)
  /\ h.pc = "put" => Guarded(h)

Shaped ==
  /\ DOMAIN row = Convs
  /\ \A c \in Convs : row[c] = NoRow \/ IsRow(row[c])
  /\ DOMAIN run = Convs
  /\ \A c \in Convs : run[c] = Idle \/ HandlerOK(run[c])

\* The jobs write rows that exist.
JobsOK ==
  /\ \A c \in Convs : copies[c] # NoRow => row[c] # NoRow
  /\ \A c \in close.picked : row[c] # NoRow
  /\ DOMAIN copies = Convs
  /\ DOMAIN close = {"picked", "left"}
  /\ close.picked \subseteq Convs

\* A ticket that a row showed is still there or was lost.
KnownOrForgot == \A c \in Convs : c \in known => KnowsTicket(row[c]) \/ c \in forgot

\* A handler that began with a known ticket has it in the row it read first, or
\* the table had lost it.
HandlerKnows ==
  \A c \in Convs : run[c] # Idle /\ run[c].knew => KnowsTicket(run[c].old) \/ c \in forgot

IInv ==
  /\ Shaped
  /\ JobsOK
  /\ KnownOrForgot
  /\ HandlerKnows
  /\ SecondTicketNeedsLoss

--------------------------------------------------------------------------------
(* Rows.                                                                       *)

LEMMA RowShape ==
  ASSUME NEW a, NEW b, NEW s, NEW u, NEW w, NEW k
  PROVE  IsRow(Row(a, b, s, u, w, k))
BY DEF Row, IsRow, RowFields

LEMMA RowsAreNotNoRow ==
  ASSUME NEW r, IsRow(r)
  PROVE  r # NoRow
BY DEF IsRow, RowFields, NoRow

\* The guards of the agent loop keep a row's shape, a known ticket, and after a
\* hand-off a step that does not count as finished.
LEMMA GuardedRow ==
  ASSUME NEW keep \in KeepSteps, NEW old, NEW s \in ModelStates
  PROVE  LET r == Coerced(keep, Merged(old, s)) IN
         /\ IsRow(r)
         /\ KnowsTicket(old) => r.linear_url
         /\ keep # NoStep => r.step \notin KEEP_OPEN_TERMINAL_STEPS
<1> DEFINE m == Merged(old, s)
<1>1. IsRow(s)
  BY StatesAssumption DEF Rows, IsRow, RowFields
<1>2. IsRow(m) /\ (KnowsTicket(old) => m.linear_url)
  BY <1>1 DEF Merged, TicketBlocked, KnowsTicket, IsRow, RowFields
<1>3. IsRow(Coerced(keep, m)) /\ Coerced(keep, m).linear_url = m.linear_url
  BY <1>2 DEF Coerced, IsRow, RowFields
<1>4. keep # NoStep => Coerced(keep, m).step \notin KEEP_OPEN_TERMINAL_STEPS
  BY <1>2 DEF Coerced, KEEP_OPEN_TERMINAL_STEPS, KeepSteps, NoStep, IsRow, RowFields
<1>5. QED
  BY <1>2, <1>3, <1>4

\* What set_state leaves in a row: each field is the one asked for or the one the
\* table had.
LEMMA FlushedRow ==
  ASSUME NEW old, NEW copy, NEW r, IsRow(r), NEW anew \in BOOLEAN
  PROVE  /\ IsRow(Flushed(old, copy, r, anew))
         /\ \A f \in RowFields : \/ Flushed(old, copy, r, anew)[f] = r[f]
                               \/ Flushed(old, copy, r, anew)[f] = old[f]
<1>1. CASE copy = NoRow
  BY <1>1 DEF Flushed
<1>2. CASE copy # NoRow
  <2> DEFINE A == Assigned(copy, r, anew)
  <2>1. Flushed(old, copy, r, anew) = [f \in RowFields |-> IF f \in A THEN r[f] ELSE old[f]]
    BY <1>2 DEF Flushed, IsRow
  <2> HIDE DEF A
  <2>2. QED
    BY <2>1 DEF IsRow
<1>3. QED
  BY <1>1, <1>2

\* Writing rows of the right shape through WriteRows keeps what is known of the
\* table; what was forgotten stays so.
LEMMA WrittenRows ==
  ASSUME NEW rows, WriteRows(rows), DOMAIN rows = Convs, KnownOrForgot,
         \A c \in Convs : rows[c] = NoRow \/ IsRow(rows[c])
  PROVE  /\ DOMAIN row' = Convs
         /\ \A c \in Convs : row'[c] = NoRow \/ IsRow(row'[c])
         /\ KnownOrForgot'
         /\ forgot \subseteq forgot'
BY DEF WriteRows, KnownOrForgot

--------------------------------------------------------------------------------
(* Handlers.                                                                   *)

Unwritten == UNCHANGED <<row, known, forgot>>

\* What a handler of c may be, and one that goes on from what it read first.
Knowing(h, c) == HandlerOK(h) /\ (h.knew => KnowsTicket(h.old) \/ c \in forgot)
Continues(h, c) ==
  run[c] # Idle /\ HandlerOK(h) /\ h.knew = run[c].knew /\ h.old = run[c].old

\* A handler that starts knows a ticket only if its row shows it or lost it.
LEMMA StartedHandler ==
  ASSUME IInv, NEW m \in Msgs, ConvOf[m] \in Convs, NEW linked,
         NEW pc \in {"route", "link", "classify", "loop"}
  PROVE  Knowing(Handler(pc, m, linked), ConvOf[m])
<1>1. HandlerOK(Handler(pc, m, linked))
  BY DEF Handler, HandlerOK, HandlerFields, KeepSteps, NoStep, IInv, Shaped
<1>2. QED
  BY <1>1 DEF Handler, Knowing, IInv, KnownOrForgot

\* A step of one handler that leaves the table and the jobs alone, and gives the
\* handler what it may have.
LEMMA HandlerStep ==
  ASSUME IInv, NEW c \in Convs, NEW h, run' = [run EXCEPT ![c] = h],
         Unwritten, UNCHANGED jobVars, repeated' \subseteq forgot,
         h = Idle \/ Knowing(h, c)
  PROVE  IInv'
<1>1. Shaped'
  BY DEF IInv, Shaped, Unwritten, Knowing
<1>2. JobsOK'
  BY DEF IInv, JobsOK, Unwritten, jobVars
<1>3. KnownOrForgot' /\ SecondTicketNeedsLoss'
  BY DEF IInv, KnownOrForgot, Unwritten, SecondTicketNeedsLoss
<1>4. HandlerKnows'
  BY DEF IInv, Shaped, HandlerKnows, Unwritten, Knowing
<1>5. QED
  BY <1>1, <1>2, <1>3, <1>4 DEF IInv

\* A handler at work that keeps what it read first.
LEMMA HandlerMoves ==
  ASSUME IInv, NEW c \in Convs, NEW h, run' = [run EXCEPT ![c] = h], Continues(h, c),
         Unwritten, UNCHANGED jobVars, repeated' \subseteq forgot
  PROVE  IInv'
<1>1. Knowing(h, c)
  BY DEF IInv, HandlerKnows, Knowing, Continues
<1>2. QED
  BY <1>1, HandlerStep

LEMMA WorkingHandler ==
  ASSUME IInv, NEW c \in Convs, run[c].pc # "idle"
  PROVE  run[c] # Idle /\ HandlerOK(run[c])
BY DEF IInv, Shaped, Idle

\* A step of one handler that writes its row.
LEMMA HandlerWrites ==
  ASSUME IInv, NEW c \in Convs, NEW r, IsRow(r), WriteRows([row EXCEPT ![c] = r]),
         NEW h, run' = [run EXCEPT ![c] = h], UNCHANGED <<jobVars, repeated>>,
         h = Idle \/ Continues(h, c)
  PROVE  IInv'
<1> DEFINE rows == [row EXCEPT ![c] = r]
<1>1. DOMAIN rows = Convs /\ \A d \in Convs : rows[d] = NoRow \/ IsRow(rows[d])
  BY DEF IInv, Shaped
<1>2. /\ DOMAIN row' = Convs
      /\ \A d \in Convs : row'[d] = NoRow \/ IsRow(row'[d])
      /\ KnownOrForgot' /\ forgot \subseteq forgot'
  <2>1. KnownOrForgot /\ WriteRows(rows)
    BY DEF IInv
  <2> HIDE DEF rows
  <2>2. QED
    BY <1>1, <2>1, WrittenRows
<1>3. row' = rows
  BY DEF WriteRows
<1>4. Shaped'
  BY <1>2 DEF IInv, Shaped, Continues
<1>5. JobsOK'
  BY <1>3, RowsAreNotNoRow DEF IInv, Shaped, JobsOK, jobVars
<1>6. HandlerKnows'
  BY <1>2 DEF IInv, Shaped, HandlerKnows, Continues
<1>7. SecondTicketNeedsLoss'
  BY <1>2 DEF IInv, SecondTicketNeedsLoss
<1>8. QED
  BY <1>2, <1>4, <1>5, <1>6, <1>7 DEF IInv

\* A step in which no handler moves and the table keeps its tickets' history.
LEMMA TableStep ==
  ASSUME IInv, UNCHANGED <<run, repeated>>, NEW rows, WriteRows(rows),
         DOMAIN rows = Convs, \A c \in Convs : rows[c] = NoRow \/ IsRow(rows[c]),
         JobsOK'
  PROVE  IInv'
<1>1. /\ DOMAIN row' = Convs
      /\ \A c \in Convs : row'[c] = NoRow \/ IsRow(row'[c])
      /\ KnownOrForgot' /\ forgot \subseteq forgot'
  BY WrittenRows DEF IInv
<1>2. Shaped' /\ HandlerKnows' /\ SecondTicketNeedsLoss'
  BY <1>1 DEF IInv, Shaped, HandlerKnows, SecondTicketNeedsLoss
<1>3. QED
  BY <1>1, <1>2 DEF IInv

--------------------------------------------------------------------------------
(* The actions of ConversationFlow.                                            *)

LEMMA BeginKeeps ==
  ASSUME IInv, NEW c \in Convs, NEW m \in Msgs, BeginAppeal(c, m) \/ BeginCase(c, m),
         UNCHANGED jobVars
  PROVE  IInv'
<1>1. ConvOf[m] = c /\ Unwritten /\ repeated' \subseteq forgot
  BY DEF BeginAppeal, BeginCase, Ready, Unwritten, history, IInv, SecondTicketNeedsLoss
<1>2. CASE BeginCase(c, m)
  <2>1. PICK linked \in SUBSET Convs :
          run' = [run EXCEPT ![c] =
            Handler(IF InitialFlow(row[c], msg[m].mail.text) THEN "classify" ELSE "loop",
                    m, linked)]
    BY <1>2 DEF BeginCase
  <2>2. QED
    BY <1>1, <2>1, StartedHandler, HandlerStep
<1>3. CASE BeginAppeal(c, m)
  <2>1. PICK linked \in SUBSET Convs :
          run' = [run EXCEPT ![c] =
            [Handler(IF linked \cup OwnCase(c) = {} THEN "route" ELSE "link", m,
                     linked \cup OwnCase(c))
               EXCEPT !.class = Suspension(msg[m].mail.text)]]
    BY <1>3 DEF BeginAppeal
  <2> DEFINE h == Handler(IF linked \cup OwnCase(c) = {} THEN "route" ELSE "link", m,
                          linked \cup OwnCase(c))
             g == [h EXCEPT !.class = Suspension(msg[m].mail.text)]
  <2>2. Knowing(h, c)
    BY <1>1, StartedHandler
  <2>3. Knowing(g, c)
    <3>1. /\ DOMAIN g = HandlerFields
          /\ g.pc = h.pc /\ g.keep = h.keep /\ g.copy = h.copy /\ g.save = h.save
          /\ g.old = h.old /\ g.knew = h.knew
      <4> HIDE DEF h
      <4> QED
        BY <2>2 DEF Knowing, HandlerOK, HandlerFields
    <3> HIDE DEF h, g
    <3>2. QED
      BY <2>2, <3>1 DEF Knowing, HandlerOK, Guarded
  <2>4. run' = [run EXCEPT ![c] = g]
    BY <2>1
  <2> HIDE DEF h, g
  <2>5. QED
    BY <1>1, <2>3, <2>4, HandlerStep
<1>4. QED
  BY <1>2, <1>3

LEMMA ClassifyKeeps ==
  ASSUME IInv, NEW c \in Convs, Classify(c), UNCHANGED jobVars
  PROVE  IInv'
<1>1. PICK cl : \E pc \in {"link", "loop", "route"} :
        run' = [run EXCEPT ![c].class = cl, ![c].pc = pc]
  <2> DEFINE topic == TopicOf(run[c].old, msg[run[c].msg].mail.text)
             Cl(raw) == IF topic # NoClass THEN topic
                        ELSE Classified(raw, msg[run[c].msg].mail.text)
  <2>1. PICK raw \in RawAnswers :
          run' = [run EXCEPT ![c].class = Cl(raw), ![c].pc =
            IF (/\ Cl(raw).category \in {"account", "education"}
                /\ Cl(raw).sub_type = "account_suspended") /\ run[c].linked # {}
            THEN "link"
            ELSE IF InitialRoute(Cl(raw)).tool = "skill" THEN "loop" ELSE "route"]
    BY DEF Classify
  <2> DEFINE cl == Cl(raw)
  <2>2. run' = [run EXCEPT ![c].class = cl, ![c].pc =
            IF (/\ cl.category \in {"account", "education"}
                /\ cl.sub_type = "account_suspended") /\ run[c].linked # {}
            THEN "link"
            ELSE IF InitialRoute(cl).tool = "skill" THEN "loop" ELSE "route"]
    BY <2>1
  <2> HIDE DEF cl
  <2>3. \E pc \in {"link", "loop", "route"} :
          run' = [run EXCEPT ![c].class = cl, ![c].pc = pc]
    BY <2>2
  <2>4. QED
    BY <2>3
<1>2. PICK pc \in {"link", "loop", "route"} :
        run' = [run EXCEPT ![c].class = cl, ![c].pc = pc]
  BY <1>1
<1> DEFINE h == [run[c] EXCEPT !.class = cl, !.pc = pc]
<1>3. run[c].pc = "classify" /\ Unwritten /\ repeated' \subseteq forgot
  BY DEF Classify, Unwritten, history, IInv, SecondTicketNeedsLoss
<1>4. Continues(h, c)
  BY <1>3, WorkingHandler DEF Continues, HandlerOK, HandlerFields
<1>5. run' = [run EXCEPT ![c] = h]
  BY <1>2, <1>3, WorkingHandler DEF HandlerOK, HandlerFields, IInv, Shaped
<1> HIDE DEF h
<1>6. QED
  BY <1>3, <1>4, <1>5, HandlerMoves

\* A handler with what it asks set_state to save.
LEMMA AsksKeeps ==
  ASSUME IInv, NEW c \in Convs, run[c].pc # "idle", NEW r, IsRow(r),
         NEW pc \in {"save", "put", "error"}, Asks(c, pc, r),
         pc = "put" => Guarded([run[c] EXCEPT !.save = r]),
         Unwritten, UNCHANGED jobVars, repeated' \subseteq forgot
  PROVE  IInv'
<1>1. run[c] # Idle /\ HandlerOK(run[c])
  BY WorkingHandler
<1>2. Loaded(c) = NoRow \/ IsRow(Loaded(c))
  BY <1>1 DEF Loaded, HandlerOK, IInv, Shaped
<1> DEFINE h == [run[c] EXCEPT !.pc = pc, !.save = r, !.copy = Loaded(c)]
<1>3. run' = [run EXCEPT ![c] = h]
  BY <1>1 DEF Asks, HandlerOK, HandlerFields, IInv, Shaped
<1>4. Continues(h, c)
  <2>1. /\ DOMAIN h = HandlerFields
        /\ h.pc = pc /\ h.keep = run[c].keep /\ h.old = run[c].old /\ h.knew = run[c].knew
        /\ h.save = r /\ h.copy = Loaded(c)
    BY <1>1 DEF HandlerOK, HandlerFields
  <2>2. pc = "put" => Guarded(h)
    <3> DEFINE g == [run[c] EXCEPT !.save = r]
    <3>1. g.old = run[c].old /\ g.keep = run[c].keep /\ g.save = r
      BY <1>1 DEF HandlerOK, HandlerFields
    <3> HIDE DEF g, h
    <3>2. Guarded(g) => Guarded(h)
      BY <2>1, <3>1 DEF Guarded
    <3>3. QED
      BY <3>2 DEF g
  <2> HIDE DEF h
  <2>3. QED
    BY <1>1, <1>2, <2>1, <2>2 DEF Continues, HandlerOK
<1> HIDE DEF h
<1>5. QED
  BY <1>3, <1>4, HandlerMoves

LEMMA LinkAppealKeeps ==
  ASSUME IInv, NEW c \in Convs, LinkAppeal(c), UNCHANGED jobVars
  PROVE  IInv'
<1>1. run[c].pc # "idle" /\ Unwritten /\ repeated' \subseteq forgot
  BY DEF LinkAppeal, Unwritten, history, IInv, SecondTicketNeedsLoss
<1>2. PICK step \in {"manual_review", "failed_needs_review"} :
        Asks(c, "save", Row(run[c].class.category, "account_suspended", step,
                            run[c].old # NoRow /\ run[c].old.linear_url, "no", FALSE))
  BY DEF LinkAppeal
<1>3. QED
  BY <1>1, <1>2, RowShape, AsksKeeps

LEMMA RouteToolKeeps ==
  ASSUME IInv, NEW c \in Convs, RouteTool(c), UNCHANGED jobVars
  PROVE  IInv'
<1>1. run[c].pc # "idle" /\ Unwritten /\ repeated' \subseteq forgot
  BY DEF RouteTool, Unwritten, history, IInv, SecondTicketNeedsLoss
<1>2. PICK category, sub, step :
        Asks(c, "save", Row(category, sub, step, FALSE, "no", FALSE))
  BY DEF RouteTool
<1>3. QED
  BY <1>1, <1>2, RowShape, AsksKeeps

\* The commit of what a handler asked for writes a row of its conversation.
LEMMA CommitWrites ==
  ASSUME IInv, NEW c \in Convs, run[c].pc \in {"save", "put", "error"}, Commit(c, c)
  PROVE  \E r : /\ IsRow(r) /\ WriteRows([row EXCEPT ![c] = r])
                /\ \A f \in RowFields : r[f] = run[c].save[f] \/ r[f] = row[c][f]
<1>1. IsRow(run[c].save)
  BY WorkingHandler DEF HandlerOK
<1>2. PICK anew \in BOOLEAN :
        WriteRows([row EXCEPT ![c] = Flushed(row[c], run[c].copy, run[c].save, anew)])
  BY DEF Commit
<1> DEFINE r == Flushed(row[c], run[c].copy, run[c].save, anew)
<1>3. /\ IsRow(r)
      /\ \A f \in RowFields : r[f] = run[c].save[f] \/ r[f] = row[c][f]
  BY <1>1, FlushedRow
<1>4. WriteRows([row EXCEPT ![c] = r])
  BY <1>2
<1> HIDE DEF r
<1>5. QED
  BY <1>3, <1>4

LEMMA SaveKeeps ==
  ASSUME IInv, NEW c \in Convs, Save(c) \/ SaveError(c), UNCHANGED jobVars
  PROVE  IInv'
<1>1. run' = [run EXCEPT ![c] = Idle] /\ UNCHANGED <<jobVars, repeated>>
  BY DEF Save, Finish, SaveError, GiveUp
<1>2. run[c].pc \in {"save", "error"} /\ Commit(c, c)
  BY DEF Save, SaveError, GiveUp
<1>3. PICK r : IsRow(r) /\ WriteRows([row EXCEPT ![c] = r])
  BY <1>2, CommitWrites
<1>4. QED
  BY <1>1, <1>3, HandlerWrites

LEMMA EndLoopKeeps ==
  ASSUME IInv, NEW c \in Convs, EndLoop(c), UNCHANGED jobVars
  PROVE  IInv'
<1>1. run[c].pc # "idle" /\ Unwritten /\ repeated' \subseteq forgot
  BY DEF EndLoop, Unwritten, IInv, SecondTicketNeedsLoss
<1>2. CASE Asks(c, "save", Row(run[c].class.category, run[c].class.sub_type,
                               "failed_needs_review", FALSE, "no", FALSE))
  BY <1>1, <1>2, RowShape, AsksKeeps
<1>3. CASE run' = [run EXCEPT ![c] = Idle]
  BY <1>1, <1>3, HandlerStep
<1>4. QED
  BY <1>2, <1>3 DEF EndLoop, Finish

\* An exception, and an error path whose state cannot be saved.
LEMMA FailureKeeps ==
  ASSUME IInv, NEW c \in Convs, Raise(c) \/ SaveErrorFails(c), UNCHANGED jobVars
  PROVE  IInv'
<1>1. Unwritten /\ repeated' \subseteq forgot
  BY DEF Raise, SaveErrorFails, Unwritten, history, IInv, SecondTicketNeedsLoss
<1>2. CASE SaveErrorFails(c)
  BY <1>1, <1>2, HandlerStep DEF SaveErrorFails, GiveUp
<1>3. CASE Raise(c)
  <2>1. run[c].pc # "idle" /\ Asks(c, "error", FailedRow) /\ IsRow(FailedRow)
    BY <1>3, RowShape DEF Raise, FailedRow
  <2>2. QED
    BY <1>1, <2>1, AsksKeeps
<1>4. QED
  BY <1>2, <1>3

\* The remaining steps of a handler that leave its row alone.
LEMMA QuietKeeps ==
  ASSUME IInv, UNCHANGED <<run, row, known, forgot, repeated, jobVars>>
  PROVE  IInv'
BY DEF IInv, Shaped, JobsOK, KnownOrForgot, HandlerKnows, SecondTicketNeedsLoss, jobVars

LEMMA KeepsContinues ==
  ASSUME IInv, NEW c \in Convs, run[c].pc = "loop", NEW keep \in KeepSteps, Keeps(c, keep)
  PROVE  \E h : run' = [run EXCEPT ![c] = h] /\ Continues(h, c)
<1> DEFINE h == [run[c] EXCEPT !.keep = keep]
<1>1. run[c] # Idle /\ HandlerOK(run[c]) /\ run[c].pc = "loop"
  BY WorkingHandler
<1>2. Continues(h, c)
  BY <1>1 DEF Continues, HandlerOK, HandlerFields
<1>3. run' = [run EXCEPT ![c] = h]
  BY <1>1 DEF Keeps, HandlerOK, HandlerFields, IInv, Shaped
<1>4. QED
  BY <1>2, <1>3

\* A ticket is opened by a handler whose row did not show one: that it was known
\* when the handler began means that the table had lost it.
LEMMA CreateTicketKeeps ==
  ASSUME IInv, NEW c \in Convs, CreateTicket(c), UNCHANGED jobVars
  PROVE  IInv'
<1>1. run[c].pc = "loop" /\ Unwritten
  BY DEF CreateTicket, InLoop, Unwritten
<1>2. run[c] # Idle /\ HandlerOK(run[c])
  BY <1>1, WorkingHandler
<1>3. PICK h : run' = [run EXCEPT ![c] = h] /\ Continues(h, c)
  <2>1. PICK marked \in BOOLEAN : Keeps(c, AfterTicket(run[c].keep, marked))
    BY DEF CreateTicket
  <2>2. AfterTicket(run[c].keep, marked) \in KeepSteps
    BY <1>2 DEF AfterTicket, HandlerOK, KeepSteps, NoStep
  <2>3. QED
    BY <1>1, <2>1, <2>2, KeepsContinues
<1>4. repeated' \subseteq forgot
  <2>1. ~KnowsTicket(run[c].old)
    BY DEF CreateTicket, TicketBlocked, KnowsTicket
  <2>2. run[c].knew => c \in forgot
    BY <1>2, <2>1 DEF IInv, HandlerKnows
  <2>3. repeated' = repeated \/ (run[c].knew /\ repeated' = repeated \cup {c})
    BY DEF CreateTicket
  <2>4. QED
    BY <2>2, <2>3 DEF IInv, SecondTicketNeedsLoss
<1>5. QED
  BY <1>1, <1>3, <1>4, HandlerMoves

LEMMA HandOffKeeps ==
  ASSUME IInv, NEW c \in Convs, HandOff(c), UNCHANGED jobVars
  PROVE  IInv'
<1>1. PICK h : run' = [run EXCEPT ![c] = h] /\ Continues(h, c)
  BY KeepsContinues DEF HandOff, InLoop, KeepSteps
<1>2. Unwritten /\ repeated' \subseteq forgot
  BY DEF HandOff, Unwritten, history, IInv, SecondTicketNeedsLoss
<1>3. QED
  BY <1>1, <1>2, HandlerMoves

\* What state_set asks for has been through the guards.
LEMMA SetStateKeeps ==
  ASSUME IInv, NEW c \in Convs, SetState(c), UNCHANGED jobVars
  PROVE  IInv'
<1>1. run[c].pc = "loop" /\ Unwritten /\ repeated' \subseteq forgot
  BY DEF SetState, InLoop, Unwritten, history, IInv, SecondTicketNeedsLoss
<1>2. HandlerOK(run[c])
  BY <1>1, WorkingHandler
<1>3. PICK s \in ModelStates :
        Asks(c, "put", Coerced(run[c].keep, Merged(run[c].old, s)))
  BY DEF SetState
<1> DEFINE r == Coerced(run[c].keep, Merged(run[c].old, s))
<1>4. /\ IsRow(r)
      /\ KnowsTicket(run[c].old) => r.linear_url
      /\ run[c].keep # NoStep => r.step \notin KEEP_OPEN_TERMINAL_STEPS
  BY <1>2, GuardedRow DEF HandlerOK
<1>5. Asks(c, "put", r)
  BY <1>3
<1> HIDE DEF r
<1>6. Guarded([run[c] EXCEPT !.save = r])
  BY <1>2, <1>4 DEF Guarded, HandlerOK, HandlerFields
<1>7. QED
  BY <1>1, <1>4, <1>5, <1>6, AsksKeeps

\* Its commit writes the row of the handler's own conversation.
LEMMA PutWrites ==
  ASSUME IInv, NEW c \in Convs, Put(c)
  PROVE  \E r : /\ IsRow(r) /\ WriteRows([row EXCEPT ![c] = r])
                /\ \A f \in RowFields : r[f] = run[c].save[f] \/ r[f] = row[c][f]
BY CommitWrites DEF Put, PreparedConv

LEMMA PutKeeps ==
  ASSUME IInv, NEW c \in Convs, Put(c), UNCHANGED jobVars
  PROVE  IInv'
<1>1. PICK r : IsRow(r) /\ WriteRows([row EXCEPT ![c] = r])
  BY PutWrites
<1>2. /\ run[c].pc = "put" /\ UNCHANGED <<jobVars, repeated>>
      /\ run' = [run EXCEPT ![c].pc = "refresh", ![c].copy = run[c].save]
  BY DEF Put
<1>3. run[c] # Idle /\ HandlerOK(run[c])
  BY <1>2, WorkingHandler
<1> DEFINE h == [run[c] EXCEPT !.pc = "refresh", !.copy = run[c].save]
<1>4. Continues(h, c)
  BY <1>2, <1>3 DEF Continues, HandlerOK, HandlerFields
<1>5. run' = [run EXCEPT ![c] = h]
  BY <1>2, <1>3 DEF HandlerOK, HandlerFields, IInv, Shaped
<1> HIDE DEF h
<1>6. QED
  BY <1>1, <1>2, <1>4, <1>5, HandlerWrites

LEMMA RefreshKeeps ==
  ASSUME IInv, NEW c \in Convs, Refresh(c), UNCHANGED jobVars
  PROVE  IInv'
<1>1. /\ run[c].pc = "refresh" /\ Unwritten /\ repeated' \subseteq forgot
      /\ run' = [run EXCEPT ![c].pc = "loop", ![c].copy = row[c]]
  BY DEF Refresh, Unwritten, history, IInv, SecondTicketNeedsLoss
<1>2. run[c] # Idle /\ HandlerOK(run[c])
  BY <1>1, WorkingHandler
<1>3. row[c] = NoRow \/ IsRow(row[c])
  BY DEF IInv, Shaped
<1> DEFINE h == [run[c] EXCEPT !.pc = "loop", !.copy = row[c]]
<1>4. Continues(h, c)
  BY <1>2, <1>3 DEF Continues, HandlerOK, HandlerFields
<1>5. run' = [run EXCEPT ![c] = h]
  BY <1>1, <1>2 DEF HandlerOK, HandlerFields, IInv, Shaped
<1> HIDE DEF h
<1>6. QED
  BY <1>1, <1>4, <1>5, HandlerMoves

LEMMA HandlersKeep ==
  ASSUME IInv, NEW c \in Convs,
         Handle(c) \/ CallTool(c) \/ Raise(c) \/ SaveErrorFails(c),
         UNCHANGED jobVars
  PROVE  IInv'
<1>1. CASE \E m \in Msgs : BeginAppeal(c, m) \/ BeginCase(c, m)
  BY <1>1, BeginKeeps
<1>2. CASE (\E m \in Msgs : Ignore(c, m) \/ SkipReply(c, m)) \/ MoveInbox(c)
  <2>1. UNCHANGED <<run, row, known, forgot, repeated>>
    BY <1>2 DEF Ignore, SkipReply, MoveInbox, history
  <2>2. QED
    BY <2>1, QuietKeeps
<1>3. CASE Classify(c)
  BY <1>3, ClassifyKeeps
<1>4. CASE LinkAppeal(c) \/ RouteTool(c)
  BY <1>4, LinkAppealKeeps, RouteToolKeeps
<1>5. CASE Save(c) \/ SaveError(c)
  BY <1>5, SaveKeeps
<1>6. CASE EndLoop(c)
  BY <1>6, EndLoopKeeps
<1>7. CASE CallTool(c)
  BY <1>2, <1>7, CreateTicketKeeps, HandOffKeeps, SetStateKeeps DEF CallTool
<1>8. CASE Raise(c) \/ SaveErrorFails(c)
  BY <1>8, FailureKeeps
<1>9. CASE Put(c) \/ Refresh(c)
  BY <1>9, PutKeeps, RefreshKeeps
<1>10. QED
  BY <1>1, <1>2, <1>3, <1>4, <1>5, <1>6, <1>7, <1>8, <1>9 DEF Handle

--------------------------------------------------------------------------------
(* The jobs.                                                                   *)

\* A step of a job that neither writes a row nor moves a handler.
LEMMA PickKeeps ==
  ASSUME IInv, UNCHANGED <<run, row, known, forgot, repeated>>, JobsOK'
  PROVE  IInv'
BY DEF IInv, Shaped, KnownOrForgot, HandlerKnows, SecondTicketNeedsLoss

LEMMA AgeKeeps ==
  ASSUME IInv, NEW c \in Convs, Age(c)
  PROVE  IInv'
<1>1. IsRow(row[c]) /\ row[c] # NoRow
  BY DEF Age, IInv, Shaped
<1>2. /\ UNCHANGED <<run, known, forgot, repeated, copies, close>>
      /\ row' = [row EXCEPT ![c].waiting = "stale"]
  BY DEF Age, history, jobVars
<1> DEFINE r == [row[c] EXCEPT !.waiting = "stale"]
<1>3. IsRow(r) /\ r # NoRow /\ (KnowsTicket(r) <=> KnowsTicket(row[c]))
  BY <1>1, RowsAreNotNoRow DEF IsRow, RowFields, KnowsTicket
<1>4. row' = [row EXCEPT ![c] = r]
  BY <1>2 DEF IInv, Shaped
<1> HIDE DEF r
<1>5. Shaped' /\ JobsOK'
  BY <1>2, <1>3, <1>4 DEF IInv, Shaped, JobsOK
<1>6. KnownOrForgot' /\ HandlerKnows' /\ SecondTicketNeedsLoss'
  BY <1>2, <1>3, <1>4 DEF IInv, Shaped, KnownOrForgot, HandlerKnows, SecondTicketNeedsLoss
<1>7. QED
  BY <1>5, <1>6 DEF IInv

\* Auto-close: what it picked are rows, and its commit keeps their tickets.
LEMMA CloseKeeps ==
  ASSUME IInv, SelectStale \/ CommitClose \/ CloseRaises \/ \E c \in Convs : ArchiveStale(c)
  PROVE  IInv'
<1>1. CASE CommitClose
  <2> DEFINE Closed(c) == [row[c] EXCEPT !.step = "done", !.waiting = "no"]
             rows == [c \in Convs |-> IF c \in close.picked THEN Closed(c) ELSE row[c]]
  <2>1. WriteRows(rows) /\ UNCHANGED <<run, repeated, copies>> /\ close' = NoClose
    BY <1>1 DEF CommitClose
  <2>2. \A c \in Convs : c \in close.picked => IsRow(Closed(c))
    BY DEF IInv, JobsOK, Shaped, IsRow, RowFields
  <2> HIDE DEF Closed
  <2>3. DOMAIN rows = Convs /\ \A c \in Convs : rows[c] = NoRow \/ IsRow(rows[c])
    BY <2>2 DEF IInv, Shaped
  <2>4. row' = rows
    BY <2>1 DEF WriteRows
  <2>5. JobsOK'
    BY <2>1, <2>2, <2>4, RowsAreNotNoRow DEF IInv, JobsOK, NoClose
  <2> HIDE DEF rows
  <2>6. QED
    BY <2>1, <2>3, <2>5, TableStep
<1>2. CASE SelectStale \/ CloseRaises \/ \E c \in Convs : ArchiveStale(c)
  <2>1. UNCHANGED <<run, row, known, forgot, repeated, copies>>
    BY <1>2 DEF SelectStale, CloseRaises, ArchiveStale, flowVars, history
  <2>2. /\ DOMAIN close' = {"picked", "left"}
        /\ close'.picked \subseteq {c \in Convs : row[c] # NoRow}
    BY <1>2 DEF SelectStale, CloseRaises, ArchiveStale, Stale, NoClose, IInv, JobsOK
  <2>3. QED
    BY <2>1, <2>2, PickKeeps DEF IInv, JobsOK
<1>3. QED
  BY <1>1, <1>2

\* Enrichment: a copy belongs to a row, and what it writes is a row.
LEMMA EnrichmentKeeps ==
  ASSUME IInv, SelectBlank \/ CancelEnrichment \/ \E c \in Convs : WriteBack(c)
  PROVE  IInv'
<1>1. ASSUME NEW c \in Convs, WriteBack(c)
      PROVE  IInv'
  <2>1. PICK blank \in BOOLEAN :
          WriteRows([row EXCEPT ![c].linear_url = copies[c].linear_url, ![c].blank = blank])
    BY <1>1 DEF WriteBack
  <2> DEFINE r == [row[c] EXCEPT !.linear_url = copies[c].linear_url, !.blank = blank]
             rows == [row EXCEPT ![c] = r]
  <2>2. IsRow(r)
    BY <1>1 DEF WriteBack, IInv, JobsOK, Shaped, IsRow, RowFields
  <2>3. WriteRows(rows)
    <3>1. DOMAIN row = Convs
      BY DEF IInv, Shaped
    <3>2. [row EXCEPT ![c].linear_url = copies[c].linear_url, ![c].blank = blank] = rows
      BY <3>1
    <3>3. QED
      BY <2>1, <3>2
  <2>4. UNCHANGED <<run, repeated, close>> /\ copies' = [copies EXCEPT ![c] = NoRow]
    BY <1>1 DEF WriteBack
  <2> HIDE DEF r
  <2>5. DOMAIN rows = Convs /\ \A d \in Convs : rows[d] = NoRow \/ IsRow(rows[d])
    BY <2>2 DEF IInv, Shaped
  <2>6. row' = rows
    BY <2>3 DEF WriteRows
  <2>7. JobsOK'
    BY <2>2, <2>4, <2>6, RowsAreNotNoRow DEF IInv, Shaped, JobsOK
  <2> HIDE DEF rows
  <2>8. QED
    BY <2>3, <2>4, <2>5, <2>7, TableStep
<1>2. CASE SelectBlank \/ CancelEnrichment
  <2>1. UNCHANGED <<run, row, known, forgot, repeated, close>>
    BY <1>2 DEF SelectBlank, CancelEnrichment, flowVars, history
  <2>2. DOMAIN copies' = Convs /\ \A c \in Convs : copies'[c] # NoRow => row[c] # NoRow
    BY <1>2 DEF SelectBlank, CancelEnrichment, NoCopies
  <2>3. QED
    BY <2>1, <2>2, PickKeeps DEF IInv, JobsOK
<1>3. QED
  BY <1>1, <1>2

LEMMA CrashKeeps ==
  ASSUME IInv, Crash
  PROVE  IInv'
<1>1. UNCHANGED <<row, known, forgot, repeated>> /\ run' = [c \in Convs |-> Idle]
  BY DEF Crash, StopHandlers
<1>2. Shaped' /\ KnownOrForgot' /\ HandlerKnows' /\ SecondTicketNeedsLoss'
  BY <1>1 DEF IInv, Shaped, KnownOrForgot, HandlerKnows, SecondTicketNeedsLoss
<1>3. JobsOK'
  BY <1>1 DEF Crash, JobsOK, NoClose, NoCopies
<1>4. QED
  BY <1>2, <1>3 DEF IInv

--------------------------------------------------------------------------------

LEMMA InitIInv ==
  ASSUME Init
  PROVE  IInv
BY DEF Init, FlowInit, IInv, Shaped, JobsOK, KnownOrForgot, HandlerKnows,
       SecondTicketNeedsLoss, NoClose, NoCopies

LEMMA StepKeeps ==
  ASSUME IInv, [Next]_vars
  PROVE  IInv'
<1>1. CASE \E m \in Msgs : Arrive(m) /\ UNCHANGED jobVars
  <2>1. UNCHANGED <<run, row, known, forgot, repeated, jobVars>>
    BY <1>1 DEF Arrive, history
  <2>2. QED
    BY <2>1, QuietKeeps
<1>2. CASE \E c \in Convs : /\ Handle(c) \/ CallTool(c) \/ Raise(c) \/ SaveErrorFails(c)
                            /\ UNCHANGED jobVars
  BY <1>2, HandlersKeep
<1>3. CASE \E c \in Convs : Age(c)
  BY <1>3, AgeKeeps
<1>4. CASE SelectStale \/ CommitClose \/ CloseRaises \/ \E c \in Convs : ArchiveStale(c)
  BY <1>4, CloseKeeps
<1>5. CASE SelectBlank \/ CancelEnrichment \/ \E c \in Convs : WriteBack(c)
  BY <1>5, EnrichmentKeeps
<1>6. CASE Crash
  BY <1>6, CrashKeeps
<1>7. CASE UNCHANGED vars
  <2>1. UNCHANGED <<run, row, known, forgot, repeated, jobVars>>
    BY <1>7 DEF vars, flowVars, history
  <2>2. QED
    BY <2>1, QuietKeeps
<1>8. QED
  BY <1>1, <1>2, <1>3, <1>4, <1>5, <1>6, <1>7 DEF Next

\* The inductive invariant of the orchestrator and the jobs.
THEOREM Invariant == Spec => []IInv
<1>1. Init => IInv
  BY InitIInv
<1>2. IInv /\ [Next]_vars => IInv'
  BY StepKeeps
<1>3. QED
  BY <1>1, <1>2, PTL DEF Spec

\* Once the row of an education case has shown its review ticket, a follow-up of
\* that case opens another only if the row lost the ticket again
\* (_blocked_reply_tools of agent/orchestrator.py).
THEOREM SecondTicket == Spec => []SecondTicketNeedsLoss
<1>1. IInv => SecondTicketNeedsLoss
  BY DEF IInv
<1>2. QED
  BY <1>1, Invariant, PTL

--------------------------------------------------------------------------------
(* What state_set may write.                                                   *)

\* A handler's step moves no other handler.
LEMMA OthersStay ==
  ASSUME IInv, NEW c \in Convs, NEW d \in Convs, d # c,
         Handle(d) \/ CallTool(d) \/ Raise(d) \/ SaveErrorFails(d)
  PROVE  run'[c] = run[c]
<1> USE DEF IInv, Shaped
<1>1. CASE \E m \in Msgs : SkipReply(d, m) \/ BeginAppeal(d, m) \/ BeginCase(d, m)
  BY <1>1 DEF SkipReply, BeginAppeal, BeginCase
<1>2. CASE Classify(d)
  BY <1>2 DEF Classify
<1>3. CASE LinkAppeal(d)
  BY <1>3 DEF LinkAppeal, Asks
<1>4. CASE RouteTool(d)
  BY <1>4 DEF RouteTool, Asks
<1>5. CASE Save(d) \/ SaveError(d) \/ SaveErrorFails(d)
  <2>1. run' = [run EXCEPT ![d] = Idle]
    BY <1>5 DEF Save, Finish, SaveError, SaveErrorFails, GiveUp
  <2>2. QED
    BY <2>1
<1>6. CASE EndLoop(d)
  BY <1>6 DEF EndLoop, Finish, Asks
<1>7. CASE CallTool(d)
  BY <1>7 DEF CallTool, CreateTicket, HandOff, MoveInbox, SetState, Keeps, Asks
<1>8. CASE Raise(d)
  BY <1>8 DEF Raise, Asks
<1>9. CASE (\E m \in Msgs : Ignore(d, m)) \/ Put(d) \/ Refresh(d)
  BY <1>9 DEF Ignore, Put, Refresh
<1>10. QED
  BY <1>1, <1>2, <1>3, <1>4, <1>5, <1>6, <1>7, <1>8, <1>9 DEF Handle

\* Only the commit of state_set changes a row in a step that also moves its handler.
LEMMA PutMoves ==
  ASSUME IInv, Next, NEW c \in Convs, run[c].pc = "put", run'[c] # run[c]
  PROVE  Put(c) \/ row' = row
<1>1. ASSUME NEW d \in Convs, d # c,
             Handle(d) \/ CallTool(d) \/ Raise(d) \/ SaveErrorFails(d)
      PROVE  run'[c] = run[c]
  BY <1>1, OthersStay
<1>2. CASE Handle(c) \/ CallTool(c) \/ Raise(c) \/ SaveErrorFails(c)
  BY <1>2 DEF Handle, CallTool, Raise, SaveErrorFails, Ignore, SkipReply, BeginAppeal,
              BeginCase, Ready, Classify, LinkAppeal, RouteTool, Save, EndLoop, SaveError,
              GiveUp, CreateTicket, HandOff, MoveInbox, SetState, InLoop, Refresh
<1>3. CASE \E m \in Msgs : Arrive(m)
  BY <1>3 DEF Arrive
<1>4. CASE \E d \in Convs : Age(d) \/ WriteBack(d) \/ ArchiveStale(d)
  BY <1>4 DEF Age, WriteBack, ArchiveStale, flowVars
<1>5. CASE SelectStale \/ CommitClose \/ CloseRaises \/ SelectBlank \/ CancelEnrichment
  BY <1>5 DEF SelectStale, CommitClose, CloseRaises, SelectBlank, CancelEnrichment, flowVars
<1>6. CASE Crash
  BY <1>6 DEF Crash, StopHandlers
<1>7. QED
  BY <1>1, <1>2, <1>3, <1>4, <1>5, <1>6 DEF Next

\* What it leaves of the step and the ticket: each is the guarded one, or the one
\* that was in the table.
LEMMA PutRow ==
  ASSUME IInv, NEW c \in Convs, Put(c)
  PROVE  /\ KnowsTicket(run[c].old) /\ row[c].linear_url => row'[c].linear_url
         /\ run[c].keep # NoStep => \/ row'[c].step \notin KEEP_OPEN_TERMINAL_STEPS
                                   \/ row'[c].step = row[c].step
<1>1. PICK r : /\ IsRow(r) /\ WriteRows([row EXCEPT ![c] = r])
               /\ \A f \in RowFields : r[f] = run[c].save[f] \/ r[f] = row[c][f]
  BY PutWrites
<1>2. row'[c] = r
  BY <1>1 DEF WriteRows, IInv, Shaped
<1>3. /\ r.linear_url = run[c].save.linear_url \/ r.linear_url = row[c].linear_url
      /\ r.step = run[c].save.step \/ r.step = row[c].step
  BY <1>1 DEF RowFields
<1>4. Guarded(run[c])
  BY WorkingHandler DEF Put, HandlerOK
<1>5. KnowsTicket(run[c].old) /\ row[c].linear_url => row'[c].linear_url
  BY <1>2, <1>3, <1>4, Zenon DEF Guarded
<1>6. QED
  BY <1>2, <1>3, <1>4, <1>5 DEF Guarded

\* After a hand-off or a ticket of the same agent run no state that is saved turns
\* an open conversation into a finished one (_coerce_keep_open_state_args).
THEOREM KeepOpen == Spec => HandOffStaysOpen
<1>1. ASSUME IInv, Next, NEW c \in Convs, run[c].pc = "put", run[c].keep # NoStep,
             run'[c] # run[c], row'[c] # NoRow, row'[c].step \in KEEP_OPEN_TERMINAL_STEPS
      PROVE  row[c] # NoRow /\ row'[c].step = row[c].step
  <2>1. row'[c].step = row[c].step
    BY <1>1, PutMoves, PutRow
  <2>2. NoRow.step \notin KEEP_OPEN_TERMINAL_STEPS
    BY DEF NoRow, KEEP_OPEN_TERMINAL_STEPS
  <2>3. QED
    BY <1>1, <2>1, <2>2
<1>2. IInv /\ [Next]_vars =>
        [\A c \in Convs :
           /\ run[c].pc = "put" /\ run[c].keep # NoStep
           /\ run'[c] # run[c]
           /\ row'[c] # NoRow /\ row'[c].step \in KEEP_OPEN_TERMINAL_STEPS
           => row[c] # NoRow /\ row'[c].step = row[c].step]_vars
  BY <1>1
<1>3. QED
  BY <1>2, Invariant, PTL DEF Spec, HandOffStaysOpen

\* A follow-up that began with the ticket in its row never saves it away
\* (_preserved_reply_payload).
THEOREM KeepTicket == Spec => FollowUpKeepsTicket
<1>1. ASSUME IInv, Next, NEW c \in Convs, run[c].pc = "put", KnowsTicket(run[c].old),
             run'[c] # run[c], row[c] # NoRow, row[c].linear_url
      PROVE  row'[c].linear_url
  <2>1. CASE Put(c)
    BY <1>1, <2>1, PutRow
  <2>2. CASE row' = row
    BY <1>1, <2>2
  <2>3. QED
    BY <1>1, <2>1, <2>2, PutMoves
<1>2. IInv /\ [Next]_vars =>
        [\A c \in Convs :
           /\ run[c].pc = "put" /\ KnowsTicket(run[c].old)
           /\ run'[c] # run[c]
           /\ row[c] # NoRow /\ row[c].linear_url
           => row'[c].linear_url]_vars
  BY <1>1
<1>3. QED
  BY <1>2, Invariant, PTL DEF Spec, FollowUpKeepsTicket

\* A step of the handler of c writes the row of no other conversation, and when
\* it writes that of c it moves.
LEMMA OwnerWrites ==
  ASSUME IInv, NEW c \in Convs, NEW d \in Convs, row'[d] # row[d],
         Handle(c) \/ CallTool(c) \/ Raise(c) \/ SaveErrorFails(c)
  PROVE  run'[d] # run[d]
<1>1. CASE Save(c) \/ SaveError(c)
  <2>1. run[c].pc # "idle" /\ run' = [run EXCEPT ![c] = Idle]
    BY <1>1 DEF Save, Finish, SaveError, GiveUp
  <2>2. PICK r : row' = [row EXCEPT ![c] = r]
    BY <1>1 DEF Save, SaveError, Commit, WriteRows
  <2>3. d = c
    BY <2>2
  <2>4. run'[c] = Idle
    BY <2>1 DEF IInv, Shaped
  <2>5. QED
    BY <2>1, <2>3, <2>4 DEF Idle
<1>2. CASE Put(c)
  <2>1. PICK r : row' = [row EXCEPT ![c] = r]
    BY <1>2, PutWrites DEF WriteRows
  <2>2. d = c
    BY <2>1
  <2>3. /\ HandlerOK(run[c]) /\ run[c].pc = "put"
        /\ run' = [run EXCEPT ![c].pc = "refresh", ![c].copy = run[c].save]
    BY <1>2, WorkingHandler DEF Put
  <2>4. run'[c].pc = "refresh"
    BY <2>3 DEF HandlerOK, HandlerFields, IInv, Shaped
  <2>5. QED
    BY <2>2, <2>3, <2>4
<1>3. CASE ~(Save(c) \/ SaveError(c) \/ Put(c))
  BY <1>3 DEF Handle, CallTool, Raise, SaveErrorFails, Ignore, SkipReply, BeginAppeal,
              BeginCase, Classify, LinkAppeal, RouteTool, EndLoop, CreateTicket, HandOff,
              MoveInbox, SetState, Refresh
<1>4. QED
  BY <1>1, <1>2, <1>3

\* While no job writes, a row changes only by a step of the handler that holds
\* its conversation, or by the passing of time.
THEOREM OwnerOnly == Spec => OnlyOwnerWrites
<1>1. ASSUME IInv, Next, NEW c \in Convs, row'[c] # row[c], UNCHANGED <<close, copies>>
      PROVE  run'[c] # run[c] \/ [row'[c] EXCEPT !.waiting = "fresh"] = row[c]
  <2>1. CASE \E d \in Convs : Handle(d) \/ CallTool(d) \/ Raise(d) \/ SaveErrorFails(d)
    BY <1>1, <2>1, OwnerWrites
  <2>2. CASE \E d \in Convs : Age(d)
    <3>1. PICK d \in Convs : row[d] # NoRow /\ row[d].waiting = "fresh"
                           /\ row' = [row EXCEPT ![d].waiting = "stale"]
      BY <2>2 DEF Age
    <3>2. d = c /\ IsRow(row[c])
      BY <1>1, <3>1 DEF IInv, Shaped
    <3>3. row'[c] = [row[c] EXCEPT !.waiting = "stale"]
      BY <1>1, <3>1, <3>2 DEF IInv, Shaped
    <3>4. [row'[c] EXCEPT !.waiting = "fresh"] = row[c]
      BY <3>1, <3>2, <3>3 DEF IsRow, RowFields
    <3>5. QED
      BY <3>4
  <2>3. CASE \E d \in Convs : WriteBack(d)
    BY <1>1, <2>3 DEF WriteBack, IInv, JobsOK
  <2>4. CASE CommitClose
    BY <1>1, <2>4 DEF CommitClose, NoClose
  <2>5. CASE \/ \E m \in Msgs : Arrive(m)
             \/ \E d \in Convs : ArchiveStale(d)
             \/ SelectStale \/ CloseRaises \/ SelectBlank \/ CancelEnrichment \/ Crash
    BY <1>1, <2>5 DEF Arrive, ArchiveStale, SelectStale, CloseRaises, SelectBlank,
                      CancelEnrichment, Crash, StopHandlers, flowVars
  <2>6. QED
    BY <1>1, <2>1, <2>2, <2>3, <2>4, <2>5 DEF Next
<1>2. IInv /\ [Next]_vars =>
        [\A c \in Convs :
           /\ row'[c] # row[c]
           /\ UNCHANGED <<close, copies>>
           => run'[c] # run[c] \/ [row'[c] EXCEPT !.waiting = "fresh"] = row[c]]_vars
  BY <1>1
<1>3. QED
  BY <1>2, Invariant, PTL DEF Spec, OnlyOwnerWrites
================================================================================
