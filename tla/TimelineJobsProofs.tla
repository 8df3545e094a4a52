-------------------------- MODULE TimelineJobsProofs --------------------------
(* What TimelineJobs guarantees for any conversations, times, bounds and        *)
(* refreshes.                                                                   *)
EXTENDS TimelineJobs, FiniteSetTheorems, SequenceTheorems, TLAPS

-----------------------------------------------------------------------------
(* The shapes, and what holds of every timeline.                              *)

Scope == Support \cup Assigned
Item == [kind : ItemKinds, at : Times]
Check == [message : Times, at : Times]
Decision == [conv : Scope, message : Times, verdict : Verdicts]

TimelineTyped ==
  /\ now \in Times /\ events \in 0..MaxEvents /\ faults \in 0..MaxFaults
  /\ items \in [Convs -> SUBSET Item]
  /\ open \subseteq Convs
  /\ updated \in [Convs -> Times]
  /\ step \in [Convs -> StepNames \cup {"none"}]
  /\ waiting \subseteq Drafted /\ acted \subseteq Drafted /\ stepped \subseteq Drafted
  /\ \A c \in Convs : step[c] \in HandledSteps => c \in stepped
  /\ checks \in [Convs -> SUBSET Check]

ScanTyped ==
  /\ scan \in [pc : {"idle", "load", "decide", "record"}, began : Times,
               load : Seq(Scope), decide : Seq(Decision)]
  /\ scan.pc = "idle" => scan = NoScan
  /\ scan.pc = "load" => scan.load # << >>
  /\ scan.pc \in {"decide", "record"} => scan.load = << >> /\ scan.decide # << >>
  /\ scan.pc = "record" => Current.verdict = "due"

\* Nothing is dated in the future, and there is a latest mail and a latest check.
TimelineKnown ==
  \A c \in Convs :
    /\ IsFiniteSet(items[c])
    /\ \A i \in items[c] : i.at <= now
    /\ \E i \in Of(items[c], {"customer"}) : \A j \in Of(items[c], {"customer"}) : j.at <= i.at
    /\ \A k \in checks[c] : k.at <= now /\ k.message <= now
    /\ checks[c] # {} => \E k \in checks[c] : \A j \in checks[c] : j.at <= k.at

-----------------------------------------------------------------------------
(* The latest mail and the latest check.                                      *)

LEMMA TimesAreNumbers == Times \subseteq Nat
BY TimelineAssumption DEF Times

LEMMA LatestIs ==
  ASSUME NEW S, NEW i \in S, \A j \in S : j.at \in Nat, \A j \in S : j.at <= i.at
  PROVE  Latest(S) \in S /\ Latest(S).at = i.at
<1> DEFINE top == CHOOSE k \in S : \A j \in S : j.at <= k.at
<1>1. top \in S /\ \A j \in S : j.at <= top.at
  OBVIOUS
<1>2. top.at <= i.at /\ i.at <= top.at /\ top.at \in Nat /\ i.at \in Nat
  BY <1>1
<1>3. QED
  BY <1>1, <1>2 DEF Latest

LEMMA MailIs ==
  ASSUME NEW T \in SUBSET Item, NEW i \in T, i.kind = "customer",
         \A j \in T : j.kind = "customer" => j.at <= i.at
  PROVE  LatestMail(T) = i.at
<1> DEFINE S == Of(T, {"customer"})
<1>1. i \in S /\ \A j \in S : j.at \in Nat /\ j.at <= i.at
  BY TimesAreNumbers DEF Of, Item
<1>2. Latest(S).at = i.at
  BY <1>1, LatestIs
<1>3. QED
  BY <1>2 DEF LatestMail

\* The latest mail of a conversation is one of its mails, and no later than now.
LEMMA MailKnown ==
  ASSUME TimelineTyped, TimelineKnown, NEW c \in Convs
  PROVE  /\ LatestMail(items[c]) \in Times /\ LatestMail(items[c]) <= now
         /\ \E i \in items[c] : i.kind = "customer" /\ i.at = LatestMail(items[c])
         /\ \A j \in items[c] : j.kind = "customer" => j.at <= LatestMail(items[c])
<1>1. PICK i \in Of(items[c], {"customer"}) : \A j \in Of(items[c], {"customer"}) : j.at <= i.at
  BY DEF TimelineKnown
<1>2. items[c] \in SUBSET Item /\ i \in items[c] /\ i.kind = "customer"
      /\ \A j \in items[c] : j.kind = "customer" => j.at <= i.at
  BY <1>1 DEF Of, TimelineTyped
<1>3. LatestMail(items[c]) = i.at
  BY <1>2, MailIs
<1>4. i.at \in Times /\ i.at <= now
  BY <1>2 DEF Item, TimelineKnown
<1>5. QED
  BY <1>2, <1>3, <1>4

LEMMA MailKnownNext ==
  ASSUME TimelineTyped', TimelineKnown', NEW c \in Convs
  PROVE  /\ LatestMail(items'[c]) \in Times /\ LatestMail(items'[c]) <= now'
         /\ \A j \in items'[c] : j.kind = "customer" => j.at <= LatestMail(items'[c])
<1>1. PICK i \in Of(items'[c], {"customer"}) : \A j \in Of(items'[c], {"customer"}) : j.at <= i.at
  BY DEF TimelineKnown
<1>2. items'[c] \in SUBSET Item /\ i \in items'[c] /\ i.kind = "customer"
      /\ \A j \in items'[c] : j.kind = "customer" => j.at <= i.at
  BY <1>1 DEF Of, TimelineTyped
<1>3. LatestMail(items'[c]) = i.at
  BY <1>2, MailIs
<1>4. i.at \in Times /\ i.at <= now'
  BY <1>2 DEF Item, TimelineKnown
<1>5. QED
  BY <1>2, <1>3, <1>4

\* What is dated is dated no later than now, in numbers.
LEMMA ItemsKnown ==
  ASSUME TimelineTyped, TimelineKnown, NEW c \in Convs
  PROVE  /\ items[c] \subseteq Item /\ checks[c] \subseteq Check
         /\ \A i \in items[c] : i.at <= now /\ i.at \in Nat
         /\ \A k \in checks[c] : /\ k.at <= now /\ k.at \in Nat
                                 /\ k.message <= now /\ k.message \in Nat
<1>1. items[c] \subseteq Item /\ checks[c] \subseteq Check
  BY DEF TimelineTyped
<1>2. \A i \in Item : i.at \in Nat
  BY TimesAreNumbers DEF Item
<1>3. \A k \in Check : k.at \in Nat /\ k.message \in Nat
  BY TimesAreNumbers DEF Check
<1>4. /\ \A i \in items[c] : i.at <= now
      /\ \A k \in checks[c] : k.at <= now /\ k.message <= now
  BY DEF TimelineKnown
<1>5. QED
  BY <1>1, <1>2, <1>3, <1>4

-----------------------------------------------------------------------------
(* The first page.                                                            *)

\* Whatever is newer than an item of the first page is on it.
LEMMA NewerIsOnPage ==
  ASSUME TimelineTyped, TimelineKnown, NEW c \in Convs, NEW i \in FirstPage(c),
         NEW j \in items[c], SameList(i, j), i.at <= j.at
  PROVE  j \in FirstPage(c)
<1>1. i \in items[c] /\ \A k \in items[c] : k.at \in Nat
  BY ItemsKnown DEF FirstPage
<1>2. Newer(c, j) \subseteq Newer(c, i) /\ Newer(c, i) \subseteq items[c]
  BY <1>1 DEF Newer, SameList
<1>3. IsFiniteSet(Newer(c, i)) /\ IsFiniteSet(items[c])
  BY <1>2, FS_Subset DEF TimelineKnown
<1>4. Cardinality(Newer(c, j)) <= Cardinality(Newer(c, i))
      /\ Cardinality(Newer(c, i)) \in Nat /\ Cardinality(Newer(c, j)) \in Nat
  BY <1>2, <1>3, FS_Subset, FS_CardinalityType
<1>5. Cardinality(Newer(c, i)) < PageSize /\ PageSize \in Nat
  BY TimelineAssumption DEF FirstPage
<1>6. Cardinality(Newer(c, j)) < PageSize
  BY <1>4, <1>5
<1>7. QED
  BY <1>6 DEF FirstPage

\* What is off the first page stays off.
LEMMA PageMovesOn ==
  ASSUME TimelineTyped, TimelineKnown, TimelineKnown', NEW c \in Convs,
         items[c] \subseteq items'[c], NEW i \in items[c], i \notin FirstPage(c)
  PROVE  i \notin FirstPage(c)'
<1>1. Newer(c, i) \subseteq Newer(c, i)' /\ Newer(c, i)' \subseteq items'[c]
  BY DEF Newer
<1>2. IsFiniteSet(Newer(c, i)')
  BY <1>1, FS_Subset DEF TimelineKnown
<1>3. /\ Cardinality(Newer(c, i)) <= Cardinality(Newer(c, i)')
      /\ Cardinality(Newer(c, i)) \in Nat /\ Cardinality(Newer(c, i)') \in Nat
  BY <1>1, <1>2, FS_Subset, FS_CardinalityType
<1>4. ~(Cardinality(Newer(c, i)) < PageSize) /\ PageSize \in Nat
  BY TimelineAssumption DEF FirstPage
<1>5. ~(Cardinality(Newer(c, i)') < PageSize)
  BY <1>3, <1>4
<1>6. QED
  BY <1>5 DEF FirstPage

\* The first page shows no mail of the customer.
NoMail(c) == \A i \in FirstPage(c) : i.kind # "customer"

LEMMA NoMailIs ==
  ASSUME NEW c
  PROVE  HasMail(FirstPage(c)) <=> ~NoMail(c)
BY DEF HasMail, NoMail, Of

\* If it shows one, it shows the latest.
LEMMA PageMail ==
  ASSUME TimelineTyped, TimelineKnown, NEW c \in Convs, ~NoMail(c)
  PROVE  LatestMail(FirstPage(c)) = LatestMail(items[c])
<1>1. PICK p \in FirstPage(c) : p.kind = "customer"
  BY DEF NoMail
<1>2. PICK i \in items[c] : i.kind = "customer" /\ i.at = LatestMail(items[c])
  BY MailKnown
<1>3. \A j \in items[c] : j.kind = "customer" => j.at <= i.at
  BY <1>2, MailKnown
<1>4. FirstPage(c) \subseteq items[c] /\ items[c] \subseteq Item
  BY ItemsKnown DEF FirstPage
<1>5. i \in FirstPage(c)
  BY <1>1, <1>2, <1>3, <1>4, NewerIsOnPage DEF SameList
<1>6. QED
  BY <1>2, <1>3, <1>4, <1>5, MailIs

-----------------------------------------------------------------------------
(* What one step may do to the timelines.                                     *)

\* The steps of people and of the clock.
Peopled == (People \/ Tick) /\ UNCHANGED <<reminderVars, adoptionVars>>

\* A check is recorded.
Recorded ==
  /\ \E c \in Convs, m \in Times :
       /\ m <= now
       /\ checks' = [checks EXCEPT ![c] = @ \cup {[message |-> m, at |-> now]}]
  /\ UNCHANGED <<now, events, items, open, updated, rows, faults>>

Quiet == UNCHANGED <<now, events, items, open, updated, rows, checks>>

\* Somebody changes a conversation.
LEMMA PeopleMove ==
  ASSUME TimelineTyped, TimelineKnown, Peopled, NEW c \in Convs
  PROVE  /\ now' \in Times /\ now' \in {now, now + 1} /\ checks' = checks /\ faults' = faults
         /\ events' \in 0..MaxEvents
         /\ \/ items'[c] = items[c]
            \/ /\ now' = now + 1 /\ updated'[c] = now + 1
               /\ \E kind \in ItemKinds :
                    items'[c] = items[c] \cup {[kind |-> kind, at |-> now + 1]}
         /\ updated'[c] = updated[c] \/ (updated'[c] = now + 1 /\ now' = now + 1)
         /\ step'[c] \in StepNames \cup {"none"} /\ waiting' \subseteq Drafted
         /\ acted \subseteq acted' /\ acted' \subseteq Drafted
         /\ stepped \subseteq stepped' /\ stepped' \subseteq Drafted
         /\ step'[c] \in HandledSteps => c \in stepped'
<1>1. now \in Nat /\ events \in Nat /\ MaxTime \in Nat /\ MaxEvents \in Nat
      /\ events <= MaxEvents /\ now <= MaxTime
  BY TimelineAssumption DEF TimelineTyped, Times
<1>2. ASSUME NEW d \in Convs, Change(d)
      PROVE  /\ now' \in Times /\ now' = now + 1 /\ events' \in 0..MaxEvents
             /\ updated'[c] = updated[c] \/ updated'[c] = now + 1
             /\ updated'[d] = now + 1
  BY <1>1, <1>2 DEF Change, Times, TimelineTyped
<1>3. ASSUME NEW d \in Convs, Write(d)
      PROVE  /\ checks' = checks /\ faults' = faults /\ UNCHANGED rows
             /\ \/ items'[c] = items[c]
                \/ /\ c = d
                   /\ \E kind \in ItemKinds :
                        items'[c] = items[c] \cup {[kind |-> kind, at |-> now + 1]}
  <2>1. PICK kind \in Kinds :
          items' = [items EXCEPT ![d] = @ \cup {[kind |-> kind, at |-> now + 1]}]
    BY <1>3 DEF Write
  <2>2. kind \in ItemKinds
    BY TimelineAssumption
  <2>3. QED
    BY <1>3, <2>1, <2>2 DEF Write, TimelineTyped
<1>4. UNCHANGED rows =>
        /\ step'[c] \in StepNames \cup {"none"} /\ waiting' \subseteq Drafted
        /\ acted \subseteq acted' /\ acted' \subseteq Drafted
        /\ stepped \subseteq stepped' /\ stepped' \subseteq Drafted
        /\ step'[c] \in HandledSteps => c \in stepped'
  BY DEF rows, TimelineTyped
<1>5. CASE \E d \in Convs : Write(d)
  BY <1>2, <1>3, <1>4, <1>5 DEF Write
<1>6. CASE \E d \in Convs : Archive(d)
  BY <1>2, <1>4, <1>6 DEF Archive
<1>7. ASSUME NEW d \in Convs, RecordAction(d) \/ SaveState(d)
      PROVE  /\ events' \in 0..MaxEvents
             /\ UNCHANGED <<now, items, updated, checks, faults>>
             /\ waiting' \subseteq Drafted
             /\ acted \subseteq acted' /\ acted' \subseteq Drafted
             /\ stepped \subseteq stepped' /\ stepped' \subseteq Drafted
             /\ step'[c] \in StepNames \cup {"none"}
             /\ step'[c] \in HandledSteps => c \in stepped'
  <2>1. CASE RecordAction(d)
    BY <1>1, <2>1 DEF RecordAction, TimelineTyped
  <2>2. CASE SaveState(d)
    <3>1. PICK new \in Steps :
            /\ step' = [step EXCEPT ![d] = new]
            /\ stepped' = IF new \in HandledSteps THEN stepped \cup {d} ELSE stepped
      BY <2>2 DEF SaveState
    <3>2. new \in StepNames
      BY TimelineAssumption
    <3>3. /\ events' \in 0..MaxEvents /\ waiting' \subseteq Drafted
          /\ UNCHANGED <<now, items, updated, checks, faults, acted>> /\ d \in Drafted
      BY <1>1, <2>2 DEF SaveState, TimelineTyped
    <3>4. QED
      BY <3>1, <3>2, <3>3 DEF TimelineTyped
  <2>3. QED
    BY <1>7, <2>1, <2>2
<1>8. CASE \E d \in Convs : RecordAction(d) \/ SaveState(d)
  BY <1>1, <1>7, <1>8 DEF TimelineTyped
<1>9. CASE Tick
  BY <1>1, <1>4, <1>9 DEF Tick, Times, TimelineTyped
<1>10. QED
  BY <1>5, <1>6, <1>8, <1>9 DEF Peopled, People

LEMMA PeopleTyped ==
  ASSUME TimelineTyped, TimelineKnown, Peopled
  PROVE  TimelineTyped' /\ TimelineKnown'
<1>1. now \in Nat /\ \A t \in Times : t \in Nat
  BY TimesAreNumbers DEF TimelineTyped
<1>2. /\ now' \in Times /\ now' \in {now, now + 1} /\ checks' = checks /\ faults' = faults
      /\ events' \in 0..MaxEvents
  BY TimelineAssumption, PeopleMove
<1>3. ASSUME NEW c \in Convs
      PROVE  items'[c] \subseteq Item /\ IsFiniteSet(items'[c]) /\ \A i \in items'[c] : i.at <= now'
  <2>1. items[c] \subseteq Item /\ IsFiniteSet(items[c])
        /\ \A i \in items[c] : i.at <= now /\ i.at \in Nat
    BY ItemsKnown DEF TimelineKnown
  <2>2. CASE items'[c] = items[c]
    BY <1>1, <1>2, <2>1, <2>2
  <2>3. ASSUME NEW kind \in ItemKinds, now' = now + 1,
               items'[c] = items[c] \cup {[kind |-> kind, at |-> now + 1]}
        PROVE  items'[c] \subseteq Item /\ IsFiniteSet(items'[c]) /\ \A i \in items'[c] : i.at <= now'
    <3>1. [kind |-> kind, at |-> now + 1] \in Item
      BY <1>2, <2>3 DEF Item
    <3>2. IsFiniteSet(items'[c])
      <4>1. ASSUME NEW x PROVE IsFiniteSet(items[c] \cup {x})
        BY <2>1, FS_AddElement
      <4>2. QED
        BY <2>3, <4>1
    <3>3. QED
      BY <1>1, <2>1, <2>3, <3>1, <3>2
  <2>4. QED
    BY <2>2, <2>3, PeopleMove
<1>4. ASSUME NEW c \in Convs
      PROVE  \E i \in Of(items'[c], {"customer"}) : \A j \in Of(items'[c], {"customer"}) : j.at <= i.at
  <2>1. PICK i \in Of(items[c], {"customer"}) : \A j \in Of(items[c], {"customer"}) : j.at <= i.at
    BY DEF TimelineKnown
  <2>2. \A j \in items[c] : j.at <= now /\ j.at \in Nat
    BY ItemsKnown
  <2>3. CASE items'[c] = items[c]
    BY <2>1, <2>3
  <2>4. ASSUME NEW kind \in ItemKinds,
               items'[c] = items[c] \cup {[kind |-> kind, at |-> now + 1]}
        PROVE  \E k \in Of(items'[c], {"customer"}) : \A j \in Of(items'[c], {"customer"}) : j.at <= k.at
    <3> DEFINE new == [kind |-> kind, at |-> now + 1]
    <3>1. CASE kind = "customer"
      <4>1. new \in Of(items'[c], {"customer"})
        BY <2>4, <3>1 DEF Of
      <4>2. \A j \in Of(items'[c], {"customer"}) : j.at <= new.at
        BY <1>1, <2>2, <2>4 DEF Of
      <4>3. QED
        BY <4>1, <4>2
    <3>2. CASE kind # "customer"
      <4>1. Of(items'[c], {"customer"}) = Of(items[c], {"customer"})
        BY <2>4, <3>2 DEF Of
      <4>2. QED
        BY <2>1, <4>1
    <3>3. QED
      BY <3>1, <3>2
  <2>5. QED
    BY <2>3, <2>4, PeopleMove
<1>5. TimelineKnown'
  <2>1. \A c \in Convs : \A k \in checks[c] : k.at <= now' /\ k.message <= now'
    <3>1. TAKE c \in Convs
    <3>2. TAKE k \in checks[c]
    <3>3. k.at <= now /\ k.at \in Nat /\ k.message <= now /\ k.message \in Nat
      BY ItemsKnown
    <3>4. QED
      BY <1>1, <1>2, <3>3
  <2>2. QED
    BY <1>2, <1>3, <1>4, <2>1 DEF TimelineKnown
<1>6. /\ items' \in [Convs -> SUBSET Item]
      /\ updated' \in [Convs -> Times]
      /\ step' \in [Convs -> StepNames \cup {"none"}]
      /\ waiting' \subseteq Drafted /\ acted' \subseteq Drafted /\ stepped' \subseteq Drafted
      /\ \A c \in Convs : step'[c] \in HandledSteps => c \in stepped'
      /\ open' \subseteq Convs
  <2>1. /\ \A c \in Convs : /\ updated'[c] \in Times /\ step'[c] \in StepNames \cup {"none"}
                            /\ step'[c] \in HandledSteps => c \in stepped'
        /\ waiting' \subseteq Drafted /\ acted' \subseteq Drafted /\ stepped' \subseteq Drafted
    BY <1>2, TimelineAssumption, PeopleMove DEF TimelineTyped
  <2>2. /\ DOMAIN items' = Convs /\ items' = [c \in Convs |-> items'[c]]
        /\ DOMAIN updated' = Convs /\ updated' = [c \in Convs |-> updated'[c]]
        /\ DOMAIN step' = Convs /\ step' = [c \in Convs |-> step'[c]]
        /\ open' \subseteq Convs
    BY DEF Peopled, People, Write, Archive, RecordAction, SaveState, Tick, Change, TimelineTyped, rows
  <2>3. items' \in [Convs -> SUBSET Item]
    <3>1. \A c \in Convs : items'[c] \in SUBSET Item
      BY <1>3
    <3>2. QED
      BY <2>2, <3>1
  <2>4. updated' \in [Convs -> Times]
    <3>1. \A c \in Convs : updated'[c] \in Times
      BY <2>1
    <3>2. DOMAIN updated' = Convs /\ updated' = [c \in Convs |-> updated'[c]]
      BY <2>2
    <3>3. QED
      BY <3>1, <3>2
  <2>5. step' \in [Convs -> StepNames \cup {"none"}]
    <3>1. \A c \in Convs : step'[c] \in StepNames \cup {"none"}
      BY <2>1
    <3>2. DOMAIN step' = Convs /\ step' = [c \in Convs |-> step'[c]]
      BY <2>2
    <3>3. QED
      BY <3>1, <3>2
  <2>6. QED
    BY <2>1, <2>2, <2>3, <2>4, <2>5
<1>7. QED
  BY <1>2, <1>5, <1>6 DEF TimelineTyped

LEMMA RecordTyped ==
  ASSUME TimelineTyped, TimelineKnown, Recorded
  PROVE  TimelineTyped' /\ TimelineKnown'
<1> PICK c \in Convs, m \in Times :
      m <= now /\ checks' = [checks EXCEPT ![c] = @ \cup {[message |-> m, at |-> now]}]
  BY DEF Recorded
<1> DEFINE new == [message |-> m, at |-> now]
<1>1. UNCHANGED <<now, events, items, open, updated, step, waiting, acted, stepped, faults>>
      /\ now \in Nat
  BY TimesAreNumbers DEF Recorded, TimelineTyped, rows
<1>2. new \in Check /\ checks'[c] = checks[c] \cup {new}
      /\ \A d \in Convs \ {c} : checks'[d] = checks[d]
  BY DEF TimelineTyped, Check
<1>3. checks' \in [Convs -> SUBSET Check]
  BY <1>2 DEF TimelineTyped
<1>4. \A k \in checks[c] : k.at <= now
  BY DEF TimelineKnown
<1>5. \A k \in checks'[c] : k.at <= new.at /\ k.at <= now /\ k.message <= now
  BY <1>1, <1>2, <1>4 DEF TimelineKnown
<1>6. TimelineKnown'
  <2>1. \A d \in Convs : checks'[d] # {} => \E k \in checks'[d] : \A j \in checks'[d] : j.at <= k.at
    BY <1>2, <1>5 DEF TimelineKnown
  <2>2. QED
    BY <1>1, <1>2, <1>5, <2>1 DEF TimelineKnown
<1>7. QED
  BY <1>1, <1>3, <1>6 DEF TimelineTyped

\* The timelines only grow: a later mail of the customer, or none, and what
\* handled a mail keeps handling it.
LEMMA Grows ==
  ASSUME TimelineTyped, TimelineKnown, TimelineTyped', TimelineKnown',
         Peopled \/ Recorded \/ Quiet, NEW c \in Convs
  PROVE  /\ now \in Nat /\ now' \in Nat /\ now <= now'
         /\ items[c] \subseteq items'[c] /\ checks[c] \subseteq checks'[c]
         /\ \/ LatestMail(items'[c]) = LatestMail(items[c])
            \/ LatestMail(items'[c]) > now
         /\ LatestMail(items'[c]) = LatestMail(items[c]) /\ Handled(items[c]) => Handled(items'[c])
         /\ acted \subseteq acted' /\ stepped \subseteq stepped'
         /\ \A i \in items'[c] \ items[c] : i.at > now
<1>1. now \in Nat /\ now' \in Nat
  BY TimesAreNumbers DEF TimelineTyped
<1>2. now <= now' /\ items[c] \subseteq items'[c] /\ checks[c] \subseteq checks'[c]
  <2>1. CASE Peopled
    BY <1>1, <2>1, PeopleMove
  <2>2. CASE Recorded
    BY <1>1, <2>2 DEF Recorded, TimelineTyped
  <2>3. CASE Quiet
    BY <1>1, <2>3 DEF Quiet
  <2>4. QED
    BY <2>1, <2>2, <2>3
<1>3. /\ acted \subseteq acted' /\ stepped \subseteq stepped'
      /\ \A i \in items'[c] \ items[c] : i.at > now
  <2>1. CASE Peopled
    <3>1. ASSUME NEW kind \in ItemKinds, items'[c] = items[c] \cup {[kind |-> kind, at |-> now + 1]}
          PROVE  \A i \in items'[c] \ items[c] : i.at > now
      BY <1>1, <3>1
    <3>2. \A i \in items'[c] \ items[c] : i.at > now
      BY <2>1, <3>1, PeopleMove
    <3>3. QED
      BY <2>1, <3>2, PeopleMove
  <2>2. CASE Recorded \/ Quiet
    BY <2>2 DEF Recorded, Quiet, rows
  <2>3. QED
    BY <2>1, <2>2
<1>4. \/ LatestMail(items'[c]) = LatestMail(items[c])
      \/ LatestMail(items'[c]) > now
  <2>1. CASE items'[c] = items[c]
    BY <2>1
  <2>2. ASSUME NEW kind \in ItemKinds, items'[c] = items[c] \cup {[kind |-> kind, at |-> now + 1]}
        PROVE  \/ LatestMail(items'[c]) = LatestMail(items[c])
               \/ LatestMail(items'[c]) > now
    <3> DEFINE new == [kind |-> kind, at |-> now + 1]
    <3>1. CASE kind = "customer"
      <4>1. LatestMail(items'[c]) \in Nat /\ now + 1 <= LatestMail(items'[c])
        <5>1. \A j \in items'[c] : j.kind = "customer" => j.at <= LatestMail(items'[c])
          BY MailKnownNext
        <5>2. new \in items'[c] /\ new.kind = "customer" /\ new.at = now + 1
          BY <2>2, <3>1
        <5>3. QED
          BY <5>1, <5>2, MailKnownNext, TimesAreNumbers
      <4>2. QED
        BY <1>1, <4>1
    <3>2. CASE kind # "customer"
      <4>1. Of(items'[c], {"customer"}) = Of(items[c], {"customer"})
        BY <2>2, <3>2 DEF Of
      <4>2. QED
        BY <4>1 DEF LatestMail
    <3>3. QED
      BY <3>1, <3>2
  <2>3. QED
    BY <2>1, <2>2, PeopleMove DEF Recorded, Quiet
<1>5. LatestMail(items'[c]) = LatestMail(items[c]) /\ Handled(items[c]) => Handled(items'[c])
  BY <1>2 DEF Handled, Of
<1>6. QED
  BY <1>1, <1>2, <1>3, <1>4, <1>5

\* A first page without a mail of the customer stays so until he writes again.
LEMMA NoMailStays ==
  ASSUME TimelineTyped, TimelineKnown, TimelineTyped', TimelineKnown',
         Peopled \/ Recorded \/ Quiet, NEW c \in Convs,
         NoMail(c), LatestMail(items'[c]) = LatestMail(items[c])
  PROVE  NoMail(c)'
<1>1. /\ now \in Nat /\ items[c] \subseteq items'[c]
      /\ \A i \in items'[c] \ items[c] : i.at > now
  BY Grows
<1>2. SUFFICES ASSUME NEW i \in items'[c], i \in FirstPage(c)', i.kind = "customer" PROVE FALSE
  BY DEF NoMail, FirstPage
<1>3. CASE i \in items[c]
  <2>1. i \notin FirstPage(c)
    BY <1>2 DEF NoMail
  <2>2. QED
    BY <1>1, <1>2, <1>3, <2>1, PageMovesOn
<1>4. CASE i \notin items[c]
  <2>1. i.at > now /\ i.at <= LatestMail(items'[c]) /\ LatestMail(items[c]) <= now
    BY <1>1, <1>2, <1>4, MailKnown, MailKnownNext
  <2>2. i.at \in Nat /\ LatestMail(items[c]) \in Nat
    <3>1. items'[c] \subseteq Item
      BY DEF TimelineTyped
    <3>2. i.at \in Times
      BY <3>1 DEF Item
    <3>3. QED
      BY <3>2, MailKnown, TimesAreNumbers
  <2>3. QED
    BY <1>1, <2>1, <2>2
<1>5. QED
  BY <1>3, <1>4
-----------------------------------------------------------------------------
(* Sequences: what the scan takes from its lists.                             *)

LEMMA EmptyIsShort ==
  ASSUME NEW S, NEW s \in Seq(S)
  PROVE  s = << >> <=> Len(s) = 0
<1>1. s # << >> => Len(s) \in Nat \ {0}
  BY EmptySeq
<1>2. Len(<< >>) = 0
  BY EmptySeq
<1>3. QED
  BY <1>1, <1>2

LEMMA TakeHead ==
  ASSUME NEW S, NEW s \in Seq(S), s # << >>
  PROVE  /\ Len(s) \in Nat \ {0} /\ Head(s) \in S /\ Tail(s) \in Seq(S)
         /\ Len(s) = 1 => Tail(s) = << >>
         /\ Len(s) > 1 => Tail(s) # << >>
         /\ ToSet(s) = {Head(s)} \cup ToSet(Tail(s))
<1>1. Len(s) \in Nat \ {0} /\ DOMAIN s = 1..Len(s) /\ Head(s) = s[1]
  BY EmptySeq, LenProperties
<1>2. /\ Head(s) \in S /\ Tail(s) \in Seq(S) /\ Len(Tail(s)) = Len(s) - 1
      /\ \A i \in 1..Len(Tail(s)) : Tail(s)[i] = s[i + 1]
  BY HeadTailProperties
<1>3. DOMAIN Tail(s) = 1..(Len(s) - 1)
  BY <1>2, LenProperties
<1>4. Tail(s) = << >> <=> Len(Tail(s)) = 0
  <2>1. Tail(s) \in Seq(S)
    BY <1>2
  <2>2. QED
    BY <2>1, EmptyIsShort
<1>5. Tail(s) = << >> <=> Len(s) = 1
  BY <1>1, <1>2, <1>4
<1>6. \A i \in DOMAIN s : s[i] = Head(s) \/ s[i] \in ToSet(Tail(s))
  <2>1. SUFFICES ASSUME NEW i \in DOMAIN s, i # 1 PROVE s[i] \in ToSet(Tail(s))
    BY <1>1
  <2>2. i - 1 \in 1..(Len(s) - 1) /\ i = (i - 1) + 1
    BY <1>1, <2>1
  <2>3. Tail(s)[i - 1] = s[i]
    BY <1>2, <2>2
  <2>4. QED
    BY <1>3, <2>2, <2>3 DEF ToSet
<1>7. \A i \in DOMAIN Tail(s) : Tail(s)[i] \in ToSet(s)
  <2>1. TAKE i \in DOMAIN Tail(s)
  <2>2. i + 1 \in DOMAIN s /\ Tail(s)[i] = s[i + 1]
    BY <1>1, <1>2, <1>3
  <2>3. QED
    BY <2>2 DEF ToSet
<1>8. Head(s) \in ToSet(s)
  BY <1>1 DEF ToSet
<1>9. ToSet(s) = {Head(s)} \cup ToSet(Tail(s))
  <2>1. ToSet(s) \subseteq {Head(s)} \cup ToSet(Tail(s))
    BY <1>6 DEF ToSet
  <2>2. ToSet(Tail(s)) \subseteq ToSet(s)
    BY <1>7 DEF ToSet
  <2>3. QED
    BY <1>8, <2>1, <2>2
<1>10. Len(s) > 1 => Len(s) # 1
  OBVIOUS
<1>11. QED
  BY <1>1, <1>2, <1>5, <1>9, <1>10

LEMMA AddLast ==
  ASSUME NEW S, NEW s \in Seq(S), NEW e \in S
  PROVE  /\ Append(s, e) \in Seq(S) /\ Append(s, e) # << >>
         /\ ToSet(Append(s, e)) = ToSet(s) \cup {e}
<1>1. /\ Append(s, e) \in Seq(S) /\ Append(s, e) # << >> /\ Len(Append(s, e)) = Len(s) + 1
      /\ \A i \in 1..Len(s) : Append(s, e)[i] = s[i]
      /\ Append(s, e)[Len(s) + 1] = e
  BY AppendProperties
<1>2. Len(s) \in Nat /\ DOMAIN s = 1..Len(s) /\ DOMAIN Append(s, e) = 1..(Len(s) + 1)
  BY <1>1, LenProperties
<1>3. DOMAIN Append(s, e) = DOMAIN s \cup {Len(s) + 1}
  BY <1>2
<1>4. \A i \in DOMAIN s : Append(s, e)[i] = s[i]
  BY <1>1, <1>2
<1>5. QED
  BY <1>1, <1>3, <1>4 DEF ToSet

LEMMA NothingInEmpty == ToSet(<< >>) = {}
<1>1. DOMAIN << >> = {}
  BY EmptySeq
<1>2. QED
  BY <1>1 DEF ToSet

LEMMA InSequence ==
  ASSUME NEW S, NEW s \in Seq(S)
  PROVE  ToSet(s) \subseteq S
BY LenProperties DEF ToSet

\* What a search may choose to look at.
LEMMA CandidatesAreFound ==
  ASSUME NEW found \in SUBSET Convs, NEW load \in Candidates(found)
  PROVE  load \in Seq(found) /\ ToSet(load) \subseteq found
<1> DEFINE fresh == {c \in found \cap open : ~CheckedSinceUpdate(c)}
           size == Cardinality(fresh)
<1>1. IsFiniteSet(fresh) /\ size \in Nat
  BY TimelineAssumption, FS_Subset, FS_CardinalityType
<1>2. PICK s \in SetToSeqs(fresh) :
        load = SubSeq(s, 1, IF Len(s) > ScanLimit THEN ScanLimit ELSE Len(s))
  BY DEF Candidates
<1>3. s \in [1..size -> fresh]
  BY <1>2 DEF SetToSeqs
<1>4. s \in Seq(fresh) /\ Len(s) = size
  <2> HIDE DEF fresh, size
  <2>1. QED
    BY <1>1, <1>3
<1> DEFINE last == IF Len(s) > ScanLimit THEN ScanLimit ELSE Len(s)
<1>5. last \in Int /\ last <= size
  BY <1>1, <1>4, ReminderAssumption
<1>6. \A i \in 1..last : s[i] \in found
  BY <1>1, <1>3, <1>5
<1>7. SubSeq(s, 1, last) \in Seq(found)
  <2> HIDE DEF last
  <2>1. QED
    BY <1>5, <1>6, SubSeqProperties
<1>8. QED
  BY <1>2, <1>7, InSequence

-----------------------------------------------------------------------------
(* How the scan moves.                                                        *)

LEMMA ScanParts ==
  ASSUME ScanTyped
  PROVE  /\ scan.pc \in {"idle", "load", "decide", "record"} /\ scan.began \in Times
         /\ scan.load \in Seq(Scope) /\ scan.decide \in Seq(Decision)
         /\ scan = [pc |-> scan.pc, began |-> scan.began, load |-> scan.load, decide |-> scan.decide]
         /\ scan.pc # "idle" => scan # NoScan
BY DEF ScanTyped, NoScan

LEMMA IdleTyped == scan' = NoScan => ScanTyped'
BY TimelineAssumption, EmptySeq DEF ScanTyped, NoScan, Times

\* The scan is done with its current decision.
LEMMA NextMove ==
  ASSUME ScanTyped, scan.pc \in {"decide", "record"}, NextConversation
  PROVE  /\ ScanTyped' /\ scan'.pc \in {"idle", "decide"} /\ scan'.load = << >>
         /\ Current \in Decision /\ Current \in ToSet(scan.decide)
         /\ ToSet(scan.decide) = {Current} \cup ToSet(scan'.decide)
<1>1. /\ scan.decide \in Seq(Decision) /\ scan.decide # << >> /\ scan.load = << >>
      /\ scan.began \in Times
  BY ScanParts DEF ScanTyped
<1>2. /\ Len(scan.decide) \in Nat \ {0} /\ Current \in Decision
      /\ Tail(scan.decide) \in Seq(Decision)
      /\ Len(scan.decide) = 1 => Tail(scan.decide) = << >>
      /\ Len(scan.decide) > 1 => Tail(scan.decide) # << >>
      /\ ToSet(scan.decide) = {Current} \cup ToSet(Tail(scan.decide))
  BY <1>1, TakeHead DEF Current
<1>3. CASE Len(scan.decide) = 1
  <2>1. scan' = NoScan
    BY <1>3 DEF NextConversation
  <2>2. scan'.pc = "idle" /\ scan'.load = << >> /\ scan'.decide = << >>
    BY <2>1 DEF NoScan
  <2>3. QED
    BY <1>2, <1>3, <2>1, <2>2, IdleTyped
<1>4. CASE Len(scan.decide) # 1
  <2>1. scan' = [pc |-> "decide", began |-> scan.began, load |-> << >>, decide |-> Tail(scan.decide)]
    BY <1>1, <1>4, ScanParts DEF NextConversation
  <2>2. Tail(scan.decide) # << >>
    <3>1. \A n \in Nat \ {0} : n # 1 => n > 1
      OBVIOUS
    <3>2. QED
      BY <1>2, <1>4, <3>1
  <2>3. ScanTyped'
    BY <1>1, <1>2, <2>1, <2>2, EmptySeq DEF ScanTyped
  <2>4. QED
    BY <1>2, <2>1, <2>3
<1>5. QED
  BY <1>3, <1>4

\* What the scan makes of a timeline it has just loaded.
Reading(c) ==
  [conv |-> c, message |-> LatestMail(FirstPage(c)), verdict |-> Verdict(FirstPage(c), scan.began)]

LEMMA LoadMove ==
  ASSUME TimelineTyped, TimelineKnown, ScanTyped, Load
  PROVE  LET c == Head(scan.load) IN
         /\ ScanTyped' /\ c \in Scope
         /\ ToSet(scan.load) = {c} \cup ToSet(Tail(scan.load))
         /\ \/ scan'.pc = "load" /\ scan'.load = Tail(scan.load) /\ scan'.began = scan.began
            \/ /\ scan'.pc \in {"idle", "decide"} /\ scan'.load = << >>
               /\ Tail(scan.load) = << >>
         /\ \/ /\ faults' = faults /\ ~NoMail(c) /\ Reading(c) \in Decision
               /\ ToSet(scan'.decide) = ToSet(scan.decide) \cup {Reading(c)}
            \/ /\ (NoMail(c) /\ faults' = faults) \/ Fault
               /\ ToSet(scan'.decide) = ToSet(scan.decide)
<1> DEFINE c == Head(scan.load)
<1>1. /\ scan.pc = "load" /\ scan.load \in Seq(Scope) /\ scan.load # << >>
      /\ scan.decide \in Seq(Decision) /\ scan.began \in Times
  BY ScanParts DEF Load, ScanTyped
<1>2. /\ Len(scan.load) \in Nat \ {0} /\ c \in Scope /\ Tail(scan.load) \in Seq(Scope)
      /\ Len(scan.load) = 1 => Tail(scan.load) = << >>
      /\ Len(scan.load) > 1 => Tail(scan.load) # << >>
      /\ ToSet(scan.load) = {c} \cup ToSet(Tail(scan.load))
  BY <1>1, TakeHead
<1>3. ~NoMail(c) => Reading(c) \in Decision
  <2>1. c \in Convs
    BY <1>2, ReminderAssumption DEF Scope
  <2>2. ASSUME ~NoMail(c)
        PROVE  LatestMail(FirstPage(c)) \in Times /\ Verdict(FirstPage(c), scan.began) \in Verdicts
    BY <2>1, <2>2, MailKnown, PageMail DEF Verdict, Verdicts
  <2>3. QED
    BY <1>2, <2>2 DEF Reading, Decision
<1>4. ASSUME NEW decide \in Seq(Decision), Loaded(decide)
      PROVE  /\ ScanTyped' /\ scan'.decide = decide
             /\ \/ scan'.pc = "load" /\ scan'.load = Tail(scan.load) /\ scan'.began = scan.began
                \/ /\ scan'.pc \in {"idle", "decide"} /\ scan'.load = << >>
                   /\ Tail(scan.load) = << >>
  <2>1. CASE Len(scan.load) > 1
    <3>1. scan' = [pc |-> "load", began |-> scan.began, load |-> Tail(scan.load), decide |-> decide]
      BY <1>1, <1>4, <2>1, ScanParts DEF Loaded
    <3>2. ScanTyped'
      BY <1>1, <1>2, <1>4, <2>1, <3>1 DEF ScanTyped
    <3>3. QED
      BY <3>1, <3>2
  <2>2. CASE ~(Len(scan.load) > 1) /\ decide = << >>
    <3>1. scan' = NoScan
      BY <1>4, <2>2 DEF Loaded
    <3>2. QED
      BY <1>2, <2>2, <3>1, IdleTyped DEF NoScan
  <2>3. CASE ~(Len(scan.load) > 1) /\ decide # << >>
    <3>1. scan' = [pc |-> "decide", began |-> 0, load |-> << >>, decide |-> decide]
      BY <1>4, <2>3 DEF Loaded, NoScan
    <3>2. 0 \in Times
      BY TimelineAssumption DEF Times
    <3>3. ScanTyped'
      BY <1>4, <2>3, <3>1, <3>2, EmptySeq DEF ScanTyped
    <3>4. QED
      BY <1>2, <2>3, <3>1, <3>3
  <2>4. QED
    BY <2>1, <2>2, <2>3
<1>5. CASE ~NoMail(c) /\ Loaded(Append(scan.decide, Reading(c))) /\ faults' = faults
  <2>1. /\ Append(scan.decide, Reading(c)) \in Seq(Decision)
        /\ ToSet(Append(scan.decide, Reading(c))) = ToSet(scan.decide) \cup {Reading(c)}
    BY <1>1, <1>3, <1>5, AddLast
  <2>2. QED
    BY <1>2, <1>3, <1>4, <1>5, <2>1
<1>6. CASE Loaded(scan.decide) /\ ((NoMail(c) /\ faults' = faults) \/ Fault)
  BY <1>1, <1>2, <1>4, <1>6
<1>7. QED
  BY <1>5, <1>6, NoMailIs DEF Load, Reading
-----------------------------------------------------------------------------
(* What the scan knows.                                                       *)

\* Nobody needs to be reminded of the mail of time m any more.
Closed(c, m) ==
  \/ m < StartAt
  \/ <<c, m>> \in reminded
  \/ LatestMail(items[c]) # m
  \/ Handled(items[c])
  \/ NoMail(c)

\* The scan and its checks are right about what needs no reminder.
DecisionsSound ==
  /\ scan.pc = "load" => scan.began <= now
  /\ \A d \in ToSet(scan.decide) :
       d.message <= now /\ (d.verdict = "settled" => Closed(d.conv, d.message))
  /\ scan.pc = "record" => <<Current.conv, Current.message>> \in reminded
ChecksSound == \A c \in Convs : \A k \in checks[c] : Closed(c, k.message)

\* As long as nothing failed: what was due when the scan chose its conversations
\* is closed, or the scan has still to load or to decide it.
OwedKept ==
  /\ owed \subseteq Convs \X Times
  /\ \A o \in owed : o[2] >= StartAt /\ o[2] <= now
  /\ faults = 0 /\ scan # NoScan => \A o \in owed :
       \/ Closed(o[1], o[2])
       \/ scan.pc = "load" /\ o[1] \in ToSet(scan.load) /\ o[2] + RemindAfter <= scan.began
       \/ \E d \in ToSet(scan.decide) : d.conv = o[1] /\ d.message = o[2] /\ d.verdict = "due"

\* As long as nothing failed: what was reminded of has a check, or gets one next.
NoLoss ==
  faults = 0 =>
    /\ ~repeated
    /\ \A c \in Convs, m \in Times : <<c, m>> \in reminded =>
         \/ \E k \in checks[c] : k.message = m
         \/ scan.pc = "record" /\ Current.conv = c /\ Current.message = m

\* A check no older than the conversation's last change is about its latest
\* mail, or came from an older timeline.  Where the search tells of the last
\* change this is what the skip relies on.
FreshChecks ==
  \A c \in Convs \ overlapped : \A k \in checks[c] :
    k.at >= updated[c] => k.message = LatestMail(items[c])

ScanInv ==
  /\ TimelineTyped /\ TimelineKnown /\ ScanTyped
  /\ DecisionsSound /\ ChecksSound /\ OwedKept /\ NoLoss /\ FreshChecks

-----------------------------------------------------------------------------
(* The kinds of steps.                                                        *)

\* A refresh works or fails, or nothing happens.
Elsewhere == Quiet /\ UNCHANGED reminderVars /\ (UNCHANGED faults \/ Fault)
\* The process is restarted.
Stopped == Quiet /\ Fault /\ scan' = NoScan /\ UNCHANGED history

LEMMA StepKinds ==
  ASSUME [Next]_vars
  PROVE  Peopled \/ Scan \/ Elsewhere \/ Stopped
<1>1. CASE (People \/ Tick) /\ UNCHANGED <<reminderVars, adoptionVars>>
  BY <1>1 DEF Peopled
<1>2. CASE RunScan
  BY <1>2 DEF RunScan
<1>3. ASSUME NEW r \in Refreshers, RunRefresh(r) PROVE Elsewhere
  BY <1>3 DEF RunRefresh, Start, StartRefresh, Begin, Refresh, LoadMessages, ReadEvidence,
     LoadComments, LoadStatus, Gather, WriteStatus, Unread, Elsewhere, Quiet, timelineVars, front
<1>4. ASSUME NEW r \in Refreshers, LoadFails(r), UNCHANGED reminderVars PROVE Elsewhere
  BY <1>4 DEF LoadFails, Elsewhere, Quiet, front
<1>5. CASE Crash
  BY <1>5 DEF Crash, Stopped, Quiet, front, history
<1>6. CASE UNCHANGED vars
  BY <1>6 DEF vars, timelineVars, front, reminderVars, history, Elsewhere, Quiet
<1>7. QED
  BY <1>1, <1>2, <1>3, <1>4, <1>5, <1>6 DEF Next

LEMMA CurrentIs ==
  ASSUME ScanTyped, scan.pc \in {"decide", "record"}
  PROVE  /\ Current \in ToSet(scan.decide) /\ Current.conv \in Convs
         /\ Current.message \in Times /\ Current.verdict \in Verdicts
         /\ scan # NoScan
<1>1. scan.decide \in Seq(Decision) /\ scan.decide # << >> /\ scan # NoScan
  BY ScanParts DEF ScanTyped
<1>2. Current \in Decision /\ Current \in ToSet(scan.decide)
  BY <1>1, TakeHead DEF Current
<1>3. QED
  BY <1>1, <1>2, ReminderAssumption DEF Decision, Scope

LEMMA FaultTyped ==
  ASSUME TimelineTyped, Fault
  PROVE  faults' \in 0..MaxFaults /\ faults' # 0
BY TimelineAssumption DEF TimelineTyped, Fault

LEMMA QuietTyped ==
  ASSUME TimelineTyped, TimelineKnown, Quiet, UNCHANGED faults \/ Fault
  PROVE  TimelineTyped' /\ TimelineKnown'
<1>1. faults' \in 0..MaxFaults
  BY FaultTyped DEF TimelineTyped
<1>2. QED
  BY <1>1 DEF Quiet, TimelineTyped, TimelineKnown, rows

\* What recording a check does.
LEMMA RecordMove ==
  ASSUME TimelineTyped, ScanTyped, DecisionsSound, scan.pc \in {"decide", "record"}, Record
  PROVE  \/ Recorded /\ NextConversation
         \/ Quiet /\ Fault /\ scan' = NoScan
<1>1. Current.conv \in Convs /\ Current.message \in Times /\ Current.message <= now
  BY CurrentIs DEF DecisionsSound
<1>2. QED
  BY <1>1 DEF Record, Recorded, Quiet, front

LEMMA ScanTimeline ==
  ASSUME TimelineTyped, ScanTyped, DecisionsSound, Scan
  PROVE  Recorded \/ (Quiet /\ (UNCHANGED faults \/ Fault))
<1>1. CASE Search \/ Load \/ Skip
  BY <1>1 DEF Search, Load, Skip, Quiet, front, timelineVars
<1>2. CASE Remind
  BY <1>2 DEF Remind, Quiet, front
<1>3. CASE Settle \/ RecordReminder
  BY <1>3, RecordMove DEF Settle, RecordReminder
<1>4. QED
  BY <1>1, <1>2, <1>3 DEF Scan

LEMMA TimelineStep ==
  ASSUME TimelineTyped, TimelineKnown, ScanTyped, DecisionsSound, [Next]_vars
  PROVE  TimelineTyped' /\ TimelineKnown' /\ (Peopled \/ Recorded \/ Quiet)
<1>1. \/ Peopled \/ Recorded
      \/ Quiet /\ (UNCHANGED faults \/ Fault)
  BY StepKinds, ScanTimeline DEF Elsewhere, Stopped
<1>2. QED
  BY <1>1, PeopleTyped, RecordTyped, QuietTyped

LEMMA ScanTypedStep ==
  ASSUME TimelineTyped, TimelineKnown, ScanTyped, [Next]_vars
  PROVE  ScanTyped'
<1>1. CASE Search
  <2>1. PICK found \in SUBSET Convs :
          /\ found \subseteq Scope
          /\ \E load \in Candidates(found) :
               /\ load # << >>
               /\ scan' = [pc |-> "load", began |-> now, load |-> load, decide |-> << >>]
    BY <1>1, ReminderAssumption DEF Search, Scope
  <2> PICK load \in Candidates(found) :
        /\ load # << >>
        /\ scan' = [pc |-> "load", began |-> now, load |-> load, decide |-> << >>]
    BY <2>1
  <2>2. load \in Seq(Scope)
    <3>1. load \in Seq(found)
      BY CandidatesAreFound
    <3>2. QED
      BY <2>1, <3>1, SeqMonotonic
  <2>3. now \in Times /\ << >> \in Seq(Decision)
    BY EmptySeq DEF TimelineTyped
  <2>4. QED
    BY <2>1, <2>2, <2>3 DEF ScanTyped
<1>2. CASE Load
  BY <1>2, LoadMove
<1>3. CASE Skip
  BY <1>3, NextMove DEF Skip
<1>4. CASE Settle
  BY <1>4, NextMove, IdleTyped DEF Settle, Record
<1>5. CASE Remind
  <2>1. CASE NextConversation
    BY <1>5, <2>1, NextMove DEF Remind
  <2>2. CASE scan' = [scan EXCEPT !.pc = "record"]
    <3>1. /\ scan.load = << >> /\ scan.decide # << >> /\ scan.decide \in Seq(Decision)
          /\ scan.began \in Times /\ scan.load \in Seq(Scope) /\ Current.verdict = "due"
      BY <1>5, ScanParts DEF Remind, ScanTyped
    <3>2. scan' = [pc |-> "record", began |-> scan.began, load |-> scan.load, decide |-> scan.decide]
      BY <2>2, ScanParts
    <3>3. QED
      BY <3>1, <3>2 DEF ScanTyped, Current
  <2>3. QED
    BY <1>5, <2>1, <2>2 DEF Remind
<1>6. CASE RecordReminder
  BY <1>6, NextMove, IdleTyped DEF RecordReminder, Record
<1>7. CASE Peopled \/ Elsewhere
  <2>1. scan' = scan
    BY <1>7 DEF Peopled, Elsewhere, reminderVars
  <2>2. QED
    BY <2>1 DEF ScanTyped, Current
<1>8. CASE Stopped
  BY <1>8, IdleTyped DEF Stopped
<1>9. QED
  BY <1>1, <1>2, <1>3, <1>4, <1>5, <1>6, <1>7, <1>8, StepKinds DEF Scan
-----------------------------------------------------------------------------
(* What a step keeps.                                                         *)

LEMMA RemindersStay ==
  ASSUME [Next]_vars
  PROVE  reminded \subseteq reminded'
BY StepKinds DEF Peopled, Elsewhere, Stopped, reminderVars, history, Scan, Search, Load, Skip,
   Settle, Record, Remind, Accepted, RecordReminder

\* What is closed stays closed: a later mail of the customer is a mail of its own.
LEMMA ClosedStays ==
  ASSUME TimelineTyped, TimelineKnown, ScanTyped, DecisionsSound, [Next]_vars,
         NEW c \in Convs, NEW m \in Times, m <= now, Closed(c, m)
  PROVE  Closed(c, m)'
<1>1. TimelineTyped' /\ TimelineKnown' /\ (Peopled \/ Recorded \/ Quiet)
  BY TimelineStep
<1>2. /\ \/ LatestMail(items'[c]) = LatestMail(items[c])
         \/ LatestMail(items'[c]) > now
      /\ LatestMail(items'[c]) = LatestMail(items[c]) /\ Handled(items[c]) => Handled(items'[c])
      /\ now \in Nat
  BY <1>1, Grows
<1>3. LatestMail(items'[c]) \in Nat /\ m \in Nat
  BY <1>1, MailKnownNext, TimesAreNumbers
<1>4. LatestMail(items'[c]) = m => LatestMail(items[c]) = m
  BY <1>2, <1>3
<1>5. NoMail(c) /\ LatestMail(items'[c]) = LatestMail(items[c]) => NoMail(c)'
  BY <1>1, NoMailStays
<1>6. QED
  BY <1>2, <1>4, <1>5, RemindersStay DEF Closed

LEMMA NowGrows ==
  ASSUME TimelineTyped, TimelineKnown, ScanTyped, DecisionsSound, [Next]_vars
  PROVE  now \in Nat /\ now' \in Nat /\ now <= now'
<1>1. TimelineTyped' /\ TimelineKnown' /\ (Peopled \/ Recorded \/ Quiet)
  BY TimelineStep
<1>2. Convs # {}
  BY TimelineAssumption
<1>3. QED
  BY <1>1, <1>2, Grows

\* A decision that was sound stays so.
DecisionSound(d) == d.message <= now /\ (d.verdict = "settled" => Closed(d.conv, d.message))

LEMMA DecisionStays ==
  ASSUME TimelineTyped, TimelineKnown, ScanTyped, DecisionsSound, [Next]_vars,
         NEW d \in Decision, DecisionSound(d)
  PROVE  DecisionSound(d)'
<1>1. now \in Nat /\ now' \in Nat /\ now <= now'
  BY NowGrows
<1>2. d.conv \in Convs /\ d.message \in Times /\ d.message \in Nat
  BY ReminderAssumption, TimesAreNumbers DEF Decision, Scope
<1>3. d.message <= now'
  BY <1>1, <1>2 DEF DecisionSound
<1>4. d.verdict = "settled" => Closed(d.conv, d.message)'
  <2>1. ASSUME d.verdict = "settled" PROVE Closed(d.conv, d.message)'
    <3>1. Closed(d.conv, d.message) /\ d.message <= now
      BY <2>1 DEF DecisionSound
    <3>2. QED
      BY <1>2, <3>1, ClosedStays
  <2>2. QED
    BY <2>1
<1>5. QED
  BY <1>3, <1>4 DEF DecisionSound

\* What the scan makes of a timeline is right when it reads it.
LEMMA ReadingIsSound ==
  ASSUME TimelineTyped, TimelineKnown, NEW c \in Convs, ~NoMail(c)
  PROVE  DecisionSound(Reading(c))
<1>1. LatestMail(items[c]) <= now /\ LatestMail(FirstPage(c)) = LatestMail(items[c])
  BY MailKnown, PageMail
<1>2. Handled(FirstPage(c)) => Handled(items[c])
  BY <1>1 DEF Handled, Of, FirstPage
<1>3. Verdict(FirstPage(c), scan.began) = "settled" =>
        LatestMail(items[c]) < StartAt \/ Handled(items[c])
  BY <1>1, <1>2 DEF Verdict
<1>4. QED
  BY <1>1, <1>3 DEF DecisionSound, Reading, Closed

LEMMA DecisionsStep ==
  ASSUME TimelineTyped, TimelineKnown, ScanTyped, DecisionsSound, [Next]_vars
  PROVE  DecisionsSound'
<1>1. now \in Nat /\ now' \in Nat /\ now <= now' /\ reminded \subseteq reminded'
  BY NowGrows, RemindersStay
<1>2. \A d \in ToSet(scan.decide) : d \in Decision /\ DecisionSound(d)
  BY InSequence, ScanParts DEF DecisionsSound, DecisionSound
<1>3. \A d \in ToSet(scan.decide) : DecisionSound(d)'
  BY <1>2, DecisionStays
<1>4. SUFFICES /\ scan'.pc = "load" => scan'.began <= now'
               /\ \A d \in ToSet(scan'.decide) : d \in ToSet(scan.decide) \/ DecisionSound(d)'
               /\ scan'.pc = "record" => <<Current'.conv, Current'.message>> \in reminded'
  BY <1>3 DEF DecisionsSound, DecisionSound
<1>5. CASE Search
  <2>1. scan'.pc = "load" /\ scan'.began = now /\ scan'.decide = << >>
    BY <1>5 DEF Search
  <2>2. QED
    BY <1>1, <2>1, NothingInEmpty
<1>6. CASE Load
  <2> DEFINE c == Head(scan.load)
  <2>1. /\ c \in Scope
        /\ \/ scan'.pc = "load" /\ scan'.load = Tail(scan.load) /\ scan'.began = scan.began
           \/ scan'.pc \in {"idle", "decide"}
        /\ \/ /\ ~NoMail(c) /\ Reading(c) \in Decision
              /\ ToSet(scan'.decide) = ToSet(scan.decide) \cup {Reading(c)}
           \/ ToSet(scan'.decide) = ToSet(scan.decide)
    BY <1>6, LoadMove
  <2>2. scan.began \in Nat /\ scan.pc = "load"
    BY <1>6, ScanParts, TimesAreNumbers DEF Load
  <2>3. ~NoMail(c) => DecisionSound(Reading(c))
    BY <2>1, ReadingIsSound, ReminderAssumption DEF Scope
  <2>4. \A d \in Decision : DecisionSound(d) => DecisionSound(d)'
    BY DecisionStays
  <2>5. \A d \in ToSet(scan'.decide) : d \in ToSet(scan.decide) \/ DecisionSound(d)'
    BY <2>1, <2>3, <2>4
  <2>6. scan'.pc = "load" => scan'.began <= now'
    BY <1>1, <2>1, <2>2 DEF DecisionsSound
  <2>7. QED
    BY <2>1, <2>5, <2>6
<1>7. CASE Skip \/ Settle \/ RecordReminder
  <2>1. scan'.pc \in {"idle", "decide"} /\ ToSet(scan'.decide) \subseteq ToSet(scan.decide)
    BY <1>7, NextMove, NothingInEmpty DEF Skip, Settle, RecordReminder, Record, NoScan
  <2>2. QED
    BY <2>1
<1>8. CASE Remind
  <2>1. CASE NextConversation
    <3>1. scan'.pc \in {"idle", "decide"} /\ ToSet(scan'.decide) \subseteq ToSet(scan.decide)
      BY <1>8, <2>1, NextMove DEF Remind
    <3>2. QED
      BY <3>1
  <2>2. CASE Accepted /\ scan' = [scan EXCEPT !.pc = "record"]
    <3>1. scan'.decide = scan.decide /\ scan'.pc = "record"
      BY <2>2, ScanParts
    <3>2. <<Current.conv, Current.message>> \in reminded' /\ Current' = Current
      BY <2>2, <3>1 DEF Accepted, Current
    <3>3. QED
      BY <3>1, <3>2
  <2>3. QED
    BY <1>8, <2>1, <2>2 DEF Remind
<1>9. CASE Peopled \/ Elsewhere
  <2>1. scan' = scan /\ reminded' = reminded
    BY <1>9 DEF Peopled, Elsewhere, reminderVars, history
  <2>2. scan.pc = "load" => scan.began <= now'
    BY <1>1, ScanParts, TimesAreNumbers DEF DecisionsSound
  <2>3. QED
    BY <2>1, <2>2 DEF DecisionsSound, Current
<1>10. CASE Stopped
  BY <1>10, NothingInEmpty DEF Stopped, NoScan
<1>11. QED
  BY <1>5, <1>6, <1>7, <1>8, <1>9, <1>10, StepKinds DEF Scan

\* Each check was right when it was recorded: the scan had settled its message,
\* or Feishu had accepted the reminder.
LEMMA ChecksStep ==
  ASSUME TimelineTyped, TimelineKnown, ScanTyped, DecisionsSound, ChecksSound, [Next]_vars
  PROVE  ChecksSound'
<1>1. ASSUME NEW c \in Convs, NEW k \in checks[c] PROVE Closed(c, k.message)'
  <2>1. k.message \in Times /\ k.message <= now /\ Closed(c, k.message)
    BY DEF TimelineTyped, TimelineKnown, Check, ChecksSound
  <2>2. QED
    BY <2>1, ClosedStays
<1>2. SUFFICES \A c \in Convs : \A k \in checks'[c] : k \in checks[c] \/ Closed(c, k.message)'
  BY <1>1 DEF ChecksSound
<1>3. CASE Settle \/ RecordReminder
  <2>1. /\ Current.conv \in Convs /\ Current.message \in Times /\ Current.message <= now
        /\ scan.pc \in {"decide", "record"} /\ Record
    BY <1>3, CurrentIs DEF Settle, RecordReminder, DecisionsSound
  <2>2. Closed(Current.conv, Current.message)
    BY <1>3, CurrentIs DEF Settle, RecordReminder, DecisionsSound, Closed
  <2>3. ASSUME NEW d \in Convs, NEW m \in Times, d = Current.conv, m = Current.message
        PROVE  Closed(d, m)'
    BY <2>1, <2>2, <2>3, ClosedStays
  <2>4. \A c \in Convs : \A k \in checks'[c] :
          k \in checks[c] \/ (c = Current.conv /\ k.message = Current.message)
    BY <2>1 DEF Record, TimelineTyped
  <2>5. QED
    BY <2>1, <2>3, <2>4
<1>4. CASE Peopled
  BY <1>4, PeopleMove
<1>5. CASE Search \/ Load \/ Skip \/ Remind \/ Elsewhere \/ Stopped
  BY <1>5 DEF Search, Load, Skip, Remind, Elsewhere, Stopped, Quiet, timelineVars
<1>6. QED
  BY <1>3, <1>4, <1>5, StepKinds DEF Scan

\* A message is reminded of only when it has no check, and gets one next.
LEMMA LossStep ==
  ASSUME TimelineTyped, TimelineKnown, ScanTyped, DecisionsSound, NoLoss, [Next]_vars
  PROVE  NoLoss'
<1>1. SUFFICES ASSUME faults' = 0
               PROVE  /\ ~repeated'
                      /\ \A c \in Convs, m \in Times : <<c, m>> \in reminded' =>
                           \/ \E k \in checks'[c] : k.message = m
                           \/ scan'.pc = "record" /\ Current'.conv = c /\ Current'.message = m
  BY DEF NoLoss
<1>2. ~Fault /\ ~Stopped
  BY <1>1, FaultTyped DEF Stopped
<1>3. \A c \in Convs : checks[c] \subseteq checks'[c]
  BY TimelineStep, Grows
<1>4. CASE Search \/ Load \/ Skip \/ Peopled \/ Elsewhere
  <2>1. reminded' = reminded /\ repeated' = repeated /\ faults = 0
    BY <1>1, <1>2, <1>4, LoadMove DEF Search, Load, Skip, Peopled, People, Write, Archive,
       RecordAction, SaveState, Tick, Elsewhere, timelineVars, history, reminderVars
  <2>2. scan.pc = "record" => scan' = scan
    BY <1>4 DEF Search, Load, Skip, Peopled, Elsewhere, reminderVars, NoScan
  <2>3. QED
    BY <1>3, <2>1, <2>2 DEF NoLoss, Current
<1>5. CASE Settle \/ RecordReminder
  <2>1. Record /\ scan.pc \in {"decide", "record"}
    BY <1>5 DEF Settle, RecordReminder
  <2>2. Current.conv \in Convs
    BY <2>1, CurrentIs
  <2>3. /\ reminded' = reminded /\ repeated' = repeated /\ faults = 0
        /\ \E k \in checks'[Current.conv] : k.message = Current.message
    <3>1. /\ reminded' = reminded /\ repeated' = repeated /\ faults = 0
          /\ checks' = [checks EXCEPT ![Current.conv] =
                          @ \cup {[message |-> Current.message, at |-> now]}]
      BY <1>1, <1>2, <2>1 DEF Record
    <3>2. [message |-> Current.message, at |-> now] \in checks'[Current.conv]
      BY <2>2, <3>1 DEF TimelineTyped
    <3>3. QED
      BY <3>1, <3>2
  <2>4. QED
    BY <1>3, <2>3 DEF NoLoss
<1>6. CASE Remind
  <2>1. Current.conv \in Convs /\ Current.message \in Times /\ scan.pc = "decide" /\ faults = 0
        /\ Accepted /\ scan' = [scan EXCEPT !.pc = "record"]
    BY <1>1, <1>2, <1>6, CurrentIs DEF Remind
  <2>2. <<Current.conv, Current.message>> \notin reminded
    BY <1>6, <2>1 DEF Remind, NothingToRecord, NoLoss
  <2>3. ~repeated'
    BY <2>1, <2>2 DEF Accepted, NoLoss
  <2>4. scan'.pc = "record" /\ Current' = Current
    BY <2>1, ScanParts DEF Current
  <2>5. \A c \in Convs, m \in Times : <<c, m>> \in reminded =>
          \E k \in checks[c] : k.message = m
    BY <2>1 DEF NoLoss
  <2>6. \A c, m : <<c, m>> \in reminded' =>
          <<c, m>> \in reminded \/ (c = Current.conv /\ m = Current.message)
    BY <2>1 DEF Accepted
  <2>7. QED
    BY <1>3, <2>3, <2>4, <2>5, <2>6
<1>7. QED
  BY <1>2, <1>4, <1>5, <1>6, StepKinds DEF Scan

\* What was due when the scan chose its conversations is not lost on the way.
LEMMA OwedStep ==
  ASSUME ScanInv, [Next]_vars
  PROVE  OwedKept'
<1> USE DEF ScanInv
<1>1. now \in Nat /\ now' \in Nat /\ now <= now' /\ ReminderAssumption
  BY NowGrows, ReminderAssumption
<1>2. CASE Search
  <2>1. PICK found \in SUBSET Convs :
          \E load \in Candidates(found) :
            /\ scan' = [pc |-> "load", began |-> now, load |-> load, decide |-> << >>]
            /\ owed' = {<<c, LatestMail(items[c])>> : c \in {d \in ToSet(load) : IsDue(d)}}
    BY <1>2, ReminderAssumption DEF Search
  <2> PICK load \in Candidates(found) :
        /\ scan' = [pc |-> "load", began |-> now, load |-> load, decide |-> << >>]
        /\ owed' = {<<c, LatestMail(items[c])>> : c \in {d \in ToSet(load) : IsDue(d)}}
    BY <2>1
  <2>2. ToSet(load) \subseteq Convs
    BY CandidatesAreFound
  <2>3. ASSUME NEW c \in Convs, IsDue(c)
        PROVE  /\ LatestMail(items[c]) \in Times /\ LatestMail(items[c]) <= now
               /\ LatestMail(items[c]) >= StartAt
               /\ LatestMail(items[c]) + RemindAfter <= now
    <3>1. LatestMail(items[c]) \in Times /\ LatestMail(items[c]) \in Nat /\ LatestMail(items[c]) <= now
      BY MailKnown, TimesAreNumbers
    <3>2. /\ ~(LatestMail(items[c]) < StartAt)
          /\ ~(now < LatestMail(items[c]) + RemindAfter)
      BY <2>3 DEF IsDue, Verdict
    <3>3. QED
      BY <1>1, <3>1, <3>2 DEF ReminderAssumption
  <2>4. \A o \in owed' : o \in Convs \X Times /\ o[2] >= StartAt /\ o[2] <= now
          /\ o[1] \in ToSet(load) /\ o[2] + RemindAfter <= now
    BY <2>2, <2>3
  <2>5. scan'.pc = "load" /\ scan'.began = now /\ scan'.load = load /\ now' = now
    BY <1>2, <2>1 DEF Search, front
  <2>6. QED
    BY <2>4, <2>5 DEF OwedKept
<1>3. CASE ~Search
  <2>1. owed' = owed
    BY <1>3, StepKinds DEF Peopled, Elsewhere, Stopped, reminderVars, history, Scan, Load, Skip,
       Settle, Record, Remind, RecordReminder
  <2>2. \A o \in owed : o[1] \in Convs /\ o[2] \in Times /\ o[2] \in Nat /\ o[2] <= now
    BY TimesAreNumbers DEF OwedKept
  <2>3. \A o \in owed : o[2] <= now'
    BY <1>1, <2>2
  <2>4. \A o \in owed : Closed(o[1], o[2]) => Closed(o[1], o[2])'
    BY <2>2, ClosedStays
  <2>5. SUFFICES ASSUME faults' = 0, scan' # NoScan, NEW o \in owed, ~Closed(o[1], o[2])
                 PROVE  \/ Closed(o[1], o[2])'
                        \/ /\ scan'.pc = "load" /\ o[1] \in ToSet(scan'.load)
                           /\ o[2] + RemindAfter <= scan'.began
                        \/ \E d \in ToSet(scan'.decide) :
                             d.conv = o[1] /\ d.message = o[2] /\ d.verdict = "due"
    BY <2>1, <2>3, <2>4 DEF OwedKept
  <2>6. ~Fault /\ ~Stopped
    BY <2>5, FaultTyped DEF Stopped
  <2>7. faults = 0
    <3>1. faults' = faults
      <4>1. Convs # {}
        BY TimelineAssumption
      <4>2. CASE Peopled
        BY <4>1, <4>2, PeopleMove
      <4>3. CASE ~Peopled
        BY <2>6, <4>3, StepKinds, ScanTimeline DEF Elsewhere, Recorded
      <4>4. QED
        BY <4>2, <4>3
    <3>2. QED
      BY <2>5, <3>1
  <2>8. CASE Load
    <3> DEFINE c == Head(scan.load)
    <3>1. /\ c \in Convs /\ scan.pc = "load" /\ scan # NoScan
          /\ ToSet(scan.load) = {c} \cup ToSet(Tail(scan.load))
          /\ \/ scan'.pc = "load" /\ scan'.load = Tail(scan.load) /\ scan'.began = scan.began
             \/ Tail(scan.load) = << >>
          /\ ToSet(scan.decide) \subseteq ToSet(scan'.decide)
          /\ ~NoMail(c) => Reading(c) \in ToSet(scan'.decide)
      BY <2>6, <2>8, LoadMove, ScanParts, ReminderAssumption DEF Scope, Load
    <3>2. CASE o[1] \in ToSet(scan.load) /\ o[2] + RemindAfter <= scan.began
      <4>1. CASE o[1] = c
        <5>1. /\ LatestMail(items[c]) = o[2] /\ ~(o[2] < StartAt) /\ ~Handled(items[c])
              /\ LatestMail(FirstPage(c)) = o[2] /\ ~NoMail(c)
          BY <2>5, <3>1, <4>1, PageMail DEF Closed
        <5>2. ~(scan.began < o[2] + RemindAfter)
          <6>1. scan.began \in Nat /\ o[2] + RemindAfter \in Nat
            BY <2>2, ScanParts, TimesAreNumbers, ReminderAssumption
          <6>2. QED
            BY <3>2, <6>1
        <5>3. Verdict(FirstPage(c), scan.began) = "due"
          <6>1. ~Handled(FirstPage(c))
            BY <5>1 DEF Handled, Of, FirstPage
          <6>2. QED
            BY <5>1, <5>2, <6>1 DEF Verdict
        <5>4. /\ Reading(c) \in ToSet(scan'.decide) /\ Reading(c).conv = o[1]
              /\ Reading(c).message = o[2] /\ Reading(c).verdict = "due"
          BY <3>1, <4>1, <5>1, <5>3 DEF Reading
        <5>5. QED
          BY <5>4
      <4>2. CASE o[1] # c
        <5>1. o[1] \in ToSet(Tail(scan.load))
          BY <3>1, <3>2, <4>2
        <5>2. QED
          BY <3>1, <3>2, <5>1, NothingInEmpty
      <4>3. QED
        BY <4>1, <4>2
    <3>3. CASE \E d \in ToSet(scan.decide) : d.conv = o[1] /\ d.message = o[2] /\ d.verdict = "due"
      BY <3>1, <3>3
    <3>4. QED
      BY <2>5, <2>7, <3>1, <3>2, <3>3 DEF OwedKept
  <2>9. ASSUME scan.pc \in {"decide", "record"}
        PROVE  \E d \in ToSet(scan.decide) :
                 d.conv = o[1] /\ d.message = o[2] /\ d.verdict = "due"
    BY <2>5, <2>7, <2>9, ScanParts DEF OwedKept
  <2>10. ASSUME scan.pc \in {"decide", "record"}, NextConversation,
                ~(Current.conv = o[1] /\ Current.message = o[2] /\ Current.verdict = "due")
         PROVE  \E d \in ToSet(scan'.decide) : d.conv = o[1] /\ d.message = o[2] /\ d.verdict = "due"
    BY <2>9, <2>10, NextMove
  <2>11. ASSUME Current.conv = o[1], Current.message = o[2], scan.pc \in {"decide", "record"}
         PROVE  Current.verdict = "due" =>
                  /\ scan.pc = "decide" /\ ~NothingToRecord
    <3>1. scan.pc # "record"
      BY <2>5, <2>11 DEF DecisionsSound, Closed
    <3>2. ~\E k \in checks[Current.conv] : k.message = Current.message
      BY <2>2, <2>5, <2>11 DEF ChecksSound
    <3>3. QED
      BY <2>11, <3>1, <3>2 DEF NothingToRecord
  <2>12. CASE Skip
    BY <2>10, <2>11, <2>12 DEF Skip
  <2>13. CASE Settle
    BY <2>6, <2>10, <2>13 DEF Settle, Record
  <2>14. CASE RecordReminder
    BY <2>6, <2>10, <2>11, <2>14 DEF RecordReminder, Record
  <2>15. CASE Remind
    <3>1. Accepted /\ scan' = [scan EXCEPT !.pc = "record"] /\ scan.pc = "decide"
      BY <2>6, <2>15 DEF Remind
    <3>2. scan'.decide = scan.decide
      BY <3>1, ScanParts
    <3>3. QED
      BY <2>9, <3>1, <3>2
  <2>16. CASE Peopled \/ Elsewhere
    <3>1. scan' = scan
      BY <2>16 DEF Peopled, Elsewhere, reminderVars
    <3>2. QED
      BY <2>5, <2>7, <3>1 DEF OwedKept
  <2>17. QED
    BY <1>3, <2>6, <2>8, <2>12, <2>13, <2>14, <2>15, <2>16, StepKinds DEF Scan
<1>4. QED
  BY <1>2, <1>3

\* A check is as old as the mail it is about, unless it was overtaken.
LEMMA FreshStep ==
  ASSUME ScanInv, [Next]_vars
  PROVE  FreshChecks'
<1> USE DEF ScanInv
<1>1. SUFFICES ASSUME NEW c \in Convs \ overlapped', NEW k \in checks'[c], k.at >= updated'[c]
               PROVE  k.message = LatestMail(items'[c])
  BY DEF FreshChecks
<1>2. CASE Peopled
  <2>1. k \in checks[c] /\ overlapped' = overlapped
    BY <1>1, <1>2, PeopleMove DEF Peopled, reminderVars, history
  <2>2. k.at <= now /\ k.at \in Nat /\ now \in Nat
    BY <2>1, ItemsKnown, TimesAreNumbers DEF TimelineTyped
  <2>3. items'[c] = items[c] /\ updated'[c] = updated[c]
    BY <1>1, <1>2, <2>2, PeopleMove
  <2>4. QED
    BY <1>1, <2>1, <2>3 DEF FreshChecks
<1>3. CASE Settle \/ RecordReminder
  <2>1. Record /\ scan.pc \in {"decide", "record"} /\ items' = items /\ updated' = updated
    BY <1>3 DEF Settle, RecordReminder, Record, front
  <2>2. Current.conv \in Convs
    BY <2>1, CurrentIs
  <2>3. overlapped \subseteq overlapped'
    BY <2>1 DEF Record
  <2>4. CASE k \in checks[c]
    BY <1>1, <2>1, <2>3, <2>4 DEF FreshChecks
  <2>5. CASE k \notin checks[c]
    <3>1. c = Current.conv /\ k.message = Current.message
          /\ overlapped' = IF LatestMail(items[c]) # Current.message
                           THEN overlapped \cup {c} ELSE overlapped
      BY <1>1, <2>1, <2>2, <2>5 DEF Record, TimelineTyped
    <3>2. QED
      BY <1>1, <2>1, <3>1
  <2>6. QED
    BY <2>4, <2>5
<1>4. CASE Search \/ Load \/ Skip \/ Remind \/ Elsewhere \/ Stopped
  <2>1. items' = items /\ updated' = updated /\ checks' = checks /\ overlapped' = overlapped
    BY <1>4 DEF Search, Load, Skip, Remind, Elsewhere, Stopped, Quiet, timelineVars, front,
       history, reminderVars
  <2>2. QED
    BY <1>1, <2>1 DEF FreshChecks
<1>5. QED
  BY <1>2, <1>3, <1>4, StepKinds DEF Scan

-----------------------------------------------------------------------------
(* What the scan guarantees.                                                  *)

LEMMA ScanInvInit == Init => ScanInv
<1> SUFFICES ASSUME Init PROVE ScanInv
  OBVIOUS
<1>1. PICK first \in Convs : \A d \in Convs : FirstMail[d] <= FirstMail[first]
  BY TimelineAssumption
<1>2. \A c \in Convs : FirstMail[c] \in Times /\ FirstMail[c] \in Nat
  BY TimelineAssumption, TimesAreNumbers
<1>3. now = FirstMail[first]
  <2> DEFINE Right(t) == t \in {FirstMail[c] : c \in Convs} /\ \A c \in Convs : FirstMail[c] <= t
  <2>1. FirstMail[first] \in Times /\ Right(FirstMail[first])
    BY <1>1, <1>2
  <2>2. now = CHOOSE t \in Times : Right(t)
    BY DEF Init, TimelineInit
  <2>3. now \in Times /\ Right(now)
    BY <2>1, <2>2
  <2>4. PICK c \in Convs : now = FirstMail[c]
    BY <2>3
  <2>5. now <= FirstMail[first] /\ FirstMail[first] <= now /\ now \in Nat /\ FirstMail[first] \in Nat
    BY <1>1, <1>2, <2>3, <2>4
  <2>6. QED
    BY <2>5
<1>4. \A c \in Convs : FirstMail[c] <= now
  BY <1>1, <1>3
<1>5. TimelineTyped
  <2>1. now \in Times /\ events \in 0..MaxEvents /\ faults \in 0..MaxFaults
    BY <1>2, <1>3, TimelineAssumption DEF Init, TimelineInit
  <2>2. items \in [Convs -> SUBSET Item]
    BY <1>2 DEF Init, TimelineInit, Item, ItemKinds
  <2>3. /\ open \subseteq Convs /\ updated \in [Convs -> Times] /\ checks \in [Convs -> SUBSET Check]
        /\ step \in [Convs -> StepNames \cup {"none"}]
        /\ waiting = {} /\ acted = {} /\ stepped = {}
        /\ \A c \in Convs : step[c] \notin HandledSteps
    BY TimelineAssumption DEF Init, TimelineInit, StepNames, HandledSteps
  <2>4. QED
    BY <2>1, <2>2, <2>3 DEF TimelineTyped
<1>6. TimelineKnown
  <2>1. ASSUME NEW c \in Convs
        PROVE  /\ checks[c] = {} /\ \A i \in items[c] : i.at <= now
               /\ IsFiniteSet(items[c])
               /\ [kind |-> "customer", at |-> FirstMail[c]] \in Of(items[c], {"customer"})
               /\ \A j \in Of(items[c], {"customer"}) : j.at <= FirstMail[c]
    <3> DEFINE first_mail == [kind |-> "customer", at |-> FirstMail[c]]
    <3>1. items[c] = {first_mail} /\ checks[c] = {}
      BY DEF Init, TimelineInit
    <3>2. IsFiniteSet({first_mail})
      BY FS_Singleton
    <3>3. QED
      BY <1>2, <1>4, <3>1, <3>2 DEF Of
  <2>2. \A c \in Convs :
          \E i \in Of(items[c], {"customer"}) : \A j \in Of(items[c], {"customer"}) : j.at <= i.at
    <3>1. TAKE c \in Convs
    <3> DEFINE first_mail == [kind |-> "customer", at |-> FirstMail[c]]
    <3>2. /\ first_mail \in Of(items[c], {"customer"})
          /\ \A j \in Of(items[c], {"customer"}) : j.at <= first_mail.at
      BY <2>1
    <3>3. QED
      BY <3>2
  <2>3. QED
    BY <2>1, <2>2 DEF TimelineKnown
<1>7. ScanTyped
  BY TimelineAssumption, EmptySeq DEF Init, ReminderInit, ScanTyped, NoScan, Times
<1>8. DecisionsSound
  BY NothingInEmpty DEF Init, ReminderInit, DecisionsSound, NoScan
<1>9. ChecksSound /\ FreshChecks
  BY DEF Init, TimelineInit, ChecksSound, FreshChecks
<1>10. OwedKept /\ NoLoss
  BY DEF Init, ReminderInit, OwedKept, NoLoss
<1>11. QED
  BY <1>5, <1>6, <1>7, <1>8, <1>9, <1>10 DEF ScanInv

LEMMA ScanInvStep ==
  ASSUME ScanInv, [Next]_vars
  PROVE  ScanInv'
BY TimelineStep, ScanTypedStep, DecisionsStep, ChecksStep, OwedStep, LossStep, FreshStep DEF ScanInv

LEMMA ScanInvariant == Spec => []ScanInv
<1>1. QED
  BY ScanInvInit, ScanInvStep, PTL DEF Spec

\* A customer message is reminded of at most once unless an answer, a commit or
\* the process was lost: send_bobby_personal_text and _record_terminal_check.
THEOREM RepeatsNeedLoss == Spec => []RepeatedReminderNeedsLoss
<1>1. ScanInv => RepeatedReminderNeedsLoss
  <2>1. SUFFICES ASSUME ScanInv, repeated PROVE faults > 0
    BY DEF RepeatedReminderNeedsLoss
  <2>2. faults # 0 /\ faults \in Nat
    BY <2>1, TimelineAssumption DEF ScanInv, NoLoss, TimelineTyped
  <2>3. QED
    BY <2>2
<1>2. QED
  BY <1>1, ScanInvariant, PTL

\* The skip in _candidate_conversations hides a message that was never checked
\* only when it arrived while a scan was at work on an older timeline, or where
\* the search says when the conversation began.
THEOREM SkipHidesOnlyOvertaken == Spec => []HiddenNeedsOverlap
<1>1. ScanInv => HiddenNeedsOverlap
  <2>1. SUFFICES ASSUME ScanInv, NEW c \in open, CheckedSinceUpdate(c), c \notin overlapped,
                        c \notin Dated
                 PROVE  \E k \in checks[c] : k.message = LatestMail(items[c])
    BY DEF HiddenNeedsOverlap
  <2>2. c \in Convs /\ checks[c] # {} /\ Latest(checks[c]).at >= updated[c]
    BY <2>1 DEF CheckedSinceUpdate, Stamp, ScanInv, TimelineTyped
  <2>3. PICK k \in checks[c] : \A j \in checks[c] : j.at <= k.at
    BY <2>1, <2>2 DEF ScanInv, TimelineKnown
  <2>4. \A j \in checks[c] : j.at \in Nat
    BY <2>1, <2>2, ItemsKnown DEF ScanInv
  <2>5. Latest(checks[c]) \in checks[c]
    BY <2>3, <2>4, LatestIs
  <2>6. QED
    BY <2>1, <2>2, <2>5 DEF ScanInv, FreshChecks
<1>2. QED
  BY <1>1, ScanInvariant, PTL

\* A scan that ends without a fault has served what was due when it began: each
\* message was reminded of, answered meanwhile, followed by another, or pushed off
\* the first page.
THEOREM DueIsServed == Spec => ScanServesDue
<1>1. ASSUME ScanInv, ScanInv', [Next]_vars, scan # NoScan, scan' = NoScan, faults' = 0, NEW o \in owed
      PROVE  \/ o \in reminded'
             \/ LatestMail(items[o[1]]) # o[2]
             \/ Handled(items[o[1]])
             \/ ~HasMail(FirstPage(o[1]))
  <2> USE DEF ScanInv
  <2>1. o = <<o[1], o[2]>> /\ o[1] \in Convs /\ o[2] \in Nat /\ StartAt \in Nat /\ ~(o[2] < StartAt)
    <3>1. o \in Convs \X Times /\ o[2] >= StartAt /\ StartAt \in Nat
      BY <1>1, ReminderAssumption DEF OwedKept
    <3>2. o[2] \in Nat
      BY <3>1, TimesAreNumbers
    <3>3. QED
      BY <3>1, <3>2
  <2>2. ~Fault /\ ~Stopped
    BY <1>1, FaultTyped DEF Stopped
  <2>3. CASE Closed(o[1], o[2])
    BY <1>1, <2>1, <2>3, RemindersStay, NoMailIs DEF Closed
  <2>4. CASE ~Closed(o[1], o[2])
    <3>1. scan' # scan /\ ToSet(scan'.decide) = {} /\ ToSet(scan'.load) = {}
      BY <1>1, NothingInEmpty DEF NoScan
    <3>2. CASE Load
      <4> DEFINE c == Head(scan.load)
      <4>1. /\ ToSet(scan.load) = {c} \cup ToSet(Tail(scan.load)) /\ scan.pc = "load"
            /\ ~NoMail(c) => Reading(c) \in ToSet(scan'.decide)
            /\ ToSet(scan.decide) \subseteq ToSet(scan'.decide)
            /\ ToSet(Tail(scan.load)) = {}
        BY <1>1, <2>2, <3>2, LoadMove, NothingInEmpty DEF NoScan, Load
      <4>2. NoMail(c)
        BY <3>1, <4>1
      <4>3. o[1] = c
        <5>1. faults = 0
          BY <1>1, <2>2, <3>2, LoadMove
        <5>2. ToSet(scan.decide) = {}
          BY <3>1, <4>1
        <5>3. o[1] \in ToSet(scan.load)
          BY <1>1, <2>4, <5>1, <5>2 DEF OwedKept
        <5>4. QED
          BY <4>1, <5>3
      <4>4. QED
        BY <2>4, <4>2, <4>3 DEF Closed
    <3>3. ASSUME Skip \/ Settle \/ RecordReminder PROVE FALSE
      <4>1. /\ NextConversation /\ scan.pc \in {"decide", "record"} /\ faults' = faults
        BY <2>2, <3>3 DEF Skip, Settle, RecordReminder, Record, timelineVars
      <4>2. ToSet(scan.decide) = {Current}
        BY <1>1, <3>1, <4>1, NextMove
      <4>3. Current.conv = o[1] /\ Current.message = o[2] /\ Current.verdict = "due"
        BY <1>1, <2>4, <4>1, <4>2, ScanParts DEF OwedKept
      <4>4. scan.pc # "record"
        BY <1>1, <2>1, <2>4, <4>3 DEF DecisionsSound, Closed
      <4>5. ~NothingToRecord
        BY <1>1, <2>1, <2>4, <4>3 DEF ChecksSound, NothingToRecord
      <4>6. QED
        BY <3>3, <4>3, <4>4, <4>5 DEF Skip, Settle, RecordReminder
    <3>4. CASE Search \/ Remind
      BY <2>2, <3>1, <3>4, <1>1, ScanParts DEF Search, Remind, NoScan
    <3>5. CASE Peopled \/ Elsewhere
      BY <3>1, <3>5 DEF Peopled, Elsewhere, reminderVars
    <3>6. QED
      BY <1>1, <2>2, <3>2, <3>3, <3>4, <3>5, StepKinds DEF Scan
  <2>5. QED
    BY <2>3, <2>4
<1>2. ScanInv /\ ScanInv' /\ [Next]_vars =>
        [scan # NoScan /\ scan' = NoScan /\ faults' = 0 =>
           \A o \in owed :
             \/ o \in reminded'
             \/ LatestMail(items[o[1]]) # o[2]
             \/ Handled(items[o[1]])
             \/ ~HasMail(FirstPage(o[1]))]_scan
  BY <1>1
<1>3. QED
  BY <1>2, ScanInvariant, PTL DEF Spec, ScanServesDue
-----------------------------------------------------------------------------
(* The rules of classify_draft_adoption.                                      *)

\* What a refresh may have gathered.
Gathered ==
  [sent : {"none", "exact", "other"}, notes : {"none", "waiting", "other"},
   workflow : BOOLEAN, step : StepNames \cup {"none"}, waits : BOOLEAN,
   shown : BOOLEAN, old : BOOLEAN]

\* The first rule that holds decides.
LEMMA FirstRule ==
  ASSUME NEW e, NEW k \in 1..9, Rules(e)[k][1], \A j \in 1..(k - 1) : ~Rules(e)[j][1]
  PROVE  Classify(e) = Rules(e)[k][2]
<1> DEFINE First(i) == Rules(e)[i][1] /\ \A j \in 1..(i - 1) : ~Rules(e)[j][1]
           first == CHOOSE i \in 1..9 : First(i)
<1>1. DOMAIN Rules(e) = 1..9
  BY DEF Rules
<1>2. first \in 1..9 /\ First(first)
  OBVIOUS
<1>3. first = k
  <2>1. ~(first < k)
    <3>1. first < k => first \in 1..(k - 1)
      BY <1>2
    <3>2. QED
      BY <1>2, <3>1
  <2>2. ~(k < first)
    <3>1. k < first => k \in 1..(first - 1)
      BY <1>2
    <3>2. QED
      BY <1>2, <3>1
  <2>3. QED
    BY <1>2, <2>1, <2>2
<1>4. Classify(e) = Rules(e)[first][2]
  BY <1>1 DEF Classify
<1>5. QED
  BY <1>3, <1>4

LEMMA RulesAre ==
  ASSUME NEW e
  PROVE  /\ Rules(e)[1][1] <=> e.sent = "exact"
         /\ Rules(e)[2][1] <=> e.sent = "other"
         /\ Rules(e)[3][1] <=> e.notes = "waiting"
         /\ Rules(e)[4][1] <=> e.notes = "other"
         /\ Rules(e)[6][1] <=> e.step \in HandledSteps
         /\ Rules(e)[9][1]
         /\ Rules(e)[1][2] = "exact_adopted" /\ Rules(e)[2][2] = "modified_or_manual"
         /\ Rules(e)[3][2] = "waiting" /\ Rules(e)[4][2] = "handled_without_send"
         /\ Rules(e)[5][2] = "handled_without_send" /\ Rules(e)[6][2] = "handled_without_send"
         /\ Rules(e)[7][2] = "waiting" /\ Rules(e)[8][2] = "pending_review"
         /\ Rules(e)[9][2] = "no_followup_detected"
BY DEF Rules

LEMMA BooleanRulesAre ==
  ASSUME NEW e, e.workflow \in BOOLEAN, e.waits \in BOOLEAN, e.shown \in BOOLEAN,
         e.old \in BOOLEAN
  PROVE  /\ Rules(e)[5][1] <=> e.workflow
         /\ Rules(e)[7][1] <=> (e.waits \/ e.step \in WaitingSteps \/ e.shown)
         /\ Rules(e)[8][1] <=> ~e.old
BY DEF Rules

\* The classification, rule by rule.
LEMMA ClassifyIs ==
  ASSUME NEW e \in Gathered
  PROVE  Classify(e) =
           IF e.sent = "exact" THEN "exact_adopted"
           ELSE IF e.sent = "other" THEN "modified_or_manual"
           ELSE IF e.notes = "waiting" THEN "waiting"
           ELSE IF e.notes = "other" \/ e.workflow \/ e.step \in HandledSteps
                THEN "handled_without_send"
           ELSE IF e.waits \/ e.step \in WaitingSteps \/ e.shown THEN "waiting"
           ELSE IF e.old THEN "no_followup_detected" ELSE "pending_review"
<1> DEFINE Cond(i) == Rules(e)[i][1]
           Says(i) == Rules(e)[i][2]
<1>1. e.workflow \in BOOLEAN /\ e.waits \in BOOLEAN /\ e.shown \in BOOLEAN /\ e.old \in BOOLEAN
  BY DEF Gathered
<1>2. /\ Cond(1) <=> e.sent = "exact"
      /\ Cond(2) <=> e.sent = "other"
      /\ Cond(3) <=> e.notes = "waiting"
      /\ Cond(4) <=> e.notes = "other"
      /\ Cond(5) <=> e.workflow
      /\ Cond(6) <=> e.step \in HandledSteps
      /\ Cond(7) <=> (e.waits \/ e.step \in WaitingSteps \/ e.shown)
      /\ Cond(8) <=> ~e.old
      /\ Cond(9)
  BY <1>1, RulesAre, BooleanRulesAre
<1>3. /\ Says(1) = "exact_adopted" /\ Says(2) = "modified_or_manual" /\ Says(3) = "waiting"
      /\ Says(4) = "handled_without_send" /\ Says(5) = "handled_without_send"
      /\ Says(6) = "handled_without_send" /\ Says(7) = "waiting" /\ Says(8) = "pending_review"
      /\ Says(9) = "no_followup_detected"
  BY RulesAre
<1>4. \A k \in 1..9 : Cond(k) /\ (\A j \in 1..(k - 1) : ~Cond(j)) => Classify(e) = Says(k)
  BY FirstRule
<1> HIDE DEF Cond, Says
<1>5. /\ Cond(1) => Classify(e) = Says(1)
      /\ ~Cond(1) /\ Cond(2) => Classify(e) = Says(2)
      /\ ~Cond(1) /\ ~Cond(2) /\ Cond(3) => Classify(e) = Says(3)
      /\ ~Cond(1) /\ ~Cond(2) /\ ~Cond(3) /\ Cond(4) => Classify(e) = Says(4)
      /\ ~Cond(1) /\ ~Cond(2) /\ ~Cond(3) /\ ~Cond(4) /\ Cond(5) => Classify(e) = Says(5)
  BY <1>4
<1>6. ASSUME ~Cond(1), ~Cond(2), ~Cond(3), ~Cond(4), ~Cond(5)
      PROVE  /\ Cond(6) => Classify(e) = Says(6)
             /\ ~Cond(6) /\ Cond(7) => Classify(e) = Says(7)
             /\ ~Cond(6) /\ ~Cond(7) /\ Cond(8) => Classify(e) = Says(8)
             /\ ~Cond(6) /\ ~Cond(7) /\ ~Cond(8) /\ Cond(9) => Classify(e) = Says(9)
  BY <1>4, <1>6
<1>7. QED
  BY <1>2, <1>3, <1>5, <1>6

-----------------------------------------------------------------------------
(* What the refreshes know.                                                   *)

RowStatuses == Statuses \cup {"none"}
Refreshing ==
  [pc : {"messages", "evidence", "comments", "status", "write"}, conv : Drafted,
   existing : RowStatuses, evidence : Gathered, result : RowStatuses]

RefreshTyped ==
  /\ adoption \in [Convs -> RowStatuses]
  /\ refresh \in [Refreshers -> {NoRefresh} \cup Refreshing]

\* Somebody or something has dealt with the draft's conversation.
Worked(c) == Since(c, CommentKinds) # {} \/ c \in stepped \cup acted \/ checks[c] # {}

\* An answer is off the first page.
Cut(c) == \E i \in Since(c, AnswerKinds) : i \notin FirstPage(c)

\* What a status says of the conversation is so.
StatusTrue(c, status) ==
  /\ status \in TERMINAL_STATUSES => Since(c, AnswerKinds) # {}
  /\ status = "exact_adopted" => Since(c, {"exact"}) # {}
  /\ status = "handled_without_send" => Worked(c)

AdoptionTrue == \A c \in Convs, status \in RowStatuses : adoption[c] = status => StatusTrue(c, status)

\* The evidence of a stage has settled nothing yet; a settled draft is looked at
\* again by force only, and the first stage settles it again or fails, unless an
\* answer is off the first page.
Sound(r, R) ==
  /\ R.pc = "write" <=> R.result # "none"
  /\ R.pc \in {"evidence", "comments", "status"} => R.evidence.sent = "none"
  /\ R.pc \in {"comments", "status"} => ~RowSettles(R.evidence)
  /\ R.pc \in {"evidence", "comments", "status"} => R.evidence.notes = "none" /\ ~R.evidence.shown
  /\ R.pc = "evidence" => ~R.evidence.workflow
  /\ StatusTrue(R.conv, R.result) /\ StatusTrue(R.conv, R.existing)
  /\ R.existing \in TERMINAL_STATUSES => r \in Forcing
  /\ R.existing \in TERMINAL_STATUSES /\ ~Cut(R.conv) =>
       /\ R.pc \in {"messages", "write"}
       /\ R.result \in TERMINAL_STATUSES \cup {"none", "unknown"}
       /\ R.existing = "exact_adopted" => R.result # "modified_or_manual"

RefreshTrue == \A r \in Refreshers, R \in Refreshing : refresh[r] = R => Sound(r, R)

AdoptionInv == RefreshTyped /\ AdoptionTrue /\ RefreshTrue

\* A sent mail stays sent, a comment stays, and so does what a status says.
LEMMA StatusStays ==
  ASSUME ScanInv, [Next]_vars, NEW c \in Convs, NEW status, StatusTrue(c, status)
  PROVE  StatusTrue(c, status)'
<1>1. /\ items[c] \subseteq items'[c] /\ checks[c] \subseteq checks'[c]
      /\ acted \subseteq acted' /\ stepped \subseteq stepped'
  BY TimelineStep, Grows DEF ScanInv
<1>2. \A kinds : Since(c, kinds) # {} => Since(c, kinds)' # {}
  BY <1>1 DEF Since
<1>3. checks[c] # {} => checks'[c] # {}
  BY <1>1
<1>4. QED
  BY <1>1, <1>2, <1>3 DEF StatusTrue, Worked

\* What is off the first page stays off.
LEMMA CutStays ==
  ASSUME ScanInv, [Next]_vars, NEW c \in Convs, Cut(c)
  PROVE  Cut(c)'
<1>1. items[c] \subseteq items'[c] /\ TimelineTyped /\ TimelineKnown /\ TimelineKnown'
  BY TimelineStep, Grows DEF ScanInv
<1>2. PICK i \in Since(c, AnswerKinds) : i \notin FirstPage(c)
  BY DEF Cut
<1>3. i \in items[c] /\ i \in Since(c, AnswerKinds)'
  BY <1>1, <1>2 DEF Since
<1>4. i \notin FirstPage(c)'
  BY <1>1, <1>2, <1>3, PageMovesOn
<1>5. QED
  BY <1>3, <1>4 DEF Cut
-----------------------------------------------------------------------------
(* How a refresh moves.                                                       *)

LEMMA NotIdle ==
  ASSUME RefreshTyped, NEW r \in Refreshers,
         refresh[r].pc \in {"messages", "evidence", "comments", "status", "write"}
  PROVE  refresh[r] \in Refreshing /\ refresh[r] # NoRefresh
BY DEF RefreshTyped, NoRefresh

\* What the outcome of a stage makes of a refresh.
Settled(R, status) ==
  [pc |-> "write", conv |-> R.conv, existing |-> R.existing, evidence |-> NoEvidence,
   result |-> status]
Advanced(R, e, pc) ==
  [pc |-> pc, conv |-> R.conv, existing |-> R.existing, evidence |-> e, result |-> R.result]

LEMMA FieldsSettled ==
  ASSUME NEW R \in Refreshing, NEW status
  PROVE  [R EXCEPT !.pc = "write", !.evidence = NoEvidence, !.result = status] = Settled(R, status)
<1> DEFINE Fields == {"pc", "conv", "existing", "evidence", "result"}
           S == [R EXCEPT !.pc = "write", !.evidence = NoEvidence, !.result = status]
<1>1. S \in [Fields -> {S[i] : i \in Fields}]
  BY DEF Refreshing
<1>2. /\ S.pc = "write" /\ S.conv = R.conv /\ S.existing = R.existing
      /\ S.evidence = NoEvidence /\ S.result = status
  BY DEF Refreshing
<1>3. S = Settled(R, status)
  <2> HIDE DEF S
  <2>1. QED
    BY <1>1, <1>2 DEF Settled
<1>4. QED
  BY <1>3

LEMMA FieldsAdvanced ==
  ASSUME NEW R \in Refreshing, NEW e, NEW pc
  PROVE  [R EXCEPT !.evidence = e, !.pc = pc] = Advanced(R, e, pc)
<1> DEFINE Fields == {"pc", "conv", "existing", "evidence", "result"}
           S == [R EXCEPT !.evidence = e, !.pc = pc]
<1>1. S \in [Fields -> {S[i] : i \in Fields}]
  BY DEF Refreshing
<1>2. S.pc = pc /\ S.conv = R.conv /\ S.existing = R.existing /\ S.evidence = e /\ S.result = R.result
  BY DEF Refreshing
<1>3. S = Advanced(R, e, pc)
  <2> HIDE DEF S
  <2>1. QED
    BY <1>1, <1>2 DEF Advanced
<1>4. QED
  BY <1>3

LEMMA DecideMove ==
  ASSUME RefreshTyped, NEW r \in Refreshers, refresh[r] \in Refreshing, NEW status, Decide(r, status)
  PROVE  refresh' = [refresh EXCEPT ![r] = Settled(refresh[r], status)]
<1> DEFINE R == refresh[r]
           new == [R EXCEPT !.pc = "write", !.evidence = NoEvidence, !.result = status]
<1>1. refresh' = [refresh EXCEPT ![r] = new]
  BY DEF Decide, RefreshTyped
<1>2. new = Settled(R, status)
  BY FieldsSettled, Zenon
<1>3. QED
  BY <1>1, <1>2

LEMMA GatherMove ==
  ASSUME RefreshTyped, NEW r \in Refreshers, NEW pc \in {"messages", "evidence", "comments", "status"},
         NEW e, Gather(r, pc, e)
  PROVE  /\ refresh[r] \in Refreshing /\ refresh[r].pc = pc /\ refresh[r] # NoRefresh /\ Unread
         /\ refresh' = [refresh EXCEPT ![r] =
              IF After(pc, e) = "write" THEN Settled(refresh[r], Classify(e))
              ELSE Advanced(refresh[r], e, After(pc, e))]
<1>1. refresh[r] \in Refreshing /\ refresh[r].pc = pc /\ refresh[r] # NoRefresh /\ Unread
  BY NotIdle DEF Gather
<1>2. CASE After(pc, e) = "write"
  <2>1. Decide(r, Classify(e))
    BY <1>2 DEF Gather
  <2>2. QED
    BY <1>1, <1>2, <2>1, DecideMove
<1>3. CASE After(pc, e) # "write"
  <2> DEFINE R == refresh[r]
             new == [R EXCEPT !.evidence = e, !.pc = After(pc, e)]
  <2>1. refresh' = [refresh EXCEPT ![r] = new]
    BY <1>3 DEF Gather, RefreshTyped
  <2>2. new = Advanced(R, e, After(pc, e))
    <3>1. ASSUME NEW next PROVE [R EXCEPT !.evidence = e, !.pc = next] = Advanced(R, e, next)
      BY <1>1, FieldsAdvanced, Zenon
    <3>2. QED
      BY <3>1, Zenon
  <2>3. QED
    BY <1>1, <1>3, <2>1, <2>2
<1>4. QED
  BY <1>2, <1>3

LEMMA AfterIs ==
  ASSUME NEW e
  PROVE  /\ After("messages", e) = IF Classify(e) \in TERMINAL_STATUSES THEN "write" ELSE "evidence"
         /\ After("evidence", e) = IF Content(Classify(e)) THEN "write" ELSE "comments"
         /\ After("comments", e) = IF Content(Classify(e)) THEN "write" ELSE "status"
         /\ After("status", e) = "write"
BY DEF After

\* What follows from a verdict, and from none.
LEMMA VerdictMeans ==
  ASSUME NEW e \in Gathered
  PROVE  /\ Classify(e) \in Statuses \ {"unknown"}
         /\ Classify(e) \in TERMINAL_STATUSES <=> e.sent # "none"
         /\ Classify(e) = "exact_adopted" <=> e.sent = "exact"
         /\ Classify(e) = "handled_without_send" =>
              e.notes = "other" \/ e.workflow \/ e.step \in HandledSteps
         /\ e.sent = "none" /\ ~Content(Classify(e)) =>
              e.notes = "none" /\ ~RowSettles(e) /\ ~e.shown
<1>1. e.sent \in {"none", "exact", "other"} /\ e.notes \in {"none", "waiting", "other"}
  BY DEF Gathered
<1>2. QED
  BY <1>1, ClassifyIs DEF Statuses, TERMINAL_STATUSES, Content, RowSettles

LEMMA NothingGathered ==
  /\ NoEvidence \in Gathered
  /\ NoEvidence.sent = "none" /\ NoEvidence.notes = "none" /\ NoEvidence.step = "none"
  /\ ~NoEvidence.workflow /\ ~NoEvidence.waits /\ ~NoEvidence.shown
BY DEF NoEvidence, Gathered

LEMMA FactsGathered ==
  ASSUME ScanInv, NEW c \in Convs
  PROVE  /\ Sent(c) \in {"none", "exact", "other"} /\ Noted(c) \in {"none", "waiting", "other"}
         /\ Workflow(c) \in BOOLEAN /\ step[c] \in StepNames \cup {"none"}
         /\ Workflow(c) => Worked(c)
         /\ Noted(c) # "none" => Worked(c)
         /\ step[c] \in HandledSteps => Worked(c)
         /\ Sent(c) # "none" => Since(c, AnswerKinds) # {}
         /\ Sent(c) = "exact" => Since(c, {"exact"}) # {}
         /\ ~Cut(c) /\ Since(c, AnswerKinds) # {} => Sent(c) # "none"
         /\ ~Cut(c) /\ Since(c, {"exact"}) # {} => Sent(c) = "exact"
<1>1. Noted(c) \in {"none", "waiting", "other"} /\ (Noted(c) # "none" => Worked(c))
  BY DEF Noted, Worked
<1>2. Workflow(c) \in BOOLEAN /\ (Workflow(c) => Worked(c))
  BY DEF Workflow, Worked
<1>3. step[c] \in StepNames \cup {"none"} /\ (step[c] \in HandledSteps => Worked(c))
  BY DEF ScanInv, TimelineTyped, Worked
<1>4. Since(c, {"exact"}) \subseteq Since(c, AnswerKinds)
  BY DEF Since, AnswerKinds
<1>5. ~Cut(c) => Since(c, AnswerKinds) \subseteq FirstPage(c)
  BY DEF Cut
<1>6. QED
  BY <1>1, <1>2, <1>3, <1>4, <1>5 DEF Sent

\* A stage that leaves a settled refresh, or one in its next stage.
LEMMA SettledSound ==
  ASSUME NEW r \in Refreshers, NEW R \in Refreshing, Sound(r, R), R.pc # "write",
         NEW status \in RowStatuses \ {"none"}, StatusTrue(R.conv, status),
         R.existing \in TERMINAL_STATUSES /\ ~Cut(R.conv) =>
           /\ status \in TERMINAL_STATUSES \cup {"unknown"}
           /\ R.existing = "exact_adopted" => status # "modified_or_manual"
  PROVE  Settled(R, status) \in Refreshing /\ Sound(r, Settled(R, status))
<1> DEFINE S == Settled(R, status)
<1>1. /\ S.pc = "write" /\ S.conv = R.conv /\ S.existing = R.existing /\ S.evidence = NoEvidence
      /\ S.result = status
  BY DEF Settled
<1>2. S \in Refreshing
  BY NothingGathered DEF Settled, Refreshing
<1>3. Sound(r, S)
  BY <1>1 DEF Sound
<1>4. QED
  BY <1>2, <1>3

LEMMA AdvancedSound ==
  ASSUME NEW r \in Refreshers, NEW R \in Refreshing, Sound(r, R), R.pc # "write",
         R.existing \notin TERMINAL_STATUSES \/ Cut(R.conv), NEW e \in Gathered,
         NEW pc \in {"evidence", "comments", "status"},
         e.sent = "none", e.notes = "none", ~e.shown, ~e.workflow,
         pc # "evidence" => ~RowSettles(e)
  PROVE  Advanced(R, e, pc) \in Refreshing /\ Sound(r, Advanced(R, e, pc))
<1> DEFINE S == Advanced(R, e, pc)
<1>1. /\ S.pc = pc /\ S.conv = R.conv /\ S.existing = R.existing /\ S.evidence = e
      /\ S.result = R.result
  BY DEF Advanced
<1>2. S \in Refreshing
  BY DEF Advanced, Refreshing
<1>3. R.result = "none"
  BY DEF Sound
<1>4. Sound(r, S)
  BY <1>1, <1>3 DEF Sound
<1>5. QED
  BY <1>2, <1>4
-----------------------------------------------------------------------------
(* Every step keeps what the refreshes and the rows say.                      *)

\* While the timelines stand still, what they say is what they said.
LEMMA QuietStatus ==
  ASSUME Quiet, NEW c
  PROVE  /\ Cut(c)' <=> Cut(c)
         /\ \A status : StatusTrue(c, status)' <=> StatusTrue(c, status)
<1>1. \A kinds : Since(c, kinds)' = Since(c, kinds)
  BY DEF Quiet, Since
<1>2. FirstPage(c)' = FirstPage(c)
  <2>1. \A i : Newer(c, i)' = Newer(c, i)
    BY DEF Quiet, Newer
  <2>2. QED
    BY <2>1 DEF Quiet, FirstPage
<1>3. QED
  BY <1>1, <1>2 DEF Quiet, rows, Cut, StatusTrue, Worked

\* One refresh moves, and the rows stand still.
LEMMA RefreshMoves ==
  ASSUME AdoptionInv, Quiet, UNCHANGED adoption, NEW r \in Refreshers,
         NEW S \in Refreshing, Sound(r, S), refresh' = [refresh EXCEPT ![r] = S]
  PROVE  AdoptionInv'
<1>1. RefreshTyped'
  BY DEF AdoptionInv, RefreshTyped
<1>2. AdoptionTrue'
  BY QuietStatus DEF AdoptionInv, AdoptionTrue
<1>3. ASSUME NEW q \in Refreshers, NEW R \in Refreshing, refresh'[q] = R PROVE Sound(q, R)'
  <2>1. Sound(q, R)
    BY <1>3 DEF AdoptionInv, RefreshTrue, RefreshTyped
  <2>2. QED
    BY <2>1, QuietStatus DEF Sound
<1>4. QED
  BY <1>1, <1>2, <1>3 DEF AdoptionInv, RefreshTrue

\* A stage: what it gathers is so, and it settles the refresh or goes on.
LEMMA GatherStep ==
  ASSUME ScanInv, AdoptionInv, NEW r \in Refreshers, refresh[r].pc # "idle",
         NEW pc \in {"messages", "evidence", "comments", "status"}, NEW e \in Gathered,
         Gather(r, pc, e),
         e.sent # "none" => pc = "messages" /\ e.sent = Sent(refresh[r].conv),
         pc = "messages" => e.sent = Sent(refresh[r].conv),
         e.notes = "none" \/ Noted(refresh[r].conv) # "none",
         e.workflow => Worked(refresh[r].conv),
         e.step \in HandledSteps => Worked(refresh[r].conv),
         pc = "messages" => e.notes = "none" /\ ~e.workflow /\ ~e.shown
  PROVE  AdoptionInv'
<1> DEFINE R == refresh[r]
           status == Classify(e)
<1>1. /\ R \in Refreshing /\ R.pc = pc /\ R # NoRefresh /\ Unread
      /\ refresh' = [refresh EXCEPT ![r] =
           IF After(pc, e) = "write" THEN Settled(R, status) ELSE Advanced(R, e, After(pc, e))]
  BY GatherMove DEF AdoptionInv
<1>2. Sound(r, R) /\ R.conv \in Convs
  BY <1>1, TimelineAssumption DEF AdoptionInv, RefreshTrue, Refreshing
<1>3. /\ status \in Statuses \ {"unknown"} /\ status \in RowStatuses \ {"none"}
      /\ status \in TERMINAL_STATUSES <=> e.sent # "none"
      /\ status = "exact_adopted" <=> e.sent = "exact"
      /\ status = "handled_without_send" => e.notes = "other" \/ e.workflow \/ e.step \in HandledSteps
      /\ e.sent = "none" /\ ~Content(status) =>
           e.notes = "none" /\ ~RowSettles(e) /\ ~e.shown
  BY VerdictMeans DEF RowStatuses, Statuses, TERMINAL_STATUSES
<1>4. Quiet /\ UNCHANGED adoption
  BY <1>1 DEF Unread, Quiet, timelineVars, front
<1>5. StatusTrue(R.conv, status)
  <2>1. /\ e.sent # "none" => Since(R.conv, AnswerKinds) # {}
        /\ e.sent = "exact" => Since(R.conv, {"exact"}) # {}
        /\ e.notes = "other" => Worked(R.conv)
    BY <1>2, FactsGathered
  <2>2. QED
    BY <1>3, <2>1 DEF StatusTrue
<1>6. R.existing \in TERMINAL_STATUSES /\ ~Cut(R.conv) =>
        pc = "messages" /\ status \in TERMINAL_STATUSES
  <2>1. ASSUME R.existing \in TERMINAL_STATUSES, ~Cut(R.conv)
        PROVE  pc = "messages" /\ Sent(R.conv) # "none"
    BY <1>1, <1>2, <2>1, FactsGathered DEF Sound, StatusTrue
  <2>2. QED
    BY <1>3, <2>1
<1>7. R.existing = "exact_adopted" /\ ~Cut(R.conv) => status # "modified_or_manual"
  <2>1. ASSUME R.existing = "exact_adopted", ~Cut(R.conv) PROVE status = "exact_adopted"
    <3>1. Sent(R.conv) = "exact" /\ pc = "messages"
      BY <1>2, <1>6, <2>1, FactsGathered DEF Sound, StatusTrue, TERMINAL_STATUSES
    <3>2. QED
      BY <1>3, <3>1
  <2>2. QED
    BY <2>1
<1>8. CASE After(pc, e) = "write"
  <2>1. Settled(R, status) \in Refreshing /\ Sound(r, Settled(R, status))
    <3> HIDE DEF R, status
    <3>1. QED
      BY <1>1, <1>2, <1>3, <1>5, <1>6, <1>7, SettledSound
  <2>2. QED
    BY <1>1, <1>4, <1>8, <2>1, RefreshMoves
<1>9. CASE After(pc, e) # "write"
  <2>1. /\ e.sent = "none" /\ After(pc, e) \in {"evidence", "comments", "status"}
        /\ After(pc, e) # "evidence" => ~Content(status)
        /\ After(pc, e) = "evidence" => pc = "messages"
    BY <1>1, <1>2, <1>3, <1>9, AfterIs DEF Content, TERMINAL_STATUSES
  <2>2. /\ e.notes = "none" /\ ~e.workflow /\ ~e.shown
        /\ After(pc, e) # "evidence" => ~RowSettles(e)
    BY <1>3, <2>1 DEF RowSettles
  <2>3. R.existing \notin TERMINAL_STATUSES \/ Cut(R.conv)
    BY <1>3, <1>6, <2>1
  <2>4. Advanced(R, e, After(pc, e)) \in Refreshing /\ Sound(r, Advanced(R, e, After(pc, e)))
    <3> HIDE DEF R, status
    <3>1. QED
      BY <1>1, <1>2, <2>1, <2>2, <2>3, AdvancedSound
  <2>5. QED
    BY <1>1, <1>4, <1>9, <2>4, RefreshMoves
<1>10. QED
  BY <1>8, <1>9

LEMMA LoadMessagesStep ==
  ASSUME ScanInv, AdoptionInv, NEW r \in Refreshers, LoadMessages(r)
  PROVE  AdoptionInv'
<1> DEFINE c == refresh[r].conv
           e == [NoEvidence EXCEPT !.sent = Sent(c), !.old = now - FirstMail[c] >= PendingAfter]
<1>1. Gather(r, "messages", e) /\ refresh[r].pc = "messages"
  BY DEF LoadMessages, Gather
<1>2. c \in Convs
  BY <1>1, NotIdle, TimelineAssumption DEF AdoptionInv, Refreshing
<1>3. (now - FirstMail[c] >= PendingAfter) \in BOOLEAN
  OBVIOUS
<1>4. /\ e \in Gathered /\ e.sent = Sent(c) /\ e.notes = "none" /\ e.step = "none"
      /\ ~e.workflow /\ ~e.shown
  BY <1>2, <1>3, FactsGathered DEF NoEvidence, Gathered
<1>5. e.step \notin HandledSteps
  BY <1>4 DEF HandledSteps
<1> HIDE DEF e
<1>6. QED
  BY <1>1, <1>4, <1>5, GatherStep
\* What the later stages start from.
LEMMA StageKnown ==
  ASSUME AdoptionInv, NEW r \in Refreshers, refresh[r].pc \in {"evidence", "comments", "status"}
  PROVE  /\ refresh[r].evidence \in Gathered /\ refresh[r].conv \in Convs
         /\ refresh[r].evidence.sent = "none" /\ refresh[r].evidence.notes = "none"
         /\ refresh[r].pc # "status" => ~refresh[r].evidence.shown
         /\ ~refresh[r].evidence.workflow
         /\ refresh[r].pc # "evidence" => refresh[r].evidence.step \notin HandledSteps
<1>1. refresh[r] \in Refreshing
  BY NotIdle DEF AdoptionInv
<1>2. Sound(r, refresh[r])
  BY <1>1 DEF AdoptionInv, RefreshTrue
<1>3. QED
  BY <1>1, <1>2, TimelineAssumption DEF Refreshing, Sound, RowSettles

LEMMA ReadEvidenceStep ==
  ASSUME ScanInv, AdoptionInv, NEW r \in Refreshers, ReadEvidence(r)
  PROVE  AdoptionInv'
<1> DEFINE c == refresh[r].conv
           old == refresh[r].evidence
           e == [old EXCEPT !.workflow = Workflow(c), !.step = step[c], !.waits = c \in waiting]
<1>1. Gather(r, "evidence", e) /\ refresh[r].pc = "evidence"
  BY DEF ReadEvidence, Gather
<1>2. /\ c \in Convs /\ old \in Gathered /\ old.sent = "none" /\ old.notes = "none" /\ ~old.shown
  BY <1>1, StageKnown
<1>3. /\ Workflow(c) \in BOOLEAN /\ step[c] \in StepNames \cup {"none"}
      /\ Workflow(c) => Worked(c)
      /\ step[c] \in HandledSteps => Worked(c)
      /\ (c \in waiting) \in BOOLEAN
  BY <1>2, FactsGathered
<1>4. /\ e \in Gathered /\ e.sent = old.sent /\ e.notes = old.notes /\ e.shown = old.shown
      /\ e.workflow = Workflow(c) /\ e.step = step[c]
  <2> HIDE DEF old
  <2>1. QED
    BY <1>2, <1>3 DEF Gathered
<1>5. e.step \in HandledSteps => Worked(c)
  BY <1>3, <1>4
<1> HIDE DEF e
<1>6. QED
  BY <1>1, <1>2, <1>3, <1>4, <1>5, GatherStep

LEMMA LoadCommentsStep ==
  ASSUME ScanInv, AdoptionInv, NEW r \in Refreshers, LoadComments(r)
  PROVE  AdoptionInv'
<1> DEFINE c == refresh[r].conv
           old == refresh[r].evidence
           e == [old EXCEPT !.notes = Noted(c)]
<1>1. Gather(r, "comments", e) /\ refresh[r].pc = "comments"
  BY DEF LoadComments, Gather
<1>2. /\ c \in Convs /\ old \in Gathered /\ old.sent = "none" /\ ~old.workflow
      /\ old.step \notin HandledSteps
  BY <1>1, StageKnown
<1>3. Noted(c) \in {"none", "waiting", "other"}
  BY <1>2, FactsGathered
<1>4. /\ e \in Gathered /\ e.sent = old.sent /\ e.notes = Noted(c) /\ e.workflow = old.workflow
      /\ e.step = old.step
  <2> HIDE DEF old
  <2>1. QED
    BY <1>2, <1>3 DEF Gathered
<1> HIDE DEF e
<1>5. QED
  BY <1>1, <1>2, <1>4, GatherStep

LEMMA LoadStatusStep ==
  ASSUME ScanInv, AdoptionInv, NEW r \in Refreshers, LoadStatus(r)
  PROVE  AdoptionInv'
<1> DEFINE c == refresh[r].conv
           old == refresh[r].evidence
           e == [old EXCEPT !.shown = c \in open]
<1>1. Gather(r, "status", e) /\ refresh[r].pc = "status"
  BY DEF LoadStatus, Gather
<1>2. /\ old \in Gathered /\ old.sent = "none" /\ old.notes = "none" /\ ~old.workflow
      /\ old.step \notin HandledSteps
  BY <1>1, StageKnown
<1>3. (c \in open) \in BOOLEAN
  OBVIOUS
<1>4. /\ e \in Gathered /\ e.sent = old.sent /\ e.notes = old.notes /\ e.workflow = old.workflow
      /\ e.step = old.step
  <2> HIDE DEF old
  <2>1. QED
    BY <1>2, <1>3 DEF Gathered
<1> HIDE DEF e
<1>5. QED
  BY <1>1, <1>2, <1>4, GatherStep

LEMMA LoadFailsStep ==
  ASSUME ScanInv, AdoptionInv, NEW r \in Refreshers, LoadFails(r)
  PROVE  AdoptionInv'
<1> DEFINE R == refresh[r]
<1>1. /\ R \in Refreshing /\ R.pc \in {"messages", "comments", "status"}
      /\ Quiet /\ UNCHANGED adoption
  BY NotIdle DEF AdoptionInv, LoadFails, Quiet, front
<1>2. refresh' = [refresh EXCEPT ![r] = Settled(R, "unknown")]
  BY <1>1, DecideMove DEF AdoptionInv, LoadFails
<1>3. Sound(r, R)
  BY <1>1 DEF AdoptionInv, RefreshTrue
<1>4. "unknown" \in RowStatuses \ {"none"} /\ StatusTrue(R.conv, "unknown")
  BY DEF RowStatuses, Statuses, StatusTrue, TERMINAL_STATUSES
<1>5. Settled(R, "unknown") \in Refreshing /\ Sound(r, Settled(R, "unknown"))
  BY <1>1, <1>3, <1>4, SettledSound
<1>6. QED
  BY <1>1, <1>2, <1>5, RefreshMoves

LEMMA StartStep ==
  ASSUME ScanInv, AdoptionInv, NEW r \in Refreshers, NEW c \in Convs, StartRefresh(r, c)
  PROVE  AdoptionInv'
<1> DEFINE S == [pc |-> "messages", conv |-> c, existing |-> adoption[c],
                 evidence |-> NoEvidence, result |-> "none"]
<1>1. /\ refresh' = [refresh EXCEPT ![r] = S] /\ c \in Drafted
      /\ adoption[c] \in TERMINAL_STATUSES => r \in Forcing
      /\ Quiet /\ UNCHANGED adoption
  BY DEF StartRefresh, Begin, Unread, Quiet, timelineVars, front
<1>2. adoption[c] \in RowStatuses /\ "none" \in RowStatuses /\ StatusTrue(c, adoption[c])
  BY DEF AdoptionInv, RefreshTyped, AdoptionTrue, RowStatuses
<1>3. S \in Refreshing
  BY <1>1, <1>2, NothingGathered DEF Refreshing
<1>4. StatusTrue(c, "none")
  BY DEF StatusTrue, TERMINAL_STATUSES
<1>5. Sound(r, S)
  BY <1>1, <1>2, <1>4 DEF Sound
<1>6. QED
  BY <1>1, <1>3, <1>5, RefreshMoves

LEMMA WriteStep ==
  ASSUME ScanInv, AdoptionInv, NEW r \in Refreshers, WriteStatus(r)
  PROVE  AdoptionInv'
<1> DEFINE R == refresh[r]
<1>1. R \in Refreshing /\ R.pc = "write" /\ Quiet
  BY NotIdle DEF AdoptionInv, WriteStatus, Quiet, timelineVars, front
<1>2. Sound(r, R) /\ R.conv \in Convs
  BY <1>1, TimelineAssumption DEF AdoptionInv, RefreshTrue, Refreshing
<1>3. R.result \in RowStatuses /\ StatusTrue(R.conv, R.result)
  BY <1>1, <1>2 DEF Sound, Refreshing
<1>4. /\ \A c \in Convs \ {R.conv} : adoption'[c] = adoption[c]
      /\ adoption'[R.conv] \in {adoption[R.conv], R.result}
      /\ refresh' = [refresh EXCEPT ![r] = NoRefresh]
      /\ adoption' \in [Convs -> RowStatuses]
  BY <1>2, <1>3 DEF WriteStatus, AdoptionInv, RefreshTyped
<1>5. RefreshTyped'
  BY <1>4 DEF AdoptionInv, RefreshTyped
<1>6. ASSUME NEW c \in Convs, NEW status \in RowStatuses, adoption'[c] = status
      PROVE  StatusTrue(c, status)'
  <2>1. StatusTrue(c, status)
    BY <1>3, <1>4, <1>6 DEF AdoptionInv, AdoptionTrue
  <2>2. QED
    BY <1>1, <2>1, QuietStatus
<1>7. ASSUME NEW q \in Refreshers, NEW Q \in Refreshing, refresh'[q] = Q PROVE Sound(q, Q)'
  <2>1. NoRefresh \notin Refreshing
    BY DEF NoRefresh, Refreshing
  <2>2. refresh[q] = Q
    BY <1>4, <1>7, <2>1 DEF AdoptionInv, RefreshTyped
  <2>3. Sound(q, Q)
    BY <2>2 DEF AdoptionInv, RefreshTrue
  <2>4. QED
    BY <1>1, <2>3, QuietStatus DEF Sound
<1>8. QED
  BY <1>5, <1>6, <1>7 DEF AdoptionInv, AdoptionTrue, RefreshTrue

\* The refreshes and the rows stand still while the timelines grow.
LEMMA OthersStep ==
  ASSUME ScanInv, AdoptionInv, [Next]_vars, UNCHANGED adoptionVars
  PROVE  AdoptionInv'
<1>1. RefreshTyped'
  BY DEF AdoptionInv, RefreshTyped, adoptionVars
<1>2. AdoptionTrue'
  BY StatusStays DEF AdoptionInv, AdoptionTrue, adoptionVars
<1>3. ASSUME NEW q \in Refreshers, NEW R \in Refreshing, refresh'[q] = R PROVE Sound(q, R)'
  <2>1. Sound(q, R) /\ R.conv \in Convs
    BY <1>3, TimelineAssumption DEF AdoptionInv, RefreshTrue, adoptionVars, Refreshing
  <2>2. /\ \A status : StatusTrue(R.conv, status) => StatusTrue(R.conv, status)'
        /\ Cut(R.conv) => Cut(R.conv)'
    BY <2>1, StatusStays, CutStays
  <2>3. QED
    BY <2>1, <2>2 DEF Sound
<1>4. QED
  BY <1>1, <1>2, <1>3 DEF AdoptionInv, RefreshTrue

LEMMA CrashStep ==
  ASSUME ScanInv, AdoptionInv, Crash
  PROVE  AdoptionInv'
<1>1. /\ Quiet /\ adoption' = adoption /\ refresh' = [r \in Refreshers |-> NoRefresh]
  BY DEF Crash, StopRefreshes, Quiet, front
<1>2. RefreshTyped'
  BY <1>1 DEF AdoptionInv, RefreshTyped
<1>3. AdoptionTrue'
  BY <1>1, QuietStatus DEF AdoptionInv, AdoptionTrue
<1>4. RefreshTrue'
  <2>1. NoRefresh \notin Refreshing
    BY DEF NoRefresh, Refreshing
  <2>2. QED
    BY <1>1, <2>1 DEF RefreshTrue
<1>5. QED
  BY <1>2, <1>3, <1>4 DEF AdoptionInv

LEMMA AdoptionStep ==
  ASSUME ScanInv, AdoptionInv, [Next]_vars
  PROVE  AdoptionInv'
<1>1. CASE (People \/ Tick) /\ UNCHANGED <<reminderVars, adoptionVars>>
  BY <1>1, OthersStep
<1>2. CASE RunScan
  BY <1>2, OthersStep DEF RunScan
<1>3. ASSUME NEW r \in Refreshers, RunRefresh(r) PROVE AdoptionInv'
  BY <1>3, StartStep, LoadMessagesStep, ReadEvidenceStep, LoadCommentsStep, LoadStatusStep,
     WriteStep DEF RunRefresh, Start, Refresh
<1>4. ASSUME NEW r \in Refreshers, LoadFails(r) PROVE AdoptionInv'
  BY <1>4, LoadFailsStep
<1>5. CASE Crash
  BY <1>5, CrashStep
<1>6. CASE UNCHANGED vars
  BY <1>6, OthersStep DEF vars
<1>7. QED
  BY <1>1, <1>2, <1>3, <1>4, <1>5, <1>6 DEF Next

LEMMA AdoptionInvInit == Init => AdoptionInv
<1> SUFFICES ASSUME Init PROVE AdoptionInv
  OBVIOUS
<1>1. adoption = [c \in Convs |-> "none"] /\ refresh = [r \in Refreshers |-> NoRefresh]
  BY DEF Init, AdoptionInit
<1>2. NoRefresh \notin Refreshing
  BY DEF NoRefresh, Refreshing
<1>3. RefreshTyped
  BY <1>1 DEF RefreshTyped, RowStatuses
<1>4. AdoptionTrue
  BY <1>1 DEF AdoptionTrue, StatusTrue, TERMINAL_STATUSES
<1>5. RefreshTrue
  BY <1>1, <1>2 DEF RefreshTrue
<1>6. QED
  BY <1>3, <1>4, <1>5 DEF AdoptionInv

LEMMA InductiveInvariant == Spec => [](ScanInv /\ AdoptionInv)
<1>1. Init => ScanInv /\ AdoptionInv
  BY ScanInvInit, AdoptionInvInit
<1>2. ScanInv /\ AdoptionInv /\ [Next]_vars => (ScanInv /\ AdoptionInv)'
  BY ScanInvStep, AdoptionStep
<1>3. QED
  BY <1>1, <1>2, PTL DEF Spec

-----------------------------------------------------------------------------
(* What the refreshes guarantee.                                              *)

\* The timelines, the scan's lists and the refreshes keep their shapes.
THEOREM TypeCorrect == Spec => []TypeOK
<1>1. ScanInv /\ AdoptionInv => TypeOK
  <2> SUFFICES ASSUME ScanInv, AdoptionInv PROVE TypeOK
    OBVIOUS
  <2>1. /\ now \in Times /\ events \in 0..MaxEvents /\ faults \in 0..MaxFaults
        /\ \A c \in Convs : items[c] \subseteq [kind : ItemKinds, at : Times]
        /\ open \subseteq Convs
        /\ updated \in [Convs -> Times]
        /\ \A c \in Convs : checks[c] \subseteq [message : Times, at : Times]
    BY DEF ScanInv, TimelineTyped, Item, Check
  <2>2. ToSet(scan.load) \subseteq Scope /\ ToSet(scan.decide) \subseteq Decision
    BY ScanParts, InSequence DEF ScanInv
  <2>3. /\ scan.pc \in {"idle", "load", "decide", "record"}
        /\ scan.pc = "record" => Current.verdict = "due"
    BY ScanParts DEF ScanInv, ScanTyped
  <2>4. /\ ToSet(scan.load) \cup {d.conv : d \in ToSet(scan.decide)} \subseteq Support \cup Assigned
        /\ {d.verdict : d \in ToSet(scan.decide)} \subseteq Verdicts
    BY <2>2 DEF Decision, Scope
  <2>5. /\ step \in [Convs -> StepNames \cup {"none"}]
        /\ waiting \cup acted \cup stepped \subseteq Drafted
        /\ adoption \in [Convs -> Statuses \cup {"none"}]
        /\ \A r \in Refreshers : refresh[r] # NoRefresh => refresh[r].conv \in Drafted
    BY DEF ScanInv, TimelineTyped, AdoptionInv, RefreshTyped, RowStatuses, Refreshing
  <2>6. QED
    BY <2>1, <2>3, <2>4, <2>5 DEF TypeOK
<1>2. QED
  BY <1>1, InductiveInvariant, PTL

\* A draft counts as handled without an answer only if somebody commented, the
\* step was once a handled one, or another action or a check was recorded:
\* _workflow_evidence.
THEOREM HandledWasWorkedOn == Spec => []HandledNeedsWork
<1>1. AdoptionInv => HandledNeedsWork
  BY DEF AdoptionInv, AdoptionTrue, RefreshTyped, RowStatuses, Statuses, StatusTrue, Worked,
     HandledNeedsWork
<1>2. QED
  BY <1>1, InductiveInvariant, PTL

\* refresh_draft_adoptions takes a counted reply back only when it had read the
\* row before, or by force without an answer of Front; an exact adoption stays.
THEOREM VerdictsOnlyImprove == Spec => VerdictOnlyImproves
<1>1. ASSUME ScanInv, AdoptionInv, [Next]_vars, NEW c \in Convs,
             adoption[c] \in TERMINAL_STATUSES, adoption'[c] # adoption[c]
      PROVE  \/ adoption[c] = "modified_or_manual" /\ adoption'[c] = "exact_adopted"
             \/ \E r \in Refreshers :
                  /\ refresh[r].pc = "write" /\ refresh[r].conv = c
                  /\ \/ refresh[r].existing \notin TERMINAL_STATUSES
                     \/ r \in Forcing /\ refresh[r].result = "unknown"
                     \/ r \in Forcing /\ ~(Since(c, AnswerKinds) \subseteq FirstPage(c))
  <2>1. PICK r \in Refreshers : WriteStatus(r)
    BY <1>1 DEF Next, RunScan, RunRefresh, Start, StartRefresh, Begin, Refresh, LoadMessages,
       ReadEvidence, LoadComments, LoadStatus, LoadFails, Gather, Unread, Crash, StopRefreshes,
       vars, adoptionVars
  <2> DEFINE R == refresh[r]
  <2>2. R \in Refreshing /\ R.pc = "write"
    BY <1>1, <2>1, NotIdle DEF AdoptionInv, WriteStatus
  <2>3. Sound(r, R)
    BY <1>1, <2>2 DEF AdoptionInv, RefreshTrue
  <2>4. /\ c = R.conv /\ adoption'[c] = R.result /\ R.existing # R.result
    BY <1>1, <2>1 DEF WriteStatus, AdoptionInv, RefreshTyped
  <2>5. CASE R.existing \notin TERMINAL_STATUSES
    BY <2>2, <2>4, <2>5
  <2>6. CASE R.existing \in TERMINAL_STATUSES /\ Cut(R.conv)
    <3>1. r \in Forcing /\ ~(Since(c, AnswerKinds) \subseteq FirstPage(c))
      BY <2>3, <2>4, <2>6 DEF Sound, Cut
    <3>2. QED
      BY <2>2, <2>4, <3>1
  <2>7. CASE R.existing \in TERMINAL_STATUSES /\ ~Cut(R.conv)
    <3>1. /\ r \in Forcing /\ R.result # "none"
          /\ R.result \in TERMINAL_STATUSES \cup {"none", "unknown"}
          /\ R.existing = "exact_adopted" => R.result # "modified_or_manual"
      BY <2>2, <2>3, <2>7 DEF Sound
    <3>2. R.result = "unknown" \/ R.result = "exact_adopted"
      BY <2>4, <2>7, <3>1 DEF TERMINAL_STATUSES
    <3>3. QED
      BY <1>1, <2>2, <2>4, <3>1, <3>2 DEF TERMINAL_STATUSES
  <2>8. QED
    BY <2>5, <2>6, <2>7
<1>2. ScanInv /\ AdoptionInv /\ [Next]_vars =>
        [\A c \in Convs :
           adoption[c] \in TERMINAL_STATUSES /\ adoption'[c] # adoption[c] =>
             \/ adoption[c] = "modified_or_manual" /\ adoption'[c] = "exact_adopted"
             \/ \E r \in Refreshers :
                  /\ refresh[r].pc = "write" /\ refresh[r].conv = c
                  /\ \/ refresh[r].existing \notin TERMINAL_STATUSES
                     \/ r \in Forcing /\ refresh[r].result = "unknown"
                     \/ r \in Forcing /\ ~(Since(c, AnswerKinds) \subseteq FirstPage(c))]_adoption
  BY <1>1
<1>3. QED
  BY <1>2, InductiveInvariant, PTL DEF Spec, VerdictOnlyImproves
-----------------------------------------------------------------------------
(* The stages in which a refresh gathers its evidence.                        *)

\* The verdict of the stages from one on.
FromStatus(e) == Classify(Stage(e, "status"))
FromComments(e) ==
  IF Content(Classify(Stage(e, "comments"))) THEN Classify(Stage(e, "comments")) ELSE FromStatus(e)
FromEvidence(e) ==
  IF Content(Classify(Stage(e, "evidence"))) THEN Classify(Stage(e, "evidence")) ELSE FromComments(e)
FromMessages(e) ==
  IF Classify(Stage(e, "messages")) \in TERMINAL_STATUSES THEN Classify(Stage(e, "messages"))
  ELSE FromEvidence(e)

LEMMA StagedIs ==
  ASSUME NEW e
  PROVE  Staged(e) = FromMessages(e)
<1> DEFINE pcs == {"messages", "evidence", "comments", "status", "write"}
           From(v, pc) == IF After(pc, Stage(e, pc)) = "write" THEN Classify(Stage(e, pc))
                         ELSE v[After(pc, Stage(e, pc))]
           Unfold(v) == [pc \in pcs |-> From(v, pc)]
           verdict == CHOOSE v : v = Unfold(v)
           f == [pc \in pcs |-> CASE pc = "messages" -> FromMessages(e)
                                  [] pc = "evidence" -> FromEvidence(e)
                                  [] pc = "comments" -> FromComments(e)
                                  [] pc = "status" -> FromStatus(e)
                                  [] pc = "write" -> Classify(Stage(e, "write"))]
<1>1. /\ f["messages"] = FromMessages(e) /\ f["evidence"] = FromEvidence(e)
      /\ f["comments"] = FromComments(e) /\ f["status"] = FromStatus(e)
      /\ f["write"] = Classify(Stage(e, "write"))
  OBVIOUS
<1>2. After("write", Stage(e, "write")) = "write"
  BY DEF After
<1>3. ASSUME NEW v
      PROVE  /\ From(v, "messages") = IF Classify(Stage(e, "messages")) \in TERMINAL_STATUSES
                                     THEN Classify(Stage(e, "messages")) ELSE v["evidence"]
             /\ From(v, "evidence") = IF Content(Classify(Stage(e, "evidence")))
                                     THEN Classify(Stage(e, "evidence")) ELSE v["comments"]
             /\ From(v, "comments") = IF Content(Classify(Stage(e, "comments")))
                                     THEN Classify(Stage(e, "comments")) ELSE v["status"]
             /\ From(v, "status") = Classify(Stage(e, "status"))
             /\ From(v, "write") = Classify(Stage(e, "write"))
  BY <1>2, AfterIs
<1>4. f = Unfold(f)
  <2>1. \A pc \in pcs : f[pc] = From(f, pc)
    <3> HIDE DEF f, From
    <3>1. QED
      BY <1>1, <1>3 DEF FromMessages, FromEvidence, FromComments, FromStatus
  <2>2. f = [pc \in pcs |-> f[pc]]
    OBVIOUS
  <2> HIDE DEF f, From
  <2>3. QED
    BY <2>1, <2>2
<1>5. verdict = Unfold(verdict)
  <2> HIDE DEF f, Unfold
  <2>1. QED
    BY <1>4
<1>6. Staged(e) = verdict["messages"]
  BY DEF Staged
<1>7. verdict["messages"] = FromMessages(e)
  <2> HIDE DEF verdict
  <2>1. \A pc \in pcs : verdict[pc] = From(verdict, pc)
    BY <1>5
  <2> HIDE DEF From
  <2>2. QED
    BY <1>3, <2>1 DEF FromMessages, FromEvidence, FromComments, FromStatus
<1>8. QED
  BY <1>6, <1>7
LEMMA StagesAre ==
  ASSUME NEW e \in Evidence
  PROVE  LET m == Stage(e, "messages")
             v == Stage(e, "evidence")
             k == Stage(e, "comments")
         IN  /\ e \in Gathered /\ Stage(e, "status") = e
             /\ m \in Gathered /\ m.sent = e.sent /\ m.old = e.old /\ m.notes = "none"
             /\ ~m.workflow /\ m.step = "none" /\ ~m.waits /\ ~m.shown
             /\ v \in Gathered /\ v.sent = e.sent /\ v.old = e.old /\ v.notes = "none"
             /\ v.workflow = e.workflow /\ v.step = e.step /\ v.waits = e.waits /\ ~v.shown
             /\ k \in Gathered /\ k.sent = e.sent /\ k.old = e.old /\ k.notes = e.notes
             /\ k.workflow = e.workflow /\ k.step = e.step /\ k.waits = e.waits /\ ~k.shown
<1> DEFINE m == [NoEvidence EXCEPT !.sent = e.sent, !.old = e.old]
           v == [e EXCEPT !.notes = "none", !.shown = FALSE]
           k == [e EXCEPT !.shown = FALSE]
<1>1. /\ Stage(e, "messages") = m /\ Stage(e, "evidence") = v /\ Stage(e, "comments") = k
      /\ Stage(e, "status") = e
  BY DEF Stage
<1>2. /\ e \in Gathered /\ e.sent \in {"none", "exact", "other"} /\ e.old \in BOOLEAN
      /\ e.step \in StepNames \cup {"none"}
  BY DEF Evidence, Gathered
<1>3. /\ m \in Gathered /\ m.sent = e.sent /\ m.old = e.old /\ m.notes = "none"
      /\ ~m.workflow /\ m.step = "none" /\ ~m.waits /\ ~m.shown
  BY <1>2 DEF NoEvidence, Gathered
<1>4. /\ v \in Gathered /\ v.sent = e.sent /\ v.old = e.old /\ v.notes = "none"
      /\ v.workflow = e.workflow /\ v.step = e.step /\ v.waits = e.waits /\ ~v.shown
  BY <1>2 DEF Gathered
<1>5. /\ k \in Gathered /\ k.sent = e.sent /\ k.old = e.old /\ k.notes = e.notes
      /\ k.workflow = e.workflow /\ k.step = e.step /\ k.waits = e.waits /\ ~k.shown
  BY <1>2 DEF Gathered
<1> HIDE DEF m, v, k
<1>6. QED
  BY <1>1, <1>2, <1>3, <1>4, <1>5

LEMMA StagesDoAgree == StagesAgree
<1>1. SUFFICES ASSUME NEW e \in Evidence
               PROVE  /\ Staged(e) \in TERMINAL_STATUSES <=> Classify(e) \in TERMINAL_STATUSES
                      /\ Staged(e) # Classify(e) => e.notes # "none" /\ RowSettles(e)
  BY DEF StagesAgree
<1> DEFINE m == Stage(e, "messages")
           v == Stage(e, "evidence")
           k == Stage(e, "comments")
<1>2. /\ Stage(e, "status") = e
      /\ e \in Gathered
      /\ m \in Gathered /\ m.sent = e.sent
      /\ v \in Gathered /\ v.sent = e.sent /\ v.notes = "none"
      /\ v.workflow = e.workflow /\ v.step = e.step /\ ~v.shown /\ v.old = e.old
      /\ v.waits = e.waits /\ k.waits = e.waits
      /\ k \in Gathered /\ k.sent = e.sent /\ k.notes = e.notes
      /\ k.workflow = e.workflow /\ k.step = e.step /\ ~k.shown /\ k.old = e.old
  BY StagesAre
<1>3. e.sent \in {"none", "exact", "other"} /\ e.notes \in {"none", "waiting", "other"}
  BY DEF Evidence
<1>4. Staged(e) = FromMessages(e)
  BY StagedIs
<1> HIDE DEF m, v, k
<1>5. CASE e.sent # "none"
  <2>1. Classify(m) = Classify(e) /\ Classify(m) \in TERMINAL_STATUSES
    BY <1>2, <1>3, <1>5, ClassifyIs DEF TERMINAL_STATUSES
  <2>2. Staged(e) = Classify(e)
    BY <1>4, <2>1 DEF FromMessages, m
  <2>3. QED
    BY <2>1, <2>2
<1>6. CASE e.sent = "none"
  <2>1. /\ Classify(m) \notin TERMINAL_STATUSES /\ Classify(v) \notin TERMINAL_STATUSES
        /\ Classify(k) \notin TERMINAL_STATUSES /\ Classify(e) \notin TERMINAL_STATUSES
    BY <1>2, <1>6, VerdictMeans
  <2>2. /\ Staged(e) = IF Content(Classify(v)) THEN Classify(v)
                       ELSE IF Content(Classify(k)) THEN Classify(k) ELSE Classify(e)
    BY <1>2, <1>4, <2>1 DEF FromMessages, FromEvidence, FromComments, FromStatus, m, v, k
  <2>3. Content(Classify(k)) => Classify(k) = Classify(e)
    BY <1>2, <1>3, <1>6, ClassifyIs DEF Content
  <2>4. ASSUME Content(Classify(v)), Classify(v) # Classify(e)
        PROVE  e.notes # "none" /\ RowSettles(e)
    <3>1. Classify(v) = IF e.workflow \/ e.step \in HandledSteps THEN "handled_without_send"
                        ELSE IF e.waits \/ e.step \in WaitingSteps THEN "waiting"
                        ELSE IF e.old THEN "no_followup_detected" ELSE "pending_review"
      BY <1>2, <1>6, ClassifyIs
    <3>2. RowSettles(e)
      BY <2>4, <3>1 DEF Content, RowSettles
    <3>3. e.notes = "none" => Classify(e) = Classify(v)
      <4>1. ASSUME e.notes = "none"
            PROVE  Classify(e) = IF e.workflow \/ e.step \in HandledSteps THEN "handled_without_send"
                                 ELSE IF e.waits \/ e.step \in WaitingSteps \/ e.shown THEN "waiting"
                                 ELSE IF e.old THEN "no_followup_detected" ELSE "pending_review"
        BY <1>2, <1>6, <4>1, ClassifyIs
      <4>2. QED
        BY <3>1, <3>2, <4>1 DEF RowSettles
    <3>4. QED
      BY <2>4, <3>2, <3>3
  <2>5. QED
    BY <2>1, <2>2, <2>3, <2>4
<1>7. QED
  BY <1>5, <1>6

\* Gathering in stages costs refresh_draft_adoptions nothing but comments it has
\* no need of, and it asks Front for nothing more once a draft is settled.
THEOREM StagesOnlySkipComments == Spec => []StagingOnlySkipsComments
<1>1. ASSUME AdoptionInv, NEW r \in Refreshers
      PROVE  LET e == refresh[r].evidence
                 pc == refresh[r].pc
             IN  /\ pc \in {"evidence", "comments", "status"} => e.sent = "none"
                 /\ pc \in {"comments", "status"} => ~RowSettles(e)
                 /\ pc = "status" => e.notes = "none"
  <2>1. CASE refresh[r] = NoRefresh
    BY <2>1 DEF NoRefresh
  <2>2. CASE refresh[r] # NoRefresh
    <3>1. Sound(r, refresh[r])
      BY <1>1, <2>2 DEF AdoptionInv, RefreshTyped, RefreshTrue
    <3>2. QED
      BY <3>1 DEF Sound
  <2>3. QED
    BY <2>1, <2>2
<1>2. AdoptionInv => StagingOnlySkipsComments
  BY <1>1, StagesDoAgree DEF StagingOnlySkipsComments
<1>3. QED
  BY <1>2, InductiveInvariant, PTL
=============================================================================
