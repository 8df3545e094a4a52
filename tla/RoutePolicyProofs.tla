--------------------------- MODULE RoutePolicyProofs ---------------------------
(* What the ordered rules of decide_initial_route guarantee, for any           *)
(* classification.                                                             *)
EXTENDS RoutePolicy, TLAPS

\* A set of rule numbers that has one has a smallest one.
LEMMA SmallestRule ==
  ASSUME NEW S \in SUBSET (1..10), S # {}
  PROVE  Min(S) \in S /\ \A j \in S : Min(S) =< j
<1>1. \E i \in S : \A j \in S : i =< j
  <2> SUFFICES ASSUME ~\E i \in S : \A j \in S : i =< j
               PROVE  FALSE
    OBVIOUS
  <2>1. 1 \notin S
    OBVIOUS
  <2>2. 2 \notin S
    BY <2>1
  <2>3. 3 \notin S
    BY <2>1, <2>2
  <2>4. 4 \notin S
    BY <2>1, <2>2, <2>3
  <2>5. 5 \notin S
    BY <2>1, <2>2, <2>3, <2>4
  <2>6. 6 \notin S
    BY <2>1, <2>2, <2>3, <2>4, <2>5
  <2>7. 7 \notin S
    BY <2>1, <2>2, <2>3, <2>4, <2>5, <2>6
  <2>8. 8 \notin S
    BY <2>1, <2>2, <2>3, <2>4, <2>5, <2>6, <2>7
  <2>9. 9 \notin S
    BY <2>1, <2>2, <2>3, <2>4, <2>5, <2>6, <2>7, <2>8
  <2>10. 10 \notin S
    BY <2>1, <2>2, <2>3, <2>4, <2>5, <2>6, <2>7, <2>8, <2>9
  <2>11. \A i \in 1..10 : i \notin S
    BY <2>1, <2>2, <2>3, <2>4, <2>5, <2>6, <2>7, <2>8, <2>9, <2>10
  <2>12. QED
    BY <2>11
<1>2. QED
  BY <1>1 DEF Min

\* The first rule that holds decides.
LEMMA FirstRouteRule ==
  ASSUME NEW cl
  PROVE  \E k \in 1..10 : /\ Rules(cl)[k].when
                          /\ \A j \in 1..(k - 1) : ~Rules(cl)[j].when
                          /\ InitialRoute(cl) = Rules(cl)[k].route
<1> DEFINE S == {i \in DOMAIN Rules(cl) : Rules(cl)[i].when}
<1>1. DOMAIN Rules(cl) = 1..10 /\ Rules(cl)[10].when
  BY DEF Rules
<1>2. S \in SUBSET (1..10) /\ 10 \in S
  BY <1>1
<1>3. InitialRoute(cl) = Rules(cl)[Min(S)].route
  BY DEF InitialRoute
<1>4. Min(S) \in S /\ \A j \in S : Min(S) =< j
  <2> HIDE DEF S
  <2> QED
    BY <1>2, SmallestRule
<1>5. PICK k \in S : InitialRoute(cl) = Rules(cl)[k].route /\ \A j \in S : k =< j
  BY <1>3, <1>4
<1>6. \A j \in 1..(k - 1) : ~Rules(cl)[j].when
  <2> TAKE j \in 1..(k - 1)
  <2>1. k \in 1..10
    BY <1>2, <1>5
  <2>2. j \in 1..10 /\ ~(k =< j)
    BY <2>1
  <2>3. j \notin S
    BY <1>5, <2>2
  <2>4. QED
    BY <1>1, <2>2, <2>3
<1>7. QED
  BY <1>2, <1>5, <1>6

\* What stands at a message to be archived and at one for the agent loop.
LEMMA RouteGuards ==
  ASSUME NEW cl
  PROVE  /\ InitialRoute(cl).tool = "close" =>
              ClearSpam(cl) /\ ~CreatorCollaboration(cl)
         /\ InitialRoute(cl).tool = "skill" => "legal_threat" \notin cl.flags
<1>1. PICK k \in 1..10 : /\ Rules(cl)[k].when
                         /\ \A j \in 1..(k - 1) : ~Rules(cl)[j].when
                         /\ InitialRoute(cl) = Rules(cl)[k].route
  BY FirstRouteRule
<1>2. /\ Rules(cl)[1].when <=> CreatorCollaboration(cl)
      /\ Rules(cl)[2].when <=> ClearSpam(cl)
      /\ "legal_threat" \in cl.flags => Rules(cl)[5].when
  BY DEF Rules
<1>3. /\ Rules(cl)[1].route.tool = "marketing_inbox"
      /\ Rules(cl)[2].route.tool = "close"
      /\ Rules(cl)[3].route.tool = "bobby"
      /\ Rules(cl)[4].route.tool = "template_draft"
      /\ Rules(cl)[5].route.tool = "legal_forward"
      /\ Rules(cl)[6].route.tool = "security_inbox"
      /\ Rules(cl)[7].route.tool = "marketing_inbox"
      /\ Rules(cl)[8].route.tool = "business_inbox"
      /\ Rules(cl)[9].route.tool = "community_forward"
      /\ Rules(cl)[10].route.tool = "skill"
  BY DEF Rules, Route, SkillRoute
<1>4. InitialRoute(cl).tool = "close" => k = 2
  BY <1>1, <1>3
<1>5. InitialRoute(cl).tool = "skill" => k = 10
  BY <1>1, <1>3
<1>6. k = 2 => ~Rules(cl)[1].when
  BY <1>1
<1>7. k = 10 => ~Rules(cl)[5].when
  BY <1>1
<1>8. QED
  BY <1>1, <1>2, <1>4, <1>5, <1>6, <1>7

\* A case of a suspended account gets the template, unless it looks like a
\* creator's offer.
LEMMA SuspendedRoute ==
  ASSUME NEW cl, cl.category \in {"account", "education"}, cl.sub_type = "account_suspended"
  PROVE  IF CreatorCollaboration(cl)
         THEN InitialRoute(cl) =
                Route("marketing_inbox", "marketing", "collaboration", "moved_inbox")
         ELSE InitialRoute(cl) =
                Route("template_draft", cl.category, "account_suspended", "draft_created")
<1>1. PICK k \in 1..10 : /\ Rules(cl)[k].when
                         /\ \A j \in 1..(k - 1) : ~Rules(cl)[j].when
                         /\ InitialRoute(cl) = Rules(cl)[k].route
  BY FirstRouteRule
<1>2. RoutedCategory(cl) = cl.category
  BY DEF RoutedCategory
<1>3. /\ Rules(cl)[1].when <=> CreatorCollaboration(cl)
      /\ ~Rules(cl)[2].when /\ ~Rules(cl)[3].when /\ Rules(cl)[4].when
  BY <1>2 DEF Rules, ClearSpam
<1>4. /\ Rules(cl)[1].route =
           Route("marketing_inbox", "marketing", "collaboration", "moved_inbox")
      /\ Rules(cl)[4].route =
           Route("template_draft", cl.category, "account_suspended", "draft_created")
  BY <1>2 DEF Rules
<1>5. k \in 1..4
  BY <1>1, <1>3
<1>6. k = 1 \/ k = 4
  BY <1>1, <1>3, <1>5
<1>7. k = 4 => ~Rules(cl)[1].when
  BY <1>1
<1>8. QED
  BY <1>1, <1>3, <1>4, <1>6, <1>7

\* The classifier's answers are told from its silence by their category.
LEMMA AnswersHaveCategories ==
  ASSUME NEW raw \in RawClassifications
  PROVE  raw # NoClass
<1>1. raw.category \in ALLOWED_CATEGORIES \cup {"not allowed"}
  BY DEF RawClassifications
<1>2. raw.category # "none"
  BY <1>1 DEF ALLOWED_CATEGORIES
<1>3. QED
  BY <1>2 DEF NoClass

\* The rules that may stand before the one for legal threats.
LEMMA ThreatRoute ==
  ASSUME NEW cl, "legal_threat" \in cl.flags
  PROVE  \/ InitialRoute(cl).tool = "legal_forward"
         \/ InitialRoute(cl).tool = "marketing_inbox" /\ CreatorCollaboration(cl)
         \/ InitialRoute(cl).tool = "bobby" /\ RoutedCategory(cl) = "unclear"
         \/ /\ InitialRoute(cl).tool = "template_draft"
            /\ cl.category \in {"account", "education"}
            /\ cl.sub_type = "account_suspended"
<1>1. PICK k \in 1..10 : /\ Rules(cl)[k].when
                         /\ \A j \in 1..(k - 1) : ~Rules(cl)[j].when
                         /\ InitialRoute(cl) = Rules(cl)[k].route
  BY FirstRouteRule
<1>2. /\ Rules(cl)[1].when <=> CreatorCollaboration(cl)
      /\ ~Rules(cl)[2].when
      /\ Rules(cl)[3].when <=> RoutedCategory(cl) = "unclear"
      /\ Rules(cl)[4].when <=> /\ RoutedCategory(cl) \in {"account", "education"}
                               /\ cl.sub_type = "account_suspended"
      /\ Rules(cl)[5].when
  BY DEF Rules, ClearSpam
<1>3. /\ Rules(cl)[1].route.tool = "marketing_inbox"
      /\ Rules(cl)[3].route.tool = "bobby"
      /\ Rules(cl)[4].route.tool = "template_draft"
      /\ Rules(cl)[5].route.tool = "legal_forward"
  BY DEF Rules, Route
<1>4. k \in {1, 3, 4, 5}
  <2>1. ~(5 \in 1..(k - 1))
    BY <1>1, <1>2
  <2>2. k # 2
    BY <1>1, <1>2
  <2>3. QED
    BY <2>1, <2>2
<1>5. RoutedCategory(cl) \in {"account", "education"} => cl.category = RoutedCategory(cl)
  BY DEF RoutedCategory
<1>6. CASE k = 1
  BY <1>1, <1>2, <1>3, <1>6
<1>7. CASE k = 3
  BY <1>1, <1>2, <1>3, <1>7
<1>8. CASE k = 4
  BY <1>1, <1>2, <1>3, <1>5, <1>8
<1>9. CASE k = 5
  BY <1>1, <1>3, <1>9
<1>10. QED
  BY <1>4, <1>6, <1>7, <1>8, <1>9

\* A message that was flagged as a legal threat is forwarded to the legal team, or
\* an earlier rule of decide_initial_route took it: that of creators' offers, of
\* what is unclear, or of suspensions, which drafts the template.
THEOREM ThreatsAreRouted == ThreatsReachPeople
<1> SUFFICES ASSUME NEW raw \in RawClassifications, raw.flags # {},
                    NEW text \in {{}, {"target", "product", "cooperation"}}
             PROVE  LET cl == Classified(raw, text)
                        tool == InitialRoute(cl).tool
                    IN  \/ tool = "legal_forward"
                        \/ tool = "marketing_inbox" /\ CreatorCollaboration(cl)
                        \/ tool = "bobby" /\ RoutedCategory(cl) = "unclear"
                        \/ /\ tool = "template_draft"
                           /\ cl.category \in {"account", "education"}
                           /\ cl.sub_type = "account_suspended"
  BY DEF ThreatsReachPeople
<1> DEFINE cl == Classified(raw, text)
<1>1. "legal_threat" \in raw.flags /\ raw # NoClass
  BY AnswersHaveCategories DEF RawClassifications
<1>2. cl.flags = raw.flags
  BY <1>1 DEF Classified, Protected, Normalized, RawClassifications
<1> HIDE DEF cl
<1>3. QED
  BY <1>1, <1>2, ThreatRoute DEF cl

\* Only a conversation without any sign of a legal threat, a partnership, a
\* technology proposal or a creator's offer is archived (should_auto_close_spam
\* and the order of the rules of decide_initial_route).
THEOREM ArchivesAreClear == ArchivesClearSpamOnly
<1> SUFFICES ASSUME NEW raw \in RawClassifications,
                    NEW text \in {{}, {"target", "product", "cooperation"}},
                    InitialRoute(Classified(raw, text)).tool = "close"
             PROVE  /\ raw.category = "spam"
                    /\ raw.flags = {}
                    /\ raw.sub_type \notin PARTNERSHIP_SUB_TYPES
                    /\ ~TechnologyPartnership(text \cup raw.words)
                    /\ ~CreatorCollaboration(raw)
  BY DEF ArchivesClearSpamOnly
<1> DEFINE cl == Classified(raw, text)
<1>1. ClearSpam(cl) /\ ~CreatorCollaboration(cl)
  <2> HIDE DEF cl
  <2> QED
    BY RouteGuards DEF cl
<1>2. raw # NoClass /\ cl.category = "spam"
  BY <1>1, AnswersHaveCategories DEF ClearSpam
<1>3. /\ raw.category = "spam" /\ cl = raw
      /\ ~TechnologyPartnership(text \cup raw.words)
  BY <1>2 DEF Classified, Protected, Normalized, RawClassifications, ALLOWED_CATEGORIES
<1> HIDE DEF cl
<1>4. QED
  BY <1>1, <1>3 DEF ClearSpam, RawClassifications
================================================================================
