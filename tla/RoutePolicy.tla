------------------------------ MODULE RoutePolicy ------------------------------
(* The decisions of agent/classification.py and agent/routing.py, which keep   *)
(* no state.  A text is the set of the pattern families it matches; a message  *)
(* of the classifier is a record whose words are those of its summary and      *)
(* evidence.                                                                   *)
EXTENDS Naturals, Sequences, FiniteSetsExt

\* What the regular expressions find in a customer's message.
CustomerWords == {"suspension", "education", "credits", "cancel", "expired",
                  "rejected", "no_discount", "school_email", "trial",
                  "avoid_billing"}
\* What they find in a proposal, or in the summary the classifier wrote of it.
ProposalWords == {"generic_vendor", "target", "product", "cooperation",
                  "marketplace", "application", "plugin", "takedown", "creator",
                  "collaboration"}

ALLOWED_CATEGORIES == {"technical", "account", "purchase", "education",
                       "billing", "partnership", "marketing", "security",
                       "spam", "legal", "roadmap", "investment", "business",
                       "data_export", "recruiting", "unclear"}
PARTNERSHIP_SUB_TYPES == {"marketplace", "plugin", "plugin_takedown",
                          "technology_integration", "strategic_partnership"}

NoClass == [category |-> "none"]
Class(category, sub, flags, words) ==
  [category |-> category, sub_type |-> sub, flags |-> flags, words |-> words]

(* classify_explicit_account_suspension *)
Suspension(text) ==
  IF "suspension" \notin text THEN NoClass
  ELSE Class(IF "education" \in text THEN "education" ELSE "account",
             "account_suspended", {}, {})

\* The first family that a text matches, in the order of the elif chain.
EducationOrder == << <<"credits", "credit_allowance_200">>,
                     <<"cancel", "cancel_subscription">>,
                     <<"expired", "email_expired_graduated">>,
                     <<"rejected", "rejected">>,
                     <<"no_discount", "no_discount">> >>
EducationSubType(text) ==
  LET hits == {i \in DOMAIN EducationOrder : EducationOrder[i][1] \in text}
  IN  IF hits = {} THEN "how_to_apply" ELSE EducationOrder[Min(hits)][2]

(* classify_explicit_education_topic *)
EducationTopic(text) ==
  IF "education" \notin text THEN NoClass
  ELSE IF Suspension(text) # NoClass THEN Suspension(text)
  ELSE Class("education", EducationSubType(text), {}, {})

(* classify_school_email_cancellation_needing_plan_confirmation *)
SchoolCancellation(text) ==
  IF "education" \notin text /\ {"school_email", "trial", "avoid_billing"} \subseteq text
  THEN Class("education", "cancel_subscription", {"education_plan_unconfirmed"}, {})
  ELSE NoClass

(* is_explicit_technology_partnership *)
TechnologyPartnership(words) ==
  "generic_vendor" \notin words /\ {"target", "product", "cooperation"} \subseteq words

(* protect_explicit_technology_partnership *)
Protected(cl, text) ==
  IF cl.category = "spam" /\ TechnologyPartnership(text \cup cl.words)
  THEN [cl EXCEPT !.category = "partnership", !.sub_type = "technology_integration"]
  ELSE cl

(* normalize_classification and the parse failure of _classify *)
Unclear == Class("unclear", "none", {}, {})
Normalized(raw) ==
  IF raw = NoClass THEN Unclear
  ELSE IF raw.category \in ALLOWED_CATEGORIES THEN raw
  ELSE [raw EXCEPT !.category = "unclear"]
Classified(raw, text) ==
  IF raw = NoClass THEN Unclear ELSE Protected(Normalized(raw), text)

\* Mutants: without the partnership sub-types, and without the legal threat.
ClearSpamPlugins(cl) ==
  cl.category = "spam" /\ "legal_threat" \notin cl.flags /\ ~TechnologyPartnership(cl.words)
ClearSpamThreats(cl) ==
  /\ cl.category = "spam"
  /\ ~TechnologyPartnership(cl.words)
  /\ cl.sub_type \notin PARTNERSHIP_SUB_TYPES

(* should_auto_close_spam *)
ClearSpam(cl) ==
  /\ cl.category = "spam"
  /\ "legal_threat" \notin cl.flags
  /\ ~TechnologyPartnership(cl.words)
  /\ cl.sub_type \notin PARTNERSHIP_SUB_TYPES

(* _is_explicit_marketplace_application *)
MarketplaceApplication(cl) ==
  \/ {"marketplace", "application"} \subseteq cl.words
  \/ "plugin" \in cl.words /\ cl.words \cap {"application", "takedown"} # {}

(* _is_creator_marketing_collaboration: the category and the sub-type are part  *)
(* of the searched text.                                                        *)
CreatorCollaboration(cl) ==
  /\ "creator" \in cl.words
  /\ \/ "collaboration" \in cl.words
     \/ cl.category = "partnership"
     \/ cl.sub_type \in {"strategic_partnership", "collaboration"}

\* A spam category with a partnership sub-type or intent contradicts itself.
RoutedCategory(cl) ==
  IF cl.category # "spam" \/ ~(\/ cl.sub_type \in PARTNERSHIP_SUB_TYPES
                               \/ TechnologyPartnership(cl.words))
  THEN cl.category
  ELSE IF MarketplaceApplication(cl) \/ TechnologyPartnership(cl.words)
       THEN "partnership" ELSE "unclear"

Route(tool, category, sub, step) ==
  [tool |-> tool, category |-> category, sub_type |-> sub, step |-> step]

\* _skill_route: the agent loop decides, under the policy of the category's skill.
SkillRoute(category, sub) == Route("skill", category, sub, "skill_in_progress")

\* The rules in the order of decide_initial_route; the first that holds decides.
Rules(cl) ==
  LET category == RoutedCategory(cl)
      sub == cl.sub_type
      Rule(when, tool, cat, s, step) ==
        [when |-> when, route |-> Route(tool, cat, s, step)]
      Move(name, inbox) ==
        Rule(category = name, inbox, name, sub, "moved_inbox")
  IN << Rule(CreatorCollaboration(cl), "marketing_inbox", "marketing",
             "collaboration", "moved_inbox"),
        Rule(ClearSpam(cl), "close", "spam", "none", "closed_spam"),
        Rule(category = "unclear", "bobby", category, sub, "manual_review"),
        Rule(category \in {"account", "education"} /\ sub = "account_suspended",
             "template_draft", category, sub, "draft_created"),
        Rule(category = "legal" \/ "legal_threat" \in cl.flags, "legal_forward",
             "legal", sub, "forwarded_keep_open"),
        Move("security", "security_inbox"),
        Move("marketing", "marketing_inbox"),
        Move("business", "business_inbox"),
        Rule(category = "partnership", "community_forward", category, sub,
             "forwarded_keep_open"),
        [when |-> TRUE, route |-> SkillRoute(category, sub)] >>

\* The tools that move a conversation out of the Support inboxes.
InboxMoves == {"marketing_inbox", "security_inbox", "business_inbox"}

(* decide_initial_route; the tool "skill" is a route that is not handled before *)
(* the agent loop.                                                              *)
InitialRoute(cl) ==
  LET rules == Rules(cl)
  IN  rules[Min({i \in DOMAIN rules : rules[i].when})].route

--------------------------------------------------------------------------------
\* Sub-types that the rules tell apart, and one for all others.
SubTypes == {"none", "account_suspended", "plugin", "strategic_partnership",
             "collaboration", "other"}
RawClassifications ==
  [category : ALLOWED_CATEGORIES \cup {"not allowed"}, sub_type : SubTypes,
   flags : SUBSET {"legal_threat"}, words : SUBSET ProposalWords]

\* Whatever the classifier answers, and whatever its proposal words, only a
\* conversation without any sign of a legal threat, a partnership, a technology
\* proposal in the message itself or a creator's offer is archived unread.
\* The message is tried with no proposal words and with a full proposal.
ArchivesClearSpamOnly ==
  \A raw \in RawClassifications :
    \A text \in {{}, {"target", "product", "cooperation"}} :
      InitialRoute(Classified(raw, text)).tool = "close" =>
        /\ raw.category = "spam"
        /\ raw.flags = {}
        /\ raw.sub_type \notin PARTNERSHIP_SUB_TYPES
        /\ ~TechnologyPartnership(text \cup raw.words)
        /\ ~CreatorCollaboration(raw)

\* What is not forwarded to the legal team although the classifier flagged a legal
\* threat: a creator's offer, what is unclear, and a suspension, which gets the
\* template.  Nothing with a threat is archived or left to the language model's own
\* choice of tools, whatever category and whatever else came with it.
ThreatsReachPeople ==
  \A raw \in {r \in RawClassifications : r.flags # {}} :
    \A text \in {{}, {"target", "product", "cooperation"}} :
      LET cl == Classified(raw, text)
          tool == InitialRoute(cl).tool
      IN  \/ tool = "legal_forward"
          \/ tool = "marketing_inbox" /\ CreatorCollaboration(cl)
          \/ tool = "bobby" /\ RoutedCategory(cl) = "unclear"
          \/ /\ tool = "template_draft"
             /\ cl.category \in {"account", "education"}
             /\ cl.sub_type = "account_suspended"
================================================================================
