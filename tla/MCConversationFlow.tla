-------------------------- MODULE MCConversationFlow ---------------------------
(* Conversations of one sender: two messages in the first, one in each of the   *)
(* others.  A mail is a text and what a transcript shows of it.                 *)
EXTENDS OpsMaintenance, TLC
CONSTANTS c1, c2, c3, m1, m2, m3, m4

Owners == m1 :> c1 @@ m2 :> c1 @@ m3 :> c2 @@ m4 :> c3
Appeal == Mail({"suspension"}, {"suspension"})
AppealInSubject == Mail({"suspension"}, {})
Education == Mail({"education"}, {"education"})
Other == Mail({}, {})
Letters(a, b, c, d) == m1 :> a @@ m2 :> b @@ m3 :> c @@ m4 :> d
Written == {Letters(Education, Other, NoMail, NoMail),
            Letters(Other, Appeal, NoMail, NoMail),
            Letters(AppealInSubject, NoMail, Appeal, NoMail),
            Letters(Appeal, NoMail, Appeal, Other)}
Calls == c1 :> 3 @@ c2 :> 0 @@ c3 :> 0

Answers == {Class("education", "how_to_apply", {}, {}),
            Class("account", "account_suspended", {}, {}),
            Class("security", "none", {}, {}),
            Class("spam", "none", {}, {}),
            Class("technical", "none", {"legal_threat"}, {})}
States == {Row("education", "how_to_apply", "awaiting_school_info", TRUE, "fresh", TRUE),
           Row("account", "account_suspended", "done", FALSE, "no", TRUE),
           Row("spam", "none", "closed_spam", FALSE, "no", FALSE)}
================================================================================
