---------------------------- MODULE MCSubmissionAPI ----------------------------
(* Instances of the submission handler for TLC. *)
EXTENDS SubmissionAPI, TLC

CONSTANTS e1, s1, m1, m2, x1, x2, a1, a2, a3, r1

OneEndpoint == {e1}
OneSlug == {s1}
TwoEmails == {m1, m2}
TwoSites == {x1, x2}
ThreeEditors == {a1, a2, a3}
OneRequest == {r1}

Plain == [slug |-> s1, active |-> TRUE, limited |-> TRUE, site |-> x1, cap |-> FALSE,
          url |-> FALSE, user |-> FALSE, password |-> FALSE, secret |-> FALSE, emails |-> {m1}]

\* Two plain configurations, one of them without limiter; CAP with a new and with
\* a stored secret; disabled.
SomeForms == {Plain,
              [Plain EXCEPT !.site = x2, !.limited = FALSE, !.emails = {m1, m2}],
              [Plain EXCEPT !.cap = TRUE, !.url = TRUE, !.secret = TRUE],
              [Plain EXCEPT !.cap = TRUE, !.url = TRUE, !.site = x2],
              [Plain EXCEPT !.active = FALSE, !.emails = {m2}]}

Symmetry == Permutations(Editor) \cup Permutations(Request)
=============================================================================
