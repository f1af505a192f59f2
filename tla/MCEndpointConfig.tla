--------------------------- MODULE MCEndpointConfig ---------------------------
(* Instances of the endpoint configuration for TLC. *)
EXTENDS EndpointConfig, TLC

CONSTANTS e1, e2, s1, s2, m1, m2, x1, a1, a2, a3

TwoEndpoints == {e1, e2}
TwoSlugs == {s1, s2}
TwoEmails == {m1, m2}
OneSite == {x1}
ThreeEditors == {a1, a2, a3}

Plain == [slug |-> s1, active |-> TRUE, limited |-> TRUE, site |-> x1, cap |-> FALSE,
          url |-> FALSE, user |-> FALSE, password |-> FALSE, secret |-> FALSE, emails |-> {m1}]

\* Authentication off with nothing kept, off with the URL kept, on, and on with
\* new secrets.  SMTP authentication follows CAP.
Guarded == {Plain,
            [Plain EXCEPT !.url = TRUE, !.secret = TRUE, !.password = TRUE],
            [Plain EXCEPT !.url = TRUE, !.cap = TRUE, !.user = TRUE],
            [Plain EXCEPT !.url = TRUE, !.cap = TRUE, !.user = TRUE,
                          !.secret = TRUE, !.password = TRUE],
            [Plain EXCEPT !.cap = TRUE]}

SomeForms == {[f EXCEPT !.slug = s, !.emails = m] :
                f \in Guarded, s \in {s1, s2}, m \in {{m1}, {m1, m2}}}

Symmetry == Permutations(Endpoint) \cup Permutations(Editor)
=============================================================================
