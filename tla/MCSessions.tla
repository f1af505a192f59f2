------------------------------ MODULE MCSessions ------------------------------
(* Instances of the sessions for TLC. *)
EXTENDS Sessions, TLC

CONSTANTS u1, u2, u3, n1, n2, n3, r1, r2, r3

ThreeUsers == {u1, u2, u3}
ThreeNames == {n1, n2, n3}
ThreeRequests == {r1, r2, r3}
OneOrTwo == {1, 2}

\* An administrator and a user; a third id for a new user.
TwoExist == [u \in {u1, u2, u3} |->
  CASE u = u1 -> [name |-> n1, role |-> "admin", active |-> TRUE, hash |-> None]
    [] u = u2 -> [name |-> n2, role |-> "user", active |-> TRUE, hash |-> None]
    [] OTHER -> None]

Plain == [name |-> n2, role |-> "user", active |-> TRUE, password |-> "none"]

\* Nothing changed; a new password; disabled; made an administrator with another
\* name and a password; not acceptable.
SomeForms == {Plain,
              [Plain EXCEPT !.password = "good"],
              [Plain EXCEPT !.active = FALSE],
              [name |-> n3, role |-> "admin", active |-> TRUE, password |-> "good"],
              [Plain EXCEPT !.role = "other"]}

Symmetry == Permutations(Request)
=============================================================================
