----------------------------- MODULE MCSmtpSession -----------------------------
(* Instances of the SMTP dialogue for TLC. *)
EXTENDS SmtpSession, TLC

CONSTANTS p1, p2

TwoRecipients == {p1, p2}

Symmetry == Permutations(Recipient)
=============================================================================
