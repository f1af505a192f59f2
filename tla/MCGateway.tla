------------------------------ MODULE MCGateway ------------------------------
(* Instances of the gateway for TLC. *)
EXTENDS Gateway, TLC

CONSTANTS hA, hB, hNum, hU, c1, c2, t1, a1, a2, s1, s2, s3

FourNames == {hA, hB, hNum, hU}
ThreeAddresses == {c1, c2, t1}
OneTrusted == {t1}

Name(n) == [name |-> n, colons |-> FALSE, digits |-> FALSE, wide |-> FALSE,
            address |-> FALSE, labels |-> TRUE]

\* Digits that are no address, with dots that only IDNA takes for dots.
Numbers == [Name(hNum) EXCEPT !.digits = TRUE, !.wide = TRUE]

Https(h) == [scheme |-> "https", host |-> h, port |-> None, plain |-> TRUE, bare |-> TRUE]

A == Https(Name(hA))
WithPort443 == [A EXCEPT !.port = 443]
WithPort80 == [A EXCEPT !.port = 80]
Shouted == [A EXCEPT !.plain = FALSE]
PlainHttp == [A EXCEPT !.scheme = "http"]
B == Https(Name(hB))
WithPath == [B EXCEPT !.bare = FALSE]

\* No list can name it.
Underscored == Https([Name(hU) EXCEPT !.labels = FALSE])
OddHost == [Https(Numbers) EXCEPT !.plain = FALSE]

Texts == {A, WithPort443, WithPort80, Shouted, PlainHttp, B, WithPath, OddHost, Underscored,
          [A EXCEPT !.port = 65536]}

TwoEditors == {a1, a2}

ThreeSites == {s1, s2, s3}

\* Proxies without a list; every list with every page; edits that overlap.
Setups ==
  s1 :> [editors |-> {}, lists |-> {}, pages |-> {A},
         clients |-> ThreeAddresses, hops |-> 2]
  @@ s2 :> [editors |-> {a1}, pages |-> Texts, clients |-> OneTrusted, hops |-> 0,
            lists |-> {{}, {A}, {WithPort443, Shouted}, {PlainHttp, B}, {WithPort80},
                       {OddHost}, {A, WithPath}, {B, Underscored}}]
  @@ s3 :> [editors |-> {a1, a2}, pages |-> {A, B}, clients |-> OneTrusted, hops |-> 0,
            lists |-> {{}, {A}, {A, B}}]

\* Clients are alike.
Symmetry == Permutations({c1, c2})
=============================================================================
