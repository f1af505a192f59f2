---------------------------- MODULE GatewayProofs ----------------------------
(* The list of origins means what was typed and the address that is counted is the
   client's, for any texts, lists, addresses, proxies and concurrent edits.

   Lists: a stored list is in normal form, so that it is read back as it is, has an
   entry for each origin that was typed in the form that wrote it and for no other,
   and is empty only if nothing was typed.  An edit that nobody has overtaken holds
   the list that is stored, so that leaving the column alone is as good as writing
   it.  The handler's copy stays true to what was typed when it was read, however
   the endpoint is edited meanwhile.
   Addresses: the header, without what its client put there, is the path of the
   request without its last hop. *)
EXTENDS Gateway, SequenceTheorems, WellFoundedInduction, TLAPS

\* A list in normal form that stands for what was typed.
Faithful(list, lines) ==
  /\ list \subseteq Origin
  /\ \A p \in list : normalize_origin(p) = p
  /\ \A p \in list : \E o \in lines : SameOrigin(o, p)
  /\ \A o \in lines : normalize_origin(o) \in list

\* What the handler decided and answered follows from its copy of the list.
Handler(r) ==
  /\ r.pc \in {"none", "asked", "sent"} => r.verdict = "none"
  /\ r.pc \in {"entered", "answered", "failed"} =>
       /\ r.verdict # "missing" => Faithful(r.list, r.listed)
       /\ r.verdict = "in" => origin_is_allowed(r.origin, r.list)
       /\ r.verdict = "refused" => ~origin_is_allowed(r.origin, r.list)
  /\ r.pc # "answered" \/ r.verdict = "missing" => r.readable = None
  /\ r.pc = "answered" /\ r.verdict # "missing" => r.readable = apply_cors(r.origin, r.list)

\* What the header says besides its client's part is who carried the request.
Truthful(path, forwarded, given) ==
  /\ path # <<>>
  /\ Len(forwarded) = given + Len(path) - 1
  /\ \A i \in 1 .. Len(path) - 1 : forwarded[given + i] = path[i]

\* Whom a request on a path may be counted under.
Theirs(path, forwarded, given, address) ==
  LET peer == path[Len(path)]
      strangers == {i \in DOMAIN path : path[i] \notin Trusted} IN
  /\ strangers # {} =>
       \/ \E i \in strangers : address = path[i] /\ \A k \in strangers : k <= i
       \/ given = 1 /\ forwarded[1] = Junk /\ address = peer
  /\ peer \notin Trusted => address = peer

Route(r) == r.pc \in {"sent", "entered"} => Truthful(r.path, r.forwarded, r.given)

\* What an edit that nobody has overtaken loaded is what is stored.
Current(e, list) == e.open /\ ~e.overtaken => e.list = list

\* An approved preflight asked for an origin that was listed.
Approved(r) == r.approved => r.asked = {} \/ Named(r.origin, r.asked)

GatewayInv == /\ TypeOK
              /\ Faithful(stored, typed)
              /\ \A a \in Editor : Current(edit[a], stored)
              /\ Handler(req)
              /\ Route(req)
              /\ Approved(req)
              /\ ClientAddressIsTheirs
-----------------------------------------------------------------------------
(* Normal forms. *)

\* What a host is normalised to is a host of the same name, and is stable or refused.
LEMMA NormalHost ==
  ASSUME NEW h \in Host, normalize_hostname(h) # None
  PROVE  LET g == normalize_hostname(h) IN
         /\ g \in Host
         /\ g.name = h.name
         /\ normalize_hostname(g) \in {None, g}
<1>1. CASE looks_like_ip(h)
  BY <1>1 DEF normalize_hostname
<1>2. CASE ~looks_like_ip(h)
  <2> DEFINE g == [h EXCEPT !.wide = FALSE]
  <2>1. normalize_hostname(h) = g
    BY <1>2 DEF normalize_hostname
  <2>2. g \in Host /\ g.name = h.name
    BY DEF Host
  <2>3. g.wide = FALSE
    BY DEF Host
  <2>4. [g EXCEPT !.wide = FALSE] = g
    BY <2>2, <2>3 DEF Host
  <2> HIDE DEF g
  <2> QED
    BY <2>1, <2>2, <2>4 DEF normalize_hostname
<1> QED
  BY <1>1, <1>2

\* Normalisation keeps the origin, and a second one changes nothing or refuses.
LEMMA NormalOrigin ==
  ASSUME NEW o \in Origin, normalize_origin(o) # None
  PROVE  LET p == normalize_origin(o) IN
         /\ p \in Origin
         /\ SameOrigin(o, p)
         /\ normalize_origin(p) \in {None, p}
<1> DEFINE host == normalize_hostname(o.host)
           port == IF default_port(o.scheme, o.port) THEN None ELSE o.port
           p == [o EXCEPT !.host = host, !.port = port, !.plain = TRUE]
<1>1. /\ o.scheme \in {"http", "https"} /\ o.bare
      /\ host # None /\ (o.port = None \/ o.port \in 1 .. MaxPort)
      /\ normalize_origin(o) = p
  BY DEF normalize_origin
<1>2. /\ o.host \in Host /\ o.port \in Nat \cup {None}
      /\ DOMAIN o = {"scheme", "host", "port", "plain", "bare"}
  BY DEF Origin
<1>3. host \in Host /\ host.name = o.host.name /\ normalize_hostname(host) \in {None, host}
  BY <1>1, <1>2, NormalHost
<1>4. port = None \/ port \in 1 .. MaxPort
  BY <1>1
<1>5. port \in Nat \cup {None}
  BY <1>2
<1> HIDE DEF host, port
<1>6. p.scheme = o.scheme /\ p.host = host /\ p.port = port /\ p.bare = o.bare /\ p.plain = TRUE
  BY <1>2
<1>7. p \in Origin
  BY <1>3, <1>5 DEF Origin
<1>8. EffectivePort(o) = EffectivePort(p)
  BY <1>1, <1>2, <1>6, OriginAssumption DEF EffectivePort, default_port, port
<1>9. SameOrigin(o, p)
  BY <1>3, <1>6, <1>8 DEF SameOrigin
<1>10. ~default_port(p.scheme, p.port)
  BY <1>1, <1>2, <1>6, OriginAssumption DEF default_port, port
<1>11. [p EXCEPT !.host = host, !.port = port, !.plain = TRUE] = p
  BY <1>6, <1>7 DEF Origin
<1>12. normalize_origin(p) \in {None, p}
  BY <1>3, <1>6, <1>10, <1>11 DEF normalize_origin
<1> QED
  BY <1>1, <1>7, <1>9, <1>12
-----------------------------------------------------------------------------
(* Lists. *)

\* What origins_to_storage stores of a validated list stands for the list typed.
LEMMA StoredIsFaithful ==
  ASSUME NEW lines \in SUBSET Origin, AllNormal(lines),
         NEW value \in origins_to_storage(normalize_origins(lines))
  PROVE  Faithful(value, lines)
<1> DEFINE once == normalize_origins(lines)
<1>1. AllNormal(once) /\ value = normalize_origins(once)
  BY DEF origins_to_storage
<1>2. ASSUME NEW q \in value
      PROVE  q \in Origin /\ normalize_origin(q) = q /\ \E o \in lines : SameOrigin(o, q)
  <2>1. PICK p \in once : q = normalize_origin(p)
    BY <1>1 DEF normalize_origins
  <2>2. PICK o \in lines : p = normalize_origin(o)
    BY <2>1 DEF normalize_origins
  <2>3. normalize_origin(o) # None /\ normalize_origin(p) # None
    BY <1>1, <2>1, <2>2 DEF AllNormal
  <2>4. p \in Origin /\ SameOrigin(o, p) /\ normalize_origin(p) \in {None, p}
    BY <2>2, <2>3, NormalOrigin
  <2> QED
    BY <2>1, <2>2, <2>3, <2>4
<1>3. ASSUME NEW o \in lines  PROVE normalize_origin(o) \in value
  <2>1. normalize_origin(o) \in once /\ normalize_origin(o) # None
    BY DEF AllNormal, normalize_origins
  <2>2. normalize_origin(normalize_origin(o)) \in value
    BY <1>1, <2>1 DEF normalize_origins
  <2>3. normalize_origin(normalize_origin(o)) # None
    BY <1>1, <2>1 DEF AllNormal
  <2> QED
    BY <2>1, <2>2, <2>3, NormalOrigin
<1> QED
  BY <1>2, <1>3 DEF Faithful

\* A faithful list is read back from the column as it is.
LEMMA ReadBack ==
  ASSUME NEW list, NEW lines, Faithful(list, lines)
  PROVE  origins_from_storage(list) = list
<1>1. AllNormal(list)
  BY OriginAssumption DEF Faithful, AllNormal
<1>2. normalize_origins(list) = list
  BY DEF Faithful, normalize_origins
<1> QED
  BY <1>1, <1>2 DEF origins_from_storage

\* What is normalised is an origin with the same name.
LEMMA Recognised ==
  ASSUME NEW o \in Origin \cup {None}, NEW list, NEW lines \in SUBSET Origin,
         Faithful(list, lines), o # None, normalize_origin(o) \in list
  PROVE  Named(o, lines)
<1>1. normalize_origin(o) # None
  BY OriginAssumption DEF Faithful
<1>2. SameOrigin(o, normalize_origin(o))
  BY <1>1, NormalOrigin
<1>3. PICK t \in lines : SameOrigin(t, normalize_origin(o))
  BY DEF Faithful
<1>4. SameOrigin(t, o)
  BY <1>2, <1>3 DEF SameOrigin
<1> QED
  BY <1>4, OriginAssumption DEF Named

\* A faithful list admits only what was typed.
LEMMA AdmissionIsListed ==
  ASSUME NEW o \in Origin \cup {None}, NEW list, NEW lines \in SUBSET Origin,
         Faithful(list, lines), origin_is_allowed(o, list)
  PROVE  lines = {} \/ Named(o, lines)
<1>1. CASE list = {}
  BY <1>1 DEF Faithful
<1>2. CASE o # None /\ normalize_origin(o) \in list
  BY <1>2, Recognised
<1> QED
  BY <1>1, <1>2 DEF origin_is_allowed

\* apply_cors names an origin, and with a list one that was typed.
LEMMA ReadableIsListed ==
  ASSUME NEW o \in Origin \cup {None}, NEW list, NEW lines \in SUBSET Origin,
         Faithful(list, lines), apply_cors(o, list) # None
  PROVE  /\ apply_cors(o, list) \in Origin
         /\ lines = {} \/ Named(apply_cors(o, list), lines)
<1> DEFINE p == normalize_origin(o)
<1>1. /\ o # None /\ p # None /\ (list = {} \/ p \in list) /\ apply_cors(o, list) = p
  BY DEF apply_cors
<1>2. p \in Origin /\ SameOrigin(o, p)
  BY <1>1, NormalOrigin
<1>3. CASE list = {}
  BY <1>1, <1>2, <1>3 DEF Faithful
<1>4. CASE p \in list
  <2>1. PICK t \in lines : SameOrigin(t, p)
    BY <1>4 DEF Faithful
  <2>2. Named(p, lines)
    BY <1>1, <2>1, OriginAssumption DEF Named
  <2> QED
    BY <1>1, <1>2, <2>2
<1> QED
  BY <1>1, <1>3, <1>4

\* The origin a browser sends for a listed origin is the normal form of its entry.
LEMMA BrowserOriginIsNormal ==
  ASSUME NEW o \in Text, NEW b \in Text, FromBrowser(b), SameOrigin(o, b),
         normalize_origin(o) # None
  PROVE  normalize_origin(o) = b
<1> DEFINE host == normalize_hostname(o.host)
           port == IF default_port(o.scheme, o.port) THEN None ELSE o.port
<1>1. /\ o.scheme \in {"http", "https"} /\ o.bare
      /\ host # None /\ (o.port = None \/ o.port \in 1 .. MaxPort)
      /\ normalize_origin(o) = [o EXCEPT !.host = host, !.port = port, !.plain = TRUE]
  BY DEF normalize_origin
<1>2. o \in Origin /\ b \in Origin /\ o.host \in Host /\ b.host \in Host
  BY GatewayAssumption DEF Origin
<1>3. host = b.host
  <2>1. [o.host EXCEPT !.wide = FALSE] = [b.host EXCEPT !.wide = FALSE]
    BY NameAssumption DEF SameOrigin
  <2>2. b.host.wide = FALSE
    BY <1>2 DEF FromBrowser, Host
  <2>3. [b.host EXCEPT !.wide = FALSE] = b.host
    BY <1>2, <2>2 DEF Host
  <2>4. CASE looks_like_ip(o.host)
    <3>1. host = o.host /\ o.host.wide = FALSE
      BY <1>1, <1>2, <2>4 DEF normalize_hostname, Host
    <3>2. [o.host EXCEPT !.wide = FALSE] = o.host
      BY <1>2, <3>1 DEF Host
    <3> QED
      BY <2>1, <2>3, <3>1, <3>2
  <2>5. CASE ~looks_like_ip(o.host)
    BY <1>1, <2>1, <2>3, <2>5 DEF normalize_hostname
  <2> QED
    BY <2>4, <2>5
<1>4. port = b.port
  <2>1. o.scheme = b.scheme /\ EffectivePort(o) = EffectivePort(b)
    BY DEF SameOrigin
  <2>2. b.port \in ({None} \cup 1 .. MaxPort) \ {IF b.scheme = "http" THEN 80 ELSE 443}
    BY DEF FromBrowser
  <2>3. 80 # None /\ 443 # None
    BY OriginAssumption
  <2> QED
    BY <1>1, <2>1, <2>2, <2>3 DEF EffectivePort, default_port
<1> HIDE DEF host, port
<1>5. b.plain = TRUE /\ b.bare = TRUE /\ o.bare = TRUE
  BY <1>1, <1>2 DEF FromBrowser, Origin
<1>6. o.scheme = b.scheme
  BY DEF SameOrigin
<1> DEFINE p == [o EXCEPT !.host = host, !.port = port, !.plain = TRUE]
<1>7. p.scheme = o.scheme /\ p.host = host /\ p.port = port /\ p.bare = o.bare /\ p.plain = TRUE
  BY <1>2 DEF Origin
<1>8. p \in Origin
  BY <1>2, <1>3, <1>4 DEF Origin
<1>9. normalize_origin(o) = p
  BY <1>1
<1> HIDE DEF p
<1>10. p = b
  BY <1>2, <1>3, <1>4, <1>5, <1>6, <1>7, <1>8 DEF Origin
<1> QED
  BY <1>9, <1>10

\* With a faithful list, a page that may be served is admitted and reads its answer.
LEMMA ListedPagesAreAdmitted ==
  ASSUME NEW b \in Text, FromBrowser(b), NEW list, NEW lines \in SUBSET Text,
         Faithful(list, lines), lines = {} \/ Named(b, lines)
  PROVE  origin_is_allowed(b, list) /\ apply_cors(b, list) = b
<1>1. b # None /\ b \in Origin
  BY GatewayAssumption, OriginAssumption
<1>2. CASE lines = {}
  <2>1. list = {}
    BY <1>2 DEF Faithful
  <2>2. normalize_hostname(b.host) # None
    <3>1. b.host \in Host
      BY <1>1 DEF Origin
    <3>2. [b.host EXCEPT !.wide = FALSE] \in Host
      BY <3>1 DEF Host
    <3>3. CASE looks_like_ip(b.host)
      BY <3>1, <3>3, OriginAssumption DEF FromBrowser, normalize_hostname
    <3>4. CASE ~looks_like_ip(b.host)
      BY <3>2, <3>4, OriginAssumption DEF FromBrowser, normalize_hostname
    <3> QED
      BY <3>3, <3>4
  <2>3. normalize_origin(b) # None
    <3>1. /\ b.bare /\ b.scheme \in {"http", "https"}
          /\ b.port = None \/ b.port \in 1 .. MaxPort
      BY DEF FromBrowser
    <3> DEFINE g == normalize_hostname(b.host)
               port == IF default_port(b.scheme, b.port) THEN None ELSE b.port
    <3>2. normalize_origin(b) = [b EXCEPT !.host = g, !.port = port, !.plain = TRUE]
      BY <2>2, <3>1 DEF normalize_origin
    <3>3. g \in Host
      BY <1>1, <2>2, NormalHost DEF Origin
    <3>4. port \in Nat \cup {None}
      BY <1>1 DEF Origin
    <3> HIDE DEF g, port
    <3>5. [b EXCEPT !.host = g, !.port = port, !.plain = TRUE] \in Origin
      BY <1>1, <3>3, <3>4 DEF Origin
    <3> QED
      BY <3>2, <3>5, OriginAssumption
  <2>4. normalize_origin(b) = b
    BY <1>1, <2>3, BrowserOriginIsNormal DEF SameOrigin
  <2> QED
    BY <1>1, <2>1, <2>4 DEF origin_is_allowed, apply_cors
<1>3. CASE Named(b, lines)
  <2>1. PICK o \in lines : SameOrigin(o, b)
    BY <1>3 DEF Named
  <2>2. normalize_origin(o) \in list /\ normalize_origin(o) # None
    BY OriginAssumption DEF Faithful
  <2>3. normalize_origin(o) = b
    BY <2>1, <2>2, BrowserOriginIsNormal
  <2>4. b \in list /\ normalize_origin(b) = b
    BY <2>2, <2>3 DEF Faithful
  <2> QED
    BY <1>1, <2>4 DEF origin_is_allowed, apply_cors
<1> QED
  BY <1>2, <1>3
-----------------------------------------------------------------------------
(* Addresses. *)

\* A set of positions that is not empty has a last one.
LEMMA LastPosition ==
  ASSUME NEW n \in Nat, NEW T \in SUBSET (1 .. n), T # {}
  PROVE  \E x \in T : \A y \in T : y <= x
<1> DEFINE R == {ss \in Nat \X Nat : ss[1] < ss[2]}
           U == {m \in Nat : n - m \in T}
<1>1. IsWellFoundedOn(R, Nat)
  BY NatLessThanWellFounded DEF OpToRel
<1>2. ASSUME NEW t \in T  PROVE n - t \in U
  <2>1. n - t \in Nat /\ n - (n - t) = t
    OBVIOUS
  <2> QED
    BY <2>1
<1>3. PICK m \in U : \A k \in U : ~(<<k, m>> \in R)
  <2> HIDE DEF R
  <2>1. U \subseteq Nat /\ U # {}
    BY <1>2
  <2> HIDE DEF U
  <2> QED
    BY <1>1, <2>1, WFMin
<1>4. ASSUME NEW y \in T  PROVE y <= n - m
  <2>1. n - y \in U /\ n - y \in Nat
    BY <1>2
  <2>2. ~(n - y < m)
    BY <1>3, <2>1
  <2> QED
    BY <2>1, <2>2
<1> QED
  BY <1>4

\* get_client_ip takes the last untrusted hop, if there is one.
LEMMA LastUntrustedIsLast ==
  ASSUME NEW S, NEW path \in Seq(S), path # <<>>
  PROVE  LET i == LastUntrusted(path) IN
         /\ i \in 1 .. Len(path)
         /\ (\E k \in 1 .. Len(path) : path[k] \notin Trusted) =>
              path[i] \notin Trusted /\ \A k \in i + 1 .. Len(path) : path[k] \in Trusted
<1>1. DOMAIN path = 1 .. Len(path) /\ Len(path) \in Nat /\ 1 \in 1 .. Len(path)
  OBVIOUS
<1>2. CASE \A i \in DOMAIN path : path[i] \in Trusted
  BY <1>1, <1>2 DEF LastUntrusted
<1>3. CASE \E i \in DOMAIN path : path[i] \notin Trusted
  <2> DEFINE T == {k \in 1 .. Len(path) : path[k] \notin Trusted}
             L(i) == path[i] \notin Trusted /\ \A k \in i + 1 .. Len(path) : path[k] \in Trusted
  <2>1. T \in SUBSET (1 .. Len(path)) /\ T # {}
    BY <1>1, <1>3
  <2>2. PICK x \in T : \A y \in T : y <= x
    BY <1>1, <2>1, LastPosition
  <2>3. x \in DOMAIN path /\ L(x)
    BY <1>1, <2>2
  <2>4. LastUntrusted(path) = CHOOSE i \in DOMAIN path : L(i)
    BY <1>3 DEF LastUntrusted
  <2>5. LastUntrusted(path) \in DOMAIN path /\ L(LastUntrusted(path))
    <3> HIDE DEF L
    <3> QED
      BY <2>3, <2>4
  <2> QED
    BY <1>1, <2>5
<1> QED
  BY <1>2, <1>3

(* Whatever its client put in the header and whatever X-Real-IP says, a request
   is counted under the last stranger that carried it, or under its peer. *)
LEMMA CountedAddress ==
  ASSUME NEW path \in Seq(Address), NEW forwarded \in Seq(Address \cup {Junk}),
         NEW given \in {0, 1}, NEW real_ip, Truthful(path, forwarded, given)
  PROVE  LET address == get_client_ip(path[Len(path)], forwarded, real_ip) IN
         address \in Address /\ Theirs(path, forwarded, given, address)
<1> DEFINE peer == path[Len(path)]
           address == get_client_ip(peer, forwarded, real_ip)
           strangers == {i \in DOMAIN path : path[i] \notin Trusted}
           full == Append(forwarded, peer)
<1>1. /\ Len(path) \in Nat /\ Len(path) >= 1 /\ DOMAIN path = 1 .. Len(path)
      /\ Len(forwarded) = given + Len(path) - 1 /\ Len(forwarded) \in Nat
      /\ DOMAIN forwarded = 1 .. Len(forwarded)
      /\ \A i \in 1 .. Len(path) - 1 : forwarded[given + i] = path[i]
  BY DEF Truthful
<1>2. peer \in Address
  BY <1>1
<1>3. CASE peer \notin Trusted
  <2>1. address = peer
    BY <1>3 DEF get_client_ip
  <2>2. Len(path) \in strangers /\ \A k \in strangers : k <= Len(path)
    BY <1>1, <1>3
  <2> QED
    BY <1>2, <2>1, <2>2 DEF Theirs
<1>4. CASE peer \in Trusted /\ forwarded = <<>>
  <2>1. address \in Address
    BY <1>2, <1>4 DEF get_client_ip
  <2>2. Len(path) = 1
    BY <1>1, <1>4
  <2>3. strangers = {}
    BY <1>1, <1>4, <2>2
  <2> QED
    BY <1>4, <2>1, <2>3 DEF Theirs
<1>5. CASE peer \in Trusted /\ forwarded # <<>> /\ \E i \in DOMAIN forwarded : forwarded[i] = Junk
  <2>1. address = peer
    BY <1>5 DEF get_client_ip
  <2>2. PICK j \in 1 .. Len(forwarded) : forwarded[j] = Junk
    BY <1>1, <1>5
  <2>3. j = 1 /\ given = 1
    <3>1. ASSUME j > given  PROVE FALSE
      <4>1. j - given \in 1 .. Len(path) - 1 /\ given + (j - given) = j
        BY <1>1, <2>2, <3>1
      <4>2. forwarded[j] = path[j - given] /\ path[j - given] \in Address
        BY <1>1, <4>1
      <4> QED
        BY <2>2, <4>2, AddressAssumption
    <3> QED
      BY <2>2, <3>1
  <2> QED
    BY <1>2, <1>5, <2>1, <2>2, <2>3 DEF Theirs
<1>6. CASE peer \in Trusted /\ forwarded # <<>> /\ \A i \in DOMAIN forwarded : forwarded[i] # Junk
  <2>1. address = full[LastUntrusted(full)]
    BY <1>6 DEF get_client_ip
  <2>2. forwarded \in Seq(Address)
    <3>1. forwarded \in [1 .. Len(forwarded) -> Address \cup {Junk}]
      BY LenProperties
    <3>2. \A i \in 1 .. Len(forwarded) : forwarded[i] \in Address
      BY <1>1, <1>6, <3>1
    <3>3. forwarded \in [1 .. Len(forwarded) -> Address]
      BY <3>1, <3>2
    <3> QED
      BY <1>1, <3>3, SeqDef
  <2>3. /\ full \in Seq(Address) /\ full # <<>> /\ Len(full) = given + Len(path)
        /\ full[Len(full)] = peer
        /\ \A i \in 1 .. Len(path) - 1 : full[given + i] = path[i]
    BY <1>1, <1>2, <2>2
  <2>4. \A i \in 1 .. Len(path) : full[given + i] = path[i]
    BY <1>1, <2>3
  <2> HIDE DEF full, peer, address
  <2>5. PICK j \in 1 .. Len(full) :
          /\ j = LastUntrusted(full)
          /\ (\E k \in 1 .. Len(full) : full[k] \notin Trusted) =>
               full[j] \notin Trusted /\ \A k \in j + 1 .. Len(full) : full[k] \in Trusted
    BY <2>3, LastUntrustedIsLast
  <2>6. address = full[j] /\ address \in Address
    BY <2>1, <2>3, <2>5
  <2>7. ASSUME NEW s \in strangers
        PROVE  \E i \in strangers : address = path[i] /\ \A k \in strangers : k <= i
    <3>1. /\ s \in 1 .. Len(path) /\ path[s] \notin Trusted
          /\ given + s \in 1 .. Len(full) /\ full[given + s] \notin Trusted
      BY <1>1, <2>3, <2>4
    <3>2. full[j] \notin Trusted /\ \A k \in j + 1 .. Len(full) : full[k] \in Trusted
      BY <2>5, <3>1
    <3>3. \A k \in strangers : k \in 1 .. Len(path) /\ given + k <= j
      <4>1. SUFFICES ASSUME NEW k \in strangers, given + k > j
                     PROVE  FALSE
        BY <1>1, <2>5
      <4>2. k \in 1 .. Len(path) /\ given + k \in j + 1 .. Len(full) /\ full[given + k] \notin Trusted
        BY <1>1, <2>3, <2>4, <2>5, <4>1
      <4> QED
        BY <3>2, <4>2
    <3>4. /\ j - given \in 1 .. Len(path) /\ given + (j - given) = j
      BY <1>1, <2>3, <2>5, <3>1, <3>3
    <3>5. full[j] = path[j - given] /\ j - given \in strangers
      BY <1>1, <2>4, <3>2, <3>4
    <3>6. \A k \in strangers : k <= j - given
      BY <1>1, <2>5, <3>3
    <3> QED
      BY <2>6, <3>5, <3>6
  <2> QED
    BY <1>6, <2>6, <2>7 DEF peer, address, Theirs
<1> QED
  BY <1>3, <1>4, <1>5, <1>6
-----------------------------------------------------------------------------
(* The steps. *)

\* Texts are origins, so that the lemmas apply to what the model passes around.
LEMMA Texts ==
  /\ Text \cup {None} \subseteq Origin \cup {None}
  /\ site \in Site => /\ \A lines \in Here.lists : lines \in SUBSET Text /\ lines \in SUBSET Origin
                      /\ Here.pages \subseteq Text
                      /\ Here.clients \subseteq Address
  /\ SUBSET Text \subseteq SUBSET Origin
  /\ None \notin Text
BY GatewayAssumption, OriginAssumption DEF Here

\* The initial state satisfies the invariant.
LEMMA InitGateway == Init => GatewayInv
<1> SUFFICES ASSUME Init  PROVE GatewayInv
  OBVIOUS
<1>1. NoRequest \in RequestState
  BY DEF NoRequest, RequestState
<1>2. TypeOK
  BY <1>1 DEF Init, TypeOK, NoEdit, EditState
<1>3. Faithful(stored, typed)
  BY DEF Init, Faithful
<1>4. \A a \in Editor : Current(edit[a], stored)
  BY DEF Init, Current, NoEdit
<1> QED
  BY <1>2, <1>3, <1>4 DEF Init, NoRequest, GatewayInv, Handler, Route, Approved, ClientAddressIsTheirs

\* Edits do not touch a request.
LEMMA SameRequest ==
  ASSUME GatewayInv, UNCHANGED req
  PROVE  Handler(req)' /\ Route(req)' /\ Approved(req)' /\ ClientAddressIsTheirs'
BY DEF GatewayInv, Handler, Route, Approved, ClientAddressIsTheirs

\* An edit stores a list that stands for what was typed, or leaves the column alone.
LEMMA CommitStores ==
  ASSUME NEW a \in Editor, site \in Site, NEW lines \in Here.lists, EditCommit(a, lines)
  PROVE  \/ /\ stored' = stored /\ typed' = typed
            /\ \E value \in origins_to_storage(normalize_origins(lines)) : edit[a].list = value
         \/ Faithful(stored', lines) /\ typed' = lines
<1>1. AllNormal(lines) /\ lines \in SUBSET Origin
  BY Texts DEF EditCommit
<1>2. PICK value \in origins_to_storage(normalize_origins(lines)) :
        \/ Keeps(edit[a].list, value) /\ UNCHANGED <<stored, typed>>
        \/ stored' = value /\ typed' = lines
  BY DEF EditCommit
<1> QED
  BY <1>1, <1>2, StoredIsFaithful DEF Keeps

\* The commit of an edit keeps the invariant; the other edits are overtaken.
LEMMA CommitGateway ==
  ASSUME GatewayInv, NEW a \in Editor, NEW lines \in Here.lists, EditCommit(a, lines)
  PROVE  GatewayInv'
<1>1. site \in Site /\ Faithful(stored, typed) /\ edit \in [Editor -> EditState]
  BY DEF GatewayInv, TypeOK
<1>2. Faithful(stored', typed') /\ typed' \in SUBSET Text
  BY <1>1, Texts, CommitStores DEF GatewayInv, TypeOK
<1>3. /\ edit' = [b \in Editor |-> IF b = a THEN NoEdit
                                  ELSE [edit[b] EXCEPT !.overtaken = edit[b].open]]
      /\ active' \in BOOLEAN
      /\ UNCHANGED <<site, deleted, req>>
  BY DEF EditCommit, GatewayInv, TypeOK
<1>4. ASSUME NEW b \in Editor
      PROVE  edit'[b] \in EditState /\ Current(edit'[b], stored')
  <2>1. CASE b = a
    BY <1>3, <2>1 DEF NoEdit, EditState, Current
  <2>2. CASE b # a
    <3>1. PICK e \in EditState : e = edit[b]
      BY <1>1
    <3>2. edit'[b] = [e EXCEPT !.overtaken = e.open]
      BY <1>3, <2>2, <3>1
    <3>3. /\ [e EXCEPT !.overtaken = e.open] \in EditState
          /\ [e EXCEPT !.overtaken = e.open].open = e.open
          /\ [e EXCEPT !.overtaken = e.open].overtaken = e.open
      BY DEF EditState
    <3> QED
      BY <3>2, <3>3 DEF Current
  <2> QED
    BY <2>1, <2>2
<1>5. edit' \in [Editor -> EditState]
  BY <1>3, <1>4
<1>6. TypeOK'
  BY <1>2, <1>3, <1>5 DEF GatewayInv, TypeOK, Faithful
<1>7. Faithful(stored, typed)' /\ \A b \in Editor : Current(edit[b], stored)'
  BY <1>2, <1>4 DEF Faithful, Current
<1> QED
  BY <1>3, <1>6, <1>7, SameRequest DEF GatewayInv

\* An edit that is loaded is current; one that is refused or raises leaves nothing.
LEMMA EditGateway == ASSUME GatewayInv, NEW a \in Editor, Edit(a) PROVE GatewayInv'
<1>1. CASE Load(a) \/ EditRefused(a)
  <2>1. /\ UNCHANGED <<site, active, deleted, stored, typed, req>>
        /\ stored \in SUBSET Origin /\ active \in BOOLEAN /\ edit \in [Editor -> EditState]
    BY <1>1 DEF Load, EditRefused, GatewayInv, TypeOK
  <2>2. PICK e \in EditState : edit' = [edit EXCEPT ![a] = e] /\ Current(e, stored)
    <3>1. CASE Load(a)
      <4> DEFINE e == [open |-> TRUE, list |-> stored, active |-> active, overtaken |-> FALSE]
      <4>1. e \in EditState /\ Current(e, stored)
        BY <2>1 DEF EditState, Current
      <4> QED
        BY <3>1, <4>1 DEF Load
    <3>2. CASE EditRefused(a)
      <4>1. NoEdit \in EditState /\ Current(NoEdit, stored)
        BY DEF NoEdit, EditState, Current
      <4> QED
        BY <3>2, <4>1 DEF EditRefused
    <3> QED
      BY <1>1, <3>1, <3>2
  <2>3. edit' \in [Editor -> EditState] /\ \A b \in Editor : Current(edit'[b], stored)
    BY <2>1, <2>2 DEF GatewayInv
  <2>4. TypeOK' /\ Faithful(stored, typed)'
    BY <2>1, <2>3 DEF GatewayInv, TypeOK, Faithful
  <2>5. \A b \in Editor : Current(edit[b], stored)'
    BY <2>1, <2>3 DEF Current
  <2> QED
    BY <2>1, <2>4, <2>5, SameRequest DEF GatewayInv
<1> QED
  BY <1>1, CommitGateway DEF Edit

\* A deletion keeps the list.
LEMMA DeleteGateway == GatewayInv /\ Delete => GatewayInv'
<1> SUFFICES ASSUME GatewayInv, Delete  PROVE GatewayInv'
  OBVIOUS
<1>1. TypeOK' /\ Faithful(stored, typed)' /\ \A a \in Editor : Current(edit[a], stored)'
  BY DEF Delete, GatewayInv, TypeOK, Faithful, Current
<1> QED
  BY <1>1, SameRequest DEF Delete, GatewayInv

\* The endpoint is left alone.
LEMMA SameEndpoint ==
  ASSUME GatewayInv, UNCHANGED <<site, endpoint>>, req' \in RequestState,
         Handler(req'), Route(req'), Approved(req'), ClientAddressIsTheirs'
  PROVE  GatewayInv'
<1>1. UNCHANGED <<site, active, deleted, stored, typed, edit>>
  BY DEF endpoint
<1>2. TypeOK' /\ Faithful(stored, typed)' /\ \A a \in Editor : Current(edit[a], stored)'
  BY <1>1 DEF GatewayInv, TypeOK, Faithful, Current
<1>3. Handler(req)' /\ Route(req)' /\ Approved(req)'
  BY DEF Handler, Route, Approved
<1> QED
  BY <1>2, <1>3 DEF GatewayInv

\* Reading the column gives the list as it was typed.
LEMMA AllowedIsStored == GatewayInv => Allowed = stored
BY ReadBack DEF GatewayInv, Allowed

\* A preflight is approved for a listed origin only.
LEMMA PreflightGateway == GatewayInv /\ Preflight => GatewayInv'
<1> SUFFICES ASSUME GatewayInv, Preflight  PROVE GatewayInv'
  OBVIOUS
<1>1. PICK origin \in Here.pages \cup {None}, ordinary \in BOOLEAN :
        req' = [req EXCEPT
          !.pc = "asked", !.origin = origin, !.asked = typed,
          !.approved = Approves(origin, ordinary) /\ apply_cors(origin, Allowed) = origin]
  BY DEF Preflight
<1> DEFINE approved == Approves(origin, ordinary) /\ apply_cors(origin, Allowed) = origin
<1>2. approved \in BOOLEAN /\ origin \in Text \cup {None}
  BY Texts DEF GatewayInv, TypeOK
<1>3. ASSUME approved  PROVE typed = {} \/ Named(origin, typed)
  <2>1. origin_is_allowed(origin, stored)
    BY <1>3, AllowedIsStored DEF Approves
  <2>2. Faithful(stored, typed) /\ typed \in SUBSET Origin /\ origin \in Origin \cup {None}
    BY <1>2, Texts DEF GatewayInv, TypeOK
  <2> QED
    BY <2>1, <2>2, AdmissionIsListed
<1> HIDE DEF approved
<1>4. req \in RequestState /\ typed \in SUBSET Text
  BY DEF GatewayInv, TypeOK
<1>5. req' = [req EXCEPT !.pc = "asked", !.origin = origin, !.asked = typed,
                         !.approved = approved]
  BY <1>1 DEF approved
<1>6. req' \in RequestState
  BY <1>2, <1>4, <1>5 DEF RequestState
<1>7. /\ req'.pc = "asked" /\ req'.origin = origin /\ req'.asked = typed
      /\ req'.approved = approved
      /\ req'.verdict = req.verdict /\ req'.readable = req.readable
  BY <1>4, <1>5 DEF RequestState
<1>8. req.verdict = "none" /\ req.readable = None
  BY DEF Preflight, GatewayInv, Handler
<1>9. Handler(req') /\ Route(req') /\ Approved(req')
  BY <1>3, <1>7, <1>8 DEF Handler, Route, Approved
<1>10. ClientAddressIsTheirs'
  BY <1>7 DEF ClientAddressIsTheirs
<1> QED
  BY <1>6, <1>9, <1>10, SameEndpoint DEF Preflight

\* A new request: nobody but its client is on its path.
LEMMA PostGateway == GatewayInv /\ Post => GatewayInv'
<1> SUFFICES ASSUME GatewayInv, Post  PROVE GatewayInv'
  OBVIOUS
<1>1. PICK origin \in IF req.pc = "asked" THEN {req.origin} ELSE Here.pages \cup {None},
           client \in Here.clients,
           given \in {<<>>} \cup {<<part>> : part \in Address \cup {Junk}} :
        req' = [NoRequest EXCEPT !.pc = "sent", !.origin = origin, !.path = <<client>>,
                                 !.forwarded = given, !.given = Len(given)]
  BY DEF Post
<1>2. origin \in Text \cup {None} /\ client \in Address
  BY Texts DEF GatewayInv, TypeOK, RequestState
<1>3. /\ given \in Seq(Address \cup {Junk}) /\ Len(given) \in {0, 1}
      /\ <<client>> \in Seq(Address) /\ <<client>> # <<>> /\ Len(<<client>>) = 1
  <2>1. <<client>> \in Seq(Address) /\ Len(<<client>>) = 1
    BY <1>2
  <2>2. CASE given = <<>>
    BY <2>1, <2>2
  <2>3. CASE \E part \in Address \cup {Junk} : given = <<part>>
    <3>1. PICK part \in Address \cup {Junk} : given = <<part>>
      BY <2>3
    <3>2. <<part>> \in Seq(Address \cup {Junk}) /\ Len(<<part>>) = 1
      OBVIOUS
    <3> QED
      BY <2>1, <3>1, <3>2
  <2> QED
    BY <1>1, <2>2, <2>3
<1> DEFINE path == <<client>>
           count == Len(given)
<1>4. Truthful(path, given, count)
  BY <1>3 DEF Truthful
<1>5. req' = [NoRequest EXCEPT !.pc = "sent", !.origin = origin, !.path = path,
                               !.forwarded = given, !.given = count]
  BY <1>1
<1> HIDE DEF path, count
<1>6. req' \in RequestState
  BY <1>2, <1>3, <1>5 DEF NoRequest, RequestState, path, count
<1>7. /\ req'.pc = "sent" /\ req'.path = path /\ req'.forwarded = given /\ req'.given = count
      /\ req'.approved = FALSE /\ req'.verdict = "none" /\ req'.readable = None
  BY <1>5 DEF NoRequest
<1>8. Handler(req') /\ Route(req') /\ Approved(req')
  BY <1>4, <1>7 DEF Handler, Route, Approved
<1>9. ClientAddressIsTheirs'
  BY <1>7 DEF ClientAddressIsTheirs
<1> QED
  BY <1>6, <1>8, <1>9, SameEndpoint DEF Post

\* A proxy adds the hop before itself.
LEMMA ForwardGateway == GatewayInv /\ Forward => GatewayInv'
<1> SUFFICES ASSUME GatewayInv, Forward  PROVE GatewayInv'
  OBVIOUS
<1>1. PICK proxy \in Address :
        req' = [req EXCEPT !.path = Append(@, proxy),
                           !.forwarded = Append(@, req.path[Len(req.path)])]
  BY DEF Forward
<1> DEFINE path == Append(req.path, proxy)
           forwarded == Append(req.forwarded, req.path[Len(req.path)])
<1>2. /\ req \in RequestState /\ req.pc = "sent"
      /\ req.path \in Seq(Address) /\ req.forwarded \in Seq(Address \cup {Junk})
      /\ req.given \in {0, 1}
      /\ Truthful(req.path, req.forwarded, req.given)
  BY DEF Forward, GatewayInv, TypeOK, RequestState, Route
<1>3. /\ Len(req.path) \in Nat /\ Len(req.path) >= 1
      /\ req.path[Len(req.path)] \in Address
  BY <1>2 DEF Truthful
<1>4. path \in Seq(Address) /\ forwarded \in Seq(Address \cup {Junk})
  BY <1>2, <1>3
<1>5. Truthful(path, forwarded, req.given)
  <2>1. /\ Len(path) = Len(req.path) + 1 /\ Len(forwarded) = Len(req.forwarded) + 1
        /\ Len(req.forwarded) = req.given + Len(req.path) - 1
    BY <1>2, <1>3 DEF Truthful
  <2>2. ASSUME NEW i \in 1 .. Len(req.path)
        PROVE  forwarded[req.given + i] = path[i]
    <3>1. CASE i = Len(req.path)
      BY <1>2, <1>3, <2>1, <3>1
    <3>2. CASE i \in 1 .. Len(req.path) - 1
      <4>1. req.forwarded[req.given + i] = req.path[i]
        BY <1>2, <3>2 DEF Truthful
      <4>2. req.given + i \in 1 .. Len(req.forwarded)
        BY <1>2, <1>3, <2>1, <3>2
      <4>3. forwarded[req.given + i] = req.forwarded[req.given + i]
        BY <1>2, <1>3, <4>2
      <4>4. path[i] = req.path[i]
        BY <1>2, <1>3, <3>2
      <4> QED
        BY <4>1, <4>3, <4>4
    <3>3. i = Len(req.path) \/ i \in 1 .. Len(req.path) - 1
      BY <1>3
    <3> HIDE DEF path, forwarded
    <3> QED
      BY <3>1, <3>2, <3>3
  <2>3. path # <<>>
    BY <1>2
  <2> HIDE DEF path, forwarded
  <2> QED
    BY <1>2, <1>3, <2>1, <2>2, <2>3 DEF Truthful
<1> HIDE DEF path, forwarded
<1>6. req' = [req EXCEPT !.path = path, !.forwarded = forwarded]
  BY <1>1 DEF path, forwarded
<1>7. req' \in RequestState
  BY <1>2, <1>4, <1>6 DEF RequestState
<1>8. /\ req'.pc = "sent" /\ req'.path = path /\ req'.forwarded = forwarded
      /\ req'.given = req.given /\ req'.approved = req.approved /\ req'.asked = req.asked
      /\ req'.origin = req.origin /\ req'.verdict = req.verdict /\ req'.readable = req.readable
  BY <1>2, <1>6 DEF RequestState
<1>9. Handler(req') /\ Route(req') /\ Approved(req')
  BY <1>2, <1>5, <1>8 DEF GatewayInv, Handler, Route, Approved
<1>10. ClientAddressIsTheirs'
  BY <1>8 DEF ClientAddressIsTheirs
<1> QED
  BY <1>7, <1>9, <1>10, SameEndpoint DEF Forward

\* What the handler decides by follows from the list as it was typed.
LEMMA ArriveGateway == GatewayInv /\ Arrive => GatewayInv'
<1> SUFFICES ASSUME GatewayInv, Arrive  PROVE GatewayInv'
  OBVIOUS
<1> DEFINE peer == req.path[Len(req.path)]
           list == IF deleted THEN {} ELSE Allowed
           verdict == Verdict(req.origin)
           Counted(real_ip) == IF verdict \in {"in", "refused"}
                               THEN get_client_ip(peer, req.forwarded, real_ip)
                               ELSE req.address
<1>1. PICK real_ip \in Address \cup {Junk, Nobody} :
        req' = [req EXCEPT !.pc = "entered", !.list = list, !.listed = typed,
                           !.verdict = verdict, !.address = Counted(real_ip)]
  BY DEF Arrive
<1> DEFINE address == Counted(real_ip)
<1>2. /\ req \in RequestState /\ req.pc = "sent" /\ typed \in SUBSET Text
      /\ req.path \in Seq(Address) /\ req.forwarded \in Seq(Address \cup {Junk})
      /\ req.given \in {0, 1} /\ req.address \in Address \cup {Nobody}
      /\ Truthful(req.path, req.forwarded, req.given)
      /\ req.readable = None
      /\ active \in BOOLEAN /\ deleted \in BOOLEAN
  BY DEF Arrive, GatewayInv, TypeOK, RequestState, Route, Handler
<1>3. Allowed = stored /\ Faithful(stored, typed)
  BY AllowedIsStored DEF GatewayInv
<1>4. /\ verdict \in {"missing", "disabled", "refused", "in"}
      /\ verdict # "missing" => list = stored
      /\ verdict = "in" => origin_is_allowed(req.origin, stored)
      /\ verdict = "refused" => ~origin_is_allowed(req.origin, stored)
  BY <1>2, <1>3 DEF Verdict
<1>5. list \in SUBSET Origin
  BY <1>3 DEF Faithful
<1>6. address \in Address \cup {Nobody}
  BY <1>2, CountedAddress
<1>7. verdict \in {"in", "refused"} => Theirs(req.path, req.forwarded, req.given, address)
  BY <1>2, CountedAddress
<1>8. req' = [req EXCEPT !.pc = "entered", !.list = list, !.listed = typed,
                         !.verdict = verdict, !.address = address]
  BY <1>1
<1> HIDE DEF list, verdict, address
<1>9. req' \in RequestState
  BY <1>2, <1>4, <1>5, <1>6, <1>8 DEF RequestState
<1>10. /\ req'.pc = "entered" /\ req'.list = list /\ req'.listed = typed
       /\ req'.verdict = verdict /\ req'.address = address /\ req'.origin = req.origin
       /\ req'.path = req.path /\ req'.forwarded = req.forwarded /\ req'.given = req.given
       /\ req'.approved = req.approved /\ req'.asked = req.asked
       /\ req'.readable = req.readable
  BY <1>2, <1>8 DEF RequestState
<1>11. Handler(req')
  BY <1>2, <1>3, <1>4, <1>10 DEF Handler
<1>12. Route(req') /\ Approved(req')
  BY <1>2, <1>10 DEF GatewayInv, Route, Approved
<1>13. ClientAddressIsTheirs'
  BY <1>7, <1>10 DEF ClientAddressIsTheirs, Theirs
<1> QED
  BY <1>9, <1>11, <1>12, <1>13, SameEndpoint DEF Arrive

\* The end of a request keeps the invariant if what may be read follows from its list.
LEMMA EndGateway ==
  ASSUME GatewayInv, NEW pc \in {"answered", "failed"}, NEW readable \in Origin \cup {None},
         Ends(pc, readable),
         IF pc = "answered" /\ req.verdict # "missing"
         THEN readable = apply_cors(req.origin, req.list) ELSE readable = None
  PROVE  GatewayInv'
<1>1. req' = [req EXCEPT !.pc = pc, !.path = <<>>, !.forwarded = <<>>, !.given = 0,
                         !.address = Nobody, !.readable = readable]
  BY DEF Ends
<1>2. /\ req \in RequestState /\ req.pc = "entered"
      /\ req.verdict # "missing" => Faithful(req.list, req.listed)
      /\ req.verdict = "in" => origin_is_allowed(req.origin, req.list)
      /\ req.verdict = "refused" => ~origin_is_allowed(req.origin, req.list)
  BY DEF Ends, GatewayInv, TypeOK, Handler
<1>3. <<>> \in Seq(Address) /\ <<>> \in Seq(Address \cup {Junk})
  OBVIOUS
<1>4. req' \in RequestState
  BY <1>1, <1>2, <1>3 DEF RequestState
<1>5. /\ req'.pc = pc /\ req'.readable = readable /\ req'.verdict = req.verdict
      /\ req'.list = req.list /\ req'.listed = req.listed /\ req'.origin = req.origin
      /\ req'.approved = req.approved /\ req'.asked = req.asked
  BY <1>1, <1>2 DEF RequestState
<1>6. Handler(req')
  BY <1>2, <1>5 DEF Handler
<1>7. Route(req') /\ Approved(req')
  BY <1>2, <1>5 DEF GatewayInv, Route, Approved
<1>8. ClientAddressIsTheirs'
  BY <1>5 DEF ClientAddressIsTheirs
<1> QED
  BY <1>4, <1>6, <1>7, <1>8, SameEndpoint DEF Ends

\* The answer is made from the handler's copy, a plain 500 from nothing.
LEMMA AnswerGateway == GatewayInv /\ (Answer \/ Fail) => GatewayInv'
<1> SUFFICES ASSUME GatewayInv, Answer \/ Fail  PROVE GatewayInv'
  OBVIOUS
<1>1. CASE Answer
  <2> DEFINE readable == IF req.verdict = "missing" THEN None
                         ELSE apply_cors(req.origin, req.list)
  <2>1. /\ req.origin \in Origin \cup {None} /\ req.listed \in SUBSET Origin
        /\ req.verdict # "missing" => Faithful(req.list, req.listed)
    BY <1>1, Texts DEF Answer, Ends, GatewayInv, TypeOK, RequestState, Handler
  <2>2. readable \in Origin \cup {None}
    BY <2>1, ReadableIsListed
  <2>3. Ends("answered", readable)
    BY <1>1 DEF Answer
  <2> QED
    BY <2>2, <2>3, EndGateway
<1>2. CASE Fail
  BY <1>2, EndGateway DEF Fail
<1> QED
  BY <1>1, <1>2

\* The next request starts from nothing.
LEMMA AgainGateway == GatewayInv /\ Again => GatewayInv'
<1> SUFFICES ASSUME GatewayInv, Again  PROVE GatewayInv'
  OBVIOUS
<1>1. req' \in RequestState
  BY DEF Again, NoRequest, RequestState
<1>2. Handler(req') /\ Route(req') /\ Approved(req')
  BY DEF Again, NoRequest, Handler, Route, Approved
<1>3. ClientAddressIsTheirs'
  BY DEF Again, NoRequest, ClientAddressIsTheirs
<1> QED
  BY <1>1, <1>2, <1>3, SameEndpoint DEF Again
-----------------------------------------------------------------------------
(* The theorems. *)

\* The invariant holds whatever the gateway does.
THEOREM GatewayInvariance == Spec => []GatewayInv
<1>1. GatewayInv /\ [Next]_vars => GatewayInv'
  <2> SUFFICES ASSUME GatewayInv, [Next]_vars  PROVE GatewayInv'
    OBVIOUS
  <2>1. CASE UNCHANGED vars
    <3>1. TypeOK' /\ Faithful(stored, typed)' /\ \A a \in Editor : Current(edit[a], stored)'
      BY <2>1 DEF vars, endpoint, GatewayInv, TypeOK, Faithful, Current
    <3> QED
      BY <2>1, <3>1, SameRequest DEF vars, GatewayInv
  <2>2. ASSUME NEW a \in Here.editors, Edit(a)  PROVE GatewayInv'
    <3>1. a \in Editor
      BY GatewayAssumption DEF GatewayInv, TypeOK, Here
    <3> QED
      BY <2>2, <3>1, EditGateway
  <2> QED
    BY <2>2, <2>1, DeleteGateway, PreflightGateway, PostGateway, ForwardGateway,
       ArriveGateway, AnswerGateway, AgainGateway DEF Next
<1> QED
  BY <1>1, InitGateway, PTL DEF Spec

\* The state is of its type.
THEOREM GatewayTypeCorrect == Spec => []TypeOK
<1>1. GatewayInv => TypeOK
  BY DEF GatewayInv
<1> QED
  BY <1>1, GatewayInvariance, PTL

(* An edit that no other one overtakes takes effect, written or not
   (endpoints.py:166-177). *)
THEOREM EditsTakeEffect == Spec => SavedListsTakeEffect
<1> DEFINE Effective(a, lines) ==
             ~edit[a].overtaken /\ EditCommit(a, lines) =>
               /\ \A p \in stored' : \E o \in lines : SameOrigin(o, p)
               /\ \A o \in lines : \E p \in stored' : SameOrigin(o, p)
<1>1. ASSUME GatewayInv, NEW a \in Editor, NEW lines \in Here.lists  PROVE Effective(a, lines)
  <2> SUFFICES ASSUME ~edit[a].overtaken, EditCommit(a, lines)
               PROVE  /\ \A p \in stored' : \E o \in lines : SameOrigin(o, p)
                      /\ \A o \in lines : \E p \in stored' : SameOrigin(o, p)
    OBVIOUS
  <2>1. site \in Site /\ edit[a].list = stored
    BY <1>1 DEF GatewayInv, TypeOK, Current, EditCommit
  <2>2. AllNormal(lines) /\ lines \in SUBSET Origin
    BY <1>1, <2>1, Texts DEF EditCommit
  <2>3. Faithful(stored', lines)
    BY <1>1, <2>1, <2>2, CommitStores, StoredIsFaithful
  <2>4. ASSUME NEW o \in lines  PROVE \E p \in stored' : SameOrigin(o, p)
    BY <2>2, <2>3, NormalOrigin DEF Faithful, AllNormal
  <2> QED
    BY <2>3, <2>4 DEF Faithful
<1>2. GatewayInv => [\A a \in Editor, lines \in Here.lists : Effective(a, lines)]_vars
  BY <1>1
<1> QED
  BY <1>2, GatewayInvariance, PTL DEF SavedListsTakeEffect

(* With a list, only origins typed in the form that wrote it are admitted, approved
   and told the answer, whatever edits do between the steps of a request. *)
THEOREM ListsMeanWhatWasTyped == Spec => []AdmittedWereListed
<1>1. GatewayInv => AdmittedWereListed
  <2> SUFFICES ASSUME GatewayInv  PROVE AdmittedWereListed
    OBVIOUS
  <2>1. /\ req.origin \in Origin \cup {None} /\ req.listed \in SUBSET Origin
        /\ req.pc \in {"none", "asked", "sent", "entered", "answered", "failed"}
    BY Texts DEF GatewayInv, TypeOK, RequestState
  <2>2. ASSUME req.verdict = "in"
        PROVE  req.listed = {} \/ Named(req.origin, req.listed)
    <3>1. Faithful(req.list, req.listed) /\ origin_is_allowed(req.origin, req.list)
      BY <2>1, <2>2 DEF GatewayInv, Handler
    <3> QED
      BY <2>1, <3>1, AdmissionIsListed
  <2>3. ASSUME req.readable # None
        PROVE  req.listed = {} \/ Named(req.readable, req.listed)
    <3>1. Faithful(req.list, req.listed) /\ req.readable = apply_cors(req.origin, req.list)
      BY <2>1, <2>3 DEF GatewayInv, Handler
    <3> QED
      BY <2>1, <2>3, <3>1, ReadableIsListed
  <2> QED
    BY <2>2, <2>3 DEF GatewayInv, Approved, AdmittedWereListed
<1> QED
  BY <1>1, GatewayInvariance, PTL

(* However a listed origin was typed, the page a browser shows from it is admitted
   and may read whatever the handler answers. *)
THEOREM ListedAreServed == Spec => []ListedPagesAreServed
<1>1. GatewayInv => ListedPagesAreServed
  <2> SUFFICES ASSUME GatewayInv, FromBrowser(req.origin),
                      req.listed = {} \/ Named(req.origin, req.listed)
               PROVE  /\ req.verdict # "refused"
                      /\ req.pc = "answered" /\ req.verdict # "missing" =>
                           req.readable = req.origin
    BY DEF ListedPagesAreServed
  <2>1. /\ req.origin \in Text /\ req.listed \in SUBSET Text
        /\ req.pc \in {"none", "asked", "sent", "entered", "answered", "failed"}
    BY DEF GatewayInv, TypeOK, RequestState, FromBrowser
  <2>2. ASSUME req.pc \in {"entered", "answered", "failed"}, req.verdict # "missing"
        PROVE  origin_is_allowed(req.origin, req.list) /\ apply_cors(req.origin, req.list) = req.origin
    <3>1. Faithful(req.list, req.listed)
      BY <2>2 DEF GatewayInv, Handler
    <3> QED
      BY <2>1, <3>1, ListedPagesAreAdmitted
  <2> QED
    BY <2>1, <2>2 DEF GatewayInv, Handler
<1> QED
  BY <1>1, GatewayInvariance, PTL

\* No stranger chooses the address it is counted under.
THEOREM AddressesAreTheirs == Spec => []ClientAddressIsTheirs
<1>1. GatewayInv => ClientAddressIsTheirs
  BY DEF GatewayInv
<1> QED
  BY <1>1, GatewayInvariance, PTL
=============================================================================
