------------------------------- MODULE Origins -------------------------------
(* Allowed origins (app/core/origins.py, app/core/network_validation.py): what a
   text is normalised to, how a list is stored and read back, and whom it admits.

   A text is a record of what normalisation tells apart; the characters are left
   out.  A list is the set of its entries: order matters nowhere, and
   normalize_origins drops what it has seen. *)
EXTENDS Integers

CONSTANTS
  HostName,   \* names that hosts are written with, canonical ones
  None

MaxPort == 65535

Host == [name : HostName,
         colons : BOOLEAN,     \* an IPv6 address in shape
         digits : BOOLEAN,     \* nothing but digits between its dots
         wide : BOOLEAN,       \* dots that only IDNA takes for dots
         address : BOOLEAN,    \* ipaddress accepts it
         labels : BOOLEAN]     \* IDNA and the rules for DNS labels accept it

Origin == [scheme : {"http", "https", "other"},
           host : Host,
           port : Nat \cup {None},
           plain : BOOLEAN,    \* canonical case, ASCII, compressed
           bare : BOOLEAN]     \* no path, query, credentials, wildcard, blank; not null

ASSUME OriginAssumption == None \notin Origin /\ None \notin Host /\ None \notin Nat
-----------------------------------------------------------------------------
\* normalize_hostname: does the text count as an IP address?
looks_like_ip(h) == h.colons \/ (h.digits /\ ~h.wide)

\* normalize_hostname: IDNA turns every dot into a plain one.
normalize_hostname(h) ==
  IF looks_like_ip(h) THEN IF h.address /\ ~h.wide THEN h ELSE None
  ELSE IF h.labels THEN [h EXCEPT !.wide = FALSE] ELSE None

\* Wrong variant: the ports are mixed up.
SwappedPort(scheme, port) ==
  (scheme = "http" /\ port = 443) \/ (scheme = "https" /\ port = 80)

default_port(scheme, port) ==
  (scheme = "http" /\ port = 80) \/ (scheme = "https" /\ port = 443)

\* normalize_origin; None for OriginError
normalize_origin(o) ==
  IF /\ o.bare
     /\ o.scheme \in {"http", "https"}
     /\ normalize_hostname(o.host) # None
     /\ o.port = None \/ o.port \in 1 .. MaxPort
  THEN [o EXCEPT !.host = normalize_hostname(o.host),
                 !.port = IF default_port(o.scheme, o.port) THEN None ELSE o.port,
                 !.plain = TRUE]
  ELSE None

\* normalize_origins raises unless this holds.
AllNormal(values) == \A o \in values : normalize_origin(o) # None

normalize_origins(values) == {normalize_origin(o) : o \in values}

\* Wrong variant: the list is taken as the validation left it.
StoredAsGiven(origins) == {origins}

(* origins_to_storage: the value for the column, if it does not raise.  The empty
   list stands for NULL. *)
origins_to_storage(origins) ==
  IF AllNormal(origins) THEN {normalize_origins(origins)} ELSE {}

(* origins_from_storage: a list that cannot be read back counts as the empty list,
   which admits everybody. *)
origins_from_storage(value) == IF AllNormal(value) THEN normalize_origins(value) ELSE {}

\* origin_header is None when the header is missing.
origin_is_allowed(origin_header, allowed_origins) ==
  \/ allowed_origins = {}
  \/ /\ origin_header # None
     /\ normalize_origin(origin_header) \in allowed_origins

\* apply_cors: the origin that Access-Control-Allow-Origin names, None without it.
apply_cors(origin, allowed_origins) ==
  IF /\ origin # None
     /\ normalize_origin(origin) # None
     /\ allowed_origins = {} \/ normalize_origin(origin) \in allowed_origins
  THEN normalize_origin(origin) ELSE None
=============================================================================
