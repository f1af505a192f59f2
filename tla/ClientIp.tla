------------------------------ MODULE ClientIp ------------------------------
(* Whom a request comes from (app/core/client_ip.py).  Addresses are model
   values, Junk stands for text that is no address. *)
EXTENDS Integers, Sequences

CONSTANTS
  Address,
  Trusted,    \* the addresses of trusted_proxy_networks
  Junk,       \* what _parse_ip cannot read
  Nobody      \* no address; no header

ASSUME AddressAssumption ==
  Trusted \subseteq Address /\ Junk \notin Address /\ Nobody \notin Address /\ Junk # Nobody

\* Wrong variant: the first address of the header is the client.
FirstOf(path) == 1

\* The last hop that is not trusted; the first one when all are.
LastUntrusted(path) ==
  IF \A i \in DOMAIN path : path[i] \in Trusted THEN 1
  ELSE CHOOSE i \in DOMAIN path :
         path[i] \notin Trusted /\ \A k \in i + 1 .. Len(path) : path[k] \in Trusted

(* get_client_ip.  peer is the socket's address, forwarded the parsed parts of
   X-Forwarded-For, empty without the header, real_ip those of X-Real-IP. *)
get_client_ip(peer, forwarded, real_ip) ==
  LET path == Append(forwarded, peer) IN
  IF peer \notin Trusted THEN peer       \* nobody included
  ELSE IF forwarded = <<>> THEN IF real_ip \in Address THEN real_ip ELSE peer
  ELSE IF \E i \in DOMAIN forwarded : forwarded[i] = Junk THEN peer
  ELSE path[LastUntrusted(path)]
=============================================================================
