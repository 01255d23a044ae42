-------------------------- MODULE EndpointIdentity ---------------------------
(***************************************************************************)
(* Peer endpoint identities (src/src/peer/endpointIdentity.ts): how what a  *)
(* developer writes, or discovery lists, becomes the identity by which      *)
(* peers are compared.                                                      *)
(*                                                                          *)
(* An endpoint is taken apart into scheme, host, case of the host, port and *)
(* whatever follows the port; an identity is an endpoint that has a scheme  *)
(* and a lower-case host.                                                   *)
(***************************************************************************)
EXTENDS SequencesExt

CONSTANTS
  Hosts,
  NoHost

Schemes == {"", "grpc", "grpcs", "http"}

(* A decimal port, the same with a leading zero, and what is no port: a     *)
(* number above 65535, letters, nothing.                                    *)
Ports == {"7051", "07051", "99999", "letters", ""}
Numeric == {"7051", "07051", "99999"}
URLPorts == {"7051", "07051"}

Endpoints ==
  [scheme: Schemes, host: Hosts \cup {NoHost}, upper: BOOLEAN, port: Ports, path: BOOLEAN]

Identity(scheme, e, port) ==
  [scheme |-> scheme, host |-> e.host, upper |-> FALSE, port |-> port, path |-> FALSE]

Ok(id) == [kind |-> "ok", id |-> id]
ConfigurationError == [kind |-> "ConfigurationError"]
Thrown == [kind |-> "thrown"]

(* With a scheme the URL parser reads the rest: it throws on a port that is *)
(* none and on a missing host before a port, and writes ports in decimal.   *)
Unparsable(e) == e.port \notin URLPorts \cup {""} \/ (e.host = NoHost /\ e.port # "")

NormalizeURL(e) ==
  IF Unparsable(e) THEN Thrown
  ELSE IF e.host = NoHost \/ e.port = "" \/ e.path THEN ConfigurationError
  ELSE Ok(Identity(e.scheme, e, "7051"))

NormalizeHostPort(e, tls) ==
  IF e.host # NoHost /\ e.port \in Numeric /\ ~e.path
    THEN Ok(Identity(IF tls THEN "grpcs" ELSE "grpc", e, e.port))
    ELSE ConfigurationError

Normalize(e, tls) ==
  CASE e.scheme \in {"grpc", "grpcs"} -> NormalizeURL(e)
    [] e.scheme = "http" -> ConfigurationError
    [] OTHER -> NormalizeHostPort(e, tls)

\* mutant: the spellings are compared, not the identities
DedupeSpellings(inputs, tls) ==
  LET Add(sofar, i) ==
        LET n == Normalize(inputs[i], tls)
        IN CASE sofar.kind # "ok" -> sofar
             [] sofar.kind = "ok" /\ n.kind # "ok" -> n
             [] OTHER -> Ok(IF inputs[i] \in ToSet(SubSeq(inputs, 1, i - 1)) THEN sofar.id
                                                                          ELSE Append(sofar.id, n.id))
  IN FoldLeft(Add, Ok(<<>>), [i \in DOMAIN inputs |-> i])

(* dedupePeerEndpointInputsResult: the loop over the inputs, which the      *)
(* first input that cannot be read ends.  DedupedTo[n] is what it has after *)
(* n inputs.                                                                *)
AddIdentity(sofar, n) ==
  CASE sofar.kind # "ok" -> sofar
    [] sofar.kind = "ok" /\ n.kind # "ok" -> n
    [] OTHER -> Ok(IF n.id \in ToSet(sofar.id) THEN sofar.id ELSE Append(sofar.id, n.id))

DedupedTo(inputs, tls) ==
  LET upTo[n \in 0..Len(inputs)] ==
        IF n = 0 THEN Ok(<<>>) ELSE AddIdentity(upTo[n - 1], Normalize(inputs[n], tls))
  IN upTo

Dedupe(inputs, tls) == DedupedTo(inputs, tls)[Len(inputs)]

(* The reference: the list has the identity of every input and no other, in *)
(* the order in which they were first named, and so each once.              *)
InOrderOfNaming(names, inputs, tls) ==
  LET Id(k) == Normalize(inputs[k], tls).id
  IN /\ ToSet(names) = {Id(k) : k \in DOMAIN inputs}
     /\ \A i, j \in DOMAIN names :
          i < j => \E k \in DOMAIN inputs : Id(k) = names[i] /\ \A l \in 1..k : Id(l) # names[j]

=============================================================================
