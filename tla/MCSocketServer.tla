--------------------------- MODULE MCSocketServer ---------------------------
(* Small instances of SocketServer for TLC.                                *)
EXTENDS SocketServer, TLC

CONSTANTS s1, s2, s3, c1, c2, c3

Request(type, keepAlive, parses, route) ==
  [type |-> type, keepAlive |-> keepAlive, parses |-> parses, members |-> TRUE, route |-> route]

\* JSON that lacks a member json_handle looks for.
Headless == [Request("json", FALSE, TRUE, TRUE) EXCEPT !.members = FALSE]

AllRequests ==
  {Request("json", k, TRUE, r) : k, r \in BOOLEAN}
    \cup {Request("json", k, FALSE, TRUE) : k \in BOOLEAN}
    \cup {Request("stream", k, TRUE, TRUE) : k \in BOOLEAN}
    \cup {Request("undefined", FALSE, FALSE, FALSE), Request("garbled", FALSE, FALSE, FALSE),
          Headless}

\* Clients that send one request of any kind, good or bad, and may be gone
\* before its answer.
OneShot == [requests |-> {r \in AllRequests : ~ r.keepAlive}, sendMayFail |-> {FALSE}]

\* Long connections of clients that close after the last request.
LongRequests == {Request("json", k, TRUE, TRUE) : k \in BOOLEAN}
                  \cup {Request("stream", TRUE, TRUE, TRUE)}
Long         == [requests |-> LongRequests, sendMayFail |-> {FALSE}]

\* Long connections on which some requests ask for a route that does not exist,
\* and the last one may be wrong too.
WrongRequests == {Request("json", TRUE, TRUE, FALSE), Request("json", FALSE, TRUE, FALSE),
                  Request("undefined", FALSE, FALSE, FALSE)}
Erring        == [requests |-> LongRequests \cup WrongRequests, sendMayFail |-> {FALSE}]

\* Long connections on which some answers cannot be sent.
GoodRequests == {Request("json", TRUE, TRUE, TRUE)}
Broken       == [requests |-> GoodRequests, sendMayFail |-> BOOLEAN]

\* A long connection on which some JSON does not parse.
BadJson == [requests |-> {Request("json", TRUE, p, TRUE) : p \in BOOLEAN}, sendMayFail |-> {}]

ThreeTraffics == {OneShot, Long, Broken}
OnlyErring    == {Erring}
OnlyBroken    == {Broken}
OnlyBadJson   == {BadJson}

TwoSlots   == {s1, s2}
ThreeSlots == {s1, s2, s3}
TwoConns   == {c1, c2}
ThreeConns == {c1, c2, c3}

\* Addresses and connections are only compared for equality.
Symmetry == Permutations(Slots) \cup Permutations(Conns)
=============================================================================
