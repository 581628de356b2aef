------------------------------ MODULE MCSession ------------------------------
(***************************************************************************)
(* An instance of Session.tla for TLC, and a documented claim that the     *)
(* code does not meet.                                                     *)
(***************************************************************************)
EXTENDS Session

CONSTANTS c1, c2

MCSchemeOf == [u \in Upstreams |-> IF u = "https://b" THEN "https" ELSE "http"]

MCHeaders == {{"authorization", "accept-encoding", "x-forwarded-for"}}

Page(end, len) == [end |-> end, len |-> len, json |-> TRUE, more |-> TRUE]

(* Around the window of 4: inside it, ending with it, across its edge and  *)
(* beyond it, in pages shorter, as long and longer; one that is not JSON,  *)
(* and last pages.                                                         *)
MCPages ==
    {Page(2, 3), Page(2, 4), Page(4, 4), Page(4, 5), Page(5, 6)}
    \union {[Page(2, 3) EXCEPT !.json = FALSE]}
    \union {[Page(0, n) EXCEPT !.more = FALSE] : n \in {3, 5}}

(* internal/proxy/reverse.go, on rewriteTrinoURIs: "a client following     *)
(* them reaches the proxy (the address it connected to)": the URLs it      *)
(* rewrites lead to the listener.                                          *)
FollowedURLsReachTheProxy ==
    \A c \in Clients : At(c, "page") /\ conv[c].authority = "proxy" => reachable(conv[c])
==============================================================================
