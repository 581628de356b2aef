------------------------------- MODULE Session -------------------------------
(***************************************************************************)
(* The life of the server (cmd/queryguard/main.go) and the conversations   *)
(* that clients have through it: a POST of a statement, then one GET per   *)
(* nextUri, each sent through the reverse proxy that is live at that       *)
(* moment (internal/proxy/handler.go, reverse.go).  Trino's pages name the *)
(* coordinator; rewriteTrinoURIs turns the URLs of their first bytes into  *)
(* ones of the proxy.  Upstream swaps (HotReload.tla) and the shutdown     *)
(* fall between any two steps of a conversation.                           *)
(*                                                                         *)
(* A page is a record: len bytes, nextUri (if there are more pages) in the *)
(* bytes up to end, and whether its media type is application/json.        *)
(***************************************************************************)
EXTENDS Integers

CONSTANTS Clients,      \* the conversations of the instance
          Upstreams,    \* coordinators, by URL
          SchemeOf,     \* the scheme of each URL
          ClientHosts,  \* Host headers; "" for a request without one
          ClientHeaders,\* sets of other headers
          Pages,        \* pages that coordinators send
          Window,       \* rewritePrefixBytes
          Growth,       \* what a rewritten URL is longer (or shorter) by
          MaxPages      \* bound on the pages of a conversation

ASSUME SessionAssumption ==
    /\ SchemeOf \in [Upstreams -> {"http", "https"}]
    /\ Upstreams # {} /\ "" \notin Upstreams
    /\ Window \in Nat \ {0} /\ MaxPages \in Nat /\ Growth \in Int
    /\ \A p \in Pages : p.len \in Nat /\ p.end \in 0 .. p.len

VARIABLES server,    \* "starting", "serving", "draining" or "exited"
          opened,    \* the listener has been opened
          tls,       \* the policy that main loaded has a certificate
          signalled, \* SIGINT or SIGTERM has come
          expired,   \* shutdownCtx is done
          code,      \* the exit code
          proxy,     \* Handler.proxy: the upstream it targets
          conv,      \* the conversations
          faults     \* history: what has befallen each conversation

vars == <<server, opened, tls, signalled, expired, code, proxy, conv, faults>>

serverVars == <<server, opened, tls, signalled, expired, code>>

(* authority and scheme are those of the nextUri the client holds; home is *)
(* the coordinator that runs the query.                                    *)
Idle == [pc |-> "idle", host |-> "", headers |-> {}, home |-> "", target |-> "",
         scheme |-> "", authority |-> "", declared |-> 0, body |-> 0,
         pages |-> 0, outcome |-> "none"]

Unknown == -1   \* no Content-Length: chunked

Init ==
    /\ server = "starting" /\ opened = FALSE /\ tls \in BOOLEAN
    /\ signalled = FALSE /\ expired = FALSE /\ code = 0
    /\ proxy \in Upstreams
    /\ conv = [c \in Clients |-> Idle]
    /\ faults = [c \in Clients |-> {}]

At(c, pc) == conv[c].pc = pc

(* A request of the conversation is in the hands of the server. *)
InFlight(c) == conv[c].pc \in {"guard", "upstream"}

listenerScheme == IF tls THEN "https" ELSE "http"

Ended(q, outcome) == [q EXCEPT !.pc = "done", !.outcome = outcome]

Become(c, q) == conv' = [conv EXCEPT ![c] = q] /\ UNCHANGED <<serverVars, proxy>>

Blame(c, fault) == faults' = [faults EXCEPT ![c] = @ \union {fault}]

-----------------------------------------------------------------------------
(* main.                                                                   *)

Listen ==
    /\ server = "starting"
    /\ server' = "serving" /\ opened' = TRUE
    /\ UNCHANGED <<tls, signalled, expired, code, proxy, conv, faults>>

(* The process ends with this code; requests in flight are cut off. *)
Die(status) ==
    /\ server' = "exited" /\ code' = status
    /\ conv' = [c \in Clients |-> IF InFlight(c) THEN Ended(conv[c], "dropped")
                                  ELSE conv[c]]
    /\ UNCHANGED <<opened, tls, signalled, expired, proxy>>

(* ListenAndServe or ListenAndServeTLS returns an error: the port is taken,*)
(* the key pair cannot be read, or Accept fails for good.  The goroutine   *)
(* may get there while main is shutting down a server that has not opened. *)
ListenerFails ==
    /\ server \in {"starting", "serving"} \/ (server = "draining" /\ ~opened)
    /\ Die(1)
    /\ faults' = [c \in Clients |-> faults[c] \union {"listener"}]

Signal ==
    /\ ~signalled /\ server # "exited"
    /\ signalled' = TRUE
    /\ UNCHANGED <<server, opened, tls, expired, code, proxy, conv, faults>>

(* srv.Shutdown closes the listener and the idle connections; a listener   *)
(* that has not been opened never will be (ErrServerClosed).               *)
Shutdown ==
    /\ signalled /\ server \in {"starting", "serving"}
    /\ server' = "draining"
    /\ UNCHANGED <<opened, tls, signalled, expired, code, proxy, conv, faults>>

(* Mutant: Shutdown is given a context without a deadline. *)
GraceExpires_Never == server = "none" /\ UNCHANGED vars

GraceExpires ==
    /\ server = "draining" /\ ~expired
    /\ expired' = TRUE
    /\ UNCHANGED <<server, opened, tls, signalled, code, proxy, conv, faults>>

(* Mutant: main does not wait for Shutdown. *)
drained_Now == TRUE

drained == \A c \in Clients : ~InFlight(c)

(* Shutdown returns, and with it main. *)
Exit ==
    /\ server = "draining"
    /\ drained \/ expired
    /\ Die(0)
    /\ UNCHANGED faults

(* Mutant: the proxy of a URL that was refused is stored all the same. *)
SwapProxy_Nil(u) ==
    /\ server # "exited" /\ u # proxy
    /\ proxy' = ""
    /\ UNCHANGED <<serverVars, conv, faults>>

(* HotReload's UpdateUpstream: a reload may be under way until the end. *)
SwapProxy(u) ==
    /\ server # "exited" /\ u # proxy
    /\ proxy' = u
    /\ faults' = [c \in Clients |->
                    IF conv[c].home \notin {"", u} THEN faults[c] \union {"swap"}
                    ELSE faults[c]]
    /\ UNCHANGED <<serverVars, conv>>

-----------------------------------------------------------------------------
(* A client.                                                               *)

(* The POST reaches the handler, which evaluates the statement. *)
Submit(c, host, headers) ==
    /\ At(c, "idle") /\ server = "serving"
    /\ Become(c, [Idle EXCEPT !.pc = "guard", !.host = host, !.headers = headers])
    /\ UNCHANGED faults

(* Mutant: the client's Accept-Encoding is forwarded. *)
director_Encoding(headers) == headers \ {"x-forwarded-for"}

(* The headers that go upstream; the host is the target's. *)
director(headers) == headers \ {"x-forwarded-for", "accept-encoding"}

(* handleStatement: a verdict of Pipeline.tla, then forward. *)
Reject(c) ==
    /\ At(c, "guard")
    /\ Become(c, Ended(conv[c], "rejected"))
    /\ UNCHANGED faults

Forward(c) ==
    /\ At(c, "guard")
    /\ Become(c, [conv[c] EXCEPT !.pc = "upstream", !.target = proxy, !.home = proxy])
    /\ UNCHANGED faults

(* The client follows nextUri, if it leads to the listener, and ServeHTTP  *)
(* passes the poll to the proxy of now.                                    *)
reachable(q) == q.authority = "proxy" /\ q.scheme = listenerScheme

Poll(c) ==
    /\ At(c, "page") /\ reachable(conv[c]) /\ server = "serving"
    /\ Become(c, [conv[c] EXCEPT !.pc = "upstream", !.target = proxy])
    /\ UNCHANGED faults

PollFails(c) ==
    /\ At(c, "page")
    /\ \/ /\ conv[c].authority # "proxy" /\ Become(c, Ended(conv[c], "unreachable"))
       \/ /\ conv[c].authority = "proxy" /\ conv[c].scheme # listenerScheme
          /\ Become(c, Ended(conv[c], "scheme"))
       \/ /\ reachable(conv[c]) /\ server \in {"draining", "exited"}
          /\ Become(c, Ended(conv[c], "refused"))
    /\ UNCHANGED faults

-----------------------------------------------------------------------------
(* The answer of the coordinator and rewriteTrinoURIs.                     *)

(* The transport unpacks what it asked to be packed, nothing else. *)
packed(q) == "accept-encoding" \in director(q.headers)

(* The early returns: no client host, or not a JSON page. *)
inspected(q, page) == q.host # "" /\ page.json

(* Mutant: a field that ends with the window counts as straddling it. *)
inPrefix_Short(page) == page.end < Window

inPrefix(page) == page.end <= Window

rewritten(q, page) == inspected(q, page) /\ inPrefix(page) /\ ~packed(q)

(* len(head): what the LimitReader lets through *)
headLength(page) == IF page.len < Window THEN page.len ELSE Window

(* Mutant: a head that fills the window is taken for the whole page. *)
wholeInHead_Full(page) == headLength(page) <= Window

wholeInHead(page) == headLength(page) < Window

growth(q, page) == IF page.more /\ rewritten(q, page) THEN Growth ELSE 0

(* The body is the rewritten head and whatever follows it. *)
bodyLength(q, page) ==
    IF ~inspected(q, page) THEN page.len
    ELSE (headLength(page) + growth(q, page)) + (page.len - headLength(page))

contentLength(q, page) ==
    IF ~inspected(q, page) THEN page.len
    ELSE IF wholeInHead(page) THEN headLength(page) + growth(q, page)
    ELSE Unknown

(* Trino refuses a request with X-Forwarded-For. *)
accepted(q) == "x-forwarded-for" \notin director(q.headers)

(* What rewriteTrinoURIs takes for granted of Trino's pages (external):    *)
(* JSON, with all URLs in the bytes that it inspects.                      *)
metadataInPrefix(page) == page.json /\ page.end <= Window

Answer(c, page) ==
    LET q == conv[c]
        named == [q EXCEPT !.pages = @ + 1,
                           !.declared = contentLength(q, page),
                           !.body = bodyLength(q, page)]
    IN  /\ At(c, "upstream") /\ q.target = q.home /\ accepted(q)
        /\ page.more => q.pages < MaxPages
        /\ Become(c, IF page.more
                     THEN [named EXCEPT !.pc = "page", !.scheme = SchemeOf[q.target],
                                        !.authority = IF rewritten(q, page) THEN "proxy"
                                                      ELSE q.target]
                     ELSE Ended(named, "finished"))
        /\ IF metadataInPrefix(page) THEN UNCHANGED faults ELSE Blame(c, "metadata")

(* A coordinator that is asked for a query it does not run, or that does   *)
(* not take the request.                                                   *)
Refuse(c) ==
    /\ At(c, "upstream")
    /\ conv[c].target # conv[c].home \/ ~accepted(conv[c])
    /\ Become(c, Ended(conv[c], "unknown"))
    /\ UNCHANGED faults

(* The upstream fails (502), or WriteTimeout ends the connection. *)
Breaks(c) ==
    /\ At(c, "upstream")
    /\ Become(c, Ended(conv[c], "gateway"))
    /\ Blame(c, "upstream")

Next ==
    \/ Listen \/ ListenerFails \/ Signal \/ Shutdown \/ GraceExpires \/ Exit
    \/ \E u \in Upstreams : SwapProxy(u)
    \/ \E c \in Clients :
         \/ \E host \in ClientHosts, headers \in ClientHeaders : Submit(c, host, headers)
         \/ Reject(c) \/ Forward(c) \/ Poll(c) \/ PollFails(c)
         \/ \E page \in Pages : Answer(c, page)
         \/ Refuse(c) \/ Breaks(c)

(* main runs, and shutdownCtx has a deadline.  Nothing is expected of the  *)
(* clients and the coordinators.                                           *)
Fairness == WF_vars(Listen \/ ListenerFails) /\ WF_vars(Shutdown)
            /\ WF_vars(GraceExpires) /\ WF_vars(Exit)

Spec == Init /\ [][Next]_vars

FairSpec == Spec /\ Fairness

-----------------------------------------------------------------------------
Faults == {"swap", "listener", "metadata", "upstream"}

Outcomes == {"none", "rejected", "finished", "dropped", "refused", "unreachable",
             "scheme", "unknown", "gateway"}

ConvType ==
    [pc : {"idle", "guard", "upstream", "page", "done"}, host : ClientHosts \union {""},
     headers : ClientHeaders \union {{}}, home : Upstreams \union {""},
     target : Upstreams \union {""}, scheme : {"", "http", "https"},
     authority : Upstreams \union {"", "proxy"}, declared : Int, body : Int,
     pages : Nat, outcome : Outcomes]

(* Every variable holds a value of its type. *)
TypeOK ==
    /\ server \in {"starting", "serving", "draining", "exited"}
    /\ opened \in BOOLEAN /\ tls \in BOOLEAN
    /\ signalled \in BOOLEAN /\ expired \in BOOLEAN
    /\ code \in {0, 1} /\ proxy \in Upstreams
    /\ conv \in [Clients -> ConvType]
    /\ \A c \in Clients : At(c, "upstream") => conv[c].target \in Upstreams
    /\ faults \in [Clients -> SUBSET Faults]

(* Causes outside the proxy for the end of a conversation q whose faults   *)
(* are F: the process ends, the upstream fails, or a URL leads past the    *)
(* proxy because the client sent no Host or the page broke with what the   *)
(* rewriting takes for granted.                                            *)
HasCause(q, F) ==
    /\ q.outcome = "refused" => signalled \/ "listener" \in F
    /\ q.outcome = "dropped" => expired \/ "listener" \in F
    /\ q.outcome = "gateway" => "upstream" \in F
    /\ q.outcome = "unreachable" => q.host = "" \/ "metadata" \in F

(* The two limits of the proxy itself: a swap takes the polls of a running *)
(* query to a coordinator that does not know it, and a URL keeps the       *)
(* scheme of the upstream when the listener has the other one.             *)
WithinLimits(q, F) ==
    /\ q.outcome = "unknown" => "swap" \in F
    /\ q.outcome = "scheme" => SchemeOf[q.home] # listenerScheme

(* Every conversation that breaks off has a cause outside the proxy, or    *)
(* ran into one of its two limits: with one upstream throughout, and the   *)
(* upstream's scheme on the listener, no query is lost and no URL leads    *)
(* astray, whatever pages, headers, failures and shutdowns come in.        *)
LostForCause ==
    \A c \in Clients : HasCause(conv[c], faults[c]) /\ WithinLimits(conv[c], faults[c])

(* A shutdown that ends before the grace period has answered every request *)
(* it found in flight, and an orderly exit is one that was asked for.      *)
DrainsInFlight ==
    server = "exited" /\ code = 0 =>
        /\ signalled
        /\ expired \/ \A c \in Clients : conv[c].outcome # "dropped"

(* A response declares its length only if it is the length of its body,    *)
(* with the rewritten URLs in it and at the edge of the window too.        *)
FramingExact ==
    \A c \in Clients : conv[c].declared \in {Unknown, conv[c].body}

(* A signal ends the process, whatever clients and coordinators do. *)
Exits == signalled ~> server = "exited"

-----------------------------------------------------------------------------
(* The inductive invariant behind LostForCause and DrainsInFlight: while   *)
(* no swap has befallen a conversation the live proxy is that of its       *)
(* coordinator, a URL that does not lead to the listener has a cause       *)
(* already, a URL's scheme is that of the coordinator it came from, and    *)
(* nothing is dropped before the end.                                      *)
ConvInv(q, F) ==
    /\ q.pc # "done" => q.outcome = "none"
    /\ q.pc \in {"upstream", "page"} => q.home # ""
    /\ q.home # "" /\ "swap" \notin F => q.home = proxy /\ q.target = proxy
    /\ q.pc = "page" /\ q.authority # "proxy" => q.host = "" \/ "metadata" \in F
    /\ q.pc = "page" => q.scheme = SchemeOf[q.home]
    /\ HasCause(q, F) /\ WithinLimits(q, F)

SessionInv ==
    /\ server = "draining" => signalled
    /\ server = "exited" => signalled \/ \A c \in Clients : "listener" \in faults[c]
    /\ server # "exited" => code = 0 /\ \A c \in Clients : conv[c].outcome # "dropped"
    /\ \A c \in Clients : ConvInv(conv[c], faults[c])
    /\ DrainsInFlight
==============================================================================
