------------------------------ MODULE Preflight ------------------------------
(***************************************************************************)
(* One pre-flight evaluation in detail: runStatement of                    *)
(* internal/engine/trino.go, which POSTs the EXPLAIN and follows the       *)
(* chain of nextUri pages of Trino's statement protocol, and the parsing   *)
(* of the cells it has collected.  The coordinator and the network are the *)
(* environment.  The module implements Evaluation.tla.                     *)
(*                                                                         *)
(* A page has rows (each a document in its first column, or NoCell when    *)
(* there is no string there), a query state, an error field, and nextUri   *)
(* or not.  A reply is a page with its HTTP status; cut tells that the     *)
(* body broke off, whose error io.ReadAll returns and the code drops.      *)
(***************************************************************************)
EXTENDS PlanParse, FiniteSets

CONSTANTS Cells,         \* documents the coordinator may report
          NoCell,        \* a row whose first column is not a string
          Pages,         \* pages the coordinator may send
          ClientHeaders, \* sets of headers a client may send
          MaxCells       \* bound on the documents of a behaviour

isCell(row) == row # NoCell

(* row[0].(string), for the rows of a page that have one *)
documents(page) == SelectSeq(page.rows, isCell)

ASSUME PreflightAssumption ==
    /\ NoCell \notin Cells
    /\ Pages # {}
    /\ \A p \in Pages : documents(p) \in Seq(Cells) /\ p.more \in BOOLEAN
    /\ MaxCells \in Nat

VARIABLES pc,       \* "send", "wait", "read" or "done"
          client,   \* the headers of the client's request
          sent,     \* the headers of the last shadow request
          reply,    \* what the coordinator answered to it
          cells,    \* cells of runStatement
          ctxDone,  \* evalCtx is done
          result,   \* what Evaluate gets
          reported, \* history: documents in the pages sent so far
          ended,    \* history: a page without nextUri has been sent
          blamed    \* history: something went wrong outside the proxy

vars == <<pc, client, sent, reply, cells, ctxDone, result, reported, ended, blamed>>

NoReply == [status |-> 0]

Init ==
    /\ pc = "send"
    /\ client \in ClientHeaders
    /\ sent = {} /\ reply = NoReply
    /\ cells = <<>> /\ ctxDone = FALSE /\ result = Pending
    /\ reported = <<>> /\ ended = FALSE /\ blamed = FALSE

-----------------------------------------------------------------------------
(* The evaluating goroutine.                                               *)

isManagedHeader(h) ==
    h \in {"host", "content-length", "content-type", "transfer-encoding", "connection",
           "keep-alive", "proxy-connection", "te", "trailer", "upgrade",
           "proxy-authenticate", "proxy-authorization", "accept-encoding",
           "x-forwarded-for", "x-forwarded-host", "x-forwarded-proto"}

(* Mutant: every header of the client is mirrored. *)
copyHeaders_All(src) == src

copyHeaders(src) == {h \in src : ~isManagedHeader(h)}

(* The next request of the chain: POST first, then GET, with the client's  *)
(* headers every time.                                                     *)
Send ==
    /\ pc = "send" /\ ~ctxDone
    /\ pc' = "wait"
    /\ sent' = copyHeaders(client)
    /\ UNCHANGED <<client, reply, cells, ctxDone, result, reported, ended, blamed>>

(* Mutant: the requests are not bound to the context, which is only looked *)
(* at between them.                                                        *)
Abort_Between ==
    /\ pc = "send" /\ ctxDone
    /\ pc' = "done" /\ result' = Failed
    /\ UNCHANGED <<client, sent, reply, cells, ctxDone, reported, ended, blamed>>

(* client.Do returns the context's error. *)
Abort ==
    /\ pc \in {"send", "wait"} /\ ctxDone
    /\ pc' = "done" /\ result' = Failed
    /\ UNCHANGED <<client, sent, reply, cells, ctxDone, reported, ended, blamed>>

(* Mutant: a row without a string counts as an empty document. *)
collected_All(page) ==
    cells \o [i \in DOMAIN page.rows |-> IF isCell(page.rows[i]) THEN page.rows[i]
                                         ELSE [kind |-> "empty"]]

(* The cells of a page are collected before its error field is looked at. *)
collected(page) == cells \o documents(page)

(* Mutant: a FINISHED state ends the chain although a page is to come. *)
lastPage_Finished(page) == ~page.more \/ page.state = "FINISHED"

(* The chain ends with a page without nextUri. *)
lastPage(page) == ~page.more

(* Mutant: the HTTP status is not looked at. *)
badReply_Status(r) ==
    \/ r.cut
    \/ r.page.error
    \/ r.page.state \in {"FAILED", "CANCELED", "UNKNOWN"}

(* Why a reply ends runStatement with an error: its status, a body that    *)
(* does not decode (one that broke off never does), its error field or the *)
(* state of the query.                                                     *)
badReply(r) ==
    \/ r.status # 200
    \/ r.cut
    \/ r.page.error
    \/ r.page.state \in {"FAILED", "CANCELED", "UNKNOWN"}

Read ==
    LET all == collected(reply.page)
    IN  /\ pc = "read"
        /\ \/ /\ badReply(reply) \/ (lastPage(reply.page) /\ invalid(all))
              /\ pc' = "done" /\ result' = Failed /\ UNCHANGED cells
           \/ /\ ~badReply(reply) /\ lastPage(reply.page)
              /\ pc' = "done" /\ cells' = all
              /\ result' \in plansOf(all)
           \/ /\ ~badReply(reply) /\ ~lastPage(reply.page)
              /\ pc' = "send" /\ cells' = all /\ UNCHANGED result
        /\ reply' = NoReply
        /\ UNCHANGED <<client, sent, ctxDone, reported, ended, blamed>>

-----------------------------------------------------------------------------
(* The environment.                                                        *)

(* The deadline passes or the client goes away. *)
Expire ==
    /\ pc # "done" /\ ~ctxDone
    /\ ctxDone' = TRUE /\ blamed' = TRUE
    /\ UNCHANGED <<pc, client, sent, reply, cells, result, reported, ended>>

(* Trino answers requests that carry the client's credentials and no       *)
(* X-Forwarded-For, which it refuses with 406.                             *)
accepted == "authorization" \in sent /\ "x-forwarded-for" \notin sent

Reply(r) == /\ pc = "wait" /\ pc' = "read" /\ reply' = r
            /\ UNCHANGED <<client, sent, cells, ctxDone, result>>

(* The next page arrives whole. *)
Answer(page) ==
    LET docs == documents(page)
    IN  /\ accepted /\ ~ended
        /\ Len(reported) + Len(docs) <= MaxCells
        /\ Reply([status |-> 200, cut |-> FALSE, page |-> page])
        /\ reported' = reported \o docs
        /\ ended' = ~page.more
        /\ blamed' = (\/ blamed \/ page.error \/ invalid(docs)
                      \/ page.state \in {"FAILED", "CANCELED", "UNKNOWN"})

(* It breaks off on the way. *)
Cut(page) ==
    /\ accepted /\ ~ended
    /\ Reply([status |-> 200, cut |-> TRUE, page |-> page])
    /\ blamed' = TRUE
    /\ UNCHANGED <<reported, ended>>

(* The coordinator refuses the request; the client is to blame when its    *)
(* own request would be refused for want of credentials.                   *)
Refuse(page) ==
    /\ ~accepted
    /\ Reply([status |-> 401, cut |-> FALSE, page |-> page])
    /\ blamed' = (blamed \/ "authorization" \notin client)
    /\ UNCHANGED <<reported, ended>>

(* The coordinator or something before it fails; a lost connection is a    *)
(* reply of status 0.                                                      *)
Down(status, page) ==
    /\ Reply([status |-> status, cut |-> FALSE, page |-> page])
    /\ blamed' = TRUE
    /\ UNCHANGED <<reported, ended>>

SomePage == CHOOSE p \in Pages : TRUE   \* what a failed reply holds is not read

Next == \/ Send \/ Abort \/ Read \/ Expire
        \/ \E page \in Pages : Answer(page) \/ Cut(page)
        \/ Refuse(SomePage)
        \/ \E status \in {0, 503} : Down(status, SomePage)

(* The goroutine runs, and context.WithTimeout ends evalCtx.  Nothing is   *)
(* expected of the coordinator: it may send empty pages for ever, or fall  *)
(* silent.                                                                 *)
Fairness == WF_vars(Send \/ Abort \/ Read) /\ WF_vars(Expire)

Spec == Init /\ [][Next]_vars

FairSpec == Spec /\ Fairness

-----------------------------------------------------------------------------
(* Every variable holds a value of its type. *)
TypeOK ==
    /\ pc \in {"send", "wait", "read", "done"}
    /\ pc = "read" => /\ reply.status \in {0, 200, 401, 503} /\ reply.cut \in BOOLEAN
                      /\ reply.page \in Pages
    /\ cells \in Seq(Cells) /\ reported \in Seq(Cells)
    /\ ctxDone \in BOOLEAN /\ ended \in BOOLEAN /\ blamed \in BOOLEAN

(* The abstract evaluation: its reported, ended and result are ours. *)
Abstract == INSTANCE Evaluation WITH Outcomes <- plansOf, reported <- reported,
                                     ended <- ended, result <- result

(* An evaluation fails, or yields the plan of all the documents of a chain *)
(* that has ended: a page lost, cut short or marked FINISHED too early     *)
(* never leads to a verdict on part of the plan.                           *)
AllOrNothing == Abstract!EvalSpec

(* A failed evaluation lets its statement through unchecked, so it needs a *)
(* cause outside the proxy: nothing fails for the headers that are         *)
(* mirrored, for empty pages or for rows without a document.               *)
FailsForCause == result = Failed => blamed

(* Every evaluation ends, even if the coordinator hands out pages for ever *)
(* or never answers.                                                       *)
Ends == <>(pc = "done")

-----------------------------------------------------------------------------
(* The inductive invariant behind AllOrNothing and FailsForCause: the      *)
(* cells are the documents reported, but for a whole page that is being    *)
(* read; the chain has ended only if that page ends it; and a reply that   *)
(* will make the evaluation fail has been accounted for.                   *)
ChainInv ==
    /\ pc = "done" <=> result # Pending
    /\ ctxDone => blamed
    /\ result = Failed => blamed
    /\ invalid(reported) => blamed
    /\ pc \in {"send", "wait"} => cells = reported /\ ~ended
    /\ pc = "wait" => sent = copyHeaders(client)
    /\ pc = "read" =>
          /\ badReply(reply) => blamed
          /\ ~badReply(reply) => /\ reported = collected(reply.page)
                                 /\ ended = ~reply.page.more
==============================================================================
