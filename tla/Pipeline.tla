------------------------------ MODULE Pipeline ------------------------------
(***************************************************************************)
(* The request path of query-guard: Handler.ServeHTTP with its two tiers   *)
(* (internal/proxy/handler.go), the pre-flight evaluator and its           *)
(* concurrency gate (internal/engine/trino.go) and the counters they feed  *)
(* (internal/telemetry/metrics.go).                                        *)
(*                                                                         *)
(* Every request is a goroutine.  Its steps are cut where it touches state *)
(* shared with another goroutine: each read of the live policy (tier1,     *)
(* shouldPreflight, Evaluate, evaluateLimits and auditRejection each call  *)
(* Config.Get again), the load of the reverse proxy, the gate, and every   *)
(* wait for the upstream.  Hot reloads (HotReload.tla) interleave with all *)
(* of them.                                                                *)
(***************************************************************************)
EXTENDS HotReload, Analysis, Rules, CostLimits, FiniteSets

CONSTANTS Requests,       \* the requests of the instance, each served once
          Statements,     \* bodies that clients POST to /v1/statement
          NoStatement,    \* the "body" of a request for any other path
          Plans,          \* results of parsePlanCells
          NoPlan,         \* no plan has been parsed
          MaxConcurrent,  \* capacity of the gate, fixed by NewTrinoEvaluator
          MaxBody         \* maxStatementBodyBytes

(* A statement is its analysis (the fields of Analysis.tla) and its body:  *)
(* len bytes, of which the connection delivers the first `broken` (all of  *)
(* them, unless the client or a timeout cuts it short), blank when they    *)
(* are only white space.                                                   *)
ASSUME PipelineAssumption ==
    /\ IsFiniteSet(Requests)
    /\ MaxConcurrent \in Nat \ {0}
    /\ MaxBody \in Nat
    /\ \A s \in Statements : s.len \in Nat /\ s.broken \in 0 .. s.len
    /\ \A s \in Statements : \A t \in s.scanned : t \in Seq(Ident) /\ t # <<>>
    /\ \A pl \in Plans : pl.scanBytes \in Int
    /\ NoStatement \notin Statements
    /\ NoPlan \notin Plans

VARIABLES req,      \* the state of every request, a record
          sem,      \* number of tokens in TrinoEvaluator.sem
          metrics,  \* telemetry.Metrics
          seen,     \* history: policies that were live during each request
          routes    \* history: proxies that were live during each request

vars == <<cfg, proxy, installed, req, sem, metrics, seen, routes>>

Stages == {"idle", "read", "tier1", "preflight", "evaluate", "acquire",
           "explain", "limits", "reject", "forward", "upstream", "probe", "done"}

Reasons == Tier1Reasons \union {"ALLOW", "COST_LIMIT_BREACH"}

QueryStatus == {"allowed", "blocked", "bypassed"}

Counters == QueryStatus \union {"preflights", "preflightRejected",
                                "noTableEstimates", "blockedBytes"}

Upstreams == {p.upstream : p \in Policies}

StatusCodes == {0, 200, 400, 502, 503}   \* 0: not answered yet

NoBytes == -1   \* no statement has gone upstream as a complete one

(* A request that has not arrived.  status is the outcome recorded in      *)
(* queries_total, err how the pre-flight failed open, ctxDone whether the  *)
(* evaluation's context is done, bytes the length of the statement body    *)
(* that went upstream as a complete one, audit the audit line of a 400.    *)
Idle == [pc |-> "idle", stmt |-> NoStatement, reason |-> "ALLOW",
         status |-> "none", err |-> "none", ctxDone |-> FALSE,
         plan |-> NoPlan, shadow |-> "", target |-> "", bytes |-> NoBytes,
         audit |-> "none", code |-> 0]

Init ==
    /\ HotInit
    /\ req = [r \in Requests |-> Idle]
    /\ sem = 0
    /\ metrics = [c \in Counters |-> 0]
    /\ seen = [r \in Requests |-> {}]
    /\ routes = [r \in Requests |-> {}]

At(r, stage) == req[r].pc = stage

Live(r) == req[r].pc \notin {"idle", "done"}

Become(r, q) == req' = [req EXCEPT ![r] = q]

Add(m, counter, n) == [m EXCEPT ![counter] = @ + n]

(* The steps of a request that leave the reload side and histories alone. *)
Quiet == UNCHANGED <<cfg, proxy, installed, seen, routes>>

-----------------------------------------------------------------------------
(* Hot reload, with the histories of the live requests.                    *)

SetPolicy(p) ==
    /\ Set(p)
    /\ seen' = [r \in Requests |-> IF Live(r) THEN seen[r] \union {p} ELSE seen[r]]
    /\ UNCHANGED <<req, sem, metrics, routes>>

SwapProxy(p) ==
    /\ UpdateUpstream(p)
    /\ routes' = [r \in Requests |->
                    IF Live(r) THEN routes[r] \union {p.upstream} ELSE routes[r]]
    /\ UNCHANGED <<req, sem, metrics, seen>>

-----------------------------------------------------------------------------
(* ServeHTTP: the routes.                                                  *)

Arrive(r, q) ==
    /\ At(r, "idle")
    /\ Become(r, q)
    /\ seen' = [seen EXCEPT ![r] = {cfg}]
    /\ routes' = [routes EXCEPT ![r] = {proxy}]
    /\ UNCHANGED <<cfg, proxy, installed, sem, metrics>>

ArriveStatement(r, s) == Arrive(r, [Idle EXCEPT !.pc = "read", !.stmt = s])

ArriveOther(r) == Arrive(r, [Idle EXCEPT !.pc = "forward"])

(* GET on the metrics path: served here, or proxied when the live policy   *)
(* has telemetry switched off.                                             *)
ArriveMetrics(r) ==
    Arrive(r, IF cfg.telemetryEnabled
              THEN [Idle EXCEPT !.pc = "done", !.code = 200]
              ELSE [Idle EXCEPT !.pc = "forward"])

ArriveHealthz(r) == Arrive(r, [Idle EXCEPT !.pc = "done", !.code = 200])

(* handleReadyz probes the upstream of the policy, not that of the proxy. *)
ArriveReadyz(r) == Arrive(r, [Idle EXCEPT !.pc = "probe", !.shadow = cfg.upstream])

ProbeReturns(r, code) ==
    /\ At(r, "probe")
    /\ code \in (IF req[r].shadow \in Dialable THEN {200, 503} ELSE {503})
    /\ Become(r, [req[r] EXCEPT !.pc = "done", !.code = code])
    /\ Quiet /\ UNCHANGED <<sem, metrics>>

-----------------------------------------------------------------------------
(* handleStatement up to the first policy read.                            *)

(* io.ReadAll fails: the connection breaks within the first MaxBody+1      *)
(* bytes, the window that the LimitReader lets through.                    *)
readFails(s) == s.broken < s.len /\ s.broken <= MaxBody

oversized(s) == ~readFails(s) /\ s.len > MaxBody

(* h.record and h.forward, the tail of every path that is not rejected. *)
Pass(r, q, status, m) ==
    /\ Become(r, [q EXCEPT !.pc = "forward", !.status = status])
    /\ metrics' = Add(m, status, 1)

(* Mutant: the error of io.ReadAll is dropped. *)
ReadBody_ErrIgnored(r) ==
    LET s == req[r].stmt
    IN  /\ At(r, "read")
        /\ IF oversized(s) \/ s.blank \/ IsBypass(s.class)
           THEN Pass(r, req[r], "bypassed", metrics)
           ELSE /\ Become(r, [req[r] EXCEPT !.pc = "tier1"])
                /\ UNCHANGED metrics
        /\ Quiet /\ UNCHANGED sem

(* The body is buffered; what cannot be inspected, is blank or is a bypass *)
(* statement goes straight upstream.                                       *)
ReadBody(r) ==
    LET s == req[r].stmt
    IN  /\ At(r, "read")
        /\ IF readFails(s) \/ oversized(s) \/ s.blank \/ IsBypass(s.class)
           THEN Pass(r, req[r], "bypassed", metrics)
           ELSE /\ Become(r, [req[r] EXCEPT !.pc = "tier1"])
                /\ UNCHANGED metrics
        /\ Quiet /\ UNCHANGED sem

Tier1Check(r) ==
    LET verdict == tier1(cfg, Analyze(req[r].stmt))
    IN  /\ At(r, "tier1")
        /\ Become(r, [req[r] EXCEPT
                         !.reason = verdict,
                         !.pc = IF verdict = "ALLOW" THEN "preflight" ELSE "reject"])
        /\ Quiet /\ UNCHANGED <<sem, metrics>>

-----------------------------------------------------------------------------
(* Tier 2.                                                                 *)

(* Mutant: the class is compared with its lower-case name. *)
ShouldPreflight_Class(r) ==
    /\ At(r, "preflight")
    /\ req[r].stmt.class # "select"
    /\ Pass(r, req[r], "allowed", metrics)
    /\ Quiet /\ UNCHANGED sem

ShouldPreflight(r) ==
    /\ At(r, "preflight")
    /\ IF req[r].stmt.class = "SELECT" /\ cfg.costLimits # {}
       THEN /\ Become(r, [req[r] EXCEPT !.pc = "evaluate"])
            /\ UNCHANGED metrics
       ELSE Pass(r, req[r], "allowed", metrics)
    /\ Quiet /\ UNCHANGED sem

(* Evaluate reads the upstream and the timeout and starts the deadline. *)
StartEvaluation(r) ==
    /\ At(r, "evaluate")
    /\ Become(r, [req[r] EXCEPT !.pc = "acquire", !.shadow = cfg.upstream])
    /\ Quiet /\ UNCHANGED <<sem, metrics>>

(* Mutant: the shadow requests are not bound to evalCtx. *)
Expire_GateOnly(r) ==
    /\ At(r, "acquire")
    /\ ~req[r].ctxDone
    /\ Become(r, [req[r] EXCEPT !.ctxDone = TRUE])
    /\ Quiet /\ UNCHANGED <<sem, metrics>>

(* The deadline passes, or the client goes away: either ends evalCtx. *)
Expire(r) ==
    /\ At(r, "acquire") \/ At(r, "explain")
    /\ ~req[r].ctxDone
    /\ Become(r, [req[r] EXCEPT !.ctxDone = TRUE])
    /\ Quiet /\ UNCHANGED <<sem, metrics>>

(* Both cases of the select may be ready, and then Go picks either. *)
Acquire(r) ==
    /\ At(r, "acquire")
    /\ sem < MaxConcurrent
    /\ sem' = sem + 1
    /\ Become(r, [req[r] EXCEPT !.pc = "explain"])
    /\ Quiet /\ UNCHANGED metrics

(* ErrPreflightConcurrency; tier2 counts it and handleStatement forwards. *)
GateTimeout(r) ==
    /\ At(r, "acquire")
    /\ req[r].ctxDone
    /\ Pass(r, [req[r] EXCEPT !.err = "gate"], "allowed",
            Add(Add(metrics, "preflights", 1), "preflightRejected", 1))
    /\ Quiet /\ UNCHANGED sem

(* Mutant: an error return that is not covered by the deferred receive. *)
ExplainFails_Leak(r) ==
    /\ At(r, "explain")
    /\ Pass(r, [req[r] EXCEPT !.err = "eval"], "allowed",
            Add(metrics, "preflights", 1))
    /\ Quiet /\ UNCHANGED sem

(* Mutant: the zero CostResult of a failed evaluation is taken for a       *)
(* refusal, so the guard fails closed.                                     *)
ExplainFails_Closed(r) ==
    /\ At(r, "explain")
    /\ sem' = sem - 1
    /\ Become(r, [req[r] EXCEPT !.pc = "reject", !.reason = "COST_LIMIT_BREACH"])
    /\ metrics' = Add(metrics, "preflights", 1)
    /\ Quiet

(* runStatement or parsePlanCells returns an error (context done, upstream *)
(* down or answering with an error, plan unreadable); the deferred receive *)
(* gives the slot back.                                                    *)
ExplainFails(r) ==
    /\ At(r, "explain")
    /\ sem' = sem - 1
    /\ Pass(r, [req[r] EXCEPT !.err = "eval"], "allowed",
            Add(metrics, "preflights", 1))
    /\ Quiet

(* The last page may still win over a context that is just done. *)
ExplainDone(r, pl) ==
    /\ At(r, "explain")
    /\ req[r].shadow \in Dialable
    /\ Become(r, [req[r] EXCEPT !.pc = "limits", !.plan = pl])
    /\ Quiet /\ UNCHANGED <<sem, metrics>>

(* RecordPreflightNoTableEstimates and ObservePreflight. *)
evaluated(plan) ==
    Add(Add(metrics, "preflights", 1), "noTableEstimates",
        IF noTableEstimates(cfg, plan) THEN 1 ELSE 0)

(* Mutant: a sum of estimates that wrapped round is counted as it is. *)
blockedBytes_Signed(plan) == plan.scanBytes

(* RecordBlockedBytes adds positive estimates only: the counter of a       *)
(* Prometheus counter never goes down, even when the int64 sum of the      *)
(* estimates wrapped round.                                                *)
blockedBytes(plan) == IF plan.scanBytes > 0 THEN plan.scanBytes ELSE 0

(* Mutant: blocked bytes are counted for every evaluation. *)
CheckLimits_AllBytes(r) ==
    LET plan == req[r].plan
        counted == Add(evaluated(plan), "blockedBytes", blockedBytes(plan))
    IN  /\ At(r, "limits")
        /\ sem' = sem - 1
        /\ IF evaluateLimits(cfg, plan)
           THEN Pass(r, req[r], "allowed", counted)
           ELSE /\ Become(r, [req[r] EXCEPT !.pc = "reject",
                                            !.reason = "COST_LIMIT_BREACH"])
                /\ metrics' = counted
        /\ Quiet

(* Mutant: the result of a breach is forwarded all the same. *)
CheckLimits_Ignored(r) ==
    /\ At(r, "limits")
    /\ sem' = sem - 1
    /\ Pass(r, req[r], "allowed", evaluated(req[r].plan))
    /\ Quiet

(* evaluateLimits against the policy of now, release of the slot, and      *)
(* tier2's accounting of the blocked bytes.                                *)
CheckLimits(r) ==
    LET plan == req[r].plan
    IN  /\ At(r, "limits")
        /\ sem' = sem - 1
        /\ IF evaluateLimits(cfg, plan)
           THEN Pass(r, req[r], "allowed", evaluated(plan))
           ELSE /\ Become(r, [req[r] EXCEPT !.pc = "reject",
                                            !.reason = "COST_LIMIT_BREACH"])
                /\ metrics' = Add(evaluated(plan), "blockedBytes", blockedBytes(plan))
        /\ Quiet

-----------------------------------------------------------------------------
(* The two ends.                                                           *)

(* Mutant: snapshot_plan is not consulted. *)
auditLine_Snapshots(reason) ==
    IF ~cfg.logRejections THEN "none"
    ELSE IF reason = "COST_LIMIT_BREACH" THEN "snapshot" ELSE "line"

(* auditRejection reads the policy again; the cost is passed, and so may   *)
(* be logged, for Tier 2 only.                                             *)
auditLine(reason) ==
    IF ~cfg.logRejections THEN "none"
    ELSE IF cfg.snapshotPlan /\ reason = "COST_LIMIT_BREACH" THEN "snapshot"
    ELSE "line"

(* Mutant: a Tier 2 rejection forgets record(StatusBlocked). *)
Reject_Uncounted(r) ==
    /\ At(r, "reject")
    /\ Become(r, [req[r] EXCEPT !.pc = "done", !.status = "blocked", !.code = 400,
                                !.audit = auditLine(req[r].reason)])
    /\ metrics' = IF req[r].reason = "COST_LIMIT_BREACH" THEN metrics
                  ELSE Add(metrics, "blocked", 1)
    /\ Quiet /\ UNCHANGED sem

Reject(r) ==
    /\ At(r, "reject")
    /\ Become(r, [req[r] EXCEPT !.pc = "done", !.status = "blocked", !.code = 400,
                                !.audit = auditLine(req[r].reason)])
    /\ metrics' = Add(metrics, "blocked", 1)
    /\ Quiet /\ UNCHANGED sem

(* A chunked stream that breaks never becomes a complete request. *)
streamBreaks(s) == oversized(s) /\ s.broken < s.len

(* forward sends the bytes that were read, with their number as the length;*)
(* forwardFull streams the whole body.                                     *)
forwardedBytes(s) ==
    IF s = NoStatement \/ streamBreaks(s) THEN NoBytes
    ELSE IF readFails(s) THEN s.broken
    ELSE s.len

(* Mutant: the target is taken from the policy instead of the proxy. *)
Forward_FromPolicy(r) ==
    /\ At(r, "forward")
    /\ Become(r, [req[r] EXCEPT !.pc = "upstream", !.target = cfg.upstream,
                                !.bytes = forwardedBytes(req[r].stmt)])
    /\ Quiet /\ UNCHANGED <<sem, metrics>>

Forward(r) ==
    /\ At(r, "forward")
    /\ Become(r, [req[r] EXCEPT !.pc = "upstream", !.target = proxy,
                                !.bytes = forwardedBytes(req[r].stmt)])
    /\ Quiet /\ UNCHANGED <<sem, metrics>>

(* The upstream's answer, or httputil.ReverseProxy's 502. *)
answers(s) == IF s # NoStatement /\ streamBreaks(s) THEN {502} ELSE {200, 502}

UpstreamAnswers(r, code) ==
    /\ At(r, "upstream")
    /\ code \in answers(req[r].stmt)
    /\ Become(r, [req[r] EXCEPT !.pc = "done", !.code = code])
    /\ Quiet /\ UNCHANGED <<sem, metrics>>

-----------------------------------------------------------------------------
(* Steps the server takes by itself once a request is in. *)
Serve(r) ==
    \/ ReadBody(r) \/ Tier1Check(r) \/ ShouldPreflight(r) \/ StartEvaluation(r)
    \/ Acquire(r) \/ GateTimeout(r) \/ CheckLimits(r) \/ Reject(r) \/ Forward(r)

(* Every step of the goroutine of request r, and of what it waits for. *)
ServeAny(r) ==
    \/ \E s \in Statements : ArriveStatement(r, s)
    \/ ArriveOther(r) \/ ArriveMetrics(r) \/ ArriveHealthz(r) \/ ArriveReadyz(r)
    \/ \E code \in {200, 503} : ProbeReturns(r, code)
    \/ Serve(r)
    \/ Expire(r)
    \/ ExplainFails(r)
    \/ \E pl \in Plans : ExplainDone(r, pl)
    \/ \E code \in {200, 502} : UpstreamAnswers(r, code)

Next ==
    \/ \E p \in Policies : SetPolicy(p)
    \/ \E p \in installed : SwapProxy(p)
    \/ \E r \in Requests : ServeAny(r)

(* Goroutines run, context deadlines pass, and waits on the upstream are   *)
(* bounded: client.Do returns once its context is done, the dialer and     *)
(* ResponseHeaderTimeout end a forward, and readyz has its own 2 s.  That  *)
(* the upstream answers an EXPLAIN is not assumed.                         *)
Fairness ==
    \A r \in Requests :
        /\ WF_vars(Serve(r))
        /\ WF_vars(Expire(r))
        /\ WF_vars(req[r].ctxDone /\ ExplainFails(r))
        /\ WF_vars(\E code \in {200, 502} : UpstreamAnswers(r, code))
        /\ WF_vars(\E code \in {200, 503} : ProbeReturns(r, code))

Spec == Init /\ [][Next]_vars

FairSpec == Spec /\ Fairness

-----------------------------------------------------------------------------
RequestType ==
    [pc : Stages, stmt : Statements \union {NoStatement}, reason : Reasons,
     status : QueryStatus \union {"none"}, err : {"none", "gate", "eval"},
     ctxDone : BOOLEAN, plan : Plans \union {NoPlan},
     shadow : Upstreams \union {""}, target : Upstreams \union {""},
     bytes : Nat \union {NoBytes}, audit : {"none", "line", "snapshot"},
     code : StatusCodes]

(* Every variable holds a value of its type. *)
TypeOK ==
    /\ cfg \in Policies
    /\ proxy \in Upstreams
    /\ installed \subseteq Policies
    /\ req \in [Requests -> RequestType]
    /\ sem \in Int
    /\ metrics \in [Counters -> Nat]
    /\ seen \in [Requests -> SUBSET Policies]
    /\ routes \in [Requests -> SUBSET Upstreams]

(* The requests inside Evaluate between the send on sem and the deferred   *)
(* receive.                                                                *)
Holders == {r \in Requests : req[r].pc \in {"explain", "limits"}}

(* The gate never leaks and never over-issues a slot: its token count is   *)
(* the number of evaluations in flight, whatever way they end, and stays   *)
(* within preflight.max_concurrent.                                        *)
GateExact == sem = Cardinality(Holders) /\ sem <= MaxConcurrent

(* What policy p says of request q: its statement passes Tier 1; no plan   *)
(* is needed for it; the rule that q was rejected for is one p applies.    *)
passesTier1(p, q) == tier1(p, Analyze(q.stmt)) = "ALLOW"

needsNoPreflight(p, q) == q.stmt.class # "SELECT" \/ p.costLimits = {}

rejectedBy(p, q) ==
    \/ /\ q.reason \in Tier1Reasons
       /\ tier1(p, Analyze(q.stmt)) = q.reason
    \/ /\ q.reason = "COST_LIMIT_BREACH"
       /\ q.plan \in Plans
       /\ ~evaluateLimits(p, q.plan)

(* However reloads fall between the reads of the policy, a client gets a   *)
(* 400 only for a rule that a policy in force during its request really    *)
(* breaks, and a rejected statement never reaches an upstream.             *)
RejectionJustified ==
    \A r \in Requests : req[r].code = 400 =>
        /\ \E p \in seen[r] : rejectedBy(p, req[r])
        /\ req[r].target = "" /\ req[r].bytes = NoBytes

(* q passed Tier 1 under a policy of S, and either its pre-flight failed   *)
(* open, or a policy of S asked for none, or its plan is within the limits *)
(* of a policy of S.                                                       *)
allowedUnder(S, q) ==
    /\ \E p \in S : passesTier1(p, q)
    /\ \/ q.err # "none"
       \/ \E p \in S : needsNoPreflight(p, q)
       \/ q.plan \in Plans /\ \E p \in S : evaluateLimits(p, q.plan)

(* A statement counted as allowed was let through by policies in force     *)
(* during its request, tier by tier, or by a failed pre-flight: never by a *)
(* policy that was not live, and never without its verdict.                *)
AllowJustified ==
    \A r \in Requests : req[r].status = "allowed" => allowedUnder(seen[r], req[r])

(* The static rules hold end to end: a statement that goes upstream as     *)
(* allowed obeys all of those of one policy in force during its request,   *)
(* never some of one and some of another; and none is turned away by Tier  *)
(* 1 that obeys those of every such policy.                                *)
RulesEnforced ==
    \A r \in Requests :
        /\ req[r].status = "allowed" => \E p \in seen[r] : obeys(p, req[r].stmt)
        /\ req[r].code = 400 /\ req[r].reason \in Tier1Reasons =>
              \E p \in seen[r] : ~obeys(p, req[r].stmt)

(* Every upstream a request talks to, for its shadow EXPLAIN or for the    *)
(* statement itself, was the live one at some moment of that request: a    *)
(* swap moves new work over and never sends a request somewhere stale.     *)
RoutedInForce ==
    \A r \in Requests :
        /\ req[r].shadow # "" => \E p \in seen[r] : p.upstream = req[r].shadow
        /\ req[r].target # "" => req[r].target \in routes[r] \intersect Dialable

(* The audit record of q is the one that a policy of S, a single one, asks *)
(* for: a line if it has log_rejections, with a snapshot of the plan if it *)
(* has snapshot_plan too and there is a plan.                              *)
audited(S, q) ==
    \E p \in S :
        /\ q.audit # "none" <=> p.logRejections
        /\ q.audit = "snapshot" <=>
              p.logRejections /\ p.snapshotPlan /\ q.plan \in Plans

(* The audit line of a rejection and its plan snapshot, or their absence,  *)
(* follow both settings of one policy in force during the request, however *)
(* reloads fall between the verdict and auditRejection; a rejection for    *)
(* cost has its plan to show, a static one has none.                       *)
AuditFollowsPolicy ==
    \A r \in Requests : req[r].code = 400 => audited(seen[r], req[r])

(* What was judged is what runs: a statement that goes upstream as allowed *)
(* goes there whole, never the part of it that arrived before its body     *)
(* broke off (that part goes uninspected, as bypassed).                    *)
JudgedAsForwarded ==
    \A r \in Requests :
        req[r].status = "allowed" /\ req[r].bytes # NoBytes =>
            req[r].bytes = req[r].stmt.len

(* queries_total counts every answered statement exactly once, under the   *)
(* outcome it really had; preflight_rejected_total counts the gate's       *)
(* refusals, and the duration histogram every evaluation that ended.       *)
Accounting ==
    /\ \A s \in QueryStatus :
          metrics[s] = Cardinality({r \in Requests : req[r].status = s})
    /\ metrics["preflightRejected"]
          = Cardinality({r \in Requests : req[r].err = "gate"})
    /\ metrics["preflights"]
          = Cardinality({r \in Requests :
                            \/ req[r].err # "none"
                            \/ req[r].plan # NoPlan /\ ~At(r, "limits")})
    /\ \A r \in Requests :
          At(r, "done") /\ req[r].stmt # NoStatement =>
             (req[r].status = "blocked") = (req[r].code = 400)

(* The bytes of the plans that were rejected for their cost, each one a    *)
(* pair of the request and the byte's number: a sum of sizes as the size   *)
(* of one set.  A plan whose estimates wrapped round has none.             *)
BlockedBytes ==
    UNION {{r} \X (1 .. req[r].plan.scanBytes) :
             r \in {r \in Requests : req[r].reason = "COST_LIMIT_BREACH"}}

(* blocked_bytes_total is exactly the sum of the positive estimates of the *)
(* plans that were rejected for their cost: none is counted twice or       *)
(* dropped, and one that wrapped round takes nothing away.                 *)
BlockedBytesExact == metrics["blockedBytes"] = Cardinality(BlockedBytes)

(* Every request is answered: no reload, gate, lost EXPLAIN or broken body *)
(* can hold one for ever.                                                  *)
Responds == \A r \in Requests : Live(r) ~> At(r, "done")

-----------------------------------------------------------------------------
(* The stages of a statement whose whole body is held and inspected. *)
Judging == {"tier1", "preflight", "evaluate", "acquire", "explain", "limits", "reject"}

(* A plan is there once EXPLAIN has returned, so that what Tier 1 rejects  *)
(* has none.                                                               *)
PlanInv(q) ==
    /\ q.plan # NoPlan => q.pc \in {"limits", "reject", "forward", "upstream", "done"}
    /\ q.pc = "reject" /\ q.reason # "COST_LIMIT_BREACH" => q.plan = NoPlan

(* The inductive invariant behind RejectionJustified, AllowJustified,      *)
(* RoutedInForce, AuditFollowsPolicy and JudgedAsForwarded.  What a        *)
(* finished request must satisfy is prepared stage by stage: past Tier 1 a *)
(* policy of S has passed the statement, a request on its way to a 400     *)
(* already has its reason, and neither outcome nor upstream is recorded    *)
(* early.  S and R are the request's histories.                            *)
RequestInv(q, S, R) ==
    /\ q.pc \notin {"upstream", "done"} => q.target = "" /\ q.bytes = NoBytes
    /\ q.pc # "done" => q.code = 0
    /\ q.status # "none" => q.pc \in {"forward", "upstream", "done"}
    /\ q.pc \in {"preflight", "evaluate", "acquire", "explain", "limits"} =>
          \E p \in S : passesTier1(p, q)
    /\ q.pc = "limits" => q.plan \in Plans
    /\ q.pc = "reject" \/ q.code = 400 => \E p \in S : rejectedBy(p, q)
    /\ q.code = 400 => q.target = "" /\ q.bytes = NoBytes
    /\ q.status = "allowed" => allowedUnder(S, q)
    /\ q.shadow # "" => \E p \in S : p.upstream = q.shadow
    /\ q.target # "" => q.target \in R \intersect Dialable
    /\ q.pc \in Judging \/ q.status = "allowed" => ~readFails(q.stmt)
    /\ q.bytes # NoBytes => q.bytes = forwardedBytes(q.stmt)
    /\ PlanInv(q)
    /\ q.code = 400 => audited(S, q)

InForce(r) == Live(r) => cfg \in seen[r] /\ proxy \in routes[r]

(* The inductive invariant: requests are consistent with their histories,  *)
(* which contain the live policy and proxy as long as they are served.     *)
IndInv ==
    /\ proxy \in Dialable
    /\ \A r \in Requests : InForce(r) /\ RequestInv(req[r], seen[r], routes[r])
=============================================================================
