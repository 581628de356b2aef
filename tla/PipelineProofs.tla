--------------------------- MODULE PipelineProofs ---------------------------
(***************************************************************************)
(* Proofs about Pipeline.tla, for any number of requests, any policies,    *)
(* statements and plans, and any capacity of the gate.                     *)
(***************************************************************************)
EXTENDS Pipeline, StaticProofs

(* Adding to a counter keeps the counters natural numbers. *)
LEMMA AddType ==
    ASSUME NEW m \in [Counters -> Nat], NEW c \in Counters, NEW n \in Nat
    PROVE  Add(m, c, n) \in [Counters -> Nat]
BY DEF Add

(* The constants of the gate, of the requests and of their plans. *)
LEMMA ConstantsType ==
    /\ IsFiniteSet(Requests)
    /\ MaxConcurrent \in Nat \ {0}
    /\ \A pl \in Plans : pl.scanBytes \in Int
    /\ NoPlan \notin Plans
BY PipelineAssumption, Zenon

(* The codes that appear in the actions are status codes. *)
LEMMA CodeType ==
    /\ 200 \in StatusCodes /\ 400 \in StatusCodes
    /\ 502 \in StatusCodes /\ 503 \in StatusCodes
BY DEF StatusCodes

(* Answering a request keeps its type. *)
LEMMA DoneType ==
    ASSUME NEW q \in RequestType, NEW code \in StatusCodes
    PROVE  [q EXCEPT !.pc = "done", !.code = code] \in RequestType
BY ZenonT(60) DEF RequestType, Stages

(* The record of a request that has not arrived. *)
LEMMA IdleType == Idle \in RequestType /\ Idle.pc = "idle"
BY DEF Idle, RequestType, Stages, Reasons, StatusCodes

(* tier1 returns one of its reasons or "ALLOW". *)
LEMMA Tier1Type ==
    ASSUME NEW p, NEW res
    PROVE  tier1(p, res) \in Tier1Reasons \union {"ALLOW"}
BY DEF tier1, Tier1Reasons

(* What Forward reports as received is a number of bytes or none. *)
LEMMA ForwardedType ==
    ASSUME NEW s \in Statements \union {NoStatement}
    PROVE  forwardedBytes(s) \in Nat \union {NoBytes}
BY PipelineAssumption DEF forwardedBytes, readFails

(* The type of the requests and of the metrics, and the plan that a        *)
(* request in "limits" carries: the part of the invariant that type        *)
(* correctness needs.                                                      *)
PlanKnown == \A r \in Requests : At(r, "limits") => req[r].plan \in Plans

(* A request replaced by a well-typed one leaves all of them well typed. *)
LEMMA BecomeType ==
    ASSUME req \in [Requests -> RequestType], PlanKnown,
           NEW r \in Requests, NEW q \in RequestType, Become(r, q),
           q.pc = "limits" => q.plan \in Plans
    PROVE  req' \in [Requests -> RequestType] /\ PlanKnown'
BY DEF Become, PlanKnown, At

(* Pass hands a request on to "forward" with a proper outcome. *)
LEMMA PassType ==
    ASSUME TypeOK, PlanKnown, NEW r \in Requests, NEW q \in RequestType,
           NEW s \in QueryStatus, NEW m \in [Counters -> Nat], Pass(r, q, s, m)
    PROVE  req' \in [Requests -> RequestType] /\ PlanKnown' /\ metrics' \in [Counters -> Nat]
<1> DEFINE n == [q EXCEPT !.pc = "forward", !.status = s]
<1>1. n \in RequestType /\ n.pc = "forward"
  BY ZenonT(60) DEF RequestType, Stages
<1>2. req' \in [Requests -> RequestType] /\ PlanKnown'
  BY <1>1, BecomeType DEF Pass, TypeOK
<1>3. metrics' \in [Counters -> Nat]
  BY AddType DEF Pass, Counters
<1> QED BY <1>2, <1>3

(* The initial state is well typed. *)
LEMMA InitType == Init => TypeOK /\ PlanKnown
<1> SUFFICES ASSUME Init PROVE TypeOK /\ PlanKnown
  OBVIOUS
<1>1. Idle \in RequestType /\ Idle.pc = "idle"
  BY IdleType
<1>2. cfg \in Policies /\ proxy \in Upstreams /\ installed \subseteq Policies
  BY DEF Init, HotInit, Upstreams
<1>3. req \in [Requests -> RequestType] /\ PlanKnown
  BY <1>1 DEF Init, PlanKnown, At
<1>4. QED BY <1>2, <1>3 DEF Init, TypeOK, Counters, QueryStatus

(* Every step keeps the types. *)
LEMMA NextType == TypeOK /\ PlanKnown /\ [Next]_vars => TypeOK' /\ PlanKnown'
<1> SUFFICES ASSUME TypeOK, PlanKnown, [Next]_vars PROVE TypeOK' /\ PlanKnown'
  OBVIOUS
<1> USE DEF TypeOK
<1>1. ASSUME NEW p \in Policies, SetPolicy(p) PROVE TypeOK' /\ PlanKnown'
  BY <1>1 DEF SetPolicy, Set, PlanKnown, At
<1>2. ASSUME NEW p \in installed, SwapProxy(p) PROVE TypeOK' /\ PlanKnown'
  BY <1>2 DEF SwapProxy, UpdateUpstream, PlanKnown, At, Upstreams
<1>3. ASSUME NEW r \in Requests, NEW q \in RequestType, q.pc # "limits", Arrive(r, q)
      PROVE  TypeOK' /\ PlanKnown'
  <2>1. req' \in [Requests -> RequestType] /\ PlanKnown'
    BY <1>3, BecomeType DEF Arrive
  <2>2. QED BY <1>3, <2>1 DEF Arrive
<1>4. ASSUME NEW r \in Requests, NEW q \in RequestType, NEW m \in [Counters -> Nat],
             q.pc = "limits" => q.plan \in Plans,
             Become(r, q), metrics' = m, Quiet, sem' \in Int
      PROVE  TypeOK' /\ PlanKnown'
  <2>1. req' \in [Requests -> RequestType] /\ PlanKnown'
    BY <1>4, BecomeType
  <2>2. QED BY <1>4, <2>1 DEF Quiet
<1>5. ASSUME NEW r \in Requests, NEW q \in RequestType, NEW s \in QueryStatus,
             NEW m \in [Counters -> Nat], Pass(r, q, s, m), Quiet, sem' \in Int
      PROVE  TypeOK' /\ PlanKnown'
  <2>1. /\ req' \in [Requests -> RequestType] /\ PlanKnown'
        /\ metrics' \in [Counters -> Nat]
    BY <1>5, PassType
  <2>2. QED BY <1>5, <2>1 DEF Quiet
<1>6. ASSUME NEW r \in Requests, ServeAny(r) PROVE TypeOK' /\ PlanKnown'
  <2>0. req[r] \in RequestType
    OBVIOUS
  <2>d. \A c \in StatusCodes : [req[r] EXCEPT !.pc = "done", !.code = c] \in RequestType
    BY <2>0, DoneType
  <2>c. {"allowed", "bypassed"} \subseteq QueryStatus
        /\ {"preflights", "preflightRejected", "noTableEstimates", "blockedBytes",
            "blocked"} \subseteq Counters
    BY DEF QueryStatus, Counters
  <2>1. ASSUME NEW s \in Statements, ArriveStatement(r, s) PROVE TypeOK' /\ PlanKnown'
    <3>1. [Idle EXCEPT !.pc = "read", !.stmt = s] \in RequestType
      BY IdleType DEF RequestType, Stages
    <3>2. [Idle EXCEPT !.pc = "read", !.stmt = s].pc # "limits"
      BY IdleType DEF RequestType
    <3>3. QED BY <1>3, <2>1, <3>1, <3>2 DEF ArriveStatement
  <2>2. ASSUME ArriveOther(r) \/ ArriveHealthz(r) \/ ArriveMetrics(r) \/ ArriveReadyz(r)
        PROVE  TypeOK' /\ PlanKnown'
    <3> DEFINE fwd == [Idle EXCEPT !.pc = "forward"]
               ok == [Idle EXCEPT !.pc = "done", !.code = 200]
               probe == [Idle EXCEPT !.pc = "probe", !.shadow = cfg.upstream]
    <3>1. fwd \in RequestType
      BY IdleType DEF RequestType, Stages
    <3>6. ok \in RequestType
      BY IdleType, CodeType, DoneType
    <3>5. probe \in RequestType
      <4>1. cfg.upstream \in Upstreams
        BY DEF Upstreams
      <4>2. QED BY <4>1, IdleType DEF RequestType, Stages
    <3>2. Arrive(r, fwd) \/ Arrive(r, ok) \/ Arrive(r, probe)
      BY <2>2 DEF ArriveOther, ArriveHealthz, ArriveMetrics, ArriveReadyz
    <3>3. fwd.pc # "limits" /\ ok.pc # "limits" /\ probe.pc # "limits"
      BY IdleType DEF RequestType
    <3> HIDE DEF fwd, ok, probe
    <3>4. QED BY <1>3, <3>1, <3>2, <3>3, <3>5, <3>6
  <2>3. ASSUME NEW code \in {200, 503}, ProbeReturns(r, code) PROVE TypeOK' /\ PlanKnown'
    <3>1. [req[r] EXCEPT !.pc = "done", !.code = code] \in RequestType
      <4>1. code \in StatusCodes
        BY CodeType
      <4>2. QED BY <2>d, <4>1
    <3>2. QED BY <1>4, <2>0, <2>3, <3>1 DEF ProbeReturns, RequestType
  <2>4. CASE ReadBody(r)
    <3>1. [req[r] EXCEPT !.pc = "tier1"] \in RequestType
      BY <2>0, ZenonT(60) DEF RequestType, Stages
    <3>2. QED BY <1>4, <1>5, <2>0, <2>c, <2>4, <3>1 DEF ReadBody, RequestType
  <2>5. CASE Tier1Check(r)
    <3> DEFINE v == tier1(cfg, Analyze(req[r].stmt))
    <3>1. [req[r] EXCEPT !.reason = v,
                         !.pc = IF v = "ALLOW" THEN "preflight" ELSE "reject"]
             \in RequestType
      <4>1. v \in Reasons
        BY Tier1Type DEF Reasons
      <4>2. ASSUME NEW pc \in {"preflight", "reject"}
            PROVE  [req[r] EXCEPT !.reason = v, !.pc = pc] \in RequestType
        <5> HIDE DEF v
        <5> QED BY <2>0, <4>1, ZenonT(60) DEF RequestType, Stages
      <4> HIDE DEF v
      <4>3. QED BY <4>2
    <3>2. QED BY <1>4, <2>0, <2>5, <3>1 DEF Tier1Check, RequestType
  <2>6. CASE ShouldPreflight(r)
    <3>1. [req[r] EXCEPT !.pc = "evaluate"] \in RequestType
      BY <2>0, ZenonT(60) DEF RequestType, Stages
    <3>2. QED BY <1>4, <1>5, <2>0, <2>c, <2>6, <3>1 DEF ShouldPreflight, RequestType
  <2>7. CASE StartEvaluation(r)
    <3>1. [req[r] EXCEPT !.pc = "acquire", !.shadow = cfg.upstream] \in RequestType
      <4>1. cfg.upstream \in Upstreams
        BY DEF Upstreams
      <4>2. QED BY <2>0, <4>1, ZenonT(60) DEF RequestType, Stages
    <3>2. QED BY <1>4, <2>0, <2>7, <3>1 DEF StartEvaluation, RequestType
  <2>8. CASE Expire(r)
    <3>1. [req[r] EXCEPT !.ctxDone = TRUE] \in RequestType
      BY <2>0 DEF RequestType
    <3>2. QED BY <1>4, <2>0, <2>8, <3>1 DEF Expire, At, RequestType
  <2>9. CASE Acquire(r)
    <3>1. [req[r] EXCEPT !.pc = "explain"] \in RequestType
      BY <2>0, ZenonT(60) DEF RequestType, Stages
    <3>2. sem' \in Int /\ Quiet /\ metrics' = metrics
      BY <2>9 DEF Acquire
    <3>3. [req[r] EXCEPT !.pc = "explain"].pc # "limits"
      BY <2>0 DEF RequestType
    <3>4. QED BY <1>4, <2>9, <3>1, <3>2, <3>3 DEF Acquire
  <2>10. CASE GateTimeout(r)
    <3>1. [req[r] EXCEPT !.err = "gate"] \in RequestType
      BY <2>0 DEF RequestType
    <3>2. Add(Add(metrics, "preflights", 1), "preflightRejected", 1) \in [Counters -> Nat]
      BY AddType, <2>c
    <3>3. QED BY <1>5, <2>c, <2>10, <3>1, <3>2 DEF GateTimeout
  <2>11. CASE ExplainFails(r)
    <3>1. [req[r] EXCEPT !.err = "eval"] \in RequestType
      BY <2>0 DEF RequestType
    <3>2. Add(metrics, "preflights", 1) \in [Counters -> Nat]
      BY AddType, <2>c
    <3>3. QED BY <1>5, <2>c, <2>11, <3>1, <3>2 DEF ExplainFails
  <2>12. ASSUME NEW pl \in Plans, ExplainDone(r, pl) PROVE TypeOK' /\ PlanKnown'
    <3>1. [req[r] EXCEPT !.pc = "limits", !.plan = pl] \in RequestType
      BY <2>0, ZenonT(60) DEF RequestType, Stages
    <3>2. QED BY <1>4, <2>0, <2>12, <3>1 DEF ExplainDone, RequestType
  <2>13. CASE CheckLimits(r)
    <3> DEFINE plan == req[r].plan
               q == [req[r] EXCEPT !.pc = "reject", !.reason = "COST_LIMIT_BREACH"]
    <3>1. blockedBytes(plan) \in Nat
      BY <2>13, ConstantsType DEF CheckLimits, PlanKnown, blockedBytes
    <3>2. q \in RequestType /\ q.pc # "limits"
      <4>1. "COST_LIMIT_BREACH" \in Reasons
        BY DEF Reasons
      <4>2. QED BY <2>0, <4>1, ZenonT(60) DEF RequestType, Stages
    <3>3. evaluated(plan) \in [Counters -> Nat]
      BY AddType, <2>c DEF evaluated
    <3>4. Add(evaluated(plan), "blockedBytes", blockedBytes(plan)) \in [Counters -> Nat]
      BY AddType, <2>c, <3>1, <3>3
    <3>5. sem' \in Int /\ Quiet
      BY <2>13 DEF CheckLimits
    <3> HIDE DEF q, plan
    <3>6. CASE evaluateLimits(cfg, plan)
      BY <1>5, <2>0, <2>c, <2>13, <3>3, <3>5, <3>6 DEF CheckLimits, plan
    <3>7. CASE ~evaluateLimits(cfg, plan)
      BY <1>4, <2>13, <3>2, <3>4, <3>5, <3>7 DEF CheckLimits, plan, q
    <3>8. QED BY <3>6, <3>7
  <2>14. CASE Reject(r)
    <3>1. auditLine(req[r].reason) \in {"none", "line", "snapshot"}
      BY DEF auditLine
    <3> DEFINE q == [req[r] EXCEPT !.pc = "done", !.status = "blocked", !.code = 400,
                                   !.audit = auditLine(req[r].reason)]
    <3>2. q \in RequestType
      <4>1. "blocked" \in QueryStatus
        BY DEF QueryStatus
      <4>2. ASSUME NEW line \in {"none", "line", "snapshot"}, NEW code \in StatusCodes
            PROVE  [req[r] EXCEPT !.pc = "done", !.status = "blocked", !.code = code,
                                  !.audit = line] \in RequestType
        <5>1. [req[r] EXCEPT !.status = "blocked", !.audit = line] \in RequestType
          BY <2>0, <4>1 DEF RequestType
        <5>2. [[req[r] EXCEPT !.status = "blocked", !.audit = line]
                 EXCEPT !.pc = "done", !.code = code] \in RequestType
          BY <5>1, DoneType
        <5>3. [[req[r] EXCEPT !.status = "blocked", !.audit = line]
                 EXCEPT !.pc = "done", !.code = code]
               = [req[r] EXCEPT !.pc = "done", !.status = "blocked", !.code = code,
                                !.audit = line]
          BY <2>0 DEF RequestType
        <5>4. QED BY <5>2, <5>3
      <4>3. QED BY <3>1, <4>2, CodeType, ZenonT(60)
    <3>3. Add(metrics, "blocked", 1) \in [Counters -> Nat]
      BY AddType, <2>c
    <3>4. q.pc # "limits"
      BY <2>0 DEF RequestType
    <3>5. Become(r, q) /\ Quiet /\ sem' \in Int /\ metrics' = Add(metrics, "blocked", 1)
      BY <2>14 DEF Reject
    <3> HIDE DEF q
    <3>6. QED BY <1>4, <3>2, <3>3, <3>4, <3>5
  <2>15. CASE Forward(r)
    <3>1. [req[r] EXCEPT !.pc = "upstream", !.target = proxy,
                         !.bytes = forwardedBytes(req[r].stmt)] \in RequestType
      BY <2>0, ForwardedType, ZenonT(60) DEF RequestType, Stages
    <3>2. QED BY <1>4, <2>0, <2>15, <3>1 DEF Forward, RequestType
  <2>16. ASSUME NEW code \in {200, 502}, UpstreamAnswers(r, code)
         PROVE  TypeOK' /\ PlanKnown'
    <3>1. [req[r] EXCEPT !.pc = "done", !.code = code] \in RequestType
      <4>1. code \in StatusCodes
        BY CodeType
      <4>2. QED BY <2>d, <4>1
    <3>2. QED BY <1>4, <2>0, <2>16, <3>1 DEF UpstreamAnswers, RequestType
  <2>17. QED
    BY <1>6, <2>1, <2>2, <2>3, <2>4, <2>5, <2>6, <2>7, <2>8, <2>9, <2>10, <2>11,
       <2>12, <2>13, <2>14, <2>15, <2>16 DEF ServeAny, Serve
<1>7. CASE UNCHANGED vars
  BY <1>7 DEF vars, PlanKnown, At
<1>8. QED BY <1>1, <1>2, <1>6, <1>7 DEF Next, ServeAny

(* Type correctness of the request path: every variable keeps its type     *)
(* under all interleavings of requests and reloads.                        *)
THEOREM TypeCorrect == Spec => []TypeOK
<1>1. TypeOK /\ PlanKnown /\ [Next]_vars => (TypeOK /\ PlanKnown)'
  BY NextType
<1>2. QED BY InitType, <1>1, PTL DEF Spec

-----------------------------------------------------------------------------
(* The concurrency gate.                                                   *)

(* A step of r that neither enters nor leaves the gate. *)
LEMMA GateKept ==
    ASSUME TypeOK, GateExact, NEW r \in Requests, NEW q, Become(r, q),
           q.pc \in {"explain", "limits"} <=> r \in Holders, UNCHANGED sem
    PROVE  GateExact'
<1>1. Holders' = Holders
  BY DEF Holders, Become, TypeOK
<1>2. QED BY <1>1 DEF GateExact

(* A step of r that takes a slot. *)
LEMMA GateTaken ==
    ASSUME TypeOK, GateExact, NEW r \in Requests, NEW q, Become(r, q),
           r \notin Holders, q.pc = "explain", sem < MaxConcurrent, sem' = sem + 1
    PROVE  GateExact'
<1>1. Holders' = Holders \union {r}
  BY DEF Holders, Become, TypeOK
<1>2. IsFiniteSet(Holders)
  BY ConstantsType, FS_Subset DEF Holders
<1>3. Cardinality(Holders') = Cardinality(Holders) + 1
  BY <1>1, <1>2, FS_AddElement
<1>4. QED BY <1>3, ConstantsType DEF GateExact, TypeOK

(* A step of r that gives its slot back. *)
LEMMA GateReleased ==
    ASSUME TypeOK, GateExact, NEW r \in Requests, NEW q, Become(r, q),
           r \in Holders, q.pc \notin {"explain", "limits"}, sem' = sem - 1
    PROVE  GateExact'
<1>1. Holders' = Holders \ {r}
  BY DEF Holders, Become, TypeOK
<1>2. IsFiniteSet(Holders)
  BY ConstantsType, FS_Subset DEF Holders
<1>3. Cardinality(Holders') = Cardinality(Holders) - 1
  BY <1>1, <1>2, FS_RemoveElement
<1>4. QED BY <1>3, ConstantsType DEF GateExact, TypeOK

(* No step leaks a slot or takes one too many. *)
LEMMA GateStep == TypeOK /\ GateExact /\ [Next]_vars => GateExact'
<1> SUFFICES ASSUME TypeOK, GateExact, [Next]_vars PROVE GateExact'
  OBVIOUS
<1>1. CASE req' = req /\ sem' = sem
  BY <1>1 DEF GateExact, Holders
<1>2. ASSUME NEW r \in Requests, ServeAny(r) PROVE GateExact'
  <2> DEFINE o == req[r]
  <2>0. o \in RequestType
    BY DEF TypeOK
  <2>h. r \in Holders <=> o.pc \in {"explain", "limits"}
    BY DEF Holders
  <2>1. CASE \/ \E s \in Statements : ArriveStatement(r, s)
             \/ ArriveOther(r) \/ ArriveMetrics(r) \/ ArriveHealthz(r) \/ ArriveReadyz(r)
    BY <2>1, <2>h, GateKept, IdleType
       DEF ArriveStatement, ArriveOther, ArriveMetrics, ArriveHealthz, ArriveReadyz,
           Arrive, At, RequestType
  <2>2. CASE \/ \E code \in {200, 503} : ProbeReturns(r, code)
             \/ \E code \in {200, 502} : UpstreamAnswers(r, code)
    BY <2>2, <2>0, <2>h, GateKept DEF ProbeReturns, UpstreamAnswers, At, RequestType
  <2>3. CASE ReadBody(r) \/ ShouldPreflight(r)
    BY <2>3, <2>0, <2>h, GateKept DEF ReadBody, ShouldPreflight, Pass, At, RequestType
  <2>4. CASE Tier1Check(r) \/ StartEvaluation(r) \/ Reject(r) \/ Forward(r)
    BY <2>4, <2>0, <2>h, GateKept, ZenonT(60)
       DEF Tier1Check, StartEvaluation, Reject, Forward, At, RequestType
  <2>5. CASE Expire(r) \/ \E pl \in Plans : ExplainDone(r, pl)
    BY <2>5, <2>0, <2>h, GateKept DEF Expire, ExplainDone, At, RequestType
  <2>6. CASE Acquire(r)
    BY <2>6, <2>0, <2>h, GateTaken DEF Acquire, At, RequestType
  <2>7. CASE GateTimeout(r)
    BY <2>7, <2>0, <2>h, GateKept DEF GateTimeout, Pass, At, RequestType
  <2>8. CASE ExplainFails(r) \/ CheckLimits(r)
    BY <2>8, <2>0, <2>h, GateReleased DEF ExplainFails, CheckLimits, Pass, At, RequestType
  <2>9. QED
    BY <1>2, <2>1, <2>2, <2>3, <2>4, <2>5, <2>6, <2>7, <2>8 DEF ServeAny, Serve
<1>3. QED
  BY <1>1, <1>2 DEF Next, ServeAny, SetPolicy, SwapProxy, vars

(* The gate's token count is always the number of evaluations in flight    *)
(* and never above its capacity, for any number of requests.               *)
THEOREM GateCorrect == Spec => []GateExact
<1>1. Init => GateExact
  <2>1. ASSUME Init PROVE Holders = {}
    BY <2>1, IdleType DEF Init, Holders
  <2>2. Cardinality({}) = 0
    BY FS_EmptySet
  <2>3. QED BY <2>1, <2>2, ConstantsType DEF Init, GateExact
<1>2. TypeOK /\ GateExact /\ [Next]_vars => GateExact'
  BY GateStep
<1>3. QED BY TypeCorrect, <1>1, <1>2, PTL DEF Spec

-----------------------------------------------------------------------------
(* Verdicts and routes.                                                    *)

(* What holds of a request with some history holds with a longer one: a    *)
(* reload in the middle of a request cannot take a justification away.     *)
LEMMA LongerHistory ==
    ASSUME NEW q, NEW S, NEW T, NEW R, NEW U, S \subseteq T, R \subseteq U,
           RequestInv(q, S, R)
    PROVE  RequestInv(q, T, U)
<1>1. /\ q.pc \notin {"upstream", "done"} => q.target = "" /\ q.bytes = NoBytes
      /\ q.pc # "done" => q.code = 0
      /\ q.status # "none" => q.pc \in {"forward", "upstream", "done"}
      /\ q.pc = "limits" => q.plan \in Plans
      /\ q.code = 400 => q.target = "" /\ q.bytes = NoBytes
      /\ q.pc \in Judging \/ q.status = "allowed" => ~readFails(q.stmt)
      /\ q.bytes # NoBytes => q.bytes = forwardedBytes(q.stmt)
      /\ PlanInv(q)
  BY DEF RequestInv
<1>2. q.pc \in {"preflight", "evaluate", "acquire", "explain", "limits"} =>
         \E p \in T : passesTier1(p, q)
  BY DEF RequestInv
<1>3. q.pc = "reject" \/ q.code = 400 => \E p \in T : rejectedBy(p, q)
  BY DEF RequestInv
<1>4. q.status = "allowed" => allowedUnder(T, q)
  <2>1. allowedUnder(S, q) => allowedUnder(T, q)
    BY DEF allowedUnder
  <2>2. QED BY <2>1 DEF RequestInv
<1>5. /\ q.shadow # "" => \E p \in T : p.upstream = q.shadow
      /\ q.target # "" => q.target \in U \intersect Dialable
  BY DEF RequestInv
<1>6. q.code = 400 => audited(T, q)
  <2>1. audited(S, q) => audited(T, q)
    BY DEF audited
  <2>2. QED BY <2>1 DEF RequestInv
<1>7. QED BY <1>1, <1>2, <1>3, <1>4, <1>5, <1>6, Zenon DEF RequestInv

(* A step of r, away from the reload side, that leaves r consistent. *)
LEMMA BecomeInv ==
    ASSUME TypeOK, IndInv, NEW r \in Requests, NEW q, Become(r, q), Quiet, Live(r),
           RequestInv(q, seen[r], routes[r])
    PROVE  IndInv'
<1>1. proxy' \in Dialable
  BY DEF IndInv, Quiet
<1>2. ASSUME NEW k \in Requests
      PROVE  (InForce(k) /\ RequestInv(req[k], seen[k], routes[k]))'
  <2>1. CASE k = r
    <3>1. req'[k] = q /\ seen'[k] = seen[r] /\ routes'[k] = routes[r]
      BY <2>1 DEF Become, Quiet, TypeOK
    <3>2. InForce(k)'
      BY <2>1 DEF IndInv, InForce, Quiet
    <3>3. QED BY <3>1, <3>2
  <2>2. CASE k # r
    <3>1. req'[k] = req[k] /\ seen'[k] = seen[k] /\ routes'[k] = routes[k]
      BY <2>2 DEF Become, Quiet, TypeOK
    <3>2. InForce(k)'
      BY <3>1 DEF IndInv, InForce, Live, Quiet
    <3>3. QED BY <3>1, <3>2 DEF IndInv
  <2>3. QED BY <2>1, <2>2
<1>3. QED BY <1>1, <1>2 DEF IndInv

(* An arriving request starts its histories with what is live. *)
LEMMA ArriveInv ==
    ASSUME TypeOK, IndInv, NEW r \in Requests, NEW q, Arrive(r, q),
           RequestInv(q, {cfg}, {proxy})
    PROVE  IndInv'
<1>1. proxy' \in Dialable
  BY DEF IndInv, Arrive
<1>2. ASSUME NEW k \in Requests
      PROVE  (InForce(k) /\ RequestInv(req[k], seen[k], routes[k]))'
  <2>1. CASE k = r
    <3>1. req'[k] = q /\ seen'[k] = {cfg} /\ routes'[k] = {proxy}
      BY <2>1 DEF Arrive, Become, TypeOK
    <3>2. InForce(k)'
      BY <3>1 DEF InForce, Arrive
    <3>3. QED BY <3>1, <3>2
  <2>2. CASE k # r
    <3>1. req'[k] = req[k] /\ seen'[k] = seen[k] /\ routes'[k] = routes[k]
      BY <2>2 DEF Arrive, Become, TypeOK
    <3>2. InForce(k)'
      BY <3>1 DEF IndInv, InForce, Live, Arrive
    <3>3. QED BY <3>1, <3>2 DEF IndInv
  <2>3. QED BY <2>1, <2>2
<1>3. QED BY <1>1, <1>2 DEF IndInv

(* Reloads keep every request consistent. *)
LEMMA ReloadInv ==
    ASSUME TypeOK, IndInv,
           \/ \E p \in Policies : SetPolicy(p)
           \/ \E p \in installed : SwapProxy(p)
    PROVE  IndInv'
<1>1. proxy' \in Dialable
  BY DEF IndInv, SetPolicy, Set, SwapProxy, UpdateUpstream
<1>2. ASSUME NEW k \in Requests
      PROVE  (InForce(k) /\ RequestInv(req[k], seen[k], routes[k]))'
  <2>1. req'[k] = req[k] /\ seen[k] \subseteq seen'[k] /\ routes[k] \subseteq routes'[k]
    BY DEF SetPolicy, SwapProxy
  <2>2. RequestInv(req[k], seen[k], routes[k])'
    BY <2>1, LongerHistory DEF IndInv
  <2>3. InForce(k)'
    BY DEF IndInv, InForce, Live, SetPolicy, Set, SwapProxy, UpdateUpstream
  <2>4. QED BY <2>2, <2>3
<1>3. QED BY <1>1, <1>2 DEF IndInv

(* Verdicts depend on the statement, the reason, the plan and the error    *)
(* of a request only.                                                      *)
LEMMA SameVerdicts ==
    ASSUME NEW q, NEW o, NEW S, q.stmt = o.stmt, q.plan = o.plan
    PROVE  /\ (\E p \in S : passesTier1(p, q)) <=> \E p \in S : passesTier1(p, o)
           /\ q.err = o.err => (allowedUnder(S, q) <=> allowedUnder(S, o))
           /\ q.reason = o.reason =>
                ((\E p \in S : rejectedBy(p, q)) <=> \E p \in S : rejectedBy(p, o))
<1>1. \A p \in S : passesTier1(p, q) <=> passesTier1(p, o)
  BY DEF passesTier1
<1>2. \A p \in S : needsNoPreflight(p, q) <=> needsNoPreflight(p, o)
  BY DEF needsNoPreflight
<1>3. q.reason = o.reason => \A p \in S : rejectedBy(p, q) <=> rejectedBy(p, o)
  BY DEF rejectedBy
<1>4. q.err = o.err => (allowedUnder(S, q) <=> allowedUnder(S, o))
  BY <1>1, <1>2 DEF allowedUnder
<1>5. QED BY <1>1, <1>3, <1>4

(* A step between two stages before the forward: the obligations that are  *)
(* left are those of the stage the request goes to.                        *)
LEMMA StageInv ==
    ASSUME NEW q, NEW o, NEW S, NEW R, RequestInv(o, S, R),
           o.pc \notin {"forward", "upstream", "done"},
           q.pc \notin {"upstream", "done"},
           q.code = o.code, q.target = o.target, q.bytes = o.bytes,
           q.shadow = o.shadow \/ \E p \in S : p.upstream = q.shadow,
           \/ q.status = o.status
           \/ q.pc = "forward" /\ (q.status = "allowed" => allowedUnder(S, q)),
           q.pc \in {"preflight", "evaluate", "acquire", "explain", "limits"} =>
               \E p \in S : passesTier1(p, q),
           q.pc = "limits" => q.plan \in Plans,
           q.pc = "reject" => \E p \in S : rejectedBy(p, q),
           q.pc \in Judging \/ q.status = "allowed" => ~readFails(q.stmt),
           PlanInv(q)
    PROVE  RequestInv(q, S, R)
<1>1. o.status = "none" /\ o.code = 0 /\ o.target = "" /\ o.bytes = NoBytes
  BY DEF RequestInv
<1>2. q.shadow # "" => \E p \in S : p.upstream = q.shadow
  BY DEF RequestInv
<1>3. q.code # 400 /\ q.code = 0
  <2>1. q.code = 0
    BY <1>1, Zenon
  <2>2. QED BY <2>1
<1>4. q.target = "" /\ q.bytes = NoBytes
  BY <1>1
<1>5. q.status = "allowed" => allowedUnder(S, q)
  BY <1>1
<1>6. q.status # "none" => q.pc = "forward"
  BY <1>1
<1>7. QED BY <1>2, <1>3, <1>4, <1>5, <1>6 DEF RequestInv

(* Every step of a request leaves it consistent with its histories: one    *)
(* case per action, each with the fields that the action changes.          *)
LEMMA ServeInv ==
    ASSUME TypeOK, IndInv, NEW r \in Requests, ServeAny(r)
    PROVE  IndInv'
<1> DEFINE o == req[r]
           S == seen[r]
           R == routes[r]
<1>0. o \in RequestType
  BY DEF TypeOK
<1>1. RequestInv(o, S, R)
  BY DEF IndInv
<1>2. Live(r) => cfg \in S /\ proxy \in R
  BY DEF IndInv, InForce
<1>3. proxy \in Dialable
  BY DEF IndInv
<1> USE DEF At
<1>4. ASSUME NEW s \in Statements, ArriveStatement(r, s) PROVE IndInv'
  <2> DEFINE q == [Idle EXCEPT !.pc = "read", !.stmt = s]
  <2>1. RequestInv(q, {cfg}, {proxy})
    BY DEF RequestInv, PlanInv, Idle, Judging
  <2>2. QED BY <1>4, <2>1, ArriveInv DEF ArriveStatement
<1>5. CASE ArriveOther(r) \/ ArriveMetrics(r) \/ ArriveHealthz(r)
  <2>1. /\ RequestInv([Idle EXCEPT !.pc = "forward"], {cfg}, {proxy})
        /\ RequestInv([Idle EXCEPT !.pc = "done", !.code = 200], {cfg}, {proxy})
    BY DEF RequestInv, PlanInv, Idle, Judging
  <2>2. QED BY <1>5, <2>1, ArriveInv DEF ArriveOther, ArriveMetrics, ArriveHealthz
<1>6. CASE ArriveReadyz(r)
  <2>1. RequestInv([Idle EXCEPT !.pc = "probe", !.shadow = cfg.upstream], {cfg}, {proxy})
    BY DEF RequestInv, PlanInv, Idle, Judging
  <2>2. QED BY <1>6, <2>1, ArriveInv DEF ArriveReadyz
<1>7. ASSUME NEW code \in {200, 502, 503}, o.pc \in {"probe", "upstream"},
             Become(r, [o EXCEPT !.pc = "done", !.code = code]), Quiet
      PROVE  IndInv'
  <2> DEFINE q == [o EXCEPT !.pc = "done", !.code = code]
  <2>1. /\ q.pc = "done" /\ q.code = code /\ q.stmt = o.stmt /\ q.reason = o.reason
        /\ q.status = o.status /\ q.err = o.err /\ q.plan = o.plan
        /\ q.shadow = o.shadow /\ q.target = o.target /\ q.bytes = o.bytes
    BY <1>0 DEF RequestType
  <2> HIDE DEF q
  <2>2. RequestInv(q, S, R)
    <3>1. allowedUnder(S, q) <=> allowedUnder(S, o)
      BY <2>1, SameVerdicts
    <3>2. q.shadow # "" => \E p \in S : p.upstream = q.shadow
      <4>1. o.shadow # "" => \E p \in S : p.upstream = o.shadow
        BY <1>1, Zenon DEF RequestInv
      <4>2. q.shadow = o.shadow
        BY <2>1
      <4>3. ASSUME q.shadow # "" PROVE \E p \in S : p.upstream = q.shadow
        <5>1. PICK p \in S : p.upstream = o.shadow
          BY <4>1, <4>2, <4>3
        <5>2. p.upstream = q.shadow
          BY <4>2, <5>1
        <5> QED BY <5>2
      <4> QED BY <4>3
    <3>3. q.target # "" => q.target \in R \intersect Dialable
      <4>1. o.target # "" => o.target \in R \intersect Dialable
        BY <1>1, Zenon DEF RequestInv
      <4>2. q.target = o.target
        BY <2>1
      <4> QED BY <4>1, <4>2, Zenon
    <3>4. q.code # 400
      BY <2>1
    <3>5. q.status = "allowed" => allowedUnder(S, q)
      BY <1>1, <2>1, <3>1 DEF RequestInv
    <3>6. /\ q.status = "allowed" => ~readFails(q.stmt)
          /\ q.bytes # NoBytes => q.bytes = forwardedBytes(q.stmt)
      <4>1. /\ o.status = "allowed" => ~readFails(o.stmt)
            /\ o.bytes # NoBytes => o.bytes = forwardedBytes(o.stmt)
        BY <1>1, Zenon DEF RequestInv
      <4>2. q.status = o.status /\ q.stmt = o.stmt /\ q.bytes = o.bytes
        BY <2>1
      <4> QED BY <4>1, <4>2, Zenon
    <3>7. q.pc \notin Judging
      BY <2>1 DEF Judging
    <3>8. PlanInv(q)
      BY <2>1 DEF PlanInv
    <3> QED BY <2>1, <3>2, <3>3, <3>4, <3>5, <3>6, <3>7, <3>8 DEF RequestInv
  <2>3. QED BY <1>7, <2>2, BecomeInv DEF Live, q
<1>8. ASSUME NEW c, NEW m, Pass(r, [o EXCEPT !.err = c], "allowed", m), Quiet,
             o.pc \in {"preflight", "acquire", "explain", "limits"},
             allowedUnder(S, [o EXCEPT !.err = c])
      PROVE  IndInv'
  <2> DEFINE e == [o EXCEPT !.err = c]
             q == [e EXCEPT !.pc = "forward", !.status = "allowed"]
  <2>1. /\ q.pc = "forward" /\ q.code = o.code /\ q.target = o.target
        /\ q.bytes = o.bytes /\ q.shadow = o.shadow
        /\ q.stmt = e.stmt /\ q.plan = e.plan /\ q.err = e.err
    BY <1>0 DEF RequestType
  <2>2. Become(r, q)
    BY <1>8 DEF Pass
  <2> HIDE DEF q, e
  <2>3. allowedUnder(S, q)
    BY <1>8, <2>1, SameVerdicts DEF e
  <2>4. ~readFails(q.stmt)
    BY <1>0, <1>1, <1>8, <2>1 DEF RequestInv, Judging, RequestType, e
  <2>5. RequestInv(q, S, R)
    <3>1. PlanInv(q)
      BY <2>1 DEF PlanInv
    <3> QED BY <1>1, <1>8, <2>1, <2>3, <2>4, <3>1, StageInv
  <2>6. QED BY <1>8, <2>2, <2>5, BecomeInv DEF Live
<1>9. CASE ReadBody(r)
  <2> DEFINE b == [o EXCEPT !.pc = "forward", !.status = "bypassed"]
             t == [o EXCEPT !.pc = "tier1"]
  <2>1. /\ b.pc = "forward" /\ b.status = "bypassed" /\ b.code = o.code
        /\ b.target = o.target /\ b.bytes = o.bytes /\ b.shadow = o.shadow
    BY <1>0 DEF RequestType
  <2>2. /\ t.pc = "tier1" /\ t.status = o.status /\ t.code = o.code /\ t.stmt = o.stmt
        /\ t.plan = o.plan
        /\ t.target = o.target /\ t.bytes = o.bytes /\ t.shadow = o.shadow
    BY <1>0 DEF RequestType
  <2>3. (Become(r, b) \/ (Become(r, t) /\ ~readFails(o.stmt))) /\ Quiet /\ o.pc = "read"
    <3>1. CASE readFails(o.stmt)
      BY <1>9, <3>1 DEF ReadBody, Pass
    <3>2. CASE ~readFails(o.stmt)
      BY <1>9, <3>2 DEF ReadBody, Pass
    <3>3. QED BY <3>1, <3>2
  <2> HIDE DEF b, t
  <2>4. RequestInv(b, S, R)
    <3>1. b.pc \notin Judging
      BY <2>1 DEF Judging
    <3>2. PlanInv(b)
      BY <2>1 DEF PlanInv
    <3>3. QED BY <1>1, <2>1, <2>3, <3>1, <3>2, StageInv
  <2>5. ~readFails(o.stmt) => RequestInv(t, S, R)
    <3>1. PlanInv(t)
      BY <1>1, <2>2, <2>3 DEF PlanInv, RequestInv
    <3>2. QED BY <1>1, <2>2, <2>3, <3>1, StageInv
  <2>6. QED BY <2>3, <2>4, <2>5, BecomeInv DEF Live
<1>10. CASE Tier1Check(r)
  <2> DEFINE v == tier1(cfg, Analyze(o.stmt))
             q == [o EXCEPT !.reason = v,
                            !.pc = IF v = "ALLOW" THEN "preflight" ELSE "reject"]
  <2>1. /\ q.pc = (IF v = "ALLOW" THEN "preflight" ELSE "reject") /\ q.reason = v
        /\ q.plan = o.plan /\ q.status = o.status /\ q.code = o.code /\ q.stmt = o.stmt
        /\ q.target = o.target /\ q.bytes = o.bytes /\ q.shadow = o.shadow
    <3> HIDE DEF v
    <3> QED BY <1>0 DEF RequestType
  <2>2. Become(r, q) /\ Quiet /\ o.pc = "tier1"
    BY <1>10 DEF Tier1Check
  <2>3. cfg \in S
    BY <1>2, <2>2 DEF Live
  <2>4. v = "ALLOW" => passesTier1(cfg, q)
    BY <2>1 DEF passesTier1
  <2>5. v # "ALLOW" => rejectedBy(cfg, q)
    BY <2>1, Tier1Type DEF rejectedBy
  <2>6. ~readFails(q.stmt)
    BY <1>1, <2>1, <2>2 DEF RequestInv, Judging
  <2> HIDE DEF q, v
  <2>7. RequestInv(q, S, R)
    <3>1. o.plan = NoPlan
      BY <1>1, <2>2 DEF PlanInv, RequestInv
    <3>2. PlanInv(q)
      BY <2>1, <3>1 DEF PlanInv
    <3> QED BY <1>1, <2>1, <2>2, <2>3, <2>4, <2>5, <2>6, <3>2, StageInv
  <2>8. QED BY <2>2, <2>7, BecomeInv DEF Live
<1>11. CASE ShouldPreflight(r)
  <2> DEFINE q == [o EXCEPT !.pc = "evaluate"]
  <2>0. o.pc = "preflight" /\ Quiet /\ cfg \in S
    BY <1>2, <1>11 DEF ShouldPreflight, Live
  <2>1. \E p \in S : passesTier1(p, o)
    BY <1>1, <2>0 DEF RequestInv
  <2>2. CASE ~(o.stmt.class = "SELECT" /\ cfg.costLimits # {})
    <3>1. [o EXCEPT !.err = o.err] = o
      BY <1>0 DEF RequestType
    <3>2. needsNoPreflight(cfg, o)
      BY <2>2 DEF needsNoPreflight
    <3>3. allowedUnder(S, o)
      BY <2>0, <2>1, <3>2 DEF allowedUnder
    <3>4. Pass(r, o, "allowed", metrics)
      BY <1>11, <2>2 DEF ShouldPreflight
    <3>5. QED BY <1>8, <2>0, <3>1, <3>3, <3>4
  <2>3. CASE o.stmt.class = "SELECT" /\ cfg.costLimits # {}
    <3>1. /\ q.pc = "evaluate" /\ q.status = o.status /\ q.code = o.code
          /\ q.stmt = o.stmt /\ q.plan = o.plan
          /\ q.target = o.target /\ q.bytes = o.bytes /\ q.shadow = o.shadow
      BY <1>0 DEF RequestType
    <3>2. Become(r, q)
      BY <1>11, <2>3 DEF ShouldPreflight
    <3> HIDE DEF q
    <3>3. \E p \in S : passesTier1(p, q)
      BY <2>1, <3>1, SameVerdicts
    <3>4. ~readFails(q.stmt)
      BY <1>1, <2>0, <3>1 DEF RequestInv, Judging
    <3>5. RequestInv(q, S, R)
      <4>1. PlanInv(q)
        BY <1>1, <2>0, <3>1 DEF PlanInv, RequestInv
      <4> QED BY <1>1, <2>0, <3>1, <3>3, <3>4, <4>1, StageInv
    <3>6. QED BY <2>0, <3>2, <3>5, BecomeInv DEF Live
  <2>4. QED BY <2>2, <2>3
<1>12. ASSUME NEW q, Become(r, q), Quiet,
              o.pc \in {"evaluate", "acquire", "explain"},
              q.pc \in {"acquire", "explain", "limits"}, q.pc = "limits" => q.plan \in Plans,
              q.status = o.status, q.code = o.code, q.stmt = o.stmt,
              q.target = o.target, q.bytes = o.bytes,
              q.plan = o.plan \/ q.pc = "limits",
              q.shadow = o.shadow \/ q.shadow = cfg.upstream
       PROVE  IndInv'
  <2>1. \E p \in S : passesTier1(p, o)
    BY <1>1, <1>12 DEF RequestInv
  <2>2. \E p \in S : passesTier1(p, q)
    BY <1>12, <2>1 DEF passesTier1
  <2>3. cfg \in S
    BY <1>2, <1>12 DEF Live
  <2>4. ~readFails(q.stmt)
    BY <1>1, <1>12 DEF RequestInv, Judging
  <2>5. RequestInv(q, S, R)
    <3>1. PlanInv(q)
      BY <1>1, <1>12 DEF PlanInv, RequestInv
    <3> QED BY <1>1, <1>12, <2>2, <2>3, <2>4, <3>1, StageInv
  <2>6. QED BY <1>12, <2>5, BecomeInv DEF Live
<1>13. CASE \/ StartEvaluation(r) \/ Expire(r) \/ Acquire(r)
            \/ \E pl \in Plans : ExplainDone(r, pl)
  BY <1>0, <1>12, <1>13 DEF StartEvaluation, Expire, Acquire, ExplainDone, RequestType
<1>14. CASE GateTimeout(r) \/ ExplainFails(r)
  <2>1. PICK c \in {"gate", "eval"} :
           \E m : Pass(r, [o EXCEPT !.err = c], "allowed", m)
    BY <1>14 DEF GateTimeout, ExplainFails
  <2> DEFINE e == [o EXCEPT !.err = c]
  <2>2. o.pc \in {"acquire", "explain"} /\ Quiet
    BY <1>14 DEF GateTimeout, ExplainFails
  <2>3. \E p \in S : passesTier1(p, o)
    BY <1>1, <2>2 DEF RequestInv
  <2>4. e.err # "none" /\ e.stmt = o.stmt /\ e.plan = o.plan
    BY <1>0 DEF RequestType
  <2>5. allowedUnder(S, e)
    <3> HIDE DEF e
    <3>1. \E p \in S : passesTier1(p, e)
      BY <2>3, <2>4, SameVerdicts
    <3>2. QED BY <2>4, <3>1 DEF allowedUnder
  <2>6. QED BY <1>8, <2>1, <2>2, <2>5
<1>15. CASE CheckLimits(r)
  <2> DEFINE q == [o EXCEPT !.pc = "reject", !.reason = "COST_LIMIT_BREACH"]
  <2>0. o.pc = "limits" /\ Quiet /\ cfg \in S
    BY <1>2, <1>15 DEF CheckLimits, Live
  <2>1. o.plan \in Plans /\ \E p \in S : passesTier1(p, o)
    BY <1>1, <2>0 DEF RequestInv
  <2>2. CASE evaluateLimits(cfg, o.plan)
    <3>1. [o EXCEPT !.err = o.err] = o
      BY <1>0 DEF RequestType
    <3>2. allowedUnder(S, o)
      BY <2>0, <2>1, <2>2 DEF allowedUnder
    <3>3. \E m : Pass(r, o, "allowed", m)
      BY <1>15, <2>2 DEF CheckLimits
    <3>4. QED BY <1>8, <2>0, <3>1, <3>2, <3>3
  <2>3. CASE ~evaluateLimits(cfg, o.plan)
    <3>1. /\ q.pc = "reject" /\ q.reason = "COST_LIMIT_BREACH" /\ q.plan = o.plan
          /\ q.stmt = o.stmt
          /\ q.status = o.status /\ q.code = o.code
          /\ q.target = o.target /\ q.bytes = o.bytes /\ q.shadow = o.shadow
      BY <1>0 DEF RequestType
    <3>2. Become(r, q)
      BY <1>15, <2>3 DEF CheckLimits
    <3> HIDE DEF q
    <3>3. rejectedBy(cfg, q)
      BY <2>1, <2>3, <3>1 DEF rejectedBy
    <3>4. ~readFails(q.stmt)
      BY <1>1, <2>0, <3>1 DEF RequestInv, Judging
    <3>5. RequestInv(q, S, R)
      <4>1. PlanInv(q)
        BY <3>1 DEF PlanInv
      <4> QED BY <1>1, <2>0, <3>1, <3>3, <3>4, <4>1, StageInv
    <3>6. QED BY <2>0, <3>2, <3>5, BecomeInv DEF Live
  <2>4. QED BY <2>2, <2>3
<1>16. CASE Reject(r)
  <2> DEFINE q == [o EXCEPT !.pc = "done", !.status = "blocked", !.code = 400,
                            !.audit = auditLine(o.reason)]
  <2>0. o.pc = "reject" /\ Quiet /\ Become(r, q)
    BY <1>16 DEF Reject
  <2>1. /\ q.pc = "done" /\ q.status = "blocked" /\ q.stmt = o.stmt
        /\ q.plan = o.plan /\ q.reason = o.reason
        /\ q.target = o.target /\ q.bytes = o.bytes /\ q.shadow = o.shadow
    BY <1>0, ZenonT(60) DEF RequestType
  <2>2. q.target = "" /\ q.bytes = NoBytes
    BY <1>1, <2>0, <2>1 DEF RequestInv
  <2>3. q.shadow # "" => \E p \in S : p.upstream = q.shadow
    BY <1>1, <2>1 DEF RequestInv
  <2> HIDE DEF q
  <2>4. \E p \in S : rejectedBy(p, q)
    BY <1>1, <2>0, <2>1, SameVerdicts DEF RequestInv
  <2>5. audited(S, q)
    <3>1. q.audit = auditLine(q.reason) /\ cfg \in S
      BY <1>0, <1>2, <2>0, <2>1 DEF q, Live, RequestType
    <3>2. (q.plan \in Plans) <=> (q.reason = "COST_LIMIT_BREACH")
      <4>1. q.reason = "COST_LIMIT_BREACH" => q.plan \in Plans
        BY <2>4 DEF rejectedBy, Tier1Reasons
      <4>2. q.reason # "COST_LIMIT_BREACH" => q.plan = NoPlan
        BY <1>1, <2>0, <2>1 DEF PlanInv, RequestInv
      <4> QED BY <4>1, <4>2, ConstantsType
    <3>3. /\ q.audit # "none" <=> cfg.logRejections
          /\ q.audit = "snapshot" <=>
                cfg.logRejections /\ cfg.snapshotPlan /\ q.plan \in Plans
      BY <3>1, <3>2 DEF auditLine
    <3> QED BY <3>1, <3>3, Zenon DEF audited
  <2>6. q.pc \notin Judging
    BY <2>1 DEF Judging
  <2>7. RequestInv(q, S, R)
    <3>1. PlanInv(q)
      BY <2>1 DEF PlanInv
    <3> QED BY <2>1, <2>2, <2>3, <2>4, <2>5, <2>6, <3>1 DEF RequestInv
  <2>8. QED BY <2>0, <2>7, BecomeInv DEF Live
<1>17. CASE Forward(r)
  <2> DEFINE q == [o EXCEPT !.pc = "upstream", !.target = proxy,
                            !.bytes = forwardedBytes(o.stmt)]
  <2>0. o.pc = "forward" /\ Quiet /\ Become(r, q)
    BY <1>17 DEF Forward
  <2>1. /\ q.pc = "upstream" /\ q.status = o.status /\ q.stmt = o.stmt
        /\ q.plan = o.plan /\ q.err = o.err /\ q.code = o.code
        /\ q.target = proxy /\ q.shadow = o.shadow /\ q.bytes = forwardedBytes(q.stmt)
    BY <1>0 DEF RequestType
  <2>2. q.target \in R \intersect Dialable
    BY <1>2, <1>3, <2>0, <2>1 DEF Live
  <2>3. q.shadow # "" => \E p \in S : p.upstream = q.shadow
    BY <1>1, <2>1 DEF RequestInv
  <2>4. q.code = 0 /\ q.code # 400
    <3>1. o.code = 0
      BY <1>1, <2>0 DEF RequestInv
    <3>2. q.code = 0
      BY <2>1, <3>1, Zenon
    <3>3. QED BY <3>2
  <2> HIDE DEF q
  <2>5. q.status = "allowed" => allowedUnder(S, q)
    BY <1>1, <2>1, SameVerdicts DEF RequestInv
  <2>6. q.pc \notin Judging /\ (q.status = "allowed" => ~readFails(q.stmt))
    BY <1>1, <2>1 DEF Judging, RequestInv
  <2>7. RequestInv(q, S, R)
    <3>1. PlanInv(q)
      BY <2>1 DEF PlanInv
    <3> QED BY <2>1, <2>2, <2>3, <2>4, <2>5, <2>6, <3>1 DEF RequestInv
  <2>8. QED BY <2>0, <2>7, BecomeInv DEF Live
<1>18. CASE \/ \E code \in {200, 503} : ProbeReturns(r, code)
            \/ \E code \in {200, 502} : UpstreamAnswers(r, code)
  BY <1>7, <1>18 DEF ProbeReturns, UpstreamAnswers
<1>19. QED
  BY <1>4, <1>5, <1>6, <1>9, <1>10, <1>11, <1>13, <1>14, <1>15, <1>16, <1>17, <1>18
     DEF ServeAny, Serve

(* IndInv holds in every reachable state. *)
THEOREM Inductive == Spec => []IndInv
<1>1. Init => IndInv
  <2> SUFFICES ASSUME Init PROVE IndInv
    OBVIOUS
  <2>1. proxy \in Dialable
    BY DEF Init, HotInit
  <2>2. ASSUME NEW r \in Requests
        PROVE  InForce(r) /\ RequestInv(req[r], seen[r], routes[r])
    <3>1. req[r] = Idle
      BY DEF Init
    <3>2. RequestInv(Idle, seen[r], routes[r])
      BY DEF RequestInv, PlanInv, Idle, Judging
    <3>3. InForce(r)
      BY <3>1, IdleType DEF InForce, Live
    <3>4. QED BY <3>1, <3>2, <3>3
  <2>3. QED BY <2>1, <2>2 DEF IndInv
<1>2. TypeOK /\ IndInv /\ [Next]_vars => IndInv'
  <2> SUFFICES ASSUME TypeOK, IndInv, [Next]_vars PROVE IndInv'
    OBVIOUS
  <2>1. CASE UNCHANGED vars
    BY <2>1 DEF vars, IndInv, InForce, Live
  <2>2. CASE \/ \E p \in Policies : SetPolicy(p)
             \/ \E p \in installed : SwapProxy(p)
    BY <2>2, ReloadInv
  <2>3. CASE \E r \in Requests : ServeAny(r)
    BY <2>3, ServeInv
  <2>4. QED BY <2>1, <2>2, <2>3 DEF Next, ServeAny
<1>3. QED BY TypeCorrect, <1>1, <1>2, PTL DEF Spec

(* For any policies, statements and reload schedule: a 400 always names a  *)
(* rule of a policy in force during the request, and a rejected statement  *)
(* reaches no upstream.                                                    *)
THEOREM RejectionsJustified == Spec => []RejectionJustified
<1>1. IndInv => RejectionJustified
  BY DEF IndInv, RequestInv, RejectionJustified
<1>2. QED BY Inductive, <1>1, PTL

(* For any policies, statements and reload schedule: a statement counted   *)
(* as allowed was let through, tier by tier, by policies in force during   *)
(* its request or by a pre-flight that failed open.                        *)
THEOREM AllowancesJustified == Spec => []AllowJustified
<1>1. IndInv => AllowJustified
  BY DEF IndInv, RequestInv, AllowJustified
<1>2. QED BY Inductive, <1>1, PTL

(* Shadow and real requests only go to upstreams that were live during the *)
(* request.                                                                *)
THEOREM RoutesInForce == Spec => []RoutedInForce
<1>1. IndInv => RoutedInForce
  BY DEF IndInv, RequestInv, RoutedInForce
<1>2. QED BY Inductive, <1>1, PTL

(* For any policies and reload schedule, whichever reload falls before     *)
(* auditRejection: the audit line of a rejection and its plan snapshot, or *)
(* their absence, follow log_rejections and snapshot_plan of one policy in *)
(* force during the request.                                               *)
THEOREM AuditsFollowPolicy == Spec => []AuditFollowsPolicy
<1>1. IndInv => AuditFollowsPolicy
  BY DEF IndInv, RequestInv, AuditFollowsPolicy
<1>2. QED BY Inductive, <1>1, PTL

(* For any statements and body limit: a statement forwarded as allowed is  *)
(* forwarded whole, so what runs upstream is what both tiers judged.       *)
THEOREM JudgedStatementsAreWhole == Spec => []JudgedAsForwarded
<1>1. ASSUME IndInv, NEW r \in Requests, req[r].status = "allowed", req[r].bytes # NoBytes
      PROVE  req[r].bytes = req[r].stmt.len
  <2>1. ~readFails(req[r].stmt) /\ req[r].bytes = forwardedBytes(req[r].stmt)
    BY <1>1 DEF IndInv, RequestInv
  <2>2. QED BY <1>1, <2>1 DEF forwardedBytes
<1>2. IndInv => JudgedAsForwarded
  BY <1>1 DEF JudgedAsForwarded
<1>3. QED BY Inductive, <1>2, PTL

-----------------------------------------------------------------------------
(* The counters.                                                           *)

(* The requests that each counter stands for. *)
Ended(s) == {r \in Requests : req[r].status = s}

Refused == {r \in Requests : req[r].err = "gate"}

IsEvaluated(q) == q.err # "none" \/ (q.plan # NoPlan /\ q.pc # "limits")

Evaluated == {r \in Requests : IsEvaluated(req[r])}

(* What a request must satisfy for its next step to count it once: no      *)
(* outcome, error or plan is recorded before the stage that counts it, and *)
(* a request that was not rejected does not carry the answer of one.       *)
CountedOnce(q) ==
    /\ q.status # "none" \/ q.err # "none" => q.pc \in {"forward", "upstream", "done"}
    /\ q.plan # NoPlan => q.pc \in {"limits", "reject", "forward", "upstream", "done"}
    /\ q.pc \in {"forward", "upstream"} => q.status # "blocked"
    /\ q.pc = "probe" => q.stmt = NoStatement
    /\ q.pc = "done" /\ q.stmt # NoStatement =>
          (q.status = "blocked" <=> q.code = 400)

CountInv == Accounting /\ \A r \in Requests : CountedOnce(req[r])

(* How a step of one request moves the three families of counted sets. *)
LEMMA EndedStep ==
    ASSUME TypeOK, NEW r \in Requests, NEW q, Become(r, q), NEW s,
           req[r].status = s => q.status = s
    PROVE  Cardinality(Ended(s)') = Cardinality(Ended(s))
              + (IF q.status = s /\ req[r].status # s THEN 1 ELSE 0)
<1>1. IsFiniteSet(Ended(s))
  BY ConstantsType, FS_Subset DEF Ended
<1>2. Cardinality(Ended(s)) \in Nat
  BY <1>1, FS_CardinalityType
<1>3. CASE q.status = s /\ req[r].status # s
  <2>1. Ended(s)' = Ended(s) \union {r} /\ r \notin Ended(s)
    BY <1>3 DEF Ended, Become, TypeOK
  <2>2. QED BY <1>1, <1>2, <1>3, <2>1, FS_AddElement
<1>4. CASE ~(q.status = s /\ req[r].status # s)
  <2>1. Ended(s)' = Ended(s)
    BY <1>4 DEF Ended, Become, TypeOK
  <2>2. QED BY <1>2, <1>4, <2>1
<1>5. QED BY <1>3, <1>4

LEMMA RefusedStep ==
    ASSUME TypeOK, NEW r \in Requests, NEW q, Become(r, q),
           req[r].err = "gate" => q.err = "gate"
    PROVE  Cardinality(Refused') = Cardinality(Refused)
              + (IF q.err = "gate" /\ req[r].err # "gate" THEN 1 ELSE 0)
<1>1. IsFiniteSet(Refused)
  BY ConstantsType, FS_Subset DEF Refused
<1>2. Cardinality(Refused) \in Nat
  BY <1>1, FS_CardinalityType
<1>3. CASE q.err = "gate" /\ req[r].err # "gate"
  <2>1. Refused' = Refused \union {r} /\ r \notin Refused
    BY <1>3 DEF Refused, Become, TypeOK
  <2>2. QED BY <1>1, <1>2, <1>3, <2>1, FS_AddElement
<1>4. CASE ~(q.err = "gate" /\ req[r].err # "gate")
  <2>1. Refused' = Refused
    BY <1>4 DEF Refused, Become, TypeOK
  <2>2. QED BY <1>2, <1>4, <2>1
<1>5. QED BY <1>3, <1>4

LEMMA EvaluatedStep ==
    ASSUME TypeOK, NEW r \in Requests, NEW q, Become(r, q),
           IsEvaluated(req[r]) => IsEvaluated(q)
    PROVE  Cardinality(Evaluated') = Cardinality(Evaluated)
              + (IF IsEvaluated(q) /\ ~IsEvaluated(req[r]) THEN 1 ELSE 0)
<1>1. IsFiniteSet(Evaluated)
  BY ConstantsType, FS_Subset DEF Evaluated
<1>2. Cardinality(Evaluated) \in Nat
  BY <1>1, FS_CardinalityType
<1>3. \A k \in Requests : k # r => req'[k] = req[k]
  BY DEF Become, TypeOK
<1>4. req'[r] = q
  BY DEF Become, TypeOK
<1>5. CASE IsEvaluated(q) /\ ~IsEvaluated(req[r])
  <2>1. Evaluated' = Evaluated \union {r} /\ r \notin Evaluated
    BY <1>3, <1>4, <1>5 DEF Evaluated, IsEvaluated
  <2>2. QED BY <1>1, <1>2, <1>5, <2>1, FS_AddElement
<1>6. CASE ~(IsEvaluated(q) /\ ~IsEvaluated(req[r]))
  <2>1. Evaluated' = Evaluated
    BY <1>3, <1>4, <1>6 DEF Evaluated, IsEvaluated
  <2>2. QED BY <1>2, <1>6, <2>1
<1>7. QED BY <1>5, <1>6

(* A step of r that moves the counters by what it adds to the sets. *)
LEMMA CountStep ==
    ASSUME TypeOK, CountInv, NEW r \in Requests, NEW q, Become(r, q), CountedOnce(q),
           req[r].status \in {"none", q.status}, req[r].err \in {"none", q.err},
           IsEvaluated(req[r]) => IsEvaluated(q),
           \A s \in QueryStatus :
              metrics'[s] = metrics[s]
                 + (IF q.status = s /\ req[r].status # s THEN 1 ELSE 0),
           metrics'["preflightRejected"] = metrics["preflightRejected"]
              + (IF q.err = "gate" /\ req[r].err # "gate" THEN 1 ELSE 0),
           metrics'["preflights"] = metrics["preflights"]
              + (IF IsEvaluated(q) /\ ~IsEvaluated(req[r]) THEN 1 ELSE 0)
    PROVE  CountInv'
<1>1. \A k \in Requests : CountedOnce(req'[k])
  BY DEF CountInv, Become, TypeOK
<1>2. \A s \in QueryStatus : metrics'[s] = Cardinality(Ended(s)')
  <2> SUFFICES ASSUME NEW s \in QueryStatus PROVE metrics'[s] = Cardinality(Ended(s)')
    OBVIOUS
  <2>1. metrics[s] = Cardinality(Ended(s))
    BY DEF CountInv, Accounting, Ended
  <2>2. req[r].status = s => q.status = s
    BY DEF QueryStatus
  <2>3. QED BY <2>1, <2>2, EndedStep
<1>3. metrics'["preflightRejected"] = Cardinality(Refused')
  <2>1. metrics["preflightRejected"] = Cardinality(Refused)
    BY DEF CountInv, Accounting, Refused
  <2>2. QED BY <2>1, RefusedStep
<1>4. metrics'["preflights"] = Cardinality(Evaluated')
  <2>1. metrics["preflights"] = Cardinality(Evaluated)
    BY DEF CountInv, Accounting, Evaluated, IsEvaluated, At
  <2>2. QED BY <2>1, EvaluatedStep
<1>5. \A k \in Requests : req'[k].pc = "done" /\ req'[k].stmt # NoStatement =>
         (req'[k].status = "blocked") = (req'[k].code = 400)
  BY <1>1 DEF CountedOnce
<1>6. Accounting'
  BY <1>2, <1>3, <1>4, <1>5 DEF Accounting, Ended, Refused, Evaluated, IsEvaluated, At
<1>7. QED BY <1>1, <1>6 DEF CountInv

(* A counter after an addition. *)
LEMMA AddValue ==
    ASSUME NEW m \in [Counters -> Nat], NEW c \in Counters, NEW n, NEW d \in Counters
    PROVE  Add(m, c, n)[d] = IF d = c THEN m[d] + n ELSE m[d]
BY DEF Add

(* Every step of a request counts it when, and only when, it ends. *)
LEMMA ServeCounts ==
    ASSUME TypeOK, CountInv, PlanKnown, NEW r \in Requests, ServeAny(r)
    PROVE  CountInv'
<1> DEFINE o == req[r]
<1>0. o \in RequestType /\ metrics \in [Counters -> Nat]
  BY DEF TypeOK
<1>1. CountedOnce(o)
  BY DEF CountInv
<1>c. /\ QueryStatus \subseteq Counters
      /\ {"preflights", "preflightRejected", "noTableEstimates", "blockedBytes",
          "blocked", "allowed", "bypassed"} \subseteq Counters
      /\ {"preflights", "preflightRejected", "noTableEstimates", "blockedBytes"}
            \intersect QueryStatus = {}
      /\ {"allowed", "blocked", "bypassed"} \subseteq QueryStatus
      /\ "none" \notin QueryStatus
  BY DEF QueryStatus, Counters
<1>2. ASSUME NEW q, Become(r, q), UNCHANGED metrics, CountedOnce(q),
             q.status = o.status, q.err = o.err, IsEvaluated(q) <=> IsEvaluated(o)
      PROVE  CountInv'
  <2>1. /\ \A s \in QueryStatus : metrics[s] \in Nat
        /\ metrics["preflightRejected"] \in Nat /\ metrics["preflights"] \in Nat
    BY <1>0, <1>c
  <2>2. QED BY <1>2, <2>1, CountStep
<1>a. ASSUME NEW q, Arrive(r, q), q.status = "none", q.err = "none", q.plan = NoPlan,
             q.pc \in {"forward", "done", "probe", "read"},
             q.pc \in {"done", "probe"} => q.stmt = NoStatement
      PROVE  CountInv'
  <2>1. o.pc = "idle" /\ Become(r, q) /\ UNCHANGED metrics
    BY <1>a DEF Arrive, At
  <2>2. o.status = "none" /\ o.err = "none" /\ o.plan = NoPlan
    BY <1>1, <2>1 DEF CountedOnce
  <2>3. CountedOnce(q)
    BY <1>a DEF CountedOnce
  <2>4. ~IsEvaluated(q) /\ ~IsEvaluated(o)
    BY <1>a, <2>2 DEF IsEvaluated
  <2>5. QED BY <1>2, <1>a, <2>1, <2>2, <2>3, <2>4
<1>3. CASE \/ \E s \in Statements : ArriveStatement(r, s)
           \/ ArriveOther(r) \/ ArriveMetrics(r) \/ ArriveHealthz(r) \/ ArriveReadyz(r)
  <2>1. CASE \E s \in Statements : ArriveStatement(r, s)
    BY <1>a, <2>1 DEF ArriveStatement, Idle
  <2>2. CASE ArriveOther(r) \/ ArriveHealthz(r)
    BY <1>a, <2>2 DEF ArriveOther, ArriveHealthz, Idle
  <2>3. CASE ArriveMetrics(r)
    <3>1. \/ Arrive(r, [Idle EXCEPT !.pc = "done", !.code = 200])
          \/ Arrive(r, [Idle EXCEPT !.pc = "forward"])
      BY <2>3 DEF ArriveMetrics
    <3>2. QED BY <1>a, <3>1 DEF Idle
  <2>4. CASE ArriveReadyz(r)
    BY <1>a, <2>4 DEF ArriveReadyz, Idle
  <2>5. QED BY <1>3, <2>1, <2>2, <2>3, <2>4
<1>4. CASE \/ \E code \in {200, 503} : ProbeReturns(r, code)
           \/ \E code \in {200, 502} : UpstreamAnswers(r, code)
  <2>1. PICK code \in {200, 502, 503} :
           Become(r, [o EXCEPT !.pc = "done", !.code = code])
    BY <1>4 DEF ProbeReturns, UpstreamAnswers
  <2> DEFINE q == [o EXCEPT !.pc = "done", !.code = code]
  <2>2. o.pc \in {"probe", "upstream"} /\ UNCHANGED metrics
    BY <1>4 DEF ProbeReturns, UpstreamAnswers, At
  <2>3. /\ q.pc = "done" /\ q.code = code /\ q.status = o.status /\ q.err = o.err
        /\ q.plan = o.plan /\ q.stmt = o.stmt
    BY <1>0 DEF RequestType
  <2> HIDE DEF q
  <2>4. CountedOnce(q)
    <3>1. q.code # 400
      BY <2>3
    <3>2. q.stmt = NoStatement \/ q.status # "blocked"
      BY <1>1, <2>2, <2>3 DEF CountedOnce
    <3>3. QED BY <2>3, <3>1, <3>2 DEF CountedOnce
  <2>5. IsEvaluated(q) <=> IsEvaluated(o)
    BY <2>2, <2>3 DEF IsEvaluated
  <2>6. QED BY <1>2, <2>1, <2>2, <2>3, <2>4, <2>5 DEF q
<1>5. ASSUME NEW q, Become(r, q), UNCHANGED metrics,
             o.pc \in {"read", "tier1", "preflight", "evaluate", "acquire", "explain"},
             q.pc \in {"tier1", "preflight", "evaluate", "acquire", "explain", "limits",
                       "reject"},
             q.status = o.status, q.err = o.err, q.plan = o.plan \/ q.pc = "limits"
      PROVE  CountInv'
  <2>1. o.status = "none" /\ o.err = "none" /\ o.plan = NoPlan
    BY <1>1, <1>5 DEF CountedOnce
  <2>2. CountedOnce(q)
    BY <1>5, <2>1 DEF CountedOnce
  <2>3. ~IsEvaluated(q) /\ ~IsEvaluated(o)
    BY <1>5, <2>1 DEF IsEvaluated
  <2>4. QED BY <1>2, <1>5, <2>2, <2>3
<1>6. CASE \/ StartEvaluation(r) \/ Expire(r) \/ Acquire(r)
           \/ \E pl \in Plans : ExplainDone(r, pl)
  BY <1>0, <1>5, <1>6 DEF StartEvaluation, Expire, Acquire, ExplainDone, At, RequestType
<1>7. CASE Tier1Check(r)
  <2> DEFINE v == tier1(cfg, Analyze(o.stmt))
             q == [o EXCEPT !.reason = v,
                            !.pc = IF v = "ALLOW" THEN "preflight" ELSE "reject"]
  <2>1. o.pc = "tier1" /\ Become(r, q) /\ UNCHANGED metrics
    BY <1>7 DEF Tier1Check, At
  <2> HIDE DEF v
  <2>2. /\ q.pc \in {"preflight", "reject"} /\ q.status = o.status /\ q.err = o.err
        /\ q.plan = o.plan
    BY <1>0 DEF RequestType
  <2>3. QED BY <1>5, <2>1, <2>2
<1>8. ASSUME NEW s \in {"allowed", "bypassed"}, NEW e, NEW m \in [Counters -> Nat],
             Pass(r, e, s, m), o.status = "none", o.err = "none", ~IsEvaluated(o),
             e \in RequestType,
             e.stmt = o.stmt, \A t \in QueryStatus : m[t] = metrics[t],
             m["preflightRejected"]
                = metrics["preflightRejected"] + (IF e.err = "gate" THEN 1 ELSE 0),
             m["preflights"] = metrics["preflights"]
                + (IF e.err # "none" \/ e.plan # NoPlan THEN 1 ELSE 0)
      PROVE  CountInv'
  <2> DEFINE q == [e EXCEPT !.pc = "forward", !.status = s]
  <2>1. q.pc = "forward" /\ q.status = s /\ q.err = e.err /\ q.plan = e.plan
    BY <1>8 DEF RequestType
  <2>2. Become(r, q) /\ metrics' = Add(m, s, 1)
    BY <1>8 DEF Pass
  <2> HIDE DEF q
  <2>3. CountedOnce(q)
    BY <1>8, <2>1 DEF CountedOnce
  <2>4. IsEvaluated(q) <=> (e.err # "none" \/ e.plan # NoPlan)
    BY <2>1 DEF IsEvaluated
  <2>5. \A t \in QueryStatus : metrics'[t] = metrics[t] + (IF q.status = t /\ o.status # t
                                                           THEN 1 ELSE 0)
    <3> SUFFICES ASSUME NEW t \in QueryStatus
                 PROVE  metrics'[t] = metrics[t] + (IF q.status = t /\ o.status # t
                                                    THEN 1 ELSE 0)
      OBVIOUS
    <3>1. metrics'[t] = IF t = s THEN m[t] + 1 ELSE m[t]
      BY <1>c, <1>8, <2>2, AddValue
    <3>2. metrics[t] \in Nat
      BY <1>0, <1>c
    <3>3. QED BY <1>8, <1>c, <2>1, <3>1, <3>2
  <2>6. /\ metrics'["preflightRejected"] = m["preflightRejected"]
        /\ metrics'["preflights"] = m["preflights"]
    BY <1>c, <1>8, <2>2, AddValue
  <2>7. QED BY <1>8, <2>1, <2>2, <2>3, <2>4, <2>5, <2>6, CountStep
<1>9. CASE ReadBody(r) \/ ShouldPreflight(r)
  <2>1. o.status = "none" /\ o.err = "none" /\ o.plan = NoPlan
    BY <1>1, <1>9 DEF CountedOnce, ReadBody, ShouldPreflight, At
  <2>2. ~IsEvaluated(o)
    BY <2>1 DEF IsEvaluated
  <2>3. CASE \E s \in {"allowed", "bypassed"} : Pass(r, o, s, metrics)
    <3>1. metrics["preflights"] \in Nat /\ metrics["preflightRejected"] \in Nat
      BY <1>0, <1>c
    <3>2. QED BY <1>0, <1>8, <2>1, <2>2, <2>3, <3>1
  <2>4. CASE Become(r, [o EXCEPT !.pc = "tier1"]) /\ UNCHANGED metrics
    BY <1>0, <1>5, <1>9, <2>4 DEF ReadBody, ShouldPreflight, At, RequestType
  <2>5. CASE Become(r, [o EXCEPT !.pc = "evaluate"]) /\ UNCHANGED metrics
    BY <1>0, <1>5, <1>9, <2>5 DEF ReadBody, ShouldPreflight, At, RequestType
  <2>6. QED BY <1>9, <2>3, <2>4, <2>5 DEF ReadBody, ShouldPreflight
<1>10. CASE GateTimeout(r)
  <2> DEFINE p == Add(metrics, "preflights", 1)
             m == Add(p, "preflightRejected", 1)
             e == [o EXCEPT !.err = "gate"]
  <2>1. o.pc = "acquire" /\ Pass(r, e, "allowed", m)
    BY <1>10 DEF GateTimeout, At
  <2>2. o.status = "none" /\ o.err = "none" /\ o.plan = NoPlan
    BY <1>1, <2>1 DEF CountedOnce
  <2>3. p \in [Counters -> Nat] /\ m \in [Counters -> Nat]
    BY <1>0, <1>c, AddType
  <2>4. \A d \in Counters : /\ p[d] = IF d = "preflights" THEN metrics[d] + 1 ELSE metrics[d]
                            /\ m[d] = IF d = "preflightRejected" THEN p[d] + 1 ELSE p[d]
    BY <1>0, <1>c, <2>3, AddValue
  <2>5. e.err = "gate" /\ e.stmt = o.stmt /\ e \in RequestType
    BY <1>0 DEF RequestType
  <2>6. ~IsEvaluated(o)
    BY <2>2 DEF IsEvaluated
  <2> HIDE DEF p, m, e
  <2>7. QED BY <1>c, <1>8, <2>1, <2>2, <2>3, <2>4, <2>5, <2>6
<1>11. CASE ExplainFails(r)
  <2> DEFINE m == Add(metrics, "preflights", 1)
             e == [o EXCEPT !.err = "eval"]
  <2>1. o.pc = "explain" /\ Pass(r, e, "allowed", m)
    BY <1>11 DEF ExplainFails, At
  <2>2. o.status = "none" /\ o.err = "none" /\ o.plan = NoPlan
    BY <1>1, <2>1 DEF CountedOnce
  <2>3. m \in [Counters -> Nat]
    BY <1>0, <1>c, AddType
  <2>4. \A d \in Counters : m[d] = IF d = "preflights" THEN metrics[d] + 1 ELSE metrics[d]
    BY <1>0, <1>c, AddValue
  <2>5. e.err = "eval" /\ e.stmt = o.stmt /\ e \in RequestType
    BY <1>0 DEF RequestType
  <2>6. ~IsEvaluated(o) /\ metrics["preflightRejected"] \in Nat
    BY <1>0, <1>c, <2>2 DEF IsEvaluated
  <2> HIDE DEF m, e
  <2>7. QED BY <1>c, <1>8, <2>1, <2>2, <2>3, <2>4, <2>5, <2>6
<1>12. CASE CheckLimits(r)
  <2> DEFINE plan == o.plan
             m == evaluated(plan)
             n == Add(m, "blockedBytes", blockedBytes(plan))
             q == [o EXCEPT !.pc = "reject", !.reason = "COST_LIMIT_BREACH"]
  <2>1. o.pc = "limits" /\ plan \in Plans /\ plan # NoPlan
    BY <1>12, ConstantsType DEF CheckLimits, At, PlanKnown
  <2>2. o.status = "none" /\ o.err = "none" /\ ~IsEvaluated(o)
    BY <1>1, <2>1 DEF CountedOnce, IsEvaluated
  <2>3. m \in [Counters -> Nat]
    BY <1>0, <1>c, AddType DEF evaluated
  <2>4. \A d \in Counters \ {"noTableEstimates"} :
           m[d] = IF d = "preflights" THEN metrics[d] + 1 ELSE metrics[d]
    <3>1. Add(metrics, "preflights", 1) \in [Counters -> Nat]
      BY <1>0, <1>c, AddType
    <3>2. QED BY <1>0, <1>c, <3>1, AddValue DEF evaluated
  <2>5. metrics["preflightRejected"] \in Nat /\ metrics["preflights"] \in Nat
    BY <1>0, <1>c
  <2>6. CASE evaluateLimits(cfg, plan)
    <3>1. Pass(r, o, "allowed", m)
      BY <1>12, <2>6 DEF CheckLimits
    <3> HIDE DEF m
    <3>2. QED BY <1>0, <1>c, <1>8, <2>1, <2>2, <2>3, <2>4, <2>5, <3>1
  <2>7. CASE ~evaluateLimits(cfg, plan)
    <3>1. Become(r, q) /\ metrics' = n
      BY <1>12, <2>7 DEF CheckLimits
    <3>2. q.pc = "reject" /\ q.status = o.status /\ q.err = o.err /\ q.plan = plan
      BY <1>0 DEF RequestType
    <3> HIDE DEF m, q, plan
    <3>3. \A d \in Counters \ {"noTableEstimates", "blockedBytes"} :
             metrics'[d] = IF d = "preflights" THEN metrics[d] + 1 ELSE metrics[d]
      BY <1>c, <2>3, <2>4, <3>1, AddValue
    <3>4. CountedOnce(q) /\ IsEvaluated(q)
      BY <2>1, <2>2, <3>2 DEF CountedOnce, IsEvaluated
    <3>5. \A s \in QueryStatus : metrics'[s] = metrics[s] /\ metrics[s] \in Nat
      BY <1>0, <1>c, <3>3
    <3>6. QED BY <1>c, <2>2, <2>5, <3>1, <3>2, <3>3, <3>4, <3>5, CountStep
  <2>8. QED BY <2>6, <2>7
<1>13. CASE Reject(r)
  <2> DEFINE q == [o EXCEPT !.pc = "done", !.status = "blocked", !.code = 400,
                            !.audit = auditLine(o.reason)]
  <2>1. o.pc = "reject" /\ Become(r, q) /\ metrics' = Add(metrics, "blocked", 1)
    BY <1>13 DEF Reject, At
  <2>2. /\ q.pc = "done" /\ q.status = "blocked" /\ q.code = 400 /\ q.err = o.err
        /\ q.plan = o.plan
    BY <1>0 DEF RequestType
  <2> HIDE DEF q
  <2>3. o.status = "none" /\ o.err = "none"
    BY <1>1, <2>1 DEF CountedOnce
  <2>4. CountedOnce(q) /\ (IsEvaluated(q) <=> IsEvaluated(o))
    BY <2>1, <2>2, <2>3 DEF CountedOnce, IsEvaluated
  <2>5. \A d \in Counters : metrics'[d] = metrics[d] + (IF d = "blocked" THEN 1 ELSE 0)
    <3>1. \A d \in Counters : metrics[d] \in Nat
      BY <1>0
    <3>2. QED BY <1>0, <1>c, <2>1, <3>1, AddValue
  <2>6. QED BY <1>c, <2>1, <2>2, <2>3, <2>4, <2>5, CountStep
<1>14. CASE Forward(r)
  <2> DEFINE q == [o EXCEPT !.pc = "upstream", !.target = proxy,
                            !.bytes = forwardedBytes(o.stmt)]
  <2>1. o.pc = "forward" /\ Become(r, q) /\ UNCHANGED metrics
    BY <1>14 DEF Forward, At
  <2>2. /\ q.pc = "upstream" /\ q.status = o.status /\ q.err = o.err /\ q.plan = o.plan
        /\ q.stmt = o.stmt
    BY <1>0 DEF RequestType
  <2> HIDE DEF q
  <2>3. CountedOnce(q) /\ (IsEvaluated(q) <=> IsEvaluated(o))
    BY <1>1, <2>1, <2>2 DEF CountedOnce, IsEvaluated
  <2>4. QED BY <1>2, <2>1, <2>2, <2>3
<1>15. QED
  BY <1>3, <1>4, <1>6, <1>7, <1>9, <1>10, <1>11, <1>12, <1>13, <1>14 DEF ServeAny, Serve

(* For any number of requests: queries_total and the pre-flight counters   *)
(* are exact at every moment, each answered statement being counted once   *)
(* and under the outcome its client saw.                                   *)
THEOREM CountersExact == Spec => []Accounting
<1>1. Init => CountInv
  <2> SUFFICES ASSUME Init PROVE CountInv
    OBVIOUS
  <2>1. \A r \in Requests : req[r] = Idle
    BY DEF Init
  <2>2. /\ Idle.status = "none" /\ Idle.err = "none" /\ Idle.plan = NoPlan
        /\ Idle.pc = "idle"
    BY DEF Idle
  <2>3. Refused = {} /\ Evaluated = {} /\ \A s \in QueryStatus : Ended(s) = {}
    BY <2>1, <2>2 DEF Refused, Evaluated, IsEvaluated, Ended, QueryStatus
  <2>4. \A c \in Counters : metrics[c] = 0
    BY DEF Init
  <2>5. Accounting
    BY <2>1, <2>2, <2>3, <2>4, FS_EmptySet
       DEF Accounting, Refused, Evaluated, IsEvaluated, Ended, At, Counters, QueryStatus
  <2>6. CountedOnce(Idle)
    BY <2>2 DEF CountedOnce
  <2>7. QED BY <2>1, <2>5, <2>6 DEF CountInv
<1>2. TypeOK /\ PlanKnown /\ CountInv /\ [Next]_vars => CountInv'
  <2> SUFFICES ASSUME TypeOK, PlanKnown, CountInv, [Next]_vars PROVE CountInv'
    OBVIOUS
  <2>1. CASE req' = req /\ metrics' = metrics
    BY <2>1 DEF CountInv, Accounting, At
  <2>2. CASE \E r \in Requests : ServeAny(r)
    BY <2>2, ServeCounts
  <2>3. QED BY <2>1, <2>2 DEF Next, ServeAny, SetPolicy, SwapProxy, vars
<1>3. TypeOK /\ PlanKnown /\ [Next]_vars => (TypeOK /\ PlanKnown)'
  BY NextType
<1>4. CountInv => Accounting
  BY DEF CountInv
<1>5. QED BY InitType, <1>1, <1>2, <1>3, <1>4, PTL DEF Spec

-----------------------------------------------------------------------------
(* The blocked bytes.                                                      *)

(* A request carries the reason of a cost rejection only from the step     *)
(* that counts its bytes on, so no second step can count them again.       *)
CostOnce(q) == q.reason = "COST_LIMIT_BREACH" => q.pc \in {"reject", "done"}

BlockedInv ==
    /\ BlockedBytesExact
    /\ IsFiniteSet(BlockedBytes)
    /\ \A r \in Requests : CostOnce(req[r])

(* A byte is blocked when its request was rejected for its cost. *)
LEMMA BlockedMember ==
    ASSUME NEW x
    PROVE  x \in BlockedBytes <=>
             \E k \in Requests : /\ req[k].reason = "COST_LIMIT_BREACH"
                                /\ x \in {k} \X (1 .. req[k].plan.scanBytes)
BY DEF BlockedBytes

(* A step that neither adds a cost rejection nor changes its plan. *)
LEMMA BlockedKept ==
    ASSUME TypeOK, BlockedInv, NEW r \in Requests, NEW q, Become(r, q), CostOnce(q),
           q.reason = "COST_LIMIT_BREACH" <=> req[r].reason = "COST_LIMIT_BREACH",
           q.plan = req[r].plan \/ q.reason # "COST_LIMIT_BREACH",
           metrics'["blockedBytes"] = metrics["blockedBytes"]
    PROVE  BlockedInv'
<1>1. /\ \A k \in Requests : k # r => req'[k] = req[k]
      /\ req'[r] = q
  BY DEF Become, TypeOK
<1>2. BlockedBytes' = BlockedBytes
  BY <1>1 DEF BlockedBytes
<1>3. \A k \in Requests : CostOnce(req'[k])
  BY <1>1 DEF BlockedInv
<1>4. BlockedBytesExact'
  BY <1>2 DEF BlockedInv, BlockedBytesExact
<1>5. QED BY <1>2, <1>3, <1>4 DEF BlockedInv

(* A cost rejection adds the positive estimate of its plan, once. *)
LEMMA BlockedAdded ==
    ASSUME TypeOK, BlockedInv, NEW r \in Requests, NEW q, Become(r, q), CostOnce(q),
           req[r].reason # "COST_LIMIT_BREACH", q.reason = "COST_LIMIT_BREACH",
           q.plan \in Plans,
           metrics'["blockedBytes"] = metrics["blockedBytes"] + blockedBytes(q.plan)
    PROVE  BlockedInv'
<1> DEFINE n == q.plan.scanBytes
           new == {r} \X (1 .. n)
<1>0. n \in Int
  BY ConstantsType
<1>1. /\ \A k \in Requests : k # r => req'[k] = req[k]
      /\ req'[r] = q
  BY DEF Become, TypeOK
<1>2. BlockedBytes' = BlockedBytes \union new
  <2> HIDE DEF new
  <2>1. ASSUME NEW x PROVE x \in BlockedBytes' <=> x \in BlockedBytes \/ x \in new
    <3>1. x \in BlockedBytes' <=>
             \E k \in Requests : /\ req'[k].reason = "COST_LIMIT_BREACH"
                                /\ x \in {k} \X (1 .. req'[k].plan.scanBytes)
      BY DEF BlockedBytes
    <3>2. QED BY <1>1, <3>1, BlockedMember DEF new
  <2>2. QED BY <2>1
<1>3. BlockedBytes \intersect new = {}
  <2>1. ASSUME NEW x, x \in BlockedBytes, x \in new PROVE FALSE
    <3>1. PICK k \in Requests : /\ req[k].reason = "COST_LIMIT_BREACH"
                                /\ x \in {k} \X (1 .. req[k].plan.scanBytes)
      BY <2>1, BlockedMember
    <3>2. x[1] = k /\ x[1] = r
      BY <2>1, <3>1
    <3>3. QED BY <3>1, <3>2
  <2>2. QED BY <2>1
<1>4. IsFiniteSet(1 .. n) /\ Cardinality(1 .. n) = blockedBytes(q.plan)
  BY <1>0, FS_Interval DEF blockedBytes
<1>5. IsFiniteSet({r}) /\ Cardinality({r}) = 1
  BY FS_Singleton
<1>6. IsFiniteSet(new) /\ Cardinality(new) = blockedBytes(q.plan)
  <2>1. blockedBytes(q.plan) \in Nat
    BY <1>0 DEF blockedBytes
  <2>2. /\ IsFiniteSet(new)
        /\ Cardinality(new) = Cardinality({r}) * Cardinality(1 .. n)
    BY <1>4, <1>5, FS_Product
  <2>3. QED BY <1>4, <1>5, <2>1, <2>2
<1> HIDE DEF new, n
<1>7. /\ IsFiniteSet(BlockedBytes')
      /\ Cardinality(BlockedBytes') = Cardinality(BlockedBytes) + blockedBytes(q.plan)
  <2>1. IsFiniteSet(BlockedBytes)
    BY DEF BlockedInv
  <2>2. Cardinality(BlockedBytes) \in Nat /\ Cardinality(new) \in Nat
    BY <1>6, <2>1, FS_CardinalityType
  <2>3. Cardinality(BlockedBytes \intersect new) = 0
    BY <1>3, FS_EmptySet
  <2>4. /\ IsFiniteSet(BlockedBytes \union new)
        /\ Cardinality(BlockedBytes \union new)
              = Cardinality(BlockedBytes) + Cardinality(new)
                   - Cardinality(BlockedBytes \intersect new)
    BY <1>6, <2>1, FS_Union
  <2>5. QED BY <1>2, <1>6, <2>2, <2>3, <2>4
<1>8. \A k \in Requests : CostOnce(req'[k])
  BY <1>1 DEF BlockedInv
<1>9. BlockedBytesExact'
  BY <1>7 DEF BlockedInv, BlockedBytesExact
<1>10. QED BY <1>7, <1>8, <1>9 DEF BlockedInv

(* The other counters leave the blocked bytes alone. *)
LEMMA AddElsewhere ==
    ASSUME NEW m \in [Counters -> Nat], NEW c \in Counters, c # "blockedBytes",
           NEW n \in Nat
    PROVE  /\ Add(m, c, n) \in [Counters -> Nat]
           /\ Add(m, c, n)["blockedBytes"] = m["blockedBytes"]
<1>1. Add(m, c, n) \in [Counters -> Nat]
  BY AddType
<1>2. "blockedBytes" \in Counters
  BY DEF Counters
<1>3. QED BY <1>1, <1>2 DEF Add

(* Only CheckLimits adds blocked bytes, and only with a new rejection. *)
LEMMA ServeBlocked ==
    ASSUME TypeOK, BlockedInv, PlanKnown, NEW r \in Requests, ServeAny(r)
    PROVE  BlockedInv'
<1> DEFINE o == req[r]
           cost == "COST_LIMIT_BREACH"
<1>0. o \in RequestType /\ metrics \in [Counters -> Nat] /\ CostOnce(o)
  BY DEF TypeOK, BlockedInv
<1>c. {"allowed", "blocked", "bypassed", "preflights", "preflightRejected",
       "noTableEstimates", "blockedBytes"} \subseteq Counters
  BY DEF Counters, QueryStatus
<1>1. ASSUME NEW q, Become(r, q), o.pc \notin {"reject", "done"}, q.reason # cost,
             metrics'["blockedBytes"] = metrics["blockedBytes"]
      PROVE  BlockedInv'
  BY <1>0, <1>1, BlockedKept DEF CostOnce
<1>2. ASSUME NEW q \in RequestType, q.reason # cost, NEW s \in QueryStatus,
             NEW m \in [Counters -> Nat], m["blockedBytes"] = metrics["blockedBytes"],
             o.pc \notin {"reject", "done"}, Pass(r, q, s, m)
      PROVE  BlockedInv'
  <2> DEFINE p == [q EXCEPT !.pc = "forward", !.status = s]
  <2>1. Become(r, p) /\ p.reason = q.reason /\ metrics' = Add(m, s, 1)
    BY <1>2 DEF Pass, RequestType
  <2>2. metrics'["blockedBytes"] = metrics["blockedBytes"]
    <3>1. s # "blockedBytes" /\ s \in Counters
      BY DEF QueryStatus, Counters
    <3>2. QED BY <1>2, <1>c, <2>1, <3>1, AddValue
  <2> HIDE DEF p
  <2>3. QED BY <1>1, <1>2, <2>1, <2>2
<1>3. ASSUME NEW q, q.reason # cost, Arrive(r, q) PROVE BlockedInv'
  BY <1>1, <1>3 DEF Arrive, At
<1>4. CASE \/ \E s \in Statements : ArriveStatement(r, s)
           \/ ArriveOther(r) \/ ArriveMetrics(r) \/ ArriveHealthz(r) \/ ArriveReadyz(r)
  <2>1. /\ \A s : [Idle EXCEPT !.pc = "read", !.stmt = s].reason # cost
        /\ \A c, u : [Idle EXCEPT !.pc = c, !.shadow = u].reason # cost
        /\ \A c, u : [Idle EXCEPT !.pc = c, !.code = u].reason # cost
        /\ \A c : [Idle EXCEPT !.pc = c].reason # cost
    BY DEF Idle
  <2>2. CASE ArriveMetrics(r)
    BY <1>3, <2>1, <2>2 DEF ArriveMetrics
  <2>3. QED BY <1>3, <1>4, <2>1, <2>2
           DEF ArriveStatement, ArriveOther, ArriveHealthz, ArriveReadyz
<1>5. CASE \/ \E code \in {200, 503} : ProbeReturns(r, code)
           \/ \E code \in {200, 502} : UpstreamAnswers(r, code)
           \/ StartEvaluation(r) \/ Expire(r) \/ Acquire(r) \/ Forward(r)
           \/ \E pl \in Plans : ExplainDone(r, pl)
  <2>1. UNCHANGED metrics /\ o.pc \notin {"reject", "done"}
    BY <1>5 DEF ProbeReturns, UpstreamAnswers, StartEvaluation,
                Expire, Acquire, Forward, ExplainDone, At
  <2>2. o.reason # cost
    BY <1>0, <2>1 DEF CostOnce
  <2>3. ASSUME NEW q, Become(r, q), q.reason = o.reason PROVE BlockedInv'
    BY <1>1, <2>1, <2>2, <2>3
  <2>4. CASE \/ \E code \in {200, 503} : ProbeReturns(r, code)
             \/ \E code \in {200, 502} : UpstreamAnswers(r, code)
    <3>1. \A c : [o EXCEPT !.pc = "done", !.code = c].reason = o.reason
      BY <1>0 DEF RequestType
    <3>2. \E c : Become(r, [o EXCEPT !.pc = "done", !.code = c])
      BY <2>4 DEF ProbeReturns, UpstreamAnswers
    <3>3. QED BY <2>3, <3>1, <3>2
  <2>5. CASE StartEvaluation(r)
    BY <1>0, <2>3, <2>5 DEF StartEvaluation, RequestType
  <2>6. CASE Expire(r)
    BY <1>0, <2>3, <2>6 DEF Expire, RequestType
  <2>7. CASE Acquire(r)
    BY <1>0, <2>3, <2>7 DEF Acquire, RequestType
  <2>8. CASE Forward(r)
    BY <1>0, <2>3, <2>8 DEF Forward, RequestType
  <2>9. ASSUME NEW pl \in Plans, ExplainDone(r, pl) PROVE BlockedInv'
    BY <1>0, <2>3, <2>9 DEF ExplainDone, RequestType
  <2>10. QED BY <1>5, <2>4, <2>5, <2>6, <2>7, <2>8, <2>9
<1>6. CASE Tier1Check(r)
  <2> DEFINE verdict == tier1(cfg, Analyze(o.stmt))
             q == [o EXCEPT !.reason = verdict,
                            !.pc = IF verdict = "ALLOW" THEN "preflight" ELSE "reject"]
  <2>1. verdict # cost
    BY Tier1Type DEF Tier1Reasons
  <2>2. Become(r, q) /\ UNCHANGED metrics /\ o.pc = "tier1"
    BY <1>6 DEF Tier1Check, At
  <2>3. q.reason = verdict
    BY <1>0 DEF RequestType
  <2> HIDE DEF verdict, q
  <2>4. QED BY <1>1, <2>1, <2>2, <2>3
<1>7. CASE ReadBody(r) \/ ShouldPreflight(r)
  <2>1. o.pc \in {"read", "preflight"} /\ o.reason # cost
    BY <1>0, <1>7 DEF CostOnce, ReadBody, ShouldPreflight, At
  <2>2. CASE \E s \in {"allowed", "bypassed"} : Pass(r, o, s, metrics)
    BY <1>0, <1>2, <2>1, <2>2 DEF QueryStatus
  <2>3. CASE \E c \in {"tier1", "evaluate"} :
                Become(r, [o EXCEPT !.pc = c]) /\ UNCHANGED metrics
    BY <1>0, <1>1, <2>1, <2>3 DEF RequestType
  <2>4. QED BY <1>7, <2>2, <2>3 DEF ReadBody, ShouldPreflight
<1>8. CASE GateTimeout(r) \/ ExplainFails(r)
  <2> DEFINE p == Add(metrics, "preflights", 1)
             g == Add(p, "preflightRejected", 1)
  <2>1. o.pc \in {"acquire", "explain"} /\ o.reason # cost
    BY <1>0, <1>8 DEF CostOnce, GateTimeout, ExplainFails, At
  <2>2. p \in [Counters -> Nat] /\ p["blockedBytes"] = metrics["blockedBytes"]
    BY <1>0, <1>c, AddElsewhere
  <2>3. g \in [Counters -> Nat] /\ g["blockedBytes"] = metrics["blockedBytes"]
    <3> HIDE DEF p
    <3>1. QED BY <1>c, <2>2, AddElsewhere, ZenonT(60)
  <2>4. \A e \in {"gate", "eval"} : /\ [o EXCEPT !.err = e] \in RequestType
                                   /\ [o EXCEPT !.err = e].reason = o.reason
    BY <1>0 DEF RequestType
  <2>5. \/ Pass(r, [o EXCEPT !.err = "gate"], "allowed", g)
        \/ Pass(r, [o EXCEPT !.err = "eval"], "allowed", p)
    BY <1>8 DEF GateTimeout, ExplainFails
  <2> HIDE DEF p, g
  <2>6. QED BY <1>2, <2>1, <2>2, <2>3, <2>4, <2>5 DEF QueryStatus
<1>9. CASE CheckLimits(r)
  <2> DEFINE m == evaluated(o.plan)
             n == Add(m, "blockedBytes", blockedBytes(o.plan))
             q == [o EXCEPT !.pc = "reject", !.reason = cost]
  <2>1. o.pc = "limits" /\ o.plan \in Plans /\ o.reason # cost
    BY <1>0, <1>9 DEF CheckLimits, At, PlanKnown, CostOnce
  <2>2. m \in [Counters -> Nat] /\ m["blockedBytes"] = metrics["blockedBytes"]
    <3>1. /\ Add(metrics, "preflights", 1) \in [Counters -> Nat]
          /\ Add(metrics, "preflights", 1)["blockedBytes"] = metrics["blockedBytes"]
      BY <1>0, <1>c, AddElsewhere
    <3>2. QED BY <1>c, <3>1, AddElsewhere, ZenonT(60) DEF evaluated
  <2>3. CASE evaluateLimits(cfg, o.plan)
    <3>1. Pass(r, o, "allowed", m)
      BY <1>9, <2>3 DEF CheckLimits
    <3> HIDE DEF m
    <3>2. QED BY <1>0, <1>2, <2>1, <2>2, <3>1 DEF QueryStatus
  <2>4. CASE ~evaluateLimits(cfg, o.plan)
    <3>1. Become(r, q) /\ metrics' = n
      BY <1>9, <2>4 DEF CheckLimits
    <3>2. q.pc = "reject" /\ q.reason = cost /\ q.plan = o.plan
      BY <1>0 DEF RequestType
    <3> HIDE DEF m, q
    <3>3. metrics'["blockedBytes"] = metrics["blockedBytes"] + blockedBytes(q.plan)
      BY <1>c, <2>2, <3>1, <3>2, AddValue
    <3>4. CostOnce(q)
      BY <3>2 DEF CostOnce
    <3>5. QED BY <2>1, <3>1, <3>2, <3>3, <3>4, BlockedAdded
  <2>5. QED BY <2>3, <2>4
<1>10. CASE Reject(r)
  <2> DEFINE q == [o EXCEPT !.pc = "done", !.status = "blocked", !.code = 400,
                            !.audit = auditLine(o.reason)]
  <2>1. Become(r, q) /\ metrics' = Add(metrics, "blocked", 1)
    BY <1>10 DEF Reject
  <2>2. q.pc = "done" /\ q.reason = o.reason /\ q.plan = o.plan
    BY <1>0 DEF RequestType
  <2>3. metrics'["blockedBytes"] = metrics["blockedBytes"]
    BY <1>0, <1>c, <2>1, AddValue
  <2> HIDE DEF q
  <2>4. CostOnce(q)
    BY <2>2 DEF CostOnce
  <2>5. QED BY <2>1, <2>2, <2>3, <2>4, BlockedKept
<1>11. QED
  BY <1>4, <1>5, <1>6, <1>7, <1>8, <1>9, <1>10 DEF ServeAny, Serve

(* For any number of requests and any plans: blocked_bytes_total is the    *)
(* sum of the positive scan estimates of the plans that Tier 2 rejected,   *)
(* each counted once however reloads and requests interleave.              *)
THEOREM BlockedBytesCorrect == Spec => []BlockedBytesExact
<1>1. Init => BlockedInv
  <2> SUFFICES ASSUME Init PROVE BlockedInv
    OBVIOUS
  <2>1. \A r \in Requests : req[r].reason = "ALLOW"
    BY DEF Init, Idle
  <2>2. BlockedBytes = {}
    BY <2>1 DEF BlockedBytes
  <2>3. metrics["blockedBytes"] = 0
    BY DEF Init, Counters
  <2>4. QED BY <2>1, <2>2, <2>3, FS_EmptySet DEF BlockedInv, BlockedBytesExact, CostOnce
<1>2. TypeOK /\ PlanKnown /\ BlockedInv /\ [Next]_vars => BlockedInv'
  <2> SUFFICES ASSUME TypeOK, PlanKnown, BlockedInv, [Next]_vars PROVE BlockedInv'
    OBVIOUS
  <2>1. CASE req' = req /\ metrics' = metrics
    BY <2>1 DEF BlockedInv, BlockedBytesExact, BlockedBytes
  <2>2. CASE \E r \in Requests : ServeAny(r)
    BY <2>2, ServeBlocked
  <2>3. QED BY <2>1, <2>2 DEF Next, ServeAny, SetPolicy, SwapProxy, vars
<1>3. TypeOK /\ PlanKnown /\ [Next]_vars => (TypeOK /\ PlanKnown)'
  BY NextType
<1>4. BlockedInv => BlockedBytesExact
  BY DEF BlockedInv
<1>5. QED BY InitType, <1>1, <1>2, <1>3, <1>4, PTL DEF Spec

-----------------------------------------------------------------------------
(* The static rules of the policies hold of what the proxy lets through:   *)
(* the interleavings above and the exactness of Tier 1 (StaticProofs) put  *)
(* together.                                                               *)

(* Request q carries a statement that is inspected, not a bypass. *)
Inspected(q) == q.stmt \in Statements /\ ~IsBypass(q.stmt.class)

(* A request holds a statement from its arrival on, and one that is being  *)
(* judged, was allowed or got a 400 holds one that is inspected.  Without  *)
(* it a verdict might be that of the empty analysis of a bypass.           *)
Carries(q) ==
    /\ q.pc = "read" => q.stmt \in Statements
    /\ q.pc \in Judging \/ q.status = "allowed" \/ q.code = 400 => Inspected(q)

InspectedInv == \A r \in Requests : Carries(req[r])

(* A request that only moves on, from judging to judging or to its         *)
(* outcome, still carries its statement.                                   *)
LEMMA CarriesOn ==
    ASSUME NEW o, NEW q, Carries(o), q.stmt = o.stmt, o.pc \in Judging, q.pc # "read"
    PROVE  Carries(q)
BY DEF Carries, Inspected

(* Replacing request r by one that carries what it should. *)
LEMMA BecomeCarries ==
    ASSUME TypeOK, InspectedInv, NEW r \in Requests, NEW q, Become(r, q), Carries(q)
    PROVE  InspectedInv'
<1>1. \A k \in Requests : req'[k] = IF k = r THEN q ELSE req[k]
  BY DEF TypeOK, Become
<1> QED BY <1>1, Zenon DEF InspectedInv

(* No step of a request judges, allows or rejects one that is not          *)
(* inspected: one case per group of actions.                               *)
LEMMA ServeCarries ==
    ASSUME TypeOK, InspectedInv, NEW r \in Requests, ServeAny(r)
    PROVE  InspectedInv'
<1> DEFINE o == req[r]
<1>0. o \in RequestType /\ Carries(o)
  BY DEF TypeOK, InspectedInv
<1>1. CASE \E s \in Statements : ArriveStatement(r, s)
  <2>1. PICK s \in Statements : ArriveStatement(r, s)
    BY <1>1
  <2> DEFINE q == [Idle EXCEPT !.pc = "read", !.stmt = s]
  <2>2. q.pc = "read" /\ q.stmt = s /\ q.status = "none" /\ q.code = 0
    BY DEF Idle
  <2>3. Carries(q)
    BY <2>2 DEF Carries, Judging
  <2>4. Become(r, q)
    BY <2>1 DEF ArriveStatement, Arrive
  <2> QED BY <2>3, <2>4, BecomeCarries
<1>2. CASE ArriveOther(r) \/ ArriveMetrics(r) \/ ArriveHealthz(r) \/ ArriveReadyz(r)
  <2> DEFINE A == [Idle EXCEPT !.pc = "forward"]
             B == [Idle EXCEPT !.pc = "done", !.code = 200]
             D == [Idle EXCEPT !.pc = "probe", !.shadow = cfg.upstream]
  <2>1. Carries(A) /\ Carries(B) /\ Carries(D)
    BY DEF Carries, Judging, Idle
  <2>2. Become(r, A) \/ Become(r, B) \/ Become(r, D)
    BY <1>2 DEF ArriveOther, ArriveMetrics, ArriveHealthz, ArriveReadyz, Arrive
  <2> QED BY <2>1, <2>2, BecomeCarries
<1>3. CASE ReadBody(r)
  <2> DEFINE A == [o EXCEPT !.pc = "forward", !.status = "bypassed"]
             B == [o EXCEPT !.pc = "tier1"]
  <2>1. o.pc = "read" /\ o.stmt \in Statements
    BY <1>0, <1>3 DEF ReadBody, At, Carries
  <2>2. Become(r, A) \/ (Become(r, B) /\ ~IsBypass(o.stmt.class))
    BY <1>3 DEF ReadBody, Pass
  <2>3. A.pc = "forward" /\ A.status = "bypassed" /\ A.code = o.code /\ A.stmt = o.stmt
    BY <1>0 DEF RequestType
  <2>4. B.pc = "tier1" /\ B.stmt = o.stmt
    BY <1>0 DEF RequestType
  <2>5. Carries(A)
    BY <1>0, <2>3 DEF Carries, Judging, Inspected
  <2>6. ~IsBypass(o.stmt.class) => Carries(B)
    BY <2>1, <2>4 DEF Carries, Inspected
  <2> QED BY <2>2, <2>5, <2>6, BecomeCarries
<1>4. ASSUME o.pc \in Judging,
             \E q : Become(r, q) /\ q.stmt = o.stmt /\ q.pc # "read"
      PROVE  InspectedInv'
  <2>1. PICK q : Become(r, q) /\ q.stmt = o.stmt /\ q.pc # "read"
    BY <1>4
  <2>2. Carries(q)
    BY <1>0, <1>4, <2>1, CarriesOn
  <2> QED BY <2>1, <2>2, BecomeCarries
<1>5. CASE Tier1Check(r)
  <2> DEFINE v == tier1(cfg, Analyze(o.stmt))
             q == [o EXCEPT !.reason = v, !.pc = IF v = "ALLOW" THEN "preflight" ELSE "reject"]
  <2>1. Become(r, q) /\ o.pc \in Judging
    BY <1>5 DEF Tier1Check, At, Judging
  <2>2. q.stmt = o.stmt /\ q.pc # "read"
    BY <1>0 DEF RequestType
  <2> QED BY <1>4, <2>1, <2>2
<1>6. CASE ShouldPreflight(r)
  <2> DEFINE A == [o EXCEPT !.pc = "evaluate"]
             B == [o EXCEPT !.pc = "forward", !.status = "allowed"]
  <2>1. (Become(r, A) \/ Become(r, B)) /\ o.pc \in Judging
    BY <1>6 DEF ShouldPreflight, Pass, At, Judging
  <2>2. A.stmt = o.stmt /\ A.pc # "read" /\ B.stmt = o.stmt /\ B.pc # "read"
    BY <1>0 DEF RequestType
  <2> QED BY <1>4, <2>1, <2>2
<1>7. CASE StartEvaluation(r)
  <2> DEFINE q == [o EXCEPT !.pc = "acquire", !.shadow = cfg.upstream]
  <2>1. Become(r, q) /\ o.pc \in Judging
    BY <1>7 DEF StartEvaluation, At, Judging
  <2>2. q.stmt = o.stmt /\ q.pc # "read"
    BY <1>0 DEF RequestType
  <2> QED BY <1>4, <2>1, <2>2
<1>8. CASE Acquire(r)
  <2> DEFINE q == [o EXCEPT !.pc = "explain"]
  <2>1. Become(r, q) /\ o.pc \in Judging
    BY <1>8 DEF Acquire, At, Judging
  <2>2. q.stmt = o.stmt /\ q.pc # "read"
    BY <1>0 DEF RequestType
  <2> QED BY <1>4, <2>1, <2>2
<1>9. CASE GateTimeout(r) \/ ExplainFails(r)
  <2> DEFINE A == [[o EXCEPT !.err = "gate"] EXCEPT !.pc = "forward", !.status = "allowed"]
             B == [[o EXCEPT !.err = "eval"] EXCEPT !.pc = "forward", !.status = "allowed"]
  <2>1. (Become(r, A) \/ Become(r, B)) /\ o.pc \in Judging
    BY <1>9 DEF GateTimeout, ExplainFails, Pass, At, Judging
  <2>2. A.stmt = o.stmt /\ A.pc # "read" /\ B.stmt = o.stmt /\ B.pc # "read"
    BY <1>0 DEF RequestType
  <2> QED BY <1>4, <2>1, <2>2
<1>10. CASE Expire(r)
  <2> DEFINE q == [o EXCEPT !.ctxDone = TRUE]
  <2>1. Become(r, q) /\ o.pc \in Judging /\ o.pc # "read"
    BY <1>10 DEF Expire, At, Judging
  <2>2. q.stmt = o.stmt /\ q.pc # "read"
    BY <1>0, <2>1 DEF RequestType
  <2> QED BY <1>4, <2>1, <2>2
<1>11. CASE \E pl \in Plans : ExplainDone(r, pl)
  <2>0. PICK pl \in Plans : ExplainDone(r, pl)
    BY <1>11
  <2> DEFINE q == [o EXCEPT !.pc = "limits", !.plan = pl]
  <2>1. Become(r, q) /\ o.pc \in Judging
    BY <2>0 DEF ExplainDone, At, Judging
  <2>2. q.stmt = o.stmt /\ q.pc # "read"
    BY <1>0 DEF RequestType
  <2> QED BY <1>4, <2>1, <2>2
<1>12. CASE CheckLimits(r)
  <2> DEFINE A == [o EXCEPT !.pc = "forward", !.status = "allowed"]
             B == [o EXCEPT !.pc = "reject", !.reason = "COST_LIMIT_BREACH"]
  <2>1. (Become(r, A) \/ Become(r, B)) /\ o.pc \in Judging
    BY <1>12 DEF CheckLimits, Pass, At, Judging
  <2>2. A.stmt = o.stmt /\ A.pc # "read" /\ B.stmt = o.stmt /\ B.pc # "read"
    BY <1>0 DEF RequestType
  <2> QED BY <1>4, <2>1, <2>2
<1>13. CASE Reject(r)
  <2> DEFINE q == [o EXCEPT !.pc = "done", !.status = "blocked", !.code = 400,
                            !.audit = auditLine(o.reason)]
  <2>1. Become(r, q) /\ o.pc \in Judging
    BY <1>13 DEF Reject, At, Judging
  <2>2. q.stmt = o.stmt /\ q.pc # "read"
    BY <1>0 DEF RequestType
  <2> QED BY <1>4, <2>1, <2>2
<1>14. CASE Forward(r)
  <2> DEFINE q == [o EXCEPT !.pc = "upstream", !.target = proxy,
                            !.bytes = forwardedBytes(o.stmt)]
  <2>1. Become(r, q)
    BY <1>14 DEF Forward
  <2>2. q.pc = "upstream" /\ q.stmt = o.stmt /\ q.status = o.status /\ q.code = o.code
    BY <1>0 DEF RequestType
  <2>3. Carries(q)
    BY <1>0, <2>2 DEF Carries, Judging, Inspected
  <2> QED BY <2>1, <2>3, BecomeCarries
<1>15. ASSUME NEW code \in {200, 502, 503}, Become(r, [o EXCEPT !.pc = "done", !.code = code])
       PROVE  InspectedInv'
  <2> DEFINE q == [o EXCEPT !.pc = "done", !.code = code]
  <2>0. q.pc = "done" /\ q.stmt = o.stmt /\ q.status = o.status /\ q.code = code
    BY <1>0 DEF RequestType
  <2>1. q.pc = "done" /\ q.stmt = o.stmt /\ q.status = o.status /\ q.code # 400
    <3>1. code # 400
      BY <1>15
    <3> QED BY <2>0, <3>1, Zenon
  <2>2. Carries(q)
    BY <1>0, <2>1 DEF Carries, Judging, Inspected
  <2> QED BY <1>15, <2>2, BecomeCarries
<1>16. CASE \/ \E code \in {200, 503} : ProbeReturns(r, code)
            \/ \E code \in {200, 502} : UpstreamAnswers(r, code)
  BY <1>15, <1>16 DEF ProbeReturns, UpstreamAnswers
<1> QED BY <1>1, <1>2, <1>3, <1>5, <1>6, <1>7, <1>8, <1>9, <1>10, <1>11, <1>12,
           <1>13, <1>14, <1>16 DEF ServeAny, Serve

(* Only inspected statements are judged, allowed or rejected. *)
LEMMA AlwaysInspected == Spec => []InspectedInv
<1>1. Init => InspectedInv
  <2>1. Idle.pc = "idle" /\ Idle.status = "none" /\ Idle.code = 0
    BY DEF Idle
  <2>2. Carries(Idle)
    BY <2>1 DEF Carries, Judging
  <2> QED BY <2>2, Zenon DEF Init, InspectedInv
<1>2. TypeOK /\ InspectedInv /\ [Next]_vars => InspectedInv'
  <2> SUFFICES ASSUME TypeOK, InspectedInv, [Next]_vars PROVE InspectedInv'
    OBVIOUS
  <2>1. CASE req' = req
    BY <2>1, Zenon DEF InspectedInv
  <2>2. CASE \E r \in Requests : ServeAny(r)
    BY <2>2, ServeCarries
  <2>3. (\E p \in Policies : SetPolicy(p)) \/ (\E p \in installed : SwapProxy(p)) => req' = req
    BY DEF SetPolicy, SwapProxy
  <2> QED BY <2>1, <2>2, <2>3 DEF Next, vars
<1>3. QED BY TypeCorrect, <1>1, <1>2, PTL DEF Spec

-----------------------------------------------------------------------------
(* A statement that is inspected passes Tier 1 under an installed policy   *)
(* exactly when it obeys the static rules of that policy.                  *)
LEMMA InspectedExact ==
    ASSUME NEW q, Inspected(q), NEW p \in Policies
    PROVE  tier1(p, Analyze(q.stmt)) = "ALLOW" <=> obeys(p, q.stmt)
<1>1. \A rf \in p.requiredFilters : rf.columns # {}
  <2>1. Validate(p)
    BY PoliciesAssumption
  <2>2. \A rf \in p.requiredFilters : wellFormed(rf)
    BY <2>1 DEF Validate
  <2> QED BY <2>2, Zenon DEF wellFormed
<1>2. q.stmt.scanned \subseteq Seq(Ident) \ {<<>>}
  BY PipelineAssumption DEF Inspected
<1> QED BY <1>1, <1>2, Tier1Exact DEF Inspected

(* For any policies, statements and reload schedule: what the proxy sends  *)
(* upstream as allowed obeys every static rule of one policy in force      *)
(* during its request, and what Tier 1 turns away breaks a rule of such a  *)
(* policy.  The rules are those of Rules.tla, stated on the statement and  *)
(* not on the analyser's results.                                          *)
THEOREM RulesHold == Spec => []RulesEnforced
<1>1. ASSUME TypeOK, InspectedInv, AllowJustified, RejectionJustified
      PROVE  RulesEnforced
  <2> SUFFICES ASSUME NEW r \in Requests
               PROVE  /\ req[r].status = "allowed" => \E p \in seen[r] : obeys(p, req[r].stmt)
                      /\ req[r].code = 400 /\ req[r].reason \in Tier1Reasons =>
                            \E p \in seen[r] : ~obeys(p, req[r].stmt)
    BY DEF RulesEnforced
  <2> DEFINE q == req[r]
  <2>0. seen[r] \subseteq Policies
    BY <1>1 DEF TypeOK
  <2>1. ASSUME q.status = "allowed" PROVE \E p \in seen[r] : obeys(p, q.stmt)
    <3>1. PICK p \in seen[r] : passesTier1(p, q)
      BY <1>1, <2>1 DEF AllowJustified, allowedUnder
    <3>2. Inspected(q)
      BY <1>1, <2>1 DEF InspectedInv, Carries
    <3> QED BY <2>0, <3>1, <3>2, InspectedExact DEF passesTier1
  <2>2. ASSUME q.code = 400, q.reason \in Tier1Reasons
        PROVE  \E p \in seen[r] : ~obeys(p, q.stmt)
    <3>1. PICK p \in seen[r] : rejectedBy(p, q)
      BY <1>1, <2>2 DEF RejectionJustified
    <3>2. tier1(p, Analyze(q.stmt)) # "ALLOW"
      BY <2>2, <3>1 DEF rejectedBy, Tier1Reasons
    <3>3. Inspected(q)
      BY <1>1, <2>2 DEF InspectedInv, Carries
    <3> QED BY <2>0, <3>2, <3>3, InspectedExact
  <2> QED BY <2>1, <2>2
<1> QED BY TypeCorrect, AlwaysInspected, AllowancesJustified, RejectionsJustified, <1>1, PTL
=============================================================================
