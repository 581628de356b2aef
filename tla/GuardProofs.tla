----------------------------- MODULE GuardProofs -----------------------------
(***************************************************************************)
(* Proofs about the composition of requests and watcher (Guard.tla).       *)
(***************************************************************************)
EXTENDS Guard, WatcherProofs

(* Requests read the live policy and the proxy, and change neither. *)
LEMMA RequestsRead ==
    ASSUME NEW r \in Requests, Path!ServeAny(r)
    PROVE  UNCHANGED <<cfg, proxy, installed>>
BY DEF Path!ServeAny, Path!Serve, Path!ArriveStatement, Path!ArriveOther,
       Path!ArriveMetrics, Path!ArriveHealthz, Path!ArriveReadyz, Path!Arrive,
       Path!ProbeReturns, Path!ReadBody, Path!Tier1Check, Path!ShouldPreflight,
       Path!StartEvaluation, Path!Acquire, Path!GateTimeout, Path!CheckLimits,
       Path!Reject, Path!Forward, Path!Expire, Path!ExplainFails, Path!ExplainDone,
       Path!UpstreamAnswers, Path!Quiet

(* The watcher runs as it would without requests. *)
THEOREM RefinesWatcher == GuardSpec => ImplementsWatcher
<1>1. GuardInit => Init
  BY DEF GuardInit
<1>2. [GuardNext]_guardVars => [Next]_vars
  <2>1. ASSUME NEW r \in Requests, RequestStep(r) PROVE UNCHANGED vars
    BY <2>1, RequestsRead DEF RequestStep, watchVars, vars
  <2>2. CASE UNCHANGED guardVars
    BY <2>2 DEF guardVars
  <2> QED BY <2>1, <2>2 DEF GuardNext, WatcherStep
<1> QED BY <1>1, <1>2, PTL DEF GuardSpec, ImplementsWatcher, Spec

-----------------------------------------------------------------------------
(* A request that takes a step arrives, and starts its histories, or is    *)
(* being served, and leaves them alone.                                    *)
LEMMA RequestShape ==
    ASSUME NEW r \in Requests, Path!ServeAny(r)
    PROVE  /\ \E q : req' = [req EXCEPT ![r] = q]
           /\ \/ seen' = [seen EXCEPT ![r] = {cfg}] /\ routes' = [routes EXCEPT ![r] = {proxy}]
              \/ seen' = seen /\ routes' = routes /\ Path!Live(r)
<1> USE DEF Path!Become, Path!Pass, Path!At, Path!Live
<1>1. CASE \/ \E s \in Statements : Path!ArriveStatement(r, s)
           \/ Path!ArriveOther(r) \/ Path!ArriveMetrics(r)
           \/ Path!ArriveHealthz(r) \/ Path!ArriveReadyz(r)
  <2>1. \E q : Path!Arrive(r, q)
    <3>1. ASSUME NEW s \in Statements, Path!ArriveStatement(r, s)
          PROVE  \E q : Path!Arrive(r, q)
      BY <3>1, Zenon DEF Path!ArriveStatement
    <3>2. CASE \/ Path!ArriveOther(r) \/ Path!ArriveMetrics(r)
               \/ Path!ArriveHealthz(r) \/ Path!ArriveReadyz(r)
      BY <3>2, Zenon DEF Path!ArriveOther, Path!ArriveMetrics, Path!ArriveHealthz,
                         Path!ArriveReadyz
    <3> QED BY <1>1, <3>1, <3>2
  <2> QED BY <2>1, Zenon DEF Path!Arrive
<1>2. CASE Path!Serve(r)
  <2>1. CASE Path!ReadBody(r)
    BY <2>1 DEF Path!ReadBody, Path!Quiet
  <2>2. CASE Path!Tier1Check(r) \/ Path!ShouldPreflight(r) \/ Path!StartEvaluation(r)
    BY <2>2 DEF Path!Tier1Check, Path!ShouldPreflight, Path!StartEvaluation, Path!Quiet
  <2>3. CASE Path!Acquire(r) \/ Path!GateTimeout(r) \/ Path!CheckLimits(r)
    BY <2>3 DEF Path!Acquire, Path!GateTimeout, Path!CheckLimits, Path!Quiet
  <2>4. CASE Path!Reject(r) \/ Path!Forward(r)
    BY <2>4 DEF Path!Reject, Path!Forward, Path!Quiet
  <2> QED BY <1>2, <2>1, <2>2, <2>3, <2>4 DEF Path!Serve
<1>3. CASE Path!Expire(r) \/ Path!ExplainFails(r)
  BY <1>3 DEF Path!Expire, Path!ExplainFails, Path!Quiet
<1>4. ASSUME NEW pl \in Plans, Path!ExplainDone(r, pl)
      PROVE  /\ \E q : req' = [req EXCEPT ![r] = q]
             /\ seen' = seen /\ routes' = routes /\ Path!Live(r)
  BY <1>4 DEF Path!ExplainDone, Path!Quiet
<1>5. ASSUME NEW code, Path!ProbeReturns(r, code) \/ Path!UpstreamAnswers(r, code)
      PROVE  /\ \E q : req' = [req EXCEPT ![r] = q]
             /\ seen' = seen /\ routes' = routes /\ Path!Live(r)
  BY <1>5 DEF Path!ProbeReturns, Path!UpstreamAnswers, Path!Quiet
<1> QED BY <1>1, <1>2, <1>3, <1>4, <1>5 DEF Path!ServeAny

(* HistoryInv is inductive. *)
LEMMA HistoryInit == GuardInit => HistoryInv
<1> SUFFICES ASSUME GuardInit PROVE HistoryInv
  OBVIOUS
<1>1. \A r \in Requests : ~Path!Live(r)
  BY DEF GuardInit, Path!Live, Path!Idle
<1> QED BY <1>1 DEF GuardInit, HistoryInv

LEMMA HistoryStep == HistoryInv /\ [GuardNext]_guardVars => HistoryInv'
<1> SUFFICES ASSUME HistoryInv, [GuardNext]_guardVars PROVE HistoryInv'
  OBVIOUS
<1>1. CASE UNCHANGED guardVars
  BY <1>1 DEF guardVars, vars, requestVars, HistoryInv, Path!Live
<1>2. CASE WatcherStep
  <2>1. req' = req
    BY <1>2 DEF WatcherStep
  <2>2. ASSUME NEW r \in Requests, Path!Live(r)' PROVE cfg' \in seen'[r] /\ proxy' \in routes'[r]
    <3>1. Path!Live(r)
      BY <2>1, <2>2 DEF Path!Live
    <3> QED BY <1>2, <3>1 DEF WatcherStep
  <2> QED BY <1>2, <2>1, <2>2 DEF WatcherStep, HistoryInv
<1>3. ASSUME NEW r \in Requests, RequestStep(r) PROVE HistoryInv'
  <2>1. Path!ServeAny(r)
    BY <1>3 DEF RequestStep
  <2>2. cfg' = cfg /\ proxy' = proxy
    BY <2>1, RequestsRead
  <2>3. PICK q : req' = [req EXCEPT ![r] = q]
    BY <2>1, RequestShape
  <2>4. \A k \in Requests \ {r} : Path!Live(k)' => Path!Live(k)
    BY <2>3 DEF Path!Live, HistoryInv
  <2>5. CASE seen' = [seen EXCEPT ![r] = {cfg}] /\ routes' = [routes EXCEPT ![r] = {proxy}]
    BY <2>2, <2>3, <2>4, <2>5 DEF HistoryInv
  <2>6. CASE seen' = seen /\ routes' = routes /\ Path!Live(r)
    <3>1. \A k \in Requests : Path!Live(k)' => Path!Live(k)
      BY <2>4, <2>6
    <3> QED BY <2>2, <2>3, <2>6, <3>1 DEF HistoryInv
  <2> QED BY <2>1, <2>5, <2>6, RequestShape
<1> QED BY <1>1, <1>2, <1>3 DEF GuardNext

(* In the composed proxy the policy and the proxy of now belong to the     *)
(* history of every request that is being served.                          *)
THEOREM HistoryCorrect == GuardSpec => []HistoryInv
<1> QED BY HistoryInit, HistoryStep, PTL DEF GuardSpec

-----------------------------------------------------------------------------
(* A step of the watcher is a reload of the request path, or invisible.    *)
LEMMA WatcherSimulates ==
    ASSUME TypeOK, JobsInv, HistoryInv, WatcherStep
    PROVE  [Path!Next]_(Path!vars)
<1> DEFINE S(c) == [r \in Requests |-> IF Path!Live(r) THEN seen[r] \union {c} ELSE seen[r]]
           R(u) == [r \in Requests |-> IF Path!Live(r) THEN routes[r] \union {u} ELSE routes[r]]
<1>1. /\ seen' = S(cfg') /\ routes' = R(proxy')
      /\ UNCHANGED <<req, sem, metrics>>
  BY DEF WatcherStep
<1>2. S(cfg) = seen /\ R(proxy) = routes
  BY DEF HistoryInv
<1>3. [Abstract!HotNext]_(Abstract!hotVars)
  BY StepRefines DEF WatcherStep
<1>4. ASSUME NEW p \in Policies, Abstract!Set(p) PROVE Path!Next
  <2>1. Path!Set(p) /\ cfg' = p /\ proxy' = proxy
    BY <1>4 DEF Abstract!Set, Path!Set
  <2>2. seen' = S(p) /\ routes' = routes
    BY <1>1, <1>2, <2>1
  <2>3. Path!SetPolicy(p)
    BY <1>1, <2>1, <2>2 DEF Path!SetPolicy
  <2> QED BY <2>3 DEF Path!Next
<1>5. ASSUME NEW p \in installed, Abstract!UpdateUpstream(p) PROVE Path!Next
  <2>1. Path!UpdateUpstream(p) /\ cfg' = cfg /\ proxy' = p.upstream
    BY <1>5 DEF Abstract!UpdateUpstream, Path!UpdateUpstream
  <2>2. seen' = seen /\ routes' = R(p.upstream)
    BY <1>1, <1>2, <2>1
  <2>3. Path!SwapProxy(p)
    BY <1>1, <2>1, <2>2 DEF Path!SwapProxy
  <2> QED BY <2>3 DEF Path!Next
<1>6. CASE UNCHANGED Abstract!hotVars
  <2>1. cfg' = cfg /\ proxy' = proxy /\ installed' = installed
    BY <1>6 DEF Abstract!hotVars
  <2>2. seen' = seen /\ routes' = routes
    BY <1>1, <1>2, <2>1
  <2> QED BY <1>1, <2>1, <2>2 DEF Path!vars
<1> QED BY <1>3, <1>4, <1>5, <1>6 DEF Abstract!HotNext

(* Requests next to the real watcher behave as requests next to the        *)
(* abstract hot reload: for any files, any number of reload goroutines and *)
(* any requests, what is proved of Pipeline.tla holds of the process.      *)
THEOREM RefinesPipeline == GuardSpec => ImplementsPipeline
<1>1. GuardInit => Path!Init
  <2> SUFFICES ASSUME GuardInit PROVE Path!Init
    OBVIOUS
  <2>1. cfg \in Policies /\ cfg.upstream \in Dialable
    BY Loadables DEF GuardInit, Init
  <2>2. Path!HotInit
    BY <2>1 DEF GuardInit, Init, Path!HotInit
  <2> QED BY <2>2 DEF GuardInit, Path!Init
<1>2. TypeOK /\ JobsInv /\ HistoryInv /\ [GuardNext]_guardVars => [Path!Next]_(Path!vars)
  <2> SUFFICES ASSUME TypeOK, JobsInv, HistoryInv, [GuardNext]_guardVars
               PROVE  [Path!Next]_(Path!vars)
    OBVIOUS
  <2>1. CASE WatcherStep
    BY <2>1, WatcherSimulates
  <2>2. ASSUME NEW r \in Requests, RequestStep(r) PROVE Path!Next
    BY <2>2 DEF RequestStep, Path!Next
  <2>3. CASE UNCHANGED guardVars
    BY <2>3 DEF guardVars, vars, requestVars, Path!vars
  <2> QED BY <2>1, <2>2, <2>3 DEF GuardNext
<1>3. GuardSpec => [](TypeOK /\ JobsInv)
  BY RefinesWatcher, TypeCorrect, JobsCorrect, PTL DEF ImplementsWatcher
<1> QED BY <1>1, <1>2, <1>3, HistoryCorrect, PTL DEF GuardSpec, ImplementsPipeline, Path!Spec
==============================================================================
