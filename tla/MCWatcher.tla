------------------------------ MODULE MCWatcher ------------------------------
(***************************************************************************)
(* Instances of Watcher.tla for TLC, and the documented claims that the    *)
(* code does not meet.                                                     *)
(***************************************************************************)
EXTENDS Watcher

(* What an operator writes: no port or limits on concurrency, so that the  *)
(* defaults matter.                                                        *)
Written ==
    [port |-> 0, upstream |-> "http://u1", preflightTimeout |-> 0,
     maxConcurrent |-> 0, certFile |-> "", keyFile |-> "",
     tableBlocklist |-> {<<"orders">>}, requiredFilters |-> {},
     costLimits |-> {}, statementBlocklist |-> {}, functionBlocklist |-> {},
     selectStarBlockedTables |-> {}, telemetryEnabled |-> TRUE,
     logRejections |-> FALSE, snapshotPlan |-> FALSE]

File(p) == [decodes |-> TRUE, policy |-> p]

First == File(Written)
Second == File([Written EXCEPT !.upstream = "http://u2"])
Hostless == File([Written EXCEPT !.upstream = "u3"])
NoRules == File([Written EXCEPT !.tableBlocklist = {}])
HalfTLS == File([Written EXCEPT !.certFile = "tls.crt"])
Syntax == [decodes |-> FALSE, policy |-> Written]

(* A prefix of Second that is itself a valid document. *)
Prefix == File([Written EXCEPT !.upstream = "http://u2",
                               !.tableBlocklist = {<<"o">>}])

AllDocs == {First, Second, Hostless, NoRules, HalfTLS}
TwoDocs == {First, Second}
Partial == {Syntax, Prefix}
Emptied == {Syntax}

(* The image's /etc/query-guard/policy.yaml, and the flag's default. *)
Deployed == <<"", "etc", "query-guard", "policy.yaml">>
Bare == <<"policy.yaml">>

DeployedPath == {Deployed}
BarePath == {Bare}
BothPaths == {Deployed, Bare}

MCDialable == {"http://u1", "http://u2"}

-----------------------------------------------------------------------------
(* Claims of the documentation that a run refutes. *)

(* RUNBOOK.md: a mounted ConfigMap directory "hot-reloads correctly", so a *)
(* file that is swapped in under the running watch becomes live.           *)
ReloadsOnSwap ==
    watch = "on" /\ Idle /\ Loadable(disk) /\ missed # "unwatched" => cfg = Load(disk)

(* RUNBOOK.md: on a changed upstream.url "the watcher hot-reloads and the  *)
(* reverse proxy is rebuilt atomically": once the reloads are over,        *)
(* statements go to the upstream of the policy that was announced last.    *)
RebuiltForPolicy == watch = "on" /\ Idle /\ Announced => InSync

(* README.md starts the proxy with "-config policy.yaml" and says of its   *)
(* rules that they are hot-reloadable ("edit policy.yaml, no restart"): a  *)
(* file that is saved in place under the running watch becomes live.       *)
ReloadsOnEdit == watch = "on" /\ Idle /\ Announced => cfg = Load(disk)
=============================================================================
