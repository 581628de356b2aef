-------------------------------- MODULE Guard --------------------------------
(***************************************************************************)
(* The running proxy: the goroutines of requests (Pipeline.tla) and those  *)
(* of the policy watcher (Watcher.tla) in one process.  They share the     *)
(* live policy and the reverse proxy, cfg and proxy, and nothing else.     *)
(* Pipeline.tla runs its requests against the abstract hot reload; here    *)
(* they run against the reload goroutines themselves, and the two are      *)
(* shown to be the same to every request.                                  *)
(***************************************************************************)
EXTENDS Watcher

CONSTANTS Ident, Lower, Requests, Statements, NoStatement, Plans, NoPlan,
          MaxConcurrent, MaxBody   \* as in Pipeline

VARIABLES req, sem, metrics, seen, routes   \* as in Pipeline

(* Its Policies are the ones that Load returns for the files of Watcher. *)
Path == INSTANCE Pipeline

requestVars == <<req, sem, metrics, seen, routes>>

watchVars == <<path, disk, writing, saves, missed, events, watch, timer, jobs,
               overlapped, current>>

guardVars == <<vars, requestVars>>

(* main starts the watcher and the server with the policy it has loaded. *)
GuardInit ==
    /\ Init
    /\ req = [r \in Requests |-> Path!Idle]
    /\ sem = 0
    /\ metrics = [c \in Path!Counters |-> 0]
    /\ seen = [r \in Requests |-> {}]
    /\ routes = [r \in Requests |-> {}]

(* A step of a request leaves the watcher alone. *)
RequestStep(r) == Path!ServeAny(r) /\ UNCHANGED watchVars

(* A step of the watcher leaves the requests alone.  The policy and the    *)
(* proxy behind it enter the histories of those that are being served.     *)
WatcherStep ==
    /\ Next
    /\ UNCHANGED <<req, sem, metrics>>
    /\ seen' = [r \in Requests |-> IF Path!Live(r) THEN seen[r] \union {cfg'} ELSE seen[r]]
    /\ routes' = [r \in Requests |->
                    IF Path!Live(r) THEN routes[r] \union {proxy'} ELSE routes[r]]

GuardNext == WatcherStep \/ \E r \in Requests : RequestStep(r)

GuardSpec == GuardInit /\ [][GuardNext]_guardVars

-----------------------------------------------------------------------------
(* The proxy implements the request path over the abstract hot reload, so  *)
(* that everything Pipeline.tla promises of requests holds next to any     *)
(* number of reload goroutines, overlapping or not, and any events, timers *)
(* and half-written files.                                                 *)
ImplementsPipeline == Path!Spec

(* What the watcher does is unaffected by the requests. *)
ImplementsWatcher == Spec

(* The policy and the proxy of now belong to the history of every request  *)
(* that is being served.                                                   *)
HistoryInv ==
    /\ DOMAIN req = Requests /\ DOMAIN seen = Requests /\ DOMAIN routes = Requests
    /\ seen = [r \in Requests |-> seen[r]] /\ routes = [r \in Requests |-> routes[r]]
    /\ req = [r \in Requests |-> req[r]]
    /\ \A r \in Requests : Path!Live(r) => cfg \in seen[r] /\ proxy \in routes[r]
==============================================================================
