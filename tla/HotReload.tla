----------------------------- MODULE HotReload ------------------------------
(***************************************************************************)
(* What hot reload promises to the rest of the proxy: the live policy      *)
(* (config.Config) is replaced as a whole, by validated policies only; and *)
(* the reverse proxy (Handler.proxy) is replaced, in a separate step, by   *)
(* one for the upstream of a policy that has already been installed.       *)
(*                                                                         *)
(* Watcher.tla describes the goroutines that take these steps and is shown *)
(* to implement this specification.  Pipeline.tla runs requests against    *)
(* it.  An upstream URL is a name; a reverse proxy is the URL it targets.  *)
(***************************************************************************)
EXTENDS Config

CONSTANTS Policies,  \* the policies the operator may ever install
          Dialable   \* URLs with a scheme and a host: newReverseProxy takes them

ASSUME PoliciesAssumption == \A p \in Policies : Validate(p)

VARIABLES cfg,       \* Config.policy, behind its RWMutex
          proxy,     \* Handler.proxy, an atomic.Pointer
          installed  \* history: every policy that has been the live one

hotVars == <<cfg, proxy, installed>>

(* main: Load, NewConfig, and NewHandler, which exits unless the first     *)
(* policy's upstream has a scheme and a host.                              *)
HotInit ==
    /\ cfg \in {p \in Policies : p.upstream \in Dialable}
    /\ proxy = cfg.upstream
    /\ installed = {cfg}

(* Config.Set *)
Set(p) ==
    /\ cfg' = p
    /\ installed' = installed \union {p}
    /\ UNCHANGED proxy

(* Handler.UpdateUpstream, called with the upstream of an installed        *)
(* policy; on a URL without scheme or host it returns an error and leaves  *)
(* the old proxy in place, which is a stuttering step.                     *)
UpdateUpstream(p) ==
    /\ p.upstream \in Dialable
    /\ proxy' = p.upstream
    /\ UNCHANGED <<cfg, installed>>

HotNext == \/ \E p \in Policies : Set(p)
           \/ \E p \in installed : UpdateUpstream(p)

HotSpec == HotInit /\ [][HotNext]_hotVars
=============================================================================
