------------------------------- MODULE Config -------------------------------
(***************************************************************************)
(* The policy of query-guard (internal/config/config.go): the checks that  *)
(* Validate makes, the defaults that setDefaults fills in, and Load, which *)
(* turns the contents of policy.yaml into a policy or into an error.       *)
(*                                                                         *)
(* A policy is a record.  Its rule lists are sets: the code only asks      *)
(* whether some entry matches.  A dotted table name is the sequence of its *)
(* components, and "" stands for an absent name, as in the source.         *)
(***************************************************************************)
EXTENDS Integers

(* config.Load's error result. *)
LoadError == [error |-> TRUE]

(* setDefaults: zero-valued fields get production defaults.  Only the      *)
(* fields that some modelled operation reads are kept.                     *)
setDefaults(p) ==
    [p EXCEPT !.port             = IF @ = 0 THEN 8080 ELSE @,
              !.preflightTimeout = IF @ = 0 THEN 2 ELSE @,
              !.maxConcurrent    = IF @ = 0 THEN 5 ELSE @]

nonNegative(lim) ==
    /\ lim.maxScanBytes >= 0
    /\ lim.maxRows >= 0
    /\ lim.maxScanBytesPerQuery >= 0
    /\ lim.maxCPUCostPerQuery >= 0

wellFormed(rf) ==
    /\ rf.schema # "" /\ rf.table # ""
    /\ rf.mode \in {"", "any-of", "all-of"}
    /\ rf.columns # {} /\ "" \notin rf.columns

MaxPort == 65535   \* the largest TCP port

(* Policy.Validate returns nil.  Two rule lists, functionBlocklist and     *)
(* selectStarBlockedTables, do not count as a populated rule category.     *)
Validate(p) ==
    /\ p.port \in 1 .. MaxPort
    /\ p.upstream # ""
    /\ \/ p.costLimits # {}
       \/ p.tableBlocklist # {}
       \/ p.requiredFilters # {}
       \/ p.statementBlocklist # {}
    /\ \A lim \in p.costLimits : nonNegative(lim)
    /\ \A rf \in p.requiredFilters : wellFormed(rf)
    /\ (p.certFile = "") <=> (p.keyFile = "")

(* The contents of policy.yaml: a document the strict YAML decoder accepts *)
(* carries a policy; one it refuses (syntax, unknown field) does not.      *)
(* A missing or unreadable file is a document that does not decode.        *)
Load(doc) ==
    IF ~doc.decodes THEN LoadError
    ELSE LET p == setDefaults(doc.policy)
         IN  IF Validate(p) THEN p ELSE LoadError
=============================================================================
