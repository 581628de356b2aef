---------------------------- MODULE WatcherProofs ----------------------------
(***************************************************************************)
(* Proofs about Watcher.tla: its type invariant, the refinement of the     *)
(* abstract hot reload by any number of overlapping reload goroutines, and *)
(* that reloads which do not overlap end with the file's policy in force.  *)
(***************************************************************************)
EXTENDS Watcher, TLAPS

(* A document that can be loaded gives a policy of the instance. *)
LEMMA Loadables ==
    ASSUME NEW doc \in Docs \union Torn, Loadable(doc)
    PROVE  Load(doc) \in Policies
BY DEF Policies

(* Load hands out only what Validate accepts, so every policy that can be  *)
(* installed is a valid one: the assumption HotReload.tla makes.           *)
THEOREM LoadedPoliciesValidate ==
    \A p \in Policies : Validate(p)
<1> SUFFICES ASSUME NEW d \in Docs \union Torn, Loadable(d)
             PROVE  Validate(Load(d))
    BY DEF Policies
<1>1. Load(d) = setDefaults(d.policy) /\ Validate(setDefaults(d.policy))
    BY Zenon DEF Load, Loadable
<1> QED  BY <1>1

(* The upstream of a policy is one of the instance. *)
LEMMA UpstreamType ==
    ASSUME NEW p \in Policies
    PROVE  p.upstream \in Upstreams
BY DEF Upstreams

LEMMA NoJobType == NoJob \in JobType
BY DEF NoJob, JobType

-----------------------------------------------------------------------------
(* The initial states satisfy both invariants. *)
LEMMA InitInv == Init => TypeOK /\ JobsInv
<1> SUFFICES ASSUME Init PROVE TypeOK /\ JobsInv
    OBVIOUS
<1>1. Load(disk) \in Policies
    BY Loadables DEF Init
<1>2. JobsInv
    BY DEF JobsInv, Init, NoJob
<1>3. jobs \in [Jobs -> JobType]
    BY NoJobType DEF Init
<1>4. cfg \in Policies /\ installed \subseteq Policies
    BY <1>1 DEF Init
<1>5. current \in Upstreams /\ proxy \in Upstreams
    BY <1>4, UpstreamType DEF Init
<1>6. events \in Seq({"write", "other"})
    BY DEF Init
<1>7. disk \in Docs \union Torn /\ saves \in 0 .. MaxSaves
    BY WatcherAssumption DEF Init
<1>8. /\ path \in Paths /\ writing \in BOOLEAN /\ timer \in BOOLEAN /\ overlapped \in BOOLEAN
      /\ missed \in {"no", "unwatched", "ignored"}
      /\ watch \in {"starting", "on", "stopped"}
    BY DEF Init
<1> QED
    BY <1>2, <1>3, <1>4, <1>5, <1>6, <1>7, <1>8 DEF TypeOK

(* A step of the file system keeps the types of what it changes. *)
LEMMA ChangeType ==
    ASSUME TypeOK, NEW doc \in Docs \union Torn, NEW event \in {"write", "other"},
           Change(doc, event), writing' \in BOOLEAN, saves' \in 0 .. MaxSaves
    PROVE  TypeOK'
<1>1. events' \in Seq({"write", "other"})
    BY DEF TypeOK, Change
<1>2. missed' \in {"no", "unwatched", "ignored"} /\ disk' \in Docs \union Torn
    BY DEF Change
<1>3. UNCHANGED <<path, watch, timer, jobs, overlapped, current, cfg, proxy, installed>>
    BY DEF Change, loopVars, liveVars
<1> QED
    BY <1>1, <1>2, <1>3 DEF TypeOK

(* Replacing one goroutine's record keeps the type of jobs. *)
LEMMA JobsType ==
    ASSUME TypeOK, NEW j \in Jobs, NEW b \in JobType,
           jobs' = [jobs EXCEPT ![j] = b]
    PROVE  jobs' \in [Jobs -> JobType]
BY DEF TypeOK

(* The next program counter leaves the carried policy alone. *)
LEMMA GotoJob ==
    ASSUME TypeOK, NEW j \in Jobs,
           NEW pc \in {"idle", "load", "set", "compare", "swap", "assign"},
           Goto(j, pc)
    PROVE  /\ jobs' = [jobs EXCEPT ![j] = [pc |-> pc, policy |-> jobs[j].policy]]
           /\ jobs' \in [Jobs -> JobType]
<1>1. jobs[j] \in JobType
    BY DEF TypeOK
<1>2. [jobs[j] EXCEPT !.pc = pc] = [pc |-> pc, policy |-> jobs[j].policy]
    BY <1>1 DEF JobType
<1>3. [pc |-> pc, policy |-> jobs[j].policy] \in JobType
    BY <1>1 DEF JobType
<1>4. jobs' = [jobs EXCEPT ![j] = [jobs[j] EXCEPT !.pc = pc]]
    BY DEF Goto, TypeOK
<1> QED
    BY <1>2, <1>3, <1>4, JobsType

(* What goroutine j carries, as JobsInv says it of one record b. *)
Carries(b, S) ==
    /\ b.pc \in {"set", "compare", "swap", "assign"} => b.policy \in Policies
    /\ b.pc \in {"compare", "swap", "assign"} => b.policy \in S

(* A step that replaces one goroutine's record and grows installed. *)
LEMMA JobStep ==
    ASSUME TypeOK, JobsInv, NEW j \in Jobs, NEW b \in JobType,
           jobs' = [jobs EXCEPT ![j] = b],
           installed \subseteq installed', Carries(b, installed')
    PROVE  JobsInv' /\ jobs' \in [Jobs -> JobType]
<1>1. jobs' \in [Jobs -> JobType]
    BY JobsType
<1>2. ASSUME NEW k \in Jobs
      PROVE  Carries(jobs'[k], installed')
    <2>1. CASE k = j
        BY <2>1 DEF TypeOK
    <2>2. CASE k # j
        <3>1. jobs'[k] = jobs[k]
            BY <2>2 DEF TypeOK
        <3>2. Carries(jobs[k], installed)
            BY DEF JobsInv, Carries
        <3> QED
            BY <3>1, <3>2 DEF Carries
    <2> QED
        BY <2>1, <2>2
<1> QED
    BY <1>1, <1>2 DEF JobsInv, Carries

(* The steps that leave the goroutines and installed alone. *)
LEMMA JobsQuiet ==
    ASSUME JobsInv, UNCHANGED <<jobs, installed>>
    PROVE  JobsInv'
BY DEF JobsInv

(* Every step keeps the types and what the goroutines carry. *)
LEMMA StepInv == TypeOK /\ JobsInv /\ [Next]_vars => TypeOK' /\ JobsInv'
<1> SUFFICES ASSUME TypeOK, JobsInv, [Next]_vars PROVE TypeOK' /\ JobsInv'
    OBVIOUS
<1>1. ASSUME NEW doc \in Torn, BeginWrite(doc) PROVE TypeOK' /\ JobsInv'
    <2>1. writing' \in BOOLEAN /\ saves' \in 0 .. MaxSaves
        BY <1>1, WatcherAssumption DEF BeginWrite, TypeOK
    <2>2. Change(doc, "write")
        BY <1>1 DEF BeginWrite
    <2> QED
        BY <2>1, <2>2, ChangeType, JobsQuiet DEF Change, liveVars
<1>2. ASSUME NEW doc \in Docs, EndWrite(doc) PROVE TypeOK' /\ JobsInv'
    <2>1. writing' \in BOOLEAN /\ saves' \in 0 .. MaxSaves
        BY <1>2 DEF EndWrite, TypeOK
    <2>2. Change(doc, "write")
        BY <1>2 DEF EndWrite
    <2> QED
        BY <2>1, <2>2, ChangeType, JobsQuiet DEF Change, liveVars
<1>3. ASSUME NEW doc \in Docs, Rename(doc) PROVE TypeOK' /\ JobsInv'
    <2>1. writing' \in BOOLEAN /\ saves' \in 0 .. MaxSaves
        BY <1>3, WatcherAssumption DEF Rename, TypeOK
    <2>2. Change(doc, "other")
        BY <1>3 DEF Rename
    <2> QED
        BY <2>1, <2>2, ChangeType, JobsQuiet DEF Change, liveVars
<1>4. ASSUME AddWatch \/ StartFails \/ Stop PROVE TypeOK' /\ JobsInv'
    BY <1>4, JobsQuiet
       DEF AddWatch, StartFails, Stop, TypeOK, diskVars, liveVars
<1>5. ASSUME HandleEvent PROVE TypeOK' /\ JobsInv'
    <2>1. events' \in Seq({"write", "other"})
        BY <1>5 DEF HandleEvent, TypeOK
    <2>2. timer' \in BOOLEAN
        BY <1>5 DEF HandleEvent
    <2>3. UNCHANGED <<path, disk, writing, saves, missed, overlapped, watch, jobs, current, cfg,
                      proxy, installed>>
        BY <1>5 DEF HandleEvent, diskVars, liveVars
    <2> QED
        BY <2>1, <2>2, <2>3, JobsQuiet DEF TypeOK
<1>6. ASSUME NEW j \in Jobs, TimerFires(j) PROVE TypeOK' /\ JobsInv'
    <2>1. Goto(j, "load") /\ timer' = FALSE
        BY <1>6 DEF TimerFires
    <2>2. UNCHANGED <<path, disk, writing, saves, missed, events, watch, current, cfg,
                      proxy, installed>>
        BY <1>6 DEF TimerFires, diskVars, liveVars
    <2> DEFINE b == [pc |-> "load", policy |-> jobs[j].policy]
    <2>3. jobs' = [jobs EXCEPT ![j] = b] /\ jobs' \in [Jobs -> JobType]
        BY <2>1, GotoJob
    <2>4. b \in JobType /\ Carries(b, installed')
        BY DEF TypeOK, JobType, Carries
    <2> HIDE DEF b
    <2>5. JobsInv'
        BY <2>2, <2>3, <2>4, JobStep
    <2>6. overlapped' \in BOOLEAN
        BY <1>6 DEF TimerFires
    <2> QED
        BY <2>1, <2>2, <2>3, <2>5, <2>6 DEF TypeOK
<1>7. ASSUME NEW j \in Jobs, LoadFile(j) PROVE TypeOK' /\ JobsInv'
    <2> DEFINE b == IF Loadable(disk) THEN [pc |-> "set", policy |-> Load(disk)]
                    ELSE NoJob
    <2>1. jobs' = [jobs EXCEPT ![j] = b]
        BY <1>7 DEF LoadFile
    <2>2. UNCHANGED <<path, disk, writing, saves, missed, overlapped, events, watch, timer, current,
                      cfg, proxy, installed>>
        BY <1>7 DEF LoadFile, diskVars, loopVars, liveVars
    <2>3. b \in JobType /\ Carries(b, installed')
        BY Loadables, NoJobType DEF TypeOK, JobType, Carries, NoJob
    <2> HIDE DEF b
    <2>4. JobsInv' /\ jobs' \in [Jobs -> JobType]
        BY <2>1, <2>2, <2>3, JobStep
    <2> QED
        BY <2>2, <2>4 DEF TypeOK
<1>8. ASSUME NEW j \in Jobs, SetConfig(j) PROVE TypeOK' /\ JobsInv'
    <2> DEFINE b == [pc |-> "compare", policy |-> jobs[j].policy]
    <2>1. /\ cfg' = jobs[j].policy
          /\ installed' = installed \union {jobs[j].policy}
          /\ UNCHANGED <<path, disk, writing, saves, missed, overlapped, events, watch, timer,
                         current, proxy>>
        BY <1>8 DEF SetConfig, diskVars, loopVars
    <2>2. jobs' = [jobs EXCEPT ![j] = b]
        BY <1>8, GotoJob DEF SetConfig
    <2>3. jobs[j].policy \in Policies
        BY <1>8 DEF SetConfig, Running, JobsInv
    <2>4. b \in JobType /\ Carries(b, installed')
        BY <2>1, <2>3 DEF JobType, Carries
    <2> HIDE DEF b
    <2>5. JobsInv' /\ jobs' \in [Jobs -> JobType]
        BY <2>1, <2>2, <2>4, JobStep
    <2> QED
        BY <2>1, <2>3, <2>5 DEF TypeOK
<1>9. ASSUME NEW j \in Jobs, Compare(j) PROVE TypeOK' /\ JobsInv'
    <2>1. UNCHANGED <<path, disk, writing, saves, missed, overlapped, events, watch, timer, current,
                      cfg, proxy, installed>>
        BY <1>9 DEF Compare, diskVars, loopVars, liveVars
    <2>2. PICK b \in {NoJob, [jobs[j] EXCEPT !.pc = "swap"]} :
             jobs' = [jobs EXCEPT ![j] = b]
        BY <1>9 DEF Compare, TypeOK
    <2>3. jobs[j].policy \in Policies /\ jobs[j].policy \in installed
        BY <1>9 DEF Compare, Running, JobsInv
    <2>4. [jobs[j] EXCEPT !.pc = "swap"] = [pc |-> "swap", policy |-> jobs[j].policy]
        BY DEF TypeOK, JobType
    <2>5. b \in JobType /\ Carries(b, installed')
        BY <2>1, <2>2, <2>3, <2>4, NoJobType DEF JobType, Carries, NoJob
    <2>6. JobsInv' /\ jobs' \in [Jobs -> JobType]
        BY <2>1, <2>2, <2>5, JobStep
    <2> QED
        BY <2>1, <2>6 DEF TypeOK
<1>10. ASSUME NEW j \in Jobs, Swap(j) PROVE TypeOK' /\ JobsInv'
    <2>1. UNCHANGED <<path, disk, writing, saves, missed, overlapped, events, watch, timer, current,
                      cfg, installed>>
        BY <1>10 DEF Swap, diskVars, loopVars
    <2>2. jobs[j].policy \in Policies /\ jobs[j].policy \in installed
        BY <1>10 DEF Swap, Running, JobsInv
    <2>3. proxy' \in Upstreams
        BY <1>10, <2>2, UpstreamType DEF Swap, TypeOK
    <2> DEFINE a == [pc |-> "assign", policy |-> jobs[j].policy]
    <2>4. \/ jobs' = [jobs EXCEPT ![j] = a]
          \/ jobs' = [jobs EXCEPT ![j] = NoJob]
        BY <1>10, GotoJob DEF Swap
    <2>5. a \in JobType /\ Carries(a, installed')
        BY <2>1, <2>2 DEF JobType, Carries
    <2>6. Carries(NoJob, installed')
        BY DEF Carries, NoJob
    <2> HIDE DEF a
    <2>7. JobsInv' /\ jobs' \in [Jobs -> JobType]
        BY <2>1, <2>4, <2>5, <2>6, NoJobType, JobStep
    <2> QED
        BY <2>1, <2>3, <2>7 DEF TypeOK
<1>11. ASSUME NEW j \in Jobs, Assign(j) PROVE TypeOK' /\ JobsInv'
    <2>1. UNCHANGED <<path, disk, writing, saves, missed, overlapped, events, watch, timer, cfg,
                      proxy, installed>>
        BY <1>11 DEF Assign, diskVars, loopVars
    <2>2. jobs[j].policy \in Policies
        BY <1>11 DEF Assign, Running, JobsInv
    <2>3. current' \in Upstreams
        BY <1>11, <2>2, UpstreamType DEF Assign
    <2>4. Carries(NoJob, installed')
        BY DEF Carries, NoJob
    <2>5. JobsInv' /\ jobs' \in [Jobs -> JobType]
        BY <1>11, <2>1, <2>4, NoJobType, JobStep DEF Assign
    <2> QED
        BY <2>1, <2>3, <2>5 DEF TypeOK
<1>12. ASSUME UNCHANGED vars PROVE TypeOK' /\ JobsInv'
    BY <1>12, JobsQuiet DEF vars, TypeOK
<1> QED
    BY <1>1, <1>2, <1>3, <1>4, <1>5, <1>6, <1>7, <1>8, <1>9, <1>10, <1>11, <1>12
       DEF Next, Reload

(* Type correctness, for any files, any number of reload goroutines and    *)
(* any bound on saves; in particular the live policy is always one that    *)
(* Load has returned.                                                      *)
THEOREM TypeCorrect == Spec => []TypeOK
<1>1. TypeOK /\ JobsInv /\ [Next]_vars => (TypeOK /\ JobsInv)'
    BY StepInv
<1> QED
    BY InitInv, <1>1, PTL DEF Spec

(* What reload goroutines carry is validated, and installed before the     *)
(* callback runs.                                                          *)
THEOREM JobsCorrect == Spec => []JobsInv
<1>1. TypeOK /\ JobsInv /\ [Next]_vars => (TypeOK /\ JobsInv)'
    BY StepInv
<1> QED
    BY InitInv, <1>1, PTL DEF Spec

-----------------------------------------------------------------------------
(* Refinement.                                                             *)

(* Every step of the watcher is a step of the abstract hot reload or       *)
(* leaves the live policy, the proxy and the history alone.                *)
LEMMA StepRefines ==
    ASSUME TypeOK, JobsInv, [Next]_vars
    PROVE  [Abstract!HotNext]_(Abstract!hotVars)
<1>1. ASSUME NEW j \in Jobs, SetConfig(j) PROVE Abstract!HotNext
    <2>1. jobs[j].policy \in Policies
        BY <1>1 DEF SetConfig, Running, JobsInv
    <2>2. Abstract!Set(jobs[j].policy)
        BY <1>1 DEF SetConfig, Abstract!Set
    <2> QED
        BY <2>1, <2>2 DEF Abstract!HotNext
<1>2. ASSUME NEW j \in Jobs, Swap(j)
      PROVE  Abstract!HotNext \/ UNCHANGED Abstract!hotVars
    <2>1. jobs[j].policy \in installed
        BY <1>2 DEF Swap, Running, JobsInv
    <2>2. CASE jobs[j].policy.upstream \in Dialable
        <3>1. Abstract!UpdateUpstream(jobs[j].policy)
            BY <1>2, <2>2 DEF Swap, Abstract!UpdateUpstream
        <3> QED
            BY <2>1, <3>1 DEF Abstract!HotNext
    <2>3. CASE jobs[j].policy.upstream \notin Dialable
        BY <1>2, <2>3 DEF Swap, Abstract!hotVars
    <2> QED
        BY <2>2, <2>3
<1>3. ASSUME NEW doc \in Docs \union Torn,
             BeginWrite(doc) \/ EndWrite(doc) \/ Rename(doc)
      PROVE  UNCHANGED Abstract!hotVars
    BY <1>3 DEF BeginWrite, EndWrite, Rename, Change, liveVars, Abstract!hotVars
<1>4. ASSUME AddWatch \/ StartFails \/ HandleEvent \/ Stop
      PROVE  UNCHANGED Abstract!hotVars
    BY <1>4 DEF AddWatch, StartFails, HandleEvent, Stop, liveVars, Abstract!hotVars
<1>5. ASSUME NEW j \in Jobs, TimerFires(j) \/ LoadFile(j) \/ Compare(j) \/ Assign(j)
      PROVE  UNCHANGED Abstract!hotVars
    BY <1>5 DEF TimerFires, LoadFile, Compare, Assign, liveVars, Abstract!hotVars
<1>6. ASSUME UNCHANGED vars PROVE UNCHANGED Abstract!hotVars
    BY <1>6 DEF vars, Abstract!hotVars
<1> QED
    BY <1>1, <1>2, <1>3, <1>4, <1>5, <1>6 DEF Next, Reload

(* Any number of overlapping reload goroutines, with any files on disk,    *)
(* implement the abstract hot reload that requests are verified against:   *)
(* whole, validated policies, and proxies for installed upstreams only.    *)
THEOREM RefinesHotReload == Spec => ImplementsHotReload
<1>1. Init => Abstract!HotInit
    <2> SUFFICES ASSUME Init PROVE Abstract!HotInit
        OBVIOUS
    <2>1. cfg \in Policies /\ cfg.upstream \in Dialable
        BY Loadables DEF Init
    <2> QED
        BY <2>1 DEF Init, Abstract!HotInit
<1>2. TypeOK /\ JobsInv /\ [Next]_vars => [Abstract!HotNext]_(Abstract!hotVars)
    BY StepRefines
<1> QED
    BY <1>1, <1>2, TypeCorrect, JobsCorrect, PTL
       DEF Spec, ImplementsHotReload, Abstract!HotSpec

-----------------------------------------------------------------------------
(* Reloads that do not overlap.                                            *)

(* A fact of arithmetic, kept apart from the facts about sequences. *)
LEMMA GreaterDiffers == ASSUME NEW n \in Nat, n > 1 PROVE n # 1
OBVIOUS

(* The events of a file that is given by its directory carry its path. *)
LEMMA EventsNamed ==
    ASSUME TypeOK, DirectoryGiven
    PROVE  eventName(path) = path
<1>1. path \in Seq(STRING) /\ Len(path) \in Nat /\ Len(path) > 1
  BY WatcherAssumption DEF TypeOK, DirectoryGiven
<1>2. clean(parentDir(path)) = SubSeq(path, 1, Len(path) - 1)
  <2>1. Len(path) # 1
    BY <1>1, GreaterDiffers, Zenon
  <2> QED BY <2>1, Zenon DEF DirectoryGiven, parentDir
<1>3. Append(SubSeq(path, 1, Len(path) - 1), path[Len(path)]) = path
  BY <1>1
<1> QED BY <1>2, <1>3 DEF eventName

(* Next to a goroutine that runs, without an overlap, all others are idle. *)
LEMMA Alone ==
    ASSUME SettleInv, ~overlapped, NEW j \in Jobs, ~Running(j, "idle")
    PROVE  \A k \in Jobs : k # j => Running(k, "idle")
  BY DEF SettleInv

(* A step of a goroutine that runs alone, from stage pc to the state job:  *)
(* what SettleInv says of all goroutines it then says of this one.         *)
LEMMA AloneStep ==
    ASSUME TypeOK, SettleInv, ~overlapped, overlapped' = overlapped,
           NEW j \in Jobs, ~Running(j, "idle"), NEW job,
           jobs' = [jobs EXCEPT ![j] = job],
           job.pc = "assign" => proxy' = job.policy.upstream,
           job.pc # "assign" => current' = proxy',
           job.pc \in {"compare", "swap", "assign"} => cfg' = job.policy,
           job.pc \in {"idle", "load", "set"} =>
              (cfg'.upstream \in Dialable => proxy' = cfg'.upstream),
           (Announced /\ ~Pending /\ DirectoryGiven)' =>
              /\ job.pc = "set" => job.policy = Load(disk')
              /\ job.pc # "set" => cfg' = Load(disk')
    PROVE  SettleInv'
<1> USE DEF Running
<1>1. \A k \in Jobs : k # j => jobs'[k].pc = "idle"
  BY Alone DEF TypeOK
<1>2. jobs'[j] = job
  BY DEF TypeOK
<1>3. \A k, l \in Jobs : k # l => Running(k, "idle")' \/ Running(l, "idle")'
  BY <1>1
<1>4. (\A k \in Jobs : ~Running(k, "assign")') => current' = proxy'
  BY <1>2
<1>5. \A k \in Jobs : Running(k, "assign")' => proxy' = jobs'[k].policy.upstream
  BY <1>1, <1>2
<1>6. \A k \in Jobs : Stage(k, {"compare", "swap", "assign"})' => cfg' = jobs'[k].policy
  BY <1>1, <1>2 DEF Stage
<1>7. (\A k \in Jobs : Stage(k, {"idle", "load", "set"})') =>
         (cfg'.upstream \in Dialable => proxy' = cfg'.upstream)
  BY <1>2 DEF Stage
<1>8. (Announced /\ ~Pending /\ DirectoryGiven)' =>
         /\ \A k \in Jobs : Running(k, "set")' => jobs'[k].policy = Load(disk')
         /\ (\A k \in Jobs : ~Running(k, "set")') => cfg' = Load(disk')
  BY <1>1, <1>2
<1> QED BY <1>3, <1>4, <1>5, <1>6, <1>7, <1>8 DEF SettleInv

(* What will be read again, next to a step of a goroutine that runs alone. *)
LEMMA AlonePending ==
    ASSUME TypeOK, SettleInv, ~overlapped, NEW j \in Jobs, ~Running(j, "idle"),
           NEW job, jobs' = [jobs EXCEPT ![j] = job], job.pc # "load",
           UNCHANGED <<events, timer>>, Pending
    PROVE  Running(j, "load") \/ Pending'
<1>1. \A k \in Jobs : Running(k, "load") => k = j
  BY Alone DEF Running
<1> QED BY <1>1 DEF Pending, Running

(* Every step keeps SettleInv. *)
LEMMA SettleStep ==
    ASSUME TypeOK, JobsInv, SettleInv, [Next]_vars
    PROVE  SettleInv'
<1> SUFFICES ASSUME ~overlapped' PROVE SettleInv'
  BY DEF SettleInv
<1> USE DEF Running
<1>0. ~overlapped
  <2>1. overlapped' = overlapped \/ \E j \in Jobs : TimerFires(j)
    BY DEF Next, BeginWrite, EndWrite, Rename, Change, AddWatch, StartFails, HandleEvent,
           Stop, Reload, LoadFile, SetConfig, Compare, Swap, Assign, vars
  <2> QED BY <2>1 DEF TimerFires
<1>1. ASSUME NEW doc \in Docs \union Torn, NEW event \in {"write", "other"},
             Change(doc, event)
      PROVE  SettleInv'
    <2>1. UNCHANGED <<path, timer, jobs, current, cfg, proxy, overlapped>>
        BY <1>1 DEF Change, loopVars, liveVars
    <2>2. ASSUME Announced' PROVE Pending'
        <3>1. events' = Append(events, "write")
            BY <1>1, <2>2 DEF Change, Announced
        <3>2. /\ Len(events') = Len(events) + 1 /\ Len(events) \in Nat
              /\ events'[Len(events) + 1] = "write"
            BY <3>1 DEF TypeOK
        <3> QED
            BY <3>2 DEF Pending
    <2> QED
        BY <2>1, <2>2 DEF SettleInv, Stage
<1>2. ASSUME AddWatch \/ StartFails \/ Stop PROVE SettleInv'
    <2>1. UNCHANGED <<path, disk, missed, events, timer, jobs, current, cfg, proxy, overlapped>>
        BY <1>2 DEF AddWatch, StartFails, Stop, diskVars, liveVars
    <2> QED
        BY <2>1 DEF SettleInv, Announced, Pending, DirectoryGiven, Stage
<1>3. ASSUME HandleEvent PROVE SettleInv'
    <2>1. UNCHANGED <<path, disk, missed, jobs, current, cfg, proxy, overlapped>>
        BY <1>3 DEF HandleEvent, diskVars, liveVars
    <2>2. ASSUME Pending, DirectoryGiven PROVE Pending'
        <3>1. CASE timer \/ \E j \in Jobs : Running(j, "load")
            BY <1>3, <2>1, <3>1 DEF HandleEvent, Pending
        <3>2. ASSUME NEW i \in 1 .. Len(events), events[i] = "write"
              PROVE  Pending'
            <4>1. CASE i = 1
                <5>1. Head(events) = "write"
                    BY <1>3, <3>2, <4>1 DEF HandleEvent, TypeOK
                <5>2. timer'
                    BY <1>3, <2>2, <5>1, EventsNamed, Zenon DEF HandleEvent
                <5> QED
                    BY <5>2 DEF Pending
            <4>2. CASE i # 1
                <5>1. /\ Len(events') = Len(events) - 1 /\ Len(events) \in Nat
                      /\ events'[i - 1] = events[i]
                    BY <1>3, <3>2, <4>2 DEF HandleEvent, TypeOK
                <5>2. i - 1 \in 1 .. Len(events')
                    BY <5>1, <4>2
                <5> QED
                    BY <3>2, <5>1, <5>2 DEF Pending
            <4> QED
                BY <4>1, <4>2
        <3> QED
            BY <2>2, <3>1, <3>2 DEF Pending
    <2> QED
        BY <2>1, <2>2 DEF SettleInv, Announced, DirectoryGiven, Stage
<1>4. ASSUME NEW j \in Jobs, TimerFires(j) PROVE SettleInv'
    <2>1. UNCHANGED <<path, disk, missed, events, current, cfg, proxy>>
        BY <1>4 DEF TimerFires, diskVars, liveVars
    <2>2. \A k \in Jobs : jobs[k].pc = "idle"
        BY <1>4 DEF TimerFires
    <2>3. jobs' = [jobs EXCEPT ![j] = [pc |-> "load", policy |-> jobs[j].policy]]
        BY <1>4, GotoJob DEF TimerFires
    <2>4. jobs'[j].pc = "load" /\ \A k \in Jobs : k # j => jobs'[k].pc = "idle"
        BY <2>2, <2>3 DEF TypeOK
    <2>5. Pending'
        BY <2>4 DEF Pending
    <2>6. current = proxy /\ (cfg.upstream \in Dialable => proxy = cfg.upstream)
        BY <1>0, <2>2 DEF SettleInv, Stage
    <2> QED
        BY <2>1, <2>4, <2>5, <2>6 DEF SettleInv, Stage
<1>5. ASSUME NEW j \in Jobs, LoadFile(j) PROVE SettleInv'
    <2>1. UNCHANGED <<path, disk, missed, events, timer, current, cfg, proxy, overlapped>>
        BY <1>5 DEF LoadFile, diskVars, loopVars, liveVars
    <2>2. jobs[j].pc = "load" /\ \A k \in Jobs : k # j => jobs[k].pc = "idle"
        BY <1>0, <1>5, Alone DEF LoadFile
    <2>3. current = proxy /\ (cfg.upstream \in Dialable => proxy = cfg.upstream)
        BY <1>0, <2>2 DEF SettleInv, Stage
    <2>4. CASE Loadable(disk)
        <3>1. jobs' = [jobs EXCEPT ![j] = [pc |-> "set", policy |-> Load(disk)]]
            BY <1>5, <2>4 DEF LoadFile
        <3> QED
            BY <1>0, <2>1, <2>2, <2>3, <3>1, AloneStep
    <2>5. CASE ~Loadable(disk)
        <3>1. jobs' = [jobs EXCEPT ![j] = NoJob] /\ NoJob.pc = "idle"
            BY <1>5, <2>5 DEF LoadFile, NoJob
        <3>2. ~Announced'
            BY <2>1, <2>5 DEF Announced, Loadable
        <3> QED
            BY <1>0, <2>1, <2>2, <2>3, <3>1, <3>2, AloneStep
    <2> QED
        BY <2>4, <2>5
<1>6. ASSUME NEW j \in Jobs, SetConfig(j) PROVE SettleInv'
    <2>1. /\ cfg' = jobs[j].policy
          /\ UNCHANGED <<path, disk, missed, events, timer, current, proxy, overlapped>>
        BY <1>6 DEF SetConfig, diskVars, loopVars
    <2>2. jobs[j].pc = "set" /\ \A k \in Jobs : k # j => jobs[k].pc = "idle"
        BY <1>0, <1>6, Alone DEF SetConfig
    <2>3. jobs' = [jobs EXCEPT ![j] = [pc |-> "compare", policy |-> jobs[j].policy]]
        BY <1>6, GotoJob DEF SetConfig
    <2>4. current = proxy
        BY <1>0, <2>2 DEF SettleInv
    <2>5. Announced /\ ~Pending /\ DirectoryGiven => jobs[j].policy = Load(disk)
        BY <1>0, <2>2 DEF SettleInv
    <2>6. ASSUME Pending PROVE Pending'
        <3> DEFINE job == [pc |-> "compare", policy |-> jobs[j].policy]
        <3>1. job.pc # "load" /\ jobs' = [jobs EXCEPT ![j] = job]
            BY <2>3
        <3> HIDE DEF job
        <3> QED
            BY <1>0, <2>1, <2>2, <2>6, <3>1, AlonePending
    <2>7. (Announced /\ ~Pending /\ DirectoryGiven)' => cfg' = Load(disk')
        BY <2>1, <2>5, <2>6 DEF Announced, DirectoryGiven
    <2> QED
        BY <1>0, <2>1, <2>2, <2>3, <2>4, <2>7, AloneStep
<1>7. ASSUME NEW j \in Jobs, NEW job, ~Running(j, "idle"),
             jobs[j].pc \in {"compare", "swap", "assign"},
             jobs' = [jobs EXCEPT ![j] = job], job.pc \in {"idle", "swap", "assign"},
             UNCHANGED <<path, disk, missed, events, timer, cfg, overlapped>>,
             job.pc # "idle" => job.policy = jobs[j].policy,
             job.pc = "assign" => proxy' = job.policy.upstream,
             job.pc # "assign" => current' = proxy',
             job.pc = "idle" => (cfg.upstream \in Dialable => proxy' = cfg.upstream)
      PROVE  SettleInv'
    <2>1. \A k \in Jobs : k # j => jobs[k].pc = "idle"
        BY <1>0, <1>7, Alone
    <2>2. cfg = jobs[j].policy /\ (Announced /\ ~Pending /\ DirectoryGiven => cfg = Load(disk))
        BY <1>0, <1>7, <2>1 DEF SettleInv, Stage
    <2>3. Pending => Pending'
        BY <1>0, <1>7, AlonePending
    <2>4. (Announced /\ ~Pending /\ DirectoryGiven)' => cfg' = Load(disk')
        BY <1>7, <2>2, <2>3 DEF Announced, DirectoryGiven
    <2> QED
        BY <1>0, <1>7, <2>2, <2>4, AloneStep
<1>8. ASSUME NEW j \in Jobs, Compare(j) PROVE SettleInv'
    <2>1. UNCHANGED <<path, disk, missed, events, timer, current, cfg, proxy, overlapped>>
        BY <1>8 DEF Compare, diskVars, loopVars, liveVars
    <2>2. jobs[j].pc = "compare" /\ \A k \in Jobs : k # j => jobs[k].pc = "idle"
        BY <1>0, <1>8, Alone DEF Compare
    <2>3. current = proxy /\ cfg = jobs[j].policy
        BY <1>0, <2>2 DEF SettleInv, Stage
    <2>4. \/ jobs' = [jobs EXCEPT ![j] = [@ EXCEPT !.pc = "swap"]]
          \/ jobs' = [jobs EXCEPT ![j] = NoJob] /\ jobs[j].policy.upstream = current
        BY <1>8, <2>2 DEF Compare
    <2>5. [jobs[j] EXCEPT !.pc = "swap"] = [pc |-> "swap", policy |-> jobs[j].policy]
        BY DEF TypeOK, JobType
    <2>6. CASE jobs' = [jobs EXCEPT ![j] = [@ EXCEPT !.pc = "swap"]]
        <3>1. jobs' = [jobs EXCEPT ![j] = [pc |-> "swap", policy |-> jobs[j].policy]]
            BY <2>5, <2>6
        <3> QED
            BY <1>7, <2>1, <2>2, <2>3, <3>1
    <2>7. CASE jobs' = [jobs EXCEPT ![j] = NoJob] /\ jobs[j].policy.upstream = current
        <3>1. NoJob.pc = "idle"
            BY DEF NoJob
        <3> QED
            BY <1>7, <2>1, <2>2, <2>3, <2>7, <3>1
    <2> QED
        BY <2>4, <2>6, <2>7
<1>9. ASSUME NEW j \in Jobs, Swap(j) PROVE SettleInv'
    <2>1. UNCHANGED <<path, disk, missed, events, timer, current, cfg, overlapped>>
        BY <1>9 DEF Swap, diskVars, loopVars
    <2>2. jobs[j].pc = "swap" /\ \A k \in Jobs : k # j => jobs[k].pc = "idle"
        BY <1>0, <1>9, Alone DEF Swap
    <2>3. current = proxy /\ cfg = jobs[j].policy
        BY <1>0, <2>2 DEF SettleInv, Stage
    <2>4. CASE jobs[j].policy.upstream \in Dialable
        <3>1. /\ jobs' = [jobs EXCEPT ![j] = [pc |-> "assign", policy |-> jobs[j].policy]]
              /\ proxy' = jobs[j].policy.upstream
            BY <1>9, <2>4, GotoJob DEF Swap
        <3> QED
            BY <1>7, <2>1, <2>2, <2>3, <3>1
    <2>5. CASE jobs[j].policy.upstream \notin Dialable
        <3>1. jobs' = [jobs EXCEPT ![j] = NoJob] /\ proxy' = proxy /\ NoJob.pc = "idle"
            BY <1>9, <2>5 DEF Swap, NoJob
        <3> QED
            BY <1>7, <2>1, <2>2, <2>3, <2>5, <3>1
    <2> QED
        BY <2>4, <2>5
<1>10. ASSUME NEW j \in Jobs, Assign(j) PROVE SettleInv'
    <2>1. UNCHANGED <<path, disk, missed, events, timer, cfg, proxy, overlapped>>
        BY <1>10 DEF Assign, diskVars, loopVars
    <2>2. /\ jobs[j].pc = "assign" /\ jobs' = [jobs EXCEPT ![j] = NoJob]
          /\ current' = jobs[j].policy.upstream /\ NoJob.pc = "idle"
        BY <1>10 DEF Assign, NoJob
    <2>3. proxy = jobs[j].policy.upstream /\ cfg = jobs[j].policy
        BY <1>0, <2>2 DEF SettleInv, Stage
    <2> QED
        BY <1>7, <2>1, <2>2, <2>3
<1>11. ASSUME UNCHANGED vars PROVE SettleInv'
    BY <1>11 DEF vars, SettleInv, Announced, Pending, DirectoryGiven, Stage
<1> QED
    BY <1>1, <1>2, <1>3, <1>4, <1>5, <1>6, <1>8, <1>9, <1>10, <1>11
       DEF Next, Reload, BeginWrite, EndWrite, Rename

(* The invariant holds in every behaviour of the watcher, whatever form    *)
(* its path has.                                                           *)
THEOREM SettleInductive == Spec => []SettleInv
<1>1. Init => SettleInv
    BY DEF Init, SettleInv, Stage, Running, NoJob
<1>2. TypeOK /\ JobsInv /\ SettleInv /\ [Next]_vars => SettleInv'
    BY SettleStep
<1> QED
    BY <1>1, <1>2, TypeCorrect, JobsCorrect, PTL DEF Spec

(* With a path that gives the file's directory, while reloads have not     *)
(* overlapped, whatever order events, timers, half-written files, failed   *)
(* loads and the end of the watcher come in: with nothing left to do, the  *)
(* announced policy is live and the proxy on its upstream.                 *)
THEOREM Settles == Spec => []SettledInSync
<1>1. SettleInv => SettledInSync
    <2> SUFFICES ASSUME SettleInv, ~overlapped, Idle, Announced, DirectoryGiven
                 PROVE  InSync
        BY DEF SettledInSync
    <2>1. ~Pending /\ \A j \in Jobs : jobs[j].pc = "idle"
        BY DEF Idle, Pending, Running
    <2> QED
        BY <2>1 DEF SettleInv, Stage, Running, InSync
<1> QED
    BY <1>1, SettleInductive, PTL
==============================================================================
