------------------------------- MODULE Watcher ------------------------------
(***************************************************************************)
(* Hot reload as the code does it: the file on disk, fsnotify's events,    *)
(* the loop of Watcher.Start with its debounce timer, and the goroutines   *)
(* that time.AfterFunc starts, each of which runs Watcher.reload and the   *)
(* OnReload callback of cmd/queryguard/main.go.  No lock is held across a  *)
(* reload, and Timer.Stop does not wait for one that has begun.            *)
(***************************************************************************)
EXTENDS Config, Sequences

CONSTANTS Paths,      \* what -config may be: paths, as sequences of components
          Docs,       \* contents the operator may save to policy.yaml
          Torn,       \* contents an unfinished write in place may leave
          SaveModes,  \* how files are saved: subset of {"inplace", "rename"}
          Dialable,   \* as in HotReload
          Jobs,       \* reload goroutines that may be running at one time
          MaxSaves    \* bound on the saves of a behaviour

ASSUME WatcherAssumption ==
    /\ \A p \in Paths : p \in Seq(STRING) /\ p # <<>>
    /\ SaveModes \subseteq {"inplace", "rename"}
    /\ Jobs # {}
    /\ MaxSaves \in Nat

VARIABLES path,       \* the Watcher's path, the -config flag
          disk,       \* the contents of policy.yaml
          writing,    \* an in-place write has begun and not ended
          saves,      \* number of saves so far
          missed,     \* history: why no Write event announces what is on disk
          events,     \* events fsnotify has yet to deliver
          watch,      \* "starting", "on" or "stopped"
          timer,      \* the debounce timer is pending
          jobs,       \* the reload goroutines
          overlapped, \* history: two of them have run at the same time
          current,    \* currentUpstream, captured by main's callback
          cfg, proxy, installed   \* as in HotReload

vars == <<path, disk, writing, saves, missed, events, watch, timer, jobs, overlapped,
          current, cfg, proxy, installed>>

diskVars == <<disk, writing, saves, missed>>
loopVars == <<path, watch, timer>>
liveVars == <<current, cfg, proxy, installed>>

Loadable(doc) == Load(doc) # LoadError

Policies == {Load(d) : d \in {e \in Docs \union Torn : Loadable(e)}}

(* The abstract specification this module implements. *)
Abstract == INSTANCE HotReload WITH cfg <- cfg, proxy <- proxy, installed <- installed

NoJob == [pc |-> "idle", policy |-> LoadError]

(* main has loaded the policy and built the handler; the goroutine that    *)
(* runs Watcher.Start has not added its watch yet.                         *)
Init ==
    /\ path \in Paths
    /\ disk \in {d \in Docs : Loadable(d) /\ Load(d).upstream \in Dialable}
    /\ writing = FALSE /\ saves = 0 /\ missed = "no"
    /\ events = <<>> /\ watch = "starting" /\ timer = FALSE
    /\ jobs = [j \in Jobs |-> NoJob] /\ overlapped = FALSE
    /\ cfg = Load(disk) /\ proxy = cfg.upstream /\ current = cfg.upstream
    /\ installed = {cfg}

-----------------------------------------------------------------------------
(* The operator and the file system (external).                            *)

(* The contents change; the watched directory reports it, once watched. *)
Change(doc, event) ==
    /\ disk' = doc
    /\ events' = IF watch = "on" THEN Append(events, event) ELSE events
    /\ missed' = IF watch # "on" THEN "unwatched"
                 ELSE IF event # "write" THEN "ignored" ELSE "no"
    /\ UNCHANGED <<loopVars, jobs, overlapped, liveVars>>

(* A save in place truncates the file and then fills it. *)
BeginWrite(doc) ==
    /\ "inplace" \in SaveModes /\ ~writing /\ saves < MaxSaves
    /\ writing' = TRUE /\ saves' = saves + 1
    /\ Change(doc, "write")

EndWrite(doc) ==
    /\ writing
    /\ writing' = FALSE /\ UNCHANGED saves
    /\ Change(doc, "write")

(* mv, an editor's rename, or a ConfigMap's symlink swap: no Write event. *)
Rename(doc) ==
    /\ "rename" \in SaveModes /\ ~writing /\ saves < MaxSaves
    /\ saves' = saves + 1 /\ UNCHANGED writing
    /\ Change(doc, "other")

-----------------------------------------------------------------------------
(* Watcher.Start.                                                          *)

(* The path without its last component: "." for a bare name. *)
parentDir(p) == IF Len(p) = 1 THEN <<".">> ELSE SubSeq(p, 1, Len(p) - 1)

(* filepath.Clean, which fsnotify applies to a directory it is to watch    *)
(* (external; paths with ".." are left out).  A path starts with "" when   *)
(* it is absolute; nothing at all is ".".                                  *)
clean(dir) ==
    LET kept == SelectSeq(dir, LAMBDA c : c \notin {"", "."})
        root == IF Len(dir) > 1 /\ Head(dir) = "" THEN <<"">> ELSE <<>>
    IN  IF root # <<>> THEN root \o (IF kept = <<>> THEN <<"">> ELSE kept)
        ELSE IF kept = <<>> THEN <<".">> ELSE kept

(* How fsnotify's inotify backend names the events of the file: by the     *)
(* watched directory and the file's name in it (external).                 *)
eventName(p) == Append(clean(parentDir(p)), p[Len(p)])

AddWatch ==
    /\ watch = "starting"
    /\ watch' = "on"
    /\ UNCHANGED <<path, diskVars, events, timer, jobs, overlapped, liveVars>>

(* fsnotify cannot be set up, the file is gone or its directory cannot be  *)
(* watched: Start returns an error, main logs it and serves on.            *)
StartFails ==
    /\ watch = "starting"
    /\ watch' = "stopped"
    /\ UNCHANGED <<path, diskVars, events, timer, jobs, overlapped, liveVars>>

(* Mutant: a write during a reload is taken to be covered by it. *)
HandleEvent_Dropped ==
    /\ watch = "on" /\ events # <<>>
    /\ events' = Tail(events)
    /\ timer' = (timer \/ (/\ Head(events) = "write" /\ eventName(path) = path
                           /\ \A j \in Jobs : jobs[j].pc = "idle"))
    /\ UNCHANGED <<path, diskVars, watch, jobs, overlapped, liveVars>>

(* Only Write events count, and only those whose name is the path as it    *)
(* was given.  A pending timer is replaced by a new one; one that has      *)
(* fired is left to run.                                                   *)
HandleEvent ==
    /\ watch = "on" /\ events # <<>>
    /\ events' = Tail(events)
    /\ timer' = (timer \/ (Head(events) = "write" /\ eventName(path) = path))
    /\ UNCHANGED <<path, diskVars, watch, jobs, overlapped, liveVars>>

(* The context is cancelled on shutdown; nothing stops a pending timer. *)
Stop ==
    /\ watch = "on"
    /\ watch' = "stopped"
    /\ UNCHANGED <<path, diskVars, events, timer, jobs, overlapped, liveVars>>

-----------------------------------------------------------------------------
(* The function given to time.AfterFunc.                                   *)

Running(j, pc) == jobs[j].pc = pc

Goto(j, pc) == jobs' = [jobs EXCEPT ![j].pc = pc]

TimerFires(j) ==
    /\ timer /\ Running(j, "idle")
    /\ timer' = FALSE
    /\ Goto(j, "load")
    /\ overlapped' = (overlapped \/ \E k \in Jobs : ~Running(k, "idle"))
    /\ UNCHANGED <<path, diskVars, events, watch, liveVars>>

(* Mutant: Load's error is dropped. *)
LoadFile_NoErrorCheck(j) ==
    /\ Running(j, "load")
    /\ jobs' = [jobs EXCEPT ![j] = [pc |-> "set", policy |-> Load(disk)]]
    /\ UNCHANGED <<diskVars, events, loopVars, overlapped, liveVars>>

(* Load; on any error the previous policy stays. *)
LoadFile(j) ==
    /\ Running(j, "load")
    /\ jobs' = [jobs EXCEPT ![j] = IF Loadable(disk)
                                   THEN [pc |-> "set", policy |-> Load(disk)]
                                   ELSE NoJob]
    /\ UNCHANGED <<diskVars, events, loopVars, overlapped, liveVars>>

SetConfig(j) ==
    /\ Running(j, "set")
    /\ cfg' = jobs[j].policy
    /\ installed' = installed \union {jobs[j].policy}
    /\ Goto(j, "compare")
    /\ UNCHANGED <<diskVars, events, loopVars, overlapped, current, proxy>>

(* Mutant: the callback compares with the policy that was just set. *)
Compare_WithLive(j) ==
    /\ Running(j, "compare")
    /\ jobs' = [jobs EXCEPT ![j] = IF jobs[j].policy.upstream # cfg.upstream
                                   THEN [@ EXCEPT !.pc = "swap"] ELSE NoJob]
    /\ UNCHANGED <<diskVars, events, loopVars, overlapped, liveVars>>

(* np.Upstream.URL != currentUpstream.  The variable is shared without a   *)
(* lock: next to another goroutine's assignment the comparison may go      *)
(* either way.                                                             *)
Compare(j) ==
    LET upstream == jobs[j].policy.upstream
        racing == \E k \in Jobs \ {j} : Running(k, "assign")
    IN  /\ Running(j, "compare")
        /\ \E differs \in (IF racing THEN BOOLEAN ELSE {upstream # current}) :
              jobs' = [jobs EXCEPT ![j] = IF differs THEN [@ EXCEPT !.pc = "swap"]
                                          ELSE NoJob]
        /\ UNCHANGED <<diskVars, events, loopVars, overlapped, liveVars>>

(* Mutant: newReverseProxy accepts any URL. *)
Swap_Unchecked(j) ==
    /\ Running(j, "swap")
    /\ proxy' = jobs[j].policy.upstream
    /\ Goto(j, "assign")
    /\ UNCHANGED <<diskVars, events, loopVars, overlapped, cfg, installed, current>>

(* handler.UpdateUpstream; an error is logged and current keeps its value. *)
Swap(j) ==
    LET upstream == jobs[j].policy.upstream
    IN  /\ Running(j, "swap")
        /\ IF upstream \in Dialable
           THEN proxy' = upstream /\ Goto(j, "assign")
           ELSE UNCHANGED proxy /\ jobs' = [jobs EXCEPT ![j] = NoJob]
        /\ UNCHANGED <<diskVars, events, loopVars, overlapped, cfg, installed, current>>

Assign(j) ==
    /\ Running(j, "assign")
    /\ current' = jobs[j].policy.upstream
    /\ jobs' = [jobs EXCEPT ![j] = NoJob]
    /\ UNCHANGED <<diskVars, events, loopVars, overlapped, cfg, installed, proxy>>

Reload(j) == LoadFile(j) \/ SetConfig(j) \/ Compare(j) \/ Swap(j) \/ Assign(j)

Next ==
    \/ \E doc \in Torn : BeginWrite(doc)
    \/ \E doc \in Docs : EndWrite(doc) \/ Rename(doc)
    \/ AddWatch \/ StartFails \/ HandleEvent \/ Stop
    \/ \E j \in Jobs : TimerFires(j) \/ Reload(j)

(* The watcher goroutine, timers and reload goroutines run; a write that   *)
(* has begun ends.  Saving and stopping are never forced.                  *)
Fairness ==
    /\ WF_vars(AddWatch \/ StartFails)
    /\ WF_vars(HandleEvent)
    /\ WF_vars(\E doc \in Docs : EndWrite(doc))
    /\ WF_vars(\E j \in Jobs : TimerFires(j))
    /\ \A j \in Jobs : WF_vars(Reload(j))

Spec == Init /\ [][Next]_vars

FairSpec == Spec /\ Fairness

-----------------------------------------------------------------------------
JobType == [pc : {"idle", "load", "set", "compare", "swap", "assign"},
            policy : Policies \union {LoadError}]

Upstreams == {p.upstream : p \in Policies}

(* Every variable holds a value of its type. *)
TypeOK ==
    /\ path \in Paths
    /\ disk \in Docs \union Torn
    /\ writing \in BOOLEAN /\ timer \in BOOLEAN /\ overlapped \in BOOLEAN
    /\ missed \in {"no", "unwatched", "ignored"}
    /\ saves \in 0 .. MaxSaves
    /\ events \in Seq({"write", "other"})
    /\ watch \in {"starting", "on", "stopped"}
    /\ jobs \in [Jobs -> JobType]
    /\ cfg \in Policies /\ installed \subseteq Policies
    /\ current \in Upstreams /\ proxy \in Upstreams

Idle == ~timer /\ events = <<>> /\ \A j \in Jobs : Running(j, "idle")

(* What is on disk can be loaded, and an event has told of it. *)
Announced == missed = "no" /\ Loadable(disk)

(* The live policy is the one on disk, and the proxy targets its upstream  *)
(* (unless no proxy can be built for that upstream).                       *)
InSync ==
    /\ cfg = Load(disk)
    /\ cfg.upstream \in Dialable => proxy = cfg.upstream

(* The path names the file by a directory, and that directory in its       *)
(* shortest form: /etc/query-guard/policy.yaml or ./policy.yaml, but not   *)
(* the bare policy.yaml, which is the flag's default.                      *)
DirectoryGiven == Len(path) > 1 /\ clean(parentDir(path)) = parentDir(path)

(* With a path that gives the file's directory, and as long as no two      *)
(* reloads have overlapped: once nothing is left to do, the live policy    *)
(* and proxy are those of the last contents that an event announced,       *)
(* whatever order events, timers and half-written files came in; also when *)
(* the watcher was stopped meanwhile, with a timer pending or not.         *)
SettledInSync == ~overlapped /\ Idle /\ Announced /\ DirectoryGiven => InSync

(* Contents that stay on disk, were announced and can be loaded are in     *)
(* force from some moment on, unless the watcher is stopped, reloads have  *)
(* overlapped or the path does not give the file's directory.              *)
EventuallyInSync ==
    DirectoryGiven => (<>[](watch = "on" /\ Announced /\ ~overlapped) => <>[]InSync)

(* The goroutines of reloads, however many overlap, only ever install      *)
(* validated policies whole, and build proxies for installed ones only:    *)
(* they implement the abstract hot reload that requests run against.       *)
ImplementsHotReload == Abstract!HotSpec

-----------------------------------------------------------------------------
(* What a reload goroutine carries from step to step: a policy that Load   *)
(* returned, which has been installed by the time the callback runs.       *)
JobsInv ==
    \A j \in Jobs :
        /\ jobs[j].pc \in {"set", "compare", "swap", "assign"} =>
              jobs[j].policy \in Policies
        /\ jobs[j].pc \in {"compare", "swap", "assign"} =>
              jobs[j].policy \in installed

(* The file will be read again. *)
Pending ==
    \/ timer
    \/ \E i \in 1 .. Len(events) : events[i] = "write"
    \/ \E j \in Jobs : Running(j, "load")

Stage(j, pcs) == jobs[j].pc \in pcs

(* The inductive invariant behind SettledInSync.  Without an overlap one   *)
(* goroutine at most is running; currentUpstream tells what the proxy      *)
(* targets except between the swap and the assignment; after Set the       *)
(* callback works on the live policy; a goroutine that is through has      *)
(* brought the proxy in line; and contents of a file given by directory    *)
(* that were announced and will not be read again are on their way to      *)
(* being live, or live.                                                    *)
SettleInv ==
    ~overlapped =>
        /\ \A j, k \in Jobs : j # k => Running(j, "idle") \/ Running(k, "idle")
        /\ (\A j \in Jobs : ~Running(j, "assign")) => current = proxy
        /\ \A j \in Jobs : Running(j, "assign") => proxy = jobs[j].policy.upstream
        /\ \A j \in Jobs : Stage(j, {"compare", "swap", "assign"}) => cfg = jobs[j].policy
        /\ (\A j \in Jobs : Stage(j, {"idle", "load", "set"})) =>
              (cfg.upstream \in Dialable => proxy = cfg.upstream)
        /\ Announced /\ ~Pending /\ DirectoryGiven =>
              /\ \A j \in Jobs : Running(j, "set") => jobs[j].policy = Load(disk)
              /\ (\A j \in Jobs : ~Running(j, "set")) => cfg = Load(disk)
=============================================================================
