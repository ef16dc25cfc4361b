---------------------------- MODULE MemberLifecycle ----------------------------
(***************************************************************************)
(* The life of one Agent Member with a Matrix channel: the Member          *)
(* reconciler seeds its workspace, writes its runtime configuration and    *)
(* creates its Pod; Matrix setup provides its credentials; the container   *)
(* pulls the workspace and reports ready over HTTP; the reconciler turns   *)
(* the report into status.phase. The Member may be deleted and created     *)
(* again under its name.                                                   *)
(*                                                                         *)
(* Everything in the controller reads through an informer cache, and       *)
(* writes to the API server, which refuses an update made from an old      *)
(* version. `versions' holds the Member from the cache's copy (the first)  *)
(* to the API server's (the last); `pods' does the same for its Pod. Two   *)
(* versions are the same when their fields are: no field but the phase     *)
(* ever goes back, and only the reconciler writes that one.                *)
(***************************************************************************)
EXTENDS Naturals, Sequences

CONSTANTS
  MaxBirths,      \* bound: how often a Member of this name is created
  MaxFaults,      \* bound: failed calls, crashes and evictions together
  MaxTries        \* attempts of the entrypoint to report ready

ASSUME BoundsAssumption == MaxBirths \in Nat /\ MaxFaults \in Nat /\ MaxTries \in Nat \ {0}

VARIABLES
  versions,       \* the Member: from the informer's copy to the API server's
  pods,           \* its Pod, likewise
  queued,         \* the work queue has the Member
  work,           \* the reconciler's one worker
  files,          \* the files of the workspace in the object store
  credentials,    \* the Secret with its Matrix token, and its rooms, exist
  agent,          \* the container
  births,
  faults

vars == <<versions, pods, queued, work, files, credentials, agent, births, faults>>

File == {"SOUL.md", "AGENTS.md", "openclaw.json"}
SeedOrder == <<"SOUL.md", "AGENTS.md", "openclaw.json">>

Phase == {"", "Waiting", "Ready", "NotReady"}
Member == [uid : 0 .. MaxBirths, finalizer : BOOLEAN, deleting : BOOLEAN,
           reported : BOOLEAN, phase : Phase, mxid : BOOLEAN]
Born(u) == [uid |-> u, finalizer |-> FALSE, deleting |-> FALSE,
            reported |-> FALSE, phase |-> "", mxid |-> FALSE]
NoMember == Born(0)

PodState == {"none", "live", "terminating"}
Step == {"idle", "addFinalizer", "stat", "seed", "runtime", "execute", "status",
         "deletePod", "removeFinalizer"}
Worker == [step : Step, obj : Member, pos : 1 .. 3, ok : BOOLEAN]
Idle == [step |-> "idle", obj |-> NoMember, pos |-> 1, ok |-> TRUE]

Container == [step : {"none", "pull", "run", "done", "silent"}, uid : 0 .. MaxBirths,
              tries : 0 .. MaxTries]
NoContainer == [step |-> "none", uid |-> 0, tries |-> 0]

TypeOK ==
  /\ versions \in Seq(Member) /\ versions # <<>>
  /\ pods \in Seq(PodState) /\ pods # <<>>
  /\ queued \in BOOLEAN
  /\ work \in Worker
  /\ files \subseteq File
  /\ credentials \in BOOLEAN
  /\ agent \in Container
  /\ agent.step = "run" => agent.tries < MaxTries
  /\ births \in 0 .. MaxBirths
  /\ faults \in 0 .. MaxFaults

Init ==
  /\ versions = <<NoMember>>
  /\ pods = <<"none">>
  /\ queued = FALSE
  /\ work = Idle
  /\ files = {}
  /\ credentials = FALSE
  /\ agent = NoContainer
  /\ births = 0
  /\ faults = 0

Cached == Head(versions)
Current == versions[Len(versions)]
Pod == pods[Len(pods)]

(* A write that changes nothing makes no version.                           *)
Written(m) == IF m = Current THEN versions ELSE Append(versions, m)
PodBecomes(p) == IF p = Pod THEN pods ELSE Append(pods, p)

Fault == faults < MaxFaults /\ faults' = faults + 1
NoFault == UNCHANGED faults

--------------------------------------------------------------------------------
(* The user, and the informer.                                              *)

CreateMember ==
  /\ Current = NoMember
  /\ births < MaxBirths
  /\ births' = births + 1
  /\ versions' = Written(Born(births'))
  /\ UNCHANGED <<pods, queued, work, files, credentials, agent, faults>>

(* The API server keeps a deleted Member for as long as it has a finalizer. *)
DeleteMember ==
  /\ Current # NoMember
  /\ versions' = Written(IF Current.finalizer THEN [Current EXCEPT !.deleting = TRUE] ELSE NoMember)
  /\ UNCHANGED <<pods, queued, work, files, credentials, agent, births, faults>>

(* Versions of the Member wake the reconciler; nothing watches Pods.        *)
MemberArrives ==
  /\ Len(versions) > 1
  /\ versions' = Tail(versions)
  /\ queued' = TRUE
  /\ UNCHANGED <<pods, work, files, credentials, agent, births, faults>>

(* The informer's resync, or the version that a new LastTransitionTime makes *)
(* of a status which is otherwise the same.                                 *)
Resync ==
  /\ Cached # NoMember
  /\ queued' = TRUE
  /\ UNCHANGED <<versions, pods, work, files, credentials, agent, births, faults>>

PodArrives ==
  /\ Len(pods) > 1
  /\ pods' = Tail(pods)
  /\ UNCHANGED <<versions, queued, work, files, credentials, agent, births, faults>>

--------------------------------------------------------------------------------
(* MemberReconciler.Reconcile, from one call to the next.                   *)

Goto(step) == work' = [work EXCEPT !.step = step]
(* An error, or RequeueAfter.                                               *)
Again == work' = Idle /\ queued' = TRUE
(* NotReady is written before the retry.                                    *)
NotReady == work' = [work EXCEPT !.step = "status", !.ok = FALSE]

(* Mutant: work starts without the finalizer.                               *)
FirstStepUnguarded(m) ==
  IF m = NoMember THEN "idle"
  ELSE IF m.deleting THEN (IF m.finalizer THEN "deletePod" ELSE "idle")
  ELSE "stat"

FirstStep(m) ==
  IF m = NoMember THEN "idle"
  ELSE IF m.deleting THEN (IF m.finalizer THEN "deletePod" ELSE "idle")
  ELSE IF m.finalizer THEN "stat" ELSE "addFinalizer"

Reconcile ==
  /\ work.step = "idle"
  /\ queued
  /\ queued' = FALSE
  /\ work' = [Idle EXCEPT !.step = FirstStep(Cached), !.obj = Cached]
  /\ UNCHANGED <<versions, pods, files, credentials, agent, births, faults>>

(* The API server takes an update made from its own version only.           *)
Refused == (work.obj # Current /\ NoFault) \/ Fault

Update(m) == work.obj = Current /\ versions' = Written(m) /\ NoFault

AddFinalizer ==
  /\ work.step = "addFinalizer"
  /\ \/ Update([work.obj EXCEPT !.finalizer = TRUE]) /\ work' = Idle /\ UNCHANGED queued
     \/ Refused /\ Again /\ UNCHANGED versions
  /\ UNCHANGED <<pods, files, credentials, agent, births>>

(* EnsureMemberWorkspace looks for SOUL.md only, takes every error for its  *)
(* absence, and writes the three files one by one. (Skills are not          *)
(* modelled: each is one file with a look of its own.)                      *)
Stat ==
  /\ work.step = "stat"
  /\ \/ "SOUL.md" \in files /\ NoFault /\ Goto("runtime")
     \/ "SOUL.md" \notin files /\ NoFault /\ Goto("seed")
     \/ Fault /\ Goto("seed")
  /\ UNCHANGED <<versions, pods, queued, files, credentials, agent, births>>

Seed ==
  /\ work.step = "seed"
  /\ \/ /\ files' = files \union {SeedOrder[work.pos]}
        /\ IF work.pos < 3 THEN work' = [work EXCEPT !.pos = @ + 1] ELSE Goto("runtime")
        /\ NoFault
     \/ Fault /\ NotReady /\ UNCHANGED files
  /\ UNCHANGED <<versions, pods, queued, credentials, agent, births>>

(* Mutant: the Pod does not wait for the configuration.                     *)
ApplyRuntimeOrNot ==
  /\ work.step = "runtime"
  /\ Goto("execute")
  /\ NoFault
  /\ UNCHANGED <<versions, pods, queued, files, credentials, agent, births>>

Configurable == credentials /\ "openclaw.json" \in files

(* Adapter.Apply: without credentials, rooms or openclaw.json, try again;   *)
(* otherwise openclaw.json is written with the Matrix channel.              *)
ApplyRuntime ==
  /\ work.step = "runtime"
  /\ \/ Configurable /\ NoFault /\ Goto("execute")
     \/ ((~Configurable /\ NoFault) \/ Fault) /\ NotReady
  /\ UNCHANGED <<versions, pods, queued, files, credentials, agent, births>>

(* Backend.Apply: any Pod of that name will do; it is looked for in the     *)
(* cache and created in the API server.                                     *)
ApplyExecution ==
  /\ work.step = "execute"
  /\ \/ /\ Head(pods) # "none"
        /\ Goto("status")
        /\ NoFault
        /\ UNCHANGED <<pods, agent>>
     \/ /\ Head(pods) = "none" /\ Pod = "none"
        /\ pods' = PodBecomes("live")
        /\ agent' = [NoContainer EXCEPT !.step = "pull", !.uid = work.obj.uid]
        /\ Goto("status")
        /\ NoFault
     \/ /\ (Head(pods) = "none" /\ Pod # "none" /\ NoFault) \/ Fault
        /\ NotReady
        /\ UNCHANGED <<pods, agent>>
  /\ UNCHANGED <<versions, queued, files, credentials, births>>

NextPhase == IF ~work.ok THEN "NotReady" ELSE IF work.obj.reported THEN "Ready" ELSE "Waiting"

(* Mutant: the last writer of the status wins.                              *)
WriteStatusBlindly ==
  /\ work.step = "status"
  /\ Current # NoMember
  /\ versions' = Written([Current EXCEPT !.phase = NextPhase, !.mxid = work.obj.mxid])
  /\ work' = Idle
  /\ queued' = (queued \/ ~work.ok)
  /\ NoFault
  /\ UNCHANGED <<pods, files, credentials, agent, births>>

(* The report and the user ID are those of the version that was read.       *)
WriteStatus ==
  /\ work.step = "status"
  /\ \/ /\ \E found \in BOOLEAN :
             Update([work.obj EXCEPT !.phase = NextPhase, !.mxid = @ \/ found])
        /\ work' = Idle
        /\ queued' = (queued \/ ~work.ok)
     \/ Refused /\ Again /\ UNCHANGED versions
  /\ UNCHANGED <<pods, files, credentials, agent, births>>

(* finalize: Backend.Delete looks for the Pod in the cache; its errors are  *)
(* ignored.                                                                 *)
DeletePod ==
  /\ work.step = "deletePod"
  /\ \/ /\ Head(pods) # "none" /\ Pod = "live"
        /\ pods' = PodBecomes("terminating")
        /\ NoFault
     \/ /\ (Head(pods) = "none" \/ Pod # "live") /\ NoFault
        /\ UNCHANGED pods
     \/ Fault /\ UNCHANGED pods
  /\ Goto("removeFinalizer")
  /\ UNCHANGED <<versions, queued, files, credentials, agent, births>>

(* Mutant: a refused update is not tried again.                             *)
RemoveFinalizerOnce ==
  /\ work.step = "removeFinalizer"
  /\ \/ Update(NoMember) /\ UNCHANGED queued
     \/ Refused /\ UNCHANGED <<versions, queued>>
  /\ work' = Idle
  /\ UNCHANGED <<pods, files, credentials, agent, births>>

(* Without its last finalizer the deleted Member is gone.                   *)
RemoveFinalizer ==
  /\ work.step = "removeFinalizer"
  /\ \/ Update(NoMember) /\ work' = Idle /\ UNCHANGED queued
     \/ Refused /\ Again /\ UNCHANGED versions
  /\ UNCHANGED <<pods, files, credentials, agent, births>>

--------------------------------------------------------------------------------
(* Matrix setup, every 20 seconds: an account and its token, the rooms, and *)
(* the user ID in the status, from the cache's version and without a retry. *)

SetupMatrix ==
  /\ Cached # NoMember
  /\ credentials' = TRUE
  /\ IF Cached = Current THEN versions' = Written([Cached EXCEPT !.mxid = TRUE]) ELSE UNCHANGED versions
  /\ UNCHANGED <<pods, queued, work, files, agent, births, faults>>

--------------------------------------------------------------------------------
(* The container.                                                           *)

(* The entrypoint copies the workspace; a file that is missing ends it, and *)
(* it is started again. (Its push loop writes back files that are there;    *)
(* what they say is left out here.)                                         *)
Pull ==
  /\ agent.step = "pull"
  /\ files = File
  /\ agent' = [agent EXCEPT !.step = "run", !.tries = 0]
  /\ UNCHANGED <<versions, pods, queued, work, files, credentials, births, faults>>

(* Mutant: the report is remembered, the Member is not touched.             *)
ReportToMemory ==
  /\ agent.step = "run"
  /\ Cached # NoMember
  /\ agent' = [agent EXCEPT !.step = "done"]
  /\ UNCHANGED <<versions, pods, queued, work, files, credentials, births, faults>>

(* handleMemberReady: nothing to do when the cache's copy has the           *)
(* annotation; otherwise a patch by name, which no version can refuse.      *)
Report ==
  /\ agent.step = "run"
  /\ Cached # NoMember
  /\ \/ Cached.reported /\ UNCHANGED versions
     \/ ~Cached.reported /\ Current # NoMember /\ versions' = Written([Current EXCEPT !.reported = TRUE])
  /\ agent' = [agent EXCEPT !.step = "done"]
  /\ UNCHANGED <<pods, queued, work, files, credentials, births, faults>>

(* 404, 500 or no answer: the entrypoint tries again, 24 times in all.      *)
ReportFails ==
  /\ agent.step = "run"
  /\ \/ NoFault /\ (Cached = NoMember \/ (~Cached.reported /\ Current = NoMember))
     \/ Fault
  /\ agent' = [agent EXCEPT !.tries = @ + 1,
                            !.step = IF agent.tries + 1 = MaxTries THEN "silent" ELSE @]
  /\ UNCHANGED <<versions, pods, queued, work, files, credentials, births>>

--------------------------------------------------------------------------------
(* What the cluster does.                                                   *)

(* RestartPolicy Always.                                                    *)
ContainerCrashes ==
  /\ Fault
  /\ agent.step \notin {"none", "pull"}
  /\ Pod = "live"
  /\ agent' = [agent EXCEPT !.step = "pull"]
  /\ UNCHANGED <<versions, pods, queued, work, files, credentials, births>>

PodIsEvicted ==
  /\ Fault
  /\ Pod = "live"
  /\ pods' = PodBecomes("terminating")
  /\ UNCHANGED <<versions, queued, work, files, credentials, agent, births>>

(* A deleted Pod has a grace period, in which its container goes on.        *)
PodEnds ==
  /\ Pod = "terminating"
  /\ pods' = PodBecomes("none")
  /\ agent' = NoContainer
  /\ UNCHANGED <<versions, queued, work, files, credentials, births, faults>>

(* A new controller lists everything.                                       *)
ControllerRestarts ==
  /\ Fault
  /\ work' = Idle
  /\ versions' = <<Current>>
  /\ pods' = <<Pod>>
  /\ queued' = (Current # NoMember)
  /\ UNCHANGED <<files, credentials, agent, births>>

User == CreateMember \/ DeleteMember
WorkerStep ==
  \/ Reconcile \/ AddFinalizer \/ Stat \/ Seed \/ ApplyRuntime \/ ApplyExecution
  \/ WriteStatus \/ DeletePod \/ RemoveFinalizer
Reports == Report \/ ReportFails
Cluster == ContainerCrashes \/ PodIsEvicted \/ ControllerRestarts

Next ==
  \/ User \/ MemberArrives \/ Resync \/ PodArrives \/ WorkerStep \/ SetupMatrix
  \/ Pull \/ Reports \/ PodEnds \/ Cluster

Spec == Init /\ [][Next]_vars

(* The informers, the worker, the ticker of the setup and the container all *)
(* go on; the bound on faults says that calls do not fail for ever.         *)
FairSpec ==
  /\ Spec
  /\ WF_vars(MemberArrives) /\ WF_vars(PodArrives)
  /\ WF_vars(WorkerStep)
  /\ WF_vars(SetupMatrix)
  /\ WF_vars(Pull) /\ WF_vars(Reports)
  /\ WF_vars(PodEnds)

--------------------------------------------------------------------------------
(* Properties.                                                              *)

(* A Pod is created only for a Member that exists and has the finalizer, so *)
(* that no deletion can pass it by: whatever the cache showed when the      *)
(* reconciler began.                                                        *)
PodsNeedTheFinalizer ==
  [][Pod = "none" /\ Pod' = "live" =>
       /\ Current.finalizer
       /\ agent'.uid = Current.uid]_vars

(* Why: the inductive invariant behind PodsNeedTheFinalizer.                *)
(* A version with the finalizer that is not being deleted is followed by    *)
(* versions of the same Member that have it too, as long as nobody has seen *)
(* the deletion; and a deletion is never taken back.                        *)
Precedes(a, b) ==
  /\ a.finalizer /\ ~a.deleting => b.uid = a.uid /\ b.finalizer
  /\ a.uid = b.uid /\ a.deleting => b.deleting

VersionsFollow ==
  \A i, j \in DOMAIN versions : i <= j => Precedes(versions[i], versions[j])

VersionsAreBorn ==
  \A i \in DOMAIN versions :
    versions[i].uid <= births /\ (versions[i].uid = 0 => versions[i] = NoMember)

Preparing == {"stat", "seed", "runtime", "execute", "status"}
Removing == {"deletePod", "removeFinalizer"}

(* The worker's copy may be old, but while it prepares a Pod its Member     *)
(* cannot go away, and it removes only what every version says is deleted.  *)
WorkIsLawful ==
  /\ work.step # "idle" => work.obj.uid \in 1 .. births
  /\ work.step \in Preparing => Current.uid = work.obj.uid /\ Current.finalizer
  /\ work.step \in Removing =>
       \A i \in DOMAIN versions : versions[i].uid = work.obj.uid => versions[i].deleting

MemberInv == TypeOK /\ VersionsFollow /\ VersionsAreBorn /\ WorkIsLawful

SameMember == Current # NoMember /\ Current'.uid = Current.uid

(* The reconciler and the Matrix setup both write the status they read      *)
(* before: neither takes back the user ID the other found, and a phase is   *)
(* never derived from an annotation that has changed since.                 *)
StatusWritersDoNotUndo ==
  [][SameMember =>
       /\ Current.mxid => Current'.mxid
       /\ Current'.phase # Current.phase /\ Current'.phase = "Waiting" => ~Current.reported
       /\ Current'.phase # Current.phase /\ Current'.phase = "Ready" => Current.reported]_vars

(* A Pod waits for the account, the token and the rooms of its Member, and  *)
(* for the whole workspace, after any failure of the seeding too.           *)
PodsWaitForTheirSetup ==
  [][Pod = "none" /\ Pod' = "live" => credentials /\ files = File]_vars

(* Why: files are written in one order, and the next step of the worker is  *)
(* the Pod only when the last of them is there.                             *)
SeedingIsInOrder ==
  /\ "openclaw.json" \in files => files = File
  /\ work.step = "stat" => work.pos = 1
  /\ work.step = "seed" => \A i \in 1 .. 3 : i < work.pos => SeedOrder[i] \in files
  /\ work.step = "execute" => Configurable

HasItsPod ==
  /\ Current # NoMember /\ ~Current.deleting
  /\ Pod = "live"
  /\ agent.uid = Current.uid
  /\ agent.step # "silent"

(* A Member whose own Pod goes on running, and did not give up reporting,   *)
(* becomes Ready and stays so: no conflict, restart or lost wake-up keeps   *)
(* it waiting.                                                              *)
RunningPodsGetReady == <>[]HasItsPod => <>[](Current.phase = "Ready")

(* A deleted Member is gone in the end.                                     *)
DeletionCompletes == Current.deleting ~> ~Current.deleting

(* The safety behind both: while the Member is to be removed, or its report *)
(* is to become its phase, a version is on its way to the reconciler, or it *)
(* is queued, or the worker has it in hand; and what its own container has  *)
(* reported, and will not report again, is on record.                       *)
Attended == Len(versions) > 1 \/ queued \/ work.step # "idle"
ReportIsOnRecord == agent.step = "done" /\ agent.uid = Current.uid => Current.reported

NothingIsForgotten ==
  /\ Current.deleting \/ (Current.reported /\ Current.phase # "Ready") => Attended
  /\ ReportIsOnRecord

(* Why: the worker never begins with a version it has nothing to do for,    *)
(* and what it writes from the last version is what was missing there.      *)
WorkIsOfUse ==
  /\ \A i \in DOMAIN versions : versions[i].deleting => versions[i].finalizer
  /\ work.step \in Preparing \union {"addFinalizer"} => ~work.obj.deleting
  /\ work.step = "addFinalizer" => ~work.obj.finalizer

(* And: a later version is of the same life or of a later one, and keeps    *)
(* the report of its own; no container is of a later life than the version  *)
(* in the cache, which alone decides whether its report is needed.          *)
LivesFollow(a, b) ==
  b.uid # 0 => a.uid <= b.uid /\ (a.uid = b.uid /\ a.reported => b.reported)

NotAhead(m) ==
  m.uid # 0 => agent.uid <= m.uid /\ (work.step # "idle" => work.obj.uid <= m.uid)

ReportsStay ==
  /\ \A i, j \in DOMAIN versions : i <= j => LivesFollow(versions[i], versions[j])
  /\ \A i \in DOMAIN versions : NotAhead(versions[i])
  /\ agent.uid <= births
  /\ agent.step # "none" => agent.uid # 0
================================================================================
