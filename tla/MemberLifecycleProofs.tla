------------------------ MODULE MemberLifecycleProofs ------------------------
(***************************************************************************)
(* What MemberLifecycle guarantees for every number of births, faults and  *)
(* tries, and for caches that lag by any number of versions.               *)
(***************************************************************************)
EXTENDS MemberLifecycle, SequenceTheorems, TLAPS

--------------------------------------------------------------------------------
(* Versions: what a write makes of their sequence.                          *)

(* One version alone is a sequence of versions.                             *)
LEMMA OneVersion ==
  ASSUME NEW S, NEW x \in S
  PROVE  <<x>> \in Seq(S) /\ <<x>> # <<>> /\ Len(<<x>>) = 1 /\ <<x>>[1] = x /\ DOMAIN <<x>> = {1}
OBVIOUS

(* The last version is in the sequence, and so is the cache's.              *)
LEMMA EndsAreVersions ==
  ASSUME NEW S, NEW s \in Seq(S), s # <<>>
  PROVE  /\ Len(s) \in Nat /\ Len(s) >= 1 /\ DOMAIN s = 1 .. Len(s)
         /\ s[Len(s)] \in S
         /\ Head(s) = s[1] /\ Head(s) \in S
         /\ <<s[Len(s)]>> \in Seq(S) /\ <<s[Len(s)]>> # <<>>
OBVIOUS

(* A version appended is the last one; the others keep their places.        *)
LEMMA AppendedIsLast ==
  ASSUME NEW S, NEW s \in Seq(S), s # <<>>, NEW m \in S
  PROVE  LET t == Append(s, m) IN
         /\ t \in Seq(S) /\ t # <<>> /\ Len(t) = Len(s) + 1 /\ t[Len(t)] = m
         /\ \A i \in DOMAIN t : i = Len(t) \/ (i \in DOMAIN s /\ t[i] = s[i])
OBVIOUS

(* An arrival takes the oldest away.                                        *)
LEMMA TailKeepsLast ==
  ASSUME NEW S, NEW s \in Seq(S), Len(s) > 1
  PROVE  LET t == Tail(s) IN
         /\ t \in Seq(S) /\ t # <<>> /\ Len(t) = Len(s) - 1 /\ t[Len(t)] = s[Len(s)]
         /\ \A i \in DOMAIN t : i + 1 \in DOMAIN s /\ t[i] = s[i + 1]
<1> DEFINE t == Tail(s)
<1>1. s # <<>> /\ Len(s) \in Nat /\ DOMAIN s = 1 .. Len(s)
  BY LenProperties
<1>2. /\ t \in Seq(S) /\ Len(t) = Len(s) - 1
      /\ \A i \in 1 .. Len(t) : t[i] = s[i + 1]
  BY <1>1, HeadTailProperties
<1>3. DOMAIN t = 1 .. Len(t)
  BY <1>2, LenProperties
<1> HIDE DEF t
<1>4. t # <<>> /\ t[Len(t)] = s[Len(s)]
  BY <1>1, <1>2
<1>5. \A i \in DOMAIN t : i + 1 \in DOMAIN s /\ t[i] = s[i + 1]
  BY <1>1, <1>2, <1>3
<1> QED
  BY <1>2, <1>4, <1>5 DEF t

(* A write leaves a sequence of versions that ends in what was written.     *)
LEMMA WrittenIsCurrent ==
  ASSUME TypeOK, NEW m \in Member, versions' = Written(m)
  PROVE  /\ versions' \in Seq(Member) /\ versions' # <<>>
         /\ Current' = m
         /\ \A i \in DOMAIN versions' :
              (i \in DOMAIN versions /\ versions'[i] = versions[i])
                \/ (i = Len(versions') /\ versions'[i] = m)
BY EndsAreVersions, AppendedIsLast DEF TypeOK, Written, Current

(* The same for the Pod.                                                    *)
LEMMA PodBecomesLast ==
  ASSUME TypeOK, NEW p \in PodState, pods' = PodBecomes(p)
  PROVE  pods' \in Seq(PodState) /\ pods' # <<>> /\ Pod' = p
BY EndsAreVersions, AppendedIsLast DEF TypeOK, PodBecomes, Pod

(* Versions and Pods that a state can have.                                 *)
LEMMA TypesOfEnds ==
  ASSUME TypeOK
  PROVE  /\ Current \in Member /\ Cached \in Member
         /\ Pod \in PodState /\ Head(pods) \in PodState
         /\ <<Current>> \in Seq(Member) /\ <<Pod>> \in Seq(PodState)
BY EndsAreVersions DEF TypeOK, Current, Cached, Pod

--------------------------------------------------------------------------------
(* The types are kept.                                                      *)

(* Members and workers as the actions build them.                           *)
LEMMA BuiltMembers ==
  /\ NoMember \in Member /\ Idle \in Worker /\ NoContainer \in Container
  /\ \A u \in 0 .. MaxBirths : Born(u) \in Member
  /\ \A m \in Member :
       /\ [m EXCEPT !.finalizer = TRUE] \in Member
       /\ [m EXCEPT !.deleting = TRUE] \in Member
       /\ [m EXCEPT !.reported = TRUE] \in Member
       /\ [m EXCEPT !.mxid = TRUE] \in Member
       /\ \A p \in Phase, b \in BOOLEAN : [m EXCEPT !.phase = p, !.mxid = b] \in Member
<1>1. NoMember \in Member /\ \A u \in 0 .. MaxBirths : Born(u) \in Member
  BY BoundsAssumption DEF Member, Born, NoMember, Phase
<1>2. Idle \in Worker
  BY <1>1 DEF Worker, Idle, Step
<1>3. NoContainer \in Container
  BY BoundsAssumption DEF Container, NoContainer
<1>4. ASSUME NEW m \in Member
      PROVE  /\ [m EXCEPT !.finalizer = TRUE] \in Member
             /\ [m EXCEPT !.deleting = TRUE] \in Member
             /\ [m EXCEPT !.reported = TRUE] \in Member
             /\ [m EXCEPT !.mxid = TRUE] \in Member
  BY DEF Member
<1>5. ASSUME NEW m \in Member, NEW p \in Phase, NEW b \in BOOLEAN
      PROVE  [m EXCEPT !.phase = p, !.mxid = b] \in Member
  BY DEF Member
<1> QED
  BY <1>1, <1>2, <1>3, <1>4, <1>5

(* Every state at the start is well typed.                                  *)
LEMMA TypeInit == Init => TypeOK
<1>1. <<NoMember>> \in Seq(Member) /\ <<NoMember>> # <<>>
  BY BuiltMembers, OneVersion
<1>2. <<"none">> \in Seq(PodState) /\ <<"none">> # <<>>
  BY OneVersion DEF PodState
<1>3. Idle \in Worker /\ NoContainer \in Container
  BY BuiltMembers
<1>4. 0 \in 0 .. MaxBirths /\ 0 \in 0 .. MaxFaults
  BY BoundsAssumption
<1>5. NoContainer.step # "run"
  BY DEF NoContainer
<1> QED
  BY <1>1, <1>2, <1>3, <1>4, <1>5 DEF Init, TypeOK

(* A step of the worker, as its guard and its call to the store or the API  *)
(* server leave it.                                                         *)
LEMMA WorkerTypes ==
  ASSUME TypeOK
  PROVE  /\ work.obj \in Member /\ work.ok \in BOOLEAN /\ work.step \in Step
         /\ \A step \in Step : Goto(step) => work' \in Worker
         /\ NotReady => work' \in Worker
         /\ Again => work' \in Worker /\ queued' \in BOOLEAN
         /\ NextPhase \in Phase
         /\ Fault \/ NoFault => faults' \in 0 .. MaxFaults
<1>1. work.obj \in Member /\ work.ok \in BOOLEAN /\ work.step \in Step
  BY DEF TypeOK, Worker
<1>2. \A step \in Step : [work EXCEPT !.step = step] \in Worker
  BY DEF TypeOK, Worker
<1>3. [work EXCEPT !.step = "status", !.ok = FALSE] \in Worker
  BY DEF TypeOK, Worker, Step
<1>4. NextPhase \in Phase
  BY DEF NextPhase, Phase
<1>5. Fault \/ NoFault => faults' \in 0 .. MaxFaults
  BY BoundsAssumption DEF TypeOK, Fault, NoFault
<1> QED
  BY <1>1, <1>2, <1>3, <1>4, <1>5, BuiltMembers DEF Goto, NotReady, Again

(* The types of the containers that the steps make of one.                  *)
LEMMA ContainerTypes ==
  ASSUME TypeOK
  PROVE  /\ [agent EXCEPT !.step = "run", !.tries = 0] \in Container
         /\ [agent EXCEPT !.step = "done"] \in Container
         /\ [agent EXCEPT !.step = "pull"] \in Container
         /\ [NoContainer EXCEPT !.step = "pull", !.uid = work.obj.uid] \in Container
<1>1. /\ [agent EXCEPT !.step = "run", !.tries = 0] \in Container
      /\ [agent EXCEPT !.step = "done"] \in Container
      /\ [agent EXCEPT !.step = "pull"] \in Container
  <2>1. agent \in Container /\ 0 \in 0 .. MaxTries
    BY BoundsAssumption DEF TypeOK
  <2> QED
    BY <2>1 DEF Container
<1>2. work.obj.uid \in 0 .. MaxBirths
  BY WorkerTypes DEF Member
<1>3. [NoContainer EXCEPT !.step = "pull", !.uid = work.obj.uid] \in Container
  BY <1>2, BuiltMembers DEF Container
<1> QED
  BY <1>1, <1>3

(* Every step keeps the types.                                              *)
LEMMA TypeStep == TypeOK /\ [Next]_vars => TypeOK'
<1> SUFFICES ASSUME TypeOK, [Next]_vars
             PROVE  TypeOK'
  OBVIOUS
<1> DEFINE Rest == /\ queued' \in BOOLEAN /\ work' \in Worker /\ files' \subseteq File
                   /\ credentials' \in BOOLEAN /\ births' \in 0 .. MaxBirths
                   /\ faults' \in 0 .. MaxFaults
           Versions == versions' \in Seq(Member) /\ versions' # <<>>
           Pods == pods' \in Seq(PodState) /\ pods' # <<>>
           Agent == agent' \in Container /\ (agent'.step = "run" => agent'.tries < MaxTries)
<1>0. ASSUME Rest, Versions, Pods, Agent PROVE TypeOK'
  BY <1>0 DEF TypeOK
<1>1. UNCHANGED versions => Versions
  BY DEF TypeOK
<1>2. UNCHANGED pods => Pods
  BY DEF TypeOK
<1>3. UNCHANGED agent => Agent
  BY DEF TypeOK
<1>4. ASSUME NEW m \in Member, versions' = Written(m) PROVE Versions
  BY <1>4, WrittenIsCurrent
<1>5. ASSUME NEW p \in PodState, pods' = PodBecomes(p) PROVE Pods
  BY <1>5, PodBecomesLast
<1>6. CASE User
  <2>1. CASE CreateMember
    <3>1. births' \in 0 .. MaxBirths /\ Born(births') \in Member
      <4>1. births' \in 0 .. MaxBirths
        BY <2>1, BoundsAssumption DEF CreateMember, TypeOK
      <4> QED
        BY <4>1, BuiltMembers
    <3> QED
      BY <2>1, <3>1, <1>0, <1>2, <1>3, <1>4 DEF CreateMember, TypeOK
  <2>2. CASE DeleteMember
    <3>1. (IF Current.finalizer THEN [Current EXCEPT !.deleting = TRUE] ELSE NoMember) \in Member
      BY TypesOfEnds, BuiltMembers
    <3> QED
      BY <2>2, <3>1, <1>0, <1>2, <1>3, <1>4 DEF DeleteMember, TypeOK
  <2> QED
    BY <1>6, <2>1, <2>2 DEF User
<1>7. CASE MemberArrives
  <2>1. Versions
    BY <1>7, TailKeepsLast DEF MemberArrives, TypeOK
  <2> QED
    BY <1>7, <2>1, <1>0, <1>2, <1>3 DEF MemberArrives, TypeOK
<1>8. CASE Resync
  BY <1>8, <1>0, <1>1, <1>2, <1>3 DEF Resync, TypeOK
<1>9. CASE PodArrives
  <2>1. Pods
    BY <1>9, TailKeepsLast DEF PodArrives, TypeOK
  <2> QED
    BY <1>9, <2>1, <1>0, <1>1, <1>3 DEF PodArrives, TypeOK
<1>10. CASE WorkerStep
  <2>1. CASE Reconcile
    <3>1. Cached \in Member /\ FirstStep(Cached) \in Step
      BY TypesOfEnds DEF FirstStep, Step
    <3>2. [Idle EXCEPT !.step = FirstStep(Cached), !.obj = Cached] \in Worker
      BY <3>1, BuiltMembers DEF Worker
    <3> QED
      BY <2>1, <3>2, <1>0, <1>1, <1>2, <1>3 DEF Reconcile, TypeOK
  <2>2. CASE AddFinalizer
    <3>1. Versions
      BY <2>2, <1>1, <1>4, WorkerTypes, BuiltMembers DEF AddFinalizer, Update
    <3>2. work' \in Worker /\ queued' \in BOOLEAN /\ faults' \in 0 .. MaxFaults
      BY <2>2, WorkerTypes, BuiltMembers DEF AddFinalizer, Update, Refused, TypeOK
    <3> QED
      BY <2>2, <3>1, <3>2, <1>0, <1>2, <1>3 DEF AddFinalizer, TypeOK
  <2>3. CASE Stat
    <3>1. work' \in Worker /\ faults' \in 0 .. MaxFaults
      BY <2>3, WorkerTypes DEF Stat, Step
    <3> QED
      BY <2>3, <3>1, <1>0, <1>1, <1>2, <1>3 DEF Stat, TypeOK
  <2>4. CASE Seed
    <3>1. faults' \in 0 .. MaxFaults
      BY <2>4, WorkerTypes DEF Seed
    <3>2. work.pos \in 1 .. 3 /\ SeedOrder[work.pos] \in File
      BY DEF TypeOK, Worker, SeedOrder, File
    <3>3. files' \subseteq File
      BY <2>4, <3>2 DEF Seed, TypeOK
    <3>4. work.pos < 3 => [work EXCEPT !.pos = @ + 1] \in Worker
      BY <3>2 DEF TypeOK, Worker
    <3>5. work' \in Worker
      BY <2>4, <3>4, WorkerTypes DEF Seed, Step
    <3> QED
      BY <2>4, <3>1, <3>3, <3>5, <1>0, <1>1, <1>2, <1>3 DEF Seed, TypeOK
  <2>5. CASE ApplyRuntime
    <3>1. work' \in Worker /\ faults' \in 0 .. MaxFaults
      BY <2>5, WorkerTypes DEF ApplyRuntime, Step
    <3> QED
      BY <2>5, <3>1, <1>0, <1>1, <1>2, <1>3 DEF ApplyRuntime, TypeOK
  <2>6. CASE ApplyExecution
    <3>1. work' \in Worker /\ faults' \in 0 .. MaxFaults
      BY <2>6, WorkerTypes DEF ApplyExecution, Step
    <3>2. Pods
      BY <2>6, <1>2, <1>5 DEF ApplyExecution, PodState
    <3>3. [NoContainer EXCEPT !.step = "pull", !.uid = work.obj.uid].step = "pull"
      BY DEF NoContainer
    <3>4. Agent
      BY <2>6, <3>3, <1>3, ContainerTypes DEF ApplyExecution
    <3> QED
      BY <2>6, <3>1, <3>2, <3>4, <1>0, <1>1 DEF ApplyExecution, TypeOK
  <2>7. CASE WriteStatus
    <3>1. Versions
      <4>1. CASE UNCHANGED versions
        BY <4>1, <1>1
      <4>2. CASE \E found \in BOOLEAN :
                   Update([work.obj EXCEPT !.phase = NextPhase, !.mxid = @ \/ found])
        <5>1. PICK found \in BOOLEAN :
                versions' = Written([work.obj EXCEPT !.phase = NextPhase, !.mxid = @ \/ found])
          BY <4>2 DEF Update
        <5>2. [work.obj EXCEPT !.phase = NextPhase, !.mxid = @ \/ found] \in Member
          BY WorkerTypes DEF Member
        <5> QED
          BY <5>1, <5>2, <1>4
      <4> QED
        BY <2>7, <4>1, <4>2 DEF WriteStatus
    <3>2. work' \in Worker /\ queued' \in BOOLEAN /\ faults' \in 0 .. MaxFaults
      BY <2>7, WorkerTypes, BuiltMembers DEF WriteStatus, Update, Refused, TypeOK
    <3> QED
      BY <2>7, <3>1, <3>2, <1>0, <1>2, <1>3 DEF WriteStatus, TypeOK
  <2>8. CASE DeletePod
    <3>1. Pods
      BY <2>8, <1>2, <1>5 DEF DeletePod, PodState
    <3>2. work' \in Worker /\ faults' \in 0 .. MaxFaults
      BY <2>8, WorkerTypes DEF DeletePod, Step
    <3> QED
      BY <2>8, <3>1, <3>2, <1>0, <1>1, <1>3 DEF DeletePod, TypeOK
  <2>9. CASE RemoveFinalizer
    <3>1. Versions
      BY <2>9, <1>1, <1>4, BuiltMembers DEF RemoveFinalizer, Update
    <3>2. work' \in Worker /\ queued' \in BOOLEAN /\ faults' \in 0 .. MaxFaults
      BY <2>9, WorkerTypes, BuiltMembers DEF RemoveFinalizer, Update, Refused, TypeOK
    <3> QED
      BY <2>9, <3>1, <3>2, <1>0, <1>2, <1>3 DEF RemoveFinalizer, TypeOK
  <2> QED
    BY <1>10, <2>1, <2>2, <2>3, <2>4, <2>5, <2>6, <2>7, <2>8, <2>9 DEF WorkerStep
<1>11. CASE SetupMatrix
  <2>1. Versions
    BY <1>11, <1>1, <1>4, TypesOfEnds, BuiltMembers DEF SetupMatrix
  <2> QED
    BY <1>11, <2>1, <1>0, <1>2, <1>3 DEF SetupMatrix, TypeOK
<1>12. CASE Pull
  <2>1. Agent
    <3>1. [agent EXCEPT !.step = "run", !.tries = 0].tries = 0
      BY DEF TypeOK, Container
    <3> QED
      BY <1>12, <3>1, ContainerTypes, BoundsAssumption DEF Pull
  <2> QED
    BY <1>12, <2>1, <1>0, <1>1, <1>2 DEF Pull, TypeOK
<1>13. CASE Report
  <2>1. Versions
    BY <1>13, <1>1, <1>4, TypesOfEnds, BuiltMembers DEF Report
  <2>2. Agent
    <3>1. [agent EXCEPT !.step = "done"].step = "done"
      BY DEF TypeOK, Container
    <3> QED
      BY <1>13, <3>1, ContainerTypes DEF Report
  <2> QED
    BY <1>13, <2>1, <2>2, <1>0, <1>2 DEF Report, TypeOK
<1>14. CASE ReportFails
  <2>1. faults' \in 0 .. MaxFaults
    BY <1>14, WorkerTypes DEF ReportFails
  <2>2. agent.step = "run" /\ agent.tries < MaxTries /\ agent.tries \in 0 .. MaxTries
    BY <1>14 DEF ReportFails, TypeOK, Container
  <2> DEFINE next == [agent EXCEPT !.tries = @ + 1,
                                   !.step = IF agent.tries + 1 = MaxTries THEN "silent" ELSE @]
  <2>3. agent.tries + 1 \in 0 .. MaxTries
    BY <2>2, BoundsAssumption
  <2>4. next \in Container
    BY <2>3 DEF TypeOK, Container
  <2>5. next.step = "run" => next.tries < MaxTries
    BY <2>2, <2>3, BoundsAssumption DEF TypeOK, Container
  <2>6. Agent
    BY <1>14, <2>4, <2>5 DEF ReportFails
  <2> QED
    BY <1>14, <2>1, <2>6, <1>0, <1>1, <1>2 DEF ReportFails, TypeOK
<1>15. CASE PodEnds
  <2>1. Pods
    BY <1>15, <1>5 DEF PodEnds, PodState
  <2>2. Agent
    BY <1>15, BuiltMembers DEF PodEnds, NoContainer
  <2> QED
    BY <1>15, <2>1, <2>2, <1>0, <1>1 DEF PodEnds, TypeOK
<1>16. CASE Cluster
  <2>1. faults' \in 0 .. MaxFaults
    BY <1>16, WorkerTypes DEF Cluster, ContainerCrashes, PodIsEvicted, ControllerRestarts
  <2>2. CASE ContainerCrashes
    <3>1. [agent EXCEPT !.step = "pull"].step = "pull"
      BY DEF TypeOK, Container
    <3>2. Agent
      BY <2>2, <3>1, ContainerTypes DEF ContainerCrashes
    <3> QED
      BY <2>1, <2>2, <3>2, <1>0, <1>1, <1>2 DEF ContainerCrashes, TypeOK
  <2>3. CASE PodIsEvicted
    <3>1. Pods
      BY <2>3, <1>5 DEF PodIsEvicted, PodState
    <3> QED
      BY <2>1, <2>3, <3>1, <1>0, <1>1, <1>3 DEF PodIsEvicted, TypeOK
  <2>4. CASE ControllerRestarts
    <3>1. Versions /\ Pods
      BY <2>4, TypesOfEnds, OneVersion DEF ControllerRestarts
    <3>2. queued' \in BOOLEAN /\ work' \in Worker
      BY <2>4, BuiltMembers DEF ControllerRestarts
    <3> QED
      BY <2>1, <2>4, <3>1, <3>2, <1>0, <1>3 DEF ControllerRestarts, TypeOK
  <2> QED
    BY <1>16, <2>2, <2>3, <2>4 DEF Cluster
<1>17. CASE UNCHANGED vars
  BY <1>17, <1>0, <1>1, <1>2, <1>3 DEF vars, TypeOK
<1> QED
  BY <1>6, <1>7, <1>8, <1>9, <1>10, <1>11, <1>12, <1>13, <1>14, <1>15, <1>16, <1>17
     DEF Next, Reports

(* Every state of the Member is well typed; in particular a container that  *)
(* still reports has tries left.                                            *)
THEOREM TypeInvariant == Spec => []TypeOK
BY TypeInit, TypeStep, PTL DEF Spec
--------------------------------------------------------------------------------
(* The inductive invariant: what can happen to the versions.                *)

Lawful == VersionsFollow /\ VersionsAreBorn /\ WorkIsLawful

(* The worker goes on with the same copy, within the same branch of         *)
(* Reconcile, or stops.                                                     *)
Continues ==
  \/ work'.step = "idle"
  \/ /\ work'.obj = work.obj
     /\ \/ work'.step = work.step
        \/ work.step \in Preparing /\ work'.step \in Preparing
        \/ work.step \in Removing /\ work'.step \in Removing

(* Nothing happens to the versions.                                         *)
LEMMA QuietKeepsInv ==
  ASSUME MemberInv, UNCHANGED <<versions, births>>, Continues
  PROVE  Lawful'
BY DEF MemberInv, Lawful, VersionsFollow, VersionsAreBorn, WorkIsLawful, Continues,
   Current, Preparing, Removing

(* A version that goes on with the life of the current one.                 *)
Succeeds(m) ==
  /\ m.uid = Current.uid
  /\ Current.finalizer => m.finalizer
  /\ Current.deleting => m.deleting

(* A new version keeps the order when every older one precedes it.          *)
LEMMA FollowedByWritten ==
  ASSUME MemberInv, NEW m \in Member, versions' = Written(m),
         \A i \in DOMAIN versions : Precedes(versions[i], m), Precedes(m, m)
  PROVE  VersionsFollow'
<1>1. /\ versions' \in Seq(Member)
      /\ \A i \in DOMAIN versions' :
           (i \in DOMAIN versions /\ versions'[i] = versions[i])
             \/ (i = Len(versions') /\ versions'[i] = m)
  BY WrittenIsCurrent DEF MemberInv
<1>2. ASSUME NEW i \in DOMAIN versions', NEW j \in DOMAIN versions', i <= j
      PROVE  Precedes(versions'[i], versions'[j])
  <2>1. Len(versions') \in Nat /\ DOMAIN versions' = 1 .. Len(versions')
    BY <1>1, LenProperties
  <2>2. CASE i = Len(versions') /\ versions'[i] = m
    <3>1. i = j
      BY <1>2, <2>1, <2>2
    <3> QED
      BY <2>2, <3>1
  <2>3. CASE i \in DOMAIN versions /\ versions'[i] = versions[i]
    <3>1. CASE j \in DOMAIN versions /\ versions'[j] = versions[j]
      BY <1>2, <2>3, <3>1 DEF MemberInv, VersionsFollow
    <3>2. CASE versions'[j] = m
      BY <2>3, <3>2
    <3> QED
      BY <1>1, <3>1, <3>2
  <2> QED
    BY <1>1, <2>2, <2>3
<1> QED
  BY <1>2 DEF VersionsFollow, Precedes

(* Every older version precedes one that goes on with the current life.     *)
LEMMA CurrentPrecedes ==
  ASSUME MemberInv
  PROVE  /\ Len(versions) \in DOMAIN versions /\ Current = versions[Len(versions)]
         /\ \A i \in DOMAIN versions : i \in Nat /\ i <= Len(versions)
         /\ \A i \in DOMAIN versions : Precedes(versions[i], Current)
         /\ 1 \in DOMAIN versions /\ Cached = versions[1]
         /\ \A j \in DOMAIN versions : Precedes(Cached, versions[j])
<1>1. /\ Len(versions) \in Nat /\ Len(versions) >= 1 /\ DOMAIN versions = 1 .. Len(versions)
      /\ Cached = versions[1] /\ Current = versions[Len(versions)]
  BY EndsAreVersions DEF MemberInv, TypeOK, Cached, Current
<1> QED
  BY <1>1 DEF MemberInv, VersionsFollow

(* A write to the Member that exists: finalizer, deletion, status, report.  *)
LEMMA SuccessorKeepsInv ==
  ASSUME MemberInv, NEW m \in Member, versions' = Written(m), Succeeds(m),
         Current # NoMember, births' = births, Continues
  PROVE  Lawful'
<1>1. /\ Current' = m
      /\ \A i \in DOMAIN versions' :
           (i \in DOMAIN versions /\ versions'[i] = versions[i]) \/ versions'[i] = m
  BY WrittenIsCurrent DEF MemberInv
<1>2. VersionsFollow'
  <2>1. \A i \in DOMAIN versions : Precedes(versions[i], m)
    BY CurrentPrecedes DEF Succeeds, Precedes
  <2> QED
    BY <2>1, FollowedByWritten DEF Precedes
<1>3. Current.uid <= births /\ Current.uid # 0
  BY CurrentPrecedes DEF MemberInv, VersionsAreBorn
<1>4. VersionsAreBorn'
  BY <1>1, <1>3 DEF Succeeds, MemberInv, VersionsAreBorn
<1>5. WorkIsLawful'
  <2>1. work'.step # "idle" => work'.obj.uid \in 1 .. births'
    BY DEF MemberInv, WorkIsLawful, Continues, Preparing, Removing
  <2>2. work'.step \in Preparing => Current'.uid = work'.obj.uid /\ Current'.finalizer
    BY <1>1 DEF MemberInv, WorkIsLawful, Continues, Preparing, Removing, Succeeds
  <2>3. ASSUME work'.step \in Removing, NEW i \in DOMAIN versions',
               versions'[i].uid = work'.obj.uid
        PROVE  versions'[i].deleting
    <3>1. work.step \in Removing /\ work'.obj = work.obj
      BY <2>3 DEF Continues, Preparing, Removing
    <3>2. \A k \in DOMAIN versions : versions[k].uid = work.obj.uid => versions[k].deleting
      BY <3>1 DEF MemberInv, WorkIsLawful
    <3>3. m.uid = work.obj.uid => m.deleting
      BY <3>2, CurrentPrecedes DEF Succeeds
    <3> QED
      BY <1>1, <2>3, <3>1, <3>2, <3>3
  <2> QED
    BY <2>1, <2>2, <2>3 DEF WorkIsLawful, Preparing, Removing
<1> QED
  BY <1>2, <1>4, <1>5 DEF Lawful
(* The Member goes away, when no version says that it must stay.            *)
LEMMA GoneKeepsInv ==
  ASSUME MemberInv, versions' = Written(NoMember), births' = births, Continues,
         \A i \in DOMAIN versions : versions[i].finalizer => versions[i].deleting,
         work'.step \notin Preparing
  PROVE  Lawful'
<1>1. /\ NoMember \in Member /\ NoMember.uid = 0
      /\ ~NoMember.finalizer /\ ~NoMember.deleting
  BY BuiltMembers DEF NoMember, Born
<1>2. \A i \in DOMAIN versions' :
        (i \in DOMAIN versions /\ versions'[i] = versions[i]) \/ versions'[i] = NoMember
  BY <1>1, WrittenIsCurrent DEF MemberInv
<1>3. VersionsFollow'
  <2>1. ASSUME NEW i \in DOMAIN versions PROVE Precedes(versions[i], NoMember)
    BY <1>1, <2>1 DEF Precedes, MemberInv, VersionsAreBorn
  <2> QED
    BY <1>1, <2>1, FollowedByWritten DEF Precedes
<1>4. VersionsAreBorn'
  BY <1>1, <1>2, BoundsAssumption DEF MemberInv, VersionsAreBorn, TypeOK
<1>5. WorkIsLawful'
  <2>1. work'.step # "idle" => work'.obj.uid \in 1 .. births'
    BY DEF MemberInv, WorkIsLawful, Continues, Preparing, Removing
  <2>2. ASSUME work'.step \in Removing, NEW i \in DOMAIN versions',
               versions'[i].uid = work'.obj.uid
        PROVE  versions'[i].deleting
    <3>1. work.step \in Removing /\ work'.obj = work.obj
      BY <2>2 DEF Continues, Preparing, Removing
    <3>2. work'.obj.uid # 0
      BY <2>1, <2>2 DEF Removing
    <3>3. i \in DOMAIN versions /\ versions'[i] = versions[i]
      BY <1>1, <1>2, <2>2, <3>2
    <3> QED
      BY <2>2, <3>1, <3>3 DEF MemberInv, WorkIsLawful
  <2> QED
    BY <2>1, <2>2 DEF WorkIsLawful
<1> QED
  BY <1>3, <1>4, <1>5 DEF Lawful

(* A Member is born: under a new uid, so no copy is taken for its own.      *)
LEMMA BirthKeepsInv ==
  ASSUME MemberInv, CreateMember
  PROVE  Lawful'
<1> DEFINE m == Born(births')
<1>1. births \in Nat /\ births' = births + 1 /\ births' \in 0 .. MaxBirths
  BY BoundsAssumption DEF CreateMember, MemberInv, TypeOK
<1>2. m \in Member /\ m.uid = births' /\ ~m.finalizer /\ ~m.deleting
  BY <1>1, BuiltMembers DEF Born
<1>3. Current = NoMember /\ ~Current.finalizer /\ versions' = Written(m)
  BY DEF CreateMember, NoMember, Born
<1> HIDE DEF m
<1>4. \A i \in DOMAIN versions' :
        (i \in DOMAIN versions /\ versions'[i] = versions[i]) \/ versions'[i] = m
  BY <1>2, <1>3, WrittenIsCurrent DEF MemberInv
<1>5. \A i \in DOMAIN versions : versions[i].uid \in Nat /\ versions[i].uid <= births
  <2>1. \A i \in DOMAIN versions : versions[i] \in Member
    BY LenProperties, ElementOfSeq DEF MemberInv, TypeOK
  <2>2. \A n \in Member : n.uid \in Nat
    BY BoundsAssumption DEF Member
  <2> QED
    BY <2>1, <2>2 DEF MemberInv, VersionsAreBorn
<1>6. VersionsFollow'
  <2>1. ASSUME NEW i \in DOMAIN versions PROVE Precedes(versions[i], m)
    <3>1. versions[i].uid # m.uid
      BY <1>1, <1>2, <1>5
    <3>2. Precedes(versions[i], Current)
      BY CurrentPrecedes
    <3> QED
      BY <1>3, <3>1, <3>2 DEF Precedes
  <2> QED
    BY <1>2, <1>3, <2>1, FollowedByWritten DEF Precedes
<1>7. VersionsAreBorn'
  BY <1>1, <1>2, <1>4, <1>5 DEF MemberInv, VersionsAreBorn
<1>8. WorkIsLawful'
  <2>1. work' = work /\ work.step \notin Preparing
    BY <1>3 DEF CreateMember, MemberInv, WorkIsLawful
  <2>2. work.step # "idle" => work.obj.uid \in 1 .. births
    BY DEF MemberInv, WorkIsLawful
  <2>3. ASSUME work.step \in Removing, NEW i \in DOMAIN versions',
               versions'[i].uid = work.obj.uid
        PROVE  versions'[i].deleting
    <3>1. versions'[i] # m
      BY <1>1, <1>2, <2>2, <2>3 DEF Removing
    <3> QED
      BY <1>4, <2>3, <3>1 DEF MemberInv, WorkIsLawful
  <2> QED
    BY <1>1, <2>1, <2>2, <2>3 DEF WorkIsLawful
<1> QED
  BY <1>6, <1>7, <1>8 DEF Lawful

(* The informer catches up by one version.                                  *)
LEMMA ArrivalKeepsInv ==
  ASSUME MemberInv, MemberArrives
  PROVE  Lawful'
<1>1. /\ Current' = Current
      /\ \A i \in DOMAIN versions' : i + 1 \in DOMAIN versions /\ versions'[i] = versions[i + 1]
  BY TailKeepsLast DEF MemberInv, TypeOK, MemberArrives, Current
<1>2. \A i \in DOMAIN versions' : i \in Int
  BY LenProperties, TailKeepsLast DEF MemberArrives, MemberInv, TypeOK
<1>3. VersionsFollow'
  <2>1. ASSUME NEW i \in DOMAIN versions', NEW j \in DOMAIN versions', i <= j
        PROVE  Precedes(versions'[i], versions'[j])
    <3>1. i + 1 <= j + 1
      BY <1>2, <2>1
    <3>2. Precedes(versions[i + 1], versions[j + 1])
      BY <1>1, <3>1 DEF MemberInv, VersionsFollow
    <3> QED
      BY <1>1, <3>2
  <2> QED
    BY <2>1 DEF VersionsFollow, Precedes
<1>4. VersionsAreBorn'
  BY <1>1 DEF MemberInv, VersionsAreBorn, MemberArrives
<1>5. WorkIsLawful'
  BY <1>1 DEF MemberInv, WorkIsLawful, MemberArrives
<1> QED
  BY <1>3, <1>4, <1>5 DEF Lawful

(* A new controller sees the last version only and has no work in hand.     *)
LEMMA RestartKeepsInv ==
  ASSUME MemberInv, ControllerRestarts
  PROVE  Lawful'
<1>1. versions' = <<Current>> /\ work' = Idle /\ births' = births
  BY DEF ControllerRestarts
<1>2. DOMAIN versions' = {1} /\ versions'[1] = Current
  BY <1>1, TypesOfEnds, OneVersion DEF MemberInv
<1>3. VersionsFollow'
  BY <1>2, CurrentPrecedes DEF VersionsFollow, Precedes
<1>4. VersionsAreBorn'
  BY <1>1, <1>2, CurrentPrecedes DEF MemberInv, VersionsAreBorn
<1>5. WorkIsLawful'
  BY <1>1 DEF WorkIsLawful, Idle, Preparing, Removing
<1> QED
  BY <1>3, <1>4, <1>5 DEF Lawful

(* The reconciler takes the cache's copy: a Member with the finalizer that  *)
(* it sees alive is still there, and one it sees deleted stays so.          *)
LEMMA ReconcileKeepsInv ==
  ASSUME MemberInv, Reconcile
  PROVE  Lawful'
<1>1. /\ versions' = versions /\ births' = births
      /\ work'.step = FirstStep(Cached) /\ work'.obj = Cached
  BY DEF Reconcile, Idle
<1>2. VersionsFollow' /\ VersionsAreBorn'
  BY <1>1 DEF MemberInv, VersionsFollow, VersionsAreBorn
<1>3. work'.step # "idle" => Cached.uid \in 1 .. births
  <2>1. work'.step # "idle" => Cached # NoMember
    BY <1>1 DEF FirstStep
  <2>2. Cached.uid <= births /\ (Cached.uid = 0 => Cached = NoMember)
    BY CurrentPrecedes DEF MemberInv, VersionsAreBorn
  <2>3. Cached.uid \in Nat /\ births \in Nat
    BY TypesOfEnds, BoundsAssumption DEF MemberInv, TypeOK, Member
  <2> QED
    BY <2>1, <2>2, <2>3
<1>4. work'.step \in Preparing => Current.uid = Cached.uid /\ Current.finalizer
  <2>1. work'.step \in Preparing => Cached.finalizer /\ ~Cached.deleting
    BY <1>1 DEF FirstStep, Preparing
  <2> QED
    BY <2>1, CurrentPrecedes DEF Precedes
<1>5. work'.step \in Removing =>
        \A i \in DOMAIN versions : versions[i].uid = Cached.uid => versions[i].deleting
  <2>1. work'.step \in Removing => Cached.deleting
    BY <1>1 DEF FirstStep, Removing
  <2> QED
    BY <2>1, CurrentPrecedes DEF Precedes
<1>6. WorkIsLawful'
  BY <1>1, <1>3, <1>4, <1>5 DEF WorkIsLawful, Current
<1> QED
  BY <1>2, <1>6 DEF Lawful
(* The other steps of the worker, and the writes to the Member.             *)
LEMMA WorkerKeepsInv ==
  ASSUME MemberInv, WorkerStep
  PROVE  Lawful'
<1>0. work.obj \in Member /\ work.step \in Step
  BY WorkerTypes DEF MemberInv
<1>1. \A step \in Step : Goto(step) => work'.obj = work.obj /\ work'.step = step
  BY DEF Goto, MemberInv, TypeOK, Worker
<1>2. NotReady => work'.obj = work.obj /\ work'.step = "status"
  BY DEF NotReady, MemberInv, TypeOK, Worker
<1>3. Again \/ work' = Idle => Continues /\ work'.step = "idle"
  BY DEF Again, Idle, Continues
<1>4. work.step # "idle" /\ work.obj = Current => Current # NoMember
  <2>1. NoMember.uid = 0
    BY DEF NoMember, Born
  <2>2. work.step # "idle" => work.obj.uid \in 1 .. births
    BY DEF MemberInv, WorkIsLawful
  <2> QED
    BY <2>1, <2>2
<1>5. CASE Reconcile
  BY <1>5, ReconcileKeepsInv
<1>6. CASE AddFinalizer
  <2>1. Continues
    BY <1>3, <1>6 DEF AddFinalizer
  <2>2. CASE Update([work.obj EXCEPT !.finalizer = TRUE])
    <3> DEFINE m == [work.obj EXCEPT !.finalizer = TRUE]
    <3>1. Current # NoMember /\ work.obj = Current /\ versions' = Written(m)
      BY <1>4, <1>6, <2>2 DEF Update, AddFinalizer
    <3>2. m \in Member /\ Succeeds(m)
      BY <1>0, <3>1, BuiltMembers DEF Succeeds, Member
    <3> QED
      BY <1>6, <2>1, <3>1, <3>2, SuccessorKeepsInv DEF AddFinalizer
  <2> QED
    BY <1>6, <2>1, <2>2, QuietKeepsInv DEF AddFinalizer
<1>7. CASE Stat
  <2>1. Continues
    BY <1>1, <1>7 DEF Stat, Continues, Preparing, Step
  <2> QED
    BY <1>7, <2>1, QuietKeepsInv DEF Stat
<1>8. CASE Seed
  <2>1. [work EXCEPT !.pos = @ + 1].obj = work.obj /\ [work EXCEPT !.pos = @ + 1].step = work.step
    BY DEF MemberInv, TypeOK, Worker
  <2>2. Continues
    BY <1>1, <1>2, <1>8, <2>1 DEF Seed, Continues, Preparing, Step
  <2> QED
    BY <1>8, <2>2, QuietKeepsInv DEF Seed
<1>9. CASE ApplyRuntime
  <2>1. Continues
    BY <1>1, <1>2, <1>9 DEF ApplyRuntime, Continues, Preparing, Step
  <2> QED
    BY <1>9, <2>1, QuietKeepsInv DEF ApplyRuntime
<1>10. CASE ApplyExecution
  <2>1. Continues
    BY <1>1, <1>2, <1>10 DEF ApplyExecution, Continues, Preparing, Step
  <2> QED
    BY <1>10, <2>1, QuietKeepsInv DEF ApplyExecution
<1>11. CASE WriteStatus
  <2>1. Continues
    BY <1>3, <1>11 DEF WriteStatus
  <2>2. CASE \E found \in BOOLEAN :
               Update([work.obj EXCEPT !.phase = NextPhase, !.mxid = @ \/ found])
    <3>1. PICK found \in BOOLEAN :
            Update([work.obj EXCEPT !.phase = NextPhase, !.mxid = @ \/ found])
      BY <2>2
    <3> DEFINE m == [work.obj EXCEPT !.phase = NextPhase, !.mxid = @ \/ found]
    <3>2. Current # NoMember /\ work.obj = Current /\ versions' = Written(m)
      BY <1>4, <1>11, <3>1 DEF Update, WriteStatus
    <3>3. m \in Member
      BY WorkerTypes DEF Member, MemberInv
    <3>4. m.uid = work.obj.uid /\ m.finalizer = work.obj.finalizer /\ m.deleting = work.obj.deleting
      BY <1>0 DEF Member
    <3>5. Succeeds(m)
      BY <3>2, <3>4 DEF Succeeds
    <3> QED
      BY <1>11, <2>1, <3>2, <3>3, <3>5, SuccessorKeepsInv DEF WriteStatus
  <2> QED
    BY <1>11, <2>1, <2>2, QuietKeepsInv DEF WriteStatus
<1>12. CASE DeletePod
  <2>1. Continues
    BY <1>1, <1>12 DEF DeletePod, Continues, Removing, Step
  <2> QED
    BY <1>12, <2>1, QuietKeepsInv DEF DeletePod
<1>13. CASE RemoveFinalizer
  <2>1. Continues /\ work'.step = "idle"
    BY <1>3, <1>13 DEF RemoveFinalizer
  <2>2. CASE Update(NoMember)
    <3>1. work.obj = Current /\ versions' = Written(NoMember)
      BY <2>2 DEF Update
    <3>2. \A i \in DOMAIN versions : versions[i].uid = work.obj.uid => versions[i].deleting
      BY <1>13 DEF RemoveFinalizer, Removing, MemberInv, WorkIsLawful
    <3>3. \A i \in DOMAIN versions : versions[i].finalizer => versions[i].deleting
      BY <3>1, <3>2, CurrentPrecedes DEF Precedes
    <3> QED
      BY <1>13, <2>1, <3>1, <3>3, GoneKeepsInv DEF RemoveFinalizer, Preparing
  <2> QED
    BY <1>13, <2>1, <2>2, QuietKeepsInv DEF RemoveFinalizer
<1> QED
  BY <1>5, <1>6, <1>7, <1>8, <1>9, <1>10, <1>11, <1>12, <1>13 DEF WorkerStep

(* Every step keeps the invariant.                                          *)
LEMMA MemberStep == MemberInv /\ [Next]_vars => MemberInv'
<1> SUFFICES ASSUME MemberInv, [Next]_vars
             PROVE  Lawful'
  BY TypeStep DEF MemberInv, Lawful
<1>1. UNCHANGED work => Continues
  BY DEF Continues
<1>2. Current \in Member /\ Cached \in Member
  BY TypesOfEnds DEF MemberInv
<1>3. CASE CreateMember
  BY <1>3, BirthKeepsInv
<1>4. CASE DeleteMember
  <2>1. CASE Current.finalizer
    <3> DEFINE m == [Current EXCEPT !.deleting = TRUE]
    <3>1. m \in Member /\ Succeeds(m)
      BY <1>2, <2>1, BuiltMembers DEF Succeeds, Member
    <3> QED
      BY <1>1, <1>4, <2>1, <3>1, SuccessorKeepsInv DEF DeleteMember
  <2>2. CASE ~Current.finalizer
    <3>1. \A i \in DOMAIN versions : versions[i].finalizer => versions[i].deleting
      BY <2>2, CurrentPrecedes DEF Precedes
    <3>2. work.step \notin Preparing
      BY <2>2 DEF MemberInv, WorkIsLawful
    <3> QED
      BY <1>1, <1>4, <2>2, <3>1, <3>2, GoneKeepsInv DEF DeleteMember
  <2> QED
    BY <2>1, <2>2
<1>5. CASE MemberArrives
  BY <1>5, ArrivalKeepsInv
<1>6. CASE WorkerStep
  BY <1>6, WorkerKeepsInv
<1>7. CASE SetupMatrix
  <2> DEFINE m == [Cached EXCEPT !.mxid = TRUE]
  <2>1. Cached = Current => m \in Member /\ Succeeds(m)
    BY <1>2, BuiltMembers DEF Succeeds, Member
  <2> QED
    BY <1>1, <1>7, <2>1, QuietKeepsInv, SuccessorKeepsInv DEF SetupMatrix
<1>8. CASE Report
  <2> DEFINE m == [Current EXCEPT !.reported = TRUE]
  <2>1. m \in Member /\ Succeeds(m)
    BY <1>2, BuiltMembers DEF Succeeds, Member
  <2> QED
    BY <1>1, <1>8, <2>1, QuietKeepsInv, SuccessorKeepsInv DEF Report
<1>9. CASE ControllerRestarts
  BY <1>9, RestartKeepsInv
<1>10. CASE Resync \/ PodArrives \/ Pull \/ ReportFails \/ PodEnds
              \/ ContainerCrashes \/ PodIsEvicted \/ UNCHANGED vars
  BY <1>1, <1>10, QuietKeepsInv
     DEF Resync, PodArrives, Pull, ReportFails, PodEnds, ContainerCrashes, PodIsEvicted, vars
<1> QED
  BY <1>3, <1>4, <1>5, <1>6, <1>7, <1>8, <1>9, <1>10 DEF Next, User, Reports, Cluster

(* The invariant holds before the Member is created.                        *)
LEMMA MemberInit == Init => MemberInv
<1> SUFFICES ASSUME Init PROVE Lawful
  BY TypeInit DEF MemberInv, Lawful
<1>1. versions = <<NoMember>> /\ births = 0 /\ work.step = "idle"
  BY DEF Init, Idle
<1>2. DOMAIN versions = {1} /\ versions[1] = NoMember
  BY <1>1, BuiltMembers, OneVersion
<1>3. NoMember.uid = 0 /\ ~NoMember.finalizer /\ ~NoMember.deleting
  BY DEF NoMember, Born
<1>4. VersionsFollow
  BY <1>2, <1>3 DEF VersionsFollow, Precedes
<1>5. VersionsAreBorn
  BY <1>1, <1>2, <1>3 DEF VersionsAreBorn
<1>6. WorkIsLawful
  BY <1>1 DEF WorkIsLawful, Preparing, Removing
<1> QED
  BY <1>4, <1>5, <1>6 DEF Lawful

(* The inductive invariant holds of every behaviour.                        *)
THEOREM MemberInvariant == Spec => []MemberInv
BY MemberInit, MemberStep, PTL DEF Spec

--------------------------------------------------------------------------------
(* What follows.                                                            *)

(* Only ApplyExecution makes a Pod, of the Member it has in hand.           *)
LEMMA PodsAreMadeByExecution ==
  ASSUME TypeOK, [Next]_vars, Pod = "none", Pod' = "live"
  PROVE  work.step = "execute" /\ agent'.uid = work.obj.uid
<1>1. CASE ApplyExecution
  <2>1. UNCHANGED pods => Pod' = Pod
    BY DEF Pod
  <2>2. [NoContainer EXCEPT !.step = "pull", !.uid = work.obj.uid].uid = work.obj.uid
    BY DEF NoContainer
  <2> QED
    BY <1>1, <2>1, <2>2 DEF ApplyExecution
<1>2. CASE UNCHANGED pods
  BY <1>2 DEF Pod
<1>3. CASE PodArrives
  <2>1. Pod' = Pod
    BY <1>3, TailKeepsLast DEF PodArrives, TypeOK, Pod
  <2> QED
    BY <2>1
<1>4. CASE DeletePod \/ PodIsEvicted \/ PodEnds
  <2>1. UNCHANGED pods \/ pods' = PodBecomes("terminating") \/ pods' = PodBecomes("none")
    BY <1>4 DEF DeletePod, PodIsEvicted, PodEnds
  <2> QED
    BY <1>2, <2>1, PodBecomesLast DEF PodState
<1>5. CASE ControllerRestarts
  <2>1. Pod' = Pod
    BY <1>5, TypesOfEnds, OneVersion DEF ControllerRestarts, Pod
  <2> QED
    BY <2>1
<1> QED
  BY <1>1, <1>2, <1>3, <1>4, <1>5 DEF Next, User, CreateMember, DeleteMember, MemberArrives,
     Resync, WorkerStep, Reconcile, AddFinalizer, Stat, Seed, ApplyRuntime, WriteStatus,
     RemoveFinalizer, SetupMatrix, Pull, Reports, Report, ReportFails, Cluster,
     ContainerCrashes, vars

(* A Pod is created only for a Member that exists and has the finalizer,    *)
(* however old the copy is that the reconciler works on: no deletion can    *)
(* pass a Pod by.                                                           *)
THEOREM FinalizerComesFirst == Spec => PodsNeedTheFinalizer
<1>1. MemberInv /\ [Next]_vars =>
        (Pod = "none" /\ Pod' = "live" => Current.finalizer /\ agent'.uid = Current.uid)
  BY PodsAreMadeByExecution DEF MemberInv, WorkIsLawful, Preparing
<1>2. [][Next]_vars /\ []MemberInv => PodsNeedTheFinalizer
  BY <1>1, PTL DEF PodsNeedTheFinalizer
<1> QED
  BY <1>2, MemberInvariant, PTL DEF Spec

--------------------------------------------------------------------------------
(* The workspace before the Pod.                                            *)

(* Nothing of the workspace is there, and the worker has nothing in hand.   *)
LEMMA SeedingInit == Init => SeedingIsInOrder
BY DEF Init, SeedingIsInOrder, Idle

(* A step of the seeding adds the file whose turn it is.                    *)
LEMMA SeedKeepsOrder == TypeOK /\ SeedingIsInOrder /\ Seed => SeedingIsInOrder'
<1> SUFFICES ASSUME TypeOK, SeedingIsInOrder, Seed
             PROVE  SeedingIsInOrder'
  OBVIOUS
<1>1. work \in Worker /\ files \subseteq File /\ work.pos \in 1 .. 3 /\ work.step = "seed"
  BY DEF TypeOK, Worker, Seed
<1>2. SeedOrder[1] = "SOUL.md" /\ SeedOrder[2] = "AGENTS.md" /\ SeedOrder[3] = "openclaw.json"
  BY DEF SeedOrder
<1>3. CASE UNCHANGED files
  <2>1. work'.step = "status" \/ files' = files \union {SeedOrder[work.pos]}
    BY <1>1, <1>3 DEF Seed, NotReady, Worker
  <2>2. CASE work'.step = "status"
    BY <1>3, <2>2 DEF SeedingIsInOrder
  <2>3. CASE files' = files \union {SeedOrder[work.pos]} /\ work'.step # "status"
    <3>1. work' = IF work.pos < 3 THEN [work EXCEPT !.pos = @ + 1] ELSE [work EXCEPT !.step = "runtime"]
      BY <1>1, <2>3 DEF Seed, NotReady, Worker, Goto
    <3> QED
      BY <1>1, <1>2, <1>3, <2>3, <3>1 DEF SeedingIsInOrder, Worker
  <2> QED
    BY <2>1, <2>2, <2>3
<1>4. CASE /\ files' = files \union {SeedOrder[work.pos]}
           /\ work' = IF work.pos < 3 THEN [work EXCEPT !.pos = @ + 1] ELSE [work EXCEPT !.step = "runtime"]
  <2>1. "openclaw.json" \in files' => files' = File
    <3>1. CASE work.pos = 3
      BY <1>1, <1>2, <1>4, <3>1 DEF SeedingIsInOrder, File
    <3>2. CASE work.pos # 3
      <4>1. "openclaw.json" \in files' => "openclaw.json" \in files
        BY <1>1, <1>2, <1>4, <3>2
      <4> QED
        BY <1>1, <1>2, <1>4, <3>2, <4>1 DEF SeedingIsInOrder, File
    <3> QED
      BY <3>1, <3>2
  <2>2. work'.step \in {"seed", "runtime"} /\ (work'.step = "seed" => work'.pos = work.pos + 1)
    BY <1>1, <1>4 DEF Worker
  <2>3. work'.step = "seed" => \A i \in 1 .. 3 : i < work'.pos => SeedOrder[i] \in files'
    BY <1>1, <1>4, <2>2 DEF SeedingIsInOrder
  <2> QED
    BY <2>1, <2>2, <2>3 DEF SeedingIsInOrder
<1> QED
  BY <1>3, <1>4 DEF Seed, Goto

(* No other step touches the files, or takes the credentials away.          *)
LEMMA SeedingStep == TypeOK /\ SeedingIsInOrder /\ [Next]_vars => SeedingIsInOrder'
<1> SUFFICES ASSUME TypeOK, SeedingIsInOrder, [Next]_vars
             PROVE  SeedingIsInOrder'
  OBVIOUS
<1>1. work \in Worker
  BY DEF TypeOK
<1>2. CASE UNCHANGED <<files, work>> /\ (credentials => credentials')
  BY <1>2 DEF SeedingIsInOrder, Configurable
<1>3. CASE UNCHANGED <<files, credentials>> /\ work'.step \notin {"stat", "seed", "execute"}
  BY <1>3 DEF SeedingIsInOrder
<1>4. CASE Reconcile
  <2>1. work' = [Idle EXCEPT !.step = FirstStep(Cached), !.obj = Cached] /\ UNCHANGED <<files, credentials>>
    BY <1>4 DEF Reconcile
  <2>2. work'.step \notin {"seed", "execute"} /\ work'.pos = 1
    BY <2>1 DEF Idle, FirstStep
  <2> QED
    BY <2>1, <2>2 DEF SeedingIsInOrder
<1>5. CASE Stat
  <2>1. /\ work.step = "stat" /\ work'.pos = work.pos /\ work'.step \in {"runtime", "seed"}
        /\ UNCHANGED <<files, credentials>>
    BY <1>1, <1>5 DEF Stat, Goto, Worker
  <2> QED
    BY <2>1 DEF SeedingIsInOrder
<1>6. CASE Seed
  BY <1>6, SeedKeepsOrder
<1>7. CASE ApplyRuntime
  <2>1. /\ UNCHANGED <<files, credentials>>
        /\ work'.step = "status" \/ (work'.step = "execute" /\ Configurable)
    BY <1>1, <1>7 DEF ApplyRuntime, Goto, NotReady, Worker
  <2> QED
    BY <2>1 DEF SeedingIsInOrder, Configurable
<1>8. CASE AddFinalizer \/ ApplyExecution \/ WriteStatus \/ DeletePod \/ RemoveFinalizer \/ ControllerRestarts
  <2>1. UNCHANGED <<files, credentials>>
    BY <1>8 DEF AddFinalizer, ApplyExecution, WriteStatus, DeletePod, RemoveFinalizer, ControllerRestarts
  <2>2. work' = Idle \/ NotReady \/ Goto("status") \/ Goto("removeFinalizer")
    BY <1>8 DEF AddFinalizer, ApplyExecution, WriteStatus, DeletePod, RemoveFinalizer,
       ControllerRestarts, Again
  <2>3. work'.step \notin {"stat", "seed", "execute"}
    <3>1. CASE work' = Idle
      BY <3>1 DEF Idle
    <3>2. CASE NotReady
      BY <1>1, <3>2 DEF NotReady, Worker
    <3>3. CASE Goto("status") \/ Goto("removeFinalizer")
      BY <1>1, <3>3 DEF Goto, Worker
    <3> QED
      BY <2>2, <3>1, <3>2, <3>3
  <2> QED
    BY <1>3, <2>1, <2>3
<1> QED
  BY <1>2, <1>4, <1>5, <1>6, <1>7, <1>8 DEF Next, User, CreateMember, DeleteMember, MemberArrives,
     Resync, PodArrives, WorkerStep, SetupMatrix, Pull, Reports, Report, ReportFails, PodEnds,
     Cluster, ContainerCrashes, PodIsEvicted, vars

(* No Pod is made before its Member's credentials and its whole workspace   *)
(* exist, at whatever point seeding failed before.                          *)
THEOREM SetupComesFirst == Spec => PodsWaitForTheirSetup
<1>1. TypeOK /\ SeedingIsInOrder /\ [Next]_vars =>
        (Pod = "none" /\ Pod' = "live" => credentials /\ files = File)
  BY PodsAreMadeByExecution DEF SeedingIsInOrder, Configurable
<1>2. TypeOK /\ SeedingIsInOrder /\ [Next]_vars => (TypeOK /\ SeedingIsInOrder)'
  BY TypeStep, SeedingStep
<1>3. [][Next]_vars /\ [](TypeOK /\ SeedingIsInOrder) => PodsWaitForTheirSetup
  BY <1>1, PTL DEF PodsWaitForTheirSetup
<1> QED
  BY <1>2, <1>3, TypeInit, SeedingInit, PTL DEF Spec

--------------------------------------------------------------------------------
(* The writers of the status.                                               *)

(* A version of a Member that goes on is the same in these fields, or comes *)
(* from the one the API server has.                                         *)
Kept(m) ==
  /\ Current.mxid => m.mxid
  /\ m.phase # Current.phase =>
       \/ m.phase = "Waiting" /\ ~Current.reported
       \/ m.phase = "Ready" /\ Current.reported
       \/ m.phase = "NotReady"

(* No writer undoes what another one wrote.                                 *)
LEMMA WritersKeep ==
  ASSUME MemberInv, [Next]_vars, SameMember
  PROVE  Kept(Current')
<1>1. /\ TypeOK /\ Current \in Member /\ Cached \in Member /\ work \in Worker /\ work.obj \in Member
      /\ Current.uid # 0
  <2>1. Len(versions) \in DOMAIN versions
    BY EndsAreVersions DEF MemberInv, TypeOK
  <2> QED
    BY <2>1, TypesOfEnds, WorkerTypes DEF MemberInv, SameMember, VersionsAreBorn, Current, TypeOK
<1>2. CASE Current' = Current
  BY <1>2 DEF Kept
<1>3. CASE UNCHANGED versions
  BY <1>2, <1>3 DEF Current
<1>4. CASE MemberArrives \/ ControllerRestarts
  <2>1. Current' = Current
    BY <1>1, <1>4, TailKeepsLast, OneVersion DEF MemberArrives, ControllerRestarts, TypeOK, Current
  <2> QED
    BY <1>2, <2>1
<1>5. CASE CreateMember
  BY <1>5 DEF CreateMember, SameMember
<1>6. ASSUME NEW m \in Member, versions' = Written(m)
      PROVE  Current' = m
  BY <1>1, <1>6, WrittenIsCurrent
<1>7. NoMember.uid = 0 /\ NoMember \in Member
  BY BuiltMembers DEF NoMember, Born
<1>8. CASE DeleteMember
  <2>1. CASE versions' = Written([Current EXCEPT !.deleting = TRUE])
    BY <1>1, <1>6, <2>1 DEF Kept, Member
  <2>2. CASE versions' = Written(NoMember)
    BY <1>1, <1>6, <1>7, <2>2 DEF SameMember
  <2> QED
    BY <1>8, <2>1, <2>2 DEF DeleteMember
<1>9. CASE AddFinalizer
  <2>1. CASE Current = work.obj /\ versions' = Written([work.obj EXCEPT !.finalizer = TRUE])
    BY <1>1, <1>6, <2>1 DEF Kept, Member
  <2> QED
    BY <1>3, <1>9, <2>1 DEF AddFinalizer, Update
<1>10. CASE WriteStatus
  <2>1. ASSUME NEW found \in BOOLEAN, Current = work.obj,
               versions' = Written([work.obj EXCEPT !.phase = NextPhase, !.mxid = @ \/ found])
        PROVE  Kept(Current')
    <3> DEFINE m == [work.obj EXCEPT !.phase = NextPhase, !.mxid = @ \/ found]
    <3>1. m \in Member /\ m.phase = NextPhase /\ (Current.mxid => m.mxid)
      BY <1>1, <2>1, WorkerTypes DEF Member
    <3>2. Current' = m
      BY <1>6, <2>1, <3>1
    <3>3. \/ m.phase = "Waiting" /\ ~Current.reported
          \/ m.phase = "Ready" /\ Current.reported
          \/ m.phase = "NotReady"
      BY <2>1, <3>1 DEF NextPhase
    <3> HIDE DEF m
    <3>4. Kept(m)
      BY <3>1, <3>3 DEF Kept
    <3> QED
      BY <3>2, <3>4
  <2> QED
    BY <1>3, <1>10, <2>1 DEF WriteStatus, Update
<1>11. CASE RemoveFinalizer
  <2>1. CASE versions' = Written(NoMember)
    BY <1>1, <1>6, <1>7, <2>1 DEF SameMember
  <2> QED
    BY <1>3, <1>11, <2>1 DEF RemoveFinalizer, Update
<1>12. CASE SetupMatrix
  <2>1. CASE versions' = Written([Cached EXCEPT !.mxid = TRUE]) /\ Cached = Current
    BY <1>1, <1>6, <2>1 DEF Kept, Member
  <2> QED
    BY <1>3, <1>12, <2>1 DEF SetupMatrix
<1>13. CASE Report
  <2>1. CASE versions' = Written([Current EXCEPT !.reported = TRUE])
    BY <1>1, <1>6, <2>1 DEF Kept, Member
  <2> QED
    BY <1>3, <1>13, <2>1 DEF Report
<1> QED
  BY <1>3, <1>4, <1>5, <1>8, <1>9, <1>10, <1>11, <1>12, <1>13
     DEF Next, User, Resync, PodArrives, WorkerStep, Reconcile, Stat, Seed, ApplyRuntime,
     ApplyExecution, DeletePod, Pull, Reports, ReportFails, PodEnds, Cluster, ContainerCrashes,
     PodIsEvicted, vars

(* Reconciler, setup and report write one object in any order, from copies  *)
(* of any age: no user ID is lost, and no phase contradicts the annotation  *)
(* of the version it is written into.                                       *)
THEOREM WritersDoNotUndo == Spec => StatusWritersDoNotUndo
<1>1. MemberInv /\ [Next]_vars =>
        (SameMember =>
           /\ Current.mxid => Current'.mxid
           /\ Current'.phase # Current.phase /\ Current'.phase = "Waiting" => ~Current.reported
           /\ Current'.phase # Current.phase /\ Current'.phase = "Ready" => Current.reported)
  BY WritersKeep DEF Kept
<1>2. [][Next]_vars /\ []MemberInv => StatusWritersDoNotUndo
  BY <1>1, PTL DEF StatusWritersDoNotUndo
<1> QED
  BY <1>2, MemberInvariant, PTL DEF Spec

--------------------------------------------------------------------------------
(* Nothing is forgotten: the steps as the versions, the worker and the      *)
(* container see them.                                                      *)

(* What a write may be: the same life with its report kept, its end, or the *)
(* next birth.                                                              *)
Outlives(m) ==
  /\ Current.uid # 0 /\ m.uid = Current.uid
  /\ Current.reported => m.reported
  /\ m.deleting => m.finalizer

Comes(m) ==
  \/ Outlives(m) /\ births' = births
  \/ m = NoMember /\ births' = births
  \/ m = Born(births + 1) /\ births' = births + 1

Writes == \E m \in Member : versions' = Written(m) /\ Comes(m)

(* What the worker may do but begin.                                        *)
LEMMA StepsContinue ==
  ASSUME TypeOK, [Next]_vars
  PROVE  Reconcile \/ Continues
<1>1. \A step \in Step : Goto(step) => work'.obj = work.obj /\ work'.step = step
  BY DEF Goto, TypeOK, Worker
<1>2. NotReady => work'.obj = work.obj /\ work'.step = "status"
  BY DEF NotReady, TypeOK, Worker
<1>3. Again \/ work' = Idle => Continues
  BY DEF Again, Idle, Continues
<1>4. UNCHANGED work => Continues
  BY DEF Continues
<1>5. CASE AddFinalizer \/ WriteStatus \/ RemoveFinalizer \/ ControllerRestarts
  BY <1>3, <1>5 DEF AddFinalizer, WriteStatus, RemoveFinalizer, ControllerRestarts
<1>6. CASE Stat
  BY <1>1, <1>6 DEF Stat, Continues, Preparing, Step
<1>7. CASE Seed
  <2>1. [work EXCEPT !.pos = @ + 1].obj = work.obj /\ [work EXCEPT !.pos = @ + 1].step = work.step
    BY DEF TypeOK, Worker
  <2> QED
    BY <1>1, <1>2, <1>7, <2>1 DEF Seed, Continues, Preparing, Step
<1>8. CASE ApplyRuntime
  BY <1>1, <1>2, <1>8 DEF ApplyRuntime, Continues, Preparing, Step
<1>9. CASE ApplyExecution
  BY <1>1, <1>2, <1>9 DEF ApplyExecution, Continues, Preparing, Step
<1>10. CASE DeletePod
  BY <1>1, <1>10 DEF DeletePod, Continues, Removing, Step
<1> QED
  BY <1>4, <1>5, <1>6, <1>7, <1>8, <1>9, <1>10 DEF Next, User, CreateMember, DeleteMember,
     MemberArrives, Resync, PodArrives, WorkerStep, SetupMatrix, Pull, Reports, Report,
     ReportFails, PodEnds, Cluster, ContainerCrashes, PodIsEvicted, vars

(* A write to the Member that the worker or the setup has read, or that     *)
(* needs no reading, goes on with its life.                                 *)
LEMMA StepsOfVersions ==
  ASSUME MemberInv, WorkIsOfUse, [Next]_vars
  PROVE  \/ MemberArrives \/ ControllerRestarts
         \/ UNCHANGED <<versions, births>>
         \/ Writes
<1>1. /\ TypeOK /\ Current \in Member /\ Cached \in Member /\ work \in Worker /\ work.obj \in Member
      /\ Current.deleting => Current.finalizer
      /\ Current # NoMember => Current.uid # 0
  BY TypesOfEnds, WorkerTypes, CurrentPrecedes DEF MemberInv, WorkIsOfUse, VersionsAreBorn, TypeOK
<1>2. NoMember.uid = 0 /\ NoMember \in Member
  BY BuiltMembers DEF NoMember, Born
<1>3. work.step # "idle" => work.obj.uid # 0
  BY DEF MemberInv, WorkIsLawful
<1>4. CASE CreateMember
  <2>1. births' \in 0 .. MaxBirths /\ births' = births + 1
    BY <1>1, <1>4, BoundsAssumption DEF CreateMember, TypeOK
  <2>2. Born(births') \in Member
    BY <2>1, BuiltMembers
  <2> QED
    BY <1>4, <2>1, <2>2 DEF CreateMember, Writes, Comes
<1>5. CASE DeleteMember
  <2>1. CASE Current.finalizer
    <3> DEFINE m == [Current EXCEPT !.deleting = TRUE]
    <3>1. m \in Member /\ Outlives(m) /\ versions' = Written(m)
      BY <1>1, <1>5, <2>1, BuiltMembers DEF DeleteMember, Outlives, Member
    <3> QED
      BY <1>5, <3>1 DEF DeleteMember, Writes, Comes
  <2>2. CASE ~Current.finalizer
    BY <1>2, <1>5, <2>2 DEF DeleteMember, Writes, Comes
  <2> QED
    BY <2>1, <2>2
<1>6. CASE AddFinalizer
  <2>1. CASE Update([work.obj EXCEPT !.finalizer = TRUE])
    <3> DEFINE m == [work.obj EXCEPT !.finalizer = TRUE]
    <3>1. m \in Member /\ Outlives(m) /\ versions' = Written(m)
      BY <1>1, <1>3, <1>6, <2>1, BuiltMembers DEF AddFinalizer, Update, Outlives, Member
    <3> QED
      BY <1>6, <3>1 DEF AddFinalizer, Writes, Comes
  <2> QED
    BY <1>6, <2>1 DEF AddFinalizer
<1>7. CASE WriteStatus
  <2>1. ASSUME NEW found \in BOOLEAN,
               Update([work.obj EXCEPT !.phase = NextPhase, !.mxid = @ \/ found])
        PROVE  Writes
    <3> DEFINE m == [work.obj EXCEPT !.phase = NextPhase, !.mxid = @ \/ found]
    <3>1. versions' = Written(m) /\ work.obj = Current /\ Current.uid # 0
      BY <1>3, <1>7, <2>1 DEF Update, WriteStatus
    <3>2. m \in Member
      BY <1>1, WorkerTypes DEF Member
    <3>3. /\ m.uid = Current.uid /\ m.reported = Current.reported
          /\ m.deleting = Current.deleting /\ m.finalizer = Current.finalizer
      BY <1>1, <3>1 DEF Member
    <3>4. births' = births
      BY <1>7 DEF WriteStatus
    <3> HIDE DEF m
    <3>5. Comes(m)
      BY <1>1, <3>1, <3>3, <3>4 DEF Comes, Outlives
    <3> QED
      BY <3>1, <3>2, <3>5 DEF Writes
  <2> QED
    BY <1>7, <2>1 DEF WriteStatus
<1>8. CASE RemoveFinalizer
  <2>1. CASE Update(NoMember)
    BY <1>2, <1>8, <2>1 DEF RemoveFinalizer, Update, Writes, Comes
  <2> QED
    BY <1>8, <2>1 DEF RemoveFinalizer
<1>9. CASE SetupMatrix
  <2>1. CASE Cached = Current
    <3> DEFINE m == [Cached EXCEPT !.mxid = TRUE]
    <3>1. m \in Member /\ Outlives(m) /\ versions' = Written(m)
      BY <1>1, <1>9, <2>1, BuiltMembers DEF SetupMatrix, Outlives, Member
    <3> QED
      BY <1>9, <3>1 DEF SetupMatrix, Writes, Comes
  <2> QED
    BY <1>9, <2>1 DEF SetupMatrix
<1>10. CASE Report
  <2>1. CASE ~Cached.reported /\ Current # NoMember /\ versions' = Written([Current EXCEPT !.reported = TRUE])
    <3> DEFINE m == [Current EXCEPT !.reported = TRUE]
    <3>1. m \in Member /\ Outlives(m)
      BY <1>1, <2>1, BuiltMembers DEF Outlives, Member
    <3> QED
      BY <1>10, <2>1, <3>1 DEF Report, Writes, Comes
  <2> QED
    BY <1>10, <2>1 DEF Report
<1> QED
  BY <1>4, <1>5, <1>6, <1>7, <1>8, <1>9, <1>10 DEF Next, User, Resync, PodArrives, WorkerStep,
     Reconcile, Stat, Seed, ApplyRuntime, ApplyExecution, DeletePod, Pull, Reports,
     ReportFails, PodEnds, Cluster, ContainerCrashes, PodIsEvicted, vars

(* What may become of the container, but that it reports.                   *)
AgentGoesOn ==
  \/ agent' = agent
  \/ agent'.step = "none" /\ agent'.uid = 0
  \/ agent'.uid = agent.uid /\ agent.step # "none" /\ (agent'.step = "done" => agent.step = "done")
  \/ work.step = "execute" /\ agent'.uid = work.obj.uid /\ agent'.step = "pull"

LEMMA StepsOfAgent ==
  ASSUME TypeOK, [Next]_vars
  PROVE  Report \/ AgentGoesOn
<1>1. agent \in Container
  BY DEF TypeOK
<1>2. CASE ApplyExecution
  <2>1. [NoContainer EXCEPT !.step = "pull", !.uid = work.obj.uid].uid = work.obj.uid
    BY DEF NoContainer
  <2>2. [NoContainer EXCEPT !.step = "pull", !.uid = work.obj.uid].step = "pull"
    BY DEF NoContainer
  <2> QED
    BY <1>2, <2>1, <2>2 DEF ApplyExecution, AgentGoesOn
<1>3. CASE Pull
  BY <1>1, <1>3 DEF Pull, AgentGoesOn, Container
<1>4. CASE ReportFails
  BY <1>1, <1>4 DEF ReportFails, AgentGoesOn, Container
<1>5. CASE PodEnds
  BY <1>5 DEF PodEnds, AgentGoesOn, NoContainer
<1>6. CASE ContainerCrashes
  BY <1>1, <1>6 DEF ContainerCrashes, AgentGoesOn, Container
<1> QED
  BY <1>2, <1>3, <1>4, <1>5, <1>6 DEF Next, User, CreateMember, DeleteMember, MemberArrives,
     Resync, PodArrives, WorkerStep, Reconcile, AddFinalizer, Stat, Seed, ApplyRuntime,
     WriteStatus, DeletePod, RemoveFinalizer, SetupMatrix, Reports, Cluster, PodIsEvicted,
     ControllerRestarts, AgentGoesOn, vars

(* Versions as they stand or move up, and versions written, from the ones   *)
(* there were.                                                              *)
LEMMA VersionsComeFrom ==
  ASSUME TypeOK, MemberArrives \/ ControllerRestarts \/ UNCHANGED versions
  PROVE  /\ Current' = Current /\ Len(versions') \in Nat /\ DOMAIN versions' = 1 .. Len(versions')
         /\ \A i, j \in DOMAIN versions' : i <= j =>
              \E k, l \in DOMAIN versions :
                k <= l /\ versions'[i] = versions[k] /\ versions'[j] = versions[l]
<1>1. CASE UNCHANGED versions
  BY <1>1, LenProperties DEF Current, TypeOK
<1>2. CASE MemberArrives
  <2>1. versions \in Seq(Member) /\ Len(versions) > 1 /\ versions' = Tail(versions)
    BY <1>2 DEF MemberArrives, TypeOK
  <2>2. /\ versions' \in Seq(Member) /\ versions' # <<>> /\ Current' = Current
        /\ \A i \in DOMAIN versions' : i + 1 \in DOMAIN versions /\ versions'[i] = versions[i + 1]
    BY <2>1, TailKeepsLast DEF Current
  <2>3. Len(versions') \in Nat /\ DOMAIN versions' = 1 .. Len(versions')
    BY <2>2, EndsAreVersions
  <2>4. ASSUME NEW i \in DOMAIN versions', NEW j \in DOMAIN versions', i <= j
        PROVE  \E k, l \in DOMAIN versions :
                 k <= l /\ versions'[i] = versions[k] /\ versions'[j] = versions[l]
    <3>1. i + 1 <= j + 1
      BY <2>3, <2>4
    <3> QED
      BY <2>2, <3>1
  <2> QED
    BY <2>2, <2>3, <2>4
<1>3. CASE ControllerRestarts
  <2>1. versions' = <<Current>>
    BY <1>3 DEF ControllerRestarts
  <2>2. DOMAIN versions' = {1} /\ versions'[1] = Current /\ Len(versions') = 1
    BY <2>1, TypesOfEnds, OneVersion
  <2>3. Len(versions) \in DOMAIN versions /\ Current = versions[Len(versions)] /\ Len(versions) \in Nat
    BY EndsAreVersions DEF TypeOK, Current
  <2>4. Current' = Current
    BY <2>2 DEF Current
  <2>5. 1 .. 1 = {1}
    OBVIOUS
  <2> QED
    BY <2>2, <2>3, <2>4, <2>5
<1> QED
  BY <1>1, <1>2, <1>3

(* The worker goes on being of use.                                         *)
LEMMA UseStep == MemberInv /\ WorkIsOfUse /\ [Next]_vars => WorkIsOfUse'
<1> SUFFICES ASSUME MemberInv, WorkIsOfUse, [Next]_vars
             PROVE  WorkIsOfUse'
  OBVIOUS
<1>1. \A i \in DOMAIN versions' : versions'[i].deleting => versions'[i].finalizer
  <2>1. CASE MemberArrives \/ ControllerRestarts \/ UNCHANGED versions
    <3>1. ASSUME NEW i \in DOMAIN versions'
          PROVE  \E k \in DOMAIN versions : versions'[i] = versions[k]
      <4>1. i <= i
        BY <2>1, VersionsComeFrom DEF MemberInv
      <4> QED
        BY <2>1, <4>1, VersionsComeFrom DEF MemberInv
    <3> QED
      BY <3>1 DEF WorkIsOfUse
  <2>2. CASE Writes
    <3>1. PICK m \in Member : versions' = Written(m) /\ Comes(m)
      BY <2>2 DEF Writes
    <3>2. m.deleting => m.finalizer
      <4>1. \A u : ~Born(u).deleting
        BY DEF Born
      <4> QED
        BY <3>1, <4>1 DEF Comes, Outlives, NoMember
    <3>3. \A i \in DOMAIN versions' :
            (i \in DOMAIN versions /\ versions'[i] = versions[i]) \/ versions'[i] = m
      BY <3>1, WrittenIsCurrent DEF MemberInv
    <3> QED
      BY <3>2, <3>3 DEF WorkIsOfUse
  <2> QED
    BY <2>1, <2>2, StepsOfVersions
<1>2. CASE Reconcile
  <2>1. work'.step = FirstStep(Cached) /\ work'.obj = Cached
    BY <1>2 DEF Reconcile, Idle
  <2>2. work'.step \in Preparing \union {"addFinalizer"} => ~Cached.deleting
    BY <2>1 DEF FirstStep, Preparing
  <2>3. work'.step = "addFinalizer" => ~Cached.finalizer
    BY <2>1 DEF FirstStep
  <2> QED
    BY <1>1, <2>1, <2>2, <2>3 DEF WorkIsOfUse
<1>3. CASE Continues
  <2>1. work'.step \in Preparing \union {"addFinalizer"} =>
          work'.obj = work.obj /\ work.step \in Preparing \union {"addFinalizer"}
    BY <1>3 DEF Continues, Preparing, Removing
  <2>2. work'.step = "addFinalizer" => work.step = "addFinalizer" /\ work'.obj = work.obj
    BY <1>3 DEF Continues, Preparing, Removing
  <2> QED
    BY <1>1, <2>1, <2>2 DEF WorkIsOfUse
<1> QED
  BY <1>2, <1>3, StepsContinue DEF MemberInv

(* A write is a new version, or none.                                       *)
LEMMA WrittenIsAttended ==
  ASSUME TypeOK, NEW m \in Member, versions' = Written(m)
  PROVE  Len(versions') > 1 \/ (UNCHANGED versions /\ m = Current)
<1>1. m # Current => Len(versions') = Len(versions) + 1 /\ Len(versions) >= 1 /\ Len(versions) \in Nat
  BY AppendedIsLast, EndsAreVersions DEF TypeOK, Written
<1> QED
  BY <1>1 DEF Written

WorkIsAttended == Current.deleting \/ (Current.reported /\ Current.phase # "Ready") => Attended

(* Whatever happens, somebody will come to what is to be done.              *)
LEMMA AttentionStep == MemberInv /\ WorkIsOfUse /\ WorkIsAttended /\ [Next]_vars => WorkIsAttended'
<1> SUFFICES ASSUME MemberInv, WorkIsOfUse, WorkIsAttended, [Next]_vars
             PROVE  WorkIsAttended'
  OBVIOUS
<1>1. /\ TypeOK /\ Current \in Member /\ work \in Worker /\ work.obj \in Member
      /\ NoMember \in Member /\ ~NoMember.deleting /\ ~NoMember.reported
  BY TypesOfEnds, WorkerTypes, BuiltMembers DEF MemberInv, TypeOK, NoMember, Born
<1>2. ASSUME Len(versions') > 1 \/ queued' \/ work'.step # "idle" PROVE WorkIsAttended'
  BY <1>2 DEF WorkIsAttended, Attended
<1>3. CASE UNCHANGED <<versions, queued, work>>
  BY <1>3 DEF WorkIsAttended, Attended, Current
<1>4. ASSUME NEW m \in Member, versions' = Written(m), UNCHANGED <<queued, work>>
      PROVE  WorkIsAttended'
  BY <1>1, <1>2, <1>3, <1>4, WrittenIsAttended
<1>5. CASE CreateMember
  <2>1. births' \in 0 .. MaxBirths
    BY <1>1, <1>5, BoundsAssumption DEF CreateMember, TypeOK
  <2> QED
    BY <1>4, <1>5, <2>1, BuiltMembers DEF CreateMember
<1>6. CASE DeleteMember
  BY <1>1, <1>4, <1>6, BuiltMembers DEF DeleteMember
<1>7. CASE MemberArrives \/ Resync
  BY <1>2, <1>7 DEF MemberArrives, Resync
<1>8. CASE SetupMatrix
  BY <1>3, <1>4, <1>8, TypesOfEnds, BuiltMembers, <1>1 DEF SetupMatrix
<1>9. CASE Report
  BY <1>1, <1>3, <1>4, <1>9, BuiltMembers DEF Report
<1>10. CASE ControllerRestarts
  <2>1. Current' = Current
    BY <1>1, <1>10, VersionsComeFrom
  <2> QED
    BY <1>1, <1>10, <2>1 DEF ControllerRestarts, WorkIsAttended, Attended
<1>11. CASE Reconcile
  <2>1. versions' = versions /\ Current' = Current /\ work'.step = FirstStep(Cached)
    BY <1>11 DEF Reconcile, Idle, Current
  <2>2. CASE Len(versions) > 1
    BY <1>2, <2>1, <2>2
  <2>3. CASE Len(versions) <= 1
    <3>1. Len(versions) = 1
      <4>1. PICK n \in Nat : n = Len(versions) /\ n >= 1
        BY <1>1, EndsAreVersions DEF TypeOK
      <4>2. n <= 1
        BY <2>3, <4>1
      <4>3. n = 1
        BY <4>1, <4>2
      <4> QED
        BY <4>1, <4>3
    <3>2. Cached = Current
      BY <3>1, CurrentPrecedes
    <3>3. Current.deleting => Current.finalizer
      BY CurrentPrecedes DEF WorkIsOfUse
    <3>4. Current.deleting \/ Current.reported => FirstStep(Cached) # "idle"
      BY <1>1, <3>2, <3>3 DEF FirstStep
    <3> QED
      BY <2>1, <3>4 DEF WorkIsAttended, Attended
  <2> QED
    BY <1>1, <2>2, <2>3, EndsAreVersions DEF TypeOK
<1>12. CASE AddFinalizer
  <2>1. CASE Update([work.obj EXCEPT !.finalizer = TRUE])
    <3>1. /\ [work.obj EXCEPT !.finalizer = TRUE] \in Member
          /\ [work.obj EXCEPT !.finalizer = TRUE].finalizer
      BY <1>1, BuiltMembers DEF Member
    <3>2. ~work.obj.finalizer /\ work.obj = Current
      BY <1>12, <2>1 DEF AddFinalizer, WorkIsOfUse, Update
    <3>3. Len(versions') > 1
      BY <1>1, <2>1, <3>1, <3>2, WrittenIsAttended DEF Update
    <3> QED
      BY <1>2, <3>3
  <2>2. CASE Again
    BY <1>2, <2>2 DEF Again
  <2> QED
    BY <1>12, <2>1, <2>2 DEF AddFinalizer
<1>13. CASE WriteStatus
  <2>1. ASSUME NEW found \in BOOLEAN,
               Update([work.obj EXCEPT !.phase = NextPhase, !.mxid = @ \/ found]),
               queued' = (queued \/ ~work.ok)
        PROVE  WorkIsAttended'
    <3> DEFINE m == [work.obj EXCEPT !.phase = NextPhase, !.mxid = @ \/ found]
    <3>1. m \in Member /\ m.phase = NextPhase /\ m.reported = work.obj.reported /\ m.deleting = work.obj.deleting
      BY <1>1, WorkerTypes DEF Member
    <3>2. versions' = Written(m)
      BY <2>1 DEF Update
    <3>3. ~work.obj.deleting
      BY <1>13 DEF WriteStatus, WorkIsOfUse, Preparing
    <3>4. work.ok /\ work.obj.reported => NextPhase = "Ready"
      BY DEF NextPhase
    <3> HIDE DEF m
    <3>5. Current' = m
      BY <1>1, <3>1, <3>2, WrittenIsCurrent
    <3>6. CASE work.ok
      BY <3>1, <3>3, <3>4, <3>5, <3>6 DEF WorkIsAttended
    <3>7. CASE ~work.ok
      BY <1>2, <2>1, <3>7
    <3> QED
      BY <3>6, <3>7
  <2>2. CASE Again
    BY <1>2, <2>2 DEF Again
  <2> QED
    BY <1>13, <2>1, <2>2 DEF WriteStatus
<1>14. CASE RemoveFinalizer
  <2>1. CASE Update(NoMember)
    <3>1. Current' = NoMember
      BY <1>1, <2>1, WrittenIsCurrent DEF Update
    <3> QED
      BY <1>1, <3>1 DEF WorkIsAttended
  <2>2. CASE Again
    BY <1>2, <2>2 DEF Again
  <2> QED
    BY <1>14, <2>1, <2>2 DEF RemoveFinalizer
<1>15. CASE Stat \/ Seed \/ ApplyRuntime \/ ApplyExecution \/ DeletePod
  <2>1. \A step \in Step : Goto(step) => work'.step = step
    BY <1>1 DEF Goto, Worker
  <2>2. NotReady => work'.step = "status"
    BY <1>1 DEF NotReady, Worker
  <2>3. [work EXCEPT !.pos = @ + 1].step = work.step
    BY <1>1 DEF Worker
  <2>4. work'.step # "idle"
    BY <1>15, <2>1, <2>2, <2>3 DEF Stat, Seed, ApplyRuntime, ApplyExecution, DeletePod, Step
  <2> QED
    BY <1>2, <2>4
<1> QED
  BY <1>3, <1>5, <1>6, <1>7, <1>8, <1>9, <1>10, <1>11, <1>12, <1>13, <1>14, <1>15
     DEF Next, User, PodArrives, WorkerStep, Pull, Reports, ReportFails, PodEnds, Cluster,
     ContainerCrashes, PodIsEvicted, vars

(* Lives follow one another when each older version is followed by what is  *)
(* written.                                                                 *)
LEMMA LivesFollowWritten ==
  ASSUME TypeOK, ReportsStay, NEW m \in Member, versions' = Written(m),
         \A i \in DOMAIN versions : LivesFollow(versions[i], m), LivesFollow(m, m)
  PROVE  \A i, j \in DOMAIN versions' : i <= j => LivesFollow(versions'[i], versions'[j])
<1>1. /\ versions' \in Seq(Member)
      /\ \A i \in DOMAIN versions' :
           (i \in DOMAIN versions /\ versions'[i] = versions[i])
             \/ (i = Len(versions') /\ versions'[i] = m)
  BY WrittenIsCurrent
<1>2. Len(versions') \in Nat /\ DOMAIN versions' = 1 .. Len(versions')
  BY <1>1, LenProperties
<1>3. ASSUME NEW i \in DOMAIN versions', NEW j \in DOMAIN versions', i <= j
      PROVE  LivesFollow(versions'[i], versions'[j])
  <2>1. CASE i = Len(versions') /\ versions'[i] = m
    <3>1. i = j
      BY <1>2, <1>3, <2>1
    <3> QED
      BY <2>1, <3>1
  <2>2. CASE i \in DOMAIN versions /\ versions'[i] = versions[i]
    <3>1. CASE j \in DOMAIN versions /\ versions'[j] = versions[j]
      BY <1>3, <2>2, <3>1 DEF ReportsStay
    <3>2. CASE versions'[j] = m
      BY <2>2, <3>2
    <3> QED
      BY <1>1, <3>1, <3>2
  <2> QED
    BY <1>1, <2>1, <2>2
<1> QED
  BY <1>3

(* Every version, and what the uids are.                                    *)
LEMMA Uids ==
  ASSUME MemberInv, ReportsStay
  PROVE  /\ births \in Nat /\ agent.uid \in Nat /\ work.obj.uid \in Nat
         /\ \A m \in Member : m.uid \in Nat
         /\ \A i \in DOMAIN versions :
              /\ versions[i] \in Member /\ versions[i].uid <= births
              /\ LivesFollow(Cached, versions[i]) /\ LivesFollow(versions[i], Current)
<1>1. \A m \in Member : m.uid \in Nat
  BY BoundsAssumption DEF Member
<1>2. agent.uid \in Nat /\ births \in Nat
  BY BoundsAssumption DEF MemberInv, TypeOK, Container
<1>3. \A i \in DOMAIN versions : versions[i] \in Member /\ versions[i].uid <= births
  BY LenProperties, ElementOfSeq DEF MemberInv, TypeOK, VersionsAreBorn
<1>4. /\ 1 \in DOMAIN versions /\ Cached = versions[1]
      /\ Len(versions) \in DOMAIN versions /\ Current = versions[Len(versions)]
      /\ \A i \in DOMAIN versions : 1 <= i /\ i <= Len(versions)
  BY EndsAreVersions DEF MemberInv, TypeOK, Cached, Current
<1>5. \A i \in DOMAIN versions : LivesFollow(Cached, versions[i]) /\ LivesFollow(versions[i], Current)
  BY <1>4 DEF ReportsStay
<1> QED
  BY <1>1, <1>2, <1>3, <1>5, WorkerTypes DEF MemberInv

(* Lives go on following one another.                                       *)
LEMMA LivesStep ==
  ASSUME MemberInv, WorkIsOfUse, ReportsStay, [Next]_vars
  PROVE  \A i, j \in DOMAIN versions' : i <= j => LivesFollow(versions'[i], versions'[j])
<1>1. CASE MemberArrives \/ ControllerRestarts \/ UNCHANGED versions
  <2>1. ASSUME NEW i \in DOMAIN versions', NEW j \in DOMAIN versions', i <= j
        PROVE  LivesFollow(versions'[i], versions'[j])
    <3>1. PICK k \in DOMAIN versions, l \in DOMAIN versions :
            k <= l /\ versions'[i] = versions[k] /\ versions'[j] = versions[l]
      BY <1>1, <2>1, VersionsComeFrom DEF MemberInv
    <3> QED
      BY <3>1 DEF ReportsStay
  <2> QED
    BY <2>1
<1>2. CASE Writes
  <2>1. PICK m \in Member : versions' = Written(m) /\ Comes(m)
    BY <1>2 DEF Writes
  <2>2. ASSUME NEW i \in DOMAIN versions PROVE LivesFollow(versions[i], m)
    <3>1. /\ births \in Nat /\ versions[i].uid \in Nat /\ versions[i].uid <= births
          /\ LivesFollow(versions[i], Current)
      BY Uids
    <3>2. CASE Outlives(m)
      BY <3>1, <3>2 DEF Outlives, LivesFollow
    <3>3. CASE m = NoMember
      BY <3>3 DEF NoMember, Born, LivesFollow
    <3>4. CASE m = Born(births + 1)
      <4>1. m.uid = births + 1
        BY <3>4 DEF Born
      <4> QED
        BY <3>1, <4>1 DEF LivesFollow
    <3> QED
      BY <2>1, <3>2, <3>3, <3>4 DEF Comes
  <2>3. LivesFollow(m, m)
    BY Uids DEF LivesFollow
  <2> QED
    BY <2>1, <2>2, <2>3, LivesFollowWritten DEF MemberInv
<1> QED
  BY <1>1, <1>2, StepsOfVersions

(* No container, and no copy in hand, gets ahead of the versions.           *)
Bounded(u) == u # 0 => agent'.uid <= u /\ (work'.step # "idle" => work'.obj.uid <= u)

LEMMA UidsStep ==
  ASSUME MemberInv, WorkIsOfUse, ReportsStay, [Next]_vars
  PROVE  /\ \A i \in DOMAIN versions' : NotAhead(versions[i])'
         /\ agent'.uid <= births' /\ (agent'.step # "none" => agent'.uid # 0)
<1>1. work.step # "idle" => work.obj.uid \in 1 .. births
  BY DEF MemberInv, WorkIsLawful
<1>2. births \in Nat /\ agent.uid \in Nat /\ work.obj.uid \in Nat
  BY Uids
<1>3. agent.uid <= births /\ (agent.step # "none" => agent.uid # 0)
  BY DEF ReportsStay
<1>4. \/ agent'.uid = agent.uid /\ (agent'.step # "none" => agent.step # "none")
      \/ agent'.step = "none" /\ agent'.uid = 0
      \/ work.step # "idle" /\ agent'.uid = work.obj.uid
  BY StepsOfAgent DEF MemberInv, AgentGoesOn, Report, TypeOK, Container
<1>5. births' = births \/ births' = births + 1
  <2>1. MemberArrives \/ ControllerRestarts => births' = births
    BY DEF MemberArrives, ControllerRestarts
  <2> QED
    BY <2>1, StepsOfVersions DEF Writes, Comes
<1>6. agent'.uid <= births /\ agent'.uid \in Nat /\ (agent'.step # "none" => agent'.uid # 0)
  BY <1>1, <1>2, <1>3, <1>4
<1>7. ASSUME NEW i \in DOMAIN versions PROVE Bounded(versions[i].uid)
  <2>1. /\ versions[i].uid \in Nat /\ LivesFollow(Cached, versions[i])
        /\ NotAhead(versions[i])
    BY Uids DEF ReportsStay
  <2>2. versions[i].uid # 0 => agent'.uid <= versions[i].uid
    BY <1>2, <1>4, <2>1 DEF NotAhead
  <2>3. CASE Reconcile
    <3>1. work'.obj = Cached
      BY <2>3 DEF Reconcile, Idle
    <3> QED
      BY <2>1, <2>2, <3>1 DEF Bounded, LivesFollow
  <2>4. CASE Continues
    <3>1. work'.step # "idle" => work.step # "idle" /\ work'.obj = work.obj
      BY <2>4 DEF Continues, Preparing, Removing
    <3> QED
      BY <2>1, <2>2, <3>1 DEF Bounded, NotAhead
  <2> QED
    BY <2>3, <2>4, StepsContinue DEF MemberInv
<1>8. ASSUME NEW i \in DOMAIN versions' PROVE Bounded(versions'[i].uid)
  <2>1. CASE \E k \in DOMAIN versions : versions'[i] = versions[k]
    BY <1>7, <2>1
  <2>2. CASE MemberArrives \/ ControllerRestarts \/ UNCHANGED versions
    <3>1. i <= i
      BY <2>2, VersionsComeFrom DEF MemberInv
    <3> QED
      BY <2>1, <2>2, <3>1, VersionsComeFrom DEF MemberInv
  <2>3. CASE Writes
    <3>1. PICK m \in Member : versions' = Written(m) /\ Comes(m)
      BY <2>3 DEF Writes
    <3>2. (\E k \in DOMAIN versions : versions'[i] = versions[k]) \/ versions'[i] = m
      BY <3>1, WrittenIsCurrent DEF MemberInv
    <3>3. CASE versions'[i] = m /\ Outlives(m)
      <4>1. Len(versions) \in DOMAIN versions /\ Current = versions[Len(versions)]
        BY CurrentPrecedes
      <4>2. Bounded(Current.uid)
        BY <1>7, <4>1
      <4> QED
        BY <3>3, <4>2 DEF Outlives
    <3>4. CASE versions'[i] = m /\ m = NoMember
      <4>1. NoMember.uid = 0
        BY DEF NoMember, Born
      <4>2. versions'[i].uid = 0
        BY <3>4, <4>1
      <4> QED
        BY <4>2 DEF Bounded
    <3>5. CASE versions'[i] = m /\ m = Born(births + 1) /\ births' = births + 1
      <4>1. versions'[i].uid = births + 1
        <5>1. Born(births + 1).uid = births + 1
          BY DEF Born
        <5> QED
          BY <3>5, <5>1
      <4>2. work'.step # "idle" => work'.obj.uid <= births /\ work'.obj.uid \in Nat
        <5>1. UNCHANGED work
          <6>1. CASE CreateMember
            BY <6>1 DEF CreateMember
          <6>2. CASE births' = births
            BY <1>2, <3>5, <6>2
          <6> QED
            BY <6>1, <6>2 DEF Next, User, DeleteMember, MemberArrives, Resync, PodArrives,
               WorkerStep, Reconcile, AddFinalizer, Stat, Seed, ApplyRuntime, ApplyExecution,
               WriteStatus, DeletePod, RemoveFinalizer, SetupMatrix, Pull, Reports, Report,
               ReportFails, PodEnds, Cluster, ContainerCrashes, PodIsEvicted,
               ControllerRestarts, vars
        <5> QED
          BY <1>1, <1>2, <5>1
      <4>3. agent'.uid <= births + 1 /\ (work'.step # "idle" => work'.obj.uid <= births + 1)
        BY <1>2, <1>6, <4>2
      <4> QED
        BY <4>1, <4>3 DEF Bounded
    <3> QED
      BY <2>1, <3>1, <3>2, <3>3, <3>4, <3>5 DEF Comes
  <2> QED
    BY <2>2, <2>3, StepsOfVersions
<1>9. \A i \in DOMAIN versions' : NotAhead(versions[i])'
  BY <1>8 DEF NotAhead, Bounded
<1>10. agent'.uid <= births'
  BY <1>2, <1>5, <1>6
<1> QED
  BY <1>6, <1>9, <1>10

(* The report of the container whose life goes on stays on record; one that *)
(* found itself reported in the cache is on record with the API server.     *)
LEMMA RecordStep ==
  ASSUME MemberInv, WorkIsOfUse, ReportsStay, ReportIsOnRecord, [Next]_vars
  PROVE  ReportIsOnRecord'
<1>1. SUFFICES ASSUME agent'.step = "done", agent'.uid = Current'.uid PROVE Current'.reported
  BY DEF ReportIsOnRecord
<1>2. /\ Current \in Member /\ births \in Nat /\ agent.uid \in Nat /\ agent.uid <= births
      /\ agent \in Container /\ (agent.step # "none" => agent.uid # 0)
      /\ LivesFollow(Cached, Current) /\ NotAhead(Cached)
  <2>1. 1 \in DOMAIN versions /\ Cached = versions[1] /\ Len(versions) \in DOMAIN versions /\ Current = versions[Len(versions)]
    BY CurrentPrecedes
  <2> QED
    BY <2>1, Uids, TypesOfEnds DEF ReportsStay, MemberInv, TypeOK
<1>3. CASE Report
  <2>1. agent'.uid = agent.uid /\ agent.uid # 0
    BY <1>2, <1>3 DEF Report, Container
  <2>2. CASE Cached.reported /\ UNCHANGED versions
    <3>1. Current' = Current
      BY <2>2 DEF Current
    <3>2. Cached.uid \in Nat /\ Current.uid \in Nat /\ Cached.uid # 0
      <4>1. Cached # NoMember
        BY <1>3 DEF Report
      <4> QED
        BY <4>1, CurrentPrecedes, Uids, TypesOfEnds DEF MemberInv, VersionsAreBorn
    <3>3. agent.uid <= Cached.uid /\ agent.uid = Current.uid /\ Cached.uid <= Current.uid
      BY <1>1, <1>2, <2>1, <3>1, <3>2 DEF LivesFollow, NotAhead
    <3>4. Cached.uid = Current.uid
      BY <1>2, <3>2, <3>3
    <3> QED
      BY <1>2, <2>2, <3>1, <3>2, <3>4 DEF LivesFollow
  <2>3. CASE versions' = Written([Current EXCEPT !.reported = TRUE])
    <3>1. [Current EXCEPT !.reported = TRUE] \in Member /\ [Current EXCEPT !.reported = TRUE].reported
      BY <1>2, BuiltMembers DEF Member
    <3>2. Current' = [Current EXCEPT !.reported = TRUE]
      BY <2>3, <3>1, WrittenIsCurrent DEF MemberInv
    <3> QED
      BY <3>1, <3>2
  <2> QED
    BY <1>3, <2>2, <2>3 DEF Report
<1>4. CASE AgentGoesOn
  <2>1. agent.step = "done" /\ agent'.uid = agent.uid
    BY <1>1, <1>4 DEF AgentGoesOn
  <2>2. CASE MemberArrives \/ ControllerRestarts \/ UNCHANGED versions
    <3>1. Current' = Current
      BY <2>2, VersionsComeFrom DEF MemberInv
    <3> QED
      BY <1>1, <2>1, <3>1 DEF ReportIsOnRecord
  <2>3. CASE Writes
    <3>1. PICK m \in Member : versions' = Written(m) /\ Comes(m)
      BY <2>3 DEF Writes
    <3>2. Current' = m
      BY <3>1, WrittenIsCurrent DEF MemberInv
    <3>3. CASE Outlives(m)
      BY <1>1, <2>1, <3>2, <3>3 DEF Outlives, ReportIsOnRecord
    <3>4. CASE m = NoMember
      <4>1. m.uid = 0
        BY <3>4 DEF NoMember, Born
      <4> QED
        BY <1>1, <1>2, <2>1, <3>2, <4>1
    <3>5. CASE m = Born(births + 1)
      <4>1. m.uid = births + 1
        BY <3>5 DEF Born
      <4>2. agent.uid = births + 1
        BY <1>1, <2>1, <3>2, <4>1
      <4>3. agent.uid \in Nat /\ births \in Nat /\ agent.uid <= births
        BY <1>2
      <4> QED
        BY <4>2, <4>3
    <3> QED
      BY <3>1, <3>3, <3>4, <3>5 DEF Comes
  <2> QED
    BY <2>2, <2>3, StepsOfVersions
<1> QED
  BY <1>3, <1>4, StepsOfAgent DEF MemberInv

ProgressInv == MemberInv /\ WorkIsOfUse /\ ReportsStay /\ NothingIsForgotten

LEMMA ProgressInit == Init => ProgressInv
<1> SUFFICES ASSUME Init PROVE ProgressInv
  OBVIOUS
<1>1. /\ versions = <<NoMember>> /\ births = 0 /\ agent = NoContainer /\ work.step = "idle"
      /\ work = Idle
  BY DEF Init, Idle
<1>2. DOMAIN versions = {1} /\ versions[1] = NoMember /\ Len(versions) = 1
  BY <1>1, BuiltMembers, OneVersion
<1>3. NoMember.uid = 0 /\ ~NoMember.deleting /\ ~NoMember.reported
  BY DEF NoMember, Born
<1>4. agent.uid = 0 /\ agent.step = "none"
  BY <1>1 DEF NoContainer
<1>5. Current = NoMember
  BY <1>2 DEF Current
<1>6. WorkIsOfUse
  BY <1>1, <1>2, <1>3 DEF WorkIsOfUse, Preparing
<1>7. ReportsStay
  BY <1>1, <1>2, <1>3, <1>4 DEF ReportsStay, LivesFollow, NotAhead
<1>8. NothingIsForgotten
  BY <1>3, <1>4, <1>5 DEF NothingIsForgotten, ReportIsOnRecord
<1> QED
  BY <1>6, <1>7, <1>8, MemberInit DEF ProgressInv

LEMMA ProgressStep == ProgressInv /\ [Next]_vars => ProgressInv'
<1> SUFFICES ASSUME ProgressInv, [Next]_vars
             PROVE  ProgressInv'
  OBVIOUS
<1>1. MemberInv /\ WorkIsOfUse /\ ReportsStay /\ WorkIsAttended /\ ReportIsOnRecord
  BY DEF ProgressInv, NothingIsForgotten, WorkIsAttended
<1>2. MemberInv' /\ WorkIsOfUse'
  BY <1>1, MemberStep, UseStep
<1>3. WorkIsAttended' /\ ReportIsOnRecord'
  BY <1>1, AttentionStep, RecordStep
<1>4. NothingIsForgotten'
  BY <1>3 DEF NothingIsForgotten, WorkIsAttended
<1>5. ReportsStay'
  <2>1. \A i, j \in DOMAIN versions' : i <= j => LivesFollow(versions'[i], versions'[j])
    BY <1>1, LivesStep
  <2>2. /\ \A i \in DOMAIN versions' : NotAhead(versions[i])'
        /\ agent'.uid <= births' /\ (agent'.step # "none" => agent'.uid # 0)
    BY <1>1, UidsStep
  <2> QED
    BY <2>1, <2>2 DEF ReportsStay, LivesFollow
<1> QED
  BY <1>2, <1>4, <1>5 DEF ProgressInv

(* While a deleted Member is to be finalized, or a reported one is to       *)
(* become Ready, an event, the queue or the worker has it: no conflict, no  *)
(* fault and no restart of the controller loses that; and a container that  *)
(* reported, and so stops asking, has its report on record. With the        *)
(* fairness of FairSpec this is what RunningPodsGetReady and                *)
(* DeletionCompletes rest on.                                               *)
THEOREM NothingForgotten == Spec => []NothingIsForgotten
<1>1. ProgressInv => NothingIsForgotten
  BY DEF ProgressInv
<1> QED
  BY <1>1, ProgressInit, ProgressStep, PTL DEF Spec
================================================================================
