---------------------------- MODULE WorkspaceProofs ----------------------------
(***************************************************************************)
(* What a workspace keeps, for any number of rooms, notes, failures and    *)
(* restarts.                                                               *)
(***************************************************************************)
EXTENDS Workspace, TLAPS

(* A copy of one file has that file of the one and the others of the other. *)
LEMMA CopyOne ==
  ASSUME NEW to \in Files, NEW from \in Files, NEW f \in File
  PROVE  /\ Copy(to, from, f) \in Files
         /\ Copy(to, from, f).soul = IF f = "soul" THEN from.soul ELSE to.soul
         /\ Copy(to, from, f).skill = IF f = "skill" THEN from.skill ELSE to.skill
         /\ Copy(to, from, f).config = IF f = "config" THEN from.config ELSE to.config
         /\ Copy(to, from, f).memory = IF f = "memory" THEN from.memory ELSE to.memory
<1>1. CASE f = "soul"
  BY <1>1 DEF Copy, Files
<1>2. CASE f = "skill"
  BY <1>2 DEF Copy, Files
<1>3. CASE f = "config"
  BY <1>3 DEF Copy, Files
<1>4. CASE f = "memory"
  BY <1>4 DEF Copy, Files
<1> QED
  BY <1>1, <1>2, <1>3, <1>4 DEF File

(* A file that is there is not the empty one.                               *)
LEMMA HasOne ==
  ASSUME NEW x \in Files
  PROVE  /\ Has(x, "soul") <=> x.soul # "absent"
         /\ Has(x, "skill") <=> x.skill # "absent"
         /\ Has(x, "config") <=> x.config # Empty.config
         /\ Has(x, "memory") <=> x.memory # 0
BY DEF Has, Empty, Files

(* The two workspaces everything begins with.                               *)
LEMMA Beginnings ==
  /\ Empty \in Files /\ Template \in Files
  /\ Empty.soul = "absent" /\ Empty.skill = "absent" /\ Empty.memory = 0
  /\ Empty.config = [kind |-> "absent", rooms |-> 0]
  /\ Template.soul = "template" /\ Template.skill = "template" /\ Template.memory = 0
  /\ Template.config = [kind |-> "template", rooms |-> 0]
  /\ Empty.config \in Config /\ Template.config \in Config
BY BoundsAssumption DEF Empty, Template, Files, Text, Config

(* A call that puts a template has put it, or has not.                      *)
LEMMA PutOne ==
  ASSUME bucket \in Files, NEW f \in {"soul", "skill", "config"},
         bucket' = [bucket EXCEPT ![f] = Template[f]]
  PROVE  /\ bucket' = Copy(bucket, Template, f)
BY DEF Copy

(* Where Put leads.                                                         *)
LEMMA PutLeads ==
  ASSUME NEW f \in {"soul", "skill", "config"}, NEW next, Put(f, next)
  PROVE  /\ bucket' = bucket \/ bucket' = Copy(bucket, Template, f)
         /\ (work' = next /\ bucket' = Copy(bucket, Template, f)) \/ work' = Idle
BY DEF Put, Copy

(* Faults are counted up to the bound.                                      *)
LEMMA FaultsBounded ==
  ASSUME faults \in 0 .. MaxFaults, Fault \/ NoFault
  PROVE  faults' \in 0 .. MaxFaults
BY BoundsAssumption DEF Fault, NoFault

--------------------------------------------------------------------------------
(* Types.                                                                   *)

(* The types hold of an empty workspace.                                    *)
LEMMA TypeInit == Init => TypeOK
<1> SUFFICES ASSUME Init PROVE TypeOK
  OBVIOUS
<1>1. NoContainer \in [step : {"none", "pull", "run"}, left : SUBSET File]
  BY DEF NoContainer
<1>2. Idle \in Work
  BY BoundsAssumption DEF Idle, Step, Work
<1>3. 0 \in 0 .. MaxRooms /\ 0 \in 0 .. MaxFaults
  BY BoundsAssumption
<1> QED
  BY <1>1, <1>2, <1>3, Beginnings DEF Init, TypeOK

(* The steps of the reconciler keep them.                                   *)
LEMMA WorkerKeepsTypes == TypeOK /\ WorkerStep => TypeOK'
<1> SUFFICES ASSUME TypeOK, WorkerStep PROVE TypeOK'
  OBVIOUS
<1>1. \A s \in Step : [Idle EXCEPT !.step = s] \in Work
  BY BoundsAssumption DEF Idle, Step, Work
<1>2. Idle \in Work
  BY BoundsAssumption DEF Idle, Step, Work
<1>3. CASE Reconcile
  BY <1>1, <1>3 DEF Reconcile, Goto, TypeOK, containerVars, podVars, Step
<1>4. CASE Look
  <2>1. faults' \in 0 .. MaxFaults
    BY <1>4, FaultsBounded DEF Look, TypeOK
  <2>2. work' \in Work
    BY <1>1, <1>4 DEF Look, Goto, Step
  <2>3. blind' \subseteq {"soul", "skill"}
    BY <1>4 DEF Look, TypeOK
  <2> QED
    BY <1>4, <2>1, <2>2, <2>3 DEF Look, TypeOK, containerVars, podVars
<1>5. CASE Seed
  <2> DEFINE f == SeedOrder[work.pos]
             then == IF work.pos = 1 THEN [work EXCEPT !.pos = 2] ELSE [Idle EXCEPT !.step = "skills"]
  <2>1. work.pos \in {1, 2} /\ f \in {"soul", "skill", "config"}
    BY DEF TypeOK, SeedOrder, Work
  <2>2. then \in Work
    BY <1>1 DEF TypeOK, Step, Work
  <2>3. Put(f, then)
    BY <1>5 DEF Seed
  <2>4. faults' \in 0 .. MaxFaults
    BY <2>3, FaultsBounded DEF Put, TypeOK
  <2>5. bucket' \in Files /\ work' \in Work
    <3> HIDE DEF f, then
    <3>1. bucket' = bucket \/ bucket' = Copy(bucket, Template, f)
      BY <2>1, <2>3, PutLeads
    <3>2. work' = then \/ work' = Idle
      BY <2>1, <2>3, PutLeads
    <3> QED
      BY <1>2, <2>1, <2>2, <3>1, <3>2, CopyOne, Beginnings DEF TypeOK, File
  <2> QED
    BY <1>5, <2>4, <2>5 DEF Seed, TypeOK, containerVars, podVars
<1>6. CASE SeedSkill
  <2>1. faults' \in 0 .. MaxFaults
    BY <1>6, FaultsBounded DEF SeedSkill, Put, TypeOK
  <2>2. bucket' = bucket \/ bucket' = Copy(bucket, Template, "skill")
    BY <1>6, PutLeads DEF SeedSkill, Copy
  <2>3. work' \in Work
    BY <1>1, <1>2, <1>6, PutLeads DEF SeedSkill, Goto, Step
  <2>4. bucket' \in Files
    BY <2>2, CopyOne, Beginnings DEF TypeOK, File
  <2> QED
    BY <1>6, <2>1, <2>3, <2>4 DEF SeedSkill, TypeOK, containerVars, podVars
<1>7. CASE ReadRooms \/ ReadConfig
  <2>1. faults' \in 0 .. MaxFaults
    BY <1>7, FaultsBounded DEF ReadRooms, ReadConfig, TypeOK
  <2>2. [Idle EXCEPT !.step = "read", !.rooms = rooms] \in Work
    BY DEF Idle, Step, Work, TypeOK
  <2>3. [work EXCEPT !.step = "write"] \in Work
    BY DEF Step, Work, TypeOK
  <2>4. work' \in Work
    BY <1>2, <1>7, <2>2, <2>3 DEF ReadRooms, ReadConfig
  <2> QED
    BY <1>7, <2>1, <2>4 DEF ReadRooms, ReadConfig, TypeOK, containerVars, podVars
<1>8. CASE WriteConfig
  <2>1. faults' \in 0 .. MaxFaults
    BY <1>8, FaultsBounded DEF WriteConfig, TypeOK
  <2>2. work.rooms \in 0 .. MaxRooms
    BY DEF TypeOK, Work
  <2>3. bucket' \in Files /\ written' \in 0 .. MaxRooms
    BY <1>8, <2>2 DEF WriteConfig, TypeOK, Files, Config
  <2>4. work' \in Work
    BY <1>1, <1>2, <1>8 DEF WriteConfig, Goto, Step
  <2> QED
    BY <1>8, <2>1, <2>3, <2>4 DEF WriteConfig, TypeOK, containerVars, podVars
<1>9. CASE Execute
  <2>1. faults' \in 0 .. MaxFaults
    BY <1>9, FaultsBounded DEF Execute, TypeOK
  <2> QED
    BY <1>2, <1>9, <2>1 DEF Execute, Starting, TypeOK
<1> QED
  BY <1>3, <1>4, <1>5, <1>6, <1>7, <1>8, <1>9 DEF WorkerStep

(* The steps of the container and the cluster do.                           *)
LEMMA OthersKeepTypes ==
  ASSUME TypeOK, [Next]_vars, ~WorkerStep
  PROVE  TypeOK'
<1>1. ASSUME NEW f \in File, Pull(f) PROVE TypeOK'
  <2>1. local' \in Files
    BY <1>1, CopyOne DEF Pull, TypeOK
  <2>2. agent' \in [step : {"none", "pull", "run"}, left : SUBSET File]
    BY <1>1 DEF Pull, TypeOK
  <2> QED
    BY <1>1, <2>1, <2>2 DEF Pull, TypeOK, podVars, reconcilerVars
<1>2. ASSUME NEW f \in File, Push(f) PROVE TypeOK'
  <2>1. bucket' \in Files
    BY <1>2, CopyOne DEF Push, TypeOK
  <2> QED
    BY <1>2, <2>1 DEF Push, TypeOK, containerVars, podVars, reconcilerVars
<1>3. CASE StartAgent
  BY <1>3, Beginnings DEF StartAgent, Starting, TypeOK, podVars, reconcilerVars
<1>4. CASE Agent
  <2>1. local' \in Files
    <3>1. CASE Remember
      <4>1. local.memory + 1 \in 0 .. MaxNotes
        BY <3>1, BoundsAssumption DEF Remember, TypeOK, Files
      <4> QED
        BY <3>1, <4>1 DEF Remember, TypeOK, Files
    <3>2. CASE RemoveSkill
      BY <3>2 DEF RemoveSkill, TypeOK, Files, Text
    <3>3. CASE Edit("soul") \/ Edit("skill")
      BY <3>3 DEF Edit, TypeOK, Files, Text
    <3> QED
      BY <1>4, <3>1, <3>2, <3>3 DEF Agent
  <2> QED
    BY <1>4, <2>1 DEF Agent, Edit, RemoveSkill, Remember, TypeOK, podVars, reconcilerVars
<1>5. CASE Cluster
  <2>1. CASE ContainerEnds \/ PodIsDeleted \/ PodEnds
    <3>1. /\ Starting \in [step : {"none", "pull", "run"}, left : SUBSET File]
          /\ NoContainer \in [step : {"none", "pull", "run"}, left : SUBSET File]
      BY DEF Starting, NoContainer
    <3>2. CASE ContainerEnds \/ PodIsDeleted
      BY <3>1, <3>2, Beginnings, FaultsBounded
         DEF ContainerEnds, PodIsDeleted, TypeOK, containerVars, podVars, reconcilerVars
    <3>3. CASE PodEnds
      BY <3>1, <3>3, Beginnings DEF PodEnds, TypeOK, reconcilerVars
    <3> QED
      BY <2>1, <3>2, <3>3
  <2>2. CASE PodArrives
    BY <2>2 DEF PodArrives, TypeOK, containerVars, reconcilerVars
  <2>3. CASE RoomsChange
    BY <2>3, BoundsAssumption DEF RoomsChange, TypeOK, containerVars, podVars
  <2>4. CASE ControllerRestarts
    <3>1. Idle \in Work
      BY BoundsAssumption DEF Idle, Step, Work
    <3> QED
      BY <2>4, <3>1, FaultsBounded DEF ControllerRestarts, TypeOK, containerVars
  <2> QED
    BY <1>5, <2>1, <2>2, <2>3, <2>4 DEF Cluster
<1>6. CASE UNCHANGED vars
  BY <1>6 DEF vars, TypeOK
<1> QED
  BY <1>1, <1>2, <1>3, <1>4, <1>5, <1>6 DEF Next

(* Every step keeps them.                                                   *)
LEMMA TypeStep == TypeOK /\ [Next]_vars => TypeOK'
BY WorkerKeepsTypes, OthersKeepTypes

(* Every state of the bucket, the container, the Pod and the reconciler is  *)
(* well typed.                                                              *)
THEOREM TypeInvariant == Spec => []TypeOK
BY TypeInit, TypeStep, PTL DEF Spec
--------------------------------------------------------------------------------
(* The invariant.                                                           *)

(* It holds of an empty workspace.                                          *)
LEMMA WorkspaceInit == Init => WorkspaceInv
<1> SUFFICES ASSUME Init PROVE WorkspaceInv
  OBVIOUS
<1>1. agent.step = "none" /\ pod = "none" /\ work.step = "idle"
  BY DEF Init, NoContainer, Idle
<1>2. bucket = Empty /\ local = Empty
  BY DEF Init
<1> QED
  BY <1>1, <1>2, TypeInit, Beginnings
     DEF WorkspaceInv, MemoryIsPulled, SeedingComesFirst, CopiesAreNoOlder, PodsAreConfigured,
         OnlyReseedingCutsAChannel

(* The reconciler writes files of its own, and touches no container but by  *)
(* the Pod it creates.                                                      *)
LEMMA WorkerKeepsInv ==
  ASSUME WorkspaceInv, WorkerStep, TypeOK'
  PROVE  /\ WorkspaceInv'
         /\ bucket'.memory = bucket.memory
         /\ \A f \in {"soul", "skill"} \ blind' : bucket[f] = "edited" => bucket'[f] = "edited"
<1>1. /\ bucket \in Files /\ local \in Files /\ bucket' \in Files
      /\ work \in Work /\ work.step \in Step /\ work.pos \in {1, 2}
      /\ blind \subseteq {"soul", "skill"}
  BY DEF WorkspaceInv, TypeOK, Work
<1>2. \A s \in Step : [Idle EXCEPT !.step = s].step = s /\ [Idle EXCEPT !.step = s].pos = 1
  BY DEF Idle, Step
<1>3. Idle.step = "idle" /\ Idle.pos = 1
  BY DEF Idle
<1> USE DEF WorkspaceInv
<1>4. CASE Reconcile
  <2>1. work'.step = "look" /\ UNCHANGED <<bucket, local, agent, pod, blind>>
    BY <1>2, <1>4 DEF Reconcile, Goto, Step, containerVars, podVars
  <2> QED
    BY <2>1 DEF MemoryIsPulled, SeedingComesFirst, CopiesAreNoOlder, PodsAreConfigured,
                OnlyReseedingCutsAChannel
<1>5. CASE Look
  <2>1. /\ UNCHANGED <<bucket, local, agent, pod>>
        /\ blind \subseteq blind'
        /\ work'.step \in {"seed", "skills"} /\ work'.pos = 1
        /\ "soul" \notin blind' /\ work'.step = "seed" => bucket.soul = "absent"
    BY <1>1, <1>2, <1>5, HasOne DEF Look, Goto, Step, containerVars, podVars, TypeOK
  <2> QED
    BY <2>1 DEF MemoryIsPulled, SeedingComesFirst, CopiesAreNoOlder, PodsAreConfigured,
                OnlyReseedingCutsAChannel
<1>6. CASE Seed
  <2> DEFINE f == SeedOrder[work.pos]
             then == IF work.pos = 1 THEN [work EXCEPT !.pos = 2] ELSE [Idle EXCEPT !.step = "skills"]
  <2>1. /\ f = IF work.pos = 1 THEN "soul" ELSE "config"
        /\ work.step = "seed"
        /\ UNCHANGED <<local, agent, pod, blind>>
    BY <1>1, <1>6 DEF Seed, SeedOrder, containerVars, podVars
  <2>2. Put(f, then)
    BY <1>6 DEF Seed
  <2>3. /\ bucket' = bucket \/ bucket' = Copy(bucket, Template, f)
        /\ (work' = then /\ bucket' = Copy(bucket, Template, f)) \/ work' = Idle
    <3> HIDE DEF then
    <3> QED
      BY <2>1, <2>2, PutLeads
  <2>4. /\ work.pos = 1 => then.step = "seed" /\ then.pos = 2
        /\ work.pos = 2 => then.step = "skills"
    BY <1>1, <1>2, <2>1 DEF Step
  <2>5. /\ bucket'.soul = bucket.soul \/ (work.pos = 1 /\ bucket'.soul = "template")
        /\ bucket'.config = bucket.config \/ work.pos = 2
        /\ bucket'.skill = bucket.skill
        /\ bucket'.memory = bucket.memory
    <3>1. CASE bucket' = bucket
      BY <3>1
    <3>2. CASE work.pos = 1 /\ bucket' = Copy(bucket, Template, "soul")
      <4>1. /\ Copy(bucket, Template, "soul").soul = "template"
            /\ Copy(bucket, Template, "soul").config = bucket.config
            /\ Copy(bucket, Template, "soul").skill = bucket.skill
            /\ Copy(bucket, Template, "soul").memory = bucket.memory
        BY <1>1, CopyOne, Beginnings DEF File
      <4> QED
        BY <3>2, <4>1
    <3>3. CASE work.pos = 2 /\ bucket' = Copy(bucket, Template, "config")
      <4>1. /\ Copy(bucket, Template, "config").soul = bucket.soul
            /\ Copy(bucket, Template, "config").skill = bucket.skill
            /\ Copy(bucket, Template, "config").memory = bucket.memory
        BY <1>1, CopyOne, Beginnings DEF File
      <4> QED
        BY <3>3, <4>1
    <3> QED
      BY <1>1, <2>1, <2>3, <3>1, <3>2, <3>3
  <2>6. work.pos = 1 /\ work'.step = "seed" => work'.pos = 2 /\ bucket'.soul = "template"
    <3>1. CASE work' = Idle
      BY <1>3, <3>1
    <3>2. CASE work' = then /\ bucket' = Copy(bucket, Template, f)
      <4>1. "soul" \in File /\ Copy(bucket, Template, "soul").soul = "template"
        BY <1>1, CopyOne, Beginnings DEF File
      <4>2. work.pos = 1 => f = "soul"
        BY <2>1
      <4> QED
        BY <2>4, <3>2, <4>1, <4>2
    <3> QED
      BY <2>3, <3>1, <3>2
  <2>7. work'.step \in {"idle", "seed", "skills"} /\ (work.pos = 2 => work'.step # "seed")
    BY <1>1, <1>3, <2>3, <2>4
  <2>8. "soul" \notin blind => bucket.config = Empty.config /\ pod = "none" /\ agent.step = "none"
    BY <2>1, Beginnings DEF SeedingComesFirst, PodsAreConfigured
  <2>9. "soul" \notin blind /\ work.pos = 1 => bucket.soul = "absent"
    BY <2>1 DEF SeedingComesFirst
  <2>10. "soul" \notin blind /\ work.pos = 2 => bucket.soul # "absent"
    BY <2>1 DEF SeedingComesFirst
  <2> QED
    BY <1>1, <2>1, <2>5, <2>6, <2>7, <2>8, <2>9, <2>10
       DEF MemoryIsPulled, SeedingComesFirst, CopiesAreNoOlder, PodsAreConfigured,
           OnlyReseedingCutsAChannel
<1>7. CASE SeedSkill
  <2>1. /\ UNCHANGED <<local, agent, pod>>
        /\ "soul" \notin blind' <=> "soul" \notin blind
    BY <1>7 DEF SeedSkill, containerVars, podVars, TypeOK
  <2>2. bucket' = bucket \/ bucket' = Copy(bucket, Template, "skill")
    BY <1>7, PutLeads DEF SeedSkill, Copy
  <2>3. work'.step \in {"idle", "rooms"}
    <3>1. [Idle EXCEPT !.step = "rooms"].step = "rooms"
      BY DEF Idle
    <3>2. CASE Put("skill", [Idle EXCEPT !.step = "rooms"])
      <4>1. work' = [Idle EXCEPT !.step = "rooms"] \/ work' = Idle
        BY <3>2, PutLeads
      <4> QED
        BY <1>3, <3>1, <4>1
    <3>3. CASE Goto("rooms")
      BY <3>1, <3>3 DEF Goto
    <3> QED
      BY <1>7, <3>2, <3>3 DEF SeedSkill
  <2>4. /\ bucket'.soul = bucket.soul /\ bucket'.config = bucket.config
        /\ bucket'.memory = bucket.memory
        /\ bucket'.skill = bucket.skill \/ bucket'.skill = "template"
    BY <1>1, <2>2, CopyOne, Beginnings DEF File
  <2>5. "skill" \notin blind' /\ bucket.skill # "absent" => bucket' = bucket
    BY <1>1, <1>7, HasOne DEF SeedSkill
  <2> QED
    BY <1>1, <2>1, <2>3, <2>4, <2>5
       DEF MemoryIsPulled, SeedingComesFirst, CopiesAreNoOlder, PodsAreConfigured,
           OnlyReseedingCutsAChannel
<1>8. CASE ReadRooms \/ ReadConfig
  <2>1. UNCHANGED <<bucket, local, agent, pod, blind>>
    BY <1>8 DEF ReadRooms, ReadConfig, containerVars, podVars
  <2>2. /\ work'.step \in {"idle", "read", "write"}
        /\ work'.step = "write" => bucket.config # Empty.config
    <3>1. CASE ReadRooms
      BY <1>3, <3>1 DEF ReadRooms, Idle
    <3>2. CASE ReadConfig
      BY <1>1, <1>3, <3>2, HasOne DEF ReadConfig, Work
    <3> QED
      BY <1>8, <3>1, <3>2
  <2> QED
    BY <2>1, <2>2
       DEF MemoryIsPulled, SeedingComesFirst, CopiesAreNoOlder, PodsAreConfigured,
           OnlyReseedingCutsAChannel
<1>9. CASE WriteConfig
  <2>1. /\ UNCHANGED <<local, agent, pod, blind>>
        /\ work.step = "write" /\ work'.step \in {"idle", "execute"}
    BY <1>2, <1>3, <1>9 DEF WriteConfig, Goto, Step, containerVars, podVars
  <2>2. \/ bucket' = [bucket EXCEPT !.config = [kind |-> "matrix", rooms |-> work.rooms]]
        \/ bucket' = bucket /\ work' = Idle
    BY <1>9 DEF WriteConfig
  <2>3. /\ bucket'.soul = bucket.soul /\ bucket'.skill = bucket.skill
        /\ bucket'.memory = bucket.memory
        /\ \/ bucket'.config.kind = "matrix" /\ bucket.config # Empty.config
           \/ bucket' = bucket /\ work'.step = "idle"
    BY <1>1, <1>3, <2>1, <2>2 DEF SeedingComesFirst, Files
  <2> QED
    BY <1>1, <2>1, <2>3
       DEF MemoryIsPulled, SeedingComesFirst, CopiesAreNoOlder, PodsAreConfigured,
           OnlyReseedingCutsAChannel
<1>10. CASE Execute
  <2>1. UNCHANGED <<bucket, local, blind>> /\ work'.step = "idle" /\ work.step = "execute"
    BY <1>3, <1>10 DEF Execute
  <2>2. \/ UNCHANGED <<pod, agent>>
        \/ (pod = "none" /\ pod' = "live" /\ agent' = Starting)
    BY <1>10 DEF Execute
  <2>3. CASE UNCHANGED <<pod, agent>>
    BY <2>1, <2>3
       DEF MemoryIsPulled, SeedingComesFirst, CopiesAreNoOlder, PodsAreConfigured,
           OnlyReseedingCutsAChannel
  <2>4. CASE pod = "none" /\ pod' = "live" /\ agent' = Starting
    <3>1. agent'.step = "pull" /\ agent'.left = File /\ "memory" \in File
      BY <2>4 DEF Starting, File
    <3>2. local = Empty
      BY <2>4 DEF PodsAreConfigured
    <3> QED
      BY <2>1, <2>4, <3>1, <3>2
         DEF MemoryIsPulled, SeedingComesFirst, CopiesAreNoOlder, PodsAreConfigured,
             OnlyReseedingCutsAChannel
  <2> QED
    BY <2>2, <2>3, <2>4
<1> QED
  BY <1>4, <1>5, <1>6, <1>7, <1>8, <1>9, <1>10 DEF WorkerStep

(* The container pulls, starts and pushes.                                  *)
LEMMA ContainerKeepsInv ==
  ASSUME WorkspaceInv, TypeOK', (\E f \in File : Pull(f) \/ Push(f)) \/ StartAgent
  PROVE  /\ WorkspaceInv'
         /\ bucket'.memory >= bucket.memory
         /\ \A f \in {"soul", "skill"} : bucket[f] = "edited" => bucket'[f] = "edited"
<1>1. /\ bucket \in Files /\ local \in Files /\ bucket' \in Files /\ local' \in Files
      /\ bucket.memory \in Nat /\ local.memory \in Nat
      /\ agent \in [step : {"none", "pull", "run"}, left : SUBSET File]
  BY BoundsAssumption DEF WorkspaceInv, TypeOK, Files
<1> USE DEF WorkspaceInv
<1>2. ASSUME NEW f \in File, Pull(f)
      PROVE  WorkspaceInv' /\ bucket' = bucket
  <2>1. /\ UNCHANGED <<bucket, pod, work, blind>>
        /\ agent.step = "pull" /\ agent'.step = "pull" /\ agent'.left = agent.left \ {f}
        /\ f \in agent.left
    BY <1>1, <1>2 DEF Pull, podVars, reconcilerVars
  <2>2. /\ local'.soul = local.soul \/ local'.soul = bucket.soul
        /\ local'.skill = local.skill \/ local'.skill = bucket.skill
        /\ local'.config = local.config \/ local'.config = bucket.config
        /\ f # "memory" => local'.memory = local.memory
        /\ f = "memory" => local'.memory >= bucket.memory
    <3>1. CASE Has(bucket, f)
      <4>1. local' = Copy(local, bucket, f)
        BY <1>2, <3>1 DEF Pull
      <4>2. /\ Copy(local, bucket, f).soul = IF f = "soul" THEN bucket.soul ELSE local.soul
            /\ Copy(local, bucket, f).skill = IF f = "skill" THEN bucket.skill ELSE local.skill
            /\ Copy(local, bucket, f).config = IF f = "config" THEN bucket.config ELSE local.config
            /\ Copy(local, bucket, f).memory = IF f = "memory" THEN bucket.memory ELSE local.memory
        BY <1>1, CopyOne
      <4> QED
        BY <1>1, <4>1, <4>2
    <3>2. CASE ~Has(bucket, f)
      <4>1. local' = local
        BY <1>2, <3>2 DEF Pull
      <4>2. f = "memory" => bucket.memory = 0
        BY <1>1, <3>2, HasOne
      <4> QED
        BY <1>1, <4>1, <4>2
    <3> QED
      BY <3>1, <3>2
  <2>3. MemoryIsPulled'
    BY <1>1, <2>1, <2>2 DEF MemoryIsPulled
  <2>4. CopiesAreNoOlder'
    BY <2>1, <2>2 DEF CopiesAreNoOlder
  <2>5. PodsAreConfigured'
    <3>1. "soul" \notin blind => bucket.config.kind = "matrix" /\ bucket.config \in Config
      BY <1>1, <2>1 DEF PodsAreConfigured, Files
    <3>2. "soul" \notin blind => bucket.config \in [kind : {"matrix"}, rooms : 0 .. MaxRooms]
      BY <3>1 DEF Config
    <3> QED
      BY <2>1, <2>2, <3>1, <3>2 DEF PodsAreConfigured, OnlyReseedingCutsAChannel
  <2> QED
    BY <2>1, <2>3, <2>4, <2>5 DEF SeedingComesFirst
<1>3. ASSUME NEW f \in File, Push(f)
      PROVE  /\ WorkspaceInv'
             /\ bucket'.memory >= bucket.memory
             /\ \A g \in {"soul", "skill"} : bucket[g] = "edited" => bucket'[g] = "edited"
  <2>1. /\ UNCHANGED <<local, agent, pod, work, blind>>
        /\ agent.step = "run"
        /\ Has(local, f)
        /\ bucket' = Copy(bucket, local, f)
    BY <1>3 DEF Push, containerVars, podVars, reconcilerVars
  <2>2. /\ bucket'.soul = IF f = "soul" THEN local.soul ELSE bucket.soul
        /\ bucket'.skill = IF f = "skill" THEN local.skill ELSE bucket.skill
        /\ bucket'.config = IF f = "config" THEN local.config ELSE bucket.config
        /\ bucket'.memory = IF f = "memory" THEN local.memory ELSE bucket.memory
    <3>1. /\ Copy(bucket, local, f).soul = IF f = "soul" THEN local.soul ELSE bucket.soul
          /\ Copy(bucket, local, f).skill = IF f = "skill" THEN local.skill ELSE bucket.skill
          /\ Copy(bucket, local, f).config = IF f = "config" THEN local.config ELSE bucket.config
          /\ Copy(bucket, local, f).memory = IF f = "memory" THEN local.memory ELSE bucket.memory
      BY <1>1, CopyOne
    <3> QED
      BY <2>1, <3>1
  <2>3. /\ f = "soul" => local.soul \in {"template", "edited"}
        /\ f = "skill" => local.skill \in {"template", "edited"}
    BY <1>1, <2>1, HasOne DEF Files, Text
  <2>4. pod # "none"
    BY <2>1 DEF PodsAreConfigured
  <2>5. "soul" \notin blind => bucket.config.kind = "matrix" /\ local.config.kind = "matrix"
    BY <2>1, <2>4 DEF PodsAreConfigured, OnlyReseedingCutsAChannel
  <2>6. Empty.config.kind = "absent"
    BY Beginnings
  <2>7. "soul" \notin blind => work.step # "seed" /\ bucket.soul # "absent" /\ bucket'.soul # "absent"
    BY <2>2, <2>3, <2>5, <2>6 DEF SeedingComesFirst
  <2>8. MemoryIsPulled'
    BY <1>1, <2>1, <2>2 DEF MemoryIsPulled
  <2>9. CopiesAreNoOlder'
    BY <2>1, <2>2 DEF CopiesAreNoOlder
  <2>10. PodsAreConfigured'
    BY <2>1, <2>2, <2>5 DEF PodsAreConfigured, OnlyReseedingCutsAChannel
  <2>11. \A g \in {"soul", "skill"} : bucket[g] = "edited" => bucket'[g] = "edited"
    BY <2>2, <2>3 DEF CopiesAreNoOlder
  <2>12. bucket'.memory >= bucket.memory
    BY <1>1, <2>1, <2>2 DEF MemoryIsPulled
  <2>13. bucket.config # Empty.config => bucket'.config # Empty.config
    BY <1>1, <2>1, <2>2, HasOne
  <2> QED
    BY <2>1, <2>7, <2>8, <2>9, <2>10, <2>11, <2>12, <2>13 DEF SeedingComesFirst
<1>4. ASSUME StartAgent
      PROVE  WorkspaceInv' /\ bucket' = bucket
  <2>1. UNCHANGED <<bucket, pod, work, blind>> /\ agent.step = "pull" /\ agent.left = {}
    BY <1>4 DEF StartAgent, podVars, reconcilerVars
  <2>2. CASE Has(local, "config") /\ agent' = [agent EXCEPT !.step = "run"] /\ local' = local
    <3>1. agent'.step = "run" /\ local.config # Empty.config
      BY <1>1, <2>2, HasOne
    <3>2. MemoryIsPulled'
      BY <2>1, <2>2, <3>1 DEF MemoryIsPulled
    <3>3. PodsAreConfigured'
      BY <2>1, <2>2, <3>1 DEF PodsAreConfigured, OnlyReseedingCutsAChannel
    <3> QED
      BY <2>1, <2>2, <3>2, <3>3 DEF SeedingComesFirst, CopiesAreNoOlder
  <2>3. CASE agent' = Starting /\ local' = Empty
    <3>1. agent'.step = "pull" /\ "memory" \in agent'.left
      BY <2>3 DEF Starting, File
    <3> QED
      BY <2>1, <2>3, <3>1, Beginnings
         DEF MemoryIsPulled, SeedingComesFirst, CopiesAreNoOlder, PodsAreConfigured,
             OnlyReseedingCutsAChannel
  <2> QED
    BY <1>4, <2>2, <2>3 DEF StartAgent
<1> QED
  BY <1>1, <1>2, <1>3, <1>4

(* The agent edits its own files; containers and Pods come and go.          *)
LEMMA OthersKeepInv ==
  ASSUME WorkspaceInv, TypeOK', Agent \/ Cluster
  PROVE  WorkspaceInv' /\ bucket' = bucket
<1>1. /\ bucket \in Files /\ local \in Files /\ local.memory \in Nat /\ bucket.memory \in Nat
  BY BoundsAssumption DEF WorkspaceInv, TypeOK, Files
<1> USE DEF WorkspaceInv
<1>2. CASE Agent
  <2>1. UNCHANGED <<bucket, agent, pod, work, blind>> /\ agent.step = "run"
    BY <1>2 DEF Agent, Edit, RemoveSkill, Remember, podVars, reconcilerVars
  <2>2. /\ local'.soul = local.soul \/ local'.soul = "edited"
        /\ local'.skill = local.skill \/ local'.skill \in {"edited", "absent"}
        /\ local'.config = local.config
        /\ local'.memory >= local.memory /\ local'.memory \in Nat
    BY <1>1, <1>2 DEF Agent, Edit, RemoveSkill, Remember, Files
  <2> QED
    BY <1>1, <2>1, <2>2
       DEF MemoryIsPulled, SeedingComesFirst, CopiesAreNoOlder, PodsAreConfigured,
           OnlyReseedingCutsAChannel
<1>3. CASE ContainerEnds \/ PodEnds
  <2>1. /\ UNCHANGED <<bucket, work, blind>>
        /\ local' = Empty
        /\ \/ pod' = pod /\ pod = "live" /\ agent' = Starting
           \/ pod' = "none" /\ agent' = NoContainer
    BY <1>3 DEF ContainerEnds, PodEnds, podVars, reconcilerVars
  <2>2. Starting.step = "pull" /\ "memory" \in Starting.left /\ NoContainer.step = "none"
    BY DEF Starting, NoContainer, File
  <2> QED
    BY <1>1, <2>1, <2>2, Beginnings
       DEF MemoryIsPulled, SeedingComesFirst, CopiesAreNoOlder, PodsAreConfigured,
           OnlyReseedingCutsAChannel
<1>4. CASE PodIsDeleted \/ PodArrives \/ RoomsChange \/ ControllerRestarts
  <2>1. /\ UNCHANGED <<bucket, local, agent, blind>>
        /\ work' = work \/ work' = Idle
        /\ pod' = pod \/ (pod = "live" /\ pod' = "terminating")
    BY <1>4 DEF PodIsDeleted, PodArrives, RoomsChange, ControllerRestarts, containerVars, podVars,
                reconcilerVars
  <2>2. Idle.step = "idle"
    BY DEF Idle
  <2> QED
    BY <2>1, <2>2
       DEF MemoryIsPulled, SeedingComesFirst, CopiesAreNoOlder, PodsAreConfigured,
           OnlyReseedingCutsAChannel
<1> QED
  BY <1>2, <1>3, <1>4 DEF Cluster

(* Every step keeps the invariant, the memory and the edits.                *)
Kept ==
  /\ bucket'.memory >= bucket.memory
  /\ \A f \in {"soul", "skill"} \ blind' : bucket[f] = "edited" => bucket'[f] = "edited"

LEMMA WorkspaceStep == WorkspaceInv /\ [Next]_vars => WorkspaceInv' /\ Kept
<1> SUFFICES ASSUME WorkspaceInv, [Next]_vars PROVE WorkspaceInv' /\ Kept
  OBVIOUS
<1>1. TypeOK'
  BY TypeStep DEF WorkspaceInv
<1>2. bucket.memory \in Nat
  BY BoundsAssumption DEF WorkspaceInv, TypeOK, Files
<1>3. CASE WorkerStep
  BY <1>1, <1>2, <1>3, WorkerKeepsInv DEF Kept
<1>4. CASE (\E f \in File : Pull(f) \/ Push(f)) \/ StartAgent
  BY <1>1, <1>2, <1>4, ContainerKeepsInv DEF Kept
<1>5. CASE Agent \/ Cluster
  BY <1>1, <1>2, <1>5, OthersKeepInv DEF Kept
<1>6. CASE UNCHANGED vars
  BY <1>1, <1>2, <1>6
     DEF vars, WorkspaceInv, MemoryIsPulled, SeedingComesFirst, CopiesAreNoOlder,
         PodsAreConfigured, OnlyReseedingCutsAChannel, Kept
<1> QED
  BY <1>3, <1>4, <1>5, <1>6 DEF Next

(* No container, however late in its grace period, pushes a memory older    *)
(* than the bucket's.                                                       *)
THEOREM MemoryKept == Spec => MemoryIsKept
<1>1. WorkspaceInv /\ [Next]_vars => [bucket'.memory >= bucket.memory]_vars
  BY WorkspaceStep DEF Kept
<1> QED
  BY <1>1, WorkspaceInit, WorkspaceStep, PTL DEF Spec, MemoryIsKept

(* What an agent edited and pushed is not replaced by the template as long  *)
(* as no look at that very file failed although it was there.               *)
THEOREM EditsKept == Spec => EditsSurvive
<1>1. WorkspaceInv /\ [Next]_vars =>
        [\A f \in {"soul", "skill"} \ blind' : bucket[f] = "edited" => bucket'[f] = "edited"]_vars
  BY WorkspaceStep DEF Kept
<1> QED
  BY <1>1, WorkspaceInit, WorkspaceStep, PTL DEF Spec, EditsSurvive

(* An agent runs without its Matrix channel only where a StatObject of a    *)
(* SOUL.md that was there has failed, which has the template seeded over    *)
(* the configured openclaw.json; no other failure, at any point of seeding  *)
(* or configuring, and no push has that effect.                             *)
THEOREM ChannelKept == Spec => []OnlyReseedingCutsAChannel
<1>1. WorkspaceInv => OnlyReseedingCutsAChannel
  BY DEF WorkspaceInv, PodsAreConfigured
<1> QED
  BY <1>1, WorkspaceInit, WorkspaceStep, PTL DEF Spec
================================================================================
