------------------------------- MODULE Workspace -------------------------------
(***************************************************************************)
(* The workspace of one Agent Member: the objects under members/<name>/ in *)
(* the bucket, and the container's copy of them. The Member reconciler     *)
(* seeds the objects that are missing and writes openclaw.json; the        *)
(* container copies everything once, at its start, and from then on copies *)
(* its own files back, again and again. Nobody compares versions.          *)
(*                                                                         *)
(* The files: `soul' stands for SOUL.md (AGENTS.md is written next to it   *)
(* and behaves alike), `skill' for the SKILL.md of one resolved skill,     *)
(* `config' for openclaw.json and `memory' for MEMORY.md and memory/.      *)
(* `mc mirror --overwrite' copies a file that differs, and deletes none.   *)
(* MemberLifecycle has the Member, its caches and its reports; here the    *)
(* Member exists, and the contents matter.                                 *)
(***************************************************************************)
EXTENDS Naturals

CONSTANTS
  MaxRooms,   \* bound: changes of the rooms the Member is in
  MaxNotes,   \* bound: what the agent writes into its memory
  MaxFaults   \* bound: failed calls, crashes and evictions together

ASSUME BoundsAssumption == MaxRooms \in Nat /\ MaxNotes \in Nat /\ MaxFaults \in Nat

VARIABLES
  bucket,     \* the objects of the workspace
  local,      \* the container's /workspace
  agent,      \* the container, and the files it has still to pull
  pod,        \* the Pod in the API server
  podCached,  \* whether the informer's cache has the Pod
  rooms,      \* the version of the set of rooms of the Member
  written,    \* the version in the configuration the controller wrote last
  work,       \* the Member reconciler
  blind,      \* the files that a look failed to see, once
  faults

vars == <<bucket, local, agent, pod, podCached, rooms, written, work, blind, faults>>

File == {"soul", "skill", "config", "memory"}
Text == {"absent", "template", "edited"}
Config == [kind : {"absent", "template", "matrix"}, rooms : 0 .. MaxRooms]
Files == [soul : Text, skill : Text, config : Config, memory : 0 .. MaxNotes]
Empty == [soul |-> "absent", skill |-> "absent",
          config |-> [kind |-> "absent", rooms |-> 0], memory |-> 0]
Template == [soul |-> "template", skill |-> "template",
             config |-> [kind |-> "template", rooms |-> 0], memory |-> 0]
Has(files, f) == files[f] # Empty[f]

SeedOrder == <<"soul", "config">>
Step == {"idle", "look", "seed", "skills", "rooms", "read", "write", "execute"}
Work == [step : Step, pos : {1, 2}, rooms : 0 .. MaxRooms]
Idle == [step |-> "idle", pos |-> 1, rooms |-> 0]

TypeOK ==
  /\ bucket \in Files /\ local \in Files
  /\ agent \in [step : {"none", "pull", "run"}, left : SUBSET File]
  /\ pod \in {"none", "live", "terminating"}
  /\ podCached \in BOOLEAN
  /\ rooms \in 0 .. MaxRooms /\ written \in 0 .. MaxRooms
  /\ work \in Work
  /\ blind \subseteq {"soul", "skill"}
  /\ faults \in 0 .. MaxFaults

NoContainer == [step |-> "none", left |-> {}]
Starting == [step |-> "pull", left |-> File]

Init ==
  /\ bucket = Empty /\ local = Empty
  /\ agent = NoContainer
  /\ pod = "none" /\ podCached = FALSE
  /\ rooms = 0 /\ written = 0
  /\ work = Idle
  /\ blind = {}
  /\ faults = 0

Fault == faults < MaxFaults /\ faults' = faults + 1
NoFault == UNCHANGED faults

--------------------------------------------------------------------------------
(* The Member reconciler, from one call to the next.                        *)

Goto(step) == work' = [Idle EXCEPT !.step = step]

containerVars == <<local, agent>>
podVars == <<pod, podCached>>

(* A change of the Member, a retry or the informer's resync.                *)
Reconcile ==
  /\ work.step = "idle"
  /\ Goto("look")
  /\ UNCHANGED <<bucket, containerVars, podVars, rooms, written, blind, faults>>

(* Mutant: the template is put whenever the reconciler comes by.            *)
LookAway ==
  /\ work.step = "look"
  /\ Goto("seed")
  /\ NoFault
  /\ UNCHANGED <<bucket, containerVars, podVars, rooms, written, blind>>

(* Every error of StatObject is taken for the absence of SOUL.md.           *)
Look ==
  /\ work.step = "look"
  /\ \/ NoFault /\ Goto(IF Has(bucket, "soul") THEN "skills" ELSE "seed") /\ UNCHANGED blind
     \/ Fault /\ Goto("seed") /\ blind' = IF Has(bucket, "soul") THEN blind \union {"soul"} ELSE blind
  /\ UNCHANGED <<bucket, containerVars, podVars, rooms, written>>

(* PutObject, which may fail before or after it took effect.                *)
Put(f, next) ==
  \/ bucket' = [bucket EXCEPT ![f] = Template[f]] /\ NoFault /\ work' = next
  \/ bucket' \in {bucket, [bucket EXCEPT ![f] = Template[f]]} /\ Fault /\ work' = Idle

Seed ==
  /\ work.step = "seed"
  /\ Put(SeedOrder[work.pos],
         IF work.pos = 1 THEN [work EXCEPT !.pos = 2] ELSE [Idle EXCEPT !.step = "skills"])
  /\ UNCHANGED <<containerVars, podVars, rooms, written, blind>>

(* A skill has a look of its own: GetWorkspaceFile, any error of which is   *)
(* its absence too. Nobody else puts a skill that is not there yet.         *)
SeedSkill ==
  /\ work.step = "skills"
  /\ \/ /\ Has(bucket, "skill")
        /\ Goto("rooms")
        /\ NoFault
        /\ UNCHANGED <<bucket, blind>>
     \/ ~Has(bucket, "skill") /\ Put("skill", [Idle EXCEPT !.step = "rooms"]) /\ UNCHANGED blind
     \/ /\ Has(bucket, "skill")
        /\ Fault
        /\ bucket' = [bucket EXCEPT !.skill = Template.skill]
        /\ Goto("rooms")
        /\ blind' = blind \union {"skill"}
  /\ UNCHANGED <<containerVars, podVars, rooms, written>>

(* The Collaborations the Member takes part in, and their rooms; any error, *)
(* a room that is not there yet too, ends the reconcile.                    *)
ReadRooms ==
  /\ work.step = "rooms"
  /\ \/ work' = [Idle EXCEPT !.step = "read", !.rooms = rooms] /\ NoFault
     \/ work' = Idle /\ Fault
  /\ UNCHANGED <<bucket, containerVars, podVars, rooms, written, blind>>

(* writeMatrixChannel reads openclaw.json, which must be there, ...         *)
ReadConfig ==
  /\ work.step = "read"
  /\ \/ Has(bucket, "config") /\ work' = [work EXCEPT !.step = "write"] /\ NoFault
     \/ ~Has(bucket, "config") /\ work' = Idle /\ NoFault
     \/ work' = Idle /\ Fault
  /\ UNCHANGED <<bucket, containerVars, podVars, rooms, written, blind>>

(* Mutant: a configuration that could not be written is left for later.     *)
WriteOrGoOn ==
  /\ work.step = "write"
  /\ \/ /\ bucket' = [bucket EXCEPT !.config = [kind |-> "matrix", rooms |-> work.rooms]]
        /\ written' = work.rooms
        /\ NoFault
     \/ Fault /\ UNCHANGED <<bucket, written>>
  /\ Goto("execute")
  /\ UNCHANGED <<containerVars, podVars, rooms, blind>>

(* Mutant: the rooms are not part of what is written.                       *)
WriteNoRooms ==
  /\ work.step = "write"
  /\ bucket' = [bucket EXCEPT !.config = [kind |-> "matrix"]]
  /\ Goto("execute")
  /\ NoFault
  /\ UNCHANGED <<containerVars, podVars, rooms, written, blind>>

(* ... and writes it back with the channel switched on and the rooms read   *)
(* before, over whatever a container pushed in between. The PutObject may   *)
(* fail before or after it took effect.                                     *)
WriteConfig ==
  /\ work.step = "write"
  /\ \/ /\ bucket' = [bucket EXCEPT !.config = [kind |-> "matrix", rooms |-> work.rooms]]
        /\ written' = work.rooms
        /\ (Goto("execute") /\ NoFault) \/ (work' = Idle /\ Fault)
     \/ work' = Idle /\ Fault /\ UNCHANGED <<bucket, written>>
  /\ UNCHANGED <<containerVars, podVars, rooms, blind>>

(* Backend.Apply: a Pod that the cache has will do, a terminating one too.  *)
Execute ==
  /\ work.step = "execute"
  /\ work' = Idle
  /\ \/ ~podCached /\ pod = "none" /\ pod' = "live" /\ agent' = Starting /\ NoFault
     \/ /\ ((podCached \/ pod # "none") /\ NoFault) \/ Fault
        /\ UNCHANGED <<pod, agent>>
  /\ UNCHANGED <<bucket, local, podCached, rooms, written, blind>>

--------------------------------------------------------------------------------
(* The container.                                                           *)

reconcilerVars == <<rooms, written, work, blind>>

Copy(to, from, f) == [to EXCEPT ![f] = from[f]]

(* Mutant: what the agent remembers is not part of the pull.                *)
PullNoMemory(f) ==
  /\ agent.step = "pull" /\ f \in agent.left
  /\ local' = IF f # "memory" /\ Has(bucket, f) THEN Copy(local, bucket, f) ELSE local
  /\ agent' = [agent EXCEPT !.left = @ \ {f}]
  /\ UNCHANGED <<bucket, podVars, reconcilerVars, faults>>

(* mc mirror into the empty /workspace; a mirror that fails is run again.   *)
Pull(f) ==
  /\ agent.step = "pull" /\ f \in agent.left
  /\ local' = IF Has(bucket, f) THEN Copy(local, bucket, f) ELSE local
  /\ agent' = [agent EXCEPT !.left = @ \ {f}]
  /\ UNCHANGED <<bucket, podVars, reconcilerVars, faults>>

(* Without SOUL.md or openclaw.json the container ends and starts again.    *)
StartAgent ==
  /\ agent.step = "pull" /\ agent.left = {}
  /\ IF Has(local, "soul") /\ Has(local, "config")
     THEN agent' = [agent EXCEPT !.step = "run"] /\ UNCHANGED local
     ELSE agent' = Starting /\ local' = Empty
  /\ UNCHANGED <<bucket, podVars, reconcilerVars, faults>>

(* The agent works on its own files.                                        *)
Edit(f) ==
  /\ agent.step = "run"
  /\ Has(local, f)
  /\ local' = [local EXCEPT ![f] = "edited"]
  /\ UNCHANGED <<bucket, agent, podVars, reconcilerVars, faults>>

RemoveSkill ==
  /\ agent.step = "run"
  /\ local' = [local EXCEPT !.skill = "absent"]
  /\ UNCHANGED <<bucket, agent, podVars, reconcilerVars, faults>>

Remember ==
  /\ agent.step = "run"
  /\ local.memory < MaxNotes
  /\ local' = [local EXCEPT !.memory = @ + 1]
  /\ UNCHANGED <<bucket, agent, podVars, reconcilerVars, faults>>

(* Mutant: the memory is not among the files that are pushed.               *)
PushNoMemory(f) ==
  /\ agent.step = "run"
  /\ f # "memory" /\ Has(local, f)
  /\ bucket' = Copy(bucket, local, f)
  /\ UNCHANGED <<containerVars, podVars, reconcilerVars, faults>>

(* The push loop comes to a file, whatever the bucket has by now.           *)
Push(f) ==
  /\ agent.step = "run"
  /\ Has(local, f)
  /\ bucket' = Copy(bucket, local, f)
  /\ UNCHANGED <<containerVars, podVars, reconcilerVars, faults>>

--------------------------------------------------------------------------------
(* The cluster.                                                             *)

(* The container starts again, with an empty /workspace.                    *)
ContainerEnds ==
  /\ Fault
  /\ pod = "live" /\ agent.step = "run"
  /\ agent' = Starting /\ local' = Empty
  /\ UNCHANGED <<bucket, podVars, reconcilerVars>>

PodIsDeleted ==
  /\ Fault
  /\ pod = "live"
  /\ pod' = "terminating"
  /\ UNCHANGED <<bucket, containerVars, podCached, reconcilerVars>>

(* The push loop goes on until the grace period is over.                    *)
PodEnds ==
  /\ pod = "terminating"
  /\ pod' = "none" /\ agent' = NoContainer /\ local' = Empty
  /\ UNCHANGED <<bucket, podCached, reconcilerVars, faults>>

PodArrives ==
  /\ podCached # (pod # "none")
  /\ podCached' = ~podCached
  /\ UNCHANGED <<bucket, containerVars, pod, reconcilerVars, faults>>

(* The Member takes part in another Collaboration, whose room exists.       *)
RoomsChange ==
  /\ rooms < MaxRooms
  /\ rooms' = rooms + 1
  /\ UNCHANGED <<bucket, containerVars, podVars, written, work, blind, faults>>

(* A new controller; what it was doing is given up.                         *)
ControllerRestarts ==
  /\ Fault
  /\ work.step # "idle"
  /\ work' = Idle
  /\ podCached' = (pod # "none")
  /\ UNCHANGED <<bucket, containerVars, pod, rooms, written, blind>>

WorkerStep ==
  Reconcile \/ Look \/ Seed \/ SeedSkill \/ ReadRooms \/ ReadConfig \/ WriteConfig \/ Execute
Agent == (\E f \in {"soul", "skill"} : Edit(f)) \/ RemoveSkill \/ Remember
Cluster == ContainerEnds \/ PodIsDeleted \/ PodEnds \/ PodArrives \/ RoomsChange \/ ControllerRestarts

Next ==
  \/ WorkerStep
  \/ (\E f \in File : Pull(f) \/ Push(f)) \/ StartAgent
  \/ Agent
  \/ Cluster

Spec == Init /\ [][Next]_vars

(* The work queue comes back to the Member, the entrypoint goes on, and its *)
(* push loop comes to every file. Nothing is assumed of the agent.          *)
FairSpec ==
  /\ Spec
  /\ WF_vars(WorkerStep)
  /\ WF_vars(StartAgent) /\ \A f \in File : WF_vars(Pull(f)) /\ WF_vars(Push(f))
  /\ WF_vars(PodEnds) /\ WF_vars(PodArrives)

--------------------------------------------------------------------------------
(* Properties.                                                              *)

(* What an agent wrote into its persona or a skill, and pushed, is never    *)
(* replaced by the template, by a reconcile or by the copy of an earlier    *)
(* container, as long as no look at that very file failed although it was   *)
(* there: StatObject for the persona, GetWorkspaceFile for the skill.       *)
EditsSurvive ==
  [][\A f \in {"soul", "skill"} \ blind' : bucket[f] = "edited" => bucket'[f] = "edited"]_vars

(* What was remembered and pushed is never forgotten: no container, however *)
(* late in its grace period, pushes a memory older than the bucket's.       *)
MemoryIsKept == [][bucket'.memory >= bucket.memory]_vars

(* An agent runs on the template, whose Matrix channel is switched off,     *)
(* only where a StatObject of a SOUL.md that was there has failed. Neither  *)
(* a failure at any point of seeding, reading or writing, nor a failed look *)
(* at a skill, nor a container's push has that effect. The exception is     *)
(* what the code does: the failed StatObject has openclaw.json seeded anew  *)
(* over the configured one, and a container that starts before it is        *)
(* written again, or after an older one pushed the template back, runs      *)
(* without its channel.                                                     *)
OnlyReseedingCutsAChannel ==
  agent.step = "run" /\ local.config.kind # "matrix" => "soul" \in blind

(* An agent that goes on running has all its memory in the bucket in the    *)
(* end.                                                                     *)
WorkIsPushed == <>[](agent.step = "run") => <>[](bucket.memory = local.memory)

(* What MemoryIsKept rests on: a container that has pulled its memory       *)
(* remembers at least what the bucket has.                                  *)
MemoryIsPulled ==
  /\ agent.step = "pull" /\ "memory" \notin agent.left => local.memory >= bucket.memory
  /\ agent.step = "run" => local.memory >= bucket.memory

(* And EditsSurvive: only a workspace without SOUL.md is seeded, and a      *)
(* container has the template of what the bucket has, at the latest since   *)
(* its pull.                                                                *)
SeedingComesFirst ==
  /\ work.step = "write" => bucket.config # Empty.config
  /\ "soul" \notin blind =>
       /\ work.step = "seed" =>
            /\ bucket.config = Empty.config
            /\ work.pos = 1 <=> bucket.soul = "absent"
       /\ bucket.soul = "absent" => bucket.config = Empty.config

CopiesAreNoOlder ==
  \A f \in {"soul", "skill"} : local[f] = "template" => bucket[f] # "edited"

(* And OnlyReseedingCutsAChannel: a Pod exists only when openclaw.json has  *)
(* its Matrix channel, and nothing takes it away.                           *)
PodsAreConfigured ==
  /\ pod = "none" <=> agent.step = "none"
  /\ agent.step = "none" => local = Empty
  /\ "soul" \notin blind =>
       /\ work.step = "execute" \/ pod # "none" => bucket.config.kind = "matrix"
       /\ agent.step = "pull" => local.config \in {Empty.config} \union [kind : {"matrix"}, rooms : 0 .. MaxRooms]
  /\ OnlyReseedingCutsAChannel

WorkspaceInv ==
  /\ TypeOK
  /\ MemoryIsPulled
  /\ SeedingComesFirst
  /\ CopiesAreNoOlder
  /\ PodsAreConfigured

--------------------------------------------------------------------------------
(* What a comment says and the code does not do.                            *)

(* The configuration is there before the agent starts: a container that     *)
(* copies openclaw.json has the rooms the controller wrote last.            *)
StartsAreConfigured ==
  [][ agent.step = "pull" /\ "config" \in agent.left /\ agent' = [agent EXCEPT !.left = @ \ {"config"}]
           /\ "soul" \notin blind
      => local'.config.rooms = written ]_vars
================================================================================
