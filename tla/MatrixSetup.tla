------------------------------- MODULE MatrixSetup -------------------------------
(***************************************************************************)
(* The room of one Collaboration: every 20 seconds Setup.EnsureReady makes *)
(* a pass that ensures accounts, creates the room under its alias, records *)
(* its id in a ConfigMap and invites and joins the participants. A pass    *)
(* works on the lists it read when it began, and every call of it may      *)
(* fail, with or without its effect; nothing is retried but by the next    *)
(* pass.                                                                   *)
(*                                                                         *)
(* A user here is a Matrix user ID of a Member or of a Group. What the     *)
(* passes do for a Member (token, status) is in MemberLifecycle.           *)
(***************************************************************************)
EXTENDS Naturals

CONSTANTS
  Users,          \* the Members and Groups with a Matrix channel
  MaxRooms,       \* bound: rooms the homeserver can create
  MaxFaults,      \* bound: calls that fail, and restarts
  MaxResets       \* bound: edits of the ConfigMap

ASSUME RoomsAssumption == MaxRooms \in Nat \ {0}
ASSUME FaultsAssumption == MaxFaults \in Nat /\ MaxResets \in Nat

Rooms == 1 .. MaxRooms
Absent == 0             \* there is no ConfigMap
Placeholder == MaxRooms + 1   \* it has no id, or the example.org of a sample
Record == {Absent, Placeholder} \union Rooms

VARIABLES
  participants,   \* spec.participants, Groups and their Members, as user IDs
  alias,          \* the homeserver: the room behind #agentorgs-<name>, or Absent
  created,        \* how many rooms it has created
  invited,        \* by room
  joined,         \* by room
  recorded,       \* the ConfigMap, in the API server
  cached,         \* and in the controller's cache
  pass,           \* the one goroutine of Setup
  faults,
  resets

homeserver == <<alias, created, invited, joined>>
configMap == <<recorded, cached>>
vars == <<participants, homeserver, configMap, pass, faults, resets>>

Step == {"idle", "accounts", "operator", "room", "create", "record", "invite", "join"}
Pass ==
  [step : Step, list : SUBSET Users, known : SUBSET Users, todo : SUBSET Users,
   room : {Absent} \union Rooms]
NoPass == [step |-> "idle", list |-> {}, known |-> {}, todo |-> {}, room |-> Absent]

TypeOK ==
  /\ participants \subseteq Users
  /\ alias \in {Absent} \union Rooms
  /\ created \in 0 .. MaxRooms
  /\ invited \in [Rooms -> SUBSET Users]
  /\ joined \in [Rooms -> SUBSET Users]
  /\ recorded \in Record /\ cached \in Record
  /\ pass \in Pass
  /\ faults \in 0 .. MaxFaults /\ resets \in 0 .. MaxResets

Init ==
  /\ participants \in SUBSET Users
  /\ alias = Absent
  /\ created = 0
  /\ invited = [r \in Rooms |-> {}]
  /\ joined = [r \in Rooms |-> {}]
  /\ recorded \in {Absent, Placeholder}
  /\ cached = recorded
  /\ pass = NoPass
  /\ faults = 0
  /\ resets = 0

Fault == faults < MaxFaults /\ faults' = faults + 1
NoFault == UNCHANGED faults
Quiet == UNCHANGED <<participants, resets>>

--------------------------------------------------------------------------------
(* The user, and the informer.                                              *)

EditParticipants ==
  /\ \E ps \in SUBSET Users : participants' = ps
  /\ UNCHANGED <<homeserver, configMap, pass, faults, resets>>

(* kubectl delete, or apply of the sample's placeholder once more.          *)
ResetConfigMap ==
  /\ resets < MaxResets
  /\ resets' = resets + 1
  /\ \E v \in {Absent, Placeholder} : recorded' = v
  /\ UNCHANGED <<participants, homeserver, cached, pass, faults>>

ConfigMapArrives ==
  /\ cached # recorded
  /\ cached' = recorded
  /\ UNCHANGED <<participants, homeserver, recorded, pass, faults, resets>>

--------------------------------------------------------------------------------
(* EnsureReady.                                                             *)

(* The homeserver answers, the lists are read; or the pass ends here.       *)
Begin ==
  /\ pass.step = "idle"
  /\ \/ pass' = [NoPass EXCEPT !.step = "accounts", !.list = participants, !.todo = Users] /\ NoFault
     \/ Fault /\ UNCHANGED pass
  /\ UNCHANGED <<homeserver, configMap>> /\ Quiet

(* An account that cannot be ensured is left out of this pass.              *)
EnsureAccount ==
  /\ pass.step = "accounts"
  /\ \E u \in pass.todo :
       \/ pass' = [pass EXCEPT !.todo = @ \ {u}, !.known = @ \union {u}] /\ NoFault
       \/ pass' = [pass EXCEPT !.todo = @ \ {u}] /\ Fault
  /\ UNCHANGED <<homeserver, configMap>> /\ Quiet

OperatorToken ==
  /\ pass.step = "accounts" /\ pass.todo = {}
  /\ \/ pass' = [pass EXCEPT !.step = "room"] /\ NoFault
     \/ pass' = NoPass /\ Fault
  /\ UNCHANGED <<homeserver, configMap>> /\ Quiet

(* collaborationInviteUserIDs: only accounts this pass has ensured.         *)
Guests == pass.list \intersect pass.known
SyncRoom(room) == [pass EXCEPT !.step = "invite", !.todo = Guests, !.room = room]

(* Mutant: the placeholder is taken for a room.                             *)
ReadRoomUnchecked ==
  /\ pass.step = "room"
  /\ \/ cached # Absent /\ pass' = SyncRoom(cached)
     \/ cached = Absent /\ pass' = [pass EXCEPT !.step = "create"]
  /\ UNCHANGED <<homeserver, configMap, faults>> /\ Quiet

(* A read that fails reads as empty.                                        *)
ReadRoom ==
  /\ pass.step = "room"
  /\ \/ cached \in Rooms /\ pass' = SyncRoom(cached) /\ NoFault
     \/ cached \notin Rooms /\ pass' = [pass EXCEPT !.step = "create"] /\ NoFault
     \/ Fault /\ pass' = [pass EXCEPT !.step = "create"]
  /\ UNCHANGED <<homeserver, configMap>> /\ Quiet

(* A new room, with the guests invited; the answer may be lost.             *)
NewRoom(name) ==
  /\ created < MaxRooms
  /\ created' = created + 1
  /\ alias' = IF name THEN created' ELSE alias
  /\ invited' = [invited EXCEPT ![created'] = Guests]
  /\ UNCHANGED joined
  /\ \/ pass' = [pass EXCEPT !.step = "record", !.room = created'] /\ NoFault
     \/ pass' = NoPass /\ Fault

(* Mutant: a room without an alias.                                         *)
CreateUnnamedRoom ==
  /\ pass.step = "create"
  /\ NewRoom(FALSE)
  /\ UNCHANGED configMap /\ Quiet

(* Mutant: an alias in use is an error.                                     *)
CreateRoomOnce ==
  /\ pass.step = "create"
  /\ \/ alias = Absent /\ NewRoom(TRUE)
     \/ alias # Absent /\ pass' = NoPass /\ NoFault /\ UNCHANGED homeserver
  /\ UNCHANGED configMap /\ Quiet

(* When the alias is in use, CreateRoom resolves it.                        *)
CreateRoom ==
  /\ pass.step = "create"
  /\ \/ alias = Absent /\ NewRoom(TRUE)
     \/ alias # Absent /\ pass' = [pass EXCEPT !.step = "record", !.room = alias] /\ NoFault
                       /\ UNCHANGED homeserver
     \/ Fault /\ pass' = NoPass /\ UNCHANGED homeserver
  /\ UNCHANGED configMap /\ Quiet

(* upsertConfigMapKey: created or updated from the cache's version. An      *)
(* error is logged, and the room is filled in any case.                     *)
RecordRoom ==
  /\ pass.step = "record"
  /\ pass' = SyncRoom(pass.room)
  /\ \/ cached = recorded /\ recorded' = pass.room /\ NoFault
     \/ cached # recorded /\ NoFault /\ UNCHANGED recorded
     \/ Fault /\ recorded' \in {recorded, pass.room} /\ (recorded' # recorded => cached = recorded)
  /\ UNCHANGED <<homeserver, cached>> /\ Quiet

(* An invitation, whose errors are logged, and the token of the guest. An   *)
(* answer lost here or in Join changes nothing: the effect is what counts.  *)
Invite ==
  /\ pass.step = "invite"
  /\ \E u \in pass.todo :
       LET r == pass.room IN
       \/ /\ invited' = [invited EXCEPT ![r] = @ \union {u}]
          /\ pass' = [pass EXCEPT !.step = "join", !.todo = @ \ {u}, !.known = {u}]
          /\ NoFault
       \/ /\ pass' = [pass EXCEPT !.step = "join", !.todo = @ \ {u}, !.known = {u}]
          /\ Fault /\ UNCHANGED invited
       \/ /\ invited' = [invited EXCEPT ![r] = @ \union {u}]
          /\ pass' = [pass EXCEPT !.todo = @ \ {u}]
          /\ Fault
  /\ UNCHANGED <<alias, created, joined, configMap>> /\ Quiet

(* The homeserver lets in who is invited: the room is private.              *)
Join ==
  /\ pass.step = "join"
  /\ LET r == pass.room IN
     \/ joined' = [joined EXCEPT ![r] = @ \union (pass.known \intersect invited[r])] /\ NoFault
     \/ Fault /\ UNCHANGED joined
  /\ pass' = [pass EXCEPT !.step = "invite"]
  /\ UNCHANGED <<alias, created, invited, configMap>> /\ Quiet

End ==
  /\ pass.step = "invite" /\ pass.todo = {}
  /\ pass' = NoPass
  /\ UNCHANGED <<homeserver, configMap, faults>> /\ Quiet

Restart ==
  /\ Fault
  /\ pass' = NoPass
  /\ cached' = recorded
  /\ UNCHANGED <<homeserver, recorded>> /\ Quiet

PassStep ==
  \/ Begin \/ EnsureAccount \/ OperatorToken \/ ReadRoom \/ CreateRoom
  \/ RecordRoom \/ Invite \/ Join \/ End

Next == EditParticipants \/ ResetConfigMap \/ ConfigMapArrives \/ PassStep \/ Restart

Spec == Init /\ [][Next]_vars
FairSpec == Spec /\ WF_vars(PassStep) /\ WF_vars(ConfigMapArrives)

--------------------------------------------------------------------------------
(* Properties.                                                              *)

(* A Collaboration never has two rooms, although an answer of the           *)
(* homeserver, the record of the id or the controller may be lost after the *)
(* room was created, and the cache may not show the record yet: nobody sits *)
(* in a room the others do not get to.                                      *)
OneRoom ==
  /\ \A r, s \in Rooms : invited[r] # {} /\ invited[s] # {} => r = s
  /\ recorded \in Rooms => recorded = alias

(* Whoever stays a participant gets into the room that is recorded, which   *)
(* is the one Deliver posts to: whatever failed before, and whatever room   *)
(* was made before they became one.                                         *)
ParticipantsGetIn ==
  \A u \in Users :
    <>[](u \in participants) => <>[](recorded \in Rooms /\ u \in joined[recorded])
================================================================================
