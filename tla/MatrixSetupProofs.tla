--------------------------- MODULE MatrixSetupProofs ---------------------------
(***************************************************************************)
(* A Collaboration has one room, for any number of users, faults and       *)
(* resets, and however old the controller's cache is.                      *)
(***************************************************************************)
EXTENDS MatrixSetup, TLAPS

(* The homeserver creates a room only when nothing is behind the alias, and *)
(* nothing is taken from behind it: every id, wherever it is kept, was the  *)
(* alias's when it was read there, and still is.                            *)
AliasIsTheRoom ==
  /\ alias = Absent => created = 0
  /\ \A r \in Rooms : invited[r] # {} => r = alias

IdsAreTheAlias ==
  /\ recorded \in Rooms => recorded = alias
  /\ cached \in Rooms => cached = alias
  /\ pass.step \in {"record", "invite", "join"} => pass.room = alias /\ alias # Absent

SetupInv == TypeOK /\ AliasIsTheRoom /\ IdsAreTheAlias

USE RoomsAssumption, FaultsAssumption

(* The values of the ConfigMap that are not rooms.                          *)
LEMMA NotRooms ==
  /\ Absent \notin Rooms
  /\ Placeholder \notin Rooms
  BY DEF Absent, Placeholder, Rooms

LEMMA InitEstablishes == Init => SetupInv
  <1> SUFFICES ASSUME Init PROVE SetupInv
    OBVIOUS
  <1>1. TypeOK
    BY DEF Init, TypeOK, NoPass, Pass, Step, Record, Absent
  <1>2. AliasIsTheRoom /\ IdsAreTheAlias
    BY NotRooms DEF Init, AliasIsTheRoom, IdsAreTheAlias, NoPass
  <1> QED
    BY <1>1, <1>2 DEF SetupInv

(* The user, the informer and a restart keep the homeserver; ids in caches  *)
(* come from the ConfigMap.                                                 *)
LEMMA EnvironmentPreserves ==
  ASSUME SetupInv, EditParticipants \/ ResetConfigMap \/ ConfigMapArrives \/ Restart
  PROVE  SetupInv'
  <1> USE DEF SetupInv, homeserver, configMap, Quiet, Fault
  <1>1. CASE EditParticipants
    BY <1>1 DEF EditParticipants, TypeOK, AliasIsTheRoom, IdsAreTheAlias
  <1>2. CASE ResetConfigMap
    BY <1>2, NotRooms DEF ResetConfigMap, TypeOK, Record, AliasIsTheRoom, IdsAreTheAlias
  <1>3. CASE ConfigMapArrives
    BY <1>3 DEF ConfigMapArrives, TypeOK, AliasIsTheRoom, IdsAreTheAlias
  <1>4. CASE Restart
    BY <1>4 DEF Restart, TypeOK, AliasIsTheRoom, IdsAreTheAlias, NoPass, Pass, Step
  <1> QED
    BY <1>1, <1>2, <1>3, <1>4

(* The fault counter stays below its bound.                                 *)
LEMMA FaultsType == ASSUME SetupInv, Fault \/ NoFault PROVE faults' \in 0 .. MaxFaults
  BY DEF SetupInv, TypeOK, Fault, NoFault

(* The steps before the room is known, and the end of a pass.               *)
LEMMA AccountsPreserve ==
  ASSUME SetupInv, Begin \/ EnsureAccount \/ OperatorToken \/ End
  PROVE  SetupInv'
  <1>1. pass \in Pass /\ participants \in SUBSET Users
    BY DEF SetupInv, TypeOK
  <1>2. NoPass \in Pass /\ NoPass.step = "idle"
    BY DEF NoPass, Pass, Step
  <1>3. pass' \in Pass /\ pass'.step \notin {"record", "invite", "join"}
    <2>1. CASE Begin
      <3>1. [NoPass EXCEPT !.step = "accounts", !.list = participants, !.todo = Users] \in Pass
        BY <1>1 DEF NoPass, Pass, Step
      <3>2. [NoPass EXCEPT !.step = "accounts", !.list = participants, !.todo = Users].step = "accounts"
        BY DEF NoPass
      <3> QED
        BY <1>1, <2>1, <3>1, <3>2 DEF Begin
    <2>2. CASE EnsureAccount
      <3>1. PICK u \in pass.todo :
              \/ pass' = [pass EXCEPT !.todo = @ \ {u}, !.known = @ \union {u}]
              \/ pass' = [pass EXCEPT !.todo = @ \ {u}]
        BY <2>2 DEF EnsureAccount
      <3>2. u \in Users /\ pass.step = "accounts"
        BY <1>1, <2>2 DEF EnsureAccount, Pass
      <3>3. CASE pass' = [pass EXCEPT !.todo = @ \ {u}, !.known = @ \union {u}]
        BY <1>1, <3>2, <3>3 DEF Pass
      <3>4. CASE pass' = [pass EXCEPT !.todo = @ \ {u}]
        BY <1>1, <3>2, <3>4 DEF Pass
      <3> QED
        BY <3>1, <3>3, <3>4
    <2>3. CASE OperatorToken
      BY <1>1, <1>2, <2>3 DEF OperatorToken, Pass, Step
    <2>4. CASE End
      BY <1>2, <2>4 DEF End
    <2> QED
      BY <2>1, <2>2, <2>3, <2>4
  <1>4. faults' \in 0 .. MaxFaults
    <2>1. Fault \/ NoFault
      BY DEF Begin, EnsureAccount, OperatorToken, End, NoFault
    <2> QED
      BY <2>1, FaultsType
  <1>5. UNCHANGED <<participants, alias, created, invited, joined, recorded, cached, resets>>
    BY DEF Begin, EnsureAccount, OperatorToken, End, homeserver, configMap, Quiet
  <1> QED
    BY <1>3, <1>4, <1>5 DEF SetupInv, TypeOK, AliasIsTheRoom, IdsAreTheAlias

(* A pass that turns to a room invites guests among the users.              *)
LEMMA SyncRoomType ==
  ASSUME pass \in Pass, NEW r \in Rooms
  PROVE  SyncRoom(r) \in Pass /\ SyncRoom(r).room = r
  BY DEF SyncRoom, Guests, Pass, Step

(* The id a pass goes on with is the one behind the alias.                  *)
LEMMA ReadRoomPreserves == ASSUME SetupInv, ReadRoom PROVE SetupInv'
  <1>1. pass \in Pass
    BY DEF SetupInv, TypeOK
  <1>2. UNCHANGED <<participants, alias, created, invited, joined, recorded, cached, resets>>
    BY DEF ReadRoom, homeserver, configMap, Quiet
  <1>3. faults' \in 0 .. MaxFaults
    BY DEF SetupInv, TypeOK, ReadRoom, Fault, NoFault
  <1>4. CASE cached \in Rooms /\ pass' = SyncRoom(cached)
    <2>1. pass' \in Pass /\ pass'.room = alias /\ alias # Absent
      BY <1>1, <1>4, SyncRoomType, NotRooms DEF SetupInv, IdsAreTheAlias
    <2> QED
      BY <1>2, <1>3, <2>1 DEF SetupInv, TypeOK, AliasIsTheRoom, IdsAreTheAlias
  <1>5. CASE pass' = [pass EXCEPT !.step = "create"]
    <2>1. pass' \in Pass /\ pass'.step = "create"
      BY <1>1, <1>5 DEF Pass, Step
    <2> QED
      BY <1>2, <1>3, <2>1 DEF SetupInv, TypeOK, AliasIsTheRoom, IdsAreTheAlias
  <1> QED
    BY <1>4, <1>5 DEF ReadRoom

(* A pass that stops, or goes on with the room that has the alias.          *)
LEMMA CreatedPass ==
  ASSUME pass \in Pass, NEW r \in Rooms,
         pass' = NoPass \/ pass' = [pass EXCEPT !.step = "record", !.room = r]
  PROVE  pass' \in Pass /\ (pass'.step \in {"record", "invite", "join"} => pass'.room = r)
  <1>1. CASE pass' = NoPass
    BY <1>1 DEF NoPass, Pass, Step
  <1>2. CASE pass' = [pass EXCEPT !.step = "record", !.room = r]
    BY <1>2 DEF Pass, Step
  <1> QED
    BY <1>1, <1>2

(* A room is created only as the first one, and is the alias's from then.   *)
LEMMA CreateRoomPreserves == ASSUME SetupInv, CreateRoom PROVE SetupInv'
  <1>1. pass \in Pass /\ invited \in [Rooms -> SUBSET Users]
    BY DEF SetupInv, TypeOK
  <1>2. UNCHANGED <<participants, recorded, cached, resets>>
    BY DEF CreateRoom, configMap, Quiet
  <1>3. faults' \in 0 .. MaxFaults
    BY DEF SetupInv, TypeOK, CreateRoom, NewRoom, Fault, NoFault
  <1>4. CASE alias = Absent /\ NewRoom(TRUE)
    <2>1. created = 0 /\ created' = 1 /\ alias' = 1 /\ 1 \in Rooms /\ 1 # Absent
      BY <1>4 DEF NewRoom, SetupInv, AliasIsTheRoom, Rooms, Absent
    <2>2. /\ invited' \in [Rooms -> SUBSET Users]
          /\ \A r \in Rooms : r # 1 => invited'[r] = {}
      <3>1. \A r \in Rooms : invited[r] = {}
        BY <1>4, NotRooms DEF SetupInv, AliasIsTheRoom
      <3>2. invited' = [invited EXCEPT ![1] = Guests] /\ Guests \in SUBSET Users
        BY <1>1, <1>4, <2>1 DEF NewRoom, Guests, Pass
      <3> QED
        BY <1>1, <2>1, <3>1, <3>2
    <2>3. pass' \in Pass /\ (pass'.step \in {"record", "invite", "join"} => pass'.room = 1)
      BY <1>1, <1>4, <2>1, CreatedPass DEF NewRoom
    <2>4. recorded \notin Rooms /\ cached \notin Rooms
      BY <1>4, NotRooms DEF SetupInv, IdsAreTheAlias
    <2>5. joined' = joined /\ created' \in 0 .. MaxRooms
      BY <1>4, <2>1 DEF NewRoom
    <2> QED
      BY <1>2, <1>3, <2>1, <2>2, <2>3, <2>4, <2>5
         DEF SetupInv, TypeOK, AliasIsTheRoom, IdsAreTheAlias
  <1>5. CASE alias # Absent /\ pass' = [pass EXCEPT !.step = "record", !.room = alias]
             /\ UNCHANGED homeserver
    <2>1. alias \in Rooms
      BY <1>5 DEF SetupInv, TypeOK
    <2>2. pass' \in Pass /\ (pass'.step \in {"record", "invite", "join"} => pass'.room = alias)
      BY <1>1, <1>5, <2>1, CreatedPass
    <2> QED
      BY <1>2, <1>3, <1>5, <2>2 DEF homeserver, SetupInv, TypeOK, AliasIsTheRoom, IdsAreTheAlias
  <1>6. CASE pass' = NoPass /\ UNCHANGED homeserver
    <2>1. pass' \in Pass /\ pass'.step = "idle"
      BY <1>6 DEF NoPass, Pass, Step
    <2> QED
      BY <1>2, <1>3, <1>6, <2>1 DEF homeserver, SetupInv, TypeOK, AliasIsTheRoom, IdsAreTheAlias
  <1> QED
    BY <1>4, <1>5, <1>6 DEF CreateRoom

(* What is recorded, and what is invited to, is the pass's room.            *)
LEMMA RoomPreserves ==
  ASSUME SetupInv, RecordRoom \/ Invite \/ Join
  PROVE  SetupInv'
  <1>1. pass \in Pass /\ pass.room \in Rooms /\ pass.room = alias /\ alias # Absent
    <2>1. CASE pass.step \in {"record", "join"}
      BY <2>1 DEF SetupInv, IdsAreTheAlias, TypeOK
    <2>2. CASE pass.step = "invite"
      BY <2>2 DEF SetupInv, IdsAreTheAlias, TypeOK
    <2> QED
      BY <2>1, <2>2 DEF RecordRoom, Invite, Join
  <1>2. faults' \in 0 .. MaxFaults
    <2>1. Fault \/ NoFault
      BY DEF RecordRoom, Invite, Join
    <2> QED
      BY <2>1, FaultsType
  <1>3. UNCHANGED <<participants, alias, created, cached, resets>>
    BY DEF RecordRoom, Invite, Join, homeserver, configMap, Quiet
  <1>4. CASE RecordRoom
    <2>1. pass' \in Pass /\ pass'.room = alias
      BY <1>1, <1>4, SyncRoomType DEF RecordRoom
    <2>2. recorded' \in {recorded, alias} /\ UNCHANGED <<invited, joined>>
      BY <1>1, <1>4 DEF RecordRoom, homeserver
    <2> QED
      BY <1>1, <1>2, <1>3, <2>1, <2>2
         DEF SetupInv, TypeOK, Record, AliasIsTheRoom, IdsAreTheAlias
  <1>5. CASE Invite
    <2>1. PICK u \in pass.todo :
            /\ invited' \in {invited, [invited EXCEPT ![pass.room] = @ \union {u}]}
            /\ \/ pass' = [pass EXCEPT !.step = "join", !.todo = @ \ {u}, !.known = {u}]
               \/ pass' = [pass EXCEPT !.todo = @ \ {u}]
      BY <1>5 DEF Invite
    <2>2. u \in Users
      BY <1>1 DEF Pass
    <2>3. pass' \in Pass /\ pass'.room = alias
      <3>1. CASE pass' = [pass EXCEPT !.step = "join", !.todo = @ \ {u}, !.known = {u}]
        BY <1>1, <2>2, <3>1 DEF Pass, Step
      <3>2. CASE pass' = [pass EXCEPT !.todo = @ \ {u}]
        BY <1>1, <3>2 DEF Pass
      <3> QED
        BY <2>1, <3>1, <3>2
    <2>4. /\ invited' \in [Rooms -> SUBSET Users]
          /\ \A r \in Rooms : r # alias => invited'[r] = invited[r]
      BY <1>1, <2>1, <2>2 DEF SetupInv, TypeOK
    <2>5. UNCHANGED <<joined, recorded>>
      BY <1>5 DEF Invite, configMap
    <2> QED
      BY <1>1, <1>2, <1>3, <2>3, <2>4, <2>5 DEF SetupInv, TypeOK, AliasIsTheRoom, IdsAreTheAlias
  <1>6. CASE Join
    <2>1. pass' \in Pass /\ pass'.room = alias
      BY <1>1, <1>6 DEF Join, Pass, Step
    <2>2. joined' \in [Rooms -> SUBSET Users]
      BY <1>1, <1>6 DEF Join, SetupInv, TypeOK, Pass
    <2>3. UNCHANGED <<invited, recorded>>
      BY <1>6 DEF Join, configMap
    <2> QED
      BY <1>1, <1>2, <1>3, <2>1, <2>2, <2>3 DEF SetupInv, TypeOK, AliasIsTheRoom, IdsAreTheAlias
  <1> QED
    BY <1>4, <1>5, <1>6

LEMMA StepPreserves == SetupInv /\ [Next]_vars => SetupInv'
  <1> SUFFICES ASSUME SetupInv, [Next]_vars PROVE SetupInv'
    OBVIOUS
  <1>1. CASE EditParticipants \/ ResetConfigMap \/ ConfigMapArrives \/ Restart
    BY <1>1, EnvironmentPreserves
  <1>2. CASE Begin \/ EnsureAccount \/ OperatorToken \/ End
    BY <1>2, AccountsPreserve
  <1>3. CASE ReadRoom
    BY <1>3, ReadRoomPreserves
  <1>4. CASE CreateRoom
    BY <1>4, CreateRoomPreserves
  <1>5. CASE RecordRoom \/ Invite \/ Join
    BY <1>5, RoomPreserves
  <1>6. CASE UNCHANGED vars
    BY <1>6 DEF vars, homeserver, configMap, SetupInv, TypeOK, AliasIsTheRoom, IdsAreTheAlias
  <1> QED
    BY <1>1, <1>2, <1>3, <1>4, <1>5, <1>6 DEF Next, PassStep

(* The inductive invariant: every id the controller keeps or has read is    *)
(* that of the room behind the alias.                                       *)
THEOREM SetupInvariant == Spec => []SetupInv
  BY InitEstablishes, StepPreserves, PTL DEF Spec

(* Every state of the room, the ConfigMap and the pass is well typed: the   *)
(* placeholder of a sample never becomes the room of a pass.                *)
THEOREM TypeInvariant == Spec => []TypeOK
  <1>1. SetupInv => TypeOK
    BY DEF SetupInv
  <1> QED
    BY <1>1, SetupInvariant, PTL

(* Setup.EnsureReady never makes a second room for a Collaboration, and     *)
(* never records another one.                                               *)
THEOREM OnlyRoom == Spec => []OneRoom
  <1>1. SetupInv => OneRoom
    BY DEF SetupInv, AliasIsTheRoom, IdsAreTheAlias, OneRoom
  <1> QED
    BY <1>1, SetupInvariant, PTL
================================================================================
