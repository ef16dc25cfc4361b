-------------------------- MODULE CollaborationEngine --------------------------
(***************************************************************************)
(* The Collaboration Engine (internal/collaboration): runs and their event *)
(* ledger in the object store, and the goroutines that handle requests.    *)
(*                                                                         *)
(* Every request is one goroutine of the HTTP server or of the Matrix      *)
(* handler. The engine holds no lock and the store has no compare-and-swap,*)
(* so a request is a sequence of steps, one per call that leaves the       *)
(* process, and any other request may run between two of them:             *)
(*                                                                         *)
(*   start    : check, resolve, filter -> WriteRun -> WriteEvent ->        *)
(*              policy, Round++, WriteRun -> GetMember*, Deliver -> answer *)
(*   receive  : ReadRun, lists -> WriteEvent -> (as above, by event type)  *)
(*              -> ReadRun, answer                                         *)
(*                                                                         *)
(* What the engine reads of the cluster (policies, groups, members, the    *)
(* Collaboration) is one value `org`, the name of a configuration: Check   *)
(* and ResolveTargets are modelled in Organization.tla, this module sees   *)
(* their results, Config[org].                                             *)
(***************************************************************************)
EXTENDS Integers

CONSTANTS
  Requests,   \* the requests a behaviour may see; each is handled once
  Members,    \* Member names
  Groups,     \* Group names
  Roles,      \* values of DispatchIntent.OnlyThisRole
  NoRole,     \* its empty value
  Orgs,       \* names of the configurations the cluster may be in
  Config,     \* what each of them contains: [Orgs -> OrgType]
  Starts,     \* bodies of start requests (see StartType)
  Events,     \* bodies of posted events (see EventType)
  EventIds,   \* event ids that clients choose themselves
  NoId,       \* an empty event id: the engine generates one
  NoEvent,    \* no object under an event's key
  NoRun,      \* no object under the run's key
  NoWork,     \* the request has not been read yet
  Serial      \* TRUE: a request begins only when no other is in flight

Targets == Members \union Groups
Overrides == Roles \union {NoRole}
PolicyActions == {"Start", "Continue", "Cancel"}
EventTypes == {"MemberRequest", "Message", "Result", "Cancel", "Error", "Other"}
PayloadStatus == {"absent", "completed", "failed"}
Terminal == {"Completed", "Failed", "Cancelled"}

(* grants: the triples for which Check returns Allow; resolves, expand: for *)
(* which Group and role override ResolveTargets succeeds, and with what.    *)
OrgType ==
  [grants   : SUBSET (Members \X Targets \X PolicyActions),
   resolves : SUBSET (Groups \X Overrides),
   expand   : [Groups \X Overrides -> SUBSET Members],
   limit    : Int,               \* spec.limits.maxReplyRounds
   members  : SUBSET Members,    \* Members that GetMember finds
   agents   : SUBSET Members,    \* spec.type is Agent
   mxids    : SUBSET Members]    \* status.matrixUserId is set

StartType ==
  [from : Members, to : SUBSET Targets, role : Overrides,
   only : SUBSET Members, skip : SUBSET Members]

EventType ==
  [type : EventTypes, source : Members, targets : SUBSET Targets,
   id : EventIds \union {NoId}, status : PayloadStatus]

RunType ==
  [startedBy : Members, targets : SUBSET Members,
   status : {"Running"} \union Terminal, round : Nat, limit : Int,
   result : PayloadStatus]

WorkType == [id : Requests, run : RunType, event : EventType, org : Orgs]

ASSUME ConfigAssumption == Config \in [Orgs -> OrgType]
ASSUME StartsAssumption == Starts \subseteq StartType
ASSUME EventsAssumption == Events \subseteq EventType
ASSUME NoIdAssumption == NoId \notin EventIds
ASSUME NoEventAssumption == NoEvent \notin EventType
ASSUME NoRunAssumption == NoRun \notin RunType
ASSUME NoWorkAssumption == NoWork \notin WorkType
ASSUME SerialAssumption == Serial \in BOOLEAN

(* A generated id is as fresh as the request: uuid.NewString, for run and   *)
(* event ids alike. A run is named by the request that started it.          *)
EventKeys == Requests \union EventIds
KeyOf(r, event) == IF event.id = NoId THEN r ELSE event.id

VARIABLES
  org,        \* the cluster, as the API server would answer now
  runs,       \* the run objects in the store, by run id
  ledger,     \* the event objects in the store, by run id and event key
  room,       \* what Deliver has posted
  repeats,    \* transaction ids under which an earlier process posted come again
  pc,         \* the step each request is at
  work        \* the locals of each request: its copy of the run, its lists

vars == <<org, runs, ledger, room, repeats, pc, work>>

InFlight == {"writeRun", "writeEvent", "process", "dispatch", "answer"}
Steps == InFlight \union {"idle", "ok", "error"}

Delivery ==
  [run : Requests, by : Requests, key : EventKeys, round : Nat,
   mentions : SUBSET Members]

TypeOK ==
  /\ org \in Orgs
  /\ runs \in [Requests -> RunType \union {NoRun}]
  /\ ledger \in [Requests -> [EventKeys -> EventType \union {NoEvent}]]
  /\ room \subseteq Delivery
  /\ repeats \in BOOLEAN
  /\ pc \in [Requests -> Steps]
  /\ work \in [Requests -> WorkType \union {NoWork}]
  /\ \A r \in Requests : pc[r] \in InFlight => work[r] \in WorkType

Init ==
  /\ org \in Orgs
  /\ runs = [i \in Requests |-> NoRun]
  /\ ledger = [i \in Requests |-> [k \in EventKeys |-> NoEvent]]
  /\ room = {}
  /\ repeats = FALSE
  /\ pc = [r \in Requests |-> "idle"]
  /\ work = [r \in Requests |-> NoWork]

--------------------------------------------------------------------------------
(* Choosing the members of a run.                                           *)

Allows(o, from, target, action) == <<from, target, action>> \in Config[o].grants

Resolvable(o, target, role) == target \in Members \/ <<target, role>> \in Config[o].resolves
Resolve(o, target, role) == IF target \in Members THEN {target} ELSE Config[o].expand[target, role]
ResolveTargets(o, req) == UNION {Resolve(o, t, req.role) : t \in req.to}

ApplyDispatchIntent(names, req) ==
  (IF req.only = {} THEN names ELSE req.only) \ req.skip

(* Mutant: every resolved member is kept.                                   *)
FilterNobody(o, from, names) == names

FilterMembersByStartPolicy(o, from, names) ==
  {m \in names : Allows(o, from, m, "Start")}

StartTargets(o, req) ==
  FilterMembersByStartPolicy(o, req.from, ApplyDispatchIntent(ResolveTargets(o, req), req))

(* Every early return of StartCollaboration; the last conjunct also covers  *)
(* "no resolved targets" and "no members left after dispatch intent".       *)
StartAccepted(o, req) ==
  /\ \A t \in req.to : Allows(o, req.from, t, "Start")
  /\ \A t \in req.to : Resolvable(o, t, req.role)
  /\ req.only \subseteq ResolveTargets(o, req)
  /\ StartTargets(o, req) # {}

DefaultReplyRounds == 10
ReplyRounds(limit) == IF limit = 0 THEN DefaultReplyRounds ELSE limit

NewRun(o, req) ==
  [startedBy |-> req.from, targets |-> StartTargets(o, req), status |-> "Running",
   round |-> 0, limit |-> ReplyRounds(Config[o].limit), result |-> "absent"]

StartEvent(req) ==
  [type |-> "MemberRequest", source |-> req.from, targets |-> req.to,
   id |-> NoId, status |-> "absent"]

--------------------------------------------------------------------------------
(* Requests.                                                                *)

MayBegin == Serial => \A q \in Requests : pc[q] \notin InFlight

(* StartCollaboration up to WriteRun reads only.                            *)
StartCollaboration(r) ==
  /\ pc[r] = "idle"
  /\ MayBegin
  /\ \E req \in Starts :
       /\ StartAccepted(org, req)
       /\ work' = [work EXCEPT ![r] =
            [id |-> r, run |-> NewRun(org, req), event |-> StartEvent(req), org |-> org]]
       /\ pc' = [pc EXCEPT ![r] = "writeRun"]
  /\ UNCHANGED <<org, runs, ledger, room, repeats>>

RefuseStart(r) ==
  /\ pc[r] = "idle"
  /\ \E req \in Starts : ~StartAccepted(org, req)
  /\ pc' = [pc EXCEPT ![r] = "error"]
  /\ UNCHANGED <<org, runs, ledger, room, repeats, work>>

WriteRun(r) ==
  /\ pc[r] = "writeRun"
  /\ runs' = [runs EXCEPT ![work[r].id] = work[r].run]
  /\ pc' = [pc EXCEPT ![r] = "writeEvent"]
  /\ UNCHANGED <<org, ledger, room, repeats, work>>

(* Mutant: the status is not looked at.                                     *)
Found(i) == runs[i] # NoRun

Running(i) == runs[i] # NoRun /\ runs[i].status = "Running"

(* ReceiveMessage takes its copy of the run here: the only check of the     *)
(* status, and no check of the Deadline. The cluster is read after the run, *)
(* one list at a time; org may change at any moment, so what the lists say  *)
(* together is one of Orgs and is read with the run.                        *)
ReceiveMessage(r) ==
  /\ pc[r] = "idle"
  /\ MayBegin
  /\ \E i \in Requests, event \in Events :
       /\ Running(i)
       /\ work' = [work EXCEPT ![r] =
            [id |-> i, run |-> runs[i], event |-> event, org |-> org]]
       /\ pc' = [pc EXCEPT ![r] = "writeEvent"]
  /\ UNCHANGED <<org, runs, ledger, room, repeats>>

RefuseMessage(r) ==
  /\ pc[r] = "idle"
  /\ \E i \in Requests : ~Running(i)
  /\ pc' = [pc EXCEPT ![r] = "error"]
  /\ UNCHANGED <<org, runs, ledger, room, repeats, work>>

--------------------------------------------------------------------------------
(* processMessage, on the request's own copy of the run.                    *)

(* Mutant: one event object for the whole run.                              *)
WriteLatestEvent(r) ==
  /\ pc[r] = "writeEvent"
  /\ ledger' = [ledger EXCEPT ![work[r].id] =
       [k \in EventKeys |-> IF k = KeyOf(r, work[r].event) THEN work[r].event ELSE NoEvent]]
  /\ pc' = [pc EXCEPT ![r] = "process"]
  /\ UNCHANGED <<org, runs, room, repeats, work>>

(* PutObject overwrites: of two events of a run with one id, which a client *)
(* may choose, the ledger keeps the one that was written last.              *)
WriteEvent(r) ==
  /\ pc[r] = "writeEvent"
  /\ ledger' = [ledger EXCEPT ![work[r].id][KeyOf(r, work[r].event)] = work[r].event]
  /\ pc' = [pc EXCEPT ![r] = "process"]
  /\ UNCHANGED <<org, runs, room, repeats, work>>

Dispatches(event) == event.type \in {"MemberRequest", "Message"}
ActionOf(event) == IF event.type = "MemberRequest" THEN "Start" ELSE "Continue"

EventAllowed(w) ==
  \A t \in w.event.targets : Allows(w.org, w.event.source, t, ActionOf(w.event))

(* The request's copy becomes the object, whatever the object is by now.    *)
Store(r, run, next) ==
  /\ runs' = [runs EXCEPT ![work[r].id] = run]
  /\ work' = [work EXCEPT ![r].run = run]
  /\ pc' = [pc EXCEPT ![r] = next]
  /\ UNCHANGED <<org, ledger, room, repeats>>

(* Mutant: the round is compared with the limit before it is incremented.   *)
NextRoundTooLate(r) ==
  LET run == work[r].run IN
  /\ pc[r] = "process"
  /\ Dispatches(work[r].event)
  /\ EventAllowed(work[r])
  /\ run.round <= run.limit
  /\ Store(r, [run EXCEPT !.round = @ + 1], "dispatch")

(* Mutant: the targets are filtered again by the policies of now.           *)
NextRoundFiltered(r) ==
  LET run == work[r].run IN
  /\ pc[r] = "process"
  /\ Dispatches(work[r].event)
  /\ EventAllowed(work[r])
  /\ run.round + 1 <= run.limit
  /\ Store(r, [run EXCEPT !.round = @ + 1,
                !.targets = FilterMembersByStartPolicy(work[r].org, run.startedBy, @)],
           "dispatch")

NextRound(r) ==
  LET run == work[r].run IN
  /\ pc[r] = "process"
  /\ Dispatches(work[r].event)
  /\ EventAllowed(work[r])
  /\ run.round + 1 <= run.limit
  /\ Store(r, [run EXCEPT !.round = @ + 1], "dispatch")

(* Mutant: the run is left Running.                                         *)
RoundsExhaustedOpen(r) ==
  LET run == work[r].run IN
  /\ pc[r] = "process"
  /\ Dispatches(work[r].event)
  /\ EventAllowed(work[r])
  /\ run.round + 1 > run.limit
  /\ Store(r, [run EXCEPT !.round = @ + 1], "answer")

RoundsExhausted(r) ==
  LET run == work[r].run IN
  /\ pc[r] = "process"
  /\ Dispatches(work[r].event)
  /\ EventAllowed(work[r])
  /\ run.round + 1 > run.limit
  /\ Store(r, [run EXCEPT !.round = @ + 1, !.status = "Failed"], "answer")

ProcessResult(r) ==
  LET w == work[r] IN
  /\ pc[r] = "process"
  /\ w.event.type = "Result"
  /\ Store(r, [w.run EXCEPT !.result = w.event.status,
                            !.status = IF w.event.status = "failed" THEN "Failed"
                                       ELSE "Completed"], "answer")

ProcessCancel(r) ==
  LET w == work[r] IN
  /\ pc[r] = "process"
  /\ w.event.type = "Cancel"
  /\ Allows(w.org, w.event.source, w.run.startedBy, "Cancel")
  /\ Store(r, [w.run EXCEPT !.status = "Cancelled"], "answer")

ProcessError(r) ==
  /\ pc[r] = "process"
  /\ work[r].event.type = "Error"
  /\ Store(r, [work[r].run EXCEPT !.status = "Failed"], "answer")

Unsupported(event) == event.type = "Other"

(* The event stays in the ledger when the policy or its type rejects it.    *)
RefuseEvent(r) ==
  LET w == work[r] IN
  /\ pc[r] = "process"
  /\ \/ Dispatches(w.event) /\ ~EventAllowed(w)
     \/ w.event.type = "Cancel" /\ ~Allows(w.org, w.event.source, w.run.startedBy, "Cancel")
     \/ Unsupported(w.event)
  /\ pc' = [pc EXCEPT ![r] = "error"]
  /\ UNCHANGED <<org, runs, ledger, room, repeats, work>>

--------------------------------------------------------------------------------
(* dispatch: GetMember answers from the cluster as it is now, not from the  *)
(* lists the request was checked against.                                   *)

(* Mutant: an Agent without a Matrix account is skipped.                    *)
MentionsWithAccount(o, names) == names \intersect Config[o].agents \intersect Config[o].mxids

Mentions(o, names) == names \intersect Config[o].agents
Mentionable(o, names) ==
  names \subseteq Config[o].members /\ Mentions(o, names) \subseteq Config[o].mxids

Dispatch(r) ==
  LET w == work[r] IN
  /\ pc[r] = "dispatch"
  /\ Mentionable(org, w.run.targets)
  /\ room' = room \union
       {[run |-> w.id, by |-> r, key |-> KeyOf(r, w.event), round |-> w.run.round,
         mentions |-> Mentions(org, w.run.targets)]}
  /\ pc' = [pc EXCEPT ![r] = "answer"]
  /\ UNCHANGED <<org, runs, ledger, repeats, work>>

(* The homeserver takes the transaction id for one of an earlier process,   *)
(* which counted from 1 too: it answers with success and posts nothing.     *)
(* Whether it does depends on the ids sent since and on the token, which    *)
(* MatrixRoom has; here any message may meet an old id.                     *)
DispatchRepeated(r) ==
  /\ pc[r] = "dispatch"
  /\ Mentionable(org, work[r].run.targets)
  /\ repeats
  /\ pc' = [pc EXCEPT ![r] = "answer"]
  /\ UNCHANGED <<org, runs, ledger, room, repeats, work>>

(* A target is gone, or an Agent has no Matrix account yet. The round stays *)
(* spent: WriteRun came first.                                              *)
RefuseDispatch(r) ==
  /\ pc[r] = "dispatch"
  /\ ~Mentionable(org, work[r].run.targets)
  /\ pc' = [pc EXCEPT ![r] = "error"]
  /\ UNCHANGED <<org, runs, ledger, room, repeats, work>>

(* The client is answered: with its copy of a new run, or with the object   *)
(* that ReceiveMessage reads a second time. If that read fails, the client  *)
(* gets an error for a request that took effect: Fail.                      *)
Answer(r) ==
  /\ pc[r] = "answer"
  /\ pc' = [pc EXCEPT ![r] = "ok"]
  /\ UNCHANGED <<org, runs, ledger, room, repeats, work>>

(* A call to the store, the API server or Matrix returns an error. A write  *)
(* or a post that took effect although its answer was lost is its own step  *)
(* followed by this one. Nothing is rolled back.                            *)
Fail(r) ==
  /\ pc[r] \in InFlight
  /\ pc' = [pc EXCEPT ![r] = "error"]
  /\ UNCHANGED <<org, runs, ledger, room, repeats, work>>

--------------------------------------------------------------------------------
(* The environment: kubectl, the reconcilers and the Matrix setup loop      *)
(* change the cluster. The Deadline of a run is stored and never looked at, *)
(* so that the passing of time is no step.                                  *)

(* The controller dies and starts again: the requests in flight end where   *)
(* they are, the store and the room stay. The counter of transaction ids    *)
(* begins again at 1.                                                       *)
Restart ==
  /\ pc' = [r \in Requests |-> IF pc[r] \in InFlight THEN "error" ELSE pc[r]]
  /\ repeats' = (room # {})
  /\ UNCHANGED <<org, runs, ledger, room, work>>

ChangeCluster ==
  /\ \E o \in Orgs \ {org} : org' = o
  /\ UNCHANGED <<runs, ledger, room, repeats, pc, work>>

RequestStep(r) ==
  \/ StartCollaboration(r)
  \/ RefuseStart(r)
  \/ WriteRun(r)
  \/ ReceiveMessage(r)
  \/ RefuseMessage(r)
  \/ WriteEvent(r)
  \/ NextRound(r)
  \/ RoundsExhausted(r)
  \/ ProcessResult(r)
  \/ ProcessCancel(r)
  \/ ProcessError(r)
  \/ RefuseEvent(r)
  \/ Dispatch(r)
  \/ DispatchRepeated(r)
  \/ RefuseDispatch(r)
  \/ Answer(r)
  \/ Fail(r)

Next ==
  \/ \E r \in Requests : RequestStep(r)
  \/ Restart
  \/ ChangeCluster

Spec == Init /\ [][Next]_vars

--------------------------------------------------------------------------------
(* Properties under every interleaving.                                     *)

Writers(i, key) ==
  {q \in Requests : work[q] # NoWork /\ work[q].id = i /\ KeyOf(q, work[q].event) = key}

Recorded(i, key) == ledger[i][key] \in {work[q].event : q \in Writers(i, key)}

(* Whatever was posted in the room has an event in the ledger of its run,   *)
(* although requests overlap, fail and die: processMessage records before   *)
(* it acts. The event is the one behind the wake-up (d.by is a writer of    *)
(* its key), or, if another request of the run was posted with that very    *)
(* id, possibly the other's: the store overwrites the object and the event  *)
(* of the wake-up is lost (store.go:63-65). Nothing else takes it away.     *)
WakesAreRecorded ==
  \A d \in room : d.by \in Writers(d.run, d.key) /\ Recorded(d.run, d.key)

(* A wake-up mentions members the run resolved to, each of which the member *)
(* that started the run could Start under the policies its request had      *)
(* read, and the request behind the wake-up passed the policy of its own    *)
(* action for every target it named. A run copied through several requests, *)
(* while the cluster changes, never gains a member.                         *)
WakesAreAuthorised ==
  \A d \in room :
    /\ runs[d.run] # NoRun
    /\ d.mentions \subseteq runs[d.run].targets
    /\ \A m \in d.mentions :
         Allows(work[d.run].org, runs[d.run].startedBy, m, "Start")
    /\ EventAllowed(work[d.by])

SameIdentity(a, b) ==
  /\ a.startedBy = b.startedBy
  /\ a.targets = b.targets
  /\ a.limit = b.limit

(* Stale copies of a run overwrite each other, yet who started it, whom it  *)
(* resolved to and its limit never change, and a run never disappears.      *)
RunIdentityIsFixed ==
  [][\A i \in Requests : runs[i] # NoRun =>
       runs'[i] # NoRun /\ SameIdentity(runs[i], runs'[i])]_vars

(* A request that asked for a wake-up, did not find the rounds exhausted    *)
(* and was answered without an error did post in the room, and mentioned    *)
(* every member of the run that is an Agent in all that happens: one that   *)
(* is gone or has no Matrix account is reported, never skipped. The one     *)
(* exception: after a restart the homeserver may take the message for a     *)
(* repetition and answer with success (client.go:227), so that nothing is   *)
(* promised once an earlier process has posted.                             *)
Posted(r) ==
  \E d \in room :
    /\ d.by = r /\ d.run = work[r].id
    /\ \A m \in work[r].run.targets :
         (\A o \in Orgs : m \in Config[o].agents) => m \in d.mentions

AnsweredWakesArePosted ==
  \A r \in Requests :
    pc[r] = "ok" /\ Dispatches(work[r].event) /\ work[r].run.status = "Running"
      => Posted(r) \/ repeats

(* Why they hold: the inductive invariant behind the four properties above. *)
Startable(o, run) == \A m \in run.targets : Allows(o, run.startedBy, m, "Start")

(* A run exists only when the request that names it is past its WriteRun.   *)
RunsAreStarted ==
  \A i \in Requests : runs[i] # NoRun =>
    /\ work[i] \in WorkType
    /\ work[i].id = i
    /\ pc[i] \notin {"idle", "writeRun"}
    /\ Startable(work[i].org, runs[i])

NewRunsAreStartable ==
  \A r \in Requests : pc[r] = "writeRun" =>
    work[r].id = r /\ Startable(work[r].org, work[r].run)

(* A copy in flight may be stale, but it is a copy of its run.              *)
CopiesKeepIdentity ==
  \A r \in Requests : pc[r] \in {"writeEvent", "process", "dispatch"} =>
    runs[work[r].id] # NoRun /\ SameIdentity(runs[work[r].id], work[r].run)

EventsAreRecordedFirst ==
  \A r \in Requests : pc[r] \in {"process", "dispatch"} =>
    ledger[work[r].id][KeyOf(r, work[r].event)] # NoEvent

DispatchesAreAllowed ==
  \A r \in Requests : pc[r] = "dispatch" => EventAllowed(work[r])

RoomIsAccountedFor ==
  \A d \in room :
    /\ d.by \in Writers(d.run, d.key)
    /\ ledger[d.run][d.key] # NoEvent
    /\ runs[d.run] # NoRun
    /\ d.mentions \subseteq runs[d.run].targets
    /\ pc[d.by] \in {"answer", "ok", "error"}
    /\ EventAllowed(work[d.by])

(* The object under a key is the event of a request that wrote it there.    *)
LedgerIsWritten ==
  \A i \in Requests, k \in EventKeys : ledger[i][k] # NoEvent => Recorded(i, k)

IdleHoldsNothing == \A r \in Requests : pc[r] = "idle" => work[r] = NoWork

RepeatsNeedAPost == repeats => room # {}

AnswersAreTrue ==
  \A r \in Requests :
    pc[r] \in {"answer", "ok"} /\ Dispatches(work[r].event) /\ work[r].run.status = "Running"
      => Posted(r) \/ repeats

EngineInv ==
  /\ TypeOK
  /\ RunsAreStarted
  /\ NewRunsAreStartable
  /\ CopiesKeepIdentity
  /\ EventsAreRecordedFirst
  /\ DispatchesAreAllowed
  /\ IdleHoldsNothing
  /\ LedgerIsWritten
  /\ RoomIsAccountedFor
  /\ AnswersAreTrue
  /\ RepeatsNeedAPost

--------------------------------------------------------------------------------
(* Properties that need requests one at a time (Serial).                    *)

Wakes(i) == {d \in room : d.run = i}

(* A run that has ended stays as it ended: "run is not running" is checked  *)
(* on the object that the same request then overwrites.                     *)
TerminalIsFinal ==
  [][\A i \in Requests : runs[i] # NoRun /\ runs[i].status \in Terminal =>
       runs'[i] = runs[i]]_vars

(* Every round wakes the members at most once, and no more rounds do than   *)
(* the Collaboration's limit allows.                                        *)
RoundsBoundWakes ==
  /\ \A d, e \in room : d.run = e.run /\ d.round = e.round => d = e
  /\ \A d \in room : d.round \in 1 .. runs[d.run].limit

(* Why they hold: the one copy in flight is the object, and the round it is *)
(* at has woken nobody yet.                                                 *)
OneInFlight ==
  Serial => \A q, r \in Requests : pc[q] \in InFlight /\ pc[r] \in InFlight => q = r

CopiesAreCurrent ==
  Serial => \A r \in Requests :
    /\ pc[r] = "writeRun" => work[r].run.status = "Running" /\ work[r].run.round = 0
    /\ pc[r] \in {"writeEvent", "process", "dispatch"} =>
         runs[work[r].id] = work[r].run /\ work[r].run.status = "Running"

RoundsAreSpent ==
  Serial =>
    /\ \A d \in room : d.round \in 1 .. runs[d.run].limit /\ d.round <= runs[d.run].round
    /\ \A r \in Requests : pc[r] = "dispatch" =>
         /\ work[r].run.round \in 1 .. work[r].run.limit
         /\ \A d \in room : d.run = work[r].id => d.round < work[r].run.round

SerialInv == EngineInv /\ OneInFlight /\ CopiesAreCurrent /\ RoundsAreSpent /\ (Serial => RoundsBoundWakes)

(* What a run is, seen from outside: RunLifecycle.                          *)
Lifecycle ==
  INSTANCE RunLifecycle WITH
    Ids <- Requests,
    status <- [i \in Requests |-> IF runs[i] = NoRun THEN "None" ELSE runs[i].status],
    round <- [i \in Requests |-> IF runs[i] = NoRun THEN 0 ELSE runs[i].round],
    limit <- [i \in Requests |-> IF runs[i] = NoRun THEN 0 ELSE runs[i].limit],
    woken <- [i \in Requests |-> {d.round : d \in Wakes(i)}]

(* The engine implements the lifecycle when requests do not overlap.        *)
ImplementsLifecycle == Lifecycle!Spec
================================================================================
