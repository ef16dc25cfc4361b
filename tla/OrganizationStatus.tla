--------------------------- MODULE OrganizationStatus --------------------------
(***************************************************************************)
(* What the controller reports of Groups, Collaborations and Policies: the *)
(* three reconcilers that compute a status, and Matrix setup, which writes *)
(* the Matrix user of a Group into the same status. All of them read an    *)
(* object from the informers' caches, and write the status back as a whole *)
(* with the version they read: the API server refuses it when the object   *)
(* changed since. Only the object's own changes bring a reconciler to it.  *)
(*                                                                         *)
(* Objects and Members are created, edited and deleted in any order. What  *)
(* a Group expands to is Organization's.                                   *)
(***************************************************************************)
EXTENDS Organization, FiniteSets

CONSTANTS
  Collaboration,
  Policy,
  Specs,          \* by object, the specs it may be given
  MaxChanges,     \* bound: what the user creates, edits and deletes
  MaxFaults       \* bound: failed updates and restarts

Object == Group \union Collaboration \union Policy

ASSUME ObjectsAssumption ==
  Collaboration \intersect (Target \union Policy) = {} /\ Policy \intersect Target = {}
ASSUME SpecsAssumption ==
  /\ \A g \in Group : Specs[g] \subseteq Seq(GroupItem)
  /\ \A c \in Collaboration : Specs[c] \subseteq Seq(Target)
  /\ \A p \in Policy : Specs[p] \subseteq {"Allow", "Deny", ""}
ASSUME BoundsAssumption == MaxChanges \in Nat /\ MaxFaults \in Nat

Kind == {"group", "collaboration", "policy"}
KindOf(x) == IF x \in Group THEN "group" ELSE IF x \in Collaboration THEN "collaboration" ELSE "policy"
Holder == {"cache", "setup"} \union Kind

VARIABLES
  api,        \* the objects in the API server
  cache,      \* in the informers' caches
  latest,     \* by object, who holds the version the API server has
  members,    \* the Members that exist
  seen,       \* and those in the cache
  queue,      \* objects that a reconciler has to come to
  work,       \* by kind, its one worker
  setup,      \* the Group Matrix setup has in hand
  changes,
  faults

objects == <<api, cache, latest>>
vars == <<objects, members, seen, queue, work, setup, changes, faults>>

Status == [phase : {"", "Ready", "Invalid"}, applied : Nat, count : Nat, mxid : BOOLEAN]
NoStatus == [phase |-> "", applied |-> 0, count |-> 0, mxid |-> FALSE]

Idle == [step |-> "idle"]

(* What a worker has in hand of an object of its kind.                      *)
InHand(k, w) ==
  /\ w \in [step : {"update"}, name : Object, status : Status]
             \union [step : {"members"}, name : Group, status : Status,
                     spec : Seq(GroupItem), count : Nat]
  /\ KindOf(w.name) = k

TypeOK ==
  /\ \A objs \in {api, cache} :
       /\ DOMAIN objs \subseteq Object /\ IsFiniteSet(DOMAIN objs)
       /\ \A x \in DOMAIN objs :
            objs[x] \in [spec : Specs[x], gen : 1 .. changes, status : Status]
  /\ latest \in [Object -> SUBSET Holder]
  /\ members \subseteq Member /\ seen \subseteq Member
  /\ queue \subseteq Object
  /\ \A k \in Kind : work[k] = Idle \/ InHand(k, work[k])
  /\ setup = Idle \/ setup \in [name : Group, status : Status]
  /\ changes \in 0 .. MaxChanges /\ faults \in 0 .. MaxFaults

Init ==
  /\ api = <<>> /\ cache = <<>>
  /\ latest = [x \in Object |-> {"cache"}]
  /\ members = {} /\ seen = {}
  /\ queue = {}
  /\ work = [k \in Kind |-> Idle]
  /\ setup = Idle
  /\ changes = 0 /\ faults = 0

Fault == faults < MaxFaults /\ faults' = faults + 1
NoFault == UNCHANGED faults

--------------------------------------------------------------------------------
(* The API server and the informers.                                        *)

Exists(x) == x \in DOMAIN api
Put(objs, x, copy) == [y \in DOMAIN objs \union {x} |-> IF y = x THEN copy ELSE objs[y]]
Without(objs, x) == [y \in DOMAIN objs \ {x} |-> objs[y]]

(* A new version of an object, which nobody has yet.                        *)
NewVersion(x) == latest' = [latest EXCEPT ![x] = {}]
Write(x, copy) == api' = Put(api, x, copy) /\ NewVersion(x)

Change == changes < MaxChanges /\ changes' = changes + 1

ApplySpec(x) ==
  /\ Change
  /\ \E s \in Specs[x] :
       IF Exists(x) THEN s # api[x].spec /\ Write(x, [api[x] EXCEPT !.spec = s, !.gen = @ + 1])
       ELSE Write(x, [spec |-> s, gen |-> 1, status |-> NoStatus])
  /\ UNCHANGED <<cache, members, seen, queue, work, setup, faults>>

DeleteObject(x) ==
  /\ Change
  /\ Exists(x)
  /\ api' = Without(api, x) /\ NewVersion(x)
  /\ UNCHANGED <<cache, members, seen, queue, work, setup, faults>>

ChangeMembers(m) ==
  /\ Change
  /\ members' = IF m \in members THEN members \ {m} ELSE members \union {m}
  /\ UNCHANGED <<objects, seen, queue, work, setup, faults>>

(* An event of the object's own kind, which queues it.                      *)
ObjectArrives(x) ==
  /\ "cache" \notin latest[x]
  /\ cache' = IF Exists(x) THEN Put(cache, x, api[x]) ELSE Without(cache, x)
  /\ latest' = [latest EXCEPT ![x] = @ \union {"cache"}]
  /\ queue' = queue \union {x}
  /\ UNCHANGED <<api, members, seen, work, setup, changes, faults>>

(* Nobody is queued for an event of another kind.                           *)
MembersArrive ==
  /\ seen' = members
  /\ UNCHANGED <<objects, members, queue, work, setup, changes, faults>>

(* The informers' periodic resync queues what they have.                    *)
Resync ==
  /\ queue' = queue \union DOMAIN cache
  /\ UNCHANGED <<objects, members, seen, work, setup, changes, faults>>

--------------------------------------------------------------------------------
(* The reconcilers.                                                         *)

otherVars == <<members, seen, setup, changes>>

(* Who has read the cached copy holds the version the cache holds.          *)
Read(x, holder) ==
  latest' = [latest EXCEPT ![x] = IF "cache" \in @ THEN @ \union {holder} ELSE @]
Forget(x, holder) == latest' = [latest EXCEPT ![x] = @ \ {holder}]

(* Mutant: the phase a reconcile begins with is left in place.              *)
StillWaiting(status) == [status EXCEPT !.phase = "Waiting"]

(* Reconcile begins with Waiting, which no path writes. The count of before *)
(* stays beside an Invalid.                                                 *)
Invalid(status) == [status EXCEPT !.phase = "Invalid"]
Ready(status, count) == [status EXCEPT !.phase = "Ready", !.count = count]

GroupsIn(objs) == [g \in DOMAIN objs \intersect Group |-> objs[g].spec]
DirectMembers(items) == Names(items) \intersect Member

(* NewResolver and ExpandGroup, on the Groups the cache has.                *)
ExpandCached(g, status) ==
  LET groups == GroupsIn(cache) IN
  IF Expands(groups, g)
  THEN [step |-> "members", name |-> g, status |-> status,
        spec |-> cache[g].spec, count |-> Len(ExpandGroup(groups, g))]
  ELSE [step |-> "update", name |-> g, status |-> Invalid(status)]

(* Every participant counts, whether it exists or was counted before.       *)
Heads(groups, who) == IF who \in Member THEN 1 ELSE Len(ExpandGroup(groups, who))

Headcount(groups, participants) ==
  LET counted[n \in 0 .. Len(participants)] ==
        IF n = 0 THEN 0 ELSE counted[n - 1] + Heads(groups, participants[n])
  IN counted[Len(participants)]

Unresolved(groups, participants) ==
  \E i \in DOMAIN participants : participants[i] \in Group /\ ~Expands(groups, participants[i])

JudgeCollaboration(participants, status) ==
  LET groups == GroupsIn(cache) IN
  IF Unresolved(groups, participants) \/ Headcount(groups, participants) < 2
  THEN Invalid(status) ELSE Ready(status, Headcount(groups, participants))

JudgePolicy(effect, status) == IF effect = "" THEN Invalid(status) ELSE Ready(status, 0)

(* Reconcile up to what it reads of other objects: what it read of its own  *)
(* counts only if that is still the API server's when the status is written.*)
(* resolveMatrixUserID may find the ConfigMap of a Group or not.            *)
Reconcile(x) ==
  LET k == KindOf(x)
      status == [cache[x].status EXCEPT !.applied = cache[x].gen]
      updates(st) == [step |-> "update", name |-> x, status |-> st] IN
  /\ work[k] = Idle
  /\ x \in queue \intersect DOMAIN cache
  /\ queue' = queue \ {x}
  /\ Read(x, k)
  /\ \E w \in CASE k = "group" -> {ExpandCached(x, status), ExpandCached(x, [status EXCEPT !.mxid = TRUE])}
                 [] k = "collaboration" -> {updates(JudgeCollaboration(cache[x].spec, status))}
                 [] k = "policy" -> {updates(JudgePolicy(cache[x].spec, status))} :
       work' = [work EXCEPT ![k] = w]
  /\ UNCHANGED <<api, cache, otherVars, faults>>

ReconcileDeleted(x) ==
  /\ work[KindOf(x)] = Idle
  /\ x \in queue \ DOMAIN cache
  /\ queue' = queue \ {x}
  /\ UNCHANGED <<objects, otherVars, work, faults>>

(* Mutant: the Members of the list are not looked up.                       *)
GetNoMembers ==
  LET w == work["group"] IN
  /\ w # Idle /\ w.step = "members"
  /\ work' = [work EXCEPT !["group"] =
       [step |-> "update", name |-> w.name, status |-> Ready(w.status, w.count)]]
  /\ UNCHANGED <<objects, queue, otherVars, faults>>

(* A Get for each Member of this Group's own list, not of the nested ones.  *)
GetMembers ==
  LET w == work["group"] IN
  /\ w # Idle /\ w.step = "members"
  /\ work' = [work EXCEPT !["group"] =
       [step |-> "update", name |-> w.name,
        status |-> IF DirectMembers(w.spec) \subseteq seen THEN Ready(w.status, w.count)
                   ELSE Invalid(w.status)]]
  /\ UNCHANGED <<objects, queue, otherVars, faults>>

Done(k) == work' = [work EXCEPT ![k] = Idle]
Requeue(x) == queue' = queue \union {x}
Unwritten(x, holder) == Forget(x, holder) /\ UNCHANGED api

(* Mutant: the status is written whatever version the API server has.       *)
UpdateUnversioned(k) ==
  LET w == work[k] IN
  /\ w # Idle /\ w.step = "update"
  /\ Exists(w.name) /\ Write(w.name, [api[w.name] EXCEPT !.status = w.status])
  /\ Done(k)
  /\ UNCHANGED <<cache, queue, otherVars, faults>>

(* Mutant: after a conflict the object is read again, and the same verdict  *)
(* written for the version it has now.                                      *)
UpdateAfterConflict(k) ==
  LET w == work[k] IN
  /\ w # Idle /\ w.step = "update"
  /\ Exists(w.name) /\ Write(w.name, [api[w.name] EXCEPT !.status = [w.status EXCEPT !.applied = api[w.name].gen]])
  /\ Done(k)
  /\ UNCHANGED <<cache, queue, otherVars, faults>>

(* Mutant: an update that failed is not tried again.                        *)
UpdateOnce(k) ==
  LET w == work[k] IN
  /\ w # Idle /\ w.step = "update"
  /\ \/ k \in latest[w.name] /\ Write(w.name, [api[w.name] EXCEPT !.status = w.status]) /\ NoFault
     \/ Unwritten(w.name, k) /\ ((k \notin latest[w.name] /\ NoFault) \/ Fault)
  /\ Done(k)
  /\ UNCHANGED <<cache, queue, otherVars>>

(* Status().Update. An equal status is no change, unless the clock has gone *)
(* on: setCondition writes the time in any case. An update that is refused, *)
(* or whose answer is lost, is an error, and the object is queued again.    *)
UpdateStatus(k) ==
  LET w == work[k]
      x == w.name
      versioned == k \in latest[x]
      write == Write(x, [api[x] EXCEPT !.status = w.status])
      unwritten == Unwritten(x, k) IN
  /\ w # Idle /\ w.step = "update"
  /\ \/ versioned /\ (write \/ (api[x].status = w.status /\ unwritten)) /\ NoFault /\ UNCHANGED queue
     \/ ~versioned /\ unwritten /\ Requeue(x) /\ NoFault
     \/ ((versioned /\ write) \/ unwritten) /\ Requeue(x) /\ Fault
  /\ Done(k)
  /\ UNCHANGED <<cache, otherVars>>

--------------------------------------------------------------------------------
(* Matrix setup, for one Group of its list; errors are ignored.             *)

workerVars == <<members, seen, queue, work, changes>>

SetupReads(g) ==
  /\ setup = Idle
  /\ g \in DOMAIN cache /\ ~cache[g].status.mxid
  /\ setup' = [name |-> g, status |-> [cache[g].status EXCEPT !.mxid = TRUE]]
  /\ Read(g, "setup")
  /\ UNCHANGED <<api, cache, workerVars, faults>>

SetupWrites ==
  LET g == setup.name IN
  /\ setup # Idle
  /\ setup' = Idle
  /\ \/ "setup" \in latest[g] /\ Write(g, [api[g] EXCEPT !.status = setup.status]) /\ NoFault
     \/ Unwritten(g, "setup") /\ (("setup" \notin latest[g] /\ NoFault) \/ Fault)
  /\ UNCHANGED <<cache, workerVars>>

(* A new controller lists everything, and what it lists is queued.          *)
Restart ==
  /\ Fault
  /\ cache' = api /\ seen' = members
  /\ latest' = [x \in Object |-> {"cache"}]
  /\ queue' = DOMAIN api
  /\ work' = [k \in Kind |-> Idle] /\ setup' = Idle
  /\ UNCHANGED <<api, members, changes>>

Next ==
  \/ \E x \in Object : ApplySpec(x) \/ DeleteObject(x)
  \/ \E x \in Object : ObjectArrives(x) \/ Reconcile(x) \/ ReconcileDeleted(x)
  \/ \E m \in Member : ChangeMembers(m)
  \/ MembersArrive \/ Resync
  \/ GetMembers \/ \E k \in Kind : UpdateStatus(k)
  \/ (\E g \in Group : SetupReads(g)) \/ SetupWrites
  \/ Restart

Spec == Init /\ [][Next]_vars

(* Workers go on, events arrive, and the queue is served in turn.           *)
FairSpec ==
  /\ Spec
  /\ WF_vars(GetMembers) /\ \A k \in Kind : WF_vars(UpdateStatus(k))
  /\ \A x \in Object : SF_vars(Reconcile(x)) /\ SF_vars(ReconcileDeleted(x)) /\ WF_vars(ObjectArrives(x))
  /\ WF_vars(MembersArrive)

--------------------------------------------------------------------------------
(* Properties.                                                              *)

Verdict(x, spec, status) ==
  CASE x \in Policy -> status.phase = "Ready" <=> spec # ""
    [] x \in Collaboration -> status.phase = "Ready" =>
         status.count >= Cardinality({i \in DOMAIN spec : spec[i] \in Member})
    [] OTHER -> status.phase = "Ready" => status.count >= Cardinality(DirectMembers(spec))

(* A verdict is about the spec it names: what is Ready with the current     *)
(* configuration version is not what only an earlier spec made Ready, and   *)
(* a Policy is not Invalid for the effect it lacked before.                 *)
Judged(x, obj) == obj.status.applied = obj.gen => Verdict(x, obj.spec, obj.status)
VerdictsAreOfTheirVersion == \A x \in DOMAIN api : Judged(x, api[x])

(* Why: a worker that holds the version the API server has judges its spec. *)
JudgesIt(x, w, spec) ==
  /\ w.step = "update" => Verdict(x, spec, w.status)
  /\ w.step = "members" => w.spec = spec /\ w.count >= Cardinality(DirectMembers(spec))

VerdictsInv ==
  /\ VerdictsAreOfTheirVersion
  /\ \A k \in Kind, x \in Object : k \in latest[x] => JudgesIt(x, work[k], api[x].spec)

(* Four writers of whole statuses undo nothing of each other: no status     *)
(* goes back to an earlier configuration version, and the Matrix user of a  *)
(* Group, by which it is mentioned, is not lost again.                      *)
NothingIsUndone ==
  [][\A x \in DOMAIN api \intersect DOMAIN api' :
       /\ api'[x].status.applied >= api[x].status.applied
       /\ api[x].status.mxid => api'[x].status.mxid]_vars

(* Why: what is kept is kept of every object, whose status is never ahead   *)
(* of its spec;                                                             *)
Recorded(obj) ==
  /\ {"spec", "gen", "status"} \subseteq DOMAIN obj
  /\ {"applied", "mxid"} \subseteq DOMAIN obj.status
  /\ obj.gen \in Nat /\ obj.status.applied \in Nat /\ obj.status.mxid \in BOOLEAN
  /\ obj.status.applied <= obj.gen

ObjectsAreRecorded ==
  /\ DOMAIN api \subseteq Object /\ DOMAIN cache \subseteq Object
  /\ \A x \in DOMAIN api : Recorded(api[x])
  /\ \A x \in DOMAIN cache : Recorded(cache[x])
  /\ latest \in [Object -> SUBSET Holder]
  /\ work = [k \in Kind |-> work[k]]

(* and who holds the version the API server has computed from that one.     *)
CachesHoldIt ==
  \A x \in Object : "cache" \in latest[x] =>
    /\ x \in DOMAIN api <=> x \in DOMAIN cache
    /\ x \in DOMAIN api => cache[x] = api[x]

ReconcilersHoldIt ==
  \A k \in Kind, x \in Object : k \in latest[x] =>
    /\ x \in DOMAIN api
    /\ work[k].step \in {"members", "update"}
    /\ work[k].name = x
    /\ {"applied", "mxid"} \subseteq DOMAIN work[k].status
    /\ work[k].status.applied = api[x].gen
    /\ work[k].status.mxid \in BOOLEAN
    /\ api[x].status.mxid => work[k].status.mxid

SetupHoldsIt ==
  \A x \in Object : "setup" \in latest[x] =>
    /\ x \in DOMAIN api
    /\ setup # Idle
    /\ setup.name = x
    /\ setup.status = [api[x].status EXCEPT !.mxid = TRUE]

StatusInv == ObjectsAreRecorded /\ CachesHoldIt /\ ReconcilersHoldIt /\ SetupHoldsIt

(* The last spec of every object is reconciled, although events may come    *)
(* while its worker is busy with an older copy, updates are refused or fail *)
(* and the controller restarts: no wake-up is lost.                         *)
LastSpecIsApplied == <>[]\A x \in DOMAIN api : api[x].status.applied = api[x].gen

(* Why it can: an object whose status is behind its spec has an event on    *)
(* its way, is queued, or is in its worker's hands, who writes the status   *)
(* or queues it again.                                                      *)
Attended(x) ==
  \/ "cache" \notin latest[x]
  \/ x \in queue
  \/ work[KindOf(x)] # Idle /\ work[KindOf(x)].name = x
NoWakeUpIsLost == \A x \in DOMAIN api : api[x].status.applied = api[x].gen \/ Attended(x)

(* What every status would say now.                                         *)
Settled ==
  LET groups == GroupsIn(api) IN
  /\ \A g \in DOMAIN groups :
       IF Expands(groups, g) /\ DirectMembers(groups[g]) \subseteq members
       THEN api[g].status.phase = "Ready" /\ api[g].status.count = Cardinality(Names(ExpandGroup(groups, g)))
       ELSE api[g].status.phase = "Invalid"
  /\ \A c \in DOMAIN api \intersect Collaboration :
       LET all == ~Unresolved(groups, api[c].spec)
           heads == Headcount(groups, api[c].spec) IN
       api[c].status.phase = IF all /\ heads >= 2 THEN "Ready" ELSE "Invalid"

(* As long as the informers resync, the statuses also follow the Members    *)
(* and Groups they were computed from, which nobody watches for them.       *)
StatusesSettle == WF_vars(Resync) => <>[]Settled
================================================================================
