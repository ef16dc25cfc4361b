# A TLA+ model of AgentOrgs

AgentOrgs is a Kubernetes controller (Go, `src/agentorgs-controller`) for organizations
of human and AI members, with the containers the AI members live in (`src/agent`).
Members, Groups, Policies and Collaborations are custom resources; a Collaboration runs
in a Matrix room; runs, events and workspaces are objects in a MinIO bucket.

This directory holds TLA+ modules translated from that source, TLC configurations that
check them on small instances, and TLAPS proofs of their main properties for every
instance. `PROJECT.json` maps every definition to the lines it models, and names the
run, the mutant and the hazard of every property.

Paths below are relative to `src/agentorgs-controller/` unless they start with `agent/`
or `docs/`.

## 1. Inventory

| Component | State it keeps | Operations | Module |
|---|---|---|---|
| Collaboration engine `internal/collaboration` | none of its own; runs and the event ledger in the bucket | `StartCollaboration`, `ReceiveMessage` -> `processMessage` -> `dispatch` | `CollaborationEngine`, `RunLifecycle` |
| Resolver `internal/organization/resolver.go`, evaluator `internal/policy` | none | `ExpandGroup`, `ResolveTargets`, `Check` | `Organization`, `OrganizationAdmin` |
| Mention index `internal/organization/mention_index.go`, intent parser `providers/collaboration/matrix/dispatch_intent_parse.go` | none | Matrix id -> Member or Group; mentions and excludes of a text | partly, in `MatrixRoom` |
| Matrix inbound `providers/collaboration/matrix/appservice_handler.go`, `provider.go` | `seen` (memory), the subscription | `HandleTransactions`, `emit`, `handleMentionMessage` | `MatrixInbound`, `MatrixRoom` |
| Matrix outbound `provider.go`, `client.go` | `txnSeq` (memory) | `Deliver` -> `SendMessageWithMentions`; the calls of setup | `CollaborationEngine` (`Dispatch`), `MatrixRoom`, `MatrixSetup` |
| Matrix setup `setup.go`, `setup_invite.go` | accounts, rooms, Secrets, ConfigMaps, statuses | `EnsureReady` every 20 s | `MatrixSetup`; its part for a Member in `MemberLifecycle`, for a Group's status in `OrganizationStatus` |
| Member reconciler `internal/controller/reconcilers.go:46-159` | Member status and finalizer | `Reconcile`, `finalize` | `MemberLifecycle` |
| Group, Collaboration, Policy reconcilers `reconcilers.go:220-360` | their statuses | `Reconcile` | `OrganizationStatus` |
| Execution backend `providers/execution/kubernetes` | the Pods | `Apply`, `Delete` | `MemberLifecycle`, `Workspace` |
| Object store `providers/storage/minio` | bucket objects | `EnsureMemberWorkspace`, `WriteRun`, `ReadRun`, `WriteEvent`, ... | `Workspace`, `CollaborationEngine`, `MemberLifecycle` |
| Runtime adapters `providers/runtime/{openclaw,hermes}` | configuration files in the workspace | `Apply` | partly, in `Workspace` and `MemberLifecycle` |
| HTTP API `internal/server` | none | start, post event, read run, member ready | partly, in `CollaborationEngine` and `MemberLifecycle` |
| Wiring `internal/app` | goroutines: manager, HTTP server, subscription, 20 s ticker | `New`, `Start` | partly, in `MatrixInbound`, `MatrixRoom` and `MemberLifecycle` |
| Containers `agent/*/scripts/entrypoint.sh` | local workspace | pull, check, push every 10 s, report ready 24 times | partly, in `Workspace` and `MemberLifecycle` |
| Hermes overlay and worker `agent/hermes/src` | history buffer per room, synced files | reply policy, history, sync | partly, in `HermesHistory` |
| `cmd/ago`, CRDs, chart, samples, packs, tests | - | one HTTP request per command; declarative | not modelled |

### How they interact

```
 user --HTTP--> server --\                               /--> MinIO (runs, events)
                          >-- CollaborationEngine ------<
 room --push--> appservice handler -- emit -/            \--> Matrix provider --> room
                    ^   mention index, resolver                      |
                    |                                                v
                 homeserver <------------- replies ------------- member containers
                                                                     ^
 kubectl --> API server <-- reconcilers, Matrix setup, "ready" ------/
                              |-> workspace in MinIO, Pods
```

* **Calls.** The HTTP server and the Matrix handler call the engine from one goroutine per
  request. The engine reads policies, groups and members from the informer cache
  (`reader.go`), reads and writes the bucket, and calls the provider's `Deliver`.
* **Shared state.** The run object (read, changed and written back without a lock, a version
  or a compare-and-swap); the Member object (reconciler, Matrix setup and the ready handler
  all write it; the API server refuses an update made from an old version); the workspace.
* **Callbacks.** `Provider.Subscribe` is called by a goroutine of `app.New`
  (`internal/app/app.go:108-120`) while the HTTP server already takes transactions.

### What is hard here, and what makes each component correct

* *Engine.* Requests of one run interleave at every store call; the copy that decides is
  older than the object it overwrites; the cluster changes between the check and the wake-up;
  a failure or a restart leaves what was written; clients may choose event ids, and a post may be
  taken for a repetition. Correct: nobody is woken whom the policies did not
  allow, nothing is posted that is not on record, a success means that all were woken, a run keeps its
  identity, a finished run stays finished, rounds stop at their limit.
* *Organization.* Any object may be missing, and Groups may be nested in any way. Correct:
  expansion is membership, deny wins, edits have the effect an administrator expects and no other.
* *Matrix inbound.* The homeserver repeats a transaction until it is answered, next to
  the goroutine of the attempt it gave up on; the controller restarts. Correct: one start per
  message, nothing vanishes, nothing blocks the room.
* *Matrix setup.* Every call of a pass may fail or lose its answer, the id of the room is kept in
  an object users edit and read from a cache, and nothing is retried but by the next pass.
  Correct: one room per Collaboration, and every participant gets into it.
* *Members.* Three writers of one object, two caches, retries, crashes, and a Member deleted
  and created again under its name. Correct: no Pod a deletion can miss, no Pod before its setup, a
  running Pod's Member becomes Ready, a deleted Member goes away.
* *Statuses.* Several reconcilers and the Matrix setup write whole statuses from old copies, and
  nobody watches the objects a status is computed from. Correct: a verdict is about the
  version it names, no writer takes back what another wrote, the last spec is reconciled.
* *Workspace.* The controller and the container write the same objects and compare no versions.
  Correct: what an agent learned and edited is not lost, and it does not run without its channel.
  Where a look at a file fails the code is not correct in this sense (section 4).
* *The room.* Mentions, excludes, Groups, denied members, accounts that come later, and the
  controller's own messages, which come back to it. Correct: exactly those are woken
  whom the message is for, as long as nothing fails.
* *Hermes history.* A task per message, which gives way while it waits. Correct: a message is context
  once, and only of permitted senders.

`PROJECT.json`, "hazards", has the whole list with its lines, including those no property covers yet.

## 2. The modules

### `Organization`, `OrganizationAdmin` (run `organization`)

`Organization` has the resolver and the evaluator as operators. `Expansion` is `expandGroup`
with its `visited` map threaded through the walk, since Go passes the map by reference
and nothing removes a name from it. It is a recursive *function* from the Group and what was visited
before to the result, and the loops over a list (`AddItems`, `AddUnseen`) are recursive
functions of the position, so that theorems can be proved about what they compute. `Resolves`/`Resolved` are `ResolveTargets` for one target, for each of the four
strategies; `Check` is `Evaluator.Check` (deny wins, no match is a deny, an unknown effect is
skipped, a Group that does not expand matches nobody). Groups and Policies are data;
a name stands for kind and name; names that Go compares with `EqualFold` are their folded form.

`OrganizationAdmin` adds the only actors there are: applying and deleting Groups and Policies
in any order. Its properties compare the operators with what they mean:

* `SoundNestsExpand`, `ExpansionIsMembership`: the walk finds every missing Group and every cycle, it
  succeeds on every complete tree of Groups, where a tree is defined by least sets and not by a walk, and
  returns each Member once. Between a tree and a cycle lies the diamond, a Group in two places of one nest:
  the code refuses it and the documents do not (section 4), so the property leaves it open.
  `TreesExpand`, a theorem and no run's property, says what the code does.
* `GroupGrantsReachMembers`: `StartCollaboration` checks the Group first and every Member
  afterwards; the second check drops only Members some Deny is about.
* `PolicyEditsAreMonotone`: an added Deny or a removed Allow never opens anything.
* `GroupEditsAreLocal`: an edit of Groups, even one that breaks a nest, changes rights only for
  Members that enter or leave a Group.

Bounds: two Members, three Groups, five bodies a Group may have (itself, a Group in two places,
a Group inside a Group, a missing Group, duplicates with another role), three Policies. Three
Groups are the smallest nest with a diamond, and with a cycle that does not contain the root.

### `CollaborationEngine`, `RunLifecycle` (runs `engine_concurrent`, `engine_serial`, `engine_overlap`)

One request is one goroutine and one value of `pc`; a step ends at each call that leaves the
process:

| action | code (`engine.go`) |
|---|---|
| `StartCollaboration` / `RefuseStart` | 34-115: lists, policies, resolve, intent, filter |
| `WriteRun` | 116-122 |
| `ReceiveMessage` / `RefuseMessage` | 143-166: `ReadRun`, status check, lists |
| `WriteEvent` | 173-187, `store.go:63-65`: `PutObject`, which overwrites |
| `NextRound`, `RoundsExhausted`, `ProcessResult`, `ProcessCancel`, `ProcessError`, `RefuseEvent` | 188-228 |
| `Dispatch` / `RefuseDispatch` | 231-262: `GetMember` of each target, `Deliver` |
| `DispatchRepeated` | `client.go:227`: the homeserver takes the transaction id for one of an earlier process, answers 200 and posts nothing |
| `Answer` | 139, 167-171: the second `ReadRun`, and the answer |
| `Fail` | any call fails, the second `ReadRun` too |
| `Restart` | `app.go:126-151`: requests in flight end where they are, `txnSeq` begins again |
| `ChangeCluster` | the environment |

`work[r]` holds the locals: the request's copy of the run, and the lists. `ledger` holds the event objects
by run and id, with their contents, so that an event posted under an id already used replaces the earlier
one. `repeats` says that a process which has posted has been followed by another, since when the homeserver
may take a post for a repetition; which one it takes is `MatrixRoom`'s subject. The cluster is one
of a finite set of configurations, whose grants and expansions `MCEngine` computes with
`Organization`. `Serial = TRUE` lets a request begin only when none is in flight; it separates what the engine
gets wrong by itself from what overlapping requests do to it.

* `engine_concurrent` (every interleaving, cluster changes, failures, lost answers, restarts).
  `WakesAreRecorded`: a wake-up has an event in the ledger under its id. It is the event behind the wake-up or,
  where another request was posted with the same id, that request's: then the store has lost the
  first, and the property does not claim otherwise. `AnsweredWakesArePosted`: a request
  answered with success has posted, and mentioned every member of the run that is an Agent in all
  configurations, unless a restart followed an earlier post (`repeats`). `WakesAreAuthorised`,
  `RunIdentityIsFixed`.
* `engine_serial`: `TerminalIsFinal`, `RoundsBoundWakes`, and `ImplementsLifecycle`, the
  refinement of `RunLifecycle` (a run opens, advances, wakes once per round, ends once).
* `engine_overlap` refutes `TerminalIsFinal` without `Serial`.

Bounds: three requests are a start, and two that overlap on its run; a fourth adds a longer history
of the same pairs, since steps of two requests meet only through `runs`, `ledger` and `room`.
`engine_concurrent` has both kinds of start (a Group; a role of it with an excluded Member), four events
(a message and a request with generated ids, and a message and a failed result that share a chosen one; what
a cancel or an error does to a run, a result does) and two organizations (one denies a Member and has limit 1, in the
other that Member has no account yet and the limit is the default, out of reach); its 688,592 states
have overwritten events of wake-ups, successes of posts that were taken for repetitions, and errors
answered after a post. `engine_serial` has seven events, of every kind (a run fails there by an error
and by exhausted rounds), the second organization with a Member missing altogether,
and a third organization, where everything is allowed and the limit is 2, and one kind
of start, as the targets do not matter to a run's life. Requests are symmetric.
There is no liveness: a request is a straight line.

### `MatrixInbound` (run `inbound`)

`Log` is the homeserver's fixed list of transactions, `next` the first unanswered one. A
handler is one goroutine; `GiveUp` is the homeserver's time-out, after which the goroutine goes on
and another attempt starts beside it. `MarkSeen` is atomic because `alreadySeen` holds the lock.
`DropMessage` gathers all the errors that are only logged. `Restart` empties `seen`, forgets the
goroutines and the subscription.

* `OneStartPerBoot`, `AcknowledgedIsAccountedFor`, `AcknowledgedStaysHandled`, and
  the liveness property `EverythingIsAcknowledged`.

Bounds: two transactions of two messages (one of them mentions nobody), three goroutines, two
time-outs, one restart. Two time-outs give three overlapping attempts of one
transaction. Fairness: a goroutine of the Go scheduler runs to its end (`WF` of `Handle(h)`),
and the homeserver keeps sending (`WF` of `Send`), as the appservice protocol demands.
Restarts and time-outs are not fair, and bounded.

### `MatrixRoom` (run `room`)

Composes the parts: a Member's message, from its mentions to the wake-up that the operator posts
in the same room, and to the agents' answers, which are pushed to the controller like any
message. What other modules detail is short here: the transactions and the seen set are `waiting`, a run
is a step that may fail, expansion and policies are `Organization`'s operators over a fixed organization.

| action | code |
|---|---|
| `Say`, `Reply` | the room; an agent acts on what mentions it (`requireMention`) |
| `AccountRecorded` | the setup writes `status.matrixUserId` |
| `Start` / `Refuse` | `appservice_handler.go:110-190`, `mention_index.go`, `dispatch_intent_parse.go`, `engine.go:34-122` |
| `Dispatch` / `RefuseDispatch` | `engine.go:231-262` |
| `Number` | `client.go:227`, `txnSeq.Add(1)` |
| `Send` / `SendRepeated` | the request, and the homeserver's memory of transaction ids |
| `Fail`, `Restart` | any call; the process |

* `WakesAreAskedFor`: whoever the operator wakes was mentioned by a Member (directly or by a Group),
  was not excluded, and may be started by that Member; the operator never answers itself.
* `DropsNeedARestart`: the ids of one process differ although goroutines number and send separately. The
  homeserver takes a wake-up for a repetition only after a restart, and with a fixed token.
* `AsksAreAnswered`: a lawful message wakes somebody in the end, also when others in its Group are
  excluded or denied, unless a fault, a restart, a missing account or a repeated id met it.
  These cases are the history variable `excused`.

Bounds: two goroutines, two human messages and one answer of an agent, two starts of the process
with the fixed token (the only setting in which ids can repeat), one fault, one Member whose account
comes late, four texts (a Group; a Group and a Member who is then excluded; an agent the
sender may not start; a text that mentions the operator). Fairness: `WF` of `Handle(h)`: a goroutine that has
a message goes on, and the homeserver pushes what waits.

Left out: the characters of a text; localparts that several users share and equal user ids.

### `MatrixSetup` (run `setup`)

The room of one Collaboration. `participants` are the users `collaborationInviteUserIDs` computes
from the lists (Members, Groups and the Members of Groups); the homeserver is what is
behind the alias, and who is invited to and has joined each room; the ConfigMap that holds the room's
id is `recorded` in the API server and `cached` in the controller. `pass` is the one goroutine:

| action | code (`setup.go`) |
|---|---|
| `Begin` | 34-59: homeserver, lists |
| `EnsureAccount` | 63-98, one account |
| `OperatorToken` | 100-103 |
| `ReadRoom` | 117-120, an error reads as no id |
| `CreateRoom` | 121-127: create, or resolve the alias (`client.go:148-190`) |
| `RecordRoom` | 129-134, an error is only logged |
| `Invite`, `Join` | 143-159, errors are only logged |
| `EditParticipants`, `ResetConfigMap`, `ConfigMapArrives`, `Restart` | the environment |

* `OneRoom`, and under fairness `ParticipantsGetIn`: who remains a participant gets
  into the recorded room, which rests on the alias being resolved when it is in use.

Bounds: two users, two faults (so that the creation and the retry may both fail), one reset, and
room for a second room, which only a mutant makes. Participants are edited without limit.
Fairness: the ticker's goroutine goes on (`WF` of `PassStep`,
`internal/app/app.go:126-144`) and the informer delivers (`WF` of `ConfigMapArrives`). Faults
are bounded, so that liveness speaks of a homeserver that recovers.

Left out: several Collaborations (they meet only in accounts, which are ensured before), the
registration of the push, Secrets and statuses (for Members in `MemberLifecycle`, for Groups in
`OrganizationStatus`), and leaving: nothing in the code takes a user out of a room.

### `MemberLifecycle` (run `member`)

One Agent Member with a Matrix channel. `versions` is the sequence of its versions from the
informer's copy (first) to the API server's (last), so that a stale cache of any age is a state of the
model; `pods` does the same for its Pod. The reconciler's worker takes one step per call:
`AddFinalizer`, `Stat`, `Seed` (file by file), `ApplyRuntime`, `ApplyExecution`, `WriteStatus`,
`DeletePod`, `RemoveFinalizer`. An update whose base is not the current version is `Refused` and
retried. `SetupMatrix` is what the 20 s loop does for this Member; `Report` is
`handleMemberReady`, which patches by name without a version; `ContainerCrashes`,
`PodIsEvicted` and `ControllerRestarts` are the cluster.

* `PodsNeedTheFinalizer`, `StatusWritersDoNotUndo`, `PodsWaitForTheirSetup`, and
  under fairness `RunningPodsGetReady`, `DeletionCompletes`.

Bounds: two births under one name; one fault (a failed call, a crash, an eviction or a
restart); two attempts to report instead of 24. The fault bound does not count what costs nothing in the
model: conflicts, stale caches, terminating Pods and resyncs happen without limit. One fault is
the most the liveness check can afford; it is what every retry needs once.

Two versions are identified when their fields are equal. This is sound for the
conflict check because fields other than `phase` never return to an old value within
one life of the Member, and `phase` is written by the one worker, whose own base it is.

Fairness: informers deliver (`MemberArrives`, `PodArrives`), the work queue runs its worker
(`WorkerStep`), the ticker runs (`SetupMatrix`), the container goes on (`Pull`, `Reports`), a grace
period ends (`PodEnds`). Nothing is assumed of users, faults or `Resync`: liveness holds without a
resync. `RunningPodsGetReady` speaks of a Pod that belongs to the present Member and did not give up: a
Pod left over by an earlier Member of that name may be taken over after it reported
(`backend.go:30-36` takes any Pod of that name), and then the new Member waits for ever.

Left out: contents of files and the push loop (those are `Workspace`), humans and
wrongly configured Members (one status write each), image and environment of the Pod.

### `Workspace` (runs `workspace`, `workspace_start`)

The contents of one Member's workspace, and its two writers: the reconciler, in steps from one call to the
next (`Look`, `Seed` and `SeedSkill`, `ReadRooms`, `ReadConfig`, `WriteConfig`, `Execute`), and the container
(`Pull` file by file, `StartAgent`, `Push`
file by file), with the agent that edits, removes and remembers in between. Four files stand for
those that behave alike: `SOUL.md`, a skill, `openclaw.json`, the memory. A memory is a number that
grows, the configuration is its kind and the version of the rooms in it: what else an agent may write into
its `openclaw.json`, and lose to a merge with an older copy, is not modelled. The rooms of a `WriteConfig` are
those of the last `ReadRooms`, and pushes may come between its read and its write.

* `MemoryIsKept`: no container, however late in its grace period, pushes a memory older than the
  bucket's; `WorkIsPushed`: an agent that goes on running has its memory in the bucket in the end.
* `EditsSurvive`: neither a reconcile nor an earlier container's copy puts the template back over an edited file.
  `blind` has the files a look failed to see although they were there: `soul` for the `StatObject` of `SOUL.md`,
  `skill` for the `GetWorkspaceFile` of a `SKILL.md`. The code takes both for absence (`store.go:93`, `103`), and
  then the template does overwrite the edit: the property speaks of the files that are not in `blind`.
* `OnlyReseedingCutsAChannel`: an agent runs without its Matrix channel only if `soul` is in `blind`. A
  failed `StatObject` has the template `openclaw.json`, whose channel is off, put over the configured one (`store.go:93-98`);
  a container that starts before the next `WriteConfig`, or after an older one has pushed the template
  back, runs on it. The model has these behaviours. The property says that nothing
  else does this: no other failure of seeding, reading or writing, no failed look at a skill, no crash, no push.
* `workspace_start` refutes `StartsAreConfigured` (`rooms.go:18-20`): the push loop writes its old
  `openclaw.json` over the newer one, and the next container starts with it.

Bounds: one change of rooms, two memories, two faults (a crash that meets an earlier failure).
Fairness: the worker, the entrypoint (`Pull(f)`, `StartAgent`), the push loop for each file, the end of a
grace period and the informer. Nothing is assumed of the agent.

### `OrganizationStatus` (run `organization_status`)

The statuses of Groups, Collaborations and Policies. Each kind has one worker, its work queue and the
informers' cache; Matrix setup writes the status of Groups next to them. `latest[x]` is the set of those
who hold the API server's version of `x`, which is all the API server's conflict check tells
apart, so versions need no numbers. `Reconcile` is a reconcile up to the read of other
objects, `GetMembers` the look-ups of a Group's Members, `UpdateStatus` the update: written,
refused for its version, failed, or written with the answer lost, and in the last three cases queued again.

* `VerdictsAreOfTheirVersion`, `NothingIsUndone`: a status is consistent with the generation it
  names, generations do not go back, and the Matrix user of a Group is not lost.
* `LastSpecIsApplied`: no wake-up of an object is lost.
* `StatusesSettle`: statuses also follow the objects they were computed from, *if* the informers
  resync (`WF(Resync)` in the property, not in the specification). Nobody watches for it (`reconcilers.go:362`).

Bounds: one object of each kind and one Member; two changes of the user in any order, which are enough to
create and edit, create and delete, or make one object depend on another; one fault. Fairness: workers
and events go on, and a queue serves its objects in turn (`SF` of `Reconcile(x)`).

### `HermesHistory` (run `hermes_history`)

One group room of a Hermes agent: its history buffer, and a task per message that gives way at the awaits
of `_resolve_message_context`. `ContextIsUsedOnce`: a message goes to one mention at most and comes from
a permitted sender. `BufferIsTheNewest`: the buffer is the end of what was recorded since the last
mention, command or restart. That events are tasks of one loop is an assumption about the Matrix client
of hermes-agent, which is not in the repository. Direct messages return before the buffer.

Bounds: a limit of two, four messages (more than the limit, and a mention), one restart. Safety only.

## 3. What is proved

The proofs need only the `ASSUME`s of the modules, and hold for every number of requests, members,
configurations, goroutines, messages, restarts and time-outs.

* `CollaborationEngineProofs`: `TypeInvariant`, and `EngineInvariant`: the inductive invariant
  `EngineInv`. The three stated wake-up properties are not inductive: whether `Dispatch` keeps
  `WakesAreAuthorised` depends on what the copy in flight is. So `EngineInv` says that a run
  exists only past its request's `WriteRun` and is startable in the cluster its request
  read (`RunsAreStarted`, `NewRunsAreStartable`), a copy in flight has the identity of
  the stored run however stale it is (`CopiesKeepIdentity`), the event is in the ledger before anything acts
  on it (`EventsAreRecordedFirst`), what is dispatched was allowed (`DispatchesAreAllowed`),
  the room's contents are covered by the ledger and the runs (`RoomIsAccountedFor`), what is under a key was
  put there by a request that writes that key (`LedgerIsWritten`), and who is about to be told of a success
  has posted, or a restart has followed a post (`AnswersAreTrue`, `RepeatsNeedAPost`). One
  lemma per group of actions; `RecordedWakes`, `AuthorisedWakes`, `PostedWakes`,
  `FixedIdentity` follow, and `UnnamedEvents` (`UnnamedEventsStay`): the event of a wake-up is in the ledger
  itself unless another request of the run was posted with its id.
  Under `Serial` more holds. `SerialInv` is `EngineInv` with: one request is in flight
  (`OneInFlight`), its copy *is* the stored run (`CopiesAreCurrent`), and the round it is at
  has woken nobody (`RoundsAreSpent`). From it: `FinalRuns` (`TerminalIsFinal`), `BoundedRounds`
  (`RoundsBoundWakes`) and `Implementation`, the refinement of `RunLifecycle`: the initial states are
  its initial states, and every action is one of its steps or a stutter.
* `OrganizationProofs`, in three parts.
  *What a Group expands to.* `ExpandsSoundNests` (`SoundNestsExpand`), `ExpandsTrees` (`TreesExpand`, what is
  accepted exactly), `ExpandsMembers`
  (`ExpansionIsMembership`), `LocalGroupEdits` (`GroupEditsAreLocal`), for every finite set of
  Groups nested in any way. They need induction over data, which is done with sets: a set of numbers that
  contains 0 and every successor is all of them, as its complement has no least element
  (`InductionOnNat`, from the well-foundedness of the numbers). From it come the equations of the two
  loops (`AddUnseenRecursion`, `AddItemsRecursion`), and, over how many Groups of the organization are not
  visited yet, that the walk has a value at all (`ExpansionExists`). What the walk returns
  (`WalkFinds`) is again by induction over what is not visited, with an inner one over the list (`LoopStep`):
  a walk that began with `visited` and succeeds has added exactly the Groups below its root, none of
  which was visited, they are a complete tree, and its list has the Members below, each once;
  and on a complete tree that meets nothing visited it does succeed. The lemmas on `Below`,
  `TreeSeparates` (two branches of a tree share nothing) and `TreeMade` (branches that share nothing
  make a tree) say what a tree is, apart from any walk.
  *Policies.* `MonotonePolicyEdits` and `GroupGrants`, from how `Check` is built, over any expansion.
  *Statuses.* `StatusTypeInvariant` (`TypeOK`); `WritersUndoNothing` (`NothingIsUndone`), by
  `StatusInv`: a cache that holds the API server's version is equal to it (`CachesHoldIt`), and what a
  worker or Matrix setup is about to write was computed from that version if it still holds it
  (`ReconcilersHoldIt`, `SetupHoldsIt`); and `VerdictsHold` (`VerdictsAreOfTheirVersion`), by `VerdictsInv`:
  a worker that holds the API server's version judges that version's spec (`JudgesIt`). For this, an expansion
  has at least the Members its Group lists itself (`ExpansionCounts`, from the first part), and a head
  count is at least the Members among the participants (`HeadcountCounts`).
  `WakeUpsKept` (`NoWakeUpIsLost`) is the safety half of `LastSpecIsApplied`: an object whose status
  is behind its spec has an event on its way, is queued, or is in its worker's hands.
* `MatrixInboundProofs`: `TypeInvariant`; `AtMostOncePerBoot`, by `InboundInv`: what was
  started in this boot, or is in hand, is seen; what is in hand has not been started and
  is in one goroutine's hands only; and `AcknowledgedAccounted`, by `AccountInv`: a goroutine
  past a message leaves it started, dropped or in the hands of another attempt. `HandledStays`
  (`AcknowledgedStaysHandled`), by `SeenInv`: what a goroutine has passed is seen, and so is
  everything in its transaction once that is acknowledged. Its hypothesis `EventsAreSentOnce` is about the homeserver: an event is in one
  transaction only. Without it the property is false, since `seen` does not
  survive a restart; `MCInbound` assumes the same of its log. The other theorems do not need it.
* `MatrixRoomProofs`: `TypeInvariant`; `AskedWakes`, by `RoomInv`: what a goroutine has in hand
  is for the members it is about to wake; `DropsAreOfRestarts`, by `IdInv`: the ids of this process
  that are in hand or remembered are at most `txnSeq`, and differ. `AsksKept` (`NoAskIsLost`), the safety
  half of `AsksAreAnswered`: a lawful message waits, is in a goroutine's hands, has woken somebody, or is
  excused; no path through `Handle` drops it.
* `MatrixSetupProofs`: `TypeInvariant` and `OnlyRoom`, by `SetupInv`. That a pass creates no second
  room is not inductive by itself: it needs that a room exists only behind the alias
  (`AliasIsTheRoom`), and that every id which is recorded, cached or in a pass's hands is the
  alias's (`IdsAreTheAlias`), however old the cache is.
* `MemberLifecycleProofs`: `TypeInvariant`, `MemberInvariant` and `FinalizerComesFirst`
  (`PodsNeedTheFinalizer`). A state has every version between the cache's and the API server's,
  so the invariant `MemberInv` is about their order: a version with the finalizer that is not
  being deleted is followed by versions of the same Member with the finalizer, and a deletion is
  never taken back (`VersionsFollow`); uids are those born so far (`VersionsAreBorn`). From the
  order it follows that what the worker read from the head of the sequence still holds at its end
  (`WorkIsLawful`): while it prepares a Pod the Member is there, and it takes the finalizer away
  only from what every version says is deleted. From the same invariant follows `WritersDoNotUndo`
  (`StatusWritersDoNotUndo`), and from `SeedingIsInOrder` (the last file is there only when all
  are, and the worker is at the Pod only when it is) `SetupComesFirst` (`PodsWaitForTheirSetup`).
  `NothingForgotten` (`NothingIsForgotten`) is the safety half of `RunningPodsGetReady` and
  `DeletionCompletes`: while a Member is to be finalized, or a reported one is not yet Ready, a version
  is on its way, or it is queued, or the worker has it; and a container that has stopped reporting has
  its report on record. It is inductive with `WorkIsOfUse` (the worker never begins with a version it has
  nothing to do for, and writes what was missing) and `ReportsStay` (uids grow along the
  versions, and no container is of a later life than the cache's version, so that "already
  reported" in an old cache cannot be another Member's report).
* `WorkspaceProofs`: `TypeInvariant`, `MemoryKept`, `EditsKept`, `ChannelKept`, by `WorkspaceInv`: a
  container that has pulled its memory has at least the bucket's (`MemoryIsPulled`), only a workspace
  without `SOUL.md` is seeded (`SeedingComesFirst`), a container has the template only of what is not
  edited in the bucket (`CopiesAreNoOlder`), and a Pod exists only when the channel is
  configured (`PodsAreConfigured`). What they say of `SOUL.md` and of the channel holds as long as no `StatObject`
  of a `SOUL.md` that is there has failed; `ChannelKept` is `OnlyReseedingCutsAChannel`.
* `HermesHistoryProofs`: `TypeInvariant`, `UsedOnce` (`ContextIsUsedOnce`), `NewestKept`
  (`BufferIsTheNewest`), for every limit, 0 included, by `HistoryInv`: a task past the policy gate is
  of a permitted sender, and one that waits for a name has no mention (`TasksAreGated`). The buffer
  is cut at each message and the property cuts once, which is the same (`CutAndCutAgain`).

Every invariant and action property of a passing run is a theorem. Only model-checked:

* liveness, which with `ENABLED` is out of the prover's reach: `EverythingIsAcknowledged`,
  `ParticipantsGetIn`, `RunningPodsGetReady`, `DeletionCompletes`, `WorkIsPushed`,
  `LastSpecIsApplied`, `StatusesSettle`, `AsksAreAnswered`. For four of them the safety half is a theorem
  (`WakeUpsKept`, `AsksKept`, `NothingForgotten`): there is always somebody who will come to what is
  left to do; that he comes rests on the fairness and stays with TLC;
* that a status, once settled, has the *right* count: `VerdictsAreOfTheirVersion` bounds it from
  below, and `StatusesSettle` states it exactly.

## 4. Runs

| run | expected | asks |
|---|---|---|
| `engine_concurrent` | pass | what survives every interleaving |
| `engine_serial` | pass | what holds one request at a time; refinement |
| `engine_overlap` | violation | a finished run is revived |
| `organization` | pass | expansion and policies against their meaning |
| `inbound` | pass | repeated, overlapping transactions; a restart |
| `room` | pass | who is woken by a message, and whether somebody is |
| `setup` | pass | one room for everybody, whatever is lost |
| `member` | pass | the life of a Member, safety and liveness |
| `organization_status` | pass | verdicts of Groups, Collaborations and Policies |
| `workspace` | pass | what an agent wrote is kept; what takes its channel |
| `workspace_start` | violation | a container starts with an overwritten configuration |
| `hermes_history` | pass | the context of a mention |

Deadlock is not checked where the system may stop: every request answered, every bound used up.
`organization`, `setup`, `workspace` and `organization_status` check it. Every property of a passing run has a mutant, an operator marked
`Mutant:` before the definition it replaces, which is a plausible bug of that code and which
TLC finds.

### Known disagreements that no run refutes

The models show, or their sources say, the following as well. A run that refutes one would
only restate the line.

* A deadline is stored and compared with nothing (`api/v1alpha1/collaboration_types.go:52`, "round and time limits").
* The engine does not read `spec.participants` (`engine.go:48`).
* A diamond of Groups, a Group in two places of a nest, is refused as a "cycle" (`resolver.go:43`), where
  `docs/design.md:38` asks for an acyclic structure. `SoundNestsExpand` leaves it open; the theorem
  `ExpandsTrees` says that exactly the trees are accepted.
* An event posted under an id that the run has used already overwrites the earlier one (`store.go:63-65`), whose
  wake-up is then without its record, where `engine.go:289` promises the "messages recorded for one collaboration
  run". `WakesAreRecorded` and `UnnamedEvents` say what is left.
* Any error of `StatObject` counts as the absence of `SOUL.md` (`store.go:93`), where `store.go:84` says "when SOUL.md is
  absent": one failed call on a workspace in use puts the templates over its edits and its
  configured `openclaw.json`, and an agent that starts then has no Matrix channel, although
  `reconcilers.go:96` has the configuration come before the Pod. `EditsSurvive` and
  `OnlyReseedingCutsAChannel` say that it takes just this. The same for a skill (`store.go:101-108`).
* After a restart a wake-up may be answered with success and never posted (`client.go:227`); `AnsweredWakesArePosted`
  promises nothing then, and `DropsNeedARestart` shows that only a restart does it.
* A request may be answered with an error although all of it took effect (`engine.go:136`, `170`).
* `seen` does not survive a restart: a message pushed again starts a second run
  (`appservice_handler.go:21`). `OneStartPerBoot` is as far as it goes.
* Seeding marks a workspace by the file it writes first (`store.go:93`): a failure after it is
  not repaired. `PodsWaitForTheirSetup` shows that no Pod starts on it.
* The ready annotation outlives its container (`reconcilers.go:128`).
* A Member that is a participant twice makes a Collaboration of "two" (`reconcilers.go:316`).
* The path of a run is cut into one part too few (`internal/server/http.go:102`).
* A Group's user id hides that of a Member with the same one (`mention_index.go:31`).

## 5. Plan

Done: the modules above, in the order organization, engine, inbound, member, setup, workspace,
statuses, room, history. Next:

1. *Proofs*: what `ResolveTargets` and `Check` answer for every organization, from the
   expansion theorems; that the engine's `MCEngine` organizations satisfy what `CollaborationEngine` assumes.
2. *Former participants*: who may be woken by a user who has left the Collaboration but not the room.
3. *Ambiguous mentions*: localparts that several accounts share, in `MatrixRoom`.
4. *HTTP routes* (`http.go:97-103`) and the Hermes worker's sync and bridge, which write files as the OpenClaw
   entrypoint does.

### Not modelled

Workspace packs (a constant table), the command line (one request per command), generated
code, CRDs, chart and samples (declarative), the end-to-end tests; texts of conditions, logs and
prompts; image and environment of Pods.
