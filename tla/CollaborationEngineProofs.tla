----------------------- MODULE CollaborationEngineProofs -----------------------
(***************************************************************************)
(* What CollaborationEngine guarantees for every set of requests, every    *)
(* configuration of the cluster and every interleaving.                    *)
(***************************************************************************)
EXTENDS CollaborationEngine, TLAPS

--------------------------------------------------------------------------------
(* A new run is well formed and holds only members its starter may Start.   *)
LEMMA NewRunIsStartable ==
  ASSUME NEW o \in Orgs, NEW req \in Starts
  PROVE  /\ NewRun(o, req) \in RunType
         /\ NewRun(o, req).startedBy = req.from
         /\ \A m \in NewRun(o, req).targets : Allows(o, req.from, m, "Start")
<1> DEFINE T == StartTargets(o, req)
<1>1. req \in StartType
  BY StartsAssumption
<1>2. Config[o] \in OrgType
  BY ConfigAssumption
<1>3. ResolveTargets(o, req) \subseteq Members
  <2>1. \A t \in req.to : Resolve(o, t, req.role) \subseteq Members
    BY <1>1, <1>2 DEF Resolve, StartType, OrgType, Targets, Overrides
  <2> QED BY <2>1 DEF ResolveTargets
<1>4. /\ T \subseteq Members
      /\ \A m \in T : Allows(o, req.from, m, "Start")
  BY <1>1, <1>3 DEF StartTargets, FilterMembersByStartPolicy, ApplyDispatchIntent, StartType
<1>5. ReplyRounds(Config[o].limit) \in Int
  BY <1>2 DEF ReplyRounds, DefaultReplyRounds, OrgType
<1> QED
  BY <1>1, <1>4, <1>5 DEF NewRun, RunType, StartType, PayloadStatus

(* The event of a start request is an event.                                *)
LEMMA StartEventIsEvent ==
  ASSUME NEW req \in Starts
  PROVE  StartEvent(req) \in EventType
BY StartsAssumption DEF StartEvent, StartType, EventType, EventTypes, PayloadStatus

--------------------------------------------------------------------------------
(* The types are kept.                                                      *)
LEMMA TypeInit == Init => TypeOK
<1> SUFFICES ASSUME Init PROVE TypeOK
  OBVIOUS
<1>1. ledger \in [Requests -> [EventKeys -> EventType \union {NoEvent}]]
  BY DEF Init
<1> QED
  BY <1>1 DEF Init, TypeOK, Steps, InFlight

(* Storing a run over the object keeps the types.                          *)
LEMMA StoreKeepsType ==
  ASSUME TypeOK, NEW r \in Requests, NEW run \in RunType, NEW next \in {"dispatch", "answer"},
         pc[r] = "process", Store(r, run, next)
  PROVE  TypeOK'
<1>1. work[r] \in WorkType
  BY DEF TypeOK, InFlight
<1>2. work'[r] \in WorkType /\ work'[r] = [work[r] EXCEPT !.run = run]
  BY <1>1 DEF Store, TypeOK, WorkType
<1>3. work' \in [Requests -> WorkType \union {NoWork}] /\ \A q \in Requests \ {r} : work'[q] = work[q]
  BY <1>2 DEF Store, TypeOK
<1>4. runs' \in [Requests -> RunType \union {NoRun}]
  BY <1>1 DEF Store, TypeOK, WorkType
<1>5. pc' \in [Requests -> Steps] /\ \A q \in Requests \ {r} : pc'[q] = pc[q]
  BY DEF Store, TypeOK, Steps, InFlight
<1> QED
  BY <1>2, <1>3, <1>4, <1>5 DEF Store, TypeOK

(* The copies that processMessage writes are runs, of the same identity.    *)
LEMMA NextRoundIsRun ==
  ASSUME NEW run \in RunType
  PROVE  LET next == [run EXCEPT !.round = @ + 1]
             last == [run EXCEPT !.round = @ + 1, !.status = "Failed"]
         IN /\ next \in RunType /\ SameIdentity(run, next)
            /\ last \in RunType /\ SameIdentity(run, last) /\ last.status = "Failed"
<1>1. run.round + 1 \in Nat /\ "Failed" \in {"Running"} \union Terminal
  BY DEF RunType, Terminal
<1>2. ASSUME NEW n \in Nat, NEW u \in {"Running"} \union Terminal
      PROVE  LET next == [run EXCEPT !.round = n]
                 last == [run EXCEPT !.round = n, !.status = u]
             IN /\ next \in RunType /\ SameIdentity(run, next)
                /\ last \in RunType /\ SameIdentity(run, last) /\ last.status = u
  BY DEF RunType, SameIdentity
<1> QED
  BY <1>1, <1>2

(* So are the copies that end a run.                                        *)
LEMMA EndedRunIsRun ==
  ASSUME NEW run \in RunType, NEW s \in PayloadStatus, NEW t \in Terminal
  PROVE  LET result == [run EXCEPT !.result = s, !.status = t]
             ended == [run EXCEPT !.status = t]
         IN /\ result \in RunType /\ SameIdentity(run, result) /\ result.status = t
            /\ ended \in RunType /\ SameIdentity(run, ended) /\ ended.status = t
BY DEF RunType, SameIdentity

(* Every step keeps the types, whichever request or environment takes it.   *)
LEMMA TypeStep == TypeOK /\ [Next]_vars => TypeOK'
<1> SUFFICES ASSUME TypeOK, [Next]_vars PROVE TypeOK'
  OBVIOUS
<1>1. ASSUME NEW r \in Requests, StartCollaboration(r) PROVE TypeOK'
  <2>1. PICK req \in Starts :
          work' = [work EXCEPT ![r] =
            [id |-> r, run |-> NewRun(org, req), event |-> StartEvent(req), org |-> org]]
    BY <1>1 DEF StartCollaboration
  <2>2. work'[r] \in WorkType
    BY <2>1, NewRunIsStartable, StartEventIsEvent DEF TypeOK, WorkType
  <2>3. /\ work' \in [Requests -> WorkType \union {NoWork}]
        /\ \A q \in Requests \ {r} : work'[q] = work[q]
    BY <2>1, <2>2 DEF TypeOK
  <2> QED
    BY <1>1, <2>2, <2>3 DEF StartCollaboration, TypeOK, Steps, InFlight
<1>2. ASSUME NEW r \in Requests, ReceiveMessage(r) PROVE TypeOK'
  <2>1. PICK i \in Requests, event \in Events :
          /\ Running(i)
          /\ work' = [work EXCEPT ![r] =
               [id |-> i, run |-> runs[i], event |-> event, org |-> org]]
    BY <1>2 DEF ReceiveMessage
  <2>2. work'[r] \in WorkType
    BY <2>1, EventsAssumption DEF TypeOK, WorkType, Running
  <2>3. /\ work' \in [Requests -> WorkType \union {NoWork}]
        /\ \A q \in Requests \ {r} : work'[q] = work[q]
    BY <2>1, <2>2 DEF TypeOK
  <2> QED
    BY <1>2, <2>2, <2>3 DEF ReceiveMessage, TypeOK, Steps, InFlight
<1>3. ASSUME NEW r \in Requests,
             RefuseStart(r) \/ RefuseMessage(r) \/ RefuseEvent(r) \/ RefuseDispatch(r) \/ Fail(r)
      PROVE TypeOK'
  BY <1>3 DEF RefuseStart, RefuseMessage, RefuseEvent, RefuseDispatch, Fail, TypeOK, Steps, InFlight
<1>4. ASSUME NEW r \in Requests, WriteRun(r) PROVE TypeOK'
  <2>1. work[r] \in WorkType
    BY <1>4 DEF WriteRun, TypeOK, InFlight
  <2> QED
    BY <1>4, <2>1 DEF WriteRun, TypeOK, Steps, InFlight, WorkType
<1>5. ASSUME NEW r \in Requests, WriteEvent(r) PROVE TypeOK'
  <2>1. work[r] \in WorkType
    BY <1>5 DEF WriteEvent, TypeOK, InFlight
  <2>2. KeyOf(r, work[r].event) \in EventKeys /\ work[r].id \in Requests /\ work[r].event \in EventType
    BY <2>1 DEF KeyOf, EventKeys, WorkType, EventType
  <2>3. ledger' \in [Requests -> [EventKeys -> EventType \union {NoEvent}]]
    BY <1>5, <2>2 DEF WriteEvent, TypeOK
  <2> QED
    BY <1>5, <2>1, <2>3 DEF WriteEvent, TypeOK, Steps, InFlight
<1>6. ASSUME NEW r \in Requests,
             \/ NextRound(r) \/ RoundsExhausted(r) \/ ProcessResult(r)
             \/ ProcessCancel(r) \/ ProcessError(r)
      PROVE TypeOK'
  <2>1. pc[r] = "process" /\ work[r] \in WorkType
    BY <1>6 DEF NextRound, RoundsExhausted, ProcessResult, ProcessCancel, ProcessError,
                TypeOK, InFlight
  <2>2. work[r].run \in RunType /\ work[r].event.status \in PayloadStatus
    BY <2>1 DEF WorkType, EventType
  <2>3. {"Failed", "Completed", "Cancelled"} \subseteq Terminal
    BY DEF Terminal
  <2> QED
    BY <1>6, <2>1, <2>2, <2>3, NextRoundIsRun, EndedRunIsRun, StoreKeepsType
    DEF NextRound, RoundsExhausted, ProcessResult, ProcessCancel, ProcessError
<1>7. ASSUME NEW r \in Requests, Dispatch(r) PROVE TypeOK'
  <2>1. work[r] \in WorkType
    BY <1>7 DEF Dispatch, TypeOK, InFlight
  <2>2. KeyOf(r, work[r].event) \in EventKeys
    BY <2>1 DEF KeyOf, EventKeys, WorkType, EventType
  <2>3. Mentions(org, work[r].run.targets) \subseteq Members
    BY <2>1 DEF Mentions, WorkType, RunType
  <2>4. room' \subseteq Delivery
    BY <1>7, <2>1, <2>2, <2>3 DEF Dispatch, TypeOK, Delivery, WorkType, RunType
  <2> QED
    BY <1>7, <2>4 DEF Dispatch, TypeOK, Steps, InFlight
<1>8. ASSUME NEW r \in Requests, DispatchRepeated(r) \/ Answer(r) PROVE TypeOK'
  BY <1>8 DEF DispatchRepeated, Answer, TypeOK, Steps, InFlight
<1>9. CASE Restart
  BY <1>9 DEF Restart, TypeOK, Steps, InFlight
<1>10. CASE ChangeCluster
  BY <1>10 DEF ChangeCluster, TypeOK
<1>11. CASE UNCHANGED vars
  BY <1>11 DEF vars, TypeOK
<1> QED
  BY <1>1, <1>2, <1>3, <1>4, <1>5, <1>6, <1>7, <1>8, <1>9, <1>10, <1>11 DEF Next, RequestStep

(* Every state of the engine is well typed; in particular a request in      *)
(* flight always holds a copy of its run.                                   *)
THEOREM TypeInvariant == Spec => []TypeOK
BY TypeInit, TypeStep, PTL DEF Spec
--------------------------------------------------------------------------------
(* The inductive invariant, one lemma per group of actions.                 *)

USE DEF EventKeys

(* The invariant holds of an empty store.                                   *)
LEMMA EngineInit == Init => EngineInv
BY TypeInit DEF Init, EngineInv, RunsAreStarted, NewRunsAreStartable, CopiesKeepIdentity,
   EventsAreRecordedFirst, DispatchesAreAllowed, IdleHoldsNothing, LedgerIsWritten,
   RoomIsAccountedFor, AnswersAreTrue, RepeatsNeedAPost, Recorded

(* A request keeps its event and its run as long as it is there.            *)
EventsStay ==
  \A q \in Requests : work[q] # NoWork =>
    work'[q] # NoWork /\ work'[q].id = work[q].id /\ work'[q].event = work[q].event

(* What is in a ledger has its writer as long as events stay.               *)
LEMMA WritersStay ==
  ASSUME EventsStay, NEW i, NEW k
  PROVE  Writers(i, k) \subseteq Writers(i, k)' /\ (UNCHANGED ledger /\ Recorded(i, k) => Recorded(i, k)')
<1>1. Writers(i, k) \subseteq Writers(i, k)'
  BY DEF EventsStay, Writers, KeyOf
<1>2. \A q \in Writers(i, k) : work'[q].event = work[q].event
  BY DEF EventsStay, Writers
<1> QED
  BY <1>1, <1>2 DEF Recorded

LEMMA LedgerStays ==
  ASSUME EngineInv, EventsStay, UNCHANGED ledger
  PROVE  LedgerIsWritten'
BY WritersStay DEF EngineInv, LedgerIsWritten

(* What was posted stays accounted for: runs keep their targets, and those  *)
(* who posted are done with their copies.                                   *)
LEMMA RoomStays ==
  ASSUME EngineInv, EventsStay, UNCHANGED room,
         \A i \in Requests, k \in EventKeys : ledger[i][k] # NoEvent => ledger'[i][k] # NoEvent,
         \A i \in Requests : runs[i] # NoRun => runs'[i] # NoRun /\ runs'[i].targets = runs[i].targets,
         \A q \in Requests : pc[q] \in {"answer", "ok", "error"} =>
           pc'[q] \in {"answer", "ok", "error"} /\ work'[q] = work[q]
  PROVE  RoomIsAccountedFor'
<1> SUFFICES ASSUME NEW d \in room
             PROVE  /\ d.by \in Writers(d.run, d.key)'
                    /\ ledger'[d.run][d.key] # NoEvent
                    /\ runs'[d.run] # NoRun
                    /\ d.mentions \subseteq runs'[d.run].targets
                    /\ pc'[d.by] \in {"answer", "ok", "error"}
                    /\ EventAllowed(work'[d.by])
  BY DEF RoomIsAccountedFor
<1>1. /\ d.by \in Writers(d.run, d.key)
      /\ ledger[d.run][d.key] # NoEvent
      /\ runs[d.run] # NoRun
      /\ d.mentions \subseteq runs[d.run].targets
      /\ pc[d.by] \in {"answer", "ok", "error"}
      /\ EventAllowed(work[d.by])
      /\ d.run \in Requests /\ d.by \in Requests /\ d.key \in EventKeys
  BY DEF EngineInv, RoomIsAccountedFor, TypeOK, Delivery
<1>2. d.by \in Writers(d.run, d.key)'
  BY <1>1, WritersStay
<1> QED
  BY <1>1, <1>2

(* What was answered stays true: nothing is taken out of the room.          *)
LEMMA AnswersStay ==
  ASSUME EngineInv, room \subseteq room', repeats => repeats',
         NEW q \in Requests, pc[q] \in {"answer", "ok"}, work'[q] = work[q],
         Dispatches(work'[q].event), work'[q].run.status = "Running"
  PROVE  Posted(q)' \/ repeats'
<1>1. Posted(q) \/ repeats
  BY DEF EngineInv, AnswersAreTrue
<1>2. Posted(q) => Posted(q)'
  BY DEF Posted
<1> QED
  BY <1>1, <1>2

(* A request that gives up or is answered changes nothing but its own step. *)
LEMMA GivingUpKeepsInv ==
  ASSUME EngineInv, TypeOK', NEW r \in Requests,
         \/ RefuseStart(r) \/ RefuseMessage(r) \/ RefuseEvent(r) \/ RefuseDispatch(r)
         \/ Answer(r) \/ Fail(r)
  PROVE  EngineInv'
<1>1. /\ pc[r] \in {"idle", "writeRun", "writeEvent", "process", "dispatch", "answer"}
      /\ UNCHANGED <<runs, ledger, room, repeats, work>>
      /\ pc[r] = "idle" => runs[r] = NoRun
  BY DEF RefuseStart, RefuseMessage, RefuseEvent, RefuseDispatch, Answer, Fail, InFlight,
         EngineInv, RunsAreStarted
<1>2. /\ pc'[r] = "error" \/ (pc[r] = "answer" /\ pc'[r] = "ok")
      /\ \A q \in Requests \ {r} : pc'[q] = pc[q]
  BY DEF RefuseStart, RefuseMessage, RefuseEvent, RefuseDispatch, Answer, Fail, EngineInv, TypeOK
<1>3. RunsAreStarted'
  BY <1>1, <1>2 DEF EngineInv, RunsAreStarted
<1>4. /\ NewRunsAreStartable'
      /\ CopiesKeepIdentity'
      /\ EventsAreRecordedFirst'
      /\ DispatchesAreAllowed'
  BY <1>1, <1>2 DEF EngineInv, NewRunsAreStartable, CopiesKeepIdentity,
                    EventsAreRecordedFirst, DispatchesAreAllowed
<1>5. EventsStay
  BY <1>1 DEF EventsStay
<1>6. LedgerIsWritten' /\ RoomIsAccountedFor'
  BY <1>1, <1>2, <1>5, LedgerStays, RoomStays
<1>7. \A q \in Requests : pc'[q] \in {"answer", "ok"} => pc[q] \in {"answer", "ok"}
  BY <1>2
<1>8. AnswersAreTrue'
  BY <1>1, <1>7, AnswersStay DEF AnswersAreTrue
<1>9. IdleHoldsNothing' /\ RepeatsNeedAPost'
  BY <1>1, <1>2 DEF EngineInv, IdleHoldsNothing, RepeatsNeedAPost
<1> QED
  BY <1>3, <1>4, <1>6, <1>8, <1>9 DEF EngineInv

(* A restart ends every request in flight where it is.                      *)
LEMMA RestartKeepsInv ==
  ASSUME EngineInv, TypeOK', Restart
  PROVE  EngineInv'
<1>1. /\ UNCHANGED <<runs, ledger, room, work>>
      /\ \A q \in Requests : pc'[q] = IF pc[q] \in InFlight THEN "error" ELSE pc[q]
      /\ repeats => repeats'
  BY DEF Restart, EngineInv, RepeatsNeedAPost
<1>2. /\ RunsAreStarted'
      /\ NewRunsAreStartable'
      /\ CopiesKeepIdentity'
      /\ EventsAreRecordedFirst'
      /\ DispatchesAreAllowed'
      /\ IdleHoldsNothing'
  BY <1>1 DEF EngineInv, RunsAreStarted, NewRunsAreStartable, CopiesKeepIdentity,
     EventsAreRecordedFirst, DispatchesAreAllowed, IdleHoldsNothing, InFlight
<1>3. EventsStay
  BY <1>1 DEF EventsStay
<1>4. LedgerIsWritten' /\ RoomIsAccountedFor'
  BY <1>1, <1>3, LedgerStays, RoomStays DEF InFlight
<1>5. \A q \in Requests : pc'[q] \in {"answer", "ok"} => pc[q] \in {"answer", "ok"}
  BY <1>1
<1>6. AnswersAreTrue'
  BY <1>1, <1>5, AnswersStay DEF AnswersAreTrue
<1>7. RepeatsNeedAPost'
  BY DEF Restart, RepeatsNeedAPost
<1> QED
  BY <1>2, <1>4, <1>6, <1>7 DEF EngineInv

(* A request that begins copies a run of the store, or a new one.           *)
LEMMA BeginningKeepsInv ==
  ASSUME EngineInv, TypeOK', NEW r \in Requests, StartCollaboration(r) \/ ReceiveMessage(r)
  PROVE  EngineInv'
<1>1. /\ pc[r] = "idle" /\ work[r] = NoWork
      /\ UNCHANGED <<runs, ledger, room, repeats>>
      /\ runs[r] = NoRun
      /\ pc'[r] \in {"writeRun", "writeEvent"}
      /\ \A q \in Requests \ {r} : pc'[q] = pc[q] /\ work'[q] = work[q]
  BY DEF StartCollaboration, ReceiveMessage, EngineInv, RunsAreStarted, IdleHoldsNothing, TypeOK
<1>2. RunsAreStarted'
  BY <1>1 DEF EngineInv, RunsAreStarted
<1>3. NewRunsAreStartable' /\ CopiesKeepIdentity'
  <2>1. CASE StartCollaboration(r)
    <3>1. PICK req \in Starts :
            /\ pc' = [pc EXCEPT ![r] = "writeRun"]
            /\ work' = [work EXCEPT ![r] =
                 [id |-> r, run |-> NewRun(org, req), event |-> StartEvent(req), org |-> org]]
      BY <2>1 DEF StartCollaboration
    <3>2. /\ pc'[r] = "writeRun"
          /\ work'[r].id = r
          /\ work'[r].run = NewRun(org, req)
          /\ work'[r].org = org
      BY <3>1 DEF EngineInv, TypeOK
    <3>3. Startable(work'[r].org, work'[r].run)
      BY <3>2, NewRunIsStartable DEF Startable, EngineInv, TypeOK
    <3> QED
      BY <1>1, <3>2, <3>3 DEF EngineInv, NewRunsAreStartable, CopiesKeepIdentity
  <2>2. CASE ReceiveMessage(r)
    <3>1. PICK i \in Requests, event \in Events :
            /\ runs[i] # NoRun
            /\ pc' = [pc EXCEPT ![r] = "writeEvent"]
            /\ work' = [work EXCEPT ![r] =
                 [id |-> i, run |-> runs[i], event |-> event, org |-> org]]
      BY <2>2 DEF ReceiveMessage, Running
    <3>2. pc'[r] = "writeEvent" /\ work'[r].id = i /\ work'[r].run = runs[i]
      BY <3>1 DEF EngineInv, TypeOK
    <3> QED
      BY <1>1, <3>1, <3>2 DEF EngineInv, NewRunsAreStartable, CopiesKeepIdentity, SameIdentity
  <2> QED
    BY <2>1, <2>2
<1>4. EventsAreRecordedFirst' /\ DispatchesAreAllowed'
  BY <1>1 DEF EngineInv, EventsAreRecordedFirst, DispatchesAreAllowed
<1>5. EventsStay
  BY <1>1 DEF EventsStay
<1>6. LedgerIsWritten' /\ RoomIsAccountedFor'
  BY <1>1, <1>5, LedgerStays, RoomStays
<1>7. AnswersAreTrue'
  BY <1>1, AnswersStay DEF AnswersAreTrue
<1>8. IdleHoldsNothing' /\ RepeatsNeedAPost'
  BY <1>1 DEF EngineInv, IdleHoldsNothing, RepeatsNeedAPost
<1> QED
  BY <1>2, <1>3, <1>4, <1>6, <1>7, <1>8 DEF EngineInv

(* The run object appears under the id of its request.                      *)
LEMMA WriteRunKeepsInv ==
  ASSUME EngineInv, TypeOK', NEW r \in Requests, WriteRun(r)
  PROVE  EngineInv'
<1>1. /\ pc[r] = "writeRun"
      /\ pc'[r] = "writeEvent"
      /\ \A q \in Requests \ {r} : pc'[q] = pc[q]
      /\ UNCHANGED <<ledger, room, repeats, work>>
      /\ work[r] \in WorkType
      /\ work[r].id = r
      /\ runs[r] = NoRun
      /\ runs'[r] = work[r].run
      /\ \A i \in Requests \ {r} : runs'[i] = runs[i]
      /\ work[r].run # NoRun
  BY NoRunAssumption
  DEF WriteRun, EngineInv, TypeOK, InFlight, RunsAreStarted, NewRunsAreStartable, WorkType
<1>2. RunsAreStarted'
  BY <1>1 DEF EngineInv, RunsAreStarted, NewRunsAreStartable
<1>3. NewRunsAreStartable'
  BY <1>1 DEF EngineInv, NewRunsAreStartable
<1>4. CopiesKeepIdentity'
  BY <1>1 DEF EngineInv, CopiesKeepIdentity, SameIdentity, TypeOK, InFlight, WorkType
<1>5. EventsAreRecordedFirst' /\ DispatchesAreAllowed'
  BY <1>1 DEF EngineInv, EventsAreRecordedFirst, DispatchesAreAllowed
<1>6. EventsStay
  BY <1>1 DEF EventsStay
<1>7. LedgerIsWritten' /\ RoomIsAccountedFor'
  BY <1>1, <1>6, LedgerStays, RoomStays
<1>8. AnswersAreTrue'
  BY <1>1, AnswersStay DEF AnswersAreTrue
<1>9. IdleHoldsNothing' /\ RepeatsNeedAPost'
  BY <1>1 DEF EngineInv, IdleHoldsNothing, RepeatsNeedAPost
<1> QED
  BY <1>2, <1>3, <1>4, <1>5, <1>7, <1>8, <1>9 DEF EngineInv

(* processMessage records the event; objects of the ledgers are replaced,   *)
(* by an event that was posted under their key, and never removed.          *)
LEMMA WriteEventKeepsInv ==
  ASSUME EngineInv, TypeOK', NEW r \in Requests, WriteEvent(r)
  PROVE  EngineInv'
<1> DEFINE id == work[r].id
           key == KeyOf(r, work[r].event)
<1>1. /\ pc[r] = "writeEvent"
      /\ pc'[r] = "process"
      /\ \A q \in Requests \ {r} : pc'[q] = pc[q]
      /\ UNCHANGED <<runs, room, repeats, work>>
      /\ work[r] \in WorkType
  BY DEF WriteEvent, EngineInv, TypeOK, InFlight
<1>2. id \in Requests /\ key \in EventKeys /\ work[r].event \in EventType
  BY <1>1 DEF KeyOf, WorkType, EventType
<1>3. /\ ledger'[id][key] = work[r].event
      /\ \A i \in Requests, k \in EventKeys : i # id \/ k # key => ledger'[i][k] = ledger[i][k]
  BY <1>2 DEF WriteEvent, EngineInv, TypeOK
<1>4. \A i \in Requests, k \in EventKeys : ledger[i][k] # NoEvent => ledger'[i][k] # NoEvent
  BY <1>2, <1>3, NoEventAssumption
<1>5. RunsAreStarted' /\ NewRunsAreStartable' /\ CopiesKeepIdentity'
  BY <1>1 DEF EngineInv, RunsAreStarted, NewRunsAreStartable, CopiesKeepIdentity
<1>6. EventsAreRecordedFirst'
  <2> SUFFICES ASSUME NEW q \in Requests, pc'[q] \in {"process", "dispatch"}
               PROVE  ledger'[work[q].id][KeyOf(q, work[q].event)] # NoEvent
    BY <1>1 DEF EventsAreRecordedFirst
  <2>1. CASE q = r
    BY <1>2, <1>3, <2>1, NoEventAssumption
  <2>2. CASE q # r
    <3>1. pc[q] \in {"process", "dispatch"} /\ work[q] \in WorkType
      BY <1>1, <2>2 DEF EngineInv, TypeOK, InFlight
    <3>2. work[q].id \in Requests /\ KeyOf(q, work[q].event) \in EventKeys
      BY <3>1 DEF KeyOf, WorkType, EventType
    <3> QED
      BY <1>4, <3>1, <3>2 DEF EngineInv, EventsAreRecordedFirst
  <2> QED
    BY <2>1, <2>2
<1>7. DispatchesAreAllowed'
  BY <1>1 DEF EngineInv, DispatchesAreAllowed
<1>8. LedgerIsWritten'
  <2> SUFFICES ASSUME NEW i \in Requests, NEW k \in EventKeys, ledger'[i][k] # NoEvent
               PROVE  ledger'[i][k] \in {work[q].event : q \in Writers(i, k)}
    BY <1>1 DEF LedgerIsWritten, Recorded, Writers
  <2>1. CASE i = id /\ k = key
    <3>1. r \in Writers(i, k)
      BY <1>1, <2>1, NoWorkAssumption DEF Writers
    <3> QED
      BY <1>3, <2>1, <3>1
  <2>2. CASE i # id \/ k # key
    BY <1>3, <2>2 DEF EngineInv, LedgerIsWritten, Recorded
  <2> QED
    BY <2>1, <2>2
<1>9. EventsStay
  BY <1>1 DEF EventsStay
<1>10. RoomIsAccountedFor'
  <2> HIDE DEF id, key
  <2> QED
    BY <1>1, <1>4, <1>9, RoomStays
<1>11. AnswersAreTrue'
  BY <1>1, AnswersStay DEF AnswersAreTrue
<1>12. IdleHoldsNothing' /\ RepeatsNeedAPost'
  BY <1>1 DEF EngineInv, IdleHoldsNothing, RepeatsNeedAPost
<1> QED
  BY <1>5, <1>6, <1>7, <1>8, <1>10, <1>11, <1>12 DEF EngineInv

(* Storing a changed copy: the object keeps its identity, though it may go  *)
(* back in time.                                                            *)
LEMMA StoreKeepsInv ==
  ASSUME EngineInv, TypeOK', NEW r \in Requests, NEW run \in RunType,
         NEW next \in {"dispatch", "answer"},
         pc[r] = "process", Store(r, run, next), SameIdentity(work[r].run, run),
         next = "dispatch" => EventAllowed(work[r]),
         next = "answer" => ~Dispatches(work[r].event) \/ run.status # "Running"
  PROVE  EngineInv'
<1>1. work[r] \in WorkType /\ work[r].id \in Requests
  BY DEF EngineInv, TypeOK, InFlight, WorkType
<1>2. /\ UNCHANGED <<ledger, room, repeats>>
      /\ pc'[r] = next
      /\ work'[r] = [work[r] EXCEPT !.run = run]
      /\ runs'[work[r].id] = run
      /\ \A q \in Requests \ {r} : pc'[q] = pc[q] /\ work'[q] = work[q]
      /\ \A i \in Requests \ {work[r].id} : runs'[i] = runs[i]
  BY <1>1 DEF Store, EngineInv, TypeOK
<1>3. /\ work'[r].id = work[r].id
      /\ work'[r].run = run
      /\ work'[r].event = work[r].event
      /\ work'[r].org = work[r].org
  BY <1>1, <1>2 DEF WorkType
<1>4. /\ run # NoRun
      /\ runs[work[r].id] # NoRun
      /\ SameIdentity(runs[work[r].id], run)
  BY <1>1, NoRunAssumption DEF EngineInv, CopiesKeepIdentity, SameIdentity
<1>5. \A i \in Requests : runs'[i] # NoRun => runs[i] # NoRun /\ SameIdentity(runs[i], runs'[i])
  BY <1>2, <1>4 DEF SameIdentity
<1>6. \A i \in Requests : runs[i] # NoRun => runs'[i] # NoRun
  BY <1>2, <1>4
<1>7. RunsAreStarted'
  <2> SUFFICES ASSUME NEW i \in Requests, runs'[i] # NoRun
               PROVE  /\ work'[i] \in WorkType
                      /\ work'[i].id = i
                      /\ pc'[i] \notin {"idle", "writeRun"}
                      /\ Startable(work'[i].org, runs'[i])
    BY DEF RunsAreStarted
  <2>1. /\ work[i] \in WorkType
        /\ work[i].id = i
        /\ pc[i] \notin {"idle", "writeRun"}
        /\ Startable(work[i].org, runs[i])
    BY <1>5 DEF EngineInv, RunsAreStarted
  <2>2. work'[i].org = work[i].org /\ work'[i].id = i
    BY <1>2, <1>3, <2>1
  <2>3. pc'[i] \notin {"idle", "writeRun"} /\ work'[i] \in WorkType
    BY <1>1, <1>2, <2>1 DEF WorkType
  <2>4. Startable(work'[i].org, runs'[i])
    BY <1>5, <2>1, <2>2 DEF Startable, SameIdentity
  <2> QED
    BY <2>2, <2>3, <2>4
<1>8. NewRunsAreStartable'
  BY <1>2 DEF EngineInv, NewRunsAreStartable
<1>9. CopiesKeepIdentity'
  <2> SUFFICES ASSUME NEW q \in Requests, pc'[q] \in {"writeEvent", "process", "dispatch"}
               PROVE  /\ runs'[work'[q].id] # NoRun
                      /\ SameIdentity(runs'[work'[q].id], work'[q].run)
    BY DEF CopiesKeepIdentity
  <2>1. CASE q = r
    BY <1>2, <1>3, <1>4, <2>1 DEF SameIdentity
  <2>2. CASE q # r
    <3>1. /\ work[q].id \in Requests
          /\ runs[work[q].id] # NoRun
          /\ SameIdentity(runs[work[q].id], work[q].run)
      BY <1>2, <2>2 DEF EngineInv, CopiesKeepIdentity, TypeOK, InFlight, WorkType
    <3> QED
      BY <1>2, <1>4, <2>2, <3>1 DEF SameIdentity
  <2> QED
    BY <2>1, <2>2
<1>10. EventsAreRecordedFirst'
  <2> SUFFICES ASSUME NEW q \in Requests, pc'[q] \in {"process", "dispatch"}
               PROVE  ledger[work'[q].id][KeyOf(q, work'[q].event)] # NoEvent
    BY <1>2 DEF EventsAreRecordedFirst
  <2>1. /\ work'[q].id = work[q].id /\ work'[q].event = work[q].event
        /\ pc[q] \in {"process", "dispatch"}
    BY <1>2, <1>3
  <2> QED
    BY <2>1 DEF EngineInv, EventsAreRecordedFirst
<1>11. DispatchesAreAllowed'
  BY <1>2, <1>3 DEF EngineInv, DispatchesAreAllowed, EventAllowed
<1>12. EventsStay
  <2>1. work'[r] \in WorkType
    BY <1>1, <1>2 DEF WorkType
  <2> QED
    BY <1>2, <1>3, <2>1, NoWorkAssumption DEF EventsStay
<1>13. LedgerIsWritten'
  BY <1>2, <1>12, LedgerStays
<1>14. RoomIsAccountedFor'
  BY <1>2, <1>5, <1>6, <1>12, RoomStays DEF SameIdentity
<1>15. AnswersAreTrue'
  <2> SUFFICES ASSUME NEW q \in Requests, pc'[q] \in {"answer", "ok"}, Dispatches(work'[q].event),
                      work'[q].run.status = "Running"
               PROVE  Posted(q)' \/ repeats'
    BY DEF AnswersAreTrue
  <2>1. q # r
    BY <1>2, <1>3
  <2> QED
    BY <1>2, <2>1, AnswersStay
<1>16. IdleHoldsNothing' /\ RepeatsNeedAPost'
  BY <1>2 DEF EngineInv, IdleHoldsNothing, RepeatsNeedAPost
<1> QED
  BY <1>7, <1>8, <1>9, <1>10, <1>11, <1>13, <1>14, <1>15, <1>16 DEF EngineInv

(* The event types of processMessage that store the run.                    *)
LEMMA ProcessingKeepsInv ==
  ASSUME EngineInv, TypeOK', NEW r \in Requests,
         \/ NextRound(r) \/ RoundsExhausted(r) \/ ProcessResult(r)
         \/ ProcessCancel(r) \/ ProcessError(r)
  PROVE  EngineInv'
<1>1. /\ pc[r] = "process"
      /\ work[r] \in WorkType
      /\ work[r].run \in RunType
      /\ work[r].event.status \in PayloadStatus
  BY DEF NextRound, RoundsExhausted, ProcessResult, ProcessCancel, ProcessError,
         EngineInv, TypeOK, InFlight, WorkType, EventType
<1>2. CASE NextRound(r)
  <2> DEFINE run == [work[r].run EXCEPT !.round = @ + 1]
  <2>1. run \in RunType /\ SameIdentity(work[r].run, run)
    BY <1>1, NextRoundIsRun
  <2> QED
    BY <1>1, <1>2, <2>1, StoreKeepsInv DEF NextRound
<1>3. CASE RoundsExhausted(r)
  <2> DEFINE run == [work[r].run EXCEPT !.round = @ + 1, !.status = "Failed"]
  <2>1. run \in RunType /\ SameIdentity(work[r].run, run) /\ run.status = "Failed"
    BY <1>1, NextRoundIsRun
  <2> QED
    BY <1>1, <1>3, <2>1, StoreKeepsInv DEF RoundsExhausted
<1>4. CASE ProcessResult(r)
  <2>1. ~Dispatches(work[r].event)
    BY <1>4 DEF ProcessResult, Dispatches
  <2> QED
    BY <1>1, <1>4, <2>1, EndedRunIsRun, StoreKeepsInv DEF ProcessResult, Terminal
<1>5. CASE ProcessCancel(r)
  <2>1. ~Dispatches(work[r].event)
    BY <1>5 DEF ProcessCancel, Dispatches
  <2> QED
    BY <1>1, <1>5, <2>1, EndedRunIsRun, StoreKeepsInv DEF ProcessCancel, Terminal
<1>6. CASE ProcessError(r)
  <2>1. ~Dispatches(work[r].event)
    BY <1>6 DEF ProcessError, Dispatches
  <2> QED
    BY <1>1, <1>6, <2>1, EndedRunIsRun, StoreKeepsInv DEF ProcessError, Terminal
<1> QED
  BY <1>2, <1>3, <1>4, <1>5, <1>6

(* Deliver posts what the ledger, the run and the policy already cover.     *)
LEMMA DispatchKeepsInv ==
  ASSUME EngineInv, TypeOK', NEW r \in Requests, Dispatch(r)
  PROVE  EngineInv'
<1> DEFINE d == [run |-> work[r].id, by |-> r, key |-> KeyOf(r, work[r].event),
                 round |-> work[r].run.round, mentions |-> Mentions(org, work[r].run.targets)]
<1>1. /\ pc[r] = "dispatch"
      /\ work[r] \in WorkType
      /\ UNCHANGED <<runs, ledger, repeats, work>>
      /\ room' = room \union {d}
      /\ pc'[r] = "answer"
      /\ \A q \in Requests \ {r} : pc'[q] = pc[q]
      /\ org \in Orgs
  BY DEF Dispatch, EngineInv, TypeOK, InFlight
<1>2. /\ ledger[d.run][d.key] # NoEvent
      /\ runs[d.run] # NoRun
      /\ d.mentions \subseteq runs[d.run].targets
      /\ EventAllowed(work[d.by])
  BY <1>1 DEF EngineInv, EventsAreRecordedFirst, CopiesKeepIdentity, SameIdentity,
              DispatchesAreAllowed, Mentions
<1>3. d.by \in Writers(d.run, d.key)
  BY <1>1, NoWorkAssumption DEF Writers
<1>4. RunsAreStarted' /\ NewRunsAreStartable' /\ CopiesKeepIdentity'
  BY <1>1 DEF EngineInv, RunsAreStarted, NewRunsAreStartable, CopiesKeepIdentity
<1>5. EventsAreRecordedFirst' /\ DispatchesAreAllowed'
  BY <1>1 DEF EngineInv, EventsAreRecordedFirst, DispatchesAreAllowed
<1>6. EventsStay
  BY <1>1 DEF EventsStay
<1>7. LedgerIsWritten'
  BY <1>1, <1>6, LedgerStays
<1>8. RoomIsAccountedFor'
  <2> SUFFICES ASSUME NEW e \in room'
               PROVE  /\ e.by \in Writers(e.run, e.key)
                      /\ ledger[e.run][e.key] # NoEvent
                      /\ runs[e.run] # NoRun
                      /\ e.mentions \subseteq runs[e.run].targets
                      /\ pc'[e.by] \in {"answer", "ok", "error"}
                      /\ EventAllowed(work[e.by])
    BY <1>1 DEF RoomIsAccountedFor, Writers
  <2>1. CASE e \in room
    BY <1>1, <2>1 DEF EngineInv, RoomIsAccountedFor, TypeOK, Delivery
  <2>2. CASE e = d
    BY <1>1, <1>2, <1>3, <2>2
  <2> QED
    BY <1>1, <2>1, <2>2
<1>9. Posted(r)'
  <2>1. d \in room' /\ d.by = r /\ d.run = work'[r].id
    BY <1>1
  <2>2. \A m \in work'[r].run.targets : (\A o \in Orgs : m \in Config[o].agents) => m \in d.mentions
    BY <1>1 DEF Mentions
  <2> HIDE DEF d
  <2> QED
    BY <2>1, <2>2 DEF Posted
<1>10. AnswersAreTrue'
  BY <1>1, <1>9, AnswersStay DEF AnswersAreTrue
<1>11. IdleHoldsNothing' /\ RepeatsNeedAPost'
  BY <1>1 DEF EngineInv, IdleHoldsNothing, RepeatsNeedAPost
<1> QED
  BY <1>4, <1>5, <1>7, <1>8, <1>10, <1>11 DEF EngineInv

(* A message taken for a repetition leaves everything as it was, and is     *)
(* answered only after an earlier process had posted.                       *)
LEMMA RepetitionKeepsInv ==
  ASSUME EngineInv, TypeOK', NEW r \in Requests, DispatchRepeated(r)
  PROVE  EngineInv'
<1>1. /\ pc[r] = "dispatch"
      /\ UNCHANGED <<runs, ledger, room, repeats, work>>
      /\ repeats
      /\ pc'[r] = "answer"
      /\ \A q \in Requests \ {r} : pc'[q] = pc[q]
  BY DEF DispatchRepeated, EngineInv, TypeOK
<1>2. /\ RunsAreStarted' /\ NewRunsAreStartable' /\ CopiesKeepIdentity'
      /\ EventsAreRecordedFirst' /\ DispatchesAreAllowed'
  BY <1>1 DEF EngineInv, RunsAreStarted, NewRunsAreStartable, CopiesKeepIdentity,
     EventsAreRecordedFirst, DispatchesAreAllowed
<1>3. EventsStay
  BY <1>1 DEF EventsStay
<1>4. LedgerIsWritten' /\ RoomIsAccountedFor'
  BY <1>1, <1>3, LedgerStays, RoomStays
<1>5. AnswersAreTrue' /\ IdleHoldsNothing' /\ RepeatsNeedAPost'
  BY <1>1 DEF EngineInv, AnswersAreTrue, IdleHoldsNothing, RepeatsNeedAPost
<1> QED
  BY <1>2, <1>4, <1>5 DEF EngineInv

(* Every step keeps the invariant.                                          *)
LEMMA EngineStep == EngineInv /\ [Next]_vars => EngineInv'
<1> SUFFICES ASSUME EngineInv, [Next]_vars PROVE EngineInv'
  OBVIOUS
<1>1. TypeOK'
  BY TypeStep DEF EngineInv
<1>2. ASSUME NEW r \in Requests, RequestStep(r) PROVE EngineInv'
  BY <1>1, <1>2, GivingUpKeepsInv, BeginningKeepsInv, WriteRunKeepsInv, WriteEventKeepsInv,
     ProcessingKeepsInv, DispatchKeepsInv, RepetitionKeepsInv DEF RequestStep
<1>3. CASE UNCHANGED <<runs, ledger, room, repeats, pc, work>>
  <2>1. /\ RunsAreStarted' /\ NewRunsAreStartable' /\ CopiesKeepIdentity'
        /\ EventsAreRecordedFirst' /\ DispatchesAreAllowed'
    BY <1>3 DEF EngineInv, RunsAreStarted, NewRunsAreStartable, CopiesKeepIdentity,
       EventsAreRecordedFirst, DispatchesAreAllowed
  <2>2. EventsStay
    BY <1>3 DEF EventsStay
  <2>3. LedgerIsWritten' /\ RoomIsAccountedFor'
    BY <1>3, <2>2, LedgerStays, RoomStays
  <2>4. AnswersAreTrue' /\ IdleHoldsNothing' /\ RepeatsNeedAPost'
    BY <1>3, AnswersStay DEF EngineInv, AnswersAreTrue, IdleHoldsNothing, RepeatsNeedAPost
  <2> QED
    BY <1>1, <2>1, <2>3, <2>4 DEF EngineInv
<1> QED
  BY <1>1, <1>2, <1>3, RestartKeepsInv DEF Next, ChangeCluster, vars

(* The inductive invariant holds of every behaviour.                        *)
THEOREM EngineInvariant == Spec => []EngineInv
BY EngineInit, EngineStep, PTL DEF Spec

--------------------------------------------------------------------------------
(* What follows for the users of the engine.                                *)

(* Nothing is posted in a room unless the ledger holds, under the key of    *)
(* its event, that event or one that was posted later under the same id.    *)
THEOREM RecordedWakes == Spec => []WakesAreRecorded
<1>1. EngineInv => WakesAreRecorded
  BY DEF EngineInv, TypeOK, Delivery, LedgerIsWritten, RoomIsAccountedFor, WakesAreRecorded
<1> QED
  BY <1>1, EngineInvariant, PTL

(* So the event of a wake-up is in the ledger itself when no other request  *)
(* names its id: an id that the engine generated is safe unless a client    *)
(* posts with it.                                                           *)
UnnamedEventsStay ==
  \A d \in room : Writers(d.run, d.key) = {d.by} => ledger[d.run][d.key] = work[d.by].event

THEOREM UnnamedEvents == Spec => []UnnamedEventsStay
<1>1. ASSUME EngineInv, NEW d \in room, Writers(d.run, d.key) = {d.by}
      PROVE  ledger[d.run][d.key] = work[d.by].event
  BY <1>1 DEF EngineInv, TypeOK, Delivery, LedgerIsWritten, RoomIsAccountedFor, Recorded
<1>2. EngineInv => UnnamedEventsStay
  BY <1>1 DEF UnnamedEventsStay
<1> QED
  BY <1>2, EngineInvariant, PTL

(* Only members that the starter of the run could Start are woken, and only *)
(* by requests that passed the policy, whatever is stored in between.       *)
THEOREM AuthorisedWakes == Spec => []WakesAreAuthorised
<1>1. ASSUME EngineInv, NEW d \in room, NEW m \in d.mentions
      PROVE  Allows(work[d.run].org, runs[d.run].startedBy, m, "Start")
  <2>1. d.run \in Requests /\ runs[d.run] # NoRun /\ m \in runs[d.run].targets
    BY <1>1 DEF EngineInv, RoomIsAccountedFor, TypeOK, Delivery
  <2> QED
    BY <1>1, <2>1 DEF EngineInv, RunsAreStarted, Startable
<1>2. EngineInv => WakesAreAuthorised
  BY <1>1 DEF EngineInv, RoomIsAccountedFor, WakesAreAuthorised
<1> QED
  BY <1>2, EngineInvariant, PTL

(* A wake-up that was answered without an error was posted, and mentions    *)
(* every Agent of the run, as long as no earlier process has posted.        *)
THEOREM PostedWakes == Spec => []AnsweredWakesArePosted
<1>1. EngineInv => AnsweredWakesArePosted
  BY DEF EngineInv, AnswersAreTrue, AnsweredWakesArePosted
<1> QED
  BY <1>1, EngineInvariant, PTL

(* Storing a copy keeps the identity of the object it overwrites.           *)
LEMMA StoreKeepsIdentity ==
  ASSUME EngineInv, NEW r \in Requests, NEW run \in RunType, NEW next,
         pc[r] = "process", Store(r, run, next), SameIdentity(work[r].run, run),
         NEW i \in Requests, runs[i] # NoRun
  PROVE  runs'[i] # NoRun /\ SameIdentity(runs[i], runs'[i])
<1>1. /\ work[r].id \in Requests
      /\ SameIdentity(runs[work[r].id], work[r].run)
  BY DEF EngineInv, TypeOK, InFlight, WorkType, CopiesKeepIdentity
<1>2. runs'[i] = IF i = work[r].id THEN run ELSE runs[i]
  BY <1>1 DEF Store, EngineInv, TypeOK
<1> QED
  BY <1>1, <1>2, NoRunAssumption DEF SameIdentity

(* Who started a run, whom it resolved to and its limit never change.       *)
THEOREM FixedIdentity == Spec => RunIdentityIsFixed
<1> DEFINE Kept == \A i \in Requests : runs[i] # NoRun =>
                     runs'[i] # NoRun /\ SameIdentity(runs[i], runs'[i])
<1>1. ASSUME EngineInv, UNCHANGED runs PROVE Kept
  BY <1>1 DEF SameIdentity
<1>2. ASSUME EngineInv, NEW r \in Requests, WriteRun(r) PROVE Kept
  <2>1. runs[r] = NoRun /\ \A i \in Requests \ {r} : runs'[i] = runs[i]
    BY <1>2 DEF WriteRun, EngineInv, RunsAreStarted, NewRunsAreStartable, TypeOK
  <2> QED
    BY <2>1 DEF SameIdentity
<1>3. ASSUME EngineInv, NEW r \in Requests,
             \/ NextRound(r) \/ RoundsExhausted(r) \/ ProcessResult(r)
             \/ ProcessCancel(r) \/ ProcessError(r)
      PROVE  Kept
  <2>1. /\ pc[r] = "process"
        /\ work[r].run \in RunType
        /\ work[r].event.status \in PayloadStatus
    BY <1>3 DEF NextRound, RoundsExhausted, ProcessResult, ProcessCancel, ProcessError,
                EngineInv, TypeOK, InFlight, WorkType, EventType
  <2>2. PICK run \in RunType, next \in {"dispatch", "answer"} :
          Store(r, run, next) /\ SameIdentity(work[r].run, run)
    BY <1>3, <2>1, NextRoundIsRun, EndedRunIsRun
    DEF NextRound, RoundsExhausted, ProcessResult, ProcessCancel, ProcessError, Terminal
  <2> QED
    BY <1>3, <2>1, <2>2, StoreKeepsIdentity
<1>4. EngineInv /\ [Next]_vars => Kept
  <2> SUFFICES ASSUME EngineInv, [Next]_vars PROVE Kept
    OBVIOUS
  <2>1. ASSUME NEW r \in Requests, RequestStep(r) PROVE Kept
    <3>1. \/ UNCHANGED runs
          \/ WriteRun(r)
          \/ \/ NextRound(r) \/ RoundsExhausted(r) \/ ProcessResult(r)
             \/ ProcessCancel(r) \/ ProcessError(r)
      BY <2>1 DEF RequestStep, StartCollaboration, RefuseStart, ReceiveMessage, RefuseMessage,
                  WriteEvent, RefuseEvent, Dispatch, DispatchRepeated, RefuseDispatch, Answer, Fail
    <3> HIDE DEF Kept
    <3> QED
      BY <1>1, <1>2, <1>3, <3>1
  <2>2. CASE UNCHANGED runs
    BY <1>1, <2>2
  <2> HIDE DEF Kept
  <2> QED
    BY <2>1, <2>2 DEF Next, Restart, ChangeCluster, vars
<1> QED
  BY <1>4, EngineInvariant, PTL DEF Spec, RunIdentityIsFixed

--------------------------------------------------------------------------------
(* What it guarantees besides when requests do not overlap (Serial).         *)

(* A generic fact of the proofs below: the types of what a request holds.   *)
LEMMA HeldCopies ==
  ASSUME EngineInv, NEW r \in Requests, pc[r] \in InFlight
  PROVE  /\ work[r] \in WorkType
         /\ work[r].id \in Requests
         /\ work[r].run \in RunType
         /\ work[r].run.round \in Nat
         /\ work[r].run.limit \in Int
         /\ work[r].run # NoRun
BY NoRunAssumption DEF EngineInv, TypeOK, WorkType, RunType

(* Rounds and runs of what was posted.                                      *)
LEMMA PostedRuns ==
  ASSUME EngineInv, NEW d \in room
  PROVE  /\ d.run \in Requests /\ d.round \in Nat
         /\ runs[d.run] \in RunType /\ runs[d.run] # NoRun
         /\ runs[d.run].round \in Nat /\ runs[d.run].limit \in Int
BY DEF EngineInv, TypeOK, Delivery, RoomIsAccountedFor, RunType

(* Nothing is in flight in the beginning, and nothing posted.               *)
LEMMA SerialInit == Init => SerialInv
BY EngineInit
DEF Init, SerialInv, OneInFlight, CopiesAreCurrent, RoundsAreSpent, RoundsBoundWakes, InFlight

(* A request that gives up, is answered or is taken for a repetition leaves *)
(* the runs, the copies and the room alone; so does a restart.              *)
LEMMA GivingUpKeepsSerial ==
  ASSUME SerialInv, EngineInv',
         \/ Restart
         \/ \E r \in Requests :
              \/ RefuseStart(r) \/ RefuseMessage(r) \/ RefuseEvent(r) \/ RefuseDispatch(r)
              \/ DispatchRepeated(r) \/ Answer(r) \/ Fail(r)
  PROVE  SerialInv'
<1>1. /\ UNCHANGED <<runs, room, work>>
      /\ \A q \in Requests : pc'[q] \in {pc[q], "error", "ok"} \/ (pc[q] \in InFlight /\ pc'[q] = "answer")
  BY DEF RefuseStart, RefuseMessage, RefuseEvent, RefuseDispatch, DispatchRepeated, Answer, Fail,
         Restart, SerialInv, EngineInv, TypeOK, InFlight
<1>2. OneInFlight'
  BY <1>1 DEF SerialInv, OneInFlight, InFlight
<1>3. CopiesAreCurrent'
  BY <1>1 DEF SerialInv, CopiesAreCurrent
<1>4. RoundsAreSpent'
  BY <1>1 DEF SerialInv, RoundsAreSpent
<1>5. (Serial => RoundsBoundWakes)'
  BY <1>1 DEF SerialInv, RoundsBoundWakes
<1> QED
  BY <1>2, <1>3, <1>4, <1>5 DEF SerialInv

(* A request begins when no other is in flight, with a new run or with the  *)
(* object as it is.                                                         *)
LEMMA BeginningKeepsSerial ==
  ASSUME SerialInv, EngineInv', NEW r \in Requests, StartCollaboration(r) \/ ReceiveMessage(r)
  PROVE  SerialInv'
<1>1. /\ pc'[r] \in {"writeRun", "writeEvent"}
      /\ \A q \in Requests \ {r} : pc'[q] = pc[q] /\ work'[q] = work[q]
      /\ UNCHANGED <<runs, room>>
      /\ Serial => \A q \in Requests \ {r} : pc'[q] \notin InFlight
  BY DEF StartCollaboration, ReceiveMessage, MayBegin, SerialInv, EngineInv, TypeOK
<1>2. OneInFlight'
  BY <1>1 DEF OneInFlight
<1>3. CopiesAreCurrent'
  <2>1. CASE StartCollaboration(r)
    <3>1. PICK req \in Starts :
            /\ pc' = [pc EXCEPT ![r] = "writeRun"]
            /\ work' = [work EXCEPT ![r] =
                 [id |-> r, run |-> NewRun(org, req), event |-> StartEvent(req), org |-> org]]
      BY <2>1 DEF StartCollaboration
    <3>2. pc'[r] = "writeRun" /\ work'[r].run.status = "Running" /\ work'[r].run.round = 0
      BY <3>1 DEF NewRun, SerialInv, EngineInv, TypeOK
    <3> QED
      BY <1>1, <3>2 DEF CopiesAreCurrent, InFlight
  <2>2. CASE ReceiveMessage(r)
    <3>1. PICK i \in Requests, event \in Events :
            /\ runs[i].status = "Running"
            /\ pc' = [pc EXCEPT ![r] = "writeEvent"]
            /\ work' = [work EXCEPT ![r] =
                 [id |-> i, run |-> runs[i], event |-> event, org |-> org]]
      BY <2>2 DEF ReceiveMessage, Running
    <3>2. pc'[r] = "writeEvent" /\ work'[r].id = i /\ work'[r].run = runs[i]
      BY <3>1 DEF SerialInv, EngineInv, TypeOK
    <3> QED
      BY <1>1, <3>1, <3>2 DEF CopiesAreCurrent, InFlight
  <2> QED
    BY <2>1, <2>2
<1>4. RoundsAreSpent'
  BY <1>1 DEF SerialInv, RoundsAreSpent, InFlight
<1>5. (Serial => RoundsBoundWakes)'
  BY <1>1 DEF SerialInv, RoundsBoundWakes
<1> QED
  BY <1>2, <1>3, <1>4, <1>5 DEF SerialInv

(* The object appears, and nobody was woken for it before.                  *)
LEMMA WriteRunKeepsSerial ==
  ASSUME SerialInv, EngineInv', NEW r \in Requests, WriteRun(r)
  PROVE  SerialInv'
<1>1. /\ pc[r] = "writeRun" /\ pc'[r] = "writeEvent"
      /\ \A q \in Requests \ {r} : pc'[q] = pc[q]
      /\ UNCHANGED <<room, work>>
      /\ work[r].id = r /\ runs[r] = NoRun
      /\ runs'[r] = work[r].run
      /\ \A i \in Requests \ {r} : runs'[i] = runs[i]
  BY DEF WriteRun, SerialInv, EngineInv, TypeOK, RunsAreStarted, NewRunsAreStartable
<1>2. \A d \in room : d.run \in Requests \ {r}
  BY <1>1, PostedRuns DEF SerialInv
<1>3. OneInFlight'
  BY <1>1 DEF SerialInv, OneInFlight, InFlight
<1>4. CopiesAreCurrent'
  BY <1>1 DEF SerialInv, CopiesAreCurrent, OneInFlight, InFlight
<1>5. RoundsAreSpent'
  BY <1>1, <1>2 DEF SerialInv, RoundsAreSpent
<1>6. (Serial => RoundsBoundWakes)'
  BY <1>1, <1>2 DEF SerialInv, RoundsBoundWakes
<1> QED
  BY <1>3, <1>4, <1>5, <1>6 DEF SerialInv

(* Recording an event touches no run.                                       *)
LEMMA WriteEventKeepsSerial ==
  ASSUME SerialInv, EngineInv', NEW r \in Requests, WriteEvent(r)
  PROVE  SerialInv'
<1>1. /\ pc[r] = "writeEvent" /\ pc'[r] = "process"
      /\ \A q \in Requests \ {r} : pc'[q] = pc[q]
      /\ UNCHANGED <<runs, room, work>>
  BY DEF WriteEvent, SerialInv, EngineInv, TypeOK
<1>2. OneInFlight'
  BY <1>1 DEF SerialInv, OneInFlight, InFlight
<1>3. CopiesAreCurrent'
  BY <1>1 DEF SerialInv, CopiesAreCurrent
<1>4. RoundsAreSpent'
  BY <1>1 DEF SerialInv, RoundsAreSpent
<1>5. (Serial => RoundsBoundWakes)'
  BY <1>1 DEF SerialInv, RoundsBoundWakes
<1> QED
  BY <1>2, <1>3, <1>4, <1>5 DEF SerialInv

(* The copy becomes the object: the round goes up, and what was posted for  *)
(* the run was posted in an earlier round.                                  *)
LEMMA StoreKeepsSerial ==
  ASSUME SerialInv, EngineInv', NEW r \in Requests, NEW run \in RunType,
         NEW next \in {"dispatch", "answer"},
         pc[r] = "process", Store(r, run, next), SameIdentity(work[r].run, run),
         run.round >= work[r].run.round,
         next = "dispatch" => /\ run.status = "Running"
                              /\ run.round = work[r].run.round + 1
                              /\ run.round <= run.limit
  PROVE  SerialInv'
<1> DEFINE i == work[r].id
<1>1. /\ work[r] \in WorkType /\ i \in Requests
      /\ work[r].run.round \in Nat /\ work[r].run.limit \in Int
  BY HeldCopies DEF SerialInv, InFlight
<1>2. run.round \in Nat /\ run.limit \in Int /\ run.limit = work[r].run.limit
  BY DEF RunType, SameIdentity
<1>3. /\ pc'[r] = next
      /\ \A q \in Requests \ {r} : pc'[q] = pc[q] /\ work'[q] = work[q]
      /\ work'[r].id = i /\ work'[r].run = run
      /\ runs'[i] = run
      /\ \A j \in Requests \ {i} : runs'[j] = runs[j]
      /\ UNCHANGED room
  BY <1>1 DEF Store, SerialInv, EngineInv, TypeOK, WorkType
<1>4. OneInFlight'
  BY <1>3 DEF SerialInv, OneInFlight, InFlight
<1>5. Serial => \A q \in Requests \ {r} : pc'[q] \notin InFlight
  BY <1>3 DEF SerialInv, OneInFlight, InFlight
<1>6. CopiesAreCurrent'
  BY <1>3, <1>5 DEF CopiesAreCurrent, InFlight
<1>7. Serial => runs[i] = work[r].run
  BY DEF SerialInv, CopiesAreCurrent
<1>8. ASSUME Serial, NEW d \in room
      PROVE  /\ d.round \in 1 .. runs'[d.run].limit
             /\ d.round <= runs'[d.run].round
             /\ d.run = i => d.round <= work[r].run.round
  <2>1. /\ d.run \in Requests /\ d.round \in Nat
        /\ d.round \in 1 .. runs[d.run].limit /\ d.round <= runs[d.run].round
    BY <1>8, PostedRuns DEF SerialInv, RoundsAreSpent
  <2>2. CASE d.run = i
    BY <1>1, <1>2, <1>3, <1>7, <1>8, <2>1, <2>2
  <2>3. CASE d.run # i
    BY <1>3, <2>1, <2>3
  <2> QED
    BY <2>2, <2>3
<1>9. RoundsAreSpent'
  <2> SUFFICES ASSUME Serial
               PROVE  /\ \A d \in room : d.round \in 1 .. runs'[d.run].limit /\ d.round <= runs'[d.run].round
                      /\ \A q \in Requests : pc'[q] = "dispatch" =>
                           /\ work'[q].run.round \in 1 .. work'[q].run.limit
                           /\ \A d \in room : d.run = work'[q].id => d.round < work'[q].run.round
    BY <1>3 DEF RoundsAreSpent
  <2>1. ASSUME NEW q \in Requests, pc'[q] = "dispatch"
        PROVE  /\ work'[q].run.round \in 1 .. work'[q].run.limit
               /\ \A d \in room : d.run = work'[q].id => d.round < work'[q].run.round
    <3>1. q = r /\ next = "dispatch"
      BY <1>3, <1>5, <2>1 DEF InFlight
    <3>2. run.round \in 1 .. run.limit
      BY <1>1, <1>2, <3>1
    <3>3. ASSUME NEW d \in room, d.run = i PROVE d.round < run.round
      BY <1>1, <1>2, <1>8, <3>1, <3>3, PostedRuns DEF SerialInv
    <3> QED
      BY <1>3, <3>1, <3>2, <3>3
  <2> QED
    BY <1>8, <2>1
<1>10. (Serial => RoundsBoundWakes)'
  BY <1>3, <1>8 DEF SerialInv, RoundsBoundWakes
<1> QED
  BY <1>4, <1>6, <1>9, <1>10 DEF SerialInv

(* Each event type that stores the run is such a store.                     *)
LEMMA ProcessingIsStore ==
  ASSUME EngineInv, NEW r \in Requests,
         \/ NextRound(r) \/ RoundsExhausted(r) \/ ProcessResult(r)
         \/ ProcessCancel(r) \/ ProcessError(r)
  PROVE  /\ pc[r] = "process"
         /\ \E run \in RunType, next \in {"dispatch", "answer"} :
              /\ Store(r, run, next) /\ SameIdentity(work[r].run, run)
              /\ run.round >= work[r].run.round
              /\ next = "dispatch" => /\ run.status = work[r].run.status
                                      /\ run.round = work[r].run.round + 1
                                      /\ run.round <= run.limit
              /\ next = "answer" => /\ run.status \in Terminal
                                /\ \/ run.round = work[r].run.round
                                   \/ /\ run.round = work[r].run.round + 1
                                      /\ run.round > run.limit
                                      /\ run.status = "Failed"
<1> DEFINE old == work[r].run
<1>1. /\ pc[r] = "process"
      /\ old \in RunType
      /\ work[r].event.status \in PayloadStatus
  BY DEF NextRound, RoundsExhausted, ProcessResult, ProcessCancel, ProcessError,
         EngineInv, TypeOK, InFlight, WorkType, EventType
<1>2. old.round \in Nat /\ old.limit \in Int
  BY <1>1 DEF RunType
<1>3. CASE NextRound(r)
  <2> DEFINE run == [old EXCEPT !.round = @ + 1]
  <2>1. run \in RunType /\ SameIdentity(old, run)
    BY <1>1, NextRoundIsRun
  <2>2. /\ run.round = old.round + 1 /\ run.status = old.status /\ run.limit = old.limit
        /\ old.round + 1 <= old.limit
    BY <1>1, <1>3 DEF RunType, NextRound
  <2>3. Store(r, run, "dispatch")
    BY <1>3 DEF NextRound
  <2> HIDE DEF run
  <2> QED
    BY <1>1, <1>2, <2>1, <2>2, <2>3
<1>4. CASE RoundsExhausted(r)
  <2> DEFINE run == [old EXCEPT !.round = @ + 1, !.status = "Failed"]
  <2>1. run \in RunType /\ SameIdentity(old, run)
    BY <1>1, NextRoundIsRun
  <2>2. /\ run.round = old.round + 1 /\ run.status = "Failed" /\ run.limit = old.limit
        /\ old.round + 1 > old.limit
    BY <1>1, <1>4 DEF RunType, RoundsExhausted
  <2>3. Store(r, run, "answer")
    BY <1>4 DEF RoundsExhausted
  <2> HIDE DEF run
  <2> QED
    BY <1>1, <1>2, <2>1, <2>2, <2>3 DEF Terminal
<1>5. ASSUME ProcessResult(r) \/ ProcessCancel(r) \/ ProcessError(r)
      PROVE  \E run \in RunType :
               /\ Store(r, run, "answer") /\ SameIdentity(old, run)
               /\ run.round = old.round /\ run.status \in Terminal
  <2>1. CASE ProcessResult(r)
    <3> DEFINE t == IF work[r].event.status = "failed" THEN "Failed" ELSE "Completed"
               run == [old EXCEPT !.result = work[r].event.status, !.status = t]
    <3>1. t \in Terminal
      BY DEF Terminal
    <3>2. run \in RunType /\ SameIdentity(old, run) /\ run.status = t
      BY <1>1 DEF RunType, SameIdentity, Terminal
    <3>3. run.round = old.round
      BY <1>1 DEF RunType
    <3>4. Store(r, run, "answer")
      BY <2>1 DEF ProcessResult
    <3> HIDE DEF run, t
    <3> QED
      BY <3>1, <3>2, <3>3, <3>4
  <2>2. ASSUME NEW t \in Terminal, Store(r, [old EXCEPT !.status = t], "answer")
        PROVE  \E run \in RunType :
                 /\ Store(r, run, "answer") /\ SameIdentity(old, run)
                 /\ run.round = old.round /\ run.status \in Terminal
    <3> DEFINE run == [old EXCEPT !.status = t]
    <3>1. run \in RunType /\ SameIdentity(old, run) /\ run.status = t
      BY <1>1, EndedRunIsRun
    <3>2. run.round = old.round
      BY <1>1 DEF RunType
    <3>3. Store(r, run, "answer")
      BY <2>2
    <3> HIDE DEF run
    <3> QED
      BY <3>1, <3>2, <3>3
  <2>3. CASE ProcessCancel(r)
    BY <2>2, <2>3 DEF ProcessCancel, Terminal
  <2>4. CASE ProcessError(r)
    BY <2>2, <2>4 DEF ProcessError, Terminal
  <2> QED
    BY <1>5, <2>1, <2>3, <2>4
<1>6. CASE ProcessResult(r) \/ ProcessCancel(r) \/ ProcessError(r)
  BY <1>1, <1>2, <1>5, <1>6
<1> QED
  BY <1>3, <1>4, <1>6

(* Posting spends the round the copy is at.                                 *)
LEMMA DispatchKeepsSerial ==
  ASSUME SerialInv, EngineInv', NEW r \in Requests, Dispatch(r)
  PROVE  SerialInv'
<1> DEFINE d == [run |-> work[r].id, by |-> r, key |-> KeyOf(r, work[r].event),
                 round |-> work[r].run.round, mentions |-> Mentions(org, work[r].run.targets)]
<1>1. /\ pc[r] = "dispatch"
      /\ pc'[r] = "answer"
      /\ \A q \in Requests \ {r} : pc'[q] = pc[q]
      /\ UNCHANGED <<runs, work>>
      /\ room' = room \union {d}
  BY DEF Dispatch, SerialInv, EngineInv, TypeOK
<1>2. OneInFlight'
  BY <1>1 DEF SerialInv, OneInFlight, InFlight
<1>3. CopiesAreCurrent'
  BY <1>1 DEF SerialInv, CopiesAreCurrent
<1>4. Serial => /\ runs[d.run] = work[r].run
                /\ d.round \in 1 .. runs[d.run].limit
                /\ d.round = runs[d.run].round
                /\ \A e \in room : e.run = d.run => e.round < d.round
                /\ \A q \in Requests \ {r} : pc'[q] # "dispatch"
  BY <1>1 DEF SerialInv, CopiesAreCurrent, RoundsAreSpent, OneInFlight, InFlight
<1>5. d.round \in Nat /\ \A e \in room : e.round \in Nat
  BY <1>1, HeldCopies, PostedRuns DEF SerialInv, InFlight
<1> HIDE DEF d
<1>6. RoundsAreSpent'
  BY <1>1, <1>4, <1>5 DEF SerialInv, RoundsAreSpent
<1>7. (Serial => RoundsBoundWakes)'
  <2> SUFFICES ASSUME Serial
               PROVE  /\ \A a, b \in room' : a.run = b.run /\ a.round = b.round => a = b
                      /\ \A a \in room' : a.round \in 1 .. runs[a.run].limit
    BY <1>1 DEF RoundsBoundWakes
  <2>1. \A a, b \in room : a.run = b.run /\ a.round = b.round => a = b
    BY DEF SerialInv, RoundsBoundWakes
  <2>2. \A a \in room : a.run = d.run => a.round # d.round
    BY <1>4, <1>5
  <2>3. \A a \in room' : a.round \in 1 .. runs[a.run].limit
    BY <1>1, <1>4 DEF SerialInv, RoundsBoundWakes
  <2> QED
    BY <1>1, <2>1, <2>2, <2>3
<1> QED
  BY <1>2, <1>3, <1>6, <1>7 DEF SerialInv

(* Every step keeps the invariant.                                          *)
LEMMA SerialStep == SerialInv /\ [Next]_vars => SerialInv'
<1> SUFFICES ASSUME SerialInv, [Next]_vars PROVE SerialInv'
  OBVIOUS
<1>1. EngineInv'
  BY EngineStep DEF SerialInv
<1>2. ASSUME NEW r \in Requests,
             \/ NextRound(r) \/ RoundsExhausted(r) \/ ProcessResult(r)
             \/ ProcessCancel(r) \/ ProcessError(r)
      PROVE  SerialInv'
  <2>1. EngineInv
    BY DEF SerialInv
  <2>2. PICK run \in RunType, next \in {"dispatch", "answer"} :
          /\ pc[r] = "process" /\ Store(r, run, next) /\ SameIdentity(work[r].run, run)
          /\ run.round >= work[r].run.round
          /\ next = "dispatch" => /\ run.status = work[r].run.status
                                  /\ run.round = work[r].run.round + 1
                                  /\ run.round <= run.limit
    BY <1>2, <2>1, ProcessingIsStore
  <2>3. CASE Serial
    <3>1. work[r].run.status = "Running"
      BY <2>2, <2>3 DEF SerialInv, CopiesAreCurrent
    <3> QED
      BY <1>1, <2>2, <3>1, StoreKeepsSerial
  <2>4. CASE ~Serial
    BY <1>1, <2>4 DEF SerialInv, OneInFlight, CopiesAreCurrent, RoundsAreSpent
  <2> QED
    BY <2>3, <2>4
<1>3. ASSUME NEW r \in Requests, RequestStep(r) PROVE SerialInv'
  BY <1>1, <1>2, <1>3, GivingUpKeepsSerial, BeginningKeepsSerial, WriteRunKeepsSerial,
     WriteEventKeepsSerial, DispatchKeepsSerial DEF RequestStep
<1>4. CASE UNCHANGED <<runs, ledger, room, repeats, pc, work>>
  BY <1>1, <1>4 DEF SerialInv, OneInFlight, CopiesAreCurrent, RoundsAreSpent, RoundsBoundWakes
<1> QED
  BY <1>1, <1>3, <1>4, GivingUpKeepsSerial DEF Next, ChangeCluster, vars

(* With one request at a time, its copy is the object, in every behaviour.  *)
THEOREM SerialInvariant == Spec => []SerialInv
BY SerialInit, SerialStep, PTL DEF Spec

(* With one request at a time, a round wakes the members once, and no more  *)
(* rounds than the limit do.                                                *)
THEOREM BoundedRounds == ASSUME Serial PROVE Spec => []RoundsBoundWakes
<1>1. SerialInv => RoundsBoundWakes
  BY DEF SerialInv
<1> QED
  BY <1>1, SerialInvariant, PTL
--------------------------------------------------------------------------------
(* What a step does to the runs and the room, when requests do not overlap: *)
(* nothing, or it makes a run, stores the copy of a running one, or posts.  *)

Quiet == UNCHANGED <<runs, room>>

Opened(r) ==
  /\ runs[r] = NoRun
  /\ runs'[r] \in RunType /\ runs'[r].status = "Running" /\ runs'[r].round = 0
  /\ \A j \in Requests \ {r} : runs'[j] = runs[j]
  /\ UNCHANGED room

Stored(i) ==
  /\ runs[i] \in RunType /\ runs[i].status = "Running"
  /\ runs'[i] \in RunType /\ runs'[i].limit = runs[i].limit
  /\ \/ /\ runs'[i].status = "Running"
        /\ runs'[i].round = runs[i].round + 1
        /\ runs'[i].round <= runs[i].limit
     \/ runs'[i].status \in Terminal /\ runs'[i].round = runs[i].round
     \/ /\ runs'[i].status = "Failed"
        /\ runs'[i].round = runs[i].round + 1
        /\ runs'[i].round > runs[i].limit
  /\ \A j \in Requests \ {i} : runs'[j] = runs[j]
  /\ UNCHANGED room

Woken(i) ==
  /\ runs[i] \in RunType /\ runs[i].status = "Running"
  /\ runs[i].round \in 1 .. runs[i].limit
  /\ \A e \in room : e.run = i => e.round < runs[i].round
  /\ \E d \in Delivery : d.run = i /\ d.round = runs[i].round /\ room' = room \union {d}
  /\ UNCHANGED runs

(* Every step of the engine is one of the four.                             *)
LEMMA SerialSteps ==
  ASSUME Serial, SerialInv, [Next]_vars
  PROVE  Quiet \/ \E i \in Requests : Opened(i) \/ Stored(i) \/ Woken(i)
<1> USE DEF SerialInv
<1>1. ASSUME NEW r \in Requests, WriteRun(r) PROVE Opened(r)
  <2>1. /\ pc[r] = "writeRun" /\ work[r].id = r /\ runs[r] = NoRun
        /\ runs' = [runs EXCEPT ![r] = work[r].run] /\ UNCHANGED room
    BY <1>1 DEF WriteRun, EngineInv, RunsAreStarted, NewRunsAreStartable
  <2>2. work[r].run \in RunType /\ work[r].run.status = "Running" /\ work[r].run.round = 0
    BY <2>1, HeldCopies DEF InFlight, CopiesAreCurrent
  <2> QED
    BY <2>1, <2>2 DEF Opened, EngineInv, TypeOK
<1>2. ASSUME NEW r \in Requests,
             \/ NextRound(r) \/ RoundsExhausted(r) \/ ProcessResult(r)
             \/ ProcessCancel(r) \/ ProcessError(r)
      PROVE  Stored(work[r].id)
  <2> DEFINE old == work[r].run
             i == work[r].id
  <2>1. PICK run \in RunType, next \in {"dispatch", "answer"} :
          /\ pc[r] = "process" /\ Store(r, run, next) /\ SameIdentity(old, run)
          /\ next = "dispatch" => /\ run.status = old.status
                                  /\ run.round = old.round + 1
                                  /\ run.round <= run.limit
          /\ next = "answer" => /\ run.status \in Terminal
                            /\ \/ run.round = old.round
                               \/ /\ run.round = old.round + 1
                                  /\ run.round > run.limit
                                  /\ run.status = "Failed"
    BY <1>2, ProcessingIsStore
  <2>2. i \in Requests /\ old \in RunType /\ runs[i] = old /\ old.status = "Running"
    BY <2>1, HeldCopies DEF InFlight, CopiesAreCurrent
  <2>3. runs'[i] = run /\ UNCHANGED room /\ \A j \in Requests \ {i} : runs'[j] = runs[j]
    BY <2>1, <2>2 DEF Store, EngineInv, TypeOK
  <2>4. run.limit = old.limit
    BY <2>1 DEF SameIdentity
  <2> HIDE DEF old, i
  <2> QED
    BY <2>1, <2>2, <2>3, <2>4 DEF Stored, i
<1>3. ASSUME NEW r \in Requests, Dispatch(r) PROVE Woken(work[r].id)
  <2> DEFINE d == [run |-> work[r].id, by |-> r, key |-> KeyOf(r, work[r].event),
                   round |-> work[r].run.round, mentions |-> Mentions(org, work[r].run.targets)]
             i == work[r].id
  <2>1. /\ pc[r] = "dispatch" /\ UNCHANGED runs /\ room' = room \union {d}
    BY <1>3 DEF Dispatch
  <2>2. /\ work[r] \in WorkType /\ i \in Requests
        /\ runs[i] = work[r].run /\ runs[i] \in RunType /\ runs[i].status = "Running"
        /\ runs[i].round \in 1 .. runs[i].limit
        /\ \A e \in room : e.run = i => e.round < runs[i].round
    BY <2>1, HeldCopies DEF InFlight, CopiesAreCurrent, RoundsAreSpent
  <2>3. d \in Delivery
    <3>1. KeyOf(r, work[r].event) \in EventKeys
      BY <2>2 DEF KeyOf, EventKeys, WorkType, EventType
    <3>2. /\ Mentions(org, work[r].run.targets) \subseteq Members
          /\ work[r].id \in Requests /\ work[r].run.round \in Nat
      BY <2>2 DEF Mentions, WorkType, RunType
    <3> QED
      BY <3>1, <3>2 DEF Delivery
  <2>4. d.run = i /\ d.round = runs[i].round
    BY <2>2
  <2> HIDE DEF d
  <2> QED
    BY <2>1, <2>2, <2>3, <2>4 DEF Woken
<1>4. \A r \in Requests : pc[r] \in {"process", "dispatch"} => work[r].id \in Requests
  BY HeldCopies DEF InFlight
<1>5. ASSUME NEW r \in Requests, RequestStep(r)
      PROVE  Quiet \/ \E i \in Requests : Opened(i) \/ Stored(i) \/ Woken(i)
  <2>1. \/ Quiet
        \/ WriteRun(r)
        \/ /\ \/ NextRound(r) \/ RoundsExhausted(r) \/ ProcessResult(r)
              \/ ProcessCancel(r) \/ ProcessError(r)
           /\ pc[r] = "process"
        \/ Dispatch(r) /\ pc[r] = "dispatch"
    BY <1>5 DEF RequestStep, StartCollaboration, RefuseStart, ReceiveMessage, RefuseMessage,
                WriteEvent, RefuseEvent, Dispatch, DispatchRepeated, RefuseDispatch, Answer, Fail, Quiet,
                NextRound, RoundsExhausted, ProcessResult, ProcessCancel, ProcessError
  <2> QED
    BY <1>1, <1>2, <1>3, <1>4, <2>1
<1>6. CASE Quiet
  BY <1>6
<1> QED
  BY <1>5, <1>6 DEF Next, Restart, ChangeCluster, vars, Quiet

(* With one request at a time, a run that has ended stays as it ended.      *)
THEOREM FinalRuns == ASSUME Serial PROVE Spec => TerminalIsFinal
<1>1. "Running" \notin Terminal
  BY DEF Terminal
<1>2. SerialInv /\ [Next]_vars =>
        \A i \in Requests : runs[i] # NoRun /\ runs[i].status \in Terminal => runs'[i] = runs[i]
  <2> SUFFICES ASSUME SerialInv, [Next]_vars, NEW j \in Requests, runs[j].status \in Terminal
               PROVE  runs[j] # NoRun => runs'[j] = runs[j]
    OBVIOUS
  <2>1. CASE Quiet
    BY <2>1 DEF Quiet
  <2>2. ASSUME NEW i \in Requests, Opened(i) \/ Stored(i) \/ Woken(i)
        PROVE  runs[j] # NoRun => runs'[j] = runs[j]
    BY <1>1, <2>2 DEF Opened, Stored, Woken
  <2> QED
    BY <2>1, <2>2, SerialSteps
<1> QED
  BY <1>2, SerialInvariant, PTL DEF Spec, TerminalIsFinal

--------------------------------------------------------------------------------
(* The refinement of RunLifecycle.                                          *)

LEMMA LifecycleInit == Init => Lifecycle!LInit
BY DEF Init, Lifecycle!LInit, Wakes

(* Each of the four kinds of steps is a step of the life cycle or none.     *)
LEMMA LifecycleStep ==
  ASSUME Serial, SerialInv, [Next]_vars
  PROVE  [Lifecycle!LNext]_Lifecycle!lvars
<1> DEFINE status == [i \in Requests |-> IF runs[i] = NoRun THEN "None" ELSE runs[i].status]
           round == [i \in Requests |-> IF runs[i] = NoRun THEN 0 ELSE runs[i].round]
           limit == [i \in Requests |-> IF runs[i] = NoRun THEN 0 ELSE runs[i].limit]
           woken == [i \in Requests |-> {d.round : d \in Wakes(i)}]
<1>1. CASE Quiet
  BY <1>1 DEF Quiet, Lifecycle!lvars, Wakes
<1>2. UNCHANGED room => woken' = woken
  BY DEF Wakes
<1>3. ASSUME NEW r \in Requests, Opened(r) PROVE Lifecycle!Open(r)
  <2>1. runs'[r] # NoRun
    BY <1>3, NoRunAssumption DEF Opened
  <2>2. /\ status[r] = "None"
        /\ status' = [status EXCEPT ![r] = "Running"]
        /\ limit' = [limit EXCEPT ![r] = limit'[r]]
        /\ round' = round
    BY <1>3, <2>1 DEF Opened
  <2>3. woken' = woken
    BY <1>2, <1>3 DEF Opened
  <2> QED
    BY <2>2, <2>3 DEF Lifecycle!Open
<1>4. ASSUME NEW i \in Requests, Stored(i)
      PROVE  Lifecycle!Advance(i) \/ Lifecycle!Exhaust(i) \/ \E s \in Terminal : Lifecycle!End(i, s)
  <2>1. /\ runs[i] # NoRun /\ runs'[i] # NoRun
        /\ runs[i].round \in Nat /\ runs[i].limit \in Int
    BY <1>4, NoRunAssumption DEF Stored, RunType
  <2>2. /\ status[i] = "Running" /\ round[i] = runs[i].round /\ limit[i] = runs[i].limit
        /\ status' = [status EXCEPT ![i] = runs'[i].status]
        /\ round' = [round EXCEPT ![i] = runs'[i].round]
        /\ limit' = limit
        /\ woken' = woken
    BY <1>2, <1>4, <2>1 DEF Stored
  <2>3. CASE runs'[i].status = "Running" /\ runs'[i].round = runs[i].round + 1 /\ runs'[i].round <= runs[i].limit
    <3>1. round[i] < limit[i] /\ round' = [round EXCEPT ![i] = @ + 1]
      BY <2>1, <2>2, <2>3
    <3>2. status' = status
      BY <1>4, <2>1, <2>3 DEF Stored
    <3> QED
      BY <2>2, <3>1, <3>2 DEF Lifecycle!Advance
  <2>4. CASE runs'[i].status \in Terminal /\ runs'[i].round = runs[i].round
    <3>1. round' = round
      BY <2>1, <2>2, <2>4
    <3> QED
      BY <2>2, <2>4, <3>1 DEF Lifecycle!End
  <2>5. CASE runs'[i].status = "Failed" /\ runs'[i].round = runs[i].round + 1 /\ runs'[i].round > runs[i].limit
    <3>1. round[i] >= limit[i] /\ round' = [round EXCEPT ![i] = @ + 1]
      BY <2>1, <2>2, <2>5
    <3> QED
      BY <2>2, <2>5, <3>1 DEF Lifecycle!Exhaust
  <2> QED
    BY <1>4, <2>3, <2>4, <2>5 DEF Stored
<1>5. ASSUME NEW i \in Requests, Woken(i) PROVE Lifecycle!Wake(i)
  <2>1. PICK d \in Delivery : d.run = i /\ d.round = runs[i].round /\ room' = room \union {d}
    BY <1>5 DEF Woken
  <2>2. runs[i] # NoRun /\ runs[i].round \in Nat
    BY <1>5, NoRunAssumption DEF Woken, RunType
  <2>3. /\ status[i] = "Running" /\ round[i] = runs[i].round /\ limit[i] = runs[i].limit
        /\ status' = status /\ round' = round /\ limit' = limit
    BY <1>5, <2>2 DEF Woken
  <2>4. round[i] \notin woken[i]
    BY <1>5, <2>2, <2>3 DEF Woken, Wakes
  <2>5. woken' = [woken EXCEPT ![i] = @ \union {round[i]}]
    <3>1. /\ {e.round : e \in Wakes(i)'} = {e.round : e \in Wakes(i)} \union {d.round}
          /\ \A j \in Requests \ {i} : Wakes(j)' = Wakes(j)
      BY <2>1 DEF Wakes
    <3> QED
      BY <2>1, <2>3, <3>1
  <2> QED
    BY <1>5, <2>3, <2>4, <2>5 DEF Woken, Lifecycle!Wake
<1> HIDE DEF status, round, limit, woken
<1>6. Terminal = Lifecycle!Ended
  BY DEF Terminal, Lifecycle!Ended
<1> QED
  BY <1>1, <1>3, <1>4, <1>5, <1>6, SerialSteps DEF Lifecycle!LNext

(* With one request at a time, the engine implements the life cycle of a    *)
(* run: it opens, advances, wakes once in a round, and ends once.           *)
THEOREM Implementation == ASSUME Serial PROVE Spec => ImplementsLifecycle
<1>1. SerialInv /\ [Next]_vars => [Lifecycle!LNext]_Lifecycle!lvars
  BY LifecycleStep
<1> QED
  BY <1>1, LifecycleInit, SerialInvariant, PTL DEF Spec, ImplementsLifecycle, Lifecycle!Spec
================================================================================
