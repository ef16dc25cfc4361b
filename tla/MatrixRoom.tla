------------------------------ MODULE MatrixRoom ------------------------------
(***************************************************************************)
(* The loop through the room of a Collaboration: a Member's message that   *)
(* mentions somebody is pushed to the controller, which works out whom it  *)
(* is for, starts a run and posts the message again as the operator, with  *)
(* the mentions that wake the agents; the agents answer in the same room,  *)
(* and their answers are pushed to the controller like any message.        *)
(*                                                                         *)
(* This module joins the parts others detail: transactions and the set of  *)
(* seen messages (MatrixInbound) are a set of messages that wait; runs     *)
(* (CollaborationEngine) are one step that may fail; the expansion and the *)
(* policies are Organization. New here is what happens to one message      *)
(* between them: the mention index, the excludes, the wake-up, and the     *)
(* transaction ids of what the controller sends.                           *)
(***************************************************************************)
EXTENDS Organization, FiniteSets

CONSTANTS
  Handlers,       \* goroutines that handle a pushed message
  Agents,         \* the Members with spec.type Agent
  operator,       \* the user the controller posts as; no Member is bound to it
  Groups,         \* the Groups that exist, with their members
  Policies,       \* the Policies
  GroupStrategy,  \* spec.whenTargetIsGroup of the Collaboration
  GroupRole,
  Late,           \* whose status.matrixUserId is written after the start
  Texts,          \* what Members write: sets of [mentions, skip]
  FixedToken,     \* AGENTORGS_MATRIX_ACCESS_TOKEN is set
  MaxSaid,        \* bound: messages of humans
  MaxReplies,     \* bound: answers of agents
  MaxBoots,       \* bound: how often the controller starts
  MaxFaults       \* bound: failing calls and lost answers

Users == Target \union {operator}
Text == [mentions : SUBSET Users, skip : SUBSET Users]

ASSUME OperatorAssumption == operator \notin Target
ASSUME AgentsAssumption == Agents \subseteq Member
ASSUME TextsAssumption == Texts \subseteq Text
ASSUME TokenAssumption == FixedToken \in BOOLEAN
ASSUME RoomBoundsAssumption ==
  MaxSaid \in Nat /\ MaxReplies \in Nat /\ MaxBoots \in Nat \ {0} /\ MaxFaults \in Nat

VARIABLES
  room,       \* the messages of the room
  waiting,    \* those the homeserver has yet to push, by index
  known,      \* whose status.matrixUserId is set
  work,       \* what each goroutine has in hand
  boot,       \* which run of the process this is
  txnSeq,     \* Client.txnSeq
  used,       \* ids the homeserver remembers for the fixed token, by boot
  heard,      \* the mentions an agent has acted on: <<agent, index>>
  swallowed,  \* history: posts the homeserver took for repetitions
  excused,    \* history: messages that met a fault, a restart or a missing account
  faults

vars == <<room, waiting, known, work, boot, txnSeq, used, heard, swallowed, excused, faults>>

MaxPosts == (MaxSaid + MaxReplies) * (MaxBoots + 1)
Posts == 1 .. Len(room)
Idle == [step |-> "idle", post |-> 0, targets |-> {}, mentions |-> {}, id |-> 0]
Work ==
  [step : {"idle", "dispatch", "number", "send"}, post : Nat, targets : SUBSET Target,
   mentions : SUBSET Agents, id : Nat]

(* cause: the message this one answers; 0 when a human begins.              *)
Post == [by : Users, mentions : SUBSET Users, skip : SUBSET Users, cause : Nat]

TypeOK ==
  /\ room \in Seq(Post)
  /\ waiting \subseteq Posts
  /\ known \subseteq Target
  /\ work \in [Handlers -> Work]
  /\ \A h \in Handlers : work[h].step # "idle" => work[h].post \in Posts /\ work[h].targets # {}
  /\ boot \in 1 .. MaxBoots
  /\ txnSeq \in Nat
  /\ used \subseteq Nat \X (1 .. MaxBoots)
  /\ heard \subseteq Agents \X Posts
  /\ swallowed \subseteq [id : Nat, boot : 1 .. MaxBoots]
  /\ excused \subseteq Posts
  /\ faults \in 0 .. MaxFaults

Init ==
  /\ room = <<>>
  /\ waiting = {}
  /\ known = Target \ Late
  /\ work = [h \in Handlers |-> Idle]
  /\ boot = 1
  /\ txnSeq = 0
  /\ used = {}
  /\ heard = {}
  /\ swallowed = {}
  /\ excused = {}
  /\ faults = 0

--------------------------------------------------------------------------------
(* The room: who writes into it. The homeserver pushes every message of it, *)
(* those of the operator too.                                               *)

Appended(by, text, cause) ==
  /\ room' = Append(room, [by |-> by, mentions |-> text.mentions, skip |-> text.skip,
                           cause |-> cause])
  /\ waiting' = waiting \union {Len(room) + 1}

Said == {i \in Posts : room[i].by \in Member \ Agents}
Replies == {i \in Posts : room[i].by \in Agents}

Say(m) ==
  /\ m \notin Agents
  /\ Cardinality(Said) < MaxSaid
  /\ \E text \in Texts : Appended(m, text, 0)
  /\ UNCHANGED <<known, work, boot, txnSeq, used, heard, swallowed, excused, faults>>

(* groupPolicy "open" and requireMention: an agent acts on a message that   *)
(* mentions it, whoever sent it. Its answer may mention anybody but itself. *)
Reply(a, i) ==
  /\ a \in room[i].mentions
  /\ room[i].by # a
  /\ <<a, i>> \notin heard
  /\ Cardinality(Replies) < MaxReplies
  /\ heard' = heard \union {<<a, i>>}
  /\ \E text \in Texts :
       /\ text.skip = {} /\ a \notin text.mentions
       /\ Appended(a, text, i)
  /\ UNCHANGED <<known, work, boot, txnSeq, used, swallowed, excused, faults>>

(* The Matrix setup records the account of a Member or a Group.             *)
AccountRecorded(t) ==
  /\ known' = known \union {t}
  /\ UNCHANGED <<room, waiting, work, boot, txnSeq, used, heard, swallowed, excused, faults>>

--------------------------------------------------------------------------------
(* From a message to the members of a run.                                  *)

(* The organization does not change here: what Check and ResolveTargets say *)
(* about it.                                                                *)
MayStart == {g \in Member \X Target : Check(Groups, Policies, g[1], g[2], "Start")}
Resolvable == {t \in Target : Resolves(Groups, GroupStrategy, GroupRole, t)}
MembersOf == [t \in Resolvable |-> Resolved(Groups, GroupStrategy, GroupRole, t)]

(* dropSkippedTargets: an exclude takes a Member out of the targets, never  *)
(* a Group.                                                                 *)
Addressed(p) == p.mentions \ p.skip

(* MentionIndex, ResolveMany and parseDispatchIntentFromBody: the sender    *)
(* and every exclude is a Member, every mention a Member or a Group, and    *)
(* somebody is left.                                                        *)
Understood(p) ==
  /\ p.by \in known \intersect Member
  /\ p.mentions \subseteq known
  /\ p.skip \subseteq known \intersect Member
  /\ Addressed(p) # {}

Expanded(p) == (UNION {MembersOf[t] : t \in Addressed(p)}) \ p.skip

(* Mutant: the policies are asked about the named targets only.             *)
StartsNamed(p) == Expanded(p)

(* applyDispatchIntent and filterMembersByStartPolicy.                      *)
StartTargets(p) == {m \in Expanded(p) : <<p.by, m>> \in MayStart}

(* Mutant: one denied member refuses the whole start.                       *)
AllStartsAccepted(p) ==
  /\ Addressed(p) \subseteq Resolvable
  /\ \A t \in Addressed(p) \union Expanded(p) : <<p.by, t>> \in MayStart
  /\ StartTargets(p) # {}

StartAccepted(p) ==
  /\ \A t \in Addressed(p) : <<p.by, t>> \in MayStart
  /\ Addressed(p) \subseteq Resolvable
  /\ StartTargets(p) # {}

(* The next message the homeserver pushes.                                  *)
Pushed(i) == i \in waiting /\ \A j \in waiting : i <= j

(* handleMentionMessage and StartCollaboration up to the stored run.        *)
Start(h) ==
  /\ work[h].step = "idle"
  /\ \E i \in waiting :
       /\ Pushed(i)
       /\ Understood(room[i]) /\ StartAccepted(room[i])
       /\ waiting' = waiting \ {i}
       /\ work' = [work EXCEPT ![h] =
            [Idle EXCEPT !.step = "dispatch", !.post = i, !.targets = StartTargets(room[i])]]
  /\ UNCHANGED <<room, known, boot, txnSeq, used, heard, swallowed, excused, faults>>

(* No mention, or an error: logged, and the message is done with. So ends   *)
(* every message of the operator: "unknown sender".                         *)
Refuse(h) ==
  /\ work[h].step = "idle"
  /\ \E i \in waiting :
       /\ Pushed(i)
       /\ ~(Understood(room[i]) /\ StartAccepted(room[i]))
       /\ waiting' = waiting \ {i}
       /\ excused' = IF known = Target THEN excused ELSE excused \union {i}
  /\ UNCHANGED <<room, known, work, boot, txnSeq, used, heard, swallowed, faults>>

--------------------------------------------------------------------------------
(* The wake-up: dispatch, Deliver, SendMessageWithMentions.                 *)

(* Agents only; one of them without an account fails the whole dispatch.    *)
Dispatch(h) ==
  /\ work[h].step = "dispatch"
  /\ work[h].targets \intersect Agents \subseteq known
  /\ work' = [work EXCEPT ![h] =
       [@ EXCEPT !.step = "number", !.mentions = work[h].targets \intersect Agents]]
  /\ UNCHANGED <<room, waiting, known, boot, txnSeq, used, heard, swallowed, excused, faults>>

RefuseDispatch(h) ==
  /\ work[h].step = "dispatch"
  /\ ~(work[h].targets \intersect Agents \subseteq known)
  /\ work' = [work EXCEPT ![h] = Idle]
  /\ excused' = excused \union {work[h].post}
  /\ UNCHANGED <<room, waiting, known, boot, txnSeq, used, heard, swallowed, faults>>

(* Mutant: the id counts what was posted, not what was begun.               *)
NumberPosted(h) ==
  /\ work[h].step = "number"
  /\ txnSeq' = txnSeq
  /\ work' = [work EXCEPT ![h] =
       [@ EXCEPT !.step = "send", !.id = 1 + Cardinality({u \in used : u[2] = boot})]]
  /\ UNCHANGED <<room, waiting, known, boot, used, heard, swallowed, excused, faults>>

(* txnSeq.Add(1): atomic, and from 1 again in every process.                *)
Number(h) ==
  /\ work[h].step = "number"
  /\ txnSeq' = txnSeq + 1
  /\ work' = [work EXCEPT ![h] = [@ EXCEPT !.step = "send", !.id = txnSeq + 1]]
  /\ UNCHANGED <<room, waiting, known, boot, used, heard, swallowed, excused, faults>>

(* The homeserver keeps ids by access token. A login of the AppService user *)
(* makes a token of its own for every message, so that only a fixed token   *)
(* can repeat one.                                                          *)
Repeated(id) == FixedToken /\ \E u \in used : u[1] = id

(* The request reached the homeserver; when the answer is lost the engine   *)
(* reports an error, and what was posted stays.                             *)
Send(h) ==
  LET w == work[h] IN
  /\ w.step = "send"
  /\ ~Repeated(w.id)
  /\ Appended(operator, [mentions |-> w.mentions, skip |-> room[w.post].skip], w.post)
  /\ used' = IF FixedToken THEN used \union {<<w.id, boot>>} ELSE used
  /\ work' = [work EXCEPT ![h] = Idle]
  /\ UNCHANGED <<known, boot, txnSeq, heard, swallowed, excused, faults>>

(* 200 and the event id of the old message: Deliver returns no error.       *)
SendRepeated(h) ==
  /\ work[h].step = "send"
  /\ Repeated(work[h].id)
  /\ swallowed' = swallowed \union {[id |-> work[h].id, boot |-> boot]}
  /\ excused' = excused \union {work[h].post}
  /\ work' = [work EXCEPT ![h] = Idle]
  /\ UNCHANGED <<room, waiting, known, boot, txnSeq, used, heard, faults>>

(* The store, the API server, the login or the request fails.               *)
Fail(h) ==
  /\ faults < MaxFaults
  /\ work[h].step # "idle"
  /\ faults' = faults + 1
  /\ excused' = excused \union {work[h].post}
  /\ work' = [work EXCEPT ![h] = Idle]
  /\ UNCHANGED <<room, waiting, known, boot, txnSeq, used, heard, swallowed>>

(* What was in hand may not have been acknowledged, and is pushed again.    *)
Restart ==
  /\ boot < MaxBoots
  /\ boot' = boot + 1
  /\ txnSeq' = 0
  /\ \E again \in SUBSET {work[h].post : h \in {g \in Handlers : work[g].step # "idle"}} :
       waiting' = waiting \union again
  /\ excused' = excused \union
       {work[h].post : h \in {g \in Handlers : work[g].step # "idle"}}
  /\ work' = [h \in Handlers |-> Idle]
  /\ UNCHANGED <<room, known, used, heard, swallowed, faults>>

Handle(h) ==
  \/ Start(h) \/ Refuse(h)
  \/ Dispatch(h) \/ RefuseDispatch(h)
  \/ Number(h) \/ Send(h) \/ SendRepeated(h)

Next ==
  \/ \E m \in Member : Say(m)
  \/ \E a \in Agents, i \in Posts : Reply(a, i)
  \/ \E t \in Target \ known : AccountRecorded(t)
  \/ \E h \in Handlers : Handle(h) \/ Fail(h)
  \/ Restart

Spec == Init /\ [][Next]_vars

(* A goroutine that has a message goes on with it, and the homeserver       *)
(* pushes what waits.                                                       *)
FairSpec == Spec /\ \A h \in Handlers : WF_vars(Handle(h))

--------------------------------------------------------------------------------
(* Properties.                                                              *)

(* The message is for m: m is mentioned, or in a mentioned Group, is not    *)
(* excluded, and permitted to the sender.                                   *)
AskedFor(p, m) ==
  /\ \E t \in p.mentions \intersect Resolvable : m \in MembersOf[t]
  /\ m \notin p.skip
  /\ <<p.by, m>> \in MayStart

(* Whatever the operator posts answers a message of a Member, never one of  *)
(* its own, and wakes only agents that message is for.                      *)
WakesAreAskedFor ==
  \A i \in Posts : room[i].by = operator =>
    /\ room[i].cause \in Posts
    /\ room[room[i].cause].by \in Member
    /\ \A m \in room[i].mentions : m \in Agents /\ AskedFor(room[room[i].cause], m)

(* The homeserver takes a wake-up for a repetition only when the controller *)
(* was restarted in between: goroutines of one process never share an id.   *)
DropsNeedARestart ==
  \A s \in swallowed : \A u \in used : u[1] = s.id => u[2] < s.boot

(* What the sender may ask is asked of the agents in the end, although      *)
(* others in a mentioned Group are denied to him, unless a call failed, the *)
(* process stopped, an account was missing or the id was a repetition.      *)
Lawful(p) ==
  /\ p.by \in Member
  /\ p.mentions \subseteq Target /\ p.skip \subseteq Member /\ Addressed(p) # {}
  /\ Addressed(p) \subseteq Resolvable
  /\ \A t \in Addressed(p) : <<p.by, t>> \in MayStart
  /\ \E m \in Expanded(p) : <<p.by, m>> \in MayStart

Woken(i) == \E j \in Posts : room[j].by = operator /\ room[j].cause = i
AsksAreAnswered ==
  \A i \in 1 .. MaxPosts :
    (i \in Posts /\ Lawful(room[i])) ~> (i \in excused \/ Woken(i))

(* Why they can: a lawful message waits, is in a goroutine's hands, has     *)
(* woken somebody, or is excused. None is dropped on the way: a message the *)
(* index or the policies refuse while all accounts are there is not lawful. *)
Handled(i) == \E h \in Handlers : work[h].step # "idle" /\ work[h].post = i
NoAskIsLost ==
  \A i \in Posts : Lawful(room[i]) => i \in waiting \/ Handled(i) \/ i \in excused \/ Woken(i)

(* The inductive invariant behind WakesAreAskedFor: what a goroutine has in *)
(* hand is for the members it is about to wake.                             *)
RoomInv ==
  /\ TypeOK
  /\ WakesAreAskedFor
  /\ \A h \in Handlers : work[h].step # "idle" =>
       /\ room[work[h].post].by \in Member
       /\ \A m \in work[h].targets : AskedFor(room[work[h].post], m)
       /\ work[h].mentions \subseteq work[h].targets

(* And behind DropsNeedARestart: the ids of one process differ, those in    *)
(* hand and those the homeserver remembers.                                 *)
IdInv ==
  /\ \A u \in used : u[2] <= boot /\ (u[2] = boot => u[1] <= txnSeq)
  /\ \A h \in Handlers : work[h].step = "send" =>
       work[h].id <= txnSeq /\ <<work[h].id, boot>> \notin used
  /\ \A g, h \in Handlers :
       work[g].step = "send" /\ work[h].step = "send" /\ work[g].id = work[h].id => g = h
  /\ \A s \in swallowed : s.boot <= boot /\ \E u \in used : u[1] = s.id
  /\ DropsNeedARestart
================================================================================
