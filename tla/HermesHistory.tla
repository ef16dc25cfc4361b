----------------------------- MODULE HermesHistory -----------------------------
(***************************************************************************)
(* What a Hermes agent remembers of a group room (the Matrix overlay of    *)
(* hermes-agent): messages that do not mention it are kept in a buffer, and*)
(* the next message that does gets them as context.                        *)
(*                                                                         *)
(* Every event is a task of one asyncio loop; the Matrix client starts them*)
(* in the order of the room and does not wait for one before the next. A   *)
(* task gives way at each await of _resolve_message_context: the look-up of*)
(* the room, the native mention gating, the look-up of the display name.   *)
(* Direct chats return before the buffer; rooms have a buffer each, so one *)
(* room is enough here.                                                    *)
(***************************************************************************)
EXTENDS Naturals, Sequences, SequencesExt, FiniteSets

CONSTANTS
  Limit,          \* MATRIX_HISTORY_LIMIT, negative values taken as 0
  MaxEvents,      \* bound: messages of the room
  MaxRestarts     \* bound: how often the container is started again

ASSUME HistoryAssumption == Limit \in Nat /\ MaxEvents \in Nat /\ MaxRestarts \in Nat

VARIABLES
  room,       \* the messages of the room, in its order: [kind, permitted]
  step,       \* the await each task is at, by message
  entries,    \* HistoryBuffer._entries of the room
  context,    \* the history prefix a mention got, by message
  restarts,
  since,      \* history: recorded since the buffer was last empty on purpose
  dropped     \* history: recorded, and gone by the limit, a command, a restart

vars == <<room, step, entries, context, restarts, since, dropped>>

(* chat: no mention; blank: no mention and nothing to keep of it;           *)
(* permitted: DualAllowList.permits its sender.                             *)
Kinds == {"chat", "blank", "mention", "command"}
Event == [kind : Kinds, permitted : BOOLEAN]
Steps == {"isDm", "gating", "name", "done"}
Events == DOMAIN room

TypeOK ==
  /\ room \in Seq(Event)
  /\ step \in Seq(Steps) /\ Len(step) = Len(room)
  /\ entries \in Seq(Events) /\ Len(entries) <= Limit
  /\ context \in Seq(Seq(Events)) /\ Len(context) = Len(room)
  /\ restarts \in 0 .. MaxRestarts
  /\ since \in Seq(Events)
  /\ dropped \subseteq Events
  /\ \A i \in Events : context[i] # <<>> => room[i].kind = "mention" /\ step[i] = "done"

Init ==
  /\ room = <<>>
  /\ step = <<>>
  /\ entries = <<>>
  /\ context = <<>>
  /\ restarts = 0
  /\ since = <<>>
  /\ dropped = {}

--------------------------------------------------------------------------------
(* HistoryBuffer.                                                           *)

(* Mutant: a full buffer takes nothing more.                                *)
KeepOldest(list) == IF Len(list) > Limit THEN SubSeq(list, 1, Limit) ELSE list

(* Mutant: one entry too many.                                              *)
KeepOneMore(list) == IF Len(list) > Limit + 1 THEN Tail(list) ELSE list

(* The oldest entries go when there are more than the limit.                *)
KeepNewest(list) ==
  IF Len(list) > Limit THEN SubSeq(list, Len(list) - Limit + 1, Len(list)) ELSE list

(* Mutant: the prefix is read and the buffer kept.                          *)
DrainCopy(i) ==
  /\ context' = [context EXCEPT ![i] = entries]
  /\ since' = <<>>
  /\ UNCHANGED <<entries, dropped>>

Drain(i) ==
  /\ context' = [context EXCEPT ![i] = entries]
  /\ entries' = <<>>
  /\ since' = <<>>
  /\ UNCHANGED dropped

Clear ==
  /\ entries' = <<>>
  /\ dropped' = dropped \union ToSet(entries)
  /\ since' = <<>>
  /\ UNCHANGED context

Keep(i) ==
  LET list == Append(entries, i) IN
  /\ entries' = KeepNewest(list)
  /\ dropped' = dropped \union (ToSet(list) \ ToSet(entries'))
  /\ since' = Append(since, i)
  /\ UNCHANGED context

--------------------------------------------------------------------------------
(* _resolve_message_context, one action for each stretch between two awaits.*)

Moves(i, to) == step' = [step EXCEPT ![i] = to]

Arrive ==
  /\ Len(room) < MaxEvents
  /\ \E e \in Event : room' = Append(room, e)
  /\ step' = Append(step, "isDm")
  /\ context' = Append(context, <<>>)
  /\ UNCHANGED <<entries, restarts, since, dropped>>

Permit(i) ==
  /\ step[i] = "isDm"
  /\ Moves(i, IF room[i].permitted THEN "gating" ELSE "done")
  /\ UNCHANGED <<room, entries, context, restarts, since, dropped>>

(* The native adapter found no mention and returned None.                   *)
Unmentioned(i) ==
  /\ step[i] = "gating"
  /\ room[i].kind \in {"chat", "blank"}
  /\ Moves(i, "name")
  /\ UNCHANGED <<room, entries, context, restarts, since, dropped>>

(* The name is there. record keeps nothing without a limit or a text.       *)
Record(i) ==
  /\ step[i] = "name"
  /\ IF Limit = 0 \/ room[i].kind = "blank"
     THEN UNCHANGED <<entries, context, since, dropped>>
     ELSE Keep(i)
  /\ Moves(i, "done")
  /\ UNCHANGED <<room, restarts>>

Command(i) ==
  /\ step[i] = "gating"
  /\ room[i].kind = "command"
  /\ Clear
  /\ Moves(i, "done")
  /\ UNCHANGED <<room, restarts>>

Mention(i) ==
  /\ step[i] = "gating"
  /\ room[i].kind = "mention"
  /\ Drain(i)
  /\ Moves(i, "done")
  /\ UNCHANGED <<room, restarts>>

(* The buffer and the tasks are in memory, and the new process begins with  *)
(* the messages that come after it.                                         *)
Restart ==
  /\ restarts < MaxRestarts
  /\ restarts' = restarts + 1
  /\ step' = [i \in Events |-> "done"]
  /\ Clear
  /\ UNCHANGED room

Run(i) == Permit(i) \/ Unmentioned(i) \/ Record(i) \/ Command(i) \/ Mention(i)

Next == Arrive \/ (\E i \in Events : Run(i)) \/ Restart

Spec == Init /\ [][Next]_vars

--------------------------------------------------------------------------------
(* Properties.                                                              *)

Recorded == ToSet(entries) \union dropped \union UNION {ToSet(context[i]) : i \in Events}

(* Whatever the order in which tasks come back from their awaits, a message *)
(* is context once: it waits in the buffer, or went to one mention, or is   *)
(* gone; and nothing of a sender who is not permitted ever gets there.      *)
ContextIsUsedOnce ==
  /\ IsInjective(entries)
  /\ \A i \in Events : IsInjective(context[i])
  /\ ToSet(entries) \intersect dropped = {}
  /\ \A i \in Events : ToSet(context[i]) \intersect (ToSet(entries) \union dropped) = {}
  /\ \A i, j \in Events : i # j => ToSet(context[i]) \intersect ToSet(context[j]) = {}
  /\ \A i \in Recorded : room[i].permitted /\ room[i].kind = "chat" /\ step[i] = "done"

(* A mention answered now would get the newest messages recorded since the  *)
(* last mention, command or restart, in the order of recording, as many as  *)
(* the limit allows and no older ones.                                      *)
BufferIsTheNewest ==
  entries = SubSeq(since, IF Len(since) > Limit THEN Len(since) - Limit + 1 ELSE 1, Len(since))

(* Why: a task that goes on is of a permitted sender, and only a message    *)
(* without a mention asks for a name.                                       *)
TasksAreGated ==
  \A i \in Events :
    /\ step[i] \in {"gating", "name"} => room[i].permitted
    /\ step[i] = "name" => room[i].kind \in {"chat", "blank"}

HistoryInv == TypeOK /\ TasksAreGated /\ ContextIsUsedOnce /\ BufferIsTheNewest
================================================================================
