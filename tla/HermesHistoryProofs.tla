-------------------------- MODULE HermesHistoryProofs --------------------------
(***************************************************************************)
(* A message is context once, and a mention gets the newest ones, for      *)
(* every limit and every interleaving of the tasks of a room.              *)
(***************************************************************************)
EXTENDS HermesHistory, SequenceTheorems, TLAPS

USE HistoryAssumption

(* The messages of a list, when it grows at its end and when it is cut at   *)
(* its beginning.                                                           *)
LEMMA ListsGrow ==
  ASSUME NEW S, NEW list \in Seq(S), NEW x \in S
  PROVE  /\ Append(list, x) \in Seq(S)
         /\ Len(Append(list, x)) = Len(list) + 1
         /\ Append(list, x)[Len(list) + 1] = x
         /\ \A k \in 1 .. Len(list) : Append(list, x)[k] = list[k]
         /\ ToSet(Append(list, x)) = ToSet(list) \union {x}
         /\ IsInjective(list) /\ x \notin ToSet(list) => IsInjective(Append(list, x))
<1> DEFINE more == Append(list, x)
<1>1. /\ more \in Seq(S) /\ Len(list) \in Nat
      /\ Len(more) = Len(list) + 1
      /\ more[Len(list) + 1] = x
      /\ \A k \in 1 .. Len(list) : more[k] = list[k]
      /\ DOMAIN more = 1 .. Len(list) + 1
      /\ DOMAIN list = 1 .. Len(list)
  OBVIOUS
<1> HIDE DEF more
<1>2. \A k \in 1 .. Len(list) + 1 : k \in 1 .. Len(list) \/ k = Len(list) + 1
  BY <1>1
<1>3. ToSet(more) = ToSet(list) \union {x}
  <2>1. ToSet(more) \subseteq ToSet(list) \union {x}
    BY <1>1, <1>2 DEF ToSet
  <2>2. \A k \in 1 .. Len(list) : k \in 1 .. Len(list) + 1
    BY <1>1
  <2>3. Len(list) + 1 \in 1 .. Len(list) + 1
    BY <1>1
  <2> QED
    BY <1>1, <2>1, <2>2, <2>3 DEF ToSet
<1>4. ASSUME IsInjective(list), x \notin ToSet(list) PROVE IsInjective(more)
  <2>1. \A k \in 1 .. Len(list) : more[k] # x
    BY <1>1, <1>4 DEF ToSet
  <2> QED
    BY <1>1, <1>2, <1>4, <2>1 DEF IsInjective
<1> QED
  BY <1>1, <1>3, <1>4 DEF more

CutOf(list) == IF Len(list) > Limit THEN Len(list) - Limit ELSE 0

LEMMA NewestOfList ==
  ASSUME NEW S, NEW list \in Seq(S)
  PROVE  /\ KeepNewest(list) \in Seq(S)
         /\ CutOf(list) \in Nat
         /\ Len(KeepNewest(list)) = Len(list) - CutOf(list)
         /\ Len(KeepNewest(list)) <= Limit
         /\ \A k \in 1 .. Len(KeepNewest(list)) : KeepNewest(list)[k] = list[CutOf(list) + k]
         /\ ToSet(KeepNewest(list)) \subseteq ToSet(list)
         /\ IsInjective(list) => IsInjective(KeepNewest(list))
<1> DEFINE newest == KeepNewest(list)
           cut == CutOf(list)
<1>1. Len(list) \in Nat /\ cut \in Nat /\ cut <= Len(list)
  BY DEF CutOf
<1>2. /\ newest \in Seq(S)
      /\ Len(newest) = Len(list) - cut
      /\ \A k \in 1 .. Len(newest) : newest[k] = list[cut + k]
  <2>1. CASE Len(list) > Limit
    <3>1. \A k \in cut + 1 .. Len(list) : list[k] \in S
      BY <1>1
    <3>2. newest = SubSeq(list, cut + 1, Len(list))
      BY <2>1 DEF KeepNewest, CutOf
    <3>3. /\ newest \in Seq(S)
          /\ Len(newest) = IF cut + 1 <= Len(list) THEN Len(list) - (cut + 1) + 1 ELSE 0
          /\ \A k \in 1 .. Len(list) - (cut + 1) + 1 : newest[k] = list[cut + 1 + k - 1]
      <4> HIDE DEF cut, newest
      <4> QED
        BY <1>1, <3>1, <3>2, SubSeqProperties
    <3> HIDE DEF cut, newest
    <3>4. Len(newest) = Len(list) - cut
      BY <1>1, <3>3
    <3>5. \A k \in 1 .. Len(newest) : k \in 1 .. Len(list) - (cut + 1) + 1 /\ cut + 1 + k - 1 = cut + k
      BY <1>1, <3>4
    <3> QED
      BY <3>3, <3>4, <3>5
  <2>2. CASE ~(Len(list) > Limit)
    BY <1>1, <2>2 DEF KeepNewest, CutOf
  <2> QED
    BY <2>1, <2>2
<1>3. Len(newest) <= Limit
  BY <1>1, <1>2 DEF CutOf
<1> HIDE DEF cut, newest
<1>4. /\ DOMAIN newest = 1 .. Len(newest) /\ Len(newest) \in Nat
      /\ \A k \in 1 .. Len(newest) : cut + k \in DOMAIN list
  BY <1>1, <1>2
<1>5. ToSet(newest) \subseteq ToSet(list)
  BY <1>2, <1>4 DEF ToSet
<1>6. IsInjective(list) => IsInjective(newest)
  <2> SUFFICES ASSUME IsInjective(list), NEW a \in DOMAIN newest, NEW b \in DOMAIN newest,
                      newest[a] = newest[b]
               PROVE  a = b
    BY DEF IsInjective
  <2>1. list[cut + a] = list[cut + b] /\ cut + a \in DOMAIN list /\ cut + b \in DOMAIN list
    BY <1>2, <1>4
  <2>2. cut + a = cut + b
    BY <2>1 DEF IsInjective
  <2> QED
    BY <1>1, <1>4, <2>2
<1> QED
  BY <1>1, <1>2, <1>3, <1>5, <1>6 DEF cut, newest

(* Nothing is in an empty list.                                             *)
LEMMA EmptyList == ToSet(<<>>) = {} /\ IsInjective(<<>>)
  BY DEF ToSet, IsInjective

(* Cutting before the next message is kept, or only after it, is the same.  *)
LEMMA CutAndCutAgain ==
  ASSUME NEW S, NEW list \in Seq(S), NEW x \in S
  PROVE  KeepNewest(Append(KeepNewest(list), x)) = KeepNewest(Append(list, x))
<1> DEFINE n == Len(list)
           short == KeepNewest(list)
           more == Append(list, x)
           again == Append(short, x)
           cut == CutOf(list)
           left == KeepNewest(again)
           right == KeepNewest(more)
           cutL == CutOf(again)
           cutR == CutOf(more)
<1>1. /\ short \in Seq(S) /\ Len(short) = n - cut
      /\ \A k \in 1 .. Len(short) : short[k] = list[cut + k]
  BY NewestOfList
<1> HIDE DEF short
<1>2. /\ again \in Seq(S) /\ more \in Seq(S)
      /\ Len(again) = Len(short) + 1 /\ Len(more) = n + 1
      /\ \A k \in 1 .. Len(short) : again[k] = short[k]
      /\ \A k \in 1 .. n : more[k] = list[k]
      /\ again[Len(short) + 1] = x /\ more[n + 1] = x
  BY <1>1, ListsGrow
<1> HIDE DEF again, more
<1>3. /\ left \in Seq(S) /\ Len(left) = Len(again) - cutL
      /\ \A k \in 1 .. Len(left) : left[k] = again[cutL + k]
  BY <1>2, NewestOfList
<1>4. /\ right \in Seq(S) /\ Len(right) = Len(more) - cutR
      /\ \A k \in 1 .. Len(right) : right[k] = more[cutR + k]
  BY <1>2, NewestOfList
<1>5. n \in Nat /\ Len(short) \in Nat
  BY <1>1
<1>6. /\ cut \in Nat /\ cutL \in Nat /\ cutR \in Nat
      /\ cut <= n /\ cutL <= Len(short) + 1 /\ cutR = cut + cutL
  <2>1. /\ cut = IF n > Limit THEN n - Limit ELSE 0
        /\ cutL = IF Len(short) + 1 > Limit THEN Len(short) + 1 - Limit ELSE 0
        /\ cutR = IF n + 1 > Limit THEN n + 1 - Limit ELSE 0
    BY <1>2 DEF CutOf
  <2>2. Len(short) = n - cut
    BY <1>1
  <2> HIDE DEF n, short, cut, cutL, cutR
  <2>3. CASE n > Limit
    BY <1>5, <2>1, <2>2, <2>3
  <2>4. CASE ~(n > Limit)
    BY <1>5, <2>1, <2>2, <2>4
  <2> QED
    BY <2>3, <2>4
<1> HIDE DEF n, cut, left, right, cutL, cutR
<1>7. Len(left) = Len(short) + 1 - cutL /\ Len(right) = Len(left)
  <2>1. Len(again) = Len(short) + 1 /\ Len(more) = n + 1 /\ Len(short) = n - cut
    BY <1>1, <1>2
  <2>2. Len(left) = Len(again) - cutL /\ Len(right) = Len(more) - cutR
    BY <1>3, <1>4
  <2> QED
    BY <1>5, <1>6, <2>1, <2>2
<1>8. ASSUME NEW k \in 1 .. Len(left) PROVE left[k] = right[k]
  <2>1. cutL + k \in 1 .. Len(short) + 1 /\ cutR + k = cut + (cutL + k)
    BY <1>5, <1>6, <1>7, <1>8
  <2>2. CASE cutL + k = Len(short) + 1
    <3>1. cutR + k = n + 1
      BY <1>1, <1>5, <1>6, <2>1, <2>2
    <3> QED
      BY <1>2, <1>3, <1>4, <1>7, <2>2, <3>1
  <2>3. CASE cutL + k # Len(short) + 1
    <3>1. cutL + k \in 1 .. Len(short)
      BY <1>5, <1>6, <2>1, <2>3
    <3>2. cutR + k \in 1 .. n
      BY <1>1, <1>5, <1>6, <2>1, <3>1
    <3>3. left[k] = list[cut + (cutL + k)]
      BY <1>1, <1>2, <1>3, <3>1
    <3>4. right[k] = list[cutR + k]
      BY <1>2, <1>4, <1>7, <3>2
    <3> QED
      BY <2>1, <3>3, <3>4
  <2> QED
    BY <2>2, <2>3
<1>9. left = right
  BY <1>3, <1>4, <1>7, <1>8, SeqEqual
<1> QED
  BY <1>9 DEF left, right, short, again, more

(* BufferIsTheNewest in the terms of the code.                              *)
LEMMA BufferIsKept ==
  ASSUME NEW S, NEW list \in Seq(S)
  PROVE  SubSeq(list, IF Len(list) > Limit THEN Len(list) - Limit + 1 ELSE 1, Len(list))
           = KeepNewest(list)
BY SubSeqFull DEF KeepNewest

--------------------------------------------------------------------------------
(* The invariant.                                                           *)

LEMMA HistoryInit == Init => HistoryInv
<1> SUFFICES ASSUME Init PROVE HistoryInv
  OBVIOUS
<1>1. Events = {} /\ entries = <<>> /\ dropped = {}
  BY DEF Init, Events
<1>2. TypeOK /\ TasksAreGated
  BY <1>1 DEF Init, TypeOK, TasksAreGated
<1>3. Recorded = {}
  BY <1>1, EmptyList DEF Recorded
<1>4. ContextIsUsedOnce
  BY <1>1, <1>3, EmptyList DEF ContextIsUsedOnce
<1>5. BufferIsTheNewest
  <2>1. since = <<>> /\ since \in Seq(Nat) /\ Len(since) = 0
    BY DEF Init
  <2>2. KeepNewest(since) = <<>>
    BY <2>1 DEF KeepNewest
  <2> QED
    BY <1>1, <2>1, <2>2, BufferIsKept DEF BufferIsTheNewest
<1> QED
  BY <1>2, <1>4, <1>5 DEF HistoryInv

(* What the types say of the room and of its tasks.                         *)
LEMMA RoomTypes ==
  ASSUME TypeOK
  PROVE  /\ Events = 1 .. Len(room) /\ Len(room) \in Nat
         /\ DOMAIN step = Events /\ DOMAIN context = Events
         /\ \A i \in Events : room[i] \in Event /\ step[i] \in Steps /\ context[i] \in Seq(Events)
BY DEF TypeOK, Events

(* What is kept is of the room, and so is what is recorded.                 *)
LEMMA RecordedTypes ==
  ASSUME TypeOK
  PROVE  /\ Recorded \subseteq Events
         /\ ToSet(entries) \subseteq Events /\ dropped \subseteq Events
         /\ \A j \in Events : ToSet(context[j]) \subseteq Events
<1>1. \A j \in Events : ToSet(context[j]) \subseteq Events
  BY RoomTypes DEF ToSet
<1>2. ToSet(entries) \subseteq Events /\ dropped \subseteq Events
  BY DEF TypeOK, ToSet
<1> QED
  BY <1>1, <1>2 DEF Recorded

(* A message comes: nothing refers to it yet.                               *)
LEMMA ArriveKeepsInv ==
  ASSUME HistoryInv, Arrive
  PROVE  HistoryInv'
<1> DEFINE n == Len(room)
<1>1. PICK e \in Event : room' = Append(room, e)
  BY DEF Arrive
<1>2. /\ room \in Seq(Event) /\ step \in Seq(Steps) /\ context \in Seq(Seq(Events))
      /\ Len(step) = n /\ Len(context) = n /\ n \in Nat
  BY DEF HistoryInv, TypeOK
<1>3. /\ room' \in Seq(Event) /\ step' \in Seq(Steps)
      /\ Len(room') = n + 1 /\ Len(step') = n + 1 /\ Len(context') = n + 1
      /\ \A i \in 1 .. n : room'[i] = room[i] /\ step'[i] = step[i] /\ context'[i] = context[i]
      /\ room'[n + 1] = e /\ step'[n + 1] = "isDm" /\ context'[n + 1] = <<>>
  BY <1>1, <1>2 DEF Arrive, Steps
<1>4. Events = 1 .. n /\ Events' = 1 .. n + 1
  BY <1>2, <1>3 DEF Events
<1>5. \A i \in Events' : i \in Events \/ i = n + 1
  BY <1>2, <1>4
<1>6. Events \subseteq Events' /\ Seq(Events) \subseteq Seq(Events')
  BY <1>2, <1>4
<1>7. context' \in Seq(Seq(Events'))
  <2>1. context' = Append(context, <<>>)
    BY DEF Arrive
  <2>2. context \in Seq(Seq(Events')) /\ <<>> \in Seq(Events')
    BY <1>2, <1>6
  <2> QED
    BY <2>1, <2>2
<1>8. UNCHANGED <<entries, restarts, since, dropped>>
  BY DEF Arrive
<1>9. TypeOK'
  BY <1>3, <1>4, <1>5, <1>6, <1>7, <1>8 DEF HistoryInv, TypeOK
<1>10. TasksAreGated'
  BY <1>3, <1>4, <1>5 DEF HistoryInv, TasksAreGated
<1>11. Recorded' = Recorded /\ Recorded \subseteq Events
  <2>1. \A i : i \in Recorded' <=> i \in Recorded
    BY <1>3, <1>4, <1>5, <1>6, <1>8, EmptyList DEF Recorded
  <2> QED
    BY <2>1, RecordedTypes DEF HistoryInv
<1>12. ContextIsUsedOnce'
  <2> DEFINE Given(i) == ToSet(context[i])
  <2>0. /\ \A i \in Events : ToSet(context'[i]) = Given(i) /\ IsInjective(context'[i])
        /\ ToSet(context'[n + 1]) = {} /\ IsInjective(context'[n + 1])
    BY <1>3, <1>4, EmptyList DEF HistoryInv, ContextIsUsedOnce
  <2>1. \A i \in Events' : IsInjective(context'[i])
    BY <1>5, <2>0
  <2>2. \A i \in Events' : ToSet(context'[i]) \intersect (ToSet(entries) \union dropped) = {}
    BY <1>5, <2>0 DEF HistoryInv, ContextIsUsedOnce
  <2>3. \A i, j \in Events' : i # j => ToSet(context'[i]) \intersect ToSet(context'[j]) = {}
    <3>1. \A i, j \in Events : i # j => Given(i) \intersect Given(j) = {}
      BY DEF HistoryInv, ContextIsUsedOnce
    <3> HIDE DEF Given
    <3> QED
      BY <1>5, <2>0, <3>1
  <2>4. \A i \in Recorded' : room'[i].permitted /\ room'[i].kind = "chat" /\ step'[i] = "done"
    BY <1>3, <1>4, <1>11 DEF HistoryInv, ContextIsUsedOnce
  <2> QED
    BY <1>8, <2>1, <2>2, <2>3, <2>4 DEF HistoryInv, ContextIsUsedOnce
<1> QED
  BY <1>8, <1>9, <1>10, <1>12 DEF HistoryInv, BufferIsTheNewest

(* One task moves.                                                          *)
LEMMA TaskMoves ==
  ASSUME TypeOK, NEW i \in Events, NEW to \in Steps, Moves(i, to)
  PROVE  /\ step' \in Seq(Steps) /\ Len(step') = Len(step)
         /\ step'[i] = to /\ \A j \in Events \ {i} : step'[j] = step[j]
<1>1. step \in Seq(Steps) /\ Events = 1 .. Len(step)
  BY DEF TypeOK, Events
<1> QED
  BY <1>1, ExceptSeq DEF Moves

(* A task goes on and leaves the buffer alone.                              *)
LEMMA TaskKeepsInv ==
  ASSUME HistoryInv, NEW i \in Events, NEW to \in Steps, step[i] # "done", Moves(i, to),
         UNCHANGED <<room, entries, context, restarts, since, dropped>>,
         to \in {"gating", "name"} => room[i].permitted,
         to = "name" => room[i].kind \in {"chat", "blank"}
  PROVE  HistoryInv'
<1>1. TypeOK /\ Events' = Events
  BY DEF HistoryInv, Events
<1>2. /\ step' \in Seq(Steps) /\ Len(step') = Len(step)
      /\ step'[i] = to /\ \A j \in Events \ {i} : step'[j] = step[j]
  BY <1>1, TaskMoves
<1>3. TypeOK'
  BY <1>1, <1>2 DEF TypeOK
<1>4. TasksAreGated'
  BY <1>1, <1>2 DEF HistoryInv, TasksAreGated
<1>5. Recorded' = Recorded
  BY <1>1 DEF Recorded
<1>6. \A j \in Recorded : step[j] = "done" /\ j # i
  BY DEF HistoryInv, ContextIsUsedOnce
<1>7. Recorded \subseteq Events
  BY <1>1, RecordedTypes
<1>8. ContextIsUsedOnce'
  BY <1>1, <1>2, <1>5, <1>6, <1>7 DEF HistoryInv, ContextIsUsedOnce
<1> QED
  BY <1>3, <1>4, <1>8 DEF HistoryInv, BufferIsTheNewest

(* A message is kept, and what falls out of the buffer is gone.             *)
LEMMA KeepKeepsInv ==
  ASSUME HistoryInv, NEW i \in Events, step[i] = "name", room[i].kind # "blank",
         Keep(i), Moves(i, "done"), UNCHANGED <<room, restarts>>
  PROVE  HistoryInv'
<1> DEFINE list == Append(entries, i)
<1>1. TypeOK /\ Events' = Events /\ context' = context /\ "done" \in Steps
  BY DEF HistoryInv, Events, Keep, Steps
<1>2. /\ step' \in Seq(Steps) /\ Len(step') = Len(step)
      /\ step'[i] = "done" /\ \A j \in Events \ {i} : step'[j] = step[j]
  BY <1>1, TaskMoves
<1>3. i \notin Recorded
  BY DEF HistoryInv, ContextIsUsedOnce
<1>4. i \notin ToSet(entries) /\ i \notin dropped /\ \A j \in Events : i \notin ToSet(context[j])
  BY <1>3 DEF Recorded
<1>5. entries \in Seq(Events) /\ since \in Seq(Events)
  BY <1>1 DEF TypeOK
<1>6. /\ list \in Seq(Events)
      /\ ToSet(list) = ToSet(entries) \union {i}
      /\ IsInjective(list)
  BY <1>4, <1>5, ListsGrow DEF HistoryInv, ContextIsUsedOnce
<1>7. /\ entries' = KeepNewest(list)
      /\ dropped' = dropped \union (ToSet(list) \ ToSet(entries'))
      /\ since' = Append(since, i)
  BY DEF Keep
<1> HIDE DEF list
<1>8. /\ entries' \in Seq(Events) /\ Len(entries') <= Limit
      /\ ToSet(entries') \subseteq ToSet(list)
      /\ IsInjective(entries')
  BY <1>6, <1>7, NewestOfList
<1>9. TypeOK'
  <2>1. since' \in Seq(Events)
    BY <1>5, <1>7
  <2>2. dropped' \subseteq Events
    BY <1>1, <1>6, <1>7, RecordedTypes
  <2> QED
    BY <1>1, <1>2, <1>8, <2>1, <2>2 DEF TypeOK
<1>10. TasksAreGated'
  BY <1>1, <1>2 DEF HistoryInv, TasksAreGated
<1>11. room[i].permitted /\ room[i].kind = "chat"
  BY DEF HistoryInv, TasksAreGated
<1>12. ContextIsUsedOnce'
  <2>1. ToSet(entries') \intersect dropped' = {}
    BY <1>4, <1>6, <1>7, <1>8 DEF HistoryInv, ContextIsUsedOnce
  <2>2. \A j \in Events : ToSet(context[j]) \intersect (ToSet(entries') \union dropped') = {}
    BY <1>4, <1>6, <1>7, <1>8 DEF HistoryInv, ContextIsUsedOnce
  <2>3. Recorded' \subseteq Recorded \union {i}
    BY <1>1, <1>6, <1>7, <1>8 DEF Recorded
  <2>4. \A j \in Recorded' : room[j].permitted /\ room[j].kind = "chat" /\ step'[j] = "done"
    BY <1>1, <1>2, <1>11, <2>3, RecordedTypes DEF HistoryInv, ContextIsUsedOnce
  <2> QED
    BY <1>1, <1>8, <2>1, <2>2, <2>4 DEF HistoryInv, ContextIsUsedOnce
<1>13. BufferIsTheNewest'
  <2>1. entries = KeepNewest(since)
    BY <1>5, BufferIsKept DEF HistoryInv, BufferIsTheNewest
  <2>2. entries' = KeepNewest(since')
    BY <1>5, <1>7, <2>1, CutAndCutAgain DEF list
  <2>3. since' \in Seq(Events)
    BY <1>5, <1>7
  <2> QED
    BY <2>2, <2>3, BufferIsKept DEF BufferIsTheNewest
<1> QED
  BY <1>9, <1>10, <1>12, <1>13 DEF HistoryInv

(* An empty buffer is what there is after a mention, a command, a restart.  *)
LEMMA EmptyIsTheNewest == ASSUME entries' = <<>>, since' = <<>> PROVE BufferIsTheNewest'
<1>1. <<>> \in Seq(Nat) /\ Len(<<>>) = 0 /\ ~(0 > Limit)
  OBVIOUS
<1>2. KeepNewest(<<>>) = <<>>
  BY <1>1 DEF KeepNewest
<1>3. SubSeq(<<>>, IF Len(<<>>) > Limit THEN Len(<<>>) - Limit + 1 ELSE 1, Len(<<>>)) = <<>>
  BY <1>1, <1>2, BufferIsKept
<1> QED
  BY <1>3 DEF BufferIsTheNewest

(* A command or a restart empties the buffer.                               *)
LEMMA ClearKeepsInv ==
  ASSUME HistoryInv, Clear, UNCHANGED room, restarts' \in 0 .. MaxRestarts,
         step' \in Seq(Steps), Len(step') = Len(step),
         \A i \in Events : step'[i] = step[i] \/ step'[i] = "done"
  PROVE  HistoryInv'
<1>1. TypeOK /\ Events' = Events /\ context' = context
  BY DEF HistoryInv, Events, Clear
<1>2. /\ entries' = <<>> /\ since' = <<>>
      /\ dropped' = dropped \union ToSet(entries)
  BY DEF Clear
<1>3. TypeOK'
  <2>1. dropped' \subseteq Events
    BY <1>1, <1>2, RecordedTypes
  <2>2. entries' \in Seq(Events) /\ since' \in Seq(Events) /\ Len(entries') <= Limit
    BY <1>2
  <2> QED
    BY <1>1, <2>1, <2>2 DEF TypeOK
<1>4. TasksAreGated'
  BY <1>1 DEF HistoryInv, TasksAreGated
<1>5. ContextIsUsedOnce'
  <2>1. Recorded' = Recorded
    BY <1>1, <1>2, EmptyList DEF Recorded
  <2> QED
    BY <1>1, <1>2, <2>1, EmptyList, RecordedTypes DEF HistoryInv, ContextIsUsedOnce
<1> QED
  BY <1>2, <1>3, <1>4, <1>5, EmptyIsTheNewest DEF HistoryInv

(* A mention takes all of the buffer.                                       *)
LEMMA DrainKeepsInv ==
  ASSUME HistoryInv, NEW i \in Events, step[i] = "gating", room[i].kind = "mention",
         Drain(i), Moves(i, "done"), UNCHANGED <<room, restarts>>
  PROVE  HistoryInv'
<1>1. TypeOK /\ Events' = Events /\ dropped' = dropped /\ "done" \in Steps
  BY DEF HistoryInv, Events, Drain, Steps
<1>2. /\ step' \in Seq(Steps) /\ Len(step') = Len(step)
      /\ step'[i] = "done" /\ \A j \in Events \ {i} : step'[j] = step[j]
  BY <1>1, TaskMoves
<1>3. entries' = <<>> /\ since' = <<>> /\ entries \in Seq(Events)
  BY <1>1 DEF Drain, TypeOK
<1>4. /\ context' \in Seq(Seq(Events)) /\ Len(context') = Len(context)
      /\ context'[i] = entries /\ \A j \in Events \ {i} : context'[j] = context[j]
  <2>1. context \in Seq(Seq(Events)) /\ Events = 1 .. Len(context)
    BY <1>1 DEF TypeOK, Events
  <2> QED
    BY <1>3, <2>1, ExceptSeq DEF Drain
<1>5. context[i] = <<>>
  BY <1>1 DEF TypeOK
<1>6. TypeOK'
  <2>1. entries' \in Seq(Events) /\ since' \in Seq(Events) /\ Len(entries') <= Limit
    BY <1>3
  <2> QED
    BY <1>1, <1>2, <1>4, <2>1 DEF TypeOK
<1>7. TasksAreGated'
  BY <1>1, <1>2 DEF HistoryInv, TasksAreGated
<1>8. ContextIsUsedOnce'
  <2>1. Recorded' \subseteq Recorded
    BY <1>1, <1>3, <1>4, EmptyList DEF Recorded
  <2>2. \A j \in Events : IsInjective(context'[j])
    BY <1>4 DEF HistoryInv, ContextIsUsedOnce
  <2>3. \A j \in Events : ToSet(context'[j]) \intersect dropped = {}
    BY <1>4 DEF HistoryInv, ContextIsUsedOnce
  <2>4. \A j, k \in Events : j # k => ToSet(context'[j]) \intersect ToSet(context'[k]) = {}
    BY <1>4 DEF HistoryInv, ContextIsUsedOnce
  <2>5. \A j \in Recorded' : room[j].permitted /\ room[j].kind = "chat" /\ step'[j] = "done"
    BY <1>1, <1>2, <2>1, RecordedTypes DEF HistoryInv, ContextIsUsedOnce
  <2> QED
    BY <1>1, <1>3, <2>2, <2>3, <2>4, <2>5, EmptyList DEF ContextIsUsedOnce
<1> QED
  BY <1>3, <1>6, <1>7, <1>8, EmptyIsTheNewest DEF HistoryInv

(* Every step keeps the invariant.                                          *)
LEMMA HistoryStep == HistoryInv /\ [Next]_vars => HistoryInv'
<1> SUFFICES ASSUME HistoryInv, [Next]_vars PROVE HistoryInv'
  OBVIOUS
<1>1. CASE Arrive
  BY <1>1, ArriveKeepsInv
<1>2. ASSUME NEW i \in Events, Run(i) PROVE HistoryInv'
  <2>1. CASE Permit(i)
    <3>1. CASE room[i].permitted
      BY <2>1, <3>1, TaskKeepsInv DEF Permit, Steps
    <3>2. CASE ~room[i].permitted
      BY <2>1, <3>2, TaskKeepsInv DEF Permit, Steps
    <3> QED
      BY <3>1, <3>2
  <2>2. CASE Unmentioned(i)
    BY <2>2, TaskKeepsInv DEF Unmentioned, Steps, HistoryInv, TasksAreGated
  <2>3. CASE Record(i)
    <3>1. CASE Limit = 0 \/ room[i].kind = "blank"
      BY <2>3, <3>1, TaskKeepsInv DEF Record, Steps
    <3>2. CASE ~(Limit = 0 \/ room[i].kind = "blank")
      BY <2>3, <3>2, KeepKeepsInv DEF Record
    <3> QED
      BY <3>1, <3>2
  <2>4. CASE Command(i)
    <3>1. TypeOK /\ "done" \in Steps
      BY DEF HistoryInv, Steps
    <3> QED
      BY <2>4, <3>1, TaskMoves, ClearKeepsInv DEF Command, TypeOK
  <2>5. CASE Mention(i)
    BY <2>5, DrainKeepsInv DEF Mention
  <2> QED
    BY <1>2, <2>1, <2>2, <2>3, <2>4, <2>5 DEF Run
<1>3. CASE Restart
  <2>1. step' \in Seq(Steps) /\ Len(step') = Len(step) /\ \A i \in Events : step'[i] = "done"
    BY <1>3, RoomTypes DEF Restart, HistoryInv, TypeOK, Steps
  <2>2. restarts' \in 0 .. MaxRestarts
    BY <1>3 DEF Restart, HistoryInv, TypeOK
  <2> QED
    BY <1>3, <2>1, <2>2, ClearKeepsInv DEF Restart
<1>4. CASE UNCHANGED vars
  <2>1. Events' = Events /\ Recorded' = Recorded
    BY <1>4 DEF vars, Events, Recorded
  <2> QED
    BY <1>4, <2>1
       DEF vars, HistoryInv, TypeOK, TasksAreGated, ContextIsUsedOnce, BufferIsTheNewest
<1> QED
  BY <1>1, <1>2, <1>3, <1>4 DEF Next

(* The types hold always; so does the rest of the invariant.                *)
THEOREM TypeInvariant == Spec => []TypeOK
<1>1. HistoryInv => TypeOK
  BY DEF HistoryInv
<1> QED
  BY <1>1, HistoryInit, HistoryStep, PTL DEF Spec

(* However the tasks of a room overlap, a message of a permitted sender     *)
(* without a mention is context once, and no other message ever is.         *)
THEOREM UsedOnce == Spec => []ContextIsUsedOnce
<1>1. HistoryInv => ContextIsUsedOnce
  BY DEF HistoryInv
<1> QED
  BY <1>1, HistoryInit, HistoryStep, PTL DEF Spec

(* The buffer holds the newest of what was recorded since it was emptied,   *)
(* in its order, and no more than the limit.                                *)
THEOREM NewestKept == Spec => []BufferIsTheNewest
<1>1. HistoryInv => BufferIsTheNewest
  BY DEF HistoryInv
<1> QED
  BY <1>1, HistoryInit, HistoryStep, PTL DEF Spec
================================================================================
