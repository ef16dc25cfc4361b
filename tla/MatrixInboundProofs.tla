-------------------------- MODULE MatrixInboundProofs --------------------------
(***************************************************************************)
(* What AppServiceHandler guarantees for every room, every number of       *)
(* goroutines, restarts and timeouts.                                      *)
(***************************************************************************)
EXTENDS MatrixInbound, TLAPS

(* A goroutine in hand of a message has a message of the log.               *)
LEMMA MessageInHand ==
  ASSUME TypeOK, NEW h \in Handlers, handler[h].step # "none", AtMessage(h)
  PROVE  Message(h) \in Messages
<1>1. /\ handler[h].txn \in 1 .. Len(Log)
      /\ handler[h].pos \in Nat \ {0}
      /\ handler[h].pos <= Len(Log[handler[h].txn])
  BY DEF TypeOK, Push, AtMessage
<1>2. Log[handler[h].txn] \in Seq(Messages)
  BY <1>1, LogAssumption
<1> QED
  BY <1>1, <1>2 DEF Message

(* The types hold when the process starts for the first time.               *)
LEMMA TypeInit == Init => TypeOK
<1> SUFFICES ASSUME Init PROVE TypeOK
  OBVIOUS
<1>1. Len(Log) \in Nat
  BY LogAssumption
<1>2. NoPush \in Push /\ NoPush.step = "none"
  BY DEF NoPush, Push
<1>3. handler \in [Handlers -> Push] /\ \A h \in Handlers : handler[h].step = "none"
  BY <1>2 DEF Init
<1>4. boot \in Boots /\ timeouts \in 0 .. MaxTimeouts /\ next \in Nat \ {0}
  BY <1>1, BoundsAssumption DEF Init, Boots
<1>5. started \in [Messages -> [Boots -> Nat]]
  BY DEF Init
<1>6. subscribed \in BOOLEAN /\ seen \subseteq Mentions /\ dropped \subseteq Messages
  BY DEF Init
<1> QED
  BY <1>3, <1>4, <1>5, <1>6 DEF TypeOK

(* What a step of one goroutine does to the others, and to itself.          *)
LEMMA OneHandlerMoves ==
  ASSUME handler \in [Handlers -> Push], NEW h \in Handlers, NEW to \in Push,
         handler' = [handler EXCEPT ![h] = to]
  PROVE  /\ handler' \in [Handlers -> Push]
         /\ handler'[h] = to
         /\ \A g \in Handlers \ {h} : handler'[g] = handler[g]
OBVIOUS

(* The goroutines are inside the log.                                       *)
HandlersInLog ==
  \A h \in Handlers :
    /\ handler[h].step # "none" => handler[h].txn \in 1 .. Len(Log)
    /\ handler[h].step = "handle" => AtMessage(h)

(* A goroutine that moves inside the log leaves all of them there.          *)
LEMMA HandlersStayInLog ==
  ASSUME TypeOK, NEW h \in Handlers, NEW to \in Push,
         handler' = [handler EXCEPT ![h] = to],
         to.step # "none" => to.txn \in 1 .. Len(Log),
         to.step = "handle" => to.pos <= Len(Log[to.txn])
  PROVE  handler' \in [Handlers -> Push] /\ HandlersInLog'
<1>1. /\ handler' \in [Handlers -> Push]
      /\ handler'[h] = to
      /\ \A g \in Handlers \ {h} : handler'[g] = handler[g]
  BY OneHandlerMoves DEF TypeOK
<1>2. ASSUME NEW g \in Handlers
      PROVE  /\ handler'[g].step # "none" => handler'[g].txn \in 1 .. Len(Log)
             /\ handler'[g].step = "handle" => handler'[g].pos <= Len(Log[handler'[g].txn])
  BY <1>1 DEF TypeOK, AtMessage
<1> QED
  BY <1>1, <1>2 DEF HandlersInLog, AtMessage

(* Advancing past a message, and the other moves, as whole records.         *)
LEMMA Moves ==
  ASSUME NEW p \in Push
  PROVE  /\ [p EXCEPT !.live = FALSE] \in Push
         /\ [p EXCEPT !.live = FALSE].step = p.step
         /\ [p EXCEPT !.live = FALSE].txn = p.txn
         /\ [p EXCEPT !.live = FALSE].pos = p.pos
         /\ [p EXCEPT !.step = "handle"] \in Push
         /\ [p EXCEPT !.step = "handle"].step = "handle"
         /\ [p EXCEPT !.step = "handle"].txn = p.txn
         /\ [p EXCEPT !.step = "handle"].pos = p.pos
         /\ [p EXCEPT !.pos = @ + 1, !.step = "look"] \in Push
         /\ [p EXCEPT !.pos = @ + 1, !.step = "look"].step = "look"
         /\ [p EXCEPT !.pos = @ + 1, !.step = "look"].txn = p.txn
<1>1. p.pos + 1 \in Nat \ {0}
  BY DEF Push
<1> QED
  BY <1>1 DEF Push

(* Every step keeps them.                                                   *)
LEMMA TypeStep == TypeOK /\ [Next]_vars => TypeOK'
<1> SUFFICES ASSUME TypeOK, [Next]_vars PROVE TypeOK'
  OBVIOUS
<1> DEFINE Rest == /\ boot \in Boots
                   /\ subscribed \in BOOLEAN
                   /\ seen \subseteq Mentions
                   /\ next \in Nat \ {0}
                   /\ timeouts \in 0 .. MaxTimeouts
                   /\ started \in [Messages -> [Boots -> Nat]]
                   /\ dropped \subseteq Messages
<1>1. Len(Log) \in Nat /\ \A i \in 1 .. Len(Log) : Len(Log[i]) \in Nat
  BY LogAssumption
<1>2. Rest
  BY DEF TypeOK
<1>3. ASSUME handler' \in [Handlers -> Push], HandlersInLog', Rest' PROVE TypeOK'
  BY <1>3 DEF TypeOK, HandlersInLog
<1>4. ASSUME NEW h \in Handlers, Send(h) \/ GiveUp(h) \/ Handle(h)
      PROVE  handler' \in [Handlers -> Push] /\ HandlersInLog'
  <2> DEFINE p == handler[h]
  <2>1. /\ p \in Push
        /\ p.step # "none" => p.txn \in 1 .. Len(Log)
        /\ p.step = "handle" => p.pos <= Len(Log[p.txn])
    BY DEF TypeOK, AtMessage
  <2>2. CASE Send(h)
    <3> DEFINE to == [txn |-> next, pos |-> 1, step |-> "look", live |-> TRUE]
    <3>1. next \in 1 .. Len(Log)
      BY <1>1, <2>2 DEF Send, TypeOK
    <3>2. to \in Push /\ to.step = "look" /\ to.txn = next
      BY <3>1 DEF Push
    <3> QED
      BY <2>2, <3>1, <3>2, HandlersStayInLog DEF Send
  <2>3. CASE GiveUp(h)
    <3>1. handler' = [handler EXCEPT ![h] = [p EXCEPT !.live = FALSE]]
      BY <2>3 DEF GiveUp
    <3> QED
      BY <2>1, <3>1, Moves, HandlersStayInLog
  <2>4. CASE Skip(h) \/ Start(h) \/ DropMessage(h)
    <3>1. /\ handler' = [handler EXCEPT ![h] = [p EXCEPT !.pos = @ + 1, !.step = "look"]]
          /\ p.step # "none"
      BY <2>4 DEF Skip, Start, DropMessage, Advance
    <3> QED
      BY <2>1, <3>1, Moves, HandlersStayInLog
  <2>5. CASE MarkSeen(h)
    <3>1. /\ handler' = [handler EXCEPT ![h] = [p EXCEPT !.step = "handle"]]
          /\ p.step # "none"
          /\ p.pos <= Len(Log[p.txn])
      BY <2>5 DEF MarkSeen, AtMessage
    <3> QED
      BY <2>1, <3>1, Moves, HandlersStayInLog
  <2>6. CASE Reply(h)
    <3>1. NoPush \in Push /\ NoPush.step = "none"
      BY DEF NoPush, Push
    <3> QED
      BY <2>6, <3>1, HandlersStayInLog DEF Reply
  <2> QED
    BY <1>4, <2>2, <2>3, <2>4, <2>5, <2>6 DEF Handle
<1>5. ASSUME NEW h \in Handlers, Send(h) \/ GiveUp(h) \/ Handle(h) PROVE Rest'
  <2>1. CASE Send(h) \/ Skip(h)
    BY <1>2, <2>1 DEF Send, Skip
  <2>2. CASE GiveUp(h)
    BY <1>2, <2>2, BoundsAssumption DEF GiveUp
  <2>3. CASE MarkSeen(h)
    BY <1>2, <2>3 DEF MarkSeen
  <2>4. CASE Start(h) \/ DropMessage(h)
    <3>1. Message(h) \in Messages
      BY <2>4, MessageInHand DEF Start, DropMessage, TypeOK
    <3>2. CASE Start(h)
      <4>1. started' \in [Messages -> [Boots -> Nat]]
        BY <1>2, <3>1, <3>2 DEF Start
      <4> QED
        BY <1>2, <3>2, <4>1 DEF Start
    <3>3. CASE DropMessage(h)
      BY <1>2, <3>1, <3>3 DEF DropMessage
    <3> QED
      BY <2>4, <3>2, <3>3
  <2>5. CASE Reply(h)
    <3>1. next + 1 \in Nat \ {0}
      BY <1>2
    <3> QED
      BY <1>2, <2>5, <3>1 DEF Reply
  <2> QED
    BY <1>5, <2>1, <2>2, <2>3, <2>4, <2>5 DEF Handle
<1>6. CASE Subscribe
  BY <1>1, <1>6 DEF Subscribe, TypeOK, AtMessage
<1>7. CASE Restart
  <2>1. NoPush \in Push /\ NoPush.step = "none"
    BY DEF NoPush, Push
  <2>2. handler' \in [Handlers -> Push] /\ \A h \in Handlers : handler'[h].step = "none"
    BY <1>7, <2>1 DEF Restart
  <2>3. boot + 1 \in Boots
    BY <1>2, <1>7, BoundsAssumption DEF Restart, Boots
  <2>4. Rest'
    BY <1>2, <1>7, <2>3 DEF Restart
  <2> QED
    BY <1>3, <2>2, <2>4 DEF HandlersInLog
<1>8. CASE UNCHANGED vars
  BY <1>8 DEF vars, TypeOK, AtMessage
<1> HIDE DEF Rest
<1> QED
  BY <1>3, <1>4, <1>5, <1>6, <1>7, <1>8 DEF Next

(* Every state is well typed; a goroutine never runs past its transaction.  *)
THEOREM TypeInvariant == Spec => []TypeOK
BY TypeInit, TypeStep, PTL DEF Spec

--------------------------------------------------------------------------------
(* Only the goroutine that marked a message has it in hand.                 *)

(* The invariant holds of a process that has seen nothing.                  *)
LEMMA InboundInit == Init => InboundInv
<1> SUFFICES ASSUME Init PROVE InboundInv
  OBVIOUS
<1>1. \A h \in Handlers : handler[h].step = "none"
  BY DEF Init, NoPush
<1>2. \A m \in Messages, b \in Boots : started[m][b] = 0
  BY DEF Init
<1>3. 1 \in Boots
  BY BoundsAssumption DEF Boots
<1> QED
  BY <1>1, <1>2, <1>3, TypeInit DEF Init, InboundInv

(* A step of a goroutine keeps it.                                          *)
LEMMA HandlerKeepsInv ==
  ASSUME InboundInv, TypeOK', NEW h \in Handlers, Send(h) \/ GiveUp(h) \/ Handle(h)
  PROVE  InboundInv'
<1>1. /\ handler[h] \in Push
      /\ \A g \in Handlers \ {h} :
           handler'[g] = handler[g] /\ Message(g)' = Message(g)
      /\ boot' = boot
  BY DEF Send, GiveUp, Handle, Skip, MarkSeen, Start, DropMessage, Reply, Advance,
         InboundInv, TypeOK, Message
<1>2. CASE UNCHANGED <<seen, started>> /\ handler'[h].step # "handle"
  BY <1>1, <1>2 DEF InboundInv
<1>3. CASE GiveUp(h)
  <2>1. handler'[h] = [handler[h] EXCEPT !.live = FALSE]
    BY <1>3 DEF GiveUp, InboundInv, TypeOK
  <2>2. handler'[h].step = handler[h].step
    BY <1>1, <2>1, Moves
  <2>3. /\ handler'[h].txn = handler[h].txn
        /\ handler'[h].pos = handler[h].pos
    <3>1. /\ [handler[h] EXCEPT !.live = FALSE].txn = handler[h].txn
          /\ [handler[h] EXCEPT !.live = FALSE].pos = handler[h].pos
      BY <1>1 DEF Push
    <3> QED
      BY <2>1, <3>1
  <2>4. \A g \in Handlers : Message(g)' = Message(g)
    BY <1>1, <2>3 DEF Message
  <2>5. UNCHANGED <<boot, seen, started>>
    BY <1>3 DEF GiveUp
  <2>6. \A g \in Handlers : handler'[g].step = handler[g].step
    BY <1>1, <2>2
  <2> QED
    BY <2>4, <2>5, <2>6 DEF InboundInv
<1>4. CASE MarkSeen(h)
  <2>1. handler'[h] = [handler[h] EXCEPT !.step = "handle"]
    BY <1>4 DEF MarkSeen, InboundInv, TypeOK
  <2>2. /\ handler'[h].txn = handler[h].txn
        /\ handler'[h].pos = handler[h].pos
    <3>1. /\ [handler[h] EXCEPT !.step = "handle"].txn = handler[h].txn
          /\ [handler[h] EXCEPT !.step = "handle"].pos = handler[h].pos
      BY <1>1, Moves
    <3> QED
      BY <2>1, <3>1
  <2>3. Message(h) \in Messages /\ Message(h) \notin seen /\ seen' = seen \union {Message(h)}
    BY <1>4, MessageInHand DEF MarkSeen, InboundInv
  <2>4. boot \in Boots /\ started[Message(h)][boot] = 0
    BY <2>3 DEF InboundInv, TypeOK
  <2>5. UNCHANGED <<boot, started>>
    BY <1>4 DEF MarkSeen
  <2>6. \A g \in Handlers : Message(g)' = Message(g)
    BY <1>1, <2>2 DEF Message
  <2>7. \A g \in Handlers \ {h} : handler'[g].step = handler[g].step
    BY <1>1
  <2>8. \A g \in Handlers : handler'[g].step = "handle" =>
          /\ Message(g)' \in seen'
          /\ started'[Message(g)'][boot'] = 0
    BY <2>3, <2>4, <2>5, <2>6, <2>7 DEF InboundInv
  <2>9. \A f, g \in Handlers :
          handler'[f].step = "handle" /\ handler'[g].step = "handle"
            /\ Message(f)' = Message(g)' => f = g
    BY <2>3, <2>6, <2>7 DEF InboundInv
  <2>10. \A n \in Messages : started'[n][boot'] > 0 => n \in seen'
    BY <2>3, <2>5 DEF InboundInv
  <2>11. \A n \in Messages, b \in Boots :
           started'[n][b] <= 1 /\ (b > boot' => started'[n][b] = 0)
    BY <2>5 DEF InboundInv
  <2> QED
    BY <2>8, <2>9, <2>10, <2>11 DEF InboundInv
<1>5. CASE Start(h)
  <2> DEFINE m == Message(h)
  <2>1. handler'[h].step = "look"
    <3>1. handler'[h] = [handler[h] EXCEPT !.pos = @ + 1, !.step = "look"]
      BY <1>5 DEF Start, Advance, InboundInv, TypeOK
    <3> QED
      BY <1>1, <3>1, Moves
  <2>2. /\ m \in Messages
        /\ boot \in Boots
        /\ m \in seen
        /\ started[m][boot] = 0
    BY <1>5, MessageInHand DEF Start, InboundInv, TypeOK
  <2>3. /\ started'[m][boot] = 1
        /\ \A b \in Boots \ {boot} : started'[m][b] = started[m][b]
        /\ \A n \in Messages \ {m} : started'[n] = started[n]
    BY <1>5, <2>2 DEF Start, InboundInv, TypeOK
  <2>4. \A n \in Messages, b \in Boots :
          started'[n][b] <= 1 /\ (b > boot => started'[n][b] = 0)
    BY <2>2, <2>3 DEF InboundInv, Boots
  <2>5. \A n \in Messages : started'[n][boot] > 0 => n \in seen
    BY <2>2, <2>3 DEF InboundInv
  <2>6. \A g \in Handlers \ {h} : handler[g].step = "handle" =>
          /\ Message(g) \in Messages
          /\ Message(g) # m
    BY <1>5, MessageInHand DEF Start, InboundInv, TypeOK
  <2>7. \A g \in Handlers : handler'[g].step = "handle" =>
          /\ Message(g)' \in seen
          /\ started'[Message(g)'][boot] = 0
    BY <1>1, <2>1, <2>3, <2>6 DEF InboundInv
  <2>8. \A f, g \in Handlers :
          handler'[f].step = "handle" /\ handler'[g].step = "handle"
            /\ Message(f)' = Message(g)' => f = g
    BY <1>1, <2>1 DEF InboundInv
  <2> QED
    BY <1>1, <1>5, <2>4, <2>5, <2>7, <2>8 DEF Start, InboundInv
<1>6. CASE Send(h) \/ Skip(h) \/ DropMessage(h) \/ Reply(h)
  <2>1. handler'[h].step # "handle"
    <3>1. CASE Send(h) \/ Reply(h)
      BY <3>1 DEF Send, Reply, NoPush, InboundInv, TypeOK
    <3>2. CASE Skip(h) \/ DropMessage(h)
      <4>1. handler'[h] = [handler[h] EXCEPT !.pos = @ + 1, !.step = "look"]
        BY <3>2 DEF Skip, DropMessage, Advance, InboundInv, TypeOK
      <4> QED
        BY <1>1, <4>1, Moves
    <3> QED
      BY <1>6, <3>1, <3>2
  <2> QED
    BY <1>2, <1>6, <2>1 DEF Send, Skip, DropMessage, Reply
<1> QED
  BY <1>3, <1>4, <1>5, <1>6 DEF Handle

(* Every step keeps the invariant; a restart forgets what was seen, and     *)
(* counts from zero.                                                        *)
LEMMA InboundStep == InboundInv /\ [Next]_vars => InboundInv'
<1> SUFFICES ASSUME InboundInv, [Next]_vars PROVE InboundInv'
  OBVIOUS
<1>1. TypeOK'
  BY TypeStep DEF InboundInv
<1>2. ASSUME NEW h \in Handlers, Send(h) \/ GiveUp(h) \/ Handle(h) PROVE InboundInv'
  BY <1>1, <1>2, HandlerKeepsInv
<1>3. CASE Subscribe
  BY <1>1, <1>3 DEF Subscribe, InboundInv, Message
<1>4. CASE Restart
  <2>1. \A h \in Handlers : handler'[h].step = "none"
    BY <1>4 DEF Restart, NoPush
  <2>2. boot \in 1 .. MaxBoots /\ boot' = boot + 1 /\ boot' \in Boots /\ started' = started
    BY <1>1, <1>4 DEF Restart, InboundInv, TypeOK, Boots
  <2>3. \A m \in Messages : started'[m][boot'] = 0
    BY <2>2, BoundsAssumption DEF InboundInv
  <2>4. \A m \in Messages, b \in Boots :
          started'[m][b] <= 1 /\ (b > boot' => started'[m][b] = 0)
    BY <2>2, BoundsAssumption DEF InboundInv, Boots
  <2> QED
    BY <1>1, <2>1, <2>3, <2>4 DEF InboundInv
<1>5. CASE UNCHANGED vars
  BY <1>1, <1>5 DEF vars, InboundInv, Message
<1> QED
  BY <1>2, <1>3, <1>4, <1>5 DEF Next

(* However many attempts of a transaction overlap, a message starts one run *)
(* at most while the process lives.                                         *)
THEOREM AtMostOncePerBoot == Spec => []OneStartPerBoot
<1>1. InboundInv => OneStartPerBoot
  BY DEF InboundInv, OneStartPerBoot
<1> QED
  BY <1>1, InboundInit, InboundStep, PTL DEF Spec

--------------------------------------------------------------------------------
(* Nothing is lost between the acknowledgement and the start of a run.      *)

(* What is accounted for stays so: a message leaves a goroutine's hands     *)
(* started or dropped, and a restart drops what was in hand.                *)
LEMMA AccountedStays ==
  ASSUME TypeOK, [Next]_vars, NEW m \in Messages, Accounted(m)
  PROVE  Accounted(m)'
<1>1. CASE UNCHANGED <<started, dropped, handler>>
  BY <1>1 DEF Accounted, InHand, Message
<1>2. CASE Restart
  BY <1>2 DEF Restart, Accounted
<1>3. ASSUME NEW h \in Handlers, Send(h) \/ GiveUp(h) \/ Handle(h)
      PROVE  Accounted(m)'
  <2>1. \A g \in Handlers \ {h} : InHand(g, m) => InHand(g, m)'
    BY <1>3 DEF Send, GiveUp, Handle, Skip, MarkSeen, Start, DropMessage, Reply, Advance,
                TypeOK, InHand, Message
  <2>2. \A b \in Boots : started[m][b] > 0 => started'[m][b] > 0
    <3>1. CASE started' = started
      BY <3>1
    <3>2. CASE Start(h)
      BY <3>2 DEF Start, TypeOK
    <3> QED
      BY <1>3, <3>1, <3>2 DEF Send, GiveUp, Handle, Skip, MarkSeen, DropMessage, Reply
  <2>3. dropped \subseteq dropped'
    BY <1>3 DEF Send, GiveUp, Handle, Skip, MarkSeen, Start, DropMessage, Reply
  <2>4. CASE ~InHand(h, m)
    BY <2>1, <2>2, <2>3, <2>4 DEF Accounted
  <2>5. CASE InHand(h, m)
    <3>1. handler[h].step = "handle" /\ Message(h) = m
      BY <2>5 DEF InHand
    <3>2. CASE GiveUp(h)
      <4>1. handler'[h] = [handler[h] EXCEPT !.live = FALSE] /\ handler[h] \in Push
        BY <3>2 DEF GiveUp, TypeOK
      <4>2. /\ handler'[h].step = handler[h].step
            /\ handler'[h].txn = handler[h].txn
            /\ handler'[h].pos = handler[h].pos
        BY <4>1 DEF Push
      <4> QED
        BY <3>1, <4>2 DEF Accounted, InHand, Message
    <3>3. CASE Start(h)
      <4>1. boot \in Boots /\ started[m][boot] \in Nat
        BY DEF TypeOK
      <4>2. started'[m][boot] = started[m][boot] + 1
        BY <3>1, <3>3, <4>1 DEF Start, TypeOK
      <4> QED
        BY <4>1, <4>2 DEF Accounted
    <3>4. CASE DropMessage(h)
      BY <3>1, <3>4 DEF DropMessage, Accounted
    <3> QED
      BY <1>3, <3>1, <3>2, <3>3, <3>4 DEF Send, Handle, Skip, MarkSeen, Reply
  <2> QED
    BY <2>4, <2>5
<1> QED
  BY <1>1, <1>2, <1>3 DEF Next, Subscribe, vars

(* The invariant holds of a process that has been sent nothing.             *)
LEMMA AccountInit == Init => AccountInv
<1> SUFFICES ASSUME Init PROVE AccountInv
  OBVIOUS
<1>1. \A h \in Handlers : handler[h].step = "none"
  BY DEF Init, NoPush
<1>2. next = 1 /\ Len(Log) \in Nat /\ seen = {}
  BY LogAssumption DEF Init
<1>3. AcknowledgedIsAccountedFor
  BY <1>2 DEF AcknowledgedIsAccountedFor, Acknowledged
<1> QED
  BY <1>1, <1>2, <1>3 DEF AccountInv, Awaited

(* One goroutine takes a step.                                              *)
LEMMA HandlerKeepsAccount ==
  ASSUME TypeOK, AccountInv, [Next]_vars, NEW h \in Handlers, Send(h) \/ GiveUp(h) \/ Handle(h)
  PROVE  AccountInv'
<1> DEFINE p == handler[h]
           q == handler'[h]
<1>1. /\ p \in Push
      /\ Len(Log) \in Nat
      /\ next \in Nat \ {0}
      /\ Mentions \subseteq Messages
      /\ \A g \in Handlers \ {h} : handler'[g] = handler[g]
  BY LogAssumption, MentionsAssumption
     DEF TypeOK, Send, GiveUp, Handle, Skip, MarkSeen, Start, DropMessage, Reply, Advance
<1>2. \A m \in Mentions : Accounted(m) => Accounted(m)'
  BY <1>1, AccountedStays
<1>3. \A g \in Handlers \ {h} :
        handler[g].step # "none" /\ PassedIsAccountedFor(g) => PassedIsAccountedFor(g)'
  BY <1>1, <1>2 DEF PassedIsAccountedFor
<1>4. \A g \in Handlers \ {h} : Awaited(g)' <=> Awaited(g)
  BY <1>1 DEF Awaited
<1>5. seen \subseteq Mentions
  BY DEF TypeOK
<1>6. /\ next' <= Len(Log) + 1
      /\ \A g \in Handlers : Awaited(g)' => handler'[g].txn = next'
      /\ \A f, g \in Handlers : Awaited(f)' /\ Awaited(g)' => f = g
      /\ q.step # "none" => PassedIsAccountedFor(h)'
      /\ \A m \in seen' : Accounted(m)'
      /\ AcknowledgedIsAccountedFor'
  <2>1. CASE next' = next
    <3>1. AcknowledgedIsAccountedFor'
      BY <1>2, <2>1 DEF AccountInv, AcknowledgedIsAccountedFor, Acknowledged
    <3>2. CASE Send(h)
      <4>1. q = [txn |-> next, pos |-> 1, step |-> "look", live |-> TRUE]
        BY <3>2 DEF Send, TypeOK
      <4>2. \A g \in Handlers : ~Awaited(g)
        BY <3>2 DEF Send, Busy, Awaited
      <4>3. PassedIsAccountedFor(h)'
        <5>1. next \in 1 .. Len(Log)
          BY <1>1, <3>2 DEF Send
        <5>2. DOMAIN Log[next] = 1 .. Len(Log[next]) /\ Len(Log[next]) \in Nat
          BY <5>1, LogAssumption
        <5> QED
          BY <4>1, <5>2 DEF PassedIsAccountedFor
      <4>4. seen' = seen
        BY <3>2 DEF Send
      <4> QED
        BY <1>2, <1>4, <1>5, <2>1, <3>1, <4>1, <4>2, <4>3, <4>4 DEF AccountInv, Awaited
    <3>3. CASE GiveUp(h)
      <4>1. q = [p EXCEPT !.live = FALSE] /\ p.step # "none" /\ seen' = seen
        BY <3>3 DEF GiveUp, TypeOK
      <4>2. q.txn = p.txn /\ q.pos = p.pos /\ ~q.live
        <5>1. \A x \in Push : [x EXCEPT !.live = FALSE].live = FALSE
          BY DEF Push
        <5> QED
          BY <1>1, <4>1, <5>1, Moves
      <4>3. PassedIsAccountedFor(h)'
        BY <1>2, <4>1, <4>2 DEF AccountInv, PassedIsAccountedFor
      <4>4. ~Awaited(h)'
        BY <4>2 DEF Awaited
      <4> QED
        BY <1>1, <1>2, <1>4, <1>5, <2>1, <3>1, <4>1, <4>2, <4>3, <4>4 DEF AccountInv
    <3>4. CASE Skip(h) \/ Start(h) \/ DropMessage(h)
      <4>1. /\ q = [p EXCEPT !.pos = @ + 1, !.step = "look"]
            /\ p.step # "none"
            /\ seen' = seen
        BY <3>4 DEF Skip, Start, DropMessage, Advance, TypeOK
      <4>2. q.txn = p.txn /\ q.pos = p.pos + 1 /\ q.live = p.live
        BY <1>1, <4>1 DEF Push
      <4>3. ASSUME NEW m \in Mentions, m = Log[p.txn][p.pos] PROVE Accounted(m)'
        <5>1. CASE Skip(h)
          BY <1>2, <4>3, <5>1 DEF Skip, AccountInv, Message
        <5>2. CASE Start(h) \/ DropMessage(h)
          <6>1. InHand(h, m)
            BY <4>3, <5>2 DEF Start, DropMessage, InHand, Message
          <6>2. Accounted(m)
            BY <6>1 DEF Accounted
          <6> QED
            BY <1>2, <6>2
        <5> QED
          BY <3>4, <5>1, <5>2
      <4>4. PassedIsAccountedFor(h)'
        <5> SUFFICES ASSUME NEW j \in DOMAIN Log[p.txn], j < p.pos + 1,
                            NEW m \in Mentions, m = Log[p.txn][j]
                     PROVE  Accounted(m)'
          BY <4>2 DEF PassedIsAccountedFor
        <5>1. j \in Nat /\ p.pos \in Nat
          <6>1. Log[p.txn] \in Seq(Messages)
            BY <4>1, LogAssumption DEF TypeOK
          <6> QED
            BY <1>1, <6>1 DEF Push
        <5>2. CASE j = p.pos
          BY <4>3, <5>2
        <5>3. CASE j < p.pos
          BY <1>2, <4>1, <5>3 DEF AccountInv, PassedIsAccountedFor
        <5> QED
          BY <5>1, <5>2, <5>3
      <4>5. Awaited(h)' <=> Awaited(h)
        <5>1. q.step = "look"
          BY <1>1, <4>1, Moves
        <5> QED
          BY <4>1, <4>2, <5>1 DEF Awaited
      <4> QED
        BY <1>1, <1>2, <1>4, <1>5, <2>1, <3>1, <4>1, <4>2, <4>4, <4>5 DEF AccountInv
    <3>5. CASE MarkSeen(h)
      <4>1. /\ q = [p EXCEPT !.step = "handle"]
            /\ p.step # "none"
            /\ seen' = seen \union {Message(h)}
        BY <3>5 DEF MarkSeen, TypeOK
      <4>2. q.txn = p.txn /\ q.pos = p.pos /\ q.live = p.live /\ q.step = "handle"
        BY <1>1, <4>1 DEF Push
      <4>3. InHand(h, Message(h))'
        BY <4>2 DEF InHand, Message
      <4>4. PassedIsAccountedFor(h)'
        BY <1>2, <4>1, <4>2 DEF AccountInv, PassedIsAccountedFor
      <4>5. Awaited(h)' <=> Awaited(h)
        BY <4>1, <4>2 DEF Awaited
      <4>6. \A m \in seen' : Accounted(m)'
        <5>1. \A m : InHand(h, m)' => Accounted(m)'
          BY DEF Accounted
        <5>2. Message(h)' = Message(h)
          BY <4>2 DEF Message
        <5>3. Accounted(Message(h))'
          BY <4>3, <5>1, <5>2
        <5>4. \A m \in seen : Accounted(m)'
          BY <1>2, <1>5 DEF AccountInv
        <5>5. ASSUME NEW m \in seen', m = Message(h) PROVE Accounted(m)'
          BY <5>1, <5>2, <5>5, <4>2 DEF InHand
        <5> QED
          BY <4>1, <5>4, <5>5
      <4> QED
        BY <1>1, <1>2, <1>4, <1>5, <2>1, <3>1, <4>1, <4>2, <4>4, <4>5, <4>6 DEF AccountInv
    <3>6. CASE Reply(h)
      <4>1. q.step = "none" /\ seen' = seen
        BY <3>6 DEF Reply, NoPush, TypeOK
      <4>2. ~Awaited(h)'
        BY <4>1 DEF Awaited
      <4> QED
        BY <1>1, <1>2, <1>4, <1>5, <2>1, <3>1, <4>1, <4>2 DEF AccountInv
    <3> QED
      BY <3>2, <3>3, <3>4, <3>5, <3>6 DEF Handle
  <2>2. CASE next' # next
    <3>1. /\ p.step = "look" /\ p.live
          /\ ~AtMessage(h)
          /\ next' = next + 1
          /\ q = NoPush
          /\ seen' = seen
      BY <2>2 DEF Send, GiveUp, Handle, Skip, MarkSeen, Start, DropMessage, Reply, TypeOK
    <3>2. /\ Awaited(h) /\ p.txn = next /\ p.txn \in 1 .. Len(Log)
          /\ PassedIsAccountedFor(h)
      BY <3>1 DEF Awaited, AccountInv, TypeOK
    <3>3. ~Awaited(h)' /\ q.step = "none"
      BY <3>1 DEF Awaited, NoPush
    <3>4. \A g \in Handlers : ~Awaited(g)'
      BY <1>4, <3>2, <3>3 DEF AccountInv
    <3>5. ASSUME NEW m \in Mentions, NEW j \in DOMAIN Log[next], m = Log[next][j]
          PROVE  Accounted(m)'
      <4>1. Log[next] \in Seq(Messages)
        BY <3>2, LogAssumption
      <4>2. j < p.pos
        BY <1>1, <3>1, <3>2, <4>1 DEF AtMessage, Push
      <4> QED
        BY <1>2, <3>2, <3>5, <4>2 DEF PassedIsAccountedFor
    <3>6. AcknowledgedIsAccountedFor'
      <4> SUFFICES ASSUME NEW m \in Mentions, NEW i \in 1 .. next' - 1,
                          NEW j \in DOMAIN Log[i], Log[i][j] = m
                   PROVE  Accounted(m)'
        BY DEF AcknowledgedIsAccountedFor, Acknowledged
      <4>1. CASE i = next
        BY <3>5, <4>1
      <4>2. CASE i # next
        <5>1. i \in 1 .. next - 1
          BY <1>1, <3>1, <4>2
        <5> QED
          BY <1>2, <5>1 DEF AccountInv, AcknowledgedIsAccountedFor, Acknowledged
      <4> QED
        BY <4>1, <4>2
    <3> QED
      BY <1>1, <1>2, <1>5, <3>1, <3>2, <3>3, <3>4, <3>6 DEF AccountInv
  <2> QED
    BY <2>1, <2>2
<1>7. \A g \in Handlers : handler'[g].step # "none" => PassedIsAccountedFor(g)'
  BY <1>1, <1>3, <1>6 DEF AccountInv
<1> QED
  BY <1>6, <1>7 DEF AccountInv

(* Every step keeps the account.                                            *)
LEMMA AccountStep == TypeOK /\ AccountInv /\ [Next]_vars => AccountInv'
<1> SUFFICES ASSUME TypeOK, AccountInv, [Next]_vars PROVE AccountInv'
  OBVIOUS
<1>1. ASSUME NEW h \in Handlers, Send(h) \/ GiveUp(h) \/ Handle(h) PROVE AccountInv'
  BY <1>1, HandlerKeepsAccount
<1>2. \A m \in Mentions : Accounted(m) => Accounted(m)'
  BY AccountedStays, MentionsAssumption
<1>3. CASE UNCHANGED <<next, seen, handler>>
  <2>1. \A h \in Handlers : Awaited(h)' <=> Awaited(h)
    BY <1>3 DEF Awaited
  <2>2. \A h \in Handlers :
          handler[h].step # "none" => PassedIsAccountedFor(h)'
    BY <1>2, <1>3 DEF AccountInv, PassedIsAccountedFor
  <2>3. AcknowledgedIsAccountedFor'
    BY <1>2, <1>3 DEF AccountInv, AcknowledgedIsAccountedFor, Acknowledged
  <2>4. \A m \in seen : Accounted(m)'
    BY <1>2 DEF AccountInv, TypeOK
  <2> QED
    BY <1>3, <2>1, <2>2, <2>3, <2>4 DEF AccountInv
<1>4. CASE Restart
  <2>1. \A h \in Handlers : handler'[h].step = "none"
    BY <1>4 DEF Restart, NoPush
  <2>2. \A h \in Handlers : ~Awaited(h)'
    BY <2>1 DEF Awaited
  <2>3. AcknowledgedIsAccountedFor'
    BY <1>2, <1>4 DEF Restart, AccountInv, AcknowledgedIsAccountedFor, Acknowledged
  <2>4. next' = next /\ seen' = {}
    BY <1>4 DEF Restart
  <2> QED
    BY <2>1, <2>2, <2>3, <2>4 DEF AccountInv
<1> QED
  BY <1>1, <1>3, <1>4 DEF Next, Subscribe, vars

(* A mention the homeserver will not send again has started a run, was      *)
(* dropped with an error or is in a goroutine's hands, for every log and    *)
(* whatever attempts overlap.                                               *)
THEOREM AcknowledgedAccounted == Spec => []AcknowledgedIsAccountedFor
<1>1. AccountInv => AcknowledgedIsAccountedFor
  BY DEF AccountInv
<1> QED
  BY <1>1, TypeInit, TypeStep, AccountInit, AccountStep, PTL DEF Spec

--------------------------------------------------------------------------------
(* What is acknowledged was seen, while the process lives.                  *)

(* One goroutine takes a step.                                              *)
LEMMA HandlerKeepsSeen ==
  ASSUME InboundInv, AccountInv, SeenInv, NEW h \in Handlers, Send(h) \/ GiveUp(h) \/ Handle(h)
  PROVE  SeenInv'
<1> DEFINE p == handler[h]
           q == handler'[h]
<1>1. /\ p \in Push /\ TypeOK
      /\ next \in Nat \ {0} /\ next' \in {next, next + 1}
      /\ seen \subseteq seen'
      /\ \A g \in Handlers \ {h} : handler'[g] = handler[g]
  BY DEF InboundInv, TypeOK, Send, GiveUp, Handle, Skip, MarkSeen, Start, DropMessage, Reply,
         Advance
<1>2. \A g \in Handlers : handler[g].step # "none" =>
        /\ handler[g].txn \in 1 .. Len(Log)
        /\ DOMAIN Log[handler[g].txn] = 1 .. Len(Log[handler[g].txn])
        /\ Len(Log[handler[g].txn]) \in Nat
  BY <1>1, LogAssumption DEF TypeOK
<1>3. CASE next' = next
  <2>1. \A g \in Handlers \ {h} : handler[g].step # "none" /\ PassedIsSeen(g) => PassedIsSeen(g)'
    BY <1>1, <1>3 DEF PassedIsSeen
  <2>2. ASSUME q.step # "none" PROVE q.txn <= next /\ PassedIsSeen(h)'
    <3>1. CASE Send(h)
      <4>1. q = [txn |-> next, pos |-> 1, step |-> "look", live |-> TRUE]
        BY <3>1 DEF Send, InboundInv, TypeOK
      <4>2. next \in 1 .. Len(Log)
        BY <1>1, <3>1, LogAssumption DEF Send
      <4>3. DOMAIN Log[next] = 1 .. Len(Log[next]) /\ Len(Log[next]) \in Nat
        BY <4>2, LogAssumption
      <4> QED
        BY <1>1, <1>3, <4>1, <4>3 DEF PassedIsSeen
    <3>2. CASE GiveUp(h) \/ MarkSeen(h)
      <4>1. p.step # "none" /\ q.txn = p.txn /\ q.pos = p.pos
        <5>1. \/ q = [p EXCEPT !.live = FALSE]
              \/ q = [p EXCEPT !.step = "handle"]
          BY <3>2 DEF GiveUp, MarkSeen, InboundInv, TypeOK
        <5>2. p.step # "none"
          BY <3>2 DEF GiveUp, MarkSeen
        <5> QED
          BY <1>1, <5>1, <5>2 DEF Push
      <4> QED
        BY <1>1, <1>3, <4>1 DEF SeenInv, PassedIsSeen
    <3>3. CASE Skip(h) \/ Start(h) \/ DropMessage(h)
      <4>1. p.step # "none" /\ q.txn = p.txn /\ q.pos = p.pos + 1
        <5>1. q = [p EXCEPT !.pos = @ + 1, !.step = "look"] /\ p.step # "none"
          BY <3>3 DEF Skip, Start, DropMessage, Advance, InboundInv, TypeOK
        <5> QED
          BY <1>1, <5>1 DEF Push
      <4>2. Message(h) \in Mentions => Message(h) \in seen
        BY <3>3 DEF Skip, Start, DropMessage, InboundInv
      <4>3. p.pos \in Nat /\ \A j \in DOMAIN Log[p.txn] : j < p.pos + 1 => j < p.pos \/ j = p.pos
        BY <1>1, <1>2, <4>1 DEF Push
      <4> QED
        BY <1>1, <1>3, <4>1, <4>2, <4>3 DEF SeenInv, PassedIsSeen, Message
    <3>4. CASE Reply(h)
      BY <2>2, <3>4 DEF Reply, NoPush, InboundInv, TypeOK
    <3> QED
      BY <3>1, <3>2, <3>3, <3>4 DEF Handle
  <2> QED
    BY <1>1, <1>3, <2>1, <2>2 DEF SeenInv
<1>4. CASE next' = next + 1
  <2>1. /\ p.step = "look" /\ p.live
        /\ ~AtMessage(h)
        /\ q = NoPush /\ seen' = seen
    BY <1>1, <1>4 DEF Send, GiveUp, Handle, Skip, MarkSeen, Start, DropMessage, Reply, TypeOK
  <2>2. p.txn = next /\ PassedIsSeen(h)
    BY <2>1 DEF Awaited, AccountInv, SeenInv
  <2>3. \A j \in DOMAIN Log[next] : Log[next][j] \in Mentions => Log[next][j] \in seen
    BY <1>1, <1>2, <2>1, <2>2 DEF PassedIsSeen, AtMessage, Push
  <2>4. ASSUME NEW g \in Handlers \ {h}, handler[g].step # "none"
        PROVE  handler[g].txn <= next' /\ PassedIsSeen(g)'
    <3>1. handler[g].txn <= next /\ PassedIsSeen(g) /\ handler[g].txn \in Nat
      BY <1>2, <2>4 DEF SeenInv
    <3>2. CASE handler[g].txn = next
      BY <1>1, <1>4, <2>1, <2>3, <3>1, <3>2 DEF PassedIsSeen
    <3>3. CASE handler[g].txn < next
      BY <1>1, <1>4, <2>1, <3>1, <3>3 DEF PassedIsSeen
    <3> QED
      BY <1>1, <3>1, <3>2, <3>3
  <2>5. q.step = "none"
    BY <2>1 DEF NoPush
  <2> QED
    BY <1>1, <2>4, <2>5 DEF SeenInv
<1> QED
  BY <1>1, <1>3, <1>4

(* Every step keeps it; a restart leaves no goroutine behind.               *)
LEMMA SeenStep == InboundInv /\ AccountInv /\ SeenInv /\ [Next]_vars => SeenInv'
<1> SUFFICES ASSUME InboundInv, AccountInv, SeenInv, [Next]_vars PROVE SeenInv'
  OBVIOUS
<1>1. CASE UNCHANGED <<handler, next, seen>>
  BY <1>1 DEF SeenInv, PassedIsSeen
<1>2. CASE Restart
  BY <1>2 DEF Restart, NoPush, SeenInv
<1> QED
  BY <1>1, <1>2, HandlerKeepsSeen DEF Next, Subscribe, vars

(* What a step takes in hand is not seen yet.                               *)
LEMMA TakenInHand ==
  ASSUME TypeOK, [Next]_vars, NEW m \in Messages, NEW h \in Handlers,
         InHand(h, m)', ~InHand(h, m)
  PROVE  /\ handler[h].step = "look" /\ AtMessage(h)
         /\ Message(h) = m /\ m \in Mentions \ seen
<1>1. ASSUME NEW g \in Handlers, Send(g) \/ GiveUp(g) \/ Skip(g) \/ Start(g) \/ DropMessage(g) \/ Reply(g)
      PROVE  FALSE
  <2>1. handler[g] \in Push /\ \A f \in Handlers \ {g} : handler'[f] = handler[f]
    BY <1>1 DEF TypeOK, Send, GiveUp, Skip, Start, DropMessage, Reply, Advance
  <2>2. handler'[g].step = "handle" =>
          handler[g].step = "handle" /\ handler'[g].txn = handler[g].txn /\ handler'[g].pos = handler[g].pos
    <3>1. CASE GiveUp(g)
      <4>1. handler'[g] = [handler[g] EXCEPT !.live = FALSE]
        BY <2>1, <3>1 DEF GiveUp, TypeOK
      <4>2. /\ [handler[g] EXCEPT !.live = FALSE].step = handler[g].step
            /\ [handler[g] EXCEPT !.live = FALSE].txn = handler[g].txn
            /\ [handler[g] EXCEPT !.live = FALSE].pos = handler[g].pos
        BY <2>1, Moves
      <4> QED
        BY <4>1, <4>2
    <3>2. CASE Skip(g) \/ Start(g) \/ DropMessage(g)
      <4>1. handler'[g] = [handler[g] EXCEPT !.pos = @ + 1, !.step = "look"]
        BY <2>1, <3>2 DEF Skip, Start, DropMessage, Advance, TypeOK
      <4> QED
        BY <2>1, <4>1, Moves
    <3>3. CASE Send(g) \/ Reply(g)
      BY <2>1, <3>3 DEF Send, Reply, NoPush, TypeOK
    <3> QED
      BY <1>1, <3>1, <3>2, <3>3
  <2> QED
    BY <2>1, <2>2 DEF InHand, Message
<1>2. ASSUME NEW g \in Handlers, MarkSeen(g)
      PROVE  /\ handler[h].step = "look" /\ AtMessage(h)
             /\ Message(h) = m /\ m \in Mentions \ seen
  <2>1. /\ handler[g] \in Push
        /\ handler'[g] = [handler[g] EXCEPT !.step = "handle"]
        /\ \A f \in Handlers \ {g} : handler'[f] = handler[f]
    BY <1>2 DEF TypeOK, MarkSeen
  <2>2. h = g
    BY <2>1 DEF InHand, Message
  <2>3. handler'[h].txn = handler[h].txn /\ handler'[h].pos = handler[h].pos
    BY <2>1, <2>2 DEF Push
  <2>4. Message(h)' = Message(h)
    BY <2>3 DEF Message
  <2> QED
    BY <1>2, <2>2, <2>4 DEF InHand, MarkSeen
<1>3. CASE Restart
  BY <1>3 DEF Restart, NoPush, InHand
<1>4. CASE UNCHANGED handler
  BY <1>4 DEF InHand, Message
<1> QED
  BY <1>1, <1>2, <1>3, <1>4 DEF Next, Handle, Subscribe, vars

(* An event that the homeserver has an answer for is not handled a second   *)
(* time: not by the slow attempt of a transaction that was sent again, and  *)
(* not after a restart, although what was seen is forgotten then.           *)
THEOREM HandledStays == ASSUME EventsAreSentOnce PROVE Spec => AcknowledgedStaysHandled
<1>1. InboundInv /\ SeenInv /\ [Next]_vars =>
        \A m \in Messages :
          Acknowledged(m) /\ (\A h \in Handlers : ~InHand(h, m))
            => \A h \in Handlers : ~InHand(h, m)'
  <2> SUFFICES ASSUME InboundInv, SeenInv, [Next]_vars,
                      NEW m \in Messages, Acknowledged(m), \A h \in Handlers : ~InHand(h, m),
                      NEW h \in Handlers, InHand(h, m)'
               PROVE  FALSE
    OBVIOUS
  <2>1. /\ handler[h].step = "look" /\ AtMessage(h)
        /\ Message(h) = m /\ m \in Mentions \ seen
    BY TakenInHand DEF InboundInv
  <2>2. PICK i \in 1 .. next - 1 : \E j \in DOMAIN Log[i] : Log[i][j] = m
    BY DEF Acknowledged
  <2>3. /\ handler[h].txn \in 1 .. Len(Log) /\ handler[h].txn <= next
        /\ next \in Nat /\ Len(Log) \in Nat /\ DOMAIN Log = 1 .. Len(Log)
        /\ handler[h].pos \in Nat \ {0} /\ PassedIsSeen(h)
    BY <2>1, LogAssumption DEF InboundInv, TypeOK, SeenInv, Push
  <2>4. handler[h].pos \in DOMAIN Log[handler[h].txn]
    BY <2>1, <2>3, LogAssumption DEF AtMessage
  <2>5. CASE handler[h].txn < next
    BY <2>1, <2>3, <2>4, <2>5 DEF PassedIsSeen, Message
  <2>6. CASE handler[h].txn = next
    BY <2>1, <2>2, <2>3, <2>4, <2>6, EventsAreSentOnce DEF EventsAreSentOnce, Message
  <2> QED
    BY <2>3, <2>5, <2>6
<1>2. Init => SeenInv
  BY DEF Init, NoPush, SeenInv
<1>3. InboundInv => TypeOK
  BY DEF InboundInv
<1> QED
  BY <1>1, <1>2, <1>3, InboundInit, InboundStep, AccountInit, AccountStep, SeenStep, PTL
     DEF Spec, AcknowledgedStaysHandled
================================================================================
