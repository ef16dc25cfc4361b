----------------------------- MODULE MatrixInbound -----------------------------
(***************************************************************************)
(* Messages from the Matrix room to the engine: the homeserver pushes them *)
(* in transactions (PUT /_matrix/app/v1/transactions/{txnId}) and sends a  *)
(* transaction again until it gets an answer; AppServiceHandler starts one *)
(* collaboration per message that mentions somebody.                       *)
(*                                                                         *)
(* A push is one goroutine of the HTTP server. When the homeserver stops   *)
(* waiting, the goroutine goes on, next to the one of the second attempt.  *)
(* What was seen is kept in memory only. The transaction id is not looked  *)
(* at, and every error is only logged.                                     *)
(***************************************************************************)
EXTENDS Naturals, Sequences

CONSTANTS
  Handlers,       \* goroutines of the HTTP server
  Messages,       \* messages of the room
  Mentions,       \* those whose m.mentions is not empty
  Log,            \* the transactions of the homeserver: Seq(Seq(Messages))
  MaxBoots,       \* bound: how often the controller starts
  MaxTimeouts     \* bound: how often the homeserver stops waiting

ASSUME LogAssumption == Log \in Seq(Seq(Messages))
ASSUME MentionsAssumption == Mentions \subseteq Messages
ASSUME BoundsAssumption == MaxBoots \in Nat \ {0} /\ MaxTimeouts \in Nat

VARIABLES
  boot,           \* which run of the process this is
  subscribed,     \* the engine's callback is set and the cache has synced
  seen,           \* AppServiceHandler.seen
  next,           \* the first transaction the homeserver has no answer for
  handler,        \* the goroutines
  timeouts,
  started,        \* how many runs each message started, by boot
  dropped         \* history: handling ended in an error, or with the process

vars == <<boot, subscribed, seen, next, handler, timeouts, started, dropped>>

Boots == 1 .. MaxBoots
NoPush == [txn |-> 1, pos |-> 1, step |-> "none", live |-> FALSE]
Push == [txn : Nat \ {0}, pos : Nat \ {0}, step : {"none", "look", "handle"}, live : BOOLEAN]

AtMessage(h) == handler[h].pos <= Len(Log[handler[h].txn])
Message(h) == Log[handler[h].txn][handler[h].pos]
InHand(h, m) == handler[h].step = "handle" /\ Message(h) = m

TypeOK ==
  /\ boot \in Boots
  /\ subscribed \in BOOLEAN
  /\ seen \subseteq Mentions
  /\ next \in Nat \ {0}
  /\ handler \in [Handlers -> Push]
  /\ \A h \in Handlers :
       /\ handler[h].step # "none" => handler[h].txn \in 1 .. Len(Log)
       /\ handler[h].step = "handle" => AtMessage(h)
  /\ timeouts \in 0 .. MaxTimeouts
  /\ started \in [Messages -> [Boots -> Nat]]
  /\ dropped \subseteq Messages

Init ==
  /\ boot = 1
  /\ subscribed = FALSE
  /\ seen = {}
  /\ next = 1
  /\ handler = [h \in Handlers |-> NoPush]
  /\ timeouts = 0
  /\ started = [m \in Messages |-> [b \in Boots |-> 0]]
  /\ dropped = {}

--------------------------------------------------------------------------------
(* The homeserver: one transaction at a time, in order.                     *)

Busy == \E h \in Handlers : handler[h].step # "none" /\ handler[h].live

Send(h) ==
  /\ next <= Len(Log)
  /\ ~Busy
  /\ handler[h].step = "none"
  /\ handler' = [handler EXCEPT ![h] =
       [txn |-> next, pos |-> 1, step |-> "look", live |-> TRUE]]
  /\ UNCHANGED <<boot, subscribed, seen, next, timeouts, started, dropped>>

(* It times out, or the connection breaks; the goroutine does not notice.   *)
GiveUp(h) ==
  /\ timeouts < MaxTimeouts
  /\ handler[h].step # "none"
  /\ handler[h].live
  /\ handler' = [handler EXCEPT ![h].live = FALSE]
  /\ timeouts' = timeouts + 1
  /\ UNCHANGED <<boot, subscribed, seen, next, started, dropped>>

--------------------------------------------------------------------------------
(* HandleTransactions: one message after the other.                         *)

Advance(h) == [handler EXCEPT ![h].pos = @ + 1, ![h].step = "look"]

Skip(h) ==
  /\ handler[h].step = "look"
  /\ AtMessage(h)
  /\ Message(h) \notin Mentions \/ Message(h) \in seen
  /\ handler' = Advance(h)
  /\ UNCHANGED <<boot, subscribed, seen, next, timeouts, started, dropped>>

(* Mutant: what is being handled is not marked yet.                         *)
LookOnly(h) ==
  /\ handler[h].step = "look"
  /\ AtMessage(h)
  /\ Message(h) \in Mentions \ seen
  /\ handler' = [handler EXCEPT ![h].step = "handle"]
  /\ UNCHANGED <<boot, subscribed, seen, next, timeouts, started, dropped>>

(* alreadySeen looks and marks under one lock, before the message is        *)
(* handled.                                                                 *)
MarkSeen(h) ==
  /\ handler[h].step = "look"
  /\ AtMessage(h)
  /\ Message(h) \in Mentions \ seen
  /\ seen' = seen \union {Message(h)}
  /\ handler' = [handler EXCEPT ![h].step = "handle"]
  /\ UNCHANGED <<boot, subscribed, next, timeouts, started, dropped>>

(* emit reaches StartCollaboration, which writes a run. An error after that *)
(* is logged like any other.                                                *)
Start(h) ==
  /\ handler[h].step = "handle"
  /\ subscribed
  /\ started' = [started EXCEPT ![Message(h)][boot] = @ + 1]
  /\ handler' = Advance(h)
  /\ UNCHANGED <<boot, subscribed, seen, next, timeouts, dropped>>

(* Mutant: the message is passed over without a trace.                      *)
ForgetMessage(h) ==
  /\ handler[h].step = "handle"
  /\ handler' = Advance(h)
  /\ UNCHANGED <<boot, subscribed, seen, next, timeouts, started, dropped>>

(* No Collaboration has the room, the sender or a mention is unknown, an    *)
(* exclude is wrong, the API server or the store answers with an error, the *)
(* request's context is cancelled, a policy denies it, or nobody has        *)
(* subscribed yet.                                                          *)
DropMessage(h) ==
  /\ handler[h].step = "handle"
  /\ dropped' = dropped \union {Message(h)}
  /\ handler' = Advance(h)
  /\ UNCHANGED <<boot, subscribed, seen, next, timeouts, started>>

(* Mutant: what was seen is forgotten with the transaction.                 *)
ReplyAndForget(h) ==
  /\ handler[h].step = "look"
  /\ ~AtMessage(h)
  /\ next' = IF handler[h].live THEN next + 1 ELSE next
  /\ seen' = {}
  /\ handler' = [handler EXCEPT ![h] = NoPush]
  /\ UNCHANGED <<boot, subscribed, timeouts, started, dropped>>

(* Mutant: an answer only when everything in the transaction was handled.   *)
ReplyIfHandled(h) ==
  /\ handler[h].step = "look"
  /\ ~AtMessage(h)
  /\ \A i \in DOMAIN Log[handler[h].txn] : Log[handler[h].txn][i] \notin dropped
  /\ next' = IF handler[h].live THEN next + 1 ELSE next
  /\ handler' = [handler EXCEPT ![h] = NoPush]
  /\ UNCHANGED <<boot, subscribed, seen, timeouts, started, dropped>>

(* Always 200; it counts when the homeserver still waits for it.            *)
Reply(h) ==
  /\ handler[h].step = "look"
  /\ ~AtMessage(h)
  /\ next' = IF handler[h].live THEN next + 1 ELSE next
  /\ handler' = [handler EXCEPT ![h] = NoPush]
  /\ UNCHANGED <<boot, subscribed, seen, timeouts, started, dropped>>

--------------------------------------------------------------------------------
(* The process. The goroutine that subscribes, the cache and the HTTP       *)
(* server start at the same time.                                           *)

Subscribe ==
  /\ ~subscribed
  /\ subscribed' = TRUE
  /\ UNCHANGED <<boot, seen, next, handler, timeouts, started, dropped>>

Restart ==
  /\ boot < MaxBoots
  /\ boot' = boot + 1
  /\ subscribed' = FALSE
  /\ seen' = {}
  /\ handler' = [h \in Handlers |-> NoPush]
  /\ dropped' = dropped \union {m \in Messages : \E h \in Handlers : InHand(h, m)}
  /\ UNCHANGED <<next, timeouts, started>>

Handle(h) == Skip(h) \/ MarkSeen(h) \/ Start(h) \/ DropMessage(h) \/ Reply(h)

Next ==
  \/ \E h \in Handlers : Send(h) \/ GiveUp(h) \/ Handle(h)
  \/ Subscribe
  \/ Restart

Spec == Init /\ [][Next]_vars

(* A goroutine runs to its end, the homeserver keeps trying.                *)
FairSpec ==
  /\ Spec
  /\ \A h \in Handlers : WF_vars(Handle(h))
  /\ WF_vars(\E h \in Handlers : Send(h))

--------------------------------------------------------------------------------
(* Properties.                                                              *)

(* However often a transaction is sent again and however its attempts       *)
(* overlap, a message starts one run at most while the process lives.       *)
OneStartPerBoot == \A m \in Messages, b \in Boots : started[m][b] <= 1

Accounted(m) ==
  \/ \E b \in Boots : started[m][b] > 0
  \/ m \in dropped
  \/ \E h \in Handlers : InHand(h, m)

Acknowledged(m) == \E i \in 1 .. next - 1 : \E j \in DOMAIN Log[i] : Log[i][j] = m

(* A mention the homeserver will not send again has started a run, was      *)
(* dropped with an error, or is still in the hands of a goroutine, of an    *)
(* attempt the homeserver gave up on perhaps: none is lost in between.      *)
AcknowledgedIsAccountedFor == \A m \in Mentions : Acknowledged(m) => Accounted(m)

(* An acknowledged message that nobody has in hand is not taken in hand     *)
(* again: not by a slow attempt that looks at it afterwards, and not after  *)
(* a restart that forgets what was seen.                                    *)
AcknowledgedStaysHandled ==
  [][\A m \in Messages :
       Acknowledged(m) /\ (\A h \in Handlers : ~InHand(h, m))
         => \A h \in Handlers : ~InHand(h, m)']_vars

(* The room is not blocked by a message that cannot be handled: every       *)
(* transaction is acknowledged in the end.                                  *)
EverythingIsAcknowledged == <>(next = Len(Log) + 1)

(* The inductive invariant behind OneStartPerBoot.                          *)
InboundInv ==
  /\ TypeOK
  /\ \A m \in Messages, b \in Boots : started[m][b] <= 1 /\ (b > boot => started[m][b] = 0)
  /\ \A m \in Messages : started[m][boot] > 0 => m \in seen
  /\ \A h \in Handlers : handler[h].step = "handle" =>
       /\ Message(h) \in seen
       /\ started[Message(h)][boot] = 0
  /\ \A g, h \in Handlers :
       handler[g].step = "handle" /\ handler[h].step = "handle" /\ Message(g) = Message(h)
         => g = h

(* And behind AcknowledgedIsAccountedFor: what was seen, and what a         *)
(* goroutine has passed in its transaction, is accounted for.               *)
Awaited(h) == handler[h].step # "none" /\ handler[h].live

PassedIsAccountedFor(h) ==
  \A j \in DOMAIN Log[handler[h].txn] :
    j < handler[h].pos /\ Log[handler[h].txn][j] \in Mentions
      => Accounted(Log[handler[h].txn][j])

AccountInv ==
  /\ next <= Len(Log) + 1
  /\ \A m \in seen : Accounted(m)
  /\ \A h \in Handlers : Awaited(h) => handler[h].txn = next
  /\ \A g, h \in Handlers : Awaited(g) /\ Awaited(h) => g = h
  /\ \A h \in Handlers : handler[h].step # "none" => PassedIsAccountedFor(h)
  /\ AcknowledgedIsAccountedFor

(* And behind AcknowledgedStaysHandled: what a goroutine has passed in its  *)
(* transaction was seen, all of it when the transaction is acknowledged. It *)
(* is enough when the homeserver sends an event in one transaction, again   *)
(* and again perhaps: after a restart nothing else tells an event that was  *)
(* handled.                                                                 *)
EventsAreSentOnce ==
  \A i, k \in DOMAIN Log : \A j \in DOMAIN Log[i], l \in DOMAIN Log[k] :
    Log[i][j] = Log[k][l] => i = k

PassedIsSeen(h) ==
  \A j \in DOMAIN Log[handler[h].txn] :
    (j < handler[h].pos \/ handler[h].txn < next) /\ Log[handler[h].txn][j] \in Mentions
      => Log[handler[h].txn][j] \in seen

SeenInv ==
  \A h \in Handlers :
    handler[h].step # "none" => handler[h].txn <= next /\ PassedIsSeen(h)
================================================================================
