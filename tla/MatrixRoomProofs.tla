--------------------------- MODULE MatrixRoomProofs ---------------------------
(***************************************************************************)
(* What holds in the room of every organization, under every policy, with  *)
(* any number of goroutines, messages, faults and restarts.                *)
(***************************************************************************)
EXTENDS MatrixRoom, TLAPS

(* A message more at the end; the others stay where they are.               *)
LEMMA RoomGrows ==
  ASSUME room \in Seq(Post), NEW p \in Post, room' = Append(room, p)
  PROVE  /\ room' \in Seq(Post)
         /\ Len(room) \in Nat
         /\ Len(room') = Len(room) + 1
         /\ \A i \in Posts : i \in Posts' /\ room'[i] = room[i]
         /\ Posts' = Posts \union {Len(room) + 1}
         /\ room'[Len(room) + 1] = p
BY DEF Posts

(* What Appended does, for a message whose parts are of their types.        *)
LEMMA AppendedTypes ==
  ASSUME TypeOK, NEW by \in Users, NEW text \in Text, NEW cause \in Nat,
         Appended(by, text, cause)
  PROVE  /\ room' \in Seq(Post)
         /\ Len(room) \in Nat
         /\ waiting' \subseteq Posts'
         /\ Posts' = Posts \union {Len(room) + 1}
         /\ Posts \subseteq Posts'
         /\ \A i \in Posts : room'[i] = room[i]
         /\ room'[Len(room) + 1] =
              [by |-> by, mentions |-> text.mentions, skip |-> text.skip, cause |-> cause]
<1> DEFINE p == [by |-> by, mentions |-> text.mentions, skip |-> text.skip, cause |-> cause]
<1>1. p \in Post
  BY DEF Text, Post
<1>2. room' = Append(room, p) /\ waiting' = waiting \union {Len(room) + 1}
  BY DEF Appended
<1> HIDE DEF p
<1>3. /\ room' \in Seq(Post)
      /\ Len(room) \in Nat
      /\ \A i \in Posts : i \in Posts' /\ room'[i] = room[i]
      /\ Posts' = Posts \union {Len(room) + 1}
      /\ room'[Len(room) + 1] = p
  BY <1>1, <1>2, RoomGrows DEF TypeOK
<1>4. waiting' \subseteq Posts'
  BY <1>2, <1>3 DEF TypeOK
<1> QED
  BY <1>3, <1>4 DEF p

(* One goroutine moves, the others stay.                                    *)
LEMMA OneWorkMoves ==
  ASSUME work \in [Handlers -> Work], NEW h \in Handlers, NEW w \in Work,
         work' = [work EXCEPT ![h] = w]
  PROVE  /\ work' \in [Handlers -> Work]
         /\ work'[h] = w
         /\ \A g \in Handlers \ {h} : work'[g] = work[g]
OBVIOUS

(* The records a goroutine may move to.                                     *)
LEMMA IdleRecord == Idle \in Work /\ Idle.step = "idle"
BY DEF Idle, Work

LEMMA DispatchRecord ==
  ASSUME NEW i \in Nat, NEW names \in SUBSET Target
  PROVE  LET w == [Idle EXCEPT !.step = "dispatch", !.post = i, !.targets = names] IN
         /\ w \in Work /\ w.step = "dispatch" /\ w.post = i /\ w.targets = names
         /\ w.mentions = {}
BY DEF Idle, Work

LEMMA NumberRecord ==
  ASSUME NEW v \in Work, NEW names \in SUBSET Agents
  PROVE  LET w == [v EXCEPT !.step = "number", !.mentions = names] IN
         /\ w \in Work /\ w.step = "number" /\ w.post = v.post /\ w.targets = v.targets
         /\ w.mentions = names
BY DEF Work

LEMMA SendRecord ==
  ASSUME NEW v \in Work, NEW n \in Nat
  PROVE  LET w == [v EXCEPT !.step = "send", !.id = n] IN
         /\ w \in Work /\ w.step = "send" /\ w.post = v.post /\ w.targets = v.targets
         /\ w.mentions = v.mentions /\ w.id = n
BY DEF Work

(* Types at the start.                                                      *)
LEMMA TypeInit == Init => TypeOK
<1> SUFFICES ASSUME Init PROVE TypeOK
  OBVIOUS
<1>1. room \in Seq(Post) /\ Len(room) = 0
  BY DEF Init
<1>2. work \in [Handlers -> Work] /\ \A h \in Handlers : work[h].step = "idle"
  BY IdleRecord DEF Init
<1>3. boot \in 1 .. MaxBoots /\ faults \in 0 .. MaxFaults
  BY RoomBoundsAssumption DEF Init
<1> QED
  BY <1>1, <1>2, <1>3 DEF Init, TypeOK, Posts

(* The part of TypeOK that speaks of the goroutines.                        *)
WorkOK ==
  /\ work \in [Handlers -> Work]
  /\ \A h \in Handlers : work[h].step # "idle" => work[h].post \in Posts /\ work[h].targets # {}

(* Every move of a goroutine: to a record of its own post.                  *)
LEMMA WorkStays ==
  ASSUME TypeOK, NEW h \in Handlers, NEW w \in Work, work' = [work EXCEPT ![h] = w],
         Posts \subseteq Posts', w.step # "idle" => w.post \in Posts /\ w.targets # {}
  PROVE  WorkOK'
<1>1. /\ work' \in [Handlers -> Work] /\ work'[h] = w
      /\ \A g \in Handlers \ {h} : work'[g] = work[g]
  BY OneWorkMoves DEF TypeOK
<1> QED
  BY <1>1 DEF WorkOK, TypeOK

(* Handling keeps the types.                                                *)
LEMMA HandleTypes ==
  ASSUME TypeOK, NEW h \in Handlers, Handle(h) \/ Fail(h)
  PROVE  TypeOK'
<1> USE RoomBoundsAssumption
<1>0. work[h] \in Work /\ (work[h].step # "idle" => work[h].post \in Posts /\ work[h].targets # {})
  BY DEF TypeOK
<1>1. CASE Start(h)
  <2>1. PICK i \in waiting :
          /\ Understood(room[i]) /\ StartAccepted(room[i])
          /\ waiting' = waiting \ {i}
          /\ work' = [work EXCEPT ![h] =
               [Idle EXCEPT !.step = "dispatch", !.post = i, !.targets = StartTargets(room[i])]]
    BY <1>1 DEF Start
  <2>2. i \in Posts /\ i \in Nat /\ UNCHANGED room
    BY <1>1 DEF Start, TypeOK, Posts
  <2>3. StartTargets(room[i]) \in SUBSET Target /\ StartTargets(room[i]) # {}
    BY <2>1 DEF StartAccepted, StartTargets, MayStart
  <2>4. WorkOK'
    <3> DEFINE w == [Idle EXCEPT !.step = "dispatch", !.post = i,
                                 !.targets = StartTargets(room[i])]
    <3>1. w \in Work /\ w.post = i /\ w.targets = StartTargets(room[i])
      BY <2>2, <2>3, DispatchRecord
    <3>2. work' = [work EXCEPT ![h] = w] /\ Posts \subseteq Posts'
      BY <2>1, <2>2 DEF Posts
    <3> HIDE DEF w
    <3> QED
      BY <2>2, <2>3, <3>1, <3>2, WorkStays
  <2> QED
    BY <1>1, <2>1, <2>2, <2>4 DEF Start, TypeOK, WorkOK, Posts
<1>2. CASE Refuse(h)
  BY <1>2 DEF Refuse, TypeOK, Posts
<1>3. CASE Dispatch(h)
  <2>1. work' = [work EXCEPT ![h] = [work[h] EXCEPT !.step = "number",
                                       !.mentions = work[h].targets \intersect Agents]]
    BY <1>3 DEF Dispatch
  <2>2. UNCHANGED <<room, waiting, known, boot, txnSeq, used, heard, swallowed, excused, faults>>
        /\ work[h].step = "dispatch"
    BY <1>3 DEF Dispatch
  <2>3. WorkOK'
    <3> DEFINE w == [work[h] EXCEPT !.step = "number",
                                    !.mentions = work[h].targets \intersect Agents]
    <3>1. w \in Work /\ w.post = work[h].post /\ w.targets = work[h].targets
      BY <1>0, NumberRecord
    <3>2. work' = [work EXCEPT ![h] = w] /\ Posts \subseteq Posts'
      BY <2>1, <2>2 DEF Posts
    <3> HIDE DEF w
    <3> QED
      BY <1>0, <2>2, <3>1, <3>2, WorkStays
  <2> QED
    BY <2>2, <2>3 DEF TypeOK, WorkOK, Posts
<1>4. CASE RefuseDispatch(h)
  <2>1. WorkOK'
    BY <1>4, IdleRecord, WorkStays DEF RefuseDispatch, Posts
  <2> QED
    BY <1>0, <1>4, <2>1 DEF RefuseDispatch, TypeOK, WorkOK, Posts
<1>5. CASE Number(h)
  <2>1. /\ work' = [work EXCEPT ![h] = [work[h] EXCEPT !.step = "send", !.id = txnSeq + 1]]
        /\ txnSeq' = txnSeq + 1 /\ txnSeq + 1 \in Nat /\ work[h].step = "number"
        /\ UNCHANGED <<room, waiting, known, boot, used, heard, swallowed, excused, faults>>
    BY <1>5 DEF Number, TypeOK
  <2>2. WorkOK'
    <3> DEFINE w == [work[h] EXCEPT !.step = "send", !.id = txnSeq + 1]
    <3>1. w \in Work /\ w.post = work[h].post /\ w.targets = work[h].targets
      BY <1>0, <2>1, SendRecord
    <3>2. work' = [work EXCEPT ![h] = w] /\ Posts \subseteq Posts'
      BY <2>1 DEF Posts
    <3> HIDE DEF w
    <3> QED
      BY <1>0, <2>1, <3>1, <3>2, WorkStays
  <2> QED
    BY <2>1, <2>2 DEF TypeOK, WorkOK, Posts
<1>6. CASE Send(h)
  <2> DEFINE text == [mentions |-> work[h].mentions, skip |-> room[work[h].post].skip]
  <2>1. work[h].post \in Posts /\ work[h].id \in Nat /\ work[h].step = "send"
    BY <1>0, <1>6 DEF Send, Work
  <2>2. text \in Text /\ operator \in Users /\ work[h].post \in Nat
    <3>1. room[work[h].post] \in Post
      BY <2>1 DEF TypeOK, Posts
    <3>2. work[h].mentions \subseteq Users
      BY <1>0, AgentsAssumption DEF Work, Users, Target
    <3> QED
      BY <2>1, <3>1, <3>2 DEF Text, Post, Users, Posts
  <2>3. Appended(operator, text, work[h].post)
    BY <1>6 DEF Send
  <2> HIDE DEF text
  <2>4. /\ room' \in Seq(Post) /\ waiting' \subseteq Posts' /\ Posts \subseteq Posts'
    BY <2>2, <2>3, AppendedTypes
  <2>5. WorkOK'
    BY <1>6, <2>4, IdleRecord, WorkStays DEF Send
  <2>6. used' \subseteq Nat \X (1 .. MaxBoots)
    BY <1>6, <2>1 DEF Send, TypeOK
  <2>7. UNCHANGED <<known, boot, txnSeq, heard, swallowed, excused, faults>>
    BY <1>6 DEF Send
  <2> QED
    BY <2>4, <2>5, <2>6, <2>7 DEF TypeOK, WorkOK
<1>7. CASE SendRepeated(h)
  <2>1. WorkOK'
    BY <1>7, IdleRecord, WorkStays DEF SendRepeated, Posts
  <2>2. work[h].id \in Nat /\ work[h].post \in Posts
    BY <1>0, <1>7 DEF SendRepeated, Work
  <2>3. swallowed' \subseteq [id : Nat, boot : 1 .. MaxBoots] /\ excused' \subseteq Posts
    BY <1>7, <2>2 DEF SendRepeated, TypeOK
  <2>4. UNCHANGED <<room, waiting, known, boot, txnSeq, used, heard, faults>>
    BY <1>7 DEF SendRepeated
  <2> QED
    BY <2>1, <2>3, <2>4 DEF TypeOK, WorkOK, Posts
<1>8. CASE Fail(h)
  <2>1. WorkOK'
    BY <1>8, IdleRecord, WorkStays DEF Fail, Posts
  <2>2. faults' \in 0 .. MaxFaults /\ excused' \subseteq Posts
    BY <1>0, <1>8 DEF Fail, TypeOK
  <2>3. UNCHANGED <<room, waiting, known, boot, txnSeq, used, heard, swallowed>>
    BY <1>8 DEF Fail
  <2> QED
    BY <2>1, <2>2, <2>3 DEF TypeOK, WorkOK, Posts
<1> QED
  BY <1>1, <1>2, <1>3, <1>4, <1>5, <1>6, <1>7, <1>8 DEF Handle

(* Whoever writes a text is a user of the room, and the types stay.         *)
LEMMA WriteTypes ==
  ASSUME TypeOK, NEW by \in Member, NEW text \in Texts, NEW cause \in Nat,
         Appended(by, text, cause), heard' \subseteq Agents \X Posts',
         UNCHANGED <<known, work, boot, txnSeq, used, swallowed, excused, faults>>
  PROVE  TypeOK'
<1>1. by \in Users /\ text \in Text
  BY TextsAssumption DEF Users, Target
<1>2. /\ room' \in Seq(Post) /\ waiting' \subseteq Posts' /\ Posts \subseteq Posts'
  BY <1>1, AppendedTypes
<1> QED
  BY <1>2 DEF TypeOK

(* Every step keeps the types.                                              *)
LEMMA TypeStep == TypeOK /\ [Next]_vars => TypeOK'
<1> SUFFICES ASSUME TypeOK, [Next]_vars PROVE TypeOK'
  OBVIOUS
<1>0. Len(room) \in Nat
  BY DEF TypeOK
<1>1. ASSUME NEW m \in Member, Say(m) PROVE TypeOK'
  <2>1. PICK text \in Texts : Appended(m, text, 0)
    BY <1>1 DEF Say
  <2>2. Posts \subseteq Posts'
    BY <2>1, TextsAssumption, AppendedTypes DEF Users, Target
  <2> QED
    BY <1>1, <2>1, <2>2, WriteTypes DEF Say, TypeOK
<1>2. ASSUME NEW a \in Agents, NEW i \in Posts, Reply(a, i) PROVE TypeOK'
  <2>1. PICK text \in Texts : Appended(a, text, i)
    BY <1>2 DEF Reply
  <2>2. a \in Member /\ i \in Nat
    BY AgentsAssumption DEF Posts
  <2>3. Posts \subseteq Posts'
    BY <2>1, <2>2, TextsAssumption, AppendedTypes DEF Users, Target
  <2>4. heard' \subseteq Agents \X Posts'
    BY <1>2, <2>3 DEF Reply, TypeOK
  <2> QED
    BY <1>2, <2>1, <2>2, <2>4, WriteTypes DEF Reply
<1>3. ASSUME NEW t \in Target, AccountRecorded(t) PROVE TypeOK'
  BY <1>3 DEF AccountRecorded, TypeOK, Posts
<1>4. ASSUME NEW h \in Handlers, Handle(h) \/ Fail(h) PROVE TypeOK'
  BY <1>4, HandleTypes
<1>5. CASE Restart
  <2>1. /\ work' \in [Handlers -> Work] /\ \A h \in Handlers : work'[h].step = "idle"
    BY <1>5, IdleRecord DEF Restart
  <2>2. {work[h].post : h \in {g \in Handlers : work[g].step # "idle"}} \subseteq Posts
    BY DEF TypeOK
  <2>3. waiting' \subseteq Posts /\ excused' \subseteq Posts
    BY <1>5, <2>2 DEF Restart, TypeOK
  <2>4. boot' \in 1 .. MaxBoots /\ txnSeq' = 0
    BY <1>5, RoomBoundsAssumption DEF Restart, TypeOK
  <2>5. UNCHANGED <<room, known, used, heard, swallowed, faults>>
    BY <1>5 DEF Restart
  <2> QED
    BY <2>1, <2>3, <2>4, <2>5 DEF TypeOK, Posts
<1>6. CASE UNCHANGED vars
  BY <1>6 DEF vars, TypeOK, Posts
<1> QED
  BY <1>1, <1>2, <1>3, <1>4, <1>5, <1>6 DEF Next

(* Every message, every account and every goroutine stays well typed.       *)
THEOREM TypeInvariant == Spec => []TypeOK
BY TypeInit, TypeStep, PTL DEF Spec

--------------------------------------------------------------------------------
(* Who is woken.                                                            *)

(* Whoever a run starts for was asked for by its message.                   *)
LEMMA StartTargetsAreAskedFor ==
  ASSUME NEW p \in Post, StartAccepted(p), NEW m \in StartTargets(p)
  PROVE  AskedFor(p, m)
<1>1. m \in Expanded(p) /\ <<p.by, m>> \in MayStart
  BY DEF StartTargets
<1>2. PICK t \in Addressed(p) : m \in MembersOf[t]
  BY <1>1 DEF Expanded
<1>3. m \notin p.skip /\ t \in p.mentions /\ t \in Resolvable
  BY <1>1, <1>2 DEF Expanded, Addressed, StartAccepted
<1> QED
  BY <1>1, <1>2, <1>3 DEF AskedFor

(* A message more keeps the property of the others.                         *)
LEMMA OtherWakes ==
  ASSUME WakesAreAskedFor, NEW n, Posts' = Posts \union {n},
         \A i \in Posts : room'[i] = room[i],
         room'[n].by = operator =>
           /\ room'[n].cause \in Posts
           /\ room[room'[n].cause].by \in Member
           /\ \A m \in room'[n].mentions : m \in Agents /\ AskedFor(room[room'[n].cause], m)
  PROVE  WakesAreAskedFor'
<1> SUFFICES ASSUME NEW i \in Posts', room'[i].by = operator
             PROVE  /\ room'[i].cause \in Posts'
                    /\ room'[room'[i].cause].by \in Member
                    /\ \A m \in room'[i].mentions :
                         m \in Agents /\ AskedFor(room'[room'[i].cause], m)
  BY DEF WakesAreAskedFor
<1>1. /\ room'[i].cause \in Posts
      /\ room[room'[i].cause].by \in Member
      /\ \A m \in room'[i].mentions : m \in Agents /\ AskedFor(room[room'[i].cause], m)
  <2>1. CASE i \in Posts
    BY <2>1 DEF WakesAreAskedFor
  <2>2. CASE i = n
    BY <2>2
  <2> QED
    BY <2>1, <2>2
<1> QED
  BY <1>1

(* What a goroutine has in hand.                                            *)
InHand ==
  \A h \in Handlers : work[h].step # "idle" =>
    /\ room[work[h].post].by \in Member
    /\ \A m \in work[h].targets : AskedFor(room[work[h].post], m)
    /\ work[h].mentions \subseteq work[h].targets

(* A move to a record for the same or for a new message.                    *)
LEMMA InHandStays ==
  ASSUME TypeOK, InHand, NEW h \in Handlers, NEW w \in Work, work' = [work EXCEPT ![h] = w],
         \A i \in Posts : room'[i] = room[i],
         w.step # "idle" =>
           /\ w.post \in Posts
           /\ room[w.post].by \in Member
           /\ \A m \in w.targets : AskedFor(room[w.post], m)
           /\ w.mentions \subseteq w.targets
  PROVE  InHand'
<1>1. /\ work'[h] = w
      /\ \A g \in Handlers \ {h} : work'[g] = work[g]
  BY OneWorkMoves DEF TypeOK
<1> SUFFICES ASSUME NEW g \in Handlers, work'[g].step # "idle"
             PROVE  /\ room'[work'[g].post].by \in Member
                    /\ \A m \in work'[g].targets : AskedFor(room'[work'[g].post], m)
                    /\ work'[g].mentions \subseteq work'[g].targets
  BY DEF InHand
<1>2. CASE g = h
  BY <1>1, <1>2
<1>3. CASE g # h
  <2>1. work'[g] = work[g] /\ work[g].post \in Posts
    BY <1>1, <1>3 DEF TypeOK
  <2> QED
    BY <2>1 DEF InHand
<1> QED
  BY <1>2, <1>3

(* Handling keeps both.                                                     *)
LEMMA HandleWakes ==
  ASSUME TypeOK, WakesAreAskedFor, InHand, NEW h \in Handlers, Handle(h) \/ Fail(h)
  PROVE  WakesAreAskedFor' /\ InHand'
<1>0. work[h] \in Work /\ (work[h].step # "idle" => work[h].post \in Posts)
  BY DEF TypeOK
<1>1. CASE Start(h)
  <2>1. PICK i \in waiting :
          /\ Understood(room[i]) /\ StartAccepted(room[i])
          /\ work' = [work EXCEPT ![h] =
               [Idle EXCEPT !.step = "dispatch", !.post = i, !.targets = StartTargets(room[i])]]
    BY <1>1 DEF Start
  <2>2. UNCHANGED room /\ i \in Posts /\ i \in Nat /\ room[i] \in Post
    BY <1>1 DEF Start, TypeOK, Posts
  <2>3. room[i].by \in Member /\ StartTargets(room[i]) \in SUBSET Target
        /\ \A m \in StartTargets(room[i]) : AskedFor(room[i], m)
    BY <2>1, <2>2, StartTargetsAreAskedFor DEF Understood, StartTargets, MayStart
  <2>4. InHand'
    <3> DEFINE w == [Idle EXCEPT !.step = "dispatch", !.post = i,
                                 !.targets = StartTargets(room[i])]
    <3>1. w \in Work /\ w.post = i /\ w.targets = StartTargets(room[i]) /\ w.mentions = {}
      BY <2>2, <2>3, DispatchRecord
    <3>2. work' = [work EXCEPT ![h] = w]
      BY <2>1
    <3> HIDE DEF w
    <3> QED
      BY <2>2, <2>3, <3>1, <3>2, InHandStays
  <2> QED
    BY <2>2, <2>4 DEF WakesAreAskedFor, Posts
<1>2. CASE Refuse(h)
  BY <1>2 DEF Refuse, WakesAreAskedFor, InHand, Posts
<1>3. CASE Dispatch(h)
  <2>1. UNCHANGED room /\ work[h].step = "dispatch"
    BY <1>3 DEF Dispatch
  <2>2. InHand'
    <3> DEFINE w == [work[h] EXCEPT !.step = "number",
                                    !.mentions = work[h].targets \intersect Agents]
    <3>1. w \in Work /\ w.post = work[h].post /\ w.targets = work[h].targets
          /\ w.mentions = work[h].targets \intersect Agents
      BY <1>0, NumberRecord
    <3>2. work' = [work EXCEPT ![h] = w]
      BY <1>3 DEF Dispatch
    <3> HIDE DEF w
    <3>3. /\ room[w.post].by \in Member
          /\ \A m \in w.targets : AskedFor(room[w.post], m)
          /\ w.mentions \subseteq w.targets
      BY <2>1, <3>1 DEF InHand
    <3> QED
      BY <1>0, <2>1, <3>1, <3>2, <3>3, InHandStays
  <2> QED
    BY <2>1, <2>2 DEF WakesAreAskedFor, Posts
<1>4. CASE RefuseDispatch(h)
  BY <1>4, IdleRecord, InHandStays DEF RefuseDispatch, WakesAreAskedFor, Posts
<1>5. CASE Number(h)
  <2>1. UNCHANGED room /\ work[h].step = "number" /\ txnSeq + 1 \in Nat
    BY <1>5 DEF Number, TypeOK
  <2>2. InHand'
    <3> DEFINE w == [work[h] EXCEPT !.step = "send", !.id = txnSeq + 1]
    <3>1. w \in Work /\ w.post = work[h].post /\ w.targets = work[h].targets
          /\ w.mentions = work[h].mentions
      BY <1>0, <2>1, SendRecord
    <3>2. work' = [work EXCEPT ![h] = w]
      BY <1>5 DEF Number
    <3> HIDE DEF w
    <3>3. /\ room[w.post].by \in Member
          /\ \A m \in w.targets : AskedFor(room[w.post], m)
          /\ w.mentions \subseteq w.targets
      BY <2>1, <3>1 DEF InHand
    <3> QED
      BY <1>0, <2>1, <3>1, <3>2, <3>3, InHandStays
  <2> QED
    BY <2>1, <2>2 DEF WakesAreAskedFor, Posts
<1>6. CASE Send(h)
  <2> DEFINE text == [mentions |-> work[h].mentions, skip |-> room[work[h].post].skip]
  <2>1. work[h].post \in Posts /\ work[h].post \in Nat /\ work[h].step = "send"
    BY <1>0, <1>6 DEF Send, Posts
  <2>2. text \in Text /\ operator \in Users /\ work[h].mentions \subseteq Agents
    <3>1. room[work[h].post] \in Post
      BY <2>1 DEF TypeOK, Posts
    <3>2. work[h].mentions \subseteq Users /\ work[h].mentions \subseteq Agents
      BY <1>0, AgentsAssumption DEF Work, Users, Target
    <3> QED
      BY <3>1, <3>2 DEF Text, Post, Users
  <2>3. Appended(operator, text, work[h].post) /\ text.mentions = work[h].mentions
    BY <1>6 DEF Send
  <2> HIDE DEF text
  <2>4. /\ Posts' = Posts \union {Len(room) + 1}
        /\ \A i \in Posts : room'[i] = room[i]
        /\ room'[Len(room) + 1] = [by |-> operator, mentions |-> text.mentions,
                                   skip |-> text.skip, cause |-> work[h].post]
    BY <2>1, <2>2, <2>3, AppendedTypes
  <2>5. /\ room[work[h].post].by \in Member
        /\ \A m \in work[h].mentions : m \in Agents /\ AskedFor(room[work[h].post], m)
    BY <2>1, <2>2 DEF InHand
  <2>6. WakesAreAskedFor'
    BY <2>1, <2>3, <2>4, <2>5, OtherWakes
  <2>7. InHand'
    BY <1>6, <2>4, IdleRecord, InHandStays DEF Send
  <2> QED
    BY <2>6, <2>7
<1>7. CASE SendRepeated(h)
  BY <1>7, IdleRecord, InHandStays DEF SendRepeated, WakesAreAskedFor, Posts
<1>8. CASE Fail(h)
  BY <1>8, IdleRecord, InHandStays DEF Fail, WakesAreAskedFor, Posts
<1> QED
  BY <1>1, <1>2, <1>3, <1>4, <1>5, <1>6, <1>7, <1>8 DEF Handle

(* A Member writes: no wake-up, and nothing in hand changes.                *)
LEMMA WriteWakes ==
  ASSUME TypeOK, WakesAreAskedFor, InHand, NEW by \in Member, NEW text \in Texts,
         NEW cause \in Nat, Appended(by, text, cause), UNCHANGED work
  PROVE  WakesAreAskedFor' /\ InHand'
<1>1. by \in Users /\ text \in Text /\ by # operator
  BY TextsAssumption, OperatorAssumption DEF Users, Target
<1>2. /\ Posts' = Posts \union {Len(room) + 1}
      /\ \A i \in Posts : room'[i] = room[i]
      /\ room'[Len(room) + 1] =
           [by |-> by, mentions |-> text.mentions, skip |-> text.skip, cause |-> cause]
  BY <1>1, AppendedTypes
<1>3. WakesAreAskedFor'
  BY <1>1, <1>2, OtherWakes
<1>4. InHand'
  BY <1>2 DEF InHand, TypeOK
<1> QED
  BY <1>3, <1>4

LEMMA RoomInvInit == Init => RoomInv
<1> SUFFICES ASSUME Init PROVE RoomInv
  OBVIOUS
<1>1. Len(room) = 0 /\ \A h \in Handlers : work[h].step = "idle"
  BY IdleRecord DEF Init
<1> QED
  BY <1>1, TypeInit DEF RoomInv, WakesAreAskedFor, Posts

(* Every step keeps the invariant.                                          *)
LEMMA RoomInvStep == RoomInv /\ [Next]_vars => RoomInv'
<1> SUFFICES ASSUME RoomInv, [Next]_vars PROVE RoomInv'
  OBVIOUS
<1>0. TypeOK /\ WakesAreAskedFor /\ InHand
  BY DEF RoomInv, InHand
<1>1. ASSUME NEW m \in Member, Say(m) PROVE WakesAreAskedFor' /\ InHand'
  BY <1>0, <1>1, WriteWakes DEF Say
<1>2. ASSUME NEW a \in Agents, NEW i \in Posts, Reply(a, i) PROVE WakesAreAskedFor' /\ InHand'
  <2>1. a \in Member /\ i \in Nat
    BY AgentsAssumption DEF Posts
  <2> QED
    BY <1>0, <1>2, <2>1, WriteWakes DEF Reply
<1>3. ASSUME NEW t \in Target, AccountRecorded(t) PROVE WakesAreAskedFor' /\ InHand'
  BY <1>0, <1>3 DEF AccountRecorded, WakesAreAskedFor, InHand, Posts
<1>4. ASSUME NEW h \in Handlers, Handle(h) \/ Fail(h) PROVE WakesAreAskedFor' /\ InHand'
  BY <1>0, <1>4, HandleWakes
<1>5. ASSUME Restart PROVE WakesAreAskedFor' /\ InHand'
  <2>1. UNCHANGED room /\ \A h \in Handlers : work'[h].step = "idle"
    BY <1>5, IdleRecord DEF Restart
  <2> QED
    BY <1>0, <2>1 DEF WakesAreAskedFor, InHand, Posts
<1>6. ASSUME UNCHANGED vars PROVE WakesAreAskedFor' /\ InHand'
  BY <1>0, <1>6 DEF vars, WakesAreAskedFor, InHand, Posts
<1>7. WakesAreAskedFor' /\ InHand'
  BY <1>1, <1>2, <1>3, <1>4, <1>5, <1>6 DEF Next
<1> QED
  BY <1>0, <1>7, TypeStep DEF RoomInv, InHand

(* The operator wakes an agent only in answer to a Member's message that is *)
(* for that agent, whatever the agents answer and whoever mentions whom.    *)
THEOREM AskedWakes == Spec => []WakesAreAskedFor
<1>1. RoomInv => WakesAreAskedFor
  BY DEF RoomInv
<1> QED
  BY <1>1, RoomInvInit, RoomInvStep, PTL DEF Spec

--------------------------------------------------------------------------------
(* Transaction ids.                                                         *)

(* The ids that goroutines are about to send.                               *)
IdsInHand ==
  /\ \A h \in Handlers : work[h].step = "send" =>
       work[h].id <= txnSeq /\ <<work[h].id, boot>> \notin used
  /\ \A g, h \in Handlers :
       work[g].step = "send" /\ work[h].step = "send" /\ work[g].id = work[h].id => g = h

(* What the homeserver remembers.                                           *)
IdsUsed ==
  /\ \A u \in used : u[2] <= boot /\ (u[2] = boot => u[1] <= txnSeq)
  /\ \A s \in swallowed : s.boot <= boot /\ \E u \in used : u[1] = s.id
  /\ DropsNeedARestart

LEMMA IdInvParts == IdInv <=> IdsInHand /\ IdsUsed
BY DEF IdInv, IdsInHand, IdsUsed

(* A goroutine that moves to anything but sending has no id.                *)
LEMMA NoIdInHand ==
  ASSUME TypeOK, IdsInHand, NEW h \in Handlers, NEW w \in Work, w.step # "send",
         work' = [work EXCEPT ![h] = w], UNCHANGED <<boot, txnSeq, used>>
  PROVE  IdsInHand'
<1>1. /\ work'[h] = w
      /\ \A g \in Handlers \ {h} : work'[g] = work[g]
  BY OneWorkMoves DEF TypeOK
<1> QED
  BY <1>1 DEF IdsInHand

(* Handling keeps ids apart.                                                *)
LEMMA HandleIds ==
  ASSUME TypeOK, IdsInHand, IdsUsed, NEW h \in Handlers, Handle(h) \/ Fail(h)
  PROVE  IdsInHand' /\ IdsUsed'
<1>0. work[h] \in Work /\ work[h].id \in Nat /\ txnSeq \in Nat /\ boot \in Nat
      /\ used \subseteq Nat \X Nat
  BY DEF TypeOK, Work
<1>1. CASE Start(h)
  <2>1. PICK i \in waiting :
          /\ StartAccepted(room[i])
          /\ work' = [work EXCEPT ![h] =
               [Idle EXCEPT !.step = "dispatch", !.post = i, !.targets = StartTargets(room[i])]]
    BY <1>1 DEF Start
  <2>2. i \in Nat /\ StartTargets(room[i]) \in SUBSET Target
    BY DEF TypeOK, Posts, StartTargets, MayStart
  <2> DEFINE w == [Idle EXCEPT !.step = "dispatch", !.post = i,
                               !.targets = StartTargets(room[i])]
  <2>3. w \in Work /\ w.step # "send" /\ work' = [work EXCEPT ![h] = w]
    BY <2>1, <2>2, DispatchRecord
  <2> HIDE DEF w
  <2> QED
    BY <1>1, <2>3, NoIdInHand DEF Start, IdsUsed, DropsNeedARestart
<1>2. CASE Refuse(h)
  BY <1>2 DEF Refuse, IdsInHand, IdsUsed, DropsNeedARestart
<1>3. CASE Dispatch(h)
  <2> DEFINE w == [work[h] EXCEPT !.step = "number",
                                  !.mentions = work[h].targets \intersect Agents]
  <2>1. w \in Work /\ w.step # "send"
    BY <1>0, NumberRecord
  <2>2. work' = [work EXCEPT ![h] = w]
    BY <1>3 DEF Dispatch
  <2> HIDE DEF w
  <2> QED
    BY <1>3, <2>1, <2>2, NoIdInHand DEF Dispatch, IdsUsed, DropsNeedARestart
<1>4. CASE RefuseDispatch(h)
  BY <1>4, IdleRecord, NoIdInHand DEF RefuseDispatch, IdsUsed, DropsNeedARestart
<1>5. CASE Number(h)
  <2> DEFINE w == [work[h] EXCEPT !.step = "send", !.id = txnSeq + 1]
  <2>1. w \in Work /\ w.id = txnSeq + 1
    <3>1. txnSeq + 1 \in Nat
      BY <1>0
    <3> QED
      BY <1>0, <3>1, SendRecord
  <2>2. work' = [work EXCEPT ![h] = w] /\ txnSeq' = txnSeq + 1
        /\ UNCHANGED <<boot, used, swallowed>>
    BY <1>5 DEF Number
  <2> HIDE DEF w
  <2>3. work'[h] = w /\ \A g \in Handlers \ {h} : work'[g] = work[g]
    BY <2>1, <2>2, OneWorkMoves DEF TypeOK
  <2>4. <<txnSeq + 1, boot>> \notin used
    BY <1>0 DEF IdsUsed
  <2>5. \A g \in Handlers \ {h} : work[g].step = "send" =>
          work[g].id \in Nat /\ work[g].id <= txnSeq
    BY DEF IdsInHand, TypeOK, Work
  <2>6. IdsInHand'
    BY <1>0, <2>1, <2>2, <2>3, <2>4, <2>5 DEF IdsInHand
  <2>7. IdsUsed'
    BY <1>0, <2>2 DEF IdsUsed, DropsNeedARestart
  <2> QED
    BY <2>6, <2>7
<1>6. CASE Send(h)
  <2>1. /\ work[h].step = "send" /\ ~Repeated(work[h].id)
        /\ used' = IF FixedToken THEN used \union {<<work[h].id, boot>>} ELSE used
        /\ work' = [work EXCEPT ![h] = Idle]
        /\ UNCHANGED <<boot, txnSeq, swallowed>>
    BY <1>6 DEF Send
  <2>2. work'[h] = Idle /\ Idle.step = "idle" /\ \A g \in Handlers \ {h} : work'[g] = work[g]
    BY <2>1, IdleRecord, OneWorkMoves DEF TypeOK
  <2>3. \A g \in Handlers \ {h} : work[g].step = "send" => work[g].id # work[h].id
    BY <2>1 DEF IdsInHand
  <2>4. IdsInHand'
    BY <2>1, <2>2, <2>3 DEF IdsInHand
  <2>5. \A u \in used' : u \in used \/ (FixedToken /\ u = <<work[h].id, boot>>)
    <3>1. CASE FixedToken
      BY <2>1, <3>1
    <3>2. CASE ~FixedToken
      BY <2>1, <3>2
    <3> QED
      BY <3>1, <3>2
  <2>6. work[h].id <= txnSeq
    BY <2>1 DEF IdsInHand
  <2>7. \A s \in swallowed : FixedToken => s.id # work[h].id
    BY <2>1 DEF IdsUsed, Repeated
  <2>8. used \subseteq used'
    BY <2>1
  <2>9. \A u \in used' : u[2] <= boot' /\ (u[2] = boot' => u[1] <= txnSeq')
    BY <1>0, <2>1, <2>5, <2>6 DEF IdsUsed
  <2>10. DropsNeedARestart'
    BY <2>1, <2>5, <2>7 DEF IdsUsed, DropsNeedARestart
  <2>11. \A s \in swallowed' : s.boot <= boot' /\ \E u \in used' : u[1] = s.id
    BY <2>1, <2>8 DEF IdsUsed
  <2> QED
    BY <2>4, <2>9, <2>10, <2>11 DEF IdsUsed
<1>7. CASE SendRepeated(h)
  <2> DEFINE d == [id |-> work[h].id, boot |-> boot]
  <2>1. /\ work[h].step = "send" /\ \E u \in used : u[1] = work[h].id
        /\ swallowed' = swallowed \union {d}
        /\ UNCHANGED <<boot, txnSeq, used>>
    BY <1>7 DEF SendRepeated, Repeated
  <2>2. IdsInHand'
    BY <1>7, IdleRecord, NoIdInHand DEF SendRepeated
  <2>3. d.id = work[h].id /\ d.boot = boot
    OBVIOUS
  <2>4. \A u \in used : u[1] = work[h].id => u[2] < boot
    <3> SUFFICES ASSUME NEW u \in used, u[1] = work[h].id PROVE u[2] < boot
      OBVIOUS
    <3>1. u = <<u[1], u[2]>> /\ u[2] \in Nat /\ u[2] <= boot
      BY <1>0 DEF IdsUsed
    <3>2. u[2] # boot
      BY <2>1, <3>1 DEF IdsInHand
    <3> QED
      BY <1>0, <3>1, <3>2
  <2> HIDE DEF d
  <2> QED
    BY <1>0, <2>1, <2>2, <2>3, <2>4 DEF IdsUsed, DropsNeedARestart
<1>8. CASE Fail(h)
  BY <1>8, IdleRecord, NoIdInHand DEF Fail, IdsUsed, DropsNeedARestart
<1> QED
  BY <1>1, <1>2, <1>3, <1>4, <1>5, <1>6, <1>7, <1>8 DEF Handle

LEMMA IdInvInit == Init => IdInv
BY IdleRecord DEF Init, IdInv, DropsNeedARestart

(* Every step keeps ids apart; a restart counts from one again, and is a    *)
(* boot of its own.                                                         *)
LEMMA IdInvStep == TypeOK /\ IdInv /\ [Next]_vars => IdInv'
<1> SUFFICES ASSUME TypeOK, IdInv, [Next]_vars PROVE IdInv'
  OBVIOUS
<1>0. IdsInHand /\ IdsUsed
  BY IdInvParts
<1>1. ASSUME UNCHANGED <<work, boot, txnSeq, used, swallowed>> PROVE IdsInHand' /\ IdsUsed'
  BY <1>0, <1>1 DEF IdsInHand, IdsUsed, DropsNeedARestart
<1>2. ASSUME NEW m \in Member, Say(m) PROVE IdsInHand' /\ IdsUsed'
  BY <1>1, <1>2 DEF Say
<1>3. ASSUME NEW a \in Agents, NEW i \in Posts, Reply(a, i) PROVE IdsInHand' /\ IdsUsed'
  BY <1>1, <1>3 DEF Reply
<1>4. ASSUME NEW t \in Target, AccountRecorded(t) PROVE IdsInHand' /\ IdsUsed'
  BY <1>1, <1>4 DEF AccountRecorded
<1>5. ASSUME NEW h \in Handlers, Handle(h) \/ Fail(h) PROVE IdsInHand' /\ IdsUsed'
  BY <1>0, <1>5, HandleIds
<1>6. ASSUME Restart PROVE IdsInHand' /\ IdsUsed'
  <2>1. \A h \in Handlers : work'[h].step = "idle"
    BY <1>6, IdleRecord DEF Restart
  <2>2. boot' = boot + 1 /\ UNCHANGED <<used, swallowed>> /\ boot \in Nat
    BY <1>6 DEF Restart, TypeOK
  <2>3. \A u \in used : u[2] \in Nat /\ u[2] < boot'
    BY <1>0, <2>2 DEF IdsUsed, TypeOK
  <2>4. \A s \in swallowed : s.boot \in Nat /\ s.boot <= boot'
    BY <1>0, <2>2 DEF IdsUsed, TypeOK
  <2> QED
    BY <1>0, <2>1, <2>2, <2>3, <2>4 DEF IdsInHand, IdsUsed, DropsNeedARestart
<1>7. ASSUME UNCHANGED vars PROVE IdsInHand' /\ IdsUsed'
  BY <1>1, <1>7 DEF vars
<1>8. IdsInHand' /\ IdsUsed'
  BY <1>2, <1>3, <1>4, <1>5, <1>6, <1>7 DEF Next
<1> QED
  BY <1>8 DEF IdInv, IdsInHand, IdsUsed

(* Two messages of one process never have the same transaction id: only a   *)
(* process that began again can lose one to the homeserver's memory.        *)
THEOREM DropsAreOfRestarts == Spec => []DropsNeedARestart
<1>1. IdInv => DropsNeedARestart
  BY DEF IdInv
<1>2. (TypeOK /\ IdInv) /\ [Next]_vars => (TypeOK /\ IdInv)'
  BY TypeStep, IdInvStep
<1> QED
  BY <1>1, <1>2, TypeInit, IdInvInit, PTL DEF Spec

--------------------------------------------------------------------------------
(* No message is lost.                                                      *)

Cared(i) == i \in waiting \/ Handled(i) \/ i \in excused \/ Woken(i)

LEMMA AsksCarry ==
  ASSUME NoAskIsLost,
         \A i \in Posts : i \in Posts' /\ room'[i] = room[i],
         \A i \in Posts' :
           \/ i \in waiting'
           \/ i \in Posts /\ (Lawful(room[i]) /\ Cared(i) => Cared(i)')
  PROVE  NoAskIsLost'
<1> SUFFICES ASSUME NEW i \in Posts', Lawful(room'[i])
             PROVE  Cared(i)'
  BY DEF NoAskIsLost, Cared
<1>1. CASE i \in waiting'
  BY <1>1 DEF Cared
<1>2. CASE i \in Posts /\ (Lawful(room[i]) /\ Cared(i) => Cared(i)')
  BY <1>2 DEF NoAskIsLost, Cared
<1> QED
  BY <1>1, <1>2

LEMMA WokenStays ==
  ASSUME \A i \in Posts : i \in Posts' /\ room'[i] = room[i], NEW i, Woken(i)
  PROVE  Woken(i)'
BY DEF Woken

(* A message more, which waits.                                             *)
LEMMA WritingLosesNoAsk ==
  ASSUME TypeOK, NoAskIsLost, NEW by \in Users, NEW text \in Text, NEW cause \in Nat,
         Appended(by, text, cause), excused \subseteq excused',
         \A i \in Posts : Handled(i) => Handled(i)' \/ (by = operator /\ cause = i)
  PROVE  NoAskIsLost'
<1>1. /\ Posts' = Posts \union {Len(room) + 1}
      /\ \A i \in Posts : i \in Posts' /\ room'[i] = room[i]
      /\ room'[Len(room) + 1].by = by /\ room'[Len(room) + 1].cause = cause
      /\ waiting' = waiting \union {Len(room) + 1}
  <2>1. /\ Posts' = Posts \union {Len(room) + 1} /\ Posts \subseteq Posts'
        /\ \A i \in Posts : room'[i] = room[i]
        /\ room'[Len(room) + 1] =
             [by |-> by, mentions |-> text.mentions, skip |-> text.skip, cause |-> cause]
    BY AppendedTypes
  <2>2. waiting' = waiting \union {Len(room) + 1}
    BY DEF Appended
  <2> QED
    BY <2>1, <2>2
<1>2. by = operator => Woken(cause)'
  BY <1>1 DEF Woken
<1>3. \A i \in Posts : Cared(i) => Cared(i)'
  BY <1>1, <1>2, WokenStays DEF Cared
<1> QED
  BY <1>1, <1>3, AsksCarry

(* Nothing is written, and who leaves the hands is excused.                 *)
LEMMA HandsLoseNoAsk ==
  ASSUME NoAskIsLost, UNCHANGED room, waiting \subseteq waiting', excused \subseteq excused',
         \A i \in Posts : Handled(i) => Handled(i)' \/ i \in excused'
  PROVE  NoAskIsLost'
<1>1. UNCHANGED Posts
  BY DEF Posts
<1>2. \A i : Woken(i) => Woken(i)'
  BY <1>1 DEF Woken
<1>3. \A i \in Posts : Cared(i) => Cared(i)'
  BY <1>2 DEF Cared
<1> QED
  BY <1>1, <1>3, AsksCarry

(* A goroutine that goes on with its message, or puts it down.              *)
LEMMA HandlerMoves ==
  ASSUME TypeOK, NEW h \in Handlers, NEW w, work' = [work EXCEPT ![h] = w], NEW i, Handled(i)
  PROVE  Handled(i)' \/ work[h].post = i
BY DEF Handled, TypeOK

LEMMA HandlerGoesOn ==
  ASSUME TypeOK, NEW h \in Handlers, NEW w, work' = [work EXCEPT ![h] = w],
         w.step # "idle", w.post = work[h].post \/ work[h].step = "idle", NEW i, Handled(i)
  PROVE  Handled(i)'
BY DEF Handled, TypeOK

(* What is refused while every account is there is not lawful: the index    *)
(* knows everyone it mentions, and the policies allow somebody.             *)
LEMMA LawfulIsStarted ==
  ASSUME NEW p \in Post, Lawful(p), known = Target
  PROVE  Understood(p) /\ StartAccepted(p)
<1>1. Understood(p)
  BY DEF Lawful, Understood, Target
<1>2. StartTargets(p) # {}
  BY DEF Lawful, StartTargets
<1> QED
  BY <1>1, <1>2 DEF Lawful, StartAccepted

LEMMA HandlingLosesNoAsk ==
  ASSUME TypeOK, NoAskIsLost, NEW h \in Handlers, Handle(h) \/ Fail(h)
  PROVE  NoAskIsLost'
<1>0. work[h] \in Work /\ (work[h].step # "idle" => work[h].post \in Posts)
  BY DEF TypeOK
<1>1. CASE Start(h)
  <2>1. PICK i \in waiting :
          /\ waiting' = waiting \ {i}
          /\ work' = [work EXCEPT ![h] =
               [Idle EXCEPT !.step = "dispatch", !.post = i, !.targets = StartTargets(room[i])]]
    BY <1>1 DEF Start
  <2> DEFINE w == [Idle EXCEPT !.step = "dispatch", !.post = i, !.targets = StartTargets(room[i])]
  <2>2. work[h].step = "idle" /\ UNCHANGED <<room, excused>> /\ Posts' = Posts
    BY <1>1 DEF Start, Posts
  <2>3. w.step = "dispatch" /\ w.post = i /\ work' = [work EXCEPT ![h] = w]
    BY <2>1 DEF Idle
  <2> HIDE DEF w
  <2>4. \A j : Handled(j) => Handled(j)'
    BY <2>2, <2>3, HandlerGoesOn
  <2>5. Handled(i)'
    <3>1. work'[h] = w
      BY <2>3 DEF TypeOK
    <3> QED
      BY <2>3, <3>1 DEF Handled
  <2>6. \A j \in Posts : Cared(j) => Cared(j)'
    BY <2>1, <2>2, <2>4, <2>5, WokenStays DEF Cared
  <2> QED
    BY <2>2, <2>6, AsksCarry
<1>2. CASE Refuse(h)
  <2>1. PICK i \in waiting :
          /\ ~(Understood(room[i]) /\ StartAccepted(room[i]))
          /\ waiting' = waiting \ {i}
          /\ excused' = IF known = Target THEN excused ELSE excused \union {i}
    BY <1>2 DEF Refuse
  <2>2. UNCHANGED <<room, work>> /\ Posts' = Posts /\ room[i] \in Post
    BY <1>2, <2>1 DEF Refuse, Posts, TypeOK
  <2>3. Lawful(room[i]) => i \in excused'
    BY <2>1, <2>2, LawfulIsStarted
  <2>4. \A j : Handled(j) => Handled(j)'
    BY <2>2 DEF Handled
  <2>5. \A j \in Posts : Lawful(room[j]) /\ Cared(j) => Cared(j)'
    BY <2>1, <2>2, <2>3, <2>4, WokenStays DEF Cared
  <2> QED
    BY <2>2, <2>5, AsksCarry
<1>3. CASE Dispatch(h)
  <2> DEFINE w == [work[h] EXCEPT !.step = "number", !.mentions = work[h].targets \intersect Agents]
  <2>1. work' = [work EXCEPT ![h] = w] /\ UNCHANGED <<room, waiting, excused>>
    BY <1>3 DEF Dispatch
  <2>2. w.step = "number" /\ w.post = work[h].post
    BY <1>0, NumberRecord
  <2> HIDE DEF w
  <2>3. \A i : Handled(i) => Handled(i)'
    BY <2>1, <2>2, HandlerGoesOn
  <2> QED
    BY <2>1, <2>3, HandsLoseNoAsk
<1>4. CASE Number(h)
  <2> DEFINE w == [work[h] EXCEPT !.step = "send", !.id = txnSeq + 1]
  <2>1. work' = [work EXCEPT ![h] = w] /\ UNCHANGED <<room, waiting, excused>> /\ txnSeq + 1 \in Nat
    BY <1>4 DEF Number, TypeOK
  <2>2. w.step = "send" /\ w.post = work[h].post
    BY <1>0, <2>1, SendRecord
  <2> HIDE DEF w
  <2>3. \A i : Handled(i) => Handled(i)'
    BY <2>1, <2>2, HandlerGoesOn
  <2> QED
    BY <2>1, <2>3, HandsLoseNoAsk
<1>5. CASE RefuseDispatch(h) \/ SendRepeated(h) \/ Fail(h)
  <2>1. /\ work' = [work EXCEPT ![h] = Idle] /\ excused' = excused \union {work[h].post}
        /\ UNCHANGED <<room, waiting>>
    BY <1>5 DEF RefuseDispatch, SendRepeated, Fail
  <2>2. \A i : Handled(i) => Handled(i)' \/ i \in excused'
    BY <2>1, HandlerMoves
  <2> QED
    BY <2>1, <2>2, HandsLoseNoAsk
<1>6. CASE Send(h)
  <2> DEFINE text == [mentions |-> work[h].mentions, skip |-> room[work[h].post].skip]
  <2>1. work[h].post \in Posts /\ work[h].post \in Nat
    BY <1>0, <1>6 DEF Send, Posts
  <2>2. text \in Text /\ operator \in Users
    <3>1. room[work[h].post] \in Post
      BY <2>1 DEF TypeOK, Posts
    <3>2. work[h].mentions \subseteq Users
      BY <1>0, AgentsAssumption DEF Work, Users, Target
    <3> QED
      BY <3>1, <3>2 DEF Text, Post, Users
  <2>3. /\ Appended(operator, text, work[h].post) /\ UNCHANGED excused
        /\ work' = [work EXCEPT ![h] = Idle]
    BY <1>6 DEF Send
  <2> HIDE DEF text
  <2>4. \A i \in Posts : Handled(i) => Handled(i)' \/ work[h].post = i
    BY <2>3, HandlerMoves
  <2> QED
    BY <2>1, <2>2, <2>3, <2>4, WritingLosesNoAsk
<1> QED
  BY <1>1, <1>2, <1>3, <1>4, <1>5, <1>6 DEF Handle

LEMMA AsksStep == TypeOK /\ NoAskIsLost /\ [Next]_vars => NoAskIsLost'
<1> SUFFICES ASSUME TypeOK, NoAskIsLost, [Next]_vars PROVE NoAskIsLost'
  OBVIOUS
<1>1. ASSUME UNCHANGED <<work, excused>>, NEW by \in Member, NEW text \in Texts, NEW cause \in Nat,
             Appended(by, text, cause)
      PROVE  NoAskIsLost'
  <2>1. by \in Users /\ text \in Text
    BY TextsAssumption DEF Users, Target
  <2>2. \A i : Handled(i) => Handled(i)'
    BY <1>1 DEF Handled
  <2> QED
    BY <1>1, <2>1, <2>2, WritingLosesNoAsk
<1>2. ASSUME NEW m \in Member, Say(m) PROVE NoAskIsLost'
  BY <1>1, <1>2 DEF Say
<1>3. ASSUME NEW a \in Agents, NEW i \in Posts, Reply(a, i) PROVE NoAskIsLost'
  <2>1. a \in Member /\ i \in Nat
    BY AgentsAssumption DEF Posts
  <2> QED
    BY <1>1, <1>3, <2>1 DEF Reply
<1>4. CASE UNCHANGED <<room, waiting, work, excused>>
  <2>1. \A i : Handled(i) => Handled(i)'
    BY <1>4 DEF Handled
  <2> QED
    BY <1>4, <2>1, HandsLoseNoAsk
<1>5. CASE Restart
  <2>1. \A i : Handled(i) => i \in excused'
    BY <1>5 DEF Restart, Handled
  <2> QED
    BY <1>5, <2>1, HandsLoseNoAsk DEF Restart
<1> QED
  BY <1>2, <1>3, <1>4, <1>5, HandlingLosesNoAsk DEF Next, AccountRecorded, vars

(* A message the organization allows is never dropped silently: it waits,   *)
(* is being handled or has woken somebody, unless a call failed, the        *)
(* process stopped, an account was missing or an id was a repetition.       *)
THEOREM AsksKept == Spec => []NoAskIsLost
<1>1. Init => NoAskIsLost
  BY DEF Init, NoAskIsLost, Posts
<1>2. TypeOK /\ NoAskIsLost /\ [Next]_vars => (TypeOK /\ NoAskIsLost)'
  BY TypeStep, AsksStep
<1> QED
  BY <1>1, <1>2, TypeInit, PTL DEF Spec
================================================================================
