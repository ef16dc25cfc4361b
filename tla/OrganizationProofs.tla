------------------------- MODULE OrganizationProofs -------------------------
(***************************************************************************)
(* What Organization, OrganizationAdmin and OrganizationStatus guarantee   *)
(* for every set of names and objects, every spec and every order of edits,*)
(* however long:                                                           *)
(*  - what ExpandGroup computes: it succeeds exactly on complete trees, and*)
(*    lists every Member of the nest once. Its recursion ends since every  *)
(*    walk leaves fewer Groups to enter; what it finds is an induction on  *)
(*    that number;                                                         *)
(*  - what an edit of a Group or a Policy changes for whom;                *)
(*  - that the writers of a status undo nothing of each other, and that a  *)
(*    verdict is about the spec it names: who holds the version the API    *)
(*    server has computed its status from that very version, for all       *)
(*    lagging caches, failures and restarts.                               *)
(***************************************************************************)
EXTENDS OrganizationAdmin, OrganizationStatus,
        FiniteSetTheorems, SequenceTheorems, WellFoundedInduction, TLAPS

--------------------------------------------------------------------------------
(* Induction over sets. The library's induction theorems are about an       *)
(* operator; a set of numbers serves as well, and a goal is put into the    *)
(* set.                                                                     *)

LEMMA LeastNumber ==
  ASSUME NEW S \in SUBSET Nat, S # {}
  PROVE  \E n \in S : \A k \in S : n <= k
<1> DEFINE R == {ss \in Nat \X Nat : ss[1] < ss[2]}
<1>1. OpToRel(<, Nat) = R
  BY Zenon DEF OpToRel
<1>2. IsWellFoundedOn(R, Nat)
  BY <1>1, NatLessThanWellFounded, Zenon
<1>3. PICK n \in S : \A k \in S : <<k, n>> \notin R
  <2> HIDE DEF R
  <2> QED
    BY <1>2, WFMin
<1>4. \A k \in S : k \in Nat /\ n \in Nat /\ ~(k < n)
  BY <1>3
<1>5. \A k \in S : n <= k
  BY <1>4
<1> QED
  BY <1>5

LEMMA InductionOnNat ==
  ASSUME NEW S, 0 \in S, \A n \in Nat : n \in S => n + 1 \in S
  PROVE  Nat \subseteq S
<1> SUFFICES ASSUME Nat \ S # {} PROVE FALSE
  OBVIOUS
<1>1. PICK n \in Nat \ S : \A k \in Nat \ S : n <= k
  BY LeastNumber
<1>2. n # 0 /\ n - 1 \in Nat /\ n - 1 \in S
  BY <1>1
<1> QED
  BY <1>1, <1>2

(* A function that is defined by recursion from 0 up to N exists.           *)
Walks(N, A, base, F, f) ==
  f \in [0 .. N -> A] /\ f[0] = base /\ \A n \in 1 .. N : f[n] = F[<<f[n - 1], n>>]

LEMMA RecursionOnNat ==
  ASSUME NEW N \in Nat, NEW A, NEW base \in A, NEW F \in [A \X (1 .. N) -> A]
  PROVE  \E f : Walks(N, A, base, F, f)
<1> DEFINE Upto(k, f) == f[0] = base /\ \A n \in 1 .. N : n <= k => f[n] = F[<<f[n - 1], n>>]
           S == {k \in Nat : \E f \in [0 .. N -> A] : Upto(k, f)}
<1>1. 0 \in S
  <2> DEFINE f == [n \in 0 .. N |-> base]
  <2>1. f \in [0 .. N -> A] /\ Upto(0, f)
    OBVIOUS
  <2> QED
    BY <2>1
<1>2. ASSUME NEW k \in Nat, k \in S PROVE k + 1 \in S
  <2>1. PICK f \in [0 .. N -> A] : Upto(k, f)
    BY <1>2
  <2>2. CASE k + 1 <= N
    <3> DEFINE h == [n \in 0 .. N |-> IF n = k + 1 THEN F[<<f[k], k + 1>>] ELSE f[n]]
    <3>1. k + 1 \in 1 .. N /\ k \in 0 .. N /\ f[k] \in A
      BY <2>1, <2>2
    <3>2. F[<<f[k], k + 1>>] \in A
      BY <3>1
    <3>3. h \in [0 .. N -> A]
      BY <3>2
    <3>4. h[0] = base
      BY <2>1
    <3>5. ASSUME NEW n \in 1 .. N, n <= k + 1 PROVE h[n] = F[<<h[n - 1], n>>]
      <4>1. n - 1 \in 0 .. N /\ n - 1 # k + 1 /\ h[n - 1] = f[n - 1]
        BY <3>5
      <4>2. CASE n = k + 1
        <5>1. h[n] = F[<<f[k], k + 1>>] /\ n - 1 = k
          BY <4>2
        <5> QED
          BY <4>1, <4>2, <5>1
      <4>3. CASE n # k + 1
        <5>1. n <= k /\ h[n] = f[n]
          BY <3>5, <4>3
        <5> QED
          BY <2>1, <4>1, <5>1
      <4> QED
        BY <4>2, <4>3
    <3>6. Upto(k + 1, h)
      BY <3>4, <3>5
    <3> HIDE DEF h, Upto
    <3> QED
      BY <3>3, <3>6
  <2>3. CASE ~(k + 1 <= N)
    <3>1. \A n \in 1 .. N : n <= k
      BY <2>3
    <3>2. Upto(k + 1, f)
      BY <2>1, <3>1
    <3> HIDE DEF Upto
    <3> QED
      BY <2>1, <3>2
  <2> QED
    BY <2>2, <2>3
<1>3. N \in S
  <2> HIDE DEF S
  <2> QED
    BY <1>1, <1>2, InductionOnNat
<1>4. PICK f \in [0 .. N -> A] : Upto(N, f)
  BY <1>3
<1> QED
  BY <1>4 DEF Walks

(* Two functions that are defined alike are the same.                       *)
StepAlike(N, f, h) ==
  f[0] = h[0] /\ \A n \in 1 .. N : f[n - 1] = h[n - 1] => f[n] = h[n]

LEMMA SameOnNat ==
  ASSUME NEW N \in Nat, NEW f, NEW h, StepAlike(N, f, h)
  PROVE  \A n \in 0 .. N : f[n] = h[n]
<1> USE DEF StepAlike
<1> DEFINE S == {n \in Nat : n <= N => f[n] = h[n]}
<1>1. 0 \in S
  OBVIOUS
<1>2. ASSUME NEW n \in Nat, n \in S PROVE n + 1 \in S
  <2>1. CASE n + 1 <= N
    <3>1. n + 1 \in 1 .. N /\ (n + 1) - 1 = n /\ f[n] = h[n]
      BY <1>2, <2>1
    <3>2. f[n + 1] = h[n + 1]
      BY <3>1
    <3> QED
      BY <3>2
  <2> QED
    BY <2>1
<1>3. Nat \subseteq S
  <2> HIDE DEF S
  <2> QED
    BY <1>1, <1>2, InductionOnNat
<1> QED
  BY <1>3

--------------------------------------------------------------------------------
(* AddUnseen.                                                               *)

Distinct(list) == \A i, j \in DOMAIN list : list[i].who = list[j].who => i = j

LEMMA AddOneSpec ==
  ASSUME NEW list \in Seq(GroupItem), NEW m \in GroupItem
  PROVE  /\ AddOne(list, m) \in Seq(GroupItem)
         /\ Names(AddOne(list, m)) = Names(list) \union {m.who}
         /\ Distinct(list) => Distinct(AddOne(list, m))
<1>1. CASE \E i \in DOMAIN list : list[i].who = m.who
  <2>1. AddOne(list, m) = list
    BY <1>1 DEF AddOne
  <2> QED
    BY <1>1, <2>1 DEF Names
<1>2. CASE ~\E i \in DOMAIN list : list[i].who = m.who
  <2> DEFINE longer == Append(list, m)
  <2>1. AddOne(list, m) = longer
    BY <1>2 DEF AddOne
  <2>2. /\ longer \in Seq(GroupItem) /\ Len(longer) = Len(list) + 1
        /\ \A i \in 1 .. Len(list) : longer[i] = list[i]
        /\ longer[Len(list) + 1] = m
    BY AppendProperties
  <2>3. DOMAIN list = 1 .. Len(list) /\ DOMAIN longer = 1 .. Len(list) + 1 /\ Len(list) \in Nat
    BY <2>2, LenProperties
  <2> HIDE DEF longer
  <2>4. Names(longer) = Names(list) \union {m.who}
    <3>1. ASSUME NEW i \in DOMAIN longer PROVE longer[i].who \in Names(list) \union {m.who}
      BY <2>2, <2>3 DEF Names
    <3>2. ASSUME NEW i \in DOMAIN list PROVE list[i].who \in Names(longer)
      BY <2>2, <2>3 DEF Names
    <3>3. m.who \in Names(longer)
      BY <2>2, <2>3 DEF Names
    <3> QED
      BY <3>1, <3>2, <3>3 DEF Names
  <2>5. ASSUME Distinct(list), NEW i \in DOMAIN longer, NEW j \in DOMAIN longer,
               longer[i].who = longer[j].who
        PROVE  i = j
    <3>1. \A k \in DOMAIN longer : (k \in DOMAIN list /\ longer[k] = list[k]) \/ k = Len(list) + 1
      BY <2>2, <2>3
    <3> QED
      BY <1>2, <2>2, <2>5, <3>1 DEF Distinct
  <2> QED
    BY <2>1, <2>2, <2>4, <2>5 DEF Distinct
<1> QED
  BY <1>1, <1>2

LEMMA AddUnseenRecursion ==
  ASSUME NEW list \in Seq(GroupItem), NEW more \in Seq(GroupItem)
  PROVE  \E f \in [0 .. Len(more) -> Seq(GroupItem)] :
           /\ f[0] = list
           /\ \A n \in 1 .. Len(more) : f[n] = AddOne(f[n - 1], more[n])
           /\ AddUnseen(list, more) = f[Len(more)]
<1> DEFINE A == Seq(GroupItem)
           N == Len(more)
           F == [x \in A \X (1 .. N) |-> AddOne(x[1], more[x[2]])]
           Eq(f) == f = [n \in 0 .. N |-> IF n = 0 THEN list ELSE AddOne(f[n - 1], more[n])]
           added == CHOOSE f : Eq(f)
<1>1. N \in Nat /\ \A n \in 1 .. N : more[n] \in GroupItem
  BY LenProperties, ElementOfSeq
<1>2. F \in [A \X (1 .. N) -> A]
  BY <1>1, AddOneSpec
<1>3. PICK f : Walks(N, A, list, F, f)
  <2> HIDE DEF A, N, F
  <2>1. list \in A
    BY DEF A
  <2>2. N \in Nat
    BY <1>1
  <2> QED
    BY <1>2, <2>1, <2>2, RecursionOnNat, Zenon
<1>4. /\ f \in [0 .. N -> A] /\ f[0] = list
      /\ \A n \in 1 .. N : n - 1 \in 0 .. N /\ f[n] = F[<<f[n - 1], n>>]
  <2>1. N \in Nat /\ \A n \in 1 .. N : n - 1 \in 0 .. N
    BY <1>1
  <2> HIDE DEF A, N, F
  <2> QED
    BY <1>3, <2>1 DEF Walks
<1>5. \A n \in 1 .. N : f[n] = AddOne(f[n - 1], more[n])
  <2>1. ASSUME NEW n \in 1 .. N PROVE f[n] = AddOne(f[n - 1], more[n])
    <3>1. f[n - 1] \in A
      BY <1>4
    <3>2. <<f[n - 1], n>> \in A \X (1 .. N)
      BY <3>1
    <3> QED
      BY <1>4, <3>2
  <2> QED
    BY <2>1
<1>6. Eq(f)
  <2>1. \A n \in 0 .. N : f[n] = IF n = 0 THEN list ELSE AddOne(f[n - 1], more[n])
    BY <1>1, <1>4, <1>5
  <2> QED
    BY <1>4, <2>1
<1>7. Eq(added)
  <2> HIDE DEF Eq
  <2> QED
    BY <1>6
<1>8. AddUnseen(list, more) = added[N]
  BY DEF AddUnseen
<1>9. \A n \in 0 .. N : f[n] = added[n]
  <2>1. added[0] = list /\ \A n \in 1 .. N : added[n] = AddOne(added[n - 1], more[n])
    <3> HIDE DEF added
    <3>1. \A n \in 0 .. N : added[n] = IF n = 0 THEN list ELSE AddOne(added[n - 1], more[n])
      BY <1>7
    <3> QED
      BY <1>1, <3>1
  <2>2. N \in Nat /\ f[0] = added[0]
    BY <1>1, <1>4, <2>1
  <2>3. ASSUME NEW n \in 1 .. N, f[n - 1] = added[n - 1] PROVE f[n] = added[n]
    BY <1>5, <2>1, <2>3
  <2> HIDE DEF added, N
  <2>4. StepAlike(N, f, added)
    BY <2>2, <2>3 DEF StepAlike
  <2> QED
    BY <2>2, <2>4, SameOnNat
<1>10. added[N] = f[N]
  <2> HIDE DEF added, N
  <2> QED
    BY <1>1, <1>9
<1> QED
  BY <1>4, <1>5, <1>8, <1>10

LEMMA AddUnseenSpec ==
  ASSUME NEW list \in Seq(GroupItem), NEW more \in Seq(GroupItem)
  PROVE  /\ AddUnseen(list, more) \in Seq(GroupItem)
         /\ Names(AddUnseen(list, more)) = Names(list) \union Names(more)
         /\ Distinct(list) => Distinct(AddUnseen(list, more))
<1>1. PICK f \in [0 .. Len(more) -> Seq(GroupItem)] :
           /\ f[0] = list
           /\ \A n \in 1 .. Len(more) : f[n] = AddOne(f[n - 1], more[n])
           /\ AddUnseen(list, more) = f[Len(more)]
  BY AddUnseenRecursion
<1> DEFINE ReadUpto(n) == {more[i].who : i \in 1 .. n}
           S == {n \in Nat : n <= Len(more) =>
                   /\ Names(f[n]) = Names(list) \union ReadUpto(n)
                   /\ Distinct(list) => Distinct(f[n])}
<1>2. Len(more) \in Nat /\ \A n \in 1 .. Len(more) : more[n] \in GroupItem
  BY LenProperties, ElementOfSeq
<1>3. 0 \in S
  BY <1>1
<1>4. ASSUME NEW n \in Nat, n \in S PROVE n + 1 \in S
  <2> SUFFICES ASSUME n + 1 <= Len(more) PROVE n + 1 \in S
    BY <1>2
  <2>1. /\ f[n] \in Seq(GroupItem) /\ more[n + 1] \in GroupItem
        /\ Names(f[n]) = Names(list) \union ReadUpto(n)
        /\ Distinct(list) => Distinct(f[n])
        /\ f[n + 1] = AddOne(f[n], more[n + 1])
    <3>1. n \in 0 .. Len(more) /\ n + 1 \in 1 .. Len(more) /\ (n + 1) - 1 = n
      BY <1>2
    <3>2. f[n] \in Seq(GroupItem) /\ f[n + 1] = AddOne(f[n], more[n + 1]) /\ more[n + 1] \in GroupItem
      BY <1>1, <1>2, <3>1
    <3>3. n <= Len(more)
      BY <1>2
    <3> QED
      BY <1>4, <3>2, <3>3
  <2>2. ReadUpto(n + 1) = ReadUpto(n) \union {more[n + 1].who}
    <3>1. 1 .. n + 1 = (1 .. n) \union {n + 1}
      OBVIOUS
    <3> QED
      BY <3>1
  <2> HIDE DEF ReadUpto
  <2>3. /\ Names(f[n + 1]) = Names(f[n]) \union {more[n + 1].who}
        /\ Distinct(f[n]) => Distinct(f[n + 1])
    BY <2>1, AddOneSpec
  <2> QED
    BY <2>1, <2>2, <2>3
<1>5. Len(more) \in S
  <2> HIDE DEF S
  <2> QED
    BY <1>2, <1>3, <1>4, InductionOnNat
<1>6. Names(more) = ReadUpto(Len(more))
  <2>1. DOMAIN more = 1 .. Len(more)
    BY LenProperties
  <2> QED
    BY <2>1 DEF Names
<1>7. f[Len(more)] \in Seq(GroupItem)
  BY <1>1, <1>2
<1> QED
  BY <1>1, <1>2, <1>5, <1>6, <1>7

--------------------------------------------------------------------------------
(* AddItems: the walk over one Group's list, given what the walk into any   *)
(* nested Group returns.                                                    *)

Result == [ok : BOOLEAN, visited : SUBSET Group, list : Seq(GroupItem)]
Walk == Group \X SUBSET Group
Entered(v) == [ok |-> TRUE, visited |-> v, list |-> <<>>]

LEMMA EnteredType ==
  ASSUME NEW v \in SUBSET Group
  PROVE  Entered(v) \in Result
<1>1. <<>> \in Seq(GroupItem)
  OBVIOUS
<1> QED
  BY <1>1 DEF Entered, Result

LEMMA AddItemType ==
  ASSUME NEW expand \in [Walk -> Result], NEW acc \in Result, NEW item \in GroupItem
  PROVE  AddItem(expand, acc, item) \in Result
<1>1. acc.ok \in BOOLEAN /\ acc.visited \in SUBSET Group /\ acc.list \in Seq(GroupItem)
  BY DEF Result
<1>2. CASE ~acc.ok
  BY <1>2 DEF AddItem
<1>3. CASE acc.ok /\ item.who \in Member
  <2>1. <<item>> \in Seq(GroupItem)
    OBVIOUS
  <2>2. AddUnseen(acc.list, <<item>>) \in Seq(GroupItem)
    BY <1>1, <2>1, AddUnseenSpec
  <2>3. AddItem(expand, acc, item) = [acc EXCEPT !.list = AddUnseen(acc.list, <<item>>)]
    BY <1>3 DEF AddItem
  <2> QED
    BY <2>2, <2>3 DEF Result
<1>4. CASE acc.ok /\ item.who \notin Member
  <2> DEFINE nested == expand[<<item.who, acc.visited>>]
  <2>1. item.who \in Group
    BY <1>4 DEF GroupItem, Target
  <2>2. nested \in Result
    BY <1>1, <2>1 DEF Walk
  <2>3. AddItem(expand, acc, item) = [ok |-> nested.ok, visited |-> nested.visited,
                                      list |-> AddUnseen(acc.list, nested.list)]
    BY <1>4 DEF AddItem
  <2> HIDE DEF nested
  <2>4. nested.ok \in BOOLEAN /\ nested.visited \in SUBSET Group /\ nested.list \in Seq(GroupItem)
    BY <2>2 DEF Result
  <2>5. AddUnseen(acc.list, nested.list) \in Seq(GroupItem)
    BY <1>1, <2>4, AddUnseenSpec
  <2> QED
    BY <2>3, <2>4, <2>5 DEF Result
<1> QED
  BY <1>2, <1>3, <1>4

LEMMA WalkedIs ==
  ASSUME NEW expand, NEW items \in Seq(GroupItem), NEW v \in SUBSET Group,
         NEW f \in [0 .. Len(items) -> Result], f[0] = Entered(v),
         \A n \in 1 .. Len(items) : f[n] = AddItem(expand, f[n - 1], items[n])
  PROVE  AddItems(expand, items, v) = f[Len(items)]
<1> DEFINE N == Len(items)
           Eq(h) == h = [n \in 0 .. N |-> IF n = 0 THEN Entered(v)
                                          ELSE AddItem(expand, h[n - 1], items[n])]
           walked == CHOOSE h : Eq(h)
<1>1. N \in Nat
  BY LenProperties
<1>2. Eq(f)
  <2>1. \A n \in 0 .. N : f[n] = IF n = 0 THEN Entered(v) ELSE AddItem(expand, f[n - 1], items[n])
    BY <1>1
  <2> QED
    BY <2>1
<1>3. Eq(walked)
  <2> HIDE DEF Eq
  <2> QED
    BY <1>2
<1>4. AddItems(expand, items, v) = walked[N]
  BY Zenon DEF AddItems, Entered
<1>5. walked[0] = Entered(v)
      /\ \A n \in 1 .. N : walked[n] = AddItem(expand, walked[n - 1], items[n])
  <2> HIDE DEF walked
  <2>1. \A n \in 0 .. N : walked[n] = IF n = 0 THEN Entered(v)
                                      ELSE AddItem(expand, walked[n - 1], items[n])
    BY <1>3
  <2> QED
    BY <1>1, <2>1
<1>6. StepAlike(N, f, walked)
  <2> HIDE DEF walked
  <2> QED
    BY <1>5 DEF StepAlike
<1> HIDE DEF walked
<1>7. \A n \in 0 .. N : f[n] = walked[n]
  BY <1>1, <1>6, SameOnNat
<1> QED
  BY <1>1, <1>4, <1>7

LEMMA AddItemsRecursion ==
  ASSUME NEW expand \in [Walk -> Result], NEW items \in Seq(GroupItem), NEW v \in SUBSET Group
  PROVE  \E f \in [0 .. Len(items) -> Result] :
           /\ f[0] = Entered(v)
           /\ \A n \in 1 .. Len(items) : f[n] = AddItem(expand, f[n - 1], items[n])
           /\ AddItems(expand, items, v) = f[Len(items)]
<1> DEFINE N == Len(items)
           F == [x \in Result \X (1 .. N) |-> AddItem(expand, x[1], items[x[2]])]
<1>1. N \in Nat /\ \A n \in 1 .. N : n - 1 \in 0 .. N /\ items[n] \in GroupItem
  BY LenProperties, ElementOfSeq
<1>2. F \in [Result \X (1 .. N) -> Result]
  <2> HIDE DEF N
  <2>1. \A x \in Result \X (1 .. N) : AddItem(expand, x[1], items[x[2]]) \in Result
    BY <1>1, AddItemType
  <2> QED
    BY <2>1
<1>3. PICK f : Walks(N, Result, Entered(v), F, f)
  <2> HIDE DEF N, F
  <2>1. Entered(v) \in Result /\ N \in Nat
    BY <1>1, EnteredType
  <2> QED
    BY <1>2, <2>1, RecursionOnNat, Zenon
<1>4. f \in [0 .. N -> Result] /\ f[0] = Entered(v) /\ \A n \in 1 .. N : f[n] = F[<<f[n - 1], n>>]
  <2> HIDE DEF N, F
  <2> QED
    BY <1>3 DEF Walks
<1>5. ASSUME NEW n \in 1 .. N PROVE f[n] = AddItem(expand, f[n - 1], items[n])
  <2>1. <<f[n - 1], n>> \in Result \X (1 .. N)
    BY <1>1, <1>4
  <2> QED
    BY <1>4, <2>1
<1> HIDE DEF F
<1>6. AddItems(expand, items, v) = f[N]
  BY <1>4, <1>5, WalkedIs
<1> QED
  BY <1>4, <1>5, <1>6

(* A walk never forgets a Group, so what it returns depends only on walks   *)
(* that enter with more visited.                                            *)
Extending(expand) == \A at \in Walk : at[2] \subseteq expand[at].visited

LEMMA AddItemGrows ==
  ASSUME NEW expand \in [Walk -> Result], Extending(expand),
         NEW acc \in Result, NEW item \in GroupItem
  PROVE  acc.visited \subseteq AddItem(expand, acc, item).visited
<1>1. acc.visited \in SUBSET Group /\ acc = [ok |-> acc.ok, visited |-> acc.visited, list |-> acc.list]
  BY DEF Result
<1>2. CASE ~acc.ok \/ item.who \in Member
  BY <1>1, <1>2 DEF AddItem
<1>3. CASE acc.ok /\ item.who \notin Member
  <2>1. <<item.who, acc.visited>> \in Walk
    BY <1>1, <1>3 DEF GroupItem, Target, Walk
  <2>2. acc.visited \subseteq expand[<<item.who, acc.visited>>].visited
    BY <2>1 DEF Extending
  <2> QED
    BY <1>3, <2>2 DEF AddItem
<1> QED
  BY <1>2, <1>3

LEMMA WalkGrows ==
  ASSUME NEW expand \in [Walk -> Result], Extending(expand),
         NEW items \in Seq(GroupItem), NEW v \in SUBSET Group,
         NEW f \in [0 .. Len(items) -> Result], f[0] = Entered(v),
         \A n \in 1 .. Len(items) : f[n] = AddItem(expand, f[n - 1], items[n])
  PROVE  \A n \in 0 .. Len(items) : v \subseteq f[n].visited
<1> DEFINE S == {n \in Nat : n <= Len(items) => v \subseteq f[n].visited}
<1>1. Len(items) \in Nat /\ \A n \in 1 .. Len(items) : items[n] \in GroupItem
  BY LenProperties, ElementOfSeq
<1>2. 0 \in S
  BY DEF Entered
<1>3. ASSUME NEW n \in Nat, n \in S PROVE n + 1 \in S
  <2> SUFFICES ASSUME n + 1 <= Len(items) PROVE v \subseteq f[n + 1].visited
    OBVIOUS
  <2>1. n \in 0 .. Len(items) /\ n + 1 \in 1 .. Len(items) /\ (n + 1) - 1 = n /\ n <= Len(items)
    BY <1>1
  <2>2. f[n] \in Result /\ f[n + 1] = AddItem(expand, f[n], items[n + 1]) /\ v \subseteq f[n].visited
    BY <1>3, <2>1
  <2>3. f[n].visited \subseteq f[n + 1].visited
    BY <1>1, <2>1, <2>2, AddItemGrows
  <2> QED
    BY <2>2, <2>3
<1>4. Nat \subseteq S
  <2> HIDE DEF S
  <2> QED
    BY <1>2, <1>3, InductionOnNat
<1> QED
  BY <1>4

LEMMA AddItemsGrow ==
  ASSUME NEW expand \in [Walk -> Result], Extending(expand),
         NEW items \in Seq(GroupItem), NEW v \in SUBSET Group
  PROVE  AddItems(expand, items, v) \in Result /\ v \subseteq AddItems(expand, items, v).visited
<1>1. PICK f \in [0 .. Len(items) -> Result] :
           /\ f[0] = Entered(v)
           /\ \A n \in 1 .. Len(items) : f[n] = AddItem(expand, f[n - 1], items[n])
           /\ AddItems(expand, items, v) = f[Len(items)]
  BY AddItemsRecursion
<1>2. Len(items) \in 0 .. Len(items)
  BY LenProperties
<1>3. \A n \in 0 .. Len(items) : v \subseteq f[n].visited
  BY <1>1, WalkGrows
<1> QED
  BY <1>1, <1>2, <1>3

Agree(expand, other, v) ==
  \A at \in Walk : v \subseteq at[2] => expand[at] = other[at]

LEMMA AddItemsAgree ==
  ASSUME NEW expand \in [Walk -> Result], NEW other, Extending(expand),
         NEW items \in Seq(GroupItem), NEW v \in SUBSET Group, Agree(expand, other, v)
  PROVE  AddItems(expand, items, v) = AddItems(other, items, v)
<1>1. PICK f \in [0 .. Len(items) -> Result] :
           /\ f[0] = Entered(v)
           /\ \A n \in 1 .. Len(items) : f[n] = AddItem(expand, f[n - 1], items[n])
           /\ AddItems(expand, items, v) = f[Len(items)]
  BY AddItemsRecursion
<1>2. \A n \in 0 .. Len(items) : v \subseteq f[n].visited
  BY <1>1, WalkGrows
<1>3. Len(items) \in Nat /\ \A n \in 1 .. Len(items) : items[n] \in GroupItem
  BY LenProperties, ElementOfSeq
<1>4. ASSUME NEW n \in 1 .. Len(items)
      PROVE  f[n] = AddItem(other, f[n - 1], items[n])
  <2> DEFINE acc == f[n - 1]
             at == <<items[n].who, acc.visited>>
  <2>1. n - 1 \in 0 .. Len(items)
    BY <1>3
  <2>2. acc \in Result /\ v \subseteq acc.visited
    BY <1>2, <2>1
  <2>3. f[n] = AddItem(expand, acc, items[n])
    BY <1>1
  <2> HIDE DEF acc
  <2>4. items[n].who \notin Member => expand[at] = other[at]
    <3>1. items[n].who \in Target
      BY <1>3 DEF GroupItem
    <3>2. items[n].who \notin Member => at \in Walk
      BY <2>2, <3>1 DEF Target, Walk, Result
    <3> QED
      BY <2>2, <3>2 DEF Agree
  <2>5. AddItem(expand, acc, items[n]) = AddItem(other, acc, items[n])
    BY <2>4 DEF AddItem
  <2> QED
    BY <2>3, <2>5 DEF acc
<1>5. AddItems(other, items, v) = f[Len(items)]
  BY <1>1, <1>4, WalkedIs
<1> QED
  BY <1>1, <1>5

--------------------------------------------------------------------------------
(* expandGroup: every walk leaves fewer Groups to enter, so the recursion   *)
(* is one.                                                                  *)

GroupsOK(gs) ==
  /\ IsFiniteSet(DOMAIN gs) /\ DOMAIN gs \subseteq Group
  /\ \A g \in DOMAIN gs : gs[g] \in Seq(GroupItem)

Left(gs, v) == Cardinality(DOMAIN gs \ v)

LEMMA LeftFalls ==
  ASSUME NEW gs, GroupsOK(gs), NEW v, NEW g \in DOMAIN gs, g \notin v, NEW w, v \union {g} \subseteq w
  PROVE  Left(gs, v) \in Nat /\ Left(gs, w) \in Nat /\ Left(gs, w) < Left(gs, v)
<1> DEFINE V == DOMAIN gs \ v
           W == DOMAIN gs \ w
<1>1. W \subseteq V /\ W # V
  OBVIOUS
<1>2. IsFiniteSet(V)
  BY FS_Subset DEF GroupsOK
<1> HIDE DEF V, W
<1>3. IsFiniteSet(W) /\ Cardinality(W) <= Cardinality(V) /\ Cardinality(W) # Cardinality(V)
  BY <1>1, <1>2, FS_Subset
<1>4. Cardinality(W) \in Nat /\ Cardinality(V) \in Nat
  BY <1>2, <1>3, FS_CardinalityType
<1>5. Cardinality(W) < Cardinality(V)
  BY <1>3, <1>4
<1> QED
  BY <1>4, <1>5 DEF Left, V, W

Refused(v) == [ok |-> FALSE, visited |-> v, list |-> <<>>]

ExpandStep(gs, expand, at) ==
  IF at[1] \in at[2] \/ at[1] \notin DOMAIN gs THEN Refused(at[2])
  ELSE AddItems(expand, gs[at[1]], at[2] \union {at[1]})

Entering(gs, at) == at[1] \in DOMAIN gs /\ at[1] \notin at[2]

LEMMA ExpandStepType ==
  ASSUME NEW gs, GroupsOK(gs), NEW expand \in [Walk -> Result], Extending(expand), NEW at \in Walk
  PROVE  ExpandStep(gs, expand, at) \in Result /\ at[2] \subseteq ExpandStep(gs, expand, at).visited
<1>1. at[1] \in Group /\ at[2] \in SUBSET Group
  BY DEF Walk
<1>2. CASE ~Entering(gs, at)
  <2>1. ExpandStep(gs, expand, at) = Refused(at[2])
    BY <1>2 DEF ExpandStep, Entering
  <2>2. <<>> \in Seq(GroupItem)
    OBVIOUS
  <2> QED
    BY <1>1, <2>1, <2>2 DEF Refused, Result
<1>3. CASE Entering(gs, at)
  <2>1. ExpandStep(gs, expand, at) = AddItems(expand, gs[at[1]], at[2] \union {at[1]})
    BY <1>3 DEF ExpandStep, Entering
  <2>2. gs[at[1]] \in Seq(GroupItem) /\ at[2] \union {at[1]} \in SUBSET Group
    BY <1>1, <1>3 DEF Entering, GroupsOK
  <2> QED
    BY <2>1, <2>2, AddItemsGrow
<1> QED
  BY <1>2, <1>3

(* A step looks only at walks with less left.                               *)
LEMMA ExpandStepAgrees ==
  ASSUME NEW gs, GroupsOK(gs), NEW expand \in [Walk -> Result], Extending(expand), NEW other,
         NEW at \in Walk,
         \A to \in Walk : Left(gs, to[2]) < Left(gs, at[2]) => expand[to] = other[to]
  PROVE  ExpandStep(gs, expand, at) = ExpandStep(gs, other, at)
<1>1. CASE ~Entering(gs, at)
  BY <1>1 DEF ExpandStep, Entering
<1>2. CASE Entering(gs, at)
  <2> DEFINE v == at[2] \union {at[1]}
  <2>1. gs[at[1]] \in Seq(GroupItem) /\ v \in SUBSET Group
    BY <1>2 DEF Entering, GroupsOK, Walk
  <2>2. ASSUME NEW to \in Walk, v \subseteq to[2] PROVE expand[to] = other[to]
    <3>1. Left(gs, to[2]) < Left(gs, at[2])
      BY <1>2, <2>2, LeftFalls DEF Entering
    <3> QED
      BY <3>1
  <2>3. Agree(expand, other, v)
    BY <2>2 DEF Agree
  <2> HIDE DEF v
  <2>4. AddItems(expand, gs[at[1]], v) = AddItems(other, gs[at[1]], v)
    BY <2>1, <2>3, AddItemsAgree
  <2> QED
    BY <1>2, <2>4 DEF ExpandStep, Entering, v
<1> QED
  BY <1>1, <1>2

ExpandedBelow(gs, n, expand) ==
  /\ expand \in [Walk -> Result] /\ Extending(expand)
  /\ \A at \in Walk : Left(gs, at[2]) < n => expand[at] = ExpandStep(gs, expand, at)

LEMMA ExpansionExists ==
  ASSUME NEW gs, GroupsOK(gs), NEW n \in Nat
  PROVE  \E expand : ExpandedBelow(gs, n, expand)
<1> DEFINE S == {k \in Nat : \E expand : ExpandedBelow(gs, k, expand)}
<1>0. \A at \in Walk : Left(gs, at[2]) \in Nat
  <2>1. ASSUME NEW at \in Walk PROVE Left(gs, at[2]) \in Nat
    <3>1. IsFiniteSet(DOMAIN gs \ at[2])
      BY FS_Subset DEF GroupsOK
    <3> QED
      BY <3>1, FS_CardinalityType DEF Left
  <2> QED
    BY <2>1
<1>1. 0 \in S
  <2> DEFINE first == [at \in Walk |-> Refused(at[2])]
  <2>1. first \in [Walk -> Result] /\ Extending(first)
    <3>1. <<>> \in Seq(GroupItem)
      OBVIOUS
    <3>2. ASSUME NEW at \in Walk PROVE Refused(at[2]) \in Result /\ at[2] \subseteq Refused(at[2]).visited
      BY <3>1 DEF Refused, Result, Walk
    <3> QED
      BY <3>2 DEF Extending
  <2>2. \A at \in Walk : ~(Left(gs, at[2]) < 0)
    BY <1>0
  <2> HIDE DEF first
  <2>3. ExpandedBelow(gs, 0, first)
    BY <2>1, <2>2 DEF ExpandedBelow
  <2> QED
    BY <2>3
<1>2. ASSUME NEW k \in Nat, k \in S PROVE k + 1 \in S
  <2>1. PICK old : ExpandedBelow(gs, k, old)
    BY <1>2
  <2> DEFINE new == [at \in Walk |-> IF Left(gs, at[2]) < k THEN old[at] ELSE ExpandStep(gs, old, at)]
  <2>2. old \in [Walk -> Result] /\ Extending(old)
        /\ \A at \in Walk : Left(gs, at[2]) < k => old[at] = ExpandStep(gs, old, at)
    BY <2>1 DEF ExpandedBelow
  <2>3. \A at \in Walk : new[at] = IF Left(gs, at[2]) < k THEN old[at] ELSE ExpandStep(gs, old, at)
    OBVIOUS
  <2>4. new \in [Walk -> Result]
    BY <2>2, ExpandStepType
  <2> HIDE DEF new
  <2>5. Extending(new)
    BY <2>2, <2>3, ExpandStepType DEF Extending
  <2>6. ASSUME NEW at \in Walk, Left(gs, at[2]) < k + 1 PROVE new[at] = ExpandStep(gs, new, at)
    <3>1. new[at] = ExpandStep(gs, old, at)
      BY <2>2, <2>3
    <3>2. ASSUME NEW to \in Walk, Left(gs, to[2]) < Left(gs, at[2]) PROVE old[to] = new[to]
      <4>1. Left(gs, to[2]) < k
        BY <1>0, <2>6, <3>2
      <4> QED
        BY <2>3, <4>1
    <3>3. ExpandStep(gs, old, at) = ExpandStep(gs, new, at)
      BY <2>2, <3>2, ExpandStepAgrees
    <3> QED
      BY <3>1, <3>3
  <2>7. ExpandedBelow(gs, k + 1, new)
    BY <2>4, <2>5, <2>6 DEF ExpandedBelow
  <2> QED
    BY <2>7
<1>3. n \in S
  <2> HIDE DEF S
  <2> QED
    BY <1>1, <1>2, InductionOnNat
<1> QED
  BY <1>3

(* What Expansion computes: some function with the equation of the code,    *)
(* and all that have it agree.                                              *)
Expanded(gs, expand) ==
  expand \in [Walk -> Result] /\ \A at \in Walk : expand[at] = ExpandStep(gs, expand, at)

LEMMA LeftType ==
  ASSUME NEW gs, GroupsOK(gs), NEW v
  PROVE  Left(gs, v) \in Nat /\ Left(gs, v) <= Left(gs, {})
<1>1. IsFiniteSet(DOMAIN gs) /\ DOMAIN gs \ v \subseteq DOMAIN gs /\ DOMAIN gs \ {} = DOMAIN gs
  BY DEF GroupsOK
<1>2. IsFiniteSet(DOMAIN gs \ v) /\ Cardinality(DOMAIN gs \ v) <= Cardinality(DOMAIN gs)
  BY <1>1, FS_Subset
<1> QED
  BY <1>1, <1>2, FS_CardinalityType DEF Left

LEMMA ExpansionIs ==
  ASSUME NEW gs, GroupsOK(gs), NEW root \in Group
  PROVE  \E expand : Expanded(gs, expand) /\ Expansion(gs, root) = expand[<<root, {}>>]
<1> DEFINE Eq(e) == e = [at \in Group \X SUBSET Group |->
                           LET g == at[1]
                               visited == at[2] IN
                           IF g \in visited \/ g \notin DOMAIN gs
                           THEN [ok |-> FALSE, visited |-> visited, list |-> <<>>]
                           ELSE AddItems(e, gs[g], visited \union {g})]
           code == CHOOSE e : Eq(e)
<1>1. \A v : Left(gs, v) \in Nat /\ Left(gs, v) < Left(gs, {}) + 1
  BY LeftType
<1>2. PICK expand : ExpandedBelow(gs, Left(gs, {}) + 1, expand)
  <2>1. Left(gs, {}) + 1 \in Nat
    BY <1>1
  <2> QED
    BY <2>1, ExpansionExists
<1>3. Extending(expand) /\ Expanded(gs, expand)
  BY <1>1, <1>2 DEF ExpandedBelow, Expanded
<1>4. Eq(expand)
  <2>1. expand = [at \in Walk |-> expand[at]]
    BY <1>3 DEF Expanded
  <2>2. \A at \in Walk : expand[at] = IF at[1] \in at[2] \/ at[1] \notin DOMAIN gs
                                      THEN [ok |-> FALSE, visited |-> at[2], list |-> <<>>]
                                      ELSE AddItems(expand, gs[at[1]], at[2] \union {at[1]})
    BY <1>3 DEF Expanded, ExpandStep, Refused
  <2> QED
    BY <2>1, <2>2 DEF Walk
<1>5. Eq(code)
  <2> HIDE DEF Eq
  <2> QED
    BY <1>4
<1>6. Expansion(gs, root) = code[<<root, {}>>]
  BY Zenon DEF Expansion
<1>7. \A at \in Walk : code[at] = ExpandStep(gs, code, at)
  <2> HIDE DEF code
  <2> QED
    BY <1>5 DEF Walk, ExpandStep, Refused
<1> HIDE DEF Eq, code
<1> DEFINE S == {n \in Nat : \A at \in Walk : Left(gs, at[2]) < n => expand[at] = code[at]}
<1>8. 0 \in S
  <2>1. \A at \in Walk : ~(Left(gs, at[2]) < 0)
    BY <1>1
  <2> QED
    BY <2>1
<1>9. ASSUME NEW n \in Nat, n \in S PROVE n + 1 \in S
  <2> SUFFICES ASSUME NEW at \in Walk, Left(gs, at[2]) < n + 1 PROVE expand[at] = code[at]
    OBVIOUS
  <2>1. ASSUME NEW to \in Walk, Left(gs, to[2]) < Left(gs, at[2]) PROVE expand[to] = code[to]
    <3>1. Left(gs, to[2]) < n
      BY <1>1, <2>1
    <3> QED
      BY <1>9, <3>1
  <2>2. ExpandStep(gs, expand, at) = ExpandStep(gs, code, at)
    BY <1>3, <2>1, ExpandStepAgrees DEF Expanded
  <2> QED
    BY <1>3, <1>7, <2>2 DEF Expanded
<1>10. Left(gs, {}) + 1 \in S
  <2>1. Left(gs, {}) + 1 \in Nat
    BY <1>1
  <2> HIDE DEF S
  <2> QED
    BY <1>8, <1>9, <2>1, InductionOnNat
<1>11. <<root, {}>> \in Walk /\ <<root, {}>>[2] = {}
  BY DEF Walk
<1>12. expand[<<root, {}>>] = code[<<root, {}>>]
  BY <1>1, <1>10, <1>11
<1> QED
  BY <1>3, <1>6, <1>12

--------------------------------------------------------------------------------
(* The Groups below a Group.                                                *)

LEMMA BelowLeast ==
  ASSUME NEW gs, NEW g \in Group, NEW S \in SUBSET Group, g \in S,
         \A a \in S, b \in Group : Lists(gs, a, b) => b \in S
  PROVE  Below(gs, g) \subseteq S
BY DEF Below

LEMMA BelowClosed ==
  ASSUME NEW gs, NEW g \in Group
  PROVE  /\ g \in Below(gs, g) /\ Below(gs, g) \subseteq Group
         /\ \A a \in Below(gs, g), b \in Group : Lists(gs, a, b) => b \in Below(gs, g)
BY DEF Below

LEMMA BelowBelow ==
  ASSUME NEW gs, NEW g \in Group, NEW h \in Below(gs, g)
  PROVE  Below(gs, h) \subseteq Below(gs, g)
<1>1. h \in Group
  BY BelowClosed
<1> QED
  BY <1>1, BelowClosed, BelowLeast

LEMMA BelowListed ==
  ASSUME NEW gs, NEW g \in Group, NEW h \in Group, Lists(gs, g, h)
  PROVE  Below(gs, h) \subseteq Below(gs, g)
BY BelowClosed, BelowBelow

(* Every Group below another is in some Group below it,                     *)
LEMMA BelowParent ==
  ASSUME NEW gs, NEW g \in Group, NEW h \in Below(gs, g), h # g
  PROVE  \E a \in Below(gs, g) : Lists(gs, a, h)
<1> DEFINE S == {g} \union {b \in Below(gs, g) : \E a \in Below(gs, g) : Lists(gs, a, b)}
<1>1. g \in S /\ S \in SUBSET Group /\ S \subseteq Below(gs, g)
  BY BelowClosed
<1>2. \A a \in S, b \in Group : Lists(gs, a, b) => b \in S
  BY <1>1, BelowClosed
<1>3. Below(gs, g) \subseteq S
  <2> HIDE DEF S
  <2> QED
    BY <1>1, <1>2, BelowLeast
<1> QED
  BY <1>3

(* and below some Group that it lists itself.                               *)
LEMMA BelowFirst ==
  ASSUME NEW gs, NEW g \in Group, NEW h \in Below(gs, g), h # g
  PROVE  \E b \in Group : Lists(gs, g, b) /\ h \in Below(gs, b)
<1> DEFINE S == {g} \union {x \in Group : \E b \in Group : Lists(gs, g, b) /\ x \in Below(gs, b)}
<1>1. g \in S /\ S \in SUBSET Group
  OBVIOUS
<1>2. ASSUME NEW a \in S, NEW c \in Group, Lists(gs, a, c) PROVE c \in S
  BY <1>2, BelowClosed
<1>3. Below(gs, g) \subseteq S
  <2> HIDE DEF S
  <2> QED
    BY <1>1, <1>2, BelowLeast
<1> QED
  BY <1>3

(* Cardinality 1 of the places of a Group is that it has a place and no     *)
(* other.                                                                   *)
Place(gs, a, i, h) == i \in DOMAIN Items(gs, a) /\ Items(gs, a)[i].who = h

PlacedOnce(gs, g, h) ==
  \E a \in Below(gs, g) : \E i : Place(gs, a, i, h)
     /\ \A b \in Below(gs, g) : \A j : Place(gs, b, j, h) => b = a /\ j = i

LEMMA PlacesFinite ==
  ASSUME NEW gs, GroupsOK(gs), NEW g, NEW h
  PROVE  IsFiniteSet(Places(gs, g, h))
<1> DEFINE positions == UNION {DOMAIN gs[a] : a \in DOMAIN gs}
<1>1. IsFiniteSet({DOMAIN gs[a] : a \in DOMAIN gs})
  <2> DEFINE domains == {DOMAIN gs[a] : a \in DOMAIN gs}
             f == [a \in DOMAIN gs |-> DOMAIN gs[a]]
  <2>1. f \in Surjection(DOMAIN gs, domains)
    BY DEF Surjection
  <2>2. IsFiniteSet(DOMAIN gs)
    BY DEF GroupsOK
  <2> HIDE DEF domains, f
  <2>3. IsFiniteSet(domains)
    BY <2>1, <2>2, FS_Surjection
  <2> QED
    BY <2>3 DEF domains
<1>2. ASSUME NEW a \in DOMAIN gs PROVE IsFiniteSet(DOMAIN gs[a])
  <2>1. gs[a] \in Seq(GroupItem)
    BY DEF GroupsOK
  <2>2. DOMAIN gs[a] = 1 .. Len(gs[a]) /\ Len(gs[a]) \in Nat
    BY <2>1, LenProperties
  <2> QED
    BY <2>2, FS_Interval
<1>3. IsFiniteSet(positions)
  BY <1>1, <1>2, FS_UNION
<1>4. IsFiniteSet(DOMAIN gs)
  BY DEF GroupsOK
<1>5. IsFiniteSet((DOMAIN gs) \X positions)
  <2> HIDE DEF positions
  <2> QED
    BY <1>3, <1>4, FS_Product
<1>6. Places(gs, g, h) \subseteq (DOMAIN gs) \X positions
  <2> SUFFICES ASSUME NEW p \in Places(gs, g, h) PROVE p \in (DOMAIN gs) \X positions
    OBVIOUS
  <2>1. PICK a \in Below(gs, g) : p \in {a} \X {i \in DOMAIN Items(gs, a) : Items(gs, a)[i].who = h}
    BY DEF Places
  <2>2. p[2] \in DOMAIN Items(gs, a) /\ p = <<a, p[2]>>
    BY <2>1
  <2>3. a \in DOMAIN gs
    <3> SUFFICES ASSUME a \notin DOMAIN gs PROVE FALSE
      OBVIOUS
    <3>1. Items(gs, a) = <<>>
      BY DEF Items
    <3> QED
      BY <2>2, <3>1
  <2>4. p[2] \in DOMAIN gs[a]
    BY <2>2, <2>3 DEF Items
  <2>5. p[2] \in positions
    BY <2>3, <2>4
  <2> HIDE DEF positions
  <2> QED
    BY <2>2, <2>3, <2>5
<1> QED
  BY <1>5, <1>6, FS_Subset

LEMMA PlacedOnceIs ==
  ASSUME NEW gs, GroupsOK(gs), NEW g, NEW h
  PROVE  Cardinality(Places(gs, g, h)) = 1 <=> PlacedOnce(gs, g, h)
<1>1. Cardinality(Places(gs, g, h)) = 1 <=> \E p : Places(gs, g, h) = {p}
  BY PlacesFinite, FS_Singleton
<1>2. \A p : p \in Places(gs, g, h)
         <=> \E a \in Below(gs, g) : \E i : p = <<a, i>> /\ Place(gs, a, i, h)
  BY DEF Places, Place
<1>3. (\E p : Places(gs, g, h) = {p}) => PlacedOnce(gs, g, h)
  <2> SUFFICES ASSUME NEW p, Places(gs, g, h) = {p} PROVE PlacedOnce(gs, g, h)
    OBVIOUS
  <2>1. PICK a, i : a \in Below(gs, g) /\ p = <<a, i>> /\ Place(gs, a, i, h)
    BY <1>2
  <2>2. ASSUME NEW b \in Below(gs, g), NEW j, Place(gs, b, j, h) PROVE b = a /\ j = i
    <3>1. <<b, j>> \in Places(gs, g, h)
      BY <1>2, <2>2
    <3>2. <<b, j>> = <<a, i>>
      BY <2>1, <3>1
    <3> QED
      BY <3>2
  <2> QED
    BY <2>1, <2>2 DEF PlacedOnce
<1>4. PlacedOnce(gs, g, h) => \E p : Places(gs, g, h) = {p}
  <2> SUFFICES ASSUME PlacedOnce(gs, g, h) PROVE \E p : Places(gs, g, h) = {p}
    OBVIOUS
  <2>1. PICK a, i : a \in Below(gs, g) /\ Place(gs, a, i, h)
           /\ \A b \in Below(gs, g) : \A j : Place(gs, b, j, h) => b = a /\ j = i
    BY DEF PlacedOnce
  <2>2. Places(gs, g, h) = {<<a, i>>}
    BY <1>2, <2>1
  <2> QED
    BY <2>2
<1> QED
  BY <1>1, <1>3, <1>4

LEMMA TreeIs ==
  ASSUME NEW gs, GroupsOK(gs), NEW g
  PROVE  Tree(gs, g) <=> Acyclic(gs, g) /\ \A h \in Below(gs, g) \ {g} : PlacedOnce(gs, g, h)
BY PlacedOnceIs DEF Tree

LEMMA ListsIs ==
  ASSUME NEW gs, NEW g, NEW h
  PROVE  Lists(gs, g, h) <=> \E i : Place(gs, g, i, h)
BY DEF Lists, Place

LEMMA NoOtherPlace ==
  ASSUME NEW gs, NEW g, NEW h, PlacedOnce(gs, g, h),
         NEW a \in Below(gs, g), NEW i, Place(gs, a, i, h),
         NEW b \in Below(gs, g), NEW j, Place(gs, b, j, h)
  PROVE  a = b /\ i = j
BY DEF PlacedOnce

(* A Group in a tree does not hold its own parent, and is a tree;           *)
LEMMA TreeBelow ==
  ASSUME NEW gs, GroupsOK(gs), NEW g \in Group, Tree(gs, g),
         NEW h \in Group, Lists(gs, g, h)
  PROVE  g \notin Below(gs, h) /\ Tree(gs, h)
<1>1. Acyclic(gs, g) /\ \A x \in Below(gs, g) \ {g} : PlacedOnce(gs, g, x)
  BY TreeIs
<1>2. g \in Below(gs, g) /\ h \in Below(gs, g) /\ Below(gs, h) \subseteq Below(gs, g)
  BY BelowClosed, BelowListed
<1>3. g \notin Below(gs, h)
  BY <1>1, <1>2 DEF Acyclic
<1>4. Acyclic(gs, h)
  BY <1>1, <1>2 DEF Acyclic
<1>5. ASSUME NEW x \in Below(gs, h), x # h PROVE PlacedOnce(gs, h, x)
  <2>1. PICK a \in Below(gs, h) : Lists(gs, a, x)
    BY <1>5, BelowParent
  <2>2. PICK i : Place(gs, a, i, x)
    BY <2>1, ListsIs
  <2>3. PlacedOnce(gs, g, x)
    BY <1>1, <1>2, <1>3
  <2>4. ASSUME NEW b \in Below(gs, h), NEW j, Place(gs, b, j, x) PROVE b = a /\ j = i
    BY <1>2, <2>2, <2>3, <2>4, NoOtherPlace
  <2> QED
    BY <2>2, <2>4 DEF PlacedOnce
<1> QED
  BY <1>3, <1>4, <1>5, TreeIs

(* and two places of a list hold nothing in common.                         *)
LEMMA TreeSeparates ==
  ASSUME NEW gs, GroupsOK(gs), NEW g \in Group, Tree(gs, g),
         NEW h \in Group, NEW i, Place(gs, g, i, h),
         NEW k \in Group, NEW j, Place(gs, g, j, k), i # j
  PROVE  Below(gs, h) \intersect Below(gs, k) = {}
<1>1. \A x \in Below(gs, g) \ {g} : PlacedOnce(gs, g, x)
  BY TreeIs
<1>2. Lists(gs, g, h) /\ Lists(gs, g, k)
  BY ListsIs
<1>3. /\ g \notin Below(gs, h) /\ g \notin Below(gs, k)
      /\ Below(gs, h) \subseteq Below(gs, g) /\ Below(gs, k) \subseteq Below(gs, g)
      /\ g \in Below(gs, g) /\ h \in Below(gs, h) /\ k \in Below(gs, k)
  BY <1>2, TreeBelow, BelowClosed, BelowListed
<1>4. \A x \in Below(gs, h) \union Below(gs, k) : PlacedOnce(gs, g, x)
  BY <1>1, <1>3
<1>5. h # k
  BY <1>3, <1>4, NoOtherPlace
<1>6. k \notin Below(gs, h)
  <2> SUFFICES ASSUME k \in Below(gs, h) PROVE FALSE
    OBVIOUS
  <2>1. PICK a, n : a \in Below(gs, h) /\ Place(gs, a, n, k)
    BY <1>5, BelowParent, ListsIs
  <2> QED
    BY <1>3, <1>4, <2>1, NoOtherPlace
<1>7. ASSUME NEW a \in Below(gs, k) \ Below(gs, h), NEW b \in Group, Lists(gs, a, b)
      PROVE  b \in Below(gs, k) \ Below(gs, h)
  <2>1. b \in Below(gs, k)
    BY <1>7, BelowClosed
  <2> SUFFICES ASSUME b \in Below(gs, h) PROVE FALSE
    BY <2>1
  <2>2. PICK n : Place(gs, a, n, b)
    BY <1>7, ListsIs
  <2>3. CASE b = h
    BY <1>3, <1>4, <2>2, <2>3, NoOtherPlace
  <2>4. CASE b # h
    <3>1. PICK c, m : c \in Below(gs, h) /\ Place(gs, c, m, b)
      BY <2>4, BelowParent, ListsIs
    <3> QED
      BY <1>3, <1>4, <2>2, <3>1, NoOtherPlace
  <2> QED
    BY <2>3, <2>4
<1>8. Below(gs, k) \subseteq Below(gs, k) \ Below(gs, h)
  <2> DEFINE S == Below(gs, k) \ Below(gs, h)
  <2>1. S \in SUBSET Group /\ k \in S
    BY <1>3, <1>6, BelowClosed
  <2>2. \A a \in S, b \in Group : Lists(gs, a, b) => b \in S
    BY <1>7
  <2> HIDE DEF S
  <2>3. Below(gs, k) \subseteq S
    BY <2>1, <2>2, BelowLeast
  <2> QED
    BY <2>3 DEF S
<1> QED
  BY <1>8

(* The other way round, trees that hold nothing in common make one.         *)
LEMMA TreeMade ==
  ASSUME NEW gs, GroupsOK(gs), NEW g \in Group,
         \A h \in Group : Lists(gs, g, h) => g \notin Below(gs, h) /\ Tree(gs, h),
         \A h, k \in Group : \A i, j :
           Place(gs, g, i, h) /\ Place(gs, g, j, k) /\ i # j =>
             Below(gs, h) \intersect Below(gs, k) = {}
  PROVE  Tree(gs, g)
<1>1. \A h \in Group : Lists(gs, g, h) =>
        /\ Acyclic(gs, h) /\ \A x \in Below(gs, h) \ {h} : PlacedOnce(gs, h, x)
        /\ h \in Below(gs, h) /\ Below(gs, h) \subseteq Below(gs, g) /\ Below(gs, h) \subseteq Group
        /\ \A a \in Below(gs, h), b \in Group : Lists(gs, a, b) => b \in Below(gs, h)
  BY TreeIs, BelowClosed, BelowListed
<1>2. g \in Below(gs, g) /\ Below(gs, g) \subseteq Group
  BY BelowClosed
<1>3. ASSUME NEW a \in Below(gs, g), NEW b \in Below(gs, g), Lists(gs, a, b)
      PROVE  a \notin Below(gs, b)
  <2>1. CASE a = g
    BY <1>2, <1>3, <2>1
  <2>2. CASE a # g
    <3>1. PICK h \in Group : Lists(gs, g, h) /\ a \in Below(gs, h)
      BY <2>2, BelowFirst
    <3> QED
      BY <1>1, <1>2, <1>3, <3>1 DEF Acyclic
  <2> QED
    BY <2>1, <2>2
<1>4. ASSUME NEW x \in Below(gs, g), x # g PROVE PlacedOnce(gs, g, x)
  <2>1. PICK h \in Group : Lists(gs, g, h) /\ x \in Below(gs, h)
    BY <1>4, BelowFirst
  <2>2. PICK i : Place(gs, g, i, h)
    BY <2>1, ListsIs
  <2>3. \A k \in Group : \A j : Place(gs, g, j, k) /\ x \in Below(gs, k) => k = h /\ j = i
    <3>1. ASSUME NEW k \in Group, NEW j, Place(gs, g, j, k), x \in Below(gs, k) PROVE k = h /\ j = i
      <4>1. j = i
        BY <2>1, <2>2, <3>1
      <4> QED
        BY <2>2, <3>1, <4>1 DEF Place
    <3> QED
      BY <3>1
  <2>4. \A b \in Below(gs, g) : \A j :
          Place(gs, b, j, x) => (b = g /\ h = x /\ j = i) \/ (b # g /\ b \in Below(gs, h))
    <3> SUFFICES ASSUME NEW b \in Below(gs, g), NEW j, Place(gs, b, j, x)
                 PROVE  (b = g /\ h = x /\ j = i) \/ (b # g /\ b \in Below(gs, h))
      OBVIOUS
    <3>1. CASE b = g
      BY <1>1, <1>2, <2>3, <3>1, ListsIs
    <3>2. CASE b # g
      <4>1. PICK k \in Group : Lists(gs, g, k) /\ b \in Below(gs, k)
        BY <3>2, BelowFirst
      <4>2. x \in Below(gs, k)
        BY <1>1, <1>2, <4>1, ListsIs
      <4>3. k = h
        BY <2>3, <4>1, <4>2, ListsIs
      <4> QED
        BY <3>2, <4>1, <4>3
    <3> QED
      BY <3>1, <3>2
  <2>5. CASE x = h
    <3>1. ASSUME NEW b \in Below(gs, h), NEW j, Place(gs, b, j, h) PROVE FALSE
      <4>1. Lists(gs, b, h) /\ h \in Below(gs, h) /\ Acyclic(gs, h)
        BY <1>1, <2>1, <3>1, ListsIs
      <4> QED
        BY <4>1 DEF Acyclic
    <3> QED
      BY <1>2, <2>2, <2>4, <2>5, <3>1 DEF PlacedOnce
  <2>6. CASE x # h
    <3>1. PlacedOnce(gs, h, x) /\ Below(gs, h) \subseteq Below(gs, g)
      BY <1>1, <2>1, <2>6
    <3> QED
      BY <2>4, <2>6, <3>1 DEF PlacedOnce
  <2> QED
    BY <2>5, <2>6
<1> QED
  BY <1>3, <1>4, TreeIs DEF Acyclic

--------------------------------------------------------------------------------
(* What a walk finds.                                                       *)

Good(gs, g) == Complete(gs, g) /\ Tree(gs, g)

LEMMA GoodIs ==
  ASSUME NEW gs, GroupsOK(gs), NEW g \in DOMAIN gs
  PROVE  Good(gs, g) <=>
           /\ \A h \in Group : Lists(gs, g, h) => Good(gs, h) /\ g \notin Below(gs, h)
           /\ \A h, k \in Group : \A i, j :
                Place(gs, g, i, h) /\ Place(gs, g, j, k) /\ i # j =>
                  Below(gs, h) \intersect Below(gs, k) = {}
<1>1. g \in Group
  BY DEF GroupsOK
<1>2. Complete(gs, g) <=> \A h \in Group : Lists(gs, g, h) => Complete(gs, h)
  <2>1. ASSUME Complete(gs, g), NEW h \in Group, Lists(gs, g, h) PROVE Complete(gs, h)
    BY <1>1, <2>1, BelowListed DEF Complete
  <2>2. ASSUME \A h \in Group : Lists(gs, g, h) => Complete(gs, h) PROVE Complete(gs, g)
    <3>1. ASSUME NEW x \in Below(gs, g), x # g PROVE x \in DOMAIN gs
      BY <1>1, <2>2, <3>1, BelowFirst DEF Complete
    <3> QED
      BY <3>1 DEF Complete
  <2> QED
    BY <2>1, <2>2
<1>3. ASSUME Good(gs, g)
      PROVE  /\ \A h \in Group : Lists(gs, g, h) => Good(gs, h) /\ g \notin Below(gs, h)
             /\ \A h, k \in Group : \A i, j :
                  Place(gs, g, i, h) /\ Place(gs, g, j, k) /\ i # j =>
                    Below(gs, h) \intersect Below(gs, k) = {}
  BY <1>1, <1>2, <1>3, TreeBelow, TreeSeparates DEF Good
<1>4. ASSUME /\ \A h \in Group : Lists(gs, g, h) => Good(gs, h) /\ g \notin Below(gs, h)
             /\ \A h, k \in Group : \A i, j :
                  Place(gs, g, i, h) /\ Place(gs, g, j, k) /\ i # j =>
                    Below(gs, h) \intersect Below(gs, k) = {}
      PROVE  Good(gs, g)
  <2>1. Tree(gs, g)
    BY <1>1, <1>4, TreeMade DEF Good
  <2> QED
    BY <1>2, <1>4, <2>1 DEF Good
<1> QED
  BY <1>3, <1>4

(* The Members of a nest.                                                   *)
Found(gs, g) == {m \in Member : \E h \in Below(gs, g) : Lists(gs, h, m)}

(* The result of a walk into g with v visited.                              *)
WalkIs(gs, r, g, v) ==
  /\ r.ok <=> Good(gs, g) /\ Below(gs, g) \intersect v = {}
  /\ r.ok => /\ r.visited = v \union Below(gs, g)
             /\ Names(r.list) = Found(gs, g)
             /\ Distinct(r.list)

(* The state of AddItems, entered with w, after n items.                    *)
NestedUpto(items, n) == {i \in 1 .. n : items[i].who \in Group}

LoopOK(gs, items, w, n) ==
  /\ \A i \in NestedUpto(items, n) :
       Good(gs, items[i].who) /\ Below(gs, items[i].who) \intersect w = {}
  /\ \A i, j \in NestedUpto(items, n) :
       i # j => Below(gs, items[i].who) \intersect Below(gs, items[j].who) = {}

SeenUpto(gs, items, w, n) ==
  w \union UNION {Below(gs, items[i].who) : i \in NestedUpto(items, n)}

FoundUpto(gs, items, n) ==
  {items[i].who : i \in {j \in 1 .. n : items[j].who \in Member}}
    \union UNION {Found(gs, items[i].who) : i \in NestedUpto(items, n)}

LoopInv(gs, items, w, n, acc) ==
  /\ acc.ok <=> LoopOK(gs, items, w, n)
  /\ acc.ok => /\ acc.visited = SeenUpto(gs, items, w, n)
               /\ Names(acc.list) = FoundUpto(gs, items, n)
               /\ Distinct(acc.list)

LEMMA UptoNext ==
  ASSUME NEW items \in Seq(GroupItem), NEW n \in Nat, n + 1 <= Len(items)
  PROVE  /\ items[n + 1] \in GroupItem
         /\ 1 .. n + 1 = (1 .. n) \union {n + 1} /\ n + 1 \notin 1 .. n
         /\ NestedUpto(items, n + 1) =
              NestedUpto(items, n) \union (IF items[n + 1].who \in Group THEN {n + 1} ELSE {})
<1>1. n + 1 \in 1 .. Len(items)
  BY LenProperties
<1>2. items[n + 1] \in GroupItem
  BY <1>1, ElementOfSeq
<1>3. 1 .. n + 1 = (1 .. n) \union {n + 1} /\ n + 1 \notin 1 .. n
  OBVIOUS
<1> QED
  BY <1>2, <1>3 DEF NestedUpto

LEMMA LoopMember ==
  ASSUME NEW gs, NEW items \in Seq(GroupItem), NEW w, NEW n \in Nat, n + 1 <= Len(items),
         NEW expand, NEW acc \in Result, acc.ok, LoopInv(gs, items, w, n, acc),
         items[n + 1].who \in Member
  PROVE  LoopInv(gs, items, w, n + 1, AddItem(expand, acc, items[n + 1]))
<1> DEFINE item == items[n + 1]
           list == AddUnseen(acc.list, <<item>>)
           N == NestedUpto(items, n)
<1>1. item \in GroupItem /\ 1 .. n + 1 = (1 .. n) \union {n + 1} /\ NestedUpto(items, n + 1) = N
  <2>1. item.who \notin Group
    BY DisjointNames
  <2>2. /\ item \in GroupItem /\ 1 .. n + 1 = (1 .. n) \union {n + 1}
        /\ NestedUpto(items, n + 1) = N \union (IF item.who \in Group THEN {n + 1} ELSE {})
    BY UptoNext
  <2> HIDE DEF item, N
  <2> QED
    BY <2>1, <2>2
<1>2. /\ acc.list \in Seq(GroupItem)
      /\ AddItem(expand, acc, item) = [ok |-> TRUE, visited |-> acc.visited, list |-> list]
  BY DEF AddItem, Result
<1>3. <<item>> \in Seq(GroupItem) /\ Names(<<item>>) = {item.who}
  BY <1>1 DEF Names
<1>4. Names(list) = Names(acc.list) \union {item.who} /\ (Distinct(acc.list) => Distinct(list))
  BY <1>2, <1>3, AddUnseenSpec
<1>5. FoundUpto(gs, items, n + 1) = FoundUpto(gs, items, n) \union {item.who}
  <2> DEFINE M(k) == {j \in 1 .. k : items[j].who \in Member}
  <2>1. M(n + 1) = M(n) \union {n + 1}
    BY <1>1
  <2> HIDE DEF M
  <2>2. {items[i].who : i \in M(n + 1)} = {items[i].who : i \in M(n)} \union {item.who}
    BY <2>1
  <2> QED
    BY <1>1, <2>2 DEF FoundUpto, M
<1>6. LoopOK(gs, items, w, n + 1) /\ SeenUpto(gs, items, w, n + 1) = SeenUpto(gs, items, w, n)
  BY <1>1 DEF LoopInv, LoopOK, SeenUpto
<1>7. /\ acc.visited = SeenUpto(gs, items, w, n) /\ Names(acc.list) = FoundUpto(gs, items, n)
      /\ Distinct(acc.list)
  BY DEF LoopInv
<1> DEFINE r == AddItem(expand, acc, item)
<1>8. r.ok /\ r.visited = acc.visited /\ r.list = list
  BY <1>2
<1> HIDE DEF list, r
<1>9. LoopInv(gs, items, w, n + 1, r)
  BY <1>4, <1>5, <1>6, <1>7, <1>8 DEF LoopInv
<1> QED
  BY <1>9 DEF r

LEMMA LoopNested ==
  ASSUME NEW gs, NEW items \in Seq(GroupItem), NEW w, NEW n \in Nat, n + 1 <= Len(items),
         NEW expand \in [Walk -> Result], NEW acc \in Result, acc.ok, LoopInv(gs, items, w, n, acc),
         items[n + 1].who \in Group,
         WalkIs(gs, expand[<<items[n + 1].who, acc.visited>>], items[n + 1].who, acc.visited)
  PROVE  LoopInv(gs, items, w, n + 1, AddItem(expand, acc, items[n + 1]))
<1> DEFINE h == items[n + 1].who
           nested == expand[<<h, acc.visited>>]
           list == AddUnseen(acc.list, nested.list)
           N == NestedUpto(items, n)
<1>1. /\ 1 .. n + 1 = (1 .. n) \union {n + 1} /\ n + 1 \notin 1 .. n
      /\ NestedUpto(items, n + 1) = N \union {n + 1} /\ h \notin Member
  BY UptoNext, DisjointNames
<1>2. acc.list \in Seq(GroupItem) /\ acc.visited \in SUBSET Group
  BY DEF Result
<1>3. nested \in Result
  BY <1>2 DEF Walk
<1>4. nested.list \in Seq(GroupItem)
  BY <1>3 DEF Result
<1>5. AddItem(expand, acc, items[n + 1]) = [ok |-> nested.ok, visited |-> nested.visited, list |-> list]
  BY <1>1 DEF AddItem
<1>6. Names(list) = Names(acc.list) \union Names(nested.list) /\ (Distinct(acc.list) => Distinct(list))
  BY <1>2, <1>4, AddUnseenSpec
<1> HIDE DEF list, N
<1>7. /\ LoopOK(gs, items, w, n) /\ acc.visited = SeenUpto(gs, items, w, n)
      /\ Names(acc.list) = FoundUpto(gs, items, n) /\ Distinct(acc.list)
  BY DEF LoopInv
<1>8. /\ nested.ok <=> Good(gs, h) /\ Below(gs, h) \intersect acc.visited = {}
      /\ nested.ok => nested.visited = acc.visited \union Below(gs, h) /\ Names(nested.list) = Found(gs, h)
  BY DEF WalkIs
<1> HIDE DEF nested
<1>9. N \subseteq 1 .. n
  BY DEF N, NestedUpto
<1>10. LoopOK(gs, items, w, n + 1) <=> Good(gs, h) /\ Below(gs, h) \intersect SeenUpto(gs, items, w, n) = {}
  <2>1. LoopOK(gs, items, w, n + 1) <=>
          /\ Good(gs, h) /\ Below(gs, h) \intersect w = {}
          /\ \A i \in N : Below(gs, items[i].who) \intersect Below(gs, h) = {}
    <3> HIDE DEF h
    <3>1. \A i \in N : i # n + 1
      BY <1>1, <1>9
    <3> QED
      BY <1>1, <1>7, <3>1 DEF LoopOK, N, h
  <2>2. Below(gs, h) \intersect SeenUpto(gs, items, w, n) = {} <=>
          /\ Below(gs, h) \intersect w = {}
          /\ \A i \in N : Below(gs, items[i].who) \intersect Below(gs, h) = {}
    BY DEF SeenUpto, N
  <2> QED
    BY <2>1, <2>2
<1>11. SeenUpto(gs, items, w, n + 1) = SeenUpto(gs, items, w, n) \union Below(gs, h)
  BY <1>1 DEF SeenUpto, N
<1>12. FoundUpto(gs, items, n + 1) = FoundUpto(gs, items, n) \union Found(gs, h)
  <2> DEFINE M(k) == {j \in 1 .. k : items[j].who \in Member}
  <2>1. M(n + 1) = M(n)
    BY <1>1
  <2> HIDE DEF M
  <2>2. UNION {Found(gs, items[i].who) : i \in N \union {n + 1}}
          = (UNION {Found(gs, items[i].who) : i \in N}) \union Found(gs, h)
    <3> DEFINE F(i) == Found(gs, items[i].who)
    <3>1. F(n + 1) = Found(gs, h)
      OBVIOUS
    <3> HIDE DEF h, F
    <3>2. UNION {F(i) : i \in N \union {n + 1}} = (UNION {F(i) : i \in N}) \union F(n + 1)
      OBVIOUS
    <3> QED
      BY <3>1, <3>2 DEF F
  <2> QED
    BY <1>1, <2>1, <2>2 DEF FoundUpto, M, N
<1> DEFINE r == AddItem(expand, acc, items[n + 1])
<1>13. r.ok = nested.ok /\ r.visited = nested.visited /\ r.list = list
  BY <1>5
<1>14. nested.ok <=> LoopOK(gs, items, w, n + 1)
  BY <1>7, <1>8, <1>10
<1> HIDE DEF h, r
<1>15. LoopInv(gs, items, w, n + 1, r)
  BY <1>6, <1>7, <1>8, <1>11, <1>12, <1>13, <1>14 DEF LoopInv
<1> QED
  BY <1>15 DEF r

LEMMA LoopStep ==
  ASSUME NEW gs, NEW items \in Seq(GroupItem), NEW w, NEW n \in Nat, n + 1 <= Len(items),
         NEW expand \in [Walk -> Result], NEW acc \in Result, LoopInv(gs, items, w, n, acc),
         acc.ok /\ items[n + 1].who \in Group =>
           WalkIs(gs, expand[<<items[n + 1].who, acc.visited>>], items[n + 1].who, acc.visited)
  PROVE  LoopInv(gs, items, w, n + 1, AddItem(expand, acc, items[n + 1]))
<1>1. CASE ~acc.ok
  <2>1. AddItem(expand, acc, items[n + 1]) = acc
    BY <1>1 DEF AddItem
  <2>2. ~LoopOK(gs, items, w, n)
    BY <1>1 DEF LoopInv
  <2>3. NestedUpto(items, n) \subseteq NestedUpto(items, n + 1)
    BY UptoNext
  <2>4. ~LoopOK(gs, items, w, n + 1)
    BY <2>2, <2>3 DEF LoopOK
  <2> QED
    BY <1>1, <2>1, <2>4 DEF LoopInv
<1>2. CASE acc.ok
  <2>1. items[n + 1].who \in Member \/ items[n + 1].who \in Group
    BY UptoNext DEF GroupItem, Target
  <2> QED
    BY <1>2, <2>1, LoopMember, LoopNested
<1> QED
  BY <1>1, <1>2

(* After the last item, the loop has seen the nest of its Group.            *)
LEMMA LoopEnd ==
  ASSUME NEW gs, GroupsOK(gs), NEW g \in DOMAIN gs, NEW v, g \notin v
  PROVE  LET items == gs[g]
             w == v \union {g}
             n == Len(gs[g]) IN
         /\ LoopOK(gs, items, w, n) <=> Good(gs, g) /\ Below(gs, g) \intersect v = {}
         /\ SeenUpto(gs, items, w, n) = v \union Below(gs, g)
         /\ FoundUpto(gs, items, n) = Found(gs, g)
<1> DEFINE items == gs[g]
           w == v \union {g}
           n == Len(items)
           N == NestedUpto(items, n)
<1>1. g \in Group /\ items \in Seq(GroupItem) /\ Items(gs, g) = items
  BY DEF GroupsOK, Items
<1>2. DOMAIN items = 1 .. n /\ \A i \in 1 .. n : items[i].who \in Member \union Group
  <2> HIDE DEF items
  <2>1. DOMAIN items = 1 .. n
    BY <1>1, LenProperties
  <2>2. \A i \in 1 .. n : items[i] \in GroupItem
    BY <1>1, ElementOfSeq
  <2> QED
    BY <2>1, <2>2 DEF GroupItem, Target
<1>3. \A i, h : Place(gs, g, i, h) <=> i \in 1 .. n /\ items[i].who = h
  BY <1>1, <1>2 DEF Place
<1> HIDE DEF items, w, n
<1>4. \A h \in Group : Lists(gs, g, h) <=> \E i \in N : items[i].who = h
  BY <1>3, ListsIs DEF NestedUpto
<1>5. \A i \in N : i \in 1 .. n /\ items[i].who \in Group /\ Place(gs, g, i, items[i].who)
  BY <1>3 DEF NestedUpto
<1>6. \A i : \A h \in Group : Place(gs, g, i, h) => i \in N /\ items[i].who = h
  BY <1>3 DEF NestedUpto
<1> HIDE DEF N
<1>7. \A x : x \in Below(gs, g) <=> x = g \/ \E i \in N : x \in Below(gs, items[i].who)
  <2>1. ASSUME NEW i \in N PROVE Below(gs, items[i].who) \subseteq Below(gs, g)
    BY <1>1, <1>4, <1>5, BelowListed
  <2>2. ASSUME NEW x \in Below(gs, g), x # g PROVE \E i \in N : x \in Below(gs, items[i].who)
    <3>1. PICK b \in Group : Lists(gs, g, b) /\ x \in Below(gs, b)
      BY <1>1, <2>2, BelowFirst
    <3> QED
      BY <1>4, <3>1
  <2>3. g \in Below(gs, g)
    BY <1>1, BelowClosed
  <2> QED
    BY <2>1, <2>2, <2>3
<1>8. SeenUpto(gs, items, w, n) = v \union Below(gs, g)
  <2>1. \A x : x \in SeenUpto(gs, items, w, n)
                 <=> x \in v \/ x = g \/ \E i \in N : x \in Below(gs, items[i].who)
    BY DEF SeenUpto, N, w
  <2> QED
    BY <1>7, <2>1
<1>9. Good(gs, g) <=>
        /\ \A i \in N : Good(gs, items[i].who) /\ g \notin Below(gs, items[i].who)
        /\ \A i, j \in N : i # j => Below(gs, items[i].who) \intersect Below(gs, items[j].who) = {}
  <2>1. (\A h \in Group : Lists(gs, g, h) => Good(gs, h) /\ g \notin Below(gs, h))
          <=> \A i \in N : Good(gs, items[i].who) /\ g \notin Below(gs, items[i].who)
    BY <1>4, <1>5
  <2>2. (\A h, k \in Group : \A i, j :
           Place(gs, g, i, h) /\ Place(gs, g, j, k) /\ i # j => Below(gs, h) \intersect Below(gs, k) = {})
          <=> \A i, j \in N : i # j => Below(gs, items[i].who) \intersect Below(gs, items[j].who) = {}
    BY <1>5, <1>6
  <2> QED
    BY <2>1, <2>2, GoodIs
<1>10. LoopOK(gs, items, w, n) <=> Good(gs, g) /\ Below(gs, g) \intersect v = {}
  <2>1. LoopOK(gs, items, w, n) <=>
          /\ \A i \in N : Good(gs, items[i].who) /\ Below(gs, items[i].who) \intersect w = {}
          /\ \A i, j \in N : i # j => Below(gs, items[i].who) \intersect Below(gs, items[j].who) = {}
    BY DEF LoopOK, N
  <2>2. Below(gs, g) \intersect v = {} <=> \A i \in N : Below(gs, items[i].who) \intersect v = {}
    BY <1>7
  <2>3. \A i \in N : Below(gs, items[i].who) \intersect w = {}
          <=> Below(gs, items[i].who) \intersect v = {} /\ g \notin Below(gs, items[i].who)
    BY DEF w
  <2> QED
    BY <1>9, <2>1, <2>2, <2>3
<1>11. FoundUpto(gs, items, n) = Found(gs, g)
  <2>1. \A m : m \in FoundUpto(gs, items, n)
                 <=> (m \in Member /\ Lists(gs, g, m)) \/ \E i \in N : m \in Found(gs, items[i].who)
    <3>1. \A m : (m \in Member /\ Lists(gs, g, m)) <=> \E i \in 1 .. n : items[i].who = m /\ m \in Member
      BY <1>3, ListsIs
    <3> QED
      BY <3>1 DEF FoundUpto, N
  <2>2. \A m : m \in Found(gs, g)
                 <=> (m \in Member /\ Lists(gs, g, m)) \/ \E i \in N : m \in Found(gs, items[i].who)
    BY <1>7 DEF Found
  <2> QED
    BY <2>1, <2>2
<1> QED
  BY <1>8, <1>10, <1>11 DEF items, w, n

LEMMA WalkLoop ==
  ASSUME NEW gs, GroupsOK(gs), NEW g \in DOMAIN gs, NEW v \in SUBSET Group, g \notin v,
         NEW expand \in [Walk -> Result],
         \A to \in Walk : Left(gs, to[2]) < Left(gs, v) => WalkIs(gs, expand[to], to[1], to[2])
  PROVE  LoopInv(gs, gs[g], v \union {g}, Len(gs[g]), AddItems(expand, gs[g], v \union {g}))
<1> DEFINE items == gs[g]
           w == v \union {g}
<1>1. items \in Seq(GroupItem) /\ w \in SUBSET Group /\ Len(items) \in Nat
  BY LenProperties DEF GroupsOK
<1>2. \A x : w \subseteq x => Left(gs, x) < Left(gs, v)
  BY LeftFalls
<1> HIDE DEF items, w
<1>3. PICK f \in [0 .. Len(items) -> Result] :
           /\ f[0] = Entered(w)
           /\ \A n \in 1 .. Len(items) : f[n] = AddItem(expand, f[n - 1], items[n])
           /\ AddItems(expand, items, w) = f[Len(items)]
  BY <1>1, AddItemsRecursion
<1> DEFINE S == {n \in Nat : n <= Len(items) => LoopInv(gs, items, w, n, f[n])}
<1>4. 0 \in S
  <2>1. 1 .. 0 = {} /\ NestedUpto(items, 0) = {}
    BY DEF NestedUpto
  <2>2. Names(<<>>) = {} /\ Distinct(<<>>)
    BY DEF Names, Distinct
  <2>3. LoopOK(gs, items, w, 0) /\ SeenUpto(gs, items, w, 0) = w /\ FoundUpto(gs, items, 0) = {}
    BY <2>1 DEF LoopOK, SeenUpto, FoundUpto
  <2>4. f[0].ok /\ f[0].visited = w /\ f[0].list = <<>>
    BY <1>3 DEF Entered
  <2>5. LoopInv(gs, items, w, 0, f[0])
    BY <2>2, <2>3, <2>4 DEF LoopInv
  <2> QED
    BY <2>5
<1>5. ASSUME NEW n \in Nat, n \in S PROVE n + 1 \in S
  <2> SUFFICES ASSUME n + 1 <= Len(items) PROVE LoopInv(gs, items, w, n + 1, f[n + 1])
    OBVIOUS
  <2>1. n \in 0 .. Len(items) /\ n + 1 \in 1 .. Len(items) /\ (n + 1) - 1 = n /\ n <= Len(items)
    BY <1>1
  <2>2. f[n] \in Result /\ f[n + 1] = AddItem(expand, f[n], items[n + 1])
        /\ LoopInv(gs, items, w, n, f[n])
    BY <1>3, <1>5, <2>1
  <2>3. ASSUME f[n].ok, items[n + 1].who \in Group
        PROVE  WalkIs(gs, expand[<<items[n + 1].who, f[n].visited>>], items[n + 1].who, f[n].visited)
    <3> DEFINE to == <<items[n + 1].who, f[n].visited>>
    <3>1. to \in Walk /\ to[1] = items[n + 1].who /\ to[2] = f[n].visited
      BY <2>2, <2>3 DEF Walk, Result
    <3>2. w \subseteq f[n].visited
      BY <2>2, <2>3 DEF LoopInv, SeenUpto
    <3>3. Left(gs, to[2]) < Left(gs, v)
      BY <1>2, <3>1, <3>2
    <3> HIDE DEF to
    <3>4. WalkIs(gs, expand[to], to[1], to[2])
      BY <3>1, <3>3
    <3> QED
      BY <3>1, <3>4 DEF to
  <2>4. LoopInv(gs, items, w, n + 1, AddItem(expand, f[n], items[n + 1]))
    BY <1>1, <2>2, <2>3, LoopStep
  <2> QED
    BY <2>2, <2>4
<1>6. Len(items) \in S
  <2> HIDE DEF S
  <2> QED
    BY <1>1, <1>4, <1>5, InductionOnNat
<1>7. LoopInv(gs, items, w, Len(items), f[Len(items)])
  BY <1>1, <1>6
<1> QED
  BY <1>3, <1>7 DEF items, w

LEMMA WalkStep ==
  ASSUME NEW gs, GroupsOK(gs), NEW expand, Expanded(gs, expand), NEW at \in Walk,
         \A to \in Walk : Left(gs, to[2]) < Left(gs, at[2]) => WalkIs(gs, expand[to], to[1], to[2])
  PROVE  WalkIs(gs, expand[at], at[1], at[2])
<1> DEFINE g == at[1]
           v == at[2]
<1>1. g \in Group /\ v \in SUBSET Group
  BY DEF Walk
<1>2. expand \in [Walk -> Result] /\ expand[at] = ExpandStep(gs, expand, at)
  BY DEF Expanded
<1>3. CASE ~Entering(gs, at)
  <2>1. ~expand[at].ok
    BY <1>2, <1>3 DEF ExpandStep, Entering, Refused
  <2>2. g \in Below(gs, g)
    BY <1>1, BelowClosed
  <2>3. ~(Good(gs, g) /\ Below(gs, g) \intersect v = {})
    BY <1>3, <2>2 DEF Entering, Good, Complete
  <2> QED
    BY <2>1, <2>3 DEF WalkIs
<1>4. CASE Entering(gs, at)
  <2>1. g \in DOMAIN gs /\ g \notin v
    BY <1>4 DEF Entering
  <2>2. expand[at] = AddItems(expand, gs[g], v \union {g})
    BY <1>2, <1>4 DEF ExpandStep, Entering
  <2>3. LoopInv(gs, gs[g], v \union {g}, Len(gs[g]), expand[at])
    BY <1>1, <1>2, <2>1, <2>2, WalkLoop
  <2>4. /\ LoopOK(gs, gs[g], v \union {g}, Len(gs[g])) <=> Good(gs, g) /\ Below(gs, g) \intersect v = {}
        /\ SeenUpto(gs, gs[g], v \union {g}, Len(gs[g])) = v \union Below(gs, g)
        /\ FoundUpto(gs, gs[g], Len(gs[g])) = Found(gs, g)
    BY <2>1, LoopEnd
  <2> QED
    BY <2>3, <2>4 DEF WalkIs, LoopInv
<1> QED
  BY <1>3, <1>4

LEMMA WalkFinds ==
  ASSUME NEW gs, GroupsOK(gs), NEW expand, Expanded(gs, expand), NEW at \in Walk
  PROVE  WalkIs(gs, expand[at], at[1], at[2])
<1> DEFINE S == {n \in Nat : \A to \in Walk : Left(gs, to[2]) < n => WalkIs(gs, expand[to], to[1], to[2])}
<1>1. \A to \in Walk : Left(gs, to[2]) \in Nat
  BY LeftType
<1>2. 0 \in S
  <2>1. \A to \in Walk : ~(Left(gs, to[2]) < 0)
    BY <1>1
  <2> QED
    BY <2>1
<1>3. ASSUME NEW n \in Nat, n \in S PROVE n + 1 \in S
  <2> SUFFICES ASSUME NEW to \in Walk, Left(gs, to[2]) < n + 1
               PROVE  WalkIs(gs, expand[to], to[1], to[2])
    OBVIOUS
  <2>1. ASSUME NEW on \in Walk, Left(gs, on[2]) < Left(gs, to[2])
        PROVE  WalkIs(gs, expand[on], on[1], on[2])
    <3>1. Left(gs, on[2]) < n
      BY <1>1, <2>1
    <3> QED
      BY <1>3, <3>1
  <2> QED
    BY <2>1, WalkStep
<1>4. Left(gs, at[2]) + 1 \in S
  <2>1. Left(gs, at[2]) + 1 \in Nat
    BY <1>1
  <2> HIDE DEF S
  <2> QED
    BY <1>2, <1>3, <2>1, InductionOnNat
<1>5. Left(gs, at[2]) < Left(gs, at[2]) + 1
  BY <1>1
<1> QED
  BY <1>4, <1>5

(* What ExpandGroup returns: it succeeds exactly on complete trees, with    *)
(* every Member of the nest once.                                           *)
LEMMA ExpansionFinds ==
  ASSUME NEW gs, GroupsOK(gs), NEW g \in Group
  PROVE  /\ Expands(gs, g) <=> Good(gs, g)
         /\ ExpandGroup(gs, g) \in Seq(GroupItem)
         /\ Expands(gs, g) => /\ Names(ExpandGroup(gs, g)) = Found(gs, g)
                              /\ Distinct(ExpandGroup(gs, g))
<1>1. PICK expand : Expanded(gs, expand) /\ Expansion(gs, g) = expand[<<g, {}>>]
  BY ExpansionIs
<1> DEFINE at == <<g, {}>>
<1>2. at \in Walk /\ at[1] = g /\ at[2] = {}
  BY DEF Walk
<1> HIDE DEF at
<1>3. WalkIs(gs, expand[at], g, {})
  BY <1>1, <1>2, WalkFinds
<1>4. Expansion(gs, g) = expand[at] /\ expand[at] \in Result
  BY <1>1, <1>2 DEF at, Expanded
<1> QED
  BY <1>3, <1>4 DEF WalkIs, Expands, ExpandGroup, Result

(* A list without repetitions is as long as it has names.                   *)
LEMMA DistinctLength ==
  ASSUME NEW list \in Seq(GroupItem), Distinct(list)
  PROVE  IsFiniteSet(Names(list)) /\ Len(list) = Cardinality(Names(list))
<1> DEFINE positions == 1 .. Len(list)
           f == [i \in positions |-> list[i].who]
<1>1. DOMAIN list = positions /\ Len(list) \in Nat
  BY LenProperties
<1>2. IsFiniteSet(positions) /\ Cardinality(positions) = Len(list)
  <2>1. 1 \in Int /\ Len(list) \in Int
    BY <1>1
  <2> QED
    BY <1>1, <2>1, FS_Interval
<1> HIDE DEF positions
<1>3. f \in Surjection(positions, Names(list))
  BY <1>1 DEF Surjection, Names
<1>4. f \in Injection(positions, Names(list))
  BY <1>1, <1>3 DEF Injection, IsInjective, Surjection, Distinct
<1> HIDE DEF f
<1> QED
  BY <1>2, <1>3, <1>4, FS_Surjection

(* The evaluator's inGroup is membership of a complete tree.                *)
LEMMA InGroupIs ==
  ASSUME NEW gs, GroupsOK(gs), NEW g \in Group, NEW m \in Member
  PROVE  InGroup(gs, g, m) <=> Belongs(gs, g, m)
BY ExpansionFinds DEF InGroup, Belongs, Good, Found

--------------------------------------------------------------------------------
(* OrganizationAdmin.                                                       *)

(* The Groups are finitely many, and have lists.                            *)
LEMMA AdminTypes == AdminSpec => []GroupsOK(groups)
<1>1. AdminInit => GroupsOK(groups)
  <2> SUFFICES ASSUME AdminInit PROVE GroupsOK(groups)
    OBVIOUS
  <2>1. DOMAIN groups = {}
    BY DEF AdminInit
  <2> QED
    BY <2>1, FS_EmptySet DEF GroupsOK
<1>2. GroupsOK(groups) /\ [AdminNext]_ovars => GroupsOK(groups)'
  <2> SUFFICES ASSUME GroupsOK(groups), [AdminNext]_ovars PROVE GroupsOK(groups')
    BY DEF GroupsOK
  <2>1. ASSUME NEW g \in Group, NEW items \in GroupSpecs, ApplyGroup(g, items)
        PROVE  GroupsOK(groups')
    <3>1. /\ DOMAIN groups' = DOMAIN groups \union {g}
          /\ \A h \in DOMAIN groups' : groups'[h] = items \/ (h \in DOMAIN groups /\ groups'[h] = groups[h])
      BY <2>1 DEF ApplyGroup
    <3>2. IsFiniteSet(DOMAIN groups \union {g})
      BY FS_AddElement DEF GroupsOK
    <3>3. items \in Seq(GroupItem)
      BY GroupSpecsAssumption
    <3> QED
      BY <3>1, <3>2, <3>3 DEF GroupsOK
  <2>2. ASSUME NEW g \in Group, DeleteGroup(g)
        PROVE  GroupsOK(groups')
    <3>1. /\ DOMAIN groups' = DOMAIN groups \ {g}
          /\ \A h \in DOMAIN groups' : groups'[h] = groups[h]
      BY <2>2 DEF DeleteGroup
    <3>2. IsFiniteSet(DOMAIN groups \ {g})
      BY FS_Subset DEF GroupsOK
    <3> QED
      BY <3>1, <3>2 DEF GroupsOK
  <2>3. CASE UNCHANGED groups
    BY <2>3
  <2> QED
    BY <2>1, <2>2, <2>3 DEF AdminNext, ApplyPolicy, DeletePolicy, ovars
<1> QED
  BY <1>1, <1>2, PTL DEF AdminSpec

(* ExpandGroup finds every missing Group and every cycle, at any depth, and *)
(* accepts every tree of Groups that exist.                                 *)
THEOREM ExpandsSoundNests == AdminSpec => []SoundNestsExpand
<1>1. GroupsOK(groups) => SoundNestsExpand
  BY ExpansionFinds DEF SoundNestsExpand, Good, Tree
<1> QED
  BY <1>1, AdminTypes, PTL

(* And nothing else: a Group that is reached twice is refused even where no *)
(* cycle leads back to it, though the documents ask for no more than an     *)
(* acyclic structure.                                                       *)
THEOREM ExpandsTrees == AdminSpec => []TreesExpand
<1>1. GroupsOK(groups) => TreesExpand
  BY ExpansionFinds DEF TreesExpand, Good
<1> QED
  BY <1>1, AdminTypes, PTL

(* What ExpandGroup returns is every Member of the nest, each once, however *)
(* many paths and roles lead to it.                                         *)
THEOREM ExpandsMembers == AdminSpec => []ExpansionIsMembership
<1>1. GroupsOK(groups) => ExpansionIsMembership
  BY ExpansionFinds, DistinctLength DEF ExpansionIsMembership, Found
<1> QED
  BY <1>1, AdminTypes, PTL

(* The verdict on two names depends on the Groups only by where they belong.*)
LEMMA MatchesOf ==
  ASSUME NEW gs, GroupsOK(gs), NEW hs, GroupsOK(hs), NEW pol,
         NEW source \in Member \ Moved(gs, hs), NEW target \in Target \ Moved(gs, hs), NEW action
  PROVE  Matches(gs, pol, source, target, action) <=> Matches(hs, pol, source, target, action)
<1>1. \A m \in Member \ Moved(gs, hs), g \in Group : InGroup(gs, g, m) <=> InGroup(hs, g, m)
  <2>1. ASSUME NEW m \in Member \ Moved(gs, hs), NEW g \in Group
        PROVE  InGroup(gs, g, m) <=> InGroup(hs, g, m)
    <3>1. Belongs(gs, g, m) = Belongs(hs, g, m)
      BY DEF Moved
    <3> QED
      BY <3>1, InGroupIs
  <2> QED
    BY <2>1
<1>2. MatchesSource(gs, pol, source) <=> MatchesSource(hs, pol, source)
  BY <1>1 DEF MatchesSource
<1>3. MatchesTarget(gs, pol, target) <=> MatchesTarget(hs, pol, target)
  BY <1>1 DEF MatchesTarget
<1> QED
  BY <1>2, <1>3 DEF Matches

(* Editing Groups changes nobody's rights but those of Members that enter   *)
(* or leave a Group, whatever state the edit leaves the other Groups in.    *)
THEOREM LocalGroupEdits == AdminSpec => GroupEditsAreLocal
<1>1. GroupsOK(groups) /\ GroupsOK(groups)' =>
        (policies' = policies =>
           \A source \in Member \ Moved(groups, groups'),
              target \in Target \ Moved(groups, groups'), action \in Action :
             Check(groups, policies, source, target, action)
               = Check(groups', policies, source, target, action))
  <2> SUFFICES ASSUME GroupsOK(groups), GroupsOK(groups'),
                      NEW source \in Member \ Moved(groups, groups'),
                      NEW target \in Target \ Moved(groups, groups'), NEW action \in Action
               PROVE  Check(groups, policies, source, target, action)
                        = Check(groups', policies, source, target, action)
    BY DEF GroupsOK
  <2>1. \A pol : Matches(groups, pol, source, target, action)
                   <=> Matches(groups', pol, source, target, action)
    BY MatchesOf
  <2> QED
    BY <2>1 DEF Check
<1> QED
  BY <1>1, AdminTypes, PTL DEF GroupEditsAreLocal

(* Whether a Policy matches a request depends on the Policy and on the      *)
(* Groups, never on the other Policies; so a set of Policies that only adds *)
(* Denies and only drops Allows grants no more.                             *)
LEMMA StricterGrantsLess ==
  ASSUME NEW gs, NEW pols, NEW more, Stricter(pols, more)
  PROVE  Grants(gs, more) \subseteq Grants(gs, pols)
<1> SUFFICES ASSUME NEW g \in Member \X Target \X Action,
                    Check(gs, more, g[1], g[2], g[3])
             PROVE  Check(gs, pols, g[1], g[2], g[3])
  BY DEF Grants
<1> DEFINE M(pol) == Matches(gs, pol, g[1], g[2], g[3])
<1>1. \A pol \in more : M(pol) => pol.effect # "Deny"
  BY DEF Check
<1>2. PICK pol \in more : M(pol) /\ pol.effect = "Allow"
  BY DEF Check
<1>3. pol \in pols
  BY <1>2 DEF Stricter
<1>4. \A q \in pols : M(q) => q.effect # "Deny"
  BY <1>1 DEF Stricter
<1> QED
  BY <1>2, <1>3, <1>4 DEF Check

(* An administrator who adds a Deny or takes an Allow away never allows     *)
(* anything new, whatever the other Policies and the Groups are; and the    *)
(* other way round.                                                         *)
THEOREM MonotonePolicyEdits == AdminSpec => PolicyEditsAreMonotone
<1>1. groups' = groups =>
        /\ Stricter(policies, policies') =>
             Grants(groups, policies') \subseteq Grants(groups, policies)
        /\ Stricter(policies', policies) =>
             Grants(groups, policies) \subseteq Grants(groups, policies')
  BY StricterGrantsLess
<1> QED
  BY <1>1, PTL DEF PolicyEditsAreMonotone

(* A Policy that matches a request to a Group matches the same request to   *)
(* every Member the Group expands to.                                       *)
LEMMA GroupMatchReachesMembers ==
  ASSUME NEW gs, NEW pol, NEW source \in Member, NEW g \in Group, NEW action \in Action,
         NEW m \in Member, InGroup(gs, g, m), Matches(gs, pol, source, g, action)
  PROVE  Matches(gs, pol, source, m, action)
<1>1. g \notin Member
  BY DisjointNames
<1>2. pol.to = {} \/ g \in pol.to
  BY <1>1 DEF Matches, MatchesTarget
<1>3. MatchesTarget(gs, pol, m)
  BY <1>2 DEF MatchesTarget
<1> QED
  BY <1>3 DEF Matches

(* Whoever may act on a Group may act on each Member it expands to that no  *)
(* Deny takes out: the second check of StartCollaboration, member by member,*)
(* drops only Members a Deny is about.                                      *)
THEOREM GroupGrants == AdminSpec => []GroupGrantsReachMembers
<1>1. GroupGrantsReachMembers
  <2> SUFFICES ASSUME NEW source \in Member, NEW g \in Group, NEW action \in Action,
                      Check(groups, policies, source, g, action),
                      NEW m \in Member, InGroup(groups, g, m),
                      \A pol \in policies :
                        Matches(groups, pol, source, m, action) => pol.effect # "Deny"
               PROVE  Check(groups, policies, source, m, action)
    BY DEF GroupGrantsReachMembers
  <2>1. PICK pol \in policies : Matches(groups, pol, source, g, action) /\ pol.effect = "Allow"
    BY DEF Check
  <2>2. Matches(groups, pol, source, m, action)
    BY <2>1, GroupMatchReachesMembers
  <2> QED
    BY <2>1, <2>2 DEF Check
<1> QED
  BY <1>1, PTL

--------------------------------------------------------------------------------
(* Maps of objects.                                                         *)

LEMMA WrittenObject ==
  ASSUME NEW x \in Object, NEW copy, Write(x, copy), latest \in [Object -> SUBSET Holder]
  PROVE  /\ DOMAIN api' = DOMAIN api \union {x}
         /\ api'[x] = copy
         /\ \A y \in DOMAIN api : y # x => api'[y] = api[y]
         /\ latest' \in [Object -> SUBSET Holder]
         /\ latest'[x] = {}
         /\ \A y \in Object : y # x => latest'[y] = latest[y]
BY DEF Write, Put, NewVersion

(* A kind is not the cache, nor Matrix setup.                               *)
LEMMA KindsAreHolders ==
  Kind \subseteq Holder /\ "cache" \notin Kind /\ "setup" \notin Kind
  /\ \A x \in Object : KindOf(x) \in Kind
BY DEF Kind, Holder, KindOf

--------------------------------------------------------------------------------
(* Steps that change the status, or the spec, of one object.                *)

(* A new version has no holder; nothing else changes for the others.        *)
LEMMA WriteKeepsInv ==
  ASSUME StatusInv, NEW x \in Object, NEW copy, Recorded(copy), Write(x, copy),
         UNCHANGED cache,
         work' = [k \in Kind |-> work'[k]],
         \A k \in Kind, y \in Object : y # x /\ k \in latest[y] => work'[k] = work[k],
         \A y \in Object : y # x /\ "setup" \in latest[y] => setup' = setup
  PROVE  StatusInv'
<1>1. /\ DOMAIN api' = DOMAIN api \union {x}
      /\ api'[x] = copy
      /\ \A y \in DOMAIN api : y # x => api'[y] = api[y]
      /\ latest' \in [Object -> SUBSET Holder]
      /\ latest'[x] = {}
      /\ \A y \in Object : y # x => latest'[y] = latest[y]
  BY WrittenObject DEF StatusInv, ObjectsAreRecorded
<1>2. ObjectsAreRecorded'
  <2>1. \A y \in DOMAIN api' : Recorded(api'[y])
    BY <1>1 DEF StatusInv, ObjectsAreRecorded
  <2> QED
    BY <1>1, <2>1 DEF StatusInv, ObjectsAreRecorded, Recorded
<1>3. CachesHoldIt'
  BY <1>1 DEF StatusInv, CachesHoldIt
<1>4. ReconcilersHoldIt'
  <2> SUFFICES ASSUME NEW k \in Kind, NEW y \in Object, k \in latest'[y]
               PROVE  /\ y \in DOMAIN api'
                      /\ work'[k].step \in {"members", "update"}
                      /\ work'[k].name = y
                      /\ {"applied", "mxid"} \subseteq DOMAIN work'[k].status
                      /\ work'[k].status.applied = api'[y].gen
                      /\ work'[k].status.mxid \in BOOLEAN
                      /\ api'[y].status.mxid => work'[k].status.mxid
    BY DEF ReconcilersHoldIt
  <2>1. y # x /\ k \in latest[y] /\ work'[k] = work[k] /\ y \in DOMAIN api /\ api'[y] = api[y]
    BY <1>1 DEF StatusInv, ReconcilersHoldIt
  <2> QED
    BY <1>1, <2>1 DEF StatusInv, ReconcilersHoldIt
<1>5. SetupHoldsIt'
  <2> SUFFICES ASSUME NEW y \in Object, "setup" \in latest'[y]
               PROVE  /\ y \in DOMAIN api'
                      /\ setup' # Idle
                      /\ setup'.name = y
                      /\ setup'.status = [api'[y].status EXCEPT !.mxid = TRUE]
    BY DEF SetupHoldsIt
  <2>1. y # x /\ "setup" \in latest[y] /\ setup' = setup /\ y \in DOMAIN api /\ api'[y] = api[y]
    BY <1>1 DEF StatusInv, SetupHoldsIt
  <2> QED
    BY <1>1, <2>1 DEF StatusInv, SetupHoldsIt
<1> QED
  BY <1>2, <1>3, <1>4, <1>5 DEF StatusInv

(* Who gives a version up, or never had it, is free to do anything.         *)
LEMMA FewerHoldersKeepInv ==
  ASSUME StatusInv, UNCHANGED <<api, cache>>,
         latest' \in [Object -> SUBSET Holder],
         \A y \in Object : latest'[y] \subseteq latest[y],
         work' = [k \in Kind |-> work'[k]],
         \A k \in Kind, y \in Object : k \in latest'[y] => work'[k] = work[k],
         \A y \in Object : "setup" \in latest'[y] => setup' = setup
  PROVE  StatusInv'
<1>1. ObjectsAreRecorded'
  BY DEF StatusInv, ObjectsAreRecorded, Recorded
<1>2. CachesHoldIt'
  BY DEF StatusInv, CachesHoldIt
<1>3. ReconcilersHoldIt'
  <2> SUFFICES ASSUME NEW k \in Kind, NEW y \in Object, k \in latest'[y]
               PROVE  /\ y \in DOMAIN api
                      /\ work'[k].step \in {"members", "update"}
                      /\ work'[k].name = y
                      /\ {"applied", "mxid"} \subseteq DOMAIN work'[k].status
                      /\ work'[k].status.applied = api[y].gen
                      /\ work'[k].status.mxid \in BOOLEAN
                      /\ api[y].status.mxid => work'[k].status.mxid
    BY DEF ReconcilersHoldIt
  <2>1. k \in latest[y] /\ work'[k] = work[k]
    OBVIOUS
  <2> QED
    BY <2>1 DEF StatusInv, ReconcilersHoldIt
<1>4. SetupHoldsIt'
  BY DEF StatusInv, SetupHoldsIt
<1> QED
  BY <1>1, <1>2, <1>3, <1>4 DEF StatusInv

(* Steps that leave objects, workers and Matrix setup alone.                *)
LEMMA QuietKeepsInv ==
  ASSUME StatusInv, UNCHANGED <<objects, work, setup>>
  PROVE  StatusInv'
BY DEF objects, StatusInv, ObjectsAreRecorded, Recorded, CachesHoldIt, ReconcilersHoldIt, SetupHoldsIt

(* The user applies a spec, which makes a new generation, or a new object.  *)
LEMMA ApplyKeepsInv ==
  ASSUME StatusInv, NEW x \in Object, ApplySpec(x)
  PROVE  StatusInv'
<1>1. UNCHANGED <<cache, work, setup>>
  BY DEF ApplySpec
<1>2. work = [k \in Kind |-> work[k]]
  BY DEF StatusInv, ObjectsAreRecorded
<1>3. ASSUME NEW s \in Specs[x], Exists(x), Write(x, [api[x] EXCEPT !.spec = s, !.gen = @ + 1])
      PROVE  StatusInv'
  <2> DEFINE copy == [api[x] EXCEPT !.spec = s, !.gen = @ + 1]
  <2>1. Recorded(api[x])
    BY <1>3 DEF StatusInv, ObjectsAreRecorded, Exists
  <2>2. /\ DOMAIN copy = DOMAIN api[x]
        /\ copy.gen = api[x].gen + 1
        /\ copy.status = api[x].status
    BY <2>1 DEF Recorded
  <2> HIDE DEF copy
  <2>3. Recorded(copy)
    BY <2>1, <2>2 DEF Recorded
  <2> QED
    BY <1>1, <1>2, <1>3, <2>3, WriteKeepsInv DEF copy
<1>4. ASSUME NEW s \in Specs[x], Write(x, [spec |-> s, gen |-> 1, status |-> NoStatus])
      PROVE  StatusInv'
  <2> DEFINE new == [spec |-> s, gen |-> 1, status |-> NoStatus]
  <2>1. /\ {"applied", "mxid"} \subseteq DOMAIN NoStatus
        /\ NoStatus.applied = 0 /\ NoStatus.mxid \in BOOLEAN
    BY DEF NoStatus
  <2>2. {"spec", "gen", "status"} \subseteq DOMAIN new /\ new.gen = 1 /\ new.status = NoStatus
    OBVIOUS
  <2> HIDE DEF new
  <2>3. Recorded(new)
    <3>1. new.gen \in Nat /\ new.status.applied \in Nat /\ new.status.applied <= new.gen
      BY <2>1, <2>2
    <3>2. {"applied", "mxid"} \subseteq DOMAIN new.status /\ new.status.mxid \in BOOLEAN
      BY <2>1, <2>2
    <3> QED
      BY <2>2, <3>1, <3>2 DEF Recorded
  <2> QED
    BY <1>1, <1>2, <1>4, <2>3, WriteKeepsInv DEF new
<1> QED
  BY <1>3, <1>4 DEF ApplySpec

(* The user deletes an object.                                              *)
LEMMA DeleteKeepsInv ==
  ASSUME StatusInv, NEW x \in Object, DeleteObject(x)
  PROVE  StatusInv'
<1>1. /\ DOMAIN api' = DOMAIN api \ {x}
      /\ \A y \in DOMAIN api' : api'[y] = api[y]
      /\ latest' \in [Object -> SUBSET Holder]
      /\ latest'[x] = {}
      /\ \A y \in Object : y # x => latest'[y] = latest[y]
      /\ UNCHANGED <<cache, work, setup>>
  BY DEF DeleteObject, Without, NewVersion, StatusInv, ObjectsAreRecorded
<1>2. ObjectsAreRecorded'
  BY <1>1 DEF StatusInv, ObjectsAreRecorded, Recorded
<1>3. CachesHoldIt'
  BY <1>1 DEF StatusInv, CachesHoldIt
<1>4. ReconcilersHoldIt'
  <2> SUFFICES ASSUME NEW k \in Kind, NEW y \in Object, k \in latest'[y]
               PROVE  /\ y \in DOMAIN api'
                      /\ work[k].step \in {"members", "update"}
                      /\ work[k].name = y
                      /\ {"applied", "mxid"} \subseteq DOMAIN work[k].status
                      /\ work[k].status.applied = api'[y].gen
                      /\ work[k].status.mxid \in BOOLEAN
                      /\ api'[y].status.mxid => work[k].status.mxid
    BY <1>1 DEF ReconcilersHoldIt
  <2>1. y # x /\ k \in latest[y] /\ y \in DOMAIN api' /\ api'[y] = api[y]
    BY <1>1 DEF StatusInv, ReconcilersHoldIt
  <2> QED
    BY <2>1 DEF StatusInv, ReconcilersHoldIt
<1>5. SetupHoldsIt'
  <2> SUFFICES ASSUME NEW y \in Object, "setup" \in latest'[y]
               PROVE  /\ y \in DOMAIN api'
                      /\ setup # Idle
                      /\ setup.name = y
                      /\ setup.status = [api'[y].status EXCEPT !.mxid = TRUE]
    BY <1>1 DEF SetupHoldsIt
  <2>1. y # x /\ "setup" \in latest[y] /\ y \in DOMAIN api' /\ api'[y] = api[y]
    BY <1>1 DEF StatusInv, SetupHoldsIt
  <2> QED
    BY <2>1 DEF StatusInv, SetupHoldsIt
<1> QED
  BY <1>2, <1>3, <1>4, <1>5 DEF StatusInv

--------------------------------------------------------------------------------
(* Steps that make somebody a holder.                                       *)

(* The informer brings the cache up to date.                                *)
LEMMA ArrivalKeepsInv ==
  ASSUME StatusInv, NEW x \in Object, ObjectArrives(x)
  PROVE  StatusInv'
<1>1. /\ UNCHANGED <<api, work, setup>>
      /\ latest' \in [Object -> SUBSET Holder]
      /\ latest'[x] = latest[x] \union {"cache"}
      /\ \A y \in Object : y # x => latest'[y] = latest[y]
  BY DEF ObjectArrives, StatusInv, ObjectsAreRecorded, Holder
<1>2. /\ x \in DOMAIN api <=> x \in DOMAIN cache'
      /\ x \in DOMAIN api => cache'[x] = api[x]
      /\ DOMAIN cache' \subseteq DOMAIN cache \union {x}
      /\ \A y \in Object : y # x => (y \in DOMAIN cache' <=> y \in DOMAIN cache)
      /\ \A y \in DOMAIN cache' : y # x => cache'[y] = cache[y]
  BY DEF ObjectArrives, Put, Without, Exists
<1>3. ObjectsAreRecorded'
  <2>1. \A y \in DOMAIN cache' : Recorded(cache'[y])
    BY <1>2 DEF StatusInv, ObjectsAreRecorded
  <2> QED
    BY <1>1, <1>2, <2>1 DEF StatusInv, ObjectsAreRecorded, Recorded
<1>4. CachesHoldIt'
  BY <1>1, <1>2 DEF StatusInv, CachesHoldIt
<1>5. ReconcilersHoldIt' /\ SetupHoldsIt'
  <2>1. \A y \in Object : (\A k \in Kind : k \in latest'[y] => k \in latest[y])
                          /\ ("setup" \in latest'[y] => "setup" \in latest[y])
    BY <1>1, KindsAreHolders
  <2>2. ReconcilersHoldIt'
    BY <1>1, <2>1 DEF StatusInv, ReconcilersHoldIt
  <2>3. SetupHoldsIt'
    BY <1>1, <2>1 DEF StatusInv, SetupHoldsIt
  <2> QED
    BY <2>2, <2>3
<1> QED
  BY <1>3, <1>4, <1>5 DEF StatusInv

(* What a reconciler carries of the copy it read.                           *)
Carries(w, x, obj) ==
  /\ w.step \in {"members", "update"}
  /\ w.name = x
  /\ {"applied", "mxid"} \subseteq DOMAIN w.status
  /\ w.status.applied = obj.gen
  /\ w.status.mxid \in BOOLEAN
  /\ obj.status.mxid => w.status.mxid

(* A verdict changes neither the generation it names nor the Matrix user.   *)
LEMMA VerdictsKeep ==
  ASSUME NEW status, {"applied", "mxid"} \subseteq DOMAIN status, NEW count
  PROVE  /\ {"applied", "mxid"} \subseteq DOMAIN Invalid(status)
         /\ Invalid(status).applied = status.applied /\ Invalid(status).mxid = status.mxid
         /\ {"applied", "mxid"} \subseteq DOMAIN Ready(status, count)
         /\ Ready(status, count).applied = status.applied /\ Ready(status, count).mxid = status.mxid
BY DEF Invalid, Ready

(* Reconcile computes from the copy the cache has.                          *)
LEMMA ReconcileCarries ==
  ASSUME StatusInv, NEW x \in Object, Reconcile(x)
  PROVE  /\ x \in DOMAIN cache
         /\ \E w : work' = [work EXCEPT ![KindOf(x)] = w] /\ Carries(w, x, cache[x])
<1> DEFINE obj == cache[x]
           status == [obj.status EXCEPT !.applied = obj.gen]
           found == [status EXCEPT !.mxid = TRUE]
           updates(st) == [step |-> "update", name |-> x, status |-> st]
<1>1. x \in DOMAIN cache /\ Recorded(obj)
  BY DEF Reconcile, StatusInv, ObjectsAreRecorded
<1>2. /\ {"applied", "mxid"} \subseteq DOMAIN status
      /\ status.applied = obj.gen /\ status.mxid = obj.status.mxid
  BY <1>1 DEF Recorded
<1>3. /\ {"applied", "mxid"} \subseteq DOMAIN found
      /\ found.applied = obj.gen /\ found.mxid = TRUE
  BY <1>2
<1>4. obj.status.mxid \in BOOLEAN
  BY <1>1 DEF Recorded
<1> HIDE DEF status, found, obj
<1>5. Carries(ExpandCached(x, status), x, obj) /\ Carries(ExpandCached(x, found), x, obj)
  BY <1>2, <1>3, <1>4, VerdictsKeep DEF ExpandCached, Carries
<1>6. Carries(updates(JudgeCollaboration(obj.spec, status)), x, obj)
  BY <1>2, <1>4, VerdictsKeep DEF JudgeCollaboration, Carries
<1>7. Carries(updates(JudgePolicy(obj.spec, status)), x, obj)
  BY <1>2, <1>4, VerdictsKeep DEF JudgePolicy, Carries
<1>8. \E w : /\ work' = [work EXCEPT ![KindOf(x)] = w]
             /\ w \in {ExpandCached(x, status), ExpandCached(x, found),
                       updates(JudgeCollaboration(obj.spec, status)),
                       updates(JudgePolicy(obj.spec, status))}
  <2>1. KindOf(x) \in {"group", "collaboration", "policy"}
    BY DEF KindOf
  <2>2. CASE KindOf(x) = "group"
    BY <2>2 DEF Reconcile, status, found, obj
  <2>3. CASE KindOf(x) = "collaboration"
    BY <2>3 DEF Reconcile, status, found, obj
  <2>4. CASE KindOf(x) = "policy"
    BY <2>4 DEF Reconcile, status, found, obj
  <2> QED
    BY <2>1, <2>2, <2>3, <2>4
<1> QED
  BY <1>1, <1>5, <1>6, <1>7, <1>8 DEF obj


(* A worker holds a version when the cache it read from does.               *)
LEMMA ReconcileKeepsInv ==
  ASSUME StatusInv, NEW x \in Object, Reconcile(x)
  PROVE  StatusInv'
<1> DEFINE kind == KindOf(x)
<1>1. kind \in Kind /\ work[kind] = Idle /\ UNCHANGED <<api, cache, setup>>
  BY KindsAreHolders DEF Reconcile, otherVars
<1>2. PICK w : work' = [work EXCEPT ![kind] = w] /\ Carries(w, x, cache[x])
  BY ReconcileCarries
<1>3. x \in DOMAIN cache
  BY ReconcileCarries
<1>4. /\ latest' \in [Object -> SUBSET Holder]
      /\ latest'[x] = IF "cache" \in latest[x] THEN latest[x] \union {kind} ELSE latest[x]
      /\ \A y \in Object : y # x => latest'[y] = latest[y]
  BY <1>1, KindsAreHolders DEF Reconcile, Read, StatusInv, ObjectsAreRecorded
<1>5. /\ work' = [k \in Kind |-> work'[k]]
      /\ work'[kind] = w
      /\ \A k \in Kind : k # kind => work'[k] = work[k]
  BY <1>1, <1>2 DEF StatusInv, ObjectsAreRecorded
<1>6. \A y \in Object : kind \notin latest[y]
  BY <1>1 DEF StatusInv, ReconcilersHoldIt, Idle
<1> HIDE DEF kind
<1>7. ObjectsAreRecorded'
  BY <1>1, <1>4, <1>5 DEF StatusInv, ObjectsAreRecorded, Recorded
<1>8. CachesHoldIt'
  BY <1>1, <1>4, KindsAreHolders DEF StatusInv, CachesHoldIt
<1>9. ReconcilersHoldIt'
  <2> SUFFICES ASSUME NEW k \in Kind, NEW y \in Object, k \in latest'[y]
               PROVE  /\ y \in DOMAIN api
                      /\ Carries(work'[k], y, api[y])
    BY <1>1 DEF ReconcilersHoldIt, Carries
  <2>1. CASE k = kind
    <3>1. y = x /\ "cache" \in latest[x]
      BY <1>4, <1>6, <2>1
    <3>2. x \in DOMAIN api /\ cache[x] = api[x]
      BY <1>3, <3>1 DEF StatusInv, CachesHoldIt
    <3> QED
      BY <1>2, <1>5, <2>1, <3>1, <3>2
  <2>2. CASE k # kind
    <3>1. k \in latest[y] /\ work'[k] = work[k]
      BY <1>4, <1>5, <2>2
    <3> QED
      BY <3>1 DEF StatusInv, ReconcilersHoldIt, Carries
  <2> QED
    BY <2>1, <2>2
<1>10. SetupHoldsIt'
  <2>1. \A y \in Object : "setup" \in latest'[y] => "setup" \in latest[y]
    BY <1>1, <1>4, KindsAreHolders
  <2> QED
    BY <1>1, <2>1 DEF StatusInv, SetupHoldsIt
<1> QED
  BY <1>7, <1>8, <1>9, <1>10 DEF StatusInv

(* Matrix setup likewise.                                                   *)
LEMMA SetupReadKeepsInv ==
  ASSUME StatusInv, NEW x \in Object, SetupReads(x)
  PROVE  StatusInv'
<1>1. /\ setup = Idle /\ x \in DOMAIN cache
      /\ setup' = [name |-> x, status |-> [cache[x].status EXCEPT !.mxid = TRUE]]
      /\ UNCHANGED <<api, cache, work>>
  BY DEF SetupReads, workerVars
<1>2. /\ latest' \in [Object -> SUBSET Holder]
      /\ latest'[x] = IF "cache" \in latest[x] THEN latest[x] \union {"setup"} ELSE latest[x]
      /\ \A y \in Object : y # x => latest'[y] = latest[y]
  BY DEF SetupReads, Read, StatusInv, ObjectsAreRecorded, Holder
<1>3. ObjectsAreRecorded'
  BY <1>1, <1>2 DEF StatusInv, ObjectsAreRecorded, Recorded
<1>4. CachesHoldIt'
  BY <1>1, <1>2 DEF StatusInv, CachesHoldIt
<1>5. ReconcilersHoldIt'
  <2>1. \A k \in Kind, y \in Object : k \in latest'[y] => k \in latest[y]
    BY <1>2, KindsAreHolders
  <2> QED
    BY <1>1, <2>1 DEF StatusInv, ReconcilersHoldIt
<1>6. SetupHoldsIt'
  <2>1. \A y \in Object : "setup" \in latest'[y] => y = x /\ "cache" \in latest[x]
    BY <1>1, <1>2 DEF StatusInv, SetupHoldsIt
  <2>2. setup' # Idle
    <3>1. "name" \in DOMAIN setup' /\ "name" \notin DOMAIN Idle
      BY <1>1 DEF Idle
    <3> QED
      BY <3>1
  <2>3. "cache" \in latest[x] => x \in DOMAIN api /\ cache[x] = api[x]
    BY <1>1 DEF StatusInv, CachesHoldIt
  <2> QED
    BY <1>1, <2>1, <2>2, <2>3 DEF SetupHoldsIt
<1> QED
  BY <1>3, <1>4, <1>5, <1>6 DEF StatusInv

--------------------------------------------------------------------------------
(* Steps of those who hold a version.                                       *)

LEMMA GetMembersKeepsInv ==
  ASSUME StatusInv, GetMembers
  PROVE  StatusInv'
<1> DEFINE w == work["group"]
<1>1. "group" \in Kind /\ w.step = "members" /\ UNCHANGED <<api, cache, latest, setup>>
  BY DEF GetMembers, objects, otherVars, Kind
<1>2. PICK status :
        /\ status \in {Ready(w.status, w.count), Invalid(w.status)}
        /\ work' = [work EXCEPT !["group"] = [step |-> "update", name |-> w.name, status |-> status]]
  BY DEF GetMembers
<1>3. /\ work' = [k \in Kind |-> work'[k]]
      /\ work'["group"] = [step |-> "update", name |-> w.name, status |-> status]
      /\ \A k \in Kind : k # "group" => work'[k] = work[k]
  BY <1>1, <1>2 DEF StatusInv, ObjectsAreRecorded
<1>4. ObjectsAreRecorded'
  BY <1>1, <1>3 DEF StatusInv, ObjectsAreRecorded, Recorded
<1>5. CachesHoldIt' /\ SetupHoldsIt'
  BY <1>1 DEF StatusInv, CachesHoldIt, SetupHoldsIt
<1>6. ReconcilersHoldIt'
  <2> SUFFICES ASSUME NEW k \in Kind, NEW y \in Object, k \in latest[y]
               PROVE  y \in DOMAIN api /\ Carries(work'[k], y, api[y])
    BY <1>1 DEF ReconcilersHoldIt, Carries
  <2>1. y \in DOMAIN api /\ Carries(work[k], y, api[y])
    BY DEF StatusInv, ReconcilersHoldIt, Carries
  <2>2. CASE k = "group"
    <3>1. {"applied", "mxid"} \subseteq DOMAIN w.status
      BY <2>1, <2>2 DEF Carries
    <3>2. /\ {"applied", "mxid"} \subseteq DOMAIN status
          /\ status.applied = w.status.applied /\ status.mxid = w.status.mxid
      BY <1>2, <3>1, VerdictsKeep
    <3> QED
      BY <1>3, <2>1, <2>2, <3>2 DEF Carries
  <2>3. CASE k # "group"
    BY <1>3, <2>1, <2>3
  <2> QED
    BY <2>2, <2>3
<1> QED
  BY <1>4, <1>5, <1>6 DEF StatusInv

(* Nothing of the other's field, nor of an earlier generation, is written.  *)
Follows(x) ==
  /\ api'[x].status.applied >= api[x].status.applied
  /\ api[x].status.mxid => api'[x].status.mxid

(* The worker wrote what it carries of the API server's version.            *)
LEMMA StatusWritten ==
  ASSUME StatusInv, NEW k \in Kind, NEW x \in Object, work[k].name = x, k \in latest[x],
         Write(x, [api[x] EXCEPT !.status = work[k].status]),
         work' = [work EXCEPT ![k] = Idle], UNCHANGED <<cache, setup>>
  PROVE  StatusInv' /\ Follows(x)
<1> DEFINE copy == [api[x] EXCEPT !.status = work[k].status]
<1>1. x \in DOMAIN api /\ Recorded(api[x]) /\ Carries(work[k], x, api[x])
  BY DEF StatusInv, ReconcilersHoldIt, ObjectsAreRecorded, Carries
<1>2. DOMAIN copy = DOMAIN api[x] /\ copy.gen = api[x].gen /\ copy.status = work[k].status
  BY <1>1 DEF Recorded
<1> HIDE DEF copy
<1>3. Recorded(copy)
  BY <1>1, <1>2 DEF Recorded, Carries
<1>4. /\ work' = [j \in Kind |-> work'[j]]
      /\ \A j \in Kind, y \in Object : y # x /\ j \in latest[y] => work'[j] = work[j]
  <2>1. work' = [j \in Kind |-> work'[j]] /\ \A j \in Kind : j # k => work'[j] = work[j]
    BY DEF StatusInv, ObjectsAreRecorded
  <2>2. \A y \in Object : k \in latest[y] => y = x
    BY DEF StatusInv, ReconcilersHoldIt
  <2> QED
    BY <2>1, <2>2
<1>5. StatusInv'
  BY <1>3, <1>4, WriteKeepsInv DEF copy
<1>6. api'[x] = copy
  BY WrittenObject DEF copy, StatusInv, ObjectsAreRecorded
<1>7. Follows(x)
  BY <1>1, <1>2, <1>6 DEF Follows, Recorded, Carries
<1> QED
  BY <1>5, <1>7

LEMMA SetupWritten ==
  ASSUME StatusInv, NEW x \in Object, "setup" \in latest[x],
         Write(x, [api[x] EXCEPT !.status = setup.status]),
         setup' = Idle, UNCHANGED <<cache, work>>
  PROVE  StatusInv' /\ Follows(x)
<1> DEFINE copy == [api[x] EXCEPT !.status = setup.status]
<1>1. /\ x \in DOMAIN api /\ Recorded(api[x]) /\ setup.name = x
      /\ setup.status = [api[x].status EXCEPT !.mxid = TRUE]
  BY DEF StatusInv, SetupHoldsIt, ObjectsAreRecorded
<1>2. /\ {"applied", "mxid"} \subseteq DOMAIN setup.status
      /\ setup.status.applied = api[x].status.applied /\ setup.status.mxid = TRUE
  BY <1>1 DEF Recorded
<1>3. DOMAIN copy = DOMAIN api[x] /\ copy.gen = api[x].gen /\ copy.status = setup.status
  BY <1>1 DEF Recorded
<1> HIDE DEF copy
<1>4. Recorded(copy)
  BY <1>1, <1>2, <1>3 DEF Recorded
<1>5. /\ work' = [j \in Kind |-> work'[j]]
      /\ \A y \in Object : "setup" \in latest[y] => y = x
  BY <1>1 DEF StatusInv, ObjectsAreRecorded, SetupHoldsIt
<1>6. StatusInv'
  BY <1>4, <1>5, WriteKeepsInv DEF copy
<1>7. api'[x] = copy
  BY WrittenObject DEF copy, StatusInv, ObjectsAreRecorded
<1>8. Follows(x)
  BY <1>1, <1>2, <1>3, <1>7 DEF Follows, Recorded
<1> QED
  BY <1>6, <1>8


--------------------------------------------------------------------------------
(* The steps of a reconciler's update, and of Matrix setup's.               *)

(* What is in hand is about an object.                                      *)
HandsHoldObjects ==
  /\ \A k \in Kind : work[k] # Idle => work[k].name \in Object
  /\ setup # Idle => setup.name \in Object

LEMMA HandsStep == StatusInv /\ HandsHoldObjects /\ [Next]_vars => HandsHoldObjects'
<1> SUFFICES ASSUME StatusInv, HandsHoldObjects, [Next]_vars
             PROVE  HandsHoldObjects'
  OBVIOUS
<1>1. work = [k \in Kind |-> work[k]] /\ DOMAIN cache \subseteq Object
  BY DEF StatusInv, ObjectsAreRecorded
<1>2. ASSUME NEW k \in Kind, NEW w, work' = [work EXCEPT ![k] = w], w = Idle \/ w.name \in Object,
             UNCHANGED setup
      PROVE  HandsHoldObjects'
  BY <1>1, <1>2 DEF HandsHoldObjects
<1>3. CASE UNCHANGED <<work, setup>>
  BY <1>3 DEF HandsHoldObjects
<1>4. ASSUME NEW x \in Object, Reconcile(x)
      PROVE  HandsHoldObjects'
  <2>1. PICK w : work' = [work EXCEPT ![KindOf(x)] = w] /\ w.name = x
    BY <1>4, ReconcileCarries DEF Carries
  <2>2. KindOf(x) \in Kind /\ UNCHANGED setup
    BY <1>4, KindsAreHolders DEF Reconcile, otherVars
  <2> QED
    BY <1>2, <2>1, <2>2
<1>5. CASE GetMembers
  <2>1. PICK status : work' = [work EXCEPT !["group"] = [step |-> "update", name |-> work["group"].name, status |-> status]]
    BY <1>5 DEF GetMembers
  <2>2. "group" \in Kind /\ work["group"].name \in Object /\ UNCHANGED setup
    BY <1>5 DEF GetMembers, Kind, HandsHoldObjects, otherVars
  <2> QED
    BY <1>2, <2>1, <2>2
<1>6. ASSUME NEW k \in Kind, UpdateStatus(k)
      PROVE  HandsHoldObjects'
  BY <1>2, <1>6 DEF UpdateStatus, Done, otherVars
<1>7. ASSUME NEW x \in Group, SetupReads(x)
      PROVE  HandsHoldObjects'
  BY <1>7 DEF SetupReads, workerVars, HandsHoldObjects, Object
<1>8. CASE SetupWrites
  BY <1>8 DEF SetupWrites, workerVars, HandsHoldObjects
<1>9. CASE Restart
  BY <1>9 DEF Restart, HandsHoldObjects
<1> QED
  BY <1>3, <1>4, <1>5, <1>6, <1>7, <1>8, <1>9
     DEF Next, ApplySpec, DeleteObject, ObjectArrives, ReconcileDeleted, ChangeMembers,
         MembersArrive, Resync, objects, otherVars, vars

(* A status is written from the API server's version, or not at all.        *)
LEMMA UpdateKeepsInv ==
  ASSUME StatusInv, HandsHoldObjects, NEW k \in Kind, UpdateStatus(k)
  PROVE  StatusInv' /\ (UNCHANGED api \/ Follows(work[k].name))
                    /\ \A y \in DOMAIN api : y # work[k].name => api'[y] = api[y]
<1> DEFINE x == work[k].name
<1>1. x \in Object /\ work' = [work EXCEPT ![k] = Idle] /\ UNCHANGED <<cache, setup>>
  BY DEF UpdateStatus, Done, otherVars, HandsHoldObjects
<1>2. CASE k \in latest[x] /\ Write(x, [api[x] EXCEPT !.status = work[k].status])
  <2>1. \A y \in DOMAIN api : y # x => api'[y] = api[y]
    BY <1>1, <1>2, WrittenObject DEF StatusInv, ObjectsAreRecorded
  <2> QED
    BY <1>1, <1>2, <2>1, StatusWritten
<1>3. CASE Unwritten(x, k)
  <2>1. /\ UNCHANGED api
        /\ latest' \in [Object -> SUBSET Holder]
        /\ \A y \in Object : latest'[y] \subseteq latest[y]
        /\ k \notin latest'[x]
    BY <1>1, <1>3 DEF Unwritten, Forget, StatusInv, ObjectsAreRecorded
  <2>2. /\ work' = [j \in Kind |-> work'[j]]
        /\ \A j \in Kind : j # k => work'[j] = work[j]
    BY <1>1 DEF StatusInv, ObjectsAreRecorded
  <2>3. \A y \in Object : k \notin latest'[y]
    BY <2>1 DEF StatusInv, ReconcilersHoldIt
  <2>4. StatusInv'
    BY <1>1, <2>1, <2>2, <2>3, FewerHoldersKeepInv
  <2> QED
    BY <2>1, <2>4
<1> QED
  BY <1>2, <1>3 DEF UpdateStatus

LEMMA SetupWriteKeepsInv ==
  ASSUME StatusInv, HandsHoldObjects, SetupWrites
  PROVE  StatusInv' /\ (UNCHANGED api \/ Follows(setup.name))
                    /\ \A y \in DOMAIN api : y # setup.name => api'[y] = api[y]
<1> DEFINE x == setup.name
<1>1. x \in Object /\ setup' = Idle /\ UNCHANGED <<cache, work>>
  BY DEF SetupWrites, workerVars, HandsHoldObjects
<1>2. CASE "setup" \in latest[x] /\ Write(x, [api[x] EXCEPT !.status = setup.status])
  <2>1. \A y \in DOMAIN api : y # x => api'[y] = api[y]
    BY <1>1, <1>2, WrittenObject DEF StatusInv, ObjectsAreRecorded
  <2> QED
    BY <1>1, <1>2, <2>1, SetupWritten
<1>3. CASE Unwritten(x, "setup")
  <2>1. /\ UNCHANGED api
        /\ latest' \in [Object -> SUBSET Holder]
        /\ \A y \in Object : latest'[y] \subseteq latest[y]
        /\ "setup" \notin latest'[x]
    BY <1>1, <1>3 DEF Unwritten, Forget, StatusInv, ObjectsAreRecorded
  <2>2. work' = [j \in Kind |-> work'[j]]
    BY <1>1 DEF StatusInv, ObjectsAreRecorded
  <2>3. \A y \in Object : "setup" \notin latest'[y]
    BY <2>1 DEF StatusInv, SetupHoldsIt
  <2>4. StatusInv'
    BY <1>1, <2>1, <2>2, <2>3, FewerHoldersKeepInv
  <2> QED
    BY <2>1, <2>4
<1> QED
  BY <1>2, <1>3 DEF SetupWrites

(* A new controller has the API server's objects, and nothing in hand.      *)
LEMMA RestartKeepsInv ==
  ASSUME StatusInv, Restart
  PROVE  StatusInv'
<1>1. /\ UNCHANGED api /\ cache' = api
      /\ latest' \in [Object -> SUBSET Holder]
      /\ \A y \in Object : latest'[y] = {"cache"}
      /\ work' = [k \in Kind |-> Idle]
  BY DEF Restart, Holder
<1>2. ObjectsAreRecorded'
  BY <1>1 DEF StatusInv, ObjectsAreRecorded, Recorded
<1>3. CachesHoldIt'
  BY <1>1 DEF CachesHoldIt
<1>4. ReconcilersHoldIt' /\ SetupHoldsIt'
  BY <1>1, KindsAreHolders DEF ReconcilersHoldIt, SetupHoldsIt
<1> QED
  BY <1>2, <1>3, <1>4 DEF StatusInv

--------------------------------------------------------------------------------
(* The invariant, and what it is for.                                       *)

LEMMA StatusInit == Init => StatusInv /\ HandsHoldObjects
<1> SUFFICES ASSUME Init
             PROVE  StatusInv /\ HandsHoldObjects
  OBVIOUS
<1>1. DOMAIN api = {} /\ DOMAIN cache = {}
  BY DEF Init
<1>2. latest \in [Object -> SUBSET Holder] /\ \A x \in Object : latest[x] = {"cache"}
  BY DEF Init, Holder
<1>3. work = [k \in Kind |-> Idle] /\ setup = Idle
  BY DEF Init
<1>4. ObjectsAreRecorded
  BY <1>1, <1>2, <1>3 DEF ObjectsAreRecorded
<1>5. CachesHoldIt
  BY <1>1 DEF CachesHoldIt
<1>6. ReconcilersHoldIt /\ SetupHoldsIt
  BY <1>2, KindsAreHolders DEF ReconcilersHoldIt, SetupHoldsIt
<1> QED
  BY <1>3, <1>4, <1>5, <1>6 DEF StatusInv, HandsHoldObjects

LEMMA StatusStep == StatusInv /\ HandsHoldObjects /\ [Next]_vars => StatusInv'
<1> SUFFICES ASSUME StatusInv, HandsHoldObjects, [Next]_vars
             PROVE  StatusInv'
  OBVIOUS
<1>1. CASE \E x \in Object : ApplySpec(x) \/ DeleteObject(x) \/ ObjectArrives(x) \/ Reconcile(x)
  BY <1>1, ApplyKeepsInv, DeleteKeepsInv, ArrivalKeepsInv, ReconcileKeepsInv
<1>2. CASE GetMembers \/ SetupWrites \/ Restart \/ \E k \in Kind : UpdateStatus(k)
  BY <1>2, GetMembersKeepsInv, SetupWriteKeepsInv, RestartKeepsInv, UpdateKeepsInv
<1>3. CASE \E g \in Group : SetupReads(g)
  BY <1>3, SetupReadKeepsInv DEF Object
<1>4. CASE UNCHANGED <<objects, work, setup>>
  BY <1>4, QuietKeepsInv
<1> QED
  BY <1>1, <1>2, <1>3, <1>4
     DEF Next, ReconcileDeleted, ChangeMembers, MembersArrive, Resync, otherVars, vars

(* Every copy that can still be written, in a cache, a worker or Matrix     *)
(* setup, is of the API server's own version.                               *)
THEOREM StatusInvariant == Spec => []StatusInv
<1>1. StatusInv /\ HandsHoldObjects /\ [Next]_vars => (StatusInv /\ HandsHoldObjects)'
  BY StatusStep, HandsStep
<1> QED
  BY <1>1, StatusInit, PTL DEF Spec

(* A step keeps what a status says of the past.                             *)
LEMMA StatusesFollow ==
  ASSUME StatusInv, HandsHoldObjects, [Next]_vars,
         NEW x \in DOMAIN api \intersect DOMAIN api'
  PROVE  Follows(x)
<1>1. Recorded(api[x]) /\ x \in Object
  BY DEF StatusInv, ObjectsAreRecorded
<1>2. CASE api'[x] = api[x] \/ api'[x].status = api[x].status
  BY <1>1, <1>2 DEF Follows, Recorded
<1>3. ASSUME NEW y \in Object, ApplySpec(y)
      PROVE  Follows(x)
  <2>1. CASE x = y
    <3>1. PICK s : Write(x, [api[x] EXCEPT !.spec = s, !.gen = @ + 1])
      BY <1>3, <2>1 DEF ApplySpec, Exists
    <3>2. api'[x] = [api[x] EXCEPT !.spec = s, !.gen = @ + 1]
      BY <1>1, <3>1 DEF Write, Put
    <3>3. api'[x].status = api[x].status
      BY <1>1, <3>2 DEF Recorded
    <3> QED
      BY <1>2, <3>3
  <2>2. CASE x # y
    BY <1>2, <1>3, <2>2 DEF ApplySpec, Write, Put
  <2> QED
    BY <2>1, <2>2
<1>4. ASSUME NEW y \in Object, DeleteObject(y)
      PROVE  Follows(x)
  BY <1>2, <1>4 DEF DeleteObject, Without
<1>5. ASSUME NEW k \in Kind, UpdateStatus(k)
      PROVE  Follows(x)
  BY <1>2, <1>5, UpdateKeepsInv
<1>6. CASE SetupWrites
  BY <1>2, <1>6, SetupWriteKeepsInv
<1> QED
  BY <1>2, <1>3, <1>4, <1>5, <1>6
     DEF Next, ObjectArrives, Reconcile, ReconcileDeleted, ChangeMembers, MembersArrive, Resync,
         GetMembers, SetupReads, Restart, objects, otherVars, workerVars, vars

(* Reconcilers and Matrix setup write whole statuses over each other's, and *)
(* neither a generation goes back nor the Matrix user of a Group is lost.   *)
THEOREM WritersUndoNothing == Spec => NothingIsUndone
<1>1. StatusInv /\ HandsHoldObjects /\ [Next]_vars => (StatusInv /\ HandsHoldObjects)'
  BY StatusStep, HandsStep
<1>2. StatusInv /\ HandsHoldObjects /\ [Next]_vars =>
        [\A x \in DOMAIN api \intersect DOMAIN api' :
           /\ api'[x].status.applied >= api[x].status.applied
           /\ api[x].status.mxid => api'[x].status.mxid]_vars
  BY StatusesFollow DEF Follows
<1> QED
  BY <1>1, <1>2, StatusInit, PTL DEF Spec, NothingIsUndone

--------------------------------------------------------------------------------
(* What a reconciler computes.                                              *)

LEMMA HeadsType ==
  ASSUME NEW gs, GroupsOK(gs), NEW who \in Target
  PROVE  Heads(gs, who) \in Nat /\ (who \in Member => Heads(gs, who) = 1)
<1>1. CASE who \in Member
  BY <1>1 DEF Heads
<1>2. CASE who \notin Member
  <2>1. who \in Group
    BY <1>2 DEF Target
  <2>2. ExpandGroup(gs, who) \in Seq(GroupItem)
    BY <2>1, ExpansionFinds
  <2> QED
    BY <1>2, <2>2, LenProperties DEF Heads
<1> QED
  BY <1>1, <1>2

LEMMA HeadcountRecursion ==
  ASSUME NEW gs, GroupsOK(gs), NEW p \in Seq(Target)
  PROVE  \E f : /\ f \in [0 .. Len(p) -> Nat] /\ f[0] = 0
                /\ \A n \in 1 .. Len(p) : f[n] = f[n - 1] + Heads(gs, p[n])
                /\ Headcount(gs, p) = f[Len(p)]
<1> DEFINE N == Len(p)
           F == [x \in Nat \X (1 .. N) |-> x[1] + Heads(gs, p[x[2]])]
           Eq(h) == h = [n \in 0 .. N |-> IF n = 0 THEN 0 ELSE h[n - 1] + Heads(gs, p[n])]
           counted == CHOOSE h : Eq(h)
<1>1. N \in Nat /\ \A n \in 1 .. N : n - 1 \in 0 .. N /\ Heads(gs, p[n]) \in Nat
  <2>1. N \in Nat /\ \A n \in 1 .. N : p[n] \in Target
    BY LenProperties, ElementOfSeq
  <2> HIDE DEF N
  <2> QED
    BY <2>1, HeadsType
<1>2. F \in [Nat \X (1 .. N) -> Nat]
  <2> HIDE DEF N
  <2>1. \A x \in Nat \X (1 .. N) : x[1] + Heads(gs, p[x[2]]) \in Nat
    BY <1>1
  <2> QED
    BY <2>1
<1>3. PICK f : Walks(N, Nat, 0, F, f)
  <2> HIDE DEF N, F
  <2>1. 0 \in Nat /\ N \in Nat
    BY <1>1
  <2> QED
    BY <1>2, <2>1, RecursionOnNat, Zenon
<1>4. f \in [0 .. N -> Nat] /\ f[0] = 0 /\ \A n \in 1 .. N : f[n] = F[<<f[n - 1], n>>]
  <2> HIDE DEF N, F
  <2> QED
    BY <1>3 DEF Walks
<1>5. ASSUME NEW n \in 1 .. N PROVE f[n] = f[n - 1] + Heads(gs, p[n])
  <2>1. <<f[n - 1], n>> \in Nat \X (1 .. N)
    BY <1>1, <1>4
  <2> QED
    BY <1>4, <2>1
<1> HIDE DEF F
<1>6. Eq(f)
  <2>1. \A n \in 0 .. N : f[n] = IF n = 0 THEN 0 ELSE f[n - 1] + Heads(gs, p[n])
    BY <1>1, <1>4, <1>5
  <2> QED
    BY <1>4, <2>1
<1>7. Eq(counted)
  <2> HIDE DEF Eq
  <2> QED
    BY <1>6
<1>8. Headcount(gs, p) = counted[N]
  BY Zenon DEF Headcount
<1> HIDE DEF counted
<1>9. counted[0] = 0 /\ \A n \in 1 .. N : counted[n] = counted[n - 1] + Heads(gs, p[n])
  <2>1. \A n \in 0 .. N : counted[n] = IF n = 0 THEN 0 ELSE counted[n - 1] + Heads(gs, p[n])
    BY <1>7
  <2> QED
    BY <1>1, <2>1
<1>10. StepAlike(N, f, counted)
  BY <1>4, <1>5, <1>9 DEF StepAlike
<1>11. \A n \in 0 .. N : f[n] = counted[n]
  BY <1>1, <1>10, SameOnNat
<1>12. Headcount(gs, p) = f[N]
  BY <1>1, <1>8, <1>11
<1> QED
  BY <1>4, <1>5, <1>12

(* A Collaboration's count has a head for each place of a Member.           *)
LEMMA HeadcountCounts ==
  ASSUME NEW gs, GroupsOK(gs), NEW p \in Seq(Target)
  PROVE  /\ Headcount(gs, p) \in Nat
         /\ Headcount(gs, p) >= Cardinality({i \in DOMAIN p : p[i] \in Member})
<1>1. PICK f : /\ f \in [0 .. Len(p) -> Nat] /\ f[0] = 0
               /\ \A n \in 1 .. Len(p) : f[n] = f[n - 1] + Heads(gs, p[n])
               /\ Headcount(gs, p) = f[Len(p)]
  BY HeadcountRecursion
<1> DEFINE C(n) == {i \in 1 .. n : p[i] \in Member}
           S == {n \in Nat : n <= Len(p) =>
                   IsFiniteSet(C(n)) /\ f[n] \in Nat /\ f[n] >= Cardinality(C(n))}
<1>2. Len(p) \in Nat /\ DOMAIN p = 1 .. Len(p) /\ \A n \in 1 .. Len(p) : p[n] \in Target
  BY LenProperties, ElementOfSeq
<1>3. 0 \in S
  <2>1. C(0) = {}
    OBVIOUS
  <2>2. IsFiniteSet(C(0)) /\ Cardinality(C(0)) = 0
    <3> HIDE DEF C
    <3> QED
      BY <2>1, FS_EmptySet
  <2>3. f[0] = 0
    BY <1>1
  <2> HIDE DEF C
  <2> QED
    BY <2>2, <2>3
<1>4. ASSUME NEW n \in Nat, n \in S PROVE n + 1 \in S
  <2> SUFFICES ASSUME n + 1 <= Len(p)
               PROVE  /\ IsFiniteSet(C(n + 1)) /\ f[n + 1] \in Nat
                      /\ f[n + 1] >= Cardinality(C(n + 1))
    OBVIOUS
  <2>1. n + 1 \in 1 .. Len(p) /\ (n + 1) - 1 = n /\ n <= Len(p)
    BY <1>2
  <2>2. /\ f[n + 1] = f[n] + Heads(gs, p[n + 1])
        /\ Heads(gs, p[n + 1]) \in Nat /\ (p[n + 1] \in Member => Heads(gs, p[n + 1]) = 1)
    BY <1>1, <1>2, <2>1, HeadsType
  <2>3. IsFiniteSet(C(n)) /\ f[n] \in Nat /\ f[n] >= Cardinality(C(n)) /\ Cardinality(C(n)) \in Nat
    BY <1>4, <2>1, FS_CardinalityType
  <2>4. C(n + 1) = IF p[n + 1] \in Member THEN C(n) \union {n + 1} ELSE C(n)
    <3>1. 1 .. n + 1 = (1 .. n) \union {n + 1}
      OBVIOUS
    <3> QED
      BY <3>1
  <2>5. n + 1 \notin C(n)
    OBVIOUS
  <2> HIDE DEF C
  <2>6. IsFiniteSet(C(n) \union {n + 1}) /\ Cardinality(C(n) \union {n + 1}) = Cardinality(C(n)) + 1
    BY <2>3, <2>5, FS_AddElement
  <2> QED
    BY <2>2, <2>3, <2>4, <2>6
<1>5. Len(p) \in S
  <2> HIDE DEF S
  <2> QED
    BY <1>2, <1>3, <1>4, InductionOnNat
<1> HIDE DEF C
<1>6. f[Len(p)] \in Nat /\ f[Len(p)] >= Cardinality(C(Len(p)))
  BY <1>2, <1>5
<1> QED
  BY <1>1, <1>2, <1>6 DEF C

(* A Group that expands counts each Member of its own list.                 *)
LEMMA ExpansionCounts ==
  ASSUME NEW gs, GroupsOK(gs), NEW g \in DOMAIN gs, Expands(gs, g)
  PROVE  Len(ExpandGroup(gs, g)) >= Cardinality(DirectMembers(gs[g]))
<1> DEFINE list == ExpandGroup(gs, g)
<1>1. g \in Group
  BY DEF GroupsOK
<1>2. list \in Seq(GroupItem) /\ Names(list) = Found(gs, g) /\ Distinct(list)
  BY <1>1, ExpansionFinds
<1> HIDE DEF list
<1>3. IsFiniteSet(Names(list)) /\ Len(list) = Cardinality(Names(list))
  BY <1>2, DistinctLength
<1>4. DirectMembers(gs[g]) \subseteq Names(list)
  <2>1. g \in Below(gs, g) /\ Items(gs, g) = gs[g]
    BY <1>1, BelowClosed DEF Items
  <2> QED
    BY <1>2, <2>1 DEF Found, Lists, DirectMembers, Names
<1>5. /\ Cardinality(DirectMembers(gs[g])) <= Cardinality(Names(list))
      /\ IsFiniteSet(DirectMembers(gs[g]))
  BY <1>3, <1>4, FS_Subset
<1>6. Cardinality(DirectMembers(gs[g])) \in Nat /\ Cardinality(Names(list)) \in Nat
  BY <1>3, <1>5, FS_CardinalityType
<1>7. Len(list) >= Cardinality(DirectMembers(gs[g]))
  BY <1>3, <1>5, <1>6
<1> QED
  BY <1>7 DEF list

--------------------------------------------------------------------------------
(* Types.                                                                   *)

ObjectType(x, n) == [spec : Specs[x], gen : 1 .. n, status : Status]
MapOK(objs, n) ==
  /\ DOMAIN objs \subseteq Object /\ IsFiniteSet(DOMAIN objs)
  /\ \A x \in DOMAIN objs : objs[x] \in ObjectType(x, n)
WorkOK(k, w) == w = Idle \/ InHand(k, w)
HandOK(s) == s = Idle \/ s \in [name : Group, status : Status]

LEMMA TypesAre ==
  TypeOK <=> /\ MapOK(api, changes) /\ MapOK(cache, changes)
             /\ latest \in [Object -> SUBSET Holder]
             /\ members \subseteq Member /\ seen \subseteq Member /\ queue \subseteq Object
             /\ \A k \in Kind : WorkOK(k, work[k])
             /\ HandOK(setup)
             /\ changes \in 0 .. MaxChanges /\ faults \in 0 .. MaxFaults
BY DEF TypeOK, MapOK, ObjectType, WorkOK, HandOK

LEMMA TypesAreNext ==
  TypeOK' <=> /\ MapOK(api', changes') /\ MapOK(cache', changes')
              /\ latest' \in [Object -> SUBSET Holder]
              /\ members' \subseteq Member /\ seen' \subseteq Member /\ queue' \subseteq Object
              /\ \A k \in Kind : WorkOK(k, work'[k])
              /\ HandOK(setup')
              /\ changes' \in 0 .. MaxChanges /\ faults' \in 0 .. MaxFaults
BY DEF TypeOK, MapOK, ObjectType, WorkOK, HandOK, InHand

LEMMA PutKeepsMap ==
  ASSUME NEW objs, NEW n, MapOK(objs, n), NEW x \in Object, NEW copy \in ObjectType(x, n)
  PROVE  MapOK(Put(objs, x, copy), n)
<1> DEFINE new == Put(objs, x, copy)
<1>1. /\ DOMAIN new = DOMAIN objs \union {x}
      /\ \A y \in DOMAIN new : new[y] = IF y = x THEN copy ELSE objs[y]
  BY DEF Put
<1>2. IsFiniteSet(DOMAIN objs \union {x})
  BY FS_AddElement DEF MapOK
<1> HIDE DEF new
<1>3. MapOK(new, n)
  BY <1>1, <1>2 DEF MapOK
<1> QED
  BY <1>3 DEF new

LEMMA WithoutKeepsMap ==
  ASSUME NEW objs, NEW n, MapOK(objs, n), NEW x
  PROVE  MapOK(Without(objs, x), n)
<1>1. IsFiniteSet(DOMAIN objs \ {x})
  BY FS_Subset DEF MapOK
<1> QED
  BY <1>1 DEF MapOK, Without

LEMMA LaterMap ==
  ASSUME NEW objs, NEW n \in Nat, MapOK(objs, n)
  PROVE  MapOK(objs, n + 1)
<1>1. 1 .. n \subseteq 1 .. n + 1
  OBVIOUS
<1>2. \A x : ObjectType(x, n) \subseteq ObjectType(x, n + 1)
  BY <1>1 DEF ObjectType
<1> QED
  BY <1>2 DEF MapOK

LEMMA StatusTypes ==
  ASSUME NEW status \in Status, NEW n \in Nat
  PROVE  /\ Invalid(status) \in Status /\ Ready(status, n) \in Status
         /\ [status EXCEPT !.applied = n] \in Status /\ [status EXCEPT !.mxid = TRUE] \in Status
BY DEF Status, Invalid, Ready

LEMMA GroupsInOK ==
  ASSUME NEW objs, NEW n, MapOK(objs, n)
  PROVE  GroupsOK(GroupsIn(objs))
<1> DEFINE gs == GroupsIn(objs)
<1>1. DOMAIN gs = DOMAIN objs \intersect Group /\ \A g \in DOMAIN gs : gs[g] = objs[g].spec
  BY DEF GroupsIn
<1>2. IsFiniteSet(DOMAIN objs \intersect Group)
  BY FS_Subset DEF MapOK
<1>3. \A g \in DOMAIN objs \intersect Group : objs[g].spec \in Seq(GroupItem)
  BY SpecsAssumption DEF MapOK, ObjectType
<1> HIDE DEF gs
<1>4. GroupsOK(gs)
  BY <1>1, <1>2, <1>3 DEF GroupsOK
<1> QED
  BY <1>4 DEF gs

LEMMA KindIs ==
  ASSUME NEW x \in Object
  PROVE  /\ KindOf(x) = "group" <=> x \in Group
         /\ KindOf(x) = "collaboration" <=> x \in Collaboration
         /\ KindOf(x) = "policy" <=> x \in Policy
BY ObjectsAssumption DEF KindOf, Object, Target

LEMMA VerdictIs ==
  ASSUME NEW x \in Object, NEW spec, NEW status
  PROVE  /\ x \in Policy => (Verdict(x, spec, status) <=> (status.phase = "Ready" <=> spec # ""))
         /\ x \in Collaboration =>
              (Verdict(x, spec, status) <=>
                (status.phase = "Ready" =>
                   status.count >= Cardinality({i \in DOMAIN spec : spec[i] \in Member})))
         /\ x \in Group =>
              (Verdict(x, spec, status) <=>
                (status.phase = "Ready" => status.count >= Cardinality(DirectMembers(spec))))
<1>1. /\ x \in Collaboration => x \notin Policy
      /\ x \in Group => x \notin Policy /\ x \notin Collaboration
  BY ObjectsAssumption DEF Target
<1>2. CASE x \in Policy
  BY <1>1, <1>2 DEF Verdict
<1>3. CASE x \in Collaboration
  BY <1>1, <1>3 DEF Verdict
<1>4. CASE x \in Group
  BY <1>1, <1>4 DEF Verdict
<1> QED
  BY <1>2, <1>3, <1>4

(* What each reconciler computes of an object is typed, and right for its   *)
(* spec.                                                                    *)
LEMMA GroupComputed ==
  ASSUME TypeOK, NEW g \in Group, g \in DOMAIN cache, NEW status \in Status
  PROVE  LET w == ExpandCached(g, status) IN
         InHand("group", w) /\ JudgesIt(g, w, cache[g].spec)
<1> DEFINE gs == GroupsIn(cache)
           count == Len(ExpandGroup(gs, g))
<1>1. MapOK(cache, changes) /\ g \in Object
  BY TypesAre DEF Object
<1>2. GroupsOK(gs)
  BY <1>1, GroupsInOK
<1>3. g \in DOMAIN gs /\ gs[g] = cache[g].spec
  BY DEF GroupsIn
<1>4. cache[g].spec \in Seq(GroupItem)
  BY <1>2, <1>3 DEF GroupsOK
<1>5. KindOf(g) = "group"
  BY <1>1, KindIs
<1>6. CASE Expands(gs, g)
  <2> DEFINE w == [step |-> "members", name |-> g, status |-> status,
                   spec |-> cache[g].spec, count |-> count]
  <2>1. ExpandCached(g, status) = w
    BY <1>6 DEF ExpandCached
  <2>2. count \in Nat
    <3>1. ExpandGroup(gs, g) \in Seq(GroupItem)
      BY <1>2, ExpansionFinds
    <3> QED
      BY <3>1, LenProperties
  <2>3. count >= Cardinality(DirectMembers(cache[g].spec))
    BY <1>2, <1>3, <1>6, ExpansionCounts
  <2> HIDE DEF count
  <2>4. InHand("group", w)
    BY <1>4, <1>5, <2>2 DEF InHand
  <2>5. JudgesIt(g, w, cache[g].spec)
    BY <2>3 DEF JudgesIt
  <2> QED
    BY <2>1, <2>4, <2>5
<1>7. CASE ~Expands(gs, g)
  <2> DEFINE w == [step |-> "update", name |-> g, status |-> Invalid(status)]
  <2>1. ExpandCached(g, status) = w
    BY <1>7 DEF ExpandCached
  <2>2. InHand("group", w)
    BY <1>1, <1>5, StatusTypes DEF InHand
  <2>3. Invalid(status).phase # "Ready"
    BY DEF Invalid, Status
  <2>4. JudgesIt(g, w, cache[g].spec)
    BY <1>1, <2>3, VerdictIs DEF JudgesIt
  <2> QED
    BY <2>1, <2>2, <2>4
<1> QED
  BY <1>6, <1>7

LEMMA CollaborationComputed ==
  ASSUME TypeOK, NEW c \in Collaboration, c \in DOMAIN cache, NEW status \in Status
  PROVE  LET verdict == JudgeCollaboration(cache[c].spec, status) IN
         verdict \in Status /\ Verdict(c, cache[c].spec, verdict)
<1> DEFINE gs == GroupsIn(cache)
           p == cache[c].spec
           verdict == JudgeCollaboration(p, status)
<1>1. MapOK(cache, changes) /\ c \in Object
  BY TypesAre DEF Object
<1>2. p \in Seq(Target)
  BY <1>1, SpecsAssumption DEF MapOK, ObjectType
<1>3. GroupsOK(gs)
  BY <1>1, GroupsInOK
<1>4. /\ Headcount(gs, p) \in Nat
      /\ Headcount(gs, p) >= Cardinality({i \in DOMAIN p : p[i] \in Member})
  BY <1>2, <1>3, HeadcountCounts
<1>5. verdict = Invalid(status) \/ verdict = Ready(status, Headcount(gs, p))
  BY DEF JudgeCollaboration
<1> HIDE DEF p, verdict, gs
<1>6. verdict \in Status
  BY <1>4, <1>5, StatusTypes
<1>7. Invalid(status).phase # "Ready" /\ Ready(status, Headcount(gs, p)).count = Headcount(gs, p)
  BY DEF Invalid, Ready, Status
<1>8. Verdict(c, p, verdict)
  BY <1>1, <1>4, <1>5, <1>7, VerdictIs
<1> QED
  BY <1>6, <1>8 DEF verdict, p

LEMMA PolicyComputed ==
  ASSUME NEW p \in Policy, NEW effect, NEW status \in Status
  PROVE  LET verdict == JudgePolicy(effect, status) IN
         verdict \in Status /\ Verdict(p, effect, verdict)
<1>1. p \in Object
  BY DEF Object
<1>2. Invalid(status).phase = "Invalid" /\ Ready(status, 0).phase = "Ready"
  BY DEF Invalid, Ready, Status
<1>3. JudgePolicy(effect, status) \in Status
  BY StatusTypes DEF JudgePolicy
<1>4. JudgePolicy(effect, status).phase = "Ready" <=> effect # ""
  BY <1>2 DEF JudgePolicy
<1> QED
  BY <1>1, <1>3, <1>4, VerdictIs

LEMMA ReconcileComputes ==
  ASSUME TypeOK, NEW x \in Object, Reconcile(x)
  PROVE  \E w : /\ work' = [work EXCEPT ![KindOf(x)] = w]
                /\ InHand(KindOf(x), w) /\ JudgesIt(x, w, cache[x].spec)
<1> DEFINE obj == cache[x]
           status == [obj.status EXCEPT !.applied = obj.gen]
           found == [status EXCEPT !.mxid = TRUE]
           updates(st) == [step |-> "update", name |-> x, status |-> st]
<1>1. x \in DOMAIN cache /\ obj \in ObjectType(x, changes) /\ changes \in Nat
  BY TypesAre DEF Reconcile, MapOK
<1>2. status \in Status /\ found \in Status
  <2>1. obj.status \in Status /\ obj.gen \in Nat
    BY <1>1 DEF ObjectType
  <2>2. status \in Status
    BY <2>1, StatusTypes
  <2> QED
    BY <2>2, StatusTypes
<1> HIDE DEF status, found
<1>3. ASSUME NEW st \in Status, Verdict(x, obj.spec, st)
      PROVE  InHand(KindOf(x), updates(st)) /\ JudgesIt(x, updates(st), obj.spec)
  BY <1>3 DEF InHand, JudgesIt
<1>4. CASE KindOf(x) = "group"
  <2>1. x \in Group
    BY <1>4, KindIs
  <2>2. PICK w \in {ExpandCached(x, status), ExpandCached(x, found)} : work' = [work EXCEPT ![KindOf(x)] = w]
    BY <1>4 DEF Reconcile, status, found
  <2>3. InHand("group", w) /\ JudgesIt(x, w, cache[x].spec)
    BY <1>1, <1>2, <2>1, <2>2, GroupComputed
  <2> QED
    BY <1>4, <2>2, <2>3
<1>5. CASE KindOf(x) = "collaboration"
  <2>1. x \in Collaboration
    BY <1>5, KindIs
  <2>2. work' = [work EXCEPT ![KindOf(x)] = updates(JudgeCollaboration(obj.spec, status))]
    BY <1>5 DEF Reconcile, status
  <2>3. /\ JudgeCollaboration(obj.spec, status) \in Status
        /\ Verdict(x, obj.spec, JudgeCollaboration(obj.spec, status))
    BY <1>1, <1>2, <2>1, CollaborationComputed
  <2> QED
    BY <1>3, <2>2, <2>3
<1>6. CASE KindOf(x) = "policy"
  <2>1. x \in Policy
    BY <1>6, KindIs
  <2>2. work' = [work EXCEPT ![KindOf(x)] = updates(JudgePolicy(obj.spec, status))]
    BY <1>6 DEF Reconcile, status
  <2>3. JudgePolicy(obj.spec, status) \in Status /\ Verdict(x, obj.spec, JudgePolicy(obj.spec, status))
    BY <1>2, <2>1, PolicyComputed
  <2> QED
    BY <1>3, <2>2, <2>3
<1> QED
  BY <1>4, <1>5, <1>6 DEF KindOf

LEMMA CountersStep ==
  ASSUME changes \in 0 .. MaxChanges, faults \in 0 .. MaxFaults, [Next]_vars
  PROVE  /\ changes' \in 0 .. MaxChanges /\ faults' \in 0 .. MaxFaults
         /\ changes \in Nat /\ (changes' = changes \/ changes' = changes + 1)
<1>1. MaxChanges \in Nat /\ MaxFaults \in Nat /\ changes \in Nat
  BY BoundsAssumption
<1>2. (Change => changes' \in 0 .. MaxChanges /\ changes' = changes + 1)
      /\ (Fault => faults' \in 0 .. MaxFaults)
  BY <1>1 DEF Change, Fault
<1>3. /\ Change \/ changes' = changes
      /\ Fault \/ faults' = faults
  BY DEF Next, ApplySpec, DeleteObject, ChangeMembers, ObjectArrives, MembersArrive, Resync, Reconcile,
         ReconcileDeleted, GetMembers, UpdateStatus, SetupReads, SetupWrites, Restart, NoFault,
         objects, otherVars, workerVars, vars
<1> QED
  BY <1>1, <1>2, <1>3

(* A worker's record is an update or a lookup of Members.                   *)
LEMMA HandIs ==
  ASSUME NEW k, NEW w, WorkOK(k, w), w # Idle
  PROVE  /\ w.name \in Object /\ KindOf(w.name) = k /\ w.status \in Status
         /\ w.step = "members" => w.name \in Group /\ w.count \in Nat
BY DEF WorkOK, InHand, Object

LEMMA WorkStep ==
  ASSUME StatusInv, TypeOK, [Next]_vars, NEW k \in Kind
  PROVE  WorkOK(k, work'[k])
<1>1. work = [j \in Kind |-> work[j]] /\ \A j \in Kind : WorkOK(j, work[j])
  BY TypesAre DEF StatusInv, ObjectsAreRecorded
<1>2. ASSUME NEW j \in Kind, NEW w, WorkOK(j, w), work' = [work EXCEPT ![j] = w]
      PROVE  WorkOK(k, work'[k])
  BY <1>1, <1>2
<1>3. CASE UNCHANGED work
  BY <1>1, <1>3
<1>4. ASSUME NEW x \in Object, Reconcile(x)
      PROVE  WorkOK(k, work'[k])
  <2>1. PICK w : work' = [work EXCEPT ![KindOf(x)] = w] /\ InHand(KindOf(x), w)
    BY <1>4, ReconcileComputes
  <2> QED
    BY <1>2, <2>1, KindsAreHolders DEF WorkOK
<1>5. CASE GetMembers
  <2> DEFINE w == work["group"]
  <2>1. PICK status : /\ status \in {Ready(w.status, w.count), Invalid(w.status)}
                      /\ work' = [work EXCEPT !["group"] = [step |-> "update", name |-> w.name, status |-> status]]
    BY <1>5 DEF GetMembers
  <2>2. "group" \in Kind /\ w # Idle /\ w.step = "members"
    BY <1>5 DEF GetMembers, Kind
  <2>3. w.name \in Object /\ KindOf(w.name) = "group" /\ w.status \in Status /\ w.count \in Nat
    BY <1>1, <2>2, HandIs
  <2>4. status \in Status
    BY <2>1, <2>3, StatusTypes
  <2>5. WorkOK("group", [step |-> "update", name |-> w.name, status |-> status])
    BY <2>3, <2>4 DEF WorkOK, InHand
  <2> QED
    BY <1>2, <2>1, <2>2, <2>5
<1>6. ASSUME NEW j \in Kind, UpdateStatus(j)
      PROVE  WorkOK(k, work'[k])
  BY <1>2, <1>6 DEF UpdateStatus, Done, WorkOK
<1>7. CASE Restart
  BY <1>7 DEF Restart, WorkOK
<1> QED
  BY <1>3, <1>4, <1>5, <1>6, <1>7
     DEF Next, ApplySpec, DeleteObject, ObjectArrives, ReconcileDeleted, ChangeMembers,
         MembersArrive, Resync, SetupReads, SetupWrites, otherVars, workerVars, vars

LEMMA SetupStep ==
  ASSUME TypeOK, [Next]_vars
  PROVE  HandOK(setup')
<1>1. HandOK(setup) /\ MapOK(cache, changes)
  BY TypesAre
<1>2. CASE UNCHANGED setup
  BY <1>1, <1>2
<1>3. ASSUME NEW g \in Group, SetupReads(g)
      PROVE  HandOK(setup')
  <2>1. cache[g].status \in Status
    BY <1>1, <1>3 DEF SetupReads, MapOK, ObjectType
  <2>2. [cache[g].status EXCEPT !.mxid = TRUE] \in Status
    BY <2>1 DEF Status
  <2> QED
    BY <1>3, <2>2 DEF SetupReads, HandOK
<1>4. CASE SetupWrites \/ Restart
  BY <1>4 DEF SetupWrites, Restart, HandOK
<1> QED
  BY <1>2, <1>3, <1>4
     DEF Next, ApplySpec, DeleteObject, ObjectArrives, Reconcile, ReconcileDeleted, ChangeMembers,
         MembersArrive, Resync, GetMembers, UpdateStatus, otherVars, vars

LEMMA ApiStep ==
  ASSUME StatusInv, TypeOK, [Next]_vars
  PROVE  MapOK(api', changes')
<1>1. /\ MapOK(api, changes) /\ changes \in Nat
      /\ \A k \in Kind : WorkOK(k, work[k])
      /\ HandOK(setup)
  BY TypesAre
<1>2. changes' = changes \/ changes' = changes + 1
  BY TypesAre, CountersStep
<1>3. CASE UNCHANGED api
  BY <1>1, <1>2, <1>3, LaterMap
<1>4. ASSUME NEW x \in Object, NEW s \in Specs[x], x \in DOMAIN api, changes' = changes + 1,
             Write(x, [api[x] EXCEPT !.spec = s, !.gen = @ + 1])
      PROVE  MapOK(api', changes')
  <2>1. api[x] \in ObjectType(x, changes)
    BY <1>1, <1>4 DEF MapOK
  <2>2. api[x].gen \in 1 .. changes
    BY <2>1 DEF ObjectType
  <2>3. api[x].gen + 1 \in 1 .. changes + 1
    BY <1>1, <2>2
  <2>4. [api[x] EXCEPT !.spec = s, !.gen = @ + 1] \in ObjectType(x, changes + 1)
    BY <2>1, <2>3 DEF ObjectType
  <2> QED
    BY <1>1, <1>4, <2>4, LaterMap, PutKeepsMap DEF Write
<1>5. ASSUME NEW x \in Object, NEW s \in Specs[x], changes' = changes + 1,
             Write(x, [spec |-> s, gen |-> 1, status |-> NoStatus])
      PROVE  MapOK(api', changes')
  <2>1. 1 \in 1 .. changes + 1 /\ NoStatus \in Status
    BY <1>1 DEF NoStatus, Status
  <2>2. [spec |-> s, gen |-> 1, status |-> NoStatus] \in ObjectType(x, changes + 1)
    BY <2>1 DEF ObjectType
  <2> QED
    BY <1>1, <1>5, <2>2, LaterMap, PutKeepsMap DEF Write
<1>6. ASSUME NEW x \in Object, x \in DOMAIN api, NEW status \in Status, changes' = changes,
             Write(x, [api[x] EXCEPT !.status = status])
      PROVE  MapOK(api', changes')
  <2>1. [api[x] EXCEPT !.status = status] \in ObjectType(x, changes)
    BY <1>1, <1>6 DEF MapOK, ObjectType
  <2> QED
    BY <1>1, <1>6, <2>1, PutKeepsMap DEF Write
<1>7. ASSUME NEW x \in Object, ApplySpec(x)
      PROVE  MapOK(api', changes')
  BY <1>4, <1>5, <1>7 DEF ApplySpec, Change, Exists
<1>8. ASSUME NEW x \in Object, DeleteObject(x)
      PROVE  MapOK(api', changes')
  BY <1>1, <1>8, LaterMap, WithoutKeepsMap DEF DeleteObject, Change
<1>9. ASSUME NEW k \in Kind, UpdateStatus(k)
      PROVE  MapOK(api', changes')
  <2>1. work[k].name \in Object /\ work[k].status \in Status /\ changes' = changes
    BY <1>1, <1>9, HandIs DEF UpdateStatus, otherVars
  <2>2. k \in latest[work[k].name] => work[k].name \in DOMAIN api
    BY <2>1 DEF StatusInv, ReconcilersHoldIt
  <2> QED
    BY <1>3, <1>6, <1>9, <2>1, <2>2 DEF UpdateStatus, Unwritten
<1>10. CASE SetupWrites
  <2>1. setup.name \in Object /\ setup.status \in Status /\ changes' = changes
    BY <1>1, <1>10 DEF SetupWrites, HandOK, workerVars, Object
  <2>2. "setup" \in latest[setup.name] => setup.name \in DOMAIN api
    BY <2>1 DEF StatusInv, SetupHoldsIt
  <2> QED
    BY <1>3, <1>6, <1>10, <2>1, <2>2 DEF SetupWrites, Unwritten
<1> QED
  BY <1>3, <1>7, <1>8, <1>9, <1>10
     DEF Next, ObjectArrives, Reconcile, ReconcileDeleted, ChangeMembers, MembersArrive, Resync,
         GetMembers, SetupReads, Restart, objects, otherVars, workerVars, vars

LEMMA CacheStep ==
  ASSUME TypeOK, [Next]_vars
  PROVE  MapOK(cache', changes') /\ queue' \subseteq Object
         /\ members' \subseteq Member /\ seen' \subseteq Member
<1>1. /\ MapOK(api, changes) /\ MapOK(cache, changes) /\ changes \in Nat
      /\ members \subseteq Member /\ seen \subseteq Member /\ queue \subseteq Object
      /\ DOMAIN api \subseteq Object /\ DOMAIN cache \subseteq Object
  BY TypesAre DEF MapOK
<1>2. changes' = changes \/ changes' = changes + 1
  BY TypesAre, CountersStep
<1>3. MapOK(cache', changes')
  <2>1. CASE UNCHANGED cache
    BY <1>1, <1>2, <2>1, LaterMap
  <2>2. ASSUME NEW x \in Object, ObjectArrives(x) PROVE MapOK(cache', changes')
    <3>1. changes' = changes
      BY <2>2 DEF ObjectArrives
    <3>2. CASE x \in DOMAIN api
      <4>1. api[x] \in ObjectType(x, changes) /\ cache' = Put(cache, x, api[x])
        BY <1>1, <2>2, <3>2 DEF MapOK, ObjectArrives, Exists
      <4> QED
        BY <1>1, <3>1, <4>1, PutKeepsMap
    <3>3. CASE x \notin DOMAIN api
      BY <1>1, <2>2, <3>1, <3>3, WithoutKeepsMap DEF ObjectArrives, Exists
    <3> QED
      BY <3>2, <3>3
  <2>3. CASE Restart
    BY <1>1, <2>3 DEF Restart
  <2> QED
    BY <2>1, <2>2, <2>3
       DEF Next, ApplySpec, DeleteObject, Reconcile, ReconcileDeleted, ChangeMembers,
           MembersArrive, Resync, GetMembers, UpdateStatus, SetupReads, SetupWrites,
           objects, otherVars, workerVars, vars
<1>4. queue' \subseteq Object
  <2>1. ASSUME NEW k \in Kind, UpdateStatus(k) PROVE queue' \subseteq Object
    <3>1. work[k].name \in Object
      BY <2>1, TypesAre, HandIs DEF UpdateStatus
    <3> QED
      BY <1>1, <2>1, <3>1 DEF UpdateStatus, Requeue
  <2> QED
    BY <1>1, <2>1
       DEF Next, ApplySpec, DeleteObject, ObjectArrives, Reconcile, ReconcileDeleted, ChangeMembers,
           MembersArrive, Resync, GetMembers, SetupReads, SetupWrites, Restart,
           objects, otherVars, workerVars, vars
<1>5. members' \subseteq Member /\ seen' \subseteq Member
  BY <1>1
     DEF Next, ApplySpec, DeleteObject, ObjectArrives, Reconcile, ReconcileDeleted, ChangeMembers,
         MembersArrive, Resync, GetMembers, UpdateStatus, SetupReads, SetupWrites, Restart,
         objects, otherVars, workerVars, vars
<1> QED
  BY <1>3, <1>4, <1>5

LEMMA TypeInit == Init => TypeOK
<1> SUFFICES ASSUME Init PROVE TypeOK
  OBVIOUS
<1>1. DOMAIN api = {} /\ DOMAIN cache = {}
  BY DEF Init
<1>2. MapOK(api, changes) /\ MapOK(cache, changes)
  BY <1>1, FS_EmptySet DEF MapOK
<1>3. latest \in [Object -> SUBSET Holder]
  BY DEF Init, Holder
<1>4. \A k \in Kind : WorkOK(k, work[k])
  BY DEF Init, WorkOK
<1>5. changes \in 0 .. MaxChanges /\ faults \in 0 .. MaxFaults
  BY BoundsAssumption DEF Init
<1> QED
  BY <1>2, <1>3, <1>4, <1>5, TypesAre DEF Init, HandOK

LEMMA TypeStep == StatusInv /\ HandsHoldObjects /\ TypeOK /\ [Next]_vars => TypeOK'
<1> SUFFICES ASSUME StatusInv, HandsHoldObjects, TypeOK, [Next]_vars PROVE TypeOK'
  OBVIOUS
<1>1. latest' \in [Object -> SUBSET Holder]
  BY StatusStep DEF StatusInv, ObjectsAreRecorded
<1>2. changes' \in 0 .. MaxChanges /\ faults' \in 0 .. MaxFaults
  BY TypesAre, CountersStep
<1> QED
  BY <1>1, <1>2, WorkStep, SetupStep, ApiStep, CacheStep, TypesAreNext

(* Every object, cached copy, worker and queue is what the controller's own *)
(* types allow, and no configuration version is ahead of the user's changes.*)
THEOREM StatusTypeInvariant == Spec => []TypeOK
<1>1. StatusInv /\ HandsHoldObjects /\ TypeOK /\ [Next]_vars => (StatusInv /\ HandsHoldObjects /\ TypeOK)'
  BY StatusStep, HandsStep, TypeStep
<1> QED
  BY <1>1, StatusInit, TypeInit, PTL DEF Spec

--------------------------------------------------------------------------------
(* Verdicts.                                                                *)

(* What a step has to show: what it writes is judged, and who holds the new *)
(* version held the spec it has, or has judged it now.                      *)
LEMMA VerdictsCarry ==
  ASSUME VerdictsInv,
         \A y \in DOMAIN api' : (y \in DOMAIN api /\ api'[y] = api[y]) \/ Judged(y, api'[y]),
         \A k \in Kind, y \in Object : k \in latest'[y] =>
           \/ k \in latest[y] /\ api'[y].spec = api[y].spec /\ work'[k] = work[k]
           \/ JudgesIt(y, work'[k], api'[y].spec)
  PROVE  VerdictsInv'
<1>1. /\ \A y \in DOMAIN api : Judged(y, api[y])
      /\ \A k \in Kind, y \in Object : k \in latest[y] => JudgesIt(y, work[k], api[y].spec)
  BY DEF VerdictsInv, VerdictsAreOfTheirVersion
<1>2. \A y \in DOMAIN api' : Judged(y, api'[y])
  BY <1>1
<1>3. \A k \in Kind, y \in Object : k \in latest'[y] => JudgesIt(y, work'[k], api'[y].spec)
  BY <1>1
<1> QED
  BY <1>2, <1>3 DEF VerdictsInv, VerdictsAreOfTheirVersion, Judged, JudgesIt

LEMMA VerdictsStay ==
  ASSUME VerdictsInv, UNCHANGED <<api, work>>,
         \A k \in Kind, y \in Object : k \in latest'[y] => k \in latest[y]
  PROVE  VerdictsInv'
BY VerdictsCarry

(* What is written of one object.                                           *)
LEMMA VerdictWritten ==
  ASSUME StatusInv, VerdictsInv, NEW x \in Object, NEW copy, Write(x, copy), Judged(x, copy),
         \A k \in Kind, y \in Object : y # x /\ k \in latest[y] => work'[k] = work[k]
  PROVE  VerdictsInv'
<1>1. latest \in [Object -> SUBSET Holder] /\ DOMAIN api \subseteq Object
  BY DEF StatusInv, ObjectsAreRecorded
<1>2. /\ DOMAIN api' = DOMAIN api \union {x} /\ api'[x] = copy
      /\ \A y \in DOMAIN api : y # x => api'[y] = api[y]
      /\ latest'[x] = {} /\ \A y \in Object : y # x => latest'[y] = latest[y]
  BY <1>1, WrittenObject
<1>3. \A k \in Kind, y \in Object : k \in latest[y] => y \in DOMAIN api
  BY DEF StatusInv, ReconcilersHoldIt
<1> QED
  BY <1>2, <1>3, VerdictsCarry

(* Its Matrix user is no part of a verdict.                                 *)
LEMMA VerdictOfOther ==
  ASSUME NEW x \in Object, NEW spec, NEW status \in Status, NEW other \in Status,
         other.phase = status.phase, other.count = status.count, Verdict(x, spec, status)
  PROVE  Verdict(x, spec, other)
BY VerdictIs DEF Object

LEMMA ApplyJudges ==
  ASSUME StatusInv, TypeOK, VerdictsInv, NEW x \in Object, ApplySpec(x)
  PROVE  VerdictsInv'
<1>1. UNCHANGED work
  BY DEF ApplySpec
<1>2. CASE x \in DOMAIN api
  <2>1. PICK s : Write(x, [api[x] EXCEPT !.spec = s, !.gen = @ + 1])
    BY <1>2 DEF ApplySpec, Exists
  <2> DEFINE copy == [api[x] EXCEPT !.spec = s, !.gen = @ + 1]
  <2>2. Recorded(api[x])
    BY <1>2 DEF StatusInv, ObjectsAreRecorded
  <2>3. copy.gen = api[x].gen + 1 /\ copy.status = api[x].status
    BY <2>2 DEF Recorded
  <2>4. copy.status.applied # copy.gen
    BY <2>2, <2>3 DEF Recorded
  <2>5. Judged(x, copy)
    BY <2>4 DEF Judged
  <2> QED
    BY <1>1, <2>1, <2>5, VerdictWritten
<1>3. CASE x \notin DOMAIN api
  <2>1. PICK s : Write(x, [spec |-> s, gen |-> 1, status |-> NoStatus])
    BY <1>3 DEF ApplySpec, Exists
  <2> DEFINE copy == [spec |-> s, gen |-> 1, status |-> NoStatus]
  <2>2. copy.status = NoStatus /\ copy.gen = 1 /\ NoStatus.applied = 0
    BY DEF NoStatus
  <2>3. Judged(x, copy)
    BY <2>2 DEF Judged
  <2> QED
    BY <1>1, <2>1, <2>3, VerdictWritten
<1> QED
  BY <1>2, <1>3

LEMMA DeleteJudges ==
  ASSUME StatusInv, VerdictsInv, NEW x \in Object, DeleteObject(x)
  PROVE  VerdictsInv'
<1>1. latest \in [Object -> SUBSET Holder]
  BY DEF StatusInv, ObjectsAreRecorded
<1>2. /\ latest'[x] = {} /\ \A y \in Object : y # x => latest'[y] = latest[y]
      /\ UNCHANGED work
  BY <1>1 DEF DeleteObject, NewVersion
<1>3. /\ DOMAIN api' = DOMAIN api \ {x}
      /\ \A y \in DOMAIN api' : api'[y] = api[y]
  BY DEF DeleteObject, Without
<1>4. \A k \in Kind, y \in Object : k \in latest[y] => y \in DOMAIN api
  BY DEF StatusInv, ReconcilersHoldIt
<1> QED
  BY <1>2, <1>3, <1>4, VerdictsCarry

(* A reconciler begins with nothing in hand. It holds the API server's      *)
(* version only if the cache does.                                          *)
LEMMA ReconcileJudges ==
  ASSUME StatusInv, TypeOK, VerdictsInv, NEW x \in Object, Reconcile(x)
  PROVE  VerdictsInv'
<1> DEFINE k == KindOf(x)
<1>1. PICK w : work' = [work EXCEPT ![k] = w] /\ JudgesIt(x, w, cache[x].spec)
  BY ReconcileComputes
<1>2. /\ work = [j \in Kind |-> work[j]] /\ latest \in [Object -> SUBSET Holder]
      /\ k \in Kind
  BY KindsAreHolders DEF StatusInv, ObjectsAreRecorded
<1>3. UNCHANGED api /\ work[k] = Idle /\ x \in DOMAIN cache /\ Read(x, k)
  BY DEF Reconcile
<1>4. \A y \in Object : k \notin latest[y]
  BY <1>2, <1>3 DEF StatusInv, ReconcilersHoldIt, Idle
<1>5. ASSUME NEW j \in Kind, NEW y \in Object, j \in latest'[y], j # k
      PROVE  j \in latest[y] /\ work'[j] = work[j]
  BY <1>1, <1>2, <1>3, <1>5 DEF Read
<1>6. ASSUME NEW y \in Object, k \in latest'[y]
      PROVE  JudgesIt(y, work'[k], api'[y].spec)
  <2>1. y = x /\ "cache" \in latest[x]
    BY <1>2, <1>3, <1>4, <1>6 DEF Read
  <2>2. cache[x] = api[x]
    BY <1>3, <2>1 DEF StatusInv, CachesHoldIt
  <2>3. work'[k] = w
    BY <1>1, <1>2
  <2> QED
    BY <1>1, <1>3, <2>1, <2>2, <2>3
<1> HIDE DEF k
<1> QED
  BY <1>3, <1>5, <1>6, VerdictsCarry

(* What GetMembers counts of a Group is at least what it lists itself.      *)
LEMMA GetMembersJudges ==
  ASSUME StatusInv, TypeOK, VerdictsInv, GetMembers
  PROVE  VerdictsInv'
<1> DEFINE w == work["group"]
           result(status) == [step |-> "update", name |-> w.name, status |-> status]
<1>1. PICK status : /\ status \in {Ready(w.status, w.count), Invalid(w.status)}
                    /\ work' = [work EXCEPT !["group"] = result(status)]
  BY DEF GetMembers
<1>2. /\ w # Idle /\ w.step = "members" /\ "group" \in Kind /\ UNCHANGED <<api, latest>>
      /\ work = [k \in Kind |-> work[k]]
  BY DEF GetMembers, Kind, objects, StatusInv, ObjectsAreRecorded
<1>3. w.name \in Group /\ w.status \in Status /\ w.count \in Nat
  BY <1>2, TypesAre, HandIs
<1>4. ASSUME NEW y \in Object, "group" \in latest[y]
      PROVE  JudgesIt(y, work'["group"], api[y].spec)
  <2>1. y = w.name
    BY <1>2, <1>4 DEF StatusInv, ReconcilersHoldIt
  <2>2. w.count >= Cardinality(DirectMembers(api[y].spec))
    BY <1>2, <1>4 DEF VerdictsInv, JudgesIt
  <2>3. status.phase = "Ready" => status.count >= Cardinality(DirectMembers(api[y].spec))
    BY <1>1, <1>3, <2>2 DEF Ready, Invalid, Status
  <2>4. Verdict(y, api[y].spec, status)
    BY <1>3, <2>1, <2>3, VerdictIs
  <2>5. work'["group"] = result(status)
    BY <1>1, <1>2
  <2> QED
    BY <2>4, <2>5 DEF JudgesIt
<1>5. \A k \in Kind : k # "group" => work'[k] = work[k]
  BY <1>1, <1>2
<1> QED
  BY <1>2, <1>4, <1>5, VerdictsCarry

LEMMA UpdateJudges ==
  ASSUME StatusInv, TypeOK, VerdictsInv, NEW k \in Kind, UpdateStatus(k)
  PROVE  VerdictsInv'
<1> DEFINE w == work[k]
           x == w.name
           copy == [api[x] EXCEPT !.status = w.status]
<1>1. w # Idle /\ w.step = "update" /\ x \in Object
  BY TypesAre, HandIs DEF UpdateStatus
<1>2. /\ work = [j \in Kind |-> work[j]] /\ latest \in [Object -> SUBSET Holder]
      /\ work' = [work EXCEPT ![k] = Idle]
  BY DEF UpdateStatus, Done, StatusInv, ObjectsAreRecorded
<1>3. \A y \in Object : k \in latest[y] => y = x
  BY DEF StatusInv, ReconcilersHoldIt
<1>4. \A j \in Kind : j # k => work'[j] = work[j]
  BY <1>2
<1>5. CASE k \in latest[x] /\ Write(x, copy)
  <2>1. x \in DOMAIN api /\ api[x] \in ObjectType(x, changes)
    BY <1>1, <1>5, TypesAre DEF StatusInv, ReconcilersHoldIt, MapOK
  <2>2. copy.status = w.status /\ copy.spec = api[x].spec
    BY <2>1 DEF ObjectType
  <2>3. Verdict(x, api[x].spec, w.status)
    BY <1>1, <1>5 DEF VerdictsInv, JudgesIt
  <2> HIDE DEF copy
  <2>4. Judged(x, copy)
    BY <2>2, <2>3 DEF Judged
  <2> QED
    BY <1>1, <1>3, <1>4, <1>5, <2>4, VerdictWritten
<1>6. CASE Unwritten(x, k)
  <2>1. /\ UNCHANGED api /\ k \notin latest'[x]
        /\ \A y \in Object : latest'[y] \subseteq latest[y]
    BY <1>1, <1>2, <1>6 DEF Unwritten, Forget
  <2> QED
    BY <1>3, <1>4, <2>1, VerdictsCarry
<1> QED
  BY <1>5, <1>6 DEF UpdateStatus

LEMMA SetupJudges ==
  ASSUME StatusInv, TypeOK, VerdictsInv, SetupWrites
  PROVE  VerdictsInv'
<1> DEFINE g == setup.name
           copy == [api[g] EXCEPT !.status = setup.status]
<1>1. g \in Object /\ setup.status \in Status /\ UNCHANGED work
  BY TypesAre DEF SetupWrites, HandOK, Object, workerVars
<1>2. latest \in [Object -> SUBSET Holder]
  BY DEF StatusInv, ObjectsAreRecorded
<1>3. CASE "setup" \in latest[g] /\ Write(g, copy)
  <2>1. /\ g \in DOMAIN api /\ api[g] \in ObjectType(g, changes)
        /\ setup.status = [api[g].status EXCEPT !.mxid = TRUE]
    BY <1>1, <1>3, TypesAre DEF StatusInv, SetupHoldsIt, MapOK
  <2>2. /\ copy.status = setup.status /\ copy.spec = api[g].spec /\ copy.gen = api[g].gen
        /\ api[g].status \in Status
    BY <2>1 DEF ObjectType
  <2>3. /\ setup.status.phase = api[g].status.phase /\ setup.status.count = api[g].status.count
        /\ setup.status.applied = api[g].status.applied
    BY <2>1, <2>2 DEF Status
  <2>4. Judged(g, api[g])
    BY <2>1 DEF VerdictsInv, VerdictsAreOfTheirVersion
  <2> HIDE DEF copy
  <2>5. Judged(g, copy)
    BY <1>1, <2>2, <2>3, <2>4, VerdictOfOther DEF Judged
  <2> QED
    BY <1>1, <1>3, <2>5, VerdictWritten
<1>4. CASE Unwritten(g, "setup")
  BY <1>1, <1>2, <1>4, VerdictsStay DEF Unwritten, Forget
<1> QED
  BY <1>3, <1>4 DEF SetupWrites

LEMMA VerdictsInit == Init => VerdictsInv
BY KindsAreHolders DEF Init, VerdictsInv, VerdictsAreOfTheirVersion

LEMMA VerdictsStep == StatusInv /\ TypeOK /\ VerdictsInv /\ [Next]_vars => VerdictsInv'
<1> SUFFICES ASSUME StatusInv, TypeOK, VerdictsInv, [Next]_vars PROVE VerdictsInv'
  OBVIOUS
<1>1. latest \in [Object -> SUBSET Holder] /\ "cache" \notin Kind /\ "setup" \notin Kind
  BY KindsAreHolders DEF StatusInv, ObjectsAreRecorded
<1>2. CASE UNCHANGED <<api, latest, work>>
  BY <1>2, VerdictsStay
<1>3. ASSUME NEW x \in Object, ObjectArrives(x)
      PROVE  VerdictsInv'
  BY <1>1, <1>3, VerdictsStay DEF ObjectArrives
<1>4. ASSUME NEW g \in Group, SetupReads(g)
      PROVE  VerdictsInv'
  BY <1>1, <1>4, VerdictsStay DEF SetupReads, Read, workerVars, Object
<1>5. CASE Restart
  BY <1>1, <1>5, VerdictsCarry DEF Restart
<1> QED
  BY <1>2, <1>3, <1>4, <1>5, ApplyJudges, DeleteJudges, ReconcileJudges, GetMembersJudges,
     UpdateJudges, SetupJudges
     DEF Next, ReconcileDeleted, ChangeMembers, MembersArrive, Resync, objects, otherVars, vars

(* A status that names the current configuration version is a verdict about *)
(* the current spec: UpdateStatus of a worker that judged an older one is   *)
(* refused, whoever else wrote in between.                                  *)
THEOREM VerdictsHold == Spec => []VerdictsAreOfTheirVersion
<1>1. /\ StatusInv /\ HandsHoldObjects /\ TypeOK /\ VerdictsInv /\ [Next]_vars =>
           (StatusInv /\ HandsHoldObjects /\ TypeOK /\ VerdictsInv)'
  BY StatusStep, HandsStep, TypeStep, VerdictsStep
<1>2. VerdictsInv => VerdictsAreOfTheirVersion
  BY DEF VerdictsInv
<1> QED
  BY <1>1, <1>2, StatusInit, TypeInit, VerdictsInit, PTL DEF Spec

--------------------------------------------------------------------------------
(* Wake-ups.                                                                *)

(* A step that attends to everything it writes, and lets nobody go who was  *)
(* attended to.                                                             *)
LEMMA AttentionCarries ==
  ASSUME NoWakeUpIsLost,
         \A y \in DOMAIN api' :
           \/ y \in DOMAIN api /\ api'[y] = api[y] /\ (Attended(y) => Attended(y)')
           \/ api'[y].status.applied = api'[y].gen
           \/ Attended(y)'
  PROVE  NoWakeUpIsLost'
<1> SUFFICES ASSUME NEW y \in DOMAIN api'
             PROVE  api'[y].status.applied = api'[y].gen \/ Attended(y)'
  BY DEF NoWakeUpIsLost
<1> QED
  BY DEF NoWakeUpIsLost

(* A new version is an event to come.                                       *)
LEMMA WrittenIsAttended ==
  ASSUME StatusInv, NoWakeUpIsLost, NEW x \in Object, NEW copy, Write(x, copy),
         queue \subseteq queue',
         \A y \in Object \ {x} : work[KindOf(y)] # Idle /\ work[KindOf(y)].name = y
           => work'[KindOf(y)] = work[KindOf(y)]
  PROVE  NoWakeUpIsLost'
<1>1. latest \in [Object -> SUBSET Holder] /\ DOMAIN api \subseteq Object
  BY DEF StatusInv, ObjectsAreRecorded
<1>2. /\ DOMAIN api' = DOMAIN api \union {x}
      /\ \A y \in DOMAIN api : y # x => api'[y] = api[y]
      /\ latest'[x] = {} /\ \A y \in Object : y # x => latest'[y] = latest[y]
  BY <1>1, WrittenObject
<1>3. Attended(x)'
  BY <1>2 DEF Attended
<1>4. \A y \in DOMAIN api : y # x /\ Attended(y) => Attended(y)'
  BY <1>1, <1>2 DEF Attended
<1> QED
  BY <1>2, <1>3, <1>4, AttentionCarries

LEMMA UpdateAttends ==
  ASSUME StatusInv, TypeOK, NoWakeUpIsLost, NEW k \in Kind, UpdateStatus(k)
  PROVE  NoWakeUpIsLost'
<1>1. PICK x \in Object : x = work[k].name /\ KindOf(x) = k /\ work[k] # Idle
  BY TypesAre, HandIs DEF UpdateStatus
<1>2. /\ work = [j \in Kind |-> work[j]] /\ latest \in [Object -> SUBSET Holder]
      /\ work' = [work EXCEPT ![k] = Idle] /\ DOMAIN api \subseteq Object
  BY DEF UpdateStatus, Done, StatusInv, ObjectsAreRecorded
<1>3. ASSUME NEW y \in Object \ {x}, work[KindOf(y)] # Idle, work[KindOf(y)].name = y
      PROVE  work'[KindOf(y)] = work[KindOf(y)]
  BY <1>1, <1>2, <1>3
<1>4. queue \subseteq queue'
  BY DEF UpdateStatus, Requeue
<1>5. CASE Write(x, [api[x] EXCEPT !.status = work[k].status])
  BY <1>1, <1>3, <1>4, <1>5, WrittenIsAttended
<1>6. CASE Unwritten(x, k) /\ (Requeue(x) \/ (k \in latest[x] /\ api[x].status = work[k].status))
  <2>1. /\ UNCHANGED api
        /\ \A y \in Object : y # x => latest'[y] = latest[y]
    BY <1>1, <1>2, <1>6 DEF Unwritten, Forget
  <2>2. \A y \in Object : y # x /\ Attended(y) => Attended(y)'
    BY <1>3, <1>4, <2>1 DEF Attended
  <2>3. Attended(x)' \/ api'[x].status.applied = api'[x].gen
    <3>1. CASE Requeue(x)
      BY <3>1 DEF Requeue, Attended
    <3>2. CASE k \in latest[x] /\ api[x].status = work[k].status
      BY <1>1, <2>1, <3>2 DEF StatusInv, ReconcilersHoldIt
    <3> QED
      BY <1>6, <3>1, <3>2
  <2> QED
    BY <1>2, <2>1, <2>2, <2>3, AttentionCarries
<1> QED
  BY <1>1, <1>5, <1>6 DEF UpdateStatus

(* The worker of the kind was idle, and has the object in hand that leaves  *)
(* the queue; one that is gone from the cache has an event to come, if it   *)
(* is there again.                                                          *)
LEMMA ReconcileAttends ==
  ASSUME StatusInv, TypeOK, NoWakeUpIsLost, NEW x \in Object, Reconcile(x) \/ ReconcileDeleted(x)
  PROVE  NoWakeUpIsLost'
<1>1. /\ work = [j \in Kind |-> work[j]] /\ latest \in [Object -> SUBSET Holder]
      /\ KindOf(x) \in Kind /\ DOMAIN api \subseteq Object /\ "cache" \notin Kind
  BY KindsAreHolders DEF StatusInv, ObjectsAreRecorded
<1>2. /\ UNCHANGED api /\ queue' = queue \ {x} /\ work[KindOf(x)] = Idle
      /\ \A y \in Object : "cache" \in latest'[y] => "cache" \in latest[y]
  BY <1>1 DEF Reconcile, ReconcileDeleted, Read, objects
<1>3. CASE Reconcile(x)
  <2>1. PICK w : work' = [work EXCEPT ![KindOf(x)] = w] /\ InHand(KindOf(x), w) /\ w.name = x
    <3>1. PICK w : work' = [work EXCEPT ![KindOf(x)] = w] /\ InHand(KindOf(x), w)
      BY <1>3, ReconcileComputes
    <3>2. PICK v : work' = [work EXCEPT ![KindOf(x)] = v] /\ v.name = x
      BY <1>3, ReconcileCarries DEF Carries
    <3>3. v = w
      BY <1>1, <3>1, <3>2
    <3> QED
      BY <3>1, <3>2, <3>3
  <2>2. work'[KindOf(x)] = w /\ w # Idle
    <3>1. w.step # "idle"
      BY <2>1 DEF InHand
    <3>2. work'[KindOf(x)] = w
      BY <1>1, <2>1
    <3> QED
      BY <3>1, <3>2 DEF Idle
  <2>3. Attended(x)'
    BY <2>1, <2>2 DEF Attended
  <2>4. \A y \in Object : y # x /\ Attended(y) => Attended(y)'
    BY <1>1, <1>2, <2>1 DEF Attended
  <2> QED
    BY <1>1, <1>2, <2>3, <2>4, AttentionCarries
<1>4. CASE ReconcileDeleted(x)
  <2>1. x \notin DOMAIN cache /\ UNCHANGED <<latest, work>>
    BY <1>4 DEF ReconcileDeleted, objects
  <2>2. x \in DOMAIN api => "cache" \notin latest[x]
    BY <2>1 DEF StatusInv, CachesHoldIt
  <2>3. \A y \in DOMAIN api : Attended(y) => Attended(y)'
    BY <1>1, <1>2, <2>1, <2>2 DEF Attended
  <2> QED
    BY <1>2, <2>3, AttentionCarries
<1> QED
  BY <1>3, <1>4

LEMMA WakeUpsStep == StatusInv /\ TypeOK /\ NoWakeUpIsLost /\ [Next]_vars => NoWakeUpIsLost'
<1> SUFFICES ASSUME StatusInv, TypeOK, NoWakeUpIsLost, [Next]_vars PROVE NoWakeUpIsLost'
  OBVIOUS
<1>1. /\ work = [j \in Kind |-> work[j]] /\ latest \in [Object -> SUBSET Holder]
      /\ DOMAIN api \subseteq Object /\ "setup" # "cache"
  BY DEF StatusInv, ObjectsAreRecorded
<1>2. CASE UNCHANGED <<api, latest, work>> /\ queue \subseteq queue'
  BY <1>2, AttentionCarries DEF Attended
<1>3. ASSUME NEW x \in Object, ApplySpec(x)
      PROVE  NoWakeUpIsLost'
  <2>1. PICK copy : Write(x, copy)
    BY <1>3 DEF ApplySpec
  <2> QED
    BY <1>3, <2>1, WrittenIsAttended DEF ApplySpec
<1>4. ASSUME NEW x \in Object, DeleteObject(x)
      PROVE  NoWakeUpIsLost'
  <2>1. /\ \A y \in DOMAIN api' : y \in DOMAIN api \ {x} /\ api'[y] = api[y]
        /\ \A y \in Object : y # x => latest'[y] = latest[y]
        /\ UNCHANGED <<queue, work>>
    BY <1>1, <1>4 DEF DeleteObject, Without, NewVersion
  <2> QED
    BY <1>1, <2>1, AttentionCarries DEF Attended
<1>5. ASSUME NEW x \in Object, ObjectArrives(x)
      PROVE  NoWakeUpIsLost'
  BY <1>1, <1>5, AttentionCarries DEF ObjectArrives, Attended
<1>6. CASE GetMembers
  <2>1. /\ UNCHANGED <<api, latest, queue>> /\ work'["group"] # Idle
        /\ work'["group"].name = work["group"].name
        /\ \A k \in Kind : k # "group" => work'[k] = work[k]
    <3>1. PICK status : work' = [work EXCEPT !["group"] = [step |-> "update", name |-> work["group"].name,
                                                          status |-> status]]
      BY <1>6 DEF GetMembers
    <3>2. work'["group"] = [step |-> "update", name |-> work["group"].name, status |-> status]
      BY <1>1, <3>1 DEF Kind
    <3>3. work'["group"].step # Idle.step
      BY <3>2 DEF Idle
    <3> QED
      BY <1>1, <1>6, <3>1, <3>2, <3>3 DEF GetMembers, objects
  <2> QED
    BY <1>1, <2>1, KindsAreHolders, AttentionCarries DEF Attended
<1>7. ASSUME NEW g \in Group, SetupReads(g)
      PROVE  NoWakeUpIsLost'
  BY <1>1, <1>7, AttentionCarries DEF SetupReads, Read, workerVars, Attended, Object
<1>8. CASE SetupWrites
  <2>1. setup.name \in Object /\ UNCHANGED <<queue, work>>
    BY <1>8, TypesAre DEF SetupWrites, HandOK, Object, workerVars
  <2>2. CASE Unwritten(setup.name, "setup")
    BY <1>1, <2>1, <2>2, AttentionCarries DEF Unwritten, Forget, Attended
  <2> QED
    BY <1>8, <2>1, <2>2, WrittenIsAttended DEF SetupWrites
<1>9. CASE Restart
  BY <1>9, AttentionCarries DEF Restart, Attended
<1> QED
  BY <1>2, <1>3, <1>4, <1>5, <1>6, <1>7, <1>8, <1>9, UpdateAttends, ReconcileAttends
     DEF Next, ChangeMembers, MembersArrive, Resync, objects, vars

(* A status that is behind its spec always has somebody who will come to it,*)
(* whatever is refused, fails, or is lost in a restart: the wake-ups that   *)
(* LastSpecIsApplied needs are there.                                       *)
THEOREM WakeUpsKept == Spec => []NoWakeUpIsLost
<1>1. Init => NoWakeUpIsLost
  BY DEF Init, NoWakeUpIsLost
<1>2. /\ StatusInv /\ HandsHoldObjects /\ TypeOK /\ NoWakeUpIsLost /\ [Next]_vars =>
           (StatusInv /\ HandsHoldObjects /\ TypeOK /\ NoWakeUpIsLost)'
  BY StatusStep, HandsStep, TypeStep, WakeUpsStep
<1> QED
  BY <1>1, <1>2, StatusInit, TypeInit, PTL DEF Spec
================================================================================
