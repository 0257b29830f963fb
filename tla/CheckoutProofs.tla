--------------------------- MODULE CheckoutProofs ---------------------------
(* What holds at the checkout for every value of the constants.  Of            *)
(* CheckoutReservations: live Drafts fit the box, and a double click makes     *)
(* one.  Of AddonSavings: a discount is recorded, given once, and never given  *)
(* again by a later quote.  The sums of RAM and of prices need a few facts     *)
(* about SumFunctionOnSet first.                                               *)
EXTENDS CheckoutReservations, AddonSavings, SequenceTheorems, FiniteSetTheorems, WellFoundedInduction, TLAPS

-----------------------------------------------------------------------------
(* Sums over finite sets.  SumFunctionOnSet folds by a recursive function, so  *)
(* each fact goes by a least counterexample: a bad set whose subsets are good. *)

\* Naturals have least elements.
LEMMA LeastNumber ==
    ASSUME NEW N \in SUBSET Nat, N # {}
    PROVE  \E n \in N : \A m \in N : n <= m
<1>1. PICK n \in N : \A m \in N : ~(<<m, n>> \in OpToRel(<, Nat))
  BY NatLessThanWellFounded, WFMin
<1>2. \A m \in N : ~(m < n)
  BY <1>1 DEF OpToRel
<1>3. QED BY <1>2

\* Of some subsets of a finite set, one has none of them below it.
LEMMA LeastSubset ==
    ASSUME NEW S, IsFiniteSet(S), NEW Bad \in SUBSET (SUBSET S), Bad # {}
    PROVE  \E u \in Bad : \A v \in Bad : v \subseteq u => v = u
<1> DEFINE Sizes == {Cardinality(u) : u \in Bad}
<1>1. \A u \in Bad : IsFiniteSet(u) /\ Cardinality(u) \in Nat
  BY FS_Subset, FS_CardinalityType
<1>2. PICK n \in Sizes : \A m \in Sizes : n <= m
  <2>1. Sizes \in SUBSET Nat /\ Sizes # {}
    BY <1>1
  <2> HIDE DEF Sizes
  <2>2. QED BY <2>1, LeastNumber
<1>3. PICK u \in Bad : Cardinality(u) = n
  OBVIOUS
<1>4. ASSUME NEW v \in Bad, v \subseteq u
      PROVE  v = u
  <2>1. Cardinality(u) <= Cardinality(v)
    BY <1>2, <1>3
  <2>2. Cardinality(v) <= Cardinality(u) /\ (Cardinality(u) = Cardinality(v) => u = v)
    BY <1>1, <1>4, FS_Subset
  <2>3. QED BY <1>1, <2>1, <2>2
<1>5. QED BY <1>4

AnyOf(s) == CHOOSE x \in s : TRUE

\* f is the function the fold of g over the subsets of S is read off from.
IsFold(f, g, S) ==
    f = [s \in SUBSET S |-> IF s = {} THEN 0 ELSE g[AnyOf(s)] + f[s \ {AnyOf(s)}]]

LEMMA SumIsFold ==
    ASSUME NEW g, NEW S
    PROVE  SumFunctionOnSet(g, S) = (CHOOSE f : IsFold(f, g, S))[S]
  BY DEF SumFunctionOnSet, FoldFunctionOnSet, MapThenFoldSet, IsFold, AnyOf

\* Two of them agree where both are defined.
LEMMA FoldsAgree ==
    ASSUME NEW g, NEW S, NEW T, NEW f, NEW h, IsFold(f, g, S), IsFold(h, g, T),
           NEW u, IsFiniteSet(u), u \subseteq S, u \subseteq T
    PROVE  f[u] = h[u]
<1> DEFINE Bad == {v \in SUBSET u : f[v] # h[v]}
<1>1. SUFFICES Bad = {}
  OBVIOUS
<1>2. SUFFICES ASSUME Bad # {} PROVE FALSE
  OBVIOUS
<1>3. PICK v \in Bad : \A w \in Bad : w \subseteq v => w = v
  <2> HIDE DEF Bad
  <2>1. Bad \in SUBSET (SUBSET u)
    BY DEF Bad
  <2>2. QED BY <1>2, <2>1, LeastSubset
<1>4. v \subseteq u /\ f[v] # h[v]
  OBVIOUS
<1>5. /\ f[v] = IF v = {} THEN 0 ELSE g[AnyOf(v)] + f[v \ {AnyOf(v)}]
      /\ h[v] = IF v = {} THEN 0 ELSE g[AnyOf(v)] + h[v \ {AnyOf(v)}]
  BY <1>4 DEF IsFold
<1>6. v # {}
  BY <1>4, <1>5
<1>7. AnyOf(v) \in v
  BY <1>6 DEF AnyOf
<1>8. v \ {AnyOf(v)} \notin Bad
  BY <1>3, <1>7
<1>9. QED BY <1>4, <1>5, <1>8

\* There is one for each finite set.
LEMMA FoldsExist ==
    ASSUME NEW g, NEW S, IsFiniteSet(S)
    PROVE  \E f : IsFold(f, g, S)
<1> DEFINE Bad == {v \in SUBSET S : ~\E f : IsFold(f, g, v)}
<1>1. SUFFICES ASSUME Bad # {} PROVE FALSE
  OBVIOUS
<1>2. PICK u \in Bad : \A v \in Bad : v \subseteq u => v = u
  <2> HIDE DEF Bad
  <2>1. Bad \in SUBSET (SUBSET S)
    BY DEF Bad
  <2>2. QED BY <1>1, <2>1, LeastSubset
<1>3. \A v \in SUBSET u : v # u => \E f : IsFold(f, g, v)
  BY <1>2
<1> DEFINE F(v) == CHOOSE f : IsFold(f, g, v)
           Value(v) == F(v)[v]
           G == [s \in SUBSET u |-> IF s = {} THEN 0 ELSE g[AnyOf(s)] + Value(s \ {AnyOf(s)})]
<1>4. \A v \in SUBSET u : v # u => IsFold(F(v), g, v)
  BY <1>3
<1>5. \A v \in SUBSET u : IsFiniteSet(v)
  BY <1>2, FS_Subset
<1>6. ASSUME NEW v \in SUBSET u, v # u
      PROVE  Value(v) = IF v = {} THEN 0 ELSE g[AnyOf(v)] + Value(v \ {AnyOf(v)})
  <2>1. IsFold(F(v), g, v)
    BY <1>4, <1>6
  <2>2. Value(v) = IF v = {} THEN 0 ELSE g[AnyOf(v)] + F(v)[v \ {AnyOf(v)}]
    <3> HIDE DEF F
    <3>1. QED BY <2>1 DEF IsFold
  <2>3. CASE v = {}
    BY <2>2, <2>3
  <2>4. CASE v # {}
    <3> DEFINE w == v \ {AnyOf(v)}
    <3>1. w \subseteq v /\ w \in SUBSET u /\ w # u
      <4>1. AnyOf(v) \in v
        BY <2>4 DEF AnyOf
      <4>2. QED BY <4>1
    <3>2. IsFold(F(w), g, w) /\ IsFiniteSet(w)
      BY <1>4, <1>5, <3>1
    <3>3. F(v)[w] = F(w)[w]
      <4> HIDE DEF F, w
      <4>1. QED BY <2>1, <3>1, <3>2, FoldsAgree
    <3>4. QED BY <2>2, <2>4, <3>3
  <2>5. QED BY <2>3, <2>4
<1>7. IsFold(G, g, u)
  <2>1. ASSUME NEW s \in SUBSET u, s # {}
        PROVE  G[s \ {AnyOf(s)}] = Value(s \ {AnyOf(s)})
    <3> DEFINE v == s \ {AnyOf(s)}
    <3>1. v \in SUBSET u /\ v # u
      <4>1. AnyOf(s) \in s
        BY <2>1 DEF AnyOf
      <4>2. QED BY <4>1
    <3>2. Value(v) = IF v = {} THEN 0 ELSE g[AnyOf(v)] + Value(v \ {AnyOf(v)})
      <4> HIDE DEF Value, v
      <4>1. QED BY <1>6, <3>1
    <3>3. G[v] = IF v = {} THEN 0 ELSE g[AnyOf(v)] + Value(v \ {AnyOf(v)})
      <4> HIDE DEF Value, v
      <4>1. QED BY <3>1
    <3>4. QED BY <3>2, <3>3
  <2> HIDE DEF Value
  <2>2. G = [s \in SUBSET u |-> IF s = {} THEN 0 ELSE g[AnyOf(s)] + G[s \ {AnyOf(s)}]]
    BY <2>1
  <2>3. QED BY <2>2 DEF IsFold
<1>8. QED BY <1>2, <1>7

\* The sum of a set is the value of any element, and the sum of the others.
LEMMA SumUnfolds ==
    ASSUME NEW g, NEW S, IsFiniteSet(S)
    PROVE  /\ SumFunctionOnSet(g, {}) = 0
           /\ S # {} => SumFunctionOnSet(g, S) = g[AnyOf(S)] + SumFunctionOnSet(g, S \ {AnyOf(S)})
<1> DEFINE F(v) == CHOOSE f : IsFold(f, g, v)
<1>1. \A v : IsFiniteSet(v) => IsFold(F(v), g, v)
  BY FoldsExist
<1>2. \A v : SumFunctionOnSet(g, v) = F(v)[v]
  BY SumIsFold
<1> HIDE DEF F
<1>3. F({})[{}] = 0
  BY <1>1, FS_EmptySet DEF IsFold
<1>4. ASSUME S # {}
      PROVE  F(S)[S] = g[AnyOf(S)] + F(S \ {AnyOf(S)})[S \ {AnyOf(S)}]
  <2> DEFINE T == S \ {AnyOf(S)}
  <2>1. F(S)[S] = g[AnyOf(S)] + F(S)[T]
    BY <1>1, <1>4 DEF IsFold
  <2>2. IsFiniteSet(T) /\ T \subseteq S
    BY FS_Subset
  <2>3. F(S)[T] = F(T)[T]
    <3> HIDE DEF T
    <3>1. QED BY <1>1, <2>2, FoldsAgree
  <2>4. QED BY <2>1, <2>3
<1>5. QED BY <1>2, <1>3, <1>4

LEMMA SumType ==
    ASSUME NEW D, NEW g \in [D -> Nat], NEW S \in SUBSET D, IsFiniteSet(S)
    PROVE  SumFunctionOnSet(g, S) \in Nat
<1> DEFINE Bad == {v \in SUBSET S : SumFunctionOnSet(g, v) \notin Nat}
<1>1. SUFFICES ASSUME Bad # {} PROVE FALSE
  OBVIOUS
<1>2. PICK u \in Bad : \A v \in Bad : v \subseteq u => v = u
  <2> HIDE DEF Bad
  <2>1. Bad \in SUBSET (SUBSET S)
    BY DEF Bad
  <2>2. QED BY <1>1, <2>1, LeastSubset
<1>3. IsFiniteSet(u) /\ u \subseteq S
  BY FS_Subset
<1>4. u # {}
  <2>1. SumFunctionOnSet(g, {}) = 0
    BY SumUnfolds, FS_EmptySet
  <2>2. QED BY <2>1
<1>5. AnyOf(u) \in u
  BY <1>4 DEF AnyOf
<1>6. SumFunctionOnSet(g, u \ {AnyOf(u)}) \in Nat
  BY <1>2, <1>3, <1>5
<1>7. SumFunctionOnSet(g, u) = g[AnyOf(u)] + SumFunctionOnSet(g, u \ {AnyOf(u)})
  BY <1>3, <1>4, SumUnfolds
<1>8. QED BY <1>3, <1>5, <1>6, <1>7

LEMMA SumRemove ==
    ASSUME NEW D, NEW g \in [D -> Nat], NEW S \in SUBSET D, IsFiniteSet(S), NEW x \in S
    PROVE  SumFunctionOnSet(g, S) = g[x] + SumFunctionOnSet(g, S \ {x})
<1> DEFINE Sum(v) == SumFunctionOnSet(g, v)
           Good(v) == \A y \in v : Sum(v) = g[y] + Sum(v \ {y})
           Bad == {v \in SUBSET S : ~Good(v)}
<1>1. SUFFICES ASSUME Bad # {} PROVE FALSE
  <2>1. Good(S)
    BY <1>1
  <2>2. QED BY <2>1
<1>2. PICK u \in Bad : \A v \in Bad : v \subseteq u => v = u
  <2> HIDE DEF Bad
  <2>1. Bad \in SUBSET (SUBSET S)
    BY DEF Bad
  <2>2. QED BY <1>1, <2>1, LeastSubset
<1>3. \A v \in SUBSET S : IsFiniteSet(v) /\ Sum(v) \in Nat
  BY FS_Subset, SumType
<1>4. PICK y \in u : Sum(u) # g[y] + Sum(u \ {y})
  BY <1>2
<1> DEFINE c == AnyOf(u)
<1>5. c \in u /\ Sum(u) = g[c] + Sum(u \ {c})
  BY <1>3, <1>4, SumUnfolds DEF AnyOf
<1> HIDE DEF c, Sum
<1>6. c # y
  BY <1>4, <1>5
<1>7. Good(u \ {c}) /\ Good(u \ {y})
  BY <1>2, <1>4, <1>5
<1>8. /\ Sum(u \ {c}) = g[y] + Sum((u \ {c}) \ {y})
      /\ Sum(u \ {y}) = g[c] + Sum((u \ {y}) \ {c})
  BY <1>4, <1>5, <1>6, <1>7
<1>9. (u \ {c}) \ {y} = (u \ {y}) \ {c}
  OBVIOUS
<1>10. Sum((u \ {y}) \ {c}) \in Nat /\ g[c] \in Nat /\ g[y] \in Nat
  BY <1>3, <1>4, <1>5
<1>11. QED BY <1>4, <1>5, <1>8, <1>9, <1>10

\* Fewer sum to no more.
LEMMA SumSubset ==
    ASSUME NEW D, NEW g \in [D -> Nat], NEW S \in SUBSET D, IsFiniteSet(S), NEW T \in SUBSET S
    PROVE  SumFunctionOnSet(g, T) <= SumFunctionOnSet(g, S)
<1> DEFINE Bad == {v \in SUBSET S : T \subseteq v /\ ~(SumFunctionOnSet(g, T) <= SumFunctionOnSet(g, v))}
<1>1. SUFFICES ASSUME Bad # {} PROVE FALSE
  OBVIOUS
<1>2. PICK u \in Bad : \A v \in Bad : v \subseteq u => v = u
  <2> HIDE DEF Bad
  <2>1. Bad \in SUBSET (SUBSET S)
    BY DEF Bad
  <2>2. QED BY <1>1, <2>1, LeastSubset
<1>3. \A v \in SUBSET S : IsFiniteSet(v) /\ SumFunctionOnSet(g, v) \in Nat
  BY FS_Subset, SumType
<1>4. PICK x \in u : x \notin T
  <2>1. SumFunctionOnSet(g, T) <= SumFunctionOnSet(g, T)
    BY <1>3
  <2>2. u # T
    BY <2>1
  <2>3. QED BY <2>2
<1>5. SumFunctionOnSet(g, u) = g[x] + SumFunctionOnSet(g, u \ {x})
  BY <1>3, SumRemove
<1>6. SumFunctionOnSet(g, T) <= SumFunctionOnSet(g, u \ {x})
  BY <1>2, <1>4
<1>7. QED BY <1>3, <1>5, <1>6

\* The sum depends on the values on the set only.
LEMMA SumAgree ==
    ASSUME NEW g, NEW h, NEW S, IsFiniteSet(S), \A x \in S : g[x] = h[x]
    PROVE  SumFunctionOnSet(g, S) = SumFunctionOnSet(h, S)
<1> DEFINE Bad == {v \in SUBSET S : SumFunctionOnSet(g, v) # SumFunctionOnSet(h, v)}
<1>1. SUFFICES ASSUME Bad # {} PROVE FALSE
  OBVIOUS
<1>2. PICK u \in Bad : \A v \in Bad : v \subseteq u => v = u
  <2> HIDE DEF Bad
  <2>1. Bad \in SUBSET (SUBSET S)
    BY DEF Bad
  <2>2. QED BY <1>1, <2>1, LeastSubset
<1>3. IsFiniteSet(u) /\ u \subseteq S
  BY FS_Subset
<1>4. u # {}
  <2>1. SumFunctionOnSet(g, {}) = 0
    BY SumUnfolds, FS_EmptySet
  <2>2. SumFunctionOnSet(h, {}) = 0
    BY SumUnfolds, FS_EmptySet
  <2>3. QED BY <2>1, <2>2
<1>5. AnyOf(u) \in u
  BY <1>4 DEF AnyOf
<1>6. SumFunctionOnSet(g, u \ {AnyOf(u)}) = SumFunctionOnSet(h, u \ {AnyOf(u)})
  BY <1>2, <1>3, <1>5
<1>7. /\ SumFunctionOnSet(g, u) = g[AnyOf(u)] + SumFunctionOnSet(g, u \ {AnyOf(u)})
      /\ SumFunctionOnSet(h, u) = h[AnyOf(u)] + SumFunctionOnSet(h, u \ {AnyOf(u)})
  BY <1>3, <1>4, SumUnfolds
<1>8. g[AnyOf(u)] = h[AnyOf(u)]
  BY <1>3, <1>5
<1>9. QED BY <1>6, <1>7, <1>8

-----------------------------------------------------------------------------
(* CheckoutReservations: well typed                                            *)

Requested == [pc : Pc, at : Nat, fleet : Nat, doc : Row]
Invoiced == [status : {"none", "Unpaid", "Paid", "Deleted"}, config : Configs]

LEMMA OrderOfType == \A r \in Requests : OrderOf[r] \in Orders /\ (r \in Orders => OrderOf[r] = r)
  BY ConstantsAssumption

LEMMA ConfigType == \A r \in Requests : ConfigOf[r] \in Configs
  BY DEF Configs

LEMMA RamType == \A c \in Configs : RamOf[c] \in Nat
  BY ConstantsAssumption DEF Configs

LEMMA BoundsType == {Threshold, Second, TTL, DedupWindow, Grace, MaxTime, MaxMishaps} \subseteq Nat
  BY ConstantsAssumption

\* What mysqlDatetime cuts off is less than a second.
LEMMA WholeSecondsAre ==
    ASSUME NEW t \in Nat
    PROVE  WholeSeconds(t) \in Nat /\ WholeSeconds(t) <= t /\ t < WholeSeconds(t) + Second
<1>1. Second \in Nat /\ 0 < Second
  BY ConstantsAssumption
<1>2. (t % Second) \in Nat /\ (t % Second) < Second
  BY <1>1
<1>3. (t % Second) <= t
  BY <1>1
<1> QED
  BY <1>1, <1>2, <1>3 DEF WholeSeconds

LEMMA AtType ==
    ASSUME NEW r \in Requests, NEW stage \in Pc
    PROVE  /\ At(r, stage) \in Requested
           /\ At(r, stage).pc = stage /\ At(r, stage).at = 0
  BY OrderOfType, ConfigType DEF At, Requested, NoRow, Row, Orders

\* A request that goes on, or ends, leaves the others where they are.
LEMMA GotoType ==
    ASSUME OrdersTypeOK, NEW r \in Requests, NEW stage \in Pc, Goto(r, stage)
    PROVE  req' \in [Requests -> Requested] /\ chain' \in Seq(Requests)
<1>1. req \in [Requests -> Requested] /\ chain \in Seq(Requests)
  BY DEF OrdersTypeOK, Requested
<1>2. [req[r] EXCEPT !.pc = stage] \in Requested
  BY <1>1 DEF Requested
<1>3. req' \in [Requests -> Requested]
  BY <1>1, <1>2, AtType DEF Goto
<1>4. chain' \in Seq(Requests)
  <2>1. HasTurn(r) => Tail(chain) \in Seq(Requests)
    BY <1>1 DEF HasTurn
  <2>2. Append(chain, r) \in Seq(Requests)
    BY <1>1
  <2>3. QED BY <1>1, <2>1, <2>2 DEF Goto, Serialize
<1>5. QED BY <1>3, <1>4

LEMMA EndedPc == \A r \in Requests : Ended(r) \in Pc /\ Ended(r) \in {"start", "done"}
  BY DEF Ended, Pc

LEMMA EndType ==
    ASSUME OrdersTypeOK, NEW r \in Requests, End(r)
    PROVE  req' \in [Requests -> Requested] /\ chain' \in Seq(Requests)
<1>1. req \in [Requests -> Requested] /\ chain \in Seq(Requests)
  BY DEF OrdersTypeOK, Requested
<1>2. req' \in [Requests -> Requested]
  BY <1>1, EndedPc, AtType DEF End
<1>3. chain' \in Seq(Requests)
  BY <1>1, EndedPc DEF End, Serialize, HasTurn
<1>4. QED BY <1>2, <1>3

LEMMA MishapsType ==
    ASSUME OrdersTypeOK, UNCHANGED mishaps \/ Mishap
    PROVE  mishaps' \in Nat
  BY DEF OrdersTypeOK, Mishap

LEMMA PutOrderType ==
    ASSUME OrdersTypeOK, NEW o \in Orders, NEW row \in Row, NEW out, PutOrder(o, row, out)
    PROVE  order' \in [Orders -> Row]
  BY DEF OrdersTypeOK, PutOrder

\* What the jobs and the Drafts reserve are numbers: there are finitely many.
LEMMA JobRamType ==
    ASSUME OrdersTypeOK, IsFiniteSet(jobs)
    PROVE  JobRam \in Nat
<1>1. [o \in Orders |-> RamOf[invoiceFor[o].config]] \in [Orders -> Nat]
  BY RamType DEF OrdersTypeOK
<1>2. jobs \in SUBSET Orders
  BY DEF OrdersTypeOK
<1>3. QED BY <1>1, <1>2, SumType DEF JobRam

LEMMA RowType ==
    ASSUME NEW row \in Row
    PROVE  /\ \A e \in Nat : [row EXCEPT !.expires = e] \in Row
           /\ \A c \in Configs : [row EXCEPT !.config = c] \in Row
           /\ \A status \in {"Draft", "Paid", "Cancelled"} : [row EXCEPT !.status = status] \in Row
           /\ [row EXCEPT !.linked = TRUE] \in Row
  BY DEF Row

LEMMA RequestedType ==
    ASSUME NEW q \in Requested, NEW fleet \in Nat, NEW at \in Nat
    PROVE  [q EXCEPT !.pc = "turn", !.fleet = fleet, !.at = at] \in Requested
<1> DEFINE q1 == [q EXCEPT !.pc = "turn"]
           q2 == [q1 EXCEPT !.fleet = fleet]
<1>1. q1 \in Requested
  BY DEF Requested, Pc
<1>2. q2 \in Requested
  <2> HIDE DEF q1
  <2>1. QED BY <1>1 DEF Requested
<1>3. [q2 EXCEPT !.at = at] \in Requested
  <2> HIDE DEF q2
  <2>1. QED BY <1>2 DEF Requested
<1>4. [q EXCEPT !.pc = "turn", !.fleet = fleet, !.at = at] = [q2 EXCEPT !.at = at]
  OBVIOUS
<1>5. QED BY <1>3, <1>4

LEMMA ListingTyped ==
    ASSUME OrdersTypeOK, IsFiniteSet(jobs), NEW r \in Requests,
           Begin(r) \/ ReadFleet(r) \/ FetchToEdit(r) \/ ListDrafts(r)
    PROVE  OrdersTypeOK'
<1>1. req \in [Requests -> Requested] /\ now \in Nat
  BY DEF OrdersTypeOK, Requested
<1>2. UNCHANGED mishaps \/ Mishap => mishaps' \in Nat
  BY MishapsType
<1>3. CASE Begin(r)
  <2>1. req' \in [Requests -> Requested]
    BY <1>1, <1>3 DEF Begin, Requested, Pc
  <2>2. QED BY <1>3, <2>1 DEF Begin, OrdersTypeOK, Requested
<1>4. CASE ReadFleet(r)
  <2>1. req' \in [Requests -> Requested]
    <3>1. PICK fleet \in {JobRam, 0} :
            req' = [req EXCEPT ![r] = [@ EXCEPT !.pc = "turn", !.fleet = fleet,
                      !.at = IF KindOf[r] = "companions" THEN now ELSE req[r].at]]
      BY <1>4 DEF ReadFleet
    <3>2. fleet \in Nat /\ (IF KindOf[r] = "companions" THEN now ELSE req[r].at) \in Nat
      BY <1>1, JobRamType DEF Requested
    <3>3. ASSUME NEW at \in Nat
          PROVE  [req[r] EXCEPT !.pc = "turn", !.fleet = fleet, !.at = at] \in Requested
      <4>1. req[r] \in Requested
        BY <1>1
      <4>2. QED BY <3>2, <4>1, RequestedType
    <3> DEFINE t == IF KindOf[r] = "companions" THEN now ELSE req[r].at
    <3>4. req' = [req EXCEPT ![r] = [req[r] EXCEPT !.pc = "turn", !.fleet = fleet, !.at = t]]
      BY <3>1
    <3>5. t \in Nat
      BY <3>2
    <3> HIDE DEF t
    <3>6. [req[r] EXCEPT !.pc = "turn", !.fleet = fleet, !.at = t] \in Requested
      BY <3>3, <3>5
    <3>7. QED BY <1>1, <3>4, <3>6
  <2>2. chain' = Append(chain, r)
    BY <1>4 DEF ReadFleet, Serialize
  <2>3. chain' \in Seq(Requests)
    BY <2>2 DEF OrdersTypeOK
  <2>4. UNCHANGED mishaps \/ Mishap
    BY <1>4 DEF ReadFleet
  <2>5. QED BY <1>2, <1>4, <2>1, <2>3, <2>4 DEF ReadFleet, OrdersTypeOK, Requested
<1>5. CASE FetchToEdit(r)
  <2>1. (\E stage \in Pc : Goto(r, stage)) \/ End(r)
    BY <1>5 DEF FetchToEdit, Throw, Pc
  <2>2. UNCHANGED mishaps \/ Mishap
    BY <1>5 DEF FetchToEdit, Throw
  <2>3. QED BY <1>2, <1>5, <2>1, <2>2, GotoType, EndType DEF FetchToEdit, OrdersTypeOK, Requested
<1>6. CASE ListDrafts(r)
  <2>1. (\E stage \in Pc : Goto(r, stage)) \/ End(r)
    BY <1>6 DEF ListDrafts, Throw, Pc
  <2>2. UNCHANGED mishaps \/ Mishap
    BY <1>6 DEF ListDrafts, Throw
  <2>3. QED BY <1>2, <1>6, <2>1, <2>2, GotoType, EndType DEF ListDrafts, OrdersTypeOK, Requested
<1>7. QED BY <1>3, <1>4, <1>5, <1>6

LEMMA WritingTyped ==
    ASSUME OrdersTypeOK, NEW r \in Requests, WriteDraft(r) \/ WriteCompanions(r)
    PROVE  OrdersTypeOK'
<1>1. /\ req \in [Requests -> Requested] /\ order \in [Orders -> Row] /\ born \in [Orders -> Nat]
      /\ edited \subseteq Orders
  BY DEF OrdersTypeOK, Requested
<1>2. UNCHANGED mishaps \/ Mishap => mishaps' \in Nat
  BY MishapsType
<1>3. PICK out \in Outcomes : /\ Acknowledged(r, out, "done")
                              /\ WriteDraft(r) => PutOrder(r, [NoRow(r) EXCEPT !.status = "Draft", !.expires = WholeSeconds(req[r].at + TTL)], out)
                              /\ WriteCompanions(r) => PutOrder(OrderOf[r], [order[OrderOf[r]] EXCEPT !.config = ConfigOf[r]], out)
  BY DEF WriteDraft, WriteCompanions
<1>4. (Goto(r, "done") \/ End(r)) /\ (UNCHANGED mishaps \/ Mishap)
  BY <1>3 DEF Acknowledged, Throw
<1>5. req' \in [Requests -> Requested] /\ chain' \in Seq(Requests) /\ mishaps' \in Nat
  BY <1>2, <1>4, GotoType, EndType DEF Pc
<1>6. CASE WriteDraft(r)
  <2>1. r \in Orders /\ req[r].at \in Nat /\ TTL \in Nat
    BY <1>1, <1>6, BoundsType DEF WriteDraft, Orders, Requested
  <2>2. [NoRow(r) EXCEPT !.status = "Draft", !.expires = WholeSeconds(req[r].at + TTL)] \in Row
    <3>1. NoRow(r) \in Row
      BY <2>1, ConfigType DEF NoRow, Row
    <3>2. [NoRow(r) EXCEPT !.status = "Draft"] \in Row
      BY <3>1, RowType
    <3>3. WholeSeconds(req[r].at + TTL) \in Nat
      BY <2>1, WholeSecondsAre
    <3>4. QED BY <3>2, <3>3, RowType
  <2>3. order' \in [Orders -> Row]
    BY <1>3, <1>6, <2>1, <2>2, PutOrderType
  <2>4. born' \in [Orders -> Nat]
    BY <1>1, <1>6, <2>1 DEF WriteDraft
  <2>5. QED BY <1>5, <1>6, <2>3, <2>4 DEF WriteDraft, OrdersTypeOK, Requested
<1>7. CASE WriteCompanions(r)
  <2>1. order' \in [Orders -> Row]
    BY <1>1, <1>3, <1>7, OrderOfType, ConfigType, RowType, PutOrderType
  <2>2. edited' \subseteq Orders
    BY <1>1, <1>7, OrderOfType DEF WriteCompanions
  <2>3. QED BY <1>5, <1>7, <2>1, <2>2 DEF WriteCompanions, OrdersTypeOK, Requested
<1>8. QED BY <1>6, <1>7

LEMMA UnpaidPc ==
    ASSUME NEW r \in Requests, KindOf[r] \notin {"create", "companions"}, NEW doc
    PROVE  Unpaid(r, doc) \in Pc
<1>1. KindOf[r] \in {"view", "prepare", "cancel", "sweep"}
  BY ConstantsAssumption DEF Kinds
<1>2. CASE KindOf[r] = "view"
  BY <1>2, EndedPc DEF Unpaid
<1>3. CASE KindOf[r] = "prepare"
  BY <1>3 DEF Unpaid, Pc
<1>4. CASE KindOf[r] = "cancel"
  BY <1>4 DEF Unpaid, Pc
<1>5. CASE KindOf[r] = "sweep"
  BY <1>5 DEF Unpaid, Pc
<1>6. QED BY <1>1, <1>2, <1>3, <1>4, <1>5

LEMMA GoOnType ==
    ASSUME OrdersTypeOK, NEW r \in Requests, KindOf[r] \notin {"create", "companions"}, NEW doc \in Row, GoOn(r, doc)
    PROVE  req' \in [Requests -> Requested] /\ chain' \in Seq(Requests)
<1>1. req \in [Requests -> Requested] /\ chain \in Seq(Requests)
  BY DEF OrdersTypeOK, Requested
<1>2. Unpaid(r, doc) \in Pc
  BY UnpaidPc
<1>3. CASE End(r)
  BY <1>3, EndType
<1>4. CASE ~End(r)
  <2>1. PICK stage \in Pc : req' = [req EXCEPT ![r] = [@ EXCEPT !.pc = stage, !.doc = doc]] /\ UNCHANGED chain
    BY <1>2, <1>4 DEF GoOn, Pc
  <2>2. [req[r] EXCEPT !.pc = stage, !.doc = doc] \in Requested
    BY <1>1 DEF Requested
  <2>3. QED BY <1>1, <2>1, <2>2
<1>5. QED BY <1>3, <1>4

LEMMA ReadingTyped ==
    ASSUME OrdersTypeOK, PlacesFit, NEW r \in Requests,
           Lookup(r) \/ CheckInvoice(r) \/ FetchToCancel(r) \/ ReadInvoiceToCancel(r)
    PROVE  OrdersTypeOK'
<1>1. req \in [Requests -> Requested] /\ order \in [Orders -> Row] /\ chain \in Seq(Requests)
  BY DEF OrdersTypeOK, Requested
<1>2. UNCHANGED mishaps \/ Mishap => mishaps' \in Nat
  BY MishapsType
<1>0. KindOf[r] \notin {"create", "companions"}
  BY DEF PlacesFit, Lookup, CheckInvoice, FetchToCancel, ReadInvoiceToCancel
<1>3. Unpaid(r, req[r].doc) \in Pc
  BY <1>0, UnpaidPc
<1>4. order[OrderOf[r]] \in Row
  BY <1>1, OrderOfType
<1>5. SUFFICES /\ req' \in [Requests -> Requested] /\ chain' \in Seq(Requests)
               /\ UNCHANGED mishaps \/ Mishap
  BY <1>2 DEF Lookup, CheckInvoice, FetchToCancel, ReadInvoiceToCancel, OrdersTypeOK, Requested
<1>6. CASE Lookup(r)
  <2>1. (\E stage \in Pc : Goto(r, stage)) \/ GoOn(r, order[OrderOf[r]]) \/ End(r)
    BY <1>6 DEF Lookup, Throw, Pc
  <2>2. QED BY <1>0, <1>4, <1>6, <2>1, GotoType, GoOnType, EndType DEF Lookup, Throw
<1>7. CASE CheckInvoice(r)
  <2>1. (\E stage \in Pc : Goto(r, stage)) \/ End(r)
    BY <1>3, <1>7 DEF CheckInvoice, Throw, Pc
  <2>2. QED BY <1>7, <2>1, GotoType, EndType DEF CheckInvoice, Throw
<1>8. CASE FetchToCancel(r)
  <2>1. CASE End(r)
    BY <1>8, <2>1, EndType DEF FetchToCancel, Throw
  <2>2. CASE ~End(r)
    <3>1. /\ req' = [req EXCEPT ![r] = [@ EXCEPT !.pc = "cancel", !.doc = order[OrderOf[r]]]]
          /\ UNCHANGED <<chain, mishaps>>
      BY <1>8, <2>2 DEF FetchToCancel, Throw
    <3>2. [req[r] EXCEPT !.pc = "cancel", !.doc = order[OrderOf[r]]] \in Requested
      BY <1>1, <1>4 DEF Requested, Pc
    <3>3. QED BY <1>1, <3>1, <3>2
  <2>3. QED BY <2>1, <2>2
<1>9. CASE ReadInvoiceToCancel(r)
  <2>1. (\E stage \in Pc : Goto(r, stage)) \/ End(r)
    BY <1>9 DEF ReadInvoiceToCancel, Throw, Pc
  <2>2. QED BY <1>9, <2>1, GotoType, EndType DEF ReadInvoiceToCancel, Throw
<1>10. QED BY <1>6, <1>7, <1>8, <1>9
LEMMA AcknowledgedType ==
    ASSUME OrdersTypeOK, NEW r \in Requests, NEW out, NEW stage \in Pc, Acknowledged(r, out, stage)
    PROVE  req' \in [Requests -> Requested] /\ chain' \in Seq(Requests) /\ mishaps' \in Nat
<1>1. CASE Goto(r, stage) /\ UNCHANGED mishaps
  BY <1>1, GotoType, MishapsType
<1>2. CASE Throw(r)
  BY <1>2, EndType, MishapsType DEF Throw
<1>3. QED BY <1>1, <1>2 DEF Acknowledged

LEMMA EndingType ==
    ASSUME OrdersTypeOK, NEW r \in Requests, (End(r) /\ UNCHANGED mishaps) \/ Throw(r)
    PROVE  req' \in [Requests -> Requested] /\ chain' \in Seq(Requests) /\ mishaps' \in Nat
  BY EndType, MishapsType DEF Throw

LEMMA UpdatingTyped ==
    ASSUME OrdersTypeOK, PlacesFit, NEW r \in Requests,
           Renew(r) \/ MarkOrderPaid(r) \/ Expire(r) \/ CancelOrder(r) \/ LinkInvoice(r)
    PROVE  OrdersTypeOK'
<1> DEFINE o == OrderOf[r]
<1>1. req[r] \in Requested /\ o \in Orders /\ order[o] \in Row
  BY OrderOfType DEF OrdersTypeOK, Requested
<1>2. SUFFICES /\ order' \in [Orders -> Row]
               /\ req' \in [Requests -> Requested] /\ chain' \in Seq(Requests) /\ mishaps' \in Nat
  BY DEF Renew, MarkOrderPaid, Expire, CancelOrder, LinkInvoice, OrdersTypeOK, Requested
<1>3. CASE Renew(r)
  <2> DEFINE row == [order[o] EXCEPT !.expires = WholeSeconds(req[r].at + TTL)]
  <2>1. PICK out \in Outcomes : /\ PutOrder(o, row, out)
                                /\ (GoOn(r, row) /\ UNCHANGED mishaps) \/ Throw(r)
    BY <1>3 DEF Renew
  <2>2. row \in Row
    <3>1. WholeSeconds(req[r].at + TTL) \in Nat
      BY <1>1, BoundsType, WholeSecondsAre DEF Requested
    <3>2. QED BY <1>1, <3>1, RowType
  <2>3. KindOf[r] \notin {"create", "companions"}
    BY <1>3 DEF PlacesFit, Renew
  <2> HIDE DEF row, o
  <2>4. order' \in [Orders -> Row]
    BY <1>1, <2>1, <2>2, PutOrderType
  <2>5. CASE GoOn(r, row) /\ UNCHANGED mishaps
    BY <2>2, <2>3, <2>4, <2>5, GoOnType, MishapsType
  <2>6. CASE Throw(r)
    BY <2>4, <2>6, EndingType
  <2>7. QED BY <2>1, <2>5, <2>6
<1>4. CASE MarkOrderPaid(r)
  <2>1. PICK out \in Outcomes : /\ PutOrder(o, PaidRow(order[o]), out)
                                /\ (End(r) /\ UNCHANGED mishaps) \/ Throw(r)
    BY <1>4 DEF MarkOrderPaid
  <2>2. PaidRow(order[o]) \in Row
    BY <1>1, RowType DEF PaidRow
  <2>3. QED BY <1>1, <2>1, <2>2, PutOrderType, EndingType
<1>5. CASE Expire(r)
  <2>1. PICK out \in Outcomes : /\ PutOrder(o, [order[o] EXCEPT !.status = "Cancelled"], out)
                                /\ (End(r) /\ UNCHANGED mishaps) \/ Throw(r)
    BY <1>5 DEF Expire
  <2>2. [order[o] EXCEPT !.status = "Cancelled"] \in Row
    BY <1>1, RowType
  <2>3. QED BY <1>1, <2>1, <2>2, PutOrderType, EndingType
<1>6. CASE CancelOrder(r)
  <2>1. PICK out \in Outcomes, stage \in {"cancelInvoice", "done"} :
                                /\ PutOrder(o, [order[o] EXCEPT !.status = "Cancelled"], out)
                                /\ Acknowledged(r, out, stage)
    BY <1>6 DEF CancelOrder
  <2>2. [order[o] EXCEPT !.status = "Cancelled"] \in Row /\ stage \in Pc
    BY <1>1, RowType DEF Pc
  <2>3. QED BY <1>1, <2>1, <2>2, PutOrderType, AcknowledgedType
<1>7. CASE LinkInvoice(r)
  <2>1. PICK out \in Outcomes : /\ PutOrder(o, [order[o] EXCEPT !.linked = TRUE], out)
                                /\ Acknowledged(r, out, "done")
    BY <1>7 DEF LinkInvoice
  <2>2. [order[o] EXCEPT !.linked = TRUE] \in Row /\ "done" \in Pc
    BY <1>1, RowType DEF Pc
  <2>3. QED BY <1>1, <2>1, <2>2, PutOrderType, AcknowledgedType
<1>8. QED BY <1>3, <1>4, <1>5, <1>6, <1>7

LEMMA InvoicingTyped ==
    ASSUME OrdersTypeOK, NEW r \in Requests, DeleteInvoice(r) \/ Bill(r)
    PROVE  OrdersTypeOK'
<1> DEFINE o == OrderOf[r]
<1>1. /\ req[r] \in Requested /\ o \in Orders
      /\ invoiceFor \in [Orders -> Invoiced] /\ invoiceFor[o] \in Invoiced
  BY OrderOfType DEF OrdersTypeOK, Requested, Invoiced
<1>2. PICK out \in Outcomes, inv \in Invoiced, stage \in {"done", "link"} :
         PutInvoice(o, inv, out) /\ Acknowledged(r, out, stage)
  <2>1. CASE DeleteInvoice(r)
    <3>1. PICK out \in Outcomes, status \in {"Deleted", invoiceFor[o].status} :
             PutInvoice(o, [invoiceFor[o] EXCEPT !.status = status], out) /\ Acknowledged(r, out, "done")
      BY <2>1 DEF DeleteInvoice
    <3>2. [invoiceFor[o] EXCEPT !.status = status] \in Invoiced
      BY <1>1 DEF Invoiced
    <3>3. QED BY <3>1, <3>2
  <2>2. CASE Bill(r)
    <3>1. [status |-> "Unpaid", config |-> req[r].doc.config] \in Invoiced
      BY <1>1 DEF Requested, Row, Invoiced
    <3>2. QED BY <2>2, <3>1 DEF Bill
  <2>3. QED BY <2>1, <2>2
<1>3. req' \in [Requests -> Requested] /\ chain' \in Seq(Requests) /\ mishaps' \in Nat
  BY <1>2, AcknowledgedType DEF Pc
<1>4. invoiceFor' \in [Orders -> Invoiced]
  BY <1>1, <1>2 DEF PutInvoice
<1>5. QED BY <1>3, <1>4 DEF DeleteInvoice, Bill, OrdersTypeOK, Requested, Invoiced

LEMMA WorldTyped ==
    ASSUME OrdersTypeOK, (\E o \in Orders : Pay(o) \/ QueueJob(o)) \/ Pass \/ Crash \/ UNCHANGED ordersVars
    PROVE  OrdersTypeOK'
<1>1. ASSUME NEW o \in Orders, Pay(o)
      PROVE  OrdersTypeOK'
  <2>1. invoiceFor \in [Orders -> Invoiced]
    BY DEF OrdersTypeOK, Invoiced
  <2>2. invoiceFor' \in [Orders -> Invoiced]
    BY <1>1, <2>1 DEF Pay, Invoiced
  <2>3. QED BY <1>1, <2>2 DEF Pay, OrdersTypeOK, Invoiced
<1>2. ASSUME NEW o \in Orders, QueueJob(o)
      PROVE  OrdersTypeOK'
  BY <1>2 DEF QueueJob, OrdersTypeOK
<1>3. CASE Pass
  BY <1>3 DEF Pass, OrdersTypeOK
<1>4. CASE Crash
  <2>1. req' \in [Requests -> Requested]
    BY <1>4, EndedPc, AtType DEF Crash, OrdersTypeOK, Requested
  <2>2. chain' \in Seq(Requests) /\ mishaps' \in Nat
    BY <1>4, MishapsType DEF Crash
  <2>3. QED BY <1>4, <2>1, <2>2 DEF Crash, OrdersTypeOK, Requested
<1>5. CASE UNCHANGED ordersVars
  BY <1>5 DEF ordersVars, OrdersTypeOK
<1>6. QED BY <1>1, <1>2, <1>3, <1>4, <1>5

LEMMA OrdersNextTyped ==
    ASSUME OrdersTypeOK, PlacesFit, IsFiniteSet(jobs), [OrdersNext]_ordersVars
    PROVE  OrdersTypeOK'
<1>1. ASSUME NEW r \in Requests, Begin(r) \/ Proceed(r)
      PROVE  OrdersTypeOK'
  BY <1>1, ListingTyped, WritingTyped, ReadingTyped, UpdatingTyped, InvoicingTyped DEF Proceed
<1>2. QED BY <1>1, WorldTyped DEF OrdersNext, Quiet

-----------------------------------------------------------------------------
(* CheckoutReservations: what a step does                                      *)

\* Nothing happens to the others, and the one who has its turn keeps it.
Alone(r) == \A s \in Requests : s # r => req'[s] = req[s] /\ (HasTurn(s) => HasTurn(s)')

Later == {"invoice", "markPaid", "expire", "fetch", "cancel", "cancelInvoice", "deleteInvoice", "bill", "link"}

\* Where a request may go: to its end, ...
Ends(r) ==
    /\ req'[r].pc \in {"start", "done"} /\ req'[r].at = 0
    /\ KindOf[r] = "create" => req'[r].pc = "done"
\* ... from its start, ...
Starts(r) ==
    /\ req[r].pc = "start" /\ req'[r].at = now
    /\ req'[r].pc = IF KindOf[r] \in {"create", "companions"} THEN "fleet" ELSE "lookup"
    /\ KindOf[r] # "create" => order[OrderOf[r]].status # "none"
\* ... to the queue, to the list and to the write, ...
Queues(r) == req[r].pc = "fleet" /\ req'[r].pc = "turn" /\ req'[r].at \in {req[r].at, now}
HoldsTurn(r) == HasTurn(r) /\ chain' = chain
Lists(r) ==
    /\ req[r].pc = "turn" /\ KindOf[r] = "companions" /\ HoldsTurn(r)
    /\ req'[r].pc = "list" /\ req'[r].at = req[r].at
Admitted(r) ==
    /\ req[r].pc \in {"turn", "list"} /\ HoldsTurn(r)
    /\ req'[r].pc = "write" /\ req'[r].at = req[r].at /\ req'[r].fleet = req[r].fleet
    /\ Fits(req[r].fleet, DraftRam(req[r].at, {OrderOf[r]}), ConfigOf[r])
    /\ KindOf[r] = "create" => \A o \in Orders : ~IsDuplicate(o, r)
\* ... to the renewal, or on through getOrder and what follows it.
ToRenewal(r) ==
    /\ req[r].pc = "lookup" /\ KindOf[r] = "view" /\ Live(order[OrderOf[r]], req[r].at)
    /\ req'[r].pc = "renew" /\ req'[r].at = req[r].at
GoesOn(r) ==
    /\ KindOf[r] \notin {"create", "companions"} /\ Begun(r)
    /\ req'[r].pc \in Later /\ req'[r].at = req[r].at

StepOf(r) ==
    /\ req[r].pc # "done" /\ Alone(r)
    /\ Ends(r) \/ Starts(r) \/ Queues(r) \/ Lists(r) \/ Admitted(r) \/ ToRenewal(r) \/ GoesOn(r)

LEMMA SerializeKeeps ==
    ASSUME OrdersTypeOK, NEW r \in Requests, NEW stage, Serialize(r, stage)
    PROVE  /\ \A s \in Requests : s # r /\ HasTurn(s) => HasTurn(s)'
           /\ stage \notin {"turn", "done"} => chain' = chain
<1>1. chain \in Seq(Requests)
  BY DEF OrdersTypeOK
<1>2. ASSUME NEW s \in Requests, s # r, HasTurn(s)
      PROVE  HasTurn(s)'
  <2>1. chain' \in {chain, Append(chain, r)}
    BY <1>2 DEF Serialize, HasTurn
  <2>2. Append(chain, r) # <<>> /\ Head(Append(chain, r)) = Head(chain)
    BY <1>1, <1>2 DEF HasTurn
  <2>3. QED BY <1>2, <2>1, <2>2 DEF HasTurn
<1>3. QED BY <1>2 DEF Serialize

LEMMA GotoStep ==
    ASSUME OrdersTypeOK, NEW r \in Requests, NEW stage \in Pc, Goto(r, stage)
    PROVE  /\ Alone(r) /\ req'[r].pc = stage
           /\ stage # "done" => req'[r].at = req[r].at /\ req'[r].fleet = req[r].fleet
           /\ stage = "done" => req'[r].at = 0
           /\ stage \notin {"turn", "done"} => chain' = chain
<1>1. req \in [Requests -> Requested]
  BY DEF OrdersTypeOK, Requested
<1>2. CASE stage = "done"
  BY <1>1, <1>2, SerializeKeeps DEF Goto, Alone, At
<1>3. CASE stage # "done"
  <2>1. req' = [req EXCEPT ![r] = [req[r] EXCEPT !.pc = stage]]
    BY <1>3 DEF Goto
  <2>2. req'[r] = [req[r] EXCEPT !.pc = stage]
    BY <1>1, <2>1
  <2>3. req'[r].pc = stage /\ req'[r].at = req[r].at /\ req'[r].fleet = req[r].fleet
    BY <1>1, <2>2 DEF Requested
  <2>4. QED BY <1>1, <1>3, <2>1, <2>3, SerializeKeeps DEF Goto, Alone
<1>4. QED BY <1>2, <1>3

LEMMA EndStep ==
    ASSUME OrdersTypeOK, NEW r \in Requests, End(r)
    PROVE  Alone(r) /\ Ends(r)
<1>1. req \in [Requests -> Requested]
  BY DEF OrdersTypeOK, Requested
<1>2. QED BY <1>1, EndedPc, SerializeKeeps DEF End, Alone, Ends, Ended, At

LEMMA GotoEnds ==
    ASSUME OrdersTypeOK, NEW r \in Requests, NEW out, Acknowledged(r, out, "done")
    PROVE  Alone(r) /\ Ends(r)
<1>1. CASE Goto(r, "done")
  BY <1>1, GotoStep DEF Ends, Pc
<1>2. CASE End(r)
  BY <1>2, EndStep
<1>3. QED BY <1>1, <1>2 DEF Acknowledged, Throw

LEMMA GotoLater ==
    ASSUME OrdersTypeOK, PlacesFit, NEW r \in Requests, Begun(r), KindOf[r] \notin {"create", "companions"},
           (\E stage \in Later \cup {"done"} : Goto(r, stage)) \/ End(r)
    PROVE  StepOf(r)
<1>1. ASSUME NEW stage \in Later \cup {"done"}, Goto(r, stage)
      PROVE  Alone(r) /\ (Ends(r) \/ GoesOn(r))
  <2>1. stage \in Pc
    BY DEF Later, Pc
  <2>2. QED BY <1>1, <2>1, GotoStep DEF Ends, GoesOn, Later
<1>2. CASE End(r)
  BY <1>2, EndStep DEF StepOf, Begun
<1>3. QED BY <1>1, <1>2 DEF StepOf, Begun

LEMMA UnpaidLater ==
    ASSUME NEW r \in Requests, KindOf[r] \notin {"create", "companions"}, NEW doc
    PROVE  Unpaid(r, doc) \in Later \cup {Ended(r)}
<1>1. KindOf[r] \in {"view", "prepare", "cancel", "sweep"}
  BY ConstantsAssumption DEF Kinds
<1>2. CASE KindOf[r] = "view"
  BY <1>2 DEF Unpaid
<1>3. CASE KindOf[r] = "prepare"
  BY <1>3 DEF Unpaid, Later, Ended
<1>4. CASE KindOf[r] = "cancel"
  BY <1>4 DEF Unpaid, Later, Ended
<1>5. CASE KindOf[r] = "sweep"
  BY <1>5 DEF Unpaid, Later, Ended
<1>6. QED BY <1>1, <1>2, <1>3, <1>4, <1>5

LEMMA GoOnStep ==
    ASSUME OrdersTypeOK, PlacesFit, NEW r \in Requests, Begun(r), KindOf[r] \notin {"create", "companions"},
           NEW doc, GoOn(r, doc)
    PROVE  StepOf(r)
<1>1. req \in [Requests -> Requested]
  BY DEF OrdersTypeOK, Requested
<1>2. CASE End(r)
  BY <1>2, GotoLater
<1>3. CASE ~End(r)
  <2>1. PICK stage \in Later : req' = [req EXCEPT ![r] = [@ EXCEPT !.pc = stage, !.doc = doc]] /\ UNCHANGED chain
    BY <1>3, UnpaidLater DEF GoOn, Later
  <2>2. req'[r].pc = stage /\ req'[r].at = req[r].at
    BY <1>1, <2>1 DEF Requested
  <2>3. Alone(r)
    BY <1>1, <2>1 DEF Alone, HasTurn
  <2>4. QED BY <2>1, <2>2, <2>3 DEF StepOf, GoesOn, Begun
<1>4. QED BY <1>2, <1>3
LEMMA BeginStep ==
    ASSUME OrdersTypeOK, NEW r \in Requests, Begin(r)
    PROVE  StepOf(r)
<1>1. req \in [Requests -> Requested]
  BY DEF OrdersTypeOK, Requested
<1>2. /\ req[r].pc = "start" /\ chain' = chain
      /\ KindOf[r] # "create" => order[OrderOf[r]].status # "none"
      /\ req' = [req EXCEPT ![r] = [@ EXCEPT !.at = now,
                   !.pc = IF KindOf[r] \in {"create", "companions"} THEN "fleet" ELSE "lookup"]]
  BY DEF Begin
<1>3. /\ req'[r].at = now
      /\ req'[r].pc = IF KindOf[r] \in {"create", "companions"} THEN "fleet" ELSE "lookup"
  BY <1>1, <1>2 DEF Requested
<1>4. Alone(r)
  BY <1>1, <1>2 DEF Alone, HasTurn
<1>5. QED BY <1>2, <1>3, <1>4 DEF StepOf, Starts

LEMMA ListingStep ==
    ASSUME OrdersTypeOK, NEW r \in Requests, ReadFleet(r) \/ FetchToEdit(r) \/ ListDrafts(r)
    PROVE  StepOf(r)
<1>1. req \in [Requests -> Requested]
  BY DEF OrdersTypeOK, Requested
<1>2. CASE ReadFleet(r)
  <2>1. PICK fleet : req' = [req EXCEPT ![r] = [@ EXCEPT !.pc = "turn", !.fleet = fleet,
                      !.at = IF KindOf[r] = "companions" THEN now ELSE req[r].at]]
    BY <1>2 DEF ReadFleet
  <2>2. req'[r].pc = "turn" /\ req'[r].at \in {req[r].at, now}
    BY <1>1, <2>1 DEF Requested
  <2>3. Serialize(r, "turn") /\ req[r].pc = "fleet"
    BY <1>2 DEF ReadFleet
  <2>4. Alone(r)
    BY <1>1, <2>1, <2>3, SerializeKeeps DEF Alone
  <2>5. QED BY <2>2, <2>3, <2>4 DEF StepOf, Queues
<1>3. CASE FetchToEdit(r)
  <2>1. req[r].pc = "turn" /\ KindOf[r] = "companions" /\ HasTurn(r)
    BY <1>3 DEF FetchToEdit
  <2>2. Goto(r, "list") \/ Goto(r, "done") \/ End(r)
    BY <1>3 DEF FetchToEdit, Throw
  <2>3. CASE Goto(r, "list")
    <3>1. Alone(r) /\ req'[r].pc = "list" /\ req'[r].at = req[r].at /\ chain' = chain
      BY <2>3, GotoStep DEF Pc
    <3>2. QED BY <2>1, <3>1 DEF StepOf, Lists, HoldsTurn
  <2>4. CASE Goto(r, "done")
    <3>1. Alone(r) /\ Ends(r)
      BY <2>4, GotoStep DEF Pc, Ends
    <3>2. QED BY <2>1, <3>1 DEF StepOf
  <2>5. CASE End(r)
    BY <2>1, <2>5, EndStep DEF StepOf
  <2>6. QED BY <2>2, <2>3, <2>4, <2>5
<1>4. CASE ListDrafts(r)
  <2>1. req[r].pc \in {"turn", "list"} /\ HasTurn(r)
    BY <1>4 DEF ListDrafts
  <2> DEFINE fits == Fits(req[r].fleet, DraftRam(req[r].at, {OrderOf[r]}), ConfigOf[r])
             repeats == KindOf[r] = "create" /\ \E o \in Orders : IsDuplicate(o, r)
  <2>2. (Goto(r, "write") /\ fits /\ ~repeats) \/ Goto(r, "done") \/ End(r)
    BY <1>4 DEF ListDrafts, Throw
  <2>3. CASE Goto(r, "write") /\ fits /\ ~repeats
    <3>1. Alone(r) /\ req'[r].pc = "write" /\ req'[r].at = req[r].at /\ req'[r].fleet = req[r].fleet /\ chain' = chain
      BY <2>3, GotoStep DEF Pc
    <3>2. QED BY <2>1, <2>3, <3>1 DEF StepOf, Admitted, HoldsTurn
  <2>4. CASE Goto(r, "done")
    <3>1. Alone(r) /\ Ends(r)
      BY <2>4, GotoStep DEF Pc, Ends
    <3>2. QED BY <2>1, <3>1 DEF StepOf
  <2>5. CASE End(r)
    BY <2>1, <2>5, EndStep DEF StepOf
  <2>6. QED BY <2>2, <2>3, <2>4, <2>5
<1>5. QED BY <1>2, <1>3, <1>4

LEMMA WritingStep ==
    ASSUME OrdersTypeOK, NEW r \in Requests, WriteDraft(r) \/ WriteCompanions(r)
    PROVE  StepOf(r) /\ Ends(r)
<1>1. req[r].pc = "write" /\ \E out : Acknowledged(r, out, "done")
  BY DEF WriteDraft, WriteCompanions
<1>2. QED BY <1>1, GotoEnds DEF StepOf

LEMMA OnwardStep ==
    ASSUME OrdersTypeOK, PlacesFit, NEW r \in Requests,
           \/ Lookup(r) \/ Renew(r) \/ CheckInvoice(r) \/ MarkOrderPaid(r) \/ Expire(r)
           \/ FetchToCancel(r) \/ CancelOrder(r) \/ ReadInvoiceToCancel(r) \/ DeleteInvoice(r)
           \/ Bill(r) \/ LinkInvoice(r)
    PROVE  StepOf(r)
<1>1. req \in [Requests -> Requested]
  BY DEF OrdersTypeOK, Requested
<1>2. Begun(r) /\ req[r].pc \in Later \cup {"lookup", "renew"}
  BY DEF Lookup, Renew, CheckInvoice, MarkOrderPaid, Expire, FetchToCancel, CancelOrder, ReadInvoiceToCancel,
         DeleteInvoice, Bill, LinkInvoice, Begun, Later
<1>3. KindOf[r] \notin {"create", "companions"}
  BY <1>2 DEF PlacesFit, Later
<1>4. ASSUME NEW out, NEW stage \in Later \cup {"done"}, Acknowledged(r, out, stage)
      PROVE  StepOf(r)
  BY <1>2, <1>3, <1>4, GotoLater DEF Acknowledged, Throw
<1>5. CASE Lookup(r)
  <2>1. (KindOf[r] = "view" /\ Live(order[OrderOf[r]], req[r].at) /\ Goto(r, "renew")) \/ GoOn(r, order[OrderOf[r]]) \/ End(r)
    BY <1>5 DEF Lookup, Throw
  <2>2. CASE KindOf[r] = "view" /\ Live(order[OrderOf[r]], req[r].at) /\ Goto(r, "renew")
    <3>1. Alone(r) /\ req'[r].pc = "renew" /\ req'[r].at = req[r].at
      BY <2>2, GotoStep DEF Pc
    <3>2. QED BY <1>5, <2>2, <3>1 DEF StepOf, ToRenewal, Lookup
  <2>3. QED BY <1>2, <1>3, <2>1, <2>2, GoOnStep, GotoLater
<1>6. CASE Renew(r)
  <2>1. (\E doc : GoOn(r, doc)) \/ End(r)
    BY <1>6 DEF Renew, Throw
  <2>2. QED BY <1>2, <1>3, <2>1, GoOnStep, GotoLater
<1>7. CASE CheckInvoice(r)
  <2>1. (\E stage \in Later : Goto(r, stage)) \/ End(r)
    <3>1. Unpaid(r, req[r].doc) \in Later \cup {Ended(r)} /\ "markPaid" \in Later
      BY <1>3, UnpaidLater DEF Later
    <3>2. QED BY <1>7, <3>1 DEF CheckInvoice, Throw
  <2>2. QED BY <1>2, <1>3, <2>1, GotoLater
<1>8. CASE MarkOrderPaid(r) \/ Expire(r)
  <2>1. End(r)
    BY <1>8 DEF MarkOrderPaid, Expire, Throw
  <2>2. QED BY <1>2, <1>3, <2>1, GotoLater
<1>9. CASE FetchToCancel(r)
  <2>1. CASE End(r)
    BY <1>2, <1>3, <2>1, GotoLater
  <2>2. CASE ~End(r)
    <3>1. /\ req' = [req EXCEPT ![r] = [@ EXCEPT !.pc = "cancel", !.doc = order[OrderOf[r]]]]
          /\ chain' = chain
      BY <1>9, <2>2 DEF FetchToCancel, Throw
    <3>2. req'[r].pc = "cancel" /\ req'[r].at = req[r].at
      BY <1>1, <3>1 DEF Requested
    <3>3. Alone(r)
      BY <1>1, <3>1 DEF Alone, HasTurn
    <3>4. QED BY <1>2, <1>3, <3>2, <3>3 DEF StepOf, GoesOn, Begun, Later
  <2>3. QED BY <2>1, <2>2
<1>10. CASE ReadInvoiceToCancel(r)
  <2>1. (\E stage \in Later \cup {"done"} : Goto(r, stage)) \/ End(r)
    BY <1>10 DEF ReadInvoiceToCancel, Throw, Later
  <2>2. QED BY <1>2, <1>3, <2>1, GotoLater
<1>11. CASE CancelOrder(r) \/ DeleteInvoice(r) \/ Bill(r) \/ LinkInvoice(r)
  <2>1. \E out \in Outcomes, stage \in Later \cup {"done"} : Acknowledged(r, out, stage)
    BY <1>11 DEF CancelOrder, DeleteInvoice, Bill, LinkInvoice, Later
  <2>2. QED BY <1>4, <2>1
<1>12. QED BY <1>5, <1>6, <1>7, <1>8, <1>9, <1>10, <1>11

-----------------------------------------------------------------------------
(* CheckoutReservations: what becomes of the rows                              *)

\* No Draft is written or edited, and only a renewal moves the time it lapses.
Kept ==
    /\ UNCHANGED <<born, edited>>
    /\ \A o \in Orders :
         /\ order'[o].status = "none" <=> order[o].status = "none"
         /\ order'[o].status = "Draft" => order[o].status = "Draft"
         /\ order'[o].config = order[o].config
         /\ \/ order'[o].expires = order[o].expires
            \/ \E r \in Requests : /\ req[r].pc = "renew" /\ OrderOf[r] = o
                                   /\ order'[o].expires = WholeSeconds(req[r].at + TTL)

LEMMA UnchangedKept == UNCHANGED <<order, born, edited>> => Kept
  BY DEF Kept

LEMMA PutKept ==
    ASSUME OrdersTypeOK, NEW o \in Orders, NEW row \in Row, NEW out, PutOrder(o, row, out), UNCHANGED <<born, edited>>,
           row.status = "none" <=> order[o].status = "none",
           row.status = "Draft" => order[o].status = "Draft",
           row.config = order[o].config,
           \/ row.expires = order[o].expires
           \/ \E r \in Requests : req[r].pc = "renew" /\ OrderOf[r] = o /\ row.expires = WholeSeconds(req[r].at + TTL)
    PROVE  Kept
<1>1. order \in [Orders -> Row]
  BY DEF OrdersTypeOK
<1>2. CASE out = "dropped"
  BY <1>2, UnchangedKept DEF PutOrder
<1>3. CASE out # "dropped"
  <2>1. \A p \in Orders : order'[p] = IF p = o THEN row ELSE order[p]
    BY <1>1, <1>3 DEF PutOrder
  <2>2. QED BY <2>1 DEF Kept
<1>4. QED BY <1>2, <1>3

LEMMA UpdatingKept ==
    ASSUME OrdersTypeOK, PlacesFit, NEW r \in Requests,
           Renew(r) \/ MarkOrderPaid(r) \/ Expire(r) \/ CancelOrder(r) \/ LinkInvoice(r)
    PROVE  Kept
<1> DEFINE o == OrderOf[r]
<1>1. /\ o \in Orders /\ order[o] \in Row /\ order[o].status # "none"
      /\ UNCHANGED <<born, edited>>
  <2>1. KindOf[r] # "create" /\ Begun(r)
    BY DEF PlacesFit, Renew, MarkOrderPaid, Expire, CancelOrder, LinkInvoice, Begun
  <2>2. QED BY <2>1, OrderOfType DEF PlacesFit, OrdersTypeOK, Renew, MarkOrderPaid, Expire, CancelOrder, LinkInvoice
<1>2. CASE Renew(r)
  <2> DEFINE row == [order[o] EXCEPT !.expires = WholeSeconds(req[r].at + TTL)]
  <2>1. WholeSeconds(req[r].at + TTL) \in Nat /\ req[r].pc = "renew"
    <3>1. req[r].at + TTL \in Nat
      BY BoundsType DEF OrdersTypeOK
    <3>2. QED BY <1>2, <3>1, WholeSecondsAre DEF Renew
  <2>2. row \in Row /\ row.status = order[o].status /\ row.config = order[o].config /\ row.expires = WholeSeconds(req[r].at + TTL)
    BY <1>1, <2>1 DEF Row
  <2>3. \E out : PutOrder(o, row, out)
    BY <1>2 DEF Renew
  <2> HIDE DEF row
  <2>4. QED BY <1>1, <2>1, <2>2, <2>3, PutKept
<1>3. CASE ~Renew(r)
  <2>1. PICK row, out : /\ PutOrder(o, row, out)
                        /\ row \in {PaidRow(order[o]), [order[o] EXCEPT !.status = "Cancelled"], [order[o] EXCEPT !.linked = TRUE]}
    BY <1>3 DEF MarkOrderPaid, Expire, CancelOrder, LinkInvoice
  <2>2. /\ row \in Row /\ row.status # "none" /\ (row.status = "Draft" => order[o].status = "Draft")
        /\ row.config = order[o].config /\ row.expires = order[o].expires
    BY <1>1, <2>1 DEF PaidRow, Row
  <2>3. QED BY <1>1, <2>1, <2>2, PutKept
<1>4. QED BY <1>2, <1>3

\* All a request does but the two writes.
LEMMA ProceedsKept ==
    ASSUME OrdersTypeOK, PlacesFit, NEW r \in Requests, Begin(r) \/ Proceed(r),
           ~WriteDraft(r), ~WriteCompanions(r)
    PROVE  StepOf(r) /\ Kept /\ now' = now /\ UNCHANGED jobs
<1>1. CASE Begin(r) \/ ReadFleet(r) \/ FetchToEdit(r) \/ ListDrafts(r)
  <2>1. StepOf(r)
    BY <1>1, BeginStep, ListingStep
  <2>2. UNCHANGED <<order, born, edited, now, jobs>>
    BY <1>1 DEF Begin, ReadFleet, FetchToEdit, ListDrafts
  <2>3. QED BY <2>1, <2>2, UnchangedKept
<1>2. CASE Renew(r) \/ MarkOrderPaid(r) \/ Expire(r) \/ CancelOrder(r) \/ LinkInvoice(r)
  <2>1. StepOf(r) /\ Kept
    BY <1>2, OnwardStep, UpdatingKept
  <2>2. UNCHANGED <<now, jobs>>
    BY <1>2 DEF Renew, MarkOrderPaid, Expire, CancelOrder, LinkInvoice
  <2>3. QED BY <2>1, <2>2
<1>3. CASE Lookup(r) \/ CheckInvoice(r) \/ FetchToCancel(r) \/ ReadInvoiceToCancel(r) \/ DeleteInvoice(r) \/ Bill(r)
  <2>1. StepOf(r)
    BY <1>3, OnwardStep
  <2>2. UNCHANGED <<order, born, edited, now, jobs>>
    BY <1>3 DEF Lookup, CheckInvoice, FetchToCancel, ReadInvoiceToCancel, DeleteInvoice, Bill
  <2>3. QED BY <2>1, <2>2, UnchangedKept
<1>4. QED BY <1>1, <1>2, <1>3 DEF Proceed

-----------------------------------------------------------------------------
(* CheckoutReservations: what the Drafts reserve                               *)

LiveIn(rows, t, S) == {o \in Orders \ S : Live(rows[o], t)}
RamIn(rows, t, S) == SumFunctionOnSet([o \in Orders |-> RamOf[rows[o].config]], LiveIn(rows, t, S))
CreatedIn(rows) == {o \in Orders : rows[o].status # "none"}

LEMMA RamInIs == \A t, S : DraftRam(t, S) = RamIn(order, t, S)
  BY DEF DraftRam, RamIn, LiveIn

LEMMA RamInType ==
    ASSUME NEW rows \in [Orders -> Row], IsFiniteSet(CreatedIn(rows)), NEW t, NEW S
    PROVE  /\ RamIn(rows, t, S) \in Nat
           /\ LiveIn(rows, t, S) \in SUBSET Orders /\ IsFiniteSet(LiveIn(rows, t, S))
           /\ [o \in Orders |-> RamOf[rows[o].config]] \in [Orders -> Nat]
<1>1. [o \in Orders |-> RamOf[rows[o].config]] \in [Orders -> Nat]
  BY RamType DEF Row
<1>2. LiveIn(rows, t, S) \subseteq CreatedIn(rows) /\ LiveIn(rows, t, S) \in SUBSET Orders
  BY DEF LiveIn, CreatedIn, Live
<1>3. IsFiniteSet(LiveIn(rows, t, S))
  BY <1>2, FS_Subset
<1>4. QED BY <1>1, <1>2, <1>3, SumType DEF RamIn

\* Fewer Drafts with the configs they had reserve no more.
LEMMA RamShrinks ==
    ASSUME NEW before \in [Orders -> Row], IsFiniteSet(CreatedIn(before)),
           NEW after \in [Orders -> Row], NEW t, NEW u, NEW S, NEW T,
           \A o \in Orders \ T : Live(after[o], u) => o \notin S /\ Live(before[o], t) /\ after[o].config = before[o].config
    PROVE  RamIn(after, u, T) <= RamIn(before, t, S)
<1> DEFINE g == [o \in Orders |-> RamOf[before[o].config]]
           h == [o \in Orders |-> RamOf[after[o].config]]
<1>1. /\ LiveIn(before, t, S) \in SUBSET Orders /\ IsFiniteSet(LiveIn(before, t, S))
      /\ g \in [Orders -> Nat]
  BY RamInType
<1>2. LiveIn(after, u, T) \in SUBSET LiveIn(before, t, S)
  BY DEF LiveIn
<1>3. IsFiniteSet(LiveIn(after, u, T))
  BY <1>1, <1>2, FS_Subset
<1>4. \A o \in LiveIn(after, u, T) : h[o] = g[o]
  BY DEF LiveIn
<1> HIDE DEF g, h
<1>5. SumFunctionOnSet(h, LiveIn(after, u, T)) = SumFunctionOnSet(g, LiveIn(after, u, T))
  BY <1>3, <1>4, SumAgree
<1>6. SumFunctionOnSet(g, LiveIn(after, u, T)) <= SumFunctionOnSet(g, LiveIn(before, t, S))
  BY <1>1, <1>2, SumSubset
<1>7. QED BY <1>5, <1>6 DEF RamIn, g, h

\* One order adds no more than the RAM of its config.
LEMMA RamAdds ==
    ASSUME NEW rows \in [Orders -> Row], IsFiniteSet(CreatedIn(rows)), NEW t, NEW p \in Orders
    PROVE  RamIn(rows, t, {}) <= RamIn(rows, t, {p}) + RamOf[rows[p].config]
<1> DEFINE g == [o \in Orders |-> RamOf[rows[o].config]]
<1>1. /\ LiveIn(rows, t, {}) \in SUBSET Orders /\ IsFiniteSet(LiveIn(rows, t, {}))
      /\ g \in [Orders -> Nat]
  BY RamInType
<1>2. LiveIn(rows, t, {p}) = LiveIn(rows, t, {}) \ {p}
  BY DEF LiveIn
<1>3. g[p] = RamOf[rows[p].config] /\ g[p] \in Nat
  BY <1>1
<1>4. RamIn(rows, t, {p}) \in Nat
  BY RamInType
<1> HIDE DEF g
<1>5. CASE p \in LiveIn(rows, t, {})
  <2>1. SumFunctionOnSet(g, LiveIn(rows, t, {})) = g[p] + SumFunctionOnSet(g, LiveIn(rows, t, {p}))
    BY <1>1, <1>2, <1>5, SumRemove
  <2>2. QED BY <1>3, <1>4, <2>1 DEF RamIn, g
<1>6. CASE p \notin LiveIn(rows, t, {})
  <2>1. LiveIn(rows, t, {}) = LiveIn(rows, t, {p})
    BY <1>2, <1>6
  <2>2. QED BY <1>3, <1>4, <2>1 DEF RamIn, g
<1>7. QED BY <1>5, <1>6

-----------------------------------------------------------------------------
(* CheckoutReservations: the invariant                                         *)

LEMMA PlacesKept ==
    ASSUME OrdersTypeOK, PlacesFit, NEW r \in Requests, StepOf(r),
           \A o \in Orders : order[o].status # "none" => order'[o].status # "none"
    PROVE  PlacesFit'
<1>1. ASSUME NEW s \in Requests, s # r
      PROVE  /\ req'[s].pc \in {"list", "write"} => HasTurn(s)'
             /\ KindOf[s] \in {"create", "companions"}
                   => req'[s].pc \in {"start", "fleet", "turn", "list", "write", "done"}
             /\ KindOf[s] # "create" /\ Begun(s)' => order'[OrderOf[s]].status # "none"
             /\ req'[s].pc = "renew" => KindOf[s] = "view"
  <2>1. req'[s] = req[s] /\ (HasTurn(s) => HasTurn(s)')
    BY <1>1 DEF StepOf, Alone
  <2>2. QED BY <2>1, OrderOfType DEF PlacesFit, Begun
<1>2. /\ req'[r].pc \in {"list", "write"} => HasTurn(r)'
      /\ KindOf[r] \in {"create", "companions"}
            => req'[r].pc \in {"start", "fleet", "turn", "list", "write", "done"}
      /\ KindOf[r] # "create" /\ Begun(r)' => order'[OrderOf[r]].status # "none"
      /\ req'[r].pc = "renew" => KindOf[r] = "view"
  <2>1. KindOf[r] # "create" /\ Begun(r) => order'[OrderOf[r]].status # "none"
    BY OrderOfType DEF PlacesFit
  <2>2. KindOf[r] \in {"create", "companions"}
            => req[r].pc \in {"start", "fleet", "turn", "list", "write", "done"}
    BY DEF PlacesFit
  <2>3. CASE Ends(r)
    BY <2>3 DEF Ends, Begun
  <2>4. CASE Starts(r)
    BY <2>4, OrderOfType DEF Starts, Begun
  <2>5. CASE Queues(r)
    BY <2>1, <2>5 DEF Queues, Begun
  <2>6. CASE Lists(r)
    BY <2>1, <2>6 DEF Lists, Begun, HoldsTurn, HasTurn
  <2>7. CASE Admitted(r)
    BY <2>1, <2>7 DEF Admitted, Begun, HoldsTurn, HasTurn
  <2>8. CASE ToRenewal(r)
    BY <2>1, <2>8 DEF ToRenewal, Begun
  <2>9. CASE GoesOn(r)
    BY <2>1, <2>9 DEF GoesOn, Later
  <2>10. QED BY <2>3, <2>4, <2>5, <2>6, <2>7, <2>8, <2>9 DEF StepOf
<1>3. QED BY <1>1, <1>2 DEF PlacesFit

LEMMA NumbersType ==
    ASSUME OrdersTypeOK
    PROVE  /\ now \in Nat /\ TTL \in Nat /\ DedupWindow \in Nat /\ Threshold \in Nat /\ DedupWindow <= TTL
           /\ Second \in Nat /\ 0 < Second /\ Second <= DedupWindow
           /\ \A r \in Requests : req[r].at \in Nat /\ req[r].fleet \in Nat
           /\ \A o \in Orders : order[o].expires \in Nat /\ born[o] \in Nat
                                /\ order[o].config \in Configs /\ RamOf[order[o].config] \in Nat
           /\ \A r \in Requests : RamOf[ConfigOf[r]] \in Nat
  BY BoundsType, RamType, ConfigType, ConstantsAssumption DEF OrdersTypeOK, Requested, Row

\* A reservation moves only while a heartbeat is about to renew it: in time, and
\* to a later time, if no renewal is late.
LEMMA ExpiresKept ==
    ASSUME OrdersTypeOK, PlacesFit, TimesFit, OrdersFit, Kept, NEW o \in Orders
    PROVE  /\ order'[o].expires <= now + TTL
           /\ order[o].status # "none" => order'[o].expires + Second > born[o] + TTL
           /\ ~LateRenewals /\ order'[o].expires # order[o].expires
                => order[o].expires > now /\ order'[o].expires > now
<1>1. CASE order'[o].expires = order[o].expires
  BY <1>1 DEF OrdersFit
<1>2. CASE order'[o].expires # order[o].expires
  <2>1. PICK r \in Requests : req[r].pc = "renew" /\ OrderOf[r] = o /\ order'[o].expires = WholeSeconds(req[r].at + TTL)
    BY <1>2 DEF Kept
  <2>2. req[r].at <= now /\ Renewing(r)
    BY <2>1 DEF PlacesFit, TimesFit, Renewing
  <2>3. /\ req[r].at + TTL \in Nat /\ req[r].at >= born[o]
        /\ ~LateRenewals => req[r].at = now /\ order[o].expires > now
    BY <2>1, <2>2, NumbersType DEF TimesFit, Renewing
  <2>4. order'[o].expires \in Nat /\ order'[o].expires <= req[r].at + TTL /\ req[r].at + TTL < order'[o].expires + Second
    BY <2>1, <2>3, WholeSecondsAre
  <2>5. QED BY <2>2, <2>3, <2>4, NumbersType
<1>3. QED BY <1>1, <1>2

LEMMA ExpiresNumber == ASSUME OrdersTypeOK, Kept, NEW o \in Orders PROVE order'[o].expires \in Nat
<1>1. \A r \in Requests : req[r].at + TTL \in Nat
  BY NumbersType
<1>2. QED BY <1>1, WholeSecondsAre, NumbersType DEF Kept

LEMMA TimesKept ==
    ASSUME OrdersTypeOK, PlacesFit, TimesFit, OrdersFit, NEW r \in Requests, StepOf(r), Kept, now' = now
    PROVE  TimesFit'
<1>1. UNCHANGED born
  BY DEF Kept
<1>2. ASSUME NEW s \in Requests, ~LateRenewals, req[s].pc = "renew", req'[s].pc = "renew", req'[s].at = req[s].at
      PROVE  order'[OrderOf[s]].expires > req'[s].at
  <2>1. order[OrderOf[s]].expires > now /\ req[s].at <= now /\ OrderOf[s] \in Orders
    <3>1. KindOf[s] = "view"
      BY <1>2 DEF PlacesFit
    <3>2. QED BY <1>2, <3>1, OrderOfType DEF TimesFit, Renewing
  <2> DEFINE o == OrderOf[s]
  <2>2. order[o].expires \in Nat /\ order'[o].expires \in Nat /\ now \in Nat /\ req[s].at \in Nat
    BY <2>1, ExpiresNumber, NumbersType
  <2>3. CASE order'[o].expires = order[o].expires
    BY <1>2, <2>1, <2>2, <2>3
  <2>4. CASE order'[o].expires # order[o].expires
    <3>1. order'[o].expires > now
      BY <1>2, <2>1, <2>4, ExpiresKept
    <3>2. QED BY <1>2, <2>1, <2>2, <3>1
  <2>5. QED BY <2>3, <2>4
<1>3. ASSUME NEW s \in Requests, s # r
      PROVE  /\ req'[s].at <= now
             /\ Renewing(s)' => req'[s].at >= born[OrderOf[s]]
             /\ ~LateRenewals /\ Renewing(s)' => req'[s].at = now
             /\ ~LateRenewals /\ req'[s].pc = "renew" => order'[OrderOf[s]].expires > req'[s].at
  <2>1. req'[s] = req[s]
    BY <1>3 DEF StepOf, Alone
  <2>2. QED BY <1>2, <2>1 DEF TimesFit, Renewing
<1>4. /\ req'[r].at <= now
      /\ Renewing(r)' => req'[r].at >= born[OrderOf[r]]
      /\ ~LateRenewals /\ Renewing(r)' => req'[r].at = now
      /\ ~LateRenewals /\ req'[r].pc = "renew" => order'[OrderOf[r]].expires > req'[r].at
  <2>1. req[r].at <= now
    BY DEF TimesFit
  <2>2. CASE Ends(r)
    BY <2>2, NumbersType DEF Ends, Renewing
  <2>3. CASE Starts(r)
    <3>1. Renewing(r)' => born[OrderOf[r]] <= now
      BY <2>3, OrderOfType DEF Starts, OrdersFit, Renewing
    <3>2. QED BY <2>3, <3>1, NumbersType DEF Starts, Renewing
  <2>4. CASE Queues(r)
    BY <2>1, <2>4, NumbersType DEF Queues, Renewing
  <2>5. CASE Lists(r) \/ Admitted(r) \/ GoesOn(r)
    BY <2>1, <2>5 DEF Lists, Admitted, GoesOn, Renewing, Later
  <2>6. CASE ToRenewal(r)
    <3>1. Renewing(r)
      BY <2>6 DEF ToRenewal, Renewing
    <3>2. ~LateRenewals => order'[OrderOf[r]].expires > req[r].at
      <4>1. SUFFICES ASSUME ~LateRenewals PROVE order'[OrderOf[r]].expires > req[r].at
        OBVIOUS
      <4>2. order[OrderOf[r]].expires > now /\ req[r].at = now /\ OrderOf[r] \in Orders
        BY <2>6, <3>1, <4>1, OrderOfType DEF ToRenewal, Live, TimesFit
      <4>3. CASE order'[OrderOf[r]].expires = order[OrderOf[r]].expires
        BY <4>2, <4>3
      <4>4. CASE order'[OrderOf[r]].expires # order[OrderOf[r]].expires
        BY <4>1, <4>2, <4>4, ExpiresKept
      <4>5. QED BY <4>3, <4>4
    <3>3. QED BY <2>1, <2>6, <3>1, <3>2 DEF ToRenewal, TimesFit
  <2>7. QED BY <2>2, <2>3, <2>4, <2>5, <2>6 DEF StepOf
<1>5. QED BY <1>1, <1>3, <1>4 DEF TimesFit

LEMMA OrdersKeptFit ==
    ASSUME OrdersTypeOK, PlacesFit, TimesFit, OrdersFit, NEW r \in Requests, StepOf(r), Kept, now' = now
    PROVE  OrdersFit'
<1>1. UNCHANGED <<born, edited>>
  BY DEF Kept
<1>2. ASSUME NEW o \in Orders
      PROVE  /\ req'[o].pc # "done" => order'[o].status = "none"
             /\ order'[o].status # "none" => born[o] <= now /\ order'[o].expires + Second > born[o] + TTL
             /\ order'[o].expires <= now + TTL
             /\ o \notin edited => order'[o].config = ConfigOf[o]
  <2>1. /\ order'[o].status = "none" <=> order[o].status = "none"
        /\ order'[o].config = order[o].config
    BY DEF Kept
  <2>2. req'[o].pc # "done" => req[o].pc # "done"
    BY DEF StepOf, Alone, Orders
  <2>3. QED BY <2>1, <2>2, ExpiresKept DEF OrdersFit
<1>3. QED BY <1>1, <1>2, now' = now DEF OrdersFit

LEMMA NewKept ==
    ASSUME OrdersTypeOK, OrdersFit, StillNew, NEW r \in Requests, StepOf(r), Kept
    PROVE  StillNew'
<1>1. UNCHANGED <<born, edited>>
  BY DEF Kept
<1>2. ASSUME NEW s \in Orders, NEW o \in Orders,
             req'[s].pc = "write", order'[o].status = "Draft", o \notin edited, ConfigOf[o] = ConfigOf[s]
      PROVE  req'[s].at + Second > born[o] + DedupWindow
  <2>1. order[o].status = "Draft"
    BY <1>2 DEF Kept
  <2>2. CASE s # r
    BY <1>2, <2>1, <2>2 DEF StepOf, Alone, StillNew, Orders
  <2>3. CASE s = r
    <3>1. Admitted(r) /\ KindOf[r] = "create"
      BY <1>2, <2>3 DEF StepOf, Ends, Starts, Queues, Lists, ToRenewal, GoesOn, Later, Orders
    <3>2. ~IsDuplicate(o, r) /\ req'[r].at = req[r].at
      BY <3>1 DEF Admitted
    <3>3. order[o].config = ConfigOf[r] /\ order[o].expires + Second > born[o] + TTL
      BY <1>2, <2>1, <2>3 DEF OrdersFit
    <3>4. ~(req[r].at + TTL < order[o].expires + DedupWindow) \/ ~(order[o].expires > req[r].at)
      BY <2>1, <3>2, <3>3 DEF IsDuplicate, Live
    <3>5. QED BY <2>3, <3>2, <3>3, <3>4, NumbersType
  <2>4. QED BY <2>2, <2>3
<1>3. QED BY <1>1, <1>2 DEF StillNew

LEMMA TwinsKept == ASSUME NoTwins, Kept PROVE NoTwins'
  BY DEF NoTwins, Kept, OneClick

LEMMA FitsKept ==
    ASSUME OrdersTypeOK, OrdersTypeOK', IsFiniteSet(Created), PlacesFit, TimesFit, OrdersFit,
           StillFits, DraftsFit, ~LateRenewals,
           NEW r \in Requests, StepOf(r), Kept, now' = now
    PROVE  StillFits' /\ DraftsFit'
<1>1. /\ order \in [Orders -> Row] /\ order' \in [Orders -> Row]
      /\ IsFiniteSet(CreatedIn(order)) /\ IsFiniteSet(CreatedIn(order'))
  <2>1. CreatedIn(order) = Created /\ CreatedIn(order') = CreatedIn(order)
    BY DEF CreatedIn, Created, Kept
  <2>2. QED BY <2>1 DEF OrdersTypeOK
<1>2. ASSUME NEW t \in Nat, t <= now, NEW S
      PROVE  RamIn(order', t, S) <= RamIn(order, t, S) /\ RamIn(order', t, S) \in Nat /\ RamIn(order, t, S) \in Nat
  <2>1. ASSUME NEW o \in Orders \ S, Live(order'[o], t)
        PROVE  Live(order[o], t) /\ order'[o].config = order[o].config
    <3>1. order[o].status = "Draft" /\ order'[o].config = order[o].config
      BY <2>1 DEF Kept, Live
    <3>2. order[o].expires > t
      BY <1>2, <2>1, ExpiresKept, NumbersType DEF Live
    <3>3. QED BY <3>1, <3>2 DEF Live
  <2>2. RamIn(order', t, S) <= RamIn(order, t, S)
    <3>1. \A o \in Orders \ S : Live(order'[o], t) => o \notin S /\ Live(order[o], t) /\ order'[o].config = order[o].config
      BY <2>1
    <3>2. QED BY <1>1, <3>1, RamShrinks
  <2>3. QED BY <1>1, <2>2, RamInType
<1>3. DraftsFit'
  <2>1. RamIn(order, now, {}) <= Threshold
    BY RamInIs DEF DraftsFit
  <2>2. RamIn(order', now, {}) <= Threshold
    BY <1>2, <2>1, NumbersType
  <2>3. QED BY <2>2 DEF DraftsFit, DraftRam, RamIn, LiveIn
<1>4. ASSUME NEW s \in Requests, req'[s].pc = "write"
      PROVE  Fits(req'[s].fleet, RamIn(order', req'[s].at, {OrderOf[s]}), ConfigOf[s])
  <2>1. /\ Fits(req[s].fleet, RamIn(order, req[s].at, {OrderOf[s]}), ConfigOf[s])
        /\ req'[s].fleet = req[s].fleet /\ req'[s].at = req[s].at
    <3>1. CASE s # r
      <4>1. req'[s] = req[s]
        BY <3>1 DEF StepOf, Alone
      <4>2. QED BY <1>4, <4>1, RamInIs DEF StillFits
    <3>2. CASE s = r
      <4>1. Admitted(r)
        BY <1>4, <3>2 DEF StepOf, Ends, Starts, Queues, Lists, ToRenewal, GoesOn, Later
      <4>2. QED BY <3>2, <4>1, RamInIs DEF Admitted
    <3>3. QED BY <3>1, <3>2
  <2>2. req[s].at \in Nat /\ req[s].at <= now /\ req[s].fleet \in Nat /\ RamOf[ConfigOf[s]] \in Nat /\ Threshold \in Nat
    BY NumbersType DEF TimesFit
  <2> DEFINE before == RamIn(order, req[s].at, {OrderOf[s]})
             after == RamIn(order', req[s].at, {OrderOf[s]})
  <2>3. after <= before /\ after \in Nat /\ before \in Nat
    BY <1>2, <2>2
  <2> HIDE DEF before, after
  <2>4. Fits(req[s].fleet, after, ConfigOf[s])
    <3>1. Fits(req[s].fleet, before, ConfigOf[s])
      BY <2>1 DEF before
    <3>2. QED BY <2>2, <2>3, <3>1 DEF Fits
  <2>5. QED BY <2>1, <2>4 DEF after
<1>5. StillFits'
  BY <1>4 DEF StillFits, DraftRam, RamIn, LiveIn
<1>6. QED BY <1>3, <1>5
\* A Draft is written, or its companions: the last thing the request does in its turn.
Written(r, o, row) ==
    /\ req[r].pc = "write" /\ StepOf(r) /\ Ends(r)
    /\ \A p \in Orders : order'[p] = IF p = o THEN row ELSE order[p]
    /\ now' = now

LEMMA WritesWell ==
    ASSUME OrdersTypeOK, NEW r \in Requests, WriteDraft(r) \/ WriteCompanions(r)
    PROVE  /\ req[r].pc = "write" /\ StepOf(r) /\ Ends(r) /\ now' = now /\ UNCHANGED jobs
           /\ \/ Kept /\ order' = order
              \/ /\ KindOf[r] = "create"
                 /\ Written(r, r, [NoRow(r) EXCEPT !.status = "Draft", !.expires = WholeSeconds(req[r].at + TTL)])
                 /\ born' = [born EXCEPT ![r] = req[r].at] /\ UNCHANGED edited
              \/ /\ KindOf[r] = "companions"
                 /\ Written(r, OrderOf[r], [order[OrderOf[r]] EXCEPT !.config = ConfigOf[r]])
                 /\ UNCHANGED born /\ edited' = edited \cup {OrderOf[r]}
<1>1. order \in [Orders -> Row]
  BY DEF OrdersTypeOK
<1>2. req[r].pc = "write" /\ StepOf(r) /\ Ends(r) /\ now' = now /\ UNCHANGED jobs
  BY WritingStep DEF WriteDraft, WriteCompanions
<1>3. CASE WriteDraft(r)
  <2> DEFINE row == [NoRow(r) EXCEPT !.status = "Draft", !.expires = WholeSeconds(req[r].at + TTL)]
  <2>1. PICK out \in Outcomes : /\ PutOrder(r, row, out) /\ UNCHANGED edited
                                /\ born' = IF out = "dropped" THEN born ELSE [born EXCEPT ![r] = req[r].at]
    BY <1>3 DEF WriteDraft
  <2>2. KindOf[r] = "create" /\ r \in Orders
    BY <1>3 DEF WriteDraft, Orders
  <2> HIDE DEF row
  <2>3. CASE out = "dropped"
    BY <1>2, <2>1, <2>3, UnchangedKept DEF PutOrder
  <2>4. CASE out # "dropped"
    <3>1. Written(r, r, row)
      BY <1>1, <1>2, <2>1, <2>4 DEF PutOrder, Written
    <3>2. QED BY <1>2, <2>1, <2>2, <2>4, <3>1 DEF row
  <2>5. QED BY <2>3, <2>4
<1>4. CASE WriteCompanions(r)
  <2> DEFINE o == OrderOf[r]
             row == [order[o] EXCEPT !.config = ConfigOf[r]]
  <2>1. PICK out \in Outcomes : /\ PutOrder(o, row, out) /\ UNCHANGED born
                                /\ edited' = IF out = "dropped" THEN edited ELSE edited \cup {o}
    BY <1>4 DEF WriteCompanions
  <2>2. KindOf[r] = "companions" /\ o \in Orders
    BY <1>4, OrderOfType DEF WriteCompanions
  <2> HIDE DEF row, o
  <2>3. CASE out = "dropped"
    BY <1>2, <2>1, <2>3, UnchangedKept DEF PutOrder
  <2>4. CASE out # "dropped"
    <3>1. Written(r, o, row)
      BY <1>1, <1>2, <2>1, <2>4 DEF PutOrder, Written
    <3>2. QED BY <1>2, <2>1, <2>2, <2>4, <3>1 DEF row, o
  <2>5. QED BY <2>3, <2>4
<1>5. QED BY <1>3, <1>4

\* Whoever writes is alone in its turn: nobody else is at the write.
LEMMA OneWriter ==
    ASSUME PlacesFit, NEW r \in Requests, req[r].pc = "write", StepOf(r), Ends(r), NEW s \in Requests
    PROVE  req'[s].pc # "write"
<1>1. CASE s = r
  BY <1>1 DEF Ends
<1>2. CASE s # r
  <2>1. req'[s] = req[s]
    BY <1>2 DEF StepOf, Alone
  <2>2. QED BY <1>2, <2>1 DEF PlacesFit, HasTurn
<1>3. QED BY <1>1, <1>2

\* The reservation that was found to fit is the only one that grows.
LEMMA WrittenFits ==
    ASSUME OrdersTypeOK, OrdersTypeOK', IsFiniteSet(Created), IsFiniteSet(Created'), PlacesFit, TimesFit, StillFits,
           NEW r \in Requests, NEW row, Written(r, OrderOf[r], row), row.config = ConfigOf[r]
    PROVE  DraftsFit'
<1> DEFINE o == OrderOf[r]
<1>1. /\ order \in [Orders -> Row] /\ order' \in [Orders -> Row]
      /\ IsFiniteSet(CreatedIn(order)) /\ IsFiniteSet(CreatedIn(order'))
  <2>1. CreatedIn(order) = Created /\ CreatedIn(order') = Created'
    BY DEF CreatedIn, Created
  <2>2. QED BY <2>1 DEF OrdersTypeOK
<1>2. /\ o \in Orders /\ order'[o].config = ConfigOf[r]
      /\ \A p \in Orders \ {o} : order'[p] = order[p]
  BY OrderOfType DEF Written
<1>3. /\ req[r].at <= now /\ req[r].at \in Nat /\ now \in Nat /\ req[r].fleet \in Nat
      /\ RamOf[ConfigOf[r]] \in Nat /\ Threshold \in Nat
  BY NumbersType DEF TimesFit
<1>4. Fits(req[r].fleet, RamIn(order, req[r].at, {o}), ConfigOf[r])
  BY RamInIs DEF StillFits, Written
<1> HIDE DEF o
<1>5. RamIn(order', now, {}) <= RamIn(order', now, {o}) + RamOf[ConfigOf[r]]
  BY <1>1, <1>2, RamAdds
<1>6. RamIn(order', now, {o}) <= RamIn(order, req[r].at, {o})
  <2>1. \A p \in Orders \ {o} : Live(order'[p], now) =>
           p \notin {o} /\ Live(order[p], req[r].at) /\ order'[p].config = order[p].config
    BY <1>2, <1>3, NumbersType DEF Live
  <2>2. QED BY <1>1, <2>1, RamShrinks
<1>7. /\ RamIn(order', now, {}) \in Nat /\ RamIn(order', now, {o}) \in Nat
      /\ RamIn(order, req[r].at, {o}) \in Nat
  BY <1>1, RamInType
<1>8. RamIn(order', now, {}) <= Threshold
  <2> DEFINE A == RamIn(order', now, {})
             B == RamIn(order', now, {o})
             C == RamIn(order, req[r].at, {o})
             c == RamOf[ConfigOf[r]]
  <2>1. A <= B + c /\ B <= C /\ req[r].fleet + C + c <= Threshold /\ A \in Nat /\ B \in Nat /\ C \in Nat /\ c \in Nat
    BY <1>3, <1>4, <1>5, <1>6, <1>7 DEF Fits
  <2> HIDE DEF A, B, C, c
  <2>2. A <= Threshold
    BY <1>3, <2>1
  <2>3. QED BY <2>2 DEF A
<1>9. QED BY <1>8 DEF DraftsFit, DraftRam, RamIn, LiveIn, Written

LEMMA WrittenDraft ==
    ASSUME DraftsInv, OrdersTypeOK', NEW r \in Requests, KindOf[r] = "create",
           Written(r, r, [NoRow(r) EXCEPT !.status = "Draft", !.expires = WholeSeconds(req[r].at + TTL)]),
           born' = [born EXCEPT ![r] = req[r].at], UNCHANGED <<edited, jobs>>
    PROVE  DraftsInv'
<1> DEFINE row == [NoRow(r) EXCEPT !.status = "Draft", !.expires = WholeSeconds(req[r].at + TTL)]
<1> USE DEF DraftsInv
<1>1. r \in Orders /\ OrderOf[r] = r /\ order[r].status = "none" /\ req[r].pc = "write" /\ now' = now
  BY OrderOfType DEF Orders, Written, OrdersFit
<1>2. row.status = "Draft" /\ row.config = ConfigOf[r] /\ row.expires = WholeSeconds(req[r].at + TTL)
  BY DEF NoRow
<1> HIDE DEF row
<1>3. /\ \A o \in Orders : order'[o] = IF o = r THEN row ELSE order[o]
      /\ \A o \in Orders : born'[o] = IF o = r THEN req[r].at ELSE born[o]
  BY <1>1 DEF Written, row, OrdersTypeOK
<1>4. PlacesFit'
  <2>1. \A o \in Orders : order[o].status # "none" => order'[o].status # "none"
    BY <1>2, <1>3
  <2>2. QED BY <2>1, PlacesKept DEF Written
<1>5. TimesFit'
  <2>1. ASSUME NEW s \in Requests, s # r
        PROVE  /\ req'[s] = req[s]
               /\ Renewing(s) \/ req[s].pc = "renew" => OrderOf[s] # r
    BY <1>1, <2>1 DEF Written, StepOf, Alone, PlacesFit, Renewing, Begun
  <2>2. req'[r].pc \in {"start", "done"} /\ req'[r].at <= now
    BY NumbersType DEF Written, Ends
  <2>3. QED BY <1>1, <1>3, <2>1, <2>2, OrderOfType DEF TimesFit, Renewing
<1>6. OrdersFit'
  <2>1. \A o \in Orders : o # r => req'[o] = req[o]
    BY DEF Written, StepOf, Alone, Orders
  <2>2. req'[r].pc = "done"
    BY DEF Written, Ends
  <2>3. req[r].at <= now
    BY DEF TimesFit
  <2>4. row.expires \in Nat /\ row.expires <= req[r].at + TTL /\ req[r].at + TTL < row.expires + Second
    <3>1. req[r].at + TTL \in Nat
      BY NumbersType
    <3>2. QED BY <1>2, <3>1, WholeSecondsAre
  <2>5. ASSUME NEW o \in Orders, o # r
        PROVE  /\ req'[o].pc # "done" => order'[o].status = "none"
               /\ order'[o].status # "none" => born'[o] <= now' /\ order'[o].expires + Second > born'[o] + TTL
               /\ order'[o].expires <= now' + TTL
               /\ o \notin edited' => order'[o].config = ConfigOf[o]
    BY <1>1, <1>3, <2>1, <2>5 DEF OrdersFit
  <2>6. /\ order'[r] = row /\ born'[r] = req[r].at
        /\ row.expires <= now + TTL
    BY <1>1, <1>3, <2>3, <2>4, NumbersType
  <2>7. QED BY <1>1, <1>2, <2>2, <2>3, <2>4, <2>5, <2>6 DEF OrdersFit
<1>7. StillNew' /\ StillFits'
  <2>1. \A s \in Requests : req'[s].pc # "write"
    BY <1>1, OneWriter DEF Written
  <2>2. QED BY <2>1 DEF StillNew, StillFits, Orders
<1>8. NoTwins'
  <2>1. ASSUME NEW o \in Orders, o # r, order[o].status = "Draft", o \notin edited, ConfigOf[o] = ConfigOf[r]
        PROVE  req[r].at + Second > born[o] + DedupWindow
    BY <1>1, <2>1 DEF StillNew
  <2>2. ASSUME NEW o \in Orders, NEW p \in Orders, order'[o].status = "Draft", order'[p].status = "Draft",
               ConfigOf[o] = ConfigOf[p], o \notin edited, p \notin edited,
               OneClick(o, p)', o # p
        PROVE  FALSE
    <3>1. CASE o = r
      BY <1>3, <2>1, <2>2, <3>1, NumbersType DEF OneClick
    <3>2. CASE p = r
      BY <1>3, <2>1, <2>2, <3>2, NumbersType DEF OneClick
    <3>3. CASE o # r /\ p # r
      BY <1>3, <2>2, <3>3 DEF NoTwins, OneClick
    <3>4. QED BY <3>1, <3>2, <3>3
  <2>3. QED BY <2>2 DEF NoTwins
<1>9. IsFiniteSet(Created)' /\ IsFiniteSet(jobs)'
  <2>1. Created' \subseteq Created \cup {r}
    BY <1>3 DEF Created
  <2>2. IsFiniteSet(Created \cup {r})
    BY FS_AddElement
  <2>3. QED BY <2>1, <2>2, FS_Subset
<1>10. ~LateRenewals => DraftsFit'
  BY <1>1, <1>2, <1>9, WrittenFits DEF row
<1>11. QED BY <1>4, <1>5, <1>6, <1>7, <1>8, <1>9, <1>10
LEMMA WrittenCompanions ==
    ASSUME DraftsInv, OrdersTypeOK', NEW r \in Requests, KindOf[r] = "companions",
           Written(r, OrderOf[r], [order[OrderOf[r]] EXCEPT !.config = ConfigOf[r]]),
           UNCHANGED born, edited' = edited \cup {OrderOf[r]}, UNCHANGED jobs
    PROVE  DraftsInv'
<1> DEFINE o == OrderOf[r]
           row == [order[o] EXCEPT !.config = ConfigOf[r]]
<1> USE DEF DraftsInv
<1>1. o \in Orders /\ order[o].status # "none" /\ req[r].pc = "write" /\ now' = now /\ order[o] \in Row
  BY OrderOfType DEF Written, PlacesFit, Begun, OrdersTypeOK
<1>2. row.status = order[o].status /\ row.config = ConfigOf[r] /\ row.expires = order[o].expires
  BY <1>1 DEF Row
<1> HIDE DEF row
<1>3. \A p \in Orders : order'[p] = IF p = o THEN row ELSE order[p]
  BY DEF Written, row
<1>4. \A p \in Orders : order'[p].status = order[p].status /\ order'[p].expires = order[p].expires
  BY <1>2, <1>3
<1>5. \A p \in Orders : p \notin edited' => p # o /\ p \notin edited /\ order'[p] = order[p]
  BY <1>3
<1>6. PlacesFit'
  BY <1>4, PlacesKept DEF Written
<1>7. TimesFit'
  <2>1. \A s \in Requests : s # r => req'[s] = req[s]
    BY DEF Written, StepOf, Alone
  <2>2. req'[r].pc \in {"start", "done"} /\ req'[r].at <= now
    BY NumbersType DEF Written, Ends
  <2>3. QED BY <1>1, <1>4, <2>1, <2>2, OrderOfType DEF TimesFit, Renewing
<1>8. OrdersFit'
  <2>1. \A p \in Orders : req'[p] = req[p]
    BY DEF Written, StepOf, Alone, Orders
  <2>2. QED BY <1>1, <1>4, <1>5, <2>1 DEF OrdersFit
<1>9. StillNew' /\ StillFits'
  <2>1. \A s \in Requests : req'[s].pc # "write"
    BY <1>1, OneWriter DEF Written
  <2>2. QED BY <2>1 DEF StillNew, StillFits, Orders
<1>10. NoTwins'
  BY <1>4, <1>5 DEF NoTwins, OneClick
<1>11. IsFiniteSet(Created)' /\ IsFiniteSet(jobs)'
  <2>1. Created' = Created
    BY <1>4 DEF Created
  <2>2. QED BY <2>1
<1>12. ~LateRenewals => DraftsFit'
  BY <1>2, <1>11, WrittenFits DEF row
<1>13. QED BY <1>6, <1>7, <1>8, <1>9, <1>10, <1>11, <1>12

LEMMA StepKeeps ==
    ASSUME DraftsInv, OrdersTypeOK', NEW r \in Requests, StepOf(r), Kept, now' = now, UNCHANGED jobs
    PROVE  DraftsInv'
<1> USE DEF DraftsInv
<1>1. PlacesFit'
  <2>1. \A o \in Orders : order[o].status # "none" => order'[o].status # "none"
    BY DEF Kept
  <2>2. QED BY <2>1, PlacesKept
<1>2. TimesFit' /\ OrdersFit' /\ StillNew' /\ NoTwins'
  BY TimesKept, OrdersKeptFit, NewKept, TwinsKept
<1>3. ~LateRenewals => StillFits' /\ DraftsFit'
  BY FitsKept
<1>4. IsFiniteSet(Created)' /\ IsFiniteSet(jobs)'
  <2>1. Created' = Created
    BY DEF Created, Kept
  <2>2. QED BY <2>1
<1>5. QED BY <1>1, <1>2, <1>3, <1>4

LEMMA ProceedKeeps ==
    ASSUME DraftsInv, OrdersTypeOK', NEW r \in Requests, Begin(r) \/ Proceed(r)
    PROVE  DraftsInv'
<1>1. CASE WriteDraft(r) \/ WriteCompanions(r)
  BY <1>1, WritesWell, StepKeeps, WrittenDraft, WrittenCompanions DEF DraftsInv
<1>2. CASE ~WriteDraft(r) /\ ~WriteCompanions(r)
  <2>1. StepOf(r) /\ Kept /\ now' = now /\ UNCHANGED jobs
    BY <1>2, ProceedsKept DEF DraftsInv
  <2>2. QED BY <2>1, StepKeeps
<1>3. QED BY <1>1, <1>2

\* Time passes: what lapses reserves nothing, and no renewal is kept waiting
\* unless renewals may be late.
LEMMA PassKeeps ==
    ASSUME DraftsInv, OrdersTypeOK', Pass
    PROVE  DraftsInv'
<1> USE DEF DraftsInv
<1>1. /\ UNCHANGED <<order, jobs, req, chain, born, edited>> /\ now' = now + 1
      /\ LateRenewals \/ \A r \in Requests : ~Renewing(r)
  BY DEF Pass
<1>2. PlacesFit' /\ StillNew' /\ NoTwins' /\ IsFiniteSet(Created)' /\ IsFiniteSet(jobs)'
  BY <1>1 DEF PlacesFit, HasTurn, Begun, StillNew, NoTwins, OneClick, Created
<1>3. TimesFit'
  <2>1. \A r \in Requests : req[r].pc = "renew" => Renewing(r)
    BY DEF PlacesFit, Renewing
  <2>2. \A r \in Requests : req[r].at <= now + 1
    BY NumbersType DEF TimesFit
  <2>3. QED BY <1>1, <2>1, <2>2 DEF TimesFit, Renewing
<1>4. OrdersFit'
  <2>1. ASSUME NEW o \in Orders
        PROVE  /\ order[o].status # "none" => born[o] <= now + 1
               /\ order[o].expires <= (now + 1) + TTL
    BY NumbersType DEF OrdersFit
  <2>2. QED BY <1>1, <2>1 DEF OrdersFit
<1>5. ~LateRenewals => StillFits' /\ DraftsFit'
  <2>1. SUFFICES ASSUME ~LateRenewals PROVE StillFits' /\ DraftsFit'
    OBVIOUS
  <2>2. StillFits'
    BY <1>1, <2>1 DEF StillFits, DraftRam
  <2>3. order \in [Orders -> Row] /\ IsFiniteSet(CreatedIn(order))
    BY DEF OrdersTypeOK, CreatedIn, Created
  <2>4. RamIn(order, now + 1, {}) <= RamIn(order, now, {})
    <3>1. \A o \in Orders \ {} : Live(order[o], now + 1) =>
             o \notin {} /\ Live(order[o], now) /\ order[o].config = order[o].config
      BY NumbersType DEF Live
    <3>2. QED BY <2>3, <3>1, RamShrinks
  <2>5. RamIn(order, now + 1, {}) \in Nat /\ RamIn(order, now, {}) \in Nat
    BY <2>3, RamInType
  <2>6. RamIn(order, now, {}) <= Threshold
    BY <2>1, RamInIs DEF DraftsFit
  <2>7. RamIn(order, now + 1, {}) <= Threshold
    BY <2>4, <2>5, <2>6, NumbersType
  <2>8. QED BY <1>1, <2>2, <2>7 DEF DraftsFit, DraftRam, RamIn, LiveIn
<1>6. QED BY <1>2, <1>3, <1>4, <1>5

\* A crash leaves nobody in the queue and nobody past its start.
LEMMA CrashKeeps ==
    ASSUME DraftsInv, OrdersTypeOK', Crash
    PROVE  DraftsInv'
<1> USE DEF DraftsInv
<1>1. UNCHANGED <<order, jobs, now, born, edited>>
  BY DEF Crash
<1>2. \A r \in Requests : req'[r] = IF Begun(r) THEN At(r, Ended(r)) ELSE req[r]
  BY DEF Crash
<1>3. \A r \in Requests :
        /\ req'[r].pc \in {"start", "done"} /\ req'[r].at <= now
        /\ KindOf[r] = "create" => req'[r].pc = "done" \/ req'[r] = req[r]
  <2>1. SUFFICES ASSUME NEW r \in Requests
                 PROVE  /\ req'[r].pc \in {"start", "done"} /\ req'[r].at <= now
                        /\ KindOf[r] = "create" => req'[r].pc = "done" \/ req'[r] = req[r]
    OBVIOUS
  <2>2. CASE Begun(r)
    <3>1. req'[r] = At(r, Ended(r))
      BY <1>2, <2>2
    <3>2. req'[r].pc = Ended(r) /\ req'[r].at = 0
      BY <3>1, EndedPc, AtType
    <3>3. QED BY <3>2, EndedPc, NumbersType DEF Ended
  <2>3. CASE ~Begun(r)
    <3>1. req'[r] = req[r]
      BY <1>2, <2>3
    <3>2. QED BY <2>3, <3>1 DEF Begun, TimesFit
  <2>4. QED BY <2>2, <2>3
<1>4. PlacesFit' /\ TimesFit' /\ StillNew' /\ StillFits'
  BY <1>1, <1>3 DEF PlacesFit, TimesFit, StillNew, StillFits, Begun, Renewing, Orders
<1>5. OrdersFit'
  BY <1>1, <1>3 DEF OrdersFit, Orders
<1>6. NoTwins' /\ IsFiniteSet(Created)' /\ IsFiniteSet(jobs)' /\ (DraftsFit => DraftsFit')
  BY <1>1 DEF NoTwins, OneClick, Created, DraftsFit, DraftRam
<1>7. QED BY <1>4, <1>5, <1>6

\* Payments, jobs and waiting change none of it.
LEMMA WorldKeeps ==
    ASSUME DraftsInv, OrdersTypeOK', (\E o \in Orders : Pay(o) \/ QueueJob(o)) \/ UNCHANGED ordersVars
    PROVE  DraftsInv'
<1> USE DEF DraftsInv
<1>1. /\ UNCHANGED <<order, req, chain, now, born, edited>>
      /\ UNCHANGED jobs \/ \E o \in Orders : jobs' = jobs \cup {o}
  BY DEF Pay, QueueJob, ordersVars
<1>2. IsFiniteSet(jobs)'
  BY <1>1, FS_AddElement
<1>3. QED BY <1>1, <1>2 DEF PlacesFit, HasTurn, Begun, TimesFit, Renewing, OrdersFit, StillNew, StillFits, NoTwins, OneClick,
                         Created, DraftsFit, DraftRam

LEMMA DraftsInvHolds == OrdersSpec => []DraftsInv
<1>1. OrdersInit => DraftsInv
  <2>1. SUFFICES ASSUME OrdersInit PROVE DraftsInv
    OBVIOUS
  <2>2. PICK scenario \in Visits : req = [r \in Requests |-> At(r, IF r \in scenario THEN "start" ELSE "done")]
    BY <2>1 DEF OrdersInit
  <2>3. \A r \in Requests : /\ req[r] \in Requested /\ req[r].pc \in {"start", "done"} /\ req[r].at = 0
    BY <2>2, AtType DEF Pc
  <2>4. /\ \A o \in Orders : order[o] = NoRow(o) /\ NoRow(o) \in Row /\ born[o] = 0
        /\ order = [o \in Orders |-> NoRow(o)]
    BY <2>1, ConfigType DEF OrdersInit, NoRow, Row, Orders
  <2>5. \A o \in Orders : order[o].status = "none" /\ order[o].expires = 0 /\ order[o].config = ConfigOf[o]
    BY <2>4 DEF NoRow
  <2>6. jobs = {} /\ chain = <<>> /\ now = 0 /\ mishaps = 0 /\ edited = {} /\ born = [o \in Orders |-> 0]
    BY <2>1 DEF OrdersInit
  <2>7. OrdersTypeOK
    <3>1. invoiceFor \in [Orders -> Invoiced]
      BY <2>1, ConfigType DEF OrdersInit, Invoiced, Orders
    <3>2. req \in [Requests -> Requested] /\ order \in [Orders -> Row]
      BY <2>2, <2>3, <2>4
    <3>3. chain \in Seq(Requests)
      BY <2>6
    <3>4. QED BY <2>6, <3>1, <3>2, <3>3 DEF OrdersTypeOK, Invoiced, Requested
  <2>8. PlacesFit /\ TimesFit /\ OrdersFit
    BY <2>3, <2>5, <2>6, <2>4, <2>7, NumbersType DEF PlacesFit, TimesFit, OrdersFit, Renewing, Begun
  <2>9. StillNew /\ NoTwins /\ StillFits
    BY <2>3, <2>5 DEF StillNew, NoTwins, StillFits, Orders
  <2>10. Created = {} /\ IsFiniteSet(Created) /\ IsFiniteSet(jobs)
    BY <2>5, <2>6, FS_EmptySet DEF Created
  <2>11. DraftsFit
    <3>1. {o \in Orders \ {} : Live(order[o], now)} = {}
      BY <2>5 DEF Live
    <3>2. DraftRam(now, {}) = 0
      BY <3>1, SumUnfolds, FS_EmptySet DEF DraftRam
    <3>3. QED BY <2>7, <3>2, NumbersType DEF DraftsFit
  <2>12. QED BY <2>7, <2>8, <2>9, <2>10, <2>11 DEF DraftsInv
<1>2. DraftsInv /\ [OrdersNext]_ordersVars => DraftsInv'
  <2>1. SUFFICES ASSUME DraftsInv, [OrdersNext]_ordersVars PROVE DraftsInv'
    OBVIOUS
  <2>2. OrdersTypeOK'
    BY <2>1, OrdersNextTyped DEF DraftsInv
  <2>3. QED BY <2>1, <2>2, ProceedKeeps, PassKeeps, CrashKeeps, WorldKeeps DEF OrdersNext, Quiet
<1>3. QED BY <1>1, <1>2, PTL DEF OrdersSpec

\* The rows, the invoices, the requests and the queue are of their types, and the
\* clock and the marks of the history are numbers and orders.
THEOREM CheckoutTypeCorrect == OrdersSpec => []OrdersTypeOK
<1>1. DraftsInv => OrdersTypeOK
  BY DEF DraftsInv
<1>2. QED BY <1>1, DraftsInvHolds, PTL

\* findRecentDuplicateDraft with createChain: whatever the clicks, crashes and
\* lost answers, two requests for one config that are a second less than
\* DEDUP_WINDOW_MS apart never both have a live Draft.  No assumption on how late
\* renewals are.  (The last second is what mysqlDatetime may cut off.)
THEOREM OneDraft == OrdersSpec => []OneDraftPerClick
<1>1. DraftsInv => OneDraftPerClick
  BY DEF DraftsInv, OrdersFit, NoTwins, OneDraftPerClick, Live
<1>2. QED BY <1>1, DraftsInvHolds, PTL

\* createOrder, setCompanions and the heartbeat: the live Drafts never reserve
\* more than the box has, if no reservation lapses while its renewal is under way.
THEOREM DraftsFitTheBox == ~LateRenewals => (OrdersSpec => []DraftsFit)
<1>1. SUFFICES ASSUME ~LateRenewals PROVE OrdersSpec => []DraftsFit
  OBVIOUS
<1>2. DraftsInv => DraftsFit
  BY <1>1 DEF DraftsInv
<1>3. QED BY <1>2, DraftsInvHolds, PTL

-----------------------------------------------------------------------------
(* AddonSavings: prices                                                        *)

LEMMA PricesType ==
    ASSUME NEW rows \in SUBSET Services
    PROVE  /\ Recurring(rows) \in Nat /\ Full(rows) \in Nat
           /\ rows # {} => Recurring(rows) >= 1 /\ Full(rows) >= 1
<1>1. IsFiniteSet(rows)
  BY CatalogAssumption, FS_Subset
<1>2. Monthly \in [Services -> Nat] /\ Setup \in [Services -> Nat]
  BY CatalogAssumption
<1>3. SumFunctionOnSet(Monthly, rows) \in Nat /\ SumFunctionOnSet(Setup, rows) \in Nat
  BY <1>1, <1>2, SumType
<1>4. ASSUME rows # {}
      PROVE  SumFunctionOnSet(Monthly, rows) >= 1
  <2>1. PICK s \in rows : TRUE
    BY <1>4
  <2>2. SumFunctionOnSet(Monthly, rows) = Monthly[s] + SumFunctionOnSet(Monthly, rows \ {s})
    BY <1>1, <1>2, SumRemove
  <2>3. SumFunctionOnSet(Monthly, rows \ {s}) \in Nat
    BY <1>1, <1>2, FS_Subset, SumType
  <2>4. Monthly[s] >= 1 /\ Monthly[s] \in Nat
    BY CatalogAssumption
  <2>5. QED BY <2>2, <2>3, <2>4
<1>5. QED BY <1>3, <1>4 DEF Recurring, Full

LEMMA SavingsType ==
    ASSUME NEW pairings \in SUBSET Pairings
    PROVE  Savings(pairings) \in Nat /\ Savings({}) = 0
<1>1. IsFiniteSet(pairings) /\ pairings \in SUBSET Services
  BY CatalogAssumption, FS_Subset DEF Pairings
<1>2. QED BY <1>1, CatalogAssumption, SumType, SumUnfolds, FS_EmptySet DEF Savings

LEMMA ReducedType ==
    ASSUME NEW known \in Nat, NEW off \in SUBSET Pairings
    PROVE  /\ Reduced(known, off) \in Nat
           /\ known >= 1 => Reduced(known, {}) = known
<1>1. \A n \in Int : Max({1, n}) = IF n > 1 THEN n ELSE 1
  <2>1. TAKE n \in Int
  <2> DEFINE m == IF n > 1 THEN n ELSE 1
  <2>2. m \in {1, n} /\ \A y \in {1, n} : m >= y
    OBVIOUS
  <2>3. \A x \in {1, n} : (\A y \in {1, n} : x >= y) => x = m
    OBVIOUS
  <2>4. QED BY <2>2, <2>3 DEF Max
<1>2. Savings(off) \in Nat /\ Savings({}) = 0
  BY SavingsType
<1>3. QED BY <1>1, <1>2 DEF Reduced

LEMMA RecordedType ==
    ASSUME NEW ledger \in SUBSET Entry, NEW i
    PROVE  /\ Recorded(ledger, i) \in SUBSET Pairings /\ Taken(ledger) \in SUBSET Pairings
           /\ \A s : s \in Recorded(ledger, i) <=> \E e \in ledger : e.pairing = s /\ e.invoice = i
           /\ \A s : s \in Taken(ledger) <=> \E e \in ledger : e.pairing = s
  BY DEF Recorded, Taken, Entry

LEMMA EntriesType ==
    ASSUME NEW pairings \in SUBSET Pairings, NEW i \in Calls
    PROVE  /\ Entries(pairings, i) \in SUBSET Entry
           /\ \A e : e \in Entries(pairings, i) <=> e \in Entry /\ e.pairing \in pairings /\ e.invoice = i
  BY DEF Entries, Entry

-----------------------------------------------------------------------------
(* AddonSavings: the inductive invariant                                       *)

Off(c) == Prior(c) \cup loc[c].fresh

\* Calls that interleave: none is a mergeOrderConfig, and one at most prepares the order.
Untangled ==
    \A s \in Scenarios : ~s.serial =>
       /\ \A c \in s.made : CallKind[c] # "merge"
       /\ \A c, d \in s.made : CallKind[c] = "prepare" /\ CallKind[d] = "prepare" => c = d

Running(c) == pc[c] \notin {"idle", "done"}
Preparing(c) == CallKind[c] = "prepare" /\ Running(c)
Buying(c) == CallKind[c] = "buy" /\ Running(c)
Ledger == checkout.config.ledger
OffLedger(c) == Recorded(Ledger, loc[c].inv)

\* The stages at which a call is inside the order's critical section, has an
\* invoice to work on, and has left that invoice at its full price.
Inside == {"claimed", "recorded", "released", "paid"}
Invoicing == {"read", "raise", "windows", "owned", "claim", "claimed", "record", "recorded", "amount",
              "release", "released", "attach", "link", "trim"}
Pricing == {"windows", "owned", "claim", "claimed", "record", "recorded", "amount"}
Releasing == {"release", "released"}
StagesOf(kind) == {"idle", "done"} \cup
    CASE kind = "buy" -> Invoicing \ {"record", "recorded", "link", "trim"}
      [] kind = "prepare" -> Invoicing \ {"read", "windows", "claim", "claimed", "attach", "trim"}
      [] kind = "delete" -> {"list", "visit", "trim"}
      [] kind = "paid" -> {"paid"}
      [] kind = "merge" -> {"merged"}

\* What a call works on.
CallFits(c) ==
    /\ pc[c] \in StagesOf(CallKind[c])
    /\ Preparing(c) => loc[c].inv = c
    /\ Preparing(c) /\ pc[c] \in {"record", "recorded", "amount"} \cup Releasing => loc[c].fresh \subseteq Companions
    /\ pc[c] = "claimed" => loc[c].fresh \cap Taken(loc[c].config.ledger) = {}
CallsKept == \A c \in Calls : CallFits(c)

\* A call works on invoices of calls that have begun.
Started ==
    /\ \A i \in Calls : invoice[i].status # "none" => pc[i] # "idle"
    /\ \A c \in Calls :
          /\ pc[c] \in Invoicing => loc[c].inv \in Calls /\ pc[loc[c].inv] # "idle"
          /\ pc[c] = "claimed" => loc[c].rows \subseteq Pairings
          /\ \A i \in loc[c].todo : pc[i] # "idle"

\* Who is inside, with the order as it is; and who runs at all.
TurnFits(c) ==
    /\ pc[c] \in Inside => lock = c
    /\ pc[c] \in Inside \cup {"merged"} => loc[c].config = checkout.config
    /\ pc[c] \in Releasing => failures > 0
    /\ ~serial /\ CallKind[c] = "merge" => pc[c] = "done"
Apart(c, d) ==
    /\ serial /\ Running(c) => ~Running(d)
    /\ ~serial /\ CallKind[c] = "prepare" /\ CallKind[d] = "prepare" => pc[c] = "done" \/ pc[d] = "done"
TurnsKept == (\A c \in Calls : TurnFits(c)) /\ (\A c, d \in Calls : c # d => Apart(c, d))

\* While an order is prepared it is a Draft without an invoice; savings are
\* claimed by purchases once it is paid.
OrderFits(c) ==
    /\ Preparing(c) => checkout.status = "Draft" /\ checkout.invoice = Nobody
    /\ pc[c] = "paid" => checkout.invoice # Nobody
    /\ Buying(c) /\ pc[c] \in (Pricing \ {"windows"}) \cup Releasing => checkout.status = "Paid"
    /\ pc[c] = "trim" => loc[c].fresh = {} \/ checkout.invoice = loc[c].inv
DraftFits ==
    /\ \A e \in Ledger : CallKind[e.invoice] = "prepare" /\ e.pairing \in Companions
    /\ \A i \in Calls : CallKind[i] # "prepare" => invoice[i].off = {}
OrderKept ==
    /\ \A c \in Calls : OrderFits(c)
    /\ checkout.invoice # Nobody => CallKind[checkout.invoice] = "prepare"
    /\ checkout.status = "Draft" => DraftFits
    /\ \A d, e \in Ledger : d.pairing = e.pairing => d = e

\* What a call is about to take off, or keep, is recorded.
SavingFits(c) ==
    /\ pc[c] \in Pricing \cup Releasing /\ (serial \/ CallKind[c] = "prepare")
          => invoice[loc[c].inv].off = {} \/ (pc[c] \in Releasing /\ loc[c].inv \in unsure)
    /\ Orderly =>
       /\ Buying(c) /\ pc[c] \in {"owned", "claim"} => Prior(c) \subseteq OffLedger(c)
       /\ pc[c] = "claimed" => loc[c].rows \subseteq OffLedger(c)
       /\ pc[c] = "amount" => Off(c) \subseteq OffLedger(c)
       /\ pc[c] = "trim" => loc[c].fresh \subseteq OffLedger(c)
       /\ pc[c] = "link" => invoice[c].off \subseteq Recorded(Ledger, c)
SavingsKept == (\A c \in Calls : SavingFits(c)) /\ DiscountsRecorded

\* One call at a time, and no failed requests: an invoice a call works on has
\* its full price, and the call knows what to take off it.
Undisturbed == serial /\ failures = 0
Quoted(i) == invoice[i].amount = Reduced(Full(invoice[i].rows), Recorded(Ledger, i))
Plain(doc, known) == doc.status # "none" /\ doc.rows # {} /\ doc.amount = Full(doc.rows) /\ known = Full(doc.rows)
PriceFits(c) ==
    Undisturbed =>
       /\ pc[c] = "idle" \/ (pc[c] = "raise" /\ CallKind[c] = "prepare") => invoice[c].status = "none"
       /\ pc[c] \in Pricing => Plain(invoice[loc[c].inv], loc[c].known)
       /\ Buying(c) /\ pc[c] \in {"read", "raise", "windows"} /\ checkout.invoice = loc[c].inv => Companions = {}
       /\ Buying(c) /\ pc[c] \in {"owned", "claim"} => Prior(c) = OffLedger(c)
       /\ pc[c] = "claimed" => loc[c].rows = OffLedger(c)
       /\ pc[c] = "amount" => Off(c) = OffLedger(c)
       /\ Preparing(c) /\ pc[c] \in {"raise", "owned", "record", "recorded"} => Recorded(Ledger, c) = {}
       /\ pc[c] = "link" => Quoted(c)
Settled(i) == i \notin trimmed /\ Standing(i) /\ (\A c \in Calls : pc[c] \in Pricing => loc[c].inv # i)
PricesKept ==
    /\ \A c \in Calls : PriceFits(c)
    /\ Undisturbed =>
       /\ \A e \in Ledger : invoice[e.invoice].status # "none"
       /\ \A i \in Calls : Settled(i) => Quoted(i)

SavingsInv == TypeOK /\ CallsKept /\ TurnsKept /\ OrderKept /\ SavingsKept /\ PricesKept

-----------------------------------------------------------------------------
(* AddonSavings: well typed                                                    *)

\* A call moves to a stage, and the others stay where they are.
Moves(c, at, l) ==
    /\ pc' \in [Calls -> Stages] /\ loc' \in [Calls -> Local]
    /\ pc'[c] = at /\ loc'[c] = l
    /\ \A d \in Calls \ {c} : pc'[d] = pc[d] /\ loc'[d] = loc[d]

LEMMA NoLocalType == NoLocal \in Local
  BY DEF NoLocal, Local, Config

LEMMA ContinueMoves ==
    ASSUME TypeOK, NEW c \in Calls, NEW at \in Stages, NEW l \in Local, Continue(c, at, l)
    PROVE  Moves(c, at, l)
  BY DEF TypeOK, Continue, MoveTo, Moves

LEMMA FinishMoves ==
    ASSUME TypeOK, NEW c \in Calls, Finish(c)
    PROVE  Moves(c, "done", NoLocal)
  BY NoLocalType DEF TypeOK, Finish, MoveTo, Moves, Stages

LEMMA ReadOrMoves ==
    ASSUME TypeOK, NEW c \in Calls, NEW at \in Stages, NEW l \in Local, ReadOr(c, at, l)
    PROVE  /\ failures' \in 0 .. MaxFailures /\ failures' >= failures
           /\ \/ Moves(c, at, l) /\ failures' = failures
              \/ Moves(c, "done", NoLocal) /\ failures' > failures
<1>1. failures \in 0 .. MaxFailures /\ MaxFailures \in Nat
  BY CatalogAssumption DEF TypeOK
<1>2. QED BY <1>1, ContinueMoves, FinishMoves DEF ReadOr

LEMMA ChargeType ==
    ASSUME TypeOK, NEW answer \in Answers, Charge(answer)
    PROVE  /\ failures' \in 0 .. MaxFailures /\ failures' >= failures
           /\ answer \in {"ok", "refused", "lost"}
           /\ answer # "ok" => failures' > failures
           /\ answer = "ok" => failures' = failures
<1>1. failures \in 0 .. MaxFailures /\ MaxFailures \in Nat
  BY CatalogAssumption DEF TypeOK
<1>2. QED BY <1>1 DEF Charge, Answers

\* A call goes on, or an error ends it.
Either(c, at, l) ==
    \/ Moves(c, at, l) /\ failures' = failures
    \/ Moves(c, "done", NoLocal) /\ failures' > failures

Counted == failures' \in 0 .. MaxFailures /\ failures' >= failures
Typed == TypeOK' /\ failures' >= failures

LEMMA ReadOrEither ==
    ASSUME TypeOK, NEW c \in Calls, NEW at \in Stages, NEW l \in Local, ReadOr(c, at, l),
           UNCHANGED <<checkout, invoice, owned, lock, serial, unsure, trimmed>>
    PROVE  Typed /\ Either(c, at, l)
<1>1. Either(c, at, l) /\ Counted
  BY ReadOrMoves DEF Either, Counted
<1>2. pc' \in [Calls -> Stages] /\ loc' \in [Calls -> Local]
  BY <1>1 DEF Either, Moves
<1>3. TypeOK'
  BY <1>1, <1>2 DEF TypeOK, Counted
<1>4. QED BY <1>1, <1>3 DEF Typed, Counted

LEMMA EditedType ==
    ASSUME NEW l \in Local, NEW rows \in SUBSET Services, NEW known \in Nat, NEW fresh \in SUBSET Pairings,
           NEW config \in Config
    PROVE  /\ [l EXCEPT !.rows = rows, !.known = known] \in Local
           /\ [l EXCEPT !.fresh = fresh, !.rows = rows, !.config = config] \in Local
  BY DEF Local

LEMMA LocType ==
    ASSUME TypeOK, NEW c \in Calls
    PROVE  /\ loc[c] \in Local
           /\ loc[c].inv \in Calls \cup {Nobody} /\ loc[c].rows \in SUBSET Services /\ loc[c].known \in Nat
           /\ loc[c].config.ledger \in SUBSET Entry /\ loc[c].config.marks \in SUBSET Calls
           /\ loc[c].fresh \in SUBSET Pairings /\ loc[c].todo \in SUBSET Calls
           /\ checkout.config.ledger \in SUBSET Entry
  BY DEF TypeOK, Local, Config

LEMMA BuyStep ==
    ASSUME TypeOK, NEW c \in Calls, Buy(c)
    PROVE  /\ Typed /\ UNCHANGED <<checkout, invoice, owned, lock, serial, unsure, trimmed>>
           /\ \/ Either(c, "raise", [loc[c] EXCEPT !.inv = c])
              \/ \E i \in Calls : /\ invoice[i].status = "Unpaid"
                                  /\ Either(c, "read", [loc[c] EXCEPT !.inv = i]) /\ Mergeable(i)
<1> DEFINE l(i) == [loc[c] EXCEPT !.inv = i]
<1>1. \A i \in Calls : l(i) \in Local
  BY LocType DEF Local
<1>2. {"raise", "read"} \subseteq Stages
  BY DEF Stages
<1>3. \/ ReadOr(c, "raise", l(c))
      \/ \E i \in Calls : invoice[i].status = "Unpaid" /\ Mergeable(i) /\ ReadOr(c, "read", l(i))
  BY DEF Buy
<1>4. UNCHANGED <<checkout, invoice, owned, lock, serial, unsure, trimmed>>
  BY DEF Buy
<1> HIDE DEF l
<1>5. \A i \in Calls, at \in {"raise", "read"} : ReadOr(c, at, l(i)) => Typed /\ Either(c, at, l(i))
  BY <1>1, <1>2, <1>4, ReadOrEither
<1>6. QED BY <1>3, <1>4, <1>5 DEF l

LEMMA ReadOpenStep ==
    ASSUME TypeOK, Started, NEW c \in Calls, ReadOpen(c)
    PROVE  /\ Typed /\ UNCHANGED <<checkout, invoice, owned, lock, serial, unsure, trimmed>>
           /\ Either(c, "raise", [loc[c] EXCEPT !.rows = invoice[loc[c].inv].rows])
<1> DEFINE l == [loc[c] EXCEPT !.rows = invoice[loc[c].inv].rows]
<1>1. loc[c].inv \in Calls
  BY DEF ReadOpen, Started, Invoicing
<1>2. invoice[loc[c].inv].rows \in SUBSET Services
  BY <1>1 DEF TypeOK, Invoice
<1>3. l \in Local
  BY <1>2, LocType DEF Local
<1>4. "raise" \in Stages
  BY DEF Stages
<1>5. ReadOr(c, "raise", l) /\ UNCHANGED <<checkout, invoice, owned, lock, serial, unsure, trimmed>>
  BY DEF ReadOpen
<1> HIDE DEF l
<1>6. QED BY <1>3, <1>4, <1>5, ReadOrEither DEF l

\* The invoice as a purchase stores it.
Raised(c) == [status |-> "Unpaid", rows |-> loc[c].rows \cup Wanted(c), amount |-> Full(loc[c].rows \cup Wanted(c)),
              off |-> {}]
Priced(c) == [loc[c] EXCEPT !.rows = loc[c].rows \cup Wanted(c), !.known = Full(loc[c].rows \cup Wanted(c))]

LEMMA RaisedType ==
    ASSUME TypeOK, NEW c \in Calls
    PROVE  /\ Raised(c) \in Invoice /\ Priced(c) \in Local /\ loc[c].rows \cup Wanted(c) \in SUBSET Services
           /\ Priced(c).inv = loc[c].inv /\ Priced(c).config = loc[c].config /\ Priced(c).fresh = loc[c].fresh
           /\ Priced(c).rows = loc[c].rows \cup Wanted(c) /\ Priced(c).known = Full(loc[c].rows \cup Wanted(c))
<1>1. Wanted(c) \in SUBSET Services
  BY CatalogAssumption DEF Wanted
<1>2. loc[c].rows \cup Wanted(c) \in SUBSET Services
  BY <1>1, LocType
<1>3. Full(loc[c].rows \cup Wanted(c)) \in Nat
  BY <1>2, PricesType
<1>4. Raised(c) \in Invoice
  <2>1. {} \in SUBSET Pairings /\ "Unpaid" \in {"none", "Unpaid", "Paid", "Deleted"}
    OBVIOUS
  <2> DEFINE rows == loc[c].rows \cup Wanted(c)
             amount == Full(rows)
  <2>2. rows \in SUBSET Services /\ amount \in Nat
    BY <1>2, <1>3
  <2>3. Raised(c) = [status |-> "Unpaid", rows |-> rows, amount |-> amount, off |-> {}]
    BY DEF Raised
  <2> HIDE DEF rows, amount
  <2>4. QED BY <2>1, <2>2, <2>3 DEF Invoice
<1>5. Priced(c) \in Local
  BY <1>2, <1>3, LocType, EditedType, CatalogAssumption DEF Priced, TypeOK
<1>6. QED BY <1>2, <1>4, <1>5, LocType DEF Priced, Local

LEMMA RaiseStep ==
    ASSUME TypeOK, Started, NEW c \in Calls, Raise(c)
    PROVE  /\ Typed /\ UNCHANGED <<checkout, owned, lock, serial, unsure>>
           /\ Either(c, IF CallKind[c] = "prepare" THEN "owned" ELSE "windows", Priced(c))
           /\ loc[c].inv \in Calls
           /\ \/ invoice' = invoice /\ trimmed' = trimmed /\ failures' > failures
              \/ invoice' = [invoice EXCEPT ![loc[c].inv] = Raised(c)]
           /\ trimmed' \subseteq trimmed /\ trimmed \ trimmed' \subseteq {loc[c].inv}
<1> DEFINE at == IF CallKind[c] = "prepare" THEN "owned" ELSE "windows"
<1>1. loc[c].inv \in Calls
  BY DEF Raise, Started, Invoicing
<1>2. PICK answer \in Answers :
         /\ Charge(answer)
         /\ invoice' = IF Stored(answer) THEN [invoice EXCEPT ![loc[c].inv] = Raised(c)] ELSE invoice
         /\ IF answer = "ok" THEN Continue(c, at, Priced(c)) ELSE Finish(c)
  BY DEF Raise, Raised, Priced
<1>3. trimmed' = IF invoice' = invoice THEN trimmed ELSE trimmed \ {loc[c].inv}
  BY DEF Raise
<1>4. UNCHANGED <<checkout, owned, lock, serial, unsure>>
  BY DEF Raise
<1>5. Raised(c) \in Invoice /\ Priced(c) \in Local
  BY RaisedType
<1>6. at \in Stages
  BY DEF Stages
<1> HIDE DEF at
<1>7. Either(c, at, Priced(c)) /\ Counted
  BY <1>2, <1>5, <1>6, ChargeType, ContinueMoves, FinishMoves DEF Either, Counted
<1>8. invoice' \in [Calls -> Invoice]
  BY <1>1, <1>2, <1>5 DEF TypeOK
<1>9. pc' \in [Calls -> Stages] /\ loc' \in [Calls -> Local]
  BY <1>7 DEF Either, Moves
<1>10. TypeOK'
  BY <1>3, <1>4, <1>7, <1>8, <1>9 DEF TypeOK, Counted
<1>11. \/ invoice' = invoice /\ trimmed' = trimmed /\ failures' > failures
       \/ invoice' = [invoice EXCEPT ![loc[c].inv] = Raised(c)]
  BY <1>2, <1>3, ChargeType DEF Stored
<1>12. QED BY <1>1, <1>3, <1>4, <1>7, <1>10, <1>11 DEF Typed, Counted, at

LEMMA WindowsStep ==
    ASSUME TypeOK, NEW c \in Calls, Windows(c)
    PROVE  /\ Typed /\ UNCHANGED <<checkout, invoice, owned, lock, serial, unsure, trimmed>>
           /\ \/ checkout.status = "Paid" /\ Either(c, "owned", [loc[c] EXCEPT !.config = checkout.config])
              \/ checkout.status = "Draft" /\ Either(c, "attach", loc[c])
<1>1. {"owned", "attach"} \subseteq Stages
  BY DEF Stages
<1>2. checkout.config \in Config /\ checkout.status \in {"Draft", "Paid"}
  BY DEF TypeOK
<1> DEFINE l == [loc[c] EXCEPT !.config = checkout.config]
<1>3. l \in Local
  BY <1>2, LocType DEF Local
<1>4. UNCHANGED <<checkout, invoice, owned, lock, serial, unsure, trimmed>>
  BY DEF Windows
<1>5. \/ checkout.status = "Paid" /\ ReadOr(c, "owned", l)
      \/ checkout.status = "Draft" /\ ReadOr(c, "attach", loc[c])
  BY <1>2 DEF Windows
<1> HIDE DEF l
<1>6. QED BY <1>1, <1>3, <1>4, <1>5, LocType, ReadOrEither DEF l

FreshFor(c) == ((Wants[c] \cap Pairings) \ owned) \ Taken(loc[c].config.ledger)

\* With no new saving, the earlier ones of the invoice are taken off again.
Without(c) == [loc[c] EXCEPT !.fresh = {}]
GoesWithout(c) ==
    \/ Prior(c) = {} /\ Either(c, "attach", Without(c))
    \/ Prior(c) # {} /\ Either(c, "amount", Without(c))

LEMMA WithoutStep ==
    ASSUME TypeOK, NEW c \in Calls, ReadOr(c, IF Prior(c) = {} THEN "attach" ELSE "amount", Without(c)),
           UNCHANGED <<checkout, invoice, owned, lock, serial, unsure, trimmed>>
    PROVE  Typed /\ GoesWithout(c)
<1>1. {"attach", "amount"} \subseteq Stages
  BY DEF Stages
<1>2. Without(c) \in Local
  BY LocType DEF Without, Local
<1>3. QED BY <1>1, <1>2, ReadOrEither DEF GoesWithout

LEMMA OfferStep ==
    ASSUME TypeOK, NEW c \in Calls, Offer(c)
    PROVE  /\ Typed /\ UNCHANGED <<checkout, invoice, owned, lock, serial, unsure, trimmed>>
           /\ \/ GoesWithout(c)
              \/ Either(c, "claim", [loc[c] EXCEPT !.fresh = FreshFor(c)])
<1>1. "claim" \in Stages
  BY DEF Stages
<1> DEFINE l == [loc[c] EXCEPT !.fresh = FreshFor(c)]
<1>2. FreshFor(c) \in SUBSET Pairings
  BY DEF FreshFor
<1>3. l \in Local
  BY <1>2, LocType DEF Local
<1>4. UNCHANGED <<checkout, invoice, owned, lock, serial, unsure, trimmed>>
  BY DEF Offer
<1>5. \/ ReadOr(c, "claim", l)
      \/ ReadOr(c, IF Prior(c) = {} THEN "attach" ELSE "amount", Without(c))
  BY DEF Offer, FreshFor, Prior, Without
<1> HIDE DEF l
<1>6. QED BY <1>1, <1>3, <1>4, <1>5, ReadOrEither, WithoutStep DEF l

\* Entering the critical section with the order as it is.
Enters(c, at, l) ==
    /\ lock = Nobody
    /\ \/ Moves(c, at, l) /\ failures' = failures /\ lock' = c
       \/ Moves(c, "done", NoLocal) /\ failures' > failures /\ lock' = lock

LEMMA EnterStep ==
    ASSUME TypeOK, NEW c \in Calls, NEW at \in Stages, NEW l \in Local, Enter(c, at, l, Finish(c)),
           UNCHANGED <<checkout, invoice, owned, serial, unsure, trimmed>>
    PROVE  Typed /\ Enters(c, at, l)
<1>1. failures \in 0 .. MaxFailures /\ MaxFailures \in Nat
  BY CatalogAssumption DEF TypeOK
<1>2. Enters(c, at, l) /\ Counted
  BY <1>1, ContinueMoves, FinishMoves DEF Enter, Enters, Counted
<1>3. pc' \in [Calls -> Stages] /\ loc' \in [Calls -> Local] /\ lock' \in Calls \cup {Nobody}
  BY <1>2 DEF Enters, Moves, TypeOK
<1>4. TypeOK'
  BY <1>2, <1>3 DEF TypeOK, Counted
<1>5. QED BY <1>2, <1>4 DEF Typed, Counted

FreshClaim(c) == loc[c].fresh \ Taken(checkout.config.ledger)
Claiming(c) == [loc[c] EXCEPT !.fresh = FreshClaim(c), !.rows = Prior(c), !.config = checkout.config]

LEMMA ClaimReadStep ==
    ASSUME TypeOK, NEW c \in Calls, ClaimRead(c)
    PROVE  /\ Typed /\ UNCHANGED <<checkout, invoice, owned, serial, unsure, trimmed>>
           /\ \/ UNCHANGED lock /\ GoesWithout(c)
              \/ Enters(c, "claimed", Claiming(c))
           /\ Claiming(c) \in Local
<1>1. "claimed" \in Stages
  BY DEF Stages
<1>2. FreshClaim(c) \in SUBSET Pairings
  BY LocType DEF FreshClaim
<1>3. Prior(c) \in SUBSET Pairings
  BY LocType, RecordedType DEF Prior
<1>4. Prior(c) \in SUBSET Services
  BY <1>3 DEF Pairings
<1>5. Claiming(c) \in Local
  BY <1>2, <1>4, LocType, EditedType DEF Claiming, TypeOK
<1>6. UNCHANGED <<checkout, invoice, owned, serial, unsure, trimmed>>
  BY DEF ClaimRead
<1>7. \/ UNCHANGED lock /\ ReadOr(c, IF Prior(c) = {} THEN "attach" ELSE "amount", Without(c))
      \/ Enter(c, "claimed", Claiming(c), Finish(c))
  BY DEF ClaimRead, FreshClaim, StillFree, Claiming, Without
<1>8. QED BY <1>1, <1>5, <1>6, <1>7, EnterStep, WithoutStep

Refreshed(c) == [loc[c] EXCEPT !.config = checkout.config]

LEMMA FreshConfig ==
    ASSUME TypeOK, NEW c \in Calls
    PROVE  Refreshed(c) \in Local
<1>1. checkout.config \in Config
  BY DEF TypeOK
<1>2. QED BY <1>1, LocType DEF Refreshed, Local

LEMMA RecordReadStep ==
    ASSUME TypeOK, NEW c \in Calls, RecordRead(c)
    PROVE  /\ Typed /\ UNCHANGED <<checkout, invoice, owned, serial, unsure, trimmed>>
           /\ Enters(c, "recorded", Refreshed(c))
<1>1. "recorded" \in Stages
  BY DEF Stages
<1>2. Enter(c, "recorded", Refreshed(c), Finish(c)) /\ UNCHANGED <<checkout, invoice, owned, serial, unsure, trimmed>>
  BY DEF RecordRead, Refreshed
<1>3. QED BY <1>1, <1>2, FreshConfig, EnterStep

LEMMA ReleaseReadStep ==
    ASSUME TypeOK, NEW c \in Calls, ReleaseRead(c)
    PROVE  /\ Typed /\ UNCHANGED <<checkout, invoice, owned, serial, unsure, trimmed>>
           /\ Enters(c, "released", Refreshed(c))
<1>1. "released" \in Stages
  BY DEF Stages
<1>2. Enter(c, "released", Refreshed(c), Finish(c)) /\ UNCHANGED <<checkout, invoice, owned, serial, unsure, trimmed>>
  BY DEF ReleaseRead, Refreshed
<1>3. QED BY <1>1, <1>2, FreshConfig, EnterStep

LEMMA MarkPaidStep ==
    ASSUME TypeOK, NEW c \in Calls, MarkPaid(c)
    PROVE  /\ Typed /\ UNCHANGED <<checkout, invoice, owned, serial, unsure, trimmed>>
           /\ Enters(c, "paid", Refreshed(c))
<1>1. "paid" \in Stages
  BY DEF Stages
<1>2. Enter(c, "paid", Refreshed(c), Finish(c)) /\ UNCHANGED <<checkout, invoice, owned, serial, unsure, trimmed>>
  BY DEF MarkPaid, Refreshed
<1>3. QED BY <1>1, <1>2, FreshConfig, EnterStep

\* The ledger is written, or the write fails.
Rewrites(ledger) ==
    \/ checkout' = checkout /\ failures' > failures
    \/ checkout'.status = checkout.status /\ checkout'.invoice = checkout.invoice /\ Ledger' = ledger

LEMMA LeaveStep ==
    ASSUME TypeOK, NEW c \in Calls, NEW at \in Stages, NEW l \in Local, NEW ledger \in SUBSET Entry,
           Leave(c, ledger, Continue(c, at, l), Finish(c)),
           UNCHANGED <<invoice, owned, serial, unsure, trimmed>>
    PROVE  Typed /\ lock' = Nobody /\ Rewrites(ledger) /\ Either(c, at, l)
<1> DEFINE config == [loc[c].config EXCEPT !.ledger = ledger]
<1>1. PICK answer \in Answers :
         /\ Charge(answer)
         /\ checkout' = IF Stored(answer) THEN [checkout EXCEPT !.config = config] ELSE checkout
         /\ lock' = Nobody
         /\ IF answer = "ok" THEN Continue(c, at, l) ELSE Finish(c)
  BY DEF Leave
<1>2. loc[c].config \in Config
  BY LocType DEF Local
<1>3. config \in Config /\ config.ledger = ledger
  BY <1>2 DEF Config
<1> HIDE DEF config
<1>4. Either(c, at, l) /\ Counted
  BY <1>1, ChargeType, ContinueMoves, FinishMoves DEF Either, Counted
<1>5. pc' \in [Calls -> Stages] /\ loc' \in [Calls -> Local]
  BY <1>4 DEF Either, Moves
<1>6. checkout' \in [status : {"Draft", "Paid"}, invoice : Calls \cup {Nobody}, config : Config]
  BY <1>1, <1>3 DEF TypeOK
<1>7. TypeOK'
  BY <1>1, <1>4, <1>5, <1>6 DEF TypeOK, Counted
<1>8. Rewrites(ledger)
  BY <1>1, <1>3, ChargeType DEF Rewrites, Ledger, Stored, TypeOK
<1>9. QED BY <1>1, <1>4, <1>7, <1>8 DEF Typed, Counted

\* What a purchase keeps once its claim is written: its earlier savings, as the ledger.
Keeping(c, ledger) == [loc[c] EXCEPT !.config.ledger = ledger]

LEMMA KeepingType ==
    ASSUME TypeOK, NEW c \in Calls, NEW ledger \in SUBSET Entry
    PROVE  /\ Keeping(c, ledger) \in Local /\ Keeping(c, ledger).config.ledger = ledger
           /\ Keeping(c, ledger).inv = loc[c].inv /\ Keeping(c, ledger).fresh = loc[c].fresh
           /\ Keeping(c, ledger).known = loc[c].known
<1> DEFINE config == [loc[c].config EXCEPT !.ledger = ledger]
<1>1. loc[c] \in Local /\ loc[c].config \in Config
  BY LocType DEF Local
<1>2. config \in Config /\ config.ledger = ledger
  BY <1>1 DEF Config
<1>3. Keeping(c, ledger) = [loc[c] EXCEPT !.config = config]
  BY <1>1 DEF Keeping, Local
<1> HIDE DEF config
<1>4. QED BY <1>1, <1>2, <1>3 DEF Local

Claimed(c) == loc[c].config.ledger \cup Entries(loc[c].fresh, loc[c].inv)
Replaced(c) == {e \in loc[c].config.ledger : e.pairing \notin loc[c].fresh} \cup Entries(loc[c].fresh, loc[c].inv)
Released(c) == loc[c].config.ledger \ Entries(loc[c].fresh, loc[c].inv)
RowsEntries(c) == Entries(loc[c].rows, loc[c].inv)

LEMMA ClaimWriteStep ==
    ASSUME TypeOK, Started, NEW c \in Calls, ClaimWrite(c)
    PROVE  /\ Typed /\ UNCHANGED <<invoice, owned, serial, unsure, trimmed>>
           /\ loc[c].inv \in Calls /\ loc[c].rows \in SUBSET Pairings
           /\ lock' = Nobody /\ Rewrites(Claimed(c)) /\ Either(c, "amount", Keeping(c, RowsEntries(c)))
<1>1. "amount" \in Stages
  BY DEF Stages
<1>2. loc[c].inv \in Calls /\ loc[c].rows \in SUBSET Pairings
  BY DEF ClaimWrite, Started, Invoicing
<1>3. Claimed(c) \in SUBSET Entry /\ RowsEntries(c) \in SUBSET Entry
  BY <1>2, LocType, EntriesType DEF Claimed, RowsEntries
<1>4. Leave(c, Claimed(c), Continue(c, "amount", Keeping(c, RowsEntries(c))), Finish(c))
  BY DEF ClaimWrite, Claimed, Keeping, RowsEntries
<1>5. UNCHANGED <<invoice, owned, serial, unsure, trimmed>>
  BY DEF ClaimWrite
<1>6. QED BY <1>1, <1>2, <1>3, <1>4, <1>5, KeepingType, LeaveStep

LEMMA RecordWriteStep ==
    ASSUME TypeOK, Started, NEW c \in Calls, RecordWrite(c)
    PROVE  /\ Typed /\ UNCHANGED <<invoice, owned, serial, unsure, trimmed>>
           /\ loc[c].inv \in Calls
           /\ lock' = Nobody /\ Rewrites(Replaced(c)) /\ Either(c, "amount", Keeping(c, {}))
<1>1. "amount" \in Stages
  BY DEF Stages
<1>2. loc[c].inv \in Calls
  BY DEF RecordWrite, Started, Invoicing
<1>3. Replaced(c) \in SUBSET Entry /\ {} \in SUBSET Entry
  BY <1>2, LocType, EntriesType DEF Replaced
<1>4. Leave(c, Replaced(c), Continue(c, "amount", Keeping(c, {})), Finish(c))
  BY DEF RecordWrite, Replaced, Keeping
<1>5. UNCHANGED <<invoice, owned, serial, unsure, trimmed>>
  BY DEF RecordWrite
<1>6. QED BY <1>1, <1>2, <1>3, <1>4, <1>5, KeepingType, LeaveStep

LEMMA ReleaseWriteStep ==
    ASSUME TypeOK, Started, NEW c \in Calls, ReleaseWrite(c)
    PROVE  /\ Typed /\ UNCHANGED <<invoice, owned, serial, unsure, trimmed>>
           /\ loc[c].inv \in Calls
           /\ lock' = Nobody /\ Rewrites(Released(c)) /\ Moves(c, "done", NoLocal)
<1>1. "done" \in Stages
  BY DEF Stages
<1>2. loc[c].inv \in Calls
  BY DEF ReleaseWrite, Started, Invoicing
<1>3. Released(c) \in SUBSET Entry
  BY LocType DEF Released
<1>4. Finish(c) <=> Continue(c, "done", NoLocal)
  BY DEF Finish, Continue
<1>5. Leave(c, Released(c), Continue(c, "done", NoLocal), Finish(c))
  BY <1>4 DEF ReleaseWrite, Released, Leave
<1>6. UNCHANGED <<invoice, owned, serial, unsure, trimmed>>
  BY DEF ReleaseWrite
<1>7. QED BY <1>1, <1>2, <1>3, <1>5, <1>6, NoLocalType, LeaveStep DEF Either

LEMMA PlanStep ==
    ASSUME TypeOK, NEW c \in Calls, Plan(c)
    PROVE  /\ Typed /\ UNCHANGED <<checkout, invoice, lock, serial, failures, unsure, trimmed>>
           /\ \/ Moves(c, "record", [loc[c] EXCEPT !.fresh = Companions \cap Pairings])
              \/ Moves(c, "link", loc[c])
<1> DEFINE l == [loc[c] EXCEPT !.fresh = Companions \cap Pairings]
<1>1. {"record", "link"} \subseteq Stages
  BY DEF Stages
<1>2. l \in Local /\ loc[c] \in Local
  BY LocType DEF Local
<1>3. UNCHANGED <<checkout, invoice, lock, serial, failures, unsure, trimmed>> /\ owned' = owned \cup loc[c].rows
  BY DEF Plan
<1>4. Continue(c, "record", l) \/ Continue(c, "link", loc[c])
  BY DEF Plan
<1> HIDE DEF l
<1>5. Moves(c, "record", l) \/ Moves(c, "link", loc[c])
  BY <1>1, <1>2, <1>4, ContinueMoves
<1>6. pc' \in [Calls -> Stages] /\ loc' \in [Calls -> Local]
  BY <1>5 DEF Moves
<1>7. TypeOK'
  BY <1>3, <1>6, LocType DEF TypeOK
<1>8. failures' >= failures
  BY <1>3, CatalogAssumption DEF TypeOK
<1>9. QED BY <1>3, <1>5, <1>7, <1>8 DEF Typed, l

Discounted(c) == [invoice[loc[c].inv] EXCEPT !.amount = Reduced(loc[c].known, Off(c)), !.off = Off(c)]

LEMMA DiscountedType ==
    ASSUME TypeOK, NEW c \in Calls, loc[c].inv \in Calls
    PROVE  /\ Off(c) \in SUBSET Pairings /\ Discounted(c) \in Invoice
           /\ Discounted(c).status = invoice[loc[c].inv].status /\ Discounted(c).rows = invoice[loc[c].inv].rows
           /\ Discounted(c).off = Off(c) /\ Discounted(c).amount = Reduced(loc[c].known, Off(c))
           /\ [invoice EXCEPT ![loc[c].inv].amount = Reduced(loc[c].known, Off(c)), ![loc[c].inv].off = Off(c)]
                 = [invoice EXCEPT ![loc[c].inv] = Discounted(c)]
<1>1. Off(c) \in SUBSET Pairings
  BY LocType, RecordedType DEF Off, Prior
<1>2. Reduced(loc[c].known, Off(c)) \in Nat
  BY <1>1, LocType, ReducedType
<1> DEFINE i == loc[c].inv
           amount == Reduced(loc[c].known, Off(c))
           off == Off(c)
<1>3. invoice \in [Calls -> Invoice] /\ i \in Calls
  BY DEF TypeOK
<1>4. amount \in Nat /\ off \in SUBSET Pairings /\ Discounted(c) = [invoice[i] EXCEPT !.amount = amount, !.off = off]
  BY <1>1, <1>2 DEF Discounted
<1> HIDE DEF i, amount, off
<1>5. [invoice EXCEPT ![i].amount = amount, ![i].off = off] = [invoice EXCEPT ![i] = Discounted(c)]
  BY <1>3, <1>4
<1>6. Discounted(c) \in Invoice /\ Discounted(c).off = off /\ Discounted(c).amount = amount
  <2>1. invoice[i] \in Invoice /\ {} \in SUBSET Services
    BY <1>3
  <2>2. Discounted(c) \in Invoice
    <3>1. Discounted(c) = [status |-> invoice[i].status, rows |-> invoice[i].rows, amount |-> amount, off |-> off]
      BY <1>4, <2>1 DEF Invoice
    <3>2. QED BY <1>4, <2>1, <3>1 DEF Invoice
  <2>3. Discounted(c).off = off /\ Discounted(c).amount = amount
    BY <1>4, <2>1 DEF Invoice
  <2>4. QED BY <2>2, <2>3
<1>7. Discounted(c).status = invoice[i].status /\ Discounted(c).rows = invoice[i].rows
  BY <1>3, <1>4 DEF Invoice
<1>8. QED BY <1>1, <1>5, <1>6, <1>7 DEF i, amount, off

LEMMA AmountStep ==
    ASSUME TypeOK, Started, NEW c \in Calls, Amount(c)
    PROVE  /\ Typed /\ UNCHANGED <<checkout, owned, lock, serial, trimmed>>
           /\ loc[c].inv \in Calls
           /\ \/ /\ Moves(c, AfterClaims(c), loc[c]) /\ failures' = failures
                 /\ invoice' = [invoice EXCEPT ![loc[c].inv] = Discounted(c)] /\ unsure' = unsure
              \/ /\ failures' > failures
                 /\ \/ loc[c].fresh # {} /\ Moves(c, "release", loc[c])
                    \/ loc[c].fresh = {} /\ Moves(c, "done", NoLocal)
                 /\ \/ invoice' = invoice /\ unsure' = unsure
                    \/ /\ invoice' = [invoice EXCEPT ![loc[c].inv] = Discounted(c)]
                       /\ unsure' = unsure \cup {loc[c].inv}
<1> DEFINE i == loc[c].inv
<1>1. i \in Calls
  BY DEF Amount, Started, Invoicing
<1>2. PICK answer \in Answers :
         /\ Charge(answer)
         /\ invoice' = IF Stored(answer)
                       THEN [invoice EXCEPT ![i].amount = Reduced(loc[c].known, Off(c)), ![i].off = Off(c)]
                       ELSE invoice
         /\ unsure' = IF answer = "lost" THEN unsure \cup {i} ELSE unsure
         /\ IF answer = "ok" THEN MoveTo(c, AfterClaims(c)) /\ UNCHANGED loc
            ELSE IF loc[c].fresh # {} THEN MoveTo(c, "release") /\ UNCHANGED loc
            ELSE Finish(c)
  BY DEF Amount, Off
<1>3. invoice' = IF Stored(answer) THEN [invoice EXCEPT ![i] = Discounted(c)] ELSE invoice
  BY <1>1, <1>2, DiscountedType
<1>4. UNCHANGED <<checkout, owned, lock, serial, trimmed>>
  BY DEF Amount
<1>5. {AfterClaims(c), "release"} \subseteq Stages
  BY DEF AfterClaims, Stages
<1>6. \A at \in Stages : MoveTo(c, at) /\ UNCHANGED loc => Moves(c, at, loc[c])
  BY DEF MoveTo, Moves, TypeOK
<1>7. /\ Counted /\ answer \in {"ok", "refused", "lost"}
      /\ answer # "ok" => failures' > failures
      /\ answer = "ok" => failures' = failures
  BY <1>2, ChargeType DEF Counted
<1>8. \/ answer = "ok" /\ Moves(c, AfterClaims(c), loc[c])
      \/ answer # "ok" /\ loc[c].fresh # {} /\ Moves(c, "release", loc[c])
      \/ answer # "ok" /\ loc[c].fresh = {} /\ Moves(c, "done", NoLocal)
  BY <1>2, <1>5, <1>6, FinishMoves
<1>9. pc' \in [Calls -> Stages] /\ loc' \in [Calls -> Local]
  BY <1>8 DEF Moves
<1>10. invoice' \in [Calls -> Invoice] /\ unsure' \subseteq Calls
  BY <1>1, <1>2, <1>3, DiscountedType DEF TypeOK
<1>11. TypeOK'
  BY <1>4, <1>7, <1>9, <1>10 DEF TypeOK, Counted
<1>12. CASE answer = "ok"
  BY <1>1, <1>2, <1>3, <1>4, <1>7, <1>8, <1>11, <1>12 DEF Typed, Counted, Stored
<1>13. CASE answer = "refused"
  BY <1>1, <1>2, <1>3, <1>4, <1>7, <1>8, <1>11, <1>13 DEF Typed, Counted, Stored
<1>14. CASE answer = "lost"
  BY <1>1, <1>2, <1>3, <1>4, <1>7, <1>8, <1>11, <1>14 DEF Typed, Counted, Stored
<1>15. QED BY <1>7, <1>12, <1>13, <1>14

\* A request whose answer nobody waits for ends the call either way.
Ending(c) == Moves(c, "done", NoLocal)

LEMMA AttachStep ==
    ASSUME TypeOK, NEW c \in Calls, Attach(c)
    PROVE  Typed /\ Ending(c) /\ UNCHANGED <<checkout, invoice, lock, serial, unsure, trimmed>>
<1>1. PICK answer \in Answers : Charge(answer) /\ owned' = IF Stored(answer) THEN owned \cup Wants[c] ELSE owned
  BY DEF Attach
<1>2. Ending(c) /\ Counted
  BY <1>1, ChargeType, FinishMoves DEF Attach, Ending, Counted
<1>3. UNCHANGED <<checkout, invoice, lock, serial, unsure, trimmed>>
  BY DEF Attach
<1>4. owned' \subseteq Services
  BY <1>1, CatalogAssumption DEF TypeOK
<1>5. pc' \in [Calls -> Stages] /\ loc' \in [Calls -> Local]
  BY <1>2 DEF Ending, Moves
<1>6. TypeOK'
  BY <1>2, <1>3, <1>4, <1>5 DEF TypeOK, Counted
<1>7. QED BY <1>2, <1>3, <1>6 DEF Typed, Counted

LEMMA PrepareStep ==
    ASSUME TypeOK, NEW c \in Calls, Prepare(c)
    PROVE  /\ Typed /\ UNCHANGED <<checkout, invoice, owned, lock, serial, unsure, trimmed>>
           /\ \/ Ending(c)
              \/ /\ checkout.invoice = Nobody /\ checkout.status = "Draft"
                 /\ Either(c, "raise", [loc[c] EXCEPT !.inv = c])
<1> DEFINE l == [loc[c] EXCEPT !.inv = c]
<1>1. "raise" \in Stages
  BY DEF Stages
<1>2. l \in Local
  BY LocType DEF Local
<1>3. UNCHANGED <<checkout, invoice, owned, lock, serial, unsure, trimmed>>
  BY DEF Prepare
<1>4. \/ Finish(c) /\ UNCHANGED failures
      \/ checkout.invoice = Nobody /\ checkout.status = "Draft" /\ ReadOr(c, "raise", l)
  BY DEF Prepare
<1> HIDE DEF l
<1>5. CASE Finish(c) /\ UNCHANGED failures
  <2>1. Ending(c)
    BY <1>5, FinishMoves DEF Ending
  <2>2. pc' \in [Calls -> Stages] /\ loc' \in [Calls -> Local] /\ failures' >= failures
    BY <1>5, <2>1, CatalogAssumption DEF Ending, Moves, TypeOK
  <2>3. TypeOK'
    BY <1>3, <1>5, <2>2 DEF TypeOK
  <2>4. QED BY <1>3, <2>1, <2>2, <2>3 DEF Typed
<1>6. CASE checkout.invoice = Nobody /\ checkout.status = "Draft" /\ ReadOr(c, "raise", l)
  BY <1>1, <1>2, <1>3, <1>6, ReadOrEither DEF l
<1>7. QED BY <1>4, <1>5, <1>6

LEMMA LinkStep ==
    ASSUME TypeOK, Started, NEW c \in Calls, LinkToOrder(c)
    PROVE  /\ Typed /\ Ending(c) /\ UNCHANGED <<invoice, owned, lock, serial, unsure, trimmed>>
           /\ \/ checkout' = checkout
              \/ /\ checkout'.status = checkout.status /\ checkout'.invoice = loc[c].inv /\ Ledger' = Ledger
                 /\ checkout'.config = checkout.config
<1>1. PICK answer \in Answers :
         Charge(answer) /\ checkout' = IF Stored(answer) THEN [checkout EXCEPT !.invoice = loc[c].inv] ELSE checkout
  BY DEF LinkToOrder
<1>2. Ending(c) /\ Counted
  BY <1>1, ChargeType, FinishMoves DEF LinkToOrder, Ending, Counted
<1>3. UNCHANGED <<invoice, owned, lock, serial, unsure, trimmed>>
  BY DEF LinkToOrder
<1>4. pc' \in [Calls -> Stages] /\ loc' \in [Calls -> Local]
  BY <1>2 DEF Ending, Moves
<1>5. /\ checkout' \in [status : {"Draft", "Paid"}, invoice : Calls \cup {Nobody}, config : Config]
      /\ \/ checkout' = checkout
         \/ /\ checkout'.status = checkout.status /\ checkout'.invoice = loc[c].inv
            /\ checkout'.config = checkout.config
  BY <1>1, LocType DEF TypeOK
<1>6. TypeOK'
  BY <1>2, <1>3, <1>4, <1>5 DEF TypeOK, Counted
<1>7. QED BY <1>2, <1>3, <1>5, <1>6 DEF Typed, Counted, Ledger

LEMMA PayStep ==
    ASSUME TypeOK, NEW i \in Calls, PayInvoice(i)
    PROVE  /\ Typed /\ UNCHANGED <<checkout, owned, lock, pc, loc, serial, failures, unsure, trimmed>>
           /\ invoice[i].status = "Unpaid" /\ (serial => NoneRunning)
           /\ invoice' = [invoice EXCEPT ![i] = [invoice[i] EXCEPT !.status = "Paid"]]
<1>1. /\ UNCHANGED <<checkout, owned, lock, pc, loc, serial, failures, unsure, trimmed>>
      /\ invoice[i].status = "Unpaid" /\ (serial => NoneRunning)
      /\ invoice' = [invoice EXCEPT ![i] = [invoice[i] EXCEPT !.status = "Paid"]]
  BY DEF PayInvoice
<1>2. [invoice[i] EXCEPT !.status = "Paid"] \in Invoice
  BY DEF TypeOK, Invoice
<1>3. invoice' \in [Calls -> Invoice]
  BY <1>1, <1>2 DEF TypeOK
<1>4. TypeOK' /\ failures' >= failures
  BY <1>1, <1>3, CatalogAssumption DEF TypeOK
<1>5. QED BY <1>1, <1>4 DEF Typed

\* markOrderPaid writes the config it read, and the order is Paid.
Opens(c) == checkout'.status = "Paid" /\ checkout'.invoice = checkout.invoice /\ checkout'.config = loc[c].config

LEMMA WritePaidStep ==
    ASSUME TypeOK, NEW c \in Calls, WritePaid(c)
    PROVE  /\ Typed /\ Ending(c) /\ UNCHANGED <<invoice, owned, serial, unsure, trimmed>>
           /\ lock' = Nobody /\ (checkout' = checkout \/ Opens(c))
<1>1. PICK answer \in Answers :
         /\ Charge(answer)
         /\ checkout' = IF Stored(answer) THEN [checkout EXCEPT !.status = "Paid", !.config = loc[c].config]
                        ELSE checkout
  BY DEF WritePaid
<1>2. Ending(c) /\ Counted
  BY <1>1, ChargeType, FinishMoves DEF WritePaid, Ending, Counted
<1>3. lock' = Nobody /\ UNCHANGED <<invoice, owned, serial, unsure, trimmed>>
  BY DEF WritePaid
<1>4. pc' \in [Calls -> Stages] /\ loc' \in [Calls -> Local]
  BY <1>2 DEF Ending, Moves
<1> DEFINE config == loc[c].config
<1>5. config \in Config
  BY LocType DEF Local
<1>6. checkout' = checkout \/ checkout' = [checkout EXCEPT !.status = "Paid", !.config = config]
  BY <1>1
<1> HIDE DEF config
<1>7. /\ checkout' \in [status : {"Draft", "Paid"}, invoice : Calls \cup {Nobody}, config : Config]
      /\ \/ checkout' = checkout
         \/ checkout'.status = "Paid" /\ checkout'.invoice = checkout.invoice /\ checkout'.config = config
  BY <1>5, <1>6 DEF TypeOK
<1>8. TypeOK'
  BY <1>2, <1>3, <1>4, <1>7 DEF TypeOK, Counted
<1>9. QED BY <1>2, <1>3, <1>7, <1>8 DEF Typed, Counted, Opens, config

LEMMA DeleteStep ==
    ASSUME TypeOK, NEW c \in Calls, Delete(c)
    PROVE  /\ Typed /\ UNCHANGED <<checkout, invoice, lock, serial, unsure, trimmed>>
           /\ Moves(c, "list", loc[c]) \/ Moves(c, "done", loc[c])
<1>1. PICK answer \in Answers :
         /\ Charge(answer)
         /\ owned' = IF Stored(answer) THEN owned \ Wants[c] ELSE owned
         /\ MoveTo(c, IF Wants[c] \subseteq owned /\ answer = "ok" THEN "list" ELSE "done")
  BY DEF Delete
<1>2. UNCHANGED <<checkout, invoice, lock, loc, serial, unsure, trimmed>>
  BY DEF Delete
<1>3. Counted
  BY <1>1, ChargeType DEF Counted
<1>4. Moves(c, "list", loc[c]) \/ Moves(c, "done", loc[c])
  <2>1. {"list", "done"} \subseteq Stages
    BY DEF Stages
  <2>2. QED BY <1>1, <1>2, <2>1 DEF MoveTo, Moves, TypeOK
<1>5. pc' \in [Calls -> Stages] /\ loc' \in [Calls -> Local]
  BY <1>4 DEF Moves
<1>6. owned' \subseteq Services
  BY <1>1 DEF TypeOK
<1>7. TypeOK'
  BY <1>2, <1>3, <1>5, <1>6 DEF TypeOK, Counted
<1>8. QED BY <1>2, <1>3, <1>4, <1>7 DEF Typed, Counted

Open == {i \in Calls : invoice[i].status = "Unpaid"}

LEMMA ListOpenStep ==
    ASSUME TypeOK, NEW c \in Calls, ListOpen(c)
    PROVE  /\ Typed /\ UNCHANGED <<checkout, invoice, owned, lock, serial, unsure, trimmed>>
           /\ Either(c, "visit", [loc[c] EXCEPT !.todo = Open])
<1> DEFINE l == [loc[c] EXCEPT !.todo = Open]
<1>1. "visit" \in Stages
  BY DEF Stages
<1>2. l \in Local
  <2>1. Open \in SUBSET Calls
    BY DEF Open
  <2>2. QED BY <2>1, LocType DEF Local
<1>3. ReadOr(c, "visit", l) /\ UNCHANGED <<checkout, invoice, owned, lock, serial, unsure, trimmed>>
  BY DEF ListOpen, Open
<1> HIDE DEF l
<1>4. QED BY <1>1, <1>2, <1>3, ReadOrEither DEF l

RowsLeft(c, i) == invoice[i].rows \ Wants[c]
ToTrim(c, i) == [loc[c] EXCEPT !.todo = loc[c].todo \ {i}, !.inv = i, !.rows = RowsLeft(c, i),
                               !.fresh = KeptSaving(i, RowsLeft(c, i))]

LEMMA KeptSavingType ==
    ASSUME TypeOK, NEW i \in Calls, NEW rows \in SUBSET Services
    PROVE  /\ KeptSaving(i, rows) \in SUBSET Pairings
           /\ KeptSaving(i, rows) \subseteq Recorded(Ledger, i)
           /\ KeptSaving(i, rows) = {} \/ checkout.invoice = i
<1>1. Ledger \in SUBSET Entry
  BY DEF TypeOK, Ledger, Config
<1>2. QED BY <1>1, RecordedType DEF KeptSaving, Ledger

LEMMA ToTrimType ==
    ASSUME TypeOK, NEW c \in Calls, NEW i \in Calls
    PROVE  /\ ToTrim(c, i) \in Local
           /\ ToTrim(c, i).inv = i /\ ToTrim(c, i).rows = RowsLeft(c, i)
           /\ ToTrim(c, i).fresh = KeptSaving(i, RowsLeft(c, i))
           /\ RowsLeft(c, i) \in SUBSET Services
<1> DEFINE rows == RowsLeft(c, i)
           kept == KeptSaving(i, rows)
           todo == loc[c].todo \ {i}
<1>1. rows \in SUBSET Services
  BY DEF RowsLeft, TypeOK, Invoice
<1>2. kept \in SUBSET Pairings
  BY <1>1, KeptSavingType
<1>3. todo \in SUBSET Calls /\ loc[c] \in Local
  BY LocType
<1>4. ToTrim(c, i) = [loc[c] EXCEPT !.todo = todo, !.inv = i, !.rows = rows, !.fresh = kept]
  BY DEF ToTrim
<1> HIDE DEF rows, kept, todo
<1>5. ToTrim(c, i) = [inv |-> i, rows |-> rows, known |-> loc[c].known, config |-> loc[c].config,
                      fresh |-> kept, todo |-> todo]
  BY <1>3, <1>4 DEF Local
<1>6. loc[c].known \in Nat /\ loc[c].config \in Config
  BY <1>3 DEF Local
<1>7. ToTrim(c, i) \in Local
  BY <1>1, <1>2, <1>3, <1>5, <1>6 DEF Local
<1>8. QED BY <1>1, <1>5, <1>7 DEF rows, kept, todo

LEMMA VisitStep ==
    ASSUME TypeOK, NEW c \in Calls, Visit(c)
    PROVE  /\ Typed /\ UNCHANGED <<checkout, invoice, owned, lock, serial, unsure, trimmed>>
           /\ \/ Ending(c)
              \/ \E i \in loc[c].todo :
                   \/ Either(c, "visit", [loc[c] EXCEPT !.todo = loc[c].todo \ {i}])
                   \/ Either(c, "trim", ToTrim(c, i))
<1>1. UNCHANGED <<checkout, invoice, owned, lock, serial, unsure, trimmed>>
  BY DEF Visit
<1>2. {"visit", "trim"} \subseteq Stages
  BY DEF Stages
<1>3. CASE loc[c].todo = {} /\ Finish(c) /\ UNCHANGED failures
  <2>1. Ending(c)
    BY <1>3, FinishMoves DEF Ending
  <2>2. pc' \in [Calls -> Stages] /\ loc' \in [Calls -> Local] /\ failures' >= failures
    BY <1>3, <2>1, CatalogAssumption DEF Ending, Moves, TypeOK
  <2>3. TypeOK'
    BY <1>1, <1>3, <2>2 DEF TypeOK
  <2>4. QED BY <1>1, <2>1, <2>2, <2>3 DEF Typed
<1>4. ASSUME NEW i \in loc[c].todo,
             \/ ReadOr(c, "visit", [loc[c] EXCEPT !.todo = loc[c].todo \ {i}])
             \/ ReadOr(c, "trim", ToTrim(c, i))
      PROVE  /\ Typed
             /\ \/ Either(c, "visit", [loc[c] EXCEPT !.todo = loc[c].todo \ {i}])
                \/ Either(c, "trim", ToTrim(c, i))
             /\ i \in Calls
  <2>1. i \in Calls /\ loc[c].todo \ {i} \in SUBSET Calls /\ loc[c] \in Local
    BY LocType
  <2> DEFINE l == [loc[c] EXCEPT !.todo = loc[c].todo \ {i}]
  <2>2. l \in Local
    BY <2>1 DEF Local
  <2> HIDE DEF l
  <2>3. ToTrim(c, i) \in Local
    BY <2>1, ToTrimType
  <2>4. ReadOr(c, "visit", l) \/ ReadOr(c, "trim", ToTrim(c, i))
    BY <1>4 DEF l
  <2>5. QED BY <1>1, <1>2, <2>1, <2>2, <2>3, <2>4, ReadOrEither DEF l
<1>5. \/ loc[c].todo = {} /\ Finish(c) /\ UNCHANGED failures
      \/ \E i \in loc[c].todo :
           \/ ReadOr(c, "visit", [loc[c] EXCEPT !.todo = loc[c].todo \ {i}])
           \/ ReadOr(c, "trim", ToTrim(c, i))
  <2>1. \A i : [[loc[c] EXCEPT !.todo = loc[c].todo \ {i}] EXCEPT !.inv = i, !.rows = RowsLeft(c, i),
                     !.fresh = KeptSaving(i, RowsLeft(c, i))] = ToTrim(c, i)
    BY DEF ToTrim
  <2>2. QED BY <2>1 DEF Visit, RowsLeft
<1>6. QED BY <1>1, <1>3, <1>4, <1>5

TrimmedTo(c) == Trimmed(loc[c].inv, loc[c].rows, loc[c].fresh)

LEMMA TrimmedType ==
    ASSUME TypeOK, NEW c \in Calls, loc[c].inv \in Calls
    PROVE  /\ TrimmedTo(c) \in Invoice
           /\ TrimmedTo(c).status = "Deleted" \/ TrimmedTo(c).off \subseteq loc[c].fresh
           /\ TrimmedTo(c).off \subseteq loc[c].fresh \cup invoice[loc[c].inv].off
           /\ TrimmedTo(c).status \in {"Deleted", invoice[loc[c].inv].status}
           /\ loc[c].rows = {} => TrimmedTo(c).off = invoice[loc[c].inv].off
           /\ loc[c].rows # {} => TrimmedTo(c).off \subseteq loc[c].fresh
<1> DEFINE i == loc[c].inv
           rows == loc[c].rows
           kept == loc[c].fresh
           off == IF Recurring(rows) - Savings(kept) >= 1 THEN kept ELSE {}
           amount == Recurring(rows) - Savings(off)
<1>1. rows \in SUBSET Services /\ kept \in SUBSET Pairings /\ off \in SUBSET Pairings /\ off \subseteq kept
  BY LocType
<1>2. Recurring(rows) \in Nat /\ Savings(kept) \in Nat /\ Savings({}) = 0
  BY <1>1, PricesType, SavingsType
<1>3. amount \in Nat
  BY <1>2
<1>4. invoice[i] \in Invoice
  BY DEF TypeOK
<1>5. TrimmedTo(c) = IF rows = {} THEN [invoice[i] EXCEPT !.status = "Deleted"]
                     ELSE [invoice[i] EXCEPT !.rows = rows, !.amount = amount, !.off = off]
  BY DEF TrimmedTo, Trimmed
<1> HIDE DEF i, rows, kept, off, amount
<1>6. CASE rows = {}
  <2>1. TrimmedTo(c) = [invoice[i] EXCEPT !.status = "Deleted"]
    BY <1>5, <1>6
  <2>2. TrimmedTo(c) \in Invoice /\ TrimmedTo(c).status = "Deleted" /\ TrimmedTo(c).off = invoice[i].off
    BY <1>4, <2>1 DEF Invoice
  <2>3. QED BY <1>6, <2>2 DEF i, rows, kept
<1>7. CASE rows # {}
  <2>1. TrimmedTo(c) = [invoice[i] EXCEPT !.rows = rows, !.amount = amount, !.off = off]
    BY <1>5, <1>7
  <2>2. TrimmedTo(c) \in Invoice
    <3>1. TrimmedTo(c) = [status |-> invoice[i].status, rows |-> rows, amount |-> amount, off |-> off]
      BY <1>4, <2>1 DEF Invoice
    <3>2. QED BY <1>1, <1>3, <1>4, <3>1 DEF Invoice
  <2>3. TrimmedTo(c).off = off /\ TrimmedTo(c).status = invoice[i].status
    BY <1>4, <2>1 DEF Invoice
  <2>4. QED BY <1>1, <1>7, <2>2, <2>3 DEF i, rows, kept
<1>8. QED BY <1>6, <1>7

LEMMA TrimStep ==
    ASSUME TypeOK, Started, NEW c \in Calls, Trim(c)
    PROVE  /\ Typed /\ UNCHANGED <<checkout, owned, lock, serial, unsure>>
           /\ loc[c].inv \in Calls
           /\ Either(c, "visit", [NoLocal EXCEPT !.todo = loc[c].todo])
           /\ \/ invoice' = invoice /\ trimmed' = trimmed
              \/ /\ invoice' = [invoice EXCEPT ![loc[c].inv] = TrimmedTo(c)]
                 /\ trimmed' = trimmed \cup {loc[c].inv}
<1> DEFINE i == loc[c].inv
           l == [NoLocal EXCEPT !.todo = loc[c].todo]
<1>1. i \in Calls
  BY DEF Trim, Started, Invoicing
<1>2. PICK answer \in Answers :
         /\ Charge(answer)
         /\ invoice' = IF Stored(answer) THEN [invoice EXCEPT ![i] = TrimmedTo(c)] ELSE invoice
         /\ trimmed' = IF Stored(answer) THEN trimmed \cup {i} ELSE trimmed
         /\ IF answer = "ok" THEN Continue(c, "visit", l) ELSE Finish(c)
  BY DEF Trim, TrimmedTo
<1>3. UNCHANGED <<checkout, owned, lock, serial, unsure>>
  BY DEF Trim
<1>4. l \in Local /\ "visit" \in Stages
  BY LocType, NoLocalType DEF Local, Stages
<1> HIDE DEF l
<1>5. Either(c, "visit", l) /\ Counted
  BY <1>2, <1>4, ChargeType, ContinueMoves, FinishMoves DEF Either, Counted
<1>6. pc' \in [Calls -> Stages] /\ loc' \in [Calls -> Local]
  BY <1>5 DEF Either, Moves
<1>7. invoice' \in [Calls -> Invoice] /\ trimmed' \subseteq Calls
  BY <1>1, <1>2, TrimmedType DEF TypeOK
<1>8. TypeOK'
  BY <1>3, <1>5, <1>6, <1>7 DEF TypeOK, Counted
<1>9. QED BY <1>1, <1>2, <1>3, <1>5, <1>8 DEF Typed, Counted, l

LEMMA MergeReadStep ==
    ASSUME TypeOK, NEW c \in Calls, MergeRead(c)
    PROVE  /\ Typed /\ UNCHANGED <<checkout, invoice, owned, lock, serial, unsure, trimmed>>
           /\ Either(c, "merged", Refreshed(c))
<1>1. "merged" \in Stages
  BY DEF Stages
<1>2. ReadOr(c, "merged", Refreshed(c)) /\ UNCHANGED <<checkout, invoice, owned, lock, serial, unsure, trimmed>>
  BY DEF MergeRead, Refreshed
<1>3. QED BY <1>1, <1>2, FreshConfig, ReadOrEither

LEMMA MergeWriteStep ==
    ASSUME TypeOK, NEW c \in Calls, MergeWrite(c)
    PROVE  /\ Typed /\ Ending(c) /\ UNCHANGED <<invoice, owned, lock, serial, unsure, trimmed>>
           /\ \/ checkout' = checkout
              \/ /\ checkout'.status = checkout.status /\ checkout'.invoice = checkout.invoice
                 /\ Ledger' = loc[c].config.ledger
<1> DEFINE config == [loc[c].config EXCEPT !.marks = @ \cup {c}]
<1>1. PICK answer \in Answers :
         Charge(answer) /\ checkout' = IF Stored(answer) THEN [checkout EXCEPT !.config = config] ELSE checkout
  BY DEF MergeWrite
<1>2. Ending(c) /\ Counted
  BY <1>1, ChargeType, FinishMoves DEF MergeWrite, Ending, Counted
<1>3. UNCHANGED <<invoice, owned, lock, serial, unsure, trimmed>>
  BY DEF MergeWrite
<1>4. loc[c].config \in Config
  BY LocType DEF Local
<1>5. config \in Config /\ config.ledger = loc[c].config.ledger
  BY <1>4 DEF Config
<1> HIDE DEF config
<1>6. pc' \in [Calls -> Stages] /\ loc' \in [Calls -> Local]
  BY <1>2 DEF Ending, Moves
<1>7. /\ checkout' \in [status : {"Draft", "Paid"}, invoice : Calls \cup {Nobody}, config : Config]
      /\ \/ checkout' = checkout
         \/ checkout'.status = checkout.status /\ checkout'.invoice = checkout.invoice /\ checkout'.config = config
  BY <1>1, <1>5 DEF TypeOK
<1>8. TypeOK'
  BY <1>2, <1>3, <1>6, <1>7 DEF TypeOK, Counted
<1>9. QED BY <1>2, <1>3, <1>5, <1>7, <1>8 DEF Typed, Counted, Ledger

-----------------------------------------------------------------------------
(* AddonSavings: what a step leaves as it was                                  *)

LEMMA DoneFits ==
    ASSUME NEW c \in Calls, pc'[c] = "done"
    PROVE  CallFits(c)' /\ TurnFits(c)' /\ OrderFits(c)' /\ SavingFits(c)' /\ PriceFits(c)'
<1>1. CallFits(c)'
  BY DEF CallFits, StagesOf, Invoicing, Preparing, Running, Releasing
<1>2. TurnFits(c)'
  BY DEF TurnFits, Inside, Releasing
<1>3. OrderFits(c)'
  BY DEF OrderFits, Preparing, Buying, Running, Pricing, Releasing
<1>4. SavingFits(c)'
  BY DEF SavingFits, Buying, Running, Pricing, Releasing
<1>5. PriceFits(c)'
  BY DEF PriceFits, Preparing, Buying, Running, Pricing
<1>6. QED BY <1>1, <1>2, <1>3, <1>4, <1>5

LEMMA KindAt ==
    ASSUME CallsKept, NEW c \in Calls
    PROVE  /\ pc[c] \in {"read", "windows", "claim", "claimed", "attach"} => CallKind[c] = "buy"
           /\ pc[c] \in {"record", "recorded", "link"} => CallKind[c] = "prepare"
           /\ pc[c] \in {"raise", "owned", "amount"} \cup Releasing => CallKind[c] \in {"buy", "prepare"}
           /\ pc[c] \in {"list", "visit", "trim"} => CallKind[c] = "delete"
           /\ pc[c] = "paid" => CallKind[c] = "paid"
           /\ pc[c] = "merged" => CallKind[c] = "merge"
<1>1. CallKind[c] \in CallKinds /\ pc[c] \in StagesOf(CallKind[c])
  BY CatalogAssumption DEF CallsKept, CallFits
<1>2. QED BY <1>1 DEF CallKinds, StagesOf, Invoicing, Releasing

Others(c) == \A d \in Calls \ {c} : pc'[d] = pc[d] /\ loc'[d] = loc[d]
Acts(c) == pc[c] # "done" /\ (serial => \A d \in Calls \ {c} : ~Running(d))

\* When calls take their turns, nobody else runs while one acts.
LEMMA ActsAlone ==
    ASSUME TurnsKept, NEW c \in Calls, BeginCall(c) \/ Step(c)
    PROVE  Acts(c)
<1>1. CASE MayStart(c)
  BY <1>1 DEF MayStart, NoneRunning, Running, Acts
<1>2. CASE Running(c)
  BY <1>2 DEF Running, TurnsKept, Apart, Acts
<1>3. BeginCall(c) => MayStart(c)
  BY DEF BeginCall, Buy, Prepare, MarkPaid, Delete, MergeRead
<1>4. Step(c) => Running(c)
  BY DEF Step, ReadOpen, Raise, Windows, Offer, ClaimRead, ClaimWrite, Plan, RecordRead, RecordWrite, Amount,
         ReleaseRead, ReleaseWrite, Attach, LinkToOrder, WritePaid, ListOpen, Visit, Trim, MergeWrite, Running
<1>5. QED BY <1>1, <1>2, <1>3, <1>4

LEMMA TurnsApart ==
    ASSUME TurnsKept, NEW c \in Calls, Acts(c), Others(c), serial' = serial
    PROVE  \A x, y \in Calls : x # y => Apart(x, y)'
<1>1. SUFFICES ASSUME NEW x \in Calls, NEW y \in Calls, x # y PROVE Apart(x, y)'
  OBVIOUS
<1>2. Apart(x, y)
  BY <1>1 DEF TurnsKept
<1>3. CASE x = c
  BY <1>1, <1>2, <1>3 DEF Apart, Acts, Others, Running
<1>4. CASE y = c
  BY <1>1, <1>2, <1>4 DEF Apart, Acts, Others, Running
<1>5. CASE x # c /\ y # c
  BY <1>1, <1>2, <1>5 DEF Apart, Acts, Others, Running
<1>6. QED BY <1>3, <1>4, <1>5

LEMMA CallsApart ==
    ASSUME CallsKept, NEW c \in Calls, Others(c), CallFits(c)'
    PROVE  CallsKept'
<1>1. SUFFICES ASSUME NEW d \in Calls PROVE CallFits(d)'
  BY DEF CallsKept
<1>2. CASE d # c
  BY <1>2 DEF CallsKept, CallFits, Others, Preparing, Running
<1>3. QED BY <1>2

LEMMA OrderlyEarlier ==
    ASSUME TypeOK, TypeOK', serial' = serial, failures' >= failures
    PROVE  (Orderly' => Orderly) /\ (Undisturbed' => Undisturbed) /\ (failures > 0 => failures' > 0)
<1>1. failures \in Nat /\ failures' \in Nat
  BY CatalogAssumption DEF TypeOK
<1>2. QED BY <1>1 DEF Orderly, Undisturbed

\* Who is inside keeps the others out.
LEMMA TurnsOthers ==
    ASSUME TypeOK, TypeOK', CallsKept, TurnsKept, NEW c \in Calls, Acts(c), Others(c), serial' = serial,
           failures' >= failures, TurnFits(c)', lock' = lock \/ (lock = Nobody /\ lock' = c) \/ lock = c,
           checkout'.config = checkout.config \/ lock = c \/ serial
    PROVE  TurnsKept'
<1>1. \A x, y \in Calls : x # y => Apart(x, y)'
  BY TurnsApart
<1>2. SUFFICES ASSUME NEW d \in Calls, d # c PROVE TurnFits(d)'
  BY <1>1 DEF TurnsKept
<1>3. TurnFits(d) /\ pc'[d] = pc[d] /\ loc'[d] = loc[d]
  BY <1>2 DEF TurnsKept, Others
<1>4. d # Nobody
  BY CatalogAssumption
<1>5. failures > 0 => failures' > 0
  BY OrderlyEarlier
<1>6. (pc[d] \in Inside => lock = d)'
  BY <1>2, <1>3, <1>4 DEF TurnFits
<1>7. (pc[d] \in Inside \cup {"merged"} => loc[d].config = checkout.config)'
  <2>1. CASE checkout'.config = checkout.config
    BY <1>3, <2>1 DEF TurnFits
  <2>2. CASE serial
    BY <1>2, <1>3, <2>2 DEF Acts, Running, Inside
  <2>3. CASE lock = c /\ ~serial
    <3>1. pc[d] \notin Inside
      BY <1>2, <1>3, <2>3 DEF TurnFits
    <3>2. pc[d] # "merged"
      BY <1>2, <1>3, <2>3, KindAt DEF TurnFits
    <3>3. QED BY <1>3, <3>1, <3>2
  <2>4. QED BY <2>1, <2>2, <2>3
<1>8. QED BY <1>3, <1>5, <1>6, <1>7 DEF TurnFits

\* A step that changes neither the order nor an invoice.
Still == UNCHANGED <<checkout, invoice, serial, unsure, trimmed>> /\ failures' >= failures
AllFits(c) == CallFits(c) /\ TurnFits(c) /\ OrderFits(c) /\ SavingFits(c) /\ PriceFits(c)

\* A call that is done with an invoice's price leaves it as quoted.
LeavesQuoted(c) ==
    Undisturbed' /\ pc[c] \in Pricing =>
       \/ pc'[c] \in Pricing /\ loc'[c].inv = loc[c].inv
       \/ Standing(loc[c].inv) => Quoted(loc[c].inv)

LEMMA StillKeeps ==
    ASSUME SavingsInv, TypeOK', NEW c \in Calls, Acts(c), Others(c), Still,
           lock' = lock \/ (lock = Nobody /\ lock' = c) \/ lock = c, AllFits(c)', LeavesQuoted(c)
    PROVE  SavingsInv'
<1>1. TypeOK /\ CallsKept /\ TurnsKept /\ OrderKept /\ SavingsKept /\ PricesKept
  BY DEF SavingsInv
<1>2. CallsKept'
  BY <1>1, CallsApart DEF AllFits
<1>3. TurnsKept'
  BY <1>1, TurnsOthers DEF AllFits, Still
<1>4. checkout' = checkout /\ invoice' = invoice /\ unsure' = unsure /\ trimmed' = trimmed /\ Ledger' = Ledger
  BY DEF Still, Ledger
<1>5. \A d \in Calls : d # c => pc'[d] = pc[d] /\ loc'[d] = loc[d] /\ OffLedger(d)' = OffLedger(d)
  BY <1>4 DEF Others, OffLedger
<1>6. (Orderly' => Orderly) /\ (Undisturbed' => Undisturbed)
  BY <1>1, OrderlyEarlier DEF Still
<1>7. OrderKept'
  <2>1. ASSUME NEW d \in Calls, d # c PROVE OrderFits(d)'
    BY <1>1, <1>4, <1>5, <2>1 DEF OrderKept, OrderFits, Preparing, Buying, Running
  <2>2. (checkout.status = "Draft" => DraftFits)'
    BY <1>1, <1>4 DEF OrderKept, DraftFits
  <2>3. QED BY <1>1, <1>4, <2>1, <2>2 DEF OrderKept, AllFits
<1>8. SavingsKept'
  <2>1. ASSUME NEW d \in Calls, d # c PROVE SavingFits(d)'
    <3>1. SavingFits(d) /\ pc'[d] = pc[d] /\ loc'[d] = loc[d] /\ OffLedger(d)' = OffLedger(d)
      BY <1>1, <1>5, <2>1 DEF SavingsKept
    <3>2. Prior(d)' = Prior(d) /\ Off(d)' = Off(d)
      BY <3>1 DEF Prior, Off
    <3>3. QED BY <1>4, <1>6, <3>1, <3>2 DEF SavingFits, Buying, Running, Still
  <2>2. DiscountsRecorded'
    BY <1>1, <1>4, <1>6 DEF SavingsKept, DiscountsRecorded, Standing
  <2>3. QED BY <2>1, <2>2 DEF SavingsKept, AllFits
<1>9. PricesKept'
  <2>1. ASSUME NEW d \in Calls, d # c PROVE PriceFits(d)'
    <3>1. PriceFits(d) /\ pc'[d] = pc[d] /\ loc'[d] = loc[d] /\ OffLedger(d)' = OffLedger(d)
      BY <1>1, <1>5, <2>1 DEF PricesKept
    <3>2. Prior(d)' = Prior(d) /\ Off(d)' = Off(d) /\ Quoted(d)' = Quoted(d)
      BY <1>4, <3>1 DEF Prior, Off, Quoted
    <3>3. QED BY <1>4, <1>6, <3>1, <3>2 DEF PriceFits, Preparing, Buying, Running
  <2>2. ASSUME Undisturbed', NEW i \in Calls, Settled(i)'
        PROVE  Quoted(i)'
    <3>1. Standing(i) /\ i \notin trimmed
      BY <1>4, <2>2 DEF Settled, Standing
    <3>2. CASE Settled(i)
      BY <1>1, <1>4, <1>6, <2>2, <3>2 DEF PricesKept, Quoted
    <3>3. CASE ~Settled(i)
      <4>1. PICK d \in Calls : pc[d] \in Pricing /\ loc[d].inv = i
        BY <3>1, <3>3 DEF Settled
      <4>2. d = c
        BY <1>5, <2>2, <4>1 DEF Settled
      <4>3. ~(pc'[c] \in Pricing /\ loc'[c].inv = loc[c].inv)
        BY <2>2, <4>1, <4>2 DEF Settled
      <4>4. QED BY <1>4, <2>2, <3>1, <4>1, <4>2, <4>3 DEF LeavesQuoted, Quoted
    <3>4. QED BY <3>2, <3>3
  <2>3. Undisturbed' => \A e \in Ledger' : invoice'[e.invoice].status # "none"
    BY <1>1, <1>4, <1>6 DEF PricesKept
  <2>4. QED BY <2>1, <2>2, <2>3 DEF PricesKept, AllFits
<1>10. QED BY <1>2, <1>3, <1>7, <1>8, <1>9 DEF SavingsInv

-----------------------------------------------------------------------------
(* AddonSavings: the steps that change neither the order nor an invoice        *)

LEMMA StillFails ==
    ASSUME SavingsInv, Typed, NEW c \in Calls, Acts(c), UNCHANGED <<checkout, invoice, lock, serial, unsure, trimmed>>,
           Moves(c, "done", NoLocal), failures' > failures
    PROVE  SavingsInv'
<1>1. Still /\ TypeOK' /\ Others(c)
  BY DEF Typed, Still, Moves, Others
<1>2. AllFits(c)'
  BY DoneFits DEF Moves, AllFits
<1>3. ~Undisturbed'
  <2>1. failures \in Nat
    BY CatalogAssumption DEF SavingsInv, TypeOK
  <2>2. QED BY <2>1 DEF Undisturbed
<1>4. QED BY <1>1, <1>2, <1>3, StillKeeps DEF LeavesQuoted

LEMMA StillEither ==
    ASSUME SavingsInv, Typed, NEW c \in Calls, Acts(c), UNCHANGED <<checkout, invoice, lock, serial, unsure, trimmed>>,
           NEW at, NEW l, Either(c, at, l),
           Moves(c, at, l) /\ failures' = failures => AllFits(c)' /\ LeavesQuoted(c)
    PROVE  SavingsInv'
<1>1. CASE Moves(c, at, l) /\ failures' = failures
  <2>1. Still /\ TypeOK' /\ Others(c)
    BY <1>1 DEF Typed, Still, Moves, Others
  <2>2. QED BY <1>1, <2>1, StillKeeps
<1>2. CASE Moves(c, "done", NoLocal) /\ failures' > failures
  BY <1>2, StillFails
<1>3. QED BY <1>1, <1>2 DEF Either

LEMMA StillEnters ==
    ASSUME SavingsInv, Typed, NEW c \in Calls, Acts(c), UNCHANGED <<checkout, invoice, serial, unsure, trimmed>>,
           NEW at, NEW l, Enters(c, at, l),
           Moves(c, at, l) /\ failures' = failures /\ lock' = c => AllFits(c)' /\ LeavesQuoted(c)
    PROVE  SavingsInv'
<1>1. CASE Moves(c, at, l) /\ failures' = failures /\ lock' = c
  <2>1. Still /\ TypeOK' /\ Others(c)
    BY <1>1 DEF Typed, Still, Moves, Others
  <2>2. QED BY <1>1, <2>1, StillKeeps DEF Enters
<1>2. CASE Moves(c, "done", NoLocal) /\ failures' > failures /\ lock' = lock
  BY <1>2, StillFails
<1>3. QED BY <1>1, <1>2 DEF Enters

LEMMA BuyKeeps ==
    ASSUME SavingsInv, NEW c \in Calls, Buy(c), Acts(c)
    PROVE  SavingsInv'
<1>1. CallKind[c] = "buy" /\ pc[c] = "idle"
  BY DEF Buy, MayStart
<1>2. TypeOK /\ OrderFits(c) /\ TurnFits(c) /\ (checkout.invoice # Nobody => CallKind[checkout.invoice] = "prepare")
  BY DEF SavingsInv, OrderKept, TurnsKept
<1>3. Typed /\ UNCHANGED <<checkout, invoice, lock, serial, unsure, trimmed>>
  BY <1>2, BuyStep
<1>4. ASSUME NEW i \in Calls, NEW at \in {"read", "raise"}, i = c \/ Mergeable(i),
             Moves(c, at, [loc[c] EXCEPT !.inv = i])
      PROVE  AllFits(c)' /\ LeavesQuoted(c)
  <2>1. pc'[c] = at /\ loc'[c].inv = i
    BY <1>2, <1>4, LocType DEF Moves, Local
  <2>2. CallFits(c)'
    BY <1>1, <2>1 DEF CallFits, StagesOf, Invoicing, Preparing, Releasing
  <2>3. TurnFits(c)'
    BY <1>1, <2>1 DEF TurnFits, Inside, Releasing
  <2>4. OrderFits(c)'
    BY <1>1, <2>1 DEF OrderFits, Preparing, Pricing, Releasing
  <2>5. SavingFits(c)'
    BY <1>1, <2>1 DEF SavingFits, Pricing, Releasing
  <2>6. checkout'.invoice = i => Companions = {}
    <3>1. Nobody \notin Calls
      BY CatalogAssumption
    <3>2. QED BY <1>1, <1>2, <1>3, <1>4, <3>1 DEF Mergeable
  <2>7. PriceFits(c)'
    BY <1>1, <2>1, <2>6 DEF PriceFits, Pricing, Preparing
  <2>8. LeavesQuoted(c)
    BY <1>1 DEF LeavesQuoted, Pricing
  <2>9. QED BY <2>2, <2>3, <2>4, <2>5, <2>7, <2>8 DEF AllFits
<1>5. CASE Either(c, "raise", [loc[c] EXCEPT !.inv = c])
  BY <1>3, <1>4, <1>5, StillEither
<1>6. ASSUME NEW i \in Calls, Either(c, "read", [loc[c] EXCEPT !.inv = i]), Mergeable(i)
      PROVE  SavingsInv'
  BY <1>3, <1>4, <1>6, StillEither
<1>7. QED BY <1>2, <1>5, <1>6, BuyStep

LEMMA ReadOpenKeeps ==
    ASSUME SavingsInv, Started, NEW c \in Calls, ReadOpen(c), Acts(c)
    PROVE  SavingsInv'
<1> DEFINE l == [loc[c] EXCEPT !.rows = invoice[loc[c].inv].rows]
<1>1. TypeOK /\ CallsKept /\ AllFits(c) /\ pc[c] = "read"
  BY DEF ReadOpen, SavingsInv, CallsKept, TurnsKept, OrderKept, SavingsKept, PricesKept, AllFits
<1>2. CallKind[c] = "buy"
  BY <1>1, KindAt
<1>3. Typed /\ UNCHANGED <<checkout, invoice, lock, serial, unsure, trimmed>> /\ Either(c, "raise", l)
  BY <1>1, ReadOpenStep
<1>4. ASSUME Moves(c, "raise", l), failures' = failures
      PROVE  AllFits(c)' /\ LeavesQuoted(c)
  <2>1. pc'[c] = "raise" /\ loc'[c].inv = loc[c].inv
    BY <1>1, <1>4, LocType DEF Moves, Local
  <2>2. CallFits(c)'
    BY <1>1, <1>2, <2>1 DEF AllFits, CallFits, StagesOf, Invoicing, Preparing, Releasing
  <2>3. TurnFits(c)'
    BY <1>2, <2>1 DEF TurnFits, Inside, Releasing
  <2>4. OrderFits(c)'
    BY <1>2, <2>1 DEF OrderFits, Preparing, Pricing, Releasing
  <2>5. SavingFits(c)'
    BY <1>2, <2>1 DEF SavingFits, Pricing, Releasing
  <2>6. PriceFits(c)'
    BY <1>1, <1>2, <1>3, <1>4, <2>1 DEF AllFits, PriceFits, Pricing, Preparing, Buying, Running, Undisturbed
  <2>7. LeavesQuoted(c)
    BY <1>1 DEF LeavesQuoted, Pricing
  <2>8. QED BY <2>2, <2>3, <2>4, <2>5, <2>6, <2>7 DEF AllFits
<1> HIDE DEF l
<1>5. QED BY <1>3, <1>4, StillEither

LEMMA InvParts ==
    ASSUME SavingsInv, NEW c \in Calls
    PROVE  /\ TypeOK /\ CallsKept /\ TurnsKept /\ OrderKept /\ SavingsKept /\ PricesKept
           /\ AllFits(c) /\ CallFits(c) /\ TurnFits(c) /\ OrderFits(c) /\ SavingFits(c) /\ PriceFits(c)
  BY DEF SavingsInv, CallsKept, TurnsKept, OrderKept, SavingsKept, PricesKept, AllFits

LEMMA PlainQuoted ==
    ASSUME TypeOK, NEW i \in Calls, NEW known, Plain(invoice[i], known), Recorded(Ledger, i) = {}
    PROVE  Quoted(i)
<1> DEFINE rows == invoice[i].rows
<1>1. rows \in SUBSET Services /\ rows # {} /\ invoice[i].amount = Full(rows)
  BY DEF TypeOK, Invoice, Plain
<1> HIDE DEF rows
<1>2. Full(rows) \in Nat /\ Full(rows) >= 1
  BY <1>1, PricesType
<1>3. Reduced(Full(rows), {}) = Full(rows)
  BY <1>2, ReducedType
<1>4. QED BY <1>1, <1>3 DEF Quoted, rows

\* Before the order is paid, the invoice of a purchase has no saving.
LEMMA DraftUnrecorded ==
    ASSUME OrderKept, checkout.status = "Draft", NEW i \in Calls,
           CallKind[i] = "prepare" => Companions = {}
    PROVE  Recorded(Ledger, i) = {}
  BY DEF OrderKept, DraftFits, Recorded

LEMMA WindowsKeeps ==
    ASSUME SavingsInv, Started, NEW c \in Calls, Windows(c), Acts(c)
    PROVE  SavingsInv'
<1>1. TypeOK /\ CallsKept /\ OrderKept /\ CallFits(c) /\ SavingFits(c) /\ PriceFits(c) /\ pc[c] = "windows"
  BY InvParts DEF Windows
<1>2. CallKind[c] = "buy" /\ loc[c].inv \in Calls
  BY <1>1, KindAt DEF Started, Invoicing
<1>3. Typed /\ UNCHANGED <<checkout, invoice, lock, serial, unsure, trimmed>>
  BY <1>1, WindowsStep
<1>4. (Undisturbed' => Undisturbed) /\ (Orderly' => Orderly)
  BY <1>1, <1>3, OrderlyEarlier DEF Typed
<1>5. ASSUME checkout.status = "Paid", Moves(c, "owned", Refreshed(c))
      PROVE  AllFits(c)' /\ LeavesQuoted(c)
  <2>1. /\ pc'[c] = "owned" /\ loc'[c].inv = loc[c].inv /\ loc'[c].known = loc[c].known
        /\ loc'[c].config = checkout.config /\ loc'[c] = Refreshed(c)
    BY <1>1, <1>5, LocType DEF Moves, Refreshed, Local
  <2>2. Prior(c)' = OffLedger(c)'
    BY <1>3, <2>1 DEF Prior, OffLedger, Ledger
  <2>3. CallFits(c)'
    BY <1>2, <2>1 DEF CallFits, StagesOf, Invoicing, Preparing, Releasing
  <2>4. TurnFits(c)'
    BY <1>2, <2>1 DEF TurnFits, Inside, Releasing
  <2>5. OrderFits(c)'
    BY <1>2, <1>3, <1>5, <2>1 DEF OrderFits, Preparing, Releasing
  <2>6. SavingFits(c)'
    BY <1>1, <1>2, <1>3, <2>1, <2>2 DEF SavingFits, Pricing, Releasing
  <2>7. PriceFits(c)'
    BY <1>1, <1>2, <1>3, <1>4, <2>1, <2>2 DEF PriceFits, Pricing, Preparing
  <2>8. LeavesQuoted(c)
    BY <2>1 DEF LeavesQuoted, Pricing
  <2>9. QED BY <2>3, <2>4, <2>5, <2>6, <2>7, <2>8 DEF AllFits
<1>6. ASSUME checkout.status = "Draft", Moves(c, "attach", loc[c])
      PROVE  AllFits(c)' /\ LeavesQuoted(c)
  <2>1. pc'[c] = "attach" /\ loc'[c] = loc[c]
    BY <1>6 DEF Moves
  <2>2. CallFits(c)'
    BY <1>2, <2>1 DEF CallFits, StagesOf, Invoicing, Preparing, Releasing
  <2>3. TurnFits(c)'
    BY <1>2, <2>1 DEF TurnFits, Inside, Releasing
  <2>4. OrderFits(c)'
    BY <1>2, <2>1 DEF OrderFits, Preparing, Pricing, Releasing
  <2>5. SavingFits(c)'
    BY <1>2, <2>1 DEF SavingFits, Pricing, Releasing
  <2>6. PriceFits(c)'
    BY <1>2, <2>1 DEF PriceFits, Pricing, Preparing
  <2>7. ASSUME Undisturbed', Standing(loc[c].inv)
        PROVE  Quoted(loc[c].inv)
    <3>1. Plain(invoice[loc[c].inv], loc[c].known)
      BY <1>1, <1>4, <2>7 DEF PriceFits, Pricing
    <3>2. CallKind[loc[c].inv] = "prepare" => Companions = {}
      BY <1>1, <1>2, <1>4, <2>7 DEF Standing, PriceFits, Buying, Running
    <3>3. Recorded(Ledger, loc[c].inv) = {}
      BY <1>1, <1>2, <1>6, <3>2, DraftUnrecorded
    <3>4. QED BY <1>1, <1>2, <3>1, <3>3, PlainQuoted
  <2>8. QED BY <2>2, <2>3, <2>4, <2>5, <2>6, <2>7 DEF AllFits, LeavesQuoted
<1>7. \/ checkout.status = "Paid" /\ Either(c, "owned", Refreshed(c))
      \/ checkout.status = "Draft" /\ Either(c, "attach", loc[c])
  BY <1>1, WindowsStep DEF Refreshed
<1>8. QED BY <1>3, <1>5, <1>6, <1>7, StillEither

\* A purchase with no new saving, at its offer or at its claim.
LEMMA WithoutKeeps ==
    ASSUME SavingsInv, Started, NEW c \in Calls, CallKind[c] = "buy", pc[c] \in {"owned", "claim"}, Acts(c), Typed,
           UNCHANGED <<checkout, invoice, lock, serial, unsure, trimmed>>, GoesWithout(c)
    PROVE  SavingsInv'
<1>1. TypeOK /\ CallFits(c) /\ OrderFits(c) /\ SavingFits(c) /\ PriceFits(c)
  BY InvParts
<1>2. loc[c].inv \in Calls
  BY <1>1 DEF Started, Invoicing
<1>3. (Undisturbed' => Undisturbed) /\ (Orderly' => Orderly)
  BY <1>1, OrderlyEarlier DEF Typed
<1>4. ASSUME NEW at \in {"attach", "amount"}, Moves(c, at, Without(c)), at = "attach" => Prior(c) = {}
      PROVE  AllFits(c)' /\ LeavesQuoted(c)
  <2>1. /\ pc'[c] = at /\ loc'[c].inv = loc[c].inv /\ loc'[c].known = loc[c].known
        /\ loc'[c].config = loc[c].config /\ loc'[c].fresh = {}
    BY <1>1, <1>4, LocType DEF Moves, Without, Local
  <2>2. OffLedger(c)' = OffLedger(c) /\ Off(c)' = Prior(c)
    BY <2>1 DEF Off, Prior, OffLedger, Ledger
  <2>3. CallFits(c)'
    BY <1>2, <1>4, <2>1 DEF CallFits, StagesOf, Invoicing, Preparing, Releasing
  <2>4. TurnFits(c)'
    BY <1>4, <2>1 DEF TurnFits, Inside, Releasing
  <2>5. OrderFits(c)'
    BY <1>1, <1>4, <2>1 DEF OrderFits, Preparing, Buying, Running, Pricing, Releasing
  <2>6. SavingFits(c)'
    BY <1>1, <1>3, <1>4, <2>1, <2>2 DEF SavingFits, Pricing, Releasing, Buying, Running
  <2>7. PriceFits(c)'
    BY <1>1, <1>3, <1>4, <2>1, <2>2 DEF PriceFits, Pricing, Preparing, Buying, Running
  <2>8. LeavesQuoted(c)
    <3>1. SUFFICES ASSUME Undisturbed', at = "attach" PROVE Quoted(loc[c].inv)
      BY <1>4, <2>1 DEF LeavesQuoted, Pricing
    <3>2. Plain(invoice[loc[c].inv], loc[c].known) /\ OffLedger(c) = {}
      BY <1>1, <1>3, <1>4, <3>1 DEF PriceFits, Pricing, Buying, Running
    <3>3. QED BY <1>1, <1>2, <3>2, PlainQuoted DEF OffLedger
  <2>9. QED BY <2>3, <2>4, <2>5, <2>6, <2>7, <2>8 DEF AllFits
<1>5. QED BY <1>4, StillEither DEF GoesWithout

LEMMA OfferKeeps ==
    ASSUME SavingsInv, Started, NEW c \in Calls, Offer(c), Acts(c)
    PROVE  SavingsInv'
<1>1. TypeOK /\ CallFits(c) /\ OrderFits(c) /\ SavingFits(c) /\ PriceFits(c) /\ pc[c] = "owned" /\ CallKind[c] = "buy"
  BY InvParts DEF Offer
<1>2. Typed /\ UNCHANGED <<checkout, invoice, lock, serial, unsure, trimmed>>
  BY <1>1, OfferStep
<1>3. (Undisturbed' => Undisturbed) /\ (Orderly' => Orderly)
  BY <1>1, <1>2, OrderlyEarlier DEF Typed
<1> DEFINE l == [loc[c] EXCEPT !.fresh = FreshFor(c)]
<1>4. ASSUME Moves(c, "claim", l)
      PROVE  AllFits(c)' /\ LeavesQuoted(c)
  <2>1. /\ pc'[c] = "claim" /\ loc'[c].inv = loc[c].inv /\ loc'[c].known = loc[c].known
        /\ loc'[c].config = loc[c].config
    BY <1>1, <1>4, LocType DEF Moves, Local
  <2>2. OffLedger(c)' = OffLedger(c) /\ Prior(c)' = Prior(c)
    BY <1>2, <2>1 DEF Prior, OffLedger, Ledger
  <2>3. CallFits(c)'
    BY <1>1, <2>1 DEF CallFits, StagesOf, Invoicing, Preparing, Releasing
  <2>4. TurnFits(c)'
    BY <1>1, <2>1 DEF TurnFits, Inside, Releasing
  <2>5. OrderFits(c)'
    BY <1>1, <1>2, <2>1 DEF OrderFits, Preparing, Buying, Running, Pricing, Releasing
  <2>6. SavingFits(c)'
    BY <1>1, <1>2, <1>3, <2>1, <2>2 DEF SavingFits, Pricing, Releasing, Buying, Running
  <2>7. PriceFits(c)'
    BY <1>1, <1>2, <1>3, <2>1, <2>2 DEF PriceFits, Pricing, Preparing, Buying, Running
  <2>8. LeavesQuoted(c)
    BY <2>1 DEF LeavesQuoted, Pricing
  <2>9. QED BY <2>3, <2>4, <2>5, <2>6, <2>7, <2>8 DEF AllFits
<1>5. GoesWithout(c) \/ Either(c, "claim", l)
  BY <1>1, OfferStep
<1> HIDE DEF l
<1>6. QED BY <1>1, <1>2, <1>4, <1>5, WithoutKeeps, StillEither

LEMMA ClaimReadKeeps ==
    ASSUME SavingsInv, Started, NEW c \in Calls, ClaimRead(c), Acts(c)
    PROVE  SavingsInv'
<1>1. TypeOK /\ CallsKept /\ CallFits(c) /\ OrderFits(c) /\ SavingFits(c) /\ PriceFits(c) /\ pc[c] = "claim"
  BY InvParts DEF ClaimRead
<1>2. CallKind[c] = "buy" /\ loc[c].inv \in Calls
  BY <1>1, KindAt DEF Started, Invoicing
<1>3. Typed /\ UNCHANGED <<checkout, invoice, serial, unsure, trimmed>>
  BY <1>1, ClaimReadStep
<1>4. (Undisturbed' => Undisturbed) /\ (Orderly' => Orderly)
  BY <1>1, <1>3, OrderlyEarlier DEF Typed
<1>5. ASSUME Moves(c, "claimed", Claiming(c)), lock' = c
      PROVE  AllFits(c)' /\ LeavesQuoted(c)
  <2>1. /\ pc'[c] = "claimed" /\ loc'[c].inv = loc[c].inv /\ loc'[c].known = loc[c].known
        /\ loc'[c].config = checkout.config /\ loc'[c].fresh = FreshClaim(c) /\ loc'[c].rows = Prior(c)
    BY <1>1, <1>5, LocType DEF Moves, Claiming, Local
  <2>2. OffLedger(c)' = OffLedger(c)
    BY <1>3, <2>1 DEF OffLedger, Ledger
  <2>3. Prior(c) \subseteq Pairings
    BY <1>1, LocType, RecordedType DEF Prior
  <2>4. CallFits(c)'
    BY <1>2, <2>1, <2>3 DEF CallFits, StagesOf, Invoicing, Preparing, Releasing, FreshClaim
  <2>5. TurnFits(c)'
    BY <1>2, <1>3, <1>5, <2>1 DEF TurnFits, Inside, Releasing
  <2>6. OrderFits(c)'
    BY <1>1, <1>2, <1>3, <2>1 DEF OrderFits, Preparing, Buying, Running, Pricing, Releasing
  <2>7. SavingFits(c)'
    BY <1>1, <1>2, <1>3, <1>4, <2>1, <2>2 DEF SavingFits, Pricing, Releasing, Buying, Running
  <2>8. PriceFits(c)'
    BY <1>1, <1>2, <1>3, <1>4, <2>1, <2>2 DEF PriceFits, Pricing, Preparing, Buying, Running
  <2>9. LeavesQuoted(c)
    BY <2>1 DEF LeavesQuoted, Pricing
  <2>10. QED BY <2>4, <2>5, <2>6, <2>7, <2>8, <2>9 DEF AllFits
<1>6. (UNCHANGED lock /\ GoesWithout(c)) \/ Enters(c, "claimed", Claiming(c))
  BY <1>1, ClaimReadStep
<1>7. QED BY <1>1, <1>2, <1>3, <1>5, <1>6, WithoutKeeps, StillEnters

LEMMA RecordReadKeeps ==
    ASSUME SavingsInv, NEW c \in Calls, RecordRead(c), Acts(c)
    PROVE  SavingsInv'
<1>1. TypeOK /\ CallsKept /\ CallFits(c) /\ OrderFits(c) /\ SavingFits(c) /\ PriceFits(c) /\ pc[c] = "record"
  BY InvParts DEF RecordRead
<1>2. CallKind[c] = "prepare" /\ loc[c].inv = c
  BY <1>1, KindAt DEF CallFits, Preparing, Running
<1>3. Typed /\ UNCHANGED <<checkout, invoice, serial, unsure, trimmed>> /\ Enters(c, "recorded", Refreshed(c))
  BY <1>1, RecordReadStep
<1>4. (Undisturbed' => Undisturbed) /\ (Orderly' => Orderly)
  BY <1>1, <1>3, OrderlyEarlier DEF Typed
<1>5. ASSUME Moves(c, "recorded", Refreshed(c)), lock' = c
      PROVE  AllFits(c)' /\ LeavesQuoted(c)
  <2>1. /\ pc'[c] = "recorded" /\ loc'[c].inv = c /\ loc'[c].known = loc[c].known
        /\ loc'[c].config = checkout.config /\ loc'[c].fresh = loc[c].fresh
    BY <1>1, <1>2, <1>5, LocType DEF Moves, Refreshed, Local
  <2>2. CallFits(c)'
    BY <1>1, <1>2, <2>1 DEF CallFits, StagesOf, Invoicing, Preparing, Running, Releasing
  <2>3. TurnFits(c)'
    BY <1>2, <1>3, <1>5, <2>1 DEF TurnFits, Inside, Releasing
  <2>4. OrderFits(c)'
    BY <1>1, <1>2, <1>3, <2>1 DEF OrderFits, Preparing, Buying, Running
  <2>5. SavingFits(c)'
    BY <1>1, <1>2, <1>3, <2>1 DEF SavingFits, Pricing, Releasing, Buying
  <2>6. PriceFits(c)'
    BY <1>1, <1>2, <1>3, <1>4, <2>1 DEF PriceFits, Pricing, Preparing, Running, Buying, Ledger
  <2>7. LeavesQuoted(c)
    BY <1>2, <2>1 DEF LeavesQuoted, Pricing
  <2>8. QED BY <2>2, <2>3, <2>4, <2>5, <2>6, <2>7 DEF AllFits
<1>6. QED BY <1>3, <1>5, StillEnters

LEMMA ReleaseReadKeeps ==
    ASSUME SavingsInv, NEW c \in Calls, ReleaseRead(c), Acts(c)
    PROVE  SavingsInv'
<1>1. /\ TypeOK /\ CallsKept /\ CallFits(c) /\ TurnFits(c) /\ OrderFits(c) /\ SavingFits(c) /\ PriceFits(c)
      /\ pc[c] = "release"
  BY InvParts DEF ReleaseRead
<1>2. CallKind[c] \in {"buy", "prepare"}
  BY <1>1, KindAt DEF Releasing
<1>3. Typed /\ UNCHANGED <<checkout, invoice, serial, unsure, trimmed>> /\ Enters(c, "released", Refreshed(c))
  BY <1>1, ReleaseReadStep
<1>4. failures > 0 /\ failures' > 0
  BY <1>1, <1>3, OrderlyEarlier DEF TurnFits, Releasing, Typed
<1>5. ASSUME Moves(c, "released", Refreshed(c)), lock' = c
      PROVE  AllFits(c)' /\ LeavesQuoted(c)
  <2>1. /\ pc'[c] = "released" /\ loc'[c].inv = loc[c].inv
        /\ loc'[c].config = checkout.config /\ loc'[c].fresh = loc[c].fresh
    BY <1>1, <1>5, LocType DEF Moves, Refreshed, Local
  <2>2. CallFits(c)'
    BY <1>1, <1>2, <2>1 DEF CallFits, StagesOf, Invoicing, Preparing, Running, Releasing
  <2>3. TurnFits(c)'
    BY <1>2, <1>3, <1>4, <1>5, <2>1 DEF TurnFits, Inside, Releasing
  <2>4. OrderFits(c)'
    BY <1>1, <1>2, <1>3, <2>1 DEF OrderFits, Preparing, Buying, Running, Releasing
  <2>5. SavingFits(c)'
    BY <1>1, <1>2, <1>3, <2>1 DEF SavingFits, Pricing, Releasing, Buying
  <2>6. ~Undisturbed'
    BY <1>4 DEF Undisturbed
  <2>7. PriceFits(c)' /\ LeavesQuoted(c)
    BY <2>6 DEF PriceFits, LeavesQuoted
  <2>8. QED BY <2>2, <2>3, <2>4, <2>5, <2>7 DEF AllFits
<1>6. QED BY <1>3, <1>5, StillEnters

LEMMA MarkPaidKeeps ==
    ASSUME SavingsInv, NEW c \in Calls, MarkPaid(c), Acts(c)
    PROVE  SavingsInv'
<1>1. TypeOK /\ CallKind[c] = "paid" /\ pc[c] = "idle" /\ checkout.invoice # Nobody
  BY InvParts DEF MarkPaid, MayStart
<1>2. Typed /\ UNCHANGED <<checkout, invoice, serial, unsure, trimmed>> /\ Enters(c, "paid", Refreshed(c))
  BY <1>1, MarkPaidStep
<1>3. ASSUME Moves(c, "paid", Refreshed(c)), lock' = c
      PROVE  AllFits(c)' /\ LeavesQuoted(c)
  <2>1. pc'[c] = "paid" /\ loc'[c].config = checkout.config
    BY <1>1, <1>3, LocType DEF Moves, Refreshed, Local
  <2>2. CallFits(c)'
    BY <1>1, <2>1 DEF CallFits, StagesOf, Invoicing, Preparing, Releasing
  <2>3. TurnFits(c)'
    BY <1>1, <1>2, <1>3, <2>1 DEF TurnFits, Inside, Releasing
  <2>4. OrderFits(c)'
    BY <1>1, <1>2, <2>1 DEF OrderFits, Preparing, Buying
  <2>5. SavingFits(c)'
    BY <1>1, <2>1 DEF SavingFits, Pricing, Releasing, Buying
  <2>6. PriceFits(c)'
    BY <1>1, <2>1 DEF PriceFits, Pricing, Preparing, Buying
  <2>7. LeavesQuoted(c)
    BY <1>1 DEF LeavesQuoted, Pricing
  <2>8. QED BY <2>2, <2>3, <2>4, <2>5, <2>6, <2>7 DEF AllFits
<1>4. QED BY <1>2, <1>3, StillEnters

LEMMA PlanKeeps ==
    ASSUME SavingsInv, NEW c \in Calls, Plan(c), Acts(c)
    PROVE  SavingsInv'
<1>1. TypeOK /\ CallsKept /\ CallFits(c) /\ OrderFits(c) /\ SavingFits(c) /\ PriceFits(c)
      /\ pc[c] = "owned" /\ CallKind[c] = "prepare"
  BY InvParts DEF Plan
<1>2. loc[c].inv = c
  BY <1>1 DEF CallFits, Preparing, Running
<1>3. Typed /\ UNCHANGED <<checkout, invoice, lock, serial, failures, unsure, trimmed>>
  BY <1>1, PlanStep
<1>4. (Undisturbed' => Undisturbed) /\ (Orderly' => Orderly)
  BY <1>1, <1>3, OrderlyEarlier DEF Typed
<1> DEFINE l == [loc[c] EXCEPT !.fresh = Companions \cap Pairings]
<1>5. ASSUME Moves(c, "record", l)
      PROVE  AllFits(c)' /\ LeavesQuoted(c) /\ Others(c)
  <2>1. /\ pc'[c] = "record" /\ loc'[c].inv = c /\ loc'[c].known = loc[c].known
        /\ loc'[c].fresh = Companions \cap Pairings
    BY <1>1, <1>2, <1>5, LocType DEF Moves, Local
  <2>2. CallFits(c)'
    BY <1>1, <1>2, <2>1 DEF CallFits, StagesOf, Invoicing, Preparing, Running, Releasing
  <2>3. TurnFits(c)'
    BY <1>1, <2>1 DEF TurnFits, Inside, Releasing
  <2>4. OrderFits(c)'
    BY <1>1, <1>3, <2>1 DEF OrderFits, Preparing, Buying, Running
  <2>5. SavingFits(c)'
    BY <1>1, <1>2, <1>3, <2>1 DEF SavingFits, Pricing, Releasing, Buying
  <2>6. PriceFits(c)'
    BY <1>1, <1>2, <1>3, <1>4, <2>1 DEF PriceFits, Pricing, Preparing, Running, Buying, Ledger
  <2>7. LeavesQuoted(c) /\ Others(c)
    BY <1>2, <1>5, <2>1 DEF LeavesQuoted, Pricing, Others, Moves
  <2>8. QED BY <2>2, <2>3, <2>4, <2>5, <2>6, <2>7 DEF AllFits
<1>6. ASSUME Moves(c, "link", loc[c])
      PROVE  AllFits(c)' /\ LeavesQuoted(c) /\ Others(c)
  <2>1. pc'[c] = "link" /\ loc'[c] = loc[c]
    BY <1>6 DEF Moves
  <2>2. CallFits(c)'
    BY <1>1, <1>2, <2>1 DEF CallFits, StagesOf, Invoicing, Preparing, Running, Releasing
  <2>3. TurnFits(c)'
    BY <1>1, <2>1 DEF TurnFits, Inside, Releasing
  <2>4. OrderFits(c)'
    BY <1>1, <1>3, <2>1 DEF OrderFits, Preparing, Buying, Running
  <2>5. SavingFits(c)'
    BY <1>1, <1>2, <1>3, <2>1 DEF SavingFits, Pricing, Releasing, Buying
  <2>6. Undisturbed' => Quoted(c)
    BY <1>1, <1>2, <1>4, PlainQuoted DEF PriceFits, Pricing, Preparing, Running
  <2>7. PriceFits(c)'
    BY <1>1, <1>3, <2>1, <2>6 DEF PriceFits, Pricing, Preparing, Running, Buying, Quoted, Ledger
  <2>8. LeavesQuoted(c) /\ Others(c)
    BY <1>2, <1>6, <2>6 DEF LeavesQuoted, Others, Moves
  <2>9. QED BY <2>2, <2>3, <2>4, <2>5, <2>7, <2>8 DEF AllFits
<1>7. Moves(c, "record", l) \/ Moves(c, "link", loc[c])
  BY <1>1, PlanStep
<1> HIDE DEF l
<1>8. QED BY <1>3, <1>5, <1>6, <1>7, StillKeeps DEF Still, Typed

\* A call that ends, with no invoice's price half written.
LEMMA EndingKeeps ==
    ASSUME SavingsInv, Typed, NEW c \in Calls, Acts(c), UNCHANGED <<checkout, invoice, lock, serial, unsure, trimmed>>,
           NEW l, Moves(c, "done", l), pc[c] \notin Pricing
    PROVE  SavingsInv'
<1>1. Still /\ TypeOK' /\ Others(c) /\ pc'[c] = "done"
  BY DEF Typed, Still, Moves, Others
<1>2. AllFits(c)' /\ LeavesQuoted(c)
  BY <1>1, DoneFits DEF AllFits, LeavesQuoted
<1>3. QED BY <1>1, <1>2, StillKeeps

LEMMA AttachKeeps ==
    ASSUME SavingsInv, NEW c \in Calls, Attach(c), Acts(c)
    PROVE  SavingsInv'
<1>1. TypeOK /\ pc[c] \notin Pricing
  BY InvParts DEF Attach, Pricing
<1>2. QED BY <1>1, AttachStep, EndingKeeps DEF Ending

LEMMA PrepareKeeps ==
    ASSUME SavingsInv, NEW c \in Calls, Prepare(c), Acts(c)
    PROVE  SavingsInv'
<1>1. TypeOK /\ PricesKept /\ PriceFits(c) /\ CallKind[c] = "prepare" /\ pc[c] = "idle"
  BY InvParts DEF Prepare, MayStart
<1>2. Typed /\ UNCHANGED <<checkout, invoice, lock, serial, unsure, trimmed>>
  BY <1>1, PrepareStep
<1>3. (Undisturbed' => Undisturbed) /\ (Orderly' => Orderly)
  BY <1>1, <1>2, OrderlyEarlier DEF Typed
<1> DEFINE l == [loc[c] EXCEPT !.inv = c]
<1>4. ASSUME checkout.invoice = Nobody, checkout.status = "Draft", Moves(c, "raise", l)
      PROVE  AllFits(c)' /\ LeavesQuoted(c)
  <2>1. pc'[c] = "raise" /\ loc'[c].inv = c
    BY <1>1, <1>4, LocType DEF Moves, Local
  <2>2. CallFits(c)'
    BY <1>1, <2>1 DEF CallFits, StagesOf, Invoicing, Preparing, Running, Releasing
  <2>3. TurnFits(c)'
    BY <1>1, <2>1 DEF TurnFits, Inside, Releasing
  <2>4. OrderFits(c)'
    BY <1>1, <1>2, <1>4, <2>1 DEF OrderFits, Preparing, Buying, Running
  <2>5. SavingFits(c)'
    BY <1>1, <2>1 DEF SavingFits, Pricing, Releasing, Buying
  <2>6. Undisturbed' => invoice[c].status = "none" /\ Recorded(Ledger, c) = {}
    BY <1>1, <1>3 DEF PriceFits, PricesKept, Recorded
  <2>7. PriceFits(c)'
    BY <1>1, <1>2, <2>1, <2>6 DEF PriceFits, Pricing, Preparing, Running, Buying, Ledger
  <2>8. LeavesQuoted(c)
    BY <1>1 DEF LeavesQuoted, Pricing
  <2>9. QED BY <2>2, <2>3, <2>4, <2>5, <2>7, <2>8 DEF AllFits
<1>5. pc[c] \notin Pricing
  BY <1>1 DEF Pricing
<1>6. \/ Ending(c)
      \/ checkout.invoice = Nobody /\ checkout.status = "Draft" /\ Either(c, "raise", l)
  BY <1>1, PrepareStep
<1> HIDE DEF l
<1>7. QED BY <1>2, <1>4, <1>5, <1>6, StillEither, EndingKeeps DEF Ending

\* Deletions, until they write.
LEMMA DeletingFits ==
    ASSUME SavingsInv, NEW c \in Calls, CallKind[c] = "delete", pc[c] \notin Pricing, pc'[c] \in {"list", "visit"}
    PROVE  AllFits(c)' /\ LeavesQuoted(c)
<1>1. CallFits(c)'
  BY DEF CallFits, StagesOf, Invoicing, Preparing, Releasing
<1>2. TurnFits(c)'
  BY DEF TurnFits, Inside, Releasing
<1>3. OrderFits(c)'
  BY DEF OrderFits, Preparing, Buying
<1>4. SavingFits(c)'
  BY DEF SavingFits, Pricing, Releasing, Buying
<1>5. PriceFits(c)'
  BY DEF PriceFits, Pricing, Preparing, Buying
<1>6. LeavesQuoted(c)
  BY DEF LeavesQuoted
<1>7. QED BY <1>1, <1>2, <1>3, <1>4, <1>5, <1>6 DEF AllFits

LEMMA DeleteKeeps ==
    ASSUME SavingsInv, NEW c \in Calls, Delete(c), Acts(c)
    PROVE  SavingsInv'
<1>1. TypeOK /\ CallKind[c] = "delete" /\ pc[c] \notin Pricing
  BY InvParts DEF Delete, MayStart, Pricing
<1>2. /\ Typed /\ UNCHANGED <<checkout, invoice, lock, serial, unsure, trimmed>>
      /\ Moves(c, "list", loc[c]) \/ Moves(c, "done", loc[c])
  BY <1>1, DeleteStep
<1>3. CASE Moves(c, "list", loc[c])
  <2>1. AllFits(c)' /\ LeavesQuoted(c) /\ Others(c)
    BY <1>1, <1>3, DeletingFits DEF Moves, Others
  <2>2. QED BY <1>2, <2>1, StillKeeps DEF Still, Typed
<1>4. QED BY <1>1, <1>2, <1>3, EndingKeeps

LEMMA ListOpenKeeps ==
    ASSUME SavingsInv, NEW c \in Calls, ListOpen(c), Acts(c)
    PROVE  SavingsInv'
<1>1. TypeOK /\ CallsKept /\ pc[c] = "list"
  BY InvParts DEF ListOpen
<1>2. CallKind[c] = "delete" /\ pc[c] \notin Pricing
  BY <1>1, KindAt DEF Pricing
<1> DEFINE l == [loc[c] EXCEPT !.todo = Open]
<1>3. Typed /\ UNCHANGED <<checkout, invoice, lock, serial, unsure, trimmed>> /\ Either(c, "visit", l)
  BY <1>1, ListOpenStep
<1> HIDE DEF l
<1>4. Moves(c, "visit", l) => AllFits(c)' /\ LeavesQuoted(c)
  BY <1>2, DeletingFits DEF Moves
<1>5. QED BY <1>3, <1>4, StillEither

LEMMA VisitKeeps ==
    ASSUME SavingsInv, NEW c \in Calls, Visit(c), Acts(c)
    PROVE  SavingsInv'
<1>1. TypeOK /\ CallsKept /\ pc[c] = "visit"
  BY InvParts DEF Visit
<1>2. CallKind[c] = "delete" /\ pc[c] \notin Pricing
  BY <1>1, KindAt DEF Pricing
<1>3. Typed /\ UNCHANGED <<checkout, invoice, lock, serial, unsure, trimmed>>
  BY <1>1, VisitStep
<1>4. ASSUME NEW l, Either(c, "visit", l)
      PROVE  SavingsInv'
  <2>1. Moves(c, "visit", l) => AllFits(c)' /\ LeavesQuoted(c)
    BY <1>2, DeletingFits DEF Moves
  <2>2. QED BY <1>3, <1>4, <2>1, StillEither
<1>5. ASSUME NEW i \in Calls, Either(c, "trim", ToTrim(c, i))
      PROVE  SavingsInv'
  <2>1. ASSUME Moves(c, "trim", ToTrim(c, i))
        PROVE  AllFits(c)' /\ LeavesQuoted(c)
    <3>1. pc'[c] = "trim" /\ loc'[c].inv = i /\ loc'[c].fresh = KeptSaving(i, RowsLeft(c, i))
      BY <1>1, <2>1, ToTrimType DEF Moves
    <3>2. /\ KeptSaving(i, RowsLeft(c, i)) \subseteq Recorded(Ledger, i)
          /\ KeptSaving(i, RowsLeft(c, i)) = {} \/ checkout.invoice = i
      BY <1>1, ToTrimType, KeptSavingType
    <3>3. CallFits(c)'
      BY <1>2, <3>1 DEF CallFits, StagesOf, Invoicing, Preparing, Releasing
    <3>4. TurnFits(c)'
      BY <1>2, <3>1 DEF TurnFits, Inside, Releasing
    <3>5. OrderFits(c)'
      BY <1>2, <1>3, <3>1, <3>2 DEF OrderFits, Preparing, Buying
    <3>6. SavingFits(c)'
      BY <1>2, <1>3, <3>1, <3>2 DEF SavingFits, Pricing, Releasing, Buying, OffLedger, Ledger
    <3>7. PriceFits(c)'
      BY <1>2, <3>1 DEF PriceFits, Pricing, Preparing, Buying
    <3>8. LeavesQuoted(c)
      BY <1>2 DEF LeavesQuoted
    <3>9. QED BY <3>3, <3>4, <3>5, <3>6, <3>7, <3>8 DEF AllFits
  <2>2. QED BY <1>3, <1>5, <2>1, StillEither
<1>6. CASE Ending(c)
  BY <1>2, <1>3, <1>6, EndingKeeps DEF Ending
<1>7. ASSUME NEW i \in Calls, Either(c, "visit", [loc[c] EXCEPT !.todo = loc[c].todo \ {i}])
      PROVE  SavingsInv'
  BY <1>4, <1>7
<1>8. QED BY <1>1, <1>5, <1>6, <1>7, VisitStep, LocType

LEMMA MergeReadKeeps ==
    ASSUME SavingsInv, NEW c \in Calls, MergeRead(c), Acts(c)
    PROVE  SavingsInv'
<1>1. TypeOK /\ TurnFits(c) /\ CallKind[c] = "merge" /\ pc[c] = "idle"
  BY InvParts DEF MergeRead, MayStart
<1>2. Typed /\ UNCHANGED <<checkout, invoice, lock, serial, unsure, trimmed>> /\ Either(c, "merged", Refreshed(c))
  BY <1>1, MergeReadStep
<1>3. ASSUME Moves(c, "merged", Refreshed(c))
      PROVE  AllFits(c)' /\ LeavesQuoted(c)
  <2>1. pc'[c] = "merged" /\ loc'[c].config = checkout.config
    BY <1>1, <1>3, LocType DEF Moves, Refreshed, Local
  <2>2. CallFits(c)'
    BY <1>1, <2>1 DEF CallFits, StagesOf, Invoicing, Preparing, Releasing
  <2>3. TurnFits(c)'
    BY <1>1, <1>2, <2>1 DEF TurnFits, Inside, Releasing
  <2>4. OrderFits(c)'
    BY <1>1, <2>1 DEF OrderFits, Preparing, Buying
  <2>5. SavingFits(c)'
    BY <1>1, <2>1 DEF SavingFits, Pricing, Releasing, Buying
  <2>6. PriceFits(c)'
    BY <1>1, <2>1 DEF PriceFits, Pricing, Preparing, Buying
  <2>7. LeavesQuoted(c)
    BY <1>1 DEF LeavesQuoted, Pricing
  <2>8. QED BY <2>2, <2>3, <2>4, <2>5, <2>6, <2>7 DEF AllFits
<1>4. QED BY <1>2, <1>3, StillEither

-----------------------------------------------------------------------------
(* AddonSavings: the steps that write the ledger                               *)

\* What a step that rewrites config_json leaves to show.
LedgerGood ==
    /\ \A d, e \in Ledger : d.pairing = e.pairing => d = e
    /\ checkout.status = "Draft" => DraftFits
    /\ DiscountsRecorded
    /\ Undisturbed => /\ \A e \in Ledger : invoice[e.invoice].status # "none"
                      /\ \A i \in Calls : Settled(i) => Quoted(i)

LEMMA LedgerKeeps ==
    ASSUME SavingsInv, TypeOK', NEW c \in Calls, Acts(c), Others(c), UNCHANGED <<invoice, serial, unsure, trimmed>>,
           failures' >= failures, checkout'.invoice = checkout.invoice,
           checkout'.status = checkout.status \/ (checkout'.status = "Paid" /\ checkout.invoice # Nobody),
           lock' = lock \/ lock = c, lock = c \/ serial, AllFits(c)', LedgerGood',
           \A d \in Calls \ {c} : SavingFits(d)'
    PROVE  SavingsInv'
<1>1. TypeOK /\ CallsKept /\ TurnsKept /\ OrderKept /\ SavingsKept /\ PricesKept
  BY DEF SavingsInv
<1>2. CallsKept'
  BY <1>1, CallsApart DEF AllFits
<1>3. TurnsKept'
  BY <1>1, TurnsOthers DEF AllFits
<1>4. (Orderly' => Orderly) /\ (Undisturbed' => Undisturbed)
  BY <1>1, OrderlyEarlier
<1>5. \A d \in Calls : d # c => pc'[d] = pc[d] /\ loc'[d] = loc[d]
  BY DEF Others
<1>6. OrderKept'
  <2>1. ASSUME NEW d \in Calls, d # c PROVE OrderFits(d)'
    BY <1>1, <1>5, <2>1 DEF OrderKept, OrderFits, Preparing, Buying, Running
  <2>2. QED BY <1>1, <2>1 DEF OrderKept, AllFits, LedgerGood
<1>7. SavingsKept'
  BY DEF SavingsKept, AllFits, LedgerGood
<1>8. PricesKept'
  <2>1. ASSUME NEW d \in Calls, d # c, Undisturbed' PROVE PriceFits(d)'
    <3>1. ~Running(d) /\ ~Running(d)' /\ PriceFits(d) /\ pc'[d] = pc[d]
      BY <1>1, <1>4, <1>5, <2>1 DEF Acts, Undisturbed, Running, PricesKept
    <3>2. QED BY <1>4, <2>1, <3>1 DEF PriceFits, Preparing, Buying, Running, Pricing
  <2>2. ASSUME NEW d \in Calls, d # c, ~Undisturbed' PROVE PriceFits(d)'
    BY <2>2 DEF PriceFits
  <2>3. QED BY <2>1, <2>2 DEF PricesKept, AllFits, LedgerGood
<1>9. QED BY <1>2, <1>3, <1>6, <1>7, <1>8 DEF SavingsInv

\* A write that fails.
LEMMA UnwrittenKeeps ==
    ASSUME SavingsInv, Typed, NEW c \in Calls, Acts(c), lock = c,
           UNCHANGED <<checkout, invoice, serial, unsure, trimmed>>, NEW l, Moves(c, "done", l),
           pc[c] \notin Pricing \/ failures' > failures
    PROVE  SavingsInv'
<1>1. Still /\ TypeOK' /\ Others(c)
  BY DEF Typed, Still, Moves, Others
<1>2. AllFits(c)'
  BY DoneFits DEF Moves, AllFits
<1>3. LeavesQuoted(c)
  <2>1. failures \in Nat
    BY CatalogAssumption DEF SavingsInv, TypeOK
  <2>2. QED BY <2>1 DEF Undisturbed, LeavesQuoted
<1>4. QED BY <1>1, <1>2, <1>3, StillKeeps

LEMMA RecordedEntries ==
    ASSUME NEW pairings \in SUBSET Pairings, NEW i \in Calls
    PROVE  Recorded(Entries(pairings, i), i) = pairings
<1>1. ASSUME NEW s \in pairings
      PROVE  \E e \in Entries(pairings, i) : e.pairing = s /\ e.invoice = i
  <2>1. [pairing |-> s, invoice |-> i] \in Entries(pairings, i)
    BY DEF Entries
  <2>2. QED BY <2>1
<1>2. QED BY <1>1, EntriesType DEF Recorded

LEMMA RecordedJoin ==
    ASSUME NEW ledger \in SUBSET Entry, NEW pairings \in SUBSET Pairings, NEW i \in Calls
    PROVE  /\ Recorded(ledger \cup Entries(pairings, i), i) = Recorded(ledger, i) \cup pairings
           /\ \A j : j # i => Recorded(ledger \cup Entries(pairings, i), j) = Recorded(ledger, j)
<1> DEFINE E == Entries(pairings, i)
<1>1. Recorded(E, i) = pairings
  BY RecordedEntries
<1>2. \A e \in E : e.invoice = i
  BY EntriesType
<1> HIDE DEF E
<1>3. Recorded(ledger \cup E, i) = Recorded(ledger, i) \cup Recorded(E, i)
  BY DEF Recorded
<1>4. \A j : j # i => Recorded(ledger \cup E, j) = Recorded(ledger, j)
  BY <1>2 DEF Recorded
<1>5. QED BY <1>1, <1>3, <1>4 DEF E

LEMMA RecordedLess ==
    ASSUME NEW ledger \in SUBSET Entry, NEW pairings \in SUBSET Pairings, NEW i \in Calls
    PROVE  \A j : j # i => Recorded(ledger \ Entries(pairings, i), j) = Recorded(ledger, j)
<1>1. \A e \in Entries(pairings, i) : e.invoice = i
  BY EntriesType
<1>2. QED BY <1>1 DEF Recorded

\* A wider ledger takes nothing from the calls that do not write it.
LEMMA WiderKeeps ==
    ASSUME NEW d \in Calls, SavingFits(d), pc'[d] = pc[d], loc'[d] = loc[d], UNCHANGED <<invoice, serial, unsure>>,
           Orderly' => Orderly, Recorded(Ledger, loc[d].inv) \subseteq Recorded(Ledger', loc[d].inv),
           Recorded(Ledger, d) \subseteq Recorded(Ledger', d)
    PROVE  SavingFits(d)'
<1>1. /\ Prior(d)' = Prior(d) /\ Off(d)' = Off(d) /\ OffLedger(d) \subseteq OffLedger(d)'
  BY DEF Prior, Off, OffLedger
<1>2. (/\ pc[d] \in Pricing \cup Releasing /\ (serial \/ CallKind[d] = "prepare")
          => invoice[loc[d].inv].off = {} \/ (pc[d] \in Releasing /\ loc[d].inv \in unsure))'
  BY DEF SavingFits
<1>3. QED BY <1>1, <1>2 DEF SavingFits, Buying, Running

LEMMA ClaimWriteKeeps ==
    ASSUME SavingsInv, Started, NEW c \in Calls, ClaimWrite(c), Acts(c)
    PROVE  SavingsInv'
<1>1. /\ TypeOK /\ CallsKept /\ OrderKept /\ SavingsKept /\ PricesKept
      /\ CallFits(c) /\ TurnFits(c) /\ OrderFits(c) /\ SavingFits(c) /\ PriceFits(c) /\ pc[c] = "claimed"
  BY InvParts DEF ClaimWrite
<1>2. CallKind[c] = "buy" /\ lock = c /\ loc[c].config = checkout.config /\ checkout.status = "Paid"
  BY <1>1, KindAt DEF TurnFits, Inside, OrderFits, Buying, Running, Pricing
<1>3. /\ Typed /\ UNCHANGED <<invoice, owned, serial, unsure, trimmed>>
      /\ loc[c].inv \in Calls /\ loc[c].rows \in SUBSET Pairings /\ lock' = Nobody
      /\ Rewrites(Claimed(c)) /\ Either(c, "amount", Keeping(c, RowsEntries(c)))
  BY <1>1, ClaimWriteStep
<1>4. (Undisturbed' => Undisturbed) /\ (Orderly' => Orderly) /\ failures \in Nat
  BY <1>1, <1>3, OrderlyEarlier, CatalogAssumption DEF Typed, TypeOK
<1>5. CASE checkout' = checkout /\ failures' > failures
  <2>1. Moves(c, "done", NoLocal)
    BY <1>3, <1>4, <1>5 DEF Either
  <2>2. QED BY <1>2, <1>3, <1>5, <2>1, UnwrittenKeeps
<1>6. CASE checkout'.status = checkout.status /\ checkout'.invoice = checkout.invoice /\ Ledger' = Claimed(c)
  <2> DEFINE i == loc[c].inv
             fresh == loc[c].fresh
  <2>1. /\ Ledger \in SUBSET Entry /\ i \in Calls /\ fresh \in SUBSET Pairings
        /\ Ledger' = Ledger \cup Entries(fresh, i) /\ fresh \cap Taken(Ledger) = {}
    BY <1>1, <1>2, <1>3, <1>6, LocType DEF Claimed, Ledger, CallFits
  <2>2. loc[c].inv = i /\ loc[c].fresh = fresh
    OBVIOUS
  <2> HIDE DEF i, fresh
  <2>3. /\ Recorded(Ledger', i) = Recorded(Ledger, i) \cup fresh
        /\ \A j : j # i => Recorded(Ledger', j) = Recorded(Ledger, j)
        /\ \A j : Recorded(Ledger, j) \subseteq Recorded(Ledger', j)
    <3>1. /\ Recorded(Ledger \cup Entries(fresh, i), i) = Recorded(Ledger, i) \cup fresh
          /\ \A j : j # i => Recorded(Ledger \cup Entries(fresh, i), j) = Recorded(Ledger, j)
      <4>1. Ledger \in SUBSET Entry /\ i \in Calls /\ fresh \in SUBSET Pairings
        BY <2>1
      <4>2. Recorded(Ledger \cup Entries(fresh, i), i) = Recorded(Ledger, i) \cup fresh
        BY <4>1, RecordedJoin
      <4>3. \A e \in Entries(fresh, i) : e.invoice = i
        BY <4>1, EntriesType
      <4>4. \A j : j # i => Recorded(Ledger \cup Entries(fresh, i), j) = Recorded(Ledger, j)
        BY <4>3 DEF Recorded
      <4>5. QED BY <4>2, <4>4
    <3>2. QED BY <2>1, <3>1
  <2>4. Others(c) /\ TypeOK' /\ checkout'.config.ledger = Ledger'
    BY <1>3 DEF Either, Moves, Others, Typed, Ledger
  <2>5. \A d \in Calls \ {c} : SavingFits(d)'
    BY <1>1, <1>3, <1>4, <2>3, <2>4, WiderKeeps DEF SavingsKept, Others
  <2>6. \A d, e \in Ledger' : d.pairing = e.pairing => d = e
    <3>1. SUFFICES ASSUME NEW d \in Ledger', NEW e \in Ledger', d.pairing = e.pairing PROVE d = e
      OBVIOUS
    <3>2. \A x \in Entries(fresh, i) : x \in Entry /\ x.pairing \in fresh /\ x.invoice = i
      BY <2>1, EntriesType
    <3>3. \A x \in Ledger : x.pairing \notin fresh
      BY <2>1, RecordedType
    <3>4. CASE d \in Ledger /\ e \in Ledger
      BY <1>1, <3>1, <3>4 DEF OrderKept
    <3>5. CASE d \in Entries(fresh, i) /\ e \in Entries(fresh, i)
      BY <3>1, <3>2, <3>5 DEF Entry
    <3>6. QED BY <2>1, <3>1, <3>2, <3>3, <3>4, <3>5
  <2>7. DiscountsRecorded'
    BY <1>1, <1>3, <1>4, <1>6, <2>3, <2>4 DEF SavingsKept, DiscountsRecorded, Standing, Ledger
  <2>8. (checkout.status = "Draft" => DraftFits)'
    BY <1>2, <1>6
  <2>9. CASE Moves(c, "done", NoLocal) /\ failures' > failures
    <3>1. AllFits(c)' /\ ~Undisturbed'
      BY <1>4, <2>9, DoneFits DEF Moves, AllFits, Undisturbed
    <3>2. LedgerGood'
      BY <2>6, <2>7, <2>8, <3>1 DEF LedgerGood
    <3>3. QED BY <1>2, <1>3, <1>6, <2>4, <2>5, <3>1, <3>2, LedgerKeeps DEF Typed
  <2>10. CASE Moves(c, "amount", Keeping(c, RowsEntries(c))) /\ failures' = failures
    <3>1. /\ pc'[c] = "amount" /\ loc'[c].inv = i /\ loc'[c].fresh = fresh /\ loc'[c].known = loc[c].known
          /\ loc'[c].config.ledger = Entries(loc[c].rows, i)
      <4>1. RowsEntries(c) \in SUBSET Entry
        BY <1>3, EntriesType DEF RowsEntries
      <4>2. QED BY <1>1, <2>2, <2>10, <4>1, KeepingType DEF Moves, RowsEntries
    <3>2. Prior(c)' = loc[c].rows
      <4>1. Recorded(Entries(loc[c].rows, i), i) = loc[c].rows
        BY <1>3, <2>1, RecordedEntries
      <4>2. QED BY <3>1, <4>1 DEF Prior
    <3>3. Off(c)' = loc[c].rows \cup fresh /\ OffLedger(c)' = Recorded(Ledger, i) \cup fresh
          /\ OffLedger(c) = Recorded(Ledger, i)
      BY <2>2, <2>3, <3>1, <3>2 DEF Off, OffLedger
    <3>4. CallFits(c)'
      BY <1>2, <2>1, <3>1 DEF CallFits, StagesOf, Invoicing, Preparing, Releasing
    <3>5. TurnFits(c)'
      BY <1>2, <3>1 DEF TurnFits, Inside, Releasing
    <3>6. OrderFits(c)'
      BY <1>2, <1>6, <3>1 DEF OrderFits, Preparing
    <3>7. SavingFits(c)'
      BY <1>1, <1>2, <1>3, <1>4, <2>2, <3>1, <3>3 DEF SavingFits, Pricing, Releasing
    <3>8. PriceFits(c)'
      BY <1>1, <1>2, <1>3, <1>4, <2>2, <3>1, <3>3 DEF PriceFits, Pricing, Preparing
    <3>9. ASSUME Undisturbed'
          PROVE  \A e \in Ledger' : invoice'[e.invoice].status # "none"
      <4>1. invoice[i].status # "none"
        BY <1>1, <1>4, <2>2, <3>9 DEF PriceFits, Pricing, Plain
      <4>2. \A e \in Entries(fresh, i) : e.invoice = i
        BY <2>1, EntriesType
      <4>3. \A e \in Ledger : invoice[e.invoice].status # "none"
        BY <1>1, <1>4, <3>9 DEF PricesKept
      <4>4. QED BY <1>3, <2>1, <4>1, <4>2, <4>3
    <3>10. ASSUME Undisturbed', NEW j \in Calls, Settled(j)'
           PROVE  Quoted(j)'
      <4>1. j # i
        BY <3>1, <3>10 DEF Settled, Pricing
      <4>2. Settled(j)
        BY <1>3, <1>6, <2>2, <2>4, <3>10, <4>1 DEF Settled, Standing, Others
      <4>3. QED BY <1>1, <1>3, <1>4, <2>3, <3>10, <4>1, <4>2 DEF PricesKept, Quoted
    <3>11. LedgerGood'
      BY <2>6, <2>7, <2>8, <3>9, <3>10 DEF LedgerGood
    <3>12. QED BY <1>2, <1>3, <1>6, <2>4, <2>5, <3>4, <3>5, <3>6, <3>7, <3>8, <3>11, LedgerKeeps DEF Typed, AllFits
  <2>11. QED BY <1>3, <2>9, <2>10 DEF Either
<1>7. QED BY <1>3, <1>5, <1>6 DEF Rewrites

\* Two calls that prepare the order do not run at the same time.
LEMMA PreparesAlone ==
    ASSUME TurnsKept, NEW c \in Calls, Preparing(c)
    PROVE  \A d \in Calls : d # c => ~Preparing(d)
<1>1. ASSUME NEW d \in Calls, d # c, Preparing(d)
      PROVE  FALSE
  <2>1. Apart(c, d)
    BY <1>1 DEF TurnsKept
  <2>2. QED BY <1>1, <2>1 DEF Apart, Preparing, Running
<1>2. QED BY <1>1

\* What is on record for a standing invoice of a Draft: nothing.
LEMMA DraftStanding ==
    ASSUME DraftFits, checkout.invoice = Nobody, NEW i \in Calls, Standing(i)
    PROVE  Recorded(Ledger, i) = {} /\ invoice[i].off = {} /\ CallKind[i] # "prepare"
<1>1. CallKind[i] # "prepare"
  BY CatalogAssumption DEF Standing
<1>2. QED BY <1>1 DEF DraftFits, Recorded

LEMMA RecordWriteKeeps ==
    ASSUME SavingsInv, Started, NEW c \in Calls, RecordWrite(c), Acts(c)
    PROVE  SavingsInv'
<1>1. /\ TypeOK /\ CallsKept /\ TurnsKept /\ OrderKept /\ SavingsKept /\ PricesKept
      /\ CallFits(c) /\ TurnFits(c) /\ OrderFits(c) /\ SavingFits(c) /\ PriceFits(c) /\ pc[c] = "recorded"
  BY InvParts DEF RecordWrite
<1>2. /\ CallKind[c] = "prepare" /\ Preparing(c) /\ lock = c /\ loc[c].config = checkout.config
      /\ loc[c].inv = c /\ loc[c].fresh \subseteq Companions
      /\ checkout.status = "Draft" /\ checkout.invoice = Nobody /\ DraftFits
  BY <1>1, KindAt DEF TurnFits, Inside, OrderFits, OrderKept, CallFits, Preparing, Running
<1>3. /\ Typed /\ UNCHANGED <<invoice, owned, serial, unsure, trimmed>>
      /\ lock' = Nobody /\ Rewrites(Replaced(c)) /\ Either(c, "amount", Keeping(c, {}))
  BY <1>1, RecordWriteStep
<1>4. (Undisturbed' => Undisturbed) /\ (Orderly' => Orderly) /\ failures \in Nat
  BY <1>1, <1>3, OrderlyEarlier, CatalogAssumption DEF Typed, TypeOK
<1>5. CASE checkout' = checkout /\ failures' > failures
  <2>1. Moves(c, "done", NoLocal)
    BY <1>3, <1>4, <1>5 DEF Either
  <2>2. QED BY <1>2, <1>3, <1>5, <2>1, UnwrittenKeeps
<1>6. CASE checkout'.status = checkout.status /\ checkout'.invoice = checkout.invoice /\ Ledger' = Replaced(c)
  <2> DEFINE fresh == loc[c].fresh
             kept == {e \in Ledger : e.pairing \notin fresh}
  <2>1. Ledger \in SUBSET Entry /\ fresh \in SUBSET Pairings /\ Ledger' = kept \cup Entries(fresh, c)
    BY <1>1, <1>2, <1>6, LocType DEF Replaced, Ledger
  <2>2. /\ \A e \in Entries(fresh, c) : e \in Entry /\ e.pairing \in fresh /\ e.invoice = c
        /\ Recorded(kept \cup Entries(fresh, c), c) = Recorded(kept, c) \cup fresh
    BY <2>1, EntriesType, RecordedJoin
  <2>3. Recorded(Ledger', c) = Recorded(kept, c) \cup fresh
    BY <2>1, <2>2
  <2>4. Others(c) /\ TypeOK' /\ checkout'.config.ledger = Ledger'
    BY <1>3 DEF Either, Moves, Others, Typed, Ledger
  <2>5. \A d, e \in Ledger' : d.pairing = e.pairing => d = e
    <3>1. SUFFICES ASSUME NEW d \in Ledger', NEW e \in Ledger', d.pairing = e.pairing PROVE d = e
      OBVIOUS
    <3>2. CASE d \in kept /\ e \in kept
      BY <1>1, <3>1, <3>2 DEF OrderKept
    <3>3. CASE d \in Entries(fresh, c) /\ e \in Entries(fresh, c)
      BY <2>2, <3>1, <3>3 DEF Entry
    <3>4. QED BY <2>1, <2>2, <3>1, <3>2, <3>3
  <2>6. DraftFits'
    BY <1>2, <1>3, <2>1, <2>2 DEF DraftFits
  <2>7. \A i \in Calls : Standing(i)' => Standing(i) /\ Recorded(Ledger, i) = {} /\ Recorded(Ledger', i) = {}
                                         /\ invoice[i].off = {} /\ i # c
    <3>1. ASSUME NEW i \in Calls, Standing(i)'
          PROVE  Standing(i)
      BY <1>3, <1>6, <3>1 DEF Standing
    <3>2. ASSUME NEW i \in Calls, CallKind[i] # "prepare"
          PROVE  Recorded(Ledger', i) = {}
      BY <2>6, <3>2 DEF DraftFits, Recorded
    <3>3. QED BY <1>2, <3>1, <3>2, DraftStanding
  <2>8. DiscountsRecorded'
    BY <1>3, <2>7 DEF DiscountsRecorded
  <2>9. ASSUME NEW d \in Calls, d # c
        PROVE  SavingFits(d)'
    <3>1. /\ SavingFits(d) /\ CallFits(d) /\ OrderFits(d) /\ ~Preparing(d)
          /\ pc'[d] = pc[d] /\ loc'[d] = loc[d] /\ Off(d)' = Off(d) /\ Prior(d)' = Prior(d)
      BY <1>1, <1>2, <2>4, <2>9, InvParts, PreparesAlone DEF Others, Off, Prior
    <3>2. pc[d] \notin {"claimed", "amount", "link"} /\ ~(Buying(d) /\ pc[d] \in {"owned", "claim"})
      BY <1>1, <1>2, <3>1, KindAt DEF OrderFits, Buying, Preparing, Running, Pricing
    <3>3. pc[d] = "trim" => loc[d].fresh = {}
      BY <1>2, <3>1, CatalogAssumption DEF OrderFits, Started, Invoicing
    <3>4. QED BY <1>3, <3>1, <3>2, <3>3 DEF SavingFits, Buying, Running
  <2>10. CASE Moves(c, "done", NoLocal) /\ failures' > failures
    <3>1. AllFits(c)' /\ ~Undisturbed'
      BY <1>4, <2>10, DoneFits DEF Moves, AllFits, Undisturbed
    <3>2. LedgerGood'
      BY <2>5, <2>6, <2>8, <3>1 DEF LedgerGood
    <3>3. QED BY <1>2, <1>3, <1>6, <2>4, <2>9, <3>1, <3>2, LedgerKeeps DEF Typed
  <2>11. CASE Moves(c, "amount", Keeping(c, {})) /\ failures' = failures
    <3>1. /\ pc'[c] = "amount" /\ loc'[c].inv = c /\ loc'[c].fresh = fresh /\ loc'[c].known = loc[c].known
          /\ loc'[c].config.ledger = {}
      BY <1>1, <1>2, <2>11, KeepingType DEF Moves
    <3>2. Off(c)' = fresh /\ OffLedger(c)' = Recorded(kept, c) \cup fresh
      BY <2>3, <3>1 DEF Off, Prior, Recorded, OffLedger
    <3>3. CallFits(c)'
      BY <1>2, <3>1 DEF CallFits, StagesOf, Invoicing, Preparing, Running, Releasing
    <3>4. TurnFits(c)'
      BY <1>2, <3>1 DEF TurnFits, Inside, Releasing
    <3>5. OrderFits(c)'
      BY <1>2, <1>6, <3>1 DEF OrderFits, Preparing, Buying
    <3>6. SavingFits(c)'
      BY <1>1, <1>2, <1>3, <3>1, <3>2 DEF SavingFits, Pricing, Releasing, Buying
    <3>7. Undisturbed' => Recorded(Ledger, c) = {} /\ Recorded(kept, c) = {}
      BY <1>1, <1>2, <1>4 DEF PriceFits, Recorded
    <3>8. PriceFits(c)'
      BY <1>1, <1>2, <1>3, <1>4, <3>1, <3>2, <3>7 DEF PriceFits, Pricing, Preparing, Buying
    <3>9. ASSUME Undisturbed'
          PROVE  \A e \in Ledger' : invoice'[e.invoice].status # "none"
      <4>1. invoice[c].status # "none"
        BY <1>1, <1>2, <1>4, <3>9 DEF PriceFits, Pricing, Plain
      <4>2. \A e \in Ledger : invoice[e.invoice].status # "none"
        BY <1>1, <1>4, <3>9 DEF PricesKept
      <4>3. QED BY <1>3, <2>1, <2>2, <4>1, <4>2
    <3>10. ASSUME Undisturbed', NEW j \in Calls, Settled(j)'
           PROVE  Quoted(j)'
      <4>1. Standing(j) /\ j # c /\ Recorded(Ledger, j) = Recorded(Ledger', j)
        BY <2>7, <3>10 DEF Settled
      <4>2. Settled(j)
        BY <1>2, <1>3, <2>4, <3>10, <4>1 DEF Settled, Others
      <4>3. QED BY <1>1, <1>3, <1>4, <3>10, <4>1, <4>2 DEF PricesKept, Quoted
    <3>11. LedgerGood'
      BY <2>5, <2>6, <2>8, <3>9, <3>10 DEF LedgerGood
    <3>12. QED BY <1>2, <1>3, <1>6, <2>4, <2>9, <3>3, <3>4, <3>5, <3>6, <3>8, <3>11, LedgerKeeps DEF Typed, AllFits
  <2>12. QED BY <1>3, <2>10, <2>11 DEF Either
<1>7. QED BY <1>3, <1>5, <1>6 DEF Rewrites

LEMMA ReleaseWriteKeeps ==
    ASSUME SavingsInv, Started, NEW c \in Calls, ReleaseWrite(c), Acts(c)
    PROVE  SavingsInv'
<1>1. /\ TypeOK /\ CallsKept /\ OrderKept /\ SavingsKept /\ TurnFits(c) /\ SavingFits(c) /\ pc[c] = "released"
  BY InvParts DEF ReleaseWrite
<1>2. lock = c /\ loc[c].config = checkout.config /\ failures > 0
  BY <1>1 DEF TurnFits, Inside, Releasing
<1>3. /\ Typed /\ UNCHANGED <<invoice, owned, serial, unsure, trimmed>> /\ loc[c].inv \in Calls
      /\ lock' = Nobody /\ Rewrites(Released(c)) /\ Moves(c, "done", NoLocal)
  BY <1>1, ReleaseWriteStep
<1>4. (Orderly' => Orderly) /\ failures \in Nat /\ failures' > 0
  BY <1>1, <1>2, <1>3, OrderlyEarlier, CatalogAssumption DEF Typed, TypeOK
<1>5. CASE checkout' = checkout /\ failures' > failures
  BY <1>2, <1>3, <1>5, UnwrittenKeeps
<1>6. CASE checkout'.status = checkout.status /\ checkout'.invoice = checkout.invoice /\ Ledger' = Released(c)
  <2> DEFINE i == loc[c].inv
  <2>1. Ledger' = Ledger \ Entries(loc[c].fresh, i) /\ \A j : j # i => Recorded(Ledger', j) = Recorded(Ledger, j)
    <3>1. Ledger' = Ledger \ Entries(loc[c].fresh, i)
      BY <1>2, <1>6 DEF Released, Ledger
    <3>2. Ledger \in SUBSET Entry /\ loc[c].fresh \in SUBSET Pairings
      BY <1>1, LocType DEF Ledger
    <3>3. \A j : j # i => Recorded(Ledger \ Entries(loc[c].fresh, i), j) = Recorded(Ledger, j)
      BY <1>3, <3>2, RecordedLess
    <3>4. QED BY <3>1, <3>3
  <2>2. Others(c) /\ TypeOK' /\ AllFits(c)' /\ ~Undisturbed' /\ checkout'.config.ledger = Ledger'
    BY <1>3, <1>4, DoneFits DEF Moves, Others, Typed, AllFits, Undisturbed, Ledger
  <2>3. Orderly' => serial /\ Orderly
    BY <1>2, <1>4 DEF Orderly
  <2>4. ASSUME NEW d \in Calls, d # c
        PROVE  SavingFits(d)'
    <3>1. SavingFits(d) /\ pc'[d] = pc[d] /\ loc'[d] = loc[d] /\ (Orderly' => ~Running(d))
      BY <1>1, <2>2, <2>3, <2>4 DEF SavingsKept, Others, Acts
    <3>2. QED BY <1>3, <3>1 DEF SavingFits, Running, Buying
  <2>5. DiscountsRecorded'
    <3>1. SUFFICES ASSUME Orderly', NEW j \in Calls, Standing(j)'
                   PROVE  invoice'[j].off \subseteq Recorded(Ledger', j)
      BY DEF DiscountsRecorded, Ledger
    <3>2. Standing(j)
      BY <1>3, <1>6, <3>1 DEF Standing
    <3>3. CASE j = i
      BY <1>1, <1>3, <2>3, <3>1, <3>2, <3>3 DEF SavingFits, Releasing, Standing
    <3>4. CASE j # i
      BY <1>1, <1>3, <2>1, <2>3, <3>1, <3>2, <3>4 DEF SavingsKept, DiscountsRecorded, Ledger
    <3>5. QED BY <3>3, <3>4
  <2>6. LedgerGood'
    BY <1>1, <1>3, <1>6, <2>1, <2>2, <2>5 DEF LedgerGood, OrderKept, DraftFits
  <2>7. QED BY <1>2, <1>3, <1>6, <2>2, <2>4, <2>6, LedgerKeeps DEF Typed
<1>7. QED BY <1>3, <1>5, <1>6 DEF Rewrites

\* A write that leaves the pairings as they are.
LEMMA SameLedgerKeeps ==
    ASSUME SavingsInv, Typed, NEW c \in Calls, Acts(c), pc[c] \notin Pricing, Moves(c, "done", NoLocal),
           UNCHANGED <<invoice, serial, unsure, trimmed>>, checkout'.invoice = checkout.invoice, Ledger' = Ledger,
           checkout'.status = checkout.status \/ (checkout'.status = "Paid" /\ checkout.invoice # Nobody),
           lock' = lock \/ lock = c, lock = c \/ serial
    PROVE  SavingsInv'
<1>1. TypeOK /\ CallsKept /\ OrderKept /\ SavingsKept /\ PricesKept
  BY InvParts
<1>2. Others(c) /\ TypeOK' /\ AllFits(c)' /\ checkout'.config.ledger = Ledger'
  BY DoneFits DEF Moves, Others, Typed, AllFits, Ledger
<1>3. (Undisturbed' => Undisturbed) /\ (Orderly' => Orderly)
  BY <1>1, OrderlyEarlier DEF Typed
<1>4. \A d \in Calls \ {c} : SavingFits(d)'
  BY <1>1, <1>2, <1>3, WiderKeeps DEF SavingsKept, Others
<1>5. \A i \in Calls : (Standing(i)' => Standing(i)) /\ (Settled(i)' => Settled(i))
  <2>1. ASSUME NEW i \in Calls, Standing(i)' PROVE Standing(i)
    BY <2>1 DEF Standing
  <2>2. ASSUME NEW i \in Calls, Settled(i)' PROVE Settled(i)
    BY <1>2, <2>1, <2>2 DEF Settled, Others
  <2>3. QED BY <2>1, <2>2
<1>6. DiscountsRecorded'
  BY <1>1, <1>2, <1>3, <1>5 DEF SavingsKept, DiscountsRecorded, Ledger
<1>7. LedgerGood'
  <2>1. (checkout.status = "Draft" => DraftFits)'
    BY <1>1 DEF OrderKept, DraftFits
  <2>2. Undisturbed' => \A i \in Calls : Settled(i)' => Quoted(i)'
    BY <1>1, <1>3, <1>5 DEF PricesKept, Quoted
  <2>3. Undisturbed' => \A e \in Ledger' : invoice'[e.invoice].status # "none"
    BY <1>1, <1>3 DEF PricesKept
  <2>4. QED BY <1>1, <1>6, <2>1, <2>2, <2>3 DEF LedgerGood, OrderKept
<1>8. QED BY <1>2, <1>4, <1>7, LedgerKeeps DEF Typed

LEMMA WritePaidKeeps ==
    ASSUME SavingsInv, NEW c \in Calls, WritePaid(c), Acts(c)
    PROVE  SavingsInv'
<1>1. TypeOK /\ OrderFits(c) /\ TurnFits(c) /\ pc[c] = "paid" /\ pc[c] \notin Pricing
  BY InvParts DEF WritePaid, Pricing
<1>2. lock = c /\ loc[c].config = checkout.config /\ checkout.invoice # Nobody
  BY <1>1 DEF TurnFits, Inside, OrderFits
<1>3. /\ Typed /\ Ending(c) /\ UNCHANGED <<invoice, owned, serial, unsure, trimmed>>
      /\ checkout' = checkout \/ Opens(c)
  BY <1>1, WritePaidStep
<1>4. CASE checkout' = checkout
  BY <1>1, <1>2, <1>3, <1>4, UnwrittenKeeps DEF Ending
<1>5. CASE Opens(c)
  BY <1>1, <1>2, <1>3, <1>5, SameLedgerKeeps DEF Ending, Opens, Ledger
<1>6. QED BY <1>3, <1>4, <1>5

LEMMA MergeWriteKeeps ==
    ASSUME SavingsInv, NEW c \in Calls, MergeWrite(c), Acts(c)
    PROVE  SavingsInv'
<1>1. TypeOK /\ CallsKept /\ TurnFits(c) /\ pc[c] = "merged" /\ pc[c] \notin Pricing
  BY InvParts DEF MergeWrite, Pricing
<1>2. serial /\ loc[c].config = checkout.config
  BY <1>1, KindAt DEF TurnFits, TypeOK
<1>3. /\ Typed /\ Ending(c) /\ UNCHANGED <<invoice, owned, lock, serial, unsure, trimmed>>
      /\ \/ checkout' = checkout
         \/ /\ checkout'.status = checkout.status /\ checkout'.invoice = checkout.invoice
            /\ Ledger' = loc[c].config.ledger
  BY <1>1, MergeWriteStep
<1>4. CASE checkout' = checkout
  BY <1>1, <1>3, <1>4, EndingKeeps DEF Ending
<1>5. QED BY <1>1, <1>2, <1>3, <1>4, SameLedgerKeeps DEF Ending, Ledger

-----------------------------------------------------------------------------
(* AddonSavings: calls name invoices of calls that have begun                  *)

\* A step that raises no invoice for a call that has not begun.
Raises == \A i \in Calls : invoice'[i].status # "none" => invoice[i].status # "none" \/ pc[i] # "idle"

LEMMA StartedMoves ==
    ASSUME TypeOK, Started, NEW c \in Calls, NEW at, NEW l, Moves(c, at, l), at # "idle", Raises,
           at \in Invoicing => l.inv \in Calls /\ (l.inv = c \/ pc[l.inv] # "idle"),
           at = "claimed" => l.rows \subseteq Pairings, \A i \in l.todo : i \in Calls /\ pc[i] # "idle"
    PROVE  Started'
<1>1. \A i \in Calls : pc[i] # "idle" => pc'[i] # "idle"
  BY DEF Moves
<1>2. ASSUME NEW d \in Calls
      PROVE  /\ pc'[d] \in Invoicing => loc'[d].inv \in Calls /\ pc'[loc'[d].inv] # "idle"
             /\ pc'[d] = "claimed" => loc'[d].rows \subseteq Pairings
             /\ \A i \in loc'[d].todo : pc'[i] # "idle"
  <2>1. CASE d = c
    BY <1>1, <2>1 DEF Moves
  <2>2. CASE d # c
    <3>1. pc'[d] = pc[d] /\ loc'[d] = loc[d] /\ loc[d].todo \in SUBSET Calls
      BY <2>2, LocType DEF Moves
    <3>2. QED BY <1>1, <3>1 DEF Started
  <2>3. QED BY <2>1, <2>2
<1>3. \A i \in Calls : invoice'[i].status # "none" => pc'[i] # "idle"
  BY <1>1 DEF Started, Raises
<1>4. QED BY <1>2, <1>3 DEF Started

LEMMA StartedEnds ==
    ASSUME TypeOK, Started, NEW c \in Calls, Moves(c, "done", NoLocal), Raises
    PROVE  Started'
<1>1. "done" \notin Invoicing \cup {"idle", "claimed"} /\ NoLocal.todo = {}
  BY DEF Invoicing, NoLocal
<1>2. QED BY <1>1, StartedMoves

\* A call that keeps its invoice, or needs none.
Same(c, l) == l.inv = loc[c].inv /\ l.todo = loc[c].todo

LEMMA StartedSame ==
    ASSUME TypeOK, Started, NEW c \in Calls, NEW at, NEW l, Moves(c, at, l), at # "idle", Raises,
           Same(c, l), pc[c] \in Invoicing \/ at \notin Invoicing,
           at = "claimed" => l.rows \subseteq Pairings
    PROVE  Started'
<1>1. loc[c].todo \in SUBSET Calls /\ (pc[c] \in Invoicing => loc[c].inv \in Calls)
  BY LocType DEF Started
<1>2. QED BY <1>1, StartedMoves DEF Same, Started

LEMMA SameEdits ==
    ASSUME TypeOK, NEW c \in Calls
    PROVE  /\ Same(c, loc[c]) /\ Same(c, Without(c)) /\ Same(c, Claiming(c)) /\ Same(c, Refreshed(c))
           /\ Same(c, Priced(c)) /\ \A ledger : Same(c, Keeping(c, ledger))
           /\ \A rows : Same(c, [loc[c] EXCEPT !.rows = rows])
           /\ \A fresh : Same(c, [loc[c] EXCEPT !.fresh = fresh])
           /\ \A config : Same(c, [loc[c] EXCEPT !.config = config])
<1>1. loc[c] \in Local
  BY LocType
<1>2. QED BY <1>1 DEF Local, Same, Without, Claiming, Refreshed, Priced, Keeping

\* A step that leaves the invoices, or writes the one its call works on.
LEMMA RaisesHere ==
    ASSUME TypeOK, Started, NEW c \in Calls, pc[c] \in Invoicing, loc[c].inv \in Calls, NEW doc,
           invoice' = invoice \/ invoice' = [invoice EXCEPT ![loc[c].inv] = doc]
    PROVE  Raises
<1>1. pc[loc[c].inv] # "idle"
  BY DEF Started
<1>2. \A i \in Calls : i # loc[c].inv => invoice'[i] = invoice[i]
  BY DEF TypeOK
<1>3. QED BY <1>1, <1>2 DEF Raises

LEMMA StartedEither ==
    ASSUME TypeOK, Started, NEW c \in Calls, NEW at, NEW l, Either(c, at, l), at # "idle", Raises,
           Same(c, l), pc[c] \in Invoicing \/ at \notin Invoicing,
           at = "claimed" => l.rows \subseteq Pairings
    PROVE  Started'
  BY StartedSame, StartedEnds DEF Either

LEMMA StartedEnters ==
    ASSUME TypeOK, Started, NEW c \in Calls, NEW at, NEW l, Enters(c, at, l), at # "idle", Raises,
           Same(c, l), pc[c] \in Invoicing \/ at \notin Invoicing,
           at = "claimed" => l.rows \subseteq Pairings
    PROVE  Started'
  BY StartedSame, StartedEnds DEF Enters

LEMMA StartedKept ==
    ASSUME TypeOK, Started, NEW c \in Calls, BeginCall(c) \/ Step(c)
    PROVE  TypeOK' /\ Started'
<1>0. TypeOK'
  BY BuyStep, ReadOpenStep, RaiseStep, WindowsStep, OfferStep, ClaimReadStep, ClaimWriteStep, PlanStep,
     RecordReadStep, RecordWriteStep, AmountStep, ReleaseReadStep, ReleaseWriteStep, AttachStep, PrepareStep, LinkStep,
     MarkPaidStep, WritePaidStep, DeleteStep, ListOpenStep, VisitStep, TrimStep, MergeReadStep, MergeWriteStep
  DEF BeginCall, Step, Typed
<1> SUFFICES Started'
  BY <1>0
<1>1. invoice' = invoice => Raises
  BY DEF Raises
<1>2. CASE Buy(c)
  <2>1. UNCHANGED invoice /\ loc[c] \in Local /\ loc[c].todo \in SUBSET Calls
    BY <1>2, BuyStep, LocType
  <2>2. \A i \in Calls : /\ [loc[c] EXCEPT !.inv = i].inv = i
                         /\ [loc[c] EXCEPT !.inv = i].todo = loc[c].todo
    BY <2>1 DEF Local
  <2>3. ASSUME NEW i \in Calls, NEW at \in {"raise", "read"}, Either(c, at, [loc[c] EXCEPT !.inv = i]),
               i = c \/ invoice[i].status = "Unpaid"
        PROVE  Started'
    <3>1. i = c \/ pc[i] # "idle"
      BY <2>3 DEF Started
    <3>2. \A j \in loc[c].todo : j \in Calls /\ pc[j] # "idle"
      BY <2>1 DEF Started
    <3> DEFINE l == [loc[c] EXCEPT !.inv = i]
    <3>3. l.inv = i /\ l.todo = loc[c].todo /\ Either(c, at, l)
      BY <2>2, <2>3
    <3> HIDE DEF l
    <3>4. Moves(c, at, l) => Started'
      BY <1>1, <2>1, <2>3, <3>1, <3>2, <3>3, StartedMoves
    <3>5. QED BY <1>1, <2>1, <3>3, <3>4, StartedEnds DEF Either
  <2>4. QED BY <1>2, <2>3, BuyStep
<1>3. CASE ReadOpen(c)
  BY <1>1, <1>3, ReadOpenStep, SameEdits, StartedEither DEF ReadOpen, Invoicing
<1>4. CASE Raise(c)
  <2>1. pc[c] \in Invoicing
    BY <1>4 DEF Raise, Invoicing
  <2>2. Raises
    BY <1>4, <2>1, RaiseStep, RaisesHere
  <2>3. QED BY <1>4, <2>1, <2>2, RaiseStep, SameEdits, StartedEither
<1>5. CASE Windows(c)
  BY <1>1, <1>5, WindowsStep, SameEdits, StartedEither DEF Windows, Invoicing
<1>6. ASSUME GoesWithout(c), UNCHANGED invoice, pc[c] \in Invoicing
      PROVE  Started'
  BY <1>1, <1>6, SameEdits, StartedEither DEF GoesWithout
<1>7. CASE Offer(c)
  BY <1>1, <1>6, <1>7, OfferStep, SameEdits, StartedEither DEF Offer, Invoicing
<1>8. CASE ClaimRead(c)
  <2>1. Claiming(c).rows \subseteq Pairings
    <3>1. loc[c] \in Local /\ Prior(c) \subseteq Pairings
      BY LocType, RecordedType DEF Prior
    <3>2. Claiming(c).rows = Prior(c)
      BY <3>1 DEF Claiming, Local
    <3>3. QED BY <3>1, <3>2
  <2>2. QED BY <1>1, <1>6, <1>8, <2>1, ClaimReadStep, SameEdits, StartedEnters DEF ClaimRead, Invoicing
<1>9. CASE ClaimWrite(c)
  BY <1>1, <1>9, ClaimWriteStep, SameEdits, StartedEither DEF ClaimWrite, Invoicing
<1>10. CASE Plan(c)
  BY <1>1, <1>10, PlanStep, SameEdits, StartedSame DEF Plan, Invoicing
<1>11. CASE RecordRead(c)
  BY <1>1, <1>11, RecordReadStep, SameEdits, StartedEnters DEF RecordRead, Invoicing
<1>12. CASE RecordWrite(c)
  BY <1>1, <1>12, RecordWriteStep, SameEdits, StartedEither DEF RecordWrite, Invoicing
<1>13. CASE Amount(c)
  <2>1. pc[c] \in Invoicing
    BY <1>13 DEF Amount, Invoicing
  <2>2. Raises
    BY <1>13, <2>1, AmountStep, RaisesHere
  <2>3. AfterClaims(c) \notin {"idle", "claimed"}
    BY DEF AfterClaims
  <2>4. QED BY <1>13, <2>1, <2>2, <2>3, AmountStep, SameEdits, StartedSame, StartedEnds
<1>14. CASE ReleaseRead(c)
  BY <1>1, <1>14, ReleaseReadStep, SameEdits, StartedEnters DEF ReleaseRead, Invoicing
<1>15. CASE ReleaseWrite(c)
  BY <1>1, <1>15, ReleaseWriteStep, StartedEnds
<1>16. CASE Attach(c)
  BY <1>1, <1>16, AttachStep, StartedEnds DEF Ending
<1>17. CASE Prepare(c)
  <2>1. UNCHANGED invoice /\ loc[c] \in Local /\ loc[c].todo \in SUBSET Calls
    BY <1>17, PrepareStep, LocType
  <2> DEFINE l == [loc[c] EXCEPT !.inv = c]
  <2>2. l.inv = c /\ l.todo = loc[c].todo
    BY <2>1 DEF Local
  <2>3. Ending(c) \/ Either(c, "raise", l)
    BY <1>17, PrepareStep
  <2> HIDE DEF l
  <2>4. \A j \in loc[c].todo : j \in Calls /\ pc[j] # "idle"
    BY <2>1 DEF Started
  <2>5. Moves(c, "raise", l) => Started'
    BY <1>1, <2>1, <2>2, <2>4, StartedMoves
  <2>6. QED BY <1>1, <2>1, <2>3, <2>5, StartedEnds DEF Ending, Either
<1>18. CASE LinkToOrder(c)
  BY <1>1, <1>18, LinkStep, StartedEnds DEF Ending
<1>19. CASE MarkPaid(c)
  BY <1>1, <1>19, MarkPaidStep, SameEdits, StartedEnters DEF Invoicing
<1>20. CASE WritePaid(c)
  BY <1>1, <1>20, WritePaidStep, StartedEnds DEF Ending
<1>21. CASE Delete(c)
  BY <1>1, <1>21, DeleteStep, SameEdits, StartedSame DEF Invoicing
<1>22. CASE ListOpen(c)
  <2> DEFINE l == [loc[c] EXCEPT !.todo = Open]
  <2>1. UNCHANGED invoice /\ Either(c, "visit", l) /\ loc[c] \in Local
    BY <1>22, ListOpenStep, LocType
  <2>2. l.todo = Open
    BY <2>1 DEF Local
  <2> HIDE DEF l
  <2>3. \A i \in Open : i \in Calls /\ pc[i] # "idle"
    BY DEF Open, Started
  <2>4. Moves(c, "visit", l) => Started'
    BY <1>1, <2>1, <2>2, <2>3, StartedMoves DEF Invoicing
  <2>5. QED BY <1>1, <2>1, <2>4, StartedEnds DEF Either
<1>23. CASE Visit(c)
  <2>1. UNCHANGED invoice /\ loc[c] \in Local /\ loc[c].todo \in SUBSET Calls
    BY <1>23, VisitStep, LocType
  <2>2. \A i \in loc[c].todo : i \in Calls /\ pc[i] # "idle"
    BY <2>1 DEF Started
  <2>3. ASSUME NEW i \in loc[c].todo, NEW at \in {"visit", "trim"}, NEW l, l.todo = loc[c].todo \ {i},
               at = "trim" => l.inv = i, Either(c, at, l)
        PROVE  Started'
    <3>1. Moves(c, at, l) => Started'
      BY <1>1, <2>1, <2>2, <2>3, StartedMoves DEF Invoicing
    <3>2. QED BY <1>1, <2>1, <2>3, <3>1, StartedEnds DEF Either
  <2>4. \A i \in loc[c].todo : /\ [loc[c] EXCEPT !.todo = loc[c].todo \ {i}].todo = loc[c].todo \ {i}
                               /\ ToTrim(c, i).todo = loc[c].todo \ {i} /\ ToTrim(c, i).inv = i
    BY <2>1 DEF Local, ToTrim
  <2>5. \A i \in loc[c].todo : Either(c, "visit", [loc[c] EXCEPT !.todo = loc[c].todo \ {i}]) => Started'
    BY <2>3, <2>4
  <2>6. \A i \in loc[c].todo : Either(c, "trim", ToTrim(c, i)) => Started'
    BY <2>3, <2>4
  <2>7. Ending(c) => Started'
    BY <1>1, <2>1, StartedEnds DEF Ending
  <2>8. QED BY <1>23, <2>5, <2>6, <2>7, VisitStep
<1>24. CASE Trim(c)
  <2>1. pc[c] \in Invoicing /\ loc[c].todo \in SUBSET Calls
    BY <1>24, LocType DEF Trim, Invoicing
  <2>2. Raises
    BY <1>24, <2>1, TrimStep, RaisesHere
  <2> DEFINE l == [NoLocal EXCEPT !.todo = loc[c].todo]
  <2>3. l.todo = loc[c].todo /\ Either(c, "visit", l)
    BY <1>24, TrimStep DEF NoLocal
  <2> HIDE DEF l
  <2>4. \A i \in loc[c].todo : i \in Calls /\ pc[i] # "idle"
    BY <2>1 DEF Started
  <2>5. Moves(c, "visit", l) => Started'
    BY <2>2, <2>3, <2>4, StartedMoves DEF Invoicing
  <2>6. QED BY <2>2, <2>3, <2>5, StartedEnds DEF Either
<1>25. CASE MergeRead(c)
  BY <1>1, <1>25, MergeReadStep, SameEdits, StartedEither DEF Invoicing
<1>26. CASE MergeWrite(c)
  BY <1>1, <1>26, MergeWriteStep, StartedEnds DEF Ending
<1>27. QED
  BY <1>2, <1>3, <1>4, <1>5, <1>7, <1>8, <1>9, <1>10, <1>11, <1>12, <1>13, <1>14, <1>15, <1>16, <1>17, <1>18,
     <1>19, <1>20, <1>21, <1>22, <1>23, <1>24, <1>25, <1>26 DEF BeginCall, Step

-----------------------------------------------------------------------------
(* AddonSavings: the steps that write an invoice, or link the order's own      *)

\* What a step that writes invoice i leaves to show; an invoice a call that
\* prepares the order works on gets no saving from anybody else.
LEMMA InvoiceKeeps ==
    ASSUME SavingsInv, Started, Typed, NEW c \in Calls, Acts(c), Others(c), UNCHANGED <<checkout, lock, serial>>,
           AllFits(c)', NEW i \in Calls, NEW doc, invoice' = [invoice EXCEPT ![i] = doc],
           pc[i] # "idle", pc[c] \in Pricing => loc[c].inv = i,
           doc.status # "none" \/ doc.status = invoice[i].status,
           unsure \subseteq unsure', \A j \in Calls : j # i => (j \in unsure' <=> j \in unsure),
           \A j \in Calls : j # i => (j \in trimmed' <=> j \in trimmed),
           doc.off \subseteq invoice[i].off \/ (\A d \in Calls : d # c => ~Preparing(d)),
           checkout.status = "Draft" /\ CallKind[i] # "prepare" => doc.off = {},
           Orderly' /\ Standing(i)' => doc.off \subseteq Recorded(Ledger, i),
           Undisturbed' /\ Settled(i)' => Quoted(i)'
    PROVE  SavingsInv'
<1>1. TypeOK /\ TypeOK' /\ CallsKept /\ TurnsKept /\ OrderKept /\ SavingsKept /\ PricesKept
  BY InvParts DEF Typed
<1>2. CallsKept'
  BY <1>1, CallsApart DEF AllFits
<1>3. TurnsKept'
  BY <1>1, TurnsOthers DEF AllFits, Typed
<1>4. checkout' = checkout /\ Ledger' = Ledger
  BY DEF Ledger
<1>5. \A d \in Calls : d # c => pc'[d] = pc[d] /\ loc'[d] = loc[d] /\ OffLedger(d)' = OffLedger(d)
                                /\ Prior(d)' = Prior(d) /\ Off(d)' = Off(d)
  BY <1>4 DEF Others, OffLedger, Prior, Off
<1>6. (Orderly' => Orderly) /\ (Undisturbed' => Undisturbed)
  BY <1>1, OrderlyEarlier DEF Typed
<1>7. invoice'[i] = doc /\ \A j \in Calls : j # i => invoice'[j] = invoice[j]
  BY <1>1 DEF TypeOK
<1>8. OrderKept'
  <2>1. ASSUME NEW d \in Calls, d # c PROVE OrderFits(d)'
    BY <1>1, <1>4, <1>5, <2>1 DEF OrderKept, OrderFits, Preparing, Buying, Running
  <2>2. (checkout.status = "Draft" => DraftFits)'
    BY <1>1, <1>4, <1>7 DEF OrderKept, DraftFits
  <2>3. QED BY <1>1, <1>4, <2>1, <2>2 DEF OrderKept, AllFits
<1>9. SavingsKept'
  <2>1. ASSUME NEW d \in Calls, d # c PROVE SavingFits(d)'
    <3>1. /\ SavingFits(d) /\ CallFits(d) /\ pc'[d] = pc[d] /\ loc'[d] = loc[d] /\ OffLedger(d)' = OffLedger(d)
          /\ Prior(d)' = Prior(d) /\ Off(d)' = Off(d)
      BY <1>1, <1>5, <2>1 DEF SavingsKept, CallsKept
    <3>2. serial => ~Running(d)
      BY <2>1 DEF Acts
    <3>3. ASSUME CallKind[d] = "prepare", Running(d)
          PROVE  loc[d].inv = d /\ invoice'[d].off \subseteq invoice[d].off
      BY <1>7, <2>1, <3>1, <3>3 DEF CallFits, Preparing
    <3>4. pc[d] \in Pricing \cup Releasing \cup {"link"} => Running(d)
      BY DEF Running, Pricing, Releasing
    <3>5. (pc[d] \in Pricing \cup Releasing /\ (serial \/ CallKind[d] = "prepare")
             => invoice[loc[d].inv].off = {} \/ (pc[d] \in Releasing /\ loc[d].inv \in unsure))'
      BY <3>1, <3>2, <3>3, <3>4 DEF SavingFits
    <3>6. pc[d] = "link" => CallKind[d] = "prepare"
      BY <1>1, KindAt
    <3>7. Orderly' /\ pc[d] = "link" => invoice'[d].off \subseteq Recorded(Ledger, d)
      BY <1>6, <3>1, <3>3, <3>4, <3>6 DEF SavingFits
    <3>8. QED BY <1>4, <1>6, <3>1, <3>5, <3>7 DEF SavingFits, Buying, Running
  <2>2. DiscountsRecorded'
    <3>1. SUFFICES ASSUME Orderly', NEW j \in Calls, Standing(j)'
                   PROVE  invoice'[j].off \subseteq Recorded(Ledger, j)
      BY <1>4 DEF DiscountsRecorded, Ledger
    <3>2. CASE j # i
      <4>1. Standing(j)
        BY <1>4, <1>7, <3>1, <3>2 DEF Standing
      <4>2. QED BY <1>1, <1>6, <1>7, <3>1, <3>2, <4>1 DEF SavingsKept, DiscountsRecorded, Ledger
    <3>3. QED BY <1>7, <3>1, <3>2
  <2>3. QED BY <2>1, <2>2 DEF SavingsKept, AllFits
<1>10. PricesKept'
  <2>1. ASSUME NEW d \in Calls, d # c PROVE PriceFits(d)'
    <3>1. CASE Undisturbed'
      <4>1. /\ PriceFits(d) /\ pc'[d] = pc[d] /\ ~Running(d) /\ ~Running(d)' /\ Undisturbed
        BY <1>1, <1>5, <1>6, <2>1, <3>1 DEF PricesKept, Acts, Undisturbed, Running
      <4>2. pc[d] = "idle" => invoice'[d].status = "none"
        BY <1>7, <4>1 DEF PriceFits
      <4>3. QED BY <4>1, <4>2 DEF PriceFits, Preparing, Buying, Running, Pricing
    <3>2. QED BY <3>1 DEF PriceFits
  <2>2. ASSUME Undisturbed', NEW j \in Calls, Settled(j)'
        PROVE  Quoted(j)'
    <3>1. CASE j # i
      <4>1. Standing(j) /\ j \notin trimmed
        BY <1>4, <1>7, <2>2, <3>1 DEF Settled, Standing
      <4>2. Settled(j)
        BY <1>5, <2>2, <3>1, <4>1 DEF Settled
      <4>3. QED BY <1>1, <1>4, <1>6, <1>7, <2>2, <3>1, <4>2 DEF PricesKept, Quoted
    <3>2. QED BY <2>2, <3>1
  <2>3. Undisturbed' => \A e \in Ledger' : invoice'[e.invoice].status # "none"
    <3>1. Ledger \in SUBSET Entry
      BY <1>1, LocType DEF Ledger
    <3>2. \A e \in Ledger : e.invoice \in Calls
      BY <3>1 DEF Entry
    <3>3. QED BY <1>1, <1>4, <1>6, <1>7, <3>2 DEF PricesKept
  <2>4. QED BY <2>1, <2>2, <2>3 DEF PricesKept, AllFits
<1>11. QED BY <1>1, <1>2, <1>3, <1>8, <1>9, <1>10 DEF SavingsInv

LEMMA RaiseKeeps ==
    ASSUME SavingsInv, Started, NEW c \in Calls, Raise(c), Acts(c)
    PROVE  SavingsInv'
<1>1. /\ TypeOK /\ CallsKept /\ CallFits(c) /\ OrderFits(c) /\ PriceFits(c) /\ pc[c] = "raise"
  BY InvParts DEF Raise
<1>2. CallKind[c] \in {"buy", "prepare"}
  BY <1>1, KindAt
<1>. PICK i \in Calls : i = loc[c].inv
  BY <1>1, RaiseStep
<1> DEFINE at == IF CallKind[c] = "prepare" THEN "owned" ELSE "windows"
<1>3. /\ Typed /\ UNCHANGED <<checkout, owned, lock, serial, unsure>> /\ Either(c, at, Priced(c)) /\ i \in Calls
      /\ \/ invoice' = invoice /\ trimmed' = trimmed /\ failures' > failures
         \/ invoice' = [invoice EXCEPT ![i] = Raised(c)]
      /\ trimmed' \subseteq trimmed /\ trimmed \ trimmed' \subseteq {i}
  BY <1>1, RaiseStep
<1>4. (Undisturbed' => Undisturbed) /\ (Orderly' => Orderly) /\ failures \in Nat /\ failures' \in Nat
  BY <1>1, <1>3, OrderlyEarlier, CatalogAssumption DEF Typed, TypeOK
<1>5. CASE invoice' = invoice /\ trimmed' = trimmed /\ failures' > failures
  <2>1. Moves(c, "done", NoLocal)
    BY <1>3, <1>4, <1>5 DEF Either
  <2>2. QED BY <1>3, <1>5, <2>1, StillFails
<1>6. CASE invoice' = [invoice EXCEPT ![i] = Raised(c)]
  <2>1. invoice'[i] = Raised(c)
    BY <1>1, <1>3, <1>6 DEF TypeOK
  <2>2. /\ Raised(c).off = {} /\ Raised(c).status = "Unpaid"
        /\ Raised(c).rows = loc[c].rows \cup Wanted(c) /\ Raised(c).amount = Full(loc[c].rows \cup Wanted(c))
    BY DEF Raised
  <2>3. Others(c)
    BY <1>3 DEF Either, Moves, Others
  <2>4. AllFits(c)' /\ (Undisturbed' => pc'[c] \in Pricing /\ loc'[c].inv = i)
    <3>1. CASE Moves(c, "done", NoLocal) /\ failures' > failures
      <4>1. ~Undisturbed'
        BY <1>4, <3>1 DEF Undisturbed
      <4>2. QED BY <3>1, <4>1, DoneFits DEF Moves, AllFits
    <3>2. CASE Moves(c, at, Priced(c)) /\ failures' = failures
      <4>1. pc'[c] = at /\ loc'[c].inv = i /\ loc'[c].known = Full(loc[c].rows \cup Wanted(c))
        BY <1>1, <3>2, RaisedType DEF Moves
      <4>2. CallFits(c)'
        BY <1>1, <1>2, <1>3, <4>1 DEF CallFits, StagesOf, Invoicing, Preparing, Running, Releasing
      <4>3. TurnFits(c)'
        BY <1>2, <4>1 DEF TurnFits, Inside, Releasing
      <4>4. OrderFits(c)'
        BY <1>1, <1>2, <1>3, <4>1 DEF OrderFits, Preparing, Buying, Running, Pricing, Releasing
      <4>5. SavingFits(c)'
        BY <1>2, <2>1, <2>2, <4>1 DEF SavingFits, Buying, Releasing
      <4>6. Plain(invoice[i], loc[c].known)'
        <5>1. Wanted(c) # {}
          BY <1>2, CatalogAssumption DEF Wanted
        <5>2. Plain(invoice'[i], loc'[c].known)
          BY <2>1, <2>2, <4>1, <5>1 DEF Plain
        <5>3. QED BY <4>1, <5>2 DEF Plain
      <4>7. PriceFits(c)'
        BY <1>1, <1>2, <1>3, <1>4, <4>1, <4>6 DEF PriceFits, Pricing, Preparing, Buying, Running, Plain, Ledger
      <4>8. QED BY <4>1, <4>2, <4>3, <4>4, <4>5, <4>7 DEF AllFits, Pricing
    <3>3. QED BY <1>3, <3>1, <3>2 DEF Either
  <2>5. Undisturbed' => ~Settled(i)'
    BY <2>4 DEF Settled
  <2>6. pc[i] # "idle" /\ pc[c] \notin Pricing
    BY <1>1 DEF Started, Invoicing, Pricing
  <2>7. \A j \in Calls : j # i => (j \in trimmed' <=> j \in trimmed)
    BY <1>3
  <2>8. QED BY <1>3, <1>6, <2>2, <2>3, <2>4, <2>5, <2>6, <2>7, InvoiceKeeps
<1>7. QED BY <1>3, <1>5, <1>6

LEMMA AmountKeeps ==
    ASSUME SavingsInv, Started, NEW c \in Calls, Amount(c), Acts(c)
    PROVE  SavingsInv'
<1>1. /\ TypeOK /\ CallsKept /\ TurnsKept /\ CallFits(c) /\ OrderFits(c) /\ SavingFits(c) /\ PriceFits(c)
      /\ pc[c] = "amount"
  BY InvParts DEF Amount
<1>2. CallKind[c] \in {"buy", "prepare"}
  BY <1>1, KindAt
<1>. PICK i \in Calls : i = loc[c].inv
  BY <1>1, AmountStep
<1>3. /\ Typed /\ UNCHANGED <<checkout, owned, lock, serial, trimmed>> /\ i \in Calls
      /\ \/ /\ Moves(c, AfterClaims(c), loc[c]) /\ failures' = failures
            /\ invoice' = [invoice EXCEPT ![i] = Discounted(c)] /\ unsure' = unsure
         \/ /\ failures' > failures
            /\ \/ loc[c].fresh # {} /\ Moves(c, "release", loc[c])
               \/ loc[c].fresh = {} /\ Moves(c, "done", NoLocal)
            /\ \/ invoice' = invoice /\ unsure' = unsure
               \/ invoice' = [invoice EXCEPT ![i] = Discounted(c)] /\ unsure' = unsure \cup {i}
  BY <1>1, AmountStep
<1>4. (Undisturbed' => Undisturbed) /\ (Orderly' => Orderly) /\ failures \in Nat /\ failures' \in Nat
  BY <1>1, <1>3, OrderlyEarlier, CatalogAssumption DEF Typed, TypeOK
<1>5. /\ Discounted(c).off = Off(c) /\ Discounted(c).status = invoice[i].status
      /\ Discounted(c).rows = invoice[i].rows /\ Discounted(c).amount = Reduced(loc[c].known, Off(c))
  BY <1>1, <1>3, DiscountedType
<1>6. (Orderly => Off(c) \subseteq OffLedger(c)) /\ OffLedger(c) = Recorded(Ledger, i)
  BY <1>1 DEF SavingFits, OffLedger
<1>7. /\ \A d \in Calls : d # c => ~Preparing(d)
      /\ ~(checkout.status = "Draft" /\ CallKind[i] # "prepare")
  <2>1. CASE CallKind[c] = "prepare"
    BY <1>1, <2>1, PreparesAlone DEF Preparing, Running, CallFits
  <2>2. CASE CallKind[c] = "buy"
    <3>1. checkout.status = "Paid"
      BY <1>1, <2>2 DEF OrderFits, Buying, Running, Pricing
    <3>2. \A d \in Calls : ~Preparing(d)
      BY <3>1, InvParts DEF OrderFits
    <3>3. QED BY <3>1, <3>2
  <2>3. QED BY <1>2, <2>1, <2>2
<1>8. pc[i] # "idle"
  BY <1>1 DEF Started, Invoicing
<1>9. Others(c)
  BY <1>3 DEF Moves, Others
<1>10. ASSUME failures' > failures, Moves(c, "release", loc[c]),
              invoice'[i].off = invoice[i].off \/ i \in unsure'
       PROVE  AllFits(c)'
  <2>1. pc'[c] = "release" /\ loc'[c] = loc[c] /\ failures' > 0 /\ ~Undisturbed'
    BY <1>4, <1>10 DEF Moves, Undisturbed
  <2>2. CallFits(c)'
    BY <1>1, <1>2, <1>3, <2>1 DEF CallFits, StagesOf, Invoicing, Preparing, Running, Releasing
  <2>3. TurnFits(c)'
    BY <1>2, <2>1 DEF TurnFits, Inside
  <2>4. OrderFits(c)'
    BY <1>1, <1>2, <1>3, <2>1 DEF OrderFits, Preparing, Buying, Running, Pricing
  <2>5. SavingFits(c)'
    BY <1>1, <1>2, <1>3, <1>10, <2>1 DEF SavingFits, Pricing, Releasing, Buying
  <2>6. PriceFits(c)'
    BY <2>1 DEF PriceFits
  <2>7. QED BY <2>2, <2>3, <2>4, <2>5, <2>6 DEF AllFits
<1>11. Moves(c, "done", NoLocal) => AllFits(c)'
  BY DoneFits DEF Moves, AllFits
<1>12. CASE failures' > failures /\ invoice' = invoice /\ unsure' = unsure
  <2>1. Still /\ ~Undisturbed' /\ TypeOK'
    BY <1>3, <1>4, <1>12 DEF Still, Typed, Undisturbed
  <2>2. AllFits(c)'
    BY <1>3, <1>4, <1>10, <1>11, <1>12
  <2>3. QED BY <1>3, <1>9, <2>1, <2>2, StillKeeps DEF LeavesQuoted
<1>13. CASE failures' > failures /\ invoice' = [invoice EXCEPT ![i] = Discounted(c)] /\ unsure' = unsure \cup {i}
  <2>1. AllFits(c)' /\ ~Undisturbed' /\ ~Standing(i)'
    BY <1>3, <1>4, <1>10, <1>11, <1>13 DEF Undisturbed, Standing
  <2>2. pc[c] \in Pricing => loc[c].inv = i
    OBVIOUS
  <2>3. unsure \subseteq unsure' /\ \A j \in Calls : j # i => (j \in unsure' <=> j \in unsure)
    BY <1>13
  <2>4. \A j \in Calls : j # i => (j \in trimmed' <=> j \in trimmed)
    BY <1>3
  <2>5. QED BY <1>3, <1>5, <1>7, <1>8, <1>9, <1>13, <2>1, <2>2, <2>3, <2>4, InvoiceKeeps
<1>14. CASE /\ Moves(c, AfterClaims(c), loc[c]) /\ failures' = failures
            /\ invoice' = [invoice EXCEPT ![i] = Discounted(c)] /\ unsure' = unsure
  <2>1. pc'[c] = AfterClaims(c) /\ loc'[c] = loc[c] /\ invoice'[i] = Discounted(c)
    BY <1>1, <1>3, <1>14 DEF Moves, TypeOK
  <2>2. Undisturbed' => Quoted(i)'
    <3>1. ASSUME Undisturbed'
          PROVE  Plain(invoice[i], loc[c].known) /\ Off(c) = OffLedger(c)
      BY <1>1, <1>4, <3>1 DEF PriceFits, Pricing
    <3>2. ASSUME Undisturbed'
          PROVE  Discounted(c).amount = Reduced(Full(Discounted(c).rows), Recorded(Ledger, i))
      BY <1>5, <1>6, <3>1, <3>2 DEF Plain
    <3>3. Ledger' = Ledger
      BY <1>3 DEF Ledger
    <3>4. QED BY <2>1, <3>2, <3>3 DEF Quoted
  <2>3. ASSUME CallKind[c] = "prepare"
        PROVE  AllFits(c)'
    <3>1. pc'[c] = "link" /\ i = c
      BY <1>1, <2>1, <2>3 DEF AfterClaims, CallFits, Preparing, Running
    <3>2. CallFits(c)'
      BY <1>1, <1>3, <2>1, <2>3, <3>1 DEF CallFits, StagesOf, Invoicing, Preparing, Running, Releasing
    <3>3. TurnFits(c)'
      BY <2>3, <3>1 DEF TurnFits, Inside, Releasing
    <3>4. OrderFits(c)'
      BY <1>1, <1>3, <2>3, <3>1 DEF OrderFits, Preparing, Buying, Running
    <3>5. SavingFits(c)'
      BY <1>3, <1>4, <1>5, <1>6, <2>1, <2>3, <3>1 DEF SavingFits, Buying, Pricing, Releasing, Ledger
    <3>6. PriceFits(c)'
      BY <2>2, <2>3, <3>1 DEF PriceFits, Preparing, Buying, Pricing, Running
    <3>7. QED BY <3>2, <3>3, <3>4, <3>5, <3>6 DEF AllFits
  <2>4. ASSUME CallKind[c] = "buy"
        PROVE  AllFits(c)'
    <3>1. pc'[c] = "attach"
      BY <2>1, <2>4 DEF AfterClaims
    <3>2. CallFits(c)'
      BY <1>3, <2>1, <2>4, <3>1 DEF CallFits, StagesOf, Invoicing, Preparing, Releasing
    <3>3. TurnFits(c)'
      BY <2>4, <3>1 DEF TurnFits, Inside, Releasing
    <3>4. OrderFits(c)'
      BY <2>4, <3>1 DEF OrderFits, Preparing, Buying, Pricing, Releasing
    <3>5. SavingFits(c)'
      BY <2>4, <3>1 DEF SavingFits, Pricing, Releasing
    <3>6. PriceFits(c)'
      BY <2>4, <3>1 DEF PriceFits, Preparing, Pricing
    <3>7. QED BY <3>2, <3>3, <3>4, <3>5, <3>6 DEF AllFits
  <2>5. pc[c] \in Pricing => loc[c].inv = i
    OBVIOUS
  <2>6. \A j \in Calls : j # i => (j \in trimmed' <=> j \in trimmed) /\ (j \in unsure' <=> j \in unsure)
    BY <1>3, <1>14
  <2>7. AllFits(c)'
    BY <1>2, <2>3, <2>4
  <2>8. QED BY <1>3, <1>4, <1>5, <1>6, <1>7, <1>8, <1>9, <1>14, <2>2, <2>5, <2>6, <2>7, InvoiceKeeps
<1>15. QED BY <1>3, <1>12, <1>13, <1>14

LEMMA TrimKeeps ==
    ASSUME SavingsInv, Started, NEW c \in Calls, Trim(c), Acts(c)
    PROVE  SavingsInv'
<1>1. /\ TypeOK /\ CallsKept /\ OrderKept /\ OrderFits(c) /\ SavingFits(c) /\ pc[c] = "trim"
  BY InvParts DEF Trim
<1>2. CallKind[c] = "delete" /\ pc[c] \notin Pricing
  BY <1>1, KindAt DEF Pricing
<1> DEFINE l == [NoLocal EXCEPT !.todo = loc[c].todo]
<1>. PICK i \in Calls : i = loc[c].inv
  BY <1>1, TrimStep
<1>3. /\ Typed /\ UNCHANGED <<checkout, owned, lock, serial, unsure>> /\ Either(c, "visit", l)
      /\ \/ invoice' = invoice /\ trimmed' = trimmed
         \/ invoice' = [invoice EXCEPT ![i] = TrimmedTo(c)] /\ trimmed' = trimmed \cup {i}
  BY <1>1, TrimStep
<1> HIDE DEF l
<1>4. Orderly' => Orderly
  BY <1>1, <1>3, OrderlyEarlier DEF Typed
<1>5. CASE invoice' = invoice /\ trimmed' = trimmed
  <2>1. Moves(c, "visit", l) => AllFits(c)' /\ LeavesQuoted(c)
    BY <1>2, DeletingFits DEF Moves
  <2>2. QED BY <1>3, <1>5, <2>1, StillEither
<1>6. CASE invoice' = [invoice EXCEPT ![i] = TrimmedTo(c)] /\ trimmed' = trimmed \cup {i}
  <2>1. Others(c) /\ (pc'[c] = "visit" \/ pc'[c] = "done")
    BY <1>3 DEF Either, Moves, Others
  <2>2. AllFits(c)'
    BY <1>2, <2>1, DeletingFits, DoneFits DEF AllFits
  <2>3. /\ TrimmedTo(c).status \in {"Deleted", invoice[i].status}
        /\ TrimmedTo(c).status = "Deleted" \/ TrimmedTo(c).off \subseteq loc[c].fresh
        /\ loc[c].rows = {} => TrimmedTo(c).off = invoice[i].off
        /\ loc[c].rows # {} => TrimmedTo(c).off \subseteq loc[c].fresh
    BY <1>1, TrimmedType
  <2>4. loc[c].fresh = {} \/ checkout.invoice = i
    BY <1>1 DEF OrderFits
  <2>5. TrimmedTo(c).off \subseteq invoice[i].off \/ (\A d \in Calls : d # c => ~Preparing(d))
    <3>1. ASSUME NEW d \in Calls, Preparing(d)
          PROVE  loc[c].fresh = {}
      BY <2>4, <3>1, InvParts, CatalogAssumption DEF OrderFits
    <3>2. QED BY <2>3, <3>1
  <2>6. checkout.status = "Draft" /\ CallKind[i] # "prepare" => TrimmedTo(c).off = {}
    <3>1. ASSUME checkout.status = "Draft", CallKind[i] # "prepare"
          PROVE  loc[c].fresh = {} /\ invoice[i].off = {}
      BY <1>1, <2>4, <3>1, CatalogAssumption DEF OrderKept, DraftFits
    <3>2. QED BY <2>3, <3>1
  <2>7. invoice'[i] = TrimmedTo(c)
    BY <1>1, <1>6 DEF TypeOK
  <2>8. Orderly' /\ Standing(i)' => TrimmedTo(c).off \subseteq Recorded(Ledger, i)
    BY <1>1, <1>4, <2>3, <2>7 DEF SavingFits, OffLedger, Standing
  <2>9. ~Settled(i)'
    BY <1>6 DEF Settled
  <2>10. pc[i] # "idle" /\ (TrimmedTo(c).status # "none" \/ TrimmedTo(c).status = invoice[i].status)
    BY <1>1, <2>3 DEF Started, Invoicing
  <2>11. \A j \in Calls : j # i => (j \in trimmed' <=> j \in trimmed)
    BY <1>6
  <2>12. QED
    BY <1>2, <1>3, <1>6, <2>1, <2>2, <2>5, <2>6, <2>8, <2>9, <2>10, <2>11, InvoiceKeeps
<1>7. QED BY <1>3, <1>5, <1>6

LEMMA LinkKeeps ==
    ASSUME SavingsInv, Started, NEW c \in Calls, LinkToOrder(c), Acts(c)
    PROVE  SavingsInv'
<1>1. /\ TypeOK /\ CallsKept /\ TurnsKept /\ OrderKept /\ SavingsKept /\ PricesKept
      /\ OrderFits(c) /\ SavingFits(c) /\ PriceFits(c) /\ pc[c] = "link" /\ pc[c] \notin Pricing
  BY InvParts DEF LinkToOrder, Pricing
<1>2. /\ Typed /\ Ending(c) /\ UNCHANGED <<invoice, owned, lock, serial, unsure, trimmed>>
      /\ CallKind[c] = "prepare" /\ loc[c].inv = c
      /\ \/ checkout' = checkout
         \/ /\ checkout'.status = checkout.status /\ checkout'.invoice = c /\ Ledger' = Ledger
            /\ checkout'.config = checkout.config
  BY <1>1, KindAt, LinkStep DEF CallsKept, CallFits, Preparing, Running
<1>3. (Undisturbed' => Undisturbed) /\ (Orderly' => Orderly)
  BY <1>1, <1>2, OrderlyEarlier DEF Typed
<1>4. CASE checkout' = checkout
  BY <1>1, <1>2, <1>4, EndingKeeps DEF Ending
<1>5. CASE /\ checkout'.status = checkout.status /\ checkout'.invoice = c /\ Ledger' = Ledger
           /\ checkout'.config = checkout.config
  <2>1. Preparing(c) /\ checkout.invoice = Nobody
    BY <1>1, <1>2 DEF OrderFits, Preparing, Running
  <2>2. \A d \in Calls : d # c => ~Preparing(d)
    BY <1>1, <2>1, PreparesAlone
  <2>3. Others(c) /\ TypeOK' /\ AllFits(c)' /\ pc'[c] = "done"
    BY <1>2, DoneFits DEF Ending, Moves, Others, Typed, AllFits
  <2>4. CallsKept' /\ TurnsKept'
    BY <1>1, <1>2, <1>5, <2>3, CallsApart, TurnsOthers DEF AllFits, Typed
  <2>5. OrderKept'
    <3>1. ASSUME NEW d \in Calls, d # c PROVE OrderFits(d)'
      <4>1. /\ OrderFits(d) /\ ~Preparing(d) /\ pc'[d] = pc[d] /\ loc'[d] = loc[d]
            /\ (pc[d] = "trim" => loc[d].inv \in Calls)
        BY <1>1, <2>2, <2>3, <3>1 DEF OrderKept, Others, Started, Invoicing
      <4>2. QED BY <1>5, <2>1, <4>1, CatalogAssumption DEF OrderFits, Preparing, Buying, Running
    <3>2. (checkout.status = "Draft" => DraftFits)'
      BY <1>1, <1>2, <1>5 DEF OrderKept, DraftFits
    <3>3. QED BY <1>1, <1>2, <1>5, <2>3, <3>1, <3>2 DEF OrderKept, AllFits
  <2>6. \A j \in Calls : j # c /\ Standing(j)' => Standing(j)
    <3>1. ASSUME NEW j \in Calls, j # c, Standing(j)'
          PROVE  Standing(j)
      BY <1>2, <1>5, <3>1 DEF Standing
    <3>2. QED BY <3>1
  <2>7. SavingsKept'
    <3>1. \A d \in Calls \ {c} : SavingFits(d)'
      BY <1>1, <1>2, <1>3, <1>5, <2>3, WiderKeeps DEF SavingsKept, Others
    <3>2. DiscountsRecorded'
      <4>1. SUFFICES ASSUME Orderly', NEW j \in Calls, Standing(j)'
                     PROVE  invoice[j].off \subseteq Recorded(Ledger, j)
        BY <1>2, <1>5 DEF DiscountsRecorded, Ledger
      <4>2. CASE j = c
        BY <1>1, <1>3, <4>1, <4>2 DEF SavingFits
      <4>3. CASE j # c
        BY <1>1, <1>3, <2>6, <4>1, <4>3 DEF SavingsKept, DiscountsRecorded, Ledger
      <4>4. QED BY <4>2, <4>3
    <3>3. QED BY <2>3, <3>1, <3>2 DEF SavingsKept, AllFits
  <2>8. PricesKept'
    <3>1. ASSUME NEW d \in Calls, d # c PROVE PriceFits(d)'
      <4>1. CASE Undisturbed'
        <5>1. PriceFits(d) /\ pc'[d] = pc[d] /\ ~Running(d) /\ ~Running(d)' /\ Undisturbed
          BY <1>1, <1>2, <1>3, <2>3, <3>1, <4>1 DEF PricesKept, Acts, Others, Undisturbed, Running
        <5>2. QED BY <1>2, <5>1 DEF PriceFits, Preparing, Buying, Running, Pricing
      <4>2. QED BY <4>1 DEF PriceFits
    <3>2. ASSUME Undisturbed', NEW j \in Calls, Settled(j)'
          PROVE  Quoted(j)'
      <4>1. Quoted(j)
        <5>1. CASE j = c
          BY <1>1, <1>3, <3>2, <5>1 DEF PriceFits
        <5>2. CASE j # c
          <6>1. Standing(j) /\ j \notin trimmed
            BY <1>2, <2>6, <3>2, <5>2 DEF Settled
          <6>2. Settled(j)
            BY <1>1, <2>3, <3>2, <6>1 DEF Settled, Others
          <6>3. QED BY <1>1, <1>3, <3>2, <6>2 DEF PricesKept
        <5>3. QED BY <5>1, <5>2
      <4>2. QED BY <1>2, <1>5, <4>1 DEF Quoted
    <3>3. Undisturbed' => \A e \in Ledger' : invoice'[e.invoice].status # "none"
      BY <1>1, <1>2, <1>3, <1>5 DEF PricesKept
    <3>4. QED BY <2>3, <3>1, <3>2, <3>3 DEF PricesKept, AllFits
  <2>9. QED BY <2>3, <2>4, <2>5, <2>7, <2>8 DEF SavingsInv
<1>6. QED BY <1>2, <1>4, <1>5

\* What a payment leaves of each invoice.
LEMMA PayLeaves ==
    ASSUME TypeOK, NEW i \in Calls, PayInvoice(i)
    PROVE  \A j \in Calls : /\ invoice'[j].off = invoice[j].off /\ invoice'[j].rows = invoice[j].rows
                            /\ invoice'[j].amount = invoice[j].amount
                            /\ invoice'[j].status = "none" <=> invoice[j].status = "none"
                            /\ invoice'[j].status \in {"Unpaid", "Paid"} <=> invoice[j].status \in {"Unpaid", "Paid"}
<1> DEFINE doc == [invoice[i] EXCEPT !.status = "Paid"]
<1>1. invoice[i].status = "Unpaid" /\ invoice' = [invoice EXCEPT ![i] = doc]
  BY PayStep
<1>2. /\ doc.off = invoice[i].off /\ doc.rows = invoice[i].rows /\ doc.amount = invoice[i].amount
      /\ doc.status = "Paid" /\ invoice'[i] = doc /\ \A j \in Calls : j # i => invoice'[j] = invoice[j]
  BY <1>1 DEF TypeOK, Invoice
<1> HIDE DEF doc
<1>3. QED BY <1>1, <1>2

LEMMA PayStarted ==
    ASSUME TypeOK, Started, NEW i \in Calls, PayInvoice(i)
    PROVE  TypeOK' /\ Started'
  BY PayStep, PayLeaves DEF Started, Typed

LEMMA PayKeeps ==
    ASSUME SavingsInv, Started, NEW i \in Calls, PayInvoice(i)
    PROVE  SavingsInv'
<1>1. TypeOK /\ CallsKept /\ TurnsKept /\ OrderKept /\ SavingsKept /\ PricesKept
  BY InvParts
<1>2. /\ Typed /\ UNCHANGED <<checkout, owned, lock, pc, loc, serial, failures, unsure, trimmed>>
      /\ invoice[i].status = "Unpaid" /\ (serial => NoneRunning)
  BY <1>1, PayStep
<1>3. \A j \in Calls : /\ invoice'[j].off = invoice[j].off /\ invoice'[j].rows = invoice[j].rows
                       /\ invoice'[j].amount = invoice[j].amount
                       /\ invoice'[j].status = "none" <=> invoice[j].status = "none"
                       /\ invoice'[j].status \in {"Unpaid", "Paid"} <=> invoice[j].status \in {"Unpaid", "Paid"}
  BY <1>1, PayLeaves
<1>4. Ledger' = Ledger /\ \A j : OffLedger(j)' = OffLedger(j) /\ Prior(j)' = Prior(j) /\ Off(j)' = Off(j)
  BY <1>2 DEF Ledger, OffLedger, Prior, Off
<1>5. \A j \in Calls : (Standing(j)' <=> Standing(j)) /\ (Quoted(j)' <=> Quoted(j)) /\ (Settled(j)' <=> Settled(j))
  <2>1. ASSUME NEW j \in Calls PROVE (Standing(j)' <=> Standing(j)) /\ (Quoted(j)' <=> Quoted(j))
    BY <1>2, <1>3, <1>4 DEF Standing, Quoted
  <2>2. QED BY <1>2, <2>1 DEF Settled
<1>6. CallsKept' /\ TurnsKept'
  BY <1>1, <1>2 DEF CallsKept, CallFits, TurnsKept, TurnFits, Apart, Preparing, Running
<1>7. OrderKept'
  BY <1>1, <1>2, <1>3, <1>4 DEF OrderKept, OrderFits, DraftFits, Preparing, Buying, Running
<1>8. SavingsKept'
  <2>1. ASSUME NEW d \in Calls PROVE SavingFits(d)'
    <3>1. SavingFits(d) /\ (pc[d] \in Pricing \cup Releasing => loc[d].inv \in Calls)
      BY <1>1 DEF SavingsKept, Started, Pricing, Releasing, Invoicing
    <3>2. QED BY <1>2, <1>3, <1>4, <3>1 DEF SavingFits, Buying, Running, Orderly
  <2>2. DiscountsRecorded'
    BY <1>1, <1>2, <1>3, <1>5 DEF SavingsKept, DiscountsRecorded, Orderly
  <2>3. QED BY <2>1, <2>2 DEF SavingsKept
<1>9. PricesKept'
  <2>1. ASSUME NEW d \in Calls PROVE PriceFits(d)'
    <3>1. CASE Undisturbed'
      <4>1. PriceFits(d) /\ ~Running(d) /\ ~Running(d)' /\ Undisturbed
        BY <1>1, <1>2, <3>1 DEF PricesKept, NoneRunning, Undisturbed, Running
      <4>2. QED BY <1>2, <1>3, <4>1 DEF PriceFits, Preparing, Buying, Running, Pricing
    <3>2. QED BY <3>1 DEF PriceFits
  <2>2. Undisturbed' => \A e \in Ledger' : invoice'[e.invoice].status # "none"
    <3>1. \A e \in Ledger : e.invoice \in Calls
      BY <1>1, LocType DEF Ledger, Entry
    <3>2. QED BY <1>1, <1>2, <1>3, <1>4, <3>1 DEF PricesKept, Undisturbed
  <2>3. Undisturbed' => \A j \in Calls : Settled(j)' => Quoted(j)'
    BY <1>1, <1>2, <1>5 DEF PricesKept, Undisturbed
  <2>4. QED BY <2>1, <2>2, <2>3 DEF PricesKept
<1>10. QED BY <1>2, <1>6, <1>7, <1>8, <1>9 DEF SavingsInv, Typed

-----------------------------------------------------------------------------
(* AddonSavings: the theorems                                                  *)

LEMMA SavingsInit ==
    ASSUME Init
    PROVE  TypeOK /\ Started /\ (Untangled => SavingsInv)
<1>1. PICK s \in Scenarios :
         /\ pc = [c \in Calls |-> IF c \in s.made THEN "idle" ELSE "done"]
         /\ checkout = [status |-> s.status, invoice |-> Nobody, config |-> [ledger |-> {}, marks |-> {}]]
         /\ owned = IF s.status = "Paid" THEN {Primary} ELSE {}
         /\ serial = s.serial
  BY DEF Init
<1>2. /\ invoice = [i \in Calls |-> NoInvoice] /\ lock = Nobody /\ loc = [c \in Calls |-> NoLocal] /\ failures = 0
      /\ unsure = {} /\ trimmed = {}
  BY DEF Init
<1>3. s.made \subseteq Calls /\ s.status \in {"Draft", "Paid"} /\ s.serial \in BOOLEAN
  BY CatalogAssumption
<1>4. TypeOK
  <2>1. NoInvoice \in Invoice /\ NoLocal \in Local
    BY NoLocalType DEF NoInvoice, Invoice
  <2>2. checkout \in [status : {"Draft", "Paid"}, invoice : Calls \cup {Nobody}, config : Config]
    BY <1>1, <1>3 DEF Config
  <2>3. pc \in [Calls -> Stages]
    BY <1>1 DEF Stages
  <2>4. QED BY <1>1, <1>2, <1>3, <2>1, <2>2, <2>3, CatalogAssumption DEF TypeOK
<1>5. Ledger = {} /\ \A c \in Calls : /\ pc[c] = "done" \/ (pc[c] = "idle" /\ c \in s.made)
                                      /\ invoice[c].status = "none" /\ invoice[c].off = {} /\ loc[c].todo = {}
                                      /\ ~Running(c) /\ ~Standing(c)
  BY <1>1, <1>2 DEF Ledger, NoInvoice, NoLocal, Running, Standing
<1>6. Started
  BY <1>5 DEF Started, Invoicing
<1>7. ASSUME Untangled
      PROVE  SavingsInv
  <2>1. CallsKept
    BY <1>5, CatalogAssumption DEF CallsKept, CallFits, StagesOf, CallKinds, Preparing, Running, Releasing
  <2>2. TurnsKept
    BY <1>1, <1>2, <1>5, <1>7 DEF TurnsKept, TurnFits, Apart, Inside, Releasing, Untangled
  <2>3. OrderKept
    BY <1>1, <1>2, <1>5 DEF OrderKept, OrderFits, DraftFits, Preparing, Buying, Pricing, Releasing
  <2>4. SavingsKept
    BY <1>5 DEF SavingsKept, SavingFits, DiscountsRecorded, Buying, Pricing, Releasing
  <2>5. PricesKept
    BY <1>5 DEF PricesKept, PriceFits, Settled, Preparing, Buying, Pricing
  <2>6. QED BY <1>4, <2>1, <2>2, <2>3, <2>4, <2>5 DEF SavingsInv
<1>8. QED BY <1>4, <1>6, <1>7

LEMMA SavingsStep ==
    ASSUME SavingsInv, Started, NEW c \in Calls, BeginCall(c) \/ Step(c)
    PROVE  SavingsInv'
<1>1. Acts(c)
  BY ActsAlone DEF SavingsInv
<1>2. CASE BeginCall(c)
  BY <1>1, <1>2, BuyKeeps, PrepareKeeps, MarkPaidKeeps, DeleteKeeps, MergeReadKeeps DEF BeginCall
<1>3. CASE Step(c)
  BY <1>1, <1>3, ReadOpenKeeps, RaiseKeeps, WindowsKeeps, OfferKeeps, ClaimReadKeeps, ClaimWriteKeeps, PlanKeeps,
     RecordReadKeeps, RecordWriteKeeps, AmountKeeps, ReleaseReadKeeps, ReleaseWriteKeeps, AttachKeeps, LinkKeeps,
     WritePaidKeeps, ListOpenKeeps, VisitKeeps, TrimKeeps, MergeWriteKeeps DEF Step
<1>4. QED BY <1>2, <1>3

LEMMA SavingsStutter ==
    ASSUME SavingsInv, UNCHANGED vars
    PROVE  SavingsInv'
<1>1. TypeOK' /\ CallsKept'
  BY DEF SavingsInv, TypeOK, vars, CallsKept, CallFits, Preparing, Running
<1>2. TurnsKept' /\ OrderKept'
  BY DEF SavingsInv, vars, TurnsKept, TurnFits, Apart, OrderKept, OrderFits, DraftFits, Preparing, Buying, Running,
         Ledger
<1>3. Ledger' = Ledger /\ \A i : /\ OffLedger(i)' = OffLedger(i) /\ Prior(i)' = Prior(i) /\ Off(i)' = Off(i)
                                 /\ (Standing(i)' <=> Standing(i)) /\ (Quoted(i)' <=> Quoted(i))
  BY DEF vars, Ledger, OffLedger, Prior, Off, Standing, Quoted
<1>4. SavingsKept'
  BY <1>3 DEF SavingsInv, vars, SavingsKept, SavingFits, DiscountsRecorded, Orderly, Buying, Running, Ledger
<1>5. PricesKept'
  BY <1>3 DEF SavingsInv, vars, PricesKept, PriceFits, Settled, Undisturbed, Preparing, Buying, Running
<1>6. QED BY <1>1, <1>2, <1>4, <1>5 DEF SavingsInv

LEMMA SavingsTyped == Spec => [](TypeOK /\ Started)
<1>1. Init => TypeOK /\ Started
  BY SavingsInit
<1>2. TypeOK /\ Started /\ [Next]_vars => (TypeOK /\ Started)'
  <2>1. ASSUME TypeOK, Started, NEW c \in Calls, BeginCall(c) \/ Step(c)
        PROVE  (TypeOK /\ Started)'
    BY <2>1, StartedKept
  <2>2. ASSUME TypeOK, Started, NEW c \in Calls, PayInvoice(c)
        PROVE  (TypeOK /\ Started)'
    BY <2>2, PayStarted
  <2>3. ASSUME TypeOK, Started, UNCHANGED vars
        PROVE  (TypeOK /\ Started)'
    BY <2>3 DEF TypeOK, Started, vars
  <2>4. QED BY <2>1, <2>2, <2>3 DEF Next
<1>3. QED BY <1>1, <1>2, PTL DEF Spec

LEMMA SavingsInvHolds == Untangled => (Spec => []SavingsInv)
<1> SUFFICES ASSUME Untangled PROVE Spec => []SavingsInv
  OBVIOUS
<1>1. Init => SavingsInv
  BY SavingsInit
<1>2. SavingsInv /\ Started /\ [Next]_vars => SavingsInv'
  <2>1. ASSUME SavingsInv, Started, NEW c \in Calls, BeginCall(c) \/ Step(c) \/ PayInvoice(c)
        PROVE  SavingsInv'
    BY <2>1, SavingsStep, PayKeeps
  <2>2. QED BY <2>1, SavingsStutter DEF Next
<1>3. Spec => []Started
  BY SavingsTyped, PTL
<1>4. QED BY <1>1, <1>2, <1>3, PTL DEF Spec

\* No call, whatever it interleaves with and whichever of its requests fail,
\* leaves an amount that is not a natural number, an entry for an unknown
\* service or a stage no handler has.
THEOREM SavingsTypeCorrect == Spec => []TypeOK
  BY SavingsTyped, PTL

\* A saving is recorded before it is given and kept as long: no standing
\* invoice is below its price by a pairing the ledger does not hold for it.
THEOREM DiscountsAreRecorded == Untangled => (Spec => []DiscountsRecorded)
<1>1. SavingsInv => DiscountsRecorded
  BY DEF SavingsInv, SavingsKept
<1>2. QED BY <1>1, SavingsInvHolds, PTL

\* The saving of a pairing comes off one standing invoice at most.
THEOREM OneDiscount == Untangled => (Spec => []OneDiscountPerPairing)
<1>1. ASSUME SavingsInv
      PROVE  OneDiscountPerPairing
  <2>1. SUFFICES ASSUME Orderly, NEW s \in Pairings
                 PROVE  Cardinality({i \in Calls : Standing(i) /\ s \in invoice[i].off}) <= 1
    BY DEF OneDiscountPerPairing
  <2> DEFINE given == {i \in Calls : Standing(i) /\ s \in invoice[i].off}
  <2>2. ASSUME NEW i \in given, NEW j \in given
        PROVE  i = j
    <3>1. s \in Recorded(Ledger, i) /\ s \in Recorded(Ledger, j)
      BY <1>1, <2>1 DEF SavingsInv, SavingsKept, DiscountsRecorded, Ledger
    <3>2. PICK d \in Ledger, e \in Ledger : d.pairing = s /\ d.invoice = i /\ e.pairing = s /\ e.invoice = j
      BY <3>1 DEF Recorded
    <3>3. d = e
      BY <1>1, <3>2 DEF SavingsInv, OrderKept
    <3>4. QED BY <3>2, <3>3
  <2>3. given = {} \/ \E i \in given : given = {i}
    BY <2>2
  <2> HIDE DEF given
  <2>4. Cardinality({}) = 0 /\ \A x : Cardinality({x}) = 1
    BY FS_EmptySet, FS_Singleton, Zenon
  <2>5. Cardinality(given) = 0 \/ Cardinality(given) = 1
    BY <2>3, <2>4
  <2>6. Cardinality(given) <= 1
    BY <2>5
  <2>7. QED BY <2>6 DEF given
<1>2. QED BY <1>1, SavingsInvHolds, PTL

\* One call at a time and no failed request: every standing invoice that no
\* deletion repriced is at the price of its rows less all that is recorded.
THEOREM QuotesAreFull == Untangled => (Spec => []QuotedInFull)
<1>1. ASSUME SavingsInv
      PROVE  QuotedInFull
  <2>1. SUFFICES ASSUME serial, failures = 0, NoneRunning, NEW i \in Calls \ trimmed, Standing(i)
                 PROVE  Quoted(i)
    BY DEF QuotedInFull, Quoted, Ledger
  <2>2. Settled(i)
    BY <2>1 DEF Settled, NoneRunning, Pricing
  <2>3. QED BY <1>1, <2>1, <2>2 DEF SavingsInv, PricesKept, Undisturbed
<1>2. QED BY <1>1, SavingsInvHolds, PTL
=============================================================================
