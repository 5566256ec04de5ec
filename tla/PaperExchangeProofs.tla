------------------------- MODULE PaperExchangeProofs -------------------------
(***************************************************************************)
(* What every operation of the simulated broker keeps, for both engines:   *)
(* the account is typed, a position is named by the bar it was opened in,  *)
(* and the money adds up.  The sums of the model are folds of the library; *)
(* the first part shows that any order of taking the elements will do.     *)
(***************************************************************************)
EXTENDS PaperExchange, FiniteSetTheorems, WellFoundedInduction, TLAPS

-----------------------------------------------------------------------------
(* Finite sums.                                                            *)

(* A set of finite sets has one with no other of them inside it, which is  *)
(* what takes the place of induction below.                                *)
LEMMA SmallestSet ==
  ASSUME NEW S, IsFiniteSet(S), NEW D, D \subseteq SUBSET S, D # {}
  PROVE  \E m \in D : \A t \in SUBSET m : t # m => t \notin D
<1>1. D \subseteq FiniteSubsetsOf(S)
  BY FS_Subset DEF FiniteSubsetsOf
<1>2. PICK m \in D : \A t \in D : <<t, m>> \notin StrictSubsetOrdering(S)
  BY <1>1, WFMin, FS_StrictSubsetOrderingWellFounded
<1>3. ASSUME NEW t \in SUBSET m, t # m, t \in D PROVE FALSE
  BY <1>2, <1>3 DEF StrictSubsetOrdering
<1> QED BY <1>3

(* MapThenSumSet takes the elements one by one, in the order of CHOOSE.    *)
Pick(s) == CHOOSE x \in s : TRUE

IsSum(f, g, S) ==
  f = [s \in SUBSET S |-> IF s = {} THEN 0 ELSE g[Pick(s)] + f[s \ {Pick(s)}]]

(* The sum of the values a function takes on a set.                        *)
Sum(g, S) == (CHOOSE f : IsSum(f, g, S))[S]

(* The element picked is one of the set.                                   *)
LEMMA PickElement ==
  ASSUME NEW s, s # {}
  PROVE  Pick(s) \in s
BY DEF Pick

(* Two sums that run over a set come to the same.                          *)
LEMMA SumsAgree ==
  ASSUME NEW g, NEW S, IsFiniteSet(S), NEW T, NEW f, NEW h,
         IsSum(f, g, S), IsSum(h, g, T), NEW u, u \subseteq S, u \subseteq T
  PROVE  f[u] = h[u]
<1> DEFINE D == {s \in SUBSET S : s \subseteq T /\ f[s] # h[s]}
<1>1. SUFFICES ASSUME D # {} PROVE FALSE
  OBVIOUS
<1>2. PICK m \in D : \A t \in SUBSET m : t # m => t \notin D
  <2>1. D \subseteq SUBSET S
    OBVIOUS
  <2> HIDE DEF D
  <2> QED BY <1>1, <2>1, SmallestSet
<1>3. /\ f[m] = IF m = {} THEN 0 ELSE g[Pick(m)] + f[m \ {Pick(m)}]
      /\ h[m] = IF m = {} THEN 0 ELSE g[Pick(m)] + h[m \ {Pick(m)}]
  BY DEF IsSum
<1>4. m # {}
  BY <1>3
<1>5. m \ {Pick(m)} \in SUBSET m /\ m \ {Pick(m)} # m
  BY <1>4, PickElement
<1>6. f[m \ {Pick(m)}] = h[m \ {Pick(m)}]
  BY <1>2, <1>5
<1> QED BY <1>3, <1>4, <1>6

(* What a sum would be, built from the sums of the smaller sets.           *)
LEMMA SumExists ==
  ASSUME NEW g, NEW S, IsFiniteSet(S)
  PROVE  \E f : IsSum(f, g, S)
<1> DEFINE D == {s \in SUBSET S : ~\E f : IsSum(f, g, s)}
<1>1. SUFFICES ASSUME D # {} PROVE FALSE
  OBVIOUS
<1>2. PICK m \in D : \A t \in SUBSET m : t # m => t \notin D
  <2>1. D \subseteq SUBSET S
    OBVIOUS
  <2> HIDE DEF D
  <2> QED BY <1>1, <2>1, SmallestSet
<1>3. IsFiniteSet(m)
  BY FS_Subset
<1>4. ASSUME NEW t \in SUBSET m, t # m
      PROVE  IsSum(CHOOSE f : IsSum(f, g, t), g, t)
  BY <1>2, <1>4
<1>5. ASSUME NEW t \in SUBSET m, t # m
      PROVE  Sum(g, t) = IF t = {} THEN 0 ELSE g[Pick(t)] + Sum(g, t \ {Pick(t)})
  <2> DEFINE f == CHOOSE f : IsSum(f, g, t)
             u == t \ {Pick(t)}
             h == CHOOSE h : IsSum(h, g, u)
  <2>1. IsSum(f, g, t)
    BY <1>4, <1>5
  <2>2. f[t] = IF t = {} THEN 0 ELSE g[Pick(t)] + f[u]
    BY <2>1 DEF IsSum
  <2>3. CASE t # {}
    <3>1. u \in SUBSET m /\ u # m /\ u \subseteq t /\ u \subseteq u /\ IsFiniteSet(t)
      BY <1>3, <2>3, PickElement, FS_Subset
    <3>2. IsSum(h, g, u)
      BY <1>4, <3>1
    <3>3. f[u] = h[u]
      <4> HIDE DEF f, h, u
      <4> QED BY <2>1, <3>1, <3>2, SumsAgree
    <3> QED BY <2>2, <2>3, <3>3 DEF Sum
  <2> QED BY <2>2, <2>3 DEF Sum
<1> DEFINE F == [s \in SUBSET m |->
                   IF s = m THEN (IF m = {} THEN 0 ELSE g[Pick(m)] + Sum(g, m \ {Pick(m)}))
                   ELSE Sum(g, s)]
<1>6. ASSUME NEW s \in SUBSET m
      PROVE  F[s] = IF s = {} THEN 0 ELSE g[Pick(s)] + F[s \ {Pick(s)}]
  <2>1. s # {} => /\ s \ {Pick(s)} \in SUBSET m /\ s \ {Pick(s)} # m
                  /\ F[s \ {Pick(s)}] = Sum(g, s \ {Pick(s)})
    <3> SUFFICES ASSUME s # {} PROVE /\ s \ {Pick(s)} \in SUBSET m /\ s \ {Pick(s)} # m
                                     /\ F[s \ {Pick(s)}] = Sum(g, s \ {Pick(s)})
      OBVIOUS
    <3>1. s \ {Pick(s)} \in SUBSET m /\ s \ {Pick(s)} # m
      BY PickElement
    <3> QED BY <3>1
  <2>2. CASE s = m
    BY <2>1, <2>2
  <2>3. CASE s # m
    BY <1>5, <2>1, <2>3
  <2> QED BY <2>2, <2>3
<1>7. IsSum(F, g, m)
  <2>1. F = [s \in SUBSET m |-> F[s]]
    OBVIOUS
  <2> HIDE DEF F
  <2>2. [s \in SUBSET m |-> F[s]]
          = [s \in SUBSET m |-> IF s = {} THEN 0 ELSE g[Pick(s)] + F[s \ {Pick(s)}]]
    BY <1>6
  <2> QED BY <2>1, <2>2 DEF IsSum
<1> QED BY <1>7

(* A sum is the value of the element picked, and the sum over the others.  *)
LEMMA SumStep ==
  ASSUME NEW g, NEW S, IsFiniteSet(S)
  PROVE  Sum(g, S) = IF S = {} THEN 0 ELSE g[Pick(S)] + Sum(g, S \ {Pick(S)})
<1> DEFINE f == CHOOSE f : IsSum(f, g, S)
           u == S \ {Pick(S)}
           h == CHOOSE h : IsSum(h, g, u)
<1>1. IsFiniteSet(u) /\ u \subseteq S /\ u \subseteq u
  BY FS_Subset
<1>2. IsSum(f, g, S)
  BY SumExists
<1>3. IsSum(h, g, u)
  BY <1>1, SumExists
<1>4. f[S] = IF S = {} THEN 0 ELSE g[Pick(S)] + f[u]
  BY <1>2 DEF IsSum
<1>5. f[u] = h[u]
  <2> HIDE DEF f, h, u
  <2> QED BY <1>1, <1>2, <1>3, SumsAgree
<1> QED BY <1>4, <1>5 DEF Sum

(* A function on a set that takes integer values.                          *)
IntegersOn(g, S) == \A x \in S : g[x] \in Int

(* A sum of integers is an integer.                                        *)
LEMMA SumInteger ==
  ASSUME NEW g, NEW S, IsFiniteSet(S), IntegersOn(g, S)
  PROVE  Sum(g, S) \in Int
<1> DEFINE D == {s \in SUBSET S : Sum(g, s) \notin Int}
<1>1. SUFFICES ASSUME D # {} PROVE FALSE
  OBVIOUS
<1>2. PICK m \in D : \A t \in SUBSET m : t # m => t \notin D
  <2>1. D \subseteq SUBSET S
    OBVIOUS
  <2> HIDE DEF D
  <2> QED BY <1>1, <2>1, SmallestSet
<1>3. Sum(g, m) = IF m = {} THEN 0 ELSE g[Pick(m)] + Sum(g, m \ {Pick(m)})
  BY FS_Subset, SumStep
<1>4. CASE m # {}
  <2>1. Pick(m) \in m /\ m \ {Pick(m)} \in SUBSET m /\ m \ {Pick(m)} # m
    BY <1>4, PickElement
  <2>2. g[Pick(m)] \in Int
    BY <2>1 DEF IntegersOn
  <2> QED BY <1>2, <1>3, <2>1, <2>2
<1> QED BY <1>3, <1>4

(* The order of CHOOSE does not matter: any element can be taken first.    *)
LEMMA SumRemove ==
  ASSUME NEW g, NEW S, IsFiniteSet(S), IntegersOn(g, S), NEW x \in S
  PROVE  Sum(g, S) = g[x] + Sum(g, S \ {x})
<1> DEFINE D == {s \in SUBSET S : \E y \in s : Sum(g, s) # g[y] + Sum(g, s \ {y})}
<1>1. SUFFICES ASSUME D # {} PROVE FALSE
  OBVIOUS
<1>2. PICK m \in D : \A t \in SUBSET m : t # m => t \notin D
  <2>1. D \subseteq SUBSET S
    OBVIOUS
  <2> HIDE DEF D
  <2> QED BY <1>1, <2>1, SmallestSet
<1>3. PICK y \in m : Sum(g, m) # g[y] + Sum(g, m \ {y})
  BY <1>2
<1> DEFINE p == Pick(m)
<1>4. p \in m /\ m \in SUBSET S /\ IsFiniteSet(m) /\ IsFiniteSet(m \ {y}) /\ IsFiniteSet(m \ {p})
      /\ g[p] \in Int /\ g[y] \in Int
  BY <1>3, PickElement, FS_Subset, FS_RemoveElement DEF IntegersOn
<1>5. Sum(g, m) = g[p] + Sum(g, m \ {p})
  BY <1>3, <1>4, SumStep
<1>6. y # p
  BY <1>3, <1>5
<1>7. \A t \in SUBSET m : t # m =>
        \A z \in t : Sum(g, t) = g[z] + Sum(g, t \ {z})
  BY <1>2, <1>4
<1>8. /\ Sum(g, m \ {p}) = g[y] + Sum(g, (m \ {p}) \ {y})
      /\ Sum(g, m \ {y}) = g[p] + Sum(g, (m \ {y}) \ {p})
  <2>1. m \ {p} \in SUBSET m /\ m \ {p} # m /\ y \in m \ {p}
    BY <1>4, <1>6
  <2>2. m \ {y} \in SUBSET m /\ m \ {y} # m /\ p \in m \ {y}
    BY <1>4, <1>6
  <2> HIDE DEF p
  <2> QED BY <1>7, <2>1, <2>2
<1>9. (m \ {p}) \ {y} = (m \ {y}) \ {p}
  OBVIOUS
<1>10. Sum(g, (m \ {p}) \ {y}) \in Int
  <2>1. IsFiniteSet((m \ {p}) \ {y}) /\ IntegersOn(g, (m \ {p}) \ {y})
    BY <1>4, FS_RemoveElement DEF IntegersOn
  <2> QED BY <2>1, SumInteger
<1>11. PICK rest \in Int : rest = Sum(g, (m \ {p}) \ {y}) /\ rest = Sum(g, (m \ {y}) \ {p})
  BY <1>9, <1>10
<1>12. Sum(g, m) = g[p] + (g[y] + rest) /\ Sum(g, m \ {y}) = g[p] + rest
  BY <1>5, <1>8, <1>11
<1>13. g[p] + (g[y] + rest) = g[y] + (g[p] + rest)
  BY <1>4
<1> QED BY <1>3, <1>12, <1>13

(* Nothing sums up to zero.                                                *)
LEMMA SumEmpty ==
  ASSUME NEW g
  PROVE  Sum(g, {}) = 0
BY SumStep, FS_EmptySet

(* One more element adds its value.                                        *)
LEMMA SumAdd ==
  ASSUME NEW g, NEW S, IsFiniteSet(S), NEW x, x \notin S, IntegersOn(g, S \cup {x})
  PROVE  /\ Sum(g, S \cup {x}) = Sum(g, S) + g[x]
         /\ Sum(g, S) \in Int /\ Sum(g, S \cup {x}) \in Int /\ g[x] \in Int
<1>1. IsFiniteSet(S \cup {x}) /\ (S \cup {x}) \ {x} = S /\ IntegersOn(g, S)
  BY FS_AddElement DEF IntegersOn
<1>2. Sum(g, S \cup {x}) = g[x] + Sum(g, (S \cup {x}) \ {x})
  BY <1>1, SumRemove
<1>3. Sum(g, S) \in Int /\ Sum(g, S \cup {x}) \in Int /\ g[x] \in Int
  BY <1>1, SumInteger DEF IntegersOn
<1>4. Sum(g, S \cup {x}) = g[x] + Sum(g, S)
  BY <1>1, <1>2
<1>5. g[x] + Sum(g, S) = Sum(g, S) + g[x]
  BY <1>3
<1> QED BY <1>3, <1>4, <1>5

(* Only the values on the set matter.                                      *)
LEMMA SumSame ==
  ASSUME NEW g, NEW h, NEW S, IsFiniteSet(S), \A x \in S : g[x] = h[x]
  PROVE  Sum(g, S) = Sum(h, S)
<1> DEFINE D == {s \in SUBSET S : Sum(g, s) # Sum(h, s)}
<1>1. SUFFICES ASSUME D # {} PROVE FALSE
  OBVIOUS
<1>2. PICK m \in D : \A t \in SUBSET m : t # m => t \notin D
  <2>1. D \subseteq SUBSET S
    OBVIOUS
  <2> HIDE DEF D
  <2> QED BY <1>1, <2>1, SmallestSet
<1>3. /\ Sum(g, m) = IF m = {} THEN 0 ELSE g[Pick(m)] + Sum(g, m \ {Pick(m)})
      /\ Sum(h, m) = IF m = {} THEN 0 ELSE h[Pick(m)] + Sum(h, m \ {Pick(m)})
  BY FS_Subset, SumStep
<1>4. CASE m # {}
  <2>1. Pick(m) \in m /\ m \ {Pick(m)} \in SUBSET m /\ m \ {Pick(m)} # m
    BY <1>4, PickElement
  <2>2. g[Pick(m)] = h[Pick(m)] /\ Sum(g, m \ {Pick(m)}) = Sum(h, m \ {Pick(m)})
    BY <1>2, <2>1
  <2> QED BY <1>2, <1>3, <2>2
<1> QED BY <1>2, <1>3, <1>4

-----------------------------------------------------------------------------
(* The sums of the model. *)

MarginOf(S)  == [pos \in S |-> pos.margin]
PnlOf(S)     == [trade \in S |-> trade.pnl]
ReleaseOf(S) == [e \in S |-> Release(e.pos, e.price)]
MarketOf(S, price) == [pos \in S |-> MarkToMarket(pos, price)]

(* The margins of positions are such a sum.                                *)
LEMMA MarginSum ==
  ASSUME NEW S, IsFiniteSet(S)
  PROVE  Margins(S) = Sum(MarginOf(S), S)
<1> DEFINE h == CHOOSE f : f = [s \in SUBSET S |-> IF s = {} THEN 0
                                  ELSE Pick(s).margin + f[s \ {Pick(s)}]]
<1>1. Margins(S) = h[S]
  BY DEF MapThenSumSet, MapThenFoldSet, Pick, Margins
<1>2. \A s \in SUBSET S : s # {} => MarginOf(S)[Pick(s)] = Pick(s).margin
  BY PickElement DEF MarginOf
<1>3. \A f : (f = [s \in SUBSET S |-> IF s = {} THEN 0 ELSE Pick(s).margin + f[s \ {Pick(s)}]])
             <=> IsSum(f, MarginOf(S), S)
  <2> TAKE f
  <2>1. [s \in SUBSET S |-> IF s = {} THEN 0 ELSE Pick(s).margin + f[s \ {Pick(s)}]]
        = [s \in SUBSET S |-> IF s = {} THEN 0 ELSE MarginOf(S)[Pick(s)] + f[s \ {Pick(s)}]]
    BY <1>2
  <2> QED BY <2>1 DEF IsSum
<1>4. h = CHOOSE f : IsSum(f, MarginOf(S), S)
  BY <1>3
<1> QED BY <1>1, <1>4 DEF Sum

(* The profits of trades are such a sum.                                   *)
LEMMA PnlSum ==
  ASSUME NEW S, IsFiniteSet(S)
  PROVE  Profits(S) = Sum(PnlOf(S), S)
<1> DEFINE h == CHOOSE f : f = [s \in SUBSET S |-> IF s = {} THEN 0
                                  ELSE Pick(s).pnl + f[s \ {Pick(s)}]]
<1>1. Profits(S) = h[S]
  BY DEF MapThenSumSet, MapThenFoldSet, Pick, Profits
<1>2. \A s \in SUBSET S : s # {} => PnlOf(S)[Pick(s)] = Pick(s).pnl
  BY PickElement DEF PnlOf
<1>3. \A f : (f = [s \in SUBSET S |-> IF s = {} THEN 0 ELSE Pick(s).pnl + f[s \ {Pick(s)}]])
             <=> IsSum(f, PnlOf(S), S)
  <2> TAKE f
  <2>1. [s \in SUBSET S |-> IF s = {} THEN 0 ELSE Pick(s).pnl + f[s \ {Pick(s)}]]
        = [s \in SUBSET S |-> IF s = {} THEN 0 ELSE PnlOf(S)[Pick(s)] + f[s \ {Pick(s)}]]
    BY <1>2
  <2> QED BY <2>1 DEF IsSum
<1>4. h = CHOOSE f : IsSum(f, PnlOf(S), S)
  BY <1>3
<1> QED BY <1>1, <1>4 DEF Sum

(* What exits release is such a sum.                                       *)
LEMMA ReleaseSum ==
  ASSUME NEW S, IsFiniteSet(S)
  PROVE  Released(S) = Sum(ReleaseOf(S), S)
<1> DEFINE h == CHOOSE f : f = [s \in SUBSET S |-> IF s = {} THEN 0
                                  ELSE Release(Pick(s).pos, Pick(s).price) + f[s \ {Pick(s)}]]
<1>1. Released(S) = h[S]
  BY DEF MapThenSumSet, MapThenFoldSet, Pick, Released
<1>2. \A s \in SUBSET S : s # {} => ReleaseOf(S)[Pick(s)] = Release(Pick(s).pos, Pick(s).price)
  BY PickElement DEF ReleaseOf
<1>3. \A f : (f = [s \in SUBSET S |-> IF s = {} THEN 0 ELSE Release(Pick(s).pos, Pick(s).price) + f[s \ {Pick(s)}]])
             <=> IsSum(f, ReleaseOf(S), S)
  <2> TAKE f
  <2>1. [s \in SUBSET S |-> IF s = {} THEN 0 ELSE Release(Pick(s).pos, Pick(s).price) + f[s \ {Pick(s)}]]
        = [s \in SUBSET S |-> IF s = {} THEN 0 ELSE ReleaseOf(S)[Pick(s)] + f[s \ {Pick(s)}]]
    BY <1>2
  <2> QED BY <2>1 DEF IsSum
<1>4. h = CHOOSE f : IsSum(f, ReleaseOf(S), S)
  BY <1>3
<1> QED BY <1>1, <1>4 DEF Sum

(* What positions are worth is such a sum.                                 *)
LEMMA MarketSum ==
  ASSUME NEW S, IsFiniteSet(S), NEW price
  PROVE  Worth(S, price) = Sum(MarketOf(S, price), S)
<1> DEFINE h == CHOOSE f : f = [s \in SUBSET S |-> IF s = {} THEN 0
                                  ELSE MarkToMarket(Pick(s), price) + f[s \ {Pick(s)}]]
<1>1. Worth(S, price) = h[S]
  BY DEF MapThenSumSet, MapThenFoldSet, Pick, Worth
<1>2. \A s \in SUBSET S : s # {} => MarketOf(S, price)[Pick(s)] = MarkToMarket(Pick(s), price)
  BY PickElement DEF MarketOf
<1>3. \A f : (f = [s \in SUBSET S |-> IF s = {} THEN 0 ELSE MarkToMarket(Pick(s), price) + f[s \ {Pick(s)}]])
             <=> IsSum(f, MarketOf(S, price), S)
  <2> TAKE f
  <2>1. [s \in SUBSET S |-> IF s = {} THEN 0 ELSE MarkToMarket(Pick(s), price) + f[s \ {Pick(s)}]]
        = [s \in SUBSET S |-> IF s = {} THEN 0 ELSE MarketOf(S, price)[Pick(s)] + f[s \ {Pick(s)}]]
    BY <1>2
  <2> QED BY <2>1 DEF IsSum
<1>4. h = CHOOSE f : IsSum(f, MarketOf(S, price), S)
  BY <1>3
<1> QED BY <1>1, <1>4 DEF Sum

-----------------------------------------------------------------------------
(* Prices, margins and fees are numbers. *)

Sides == {"LONG", "SHORT"}

(* Rounding a quotient down gives an integer; none below zero from above. *)
LEMMA Division ==
  ASSUME NEW a \in Int, NEW b \in Nat \ {0}
  PROVE  a \div b \in Int /\ (a >= 0 => a \div b >= 0)
OBVIOUS

(* A percentage of an integer is an integer; none below zero from above.  *)
LEMMA PercentType ==
  ASSUME NEW p \in Int, NEW a \in Int
  PROVE  Percent(p, a) \in Int /\ (p >= 0 /\ a >= 0 => Percent(p, a) >= 0)
<1>1. p * a \in Int /\ (p >= 0 /\ a >= 0 => p * a >= 0)
  OBVIOUS
<1> QED BY <1>1, Division DEF Percent

(* The larger of zero and an integer is a natural number.                  *)
LEMMA MaxType ==
  ASSUME NEW a \in Int
  PROVE  Max({0, a}) \in Nat
<1>1. \E x \in {0, a} : \A y \in {0, a} : x >= y
  <2>1. CASE a >= 0 BY <2>1
  <2>2. CASE a < 0 BY <2>2
  <2> QED BY <2>1, <2>2
<1>2. Max({0, a}) \in {0, a} /\ Max({0, a}) >= 0
  BY <1>1 DEF Max
<1> QED BY <1>2

(* Slippage never makes a price negative.                                  *)
LEMMA PriceTypes ==
  ASSUME config \in Configs, NEW side, NEW price \in Nat
  PROVE  EntryPrice(side, price) \in Nat /\ ExitPrice(side, price) \in Nat
<1>1. config.slippage \in Nat
  BY ConfigAssumption
<1>2. BuyPrice(price) \in Nat
  BY <1>1 DEF BuyPrice
<1>3. SellPrice(price) \in Nat
  BY <1>1, MaxType DEF SellPrice
<1> QED BY <1>2, <1>3 DEF EntryPrice, ExitPrice

PriceLevels == Int \cup {NoLevel}

(* A stop or a target is an integer or not set.                            *)
LEMMA LevelType ==
  ASSUME config \in Configs, NEW side, NEW entry \in Nat, NEW sign \in {1, -1}
  PROVE  /\ Level(entry, config.stopPercent, sign) \in PriceLevels
         /\ Level(entry, config.targetPercent, sign) \in PriceLevels
<1>1. \A p \in Int : 100 + sign * p \in Int
  OBVIOUS
<1>2. /\ config.stopPercent \in Int \/ config.stopPercent = NoLevel
      /\ config.targetPercent \in Int \/ config.targetPercent = NoLevel
  BY ConfigAssumption
<1>3. \A p \in Int : Percent(100 + sign * p, entry) \in Int
  <2> TAKE p \in Int
  <2>1. 100 + sign * p \in Int /\ entry \in Int
    BY <1>1
  <2> QED BY <2>1, PercentType
<1> QED BY <1>2, <1>3 DEF Level, PriceLevels

(* A fee is an integer, and nothing is paid back.                          *)
LEMMA FeeType ==
  ASSUME config \in Configs, NEW notional \in Int, NEW quantity \in Int
  PROVE  /\ EntryFee(notional, quantity) \in Int
         /\ notional >= 0 /\ quantity >= 0 => EntryFee(notional, quantity) >= 0
<1>1. config.commission \in Commissions /\ config.fee \in Nat
  BY ConfigAssumption
<1>f. config.fee \in Int /\ config.fee >= 0
  BY <1>1
<1>2. quantity * config.fee \in Int /\ (quantity >= 0 => quantity * config.fee >= 0)
  BY <1>1
<1>3. Percent(config.fee, notional) \in Int
      /\ (notional >= 0 => Percent(config.fee, notional) >= 0)
  BY <1>f, PercentType
<1> QED BY <1>1, <1>2, <1>3 DEF EntryFee, Commissions

(* The quantity a notional value buys is an integer.                       *)
LEMMA QuantityType ==
  ASSUME config \in Configs, NEW notional \in Int, NEW price \in Nat \ {0}
  PROVE  Quantity(notional, price) \in Int
<1>1. config.commission \in Commissions /\ config.fee \in Nat
  BY ConfigAssumption
<1>f. config.fee \in Int /\ Percent(config.fee, notional) \in Int
  BY <1>1, PercentType
<1>2. /\ notional - Percent(config.fee, notional) \in Int /\ notional - config.fee \in Int
      /\ price + config.fee \in Nat \ {0}
  BY <1>1, <1>f
<1> QED BY <1>1, <1>2, Division DEF Quantity, Commissions

(* What a sizing asks for are integers.                                    *)
LEMMA WantedType ==
  ASSUME config \in Configs, NEW price \in Nat, NEW equity \in Int, NEW leverage \in Nat \ {0}
  PROVE  /\ Wanted(price, equity, leverage).margin \in Int
         /\ Wanted(price, equity, leverage).notional \in Int
<1>1. /\ config.sizing \in Sizings /\ config.size \in Nat \ {0}
      /\ config.stopPercent # NoLevel => config.stopPercent \in Nat \ {0}
  BY ConfigAssumption
<1>2. Percent(config.size, equity) \in Int /\ Percent(config.size, equity) * leverage \in Int
  <2>1. config.size \in Int
    BY <1>1
  <2>2. Percent(config.size, equity) \in Int
    BY <2>1, PercentType
  <2> QED BY <2>2
<1>3. config.size * leverage \in Int /\ config.size * price \in Int /\ config.size * equity \in Int
  BY <1>1
<1>4. (config.size * price) \div leverage \in Int
  BY <1>3, Division
<1>5. config.stopPercent # NoLevel =>
        /\ (config.size * equity) \div config.stopPercent \in Int
        /\ ((config.size * equity) \div config.stopPercent) \div leverage \in Int
  BY <1>1, <1>3, Division
<1>6. CASE config.sizing = "percent_of_equity"
  BY <1>2, <1>6 DEF Wanted
<1>7. CASE config.sizing = "fixed_cash"
  BY <1>1, <1>3, <1>7 DEF Wanted
<1>8. CASE config.sizing = "fixed_contracts"
  BY <1>3, <1>4, <1>8 DEF Wanted
<1>9. CASE config.sizing = "risk_percent" /\ config.stopPercent # NoLevel
  BY <1>5, <1>9 DEF Wanted
<1>10. CASE config.sizing = "risk_percent" /\ config.stopPercent = NoLevel
  BY <1>10 DEF Wanted
<1> QED BY <1>1, <1>6, <1>7, <1>8, <1>9, <1>10 DEF Sizings

(* The clamp never spends more than the cash.                              *)
LEMMA AffordableType ==
  ASSUME NEW wanted, wanted.margin \in Int, wanted.notional \in Int, wanted.margin > 0,
         cash \in Int
  PROVE  /\ Affordable(wanted).margin \in Int /\ Affordable(wanted).notional \in Int
         /\ Affordable(wanted).margin <= cash
<1>1. CASE wanted.margin <= cash
  BY <1>1 DEF Affordable
<1>2. CASE ~(wanted.margin <= cash)
  <2>1. (wanted.notional * cash) \div wanted.margin \in Int
    BY Division
  <2> QED BY <1>2, <2>1 DEF Affordable
<1> QED BY <1>1, <1>2

-----------------------------------------------------------------------------
(* The account, in the bar numbered `last` with trades closed up to `by`.  *)

PositionRecords(last) ==
  [opened : 1 .. last, decided : 1 .. last, side : Sides,
   quantity : Nat \ {0}, entry : Nat \ {0}, margin : Nat \ {0}, fee : Nat,
   leverage : Nat \ {0}, stop : PriceLevels, target : PriceLevels]

TradeRecords(last, by) ==
  [opened : 1 .. last, decided : 1 .. last, closed : 1 .. by, pnl : Int,
   reason : {"strategy_signal", "stop_loss", "take_profit", "end_of_backtest"}]

(* What is needed of the account for its sums: the bar a position was      *)
(* opened in names it, among the open positions and among the trades.      *)
AccountTyped(last, by) ==
  /\ config \in Configs
  /\ cash \in Int
  /\ IsFiniteSet(positions) /\ IsFiniteSet(trades)
  /\ positions \subseteq PositionRecords(last)
  /\ trades \subseteq TradeRecords(last, by)

OpenedOnce ==
  /\ \A pos, other \in positions : pos.opened = other.opened => pos = other
  /\ \A pos \in positions, trade \in trades : pos.opened # trade.opened

Account(last, by) == AccountTyped(last, by) /\ OpenedOnce /\ MoneyConserved

(* What a position is worth, loses and gives back are numbers, and what it *)
(* gives back is its margin and its profit.                                *)
LEMMA PositionValues ==
  ASSUME config \in Configs, NEW last, NEW pos \in PositionRecords(last), NEW price \in Int
  PROVE  /\ MarkToMarket(pos, price) \in Int
         /\ Pnl(pos, price) \in Int
         /\ Release(pos, price) = pos.margin + Pnl(pos, price)
         /\ pos.margin \in Int
<1>1. /\ pos.quantity \in Int /\ pos.entry \in Int /\ pos.margin \in Int /\ pos.fee \in Int
      /\ pos.side \in Sides
  BY DEF PositionRecords
<1>2. pos.quantity * price \in Int
  BY <1>1
<1>3. PriceGain(pos, price) \in Int
  <2>1. Direction(pos.side) \in Int
    BY DEF Direction
  <2>2. Direction(pos.side) * (price - pos.entry) \in Int
    BY <1>1, <2>1
  <2> QED BY <1>1, <2>2 DEF PriceGain
<1>4. ExitFee(pos.quantity, price) \in Int
  BY <1>1, <1>2, FeeType DEF ExitFee
<1>5. MarkToMarket(pos, price) \in Int
  BY <1>1, <1>2, <1>3 DEF MarkToMarket
<1>6. Pnl(pos, price) \in Int
  BY <1>1, <1>2, <1>3, <1>4 DEF Pnl
<1>7. Release(pos, price) = pos.margin + Pnl(pos, price)
  <2>1. CASE Spot(pos)
    <3>1. PICK worth \in Int, fee \in Int :
            worth = pos.quantity * price /\ fee = ExitFee(pos.quantity, price)
      BY <1>2, <1>4
    <3>2. /\ Release(pos, price) = worth - fee
          /\ Pnl(pos, price) = worth - fee - pos.margin
      BY <2>1, <3>1 DEF Release, Pnl
    <3> QED BY <1>1, <3>1, <3>2
  <2>2. CASE ~Spot(pos)
    BY <2>2 DEF Release
  <2> QED BY <2>1, <2>2
<1> QED BY <1>1, <1>5, <1>6, <1>7

(* The equity is an integer.                                               *)
LEMMA EquityType ==
  ASSUME NEW last, NEW by, AccountTyped(last, by), NEW price \in Int
  PROVE  Equity(price) \in Int
<1>1. IsFiniteSet(positions) /\ cash \in Int /\ config \in Configs
      /\ positions \subseteq PositionRecords(last)
  BY DEF AccountTyped
<1>2. Worth(positions, price) = Sum(MarketOf(positions, price), positions)
  BY <1>1, MarketSum
<1>3. IntegersOn(MarketOf(positions, price), positions)
  BY <1>1, PositionValues DEF IntegersOn, MarketOf
<1>4. Sum(MarketOf(positions, price), positions) \in Int
  BY <1>1, <1>3, SumInteger
<1> QED BY <1>1, <1>2, <1>4 DEF Equity

(* An entry that is funded is a position the cash covers.                  *)
LEMMA EntryType ==
  ASSUME NEW last, NEW by, AccountTyped(last, by),
         NEW side \in Sides, NEW price \in Nat, NEW at \in Nat, NEW decided \in 1 .. at,
         Fundable(side, price)
  PROVE  /\ Entry(side, price, at, decided) \in PositionRecords(at)
         /\ Entry(side, price, at, decided).margin <= cash
         /\ Entry(side, price, at, decided).opened = at
<1> DEFINE entry    == EntryPrice(side, price)
           leverage == config.leverage[side]
           asked    == Wanted(entry, Equity(price), leverage)
           capital  == Affordable(asked)
           quantity == Quantity(capital.notional, entry)
           fee      == EntryFee(capital.notional, quantity)
           stop     == Level(entry, config.stopPercent, -Direction(side))
           target   == Level(entry, config.targetPercent, Direction(side))
<1>1. config \in Configs /\ cash \in Int /\ leverage \in Nat \ {0} /\ at \in 1 .. at
  BY ConfigAssumption DEF AccountTyped, Sides
<1>2. entry \in Nat \ {0}
  BY <1>1, PriceTypes DEF Fundable
<1>3. asked.margin \in Int /\ asked.notional \in Int /\ asked.margin > 0
  <2>1. Equity(price) \in Int
    BY EquityType
  <2>2. asked.margin \in Int /\ asked.notional \in Int
    <3> HIDE DEF entry, leverage
    <3> QED BY <1>1, <1>2, <2>1, WantedType
  <2> QED BY <2>2 DEF Fundable
<1>4. capital.margin \in Int /\ capital.notional \in Int /\ capital.margin <= cash
  <2> HIDE DEF asked
  <2> QED BY <1>1, <1>3, AffordableType
<1>5. capital.margin > 0 /\ capital.notional > 0 /\ quantity > 0
  BY DEF Fundable
<1>6. quantity \in Int
  <2> HIDE DEF entry, capital
  <2> QED BY <1>1, <1>2, <1>4, QuantityType
<1>7. fee \in Nat
  <2> HIDE DEF capital, quantity
  <2>1. capital.notional >= 0 /\ quantity >= 0
    BY <1>4, <1>5, <1>6
  <2>2. fee \in Int /\ (capital.notional >= 0 /\ quantity >= 0 => fee >= 0)
    BY <1>1, <1>4, <1>6, FeeType
  <2> QED BY <2>1, <2>2
<1>8. stop \in PriceLevels /\ target \in PriceLevels
  <2>1. Direction(side) \in {1, -1}
    BY DEF Direction
  <2>2. -Direction(side) \in {1, -1}
    BY <2>1
  <2> HIDE DEF entry
  <2> QED BY <1>1, <1>2, <2>1, <2>2, LevelType
<1>9. Entry(side, price, at, decided) =
        [opened |-> at, decided |-> decided, side |-> side, quantity |-> quantity,
         entry |-> entry, margin |-> capital.margin, fee |-> fee, leverage |-> leverage,
         stop |-> stop, target |-> target]
  BY DEF Entry
<1> HIDE DEF entry, leverage, capital, quantity, fee, stop, target
<1> QED BY <1>1, <1>2, <1>4, <1>5, <1>6, <1>7, <1>8, <1>9 DEF PositionRecords

-----------------------------------------------------------------------------
(* What a risk-sized entry loses at its stop.                              *)

(* A quotient rounded down, times the divisor, stays within one divisor.   *)
LEMMA RoundedDown ==
  ASSUME NEW a \in Int, NEW b \in Nat \ {0}
  PROVE  /\ a \div b \in Int
         /\ b * (a \div b) <= a /\ a < b * (a \div b) + b
OBVIOUS

(* A factor keeps the order.                                               *)
LEMMA TimesKeepsOrder ==
  ASSUME NEW a \in Int, NEW b \in Int, NEW c \in Nat, a <= b
  PROVE  c * a \in Int /\ c * b \in Int /\ c * a <= c * b
OBVIOUS

(* And a positive one can be cancelled.                                    *)
LEMMA CancelFactor ==
  ASSUME NEW a \in Int, NEW b \in Int, NEW c \in Nat \ {0}, c * a <= c * b
  PROVE  a <= b
<1>1. SUFFICES ASSUME b + 1 <= a PROVE FALSE
  OBVIOUS
<1>2. c * (b + 1) <= c * a
  BY <1>1, TimesKeepsOrder
<1>3. c * (b + 1) = c * b + c
  OBVIOUS
<1>4. c * a \in Int /\ c * b \in Int
  OBVIOUS
<1> QED BY <1>2, <1>3, <1>4

(* What fits into an amount so many times is no more than its quotient.    *)
LEMMA UpToQuotient ==
  ASSUME NEW a \in Int, NEW b \in Nat \ {0}, NEW c \in Int, b * c <= a
  PROVE  c <= a \div b
<1>1. PICK q \in Int : q = a \div b /\ a < b * q + b
  BY RoundedDown
<1>2. b * c <= b * q + b - 1
  <2>1. b * c \in Int /\ b * q \in Int
    OBVIOUS
  <2> QED BY <1>1, <2>1
<1>3. SUFFICES ASSUME q + 1 <= c PROVE FALSE
  BY <1>1
<1>4. b * (q + 1) <= b * c
  BY <1>3, TimesKeepsOrder
<1>5. b * (q + 1) = b * q + b
  OBVIOUS
<1>6. b * c \in Int /\ b * q \in Int
  OBVIOUS
<1> QED BY <1>2, <1>4, <1>5, <1>6

(* The clamp asks for no more than the sizing did.                         *)
LEMMA ClampLowers ==
  ASSUME NEW wanted, wanted.margin \in Nat \ {0}, wanted.notional \in Int, cash \in Int,
         Affordable(wanted).margin > 0, Affordable(wanted).notional > 0
  PROVE  Affordable(wanted).notional <= wanted.notional
<1>1. CASE wanted.margin <= cash
  BY <1>1 DEF Affordable
<1>2. CASE ~(wanted.margin <= cash)
  <2>1. /\ Affordable(wanted).margin = cash
        /\ Affordable(wanted).notional = (wanted.notional * cash) \div wanted.margin
    BY <1>2 DEF Affordable
  <2>2. PICK m \in Nat \ {0}, n \in Int, k \in Int, c \in Nat \ {0} :
          /\ m = wanted.margin /\ n = wanted.notional /\ c = cash /\ c <= m
          /\ k = (n * c) \div m /\ k > 0 /\ m * k <= n * c
    <3>1. wanted.notional * cash \in Int
      OBVIOUS
    <3>2. cash \in Nat \ {0} /\ cash <= wanted.margin
      BY <1>2, <2>1
    <3> QED BY <2>1, <3>1, <3>2, RoundedDown
  <2>3. n >= 0
    <3>1. SUFFICES ASSUME n <= -1 PROVE FALSE
      OBVIOUS
    <3>2. c * n <= c * (-1)
      BY <3>1, TimesKeepsOrder
    <3>3. m * 0 <= m * k
      BY <2>2, TimesKeepsOrder
    <3>4. m * k \in Int /\ n * c \in Int /\ c * n = n * c /\ m * 0 = 0 /\ c * (-1) = -c
      OBVIOUS
    <3> QED BY <2>2, <3>2, <3>3, <3>4
  <2>4. n * c <= n * m
    BY <2>2, <2>3, TimesKeepsOrder
  <2>5. n * m = m * n /\ m * k \in Int /\ n * c \in Int /\ n * m \in Int
    OBVIOUS
  <2>6. m * k <= m * n
    BY <2>2, <2>4, <2>5
  <2>7. k <= n
    BY <2>6, CancelFactor
  <2> QED BY <2>1, <2>2, <2>7
<1> QED BY <1>1, <1>2

(* What is bought costs, at its entry, no more than the notional value.    *)
LEMMA QuantityCosts ==
  ASSUME config \in Configs, NEW notional \in Nat, NEW price \in Nat \ {0},
         Quantity(notional, price) > 0
  PROVE  price * Quantity(notional, price) <= notional
<1>1. config.commission \in Commissions /\ config.fee \in Nat
  BY ConfigAssumption
<1>2. PICK q \in Int : q = Quantity(notional, price) /\ q > 0
  BY QuantityType
<1>3. ASSUME NEW spent \in Int, spent <= notional, q = spent \div price
      PROVE  price * q <= notional
  <2>1. price * q <= spent /\ price * q \in Int
    BY <1>3, RoundedDown
  <2> QED BY <1>3, <2>1
<1>4. CASE config.commission = "percent"
  <2>1. Percent(config.fee, notional) \in Int /\ Percent(config.fee, notional) >= 0
    <3>1. config.fee \in Int /\ config.fee >= 0 /\ notional \in Int /\ notional >= 0
      BY <1>1
    <3> QED BY <3>1, PercentType
  <2>2. q = (notional - Percent(config.fee, notional)) \div price
    BY <1>2, <1>4 DEF Quantity
  <2> QED BY <1>2, <1>3, <2>1, <2>2
<1>5. CASE config.commission = "cash_per_order"
  <2>1. q = (notional - config.fee) \div price
    BY <1>2, <1>5 DEF Quantity
  <2> QED BY <1>1, <1>2, <1>3, <2>1
<1>6. CASE config.commission = "cash_per_contract"
  <2>1. PICK fee \in Nat : fee = config.fee
    BY <1>1
  <2>2. q = notional \div (price + fee)
    BY <1>2, <1>6, <2>1 DEF Quantity
  <2>3. (price + fee) * q <= notional
    <3>1. price + fee \in Nat \ {0} /\ notional \in Int
      OBVIOUS
    <3> QED BY <2>2, <3>1, RoundedDown
  <2>4. q * price <= q * (price + fee)
    BY <1>2, TimesKeepsOrder
  <2>5. /\ q * price = price * q /\ q * (price + fee) = (price + fee) * q
        /\ price * q \in Int /\ (price + fee) * q \in Int
    OBVIOUS
  <2> QED BY <1>2, <2>3, <2>4, <2>5
<1> QED BY <1>1, <1>4, <1>5, <1>6 DEF Commissions

(* Risk sizing divides the share of the equity by the stop's distance, and *)
(* needs a stop to do so.                                                  *)
LEMMA RiskAsked ==
  ASSUME config \in Configs, config.sizing = "risk_percent",
         NEW price, NEW equity \in Int, NEW leverage,
         Wanted(price, equity, leverage).margin > 0
  PROVE  /\ config.stopPercent \in 1 .. 99
         /\ Wanted(price, equity, leverage).notional
              = (config.size * equity) \div config.stopPercent
<1>1. config.stopPercent # NoLevel
  <2>1. SUFFICES ASSUME config.stopPercent = NoLevel PROVE FALSE
    OBVIOUS
  <2>2. Wanted(price, equity, leverage).margin = 0
    BY <2>1 DEF Wanted
  <2> QED BY <2>2
<1>2. config.stopPercent \in 1 .. 99
  BY <1>1, ConfigAssumption
<1> QED BY <1>1, <1>2 DEF Wanted

(* The distance of a whole-price stop from the entry.                      *)
LEMMA StopDistance ==
  ASSUME NEW p \in 1 .. 99, NEW entry \in Nat
  PROVE  /\ Percent(100 + (-1) * p, entry) \in Int /\ Percent(100 + 1 * p, entry) \in Int
         /\ 100 * (entry - Percent(100 + (-1) * p, entry)) <= p * entry + 99
         /\ (p * entry) % 100 = 0 =>
              100 * (entry - Percent(100 + (-1) * p, entry)) <= p * entry
         /\ 100 * (Percent(100 + 1 * p, entry) - entry) <= p * entry
<1>1. PICK x \in Nat : x = p * entry
  OBVIOUS
<1>2. (100 + (-1) * p) * entry = 100 * entry - x /\ (100 + 1 * p) * entry = 100 * entry + x
  BY <1>1
<1>3. /\ Percent(100 + (-1) * p, entry) = (100 * entry - x) \div 100
      /\ Percent(100 + 1 * p, entry) = (100 * entry + x) \div 100
  BY <1>2 DEF Percent
<1>4. /\ 100 * (entry - ((100 * entry - x) \div 100)) <= x + 99
      /\ x % 100 = 0 => 100 * (entry - ((100 * entry - x) \div 100)) <= x
      /\ 100 * (((100 * entry + x) \div 100) - entry) <= x
  OBVIOUS
<1>5. (100 * entry - x) \div 100 \in Int /\ (100 * entry + x) \div 100 \in Int
  OBVIOUS
<1> QED BY <1>1, <1>3, <1>4, <1>5

(* A distance per unit, times the units, adds up to no more than a share.  *)
LEMMA UnitsAtRisk ==
  ASSUME NEW p \in 1 .. 99, NEW entry \in Nat, NEW quantity \in Nat, NEW share \in Int,
         p * (entry * quantity) <= share,
         NEW distance \in Int, NEW slack \in Nat, 100 * distance <= p * entry + slack
  PROVE  /\ distance * quantity \in Int
         /\ 100 * (distance * quantity) <= share + slack * quantity
<1>1. quantity * (100 * distance) <= quantity * (p * entry + slack)
  <2>1. 100 * distance \in Int /\ p * entry + slack \in Int
    OBVIOUS
  <2> QED BY <2>1, TimesKeepsOrder
<1>2. quantity * (100 * distance) = 100 * (distance * quantity)
  OBVIOUS
<1>3. quantity * (p * entry + slack) = p * (entry * quantity) + slack * quantity
  OBVIOUS
<1>4. /\ distance * quantity \in Int /\ p * (entry * quantity) \in Int
      /\ slack * quantity \in Int
  OBVIOUS
<1> QED BY <1>1, <1>2, <1>3, <1>4

(* What the stop of a risk-sized entry costs: the configured share of the  *)
(* equity, and for a long what its rounding adds.                          *)
LEMMA RiskAtStop ==
  ASSUME NEW last, NEW by, AccountTyped(last, by),
         NEW side \in Sides, NEW price \in Nat, NEW at, NEW decided,
         Fundable(side, price), config.sizing = "risk_percent"
  PROVE  LET pos == Entry(side, price, at, decided)
         IN  -PriceGain(pos, pos.stop)
               <= Percent(config.size, Equity(price)) + StopRounding(pos)
<1> DEFINE pos      == Entry(side, price, at, decided)
           asked    == Wanted(EntryPrice(side, price), Equity(price), config.leverage[side])
           capital  == Affordable(asked)
<1> SUFFICES -PriceGain(pos, pos.stop)
               <= Percent(config.size, Equity(price)) + StopRounding(pos)
  OBVIOUS
<1>1. /\ config \in Configs /\ cash \in Int
      /\ config.leverage[side] \in Nat \ {0} /\ config.size \in Nat \ {0}
      /\ EntryPrice(side, price) \in Nat /\ Equity(price) \in Int
  <2>1. config \in Configs /\ cash \in Int
    BY DEF AccountTyped
  <2>2. price \in Int
    OBVIOUS
  <2> QED BY <2>1, <2>2, PriceTypes, EquityType, ConfigAssumption DEF Sides
<1>a. asked.margin > 0 /\ EntryPrice(side, price) > 0
  BY DEF Fundable
<1>b. /\ config.stopPercent \in 1 .. 99
      /\ asked.notional = (config.size * Equity(price)) \div config.stopPercent
  BY <1>1, <1>a, RiskAsked
<1>c. PICK share \in Int : share = config.size * Equity(price)
  BY <1>1
<1>d. PICK entry \in Nat \ {0} : entry = EntryPrice(side, price)
  BY <1>1, <1>a
<1>e. PICK p \in 1 .. 99 : p = config.stopPercent
  BY <1>b
<1>2. /\ entry = EntryPrice(side, price) /\ p = config.stopPercent
      /\ share = config.size * Equity(price)
      /\ asked.notional = share \div p
  BY <1>b, <1>c, <1>d, <1>e
<1>3. /\ capital.notional \in Nat \ {0} /\ capital.notional <= share \div p
      /\ share \div p \in Int
  <2>1. asked.margin \in Nat \ {0} /\ asked.notional \in Int
    <3>1. asked.margin \in Int /\ asked.notional \in Int
      BY <1>1, WantedType
    <3> QED BY <3>1 DEF Fundable
  <2>2. capital.margin > 0 /\ capital.notional > 0
    BY DEF Fundable
  <2>3. share \div p \in Int
    BY RoundedDown
  <2> HIDE DEF asked
  <2>4. capital.notional \in Int
    BY <1>1, <2>1, AffordableType
  <2>5. capital.notional <= asked.notional
    BY <1>1, <2>1, <2>2, ClampLowers
  <2> QED BY <1>2, <2>2, <2>3, <2>4, <2>5
<1>4. PICK quantity \in Nat \ {0} :
        quantity = Quantity(capital.notional, entry) /\ entry * quantity <= capital.notional
  <2>1. Quantity(capital.notional, entry) > 0
    BY <1>2 DEF Fundable
  <2> HIDE DEF capital
  <2>2. Quantity(capital.notional, entry) \in Int
    BY <1>1, <1>3, QuantityType
  <2>3. entry * Quantity(capital.notional, entry) <= capital.notional
    BY <1>1, <1>3, <2>1, QuantityCosts
  <2> QED BY <2>1, <2>2, <2>3
<1>5. p * (entry * quantity) <= share
  <2>1. entry * quantity <= share \div p /\ entry * quantity \in Int
    <3> HIDE DEF capital
    <3>1. entry * quantity \in Int
      OBVIOUS
    <3> QED BY <1>3, <1>4, <3>1
  <2>2. p * (entry * quantity) <= p * (share \div p)
    BY <1>3, <2>1, TimesKeepsOrder
  <2>3. p * (share \div p) <= share
    BY RoundedDown
  <2>4. p * (entry * quantity) \in Int /\ p * (share \div p) \in Int
    BY <1>3, <2>1
  <2> QED BY <2>2, <2>3, <2>4
<1>6. /\ pos.side = side /\ pos.quantity = quantity /\ pos.entry = entry
      /\ pos.stop = Level(entry, p, -Direction(side))
  BY <1>2, <1>4 DEF Entry
<1>7. p # NoLevel
  BY ConfigAssumption
<1>8. Percent(config.size, Equity(price)) = share \div 100
  BY <1>2 DEF Percent
<1> HIDE DEF pos, asked, capital
<1>9. CASE side = "LONG"
  <2>1. PICK stop \in Int :
          /\ stop = pos.stop
          /\ 100 * (entry - stop) <= p * entry + 99
          /\ (p * entry) % 100 = 0 => 100 * (entry - stop) <= p * entry
    <3>1. pos.stop = Percent(100 + (-1) * p, entry)
      BY <1>6, <1>7, <1>9 DEF Level, Direction
    <3> QED BY <3>1, StopDistance
  <2>2. -PriceGain(pos, pos.stop) = (entry - stop) * quantity
    <3>1. PriceGain(pos, pos.stop) = (1 * (stop - entry)) * quantity
      BY <1>6, <1>9, <2>1 DEF PriceGain, Direction
    <3> QED BY <3>1
  <2>3. CASE (p * entry) % 100 = 0
    <3>1. StopRounding(pos) = 0
      BY <1>2, <1>6, <2>3 DEF StopRounding
    <3>2. entry - stop \in Int /\ 100 * (entry - stop) <= p * entry + 0
      BY <2>1, <2>3
    <3>3. 100 * ((entry - stop) * quantity) <= share + 0 * quantity
          /\ (entry - stop) * quantity \in Int
      BY <1>5, <3>2, UnitsAtRisk
    <3>4. (entry - stop) * quantity <= share \div 100
      BY <3>3, UpToQuotient
    <3>5. share \div 100 \in Int
      OBVIOUS
    <3> QED BY <1>8, <2>2, <3>1, <3>4, <3>5
  <2>4. CASE (p * entry) % 100 # 0
    <3>1. StopRounding(pos) = quantity
      BY <1>2, <1>6, <1>9, <2>4 DEF StopRounding
    <3>2. 100 * ((entry - stop) * quantity) <= share + 99 * quantity
          /\ (entry - stop) * quantity \in Int
      <4>1. entry - stop \in Int
        OBVIOUS
      <4> QED BY <1>5, <2>1, <4>1, UnitsAtRisk
    <3>3. PICK loss \in Int : loss = (entry - stop) * quantity
      BY <3>2
    <3>4. 100 * (loss - quantity) <= share
      BY <3>2, <3>3
    <3>5. loss - quantity <= share \div 100
      BY <3>4, UpToQuotient
    <3>6. share \div 100 \in Int
      OBVIOUS
    <3> QED BY <1>8, <2>2, <3>1, <3>3, <3>5, <3>6
  <2> QED BY <2>3, <2>4
<1>10. CASE side = "SHORT"
  <2>1. PICK stop \in Int : stop = pos.stop /\ 100 * (stop - entry) <= p * entry + 0
    <3>1. pos.stop = Percent(100 + 1 * p, entry)
      BY <1>6, <1>7, <1>10 DEF Level, Direction
    <3>2. /\ pos.stop \in Int
          /\ 100 * (pos.stop - entry) <= p * entry
      BY <3>1, StopDistance
    <3>3. p * entry \in Int
      OBVIOUS
    <3> QED BY <3>2, <3>3
  <2>2. -PriceGain(pos, pos.stop) = (stop - entry) * quantity
    <3>1. PriceGain(pos, pos.stop) = ((-1) * (stop - entry)) * quantity
      BY <1>6, <1>10, <2>1 DEF PriceGain, Direction
    <3> QED BY <3>1
  <2>3. StopRounding(pos) = 0
    BY <1>6, <1>10 DEF StopRounding
  <2>4. 100 * ((stop - entry) * quantity) <= share + 0 * quantity
        /\ (stop - entry) * quantity \in Int
    <3>1. stop - entry \in Int
      OBVIOUS
    <3> QED BY <1>5, <2>1, <3>1, UnitsAtRisk
  <2>5. (stop - entry) * quantity <= share \div 100
    BY <2>4, UpToQuotient
  <2>6. share \div 100 \in Int
    OBVIOUS
  <2> QED BY <1>8, <2>2, <2>3, <2>5, <2>6
<1>11. side = "LONG" \/ side = "SHORT"
  BY DEF Sides
<1> QED BY <1>9, <1>10, <1>11

(* An entry moves its margin from the cash into the position.              *)
LEMMA OpenBalances ==
  ASSUME NEW last \in Nat, NEW by \in Nat, Account(last, by),
         NEW at \in Nat, last < at, NEW upto \in Nat, by <= upto,
         NEW side \in Sides, NEW price \in Nat, NEW decided \in 1 .. at,
         Open(side, price, at, decided)
  PROVE  /\ Account(at, upto)'
         /\ positions' \subseteq positions \/ cash' >= 0
<1>0. AccountTyped(last, by) /\ OpenedOnce /\ MoneyConserved
  BY DEF Account
<1>1. PositionRecords(last) \subseteq PositionRecords(at)
      /\ TradeRecords(last, by) \subseteq TradeRecords(at, upto)
  BY DEF PositionRecords, TradeRecords
<1>2. CASE UNCHANGED brokerVars
  <2>1. AccountTyped(at, upto)'
    BY <1>0, <1>1, <1>2 DEF AccountTyped, brokerVars
  <2>2. OpenedOnce' /\ MoneyConserved' /\ positions' \subseteq positions
    BY <1>0, <1>2 DEF OpenedOnce, MoneyConserved, brokerVars
  <2> QED BY <2>1, <2>2 DEF Account
<1>3. CASE MayOpen(side) /\ Fundable(side, price)
  <2> DEFINE new == Entry(side, price, at, decided)
  <2>1. /\ positions' = positions \cup {new}
        /\ cash' = cash - new.margin
        /\ config' = config /\ trades' = trades
    BY <1>3 DEF Open
  <2>2. new \in PositionRecords(at) /\ new.margin <= cash /\ new.opened = at
    BY <1>0, <1>3, EntryType
  <2> HIDE DEF new
  <2>3. new.margin \in Int /\ cash \in Int /\ IsFiniteSet(positions) /\ IsFiniteSet(trades)
    BY <1>0, <2>2 DEF AccountTyped, PositionRecords
  <2>4. \A pos \in positions \cup trades : pos.opened \in 1 .. last
    BY <1>0 DEF AccountTyped, PositionRecords, TradeRecords
  <2>5. new \notin positions
    BY <2>2, <2>4
  <2>6. IsFiniteSet(positions')
    BY <2>1, <2>3, FS_AddElement
  <2>7. AccountTyped(at, upto)'
    BY <1>0, <1>1, <2>1, <2>2, <2>3, <2>6 DEF AccountTyped
  <2>8. OpenedOnce'
    BY <1>0, <2>1, <2>2, <2>4 DEF OpenedOnce
  <2>9. Sum(MarginOf(positions'), positions') = Sum(MarginOf(positions), positions) + new.margin
        /\ Sum(MarginOf(positions), positions) \in Int
    <3> DEFINE M == MarginOf(positions')
    <3>1. IntegersOn(M, positions') /\ M[new] = new.margin
          /\ \A pos \in positions : M[pos] = MarginOf(positions)[pos]
      BY <2>1, <2>7 DEF MarginOf, IntegersOn, AccountTyped, PositionRecords
    <3> HIDE DEF M
    <3>2. Sum(M, positions') = Sum(M, positions) + M[new] /\ Sum(M, positions) \in Int
      BY <2>1, <2>3, <2>5, <3>1, SumAdd
    <3>3. Sum(M, positions) = Sum(MarginOf(positions), positions)
      BY <2>3, <3>1, SumSame
    <3> QED BY <3>1, <3>2, <3>3 DEF M
  <2>10. /\ cash + Sum(MarginOf(positions), positions)
              = InitialBalance + Sum(PnlOf(trades), trades)
    BY <1>0, <2>3, MarginSum, PnlSum DEF MoneyConserved
  <2>11. /\ cash' + Sum(MarginOf(positions'), positions')
              = InitialBalance + Sum(PnlOf(trades'), trades')
    BY <2>1, <2>3, <2>9, <2>10
  <2>12. MoneyConserved'
    BY <2>1, <2>3, <2>6, <2>11, MarginSum, PnlSum DEF MoneyConserved
  <2>13. cash' >= 0
    BY <2>1, <2>2, <2>3
  <2> QED BY <2>7, <2>8, <2>12, <2>13 DEF Account
<1> QED BY <1>2, <1>3 DEF Open

Reasons == {"strategy_signal", "stop_loss", "take_profit", "end_of_backtest"}

(* Some positions, each once, with a price and a reason to close it.       *)
ExitsOf(exits) ==
  /\ IsFiniteSet(exits)
  /\ \A e \in exits : e.pos \in positions /\ e.price \in Int /\ e.reason \in Reasons
  /\ \A e, f \in exits : e.pos = f.pos => e = f

(* Every exit turns its position's margin and profit into cash, and the    *)
(* profit into a trade.                                                    *)
LEMMA ExitsBalance ==
  ASSUME NEW last, NEW by, Account(last, by), NEW exits, ExitsOf(exits), NEW at
  PROVE  LET done == trades \cup {Closed(e, at) : e \in exits}
         IN  /\ Sum(ReleaseOf(exits), exits)
                  + Sum(MarginOf(positions), positions \ {e.pos : e \in exits})
                  + Sum(PnlOf(done), trades)
                = Sum(MarginOf(positions), positions) + Sum(PnlOf(done), done)
             /\ IntegersOn(PnlOf(done), done)
             /\ Sum(ReleaseOf(exits), exits) \in Int
<1>0. AccountTyped(last, by) /\ OpenedOnce
      /\ IsFiniteSet(positions) /\ IsFiniteSet(trades) /\ IsFiniteSet(exits)
  BY DEF Account, AccountTyped, ExitsOf
<1> DEFINE done == trades \cup {Closed(e, at) : e \in exits}
           R == ReleaseOf(exits)
           M == MarginOf(positions)
           P == PnlOf(done)
           Kept(d) == positions \ {e.pos : e \in d}
           Booked(d) == trades \cup {Closed(e, at) : e \in d}
           Balanced(d) == Sum(R, d) + Sum(M, Kept(d)) + Sum(P, trades)
                            = Sum(M, positions) + Sum(P, Booked(d))
           D == {d \in SUBSET exits : ~Balanced(d)}
<1>1. \A e \in exits : /\ Release(e.pos, e.price) = e.pos.margin + Pnl(e.pos, e.price)
                       /\ e.pos.margin \in Int /\ Pnl(e.pos, e.price) \in Int
                       /\ Closed(e, at).pnl = Pnl(e.pos, e.price)
                       /\ Closed(e, at).opened = e.pos.opened
  BY <1>0, PositionValues DEF ExitsOf, AccountTyped, Closed
<1>2. IntegersOn(R, exits) /\ IntegersOn(M, positions) /\ IntegersOn(P, done)
  BY <1>0, <1>1 DEF IntegersOn, ReleaseOf, MarginOf, PnlOf, AccountTyped, PositionRecords,
                    TradeRecords
<1>3. \A e \in exits : R[e] = M[e.pos] + P[Closed(e, at)]
  BY <1>1 DEF ReleaseOf, MarginOf, PnlOf, ExitsOf
<1>4. ASSUME NEW d \in SUBSET exits
      PROVE  /\ IsFiniteSet(d) /\ IsFiniteSet(Kept(d)) /\ IsFiniteSet(Booked(d))
             /\ IntegersOn(R, d) /\ IntegersOn(M, Kept(d)) /\ IntegersOn(P, Booked(d))
  <2>1. IsFiniteSet(d) /\ Kept(d) \in SUBSET positions
    BY <1>0, FS_Subset
  <2>2. IsFiniteSet({Closed(e, at) : e \in d})
    <3> DEFINE f == [e \in d |-> Closed(e, at)]
    <3>1. f \in Surjection(d, {Closed(e, at) : e \in d})
      BY DEF Surjection
    <3> QED BY <2>1, <3>1, FS_Surjection
  <2>3. IsFiniteSet(Booked(d))
    BY <1>0, <2>2, FS_Union
  <2>4. IsFiniteSet(Kept(d))
    BY <1>0, <2>1, FS_Subset
  <2> QED BY <1>2, <2>1, <2>3, <2>4 DEF IntegersOn
<1>5. D = {}
  <2>1. SUFFICES ASSUME D # {} PROVE FALSE
    OBVIOUS
  <2>2. PICK m \in D : \A t \in SUBSET m : t # m => t \notin D
    <3>1. D \subseteq SUBSET exits
      OBVIOUS
    <3> HIDE DEF D
    <3> QED BY <1>0, <2>1, <3>1, SmallestSet
  <2>3. CASE m = {}
    <3>1. Kept(m) = positions /\ Booked(m) = trades
      BY <2>3
    <3>2. Sum(R, m) = 0
      BY <2>3, SumEmpty
    <3>3. Sum(M, positions) \in Int /\ Sum(P, trades) \in Int
      <4>1. IntegersOn(P, trades)
        BY <1>2 DEF IntegersOn
      <4> QED BY <1>0, <1>2, <4>1, SumInteger
    <3> HIDE DEF R, M, P, Kept, Booked
    <3>4. Balanced(m)
      BY <3>1, <3>2, <3>3
    <3> QED BY <2>2, <3>4
  <2>4. CASE m # {}
    <3> DEFINE x == Pick(m)
               c == m \ {x}
    <3>1. x \in m /\ x \in exits /\ m \in SUBSET exits /\ c \in SUBSET exits
          /\ c \in SUBSET m /\ c # m /\ m = c \cup {x} /\ x \notin c
      BY <2>4, PickElement
    <3>2. Balanced(c)
      BY <2>2, <3>1
    <3>3. x.pos \in positions /\ \A e \in c : e.pos # x.pos
      BY <3>1 DEF ExitsOf
    <3> HIDE DEF x, c
    <3>4. Kept(c) = Kept(m) \cup {x.pos} /\ x.pos \notin Kept(m)
      BY <3>1, <3>3
    <3>5. Booked(m) = Booked(c) \cup {Closed(x, at)} /\ Closed(x, at) \notin Booked(c)
      <4>1. Closed(x, at) \notin trades
        BY <1>0, <1>1, <3>1, <3>3 DEF OpenedOnce
      <4>2. \A e \in c : Closed(e, at) # Closed(x, at)
        <5> TAKE e \in c
        <5>1. e.pos # x.pos /\ e \in exits /\ e.pos \in positions
          BY <3>1, <3>3 DEF ExitsOf
        <5>2. e.pos.opened # x.pos.opened
          BY <1>0, <3>3, <5>1 DEF OpenedOnce
        <5> QED BY <1>1, <3>1, <5>1, <5>2
      <4> QED BY <3>1, <4>1, <4>2
    <3> HIDE DEF R, M, P, Kept, Booked
    <3>6. /\ Sum(R, m) = Sum(R, c) + R[x]
          /\ Sum(R, c) \in Int /\ R[x] \in Int
      BY <1>4, <3>1, SumAdd
    <3>7. /\ Sum(M, Kept(c)) = Sum(M, Kept(m)) + M[x.pos]
          /\ Sum(M, Kept(m)) \in Int /\ M[x.pos] \in Int
      <4>1. IsFiniteSet(Kept(m)) /\ IntegersOn(M, Kept(m) \cup {x.pos})
        BY <1>4, <3>1, <3>4
      <4> QED BY <3>4, <4>1, SumAdd
    <3>8. /\ Sum(P, Booked(m)) = Sum(P, Booked(c)) + P[Closed(x, at)]
          /\ Sum(P, Booked(c)) \in Int /\ P[Closed(x, at)] \in Int
      <4>1. IsFiniteSet(Booked(c)) /\ IntegersOn(P, Booked(c) \cup {Closed(x, at)})
        BY <1>4, <3>1, <3>5
      <4> QED BY <3>5, <4>1, SumAdd
    <3>9. Sum(M, positions) \in Int /\ Sum(P, trades) \in Int
      <4>1. IntegersOn(P, trades)
        BY <1>2 DEF IntegersOn
      <4> QED BY <1>0, <1>2, <4>1, SumInteger
    <3>10. R[x] = M[x.pos] + P[Closed(x, at)]
      BY <1>3, <3>1
    <3>11. Balanced(m)
      <4>1. Sum(R, c) + Sum(M, Kept(c)) + Sum(P, trades) = Sum(M, positions) + Sum(P, Booked(c))
        BY <3>2
      <4> QED BY <3>6, <3>7, <3>8, <3>9, <3>10, <4>1
    <3> QED BY <2>2, <3>11
  <2> QED BY <2>3, <2>4
<1>6. Balanced(exits)
  <2>1. exits \in SUBSET exits
    OBVIOUS
  <2> HIDE DEF Balanced
  <2> QED BY <1>5, <2>1
<1>7. Sum(R, exits) \in Int
  BY <1>0, <1>2, SumInteger
<1> QED BY <1>2, <1>6, <1>7

(* Closing positions, each once, keeps the account in balance.             *)
LEMMA CloseBalances ==
  ASSUME NEW last \in Nat, NEW by \in Nat, Account(last, by),
         NEW now \in Nat, last <= now, NEW upto \in Nat, by <= upto,
         NEW exits, ExitsOf(exits), NEW at \in 1 .. upto, CloseEach(exits, at)
  PROVE  Account(now, upto)' /\ positions' \subseteq positions
<1> DEFINE done == trades \cup {Closed(e, at) : e \in exits}
           kept == positions \ {e.pos : e \in exits}
<1>0. /\ AccountTyped(last, by) /\ OpenedOnce /\ MoneyConserved
      /\ IsFiniteSet(positions) /\ IsFiniteSet(trades) /\ IsFiniteSet(exits)
      /\ config \in Configs /\ cash \in Int
  BY DEF Account, AccountTyped, ExitsOf
<1>1. /\ positions' = kept /\ trades' = done
      /\ cash' = cash + Released(exits) /\ config' = config
  BY DEF CloseEach
<1>2. PositionRecords(last) \subseteq PositionRecords(now)
      /\ TradeRecords(last, by) \subseteq TradeRecords(now, upto)
  BY DEF PositionRecords, TradeRecords
<1>3. ASSUME NEW e \in exits
      PROVE  /\ Closed(e, at) \in TradeRecords(now, upto)
             /\ Closed(e, at).opened = e.pos.opened
  <2>1. e.pos \in PositionRecords(last) /\ e.price \in Int /\ e.reason \in Reasons
    BY <1>0 DEF ExitsOf, AccountTyped
  <2>2. Pnl(e.pos, e.price) \in Int
    BY <1>0, <2>1, PositionValues
  <2>3. e.pos.opened \in 1 .. now /\ e.pos.decided \in 1 .. now
    BY <2>1 DEF PositionRecords
  <2> QED BY <2>1, <2>2, <2>3 DEF Closed, TradeRecords, Reasons
<1>4. IsFiniteSet(kept) /\ IsFiniteSet(done)
  <2>1. IsFiniteSet({Closed(e, at) : e \in exits})
    <3> DEFINE f == [e \in exits |-> Closed(e, at)]
    <3>1. f \in Surjection(exits, {Closed(e, at) : e \in exits})
      BY DEF Surjection
    <3> QED BY <1>0, <3>1, FS_Surjection
  <2> QED BY <1>0, <2>1, FS_Union, FS_Subset
<1>5. Released(exits) = Sum(ReleaseOf(exits), exits)
  BY <1>0, ReleaseSum
<1>6. /\ Sum(ReleaseOf(exits), exits) + Sum(MarginOf(positions), kept) + Sum(PnlOf(done), trades)
           = Sum(MarginOf(positions), positions) + Sum(PnlOf(done), done)
      /\ IntegersOn(PnlOf(done), done) /\ Sum(ReleaseOf(exits), exits) \in Int
  BY ExitsBalance
<1>7. AccountTyped(now, upto)'
  BY <1>0, <1>1, <1>2, <1>3, <1>4, <1>5, <1>6 DEF AccountTyped
<1>8. OpenedOnce'
  <2>1. ASSUME NEW pos \in kept, NEW trade \in done PROVE pos.opened # trade.opened
    <3>1. CASE trade \in trades
      BY <1>0, <3>1 DEF OpenedOnce
    <3>2. CASE trade \notin trades
      <4>1. PICK e \in exits : trade = Closed(e, at)
        BY <3>2
      <4>2. e.pos \in positions /\ e.pos # pos
        BY DEF ExitsOf
      <4> QED BY <1>0, <1>3, <4>1, <4>2 DEF OpenedOnce
    <3> QED BY <3>1, <3>2
  <2>2. \A pos, other \in kept : pos.opened = other.opened => pos = other
    BY <1>0 DEF OpenedOnce
  <2> HIDE DEF kept, done
  <2> QED BY <1>1, <2>1, <2>2 DEF OpenedOnce
<1>9. MoneyConserved'
  <2>1. /\ Sum(MarginOf(positions), kept) = Sum(MarginOf(kept), kept)
        /\ Sum(PnlOf(done), trades) = Sum(PnlOf(trades), trades)
    <3>1. \A pos \in kept : MarginOf(positions)[pos] = MarginOf(kept)[pos]
      BY DEF MarginOf
    <3>2. \A trade \in trades : PnlOf(done)[trade] = PnlOf(trades)[trade]
      BY DEF PnlOf
    <3> HIDE DEF kept, done
    <3> QED BY <1>0, <1>4, <3>1, <3>2, SumSame
  <2>2. /\ Sum(MarginOf(positions), positions) \in Int /\ Sum(MarginOf(kept), kept) \in Int
        /\ Sum(PnlOf(done), done) \in Int /\ Sum(PnlOf(trades), trades) \in Int
    <3>1. IntegersOn(MarginOf(positions), positions) /\ IntegersOn(MarginOf(kept), kept)
          /\ IntegersOn(PnlOf(trades), trades)
      BY <1>0 DEF IntegersOn, MarginOf, PnlOf, AccountTyped, PositionRecords, TradeRecords
    <3> HIDE DEF kept, done
    <3> QED BY <1>0, <1>4, <1>6, <3>1, SumInteger
  <2>3. cash + Sum(MarginOf(positions), positions) = InitialBalance + Sum(PnlOf(trades), trades)
    BY <1>0, MarginSum, PnlSum DEF MoneyConserved
  <2>4. /\ Margins(kept) = Sum(MarginOf(kept), kept)
        /\ Profits(done) = Sum(PnlOf(done), done)
    BY <1>4, MarginSum, PnlSum
  <2>5. InitialBalance \in Int
    BY ConfigAssumption
  <2> HIDE DEF kept, done
  <2>6. cash' + Margins(kept) = InitialBalance + Profits(done)
    BY <1>0, <1>1, <1>5, <1>6, <2>1, <2>2, <2>3, <2>4, <2>5
  <2> QED BY <1>1, <2>6 DEF MoneyConserved
<1> QED BY <1>1, <1>7, <1>8, <1>9 DEF Account

(* The exits of the model are positions, each once.                        *)
LEMMA TriggeredExits ==
  ASSUME NEW last, NEW by, AccountTyped(last, by), NEW high, NEW low
  PROVE  ExitsOf(Triggered(high, low))
<1> DEFINE exits == Triggered(high, low)
<1>1. \A e \in exits :
        \/ /\ e.pos \in positions /\ StopHit(e.pos, high, low)
           /\ e = [pos |-> e.pos, price |-> e.pos.stop, reason |-> "stop_loss"]
        \/ /\ e.pos \in positions /\ TargetHit(e.pos, high, low) /\ ~StopHit(e.pos, high, low)
           /\ e = [pos |-> e.pos, price |-> e.pos.target, reason |-> "take_profit"]
  BY DEF Triggered
<1>2. \A e, f \in exits : e.pos = f.pos => e = f
  <2> TAKE e, f \in exits
  <2> HIDE DEF exits
  <2> HAVE e.pos = f.pos
  <2>1. CASE StopHit(e.pos, high, low)
    <3>1. /\ e = [pos |-> e.pos, price |-> e.pos.stop, reason |-> "stop_loss"]
          /\ f = [pos |-> f.pos, price |-> f.pos.stop, reason |-> "stop_loss"]
      BY <1>1, <2>1
    <3> QED BY <3>1
  <2>2. CASE ~StopHit(e.pos, high, low)
    <3>1. /\ e = [pos |-> e.pos, price |-> e.pos.target, reason |-> "take_profit"]
          /\ f = [pos |-> f.pos, price |-> f.pos.target, reason |-> "take_profit"]
      BY <1>1, <2>2
    <3> QED BY <3>1
  <2> QED BY <2>1, <2>2
<1>3. \A e \in exits : e.pos \in positions /\ e.price \in Int /\ e.reason \in Reasons
  <2> TAKE e \in exits
  <2>1. e.pos \in positions
    BY <1>1
  <2>2. e.pos \in PositionRecords(last)
    BY <2>1 DEF AccountTyped
  <2>3. e.pos.stop \in PriceLevels /\ e.pos.target \in PriceLevels
    BY <2>2 DEF PositionRecords
  <2> HIDE DEF exits
  <2>4. CASE StopHit(e.pos, high, low)
    <3>1. e = [pos |-> e.pos, price |-> e.pos.stop, reason |-> "stop_loss"]
      BY <1>1, <2>4
    <3>2. e.price = e.pos.stop /\ e.reason = "stop_loss"
      BY <3>1
    <3> QED BY <2>1, <2>3, <2>4, <3>2 DEF StopHit, PriceLevels, Reasons
  <2>5. CASE ~StopHit(e.pos, high, low)
    <3>1. /\ e = [pos |-> e.pos, price |-> e.pos.target, reason |-> "take_profit"]
          /\ TargetHit(e.pos, high, low)
      BY <1>1, <2>5
    <3>2. e.price = e.pos.target /\ e.reason = "take_profit"
      BY <3>1
    <3> QED BY <2>1, <2>3, <3>1, <3>2 DEF TargetHit, PriceLevels, Reasons
  <2> QED BY <2>4, <2>5
<1>4. IsFiniteSet(exits)
  <2> DEFINE f == [e \in exits |-> e.pos]
  <2>1. f \in [exits -> positions] /\ IsInjective(f)
    <3>1. \A e \in exits : e.pos \in positions
      BY <1>3
    <3> HIDE DEF exits
    <3> QED BY <1>2, <3>1 DEF IsInjective
  <2>2. f \in Injection(exits, positions)
    <3> HIDE DEF f
    <3> QED BY <2>1 DEF Injection
  <2> HIDE DEF exits, f
  <2> QED BY <2>2, FS_Injection DEF AccountTyped
<1> QED BY <1>2, <1>3, <1>4 DEF ExitsOf

(* What is closed at the market are positions, each once.                  *)
LEMMA MarketExits ==
  ASSUME NEW last, NEW by, AccountTyped(last, by), NEW sides, NEW price \in Nat,
         NEW reason \in Reasons
  PROVE  ExitsOf(ExitsAtMarket(sides, price, reason))
<1> DEFINE exits == ExitsAtMarket(sides, price, reason)
<1>1. \A e \in exits :
        /\ e = [pos |-> e.pos, price |-> ExitPrice(e.pos.side, price), reason |-> reason]
        /\ e.pos \in positions
  BY DEF ExitsAtMarket
<1> HIDE DEF exits
<1>2. \A e, f \in exits : e.pos = f.pos => e = f
  BY <1>1
<1>3. \A e \in exits : e.pos \in positions /\ e.price \in Int /\ e.reason \in Reasons
  <2> TAKE e \in exits
  <2>1. e.price = ExitPrice(e.pos.side, price) /\ e.reason = reason /\ e.pos \in positions
    BY <1>1
  <2>2. ExitPrice(e.pos.side, price) \in Int
    BY PriceTypes DEF AccountTyped
  <2> QED BY <2>1, <2>2
<1>4. IsFiniteSet(exits)
  <2> DEFINE f == [e \in exits |-> e.pos]
  <2>1. f \in [exits -> positions] /\ IsInjective(f)
    BY <1>2, <1>3 DEF IsInjective
  <2>2. f \in Injection(exits, positions)
    <3> HIDE DEF f
    <3> QED BY <2>1 DEF Injection
  <2> HIDE DEF f
  <2> QED BY <2>2, FS_Injection DEF AccountTyped
<1> QED BY <1>2, <1>3, <1>4 DEF ExitsOf, exits

(* Acting on a signal, in a later bar than any position was opened in.     *)
LEMMA FillBalances ==
  ASSUME NEW last \in Nat, NEW by \in Nat, Account(last, by),
         NEW at \in Nat, last < at, NEW upto \in Nat, by <= upto, at <= upto,
         NEW action, NEW price \in Nat, NEW decided \in 1 .. at,
         Fill(action, price, at, decided)
  PROVE  /\ Account(at, upto)'
         /\ positions' \subseteq positions \/ cash' >= 0
<1>1. ASSUME NEW side \in Sides, Open(side, price, at, decided)
      PROVE  /\ Account(at, upto)'
             /\ positions' \subseteq positions \/ cash' >= 0
  BY <1>1, OpenBalances
<1>2. ASSUME NEW side \in Sides, Close(side, price, at)
      PROVE  Account(at, upto)' /\ positions' \subseteq positions
  <2>1. ExitsOf(ExitsAtMarket({side}, price, "strategy_signal"))
    BY MarketExits DEF Account, Reasons
  <2>2. at \in 1 .. upto /\ last <= at
    OBVIOUS
  <2> QED BY <1>2, <2>1, <2>2, CloseBalances DEF Close
<1> QED BY <1>1, <1>2 DEF Fill, Sides

(* A new exchange has nothing but its cash.                                *)
LEMMA NewAccount ==
  ASSUME config \in Configs, cash = InitialBalance, positions = {}, trades = {},
         NEW last, NEW by
  PROVE  Account(last, by)
<1>1. IsFiniteSet(positions) /\ IsFiniteSet(trades)
  BY FS_EmptySet
<1>2. AccountTyped(last, by) /\ OpenedOnce
  BY <1>1, ConfigAssumption DEF AccountTyped, OpenedOnce
<1>3. Sum(MarginOf(positions), positions) = 0 /\ Sum(PnlOf(trades), trades) = 0
  BY SumEmpty
<1>4. MoneyConserved
  BY <1>1, <1>2, <1>3, MarginSum, PnlSum DEF MoneyConserved, AccountTyped
<1> QED BY <1>2, <1>4 DEF Account

=============================================================================
