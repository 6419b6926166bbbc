----------------------------- MODULE RoutingProofs -----------------------------
(***************************************************************************)
(* Proofs about Routing, for any catalog, request, allocation and tick     *)
(* data: a split pays for its gas, and a walk over ticks in step with the  *)
(* price does not stop before it has begun; the depth-first search lists   *)
(* every simple path once, Dijkstra's and Bellman and Ford's find a        *)
(* cheapest one; an answered split spends the input; and the walk takes    *)
(* what the V3 rule takes.                                                 *)
(***************************************************************************)
EXTENDS Routing, NumberSets

-----------------------------------------------------------------------------
\* Every split of a list pays for the gas of its route.
Pays(splits) == \A i \in 1..Len(splits) : ~(NetOut(splits[i]) <= 0)

\* So does every split kept so far; a list of one is answered when none did.
PaysInv ==
    /\ Pays(best)
    /\ answer.status = "split" /\ Len(answer.splits) > 1 => Pays(answer.splits)

\* The search for an unprofitable split finds it.
LEMMA NoneUnprofitable ==
    ASSUME NEW splits, Unprofitable(splits) = 0
    PROVE  Pays(splits)
<1> DEFINE I == {i \in 1..Len(splits) : NetOut(splits[i]) <= 0}
<1>1. Unprofitable(splits) = IF I # {} THEN Min(I) ELSE 0
  BY DEF Unprofitable, SelectInSeq
<1>2. \A i \in I : i \in Nat /\ i # 0
  OBVIOUS
<1> HIDE DEF I
<1>3. I # {} => Min(I) \in I
  <2>1. ASSUME I # {} PROVE \E x \in I : \A y \in I : x <= y
    BY <1>2, <2>1, HasLeast
  <2> QED BY <2>1 DEF Min
<1>4. I = {}
  BY <1>1, <1>2, <1>3
<1> QED BY <1>4 DEF I, Pays

\* The loop ends with a list that pays or with one split.
LEMMA FinishPays ==
    ASSUME NEW b, Finish(b), Pays(b), UNCHANGED gas
    PROVE  (answer.status = "split" /\ Len(answer.splits) > 1 => Pays(answer.splits))'
<1>1. PICK one : answer' = [status |-> "split", splits |-> IF b # <<>> THEN b ELSE <<one>>]
  BY DEF Finish
<1>2. CASE b # <<>>
  <2>1. answer'.splits = b
    BY <1>1, <1>2
  <2> QED BY <2>1 DEF Pays, NetOut
<1>3. CASE b = <<>>
  <2>1. answer'.splits = <<one>>
    BY <1>1, <1>3
  <2> QED BY <2>1
<1> QED BY <1>2, <1>3


\* A turn of the pruning loop keeps what pays.
LEMMA SplitRoundPays ==
    ASSUME PaysInv, NEW w, SplitRound(w)
    PROVE  PaysInv'
<1>1. UNCHANGED gas
  BY DEF SplitRound
<1>2. PICK splits : \/ Finish(best) /\ UNCHANGED best
                    \/ UNCHANGED <<best, answer>>
                    \/ /\ Unprofitable(splits) = 0 /\ best' = splits
                       /\ UNCHANGED answer \/ Finish(splits)
  BY DEF SplitRound
<1>3. PICK b : b = best
  OBVIOUS
<1>4. CASE Finish(best) /\ UNCHANGED best
  BY <1>1, <1>3, <1>4, FinishPays DEF PaysInv, Pays, NetOut
<1>5. CASE UNCHANGED <<best, answer>>
  BY <1>1, <1>5 DEF PaysInv, Pays, NetOut
<1>6. CASE Unprofitable(splits) = 0 /\ best' = splits /\ (UNCHANGED answer \/ Finish(splits))
  <2>1. Pays(splits)
    BY <1>6, NoneUnprofitable
  <2>2. Pays(best)'
    BY <1>1, <1>6, <2>1 DEF Pays, NetOut
  <2>3. CASE UNCHANGED answer
    BY <1>1, <2>2, <2>3 DEF PaysInv, Pays, NetOut
  <2>4. CASE Finish(splits)
    BY <1>1, <2>1, <2>2, <2>4, FinishPays DEF PaysInv
  <2> QED BY <1>6, <2>3, <2>4
<1> QED BY <1>2, <1>4, <1>5, <1>6

\* Every step keeps it.
LEMMA PaysInductive == PaysInv /\ [Next]_vars => PaysInv'
<1> SUFFICES ASSUME PaysInv, [Next]_vars PROVE PaysInv'
  OBVIOUS
<1>1. CASE \E w \in [DOMAIN active -> 0..MaxWeight] : SplitRound(w)
  BY <1>1, SplitRoundPays
<1>2. CASE /\ UNCHANGED <<best, gas>>
           /\ UNCHANGED answer \/ answer'.status # "split"
  BY <1>2 DEF PaysInv, Pays, NetOut
<1>3. CASE RouterNext /\ ~(\E w \in [DOMAIN active -> 0..MaxWeight] : SplitRound(w))
  <2>1. CASE BellmanEnd
    BY <1>2, <2>1 DEF BellmanEnd
  <2>2. CASE StartSplit
    BY <1>2, <2>2 DEF StartSplit
  <2>3. CASE ~BellmanEnd /\ ~StartSplit
    BY <1>2, <1>3, <2>3
      DEF RouterNext, StartDijkstra, DijkstraPop, DijkstraExhausted, StartDfs, DfsEdge,
          DfsReturn, StartBellman, BellmanRound
  <2> QED BY <2>1, <2>2, <2>3
<1>4. CASE UNCHANGED routerVars
  BY <1>2, <1>4 DEF routerVars
<1> QED BY <1>1, <1>3, <1>4 DEF Next, vars

\* For any catalog, request, gas price and allocations: a request is split over
\* several routes only if each of them pays for its own gas.
THEOREM EverySplitPays == Spec => []SplitPaysForGas
<1>1. Init => PaysInv
  BY DEF Init, RouterInit, RouterIdle, PaysInv, Pays
<1>2. PaysInv => SplitPaysForGas
  BY DEF PaysInv, Pays, SplitPaysForGas
<1> QED BY <1>1, <1>2, PaysInductive, PTL DEF Spec

-----------------------------------------------------------------------------
\* The walk.  Jobs stay what they are; before the first turn the walk stands
\* where the job says, and after it something is spent.

WalkJobs == [turbos : BOOLEAN, down : BOOLEAN, price : Coord(TickMin)..Coord(TickMax),
             cur : TickMin..TickMax, liquidity : Liquidities, amount : SwapAmounts,
             ticks : UNION {[S -> Nets] : S \in SUBSET ((TickMin + 1)..(TickMax - 1))}]

Walks == [at : {"start", "loop", "done"}, pos : Int, cur : Int, l : Int, spent : Nat, turns : Nat]

WalkInv ==
    \/ walk = [at |-> "idle"]
    \/ /\ job \in WalkJobs /\ walk \in Walks
       /\ walk.at # "done" =>
            \/ /\ walk.spent = 0 /\ walk.turns = 0
               /\ walk.pos = job.price /\ walk.cur = job.cur /\ walk.l = job.liquidity
            \/ walk.spent > 0
       /\ walk.at = "done" => StuckOnlyWhenStale

\* The ticks of a job lie strictly between the bounds.
LEMMA TickFacts ==
    ASSUME job \in WalkJobs
    PROVE  /\ job.price \in Int /\ job.cur \in Int /\ job.liquidity \in Nat /\ job.amount \in Nat
           /\ 2 * TickMin <= job.price /\ job.price <= 2 * TickMax
           /\ IsFiniteSet(DOMAIN job.ticks)
           /\ \A t \in DOMAIN job.ticks : t \in Int /\ job.ticks[t] \in Int
           /\ \A t \in DOMAIN job.ticks : TickMin < t /\ t < TickMax
<1> USE WalkAssumption
<1>1. /\ job.price \in Int /\ job.cur \in Int /\ job.liquidity \in Nat /\ job.amount \in Nat
      /\ 2 * TickMin <= job.price /\ job.price <= 2 * TickMax
  <2>1. /\ job.price \in (2 * TickMin)..(2 * TickMax) /\ job.cur \in TickMin..TickMax
        /\ job.liquidity \in Liquidities /\ job.amount \in SwapAmounts
    BY DEF WalkJobs, Coord
  <2>2. job.liquidity \in Nat /\ job.amount \in Nat
    BY <2>1
  <2>3. 2 * TickMin \in Int /\ 2 * TickMax \in Int
    OBVIOUS
  <2>4. job.price \in Int /\ 2 * TickMin <= job.price /\ job.price <= 2 * TickMax
    BY <2>1, <2>3
  <2>5. job.cur \in Int
    BY <2>1
  <2> QED BY <2>2, <2>4, <2>5
<1>2. PICK S \in SUBSET ((TickMin + 1)..(TickMax - 1)) : job.ticks \in [S -> Nets]
  BY DEF WalkJobs
<1>3. DOMAIN job.ticks = S /\ (\A t \in S : job.ticks[t] \in Int)
  BY <1>2
<1>4. IsFiniteSet(S)
  <2>1. IsFiniteSet((TickMin + 1)..(TickMax - 1))
    BY FS_Interval
  <2> QED BY <2>1, FS_Subset
<1>5. \A t \in S : t \in Int /\ TickMin < t /\ t < TickMax
  OBVIOUS
<1> QED BY <1>1, <1>3, <1>4, <1>5

\* pick_next_tick returns a tick beyond the current one, if there is any.
LEMMA NextTickFacts ==
    ASSUME job \in WalkJobs, NEW cur \in Int, NEW t, t = NextTick(cur), t # NoTick
    PROVE  /\ t \in DOMAIN job.ticks /\ t \in Int
           /\ IF job.down THEN t < cur ELSE t > cur
<1> DEFINE S == {x \in DOMAIN job.ticks : IF job.down THEN x < cur ELSE x > cur}
<1>1. t = IF S = {} THEN NoTick ELSE IF job.down THEN Max(S) ELSE Min(S)
  BY DEF NextTick
<1>2. S \in SUBSET DOMAIN job.ticks /\ \A x \in S : x \in Int
  BY TickFacts
<1>3. \A x \in S : x \in DOMAIN job.ticks /\ IF job.down THEN x < cur ELSE x > cur
  OBVIOUS
<1> HIDE DEF S
<1>4. IsFiniteSet(S)
  BY <1>2, TickFacts, FS_Subset
<1>5. S # {} => Max(S) \in S /\ Min(S) \in S
  BY <1>2, <1>4, FiniteMin, FiniteMax
<1>6. t \in S
  BY <1>1, <1>5
<1> QED BY <1>2, <1>3, <1>6


\* MaxIter allows a first turn.
LEMMA MaxIterFacts ==
    ASSUME job \in WalkJobs
    PROVE  MaxIter \in Nat /\ MaxIter # 0
<1>1. Cardinality(DOMAIN job.ticks) \in Nat
  BY TickFacts, FS_CardinalityType
<1> QED BY <1>1 DEF MaxIter

\* What a walk steps to is a walk.
LEMMA WalkType ==
    ASSUME walk \in Walks
    PROVE  /\ walk.pos \in Int /\ walk.cur \in Int /\ walk.l \in Int
           /\ walk.spent \in Nat /\ walk.turns \in Nat /\ walk.at \in {"start", "loop", "done"}
  BY DEF Walks

LEMMA BoundsType ==
    ASSUME NEW d
    PROVE  Bounds(d) \in Int
BY WalkAssumption DEF Bounds, Coord

\* From a price in step with the ticks, the first target lies ahead.
LEMMA TargetAhead ==
    ASSUME job \in WalkJobs, InStep, ~Blocked, NEW t, t = NextTick(job.cur),
           NEW target, target = IF t = NoTick THEN Bounds(job.down) ELSE Coord(t)
    PROVE  IF job.down THEN job.price > target ELSE job.price < target
<1>1. /\ job.price \in Int /\ job.cur \in Int
      /\ 2 * TickMin <= job.price /\ job.price <= 2 * TickMax
  BY TickFacts
<1>2. 2 * job.cur <= job.price /\ job.price <= 2 * job.cur + 1
  BY <1>1 DEF InStep
<1>3. CASE t = NoTick
  <2>0. job.down \in BOOLEAN /\ job.turbos \in BOOLEAN
    BY DEF WalkJobs
  <2>1. CASE job.turbos
    <3>1. ~(IF job.down THEN job.price <= target ELSE job.price >= target)
      BY <1>3, <2>0, <2>1 DEF Blocked
    <3>2. target \in Int
      BY <1>3, BoundsType
    <3> QED BY <1>1, <3>1, <3>2
  <2>2. CASE ~job.turbos
    BY <1>1, <1>3, <2>2, WalkAssumption DEF Blocked, Bounds, Coord
  <2> QED BY <2>1, <2>2
<1>4. CASE t # NoTick
  <2>1. t \in Int /\ IF job.down THEN t < job.cur ELSE t > job.cur
    BY <1>1, <1>4, NextTickFacts
  <2> QED BY <1>1, <1>2, <1>4, <2>1 DEF Coord
<1> QED BY <1>3, <1>4

\* A stop before the first turn is excused by the tick data.
LEMMA StopWalkKeeps ==
    ASSUME WalkInv, StopWalk
    PROVE  WalkInv'
<1>1. job \in WalkJobs /\ walk \in Walks /\ walk.at = "loop" /\ UNCHANGED job
      /\ walk' = [walk EXCEPT !.at = "done"]
  BY DEF WalkInv, StopWalk
<1>2. walk' \in Walks /\ walk'.at = "done" /\ walk'.spent = walk.spent
  BY <1>1 DEF Walks
<1>3. ASSUME walk.spent = 0, job.amount > 0, job.liquidity > 0, InStep, ~Blocked
      PROVE  FALSE
  <2>1. /\ walk.turns = 0 /\ walk.pos = job.price /\ walk.cur = job.cur /\ walk.l = job.liquidity
    BY <1>1, <1>3 DEF WalkInv
  <2>2. MaxIter # 0 /\ job.amount \in Nat /\ job.liquidity \in Nat
    BY <1>1, MaxIterFacts, TickFacts
  <2> DEFINE t == NextTick(walk.cur)
             target == IF t = NoTick THEN Bounds(job.down) ELSE Coord(t)
  <2>3. IF job.down THEN job.price > target ELSE job.price < target
    BY <1>1, <1>3, <2>1, TargetAhead
  <2>4. job.price \in Int /\ target \in Int
    <3>1. job.price \in Int /\ job.cur \in Int
      BY <1>1, TickFacts
    <3>2. t # NoTick => t \in Int
      BY <1>1, <2>1, <3>1, NextTickFacts
    <3> QED BY <3>1, <3>2, BoundsType DEF Coord
  <2>5. \/ job.amount = walk.spent \/ walk.turns = MaxIter
        \/ (IF job.down THEN walk.pos <= target ELSE walk.pos >= target)
        \/ walk.l <= 0
    BY DEF StopWalk
  <2> HIDE DEF target
  <2> QED BY <1>3, <2>1, <2>2, <2>3, <2>4, <2>5
<1>4. StuckOnlyWhenStale'
  <2>1. /\ InStep' = InStep /\ Blocked' = Blocked
        /\ job'.amount = job.amount /\ job'.liquidity = job.liquidity
    BY <1>1 DEF InStep, Blocked, Bounds, Coord, NextTick
  <2> QED BY <1>2, <1>3, <2>1 DEF StuckOnlyWhenStale
<1> QED BY <1>1, <1>2, <1>4 DEF WalkInv, WalkJobs

\* A turn spends something.
LEMMA WalkTurnKeeps ==
    ASSUME WalkInv, WalkTurn
    PROVE  WalkInv'
<1> DEFINE t      == NextTick(walk.cur)
           target == IF t = NoTick THEN Bounds(job.down) ELSE Coord(t)
           need   == walk.l * Distance(walk.pos, target)
           rest   == job.amount - walk.spent
<1>1. /\ job \in WalkJobs /\ walk \in Walks /\ walk.at = "loop" /\ UNCHANGED job
      /\ walk.spent < job.amount /\ walk.l > 0
      /\ IF job.down THEN walk.pos > target ELSE walk.pos < target
      /\ walk' = IF rest <= need
                 THEN [walk EXCEPT !.spent = job.amount, !.turns = @ + 1]
                 ELSE [walk EXCEPT !.spent = @ + need, !.turns = @ + 1, !.pos = target,
                                   !.at  = IF t = NoTick THEN "done" ELSE @,
                                   !.cur = IF t = NoTick THEN @ ELSE t,
                                   !.l   = IF t = NoTick THEN @ ELSE Crossed(@, t)]
  BY DEF WalkInv, WalkTurn
<1>2. /\ walk.pos \in Int /\ walk.cur \in Int /\ walk.l \in Int /\ walk.spent \in Nat
      /\ walk.turns \in Nat /\ job.amount \in Nat
  BY <1>1, WalkType, TickFacts
<1>3. t # NoTick => t \in Int /\ t \in DOMAIN job.ticks /\ job.ticks[t] \in Int
  BY <1>1, <1>2, NextTickFacts, TickFacts
<1>4. target \in Int
  BY <1>3, BoundsType DEF Coord
<1> HIDE DEF t, target
<1>5. Distance(walk.pos, target) \in Nat \ {0}
  BY <1>1, <1>2, <1>4 DEF Distance
<1>6. need \in Nat \ {0}
  <2> DEFINE d == Distance(walk.pos, target)
  <2>1. d \in Nat \ {0} /\ walk.l \in Nat \ {0}
    BY <1>1, <1>2, <1>5
  <2> HIDE DEF d
  <2>2. walk.l * d \in Nat \ {0}
    BY <2>1
  <2> QED BY <2>2 DEF d
<1> HIDE DEF need
<1>7. CASE rest <= need
  <2>1. walk' = [walk EXCEPT !.spent = job.amount, !.turns = @ + 1]
    BY <1>1, <1>7
  <2>2. walk' \in Walks /\ walk'.spent = job.amount
    <3>1. walk \in Walks /\ job.amount \in Nat /\ walk.turns + 1 \in Nat
      BY <1>1, <1>2
    <3> QED BY <2>1, <3>1 DEF Walks
  <2>3. walk'.spent > 0
    BY <1>1, <1>2, <2>2
  <2> QED BY <1>1, <2>2, <2>3 DEF WalkInv, WalkJobs, StuckOnlyWhenStale
<1>8. CASE ~(rest <= need)
  <2> DEFINE a == IF t = NoTick THEN "done" ELSE walk.at
             c == IF t = NoTick THEN walk.cur ELSE t
             l == IF t = NoTick THEN walk.l ELSE Crossed(walk.l, t)
  <2>1. walk' = [walk EXCEPT !.spent = @ + need, !.turns = @ + 1, !.pos = target,
                             !.at = a, !.cur = c, !.l = l]
    BY <1>1, <1>8
  <2>2. a \in {"start", "loop", "done"} /\ c \in Int /\ l \in Int
    BY <1>1, <1>2, <1>3 DEF Crossed
  <2> HIDE DEF a, c, l
  <2>3. walk' \in Walks /\ walk'.spent = walk.spent + need
    <3>1. walk \in Walks /\ walk.spent + need \in Nat /\ walk.turns + 1 \in Nat
      BY <1>1, <1>2, <1>6
    <3> QED BY <1>4, <2>1, <2>2, <3>1 DEF Walks
  <2>4. walk'.spent > 0
    BY <1>2, <1>6, <2>3
  <2> QED BY <1>1, <2>3, <2>4 DEF WalkInv, WalkJobs, StuckOnlyWhenStale
<1> QED BY <1>7, <1>8

\* Without ticks the whole input is taken at once.
LEMMA StartWalkKeeps ==
    ASSUME WalkInv, StartWalk
    PROVE  WalkInv'
<1> DEFINE sp == IF job.liquidity = 0 THEN 0 ELSE job.amount
<1>1. /\ job \in WalkJobs /\ walk \in Walks /\ walk.at = "start" /\ UNCHANGED job
      /\ walk' = IF DOMAIN job.ticks = {} \/ job.amount = 0
                 THEN [walk EXCEPT !.at = "done", !.spent = sp]
                 ELSE [walk EXCEPT !.at = "loop"]
  BY DEF WalkInv, StartWalk
<1>2. job.amount \in Nat /\ job.liquidity \in Nat
  BY <1>1, TickFacts
<1>3. CASE DOMAIN job.ticks = {} \/ job.amount = 0
  <2>1. walk' = [walk EXCEPT !.at = "done", !.spent = sp]
    BY <1>1, <1>3
  <2>2. walk' \in Walks /\ walk'.spent = sp
    BY <1>1, <1>2, <2>1 DEF Walks
  <2>3. StuckOnlyWhenStale'
    BY <1>1, <1>2, <2>2 DEF StuckOnlyWhenStale
  <2>4. walk'.at = "done"
    BY <1>1, <2>1 DEF Walks
  <2> QED BY <1>1, <2>2, <2>3, <2>4 DEF WalkInv, WalkJobs
<1>4. CASE ~(DOMAIN job.ticks = {} \/ job.amount = 0)
  <2>1. walk' = [walk EXCEPT !.at = "loop"]
    BY <1>1, <1>4
  <2>2. /\ walk' \in Walks /\ walk'.spent = walk.spent /\ walk'.turns = walk.turns
        /\ walk'.pos = walk.pos /\ walk'.cur = walk.cur /\ walk'.l = walk.l /\ walk'.at = "loop"
    BY <1>1, <2>1 DEF Walks
  <2> QED BY <1>1, <2>2 DEF WalkInv, WalkJobs
<1> QED BY <1>3, <1>4

\* Every step keeps it.
LEMMA WalkInductive == WalkInv /\ [Next]_vars => WalkInv'
<1> SUFFICES ASSUME WalkInv, [Next]_vars PROVE WalkInv'
  OBVIOUS
<1>1. CASE TickNext
  BY <1>1, StartWalkKeeps, StopWalkKeeps, WalkTurnKeeps DEF TickNext
<1>2. CASE UNCHANGED tickVars
  BY <1>2 DEF tickVars, WalkInv, WalkJobs, StuckOnlyWhenStale, InStep, Blocked, Bounds, Coord, NextTick
<1> QED BY <1>1, <1>2 DEF Next, vars

\* For any bounds, ticks, liquidity and amounts: a swap that takes nothing
\* started on tick data out of step with the price, at the price bound, or, in a
\* Turbos pool, with no tick ahead at or past the bound the code gives it.
THEOREM EarlyStopMeansStale == Spec => []StuckOnlyWhenStale
<1>1. Init => WalkInv
  <2>1. CASE TickIdle
    BY <2>1 DEF TickIdle, WalkInv
  <2>2. CASE TickInit
    <3>1. job \in WalkJobs
      BY <2>2 DEF TickInit, WalkJobs
    <3>2. job.price \in Int /\ job.cur \in Int /\ job.liquidity \in Nat
      BY <3>1, TickFacts
    <3> QED BY <2>2, <3>1, <3>2 DEF TickInit, WalkInv, Walks
  <2> QED BY <2>1, <2>2 DEF Init
<1>2. WalkInv => StuckOnlyWhenStale
  BY DEF WalkInv, StuckOnlyWhenStale
<1> QED BY <1>1, <1>2, WalkInductive, PTL DEF Spec

-----------------------------------------------------------------------------
\* The graph.  An adjacency list holds the hops that the pools allow from its
\* token, and no hop to another token twice.

\* h is a hop from t through the i-th pool.
HopOf(i, t, h) ==
    /\ ~pools[i].paused
    /\ \/ pools[i].a = t /\ h = Hop(pools[i], t, pools[i].b)
       \/ pools[i].b = t /\ h = Hop(pools[i], t, pools[i].a)

LEMMA CatalogFacts ==
    ASSUME pools \in Catalogs
    PROVE  /\ IsSeq(pools) /\ Len(pools) \in Nat /\ DOMAIN pools = 1..Len(pools)
           /\ \A i \in DOMAIN pools : /\ pools[i].fee \in 0..FeeScale /\ pools[i].paused \in BOOLEAN
                                      /\ pools[i].x \in Nat /\ pools[i].y \in Nat
           /\ \A i, j \in DOMAIN pools : pools[i].id = pools[j].id => i = j
<1>1. pools \in Seq(ToSet(pools))
  BY RouterAssumption
<1>2. Len(pools) \in Nat /\ DOMAIN pools = 1..Len(pools) /\ IsSeq(pools)
  BY <1>1, InSeq
<1> QED BY <1>2, RouterAssumption

LEMMA HopFields ==
    ASSUME NEW p, NEW t, NEW u
    PROVE  /\ Hop(p, t, u).pool = p.id /\ Hop(p, t, u).from = t /\ Hop(p, t, u).to = u
           /\ Hop(p, t, u).fee = p.fee
BY DEF Hop

LEMMA HopIn ==
    ASSUME NEW h, NEW t
    PROVE  (h \in AllHops /\ h.from = t) <=> \E i \in DOMAIN pools : HopOf(i, t, h)
<1>1. h \in AllHops <=> \E i \in DOMAIN pools : ~pools[i].paused
                          /\ (h = Hop(pools[i], pools[i].a, pools[i].b) \/ h = Hop(pools[i], pools[i].b, pools[i].a))
  BY DEF AllHops
<1> QED BY <1>1, HopFields DEF HopOf

\* What one pool adds.
LEMMA HopsFromFacts ==
    ASSUME NEW i \in DOMAIN pools, pools[i].paused \in BOOLEAN, NEW t
    PROVE  LET s == HopsFrom(pools[i], t)
           IN /\ IsSeq(s) /\ Len(s) \in Nat
              /\ \A j \in 1..Len(s) : HopOf(i, t, s[j])
              /\ \A h : HopOf(i, t, h) => \E j \in 1..Len(s) : s[j] = h
              /\ \A j, l \in 1..Len(s) : s[j].to # t => j = l
<1> DEFINE p == pools[i]
           x == Hop(p, t, p.b)
           y == Hop(p, t, p.a)
           u == IF p.a = t THEN <<x>> ELSE <<>>
           v == IF p.b = t THEN <<y>> ELSE <<>>
           s == HopsFrom(p, t)
<1>0. x.to = p.b /\ y.to = p.a
  BY HopFields
<1>1. s = IF p.paused THEN <<>> ELSE u \o v
  BY DEF HopsFrom
<1>2. ASSUME p.paused PROVE IsSeq(s) /\ Len(s) = 0 /\ \A h : ~HopOf(i, t, h)
  BY <1>1, <1>2, EmptyFacts DEF HopOf
<1>3. \A h : HopOf(i, t, h) <=> ~p.paused /\ ((p.a = t /\ h = x) \/ (p.b = t /\ h = y))
  BY DEF HopOf
<1> HIDE DEF x, y, p, s
<1>4. \A z : IsSeq(<<z>>) /\ Len(<<z>>) = 1 /\ <<z>>[1] = z
  <2> TAKE z
  <2>1. <<z>> \in Seq({z}) /\ Len(<<z>>) = 1 /\ <<z>>[1] = z
    OBVIOUS
  <2> QED BY <2>1, InSeq
<1>5. IsSeq(u) /\ IsSeq(v)
  BY <1>4, EmptyFacts
<1>6. ASSUME ~p.paused
      PROVE  /\ s = u \o v /\ IsSeq(s) /\ Len(s) = Len(u) + Len(v)
             /\ \A j \in 1..Len(u) : s[j] = u[j]
             /\ \A j \in 1..Len(v) : s[Len(u) + j] = v[j]
  <2> HIDE DEF u, v
  <2> QED BY <1>1, <1>5, <1>6, ConcatFacts
<1>7. CASE ~p.paused /\ p.a = t /\ p.b = t
  <2>1. Len(u) = 1 /\ u[1] = x /\ Len(v) = 1 /\ v[1] = y
    BY <1>4, <1>7
  <2> HIDE DEF u, v
  <2>2. IsSeq(s) /\ Len(s) = 2 /\ s[1] = x /\ s[2] = y
    BY <1>6, <1>7, <2>1
  <2>3. x.to = t /\ y.to = t
    BY <1>0, <1>7
  <2>4. \A j \in 1..Len(s) : j = 1 \/ j = 2
    BY <2>2
  <2> QED BY <1>3, <1>7, <2>2, <2>3, <2>4 DEF p, s
<1>8. CASE ~p.paused /\ p.a = t /\ p.b # t
  <2>1. Len(u) = 1 /\ u[1] = x /\ Len(v) = 0
    BY <1>4, <1>8, EmptyFacts
  <2> HIDE DEF u, v
  <2>2. IsSeq(s) /\ Len(s) = 1 /\ s[1] = x
    BY <1>6, <1>8, <2>1
  <2>3. \A j \in 1..Len(s) : j = 1
    BY <2>2
  <2> QED BY <1>3, <1>8, <2>2, <2>3 DEF p, s
<1>9. CASE ~p.paused /\ p.a # t /\ p.b = t
  <2>1. Len(u) = 0 /\ Len(v) = 1 /\ v[1] = y
    BY <1>4, <1>9, EmptyFacts
  <2> HIDE DEF u, v
  <2>2. IsSeq(s) /\ Len(s) = 1 /\ s[1] = y
    BY <1>6, <1>9, <2>1
  <2>3. \A j \in 1..Len(s) : j = 1
    BY <2>2
  <2> QED BY <1>3, <1>9, <2>2, <2>3 DEF p, s
<1>10. CASE ~p.paused /\ p.a # t /\ p.b # t
  <2>1. Len(u) = 0 /\ Len(v) = 0
    BY <1>10, EmptyFacts
  <2> HIDE DEF u, v
  <2>2. IsSeq(s) /\ Len(s) = 0
    BY <1>6, <1>10, <2>1
  <2> QED BY <1>3, <1>10, <2>2 DEF p, s
<1>11. CASE p.paused
  <2>1. \A j \in 1..Len(s) : FALSE
    BY <1>2, <1>11
  <2> QED BY <1>2, <1>11, <2>1 DEF p, s
<1>12. p.paused \in BOOLEAN
  BY DEF p
<1> QED BY <1>7, <1>8, <1>9, <1>10, <1>11, <1>12

\* s lists the hops from t through the first k pools.
EdgesOf(s, k, t) ==
    /\ IsSeq(s)
    /\ \A j \in 1..Len(s) : \E i \in 1..k : HopOf(i, t, s[j])
    /\ \A i \in 1..k : \A h : HopOf(i, t, h) => \E j \in 1..Len(s) : s[j] = h
    /\ \A j, l \in 1..Len(s) : s[j] = s[l] /\ s[j].to # t => j = l

LEMMA EdgesStep ==
    ASSUME pools \in Catalogs, NEW k \in DOMAIN pools, NEW t, NEW s, EdgesOf(s, k - 1, t)
    PROVE  EdgesOf(s \o HopsFrom(pools[k], t), k, t)
<1> DEFINE u == HopsFrom(pools[k], t)
           r == s \o u
<1>0. /\ k \in Nat /\ DOMAIN pools = 1..Len(pools) /\ Len(pools) \in Nat /\ k \in 1..k
      /\ pools[k].paused \in BOOLEAN /\ \A i \in 1..(k - 1) : i \in 1..k /\ i \in DOMAIN pools /\ i # k
  BY CatalogFacts
<1>1. /\ IsSeq(u) /\ Len(u) \in Nat
      /\ \A j \in 1..Len(u) : HopOf(k, t, u[j])
      /\ \A h : HopOf(k, t, h) => \E j \in 1..Len(u) : u[j] = h
      /\ \A j, l \in 1..Len(u) : u[j].to # t => j = l
  BY <1>0, HopsFromFacts
<1>2. IsSeq(s) /\ Len(s) \in Nat
  BY SeqFacts DEF EdgesOf
<1> HIDE DEF u
<1>3. /\ IsSeq(r) /\ Len(r) = Len(s) + Len(u)
      /\ \A j \in 1..Len(s) : r[j] = s[j] /\ j \in 1..Len(r)
      /\ \A j \in 1..Len(u) : r[Len(s) + j] = u[j] /\ Len(s) + j \in 1..Len(r)
  BY <1>1, <1>2, ConcatFacts
<1>4. \A j \in 1..Len(r) : j \in 1..Len(s) \/ \E l \in 1..Len(u) : j = Len(s) + l
  <2> TAKE j \in 1..Len(r)
  <2>1. j \in 1..Len(s) \/ (j - Len(s) \in 1..Len(u) /\ j = Len(s) + (j - Len(s)))
    BY <1>1, <1>2, <1>3
  <2> QED BY <2>1
<1> HIDE DEF r
<1>5. ASSUME NEW j \in 1..Len(r) PROVE \E i \in 1..k : HopOf(i, t, r[j])
  <2>1. CASE j \in 1..Len(s)
    BY <1>0, <1>3, <2>1 DEF EdgesOf
  <2>2. CASE \E l \in 1..Len(u) : j = Len(s) + l
    BY <1>0, <1>1, <1>3, <2>2
  <2> QED BY <1>4, <2>1, <2>2
<1>6. ASSUME NEW i \in 1..k, NEW h, HopOf(i, t, h) PROVE \E j \in 1..Len(r) : r[j] = h
  <2>1. CASE i = k
    BY <1>1, <1>3, <1>6, <2>1
  <2>2. CASE i \in 1..(k - 1)
    BY <1>3, <1>6, <2>2 DEF EdgesOf
  <2> QED BY <1>0, <2>1, <2>2
<1>7. ASSUME NEW j \in 1..Len(r), NEW l \in 1..Len(r), r[j] = r[l], r[j].to # t PROVE j = l
  <2>1. ASSUME NEW x \in 1..Len(s), NEW y \in 1..Len(u) PROVE s[x] # u[y]
    <3>1. PICK i \in 1..(k - 1) : HopOf(i, t, s[x])
      BY DEF EdgesOf
    <3>2. s[x].pool = pools[i].id
      BY <3>1, HopFields DEF HopOf
    <3>3. u[y].pool = pools[k].id
      BY <1>1, HopFields DEF HopOf
    <3>4. pools[i].id # pools[k].id
      BY <1>0, CatalogFacts
    <3> QED BY <3>2, <3>3, <3>4
  <2>2. CASE j \in 1..Len(s) /\ l \in 1..Len(s)
    BY <1>3, <1>7, <2>2 DEF EdgesOf
  <2>3. CASE j \in 1..Len(s) /\ \E y \in 1..Len(u) : l = Len(s) + y
    BY <1>3, <1>7, <2>1, <2>3
  <2>4. CASE l \in 1..Len(s) /\ \E y \in 1..Len(u) : j = Len(s) + y
    BY <1>3, <1>7, <2>1, <2>4
  <2>5. CASE (\E y \in 1..Len(u) : l = Len(s) + y) /\ (\E y \in 1..Len(u) : j = Len(s) + y)
    <3>1. PICK y \in 1..Len(u) : l = Len(s) + y
      BY <2>5
    <3>2. PICK z \in 1..Len(u) : j = Len(s) + z
      BY <2>5
    <3>3. y = z
      BY <1>1, <1>3, <1>7, <3>1, <3>2
    <3> QED BY <3>1, <3>2, <3>3
  <2> QED BY <1>4, <2>2, <2>3, <2>4, <2>5
<1> QED BY <1>3, <1>5, <1>6, <1>7 DEF EdgesOf, r, u

LEMMA EdgesFacts ==
    ASSUME pools \in Catalogs, NEW t
    PROVE  EdgesOf(Edges(pools, t), Len(pools), t)
<1> DEFINE n == Len(pools)
           H == AllHops
           D == Seq(H)
           z == <<>>
           P(f) == f = [k \in 0..n |-> IF k = 0 THEN <<>>
                                       ELSE CHOOSE r \in {a \o HopsFrom(pools[k], t) : a \in {f[k - 1]}} : TRUE]
           c == CHOOSE f : P(f)
           step == [k \in 1..n |-> [x \in D |-> x \o HopsFrom(pools[k], t)]]
<1>0. n \in Nat /\ DOMAIN pools = 1..n
  BY CatalogFacts
<1>1. Edges(pools, t) = c[n]
  BY DEF Edges, Fold
<1>2. \A k, x : (CHOOSE r \in {a \o HopsFrom(pools[k], t) : a \in {x}} : TRUE) = x \o HopsFrom(pools[k], t)
  OBVIOUS
<1>3. ASSUME NEW k \in 1..n PROVE HopsFrom(pools[k], t) \in Seq(H)
  <2> DEFINE s == HopsFrom(pools[k], t)
  <2>1. IsSeq(s) /\ Len(s) \in Nat /\ \A j \in 1..Len(s) : s[j] \in H
    <3>1. IsSeq(s) /\ Len(s) \in Nat /\ \A j \in 1..Len(s) : HopOf(k, t, s[j])
      BY <1>0, CatalogFacts, HopsFromFacts
    <3> HIDE DEF s
    <3> QED BY <1>0, <3>1, HopIn
  <2> HIDE DEF s, H
  <2>2. s \in Seq(H)
    BY <2>1, IsSeqIn
  <2> QED BY <2>2 DEF s
<1>4. z \in D /\ step \in Steps(D, n)
  <2> HIDE DEF H
  <2> QED BY <1>3 DEF Steps
<1>5. \A k \in 1..n : \A x \in D : step[k][x] = x \o HopsFrom(pools[k], t)
  OBVIOUS
<1> HIDE DEF step, D, z
<1>6. PICK g : Runs(g, D, z, n, step)
  BY <1>0, <1>4, LoopExists
<1>7. P(g)
  <2>1. g = [k \in 0..n |-> g[k]] /\ g[0] = <<>>
    BY <1>6 DEF Runs, z
  <2>2. ASSUME NEW k \in 1..n
        PROVE  g[k] = CHOOSE r \in {a \o HopsFrom(pools[k], t) : a \in {g[k - 1]}} : TRUE
    <3>1. k - 1 \in 0..n
      BY <1>0
    <3>2. g[k - 1] \in D /\ g[k] = step[k][g[k - 1]]
      BY <1>6, <3>1 DEF Runs
    <3>3. g[k] = g[k - 1] \o HopsFrom(pools[k], t)
      BY <1>5, <3>2
    <3> QED BY <1>2, <3>3
  <2>3. \A k \in 0..n : k = 0 \/ k \in 1..n
    BY <1>0
  <2> QED BY <2>1, <2>2, <2>3, Zenon
<1>8. P(c)
  <2> HIDE DEF P
  <2> QED BY <1>7
<1> HIDE DEF c
<1>9. Follows(c, D, z, n, step)
  <2>0. 0 \in 0..n
    BY <1>0
  <2>1. c = [k \in 0..n |-> c[k]]
    BY <1>8, Zenon
  <2>2. \A k \in 1..n : k \in 0..n /\ k # 0
    BY <1>0
  <2>3. c[0] = <<>>
    BY <1>8, <2>0, Zenon
  <2>4. \A k \in 1..n : c[k] = CHOOSE r \in {a \o HopsFrom(pools[k], t) : a \in {c[k - 1]}} : TRUE
    BY <1>8, <2>2, Zenon
  <2> HIDE DEF P
  <2>5. \A k \in 1..n : c[k] = c[k - 1] \o HopsFrom(pools[k], t)
    BY <1>2, <2>4, Zenon
  <2> QED BY <1>5, <2>1, <2>3, <2>5 DEF z, Follows
<1>10. Runs(c, D, z, n, step)
  BY <1>0, <1>4, <1>9, LoopRuns
<1>11. c[0] = <<>> /\ \A k \in 1..n : c[k] = c[k - 1] \o HopsFrom(pools[k], t)
  <2>1. c \in [0..n -> D] /\ c[0] = z /\ \A k \in 1..n : c[k] = step[k][c[k - 1]]
    BY <1>10 DEF Runs
  <2>2. ASSUME NEW k \in 1..n PROVE c[k] = c[k - 1] \o HopsFrom(pools[k], t)
    <3>1. k - 1 \in 0..n
      BY <1>0
    <3> QED BY <1>5, <2>1, <3>1
  <2> QED BY <2>1, <2>2 DEF z
<1> HIDE DEF P, n
<1> DEFINE S == {k \in 0..n : EdgesOf(c[k], k, t)}
<1>12. 0 \in S
  <2>1. \A j \in 1..0 : FALSE
    OBVIOUS
  <2> QED BY <1>0, <1>11, <2>1, EmptyFacts DEF EdgesOf
<1>13. ASSUME NEW k \in 1..n, k - 1 \in S PROVE k \in S
  <2>1. EdgesOf(c[k - 1], k - 1, t)
    BY <1>13
  <2>2. EdgesOf(c[k - 1] \o HopsFrom(pools[k], t), k, t)
    BY <1>0, <2>1, EdgesStep
  <2>3. c[k] = c[k - 1] \o HopsFrom(pools[k], t) /\ k \in 0..n
    BY <1>0, <1>11
  <2>4. EdgesOf(c[k], k, t)
    BY <2>2, <2>3
  <2> QED BY <2>3, <2>4
<1>14. \A k \in 0..n : k \in S
  <2> HIDE DEF S, n
  <2> QED BY <1>0, <1>12, <1>13, Induct
<1>15. n \in S
  BY <1>0, <1>14
<1> QED BY <1>1, <1>15 DEF n

-----------------------------------------------------------------------------
\* The simulation of a route yields a number.

LEMMA PoolOfHop ==
    ASSUME pools \in Catalogs, NEW h \in AllHops
    PROVE  \E i \in DOMAIN pools : PoolOf(h) = pools[i] /\ ~pools[i].paused
<1>1. PICK i \in DOMAIN pools : HopOf(i, h.from, h)
  BY HopIn
<1>2. h.pool = pools[i].id /\ ~pools[i].paused
  BY <1>1, HopFields DEF HopOf
<1>3. \A j \in DOMAIN pools : pools[j].id = h.pool => j = i
  BY <1>2, CatalogFacts
<1>4. PoolOf(h) = pools[i]
  BY <1>2, <1>3 DEF PoolOf
<1> QED BY <1>2, <1>4

Rationals == Nat \X (Nat \ {0})

LEMMA SwapOutType ==
    ASSUME pools \in Catalogs, NEW h \in AllHops, NEW amt \in Rationals
    PROVE  SwapOut(amt, h) \in Rationals
<1>1. PICK i \in DOMAIN pools : PoolOf(h) = pools[i]
  BY PoolOfHop
<1>2. PICK p : p = PoolOf(h)
  OBVIOUS
<1>3. p.x \in Nat /\ p.y \in Nat /\ p.fee \in 0..FeeScale /\ FeeScale \in Nat \ {0}
  BY <1>1, <1>2, CatalogFacts, RouterAssumption
<1>4. PICK a \in Nat : a = amt[1]
  BY DEF Rationals
<1>5. PICK b \in Nat \ {0} : b = amt[2]
  BY DEF Rationals
<1>6. PICK in \in Nat : in = IF h.from = p.a THEN p.x ELSE p.y
  BY <1>3
<1>7. PICK out \in Nat : out = IF h.from = p.a THEN p.y ELSE p.x
  BY <1>3
<1>8. PICK net \in Nat : net = a * (FeeScale - p.fee)
  <2>1. PICK f \in Nat : f = FeeScale - p.fee
    BY <1>3
  <2>2. a * f \in Nat
    OBVIOUS
  <2> QED BY <2>1, <2>2
<1>9. SwapOut(amt, h) = IF net = 0 \/ in = 0 THEN <<0, 1>>
                        ELSE <<out * net, in * b * FeeScale + net>>
  BY <1>2, <1>4, <1>5, <1>6, <1>7, <1>8 DEF SwapOut
<1>10. out * net \in Nat
  OBVIOUS
<1>11. in * b \in Nat
  OBVIOUS
<1>12. PICK m \in Nat : m = in * b
  BY <1>11
<1>13. m * FeeScale \in Nat
  BY <1>3
<1>14. net # 0 => in * b * FeeScale + net \in Nat \ {0}
  BY <1>12, <1>13
<1> QED BY <1>9, <1>10, <1>14 DEF Rationals

LEMMA RouteOutType ==
    ASSUME pools \in Catalogs, NEW r \in Seq(AllHops), NEW amt \in Rationals
    PROVE  RouteOut(r, amt) \in Nat
<1> DEFINE n == Len(r)
           H == AllHops
           D == Rationals
           z == amt
           P(f) == f = [k \in 0..n |-> IF k = 0 THEN amt
                                       ELSE CHOOSE x \in {SwapOut(a, r[k]) : a \in {f[k - 1]}} : TRUE]
           c == CHOOSE f : P(f)
           step == [k \in 1..n |-> [x \in D |-> SwapOut(x, r[k])]]
<1>0. n \in Nat /\ \A k \in 1..n : r[k] \in H
  OBVIOUS
<1>1. Fold(SwapOut, amt, r) = c[n]
  BY DEF Fold
<1> HIDE DEF n, H
<1>2. \A k, x : (CHOOSE y \in {SwapOut(a, r[k]) : a \in {x}} : TRUE) = SwapOut(x, r[k])
  OBVIOUS
<1>3. z \in D /\ step \in Steps(D, n)
  BY <1>0, SwapOutType DEF Steps, H
<1>4. \A k \in 1..n : \A x \in D : step[k][x] = SwapOut(x, r[k])
  OBVIOUS
<1> HIDE DEF step, D, z
<1>5. PICK g : Runs(g, D, z, n, step)
  BY <1>0, <1>3, LoopExists
<1>6. P(g)
  <2>1. g = [k \in 0..n |-> g[k]] /\ g[0] = amt
    BY <1>5 DEF Runs, z
  <2>2. ASSUME NEW k \in 1..n
        PROVE  g[k] = CHOOSE x \in {SwapOut(a, r[k]) : a \in {g[k - 1]}} : TRUE
    <3>1. k - 1 \in 0..n
      BY <1>0
    <3>2. g[k - 1] \in D /\ g[k] = step[k][g[k - 1]]
      BY <1>5, <3>1 DEF Runs
    <3>3. g[k] = SwapOut(g[k - 1], r[k])
      BY <1>4, <3>2
    <3> QED BY <1>2, <3>3
  <2>3. \A k \in 0..n : k = 0 \/ k \in 1..n
    BY <1>0
  <2> QED BY <2>1, <2>2, <2>3, Zenon
<1>7. P(c)
  <2> HIDE DEF P
  <2> QED BY <1>6
<1> HIDE DEF c
<1>8. Follows(c, D, z, n, step)
  <2>0. 0 \in 0..n
    BY <1>0
  <2>1. c = [k \in 0..n |-> c[k]]
    BY <1>7, Zenon
  <2>2. \A k \in 1..n : k \in 0..n /\ k # 0
    BY <1>0
  <2>3. c[0] = amt
    BY <1>7, <2>0, Zenon
  <2>4. \A k \in 1..n : c[k] = CHOOSE x \in {SwapOut(a, r[k]) : a \in {c[k - 1]}} : TRUE
    BY <1>7, <2>2, Zenon
  <2> HIDE DEF P
  <2>5. \A k \in 1..n : c[k] = SwapOut(c[k - 1], r[k])
    BY <1>2, <2>4, Zenon
  <2> QED BY <1>4, <2>1, <2>3, <2>5 DEF z, Follows
<1>9. Runs(c, D, z, n, step)
  BY <1>0, <1>3, <1>8, LoopRuns
<1> HIDE DEF P
<1>10. c[n] \in Rationals
  BY <1>0, <1>9 DEF Runs, D
<1>11. PICK o \in Rationals : o = Fold(SwapOut, amt, r)
  BY <1>1, <1>10
<1>12. o[1] \in Nat /\ o[2] \in Nat \ {0}
  BY DEF Rationals
<1>13. o[1] \div o[2] \in Nat
  BY <1>12, DivFacts
<1> QED BY <1>11, <1>13 DEF RouteOut

-----------------------------------------------------------------------------
\* The split

\* The routes a split may use.
Short == {r \in Seq(AllHops) : Len(r) <= SplitHops}

\* A split of the whole amount, and of no more where f64 is exact enough.
Spends(splits) ==
    /\ IsSeq(splits) /\ SumIn(splits) >= query.amount
    /\ query.amount <= Exact => SumIn(splits) = query.amount
    /\ \A i \in 1..Len(splits) : splits[i].in \in Nat \ {0} /\ splits[i].route \in Short

LEMMA SplitFields ==
    ASSUME NEW r, NEW in, NEW out
    PROVE  Split(r, in, out).route = r /\ Split(r, in, out).in = in
BY DEF Split

LEMMA OneSpends ==
    ASSUME NEW r \in Short, NEW out, query.amount \in Nat \ {0}
    PROVE  Spends(<<Split(r, query.amount, out)>>)
<1>1. PICK s : s = Split(r, query.amount, out)
  OBVIOUS
<1>2. s.in = query.amount /\ s.route = r
  BY <1>1, SplitFields
<1>3. <<s>> \in Seq({s}) /\ Len(<<s>>) = 1 /\ <<s>>[1] = s /\ DOMAIN <<s>> = 1..1
  OBVIOUS
<1>4. IsSeq(<<s>>)
  BY <1>3, InSeq
<1>5. PICK v : v = [i \in DOMAIN <<s>> |-> <<s>>[i].in]
  OBVIOUS
<1>6. v \in [1..1 -> Int] /\ v[1] = query.amount
  BY <1>2, <1>3, <1>5
<1>7. PICK a \in Nat : a = query.amount
  OBVIOUS
<1> DEFINE g == [k \in 0..1 |-> IF k = 0 THEN 0 ELSE a]
<1>8. g \in [0..1 -> Int] /\ g[0] = 0 /\ g[1] = a /\ \A k \in 1..1 : k = 1 /\ k - 1 = 0
  OBVIOUS
<1>9. \A k \in 1..1 : g[k] = g[k - 1] + v[k]
  BY <1>6, <1>7, <1>8
<1>10. Total(v) = g[1]
  <2> HIDE DEF g
  <2> QED BY <1>6, <1>8, <1>9, TotalIs
<1>11. SumIn(<<s>>) = query.amount
  BY <1>5, <1>7, <1>8, <1>10 DEF SumIn
<1>12. SumIn(<<s>>) >= query.amount
  BY <1>11
<1> QED BY <1>1, <1>2, <1>3, <1>4, <1>11, <1>12 DEF Spends

\* A share as the f64 arithmetic gives it.
LEMMA ShareFacts ==
    ASSUME NEW n \in Nat, NEW w \in [1..n -> Nat], NEW e \in [1..n -> Errors], Total(w) \in Nat \ {0},
           query.amount \in Nat, NEW i \in 1..n
    PROVE  /\ Shares(w, e)[i] \in Nat
           /\ query.amount <= Exact => Shares(w, e)[i] <= query.amount * w[i]
<1>1. PICK A \in Nat : A = query.amount
  OBVIOUS
<1>2. PICK T \in Nat \ {0} : T = Total(w)
  OBVIOUS
<1>3. PICK x \in Nat : x = w[i]
  OBVIOUS
<1>4. e[i] \in Int /\ (A <= Exact => e[i] <= 0)
  BY <1>1, RouterAssumption DEF Errors
<1>5. PICK y \in Int : y = e[i] /\ (A <= Exact => y <= 0)
  BY <1>4
<1>6. PICK p \in Nat : p = x * A /\ p = A * x
  OBVIOUS
<1>7. PICK q \in Int : q = y * T /\ (y <= 0 => q <= 0)
  OBVIOUS
<1>8. Shares(w, e)[i] = IF x = 0 \/ p + q < 0 THEN 0 ELSE p + q
  BY <1>1, <1>2, <1>3, <1>5, <1>6, <1>7 DEF Shares
<1>9. PICK h \in Nat : h = Shares(w, e)[i] /\ (A <= Exact => h <= p)
  <2>1. A <= Exact => q <= 0
    BY <1>5, <1>7
  <2>2. PICK z : z = p + q /\ z \in Int /\ (A <= Exact => z <= p)
    BY <2>1
  <2> QED BY <1>8, <2>2
<1>10. query.amount * w[i] = p
  BY <1>1, <1>3, <1>6
<1> QED BY <1>1, <1>9, <1>10

\* Allocations are shares rounded down, those of nothing left out.
LEMMA AllocSpends ==
    ASSUME NEW n \in Nat, NEW rs \in Seq(Short), Len(rs) = n, NEW w \in [1..n -> Nat],
           NEW e \in [1..n -> Errors], Total(w) # 0, query.amount \in Nat
    PROVE  LET share == Shares(w, e)
               alloc == [i \in DOMAIN rs |->
                           Split(rs[i], share[i] \div Total(w), RouteOut(rs[i], <<share[i], Total(w)>>))]
               f == Filter(alloc, {s \in ToSet(alloc) : s.in > 0})
           IN /\ IsSeq(f) /\ SumIn(f) \in Int /\ (query.amount <= Exact => SumIn(f) <= query.amount)
              /\ \A i \in 1..Len(f) : f[i].in \in Nat \ {0} /\ f[i].route \in Short
<1> DEFINE A == query.amount
           T == Total(w)
           h == Shares(w, e)
           in(i) == h[i] \div T
           alloc == [i \in DOMAIN rs |-> Split(rs[i], h[i] \div T, RouteOut(rs[i], <<h[i], T>>))]
           X == ToSet(alloc)
           pos == {s \in ToSet(alloc) : s.in > 0}
           f == Filter(alloc, pos)
           v == [x \in X |-> x.in]
<1>1. T \in Nat \ {0}
  <2>1. w \in [1..n -> Int] /\ \A k \in 1..n : w[k] >= 0
    OBVIOUS
  <2>2. Total(w) \in Int /\ Total(w) >= 0
    BY <2>1, TotalType
  <2> QED BY <2>2
<1>2. DOMAIN rs = 1..n /\ \A i \in 1..n : rs[i] \in Short
  OBVIOUS
<1>3. \A i \in 1..n : h[i] \in Nat /\ (A <= Exact => h[i] <= A * w[i])
  BY <1>1, ShareFacts
<1> HIDE DEF T, h
<1>4. \A i \in 1..n : in(i) \in Nat /\ T * in(i) <= h[i]
  BY <1>1, <1>3, DivFacts
<1>5. /\ alloc = [i \in 1..n |-> alloc[i]]
      /\ \A i \in 1..n : alloc[i].in = in(i) /\ alloc[i].route = rs[i]
  BY <1>2, SplitFields
<1> HIDE DEF alloc, in
<1>6. DOMAIN alloc = 1..n /\ \A i \in 1..n : alloc[i] \in X
  BY <1>5 DEF ToSet
<1>7. alloc \in Seq(X) /\ Len(alloc) = n
  BY <1>5, <1>6
<1>8. IsSeq(alloc)
  BY <1>7, InSeq
<1>9. \A x \in X : x.in \in Nat /\ x.route \in Short
  <2> TAKE x \in X
  <2>1. PICK i \in 1..n : x = alloc[i]
    BY <1>6 DEF ToSet
  <2> QED BY <1>2, <1>4, <1>5, <2>1
<1> HIDE DEF X
<1>10. v \in [X -> Int] /\ \A x \in X : x \notin pos => v[x] = 0
  BY <1>9 DEF X
<1>11. IsSeq(f) /\ \A i \in 1..Len(f) : f[i] \in pos
  BY <1>8, FilterFacts
<1>12. \A i \in 1..Len(f) : f[i] \in X /\ f[i].in \in Nat \ {0} /\ f[i].route \in Short
  BY <1>9, <1>11 DEF X
<1>13. Total(Values(v, f)) = Total(Values(v, alloc))
  <2> HIDE DEF pos, v
  <2> QED BY <1>7, <1>10, FilterTotal
<1> DEFINE parts == [i \in 1..n |-> in(i)]
<1>14. Values(v, alloc) = parts
  BY <1>5, <1>6, <1>7 DEF Values
<1> HIDE DEF pos
<1>15. DOMAIN f = 1..Len(f) /\ Len(f) \in Nat
  BY <1>11, SeqFacts
<1> HIDE DEF f
<1>16. Values(v, f) = [i \in DOMAIN f |-> f[i].in]
  BY <1>12, <1>15 DEF Values
<1> HIDE DEF v
<1>17. ASSUME A <= Exact PROVE Total(parts) <= A
  <2>1. parts \in [1..n -> Nat] /\ \A i \in 1..n : parts[i] = in(i)
    BY <1>4
  <2>2. ASSUME NEW i \in 1..n PROVE T * in(i) <= A * w[i]
    <3>1. PICK x \in Int : x = T * in(i)
      BY <1>1, <1>4
    <3>2. PICK y \in Int : y = A * w[i]
      OBVIOUS
    <3>3. PICK z \in Nat : z = h[i]
      BY <1>3
    <3>4. x <= z
      BY <1>4, <3>1, <3>3
    <3>5. z <= y
      BY <1>3, <1>17, <3>2, <3>3
    <3>6. x <= y
      BY <3>4, <3>5
    <3> QED BY <3>1, <3>2, <3>6
  <2>3. \A i \in 1..n : T * parts[i] <= A * w[i]
    BY <2>1, <2>2
  <2> HIDE DEF parts
  <2> QED BY <1>1, <2>1, <2>3, SharesTotal DEF T
<1>18. A <= Exact => SumIn(f) <= A
  BY <1>13, <1>14, <1>16, <1>17 DEF SumIn
<1>19. SumIn(f) \in Int
  <2>1. PICK m \in Nat : m = Len(f)
    BY <1>15
  <2>2. [i \in DOMAIN f |-> f[i].in] \in [1..m -> Int]
    BY <1>12, <1>15, <2>1
  <2> QED BY <2>1, <2>2, TotalType DEF SumIn
<1> QED BY <1>11, <1>12, <1>18, <1>19 DEF f, pos, X, alloc, T, h

\* The remainder completes it.
LEMMA RemainderSpends ==
    ASSUME NEW f, IsSeq(f), f # <<>>, SumIn(f) \in Int, query.amount \in Nat,
           query.amount <= Exact => SumIn(f) <= query.amount,
           \A i \in 1..Len(f) : f[i].in \in Nat \ {0} /\ f[i].route \in Short
    PROVE  Spends(GiveRemainder(f))
<1> DEFINE d == query.amount - SumIn(f)
           n == Len(f)
           I == {i \in 1..n : \A j \in DOMAIN f : f[j].in <= f[i].in}
           b == SelectLastInSeq(f, LAMBDA s : \A i \in DOMAIN f : f[i].in <= s.in)
<1>1. n \in Nat /\ DOMAIN f = 1..n
  BY SeqFacts
<1>2. d \in Int
  OBVIOUS
<1>3. b = IF I # {} THEN Max(I) ELSE 0
  BY DEF SelectLastInSeq
<1>4. n # 0
  <2>1. f \in Seq({f[i] : i \in DOMAIN f})
    BY DEF IsSeq
  <2> QED BY <2>1
<1>5. I # {}
  <2>1. PICK v : v = [i \in 1..n |-> f[i].in]
    OBVIOUS
  <2>2. v \in [1..n -> Int] /\ n \in Nat \ {0}
    BY <1>1, <1>4, <2>1
  <2> HIDE DEF n
  <2>3. PICK i \in 1..n : \A j \in 1..n : v[j] <= v[i]
    BY <2>2, Greatest
  <2>4. i \in I
    BY <1>1, <2>1, <2>3
  <2> QED BY <2>4
<1>6. b \in 1..n
  <2>1. IsFiniteSet(1..n) /\ I \in SUBSET (1..n)
    BY <1>1, FS_Interval
  <2>2. IsFiniteSet(I) /\ \A k \in I : k \in Int
    BY <2>1, FS_Subset
  <2>3. Max(I) \in I
    <3> HIDE DEF I
    <3> QED BY <1>5, <2>2, FiniteMax
  <2> QED BY <1>3, <1>5, <2>3
<1> HIDE DEF b, I, n
<1> DEFINE s == f[b]
           t == Split(s.route, s.in + d, RouteOut(s.route, <<s.in + d, 1>>))
           g == [f EXCEPT ![b] = t]
<1>7. GiveRemainder(f) = IF d <= 0 \/ f = <<>> THEN f ELSE g
  BY DEF GiveRemainder, b
<1>8. CASE d <= 0
  <2>1. SumIn(f) >= query.amount /\ (query.amount <= Exact => SumIn(f) = query.amount)
    BY <1>8
  <2> QED BY <1>7, <1>8, <2>1 DEF Spends
<1>9. CASE ~(d <= 0)
  <2>0. d \in Nat
    BY <1>2, <1>9
  <2>1. GiveRemainder(f) = g
    BY <1>7, <1>9
  <2>2. t.in = s.in + d /\ t.route = s.route
    BY SplitFields
  <2>3. s.in \in Nat \ {0} /\ s.route \in Short
    BY <1>6 DEF n
  <2> HIDE DEF t
  <2>4. /\ DOMAIN g = 1..n /\ g = [i \in 1..n |-> g[i]] /\ g[b] = t
        /\ \A i \in 1..n : i # b => g[i] = f[i]
    BY <1>1, <1>6
  <2> HIDE DEF g, s
  <2>5. g \in Seq({g[i] : i \in 1..n})
    BY <1>1, <2>4
  <2>6. IsSeq(g) /\ Len(g) = n
    <3>1. IsSeq(g)
      BY <2>5, InSeq
    <3>2. Len(g) = n
      BY <1>1, <2>4, <2>5
    <3> QED BY <3>1, <3>2
  <2>7. \A i \in 1..n : g[i].in \in Nat \ {0} /\ g[i].route \in Short
    <3> TAKE i \in 1..n
    <3>1. CASE i = b
      BY <2>0, <2>2, <2>3, <2>4, <3>1
    <3>2. CASE i # b
      BY <2>4, <3>2 DEF n
    <3> QED BY <3>1, <3>2
  <2>8. PICK x : x = [i \in DOMAIN f |-> f[i].in]
    OBVIOUS
  <2>9. PICK y : y = [i \in DOMAIN g |-> g[i].in]
    OBVIOUS
  <2>10. x \in [1..n -> Int] /\ x[b] = s.in
    BY <1>1, <1>6, <2>8 DEF n, s
  <2>11. y \in [1..n -> Int] /\ y[b] = s.in + d
    BY <1>6, <2>2, <2>4, <2>7, <2>9
  <2>12. \A k \in 1..n : k # b => y[k] = x[k]
    BY <1>1, <2>4, <2>8, <2>9
  <2>13. Total(y) = Total(x) - x[b] + y[b]
    BY <1>1, <1>6, <2>10, <2>11, <2>12, TotalUpdate
  <2>14. SumIn(f) = Total(x) /\ SumIn(g) = Total(y)
    BY <2>8, <2>9 DEF SumIn
  <2>15. SumIn(g) = query.amount /\ SumIn(g) >= query.amount
    BY <2>3, <2>10, <2>11, <2>13, <2>14
  <2> QED BY <2>1, <2>6, <2>7, <2>15 DEF Spends
<1> QED BY <1>8, <1>9

\* What one turn of the search on marginal prices proposes.
LEMMA GrossSpends ==
    ASSUME NEW rs \in Seq(Short), rs # <<>>, NEW w \in [DOMAIN rs -> Nat], NEW e \in [DOMAIN rs -> Errors],
           query.amount \in Nat \ {0}
    PROVE  GrossSplit(rs, w, e) = <<>> \/ Spends(GrossSplit(rs, w, e))
<1>1. Len(rs) \in Nat /\ DOMAIN rs = 1..Len(rs) /\ rs[1] \in Short
  OBVIOUS
<1>2. PICK n \in Nat : n = Len(rs)
  BY <1>1
<1> DEFINE T == Total(w)
           h == Shares(w, e)
           alloc == [i \in DOMAIN rs |-> Split(rs[i], h[i] \div T, RouteOut(rs[i], <<h[i], T>>))]
           f == Filter(alloc, {s \in ToSet(alloc) : s.in > 0})
           one == <<Split(rs[1], query.amount, RouteOut(rs[1], <<query.amount, 1>>))>>
<1>3. GrossSplit(rs, w, e) = IF Len(rs) = 1 \/ T = 0 THEN one ELSE GiveRemainder(f)
  BY DEF GrossSplit
<1>4. CASE Len(rs) = 1 \/ T = 0
  <2>1. Spends(one)
    BY <1>1, OneSpends
  <2> QED BY <1>3, <1>4, <2>1
<1>5. CASE ~(Len(rs) = 1 \/ T = 0)
  <2>1. /\ IsSeq(f) /\ SumIn(f) \in Int /\ (query.amount <= Exact => SumIn(f) <= query.amount)
        /\ \A i \in 1..Len(f) : f[i].in \in Nat \ {0} /\ f[i].route \in Short
    BY <1>1, <1>2, <1>5, AllocSpends
  <2> HIDE DEF f, T
  <2>2. CASE f = <<>>
    <3>1. GiveRemainder(f) = f
      BY <2>2 DEF GiveRemainder
    <3> QED BY <1>3, <1>5, <2>2, <3>1
  <2>3. CASE f # <<>>
    BY <1>3, <1>5, <2>1, <2>3, RemainderSpends
  <2> QED BY <2>2, <2>3
<1> QED BY <1>4, <1>5

\* What is left of the active routes.
LEMMA WithoutFacts ==
    ASSUME NEW S, NEW rs \in Seq(S), NEW r
    PROVE  /\ Without(rs, r) \in Seq(S)
           /\ Len(rs) > 1 => Without(rs, r) # <<>>
<1> DEFINE I == {i \in 1..Len(rs) : Head(rs[i]).pool = Head(r).pool}
           j == SelectInSeq(rs, LAMBDA q : Head(q).pool = Head(r).pool)
           a == SubSeq(rs, 1, j - 1)
           b == SubSeq(rs, j + 1, Len(rs))
<1>1. Without(rs, r) = IF \E i \in 1..Len(rs) : Head(rs[i]).pool = Head(r).pool THEN a \o b ELSE rs
  BY DEF Without, RemoveFirstMatch, RemoveAt
<1>2. j = IF I # {} THEN Min(I) ELSE 0
  BY DEF SelectInSeq
<1>3. CASE I # {}
  <2>1. Min(I) \in I
    <3>1. \A i \in I : i \in Nat
      OBVIOUS
    <3> HIDE DEF I
    <3>2. \E x \in I : \A y \in I : x <= y
      BY <1>3, <3>1, HasLeast
    <3> QED BY <3>2 DEF Min
  <2>2. j \in 1..Len(rs)
    BY <1>2, <1>3, <2>1
  <2>3. Without(rs, r) = a \o b
    BY <1>1, <1>3
  <2> HIDE DEF j, I
  <2>4. a \in Seq(S) /\ Len(a) = j - 1
    BY <2>2, SubSeqProperties
  <2>5. b \in Seq(S) /\ Len(b) = Len(rs) - j
    BY <2>2, SubSeqProperties
  <2> HIDE DEF a, b
  <2>6. a \o b \in Seq(S) /\ Len(a \o b) = Len(a) + Len(b)
    BY <2>4, <2>5
  <2>7. Len(rs) > 1 => Len(a \o b) # 0
    BY <2>2, <2>4, <2>5, <2>6
  <2>8. Len(<<>>) = 0
    OBVIOUS
  <2> QED BY <2>3, <2>6, <2>7, <2>8
<1>4. CASE I = {}
  <2>1. Without(rs, r) = rs
    BY <1>1, <1>4
  <2> QED BY <2>1
<1> QED BY <1>3, <1>4

-----------------------------------------------------------------------------
\* Paths.  SimplePathsFrom lists the simple paths of k hops.

IsPath(f, k, r) == r \in Seq(AllHops) /\ Len(r) = k /\ (k # 0 => IsSimple(f, r))

\* One turn of the reference: every path of S grows by every hop.
Grow(S, f) == {r \in UNION {{Append(q, h) : h \in AllHops} : q \in S} : IsSimple(f, r)}

LEMMA GrowIn ==
    ASSUME NEW S, NEW f, NEW r
    PROVE  r \in Grow(S, f) <=> (IsSimple(f, r) /\ \E q \in S : \E h \in AllHops : r = Append(q, h))
BY DEF Grow

LEMMA GrowPaths ==
    ASSUME NEW f, NEW k \in Nat, NEW S, \A q : q \in S <=> IsPath(f, k, q), NEW r
    PROVE  r \in Grow(S, f) <=> IsPath(f, k + 1, r)
<1> DEFINE H == AllHops
<1>1. ASSUME r \in Grow(S, f) PROVE IsPath(f, k + 1, r)
  <2>1. PICK q \in S, h \in H : r = Append(q, h) /\ IsSimple(f, r)
    BY <1>1, GrowIn
  <2>2. q \in Seq(H) /\ Len(q) = k
    BY DEF IsPath
  <2> HIDE DEF H
  <2>3. r \in Seq(H) /\ Len(r) = k + 1
    BY <2>1, <2>2
  <2> QED BY <2>1, <2>3 DEF IsPath, H
<1>2. ASSUME IsPath(f, k + 1, r) PROVE r \in Grow(S, f)
  <2> DEFINE q == [i \in 1..k |-> r[i]]
             h == r[k + 1]
  <2>1. r \in Seq(H) /\ Len(r) = k + 1 /\ IsSimple(f, r)
    BY <1>2 DEF IsPath
  <2> HIDE DEF H
  <2>2. h \in H /\ DOMAIN r = 1..(k + 1) /\ \A i \in 1..k : r[i] \in H /\ i \in DOMAIN r
    BY <2>1
  <2>3. q \in Seq(H) /\ Len(q) = k /\ DOMAIN q = 1..k /\ \A i \in 1..k : q[i] = r[i]
    BY <2>2
  <2> HIDE DEF q, h
  <2>4. r = Append(q, h)
    <3>1. Append(q, h) \in Seq(H) /\ Len(Append(q, h)) = k + 1
      BY <2>2, <2>3
    <3>2. Append(q, h)[k + 1] = h /\ \A i \in 1..k : Append(q, h)[i] = q[i]
      BY <2>2, <2>3
    <3>3. \A i \in 1..(k + 1) : i = k + 1 \/ i \in 1..k
      OBVIOUS
    <3>4. \A i \in 1..(k + 1) : r[i] = Append(q, h)[i]
      BY <2>3, <3>2, <3>3 DEF h
    <3> QED BY <2>1, <3>1, <3>4, SeqEqual
  <2>5. ASSUME k # 0 PROVE IsSimple(f, q)
    <3>1. 1 \in 1..k /\ q[1] = r[1]
      BY <2>3, <2>5
    <3>2. \A i \in 1..(k - 1) : i \in 1..k /\ i + 1 \in 1..k /\ i \in 1..(Len(r) - 1)
      BY <2>1
    <3> QED BY <2>1, <2>2, <2>3, <3>1, <3>2 DEF IsSimple
  <2>6. q \in S
    BY <2>3, <2>5 DEF IsPath, H
  <2> QED BY <2>1, <2>2, <2>4, <2>6, GrowIn DEF H
<1> QED BY <1>1, <1>2

LEMMA SimplePathsFromAre ==
    ASSUME NEW f, NEW n \in Nat
    PROVE  \A r : r \in SimplePathsFrom(f, n) <=> IsPath(f, n, r)
<1> DEFINE ix == [i \in 1..n |-> i]
           D == SUBSET Seq(AllHops)
           z == {<<>>}
           P(c) == c = [k \in 0..n |-> IF k = 0 THEN {<<>>}
                                       ELSE CHOOSE x \in {Grow(a, f) : a \in {c[k - 1]}} : TRUE]
           c == CHOOSE g : P(g)
           step == [k \in 1..n |-> [x \in D |-> Grow(x, f)]]
<1>0. Len(ix) = n
  OBVIOUS
<1>1. SimplePathsFrom(f, n) = c[n]
  BY <1>0 DEF SimplePathsFrom, Fold, Grow
<1>2. \A x : (CHOOSE y \in {Grow(a, f) : a \in {x}} : TRUE) = Grow(x, f)
  OBVIOUS
<1>3. ASSUME NEW x \in D PROVE Grow(x, f) \in D
  <2> DEFINE H == AllHops
  <2>1. ASSUME NEW r \in Grow(x, f) PROVE r \in Seq(H)
    <3>1. PICK q \in x, h \in H : r = Append(q, h)
      BY GrowIn
    <3>2. q \in Seq(H)
      OBVIOUS
    <3> HIDE DEF H
    <3> QED BY <3>1, <3>2
  <2> QED BY <2>1
<1>4. z \in D
  OBVIOUS
<1>5. step \in Steps(D, n) /\ \A k \in 1..n : \A x \in D : step[k][x] = Grow(x, f)
  <2> HIDE DEF D
  <2> QED BY <1>3 DEF Steps
<1> HIDE DEF step, D, z
<1>6. PICK g : Runs(g, D, z, n, step)
  BY <1>4, <1>5, LoopExists
<1>7. P(g)
  <2>1. g = [k \in 0..n |-> g[k]] /\ g[0] = {<<>>}
    BY <1>6 DEF Runs, z
  <2>2. ASSUME NEW k \in 1..n
        PROVE  g[k] = CHOOSE x \in {Grow(a, f) : a \in {g[k - 1]}} : TRUE
    <3>1. k - 1 \in 0..n
      OBVIOUS
    <3>2. g[k - 1] \in D /\ g[k] = step[k][g[k - 1]]
      BY <1>6, <3>1 DEF Runs
    <3>3. g[k] = Grow(g[k - 1], f)
      BY <1>5, <3>2
    <3> QED BY <1>2, <3>3
  <2>3. \A k \in 0..n : k = 0 \/ k \in 1..n
    OBVIOUS
  <2> QED BY <2>1, <2>2, <2>3, Zenon
<1>8. P(c)
  <2> HIDE DEF P
  <2> QED BY <1>7
<1> HIDE DEF c
<1>9. c[0] = {<<>>} /\ \A k \in 1..n : c[k] = Grow(c[k - 1], f)
  <2>0. 0 \in 0..n
    OBVIOUS
  <2>2. \A k \in 1..n : k \in 0..n /\ k # 0
    OBVIOUS
  <2>3. c[0] = {<<>>}
    BY <1>8, <2>0, Zenon
  <2>4. \A k \in 1..n : c[k] = CHOOSE x \in {Grow(a, f) : a \in {c[k - 1]}} : TRUE
    BY <1>8, <2>2, Zenon
  <2> HIDE DEF P
  <2>5. \A k \in 1..n : c[k] = Grow(c[k - 1], f)
    BY <1>2, <2>4, Zenon
  <2> QED BY <2>3, <2>5
<1> HIDE DEF P
<1> DEFINE Ok(k) == \A r : r \in c[k] <=> IsPath(f, k, r)
           S == {k \in 0..n : Ok(k)}
<1>10. 0 \in S
  <2>1. \A r : (r \in Seq(AllHops) /\ Len(r) = 0) <=> r = <<>>
    <3>1. PICK H : H = AllHops
      OBVIOUS
    <3>2. <<>> \in Seq(H) /\ \A q \in Seq(H) : q = <<>> <=> Len(q) = 0
      BY EmptySeq
    <3> QED BY <3>1, <3>2
  <2> QED BY <1>9, <2>1 DEF IsPath
<1>11. ASSUME NEW k \in 1..n, k - 1 \in S PROVE k \in S
  <2>1. PICK j \in Nat : j = k - 1 /\ j + 1 = k
    OBVIOUS
  <2>2. PICK Q : Q = c[k - 1]
    OBVIOUS
  <2>3. \A q : q \in Q <=> IsPath(f, j, q)
    BY <1>11, <2>1, <2>2
  <2>4. \A r : r \in Grow(Q, f) <=> IsPath(f, j + 1, r)
    BY <2>3, GrowPaths
  <2>5. Ok(k)
    BY <1>9, <2>1, <2>2, <2>4
  <2> QED BY <2>5
<1>12. \A k \in 0..n : k \in S
  <2> HIDE DEF S
  <2> QED BY <1>10, <1>11, Induct
<1>13. n \in 0..n
  OBVIOUS
<1> QED BY <1>1, <1>12, <1>13

LEMMA SimplePathsAre ==
    ASSUME NEW f, NEW t, NEW n \in Int
    PROVE  \A r : r \in SimplePaths(f, t, n) <=> \E k \in 1..n : IsPath(f, k, r) /\ r[k].to = t
<1> TAKE r
<1>1. \A k \in 1..n : k \in Nat
  OBVIOUS
<1>2. r \in SimplePaths(f, t, n) <=> \E k \in 1..n : r \in SimplePathsFrom(f, k) /\ Last(r).to = t
  BY DEF SimplePaths
<1>3. \A k \in 1..n : r \in SimplePathsFrom(f, k) <=> IsPath(f, k, r)
  BY <1>1, SimplePathsFromAre
<1>4. \A k : IsPath(f, k, r) => Last(r) = r[k]
  BY DEF IsPath, Last
<1> QED BY <1>2, <1>3, <1>4

\* The simple paths of the request of at most n hops.
PathSet(n) ==
    {r \in Seq(AllHops) :
        /\ Len(r) \in 1..n /\ r[1].from = query.from
        /\ \A i \in 1..(Len(r) - 1) : r[i].to = r[i + 1].from
        /\ \A i \in 1..Len(r) : r[i].to # query.from
        /\ \A i, j \in 1..Len(r) : r[i].to = r[j].to => i = j
        /\ r[Len(r)].to = query.to}

LEMMA PathSetIs ==
    ASSUME NEW n \in Int
    PROVE  SimplePaths(query.from, query.to, n) = PathSet(n)
<1> SUFFICES ASSUME NEW r PROVE r \in SimplePaths(query.from, query.to, n) <=> r \in PathSet(n)
  OBVIOUS
<1>2. r \in SimplePaths(query.from, query.to, n) <=> \E k \in 1..n : IsPath(query.from, k, r) /\ r[k].to = query.to
  BY SimplePathsAre
<1>3. \A k \in 1..n : k # 0
  OBVIOUS
<1>4. PICK H : H = AllHops
  OBVIOUS
<1>5. r \in Seq(H) => DOMAIN r = 1..Len(r)
  OBVIOUS
<1> QED BY <1>2, <1>3, <1>4, <1>5 DEF IsPath, IsSimple, PathSet

LEMMA PathSetSame ==
    ASSUME UNCHANGED <<pools, query>>
    PROVE  AllHops' = AllHops /\ \A n : PathSet(n)' = PathSet(n)
<1>1. AllHops' = AllHops
  BY DEF AllHops
<1> QED BY <1>1 DEF PathSet

-----------------------------------------------------------------------------
\* The depth-first search.  The frames are the tokens of the current path; the
\* hop that leads from one to the next is the last edge its frame has looked at.

Shape(fr, p, vis) ==
    /\ IsSeq(fr) /\ p \in Seq(AllHops) /\ Len(fr) = Len(p) + 1 /\ Len(p) < MaxHops
    /\ \A i \in 1..Len(fr) : /\ fr[i] = [token |-> fr[i].token, edge |-> fr[i].edge]
                             /\ fr[i].edge \in Nat \ {0}
    /\ fr[1].token = query.from
    /\ \A i \in 1..Len(p) : /\ p[i].from = fr[i].token /\ p[i].to = fr[i + 1].token
                            /\ fr[i].edge - 1 \in 1..Len(Edges(pools, fr[i].token))
                            /\ p[i] = Edges(pools, fr[i].token)[fr[i].edge - 1]
    /\ \A i, j \in 1..Len(fr) : fr[i].token = fr[j].token => i = j
    /\ vis = {fr[i].token : i \in 1..Len(fr)}
    /\ query.to \notin vis

\* The paths the search is for.
Wanted == PathSet(MaxHops)

\* r takes, at frame i, the hop of an edge that the frame has not looked at yet.
PendAt(fr, p, r, i) ==
    /\ Len(r) >= i /\ \A m \in 1..(i - 1) : r[m] = p[m]
    /\ \E j \in 1..Len(Edges(pools, fr[i].token)) : j >= fr[i].edge /\ r[i] = Edges(pools, fr[i].token)[j]

Pend(fr, p, r) == \E i \in 1..Len(fr) : PendAt(fr, p, r, i)

\* r goes on from the current path with the hop e.
Through(p, e, r) == Len(r) > Len(p) /\ (\A m \in 1..Len(p) : r[m] = p[m]) /\ r[Len(p) + 1] = e

LEMMA WantedFacts ==
    ASSUME NEW r
    PROVE  r \in Wanted <=> /\ r \in Seq(AllHops) /\ Len(r) \in 1..MaxHops /\ r[1].from = query.from
                            /\ \A i \in 1..(Len(r) - 1) : r[i].to = r[i + 1].from
                            /\ \A i \in 1..Len(r) : r[i].to # query.from
                            /\ \A i, j \in 1..Len(r) : r[i].to = r[j].to => i = j
                            /\ r[Len(r)].to = query.to
BY DEF Wanted, PathSet

\* The hops of an adjacency list, and the order they are in.
LEMMA EdgeFacts ==
    ASSUME pools \in Catalogs, NEW t
    PROVE  /\ IsSeq(Edges(pools, t)) /\ Len(Edges(pools, t)) \in Nat
           /\ \A j \in 1..Len(Edges(pools, t)) : Edges(pools, t)[j] \in AllHops /\ Edges(pools, t)[j].from = t
           /\ \A h \in AllHops : h.from = t => \E j \in 1..Len(Edges(pools, t)) : Edges(pools, t)[j] = h
           /\ \A j, l \in 1..Len(Edges(pools, t)) :
                 Edges(pools, t)[j] = Edges(pools, t)[l] /\ Edges(pools, t)[j].to # t => j = l
<1>1. PICK s : s = Edges(pools, t)
  OBVIOUS
<1>2. EdgesOf(s, Len(pools), t)
  BY <1>1, EdgesFacts
<1>3. IsSeq(s) /\ Len(s) \in Nat
  BY <1>2, SeqFacts DEF EdgesOf
<1>4. DOMAIN pools = 1..Len(pools)
  BY CatalogFacts
<1>5. ASSUME NEW j \in 1..Len(s) PROVE s[j] \in AllHops /\ s[j].from = t
  <2>1. \E i \in DOMAIN pools : HopOf(i, t, s[j])
    BY <1>2, <1>4 DEF EdgesOf
  <2> QED BY <2>1, HopIn
<1>6. ASSUME NEW h \in AllHops, h.from = t PROVE \E j \in 1..Len(s) : s[j] = h
  <2>1. PICK i \in 1..Len(pools) : HopOf(i, t, h)
    BY <1>4, <1>6, HopIn
  <2> QED BY <1>2, <2>1 DEF EdgesOf
<1>7. \A j, l \in 1..Len(s) : s[j] = s[l] /\ s[j].to # t => j = l
  BY <1>2 DEF EdgesOf
<1> QED BY <1>1, <1>3, <1>5, <1>6, <1>7

\* A wanted path that goes on with e enters a new token; it ends there exactly
\* if e enters the target, and it does if it may not be longer.
LEMMA ThroughFacts ==
    ASSUME NEW fr, NEW p, NEW vis, Shape(fr, p, vis), NEW e, NEW r \in Wanted, Through(p, e, r)
    PROVE  /\ e.to \notin vis
           /\ e.to = query.to => r = Append(p, e)
           /\ e.to # query.to => Len(r) > Len(p) + 1
           /\ Len(p) + 1 >= MaxHops => e.to = query.to
<1>0. PICK H : H = AllHops
  OBVIOUS
<1>1. /\ r \in Seq(H) /\ Len(r) \in Nat /\ Len(r) <= MaxHops
      /\ \A i \in 1..Len(r) : r[i].to # query.from
      /\ \A i, j \in 1..Len(r) : r[i].to = r[j].to => i = j
      /\ r[Len(r)].to = query.to /\ MaxHops \in Nat /\ Len(r) \in 1..Len(r)
  BY <1>0, WantedFacts, RouterAssumption
<1>2. p \in Seq(H) /\ Len(p) \in Nat /\ Len(fr) = Len(p) + 1
  BY <1>0 DEF Shape
<1>3. PICK l \in Nat : l = Len(p) + 1
  BY <1>2
<1>4. l \in 1..Len(r) /\ r[l] = e /\ \A m \in 1..Len(p) : r[m] = p[m] /\ m \in 1..Len(r) /\ m # l
  BY <1>1, <1>2, <1>3 DEF Through
<1>5. e.to \notin vis
  <2>1. ASSUME NEW i \in 1..Len(fr), fr[i].token = e.to PROVE FALSE
    <3>1. CASE i = 1
      BY <1>1, <1>4, <2>1, <3>1 DEF Shape
    <3>2. CASE i # 1
      <4>1. PICK m \in 1..Len(p) : i = m + 1
        <5>1. i - 1 \in 1..Len(p) /\ i = (i - 1) + 1
          BY <1>2, <3>2
        <5> QED BY <5>1
      <4>2. p[m].to = fr[i].token
        BY <4>1 DEF Shape
      <4> QED BY <1>1, <1>4, <2>1, <4>2
    <3> QED BY <3>1, <3>2
  <2> QED BY <2>1 DEF Shape
<1>6. ASSUME e.to = query.to PROVE r = Append(p, e)
  <2>1. l = Len(r)
    BY <1>1, <1>4, <1>6
  <2>2. e \in H
    BY <1>1, <1>4
  <2>3. Append(p, e) \in Seq(H) /\ Len(Append(p, e)) = l /\ Append(p, e)[l] = e
    BY <1>2, <1>3, <2>2
  <2>4. \A m \in 1..Len(p) : Append(p, e)[m] = p[m]
    BY <1>2, <2>2
  <2>5. \A m \in 1..l : m = l \/ m \in 1..Len(p)
    BY <1>2, <1>3
  <2>6. \A m \in 1..l : r[m] = Append(p, e)[m]
    BY <1>4, <2>3, <2>4, <2>5
  <2> QED BY <1>1, <2>1, <2>3, <2>6, SeqEqual
<1>7. l = Len(r) => e.to = query.to
  BY <1>1, <1>4
<1>8. Len(p) + 1 >= MaxHops => l = Len(r)
  BY <1>1, <1>3, <1>4
<1>9. e.to # query.to => Len(r) > Len(p) + 1
  BY <1>1, <1>3, <1>4, <1>7
<1> QED BY <1>5, <1>6, <1>7, <1>8, <1>9

\* The current path with a hop into the target is wanted.
LEMMA AppendWanted ==
    ASSUME NEW fr, NEW p, NEW vis, Shape(fr, p, vis), NEW e \in AllHops, e.from = fr[Len(fr)].token,
           e.to = query.to, query.from # query.to
    PROVE  Append(p, e) \in Wanted /\ Through(p, e, Append(p, e))
<1>0. PICK H : H = AllHops
  OBVIOUS
<1>1. p \in Seq(H) /\ Len(p) \in Nat /\ Len(fr) = Len(p) + 1 /\ e \in H /\ Len(p) < MaxHops /\ MaxHops \in Nat
  BY <1>0, RouterAssumption DEF Shape
<1>2. PICK r : r = Append(p, e)
  OBVIOUS
<1>3. PICK l \in Nat : l = Len(p) + 1
  BY <1>1
<1>4. r \in Seq(H) /\ Len(r) = l /\ r[l] = e /\ \A m \in 1..Len(p) : r[m] = p[m]
  BY <1>1, <1>2, <1>3
<1>5. \A m \in 1..l : m = l \/ m \in 1..Len(p)
  BY <1>1, <1>3
<1>6. /\ fr[1].token = query.from /\ query.to \notin vis /\ vis = {fr[i].token : i \in 1..Len(fr)}
      /\ \A i \in 1..Len(p) : p[i].from = fr[i].token /\ p[i].to = fr[i + 1].token
      /\ \A i, j \in 1..Len(fr) : fr[i].token = fr[j].token => i = j
  BY DEF Shape
<1>7. \A i \in 1..Len(p) : i \in 1..Len(fr) /\ i + 1 \in 1..Len(fr) /\ p[i].to \in vis /\ i + 1 # 1
  BY <1>1, <1>6
<1>8. r[1].from = query.from
  <2>1. CASE Len(p) = 0
    BY <1>1, <1>3, <1>4, <1>6, <2>1
  <2>2. CASE Len(p) # 0
    <3>1. 1 \in 1..Len(p)
      BY <1>1, <2>2
    <3> QED BY <1>4, <1>6, <3>1
  <2> QED BY <2>1, <2>2
<1>9. ASSUME NEW i \in 1..(l - 1) PROVE r[i].to = r[i + 1].from
  <2>1. i \in 1..Len(p) /\ (i = Len(p) \/ i + 1 \in 1..Len(p))
    BY <1>1, <1>3
  <2>2. CASE i = Len(p)
    BY <1>1, <1>3, <1>4, <1>6, <2>1, <2>2
  <2>3. CASE i + 1 \in 1..Len(p)
    BY <1>4, <1>6, <2>1, <2>3
  <2> QED BY <2>1, <2>2, <2>3
<1>10. \A i \in 1..l : r[i].to # query.from
  <2> TAKE i \in 1..l
  <2>1. CASE i = l
    BY <1>4, <2>1
  <2>2. CASE i \in 1..Len(p)
    <3>1. 1 \in 1..Len(fr)
      BY <1>1
    <3> QED BY <1>4, <1>6, <1>7, <2>2, <3>1
  <2> QED BY <1>5, <2>1, <2>2
<1>11. ASSUME NEW i \in 1..l, NEW j \in 1..l, r[i].to = r[j].to PROVE i = j
  <2>1. \A m \in 1..Len(p) : r[m].to # e.to
    BY <1>4, <1>6, <1>7
  <2>2. CASE i \in 1..Len(p) /\ j \in 1..Len(p)
    <3>1. fr[i + 1].token = fr[j + 1].token
      BY <1>4, <1>6, <1>11, <2>2
    <3>2. i + 1 = j + 1
      BY <1>6, <1>7, <2>2, <3>1
    <3> QED BY <3>2
  <2> QED BY <1>4, <1>5, <1>11, <2>1, <2>2
<1>12. l \in 1..MaxHops /\ r[l].to = query.to
  BY <1>1, <1>3, <1>4
<1>13. r \in Wanted
  BY <1>0, <1>4, <1>8, <1>9, <1>10, <1>11, <1>12, WantedFacts
<1>14. Through(p, e, r)
  BY <1>1, <1>3, <1>4 DEF Through
<1> QED BY <1>2, <1>13, <1>14

\* The top frame looks at its next edge e.
Advanced(fr) == [fr EXCEPT ![Len(fr)] = [token |-> fr[Len(fr)].token, edge |-> fr[Len(fr)].edge + 1]]

LEMMA AdvancedFacts ==
    ASSUME NEW fr, IsSeq(fr), Len(fr) >= 1
    PROVE  LET l == Len(fr) IN
           /\ IsSeq(Advanced(fr)) /\ Len(Advanced(fr)) = l /\ l \in 1..l
           /\ Advanced(fr)[l] = [token |-> fr[l].token, edge |-> fr[l].edge + 1]
           /\ \A i \in 1..l : i # l => Advanced(fr)[i] = fr[i]
           /\ \A i \in 1..l : Advanced(fr)[i].token = fr[i].token
<1>1. PICK l : l = Len(fr)
  OBVIOUS
<1>2. l \in Nat /\ l \in 1..l /\ DOMAIN fr = 1..l
  BY <1>1, SeqFacts
<1>3. PICK t : t = [token |-> fr[l].token, edge |-> fr[l].edge + 1]
  OBVIOUS
<1>4. PICK g : g = Advanced(fr)
  OBVIOUS
<1>5. g = [i \in 1..l |-> IF i = l THEN t ELSE fr[i]]
  BY <1>1, <1>2, <1>3, <1>4 DEF Advanced
<1>6. g \in Seq({g[i] : i \in 1..l}) /\ Len(g) = l
  BY <1>2, <1>5
<1>7. IsSeq(g)
  BY <1>6, InSeq
<1>8. t.token = fr[l].token
  BY <1>3
<1>9. /\ g[l] = t /\ \A i \in 1..l : i # l => g[i] = fr[i]
      /\ \A i \in 1..l : g[i].token = fr[i].token
  BY <1>2, <1>5, <1>8
<1> QED BY <1>1, <1>2, <1>3, <1>4, <1>6, <1>7, <1>9

LEMMA AdvancedShape ==
    ASSUME NEW fr, NEW p, NEW vis, Shape(fr, p, vis)
    PROVE  Shape(Advanced(fr), p, vis)
<1>1. PICK g : g = Advanced(fr)
  OBVIOUS
<1>2. PICK l \in Nat : l = Len(fr) /\ l >= 1 /\ Len(p) \in Nat /\ l = Len(p) + 1
  <2>1. PICK H : H = AllHops
    OBVIOUS
  <2>2. p \in Seq(H)
    BY <2>1 DEF Shape
  <2>3. Len(p) \in Nat /\ Len(fr) = Len(p) + 1
    BY <2>2 DEF Shape
  <2> QED BY <2>3
<1>3. IsSeq(fr)
  BY DEF Shape
<1>4. /\ IsSeq(g) /\ Len(g) = l /\ l \in 1..l
      /\ g[l] = [token |-> fr[l].token, edge |-> fr[l].edge + 1]
      /\ \A i \in 1..l : i # l => g[i] = fr[i]
      /\ \A i \in 1..l : g[i].token = fr[i].token
  BY <1>1, <1>2, <1>3, AdvancedFacts
<1>5. \A i \in 1..l : g[i] = [token |-> g[i].token, edge |-> g[i].edge] /\ g[i].edge \in Nat \ {0}
  <2> TAKE i \in 1..l
  <2>1. CASE i = l
    <3>1. fr[l].edge \in Nat
      BY <1>2, <1>4 DEF Shape
    <3> QED BY <1>4, <2>1, <3>1
  <2>2. CASE i # l
    BY <1>2, <1>4, <2>2 DEF Shape
  <2> QED BY <2>1, <2>2
<1>6. \A i \in 1..Len(p) : i \in 1..l /\ i # l /\ i + 1 \in 1..l /\ g[i] = fr[i] /\ g[i + 1].token = fr[i + 1].token
  BY <1>2, <1>4
<1>7. 1 \in 1..l
  BY <1>2
<1>8. {g[i].token : i \in 1..l} = {fr[i].token : i \in 1..l}
  BY <1>4
<1> QED BY <1>1, <1>2, <1>4, <1>5, <1>6, <1>7, <1>8 DEF Shape

\* The paths through e are no longer pending, and no others are.
LEMMA AdvancedPend ==
    ASSUME pools \in Catalogs, NEW fr, NEW p, NEW vis, Shape(fr, p, vis), NEW e, NEW es,
           es = Edges(pools, fr[Len(fr)].token), fr[Len(fr)].edge <= Len(es), e = es[fr[Len(fr)].edge],
           NEW r \in Wanted
    PROVE  /\ Pend(fr, p, r) <=> (Pend(Advanced(fr), p, r) \/ Through(p, e, r))
           /\ Through(p, e, r) => ~Pend(Advanced(fr), p, r)
<1>0. PICK H : H = AllHops
  OBVIOUS
<1>1. PICK g : g = Advanced(fr)
  OBVIOUS
<1>2. PICK l \in Nat : l = Len(fr) /\ l >= 1 /\ Len(p) \in Nat /\ l = Len(p) + 1
  <2>2. p \in Seq(H)
    BY <1>0 DEF Shape
  <2>3. Len(p) \in Nat /\ Len(fr) = Len(p) + 1
    BY <2>2 DEF Shape
  <2> QED BY <2>3
<1>3. IsSeq(fr)
  BY DEF Shape
<1>4. /\ Len(g) = l /\ l \in 1..l
      /\ g[l].edge = fr[l].edge + 1
      /\ \A i \in 1..l : i # l => g[i] = fr[i]
      /\ \A i \in 1..l : g[i].token = fr[i].token
  <2>1. /\ Len(g) = l /\ l \in 1..l
        /\ g[l] = [token |-> fr[l].token, edge |-> fr[l].edge + 1]
        /\ \A i \in 1..l : i # l => g[i] = fr[i]
        /\ \A i \in 1..l : g[i].token = fr[i].token
    BY <1>1, <1>2, <1>3, AdvancedFacts
  <2>2. g[l].edge = fr[l].edge + 1
    BY <2>1
  <2> QED BY <2>1, <2>2
<1>5. PICK x \in Nat \ {0} : x = fr[l].edge
  BY <1>2, <1>4 DEF Shape
<1>6. /\ Len(es) \in Nat /\ x \in 1..Len(es) /\ e = es[x] /\ es = Edges(pools, fr[l].token)
      /\ \A j, m \in 1..Len(es) : es[j] = es[m] /\ es[j].to # fr[l].token => j = m
  BY <1>2, <1>5, EdgeFacts
<1>7. /\ r \in Seq(H) /\ Len(r) \in Nat
      /\ \A i \in 1..Len(r) : r[i].to # query.from
      /\ \A i, j \in 1..Len(r) : r[i].to = r[j].to => i = j
  BY <1>0, WantedFacts
<1>8. ASSUME NEW i \in 1..l, i # l PROVE PendAt(fr, p, r, i) <=> PendAt(g, p, r, i)
  BY <1>4, <1>8 DEF PendAt
<1>9. Through(p, e, r) <=> Len(r) >= l /\ (\A m \in 1..(l - 1) : r[m] = p[m]) /\ r[l] = e
  BY <1>2, <1>7 DEF Through
<1>10. PendAt(fr, p, r, l) <=> (PendAt(g, p, r, l) \/ Through(p, e, r))
  <2>1. PendAt(fr, p, r, l) <=> /\ Len(r) >= l /\ \A m \in 1..(l - 1) : r[m] = p[m]
                                /\ \E j \in 1..Len(es) : j >= x /\ r[l] = es[j]
    BY <1>5, <1>6 DEF PendAt
  <2>2. PendAt(g, p, r, l) <=> /\ Len(r) >= l /\ \A m \in 1..(l - 1) : r[m] = p[m]
                               /\ \E j \in 1..Len(es) : j >= x + 1 /\ r[l] = es[j]
    BY <1>4, <1>5, <1>6 DEF PendAt
  <2>3. (\E j \in 1..Len(es) : j >= x /\ r[l] = es[j]) <=>
          ((\E j \in 1..Len(es) : j >= x + 1 /\ r[l] = es[j]) \/ r[l] = e)
    <3>1. \A j \in 1..Len(es) : j >= x <=> (j >= x + 1 \/ j = x)
      BY <1>6
    <3> QED BY <1>6, <3>1
  <2> QED BY <1>9, <2>1, <2>2, <2>3
<1>11. ASSUME Through(p, e, r), NEW i \in 1..l, PendAt(g, p, r, i) PROVE FALSE
  <2>1. Len(r) >= l /\ l \in 1..Len(r) /\ r[l] = e /\ \A m \in 1..(l - 1) : r[m] = p[m]
    BY <1>2, <1>7, <1>9, <1>11
  <2>2. CASE i = l
    <3>1. e.to # fr[l].token
      <4>1. CASE l = 1
        BY <1>7, <2>1, <4>1 DEF Shape
      <4>2. CASE l # 1
        <5>1. PICK k \in Nat : k = l - 1 /\ k \in 1..Len(p) /\ k \in 1..(l - 1) /\ k + 1 = l /\ k # l /\ k \in 1..Len(r)
          <6>1. l - 1 \in Nat /\ l - 1 \in 1..Len(p) /\ l - 1 \in 1..(l - 1) /\ (l - 1) + 1 = l /\ l - 1 # l
            BY <1>2, <4>2
          <6>2. l - 1 \in 1..Len(r)
            BY <1>7, <2>1, <6>1
          <6> QED BY <6>1, <6>2
        <5>2. r[k].to = fr[l].token
          <6>1. p[k].to = fr[k + 1].token
            BY <5>1 DEF Shape
          <6> QED BY <2>1, <5>1, <6>1
        <5> QED BY <1>7, <2>1, <5>1, <5>2
      <4> QED BY <4>1, <4>2
    <3>2. PICK j \in 1..Len(es) : j >= x + 1 /\ r[l] = es[j]
      BY <1>4, <1>5, <1>6, <1>11, <2>2 DEF PendAt
    <3>3. j = x
      BY <1>6, <2>1, <3>1, <3>2
    <3> QED BY <3>2, <3>3
  <2>3. CASE i # l
    <3>1. i \in 1..Len(p) /\ i \in 1..(l - 1) /\ i \in 1..Len(fr) /\ i + 1 \in 1..Len(fr) /\ i + 1 # i
      BY <1>2, <2>3
    <3>2. PICK ei : ei = Edges(pools, fr[i].token)
      OBVIOUS
    <3>3. PICK y \in Nat : y = fr[i].edge
      BY <3>1 DEF Shape
    <3>4. p[i].to = fr[i + 1].token /\ y - 1 \in 1..Len(ei) /\ p[i] = ei[y - 1]
      BY <3>1, <3>2, <3>3 DEF Shape
    <3>5. PICK j \in 1..Len(ei) : j >= y /\ r[i] = ei[j]
      BY <1>4, <1>11, <2>3, <3>2, <3>3 DEF PendAt
    <3>6. p[i].to # fr[i].token
      BY <3>1, <3>4 DEF Shape
    <3>7. \A a, b \in 1..Len(ei) : ei[a] = ei[b] /\ ei[a].to # fr[i].token => a = b
      BY <3>2, EdgeFacts
    <3>8. ei[j] = ei[y - 1] /\ ei[j].to # fr[i].token
      BY <2>1, <3>1, <3>4, <3>5, <3>6
    <3>9. j = y - 1
      BY <3>4, <3>7, <3>8
    <3> QED BY <3>5, <3>9
  <2> QED BY <2>2, <2>3
<1>12. Pend(fr, p, r) <=> (Pend(g, p, r) \/ Through(p, e, r))
  BY <1>2, <1>4, <1>8, <1>10 DEF Pend
<1>13. Through(p, e, r) => ~Pend(g, p, r)
  BY <1>4, <1>11 DEF Pend
<1> QED BY <1>1, <1>12, <1>13

\* The search goes down the last edge e the top frame has looked at.
LEMMA PushShape ==
    ASSUME pools \in Catalogs, NEW fr, NEW p, NEW vis, Shape(fr, p, vis), NEW e, NEW l, l = Len(fr),
           fr[l].edge - 1 \in 1..Len(Edges(pools, fr[l].token)),
           e = Edges(pools, fr[l].token)[fr[l].edge - 1],
           e.to \notin vis, e.to # query.to, Len(p) + 1 < MaxHops
    PROVE  Shape(Append(fr, [token |-> e.to, edge |-> 1]), Append(p, e), vis \cup {e.to})
<1>0. PICK H : H = AllHops
  OBVIOUS
<1>1. e \in H /\ e.from = fr[l].token
  BY <1>0, EdgeFacts
<1>2. l \in Nat \ {0} /\ l = Len(fr) /\ p \in Seq(H) /\ Len(p) \in Nat /\ l = Len(p) + 1
  <2>2. p \in Seq(H)
    BY <1>0 DEF Shape
  <2>3. Len(p) \in Nat /\ Len(fr) = Len(p) + 1
    BY <2>2 DEF Shape
  <2> QED BY <2>2, <2>3
<1>3. PICK t : t = [token |-> e.to, edge |-> 1]
  OBVIOUS
<1>4. PICK g : g = Append(fr, t)
  OBVIOUS
<1>5. PICK q : q = Append(p, e)
  OBVIOUS
<1>6. PICK m \in Nat : m = l + 1
  BY <1>2
<1>7. IsSeq(g) /\ Len(g) = m /\ g[m] = t /\ \A i \in 1..l : g[i] = fr[i]
  <2>1. IsSeq(fr)
    BY DEF Shape
  <2>2. /\ IsSeq(g) /\ Len(g) = Len(fr) + 1 /\ g[Len(fr) + 1] = t
        /\ \A i \in 1..Len(fr) : g[i] = fr[i]
    BY <1>4, <2>1, AppendFacts
  <2> QED BY <1>2, <1>6, <2>2
<1>8. q \in Seq(H) /\ Len(q) = l /\ q[l] = e /\ \A i \in 1..Len(p) : q[i] = p[i]
  <2>1. /\ Append(p, e) \in Seq(H) /\ Len(Append(p, e)) = Len(p) + 1 /\ Append(p, e)[Len(p) + 1] = e
        /\ \A i \in 1..Len(p) : Append(p, e)[i] = p[i]
    BY <1>1, <1>2, AppendProperties
  <2> QED BY <1>2, <1>5, <2>1
<1>9. \A i \in 1..m : i = m \/ i \in 1..l
  BY <1>2, <1>6
<1>10. \A i \in 1..m : g[i] = [token |-> g[i].token, edge |-> g[i].edge] /\ g[i].edge \in Nat \ {0}
  <2> TAKE i \in 1..m
  <2>1. CASE i = m
    BY <1>3, <1>7, <2>1
  <2>2. CASE i \in 1..l
    BY <1>2, <1>7, <2>2 DEF Shape
  <2> QED BY <1>9, <2>1, <2>2
<1>11. g[1].token = query.from
  BY <1>2, <1>7 DEF Shape
<1>12. ASSUME NEW i \in 1..l
       PROVE  /\ q[i].from = g[i].token /\ q[i].to = g[i + 1].token
              /\ g[i].edge - 1 \in 1..Len(Edges(pools, g[i].token))
              /\ q[i] = Edges(pools, g[i].token)[g[i].edge - 1]
  <2>1. CASE i = l
    BY <1>1, <1>3, <1>6, <1>7, <1>8, <2>1
  <2>2. CASE i # l
    <3>1. i \in 1..Len(p) /\ i + 1 \in 1..l
      BY <1>2, <2>2
    <3>2. g[i] = fr[i] /\ g[i + 1] = fr[i + 1] /\ q[i] = p[i]
      BY <1>7, <1>8, <3>1
    <3> QED BY <3>1, <3>2 DEF Shape
  <2> QED BY <2>1, <2>2
<1>13. \A i \in 1..l : fr[i].token \in vis /\ fr[i].token # e.to
  BY <1>2 DEF Shape
<1>14. \A i, j \in 1..m : g[i].token = g[j].token => i = j
  <2>1. g[m].token = e.to /\ \A i \in 1..l : g[i].token = fr[i].token
    BY <1>3, <1>7
  <2>2. \A i, j \in 1..l : fr[i].token = fr[j].token => i = j
    BY <1>2 DEF Shape
  <2> QED BY <1>9, <1>13, <2>1, <2>2
<1>15. vis \cup {e.to} = {g[i].token : i \in 1..m}
  <2>1. vis = {fr[i].token : i \in 1..l}
    BY <1>2 DEF Shape
  <2>2. m \in 1..m /\ \A i \in 1..l : i \in 1..m
    BY <1>2, <1>6
  <2> QED BY <1>3, <1>7, <1>9, <2>1, <2>2
<1>16. query.to \notin vis \cup {e.to}
  BY DEF Shape
<1>17. m = l + 1 /\ l < MaxHops
  BY <1>2, <1>6
<1>18. Shape(g, q, vis \cup {e.to})
  BY <1>0, <1>7, <1>8, <1>10, <1>11, <1>12, <1>14, <1>15, <1>16, <1>17 DEF Shape
<1> QED BY <1>3, <1>4, <1>5, <1>18

\* The paths through e are pending again, at the new frame.
LEMMA PushPend ==
    ASSUME pools \in Catalogs, NEW fr, NEW p, NEW vis, Shape(fr, p, vis), NEW e \in AllHops,
           e.to # query.to, NEW r \in Wanted
    PROVE  Pend(Append(fr, [token |-> e.to, edge |-> 1]), Append(p, e), r) <=> (Pend(fr, p, r) \/ Through(p, e, r))
<1>0. PICK H : H = AllHops
  OBVIOUS
<1>1. e \in H
  BY <1>0
<1>2. PICK l \in Nat \ {0} : l = Len(fr) /\ p \in Seq(H) /\ Len(p) \in Nat /\ l = Len(p) + 1
  <2>2. p \in Seq(H)
    BY <1>0 DEF Shape
  <2>3. Len(p) \in Nat /\ Len(fr) = Len(p) + 1
    BY <2>2 DEF Shape
  <2> QED BY <2>2, <2>3
<1>3. PICK t : t = [token |-> e.to, edge |-> 1]
  OBVIOUS
<1>4. PICK g : g = Append(fr, t)
  OBVIOUS
<1>5. PICK q : q = Append(p, e)
  OBVIOUS
<1>6. PICK m \in Nat : m = l + 1
  BY <1>2
<1>7. Len(g) = m /\ g[m] = t /\ \A i \in 1..l : g[i] = fr[i]
  <2>1. IsSeq(fr)
    BY DEF Shape
  <2>2. /\ IsSeq(g) /\ Len(g) = Len(fr) + 1 /\ g[Len(fr) + 1] = t
        /\ \A i \in 1..Len(fr) : g[i] = fr[i]
    BY <1>4, <2>1, AppendFacts
  <2> QED BY <1>2, <1>6, <2>2
<1>8. q[l] = e /\ \A i \in 1..Len(p) : q[i] = p[i]
  <2>1. /\ Append(p, e) \in Seq(H) /\ Len(Append(p, e)) = Len(p) + 1 /\ Append(p, e)[Len(p) + 1] = e
        /\ \A i \in 1..Len(p) : Append(p, e)[i] = p[i]
    BY <1>1, <1>2, AppendProperties
  <2> QED BY <1>2, <1>5, <2>1
<1>9. \A i \in 1..m : i = m \/ i \in 1..l
  BY <1>2, <1>6
<1>10. /\ r \in Seq(H) /\ Len(r) \in Nat
       /\ \A i \in 1..(Len(r) - 1) : r[i].to = r[i + 1].from
  BY <1>0, WantedFacts
<1>11. ASSUME NEW i \in 1..l PROVE PendAt(fr, p, r, i) <=> PendAt(g, q, r, i)
  <2>1. \A k \in 1..(i - 1) : k \in 1..Len(p) /\ q[k] = p[k]
    BY <1>2, <1>8
  <2> QED BY <1>7, <2>1 DEF PendAt
<1>12. ASSUME PendAt(g, q, r, m) PROVE Through(p, e, r)
  <2>1. Len(r) >= m /\ \A k \in 1..(m - 1) : r[k] = q[k]
    BY <1>12 DEF PendAt
  <2>2. m - 1 = l /\ l \in 1..l /\ \A k \in 1..Len(p) : k \in 1..l
    BY <1>2, <1>6
  <2>3. Len(r) > Len(p)
    BY <1>2, <1>6, <1>10, <2>1
  <2> QED BY <1>2, <1>8, <2>1, <2>2, <2>3 DEF Through
<1>13. ASSUME Through(p, e, r) PROVE PendAt(g, q, r, m)
  <2>1. Len(r) > l /\ r[l] = e /\ \A k \in 1..Len(p) : r[k] = p[k]
    BY <1>2, <1>13, ThroughFacts DEF Through
  <2>2. Len(r) >= m /\ l \in 1..(Len(r) - 1) /\ m \in 1..Len(r)
    BY <1>2, <1>6, <1>10, <2>1
  <2>3. r[m] \in H /\ r[m].from = e.to
    BY <1>6, <1>10, <2>1, <2>2
  <2>4. PICK j \in 1..Len(Edges(pools, e.to)) : Edges(pools, e.to)[j] = r[m]
    BY <1>0, <2>3, EdgeFacts
  <2>5. \A k \in 1..(m - 1) : k = l \/ k \in 1..Len(p)
    BY <1>2, <1>6
  <2>6. \A k \in 1..(m - 1) : r[k] = q[k]
    BY <1>8, <2>1, <2>5
  <2>7. j >= 1
    BY <2>4
  <2> QED BY <1>3, <1>7, <2>2, <2>4, <2>6, <2>7 DEF PendAt
<1>14. m \in 1..m /\ \A i \in 1..l : i \in 1..m
  BY <1>2, <1>6
<1>15. Pend(g, q, r) <=> (Pend(fr, p, r) \/ Through(p, e, r))
  BY <1>2, <1>7, <1>9, <1>11, <1>12, <1>13, <1>14 DEF Pend
<1> QED BY <1>3, <1>4, <1>5, <1>15

LEMMA FrontFacts ==
    ASSUME NEW s, IsSeq(s), Len(s) >= 1
    PROVE  /\ IsSeq(Front(s)) /\ Len(Front(s)) = Len(s) - 1
           /\ \A i \in 1..(Len(s) - 1) : Front(s)[i] = s[i]
<1>1. PICK n \in Nat : n = Len(s) /\ n >= 1 /\ DOMAIN s = 1..n
  BY SeqFacts
<1>2. PICK m \in Int : m = n - 1
  BY <1>1
<1>3. PICK S : S = {s[i] : i \in 1..n}
  OBVIOUS
<1>4. \A i \in 1..m : s[i] \in S
  BY <1>1, <1>2, <1>3
<1>5. PICK f : f = SubSeq(s, 1, m)
  OBVIOUS
<1>6. f \in Seq(S) /\ Len(f) = (IF 1 <= m THEN m - 1 + 1 ELSE 0) /\ \A i \in 1..(m - 1 + 1) : f[i] = s[1 + i - 1]
  BY <1>4, <1>5, SubSeqProperties
<1>7. Len(f) = m /\ \A i \in 1..m : f[i] = s[i]
  <2>1. Len(f) = m
    BY <1>1, <1>2, <1>6
  <2>2. ASSUME NEW i \in 1..m PROVE f[i] = s[i]
    <3>1. i \in 1..(m - 1 + 1) /\ 1 + i - 1 = i
      BY <1>2
    <3> QED BY <1>6, <3>1
  <2> QED BY <2>1, <2>2
<1>8. IsSeq(f)
  BY <1>6, InSeq
<1>9. Front(s) = f
  BY <1>1, <1>2, <1>5 DEF Front
<1> QED BY <1>1, <1>2, <1>7, <1>8, <1>9

\* The top frame returns.
Popped(p) == IF p = <<>> THEN <<>> ELSE Front(p)

IsPopOf(l, fr, p, g, q) ==
    /\ l \in Nat \ {0} /\ IsSeq(fr) /\ l = Len(p) + 1 /\ Len(p) \in Nat /\ Len(p) = l - 1
    /\ IsSeq(g) /\ Len(g) = l - 1 /\ \A i \in 1..(l - 1) : g[i] = fr[i]
    /\ l > 1 => /\ q \in Seq(AllHops) /\ Len(q) = l - 2
                /\ \A i \in 1..(l - 2) : q[i] = p[i]

LEMMA PopFacts ==
    ASSUME NEW fr, NEW p, NEW vis, Shape(fr, p, vis), NEW l, l = Len(fr)
    PROVE  IsPopOf(l, fr, p, Front(fr), Popped(p))
<1>0. PICK H : H = AllHops
  OBVIOUS
<1>1. IsSeq(fr) /\ p \in Seq(H)
  BY <1>0 DEF Shape
<1>2. Len(p) \in Nat /\ l = Len(p) + 1
  BY <1>1 DEF Shape
<1>3. l \in Nat \ {0} /\ Len(p) = l - 1
  BY <1>2
<1>4. IsSeq(Front(fr)) /\ Len(Front(fr)) = l - 1 /\ \A i \in 1..(l - 1) : Front(fr)[i] = fr[i]
  BY <1>1, <1>3, FrontFacts
<1>5. ASSUME l > 1
      PROVE  Popped(p) \in Seq(H) /\ Len(Popped(p)) = l - 2 /\ \A i \in 1..(l - 2) : Popped(p)[i] = p[i]
  <2>1. Len(p) >= 1 /\ p # <<>> /\ Len(p) - 1 = l - 2
    BY <1>1, <1>3, <1>5
  <2>2. IsSeq(p)
    BY <1>1, InSeq
  <2>3. Popped(p) = Front(p)
    BY <2>1 DEF Popped
  <2>4. IsSeq(Front(p)) /\ Len(Front(p)) = Len(p) - 1 /\ \A i \in 1..(Len(p) - 1) : Front(p)[i] = p[i]
    BY <2>1, <2>2, FrontFacts
  <2>5. \A i \in 1..(Len(p) - 1) : p[i] \in H
    BY <1>1
  <2>6. Front(p) \in Seq(H)
    BY <2>4, <2>5, IsSeqIn
  <2> QED BY <2>1, <2>3, <2>4, <2>6
<1> QED BY <1>0, <1>1, <1>2, <1>3, <1>4, <1>5 DEF IsPopOf

LEMMA PopShape ==
    ASSUME NEW fr, NEW p, NEW vis, Shape(fr, p, vis), Len(fr) # 1
    PROVE  Shape(Front(fr), Popped(p), vis \ {fr[Len(fr)].token})
<1>1. PICK l : l = Len(fr)
  OBVIOUS
<1>2. PICK g : g = Front(fr)
  OBVIOUS
<1>3. PICK q : q = Popped(p)
  OBVIOUS
<1>4. /\ l \in Nat \ {0} /\ l = Len(p) + 1 /\ Len(p) \in Nat /\ Len(p) = l - 1
      /\ IsSeq(g) /\ Len(g) = l - 1 /\ \A i \in 1..(l - 1) : g[i] = fr[i]
      /\ l > 1 => q \in Seq(AllHops) /\ Len(q) = l - 2 /\ \A i \in 1..(l - 2) : q[i] = p[i]
  <2>1. IsPopOf(l, fr, p, g, q)
    BY <1>1, <1>2, <1>3, PopFacts
  <2> QED BY <2>1 DEF IsPopOf
<1>4a. l \in Nat \ {0} /\ l # 1
  BY <1>1, <1>4
<1>5. l > 1 /\ l - 1 \in Nat /\ l - 2 \in Nat
  BY <1>4a
<1>6. /\ 1 \in 1..(l - 1) /\ l \in 1..l /\ \A i \in 1..(l - 1) : i \in 1..l /\ i # l
      /\ \A i \in 1..(l - 2) : i \in 1..Len(p) /\ i \in 1..(l - 1) /\ i + 1 \in 1..(l - 1)
  BY <1>4, <1>5
<1>7. \A i \in 1..(l - 1) : g[i] = [token |-> g[i].token, edge |-> g[i].edge] /\ g[i].edge \in Nat \ {0}
  BY <1>1, <1>4, <1>6 DEF Shape
<1>8. g[1].token = query.from
  BY <1>4, <1>6 DEF Shape
<1>9. \A i \in 1..(l - 2) : /\ q[i].from = g[i].token /\ q[i].to = g[i + 1].token
                            /\ g[i].edge - 1 \in 1..Len(Edges(pools, g[i].token))
                            /\ q[i] = Edges(pools, g[i].token)[g[i].edge - 1]
  <2> TAKE i \in 1..(l - 2)
  <2>1. i \in 1..Len(p) /\ g[i] = fr[i] /\ g[i + 1] = fr[i + 1] /\ q[i] = p[i]
    BY <1>4, <1>5, <1>6
  <2> QED BY <2>1 DEF Shape
<1>10. \A i, j \in 1..l : fr[i].token = fr[j].token => i = j
  BY <1>1 DEF Shape
<1>11. \A i, j \in 1..(l - 1) : g[i].token = g[j].token => i = j
  <2>1. \A i \in 1..(l - 1) : g[i].token = fr[i].token /\ i \in 1..l
    BY <1>4, <1>6
  <2> QED BY <1>10, <2>1
<1>12. vis = {fr[i].token : i \in 1..l} /\ query.to \notin vis
  BY <1>1 DEF Shape
<1>13. vis \ {fr[l].token} = {g[i].token : i \in 1..(l - 1)}
  <2>1. \A i \in 1..l : i = l \/ i \in 1..(l - 1)
    BY <1>4a
  <2>2. \A i \in 1..(l - 1) : fr[i].token # fr[l].token /\ g[i].token = fr[i].token
    BY <1>4, <1>6, <1>10
  <2>3. \A x : x \in vis \ {fr[l].token} <=> \E i \in 1..(l - 1) : x = fr[i].token
    BY <1>6, <1>12, <2>1, <2>2
  <2> QED BY <2>2, <2>3
<1>14. Len(g) = Len(q) + 1 /\ Len(q) < MaxHops
  <2>1. l - 1 < MaxHops /\ MaxHops \in Nat
    BY <1>4, RouterAssumption DEF Shape
  <2> QED BY <1>4, <1>5, <2>1
<1>15. q \in Seq(AllHops) /\ Len(q) = l - 2 /\ Len(g) = l - 1
  BY <1>4, <1>5
<1>16. Shape(g, q, vis \ {fr[l].token})
  BY <1>4, <1>7, <1>8, <1>9, <1>11, <1>12, <1>13, <1>14, <1>15 DEF Shape
<1> QED BY <1>1, <1>2, <1>3, <1>16

LEMMA PopPend ==
    ASSUME NEW fr, NEW p, NEW vis, Shape(fr, p, vis), NEW r,
           fr[Len(fr)].edge > Len(Edges(pools, fr[Len(fr)].token)), pools \in Catalogs
    PROVE  /\ Pend(Front(fr), Popped(p), r) <=> Pend(fr, p, r)
           /\ Len(fr) = 1 => ~Pend(fr, p, r)
<1>1. PICK l : l = Len(fr)
  OBVIOUS
<1>2. PICK g : g = Front(fr)
  OBVIOUS
<1>3. PICK q : q = Popped(p)
  OBVIOUS
<1>4. /\ l \in Nat \ {0}
      /\ Len(g) = l - 1 /\ \A i \in 1..(l - 1) : g[i] = fr[i]
      /\ l > 1 => \A i \in 1..(l - 2) : q[i] = p[i]
  <2>1. IsPopOf(l, fr, p, g, q)
    BY <1>1, <1>2, <1>3, PopFacts
  <2> QED BY <2>1 DEF IsPopOf
<1>5. ~PendAt(fr, p, r, l)
  <2>1. PICK n \in Nat : n = Len(Edges(pools, fr[l].token))
    BY EdgeFacts
  <2>2. PICK x \in Nat : x = fr[l].edge
    BY <1>1, <1>4 DEF Shape
  <2>3. ~(\E j \in 1..n : j >= x)
    BY <1>1, <2>1, <2>2
  <2> QED BY <2>1, <2>2, <2>3 DEF PendAt
<1>6. ASSUME NEW i \in 1..(l - 1) PROVE PendAt(g, q, r, i) <=> PendAt(fr, p, r, i)
  <2>1. \A m \in 1..(i - 1) : m \in 1..(l - 2) /\ q[m] = p[m]
    BY <1>4
  <2> QED BY <1>4, <2>1 DEF PendAt
<1>7. \A i \in 1..l : i = l \/ i \in 1..(l - 1)
  BY <1>4
<1>8. \A i \in 1..(l - 1) : i \in 1..l
  BY <1>4
<1>9. Pend(g, q, r) <=> Pend(fr, p, r)
  BY <1>1, <1>4, <1>5, <1>6, <1>7, <1>8 DEF Pend
<1>10. l = 1 => ~Pend(fr, p, r)
  <2>1. l = 1 => \A i \in 1..l : i = l
    OBVIOUS
  <2> QED BY <1>1, <1>5, <2>1 DEF Pend
<1> QED BY <1>1, <1>2, <1>3, <1>9, <1>10

\* What is recorded: the wanted paths that are not pending, each once.
Recorded(rs, fr, p) ==
    /\ IsSeq(rs) /\ \A i \in 1..Len(rs) : rs[i] \in Wanted
    /\ \A i, j \in 1..Len(rs) : rs[i] = rs[j] => i = j
    /\ \A r \in Wanted : (\E i \in 1..Len(rs) : rs[i] = r) <=> ~Pend(fr, p, r)

LEMMA DfsRigid ==
    ASSUME UNCHANGED <<pools, query>>, NEW rs, NEW fr, NEW p, NEW vis
    PROVE  /\ Shape(fr, p, vis)' <=> Shape(fr, p, vis)
           /\ Recorded(rs, fr, p)' <=> Recorded(rs, fr, p)
<1>1. AllHops' = AllHops /\ Wanted' = Wanted
  BY PathSetSame DEF Wanted
<1>2. \A r : Pend(fr, p, r)' <=> Pend(fr, p, r)
  BY DEF Pend, PendAt
<1>3. Shape(fr, p, vis)' <=> Shape(fr, p, vis)
  BY <1>1 DEF Shape
<1>4. Recorded(rs, fr, p)' <=> Recorded(rs, fr, p)
  BY <1>1, <1>2 DEF Recorded
<1> QED BY <1>3, <1>4

\* A request keeps its pools, its query and its gas price.
ReqInv ==
    \/ pc = "idle" /\ routes = <<>> /\ answer = [status |-> "none"]
    \/ pc # "idle" /\ pools \in Catalogs /\ query \in Queries /\ gas \in GasCosts

LEMMA ReqInductive == ReqInv /\ [Next]_vars => ReqInv'
<1> SUFFICES ASSUME ReqInv, [Next]_vars PROVE ReqInv'
  OBVIOUS
<1>1. CASE RouterNext
  <2>1. pc # "idle" /\ pc' # "idle" /\ UNCHANGED <<pools, query, gas>>
    BY <1>1 DEF RouterNext, StartDijkstra, DijkstraPop, DijkstraExhausted, StartDfs, DfsEdge, DfsReturn,
          StartBellman, BellmanRound, BellmanEnd, StartSplit, SplitRound, Finish
  <2> QED BY <2>1 DEF ReqInv
<1>2. CASE UNCHANGED routerVars
  BY <1>2 DEF ReqInv, routerVars
<1> QED BY <1>1, <1>2 DEF Next, vars

LEMMA ReqFacts ==
    ASSUME ReqInv, pc # "idle"
    PROVE  pools \in Catalogs /\ query.amount \in Nat /\ Threshold \in Nat /\ MaxHops \in Nat
BY RouterAssumption DEF ReqInv

DfsAt(fr, p, vis) ==
    /\ search = [frames |-> fr, path |-> p, visited |-> vis]
    /\ Shape(fr, p, vis) /\ Recorded(routes, fr, p)

AllRecorded ==
    /\ IsSeq(routes) /\ \A i \in 1..Len(routes) : routes[i] \in Wanted
    /\ \A i, j \in 1..Len(routes) : routes[i] = routes[j] => i = j
    /\ \A r \in Wanted : \E i \in 1..Len(routes) : routes[i] = r

DfsInv ==
    /\ ReqInv
    /\ pc = "start" => routes = <<>>
    /\ pc = "dijkstra" => query.amount <= Threshold
    /\ pc = "dfs" => /\ query.amount > Threshold /\ query.from # query.to
                     /\ \E fr, p, vis : DfsAt(fr, p, vis)
    /\ pc = "found" /\ query.amount > Threshold /\ query.from # query.to => AllRecorded

LEMMA DfsStarts ==
    ASSUME DfsInv, StartDfs
    PROVE  DfsInv'
<1>1. ReqInv'
  BY ReqInductive DEF DfsInv, StartDfs, Next, RouterNext, ReqInv
<1>2. UNCHANGED <<pools, query, routes>> /\ routes = <<>> /\ query.amount > Threshold /\ pc # "idle"
  BY DEF StartDfs, DfsInv
<1>3. IsSeq(routes) /\ Len(routes) = 0
  BY <1>2, EmptyFacts
<1>4. \A i \in 1..Len(routes) : FALSE
  BY <1>3
<1>5. CASE query.from = query.to \/ MaxHops = 0
  <2>1. pc' = "found"
    BY <1>5 DEF StartDfs
  <2>2. CASE query.from = query.to
    BY <1>1, <1>2, <2>1, <2>2 DEF DfsInv
  <2>3. CASE MaxHops = 0
    <3>1. Wanted = {}
      BY <2>3, WantedFacts
    <3>2. Wanted' = Wanted
      BY <1>2, PathSetSame DEF Wanted
    <3>3. AllRecorded'
      BY <1>2, <1>3, <1>4, <3>1, <3>2 DEF AllRecorded
    <3> QED BY <1>1, <2>1, <3>3 DEF DfsInv
  <2> QED BY <1>5, <2>2, <2>3
<1>6. CASE ~(query.from = query.to \/ MaxHops = 0)
  <2>1. PICK t : t = [token |-> query.from, edge |-> 1]
    OBVIOUS
  <2>2. PICK fr : fr = <<t>>
    OBVIOUS
  <2>3. pc' = "dfs" /\ search' = [frames |-> fr, path |-> <<>>, visited |-> {query.from}]
    BY <1>6, <2>1, <2>2 DEF StartDfs
  <2>4. IsSeq(fr) /\ Len(fr) = 1 /\ fr[1] = t
    <3>1. fr \in Seq({t}) /\ Len(fr) = 1 /\ fr[1] = t
      BY <2>2
    <3> QED BY <3>1, InSeq
  <2>5. t.token = query.from /\ t.edge = 1
    BY <2>1
  <2>6. MaxHops \in Nat \ {0} /\ pools \in Catalogs
    BY <1>2, <1>6, ReqFacts DEF DfsInv
  <2>7. PICK e : e = <<>>
    OBVIOUS
  <2>8. e \in Seq(AllHops) /\ Len(e) = 0
    BY <2>7
  <2>9. \A i \in 1..Len(fr) : i = 1
    BY <2>4
  <2>10. \A i \in 1..Len(e) : FALSE
    BY <2>8
  <2>11. {query.from} = {fr[i].token : i \in 1..Len(fr)}
    BY <2>4, <2>5, <2>9
  <2>12. Shape(fr, e, {query.from})
    BY <1>6, <2>1, <2>4, <2>5, <2>6, <2>8, <2>9, <2>10, <2>11 DEF Shape
  <2>13. ASSUME NEW r \in Wanted PROVE Pend(fr, e, r)
    <3>0. PICK H : H = AllHops
      OBVIOUS
    <3>1. r \in Seq(H) /\ Len(r) \in Nat \ {0} /\ r[1].from = query.from
      BY <3>0, WantedFacts
    <3>2. r[1] \in H
      BY <3>1
    <3>3. PICK j \in 1..Len(Edges(pools, query.from)) : Edges(pools, query.from)[j] = r[1]
      BY <2>6, <3>0, <3>1, <3>2, EdgeFacts
    <3>4. Len(r) >= 1 /\ j >= 1 /\ \A m \in 1..(1 - 1) : FALSE
      BY <3>1
    <3>5. PendAt(fr, e, r, 1)
      BY <2>4, <2>5, <3>3, <3>4 DEF PendAt
    <3> QED BY <2>4, <3>5 DEF Pend
  <2>14. Recorded(routes, fr, e)
    BY <1>3, <1>4, <2>13 DEF Recorded
  <2>15. Shape(fr, e, {query.from})'
    <3>1. PICK v : v = {query.from}
      OBVIOUS
    <3>2. Shape(fr, e, v)'
      BY <1>2, <2>12, <3>1, DfsRigid
    <3> QED BY <1>2, <3>1, <3>2
  <2>16. Recorded(routes, fr, e)'
    <3>1. PICK rs : rs = routes
      OBVIOUS
    <3>2. Recorded(rs, fr, e)'
      BY <1>2, <2>14, <3>1, DfsRigid
    <3> QED BY <1>2, <3>1, <3>2
  <2>17. DfsAt(fr, e, {query.from})'
    BY <1>2, <2>3, <2>7, <2>15, <2>16 DEF DfsAt
  <2>18. (\E f, p, vis : DfsAt(f, p, vis))'
    BY <2>17
  <2> QED BY <1>1, <1>2, <1>6, <2>3, <2>18 DEF DfsInv
<1> QED BY <1>5, <1>6

LEMMA DfsLooks ==
    ASSUME DfsInv, DfsEdge
    PROVE  DfsInv'
<1>1. ReqInv'
  BY ReqInductive DEF DfsInv, DfsEdge, Next, RouterNext, ReqInv
<1>2. pc = "dfs" /\ UNCHANGED <<pools, query, pc>> /\ query.amount > Threshold /\ query.from # query.to
  BY DEF DfsEdge, DfsInv
<1>3. pools \in Catalogs /\ MaxHops \in Nat
  BY <1>2, ReqFacts DEF DfsInv
<1>4. PICK fr, p, vis : DfsAt(fr, p, vis)
  BY <1>2 DEF DfsInv
<1>5. search = [frames |-> fr, path |-> p, visited |-> vis] /\ Shape(fr, p, vis) /\ Recorded(routes, fr, p)
  BY <1>4 DEF DfsAt
<1>6. PICK rs : rs = routes
  OBVIOUS
<1>7. search.frames = fr /\ search.path = p /\ search.visited = vis
  BY <1>5
<1>8. PICK l : l = Len(fr)
  OBVIOUS
<1>9. l \in Nat \ {0} /\ IsSeq(fr) /\ l = Len(p) + 1 /\ Len(p) \in Nat /\ l \in 1..l
  <2>1. IsPopOf(l, fr, p, Front(fr), Popped(p))
    BY <1>5, <1>8, PopFacts
  <2>2. l \in Nat \ {0} /\ IsSeq(fr) /\ l = Len(p) + 1 /\ Len(p) \in Nat
    BY <2>1 DEF IsPopOf
  <2> QED BY <2>2
<1>10. PICK es : es = Edges(pools, fr[l].token)
  OBVIOUS
<1>11. PICK x \in Nat \ {0} : x = fr[l].edge /\ fr[l] = [token |-> fr[l].token, edge |-> x]
  BY <1>5, <1>8, <1>9 DEF Shape
<1>12. PICK e : e = es[x]
  OBVIOUS
<1>13. PICK g : g = Advanced(fr)
  OBVIOUS
<1>14. PICK next : next = [frames |-> g, path |-> p, visited |-> vis]
  OBVIOUS
<1>15. [search EXCEPT !.frames[Len(search.frames)].edge = @ + 1] = next
  <2>1. [fr[l] EXCEPT !.edge = @ + 1] = [token |-> fr[l].token, edge |-> x + 1]
    BY <1>11
  <2>2. [fr EXCEPT ![l].edge = @ + 1] = [fr EXCEPT ![l] = [fr[l] EXCEPT !.edge = @ + 1]]
    OBVIOUS
  <2>3. [fr EXCEPT ![l].edge = @ + 1] = g
    BY <1>8, <1>11, <1>13, <2>1, <2>2 DEF Advanced
  <2>4. [search EXCEPT !.frames[Len(search.frames)].edge = @ + 1]
          = [search EXCEPT !.frames = [fr EXCEPT ![l].edge = @ + 1]]
    BY <1>7, <1>8
  <2>5. [search EXCEPT !.frames = g] = next
    BY <1>5, <1>14
  <2> QED BY <2>3, <2>4, <2>5
<1>16. /\ x <= Len(es)
       /\ IF e.to \notin vis /\ e.to = query.to
          THEN routes' = Append(rs, Append(p, e)) /\ search' = next
          ELSE /\ search' = IF e.to \in vis \/ Len(Append(p, e)) >= MaxHops THEN next
                            ELSE [frames  |-> Append(g, [token |-> e.to, edge |-> 1]),
                                  path    |-> Append(p, e),
                                  visited |-> vis \cup {e.to}]
               /\ routes' = rs
  <2>1. Last(fr) = fr[l]
    BY <1>8 DEF Last
  <2>2. next.frames = g
    BY <1>14
  <2> QED BY <1>6, <1>7, <1>10, <1>11, <1>12, <1>15, <2>1, <2>2 DEF DfsEdge
<1>17. Len(es) \in Nat /\ x \in 1..Len(es) /\ e \in AllHops /\ e.from = fr[l].token
  <2>1. Len(es) \in Nat /\ \A j \in 1..Len(es) : es[j] \in AllHops /\ es[j].from = fr[l].token
    BY <1>3, <1>10, EdgeFacts
  <2>2. x \in 1..Len(es)
    BY <1>16, <2>1
  <2> QED BY <1>12, <2>1, <2>2
<1>18. Shape(g, p, vis)
  BY <1>5, <1>13, AdvancedShape
<1>19. \A r \in Wanted : /\ Pend(fr, p, r) <=> (Pend(g, p, r) \/ Through(p, e, r))
                         /\ Through(p, e, r) => ~Pend(g, p, r)
  BY <1>3, <1>5, <1>8, <1>10, <1>11, <1>12, <1>13, <1>16, AdvancedPend
<1>20. Len(Append(p, e)) = Len(p) + 1
  <2>1. PICK H : H = AllHops
    OBVIOUS
  <2>2. p \in Seq(H) /\ e \in H
    BY <1>5, <1>17, <2>1 DEF Shape
  <2> QED BY <2>2
<1>21. ASSUME NEW f, NEW q, NEW v, NEW ts, search' = [frames |-> f, path |-> q, visited |-> v], routes' = ts,
              Shape(f, q, v), Recorded(ts, f, q)
       PROVE  DfsInv'
  <2>1. Shape(f, q, v)' /\ Recorded(ts, f, q)'
    BY <1>2, <1>21, DfsRigid
  <2>2. DfsAt(f, q, v)'
    BY <1>21, <2>1 DEF DfsAt
  <2>3. (\E a, b, c : DfsAt(a, b, c))'
    BY <2>2
  <2> QED BY <1>1, <1>2, <2>3 DEF DfsInv
<1>22. CASE e.to \notin vis /\ e.to = query.to
  <2>1. PICK w : w = Append(p, e)
    OBVIOUS
  <2>2. w \in Wanted /\ Through(p, e, w)
    BY <1>2, <1>5, <1>8, <1>17, <1>22, <2>1, AppendWanted
  <2>3. PICK ts : ts = Append(rs, w)
    OBVIOUS
  <2>4. IsSeq(rs) /\ Len(rs) \in Nat
    BY <1>5, <1>6, SeqFacts DEF Recorded
  <2>5. PICK n \in Nat : n = Len(rs) + 1 /\ n \in 1..n /\ (\A i \in 1..n : i = n \/ i \in 1..Len(rs))
                         /\ \A i \in 1..Len(rs) : i \in 1..n
    <3>1. Len(rs) + 1 \in Nat
      BY <2>4
    <3>2. PICK n \in Nat : n = Len(rs) + 1
      BY <3>1
    <3> QED BY <2>4, <3>2
  <2>6. IsSeq(ts) /\ Len(ts) = n /\ ts[n] = w /\ \A i \in 1..Len(rs) : ts[i] = rs[i]
    BY <2>3, <2>4, <2>5, AppendFacts
  <2>7. /\ \A i \in 1..Len(rs) : rs[i] \in Wanted
        /\ \A i, j \in 1..Len(rs) : rs[i] = rs[j] => i = j
        /\ \A r \in Wanted : (\E i \in 1..Len(rs) : rs[i] = r) <=> ~Pend(fr, p, r)
    BY <1>5, <1>6 DEF Recorded
  <2>8. \A i \in 1..Len(rs) : rs[i] # w
    BY <1>19, <2>2, <2>7
  <2>9. \A r \in Wanted : Through(p, e, r) => r = w
    BY <1>5, <1>22, <2>1, ThroughFacts
  <2>10. \A r \in Wanted : (\E i \in 1..n : ts[i] = r) <=> ~Pend(g, p, r)
    <3> TAKE r \in Wanted
    <3>1. (\E i \in 1..n : ts[i] = r) <=> ((\E i \in 1..Len(rs) : rs[i] = r) \/ r = w)
      BY <2>5, <2>6
    <3> QED BY <1>19, <2>2, <2>7, <2>9, <3>1
  <2>11. \A i, j \in 1..n : ts[i] = ts[j] => i = j
    BY <2>5, <2>6, <2>7, <2>8
  <2>12. \A i \in 1..n : ts[i] \in Wanted
    BY <2>2, <2>5, <2>6, <2>7
  <2>13. Recorded(ts, g, p)
    BY <2>6, <2>10, <2>11, <2>12 DEF Recorded
  <2> QED BY <1>14, <1>16, <1>18, <1>21, <1>22, <2>1, <2>3, <2>13
<1>23. CASE ~(e.to \notin vis /\ e.to = query.to)
  <2>1. CASE e.to \in vis \/ Len(Append(p, e)) >= MaxHops
    <3>1. search' = [frames |-> g, path |-> p, visited |-> vis] /\ routes' = rs
      BY <1>14, <1>16, <1>23, <2>1
    <3>2. \A r \in Wanted : ~Through(p, e, r)
      BY <1>5, <1>20, <1>23, <2>1, ThroughFacts
    <3>3. Recorded(rs, g, p)
      BY <1>5, <1>6, <1>19, <3>2 DEF Recorded
    <3> QED BY <1>18, <1>21, <3>1, <3>3
  <2>2. CASE ~(e.to \in vis \/ Len(Append(p, e)) >= MaxHops)
    <3>1. PICK f : f = Append(g, [token |-> e.to, edge |-> 1])
      OBVIOUS
    <3>2. PICK q : q = Append(p, e)
      OBVIOUS
    <3>3. search' = [frames |-> f, path |-> q, visited |-> vis \cup {e.to}] /\ routes' = rs
      BY <1>16, <1>23, <2>2, <3>1, <3>2
    <3>4. e.to \notin vis /\ e.to # query.to /\ Len(p) + 1 < MaxHops
      BY <1>3, <1>9, <1>20, <1>23, <2>2
    <3>5. Len(g) = l /\ g[l].token = fr[l].token /\ g[l].edge - 1 = x
      <4>1. Len(g) = l /\ g[l] = [token |-> fr[l].token, edge |-> x + 1]
        <5>1. Len(fr) >= 1
          BY <1>8, <1>9
        <5>2. /\ Len(Advanced(fr)) = Len(fr)
              /\ Advanced(fr)[Len(fr)] = [token |-> fr[Len(fr)].token, edge |-> fr[Len(fr)].edge + 1]
          BY <1>9, <5>1, AdvancedFacts
        <5> QED BY <1>8, <1>11, <1>13, <5>2
      <4>2. g[l].token = fr[l].token /\ g[l].edge = x + 1
        BY <4>1
      <4> QED BY <4>1, <4>2
    <3>6. Shape(f, q, vis \cup {e.to})
      BY <1>3, <1>10, <1>12, <1>17, <1>18, <3>1, <3>2, <3>4, <3>5, PushShape
    <3>7. \A r \in Wanted : Pend(f, q, r) <=> (Pend(g, p, r) \/ Through(p, e, r))
      BY <1>3, <1>17, <1>18, <3>1, <3>2, <3>4, PushPend
    <3>8. Recorded(rs, f, q)
      BY <1>5, <1>6, <1>19, <3>7 DEF Recorded
    <3> QED BY <1>21, <3>3, <3>6, <3>8
  <2> QED BY <2>1, <2>2
<1> QED BY <1>22, <1>23

LEMMA DfsReturns ==
    ASSUME DfsInv, DfsReturn
    PROVE  DfsInv'
<1>1. ReqInv'
  BY ReqInductive DEF DfsInv, DfsReturn, Next, RouterNext, ReqInv
<1>2. pc = "dfs" /\ UNCHANGED <<pools, query, routes>> /\ query.amount > Threshold /\ query.from # query.to
  BY DEF DfsReturn, DfsInv
<1>3. pools \in Catalogs
  BY <1>2, ReqFacts DEF DfsInv
<1>4. PICK fr, p, vis : DfsAt(fr, p, vis)
  BY <1>2 DEF DfsInv
<1>5. search = [frames |-> fr, path |-> p, visited |-> vis] /\ Shape(fr, p, vis) /\ Recorded(routes, fr, p)
  BY <1>4 DEF DfsAt
<1>6. PICK rs : rs = routes
  OBVIOUS
<1>7. search.frames = fr /\ search.path = p /\ search.visited = vis
  BY <1>5
<1>8. PICK l : l = Len(fr)
  OBVIOUS
<1>9. PICK t : t = fr[l].token
  OBVIOUS
<1>10. PICK g : g = Front(fr)
  OBVIOUS
<1>11. PICK q : q = Popped(p)
  OBVIOUS
<1>12. /\ fr[l].edge > Len(Edges(pools, fr[l].token))
       /\ search' = [frames |-> g, path |-> q, visited |-> vis \ {t}]
       /\ pc' = IF l = 1 THEN "found" ELSE "dfs"
  BY <1>2, <1>7, <1>8, <1>9, <1>10, <1>11 DEF DfsReturn, Last, Popped
<1>13. \A r : (Pend(g, q, r) <=> Pend(fr, p, r)) /\ (l = 1 => ~Pend(fr, p, r))
  BY <1>3, <1>5, <1>8, <1>10, <1>11, <1>12, PopPend
<1>14. CASE l = 1
  <2>1. pc' = "found"
    BY <1>12, <1>14
  <2>2. Wanted' = Wanted
    BY <1>2, PathSetSame DEF Wanted
  <2>3. AllRecorded
    BY <1>5, <1>13, <1>14 DEF Recorded, AllRecorded
  <2>4. AllRecorded'
    BY <1>2, <2>2, <2>3 DEF AllRecorded
  <2> QED BY <1>1, <2>1, <2>4 DEF DfsInv
<1>15. CASE l # 1
  <2>1. Shape(g, q, vis \ {t})
    BY <1>5, <1>8, <1>9, <1>10, <1>11, <1>15, PopShape
  <2>2. Recorded(rs, g, q)
    BY <1>5, <1>6, <1>13 DEF Recorded
  <2>3. Shape(g, q, vis \ {t})' /\ Recorded(rs, g, q)'
    BY <1>2, <2>1, <2>2, DfsRigid
  <2>4. DfsAt(g, q, vis \ {t})'
    BY <1>2, <1>6, <1>12, <2>3 DEF DfsAt
  <2>5. (\E a, b, c : DfsAt(a, b, c))'
    BY <2>4
  <2> QED BY <1>1, <1>2, <1>12, <1>15, <2>5 DEF DfsInv
<1> QED BY <1>14, <1>15

LEMMA DfsInductive == DfsInv /\ [Next]_vars => DfsInv'
<1> SUFFICES ASSUME DfsInv, [Next]_vars PROVE DfsInv'
  OBVIOUS
<1>1. ReqInv'
  BY ReqInductive DEF DfsInv
<1>2. CASE StartDfs
  BY <1>2, DfsStarts
<1>3. CASE DfsEdge
  BY <1>3, DfsLooks
<1>4. CASE DfsReturn
  BY <1>4, DfsReturns
<1>5. CASE UNCHANGED routerVars
  <2>1. UNCHANGED <<pools, query, routes, search, pc>>
    BY <1>5 DEF routerVars
  <2>2. Wanted' = Wanted
    BY <2>1, PathSetSame DEF Wanted
  <2>3. ASSUME NEW fr, NEW p, NEW vis, DfsAt(fr, p, vis) PROVE DfsAt(fr, p, vis)'
    <3>1. PICK rs : rs = routes
      OBVIOUS
    <3>2. Shape(fr, p, vis)' /\ Recorded(rs, fr, p)'
      BY <2>1, <2>3, <3>1, DfsRigid DEF DfsAt
    <3> QED BY <2>1, <2>3, <3>1, <3>2 DEF DfsAt
  <2>4. (\E fr, p, vis : DfsAt(fr, p, vis)) => (\E fr, p, vis : DfsAt(fr, p, vis))'
    BY <2>3
  <2>5. AllRecorded => AllRecorded'
    BY <2>1, <2>2 DEF AllRecorded
  <2> QED BY <1>1, <2>1, <2>4, <2>5 DEF DfsInv
<1>6. CASE RouterNext /\ ~StartDfs /\ ~DfsEdge /\ ~DfsReturn
  <2>1. pc # "idle"
    BY <1>6 DEF RouterNext, StartDijkstra, DijkstraPop, DijkstraExhausted,
          StartBellman, BellmanRound, BellmanEnd, StartSplit, SplitRound
  <2>2. query.amount \in Nat /\ Threshold \in Nat
    BY <2>1, ReqFacts DEF DfsInv
  <2>3. ~(query.amount > Threshold /\ query.amount <= Threshold)
    BY <2>2
  <2>4. CASE StartDijkstra
    BY <1>1, <2>4 DEF StartDijkstra, DfsInv
  <2>5. CASE DijkstraPop
    <3>1. pc = "dijkstra" /\ pc' \in {"dijkstra", "found"} /\ UNCHANGED query
      BY <2>5 DEF DijkstraPop
    <3> QED BY <1>1, <2>3, <3>1 DEF DfsInv
  <2>6. CASE DijkstraExhausted
    BY <1>1, <2>3, <2>6 DEF DijkstraExhausted, DfsInv
  <2>7. CASE pc' \in {"bellman", "done", "split"}
    BY <1>1, <2>7 DEF DfsInv
  <2>8. CASE StartBellman \/ BellmanRound \/ BellmanEnd \/ StartSplit
             \/ \E w \in [DOMAIN active -> 0..MaxWeight] : SplitRound(w)
    <3>1. pc' \in {"bellman", "done", "split"}
      BY <2>8 DEF StartBellman, BellmanRound, BellmanEnd, StartSplit, SplitRound, Finish
    <3> QED BY <2>7, <3>1
  <2> QED BY <1>6, <2>4, <2>5, <2>6, <2>8 DEF RouterNext
<1> QED BY <1>2, <1>3, <1>4, <1>5, <1>6 DEF Next, vars

\* A list without repetitions is as long as its set of elements is large.
LEMMA DistinctCount ==
    ASSUME NEW s, IsSeq(s), \A i, j \in 1..Len(s) : s[i] = s[j] => i = j
    PROVE  Cardinality(ToSet(s)) = Len(s)
<1>1. PICK n \in Nat : n = Len(s) /\ DOMAIN s = 1..n
  BY SeqFacts
<1>2. PICK S : S = ToSet(s)
  OBVIOUS
<1>3. S = {s[i] : i \in 1..n}
  BY <1>1, <1>2 DEF ToSet
<1>4. s = [i \in 1..n |-> s[i]]
  <2>1. s \in Seq({s[i] : i \in DOMAIN s})
    BY DEF IsSeq
  <2> QED BY <1>1, <2>1
<1>5. s \in [1..n -> S]
  BY <1>3, <1>4
<1>6. s \in Bijection(1..n, S)
  BY <1>1, <1>3, <1>5 DEF Bijection, Injection, Surjection, IsInjective
<1>7. ExistsBijection(1..n, S)
  BY <1>6 DEF ExistsBijection
<1>8. Cardinality(S) = n
  BY <1>7, FS_CountingElements
<1> QED BY <1>1, <1>2, <1>8

\* For any catalog, request, number of hops and pool order: find_all_paths_dfs,
\* whose calls share one path and one set of visited tokens, lists every simple
\* path of at most max_hops hops exactly once.
THEOREM DfsFindsAll == Spec => []DfsComplete
<1>1. Init => DfsInv
  BY DEF Init, RouterInit, RouterIdle, DfsInv, ReqInv
<1>2. ASSUME DfsInv PROVE DfsComplete
  <2> SUFFICES ASSUME pc = "found", query.amount > Threshold, query.from # query.to
               PROVE  /\ ToSet(routes) = SimplePaths(query.from, query.to, MaxHops)
                      /\ Cardinality(ToSet(routes)) = Len(routes)
    BY DEF DfsComplete
  <2>1. AllRecorded
    BY <1>2 DEF DfsInv
  <2>2. SimplePaths(query.from, query.to, MaxHops) = Wanted
    BY PathSetIs, RouterAssumption DEF Wanted
  <2>3. IsSeq(routes) /\ DOMAIN routes = 1..Len(routes)
    BY <2>1, SeqFacts DEF AllRecorded
  <2>4. ToSet(routes) = Wanted
    BY <2>1, <2>3 DEF AllRecorded, ToSet
  <2>5. Cardinality(ToSet(routes)) = Len(routes)
    BY <2>1, DistinctCount DEF AllRecorded
  <2> QED BY <2>2, <2>4, <2>5
<1> QED BY <1>1, <1>2, DfsInductive, PTL DEF Spec

-----------------------------------------------------------------------------
\* Dijkstra's search.  d, p and h are its distances, parents and heap.

Weight(e, hc) == e.fee + hc

\* e cannot improve the distance of the token it enters.
Settled(d, e, hc) == e.to \in DOMAIN d /\ d[e.to] <= d[e.from] + Weight(e, hc)

AllSettled(d, u, hc) == \A e \in AllHops : e.from = u => Settled(d, e, hc)

Open(d, h, u) == [token |-> u, cost |-> d[u]] \in h

\* The distances, and the parents that account for them.
Tree(d, p, hc) ==
    /\ query.from \in DOMAIN d /\ d[query.from] = 0
    /\ IsFiniteSet(DOMAIN d) /\ \A t \in DOMAIN d : d[t] \in Nat
    /\ DOMAIN p = DOMAIN d \ {query.from}
    /\ \A t \in DOMAIN p : /\ p[t] \in AllHops /\ p[t].to = t /\ p[t].from \in DOMAIN d
                           /\ d[p[t].from] + Weight(p[t], hc) <= d[t]

\* The heap has every token whose edges may still improve something.
Heap(d, h) ==
    /\ \A n \in h : /\ n = [token |-> n.token, cost |-> n.cost] /\ n.token \in DOMAIN d
                    /\ n.cost \in Nat /\ d[n.token] <= n.cost
    /\ query.to \in DOMAIN d => Open(d, h, query.to)

LEMMA FeeFacts ==
    ASSUME pools \in Catalogs, NEW e \in AllHops
    PROVE  e.fee \in Nat
<1>1. PICK i \in DOMAIN pools : HopOf(i, e.from, e)
  BY HopIn
<1>2. e.fee = pools[i].fee
  BY <1>1, HopFields DEF HopOf
<1>3. pools[i].fee \in 0..FeeScale /\ FeeScale \in Nat
  BY CatalogFacts, RouterAssumption
<1> QED BY <1>2, <1>3

\* What relaxing an edge out of u, whose distance is c, does.
Relaxes(d, p, h, d2, p2, h2, e, c) ==
    \/ d2 = d /\ p2 = p /\ h2 = h /\ e.to \in DOMAIN d /\ c + e.fee + HopCost >= d[e.to]
    \/ /\ ~(e.to \in DOMAIN d /\ c + e.fee + HopCost >= d[e.to])
       /\ d2 = Put(d, e.to, c + e.fee + HopCost) /\ p2 = Put(p, e.to, e)
       /\ h2 = h \cup {[token |-> e.to, cost |-> c + e.fee + HopCost]}

LEMMA RelaxEdgeIs ==
    ASSUME NEW d, NEW p, NEW h, NEW e, NEW c
    PROVE  \E d2, p2, h2 :
              /\ RelaxEdge([dist |-> d, parent |-> p, heap |-> h], c, e) = [dist |-> d2, parent |-> p2, heap |-> h2]
              /\ Relaxes(d, p, h, d2, p2, h2, e, c)
<1> DEFINE s == [dist |-> d, parent |-> p, heap |-> h]
<1>1. s.dist = d /\ s.parent = p /\ s.heap = h
  OBVIOUS
<1>2. RelaxEdge(s, c, e) =
         IF e.to \in DOMAIN d /\ c + e.fee + HopCost >= d[e.to] THEN s
         ELSE [dist   |-> Put(d, e.to, c + e.fee + HopCost),
               parent |-> Put(p, e.to, e),
               heap   |-> h \cup {[token |-> e.to, cost |-> c + e.fee + HopCost]}]
  <2> HIDE DEF s
  <2> QED BY <1>1 DEF RelaxEdge
<1> QED BY <1>2 DEF Relaxes

\* A shorter way to t is found: through e from u, at cost c.
Shortcut(d, p, d2, p2, u, e, t, c, hc) ==
    /\ u \in DOMAIN d /\ e \in AllHops /\ e.from = u /\ e.to = t /\ c = d[u] + Weight(e, hc)
    /\ ~(t \in DOMAIN d /\ c >= d[t])
    /\ d2 = Put(d, t, c) /\ p2 = Put(p, t, e)

Shortened(d, p, d2, p2, u, e, t, c) ==
    /\ c \in Nat /\ d[u] <= c /\ t # query.from /\ t # u
    /\ t \in DOMAIN d => c < d[t]
    /\ DOMAIN d2 = DOMAIN d \cup {t} /\ d2[t] = c /\ \A x \in DOMAIN d : x # t => d2[x] = d[x]
    /\ DOMAIN p2 = DOMAIN p \cup {t} /\ p2[t] = e /\ \A x \in DOMAIN p : x # t => p2[x] = p[x]
    /\ d2[u] = d[u] /\ \A x \in DOMAIN d : d2[x] <= d[x]

LEMMA ShortcutFacts ==
    ASSUME pools \in Catalogs, NEW hc \in Nat, NEW d, NEW p, Tree(d, p, hc),
           NEW d2, NEW p2, NEW u, NEW e, NEW t, NEW c, Shortcut(d, p, d2, p2, u, e, t, c, hc)
    PROVE  Shortened(d, p, d2, p2, u, e, t, c)
<1>1. u \in DOMAIN d /\ e \in AllHops /\ ~(t \in DOMAIN d /\ c >= d[t])
  BY DEF Shortcut
<1>2. d[u] \in Nat /\ query.from \in DOMAIN d /\ d[query.from] = 0 /\ \A x \in DOMAIN d : d[x] \in Nat
  BY <1>1 DEF Tree
<1>3. PICK w \in Nat : w = Weight(e, hc)
  BY <1>1, FeeFacts DEF Weight
<1>4. c \in Nat /\ d[u] <= c
  BY <1>2, <1>3 DEF Shortcut
<1>5. t \in DOMAIN d => c < d[t]
  BY <1>1, <1>2, <1>4
<1>6. t # query.from /\ t # u
  BY <1>1, <1>2, <1>4, <1>5
<1>7. DOMAIN d2 = DOMAIN d \cup {t} /\ d2[t] = c /\ \A x \in DOMAIN d : x # t => d2[x] = d[x]
  BY DEF Shortcut, Put
<1>8. DOMAIN p2 = DOMAIN p \cup {t} /\ p2[t] = e /\ \A x \in DOMAIN p : x # t => p2[x] = p[x]
  BY DEF Shortcut, Put
<1>9. \A x \in DOMAIN d : d2[x] <= d[x]
  BY <1>2, <1>4, <1>5, <1>7
<1> QED BY <1>1, <1>4, <1>5, <1>6, <1>7, <1>8, <1>9 DEF Shortened

LEMMA ShortcutTree ==
    ASSUME pools \in Catalogs, NEW hc \in Nat, NEW d, NEW p, Tree(d, p, hc),
           NEW d2, NEW p2, NEW u, NEW e, NEW t, NEW c, Shortcut(d, p, d2, p2, u, e, t, c, hc)
    PROVE  Tree(d2, p2, hc) /\ Settled(d2, e, hc)
<1>1. /\ c \in Nat /\ d[u] <= c /\ t # query.from /\ t # u
      /\ DOMAIN d2 = DOMAIN d \cup {t} /\ d2[t] = c /\ \A x \in DOMAIN d : x # t => d2[x] = d[x]
      /\ DOMAIN p2 = DOMAIN p \cup {t} /\ p2[t] = e /\ \A x \in DOMAIN p : x # t => p2[x] = p[x]
      /\ d2[u] = d[u] /\ \A x \in DOMAIN d : d2[x] <= d[x]
  <2>1. Shortened(d, p, d2, p2, u, e, t, c)
    BY ShortcutFacts
  <2> QED BY <2>1 DEF Shortened
<1>2. u \in DOMAIN d /\ e \in AllHops /\ e.from = u /\ e.to = t /\ c = d[u] + Weight(e, hc)
  BY DEF Shortcut
<1>3. /\ query.from \in DOMAIN d /\ d[query.from] = 0
      /\ IsFiniteSet(DOMAIN d) /\ \A x \in DOMAIN d : d[x] \in Nat
      /\ DOMAIN p = DOMAIN d \ {query.from}
      /\ \A x \in DOMAIN p : /\ p[x] \in AllHops /\ p[x].to = x /\ p[x].from \in DOMAIN d
                             /\ d[p[x].from] + Weight(p[x], hc) <= d[x]
  BY DEF Tree
<1>4. DOMAIN p2 = DOMAIN d2 \ {query.from}
  BY <1>1, <1>3
<1>5. IsFiniteSet(DOMAIN d2)
  BY <1>1, <1>3, FS_AddElement
<1>6. d2[query.from] = 0 /\ query.from \in DOMAIN d2
  BY <1>1, <1>3
<1>7. \A x \in DOMAIN d2 : d2[x] \in Nat
  BY <1>1, <1>3
<1>8. ASSUME NEW x \in DOMAIN p2
      PROVE  /\ p2[x] \in AllHops /\ p2[x].to = x /\ p2[x].from \in DOMAIN d2
             /\ d2[p2[x].from] + Weight(p2[x], hc) <= d2[x]
  <2>1. CASE x = t
    <3>1. p2[x] = e /\ u \in DOMAIN d2 /\ d2[x] = c
      BY <1>1, <1>2, <2>1
    <3>2. d2[u] + Weight(e, hc) <= c
      BY <1>1, <1>2
    <3> QED BY <1>2, <2>1, <3>1, <3>2
  <2>2. CASE x # t
    <3>1. x \in DOMAIN p /\ p2[x] = p[x] /\ d2[x] = d[x] /\ x \in DOMAIN d
      BY <1>1, <1>3, <2>2
    <3>2. PICK y : y = p[x].from /\ y \in DOMAIN d
      BY <1>3, <3>1
    <3>3. PICK w \in Nat : w = Weight(p[x], hc)
      BY <1>3, <3>1, FeeFacts DEF Weight
    <3>4. d[y] + w <= d[x] /\ d2[y] <= d[y] /\ d[y] \in Nat /\ d2[y] \in Nat /\ d[x] \in Nat
      BY <1>1, <1>3, <1>7, <3>1, <3>2, <3>3
    <3>5. d2[y] + w <= d[x]
      BY <3>4
    <3> QED BY <1>1, <1>3, <3>1, <3>2, <3>3, <3>5
  <2> QED BY <2>1, <2>2
<1>9. Settled(d2, e, hc)
  <2>1. d2[t] <= d2[u] + Weight(e, hc) /\ t \in DOMAIN d2
    BY <1>1, <1>2
  <2> QED BY <1>2, <2>1 DEF Settled
<1> QED BY <1>4, <1>5, <1>6, <1>7, <1>8, <1>9 DEF Tree

LEMMA RelaxKeeps ==
    ASSUME pools \in Catalogs, NEW d, NEW p, NEW h, Tree(d, p, HopCost), Heap(d, h),
           NEW u \in DOMAIN d, NEW e \in AllHops, e.from = u,
           NEW d2, NEW p2, NEW h2, Relaxes(d, p, h, d2, p2, h2, e, d[u])
    PROVE  /\ Tree(d2, p2, HopCost) /\ Heap(d2, h2)
           /\ DOMAIN d \subseteq DOMAIN d2 /\ d2[u] = d[u] /\ Settled(d2, e, HopCost)
           /\ \A v \in DOMAIN d2 : Open(d2, h2, v) \/ (v \in DOMAIN d /\ d2[v] = d[v])
           /\ \A v \in DOMAIN d : Open(d, h, v) => Open(d2, h2, v)
           /\ \A v \in DOMAIN d : d2[v] <= d[v]
<1>0. e.fee \in Nat /\ HopCost \in Nat
  BY FeeFacts, RouterAssumption
<1>1. d[u] \in Nat /\ \A v \in DOMAIN d : d[v] \in Nat
  BY DEF Tree
<1>2. CASE d2 = d /\ p2 = p /\ h2 = h /\ e.to \in DOMAIN d /\ d[u] + e.fee + HopCost >= d[e.to]
  <2>1. Settled(d2, e, HopCost)
    BY <1>0, <1>1, <1>2 DEF Settled, Weight
  <2> QED BY <1>1, <1>2, <2>1
<1>3. CASE /\ ~(e.to \in DOMAIN d /\ d[u] + e.fee + HopCost >= d[e.to])
           /\ d2 = Put(d, e.to, d[u] + e.fee + HopCost) /\ p2 = Put(p, e.to, e)
           /\ h2 = h \cup {[token |-> e.to, cost |-> d[u] + e.fee + HopCost]}
  <2>1. PICK t : t = e.to
    OBVIOUS
  <2>2. PICK c : c = d[u] + e.fee + HopCost /\ c = d[u] + Weight(e, HopCost)
    <3>1. d[u] + e.fee + HopCost = d[u] + (e.fee + HopCost)
      BY <1>0, <1>1
    <3> QED BY <3>1 DEF Weight
  <2>3. Shortcut(d, p, d2, p2, u, e, t, c, HopCost)
    BY <1>3, <2>1, <2>2 DEF Shortcut
  <2>4. /\ c \in Nat
        /\ DOMAIN d2 = DOMAIN d \cup {t} /\ d2[t] = c /\ \A x \in DOMAIN d : x # t => d2[x] = d[x]
        /\ d2[u] = d[u] /\ \A x \in DOMAIN d : d2[x] <= d[x]
    <3>1. Shortened(d, p, d2, p2, u, e, t, c)
      BY <1>0, <2>3, ShortcutFacts
    <3> QED BY <3>1 DEF Shortened
  <2>5. Tree(d2, p2, HopCost) /\ Settled(d2, e, HopCost)
    BY <1>0, <2>3, ShortcutTree
  <2>6. h2 = h \cup {[token |-> t, cost |-> c]}
    BY <1>3, <2>1, <2>2
  <2>7. Open(d2, h2, t)
    BY <2>4, <2>6 DEF Open
  <2>8. \A v \in DOMAIN d : v # t => (Open(d, h, v) => Open(d2, h2, v))
    BY <2>4, <2>6 DEF Open
  <2>9. ASSUME NEW n \in h2
        PROVE  /\ n = [token |-> n.token, cost |-> n.cost] /\ n.token \in DOMAIN d2
               /\ n.cost \in Nat /\ d2[n.token] <= n.cost
    <3>1. CASE n = [token |-> t, cost |-> c]
      <4>1. n.token = t /\ n.cost = c
        BY <3>1
      <4> QED BY <2>4, <3>1, <4>1
    <3>2. CASE n \in h
      <4>1. /\ n = [token |-> n.token, cost |-> n.cost] /\ n.token \in DOMAIN d
            /\ n.cost \in Nat /\ d[n.token] <= n.cost
        BY <3>2 DEF Heap
      <4>2. d2[n.token] <= d[n.token] /\ d2[n.token] \in Nat /\ d[n.token] \in Nat
        BY <1>1, <2>4, <2>5, <4>1 DEF Tree
      <4>3. d2[n.token] <= n.cost
        BY <4>1, <4>2
      <4> QED BY <2>4, <4>1, <4>3
    <3> QED BY <2>6, <3>1, <3>2
  <2>10. Heap(d2, h2)
    BY <2>4, <2>7, <2>8, <2>9 DEF Heap
  <2>11. \A v \in DOMAIN d2 : Open(d2, h2, v) \/ (v \in DOMAIN d /\ d2[v] = d[v])
    BY <2>4, <2>7
  <2>12. \A v \in DOMAIN d : Open(d, h, v) => Open(d2, h2, v)
    BY <2>7, <2>8
  <2> QED BY <2>4, <2>5, <2>10, <2>11, <2>12
<1> QED BY <1>2, <1>3 DEF Relaxes

\* c holds the states of the loop over es from s0.
RelaxChain(c, s0, cost, es) ==
    c[0] = s0 /\ \A k \in 1..Len(es) : c[k] = RelaxEdge(c[k - 1], cost, es[k])

RelaxedOver(s0, cost, es) == Fold(LAMBDA s, e : RelaxEdge(s, cost, e), s0, es)

LEMMA RelaxRuns ==
    ASSUME NEW s0, NEW cost, NEW es, Len(es) \in Nat
    PROVE  \E c : /\ RelaxChain(c, s0, cost, es)
                  /\ RelaxedOver(s0, cost, es) = c[Len(es)]
<1> DEFINE n == Len(es)
           Q(x, k) == RelaxEdge(x, cost, es[k])
           P(f) == f = [k \in 0..n |-> IF k = 0 THEN s0
                                       ELSE CHOOSE x \in {RelaxEdge(a, cost, es[k]) : a \in {f[k - 1]}} : TRUE]
           c == CHOOSE f : P(f)
           Upto(f, m) == f = [k \in 0..m |-> f[k]] /\ f[0] = s0 /\ \A k \in 1..m : f[k] = Q(f[k - 1], k)
           Ok(m) == \E f : Upto(f, m)
           S == {m \in 0..n : Ok(m)}
<1>1. RelaxedOver(s0, cost, es) = c[n]
  BY DEF RelaxedOver, Fold
<1>2. \A x, k : (CHOOSE y \in {RelaxEdge(a, cost, es[k]) : a \in {x}} : TRUE) = Q(x, k)
  OBVIOUS
<1>3. n \in Nat
  OBVIOUS
<1> HIDE DEF n, Q, c
<1>4. 0 \in S
  <2> DEFINE f == [k \in 0..0 |-> s0]
  <2>1. f = [k \in 0..0 |-> f[k]] /\ f[0] = s0 /\ \A k \in 1..0 : FALSE
    OBVIOUS
  <2> HIDE DEF f
  <2>2. Upto(f, 0)
    BY <2>1
  <2> QED BY <1>3, <2>2
<1>5. ASSUME NEW m \in 1..n, m - 1 \in S PROVE m \in S
  <2>0. PICK l \in Nat : l = m - 1
    BY <1>3
  <2>1. PICK g : Upto(g, l)
    BY <1>5, <2>0
  <2> DEFINE f == [k \in 0..m |-> IF k = m THEN Q(g[l], m) ELSE g[k]]
  <2>2. f = [k \in 0..m |-> f[k]]
    OBVIOUS
  <2>3. f[m] = Q(g[l], m) /\ \A k \in 0..l : f[k] = g[k]
    BY <2>0
  <2> HIDE DEF f
  <2>4. f[0] = s0 /\ f[l] = g[l]
    BY <2>0, <2>1, <2>3
  <2>5. ASSUME NEW k \in 1..m PROVE f[k] = Q(f[k - 1], k)
    <3>1. CASE k = m
      BY <2>0, <2>3, <2>4, <3>1
    <3>2. CASE k # m
      <4>1. k \in 1..l /\ k \in 0..l /\ k - 1 \in 0..l
        BY <2>0, <3>2
      <4>2. g[k] = Q(g[k - 1], k) /\ f[k] = g[k] /\ f[k - 1] = g[k - 1]
        BY <2>1, <2>3, <4>1
      <4> QED BY <4>2
    <3> QED BY <3>1, <3>2
  <2>6. Upto(f, m)
    BY <2>2, <2>4, <2>5
  <2>7. Ok(m)
    BY <2>6
  <2> HIDE DEF Ok
  <2> QED BY <1>3, <2>7
<1>6. \A m \in 0..n : m \in S
  <2> HIDE DEF S
  <2> QED BY <1>3, <1>4, <1>5, Induct
<1>7. Ok(n)
  <2> HIDE DEF Ok
  <2>1. n \in 0..n
    BY <1>3
  <2> QED BY <1>6, <2>1
<1>8. PICK g : Upto(g, n)
  BY <1>7
<1>9. \A k \in 0..n : k = 0 \/ (k \in 1..n /\ k # 0)
  BY <1>3
<1>10. P(g)
  <2>1. \A k \in 1..n : g[k] = CHOOSE x \in {RelaxEdge(a, cost, es[k]) : a \in {g[k - 1]}} : TRUE
    BY <1>2, <1>8, Zenon
  <2> QED BY <1>8, <1>9, <2>1, Zenon
<1>11. P(c)
  <2> HIDE DEF P
  <2> QED BY <1>10 DEF c
<1>12. RelaxChain(c, s0, cost, es)
  <2>0. 0 \in 0..n /\ \A k \in 1..n : k \in 0..n /\ k # 0
    BY <1>3
  <2>1. c[0] = s0
    BY <1>11, <2>0, Zenon
  <2>2. \A k \in 1..n : c[k] = CHOOSE x \in {RelaxEdge(a, cost, es[k]) : a \in {c[k - 1]}} : TRUE
    BY <1>11, <2>0, Zenon
  <2> HIDE DEF P
  <2>3. \A k \in 1..n : c[k] = RelaxEdge(c[k - 1], cost, es[k])
    BY <1>2, <2>2, Zenon DEF Q
  <2> QED BY <2>1, <2>3 DEF n, RelaxChain
<1> QED BY <1>1, <1>12 DEF n

\* A settled edge stays settled while distances only shrink and its own token's
\* does not.
LEMMA SettledKeeps ==
    ASSUME pools \in Catalogs, NEW hc \in Nat, NEW d, NEW d2, NEW e \in AllHops, Settled(d, e, hc),
           \A v \in DOMAIN d : d[v] \in Nat /\ d2[v] \in Nat /\ d2[v] <= d[v],
           DOMAIN d \subseteq DOMAIN d2, e.from \in DOMAIN d, d2[e.from] = d[e.from]
    PROVE  Settled(d2, e, hc)
<1>1. PICK w \in Nat : w = Weight(e, hc)
  BY FeeFacts DEF Weight
<1>2. PICK a, b : a = e.from /\ b = e.to
  OBVIOUS
<1>3. b \in DOMAIN d /\ d[b] <= d[a] + w /\ a \in DOMAIN d
  BY <1>1, <1>2 DEF Settled
<1>4. d[a] \in Nat /\ d2[a] \in Nat /\ d[b] \in Nat /\ d2[b] \in Nat /\ d2[b] <= d[b] /\ d2[a] = d[a]
  BY <1>2, <1>3
<1>5. b \in DOMAIN d2 /\ d2[b] <= d2[a] + w
  BY <1>3, <1>4
<1> QED BY <1>1, <1>2, <1>5 DEF Settled

\* The tokens other than u are in the heap or have settled edges.
Others(d, h, u, hc) == \A v \in DOMAIN d : v # u => Open(d, h, v) \/ AllSettled(d, v, hc)

\* The loop over the edges of u, after k of them.
Relaxing(s, u, c, es, k) ==
    \E d, p, h : /\ s = [dist |-> d, parent |-> p, heap |-> h]
                 /\ Tree(d, p, HopCost) /\ Heap(d, h) /\ u \in DOMAIN d /\ d[u] = c
                 /\ Others(d, h, u, HopCost) /\ \A j \in 1..k : Settled(d, es[j], HopCost)

LEMMA RelaxingStep ==
    ASSUME pools \in Catalogs, NEW s, NEW u, NEW c, NEW es, NEW k \in Nat \ {0},
           Relaxing(s, u, c, es, k - 1), \A j \in 1..k : es[j] \in AllHops /\ es[j].from = u
    PROVE  Relaxing(RelaxEdge(s, c, es[k]), u, c, es, k)
<1>0. HopCost \in Nat
  BY RouterAssumption
<1>1. PICK d, p, h : /\ s = [dist |-> d, parent |-> p, heap |-> h]
                     /\ Tree(d, p, HopCost) /\ Heap(d, h) /\ u \in DOMAIN d /\ d[u] = c
                     /\ Others(d, h, u, HopCost) /\ \A j \in 1..(k - 1) : Settled(d, es[j], HopCost)
  BY DEF Relaxing
<1>2. PICK e \in AllHops : e = es[k] /\ e.from = u
  OBVIOUS
<1>3. PICK d2, p2, h2 : /\ RelaxEdge(s, c, e) = [dist |-> d2, parent |-> p2, heap |-> h2]
                        /\ Relaxes(d, p, h, d2, p2, h2, e, d[u])
  BY <1>1, RelaxEdgeIs
<1>4. /\ Tree(d2, p2, HopCost) /\ Heap(d2, h2)
      /\ DOMAIN d \subseteq DOMAIN d2 /\ d2[u] = d[u] /\ Settled(d2, e, HopCost)
      /\ \A v \in DOMAIN d2 : Open(d2, h2, v) \/ (v \in DOMAIN d /\ d2[v] = d[v])
      /\ \A v \in DOMAIN d : Open(d, h, v) => Open(d2, h2, v)
      /\ \A v \in DOMAIN d : d2[v] <= d[v]
  BY <1>1, <1>2, <1>3, RelaxKeeps
<1>5. (\A v \in DOMAIN d : d[v] \in Nat) /\ (\A v \in DOMAIN d2 : d2[v] \in Nat)
  BY <1>1, <1>4 DEF Tree
<1>6. \A v \in DOMAIN d : d[v] \in Nat /\ d2[v] \in Nat /\ d2[v] <= d[v]
  BY <1>4, <1>5
<1>7. Others(d2, h2, u, HopCost)
  <2> SUFFICES ASSUME NEW v \in DOMAIN d2, v # u, ~Open(d2, h2, v) PROVE AllSettled(d2, v, HopCost)
    BY DEF Others
  <2>1. v \in DOMAIN d /\ d2[v] = d[v] /\ AllSettled(d, v, HopCost)
    BY <1>1, <1>4 DEF Others
  <2> SUFFICES ASSUME NEW f \in AllHops, f.from = v PROVE Settled(d2, f, HopCost)
    BY DEF AllSettled
  <2>2. Settled(d, f, HopCost)
    BY <2>1 DEF AllSettled
  <2> QED BY <1>0, <1>4, <1>6, <2>1, <2>2, SettledKeeps
<1>8. ASSUME NEW j \in 1..k PROVE Settled(d2, es[j], HopCost)
  <2>1. CASE j = k
    BY <1>2, <1>4, <2>1
  <2>2. CASE j # k
    <3>1. Settled(d, es[j], HopCost)
      BY <1>1, <2>2
    <3>2. PICK f \in AllHops : f = es[j] /\ f.from = u
      OBVIOUS
    <3> QED BY <1>0, <1>1, <1>4, <1>6, <3>1, <3>2, SettledKeeps
  <2> QED BY <2>1, <2>2
<1>9. u \in DOMAIN d2 /\ d2[u] = c
  BY <1>1, <1>4
<1> QED BY <1>2, <1>3, <1>4, <1>7, <1>8, <1>9 DEF Relaxing

\* The state of the search between two turns.
DijState(d, p, h) ==
    /\ Tree(d, p, HopCost) /\ Heap(d, h)
    /\ \A v \in DOMAIN d : Open(d, h, v) \/ AllSettled(d, v, HopCost)

\* All edges es of a token at distance c have been relaxed.
AllRelaxed(s, c, es) ==
    \E d, p, h : RelaxedOver(s, c, es) = [dist |-> d, parent |-> p, heap |-> h] /\ DijState(d, p, h)

LEMMA RelaxAll ==
    ASSUME pools \in Catalogs, NEW d, NEW p, NEW h, NEW u \in DOMAIN d,
           Tree(d, p, HopCost), Heap(d, h), Others(d, h, u, HopCost)
    PROVE  AllRelaxed([dist |-> d, parent |-> p, heap |-> h], d[u], Edges(pools, u))
<1>1. PICK es : es = Edges(pools, u)
  OBVIOUS
<1>2. /\ Len(es) \in Nat
      /\ \A j \in 1..Len(es) : es[j] \in AllHops /\ es[j].from = u
      /\ \A e \in AllHops : e.from = u => \E j \in 1..Len(es) : es[j] = e
  BY <1>1, EdgeFacts
<1>3. PICK s0 : s0 = [dist |-> d, parent |-> p, heap |-> h]
  OBVIOUS
<1>4. PICK c : RelaxChain(c, s0, d[u], es) /\ RelaxedOver(s0, d[u], es) = c[Len(es)]
  BY <1>2, RelaxRuns
<1>5. PICK n \in Nat : n = Len(es)
  BY <1>2
<1> DEFINE S == {k \in 0..n : Relaxing(c[k], u, d[u], es, k)}
<1>6. 0 \in S
  <2>1. c[0] = [dist |-> d, parent |-> p, heap |-> h]
    BY <1>3, <1>4 DEF RelaxChain
  <2>2. \A j \in 1..0 : FALSE
    OBVIOUS
  <2>3. Relaxing(c[0], u, d[u], es, 0)
    BY <2>1, <2>2 DEF Relaxing
  <2> QED BY <2>3
<1>7. ASSUME NEW k \in 1..n, k - 1 \in S PROVE k \in S
  <2>1. Relaxing(c[k - 1], u, d[u], es, k - 1) /\ k \in Nat \ {0} /\ \A j \in 1..k : j \in 1..n
    BY <1>7
  <2>2. c[k] = RelaxEdge(c[k - 1], d[u], es[k])
    BY <1>4, <1>5 DEF RelaxChain
  <2>3. \A j \in 1..k : es[j] \in AllHops /\ es[j].from = u
    BY <1>2, <1>5, <2>1
  <2>4. Relaxing(c[k], u, d[u], es, k)
    BY <2>1, <2>2, <2>3, RelaxingStep
  <2> QED BY <2>4
<1>8. \A k \in 0..n : k \in S
  <2> HIDE DEF S
  <2> QED BY <1>6, <1>7, Induct
<1>9. Relaxing(c[n], u, d[u], es, n)
  BY <1>8
<1>10. PICK d2, p2, h2 : /\ c[n] = [dist |-> d2, parent |-> p2, heap |-> h2]
                         /\ Tree(d2, p2, HopCost) /\ Heap(d2, h2) /\ Others(d2, h2, u, HopCost)
                         /\ \A j \in 1..n : Settled(d2, es[j], HopCost)
  BY <1>9 DEF Relaxing
<1>11. AllSettled(d2, u, HopCost)
  BY <1>2, <1>5, <1>10 DEF AllSettled
<1>12. DijState(d2, p2, h2)
  BY <1>10, <1>11 DEF DijState, Others
<1>13. AllRelaxed(s0, d[u], es)
  BY <1>4, <1>5, <1>10, <1>12 DEF AllRelaxed
<1> QED BY <1>1, <1>3, <1>13

BackChain(c, parent, t, n) ==
    c[0] = [at |-> t, seen |-> {}, hops |-> <<>>] /\ \A k \in 1..n : c[k] = StepBack(parent, c[k - 1])

LEMMA BackRuns ==
    ASSUME NEW parent, NEW t, NEW n \in Nat, n = Cardinality(DOMAIN parent) + 1
    PROVE  \E c : /\ BackChain(c, parent, t, n)
                  /\ PathTo(parent, t) = c[n].hops
<1> DEFINE s0 == [at |-> t, seen |-> {}, hops |-> <<>>]
           ix == [i \in 1..n |-> i]
           Q(x, k) == StepBack(parent, x)
           P(f) == f = [k \in 0..n |-> IF k = 0 THEN s0
                                       ELSE CHOOSE x \in {StepBack(parent, a) : a \in {f[k - 1]}} : TRUE]
           c == CHOOSE f : P(f)
           Upto(f, m) == f = [k \in 0..m |-> f[k]] /\ f[0] = s0 /\ \A k \in 1..m : f[k] = Q(f[k - 1], k)
           Ok(m) == \E f : Upto(f, m)
           S == {m \in 0..n : Ok(m)}
<1>0. Len(ix) = n
  OBVIOUS
<1>1. PathTo(parent, t) = c[n].hops
  BY <1>0 DEF PathTo, Fold
<1>2. \A x, k : (CHOOSE y \in {StepBack(parent, a) : a \in {x}} : TRUE) = Q(x, k)
  OBVIOUS
<1>3. n \in Nat
  OBVIOUS
<1> HIDE DEF s0, ix, Q, c
<1>4. 0 \in S
  <2> DEFINE f == [k \in 0..0 |-> s0]
  <2>1. f = [k \in 0..0 |-> f[k]] /\ f[0] = s0 /\ \A k \in 1..0 : FALSE
    OBVIOUS
  <2> HIDE DEF f
  <2>2. Upto(f, 0)
    BY <2>1
  <2> QED BY <1>3, <2>2
<1>5. ASSUME NEW m \in 1..n, m - 1 \in S PROVE m \in S
  <2>0. PICK l \in Nat : l = m - 1
    BY <1>3
  <2>1. PICK g : Upto(g, l)
    BY <1>5, <2>0
  <2> DEFINE f == [k \in 0..m |-> IF k = m THEN Q(g[l], m) ELSE g[k]]
  <2>2. f = [k \in 0..m |-> f[k]]
    OBVIOUS
  <2>3. f[m] = Q(g[l], m) /\ \A k \in 0..l : f[k] = g[k]
    BY <2>0
  <2> HIDE DEF f
  <2>4. f[0] = s0 /\ f[l] = g[l]
    BY <2>0, <2>1, <2>3
  <2>5. ASSUME NEW k \in 1..m PROVE f[k] = Q(f[k - 1], k)
    <3>1. CASE k = m
      BY <2>0, <2>3, <2>4, <3>1
    <3>2. CASE k # m
      <4>1. k \in 1..l /\ k \in 0..l /\ k - 1 \in 0..l
        BY <2>0, <3>2
      <4>2. g[k] = Q(g[k - 1], k) /\ f[k] = g[k] /\ f[k - 1] = g[k - 1]
        BY <2>1, <2>3, <4>1
      <4> QED BY <4>2
    <3> QED BY <3>1, <3>2
  <2>6. Upto(f, m)
    BY <2>2, <2>4, <2>5
  <2>7. Ok(m)
    BY <2>6
  <2> HIDE DEF Ok
  <2> QED BY <1>3, <2>7
<1>6. \A m \in 0..n : m \in S
  <2> HIDE DEF S
  <2> QED BY <1>3, <1>4, <1>5, Induct
<1>7. Ok(n)
  <2> HIDE DEF Ok
  <2>1. n \in 0..n
    BY <1>3
  <2> QED BY <1>6, <2>1
<1>8. PICK g : Upto(g, n)
  BY <1>7
<1>9. \A k \in 0..n : k = 0 \/ (k \in 1..n /\ k # 0)
  BY <1>3
<1>10. P(g)
  <2>1. \A k \in 1..n : g[k] = CHOOSE x \in {StepBack(parent, a) : a \in {g[k - 1]}} : TRUE
    BY <1>2, <1>8, Zenon
  <2> QED BY <1>8, <1>9, <2>1, Zenon
<1>11. P(c)
  <2> HIDE DEF P
  <2> QED BY <1>10 DEF c
<1>12. BackChain(c, parent, t, n)
  <2>0. 0 \in 0..n /\ \A k \in 1..n : k \in 0..n /\ k # 0
    BY <1>3
  <2>1. c[0] = s0
    BY <1>11, <2>0, Zenon
  <2>2. \A k \in 1..n : c[k] = CHOOSE x \in {StepBack(parent, a) : a \in {c[k - 1]}} : TRUE
    BY <1>11, <2>0, Zenon
  <2> HIDE DEF P
  <2>3. \A k \in 1..n : c[k] = StepBack(parent, c[k - 1])
    BY <1>2, <2>2, Zenon DEF Q
  <2> QED BY <2>1, <2>3 DEF s0, BackChain
<1> QED BY <1>1, <1>12

\* The first element comes on top of the others.
LEMMA TotalFirst ==
    ASSUME NEW n \in Nat, NEW s \in [1..(n + 1) -> Int]
    PROVE  Total(s) = s[1] + Total([k \in 1..n |-> s[k + 1]])
<1>0. PICK m \in Nat : m = n + 1
  OBVIOUS
<1> DEFINE t == [k \in 1..n |-> s[k + 1]]
<1>1. t \in [1..n -> Int] /\ \A k \in 1..n : t[k] = s[k + 1]
  OBVIOUS
<1> HIDE DEF t
<1>2. PICK f \in [0..n -> Int] : f[0] = 0 /\ (\A k \in 1..n : f[k] = f[k - 1] + t[k]) /\ Total(t) = f[n]
  BY <1>1, TotalDef
<1>3. PICK a \in Int : a = s[1]
  OBVIOUS
<1> DEFINE g == [k \in 0..m |-> IF k = 0 THEN 0 ELSE a + f[k - 1]]
<1>4. g \in [0..m -> Int] /\ g[0] = 0 /\ g[m] = a + f[n] /\ \A k \in 1..m : g[k] = a + f[k - 1]
  BY <1>0
<1> HIDE DEF g
<1>5. ASSUME NEW k \in 1..m PROVE g[k] = g[k - 1] + s[k]
  <2>1. CASE k = 1
    <3>1. g[1] = a + f[0] /\ g[k - 1] = 0
      BY <1>4, <2>1
    <3> QED BY <1>2, <1>3, <2>1, <3>1
  <2>2. CASE k # 1
    <3>1. PICK l \in 1..n : l = k - 1
      BY <1>0, <2>2
    <3>2. g[k] = a + f[l] /\ t[l] = s[k]
      BY <1>1, <1>4, <3>1
    <3>4. l \in 1..m
      BY <1>0
    <3>5. g[l] = a + f[l - 1] /\ f[l] = f[l - 1] + t[l]
      BY <1>2, <1>4, <3>4
    <3>3. f[l] \in Int /\ f[l - 1] \in Int /\ t[l] \in Int
      BY <1>1
    <3> QED BY <3>1, <3>2, <3>3, <3>5
  <2> QED BY <2>1, <2>2
<1>6. Total(s) = g[m]
  BY <1>0, <1>4, <1>5, TotalIs
<1> QED BY <1>2, <1>3, <1>4, <1>6 DEF t

-----------------------------------------------------------------------------
\* What a path costs

LEMMA CostIs ==
    ASSUME pools \in Catalogs, NEW hc \in Nat, NEW r \in Seq(AllHops)
    PROVE  \E s \in [1..Len(r) -> Int] : /\ PathCost(r, hc) = Total(s) /\ Len(r) \in Nat
                                         /\ \A i \in 1..Len(r) : s[i] = Weight(r[i], hc) /\ s[i] \in Nat
<1> DEFINE s == [i \in 1..Len(r) |-> r[i].fee + hc]
<1>0. PICK H : H = AllHops
  OBVIOUS
<1>1. Len(r) \in Nat /\ DOMAIN r = 1..Len(r) /\ \A i \in 1..Len(r) : r[i] \in H
  BY <1>0
<1>2. \A i \in 1..Len(r) : r[i].fee \in Nat
  BY <1>0, <1>1, FeeFacts
<1>3. PathCost(r, hc) = Total(s)
  BY <1>1 DEF PathCost
<1>4. s \in [1..Len(r) -> Int] /\ \A i \in 1..Len(r) : s[i] = r[i].fee + hc /\ s[i] \in Nat
  BY <1>2
<1> HIDE DEF s
<1> QED BY <1>1, <1>3, <1>4 DEF Weight

LEMMA CostType ==
    ASSUME pools \in Catalogs, NEW hc \in Nat, NEW r \in Seq(AllHops)
    PROVE  PathCost(r, hc) \in Nat
<1>1. PICK s \in [1..Len(r) -> Int] : /\ PathCost(r, hc) = Total(s) /\ Len(r) \in Nat
                                      /\ \A i \in 1..Len(r) : s[i] = Weight(r[i], hc) /\ s[i] \in Nat
  BY CostIs
<1>2. Total(s) \in Int /\ Total(s) >= 0
  <2>1. \A i \in 1..Len(r) : s[i] >= 0
    BY <1>1
  <2> QED BY <1>1, <2>1, TotalType
<1> QED BY <1>1, <1>2

LEMMA CostEmpty ==
    ASSUME NEW hc
    PROVE  PathCost(<<>>, hc) = 0
<1> DEFINE s == [i \in DOMAIN <<>> |-> <<>>[i].fee + hc]
<1>1. DOMAIN <<>> = 1..0
  OBVIOUS
<1>2. s \in [1..0 -> Int]
  BY <1>1
<1> HIDE DEF s
<1>3. PICK f \in [0..0 -> Int] : f[0] = 0 /\ Total(s) = f[0]
  BY <1>2, TotalDef
<1> QED BY <1>3 DEF PathCost, s

LEMMA PrependFacts ==
    ASSUME NEW H, NEW e \in H, NEW r \in Seq(H)
    PROVE  /\ <<e>> \o r \in Seq(H) /\ Len(<<e>> \o r) = Len(r) + 1 /\ (<<e>> \o r)[1] = e
           /\ \A i \in 1..Len(r) : (<<e>> \o r)[i + 1] = r[i]
           /\ Len(r) \in Nat
<1>1. <<e>> \in Seq(H) /\ Len(<<e>>) = 1 /\ <<e>>[1] = e
  OBVIOUS
<1>2. PICK a : a = <<e>>
  OBVIOUS
<1>3. a \o r \in Seq(H) /\ Len(r) \in Nat
  BY <1>1, <1>2
<1>4. IsSeq(a) /\ IsSeq(r)
  BY <1>1, <1>2, InSeq
<1>5. /\ Len(a \o r) = Len(a) + Len(r)
      /\ \A i \in 1..Len(a) : (a \o r)[i] = a[i]
      /\ \A i \in 1..Len(r) : (a \o r)[Len(a) + i] = r[i]
  BY <1>4, ConcatFacts
<1>6. Len(a) = 1 /\ a[1] = e /\ 1 \in 1..1
  BY <1>1, <1>2
<1>7. \A i \in 1..Len(r) : 1 + i = i + 1
  BY <1>3
<1> QED BY <1>2, <1>3, <1>5, <1>6, <1>7

LEMMA CostPrepend ==
    ASSUME pools \in Catalogs, NEW hc \in Nat, NEW r \in Seq(AllHops), NEW e \in AllHops
    PROVE  PathCost(<<e>> \o r, hc) = Weight(e, hc) + PathCost(r, hc)
<1>1. PICK q : q = <<e>> \o r
  OBVIOUS
<1>2. /\ q \in Seq(AllHops) /\ Len(q) = Len(r) + 1 /\ q[1] = e /\ \A i \in 1..Len(r) : q[i + 1] = r[i]
      /\ Len(r) \in Nat
  BY <1>1, PrependFacts
<1>3. PICK s \in [1..Len(q) -> Int] : /\ PathCost(q, hc) = Total(s)
                                      /\ \A i \in 1..Len(q) : s[i] = Weight(q[i], hc)
  BY <1>2, CostIs
<1>4. PICK t \in [1..Len(r) -> Int] : /\ PathCost(r, hc) = Total(t)
                                      /\ \A i \in 1..Len(r) : t[i] = Weight(r[i], hc)
  BY CostIs
<1>5. PICK n \in Nat : n = Len(r)
  BY <1>2
<1>6. s \in [1..(n + 1) -> Int] /\ s[1] = Weight(e, hc)
  BY <1>2, <1>3, <1>5
<1>7. ASSUME NEW i \in 1..n PROVE t[i] = s[i + 1]
  <2>1. i + 1 \in 1..Len(q)
    BY <1>2, <1>5
  <2>2. s[i + 1] = Weight(q[i + 1], hc) /\ q[i + 1] = r[i] /\ t[i] = Weight(r[i], hc)
    BY <1>2, <1>3, <1>4, <1>5, <2>1
  <2> QED BY <2>2
<1>8. t = [i \in 1..n |-> s[i + 1]]
  <2>1. t = [i \in 1..n |-> t[i]]
    BY <1>5
  <2> QED BY <1>7, <2>1
<1>9. Total(s) = s[1] + Total(t)
  BY <1>6, <1>8, TotalFirst
<1> QED BY <1>1, <1>3, <1>4, <1>6, <1>9

-----------------------------------------------------------------------------
\* The walk back along the parents.  rk falls along every parent link, so no
\* token is met twice.

Ranked(p, rk) == \A x \in DOMAIN p : rk[x] \in Nat /\ rk[p[x].from] \in Nat /\ rk[p[x].from] < rk[x]

\* hops is a path from at to t.
Leads(at, hops, t) ==
    /\ hops \in Seq(AllHops)
    /\ IF Len(hops) = 0 THEN at = t ELSE hops[1].from = at /\ hops[Len(hops)].to = t
    /\ \A i \in 1..(Len(hops) - 1) : hops[i].to = hops[i + 1].from
    /\ \A i, j \in 1..Len(hops) : hops[i].to = hops[j].to => i = j

Walked(w, t, d, p, rk, hc, k) ==
    /\ w.at \in DOMAIN d /\ IsFiniteSet(w.seen) /\ w.seen \subseteq DOMAIN p
    /\ \A x \in w.seen : rk[w.at] < rk[x]
    /\ Leads(w.at, w.hops, t) /\ \A i \in 1..Len(w.hops) : w.hops[i].to \in w.seen
    /\ d[w.at] + PathCost(w.hops, hc) <= d[t]
    /\ Cardinality(w.seen) = k \/ w.at = query.from

LEMMA LeadsPrepend ==
    ASSUME NEW hops, NEW t, NEW e \in AllHops, Leads(e.to, hops, t),
           \A i \in 1..Len(hops) : hops[i].to # e.to
    PROVE  Leads(e.from, <<e>> \o hops, t)
<1>0. PICK H : H = AllHops
  OBVIOUS
<1>1. hops \in Seq(H) /\ e \in H
  BY <1>0 DEF Leads
<1>2. PICK q : q = <<e>> \o hops
  OBVIOUS
<1>3. /\ q \in Seq(H) /\ Len(q) = Len(hops) + 1 /\ q[1] = e /\ \A i \in 1..Len(hops) : q[i + 1] = hops[i]
      /\ Len(hops) \in Nat
  BY <1>1, <1>2, PrependFacts
<1>4. PICK n \in Nat : n = Len(hops) /\ Len(q) = n + 1
  BY <1>3
<1>5. \A i \in 1..(n + 1) : i = 1 \/ \E j \in 1..n : i = j + 1 /\ q[i] = hops[j]
  <2> TAKE i \in 1..(n + 1)
  <2>1. i # 1 => i - 1 \in 1..n /\ i = (i - 1) + 1
    BY <1>4
  <2> QED BY <1>3, <1>4, <2>1
<1>6. q[1].from = e.from /\ q[n + 1].to = t
  <2>1. CASE n = 0
    BY <1>3, <1>4, <2>1 DEF Leads
  <2>2. CASE n # 0
    <3>1. n \in 1..n
      BY <2>2
    <3>2. q[n + 1] = hops[n] /\ hops[n].to = t
      BY <1>3, <1>4, <2>2, <3>1 DEF Leads
    <3> QED BY <1>3, <3>2
  <2> QED BY <2>1, <2>2
<1>7. ASSUME NEW i \in 1..n PROVE q[i].to = q[i + 1].from
  <2>1. q[i + 1] = hops[i]
    BY <1>3, <1>4
  <2>2. CASE i = 1
    <3>1. n # 0
      BY <2>2
    <3>2. hops[1].from = e.to
      BY <1>4, <3>1 DEF Leads
    <3> QED BY <1>3, <2>1, <2>2, <3>2
  <2>3. CASE i # 1
    <3>0. i - 1 \in 1..(n - 1) /\ i = (i - 1) + 1 /\ i - 1 \in 1..n
      BY <2>3
    <3>1. PICK j \in 1..(n - 1) : i = j + 1 /\ j \in 1..n
      BY <3>0
    <3>2. q[i] = hops[j] /\ hops[j].to = hops[j + 1].from
      BY <1>3, <1>4, <3>1 DEF Leads
    <3> QED BY <2>1, <3>1, <3>2
  <2> QED BY <2>2, <2>3
<1>8. ASSUME NEW i \in 1..(n + 1), NEW j \in 1..(n + 1), q[i].to = q[j].to PROVE i = j
  <2>1. \A a, b \in 1..n : hops[a].to = hops[b].to => a = b
    BY <1>4 DEF Leads
  <2>2. \A a \in 1..n : hops[a].to # e.to
    BY <1>4
  <2>3. q[1] = e
    BY <1>3
  <2>4. CASE i = 1 /\ j = 1
    BY <2>4
  <2>5. CASE i = 1 /\ j # 1
    <3>1. PICK b \in 1..n : q[j] = hops[b]
      BY <1>5, <2>5
    <3> QED BY <1>8, <2>2, <2>3, <2>5, <3>1
  <2>6. CASE i # 1 /\ j = 1
    <3>1. PICK a \in 1..n : q[i] = hops[a]
      BY <1>5, <2>6
    <3> QED BY <1>8, <2>2, <2>3, <2>6, <3>1
  <2>7. CASE i # 1 /\ j # 1
    <3>1. PICK a \in 1..n : i = a + 1 /\ q[i] = hops[a]
      BY <1>5, <2>7
    <3>2. PICK b \in 1..n : j = b + 1 /\ q[j] = hops[b]
      BY <1>5, <2>7
    <3>3. a = b
      BY <1>8, <2>1, <3>1, <3>2
    <3> QED BY <3>1, <3>2, <3>3
  <2> QED BY <2>4, <2>5, <2>6, <2>7
<1>9. Len(q) # 0 /\ Len(q) - 1 = n
  BY <1>4
<1>10. q \in Seq(AllHops)
  BY <1>0, <1>3
<1>11. Leads(e.from, q, t)
  BY <1>4, <1>6, <1>7, <1>8, <1>9, <1>10 DEF Leads
<1> QED BY <1>2, <1>11

LEMMA StepWalks ==
    ASSUME pools \in Catalogs, NEW hc \in Nat, NEW d, NEW p, Tree(d, p, hc), NEW rk, Ranked(p, rk),
           NEW t \in DOMAIN d, NEW w, NEW k \in Nat, Walked(w, t, d, p, rk, hc, k)
    PROVE  Walked(StepBack(p, w), t, d, p, rk, hc, k + 1)
<1>1. PICK at, seen, hops : at = w.at /\ seen = w.seen /\ hops = w.hops
  OBVIOUS
<1>2. /\ at \in DOMAIN d /\ IsFiniteSet(seen) /\ seen \subseteq DOMAIN p
      /\ \A x \in seen : rk[at] < rk[x]
      /\ Leads(at, hops, t) /\ \A i \in 1..Len(hops) : hops[i].to \in seen
      /\ d[at] + PathCost(hops, hc) <= d[t]
      /\ Cardinality(seen) = k \/ at = query.from
  BY <1>1 DEF Walked
<1>3. CASE at \in DOMAIN p
  <2>1. rk[at] \in Nat
    BY <1>3 DEF Ranked
  <2>2. at \notin seen
    <3>1. ~(rk[at] < rk[at])
      BY <2>1
    <3> QED BY <1>2, <3>1
  <2>3. PICK e \in AllHops : e = p[at] /\ e.to = at /\ e.from \in DOMAIN d /\ d[e.from] + Weight(e, hc) <= d[at]
    BY <1>3 DEF Tree
  <2>4. StepBack(p, w) = [at |-> e.from, seen |-> seen \cup {at}, hops |-> <<e>> \o hops]
    BY <1>1, <1>3, <2>2, <2>3 DEF StepBack
  <2>5. PICK v : v = [at |-> e.from, seen |-> seen \cup {at}, hops |-> <<e>> \o hops]
    OBVIOUS
  <2>6. v.at = e.from /\ v.seen = seen \cup {at} /\ v.hops = <<e>> \o hops
    BY <2>5
  <2>7. \A i \in 1..Len(hops) : hops[i].to # at
    BY <1>2, <2>2
  <2>8. Leads(e.from, <<e>> \o hops, t)
    BY <1>2, <2>3, <2>7, LeadsPrepend
  <2>9. at # query.from
    BY <1>3 DEF Tree
  <2>10. IsFiniteSet(seen \cup {at}) /\ Cardinality(seen \cup {at}) = k + 1
    BY <1>2, <2>2, <2>9, FS_AddElement
  <2>11. seen \cup {at} \subseteq DOMAIN p
    BY <1>2, <1>3
  <2>12. ASSUME NEW x \in seen \cup {at} PROVE rk[e.from] < rk[x]
    <3>1. rk[e.from] \in Nat /\ rk[e.from] < rk[at]
      BY <1>3, <2>3 DEF Ranked
    <3>2. rk[x] \in Nat /\ (x = at \/ rk[at] < rk[x])
      BY <1>2, <1>3 DEF Ranked
    <3> QED BY <2>1, <3>1, <3>2
  <2>13. hops \in Seq(AllHops)
    BY <1>2 DEF Leads
  <2>14. ASSUME NEW i \in 1..Len(<<e>> \o hops) PROVE (<<e>> \o hops)[i].to \in seen \cup {at}
    <3>1. /\ Len(<<e>> \o hops) = Len(hops) + 1 /\ (<<e>> \o hops)[1] = e /\ Len(hops) \in Nat
          /\ \A j \in 1..Len(hops) : (<<e>> \o hops)[j + 1] = hops[j]
      BY <2>13, PrependFacts
    <3>2. PICK q : q = <<e>> \o hops
      OBVIOUS
    <3>3. PICK n \in Nat : n = Len(hops)
      BY <3>1
    <3>4. i \in 1..(n + 1) /\ q[1] = e /\ \A j \in 1..n : q[j + 1] = hops[j]
      BY <3>1, <3>2, <3>3
    <3>5. CASE i = 1
      BY <2>3, <3>2, <3>4, <3>5
    <3>6. CASE i # 1
      <4>1. PICK j \in 1..n : i = j + 1
        <5>1. i - 1 \in 1..n /\ i = (i - 1) + 1
          BY <3>4, <3>6
        <5> QED BY <5>1
      <4>2. q[i] = hops[j] /\ hops[j].to \in seen
        BY <1>2, <3>3, <3>4, <4>1
      <4> QED BY <3>2, <4>2
    <3> QED BY <3>5, <3>6
  <2>15. d[e.from] + PathCost(<<e>> \o hops, hc) <= d[t]
    <3>1. PathCost(<<e>> \o hops, hc) = Weight(e, hc) + PathCost(hops, hc)
      BY <2>13, CostPrepend
    <3>2. PICK a \in Nat : a = PathCost(hops, hc)
      BY <2>13, CostType
    <3>3. PICK b \in Nat : b = Weight(e, hc)
      BY FeeFacts DEF Weight
    <3>4. PICK x, y, z \in Nat : x = d[e.from] /\ y = d[at] /\ z = d[t]
      BY <1>2, <2>3 DEF Tree
    <3>5. x + b <= y /\ y + a <= z
      BY <1>2, <2>3, <3>2, <3>3, <3>4
    <3>6. x + (b + a) <= z
      BY <3>5
    <3> QED BY <3>1, <3>2, <3>3, <3>4, <3>6
  <2>16. Walked(v, t, d, p, rk, hc, k + 1)
    BY <2>3, <2>6, <2>8, <2>10, <2>11, <2>12, <2>14, <2>15 DEF Walked
  <2> QED BY <2>4, <2>5, <2>16
<1>4. CASE at \notin DOMAIN p
  <2>1. at = query.from
    BY <1>2, <1>4 DEF Tree
  <2>2. StepBack(p, w) = w
    BY <1>1, <1>4 DEF StepBack
  <2>3. Walked(w, t, d, p, rk, hc, k + 1)
    BY <1>1, <1>2, <2>1 DEF Walked
  <2> QED BY <2>2, <2>3
<1> QED BY <1>3, <1>4

\* What PathTo finds.
LEMMA PathToFacts ==
    ASSUME pools \in Catalogs, NEW hc \in Nat, NEW d, NEW p, Tree(d, p, hc), NEW rk, Ranked(p, rk),
           NEW t \in DOMAIN d
    PROVE  /\ Leads(query.from, PathTo(p, t), t)
           /\ \A i \in 1..Len(PathTo(p, t)) : PathTo(p, t)[i].to # query.from
           /\ PathCost(PathTo(p, t), hc) <= d[t]
<1>1. IsFiniteSet(DOMAIN p)
  <2>1. IsFiniteSet(DOMAIN d) /\ DOMAIN p \subseteq DOMAIN d
    BY DEF Tree
  <2> QED BY <2>1, FS_Subset
<1>2. PICK m \in Nat : m = Cardinality(DOMAIN p)
  BY <1>1, FS_CardinalityType
<1>3. PICK n \in Nat : n = m + 1
  OBVIOUS
<1>4. PICK c : BackChain(c, p, t, n) /\ PathTo(p, t) = c[n].hops
  BY <1>2, <1>3, BackRuns
<1> DEFINE S == {k \in 0..n : Walked(c[k], t, d, p, rk, hc, k)}
<1>5. 0 \in S
  <2>1. c[0] = [at |-> t, seen |-> {}, hops |-> <<>>]
    BY <1>4 DEF BackChain
  <2>2. c[0].at = t /\ c[0].seen = {} /\ c[0].hops = <<>>
    BY <2>1
  <2>3. PICK H : H = AllHops
    OBVIOUS
  <2>4. <<>> \in Seq(H) /\ Len(<<>>) = 0 /\ (\A i \in 1..0 : FALSE) /\ \A i \in 1..(0 - 1) : FALSE
    OBVIOUS
  <2>5. Leads(t, <<>>, t)
    BY <2>3, <2>4 DEF Leads
  <2>6. IsFiniteSet({}) /\ Cardinality({}) = 0
    BY FS_EmptySet
  <2>7. d[t] + PathCost(<<>>, hc) <= d[t]
    <3>1. d[t] \in Nat
      BY DEF Tree
    <3> QED BY <3>1, CostEmpty
  <2>8. Walked(c[0], t, d, p, rk, hc, 0)
    BY <2>2, <2>4, <2>5, <2>6, <2>7 DEF Walked
  <2> QED BY <2>8
<1>6. ASSUME NEW k \in 1..n, k - 1 \in S PROVE k \in S
  <2>1. PICK j \in Nat : j = k - 1 /\ j + 1 = k
    OBVIOUS
  <2>2. Walked(c[j], t, d, p, rk, hc, j)
    BY <1>6, <2>1
  <2>3. c[k] = StepBack(p, c[j])
    BY <1>4, <2>1 DEF BackChain
  <2>4. Walked(c[k], t, d, p, rk, hc, k)
    BY <2>1, <2>2, <2>3, StepWalks
  <2> QED BY <2>4
<1>7. \A k \in 0..n : k \in S
  <2> HIDE DEF S
  <2> QED BY <1>5, <1>6, Induct
<1>8. Walked(c[n], t, d, p, rk, hc, n)
  BY <1>7
<1>9. PICK at, seen, hops : at = c[n].at /\ seen = c[n].seen /\ hops = c[n].hops
  OBVIOUS
<1>10. /\ IsFiniteSet(seen) /\ seen \subseteq DOMAIN p /\ Leads(at, hops, t)
       /\ \A i \in 1..Len(hops) : hops[i].to \in seen
       /\ d[at] + PathCost(hops, hc) <= d[t]
       /\ Cardinality(seen) = n \/ at = query.from
  BY <1>8, <1>9 DEF Walked
<1>11. at = query.from
  <2>1. Cardinality(seen) <= m
    BY <1>1, <1>2, <1>10, FS_Subset
  <2> QED BY <1>3, <1>10, <2>1
<1>12. d[at] = 0 /\ query.from \notin DOMAIN p
  BY <1>11 DEF Tree
<1>13. PathCost(hops, hc) <= d[t]
  <2>1. hops \in Seq(AllHops)
    BY <1>10 DEF Leads
  <2>2. PathCost(hops, hc) \in Nat
    BY <2>1, CostType
  <2> QED BY <1>10, <1>12, <2>2
<1>14. \A i \in 1..Len(hops) : hops[i].to # query.from
  BY <1>10, <1>12
<1> QED BY <1>4, <1>9, <1>10, <1>11, <1>13, <1>14

\* There are finitely many tokens, and every hop goes between two of them.
LEMMA TokensFacts ==
    ASSUME pools \in Catalogs
    PROVE  /\ IsFiniteSet(TokensOf(pools))
           /\ \A h \in AllHops : h.from \in TokensOf(pools) /\ h.to \in TokensOf(pools)
<1>1. Len(pools) \in Nat /\ DOMAIN pools = 1..Len(pools)
  BY CatalogFacts
<1>2. PICK n \in Nat : DOMAIN pools = 1..n
  BY <1>1
<1>3. IsFiniteSet(1..n)
  BY FS_Interval
<1> DEFINE A == {pools[i].a : i \in 1..n}
           B == {pools[i].b : i \in 1..n}
           f == [i \in 1..n |-> pools[i].a]
           g == [i \in 1..n |-> pools[i].b]
<1>4. f \in Surjection(1..n, A) /\ g \in Surjection(1..n, B)
  BY DEF Surjection
<1>5. TokensOf(pools) \subseteq A \cup B
  BY <1>2 DEF TokensOf
<1>6. \A h \in AllHops : h.from \in TokensOf(pools) /\ h.to \in TokensOf(pools)
  <2> TAKE h \in AllHops
  <2>1. PICK i \in DOMAIN pools : HopOf(i, h.from, h)
    BY HopIn
  <2>2. ~pools[i].paused /\ h.from \in {pools[i].a, pools[i].b} /\ h.to \in {pools[i].a, pools[i].b}
    BY <2>1, HopFields DEF HopOf
  <2> QED BY <2>2 DEF TokensOf
<1> HIDE DEF f, g, A, B
<1>7. IsFiniteSet(A) /\ IsFiniteSet(B)
  BY <1>3, <1>4, FS_Surjection
<1>8. IsFiniteSet(A \cup B)
  BY <1>7, FS_Union
<1> QED BY <1>5, <1>6, <1>8, FS_Subset

\* Longest simple path there can be.
Longest == Cardinality(TokensOf(pools)) - 1

LEMMA LeadsLen ==
    ASSUME pools \in Catalogs, NEW r, NEW t, Leads(query.from, r, t), Len(r) # 0,
           \A i \in 1..Len(r) : r[i].to # query.from
    PROVE  Longest \in Int /\ Len(r) \in 1..Longest
<1>0. PICK H : H = AllHops
  OBVIOUS
<1>1. r \in Seq(H)
  BY <1>0 DEF Leads
<1>2. PICK n \in Nat : n = Len(r) /\ n # 0 /\ \A i \in 1..n : r[i] \in H
  BY <1>1
<1> DEFINE f == [i \in 0..n |-> IF i = 0 THEN query.from ELSE r[i].to]
           T == TokensOf(pools)
<1>3. r[1].from = query.from /\ 1 \in 1..n
  BY <1>2 DEF Leads
<1>4. query.from \in T /\ \A i \in 1..n : r[i].to \in T
  BY <1>0, <1>2, <1>3, TokensFacts
<1>5. \A i, j \in 1..n : r[i].to = r[j].to => i = j
  BY <1>2 DEF Leads
<1>6. \A i \in 0..n : i = 0 \/ i \in 1..n
  OBVIOUS
<1>7. f \in Injection(0..n, T)
  <2>1. f[0] = query.from /\ \A i \in 1..n : f[i] = r[i].to
    OBVIOUS
  <2>2. f \in [0..n -> T]
    BY <1>4
  <2> HIDE DEF f, T
  <2>3. \A i, j \in 0..n : f[i] = f[j] => i = j
    BY <1>2, <1>5, <1>6, <2>1
  <2> QED BY <2>2, <2>3 DEF Injection, IsInjective
<1> HIDE DEF f
<1>8. IsFiniteSet(T)
  BY TokensFacts
<1>9. Cardinality(T) \in Nat
  BY <1>8, FS_CardinalityType
<1>10. Cardinality(0..n) <= Cardinality(T)
  BY <1>7, <1>8, FS_Injection
<1>11. Cardinality(0..n) = n + 1
  <2>1. Cardinality(0..n) = IF 0 > n THEN 0 ELSE n - 0 + 1
    BY FS_Interval
  <2> QED BY <2>1
<1>12. PICK c \in Nat : c = Cardinality(T)
  BY <1>9
<1>13. n \in 1..(c - 1) /\ c - 1 \in Int
  BY <1>2, <1>10, <1>11, <1>12
<1> QED BY <1>2, <1>12, <1>13 DEF Longest

LEMMA LeadsInSet ==
    ASSUME pools \in Catalogs, NEW r, Leads(query.from, r, query.to), query.from # query.to,
           \A i \in 1..Len(r) : r[i].to # query.from
    PROVE  Longest \in Int /\ r \in PathSet(Longest)
<1>1. Len(r) # 0
  BY DEF Leads
<1>2. Longest \in Int /\ Len(r) \in 1..Longest
  BY <1>1, LeadsLen
<1> QED BY <1>1, <1>2 DEF PathSet, Leads

\* No path is cheaper than a lower bound of the heap, unless the target's own
\* distance is.
LEMMA LowerBound ==
    ASSUME pools \in Catalogs, NEW hc \in Nat, NEW d, NEW p, NEW h, Tree(d, p, hc),
           \A v \in DOMAIN d : Open(d, h, v) \/ AllSettled(d, v, hc),
           NEW M \in Nat, \A x \in h : M <= x.cost,
           NEW l, NEW q \in PathSet(l)
    PROVE  /\ PathCost(q, hc) \in Nat
           /\ M <= PathCost(q, hc) \/ (query.to \in DOMAIN d /\ d[query.to] <= PathCost(q, hc))
<1>0. PICK H : H = AllHops
  OBVIOUS
<1>1. /\ q \in Seq(H) /\ Len(q) # 0 /\ q[1].from = query.from /\ q[Len(q)].to = query.to
      /\ \A i \in 1..(Len(q) - 1) : q[i].to = q[i + 1].from
  BY <1>0 DEF PathSet
<1>2. PICK n \in Nat : n = Len(q) /\ n # 0 /\ \A i \in 1..n : q[i] \in H
  BY <1>1
<1>3. PICK s \in [1..n -> Int] : /\ PathCost(q, hc) = Total(s)
                                 /\ \A i \in 1..n : s[i] = Weight(q[i], hc) /\ s[i] \in Nat
  BY <1>0, <1>1, <1>2, CostIs
<1>4. PICK f \in [0..n -> Int] : f[0] = 0 /\ (\A k \in 1..n : f[k] = f[k - 1] + s[k]) /\ Total(s) = f[n]
  BY TotalDef
<1> DEFINE v(i) == IF i = 0 THEN query.from ELSE q[i].to
           S == {i \in 0..n : M <= f[i] \/ (v(i) \in DOMAIN d /\ d[v(i)] <= f[i])}
<1>5. \A t \in DOMAIN d : d[t] \in Nat
  BY DEF Tree
<1>6. 0 \in S
  <2>1. query.from \in DOMAIN d /\ d[query.from] <= 0
    BY DEF Tree
  <2> QED BY <1>4, <2>1
<1>7. ASSUME NEW i \in 1..n, i - 1 \in S PROVE i \in S
  <2>1. PICK a, b, w \in Int : a = f[i - 1] /\ b = f[i] /\ w = s[i] /\ b = a + w /\ w >= 0
    BY <1>3, <1>4
  <2>2. PICK e \in AllHops : e = q[i]
    BY <1>0, <1>2
  <2>3. e.from = v(i - 1) /\ e.to = v(i) /\ Weight(e, hc) = w
    <3>1. CASE i = 1
      BY <1>1, <1>3, <2>1, <2>2, <3>1
    <3>2. CASE i # 1
      <4>1. i - 1 \in 1..(Len(q) - 1) /\ (i - 1) + 1 = i /\ i - 1 # 0 /\ i # 0
        BY <1>2, <3>2
      <4>2. q[i - 1].to = q[i].from
        BY <1>1, <4>1
      <4> QED BY <1>3, <2>1, <2>2, <4>1, <4>2
    <3> QED BY <3>1, <3>2
  <2>4. M <= a \/ (v(i - 1) \in DOMAIN d /\ d[v(i - 1)] <= a)
    BY <1>7, <2>1
  <2> HIDE DEF v
  <2>5. CASE M <= a
    <3>1. M <= b
      BY <2>1, <2>5
    <3>2. M <= f[i] /\ i \in 0..n
      BY <2>1, <3>1
    <3> QED BY <3>2
  <2>6. CASE ~(M <= a)
    <3>1. PICK x : x = v(i - 1)
      OBVIOUS
    <3>2. x \in DOMAIN d /\ d[x] <= a /\ d[x] \in Nat
      BY <1>5, <2>4, <2>6, <3>1
    <3>3. ~Open(d, h, x)
      <4> SUFFICES ASSUME Open(d, h, x) PROVE FALSE
        OBVIOUS
      <4>1. M <= d[x]
        BY DEF Open
      <4> QED BY <2>1, <2>6, <3>2, <4>1
    <3>4. Settled(d, e, hc)
      BY <2>3, <3>1, <3>2, <3>3 DEF AllSettled
    <3>5. v(i) \in DOMAIN d /\ d[v(i)] <= d[x] + w
      BY <2>3, <3>1, <3>4 DEF Settled
    <3>6. d[v(i)] <= b
      <4>1. PICK y \in Nat : y = d[v(i)]
        BY <1>5, <3>5
      <4> QED BY <2>1, <3>2, <3>5, <4>1
    <3>7. v(i) \in DOMAIN d /\ d[v(i)] <= f[i] /\ i \in 0..n
      BY <2>1, <3>5, <3>6
    <3> QED BY <3>7
  <2> QED BY <2>5, <2>6
<1>8. \A i \in 0..n : i \in S
  <2> HIDE DEF S
  <2> QED BY <1>6, <1>7, Induct
<1>9. n \in S
  <2> HIDE DEF S
  <2> QED BY <1>8
<1>10. v(n) = query.to
  BY <1>1, <1>2
<1>11. M <= f[n] \/ (query.to \in DOMAIN d /\ d[query.to] <= f[n])
  <2> HIDE DEF v
  <2> QED BY <1>9, <1>10
<1>12. PathCost(q, hc) \in Nat
  BY <1>0, <1>1, CostType
<1> QED BY <1>3, <1>4, <1>11, <1>12

LEMMA DijRanked ==
    ASSUME pools \in Catalogs, NEW d, NEW p, Tree(d, p, HopCost)
    PROVE  Ranked(p, d)
<1> SUFFICES ASSUME NEW x \in DOMAIN p
             PROVE  d[x] \in Nat /\ d[p[x].from] \in Nat /\ d[p[x].from] < d[x]
  BY DEF Ranked
<1>1. PICK e \in AllHops : e = p[x] /\ e.from \in DOMAIN d /\ d[e.from] + Weight(e, HopCost) <= d[x] /\ x \in DOMAIN d
  BY DEF Tree
<1>2. d[x] \in Nat /\ d[e.from] \in Nat
  BY <1>1 DEF Tree
<1>3. Weight(e, HopCost) \in Nat \ {0}
  BY FeeFacts, RouterAssumption DEF Weight
<1>4. d[e.from] < d[x]
  BY <1>1, <1>2, <1>3
<1> QED BY <1>1, <1>2, <1>4

\* A turn that pops the node n of another token.
LEMMA PopSkips ==
    ASSUME NEW d, NEW p, NEW h, DijState(d, p, h), NEW n \in h, n.cost > d[n.token]
    PROVE  DijState(d, p, h \ {n})
<1>1. /\ Tree(d, p, HopCost) /\ Heap(d, h)
      /\ \A v \in DOMAIN d : Open(d, h, v) \/ AllSettled(d, v, HopCost)
  BY DEF DijState
<1>2. n.token \in DOMAIN d /\ d[n.token] \in Nat
  BY <1>1 DEF Heap, Tree
<1>3. \A v \in DOMAIN d : n # [token |-> v, cost |-> d[v]]
  <2> SUFFICES ASSUME NEW v \in DOMAIN d, n = [token |-> v, cost |-> d[v]] PROVE FALSE
    OBVIOUS
  <2>1. n.token = v /\ n.cost = d[v]
    OBVIOUS
  <2> QED BY <1>2, <2>1
<1>4. \A v \in DOMAIN d : Open(d, h, v) => Open(d, h \ {n}, v)
  BY <1>3 DEF Open
<1>5. Heap(d, h \ {n})
  BY <1>1, <1>4 DEF Heap
<1> QED BY <1>1, <1>4, <1>5 DEF DijState

LEMMA PopRelaxes ==
    ASSUME pools \in Catalogs, NEW d, NEW p, NEW h, DijState(d, p, h), NEW n \in h, ~(n.cost > d[n.token]),
           n.token # query.to
    PROVE  AllRelaxed([dist |-> d, parent |-> p, heap |-> h \ {n}], n.cost, Edges(pools, n.token))
<1>1. /\ Tree(d, p, HopCost) /\ Heap(d, h)
      /\ \A v \in DOMAIN d : Open(d, h, v) \/ AllSettled(d, v, HopCost)
  BY DEF DijState
<1>2. PICK u : u = n.token /\ u \in DOMAIN d /\ n.cost \in Nat /\ d[u] <= n.cost
  BY <1>1 DEF Heap
<1>3. d[u] \in Nat
  BY <1>1, <1>2 DEF Tree
<1>4. n.cost = d[u]
  BY <1>2, <1>3
<1>5. \A v : v # u => n # [token |-> v, cost |-> d[v]]
  BY <1>2
<1>6. \A v \in DOMAIN d : v # u /\ Open(d, h, v) => Open(d, h \ {n}, v)
  BY <1>5 DEF Open
<1>7. Heap(d, h \ {n})
  BY <1>1, <1>2, <1>6 DEF Heap
<1>8. Others(d, h \ {n}, u, HopCost)
  BY <1>1, <1>6 DEF Others
<1>9. PICK g : g = h \ {n}
  OBVIOUS
<1>10. Heap(d, g) /\ Others(d, g, u, HopCost)
  BY <1>7, <1>8, <1>9
<1>11. AllRelaxed([dist |-> d, parent |-> p, heap |-> g], d[u], Edges(pools, u))
  BY <1>1, <1>2, <1>10, RelaxAll
<1> QED BY <1>2, <1>4, <1>9, <1>11

\* The answer of the search.
DijFound(rs) ==
    /\ rs \in Seq(Seq(AllHops))
    /\ query.from # query.to =>
         IF PathSet(Longest) = {} THEN rs = <<>>
         ELSE /\ Len(rs) = 1 /\ rs[1] \in PathSet(Longest)
              /\ \A q \in PathSet(Longest) : PathCost(rs[1], HopCost) <= PathCost(q, HopCost)

LEMMA PopFinds ==
    ASSUME pools \in Catalogs, NEW d, NEW p, NEW h, DijState(d, p, h), NEW n \in h, n.token = query.to,
           \A x \in h : n.cost <= x.cost
    PROVE  DijFound(<<PathTo(p, query.to)>>)
<1>1. /\ Tree(d, p, HopCost) /\ Heap(d, h)
      /\ \A v \in DOMAIN d : Open(d, h, v) \/ AllSettled(d, v, HopCost)
  BY DEF DijState
<1>2. PICK t : t = query.to
  OBVIOUS
<1>3. t \in DOMAIN d /\ n.cost \in Nat /\ d[t] <= n.cost /\ Open(d, h, t)
  BY <1>1, <1>2 DEF Heap
<1>4. PICK M \in Nat : M = d[t]
  BY <1>1, <1>3 DEF Tree
<1>5. n.cost <= d[t]
  <2>1. PICK x \in h : x.cost = d[t]
    BY <1>3 DEF Open
  <2> QED BY <2>1
<1>6. \A x \in h : M <= x.cost
  BY <1>3, <1>4, <1>5
<1>7. HopCost \in Nat /\ Ranked(p, d)
  BY <1>1, DijRanked, RouterAssumption
<1>8. PICK r : r = PathTo(p, t)
  OBVIOUS
<1>9. /\ Leads(query.from, r, t) /\ (\A i \in 1..Len(r) : r[i].to # query.from) /\ PathCost(r, HopCost) <= d[t]
  BY <1>1, <1>3, <1>7, <1>8, PathToFacts
<1>10. r \in Seq(AllHops)
  BY <1>9 DEF Leads
<1>11. PathCost(r, HopCost) \in Nat
  BY <1>7, <1>10, CostType
<1>12. <<r>> \in Seq(Seq(AllHops)) /\ Len(<<r>>) = 1 /\ <<r>>[1] = r
  <2>1. PICK R : R = Seq(AllHops)
    OBVIOUS
  <2> QED BY <1>10, <2>1
<1>13. ASSUME query.from # query.to
       PROVE  /\ r \in PathSet(Longest)
              /\ \A q \in PathSet(Longest) : PathCost(r, HopCost) <= PathCost(q, HopCost)
  <2>1. r \in PathSet(Longest)
    BY <1>2, <1>9, <1>13, LeadsInSet
  <2>2. ASSUME NEW q \in PathSet(Longest) PROVE PathCost(r, HopCost) <= PathCost(q, HopCost)
    <3>1. /\ PathCost(q, HopCost) \in Nat
          /\ M <= PathCost(q, HopCost) \/ (query.to \in DOMAIN d /\ d[query.to] <= PathCost(q, HopCost))
      BY <1>1, <1>6, <1>7, LowerBound
    <3>2. M <= PathCost(q, HopCost)
      BY <1>2, <1>4, <3>1
    <3> QED BY <1>4, <1>9, <1>11, <3>1, <3>2
  <2> QED BY <2>1, <2>2
<1> QED BY <1>2, <1>8, <1>12, <1>13 DEF DijFound

LEMMA NoneFound ==
    ASSUME pools \in Catalogs, NEW d, NEW p, DijState(d, p, {})
    PROVE  DijFound(<<>>)
<1>1. /\ Tree(d, p, HopCost) /\ Heap(d, {})
      /\ \A v \in DOMAIN d : Open(d, {}, v) \/ AllSettled(d, v, HopCost)
  BY DEF DijState
<1>2. query.to \notin DOMAIN d
  BY <1>1 DEF Heap, Open
<1>3. HopCost \in Nat
  BY RouterAssumption
<1>4. ASSUME NEW q \in PathSet(Longest) PROVE FALSE
  <2>0. q \in Seq(AllHops)
    BY DEF PathSet
  <2>1. PICK M \in Nat : M = PathCost(q, HopCost) + 1
    BY <1>3, <2>0, CostType
  <2>2. PICK h : h = {}
    OBVIOUS
  <2>3. (\A x \in h : M <= x.cost) /\ \A v \in DOMAIN d : Open(d, h, v) \/ AllSettled(d, v, HopCost)
    BY <1>1, <2>2
  <2>4. /\ PathCost(q, HopCost) \in Nat
        /\ M <= PathCost(q, HopCost) \/ (query.to \in DOMAIN d /\ d[query.to] <= PathCost(q, HopCost))
    BY <1>1, <1>3, <2>3, LowerBound
  <2> QED BY <1>2, <2>1, <2>4
<1>5. <<>> \in Seq(Seq(AllHops))
  OBVIOUS
<1> QED BY <1>4, <1>5 DEF DijFound

LEMMA DijRigid ==
    ASSUME UNCHANGED <<pools, query>>, NEW d, NEW p, NEW h, NEW rs
    PROVE  /\ DijState(d, p, h) => DijState(d, p, h)'
           /\ DijFound(rs) => DijFound(rs)'
<1>1. AllHops' = AllHops /\ PathSet(Longest)' = PathSet(Longest)
  BY PathSetSame DEF Longest
<1>2. Tree(d, p, HopCost) => Tree(d, p, HopCost)'
  BY <1>1 DEF Tree
<1>3. Heap(d, h) => Heap(d, h)'
  BY DEF Heap
<1>4. \A v : AllSettled(d, v, HopCost) => AllSettled(d, v, HopCost)'
  BY <1>1 DEF AllSettled
<1>5. DijState(d, p, h) => DijState(d, p, h)'
  BY <1>2, <1>3, <1>4 DEF DijState
<1>6. DijFound(rs) => DijFound(rs)'
  BY <1>1 DEF DijFound
<1> QED BY <1>5, <1>6

DijAt(d, p, h) == search = [dist |-> d, parent |-> p, heap |-> h] /\ DijState(d, p, h)

DijInv ==
    /\ ReqInv
    /\ pc = "start" => routes = <<>>
    /\ pc = "dfs" => query.amount > Threshold
    /\ pc = "dijkstra" => /\ query.amount <= Threshold /\ routes = <<>>
                          /\ \E d, p, h : DijAt(d, p, h)
    /\ pc = "found" /\ query.amount <= Threshold => DijFound(routes)

LEMMA DijStarts ==
    ASSUME DijInv, StartDijkstra
    PROVE  DijInv'
<1>1. ReqInv'
  BY ReqInductive DEF DijInv, StartDijkstra, Next, RouterNext, ReqInv
<1>2. /\ UNCHANGED <<pools, query, routes>> /\ routes = <<>> /\ query.amount <= Threshold /\ pc' = "dijkstra"
      /\ search' = [dist   |-> [t \in {query.from} |-> 0], parent |-> <<>>,
                    heap   |-> {[token |-> query.from, cost |-> 0]}]
  BY DEF StartDijkstra, DijInv
<1>3. PICK f : f = query.from
  OBVIOUS
<1>4. PICK d, p, h : d = [t \in {f} |-> 0] /\ p = <<>> /\ h = {[token |-> f, cost |-> 0]}
  OBVIOUS
<1>5. DOMAIN d = {f} /\ d[f] = 0 /\ DOMAIN p = {}
  BY <1>4
<1>6. IsFiniteSet({f})
  BY FS_Singleton
<1>7. Tree(d, p, HopCost)
  BY <1>3, <1>5, <1>6 DEF Tree
<1>8. Open(d, h, f)
  BY <1>4, <1>5 DEF Open
<1>9. Heap(d, h)
  BY <1>4, <1>5, <1>8 DEF Heap
<1>10. DijState(d, p, h)
  BY <1>5, <1>7, <1>8, <1>9 DEF DijState
<1>11. DijState(d, p, h)'
  BY <1>2, <1>10, DijRigid
<1>12. DijAt(d, p, h)'
  BY <1>2, <1>3, <1>4, <1>11 DEF DijAt
<1>13. (\E a, b, c : DijAt(a, b, c))'
  BY <1>12
<1> QED BY <1>1, <1>2, <1>13 DEF DijInv

LEMMA DijPops ==
    ASSUME DijInv, DijkstraPop
    PROVE  DijInv'
<1>1. ReqInv'
  BY ReqInductive DEF DijInv, DijkstraPop, Next, RouterNext, ReqInv
<1>2. UNCHANGED <<pools, query>> /\ routes = <<>> /\ query.amount <= Threshold /\ pc = "dijkstra"
  BY DEF DijkstraPop, DijInv
<1>3. pools \in Catalogs
  BY <1>2, ReqFacts DEF DijInv
<1>4. PICK d, p, h : search = [dist |-> d, parent |-> p, heap |-> h] /\ DijState(d, p, h)
  BY <1>2 DEF DijInv, DijAt
<1>5. search.dist = d /\ search.parent = p /\ search.heap = h
  BY <1>4
<1>6. \A n : [search EXCEPT !.heap = @ \ {n}] = [dist |-> d, parent |-> p, heap |-> h \ {n}]
  BY <1>4
<1>7. PICK n \in h : /\ \A m \in h : n.cost <= m.cost
                     /\ \/ /\ n.token = query.to
                           /\ routes' = <<PathTo(p, query.to)>> /\ pc' = "found"
                        \/ /\ n.token # query.to
                           /\ search' = IF n.cost > d[n.token] THEN [dist |-> d, parent |-> p, heap |-> h \ {n}]
                                        ELSE RelaxedOver([dist |-> d, parent |-> p, heap |-> h \ {n}], n.cost,
                                                         Edges(pools, n.token))
                           /\ UNCHANGED <<pc, routes>>
  BY <1>5, <1>6 DEF DijkstraPop, RelaxedOver
<1>8. CASE n.token = query.to
  <2>1. PICK rs : rs = <<PathTo(p, query.to)>>
    OBVIOUS
  <2>2. DijFound(rs)
    BY <1>3, <1>4, <1>7, <1>8, <2>1, PopFinds
  <2>3. DijFound(rs)'
    BY <1>2, <2>2, DijRigid
  <2>4. DijFound(routes)' /\ pc' = "found"
    BY <1>7, <1>8, <2>1, <2>3
  <2> QED BY <1>1, <2>4 DEF DijInv
<1>9. CASE n.token # query.to
  <2>1. PICK d2, p2, h2 : search' = [dist |-> d2, parent |-> p2, heap |-> h2] /\ DijState(d2, p2, h2)
    <3>1. CASE n.cost > d[n.token]
      BY <1>4, <1>7, <1>9, <3>1, PopSkips
    <3>2. CASE ~(n.cost > d[n.token])
      <4>1. PICK s : s = [dist |-> d, parent |-> p, heap |-> h \ {n}]
        OBVIOUS
      <4>2. AllRelaxed(s, n.cost, Edges(pools, n.token))
        BY <1>3, <1>4, <1>9, <3>2, <4>1, PopRelaxes
      <4>3. search' = RelaxedOver(s, n.cost, Edges(pools, n.token))
        BY <1>7, <1>9, <3>2, <4>1
      <4> QED BY <4>2, <4>3 DEF AllRelaxed
    <3> QED BY <3>1, <3>2
  <2>2. DijState(d2, p2, h2)'
    BY <1>2, <2>1, DijRigid
  <2>3. DijAt(d2, p2, h2)'
    BY <2>1, <2>2 DEF DijAt
  <2>4. (\E a, b, c : DijAt(a, b, c))'
    BY <2>3
  <2>5. UNCHANGED <<pc, routes>>
    BY <1>7, <1>9
  <2> QED BY <1>1, <1>2, <2>4, <2>5 DEF DijInv
<1> QED BY <1>8, <1>9

LEMMA DijEnds ==
    ASSUME DijInv, DijkstraExhausted
    PROVE  DijInv'
<1>1. ReqInv'
  BY ReqInductive DEF DijInv, DijkstraExhausted, Next, RouterNext, ReqInv
<1>2. /\ UNCHANGED <<pools, query, routes>> /\ routes = <<>> /\ pc = "dijkstra" /\ pc' = "found"
      /\ search.heap = {}
  BY DEF DijkstraExhausted, DijInv
<1>3. pools \in Catalogs
  BY <1>2, ReqFacts DEF DijInv
<1>4. PICK d, p, h : search = [dist |-> d, parent |-> p, heap |-> h] /\ DijState(d, p, h)
  BY <1>2 DEF DijInv, DijAt
<1>5. h = {}
  BY <1>2, <1>4
<1>6. DijState(d, p, {})
  BY <1>4, <1>5
<1>7. PICK rs : rs = <<>> /\ DijFound(rs)
  BY <1>3, <1>6, NoneFound
<1>8. DijFound(rs)'
  BY <1>2, <1>7, DijRigid
<1>9. DijFound(routes)'
  BY <1>2, <1>7, <1>8
<1> QED BY <1>1, <1>2, <1>9 DEF DijInv

LEMMA DijInductive == DijInv /\ [Next]_vars => DijInv'
<1> SUFFICES ASSUME DijInv, [Next]_vars PROVE DijInv'
  OBVIOUS
<1>1. ReqInv'
  BY ReqInductive DEF DijInv
<1>2. CASE StartDijkstra
  BY <1>2, DijStarts
<1>3. CASE DijkstraPop
  BY <1>3, DijPops
<1>4. CASE DijkstraExhausted
  BY <1>4, DijEnds
<1>5. CASE UNCHANGED routerVars
  <2>1. UNCHANGED <<pools, query, routes, search, pc>>
    BY <1>5 DEF routerVars
  <2>2. ASSUME NEW d, NEW p, NEW h, DijAt(d, p, h) PROVE DijAt(d, p, h)'
    <3>1. DijState(d, p, h)'
      BY <2>1, <2>2, DijRigid DEF DijAt
    <3> QED BY <2>1, <2>2, <3>1 DEF DijAt
  <2>3. (\E d, p, h : DijAt(d, p, h)) => (\E d, p, h : DijAt(d, p, h))'
    BY <2>2
  <2>4. ASSUME DijFound(routes) PROVE DijFound(routes)'
    <3>1. PICK rs : rs = routes
      OBVIOUS
    <3>2. DijFound(rs)'
      BY <2>1, <2>4, <3>1, DijRigid
    <3> QED BY <2>1, <3>1, <3>2
  <2> QED BY <1>1, <2>1, <2>3, <2>4 DEF DijInv
<1>6. CASE RouterNext /\ ~StartDijkstra /\ ~DijkstraPop /\ ~DijkstraExhausted
  <2>1. pc # "idle"
    BY <1>6 DEF RouterNext, StartDfs, DfsEdge, DfsReturn,
          StartBellman, BellmanRound, BellmanEnd, StartSplit, SplitRound
  <2>2. query.amount \in Nat /\ Threshold \in Nat
    BY <2>1, ReqFacts DEF DijInv
  <2>3. ~(query.amount > Threshold /\ query.amount <= Threshold)
    BY <2>2
  <2>4. CASE StartDfs
    <3>1. pc' \in {"dfs", "found"} /\ UNCHANGED query /\ query.amount > Threshold
      BY <2>4 DEF StartDfs
    <3> QED BY <1>1, <2>3, <3>1 DEF DijInv
  <2>5. CASE DfsEdge \/ DfsReturn
    <3>1. pc = "dfs" /\ pc' \in {"dfs", "found"} /\ UNCHANGED query
      BY <2>5 DEF DfsEdge, DfsReturn
    <3> QED BY <1>1, <2>3, <3>1 DEF DijInv
  <2>6. CASE StartBellman \/ BellmanRound \/ BellmanEnd \/ StartSplit
             \/ \E w \in [DOMAIN active -> 0..MaxWeight] : SplitRound(w)
    <3>1. pc' \in {"bellman", "done", "split"}
      BY <2>6 DEF StartBellman, BellmanRound, BellmanEnd, StartSplit, SplitRound, Finish
    <3> QED BY <1>1, <3>1 DEF DijInv
  <2> QED BY <1>6, <2>4, <2>5, <2>6 DEF RouterNext
<1> QED BY <1>2, <1>3, <1>4, <1>5, <1>6 DEF Next, vars

\* For any catalog and request, whatever order the heap gives to nodes of equal
\* cost: find_shortest_path_dijkstra finds a route exactly if there is one, and
\* no simple path has a smaller sum of fees and hop costs than the route.
THEOREM DijkstraFindsCheapest == Spec => []DijkstraOptimal
<1>1. Init => DijInv
  BY DEF Init, RouterInit, RouterIdle, DijInv, ReqInv
<1>2. ASSUME DijInv PROVE DijkstraOptimal
  <2> SUFFICES ASSUME pc = "found", query.amount <= Threshold, query.from # query.to
               PROVE  LET all == SimplePaths(query.from, query.to, Cardinality(TokensOf(pools)) - 1)
                      IN IF all = {} THEN routes = <<>>
                         ELSE Len(routes) = 1 /\ Cheapest(routes[1], all, HopCost)
    BY DEF DijkstraOptimal
  <2>1. DijFound(routes) /\ pools \in Catalogs
    BY <1>2, ReqFacts DEF DijInv
  <2>2. IsFiniteSet(TokensOf(pools))
    BY <2>1, TokensFacts
  <2>3. Cardinality(TokensOf(pools)) \in Nat
    BY <2>2, FS_CardinalityType
  <2>4. Longest \in Int
    BY <2>3 DEF Longest
  <2>5. SimplePaths(query.from, query.to, Longest) = PathSet(Longest)
    BY <2>4, PathSetIs
  <2> QED BY <2>1, <2>5 DEF DijFound, Cheapest, Longest
<1> QED BY <1>1, <1>2, DijInductive, PTL DEF Spec

-----------------------------------------------------------------------------
\* Every answered split spends the input.

LEMMA KeptFacts ==
    ASSUME routes \in Seq(Seq(AllHops))
    PROVE  Kept \in Seq(Short)
<1>1. PICK R : R = Seq(AllHops)
  OBVIOUS
<1>2. IsSeq(routes) /\ \A j \in 1..Len(routes) : routes[j] \in R
  <2>1. routes \in Seq(R)
    BY <1>1
  <2> QED BY <2>1, InSeq
<1> DEFINE T == {r \in ToSet(routes) : Len(r) <= SplitHops}
<1>3. Kept = Filter(routes, T)
  BY DEF Kept
<1>4. \A r \in T : Len(r) <= SplitHops
  OBVIOUS
<1> HIDE DEF T
<1>5. PICK k : k = Kept
  OBVIOUS
<1>6. IsSeq(k) /\ \A i \in 1..Len(k) : k[i] \in T /\ \E j \in 1..Len(routes) : k[i] = routes[j]
  BY <1>2, <1>3, <1>5, FilterFacts
<1>7. \A i \in 1..Len(k) : k[i] \in R /\ Len(k[i]) <= SplitHops
  BY <1>2, <1>4, <1>6
<1>8. \A i \in 1..Len(k) : k[i] \in Short
  BY <1>1, <1>7 DEF Short
<1>9. k \in Seq(Short)
  BY <1>6, <1>8, IsSeqIn
<1> QED BY <1>5, <1>9

\* The best single route is one of those kept.
LEMMA FinishSpends ==
    ASSUME pools \in Catalogs, routes \in Seq(Seq(AllHops)), Kept # <<>>, query.amount \in Nat \ {0},
           NEW b, b = <<>> \/ Spends(b), Finish(b)
    PROVE  \E s : answer' = [status |-> "split", splits |-> s] /\ Spends(s)
<1>1. PICK K : K = Kept
  OBVIOUS
<1>2. K \in Seq(Short) /\ K # <<>>
  BY <1>1, KeptFacts
<1>3. PICK n \in Nat \ {0} : n = Len(K) /\ DOMAIN K = 1..n /\ \A i \in 1..n : K[i] \in Short
  <2>1. PICK X : X = Short
    OBVIOUS
  <2>2. K \in Seq(X)
    BY <1>2, <2>1
  <2>3. Len(K) \in Nat \ {0} /\ DOMAIN K = 1..Len(K) /\ \A i \in 1..Len(K) : K[i] \in X
    BY <1>2, <2>2
  <2> QED BY <2>1, <2>3
<1>4. PICK a \in Rationals : a = <<query.amount, 1>>
  <2>1. PICK x \in Nat : x = query.amount
    OBVIOUS
  <2>2. <<x, 1>> \in Nat \X (Nat \ {0})
    OBVIOUS
  <2> QED BY <2>1, <2>2 DEF Rationals
<1> DEFINE o(r) == RouteOut(r, a)
           v == [i \in 1..n |-> o(K[i])]
           I == {i \in 1..n : \A j \in DOMAIN K : o(K[j]) <= o(K[i])}
           i == SelectInSeq(K, LAMBDA r : \A j \in DOMAIN K : o(K[j]) <= o(r))
<1>5. answer' = [status |-> "split", splits |-> IF b # <<>> THEN b ELSE <<Split(K[i], query.amount, o(K[i]))>>]
  BY <1>1, <1>4 DEF Finish
<1>6. i = IF I # {} THEN Min(I) ELSE 0
  BY <1>3 DEF SelectInSeq
<1>7. v \in [1..n -> Int]
  <2>1. \A j \in 1..n : o(K[j]) \in Nat
    <3> TAKE j \in 1..n
    <3>1. K[j] \in Seq(AllHops)
      BY <1>3 DEF Short
    <3> QED BY <3>1, RouteOutType
  <2> HIDE DEF o
  <2> QED BY <2>1
<1>8. \E x \in 1..n : \A j \in 1..n : v[j] <= v[x]
  <2> HIDE DEF v
  <2> QED BY <1>7, Greatest
<1>9. I # {}
  <2> HIDE DEF o
  <2> QED BY <1>3, <1>8
<1>10. \A x \in I : x \in Nat /\ x \in 1..n
  OBVIOUS
<1> HIDE DEF I, i, v
<1>11. i \in 1..n
  <2>1. \E x \in I : \A y \in I : x <= y
    BY <1>9, <1>10, HasLeast
  <2>2. Min(I) \in I
    BY <2>1 DEF Min
  <2> QED BY <1>6, <1>9, <1>10, <2>2
<1>12. K[i] \in Short
  BY <1>3, <1>11
<1>13. Spends(<<Split(K[i], query.amount, o(K[i]))>>)
  <2> HIDE DEF o
  <2> QED BY <1>12, OneSpends
<1> HIDE DEF o
<1> QED BY <1>5, <1>13

LEMMA SplitRigid ==
    ASSUME UNCHANGED <<pools, query>>, NEW s
    PROVE  /\ Short' = Short /\ Seq(Seq(AllHops))' = Seq(Seq(AllHops))
           /\ Spends(s) => Spends(s)'
<1>1. AllHops' = AllHops
  BY PathSetSame
<1>2. Short' = Short
  BY <1>1 DEF Short
<1> QED BY <1>1, <1>2 DEF Spends

SplitInv ==
    /\ pc \in {"found", "split"} => routes \in Seq(Seq(AllHops))
    /\ pc = "split" => /\ active \in Seq(Short) /\ active # <<>> /\ Kept # <<>>
                       /\ query.amount \in Nat \ {0}
    /\ best = <<>> \/ Spends(best)
    /\ answer.status = "split" => Spends(answer.splits)

\* One turn of the pruning loop.
LEMMA SplitRoundKeeps ==
    ASSUME ReqInv, SplitInv, NEW w \in [DOMAIN active -> 0..MaxWeight], SplitRound(w)
    PROVE  SplitInv'
<1>0. pc = "split" /\ UNCHANGED <<pools, query, routes>>
  BY DEF SplitRound
<1>1. pools \in Catalogs
  BY <1>0, ReqFacts
<1>2. /\ routes \in Seq(Seq(AllHops)) /\ active \in Seq(Short) /\ active # <<>> /\ Kept # <<>>
      /\ query.amount \in Nat \ {0} /\ (best = <<>> \/ Spends(best))
  BY <1>0 DEF SplitInv
<1>3. ASSUME NEW e \in [DOMAIN active -> Errors], NEW s, s = GrossSplit(active, w, e)
      PROVE  s = <<>> \/ Spends(s)
  <2>1. w \in [DOMAIN active -> Nat]
    BY RouterAssumption
  <2> QED BY <1>2, <1>3, <2>1, GrossSpends
<1>4. PICK splits \in {GrossSplit(active, w, e) : e \in [DOMAIN active -> Errors]} :
      \/ Finish(best) /\ UNCHANGED best
      \/ \E r : /\ active' = Without(active, r) /\ UNCHANGED <<best, answer>>
                /\ active' # <<>> /\ UNCHANGED pc
      \/ /\ best' = splits
         /\ \/ Len(active) > 1 /\ (\E r : active' = Without(active, r)) /\ UNCHANGED <<pc, answer>>
            \/ Finish(splits)
  BY DEF SplitRound
<1>5. splits = <<>> \/ Spends(splits)
  BY <1>3
<1>6. Kept' = Kept
  BY <1>0 DEF Kept
<1>7. /\ Short' = Short /\ Seq(Seq(AllHops))' = Seq(Seq(AllHops))
      /\ \A s : Spends(s) => Spends(s)'
  BY <1>0, SplitRigid
<1>8. ASSUME NEW b, b = <<>> \/ Spends(b), Finish(b), best' = b PROVE SplitInv'
  <2>1. PICK s : answer' = [status |-> "split", splits |-> s] /\ Spends(s)
    BY <1>1, <1>2, <1>8, FinishSpends
  <2>2. answer'.splits = s /\ pc' = "done"
    BY <1>8, <2>1 DEF Finish
  <2>3. Spends(answer.splits)'
    BY <1>7, <2>1, <2>2
  <2>4. (best = <<>> \/ Spends(best))'
    BY <1>7, <1>8
  <2> QED BY <2>2, <2>3, <2>4 DEF SplitInv
<1>9. ASSUME NEW r, active' = Without(active, r), active' # <<>>, UNCHANGED <<pc, answer>>,
             (best = <<>> \/ Spends(best))'
      PROVE  SplitInv'
  <2>1. active' \in Seq(Short)
    BY <1>2, <1>9, WithoutFacts
  <2>2. answer.status = "split" => Spends(answer.splits)
    BY DEF SplitInv
  <2>3. (answer.status = "split" => Spends(answer.splits))'
    <3>1. PICK s : s = answer.splits
      OBVIOUS
    <3>2. answer.status = "split" => Spends(s)'
      BY <1>7, <2>2, <3>1
    <3> QED BY <1>9, <3>1, <3>2
  <2>4. routes' \in Seq(Seq(AllHops))' /\ active' \in Seq(Short)'
    BY <1>0, <1>2, <1>7, <2>1
  <2> QED BY <1>0, <1>2, <1>6, <1>9, <2>3, <2>4 DEF SplitInv
<1>10. (best = <<>> \/ Spends(best)) => (UNCHANGED best => (best = <<>> \/ Spends(best))')
  <2>1. PICK s : s = best
    OBVIOUS
  <2> QED BY <1>7, <2>1
<1>11. CASE Finish(best) /\ UNCHANGED best
  <2>1. PICK b : b = best
    OBVIOUS
  <2> QED BY <1>2, <1>8, <1>11, <2>1
<1>12. CASE \E r : /\ active' = Without(active, r) /\ UNCHANGED <<best, answer>>
                   /\ active' # <<>> /\ UNCHANGED pc
  BY <1>2, <1>9, <1>10, <1>12
<1>13. CASE /\ best' = splits /\ Len(active) > 1
            /\ (\E r : active' = Without(active, r)) /\ UNCHANGED <<pc, answer>>
  <2>1. PICK r : active' = Without(active, r)
    BY <1>13
  <2>2. active' # <<>>
    BY <1>2, <1>13, <2>1, WithoutFacts
  <2>3. (best = <<>> \/ Spends(best))'
    BY <1>5, <1>7, <1>13
  <2> QED BY <1>9, <1>13, <2>1, <2>2, <2>3
<1>14. CASE best' = splits /\ Finish(splits)
  BY <1>5, <1>8, <1>14
<1> QED BY <1>4, <1>11, <1>12, <1>13, <1>14

LEMMA SplitInductive ==
    ASSUME DfsInv, DijInv, SplitInv, [Next]_vars, DfsInv', DijInv'
    PROVE  SplitInv'
<1>1. CASE \E w \in [DOMAIN active -> 0..MaxWeight] : SplitRound(w)
  BY <1>1, SplitRoundKeeps DEF DfsInv
<1>2. ASSUME UNCHANGED <<pools, query, best>>
      PROVE  (best = <<>> \/ Spends(best))'
  <2>1. PICK s : s = best /\ (s = <<>> \/ Spends(s))
    BY DEF SplitInv
  <2>2. s = <<>> \/ Spends(s)'
    BY <1>2, <2>1, SplitRigid
  <2> QED BY <1>2, <2>1, <2>2
<1>3. ASSUME UNCHANGED <<pools, query>>, UNCHANGED answer \/ answer'.status # "split"
      PROVE  (answer.status = "split" => Spends(answer.splits))'
  <2>1. PICK s : s = answer.splits /\ (answer.status = "split" => Spends(s))
    BY DEF SplitInv
  <2>2. answer.status = "split" => Spends(s)'
    BY <1>3, <2>1, SplitRigid
  <2> QED BY <1>3, <2>1, <2>2
<1>4. CASE UNCHANGED routerVars
  <2>1. UNCHANGED <<pools, query, best, answer, pc, routes, active>>
    BY <1>4 DEF routerVars
  <2>2. Short' = Short /\ Seq(Seq(AllHops))' = Seq(Seq(AllHops)) /\ Kept' = Kept
    BY <2>1, SplitRigid DEF Kept
  <2> QED BY <1>2, <1>3, <2>1, <2>2 DEF SplitInv
<1>5. CASE StartDijkstra \/ DijkstraPop \/ DijkstraExhausted
  <2>1. UNCHANGED <<pools, query, best, answer>> /\ pc' \in {"dijkstra", "found"}
    BY <1>5 DEF StartDijkstra, DijkstraPop, DijkstraExhausted
  <2>2. ASSUME pc' = "found" PROVE routes' \in Seq(Seq(AllHops))'
    <3>1. query.amount <= Threshold
      BY <1>5, <2>2 DEF StartDijkstra, DijkstraPop, DijkstraExhausted, DijInv
    <3>2. DijFound(routes)'
      BY <2>1, <2>2, <3>1 DEF DijInv
    <3> QED BY <3>2 DEF DijFound
  <2> QED BY <1>2, <1>3, <2>1, <2>2 DEF SplitInv
<1>6. CASE StartDfs \/ DfsEdge \/ DfsReturn
  <2>1. UNCHANGED <<pools, query, best, answer>> /\ pc' \in {"dfs", "found"}
    BY <1>6 DEF StartDfs, DfsEdge, DfsReturn
  <2>2. ASSUME pc' = "found" PROVE routes' \in Seq(Seq(AllHops))'
    <3>1. CASE StartDfs
      <4>1. routes' = <<>>
        BY <3>1 DEF StartDfs, DfsInv
      <4> QED BY <4>1
    <3>2. CASE DfsEdge \/ DfsReturn
      <4>1. query.amount > Threshold /\ query.from # query.to
        BY <3>2 DEF DfsEdge, DfsReturn, DfsInv
      <4>2. AllRecorded'
        BY <2>1, <2>2, <4>1 DEF DfsInv
      <4>3. IsSeq(routes') /\ \A i \in 1..Len(routes') : routes'[i] \in Seq(AllHops)'
        BY <4>2 DEF AllRecorded, Wanted, PathSet
      <4>4. PICK rs, R : rs = routes' /\ R = Seq(AllHops)'
        OBVIOUS
      <4>5. rs \in Seq(R)
        BY <4>3, <4>4, IsSeqIn
      <4> QED BY <4>4, <4>5
    <3> QED BY <1>6, <3>1, <3>2
  <2> QED BY <1>2, <1>3, <2>1, <2>2 DEF SplitInv
<1>7. CASE StartBellman \/ BellmanRound \/ BellmanEnd
  <2>1. /\ UNCHANGED <<pools, query, best>> /\ pc' \in {"bellman", "done"}
        /\ UNCHANGED answer \/ answer'.status # "split"
    BY <1>7 DEF StartBellman, BellmanRound, BellmanEnd
  <2> QED BY <1>2, <1>3, <2>1 DEF SplitInv
<1>8. CASE StartSplit
  <2>1. /\ UNCHANGED <<pools, query, best, routes>> /\ pc = "found" /\ pc' \in {"done", "split"}
        /\ UNCHANGED answer \/ answer'.status # "split"
        /\ pc' = "split" => Kept # <<>> /\ query.amount > 0 /\ active' = Kept
    BY <1>8 DEF StartSplit
  <2>2. Short' = Short /\ Seq(Seq(AllHops))' = Seq(Seq(AllHops)) /\ Kept' = Kept
    BY <2>1, SplitRigid DEF Kept
  <2>3. routes \in Seq(Seq(AllHops)) /\ Kept \in Seq(Short)
    BY <2>1, KeptFacts DEF SplitInv
  <2>4. query.amount \in Nat
    BY <2>1, ReqFacts DEF DfsInv
  <2>5. pc' = "split" => query'.amount \in Nat \ {0}
    BY <2>1, <2>4
  <2>6. pc' = "split" => active' \in Seq(Short)' /\ active' # <<>> /\ Kept' # <<>>
    BY <2>1, <2>2, <2>3
  <2> QED BY <1>2, <1>3, <2>1, <2>2, <2>3, <2>5, <2>6 DEF SplitInv
<1> QED BY <1>1, <1>4, <1>5, <1>6, <1>7, <1>8 DEF Next, vars, RouterNext

\* For any catalog, request, gas price and allocations, whichever search found
\* the routes: an answered request spends the whole input, and no more of it as
\* long as the f64 errors stay below one unit, on routes of at most SplitHops
\* hops that each get a positive part, through pools that are not paused.
THEOREM EverySplitSpends == Spec => []SplitSpendsInput
<1> DEFINE Inv == DfsInv /\ DijInv /\ SplitInv
<1>1. Init => Inv
  BY DEF Init, RouterInit, RouterIdle, DfsInv, DijInv, SplitInv, ReqInv
<1>2. Inv /\ [Next]_vars => Inv'
  BY DfsInductive, DijInductive, SplitInductive
<1>3. ASSUME Inv PROVE SplitSpendsInput
  <2> SUFFICES ASSUME answer.status = "split"
               PROVE  /\ SumIn(answer.splits) >= query.amount
                      /\ query.amount <= Exact => SumIn(answer.splits) = query.amount
                      /\ \A s \in ToSet(answer.splits) :
                           /\ s.in > 0
                           /\ Len(s.route) <= SplitHops
                           /\ \A k \in DOMAIN s.route : ~PoolOf(s.route[k]).paused
    BY DEF SplitSpendsInput
  <2>1. Spends(answer.splits) /\ pools \in Catalogs
    BY <1>3, ReqFacts DEF SplitInv, DfsInv, ReqInv
  <2>2. PICK sp : sp = answer.splits /\ DOMAIN sp = 1..Len(sp)
    BY <2>1, SeqFacts DEF Spends
  <2>3. ASSUME NEW s \in ToSet(sp)
        PROVE  s.in > 0 /\ Len(s.route) <= SplitHops /\ \A k \in DOMAIN s.route : ~PoolOf(s.route[k]).paused
    <3>1. PICK i \in 1..Len(sp) : s = sp[i]
      BY <2>2 DEF ToSet
    <3>2. s.in \in Nat \ {0} /\ s.route \in Short
      BY <2>1, <2>2, <3>1 DEF Spends
    <3>3. s.route \in Seq(AllHops) /\ Len(s.route) <= SplitHops
      BY <3>2 DEF Short
    <3>4. ASSUME NEW k \in DOMAIN s.route PROVE ~PoolOf(s.route[k]).paused
      <4>1. PICK H : H = AllHops
        OBVIOUS
      <4>2. s.route[k] \in H
        BY <3>3, <4>1
      <4> QED BY <2>1, <4>1, <4>2, PoolOfHop
    <3>5. s.in > 0
      BY <3>2
    <3> QED BY <3>3, <3>4, <3>5
  <2>4. SumIn(sp) >= query.amount /\ (query.amount <= Exact => SumIn(sp) = query.amount)
    BY <2>1, <2>2 DEF Spends
  <2> QED BY <2>2, <2>3, <2>4
<1> QED BY <1>1, <1>2, <1>3, PTL DEF Spec

-----------------------------------------------------------------------------
\* Bellman-Ford: the loop over the edges of a token, and the loop over the tokens.

BellmanChain(c, s0, cost, es) ==
    c[0] = s0 /\ \A k \in 1..Len(es) : c[k] = BellmanRelax(c[k - 1], cost, es[k])

BellmanOver(s0, cost, es) == Fold(LAMBDA t, e : BellmanRelax(t, cost, e), s0, es)

LEMMA BellmanRuns ==
    ASSUME NEW s0, NEW cost, NEW es, Len(es) \in Nat
    PROVE  \E c : /\ BellmanChain(c, s0, cost, es)
                  /\ BellmanOver(s0, cost, es) = c[Len(es)]
<1> DEFINE n == Len(es)
           Q(x, k) == BellmanRelax(x, cost, es[k])
           P(f) == f = [k \in 0..n |-> IF k = 0 THEN s0
                                       ELSE CHOOSE x \in {BellmanRelax(a, cost, es[k]) : a \in {f[k - 1]}} : TRUE]
           c == CHOOSE f : P(f)
           Upto(f, m) == f = [k \in 0..m |-> f[k]] /\ f[0] = s0 /\ \A k \in 1..m : f[k] = Q(f[k - 1], k)
           Ok(m) == \E f : Upto(f, m)
           S == {m \in 0..n : Ok(m)}
<1>1. BellmanOver(s0, cost, es) = c[n]
  BY DEF BellmanOver, Fold
<1>2. \A x, k : (CHOOSE y \in {BellmanRelax(a, cost, es[k]) : a \in {x}} : TRUE) = Q(x, k)
  OBVIOUS
<1>3. n \in Nat
  OBVIOUS
<1> HIDE DEF n, Q, c
<1>4. 0 \in S
  <2> DEFINE f == [k \in 0..0 |-> s0]
  <2>1. f = [k \in 0..0 |-> f[k]] /\ f[0] = s0 /\ \A k \in 1..0 : FALSE
    OBVIOUS
  <2> HIDE DEF f
  <2>2. Upto(f, 0)
    BY <2>1
  <2> QED BY <1>3, <2>2
<1>5. ASSUME NEW m \in 1..n, m - 1 \in S PROVE m \in S
  <2>0. PICK l \in Nat : l = m - 1
    BY <1>3
  <2>1. PICK g : Upto(g, l)
    BY <1>5, <2>0
  <2> DEFINE f == [k \in 0..m |-> IF k = m THEN Q(g[l], m) ELSE g[k]]
  <2>2. f = [k \in 0..m |-> f[k]]
    OBVIOUS
  <2>3. f[m] = Q(g[l], m) /\ \A k \in 0..l : f[k] = g[k]
    BY <2>0
  <2> HIDE DEF f
  <2>4. f[0] = s0 /\ f[l] = g[l]
    BY <2>0, <2>1, <2>3
  <2>5. ASSUME NEW k \in 1..m PROVE f[k] = Q(f[k - 1], k)
    <3>1. CASE k = m
      BY <2>0, <2>3, <2>4, <3>1
    <3>2. CASE k # m
      <4>1. k \in 1..l /\ k \in 0..l /\ k - 1 \in 0..l
        BY <2>0, <3>2
      <4>2. g[k] = Q(g[k - 1], k) /\ f[k] = g[k] /\ f[k - 1] = g[k - 1]
        BY <2>1, <2>3, <4>1
      <4> QED BY <4>2
    <3> QED BY <3>1, <3>2
  <2>6. Upto(f, m)
    BY <2>2, <2>4, <2>5
  <2>7. Ok(m)
    BY <2>6
  <2> HIDE DEF Ok
  <2> QED BY <1>3, <2>7
<1>6. \A m \in 0..n : m \in S
  <2> HIDE DEF S
  <2> QED BY <1>3, <1>4, <1>5, Induct
<1>7. Ok(n)
  <2> HIDE DEF Ok
  <2>1. n \in 0..n
    BY <1>3
  <2> QED BY <1>6, <2>1
<1>8. PICK g : Upto(g, n)
  BY <1>7
<1>9. \A k \in 0..n : k = 0 \/ (k \in 1..n /\ k # 0)
  BY <1>3
<1>10. P(g)
  <2>1. \A k \in 1..n : g[k] = CHOOSE x \in {BellmanRelax(a, cost, es[k]) : a \in {g[k - 1]}} : TRUE
    BY <1>2, <1>8, Zenon
  <2> QED BY <1>8, <1>9, <2>1, Zenon
<1>11. P(c)
  <2> HIDE DEF P
  <2> QED BY <1>10 DEF c
<1>12. BellmanChain(c, s0, cost, es)
  <2>0. 0 \in 0..n /\ \A k \in 1..n : k \in 0..n /\ k # 0
    BY <1>3
  <2>1. c[0] = s0
    BY <1>11, <2>0, Zenon
  <2>2. \A k \in 1..n : c[k] = CHOOSE x \in {BellmanRelax(a, cost, es[k]) : a \in {c[k - 1]}} : TRUE
    BY <1>11, <2>0, Zenon
  <2> HIDE DEF P
  <2>3. \A k \in 1..n : c[k] = BellmanRelax(c[k - 1], cost, es[k])
    BY <1>2, <2>2, Zenon DEF Q
  <2> QED BY <2>1, <2>3 DEF n, BellmanChain
<1> QED BY <1>1, <1>12 DEF n

RoundChain(c, s0, es) ==
    c[0] = s0 /\ \A k \in 1..Len(es) : c[k] = BellmanVisit(c[k - 1], es[k])

RoundOver(s0, es) == Fold(BellmanVisit, s0, es)

LEMMA RoundRuns ==
    ASSUME NEW s0, NEW es, Len(es) \in Nat
    PROVE  \E c : /\ RoundChain(c, s0, es)
                  /\ RoundOver(s0, es) = c[Len(es)]
<1> DEFINE n == Len(es)
           Q(x, k) == BellmanVisit(x, es[k])
           P(f) == f = [k \in 0..n |-> IF k = 0 THEN s0
                                       ELSE CHOOSE x \in {BellmanVisit(a, es[k]) : a \in {f[k - 1]}} : TRUE]
           c == CHOOSE f : P(f)
           Upto(f, m) == f = [k \in 0..m |-> f[k]] /\ f[0] = s0 /\ \A k \in 1..m : f[k] = Q(f[k - 1], k)
           Ok(m) == \E f : Upto(f, m)
           S == {m \in 0..n : Ok(m)}
<1>1. RoundOver(s0, es) = c[n]
  BY DEF RoundOver, Fold
<1>2. \A x, k : (CHOOSE y \in {BellmanVisit(a, es[k]) : a \in {x}} : TRUE) = Q(x, k)
  OBVIOUS
<1>3. n \in Nat
  OBVIOUS
<1> HIDE DEF n, Q, c
<1>4. 0 \in S
  <2> DEFINE f == [k \in 0..0 |-> s0]
  <2>1. f = [k \in 0..0 |-> f[k]] /\ f[0] = s0 /\ \A k \in 1..0 : FALSE
    OBVIOUS
  <2> HIDE DEF f
  <2>2. Upto(f, 0)
    BY <2>1
  <2> QED BY <1>3, <2>2
<1>5. ASSUME NEW m \in 1..n, m - 1 \in S PROVE m \in S
  <2>0. PICK l \in Nat : l = m - 1
    BY <1>3
  <2>1. PICK g : Upto(g, l)
    BY <1>5, <2>0
  <2> DEFINE f == [k \in 0..m |-> IF k = m THEN Q(g[l], m) ELSE g[k]]
  <2>2. f = [k \in 0..m |-> f[k]]
    OBVIOUS
  <2>3. f[m] = Q(g[l], m) /\ \A k \in 0..l : f[k] = g[k]
    BY <2>0
  <2> HIDE DEF f
  <2>4. f[0] = s0 /\ f[l] = g[l]
    BY <2>0, <2>1, <2>3
  <2>5. ASSUME NEW k \in 1..m PROVE f[k] = Q(f[k - 1], k)
    <3>1. CASE k = m
      BY <2>0, <2>3, <2>4, <3>1
    <3>2. CASE k # m
      <4>1. k \in 1..l /\ k \in 0..l /\ k - 1 \in 0..l
        BY <2>0, <3>2
      <4>2. g[k] = Q(g[k - 1], k) /\ f[k] = g[k] /\ f[k - 1] = g[k - 1]
        BY <2>1, <2>3, <4>1
      <4> QED BY <4>2
    <3> QED BY <3>1, <3>2
  <2>6. Upto(f, m)
    BY <2>2, <2>4, <2>5
  <2>7. Ok(m)
    BY <2>6
  <2> HIDE DEF Ok
  <2> QED BY <1>3, <2>7
<1>6. \A m \in 0..n : m \in S
  <2> HIDE DEF S
  <2> QED BY <1>3, <1>4, <1>5, Induct
<1>7. Ok(n)
  <2> HIDE DEF Ok
  <2>1. n \in 0..n
    BY <1>3
  <2> QED BY <1>6, <2>1
<1>8. PICK g : Upto(g, n)
  BY <1>7
<1>9. \A k \in 0..n : k = 0 \/ (k \in 1..n /\ k # 0)
  BY <1>3
<1>10. P(g)
  <2>1. \A k \in 1..n : g[k] = CHOOSE x \in {BellmanVisit(a, es[k]) : a \in {g[k - 1]}} : TRUE
    BY <1>2, <1>8, Zenon
  <2> QED BY <1>8, <1>9, <2>1, Zenon
<1>11. P(c)
  <2> HIDE DEF P
  <2> QED BY <1>10 DEF c
<1>12. RoundChain(c, s0, es)
  <2>0. 0 \in 0..n /\ \A k \in 1..n : k \in 0..n /\ k # 0
    BY <1>3
  <2>1. c[0] = s0
    BY <1>11, <2>0, Zenon
  <2>2. \A k \in 1..n : c[k] = CHOOSE x \in {BellmanVisit(a, es[k]) : a \in {c[k - 1]}} : TRUE
    BY <1>11, <2>0, Zenon
  <2> HIDE DEF P
  <2>3. \A k \in 1..n : c[k] = BellmanVisit(c[k - 1], es[k])
    BY <1>2, <2>2, Zenon DEF Q
  <2> QED BY <2>1, <2>3 DEF n, RoundChain
<1> QED BY <1>1, <1>12 DEF n

\* The parents of a tree make no cycle.
Grounded(d, p) == \E rk : (\A x \in DOMAIN d : rk[x] \in Nat) /\ Ranked(p, rk)

\* A shortcut to t cannot come from below t: what is at least as far as t, all
\* below t included, moves up past u.
LEMMA ShortcutGrounded ==
    ASSUME pools \in Catalogs, NEW hc \in Nat, NEW d, NEW p, Tree(d, p, hc), Grounded(d, p),
           NEW d2, NEW p2, NEW u, NEW e, NEW t, NEW c, Shortcut(d, p, d2, p2, u, e, t, c, hc)
    PROVE  Grounded(d2, p2)
<1>1. Shortened(d, p, d2, p2, u, e, t, c)
  BY ShortcutFacts
<1>2. /\ c \in Nat /\ d[u] <= c /\ t # query.from /\ t # u /\ (t \in DOMAIN d => c < d[t])
      /\ DOMAIN d2 = DOMAIN d \cup {t}
      /\ DOMAIN p2 = DOMAIN p \cup {t} /\ p2[t] = e /\ \A x \in DOMAIN p : x # t => p2[x] = p[x]
  BY <1>1 DEF Shortened
<1>3. u \in DOMAIN d /\ e.from = u
  BY DEF Shortcut
<1>4. /\ \A x \in DOMAIN d : d[x] \in Nat
      /\ DOMAIN p = DOMAIN d \ {query.from}
      /\ \A x \in DOMAIN p : /\ p[x] \in AllHops /\ p[x].from \in DOMAIN d
                             /\ d[p[x].from] + Weight(p[x], hc) <= d[x]
  BY DEF Tree
<1>5. PICK rk : (\A x \in DOMAIN d : rk[x] \in Nat) /\ Ranked(p, rk)
  BY DEF Grounded
<1>6. PICK m \in Nat : m = rk[u] + 1 /\ rk[u] \in Nat
  BY <1>3, <1>5
<1> DEFINE A == {x \in DOMAIN d : t \in DOMAIN d /\ d[x] >= d[t]}
           r2 == [x \in DOMAIN d2 |-> IF x \in A THEN rk[x] + m ELSE IF x \in DOMAIN d THEN rk[x] ELSE m]
<1>7. u \notin A
  BY <1>2, <1>3, <1>4
<1>8. t \in DOMAIN d => t \in A
  BY <1>4
<1>9. \A x \in DOMAIN d2 : /\ x \in A => x \in DOMAIN d /\ r2[x] = rk[x] + m
                           /\ x \notin A /\ x \in DOMAIN d => r2[x] = rk[x]
                           /\ x \notin A /\ x \notin DOMAIN d => r2[x] = m
  OBVIOUS
<1>10. \A x, y \in DOMAIN d : x \in A /\ d[x] <= d[y] => y \in A
  BY <1>4
<1> HIDE DEF r2, A
<1>11. \A x \in DOMAIN d2 : r2[x] \in Nat
  BY <1>5, <1>9
<1>12. \A x \in DOMAIN d : r2[x] \in Nat /\ r2[x] >= rk[x]
  BY <1>2, <1>5, <1>9
<1>13. ASSUME NEW x \in DOMAIN p2 PROVE r2[p2[x].from] < r2[x] /\ r2[p2[x].from] \in Nat /\ r2[x] \in Nat
  <2>1. CASE x = t
    <3>1. p2[x].from = u /\ r2[u] = rk[u]
      BY <1>2, <1>3, <1>7, <1>9, <2>1
    <3>2. t \in DOMAIN d2 /\ r2[t] >= m
      <4>1. CASE t \in DOMAIN d
        BY <1>2, <1>5, <1>8, <1>9, <4>1
      <4>2. CASE t \notin DOMAIN d
        BY <1>2, <1>9, <4>2
      <4> QED BY <4>1, <4>2
    <3> QED BY <1>6, <1>11, <2>1, <3>1, <3>2
  <2>2. CASE x # t
    <3>1. x \in DOMAIN p /\ p2[x] = p[x] /\ x \in DOMAIN d
      BY <1>2, <1>4, <2>2
    <3>2. PICK y \in DOMAIN d : y = p[x].from
      BY <1>4, <3>1
    <3>3. rk[y] < rk[x] /\ rk[y] \in Nat /\ rk[x] \in Nat
      BY <1>5, <3>1, <3>2 DEF Ranked
    <3>4. d[y] <= d[x]
      <4>1. PICK w \in Nat : w = Weight(p[x], hc)
        BY <1>4, <3>1, FeeFacts DEF Weight
      <4>2. d[y] + w <= d[x] /\ d[y] \in Nat /\ d[x] \in Nat
        BY <1>4, <3>1, <3>2, <4>1
      <4> QED BY <4>2
    <3>5. r2[y] < r2[x]
      <4>1. CASE y \in A
        <5>1. x \in A
          BY <1>10, <3>1, <3>4, <4>1
        <5>2. r2[y] = rk[y] + m /\ r2[x] = rk[x] + m
          BY <1>2, <1>9, <3>1, <4>1, <5>1
        <5> QED BY <3>3, <5>2
      <4>2. CASE y \notin A
        <5>1. r2[y] = rk[y] /\ r2[x] >= rk[x] /\ r2[x] \in Nat
          BY <1>2, <1>9, <1>12, <3>1, <4>2
        <5> QED BY <3>3, <5>1
      <4> QED BY <4>1, <4>2
    <3> QED BY <1>12, <3>1, <3>2, <3>5
  <2> QED BY <2>1, <2>2
<1>14. Ranked(p2, r2)
  BY <1>13 DEF Ranked
<1> QED BY <1>11, <1>14 DEF Grounded

\* A state of the search.
Bellman(d, p, x, o, k) == [dist |-> d, parent |-> p, relaxed |-> x, order |-> o, round |-> k]

Sound(d, p) == Tree(d, p, 0) /\ Grounded(d, p)

\* Distances only shrink.
Shrinks(d, d2) == DOMAIN d \subseteq DOMAIN d2 /\ \A v \in DOMAIN d : d2[v] <= d[v]

\* What relaxing e, with c the distance of its token, makes of a state.
IsRelaxed(s2, d, p, x, o, k, c, e) ==
    s2 = IF e.to \in DOMAIN d /\ c + e.fee >= d[e.to] THEN Bellman(d, p, x, o, k)
         ELSE Bellman(Put(d, e.to, c + e.fee), Put(p, e.to, e), TRUE, o, k)

LEMMA BellmanRelaxIs ==
    ASSUME NEW d, NEW p, NEW x, NEW o, NEW k, NEW c, NEW e
    PROVE  IsRelaxed(BellmanRelax(Bellman(d, p, x, o, k), c, e), d, p, x, o, k, c, e)
<1>1. PICK s : s = Bellman(d, p, x, o, k)
  OBVIOUS
<1>2. s.dist = d /\ s.parent = p
  BY <1>1 DEF Bellman
<1>3. PICK d2, p2 : d2 = Put(d, e.to, c + e.fee) /\ p2 = Put(p, e.to, e)
  OBVIOUS
<1>4. [s EXCEPT !.dist = d2, !.parent = p2, !.relaxed = TRUE] = Bellman(d2, p2, TRUE, o, k)
  <2>1. [s EXCEPT !.dist = d2] = Bellman(d2, p, x, o, k)
    BY <1>1 DEF Bellman
  <2>2. [Bellman(d2, p, x, o, k) EXCEPT !.parent = p2] = Bellman(d2, p2, x, o, k)
    BY DEF Bellman
  <2>0. PICK y : y = TRUE
    OBVIOUS
  <2>3. [Bellman(d2, p2, x, o, k) EXCEPT !.relaxed = y] = Bellman(d2, p2, y, o, k)
    BY DEF Bellman
  <2>4. [s EXCEPT !.dist = d2, !.parent = p2, !.relaxed = TRUE] =
          [[[s EXCEPT !.dist = d2] EXCEPT !.parent = p2] EXCEPT !.relaxed = TRUE]
    OBVIOUS
  <2> QED BY <2>0, <2>1, <2>2, <2>3, <2>4, Zenon
<1>5. BellmanRelax(s, c, e) = IF e.to \in DOMAIN d /\ c + e.fee >= d[e.to] THEN s
                              ELSE [s EXCEPT !.dist = d2, !.parent = p2, !.relaxed = TRUE]
  BY <1>2, <1>3 DEF BellmanRelax
<1> QED BY <1>1, <1>3, <1>4, <1>5 DEF IsRelaxed

\* The loop over the edges of u, after m of them; it began with the distances d0.
Visiting(s, d0, x0, o, k, u, es, m) ==
    \E d, p, x : /\ s = Bellman(d, p, x, o, k) /\ Sound(d, p) /\ Shrinks(d0, d)
                 /\ u \in DOMAIN d0 /\ d[u] = d0[u] /\ \A v \in DOMAIN d0 : d0[v] \in Nat
                 /\ x = TRUE \/ (x = x0 /\ d = d0)
                 /\ \A j \in 1..m : Settled(d, es[j], 0)

LEMMA VisitingStep ==
    ASSUME pools \in Catalogs, NEW s, NEW d0, NEW x0, NEW o, NEW k, NEW u, NEW es, NEW m \in Nat \ {0},
           Visiting(s, d0, x0, o, k, u, es, m - 1), \A j \in 1..m : es[j] \in AllHops /\ es[j].from = u
    PROVE  Visiting(BellmanRelax(s, d0[u], es[m]), d0, x0, o, k, u, es, m)
<1>1. PICK d, p, x : /\ s = Bellman(d, p, x, o, k) /\ Sound(d, p) /\ Shrinks(d0, d)
                     /\ u \in DOMAIN d0 /\ d[u] = d0[u] /\ \A v \in DOMAIN d0 : d0[v] \in Nat
                     /\ x = TRUE \/ (x = x0 /\ d = d0)
                     /\ \A j \in 1..(m - 1) : Settled(d, es[j], 0)
  BY DEF Visiting
<1>2. PICK e \in AllHops : e = es[m] /\ e.from = u
  OBVIOUS
<1>3. PICK c : c = d0[u]
  OBVIOUS
<1>4. /\ Tree(d, p, 0) /\ Grounded(d, p) /\ u \in DOMAIN d /\ c = d[u] /\ c \in Nat
      /\ \A v \in DOMAIN d : d[v] \in Nat
  BY <1>1, <1>3 DEF Sound, Shrinks, Tree
<1>5. e.fee \in Nat /\ Weight(e, 0) = e.fee
  BY FeeFacts DEF Weight
<1>8. BellmanRelax(s, c, e) = IF e.to \in DOMAIN d /\ c + e.fee >= d[e.to] THEN s
                               ELSE Bellman(Put(d, e.to, c + e.fee), Put(p, e.to, e), TRUE, o, k)
  <2>1. IsRelaxed(BellmanRelax(Bellman(d, p, x, o, k), c, e), d, p, x, o, k, c, e)
    BY BellmanRelaxIs
  <2> QED BY <1>1, <2>1 DEF IsRelaxed
<1>6. CASE e.to \in DOMAIN d /\ c + e.fee >= d[e.to]
  <2>1. BellmanRelax(s, c, e) = s
    BY <1>8, <1>6
  <2>2. Settled(d, e, 0)
    BY <1>2, <1>4, <1>5, <1>6 DEF Settled
  <2>3. \A j \in 1..m : j = m \/ j \in 1..(m - 1)
    OBVIOUS
  <2>4. \A j \in 1..m : Settled(d, es[j], 0)
    BY <1>1, <1>2, <2>2, <2>3
  <2> QED BY <1>1, <1>2, <1>3, <2>1, <2>4 DEF Visiting
<1>7. CASE ~(e.to \in DOMAIN d /\ c + e.fee >= d[e.to])
  <2>1. PICK t, b : t = e.to /\ b = c + e.fee
    OBVIOUS
  <2>2. PICK d2, p2 : d2 = Put(d, t, b) /\ p2 = Put(p, t, e)
    OBVIOUS
  <2>3. BellmanRelax(s, c, e) = Bellman(d2, p2, TRUE, o, k)
    BY <1>8, <1>7, <2>1, <2>2
  <2>4. Shortcut(d, p, d2, p2, u, e, t, b, 0)
    BY <1>2, <1>4, <1>5, <1>7, <2>1, <2>2 DEF Shortcut
  <2>5. Tree(d2, p2, 0) /\ Settled(d2, e, 0)
    BY <1>4, <2>4, ShortcutTree
  <2>6. Grounded(d2, p2)
    BY <1>4, <2>4, ShortcutGrounded
  <2>7. Shortened(d, p, d2, p2, u, e, t, b)
    BY <1>4, <2>4, ShortcutFacts
  <2>8. DOMAIN d \subseteq DOMAIN d2 /\ d2[u] = d[u] /\ \A v \in DOMAIN d : d2[v] <= d[v]
    BY <2>7 DEF Shortened
  <2>9. \A v \in DOMAIN d : d[v] \in Nat /\ d2[v] \in Nat /\ d2[v] <= d[v]
    BY <1>4, <2>5, <2>8 DEF Tree
  <2>10. Shrinks(d0, d2)
    <3>1. \A v \in DOMAIN d0 : v \in DOMAIN d /\ d[v] <= d0[v]
      BY <1>1 DEF Shrinks
    <3>2. ASSUME NEW v \in DOMAIN d0 PROVE d2[v] <= d0[v]
      BY <1>1, <2>9, <3>1
    <3> QED BY <2>8, <3>1, <3>2 DEF Shrinks
  <2>11. ASSUME NEW j \in 1..m PROVE Settled(d2, es[j], 0)
    <3>1. CASE j = m
      BY <1>2, <2>5, <3>1
    <3>2. CASE j # m
      <4>1. Settled(d, es[j], 0)
        BY <1>1, <3>2
      <4>2. PICK f \in AllHops : f = es[j] /\ f.from = u
        OBVIOUS
      <4> QED BY <1>4, <2>8, <2>9, <4>1, <4>2, SettledKeeps
    <3> QED BY <3>1, <3>2
  <2>12. Sound(d2, p2) /\ d2[u] = d0[u]
    BY <1>1, <2>5, <2>6, <2>8 DEF Sound
  <2>13. Visiting(Bellman(d2, p2, TRUE, o, k), d0, x0, o, k, u, es, m)
    BY <1>1, <2>10, <2>11, <2>12 DEF Visiting
  <2> QED BY <1>2, <1>3, <2>3, <2>13
<1> QED BY <1>6, <1>7

\* The edges of u have been relaxed with u's distance in d0, or a smaller one.
Covered(d0, d, u) == \A e \in AllHops : e.from = u => e.to \in DOMAIN d /\ d[e.to] <= d0[u] + Weight(e, 0)

\* What the visit of u makes of the distances d0.
Visited(s, d0, x0, o, k, u) ==
    \E d, p, x : /\ s = Bellman(d, p, x, o, k) /\ Sound(d, p) /\ Shrinks(d0, d)
                 /\ x = TRUE \/ (x = x0 /\ d = d0)
                 /\ Covered(d0, d, u)

LEMMA VisitFacts ==
    ASSUME pools \in Catalogs, NEW d0, NEW p0, NEW x0, NEW o, NEW k, Sound(d0, p0), NEW u \in DOMAIN d0
    PROVE  Visited(BellmanVisit(Bellman(d0, p0, x0, o, k), u), d0, x0, o, k, u)
<1>1. PICK s0, es : s0 = Bellman(d0, p0, x0, o, k) /\ es = Edges(pools, u)
  OBVIOUS
<1>2. /\ Len(es) \in Nat
      /\ \A j \in 1..Len(es) : es[j] \in AllHops /\ es[j].from = u
      /\ \A e \in AllHops : e.from = u => \E j \in 1..Len(es) : es[j] = e
  BY <1>1, EdgeFacts
<1>3. s0.dist = d0
  BY <1>1 DEF Bellman
<1>4. BellmanVisit(s0, u) = BellmanOver(s0, d0[u], es)
  BY <1>1, <1>3 DEF BellmanVisit, BellmanOver
<1>5. PICK c : BellmanChain(c, s0, d0[u], es) /\ BellmanOver(s0, d0[u], es) = c[Len(es)]
  BY <1>2, BellmanRuns
<1>6. PICK n \in Nat : n = Len(es)
  BY <1>2
<1>7. \A v \in DOMAIN d0 : d0[v] \in Nat
  BY DEF Sound, Tree
<1> DEFINE S == {m \in 0..n : Visiting(c[m], d0, x0, o, k, u, es, m)}
<1>8. 0 \in S
  <2>1. c[0] = Bellman(d0, p0, x0, o, k)
    BY <1>1, <1>5 DEF BellmanChain
  <2>2. \A j \in 1..0 : FALSE
    OBVIOUS
  <2>3. Shrinks(d0, d0)
    BY <1>7 DEF Shrinks
  <2>4. Visiting(c[0], d0, x0, o, k, u, es, 0)
    BY <1>7, <2>1, <2>2, <2>3 DEF Visiting
  <2> QED BY <2>4
<1>9. ASSUME NEW m \in 1..n, m - 1 \in S PROVE m \in S
  <2>1. Visiting(c[m - 1], d0, x0, o, k, u, es, m - 1) /\ m \in Nat \ {0} /\ \A j \in 1..m : j \in 1..n
    BY <1>9
  <2>2. c[m] = BellmanRelax(c[m - 1], d0[u], es[m])
    BY <1>5, <1>6 DEF BellmanChain
  <2>3. \A j \in 1..m : es[j] \in AllHops /\ es[j].from = u
    BY <1>2, <1>6, <2>1
  <2>4. Visiting(c[m], d0, x0, o, k, u, es, m)
    BY <2>1, <2>2, <2>3, VisitingStep
  <2> QED BY <2>4
<1>10. \A m \in 0..n : m \in S
  <2> HIDE DEF S
  <2> QED BY <1>8, <1>9, Induct
<1>11. Visiting(c[n], d0, x0, o, k, u, es, n)
  BY <1>10
<1>12. PICK d, p, x : /\ c[n] = Bellman(d, p, x, o, k) /\ Sound(d, p) /\ Shrinks(d0, d) /\ d[u] = d0[u]
                      /\ x = TRUE \/ (x = x0 /\ d = d0)
                      /\ \A j \in 1..n : Settled(d, es[j], 0)
  BY <1>11 DEF Visiting
<1>13. Covered(d0, d, u)
  <2> SUFFICES ASSUME NEW e \in AllHops, e.from = u
               PROVE  e.to \in DOMAIN d /\ d[e.to] <= d0[u] + Weight(e, 0)
    BY DEF Covered
  <2>1. Settled(d, e, 0)
    BY <1>2, <1>6, <1>12
  <2> QED BY <1>12, <2>1 DEF Settled
<1>14. Visited(c[n], d0, x0, o, k, u)
  BY <1>12, <1>13 DEF Visited
<1> QED BY <1>1, <1>4, <1>5, <1>6, <1>14

\* The loop over the tokens, after j of them; the round began with d0.
Rounding(s, d0, o, k, j) ==
    \E d, p, x : /\ s = Bellman(d, p, x, o, k) /\ Sound(d, p) /\ Shrinks(d0, d)
                 /\ x = TRUE \/ (x = FALSE /\ d = d0)
                 /\ \A i \in 1..j : o[i] \in DOMAIN d0 => Covered(d0, d, o[i])

LEMMA RoundingStep ==
    ASSUME pools \in Catalogs, NEW s, NEW d0, \A v \in DOMAIN d0 : d0[v] \in Nat, NEW o, NEW k,
           NEW j \in Nat \ {0}, Rounding(s, d0, o, k, j - 1)
    PROVE  Rounding(BellmanVisit(s, o[j]), d0, o, k, j)
<1>1. PICK d, p, x : /\ s = Bellman(d, p, x, o, k) /\ Sound(d, p) /\ Shrinks(d0, d)
                     /\ x = TRUE \/ (x = FALSE /\ d = d0)
                     /\ \A i \in 1..(j - 1) : o[i] \in DOMAIN d0 => Covered(d0, d, o[i])
  BY DEF Rounding
<1>2. PICK u : u = o[j]
  OBVIOUS
<1>3. \A i \in 1..j : i = j \/ i \in 1..(j - 1)
  OBVIOUS
<1>4. CASE u \notin DOMAIN d
  <2>1. s.dist = d
    BY <1>1 DEF Bellman
  <2>2. BellmanVisit(s, u) = s
    BY <1>4, <2>1 DEF BellmanVisit
  <2>3. u \notin DOMAIN d0
    BY <1>1, <1>4 DEF Shrinks
  <2>4. \A i \in 1..j : o[i] \in DOMAIN d0 => Covered(d0, d, o[i])
    BY <1>1, <1>2, <1>3, <2>3
  <2>5. Rounding(s, d0, o, k, j)
    BY <1>1, <2>4 DEF Rounding
  <2> QED BY <1>2, <2>2, <2>5
<1>5. CASE u \in DOMAIN d
  <2>1. Visited(BellmanVisit(s, u), d, x, o, k, u)
    BY <1>1, <1>5, VisitFacts
  <2>2. PICK d2, p2, x2 : /\ BellmanVisit(s, u) = Bellman(d2, p2, x2, o, k) /\ Sound(d2, p2) /\ Shrinks(d, d2)
                          /\ x2 = TRUE \/ (x2 = x /\ d2 = d)
                          /\ Covered(d, d2, u)
    BY <2>1 DEF Visited
  <2>3. (\A v \in DOMAIN d : d[v] \in Nat) /\ (\A v \in DOMAIN d2 : d2[v] \in Nat)
    BY <1>1, <2>2 DEF Sound, Tree
  <2>4. (\A v \in DOMAIN d0 : v \in DOMAIN d /\ d[v] <= d0[v]) /\ (\A v \in DOMAIN d : v \in DOMAIN d2 /\ d2[v] <= d[v])
    BY <1>1, <2>2 DEF Shrinks
  <2>5. Shrinks(d0, d2)
    <3>1. ASSUME NEW v \in DOMAIN d0 PROVE v \in DOMAIN d2 /\ d2[v] <= d0[v]
      BY <2>3, <2>4
    <3> QED BY <3>1 DEF Shrinks
  <2>6. x2 = TRUE \/ (x2 = FALSE /\ d2 = d0)
    BY <1>1, <2>2
  <2>7. ASSUME NEW v, Covered(d0, d, v), v \in DOMAIN d0 PROVE Covered(d0, d2, v)
    <3> SUFFICES ASSUME NEW e \in AllHops, e.from = v
                 PROVE  e.to \in DOMAIN d2 /\ d2[e.to] <= d0[v] + Weight(e, 0)
      BY DEF Covered
    <3>1. e.to \in DOMAIN d /\ d[e.to] <= d0[v] + Weight(e, 0)
      BY <2>7 DEF Covered
    <3>2. Weight(e, 0) \in Nat
      BY FeeFacts DEF Weight
    <3>3. PICK t : t = e.to
      OBVIOUS
    <3>4. t \in DOMAIN d2 /\ d2[t] <= d[t] /\ d[t] \in Nat /\ d2[t] \in Nat /\ d0[v] \in Nat
      BY <2>3, <2>4, <2>7, <3>1, <3>3
    <3> QED BY <3>1, <3>2, <3>3, <3>4
  <2>8. ASSUME u \in DOMAIN d0 PROVE Covered(d0, d2, u)
    <3> SUFFICES ASSUME NEW e \in AllHops, e.from = u
                 PROVE  e.to \in DOMAIN d2 /\ d2[e.to] <= d0[u] + Weight(e, 0)
      BY DEF Covered
    <3>1. e.to \in DOMAIN d2 /\ d2[e.to] <= d[u] + Weight(e, 0)
      BY <2>2 DEF Covered
    <3>2. Weight(e, 0) \in Nat
      BY FeeFacts DEF Weight
    <3>3. PICK t : t = e.to
      OBVIOUS
    <3>4. d2[t] \in Nat /\ d[u] <= d0[u] /\ d0[u] \in Nat /\ d[u] \in Nat
      BY <2>3, <2>4, <2>8, <3>1, <3>3
    <3> QED BY <3>1, <3>2, <3>3, <3>4
  <2>9. \A i \in 1..j : o[i] \in DOMAIN d0 => Covered(d0, d2, o[i])
    BY <1>1, <1>2, <1>3, <2>7, <2>8
  <2>10. Rounding(Bellman(d2, p2, x2, o, k), d0, o, k, j)
    BY <2>2, <2>5, <2>6, <2>9 DEF Rounding
  <2> QED BY <1>2, <2>2, <2>10
<1> QED BY <1>4, <1>5

\* A whole round.
LEMMA RoundFacts ==
    ASSUME pools \in Catalogs, NEW d0, NEW p0, NEW o, Len(o) \in Nat, NEW k, Sound(d0, p0)
    PROVE  Rounding(RoundOver(Bellman(d0, p0, FALSE, o, k), o), d0, o, k, Len(o))
<1>1. PICK s0 : s0 = Bellman(d0, p0, FALSE, o, k)
  OBVIOUS
<1>2. PICK c : RoundChain(c, s0, o) /\ RoundOver(s0, o) = c[Len(o)]
  BY RoundRuns
<1>3. PICK n \in Nat : n = Len(o)
  OBVIOUS
<1>4. \A v \in DOMAIN d0 : d0[v] \in Nat
  BY DEF Sound, Tree
<1> DEFINE S == {m \in 0..n : Rounding(c[m], d0, o, k, m)}
<1>5. 0 \in S
  <2>1. c[0] = Bellman(d0, p0, FALSE, o, k)
    BY <1>1, <1>2 DEF RoundChain
  <2>2. \A j \in 1..0 : FALSE
    OBVIOUS
  <2>3. Shrinks(d0, d0)
    BY <1>4 DEF Shrinks
  <2>4. Rounding(c[0], d0, o, k, 0)
    BY <2>1, <2>2, <2>3 DEF Rounding
  <2> QED BY <2>4
<1>6. ASSUME NEW m \in 1..n, m - 1 \in S PROVE m \in S
  <2>1. Rounding(c[m - 1], d0, o, k, m - 1) /\ m \in Nat \ {0}
    BY <1>6
  <2>2. c[m] = BellmanVisit(c[m - 1], o[m])
    BY <1>2, <1>3 DEF RoundChain
  <2>3. Rounding(c[m], d0, o, k, m)
    BY <1>4, <2>1, <2>2, RoundingStep
  <2> QED BY <2>3
<1>7. \A m \in 0..n : m \in S
  <2> HIDE DEF S
  <2> QED BY <1>5, <1>6, Induct
<1>8. Rounding(c[n], d0, o, k, n)
  BY <1>7
<1> QED BY <1>1, <1>2, <1>3, <1>8

\* q is the first i hops of the path r from f.
PrefixOf(q, f, r, i, hc) ==
    /\ Leads(f, q, IF i = 0 THEN f ELSE r[i].to) /\ Len(q) = i
    /\ PathCost(q, hc) \in Nat /\ PathCost(r, hc) \in Nat /\ PathCost(q, hc) <= PathCost(r, hc)
    /\ i + 1 = Len(r) => PathCost(r, hc) = PathCost(q, hc) + Weight(r[i + 1], hc)

LEMMA PrefixFacts ==
    ASSUME pools \in Catalogs, NEW hc \in Nat, NEW f, NEW r, NEW t, Leads(f, r, t), NEW i \in 0..Len(r),
           NEW q, q = [j \in 1..i |-> r[j]]
    PROVE  PrefixOf(q, f, r, i, hc)
<1>0. PICK H : H = AllHops
  OBVIOUS
<1>1. r \in Seq(H)
  BY <1>0 DEF Leads
<1>2. PICK n \in Nat : n = Len(r) /\ i \in 0..n /\ \A j \in 1..n : r[j] \in H
  BY <1>1
<1>3. /\ n # 0 => r[1].from = f
      /\ \A j \in 1..(n - 1) : r[j].to = r[j + 1].from
      /\ \A j, l \in 1..n : r[j].to = r[l].to => j = l
  BY <1>2 DEF Leads
<1>4. i \in Nat /\ i <= n /\ \A j \in 1..i : j \in 1..n
  BY <1>2
<1>5. q \in Seq(H) /\ Len(q) = i /\ \A j \in 1..i : q[j] = r[j]
  BY <1>2, <1>4
<1>6. Leads(f, q, IF i = 0 THEN f ELSE r[i].to)
  <2>1. q \in Seq(AllHops)
    BY <1>0, <1>5
  <2>2. i # 0 => q[1].from = f /\ q[i].to = r[i].to
    <3>1. i # 0 => 1 \in 1..i /\ i \in 1..i /\ n # 0
      BY <1>4
    <3> QED BY <1>3, <1>5, <3>1
  <2>3. ASSUME NEW j \in 1..(i - 1) PROVE q[j].to = q[j + 1].from
    <3>1. j \in 1..i /\ j + 1 \in 1..i /\ j \in 1..(n - 1)
      BY <1>4
    <3> QED BY <1>3, <1>5, <3>1
  <2>4. \A j, l \in 1..i : q[j].to = q[l].to => j = l
    BY <1>3, <1>4, <1>5
  <2> QED BY <1>5, <2>1, <2>2, <2>3, <2>4 DEF Leads
<1>7. r \in Seq(AllHops) /\ q \in Seq(AllHops)
  BY <1>0, <1>1, <1>5
<1>8. PICK s \in [1..n -> Int] : PathCost(r, hc) = Total(s) /\ \A j \in 1..n : s[j] = Weight(r[j], hc) /\ s[j] \in Nat
  BY <1>2, <1>7, CostIs
<1>9. PICK s2 \in [1..i -> Int] : PathCost(q, hc) = Total(s2) /\ \A j \in 1..i : s2[j] = Weight(q[j], hc)
  <2>1. PICK l : l = Len(q)
    OBVIOUS
  <2>2. PICK s2 \in [1..l -> Int] : PathCost(q, hc) = Total(s2) /\ \A j \in 1..l : s2[j] = Weight(q[j], hc)
    BY <1>7, <2>1, CostIs
  <2>3. l = i
    BY <1>5, <2>1
  <2> QED BY <2>2, <2>3
<1>10. PICK g \in [0..n -> Int] : g[0] = 0 /\ (\A j \in 1..n : g[j] = g[j - 1] + s[j]) /\ Total(s) = g[n]
  BY TotalDef
<1>11. PathCost(q, hc) = g[i]
  <2> DEFINE g2 == [j \in 0..i |-> g[j]]
  <2>1. g2 \in [0..i -> Int] /\ g2[0] = 0 /\ g2[i] = g[i]
    BY <1>4, <1>10
  <2>2. ASSUME NEW j \in 1..i PROVE g2[j] = g2[j - 1] + s2[j]
    <3>1. j \in 1..n /\ j \in 0..i /\ j - 1 \in 0..i
      BY <1>4
    <3>2. g[j] = g[j - 1] + s[j] /\ s[j] = s2[j]
      BY <1>5, <1>8, <1>9, <1>10, <3>1
    <3> QED BY <3>1, <3>2
  <2> HIDE DEF g2
  <2>3. Total(s2) = g2[i]
    BY <1>4, <2>1, <2>2, TotalIs
  <2> QED BY <1>9, <2>1, <2>3
<1>12. g[i] <= g[n]
  <2> DEFINE S == {m \in 0..(n - i) : g[i] <= g[i + m]}
  <2>0. PICK l \in Nat : l = n - i
    BY <1>4
  <2>1. 0 \in S
    BY <1>4, <2>0
  <2>2. ASSUME NEW m \in 1..l, m - 1 \in S PROVE m \in S
    <3>1. i + m \in 1..n /\ (i + m) - 1 \in 0..n /\ i + (m - 1) = (i + m) - 1 /\ m \in 0..(n - i)
      BY <1>4, <2>0
    <3>2. g[i + m] = g[(i + m) - 1] + s[i + m] /\ s[i + m] \in Nat
      BY <1>8, <1>10, <3>1
    <3>3. g[i] <= g[(i + m) - 1]
      BY <2>2, <3>1
    <3>4. g[i] \in Int /\ g[(i + m) - 1] \in Int /\ g[i + m] \in Int
      <4>1. i \in 0..n /\ i + m \in 0..n
        BY <1>2, <3>1
      <4> QED BY <3>1, <4>1
    <3>5. g[i] <= g[i + m]
      BY <3>2, <3>3, <3>4
    <3> QED BY <3>1, <3>5
  <2>3. \A m \in 0..l : m \in S
    <3> HIDE DEF S
    <3> QED BY <2>1, <2>2, Induct
  <2>4. l \in 0..l
    BY <2>0
  <2>5. l \in S
    <3> HIDE DEF S
    <3> QED BY <2>3, <2>4
  <2>6. g[i] <= g[i + l]
    BY <2>5
  <2>7. i + l = n
    BY <1>4, <2>0
  <2> QED BY <2>6, <2>7
<1>13. PathCost(q, hc) \in Nat /\ PathCost(r, hc) \in Nat
  BY <1>7, CostType
<1>14. ASSUME i + 1 = n PROVE PathCost(r, hc) = PathCost(q, hc) + Weight(r[i + 1], hc)
  <2>1. n \in 1..n /\ n - 1 = i
    BY <1>4, <1>14
  <2>2. g[n] = g[i] + s[n] /\ s[n] = Weight(r[n], hc)
    BY <1>8, <1>10, <2>1
  <2> QED BY <1>8, <1>10, <1>11, <1>14, <2>2
<1> QED BY <1>2, <1>5, <1>6, <1>8, <1>10, <1>11, <1>12, <1>13, <1>14 DEF PrefixOf

\* A path goes on to a token that is not on it.
LEMMA LeadsAppend ==
    ASSUME NEW f, NEW r, NEW u, Leads(f, r, u), NEW e \in AllHops, e.from = u,
           \A i \in 1..Len(r) : r[i].to # e.to
    PROVE  /\ Leads(f, Append(r, e), e.to) /\ Len(Append(r, e)) = Len(r) + 1 /\ Len(r) \in Nat
           /\ r = [i \in 1..Len(r) |-> Append(r, e)[i]] /\ Append(r, e)[Len(r) + 1] = e
           /\ \A i \in 1..Len(r) : Append(r, e)[i] = r[i]
<1>0. PICK H : H = AllHops
  OBVIOUS
<1>1. r \in Seq(H) /\ e \in H
  BY <1>0 DEF Leads
<1>2. PICK n \in Nat : n = Len(r)
  BY <1>1
<1>3. PICK q : q = Append(r, e)
  OBVIOUS
<1>4. q \in Seq(H) /\ Len(q) = n + 1 /\ q[n + 1] = e /\ \A i \in 1..n : q[i] = r[i]
  <2>1. q \in Seq(H)
    BY <1>1, <1>3
  <2>2. Len(q) = n + 1 /\ q[n + 1] = e /\ \A i \in 1..n : q[i] = r[i]
    BY <1>1, <1>2, <1>3, AppendProperties
  <2> QED BY <2>1, <2>2
<1>5. r = [i \in 1..n |-> q[i]]
  <2>1. r = [i \in 1..n |-> r[i]]
    BY <1>1, <1>2
  <2> QED BY <1>4, <2>1
<1>6. q[1].from = f
  <2>1. CASE n = 0
    BY <1>2, <1>4, <2>1 DEF Leads
  <2>2. CASE n # 0
    <3>1. 1 \in 1..n /\ r[1].from = f
      BY <1>2, <2>2 DEF Leads
    <3> QED BY <1>4, <3>1
  <2> QED BY <2>1, <2>2
<1>7. ASSUME NEW i \in 1..n PROVE q[i].to = q[i + 1].from
  <2>1. CASE i = n
    <3>1. r[n].to = u
      BY <1>2, <2>1 DEF Leads
    <3> QED BY <1>4, <2>1, <3>1
  <2>2. CASE i # n
    <3>1. i \in 1..(n - 1) /\ i + 1 \in 1..n
      BY <2>2
    <3>2. r[i].to = r[i + 1].from
      BY <1>2, <3>1 DEF Leads
    <3> QED BY <1>4, <3>1, <3>2
  <2> QED BY <2>1, <2>2
<1>8. ASSUME NEW i \in 1..(n + 1), NEW j \in 1..(n + 1), q[i].to = q[j].to PROVE i = j
  <2>1. \A a, b \in 1..n : r[a].to = r[b].to => a = b
    BY <1>2 DEF Leads
  <2>2. \A a \in 1..n : r[a].to # e.to
    BY <1>2
  <2>3. \A a \in 1..(n + 1) : a = n + 1 \/ a \in 1..n
    OBVIOUS
  <2> QED BY <1>4, <1>8, <2>1, <2>2, <2>3
<1>9. Len(q) # 0 /\ Len(q) - 1 = n
  BY <1>4
<1>10. Leads(f, q, e.to)
  <2>1. q \in Seq(AllHops) /\ q[Len(q)].to = e.to
    BY <1>0, <1>4
  <2> QED BY <1>4, <1>6, <1>7, <1>8, <1>9, <2>1 DEF Leads
<1> QED BY <1>2, <1>3, <1>4, <1>5, <1>10

\* No edge improves a distance.
Stable(d) == \A v \in DOMAIN d : AllSettled(d, v, 0)

\* The distances account for all paths of at most k hops.
Reach(d, k) ==
    \A t, r : Leads(query.from, r, t) /\ Len(r) <= k => t \in DOMAIN d /\ d[t] <= PathCost(r, 0)

\* A round that relaxes the edges of all tokens accounts for one more hop.
LEMMA ReachStep ==
    ASSUME pools \in Catalogs, NEW d0, NEW p0, NEW d, NEW p, Sound(d0, p0), Sound(d, p), Shrinks(d0, d),
           \A u \in DOMAIN d0 : Covered(d0, d, u), NEW k \in Nat, Reach(d0, k)
    PROVE  Reach(d, k + 1)
<1> SUFFICES ASSUME NEW t, NEW r, Leads(query.from, r, t), Len(r) <= k + 1
             PROVE  t \in DOMAIN d /\ d[t] <= PathCost(r, 0)
  BY DEF Reach
<1>0. PICK H : H = AllHops
  OBVIOUS
<1>1. r \in Seq(H)
  BY <1>0 DEF Leads
<1>2. PICK n \in Nat : n = Len(r) /\ \A j \in 1..n : r[j] \in H
  BY <1>1
<1>3. (\A v \in DOMAIN d0 : d0[v] \in Nat) /\ (\A v \in DOMAIN d : d[v] \in Nat)
  BY DEF Sound, Tree
<1>4. PathCost(r, 0) \in Nat
  <2>1. r \in Seq(AllHops) /\ 0 \in Nat
    BY <1>0, <1>1
  <2> QED BY <2>1, CostType
<1>5. CASE n <= k
  <2>1. t \in DOMAIN d0 /\ d0[t] <= PathCost(r, 0)
    BY <1>2, <1>5 DEF Reach
  <2>2. t \in DOMAIN d /\ d[t] <= d0[t]
    BY <2>1 DEF Shrinks
  <2> QED BY <1>3, <1>4, <2>1, <2>2
<1>6. CASE n = k + 1
  <2>1. k \in 0..Len(r) /\ k + 1 = Len(r) /\ 0 \in Nat /\ Len(r) # 0
    BY <1>2, <1>6
  <2>2. PICK q : q = [j \in 1..k |-> r[j]]
    OBVIOUS
  <2>3. PICK u : u = (IF k = 0 THEN query.from ELSE r[k].to)
    OBVIOUS
  <2>4. /\ Leads(query.from, q, IF k = 0 THEN query.from ELSE r[k].to) /\ Len(q) = k
        /\ PathCost(q, 0) \in Nat
        /\ k + 1 = Len(r) => PathCost(r, 0) = PathCost(q, 0) + Weight(r[k + 1], 0)
    <3>1. PrefixOf(q, query.from, r, k, 0)
      BY <2>1, <2>2, PrefixFacts
    <3> QED BY <3>1 DEF PrefixOf
  <2>5. PICK e \in AllHops : e = r[k + 1]
    <3>1. k + 1 \in 1..n
      BY <1>6
    <3> QED BY <1>0, <1>2, <3>1
  <2>6. e.to = t /\ e.from = u
    <3>1. r[Len(r)].to = t /\ r[1].from = query.from
      BY <2>1 DEF Leads
    <3>2. k # 0 => r[k].to = r[k + 1].from
      <4>1. k # 0 => k \in 1..(Len(r) - 1)
        BY <2>1
      <4> QED BY <4>1 DEF Leads
    <3>3. k = 0 => k + 1 = 1
      OBVIOUS
    <3> QED BY <2>1, <2>3, <2>5, <3>1, <3>2, <3>3
  <2>7. u \in DOMAIN d0 /\ d0[u] <= PathCost(q, 0)
    <3>1. Leads(query.from, q, u) /\ Len(q) <= k
      BY <2>3, <2>4
    <3> QED BY <3>1 DEF Reach
  <2>8. e.to \in DOMAIN d /\ d[e.to] <= d0[u] + Weight(e, 0)
    BY <2>6, <2>7 DEF Covered
  <2>9. Weight(e, 0) \in Nat
    BY FeeFacts DEF Weight
  <2>10. t \in DOMAIN d /\ d[t] \in Nat /\ d0[u] \in Nat
    BY <1>3, <2>6, <2>7, <2>8
  <2>11. d[t] <= d0[u] + Weight(e, 0) /\ PathCost(r, 0) = PathCost(q, 0) + Weight(e, 0)
    BY <2>1, <2>4, <2>5, <2>6, <2>8
  <2> QED BY <2>4, <2>7, <2>9, <2>10, <2>11
<1>7. n <= k \/ n = k + 1
  BY <1>2
<1> QED BY <1>5, <1>6, <1>7

\* Distances that account for all simple paths cannot be improved.
LEMMA ReachStable ==
    ASSUME pools \in Catalogs, NEW d, NEW p, Sound(d, p), NEW k \in Nat, Longest <= k, Reach(d, k)
    PROVE  Stable(d)
<1> SUFFICES ASSUME NEW u \in DOMAIN d, NEW e \in AllHops, e.from = u
             PROVE  e.to \in DOMAIN d /\ d[e.to] <= d[u] + Weight(e, 0)
  BY DEF Stable, AllSettled, Settled
<1>1. Tree(d, p, 0) /\ \A v \in DOMAIN d : d[v] \in Nat
  BY DEF Sound, Tree
<1>2. PICK rk : Ranked(p, rk)
  BY DEF Sound, Grounded
<1>3. PICK r : r = PathTo(p, u)
  OBVIOUS
<1>4. /\ Leads(query.from, r, u) /\ (\A i \in 1..Len(r) : r[i].to # query.from) /\ PathCost(r, 0) <= d[u]
  BY <1>1, <1>2, <1>3, PathToFacts
<1>5. PICK w \in Nat : w = Weight(e, 0)
  BY FeeFacts DEF Weight
<1>6. PICK t : t = e.to
  OBVIOUS
<1>7. PICK x \in Nat : x = d[u]
  BY <1>1
<1>8. Len(r) \in Nat
  <2>1. PICK H : H = AllHops /\ r \in Seq(H)
    BY <1>4 DEF Leads
  <2> QED BY <2>1
<1>9. CASE t = query.from
  <2>1. t \in DOMAIN d /\ d[t] = 0
    BY <1>1, <1>9 DEF Tree
  <2> QED BY <1>5, <1>6, <1>7, <2>1
<1>10. ASSUME NEW i \in 1..Len(r), r[i].to = t
       PROVE  e.to \in DOMAIN d /\ d[e.to] <= d[u] + Weight(e, 0)
  <2>1. i \in 0..Len(r) /\ i # 0 /\ Len(r) # 0 /\ i <= Len(r)
    BY <1>8
  <2>2. PICK q : q = [j \in 1..i |-> r[j]]
    OBVIOUS
  <2>3. /\ Leads(query.from, q, IF i = 0 THEN query.from ELSE r[i].to) /\ Len(q) = i
        /\ PathCost(q, 0) \in Nat /\ PathCost(r, 0) \in Nat /\ PathCost(q, 0) <= PathCost(r, 0)
    <3>1. PrefixOf(q, query.from, r, i, 0)
      BY <1>4, <2>1, <2>2, PrefixFacts
    <3> QED BY <3>1 DEF PrefixOf
  <2>4. Longest \in Int /\ Len(r) \in 1..Longest
    BY <1>4, <2>1, LeadsLen
  <2>5. Leads(query.from, q, t) /\ Len(q) <= k
    BY <1>10, <2>1, <2>3, <2>4
  <2>6. t \in DOMAIN d /\ d[t] <= PathCost(q, 0)
    BY <2>5 DEF Reach
  <2>7. d[t] \in Nat
    BY <1>1, <2>6
  <2>8. d[t] <= x + w
    BY <1>4, <1>7, <2>3, <2>6, <2>7
  <2> QED BY <1>5, <1>6, <1>7, <2>6, <2>8
<1>11. CASE t # query.from /\ \A i \in 1..Len(r) : r[i].to # t
  <2>1. PICK q : q = Append(r, e)
    OBVIOUS
  <2>2. /\ Leads(query.from, q, e.to) /\ Len(q) = Len(r) + 1
        /\ r = [i \in 1..Len(r) |-> q[i]] /\ q[Len(r) + 1] = e
        /\ \A i \in 1..Len(r) : q[i] = r[i]
    BY <1>4, <1>6, <1>11, <2>1, LeadsAppend
  <2>3. PICK n \in Nat : n = Len(r)
    BY <1>8
  <2>4. \A i \in 1..(n + 1) : q[i].to # query.from
    <3>1. \A i \in 1..(n + 1) : i = n + 1 \/ i \in 1..n
      OBVIOUS
    <3>2. q[n + 1] = e /\ \A i \in 1..n : q[i] = r[i]
      BY <2>2, <2>3
    <3>3. \A i \in 1..n : r[i].to # query.from
      BY <1>4, <2>3
    <3> QED BY <1>6, <1>11, <3>1, <3>2, <3>3
  <2>5. Longest \in Int /\ Len(q) \in 1..Longest
    <3>1. Len(q) # 0 /\ \A i \in 1..Len(q) : q[i].to # query.from
      BY <2>2, <2>3, <2>4
    <3> QED BY <2>2, <3>1, LeadsLen
  <2>6. t \in DOMAIN d /\ d[t] <= PathCost(q, 0)
    <3>1. Leads(query.from, q, t) /\ Len(q) <= k
      BY <1>6, <2>2, <2>5
    <3> QED BY <3>1 DEF Reach
  <2>7. PathCost(q, 0) = PathCost(r, 0) + Weight(e, 0) /\ PathCost(r, 0) \in Nat
    <3>1. n \in 0..Len(q) /\ n + 1 = Len(q) /\ r = [i \in 1..n |-> q[i]] /\ q[n + 1] = e
      BY <2>2, <2>3
    <3>2. /\ PathCost(r, 0) \in Nat
          /\ n + 1 = Len(q) => PathCost(q, 0) = PathCost(r, 0) + Weight(q[n + 1], 0)
      <4>1. PrefixOf(r, query.from, q, n, 0)
        BY <2>2, <3>1, PrefixFacts
      <4> QED BY <4>1 DEF PrefixOf
    <3> QED BY <3>1, <3>2
  <2>8. d[t] \in Nat
    BY <1>1, <2>6
  <2>9. d[t] <= x + w
    BY <1>4, <1>5, <1>7, <2>6, <2>7, <2>8
  <2> QED BY <1>5, <1>6, <1>7, <2>6, <2>9
<1> QED BY <1>9, <1>10, <1>11

\* The hash set's order has every token.
HasAll(o) == Len(o) \in Nat /\ \A t \in TokensOf(pools) : \E i \in 1..Len(o) : o[i] = t

LEMMA OrderFacts ==
    ASSUME pools \in Catalogs, NEW o \in SetToSeqs(TokensOf(pools))
    PROVE  HasAll(o)
<1>1. PICK T : T = TokensOf(pools)
  OBVIOUS
<1>2. IsFiniteSet(T)
  BY <1>1, TokensFacts
<1>3. PICK n \in Nat : n = Cardinality(T)
  BY <1>2, FS_CardinalityType
<1>4. o \in [1..n -> T] /\ \A i, j \in 1..n : i # j => o[i] # o[j]
  BY <1>1, <1>3 DEF SetToSeqs
<1>5. o \in Injection(1..n, T)
  BY <1>4 DEF Injection, IsInjective
<1>6. Cardinality(1..n) = n
  <2>1. Cardinality(1..n) = (IF 1 > n THEN 0 ELSE n - 1 + 1)
    BY FS_Interval
  <2> QED BY <2>1
<1>7. o \in Surjection(1..n, T)
  BY <1>2, <1>3, <1>5, <1>6, FS_Injection
<1>8. Len(o) = n
  <2>1. o \in Seq(T)
    BY <1>4
  <2> QED BY <1>4, <2>1
<1>9. \A t \in T : \E i \in 1..n : o[i] = t
  BY <1>7 DEF Surjection
<1> QED BY <1>1, <1>8, <1>9 DEF HasAll

BellState(d, p, o, k) ==
    /\ Sound(d, p) /\ HasAll(o) /\ k \in Int
    /\ (Stable(d) /\ k >= Longest) \/ (k \in Nat /\ Reach(d, k))

LEMMA LongestInt ==
    ASSUME pools \in Catalogs
    PROVE  Longest \in Int
<1>1. IsFiniteSet(TokensOf(pools))
  BY TokensFacts
<1>2. Cardinality(TokensOf(pools)) \in Nat
  BY <1>1, FS_CardinalityType
<1> QED BY <1>2 DEF Longest

\* The search begins.
LEMMA BellBase ==
    ASSUME pools \in Catalogs, NEW d, d = [t \in {query.from} |-> 0], NEW p, p = <<>>, NEW o, HasAll(o)
    PROVE  BellState(d, p, o, 0)
<1>1. PICK f : f = query.from
  OBVIOUS
<1>2. DOMAIN d = {f} /\ d[f] = 0 /\ DOMAIN p = {}
  BY <1>1
<1>3. IsFiniteSet({f})
  BY FS_Singleton
<1>4. Tree(d, p, 0)
  BY <1>1, <1>2, <1>3 DEF Tree
<1>5. Grounded(d, p)
  <2>1. PICK rk : rk = d
    OBVIOUS
  <2>2. (\A x \in DOMAIN d : rk[x] \in Nat) /\ Ranked(p, rk)
    BY <1>2, <2>1 DEF Ranked
  <2> QED BY <2>2 DEF Grounded
<1>6. Reach(d, 0)
  <2> SUFFICES ASSUME NEW t, NEW r, Leads(query.from, r, t), Len(r) <= 0
               PROVE  t \in DOMAIN d /\ d[t] <= PathCost(r, 0)
    BY DEF Reach
  <2>1. PICK H : H = AllHops /\ r \in Seq(H)
    BY DEF Leads
  <2>2. Len(r) = 0
    BY <2>1
  <2>3. t = f
    BY <1>1, <2>2 DEF Leads
  <2>4. PathCost(r, 0) \in Nat
    <3>1. r \in Seq(AllHops) /\ 0 \in Nat
      BY <2>1
    <3> QED BY <3>1, CostType
  <2> QED BY <1>2, <2>3, <2>4
<1> QED BY <1>4, <1>5, <1>6 DEF BellState, Sound

\* One round, and the counter after it.
Rounded(s, o, k) ==
    \E d, p, x : s = Bellman(d, p, x, o, k) /\ BellState(d, p, o, IF x THEN k + 1 ELSE Longest)

LEMMA BellRound ==
    ASSUME pools \in Catalogs, NEW d0, NEW p0, NEW o, NEW k, BellState(d0, p0, o, k), k < Longest
    PROVE  Rounded(RoundOver(Bellman(d0, p0, FALSE, o, k), o), o, k)
<1>1. Sound(d0, p0) /\ HasAll(o) /\ k \in Nat /\ Reach(d0, k) /\ Longest \in Int
  BY LongestInt DEF BellState
<1>2. Len(o) \in Nat /\ \A t \in TokensOf(pools) : \E i \in 1..Len(o) : o[i] = t
  BY <1>1 DEF HasAll
<1>3. Rounding(RoundOver(Bellman(d0, p0, FALSE, o, k), o), d0, o, k, Len(o))
  BY <1>1, <1>2, RoundFacts
<1>4. PICK d, p, x : /\ RoundOver(Bellman(d0, p0, FALSE, o, k), o) = Bellman(d, p, x, o, k)
                     /\ Sound(d, p) /\ Shrinks(d0, d)
                     /\ x = TRUE \/ (x = FALSE /\ d = d0)
                     /\ \A i \in 1..Len(o) : o[i] \in DOMAIN d0 => Covered(d0, d, o[i])
  BY <1>3 DEF Rounding
<1>5. ASSUME NEW u \in DOMAIN d0 PROVE Covered(d0, d, u)
  <2>1. CASE u \in TokensOf(pools)
    BY <1>2, <1>4, <2>1
  <2>2. CASE u \notin TokensOf(pools)
    <3>1. \A e \in AllHops : e.from # u
      BY <2>2, TokensFacts
    <3> QED BY <3>1 DEF Covered
  <2> QED BY <2>1, <2>2
<1>6. PICK k2 : k2 = (IF x THEN k + 1 ELSE Longest)
  OBVIOUS
<1>7. CASE x = TRUE
  <2>1. Reach(d, k + 1)
    BY <1>1, <1>4, <1>5, ReachStep
  <2>2. k2 = k + 1 /\ k2 \in Nat /\ k2 \in Int
    BY <1>1, <1>6, <1>7
  <2>3. BellState(d, p, o, k2)
    BY <1>1, <1>4, <2>1, <2>2 DEF BellState
  <2> QED BY <1>4, <1>6, <2>3 DEF Rounded
<1>8. CASE x = FALSE /\ d = d0
  <2>1. Stable(d)
    BY <1>5, <1>8 DEF Stable, Covered, AllSettled, Settled
  <2>2. k2 = Longest
    BY <1>6, <1>8
  <2>3. k2 >= Longest /\ k2 \in Int
    BY <1>1, <2>2
  <2>4. BellState(d, p, o, k2)
    BY <1>1, <1>4, <2>1, <2>3 DEF BellState
  <2> QED BY <1>4, <1>6, <2>4 DEF Rounded
<1> QED BY <1>4, <1>7, <1>8

\* The answer of the search.
BellFound(a) ==
    query.from # query.to =>
      /\ ~a.cycle
      /\ IF PathSet(Longest) = {} THEN a.path = <<>>
         ELSE /\ Len(a.path) = 1 /\ a.path[1] \in PathSet(Longest)
              /\ \A q \in PathSet(Longest) : PathCost(a.path[1], 0) <= PathCost(q, 0)

LEMMA BellStable ==
    ASSUME pools \in Catalogs, NEW d, NEW p, NEW o, NEW k, BellState(d, p, o, k), k >= Longest
    PROVE  Stable(d)
<1>1. Longest \in Int /\ k \in Int
  BY LongestInt DEF BellState
<1>2. CASE k \in Nat /\ Reach(d, k)
  <2>1. Sound(d, p) /\ Longest <= k
    BY <1>1 DEF BellState
  <2> QED BY <1>2, <2>1, ReachStable
<1> QED BY <1>2 DEF BellState

LEMMA BellPath ==
    ASSUME pools \in Catalogs, query.from # query.to, NEW d, NEW p, Sound(d, p), Stable(d)
    PROVE  IF query.to \in DOMAIN d
           THEN /\ PathTo(p, query.to) \in PathSet(Longest)
                /\ \A q \in PathSet(Longest) : PathCost(PathTo(p, query.to), 0) <= PathCost(q, 0)
           ELSE PathSet(Longest) = {}
<1>1. Tree(d, p, 0) /\ 0 \in Nat
  BY DEF Sound
<1>2. ASSUME NEW q \in PathSet(Longest)
      PROVE  query.to \in DOMAIN d /\ d[query.to] <= PathCost(q, 0) /\ PathCost(q, 0) \in Nat
  <2>0. q \in Seq(AllHops)
    BY DEF PathSet
  <2>1. PICK M \in Nat : M = PathCost(q, 0) + 1
    BY <1>1, <2>0, CostType
  <2>2. PICK h : h = {}
    OBVIOUS
  <2>3. \A x \in h : M <= x.cost
    BY <2>2
  <2>4. \A v \in DOMAIN d : Open(d, h, v) \/ AllSettled(d, v, 0)
    BY DEF Stable
  <2>5. /\ PathCost(q, 0) \in Nat
        /\ M <= PathCost(q, 0) \/ (query.to \in DOMAIN d /\ d[query.to] <= PathCost(q, 0))
    BY <1>1, <2>3, <2>4, LowerBound
  <2> QED BY <2>1, <2>5
<1>3. CASE query.to \in DOMAIN d
  <2>0. PICK t : t = query.to
    OBVIOUS
  <2>1. PICK r : r = PathTo(p, t) /\ t = query.to
    BY <2>0
  <2>2. PICK rk : Ranked(p, rk)
    BY DEF Sound, Grounded
  <2>3. /\ Leads(query.from, r, t) /\ (\A i \in 1..Len(r) : r[i].to # query.from) /\ PathCost(r, 0) <= d[t]
    BY <1>1, <1>3, <2>1, <2>2, PathToFacts
  <2>4. r \in Seq(AllHops)
    BY <2>3 DEF Leads
  <2>5. PathCost(r, 0) \in Nat
    BY <1>1, <2>4, CostType
  <2>6. r \in PathSet(Longest)
    BY <2>1, <2>3, LeadsInSet
  <2>7. d[t] \in Nat
    BY <1>1, <1>3, <2>1 DEF Tree
  <2>8. ASSUME NEW q \in PathSet(Longest) PROVE PathCost(r, 0) <= PathCost(q, 0)
    <3>1. d[t] <= PathCost(q, 0) /\ PathCost(q, 0) \in Nat
      BY <1>2, <2>1
    <3> QED BY <2>3, <2>5, <2>7, <3>1
  <2> QED BY <1>3, <2>1, <2>6, <2>8
<1>4. CASE query.to \notin DOMAIN d
  BY <1>2, <1>4
<1> QED BY <1>3, <1>4

LEMMA BellNoCycle ==
    ASSUME pools \in Catalogs, NEW d, NEW p, Sound(d, p), Stable(d), NEW s, s.dist = d
    PROVE  ~NegativeCycle(s)
<1> SUFFICES ASSUME NEW u \in DOMAIN d, NEW e \in ToSet(Edges(pools, u)),
                    e.to \notin DOMAIN d \/ d[u] + e.fee < d[e.to]
             PROVE  FALSE
  BY DEF NegativeCycle
<1>1. PICK es : es = Edges(pools, u)
  OBVIOUS
<1>2. /\ IsSeq(es) /\ Len(es) \in Nat
      /\ \A j \in 1..Len(es) : es[j] \in AllHops /\ es[j].from = u
  BY <1>1, EdgeFacts
<1>3. DOMAIN es = 1..Len(es)
  BY <1>2, SeqFacts
<1>4. e \in AllHops /\ e.from = u
  BY <1>1, <1>2, <1>3 DEF ToSet
<1>5. e.to \in DOMAIN d /\ d[e.to] <= d[u] + (e.fee + 0)
  BY <1>4 DEF Stable, AllSettled, Settled, Weight
<1>6. d[u] \in Nat /\ d[e.to] \in Nat /\ e.fee \in Nat
  BY <1>4, <1>5, FeeFacts DEF Sound, Tree
<1> QED BY <1>5, <1>6

LEMMA BellRigid ==
    ASSUME UNCHANGED <<pools, query>>, NEW d, NEW p, NEW o, NEW k, NEW a
    PROVE  /\ BellState(d, p, o, k) => BellState(d, p, o, k)'
           /\ BellFound(a) => BellFound(a)'
<1>1. AllHops' = AllHops /\ PathSet(Longest)' = PathSet(Longest) /\ Longest' = Longest /\ TokensOf(pools)' = TokensOf(pools)
  BY PathSetSame DEF Longest
<1>2. Tree(d, p, 0) => Tree(d, p, 0)'
  BY <1>1 DEF Tree
<1>3. Stable(d) => Stable(d)'
  BY <1>1 DEF Stable, AllSettled
<1>4. Reach(d, k) => Reach(d, k)'
  <2>1. \A f, r, t : Leads(f, r, t)' = Leads(f, r, t)
    BY <1>1 DEF Leads
  <2> QED BY <2>1 DEF Reach
<1>5. HasAll(o) => HasAll(o)'
  BY <1>1 DEF HasAll
<1>6. BellState(d, p, o, k) => BellState(d, p, o, k)'
  BY <1>1, <1>2, <1>3, <1>4, <1>5 DEF BellState, Sound
<1>7. BellFound(a) => BellFound(a)'
  BY <1>1 DEF BellFound
<1> QED BY <1>6, <1>7

BellAt(d, p, x, o, k) == search = Bellman(d, p, x, o, k) /\ BellState(d, p, o, k)

\* While the rounds run, the distances are those of walks the parents retrace,
\* and account for every path of at most as many hops as there were rounds, or
\* cannot be improved any more.
BellInv ==
    /\ ReqInv
    /\ pc = "bellman" => \E d, p, x, o, k : BellAt(d, p, x, o, k)
    /\ answer.status = "path" => BellFound(answer)

\* A step that keeps the request keeps an answer already given.
LEMMA BellAnswer ==
    ASSUME BellInv, UNCHANGED <<pools, query>>, UNCHANGED answer \/ answer'.status # "path"
    PROVE  (answer.status = "path" => BellFound(answer))'
<1>1. PICK a : a = answer /\ (a.status = "path" => BellFound(a))
  BY DEF BellInv
<1>2. a.status = "path" => BellFound(a)'
  BY <1>1, BellRigid
<1>3. CASE UNCHANGED answer
  <2>1. answer' = a
    BY <1>1, <1>3
  <2> QED BY <1>2, <2>1
<1>4. CASE answer'.status # "path"
  BY <1>4
<1> QED BY <1>3, <1>4

LEMMA BellStarts ==
    ASSUME BellInv, StartBellman
    PROVE  BellInv'
<1>1. ReqInv'
  BY ReqInductive DEF BellInv, StartBellman, Next, RouterNext, ReqInv
<1>2. UNCHANGED <<pools, query, answer>> /\ pc # "idle" /\ pc' = "bellman"
  BY DEF StartBellman
<1>3. PICK o \in SetToSeqs(TokensOf(pools)) :
         search' = [dist |-> [t \in {query.from} |-> 0], parent |-> <<>>, relaxed |-> FALSE,
                    order |-> o, round |-> 0]
  BY DEF StartBellman
<1>4. pools \in Catalogs
  BY <1>2, ReqFacts DEF BellInv
<1>5. PICK d : d = [t \in {query.from} |-> 0]
  OBVIOUS
<1>6. PICK p : p = <<>>
  OBVIOUS
<1>7. HasAll(o)
  BY <1>4, OrderFacts
<1>8. BellState(d, p, o, 0)
  BY <1>4, <1>5, <1>6, <1>7, BellBase
<1>9. BellState(d, p, o, 0)'
  BY <1>2, <1>8, BellRigid
<1>10. BellAt(d, p, FALSE, o, 0)'
  BY <1>3, <1>5, <1>6, <1>9 DEF BellAt, Bellman
<1>11. (\E a, b, x, c, k : BellAt(a, b, x, c, k))'
  BY <1>10
<1>12. (answer.status = "path" => BellFound(answer))'
  BY <1>2, BellAnswer
<1> QED BY <1>1, <1>11, <1>12 DEF BellInv

LEMMA BellTurns ==
    ASSUME BellInv, BellmanRound
    PROVE  BellInv'
<1>1. ReqInv'
  BY ReqInductive DEF BellInv, BellmanRound, Next, RouterNext, ReqInv
<1>2. UNCHANGED <<pools, query, answer, pc>> /\ pc = "bellman"
  BY DEF BellmanRound
<1>3. pools \in Catalogs
  BY <1>2, ReqFacts DEF BellInv
<1>4. PICK d0, p0, x0, o, k : search = Bellman(d0, p0, x0, o, k) /\ BellState(d0, p0, o, k)
  BY <1>2 DEF BellInv, BellAt
<1>5. search.order = o /\ search.round = k
  BY <1>4 DEF Bellman
<1>6. [search EXCEPT !.relaxed = FALSE] = Bellman(d0, p0, FALSE, o, k)
  <2>1. PICK y : y = FALSE
    OBVIOUS
  <2>2. [search EXCEPT !.relaxed = y] = Bellman(d0, p0, y, o, k)
    BY <1>4 DEF Bellman
  <2> QED BY <2>1, <2>2
<1>7. k < Longest
  BY <1>5 DEF BellmanRound, BellmanRounds, Longest
<1>8. PICK d, p, x : /\ RoundOver(Bellman(d0, p0, FALSE, o, k), o) = Bellman(d, p, x, o, k)
                     /\ BellState(d, p, o, IF x THEN k + 1 ELSE Longest)
  <2>1. Rounded(RoundOver(Bellman(d0, p0, FALSE, o, k), o), o, k)
    BY <1>3, <1>4, <1>7, BellRound
  <2> QED BY <2>1 DEF Rounded
<1>9. PICK s : s = Bellman(d, p, x, o, k)
  OBVIOUS
<1>10. search' = [s EXCEPT !.round = IF s.relaxed THEN @ + 1 ELSE Longest]
  <2>1. Fold(BellmanVisit, [search EXCEPT !.relaxed = FALSE], search.order) = s
    BY <1>5, <1>6, <1>8, <1>9 DEF RoundOver
  <2> QED BY <2>1 DEF BellmanRound, BellmanRounds, Longest
<1>11. s.round = k /\ s.relaxed = x
  BY <1>9 DEF Bellman
<1>12. PICK k2 : k2 = (IF x THEN k + 1 ELSE Longest)
  OBVIOUS
<1>13. search' = [s EXCEPT !.round = k2]
  BY <1>10, <1>11, <1>12
<1>14. [s EXCEPT !.round = k2] = Bellman(d, p, x, o, k2)
  BY <1>9 DEF Bellman
<1>15. BellState(d, p, o, k2)'
  BY <1>2, <1>8, <1>12, BellRigid
<1>16. BellAt(d, p, x, o, k2)'
  BY <1>13, <1>14, <1>15 DEF BellAt, Bellman
<1>17. (\E a, b, y, c, l : BellAt(a, b, y, c, l))'
  BY <1>16
<1>18. (answer.status = "path" => BellFound(answer))'
  BY <1>2, BellAnswer
<1> QED BY <1>1, <1>17, <1>18 DEF BellInv

LEMMA BellEnds ==
    ASSUME BellInv, BellmanEnd
    PROVE  BellInv'
<1>1. ReqInv'
  BY ReqInductive DEF BellInv, BellmanEnd, Next, RouterNext, ReqInv
<1>2. UNCHANGED <<pools, query>> /\ pc = "bellman" /\ pc' = "done"
  BY DEF BellmanEnd
<1>3. pools \in Catalogs
  BY <1>2, ReqFacts DEF BellInv
<1>4. PICK d, p, x, o, k : search = Bellman(d, p, x, o, k) /\ BellState(d, p, o, k)
  BY <1>2 DEF BellInv, BellAt
<1>5. search.dist = d /\ search.parent = p /\ search.round = k
  BY <1>4 DEF Bellman
<1>6. k >= Longest
  BY <1>5 DEF BellmanEnd, BellmanRounds, Longest
<1>7. Sound(d, p) /\ Stable(d)
  <2>1. Stable(d)
    BY <1>3, <1>4, <1>6, BellStable
  <2> QED BY <1>4, <2>1 DEF BellState
<1>8. PICK r : r = PathTo(p, query.to)
  OBVIOUS
<1>9. PICK a : a = [status |-> "path", path |-> IF query.to \in DOMAIN d THEN <<r>> ELSE <<>>,
                    cycle |-> NegativeCycle(search)]
  OBVIOUS
<1>10. answer' = a
  BY <1>5, <1>8, <1>9 DEF BellmanEnd
<1>11. ~a.cycle
  <2>1. ~NegativeCycle(search)
    BY <1>3, <1>5, <1>7, BellNoCycle
  <2>2. a.cycle = NegativeCycle(search)
    BY <1>9
  <2> QED BY <2>1, <2>2
<1>12. a.path = (IF query.to \in DOMAIN d THEN <<r>> ELSE <<>>)
  BY <1>9
<1>13. BellFound(a)
  <2> SUFFICES ASSUME query.from # query.to
               PROVE  IF PathSet(Longest) = {} THEN a.path = <<>>
                      ELSE /\ Len(a.path) = 1 /\ a.path[1] \in PathSet(Longest)
                           /\ \A q \in PathSet(Longest) : PathCost(a.path[1], 0) <= PathCost(q, 0)
    BY <1>11 DEF BellFound
  <2>1. IF query.to \in DOMAIN d
        THEN r \in PathSet(Longest) /\ \A q \in PathSet(Longest) : PathCost(r, 0) <= PathCost(q, 0)
        ELSE PathSet(Longest) = {}
    BY <1>3, <1>7, <1>8, BellPath
  <2>2. Len(<<r>>) = 1 /\ <<r>>[1] = r
    OBVIOUS
  <2>3. CASE query.to \in DOMAIN d
    <3>1. a.path = <<r>> /\ Len(a.path) = 1 /\ a.path[1] = r
      BY <1>12, <2>2, <2>3
    <3> QED BY <2>1, <2>3, <3>1
  <2>4. CASE query.to \notin DOMAIN d
    BY <1>12, <2>1, <2>4
  <2> QED BY <2>3, <2>4
<1>14. BellFound(a)'
  BY <1>2, <1>13, BellRigid
<1>15. BellFound(answer)'
  BY <1>10, <1>14
<1> QED BY <1>1, <1>2, <1>15 DEF BellInv

LEMMA BellInductive == BellInv /\ [Next]_vars => BellInv'
<1> SUFFICES ASSUME BellInv, [Next]_vars PROVE BellInv'
  OBVIOUS
<1>1. ReqInv'
  BY ReqInductive DEF BellInv
<1>2. CASE StartBellman
  BY <1>2, BellStarts
<1>3. CASE BellmanRound
  BY <1>3, BellTurns
<1>4. CASE BellmanEnd
  BY <1>4, BellEnds
<1>5. CASE UNCHANGED routerVars
  <2>1. UNCHANGED <<pools, query, answer, search, pc>>
    BY <1>5 DEF routerVars
  <2>2. ASSUME NEW d, NEW p, NEW x, NEW o, NEW k, BellAt(d, p, x, o, k) PROVE BellAt(d, p, x, o, k)'
    <3>1. BellState(d, p, o, k)'
      BY <2>1, <2>2, BellRigid DEF BellAt
    <3> QED BY <2>1, <2>2, <3>1 DEF BellAt, Bellman
  <2>3. (\E d, p, x, o, k : BellAt(d, p, x, o, k)) => (\E d, p, x, o, k : BellAt(d, p, x, o, k))'
    BY <2>2
  <2>4. (answer.status = "path" => BellFound(answer))'
    BY <2>1, BellAnswer
  <2> QED BY <1>1, <2>1, <2>3, <2>4 DEF BellInv
<1>6. CASE StartDijkstra \/ DijkstraPop \/ DijkstraExhausted \/ StartDfs \/ DfsEdge \/ DfsReturn
  <2>1. UNCHANGED <<pools, query, answer>> /\ pc' \in {"dijkstra", "dfs", "found"}
    BY <1>6 DEF StartDijkstra, DijkstraPop, DijkstraExhausted, StartDfs, DfsEdge, DfsReturn
  <2>2. (answer.status = "path" => BellFound(answer))'
    BY <2>1, BellAnswer
  <2> QED BY <1>1, <2>1, <2>2 DEF BellInv
<1>7. CASE StartSplit \/ \E w \in [DOMAIN active -> 0..MaxWeight] : SplitRound(w)
  <2>1. /\ UNCHANGED <<pools, query>>
        /\ UNCHANGED answer \/ answer'.status # "path"
        /\ pc' \in {"done", "split"}
    <3>1. CASE StartSplit
      BY <3>1 DEF StartSplit
    <3>2. ASSUME NEW w \in [DOMAIN active -> 0..MaxWeight], SplitRound(w)
          PROVE  /\ UNCHANGED <<pools, query>>
                 /\ UNCHANGED answer \/ answer'.status # "path"
                 /\ pc' \in {"done", "split"}
      <4>1. \A b : Finish(b) => answer'.status # "path" /\ pc' = "done"
        BY DEF Finish
      <4> QED BY <3>2, <4>1 DEF SplitRound
    <3> QED BY <1>7, <3>1, <3>2
  <2>2. (answer.status = "path" => BellFound(answer))'
    BY <2>1, BellAnswer
  <2> QED BY <1>1, <2>1, <2>2 DEF BellInv
<1> QED BY <1>2, <1>3, <1>4, <1>5, <1>6, <1>7 DEF Next, vars, RouterNext

\* For any catalog and request, whatever order the hash set gives the tokens:
\* find_shortest_path_bellman_ford reports no negative cycle, finds a route
\* exactly if there is one, and no simple path has a smaller sum of fees.
THEOREM BellmanFordFindsCheapest == Spec => []BellmanFordAgrees
<1>1. Init => BellInv
  BY DEF Init, RouterInit, RouterIdle, BellInv, ReqInv
<1>2. ASSUME BellInv PROVE BellmanFordAgrees
  <2> SUFFICES ASSUME answer.status = "path", query.from # query.to
               PROVE  LET all == SimplePaths(query.from, query.to, Cardinality(TokensOf(pools)) - 1)
                      IN /\ ~answer.cycle
                         /\ IF all = {} THEN answer.path = <<>>
                            ELSE Len(answer.path) = 1 /\ Cheapest(answer.path[1], all, 0)
    BY DEF BellmanFordAgrees
  <2>1. BellFound(answer) /\ pools \in Catalogs
    BY <1>2, ReqFacts DEF BellInv, ReqInv
  <2>2. Longest \in Int
    BY <2>1, LongestInt
  <2>3. SimplePaths(query.from, query.to, Longest) = PathSet(Longest)
    BY <2>2, PathSetIs
  <2> QED BY <2>1, <2>3 DEF BellFound, Cheapest, Longest
<1> QED BY <1>1, <1>2, BellInductive, PTL DEF Spec

-----------------------------------------------------------------------------
\* The walk and the V3 rule.  The price passes the points Point(0), Point(1), ...
\* of the grid, and between them the cells 1, 2, ...

Point(k) == IF job.down THEN job.price - k ELSE job.price + k

Cells == Distance(job.price, End)

\* Tick data the V3 rule is claimed for.
Fitting == InStep /\ DOMAIN job.ticks # {} /\ ~(job.down /\ job.cur \in DOMAIN job.ticks)

LEMMA NetType ==
    ASSUME job \in WalkJobs, NEW c \in Int
    PROVE  NetAt(c) \in Int
<1>1. \A t \in DOMAIN job.ticks : t \in Int /\ job.ticks[t] \in Int
  BY TickFacts
<1>2. ASSUME NEW t \in DOMAIN job.ticks, Coord(t) = c PROVE c \div 2 = t
  BY <1>1, <1>2 DEF Coord
<1> QED BY <1>1, <1>2 DEF NetAt

LEMMA NetOfTick ==
    ASSUME job \in WalkJobs, NEW t \in DOMAIN job.ticks
    PROVE  NetAt(Coord(t)) = job.ticks[t]
<1>1. t \in Int
  BY TickFacts
<1>2. Coord(t) \div 2 = t
  BY <1>1 DEF Coord
<1> QED BY <1>2 DEF NetAt

LEMMA CellFacts ==
    ASSUME job \in WalkJobs, NEW k \in Nat \ {0}
    PROVE  CellLiquidity(k) \in Int
<1>1. job.price \in Int /\ job.liquidity \in Int
  BY TickFacts
<1>2. CASE job.down
  <2> DEFINE s == [i \in 1..k |-> NetAt(job.price - (i - 1))]
  <2>1. \A i \in 1..k : NetAt(job.price - (i - 1)) \in Int
    BY <1>1, NetType
  <2>2. s \in [1..k -> Int]
    BY <2>1
  <2> HIDE DEF s
  <2>3. Total(s) \in Int
    BY <2>2, TotalType
  <2>4. CellLiquidity(k) = job.liquidity - Total(s)
    BY <1>2 DEF CellLiquidity, s
  <2> QED BY <1>1, <2>3, <2>4
<1>3. CASE ~job.down
  <2> DEFINE s == [i \in 1..(k - 1) |-> NetAt(job.price + i)]
  <2>0. PICK n \in Nat : n = k - 1
    OBVIOUS
  <2>1. \A i \in 1..n : NetAt(job.price + i) \in Int
    BY <1>1, NetType
  <2>2. s \in [1..n -> Int]
    BY <2>0, <2>1
  <2> HIDE DEF s
  <2>3. Total(s) \in Int
    BY <2>2, TotalType
  <2>4. CellLiquidity(k) = job.liquidity + Total(s)
    BY <1>3 DEF CellLiquidity, s
  <2> QED BY <1>1, <2>3, <2>4
<1> QED BY <1>2, <1>3

\* From a cell to the next one.
LEMMA CellNext ==
    ASSUME job \in WalkJobs, NEW k \in Nat \ {0}
    PROVE  CellLiquidity(k + 1) = IF job.down THEN CellLiquidity(k) - NetAt(Point(k))
                                  ELSE CellLiquidity(k) + NetAt(Point(k))
<1>1. job.price \in Int /\ job.liquidity \in Int
  BY TickFacts
<1>2. CASE job.down
  <2> DEFINE s == [i \in 1..(k + 1) |-> NetAt(job.price - (i - 1))]
             r == [i \in 1..k |-> NetAt(job.price - (i - 1))]
  <2>1. \A i \in 1..(k + 1) : NetAt(job.price - (i - 1)) \in Int
    BY <1>1, NetType
  <2>2. s \in [1..(k + 1) -> Int]
    BY <2>1
  <2>3. [i \in 1..k |-> s[i]] = r /\ s[k + 1] = NetAt(job.price - k)
    <3>1. \A i \in 1..k : i \in 1..(k + 1)
      OBVIOUS
    <3>2. k + 1 \in 1..(k + 1) /\ (k + 1) - 1 = k
      OBVIOUS
    <3> QED BY <3>1, <3>2
  <2>4. CellLiquidity(k + 1) = job.liquidity - Total(s) /\ CellLiquidity(k) = job.liquidity - Total(r)
    BY <1>2 DEF CellLiquidity
  <2>5. Point(k) = job.price - k
    BY <1>2 DEF Point
  <2>6. r \in [1..k -> Int]
    BY <2>1
  <2> HIDE DEF s, r
  <2>7. Total(s) = Total(r) + NetAt(job.price - k)
    <3>1. Total(s) = Total([i \in 1..k |-> s[i]]) + s[k + 1]
      BY <2>2, TotalLast
    <3> QED BY <2>3, <3>1
  <2>8. Total(r) \in Int /\ NetAt(job.price - k) \in Int
    <3>1. Total(r) \in Int
      BY <2>6, TotalType
    <3>2. job.price - k \in Int
      BY <1>1
    <3> QED BY <3>1, <3>2, NetType
  <2> QED BY <1>1, <1>2, <2>4, <2>5, <2>7, <2>8
<1>3. CASE ~job.down
  <2>0. PICK n \in Nat : k = n + 1 /\ (k + 1) - 1 = n + 1 /\ k - 1 = n
    <3>1. k - 1 \in Nat /\ k = (k - 1) + 1 /\ (k + 1) - 1 = (k - 1) + 1
      OBVIOUS
    <3> QED BY <3>1
  <2> DEFINE s == [i \in 1..(n + 1) |-> NetAt(job.price + i)]
             r == [i \in 1..n |-> NetAt(job.price + i)]
  <2>1. \A i \in 1..(n + 1) : NetAt(job.price + i) \in Int
    BY <1>1, NetType
  <2>2. s \in [1..(n + 1) -> Int]
    BY <2>1
  <2>3. [i \in 1..n |-> s[i]] = r /\ s[n + 1] = NetAt(job.price + k)
    <3>1. \A i \in 1..n : i \in 1..(n + 1)
      OBVIOUS
    <3>2. n + 1 \in 1..(n + 1)
      OBVIOUS
    <3> QED BY <2>0, <3>1, <3>2
  <2>4. CellLiquidity(k + 1) = job.liquidity + Total(s) /\ CellLiquidity(k) = job.liquidity + Total(r)
    BY <1>3, <2>0 DEF CellLiquidity
  <2>5. Point(k) = job.price + k
    BY <1>3 DEF Point
  <2>6. r \in [1..n -> Int]
    BY <2>1
  <2> HIDE DEF s, r
  <2>7. Total(s) = Total(r) + NetAt(job.price + k)
    <3>1. Total(s) = Total([i \in 1..n |-> s[i]]) + s[n + 1]
      BY <2>2, TotalLast
    <3> QED BY <2>3, <3>1
  <2>8. Total(r) \in Int /\ NetAt(job.price + k) \in Int
    <3>1. Total(r) \in Int
      BY <2>6, TotalType
    <3>2. job.price + k \in Int
      BY <1>1
    <3> QED BY <3>1, <3>2, NetType
  <2> QED BY <1>1, <1>3, <2>4, <2>5, <2>7, <2>8
<1> QED BY <1>2, <1>3

\* In the first cell the pool's own liquidity.
LEMMA CellFirst ==
    ASSUME job \in WalkJobs, Fitting
    PROVE  CellLiquidity(1) = job.liquidity
<1>1. job.price \in Int /\ job.liquidity \in Int /\ job.cur \in Int /\ \A t \in DOMAIN job.ticks : t \in Int
  BY TickFacts
<1>2. CASE job.down
  <2> DEFINE s == [i \in 1..1 |-> NetAt(job.price - (i - 1))]
  <2>1. job.price - (1 - 1) = job.price
    BY <1>1
  <2>2. NetAt(job.price) = 0
    <3> SUFFICES ASSUME NEW t \in DOMAIN job.ticks, Coord(t) = job.price PROVE FALSE
      BY DEF NetAt
    <3>1. t = job.price \div 2
      BY <1>1 DEF Coord
    <3> QED BY <1>2, <3>1 DEF Fitting, InStep
  <2>3. s \in [1..1 -> Int] /\ s[1] = 0
    <3>1. \A i \in 1..1 : i = 1
      OBVIOUS
    <3> QED BY <2>1, <2>2, <3>1
  <2>4. CellLiquidity(1) = job.liquidity - Total(s)
    BY <1>2 DEF CellLiquidity
  <2> HIDE DEF s
  <2>5. Total(s) = 0
    <3>1. PICK f \in [0..1 -> Int] : f[0] = 0 /\ (\A k \in 1..1 : f[k] = f[k - 1] + s[k]) /\ Total(s) = f[1]
      BY <2>3, TotalDef
    <3>2. f[1] = f[0] + s[1]
      BY <3>1
    <3> QED BY <2>3, <3>1, <3>2
  <2> QED BY <1>1, <2>4, <2>5
<1>3. CASE ~job.down
  <2> DEFINE s == [i \in 1..0 |-> NetAt(job.price + i)]
  <2>1. s \in [1..0 -> Int]
    OBVIOUS
  <2>2. CellLiquidity(1) = job.liquidity + Total(s)
    BY <1>3 DEF CellLiquidity
  <2> HIDE DEF s
  <2>3. PICK f \in [0..0 -> Int] : f[0] = 0 /\ Total(s) = f[0]
    BY <2>1, TotalDef
  <2> QED BY <1>1, <2>2, <2>3
<1> QED BY <1>2, <1>3

\* Every cell so far has liquidity.
Flows(k) == \A i \in 1..k : CellLiquidity(i) > 0

\* What the first m cells take.
Taken(m) == Total([k \in 1..m |-> CellTakes(k)])

LEMMA TakesType ==
    ASSUME job \in WalkJobs, NEW k \in Nat \ {0}
    PROVE  CellTakes(k) \in Nat /\ (~Flows(k) => CellTakes(k) = 0) /\ (Flows(k) => CellTakes(k) = CellLiquidity(k))
<1>1. CellLiquidity(k) \in Int
  BY CellFacts
<1>2. k \in 1..k
  OBVIOUS
<1> QED BY <1>1, <1>2 DEF CellTakes, Flows

LEMMA TakenStep ==
    ASSUME job \in WalkJobs, NEW m \in Nat
    PROVE  Taken(m) \in Nat /\ Taken(m + 1) = Taken(m) + CellTakes(m + 1) /\ Taken(m + 1) \in Nat
<1> DEFINE s == [k \in 1..(m + 1) |-> CellTakes(k)]
           r == [k \in 1..m |-> CellTakes(k)]
<1>1. \A k \in 1..(m + 1) : CellTakes(k) \in Nat
  BY TakesType
<1>2. s \in [1..(m + 1) -> Int] /\ r \in [1..m -> Int] /\ \A k \in 1..m : r[k] >= 0
  BY <1>1
<1>3. [k \in 1..m |-> s[k]] = r /\ s[m + 1] = CellTakes(m + 1)
  OBVIOUS
<1>4. Taken(m) = Total(r) /\ Taken(m + 1) = Total(s)
  BY DEF Taken
<1>5. CellTakes(m + 1) \in Nat
  BY <1>1
<1> HIDE DEF s, r
<1>6. Total(s) = Total([k \in 1..m |-> s[k]]) + s[m + 1]
  BY <1>2, TotalLast
<1>7. Total(r) \in Int /\ Total(r) >= 0
  BY <1>2, TotalType
<1>8. Total(s) = Total(r) + CellTakes(m + 1)
  BY <1>3, <1>6
<1> QED BY <1>4, <1>5, <1>7, <1>8

LEMMA TakenNone ==
    ASSUME job \in WalkJobs
    PROVE  Taken(0) = 0
<1> DEFINE s == [k \in 1..0 |-> CellTakes(k)]
<1>1. s \in [1..0 -> Int] /\ Taken(0) = Total(s)
  BY DEF Taken
<1> HIDE DEF s
<1>2. PICK f \in [0..0 -> Int] : f[0] = 0 /\ Total(s) = f[0]
  BY <1>1, TotalDef
<1> QED BY <1>1, <1>2

\* More cells take more; behind a cell without liquidity, nothing.
LEMMA TakenMore ==
    ASSUME job \in WalkJobs, NEW m \in Nat, NEW n \in Nat, m <= n
    PROVE  Taken(m) <= Taken(n) /\ (~Flows(m + 1) => Taken(n) = Taken(m))
<1>0. PICK d \in Nat : n = m + d
  <2>1. n - m \in Nat /\ n = m + (n - m)
    OBVIOUS
  <2> QED BY <2>1
<1> DEFINE S == {j \in 0..d : Taken(m) <= Taken(m + j) /\ (~Flows(m + 1) => Taken(m + j) = Taken(m))}
<1>1. 0 \in S
  <2>1. Taken(m) \in Nat /\ m + 0 = m
    BY TakenStep
  <2> QED BY <2>1
<1>2. ASSUME NEW j \in 1..d, j - 1 \in S PROVE j \in S
  <2>1. PICK i \in Nat : i = m + (j - 1) /\ i + 1 = m + j
    <3>1. m + (j - 1) \in Nat /\ (m + (j - 1)) + 1 = m + j
      OBVIOUS
    <3> QED BY <3>1
  <2>2. Taken(m) <= Taken(i) /\ (~Flows(m + 1) => Taken(i) = Taken(m))
    BY <1>2, <2>1
  <2>3. Taken(i) \in Nat /\ Taken(i + 1) = Taken(i) + CellTakes(i + 1) /\ Taken(i + 1) \in Nat
    BY TakenStep
  <2>4. CellTakes(i + 1) \in Nat /\ (~Flows(i + 1) => CellTakes(i + 1) = 0)
    BY <2>1, TakesType
  <2>5. ~Flows(m + 1) => ~Flows(i + 1)
    <3>1. \A x \in 1..(m + 1) : x \in 1..(i + 1)
      BY <2>1
    <3> QED BY <3>1 DEF Flows
  <2>6. Taken(m) \in Nat
    BY TakenStep
  <2>7. Taken(m) <= Taken(i + 1) /\ (~Flows(m + 1) => Taken(i + 1) = Taken(m))
    BY <2>2, <2>3, <2>4, <2>5, <2>6
  <2> QED BY <2>1, <2>7
<1>3. \A j \in 0..d : j \in S
  <2> HIDE DEF S
  <2> QED BY <1>1, <1>2, Induct
<1>4. d \in 0..d
  OBVIOUS
<1>5. d \in S
  <2> HIDE DEF S
  <2> QED BY <1>3, <1>4
<1> QED BY <1>0, <1>5

\* Over cells of one liquidity.
LEMMA TakenRun ==
    ASSUME job \in WalkJobs, NEW m \in Nat, NEW d \in Nat, Flows(m), NEW l \in Nat \ {0},
           \A j \in 1..d : CellLiquidity(m + j) = l
    PROVE  Flows(m + d) /\ Taken(m + d) = Taken(m) + l * d
<1> DEFINE S == {j \in 0..d : Flows(m + j) /\ Taken(m + j) = Taken(m) + l * j}
<1>1. 0 \in S
  <2>1. Taken(m) \in Nat /\ m + 0 = m /\ l * 0 = 0
    BY TakenStep
  <2> QED BY <2>1
<1>2. ASSUME NEW j \in 1..d, j - 1 \in S PROVE j \in S
  <2>1. PICK i \in Nat : i = m + (j - 1) /\ i + 1 = m + j
    <3>1. m + (j - 1) \in Nat /\ (m + (j - 1)) + 1 = m + j
      OBVIOUS
    <3> QED BY <3>1
  <2>2. Flows(i) /\ Taken(i) = Taken(m) + l * (j - 1)
    BY <1>2, <2>1
  <2>3. CellLiquidity(i + 1) = l
    BY <2>1
  <2>4. Flows(i + 1)
    <3>1. \A x \in 1..(i + 1) : x = i + 1 \/ x \in 1..i
      OBVIOUS
    <3> QED BY <2>2, <2>3, <3>1 DEF Flows
  <2>5. Taken(i + 1) = Taken(i) + CellTakes(i + 1)
    BY TakenStep
  <2>6. CellTakes(i + 1) = l
    BY <2>3, <2>4, TakesType
  <2>7. l * j = l * (j - 1) + l /\ l * (j - 1) \in Int
    OBVIOUS
  <2>8. Taken(m) \in Nat
    BY TakenStep
  <2>9. Taken(i + 1) = Taken(m) + l * j
    BY <2>2, <2>5, <2>6, <2>7, <2>8
  <2> QED BY <2>1, <2>4, <2>9
<1>3. \A j \in 0..d : j \in S
  <2> HIDE DEF S
  <2> QED BY <1>1, <1>2, Induct
<1>4. d \in 0..d
  OBVIOUS
<1>5. d \in S
  <2> HIDE DEF S
  <2> QED BY <1>3, <1>4
<1> QED BY <1>5

\* t lies ahead of the tick cur, or of the point c.
AheadOf(t, cur) == IF job.down THEN t < cur ELSE t > cur

Beyond(t, c) == IF job.down THEN Coord(t) < c ELSE Coord(t) > c

\* pick_next_tick returns the nearest tick ahead, if there is one.
LEMMA NextTickNearest ==
    ASSUME job \in WalkJobs, NEW cur \in Int, NEW t, t = NextTick(cur)
    PROVE  \A x \in DOMAIN job.ticks : AheadOf(x, cur) => t # NoTick /\ IF job.down THEN x <= t ELSE t <= x
<1> DEFINE S == {x \in DOMAIN job.ticks : IF job.down THEN x < cur ELSE x > cur}
<1>1. t = IF S = {} THEN NoTick ELSE IF job.down THEN Max(S) ELSE Min(S)
  BY DEF NextTick
<1>2. S \in SUBSET DOMAIN job.ticks /\ \A x \in S : x \in Int
  BY TickFacts
<1>3. \A x \in DOMAIN job.ticks : AheadOf(x, cur) => x \in S
  BY DEF AheadOf
<1> HIDE DEF S
<1>4. IsFiniteSet(S)
  BY <1>2, TickFacts, FS_Subset
<1>5. S # {} => /\ Max(S) \in S /\ Min(S) \in S
                /\ \A x \in S : Min(S) <= x /\ x <= Max(S)
  BY <1>2, <1>4, FiniteMin, FiniteMax
<1>6. NoTick \notin Int
  BY WalkAssumption
<1>7. ASSUME NEW x \in DOMAIN job.ticks, AheadOf(x, cur)
      PROVE  t # NoTick /\ IF job.down THEN x <= t ELSE t <= x
  <2>1. x \in S /\ S # {}
    BY <1>3, <1>7
  <2> QED BY <1>1, <1>2, <1>5, <1>6, <2>1
<1> QED BY <1>7

\* c is at d or past it.
Reaches(c, d) == IF job.down THEN c <= d ELSE c >= d

\* The end is the farthest of the price, the bound and the ticks ahead.
LEMMA EndFacts ==
    ASSUME job \in WalkJobs
    PROVE  /\ End \in Int
           /\ \/ End = job.price \/ End = Bounds(job.down)
              \/ \E t \in DOMAIN job.ticks : End = Coord(t)
           /\ Reaches(End, job.price) /\ Reaches(End, Bounds(job.down))
           /\ \A t \in DOMAIN job.ticks : AheadOf(t, job.cur) => Reaches(End, Coord(t))
<1> DEFINE T == {t \in DOMAIN job.ticks : IF job.down THEN t < job.cur ELSE t > job.cur}
           A == {Coord(t) : t \in T}
           S == A \cup {job.price, Bounds(job.down)}
<1>1. job.price \in Int /\ Bounds(job.down) \in Int
  BY TickFacts, BoundsType
<1>2. T \subseteq DOMAIN job.ticks /\ IsFiniteSet(DOMAIN job.ticks) /\ \A t \in DOMAIN job.ticks : t \in Int
  BY TickFacts
<1>3. \A t \in DOMAIN job.ticks : AheadOf(t, job.cur) => t \in T
  BY DEF AheadOf
<1>4. End = IF job.down THEN Min(S) ELSE Max(S)
  BY DEF End, Ahead
<1> HIDE DEF T
<1>5. IsFiniteSet(T)
  BY <1>2, FS_Subset
<1>6. IsFiniteSet(A)
  <2> DEFINE g == [t \in T |-> Coord(t)]
  <2>1. g \in [T -> A] /\ \A x \in A : \E t \in T : g[t] = x
    OBVIOUS
  <2>2. g \in Surjection(T, A)
    BY <2>1 DEF Surjection
  <2> QED BY <1>5, <2>2, FS_Surjection
<1>7. \A x \in A : x \in Int /\ \E t \in DOMAIN job.ticks : x = Coord(t)
  BY <1>2 DEF Coord
<1>8. \A t \in T : Coord(t) \in A
  OBVIOUS
<1> HIDE DEF A
<1>9. IsFiniteSet({job.price, Bounds(job.down)})
  <2>1. IsFiniteSet({job.price}) /\ IsFiniteSet({Bounds(job.down)})
    BY FS_Singleton
  <2>2. IsFiniteSet({job.price} \cup {Bounds(job.down)})
    BY <2>1, FS_Union
  <2>3. {job.price} \cup {Bounds(job.down)} = {job.price, Bounds(job.down)}
    OBVIOUS
  <2> QED BY <2>2, <2>3
<1>10. IsFiniteSet(S)
  BY <1>6, <1>9, FS_Union
<1>11. /\ \A x \in S : x \in Int
       /\ S # {} /\ job.price \in S /\ Bounds(job.down) \in S /\ \A x \in A : x \in S
       /\ \A x \in S : x \in A \/ x = job.price \/ x = Bounds(job.down)
  BY <1>1, <1>7
<1> HIDE DEF S
<1>12. End \in S /\ \A x \in S : Reaches(End, x)
  <2>1. Min(S) \in S /\ (\A x \in S : Min(S) <= x) /\ Max(S) \in S /\ (\A x \in S : x <= Max(S))
    BY <1>10, <1>11, FiniteMin, FiniteMax
  <2>2. CASE job.down
    BY <1>4, <2>1, <2>2 DEF Reaches
  <2>3. CASE ~job.down
    <3>1. End = Max(S)
      BY <1>4, <2>3
    <3>2. PICK e \in Int : e = Max(S)
      BY <1>11, <2>1
    <3>3. \A x \in S : e >= x
      BY <1>11, <2>1, <3>2
    <3> QED BY <2>1, <2>3, <3>1, <3>2, <3>3 DEF Reaches
  <2> QED BY <2>2, <2>3
<1>13. End \in Int
  BY <1>11, <1>12
<1>14. End = job.price \/ End = Bounds(job.down) \/ \E t \in DOMAIN job.ticks : End = Coord(t)
  BY <1>7, <1>11, <1>12
<1>15. Reaches(End, job.price) /\ Reaches(End, Bounds(job.down))
  BY <1>11, <1>12
<1>16. \A t \in DOMAIN job.ticks : AheadOf(t, job.cur) => Reaches(End, Coord(t))
  BY <1>3, <1>8, <1>11, <1>12
<1> QED BY <1>13, <1>14, <1>15, <1>16

\* The cells up to the end.
LEMMA CellsFacts ==
    ASSUME job \in WalkJobs
    PROVE  Cells \in Nat /\ Point(Cells) = End /\ End \in Int /\ Bounds(job.down) \in Int
<1>1. job.price \in Int /\ End \in Int /\ Bounds(job.down) \in Int
  BY TickFacts, EndFacts, BoundsType
<1>2. IF job.down THEN End <= job.price ELSE End >= job.price
  BY EndFacts DEF Reaches
<1> QED BY <1>1, <1>2 DEF Cells, Point, Distance

\* Where the walk w stands, after the first m cells.
Stands(w, m) ==
    /\ m \in 0..Cells /\ w.pos = Point(m) /\ w.l = CellLiquidity(m + 1) /\ Flows(m)
    /\ \A x \in DOMAIN job.ticks : AheadOf(x, w.cur) <=> Beyond(x, w.pos)
    /\ \A x \in DOMAIN job.ticks : AheadOf(x, w.cur) => AheadOf(x, job.cur)

\* Once no tick is ahead, the end is no farther than the walk and the bound.
LEMMA EndReached ==
    ASSUME job \in WalkJobs, NEW w \in Walks, NEW m, Stands(w, m), NextTick(w.cur) = NoTick,
           NEW c \in Int, Reaches(c, w.pos), Reaches(c, Bounds(job.down))
    PROVE  Reaches(c, End)
<1>1. /\ job.price \in Int /\ w.pos \in Int /\ w.cur \in Int /\ End \in Int /\ Bounds(job.down) \in Int
      /\ \A t \in DOMAIN job.ticks : t \in Int
  BY TickFacts, CellsFacts DEF Walks
<1>2. m \in Nat /\ w.pos = Point(m)
  BY CellsFacts DEF Stands
<1>3. CASE End = job.price
  BY <1>1, <1>2, <1>3 DEF Reaches, Point
<1>4. CASE End = Bounds(job.down)
  BY <1>4
<1>5. ASSUME NEW t \in DOMAIN job.ticks, End = Coord(t) PROVE Reaches(c, End)
  <2>1. ~AheadOf(t, w.cur)
    BY <1>1, NextTickNearest
  <2>2. ~Beyond(t, w.pos)
    BY <2>1 DEF Stands
  <2> QED BY <1>1, <1>5, <2>2 DEF Beyond, Reaches, Coord
<1> QED BY <1>3, <1>4, <1>5, EndFacts

\* n is where a turn from m leads: no tick is passed on the way.
Leap(m, n, l, target, pos) ==
    /\ n \in 0..Cells /\ m <= n /\ Point(n) = target /\ n - m = Distance(pos, target)
    /\ Flows(n) /\ Taken(n) = Taken(m) + l * Distance(pos, target) /\ CellLiquidity(n) = l /\ n # 0

LEMMA TurnLeaps ==
    ASSUME job \in WalkJobs, NEW w \in Walks, NEW m, Stands(w, m), w.l > 0,
           NEW t, t = NextTick(w.cur), NEW target, target = IF t = NoTick THEN Bounds(job.down) ELSE Coord(t),
           IF job.down THEN w.pos > target ELSE w.pos < target
    PROVE  \E n : Leap(m, n, w.l, target, w.pos)
<1>1. job.price \in Int /\ \A x \in DOMAIN job.ticks : x \in Int
  BY TickFacts
<1>2. w.pos \in Int /\ w.cur \in Int /\ w.l \in Int
  BY DEF Walks
<1>3. m \in Nat /\ m \in 0..Cells /\ Cells \in Nat /\ w.pos = Point(m) /\ w.l = CellLiquidity(m + 1) /\ Flows(m)
  BY CellsFacts DEF Stands
<1>4. target \in Int /\ End \in Int /\ Reaches(End, target)
  <2>1. CASE t = NoTick
    BY <2>1, EndFacts, CellsFacts
  <2>2. CASE t # NoTick
    <3>1. t \in DOMAIN job.ticks /\ AheadOf(t, w.cur)
      BY <1>2, <2>2, NextTickFacts DEF AheadOf
    <3>2. t \in Int /\ AheadOf(t, job.cur)
      BY <1>1, <3>1 DEF Stands
    <3>3. target = Coord(t) /\ Reaches(End, Coord(t)) /\ End \in Int
      BY <2>2, <3>1, <3>2, EndFacts
    <3> QED BY <3>2, <3>3 DEF Coord
  <2> QED BY <2>1, <2>2
<1>5. PICK d \in Nat : d = Distance(w.pos, target) /\ d # 0
  BY <1>2, <1>4 DEF Distance
<1>6. PICK n \in Nat : n = m + d
  BY <1>3
<1>7. n \in 0..Cells /\ Point(n) = target /\ m <= n /\ n - m = d /\ n # 0
  <2>1. CASE job.down
    <3>0. w.pos > target /\ Point(Cells) = End /\ Reaches(End, target)
      BY <1>4, <2>1, CellsFacts
    <3>3. d = w.pos - target
      BY <1>2, <1>4, <1>5, <3>0 DEF Distance
    <3>1. w.pos = job.price - m /\ d = w.pos - target /\ End = job.price - Cells /\ End <= target
      BY <1>3, <2>1, <3>0, <3>3 DEF Point, Reaches
    <3>2. Point(n) = job.price - n
      BY <2>1 DEF Point
    <3> QED BY <1>1, <1>2, <1>3, <1>4, <1>5, <1>6, <3>1, <3>2
  <2>2. CASE ~job.down
    <3>1. w.pos = job.price + m /\ d = target - w.pos /\ End = job.price + Cells /\ End >= target
      <4>0. w.pos < target /\ Point(Cells) = End /\ Reaches(End, target)
        BY <1>4, <2>2, CellsFacts
      <4>1. d = target - w.pos
        BY <1>2, <1>4, <1>5, <4>0 DEF Distance
      <4> QED BY <1>3, <2>2, <4>0, <4>1 DEF Point, Reaches
    <3>2. Point(n) = job.price + n
      BY <2>2 DEF Point
    <3> QED BY <1>1, <1>2, <1>3, <1>4, <1>5, <1>6, <3>1, <3>2
  <2> QED BY <2>1, <2>2
<1>8. ASSUME NEW j \in 1..(d - 1) PROVE NetAt(Point(m + j)) = 0
  <2> SUFFICES ASSUME NEW x \in DOMAIN job.ticks, Coord(x) = Point(m + j) PROVE FALSE
    BY DEF NetAt
  <2>1. x \in Int /\ m + j < n /\ m < m + j
    BY <1>1, <1>3, <1>5, <1>6
  <2>2. CASE job.down
    <3>1. 2 * x = job.price - (m + j) /\ w.pos = job.price - m /\ target = job.price - n
      BY <1>3, <1>7, <2>2 DEF Coord, Point
    <3>2. 2 * x < w.pos /\ target < 2 * x
      BY <1>1, <1>2, <1>3, <1>4, <1>6, <2>1, <3>1
    <3>3. AheadOf(x, w.cur)
      <4>1. Beyond(x, w.pos)
        BY <2>2, <3>2 DEF Beyond, Coord
      <4> QED BY <4>1 DEF Stands
    <3>4. t # NoTick /\ x <= t
      BY <1>2, <2>2, <3>3, NextTickNearest
    <3>5. target = 2 * t /\ t \in Int
      BY <1>2, <3>4, NextTickFacts DEF Coord
    <3> QED BY <2>1, <3>2, <3>4, <3>5
  <2>3. CASE ~job.down
    <3>1. 2 * x = job.price + (m + j) /\ w.pos = job.price + m /\ target = job.price + n
      BY <1>3, <1>7, <2>3 DEF Coord, Point
    <3>2. 2 * x > w.pos /\ target > 2 * x
      BY <1>1, <1>2, <1>3, <1>4, <1>6, <2>1, <3>1
    <3>3. AheadOf(x, w.cur)
      <4>1. Beyond(x, w.pos)
        BY <2>3, <3>2 DEF Beyond, Coord
      <4> QED BY <4>1 DEF Stands
    <3>4. t # NoTick /\ t <= x
      BY <1>2, <2>3, <3>3, NextTickNearest
    <3>5. target = 2 * t /\ t \in Int
      BY <1>2, <3>4, NextTickFacts DEF Coord
    <3> QED BY <2>1, <3>2, <3>4, <3>5
  <2> QED BY <2>2, <2>3
<1>9. \A j \in 1..d : CellLiquidity(m + j) = w.l
  <2> DEFINE S == {j \in 0..(d - 1) : CellLiquidity(m + (j + 1)) = w.l}
  <2>0. PICK c \in Nat : c = d - 1
    BY <1>5
  <2>1. 0 \in S
    <3>1. m + (0 + 1) = m + 1 /\ 0 \in 0..(d - 1)
      BY <1>3, <1>5
    <3> QED BY <1>3, <3>1
  <2>2. ASSUME NEW j \in 1..c, j - 1 \in S PROVE j \in S
    <3>1. CellLiquidity(m + j) = w.l
      <4>1. (j - 1) + 1 = j
        OBVIOUS
      <4> QED BY <2>2, <4>1
    <3>2. PICK k \in Nat \ {0} : k = m + j /\ m + (j + 1) = k + 1
      <4>1. m + j \in Nat \ {0} /\ m + (j + 1) = (m + j) + 1
        BY <1>3
      <4> QED BY <4>1
    <3>3. NetAt(Point(k)) = 0
      BY <1>8, <2>0, <3>2
    <3>4. CellLiquidity(k + 1) = IF job.down THEN CellLiquidity(k) - NetAt(Point(k))
                                 ELSE CellLiquidity(k) + NetAt(Point(k))
      BY CellNext
    <3>5. CellLiquidity(k + 1) = w.l
      BY <1>2, <3>1, <3>2, <3>3, <3>4
    <3> QED BY <2>0, <3>2, <3>5
  <2>3. \A j \in 0..c : j \in S
    <3> HIDE DEF S
    <3> QED BY <2>1, <2>2, Induct
  <2> SUFFICES ASSUME NEW j \in 1..d PROVE CellLiquidity(m + j) = w.l
    OBVIOUS
  <2>4. j - 1 \in 0..c /\ (j - 1) + 1 = j
    BY <2>0
  <2>5. j - 1 \in S
    <3> HIDE DEF S
    <3> QED BY <2>3, <2>4
  <2> QED BY <2>4, <2>5
<1>10. PICK l \in Nat \ {0} : l = w.l
  BY <1>2
<1>11. Flows(m + d) /\ Taken(m + d) = Taken(m) + l * d
  BY <1>3, <1>9, <1>10, TakenRun
<1>12. CellLiquidity(n) = l
  <2>1. d \in 1..d
    BY <1>5
  <2> QED BY <1>6, <1>9, <1>10, <2>1
<1>13. Leap(m, n, l, target, w.pos)
  BY <1>5, <1>6, <1>7, <1>11, <1>12 DEF Leap
<1> QED BY <1>10, <1>13

\* Ticks that are not ahead any more.
Passed(cur) == {x \in DOMAIN job.ticks : ~AheadOf(x, cur)}

\* While the input lasts, the walk has taken what the cells behind it take, in
\* at most one turn per tick it passed.
Tracks(w) ==
    \/ \E m : /\ Stands(w, m) /\ w.spent = Taken(m) /\ w.spent <= job.amount
              /\ w.turns <= Cardinality(Passed(w.cur))
    \/ w.spent = job.amount /\ job.amount <= Capacity

TakesRight(w) == w.spent = IF job.amount < Capacity THEN job.amount ELSE Capacity

LEMMA CapacityFacts ==
    ASSUME job \in WalkJobs
    PROVE  Capacity = Taken(Cells) /\ Capacity \in Nat /\ Cells \in Nat /\ job.amount \in Nat
<1>1. Capacity = Taken(Cells)
  BY DEF Capacity, Taken, Cells
<1>2. Cells \in Nat /\ job.amount \in Nat
  BY CellsFacts, TickFacts
<1>3. Taken(Cells) \in Nat
  BY <1>2, TakenStep
<1> QED BY <1>1, <1>2, <1>3

LEMMA TrackBound ==
    ASSUME job \in WalkJobs, NEW m \in 0..Cells
    PROVE  Taken(m) \in Nat /\ Taken(m) <= Capacity
<1>1. Capacity = Taken(Cells) /\ Cells \in Nat
  BY CapacityFacts
<1>2. m \in Nat /\ m <= Cells
  BY <1>1
<1> QED BY <1>1, <1>2, TakenMore, TakenStep

\* The walk begins.
LEMMA TrackStarts ==
    ASSUME job \in WalkJobs, Fitting, NEW w, w.pos = job.price, w.cur = job.cur, w.l = job.liquidity,
           w.spent = 0, w.turns = 0
    PROVE  Tracks(w)
<1>1. /\ job.price \in Int /\ job.cur \in Int /\ \A t \in DOMAIN job.ticks : t \in Int
  BY TickFacts
<1>2. 0 \in 0..Cells /\ job.amount \in Nat /\ 0 + 1 = 1
  BY CapacityFacts
<1>3. Point(0) = job.price
  BY <1>1 DEF Point
<1>4. Flows(0)
  <2>1. \A i \in 1..0 : FALSE
    OBVIOUS
  <2> QED BY <2>1 DEF Flows
<1>5. CellLiquidity(0 + 1) = job.liquidity
  BY <1>2, CellFirst
<1>6. ASSUME NEW x \in DOMAIN job.ticks PROVE AheadOf(x, job.cur) <=> Beyond(x, job.price)
  <2>1. 2 * job.cur <= job.price /\ job.price <= 2 * job.cur + 1
    BY <1>1 DEF Fitting, InStep
  <2>2. job.down => x # job.cur
    BY DEF Fitting
  <2>3. x \in Int
    BY <1>1
  <2> QED BY <1>1, <2>1, <2>2, <2>3 DEF AheadOf, Beyond, Coord
<1>7. Stands(w, 0)
  BY <1>2, <1>3, <1>4, <1>5, <1>6 DEF Stands
<1>8. Cardinality(Passed(w.cur)) \in Nat
  <2>1. IsFiniteSet(DOMAIN job.ticks) /\ Passed(w.cur) \subseteq DOMAIN job.ticks
    BY TickFacts DEF Passed
  <2>2. IsFiniteSet(Passed(w.cur))
    BY <2>1, FS_Subset
  <2> QED BY <2>2, FS_CardinalityType
<1>9. w.spent = Taken(0) /\ w.spent <= job.amount /\ w.turns <= Cardinality(Passed(w.cur))
  BY <1>2, <1>8, TakenNone
<1> QED BY <1>7, <1>9 DEF Tracks

\* The walk stops.
LEMMA TrackStops ==
    ASSUME job \in WalkJobs, NEW w \in Walks, Tracks(w),
           NEW t, t = NextTick(w.cur), NEW target, target = IF t = NoTick THEN Bounds(job.down) ELSE Coord(t),
           \/ job.amount = w.spent \/ w.turns = MaxIter
           \/ (IF job.down THEN w.pos <= target ELSE w.pos >= target)
           \/ w.l <= 0
    PROVE  TakesRight(w)
<1>1. Capacity = Taken(Cells) /\ Capacity \in Nat /\ Cells \in Nat /\ job.amount \in Nat
  BY CapacityFacts
<1>2. w.pos \in Int /\ w.cur \in Int /\ w.l \in Int /\ w.spent \in Nat /\ w.turns \in Nat
  BY DEF Walks
<1>3. CASE w.spent = job.amount /\ job.amount <= Capacity
  BY <1>1, <1>3 DEF TakesRight
<1>4. ASSUME NEW m, Stands(w, m), w.spent = Taken(m), w.spent <= job.amount,
             w.turns <= Cardinality(Passed(w.cur))
      PROVE  TakesRight(w)
  <2>1. m \in 0..Cells /\ m \in Nat /\ m <= Cells
    BY <1>1, <1>4 DEF Stands
  <2>2. Taken(m) \in Nat /\ Taken(m) <= Capacity
    BY <2>1, TrackBound
  <2>3. w.turns # MaxIter
    <3>1. IsFiniteSet(DOMAIN job.ticks) /\ Passed(w.cur) \subseteq DOMAIN job.ticks
      BY TickFacts DEF Passed
    <3>2. Cardinality(Passed(w.cur)) <= Cardinality(DOMAIN job.ticks)
      BY <3>1, FS_Subset
    <3>3. Cardinality(Passed(w.cur)) \in Nat /\ Cardinality(DOMAIN job.ticks) \in Nat
      BY <3>1, FS_Subset, FS_CardinalityType
    <3> QED BY <1>2, <1>4, <3>2, <3>3 DEF MaxIter
  <2>4. CASE job.amount = w.spent
    BY <1>1, <1>4, <2>2, <2>4 DEF TakesRight
  <2>5. ASSUME Capacity = Taken(m) PROVE TakesRight(w)
    BY <1>1, <1>4, <2>5 DEF TakesRight
  <2>6. CASE w.l <= 0
    <3>1. ~Flows(m + 1)
      <4>1. m + 1 \in 1..(m + 1) /\ CellLiquidity(m + 1) = w.l
        BY <1>4, <2>1 DEF Stands
      <4> QED BY <1>2, <2>6, <4>1 DEF Flows
    <3>2. Taken(Cells) = Taken(m)
      BY <1>1, <2>1, <3>1, TakenMore
    <3> QED BY <1>1, <2>5, <3>2
  <2>7. CASE IF job.down THEN w.pos <= target ELSE w.pos >= target
    <3>1. t = NoTick
      <4> SUFFICES ASSUME t # NoTick PROVE FALSE
        OBVIOUS
      <4>1. t \in DOMAIN job.ticks /\ t \in Int /\ AheadOf(t, w.cur)
        BY <1>2, NextTickFacts DEF AheadOf
      <4>2. Beyond(t, w.pos) /\ target = Coord(t)
        BY <1>4, <4>1 DEF Stands
      <4> QED BY <1>2, <2>7, <4>1, <4>2 DEF Beyond, Coord
    <3>2. Reaches(w.pos, Bounds(job.down)) /\ Reaches(w.pos, w.pos)
      BY <1>2, <2>7, <3>1 DEF Reaches
    <3>3. w.pos = Point(m) /\ job.price \in Int /\ Point(Cells) = End
      BY <1>4, TickFacts, CellsFacts DEF Stands
    <3>5. Reaches(w.pos, End)
      BY <1>2, <1>4, <3>1, <3>2, EndReached
    <3>4. m = Cells
      BY <1>1, <2>1, <3>3, <3>5 DEF Point, Reaches
    <3> QED BY <1>1, <2>5, <3>4
  <2> QED BY <2>3, <2>4, <2>6, <2>7
<1> QED BY <1>3, <1>4 DEF Tracks

\* One tick more is passed.
LEMMA PassedGrows ==
    ASSUME job \in WalkJobs, NEW cur \in Int, NEW t \in DOMAIN job.ticks, AheadOf(t, cur)
    PROVE  /\ Cardinality(Passed(cur)) \in Nat /\ Cardinality(Passed(t)) \in Nat
           /\ Cardinality(Passed(cur)) + 1 <= Cardinality(Passed(t))
<1>1. IsFiniteSet(DOMAIN job.ticks) /\ \A x \in DOMAIN job.ticks : x \in Int
  BY TickFacts
<1>2. Passed(cur) \subseteq DOMAIN job.ticks /\ Passed(t) \subseteq DOMAIN job.ticks
  BY DEF Passed
<1>3. IsFiniteSet(Passed(cur)) /\ IsFiniteSet(Passed(t))
  BY <1>1, <1>2, FS_Subset
<1>4. t \notin Passed(cur)
  BY DEF Passed
<1>5. Passed(cur) \cup {t} \subseteq Passed(t)
  BY <1>1 DEF Passed, AheadOf
<1>6. Cardinality(Passed(cur) \cup {t}) = Cardinality(Passed(cur)) + 1
  BY <1>3, <1>4, FS_AddElement
<1>7. Cardinality(Passed(cur) \cup {t}) <= Cardinality(Passed(t))
  BY <1>3, <1>5, FS_Subset
<1>8. Cardinality(Passed(cur)) \in Nat /\ Cardinality(Passed(t)) \in Nat
  BY <1>3, FS_CardinalityType
<1> QED BY <1>6, <1>7, <1>8

\* A turn ends the input, or crosses a tick, or reaches the bound.
LEMMA TrackTurns ==
    ASSUME job \in WalkJobs, NEW w \in Walks, Tracks(w), w.spent < job.amount, w.l > 0,
           NEW t, t = NextTick(w.cur), NEW target, target = IF t = NoTick THEN Bounds(job.down) ELSE Coord(t),
           IF job.down THEN w.pos > target ELSE w.pos < target,
           NEW need, need = w.l * Distance(w.pos, target)
    PROVE  /\ job.amount - w.spent <= need => job.amount <= Capacity
           /\ ~(job.amount - w.spent <= need) =>
                IF t = NoTick THEN w.spent + need = Capacity /\ Capacity < job.amount
                ELSE \A w2 : /\ w2.spent = w.spent + need /\ w2.turns = w.turns + 1 /\ w2.pos = target
                             /\ w2.cur = t /\ w2.l = Crossed(w.l, t)
                             => Tracks(w2)
<1>1. Capacity = Taken(Cells) /\ Capacity \in Nat /\ Cells \in Nat /\ job.amount \in Nat
  BY CapacityFacts
<1>2. w.pos \in Int /\ w.cur \in Int /\ w.l \in Int /\ w.spent \in Nat /\ w.turns \in Nat
  BY DEF Walks
<1>3. PICK m : /\ Stands(w, m) /\ w.spent = Taken(m) /\ w.turns <= Cardinality(Passed(w.cur))
  BY <1>1, <1>2 DEF Tracks
<1>4. PICK n : Leap(m, n, w.l, target, w.pos)
  BY <1>3, TurnLeaps
<1>5. /\ n \in 0..Cells /\ Point(n) = target /\ Flows(n) /\ CellLiquidity(n) = w.l /\ n # 0
      /\ Taken(n) = w.spent + need
  BY <1>3, <1>4 DEF Leap
<1>6. Taken(n) \in Nat /\ Taken(n) <= Capacity
  BY <1>5, TrackBound
<1>7. need \in Int
  <2>1. target \in Int
    <3>1. t # NoTick => t \in Int
      BY <1>2, NextTickFacts
    <3>2. Bounds(job.down) \in Int
      BY CellsFacts
    <3> QED BY <3>1, <3>2 DEF Coord
  <2>2. Distance(w.pos, target) \in Int
    BY <1>2, <2>1 DEF Distance
  <2>3. PICK d \in Int : d = Distance(w.pos, target)
    BY <2>2
  <2>4. PICK l \in Int : l = w.l
    BY <1>2
  <2>5. l * d \in Int
    OBVIOUS
  <2> QED BY <2>3, <2>4, <2>5
<1>8. ASSUME job.amount - w.spent <= need PROVE job.amount <= Capacity
  BY <1>1, <1>2, <1>5, <1>6, <1>7, <1>8
<1>9. ASSUME ~(job.amount - w.spent <= need) PROVE w.spent + need < job.amount
  BY <1>1, <1>2, <1>7, <1>9
<1>10. ASSUME t = NoTick, ~(job.amount - w.spent <= need)
       PROVE  w.spent + need = Capacity /\ Capacity < job.amount
  <2>0. target = Bounds(job.down) /\ target \in Int /\ End \in Int /\ Point(Cells) = End
    BY <1>10, CellsFacts
  <2>3. Reaches(target, w.pos) /\ Reaches(target, target)
    BY <1>2, <2>0 DEF Reaches
  <2>4. Reaches(target, End)
    BY <1>3, <1>10, <2>0, <2>3, EndReached
  <2>5. Reaches(End, target)
    BY <2>0, EndFacts
  <2>6. target = End
    BY <2>0, <2>4, <2>5 DEF Reaches
  <2>1. Point(n) = Point(Cells) /\ job.price \in Int /\ n \in Int
    BY <1>5, <2>0, <2>6, TickFacts
  <2>2. n = Cells
    BY <1>1, <2>1 DEF Point
  <2> QED BY <1>1, <1>5, <1>9, <1>10, <2>2
<1>11. ASSUME t # NoTick, ~(job.amount - w.spent <= need),
              NEW w2, w2.spent = w.spent + need, w2.turns = w.turns + 1, w2.pos = target,
              w2.cur = t, w2.l = Crossed(w.l, t)
       PROVE  Tracks(w2)
  <2>1. t \in DOMAIN job.ticks /\ t \in Int /\ AheadOf(t, w.cur) /\ target = Coord(t)
    BY <1>2, <1>11, NextTickFacts DEF AheadOf
  <2>2. n \in Nat \ {0}
    BY <1>1, <1>5
  <2>3. CellLiquidity(n + 1) = w2.l
    <3>1. CellLiquidity(n + 1) = IF job.down THEN CellLiquidity(n) - NetAt(Point(n))
                                 ELSE CellLiquidity(n) + NetAt(Point(n))
      BY <2>2, CellNext
    <3>2. NetAt(Point(n)) = job.ticks[t]
      BY <1>5, <2>1, NetOfTick
    <3> QED BY <1>5, <1>11, <3>1, <3>2 DEF Crossed
  <2>4. \A x \in DOMAIN job.ticks : AheadOf(x, t) <=> Beyond(x, target)
    <3>1. \A x \in DOMAIN job.ticks : x \in Int
      BY TickFacts
    <3> QED BY <2>1, <3>1 DEF AheadOf, Beyond, Coord
  <2>8. \A x \in DOMAIN job.ticks : AheadOf(x, t) => AheadOf(x, job.cur)
    <3> SUFFICES ASSUME NEW x \in DOMAIN job.ticks, AheadOf(x, t) PROVE AheadOf(x, job.cur)
      OBVIOUS
    <3>1. x \in Int
      BY TickFacts
    <3>2. AheadOf(x, w.cur)
      BY <1>2, <2>1, <3>1 DEF AheadOf
    <3> QED BY <1>3, <3>2 DEF Stands
  <2>5. Stands(w2, n)
    BY <1>5, <1>11, <2>3, <2>4, <2>8 DEF Stands
  <2>6. w2.turns <= Cardinality(Passed(w2.cur))
    <3>1. /\ Cardinality(Passed(w.cur)) \in Nat /\ Cardinality(Passed(t)) \in Nat
          /\ Cardinality(Passed(w.cur)) + 1 <= Cardinality(Passed(t))
      BY <1>2, <2>1, PassedGrows
    <3> QED BY <1>2, <1>3, <1>11, <3>1
  <2>7. w2.spent = Taken(n) /\ w2.spent <= job.amount
    BY <1>1, <1>5, <1>6, <1>9, <1>11
  <2> QED BY <2>5, <2>6, <2>7 DEF Tracks
<1> QED BY <1>8, <1>10, <1>11

V3At(w) ==
    Fitting => /\ w.at = "start" => /\ w.pos = job.price /\ w.cur = job.cur /\ w.l = job.liquidity
                                    /\ w.spent = 0 /\ w.turns = 0
               /\ w.at = "loop" => Tracks(w)
               /\ w.at = "done" => TakesRight(w)

V3Inv == WalkInv /\ (walk.at # "idle" => V3At(walk))

LEMMA V3Rigid ==
    ASSUME UNCHANGED job, NEW w, V3At(w)
    PROVE  V3At(w)'
<1>1. Cells' = Cells /\ Capacity' = Capacity /\ (\A m : Taken(m)' = Taken(m)) /\ (\A m : Flows(m)' = Flows(m))
      /\ (\A m : CellLiquidity(m)' = CellLiquidity(m)) /\ (\A m : Point(m)' = Point(m))
      /\ \A c : Passed(c)' = Passed(c)
  BY DEF Cells, Capacity, Taken, Flows, CellLiquidity, Point, Passed, CellTakes, NetAt, Coord, Distance,
      Bounds, AheadOf, End, Ahead
<1>2. \A m : Stands(w, m)' = Stands(w, m)
  BY <1>1 DEF Stands, AheadOf, Beyond, Coord
<1>3. Fitting' = Fitting
  BY DEF Fitting, InStep
<1>4. Tracks(w) => Tracks(w)'
  BY <1>1, <1>2 DEF Tracks
<1>5. TakesRight(w) => TakesRight(w)'
  BY <1>1 DEF TakesRight
<1> QED BY <1>3, <1>4, <1>5 DEF V3At

\* Every step keeps it.
LEMMA V3Step ==
    ASSUME V3Inv, TickNext
    PROVE  V3At(walk')
<1>1. job \in WalkJobs /\ walk \in Walks /\ walk.at \in {"start", "loop"} /\ V3At(walk)
  BY DEF V3Inv, WalkInv, TickNext, StartWalk, StopWalk, WalkTurn
<1>2. job.amount \in Nat /\ Capacity \in Nat /\ job.liquidity \in Nat
  BY <1>1, CapacityFacts, TickFacts
<1> SUFFICES ASSUME Fitting
             PROVE  /\ walk'.at = "loop" => Tracks(walk')
                    /\ walk'.at = "done" => TakesRight(walk')
                    /\ walk'.at # "start"
  BY DEF V3At
<1>3. PICK w : w = walk /\ w \in Walks
  BY <1>1
<1>4. w.pos \in Int /\ w.cur \in Int /\ w.l \in Int /\ w.spent \in Nat /\ w.turns \in Nat
  BY <1>3 DEF Walks
<1>5. CASE StartWalk
  <2>1. w.pos = job.price /\ w.cur = job.cur /\ w.l = job.liquidity /\ w.spent = 0 /\ w.turns = 0
    BY <1>1, <1>3, <1>5 DEF V3At, StartWalk
  <2>2. CASE job.amount = 0
    <3>1. walk' = [w EXCEPT !.at = "done", !.spent = IF job.liquidity = 0 THEN 0 ELSE job.amount]
      BY <1>3, <1>5, <2>2 DEF StartWalk
    <3>2. walk'.at = "done" /\ walk'.spent = 0
      BY <1>3, <2>2, <3>1 DEF Walks
    <3> QED BY <1>2, <2>2, <3>2 DEF TakesRight
  <2>3. CASE job.amount # 0
    <3>1. walk' = [w EXCEPT !.at = "loop"]
      BY <1>3, <1>5, <2>3 DEF StartWalk, Fitting
    <3>2. /\ walk'.at = "loop" /\ walk'.pos = w.pos /\ walk'.cur = w.cur /\ walk'.l = w.l
          /\ walk'.spent = w.spent /\ walk'.turns = w.turns
      BY <1>3, <3>1 DEF Walks
    <3>3. PICK w2 : w2 = walk'
      OBVIOUS
    <3>4. Tracks(w2)
      BY <1>1, <2>1, <3>2, <3>3, TrackStarts
    <3> QED BY <3>2, <3>3, <3>4
  <2> QED BY <2>2, <2>3
<1>6. CASE StopWalk
  <2>1. Tracks(w)
    BY <1>1, <1>3, <1>6 DEF V3At, StopWalk
  <2>2. PICK t : t = NextTick(w.cur)
    OBVIOUS
  <2>3. PICK target : target = IF t = NoTick THEN Bounds(job.down) ELSE Coord(t)
    OBVIOUS
  <2>4. \/ job.amount = w.spent \/ w.turns = MaxIter
        \/ (IF job.down THEN w.pos <= target ELSE w.pos >= target)
        \/ w.l <= 0
    BY <1>3, <1>6, <2>2, <2>3 DEF StopWalk
  <2>5. TakesRight(w)
    BY <1>1, <2>1, <2>2, <2>3, <2>4, <1>3, TrackStops
  <2>6. walk' = [w EXCEPT !.at = "done"]
    BY <1>3, <1>6 DEF StopWalk
  <2>7. walk'.at = "done" /\ walk'.spent = w.spent
    BY <1>3, <2>6 DEF Walks
  <2> QED BY <2>5, <2>7 DEF TakesRight
<1>7. CASE WalkTurn
  <2>1. Tracks(w) /\ w.at = "loop" /\ w.spent < job.amount /\ w.l > 0
    BY <1>1, <1>3, <1>7 DEF V3At, WalkTurn
  <2>2. PICK t : t = NextTick(w.cur)
    OBVIOUS
  <2>3. PICK target : target = IF t = NoTick THEN Bounds(job.down) ELSE Coord(t)
    OBVIOUS
  <2>4. PICK need : need = w.l * Distance(w.pos, target)
    OBVIOUS
  <2>5. /\ IF job.down THEN w.pos > target ELSE w.pos < target
        /\ walk' = IF job.amount - w.spent <= need
                   THEN [w EXCEPT !.spent = job.amount, !.turns = w.turns + 1]
                   ELSE [w EXCEPT !.spent = w.spent + need, !.turns = w.turns + 1, !.pos = target,
                                  !.at  = IF t = NoTick THEN "done" ELSE w.at,
                                  !.cur = IF t = NoTick THEN w.cur ELSE t,
                                  !.l   = IF t = NoTick THEN w.l ELSE Crossed(w.l, t)]
    BY <1>3, <1>7, <2>2, <2>3, <2>4 DEF WalkTurn
  <2>6. /\ job.amount - w.spent <= need => job.amount <= Capacity
        /\ ~(job.amount - w.spent <= need) =>
             IF t = NoTick THEN w.spent + need = Capacity /\ Capacity < job.amount
             ELSE \A w2 : /\ w2.spent = w.spent + need /\ w2.turns = w.turns + 1 /\ w2.pos = target
                          /\ w2.cur = t /\ w2.l = Crossed(w.l, t)
                          => Tracks(w2)
    BY <1>1, <1>3, <2>1, <2>2, <2>3, <2>4, <2>5, TrackTurns
  <2>7. PICK w2 : w2 = walk'
    OBVIOUS
  <2>8. CASE job.amount - w.spent <= need
    <3>1. w2 = [w EXCEPT !.spent = job.amount, !.turns = w.turns + 1]
      BY <2>5, <2>7, <2>8
    <3>2. w2.at = "loop" /\ w2.spent = job.amount
      BY <1>3, <2>1, <3>1 DEF Walks
    <3> QED BY <2>6, <2>7, <2>8, <3>2 DEF Tracks
  <2>9. CASE ~(job.amount - w.spent <= need) /\ t = NoTick
    <3>1. w2 = [w EXCEPT !.spent = w.spent + need, !.turns = w.turns + 1, !.pos = target,
                         !.at = "done", !.cur = w.cur, !.l = w.l]
      BY <2>5, <2>7, <2>9
    <3>2. w2.at = "done" /\ w2.spent = w.spent + need
      BY <1>3, <3>1 DEF Walks
    <3>3. w2.spent = Capacity /\ Capacity < job.amount
      BY <2>6, <2>9, <3>2
    <3> QED BY <1>2, <2>7, <3>2, <3>3 DEF TakesRight
  <2>10. CASE ~(job.amount - w.spent <= need) /\ t # NoTick
    <3>1. w2 = [w EXCEPT !.spent = w.spent + need, !.turns = w.turns + 1, !.pos = target,
                         !.at = w.at, !.cur = t, !.l = Crossed(w.l, t)]
      BY <2>5, <2>7, <2>10
    <3>2. /\ w2.at = "loop" /\ w2.spent = w.spent + need /\ w2.turns = w.turns + 1 /\ w2.pos = target
          /\ w2.cur = t /\ w2.l = Crossed(w.l, t)
      BY <1>3, <2>1, <3>1 DEF Walks
    <3>3. Tracks(w2)
      BY <2>6, <2>10, <3>2
    <3> QED BY <2>7, <3>2, <3>3
  <2> QED BY <2>8, <2>9, <2>10
<1> QED BY <1>5, <1>6, <1>7 DEF TickNext

\* For any bounds, ticks, liquidity and amounts: on tick data in step with the
\* price, simulate_swap_tick_aware_detailed takes the input the V3 rule takes,
\* cell by cell up to the farthest of the ticks ahead and the bound the code
\* gives the pool, unless a swap down starts in an initialised tick; the bound
\* on its turns is never what ends it.
THEOREM WalkFollowsV3 == Spec => []TickWalkIsV3
<1>1. Init => V3Inv
  <2>1. CASE TickIdle
    BY <2>1 DEF TickIdle, V3Inv, WalkInv
  <2>2. CASE TickInit
    <3>1. job \in WalkJobs
      BY <2>2 DEF TickInit, WalkJobs
    <3>2. job.price \in Int /\ job.cur \in Int /\ job.liquidity \in Nat
      BY <3>1, TickFacts
    <3>3. WalkInv
      BY <2>2, <3>1, <3>2 DEF TickInit, WalkInv, Walks
    <3>4. V3At(walk)
      BY <2>2 DEF TickInit, V3At
    <3> QED BY <3>3, <3>4 DEF V3Inv
  <2> QED BY <2>1, <2>2 DEF Init
<1>2. V3Inv /\ [Next]_vars => V3Inv'
  <2> SUFFICES ASSUME V3Inv, [Next]_vars PROVE V3Inv'
    OBVIOUS
  <2>1. WalkInv'
    BY WalkInductive DEF V3Inv
  <2>2. PICK w : w = walk'
    OBVIOUS
  <2>3. CASE TickNext
    <3>1. V3At(w) /\ UNCHANGED job
      BY <2>2, <2>3, V3Step DEF TickNext, StartWalk, StopWalk, WalkTurn
    <3>2. V3At(w)'
      BY <3>1, V3Rigid
    <3> QED BY <2>1, <2>2, <3>2 DEF V3Inv
  <2>4. CASE UNCHANGED tickVars
    <3>1. UNCHANGED <<job, walk>>
      BY <2>4 DEF tickVars
    <3>2. walk.at # "idle" => V3At(w)
      BY <2>2, <3>1 DEF V3Inv
    <3>3. walk.at # "idle" => V3At(w)'
      BY <3>1, <3>2, V3Rigid
    <3> QED BY <2>1, <2>2, <3>1, <3>3 DEF V3Inv
  <2> QED BY <2>3, <2>4 DEF Next, vars
<1>3. V3Inv => TickWalkIsV3
  BY DEF V3Inv, V3At, TickWalkIsV3, Fitting, TakesRight
<1> QED BY <1>1, <1>2, <1>3, PTL DEF Spec

=============================================================================
