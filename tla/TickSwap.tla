------------------------------- MODULE TickSwap -------------------------------
(***************************************************************************)
(* simulate_swap_tick_aware_detailed (src/src/router.rs): a swap that      *)
(* walks from initialised tick to initialised tick.                        *)
(*                                                                         *)
(* Prices are a grid: tick t lies at 2 * t, an odd coordinate lies inside  *)
(* a tick.  With liquidity l, moving the price from u to v takes            *)
(* l * |u - v| of the input; the grid is equidistant in sqrtP for a swap   *)
(* up and in 1 / sqrtP for a swap down, where the code's delta_needed is   *)
(* exactly that product.                                                   *)
(*                                                                         *)
(* Where no tick is left, the target is a price bound: the X64 constants   *)
(* over 2^64.  For a Turbos pool the code divides the same constants by    *)
(* 2^96, which puts the upper bound just below price 1, inside the range,  *)
(* and the lower one far below it.                                         *)
(***************************************************************************)
EXTENDS Integers, FiniteSets, FiniteSetsExt, Loops

CONSTANTS
    TickMin, TickMax,   \* MIN_SQRT_PRICE_X64 and MAX_SQRT_PRICE_X64 over 2^64, in ticks
    TurbosMin, TurbosMax,   \* the same constants over 2^96, on the grid
    Nets,               \* liquidity_net of an initialised tick
    Liquidities,        \* liquidity of the pool
    SwapAmounts,        \* input of the hop, net of the fee
    NoTick

ASSUME WalkAssumption ==
    /\ TickMin \in Int /\ TickMax \in Int /\ TurbosMin \in Int /\ TurbosMax \in Int /\ NoTick \notin Int
    /\ Liquidities \subseteq Nat /\ SwapAmounts \subseteq Nat /\ Nets \subseteq Int

VARIABLES
    job,    \* what is simulated: pool state, tick data, direction and amount
    walk    \* the loop's local variables

tickVars == <<job, walk>>

Coord(t) == 2 * t

\* MIN_SQRT_PRICE_X64 / scale and MAX_SQRT_PRICE_X64 / scale
Bounds(down) ==
    IF job.turbos THEN (IF down THEN TurbosMin ELSE TurbosMax)
    ELSE (IF down THEN Coord(TickMin) ELSE Coord(TickMax))

Distance(u, v) == IF u < v THEN v - u ELSE u - v

-----------------------------------------------------------------------------
\* Mutant: going down, the current tick itself is a candidate.
NextTick_Inclusive(cur) ==
    LET S == {t \in DOMAIN job.ticks : IF job.down THEN t <= cur ELSE t > cur}
    IN IF S = {} THEN NoTick ELSE IF job.down THEN Max(S) ELSE Min(S)

\* pick_next_tick
NextTick(cur) ==
    LET S == {t \in DOMAIN job.ticks : IF job.down THEN t < cur ELSE t > cur}
    IN IF S = {} THEN NoTick ELSE IF job.down THEN Max(S) ELSE Min(S)

MaxIter == Cardinality(DOMAIN job.ticks) + 2

\* A swap over tick data; without ticks, or with nothing to swap, the code
\* falls back to the within-tick formula, which takes the whole input.
StartWalk ==
    /\ walk.at = "start"
    /\ walk' = IF DOMAIN job.ticks = {} \/ job.amount = 0
               THEN [walk EXCEPT !.at = "done", !.spent = IF job.liquidity = 0 THEN 0 ELSE job.amount]
               ELSE [walk EXCEPT !.at = "loop"]
    /\ UNCHANGED job

\* Nothing is left, the turns are used up, the price is already at or past the
\* target, or there is no liquidity.
StopWalk ==
    /\ walk.at = "loop"
    /\ LET t == NextTick(walk.cur)
           target == IF t = NoTick THEN Bounds(job.down) ELSE Coord(t)
       IN \/ job.amount = walk.spent
          \/ walk.turns = MaxIter
          \/ (IF job.down THEN walk.pos <= target ELSE walk.pos >= target)
          \/ walk.l <= 0
    /\ walk' = [walk EXCEPT !.at = "done"]
    /\ UNCHANGED job

\* Mutant: going down adds the tick's liquidity as going up does.
Crossed_SameSign(l, t) == l + job.ticks[t]

\* Liquidity after tick t is crossed.
Crossed(l, t) == IF job.down THEN l - job.ticks[t] ELSE l + job.ticks[t]

\* One turn: the rest of the input ends before the next tick, or the tick is
\* crossed with its liquidity, or the price bound is reached.
WalkTurn ==
    /\ walk.at = "loop"
    /\ walk.spent < job.amount /\ walk.turns < MaxIter /\ walk.l > 0
    /\ LET t      == NextTick(walk.cur)
           target == IF t = NoTick THEN Bounds(job.down) ELSE Coord(t)
           need   == walk.l * Distance(walk.pos, target)
           rest   == job.amount - walk.spent
       IN /\ IF job.down THEN walk.pos > target ELSE walk.pos < target
          /\ walk' =
               IF rest <= need
               THEN [walk EXCEPT !.spent = job.amount, !.turns = @ + 1]
               ELSE [walk EXCEPT !.spent = @ + need, !.turns = @ + 1, !.pos = target,
                                 !.at  = IF t = NoTick THEN "done" ELSE @,
                                 !.cur = IF t = NoTick THEN @ ELSE t,
                                 !.l   = IF t = NoTick THEN @ ELSE Crossed(@, t)]
    /\ UNCHANGED job

-----------------------------------------------------------------------------
\* The pool state and the tick data come from different keys, refreshed at
\* different times: the current tick may be out of step with the price.
TickInit ==
    /\ job \in [turbos : BOOLEAN, down : BOOLEAN, price : Coord(TickMin)..Coord(TickMax),
                cur : TickMin..TickMax, liquidity : Liquidities, amount : SwapAmounts,
                ticks : UNION {[S -> Nets] : S \in SUBSET ((TickMin + 1)..(TickMax - 1))}]
    /\ walk = [at |-> "start", pos |-> job.price, cur |-> job.cur, l |-> job.liquidity,
               spent |-> 0, turns |-> 0]

TickNext == StartWalk \/ StopWalk \/ WalkTurn

-----------------------------------------------------------------------------
\* Reference: the V3 rule, cell by cell of the price grid.

\* The tick data describe the price they are used with.
InStep == job.cur = job.price \div 2

\* What crossing the point c of the grid adds going up.
NetAt(c) == IF \E t \in DOMAIN job.ticks : Coord(t) = c THEN job.ticks[c \div 2] ELSE 0

\* Liquidity of the k-th cell the price enters: every initialised tick passed
\* on the way, the one the price stands on included when it goes down.
CellLiquidity(k) ==
    IF job.down THEN job.liquidity - Total([i \in 1..k |-> NetAt(job.price - (i - 1))])
    ELSE job.liquidity + Total([i \in 1..(k - 1) |-> NetAt(job.price + i)])

\* What the k-th cell takes: nothing, once a cell was without liquidity.
CellTakes(k) == IF \A i \in 1..k : CellLiquidity(i) > 0 THEN CellLiquidity(k) ELSE 0

\* The initialised ticks ahead of the current one, on the grid.
Ahead == {Coord(t) : t \in {t \in DOMAIN job.ticks : IF job.down THEN t < job.cur ELSE t > job.cur}}

\* How far the price can go: every tick ahead and the price bound.  For an X64
\* pool that is the price bound, for a Turbos pool above price 1 it is the last
\* tick ahead or, where there is none, the price itself.
End ==
    LET points == Ahead \cup {job.price, Bounds(job.down)}
    IN IF job.down THEN Min(points) ELSE Max(points)

\* The price cannot move: it is at the bound, or it is a Turbos pool's at or past
\* the bound that the code gives it, with no tick ahead.
Blocked ==
    \/ ~job.turbos /\ job.price = Bounds(job.down)
    \/ /\ job.turbos /\ NextTick(job.cur) = NoTick
       /\ IF job.down THEN job.price <= Bounds(TRUE) ELSE job.price >= Bounds(FALSE)

\* Input the pool takes before a cell without liquidity or the end.
Capacity == Total([k \in 1..Distance(job.price, End) |-> CellTakes(k)])

-----------------------------------------------------------------------------
\* Properties

\* On tick data in step with the price, the walk takes exactly the input the
\* V3 rule takes up to the end: it skips no initialised tick, crosses none
\* twice, and its bound on the number of turns never cuts it short.  One
\* exception is a swap down that starts in an initialised tick, which
\* pick_next_tick passes over; the other is in the end itself, which lies short
\* of the price range for a Turbos pool that goes up.
TickWalkIsV3 ==
    (walk.at = "done" /\ InStep /\ DOMAIN job.ticks # {}
       /\ ~(job.down /\ job.cur \in DOMAIN job.ticks)) =>
        walk.spent = IF job.amount < Capacity THEN job.amount ELSE Capacity

\* A swap with input and liquidity takes nothing only where the tick data are
\* out of step with the price or the price is blocked: an X64 pool's at the price
\* bound, a Turbos pool's, going up, anywhere above price 1 with no tick ahead.
\* Any other consistent snapshot never yields the zero output of an early break.
StuckOnlyWhenStale ==
    (walk.at = "done" /\ walk.spent = 0 /\ job.amount > 0 /\ job.liquidity > 0) =>
        ~InStep \/ Blocked

=============================================================================
