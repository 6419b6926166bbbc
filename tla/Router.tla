-------------------------------- MODULE Router --------------------------------
(***************************************************************************)
(* Smart order routing (src/src/router.rs): the token graph, the searches  *)
(* of find_best_route (Dijkstra below the amount threshold, hop-limited    *)
(* DFS above it), Bellman-Ford, and optimize_order_split.                  *)
(*                                                                         *)
(* A hop is simulated with the constant-product formula of                 *)
(* simulate_hop_within_tick_detailed in exact rational arithmetic <<n, d>>; *)
(* a pool carries its two virtual reserves, x = L / sqrtP of its coin a    *)
(* and y = L * sqrtP of its coin b.  The allocation search on marginal     *)
(* prices is floating point: its result is any vector of weights, and the  *)
(* parts it is turned into are off by any error of the f64 arithmetic.     *)
(***************************************************************************)
EXTENDS Integers, Sequences, FiniteSets, SequencesExt, Loops

CONSTANTS
    Catalogs,   \* pool lists a request may meet: sequences of pool records
    Queries,    \* requests: [algo, from, to, amount]
    GasCosts,   \* gas of one hop in units of the target token
    Threshold,  \* RouteConfig.small_amount_threshold
    MaxHops,    \* RouteConfig.max_hops
    SplitHops,  \* longest route optimize_order_split keeps
    HopCost,    \* Dijkstra's charge per hop
    FeeScale,   \* denominator of fee_rate
    MaxWeight,  \* bound on the allocation weights
    Exact,      \* amounts up to which the f64 errors of a split add up to less than one unit
    MaxError    \* bound on the f64 error of one part of a larger amount

\* A pool list has one entry per pool id, the primary key of the catalog; fees
\* are fractions of FeeScale.
ASSUME RouterAssumption ==
    /\ Threshold \in Nat /\ MaxHops \in Nat /\ SplitHops \in Nat /\ MaxWeight \in Nat
    /\ Exact \in Nat /\ MaxError \in Nat /\ HopCost \in Nat \ {0} /\ FeeScale \in Nat \ {0} /\ GasCosts \subseteq Nat
    /\ \A q \in Queries : q.amount \in Nat
    /\ \A ps \in Catalogs :
         /\ ps \in Seq(ToSet(ps))
         /\ \A i \in DOMAIN ps : /\ ps[i].fee \in 0..FeeScale /\ ps[i].paused \in BOOLEAN
                                 /\ ps[i].x \in Nat /\ ps[i].y \in Nat
         /\ \A i, j \in DOMAIN ps : ps[i].id = ps[j].id => i = j

VARIABLES
    pools,      \* the compiled pool list of the request
    query,      \* the request
    gas,        \* gas cost per hop of this request
    pc,         \* step of the request
    search,     \* the running search's local state
    routes,     \* routes found
    active,     \* active_routes of optimize_order_split
    best,       \* best_splits
    bestNet,    \* best_net_out
    answer      \* the request's answer: status, and splits or path

routerVars == <<pools, query, gas, pc, search, routes, active, best, bestNet, answer>>

-----------------------------------------------------------------------------
\* Graph

\* A swap through pool p that enters with token t.
Hop(p, t, u) == [pool |-> p.id, from |-> t, to |-> u, fee |-> p.fee]

\* What build_from_pools adds to adjacency_list[t] for pool p: both directions
\* of a pool that is not paused.
HopsFrom(p, t) ==
    IF p.paused THEN <<>>
    ELSE (IF p.a = t THEN <<Hop(p, t, p.b)>> ELSE <<>>) \o (IF p.b = t THEN <<Hop(p, t, p.a)>> ELSE <<>>)

\* adjacency_list[t], in the order of the list.
Edges(ps, t) == Fold(LAMBDA adj, p : adj \o HopsFrom(p, t), <<>>, ps)

TokensOf(ps) == UNION {{ps[i].a, ps[i].b} : i \in {j \in DOMAIN ps : ~ps[j].paused}}

\* One step of the walk from a token back along the parent links; a token met
\* twice ends it.
StepBack(parent, w) ==
    IF w.at \in DOMAIN parent /\ w.at \notin w.seen
    THEN [at   |-> parent[w.at].from,
          seen |-> w.seen \cup {w.at},
          hops |-> <<parent[w.at]>> \o w.hops]
    ELSE w

\* The hops from the source to t: at most one per link.
PathTo(parent, t) ==
    Fold(LAMBDA w, i : StepBack(parent, w), [at |-> t, seen |-> {}, hops |-> <<>>],
         [i \in 1..(Cardinality(DOMAIN parent) + 1) |-> i]).hops

-----------------------------------------------------------------------------
\* find_shortest_path_dijkstra

\* HashMap::insert
Put(map, key, value) == [k \in DOMAIN map \cup {key} |-> IF k = key THEN value ELSE map[k]]

\* Mutant: a token keeps the first distance it was given.
RelaxEdge_FirstWins(s, cost, e) ==
    IF e.to \in DOMAIN s.dist THEN s
    ELSE [dist   |-> Put(s.dist, e.to, cost + e.fee + HopCost),
          parent |-> Put(s.parent, e.to, e),
          heap   |-> s.heap \cup {[token |-> e.to, cost |-> cost + e.fee + HopCost]}]

RelaxEdge(s, cost, e) ==
    LET next == cost + e.fee + HopCost
    IN IF e.to \in DOMAIN s.dist /\ next >= s.dist[e.to] THEN s
       ELSE [dist   |-> Put(s.dist, e.to, next),
             parent |-> Put(s.parent, e.to, e),
             heap   |-> s.heap \cup {[token |-> e.to, cost |-> next]}]

StartDijkstra ==
    /\ pc = "start" /\ query.algo = "best" /\ query.amount <= Threshold
    /\ search' = [dist   |-> [t \in {query.from} |-> 0],
                  parent |-> <<>>,
                  heap   |-> {[token |-> query.from, cost |-> 0]}]
    /\ pc' = "dijkstra"
    /\ UNCHANGED <<pools, query, gas, routes, active, best, bestNet, answer>>

\* One turn of the loop: pop a cheapest node (ties in any order), stop at the
\* target, skip a stale entry, relax the token's edges otherwise.
DijkstraPop ==
    /\ pc = "dijkstra"
    /\ \E n \in search.heap :
         /\ \A m \in search.heap : n.cost <= m.cost
         /\ LET rest == [search EXCEPT !.heap = @ \ {n}]
            IN \/ /\ n.token = query.to
                  /\ routes' = <<PathTo(search.parent, query.to)>>
                  /\ pc' = "found"
                  /\ search' = <<>>
               \/ /\ n.token # query.to
                  /\ search' = IF n.cost > search.dist[n.token] THEN rest
                               ELSE Fold(LAMBDA s, e : RelaxEdge(s, n.cost, e),
                                             rest, Edges(pools, n.token))
                  /\ UNCHANGED <<pc, routes>>
    /\ UNCHANGED <<pools, query, gas, active, best, bestNet, answer>>

DijkstraExhausted ==
    /\ pc = "dijkstra" /\ search.heap = {}
    /\ pc' = "found" /\ search' = <<>>
    /\ UNCHANGED <<pools, query, gas, routes, active, best, bestNet, answer>>

-----------------------------------------------------------------------------
\* find_all_paths_dfs: a frame per active call of dfs_helper, with the index
\* of its next edge; the call's own hop is the last of path.

StartDfs ==
    /\ pc = "start" /\ query.algo = "best" /\ query.amount > Threshold
    /\ IF query.from = query.to \/ MaxHops = 0
       THEN pc' = "found" /\ search' = <<>>
       ELSE /\ pc' = "dfs"
            /\ search' = [frames  |-> <<[token |-> query.from, edge |-> 1]>>,
                          path    |-> <<>>,
                          visited |-> {query.from}]
    /\ UNCHANGED <<pools, query, gas, routes, active, best, bestNet, answer>>

\* The call looks at its next edge: into a visited token it goes no further,
\* at the target the path is recorded, at the hop limit it returns, and
\* otherwise it recurses.
DfsEdge ==
    /\ pc = "dfs" /\ search.frames # <<>>
    /\ LET top == Last(search.frames)
           es  == Edges(pools, top.token)
       IN /\ top.edge <= Len(es)
          /\ LET e    == es[top.edge]
                 path == Append(search.path, e)
                 next == [search EXCEPT !.frames[Len(search.frames)].edge = @ + 1]
             IN IF e.to \notin search.visited /\ e.to = query.to
                THEN routes' = Append(routes, path) /\ search' = next
                ELSE /\ search' =
                          IF e.to \in search.visited \/ Len(path) >= MaxHops THEN next
                          ELSE [frames  |-> Append(next.frames, [token |-> e.to, edge |-> 1]),
                                path    |-> path,
                                visited |-> search.visited \cup {e.to}]
                     /\ UNCHANGED routes
    /\ UNCHANGED <<pools, query, gas, pc, active, best, bestNet, answer>>

\* Mutant: the token stays visited when the call returns.
DfsReturn_KeepsVisited ==
    /\ pc = "dfs" /\ search.frames # <<>>
    /\ Last(search.frames).edge > Len(Edges(pools, Last(search.frames).token))
    /\ search' = [frames  |-> Front(search.frames),
                  path    |-> IF search.path = <<>> THEN <<>> ELSE Front(search.path),
                  visited |-> search.visited]
    /\ pc' = IF Len(search.frames) = 1 THEN "found" ELSE pc
    /\ UNCHANGED <<pools, query, gas, routes, active, best, bestNet, answer>>

\* The call's edges are exhausted: it forgets its token and returns, and the
\* caller pops the hop.
DfsReturn ==
    /\ pc = "dfs" /\ search.frames # <<>>
    /\ Last(search.frames).edge > Len(Edges(pools, Last(search.frames).token))
    /\ search' = [frames  |-> Front(search.frames),
                  path    |-> IF search.path = <<>> THEN <<>> ELSE Front(search.path),
                  visited |-> search.visited \ {Last(search.frames).token}]
    /\ pc' = IF Len(search.frames) = 1 THEN "found" ELSE pc
    /\ UNCHANGED <<pools, query, gas, routes, active, best, bestNet, answer>>

-----------------------------------------------------------------------------
\* find_shortest_path_bellman_ford: weights are the fees alone; the tokens are
\* visited in the hash set's order, the same in every round.

BellmanRelax(s, d, e) ==
    IF e.to \in DOMAIN s.dist /\ d + e.fee >= s.dist[e.to] THEN s
    ELSE [s EXCEPT !.dist = Put(@, e.to, d + e.fee),
                   !.parent = Put(@, e.to, e),
                   !.relaxed = TRUE]

\* All edges of u are relaxed with the distance u had when its turn came.
BellmanVisit(s, u) ==
    IF u \notin DOMAIN s.dist THEN s
    ELSE Fold(LAMBDA t, e : BellmanRelax(t, s.dist[u], e), s, Edges(pools, u))

StartBellman ==
    /\ pc = "start" /\ query.algo = "bellman_ford"
    /\ \E order \in SetToSeqs(TokensOf(pools)) :
         search' = [dist |-> [t \in {query.from} |-> 0], parent |-> <<>>, relaxed |-> FALSE,
                    order |-> order, round |-> 0]
    /\ pc' = "bellman"
    /\ UNCHANGED <<pools, query, gas, routes, active, best, bestNet, answer>>

\* Mutant: one round too few.
BellmanRounds_Short == Cardinality(TokensOf(pools)) - 2

BellmanRounds == Cardinality(TokensOf(pools)) - 1

\* One of the V - 1 rounds; a round that relaxes nothing is the last.
BellmanRound ==
    /\ pc = "bellman" /\ search.round < BellmanRounds
    /\ LET s == Fold(BellmanVisit, [search EXCEPT !.relaxed = FALSE], search.order)
       IN search' = [s EXCEPT !.round = IF s.relaxed THEN @ + 1 ELSE BellmanRounds]
    /\ UNCHANGED <<pools, query, gas, pc, routes, active, best, bestNet, answer>>

\* An edge that would still improve a distance counts as a negative cycle.
NegativeCycle(s) ==
    \E u \in TokensOf(pools) \cap DOMAIN s.dist : \E e \in ToSet(Edges(pools, u)) :
        e.to \notin DOMAIN s.dist \/ s.dist[u] + e.fee < s.dist[e.to]

BellmanEnd ==
    /\ pc = "bellman" /\ search.round >= BellmanRounds
    /\ answer' = [status |-> "path",
                  path  |-> IF query.to \in DOMAIN search.dist
                            THEN <<PathTo(search.parent, query.to)>> ELSE <<>>,
                  cycle |-> NegativeCycle(search)]
    /\ pc' = "done" /\ search' = <<>>
    /\ UNCHANGED <<pools, query, gas, routes, active, best, bestNet>>

-----------------------------------------------------------------------------
\* Simulation of a route

PoolOf(h) == LET i == CHOOSE i \in DOMAIN pools : pools[i].id = h.pool IN pools[i]

\* dy = y * dx / (x + dx) on the input net of the fee; nothing comes out of a
\* pool without liquidity.
SwapOut(amt, h) ==
    LET p   == PoolOf(h)
        in  == IF h.from = p.a THEN p.x ELSE p.y
        out == IF h.from = p.a THEN p.y ELSE p.x
        net == amt[1] * (FeeScale - p.fee)
    IN IF net = 0 \/ in = 0 THEN <<0, 1>>
       ELSE <<out * net, in * amt[2] * FeeScale + net>>

\* Output of a route for the input amt, rounded down to a u128.
RouteOut(r, amt) == LET o == Fold(SwapOut, amt, r) IN o[1] \div o[2]

-----------------------------------------------------------------------------
\* optimize_order_split

SumIn(splits) == Total([i \in DOMAIN splits |-> splits[i].in])

Split(r, in, out) == [route |-> r, in |-> in, out |-> out]

\* Mutant: what the rounding left over is given to no route.
GiveRemainder_Dropped(splits) == splits

\* A sum of allocations short of the input is made up by the last of the
\* largest ones; a sum above it stays as it is.
GiveRemainder(splits) ==
    LET diff == query.amount - SumIn(splits)
        big  == SelectLastInSeq(splits, LAMBDA s : \A i \in DOMAIN splits : splits[i].in <= s.in)
    IN IF diff <= 0 \/ splits = <<>> THEN splits
       ELSE LET s == splits[big]
            IN [splits EXCEPT ![big] = Split(s.route, s.in + diff, RouteOut(s.route, <<s.in + diff, 1>>))]

\* How far amount_in as f64, the scale and the product may move one part.  Up to
\* Exact the parts never add up to more than the amount: then a part above its
\* share only stands for other weights.
Errors == IF query.amount <= Exact THEN (-MaxError)..0 ELSE (-MaxError)..MaxError

\* alloc_f of every route, in units of 1 / Total(w): its share by weight, off by e.
Shares(w, e) ==
    [i \in DOMAIN w |->
        LET share == w[i] * query.amount + e[i] * Total(w)
        IN IF w[i] = 0 \/ share < 0 THEN 0 ELSE share]

\* optimize_order_split_gross with allocations in proportion to w, off by e.
GrossSplit(rs, w, e) ==
    LET total == Total(w)
        share == Shares(w, e)
        alloc == [i \in DOMAIN rs |->
                    Split(rs[i], share[i] \div total, RouteOut(rs[i], <<share[i], total>>))]
    IN IF Len(rs) = 1 \/ total = 0
       THEN <<Split(rs[1], query.amount, RouteOut(rs[1], <<query.amount, 1>>))>>
       ELSE GiveRemainder(Filter(alloc, {s \in ToSet(alloc) : s.in > 0}))

\* calculate_route_gas_cost_in_target_token, subtracted from the output.
NetOut(s) == s.out - Len(s.route) * gas

\* Mutant: a route that loses money is judged like any other.
Unprofitable_Never(splits) == 0

\* Index of the first split that does not pay for its gas, 0 if all do.
Unprofitable(splits) == SelectInSeq(splits, LAMBDA s : NetOut(s) <= 0)

\* Index of the first split with the smallest contribution.
Weakest(splits) ==
    SelectInSeq(splits, LAMBDA s : \A i \in DOMAIN splits : NetOut(s) <= NetOut(splits[i]))

\* Mutant: the route is put off to the end of the list.
Without_PutOff(rs, r) ==
    Append(RemoveFirstMatch(rs, LAMBDA q : Head(q).pool = Head(r).pool), r)

\* The first route that starts with r's first pool leaves the list.
Without(rs, r) ==
    RemoveFirstMatch(rs, LAMBDA q : Head(q).pool = Head(r).pool)

\* The routes that are short enough to be split over.
Kept == Filter(routes, {r \in ToSet(routes) : Len(r) <= SplitHops})

\* The loop ends: the best split seen, or the whole amount on the best single
\* route when no split paid for itself.
Finish(b) ==
    /\ pc' = "done"
    /\ answer' =
         LET out(r) == RouteOut(r, <<query.amount, 1>>)
             i == SelectInSeq(Kept, LAMBDA r : \A j \in DOMAIN Kept : out(Kept[j]) <= out(r))
         IN [status |-> "split",
             splits |-> IF b # <<>> THEN b
                        ELSE <<Split(Kept[i], query.amount, out(Kept[i]))>>]

\* No route, or none of at most SplitHops hops, or nothing to swap.
StartSplit ==
    /\ pc = "found"
    /\ \/ /\ routes = <<>>
          /\ pc' = "done" /\ answer' = [status |-> "no_route"] /\ UNCHANGED active
       \/ /\ routes # <<>> /\ (Kept = <<>> \/ query.amount = 0)
          /\ pc' = "done" /\ answer' = [status |-> "no_split"] /\ UNCHANGED active
       \/ /\ Kept # <<>> /\ query.amount > 0
          /\ pc' = "split" /\ active' = Kept /\ UNCHANGED answer
    /\ UNCHANGED <<pools, query, gas, search, routes, best, bestNet>>

\* One turn of the loop, for allocations in proportion to w.
SplitRound(w) ==
    /\ pc = "split"
    /\ \E splits \in {GrossSplit(active, w, e) : e \in [DOMAIN active -> Errors]} :
       LET bad     == Unprofitable(splits)
           net     == Total([i \in DOMAIN splits |-> NetOut(splits[i])])
           rest(i) == Without(active, splits[i].route)
       IN \/ /\ splits = <<>>
             /\ Finish(best) /\ UNCHANGED <<active, best, bestNet>>
          \/ /\ splits # <<>> /\ bad # 0
             /\ active' = rest(bad)
             /\ IF active' = <<>> THEN Finish(best) ELSE UNCHANGED <<pc, answer>>
             /\ UNCHANGED <<best, bestNet>>
          \/ /\ splits # <<>> /\ bad = 0 /\ net > bestNet
             /\ best' = splits /\ bestNet' = net
             /\ IF Len(active) > 1
                THEN active' = rest(Weakest(splits)) /\ UNCHANGED <<pc, answer>>
                ELSE Finish(splits) /\ UNCHANGED active
          \/ /\ splits # <<>> /\ bad = 0 /\ net <= bestNet
             /\ Finish(best) /\ UNCHANGED <<active, best, bestNet>>
    /\ UNCHANGED <<pools, query, gas, search, routes>>

-----------------------------------------------------------------------------
RouterInit ==
    /\ pools \in Catalogs
    /\ query \in Queries
    /\ gas \in GasCosts
    /\ pc = "start"
    /\ search = <<>> /\ routes = <<>> /\ active = <<>>
    /\ best = <<>> /\ bestNet = -1
    /\ answer = [status |-> "none"]

RouterNext ==
    \/ StartDijkstra \/ DijkstraPop \/ DijkstraExhausted
    \/ StartDfs \/ DfsEdge \/ DfsReturn
    \/ StartBellman \/ BellmanRound \/ BellmanEnd
    \/ StartSplit
    \/ \E w \in [DOMAIN active -> 0..MaxWeight] : SplitRound(w)

-----------------------------------------------------------------------------
\* Reference definitions

\* The hops the pools allow, from the pools themselves (not from the adjacency
\* lists).
AllHops ==
    UNION {{Hop(pools[i], pools[i].a, pools[i].b), Hop(pools[i], pools[i].b, pools[i].a)} :
             i \in {j \in DOMAIN pools : ~pools[j].paused}}

\* r is a path from f that enters no token twice.
IsSimple(f, r) ==
    /\ r[1].from = f
    /\ \A i \in 1..(Len(r) - 1) : r[i].to = r[i + 1].from
    /\ \A i \in DOMAIN r : r[i].to # f /\ \A j \in DOMAIN r : r[i].to = r[j].to => i = j

\* The simple paths of k hops from f, found breadth first.
SimplePathsFrom(f, k) ==
    Fold(LAMBDA S, i : {r \in UNION {{Append(q, h) : h \in AllHops} : q \in S} : IsSimple(f, r)},
         {<<>>}, [i \in 1..k |-> i])

SimplePaths(f, t, n) ==
    {r \in UNION {SimplePathsFrom(f, k) : k \in 1..n} : Last(r).to = t}

PathCost(r, hopCost) == Total([i \in DOMAIN r |-> r[i].fee + hopCost])

Cheapest(r, S, hopCost) == r \in S /\ \A q \in S : PathCost(r, hopCost) <= PathCost(q, hopCost)

-----------------------------------------------------------------------------
\* Properties

\* find_shortest_path_dijkstra finds a route exactly when one exists, and the
\* route is a simple path of least fee plus hop cost, however the heap breaks
\* ties and whatever stale entries it still holds.
DijkstraOptimal ==
    (pc = "found" /\ query.amount <= Threshold /\ query.from # query.to) =>
        LET all == SimplePaths(query.from, query.to, Cardinality(TokensOf(pools)) - 1)
        IN IF all = {} THEN routes = <<>>
           ELSE Len(routes) = 1 /\ Cheapest(routes[1], all, HopCost)

\* find_all_paths_dfs, which shares one visited set and one path among all its
\* calls, lists every simple path of at most max_hops hops exactly once.
DfsComplete ==
    (pc = "found" /\ query.amount > Threshold /\ query.from # query.to) =>
        /\ ToSet(routes) = SimplePaths(query.from, query.to, MaxHops)
        /\ Cardinality(ToSet(routes)) = Len(routes)

\* Bellman-Ford reaches the least fee whatever order the hash set gives the
\* tokens, and sees no negative cycle where fees are never negative.
BellmanFordAgrees ==
    (answer.status = "path" /\ query.from # query.to) =>
        LET all == SimplePaths(query.from, query.to, Cardinality(TokensOf(pools)) - 1)
        IN /\ ~answer.cycle
           /\ IF all = {} THEN answer.path = <<>>
              ELSE Len(answer.path) = 1 /\ Cheapest(answer.path[1], all, 0)

\* An answered request spends the whole input, over routes of at most SplitHops
\* hops that each get a positive part, through pools that are not paused,
\* whatever allocations the search on marginal prices proposed.  It spends no
\* more than the input either, as long as the amount is small enough for the f64
\* arithmetic: above that the parts may add up to more, which nothing corrects.
SplitSpendsInput ==
    answer.status = "split" =>
        /\ SumIn(answer.splits) >= query.amount
        /\ query.amount <= Exact => SumIn(answer.splits) = query.amount
        /\ \A s \in ToSet(answer.splits) :
             /\ s.in > 0
             /\ Len(s.route) <= SplitHops
             /\ \A k \in DOMAIN s.route : ~PoolOf(s.route[k]).paused

\* A request is split over several routes only if each of them pays for its
\* own gas: gas-aware pruning never leaves a losing route in a real split.
SplitPaysForGas ==
    (answer.status = "split" /\ Len(answer.splits) > 1) =>
        \A i \in 1..Len(answer.splits) : ~(NetOut(answer.splits[i]) <= 0)

\* Every search and every pruning loop ends: each turn that goes on has removed
\* a route from active_routes.
RoutingEnds == <>(pc \in {"done", "idle"})

\* The API's promise for 400 is an invalid request: a positive amount for which
\* a route short enough to be split exists is not refused.  (The shortest path
\* search ignores max_hops, so it may return a longer, cheaper route, which the
\* split then drops.)
RouteServed ==
    (answer.status = "no_split" /\ query.amount > 0) =>
        SimplePaths(query.from, query.to, SplitHops) = {}

=============================================================================
