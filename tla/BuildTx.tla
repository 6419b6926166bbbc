-------------------------------- MODULE BuildTx --------------------------------
(***************************************************************************)
(* POST /api/build_tx: handle_build_tx and finalize_canonical_build        *)
(* (src/src/api/quote.rs), the hop builders (dex_swap.rs), the slippage    *)
(* budget (slippage.rs) and the canonical builder                          *)
(* (transaction_builder.rs).                                               *)
(*                                                                         *)
(* A command is [fn, takes, gives, objs, min]: the arguments it consumes   *)
(* with the Move type each must have, the types of its results, the        *)
(* objects it names and the minimum output it carries.  The Move           *)
(* signatures are external; the arguments, their order and the type        *)
(* arguments are the source's.  Command indices start at 0, as in a PTB.   *)
(* Simulated amounts are floating point: any value of Estimates.           *)
(***************************************************************************)
EXTENDS Integers, Sequences, FiniteSets, SequencesExt, Loops

CONSTANTS
    Requests,   \* [amount, amountOk, fromSui, token, coinIds, bps, addressOk]
    Plans,      \* results of optimize_order_split: sequences of [route, in, out]
    Wallets,    \* coins of the sender: functions from ids to [token, balance]
    Estimates,  \* amounts a simulated hop may return
    Scale,      \* BPS_SCALE
    GasBudget,  \* BUILD_TX_GAS_BUDGET
    Exact,      \* largest amount of which all numbers below are an f64, 2^53
    MaxError,   \* bound on what the rounding to f64 adds to a split
    U64Max,
    Sui,        \* the gas token
    BadSlippage \* a tolerance try_from_tolerance rejects

VARIABLES
    req,        \* the request
    wallet,     \* the sender's coins, as the RPC node reports them
    pc,         \* step of the handler
    plan,       \* splits
    cmds,       \* commands
    at,         \* split index, hop index, held_coin and expected_current_amount
    outs,       \* swap_output_args
    gasCoin,    \* the chosen gas coin
    status      \* "none" until the request is answered

vars == <<req, wallet, pc, plan, cmds, at, outs, gasCoin, status>>

NoCoin == "no coin"

\* A request lists its coins, and a tolerance try_from_tolerance accepts is below
\* the scale; balances are unsigned.
ASSUME RequestAssumption ==
    /\ Scale \in Nat \ {0} /\ GasBudget \in Nat /\ Exact \in Nat /\ MaxError \in Nat
    /\ \A r \in Requests : /\ r.amount \in Nat
                           /\ r.coinIds \in Seq(ToSet(r.coinIds))
                           /\ r.bps = BadSlippage \/ r.bps \in 0..(Scale - 1)
    /\ \A w \in Wallets : \A c \in DOMAIN w : w[c].balance \in Nat

-----------------------------------------------------------------------------
\* PTB arguments and Move types

Result(c)    == [kind |-> "result", cmd |-> c, out |-> 0]
Nested(c, j) == [kind |-> "nested", cmd |-> c, out |-> j]

Coin(t)          == [type |-> "Coin", of |-> t]
Balance(t, full) == [type |-> "Balance", of |-> <<t, full>>]
Receipt(p)       == [type |-> "Receipt", of |-> p]
Vec(t)           == [type |-> "Vec", of |-> t]

Cmd(fn, takes, gives, objs, min) ==
    [fn |-> fn, takes |-> takes, gives |-> gives, objs |-> objs, min |-> min]

Take(arg, type) == [arg |-> arg, type |-> type]

-----------------------------------------------------------------------------
\* Slippage budget

\* apply_retain_bps
Retain(amount, bps) == (amount \div Scale) * bps + ((amount % Scale) * bps) \div Scale

\* incremental_hop_retain_bps: floor(Scale * (retain / Scale)^(1 / n)).  Where
\* the root is exact the floating point power may fall just short of it.
HopRetains(retain, n) ==
    IF n <= 1 THEN {retain}
    ELSE LET fits(h) == h^n <= retain * Scale^(n - 1)
             top     == CHOOSE h \in 0..Scale : fits(h) /\ ~fits(h + 1)
         IN {top} \cup {h \in {top - 1} : top^n = retain * Scale^(n - 1) /\ h >= 0}

\* Mutant: the last hop gets the intermediate budget on its own estimate.
HopMins_NeverPath(split, h, est) ==
    {Retain(est, r) : r \in HopRetains(Scale - req.bps, Len(split.route))}

\* hop_min_out: the path minimum on the last hop, the compound budget before.
HopMins(split, h, est) ==
    IF h = Len(split.route) THEN {Retain(split.out, Scale - req.bps)}
    ELSE {Retain(est, r) : r \in HopRetains(Scale - req.bps, Len(split.route))}

-----------------------------------------------------------------------------
\* Hop builders; c is the index of the hop's first command

AToB(hop) == hop.in = hop.a

OutToken(hop) == IF AToB(hop) THEN hop.b ELSE hop.a

\* What the router returns: at least one split, each a path with the amounts that
\* enter and leave it, in which every hop enters its pool with one of the pool's
\* coins and leaves with the next hop's.
ASSUME PlanAssumption ==
    \A p \in Plans :
        /\ p # <<>> /\ p \in Seq(ToSet(p))
        /\ \A i \in DOMAIN p :
             LET r == p[i].route
             IN /\ p[i].in \in Nat /\ p[i].out \in Nat
                /\ r \in Seq(ToSet(r))
                /\ \A h \in DOMAIN r : r[h].in \in {r[h].a, r[h].b}
                /\ \A h \in 1..(Len(r) - 1) : r[h + 1].in = OutToken(r[h])

\* Mutant: the output side is always the second balance.
FlashHop_OneSide(hop, coin, c) ==
    LET in == hop.in  out == OutToken(hop)  down == AToB(hop)  objs == {hop.pool, hop.dex}
    IN <<Cmd("flash_swap", <<>>,
             <<Balance(hop.a, ~down), Balance(hop.b, down), Receipt(hop.pool)>>, objs, 0),
         Cmd("into_balance", <<Take(coin, Coin(in))>>, <<Balance(in, TRUE)>>, {}, 0),
         Cmd("zero", <<>>, <<Balance(out, FALSE)>>, {}, 0),
         Cmd("repay_flash_swap",
             <<Take(Result(IF down THEN c + 1 ELSE c + 2), Balance(hop.a, down)),
               Take(Result(IF down THEN c + 2 ELSE c + 1), Balance(hop.b, ~down)),
               Take(Nested(c, 2), Receipt(hop.pool))>>, <<>>, objs, 0),
         Cmd("destroy_zero", <<Take(Nested(c, 0), Balance(in, FALSE))>>, <<>>, {}, 0),
         Cmd("from_balance", <<Take(Nested(c, 1), Balance(out, TRUE))>>, <<Coin(out)>>, {}, 0)>>

\* build_config_pool_flash_hop (Cetus, Magma) and build_momentum_flash_hop:
\* borrow, turn the held coin into the balance that repays, destroy the empty
\* side, turn the other side into a coin.
FlashHop(hop, coin, c) ==
    LET in == hop.in  out == OutToken(hop)  down == AToB(hop)  objs == {hop.pool, hop.dex}
    IN <<Cmd("flash_swap", <<>>,
             <<Balance(hop.a, ~down), Balance(hop.b, down), Receipt(hop.pool)>>, objs, 0),
         Cmd("into_balance", <<Take(coin, Coin(in))>>, <<Balance(in, TRUE)>>, {}, 0),
         Cmd("zero", <<>>, <<Balance(out, FALSE)>>, {}, 0),
         Cmd("repay_flash_swap",
             <<Take(Result(IF down THEN c + 1 ELSE c + 2), Balance(hop.a, down)),
               Take(Result(IF down THEN c + 2 ELSE c + 1), Balance(hop.b, ~down)),
               Take(Nested(c, 2), Receipt(hop.pool))>>, <<>>, objs, 0),
         Cmd("destroy_zero", <<Take(Nested(c, IF down THEN 0 ELSE 1), Balance(in, FALSE))>>, <<>>, {}, 0),
         Cmd("from_balance", <<Take(Nested(c, IF down THEN 1 ELSE 0), Balance(out, TRUE))>>,
             <<Coin(out)>>, {}, 0)>>

\* build_turbos_hop: the swap returns the output and what is left of the input,
\* which goes back to the sender at once.
TurbosHop(hop, coin, c, min) ==
    <<Cmd("make_move_vec", <<Take(coin, Coin(hop.in))>>, <<Vec(hop.in)>>, {}, 0),
      Cmd("swap", <<Take(Result(c), Vec(hop.in))>>, <<Coin(OutToken(hop)), Coin(hop.in)>>,
          {hop.pool, hop.dex}, min),
      Cmd("transfer", <<Take(Nested(c + 1, 1), Coin(hop.in))>>, <<>>, {}, 0)>>

-----------------------------------------------------------------------------
Answer(s) == status' = s /\ pc' = "done"

ParseAmount ==
    /\ pc = "parse"
    /\ \/ ~req.amountOk /\ Answer("bad_amount")
       \/ req.amountOk /\ pc' = "route" /\ UNCHANGED status
    /\ UNCHANGED <<req, wallet, plan, cmds, at, outs, gasCoin>>

\* What the commands take from the input coin.
Spent(p) == Total([i \in DOMAIN p |-> p[i].in])

\* What the router does with an amount (SplitSpendsInput of Router): the splits
\* take all of it, and more only by the rounding of f64.
Splits(p, amount) ==
    /\ Spent(p) >= amount
    /\ Spent(p) <= (IF amount <= Exact THEN amount ELSE amount + Len(p) * MaxError)

\* The pools may not load, and the router may find no route or no split.
FindRoutes ==
    /\ pc = "route"
    /\ \/ \E s \in {"no_pools", "no_route", "no_split"} : Answer(s) /\ UNCHANGED plan
       \/ /\ plan' \in {p \in Plans :
                         /\ Splits(p, req.amount)
                         /\ \A i \in DOMAIN p : p[i].route = <<>> \/ Head(p[i].route).in = req.token}
          /\ pc' = "slippage" /\ UNCHANGED status
    /\ UNCHANGED <<req, wallet, cmds, at, outs, gasCoin>>

CheckSlippage ==
    /\ pc = "slippage"
    /\ \/ req.bps = BadSlippage /\ Answer("bad_slippage")
       \/ req.bps # BadSlippage /\ pc' = "input" /\ UNCHANGED status
    /\ UNCHANGED <<req, wallet, plan, cmds, at, outs, gasCoin>>

\* split_cmd_idx
SplitIdx == IF ~req.fromSui /\ Len(req.coinIds) > 1 THEN 1 ELSE 0

\* Every alloc_in converts to u64.
AmountsFit == \A i \in DOMAIN plan : plan[i].in <= U64Max

StartPath(i) == [split |-> i, hop |-> 1, held |-> Nested(SplitIdx, i - 1), amount |-> plan[i].in]

\* One coin per split: of the gas coin, of the one input coin, or of the first
\* input coin once the others are merged into it.
SplitInput ==
    /\ pc = "input"
    /\ LET pieces == [i \in DOMAIN plan |-> Coin(req.token)]
       IN \/ ~AmountsFit /\ Answer("split_overflow") /\ UNCHANGED <<cmds, at>>
          \/ /\ AmountsFit /\ ~req.fromSui /\ req.coinIds = <<>>
             /\ Answer("coin_ids_required") /\ UNCHANGED <<cmds, at>>
          \/ /\ AmountsFit /\ (req.fromSui \/ req.coinIds # <<>>)
             /\ cmds' = (IF ~req.fromSui /\ Len(req.coinIds) > 1
                         THEN <<Cmd("merge", <<>>, <<>>, ToSet(req.coinIds), 0)>> ELSE <<>>)
                          \o <<Cmd("split", <<>>, pieces,
                                   IF req.fromSui THEN {} ELSE {req.coinIds[1]}, 0)>>
             /\ at' = StartPath(1)
             /\ pc' = "hops" /\ UNCHANGED status
    /\ UNCHANGED <<req, wallet, plan, outs, gasCoin>>

\* One hop: simulate it, derive its minimum, append its commands.  An
\* unsupported DEX or Turbos fee is refused; an amount beyond u64 panics in
\* amount_u64, which sees the minimum only on a Turbos hop.
BuildHop ==
    /\ pc = "hops" /\ at.hop <= Len(plan[at.split].route)
    /\ LET split == plan[at.split]
           hop   == split.route[at.hop]
           c     == Len(cmds)
       IN \E est \in Estimates : \E min \in HopMins(split, at.hop, est) :
            LET extends(new, coin) ==
                  /\ cmds' = cmds \o new
                  /\ at' = [at EXCEPT !.hop = @ + 1, !.held = coin, !.amount = est]
                  /\ UNCHANGED <<pc, status>>
            IN \/ /\ hop.dex = "Other" \/ (hop.dex = "Turbos" /\ ~hop.feeOk)
                  /\ Answer("unsupported") /\ UNCHANGED <<cmds, at>>
               \/ /\ hop.dex \in {"Cetus", "Magma", "Momentum"}
                  /\ IF at.amount > U64Max THEN Answer("panic") /\ UNCHANGED <<cmds, at>>
                     ELSE extends(FlashHop(hop, at.held, c), Result(c + 5))
               \/ /\ hop.dex = "Turbos" /\ hop.feeOk
                  /\ IF at.amount > U64Max \/ min > U64Max THEN Answer("panic") /\ UNCHANGED <<cmds, at>>
                     ELSE extends(TurbosHop(hop, at.held, c, min), Nested(c + 1, 0))
    /\ UNCHANGED <<req, wallet, plan, outs, gasCoin>>

\* Token a path ends with; Dijkstra answers a request from a token to itself
\* with a path of no hops.
PathToken(route) == IF route = <<>> THEN req.token ELSE OutToken(Last(route))

\* The path is complete: its coin joins the outputs; after the last path they
\* are transferred to the sender.
EndPath ==
    /\ pc = "hops" /\ at.hop > Len(plan[at.split].route)
    /\ outs' = Append(outs, Take(at.held, Coin(PathToken(plan[at.split].route))))
    /\ IF at.split < Len(plan)
       THEN at' = StartPath(at.split + 1) /\ UNCHANGED <<pc, cmds>>
       ELSE cmds' = Append(cmds, Cmd("transfer", outs', <<>>, {}, 0)) /\ pc' = "resolve" /\ UNCHANGED at
    /\ UNCHANGED <<req, wallet, plan, gasCoin, status>>

-----------------------------------------------------------------------------
\* finalize_canonical_build

\* get_object_meta for every object the commands name, then get_coins for gas:
\* either may fail.
ResolveObjects ==
    /\ pc = "resolve"
    /\ Answer("rpc_failed") \/ (pc' = "gas" /\ UNCHANGED status)
    /\ UNCHANGED <<req, wallet, plan, cmds, at, outs, gasCoin>>

\* amount_in of the request
AmountIn == req.amount

\* Mutant: a SUI swap is checked against the gas budget alone.
GasNeeded_Budget == GasBudget

\* What the largest SUI coin must hold at least: a swap from SUI is checked
\* against its amount alone, any other one against the gas budget.
GasNeeded == IF req.fromSui THEN AmountIn ELSE GasBudget

\* Sorted by falling balance, the first coin that suffices is the largest one,
\* and so is the fallback.
ChooseGas ==
    /\ pc = "gas"
    /\ LET sui == {c \in DOMAIN wallet : wallet[c].token = Sui}
           top == {c \in sui : \A d \in sui : wallet[d].balance <= wallet[c].balance}
       IN \/ sui = {} /\ Answer("no_gas_coin") /\ UNCHANGED gasCoin
          \/ \E c \in top :
               \/ wallet[c].balance < GasNeeded /\ Answer("insufficient_gas") /\ UNCHANGED gasCoin
               \/ /\ wallet[c].balance >= GasNeeded
                  /\ gasCoin' = c
                  /\ pc' = IF req.fromSui THEN "build" ELSE "coins"
                  /\ UNCHANGED status
    /\ UNCHANGED <<req, wallet, plan, cmds, at, outs>>

\* What the listed coins hold together.
Held(ids) == Total([i \in DOMAIN ids |-> wallet[ids[i]].balance])

\* The listed coins must be the sender's and add up to the amount; a coin that
\* is listed twice counts twice, and its type is not looked at.
CheckInputs ==
    /\ pc = "coins"
    /\ LET owned == \A i \in DOMAIN req.coinIds : req.coinIds[i] \in DOMAIN wallet
       IN \/ Answer("rpc_failed")
          \/ ~owned /\ Answer("not_owned")
          \/ owned /\ Held(req.coinIds) < AmountIn /\ Answer("insufficient_input")
          \/ owned /\ Held(req.coinIds) >= AmountIn /\ pc' = "build" /\ UNCHANGED status
    /\ UNCHANGED <<req, wallet, plan, cmds, at, outs, gasCoin>>

\* collect_object_ids_from_ptb
ObjectIds == UNION {c.objs : c \in ToSet(cmds)}

\* map_argument over all commands with the ResultTracker: a result must be of
\* an earlier command, and not of one that yields none; every object must have
\* been resolved (req.coinIds adds the input coins).
Resolves ==
    \A i \in DOMAIN cmds :
        /\ \A k \in DOMAIN cmds[i].takes :
             LET a == cmds[i].takes[k].arg
             IN a.cmd < i - 1 /\ cmds[a.cmd + 1].fn \notin {"merge", "transfer"}
        /\ cmds[i].objs \subseteq ObjectIds \cup ToSet(req.coinIds)

\* build_canonical_transaction; the library and the parsers of addresses and
\* digests may refuse as well.
BuildCanonical ==
    /\ pc = "build"
    /\ \/ Answer(IF Resolves THEN "rejected" ELSE "unresolved")
       \/ Resolves /\ req.addressOk /\ Answer("ok")
    /\ UNCHANGED <<req, wallet, plan, cmds, at, outs, gasCoin>>

-----------------------------------------------------------------------------
BuildInit ==
    /\ req \in Requests /\ wallet \in Wallets
    /\ pc = "parse" /\ status = "none"
    /\ plan = <<>> /\ cmds = <<>> /\ outs = <<>> /\ gasCoin = NoCoin
    /\ at = [split |-> 0, hop |-> 0, held |-> NoCoin, amount |-> 0]

BuildNext ==
    \/ ParseAmount \/ FindRoutes \/ CheckSlippage \/ SplitInput \/ BuildHop \/ EndPath
    \/ ResolveObjects \/ ChooseGas \/ CheckInputs \/ BuildCanonical

Spec == BuildInit /\ [][BuildNext]_vars

-----------------------------------------------------------------------------
\* Properties

\* The places in the commands that consume result j of command c; the result of
\* a command with one result may be named without an index.
UsesOf(c, j) ==
    {u \in (DOMAIN cmds) \X (1..(Len(plan) + 3)) :
        /\ u[2] \in DOMAIN cmds[u[1]].takes
        /\ LET a == cmds[u[1]].takes[u[2]].arg
           IN /\ a.cmd = c - 1 /\ a.out = j - 1
              /\ a.kind = "nested" \/ Len(cmds[c].gives) = 1}

\* Coins, balances and receipts have no drop ability: in a transaction handed
\* to the wallet every one of them that a command produces is consumed exactly
\* once, by a later command, which expects that very type and side; so each
\* flash loan is repaid with the coin of its hop, whatever mix of DEXes,
\* directions, splits and merged coins the route has.  The canonical builder
\* never meets an argument it cannot resolve: command offsets, the index of the
\* split after a merge and the objects collected from the commands all agree.
ResultsConsumedOnce ==
    /\ status # "unresolved"
    /\ status = "ok" =>
        \A c \in DOMAIN cmds : \A j \in DOMAIN cmds[c].gives :
            \E u \in UsesOf(c, j) :
                /\ UsesOf(c, j) = {u} /\ u[1] > c
                /\ cmds[u[1]].takes[u[2]].type = cmds[c].gives[j]

\* A transaction is handed out only if the input its splits take is there: the
\* gas coin holds it in a swap from SUI, and otherwise the listed coins do, when
\* they are distinct and of the input token, beside a gas coin that holds the
\* budget and is none of them.  The handler checks the amount of the request; the
\* splits take more than that only of an amount that is not exact as an f64.
\* (A spelling of SUI that the handler does not recognise makes no swap from SUI,
\* and its coins may be the gas coin.)
InputCovered ==
    status = "ok" =>
        LET ids == ToSet(req.coinIds)
            paid == IF AmountIn <= Exact THEN Spent(plan) ELSE AmountIn
        IN IF req.fromSui THEN wallet[gasCoin].balance >= paid
           ELSE (Cardinality(ids) = Len(req.coinIds) /\ \A c \in ids : wallet[c].token = req.token) =>
                  /\ Held(SetToSeq(ids)) >= paid
                  /\ wallet[gasCoin].balance >= GasBudget
                  /\ req.token # Sui => gasCoin \notin ids

\* min_amount_out of the response: the budget on the total of the splits.
Reported == Retain(Total([i \in DOMAIN plan |-> plan[i].out]), Scale - req.bps)

\* Minimum carried by the command that produced an output.
Carried(i) == cmds[outs[i].arg.cmd + 1].min

\* When every path ends on Turbos, the minima the transaction carries add up to
\* the minimum the response reports, short of less than one unit per split:
\* the rounding of the parts never loses more.
MinimumEnforced ==
    (status = "ok" /\ \A i \in DOMAIN plan : plan[i].route # <<>> /\ Last(plan[i].route).dex = "Turbos") =>
        LET carried == Total([i \in DOMAIN outs |-> Carried(i)])
        IN carried <= Reported /\ Reported - carried < Len(plan)

=============================================================================
