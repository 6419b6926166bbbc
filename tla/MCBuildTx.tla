------------------------------- MODULE MCBuildTx -------------------------------
(* Instances of BuildTx for TLC. *)
EXTENDS BuildTx

CONSTANTS X, Y, Z

HopBy(dex, pool, a, b, in) ==
    [dex |-> dex, pool |-> pool, a |-> a, b |-> b, in |-> in, feeOk |-> TRUE]

\* t -> X -> Y over every kind of pool in both directions.
TwoHops(t) ==
    {<<f, s>> :
       f \in {HopBy("Cetus", "p1", t, X, t), HopBy("Momentum", "p2", X, t, t),
              HopBy("Turbos", "p3", t, X, t)},
       s \in {HopBy("Magma", "p4", Y, X, X), HopBy("Turbos", "p5", X, Y, X),
              [HopBy("Turbos", "p6", X, Y, X) EXCEPT !.feeOk = FALSE]}}

OneHop(t) == {<<HopBy("Cetus", "p7", Y, t, t)>>, <<HopBy("Turbos", "p8", t, Y, t)>>,
              <<HopBy("Other", "p9", t, Y, t)>>}

SplitOf(r, in, out) == [route |-> r, in |-> in, out |-> out]

PlansFor(t) ==
    {<<SplitOf(r, 5, 9)>> : r \in TwoHops(t) \cup OneHop(t)}
      \cup {<<SplitOf(r, 5, 9), SplitOf(q, 3, 6)>> : r \in TwoHops(t), q \in OneHop(t)}
      \cup {<<SplitOf(r, 5, 3), SplitOf(r, n, 9)>> : r \in OneHop(t), n \in {6, 30}}

MCPlans == PlansFor(Sui) \cup PlansFor(Z) \cup {<<SplitOf(<<>>, 5, 5)>>}

Req(sui, t, ids, bps) ==
    [amount |-> 5, amountOk |-> TRUE, fromSui |-> sui, token |-> t, coinIds |-> ids, bps |-> bps, addressOk |-> TRUE]

OneAmount ==
    {Req(TRUE, Sui, <<>>, 3), Req(FALSE, Z, <<>>, 3), Req(FALSE, Z, <<"c1">>, 0),
     Req(FALSE, Z, <<"c1", "c2">>, 3), Req(FALSE, Z, <<"c1", "c1">>, 1),
     Req(FALSE, Sui, <<"g1">>, 0), Req(TRUE, Sui, <<>>, BadSlippage),
     [Req(TRUE, Sui, <<>>, 1) EXCEPT !.amountOk = FALSE],
     [Req(TRUE, Sui, <<>>, 1) EXCEPT !.addressOk = FALSE]}

\* The splits take 5 and 8 exactly, 10 and 33 with the rounding of f64.
MCRequests == {[r EXCEPT !.amount = n] : r \in OneAmount, n \in {5, 8, 10, 33}}

CoinOf(t, n) == [token |-> t, balance |-> n]

MCWallets ==
    {[c \in {"c1", "c2", "g1", "g2"} |->
         IF c \in {"g1", "g2"} THEN CoinOf(Sui, IF c = "g1" THEN g ELSE 4) ELSE CoinOf(Z, z)] :
       g \in {6, 7, 10, 40}, z \in {3, 5, 8}}
      \cup {[c \in {"c1"} |-> CoinOf(Z, 9)], [c \in {"c1", "g1"} |-> CoinOf(Sui, 9)]}

=============================================================================
