------------------------------- MODULE MCRouting -------------------------------
(* Instances of Routing for TLC. *)
EXTENDS Routing

CONSTANTS A, B, C, D, F

Pool(id, a, b, fee, x, y) ==
    [id |-> id, a |-> a, b |-> b, fee |-> fee, x |-> x, y |-> y, paused |-> FALSE]

\* Parallel pools, a shared first pool, and a paused shortcut.
Diamond == <<Pool(1, A, B, 1, 4, 9), Pool(2, B, D, 0, 8, 8), Pool(3, D, A, 3, 5, 6),
             Pool(4, B, C, 0, 7, 7), Pool(5, C, D, 1, 9, 9),
             [Pool(6, A, D, 0, 9, 9) EXCEPT !.paused = TRUE]>>

\* Two pools for one pair beside a detour through a pool without liquidity.
Parallel == <<Pool(1, A, D, 2, 6, 8), Pool(2, D, A, 2, 5, 5), Pool(3, A, B, 0, 9, 9),
              Pool(4, D, B, 1, 0, 0)>>

\* A dear direct pool beside a cheap chain of four hops, and a token apart.
Chain == <<Pool(1, A, B, 0, 9, 9), Pool(2, B, C, 0, 9, 9), Pool(3, C, F, 0, 9, 9),
           Pool(4, F, D, 0, 9, 9), Pool(5, A, D, 9, 9, 9)>>

\* A pool whose two coins are the same, and a target out of reach.
Loop == <<Pool(1, A, A, 0, 5, 5), Pool(2, A, B, 1, 5, 5), Pool(3, C, D, 1, 5, 5)>>

MCCatalogs == {Diamond, Parallel, Chain, Loop}

MCQueries ==
    [algo : {"best"}, from : {A}, to : {D}, amount : {0, 1, 3, 7}]
      \cup [algo : {"best"}, from : {B}, to : {A, B}, amount : {2, 5}]
      \cup [algo : {"bellman_ford"}, from : {A, B}, to : {D}, amount : {1}]

MCNets == {-2, 1, 2}

\* Price 1 is tick 0, in the middle of the range.
MCTickMin == -2
MCTurbosMin == -6
MCTurbosMax == -1

=============================================================================
