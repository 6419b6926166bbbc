------------------------------- MODULE ChainReads -------------------------------
(***************************************************************************)
(* What the process reads from the chain through SuiClient: coins, ticks   *)
(* and events.  The jobs share nothing, so a behaviour has one of them.    *)
(***************************************************************************)
EXTENDS TickFetch, EventScan

VARIABLE job

vars == <<job, at, proc, clientVars, eventVars>>

Init == ClientInit /\ EventInit /\ job \in {"coins", "ticks", "events"}

ReadStep ==
    /\ \/ job = "coins" /\ CoinsStep
       \/ job = "ticks" /\ (TicksStep \/ \E dex \in Dexes : TicksStart(dex))
       \/ \E e \in Endpoints, i \in Items : Change(e, i)
    /\ UNCHANGED <<job, eventVars>>

ScanStep ==
    /\ job = "events" /\ EventStep
    /\ UNCHANGED <<job, proc, clientVars>>

ChainStep ==
    /\ job = "events"
    /\ \/ Restart
       \/ (Prune \/ \E n \in 1..2 : \E kinds \in [1..n -> EventKinds] : Mint(kinds)) /\ UNCHANGED at
    /\ UNCHANGED <<job, proc, clientVars>>

Next == ReadStep \/ ScanStep \/ ChainStep

\* The static worker starts a scan in every cycle, and a call that is under way
\* is answered or times out.
Spec == Init /\ [][Next]_vars /\ WF_vars(ScanStep)

=============================================================================
