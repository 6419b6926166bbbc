---------------------------- MODULE ChainReadsProofs ----------------------------
(***************************************************************************)
(* Proofs about ChainReads, for any number of endpoints, items, pages,     *)
(* events and changes: failover reaches every endpoint, a scan passes over *)
(* no event, get_coins is complete and the list of ticks is exact.         *)
(***************************************************************************)
EXTENDS ChainReads, NumberSets, SequenceTheorems

\* The endpoints before the one that is tried are not up.  A scan also moves on
\* from an endpoint that refuses its cursor, so this is said of the other jobs.
PassedOver == job # "events" => \A e \in Endpoints : e < at => e \notin up

ClientInv ==
    /\ at \in 0..(NumEndpoints + 1)
    /\ up \subseteq Endpoints
    /\ "pc" \in DOMAIN proc
    /\ PassedOver
    /\ OneEndpointIsEnough

\* What a step of a reading job does to the client: it moves on from an endpoint
\* that is not up, ends for want of an answer after the last one, ends in
\* another way, or goes on with the first endpoint or none.
ReadEffect ==
    /\ UNCHANGED <<up, job>>
    /\ "pc" \in DOMAIN proc'
    /\ \/ Trying /\ at \notin up /\ at' = at + 1 /\ UNCHANGED proc
       \/ Failed /\ at' = 0 /\ proc'.pc = "error"
       \/ at' = 0 /\ proc'.pc = "error" /\ proc'.why = "garbled"
       \/ at' \in {0, 1} /\ proc'.pc # "error"
       \/ UNCHANGED <<at, proc>>

\* A start, a page or a read leaves the job running or done.
LEMMA CoinsEffect ==
    ASSUME ClientInv, CoinsStep, UNCHANGED job
    PROVE  ReadEffect
<1>1. CASE CoinsStart
  BY <1>1 DEF CoinsStart, ReadEffect, Ask
<1>2. CASE CoinsPage
  BY <1>2 DEF CoinsPage, ReadEffect, Ask, ClientInv, clientVars
<1>3. CASE CoinsGarbled
  BY <1>3 DEF CoinsGarbled, ReadEffect, GiveUp, clientVars
<1>4. CASE CoinsFail
  BY <1>4 DEF CoinsFail, ReadEffect, GiveUp, clientVars
<1>5. CASE proc.pc = "coins" /\ EndpointFails /\ UNCHANGED <<proc, clientVars>>
  BY <1>5 DEF EndpointFails, NextEndpoint, ReadEffect, ClientInv, clientVars
<1> QED BY <1>1, <1>2, <1>3, <1>4, <1>5 DEF CoinsStep

\* The same for a fetch of ticks; Finish ends it without an error.
LEMMA TicksEffect ==
    ASSUME ClientInv, TicksStep \/ (\E dex \in Dexes : TicksStart(dex)), UNCHANGED job
    PROVE  ReadEffect
<1>1. CASE \E dex \in Dexes : TicksStart(dex)
  BY <1>1 DEF TicksStart, ReadEffect, Ask
<1>2. CASE PoolAnswer
  BY <1>2 DEF PoolAnswer, ReadEffect, Ask, ClientInv, clientVars
<1>3. CASE PoolGarbled
  BY <1>3 DEF PoolGarbled, ReadEffect, GiveUp, clientVars
<1>4. CASE ListPage
  BY <1>4 DEF ListPage, Finish, ReadEffect, Ask, ClientInv, clientVars
<1>5. CASE ListFails
  BY <1>5 DEF ListFails, ReadEffect, GiveUp, clientVars
<1>6. CASE ReadEntry
  BY <1>6 DEF ReadEntry, ReadEffect, Ask, ClientInv, clientVars
<1>7. CASE ReadFails
  BY <1>7 DEF ReadFails, ReadEffect, Ask, ClientInv, clientVars
<1>8. CASE PageDone
  BY <1>8 DEF PageDone, Finish, ReadEffect, Ask, ClientInv, clientVars
<1>9. CASE proc.pc \in {"pool", "list", "read"} /\ EndpointFails /\ UNCHANGED <<proc, clientVars>>
  BY <1>9 DEF EndpointFails, NextEndpoint, ReadEffect, ClientInv, clientVars
<1> QED BY <1>1, <1>2, <1>3, <1>4, <1>5, <1>6, <1>7, <1>8, <1>9 DEF TicksStep

\* Whatever a step does to the client keeps the invariant: only at the end of
\* the list has every endpoint been passed over.
LEMMA EffectKeepsInv ==
    ASSUME ClientInv, ReadEffect, job # "events"
    PROVE  ClientInv'
<1> USE ClientAssumption
<1>1. CASE Trying /\ at \notin up /\ at' = at + 1 /\ UNCHANGED proc
  BY <1>1 DEF ClientInv, ReadEffect, PassedOver, OneEndpointIsEnough, Trying, Endpoints
<1>2. CASE Failed /\ at' = 0 /\ proc'.pc = "error"
  <2>1. up = {}
    BY <1>2 DEF ClientInv, PassedOver, Failed, Endpoints
  <2> QED BY <1>2, <2>1 DEF ClientInv, ReadEffect, PassedOver, OneEndpointIsEnough, Endpoints
<1>3. CASE at' = 0 /\ proc'.pc = "error" /\ proc'.why = "garbled"
  BY <1>3 DEF ClientInv, ReadEffect, PassedOver, OneEndpointIsEnough, Endpoints
<1>4. CASE at' \in {0, 1} /\ proc'.pc # "error"
  BY <1>4 DEF ClientInv, ReadEffect, PassedOver, OneEndpointIsEnough, Endpoints
<1>5. CASE UNCHANGED <<at, proc>>
  BY <1>5 DEF ClientInv, ReadEffect, PassedOver, OneEndpointIsEnough
<1> QED BY <1>1, <1>2, <1>3, <1>4, <1>5 DEF ReadEffect

\* A scan leaves the job alone and tries one endpoint after the other.
LEMMA ScanKeepsInv ==
    ASSUME ClientInv, ScanStep \/ ChainStep
    PROVE  ClientInv'
<1> USE ClientAssumption
<1>1. job = "events" /\ UNCHANGED <<job, proc, up>>
  BY DEF ScanStep, ChainStep, clientVars
<1>2. at' \in 0..(NumEndpoints + 1)
  <2>1. CASE ScanStep
    <3>1. CASE ScanPage
      <4>1. \E more \in BOOLEAN : Ask(more)
        BY <3>1 DEF ScanPage, TakePage
      <4> QED BY <4>1 DEF Ask
    <3>2. CASE EventStep /\ ~ScanPage
      BY <3>2 DEF EventStep, ScanStart, QueryRefused, QueryEndpointFails, QueryFails, ScanPageFails,
                  EndScan, EndpointFails, NextEndpoint, Ask, Trying, Endpoints, ClientInv
    <3> QED BY <2>1, <3>1, <3>2 DEF ScanStep
  <2>2. CASE ChainStep
    BY <2>2 DEF ChainStep, Restart, EndScan, Ask, ClientInv
  <2> QED BY <2>1, <2>2
<1> QED BY <1>1, <1>2 DEF ClientInv, PassedOver, OneEndpointIsEnough

\* Initially no call is under way.
LEMMA InitInv == Init => ClientInv
  BY ClientAssumption DEF Init, ClientInit, ClientInv, PassedOver, OneEndpointIsEnough, Idle, Endpoints

\* Every step keeps the invariant.
LEMMA NextInv == ClientInv /\ [Next]_vars => ClientInv'
<1> SUFFICES ASSUME ClientInv, [Next]_vars PROVE ClientInv'
  OBVIOUS
<1>1. CASE ReadStep
  <2>1. CASE job = "coins" /\ CoinsStep
    BY <1>1, <2>1, CoinsEffect, EffectKeepsInv DEF ReadStep
  <2>2. CASE job = "ticks" /\ (TicksStep \/ \E dex \in Dexes : TicksStart(dex))
    BY <1>1, <2>2, TicksEffect, EffectKeepsInv DEF ReadStep
  <2>3. CASE \E e \in Endpoints, i \in Items : Change(e, i)
    BY <1>1, <2>3 DEF ReadStep, Change, ClientInv, PassedOver, OneEndpointIsEnough
  <2> QED BY <1>1, <2>1, <2>2, <2>3 DEF ReadStep
<1>2. CASE ScanStep \/ ChainStep
  BY <1>2, ScanKeepsInv
<1>3. CASE UNCHANGED vars
  BY <1>3 DEF vars, clientVars, ClientInv, PassedOver, OneEndpointIsEnough
<1> QED BY <1>1, <1>2, <1>3 DEF Next

\* A job of SuiClient ends for want of an answer only if no endpoint is up,
\* whatever their number, the jobs' pages and what the endpoints hold.
THEOREM FailoverIsComplete == Spec => []OneEndpointIsEnough
<1>1. ClientInv => OneEndpointIsEnough
  BY DEF ClientInv
<1> QED BY InitInv, NextInv, <1>1, PTL DEF Spec

-----------------------------------------------------------------------------
\* The first n members of a finite set lie below the others, and there are some.
LEMMA FirstOfFacts ==
    ASSUME NEW S, \A k \in S : k \in Nat, IsFiniteSet(S), NEW n \in Nat \ {0}
    PROVE  /\ FirstOf(S, n) \subseteq S
           /\ \A j \in FirstOf(S, n), i \in S \ FirstOf(S, n) : j < i
           /\ S # {} => FirstOf(S, n) # {}
<1>1. FirstOf(S, n) \subseteq S
  BY DEF FirstOf
<1>2. ASSUME NEW j \in FirstOf(S, n), NEW i \in S \ FirstOf(S, n), ~(j < i)
      PROVE  FALSE
  <2> DEFINE Bi == {k \in S : k < i}
             Bj == {k \in S : k < j}
  <2>1. i \in Nat /\ j \in Nat /\ j \in S /\ i <= j
    BY <1>1, <1>2
  <2>2. Bi \subseteq Bj
    <3>1. \A k \in S : k < i => k < j
      BY <2>1
    <3> QED BY <3>1
  <2>3. IsFiniteSet(Bj)
    BY FS_Subset
  <2>4. IsFiniteSet(Bi)
    BY FS_Subset
  <2>5. Cardinality(Bj) < n /\ ~(Cardinality(Bi) < n)
    BY <1>2 DEF FirstOf
  <2> HIDE DEF Bi, Bj
  <2>6. Cardinality(Bi) <= Cardinality(Bj)
    BY <2>2, <2>3, FS_Subset
  <2>7. Cardinality(Bi) \in Nat /\ Cardinality(Bj) \in Nat
    BY <2>3, <2>4, FS_CardinalityType
  <2> QED BY <2>5, <2>6, <2>7
<1>3. ASSUME S # {} PROVE FirstOf(S, n) # {}
  <2>1. PICK x \in S : \A y \in S : x <= y
    BY <1>3, HasLeast
  <2>2. {k \in S : k < x} = {}
    BY <2>1
  <2>3. Cardinality({k \in S : k < x}) = 0
    BY <2>2, FS_EmptySet
  <2>4. x \in FirstOf(S, n)
    BY <2>1, <2>3 DEF FirstOf
  <2> QED BY <2>4
<1> QED BY <1>1, <1>2, <1>3

-----------------------------------------------------------------------------
(***************************************************************************)
(* The scan.  The saved progress alone does not say what is left: between  *)
(* two pages of a scan after the backfill, the rest of the checkpoint that *)
(* the last page ended in is ahead of the cursor only.                     *)
(***************************************************************************)
Events == [cp : Nat \ {0}, kind : EventKinds]

Scans == [pc : {"query"}, cursor : Nat, after : Nat, page : Nat, invalid : BOOLEAN]

Progresses == [cursor : Nat, cp : Nat, complete : BOOLEAN]

\* The checkpoints are in order; the progress points into the log.
LogInv ==
    /\ log \in Seq(Events) /\ gone \in Nat
    /\ \A i, j \in DOMAIN log : i <= j => log[i].cp <= log[j].cp
    /\ progress \in Progresses /\ progress.cursor <= Len(log)
    /\ progress.cp = 0 \/ \E i \in DOMAIN log : progress.cp <= log[i].cp

\* A running scan reads from the saved cursor or from the start, with the
\* filter that was in force when it began.
ScanInv ==
    \/ scan = Idle
    \/ /\ scan \in Scans
       /\ scan.cursor \in {0, progress.cursor}
       /\ scan.after <= progress.cp
       /\ ~progress.complete => scan.after = 0

\* The next scan reads event i, or the running one does, in the middle of the
\* last checkpoint seen.  No event that waits is before that checkpoint, also
\* while the backfill runs: a page may be taken for the last at any time.
Ahead(i) ==
    /\ i > progress.cursor /\ log[i].cp >= progress.cp
    /\ progress.complete =>
         \/ log[i].cp > progress.cp
         \/ /\ scan # Idle /\ progress.cursor # 0
            /\ log[i].cp = progress.cp /\ log[i].cp > scan.after

NoHole == \A i \in DOMAIN log : i \in handled \/ Excused(i) \/ Ahead(i)

EventInv == LogInv /\ ScanInv /\ NoHole

\* The invariant implies the property.
LEMMA NoHoleSuffices == EventInv => NothingPassedOver
<1> SUFFICES ASSUME EventInv, NEW i \in DOMAIN log, i \notin handled, ~Excused(i)
             PROVE  \/ i > progress.cursor /\ (progress.complete => log[i].cp > progress.cp)
                    \/ scan # Idle /\ i > scan.cursor /\ log[i].cp > scan.after
  BY DEF NothingPassedOver
<1>1. Ahead(i)
  BY DEF EventInv, NoHole
<1>2. i \in Nat /\ i > 0
  BY DEF EventInv, LogInv
<1> QED BY <1>1, <1>2 DEF Ahead, EventInv, ScanInv, Scans

\* A new checkpoint comes after all that were seen.
LEMMA MintKeeps ==
    ASSUME EventInv, NEW n \in 1..2, NEW kinds \in [1..n -> EventKinds], Mint(kinds)
    PROVE  EventInv'
<1> DEFINE cp == IF log = <<>> THEN 1 ELSE Last(log).cp + 1
           new == [k \in DOMAIN kinds |-> [cp |-> cp, kind |-> kinds[k]]]
<1>1. log' = log \o new /\ UNCHANGED <<gone, progress, scan, handled, missed, broken>>
  BY DEF Mint
<1>2. log \in Seq(Events) /\ \A i \in DOMAIN log : i \in 1..Len(log) /\ log[i] \in Events
  BY DEF EventInv, LogInv
<1>3. cp \in Nat \ {0} /\ \A i \in DOMAIN log : log[i].cp < cp /\ log[i].cp \in Nat
  <2>1. CASE log = <<>>
    BY <2>1
  <2>2. CASE log # <<>>
    <3>1. Len(log) \in DOMAIN log /\ Last(log) = log[Len(log)]
      BY <1>2, <2>2 DEF Last
    <3>2. \A i \in DOMAIN log : log[i].cp \in Nat
      BY <1>2 DEF Events
    <3>3. \A i \in DOMAIN log : log[i].cp <= log[Len(log)].cp
      BY <1>2, <3>1 DEF EventInv, LogInv
    <3> QED BY <2>2, <3>1, <3>2, <3>3
  <2> QED BY <2>1, <2>2
<1> HIDE DEF cp
<1>4. \A k \in 1..n : [cp |-> cp, kind |-> kinds[k]] \in Events
  BY <1>3 DEF Events
<1>5. new \in [1..n -> Events]
  BY <1>4
<1>6. new \in Seq(Events) /\ Len(new) = n
  BY <1>5, SeqDef
<1>7. \A k \in 1..n : new[k].cp = cp
  OBVIOUS
<1> HIDE DEF new
<1>8. /\ log' \in Seq(Events) /\ Len(log') = Len(log) + n /\ Len(log) \in Nat
      /\ DOMAIN log' = 1..(Len(log) + n)
      /\ \A i \in DOMAIN log' : \/ i \in DOMAIN log /\ log'[i] = log[i]
                                \/ i > Len(log) /\ i \in Nat /\ log'[i].cp = cp
      /\ \A i \in DOMAIN log : i \in DOMAIN log' /\ log'[i] = log[i]
  <2>1. /\ log' \in Seq(Events) /\ Len(log') = Len(log) + n /\ Len(log) \in Nat
        /\ DOMAIN log' = 1..(Len(log) + n)
    BY <1>1, <1>2, <1>6
  <2>2. \A i \in DOMAIN log : i \in DOMAIN log' /\ log'[i] = log[i]
    BY <1>1, <1>2, <1>6, <2>1
  <2>3. ASSUME NEW i \in DOMAIN log', i \notin DOMAIN log
        PROVE  i > Len(log) /\ i \in Nat /\ log'[i].cp = cp
    <3>1. i > Len(log) /\ i \in Nat /\ i - Len(log) \in 1..n
      BY <1>2, <2>1, <2>3
    <3>2. log'[i] = new[i - Len(log)]
      BY <1>1, <1>2, <1>6, <2>1, <3>1
    <3> QED BY <1>7, <3>1, <3>2
  <2> QED BY <2>1, <2>2, <2>3
<1>9. LogInv'
  <2>1. \A i, j \in DOMAIN log' : i <= j => log'[i].cp <= log'[j].cp
    BY <1>2, <1>3, <1>8 DEF EventInv, LogInv
  <2>2. progress'.cp = 0 \/ \E i \in DOMAIN log' : progress'.cp <= log'[i].cp
    BY <1>1, <1>8 DEF EventInv, LogInv
  <2>3. progress.cursor \in Nat
    BY DEF EventInv, LogInv, Progresses
  <2> QED BY <1>1, <1>8, <2>1, <2>2, <2>3 DEF EventInv, LogInv
<1>10. NoHole'
  <2> SUFFICES ASSUME NEW i \in DOMAIN log'
               PROVE  \/ i \in handled \/ i <= gone \/ log'[i].cp \in broken
                      \/ i \in missed \/ Ahead(i)'
    BY <1>1 DEF NoHole, Excused
  <2>1. CASE i \in DOMAIN log /\ log'[i] = log[i]
    BY <1>1, <2>1 DEF EventInv, NoHole, Excused, Ahead
  <2>2. CASE i > Len(log) /\ i \in Nat /\ log'[i].cp = cp
    <3>1. progress.cp \in Nat /\ progress.cursor \in Nat
      BY DEF EventInv, LogInv, Progresses
    <3>2. progress.cp < cp
      BY <1>3, <3>1 DEF EventInv, LogInv
    <3>3. progress.cursor < i
      BY <1>8, <2>2, <3>1 DEF EventInv, LogInv
    <3> QED BY <1>1, <1>3, <2>2, <3>1, <3>2, <3>3 DEF Ahead
  <2> QED BY <1>8, <2>1, <2>2
<1> QED BY <1>1, <1>9, <1>10 DEF EventInv, ScanInv

\* Pruning and a new scan lose nothing.
LEMMA PruneKeeps ==
    ASSUME EventInv, Prune \/ ScanStart
    PROVE  EventInv'
<1>1. CASE Prune
  <2>1. gone' \in Nat /\ gone \in Nat /\ gone <= gone'
    BY <1>1 DEF Prune, EventInv, LogInv
  <2>2. \A i \in DOMAIN log : i \in Nat
    BY DEF EventInv, LogInv
  <2> QED BY <1>1, <2>1, <2>2 DEF Prune, EventInv, LogInv, ScanInv, NoHole, Excused, Ahead
<1>2. CASE ScanStart
  <2>1. /\ scan = Idle /\ UNCHANGED <<log, gone, progress, handled, missed, broken>>
        /\ scan' = [pc |-> "query", cursor |-> progress.cursor, after |-> AfterCheckpoint,
                    page |-> 0, invalid |-> FALSE]
    BY <1>2 DEF ScanStart
  <2>2. AfterCheckpoint \in Nat /\ AfterCheckpoint <= progress.cp
        /\ (~progress.complete => AfterCheckpoint = 0)
    BY DEF EventInv, LogInv, Progresses, AfterCheckpoint
  <2>3. ScanInv'
    BY <2>1, <2>2 DEF EventInv, LogInv, Progresses, ScanInv, Scans
  <2> QED BY <2>1, <2>3 DEF EventInv, LogInv, NoHole, Excused, Ahead
<1> QED BY <1>1, <1>2

\* A scan that ends excuses the rest of the checkpoint it is in.
LEMMA EndKeeps ==
    ASSUME EventInv, scan # Idle, EndScan(progress),
           UNCHANGED <<log, gone, progress, handled, missed>>
    PROVE  EventInv'
BY DEF EventInv, LogInv, ScanInv, NoHole, Excused, Ahead, EndScan

\* An endpoint that fails, and a start without the cursor, leave the filter.
LEMMA RetryKeeps ==
    ASSUME EventInv, scan # Idle, scan' \in Scans, scan'.cursor \in {0, scan.cursor},
           scan'.after = scan.after, UNCHANGED <<log, gone, progress, handled, missed, broken>>
    PROVE  EventInv'
<1>1. scan' # Idle
  BY DEF Scans, Idle
<1> QED BY <1>1 DEF EventInv, LogInv, ScanInv, NoHole, Excused, Ahead

\* The checkpoint of an event is a number.
LEMMA EventTypes ==
    ASSUME LogInv
    PROVE  \A i \in DOMAIN log : log[i].cp \in Nat /\ log[i].cp # 0
<1> SUFFICES ASSUME NEW i \in DOMAIN log PROVE log[i].cp \in Nat /\ log[i].cp # 0
  OBVIOUS
<1>1. log[i] \in Events
  BY DEF LogInv
<1> QED BY <1>1 DEF Events

\* Going on with another cursor keeps the filter.
LEMMA ScanType ==
    ASSUME scan \in Scans, NEW c \in Nat,
           scan' = [scan EXCEPT !.cursor = c, !.page = @ + 1, !.invalid = FALSE]
    PROVE  scan' \in Scans /\ scan'.cursor = c /\ scan'.after = scan.after
<1>1. PICK n \in Nat : n = scan.page + 1
  BY DEF Scans
<1>2. scan' = [scan EXCEPT !.cursor = c, !.page = n, !.invalid = FALSE]
  BY <1>1, Zenon
<1>3. \E b \in BOOLEAN : scan' = [scan EXCEPT !.cursor = c, !.page = n, !.invalid = b]
  BY <1>2, Zenon
<1> QED BY <1>3 DEF Scans

\* An event that is neither handled nor excused is found by a query.
LEMMA WaitingIsFound ==
    ASSUME EventInv, scan # Idle, NEW i \in DOMAIN log, i \notin handled, ~Excused(i)
    PROVE  i \in Found
<1>1. i \in Nat /\ i \in 1..Len(log) /\ gone \in Nat /\ Len(log) \in Nat
  BY DEF EventInv, LogInv
<1>2. log[i].cp \in Nat \ {0}
  BY EventTypes DEF EventInv
<1>3. Ahead(i)
  BY DEF EventInv, NoHole
<1>4. progress \in Progresses /\ scan \in Scans
  BY DEF EventInv, LogInv, ScanInv
<1>5. i > scan.cursor
  BY <1>1, <1>3, <1>4 DEF EventInv, ScanInv, Ahead, Scans, Progresses
<1>6. log[i].cp > scan.after
  <2>1. CASE progress.complete
    BY <1>2, <1>3, <1>4, <2>1 DEF EventInv, ScanInv, Ahead, Scans, Progresses
  <2>2. CASE ~progress.complete
    BY <1>2, <2>2 DEF EventInv, ScanInv
  <2> QED BY <2>1, <2>2
<1>7. i > gone
  BY <1>1 DEF Excused
<1> QED BY <1>1, <1>5, <1>6, <1>7 DEF Found

\* A page is the beginning of what is found, and its cursor its last event.
LEMMA PageFacts ==
    ASSUME EventInv, scan # Idle
    PROVE  /\ Page \subseteq Found /\ Found \subseteq DOMAIN log
           /\ EndCursor \in Nat /\ EndCursor <= Len(log)
           /\ EndCursor # 0 => EndCursor \in Page
           /\ \A j \in Page, i \in Found \ Page : j < i
           /\ Found # {} => Page # {} /\ EndCursor # 0
<1>1. log \in Seq(Events) /\ gone \in Nat /\ Len(log) \in Nat
  BY DEF EventInv, LogInv
<1>2. Found \subseteq DOMAIN log /\ \A i \in Found : i \in Nat /\ i <= Len(log) /\ i > 0
  BY <1>1 DEF Found
<1>3. IsFiniteSet(Found)
  <2>1. IsFiniteSet(1..Len(log)) /\ Found \subseteq 1..Len(log)
    BY <1>1, <1>2, FS_Interval
  <2> QED BY <2>1, FS_Subset
<1>4. /\ Page \subseteq Found
      /\ \A j \in Page, i \in Found \ Page : j < i
      /\ Found # {} => Page # {}
  BY <1>2, <1>3, FirstOfFacts, EventAssumption DEF Page
<1> DEFINE E == Page \cup {0}
<1>5. E # {} /\ \A i \in E : i \in Nat /\ i <= Len(log)
  BY <1>1, <1>2, <1>4
<1>6. \A i \in Page : i \in E /\ i > 0
  BY <1>2, <1>4
<1>7. EndCursor = Max(E) /\ \A i \in E : i = 0 \/ i \in Page
  BY DEF EndCursor
<1> HIDE DEF E
<1>8. Max(E) \in E /\ \A i \in E : i <= Max(E)
  BY <1>1, <1>5, HasGreatest
<1> QED BY <1>1, <1>2, <1>4, <1>5, <1>6, <1>7, <1>8

\* The checkpoint that is saved after a page of which all events or none are
\* shown: not before the one so far, and not past any event that is left.
LEMMA SavedFacts ==
    ASSUME EventInv, scan # Idle, NEW shown \in {Page, {}}, NEW next \in BOOLEAN,
           NEW end \in {EndCursor, 0}
    PROVE  LET saved == Saved(shown, next, end)
           IN /\ saved \in Progresses /\ progress.cp <= saved.cp
              /\ saved.cursor = IF next THEN end ELSE 0
              /\ saved.complete <=> progress.complete \/ ~next
              /\ saved.cp = progress.cp \/ \E i \in shown : saved.cp = log[i].cp
              /\ \A i \in Found \ shown : progress.cp <= log[i].cp => saved.cp <= log[i].cp
<1> DEFINE saved == Saved(shown, next, end)
           C == {log[i].cp : i \in {j \in shown : log[j].kind = "pool"}} \cup {progress.cp}
<1>1. /\ log \in Seq(Events) /\ Len(log) \in Nat /\ progress \in Progresses
      /\ progress.cp \in Nat /\ progress.complete \in BOOLEAN
  BY DEF EventInv, LogInv, Progresses
<1>2. /\ Page \subseteq Found /\ Found \subseteq DOMAIN log /\ EndCursor \in Nat
      /\ \A j \in Page, i \in Found \ Page : j < i
  BY PageFacts
<1>3. shown \subseteq DOMAIN log /\ \A j \in shown, i \in Found \ shown : j < i
  BY <1>2
<1>4. \A i \in DOMAIN log : log[i].cp \in Nat /\ i \in Nat /\ i <= Len(log)
  BY <1>1, EventTypes DEF EventInv
<1>5. \A i, j \in DOMAIN log : i <= j => log[i].cp <= log[j].cp
  BY DEF EventInv, LogInv
<1>6. \A c \in C : c \in Nat /\ (c = progress.cp \/ \E i \in shown : c = log[i].cp)
  BY <1>1, <1>3, <1>4
<1>7. \E b \in Nat : \A c \in C : c <= b
  <2>1. CASE shown = {}
    BY <1>1, <1>6, <2>1
  <2>2. CASE shown # {}
    <3> DEFINE last == log[Len(log)].cp
    <3>1. Len(log) \in DOMAIN log /\ last \in Nat
      BY <1>1, <1>3, <1>4, <2>2
    <3>2. \A i \in shown : log[i].cp <= last /\ log[i].cp \in Nat
      BY <1>3, <1>4, <1>5, <3>1
    <3> HIDE DEF last
    <3>3. last + progress.cp \in Nat /\ progress.cp <= last + progress.cp
          /\ \A i \in shown : log[i].cp <= last + progress.cp
      BY <1>1, <3>1, <3>2
    <3> QED BY <1>6, <3>3
  <2> QED BY <2>1, <2>2
<1>8. Max(C) \in C /\ \A c \in C : c <= Max(C)
  <2>1. C # {}
    OBVIOUS
  <2> HIDE DEF C
  <2> QED BY <1>6, <1>7, <2>1, HasGreatest
<1>9. /\ saved.cp = Max(C) /\ progress.cp \in C
      /\ saved.cursor = (IF next THEN end ELSE 0)
      /\ saved.complete = (progress.complete \/ ~next)
      /\ saved = [cursor |-> saved.cursor, cp |-> saved.cp, complete |-> saved.complete]
  BY DEF Saved
<1> HIDE DEF C, saved
<1>10. /\ saved.cp \in Nat /\ progress.cp <= saved.cp
       /\ saved.cp = progress.cp \/ \E i \in shown : saved.cp = log[i].cp
  BY <1>6, <1>8, <1>9
<1>11. ASSUME NEW i \in Found \ shown, progress.cp <= log[i].cp PROVE saved.cp <= log[i].cp
  <2>1. CASE saved.cp = progress.cp
    BY <1>11, <2>1
  <2>2. CASE \E j \in shown : saved.cp = log[j].cp
    <3>1. PICK j \in shown : saved.cp = log[j].cp
      BY <2>2
    <3>2. j <= i /\ j \in DOMAIN log /\ i \in DOMAIN log
      BY <1>2, <1>3, <1>4, <3>1
    <3> QED BY <1>5, <3>1, <3>2
  <2> QED BY <1>10, <2>1, <2>2
<1>12. saved \in Progresses
  <2>1. saved.cursor \in Nat /\ saved.complete \in BOOLEAN
    BY <1>1, <1>2, <1>9
  <2> QED BY <1>9, <1>10, <2>1 DEF Progresses
<1>13. saved.complete <=> progress.complete \/ ~next
  BY <1>9
<1> QED BY <1>9, <1>10, <1>11, <1>12, <1>13 DEF saved

\* A page and its commit: what is left is ahead of the new cursor and not before
\* the new checkpoint; where it is in that checkpoint, the scan goes on or the
\* checkpoint is broken.
LEMMA PageKeeps ==
    ASSUME EventInv, ScanPage
    PROVE  EventInv'
<1>1. PICK shown \in {Page, {}}, next \in BOOLEAN, end \in {EndCursor, 0} :
         TakePage(shown, next, end)
  BY DEF ScanPage
<1> DEFINE saved == Saved(shown, next, end)
           torn == <<shown, next, end>> # <<Page, HasNextPage, EndCursor>>
           more == next /\ scan.page + 1 < MaxScanPages
<1>2. /\ scan # Idle /\ progress' = saved /\ handled' = handled \cup shown
      /\ missed' = IF next /\ end # 0 THEN missed \cup (Page \ shown) ELSE missed
      /\ scan' = IF more THEN [scan EXCEPT !.cursor = saved.cursor, !.page = @ + 1, !.invalid = FALSE]
                 ELSE Idle
      /\ broken' = IF saved.complete /\ (torn \/ (~more /\ saved.cursor # 0))
                   THEN broken \cup {saved.cp} ELSE broken
      /\ UNCHANGED <<log, gone>>
  BY <1>1 DEF ScanPage, TakePage
<1>3. /\ Page \subseteq Found /\ Found \subseteq DOMAIN log
      /\ EndCursor \in Nat /\ EndCursor <= Len(log)
      /\ EndCursor # 0 => EndCursor \in Page
      /\ \A j \in Page, i \in Found \ Page : j < i
      /\ Found # {} => Page # {} /\ EndCursor # 0
  BY <1>2, PageFacts
<1>4. /\ saved \in Progresses /\ progress.cp <= saved.cp
      /\ saved.cursor = IF next THEN end ELSE 0
      /\ saved.complete <=> progress.complete \/ ~next
      /\ saved.cp = progress.cp \/ \E i \in shown : saved.cp = log[i].cp
      /\ \A i \in Found \ shown : progress.cp <= log[i].cp => saved.cp <= log[i].cp
  BY <1>2, SavedFacts
<1> HIDE DEF saved
<1>5. scan \in Scans /\ progress \in Progresses /\ log \in Seq(Events) /\ Len(log) \in Nat
  BY <1>2 DEF EventInv, ScanInv, LogInv
<1>6. LogInv'
  <2>1. saved.cursor <= Len(log)
    BY <1>3, <1>4, <1>5
  <2>2. saved.cp = 0 \/ \E i \in DOMAIN log : saved.cp <= log[i].cp
    <3>1. \A i \in DOMAIN log : log[i].cp \in Nat
      BY EventTypes DEF EventInv
    <3>2. \A i \in shown : i \in DOMAIN log
      BY <1>3
    <3> QED BY <1>4, <3>1, <3>2 DEF EventInv, LogInv
  <2> QED BY <1>2, <1>4, <2>1, <2>2 DEF EventInv, LogInv
<1>7. more => /\ scan' \in Scans /\ scan'.cursor = saved.cursor /\ scan'.after = scan.after
              /\ scan' # Idle
  <2> SUFFICES ASSUME more PROVE /\ scan' \in Scans /\ scan'.cursor = saved.cursor
                                 /\ scan'.after = scan.after /\ scan' # Idle
    OBVIOUS
  <2>1. saved.cursor \in Nat
    BY <1>4 DEF Progresses
  <2>2. scan' = [scan EXCEPT !.cursor = saved.cursor, !.page = @ + 1, !.invalid = FALSE]
    BY <1>2
  <2>3. scan' \in Scans /\ scan'.cursor = saved.cursor /\ scan'.after = scan.after
    BY <1>5, <2>1, <2>2, ScanType
  <2> QED BY <2>3 DEF Scans, Idle
<1>8. ScanInv'
  <2>1. CASE more
    <3>1. scan.after <= saved.cp
      BY <1>2, <1>4, <1>5 DEF EventInv, ScanInv, Scans, Progresses
    <3>2. ~saved.complete => scan.after = 0
      BY <1>2, <1>4 DEF EventInv, ScanInv
    <3> QED BY <1>2, <1>7, <2>1, <3>1, <3>2 DEF ScanInv
  <2>2. CASE ~more
    BY <1>2, <2>2 DEF ScanInv
  <2> QED BY <2>1, <2>2
<1>9. NoHole'
  <2> SUFFICES ASSUME NEW i \in DOMAIN log, i \notin handled', ~Excused(i)'
               PROVE  Ahead(i)'
    BY <1>2 DEF NoHole
  <2>1. broken \subseteq broken' /\ missed \subseteq missed' /\ i \notin handled /\ i \notin shown
    BY <1>2
  <2>2. ~Excused(i)
    BY <1>2, <2>1 DEF Excused
  <2>3. i \in Found \ shown /\ i \in Nat
    BY <1>2, <1>5, <2>1, <2>2, WaitingIsFound
  <2>4. log[i].cp > scan.after /\ log[i].cp \in Nat
    BY <2>3, EventTypes DEF Found, EventInv
  <2>5. Ahead(i)
    BY <2>1, <2>2 DEF EventInv, NoHole
  <2>6. progress.cp <= log[i].cp
    BY <1>5, <2>4, <2>5 DEF Ahead, Progresses
  <2>7. saved.cp <= log[i].cp /\ saved.cp \in Nat /\ saved.cursor \in Nat
    BY <1>4, <2>3, <2>6 DEF Progresses
  <2>8. i > saved.cursor
    <3>1. CASE next /\ end # 0
      <4>1. i \notin Page
        BY <1>2, <2>1, <3>1 DEF Excused
      <4> QED BY <1>3, <1>4, <2>3, <3>1, <4>1
    <3>2. CASE ~(next /\ end # 0)
      BY <1>4, <1>5, <2>3, <3>2
    <3> QED BY <3>1, <3>2
  <2>9. CASE ~saved.complete
    BY <1>2, <2>4, <2>7, <2>8, <2>9 DEF Ahead
  <2>10. CASE saved.complete /\ log[i].cp > saved.cp
    BY <1>2, <2>4, <2>7, <2>8, <2>10 DEF Ahead
  <2>11. CASE saved.complete /\ log[i].cp = saved.cp
    <3>1. ~torn /\ (more \/ saved.cursor = 0)
      BY <1>2, <2>11 DEF Excused
    <3>2. shown = Page /\ next = HasNextPage /\ end = EndCursor
      BY <3>1
    <3>3. HasNextPage
      BY <2>3, <3>2 DEF HasNextPage
    <3>4. saved.cursor # 0 /\ more
      BY <1>3, <1>4, <2>3, <3>1, <3>2, <3>3
    <3> QED BY <1>2, <1>7, <2>4, <2>7, <2>8, <2>11, <3>4 DEF Ahead
  <2> QED BY <2>4, <2>7, <2>9, <2>10, <2>11
<1> QED BY <1>6, <1>8, <1>9 DEF EventInv

\* Every step of the scan, of the chain and of the other jobs.
LEMMA EventInductive ==
    /\ Init => EventInv
    /\ EventInv /\ [Next]_vars => EventInv'
<1>1. ASSUME Init PROVE EventInv
  <2>1. progress \in Progresses /\ progress.cursor = 0 /\ progress.cp = 0
    BY <1>1 DEF Init, EventInit, Progresses
  <2>2. log = <<>> /\ log \in Seq(Events) /\ gone = 0 /\ scan = Idle
    BY <1>1 DEF Init, EventInit
  <2> QED BY <2>1, <2>2 DEF EventInv, LogInv, ScanInv, NoHole
<1>2. ASSUME EventInv, [Next]_vars PROVE EventInv'
  <2>1. CASE ReadStep \/ UNCHANGED vars
    BY <1>2, <2>1 DEF ReadStep, vars, eventVars, EventInv, LogInv, ScanInv, NoHole, Excused, Ahead
  <2>2. CASE ScanStep
    <3>1. CASE ScanStart
      BY <1>2, <3>1, PruneKeeps
    <3>2. CASE QueryRefused \/ QueryEndpointFails
      <4>1. scan # Idle /\ UNCHANGED <<log, gone, progress, handled, missed, broken>>
        BY <3>2 DEF QueryRefused, QueryEndpointFails
      <4>2. scan \in Scans
        BY <1>2, <4>1 DEF EventInv, ScanInv
      <4>3. \E b \in BOOLEAN : scan' = [scan EXCEPT !.invalid = b]
        BY <3>2, Zenon DEF QueryRefused, QueryEndpointFails
      <4>4. scan' \in Scans /\ scan'.cursor = scan.cursor /\ scan'.after = scan.after
        BY <4>2, <4>3 DEF Scans
      <4> QED BY <1>2, <4>1, <4>4, RetryKeeps
    <3>3. CASE QueryFails
      <4>1. CASE StartsOver
        <5>1. /\ scan # Idle /\ UNCHANGED <<log, gone, progress, handled, missed, broken>>
              /\ scan' = [scan EXCEPT !.cursor = 0, !.page = @ + 1, !.invalid = FALSE]
          BY <3>3, <4>1 DEF QueryFails
        <5>2. scan \in Scans
          BY <1>2, <5>1 DEF EventInv, ScanInv
        <5>3. scan' \in Scans /\ scan'.cursor = 0 /\ scan'.after = scan.after
          BY <5>1, <5>2, ScanType
        <5> QED BY <1>2, <5>1, <5>3, RetryKeeps
      <4>2. CASE ~StartsOver
        BY <1>2, <3>3, <4>2, EndKeeps DEF QueryFails
      <4> QED BY <4>1, <4>2
    <3>4. CASE ScanPage
      BY <1>2, <3>4, PageKeeps
    <3>5. CASE ScanPageFails
      BY <1>2, <3>5, EndKeeps DEF ScanPageFails
    <3> QED BY <2>2, <3>1, <3>2, <3>3, <3>4, <3>5 DEF ScanStep, EventStep
  <2>3. CASE ChainStep
    <3>1. CASE Restart
      BY <1>2, <3>1, EndKeeps DEF Restart
    <3>2. CASE Prune
      BY <1>2, <3>2, PruneKeeps
    <3>3. CASE \E n \in 1..2 : \E kinds \in [1..n -> EventKinds] : Mint(kinds)
      BY <1>2, <3>3, MintKeeps
    <3> QED BY <2>3, <3>1, <3>2, <3>3 DEF ChainStep
  <2> QED BY <1>2, <2>1, <2>2, <2>3 DEF Next
<1> QED BY <1>1, <1>2

\* The saved progress has no hole, for any page size, page limit, number of
\* events and faults: no lost cursor, failed commit, restart or page limit makes
\* the scans pass over an event, but for the rest of a checkpoint in the middle
\* of which a scan after the backfill ended.
THEOREM ScanHasNoHole == Spec => []NothingPassedOver
  BY EventInductive, NoHoleSuffices, PTL DEF Spec

-----------------------------------------------------------------------------
(***************************************************************************)
(* The pages of get_coins.                                                 *)
(***************************************************************************)

\* Ascending lists every member of a finite set once, in order.
LEMMA AscendingFacts ==
    ASSUME NEW S, \A k \in S : k \in Int, IsFiniteSet(S)
    PROVE  /\ Ascending(S) \in Seq(S)
           /\ \A i, j \in DOMAIN Ascending(S) : i < j => Ascending(S)[i] < Ascending(S)[j]
           /\ \A x \in S : \E i \in DOMAIN Ascending(S) : Ascending(S)[i] = x
<1> DEFINE n == Cardinality(S)
           s == Ascending(S)
<1>1. n \in Nat
  BY FS_CardinalityType
<1>2. s \in [1..n -> S] /\ \A i, j \in DOMAIN s : i < j => s[i] < s[j]
  BY ListedInOrder DEF Ascending
<1>3. \A x \in S : \E i \in 1..n : s[i] = x
  <2> HIDE DEF s
  <2> QED BY <1>2, OrderedIsOnto
<1> HIDE DEF s, n
<1>4. s \in Seq(S)
  BY <1>1, <1>2, SeqDef
<1> QED BY <1>2, <1>3, <1>4 DEF s

\* What one page of a listing adds: all of it, or all up to its last member.
LEMMA ListedFacts ==
    ASSUME NEW e \in Endpoints, NEW c \in Nat, world \in [Endpoints -> SUBSET Items],
           NEW page, page = FirstOf(Listed(e, c), PageSize)
    PROVE  /\ page \subseteq Items /\ IsFiniteSet(page)
           /\ \A i \in page : i \in Nat /\ i > c
           /\ page # Listed(e, c) =>
                /\ Max(page) \in page /\ \A i \in page : i <= Max(page)
                /\ \A i \in world[e] : i > c /\ i <= Max(page) => i \in page
           /\ page = Listed(e, c) => \A i \in world[e] : i > c => i \in page
<1> DEFINE L == Listed(e, c)
<1>1. L \subseteq Items /\ (\A i \in L : i \in Nat /\ i > c) /\ \A i \in world[e] : i > c => i \in L
  BY ClientAssumption DEF Listed
<1>2. IsFiniteSet(L)
  BY <1>1, ClientAssumption, FS_Subset
<1> HIDE DEF L
<1>3. /\ page \subseteq L
      /\ \A j \in page, i \in L \ page : j < i
      /\ L # {} => page # {}
  BY <1>1, <1>2, FirstOfFacts, ClientAssumption DEF L
<1>4. IsFiniteSet(page)
  BY <1>2, <1>3, FS_Subset
<1>5. ASSUME page # L
      PROVE  /\ Max(page) \in page /\ \A i \in page : i <= Max(page)
             /\ \A i \in L : i <= Max(page) => i \in page
  <2>1. PICK n \in L : n \notin page
    BY <1>3, <1>5
  <2>2. n \in Nat /\ (\A k \in page : k \in Nat) /\ page # {} /\ \A k \in page : k <= n
    BY <1>1, <1>3, <2>1
  <2>3. Max(page) \in page /\ \A i \in page : i <= Max(page)
    BY <2>2, HasGreatest
  <2>4. ASSUME NEW i \in L, i <= Max(page), i \notin page
        PROVE  FALSE
    <3>1. Max(page) < i /\ i \in Nat /\ Max(page) \in Nat
      BY <1>1, <1>3, <2>3, <2>4
    <3> QED BY <2>4, <3>1
  <2> QED BY <2>3, <2>4
<1> QED BY <1>1, <1>3, <1>4, <1>5 DEF L

\* The endpoints hold items, the steady ones at least.
WorldInv ==
    /\ world \in [Endpoints -> SUBSET Items]
    /\ \A e \in Endpoints : steady \subseteq world[e]

\* A listing that runs or has ended: no coin twice, none beyond the cursor, and
\* every steady one up to the cursor; at the end the others are unread.
CoinsRead ==
    /\ proc \in [pc : {"coins", "done"}, cursor : Nat, out : Seq(Items), unread : SUBSET Items]
    /\ \A i, j \in DOMAIN proc.out : proc.out[i] = proc.out[j] => i = j
    /\ proc.pc = "coins" => \A j \in DOMAIN proc.out : proc.out[j] <= proc.cursor
    /\ \A i \in steady : (proc.pc = "coins" => i <= proc.cursor) =>
          i \in proc.unread \/ \E j \in DOMAIN proc.out : proc.out[j] = i
    /\ proc.pc = "coins" => proc.unread = {}

\* Only get_coins has a list of coins.
CoinsInv ==
    /\ WorldInv
    /\ "pc" \in DOMAIN proc
    /\ job = "coins" /\ "out" \in DOMAIN proc => CoinsRead
    /\ job # "coins" => "out" \notin DOMAIN proc
    /\ "out" \notin DOMAIN proc => proc.pc # "coins"

\* A page keeps the invariant: it adds what lies between the old cursor and the
\* new one, whichever endpoint it comes from.
LEMMA CoinsPageKeeps ==
    ASSUME CoinsInv, job = "coins", UNCHANGED job, CoinsPage
    PROVE  CoinsInv'
<1> DEFINE L == Listed(at, proc.cursor)
           page == FirstOf(L, PageSize)
           new == Ascending(page)
           out == proc.out
<1>0. PICK more \in BOOLEAN :
         /\ more => page # L
         /\ proc' = [proc EXCEPT !.pc = IF more THEN @ ELSE "done",
                                 !.cursor = IF more THEN Max(page) ELSE @,
                                 !.out = @ \o new,
                                 !.unread = IF more THEN {} ELSE L \ page]
  BY DEF CoinsPage, CoinsKept
<1> DEFINE unread == IF more THEN {} ELSE L \ page
<1>1. /\ CoinsRead /\ WorldInv /\ at \in Endpoints /\ proc.pc = "coins"
      /\ UNCHANGED <<world, steady>>
      /\ proc' = [proc EXCEPT !.pc = IF more THEN @ ELSE "done",
                              !.cursor = IF more THEN Max(page) ELSE @,
                              !.out = @ \o new, !.unread = unread]
  BY <1>0 DEF CoinsInv, CoinsPage, CoinsRead, Trying, clientVars
<1>2. /\ proc \in [pc : {"coins", "done"}, cursor : Nat, out : Seq(Items), unread : SUBSET Items]
      /\ proc.cursor \in Nat /\ out \in Seq(Items)
      /\ \A i, j \in DOMAIN out : out[i] = out[j] => i = j
      /\ \A j \in DOMAIN out : out[j] <= proc.cursor /\ out[j] \in Nat
      /\ \A i \in steady : i <= proc.cursor => \E j \in DOMAIN out : out[j] = i
      /\ proc.unread = {}
  BY <1>1, ClientAssumption DEF CoinsRead
<1>3. /\ page \subseteq Items /\ IsFiniteSet(page)
      /\ \A i \in page : i \in Nat /\ i > proc.cursor
      /\ more => /\ Max(page) \in page /\ \A i \in page : i <= Max(page)
                 /\ \A i \in world[at] : i > proc.cursor /\ i <= Max(page) => i \in page
      /\ ~more => \A i \in world[at] : i > proc.cursor => i \in page \/ i \in unread
      /\ unread \in SUBSET Items
  <2>1. /\ page \subseteq Items /\ IsFiniteSet(page)
        /\ \A i \in page : i \in Nat /\ i > proc.cursor
        /\ page # L => /\ Max(page) \in page /\ \A i \in page : i <= Max(page)
                       /\ \A i \in world[at] : i > proc.cursor /\ i <= Max(page) => i \in page
    BY <1>1, <1>2, ListedFacts DEF WorldInv
  <2>2. L \subseteq Items /\ \A i \in world[at] : i > proc.cursor => i \in L
    BY <1>1 DEF Listed, WorldInv
  <2> HIDE DEF L, page
  <2> QED BY <1>0, <2>1, <2>2
<1>4. steady \subseteq world[at] /\ \A i \in steady : i \in Nat
  BY <1>1, ClientAssumption DEF WorldInv
<1> HIDE DEF L, page, unread
<1>5. /\ new \in Seq(page)
      /\ \A i, j \in DOMAIN new : i < j => new[i] < new[j]
      /\ \A x \in page : \E i \in DOMAIN new : new[i] = x
  BY <1>3, AscendingFacts
<1> HIDE DEF new, out
<1>6. /\ new \in Seq(Items) /\ DOMAIN new = 1..Len(new) /\ Len(new) \in Nat
      /\ \A i \in DOMAIN new : new[i] \in page /\ new[i] \in Nat /\ new[i] > proc.cursor
  <2>1. DOMAIN new = 1..Len(new) /\ Len(new) \in Nat /\ \A i \in DOMAIN new : new[i] \in page
    BY <1>5
  <2>2. new \in Seq(Items)
    BY <1>3, <1>5, <2>1
  <2> QED BY <1>3, <2>1, <2>2
<1>7. \A i, j \in DOMAIN new : new[i] = new[j] => i = j
  BY <1>5, <1>6
<1> DEFINE all == out \o new
<1>8. /\ all \in Seq(Items) /\ DOMAIN all = 1..(Len(out) + Len(new)) /\ Len(out) \in Nat
      /\ DOMAIN out = 1..Len(out)
      /\ \A i \in DOMAIN out : all[i] = out[i]
      /\ \A i \in DOMAIN new : all[Len(out) + i] = new[i]
  BY <1>2, <1>6
<1> HIDE DEF all
<1>9. \A k \in DOMAIN all : \/ k \in DOMAIN out /\ all[k] = out[k]
                            \/ k - Len(out) \in DOMAIN new /\ all[k] = new[k - Len(out)]
  <2> TAKE k \in DOMAIN all
  <2>1. CASE k <= Len(out)
    BY <1>8, <2>1
  <2>2. CASE ~(k <= Len(out))
    <3>1. k - Len(out) \in DOMAIN new /\ Len(out) + (k - Len(out)) = k
      BY <1>6, <1>8, <2>2
    <3> QED BY <1>8, <3>1
  <2> QED BY <2>1, <2>2
<1>10. \A i, j \in DOMAIN all : all[i] = all[j] => i = j
  <2> SUFFICES ASSUME NEW i \in DOMAIN all, NEW j \in DOMAIN all, all[i] = all[j]
               PROVE  i = j
    OBVIOUS
  <2>1. i \in Int /\ j \in Int
    BY <1>6, <1>8
  <2>2. CASE i \in DOMAIN out /\ j \in DOMAIN out
    BY <1>2, <1>8, <2>2
  <2>3. CASE i \notin DOMAIN out /\ j \notin DOMAIN out
    <3>1. i - Len(out) = j - Len(out)
      BY <1>7, <1>9, <2>3
    <3> QED BY <1>8, <2>1, <3>1
  <2>4. CASE i \in DOMAIN out /\ j \notin DOMAIN out
    BY <1>2, <1>6, <1>8, <1>9, <2>4
  <2>5. CASE i \notin DOMAIN out /\ j \in DOMAIN out
    BY <1>2, <1>6, <1>8, <1>9, <2>5
  <2> QED BY <2>2, <2>3, <2>4, <2>5
<1>11. \A i \in steady : (i <= proc.cursor \/ i \in page) => \E k \in DOMAIN all : all[k] = i
  <2> TAKE i \in steady
  <2>1. CASE i <= proc.cursor
    <3>1. PICK j \in DOMAIN out : out[j] = i
      BY <1>2, <2>1
    <3>2. j \in DOMAIN all /\ all[j] = i
      BY <1>6, <1>8, <3>1
    <3> QED BY <3>2
  <2>2. CASE i \in page
    <3>1. PICK j \in DOMAIN new : new[j] = i
      BY <1>5, <2>2
    <3>2. Len(out) + j \in DOMAIN all /\ all[Len(out) + j] = i
      BY <1>6, <1>8, <3>1
    <3> QED BY <3>2
  <2> QED BY <2>1, <2>2
<1>12. /\ proc'.out = all /\ proc'.unread = unread
       /\ proc'.pc = IF more THEN "coins" ELSE "done"
       /\ proc'.cursor = IF more THEN Max(page) ELSE proc.cursor
       /\ proc' \in [pc : {"coins", "done"}, cursor : Nat, out : Seq(Items), unread : SUBSET Items]
  <2>1. /\ proc'.out = all /\ proc'.unread = unread
        /\ proc'.pc = IF more THEN "coins" ELSE "done"
        /\ proc'.cursor = IF more THEN Max(page) ELSE proc.cursor
        /\ proc' = [pc |-> proc'.pc, cursor |-> proc'.cursor, out |-> proc'.out,
                    unread |-> proc'.unread]
    BY <1>1, <1>2 DEF all, out
  <2>2. /\ proc'.cursor \in Nat /\ proc'.pc \in {"coins", "done"} /\ proc'.out \in Seq(Items)
        /\ proc'.unread \in SUBSET Items
    BY <1>2, <1>3, <1>8, <2>1
  <2> QED BY <2>1, <2>2
<1>13. more => \A k \in DOMAIN all : all[k] <= Max(page)
  <2> SUFFICES ASSUME more, NEW k \in DOMAIN all PROVE all[k] <= Max(page)
    OBVIOUS
  <2>1. Max(page) \in Nat /\ Max(page) > proc.cursor
    BY <1>3
  <2>2. CASE k \in DOMAIN out /\ all[k] = out[k]
    BY <1>2, <2>1, <2>2
  <2>3. CASE k - Len(out) \in DOMAIN new /\ all[k] = new[k - Len(out)]
    BY <1>3, <1>6, <2>3
  <2> QED BY <1>9, <2>2, <2>3
<1>14. \A i \in steady : (more => i <= Max(page)) =>
          (i <= proc.cursor \/ i \in page \/ i \in unread)
  BY <1>2, <1>3, <1>4
<1>15. CoinsRead'
  <2>1. steady' = steady
    BY <1>1
  <2>2. \A i, j \in DOMAIN proc'.out : proc'.out[i] = proc'.out[j] => i = j
    BY <1>10, <1>12
  <2>3. proc'.pc = "coins" => more /\ proc'.cursor = Max(page)
    BY <1>12
  <2>4. proc'.pc = "coins" => \A j \in DOMAIN proc'.out : proc'.out[j] <= proc'.cursor
    BY <1>12, <1>13, <2>3
  <2>5. more => proc'.pc = "coins" /\ proc'.cursor = Max(page)
    BY <1>12
  <2>6. \A i \in steady : (proc'.pc = "coins" => i <= proc'.cursor) =>
          i \in proc'.unread \/ \E j \in DOMAIN proc'.out : proc'.out[j] = i
    BY <1>11, <1>12, <1>14, <2>5
  <2>7. proc'.pc = "coins" => proc'.unread = {}
    BY <1>12, <2>3 DEF unread
  <2> QED BY <1>12, <2>1, <2>2, <2>4, <2>6, <2>7 DEF CoinsRead
<1>16. WorldInv'
  BY <1>1 DEF WorldInv
<1> QED BY <1>12, <1>15, <1>16 DEF CoinsInv

\* A start makes steady what all endpoints hold.
LEMMA SteadyBegins ==
    ASSUME WorldInv, UNCHANGED world, steady' = {i \in Items : \A e \in Endpoints : i \in world[e]}
    PROVE  WorldInv'
  BY DEF WorldInv

\* Every step keeps the invariant.
LEMMA CoinsInductive == CoinsInv /\ [Next]_vars => CoinsInv'
<1> SUFFICES ASSUME CoinsInv, [Next]_vars PROVE CoinsInv'
  OBVIOUS
<1>1. CASE ReadStep /\ job = "coins" /\ CoinsStep
  <2>1. CASE CoinsStart
    <3>1. WorldInv'
      BY <2>1, SteadyBegins DEF CoinsInv, CoinsStart
    <3>2. /\ proc' = [pc |-> "coins", cursor |-> 0, out |-> <<>>, unread |-> {}]
          /\ UNCHANGED job /\ \A i \in steady' : i \in Nat /\ i # 0
      BY <1>1, <2>1, ClientAssumption DEF CoinsStart, ReadStep
    <3>3. CoinsRead'
      BY <3>2 DEF CoinsRead
    <3> QED BY <1>1, <3>1, <3>2, <3>3 DEF CoinsInv
  <2>2. CASE CoinsPage
    BY <1>1, <2>2, CoinsPageKeeps DEF ReadStep
  <2>3. CASE CoinsGarbled \/ CoinsFail
    BY <1>1, <2>3 DEF CoinsGarbled, CoinsFail, GiveUp, clientVars, CoinsInv, WorldInv, ReadStep
  <2>4. CASE proc.pc = "coins" /\ EndpointFails /\ UNCHANGED <<proc, clientVars>>
    BY <1>1, <2>4 DEF clientVars, CoinsInv, WorldInv, CoinsRead, ReadStep
  <2> QED BY <1>1, <2>1, <2>2, <2>3, <2>4 DEF CoinsStep
<1>2. CASE ReadStep /\ job = "ticks" /\ (TicksStep \/ \E dex \in Dexes : TicksStart(dex))
  <2>1. CASE \E dex \in Dexes : TicksStart(dex)
    <3>1. WorldInv'
      BY <2>1, SteadyBegins DEF CoinsInv, TicksStart
    <3> QED BY <1>2, <2>1, <3>1 DEF CoinsInv, TicksStart, ReadStep
  <2>2. CASE TicksStep
    <3>1. UNCHANGED <<world, steady, job>>
      BY <1>2, <2>2 DEF TicksStep, PoolAnswer, PoolGarbled, ListPage, ListFails, ReadEntry,
                        ReadFails, PageDone, GiveUp, clientVars, ReadStep
    <3>2. "out" \notin DOMAIN proc /\ "pc" \in DOMAIN proc
      BY <1>2 DEF CoinsInv
    <3>3. "out" \notin DOMAIN proc' /\ "pc" \in DOMAIN proc' /\ proc'.pc # "coins"
      <4>1. CASE PoolAnswer
        BY <3>2, <4>1 DEF PoolAnswer
      <4>2. CASE PoolGarbled \/ ListFails
        BY <4>2 DEF PoolGarbled, ListFails, GiveUp
      <4>3. CASE ListPage
        BY <3>2, <4>3 DEF ListPage, Finish
      <4>4. CASE ReadEntry
        BY <3>2, <4>4 DEF ReadEntry
      <4>5. CASE ReadFails
        BY <3>2, <4>5 DEF ReadFails
      <4>6. CASE PageDone
        BY <3>2, <4>6 DEF PageDone, Finish
      <4>7. CASE proc.pc \in {"pool", "list", "read"} /\ UNCHANGED proc
        BY <3>2, <4>7
      <4> QED BY <2>2, <4>1, <4>2, <4>3, <4>4, <4>5, <4>6, <4>7 DEF TicksStep
    <3> QED BY <1>2, <3>1, <3>3 DEF CoinsInv, WorldInv
  <2> QED BY <1>2, <2>1, <2>2
<1>3. CASE ReadStep /\ \E e \in Endpoints, i \in Items : Change(e, i)
  <2>1. PICK e \in Endpoints, i \in Items : Change(e, i)
    BY <1>3
  <2>2. WorldInv'
    BY <2>1 DEF Change, CoinsInv, WorldInv
  <2>3. CoinsRead => CoinsRead'
    BY <2>1 DEF Change, CoinsRead
  <2> QED BY <1>3, <2>1, <2>2, <2>3 DEF Change, CoinsInv, ReadStep
<1>4. CASE ScanStep \/ ChainStep \/ UNCHANGED vars
  BY <1>4 DEF ScanStep, ChainStep, vars, clientVars, CoinsInv, WorldInv, CoinsRead
<1> QED BY <1>1, <1>2, <1>3, <1>4 DEF Next, ReadStep

\* For any endpoints, coins and pages: get_coins counts no coin twice and misses
\* none that every endpoint held throughout, but for those behind a page that
\* came without its hasNextPage or nextCursor.
THEOREM CoinsAreComplete == Spec => []CoinsComplete
<1>1. Init => CoinsInv
  BY DEF Init, ClientInit, CoinsInv, WorldInv, Idle
<1>2. CoinsInv => CoinsComplete
  BY DEF CoinsInv, CoinsRead, CoinsComplete
<1> QED BY <1>1, <1>2, CoinsInductive, PTL DEF Spec

-----------------------------------------------------------------------------
(***************************************************************************)
(* The ticks of a pool.  First what the operators compute.                 *)
(***************************************************************************)

\* Encoding and decoding of two's complement are inverse: an index is asked for
\* by the bits that are read as that index.
LEMMA RawRoundTrip ==
    ASSUME NEW v \in -SignBit..(SignBit - 1), NEW bits \in 0..(2 * SignBit - 1)
    PROVE  EncodeRaw(v) = bits <=> DecodeRaw(bits) = v
<1> USE TickAssumption
<1>1. CASE v < 0
  <2>1. v % (2 * SignBit) = v + 2 * SignBit
    BY <1>1
  <2> QED BY <1>1, <2>1 DEF DecodeRaw, EncodeRaw
<1>2. CASE v >= 0
  <2>1. v % (2 * SignBit) = v
    BY <1>2
  <2> QED BY <1>2, <2>1 DEF DecodeRaw, EncodeRaw
<1> QED BY <1>1, <1>2

\* What is read from the bits are numbers.
LEMMA TickTypes ==
    ASSUME NEW i \in Items
    PROVE  /\ LiquidityNet(i) \in Int
           /\ \A dex \in Dexes : TickIndex(dex, i) \in Int
<1>1. \A n \in Nat : DecodeSui(n) \in Int
  BY DEF DecodeSui
<1>2. \A n \in Nat : DecodeRaw(n) \in Int
  BY TickAssumption DEF DecodeRaw
<1>3. NetBits[i] \in Nat /\ \A dex \in Dexes : IndexBits[dex][i] \in Nat
  BY PoolAssumption, TickAssumption
<1> QED BY <1>1, <1>2, <1>3 DEF LiquidityNet, TickIndex

\* Rust's division is corrected to the floor.
LEMMA DivFloorFacts ==
    ASSUME NEW a \in Int, NEW b \in Nat \ {0}
    PROVE  /\ DivFloor(a, b) \in Int
           /\ DivFloor(a, b) * b <= a /\ a < DivFloor(a, b) * b + b
<1> DEFINE d == TruncDiv(a, b)
<1>1. CASE a >= 0
  <2>1. d = a \div b
    BY <1>1 DEF TruncDiv
  <2>2. d \in Int /\ a = b * d + (a % b) /\ a % b \in 0..(b - 1)
    BY <2>1
  <2> HIDE DEF d
  <2>3. a - b * d >= 0 /\ a - b * d < b /\ b * d = d * b /\ b * d \in Int
    BY <2>2
  <2>4. DivFloor(a, b) = d
    BY <2>2, <2>3 DEF DivFloor, d
  <2> QED BY <2>2, <2>3, <2>4
<1>2. CASE a < 0
  <2> DEFINE q == (-a) \div b
  <2>1. d = -q
    BY <1>2 DEF TruncDiv
  <2>2. q \in Int /\ -a = b * q + ((-a) % b) /\ (-a) % b \in 0..(b - 1)
    OBVIOUS
  <2> HIDE DEF d, q
  <2>3. d \in Int /\ b * d = -(b * q) /\ b * d = d * b /\ b * q \in Int
    BY <2>1, <2>2
  <2>4. a - b * d <= 0 /\ a - b * d > -b /\ b * d \in Int
    BY <2>2, <2>3
  <2>5. DivFloor(a, b) = IF a - b * d # 0 THEN d - 1 ELSE d
    BY <2>3, <2>4 DEF DivFloor, d
  <2>6. (d - 1) * b = b * d - b
    BY <2>3
  <2> QED BY <2>3, <2>4, <2>5, <2>6
<1> QED BY <1>1, <1>2

\* The aligned ticks are the multiples of the spacing inside the window.
LEMMA AlignedFacts ==
    /\ IsFiniteSet(AlignedTicks)
    /\ \A t \in AlignedTicks : t \in Int /\ TickInWindow(t)
    /\ \A t \in Int : TickInWindow(t) /\ t % Spacing = 0 => t \in AlignedTicks
<1> DEFINE low == Current - Window
           d == DivFloor(low, Spacing)
           top == 2 * Window + Spacing
<1>1. /\ low \in Int /\ Spacing \in Nat \ {0} /\ Window \in Nat /\ Current \in Int
      /\ d \in Int /\ d * Spacing <= low /\ low < d * Spacing + Spacing
  BY DivFloorFacts, TickAssumption
<1>2. AlignedTicks = {t \in {d * Spacing + k * Spacing : k \in 0..top} :
                         t >= low /\ t <= Current + Window}
  BY DEF AlignedTicks
<1> HIDE DEF d
<1>3. \A t \in AlignedTicks : t \in Int /\ t \in low..(Current + Window) /\ TickInWindow(t)
  BY <1>1, <1>2 DEF TickInWindow
<1>4. IsFiniteSet(AlignedTicks)
  <2>1. IsFiniteSet(low..(Current + Window))
    BY <1>1, FS_Interval
  <2>2. AlignedTicks \in SUBSET (low..(Current + Window))
    BY <1>3
  <2> QED BY <2>1, <2>2, FS_Subset
<1>5. ASSUME NEW t \in Int, TickInWindow(t), t % Spacing = 0
      PROVE  t \in AlignedTicks
  <2> DEFINE q == t \div Spacing
             k == q - d
  <2>1. q \in Int /\ t = Spacing * q
    BY <1>1, <1>5
  <2> HIDE DEF q
  <2>2. k \in Int /\ k * Spacing = Spacing * q - d * Spacing
    BY <1>1, <2>1
  <2>3. k * Spacing = t - d * Spacing /\ d * Spacing \in Int /\ t >= low /\ t <= Current + Window
    BY <1>1, <1>5, <2>1, <2>2 DEF TickInWindow
  <2>4. k * Spacing \in Int /\ k * Spacing >= 0 /\ k * Spacing <= top
    BY <1>1, <2>3
  <2> HIDE DEF k
  <2>5. k >= 0
    <3>1. ASSUME k < 0 PROVE k * Spacing < 0
      BY <1>1, <2>2, <3>1
    <3> QED BY <2>2, <2>4, <3>1
  <2>6. k <= k * Spacing
    BY <1>1, <2>2, <2>5
  <2>7. k \in 0..top /\ t = d * Spacing + k * Spacing
    BY <1>1, <2>1, <2>2, <2>3, <2>4, <2>5, <2>6
  <2> QED BY <1>2, <2>3, <2>7
<1> QED BY <1>3, <1>4, <1>5

Ticks == [index : Int, net : Int]

\* finalize_ticks returns members of the list, one for each index, in order.
LEMMA FinalizeFacts ==
    ASSUME NEW s \in Seq(Ticks), NEW r, r = FinalizeTicks(s)
    PROVE  /\ r \in Seq(Ticks)
           /\ \A k, l \in DOMAIN r : k < l => r[k].index < r[l].index
           /\ \A k \in DOMAIN r : \E l \in DOMAIN s : r[k] = s[l]
           /\ \A l \in DOMAIN s : \E k \in DOMAIN r : r[k].index = s[l].index
<1> DEFINE S == {s[k].index : k \in DOMAIN s}
           a == Ascending(S)
           At(x) == {k \in DOMAIN s : s[k].index = x}
<1>1. /\ DOMAIN s = 1..Len(s) /\ Len(s) \in Nat
      /\ \A k \in DOMAIN s : s[k] \in Ticks /\ s[k].index \in Int
  <2>1. DOMAIN s = 1..Len(s) /\ Len(s) \in Nat /\ \A k \in DOMAIN s : s[k] \in Ticks
    OBVIOUS
  <2>2. \A t \in Ticks : t.index \in Int
    BY DEF Ticks
  <2> QED BY <2>1, <2>2
<1>2. (\A x \in S : x \in Int) /\ IsFiniteSet(S)
  <2>1. [k \in 1..Len(s) |-> s[k].index] \in Surjection(1..Len(s), S)
    BY <1>1 DEF Surjection
  <2>2. IsFiniteSet(1..Len(s))
    BY <1>1, FS_Interval
  <2>3. IsFiniteSet(S)
    <3> HIDE DEF S
    <3> QED BY <2>1, <2>2, FS_Surjection
  <2> QED BY <1>1, <2>3
<1>3. \A x \in S : Min(At(x)) \in DOMAIN s /\ s[Min(At(x))].index = x
  <2> TAKE x \in S
  <2>1. At(x) # {} /\ (\A k \in At(x) : k \in Int) /\ At(x) \in SUBSET (1..Len(s))
    BY <1>1
  <2>2. IsFiniteSet(At(x))
    <3>1. IsFiniteSet(1..Len(s))
      BY <1>1, FS_Interval
    <3> HIDE DEF At
    <3> QED BY <2>1, <3>1, FS_Subset
  <2>3. Min(At(x)) \in At(x)
    <3> HIDE DEF At
    <3> QED BY <2>1, <2>2, FiniteMin
  <2> QED BY <2>3
<1>4. r = [n \in DOMAIN a |-> s[Min(At(a[n]))]]
  BY DEF FinalizeTicks
<1>5. \A l \in DOMAIN s : s[l].index \in S
  OBVIOUS
<1> HIDE DEF S
<1>6. /\ a \in Seq(S)
      /\ \A i, j \in DOMAIN a : i < j => a[i] < a[j]
      /\ \A x \in S : \E i \in DOMAIN a : a[i] = x
  BY <1>2, AscendingFacts
<1> HIDE DEF a, At
<1>7. \A n \in DOMAIN a : a[n] \in S /\ r[n] \in Ticks /\ r[n].index = a[n]
                          /\ \E l \in DOMAIN s : r[n] = s[l]
  BY <1>1, <1>3, <1>4, <1>6
<1>8. r \in Seq(Ticks) /\ DOMAIN r = DOMAIN a
  <2>1. DOMAIN a = 1..Len(a) /\ Len(a) \in Nat /\ DOMAIN r = DOMAIN a
    BY <1>4, <1>6
  <2>2. r \in [1..Len(a) -> Ticks]
    BY <1>4, <1>7, <2>1
  <2> QED BY <2>1, <2>2, SeqDef
<1>9. \A k, l \in DOMAIN r : k < l => r[k].index < r[l].index
  <2> TAKE k, l \in DOMAIN r
  <2>1. k \in DOMAIN a /\ l \in DOMAIN a /\ r[k].index = a[k] /\ r[l].index = a[l]
    BY <1>7, <1>8
  <2> QED BY <1>6, <2>1
<1>10. \A l \in DOMAIN s : \E k \in DOMAIN r : r[k].index = s[l].index
  <2> TAKE l \in DOMAIN s
  <2>1. PICK k \in DOMAIN a : a[k] = s[l].index
    BY <1>5, <1>6
  <2>2. k \in DOMAIN r /\ r[k].index = s[l].index
    BY <1>7, <1>8, <2>1
  <2> QED BY <2>2
<1> QED BY <1>7, <1>8, <1>9, <1>10


-----------------------------------------------------------------------------
\* The fetch.  TicksExact speaks of the end; on the way, every steady tick that
\* is wanted is listed, was given up, or is still to be read from this page or
\* from one behind the cursor.

Wanted(dex, i) == LiquidityNet(i) # 0 /\ TickInWindow(TickIndex(dex, i))

\* What an entry of the page is called: Turbos goes by index.
KeyOf(dex, i) == IF dex = "turbos" THEN TickIndex(dex, i) ELSE i

Settled(i) ==
    \/ \E k \in DOMAIN proc.ticks : proc.ticks[k] = TickOf(proc.dex, i)
    \/ KeyOf(proc.dex, i) \in proc.unread

Fetches == [pc : {"pool", "list", "read", "done"}, dex : Dexes, cursor : Nat, next : Nat,
            pages : Nat, left : SUBSET Int, unread : SUBSET Int, ticks : Seq(Ticks)]

\* Types; no tick is made up; the entries of a page exist or are aligned.
FetchType ==
    /\ proc \in Fetches
    /\ \A k \in DOMAIN proc.ticks : \E i \in Items :
          proc.ticks[k] = TickOf(proc.dex, i) /\ TickInWindow(TickIndex(proc.dex, i))
    /\ IsFiniteSet(proc.left)
    /\ proc.left \subseteq (IF proc.dex = "turbos" THEN AlignedTicks ELSE Items)

PoolInv == proc.pc = "pool" => proc.cursor = 0 /\ proc.pages = 0 /\ proc.next = 0

ListInv ==
    proc.pc = "list" =>
        /\ proc.dex # "turbos" /\ proc.pages < MaxTickPages
        /\ \A i \in steady : Wanted(proc.dex, i) /\ i <= proc.cursor => Settled(i)

PageInv ==
    proc.pc = "read" =>
        /\ proc.pages <= MaxTickPages
        /\ proc.left = {} => at = 0
        /\ proc.dex = "turbos" => proc.next = 0
        /\ \A i \in steady : Wanted(proc.dex, i) /\ (proc.next # 0 => i <= proc.next) =>
              Settled(i) \/ KeyOf(proc.dex, i) \in proc.left

FetchInv == FetchType /\ PoolInv /\ ListInv /\ PageInv /\ TicksExact

\* Only fetch_tick_data has a list of ticks.
TicksInv ==
    /\ WorldInv
    /\ "pc" \in DOMAIN proc
    /\ job = "ticks" /\ "ticks" \in DOMAIN proc => FetchInv
    /\ job # "ticks" => "ticks" \notin DOMAIN proc
    /\ "ticks" \notin DOMAIN proc => proc.pc \notin {"pool", "list", "read"}

\* The fields of a fetch.
LEMMA FetchFields ==
    ASSUME FetchType
    PROVE  /\ DOMAIN proc = {"pc", "dex", "cursor", "next", "pages", "left", "unread", "ticks"}
           /\ proc.cursor \in Nat /\ proc.next \in Nat /\ proc.pages \in Nat
           /\ proc.dex \in Dexes /\ proc.ticks \in Seq(Ticks)
           /\ proc.left \in SUBSET Int /\ proc.unread \in SUBSET Int
           /\ proc.pc \in {"pool", "list", "read", "done"}
  BY DEF FetchType, Fetches

\* A steady item is an item of every endpoint.
LEMMA SteadyFacts ==
    ASSUME WorldInv, NEW i \in steady
    PROVE  /\ i \in Items /\ i \in Nat /\ i # 0 /\ \A dex \in Dexes : TickIndex(dex, i) \in Int
           /\ \A e \in Endpoints : i \in world[e]
<1>1. 1 \in Endpoints
  BY ClientAssumption DEF Endpoints
<1>2. i \in Items
  BY <1>1 DEF WorldInv
<1> QED BY <1>2, ClientAssumption, TickTypes DEF WorldInv

\* Finish: the list is sorted, and a tick is kept because its index is its own.
LEMMA FinishKeeps ==
    ASSUME FetchType, WorldInv, UNCHANGED <<world, steady>>, NEW lost \in SUBSET Int,
           proc' = [Finish EXCEPT !.unread = @ \cup lost],
           \A i \in steady : Wanted(proc.dex, i) =>
              \/ Settled(i) \/ KeyOf(proc.dex, i) \in lost
              \/ proc.pages = MaxTickPages /\ proc.next # 0 /\ i > proc.next
    PROVE  FetchInv'
<1> DEFINE r == FinalizeTicks(proc.ticks)
           s == proc.ticks
           dex == proc.dex
<1>1. s \in Seq(Ticks) /\ dex \in Dexes /\ proc.unread \in SUBSET Int
  BY FetchFields
<1>2. /\ r \in Seq(Ticks)
      /\ \A k, l \in DOMAIN r : k < l => r[k].index < r[l].index
      /\ \A k \in DOMAIN r : \E l \in DOMAIN s : r[k] = s[l]
      /\ \A l \in DOMAIN s : \E k \in DOMAIN r : r[k].index = s[l].index
  BY <1>1, FinalizeFacts
<1>3. proc' = [proc EXCEPT !.pc = "done", !.ticks = r, !.unread = @ \cup lost]
  BY DEF Finish, FetchType, Fetches
<1> HIDE DEF r
<1>4. /\ proc' \in Fetches /\ proc'.pc = "done" /\ proc'.ticks = r
      /\ proc'.dex = dex /\ proc'.left = proc.left /\ proc'.unread = proc.unread \cup lost
      /\ proc'.pages = proc.pages /\ proc'.next = proc.next
  <2>1. proc.unread \cup lost \in SUBSET Int
    BY <1>1
  <2> QED BY <1>2, <1>3, <2>1 DEF FetchType, Fetches
<1>5. \A l \in DOMAIN s : \E i \in Items : s[l] = TickOf(dex, i) /\ TickInWindow(TickIndex(dex, i))
  BY DEF FetchType
<1>6. \A k \in DOMAIN r : \E i \in Items : r[k] = TickOf(dex, i) /\ TickInWindow(TickIndex(dex, i))
  BY <1>2, <1>5
<1>7. ASSUME NEW i \in Items, NEW l \in DOMAIN s, s[l] = TickOf(dex, i)
      PROVE  \E k \in DOMAIN r : r[k] = TickOf(dex, i)
  <2>1. PICK k \in DOMAIN r : r[k].index = s[l].index
    BY <1>2
  <2>2. PICK j \in Items : r[k] = TickOf(dex, j)
    BY <1>6
  <2>3. TickIndex(dex, j) = TickIndex(dex, i)
    BY <1>7, <2>1, <2>2 DEF TickOf
  <2>4. i = j
    BY <1>1, <2>3, PoolAssumption
  <2> QED BY <2>2, <2>4
<1>8. FetchType'
  BY <1>4, <1>6 DEF FetchType, TickOf, TickIndex, TickInWindow, AlignedTicks
<1>9. ASSUME NEW i \in steady, LiquidityNet(i) # 0, TickIndex(dex, i) - Current \in -Window..Window
      PROVE  \/ \E k \in DOMAIN r : r[k] = TickOf(dex, i)
             \/ KeyOf(dex, i) \in proc.unread \cup lost
             \/ proc.pages = MaxTickPages /\ proc.next # 0 /\ i > proc.next
  <2>1. i \in Items /\ TickIndex(dex, i) \in Int
    BY <1>1, SteadyFacts
  <2>2. Wanted(dex, i)
    BY <1>9, <2>1, TickAssumption DEF Wanted, TickInWindow
  <2> QED BY <1>7, <2>1, <2>2 DEF Settled
<1>10. TicksExact'
  <2>1. \A k, l \in DOMAIN proc'.ticks : k < l => proc'.ticks[k].index < proc'.ticks[l].index
    BY <1>2, <1>4
  <2>2. ASSUME NEW k \in DOMAIN proc'.ticks
        PROVE  /\ proc'.ticks[k].index - Current \in -Window..Window
               /\ \E i \in Items : proc'.ticks[k] = TickOf(proc'.dex, i)
    <3>1. PICK i \in Items : r[k] = TickOf(dex, i) /\ TickInWindow(TickIndex(dex, i))
      BY <1>4, <1>6
    <3>2. r[k].index = TickIndex(dex, i) /\ TickIndex(dex, i) \in Int
      BY <1>1, <3>1, TickTypes DEF TickOf
    <3>3. r[k].index - Current \in -Window..Window
      BY <3>1, <3>2, TickAssumption DEF TickInWindow
    <3> QED BY <1>4, <3>1, <3>3
  <2>3. ASSUME NEW i \in steady, LiquidityNet(i) # 0,
               TickIndex(proc'.dex, i) - Current \in -Window..Window
        PROVE  \/ \E k \in DOMAIN proc'.ticks : proc'.ticks[k] = TickOf(proc'.dex, i)
               \/ (IF proc'.dex = "turbos" THEN TickIndex(proc'.dex, i) ELSE i) \in proc'.unread
               \/ proc'.pages = MaxTickPages /\ proc'.next # 0 /\ i > proc'.next
    BY <1>4, <1>9, <2>3 DEF KeyOf
  <2>4. \A i : /\ TickOf(proc'.dex, i).net = LiquidityNet(i)
               /\ TickOf(proc'.dex, i).index = TickIndex(proc'.dex, i)
    BY DEF TickOf
  <2>5. \A i \in steady' :
           LET t == TickOf(proc'.dex, i)
           IN t.net # 0 /\ t.index - Current \in -Window..Window =>
                \/ \E k \in DOMAIN proc'.ticks : proc'.ticks[k] = t
                \/ (IF proc'.dex = "turbos" THEN t.index ELSE i) \in proc'.unread
                \/ proc'.pages = MaxTickPages /\ proc'.next # 0 /\ i > proc'.next
    BY <2>3, <2>4
  <2> QED BY <2>1, <2>2, <2>5 DEF TicksExact
<1> QED BY <1>4, <1>8, <1>10 DEF FetchInv, PoolInv, ListInv, PageInv

\* The answer for the pool: Turbos is to read every aligned tick, the others go
\* to the first page of the listing.
LEMMA PoolAnswerKeeps ==
    ASSUME FetchInv, WorldInv, PoolAnswer
    PROVE  FetchInv'
<1>1. /\ FetchType /\ proc.pc = "pool" /\ proc.cursor = 0 /\ proc.pages = 0 /\ proc.next = 0
      /\ UNCHANGED <<world, steady>>
      /\ proc' = IF proc.dex = "turbos" THEN [proc EXCEPT !.pc = "read", !.left = AlignedTicks]
                 ELSE [proc EXCEPT !.pc = "list"]
  BY DEF FetchInv, PoolInv, PoolAnswer, clientVars
<1>2. \A i \in steady : /\ i \in Items /\ i \in Nat /\ i # 0
                         /\ TickIndex("turbos", i) \in Int /\ TickIndex("turbos", i) % Spacing = 0
  BY SteadyFacts, PoolAssumption DEF Dexes
<1>3. /\ IsFiniteSet(AlignedTicks) /\ AlignedTicks \in SUBSET Int
      /\ \A i \in steady : Wanted("turbos", i) => TickIndex("turbos", i) \in AlignedTicks
  BY <1>2, AlignedFacts DEF Wanted
<1>4. CASE proc.dex = "turbos"
  <2>1. proc' = [proc EXCEPT !.pc = "read", !.left = AlignedTicks]
    BY <1>1, <1>4
  <2>2. /\ proc' \in Fetches /\ proc'.pc = "read" /\ proc'.left = AlignedTicks
        /\ proc'.ticks = proc.ticks /\ proc'.dex = "turbos" /\ proc'.next = 0 /\ proc'.pages = 0
    BY <1>1, <1>3, <1>4, <2>1 DEF FetchType, Fetches
  <2>3. FetchType'
    BY <1>1, <1>3, <2>2 DEF FetchType, TickOf, TickIndex, TickInWindow, AlignedTicks
  <2>4. AlignedTicks = {} => at' = 0
    BY <1>4 DEF PoolAnswer, Ask
  <2>5. PageInv'
    BY <1>1, <1>3, <2>2, <2>4, TickAssumption DEF PageInv, KeyOf, Wanted, TickInWindow, TickIndex, LiquidityNet
  <2> QED BY <2>2, <2>3, <2>5 DEF FetchInv, PoolInv, ListInv, TicksExact
<1>5. CASE proc.dex # "turbos"
  <2>1. proc' = [proc EXCEPT !.pc = "list"]
    BY <1>1, <1>5
  <2>2. /\ proc' \in Fetches /\ proc'.pc = "list" /\ proc'.left = proc.left
        /\ proc'.ticks = proc.ticks /\ proc'.dex = proc.dex /\ proc'.cursor = 0 /\ proc'.pages = 0
    BY <1>1, <2>1 DEF FetchType, Fetches
  <2>3. FetchType'
    BY <1>1, <2>2 DEF FetchType, TickOf, TickIndex, TickInWindow, AlignedTicks
  <2>4. ListInv'
    BY <1>1, <1>2, <1>5, <2>2, TickAssumption DEF ListInv
  <2> QED BY <2>2, <2>3, <2>4 DEF FetchInv, PoolInv, PageInv, TicksExact
<1> QED BY <1>4, <1>5

\* A page of the listing: what it shows of the wanted ticks is to be read, what
\* it lacks is unread, and the end of the listing is beyond every steady item.
LEMMA ListPageKeeps ==
    ASSUME FetchInv, WorldInv, ListPage
    PROVE  FetchInv'
<1> DEFINE rest == Listed(at, proc.cursor)
           page == FirstOf(rest, PageSize)
           lost(shown, c) == IF c = 0 THEN rest \ shown ELSE page \ shown
<1>1. /\ FetchType /\ proc.pc = "list" /\ at \in Endpoints /\ UNCHANGED <<world, steady>>
      /\ proc.dex # "turbos" /\ proc.pages < MaxTickPages
      /\ \A i \in steady : Wanted(proc.dex, i) /\ i <= proc.cursor => Settled(i)
  BY DEF FetchInv, ListInv, ListPage, Trying, clientVars
<1>2. proc.cursor \in Nat /\ proc.pages \in Nat /\ proc.next \in Nat /\ proc.unread \in SUBSET Int
  BY <1>1, FetchFields
<1>3. /\ page \subseteq Items /\ IsFiniteSet(page)
      /\ \A i \in page : i \in Nat /\ i > proc.cursor
      /\ page # rest =>
           /\ Max(page) \in page /\ \A i \in page : i <= Max(page)
           /\ \A i \in world[at] : i > proc.cursor /\ i <= Max(page) => i \in page
  BY <1>1, <1>2, ListedFacts DEF WorldInv
<1>4. /\ rest \subseteq Items /\ rest \in SUBSET Int
      /\ \A i \in world[at] : i > proc.cursor => i \in rest
  <2>1. rest \subseteq world[at] /\ world[at] \subseteq Items /\ Items \subseteq Int
    BY <1>1, ClientAssumption DEF Listed, WorldInv
  <2>2. \A i \in world[at] : i > proc.cursor => i \in rest
    BY DEF Listed
  <2> HIDE DEF rest
  <2> QED BY <2>1, <2>2
<1>5. \A i \in steady : i \in Items /\ i \in Nat /\ i \in world[at]
  BY <1>1, SteadyFacts
<1>6. \/ proc' = [Finish EXCEPT !.unread = @ \cup rest]
      \/ /\ page # {}
         /\ \E shown \in SUBSET page, c \in {0, Max(page)} :
              /\ proc' = [proc EXCEPT !.pc = "read", !.pages = @ + 1, !.left = ToRead(shown),
                                      !.next = c, !.unread = @ \cup lost(shown, c)]
              /\ at' = IF ToRead(shown) # {} THEN 1 ELSE 0
  BY DEF ListPage, Ask
<1> HIDE DEF rest, page
<1>7. CASE proc' = [Finish EXCEPT !.unread = @ \cup rest]
  <2>1. ASSUME NEW i \in steady, Wanted(proc.dex, i)
        PROVE  Settled(i) \/ KeyOf(proc.dex, i) \in rest
    <3>1. CASE i <= proc.cursor
      BY <1>1, <2>1, <3>1
    <3>2. CASE i > proc.cursor
      BY <1>1, <1>4, <1>5, <3>2 DEF KeyOf
    <3> QED BY <1>2, <1>5, <3>1, <3>2
  <2> QED BY <1>1, <1>4, <1>7, <2>1, FinishKeeps
<1>8. CASE /\ page # {}
           /\ \E shown \in SUBSET page, c \in {0, Max(page)} :
                /\ proc' = [proc EXCEPT !.pc = "read", !.pages = @ + 1, !.left = ToRead(shown),
                                        !.next = c, !.unread = @ \cup lost(shown, c)]
                /\ at' = IF ToRead(shown) # {} THEN 1 ELSE 0
  <2>1. PICK shown \in SUBSET page, c \in {0, Max(page)} :
           /\ proc' = [proc EXCEPT !.pc = "read", !.pages = @ + 1, !.left = ToRead(shown),
                                   !.next = c, !.unread = @ \cup lost(shown, c)]
           /\ at' = IF ToRead(shown) # {} THEN 1 ELSE 0
    BY <1>8
  <2> DEFINE want == ToRead(shown)
             skipped == proc.unread \cup lost(shown, c)
  <2>2. Max(page) \in page /\ \A i \in page : i <= Max(page)
    <3>1. \A k \in page : k \in Int
      BY <1>3
    <3> QED BY <1>3, <1>8, <3>1, FiniteMax
  <2>3. c \in Nat /\ (c # 0 => c = Max(page))
    BY <1>3, <2>1, <2>2
  <2>4. /\ want \subseteq shown
        /\ \A i \in shown : TickInWindow(TickIndex(proc.dex, i)) => i \in want
    BY DEF ToRead
  <2>5. lost(shown, c) \in SUBSET Int /\ skipped \in SUBSET Int
    <3>1. page \subseteq Int /\ rest \subseteq Int
      BY <1>3, <1>4
    <3>2. lost(shown, c) \subseteq Int
      BY <3>1
    <3> HIDE DEF lost
    <3> QED BY <1>2, <3>2
  <2>6. \A i \in steady : i > proc.cursor /\ (c # 0 => i <= c) => i \in shown \/ i \in lost(shown, c)
    <3> SUFFICES ASSUME NEW i \in steady, i > proc.cursor, c # 0 => i <= c
                 PROVE  i \in shown \/ i \in lost(shown, c)
      OBVIOUS
    <3>1. i \in rest
      BY <1>4, <1>5
    <3>2. CASE c = 0
      BY <3>1, <3>2
    <3>3. CASE c # 0
      <4>1. i \in page
        BY <1>3, <1>5, <2>3, <3>1, <3>3
      <4> QED BY <3>3, <4>1
    <3> QED BY <3>2, <3>3
  <2> HIDE DEF want
  <2>7. want \in SUBSET Int /\ IsFiniteSet(want) /\ want \subseteq Items
    <3>1. want \subseteq page
      BY <2>1, <2>4
    <3>2. IsFiniteSet(want)
      BY <1>3, <3>1, FS_Subset
    <3> QED BY <1>3, <3>1, <3>2
  <2>8. /\ proc' \in Fetches /\ proc'.pc = "read" /\ proc'.left = want
        /\ proc'.ticks = proc.ticks /\ proc'.dex = proc.dex /\ proc'.next = c
        /\ proc'.pages = proc.pages + 1 /\ proc'.unread = skipped
    <3>1. /\ proc \in Fetches /\ proc.pages + 1 \in Nat
          /\ proc' = [proc EXCEPT !.pc = "read", !.pages = @ + 1, !.left = want, !.next = c,
                                  !.unread = skipped]
      BY <1>1, <1>2, <2>1 DEF FetchType, Fetches, want
    <3> HIDE DEF skipped, lost
    <3> QED BY <2>3, <2>5, <2>7, <3>1 DEF Fetches
  <2>9. FetchType'
    BY <1>1, <2>7, <2>8 DEF FetchType, TickOf, TickIndex, TickInWindow
  <2>10. \A i \in steady : Settled(i) => Settled(i)'
    BY <2>8 DEF Settled, KeyOf, TickOf, TickIndex
  <2> HIDE DEF lost
  <2>11. ASSUME NEW i \in steady, Wanted(proc.dex, i), c # 0 => i <= c
         PROVE  Settled(i)' \/ i \in want
    <3>1. CASE i <= proc.cursor
      BY <1>1, <2>10, <2>11, <3>1
    <3>2. CASE i > proc.cursor /\ i \in shown
      BY <2>4, <2>11, <3>2 DEF Wanted
    <3>3. CASE i > proc.cursor /\ i \in lost(shown, c)
      BY <1>1, <2>8, <3>3 DEF Settled, KeyOf
    <3> QED BY <1>2, <1>5, <2>6, <2>11, <3>1, <3>2, <3>3
  <2>12. PageInv'
    <3>1. proc'.pages <= MaxTickPages
      BY <1>1, <1>2, <2>8, TickAssumption
    <3>2. proc'.left = {} => at' = 0
      BY <2>1, <2>8 DEF want
    <3>3. \A i \in steady' : Wanted(proc'.dex, i) /\ (proc'.next # 0 => i <= proc'.next) =>
              Settled(i)' \/ KeyOf(proc'.dex, i) \in proc'.left
      BY <1>1, <2>8, <2>11 DEF KeyOf
    <3> QED BY <1>1, <2>8, <3>1, <3>2, <3>3
            DEF PageInv, Wanted, TickInWindow, TickIndex, LiquidityNet, KeyOf
  <2> QED BY <2>8, <2>9, <2>12 DEF FetchInv, PoolInv, ListInv, TicksExact
<1> QED BY <1>6, <1>7, <1>8

\* An entry is taken from the page; the next call is made while others are left.
LEMMA EntryTaken ==
    ASSUME FetchInv, proc.pc = "read", at # 0, NEW x, x = Min(proc.left), NEW rest,
           rest = proc.left \ {x}
    PROVE  /\ x \in proc.left /\ rest \in SUBSET Int /\ IsFiniteSet(rest)
           /\ rest \subseteq (IF proc.dex = "turbos" THEN AlignedTicks ELSE Items)
           /\ rest = {} => ~(Cardinality(proc.left) > 1)
<1> DEFINE S == proc.left
<1>1. FetchType /\ S # {} /\ IsFiniteSet(S) /\ S \in SUBSET Int
  BY FetchFields DEF FetchInv, PageInv, FetchType
<1>2. x \in S
  BY <1>1, FiniteMin
<1>3. IsFiniteSet(rest) /\ Cardinality(rest) = Cardinality(S) - 1 /\ Cardinality(S) \in Nat
  BY <1>1, <1>2, FS_RemoveElement, FS_CardinalityType
<1>4. rest = {} => Cardinality(rest) = 0
  BY FS_EmptySet
<1> QED BY <1>1, <1>2, <1>3, <1>4 DEF FetchType

\* What a read adds to the list: the tick behind the entry, if the endpoint has
\* it and it is wanted, and no other.
LEMMA EntryFacts ==
    ASSUME FetchType, WorldInv, at \in Endpoints, NEW x \in proc.left
    PROVE  /\ \A i \in EntryOf(x) :
                /\ i \in Items /\ KeyOf(proc.dex, i) = x
                /\ (IF proc.dex = "turbos" THEN x ELSE TickIndex(proc.dex, i)) = TickIndex(proc.dex, i)
           /\ \A i, j \in EntryOf(x) : i = j
           /\ \A i \in steady : KeyOf(proc.dex, i) = x => i \in EntryOf(x)
<1>1. world[at] \subseteq Items
  BY DEF WorldInv
<1>2. CASE proc.dex # "turbos"
  <2>1. EntryOf(x) = {x} \cap world[at]
    BY <1>2 DEF EntryOf
  <2>2. \A i \in EntryOf(x) : i \in Items /\ i = x
    BY <1>1, <2>1
  <2>3. \A i \in steady : i = x => i \in EntryOf(x)
    BY <2>1, SteadyFacts
  <2> QED BY <1>2, <2>2, <2>3 DEF KeyOf
<1>3. CASE proc.dex = "turbos"
  <2>1. EntryOf(x) = {i \in world[at] : IndexBits["turbos"][i] = EncodeRaw(x)}
    BY <1>3 DEF EntryOf
  <2>2. x \in AlignedTicks
    BY <1>3 DEF FetchType
  <2>3. x \in -SignBit..(SignBit - 1)
    BY <2>2, AlignedFacts, TickAssumption, PoolAssumption DEF TickInWindow
  <2>4. \A i \in Items : IndexBits["turbos"][i] \in 0..(2 * SignBit - 1)
    BY PoolAssumption DEF Dexes
  <2>5. \A i \in Items : IndexBits["turbos"][i] = EncodeRaw(x) <=> TickIndex("turbos", i) = x
    BY <2>3, <2>4, RawRoundTrip DEF TickIndex
  <2>6. \A i \in EntryOf(x) : i \in Items /\ TickIndex("turbos", i) = x
    BY <1>1, <2>1, <2>5
  <2>7. \A i \in steady : TickIndex("turbos", i) = x => i \in EntryOf(x)
    BY <2>1, <2>5, SteadyFacts
  <2>8. \A i, j \in EntryOf(x) : i = j
    BY <2>6, PoolAssumption DEF Dexes
  <2> QED BY <1>3, <2>6, <2>7, <2>8 DEF KeyOf
<1> QED BY <1>2, <1>3

\* A read keeps the invariant: the entry leaves the page for the list.
LEMMA ReadEntryKeeps ==
    ASSUME FetchInv, WorldInv, ReadEntry
    PROVE  FetchInv'
<1> DEFINE x == Min(proc.left)
           rest == proc.left \ {x}
           tick(i) == [index |-> IF proc.dex = "turbos" THEN x ELSE TickIndex(proc.dex, i),
                       net |-> LiquidityNet(i)]
           kept == {t \in {tick(i) : i \in EntryOf(x)} : t.net # 0 /\ TickInWindow(t.index)}
           all == proc.ticks \o SetToSeq(kept)
<1>1. /\ FetchType /\ proc.pc = "read" /\ at \in Endpoints /\ at # 0
      /\ UNCHANGED <<world, steady>>
      /\ proc' = [proc EXCEPT !.left = rest, !.ticks = all]
      /\ at' = IF Cardinality(proc.left) > 1 THEN 1 ELSE 0
  BY DEF FetchInv, ReadEntry, Trying, Endpoints, Ask, clientVars
<1>2. /\ x \in proc.left /\ rest \in SUBSET Int /\ IsFiniteSet(rest)
      /\ rest \subseteq (IF proc.dex = "turbos" THEN AlignedTicks ELSE Items)
      /\ rest = {} => ~(Cardinality(proc.left) > 1)
  <2> HIDE DEF x, rest
  <2> QED BY <1>1, EntryTaken DEF x, rest
<1> HIDE DEF x
<1>3. /\ \A i \in EntryOf(x) : i \in Items /\ KeyOf(proc.dex, i) = x /\ tick(i) = TickOf(proc.dex, i)
      /\ \A i, j \in EntryOf(x) : i = j
      /\ \A i \in steady : KeyOf(proc.dex, i) = x => i \in EntryOf(x)
  BY <1>1, <1>2, EntryFacts DEF TickOf
<1>4. \A t \in kept : \E i \in Items : t = TickOf(proc.dex, i) /\ TickInWindow(TickIndex(proc.dex, i))
  <2> SUFFICES ASSUME NEW t \in kept
               PROVE  \E i \in Items : t = TickOf(proc.dex, i) /\ TickInWindow(TickIndex(proc.dex, i))
    OBVIOUS
  <2>1. PICK i \in EntryOf(x) : t = tick(i)
    OBVIOUS
  <2>2. i \in Items /\ t = TickOf(proc.dex, i) /\ TickInWindow(t.index)
    BY <1>3, <2>1
  <2>3. t.index = TickIndex(proc.dex, i)
    BY <2>2 DEF TickOf
  <2> QED BY <2>2, <2>3
<1>5. \A i \in steady : KeyOf(proc.dex, i) = x /\ Wanted(proc.dex, i) => TickOf(proc.dex, i) \in kept
  <2> SUFFICES ASSUME NEW i \in steady, KeyOf(proc.dex, i) = x, Wanted(proc.dex, i)
               PROVE  TickOf(proc.dex, i) \in kept
    OBVIOUS
  <2>1. i \in EntryOf(x) /\ tick(i) = TickOf(proc.dex, i)
    BY <1>3
  <2>2. TickOf(proc.dex, i).net # 0 /\ TickInWindow(TickOf(proc.dex, i).index)
    BY DEF Wanted, TickOf
  <2> QED BY <2>1, <2>2
<1>6. IsFiniteSet(kept)
  <2>1. CASE EntryOf(x) = {}
    <3>1. kept = {}
      BY <2>1
    <3> QED BY <3>1, FS_EmptySet
  <2>2. CASE EntryOf(x) # {}
    <3>1. PICK i \in EntryOf(x) : TRUE
      BY <2>2
    <3>2. kept \in SUBSET {tick(i)}
      BY <1>3, <3>1
    <3> HIDE DEF kept, tick
    <3>3. IsFiniteSet({tick(i)})
      BY FS_Singleton
    <3> QED BY <3>2, <3>3, FS_Subset
  <2> QED BY <2>1, <2>2
<1> HIDE DEF kept, tick
<1> DEFINE new == SetToSeq(kept)
<1>7. new \in Seq(kept) /\ \A t \in kept : \E k \in DOMAIN new : new[k] = t
  BY <1>6, SetToSeqFacts
<1> HIDE DEF new
<1>8. \A t \in kept : t \in Ticks
  <2>1. proc.dex \in Dexes
    BY <1>1, FetchFields
  <2> QED BY <1>4, <2>1, TickTypes DEF TickOf, Ticks
<1>9. new \in Seq(Ticks) /\ DOMAIN new = 1..Len(new) /\ \A k \in DOMAIN new : new[k] \in kept
  BY <1>7, <1>8
<1> DEFINE old == proc.ticks
<1>10. old \in Seq(Ticks) /\ all = old \o new
  BY <1>1, FetchFields DEF new
<1> HIDE DEF old, all
<1>11. /\ all \in Seq(Ticks)
       /\ \A k \in DOMAIN old : k \in DOMAIN all /\ all[k] = old[k]
       /\ \A k \in DOMAIN new : Len(old) + k \in DOMAIN all /\ all[Len(old) + k] = new[k]
       /\ \A k \in DOMAIN all : (\E l \in DOMAIN old : all[k] = old[l])
                                \/ \E l \in DOMAIN new : all[k] = new[l]
  <2>1. all \in Seq(Ticks) /\ DOMAIN all = 1..(Len(old) + Len(new))
        /\ Len(old) \in Nat /\ Len(new) \in Nat
        /\ DOMAIN old = 1..Len(old) /\ DOMAIN new = 1..Len(new)
    BY <1>9, <1>10
  <2>2. \A k \in DOMAIN old : k \in DOMAIN all /\ all[k] = old[k]
    BY <1>9, <1>10, <2>1
  <2>3. \A k \in DOMAIN new : Len(old) + k \in DOMAIN all /\ all[Len(old) + k] = new[k]
    BY <1>9, <1>10, <2>1
  <2>4. ASSUME NEW k \in DOMAIN all, ~(k \in DOMAIN old)
        PROVE  \E l \in DOMAIN new : all[k] = new[l]
    <3>1. k - Len(old) \in DOMAIN new /\ Len(old) + (k - Len(old)) = k
      BY <2>1, <2>4
    <3> QED BY <2>3, <3>1
  <2> QED BY <2>1, <2>2, <2>3, <2>4
<1>12. /\ proc' \in Fetches /\ proc'.pc = "read" /\ proc'.left = rest /\ proc'.ticks = all
       /\ proc'.dex = proc.dex /\ proc'.next = proc.next /\ proc'.pages = proc.pages
       /\ proc'.unread = proc.unread
  <2>1. proc \in Fetches
    BY <1>1 DEF FetchType
  <2> HIDE DEF rest
  <2> QED BY <1>1, <1>2, <1>11, <2>1 DEF Fetches
<1>13. FetchType'
  <2>1. \A k \in DOMAIN all : \E i \in Items :
           all[k] = TickOf(proc.dex, i) /\ TickInWindow(TickIndex(proc.dex, i))
    BY <1>1, <1>4, <1>9, <1>11 DEF FetchType, old
  <2> HIDE DEF rest
  <2> QED BY <1>2, <1>12, <2>1 DEF FetchType, TickOf, TickIndex, TickInWindow, AlignedTicks
<1>14. ASSUME NEW i \in steady, Wanted(proc.dex, i), proc.next # 0 => i <= proc.next
       PROVE  Settled(i)' \/ KeyOf(proc'.dex, i) \in proc'.left
  <2>1. Settled(i) \/ KeyOf(proc.dex, i) \in proc.left
    BY <1>1, <1>14 DEF FetchInv, PageInv
  <2>2. CASE KeyOf(proc.dex, i) \in proc.unread
    BY <1>12, <2>2 DEF Settled, KeyOf, TickIndex
  <2>3. CASE \E k \in DOMAIN old : old[k] = TickOf(proc.dex, i)
    BY <1>11, <1>12, <2>3 DEF Settled, TickOf, TickIndex
  <2>4. CASE KeyOf(proc.dex, i) = x
    <3>1. TickOf(proc.dex, i) \in kept
      BY <1>5, <1>14, <2>4
    <3>2. \E k \in DOMAIN all : all[k] = TickOf(proc.dex, i)
      BY <1>7, <1>11, <3>1
    <3> QED BY <1>12, <3>2 DEF Settled, TickOf, TickIndex
  <2>5. CASE KeyOf(proc.dex, i) \in rest
    BY <1>12, <2>5
  <2> QED BY <2>1, <2>2, <2>3, <2>4, <2>5 DEF Settled, old
<1>15. PageInv'
  <2>1. proc.pages <= MaxTickPages /\ (proc.dex = "turbos" => proc.next = 0)
    BY <1>1 DEF FetchInv, PageInv
  <2>2. proc'.left = {} => at' = 0
    BY <1>1, <1>2, <1>12
  <2>3. \A i \in steady' : Wanted(proc'.dex, i) /\ (proc'.next # 0 => i <= proc'.next) =>
            Settled(i)' \/ KeyOf(proc'.dex, i) \in proc'.left
    BY <1>1, <1>12, <1>14
  <2> QED BY <1>12, <2>1, <2>2, <2>3 DEF PageInv, Wanted, TickInWindow, TickIndex, LiquidityNet, KeyOf
<1> QED BY <1>12, <1>13, <1>15 DEF FetchInv, PoolInv, ListInv, TicksExact

\* A failed read keeps it too: the entry is given up.
LEMMA ReadFailsKeeps ==
    ASSUME FetchInv, WorldInv, ReadFails
    PROVE  FetchInv'
<1> DEFINE x == Min(proc.left)
           rest == proc.left \ {x}
<1>1. /\ FetchType /\ proc.pc = "read" /\ at # 0 /\ UNCHANGED <<world, steady>>
      /\ proc' = [proc EXCEPT !.left = rest, !.unread = @ \cup {x}]
      /\ at' = IF Cardinality(proc.left) > 1 THEN 1 ELSE 0
  BY ClientAssumption DEF FetchInv, ReadFails, Trying, Failed, Endpoints, Ask, clientVars
<1>2. /\ x \in proc.left /\ rest \in SUBSET Int /\ IsFiniteSet(rest)
      /\ rest \subseteq (IF proc.dex = "turbos" THEN AlignedTicks ELSE Items)
      /\ rest = {} => ~(Cardinality(proc.left) > 1)
  <2> HIDE DEF x, rest
  <2> QED BY <1>1, EntryTaken DEF x, rest
<1>3. x \in Int
  BY <1>1, <1>2, FetchFields
<1> HIDE DEF x
<1>4. /\ proc' \in Fetches /\ proc'.pc = "read" /\ proc'.left = rest /\ proc'.ticks = proc.ticks
      /\ proc'.dex = proc.dex /\ proc'.next = proc.next /\ proc'.pages = proc.pages
      /\ proc'.unread = proc.unread \cup {x}
  <2>1. proc \in Fetches /\ proc.unread \cup {x} \in SUBSET Int
    BY <1>1, <1>3, FetchFields DEF FetchType
  <2> HIDE DEF rest
  <2> QED BY <1>1, <1>2, <2>1 DEF Fetches
<1>5. FetchType'
  <2> HIDE DEF rest
  <2> QED BY <1>1, <1>2, <1>4 DEF FetchType, TickOf, TickIndex, TickInWindow, AlignedTicks
<1>6. ASSUME NEW i \in steady, Wanted(proc.dex, i), proc.next # 0 => i <= proc.next
      PROVE  Settled(i)' \/ KeyOf(proc'.dex, i) \in proc'.left
  <2>1. Settled(i) \/ KeyOf(proc.dex, i) \in proc.left
    BY <1>1, <1>6 DEF FetchInv, PageInv
  <2>2. Settled(i) \/ KeyOf(proc.dex, i) = x => Settled(i)'
    BY <1>4 DEF Settled, KeyOf, TickOf, TickIndex
  <2>3. KeyOf(proc.dex, i) \in rest => KeyOf(proc'.dex, i) \in proc'.left
    BY <1>4
  <2> QED BY <2>1, <2>2, <2>3
<1>7. PageInv'
  <2>1. proc.pages <= MaxTickPages /\ (proc.dex = "turbos" => proc.next = 0)
    BY <1>1 DEF FetchInv, PageInv
  <2>2. proc'.left = {} => at' = 0
    BY <1>1, <1>2, <1>4
  <2>3. \A i \in steady' : Wanted(proc'.dex, i) /\ (proc'.next # 0 => i <= proc'.next) =>
            Settled(i)' \/ KeyOf(proc'.dex, i) \in proc'.left
    BY <1>1, <1>4, <1>6
  <2> QED BY <1>4, <2>1, <2>2, <2>3 DEF PageInv, Wanted, TickInWindow, TickIndex, LiquidityNet, KeyOf
<1> QED BY <1>4, <1>5, <1>7 DEF FetchInv, PoolInv, ListInv, TicksExact

\* The page is read: on to the next one, or the fetch ends.
LEMMA PageDoneKeeps ==
    ASSUME FetchInv, WorldInv, PageDone
    PROVE  FetchInv'
<1>1. /\ FetchType /\ proc.pc = "read" /\ proc.left = {} /\ UNCHANGED <<world, steady>>
      /\ proc.pages <= MaxTickPages /\ (proc.dex = "turbos" => proc.next = 0)
      /\ \A i \in steady : Wanted(proc.dex, i) /\ (proc.next # 0 => i <= proc.next) => Settled(i)
  BY DEF FetchInv, PageInv, PageDone, clientVars
<1>2. proc.pages \in Nat /\ proc.next \in Nat /\ MaxTickPages \in Nat /\ proc \in Fetches
  BY <1>1, FetchFields, TickAssumption DEF FetchType
<1>3. CASE proc.next # 0 /\ proc.pages < MaxTickPages
  <2>1. proc' = [proc EXCEPT !.pc = "list", !.cursor = proc.next]
    BY <1>3 DEF PageDone
  <2>2. /\ proc' \in Fetches /\ proc'.pc = "list" /\ proc'.cursor = proc.next
        /\ proc'.left = proc.left /\ proc'.ticks = proc.ticks /\ proc'.dex = proc.dex
        /\ proc'.pages = proc.pages /\ proc'.unread = proc.unread
    BY <1>2, <2>1 DEF Fetches
  <2>3. FetchType'
    BY <1>1, <2>2 DEF FetchType, TickOf, TickIndex, TickInWindow, AlignedTicks
  <2>4. \A i \in steady : Settled(i) => Settled(i)'
    BY <2>2 DEF Settled, KeyOf, TickOf, TickIndex
  <2>5. ListInv'
    BY <1>1, <1>3, <2>2, <2>4 DEF ListInv, Wanted, TickInWindow, TickIndex, LiquidityNet
  <2> QED BY <2>2, <2>3, <2>5 DEF FetchInv, PoolInv, PageInv, TicksExact
<1>4. CASE ~(proc.next # 0 /\ proc.pages < MaxTickPages)
  <2>1. proc' = [Finish EXCEPT !.unread = @ \cup {}]
    <3>1. proc' = Finish
      BY <1>4 DEF PageDone
    <3> QED BY <1>1, <1>2, <3>1 DEF Finish, Fetches
  <2>2. \A i \in steady : Wanted(proc.dex, i) =>
           Settled(i) \/ (proc.pages = MaxTickPages /\ proc.next # 0 /\ i > proc.next)
    BY <1>1, <1>2, <1>4, SteadyFacts
  <2> QED BY <1>1, <2>1, <2>2, FinishKeeps
<1> QED BY <1>3, <1>4


\* An endpoint that fails, or a change, leaves the fetch as it is.
LEMMA FetchWaits ==
    ASSUME FetchInv, UNCHANGED proc, steady' \subseteq steady, at = 0 => at' = 0
    PROVE  FetchInv'
<1>1. FetchType' /\ PoolInv'
  BY DEF FetchInv, FetchType, PoolInv, TickOf, TickIndex, TickInWindow, AlignedTicks
<1>2. \A i : Settled(i) => Settled(i)'
  BY DEF Settled, KeyOf, TickOf, TickIndex
<1>3. ListInv'
  BY <1>2 DEF FetchInv, ListInv, Wanted, TickInWindow, TickIndex, LiquidityNet
<1>4. PageInv'
  BY <1>2 DEF FetchInv, PageInv, Wanted, TickInWindow, TickIndex, LiquidityNet, KeyOf
<1>5. TicksExact'
  BY DEF FetchInv, TicksExact, TickOf, TickIndex
<1> QED BY <1>1, <1>3, <1>4, <1>5 DEF FetchInv

\* Every step keeps the invariant.
LEMMA TicksInductive == TicksInv /\ [Next]_vars => TicksInv'
<1> SUFFICES ASSUME TicksInv, [Next]_vars PROVE TicksInv'
  OBVIOUS
<1>1. CASE ReadStep /\ job = "ticks" /\ \E dex \in Dexes : TicksStart(dex)
  <2>1. PICK dex \in Dexes : TicksStart(dex)
    BY <1>1
  <2>2. WorldInv'
    BY <2>1, SteadyBegins DEF TicksInv, TicksStart
  <2>3. /\ proc' = [pc |-> "pool", dex |-> dex, cursor |-> 0, next |-> 0, pages |-> 0,
                    left |-> {}, unread |-> {}, ticks |-> <<>>]
        /\ UNCHANGED job
    BY <1>1, <2>1 DEF TicksStart, ReadStep
  <2>4. FetchType'
    BY <2>3, FS_EmptySet DEF FetchType, Fetches
  <2>5. FetchInv'
    BY <2>3, <2>4 DEF FetchInv, PoolInv, ListInv, PageInv, TicksExact
  <2> QED BY <1>1, <2>2, <2>3, <2>5 DEF TicksInv
<1>2. CASE ReadStep /\ job = "ticks" /\ TicksStep
  <2>1. /\ UNCHANGED <<world, steady, job>> /\ proc.pc \in {"pool", "list", "read"}
    BY <1>2 DEF TicksStep, PoolAnswer, PoolGarbled, ListPage, ListFails, ReadEntry, ReadFails,
                PageDone, GiveUp, clientVars, ReadStep
  <2>2. WorldInv /\ WorldInv' /\ FetchInv
    BY <1>2, <2>1 DEF TicksInv, WorldInv
  <2>3. CASE PoolGarbled \/ ListFails
    BY <1>2, <2>1, <2>2, <2>3 DEF PoolGarbled, ListFails, GiveUp, TicksInv
  <2>4. FetchInv' => TicksInv'
    <3>1. FetchInv' => "pc" \in DOMAIN proc' /\ "ticks" \in DOMAIN proc'
      BY DEF FetchInv, FetchType, Fetches
    <3> QED BY <1>2, <2>1, <2>2, <3>1 DEF TicksInv
  <2>5. CASE proc.pc \in {"pool", "list", "read"} /\ EndpointFails /\ UNCHANGED <<proc, clientVars>>
    <3>1. at # 0 /\ steady' \subseteq steady /\ UNCHANGED proc
      BY <2>1, <2>5 DEF EndpointFails, Trying, Endpoints
    <3> QED BY <2>2, <2>4, <3>1, FetchWaits
  <2>6. CASE PoolAnswer \/ ListPage \/ ReadEntry \/ ReadFails \/ PageDone
    BY <2>2, <2>4, <2>6, PoolAnswerKeeps, ListPageKeeps, ReadEntryKeeps, ReadFailsKeeps,
       PageDoneKeeps
  <2> QED BY <1>2, <2>3, <2>5, <2>6 DEF TicksStep
<1>3. CASE ReadStep /\ \E e \in Endpoints, i \in Items : Change(e, i)
  <2>1. PICK e \in Endpoints, i \in Items : Change(e, i)
    BY <1>3
  <2>2. WorldInv'
    BY <2>1 DEF Change, TicksInv, WorldInv
  <2>3. UNCHANGED <<at, proc, job>> /\ steady' \subseteq steady
    BY <1>3, <2>1 DEF Change, ReadStep
  <2>4. FetchInv => FetchInv'
    BY <2>3, FetchWaits
  <2> QED BY <2>2, <2>3, <2>4 DEF TicksInv
<1>4. CASE ReadStep /\ job = "coins" /\ CoinsStep
  <2>1. "ticks" \notin DOMAIN proc /\ "pc" \in DOMAIN proc /\ UNCHANGED job
    BY <1>4 DEF TicksInv, ReadStep
  <2>2. CASE CoinsStart
    <3>1. WorldInv'
      BY <2>2, SteadyBegins DEF TicksInv, CoinsStart
    <3> QED BY <1>4, <2>1, <2>2, <3>1 DEF TicksInv, CoinsStart
  <2>3. CASE ~CoinsStart
    <3>1. UNCHANGED <<world, steady>>
      BY <1>4, <2>3 DEF CoinsStep, CoinsPage, CoinsGarbled, CoinsFail, GiveUp, clientVars
    <3>2. /\ "ticks" \notin DOMAIN proc' /\ "pc" \in DOMAIN proc'
          /\ proc'.pc \notin {"pool", "list", "read"}
      <4>1. CASE CoinsPage
        BY <2>1, <4>1 DEF CoinsPage
      <4>2. CASE CoinsGarbled \/ CoinsFail
        BY <4>2 DEF CoinsGarbled, CoinsFail, GiveUp
      <4>3. CASE proc.pc = "coins" /\ UNCHANGED proc
        BY <2>1, <4>3
      <4> QED BY <1>4, <2>3, <4>1, <4>2, <4>3 DEF CoinsStep
    <3> QED BY <1>4, <2>1, <3>1, <3>2 DEF TicksInv, WorldInv
  <2> QED BY <2>2, <2>3
<1>5. CASE ScanStep \/ ChainStep
  BY <1>5 DEF ScanStep, ChainStep, clientVars, TicksInv, WorldInv
<1>6. CASE UNCHANGED vars
  <2>1. UNCHANGED <<at, proc, job, world, steady>>
    BY <1>6 DEF vars, clientVars
  <2>2. FetchInv => FetchInv'
    BY <2>1, FetchWaits
  <2> QED BY <2>1, <2>2 DEF TicksInv, WorldInv
<1> QED BY <1>1, <1>2, <1>3, <1>4, <1>5, <1>6 DEF Next, ReadStep

\* For any pool, endpoints and pages, and of each DEX: the list of ticks that
\* fetch_tick_data returns is sorted, has only ticks of the pool inside the
\* window, and lacks a steady one only if its read failed, it was on or behind a
\* page that came without its data or cursor, or it lies behind the last page
\* that may be read.
THEOREM TickListIsExact == Spec => []TicksExact
<1>1. Init => TicksInv
  BY DEF Init, ClientInit, TicksInv, WorldInv, Idle
<1>2. TicksInv => TicksExact
  <2> SUFFICES ASSUME TicksInv, "ticks" \in DOMAIN proc PROVE TicksExact
    BY DEF TicksExact
  <2>1. FetchInv
    BY DEF TicksInv
  <2> QED BY <2>1 DEF FetchInv
<1> QED BY <1>1, <1>2, TicksInductive, PTL DEF Spec

=============================================================================
