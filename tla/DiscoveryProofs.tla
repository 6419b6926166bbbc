-------------------------- MODULE DiscoveryProofs --------------------------
(***************************************************************************)
(* Proofs about Discovery, for any number of DEXes, any listings, page     *)
(* sizes, limits and any number of faults: types, that no pool object      *)
(* falls between cursor and catalog, and that discovery refreshes Redis    *)
(* only with what it has committed.                                        *)
(***************************************************************************)
EXTENDS Discovery, FiniteSetTheorems, TLAPS

(***************************************************************************)
(* Types, in three parts.                                                  *)
(***************************************************************************)
SetTypes ==
  /\ live \subseteq Objects
  /\ pools \subseteq live
  /\ failed \subseteq live
  /\ older \subseteq failed \X failed
  /\ refreshed \subseteq live /\ snapshot \subseteq live
  /\ hot \subseteq live
  /\ found \subseteq live /\ missed \subseteq live
  /\ work \subseteq live
  /\ page.left \subseteq live

FlagTypes ==
  /\ ready \in BOOLEAN /\ booting \in BOOLEAN
  /\ hadPools \in BOOLEAN /\ scanned \in BOOLEAN

ControlTypes ==
  /\ spc \in {"idle", "query", "hydrate", "blank", "settle", "list", "retry",
              "apply", "reconcile"}
  /\ dex \in Dexes
  /\ pageIdx \in 0..(MaxPages - 1)
  /\ faults \in 0..MaxFaults

RecordTypes ==
  /\ progress \in [Dexes -> Progress]
  /\ mem \in Progress
  /\ page \in [left : SUBSET live, more : BOOLEAN, last : 0..NumPositions]

\* The type invariant, in parts that suit one prover each.
LEMMA TypeParts ==
  TypeOK <=> SetTypes /\ FlagTypes /\ ControlTypes /\ RecordTypes
<1>1. TypeOK => SetTypes /\ FlagTypes /\ ControlTypes /\ RecordTypes
  <2> SUFFICES ASSUME TypeOK PROVE SetTypes /\ FlagTypes /\ ControlTypes /\ RecordTypes
    OBVIOUS
  <2>1. page.left \subseteq live
    BY DEF TypeOK
  <2> QED
    BY <2>1, Zenon DEF TypeOK, SetTypes, FlagTypes, ControlTypes, RecordTypes
<1>2. SetTypes /\ FlagTypes /\ ControlTypes /\ RecordTypes => TypeOK
  BY Zenon DEF TypeOK, SetTypes, FlagTypes, ControlTypes, RecordTypes
<1> QED
  BY <1>1, <1>2

\* The same of the next state.
LEMMA TypePartsPrime ==
  SetTypes' /\ FlagTypes' /\ ControlTypes' /\ RecordTypes' => TypeOK'
BY Zenon DEF TypeOK, SetTypes, FlagTypes, ControlTypes, RecordTypes

\* The empty progress and the empty page are typed.
LEMMA RecordFacts ==
  /\ NewProgress \in Progress
  /\ \A S : NoPage \in [left : SUBSET S, more : BOOLEAN, last : 0..NumPositions]
  /\ NoPage.left = {}
BY DiscoveryAssumption DEF NewProgress, Progress, NoPage

\* The process starts well typed.
LEMMA TypeInit == Init => TypeOK
<1> SUFFICES ASSUME Init PROVE TypeOK
  OBVIOUS
<1>1. SetTypes
  BY RecordFacts DEF Init, SetTypes
<1>2. FlagTypes
  BY Zenon DEF Init, FlagTypes
<1>3. ControlTypes
  BY DiscoveryAssumption DEF Init, ControlTypes, Dexes
<1>4. RecordTypes
  BY RecordFacts DEF Init, RecordTypes
<1> QED
  BY <1>1, <1>2, <1>3, <1>4, TypeParts

\* The Boolean variables stay Boolean.
LEMMA FlagsType ==
  ASSUME FlagTypes, Next \/ UNCHANGED vars PROVE FlagTypes'
<1>1. CASE UNCHANGED vars
  BY <1>1, Zenon DEF FlagTypes, vars, cycleVars
<1>2. CASE Next
  BY <1>2, Zenon DEF FlagTypes, Next, Create, DaemonCheck, HotPath, WriterRow, Crash,
     CycleStep,
     CycleEnds, Cleared, BeginCycle, OpenScan, QueryPage, QueryEmpty, QueryExpired,
     QueryErr, NextPage, ScanFails, ScanEnds, Hydrate, CommitPage, CommitBlank,
     CommitErr, Settle, ListFailures, RetryOne, ApplyRetry, RetryEnds, Reconcile,
     Refresh, cycleVars
<1> QED
  BY <1>1, <1>2

\* How a cycle, a scan or the page loop continues.
LEMMA ControlMoves ==
  ASSUME ControlTypes
  PROVE  /\ CycleEnds =>
              spc' = "idle" /\ dex' \in Dexes /\ pageIdx' \in 0..(MaxPages - 1)
         /\ ScanEnds =>
              spc' \in {"query", "settle"} /\ dex' \in Dexes
                /\ pageIdx' \in 0..(MaxPages - 1)
         /\ ScanFails =>
              spc' \in {"idle", "query", "settle"} /\ dex' \in Dexes
                /\ pageIdx' \in 0..(MaxPages - 1)
         /\ \A m : NextPage(m) =>
              spc' \in {"query", "settle"} /\ dex' \in Dexes
                /\ pageIdx' \in 0..(MaxPages - 1)
<1> USE DiscoveryAssumption DEF ControlTypes, Dexes
<1>1. CycleEnds => dex' \in Dexes /\ pageIdx' \in 0..(MaxPages - 1) /\ spc' = "idle"
  BY DEF CycleEnds, Cleared
<1>2. ScanEnds => /\ spc' \in {"query", "settle"} /\ dex' \in Dexes
                  /\ pageIdx' \in 0..(MaxPages - 1)
  BY DEF ScanEnds, OpenScan, Cleared
<1>3. ASSUME NEW m, NextPage(m)
      PROVE  /\ spc' \in {"query", "settle"} /\ dex' \in Dexes
             /\ pageIdx' \in 0..(MaxPages - 1)
  BY <1>2, <1>3 DEF NextPage
<1> QED
  BY <1>1, <1>2, <1>3 DEF ScanFails

\* The control variables stay in range: the page loop never overruns.
LEMMA ControlType ==
  ASSUME ControlTypes, Next \/ UNCHANGED vars PROVE ControlTypes'
<1>0. Fault => faults' \in 0..MaxFaults
  BY DiscoveryAssumption DEF Fault, ControlTypes
<1>1. CASE UNCHANGED vars
  BY <1>1 DEF ControlTypes, vars, cycleVars
<1>2. CASE (\E o \in Objects : Create(o) \/ HotPath(o) \/ WriterRow(o)) \/ DaemonCheck
  BY <1>0, <1>2 DEF Create, HotPath, WriterRow, DaemonCheck, ControlTypes, cycleVars
<1>3. CASE Crash
  BY <1>0, <1>3, ControlMoves DEF Crash, ControlTypes
<1>4. CASE BeginCycle
  BY <1>0, <1>4, DiscoveryAssumption
     DEF BeginCycle, OpenScan, ControlTypes, cycleVars, Dexes
<1>5. CASE QueryPage \/ QueryEmpty \/ \E o \in Objects : Hydrate(o)
  BY <1>0, <1>5 DEF QueryPage, QueryEmpty, Hydrate, ControlTypes
<1>6. CASE QueryExpired \/ QueryErr \/ CommitPage \/ CommitBlank \/ CommitErr
  BY <1>0, <1>6, ControlMoves
     DEF QueryExpired, QueryErr, CommitPage, CommitBlank, CommitErr, ControlTypes
<1>7. CASE Settle \/ ListFailures \/ \E o \in Objects : RetryOne(o)
  BY <1>0, <1>7, ControlMoves DEF Settle, ListFailures, RetryOne, ControlTypes
<1>8. CASE ApplyRetry \/ RetryEnds
  BY <1>0, <1>8, ControlMoves, DiscoveryAssumption
     DEF ApplyRetry, RetryEnds, ControlTypes, Dexes
<1>9. CASE Refresh \/ \E o \in Objects : Reconcile(o)
  BY <1>0, <1>9, ControlMoves DEF Refresh, Reconcile, ControlTypes
<1> QED
  BY <1>1, <1>2, <1>3, <1>4, <1>5, <1>6, <1>7, <1>8, <1>9 DEF Next, CycleStep

\* What is in hand after a cycle, a scan or a page.
LEMMA HandMoves ==
  ASSUME RecordTypes, ControlTypes
  PROVE  /\ CycleEnds =>
              mem' \in Progress /\ page' = NoPage /\ found' = {} /\ missed' = {}
                /\ work' = {}
         /\ ScanEnds =>
              mem' \in Progress /\ page' = NoPage /\ found' = {} /\ missed' = {}
                /\ work' = {}
         /\ ScanFails =>
              mem' \in Progress /\ page' = NoPage /\ found' = {} /\ missed' = {}
                /\ work' = {}
         /\ \A m \in Progress : NextPage(m) =>
              mem' \in Progress /\ page' = NoPage /\ found' = {} /\ missed' = {}
                /\ (work' = {} \/ work' = work)
<1>1. CycleEnds => mem' \in Progress /\ page' = NoPage /\ found' = {} /\ missed' = {}
                     /\ work' = {}
  BY RecordFacts DEF CycleEnds, Cleared
<1>2. ScanEnds => mem' \in Progress /\ page' = NoPage /\ found' = {} /\ missed' = {}
                     /\ work' = {}
  BY RecordFacts, DiscoveryAssumption
     DEF ScanEnds, OpenScan, Cleared, RecordTypes, ControlTypes, Dexes
<1> QED
  BY <1>1, <1>2 DEF ScanFails, NextPage

\* The progress committed with a page is typed.
LEMMA AdvancedType ==
  ASSUME RecordTypes PROVE Advanced \in Progress
<1>1. /\ page.last \in 0..NumPositions /\ page.more \in BOOLEAN
      /\ mem.base \in SUBSET Objects /\ mem.complete \in BOOLEAN
  BY DEF RecordTypes, Progress
<1>2. (mem.complete \/ ~page.more) \in BOOLEAN
  BY <1>1, Zenon
<1>3. (IF page.more THEN page.last ELSE 0) \in 0..NumPositions
  BY <1>1, DiscoveryAssumption
<1> QED
  BY <1>1, <1>2, <1>3, Zenon DEF Advanced, Progress

\* commit_discovery_page keeps the tables typed.
LEMMA WritePageType ==
  ASSUME RecordTypes, SetTypes, NEW d \in Dexes, NEW p \in Progress,
         NEW F \in SUBSET live, NEW M \in SUBSET live, WritePage(d, p, F, M)
  PROVE  /\ progress' \in [Dexes -> Progress]
         /\ pools' \subseteq live /\ failed' \subseteq live
         /\ older' \subseteq failed' \X failed'
<1>1. progress' \in [Dexes -> Progress]
  BY DEF WritePage, RecordTypes
<1>2. pools' \subseteq live /\ failed' \subseteq live
  BY DEF WritePage, SetTypes
<1>3. older' \subseteq failed' \X failed'
  <2> SUFFICES ASSUME NEW r \in older' PROVE r \in failed' \X failed'
    OBVIOUS
  <2>1. failed' = failed \cup M
    BY DEF WritePage
  <2>2. r \in older \/ r \in (failed \ M) \X M
    BY DEF WritePage
  <2>3. r \in failed \X failed \/ r \in (failed \ M) \X M
    BY <2>2 DEF SetTypes
  <2> QED
    BY <2>1, <2>3
<1> QED
  BY <1>1, <1>2, <1>3

\* The commit of a retried failure keeps the tables typed.
LEMMA RetryCommitType ==
  ASSUME SetTypes, NEW o \in live, RetryCommit(o)
  PROVE  /\ pools' \subseteq live /\ failed' \subseteq live
         /\ older' \subseteq failed' \X failed'
         /\ UNCHANGED progress
BY DEF SetTypes, RetryCommit, Resolve

\* The tables and the hands.
LEMMA DataType ==
  ASSUME SetTypes, RecordTypes, ControlTypes, Next \/ UNCHANGED vars
  PROVE  SetTypes' /\ RecordTypes'
<1> DEFINE Pages(S) == [left : SUBSET S, more : BOOLEAN, last : 0..NumPositions]
<1>0. /\ page \in Pages(live)
      /\ \A S : NoPage \in Pages(S)
      /\ NoPage.left = {}
  BY RecordFacts DEF RecordTypes
<1>1. CASE UNCHANGED vars
  BY <1>1 DEF SetTypes, RecordTypes, vars, pgVars, redisVars, cycleVars
<1>2. ASSUME NEW o \in Objects, Create(o) PROVE SetTypes' /\ RecordTypes'
  <2>1. page' \in Pages(live')
    BY <1>0, <1>2 DEF Create, cycleVars
  <2> QED
    BY <1>2, <2>1 DEF Create, SetTypes, RecordTypes, pgVars, redisVars, cycleVars
<1>3. CASE DaemonCheck \/ \E o \in Objects : HotPath(o) \/ WriterRow(o)
  BY <1>3 DEF DaemonCheck, HotPath, WriterRow, SetTypes, RecordTypes, pgVars, redisVars,
              cycleVars
<1>4. CASE Crash
  BY <1>0, <1>4, HandMoves DEF Crash, SetTypes, RecordTypes, pgVars, redisVars
<1>5. CASE BeginCycle
  <2>1. progress[1] \in Progress
    BY DiscoveryAssumption DEF RecordTypes, Dexes
  <2> QED
    BY <1>0, <1>5, <2>1
       DEF BeginCycle, OpenScan, SetTypes, RecordTypes, pgVars, redisVars, cycleVars
<1>6. CASE QueryPage
  <2>1. FirstPage \subseteq live /\ OfDex(live, dex) \in SUBSET Objects
    BY DEF FirstPage, Rest, OfDex, SetTypes
  <2>2. page' \in Pages(live) /\ page'.left = FirstPage
    <3>1. PICK n \in Positions :
             page' = [left |-> FirstPage, more |-> FirstPage # Rest, last |-> n]
      BY <1>6 DEF QueryPage
    <3>2. n \in 0..NumPositions
      BY DiscoveryAssumption DEF Positions
    <3>3. (FirstPage # Rest) \in BOOLEAN
      BY Zenon
    <3> QED
      BY <2>1, <3>1, <3>2, <3>3, Zenon
  <2>3. mem' \in Progress
    <3>1. [mem EXCEPT !.base = OfDex(live, dex)] \in Progress
      BY <2>1 DEF RecordTypes, Progress
    <3> QED
      BY <1>6, <3>1 DEF QueryPage, RecordTypes
  <2> QED
    BY <1>6, <2>1, <2>2, <2>3
       DEF QueryPage, SetTypes, RecordTypes, pgVars, redisVars
<1>7. CASE QueryEmpty
  BY <1>7 DEF QueryEmpty, SetTypes, RecordTypes, pgVars, redisVars
<1>8. CASE QueryExpired \/ QueryErr
  BY <1>0, <1>8, HandMoves, RecordFacts
     DEF QueryExpired, QueryErr, SetTypes, RecordTypes, pgVars, redisVars
<1>9. ASSUME NEW o \in Objects, Hydrate(o) PROVE SetTypes' /\ RecordTypes'
  <2>1. page' \in Pages(live) /\ page'.left \subseteq live
    BY <1>0, <1>9 DEF Hydrate
  <2>2. o \in live
    BY <1>0, <1>9 DEF Hydrate
  <2> QED
    BY <1>9, <2>1, <2>2 DEF Hydrate, SetTypes, RecordTypes, pgVars, redisVars
<1>10. ASSUME NEW p \in Progress, WritePage(dex, p, found, missed) \/ WritePage(dex, p, {}, {})
       PROVE  /\ progress' \in [Dexes -> Progress]
              /\ pools' \subseteq live /\ failed' \subseteq live
              /\ older' \subseteq failed' \X failed'
  <2>1. /\ dex \in Dexes /\ found \in SUBSET live /\ missed \in SUBSET live
        /\ {} \in SUBSET live
    BY DEF SetTypes, ControlTypes
  <2>2. CASE WritePage(dex, p, found, missed)
    BY <2>1, <2>2, WritePageType
  <2>3. CASE WritePage(dex, p, {}, {})
    BY <2>1, <2>3, WritePageType
  <2> QED
    BY <1>10, <2>2, <2>3
<1>11. CASE CommitPage
  <2>1. /\ progress' \in [Dexes -> Progress]
        /\ pools' \subseteq live /\ failed' \subseteq live
        /\ older' \subseteq failed' \X failed'
    BY <1>10, <1>11, AdvancedType DEF CommitPage
  <2>2. /\ mem' \in Progress /\ page' = NoPage /\ found' = {} /\ missed' = {}
        /\ (work' = {} \/ work' = work)
    BY <1>11, HandMoves, AdvancedType DEF CommitPage
  <2> QED
    BY <1>0, <1>11, <2>1, <2>2 DEF CommitPage, SetTypes, RecordTypes, redisVars
<1>12. CASE CommitBlank
  <2>1. /\ progress' \in [Dexes -> Progress]
        /\ pools' \subseteq live /\ failed' \subseteq live
        /\ older' \subseteq failed' \X failed'
    BY <1>10, <1>12 DEF CommitBlank, RecordTypes
  <2> QED
    BY <1>0, <1>12, <2>1, HandMoves DEF CommitBlank, SetTypes, RecordTypes, redisVars
<1>13. CASE CommitErr
  <2>1. /\ progress' \in [Dexes -> Progress]
        /\ pools' \subseteq live /\ failed' \subseteq live
        /\ older' \subseteq failed' \X failed'
    <3>1. CASE UNCHANGED pgVars
      BY <3>1 DEF pgVars, SetTypes, RecordTypes
    <3>2. CASE WritePage(dex, Advanced, found, missed)
      BY <3>2, <1>10, AdvancedType
    <3>3. CASE WritePage(dex, mem, {}, {})
      BY <3>3, <1>10 DEF RecordTypes
    <3> QED
      BY <1>13, <3>1, <3>2, <3>3 DEF CommitErr
  <2> QED
    BY <1>0, <1>13, <2>1, HandMoves DEF CommitErr, SetTypes, RecordTypes, redisVars
<1>14. CASE Settle
  BY <1>0, <1>14, HandMoves
     DEF Settle, SetTypes, RecordTypes, pgVars, redisVars
<1>15. CASE ListFailures
  BY <1>0, <1>15, HandMoves
     DEF ListFailures, SetTypes, RecordTypes, pgVars, redisVars
<1>16. ASSUME NEW o \in Objects, RetryOne(o) PROVE SetTypes' /\ RecordTypes'
  <2>1. o \in live
    BY <1>16 DEF RetryOne, SetTypes
  <2>2. /\ progress' \in [Dexes -> Progress]
        /\ pools' \subseteq live /\ failed' \subseteq live
        /\ older' \subseteq failed' \X failed'
    <3>1. RetryCommit(o) \/ UNCHANGED pgVars
      BY <1>16 DEF RetryOne
    <3>2. CASE RetryCommit(o)
      BY <2>1, <3>2, RetryCommitType DEF RecordTypes
    <3>3. CASE UNCHANGED pgVars
      BY <3>3 DEF pgVars, SetTypes, RecordTypes
    <3> QED
      BY <3>1, <3>2, <3>3
  <2>3. UNCHANGED <<live, refreshed, snapshot, hot>>
    BY <1>16 DEF RetryOne, redisVars
  <2>4. /\ mem' \in Progress /\ page' \in Pages(live) /\ page'.left \subseteq live
        /\ found' \subseteq live /\ missed' \subseteq live /\ work' \subseteq live
    BY <1>0, <1>16, <2>1, HandMoves DEF RetryOne, SetTypes, RecordTypes
  <2> QED
    BY <2>2, <2>3, <2>4 DEF SetTypes, RecordTypes
<1>17. CASE ApplyRetry
  BY <1>0, <1>17, HandMoves
     DEF ApplyRetry, SetTypes, RecordTypes, pgVars
<1>18. CASE RetryEnds
  BY <1>0, <1>18, HandMoves
     DEF RetryEnds, SetTypes, RecordTypes, pgVars, redisVars
<1>19. CASE \E o \in Objects : Reconcile(o)
  BY <1>19 DEF Reconcile, SetTypes, RecordTypes, pgVars
<1>20. CASE Refresh
  BY <1>0, <1>20, HandMoves
     DEF Refresh, SetTypes, RecordTypes, pgVars
<1> QED
  BY <1>1, <1>2, <1>3, <1>4, <1>5, <1>6, <1>7, <1>8, <1>9, <1>11, <1>12, <1>13,
     <1>14, <1>15, <1>16, <1>17, <1>18, <1>19, <1>20 DEF Next, CycleStep

\* Every step keeps the types.
LEMMA TypeInductive == TypeOK /\ [Next]_vars => TypeOK'
BY TypeParts, TypePartsPrime, FlagsType, ControlType, DataType

\* Every value stays of its type: the tables hold objects of the chain only,
\* and no scan runs more than discovery_max_pages_per_scan iterations.
THEOREM TypeCorrect == Spec => []TypeOK
BY TypeInit, TypeInductive, PTL DEF Spec

-----------------------------------------------------------------------------
(***************************************************************************)
(* Nothing is skipped.  The saved progress, the copy a scan works on, and  *)
(* the page in hand each account for the objects the pass began with.      *)
(***************************************************************************)
Known == pools \cup failed

\* Progress p accounts for its pass when the objects in K are known.
Settled(p, K) ==
  \A o \in p.base : o \in K \/ (o[2] > p.cursor /\ ~(p.complete /\ p.cursor = 0))

RowsOK ==
  \A d \in Dexes :
    progress[d].base \subseteq OfDex(live, d) /\ Settled(progress[d], Known)

ScanOK ==
  spc \in {"query", "blank"} =>
    mem.base \subseteq OfDex(live, dex) /\ Settled(mem, Known)

PageOK ==
  spc = "hydrate" =>
    /\ mem.base \subseteq OfDex(live, dex)
    /\ page.last > 0
    /\ \A o \in mem.base :
         \/ o \in Known \cup page.left \cup found \cup missed
         \/ page.more /\ o[2] > page.last

PassInv == RowsOK /\ ScanOK /\ PageOK

\* A settled pass stays settled while more objects become known.
LEMMA SettledGrows ==
  ASSUME NEW p, NEW K, NEW L, K \subseteq L, Settled(p, K) PROVE Settled(p, L)
BY DEF Settled

\* The objects of a DEX grow with the set they are taken from.
LEMMA OfDexGrows ==
  ASSUME NEW A, NEW B, A \subseteq B, NEW d PROVE OfDex(A, d) \subseteq OfDex(B, d)
BY DEF OfDex

\* No step removes an object from the chain, or one that is in a table from
\* both tables.
LEMMA Grows ==
  ASSUME Next \/ UNCHANGED vars
  PROVE  live \subseteq live' /\ Known \subseteq Known'
<1>1. \/ UNCHANGED <<pools, failed>>
      \/ \E o \in Objects : pools' = pools \cup {o} /\ UNCHANGED failed
      \/ \E d, p, F, M : WritePage(d, p, F, M)
      \/ \E o : RetryCommit(o)
  BY Zenon DEF Next, vars, pgVars, Create, DaemonCheck, HotPath, WriterRow, Crash,
     CycleStep,
     BeginCycle, QueryPage, QueryEmpty, QueryExpired, QueryErr, Hydrate,
     CommitPage, CommitBlank, CommitErr, Settle, ListFailures, RetryOne,
     ApplyRetry, RetryEnds, Reconcile, Refresh
<1>2. Known \subseteq Known'
  BY <1>1 DEF Known, WritePage, RetryCommit, Resolve
<1>3. UNCHANGED live \/ \E o \in Objects : live' = live \cup {o}
  BY Zenon DEF Next, vars, Create, DaemonCheck, HotPath, WriterRow, Crash,
     CycleStep,
     BeginCycle, QueryPage, QueryEmpty, QueryExpired, QueryErr, Hydrate,
     CommitPage, CommitBlank, CommitErr, Settle, ListFailures, RetryOne,
     ApplyRetry, RetryEnds, Reconcile, Refresh
<1> QED
  BY <1>2, <1>3

\* Steps that leave the progress rows alone.
LEMMA RowsKept ==
  ASSUME RowsOK, Next \/ UNCHANGED vars, UNCHANGED progress
  PROVE  RowsOK'
BY Grows, SettledGrows, OfDexGrows DEF RowsOK

\* A page commit for the DEX in hand.
LEMMA RowsWritten ==
  ASSUME TypeOK, RowsOK, Next, NEW p, NEW F, NEW M, WritePage(dex, p, F, M),
         p.base \subseteq OfDex(live, dex), Settled(p, Known')
  PROVE  RowsOK'
<1> SUFFICES ASSUME NEW d \in Dexes
             PROVE  /\ progress'[d].base \subseteq OfDex(live', d)
                    /\ Settled(progress'[d], Known')
  BY DEF RowsOK
<1>1. progress \in [Dexes -> Progress]
  BY DEF TypeOK
<1>2. CASE d = dex
  <2>1. progress'[d] = p
    BY <1>1, <1>2 DEF WritePage
  <2> QED
    BY <1>2, <2>1, Grows, OfDexGrows
<1>3. CASE d # dex
  <2>1. progress'[d] = progress[d]
    BY <1>1, <1>3 DEF WritePage
  <2> QED
    BY <2>1, Grows, SettledGrows, OfDexGrows DEF RowsOK
<1> QED
  BY <1>2, <1>3

\* Outside a scan, or at the beginning of one.
LEMMA ScanOpened ==
  ASSUME RowsOK, Next,
         \/ spc' \notin {"query", "blank", "hydrate"}
         \/ spc' = "query" /\ dex' \in Dexes /\ mem' = progress[dex']
  PROVE  ScanOK' /\ PageOK'
<1>1. CASE spc' \notin {"query", "blank", "hydrate"}
  BY <1>1 DEF ScanOK, PageOK
<1>2. CASE spc' = "query" /\ dex' \in Dexes /\ mem' = progress[dex']
  <2>1. mem'.base \subseteq OfDex(live', dex') /\ Settled(mem', Known')
    BY <1>2, Grows, SettledGrows, OfDexGrows DEF RowsOK
  <2> QED
    BY <1>2, <2>1 DEF ScanOK, PageOK
<1> QED
  BY <1>1, <1>2

\* When a cycle or a scan ends, what is opened next starts from its row.
LEMMA Opens ==
  ASSUME TypeOK, CycleEnds \/ ScanEnds \/ ScanFails
  PROVE  \/ spc' \notin {"query", "blank", "hydrate"}
         \/ spc' = "query" /\ dex' \in Dexes /\ mem' = progress[dex']
<1>1. CycleEnds => spc' = "idle"
  BY DEF CycleEnds
<1>2. ScanEnds => \/ spc' = "settle"
                  \/ spc' = "query" /\ dex' \in Dexes /\ mem' = progress[dex']
  BY DiscoveryAssumption DEF ScanEnds, OpenScan, TypeOK, Dexes
<1> QED
  BY <1>1, <1>2 DEF ScanFails

\* Steps that leave the scan's copy and the page alone.
LEMMA ScanKept ==
  ASSUME ScanOK, PageOK, Next \/ UNCHANGED vars,
         UNCHANGED <<spc, dex, mem, page, found, missed>>
  PROVE  ScanOK' /\ PageOK'
<1>1. ScanOK'
  BY Grows, SettledGrows, OfDexGrows DEF ScanOK
<1>2. PageOK'
  BY Grows, OfDexGrows DEF PageOK
<1> QED
  BY <1>1, <1>2

\* The first PageSize objects behind the cursor leave out only what lies
\* behind the page's end.
LEMMA PageIsPrefix ==
  ASSUME TypeOK, NEW n \in Positions, <<dex, n>> \in FirstPage,
         NEW o \in Rest, o \notin FirstPage
  PROVE  o[2] > n
<1> SUFFICES ASSUME ~(o[2] > n) PROVE FALSE
  OBVIOUS
<1> DEFINE Upto(k) == {x \in Rest : x[2] <= k}
<1>1. /\ Rest \subseteq Objects
      /\ \A x \in Objects : x[2] \in Int
  BY DiscoveryAssumption DEF Rest, OfDex, TypeOK, Objects, Positions
<1>2. n \in Int /\ o[2] \in Int
  BY <1>1 DEF Positions
<1>3. Upto(o[2]) \subseteq Upto(n)
  BY <1>1, <1>2
<1>4. IsFiniteSet(Upto(n))
  <2>1. IsFiniteSet(Dexes) /\ IsFiniteSet(Positions)
    BY DiscoveryAssumption, FS_Interval DEF Dexes, Positions
  <2>2. IsFiniteSet(Objects)
    BY <2>1, FS_Product DEF Objects
  <2>3. Upto(n) \subseteq Objects
    BY <1>1
  <2> QED
    BY <2>2, <2>3, FS_Subset
<1>5. /\ Cardinality(Upto(o[2])) <= Cardinality(Upto(n))
      /\ Cardinality(Upto(n)) \in Nat /\ Cardinality(Upto(o[2])) \in Nat
  BY <1>3, <1>4, FS_Subset, FS_CardinalityType
<1>6. Cardinality(Upto(n)) <= PageSize
  BY DEF FirstPage
<1>7. Cardinality(Upto(o[2])) <= PageSize
  BY <1>5, <1>6, DiscoveryAssumption
<1> QED
  BY <1>7 DEF FirstPage

\* A page is opened: what the pass still owes is on it or behind its end.
LEMMA PassQueryPage ==
  ASSUME TypeOK, PassInv, Next, QueryPage PROVE ScanOK' /\ PageOK'
<1>1. PICK n \in Positions :
         /\ <<dex, n>> \in FirstPage
         /\ page' = [left |-> FirstPage, more |-> FirstPage # Rest, last |-> n]
  BY DEF QueryPage
<1>2. /\ page'.left = FirstPage /\ page'.last = n
      /\ page'.more <=> FirstPage # Rest
  BY <1>1
<1>3. n > 0
  BY DEF Positions
<1>4. /\ spc' = "hydrate" /\ UNCHANGED <<live, dex>>
      /\ mem.base \subseteq OfDex(live, dex) /\ Settled(mem, Known)
      /\ mem' = IF mem.cursor = 0
                THEN [mem EXCEPT !.base = OfDex(live, dex)] ELSE mem
  BY DEF QueryPage, PassInv, ScanOK
<1>5. mem'.base \subseteq OfDex(live, dex)
  BY <1>4 DEF TypeOK, Progress
<1>6. ASSUME NEW o \in mem'.base, o \notin Known PROVE o \in Rest
  <2>1. CASE mem.cursor = 0
    <3>1. o \in OfDex(live, dex)
      BY <1>5
    <3>2. o[2] > 0
      BY <3>1 DEF OfDex, TypeOK, Objects, Positions
    <3> QED
      BY <2>1, <3>1, <3>2 DEF Rest
  <2>2. CASE mem.cursor # 0
    <3>1. o \in mem.base /\ o[2] > mem.cursor
      BY <1>4, <1>6, <2>2 DEF Settled
    <3> QED
      BY <1>4, <3>1 DEF Rest
  <2> QED
    BY <2>1, <2>2
<1>7. ASSUME NEW o \in mem'.base
      PROVE  \/ o \in Known' \cup page'.left
             \/ page'.more /\ o[2] > page'.last
  <2>1. CASE o \in Known
    BY <2>1, Grows
  <2>2. CASE o \notin Known /\ o \in FirstPage
    BY <2>2, <1>2
  <2>3. CASE o \notin Known /\ o \notin FirstPage
    <3>1. o \in Rest
      BY <1>6, <2>3
    <3>2. o[2] > n
      BY <1>1, <2>3, <3>1, PageIsPrefix
    <3>3. FirstPage # Rest
      BY <2>3, <3>1
    <3> QED
      BY <1>2, <3>2, <3>3
  <2> QED
    BY <2>1, <2>2, <2>3
<1> QED
  BY <1>2, <1>3, <1>4, <1>5, <1>7 DEF ScanOK, PageOK

\* Hydrating an object moves it from the page to the commit in hand.
LEMMA PassHydrate ==
  ASSUME TypeOK, PassInv, Next, NEW o \in Objects, Hydrate(o)
  PROVE  ScanOK' /\ PageOK'
<1>1. /\ page'.left = page.left \ {o} /\ page'.last = page.last
      /\ page'.more = page.more
  BY DEF Hydrate, TypeOK
<1>2. /\ found' \cup missed' = found \cup missed \cup {o}
      /\ spc = "hydrate" /\ spc' = "hydrate"
      /\ UNCHANGED <<live, mem, dex>>
  BY DEF Hydrate
<1>3. Known \subseteq Known'
  BY Grows
<1> QED
  BY <1>1, <1>2, <1>3 DEF PassInv, ScanOK, PageOK

\* With its page on the way to the tables, the advanced progress accounts for
\* the pass.
LEMMA AdvancedSettles ==
  ASSUME TypeOK, PassInv, PageDone, Next, WritePage(dex, Advanced, found, missed)
  PROVE  /\ Advanced.base \subseteq OfDex(live, dex)
         /\ Settled(Advanced, Known')
<1>1. /\ Advanced.base = mem.base
      /\ Advanced.cursor = IF page.more THEN page.last ELSE 0
  BY DEF Advanced
<1>2. Known' = Known \cup found \cup missed
  BY DEF WritePage, Known
<1>3. /\ page.last > 0 /\ page.left = {}
      /\ mem.base \subseteq OfDex(live, dex)
      /\ \A o \in mem.base :
           \/ o \in Known \cup page.left \cup found \cup missed
           \/ page.more /\ o[2] > page.last
  BY DEF PassInv, PageOK, PageDone
<1>4. page.last \in Int
  BY DEF TypeOK
<1> QED
  BY <1>1, <1>2, <1>3, <1>4 DEF Settled

\* A commit, acknowledged or not, or rolled back.
LEMMA PassCommit ==
  ASSUME TypeOK, PassInv, Next, CommitPage \/ CommitBlank \/ CommitErr
  PROVE  PassInv'
<1>0. RowsOK
  BY DEF PassInv
<1>1. RowsOK'
  <2>1. CASE PageDone /\ WritePage(dex, Advanced, found, missed)
    BY <1>0, <2>1, AdvancedSettles, RowsWritten
  <2>2. CASE spc = "blank" /\ WritePage(dex, mem, {}, {})
    <3>1. mem.base \subseteq OfDex(live, dex) /\ Settled(mem, Known')
      BY <2>2, Grows, SettledGrows DEF PassInv, ScanOK
    <3> QED
      BY <1>0, <2>2, <3>1, RowsWritten
  <2>3. CASE UNCHANGED pgVars
    BY <1>0, <2>3, RowsKept DEF pgVars
  <2> QED
    BY <2>1, <2>2, <2>3 DEF CommitPage, CommitBlank, CommitErr
<1>2. ScanOK' /\ PageOK'
  <2>1. CASE ScanEnds \/ ScanFails
    BY <1>0, <2>1, Opens, ScanOpened
  <2>2. CASE CommitPage /\ page.more /\ NextPage(Advanced) /\ ~ScanEnds
    <3>1. spc' = "query" /\ mem' = Advanced /\ dex' = dex
      BY <2>2 DEF NextPage
    <3>2. Advanced.base \subseteq OfDex(live', dex) /\ Settled(Advanced, Known')
      BY <2>2, AdvancedSettles, Grows, OfDexGrows DEF CommitPage
    <3> QED
      BY <3>1, <3>2 DEF ScanOK, PageOK
  <2> QED
    BY <2>1, <2>2 DEF CommitPage, CommitBlank, CommitErr
<1> QED
  BY <1>1, <1>2 DEF PassInv

\* Every step keeps the account of the current passes.
LEMMA PassInductive == TypeOK /\ PassInv /\ [Next]_vars => PassInv'
<1> SUFFICES ASSUME TypeOK, PassInv, [Next]_vars PROVE PassInv'
  OBVIOUS
<1>0. RowsOK /\ ScanOK /\ PageOK
  BY DEF PassInv
<1>1. CASE UNCHANGED vars
  BY <1>0, <1>1, RowsKept, ScanKept DEF PassInv, vars, pgVars, cycleVars
<1>2. CASE Next
  <2>1. CASE CommitPage \/ CommitBlank \/ CommitErr
    BY <1>2, <2>1, PassCommit
  <2>2. CASE ~(CommitPage \/ CommitBlank \/ CommitErr)
    <3>1. UNCHANGED progress
      BY <1>2, <2>2, Zenon
         DEF Next, pgVars, Create, DaemonCheck, HotPath, WriterRow, Crash,
     CycleStep,
             BeginCycle, QueryPage, QueryEmpty, QueryExpired, QueryErr, Hydrate,
             Settle, ListFailures, RetryOne, RetryCommit, ApplyRetry, RetryEnds,
             Reconcile, Refresh
    <3>2. RowsOK'
      BY <1>0, <1>2, <3>1, RowsKept
    <3>3. ScanOK' /\ PageOK'
      <4>1. CASE \/ DaemonCheck
                 \/ \E o \in Objects : Create(o) \/ HotPath(o) \/ WriterRow(o) \/ Reconcile(o)
        BY <1>0, <1>2, <4>1, ScanKept
           DEF DaemonCheck, Create, HotPath, WriterRow, Reconcile, cycleVars
      <4>2. CASE Crash \/ Refresh \/ QueryErr
        BY <1>0, <1>2, <4>2, Opens, ScanOpened DEF Crash, Refresh, QueryErr
      <4>3. CASE BeginCycle
        <5>1. CASE OpenScan(1)
          <6>1. spc' = "query" /\ dex' \in Dexes /\ mem' = progress[dex']
            BY <5>1, DiscoveryAssumption DEF OpenScan, Dexes
          <6> QED
            BY <1>0, <1>2, <6>1, ScanOpened
        <5>2. CASE UNCHANGED cycleVars
          BY <1>0, <1>2, <5>2, ScanKept DEF cycleVars
        <5> QED
          BY <4>3, <5>1, <5>2 DEF BeginCycle
      <4>4. CASE QueryPage
        BY <1>2, <4>4, PassQueryPage
      <4>5. CASE QueryEmpty
        <5>1. /\ spc = "query" /\ spc' = "blank"
              /\ UNCHANGED <<dex, mem>>
          BY <4>5 DEF QueryEmpty
        <5> QED
          BY <1>0, <1>2, <5>1, Grows, SettledGrows, OfDexGrows DEF ScanOK, PageOK
      <4>6. CASE QueryExpired
        <5>1. CASE ScanEnds
          BY <1>0, <1>2, <5>1, Opens, ScanOpened
        <5>2. CASE spc' = "query" /\ mem' = NewProgress
          BY <5>2 DEF ScanOK, PageOK, Settled, NewProgress
        <5> QED
          BY <4>6, <5>1, <5>2 DEF QueryExpired, NextPage
      <4>7. ASSUME NEW o \in Objects, Hydrate(o) PROVE ScanOK' /\ PageOK'
        BY <1>2, <4>7, PassHydrate
      <4>8. CASE \/ Settle \/ ListFailures \/ ApplyRetry \/ RetryEnds
                 \/ \E o \in Objects : RetryOne(o)
        <5>1. spc' \notin {"query", "blank", "hydrate"}
          BY <4>8 DEF Settle, ListFailures, ApplyRetry, RetryEnds, RetryOne, CycleEnds
        <5> QED
          BY <5>1 DEF ScanOK, PageOK
      <4> QED
        BY <1>2, <2>2, <4>1, <4>2, <4>3, <4>4, <4>5, <4>6, <4>7, <4>8
           DEF Next, CycleStep
    <3> QED
      BY <3>2, <3>3 DEF PassInv
  <2> QED
    BY <2>1, <2>2
<1> QED
  BY <1>1, <1>2

\* Whatever crashes, failed and lost commits, failed hydrations, expired
\* cursors and new objects come in between, every object that was on chain
\* when a pass began is registered or recorded as a failure before the saved
\* cursor passes it.
THEOREM NothingIsSkipped == Spec => []NothingSkipped
<1>1. Init => PassInv
  BY DEF Init, PassInv, RowsOK, ScanOK, PageOK, Settled, NewProgress, Dexes
<1>2. PassInv => NothingSkipped
  BY DEF PassInv, RowsOK, NothingSkipped, Accounted, Settled, Known
<1> QED
  BY <1>1, <1>2, TypeInit, TypeInductive, PassInductive, PTL DEF Spec

-----------------------------------------------------------------------------
(***************************************************************************)
(* The refresh follows the commit.  What is on its way to Redis is in      *)
(* PostgreSQL already, and the catalog never shrinks.                      *)
(***************************************************************************)
CacheInv ==
  /\ RefreshFollowsCommit
  /\ hot \subseteq pools
  /\ spc = "apply" => found \subseteq pools
  /\ spc = "reconcile" => work \subseteq pools

\* No step removes a pool from PostgreSQL.
LEMMA CatalogGrows ==
  ASSUME Next \/ UNCHANGED vars PROVE pools \subseteq pools'
<1>1. \/ UNCHANGED pools
      \/ \E o \in Objects : pools' = pools \cup {o}
      \/ \E d, p, F, M : WritePage(d, p, F, M)
      \/ \E o : RetryCommit(o)
  BY Zenon DEF Next, vars, pgVars, Create, DaemonCheck, HotPath, WriterRow, Crash,
     CycleStep,
     BeginCycle, QueryPage, QueryEmpty, QueryExpired, QueryErr, Hydrate,
     CommitPage, CommitBlank, CommitErr, Settle, ListFailures, RetryOne,
     ApplyRetry, RetryEnds, Reconcile, Refresh
<1> QED
  BY <1>1 DEF WritePage, RetryCommit

\* Every step keeps Redis, and what is on its way there, behind PostgreSQL.
LEMMA CacheInductive == CacheInv /\ [Next]_vars => CacheInv'
<1> SUFFICES ASSUME CacheInv, [Next]_vars PROVE CacheInv'
  OBVIOUS
<1> USE CatalogGrows DEF CacheInv, RefreshFollowsCommit
<1>1. CASE UNCHANGED vars
  BY <1>1 DEF vars, pgVars, redisVars, cycleVars
<1>2. CASE DaemonCheck \/ \E o \in Objects : Create(o) \/ HotPath(o) \/ WriterRow(o)
  BY <1>2 DEF DaemonCheck, Create, HotPath, WriterRow, Next, pgVars, redisVars, cycleVars
<1>3. CASE Crash \/ BeginCycle \/ QueryPage \/ QueryEmpty \/ \E o \in Objects : Hydrate(o)
  BY <1>3 DEF Crash, CycleEnds, BeginCycle, OpenScan, QueryPage, QueryEmpty,
              Hydrate, Next, pgVars, redisVars, cycleVars
<1>4. CASE QueryExpired \/ QueryErr \/ CommitPage \/ CommitBlank \/ CommitErr
  <2>1. spc' \in {"idle", "query", "settle"}
    BY <1>4 DEF QueryExpired, QueryErr, CommitPage, CommitBlank, CommitErr,
                NextPage, ScanFails, ScanEnds, OpenScan, CycleEnds
  <2>2. /\ UNCHANGED <<refreshed, snapshot>> /\ pools \subseteq pools'
        /\ hot' \subseteq pools'
    BY <1>4 DEF QueryExpired, QueryErr, CommitPage, CommitBlank, CommitErr,
                WritePage, pgVars, redisVars
  <2> QED
    BY <2>1, <2>2
<1>5. CASE Settle \/ ListFailures \/ RetryEnds
  BY <1>5 DEF Settle, ListFailures, RetryEnds, CycleEnds, pgVars, redisVars
<1>6. ASSUME NEW o \in Objects, RetryOne(o) PROVE CacheInv'
  <2>1. /\ UNCHANGED <<refreshed, snapshot, hot>>
        /\ UNCHANGED pools \/ pools' = pools \cup {o}
    BY <1>6 DEF RetryOne, RetryCommit, pgVars, redisVars
  <2>2. /\ spc' \in {"apply", "idle", "retry"}
        /\ spc' = "apply" => found' = {o} /\ pools' = pools \cup {o}
    BY <1>6 DEF RetryOne, RetryCommit, CycleEnds
  <2> QED
    BY <2>1, <2>2
<1>7. CASE ApplyRetry
  BY <1>7 DEF ApplyRetry, CycleEnds, pgVars
<1>8. CASE Refresh \/ \E o \in Objects : Reconcile(o)
  BY <1>8 DEF Refresh, Reconcile, CycleEnds, pgVars
<1> QED
  BY <1>1, <1>2, <1>3, <1>4, <1>5, <1>6, <1>7, <1>8 DEF Next, CycleStep

\* Discovery puts nothing into Redis that PostgreSQL has not committed, although
\* the tasks that do it are detached and survive the scan that spawned them.
THEOREM RefreshIsCommitted == Spec => []RefreshFollowsCommit
<1>1. Init => CacheInv
  BY DEF Init, CacheInv, RefreshFollowsCommit
<1>2. CacheInv => RefreshFollowsCommit
  BY DEF CacheInv
<1> QED
  BY <1>1, <1>2, CacheInductive, PTL DEF Spec
=============================================================================
