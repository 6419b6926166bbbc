---------------------------- MODULE ServiceProofs ----------------------------
(***************************************************************************)
(* Proofs about Service, for any number of pools, workers, versions, tasks *)
(* and faults, any ring size and any scenario: what a quote is computed    *)
(* from, and what a client is sent.                                        *)
(***************************************************************************)
EXTENDS Service, TLAPS

\* A cached or stored list.
Tables == UNION {[S -> Nat] : S \in SUBSET Pools}

QuoteRec ==
    [pc : {"get", "select", "save", "overlay"}, list : Lists, read : Tables \cup {None},
     got : Tables, left : SUBSET Pools, floor : [Pools -> Nat]]

QuoteTypes ==
    /\ quote = Idle \/ quote \in QuoteRec
    /\ quote.pc \in {"save", "overlay"} => quote.read \in Tables
    /\ quote.pc = "overlay" => quote.left \subseteq DOMAIN quote.read

TaskRec == [pc : {"set", "publish", "send"}, pool : Pools, version : Nat, kept : BOOLEAN]

RefreshTypes == refresh \in [Workers -> TaskRec \cup {Idle}]

TopoTypes ==
    \/ topo = Idle \/ topo \in [pc : {"scan"}, left : SUBSET Pools]
    \/ topo \in [pc : {"select"}, list : Lists]
    \/ topo \in [pc : {"save"}, list : Lists, read : Tables]

StoreTypes ==
    /\ row \in [Pools -> Nat] /\ chain \in [Pools -> Nat] /\ hot \in [Pools -> Nat]
    /\ queued \in [Pools -> Nat] /\ told \in [Pools -> Nat]
    /\ keys \in [Lists -> Tables \cup {None}]
    /\ copies \subseteq [at : {"set", "publish"}, pool : Pools, version : Nat]

\* What a worker wrote is still in the key, or something newer, unless the task
\* was overtaken.
WrittenStays ==
    \A w \in Workers :
        refresh[w].pc \in {"publish", "send"} /\ refresh[w].kept =>
            refresh[w].version <= hot[refresh[w].pool]

\* The live key holds at least what was broadcast, and what a request was
\* promised.
KeyHolds ==
    /\ \A p \in Pools : told[p] <= hot[p]
    /\ quote # Idle => \A p \in Pools : quote.floor[p] <= hot[p]

ServedInv ==
    StoreTypes /\ QuoteTypes /\ RefreshTypes /\ TopoTypes /\ WrittenStays /\ KeyHolds /\ ToldThenServed

Messages == [pool : Pools, version : Nat]

SocketTypes ==
    /\ subs \subseteq Topics
    /\ ring \in Seq(Messages)
    /\ seen \in [Topics -> Nat] /\ due \in [Topics -> Nat]

LossInv ==
    /\ SocketTypes /\ NoUpdateLost
    /\ \A p \in Topics : due[p] # 0 => p \in subs

-----------------------------------------------------------------------------
(***************************************************************************)
(* Lists.                                                                  *)
(***************************************************************************)
LEMMA TableFacts ==
    ASSUME NEW t \in Tables
    PROVE  DOMAIN t \subseteq Pools /\ \A p \in DOMAIN t : t[p] \in Nat
BY DEF Tables

\* A function on some pools with numbers as values is a list.
LEMMA TableIntro ==
    ASSUME NEW S \in SUBSET Pools, NEW t \in [S -> Nat]
    PROVE  t \in Tables /\ DOMAIN t = S
BY DEF Tables

\* What PostgreSQL returns is a list.
LEMMA StoredType ==
    ASSUME row \in [Pools -> Nat], NEW k
    PROVE  Stored(k) \in Tables
<1>1. CASE k = "pools"
  <2> DEFINE S == {q \in Pools : row[q] \notin Paused \cup {0}}
  <2>1. [p \in S |-> row[p]] \in [S -> Nat]
    OBVIOUS
  <2> HIDE DEF S
  <2>2. [p \in S |-> row[p]] \in Tables
    BY <2>1, TableIntro DEF S
  <2> QED BY <1>1, <2>2 DEF Stored, S
<1>2. CASE k # "pools"
  <2> DEFINE S == {q \in Pools : row[q] # 0}
  <2>1. [p \in S |-> 1] \in [S -> Nat]
    OBVIOUS
  <2> HIDE DEF S
  <2>2. [p \in S |-> 1] \in Tables
    BY <2>1, TableIntro DEF S
  <2> QED BY <1>2, <2>2 DEF Stored, S
<1> QED BY <1>1, <1>2

\* A pool is laid over the ones a request has already.
LEMMA TableGrow ==
    ASSUME NEW g \in Tables, NEW p \in Pools, NEW v \in Nat
    PROVE  LET h == [q \in DOMAIN g \cup {p} |-> IF q = p THEN v ELSE g[q]]
           IN h \in Tables /\ DOMAIN h = DOMAIN g \cup {p}
<1> DEFINE S == DOMAIN g \cup {p}
           h == [q \in S |-> IF q = p THEN v ELSE g[q]]
<1>1. S \in SUBSET Pools /\ h \in [S -> Nat]
  BY TableFacts
<1> HIDE DEF h, S
<1>2. h \in Tables /\ DOMAIN h = S
  BY <1>1, TableIntro
<1> QED BY <1>2 DEF h, S

-----------------------------------------------------------------------------
(***************************************************************************)
(* What a quote is computed from.                                          *)
(***************************************************************************)
\* The daemon starts with empty keys and no request.
LEMMA ServedInit == Init => ServedInv
<1> SUFFICES ASSUME Init PROVE ServedInv
  OBVIOUS
<1>1. StoreTypes
  BY DEF Init, QuoteInit, StoreTypes
<1>2. QuoteTypes /\ TopoTypes /\ ToldThenServed
  BY DEF Init, QuoteInit, QuoteTypes, TopoTypes, ToldThenServed, Idle
<1>3. RefreshTypes /\ WrittenStays
  BY DEF Init, QuoteInit, RefreshTypes, WrittenStays, Idle
<1>4. KeyHolds
  BY DEF Init, QuoteInit, KeyHolds
<1> QED BY <1>1, <1>2, <1>3, <1>4 DEF ServedInv

\* Steps that touch neither the keys nor a request.
LEMMA ServedStutter ==
    ASSUME ServedInv, UNCHANGED <<row, quoteVars>>
    PROVE  ServedInv'
BY DEF quoteVars, ServedInv, StoreTypes, QuoteTypes, RefreshTypes, TopoTypes, WrittenStays, KeyHolds,
       ToldThenServed

\* A step of the request that leaves Redis' live keys and the workers alone.
LEMMA ServedRequest ==
    ASSUME ServedInv, UNCHANGED <<row, chain, hot, refresh, copies, topo, queued, told>>,
           keys' \in [Lists -> Tables \cup {None}],
           QuoteTypes', ToldThenServed',
           quote' # Idle => \A p \in Pools : quote'.floor[p] <= hot[p]
    PROVE  ServedInv'
BY DEF ServedInv, StoreTypes, RefreshTypes, TopoTypes, WrittenStays, KeyHolds

\* A list has been loaded: the pools' versions are laid over it next.
LEMMA ListLoadedFacts ==
    ASSUME ServedInv, quote # Idle, NEW l \in Tables, quote' = ListLoaded(l)
    PROVE  /\ QuoteTypes' /\ ToldThenServed'
           /\ quote' # Idle => quote'.floor = quote.floor
<1>1. DOMAIN l \subseteq Pools
  BY TableFacts
<1>2. quote \in QuoteRec
  BY DEF ServedInv, QuoteTypes
<1>3. CASE quote.list = "pools"
  BY <1>1, <1>2, <1>3 DEF ListLoaded, QuoteTypes, QuoteRec, ToldThenServed, ServedInv
<1>4. CASE quote.list # "pools"
  BY <1>4 DEF ListLoaded, QuoteTypes, ToldThenServed, Idle
<1> QED BY <1>3, <1>4

\* A request starts with what has been broadcast.
LEMMA ServedArrives == ASSUME ServedInv, QuoteArrives PROVE ServedInv'
<1>1. told \in [Pools -> Nat] /\ <<>> \in Tables
  <2>1. <<>> \in [{} -> Nat]
    OBVIOUS
  <2> QED BY <2>1 DEF ServedInv, StoreTypes, Tables
<1>2. /\ quote' \in QuoteRec /\ quote'.pc = "get" /\ quote'.floor = told /\ quote'.got = <<>>
  BY <1>1 DEF QuoteArrives, Request, QuoteRec, Lists
<1>3. QuoteTypes' /\ ToldThenServed'
  BY <1>2 DEF QuoteTypes, ToldThenServed
<1>4. \A p \in Pools : told[p] <= hot[p]
  BY DEF ServedInv, KeyHolds
<1>5. keys' \in [Lists -> Tables \cup {None}]
  BY DEF QuoteArrives, ServedInv, StoreTypes
<1> QED BY <1>2, <1>3, <1>4, <1>5, ServedRequest DEF QuoteArrives

\* The steps of a request.
LEMMA ServedQuote == ASSUME ServedInv, QuoteStep PROVE ServedInv'
<1>1. quote # Idle /\ quote \in QuoteRec
  <2>1. quote.pc # "idle"
    BY DEF QuoteStep, QuoteGet, QuoteGetFails, QuoteSelect, QuoteSave, QuoteCompile, QuoteOverlay, QuoteOverlayFails
  <2> QED BY <2>1 DEF ServedInv, QuoteTypes, Idle
<1>2. /\ UNCHANGED <<row, chain, hot, refresh, copies, topo, queued, told>>
      /\ \/ UNCHANGED keys
         \/ quote.pc = "save" /\ keys' = [keys EXCEPT ![quote.list] = quote.read]
  BY DEF QuoteStep, QuoteGet, QuoteGetFails, QuoteSelect, QuoteSave, QuoteCompile, QuoteOverlay, QuoteOverlayFails
<1>3. keys' \in [Lists -> Tables \cup {None}]
  BY <1>1, <1>2 DEF ServedInv, StoreTypes, QuoteTypes, QuoteRec
<1>4. SUFFICES QuoteTypes' /\ ToldThenServed'
               /\ (quote' # Idle => \A p \in Pools : quote'.floor[p] <= hot[p])
  BY <1>2, <1>3, ServedRequest
<1>5. /\ \A p \in Pools : quote.floor[p] <= hot[p] /\ quote.floor[p] \in Nat /\ hot[p] \in Nat
      /\ \A p \in DOMAIN quote.got : quote.got[p] >= quote.floor[p]
      /\ DOMAIN quote.got \subseteq Pools /\ \A p \in DOMAIN quote.got : quote.got[p] \in Nat
  BY <1>1, TableFacts DEF ServedInv, KeyHolds, StoreTypes, ToldThenServed, QuoteRec
<1>6. ASSUME NEW l \in Tables, quote' = ListLoaded(l)
      PROVE  QuoteTypes' /\ ToldThenServed'
             /\ (quote' # Idle => \A p \in Pools : quote'.floor[p] <= hot[p])
  BY <1>1, <1>5, <1>6, ListLoadedFacts
<1>7. CASE quote' = [quote EXCEPT !.pc = "select"]
  BY <1>1, <1>5, <1>7 DEF QuoteTypes, QuoteRec, ToldThenServed
<1>8. CASE quote' = Idle
  BY <1>8 DEF QuoteTypes, ToldThenServed, Idle
<1>9. CASE QuoteGet
  <2>1. keys[quote.list] \in Tables \cup {None}
    BY <1>1 DEF ServedInv, StoreTypes, QuoteRec
  <2>2. quote' = [quote EXCEPT !.pc = "select"] \/ (keys[quote.list] # None /\ quote' = ListLoaded(keys[quote.list]))
    BY <1>9 DEF QuoteGet
  <2> QED BY <1>6, <1>7, <2>1, <2>2
<1>10. CASE QuoteGetFails
  BY <1>7, <1>10 DEF QuoteGetFails
<1>11. CASE QuoteSelect
  <2>1. Stored(quote.list) \in Tables
    BY StoredType DEF ServedInv, StoreTypes
  <2>2. CASE quote' = [quote EXCEPT !.pc = "save", !.read = Stored(quote.list)]
    BY <1>1, <1>5, <2>1, <2>2 DEF QuoteTypes, QuoteRec, ToldThenServed
  <2> QED BY <1>8, <1>11, <2>2 DEF QuoteSelect
<1>12. CASE QuoteSave
  <2>1. quote.read \in Tables
    BY <1>12 DEF QuoteSave, ServedInv, QuoteTypes
  <2> QED BY <1>6, <1>12, <2>1 DEF QuoteSave
<1>13. CASE QuoteCompile
  <2>1. CASE quote' = [Request EXCEPT !.list = "tokens"]
    <3>1. <<>> \in Tables
      <4>1. <<>> \in [{} -> Nat]
        OBVIOUS
      <4> QED BY <4>1 DEF Tables
    <3>2. quote' \in QuoteRec /\ quote'.pc = "get" /\ quote'.got = <<>> /\ quote'.floor = [p \in Pools |-> 0]
      BY <2>1, <3>1 DEF Request, QuoteRec, Lists
    <3> QED BY <1>5, <3>2 DEF QuoteTypes, ToldThenServed
  <2> QED BY <1>8, <1>13, <2>1 DEF QuoteCompile
<1>14. ASSUME NEW p \in Pools, QuoteOverlay(p)
       PROVE  QuoteTypes' /\ ToldThenServed'
              /\ (quote' # Idle => \A q \in Pools : quote'.floor[q] <= hot[q])
  <2>1. Overlay(p) \in Nat /\ Overlay(p) >= quote.floor[p]
    <3>1. quote.read[p] \in Nat
      BY <1>14, TableFacts DEF QuoteOverlay, ServedInv, QuoteTypes
    <3> QED BY <1>5, <3>1 DEF Overlay
  <2> DEFINE g == [q \in DOMAIN quote.got \cup {p} |-> IF q = p THEN Overlay(p) ELSE quote.got[q]]
  <2>2. g \in Tables /\ DOMAIN g = DOMAIN quote.got \cup {p}
    BY <1>1, <2>1, TableGrow DEF QuoteRec
  <2>3. \A q \in DOMAIN g : g[q] >= quote.floor[q]
    BY <1>5, <2>1
  <2>4. PICK h \in {quote.got, g} : quote' = [quote EXCEPT !.left = @ \ {p}, !.got = h]
    BY <1>14 DEF QuoteOverlay
  <2> HIDE DEF g
  <2>5. h \in Tables /\ \A q \in DOMAIN h : h[q] >= quote.floor[q]
    BY <1>1, <1>5, <2>2, <2>3 DEF QuoteRec
  <2>6. quote.pc = "overlay" /\ quote.read \in Tables /\ quote.left \subseteq DOMAIN quote.read
    BY <1>14 DEF QuoteOverlay, ServedInv, QuoteTypes
  <2>7. /\ quote' \in QuoteRec /\ quote'.floor = quote.floor /\ quote'.got = h /\ quote'.read = quote.read
        /\ quote'.left \subseteq quote.left
    BY <1>1, <2>4, <2>5 DEF QuoteRec
  <2> QED BY <1>5, <2>5, <2>6, <2>7 DEF QuoteTypes, ToldThenServed
<1>15. ASSUME NEW p \in Pools, QuoteOverlayFails(p)
       PROVE  QuoteTypes' /\ ToldThenServed'
              /\ (quote' # Idle => \A q \in Pools : quote'.floor[q] <= hot[q])
  <2> DEFINE g == [q \in DOMAIN quote.got \cup {p} |-> IF q = p THEN quote.read[p] ELSE quote.got[q]]
             f == [quote.floor EXCEPT ![p] = 0]
  <2>1. quote.pc = "overlay" /\ quote.read \in Tables /\ quote.left \subseteq DOMAIN quote.read
    BY <1>15 DEF QuoteOverlayFails, ServedInv, QuoteTypes
  <2>2. quote.read[p] \in Nat
    BY <1>15, <2>1, TableFacts DEF QuoteOverlayFails
  <2>3. g \in Tables /\ DOMAIN g = DOMAIN quote.got \cup {p}
    BY <1>1, <2>2, TableGrow DEF QuoteRec
  <2>4. f \in [Pools -> Nat] /\ \A q \in Pools : f[q] <= hot[q] /\ f[q] <= quote.floor[q] /\ (q = p => f[q] = 0)
    BY <1>1, <1>5 DEF QuoteRec
  <2>5. \A q \in DOMAIN g : g[q] >= f[q]
    BY <1>5, <2>2, <2>4
  <2>6. quote' = [quote EXCEPT !.left = @ \ {p}, !.floor = f, !.got = g]
    BY <1>15 DEF QuoteOverlayFails
  <2> HIDE DEF g, f
  <2>7. /\ quote' \in QuoteRec /\ quote'.floor = f /\ quote'.got = g /\ quote'.read = quote.read
        /\ quote'.left \subseteq quote.left
    BY <1>1, <2>3, <2>4, <2>6 DEF QuoteRec
  <2> QED BY <1>5, <2>1, <2>4, <2>5, <2>7 DEF QuoteTypes, ToldThenServed
<1> QED BY <1>9, <1>10, <1>11, <1>12, <1>13, <1>14, <1>15 DEF QuoteStep

\* A task that is overtaken only loses its claim on the key.
LEMMA OvertakenFacts ==
    ASSUME NEW t \in TaskRec \cup {Idle}, NEW p \in Pools, NEW v \in Nat
    PROVE  LET u == Overtaken(t, p, v)
           IN /\ u \in TaskRec \cup {Idle} /\ u.pc = t.pc
              /\ u.pc \in {"publish", "send"} /\ u.kept =>
                   /\ t.kept /\ t \in TaskRec
                   /\ u.pool = t.pool /\ u.version = t.version
                   /\ t.pool = p => t.version <= v
<1> DEFINE u == Overtaken(t, p, v)
<1>1. CASE t = Idle
  BY <1>1 DEF Overtaken, Idle
<1>2. CASE t \in TaskRec
  <2>1. CASE t.pc \in {"publish", "send"} /\ t.pool = p /\ v < t.version
    <3>1. u = [t EXCEPT !.kept = FALSE]
      BY <2>1 DEF Overtaken
    <3> QED BY <1>2, <3>1 DEF TaskRec
  <2>2. CASE ~(t.pc \in {"publish", "send"} /\ t.pool = p /\ v < t.version)
    <3>1. u = t
      BY <2>2 DEF Overtaken
    <3>2. t.version \in Nat
      BY <1>2 DEF TaskRec
    <3> QED BY <1>2, <2>2, <3>1, <3>2 DEF TaskRec
  <2> QED BY <2>1, <2>2
<1> QED BY <1>1, <1>2

\* The key of p becomes v, written or expired: whatever was told, promised or
\* written and is newer no longer binds, and the rest still holds.
LEMMA ServedKey ==
    ASSUME ServedInv, NEW p \in Pools, NEW v \in Nat, KeyBecomes(p, v),
           UNCHANGED <<row, chain, keys, topo, queued>>,
           copies' \subseteq [at : {"set", "publish"}, pool : Pools, version : Nat],
           RefreshTypes',
           \A w \in Workers :
               \/ refresh'[w] = Overtaken(refresh[w], p, v)
               \/ refresh'[w].pc \notin {"publish", "send"}
               \/ refresh'[w].pool = p /\ refresh'[w].version = v
    PROVE  ServedInv'
<1>1. /\ hot' \in [Pools -> Nat] /\ told' \in [Pools -> Nat] /\ hot'[p] = v
      /\ told'[p] \in {0, told[p]} /\ told'[p] <= v
      /\ \A q \in Pools : q # p => hot'[q] = hot[q] /\ told'[q] = told[q]
      /\ \A q \in Pools : hot[q] \in Nat /\ told[q] \in Nat
  BY DEF KeyBecomes, ServedInv, StoreTypes
<1>2. StoreTypes' /\ TopoTypes'
  BY <1>1 DEF ServedInv, StoreTypes, TopoTypes
<1>3. QuoteTypes' /\ ToldThenServed' /\ (quote' # Idle => \A q \in Pools : quote'.floor[q] <= hot'[q])
  <2>1. CASE quote = Idle
    <3>1. quote' = Idle
      BY <2>1 DEF KeyBecomes
    <3> QED BY <3>1 DEF QuoteTypes, ToldThenServed, Idle
  <2>2. CASE quote # Idle
    <3> DEFINE f == [quote.floor EXCEPT ![p] = IF v < @ THEN 0 ELSE @]
    <3>1. quote \in QuoteRec /\ quote' = [quote EXCEPT !.floor = f]
      BY <2>2 DEF ServedInv, QuoteTypes, KeyBecomes
    <3>2. /\ f \in [Pools -> Nat] /\ f[p] <= v
          /\ \A q \in Pools : f[q] <= quote.floor[q] /\ (q # p => f[q] = quote.floor[q])
      BY <3>1 DEF QuoteRec
    <3> HIDE DEF f
    <3>3. /\ quote' \in QuoteRec /\ quote'.floor = f /\ quote'.got = quote.got /\ quote'.pc = quote.pc
          /\ quote'.read = quote.read /\ quote'.left = quote.left
      BY <3>1, <3>2 DEF QuoteRec
    <3>4. \A q \in Pools : f[q] <= hot'[q]
      BY <1>1, <2>2, <3>2 DEF ServedInv, KeyHolds
    <3>5. /\ DOMAIN quote.got \subseteq Pools /\ \A q \in DOMAIN quote.got : quote.got[q] \in Nat
          /\ quote.floor \in [Pools -> Nat]
      BY <3>1, TableFacts DEF QuoteRec
    <3>6. \A q \in DOMAIN quote.got : quote.got[q] >= f[q]
      BY <2>2, <3>2, <3>5 DEF ServedInv, ToldThenServed
    <3> QED BY <2>2, <3>3, <3>4, <3>6 DEF QuoteTypes, ToldThenServed, ServedInv
  <2> QED BY <2>1, <2>2
<1>4. KeyHolds'
  BY <1>1, <1>3 DEF ServedInv, KeyHolds
<1>5. WrittenStays'
  <2> SUFFICES ASSUME NEW w \in Workers, refresh'[w].pc \in {"publish", "send"}, refresh'[w].kept
               PROVE  refresh'[w].version <= hot'[refresh'[w].pool]
    BY DEF WrittenStays
  <2>1. CASE refresh'[w].pool = p /\ refresh'[w].version = v
    BY <1>1, <2>1
  <2>2. CASE refresh'[w] = Overtaken(refresh[w], p, v)
    <3>1. refresh[w] \in TaskRec \cup {Idle}
      BY DEF ServedInv, RefreshTypes
    <3>2. /\ refresh[w].kept /\ refresh[w] \in TaskRec /\ refresh[w].pc \in {"publish", "send"}
          /\ refresh'[w].pool = refresh[w].pool /\ refresh'[w].version = refresh[w].version
          /\ refresh[w].pool = p => refresh[w].version <= v
      BY <2>2, <3>1, OvertakenFacts
    <3>3. refresh[w].pool \in Pools /\ refresh[w].version <= hot[refresh[w].pool]
      BY <3>2 DEF ServedInv, WrittenStays, TaskRec
    <3> QED BY <1>1, <3>2, <3>3
  <2> QED BY <2>1, <2>2
<1> QED BY <1>2, <1>3, <1>4, <1>5 DEF ServedInv

\* Everybody overtaken is still everybody.
LEMMA AllOvertakenType ==
    ASSUME RefreshTypes, NEW p \in Pools, NEW v \in Nat
    PROVE  /\ AllOvertaken(p, v) \in [Workers -> TaskRec \cup {Idle}]
           /\ \A w \in Workers : AllOvertaken(p, v)[w] = Overtaken(refresh[w], p, v)
<1>1. \A w \in Workers : refresh[w] \in TaskRec \cup {Idle}
  BY DEF RefreshTypes
<1>2. \A w \in Workers : Overtaken(refresh[w], p, v) \in TaskRec \cup {Idle}
  BY <1>1, OvertakenFacts
<1> QED BY <1>2 DEF AllOvertaken

\* Steps of the static worker, the writer and the chain that leave the live keys
\* alone.
LEMMA ServedTopology ==
    ASSUME ServedInv, UNCHANGED <<hot, quote, refresh, told>>,
           row' \in [Pools -> Nat], chain' \in [Pools -> Nat], queued' \in [Pools -> Nat],
           copies' \subseteq [at : {"set", "publish"}, pool : Pools, version : Nat],
           keys' \in [Lists -> Tables \cup {None}], TopoTypes'
    PROVE  ServedInv'
BY DEF ServedInv, StoreTypes, QuoteTypes, RefreshTypes, WrittenStays, KeyHolds, ToldThenServed

\* The static worker's cycle.
LEMMA ServedStatic ==
    ASSUME ServedInv, CycleStart \/ Commit \/ \E b \in BOOLEAN : StaticStep(b)
    PROVE  ServedInv'
<1>1. CASE CycleStart \/ FirstCycle
  <2>1. TopoTypes'
    BY <1>1 DEF CycleStart, FirstCycle, TopoTypes, Scanning
  <2> QED BY <1>1, <2>1, ServedTopology DEF CycleStart, FirstCycle, SpawnStatic, ServedInv, StoreTypes
<1>2. ASSUME NEW b \in BOOLEAN, Settle(b) PROVE ServedInv'
  BY <1>2, ServedTopology DEF Settle, TopoTypes, Lists, ServedInv, StoreTypes
<1>3. CASE TopoSelect
  <2>1. topo.list \in Lists
    BY <1>3 DEF TopoSelect, ServedInv, TopoTypes, Idle
  <2>2. Stored(topo.list) \in Tables
    BY StoredType DEF ServedInv, StoreTypes
  <2>3. TopoTypes'
    BY <1>3, <2>1, <2>2 DEF TopoSelect, TopoTypes
  <2> QED BY <1>3, <2>3, ServedTopology DEF TopoSelect, ServedInv, StoreTypes
<1>4. CASE TopoSave
  <2>1. topo.list \in Lists /\ topo.read \in Tables
    BY <1>4 DEF TopoSave, ServedInv, TopoTypes, Idle
  <2>2. keys' \in [Lists -> Tables \cup {None}] /\ TopoTypes'
    BY <1>4, <2>1 DEF TopoSave, ServedInv, StoreTypes, TopoTypes, Lists
  <2> QED BY <1>4, <2>2, ServedTopology DEF TopoSave, ServedInv, StoreTypes
<1>5. ASSUME NEW p \in Pools, Register(p) PROVE ServedInv'
  <2>1. chain[p] \in Nat /\ topo \in [pc : {"scan"}, left : SUBSET Pools]
    BY <1>5 DEF Register, ServedInv, StoreTypes, TopoTypes, Idle
  <2>2. row' \in [Pools -> Nat] /\ TopoTypes'
    BY <1>5, <2>1 DEF Register, ServedInv, StoreTypes, TopoTypes, Scanning
  <2>3. copies' \subseteq [at : {"set", "publish"}, pool : Pools, version : Nat]
    BY <1>5, <2>1 DEF Register, ServedInv, StoreTypes
  <2> QED BY <1>5, <2>2, <2>3, ServedTopology DEF Register, ServedInv, StoreTypes
<1> QED BY <1>1, <1>2, <1>3, <1>4, <1>5 DEF StaticStep, Commit

\* The detached copies of what a cycle committed.
LEMMA ServedCopy == ASSUME ServedInv, CopyStep PROVE ServedInv'
<1>1. PICK c \in copies : CopySet(c) \/ CopyPublish(c)
  BY DEF CopyStep
<1>2. c \in [at : {"set", "publish"}, pool : Pools, version : Nat]
  BY <1>1 DEF ServedInv, StoreTypes
<1>3. c.pool \in Pools /\ c.version \in Nat /\ [c EXCEPT !.at = "publish"] \in [at : {"set", "publish"}, pool : Pools, version : Nat]
  BY <1>2
<1>4. /\ copies' \subseteq [at : {"set", "publish"}, pool : Pools, version : Nat]
      /\ UNCHANGED <<row, chain, keys, topo>>
  BY <1>1, <1>3 DEF CopySet, CopyPublish, ServedInv, StoreTypes
<1>5. TopoTypes' /\ RefreshTypes
  BY <1>4 DEF ServedInv, TopoTypes
<1>6. CASE CopyPublish(c)
  <2>1. queued' \in [Pools -> Nat]
    BY <1>3, <1>6 DEF CopyPublish, ServedInv, StoreTypes
  <2> QED BY <1>4, <1>5, <1>6, <2>1, ServedTopology DEF CopyPublish, ServedInv, StoreTypes
<1>7. CASE CopySet(c)
  <2>1. CASE KeyBecomes(c.pool, c.version) /\ refresh' = AllOvertaken(c.pool, c.version)
    <3>1. RefreshTypes' /\ \A w \in Workers : refresh'[w] = Overtaken(refresh[w], c.pool, c.version)
      BY <1>3, <1>5, <2>1, AllOvertakenType DEF RefreshTypes
    <3> QED BY <1>3, <1>4, <1>7, <2>1, <3>1, ServedKey DEF CopySet
  <2>2. CASE UNCHANGED <<hot, told, quote, refresh>>
    BY <1>4, <1>5, <1>7, <2>2, ServedTopology DEF CopySet, ServedInv, StoreTypes
  <2> QED BY <1>7, <2>1, <2>2 DEF CopySet
<1> QED BY <1>1, <1>6, <1>7

\* A worker moves on without writing: what it may claim it could claim before.
LEMMA ServedMoves ==
    ASSUME ServedInv, NEW w \in Workers, NEW t \in TaskRec \cup {Idle},
           refresh' = [refresh EXCEPT ![w] = t],
           \/ t.pc \notin {"publish", "send"}
           \/ /\ refresh[w].pc \in {"publish", "send"}
              /\ t.kept = refresh[w].kept /\ t.pool = refresh[w].pool /\ t.version = refresh[w].version,
           UNCHANGED <<row, chain, hot, keys, quote, copies, topo, told>>,
           queued' \in [Pools -> Nat]
    PROVE  ServedInv'
<1>1. RefreshTypes' /\ \A u \in Workers : u # w => refresh'[u] = refresh[u]
  BY DEF ServedInv, RefreshTypes
<1>2. refresh'[w] = t
  BY DEF ServedInv, RefreshTypes
<1>3. WrittenStays'
  <2> SUFFICES ASSUME NEW u \in Workers, refresh'[u].pc \in {"publish", "send"}, refresh'[u].kept
               PROVE  refresh'[u].version <= hot[refresh'[u].pool]
    BY DEF WrittenStays
  <2>1. CASE u # w
    BY <1>1, <2>1 DEF ServedInv, WrittenStays
  <2>2. CASE u = w
    BY <1>2, <2>2 DEF ServedInv, WrittenStays
  <2> QED BY <2>1, <2>2
<1> QED BY <1>1, <1>3 DEF ServedInv, StoreTypes, QuoteTypes, TopoTypes, KeyHolds, ToldThenServed

\* The dynamic workers' steps.
LEMMA ServedWorker ==
    ASSUME ServedInv, NEW w \in Workers,
           SetHot(w) \/ SetHotFails(w) \/ Publish(w) \/ Broadcast(w) \/ \E p \in Pools : Fetch(w, p)
    PROVE  ServedInv'
<1> DEFINE t == refresh[w]
<1>1. /\ t \in TaskRec \cup {Idle} /\ Idle \in TaskRec \cup {Idle}
      /\ Idle.pc \notin {"publish", "send"} /\ RefreshTypes
      /\ \A p \in Pools : chain[p] \in Nat /\ hot[p] \in Nat /\ told[p] \in Nat /\ told[p] <= hot[p]
  BY DEF ServedInv, RefreshTypes, Idle, StoreTypes, KeyHolds
<1>2. t.pc # "idle" => t \in TaskRec /\ t.pool \in Pools /\ t.version \in Nat
  BY <1>1 DEF Idle, TaskRec
<1>3. ASSUME t \in TaskRec, NEW r \in TaskRec \cup {Idle}, KeyBecomes(t.pool, t.version),
             r.pc \notin {"publish", "send"} \/ (r.pool = t.pool /\ r.version = t.version),
             refresh' = [AllOvertaken(t.pool, t.version) EXCEPT ![w] = r],
             UNCHANGED <<row, chain, keys, copies, topo, queued>>
      PROVE  ServedInv'
  <2>1. t.pool \in Pools /\ t.version \in Nat
    BY <1>3 DEF TaskRec
  <2>2. /\ AllOvertaken(t.pool, t.version) \in [Workers -> TaskRec \cup {Idle}]
        /\ \A u \in Workers : AllOvertaken(t.pool, t.version)[u] = Overtaken(refresh[u], t.pool, t.version)
    BY <1>1, <2>1, AllOvertakenType
  <2>3. /\ RefreshTypes' /\ refresh'[w] = r
        /\ \A u \in Workers : u # w => refresh'[u] = Overtaken(refresh[u], t.pool, t.version)
    BY <1>3, <2>2 DEF RefreshTypes
  <2>4. copies' \subseteq [at : {"set", "publish"}, pool : Pools, version : Nat]
    BY <1>3 DEF ServedInv, StoreTypes
  <2> QED BY <1>3, <2>1, <2>3, <2>4, ServedKey
<1>4. CASE SetHot(w)
  <2> DEFINE r == [t EXCEPT !.pc = "publish"]
  <2>1. t \in TaskRec
    BY <1>2, <1>4 DEF SetHot
  <2>2. r \in TaskRec /\ r.pool = t.pool /\ r.version = t.version
    BY <2>1 DEF TaskRec
  <2>3. /\ KeyBecomes(t.pool, t.version) /\ refresh' = [AllOvertaken(t.pool, t.version) EXCEPT ![w] = r]
        /\ UNCHANGED <<row, chain, keys, copies, topo, queued>>
    BY <1>4 DEF SetHot
  <2> QED BY <1>3, <2>1, <2>2, <2>3
<1>5. CASE SetHotFails(w)
  <2>1. t \in TaskRec /\ t.pc = "set" /\ UNCHANGED <<row, chain, keys, copies, topo, queued>>
    BY <1>2, <1>5 DEF SetHotFails
  <2>2. PICK r \in {t, Idle} :
          \/ KeyBecomes(t.pool, t.version) /\ refresh' = [AllOvertaken(t.pool, t.version) EXCEPT ![w] = r]
          \/ UNCHANGED <<hot, told, quote>> /\ refresh' = [refresh EXCEPT ![w] = r]
    BY <1>5 DEF SetHotFails, SetHotGivesUp
  <2>3. r \in TaskRec \cup {Idle} /\ r.pc \notin {"publish", "send"}
    BY <1>1, <2>1, <2>2
  <2>4. queued' \in [Pools -> Nat]
    BY <2>1 DEF ServedInv, StoreTypes
  <2>5. CASE KeyBecomes(t.pool, t.version) /\ refresh' = [AllOvertaken(t.pool, t.version) EXCEPT ![w] = r]
    BY <1>3, <2>1, <2>3, <2>5
  <2>6. CASE UNCHANGED <<hot, told, quote>> /\ refresh' = [refresh EXCEPT ![w] = r]
    BY <2>1, <2>3, <2>4, <2>6, ServedMoves
  <2> QED BY <2>2, <2>5, <2>6
<1>6. CASE Publish(w)
  <2>1. t \in TaskRec /\ t.pc = "publish" /\ UNCHANGED <<row, chain, hot, keys, quote, copies, topo, told>>
    BY <1>2, <1>6 DEF Publish
  <2>2. queued' \in [Pools -> Nat]
    BY <1>2, <1>6, <2>1 DEF Publish, ServedInv, StoreTypes
  <2> DEFINE r == [t EXCEPT !.pc = "send"]
  <2>3. refresh' = [refresh EXCEPT ![w] = r] \/ refresh' = [refresh EXCEPT ![w] = Idle]
    BY <1>6 DEF Publish
  <2>4. r \in TaskRec /\ r.kept = t.kept /\ r.pool = t.pool /\ r.version = t.version
    BY <2>1 DEF TaskRec
  <2> HIDE DEF r
  <2> QED BY <1>1, <2>1, <2>2, <2>3, <2>4, ServedMoves
<1>7. CASE Broadcast(w)
  <2>1. /\ t \in TaskRec /\ t.pc = "send" /\ UNCHANGED <<row, chain, hot, keys, quote, copies, topo, queued>>
        /\ refresh' = [refresh EXCEPT ![w] = Idle]
        /\ told' = [told EXCEPT ![t.pool] = IF t.kept /\ t.version > @ THEN t.version ELSE @]
    BY <1>2, <1>7 DEF Broadcast
  <2>2. t.pool \in Pools /\ t.version \in Nat /\ (t.kept => t.version <= hot[t.pool])
    BY <1>2, <2>1 DEF ServedInv, WrittenStays
  <2>3. told' \in [Pools -> Nat] /\ \A p \in Pools : told'[p] <= hot[p]
    BY <1>1, <2>1, <2>2 DEF ServedInv, StoreTypes
  <2>4. RefreshTypes' /\ \A u \in Workers : refresh'[u] = refresh[u] \/ refresh'[u] = Idle
    BY <1>1, <2>1 DEF RefreshTypes
  <2>5. WrittenStays' /\ KeyHolds'
    BY <1>1, <2>1, <2>3, <2>4 DEF ServedInv, WrittenStays, KeyHolds
  <2> QED BY <2>1, <2>3, <2>4, <2>5 DEF ServedInv, StoreTypes, QuoteTypes, TopoTypes, ToldThenServed
<1>8. ASSUME NEW p \in Pools, Fetch(w, p) PROVE ServedInv'
  <2> DEFINE r == [pc |-> "set", pool |-> p, version |-> chain[p], kept |-> TRUE]
  <2>1. r \in TaskRec /\ r.pc \notin {"publish", "send"}
    BY <1>1 DEF TaskRec
  <2>2. refresh' = [refresh EXCEPT ![w] = r] /\ UNCHANGED <<row, chain, hot, keys, quote, copies, topo, told, queued>>
    BY <1>8 DEF Fetch
  <2>3. queued' \in [Pools -> Nat]
    BY <2>2 DEF ServedInv, StoreTypes
  <2> HIDE DEF r
  <2> QED BY <2>1, <2>2, <2>3, ServedMoves
<1> QED BY <1>4, <1>5, <1>6, <1>7, <1>8

\* The database writer, the chain, and the keys' time to live.
LEMMA ServedAround ==
    ASSUME ServedInv,
           Expiry \/ \E p \in Pools : Write(p) \/ ChainMoves(p)
    PROVE  ServedInv'
<1>1. ASSUME NEW p \in Pools, Write(p) PROVE ServedInv'
  <2>1. row' \in [Pools -> Nat] /\ queued' \in [Pools -> Nat]
    BY <1>1 DEF Write, ServedInv, StoreTypes
  <2> QED BY <1>1, <2>1, ServedTopology DEF Write, ServedInv, StoreTypes, TopoTypes
<1>2. ASSUME NEW p \in Pools, ChainMoves(p) PROVE ServedInv'
  <2>1. chain' \in [Pools -> Nat]
    BY <1>2 DEF ChainMoves, ServedInv, StoreTypes
  <2> QED BY <1>2, <2>1, ServedTopology DEF ChainMoves, ServedInv, StoreTypes, TopoTypes
<1>3. ASSUME NEW k \in Lists, ExpireList(k) PROVE ServedInv'
  BY <1>3, ServedTopology DEF ExpireList, ServedInv, StoreTypes, TopoTypes
<1>4. ASSUME NEW p \in Pools, ExpireHot(p) PROVE ServedInv'
  <2>1. /\ copies' \subseteq [at : {"set", "publish"}, pool : Pools, version : Nat]
        /\ KeyBecomes(p, 0) /\ UNCHANGED <<row, chain, keys, topo, queued>>
    BY <1>4 DEF ExpireHot, ServedInv, StoreTypes
  <2>2. RefreshTypes' /\ \A w \in Workers : refresh'[w] = Overtaken(refresh[w], p, 0)
    BY <1>4, AllOvertakenType DEF ExpireHot, ServedInv, RefreshTypes
  <2> QED BY <2>1, <2>2, ServedKey
<1> QED BY <1>1, <1>2, <1>3, <1>4 DEF Expiry

\* The daemon's own steps and a task's end leave the data alone.
LEMMA DaemonFrame ==
    ASSUME DaemonStep \/ Signal \/ \E t \in TaskNames : StopTask(t)
    PROVE  UNCHANGED row
BY DEF DaemonStep, SetupDone, SetupFails, CheckExisting, WaitTurn, Launch, Bind, Stopping, Join,
       Signal, StopTask, TaskDrains, TaskStops

\* Every step keeps the invariant.
LEMMA ServedNext == ServedInv /\ [Next]_vars => ServedInv'
<1> SUFFICES ASSUME ServedInv, [Next]_vars PROVE ServedInv'
  OBVIOUS
<1>1. CASE (DaemonStep \/ Signal \/ \E t \in TaskNames : StopTask(t)) /\ UNCHANGED quoteVars
  BY <1>1, DaemonFrame, ServedStutter
<1>2. CASE QuoteArrives \/ QuoteStep
  BY <1>2, ServedArrives, ServedQuote
<1>3. CASE CycleStart \/ DiscoveryStep \/ CopyStep
  <2>1. {FALSE, May("pages")} \subseteq BOOLEAN
    <3>1. May("pages") \in BOOLEAN
      BY DEF May
    <3> QED BY <3>1, Zenon
  <2>2. CycleStart \/ Commit \/ CopyStep \/ \E b \in BOOLEAN : StaticStep(b)
    BY <1>3, <2>1, Zenon DEF DiscoveryStep
  <2> QED BY <2>2, ServedStatic, ServedCopy
<1>4. CASE \E w \in Workers : RefreshStep(w)
  BY <1>4, ServedWorker DEF RefreshStep, BroadcastStep
<1>5. CASE PoolStep
  BY <1>5, ServedAround, ServedWorker DEF PoolStep
<1>6. CASE Expiry
  BY <1>6, ServedAround
<1>7. CASE UNCHANGED <<row, quoteVars>>
  BY <1>7, ServedStutter
<1> QED BY <1>1, <1>2, <1>3, <1>4, <1>5, <1>6, <1>7 DEF Next, Step, vars

\* A quote that starts after a version of a pool was broadcast is never computed
\* from an older one, unless the pool's key expired, another writer put an older
\* version over it or Redis did not answer: for any number of workers, pools,
\* versions and faults, and whatever list the request met in the cache.
THEOREM BroadcastIsServed == Spec => []ToldThenServed
<1>1. ServedInv => ToldThenServed
  BY DEF ServedInv
<1> QED BY ServedInit, ServedNext, <1>1, PTL DEF Spec

-----------------------------------------------------------------------------
(***************************************************************************)
(* What a client is sent.                                                  *)
(***************************************************************************)
\* What the ring does with a broadcast: the last place is the new one's.
LEMMA RingAppend ==
    ASSUME NEW S, NEW s \in Seq(S), NEW m \in S
    PROVE  /\ Append(s, m) \in Seq(S) /\ DOMAIN Append(s, m) = DOMAIN s \cup {Len(s) + 1}
           /\ Len(s) + 1 \notin DOMAIN s /\ Append(s, m)[Len(s) + 1] = m
           /\ \A i \in DOMAIN s : Append(s, m)[i] = s[i] /\ i < Len(s) + 1 /\ ~(Len(s) + 1 < i)
OBVIOUS

\* The oldest message leaves and the others move up.
LEMMA RingTail ==
    ASSUME NEW S, NEW s \in Seq(S), s # <<>>
    PROVE  /\ Tail(s) \in Seq(S) /\ Head(s) = s[1] /\ 1 \in DOMAIN s /\ Head(s) \in S
           /\ \A i \in DOMAIN Tail(s) : i + 1 \in DOMAIN s /\ Tail(s)[i] = s[i + 1] /\ 1 < i + 1
           /\ \A i \in DOMAIN s : i # 1 => i - 1 \in DOMAIN Tail(s) /\ Tail(s)[i - 1] = s[i]
           /\ \A i, j \in DOMAIN Tail(s) : i < j => i + 1 < j + 1
OBVIOUS

\* Nobody is connected.
LEMMA LossInit == Init => LossInv
<1> SUFFICES ASSUME Init PROVE LossInv
  OBVIOUS
<1>1. SocketTypes
  BY DEF Init, SocketInit, Nothing, SocketTypes
<1>2. \A p \in Topics : due[p] = 0
  BY DEF Init, SocketInit, Nothing
<1> QED BY <1>1, <1>2 DEF LossInv, NoUpdateLost

\* Steps that leave the client alone.
LEMMA LossElsewhere == ASSUME LossInv, UNCHANGED socketVars PROVE LossInv'
BY DEF LossInv, socketVars, SocketTypes, NoUpdateLost

\* The client's own steps, and the end of its connection.
LEMMA LossClient == ASSUME LossInv, ClientStep PROVE LossInv'
<1>1. CASE Connect \/ RecvLagged \/ \E p \in Topics : Subscribe(p)
  <2>1. UNCHANGED <<ring, seen, due>> /\ subs \subseteq subs' /\ subs' \subseteq subs \cup Topics
    BY <1>1 DEF Connect, RecvLagged, Subscribe
  <2> QED BY <2>1 DEF LossInv, SocketTypes, NoUpdateLost
<1>2. ASSUME NEW p \in Topics, Unsubscribe(p) PROVE LossInv'
  <2>1. /\ UNCHANGED <<ring, seen>> /\ subs' = subs \ {p}
        /\ due' \in [Topics -> Nat] /\ due'[p] = 0 /\ \A q \in Topics : q # p => due'[q] = due[q]
    BY <1>2 DEF Unsubscribe, LossInv, SocketTypes
  <2> QED BY <2>1 DEF LossInv, SocketTypes, NoUpdateLost
<1>3. CASE Leave
  <2>1. subs' = {} /\ ring' = <<>> /\ seen' \in [Topics -> Nat] /\ due' \in [Topics -> Nat]
        /\ \A q \in Topics : due'[q] = 0
    BY <1>3 DEF Leave, Nothing
  <2> QED BY <2>1 DEF LossInv, SocketTypes, NoUpdateLost
<1>4. CASE Recv
  <2> DEFINE h == Head(ring)
  <2>1. ring # <<>> /\ ring' = Tail(ring) /\ UNCHANGED <<subs, due>>
        /\ seen' = IF h.pool \in subs THEN [seen EXCEPT ![h.pool] = h.version] ELSE seen
    BY <1>4 DEF Recv
  <2>2. /\ ring' \in Seq(Messages) /\ h = ring[1] /\ 1 \in DOMAIN ring /\ h \in Messages
        /\ \A i \in DOMAIN ring' : i + 1 \in DOMAIN ring /\ ring'[i] = ring[i + 1] /\ 1 < i + 1
        /\ \A i \in DOMAIN ring : i # 1 => i - 1 \in DOMAIN ring' /\ ring'[i - 1] = ring[i]
    BY <2>1, RingTail DEF LossInv, SocketTypes
  <2>3. h.version \in Nat
    BY <2>2 DEF Messages
  <2> HIDE DEF h
  <2>4. /\ seen' \in [Topics -> Nat] /\ subs \subseteq Topics
        /\ \A p \in Topics : p # h.pool => seen'[p] = seen[p]
        /\ h.pool \in subs => seen'[h.pool] = h.version
    BY <2>1, <2>3 DEF LossInv, SocketTypes
  <2>5. SocketTypes' /\ \A p \in Topics : due'[p] # 0 => p \in subs'
    BY <2>1, <2>2, <2>4 DEF LossInv, SocketTypes
  <2>6. NoUpdateLost'
    <3> SUFFICES ASSUME NEW p \in Topics, due[p] # 0
                 PROVE  \/ /\ seen'[p] = due[p]
                           /\ \A i \in DOMAIN ring' : ring'[i].pool # p
                        \/ \E i \in DOMAIN ring' :
                              /\ ring'[i] = [pool |-> p, version |-> due[p]]
                              /\ \A j \in DOMAIN ring' : i < j => ring'[j].pool # p
      BY <2>1 DEF NoUpdateLost
    <3>1. p \in subs
      BY DEF LossInv
    <3>2. CASE seen[p] = due[p] /\ \A i \in DOMAIN ring : ring[i].pool # p
      BY <2>2, <2>4, <3>2
    <3>3. ASSUME NEW i \in DOMAIN ring, ring[i] = [pool |-> p, version |-> due[p]],
                 \A j \in DOMAIN ring : i < j => ring[j].pool # p
          PROVE  \/ seen'[p] = due[p] /\ \A k \in DOMAIN ring' : ring'[k].pool # p
                 \/ \E k \in DOMAIN ring' :
                      /\ ring'[k] = [pool |-> p, version |-> due[p]]
                      /\ \A j \in DOMAIN ring' : k < j => ring'[j].pool # p
      <4>1. CASE i = 1
        BY <2>2, <2>4, <3>1, <3>3, <4>1
      <4>2. CASE i # 1
        <5>1. i - 1 \in DOMAIN ring' /\ ring'[i - 1] = ring[i]
          BY <2>2, <4>2
        <5>2. \A j \in DOMAIN ring' : i - 1 < j => i < j + 1
          BY <2>2 DEF LossInv, SocketTypes
        <5> QED BY <2>2, <3>3, <5>1, <5>2
      <4> QED BY <4>1, <4>2
    <3> QED BY <3>2, <3>3 DEF LossInv, NoUpdateLost
  <2> QED BY <2>5, <2>6 DEF LossInv
<1> QED BY <1>1, <1>2, <1>3, <1>4 DEF ClientStep

\* A broadcast joins the ring, and the oldest message leaves it when it is full.
LEMMA LossBroadcast ==
    ASSUME LossInv, ServedInv, NEW w \in Workers, BroadcastStep(w)
    PROVE  LossInv'
<1> DEFINE p == refresh[w].pool
           v == refresh[w].version
           m == [pool |-> p, version |-> v]
           lost == Len(ring) = RingSize
           rest == IF lost THEN Tail(ring) ELSE ring
<1>1. refresh[w].pc = "send" /\ Push(p, v)
  BY DEF BroadcastStep, Broadcast
<1>2. p \in Pools /\ v \in Nat /\ m \in Messages
  BY <1>1 DEF ServedInv, RefreshTypes, TaskRec, Idle, Messages
<1>3. CASE ~open
  BY <1>1, <1>3, LossElsewhere DEF Push
<1>4. CASE open
  <2>1. /\ ring' = Append(rest, m) /\ UNCHANGED <<subs, seen>>
        /\ due' = [q \in Topics |->
                     IF q = p /\ p \in subs THEN v
                     ELSE IF lost /\ Head(ring).pool = q /\ \A i \in DOMAIN rest : rest[i].pool # q
                          THEN 0 ELSE due[q]]
    BY <1>1, <1>4 DEF Push
  <2>2. ring \in Seq(Messages) /\ due \in [Topics -> Nat]
    BY DEF LossInv, SocketTypes
  <2>3. lost => ring # <<>>
    BY SocketAssumption, <2>2
  <2>4. /\ rest \in Seq(Messages)
        /\ ~lost => rest = ring
        /\ lost => /\ Head(ring) = ring[1]
                   /\ \A i \in DOMAIN rest : i + 1 \in DOMAIN ring /\ rest[i] = ring[i + 1] /\ 1 < i + 1
                   /\ \A i \in DOMAIN ring : i # 1 => i - 1 \in DOMAIN rest /\ rest[i - 1] = ring[i]
    BY <2>2, <2>3, RingTail
  <2> HIDE DEF rest, m, lost, p, v
  <2>5. /\ ring' \in Seq(Messages) /\ DOMAIN ring' = DOMAIN rest \cup {Len(rest) + 1}
        /\ Len(rest) + 1 \notin DOMAIN rest /\ ring'[Len(rest) + 1] = m
        /\ \A i \in DOMAIN rest : ring'[i] = rest[i] /\ i < Len(rest) + 1 /\ ~(Len(rest) + 1 < i)
        /\ ~(Len(rest) + 1 < Len(rest) + 1)
    BY <1>2, <2>1, <2>4, RingAppend
  <2>6. m.pool = p /\ m.version = v
    BY DEF m
  <2>7. /\ due' \in [Topics -> Nat]
        /\ \A q \in Topics :
             due'[q] # 0 =>
               \/ q = p /\ p \in subs /\ due'[q] = v
               \/ /\ ~(q = p /\ p \in subs) /\ due'[q] = due[q]
                  /\ ~(lost /\ Head(ring).pool = q /\ \A i \in DOMAIN rest : rest[i].pool # q)
    BY <1>2, <2>1, <2>2
  <2>8. SocketTypes' /\ \A q \in Topics : due'[q] # 0 => q \in subs'
    BY <2>1, <2>5, <2>7 DEF LossInv, SocketTypes
  <2>9. NoUpdateLost'
    <3> SUFFICES ASSUME NEW q \in Topics, due'[q] # 0
                 PROVE  \/ /\ seen'[q] = due'[q]
                           /\ \A i \in DOMAIN ring' : ring'[i].pool # q
                        \/ \E i \in DOMAIN ring' :
                              /\ ring'[i] = [pool |-> q, version |-> due'[q]]
                              /\ \A j \in DOMAIN ring' : i < j => ring'[j].pool # q
      BY DEF NoUpdateLost
    <3>1. CASE q = p /\ p \in subs /\ due'[q] = v
      BY <2>5, <3>1 DEF m
    <3>2. CASE /\ ~(q = p /\ p \in subs) /\ due'[q] = due[q]
               /\ ~(lost /\ Head(ring).pool = q /\ \A i \in DOMAIN rest : rest[i].pool # q)
      <4>1. q # p /\ due[q] # 0
        BY <3>2 DEF LossInv
      <4>2. CASE seen[q] = due[q] /\ \A i \in DOMAIN ring : ring[i].pool # q
        <5>1. \A i \in DOMAIN rest : rest[i].pool # q
          BY <2>4, <4>2
        <5> QED BY <2>1, <2>5, <2>6, <3>2, <4>1, <4>2, <5>1
      <4>3. ASSUME NEW i \in DOMAIN ring, ring[i] = [pool |-> q, version |-> due[q]],
                   \A j \in DOMAIN ring : i < j => ring[j].pool # q
            PROVE  \E k \in DOMAIN rest : /\ rest[k] = [pool |-> q, version |-> due[q]]
                                           /\ \A j \in DOMAIN rest : k < j => rest[j].pool # q
        <5>1. CASE ~lost
          BY <2>4, <4>3, <5>1
        <5>2. CASE lost /\ i = 1
          BY <2>4, <3>2, <4>3, <5>2
        <5>3. CASE lost /\ i # 1
          <6>1. i - 1 \in DOMAIN rest /\ rest[i - 1] = ring[i]
            BY <2>4, <5>3
          <6>2. \A j \in DOMAIN rest : i - 1 < j => i < j + 1
            BY <2>2, <2>4
          <6> QED BY <2>4, <4>3, <5>3, <6>1, <6>2
        <5> QED BY <5>1, <5>2, <5>3
      <4>4. ASSUME NEW k \in DOMAIN rest, rest[k] = [pool |-> q, version |-> due[q]],
                   \A j \in DOMAIN rest : k < j => rest[j].pool # q
            PROVE  \E i \in DOMAIN ring' : /\ ring'[i] = [pool |-> q, version |-> due'[q]]
                                            /\ \A j \in DOMAIN ring' : i < j => ring'[j].pool # q
        <5>1. k \in DOMAIN ring' /\ ring'[k] = [pool |-> q, version |-> due'[q]]
          BY <2>5, <3>2, <4>4
        <5>2. \A j \in DOMAIN ring' : k < j => ring'[j].pool # q
          BY <2>5, <2>6, <4>1, <4>4
        <5> QED BY <5>1, <5>2
      <4>5. \/ seen[q] = due[q] /\ \A i \in DOMAIN ring : ring[i].pool # q
            \/ \E i \in DOMAIN ring : /\ ring[i] = [pool |-> q, version |-> due[q]]
                                      /\ \A j \in DOMAIN ring : i < j => ring[j].pool # q
        BY <4>1 DEF LossInv, NoUpdateLost
      <4> QED BY <4>2, <4>3, <4>4, <4>5
    <3> QED BY <2>7, <3>1, <3>2
  <2> QED BY <2>8, <2>9 DEF LossInv
<1> QED BY <1>3, <1>4

\* Every step keeps the client's account.
LEMMA LossNext == ServedInv /\ LossInv /\ [Next]_vars => LossInv'
<1> SUFFICES ASSUME ServedInv, LossInv, [Next]_vars PROVE LossInv'
  OBVIOUS
<1>1. CASE UNCHANGED socketVars
  BY <1>1, LossElsewhere
<1>2. CASE \E w \in Workers : BroadcastStep(w)
  BY <1>2, LossBroadcast
<1>3. CASE ClientStep
  BY <1>3, LossClient
<1> QED BY <1>1, <1>2, <1>3 DEF Next, Step, RefreshStep, vars

\* A client misses an update of a pool it is subscribed to only by being
\* overtaken: for any size of the ring, any number of workers, pools and
\* versions, in whatever order they are broadcast, and however the client
\* subscribes, lags, leaves and comes back.
THEOREM UpdatesAreSent == Spec => []NoUpdateLost
<1>1. LossInv => NoUpdateLost
  BY DEF LossInv
<1> QED BY ServedInit, ServedNext, LossInit, LossNext, <1>1, PTL DEF Spec
=============================================================================
