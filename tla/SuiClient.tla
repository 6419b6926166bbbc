------------------------------- MODULE SuiClient -------------------------------
(***************************************************************************)
(* SuiClient (src/src/sui_client.rs): a call is sent to the configured     *)
(* endpoints in order until one gives a usable answer, and the pages of    *)
(* get_coins, each a call of its own, may so come from endpoints that do   *)
(* not know the same objects.  An empty list of endpoints is a             *)
(* configuration error and not modelled.                                   *)
(***************************************************************************)
EXTENDS Integers, Sequences, FiniteSets, SequencesExt

CONSTANTS
    NumEndpoints,  \* rpc_urls.len(), graphql_urls.len()
    Items,         \* ids of coins, dynamic fields or tick objects: numbers, in
                   \* the order in which an endpoint lists them
    PageSize,      \* the page size of a listing
    MaxChanges     \* bound on changes of what the endpoints hold

ASSUME ClientAssumption ==
    /\ NumEndpoints \in Nat \ {0} /\ PageSize \in Nat \ {0} /\ MaxChanges \in Nat
    /\ Items \subseteq Nat \ {0} /\ IsFiniteSet(Items)

VARIABLES
    up,       \* the endpoints that answer every call, and well; the others may
              \* fail, or answer without what the caller looks for
    at,       \* the endpoint that is tried, NumEndpoints + 1 when the call has
              \* failed, 0 between calls
    world,    \* world[e]: the items that endpoint e holds now
    changes,  \* number of changes so far
    steady,   \* the items that every endpoint has held since the job began
    proc      \* the running job: get_coins, or a collector's fetch_tick_data

clientVars == <<up, world, changes, steady>>

Endpoints == 1..NumEndpoints

Idle == [pc |-> "idle"]

Trying == at \in Endpoints

Failed == at = NumEndpoints + 1

\* Mutant: the last endpoint is never asked.
NextEndpoint_SkipsLast == IF at + 1 >= NumEndpoints THEN NumEndpoints + 1 ELSE at + 1

\* `continue', and out of the loop after the last one.
NextEndpoint == at + 1

\* The connection fails, the status is 429 or not a success, the body is not
\* JSON, holds an error or lacks the result: remember it and try the next one.
EndpointFails ==
    /\ Trying /\ at \notin up
    /\ at' = NextEndpoint

\* The next call goes to the first endpoint again; 0 when there is none.
Ask(again) == at' = IF again THEN 1 ELSE 0

\* An endpoint catches up with the chain, or falls back behind a load balancer.
Change(e, i) ==
    /\ proc.pc \notin {"idle", "done", "error"} /\ changes < MaxChanges
    /\ world' = [world EXCEPT ![e] = IF i \in @ THEN @ \ {i} ELSE @ \cup {i}]
    /\ changes' = changes + 1
    /\ steady' = steady \ {i}
    /\ UNCHANGED <<up, at, proc>>

\* The first n members of a set of numbers.
FirstOf(S, n) == {i \in S : Cardinality({j \in S : j < i}) < n}

\* The members of a finite set of numbers in ascending order.
Ascending(S) ==
    CHOOSE s \in [1..Cardinality(S) -> S] : \A i, j \in DOMAIN s : i < j => s[i] < s[j]

\* What endpoint e lists after a cursor.
Listed(e, cursor) == {i \in world[e] : i > cursor}

\* The job ends with the error of its last call, or of an answer it cannot use.
GiveUp(why) == proc' = [pc |-> "error", why |-> why] /\ at' = 0 /\ UNCHANGED clientVars

-----------------------------------------------------------------------------
\* get_coins.  unread: the coins behind a page that was taken for the last.

CoinsStart ==
    /\ proc = Idle
    /\ proc' = [pc |-> "coins", cursor |-> 0, out |-> <<>>, unread |-> {}]
    /\ steady' = {i \in Items : \A e \in Endpoints : i \in world[e]}
    /\ Ask(TRUE) /\ UNCHANGED <<up, world, changes>>

\* Mutant: the last page of a listing is dropped.
CoinsKept_NotLast(page, more) == IF more THEN page ELSE {}

CoinsKept(page, more) == page

\* A page; the next one is asked for while hasNextPage.  A page that comes
\* without hasNextPage, or with it and without nextCursor, is the last: the coins
\* so far are returned as if they were all.
CoinsPage ==
    /\ proc.pc = "coins" /\ Trying
    /\ LET rest == Listed(at, proc.cursor)
           page == FirstOf(rest, PageSize)
       IN \E more \in BOOLEAN :
            /\ more => page # rest
            /\ at \in up /\ page # rest => more
            /\ proc' = [proc EXCEPT !.pc = IF more THEN @ ELSE "done",
                                    !.cursor = IF more THEN Max(page) ELSE @,
                                    !.out = @ \o Ascending(CoinsKept(page, more)),
                                    !.unread = IF more THEN {} ELSE rest \ page]
            /\ Ask(more)
    /\ UNCHANGED clientVars

\* parse_resolved_coin, or no data array: no other endpoint is asked.
CoinsGarbled == proc.pc = "coins" /\ Trying /\ at \notin up /\ GiveUp("garbled")

CoinsFail == proc.pc = "coins" /\ Failed /\ GiveUp("calls")

CoinsStep ==
    \/ CoinsStart \/ CoinsPage \/ CoinsGarbled \/ CoinsFail
    \/ proc.pc = "coins" /\ EndpointFails /\ UNCHANGED <<proc, clientVars>>

ClientInit ==
    /\ up \in SUBSET Endpoints
    /\ at = 0 /\ proc = Idle /\ changes = 0 /\ steady = {}
    /\ world = [e \in Endpoints |-> Items]

-----------------------------------------------------------------------------
\* Properties

\* One endpoint that answers is enough: a job ends for want of an answer only
\* if none of the configured endpoints is up, wherever in the list it stands
\* and whatever the others do.
OneEndpointIsEnough == (proc.pc = "error" /\ proc.why = "calls") => up = {}

\* get_coins counts no coin twice and misses none that all endpoints held
\* throughout, although its pages come from different endpoints while coins
\* come and go, but for the coins behind a page that came without its
\* hasNextPage or nextCursor.  (Its sum need not be a balance the owner ever
\* had: a coin that was spent after its page and the change it left on a later
\* page are both counted.)
CoinsComplete ==
    (proc.pc = "done" /\ "out" \in DOMAIN proc) =>
        /\ \A i, j \in DOMAIN proc.out : proc.out[i] = proc.out[j] => i = j
        /\ \A i \in steady : i \in proc.unread \/ \E j \in DOMAIN proc.out : proc.out[j] = i

=============================================================================
