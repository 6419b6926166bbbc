------------------------------- MODULE EventScan -------------------------------
(***************************************************************************)
(* scan_single_event_type (src/src/discovery/scanner.rs): the create-pool  *)
(* events of one type, read page by page from a saved cursor, and once the *)
(* end has been reached after the last checkpoint seen.  A checkpoint's    *)
(* events appear together; the oldest events are pruned, and with them the *)
(* cursors that point at them.  The endpoints hold the same events.        *)
(***************************************************************************)
EXTENDS SuiClient

CONSTANTS
    MaxEvents,     \* bound on the events on chain
    EventPage,     \* discovery_page_size
    MaxScanPages,  \* discovery_max_pages_per_scan
    MaxFaults      \* bound on torn pages, failed commits and restarts

\* A page of no events is a configuration error: DISCOVERY_PAGE_SIZE is 50 by
\* default.
ASSUME EventAssumption == EventPage \in Nat \ {0}

VARIABLES
    log,       \* the events so far: their checkpoint and what they hold
    gone,      \* number of pruned events
    progress,  \* the row of pool_discovery_progress
    scan,      \* the running scan; its cursor is the last event read
    handled,   \* events registered or recorded as a failure, or without a pool id
    missed,    \* events that a page lacked although its cursor is behind them
    broken,    \* checkpoints at which a scan after the backfill ended with more to
               \* come, or took a page for the last
    faults

eventVars == <<log, gone, progress, scan, handled, missed, broken, faults>>

\* A pool id and its checkpoint, a node of an unknown shape, or no pool id.
EventKinds == {"pool", "shape", "no_id"}

\* The events of the next checkpoint.
Mint(kinds) ==
    /\ Len(log) + Len(kinds) <= MaxEvents
    /\ LET cp == IF log = <<>> THEN 1 ELSE Last(log).cp + 1
       IN log' = log \o [k \in DOMAIN kinds |-> [cp |-> cp, kind |-> kinds[k]]]
    /\ UNCHANGED <<gone, progress, scan, handled, missed, broken, faults>>

Prune ==
    /\ gone < Len(log)
    /\ gone' = gone + 1
    /\ UNCHANGED <<log, progress, scan, handled, missed, broken, faults>>

\* Mutant: the checkpoint filter is used before the backfill is complete.
AfterCheckpoint_Always == progress.cp

AfterCheckpoint == IF progress.complete THEN progress.cp ELSE 0

ScanStart ==
    /\ scan = Idle
    /\ scan' = [pc |-> "query", cursor |-> progress.cursor, after |-> AfterCheckpoint,
                page |-> 0, invalid |-> FALSE]
    /\ Ask(TRUE)
    /\ UNCHANGED <<log, gone, progress, handled, missed, broken, faults>>

\* The scan ends with what is saved.
EndScan(saved) ==
    /\ scan' = Idle /\ Ask(FALSE)
    /\ broken' = IF saved.complete /\ saved.cursor # 0 THEN broken \cup {saved.cp} ELSE broken

CursorLost == scan.cursor # 0 /\ scan.cursor <= gone

\* An endpoint that knows the cursor is lost answers with an error, like one
\* that fails; only the last error is looked at.
QueryRefused ==
    /\ scan # Idle /\ Trying /\ CursorLost
    /\ at' = NextEndpoint
    /\ scan' = [scan EXCEPT !.invalid = TRUE]
    /\ UNCHANGED <<log, gone, progress, handled, missed, broken, faults>>

QueryEndpointFails ==
    /\ scan # Idle /\ EndpointFails
    /\ scan' = [scan EXCEPT !.invalid = FALSE]
    /\ UNCHANGED <<log, gone, progress, handled, missed, broken, faults>>

\* Mutant: an invalid cursor is an error like any other.
StartsOver_Never == FALSE

\* is_invalid_cursor_error, with a page left for the scan
StartsOver == scan.invalid /\ scan.page + 1 < MaxScanPages

\* All endpoints failed: the scan goes on without its cursor, or is over.
QueryFails ==
    /\ scan # Idle /\ Failed
    /\ IF StartsOver
       THEN /\ scan' = [scan EXCEPT !.cursor = 0, !.page = @ + 1, !.invalid = FALSE]
            /\ Ask(TRUE) /\ UNCHANGED broken
       ELSE EndScan(progress)
    /\ UNCHANGED <<log, gone, progress, handled, missed, faults>>

\* A page of events with the given cursor and filter.
Found == {i \in (gone + 1)..Len(log) : i > scan.cursor /\ log[i].cp > scan.after}

Page == FirstOf(Found, EventPage)

HasNextPage == Page # Found

EndCursor == Max(Page \cup {0})

\* The progress after a page with the events shown, hasNextPage and endCursor.
Saved(shown, next, end) ==
    [cursor   |-> IF next THEN end ELSE 0,
     cp       |-> Max({log[i].cp : i \in {j \in shown : log[j].kind = "pool"}} \cup {progress.cp}),
     complete |-> progress.complete \/ ~next]

\* parse_event_page, a pool or a failure for each event, and the page commit.
\* Without nodes there are no events, without hasNextPage the page is the last,
\* without endCursor the next one is read from the start: such a page is torn.
TakePage(shown, next, end) ==
    LET saved == Saved(shown, next, end)
        torn  == <<shown, next, end>> # <<Page, HasNextPage, EndCursor>>
        more  == next /\ scan.page + 1 < MaxScanPages
    IN /\ torn => at \notin up /\ faults < MaxFaults
       /\ faults' = IF torn THEN faults + 1 ELSE faults
       /\ progress' = saved
       /\ handled' = handled \cup shown
       /\ missed' = IF next /\ end # 0 THEN missed \cup (Page \ shown) ELSE missed
       /\ scan' = IF more THEN [scan EXCEPT !.cursor = saved.cursor, !.page = @ + 1, !.invalid = FALSE]
                  ELSE Idle
       /\ broken' = IF saved.complete /\ (torn \/ (~more /\ saved.cursor # 0))
                    THEN broken \cup {saved.cp} ELSE broken
       /\ Ask(more)
       /\ UNCHANGED <<log, gone>>

ScanPage ==
    /\ scan # Idle /\ Trying /\ ~CursorLost
    /\ \E shown \in {Page, {}}, next \in BOOLEAN, end \in {EndCursor, 0} : TakePage(shown, next, end)

\* The answer lacks the events field, or the commit fails: nothing is saved.
ScanPageFails ==
    /\ scan # Idle /\ Trying /\ ~CursorLost
    /\ faults < MaxFaults /\ faults' = faults + 1
    /\ EndScan(progress)
    /\ UNCHANGED <<log, gone, progress, handled, missed>>

\* The process is restarted.
Restart ==
    /\ scan # Idle
    /\ faults < MaxFaults /\ faults' = faults + 1
    /\ EndScan(progress)
    /\ UNCHANGED <<log, gone, progress, handled, missed>>

EventStep ==
    ScanStart \/ QueryRefused \/ QueryEndpointFails \/ QueryFails \/ ScanPage \/ ScanPageFails

EventInit ==
    /\ log = <<>> /\ gone = 0 /\ scan = Idle /\ handled = {} /\ faults = 0
    /\ missed = {} /\ broken = {}
    /\ progress = [cursor |-> 0, cp |-> 0, complete |-> FALSE]

-----------------------------------------------------------------------------
\* Properties

\* The events that are accounted for without being read.
Excused(i) == i <= gone \/ log[i].cp \in broken \/ i \in missed

\* The saved progress has no hole: an event that was neither handled nor pruned
\* lies ahead of where the running scan or the next one reads from, or in a
\* checkpoint in the middle of which a scan ended, by its page limit, a failure,
\* a restart or a page without hasNextPage, whatever cursors were lost and
\* commits failed on the way; only a page that came with its endCursor and
\* without its nodes is passed over.
NothingPassedOver ==
    \A i \in DOMAIN log :
        \/ i \in handled \/ Excused(i)
        \/ i > progress.cursor /\ (progress.complete => log[i].cp > progress.cp)
        \/ scan # Idle /\ i > scan.cursor /\ log[i].cp > scan.after

\* A lost cursor or a torn page does not stop the scans for good: every event is
\* read, as long as the last endpoint of the list answers.  (An earlier one that answers is
\* not enough: the error of the last one is what tells an invalid cursor.)
EventsRead ==
    NumEndpoints \in up =>
        <>[](\A i \in DOMAIN log : i \in handled \/ Excused(i))

=============================================================================
