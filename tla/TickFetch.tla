------------------------------- MODULE TickFetch -------------------------------
(***************************************************************************)
(* The collectors' fetch_tick_data (src/src/collectors): the initialised   *)
(* ticks near the current one, read object by object while positions are   *)
(* opened and closed.  Cetus, Momentum and Magma page through dynamic      *)
(* fields and read the ones they want; Turbos asks for every aligned index *)
(* by name.  On chain a signed number is a field of bits: the collectors'  *)
(* way of decoding it is taken as what the bits mean.                      *)
(***************************************************************************)
EXTENDS SuiClient

CONSTANTS
    IndexBits,     \* IndexBits[dex][i]: the bits of the index of the tick behind item i
    NetBits,       \* NetBits[i]: the bits of its liquidity_net
    Current,       \* current_tick_index of the pool
    Spacing,       \* tick_spacing
    Window,        \* MAX_TICK_FETCH_WINDOW
    MaxTickPages,  \* pages of a listing that are read, 10
    SignBit        \* weight of the top bit of an encoded index, 2^31

ASSUME TickAssumption ==
    /\ Spacing \in Nat \ {0} /\ Window \in Nat /\ MaxTickPages \in Nat \ {0}
    /\ SignBit \in Nat \ {0} /\ Current \in Int

Dexes == {"cetus", "magma", "momentum", "turbos"}

-----------------------------------------------------------------------------
\* Encodings (src/src/sui_int.rs)

\* decode_sui_i32, decode_sui_i128: the magnitude above two bits for the sign
DecodeSui(bits) ==
    LET mag == bits \div 4 IN IF bits % 4 = 1 THEN -mag ELSE mag

\* decode_raw_i32: bits as i32
DecodeRaw(bits) == IF bits >= SignBit THEN bits - 2 * SignBit ELSE bits

\* encode_raw_i32: val as u32
EncodeRaw(v) == v % (2 * SignBit)

\* The index that the collector of a DEX reads from a field name or a payload.
TickIndex(dex, i) ==
    IF dex = "cetus" THEN DecodeSui(IndexBits[dex][i]) ELSE DecodeRaw(IndexBits[dex][i])

\* parse_liquidity_net_from_fields, which all collectors use
LiquidityNet(i) == DecodeSui(NetBits[i])

\* What the contracts see to: a pool has one tick object per index, and an index
\* of Turbos is a multiple of the spacing.  Bits are a u32 and a u128, and the
\* window around the current tick is inside i32: indices stay within 2^20.
ASSUME PoolAssumption ==
    /\ \A i \in Items : NetBits[i] \in Nat
    /\ \A dex \in Dexes : \A i \in Items : IndexBits[dex][i] \in 0..(2 * SignBit - 1)
    /\ \A dex \in Dexes : \A i, j \in Items : TickIndex(dex, i) = TickIndex(dex, j) => i = j
    /\ \A i \in Items : TickIndex("turbos", i) % Spacing = 0
    /\ -SignBit <= Current - Window /\ Current + Window < SignBit

TickInWindow(t) == t >= Current - Window /\ t <= Current + Window

\* Rust's / and % truncate toward zero.
TruncDiv(a, b) == IF a >= 0 THEN a \div b ELSE -((-a) \div b)

DivFloor(a, b) ==
    LET d == TruncDiv(a, b)
        r == a - b * d
    IN IF r # 0 /\ (r > 0) # (b > 0) THEN d - 1 ELSE d

\* The multiples of the spacing from the first at or below the window's low end.
AlignedTicks ==
    LET low   == Current - Window
        start == DivFloor(low, Spacing) * Spacing
    IN {t \in {start + k * Spacing : k \in 0..(2 * Window + Spacing)} :
            t >= low /\ t <= Current + Window}

-----------------------------------------------------------------------------
\* A fetch.  left: what is still to be read of the page, items or, for Turbos,
\* indices; next: the cursor of the next page, 0 if there is none; unread: what
\* was passed over because an answer failed or lacked it.

TicksStart(dex) ==
    /\ proc = Idle
    /\ proc' = [pc |-> "pool", dex |-> dex, cursor |-> 0, next |-> 0, pages |-> 0,
                left |-> {}, unread |-> {}, ticks |-> <<>>]
    /\ steady' = {i \in Items : \A e \in Endpoints : i \in world[e]}
    /\ Ask(TRUE) /\ UNCHANGED <<up, world, changes>>

\* The pool object gives the current tick, the spacing and where the ticks are.
PoolAnswer ==
    /\ proc.pc = "pool" /\ Trying
    /\ proc' = IF proc.dex = "turbos" THEN [proc EXCEPT !.pc = "read", !.left = AlignedTicks]
               ELSE [proc EXCEPT !.pc = "list"]
    /\ Ask(IF proc.dex = "turbos" THEN AlignedTicks # {} ELSE TRUE)
    /\ UNCHANGED clientVars

\* A required field of the pool is missing or has an unknown shape.
PoolGarbled == proc.pc = "pool" /\ Trying /\ at \notin up /\ GiveUp("garbled")

\* Mutant: the ticks are stored in the order in which they were read.
FinalizeTicks_AsRead(s) == s

\* finalize_ticks: sort by index, keep the first of each.
FinalizeTicks(s) ==
    LET indices == Ascending({s[k].index : k \in DOMAIN s})
    IN [n \in DOMAIN indices |-> s[Min({k \in DOMAIN s : s[k].index = indices[n]})]]

Finish == [proc EXCEPT !.pc = "done", !.ticks = FinalizeTicks(@)]

\* The names of the fields tell which ones to read, except Magma's, which are
\* internal to its skip list.
ToRead(shown) == {i \in shown : proc.dex = "magma" \/ TickInWindow(TickIndex(proc.dex, i))}

\* get_dynamic_fields: a page that is empty, or has no data array, ends the fetch;
\* one without nextCursor is the last; an entry without name or objectId is
\* skipped.
ListPage ==
    /\ proc.pc = "list" /\ Trying
    /\ LET rest == Listed(at, proc.cursor)
           page == FirstOf(rest, PageSize)
       IN \/ /\ page = {} \/ at \notin up
             /\ proc' = [Finish EXCEPT !.unread = @ \cup rest]
             /\ Ask(FALSE)
          \/ /\ page # {}
             /\ \E shown \in SUBSET page, c \in {0, Max(page)} :
                  /\ at \in up => shown = page /\ (page # rest => c # 0)
                  /\ proc' = [proc EXCEPT !.pc = "read", !.pages = @ + 1, !.left = ToRead(shown), !.next = c,
                                 !.unread = @ \cup (IF c = 0 THEN rest \ shown ELSE page \ shown)]
                  /\ Ask(ToRead(shown) # {})
    /\ UNCHANGED clientVars

\* The pool or a page of the listing could not be had: the fetch fails.
ListFails == proc.pc \in {"pool", "list"} /\ Failed /\ GiveUp("calls")

\* The object behind the next entry; Turbos names it by its encoded index.
EntryOf(x) ==
    IF proc.dex # "turbos" THEN {x} \cap world[at]
    ELSE {i \in world[at] : IndexBits[proc.dex][i] = EncodeRaw(x)}

\* get_object or get_dynamic_field_object: an object that is not there, has no
\* liquidity_net or a zero one is passed over.
ReadEntry ==
    /\ proc.pc = "read" /\ Trying
    /\ LET x    == Min(proc.left)
           tick(i) == [index |-> IF proc.dex = "turbos" THEN x ELSE TickIndex(proc.dex, i),
                       net |-> LiquidityNet(i)]
           kept == {t \in {tick(i) : i \in EntryOf(x)} : t.net # 0 /\ TickInWindow(t.index)}
       IN proc' = [proc EXCEPT !.left = @ \ {x}, !.ticks = @ \o SetToSeq(kept)]
    /\ Ask(Cardinality(proc.left) > 1) /\ UNCHANGED clientVars

\* The read fails, or its answer is garbled: the entry is skipped.
ReadFails ==
    /\ proc.pc = "read" /\ (Failed \/ (Trying /\ at \notin up))
    /\ LET x == Min(proc.left)
       IN proc' = [proc EXCEPT !.left = @ \ {x}, !.unread = @ \cup {x}]
    /\ Ask(Cardinality(proc.left) > 1) /\ UNCHANGED clientVars

\* On to the next page, if there is one and it may be read.
PageDone ==
    /\ proc.pc = "read" /\ proc.left = {}
    /\ LET more == proc.next # 0 /\ proc.pages < MaxTickPages
       IN /\ proc' = IF more THEN [proc EXCEPT !.pc = "list", !.cursor = proc.next] ELSE Finish
          /\ Ask(more)
    /\ UNCHANGED clientVars

TicksStep ==
    \/ PoolAnswer \/ PoolGarbled \/ ListPage \/ ListFails
    \/ ReadEntry \/ ReadFails \/ PageDone
    \/ proc.pc \in {"pool", "list", "read"} /\ EndpointFails /\ UNCHANGED <<proc, clientVars>>

-----------------------------------------------------------------------------
\* Properties

\* The tick behind an item, as its bits are read for a DEX.
TickOf(dex, i) == [index |-> TickIndex(dex, i), net |-> LiquidityNet(i)]

\* The tick list a swap is simulated on is sorted by index without repetition,
\* holds only ticks of the pool inside the window, and lacks a tick that was
\* there throughout only if its read failed, it was on or behind a page that came
\* without its data or its cursor, or it lies behind the last page that may be
\* read: Turbos' lookup by encoded index, a window across zero and the change of
\* endpoint between pages lose nothing.
TicksExact ==
    (proc.pc = "done" /\ "ticks" \in DOMAIN proc) =>
        /\ \A k, l \in DOMAIN proc.ticks : k < l => proc.ticks[k].index < proc.ticks[l].index
        /\ \A k \in DOMAIN proc.ticks :
              /\ proc.ticks[k].index - Current \in -Window..Window
              /\ \E i \in Items : proc.ticks[k] = TickOf(proc.dex, i)
        /\ \A i \in steady :
              LET t == TickOf(proc.dex, i)
              IN t.net # 0 /\ t.index - Current \in -Window..Window =>
                   \/ \E k \in DOMAIN proc.ticks : proc.ticks[k] = t
                   \/ (IF proc.dex = "turbos" THEN t.index ELSE i) \in proc.unread
                   \/ proc.pages = MaxTickPages /\ proc.next # 0 /\ i > proc.next

=============================================================================
