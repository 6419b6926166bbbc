-------------------------------- MODULE Sockets --------------------------------
(***************************************************************************)
(* handle_socket (src/src/api/websocket.rs): a client that subscribes to   *)
(* pools and is sent the broadcasts about them.  The broadcast channel is  *)
(* a ring: a receiver that falls behind loses the oldest messages and is   *)
(* told once that it lagged.  RecvError::Closed does not occur: the        *)
(* handler's own state holds a sender.  A message that is not understood   *)
(* is answered with an error and changes nothing.                          *)
(***************************************************************************)
EXTENDS Integers, Sequences, SequencesExt

CONSTANTS
    Topics,     \* the pools a client may subscribe to
    RingSize    \* capacity of the broadcast channel

ASSUME SocketAssumption == RingSize \in Nat \ {0}

VARIABLES
    open,       \* the connection is up
    subs,       \* subscriptions
    ring,       \* broadcasts this receiver has not taken yet
    lagged,     \* messages were overwritten since the last recv
    seen,       \* seen[p]: the last version of p sent to the client
    due         \* due[p]: the last version of p broadcast while subscribed

socketVars == <<open, subs, ring, lagged, seen, due>>

Nothing == [p \in Topics |-> 0]

Connect ==
    /\ ~open
    /\ open' = TRUE /\ UNCHANGED <<subs, ring, lagged, seen, due>>

Subscribe(p) ==
    /\ open /\ p \notin subs
    /\ subs' = subs \cup {p} /\ UNCHANGED <<open, ring, lagged, seen, due>>

Unsubscribe(p) ==
    /\ open /\ p \in subs
    /\ subs' = subs \ {p}
    /\ due' = [due EXCEPT ![p] = 0] /\ UNCHANGED <<open, ring, lagged, seen>>

\* The client closes, the connection breaks, or a send fails.
Leave ==
    /\ open
    /\ open' = FALSE /\ subs' = {} /\ ring' = <<>> /\ lagged' = FALSE
    /\ seen' = Nothing /\ due' = Nothing

\* A broadcast reaches the ring; when it is full the oldest message is
\* overwritten, and is no longer owed if it was the newest of its pool.
Push(p, v) ==
    LET m    == [pool |-> p, version |-> v]
        lost == Len(ring) = RingSize
        rest == IF lost THEN Tail(ring) ELSE ring
    IN IF ~open THEN UNCHANGED socketVars
       ELSE /\ ring' = Append(rest, m)
            /\ lagged' = (lagged \/ lost)
            /\ due' = [q \in Topics |->
                         IF q = p /\ p \in subs THEN v
                         ELSE IF lost /\ Head(ring).pool = q /\ \A i \in DOMAIN rest : rest[i].pool # q
                              THEN 0 ELSE due[q]]
            /\ UNCHANGED <<open, subs, seen>>

\* Mutant: a lagging receiver starts over behind the newest message.
RecvLagged_Drops ==
    /\ open /\ lagged
    /\ lagged' = FALSE /\ ring' = <<>> /\ UNCHANGED <<open, subs, seen, due>>

\* RecvError::Lagged: go on with the oldest message still there.
RecvLagged ==
    /\ open /\ lagged
    /\ lagged' = FALSE /\ UNCHANGED <<open, subs, ring, seen, due>>

\* The next broadcast is sent on if its pool is subscribed.
Recv ==
    /\ open /\ ~lagged /\ ring # <<>>
    /\ ring' = Tail(ring)
    /\ seen' = IF Head(ring).pool \in subs
               THEN [seen EXCEPT ![Head(ring).pool] = Head(ring).version] ELSE seen
    /\ UNCHANGED <<open, subs, lagged, due>>

SocketInit ==
    /\ open = FALSE /\ subs = {} /\ ring = <<>> /\ lagged = FALSE
    /\ seen = Nothing /\ due = Nothing

=============================================================================
