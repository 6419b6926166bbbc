----------------------------- MODULE BuildTxProofs -----------------------------
(***************************************************************************)
(* The transaction of POST /api/build_tx consumes every result of its      *)
(* commands exactly once, for every request, plan, wallet and estimate.    *)
(*                                                                         *)
(* The invariant follows what is "in hand" while the commands are listed:  *)
(* the coin of the running path, the pieces of the input for the paths to  *)
(* come and the outputs of those that are complete.  These, and no other   *)
(* results, are unused; they are distinct, and they have the types their   *)
(* takers expect (InHand).  A hop takes the held coin and leaves its       *)
(* output in its place (Grows, shown of both hop builders); the transfer   *)
(* at the end takes all that is left.                                      *)
(*                                                                         *)
(* Two more results: the coins that pay for the transaction hold its input *)
(* (FundsInv), and the minima its commands carry add up to the reported    *)
(* one but for less than a unit per split (MinInv).                        *)
(***************************************************************************)
EXTENDS BuildTx, NumberSets, SequenceTheorems, TLAPS

-----------------------------------------------------------------------------
\* Arguments and results

\* Two arguments name the same result.
Same(a, b) == a.cmd = b.cmd /\ a.out = b.out

\* An argument names a result of the commands s, in a form that is allowed.
Named(s, a) ==
    /\ a.cmd \in Nat /\ a.out \in Nat
    /\ a.cmd + 1 \in DOMAIN s /\ a.out + 1 \in DOMAIN s[a.cmd + 1].gives
    /\ a.kind = "nested" \/ Len(s[a.cmd + 1].gives) = 1

\* It has the type that the taker expects.
Fits(s, t) == Named(s, t.arg) /\ s[t.arg.cmd + 1].gives[t.arg.out + 1] = t.type

\* Every argument is a result of an earlier command and of the right type.
Typed(s) ==
    \A i \in DOMAIN s : \A k \in DOMAIN s[i].takes :
        Fits(s, s[i].takes[k]) /\ s[i].takes[k].arg.cmd + 1 < i

\* No result is taken in two places.
Once(s) ==
    \A i, j \in DOMAIN s : \A k \in DOMAIN s[i].takes, l \in DOMAIN s[j].takes :
        Same(s[i].takes[k].arg, s[j].takes[l].arg) => i = j /\ k = l

Used(s, a) == \E i \in DOMAIN s : \E k \in DOMAIN s[i].takes : Same(s[i].takes[k].arg, a)

\* A result that is there to be taken.
Free(s, t) == Fits(s, t) /\ ~Used(s, t.arg)

\* Every result is taken, or it is one of those in hand.
AllUsed(s, hand) ==
    \A c \in DOMAIN s : \A j \in DOMAIN s[c].gives :
        Used(s, Nested(c - 1, j - 1)) \/ \E t \in hand : Same(t.arg, Nested(c - 1, j - 1))

\* The commands that return nothing, and how much a command takes.
Plain(s, n) ==
    \A i \in DOMAIN s : /\ s[i].fn \in {"merge", "transfer"} => s[i].gives = <<>>
                        /\ DOMAIN s[i].takes \subseteq 1..n /\ DOMAIN s[i].gives \subseteq Nat

\* In hand: the coin of the running path, the coins of the paths to come, and
\* the outputs of those that are complete.  All are there to be taken, no two
\* are the same, and no other result is left.
InHand(s, held, pieces, out) ==
    /\ Free(s, held) /\ (\A t \in pieces : Free(s, t)) /\ (\A i \in DOMAIN out : Free(s, out[i]))
    /\ \A t \in pieces : ~Same(t.arg, held.arg)
    /\ \A i \in DOMAIN out : ~Same(out[i].arg, held.arg)
    /\ \A t \in pieces : \A i \in DOMAIN out : ~Same(out[i].arg, t.arg)
    /\ \A i, j \in DOMAIN out : Same(out[i].arg, out[j].arg) => i = j
    /\ AllUsed(s, {held} \cup (pieces \cup {out[i] : i \in DOMAIN out}))

\* The commands of r after the n-th take held and leave out in its place: they
\* take nothing else from the commands before, no result of theirs twice, and
\* leave none of theirs but out.
Grows(r, n, held, out) ==
    /\ \A i \in DOMAIN r : i > n => \A k \in DOMAIN r[i].takes :
         \/ r[i].takes[k] = held
         \/ /\ Fits(r, r[i].takes[k])
            /\ r[i].takes[k].arg.cmd >= n /\ r[i].takes[k].arg.cmd + 1 < i
    /\ \A i, j \in DOMAIN r : (i > n /\ j > n) =>
         \A k \in DOMAIN r[i].takes, l \in DOMAIN r[j].takes :
             Same(r[i].takes[k].arg, r[j].takes[l].arg) => i = j /\ k = l
    /\ \E i \in DOMAIN r : i > n /\ \E k \in DOMAIN r[i].takes : r[i].takes[k] = held
    /\ \A c \in DOMAIN r : c > n => \A j \in DOMAIN r[c].gives :
         \/ Same(out.arg, Nested(c - 1, j - 1))
         \/ \E i \in DOMAIN r : i > n /\ \E k \in DOMAIN r[i].takes :
                Same(r[i].takes[k].arg, Nested(c - 1, j - 1))
    /\ Fits(r, out) /\ out.arg.cmd >= n
    /\ \A i \in DOMAIN r : i > n => \A k \in DOMAIN r[i].takes : ~Same(r[i].takes[k].arg, out.arg)
    /\ \A i \in DOMAIN r : i > n =>
         /\ r[i].fn \in {"merge", "transfer"} => r[i].gives = <<>>
         /\ DOMAIN r[i].takes \subseteq 1..3 /\ DOMAIN r[i].gives \subseteq Nat

-----------------------------------------------------------------------------
\* What a hop appends

\* The commands of a flash swap as the proof sees them: d tells the direction,
\* y and z are what repays the loan, x, w and v what it lends.
Flash(r, n, held, out, d, x, w, v, y, z) ==
    /\ r[n + 1].takes = <<>>
    /\ r[n + 1].gives = (IF d = 0 THEN <<x, w, v>> ELSE <<w, x, v>>)
    /\ r[n + 2].takes = <<held>> /\ r[n + 2].gives = <<y>>
    /\ r[n + 3].takes = <<>> /\ r[n + 3].gives = <<z>>
    /\ r[n + 4].takes = <<Take(Result(IF d = 0 THEN n + 1 ELSE n + 2), IF d = 0 THEN y ELSE z),
                          Take(Result(IF d = 0 THEN n + 2 ELSE n + 1), IF d = 0 THEN z ELSE y),
                          Take(Nested(n, 2), v)>>
    /\ r[n + 4].gives = <<>>
    /\ r[n + 5].takes = <<Take(Nested(n, IF d = 0 THEN 0 ELSE 1), x)>> /\ r[n + 5].gives = <<>>
    /\ r[n + 6].takes = <<Take(Nested(n, IF d = 0 THEN 1 ELSE 0), w)>> /\ r[n + 6].gives = <<out.type>>
    /\ \A i \in 1..6 : r[n + i].fn \notin {"merge", "transfer"}
    /\ out.arg = Result(n + 5)

LEMMA TakeFields ==
    ASSUME NEW arg, NEW type
    PROVE  Take(arg, type).arg = arg /\ Take(arg, type).type = type
BY DEF Take

LEMMA FlashAt ==
    ASSUME NEW hop, hop.in \in {hop.a, hop.b}, NEW coin, NEW n \in Nat, NEW r,
           \A i \in 1..6 : r[n + i] = FlashHop(hop, coin, n)[i]
    PROVE  \E d \in {0, 1} : \E x, w, v, y, z :
             Flash(r, n, Take(coin, Coin(hop.in)), Take(Result(n + 5), Coin(OutToken(hop))), d, x, w, v, y, z)
<1> DEFINE in == hop.in
           out == OutToken(hop)
           down == AToB(hop)
           new == FlashHop(hop, coin, n)
           objs == {hop.pool, hop.dex}
           ts1 == <<>>
           gs1 == <<Balance(hop.a, ~down), Balance(hop.b, down), Receipt(hop.pool)>>
           ts2 == <<Take(coin, Coin(in))>>
           gs2 == <<Balance(in, TRUE)>>
           ts3 == <<>>
           gs3 == <<Balance(out, FALSE)>>
           ts4 == <<Take(Result(IF down THEN n + 1 ELSE n + 2), Balance(hop.a, down)),
                  Take(Result(IF down THEN n + 2 ELSE n + 1), Balance(hop.b, ~down)),
                  Take(Nested(n, 2), Receipt(hop.pool))>>
           gs4 == <<>>
           ts5 == <<Take(Nested(n, IF down THEN 0 ELSE 1), Balance(in, FALSE))>>
           gs5 == <<>>
           ts6 == <<Take(Nested(n, IF down THEN 1 ELSE 0), Balance(out, TRUE))>>
           gs6 == <<Coin(out)>>
<1>0. /\ r[n + 1] = new[1] /\ r[n + 2] = new[2] /\ r[n + 3] = new[3]
      /\ r[n + 4] = new[4] /\ r[n + 5] = new[5] /\ r[n + 6] = new[6]
  OBVIOUS
<1>l. /\ new[1] = Cmd("flash_swap", ts1, gs1, objs, 0)
      /\ new[2] = Cmd("into_balance", ts2, gs2, {}, 0)
      /\ new[3] = Cmd("zero", ts3, gs3, {}, 0)
      /\ new[4] = Cmd("repay_flash_swap", ts4, gs4, objs, 0)
      /\ new[5] = Cmd("destroy_zero", ts5, gs5, {}, 0)
      /\ new[6] = Cmd("from_balance", ts6, gs6, {}, 0)
  BY DEF FlashHop
<1> HIDE DEF new, ts1, ts2, ts3, ts4, ts5, ts6, gs1, gs2, gs3, gs4, gs5, gs6, objs
<1>1. r[n + 1].fn = "flash_swap" /\ r[n + 1].takes = ts1 /\ r[n + 1].gives = gs1
  BY <1>0, <1>l DEF Cmd
<1>2. r[n + 2].fn = "into_balance" /\ r[n + 2].takes = ts2 /\ r[n + 2].gives = gs2
  BY <1>0, <1>l DEF Cmd
<1>3. r[n + 3].fn = "zero" /\ r[n + 3].takes = ts3 /\ r[n + 3].gives = gs3
  BY <1>0, <1>l DEF Cmd
<1>4. r[n + 4].fn = "repay_flash_swap" /\ r[n + 4].takes = ts4 /\ r[n + 4].gives = gs4
  BY <1>0, <1>l DEF Cmd
<1>5. r[n + 5].fn = "destroy_zero" /\ r[n + 5].takes = ts5 /\ r[n + 5].gives = gs5
  BY <1>0, <1>l DEF Cmd
<1>6. r[n + 6].fn = "from_balance" /\ r[n + 6].takes = ts6 /\ r[n + 6].gives = gs6
  BY <1>0, <1>l DEF Cmd
<1>7. \A i \in 1..6 : r[n + i].fn \notin {"merge", "transfer"}
  <2>1. \A i \in 1..6 : i \in {1, 2, 3, 4, 5, 6}
    OBVIOUS
  <2>2. QED
    BY <2>1, <1>1, <1>2, <1>3, <1>4, <1>5, <1>6
<1>8. CASE down
  <2>1. out = hop.b /\ in = hop.a
    BY <1>8 DEF OutToken, AToB
  <2>2. down = TRUE /\ (~down) = FALSE
    BY <1>8, Zenon DEF AToB
  <2>3. \A t : Balance(t, down) = Balance(t, TRUE) /\ Balance(t, ~down) = Balance(t, FALSE)
    BY <2>2, Zenon
  <2>4. gs1 = <<Balance(in, FALSE), Balance(out, TRUE), Receipt(hop.pool)>>
    BY <2>1, <2>3 DEF gs1
  <2>5. ts4 = <<Take(Result(n + 1), Balance(in, TRUE)), Take(Result(n + 2), Balance(out, FALSE)),
               Take(Nested(n, 2), Receipt(hop.pool))>>
    BY <1>8, <2>1, <2>3 DEF ts4
  <2>6. /\ ts5 = <<Take(Nested(n, 0), Balance(in, FALSE))>>
        /\ ts6 = <<Take(Nested(n, 1), Balance(out, TRUE))>>
    BY <1>8 DEF ts5, ts6
  <2>7. Flash(r, n, Take(coin, Coin(in)), Take(Result(n + 5), Coin(out)), 0,
              Balance(in, FALSE), Balance(out, TRUE), Receipt(hop.pool),
              Balance(in, TRUE), Balance(out, FALSE))
    BY <1>1, <1>2, <1>3, <1>4, <1>5, <1>6, <1>7, <2>4, <2>5, <2>6, TakeFields
       DEF Flash, ts1, ts2, ts3, gs2, gs3, gs4, gs5, gs6
  <2>8. QED
    <3>1. \E x, w, v, y, z : Flash(r, n, Take(coin, Coin(in)), Take(Result(n + 5), Coin(out)),
                                  0, x, w, v, y, z)
      BY <2>7, Zenon
    <3>2. QED
      BY <3>1
<1>9. CASE ~down
  <2>1. out = hop.a /\ in = hop.b
    BY <1>9 DEF OutToken, AToB
  <2>2. down = FALSE /\ (~down) = TRUE
    BY <1>9, Zenon DEF AToB
  <2>3. \A t : Balance(t, down) = Balance(t, FALSE) /\ Balance(t, ~down) = Balance(t, TRUE)
    BY <2>2, Zenon
  <2>4. gs1 = <<Balance(out, TRUE), Balance(in, FALSE), Receipt(hop.pool)>>
    BY <2>1, <2>3 DEF gs1
  <2>5. ts4 = <<Take(Result(n + 2), Balance(out, FALSE)), Take(Result(n + 1), Balance(in, TRUE)),
               Take(Nested(n, 2), Receipt(hop.pool))>>
    BY <1>9, <2>1, <2>3 DEF ts4
  <2>6. /\ ts5 = <<Take(Nested(n, 1), Balance(in, FALSE))>>
        /\ ts6 = <<Take(Nested(n, 0), Balance(out, TRUE))>>
    BY <1>9 DEF ts5, ts6
  <2>7. Flash(r, n, Take(coin, Coin(in)), Take(Result(n + 5), Coin(out)), 1,
              Balance(in, FALSE), Balance(out, TRUE), Receipt(hop.pool),
              Balance(in, TRUE), Balance(out, FALSE))
    BY <1>1, <1>2, <1>3, <1>4, <1>5, <1>6, <1>7, <2>4, <2>5, <2>6, TakeFields
       DEF Flash, ts1, ts2, ts3, gs2, gs3, gs4, gs5, gs6
  <2>8. QED
    <3>1. \E x, w, v, y, z : Flash(r, n, Take(coin, Coin(in)), Take(Result(n + 5), Coin(out)),
                                  1, x, w, v, y, z)
      BY <2>7, Zenon
    <3>2. QED
      BY <3>1
<1>10. QED
  BY <1>8, <1>9

LEMMA FlashGrows ==
    ASSUME NEW n \in Nat, NEW r, DOMAIN r = 1..(n + 6), NEW held, NEW out,
           held.arg.cmd \in Nat, held.arg.cmd < n,
           NEW d \in {0, 1}, NEW x, NEW w, NEW v, NEW y, NEW z,
           Flash(r, n, held, out, d, x, w, v, y, z)
    PROVE  Grows(r, n, held, out)
<1> DEFINE p == IF d = 0 THEN n + 1 ELSE n + 2
           q == IF d = 0 THEN n + 2 ELSE n + 1
           e == IF d = 0 THEN 0 ELSE 1
           f == IF d = 0 THEN 1 ELSE 0
<1>1. \A i \in DOMAIN r : i > n => i \in {n + 1, n + 2, n + 3, n + 4, n + 5, n + 6}
  OBVIOUS
<1>a. \A i \in DOMAIN r : i > n => i = n + 1 \/ i = n + 2 \/ i = n + 3 \/ i = n + 4 \/ i = n + 5 \/ i = n + 6
  OBVIOUS
<1>2. /\ DOMAIN r[n + 1].takes = {} /\ DOMAIN r[n + 2].takes = {1} /\ DOMAIN r[n + 3].takes = {}
      /\ DOMAIN r[n + 4].takes = {1, 2, 3} /\ DOMAIN r[n + 5].takes = {1} /\ DOMAIN r[n + 6].takes = {1}
  <2>1. DOMAIN r[n + 1].takes = {}
    BY DEF Flash
  <2>2. DOMAIN r[n + 2].takes = {1}
    BY DEF Flash
  <2>3. DOMAIN r[n + 3].takes = {}
    BY DEF Flash
  <2>4. DOMAIN r[n + 4].takes = {1, 2, 3}
    BY DEF Flash
  <2>5. DOMAIN r[n + 5].takes = {1}
    BY DEF Flash
  <2>6. DOMAIN r[n + 6].takes = {1}
    BY DEF Flash
  <2>7. QED
    BY <2>1, <2>2, <2>3, <2>4, <2>5, <2>6
<1>3. /\ DOMAIN r[n + 1].gives = {1, 2, 3} /\ DOMAIN r[n + 2].gives = {1} /\ DOMAIN r[n + 3].gives = {1}
      /\ DOMAIN r[n + 4].gives = {} /\ DOMAIN r[n + 5].gives = {} /\ DOMAIN r[n + 6].gives = {1}
      /\ Len(r[n + 2].gives) = 1 /\ Len(r[n + 3].gives) = 1 /\ Len(r[n + 6].gives) = 1
  <2>1. DOMAIN r[n + 1].gives = {1, 2, 3}
    BY DEF Flash
  <2>2. DOMAIN r[n + 2].gives = {1} /\ Len(r[n + 2].gives) = 1
    BY DEF Flash
  <2>3. DOMAIN r[n + 3].gives = {1} /\ Len(r[n + 3].gives) = 1
    BY DEF Flash
  <2>4. DOMAIN r[n + 4].gives = {}
    BY DEF Flash
  <2>5. DOMAIN r[n + 5].gives = {}
    BY DEF Flash
  <2>6. DOMAIN r[n + 6].gives = {1} /\ Len(r[n + 6].gives) = 1
    BY DEF Flash
  <2>7. QED
    BY <2>1, <2>2, <2>3, <2>4, <2>5, <2>6
<1>4. /\ r[n + 1].gives[e + 1] = x /\ r[n + 1].gives[f + 1] = w /\ r[n + 1].gives[3] = v
      /\ r[n + 2].gives[1] = y /\ r[n + 3].gives[1] = z /\ r[n + 6].gives[1] = out.type
  BY DEF Flash
<1>5. /\ r[n + 2].takes[1] = held
      /\ r[n + 4].takes[1] = Take(Result(p), IF d = 0 THEN y ELSE z)
      /\ r[n + 4].takes[2] = Take(Result(q), IF d = 0 THEN z ELSE y)
      /\ r[n + 4].takes[3] = Take(Nested(n, 2), v)
      /\ r[n + 5].takes[1] = Take(Nested(n, e), x)
      /\ r[n + 6].takes[1] = Take(Nested(n, f), w)
      /\ out.arg = Result(n + 5)
  BY DEF Flash
<1>6. \A c, j : /\ Result(c).cmd = c /\ Result(c).out = 0
                /\ Nested(c, j).cmd = c /\ Nested(c, j).out = j /\ Nested(c, j).kind = "nested"
  BY DEF Result, Nested
<1>7. \A i \in 1..6 : r[n + i].fn \notin {"merge", "transfer"}
  BY DEF Flash
<1>8. \A a, t : Take(a, t).arg = a /\ Take(a, t).type = t
  BY TakeFields
<1>9. \A i \in DOMAIN r : i > n => /\ r[i].fn \notin {"merge", "transfer"}
                                  /\ DOMAIN r[i].takes \subseteq 1..3
                                  /\ DOMAIN r[i].gives \subseteq Nat
  <2>1. \A i \in DOMAIN r : i > n => r[i].fn \notin {"merge", "transfer"} /\ DOMAIN r[i].takes \subseteq 1..3
    BY <1>1, <1>2, <1>7
  <2>2. \A i \in DOMAIN r : i > n => DOMAIN r[i].gives \subseteq Nat
    BY <1>1, <1>3
  <2>3. QED
    BY <2>1, <2>2
<1>10. /\ Fits(r, r[n + 4].takes[1]) /\ Fits(r, r[n + 4].takes[2]) /\ Fits(r, r[n + 4].takes[3])
       /\ Fits(r, r[n + 5].takes[1]) /\ Fits(r, r[n + 6].takes[1]) /\ Fits(r, out)
  <2>0. {n + 1, n + 2, n + 3, n + 6} \subseteq DOMAIN r
    OBVIOUS
  <2>1. Fits(r, r[n + 4].takes[1])
    <3>1. r[n + 4].takes[1].arg.cmd = p /\ r[n + 4].takes[1].arg.out = 0 /\ r[n + 4].takes[1].type = (IF d = 0 THEN y ELSE z)
      BY <1>5, <1>6, <1>8
    <3>2. /\ p \in Nat /\ p + 1 \in DOMAIN r /\ 1 \in DOMAIN r[p + 1].gives
          /\ Len(r[p + 1].gives) = 1 /\ r[p + 1].gives[1] = (IF d = 0 THEN y ELSE z)
      BY <2>0, <1>3, <1>4
    <3> HIDE DEF p, q
    <3>3. QED
      BY <3>1, <3>2 DEF Fits, Named
  <2>2. Fits(r, r[n + 4].takes[2])
    <3>1. r[n + 4].takes[2].arg.cmd = q /\ r[n + 4].takes[2].arg.out = 0 /\ r[n + 4].takes[2].type = (IF d = 0 THEN z ELSE y)
      BY <1>5, <1>6, <1>8
    <3>2. /\ q \in Nat /\ q + 1 \in DOMAIN r /\ 1 \in DOMAIN r[q + 1].gives
          /\ Len(r[q + 1].gives) = 1 /\ r[q + 1].gives[1] = (IF d = 0 THEN z ELSE y)
      BY <2>0, <1>3, <1>4
    <3> HIDE DEF p, q
    <3>3. QED
      BY <3>1, <3>2 DEF Fits, Named
  <2>3. Fits(r, r[n + 4].takes[3])
    BY <2>0, <1>3, <1>4, <1>5, <1>6, <1>8 DEF Fits, Named
  <2>4. Fits(r, r[n + 5].takes[1])
    <3>1. r[n + 5].takes[1].arg.cmd = n /\ r[n + 5].takes[1].arg.out = e /\ r[n + 5].takes[1].type = x
          /\ r[n + 5].takes[1].arg.kind = "nested"
      BY <1>5, <1>6, <1>8
    <3>2. e \in Nat /\ e + 1 \in DOMAIN r[n + 1].gives /\ r[n + 1].gives[e + 1] = x
      BY <1>3, <1>4
    <3> HIDE DEF e, f
    <3>3. QED
      BY <2>0, <3>1, <3>2 DEF Fits, Named
  <2>5. Fits(r, r[n + 6].takes[1])
    <3>1. r[n + 6].takes[1].arg.cmd = n /\ r[n + 6].takes[1].arg.out = f /\ r[n + 6].takes[1].type = w
          /\ r[n + 6].takes[1].arg.kind = "nested"
      BY <1>5, <1>6, <1>8
    <3>2. f \in Nat /\ f + 1 \in DOMAIN r[n + 1].gives /\ r[n + 1].gives[f + 1] = w
      BY <1>3, <1>4
    <3> HIDE DEF e, f
    <3>3. QED
      BY <2>0, <3>1, <3>2 DEF Fits, Named
  <2>6. Fits(r, out)
    <3>1. out.arg.cmd = n + 5 /\ out.arg.out = 0
      BY <1>5, <1>6
    <3>2. QED
      BY <2>0, <3>1, <1>3, <1>4 DEF Fits, Named
  <2>7. QED
    BY <2>1, <2>2, <2>3, <2>4, <2>5, <2>6
<1>11. /\ r[n + 4].takes[1].arg.cmd = p /\ r[n + 4].takes[1].arg.out = 0
       /\ r[n + 4].takes[2].arg.cmd = q /\ r[n + 4].takes[2].arg.out = 0
       /\ r[n + 4].takes[3].arg.cmd = n /\ r[n + 4].takes[3].arg.out = 2
       /\ r[n + 5].takes[1].arg.cmd = n /\ r[n + 5].takes[1].arg.out = e
       /\ r[n + 6].takes[1].arg.cmd = n /\ r[n + 6].takes[1].arg.out = f
       /\ out.arg.cmd = n + 5 /\ out.arg.out = 0
       /\ r[n + 2].takes[1].arg.cmd < n
  BY <1>5, <1>6, <1>8
<1> DEFINE Place(i, k) ==  \/ i = n + 2 /\ k = 1
                           \/ i = n + 4 /\ k \in {1, 2, 3}
                           \/ i = n + 5 /\ k = 1
                           \/ i = n + 6 /\ k = 1
<1>p. ASSUME NEW i \in DOMAIN r, i > n, NEW k \in DOMAIN r[i].takes
      PROVE  Place(i, k)
  <2>1. CASE i = n + 1
    BY <2>1, <1>2
  <2>2. CASE i = n + 2
    BY <2>2, <1>2
  <2>3. CASE i = n + 3
    BY <2>3, <1>2
  <2>4. CASE i = n + 4
    BY <2>4, <1>2
  <2>5. CASE i = n + 5
    BY <2>5, <1>2
  <2>6. CASE i = n + 6
    BY <2>6, <1>2
  <2>7. QED
    BY <1>p, <1>a, <2>1, <2>2, <2>3, <2>4, <2>5, <2>6
<1>12. \A i \in DOMAIN r : i > n => \A k \in DOMAIN r[i].takes :
          \/ i = n + 2 /\ k = 1 /\ r[i].takes[k] = held
          \/ /\ Fits(r, r[i].takes[k])
             /\ r[i].takes[k].arg.cmd >= n /\ r[i].takes[k].arg.cmd + 1 < i
  <2>1. TAKE i \in DOMAIN r
  <2>2. HAVE i > n
  <2>3. TAKE k \in DOMAIN r[i].takes
  <2>4. CASE i = n + 2
    BY <2>4, <1>2, <1>5
  <2>5. CASE i = n + 4
    BY <2>5, <1>2, <1>10, <1>11
  <2>6. CASE i = n + 5
    BY <2>6, <1>2, <1>10, <1>11
  <2>7. CASE i = n + 6
    BY <2>7, <1>2, <1>10, <1>11
  <2>8. QED
    BY <2>2, <2>4, <2>5, <2>6, <2>7, <1>1, <1>2
<1>13. \A i, j \in DOMAIN r : (i > n /\ j > n) =>
          \A k \in DOMAIN r[i].takes, l \in DOMAIN r[j].takes :
             Same(r[i].takes[k].arg, r[j].takes[l].arg) => i = j /\ k = l
  <2>1. ASSUME NEW i, NEW k, Place(i, k), NEW j, NEW l, Place(j, l),
               Same(r[i].takes[k].arg, r[j].takes[l].arg)
        PROVE  i = j /\ k = l
    <3>1. \A m \in {1, 2, 3} : m = 1 \/ m = 2 \/ m = 3
      OBVIOUS
    <3>0. /\ n # p /\ n # q /\ p # q /\ e # 2 /\ f # 2 /\ e # f
          /\ ~(p < n) /\ ~(q < n) /\ ~(n < n)
      OBVIOUS
    <3>k. Place(j, l) => \/ j = n + 2 /\ l = 1 /\ r[j].takes[l].arg.cmd < n
                         \/ j = n + 4 /\ l = 1 /\ r[j].takes[l].arg.cmd = p /\ r[j].takes[l].arg.out = 0
                         \/ j = n + 4 /\ l = 2 /\ r[j].takes[l].arg.cmd = q /\ r[j].takes[l].arg.out = 0
                         \/ j = n + 4 /\ l = 3 /\ r[j].takes[l].arg.cmd = n /\ r[j].takes[l].arg.out = 2
                         \/ j = n + 5 /\ l = 1 /\ r[j].takes[l].arg.cmd = n /\ r[j].takes[l].arg.out = e
                         \/ j = n + 6 /\ l = 1 /\ r[j].takes[l].arg.cmd = n /\ r[j].takes[l].arg.out = f
      BY <3>1, <1>11
    <3>s. /\ r[i].takes[k].arg.cmd = r[j].takes[l].arg.cmd
          /\ r[i].takes[k].arg.out = r[j].takes[l].arg.out
      BY <2>1 DEF Same
    <3> HIDE DEF p, q, e, f
    <3>2. CASE i = n + 2 /\ k = 1
      <4>1. r[i].takes[k].arg.cmd < n
        BY <3>2, <1>11
      <4>2. QED
        BY <4>1, <3>0, <3>k, <3>s, <3>2, <2>1
    <3>3. CASE i = n + 4 /\ k = 1
      <4>1. r[i].takes[k].arg.cmd = p /\ r[i].takes[k].arg.out = 0
        BY <3>3, <1>11
      <4>2. QED
        BY <4>1, <3>0, <3>k, <3>s, <3>3, <2>1
    <3>4. CASE i = n + 4 /\ k = 2
      <4>1. r[i].takes[k].arg.cmd = q /\ r[i].takes[k].arg.out = 0
        BY <3>4, <1>11
      <4>2. QED
        BY <4>1, <3>0, <3>k, <3>s, <3>4, <2>1
    <3>5. CASE i = n + 4 /\ k = 3
      <4>1. r[i].takes[k].arg.cmd = n /\ r[i].takes[k].arg.out = 2
        BY <3>5, <1>11
      <4>2. QED
        BY <4>1, <3>0, <3>k, <3>s, <3>5, <2>1
    <3>6. CASE i = n + 5 /\ k = 1
      <4>1. r[i].takes[k].arg.cmd = n /\ r[i].takes[k].arg.out = e
        BY <3>6, <1>11
      <4>2. QED
        BY <4>1, <3>0, <3>k, <3>s, <3>6, <2>1
    <3>7. CASE i = n + 6 /\ k = 1
      <4>1. r[i].takes[k].arg.cmd = n /\ r[i].takes[k].arg.out = f
        BY <3>7, <1>11
      <4>2. QED
        BY <4>1, <3>0, <3>k, <3>s, <3>7, <2>1
    <3>8. QED
      BY <3>1, <3>2, <3>3, <3>4, <3>5, <3>6, <3>7, <2>1
  <2> HIDE DEF Place
  <2>2. QED
    BY <1>p, <2>1
<1>14. \A c \in DOMAIN r : c > n => \A j \in DOMAIN r[c].gives :
         \/ Same(out.arg, Nested(c - 1, j - 1))
         \/ \E i \in DOMAIN r : i > n /\ \E k \in DOMAIN r[i].takes :
                Same(r[i].takes[k].arg, Nested(c - 1, j - 1))
  <2>1. TAKE c \in DOMAIN r
  <2>2. HAVE c > n
  <2>3. TAKE j \in DOMAIN r[c].gives
  <2>4. (c = n + 1 /\ j \in {1, 2, 3}) \/ (c = n + 2 /\ j = 1) \/ (c = n + 3 /\ j = 1) \/ (c = n + 6 /\ j = 1)
    <3>1. CASE c = n + 1
      BY <3>1, <1>3
    <3>2. CASE c = n + 2
      BY <3>2, <1>3
    <3>3. CASE c = n + 3
      BY <3>3, <1>3
    <3>4. CASE c = n + 4
      BY <3>4, <1>3
    <3>5. CASE c = n + 5
      BY <3>5, <1>3
    <3>6. CASE c = n + 6
      BY <3>6, <1>3
    <3>7. QED
      BY <2>2, <1>a, <3>1, <3>2, <3>3, <3>4, <3>5, <3>6
  <2>5. Nested(c - 1, j - 1).cmd = c - 1 /\ Nested(c - 1, j - 1).out = j - 1
    BY <1>6
  <2>6. \E u \in {<<n + 4, 1>>, <<n + 4, 2>>, <<n + 4, 3>>, <<n + 5, 1>>, <<n + 6, 1>>} :
           \/ Same(r[u[1]].takes[u[2]].arg, Nested(c - 1, j - 1))
           \/ Same(out.arg, Nested(c - 1, j - 1))
    <3>1. CASE d = 0
      BY <3>1, <2>4, <2>5, <1>11 DEF Same
    <3>2. CASE d = 1
      BY <3>2, <2>4, <2>5, <1>11 DEF Same
    <3>3. QED
      BY <3>1, <3>2
  <2>7. QED
    BY <2>6, <1>2
<1>15. \A i \in DOMAIN r : i > n => \A k \in DOMAIN r[i].takes : ~Same(r[i].takes[k].arg, out.arg)
  <2>1. ASSUME NEW i, NEW k, Place(i, k)
        PROVE  ~Same(r[i].takes[k].arg, out.arg)
    <3>1. out.arg.cmd = n + 5
      BY <1>11
    <3>2. r[i].takes[k].arg.cmd # n + 5
      <4>1. CASE i = n + 2 /\ k = 1
        BY <4>1, <1>5
      <4>2. CASE i = n + 4 /\ k \in {1, 2, 3}
        BY <4>2, <1>11
      <4>3. CASE i \in {n + 5, n + 6} /\ k = 1
        BY <4>3, <1>11
      <4>4. QED
        BY <4>1, <4>2, <4>3, <2>1
    <3>3. QED
      BY <3>1, <3>2 DEF Same
  <2> HIDE DEF Place
  <2>2. QED
    BY <1>p, <2>1
<1>16. n + 2 \in DOMAIN r /\ n + 2 > n /\ 1 \in DOMAIN r[n + 2].takes /\ out.arg.cmd >= n
  BY <1>2, <1>11
<1> HIDE DEF p, q, e, f
<1>17. QED
  BY <1>5, <1>9, <1>10, <1>12, <1>13, <1>14, <1>15, <1>16 DEF Grows

LEMMA TurbosGrows ==
    ASSUME NEW hop, NEW coin, coin.cmd \in Nat, NEW n \in Nat, coin.cmd < n, NEW min,
           NEW r, DOMAIN r = 1..(n + 3),
           \A i \in 1..3 : r[n + i] = TurbosHop(hop, coin, n, min)[i]
    PROVE  Grows(r, n, Take(coin, Coin(hop.in)), Take(Nested(n + 1, 0), Coin(OutToken(hop))))
<1> DEFINE new == TurbosHop(hop, coin, n, min)
           held == Take(coin, Coin(hop.in))
           out == Take(Nested(n + 1, 0), Coin(OutToken(hop)))
           vec == Vec(hop.in)
           back == Coin(hop.in)
           objs == {hop.pool, hop.dex}
           gs2 == <<Coin(OutToken(hop)), back>>
           ts2 == <<Take(Result(n), vec)>>
           ts3 == <<Take(Nested(n + 1, 1), back)>>
<1>1. \A i \in DOMAIN r : i > n => i = n + 1 \/ i = n + 2 \/ i = n + 3
  OBVIOUS
<1>2. r[n + 1] = new[1] /\ r[n + 2] = new[2] /\ r[n + 3] = new[3]
  OBVIOUS
<1>3. /\ new[1] = Cmd("make_move_vec", <<held>>, <<vec>>, {}, 0)
      /\ new[2] = Cmd("swap", ts2, gs2, objs, min)
      /\ new[3] = Cmd("transfer", ts3, <<>>, {}, 0)
  BY DEF TurbosHop
<1>4. /\ out.arg.cmd = n + 1 /\ out.arg.out = 0 /\ out.arg.kind = "nested"
      /\ out.type = Coin(OutToken(hop)) /\ held.arg = coin
  BY TakeFields DEF Nested
<1>5. /\ ts2[1].arg.cmd = n /\ ts2[1].arg.out = 0 /\ ts2[1].type = vec
      /\ ts3[1].arg.cmd = n + 1 /\ ts3[1].arg.out = 1 /\ ts3[1].type = back
      /\ ts3[1].arg.kind = "nested"
  BY TakeFields DEF Nested, Result
<1>6. /\ DOMAIN ts2 = {1} /\ DOMAIN ts3 = {1} /\ DOMAIN gs2 = {1, 2}
      /\ gs2[1] = Coin(OutToken(hop)) /\ gs2[2] = back
      /\ \A a : DOMAIN <<a>> = {1} /\ <<a>>[1] = a /\ Len(<<a>>) = 1
  OBVIOUS
<1>7. DOMAIN <<>> = {}
  OBVIOUS
<1> HIDE DEF new, held, out, vec, back, objs, gs2, ts2, ts3
<1>8. /\ r[n + 1].fn = "make_move_vec" /\ r[n + 1].takes = <<held>> /\ r[n + 1].gives = <<vec>>
      /\ r[n + 2].fn = "swap" /\ r[n + 2].takes = ts2 /\ r[n + 2].gives = gs2
      /\ r[n + 3].fn = "transfer" /\ r[n + 3].takes = ts3 /\ r[n + 3].gives = <<>>
  BY <1>2, <1>3 DEF Cmd
<1>9. /\ DOMAIN r[n + 1].takes = {1} /\ r[n + 1].takes[1] = held
      /\ DOMAIN r[n + 2].takes = {1} /\ DOMAIN r[n + 3].takes = {1}
      /\ DOMAIN r[n + 1].gives = {1} /\ r[n + 1].gives[1] = vec /\ Len(r[n + 1].gives) = 1
      /\ DOMAIN r[n + 2].gives = {1, 2} /\ DOMAIN r[n + 3].gives = {}
      /\ r[n + 2].gives[1] = Coin(OutToken(hop)) /\ r[n + 2].gives[2] = back
  <2>1. DOMAIN r[n + 1].takes = {1} /\ r[n + 1].takes[1] = held
    BY <1>8
  <2>2. DOMAIN r[n + 1].gives = {1} /\ r[n + 1].gives[1] = vec /\ Len(r[n + 1].gives) = 1
    BY <1>8
  <2>3. QED
    BY <1>6, <1>7, <1>8, <2>1, <2>2
<1>10. /\ r[n + 2].takes[1].arg.cmd = n /\ r[n + 2].takes[1].arg.out = 0
       /\ r[n + 2].takes[1].type = vec
       /\ r[n + 3].takes[1].arg.cmd = n + 1 /\ r[n + 3].takes[1].arg.out = 1
       /\ r[n + 3].takes[1].type = back /\ r[n + 3].takes[1].arg.kind = "nested"
       /\ r[n + 1].takes[1].arg.cmd \in Nat /\ r[n + 1].takes[1].arg.cmd < n
  <2>1. r[n + 2].takes[1] = ts2[1] /\ r[n + 3].takes[1] = ts3[1]
    BY <1>8
  <2>2. r[n + 1].takes[1].arg = coin
    BY <1>4, <1>9
  <2>3. QED
    BY <1>5, <2>1, <2>2
<1>11. \A i \in DOMAIN r : i > n => \A k \in DOMAIN r[i].takes :
          k = 1 /\ (i = n + 1 \/ i = n + 2 \/ i = n + 3)
  BY <1>1, <1>9
<1>12. n + 1 \in DOMAIN r /\ n + 2 \in DOMAIN r
  OBVIOUS
<1>13. Fits(r, r[n + 2].takes[1]) /\ Fits(r, r[n + 3].takes[1]) /\ Fits(r, out)
  <2>1. Fits(r, r[n + 2].takes[1])
    BY <1>9, <1>10, <1>12 DEF Fits, Named
  <2>2. Fits(r, r[n + 3].takes[1])
    BY <1>9, <1>10, <1>12 DEF Fits, Named
  <2>3. Fits(r, out)
    BY <1>4, <1>9, <1>12 DEF Fits, Named
  <2>4. QED
    BY <2>1, <2>2, <2>3
<1>14. \A i \in DOMAIN r : i > n => \A k \in DOMAIN r[i].takes :
         \/ r[i].takes[k] = held
         \/ /\ Fits(r, r[i].takes[k])
            /\ r[i].takes[k].arg.cmd >= n /\ r[i].takes[k].arg.cmd + 1 < i
  BY <1>9, <1>10, <1>11, <1>13
<1>15. \A i, j \in DOMAIN r : (i > n /\ j > n) =>
         \A k \in DOMAIN r[i].takes, l \in DOMAIN r[j].takes :
             Same(r[i].takes[k].arg, r[j].takes[l].arg) => i = j /\ k = l
  <2> SUFFICES ASSUME NEW i \in DOMAIN r, NEW j \in DOMAIN r, i > n, j > n,
                      NEW k \in DOMAIN r[i].takes, NEW l \in DOMAIN r[j].takes,
                      Same(r[i].takes[k].arg, r[j].takes[l].arg)
               PROVE  i = j /\ k = l
    OBVIOUS
  <2>1. /\ k = 1 /\ (i = n + 1 \/ i = n + 2 \/ i = n + 3)
        /\ l = 1 /\ (j = n + 1 \/ j = n + 2 \/ j = n + 3)
    BY <1>11
  <2>2. r[i].takes[1].arg.cmd = r[j].takes[1].arg.cmd
    BY <2>1 DEF Same
  <2> QED BY <1>10, <2>1, <2>2
<1>16. \A c \in DOMAIN r : c > n => \A j \in DOMAIN r[c].gives :
         \/ Same(out.arg, Nested(c - 1, j - 1))
         \/ \E i \in DOMAIN r : i > n /\ \E k \in DOMAIN r[i].takes :
                Same(r[i].takes[k].arg, Nested(c - 1, j - 1))
  <2>1. TAKE c \in DOMAIN r
  <2>2. HAVE c > n
  <2>3. TAKE j \in DOMAIN r[c].gives
  <2>4. (c = n + 1 /\ j = 1) \/ (c = n + 2 /\ j = 1) \/ (c = n + 2 /\ j = 2)
    BY <1>1, <1>9, <2>2
  <2>5. Nested(c - 1, j - 1).cmd = c - 1 /\ Nested(c - 1, j - 1).out = j - 1
    BY DEF Nested
  <2>6. \/ Same(out.arg, Nested(c - 1, j - 1))
        \/ Same(r[n + 2].takes[1].arg, Nested(c - 1, j - 1))
        \/ Same(r[n + 3].takes[1].arg, Nested(c - 1, j - 1))
    BY <1>4, <1>10, <2>4, <2>5 DEF Same
  <2>7. /\ n + 2 \in DOMAIN r /\ n + 2 > n /\ 1 \in DOMAIN r[n + 2].takes
        /\ n + 3 \in DOMAIN r /\ n + 3 > n /\ 1 \in DOMAIN r[n + 3].takes
    BY <1>9
  <2>8. QED
    BY <2>6, <2>7
<1>17. /\ out.arg.cmd >= n
       /\ \A i \in DOMAIN r : i > n => \A k \in DOMAIN r[i].takes : ~Same(r[i].takes[k].arg, out.arg)
  BY <1>4, <1>10, <1>11 DEF Same
<1>18. \A i \in DOMAIN r : i > n => /\ r[i].fn \in {"merge", "transfer"} => r[i].gives = <<>>
                                   /\ DOMAIN r[i].takes \subseteq 1..3
                                   /\ DOMAIN r[i].gives \subseteq Nat
  BY <1>1, <1>8, <1>9
<1>19. n + 1 > n /\ 1 \in DOMAIN r[n + 1].takes
  BY <1>9
<1>20. Grows(r, n, held, out)
  BY <1>9, <1>12, <1>13, <1>14, <1>15, <1>16, <1>17, <1>18, <1>19 DEF Grows
<1>21. QED
  BY <1>20 DEF held, out

-----------------------------------------------------------------------------
\* Longer lists of commands

Extends(r, s, n) == DOMAIN s = 1..n /\ DOMAIN s \subseteq DOMAIN r /\ \A i \in 1..n : r[i] = s[i]

\* What fits a list of commands fits every longer one.
LEMMA FitsLonger ==
    ASSUME NEW n \in Nat, NEW r, NEW s, Extends(r, s, n), NEW t, Fits(s, t)
    PROVE  Fits(r, t)
BY DEF Extends, Fits, Named

\* What the first n commands use is among their results.
LEMMA UsedEarly ==
    ASSUME NEW n \in Nat, NEW s, DOMAIN s = 1..n, Typed(s), NEW a, Used(s, a)
    PROVE  a.cmd < n
<1>1. PICK i \in DOMAIN s : \E k \in DOMAIN s[i].takes : Same(s[i].takes[k].arg, a)
  BY DEF Used
<1>2. PICK k \in DOMAIN s[i].takes : Same(s[i].takes[k].arg, a)
  BY <1>1
<1>3. s[i].takes[k].arg.cmd \in Nat /\ s[i].takes[k].arg.cmd + 1 < i
  BY DEF Typed, Fits, Named
<1>4. QED
  BY <1>2, <1>3 DEF Same

\* Commands that take held and leave out keep the discipline of the list: the
\* other coins in hand stay in hand, and out replaces held.
LEMMA Extend ==
    ASSUME NEW n \in Nat, NEW s, NEW r, Extends(r, s, n), NEW m \in Nat, DOMAIN r = 1..m,
           NEW held, NEW out, Grows(r, n, held, out),
           Typed(s), Once(s), Free(s, held)
    PROVE  /\ Typed(r) /\ Once(r) /\ Free(r, out)
           /\ \A t : (Free(s, t) /\ ~Same(t.arg, held.arg)) => (Free(r, t) /\ ~Same(t.arg, out.arg))
           /\ \A hand : AllUsed(s, {held} \cup hand) => AllUsed(r, {out} \cup hand)
<1>1. DOMAIN s = 1..n /\ n <= m /\ \A i \in 1..n : r[i] = s[i] /\ i \in DOMAIN r /\ i \in DOMAIN s
  BY DEF Extends
<1>2. \A i \in DOMAIN r : i > n => \A k \in DOMAIN r[i].takes :
         \/ r[i].takes[k] = held
         \/ /\ Fits(r, r[i].takes[k])
            /\ r[i].takes[k].arg.cmd >= n /\ r[i].takes[k].arg.cmd + 1 < i
  BY DEF Grows
<1>3. held.arg.cmd \in Nat /\ held.arg.cmd < n
  BY <1>1 DEF Free, Fits, Named
<1>4. \A i \in DOMAIN r : i \in 1..n \/ (i > n /\ i \in Nat)
  OBVIOUS
<1>5. ASSUME NEW i \in DOMAIN r, NEW k \in DOMAIN r[i].takes
      PROVE  Fits(r, r[i].takes[k]) /\ r[i].takes[k].arg.cmd + 1 < i
  <2>1. CASE i \in 1..n
    <3>1. Fits(s, s[i].takes[k]) /\ s[i].takes[k].arg.cmd + 1 < i
      BY <2>1, <1>1 DEF Typed
    <3>2. QED
      BY <2>1, <3>1, <1>1, FitsLonger
  <2>2. CASE i > n /\ i \in Nat
    <3>1. CASE r[i].takes[k] = held
      BY <3>1, <2>2, <1>3, FitsLonger DEF Free
    <3>2. QED
      BY <3>1, <2>2, <1>2
  <2>3. QED
    BY <2>1, <2>2, <1>4
<1>6. Typed(r)
  BY <1>5 DEF Typed
<1>7. ASSUME NEW a, ~Used(s, a), NEW i \in 1..n, NEW k \in DOMAIN r[i].takes
      PROVE  ~Same(r[i].takes[k].arg, a)
  BY <1>1, <1>7 DEF Used
<1>8. ASSUME NEW i \in 1..n, NEW k \in DOMAIN r[i].takes
      PROVE  r[i].takes[k].arg.cmd \in Nat /\ r[i].takes[k].arg.cmd + 1 < i
  BY <1>1, <1>8 DEF Typed, Fits, Named
<1>9. Once(r)
  <2>1. SUFFICES ASSUME NEW i \in DOMAIN r, NEW j \in DOMAIN r,
                        NEW k \in DOMAIN r[i].takes, NEW l \in DOMAIN r[j].takes,
                        Same(r[i].takes[k].arg, r[j].takes[l].arg)
                 PROVE  i = j /\ k = l
    BY DEF Once
  <2>2. CASE i \in 1..n /\ j \in 1..n
    BY <2>1, <2>2, <1>1 DEF Once
  <2>3. CASE i > n /\ j > n
    BY <2>1, <2>3 DEF Grows
  <2>4. ASSUME NEW a \in 1..n, NEW b \in DOMAIN r, b > n,
               NEW x \in DOMAIN r[a].takes, NEW y \in DOMAIN r[b].takes
        PROVE  ~(Same(r[a].takes[x].arg, r[b].takes[y].arg) \/ Same(r[b].takes[y].arg, r[a].takes[x].arg))
    <3>1. CASE r[b].takes[y] = held
      <4>1. ~Used(s, held.arg)
        BY DEF Free
      <4>2. QED
        BY <4>1, <3>1, <1>7 DEF Same
    <3>2. CASE r[b].takes[y].arg.cmd >= n
      <4>1. r[a].takes[x].arg.cmd \in Nat /\ r[a].takes[x].arg.cmd + 1 < a
        BY <1>8
      <4>2. r[b].takes[y].arg.cmd \in Nat
        BY <1>5 DEF Fits, Named
      <4>3. QED
        BY <4>1, <4>2, <3>2 DEF Same
    <3>3. QED
      BY <3>1, <3>2, <2>4, <1>2
  <2>5. QED
    BY <2>1, <2>2, <2>3, <2>4, <1>4
<1>10. Free(r, out)
  <2>1. Fits(r, out) /\ out.arg.cmd >= n /\ out.arg.cmd \in Nat
    BY DEF Grows, Fits, Named
  <2>2. ASSUME NEW i \in DOMAIN r, NEW k \in DOMAIN r[i].takes, Same(r[i].takes[k].arg, out.arg)
        PROVE  FALSE
    <3>1. CASE i \in 1..n
      BY <3>1, <2>1, <2>2, <1>8 DEF Same
    <3>2. CASE i > n
      BY <3>2, <2>2 DEF Grows
    <3>3. QED
      BY <3>1, <3>2, <1>4
  <2>3. QED
    BY <2>1, <2>2 DEF Free, Used
<1>11. ASSUME NEW t, Free(s, t), ~Same(t.arg, held.arg)
       PROVE  Free(r, t) /\ ~Same(t.arg, out.arg)
  <2>1. Fits(r, t) /\ t.arg.cmd \in Nat /\ t.arg.cmd < n
    BY <1>1, <1>11, FitsLonger DEF Free, Fits, Named
  <2>2. ~Same(t.arg, out.arg)
    <3>1. out.arg.cmd \in Nat /\ out.arg.cmd >= n
      BY DEF Grows, Fits, Named
    <3>2. QED
      BY <2>1, <3>1 DEF Same
  <2>3. ASSUME NEW i \in DOMAIN r, NEW k \in DOMAIN r[i].takes, Same(r[i].takes[k].arg, t.arg)
        PROVE  FALSE
    <3>1. CASE i \in 1..n
      BY <3>1, <2>3, <1>7, <1>11 DEF Free
    <3>2. CASE i > n /\ r[i].takes[k] = held
      BY <3>2, <2>3, <1>11 DEF Same
    <3>3. CASE i > n /\ r[i].takes[k].arg.cmd >= n
      BY <3>3, <2>1, <2>3 DEF Same
    <3>4. QED
      BY <3>1, <3>2, <3>3, <1>2, <1>4
  <2>4. QED
    BY <2>1, <2>2, <2>3 DEF Free, Used
<1>12. ASSUME NEW a, Used(s, a)
       PROVE  Used(r, a)
  BY <1>1, <1>12 DEF Used
<1>13. Used(r, held.arg)
  BY DEF Grows, Used, Same
<1>14. ASSUME NEW hand, AllUsed(s, {held} \cup hand), NEW c \in DOMAIN r, NEW j \in DOMAIN r[c].gives
       PROVE  Used(r, Nested(c - 1, j - 1)) \/ \E t \in {out} \cup hand : Same(t.arg, Nested(c - 1, j - 1))
  <2>1. CASE c \in 1..n
    <3>1. Used(s, Nested(c - 1, j - 1)) \/ \E t \in {held} \cup hand : Same(t.arg, Nested(c - 1, j - 1))
      BY <1>1, <1>14, <2>1 DEF AllUsed
    <3>2. CASE Same(held.arg, Nested(c - 1, j - 1))
      BY <3>2, <1>13 DEF Used, Same
    <3>3. QED
      BY <3>1, <3>2, <1>12
  <2>2. CASE c > n
    <3>1. \/ Same(out.arg, Nested(c - 1, j - 1))
          \/ \E i \in DOMAIN r : i > n /\ \E k \in DOMAIN r[i].takes :
                Same(r[i].takes[k].arg, Nested(c - 1, j - 1))
      BY <2>2 DEF Grows
    <3>2. QED
      BY <3>1 DEF Used
  <2>3. QED
    BY <2>1, <2>2, <1>4
<1>15. QED
  BY <1>6, <1>9, <1>10, <1>11, <1>14 DEF AllUsed

-----------------------------------------------------------------------------
\* The coins in hand

LEMMA FlashSeq ==
    ASSUME NEW hop, NEW coin, NEW n
    PROVE  IsSeq(FlashHop(hop, coin, n)) /\ Len(FlashHop(hop, coin, n)) = 6
<1>1. PICK a, b, c, d, e, f : FlashHop(hop, coin, n) = <<a, b, c, d, e, f>>
  BY DEF FlashHop
<1>2. <<a, b, c, d, e, f>> \in Seq({a, b, c, d, e, f}) /\ Len(<<a, b, c, d, e, f>>) = 6
  OBVIOUS
<1>3. QED
  BY <1>1, <1>2, InSeq

LEMMA TurbosSeq ==
    ASSUME NEW hop, NEW coin, NEW n, NEW min
    PROVE  IsSeq(TurbosHop(hop, coin, n, min)) /\ Len(TurbosHop(hop, coin, n, min)) = 3
<1>1. PICK a, b, c : TurbosHop(hop, coin, n, min) = <<a, b, c>>
  BY DEF TurbosHop
<1>2. <<a, b, c>> \in Seq({a, b, c}) /\ Len(<<a, b, c>>) = 3
  OBVIOUS
<1>3. QED
  BY <1>1, <1>2, InSeq

LEMMA HandExtend ==
    ASSUME NEW n \in Nat, NEW s, NEW r, Extends(r, s, n), NEW m \in Nat, DOMAIN r = 1..m,
           NEW held, NEW new, Grows(r, n, held, new), Typed(s), Once(s),
           NEW pieces, NEW out, InHand(s, held, pieces, out)
    PROVE  Typed(r) /\ Once(r) /\ InHand(r, new, pieces, out)
<1>1. Free(s, held)
  BY DEF InHand
<1>2. /\ Typed(r) /\ Once(r) /\ Free(r, new)
      /\ \A t : (Free(s, t) /\ ~Same(t.arg, held.arg)) => (Free(r, t) /\ ~Same(t.arg, new.arg))
      /\ \A hand : AllUsed(s, {held} \cup hand) => AllUsed(r, {new} \cup hand)
  BY <1>1, Extend
<1>3. \A t \in pieces : Free(r, t) /\ ~Same(t.arg, new.arg)
  BY <1>2 DEF InHand
<1>4. \A i \in DOMAIN out : Free(r, out[i]) /\ ~Same(out[i].arg, new.arg)
  BY <1>2 DEF InHand
<1>5. AllUsed(r, {new} \cup (pieces \cup {out[i] : i \in DOMAIN out}))
  BY <1>2 DEF InHand
<1>6. QED
  BY <1>2, <1>3, <1>4, <1>5 DEF InHand

\* A path ends and the next one starts with its coin.
LEMMA HandNext ==
    ASSUME NEW s, NEW held, NEW pieces, NEW out, InHand(s, held, pieces, out), IsSeq(out),
           NEW next, NEW rest, pieces = {next} \cup rest, \A t \in rest : ~Same(t.arg, next.arg)
    PROVE  InHand(s, next, rest, Append(out, held))
<1> DEFINE o == Append(out, held)
<1>1. /\ Len(out) \in Nat /\ DOMAIN out = 1..Len(out) /\ DOMAIN o = 1..(Len(out) + 1)
      /\ (\A i \in 1..Len(out) : o[i] = out[i]) /\ o[Len(out) + 1] = held
  BY SeqFacts, AppendFacts
<1> HIDE DEF o
<1>2. \A i \in DOMAIN o : (i \in DOMAIN out /\ o[i] = out[i]) \/ (i = Len(out) + 1 /\ o[i] = held)
  BY <1>1
<1>3. next \in pieces /\ \A t \in rest : t \in pieces
  OBVIOUS
<1>4. Free(s, next) /\ (\A t \in rest : Free(s, t)) /\ (\A i \in DOMAIN o : Free(s, o[i]))
  BY <1>2, <1>3 DEF InHand
<1>5. \A t \in pieces : \A i \in DOMAIN o : ~Same(o[i].arg, t.arg)
  <2>1. TAKE t \in pieces
  <2>2. TAKE i \in DOMAIN o
  <2>3. CASE i \in DOMAIN out /\ o[i] = out[i]
    BY <2>3 DEF InHand
  <2>4. CASE o[i] = held
    BY <2>4 DEF InHand, Same
  <2>5. QED
    BY <1>2, <2>3, <2>4
<1>6. \A i, j \in DOMAIN o : Same(o[i].arg, o[j].arg) => i = j
  <2>1. TAKE i, j \in DOMAIN o
  <2>2. HAVE Same(o[i].arg, o[j].arg)
  <2>3. CASE i \in DOMAIN out /\ o[i] = out[i] /\ j \in DOMAIN out /\ o[j] = out[j]
    BY <2>2, <2>3 DEF InHand
  <2>4. CASE i \in DOMAIN out /\ o[i] = out[i] /\ o[j] = held
    BY <2>2, <2>4 DEF InHand
  <2>5. CASE j \in DOMAIN out /\ o[j] = out[j] /\ o[i] = held
    BY <2>2, <2>5 DEF InHand, Same
  <2>6. QED
    BY <1>2, <2>3, <2>4, <2>5
<1>7. {held} \cup (pieces \cup {out[i] : i \in DOMAIN out}) = {next} \cup (rest \cup {o[i] : i \in DOMAIN o})
  <2>1. Len(out) + 1 \in DOMAIN o /\ \A i \in DOMAIN out : i \in DOMAIN o /\ o[i] = out[i]
    BY <1>1
  <2>2. {o[i] : i \in DOMAIN o} = {held} \cup {out[i] : i \in DOMAIN out}
    BY <1>1, <1>2, <2>1
  <2>3. QED
    BY <2>2
<1>8. AllUsed(s, {next} \cup (rest \cup {o[i] : i \in DOMAIN o}))
  BY <1>7 DEF InHand
<1>9. QED
  BY <1>3, <1>4, <1>5, <1>6, <1>8 DEF InHand, o

\* The last path ends: one transfer takes every output.
LEMMA HandClose ==
    ASSUME NEW s, IsSeq(s), Typed(s), Once(s),
           NEW held, NEW out, InHand(s, held, {}, out), IsSeq(out),
           NEW cmd, cmd.takes = Append(out, held), cmd.gives = <<>>
    PROVE  LET r == Append(s, cmd) IN Typed(r) /\ Once(r) /\ AllUsed(r, {})
<1> DEFINE r == Append(s, cmd)
           o == Append(out, held)
           n == Len(s)
           w == Len(out)
<1>1. /\ n \in Nat /\ DOMAIN s = 1..n /\ DOMAIN r = 1..(n + 1)
      /\ (\A i \in 1..n : r[i] = s[i]) /\ r[n + 1] = cmd
  BY SeqFacts, AppendFacts
<1>2. /\ w \in Nat /\ DOMAIN out = 1..w /\ DOMAIN o = 1..(w + 1)
      /\ (\A i \in 1..w : o[i] = out[i]) /\ o[w + 1] = held
  BY SeqFacts, AppendFacts
<1>3. r[n + 1].takes = o /\ r[n + 1].gives = <<>>
  BY <1>1
<1> HIDE DEF r, o, n, w
<1>4. Extends(r, s, n)
  BY <1>1 DEF Extends
<1>5. \A k \in DOMAIN o : Free(s, o[k])
  <2>1. \A k \in DOMAIN o : (k \in DOMAIN out /\ o[k] = out[k]) \/ o[k] = held
    BY <1>2
  <2>2. QED
    BY <2>1 DEF InHand
<1>6. \A k, l \in DOMAIN o : Same(o[k].arg, o[l].arg) => k = l
  <2>1. TAKE k, l \in DOMAIN o
  <2>2. HAVE Same(o[k].arg, o[l].arg)
  <2>3. CASE k \in DOMAIN out /\ l \in DOMAIN out
    BY <2>2, <2>3, <1>2 DEF InHand
  <2>4. CASE k \in DOMAIN out /\ l = w + 1
    BY <2>2, <2>4, <1>2 DEF InHand
  <2>5. CASE l \in DOMAIN out /\ k = w + 1
    BY <2>2, <2>5, <1>2 DEF InHand, Same
  <2>6. QED
    BY <1>2, <2>3, <2>4, <2>5
<1>7. \A i \in DOMAIN r : (i \in DOMAIN s /\ r[i] = s[i]) \/ i = n + 1
  BY <1>1
<1>8. ASSUME NEW i \in DOMAIN r, NEW k \in DOMAIN r[i].takes
      PROVE  Fits(r, r[i].takes[k]) /\ r[i].takes[k].arg.cmd + 1 < i
  <2>1. CASE i \in DOMAIN s /\ r[i] = s[i]
    BY <2>1, <1>1, <1>4, FitsLonger DEF Typed
  <2>2. CASE i = n + 1
    <3>1. r[i].takes[k] = o[k] /\ k \in DOMAIN o
      BY <2>2, <1>3
    <3>2. Fits(s, o[k]) /\ o[k].arg.cmd \in Nat /\ o[k].arg.cmd + 1 \in 1..n
      BY <3>1, <1>1, <1>5 DEF Free, Fits, Named
    <3>3. Fits(r, o[k])
      BY <3>2, <1>1, <1>4, FitsLonger
    <3>4. QED
      BY <3>1, <3>2, <3>3, <2>2, <1>1
  <2>3. QED
    BY <1>7, <2>1, <2>2
<1>9. Once(r)
  <2>1. SUFFICES ASSUME NEW i \in DOMAIN r, NEW j \in DOMAIN r,
                        NEW k \in DOMAIN r[i].takes, NEW l \in DOMAIN r[j].takes,
                        Same(r[i].takes[k].arg, r[j].takes[l].arg)
                 PROVE  i = j /\ k = l
    BY DEF Once
  <2>2. CASE i \in DOMAIN s /\ r[i] = s[i] /\ j \in DOMAIN s /\ r[j] = s[j]
    BY <2>1, <2>2 DEF Once
  <2>3. CASE i = n + 1 /\ j = n + 1
    BY <2>1, <2>3, <1>3, <1>6
  <2>4. CASE i \in DOMAIN s /\ r[i] = s[i] /\ j = n + 1
    <3>1. l \in DOMAIN o /\ r[j].takes[l] = o[l]
      BY <2>4, <1>3
    <3>2. QED
      BY <2>1, <2>4, <3>1, <1>5 DEF Free, Used
  <2>5. CASE j \in DOMAIN s /\ r[j] = s[j] /\ i = n + 1
    <3>1. k \in DOMAIN o /\ r[i].takes[k] = o[k]
      BY <2>5, <1>3
    <3>2. QED
      BY <2>1, <2>5, <3>1, <1>5 DEF Free, Used, Same
  <2>6. QED
    BY <1>7, <2>2, <2>3, <2>4, <2>5
<1>10. ASSUME NEW c \in DOMAIN r, NEW j \in DOMAIN r[c].gives
       PROVE  Used(r, Nested(c - 1, j - 1))
  <2> DEFINE a == Nested(c - 1, j - 1)
  <2>1. c \in DOMAIN s /\ r[c] = s[c]
    <3>1. DOMAIN <<>> = {}
      OBVIOUS
    <3>2. QED
      BY <3>1, <1>3, <1>7
  <2>2. Used(s, a) \/ \E t \in {held} \cup ({} \cup {out[i] : i \in DOMAIN out}) : Same(t.arg, a)
    BY <2>1 DEF InHand, AllUsed
  <2>3. CASE Used(s, a)
    BY <2>3, <1>1 DEF Used
  <2>4. CASE \E k \in DOMAIN o : Same(o[k].arg, a)
    <3>1. n + 1 \in DOMAIN r
      BY <1>1
    <3>2. QED
      BY <2>4, <3>1, <1>3 DEF Used
  <2>5. CASE \E t \in {held} \cup ({} \cup {out[i] : i \in DOMAIN out}) : Same(t.arg, a)
    <3>1. w + 1 \in DOMAIN o /\ \A i \in DOMAIN out : i \in DOMAIN o /\ o[i] = out[i]
      BY <1>2
    <3>2. QED
      BY <2>5, <3>1, <2>4, <1>2
  <2>6. QED
    BY <2>2, <2>3, <2>5
<1>11. Typed(r) /\ AllUsed(r, {})
  BY <1>8, <1>10 DEF Typed, AllUsed
<1>12. QED
  BY <1>9, <1>11 DEF r

\* The first commands: the pieces of the input are in hand.
LEMMA HandStart ==
    ASSUME NEW n \in Nat, NEW r, DOMAIN r = 1..(n + 1),
           \A i \in DOMAIN r : r[i].takes = <<>>,
           \A i \in 1..n : r[i].gives = <<>>,
           NEW m \in Nat \ {0}, NEW type, r[n + 1].gives = [i \in 1..m |-> type]
    PROVE  /\ Typed(r) /\ Once(r)
           /\ InHand(r, Take(Nested(n, 0), type), {Take(Nested(n, i - 1), type) : i \in 2..m}, <<>>)
<1> DEFINE piece(i) == Take(Nested(n, i - 1), type)
           pieces == {piece(i) : i \in 2..m}
<1>1. DOMAIN <<>> = {}
  OBVIOUS
<1>2. Typed(r) /\ Once(r) /\ \A a : ~Used(r, a)
  BY <1>1 DEF Typed, Once, Used
<1>3. \A i \in 1..m : /\ piece(i).arg.cmd = n /\ piece(i).arg.out = i - 1
                      /\ piece(i).arg.kind = "nested" /\ piece(i).type = type
  BY TakeFields DEF Nested
<1>4. piece(1) = Take(Nested(n, 0), type)
  OBVIOUS
<1> HIDE DEF piece
<1>5. n + 1 \in DOMAIN r /\ DOMAIN r[n + 1].gives = 1..m /\ \A i \in 1..m : r[n + 1].gives[i] = type
  OBVIOUS
<1>6. \A i \in 1..m : Free(r, piece(i))
  <2>1. TAKE i \in 1..m
  <2>2. PICK t : t = piece(i)
    OBVIOUS
  <2>3. /\ t.arg.cmd = n /\ t.arg.out = i - 1 /\ t.arg.kind = "nested" /\ t.type = type
    BY <1>3, <2>2
  <2>4. t.arg.cmd \in Nat /\ t.arg.out \in Nat /\ t.arg.cmd + 1 = n + 1 /\ t.arg.out + 1 = i
    BY <2>3
  <2>5. Fits(r, t)
    BY <1>5, <2>3, <2>4 DEF Fits, Named
  <2>6. QED
    BY <1>2, <2>2, <2>5 DEF Free
<1>7. 1 \in 1..m /\ \A i \in 2..m : i \in 1..m
  OBVIOUS
<1>8. \A i \in 2..m : ~Same(piece(i).arg, piece(1).arg)
  BY <1>3, <1>7 DEF Same
<1>9. AllUsed(r, {piece(1)} \cup pieces)
  <2>1. SUFFICES ASSUME NEW c \in DOMAIN r, NEW j \in DOMAIN r[c].gives
                 PROVE  \E t \in {piece(1)} \cup pieces : Same(t.arg, Nested(c - 1, j - 1))
    BY DEF AllUsed
  <2>2. c = n + 1 /\ j \in 1..m
    <3>1. c \in 1..n \/ c = n + 1
      OBVIOUS
    <3>2. QED
      BY <3>1, <1>1, <1>5
  <2>3. Same(piece(j).arg, Nested(c - 1, j - 1))
    BY <2>2, <1>3 DEF Same, Nested
  <2>4. piece(j) \in {piece(1)} \cup pieces
    <3>1. j = 1 \/ j \in 2..m
      BY <2>2
    <3>2. QED
      BY <3>1
  <2>5. QED
    BY <2>3, <2>4
<1>10. {piece(1)} \cup pieces = {piece(1)} \cup (pieces \cup {<<>>[i] : i \in DOMAIN <<>>})
  BY <1>1
<1>11. InHand(r, piece(1), pieces, <<>>)
  BY <1>1, <1>6, <1>7, <1>8, <1>9, <1>10 DEF InHand
<1>12. QED
  BY <1>2, <1>4, <1>11 DEF piece

-----------------------------------------------------------------------------
\* The inductive invariant

Route == plan[at.split].route

HeldCoin == Take(at.held, Coin(IF at.hop <= Len(Route) THEN Route[at.hop].in ELSE PathToken(Route)))

Piece(i) == Take(Nested(SplitIdx, i - 1), Coin(req.token))

\* The coins of the paths to come.
Pieces == {Piece(i) : i \in (at.split + 1)..Len(plan)}

\* A plan of the router for the token of the request.
PlanOk ==
    /\ plan \in Plans
    /\ \A i \in DOMAIN plan : plan[i].route = <<>> \/ Head(plan[i].route).in = req.token

Sound == IsSeq(cmds) /\ Typed(cmds) /\ Once(cmds) /\ Plain(cmds, Len(plan) + 3)

\* While the paths are built.
HopsInv ==
    /\ Sound
    /\ at = [split |-> at.split, hop |-> at.hop, held |-> at.held, amount |-> at.amount]
    /\ at.split \in 1..Len(plan) /\ at.hop \in 1..(Len(Route) + 1)
    /\ IsSeq(outs) /\ Len(outs) = at.split - 1
    /\ InHand(cmds, HeldCoin, Pieces, outs)

\* Once the outputs are transferred.
Closed == plan \in Plans /\ Sound /\ AllUsed(cmds, {})

BuildInv ==
    /\ pc \in {"parse", "route", "slippage", "input", "hops", "resolve", "gas", "coins", "build", "done"}
    /\ pc \in {"parse", "route", "slippage", "input"} => outs = <<>>
    /\ pc \in {"slippage", "input", "hops"} => PlanOk
    /\ pc = "hops" => HopsInv
    /\ (pc \in {"resolve", "gas", "coins", "build"} \/ status = "ok") => Closed
    /\ status # "unresolved"
    /\ pc # "done" => status = "none"

LEMMA PlanFacts ==
    ASSUME NEW p \in Plans
    PROVE  /\ Len(p) \in Nat \ {0} /\ DOMAIN p = 1..Len(p)
           /\ \A i \in 1..Len(p) :
                /\ Len(p[i].route) \in Nat /\ DOMAIN p[i].route = 1..Len(p[i].route)
                /\ p[i].route # <<>> => Len(p[i].route) >= 1 /\ Head(p[i].route) = p[i].route[1]
                /\ \A h \in 1..Len(p[i].route) : p[i].route[h].in \in {p[i].route[h].a, p[i].route[h].b}
                /\ \A h \in 1..(Len(p[i].route) - 1) : p[i].route[h + 1].in = OutToken(p[i].route[h])
<1>1. p # <<>> /\ p \in Seq(ToSet(p))
  BY PlanAssumption
<1>2. Len(p) \in Nat \ {0} /\ DOMAIN p = 1..Len(p)
  BY <1>1
<1>3. ASSUME NEW i \in 1..Len(p)
      PROVE  /\ Len(p[i].route) \in Nat /\ DOMAIN p[i].route = 1..Len(p[i].route)
             /\ p[i].route # <<>> => Len(p[i].route) >= 1 /\ Head(p[i].route) = p[i].route[1]
             /\ \A h \in 1..Len(p[i].route) : p[i].route[h].in \in {p[i].route[h].a, p[i].route[h].b}
             /\ \A h \in 1..(Len(p[i].route) - 1) : p[i].route[h + 1].in = OutToken(p[i].route[h])
  <2> DEFINE r == p[i].route
  <2>1. /\ r \in Seq(ToSet(r))
        /\ \A h \in DOMAIN r : r[h].in \in {r[h].a, r[h].b}
        /\ \A h \in 1..(Len(r) - 1) : r[h + 1].in = OutToken(r[h])
    BY <1>2, PlanAssumption
  <2> HIDE DEF r
  <2>2. /\ Len(r) \in Nat /\ DOMAIN r = 1..Len(r)
        /\ r # <<>> => Len(r) >= 1 /\ Head(r) = r[1]
    BY <2>1
  <2>3. QED
    BY <2>1, <2>2 DEF r
<1>4. QED
  BY <1>2, <1>3

\* A path starts with its piece of the input.
LEMMA StartCoin ==
    ASSUME PlanOk, NEW i \in 1..Len(plan), UNCHANGED <<req, plan>>, at' = StartPath(i)
    PROVE  /\ HeldCoin' = Piece(i) /\ Pieces' = {Piece(j) : j \in (i + 1)..Len(plan)}
           /\ at'.split = i /\ at'.hop = 1 /\ Len(Route') \in Nat
           /\ at' = [split |-> at'.split, hop |-> at'.hop, held |-> at'.held, amount |-> at'.amount]
<1>1. at'.split = i /\ at'.hop = 1 /\ at'.held = Nested(SplitIdx, i - 1)
  BY DEF StartPath
<1>2. at' = [split |-> at'.split, hop |-> at'.hop, held |-> at'.held, amount |-> at'.amount]
  BY DEF StartPath
<1>3. Route' = plan[i].route
  BY <1>1 DEF Route
<1>4. Len(plan[i].route) \in Nat /\ (plan[i].route # <<>> => Len(plan[i].route) >= 1
                                      /\ Head(plan[i].route) = plan[i].route[1])
  BY PlanFacts DEF PlanOk
<1>5. i \in DOMAIN plan
  BY PlanFacts DEF PlanOk
<1>6. (IF 1 <= Len(plan[i].route) THEN plan[i].route[1].in ELSE PathToken(plan[i].route)') = req.token
  <2>1. CASE plan[i].route = <<>>
    BY <2>1 DEF PathToken
  <2>2. CASE plan[i].route # <<>>
    BY <2>2, <1>4, <1>5 DEF PlanOk
  <2>3. QED
    BY <2>1, <2>2
<1>7. HeldCoin' = Piece(i)
  BY <1>1, <1>3, <1>6 DEF HeldCoin, Piece, PathToken
<1>8. Pieces' = {Piece(j) : j \in (i + 1)..Len(plan)}
  BY <1>1 DEF Pieces, Piece, SplitIdx
<1>9. QED
  BY <1>1, <1>2, <1>3, <1>4, <1>7, <1>8

-----------------------------------------------------------------------------
\* The actions

\* The input is split: a merge may come first.
LEMMA InputKeeps ==
    ASSUME BuildInv, SplitInput
    PROVE  BuildInv'
<1>1. pc = "input" /\ PlanOk /\ outs = <<>> /\ status = "none"
  BY DEF BuildInv, SplitInput
<1>2. UNCHANGED <<req, wallet, plan, outs, gasCoin>>
  BY DEF SplitInput
<1>3. CASE pc' = "done" /\ status' \in {"split_overflow", "coin_ids_required"}
  BY <1>2, <1>3 DEF BuildInv
<1>4. CASE pc' = "hops" /\ UNCHANGED status
  <2> DEFINE pieces == [j \in DOMAIN plan |-> Coin(req.token)]
             merges == ~req.fromSui /\ Len(req.coinIds) > 1
             merge == Cmd("merge", <<>>, <<>>, ToSet(req.coinIds), 0)
             split == Cmd("split", <<>>, pieces, IF req.fromSui THEN {} ELSE {req.coinIds[1]}, 0)
             n == IF merges THEN 1 ELSE 0
  <2>1. cmds' = (IF merges THEN <<merge>> ELSE <<>>) \o <<split>> /\ at' = StartPath(1)
    BY <1>1, <1>4 DEF SplitInput, Answer
  <2>2. Len(plan) \in Nat \ {0} /\ DOMAIN plan = 1..Len(plan)
    BY <1>1, PlanFacts DEF PlanOk
  <2>3. n = SplitIdx
    BY DEF SplitIdx
  <2>4. /\ merge.fn = "merge" /\ merge.takes = <<>> /\ merge.gives = <<>>
        /\ split.fn = "split" /\ split.takes = <<>> /\ split.gives = pieces
    BY DEF Cmd
  <2>5. pieces = [j \in 1..Len(plan) |-> Coin(req.token)]
    BY <2>2
  <2> HIDE DEF pieces, merge, split, merges
  <2>6. /\ IsSeq(cmds') /\ Len(cmds') = n + 1 /\ DOMAIN cmds' = 1..(n + 1)
        /\ cmds'[n + 1] = split /\ \A j \in 1..n : cmds'[j] = merge
    <3>1. IsSeq(<<>>) /\ Len(<<>>) = 0
      BY EmptyFacts
    <3>2. \A x : <<x>> \in Seq({x}) /\ Len(<<x>>) = 1 /\ <<x>>[1] = x
      OBVIOUS
    <3>3. IsSeq(<<merge>>) /\ IsSeq(<<split>>)
      BY <3>2, InSeq
    <3>4. CASE merges
      <4>1. cmds' = <<merge>> \o <<split>> /\ n = 1
        BY <2>1, <3>4
      <4> HIDE DEF n
      <4>2. /\ IsSeq(cmds') /\ Len(cmds') = 2 /\ DOMAIN cmds' = 1..2
            /\ cmds'[2] = split /\ cmds'[1] = merge
        BY <4>1, <3>2, <3>3, ConcatFacts
      <4>3. n + 1 = 2 /\ \A j \in 1..n : j = 1
        BY <4>1
      <4>4. QED
        BY <4>2, <4>3
    <3>5. CASE ~merges
      <4>1. cmds' = <<>> \o <<split>> /\ n = 0
        BY <2>1, <3>5
      <4> HIDE DEF n
      <4>2. /\ IsSeq(cmds') /\ Len(cmds') = 1 /\ DOMAIN cmds' = 1..1 /\ cmds'[1] = split
        BY <4>1, <3>1, <3>2, <3>3, ConcatFacts
      <4>3. QED
        BY <4>1, <4>2
    <3>6. QED
      BY <3>4, <3>5
  <2>7. n \in Nat
    OBVIOUS
  <2> HIDE DEF n
  <2>8. /\ \A j \in DOMAIN cmds' : cmds'[j].takes = <<>>
        /\ \A j \in 1..n : cmds'[j].gives = <<>>
        /\ \A j \in DOMAIN cmds' : cmds'[j].fn \in {"merge", "transfer"} => cmds'[j].gives = <<>>
        /\ \A j \in DOMAIN cmds' : DOMAIN cmds'[j].gives \subseteq Nat
    <3>0. DOMAIN <<>> = {} /\ DOMAIN pieces \subseteq Nat
      BY <2>5
    <3>1. \A j \in DOMAIN cmds' : j \in 1..n \/ j = n + 1
      BY <2>6, <2>7
    <3>2. QED
      BY <3>0, <3>1, <2>4, <2>6
  <2>9. /\ Typed(cmds') /\ Once(cmds')
        /\ InHand(cmds', Take(Nested(n, 0), Coin(req.token)),
                  {Take(Nested(n, j - 1), Coin(req.token)) : j \in 2..Len(plan)}, <<>>)
    BY <2>2, <2>4, <2>5, <2>6, <2>7, <2>8, HandStart
  <2>10. /\ HeldCoin' = Piece(1) /\ Pieces' = {Piece(j) : j \in (1 + 1)..Len(plan)}
         /\ at'.split = 1 /\ at'.hop = 1 /\ Len(Route') \in Nat
         /\ at' = [split |-> at'.split, hop |-> at'.hop, held |-> at'.held, amount |-> at'.amount]
    BY <1>1, <1>2, <2>1, <2>2, StartCoin
  <2>11. InHand(cmds', HeldCoin', Pieces', outs')
    <3>1. HeldCoin' = Take(Nested(n, 0), Coin(req.token))
      BY <2>3, <2>10 DEF Piece
    <3>2. Pieces' = {Take(Nested(n, j - 1), Coin(req.token)) : j \in 2..Len(plan)}
      BY <2>3, <2>10 DEF Piece
    <3>3. QED
      BY <3>1, <3>2, <2>9, <1>1, <1>2
  <2>12. Sound'
    <3>1. DOMAIN <<>> = {}
      OBVIOUS
    <3>2. Plain(cmds', Len(plan') + 3)
      BY <3>1, <2>8 DEF Plain
    <3>3. QED
      BY <3>2, <2>6, <2>9 DEF Sound
  <2>13. IsSeq(outs') /\ Len(outs') = 0
    BY <1>1, <1>2, EmptyFacts
  <2>14. HopsInv'
    BY <1>2, <2>2, <2>10, <2>11, <2>12, <2>13 DEF HopsInv
  <2>15. PlanOk'
    BY <1>1, <1>2 DEF PlanOk
  <2>16. QED
    BY <1>1, <1>4, <2>14, <2>15 DEF BuildInv
<1>5. QED
  BY <1>3, <1>4 DEF SplitInput, Answer

\* A hop is built, of either kind.
LEMMA HopKeeps ==
    ASSUME BuildInv, BuildHop
    PROVE  BuildInv'
<1> DEFINE split == plan[at.split]
           hop == split.route[at.hop]
           n == Len(cmds)
<1>1. /\ pc = "hops" /\ PlanOk /\ HopsInv /\ status = "none"
      /\ at.hop <= Len(split.route)
  BY DEF BuildInv, BuildHop
<1>2. UNCHANGED <<req, wallet, plan, outs, gasCoin>>
  BY DEF BuildHop
<1>3. /\ n \in Nat /\ DOMAIN cmds = 1..n /\ IsSeq(cmds) /\ Typed(cmds) /\ Once(cmds)
      /\ Plain(cmds, Len(plan) + 3) /\ InHand(cmds, HeldCoin, Pieces, outs)
  BY <1>1, SeqFacts DEF HopsInv, Sound
<1>4. /\ Len(plan) \in Nat /\ at.split \in 1..Len(plan) /\ Len(Route) \in Nat
      /\ DOMAIN Route = 1..Len(Route)
      /\ at.hop \in 1..Len(Route) /\ hop.in \in {hop.a, hop.b} /\ hop = Route[at.hop]
      /\ Route = split.route
      /\ at.hop + 1 <= Len(Route) => Route[at.hop + 1].in = OutToken(hop)
  <2>1. Len(plan) \in Nat /\ at.split \in 1..Len(plan) /\ Route = split.route
        /\ at.hop \in 1..(Len(Route) + 1)
    BY <1>1, PlanFacts DEF HopsInv, PlanOk, Route
  <2>2. /\ Len(Route) \in Nat /\ DOMAIN Route = 1..Len(Route)
        /\ \A h \in 1..Len(Route) : Route[h].in \in {Route[h].a, Route[h].b}
        /\ \A h \in 1..(Len(Route) - 1) : Route[h + 1].in = OutToken(Route[h])
    BY <1>1, <2>1, PlanFacts DEF PlanOk
  <2>3. at.hop \in 1..Len(Route) /\ (at.hop + 1 <= Len(Route) => at.hop \in 1..(Len(Route) - 1))
    BY <1>1, <2>1, <2>2
  <2>4. QED
    BY <2>1, <2>2, <2>3
<1>5. HeldCoin = Take(at.held, Coin(hop.in))
  BY <1>1, <1>4 DEF HeldCoin
<1>6. at.held.cmd \in Nat /\ at.held.cmd < n
  <2>1. Free(cmds, HeldCoin) /\ HeldCoin.arg = at.held
    BY <1>3, TakeFields DEF InHand, HeldCoin
  <2>2. QED
    BY <1>3, <2>1 DEF Free, Fits, Named
<1>7. CASE pc' = "done" /\ status' \in {"unsupported", "panic"}
  BY <1>2, <1>7 DEF BuildInv
<1>8. ASSUME NEW new, NEW coin, NEW est, NEW m \in Nat, IsSeq(new), Len(new) = m,
             cmds' = cmds \o new, at' = [at EXCEPT !.hop = @ + 1, !.held = coin, !.amount = est],
             UNCHANGED <<pc, status>>,
             Grows(cmds', n, Take(at.held, Coin(hop.in)), Take(coin, Coin(OutToken(hop))))
      PROVE  BuildInv'
  <2> DEFINE out == Take(coin, Coin(OutToken(hop)))
  <2>1. /\ IsSeq(cmds') /\ DOMAIN cmds' = 1..(n + m) /\ n + m \in Nat
        /\ \A j \in 1..n : cmds'[j] = cmds[j]
    BY <1>3, <1>8, ConcatFacts
  <2>2. Extends(cmds', cmds, n)
    BY <1>3, <2>1 DEF Extends
  <2>3. Grows(cmds', n, HeldCoin, out)
    BY <1>5, <1>8
  <2> HIDE DEF n, out
  <2>4. Typed(cmds') /\ Once(cmds') /\ InHand(cmds', out, Pieces, outs)
    BY <1>3, <2>1, <2>2, <2>3, HandExtend
  <2>5. /\ at'.split = at.split /\ at'.hop = at.hop + 1 /\ at'.held = coin
        /\ at' = [split |-> at'.split, hop |-> at'.hop, held |-> at'.held, amount |-> at'.amount]
    BY <1>1, <1>8 DEF HopsInv
  <2>6. Route' = Route /\ Pieces' = Pieces
    BY <1>2, <2>5 DEF Route, Pieces, Piece, SplitIdx
  <2>7. HeldCoin' = out
    <3>1. CASE at.hop + 1 <= Len(Route)
      BY <3>1, <1>4, <2>5, <2>6 DEF HeldCoin, out
    <3>2. CASE ~(at.hop + 1 <= Len(Route))
      <4>1. at.hop = Len(Route) /\ Route # <<>>
        BY <3>2, <1>4
      <4>2. PathToken(Route)' = OutToken(hop)
        BY <4>1, <2>6, <1>4 DEF PathToken, Last
      <4>3. QED
        BY <3>2, <4>2, <2>5, <2>6 DEF HeldCoin, out
    <3>3. QED
      BY <3>1, <3>2
  <2>8. Plain(cmds', Len(plan') + 3)
    <3>1. \A j \in DOMAIN cmds' : (j \in DOMAIN cmds /\ cmds'[j] = cmds[j]) \/ j > n
      BY <1>3, <2>1, <1>8
    <3>2. 1..3 \subseteq 1..(Len(plan) + 3)
      BY <1>4
    <3>3. ASSUME NEW j \in DOMAIN cmds'
          PROVE  /\ cmds'[j].fn \in {"merge", "transfer"} => cmds'[j].gives = <<>>
                 /\ DOMAIN cmds'[j].takes \subseteq 1..(Len(plan) + 3)
                 /\ DOMAIN cmds'[j].gives \subseteq Nat
      <4>1. CASE j \in DOMAIN cmds /\ cmds'[j] = cmds[j]
        BY <4>1, <1>3 DEF Plain
      <4>2. CASE j > n
        BY <4>2, <2>3, <3>2 DEF Grows
      <4>3. QED
        BY <3>1, <4>1, <4>2
    <3>4. QED
      BY <3>3, <1>2 DEF Plain
  <2>9. Sound'
    BY <2>1, <2>4, <2>8 DEF Sound
  <2>10. HopsInv'
    <3>1. at'.split \in 1..Len(plan') /\ at'.hop \in 1..(Len(Route') + 1)
      BY <1>2, <1>4, <2>5, <2>6
    <3>2. IsSeq(outs') /\ Len(outs') = at'.split - 1
      BY <1>1, <1>2, <2>5 DEF HopsInv
    <3>3. InHand(cmds', HeldCoin', Pieces', outs')
      BY <1>2, <2>4, <2>6, <2>7
    <3>4. QED
      BY <2>5, <2>9, <3>1, <3>2, <3>3 DEF HopsInv
  <2>11. PlanOk'
    BY <1>1, <1>2 DEF PlanOk
  <2>12. QED
    BY <1>1, <1>8, <2>10, <2>11 DEF BuildInv
<1>9. ASSUME NEW est, cmds' = cmds \o FlashHop(hop, at.held, n),
             at' = [at EXCEPT !.hop = @ + 1, !.held = Result(n + 5), !.amount = est],
             UNCHANGED <<pc, status>>
      PROVE  BuildInv'
  <2> HIDE DEF n, hop
  <2>0. PICK new : new = FlashHop(hop, at.held, n)
    OBVIOUS
  <2>1. PICK coin : coin = Result(n + 5)
    OBVIOUS
  <2>2. IsSeq(new) /\ Len(new) = 6
    BY <2>0, FlashSeq
  <2>3. cmds' = cmds \o new
    BY <1>9, <2>0
  <2>4. DOMAIN cmds' = 1..(n + 6) /\ \A j \in 1..6 : cmds'[n + j] = new[j]
    <3>1. IsSeq(cmds) /\ IsSeq(new)
      BY <1>3, <2>2
    <3>2. DOMAIN (cmds \o new) = 1..(Len(cmds) + Len(new))
      BY <3>1, ConcatFacts
    <3>3. \A j \in 1..Len(new) : (cmds \o new)[Len(cmds) + j] = new[j]
      BY <3>1, ConcatFacts
    <3>4. QED
      BY <2>2, <2>3, <3>2, <3>3 DEF n
  <2>5. \A j \in 1..6 : cmds'[n + j] = FlashHop(hop, at.held, n)[j]
    BY <2>0, <2>4
  <2>6. \E d \in {0, 1} : \E x, w, v, y, z :
           Flash(cmds', n, Take(at.held, Coin(hop.in)), Take(coin, Coin(OutToken(hop))), d, x, w, v, y, z)
    <3>1. n \in Nat /\ hop.in \in {hop.a, hop.b}
      BY <1>3, <1>4
    <3>2. PICK h : h = hop
      OBVIOUS
    <3>3. PICK held : held = at.held
      OBVIOUS
    <3>4. PICK m : m = n
      OBVIOUS
    <3>5. PICK r : r = cmds'
      OBVIOUS
    <3>6. m \in Nat /\ h.in \in {h.a, h.b} /\ \A j \in 1..6 : r[m + j] = FlashHop(h, held, m)[j]
      BY <2>5, <3>1, <3>2, <3>3, <3>4, <3>5
    <3>7. \E d \in {0, 1} : \E x, w, v, y, z :
             Flash(r, m, Take(held, Coin(h.in)), Take(Result(m + 5), Coin(OutToken(h))), d, x, w, v, y, z)
      BY <3>6, FlashAt
    <3>8. QED
      BY <2>1, <3>2, <3>3, <3>4, <3>5, <3>7
  <2>7. Take(at.held, Coin(hop.in)).arg = at.held
    BY TakeFields
  <2>9. Grows(cmds', n, Take(at.held, Coin(hop.in)), Take(coin, Coin(OutToken(hop))))
    BY <1>3, <1>6, <2>4, <2>6, <2>7, FlashGrows
  <2>10. at' = [at EXCEPT !.hop = @ + 1, !.held = coin, !.amount = est]
    BY <1>9, <2>1
  <2>11. 6 \in Nat
    OBVIOUS
  <2>12. QED
    BY <1>8, <1>9, <2>2, <2>3, <2>9, <2>10, <2>11
<1>10. ASSUME NEW est, NEW min, cmds' = cmds \o TurbosHop(hop, at.held, n, min),
              at' = [at EXCEPT !.hop = @ + 1, !.held = Nested(n + 1, 0), !.amount = est],
              UNCHANGED <<pc, status>>
       PROVE  BuildInv'
  <2> HIDE DEF n, hop
  <2>0. PICK new : new = TurbosHop(hop, at.held, n, min)
    OBVIOUS
  <2>1. PICK coin : coin = Nested(n + 1, 0)
    OBVIOUS
  <2>2. IsSeq(new) /\ Len(new) = 3
    BY <2>0, TurbosSeq
  <2>3. cmds' = cmds \o new
    BY <1>10, <2>0
  <2>4. DOMAIN cmds' = 1..(n + 3) /\ \A j \in 1..3 : cmds'[n + j] = new[j]
    <3>1. IsSeq(cmds) /\ IsSeq(new)
      BY <1>3, <2>2
    <3>2. DOMAIN (cmds \o new) = 1..(Len(cmds) + Len(new))
      BY <3>1, ConcatFacts
    <3>3. \A j \in 1..Len(new) : (cmds \o new)[Len(cmds) + j] = new[j]
      BY <3>1, ConcatFacts
    <3>4. QED
      BY <2>2, <2>3, <3>2, <3>3 DEF n
  <2>5. Grows(cmds', n, Take(at.held, Coin(hop.in)), Take(coin, Coin(OutToken(hop))))
    BY <1>3, <1>6, <2>0, <2>1, <2>4, TurbosGrows
  <2>6. at' = [at EXCEPT !.hop = @ + 1, !.held = coin, !.amount = est]
    BY <1>10, <2>1
  <2>7. 3 \in Nat
    OBVIOUS
  <2>8. QED
    BY <1>8, <1>10, <2>2, <2>3, <2>5, <2>6, <2>7
<1>11. QED
  BY <1>7, <1>9, <1>10 DEF BuildHop, Answer

\* A path ends: its coin joins the outputs, and the next path or the transfer
\* follows.
LEMMA EndKeeps ==
    ASSUME BuildInv, EndPath
    PROVE  BuildInv'
<1>1. /\ pc = "hops" /\ PlanOk /\ HopsInv /\ status = "none"
      /\ at.hop > Len(plan[at.split].route)
  BY DEF BuildInv, EndPath
<1>2. UNCHANGED <<req, wallet, plan, gasCoin, status>>
  BY DEF EndPath
<1>3. /\ IsSeq(cmds) /\ Typed(cmds) /\ Once(cmds) /\ Plain(cmds, Len(plan) + 3)
      /\ InHand(cmds, HeldCoin, Pieces, outs) /\ IsSeq(outs) /\ Len(outs) = at.split - 1
  BY <1>1 DEF HopsInv, Sound
<1>4. /\ Len(plan) \in Nat /\ at.split \in 1..Len(plan) /\ Len(Route) \in Nat
      /\ Route = plan[at.split].route /\ at.hop \in 1..(Len(Route) + 1)
  BY <1>1, PlanFacts DEF HopsInv, PlanOk, Route
<1>5. HeldCoin = Take(at.held, Coin(PathToken(plan[at.split].route)))
  BY <1>1, <1>4 DEF HeldCoin
<1>6. outs' = Append(outs, HeldCoin)
  BY <1>5 DEF EndPath
<1>7. PlanOk'
  BY <1>1, <1>2 DEF PlanOk
<1>8. /\ IsSeq(outs') /\ Len(outs') = at.split /\ DOMAIN outs' = 1..at.split
  BY <1>3, <1>4, <1>6, AppendFacts
<1>9. CASE at.split < Len(plan)
  <2>1. at' = StartPath(at.split + 1) /\ UNCHANGED <<pc, cmds>>
    BY <1>9 DEF EndPath
  <2>2. PICK i : i = at.split + 1
    OBVIOUS
  <2>3. i \in 1..Len(plan) /\ at' = StartPath(i)
    BY <1>4, <1>9, <2>1, <2>2
  <2>4. /\ HeldCoin' = Piece(i) /\ Pieces' = {Piece(j) : j \in (i + 1)..Len(plan)}
        /\ at'.split = i /\ at'.hop = 1 /\ Len(Route') \in Nat
        /\ at' = [split |-> at'.split, hop |-> at'.hop, held |-> at'.held, amount |-> at'.amount]
    BY <1>1, <1>2, <2>3, StartCoin
  <2>5. Pieces = {Piece(i)} \cup Pieces'
    <3>1. (at.split + 1)..Len(plan) = {i} \cup ((i + 1)..Len(plan))
      BY <1>4, <2>2, <2>3
    <3>2. QED
      BY <2>4, <3>1 DEF Pieces
  <2>6. \A u \in Pieces' : ~Same(u.arg, Piece(i).arg)
    <3>1. \A j \in Int : Piece(j).arg.out = j - 1
      BY TakeFields DEF Piece, Nested
    <3>2. QED
      BY <2>3, <2>4, <3>1 DEF Same
  <2>7. InHand(cmds, Piece(i), Pieces', Append(outs, HeldCoin))
    BY <1>3, <2>5, <2>6, HandNext
  <2>8. InHand(cmds', HeldCoin', Pieces', outs')
    BY <1>6, <2>1, <2>4, <2>7
  <2>9. Sound'
    BY <1>2, <1>3, <2>1 DEF Sound
  <2>10. HopsInv'
    BY <1>2, <1>8, <2>2, <2>3, <2>4, <2>8, <2>9 DEF HopsInv
  <2>11. QED
    BY <1>1, <1>2, <1>7, <2>1, <2>10 DEF BuildInv
<1>10. CASE ~(at.split < Len(plan))
  <2>1. PICK cmd : cmd = Cmd("transfer", outs', <<>>, {}, 0)
    OBVIOUS
  <2>2. cmds' = Append(cmds, cmd) /\ pc' = "resolve"
    BY <1>10, <2>1 DEF EndPath
  <2>3. cmd.fn = "transfer" /\ cmd.takes = outs' /\ cmd.gives = <<>>
    BY <2>1 DEF Cmd
  <2>4. Pieces = {}
    BY <1>4, <1>10 DEF Pieces
  <2>5. InHand(cmds, HeldCoin, {}, outs)
    BY <1>3, <2>4
  <2>6. Typed(cmds') /\ Once(cmds') /\ AllUsed(cmds', {})
    BY <1>3, <1>6, <2>2, <2>3, <2>5, HandClose
  <2>7. /\ IsSeq(cmds') /\ DOMAIN cmds' = 1..(Len(cmds) + 1) /\ Len(cmds) \in Nat
        /\ DOMAIN cmds = 1..Len(cmds)
        /\ (\A j \in 1..Len(cmds) : cmds'[j] = cmds[j]) /\ cmds'[Len(cmds) + 1] = cmd
    BY <1>3, <2>2, AppendFacts, SeqFacts
  <2>8. Plain(cmds', Len(plan') + 3)
    <3>1. \A j \in DOMAIN cmds' : (j \in DOMAIN cmds /\ cmds'[j] = cmds[j]) \/ cmds'[j] = cmd
      BY <2>7
    <3>2. DOMAIN outs' \subseteq 1..(Len(plan) + 3)
      BY <1>4, <1>8
    <3>3. ASSUME NEW j \in DOMAIN cmds'
          PROVE  /\ cmds'[j].fn \in {"merge", "transfer"} => cmds'[j].gives = <<>>
                 /\ DOMAIN cmds'[j].takes \subseteq 1..(Len(plan) + 3)
                 /\ DOMAIN cmds'[j].gives \subseteq Nat
      <4>1. CASE j \in DOMAIN cmds /\ cmds'[j] = cmds[j]
        BY <4>1, <1>3 DEF Plain
      <4>2. CASE cmds'[j] = cmd
        <5>1. DOMAIN <<>> = {}
          OBVIOUS
        <5>2. QED
          BY <4>2, <5>1, <2>3, <3>2
      <4>3. QED
        BY <3>1, <4>1, <4>2
    <3>4. QED
      BY <3>3, <1>2 DEF Plain
  <2>9. Closed'
    BY <1>1, <1>2, <2>6, <2>7, <2>8 DEF Closed, Sound, PlanOk
  <2>10. QED
    BY <1>1, <1>2, <2>2, <2>9 DEF BuildInv
<1>11. QED
  BY <1>9, <1>10

\* The canonical builder resolves every argument and every object.
LEMMA AllResolve ==
    ASSUME Closed
    PROVE  Resolves
<1>1. SUFFICES ASSUME NEW i \in DOMAIN cmds
               PROVE  /\ \A k \in DOMAIN cmds[i].takes :
                           LET a == cmds[i].takes[k].arg
                           IN a.cmd < i - 1 /\ cmds[a.cmd + 1].fn \notin {"merge", "transfer"}
                      /\ cmds[i].objs \subseteq ObjectIds \cup ToSet(req.coinIds)
  BY DEF Resolves
<1>2. i \in Nat
  BY SeqFacts DEF Closed, Sound
<1>3. ASSUME NEW k \in DOMAIN cmds[i].takes
      PROVE  LET a == cmds[i].takes[k].arg
             IN a.cmd < i - 1 /\ cmds[a.cmd + 1].fn \notin {"merge", "transfer"}
  <2> DEFINE a == cmds[i].takes[k].arg
  <2>1. Named(cmds, a) /\ a.cmd + 1 < i
    BY DEF Closed, Sound, Typed, Fits
  <2>2. /\ a.cmd \in Nat /\ a.cmd + 1 \in DOMAIN cmds
        /\ a.out + 1 \in DOMAIN cmds[a.cmd + 1].gives
    BY <2>1 DEF Named
  <2>3. cmds[a.cmd + 1].gives # <<>>
    <3>1. DOMAIN <<>> = {}
      OBVIOUS
    <3>2. QED
      BY <2>2, <3>1
  <2>4. cmds[a.cmd + 1].fn \notin {"merge", "transfer"}
    BY <2>2, <2>3 DEF Closed, Sound, Plain
  <2>5. QED
    BY <1>2, <2>1, <2>2, <2>4
<1>4. cmds[i].objs \subseteq ObjectIds
  BY DEF ObjectIds, ToSet
<1>5. QED
  BY <1>3, <1>4

LEMMA BuildInit_Inv == BuildInit => BuildInv
BY DEF BuildInit, BuildInv

LEMMA BuildNext_Inv ==
    ASSUME BuildInv, [BuildNext]_vars
    PROVE  BuildInv'
<1>1. CASE UNCHANGED vars
  <2>1. UNCHANGED <<req, pc, plan, cmds, at, outs, status>>
    BY <1>1 DEF vars
  <2>2. /\ Sound' = Sound /\ PlanOk' = PlanOk /\ Route' = Route
        /\ HeldCoin' = HeldCoin /\ Pieces' = Pieces
    BY <2>1 DEF Sound, PlanOk, Route, HeldCoin, Pieces, Piece, SplitIdx, PathToken
  <2>3. HopsInv' = HopsInv /\ Closed' = Closed
    BY <2>1, <2>2 DEF HopsInv, Closed
  <2>4. QED
    BY <2>1, <2>2, <2>3 DEF BuildInv
<1>2. CASE ParseAmount
  BY <1>2 DEF ParseAmount, Answer, BuildInv
<1>3. CASE FindRoutes
  BY <1>3 DEF FindRoutes, Answer, BuildInv, PlanOk
<1>4. CASE CheckSlippage
  BY <1>4 DEF CheckSlippage, Answer, BuildInv, PlanOk
<1>5. CASE SplitInput
  BY <1>5, InputKeeps
<1>6. CASE BuildHop
  BY <1>6, HopKeeps
<1>7. CASE EndPath
  BY <1>7, EndKeeps
<1>8. ASSUME UNCHANGED <<plan, cmds>>, pc \in {"resolve", "gas", "coins", "build"},
             \/ pc' \in {"gas", "coins", "build"} /\ UNCHANGED status
             \/ pc' = "done" /\ status' # "unresolved"
      PROVE  BuildInv'
  <2>1. Closed' = Closed
    BY <1>8 DEF Closed, Sound
  <2>2. QED
    BY <1>8, <2>1 DEF BuildInv
<1>9. CASE ResolveObjects
  BY <1>8, <1>9 DEF ResolveObjects, Answer
<1>10. CASE ChooseGas
  BY <1>8, <1>10 DEF ChooseGas, Answer
<1>11. CASE CheckInputs
  BY <1>8, <1>11 DEF CheckInputs, Answer
<1>12. CASE BuildCanonical
  <2>1. Resolves
    BY <1>12, AllResolve DEF BuildCanonical, BuildInv
  <2>2. QED
    BY <1>8, <1>12, <2>1 DEF BuildCanonical, Answer
<1>13. QED
  BY <1>1, <1>2, <1>3, <1>4, <1>5, <1>6, <1>7, <1>9, <1>10, <1>11, <1>12 DEF BuildNext

\* In a finished list every result has exactly one use.
LEMMA OneUse ==
    ASSUME Closed, NEW c \in DOMAIN cmds, NEW j \in DOMAIN cmds[c].gives
    PROVE  \E u \in UsesOf(c, j) :
             /\ UsesOf(c, j) = {u} /\ u[1] > c
             /\ cmds[u[1]].takes[u[2]].type = cmds[c].gives[j]
<1>1. /\ Typed(cmds) /\ Once(cmds) /\ Plain(cmds, Len(plan) + 3) /\ AllUsed(cmds, {})
      /\ DOMAIN cmds = 1..Len(cmds) /\ Len(cmds) \in Nat
  BY SeqFacts DEF Closed, Sound
<1>2. c \in Nat /\ j \in Nat
  BY <1>1 DEF Plain
<1>3. PICK i \in DOMAIN cmds : \E k \in DOMAIN cmds[i].takes :
        Same(cmds[i].takes[k].arg, Nested(c - 1, j - 1))
  BY <1>1 DEF AllUsed, Used
<1>4. PICK k \in DOMAIN cmds[i].takes : Same(cmds[i].takes[k].arg, Nested(c - 1, j - 1))
  BY <1>3
<1>5. cmds[i].takes[k].arg.cmd = c - 1 /\ cmds[i].takes[k].arg.out = j - 1
  BY <1>4 DEF Same, Nested
<1>6. Fits(cmds, cmds[i].takes[k]) /\ cmds[i].takes[k].arg.cmd + 1 < i
  BY <1>1 DEF Typed
<1>7. (c - 1) + 1 = c /\ (j - 1) + 1 = j /\ i > c
  BY <1>1, <1>2, <1>5, <1>6
<1>8. /\ cmds[i].takes[k].arg.kind = "nested" \/ Len(cmds[c].gives) = 1
      /\ cmds[i].takes[k].type = cmds[c].gives[j]
  BY <1>5, <1>6, <1>7 DEF Fits, Named
<1>9. k \in 1..(Len(plan) + 3)
  BY <1>1 DEF Plain
<1>10. <<i, k>> \in UsesOf(c, j)
  BY <1>5, <1>8, <1>9 DEF UsesOf
<1>11. ASSUME NEW u \in UsesOf(c, j)
       PROVE  u = <<i, k>>
  <2>1. /\ u = <<u[1], u[2]>> /\ u[1] \in DOMAIN cmds /\ u[2] \in DOMAIN cmds[u[1]].takes
        /\ cmds[u[1]].takes[u[2]].arg.cmd = c - 1 /\ cmds[u[1]].takes[u[2]].arg.out = j - 1
    BY DEF UsesOf
  <2>2. Same(cmds[u[1]].takes[u[2]].arg, cmds[i].takes[k].arg)
    BY <2>1, <1>5 DEF Same
  <2>3. u[1] = i /\ u[2] = k
    BY <2>1, <2>2, <1>1 DEF Once
  <2>4. QED
    BY <2>1, <2>3
<1>12. UsesOf(c, j) = {<<i, k>>}
  BY <1>10, <1>11
<1>13. QED
  BY <1>7, <1>8, <1>10, <1>12

\* Whatever the request, the plan, the wallet and the simulated amounts are: in
\* a transaction of POST /api/build_tx every coin, balance and receipt that a
\* command yields is consumed exactly once, later, as the type it has, and the
\* canonical builder never meets an argument it cannot resolve
\* (ResultsConsumedOnce).
THEOREM EveryResultIsConsumed == Spec => []ResultsConsumedOnce
<1>1. BuildInit => BuildInv
  BY BuildInit_Inv
<1>2. BuildInv /\ [BuildNext]_vars => BuildInv'
  BY BuildNext_Inv
<1>3. BuildInv => ResultsConsumedOnce
  <2>1. SUFFICES ASSUME BuildInv, status = "ok", NEW c \in DOMAIN cmds, NEW j \in DOMAIN cmds[c].gives
                 PROVE  \E u \in UsesOf(c, j) :
                          /\ UsesOf(c, j) = {u} /\ u[1] > c
                          /\ cmds[u[1]].takes[u[2]].type = cmds[c].gives[j]
    BY DEF ResultsConsumedOnce, BuildInv
  <2>2. Closed
    BY <2>1 DEF BuildInv
  <2>3. QED
    BY <2>2, OneUse
<1>4. QED
  BY <1>1, <1>2, <1>3, PTL DEF Spec

-----------------------------------------------------------------------------
\* The input is there

\* A plan that spends the amount of the request.
Planned(p) == p \in Plans /\ Splits(p, req.amount)

\* What the checks of finalize_canonical_build have found so far.
FundsInv ==
    /\ req \in Requests /\ wallet \in Wallets
    /\ pc # "done" => status = "none"
    /\ pc = "coins" => ~req.fromSui
    /\ pc \in {"parse", "route", "done"} \/ Planned(plan)
    /\ status = "ok" => Planned(plan)
    /\ (pc \in {"coins", "build"} \/ status = "ok") =>
         gasCoin \in DOMAIN wallet /\ wallet[gasCoin].token = Sui /\ wallet[gasCoin].balance >= GasNeeded
    /\ ((pc = "build" \/ status = "ok") /\ ~req.fromSui) =>
         /\ \A i \in DOMAIN req.coinIds : req.coinIds[i] \in DOMAIN wallet
         /\ Held(req.coinIds) >= AmountIn

LEMMA FundsNext ==
    ASSUME FundsInv, [BuildNext]_vars
    PROVE  FundsInv'
<1>1. ASSUME UNCHANGED <<req, wallet, plan, gasCoin>> 
      PROVE  /\ req' \in Requests /\ wallet' \in Wallets
             /\ GasNeeded' = GasNeeded /\ AmountIn' = AmountIn
             /\ Held(req.coinIds)' = Held(req.coinIds)
             /\ Planned(plan)' = Planned(plan)
  BY <1>1 DEF FundsInv, GasNeeded, AmountIn, Held, Planned, Splits, Spent
<1>2. ASSUME pc \in {"parse", "route", "slippage", "input", "hops", "resolve"},
             UNCHANGED <<req, wallet>>,
             \/ pc' \in {"route", "slippage", "input", "hops", "resolve", "gas"} /\ UNCHANGED status
             \/ pc' = "done" /\ status' # "ok",
             UNCHANGED plan \/ (pc = "route" /\ Planned(plan)'),
             (pc \in {"parse", "route"} /\ UNCHANGED plan) => (pc' \in {"route", "done"} \/ Planned(plan)')
      PROVE  FundsInv'
  <2>1. pc' \in {"route", "done"} \/ Planned(plan)'
    BY <1>2 DEF FundsInv, Planned, Splits, Spent
  <2> QED BY <1>2, <2>1 DEF FundsInv
<1>3. CASE UNCHANGED vars
  BY <1>1, <1>3 DEF FundsInv, vars
<1>4. CASE ParseAmount
  BY <1>2, <1>4 DEF ParseAmount, Answer
<1>5. CASE FindRoutes
  <2>1. pc = "route" /\ UNCHANGED <<req, wallet>>
    BY <1>5 DEF FindRoutes
  <2>2. CASE pc' = "done" /\ status' # "ok" /\ UNCHANGED plan
    BY <1>2, <2>1, <2>2
  <2>3. CASE plan' \in Plans /\ Splits(plan', req.amount) /\ pc' = "slippage" /\ UNCHANGED status
    <3>1. Planned(plan)'
      BY <2>1, <2>3 DEF Planned, Splits, Spent
    <3> QED BY <1>2, <2>1, <2>3, <3>1
  <2> QED BY <1>5, <2>2, <2>3 DEF FindRoutes, Answer
<1>6. CASE CheckSlippage
  BY <1>2, <1>6 DEF CheckSlippage, Answer
<1>7. CASE SplitInput
  BY <1>2, <1>7 DEF SplitInput, Answer
<1>8. CASE BuildHop
  BY <1>2, <1>8 DEF BuildHop, Answer
<1>9. CASE EndPath
  BY <1>2, <1>9 DEF EndPath
<1>10. CASE ResolveObjects
  BY <1>2, <1>10 DEF ResolveObjects, Answer
<1>11. CASE ChooseGas
  <2>1. UNCHANGED <<req, wallet, plan>> /\ pc = "gas" /\ status = "none"
    BY <1>11 DEF ChooseGas, FundsInv
  <2>2. /\ GasNeeded' = GasNeeded /\ AmountIn' = AmountIn
        /\ req' \in Requests /\ wallet' \in Wallets /\ Planned(plan)'
    BY <2>1 DEF GasNeeded, AmountIn, FundsInv, Planned, Splits, Spent
  <2>3. CASE pc' = "done" /\ status' \in {"no_gas_coin", "insufficient_gas"}
    BY <2>1, <2>2, <2>3 DEF FundsInv
  <2>4. CASE \E c \in DOMAIN wallet :
               /\ wallet[c].token = Sui /\ wallet[c].balance >= GasNeeded
               /\ gasCoin' = c /\ pc' = (IF req.fromSui THEN "build" ELSE "coins") /\ UNCHANGED status
    BY <2>1, <2>2, <2>4 DEF FundsInv
  <2> QED BY <1>11, <2>3, <2>4 DEF ChooseGas, Answer
<1>12. CASE CheckInputs
  <2>1. UNCHANGED <<req, wallet, plan, gasCoin>> /\ pc = "coins" /\ status = "none"
    BY <1>12 DEF CheckInputs, FundsInv
  <2>2. CASE pc' = "done" /\ status' # "ok"
    BY <1>1, <2>1, <2>2 DEF FundsInv
  <2>3. CASE /\ \A i \in DOMAIN req.coinIds : req.coinIds[i] \in DOMAIN wallet
             /\ Held(req.coinIds) >= AmountIn /\ pc' = "build" /\ UNCHANGED status
    BY <1>1, <2>1, <2>3 DEF FundsInv
  <2> QED BY <1>12, <2>2, <2>3 DEF CheckInputs, Answer
<1>13. CASE BuildCanonical
  <2>1. UNCHANGED <<req, wallet, plan, gasCoin>> /\ pc = "build" /\ status = "none" /\ pc' = "done"
    BY <1>13 DEF BuildCanonical, FundsInv, Answer
  <2> QED BY <1>1, <2>1 DEF FundsInv
<1> QED BY <1>3, <1>4, <1>5, <1>6, <1>7, <1>8, <1>9, <1>10, <1>11, <1>12, <1>13 DEF BuildNext

\* Distinct coins hold together what their list does.
LEMMA DistinctHeld ==
    ASSUME FundsInv, ~req.fromSui, pc = "build" \/ status = "ok",
           Cardinality(ToSet(req.coinIds)) = Len(req.coinIds)
    PROVE  Held(SetToSeq(ToSet(req.coinIds))) = Held(req.coinIds)
<1> DEFINE ids == req.coinIds
           K == ToSet(ids)
           n == Len(ids)
           t == SetToSeq(K)
           b == [c \in K |-> wallet[c].balance]
<1>1. /\ ids \in Seq(K) /\ n \in Nat /\ DOMAIN ids = 1..n /\ ids \in [1..n -> K]
      /\ \A c \in K : \E i \in 1..n : ids[i] = c
  <2>1. ids \in Seq(K)
    BY RequestAssumption DEF FundsInv
  <2>2. K = {ids[i] : i \in DOMAIN ids}
    BY DEF ToSet
  <2> HIDE DEF K, ids
  <2>3. n \in Nat /\ DOMAIN ids = 1..n /\ ids \in [1..n -> K]
    BY <2>1
  <2> QED BY <2>1, <2>2, <2>3
<1>2. \A c \in K : c \in DOMAIN wallet
  BY DEF FundsInv, ToSet
<1>3. b \in [K -> Int] /\ \A c \in K : b[c] = wallet[c].balance
  BY <1>2, RequestAssumption DEF FundsInv
<1>4. Cardinality(K) = n
  OBVIOUS
<1> HIDE DEF K, n, ids, b
<1>5. IsFiniteSet(1..n) /\ Cardinality(1..n) = n
  BY <1>1, FS_Interval
<1>6. ids \in Surjection(1..n, K)
  BY <1>1 DEF Surjection
<1>7. IsFiniteSet(K) /\ ids \in Injection(1..n, K)
  <2>1. IsFiniteSet(K)
    BY <1>5, <1>6, FS_Surjection
  <2> QED BY <1>4, <1>5, <1>6, <2>1, FS_Surjection DEF Bijection
<1>8. /\ t \in [1..n -> K] /\ IsInjective(t) /\ \A x \in K : \E i \in 1..n : t[i] = x
  <2>1. \E f \in [1..n -> K] : IsInjective(f)
    BY <1>7 DEF Injection
  <2>2. t \in [1..n -> K] /\ IsInjective(t)
    BY <1>4, <2>1 DEF SetToSeq
  <2> HIDE DEF t
  <2>3. t \in Injection(1..n, K)
    BY <2>2 DEF Injection
  <2>4. t \in Surjection(1..n, K)
    BY <2>3, <1>4, <1>5, <1>7, FS_Injection
  <2> QED BY <2>2, <2>4 DEF Surjection
<1> HIDE DEF t
<1>9. /\ IsInjective(ids)
      /\ \A i \in 1..n : \E j \in 1..n : ids[i] = t[j]
      /\ \A j \in 1..n : \E i \in 1..n : ids[i] = t[j]
  BY <1>1, <1>7, <1>8 DEF Injection
<1> DEFINE x == [i \in 1..n |-> wallet[ids[i]].balance]
           y == [i \in 1..n |-> wallet[t[i]].balance]
<1>10. Lists(n, K, b, ids, x) /\ Lists(n, K, b, t, y) /\ SameKeys(n, ids, t)
  <2>1. (\A i \in 1..n : ids[i] \in K) /\ (\A i \in 1..n : t[i] \in K)
    BY <1>1, <1>8
  <2>2. x = [i \in 1..n |-> b[ids[i]]] /\ y = [i \in 1..n |-> b[t[i]]]
    BY <1>3, <2>1
  <2> HIDE DEF x, y
  <2>3. Lists(n, K, b, ids, x) /\ Lists(n, K, b, t, y)
    BY <1>1, <1>8, <1>9, <2>2 DEF Lists
  <2> QED BY <1>9, <2>3 DEF SameKeys
<1>11. Held(ids) = Total(x) /\ Held(t) = Total(y)
  BY <1>1, <1>8 DEF Held
<1> HIDE DEF x, y
<1>12. Total(x) = Total(y)
  BY <1>1, <1>3, <1>10, TotalPermuted
<1>13. Held(t) = Held(ids)
  BY <1>11, <1>12
<1> QED BY <1>13 DEF t, K, ids

\* A transaction is handed out only if its input is there (InputCovered): the
\* gas coin holds what the splits of a swap from SUI take; otherwise the listed
\* coins, when they are distinct, hold it, whatever their order, and the gas coin,
\* which is none of them, holds the budget.  Of an amount beyond f64 they hold
\* the amount of the request.
THEOREM InputIsCovered == Spec => []InputCovered
<1>1. BuildInit => FundsInv
  BY DEF BuildInit, FundsInv
<1>2. FundsInv /\ [BuildNext]_vars => FundsInv'
  BY FundsNext
<1>3. ASSUME FundsInv, status = "ok" PROVE InputCovered
  <2>1. gasCoin \in DOMAIN wallet /\ wallet[gasCoin].token = Sui /\ wallet[gasCoin].balance >= GasNeeded
    BY <1>3 DEF FundsInv
  <2> DEFINE paid == IF AmountIn <= Exact THEN Spent(plan) ELSE AmountIn
  <2>4. paid = AmountIn
    <3>1. req.amount \in Nat /\ Exact \in Nat /\ plan \in Plans /\ Splits(plan, req.amount)
      BY <1>3, RequestAssumption DEF FundsInv, Planned
    <3>2. plan \in Seq(ToSet(plan)) /\ \A i \in DOMAIN plan : plan[i].in \in Int
      BY <3>1, PlanAssumption
    <3>3. PICK n \in Nat : DOMAIN plan = 1..n
      BY <3>2
    <3>4. [i \in DOMAIN plan |-> plan[i].in] \in [1..n -> Int]
      BY <3>2, <3>3
    <3>5. Spent(plan) \in Int
      BY <3>4, TotalType DEF Spent
    <3> QED BY <3>1, <3>5 DEF Splits, AmountIn
  <2> HIDE DEF paid
  <2>2. CASE req.fromSui
    BY <1>3, <2>1, <2>2, <2>4 DEF InputCovered, GasNeeded, paid
  <2>3. CASE ~req.fromSui
    <3> DEFINE ids == ToSet(req.coinIds)
    <3>1. SUFFICES ASSUME Cardinality(ids) = Len(req.coinIds), \A c \in ids : wallet[c].token = req.token
                   PROVE  /\ Held(SetToSeq(ids)) >= AmountIn
                          /\ wallet[gasCoin].balance >= GasBudget
                          /\ req.token # Sui => gasCoin \notin ids
      BY <2>3, <2>4 DEF InputCovered, paid
    <3>2. Held(req.coinIds) >= AmountIn
      BY <1>3, <2>3 DEF FundsInv
    <3>3. Held(SetToSeq(ids)) = Held(req.coinIds)
      BY <1>3, <2>3, <3>1, DistinctHeld
    <3>4. Held(SetToSeq(ids)) >= AmountIn
      BY <3>2, <3>3
    <3>5. wallet[gasCoin].balance >= GasBudget
      BY <2>1, <2>3 DEF GasNeeded
    <3>6. req.token # Sui => gasCoin \notin ids
      BY <2>1, <3>1
    <3> QED BY <3>4, <3>5, <3>6
  <2> QED BY <2>2, <2>3
<1>4. FundsInv => InputCovered
  BY <1>3 DEF InputCovered
<1> QED BY <1>1, <1>2, <1>4, PTL DEF Spec

-----------------------------------------------------------------------------
\* The minimum

\* apply_retain_bps rounds amount * bps / Scale down.
LEMMA RetainBounds ==
    ASSUME NEW x \in Nat, NEW b \in Nat
    PROVE  /\ Retain(x, b) \in Nat
           /\ Scale * Retain(x, b) <= x * b /\ x * b < Scale * Retain(x, b) + Scale
<1>0. Scale \in Nat \ {0}
  BY RequestAssumption
<1> DEFINE q == x \div Scale
           r == x % Scale
           m == r * b
           d == m \div Scale
<1>1. q \in Nat /\ r \in Nat /\ x = Scale * q + r
  BY <1>0
<1>2. m \in Nat
  <2> HIDE DEF r
  <2> QED BY <1>1
<1>3. d \in Nat /\ Scale * d <= m /\ m < Scale * d + Scale
  <2> HIDE DEF m
  <2>1. d \in Nat /\ m % Scale \in Nat /\ m % Scale < Scale /\ m = Scale * d + (m % Scale)
    BY <1>0, <1>2
  <2> HIDE DEF d
  <2>2. Scale * d \in Int
    BY <1>0, <2>1
  <2> QED BY <1>0, <1>2, <2>1, <2>2
<1>4. Retain(x, b) = q * b + d
  BY DEF Retain
<1> HIDE DEF q, r, d
<1>5. x * b = Scale * (q * b) + m
  <2>1. x * b = (Scale * q + r) * b
    BY <1>1
  <2>2. (Scale * q + r) * b = (Scale * q) * b + r * b
    BY <1>0, <1>1
  <2>3. (Scale * q) * b = Scale * (q * b)
    BY <1>0, <1>1
  <2> QED BY <2>1, <2>2, <2>3
<1>6. q * b \in Nat
  BY <1>1
<1>7. Scale * (q * b + d) = Scale * (q * b) + Scale * d
  BY <1>0, <1>3, <1>6
<1>8. Scale * (q * b) \in Int /\ Scale * d \in Int
  BY <1>0, <1>3, <1>6
<1> HIDE DEF m
<1> QED BY <1>0, <1>2, <1>3, <1>4, <1>5, <1>6, <1>7, <1>8

\* Rounding the parts loses less than one unit more than rounding the whole.
LEMMA RetainAdds ==
    ASSUME NEW x \in Nat, NEW y \in Nat, NEW b \in Nat
    PROVE  /\ Retain(x, b) + Retain(y, b) <= Retain(x + y, b)
           /\ Retain(x + y, b) <= Retain(x, b) + Retain(y, b) + 1
<1>0. Scale \in Nat \ {0}
  BY RequestAssumption
<1>1. PICK u \in Nat : u = Retain(x, b) /\ Scale * u <= x * b /\ x * b < Scale * u + Scale
  BY RetainBounds
<1>2. PICK v \in Nat : v = Retain(y, b) /\ Scale * v <= y * b /\ y * b < Scale * v + Scale
  BY RetainBounds
<1>3. PICK z \in Nat : z = x + y
  OBVIOUS
<1>4. PICK w \in Nat : w = Retain(z, b) /\ Scale * w <= z * b /\ z * b < Scale * w + Scale
  BY RetainBounds
<1>5. z * b = x * b + y * b /\ x * b \in Int /\ y * b \in Int
  BY <1>3
<1>6. /\ Scale * u \in Int /\ Scale * v \in Int /\ Scale * w \in Int
      /\ Scale * (u + v) = Scale * u + Scale * v /\ Scale * (w + 1) = Scale * w + Scale
      /\ Scale * (u + v + 2) = Scale * u + Scale * v + Scale + Scale
  BY <1>0
<1>7. Scale * (u + v) < Scale * (w + 1) /\ Scale * w < Scale * (u + v + 2)
  <2>1. PICK su \in Int, sv \in Int, sw \in Int, xb \in Int, yb \in Int :
          su = Scale * u /\ sv = Scale * v /\ sw = Scale * w /\ xb = x * b /\ yb = y * b
    BY <1>5, <1>6
  <2>2. /\ su <= xb /\ xb < su + Scale /\ sv <= yb /\ yb < sv + Scale
        /\ sw <= xb + yb /\ xb + yb < sw + Scale /\ Scale \in Int
    BY <1>0, <1>1, <1>2, <1>4, <1>5, <2>1
  <2>3. su + sv < sw + Scale /\ sw < su + sv + Scale + Scale
    BY <2>2
  <2> QED BY <1>6, <2>1, <2>3
<1>8. u + v < w + 1 /\ w < u + v + 2
  <2>1. PICK a \in Int, c \in Int, e \in Int : a = u + v /\ c = w + 1 /\ e = u + v + 2
    OBVIOUS
  <2>2. a < c
    BY <1>0, <1>7, <2>1, MulLess
  <2>3. w < e
    BY <1>0, <1>7, <2>1, MulLess
  <2> QED BY <2>1, <2>2, <2>3
<1>9. w = Retain(x + y, b)
  BY <1>3, <1>4
<1> QED BY <1>1, <1>2, <1>8, <1>9

\* The same of a whole plan.
LEMMA RetainOfTotal ==
    ASSUME NEW n \in Nat \ {0}, NEW x \in [1..n -> Nat], NEW y \in [1..n -> Nat], NEW b \in Nat,
           \A i \in 1..n : y[i] = Retain(x[i], b)
    PROVE  /\ Total(y) <= Retain(Total(x), b) /\ Retain(Total(x), b) - Total(y) < n
<1>0. n \in Nat /\ x \in [1..n -> Int] /\ y \in [1..n -> Int]
  OBVIOUS
<1>1. PICK f \in [0..n -> Int] : f[0] = 0 /\ (\A k \in 1..n : f[k] = f[k - 1] + x[k]) /\ Total(x) = f[n]
  BY <1>0, TotalDef
<1>2. PICK g \in [0..n -> Int] : g[0] = 0 /\ (\A k \in 1..n : g[k] = g[k - 1] + y[k]) /\ Total(y) = g[n]
  BY <1>0, TotalDef
<1> DEFINE S == {k \in 0..n : /\ f[k] >= 0 /\ g[k] <= Retain(f[k], b)
                              /\ IF k = 0 THEN Retain(f[k], b) = 0 ELSE Retain(f[k], b) - g[k] <= k - 1}
<1>3. Retain(0, b) = 0
  <2>0. Scale \in Nat \ {0}
    BY RequestAssumption
  <2>1. /\ Retain(0, b) \in Nat /\ Scale * Retain(0, b) <= 0 /\ Scale \in Nat \ {0}
    BY <2>0, RetainBounds
  <2>2. Retain(0, b) < 1
    <3>1. PICK r \in Nat : r = Retain(0, b)
      BY <2>1
    <3>2. Scale * 1 = Scale /\ Scale * r <= 0 /\ Scale * r \in Int
      BY <2>1, <3>1
    <3>3. Scale * r < Scale * 1
      BY <2>1, <3>2
    <3>4. r < 1
      BY <2>1, <3>3, MulLess
    <3> QED BY <3>1, <3>4
  <2> QED BY <2>1, <2>2
<1>4. 0 \in S
  BY <1>1, <1>2, <1>3
<1>5. ASSUME NEW k \in 1..n, k - 1 \in S PROVE k \in S
  <2>1. PICK u \in Nat : u = f[k - 1]
    BY <1>5
  <2>2. PICK v \in Nat : v = x[k]
    OBVIOUS
  <2>3. f[k] = u + v /\ g[k] = g[k - 1] + Retain(v, b) /\ g[k - 1] \in Int
    BY <1>1, <1>2, <2>1, <2>2
  <2>4. /\ Retain(u, b) + Retain(v, b) <= Retain(u + v, b)
        /\ Retain(u + v, b) <= Retain(u, b) + Retain(v, b) + 1
    BY RetainAdds
  <2>5. Retain(u, b) \in Nat /\ Retain(v, b) \in Nat /\ Retain(u + v, b) \in Nat
    <3>1. PICK w \in Nat : w = u + v
      OBVIOUS
    <3>2. Retain(w, b) \in Nat
      BY RetainBounds
    <3> QED BY <3>1, <3>2, RetainBounds
  <2>6. /\ g[k - 1] <= Retain(u, b)
        /\ IF k - 1 = 0 THEN Retain(u, b) = 0 ELSE Retain(u, b) - g[k - 1] <= k - 1 - 1
    BY <1>5, <2>1
  <2>7. CASE k = 1
    <3>1. u = 0 /\ g[k - 1] = 0 /\ u + v = v
      BY <1>1, <1>2, <2>1, <2>7
    <3>2. f[k] = v /\ g[k] = Retain(v, b)
      BY <2>3, <2>5, <3>1
    <3> QED BY <2>5, <2>7, <3>2
  <2>8. CASE k # 1
    <3>1. PICK p \in Nat, q \in Nat, r \in Nat : p = Retain(u, b) /\ q = Retain(v, b) /\ r = Retain(u + v, b)
      BY <2>5
    <3>2. /\ p + q <= r /\ r <= p + q + 1 /\ g[k] = g[k - 1] + q /\ g[k - 1] <= p
          /\ p - g[k - 1] <= k - 1 - 1 /\ g[k - 1] \in Int
      BY <2>3, <2>4, <2>6, <2>8, <3>1
    <3>3. g[k] <= r /\ r - g[k] <= k - 1
      <4>1. PICK h \in Int : h = g[k - 1]
        BY <3>2
      <4>2. k \in Int /\ p + q <= r /\ r <= p + q + 1 /\ h <= p /\ p - h <= k - 1 - 1
        BY <1>0, <3>2, <4>1
      <4>3. h + q <= r /\ r - (h + q) <= k - 1
        BY <4>2
      <4> QED BY <3>2, <4>1, <4>3
    <3>4. /\ f[k] >= 0 /\ g[k] <= Retain(u + v, b) /\ Retain(u + v, b) - g[k] <= k - 1
      BY <2>3, <3>1, <3>3
    <3> QED BY <2>3, <2>8, <3>4
  <2> QED BY <2>7, <2>8
<1>6. \A k \in 0..n : k \in S
  <2> HIDE DEF S
  <2> QED BY <1>4, <1>5, Induct
<1>7. f[n] \in Nat /\ g[n] <= Retain(f[n], b) /\ Retain(f[n], b) - g[n] <= n - 1
  BY <1>6
<1>8. Retain(f[n], b) \in Nat
  BY <1>7, RetainBounds
<1> QED BY <1>1, <1>2, <1>7, <1>8

OnTurbos(i) == plan[i].route # <<>> /\ Last(plan[i].route).dex = "Turbos"

\* The command that an output comes from carries the minimum of its path.
Carries(arg, i) ==
    OnTurbos(i) => /\ arg.cmd \in Nat /\ arg.cmd + 1 \in DOMAIN cmds
                   /\ cmds[arg.cmd + 1].min = Retain(plan[i].out, Scale - req.bps)

MinInv ==
    /\ req \in Requests
    /\ (pc \in {"input", "hops", "resolve", "gas", "coins", "build"} \/ status = "ok") => req.bps # BadSlippage
    /\ pc = "hops" => /\ \A i \in DOMAIN outs : Carries(outs[i].arg, i)
                      /\ at.hop > Len(Route) => Carries(at.held, at.split)
    /\ (pc \in {"resolve", "gas", "coins", "build"} \/ status = "ok") =>
         IsSeq(outs) /\ Len(outs) = Len(plan) /\ \A i \in DOMAIN outs : Carries(outs[i].arg, i)

\* Commands that were listed stay as they are.
LEMMA CarriesOn ==
    ASSUME NEW n, DOMAIN cmds = 1..n, n \in Nat, NEW m \in Nat, DOMAIN cmds' = 1..(n + m),
           \A j \in 1..n : cmds'[j] = cmds[j], UNCHANGED <<req, plan>>,
           NEW arg, NEW i, Carries(arg, i)
    PROVE  Carries(arg, i)'
<1>1. SUFFICES ASSUME OnTurbos(i)
               PROVE  /\ arg.cmd \in Nat /\ arg.cmd + 1 \in DOMAIN cmds'
                      /\ cmds'[arg.cmd + 1].min = Retain(plan[i].out, Scale - req.bps)
  BY DEF Carries, OnTurbos, Retain
<1>2. /\ arg.cmd \in Nat /\ arg.cmd + 1 \in 1..n
      /\ cmds[arg.cmd + 1].min = Retain(plan[i].out, Scale - req.bps)
  BY <1>1 DEF Carries
<1>3. \A k \in 1..n : k \in 1..(n + m)
  OBVIOUS
<1> QED BY <1>2, <1>3

LEMMA MinHop ==
    ASSUME BuildInv, MinInv, BuildHop
    PROVE  MinInv'
<1> DEFINE split == plan[at.split]
           hop == split.route[at.hop]
           n == Len(cmds)
<1>1. /\ pc = "hops" /\ PlanOk /\ HopsInv /\ status = "none" /\ at.hop <= Len(split.route)
      /\ UNCHANGED <<req, wallet, plan, outs, gasCoin>>
  BY DEF BuildInv, BuildHop
<1>2. n \in Nat /\ DOMAIN cmds = 1..n /\ IsSeq(cmds)
  BY <1>1, SeqFacts DEF HopsInv, Sound
<1>3. /\ Len(plan) \in Nat /\ at.split \in 1..Len(plan) /\ Route = split.route
      /\ at.hop \in 1..(Len(Route) + 1) /\ Len(Route) \in Nat
  BY <1>1, PlanFacts DEF HopsInv, PlanOk, Route
<1>4. CASE pc' = "done" /\ status' \in {"unsupported", "panic"}
  BY <1>1, <1>4 DEF MinInv
<1>5. ASSUME NEW new, NEW coin, NEW est, NEW m \in Nat, IsSeq(new), Len(new) = m,
             cmds' = cmds \o new, at' = [at EXCEPT !.hop = @ + 1, !.held = coin, !.amount = est],
             UNCHANGED <<pc, status>>,
             \A k : k = at.split /\ at.hop = Len(Route) => Carries(coin, k)'
      PROVE  MinInv'
  <2>1. DOMAIN cmds' = 1..(n + m) /\ \A j \in 1..n : cmds'[j] = cmds[j]
    BY <1>2, <1>5, ConcatFacts
  <2>2. at'.split = at.split /\ at'.hop = at.hop + 1 /\ at'.held = coin
    BY <1>1, <1>5 DEF HopsInv
  <2>3. Route' = Route
    BY <1>1, <2>2 DEF Route
  <2>4. ASSUME NEW i \in DOMAIN outs PROVE Carries(outs[i].arg, i)'
    <3>1. PICK arg : arg = outs[i].arg
      OBVIOUS
    <3>2. Carries(arg, i)
      BY <1>1, <3>1 DEF MinInv
    <3>3. Carries(arg, i)'
      <4> HIDE DEF n
      <4> QED BY <1>1, <1>2, <2>1, <3>2, CarriesOn
    <3> QED BY <1>1, <3>1, <3>3 DEF Carries
  <2>5. at'.hop > Len(Route') => Carries(at.held, at.split)'
    <3>1. ASSUME at.hop + 1 > Len(Route) PROVE at.hop = Len(Route)
      BY <1>1, <1>3, <3>1
    <3>2. PICK k : k = at.split
      OBVIOUS
    <3>3. at'.hop > Len(Route') => Carries(coin, k)'
      BY <1>5, <2>2, <2>3, <3>1, <3>2
    <3> QED BY <2>2, <3>2, <3>3 DEF Carries, OnTurbos
  <2> QED BY <1>1, <1>5, <2>4, <2>5 DEF MinInv
<1>6. at.hop = Len(Route) => Last(Route) = hop
  BY <1>3 DEF Last
<1>7. ASSUME NEW est, hop.dex # "Turbos", cmds' = cmds \o FlashHop(hop, at.held, n),
             at' = [at EXCEPT !.hop = @ + 1, !.held = Result(n + 5), !.amount = est],
             UNCHANGED <<pc, status>>
      PROVE  MinInv'
  <2>1. PICK new : new = FlashHop(hop, at.held, n)
    OBVIOUS
  <2>2. PICK coin : coin = Result(n + 5)
    OBVIOUS
  <2>3. IsSeq(new) /\ Len(new) = 6 /\ 6 \in Nat
    BY <2>1, FlashSeq
  <2>4. ASSUME NEW k, k = at.split, at.hop = Len(Route) PROVE Carries(coin, k)'
    <3>1. Last(plan[k].route).dex # "Turbos"
      BY <1>3, <1>6, <1>7, <2>4
    <3> QED BY <1>1, <3>1 DEF Carries, OnTurbos
  <2>5. cmds' = cmds \o new /\ at' = [at EXCEPT !.hop = @ + 1, !.held = coin, !.amount = est]
    BY <1>7, <2>1, <2>2
  <2> HIDE DEF n, hop
  <2> QED BY <1>5, <1>7, <2>3, <2>4, <2>5
<1>8. ASSUME NEW est, NEW min, min \in HopMins(split, at.hop, est),
             cmds' = cmds \o TurbosHop(hop, at.held, n, min),
             at' = [at EXCEPT !.hop = @ + 1, !.held = Nested(n + 1, 0), !.amount = est],
             UNCHANGED <<pc, status>>
      PROVE  MinInv'
  <2>1. PICK new : new = TurbosHop(hop, at.held, n, min)
    OBVIOUS
  <2>2. PICK coin : coin = Nested(n + 1, 0)
    OBVIOUS
  <2>3. IsSeq(new) /\ Len(new) = 3 /\ 3 \in Nat
    BY <2>1, TurbosSeq
  <2>4. cmds' = cmds \o new /\ at' = [at EXCEPT !.hop = @ + 1, !.held = coin, !.amount = est]
    BY <1>8, <2>1, <2>2
  <2>5. ASSUME NEW k, k = at.split, at.hop = Len(Route) PROVE Carries(coin, k)'
    <3>1. min = Retain(plan[k].out, Scale - req.bps)
      BY <1>3, <1>8, <2>5 DEF HopMins
    <3>2. new[2].min = min
      BY <2>1 DEF TurbosHop, Cmd
    <3>3. coin.cmd = n + 1
      BY <2>2 DEF Nested
    <3>4. DOMAIN cmds' = 1..(n + 3) /\ cmds'[n + 2] = new[2]
      <4>1. DOMAIN (cmds \o new) = 1..(n + 3) /\ \A i \in 1..3 : (cmds \o new)[n + i] = new[i]
        <5>0. IsSeq(cmds) /\ IsSeq(new)
          BY <1>2, <2>3
        <5>1. DOMAIN (cmds \o new) = 1..(Len(cmds) + Len(new))
          BY <5>0, ConcatFacts
        <5>2. \A i \in 1..Len(new) : (cmds \o new)[Len(cmds) + i] = new[i]
          BY <5>0, ConcatFacts
        <5> QED BY <2>3, <5>1, <5>2
      <4>2. 2 \in 1..3
        OBVIOUS
      <4> HIDE DEF n
      <4> QED BY <2>4, <4>1, <4>2
    <3>5. coin.cmd \in Nat /\ coin.cmd + 1 = n + 2 /\ n + 2 \in 1..(n + 3)
      BY <1>2, <3>3
    <3>6. cmds'[coin.cmd + 1].min = Retain(plan[k].out, Scale - req.bps)
      BY <3>1, <3>2, <3>4, <3>5
    <3>7. Retain(plan[k].out, Scale - req.bps)' = Retain(plan[k].out, Scale - req.bps)
      BY <1>1 DEF Retain
    <3> HIDE DEF n
    <3> QED BY <3>4, <3>5, <3>6, <3>7 DEF Carries
  <2> HIDE DEF n, hop
  <2> QED BY <1>5, <1>8, <2>3, <2>4, <2>5
<1>9. PICK est, min : /\ min \in HopMins(split, at.hop, est)
                      /\ \/ pc' = "done" /\ status' \in {"unsupported", "panic"}
                         \/ /\ hop.dex # "Turbos"
                            /\ cmds' = cmds \o FlashHop(hop, at.held, n)
                            /\ at' = [at EXCEPT !.hop = @ + 1, !.held = Result(n + 5), !.amount = est]
                            /\ UNCHANGED <<pc, status>>
                         \/ /\ cmds' = cmds \o TurbosHop(hop, at.held, n, min)
                            /\ at' = [at EXCEPT !.hop = @ + 1, !.held = Nested(n + 1, 0), !.amount = est]
                            /\ UNCHANGED <<pc, status>>
  BY DEF BuildHop, Answer
<1>10. CASE /\ hop.dex # "Turbos"
            /\ cmds' = cmds \o FlashHop(hop, at.held, n)
            /\ at' = [at EXCEPT !.hop = @ + 1, !.held = Result(n + 5), !.amount = est]
            /\ UNCHANGED <<pc, status>>
  BY <1>7, <1>10
<1>11. CASE /\ cmds' = cmds \o TurbosHop(hop, at.held, n, min)
            /\ at' = [at EXCEPT !.hop = @ + 1, !.held = Nested(n + 1, 0), !.amount = est]
            /\ UNCHANGED <<pc, status>>
  BY <1>8, <1>9, <1>11
<1> QED BY <1>4, <1>9, <1>10, <1>11

LEMMA MinEnd ==
    ASSUME BuildInv, MinInv, EndPath
    PROVE  MinInv'
<1>1. /\ pc = "hops" /\ PlanOk /\ HopsInv /\ status = "none" /\ at.hop > Len(plan[at.split].route)
      /\ UNCHANGED <<req, wallet, plan, gasCoin, status>>
  BY DEF BuildInv, EndPath
<1>2. Len(cmds) \in Nat /\ DOMAIN cmds = 1..Len(cmds) /\ IsSeq(cmds) /\ IsSeq(outs) /\ Len(outs) = at.split - 1
  BY <1>1, SeqFacts DEF HopsInv, Sound
<1>3. /\ Len(plan) \in Nat /\ at.split \in 1..Len(plan) /\ Route = plan[at.split].route
      /\ at.hop \in 1..(Len(Route) + 1)
  BY <1>1, PlanFacts DEF HopsInv, PlanOk, Route
<1> DEFINE coin == Take(at.held, Coin(PathToken(plan[at.split].route)))
<1>4. outs' = Append(outs, coin) /\ coin.arg = at.held
  BY TakeFields DEF EndPath
<1>5. /\ IsSeq(outs') /\ Len(outs') = at.split /\ DOMAIN outs' = 1..at.split /\ outs'[at.split] = coin
      /\ \A i \in 1..(at.split - 1) : i \in DOMAIN outs /\ outs'[i] = outs[i]
  <2> HIDE DEF coin
  <2> QED BY <1>2, <1>3, <1>4, AppendFacts, SeqFacts
<1>6. ASSUME NEW i \in DOMAIN outs' PROVE Carries(outs'[i].arg, i)
  <2>1. CASE i = at.split
    BY <1>1, <1>3, <1>4, <1>5, <2>1 DEF MinInv
  <2>2. CASE i \in 1..(at.split - 1)
    BY <1>1, <1>5, <2>2 DEF MinInv
  <2> QED BY <1>3, <1>5, <2>1, <2>2
<1>7. CASE at.split < Len(plan)
  <2>1. at' = StartPath(at.split + 1) /\ UNCHANGED <<pc, cmds>>
    BY <1>7 DEF EndPath
  <2>2. at'.split = at.split + 1 /\ at'.hop = 1
    BY <2>1 DEF StartPath
  <2>3. at.split + 1 \in 1..Len(plan) /\ Len(plan[at.split + 1].route) \in Nat
        /\ (plan[at.split + 1].route # <<>> => Len(plan[at.split + 1].route) >= 1)
    <3>1. PICK j \in 1..Len(plan) : j = at.split + 1
      BY <1>3, <1>7
    <3>2. Len(plan[j].route) \in Nat /\ (plan[j].route # <<>> => Len(plan[j].route) >= 1)
      BY <1>1, PlanFacts DEF PlanOk
    <3> QED BY <3>1, <3>2
  <2>4. Route' = plan[at.split + 1].route
    BY <1>1, <2>2 DEF Route
  <2>5. at'.hop > Len(Route') => plan[at.split + 1].route = <<>>
    BY <2>2, <2>3, <2>4
  <2>6. at'.hop > Len(Route') => Carries(at.held, at.split)'
    BY <1>1, <2>2, <2>5 DEF Carries, OnTurbos
  <2>7. \A i \in DOMAIN outs' : Carries(outs[i].arg, i)'
    BY <1>1, <1>6, <2>1 DEF Carries, OnTurbos, Retain
  <2> QED BY <1>1, <2>1, <2>6, <2>7 DEF MinInv
<1>8. CASE ~(at.split < Len(plan))
  <2>1. PICK cmd : cmds' = Append(cmds, cmd) /\ pc' = "resolve"
    BY <1>8 DEF EndPath
  <2>2. DOMAIN cmds' = 1..(Len(cmds) + 1) /\ \A j \in 1..Len(cmds) : cmds'[j] = cmds[j]
    BY <1>2, <2>1, AppendFacts
  <2>3. ASSUME NEW i \in DOMAIN outs' PROVE Carries(outs[i].arg, i)'
    <3>1. PICK arg : arg = outs'[i].arg
      OBVIOUS
    <3>2. Carries(arg, i)
      BY <1>6, <3>1
    <3>3. PICK n \in Nat : n = Len(cmds)
      BY <1>2
    <3>4. Carries(arg, i)'
      BY <1>1, <1>2, <2>2, <3>2, <3>3, CarriesOn
    <3> QED BY <3>1, <3>4 DEF Carries
  <2>4. Len(outs') = Len(plan')
    BY <1>1, <1>3, <1>5, <1>8
  <2> QED BY <1>1, <1>5, <2>1, <2>3, <2>4 DEF MinInv
<1> QED BY <1>7, <1>8

LEMMA MinNext ==
    ASSUME BuildInv, MinInv, [BuildNext]_vars
    PROVE  MinInv'
<1>1. CASE UNCHANGED vars
  <2>1. UNCHANGED <<req, pc, plan, cmds, at, outs, status>>
    BY <1>1 DEF vars
  <2> QED BY <2>1 DEF MinInv, Carries, OnTurbos, Retain, Route
<1>2. ASSUME pc \in {"parse", "route"}, UNCHANGED req,
             \/ pc' \in {"route", "slippage"} /\ UNCHANGED status
             \/ pc' = "done" /\ status' # "ok"
      PROVE  MinInv'
  BY <1>2 DEF MinInv, BuildInv
<1>3. CASE ParseAmount
  BY <1>2, <1>3 DEF ParseAmount, Answer
<1>4. CASE FindRoutes
  BY <1>2, <1>4 DEF FindRoutes, Answer
<1>5. CASE CheckSlippage
  BY <1>5 DEF CheckSlippage, Answer, MinInv, BuildInv
<1>6. CASE SplitInput
  <2>1. pc = "input" /\ PlanOk /\ outs = <<>> /\ status = "none" /\ UNCHANGED <<req, wallet, plan, outs>>
    BY <1>6 DEF BuildInv, SplitInput
  <2>2. CASE pc' = "done" /\ status' \in {"split_overflow", "coin_ids_required"}
    BY <2>1, <2>2 DEF MinInv
  <2>3. CASE pc' = "hops" /\ UNCHANGED status /\ at' = StartPath(1)
    <3>1. at'.split = 1 /\ at'.hop = 1
      BY <2>3 DEF StartPath
    <3>2. 1 \in 1..Len(plan) /\ Len(plan[1].route) \in Nat /\ (plan[1].route # <<>> => Len(plan[1].route) >= 1)
      BY <2>1, PlanFacts DEF PlanOk
    <3>3. Route' = plan[1].route
      BY <2>1, <3>1 DEF Route
    <3>4. at'.hop > Len(Route') => Carries(at.held, at.split)'
      BY <2>1, <3>1, <3>2, <3>3 DEF Carries, OnTurbos
    <3>5. DOMAIN outs' = {}
      BY <2>1
    <3> QED BY <2>1, <2>3, <3>4, <3>5 DEF MinInv
  <2> QED BY <1>6, <2>2, <2>3 DEF SplitInput, Answer
<1>7. CASE BuildHop
  BY <1>7, MinHop
<1>8. CASE EndPath
  BY <1>8, MinEnd
<1>9. ASSUME pc \in {"resolve", "gas", "coins", "build"}, UNCHANGED <<req, plan, cmds, outs>>,
             pc' \in {"gas", "coins", "build", "done"}
      PROVE  MinInv'
  BY <1>9 DEF MinInv, Carries, OnTurbos, Retain
<1>10. CASE ResolveObjects
  BY <1>9, <1>10 DEF ResolveObjects, Answer
<1>11. CASE ChooseGas
  BY <1>9, <1>11 DEF ChooseGas, Answer
<1>12. CASE CheckInputs
  BY <1>9, <1>12 DEF CheckInputs, Answer
<1>13. CASE BuildCanonical
  BY <1>9, <1>13 DEF BuildCanonical, Answer
<1> QED BY <1>1, <1>3, <1>4, <1>5, <1>6, <1>7, <1>8, <1>10, <1>11, <1>12, <1>13 DEF BuildNext

\* When every path ends on Turbos, the minima that the commands carry fall short
\* of the minimum the response reports by less than one unit per split and never
\* exceed it (MinimumEnforced), for every plan, tolerance and scale.
THEOREM MinimumIsEnforced == Spec => []MinimumEnforced
<1>1. BuildInit => BuildInv /\ MinInv
  BY BuildInit_Inv DEF BuildInit, MinInv
<1>2. BuildInv /\ MinInv /\ [BuildNext]_vars => (BuildInv /\ MinInv)'
  BY BuildNext_Inv, MinNext
<1>3. BuildInv /\ MinInv => MinimumEnforced
  <2> SUFFICES ASSUME BuildInv, MinInv, status = "ok", \A i \in DOMAIN plan : OnTurbos(i)
               PROVE  LET carried == Total([i \in DOMAIN outs |-> Carried(i)])
                      IN carried <= Reported /\ Reported - carried < Len(plan)
    BY DEF MinimumEnforced, OnTurbos
  <2> DEFINE n == Len(plan)
             b == Scale - req.bps
             x == [i \in DOMAIN plan |-> plan[i].out]
             y == [i \in DOMAIN outs |-> Carried(i)]
  <2>1. plan \in Plans /\ n \in Nat \ {0} /\ DOMAIN plan = 1..n
    BY PlanFacts DEF BuildInv, Closed
  <2>2. DOMAIN outs = 1..n
    BY SeqFacts DEF MinInv
  <2>3. b \in Nat
    <3>1. req \in Requests /\ req.bps # BadSlippage
      BY DEF MinInv
    <3>2. Scale \in Nat /\ req.bps \in 0..(Scale - 1)
      BY <3>1, RequestAssumption
    <3> QED BY <3>2
  <2>4. \A i \in 1..n : plan[i].out \in Nat
    BY <2>1, PlanAssumption
  <2>5. \A i \in 1..n : Carried(i) = Retain(plan[i].out, b) /\ Retain(plan[i].out, b) \in Nat
    <3> TAKE i \in 1..n
    <3>1. Carried(i) = Retain(plan[i].out, b)
      BY <2>1, <2>2 DEF MinInv, Carries, Carried
    <3> HIDE DEF b
    <3> QED BY <2>3, <2>4, <3>1, RetainBounds
  <2>6. x \in [1..n -> Nat] /\ y \in [1..n -> Nat] /\ \A i \in 1..n : y[i] = Retain(x[i], b)
    <3> HIDE DEF b
    <3> QED BY <2>1, <2>2, <2>4, <2>5
  <2>7. Total(y) <= Retain(Total(x), b) /\ Retain(Total(x), b) - Total(y) < n
    <3> HIDE DEF x, y, b, n
    <3> QED BY <2>1, <2>3, <2>6, RetainOfTotal
  <2> QED BY <2>7 DEF Reported
<1> QED BY <1>1, <1>2, <1>3, PTL DEF Spec

=============================================================================
