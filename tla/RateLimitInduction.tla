------------------------- MODULE RateLimitInduction -------------------------
(***************************************************************************)
(* The inductive invariants of RateLimit.  TableInv holds whatever the     *)
(* buckets do; DebtInv adds what the reservations under way can still give *)
(* back, so that refused requests gain nothing; LedgerInv builds on both   *)
(* and adds what the admissions have cost.                                 *)
(***************************************************************************)
EXTENDS RateLimit

Admission == [time : Nat, path : Path]

(* What TypeOK leaves open: the two functions that steps update.           *)
FunctionInv ==
  /\ req \in [Request -> Req \cup {NoReq}]
  /\ granted \in [Key -> Seq(Admission)]

(* The ticker is never late, and a visitor who stays was seen at most one  *)
(* interval before the last cleanup.                                       *)
AgeInv ==
  /\ now <= due /\ due <= now + Interval
  /\ \A k \in DOMAIN visitors :
       visitors[k].lastSeen <= now /\ due - visitors[k].lastSeen <= 2 * Interval

(* A bucket has the limits of one path, and its visitor has it alone.      *)
BucketInv ==
  /\ \A a \in DOMAIN limiter :
       /\ limiter[a].last <= now
       /\ \E p \in Path :
            limiter[a].burst = Burst[p] /\ limiter[a].period = Period[p]
  /\ \A k \in DOMAIN visitors :
       visitors[k].limiter \in DOMAIN limiter /\ visitors[k].limiter[1] = k

(* The bucket a request is about to take a token from is the one its       *)
(* visitor still has: no cleanup can have come in between.                 *)
HeldInv ==
  \A r \in Request : pc[r] = "allow" =>
    /\ req[r].key \in DOMAIN visitors
    /\ visitors[req[r].key].limiter = req[r].limiter
    /\ req[r].at <= visitors[req[r].key].lastSeen
    /\ now <= req[r].at + MaxStall

(* An admission follows the visit at once; when the visitor is forgotten,  *)
(* any bucket would have filled up since.                                  *)
PastInv ==
  \A k \in Key : \A i \in DOMAIN granted[k] :
    /\ granted[k][i].time <= now
    /\ k \in DOMAIN visitors =>
         granted[k][i].time <= visitors[k].lastSeen + MaxStall
    /\ k \notin DOMAIN visitors =>
         now - granted[k][i].time > Interval - MaxStall

TableInv ==
  TypeOK /\ FunctionInv /\ AgeInv /\ BucketInv /\ HeldInv /\ PastInv

-----------------------------------------------------------------------------
(* The n admissions from the i-th on, m of them from bucket l and those    *)
(* before at most Burst[p] and one per Period[q], paid for up to l.last:   *)
(* what l has left could have been spent too.                              *)
PaidBy(l, n, m, p, q, since) ==
  /\ Period[q] <= l.period
  /\ (n - m - Burst[p]) * Period[q] + m * l.period + l.unspent
       <= l.last - since

Paid(k, i) ==
  \E p \in Path, q \in Path, m \in 0 .. Len(granted[k]) :
    PaidBy(limiter[visitors[k].limiter], Len(granted[k]) - i + 1, m, p, q,
           granted[k][i].time)

LedgerInv ==
  /\ \A a \in DOMAIN limiter : limiter[a].unspent >= 0
  /\ \A k \in DOMAIN visitors : \A i \in DOMAIN granted[k] : Paid(k, i)
  /\ AdmissionBound

-----------------------------------------------------------------------------
(* What cancelled reservations may still give back.  In ticks, for a       *)
(* bucket of period P that holds F when full: the time is t, the level is  *)
(* t - z and the unspent level t - y, so that z and y stay while time      *)
(* passes; E is the last event, and A the reservations under way, each     *)
(* with the time it is due.  A cancellation moves z back, by a period less *)
(* what was reserved after it.                                             *)

(* The recursion behind it.  A debt of x ticks beyond the last event comes *)
(* from reservations one period apart; cancelling one of them leaves those *)
(* behind it with less to return, and they those behind them.              *)
Loss(P) ==
  LET loss[x \in Nat] == x + (IF x > P THEN 2 * loss[x - P] ELSE 0)
  IN  loss

LossFrom(P, x) == IF x <= 0 THEN 0 ELSE Loss(P)[x]

(* The most that cancelling a reservation due in y ticks brings about: the *)
(* ticks it returns and the losses it spares the others.                   *)
Worth(P, y) == IF P + y <= 0 THEN 0 ELSE P + y + LossFrom(P, y - P)

(* What the reservations of A are worth together, seen from time e.        *)
Owed(P, A, e) ==
  Cardinality(UNION {{x} \X (1 .. Worth(P, x[2] - e)) : x \in A})

(* How far back z can come by cancelling all of A, should e be the last    *)
(* event by then.                                                          *)
Undone(P, z, A, e) == z + LossFrom(P, z - e) - Owed(P, A, e)

(* Cancelling the last reservation takes the last event back, never into   *)
(* the past.                                                               *)
Events(t, E) == {e \in 0 .. E : t <= e \/ e = E}

(* Whatever is cancelled, z does not come back beyond y, nor so far that   *)
(* the bucket would overflow.                                              *)
CoveredBy(P, F, t, z, y, E, A) ==
  /\ t - F <= y /\ y <= z
  /\ A # {} => /\ z <= E
               /\ \A e \in Events(t, E) :
                    /\ e - F <= Undone(P, z, A, e)
                    /\ y = t - F \/ y <= Undone(P, z, A, e)

Covers(l, A) ==
  CoveredBy(l.period, Full(l), now, now - Level(l), now - Unspent(l),
            l.lastEvent, A)

Cancelling == {r \in Request : pc[r] = "cancel"}

Outstanding(a) ==
  {<<r, req[r].act>> :
     r \in {r \in Cancelling : req[r].limiter = a /\ now <= req[r].act}}

(* No bucket is made twice: the visitor of a bucket of this very moment is *)
(* still there.                                                            *)
AddressInv ==
  \A a \in DOMAIN limiter :
    /\ a[2] <= now
    /\ a[2] = now => /\ a[1] \in DOMAIN visitors
                     /\ visitors[a[1]].lastSeen = now

DebtInv ==
  /\ AddressInv
  /\ IsFiniteSet(Cancelling)
  /\ \A a \in DOMAIN limiter : Covers(limiter[a], Outstanding(a))

=============================================================================
