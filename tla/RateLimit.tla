----------------------------- MODULE RateLimit -----------------------------
(***************************************************************************)
(* The rate limiter (middleware/middleware_ratelimit.go): one table of     *)
(* visitors, each with a token bucket of golang.org/x/time/rate, used by   *)
(* requests that run concurrently and emptied by a cleanup goroutine.      *)
(*                                                                         *)
(* Time is counted in ticks.  A token takes period ticks to come in, so    *)
(* the level of a bucket is kept in ticks too: period of them are a token. *)
(* Each method of the bucket reads the clock and works under the bucket's  *)
(* lock; between two methods other requests and time come in.              *)
(***************************************************************************)
EXTENDS Integers, FiniteSets, Sequences

CONSTANTS Key,       \* visitor keys: one per client address
          Path,      \* paths with limits of their own, and all others
          Burst,     \* Path -> tokens of a full bucket
          Period,    \* Path -> ticks per token
          Request,   \* requests, each served once
          Interval,  \* CleanupInterval
          MaxStall,  \* ticks within which a request reaches its bucket
          MaxTime    \* bound on time

(* The longest a bucket takes to fill is far below the cleanup interval (5 *)
(* seconds against 5 minutes), and so is the time a request spends between *)
(* two lines of Middleware.                                                *)
ASSUME RateLimitAssumption ==
  /\ Burst \in [Path -> Nat \ {0}] /\ Period \in [Path -> Nat \ {0}]
  /\ Interval \in Nat \ {0} /\ MaxStall \in Nat /\ MaxTime \in Nat
  /\ \A p \in Path : MaxStall + Burst[p] * Period[p] <= Interval

VARIABLES
  now,      \* the clock
  visitors, \* key -> [limiter, lastSeen]
  limiter,  \* the buckets: address -> bucket
  due,      \* when the cleanup ticker fires next
  pc,       \* what each request is about to do
  req,      \* what each request knows
  granted   \* for the properties: the admissions of each key, in order

vars == <<now, visitors, limiter, due, pc, req, granted>>

-----------------------------------------------------------------------------
(* A bucket and its fields.  unspent is the level the bucket would have if *)
(* refused requests never touched it; only properties read it.             *)
Address == Key \X (0 .. MaxTime)
Limiter == [burst : Nat, period : Nat, level : Int, last : Nat,
            lastEvent : Nat, unspent : Int]

Least(a, b) == IF a <= b THEN a ELSE b

Full(l) == l.burst * l.period
Filled(l, level) == Least(Full(l), level + (now - l.last))
Level(l) == Filled(l, l.level)
Unspent(l) == Filled(l, l.unspent)

NewLimiter(p) == [burst |-> Burst[p], period |-> Period[p],
                  level |-> Burst[p] * Period[p], last |-> now,
                  lastEvent |-> 0, unspent |-> Burst[p] * Period[p]]

NoReq == [key |-> <<>>]
Req == [key : Key, path : Path, limiter : Address, at : Nat, act : Nat]

Init ==
  /\ now = 0
  /\ visitors = [k \in {} |-> <<>>]
  /\ limiter = [a \in {} |-> <<>>]
  /\ due = Interval
  /\ pc = [r \in Request |-> "idle"]
  /\ req = [r \in Request |-> NoReq]
  /\ granted = [k \in Key |-> <<>>]

Goto(r, label) == pc' = [pc EXCEPT ![r] = label]

(* Variant: a new entry starts the table afresh.                           *)
PutAlone(f, x, row) == [y \in {x} |-> row]

Put(f, x, row) == [y \in DOMAIN f \cup {x} |-> IF y = x THEN row ELSE f[y]]

-----------------------------------------------------------------------------
Enter(r, k, p, a) ==
  /\ pc[r] = "idle"
  /\ req' = [req EXCEPT ![r] = [key |-> k, path |-> p, limiter |-> a,
                                at |-> now, act |-> 0]]
  /\ Goto(r, "allow")
  /\ UNCHANGED <<now, due, granted>>

Seen(k) == visitors' = [visitors EXCEPT ![k].lastSeen = now]

(* getVisitor: the limits of the path count for a new visitor only.        *)
GetKnownVisitor(r, k, p) ==
  /\ k \in DOMAIN visitors
  /\ Enter(r, k, p, visitors[k].limiter)
  /\ Seen(k)
  /\ UNCHANGED limiter

GetNewVisitor(r, k, p) ==
  /\ k \notin DOMAIN visitors
  /\ Enter(r, k, p, <<k, now>>)
  /\ limiter' = Put(limiter, <<k, now>>, NewLimiter(p))
  /\ visitors' = Put(visitors, k, [limiter |-> <<k, now>>, lastSeen |-> now])

-----------------------------------------------------------------------------
Bucket(r) == limiter[req[r].limiter]

(* The reservation of one token: the bucket is brought up to date, gives   *)
(* the token, into debt if need be, and remembers when it will be due.     *)
ActAt(l) == IF Level(l) >= l.period THEN now ELSE now + l.period - Level(l)

Reserved(l, unspent) ==
  [burst |-> l.burst, period |-> l.period, level |-> Level(l) - l.period,
   last |-> now, lastEvent |-> ActAt(l), unspent |-> unspent]

(* Allow: a token that is there now.                                       *)
Grant(r) ==
  /\ pc[r] = "allow"
  /\ Level(Bucket(r)) >= Bucket(r).period
  /\ limiter' = [limiter EXCEPT ![req[r].limiter] =
                   Reserved(@, Unspent(@) - @.period)]
  /\ granted' = [granted EXCEPT ![req[r].key] =
                   Append(@, [time |-> now, path |-> req[r].path])]
  /\ Goto(r, "ok")
  /\ UNCHANGED <<now, visitors, due, req>>

Refuse(r) ==
  /\ pc[r] = "allow"
  /\ Level(Bucket(r)) < Bucket(r).period
  /\ Goto(r, "reserve")
  /\ UNCHANGED <<now, visitors, limiter, due, req, granted>>

(* handleRateLimitExceeded reserves a token to learn when it would be due. *)
Reserve(r) ==
  /\ pc[r] = "reserve"
  /\ req' = [req EXCEPT ![r].act = ActAt(Bucket(r))]
  /\ limiter' = [limiter EXCEPT ![req[r].limiter] =
                   Reserved(@, Unspent(@))]
  /\ Goto(r, "cancel")
  /\ UNCHANGED <<now, visitors, due, granted>>

(* Cancel gives back the token but for those reserved after it.            *)
Restore(l, act) == l.period - (l.lastEvent - act)

Cancelled(l, act) ==
  [burst |-> l.burst, period |-> l.period,
   level |-> Least(Full(l), Level(l) + Restore(l, act)), last |-> now,
   lastEvent |-> IF act = l.lastEvent /\ act - l.period >= now
                 THEN act - l.period ELSE l.lastEvent,
   unspent |-> Unspent(l)]

(* Variant: the reservation is cancelled twice, as a deferred Cancel next  *)
(* to the explicit one would.                                              *)
CancelTwice(r) ==
  /\ pc[r] = "cancel"
  /\ IF req[r].act < now \/ Restore(Bucket(r), req[r].act) <= 0
     THEN UNCHANGED limiter
     ELSE limiter' = [limiter EXCEPT ![req[r].limiter] =
                        Cancelled(Cancelled(@, req[r].act), req[r].act)]
  /\ Goto(r, "tooMany")
  /\ UNCHANGED <<now, visitors, due, req, granted>>

Cancel(r) ==
  /\ pc[r] = "cancel"
  /\ IF req[r].act < now \/ Restore(Bucket(r), req[r].act) <= 0
     THEN UNCHANGED limiter
     ELSE limiter' = [limiter EXCEPT ![req[r].limiter] =
                        Cancelled(@, req[r].act)]
  /\ Goto(r, "tooMany")
  /\ UNCHANGED <<now, visitors, due, req, granted>>

-----------------------------------------------------------------------------
(* Variants: the comparison reversed; two idle intervals instead of one.   *)
StaleReversed(k) == now - visitors[k].lastSeen < Interval
StaleLate(k) == now - visitors[k].lastSeen > 2 * Interval

Stale(k) == now - visitors[k].lastSeen > Interval

CleanupVisitors ==
  /\ now = due
  /\ visitors' = [k \in {k \in DOMAIN visitors : ~Stale(k)} |-> visitors[k]]
  /\ due' = due + Interval
  /\ UNCHANGED <<now, limiter, pc, req, granted>>

(* Time passes up to the next cleanup, and no request sleeps between       *)
(* getVisitor and Allow.                                                   *)
Tick ==
  /\ now < MaxTime
  /\ now < due
  /\ \A r \in Request : pc[r] = "allow" => now < req[r].at + MaxStall
  /\ now' = now + 1
  /\ UNCHANGED <<visitors, limiter, due, pc, req, granted>>

Next ==
  \/ Tick \/ CleanupVisitors
  \/ \E r \in Request :
       \/ \E k \in Key, p \in Path :
            GetKnownVisitor(r, k, p) \/ GetNewVisitor(r, k, p)
       \/ Grant(r) \/ Refuse(r) \/ Reserve(r) \/ Cancel(r)

Spec == Init /\ [][Next]_vars

-----------------------------------------------------------------------------
(* Every variable has its type.                                            *)
TypeOK ==
  /\ now \in 0 .. MaxTime /\ due \in Nat
  /\ DOMAIN visitors \subseteq Key
  /\ visitors \in [DOMAIN visitors -> [limiter : Address, lastSeen : Nat]]
  /\ DOMAIN limiter \subseteq Address
  /\ limiter \in [DOMAIN limiter -> Limiter]
  /\ pc \in [Request -> {"idle", "allow", "reserve", "cancel", "ok",
                         "tooMany"}]
  /\ \A r \in Request : pc[r] # "idle" =>
       req[r] \in Req /\ req[r].limiter \in DOMAIN limiter
  /\ \A k \in Key : \A i \in DOMAIN granted[k] :
       granted[k][i] \in [time : Nat, path : Path]

(* No visitor gets more than a bucket lets through: any stretch of         *)
(* admissions is at most a burst and what came in meanwhile, by the most   *)
(* generous limits of the table.  Cancelled reservations give no token and *)
(* neither does a bucket thrown away by the cleanup and made anew.         *)
AdmissionBound ==
  \A k \in Key : \A i, j \in DOMAIN granted[k] :
    i <= j => \E p \in Path, q \in Path :
      (j - i + 1 - Burst[p]) * Period[q]
        <= granted[k][j].time - granted[k][i].time

(* However reservations and cancellations of refused requests overlap, a   *)
(* bucket never holds more than the admitted requests left in it.          *)
RefusedGainNothing ==
  \A a \in DOMAIN limiter : Level(limiter[a]) <= Unspent(limiter[a])

(* The table does not grow for ever: a visitor is dropped by the second    *)
(* cleanup after the last visit, at the latest.                            *)
VisitorsForgotten ==
  \A k \in DOMAIN visitors : now - visitors[k].lastSeen <= 2 * Interval

(* The admissions of one key on one path.                                  *)
Admissions(k, p) == SelectSeq(granted[k], LAMBDA g : g.path = p)

(* The comments of the limit table, "1 thread per 2 seconds" and the like: *)
(* the admissions of one path keep to the limits of that path.             *)
EndpointLimits ==
  \A k \in Key, p \in Path : \A i, j \in DOMAIN Admissions(k, p) :
    i <= j => (j - i + 1 - Burst[p]) * Period[p]
                <= Admissions(k, p)[j].time - Admissions(k, p)[i].time

=============================================================================
