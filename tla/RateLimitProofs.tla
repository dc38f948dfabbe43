--------------------------- MODULE RateLimitProofs ---------------------------
(***************************************************************************)
(* Proofs about RateLimit: its types, that no visitor is kept for longer   *)
(* than two cleanup intervals, that refused requests gain nothing, and     *)
(* that visitors stay within their limits.                                 *)
(***************************************************************************)
EXTENDS RateLimitInduction, FiniteSetTheorems, FunctionTheorems, TLAPS

-----------------------------------------------------------------------------
(* Arithmetic.                                                             *)

LEMMA ProductNat ==
  ASSUME NEW a \in Nat, NEW b \in Nat
  PROVE  a * b \in Nat
BY SMT

LEMMA ProductMonotone ==
  ASSUME NEW m \in Nat, NEW a \in Nat, NEW b \in Nat, a <= b
  PROVE  m * a <= m * b
<1>1. PICK d \in Nat : b = a + d
  <2>1. b - a \in Nat /\ b = a + (b - a)
    OBVIOUS
  <2> QED BY <2>1
<1>2. m * b = m * a + m * d
  BY <1>1
<1>3. m * d >= 0 /\ m * a \in Int
  BY ProductNat
<1> QED BY <1>2, <1>3, ProductNat

LEMMA ProductNegative ==
  ASSUME NEW m \in Int, m <= 0, NEW a \in Nat
  PROVE  m * a <= 0
<1>1. (0 - m) * a \in Nat
  BY ProductNat
<1>2. m * a = 0 - ((0 - m) * a)
  OBVIOUS
<1> QED BY <1>1, <1>2

LEMMA Distribute ==
  ASSUME NEW x \in Int, NEW y \in Int, NEW a \in Int
  PROVE  (x + y) * a = x * a + y * a
OBVIOUS

-----------------------------------------------------------------------------
(* The levels of a bucket.                                                 *)

(* What Filled returns: at most a full bucket, at most what came in.       *)
LEMMA LevelFacts ==
  ASSUME NEW l \in Limiter, now \in Nat, l.last <= now
  PROVE  /\ Full(l) \in Nat
         /\ Level(l) \in Int
         /\ Unspent(l) \in Int
         /\ Unspent(l) <= Full(l)
         /\ Unspent(l) <= l.unspent + (now - l.last)
         /\ l.unspent >= 0 => Unspent(l) >= 0
<1>1. /\ l.burst \in Nat /\ l.period \in Nat /\ l.level \in Int
      /\ l.last \in Nat /\ l.unspent \in Int
  BY DEF Limiter
<1>2. Full(l) \in Nat
  BY <1>1, ProductNat DEF Full
<1>3. \A level \in Int :
        /\ Filled(l, level) \in Int
        /\ Filled(l, level) <= Full(l)
        /\ Filled(l, level) <= level + (now - l.last)
        /\ level >= 0 => Filled(l, level) >= 0
  <2> TAKE level \in Int
  <2> DEFINE full == Full(l)
  <2>1. full \in Nat
    BY <1>2
  <2>2. Filled(l, level) = IF full <= level + (now - l.last)
                           THEN full ELSE level + (now - l.last)
    BY DEF Filled, Least
  <2> HIDE DEF full
  <2>3. /\ Filled(l, level) \in Int
        /\ Filled(l, level) <= full
        /\ Filled(l, level) <= level + (now - l.last)
        /\ level >= 0 => Filled(l, level) >= 0
    BY <1>1, <2>1, <2>2
  <2> QED BY <2>3 DEF full
<1> QED BY <1>1, <1>2, <1>3 DEF Level, Unspent

(* Brings bucket l up to date: its limits stay, the clock is noted.        *)
Touched(l, row) ==
  /\ row \in Limiter
  /\ row.burst = l.burst /\ row.period = l.period /\ row.last = now

LEMMA ActAtNat ==
  ASSUME NEW l \in Limiter, now \in Nat, l.last <= now
  PROVE  ActAt(l) \in Nat
<1>1. l.period \in Nat /\ Level(l) \in Int
  BY LevelFacts DEF Limiter
<1> QED BY <1>1 DEF ActAt

LEMMA ReservedTouches ==
  ASSUME NEW l \in Limiter, now \in Nat, l.last <= now, NEW u \in Int
  PROVE  Touched(l, Reserved(l, u)) /\ Reserved(l, u).unspent = u
<1>1. /\ l.burst \in Nat /\ l.period \in Nat /\ Level(l) \in Int
      /\ ActAt(l) \in Nat
  BY LevelFacts, ActAtNat DEF Limiter
<1> QED BY <1>1 DEF Touched, Reserved, Limiter

LEMMA CancelledTouches ==
  ASSUME NEW l \in Limiter, now \in Nat, l.last <= now, NEW act \in Nat
  PROVE  Touched(l, Cancelled(l, act)) /\ Cancelled(l, act).unspent = Unspent(l)
<1>1. /\ l.burst \in Nat /\ l.period \in Nat /\ l.lastEvent \in Nat
      /\ Level(l) \in Int /\ Full(l) \in Nat /\ Unspent(l) \in Int
  BY LevelFacts DEF Limiter
<1>2. Least(Full(l), Level(l) + Restore(l, act)) \in Int
  BY <1>1 DEF Least, Restore
<1>3. (IF act = l.lastEvent /\ act - l.period >= now
       THEN act - l.period ELSE l.lastEvent) \in Nat
  BY <1>1
<1> QED BY <1>1, <1>2, <1>3 DEF Touched, Cancelled, Limiter

LEMMA NewLimiterFull ==
  ASSUME NEW p \in Path, now \in Nat
  PROVE  /\ NewLimiter(p) \in Limiter
         /\ NewLimiter(p).burst = Burst[p] /\ NewLimiter(p).period = Period[p]
         /\ NewLimiter(p).last = now
         /\ NewLimiter(p).unspent = Burst[p] * Period[p]
<1>1. Burst[p] \in Nat /\ Period[p] \in Nat
  BY RateLimitAssumption
<1>2. Burst[p] * Period[p] \in Nat
  BY <1>1, ProductNat
<1> QED BY <1>1, <1>2 DEF NewLimiter, Limiter

-----------------------------------------------------------------------------
(* The table: steps that bring at most one bucket up to date.              *)

(* What Grant, Refuse, Reserve and Cancel have in common.                  *)
Serves(r) ==
  /\ UNCHANGED <<now, visitors, due>>
  /\ pc[r] # "idle"
  /\ \E label \in {"reserve", "cancel", "ok", "tooMany"} :
       pc' = [pc EXCEPT ![r] = label]
  /\ \/ req' = req
     \/ \E act \in Nat : req' = [req EXCEPT ![r].act = act]
  /\ \/ limiter' = limiter
     \/ \E row : /\ Touched(limiter[req[r].limiter], row)
                 /\ limiter' = [limiter EXCEPT ![req[r].limiter] = row]

LEMMA RequestBucket ==
  ASSUME TableInv, NEW r \in Request, pc[r] # "idle"
  PROVE  /\ req[r] \in Req /\ req[r].key \in Key /\ req[r].act \in Nat
         /\ req[r].limiter \in DOMAIN limiter
         /\ Bucket(r) \in Limiter /\ Bucket(r).last <= now /\ now \in Nat
<1>1. req[r] \in Req /\ req[r].limiter \in DOMAIN limiter
  BY DEF TableInv, TypeOK
<1>2. now \in Nat /\ limiter \in [DOMAIN limiter -> Limiter]
  BY RateLimitAssumption DEF TableInv, TypeOK
<1>3. Bucket(r) \in Limiter /\ Bucket(r).last <= now
  BY <1>1, <1>2 DEF Bucket, TableInv, BucketInv
<1> QED BY <1>1, <1>2, <1>3 DEF Req

LEMMA ServingSteps ==
  ASSUME TableInv, NEW r \in Request,
         Grant(r) \/ Refuse(r) \/ Reserve(r) \/ Cancel(r)
  PROVE  Serves(r)
<1>0. pc[r] # "idle"
  BY DEF Grant, Refuse, Reserve, Cancel
<1> DEFINE l == limiter[req[r].limiter]
<1>1. /\ l \in Limiter /\ l.last <= now /\ now \in Nat /\ req[r].act \in Nat
      /\ l = Bucket(r)
  BY <1>0, RequestBucket DEF Bucket
<1> HIDE DEF l
<1>2. \A u \in Int : Touched(l, Reserved(l, u))
  BY <1>1, ReservedTouches
<1>3. Touched(l, Cancelled(l, req[r].act))
  BY <1>1, CancelledTouches
<1>4. l.period \in Nat /\ Unspent(l) \in Int
  BY <1>1, LevelFacts DEF Limiter
<1>5. CASE Grant(r)
  <2>1. Unspent(l) - l.period \in Int
    BY <1>4
  <2>2. limiter' = [limiter EXCEPT ![req[r].limiter] =
                      Reserved(l, Unspent(l) - l.period)]
    BY <1>5 DEF Grant, l
  <2>3. /\ UNCHANGED <<now, visitors, due, req>>
        /\ pc' = [pc EXCEPT ![r] = "ok"]
    BY <1>5 DEF Grant, Goto
  <2> QED BY <1>0, <1>2, <2>1, <2>2, <2>3 DEF Serves, l
<1>6. CASE Refuse(r)
  BY <1>0, <1>6 DEF Refuse, Serves, Goto
<1>7. CASE Reserve(r)
  <2>1. limiter' = [limiter EXCEPT ![req[r].limiter] =
                      Reserved(l, Unspent(l))]
    BY <1>7 DEF Reserve, l
  <2>2. /\ UNCHANGED <<now, visitors, due>>
        /\ pc' = [pc EXCEPT ![r] = "cancel"]
        /\ req' = [req EXCEPT ![r].act = ActAt(l)]
    BY <1>1, <1>7 DEF Reserve, Goto
  <2>3. ActAt(l) \in Nat
    BY <1>1, ActAtNat
  <2> QED BY <1>0, <1>2, <1>4, <2>1, <2>2, <2>3 DEF Serves, l
<1>8. CASE Cancel(r)
  <2>1. \/ limiter' = limiter
        \/ limiter' = [limiter EXCEPT ![req[r].limiter] =
                         Cancelled(l, req[r].act)]
    BY <1>8 DEF Cancel, l
  <2>2. /\ UNCHANGED <<now, visitors, due, req>>
        /\ pc' = [pc EXCEPT ![r] = "tooMany"]
    BY <1>8 DEF Cancel, Goto
  <2> QED BY <1>0, <1>3, <2>1, <2>2 DEF Serves, l
<1> QED BY <1>5, <1>6, <1>7, <1>8

(* Buckets keep their limits, and stay who they belong to.                 *)
LEMMA ServesKeepsBuckets ==
  ASSUME TableInv, NEW r \in Request, Serves(r)
  PROVE  /\ DOMAIN limiter' = DOMAIN limiter
         /\ limiter' \in [DOMAIN limiter -> Limiter]
         /\ \A a \in DOMAIN limiter :
              /\ limiter'[a].burst = limiter[a].burst
              /\ limiter'[a].period = limiter[a].period
              /\ limiter'[a].last <= now
<1>1. limiter \in [DOMAIN limiter -> Limiter]
  BY DEF TableInv, TypeOK
<1>2. now \in Nat /\ \A a \in DOMAIN limiter : limiter[a].last <= now
  BY RateLimitAssumption DEF TableInv, TypeOK, BucketInv
<1>3. CASE limiter' = limiter
  BY <1>1, <1>2, <1>3
<1>4. ASSUME NEW row, Touched(limiter[req[r].limiter], row),
             limiter' = [limiter EXCEPT ![req[r].limiter] = row]
      PROVE  /\ DOMAIN limiter' = DOMAIN limiter
             /\ limiter' \in [DOMAIN limiter -> Limiter]
             /\ \A a \in DOMAIN limiter :
                  /\ limiter'[a].burst = limiter[a].burst
                  /\ limiter'[a].period = limiter[a].period
                  /\ limiter'[a].last <= now
  <2> DEFINE b == req[r].limiter
  <2>1. /\ row \in Limiter /\ row.burst = limiter[b].burst
        /\ row.period = limiter[b].period /\ row.last <= now
    BY <1>2, <1>4 DEF Touched
  <2>2. DOMAIN limiter' = DOMAIN limiter
    BY <1>4
  <2>3. \A a \in DOMAIN limiter : limiter'[a] = IF a = b THEN row ELSE limiter[a]
    BY <1>1, <1>4
  <2>4. limiter' \in [DOMAIN limiter -> Limiter]
    BY <1>1, <1>4, <2>1
  <2> HIDE DEF b
  <2>5. ASSUME NEW a \in DOMAIN limiter
        PROVE  /\ limiter'[a].burst = limiter[a].burst
               /\ limiter'[a].period = limiter[a].period
               /\ limiter'[a].last <= now
    BY <1>2, <2>1, <2>3
  <2> QED BY <2>2, <2>4, <2>5
<1> QED BY <1>3, <1>4 DEF Serves

(* A request and what it knows, when only act is new.                      *)
LEMMA ServesKeepsRequests ==
  ASSUME TableInv, NEW r \in Request, Serves(r)
  PROVE  /\ pc' \in [Request -> {"idle", "allow", "reserve", "cancel", "ok",
                                 "tooMany"}]
         /\ req' \in [Request -> Req \cup {NoReq}]
         /\ \A q \in Request :
              /\ pc'[q] # "idle" => pc[q] # "idle" /\ req'[q] \in Req
              /\ pc'[q] = "allow" => pc[q] = "allow"
              /\ pc[q] # "idle" => /\ req'[q].key = req[q].key
                                   /\ req'[q].limiter = req[q].limiter
                                   /\ req'[q].at = req[q].at
<1>1. pc \in [Request -> {"idle", "allow", "reserve", "cancel", "ok", "tooMany"}]
  BY DEF TableInv, TypeOK
<1>2. /\ req \in [Request -> Req \cup {NoReq}]
      /\ \A q \in Request : pc[q] # "idle" => req[q] \in Req
  BY DEF TableInv, TypeOK, FunctionInv
<1>3. /\ pc' \in [Request -> {"idle", "allow", "reserve", "cancel", "ok",
                              "tooMany"}]
      /\ \A q \in Request : /\ pc'[q] # "idle" => pc[q] # "idle"
                            /\ pc'[q] = "allow" => pc[q] = "allow"
  BY <1>1 DEF Serves
<1>4. CASE req' = req
  BY <1>2, <1>3, <1>4
<1>5. ASSUME NEW act \in Nat, req' = [req EXCEPT ![r].act = act]
      PROVE  /\ req' \in [Request -> Req \cup {NoReq}]
             /\ \A q \in Request : pc[q] # "idle" =>
                  /\ req'[q] \in Req
                  /\ req'[q].key = req[q].key
                  /\ req'[q].limiter = req[q].limiter
                  /\ req'[q].at = req[q].at
  <2>1. req[r] \in Req
    BY <1>2 DEF Serves
  <2>2. /\ req'[r] = [req[r] EXCEPT !.act = act]
        /\ \A q \in Request \ {r} : req'[q] = req[q]
    BY <1>2, <1>5
  <2>3. /\ req'[r] \in Req /\ req'[r].key = req[r].key
        /\ req'[r].limiter = req[r].limiter /\ req'[r].at = req[r].at
    BY <2>1, <2>2 DEF Req
  <2>4. DOMAIN req' = Request /\ req' = [q \in Request |-> req'[q]]
    BY <1>2, <1>5
  <2> QED BY <1>2, <2>2, <2>3, <2>4
<1> QED BY <1>3, <1>4, <1>5 DEF Serves

(* All of TableInv but what it says of the admissions.                     *)
LEMMA ServesKeepsTable ==
  ASSUME TableInv, NEW r \in Request, Serves(r),
         granted' \in [Key -> Seq(Admission)], PastInv'
  PROVE  TableInv'
<1>1. UNCHANGED <<now, visitors, due>>
  BY DEF Serves
<1>2. /\ DOMAIN limiter' = DOMAIN limiter
      /\ limiter' \in [DOMAIN limiter -> Limiter]
      /\ \A a \in DOMAIN limiter :
           /\ limiter'[a].burst = limiter[a].burst
           /\ limiter'[a].period = limiter[a].period
           /\ limiter'[a].last <= now
  BY ServesKeepsBuckets
<1>3. /\ pc' \in [Request -> {"idle", "allow", "reserve", "cancel", "ok",
                              "tooMany"}]
      /\ req' \in [Request -> Req \cup {NoReq}]
      /\ \A q \in Request :
           /\ pc'[q] # "idle" => pc[q] # "idle" /\ req'[q] \in Req
           /\ pc'[q] = "allow" => pc[q] = "allow"
           /\ pc[q] # "idle" => /\ req'[q].key = req[q].key
                                /\ req'[q].limiter = req[q].limiter
                                /\ req'[q].at = req[q].at
  BY ServesKeepsRequests
<1>4. TypeOK'
  <2>1. \A k \in Key : \A i \in DOMAIN granted'[k] :
          granted'[k][i] \in [time : Nat, path : Path]
    <3> TAKE k \in Key
    <3>1. granted'[k] \in Seq(Admission)
      OBVIOUS
    <3>2. \A i \in DOMAIN granted'[k] : granted'[k][i] \in Admission
      BY <3>1
    <3> QED BY <3>2 DEF Admission
  <2> QED BY <1>1, <1>2, <1>3, <2>1 DEF TableInv, TypeOK
<1>5. FunctionInv'
  BY <1>3 DEF FunctionInv
<1>6. AgeInv'
  BY <1>1 DEF TableInv, AgeInv
<1>7. BucketInv'
  BY <1>1, <1>2 DEF TableInv, BucketInv
<1>8. HeldInv'
  BY <1>1, <1>3 DEF TableInv, HeldInv
<1> QED BY <1>4, <1>5, <1>6, <1>7, <1>8 DEF TableInv

LEMMA ServedTable ==
  ASSUME TableInv, NEW r \in Request, Refuse(r) \/ Reserve(r) \/ Cancel(r)
  PROVE  TableInv'
<1>1. Serves(r) /\ granted' = granted /\ visitors' = visitors /\ now' = now
  <2>1. Serves(r)
    BY ServingSteps
  <2> QED BY <2>1 DEF Refuse, Reserve, Cancel
<1>2. granted' \in [Key -> Seq(Admission)] /\ PastInv'
  BY <1>1 DEF TableInv, FunctionInv, PastInv
<1> QED BY <1>1, <1>2, ServesKeepsTable

(* One admission more, of the request's key, now.                          *)
LEMMA GrantAppends ==
  ASSUME TableInv, NEW r \in Request, Grant(r)
  PROVE  LET k == req[r].key
             n == Len(granted[k])
         IN  /\ k \in Key /\ n \in Nat
             /\ granted' \in [Key -> Seq(Admission)]
             /\ \A j \in Key \ {k} : granted'[j] = granted[j]
             /\ DOMAIN granted[k] = 1 .. n /\ DOMAIN granted'[k] = 1 .. (n + 1)
             /\ Len(granted'[k]) = n + 1
             /\ \A i \in 1 .. n : granted'[k][i] = granted[k][i]
             /\ granted'[k][n + 1].time = now
<1> DEFINE k == req[r].key
           g == granted[k]
           new == [time |-> now, path |-> req[r].path]
<1>1. pc[r] = "allow" /\ granted' = [granted EXCEPT ![k] = Append(@, new)]
  BY DEF Grant
<1>2. k \in Key /\ req[r].path \in Path /\ now \in Nat
  BY <1>1, RequestBucket DEF Req
<1>3. new \in Admission
  BY <1>2 DEF Admission
<1>4. granted \in [Key -> Seq(Admission)]
  BY DEF TableInv, FunctionInv
<1>5. g \in Seq(Admission)
  BY <1>2, <1>4
<1>6. granted'[k] = Append(g, new) /\ \A j \in Key \ {k} : granted'[j] = granted[j]
  BY <1>1, <1>2, <1>4
<1>7. new.time = now
  OBVIOUS
<1> HIDE DEF g, new
<1>8. /\ Append(g, new) \in Seq(Admission) /\ Len(g) \in Nat
      /\ DOMAIN g = 1 .. Len(g)
      /\ Len(Append(g, new)) = Len(g) + 1
      /\ DOMAIN Append(g, new) = 1 .. (Len(g) + 1)
      /\ \A i \in 1 .. Len(g) : Append(g, new)[i] = g[i]
      /\ Append(g, new)[Len(g) + 1] = new
  BY <1>3, <1>5
<1>9. granted' \in [Key -> Seq(Admission)]
  <2>1. granted' = [granted EXCEPT ![k] = Append(g, new)]
    BY <1>1 DEF g
  <2> QED BY <1>4, <1>8, <2>1
<1> QED BY <1>2, <1>6, <1>7, <1>8, <1>9 DEF g

LEMMA GrantTable ==
  ASSUME TableInv, NEW r \in Request, Grant(r)
  PROVE  TableInv'
<1> DEFINE k == req[r].key
           n == Len(granted[k])
<1>1. Serves(r) /\ visitors' = visitors /\ now' = now /\ pc[r] = "allow"
  BY ServingSteps DEF Grant
<1>2. /\ k \in Key /\ n \in Nat
      /\ granted' \in [Key -> Seq(Admission)]
      /\ \A j \in Key \ {k} : granted'[j] = granted[j]
      /\ DOMAIN granted[k] = 1 .. n /\ DOMAIN granted'[k] = 1 .. (n + 1)
      /\ \A i \in 1 .. n : granted'[k][i] = granted[k][i]
      /\ granted'[k][n + 1].time = now
  BY GrantAppends
<1>3. /\ k \in DOMAIN visitors /\ now \in Nat
      /\ req[r].at <= visitors[k].lastSeen /\ now <= req[r].at + MaxStall
      /\ req[r].at \in Nat /\ visitors[k].lastSeen \in Nat
  BY <1>1, RequestBucket DEF TableInv, HeldInv, Req, TypeOK
<1>4. now <= visitors[k].lastSeen + MaxStall
  BY <1>3, RateLimitAssumption
<1>5. PastInv'
  <2> SUFFICES ASSUME NEW j \in Key, NEW i \in DOMAIN granted'[j]
               PROVE  /\ granted'[j][i].time <= now
                      /\ j \in DOMAIN visitors =>
                           granted'[j][i].time <= visitors[j].lastSeen + MaxStall
                      /\ j \notin DOMAIN visitors =>
                           now - granted'[j][i].time > Interval - MaxStall
    BY <1>1 DEF PastInv
  <2>1. CASE i \in DOMAIN granted[j] /\ granted'[j][i] = granted[j][i]
    BY <2>1 DEF TableInv, PastInv
  <2>2. CASE j = k /\ i = n + 1
    BY <1>2, <1>3, <1>4, <2>2
  <2> HIDE DEF k, n
  <2>3. \/ i \in DOMAIN granted[j] /\ granted'[j][i] = granted[j][i]
        \/ j = k /\ i = n + 1
    BY <1>2
  <2> QED BY <2>1, <2>2, <2>3
<1> QED BY <1>1, <1>2, <1>5, ServesKeepsTable

-----------------------------------------------------------------------------
(* The table: time, the cleanup and the visits.                            *)

LEMMA Clocks ==
  ASSUME TableInv
  PROVE  /\ now \in Nat /\ now <= MaxTime /\ due \in Nat /\ MaxStall \in Nat
         /\ Interval \in Nat /\ MaxTime \in Nat /\ Interval > 0
         /\ \A k \in DOMAIN visitors : k \in Key /\ visitors[k].lastSeen \in Nat
         /\ \A r \in Request : pc[r] # "idle" =>
              /\ req[r].at \in Nat /\ req[r].key \in Key
              /\ req[r].path \in Path
         /\ \A k \in Key : \A i \in DOMAIN granted[k] : granted[k][i].time \in Nat
BY RateLimitAssumption DEF TableInv, TypeOK, Req

LEMMA StallsBelow ==
  ASSUME NEW p \in Path
  PROVE  /\ Burst[p] \in Nat /\ Period[p] \in Nat /\ Burst[p] * Period[p] \in Nat
         /\ MaxStall + Burst[p] * Period[p] <= Interval
<1>1. Burst[p] \in Nat /\ Period[p] \in Nat
  BY RateLimitAssumption
<1> QED BY <1>1, ProductNat, RateLimitAssumption

LEMMA TickTable ==
  ASSUME TableInv, Tick
  PROVE  TableInv'
<1>1. /\ UNCHANGED <<visitors, limiter, due, pc, req, granted>>
      /\ now' = now + 1 /\ now < MaxTime /\ now < due
      /\ \A r \in Request : pc[r] = "allow" => now < req[r].at + MaxStall
  BY DEF Tick
<1>2. TypeOK'
  BY <1>1, Clocks DEF TableInv, TypeOK
<1>3. FunctionInv'
  BY <1>1 DEF TableInv, FunctionInv
<1>4. AgeInv'
  BY <1>1, Clocks DEF TableInv, AgeInv
<1>5. BucketInv'
  <2>1. \A a \in DOMAIN limiter : limiter[a].last \in Nat
    BY DEF TableInv, TypeOK, Limiter
  <2>2. \A a \in DOMAIN limiter : limiter[a].last <= now'
    BY <1>1, <2>1, Clocks DEF TableInv, BucketInv
  <2> QED BY <1>1, <2>2 DEF TableInv, BucketInv
<1>6. HeldInv'
  <2> SUFFICES ASSUME NEW r \in Request, pc[r] = "allow"
               PROVE  now' <= req[r].at + MaxStall
    BY <1>1 DEF TableInv, HeldInv
  <2> QED BY <1>1, Clocks
<1>7. PastInv'
  BY <1>1, Clocks DEF TableInv, PastInv
<1> QED BY <1>2, <1>3, <1>4, <1>5, <1>6, <1>7 DEF TableInv

(* Whoever is about to take a token was seen too lately to be stale.       *)
LEMMA CleanupTable ==
  ASSUME TableInv, CleanupVisitors
  PROVE  TableInv'
<1>1. /\ UNCHANGED <<now, limiter, pc, req, granted>>
      /\ now = due /\ due' = due + Interval
      /\ visitors' = [k \in {k \in DOMAIN visitors : ~Stale(k)} |-> visitors[k]]
  BY DEF CleanupVisitors
<1>2. /\ DOMAIN visitors' \subseteq DOMAIN visitors
      /\ \A k \in DOMAIN visitors' :
           /\ visitors'[k] = visitors[k]
           /\ now - visitors[k].lastSeen <= Interval
      /\ \A k \in DOMAIN visitors \ DOMAIN visitors' :
           now - visitors[k].lastSeen > Interval
      /\ visitors' = [k \in DOMAIN visitors' |-> visitors'[k]]
  BY <1>1, Clocks DEF Stale
<1>3. TypeOK'
  BY <1>1, <1>2, Clocks DEF TableInv, TypeOK
<1>4. FunctionInv'
  BY <1>1 DEF TableInv, FunctionInv
<1>5. AgeInv'
  <2>1. now' <= due' /\ due' <= now' + Interval
    BY <1>1, Clocks
  <2>2. \A k \in DOMAIN visitors' : due' - visitors'[k].lastSeen <= 2 * Interval
    BY <1>1, <1>2, Clocks
  <2> QED BY <1>1, <1>2, <2>1, <2>2 DEF TableInv, AgeInv
<1>6. BucketInv'
  BY <1>1, <1>2 DEF TableInv, BucketInv
<1>7. HeldInv'
  <2> SUFFICES ASSUME NEW r \in Request, pc[r] = "allow"
               PROVE  req[r].key \in DOMAIN visitors'
    BY <1>1, <1>2 DEF TableInv, HeldInv
  <2> DEFINE k == req[r].key
  <2>1. /\ k \in DOMAIN visitors /\ req[r].at <= visitors[k].lastSeen
        /\ now <= req[r].at + MaxStall
    BY DEF TableInv, HeldInv
  <2>2. MaxStall <= Interval
    BY Clocks, StallsBelow
  <2>3. now - visitors[k].lastSeen <= Interval
    BY <2>1, <2>2, Clocks
  <2> QED BY <1>2, <2>1, <2>3, Clocks
<1>8. PastInv'
  <2> SUFFICES ASSUME NEW k \in Key, NEW i \in DOMAIN granted[k]
               PROVE  /\ k \in DOMAIN visitors' =>
                           granted[k][i].time <= visitors'[k].lastSeen + MaxStall
                      /\ k \notin DOMAIN visitors' =>
                           now - granted[k][i].time > Interval - MaxStall
    BY <1>1 DEF TableInv, PastInv
  <2>1. CASE k \in DOMAIN visitors \ DOMAIN visitors'
    <3>1. granted[k][i].time <= visitors[k].lastSeen + MaxStall
      BY <2>1 DEF TableInv, PastInv
    <3> QED BY <1>2, <2>1, <3>1, Clocks
  <2>2. CASE k \notin DOMAIN visitors \ DOMAIN visitors'
    BY <1>2, <2>2 DEF TableInv, PastInv
  <2> QED BY <2>1, <2>2
<1> QED BY <1>3, <1>4, <1>5, <1>6, <1>7, <1>8 DEF TableInv

(* What the two visits have in common: r enters with its visitor's bucket, *)
(* and the visitor has been seen now.                                      *)
Visits(r, k) ==
  /\ UNCHANGED <<now, due, granted>>
  /\ pc' = [pc EXCEPT ![r] = "allow"]
  /\ \E p \in Path : req' = [req EXCEPT ![r] = [key |-> k, path |-> p,
                        limiter |-> visitors'[k].limiter, at |-> now, act |-> 0]]
  /\ DOMAIN visitors' = DOMAIN visitors \cup {k}
  /\ visitors' = [j \in DOMAIN visitors' |-> visitors'[j]]
  /\ visitors'[k].lastSeen = now
  /\ visitors'[k] \in [limiter : Address, lastSeen : Nat]
  /\ visitors'[k].limiter[1] = k
  /\ k \in DOMAIN visitors => visitors'[k].limiter = visitors[k].limiter
  /\ \A j \in DOMAIN visitors \ {k} : visitors'[j] = visitors[j]
  /\ DOMAIN limiter' = DOMAIN limiter \cup {visitors'[k].limiter}
  /\ limiter' = [a \in DOMAIN limiter' |-> limiter'[a]]
  /\ \A a \in DOMAIN limiter' :
       \/ a \in DOMAIN limiter /\ limiter'[a] = limiter[a]
       \/ \E p \in Path : limiter'[a] = NewLimiter(p)

LEMMA KnownVisits ==
  ASSUME TableInv, NEW r \in Request, NEW k \in Key, NEW p \in Path,
         GetKnownVisitor(r, k, p)
  PROVE  Visits(r, k) /\ limiter' = limiter
<1>1. /\ k \in DOMAIN visitors
      /\ visitors' = [visitors EXCEPT ![k].lastSeen = now]
      /\ UNCHANGED <<now, due, granted, limiter>>
      /\ pc' = [pc EXCEPT ![r] = "allow"]
      /\ req' = [req EXCEPT ![r] = [key |-> k, path |-> p,
                   limiter |-> visitors[k].limiter, at |-> now, act |-> 0]]
  BY DEF GetKnownVisitor, Seen, Enter, Goto
<1>2. /\ visitors = [j \in DOMAIN visitors |-> visitors[j]]
      /\ visitors[k] \in [limiter : Address, lastSeen : Nat]
      /\ visitors[k].limiter \in DOMAIN limiter /\ visitors[k].limiter[1] = k
      /\ limiter = [a \in DOMAIN limiter |-> limiter[a]]
  BY <1>1 DEF TableInv, TypeOK, BucketInv
<1>3. /\ DOMAIN visitors' = DOMAIN visitors
      /\ visitors' = [j \in DOMAIN visitors' |-> visitors'[j]]
      /\ visitors'[k] = [visitors[k] EXCEPT !.lastSeen = now]
      /\ \A j \in DOMAIN visitors \ {k} : visitors'[j] = visitors[j]
  BY <1>1, <1>2
<1>4. /\ visitors'[k] \in [limiter : Address, lastSeen : Nat]
      /\ visitors'[k].limiter = visitors[k].limiter
      /\ visitors'[k].lastSeen = now
  BY <1>2, <1>3, Clocks
<1>5. /\ DOMAIN visitors' = DOMAIN visitors \cup {k}
      /\ DOMAIN limiter' = DOMAIN limiter \cup {visitors'[k].limiter}
  <2>1. DOMAIN visitors' = DOMAIN visitors \cup {k}
    BY <1>1, <1>3
  <2>2. visitors'[k].limiter \in DOMAIN limiter /\ limiter' = limiter
    BY <1>1, <1>2, <1>4
  <2> QED BY <2>1, <2>2
<1>6. limiter' = [a \in DOMAIN limiter' |-> limiter'[a]]
      /\ \A a \in DOMAIN limiter' :
           a \in DOMAIN limiter /\ limiter'[a] = limiter[a]
  BY <1>1, <1>2
<1>7. req' = [req EXCEPT ![r] = [key |-> k, path |-> p,
                limiter |-> visitors'[k].limiter, at |-> now, act |-> 0]]
  BY <1>1, <1>4
<1>8. visitors'[k].limiter[1] = k
  BY <1>2, <1>4
<1> QED BY <1>1, <1>3, <1>4, <1>5, <1>6, <1>7, <1>8 DEF Visits

LEMMA NewVisits ==
  ASSUME TableInv, NEW r \in Request, NEW k \in Key, NEW p \in Path,
         GetNewVisitor(r, k, p)
  PROVE  /\ Visits(r, k) /\ k \notin DOMAIN visitors
         /\ visitors'[k].limiter = <<k, now>>
         /\ limiter'[<<k, now>>] = NewLimiter(p)
         /\ \A a \in DOMAIN limiter \ {<<k, now>>} : limiter'[a] = limiter[a]
<1> DEFINE a == <<k, now>>
           row == [limiter |-> a, lastSeen |-> now]
<1>1. /\ k \notin DOMAIN visitors
      /\ visitors' = Put(visitors, k, row)
      /\ limiter' = Put(limiter, a, NewLimiter(p))
      /\ UNCHANGED <<now, due, granted>>
      /\ pc' = [pc EXCEPT ![r] = "allow"]
      /\ req' = [req EXCEPT ![r] = [key |-> k, path |-> p,
                   limiter |-> a, at |-> now, act |-> 0]]
  BY DEF GetNewVisitor, Enter, Goto
<1>2. a \in Address /\ a[1] = k
  BY Clocks DEF TableInv, TypeOK, Address
<1> HIDE DEF a
<1>3. row \in [limiter : Address, lastSeen : Nat]
      /\ row.limiter = a /\ row.lastSeen = now
  BY <1>2, Clocks
<1> HIDE DEF row
<1>4. /\ DOMAIN visitors' = DOMAIN visitors \cup {k}
      /\ visitors' = [j \in DOMAIN visitors' |-> visitors'[j]]
      /\ visitors'[k] = row
      /\ \A j \in DOMAIN visitors \ {k} : visitors'[j] = visitors[j]
  BY <1>1 DEF Put
<1>5. /\ DOMAIN limiter' = DOMAIN limiter \cup {a}
      /\ limiter' = [b \in DOMAIN limiter' |-> limiter'[b]]
      /\ limiter'[a] = NewLimiter(p)
      /\ \A b \in DOMAIN limiter \ {a} : limiter'[b] = limiter[b]
  BY <1>1 DEF Put
<1>6. \A b \in DOMAIN limiter' :
        \/ b \in DOMAIN limiter /\ limiter'[b] = limiter[b]
        \/ \E q \in Path : limiter'[b] = NewLimiter(q)
  BY <1>5
<1>7. Visits(r, k)
  BY <1>1, <1>2, <1>3, <1>4, <1>5, <1>6 DEF Visits
<1> QED BY <1>1, <1>3, <1>4, <1>5, <1>7 DEF a

LEMMA VisitTable ==
  ASSUME TableInv, NEW r \in Request, NEW k \in Key, Visits(r, k)
  PROVE  TableInv'
<1> DEFINE b == visitors'[k].limiter
<1>1. /\ UNCHANGED <<now, due, granted>>
      /\ pc' = [pc EXCEPT ![r] = "allow"]
      /\ DOMAIN visitors' = DOMAIN visitors \cup {k}
      /\ visitors' = [j \in DOMAIN visitors' |-> visitors'[j]]
      /\ visitors'[k].lastSeen = now
      /\ visitors'[k] \in [limiter : Address, lastSeen : Nat]
      /\ b[1] = k /\ b \in Address
      /\ k \in DOMAIN visitors => b = visitors[k].limiter
      /\ \A j \in DOMAIN visitors \ {k} : visitors'[j] = visitors[j]
      /\ DOMAIN limiter' = DOMAIN limiter \cup {b}
      /\ limiter' = [a \in DOMAIN limiter' |-> limiter'[a]]
  BY DEF Visits
<1>2. PICK p \in Path :
        req' = [req EXCEPT ![r] = [key |-> k, path |-> p, limiter |-> b,
                                   at |-> now, act |-> 0]]
  BY DEF Visits
<1>3. [key |-> k, path |-> p, limiter |-> b, at |-> now, act |-> 0] \in Req
  BY <1>1, Clocks DEF Req
<1>4. /\ req' \in [Request -> Req \cup {NoReq}]
      /\ req'[r] = [key |-> k, path |-> p, limiter |-> b, at |-> now, act |-> 0]
      /\ \A q \in Request \ {r} : req'[q] = req[q]
  BY <1>2, <1>3 DEF TableInv, FunctionInv
<1>5. /\ pc' \in [Request -> {"idle", "allow", "reserve", "cancel", "ok",
                              "tooMany"}]
      /\ \A q \in Request \ {r} : pc'[q] = pc[q]
  BY <1>1 DEF TableInv, TypeOK
<1>6. \A a \in DOMAIN limiter' :
        /\ limiter'[a] \in Limiter /\ limiter'[a].last <= now
        /\ \E q \in Path : limiter'[a].burst = Burst[q]
                             /\ limiter'[a].period = Period[q]
  <2> TAKE a \in DOMAIN limiter'
  <2>1. CASE a \in DOMAIN limiter /\ limiter'[a] = limiter[a]
    BY <2>1 DEF TableInv, TypeOK, BucketInv
  <2>2. ASSUME NEW q \in Path, limiter'[a] = NewLimiter(q)
        PROVE  /\ limiter'[a] \in Limiter /\ limiter'[a].last <= now
               /\ limiter'[a].burst = Burst[q] /\ limiter'[a].period = Period[q]
    BY <2>2, NewLimiterFull, Clocks
  <2> QED BY <2>1, <2>2 DEF Visits
<1> HIDE DEF b
<1>7. TypeOK'
  <2>1. /\ DOMAIN visitors' \subseteq Key /\ DOMAIN limiter' \subseteq Address
        /\ now' \in 0 .. MaxTime /\ due' \in Nat
    BY <1>1 DEF TableInv, TypeOK
  <2>2. visitors' \in [DOMAIN visitors' -> [limiter : Address, lastSeen : Nat]]
    <3>1. \A j \in DOMAIN visitors' :
            visitors'[j] \in [limiter : Address, lastSeen : Nat]
      BY <1>1 DEF TableInv, TypeOK
    <3> QED BY <1>1, <3>1
  <2>3. limiter' \in [DOMAIN limiter' -> Limiter]
    BY <1>1, <1>6
  <2>4. \A q \in Request : pc'[q] # "idle" =>
          req'[q] \in Req /\ req'[q].limiter \in DOMAIN limiter'
    <3> TAKE q \in Request
    <3>1. CASE q = r
      <4>1. req'[r] \in Req /\ req'[r].limiter = b
        BY <1>3, <1>4
      <4> QED BY <1>1, <3>1, <4>1
    <3>2. CASE q # r
      BY <1>1, <1>4, <1>5, <3>2 DEF TableInv, TypeOK
    <3> QED BY <3>1, <3>2
  <2>5. \A j \in Key : \A i \in DOMAIN granted'[j] :
          granted'[j][i] \in [time : Nat, path : Path]
    BY <1>1 DEF TableInv, TypeOK
  <2> QED BY <1>5, <2>1, <2>2, <2>3, <2>4, <2>5 DEF TypeOK
<1>8. FunctionInv'
  BY <1>1, <1>4 DEF TableInv, FunctionInv
<1>9. AgeInv'
  <2> SUFFICES ASSUME NEW j \in DOMAIN visitors'
               PROVE  /\ visitors'[j].lastSeen <= now
                      /\ due - visitors'[j].lastSeen <= 2 * Interval
    BY <1>1 DEF TableInv, AgeInv
  <2>1. CASE j = k
    BY <1>1, <2>1, Clocks DEF TableInv, AgeInv
  <2>2. CASE j # k
    BY <1>1, <2>2 DEF TableInv, AgeInv
  <2> QED BY <2>1, <2>2
<1>10. BucketInv'
  <2>1. \A j \in DOMAIN visitors' : visitors'[j].limiter \in DOMAIN limiter'
                                      /\ visitors'[j].limiter[1] = j
    <3> TAKE j \in DOMAIN visitors'
    <3>1. CASE j = k
      BY <1>1, <3>1 DEF b
    <3>2. CASE j # k
      BY <1>1, <3>2 DEF TableInv, BucketInv
    <3> QED BY <3>1, <3>2
  <2> QED BY <1>1, <1>6, <2>1 DEF BucketInv
<1>11. HeldInv'
  <2> SUFFICES ASSUME NEW q \in Request, pc'[q] = "allow"
               PROVE  /\ req'[q].key \in DOMAIN visitors'
                      /\ visitors'[req'[q].key].limiter = req'[q].limiter
                      /\ req'[q].at <= visitors'[req'[q].key].lastSeen
                      /\ now <= req'[q].at + MaxStall
    BY <1>1 DEF HeldInv
  <2>1. CASE q = r
    <3>1. req'[q].key = k /\ req'[q].limiter = b /\ req'[q].at = now
      BY <1>4, <2>1
    <3> QED BY <1>1, <3>1, Clocks DEF b
  <2>2. CASE q # r
    <3>1. /\ req'[q] = req[q] /\ pc[q] = "allow"
          /\ req[q].key \in DOMAIN visitors
          /\ visitors[req[q].key].limiter = req[q].limiter
          /\ req[q].at <= visitors[req[q].key].lastSeen
          /\ now <= req[q].at + MaxStall
          /\ visitors[req[q].key].lastSeen <= now
      BY <1>4, <1>5, <2>2 DEF TableInv, HeldInv, AgeInv
    <3>2. CASE req[q].key = k
      <4>1. req[q].at <= now
        BY <2>2, <3>1, Clocks
      <4> QED BY <1>1, <3>1, <3>2, <4>1 DEF b
    <3>3. CASE req[q].key # k
      BY <1>1, <3>1, <3>3
    <3> QED BY <3>2, <3>3
  <2> QED BY <2>1, <2>2
<1>12. PastInv'
  <2> SUFFICES ASSUME NEW j \in Key, NEW i \in DOMAIN granted[j]
               PROVE  /\ j \in DOMAIN visitors' =>
                           granted[j][i].time <= visitors'[j].lastSeen + MaxStall
                      /\ j \notin DOMAIN visitors' =>
                           now - granted[j][i].time > Interval - MaxStall
    BY <1>1 DEF TableInv, PastInv
  <2>1. granted[j][i].time <= now
    BY DEF TableInv, PastInv
  <2>2. CASE j = k
    <3>1. granted[j][i].time <= now + MaxStall
      BY <2>1, Clocks
    <3> QED BY <1>1, <2>2, <3>1
  <2>3. CASE j # k
    BY <1>1, <2>3 DEF TableInv, PastInv
  <2> QED BY <2>2, <2>3
<1> QED BY <1>7, <1>8, <1>9, <1>10, <1>11, <1>12 DEF TableInv

-----------------------------------------------------------------------------
(* The inductive invariant of the table.                                   *)

LEMMA InitTable == Init => TableInv
<1> SUFFICES ASSUME Init PROVE TableInv
  OBVIOUS
<1>1. /\ now = 0 /\ due = Interval
      /\ DOMAIN visitors = {} /\ visitors = [k \in DOMAIN visitors |-> visitors[k]]
      /\ DOMAIN limiter = {} /\ limiter = [a \in DOMAIN limiter |-> limiter[a]]
      /\ pc = [r \in Request |-> "idle"]
      /\ req = [r \in Request |-> NoReq]
      /\ granted = [k \in Key |-> <<>>]
  BY DEF Init
<1>2. Interval \in Nat /\ MaxTime \in Nat /\ Interval > 0
  BY RateLimitAssumption
<1>3. \A k \in Key : granted[k] = <<>> /\ DOMAIN granted[k] = {}
  BY <1>1
<1>4. TypeOK
  <2>1. now \in 0 .. MaxTime /\ due \in Nat
    BY <1>1, <1>2
  <2>2. /\ visitors \in [DOMAIN visitors -> [limiter : Address, lastSeen : Nat]]
        /\ limiter \in [DOMAIN limiter -> Limiter]
    BY <1>1
  <2> QED BY <1>1, <1>3, <2>1, <2>2 DEF TypeOK
<1>5. FunctionInv
  <2>1. <<>> \in Seq(Admission)
    OBVIOUS
  <2> QED BY <1>1, <2>1 DEF FunctionInv
<1>6. AgeInv /\ BucketInv
  BY <1>1, <1>2 DEF AgeInv, BucketInv
<1>7. HeldInv /\ PastInv
  BY <1>1, <1>3 DEF HeldInv, PastInv
<1> QED BY <1>4, <1>5, <1>6, <1>7 DEF TableInv

LEMMA NextTable == TableInv /\ [Next]_vars => TableInv'
<1> SUFFICES ASSUME TableInv, [Next]_vars PROVE TableInv'
  OBVIOUS
<1>1. CASE Tick
  BY <1>1, TickTable
<1>2. CASE CleanupVisitors
  BY <1>2, CleanupTable
<1>3. ASSUME NEW r \in Request, NEW k \in Key, NEW p \in Path,
             GetKnownVisitor(r, k, p) \/ GetNewVisitor(r, k, p)
      PROVE  TableInv'
  BY <1>3, KnownVisits, NewVisits, VisitTable
<1>4. ASSUME NEW r \in Request, Grant(r)
      PROVE  TableInv'
  BY <1>4, GrantTable
<1>5. ASSUME NEW r \in Request, Refuse(r) \/ Reserve(r) \/ Cancel(r)
      PROVE  TableInv'
  BY <1>5, ServedTable
<1>6. CASE UNCHANGED vars
  BY <1>6 DEF vars, TableInv, TypeOK, FunctionInv, AgeInv, BucketInv, HeldInv,
              PastInv
<1> QED BY <1>1, <1>2, <1>3, <1>4, <1>5, <1>6 DEF Next

(* The table, the buckets and the requests in flight agree in every        *)
(* reachable state: among the rest, the cleanup never takes a bucket away  *)
(* from a request that is between getVisitor and Allow.                    *)
THEOREM TableInductive == Spec => []TableInv
BY InitTable, NextTable, PTL DEF Spec

(* Every variable has its type.                                            *)
THEOREM TypeCorrect == Spec => []TypeOK
<1>1. TableInv => TypeOK
  BY DEF TableInv
<1> QED BY <1>1, TableInductive, PTL

(* cleanupVisitors: no visitor stays for longer than two intervals.        *)
THEOREM VisitorsForgottenCorrect == Spec => []VisitorsForgotten
<1>1. TableInv => VisitorsForgotten
  <2> SUFFICES ASSUME TableInv, NEW k \in DOMAIN visitors
               PROVE  now - visitors[k].lastSeen <= 2 * Interval
    BY DEF VisitorsForgotten
  <2>1. now <= due /\ due - visitors[k].lastSeen <= 2 * Interval
    BY DEF TableInv, AgeInv
  <2> QED BY <2>1, Clocks
<1> QED BY <1>1, TableInductive, PTL

-----------------------------------------------------------------------------
(* The recursion of the losses, solved and bounded.                        *)

(* The least of a set of numbers: a rank for each, and every rank taken.   *)
LEMMA LeastOfFinite ==
  ASSUME NEW K \in SUBSET Nat, IsFiniteSet(K), K # {}
  PROVE  \E i \in K : \A j \in K : i <= j
<1> DEFINE m == Cardinality(K)
           Below(i) == {j \in K : j <= i}
           rank == [i \in K |-> Cardinality(Below(i))]
<1>1. m \in Nat /\ m >= 1
  BY FS_CardinalityType, FS_EmptySet
<1>2. \A i \in K : IsFiniteSet(Below(i)) /\ Cardinality(Below(i)) \in 1 .. m
  <2> TAKE i \in K
  <2>1. IsFiniteSet(Below(i)) /\ Cardinality(Below(i)) <= m
    BY FS_Subset
  <2>2. Cardinality(Below(i)) \in Nat
    BY <2>1, FS_CardinalityType
  <2>3. i \in Below(i)
    OBVIOUS
  <2>4. Cardinality(Below(i)) # 0
    BY <2>1, <2>3, FS_EmptySet
  <2> QED BY <1>1, <2>1, <2>2, <2>4
<1>3. rank \in [K -> 1 .. m]
  BY <1>2
<1>4. \A i, j \in K : rank[i] = rank[j] => i = j
  <2> SUFFICES ASSUME NEW i \in K, NEW j \in K, i < j
               PROVE  rank[i] # rank[j]
    OBVIOUS
  <2>1. j \in Below(j) /\ j \notin Below(i) /\ Below(i) \in SUBSET Below(j)
    <3>1. i \in Nat /\ j \in Nat
      OBVIOUS
    <3>2. ~(j <= i) /\ j <= j /\ \A x \in K : x <= i => x <= j
      BY <3>1
    <3>3. Below(i) \in SUBSET Below(j)
      BY <3>2
    <3> QED BY <3>2, <3>3
  <2>2. Cardinality(Below(i)) # Cardinality(Below(j))
    BY <1>2, <2>1, FS_Subset
  <2> QED BY <2>2
<1>5. rank \in Surjection(K, 1 .. m)
  <2>1. rank \in Injection(K, 1 .. m)
    BY <1>3, <1>4, Fun_IsInj
  <2>2. IsFiniteSet(1 .. m) /\ Cardinality(1 .. m) = m
    BY <1>1, FS_Interval
  <2> QED BY <2>1, <2>2, FS_Injection
<1>6. PICK i \in K : rank[i] = 1
  <2>1. 1 \in 1 .. m
    BY <1>1
  <2> HIDE DEF rank, m
  <2>2. \A k \in 1 .. m : \E i \in K : rank[i] = k
    BY <1>5, Fun_SurjectionProperties
  <2> QED BY <2>1, <2>2
<1>7. \A j \in Below(i) : j = i
  <2>1. \E x : Below(i) = {x}
    BY <1>2, <1>6, FS_Singleton
  <2> QED BY <2>1
<1>8. \A j \in K : i <= j
  <2>1. \A j \in K : j \in Nat
    OBVIOUS
  <2> QED BY <1>7, <2>1
<1> QED BY <1>8

LEMMA LeastNumber ==
  ASSUME NEW K \in SUBSET Nat, K # {}
  PROVE  \E i \in K : \A j \in K : i <= j
<1>1. PICK k \in K : TRUE
  OBVIOUS
<1> DEFINE L == {j \in K : j <= k}
<1>2. L \in SUBSET Nat /\ L # {} /\ IsFiniteSet(L)
  <2>1. \A j \in K : j \in Nat
    OBVIOUS
  <2>2. L \in SUBSET Nat
    BY <2>1
  <2>3. k <= k /\ k \in Nat
    BY <2>1
  <2>4. k \in L /\ \A j \in L : j <= k
    BY <2>3
  <2> QED BY <2>2, <2>3, <2>4, FS_BoundedSetOfNaturals
<1>3. PICK i \in L : \A j \in L : i <= j
  BY <1>2, LeastOfFinite
<1>4. \A j \in K : j \in L \/ k < j
  OBVIOUS
<1> QED BY <1>3, <1>4

-----------------------------------------------------------------------------
(* The loss of x ticks of debt: the recursion has a solution.              *)
Solves(f, P, n) ==
  /\ f \in [0 .. n -> Nat]
  /\ \A x \in 0 .. n : f[x] = x + (IF x > P THEN 2 * f[x - P] ELSE 0)

(* Two solutions agree where both are defined.                             *)
LEMMA SolvedOnce ==
  ASSUME NEW P \in Nat \ {0}, NEW m \in Nat, NEW n \in Nat, m <= n,
         NEW f, NEW g, Solves(f, P, m), Solves(g, P, n)
  PROVE  \A x \in 0 .. m : f[x] = g[x]
<1> DEFINE K == {x \in 0 .. m : f[x] # g[x]}
<1> SUFFICES ASSUME K # {} PROVE FALSE
  OBVIOUS
<1>1. PICK x \in K : \A y \in K : x <= y
  <2>1. K \in SUBSET Nat
    OBVIOUS
  <2> QED BY <2>1, LeastNumber
<1>2. /\ f[x] = x + (IF x > P THEN 2 * f[x - P] ELSE 0)
      /\ g[x] = x + (IF x > P THEN 2 * g[x - P] ELSE 0)
  BY DEF Solves
<1>3. x > P => x - P \in 0 .. m /\ x - P < x
  OBVIOUS
<1>4. x > P => f[x - P] = g[x - P]
  BY <1>1, <1>3
<1> QED BY <1>2, <1>4

(* There is one for every bound.                                           *)
LEMMA Solvable ==
  ASSUME NEW P \in Nat \ {0}, NEW n \in Nat
  PROVE  \E f : Solves(f, P, n)
<1> DEFINE K == {k \in Nat : ~\E f : Solves(f, P, k)}
<1> SUFFICES ASSUME K # {} PROVE FALSE
  OBVIOUS
<1>1. PICK k \in K : \A j \in K : k <= j
  BY LeastNumber
<1>2. CASE k = 0
  <2> DEFINE f == [x \in 0 .. 0 |-> 0]
  <2>1. Solves(f, P, 0)
    BY DEF Solves
  <2> QED BY <1>2, <2>1
<1>3. CASE k > 0
  <2>1. k - 1 \in Nat /\ k - 1 \notin K
    BY <1>1, <1>3
  <2>2. PICK g : Solves(g, P, k - 1)
    BY <2>1
  <2> DEFINE f == [x \in 0 .. k |->
                     IF x < k THEN g[x]
                     ELSE k + (IF k > P THEN 2 * g[k - P] ELSE 0)]
  <2>3. g \in [0 .. k - 1 -> Nat]
    BY <2>2 DEF Solves
  <2>4. k > P => k - P \in 0 .. k - 1
    OBVIOUS
  <2>5. f \in [0 .. k -> Nat]
    BY <2>3, <2>4
  <2>6. \A x \in 0 .. k : f[x] = x + (IF x > P THEN 2 * f[x - P] ELSE 0)
    <3> TAKE x \in 0 .. k
    <3>1. x > P => x - P \in 0 .. k /\ x - P < k
      OBVIOUS
    <3>2. x > P => f[x - P] = g[x - P]
      BY <3>1
    <3>3. CASE x = k
      BY <3>2, <3>3
    <3>4. CASE x < k
      <4>1. x \in 0 .. k - 1
        BY <3>4
      <4>2. g[x] = x + (IF x > P THEN 2 * g[x - P] ELSE 0)
        BY <2>2, <4>1 DEF Solves
      <4> QED BY <3>2, <3>4, <4>2
    <3> QED BY <3>3, <3>4
  <2>7. Solves(f, P, k)
    BY <2>5, <2>6 DEF Solves
  <2> QED BY <2>7
<1> QED BY <1>2, <1>3

(* The values for all bounds together make up the function Loss.           *)
LEMMA LossIs ==
  ASSUME NEW P \in Nat \ {0}
  PROVE  /\ Loss(P) \in [Nat -> Nat]
         /\ \A x \in Nat :
              Loss(P)[x] = x + (IF x > P THEN 2 * Loss(P)[x - P] ELSE 0)
<1> DEFINE Q(d) == d = [x \in Nat |-> x + (IF x > P THEN 2 * d[x - P] ELSE 0)]
           part(n) == CHOOSE f : Solves(f, P, n)
           whole == [x \in Nat |-> part(x)[x]]
<1>1. \A n \in Nat : Solves(part(n), P, n)
  BY Solvable
<1> HIDE DEF part
<1>2. \A n \in Nat : part(n)[n] \in Nat
  <2> TAKE n \in Nat
  <2>1. n \in 0 .. n
    OBVIOUS
  <2> QED BY <1>1, <2>1 DEF Solves
<1>3. \A x \in Nat : whole[x] = x + (IF x > P THEN 2 * whole[x - P] ELSE 0)
  <2> TAKE x \in Nat
  <2>1. part(x)[x] = x + (IF x > P THEN 2 * part(x)[x - P] ELSE 0)
    <3>1. x \in 0 .. x
      OBVIOUS
    <3> QED BY <1>1, <3>1 DEF Solves
  <2>2. ASSUME x > P PROVE part(x)[x - P] = whole[x - P]
    <3> DEFINE y == x - P
    <3>1. y \in Nat /\ y <= x /\ y \in 0 .. y
      BY <2>2
    <3> HIDE DEF y
    <3>2. Solves(part(y), P, y) /\ Solves(part(x), P, x)
      BY <1>1, <3>1
    <3>3. part(y)[y] = part(x)[y]
      BY <3>1, <3>2, SolvedOnce
    <3>4. part(x)[y] = whole[y]
      BY <3>1, <3>3
    <3> QED BY <3>4 DEF y
  <2> QED BY <2>1, <2>2
<1>4. Q(whole)
  BY <1>3
<1>5. Loss(P) = CHOOSE d : Q(d)
  BY DEF Loss
<1> HIDE DEF Q, whole
<1>6. Q(Loss(P))
  BY <1>4, <1>5
<1>7. \A x \in Nat :
        Loss(P)[x] = x + (IF x > P THEN 2 * Loss(P)[x - P] ELSE 0)
  BY <1>6 DEF Q
<1>8. \A x \in Nat : Loss(P)[x] \in Nat
  <2> DEFINE K == {x \in Nat : Loss(P)[x] \notin Nat}
  <2> SUFFICES ASSUME K # {} PROVE FALSE
    OBVIOUS
  <2>1. PICK x \in K : \A y \in K : x <= y
    BY LeastNumber
  <2>2. x > P => x - P \in Nat /\ x - P < x
    OBVIOUS
  <2>3. x > P => Loss(P)[x - P] \in Nat
    BY <2>1, <2>2
  <2>4. Loss(P)[x] = x + (IF x > P THEN 2 * Loss(P)[x - P] ELSE 0)
    BY <1>7
  <2> QED BY <2>3, <2>4
<1>9. Loss(P) \in [Nat -> Nat]
  <2>1. Loss(P) = [x \in Nat |-> Loss(P)[x]]
    BY <1>6 DEF Q
  <2> QED BY <1>8, <2>1
<1> QED BY <1>7, <1>9

(* The loss of one debt, by cases.                                         *)
LEMMA LossFacts ==
  ASSUME NEW P \in Nat \ {0}
  PROVE  \A x \in Int :
           /\ LossFrom(P, x) \in Nat
           /\ x <= 0 => LossFrom(P, x) = 0
           /\ x > 0 => LossFrom(P, x) = x + 2 * LossFrom(P, x - P)
           /\ x > 0 /\ x <= P => LossFrom(P, x) = x
<1> TAKE x \in Int
<1>1. /\ Loss(P) \in [Nat -> Nat]
      /\ \A n \in Nat :
           Loss(P)[n] = n + (IF n > P THEN 2 * Loss(P)[n - P] ELSE 0)
  BY LossIs
<1>2. \A n \in Int : LossFrom(P, n) \in Nat /\ (n <= 0 => LossFrom(P, n) = 0)
  BY <1>1 DEF LossFrom
<1>3. ASSUME x > 0
      PROVE  LossFrom(P, x) = x + 2 * LossFrom(P, x - P)
  <2>1. x \in Nat /\ LossFrom(P, x) = Loss(P)[x]
    BY <1>3 DEF LossFrom
  <2>2. Loss(P)[x] = x + (IF x > P THEN 2 * Loss(P)[x - P] ELSE 0)
    BY <1>1, <2>1
  <2>3. LossFrom(P, x - P) = IF x > P THEN Loss(P)[x - P] ELSE 0
    BY <2>1 DEF LossFrom
  <2>4. x > P => Loss(P)[x - P] \in Nat
    <3>1. x > P => x - P \in Nat
      BY <2>1
    <3> QED BY <1>1, <3>1
  <2> QED BY <2>1, <2>2, <2>3, <2>4
<1>4. x > 0 /\ x <= P => LossFrom(P, x) = x
  <2>1. x <= P => x - P \in Int /\ x - P <= 0
    OBVIOUS
  <2> QED BY <1>2, <1>3, <2>1
<1> QED BY <1>2, <1>3, <1>4

(* Each further tick of debt costs at least as much as those before it.    *)
LEMMA LossConvex ==
  ASSUME NEW P \in Nat \ {0}, NEW x \in Int, NEW u \in Int, NEW g \in Nat,
         x <= u
  PROVE  LossFrom(P, x) + LossFrom(P, u - g)
           <= LossFrom(P, u) + LossFrom(P, x - g)
<1> DEFINE C(a, b) == LossFrom(P, a) + LossFrom(P, b - g)
                        <= LossFrom(P, b) + LossFrom(P, a - g)
           K == {n \in Nat : ~\A a \in Int : a <= n => C(a, n)}
<1>0. \A a \in Int : LossFrom(P, a) \in Nat /\ (a <= 0 => LossFrom(P, a) = 0)
  BY LossFacts
<1>1. ASSUME NEW a \in Int, NEW b \in Int, a <= b, b <= 0
      PROVE  C(a, b)
  BY <1>0, <1>1
<1>2. K = {}
  <2> SUFFICES ASSUME K # {} PROVE FALSE
    OBVIOUS
  <2>1. PICK n \in K : \A m \in K : n <= m
    BY LeastNumber
  <2>2. PICK a \in Int : a <= n /\ ~C(a, n)
    OBVIOUS
  <2>3. n > 0
    BY <1>1, <2>2
  <2>4. C(a - P, n - P)
    <3>1. CASE n - P <= 0
      BY <1>1, <2>2, <3>1
    <3>2. CASE n - P > 0
      <4>1. n - P \in Nat /\ n - P \notin K
        BY <2>1, <3>2
      <4> QED BY <2>2, <4>1
    <3> QED BY <3>1, <3>2
  <2> DEFINE rest(b) == LossFrom(P, b - P)
             pos(b) == IF b > 0 THEN b ELSE 0
  <2>5. \A b \in Int : rest(b) \in Nat /\ LossFrom(P, b) = pos(b) + 2 * rest(b)
    <3> TAKE b \in Int
    <3>1. b - P \in Int /\ (b <= 0 => b - P <= 0)
      OBVIOUS
    <3>2. rest(b) \in Nat /\ (b <= 0 => rest(b) = 0)
      BY <1>0, <3>1
    <3>3. CASE b > 0
      <4>1. LossFrom(P, b) = b + 2 * rest(b)
        BY <3>3, LossFacts
      <4> QED BY <3>2, <3>3, <4>1
    <3>4. CASE b <= 0
      <4>1. LossFrom(P, b) = 0
        BY <1>0, <3>4
      <4> QED BY <3>2, <3>4, <4>1
    <3> QED BY <3>3, <3>4
  <2>6. rest(a) + rest(n - g) <= rest(n) + rest(a - g)
    <3>1. (n - P) - g = (n - g) - P /\ (a - P) - g = (a - g) - P
      OBVIOUS
    <3> QED BY <2>4, <3>1
  <2>7. pos(a) + pos(n - g) <= pos(n) + pos(a - g)
    BY <2>2
  <2>8. /\ LossFrom(P, a) = pos(a) + 2 * rest(a)
        /\ LossFrom(P, n - g) = pos(n - g) + 2 * rest(n - g)
        /\ LossFrom(P, n) = pos(n) + 2 * rest(n)
        /\ LossFrom(P, a - g) = pos(a - g) + 2 * rest(a - g)
        /\ {rest(a), rest(n), rest(n - g), rest(a - g)} \subseteq Nat
        /\ {pos(a), pos(n), pos(n - g), pos(a - g)} \subseteq Nat
    BY <2>5
  <2> HIDE DEF rest, pos
  <2>9. C(a, n)
    BY <2>6, <2>7, <2>8
  <2> QED BY <2>2, <2>9
<1>3. CASE u <= 0
  BY <1>1, <1>3
<1>4. CASE u > 0
  <2>1. u \in Nat /\ u \notin K
    BY <1>2, <1>4
  <2> QED BY <2>1
<1> QED BY <1>3, <1>4

(* A larger debt loses more.                                               *)
LEMMA LossGrows ==
  ASSUME NEW P \in Nat \ {0}, NEW x \in Int, NEW u \in Int, x <= u
  PROVE  LossFrom(P, x) <= LossFrom(P, u)
<1> DEFINE low == IF x <= 0 THEN x ELSE 0
           g == u - x
<1>1. g \in Nat /\ u - g = x /\ low \in Int /\ low <= u /\ low <= 0
      /\ low - g \in Int /\ low - g <= 0
  OBVIOUS
<1> HIDE DEF low, g
<1>2. LossFrom(P, low) + LossFrom(P, x) <= LossFrom(P, u) + LossFrom(P, low - g)
  BY <1>1, LossConvex
<1> QED BY <1>1, <1>2, LossFacts

(* What a reservation is worth grows with the time it is due.              *)
LEMMA WorthFacts ==
  ASSUME NEW P \in Nat \ {0}, NEW x \in Int
  PROVE  /\ Worth(P, x) \in Nat
         /\ x >= 0 => Worth(P, x) = P + LossFrom(P, x) - LossFrom(P, x - P)
         /\ Worth(P, x) >= P + x
<1>1. x - P \in Int /\ (x <= 0 => x - P <= 0)
  OBVIOUS
<1>2. LossFrom(P, x - P) \in Nat /\ (x <= 0 => LossFrom(P, x - P) = 0)
  BY <1>1, LossFacts
<1>3. x > 0 => LossFrom(P, x) = x + 2 * LossFrom(P, x - P)
  BY LossFacts
<1>4. x <= 0 => LossFrom(P, x) = 0
  BY LossFacts
<1> QED BY <1>2, <1>3, <1>4 DEF Worth

(* A token due later is worth more, by the time in between at least.       *)
LEMMA WorthGrows ==
  ASSUME NEW P \in Nat \ {0}, NEW x \in Int, NEW y \in Int, x <= y
  PROVE  /\ Worth(P, x) <= Worth(P, y)
         /\ P + x >= 0 => Worth(P, x) + (y - x) <= Worth(P, y)
<1>1. x - P \in Int /\ y - P \in Int /\ x - P <= y - P
  OBVIOUS
<1>2. /\ LossFrom(P, x - P) <= LossFrom(P, y - P)
      /\ LossFrom(P, x - P) \in Nat /\ LossFrom(P, y - P) \in Nat
  BY <1>1, LossGrows, LossFacts
<1>3. x - P <= 0 => LossFrom(P, x - P) = 0
  BY <1>1, LossFacts
<1>4. P + x = 0 => LossFrom(P, x - P) = 0
  <2>1. P + x = 0 => x - P <= 0
    OBVIOUS
  <2> QED BY <1>3, <2>1
<1> QED BY <1>2, <1>4 DEF Worth

(* What a cancellation gives back, and the losses it avoids, is never more *)
(* than the reservation is worth: x ticks of debt when the last event is u *)
(* ticks ahead, and the reservation due in y.                              *)
LEMMA GainIsWorth ==
  ASSUME NEW P \in Nat \ {0}, NEW x \in Int, NEW u \in Nat, NEW y \in Int,
         x <= u, P + y - u > 0
  PROVE  (P + y - u) + LossFrom(P, x) - LossFrom(P, x - (P + y - u))
           <= Worth(P, y)
<1> DEFINE g == P + y - u
<1>1. g \in Nat /\ u - g \in Int /\ x - g \in Int /\ u - P \in Int /\ y - P \in Int
  OBVIOUS
<1>2. /\ LossFrom(P, x) \in Nat /\ LossFrom(P, x - g) \in Nat
      /\ LossFrom(P, u) \in Nat /\ LossFrom(P, u - g) \in Nat
      /\ LossFrom(P, u - P) \in Nat /\ LossFrom(P, y - P) \in Nat
  <2>1. \A n \in Int : LossFrom(P, n) \in Nat
    BY LossFacts
  <2> HIDE DEF g
  <2> QED BY <1>1, <2>1
<1>3. LossFrom(P, x) + LossFrom(P, u - g) <= LossFrom(P, u) + LossFrom(P, x - g)
  BY <1>1, LossConvex
<1>4. Worth(P, y) = P + y + LossFrom(P, y - P)
  BY DEF Worth
<1>5. LossFrom(P, u) - LossFrom(P, u - g) <= u + LossFrom(P, y - P)
  <2>1. CASE u = 0
    <3>1. LossFrom(P, u) = 0
      BY <2>1, LossFacts
    <3> QED BY <1>2, <2>1, <3>1
  <2>2. CASE u > 0
    <3>1. LossFrom(P, u) = u + 2 * LossFrom(P, u - P)
      BY <2>2, LossFacts
    <3>2. 2 * LossFrom(P, u - P) <= LossFrom(P, y - P) + LossFrom(P, u - g)
      <4>1. CASE y >= u
        <5> DEFINE d == y - u
        <5>1. /\ d \in Nat /\ u - P <= y - P
              /\ (y - P) - d = u - P /\ (u - P) - d = u - g
          BY <4>1
        <5> HIDE DEF d, g
        <5>2. LossFrom(P, u - P) + LossFrom(P, (y - P) - d)
                <= LossFrom(P, y - P) + LossFrom(P, (u - P) - d)
          BY <1>1, <5>1, LossConvex
        <5> QED BY <1>2, <5>1, <5>2
      <4>2. CASE y < u
        <5> DEFINE d == u - y
        <5>1. /\ d \in Nat /\ u - P <= u - g
              /\ (u - g) - d = u - P /\ (u - P) - d = y - P
          BY <4>2
        <5> HIDE DEF d, g
        <5>2. LossFrom(P, u - P) + LossFrom(P, (u - g) - d)
                <= LossFrom(P, u - g) + LossFrom(P, (u - P) - d)
          BY <1>1, <5>1, LossConvex
        <5> QED BY <1>2, <5>1, <5>2
      <4> QED BY <4>1, <4>2
    <3> QED BY <1>2, <3>1, <3>2
  <2> QED BY <2>1, <2>2
<1> HIDE DEF g
<1>6. g + LossFrom(P, x) - LossFrom(P, x - g) <= g + u + LossFrom(P, y - P)
  BY <1>1, <1>2, <1>3, <1>5
<1>7. g + u = P + y
  BY DEF g
<1>8. g + LossFrom(P, x) - LossFrom(P, x - g) <= Worth(P, y)
  BY <1>4, <1>6, <1>7
<1> QED BY <1>8 DEF g

(* Reservations under way: requests with the time their token is due.      *)
Due(A) == A \in SUBSET (Request \X Nat) /\ IsFiniteSet(A)

Token(P, e, x) == {x} \X (1 .. Worth(P, x[2] - e))
Tokens(P, A, e) == UNION {Token(P, e, x) : x \in A}

(* The ticks a single reservation is worth.                                *)
LEMMA TokenCount ==
  ASSUME NEW P \in Nat \ {0}, NEW e \in Int, NEW x \in Request \X Nat
  PROVE  /\ Worth(P, x[2] - e) \in Nat
         /\ IsFiniteSet(Token(P, e, x))
         /\ Cardinality(Token(P, e, x)) = Worth(P, x[2] - e)
<1> DEFINE w == Worth(P, x[2] - e)
<1>1. w \in Nat
  <2>1. x[2] - e \in Int
    OBVIOUS
  <2> QED BY <2>1, WorthFacts
<1> HIDE DEF w
<1>2. IsFiniteSet(1 .. w) /\ Cardinality(1 .. w) = w
  BY <1>1, FS_Interval
<1>3. IsFiniteSet({x}) /\ Cardinality({x}) = 1
  BY FS_Singleton
<1>4. /\ IsFiniteSet({x} \X (1 .. w))
      /\ Cardinality({x} \X (1 .. w)) = w
  <2> DEFINE I == 1 .. w
             J == {x}
  <2>1. /\ IsFiniteSet(I) /\ Cardinality(I) = w
        /\ IsFiniteSet(J) /\ Cardinality(J) = 1
    BY <1>2, <1>3
  <2> HIDE DEF I, J
  <2>2. /\ IsFiniteSet(J \X I)
        /\ Cardinality(J \X I) = Cardinality(J) * Cardinality(I)
    BY <2>1, FS_Product
  <2>3. 1 * w = w
    BY <1>1
  <2> QED BY <2>1, <2>2, <2>3 DEF I, J
<1> QED BY <1>1, <1>4 DEF w, Token

(* A finite number of reservations is worth a number of ticks.             *)
LEMMA OwedNat ==
  ASSUME NEW P \in Nat \ {0}, NEW e \in Int, NEW A, Due(A)
  PROVE  /\ IsFiniteSet(Tokens(P, A, e))
         /\ Owed(P, A, e) = Cardinality(Tokens(P, A, e))
         /\ Owed(P, A, e) \in Nat
<1> DEFINE T == {Token(P, e, x) : x \in A}
<1>1. IsFiniteSet(T)
  <2>1. IsFiniteSet(A)
    BY DEF Due
  <2> DEFINE f == [x \in A |-> Token(P, e, x)]
  <2>2. f \in Surjection(A, T)
    BY Fun_IsSurj
  <2> QED BY <2>1, <2>2, FS_Surjection
<1>2. \A t \in T : IsFiniteSet(t)
  BY TokenCount DEF Due
<1>3. IsFiniteSet(UNION T)
  BY <1>1, <1>2, FS_UNION
<1>4. Tokens(P, A, e) = UNION T
  BY DEF Tokens
<1>5. Owed(P, A, e) = Cardinality(Tokens(P, A, e))
  BY DEF Owed, Tokens, Token
<1> QED BY <1>3, <1>4, <1>5, FS_CardinalityType

(* One token more.                                                         *)
LEMMA OwedSplit ==
  ASSUME NEW P \in Nat \ {0}, NEW e \in Int, NEW A, Due(A),
         NEW x \in A
  PROVE  Owed(P, A, e) = Owed(P, A \ {x}, e) + Worth(P, x[2] - e)
<1> DEFINE B == A \ {x}
<1>1. Due(B) /\ x \in Request \X Nat
  BY FS_Subset DEF Due
<1>2. Tokens(P, A, e) = Tokens(P, B, e) \cup Token(P, e, x)
  BY DEF Tokens
<1>3. Tokens(P, B, e) \cap Token(P, e, x) = {}
  <2> SUFFICES ASSUME NEW u \in Tokens(P, B, e), u \in Token(P, e, x)
               PROVE  FALSE
    OBVIOUS
  <2>1. PICK q \in B : u \in Token(P, e, q)
    BY DEF Tokens
  <2>2. u[1] = q /\ u[1] = x
    BY <2>1 DEF Token
  <2> QED BY <2>2
<1> HIDE DEF B
<1>4. /\ IsFiniteSet(Tokens(P, B, e)) /\ IsFiniteSet(Token(P, e, x))
      /\ Cardinality(Token(P, e, x)) = Worth(P, x[2] - e)
      /\ Owed(P, B, e) = Cardinality(Tokens(P, B, e))
      /\ Owed(P, A, e) = Cardinality(Tokens(P, A, e))
      /\ Owed(P, B, e) \in Nat /\ Worth(P, x[2] - e) \in Nat
  BY <1>1, OwedNat, TokenCount
<1>5. Cardinality(Tokens(P, A, e))
        = Cardinality(Tokens(P, B, e)) + Cardinality(Token(P, e, x))
            - Cardinality(Tokens(P, B, e) \cap Token(P, e, x))
  BY <1>2, <1>4, FS_Union
<1>6. Cardinality({}) = 0
  BY FS_EmptySet
<1>7. Cardinality(Tokens(P, B, e) \cap Token(P, e, x)) = 0
  BY <1>3, <1>6, Zenon
<1>8. Owed(P, A, e) = Owed(P, B, e) + Worth(P, x[2] - e)
  BY <1>4, <1>5, <1>7
<1> QED BY <1>8 DEF B

(* Fewer reservations, or a later moment: less is owed.                    *)
LEMMA OwedLess ==
  ASSUME NEW P \in Nat \ {0}, NEW e \in Int, NEW f \in Int, e <= f,
         NEW A, Due(A), NEW B \in SUBSET A
  PROVE  Owed(P, B, f) <= Owed(P, A, e)
<1>1. Due(B)
  BY FS_Subset DEF Due
<1>2. ASSUME NEW x \in B
      PROVE  Token(P, f, x) \subseteq Token(P, e, x)
  <2> DEFINE v == Worth(P, x[2] - f)
             w == Worth(P, x[2] - e)
  <2>1. x \in Request \X Nat
    BY DEF Due
  <2>2. x[2] - f \in Int /\ x[2] - e \in Int /\ x[2] - f <= x[2] - e
    BY <2>1
  <2>3. v <= w
    BY <2>2, WorthGrows
  <2>4. v \in Nat /\ w \in Nat
    BY <2>2, WorthFacts
  <2> HIDE DEF v, w
  <2>5. 1 .. v \subseteq 1 .. w
    BY <2>3, <2>4
  <2>6. {x} \X (1 .. v) \subseteq {x} \X (1 .. w)
    BY <2>5
  <2> QED BY <2>6 DEF Token, v, w
<1>3. Tokens(P, B, f) \subseteq Tokens(P, A, e)
  BY <1>2 DEF Tokens
<1>4. /\ IsFiniteSet(Tokens(P, A, e))
      /\ Owed(P, A, e) = Cardinality(Tokens(P, A, e))
      /\ Owed(P, B, f) = Cardinality(Tokens(P, B, f))
  BY <1>1, OwedNat
<1> QED BY <1>3, <1>4, FS_Subset

(* A token that is not worthless yet loses all the time in between.        *)
LEMMA OwedDrops ==
  ASSUME NEW P \in Nat \ {0}, NEW e \in Int, NEW f \in Int, e <= f,
         NEW A, Due(A), NEW x \in A, P + x[2] - f >= 0
  PROVE  Owed(P, A, f) + (f - e) <= Owed(P, A, e)
<1> DEFINE B == A \ {x}
           v == Worth(P, x[2] - f)
           w == Worth(P, x[2] - e)
<1>1. Due(B) /\ x \in Request \X Nat
  BY FS_Subset DEF Due
<1>2. /\ x[2] - f \in Int /\ x[2] - e \in Int /\ x[2] - f <= x[2] - e
      /\ P + (x[2] - f) >= 0 /\ (x[2] - e) - (x[2] - f) = f - e
  BY <1>1
<1>3. v + (f - e) <= w
  BY <1>2, WorthGrows
<1>4. v \in Nat /\ w \in Nat
  BY <1>2, WorthFacts
<1>5. Owed(P, A, f) = Owed(P, B, f) + v /\ Owed(P, A, e) = Owed(P, B, e) + w
  BY OwedSplit
<1> HIDE DEF B, v, w
<1>6. Owed(P, B, f) <= Owed(P, B, e)
  BY <1>1, OwedLess
<1>7. Owed(P, B, f) \in Nat /\ Owed(P, B, e) \in Nat
  BY <1>1, OwedNat
<1> QED BY <1>3, <1>4, <1>5, <1>6, <1>7

(* Tokens that are worthless count for nothing.                            *)
LEMMA OwedNone ==
  ASSUME NEW P \in Nat \ {0}, NEW e \in Int, NEW A, Due(A),
         \A x \in A : P + x[2] - e <= 0
  PROVE  Owed(P, A, e) = 0
<1>1. ASSUME NEW x \in A
      PROVE  Token(P, e, x) = {}
  <2>1. x \in Request \X Nat
    BY DEF Due
  <2>2. P + (x[2] - e) <= 0
    BY <2>1
  <2>3. Worth(P, x[2] - e) = 0
    BY <2>2 DEF Worth
  <2>4. 1 .. 0 = {}
    OBVIOUS
  <2> QED BY <2>3, <2>4 DEF Token
<1>2. Tokens(P, A, e) = {}
  BY <1>1 DEF Tokens
<1>3. Cardinality({}) = 0
  BY FS_EmptySet
<1> QED BY <1>2, <1>3, OwedNat

(* The numbers of one bucket.                                              *)
Numbers(P, F, t, z, y, E) ==
  /\ P \in Nat \ {0} /\ F \in Nat /\ P <= F
  /\ t \in Nat /\ z \in Int /\ y \in Int /\ E \in Nat

(* Without debt there is no loss; with fewer reservations less is undone.  *)
LEMMA UndoneFacts ==
  ASSUME NEW P \in Nat \ {0}, NEW z \in Int, NEW e \in Int, NEW A, Due(A)
  PROVE  /\ Undone(P, z, A, e) \in Int
         /\ z <= e => Undone(P, z, A, e) = z - Owed(P, A, e)
         /\ z <= e => Undone(P, z, A, e) <= z
         /\ A = {} => Undone(P, z, A, e) >= z
         /\ \A B \in SUBSET A : Undone(P, z, A, e) <= Undone(P, z, B, e)
<1>1. z - e \in Int /\ (z <= e => z - e <= 0)
  OBVIOUS
<1>2. LossFrom(P, z - e) \in Nat /\ (z <= e => LossFrom(P, z - e) = 0)
  BY <1>1, LossFacts
<1>3. Owed(P, A, e) \in Nat
  BY OwedNat
<1>4. A = {} => Owed(P, A, e) = 0
  BY OwedNone
<1>5. ASSUME NEW B \in SUBSET A
      PROVE  Undone(P, z, A, e) <= Undone(P, z, B, e)
  <2>1. Due(B)
    BY FS_Subset DEF Due
  <2>2. Owed(P, B, e) <= Owed(P, A, e) /\ Owed(P, B, e) \in Nat
    BY <2>1, OwedLess, OwedNat
  <2> QED BY <1>2, <1>3, <2>2 DEF Undone
<1> QED BY <1>2, <1>3, <1>4, <1>5 DEF Undone

(* A reservation takes a token that is worth what it costs.                *)
LEMMA UndoneReserve ==
  ASSUME NEW P \in Nat \ {0}, NEW z \in Int, NEW t \in Nat, NEW e \in Nat,
         NEW A, Due(A), NEW r, NEW a \in Nat, <<r, a>> \notin A,
         Due(A \cup {<<r, a>>}),
         \/ a = z + P /\ e <= a
         \/ a = t /\ e = t /\ z + P <= t
  PROVE  Undone(P, z, A, e) <= Undone(P, z + P, A \cup {<<r, a>>}, e)
<1> DEFINE x == <<r, a>>
           C == A \cup {x}
<1>1. x \in C /\ C \ {x} = A /\ x[2] = a
  OBVIOUS
<1>2. Owed(P, C, e) = Owed(P, A, e) + Worth(P, a - e)
  <2>1. Owed(P, C, e) = Owed(P, C \ {x}, e) + Worth(P, x[2] - e)
    BY <1>1, OwedSplit
  <2> QED BY <1>1, <2>1
<1>3. Owed(P, A, e) \in Nat
  BY OwedNat
<1>4. /\ z - e \in Int /\ z + P - e \in Int /\ a - e \in Int /\ a - e >= 0
      /\ (z + P - e) - P = z - e
  OBVIOUS
<1>5. LossFrom(P, z - e) \in Nat /\ LossFrom(P, z + P - e) \in Nat
  BY <1>4, LossFacts
<1>6. Worth(P, a - e) = P + LossFrom(P, a - e) - LossFrom(P, a - e - P)
  BY <1>4, WorthFacts
<1>7. Worth(P, a - e) = P + LossFrom(P, z + P - e) - LossFrom(P, z - e)
  <2>1. CASE a = z + P
    <3>1. a - e = z + P - e /\ a - e - P = z - e
      BY <2>1
    <3> QED BY <1>6, <3>1
  <2>2. CASE a = t /\ e = t /\ z + P <= t
    <3>1. a - e <= 0 /\ a - e - P \in Int /\ a - e - P <= 0
          /\ z + P - e <= 0 /\ z - e <= 0
      BY <2>2
    <3>2. /\ LossFrom(P, a - e) = 0 /\ LossFrom(P, a - e - P) = 0
          /\ LossFrom(P, z + P - e) = 0 /\ LossFrom(P, z - e) = 0
      BY <1>4, <3>1, LossFacts
    <3> QED BY <1>6, <3>2
  <2> QED BY <2>1, <2>2
<1> HIDE DEF C
<1>8. Undone(P, z, A, e) <= Undone(P, z + P, C, e)
  BY <1>2, <1>3, <1>5, <1>7 DEF Undone
<1> QED BY <1>8 DEF C

(* Reserve: one token more is taken and owed.                              *)
LEMMA CoverReserve ==
  ASSUME NEW P, NEW F, NEW t, NEW z, NEW y, NEW E, Numbers(P, F, t, z, y, E),
         NEW A, Due(A), CoveredBy(P, F, t, z, y, E, A),
         NEW r, NEW a, a = (IF z + P <= t THEN t ELSE z + P),
         <<r, a>> \notin A, Due(A \cup {<<r, a>>})
  PROVE  CoveredBy(P, F, t, z + P, y, a, A \cup {<<r, a>>})
<1> DEFINE C == A \cup {<<r, a>>}
           v(e) == Undone(P, z, A, e)
           w(e) == Undone(P, z + P, C, e)
<1>0. /\ P \in Nat /\ P \in Nat \ {0} /\ F \in Nat /\ P <= F /\ t \in Nat
      /\ z \in Int /\ y \in Int /\ E \in Nat
  BY DEF Numbers
<1>1. a \in Nat /\ z + P <= a /\ t <= a
  BY <1>0
<1>2. t - F <= y /\ y <= z
  BY DEF CoveredBy
<1>3. ASSUME NEW e \in Events(t, a)
      PROVE  /\ e - F <= w(e)
             /\ y = t - F \/ y <= w(e)
  <2>1. e \in Nat /\ e <= a /\ t <= e
    BY <1>1 DEF Events
  <2>2. v(e) <= w(e)
    <3>1. \/ a = z + P /\ e <= a
          \/ a = t /\ e = t /\ z + P <= t
      BY <1>0, <2>1
    <3> QED BY <1>0, <1>1, <2>1, <3>1, UndoneReserve
  <2>3. e - F <= z
    BY <1>0, <1>2, <2>1
  <2>4. z + P \in Int /\ e \in Int
    BY <1>0, <2>1
  <2>5. v(e) \in Int /\ w(e) \in Int
    BY <1>0, <2>4, UndoneFacts
  <2>6. CASE A = {}
    <3>1. v(e) >= z
      BY <1>0, <2>1, <2>6, UndoneFacts
    <3> QED BY <1>0, <1>2, <2>1, <2>2, <2>3, <2>5, <3>1
  <2>7. CASE A # {} /\ e <= E
    <3>1. e \in Events(t, E)
      BY <1>0, <2>1, <2>7 DEF Events
    <3>2. e - F <= v(e) /\ (y = t - F \/ y <= v(e))
      BY <2>7, <3>1 DEF CoveredBy
    <3> HIDE DEF v, w
    <3> QED BY <1>0, <2>1, <2>2, <2>5, <3>2
  <2>8. CASE A # {} /\ E < e
    <3>1. E \in Events(t, E) /\ E \in Int
      BY <1>0 DEF Events
    <3>2. z <= E /\ E - F <= v(E) /\ (y = t - F \/ y <= v(E))
      BY <2>8, <3>1 DEF CoveredBy
    <3>3. /\ v(E) = z - Owed(P, A, E) /\ v(E) \in Int
      BY <1>0, <3>1, <3>2, UndoneFacts
    <3>4. v(e) = z - Owed(P, A, e)
      <4>1. z <= e
        BY <1>0, <2>1, <2>8, <3>2
      <4> QED BY <1>0, <2>4, <4>1, UndoneFacts
    <3>5. Owed(P, A, e) <= Owed(P, A, E)
      <4>1. E <= e
        BY <1>0, <2>1, <2>8
      <4> QED BY <1>0, <2>4, <3>1, <4>1, OwedLess
    <3>6. Owed(P, A, e) \in Nat /\ Owed(P, A, E) \in Nat
      BY <1>0, <2>4, <3>1, OwedNat
    <3>7. e - F <= v(e)
      <4>1. CASE \E x \in A : P + x[2] - e >= 0
        <5>1. PICK x \in A : P + x[2] - e >= 0
          BY <4>1
        <5>2. Owed(P, A, e) + (e - E) <= Owed(P, A, E)
          <6>1. E <= e
            BY <1>0, <2>1, <2>8
          <6> QED BY <1>0, <2>4, <3>1, <5>1, <6>1, OwedDrops
        <5> HIDE DEF v, w
        <5> QED BY <1>0, <2>1, <3>2, <3>3, <3>4, <3>6, <5>2
      <4>2. CASE \A x \in A : ~(P + x[2] - e >= 0)
        <5>1. \A x \in A : x[2] \in Nat
          BY DEF Due
        <5>2. \A x \in A : P + x[2] - e <= 0
          BY <1>0, <2>1, <4>2, <5>1
        <5>3. Owed(P, A, e) = 0
          BY <1>0, <2>4, <5>2, OwedNone
        <5> QED BY <1>0, <2>3, <3>4, <5>3
      <4> QED BY <4>1, <4>2
    <3> HIDE DEF v, w
    <3> QED BY <1>0, <2>1, <2>2, <2>5, <3>2, <3>3, <3>4, <3>5, <3>6, <3>7
  <2> QED BY <1>0, <2>1, <2>6, <2>7, <2>8
<1>4. y <= z + P
  BY <1>0, <1>2
<1> QED BY <1>1, <1>2, <1>3, <1>4 DEF CoveredBy

(* The types of the numbers, for the leaves below.                         *)
LEMMA NumbersAre ==
  ASSUME NEW P, NEW F, NEW t, NEW z, NEW y, NEW E, Numbers(P, F, t, z, y, E)
  PROVE  /\ P \in Nat \ {0} /\ P \in Int /\ P > 0 /\ F \in Int /\ P <= F
         /\ t \in Nat /\ t \in Int /\ z \in Int /\ y \in Int /\ E \in Nat
         /\ E \in Int /\ E \in Events(t, E)
BY DEF Numbers, Events

(* The bounds hold at the last event, and sharper when it is over.         *)
LEMMA CoverLate ==
  ASSUME NEW P, NEW F, NEW t, NEW z, NEW y, NEW E, Numbers(P, F, t, z, y, E),
         NEW A, Due(A), \A x \in A : t <= x[2],
         CoveredBy(P, F, t, z, y, E, A), A # {}, z <= t
  PROVE  t - F <= Undone(P, z, A, t) /\ y <= Undone(P, z, A, t)
<1> DEFINE v(e) == Undone(P, z, A, e)
<1>1. /\ P \in Nat \ {0} /\ P \in Int /\ P > 0 /\ F \in Int /\ P <= F
      /\ t \in Nat /\ t \in Int /\ z \in Int /\ y \in Int /\ E \in Nat
      /\ E \in Int /\ E \in Events(t, E)
  BY NumbersAre
<1>2. z <= E /\ E - F <= v(E) /\ (y = t - F \/ y <= v(E))
  BY <1>1 DEF CoveredBy
<1>3. v(t) \in Int /\ v(E) \in Int
  BY <1>1, UndoneFacts
<1>4. CASE t <= E
  <2>1. t \in Events(t, E)
    BY <1>1, <1>4 DEF Events
  <2>2. t - F <= v(t) /\ (y = t - F \/ y <= v(t))
    BY <2>1 DEF CoveredBy
  <2> HIDE DEF v
  <2>3. t - F <= v(t) /\ y <= v(t)
    BY <1>1, <1>3, <2>2
  <2> QED BY <2>3 DEF v
<1>5. CASE E < t
  <2>1. PICK x \in A : TRUE
    OBVIOUS
  <2>2. x[2] \in Nat /\ t <= x[2]
    BY DEF Due
  <2>3. Owed(P, A, t) + (t - E) <= Owed(P, A, E)
    <3>1. P + x[2] - t >= 0 /\ E <= t
      BY <1>1, <1>5, <2>2
    <3> QED BY <1>1, <3>1, OwedDrops
  <2>4. v(t) = z - Owed(P, A, t) /\ v(E) = z - Owed(P, A, E)
    BY <1>1, <1>2, UndoneFacts
  <2>5. Owed(P, A, t) \in Nat /\ Owed(P, A, E) \in Nat
    BY <1>1, OwedNat
  <2> HIDE DEF v
  <2>6. t - F <= v(t) /\ y <= v(t)
    BY <1>1, <1>2, <1>3, <1>5, <2>3, <2>4, <2>5
  <2> QED BY <2>6 DEF v
<1> QED BY <1>1, <1>4, <1>5

(* Grant: one token less, and nothing more owed.                           *)
LEMMA CoverGrant ==
  ASSUME NEW P, NEW F, NEW t, NEW z, NEW y, NEW E, Numbers(P, F, t, z, y, E),
         NEW A, Due(A), \A x \in A : t <= x[2],
         CoveredBy(P, F, t, z, y, E, A), z + P <= t
  PROVE  CoveredBy(P, F, t, z + P, y + P, t, A)
<1>1. /\ P \in Nat \ {0} /\ P \in Int /\ P > 0 /\ F \in Int /\ P <= F
      /\ t \in Nat /\ t \in Int /\ z \in Int /\ y \in Int
  BY NumbersAre
<1>2. t - F <= y /\ y <= z
  BY DEF CoveredBy
<1>3. t - F <= y + P /\ y + P <= z + P
  BY <1>1, <1>2
<1>4. ASSUME A # {}, NEW e \in Events(t, t)
      PROVE  /\ e - F <= Undone(P, z + P, A, e)
             /\ y + P <= Undone(P, z + P, A, e)
  <2>1. e = t
    BY <1>1 DEF Events
  <2>2. z <= t
    BY <1>1
  <2>3. t - F <= Undone(P, z, A, t) /\ y <= Undone(P, z, A, t)
    BY <1>4, <2>2, CoverLate
  <2>4. Undone(P, z, A, t) = z - Owed(P, A, t) /\ Owed(P, A, t) \in Nat
    BY <1>1, <2>2, UndoneFacts, OwedNat
  <2>5. Undone(P, z + P, A, t) = (z + P) - Owed(P, A, t)
    <3>1. z + P \in Int
      BY <1>1
    <3> QED BY <1>1, <3>1, UndoneFacts
  <2> QED BY <1>1, <2>1, <2>3, <2>4, <2>5
<1> QED BY <1>3, <1>4 DEF CoveredBy

(* A cancellation that returns nothing: one token less is owed.            *)
LEMMA CoverFewer ==
  ASSUME NEW P, NEW F, NEW t, NEW z, NEW y, NEW E, Numbers(P, F, t, z, y, E),
         NEW A, Due(A), NEW B \in SUBSET A,
         CoveredBy(P, F, t, z, y, E, A)
  PROVE  CoveredBy(P, F, t, z, y, E, B)
<1>1. /\ P \in Nat \ {0} /\ F \in Int /\ z \in Int /\ y \in Int /\ E \in Nat
  BY NumbersAre
<1>2. ASSUME B # {}, NEW e \in Events(t, E)
      PROVE  /\ e - F <= Undone(P, z, B, e)
             /\ y = t - F \/ y <= Undone(P, z, B, e)
  <2>1. e \in Int
    BY DEF Events
  <2>2. Due(B)
    BY FS_Subset DEF Due
  <2>3. /\ Undone(P, z, A, e) <= Undone(P, z, B, e)
        /\ Undone(P, z, A, e) \in Int /\ Undone(P, z, B, e) \in Int
    BY <1>1, <2>1, <2>2, UndoneFacts
  <2>4. /\ e - F <= Undone(P, z, A, e)
        /\ y = t - F \/ y <= Undone(P, z, A, e)
    BY <1>2 DEF CoveredBy
  <2> QED BY <1>1, <2>1, <2>3, <2>4
<1>3. B # {} => z <= E
  BY DEF CoveredBy
<1> QED BY <1>2, <1>3 DEF CoveredBy

(* A cancellation gives back g ticks at most, which its token was worth.   *)
LEMMA UndoneCancel ==
  ASSUME NEW P \in Nat \ {0}, NEW z \in Int, NEW E \in Nat, NEW e \in Nat,
         z <= E, e <= E, NEW A, Due(A), NEW x \in A,
         NEW g, g = P - (E - x[2]), g > 0
  PROVE  Undone(P, z, A, e) <= Undone(P, z - g, A \ {x}, e)
<1> DEFINE B == A \ {x}
<1>1. Due(B) /\ x[2] \in Nat
  BY FS_Subset DEF Due
<1>2. Owed(P, A, e) = Owed(P, B, e) + Worth(P, x[2] - e)
  BY OwedSplit
<1> HIDE DEF B
<1>3. Owed(P, B, e) \in Nat
  BY <1>1, OwedNat
<1>4. /\ z - e \in Int /\ E - e \in Nat /\ x[2] - e \in Int /\ g \in Int
      /\ z - e <= E - e /\ P + (x[2] - e) - (E - e) = g
      /\ (z - e) - g = z - g - e /\ z - g - e \in Int
  BY <1>1
<1>5. g + LossFrom(P, z - e) - LossFrom(P, (z - e) - g) <= Worth(P, x[2] - e)
  <2> DEFINE d == P + (x[2] - e) - (E - e)
  <2>1. d > 0
    BY <1>4
  <2>2. d + LossFrom(P, z - e) - LossFrom(P, (z - e) - d) <= Worth(P, x[2] - e)
    BY <1>4, <2>1, GainIsWorth
  <2> QED BY <1>4, <2>2
<1>6. LossFrom(P, z - e) \in Nat /\ LossFrom(P, z - g - e) \in Nat
  BY <1>4, LossFacts
<1>7. Worth(P, x[2] - e) \in Nat
  BY <1>4, WorthFacts
<1>8. Undone(P, z, A, e) <= Undone(P, z - g, B, e)
  <2>1. g + LossFrom(P, z - e) - LossFrom(P, z - g - e) <= Worth(P, x[2] - e)
    BY <1>4, <1>5
  <2>2. Undone(P, z, A, e) = z + LossFrom(P, z - e)
                               - (Owed(P, B, e) + Worth(P, x[2] - e))
    BY <1>2 DEF Undone
  <2>3. Undone(P, z - g, B, e) = z - g + LossFrom(P, z - g - e) - Owed(P, B, e)
    BY DEF Undone
  <2> QED BY <1>3, <1>4, <1>6, <1>7, <2>1, <2>2, <2>3
<1> QED BY <1>8 DEF B

(* A cancellation returns no more than its token was worth, and while      *)
(* other reservations are under way it cannot fill the bucket.             *)
LEMMA CoverCancel ==
  ASSUME NEW P, NEW F, NEW t, NEW z, NEW y, NEW E, Numbers(P, F, t, z, y, E),
         NEW A, Due(A), \A x \in A : t <= x[2],
         CoveredBy(P, F, t, z, y, E, A), NEW x \in A,
         NEW g, g = P - (E - x[2]), g > 0,
         NEW zz, zz = (IF z - g <= t - F THEN t - F ELSE z - g),
         NEW EE, EE = (IF x[2] = E /\ t <= E - P THEN E - P ELSE E)
  PROVE  CoveredBy(P, F, t, zz, y, EE, A \ {x})
<1> DEFINE B == A \ {x}
           v(e) == Undone(P, z, A, e)
           w(e) == Undone(P, z - g, B, e)
<1>1. /\ P \in Nat \ {0} /\ P \in Int /\ P > 0 /\ F \in Int /\ P <= F
      /\ t \in Nat /\ t \in Int /\ z \in Int /\ y \in Int /\ E \in Nat
      /\ E \in Int /\ E \in Events(t, E)
  BY NumbersAre
<1>2. Due(B) /\ x[2] \in Nat /\ g \in Int /\ z - g \in Int
  <2>1. Due(B) /\ x[2] \in Nat
    BY FS_Subset DEF Due
  <2> QED BY <1>1, <2>1
<1>3. t - F <= y /\ y <= z /\ z <= E
  BY DEF CoveredBy
<1>4. ASSUME NEW e \in Events(t, E)
      PROVE  /\ e \in Nat /\ w(e) \in Int /\ e - F <= w(e)
             /\ y = t - F \/ y <= w(e)
  <2>1. e \in Nat /\ e <= E /\ e \in Int
    BY DEF Events
  <2>2. v(e) <= w(e)
    BY <1>1, <1>3, <2>1, UndoneCancel
  <2>3. e - F <= v(e) /\ (y = t - F \/ y <= v(e))
    BY DEF CoveredBy
  <2>4. v(e) \in Int /\ w(e) \in Int
    BY <1>1, <1>2, <2>1, UndoneFacts
  <2> HIDE DEF v, w
  <2> QED BY <1>1, <2>1, <2>2, <2>3, <2>4
<1>5. w(E) = z - g - Owed(P, B, E) /\ Owed(P, B, E) \in Nat /\ w(E) \in Int
  <2>1. z - g <= E
    BY <1>1, <1>2, <1>3
  <2> QED BY <1>1, <1>2, <2>1, UndoneFacts, OwedNat
<1>6. E - F <= w(E) /\ (y = t - F \/ y <= w(E))
  BY <1>1, <1>4
<1>7. zz \in Int /\ t - F <= zz /\ z - g <= zz
  BY <1>1, <1>2
<1>8. y <= zz
  <2> HIDE DEF w
  <2> QED BY <1>1, <1>2, <1>5, <1>6, <1>7
<1>9. ASSUME B # {}
      PROVE  zz = z - g /\ z - g <= EE
  <2>1. PICK q \in B : TRUE
    BY <1>9
  <2>2. q[2] \in Nat /\ t <= q[2]
    BY <1>2 DEF Due
  <2>3. Owed(P, B, E) >= P + (q[2] - E)
    <3>1. Owed(P, B, E) = Owed(P, B \ {q}, E) + Worth(P, q[2] - E)
      BY <1>1, <1>2, OwedSplit
    <3>2. Due(B \ {q})
      BY <1>2, FS_Subset DEF Due
    <3>3. q[2] - E \in Int
      BY <1>1, <2>2
    <3>4. Owed(P, B \ {q}, E) \in Nat /\ Worth(P, q[2] - E) \in Nat
          /\ Worth(P, q[2] - E) >= P + (q[2] - E)
      BY <1>1, <3>2, <3>3, OwedNat, WorthFacts
    <3> HIDE DEF B
    <3> QED BY <1>1, <2>2, <3>1, <3>3, <3>4
  <2> HIDE DEF w, B
  <2>4. t - F <= z - g
    BY <1>1, <1>2, <1>5, <1>6, <2>2, <2>3
  <2>5. zz = z - g
    BY <1>1, <1>2, <2>4
  <2>6. z - g <= EE
    BY <1>1, <1>2, <1>3
  <2> QED BY <2>5, <2>6
<1>10. Events(t, EE) \subseteq Events(t, E)
  BY <1>1 DEF Events
<1>11. ASSUME B # {}, NEW e \in Events(t, EE)
       PROVE  /\ e - F <= Undone(P, zz, B, e)
              /\ y = t - F \/ y <= Undone(P, zz, B, e)
  <2>1. zz = z - g
    BY <1>9, <1>11
  <2>2. e \in Events(t, E)
    BY <1>10
  <2> QED BY <1>4, <2>1, <2>2
<1>12. t - F <= y
  BY <1>3
<1>13. B # {} => zz <= EE
  BY <1>9
<1> QED BY <1>8, <1>11, <1>12, <1>13 DEF CoveredBy

(* Time: reservations that have come due are made for good.                *)
LEMMA CoverTick ==
  ASSUME NEW P, NEW F, NEW t, NEW z, NEW y, NEW E, Numbers(P, F, t, z, y, E),
         NEW A, Due(A), CoveredBy(P, F, t, z, y, E, A),
         NEW tt, tt = t + 1,
         NEW B, B = {x \in A : tt <= x[2]},
         NEW zz, zz = (IF z <= tt - F THEN tt - F ELSE z),
         NEW yy, yy = (IF y <= tt - F THEN tt - F ELSE y)
  PROVE  CoveredBy(P, F, tt, zz, yy, E, B)
<1> DEFINE v(e) == Undone(P, z, A, e)
<1>1. /\ P \in Nat \ {0} /\ P \in Int /\ P > 0 /\ F \in Int /\ P <= F
      /\ t \in Nat /\ t \in Int /\ z \in Int /\ y \in Int /\ E \in Nat
      /\ E \in Int /\ E \in Events(t, E) /\ tt \in Int
  BY NumbersAre
<1>2. B \in SUBSET A /\ Due(B) /\ (B # {} => A # {})
  <2>1. B \in SUBSET A
    OBVIOUS
  <2> QED BY <2>1, FS_Subset DEF Due
<1>3. t - F <= y /\ y <= z /\ (A # {} => z <= E)
  BY DEF CoveredBy
<1>4. tt - F <= yy /\ yy <= zz /\ yy \in Int /\ zz \in Int
  BY <1>1, <1>3
<1>5. Events(tt, E) \subseteq Events(t, E)
  BY <1>1 DEF Events
<1>6. ASSUME B # {}
      PROVE  tt - F <= z
  <2>1. PICK q \in B : TRUE
    BY <1>6
  <2>2. q \in A /\ q[2] \in Nat /\ tt <= q[2]
    BY DEF Due
  <2>3. z <= E
    BY <1>2, <1>3, <1>6
  <2>4. CASE z < tt /\ tt <= E
    <3>1. tt \in Events(t, E) /\ tt \in Int
      BY <1>1, <2>4 DEF Events
    <3>2. tt - F <= v(tt)
      BY <1>2, <1>6, <3>1 DEF CoveredBy
    <3>3. v(tt) \in Int /\ v(tt) <= z
      BY <1>1, <2>4, <3>1, UndoneFacts
    <3> HIDE DEF v
    <3> QED BY <1>1, <3>2, <3>3
  <2>5. CASE E < tt
    <3>1. E - F <= v(E)
      BY <1>1, <1>2, <1>6 DEF CoveredBy
    <3>2. v(E) = z - Owed(P, A, E) /\ Owed(P, A, E) \in Nat
      BY <1>1, <2>3, UndoneFacts, OwedNat
    <3>3. Owed(P, A, E) >= P + (q[2] - E)
      <4>1. Owed(P, A, E) = Owed(P, A \ {q}, E) + Worth(P, q[2] - E)
        BY <1>1, <2>2, OwedSplit
      <4>2. Due(A \ {q})
        BY FS_Subset DEF Due
      <4>3. q[2] - E \in Int
        BY <1>1, <2>2
      <4>4. Owed(P, A \ {q}, E) \in Nat /\ Worth(P, q[2] - E) \in Nat
            /\ Worth(P, q[2] - E) >= P + (q[2] - E)
        BY <1>1, <4>2, <4>3, OwedNat, WorthFacts
      <4> QED BY <1>1, <2>2, <4>1, <4>3, <4>4
    <3> HIDE DEF v
    <3> QED BY <1>1, <2>2, <3>1, <3>2, <3>3
  <2>6. CASE tt <= z
    BY <1>1, <2>6
  <2> QED BY <1>1, <2>4, <2>5, <2>6
<1>7. ASSUME B # {}
      PROVE  zz = z /\ z <= E
  BY <1>1, <1>2, <1>3, <1>6, <1>7
<1>8. ASSUME B # {}, NEW e \in Events(tt, E)
      PROVE  /\ e - F <= Undone(P, zz, B, e)
             /\ yy = tt - F \/ yy <= Undone(P, zz, B, e)
  <2>1. e \in Events(t, E) /\ e \in Int
    BY <1>5 DEF Events
  <2>2. e - F <= v(e) /\ (y = t - F \/ y <= v(e))
    BY <1>2, <1>8, <2>1 DEF CoveredBy
  <2>3. /\ v(e) <= Undone(P, z, B, e)
        /\ v(e) \in Int /\ Undone(P, z, B, e) \in Int
    BY <1>1, <1>2, <2>1, UndoneFacts
  <2>4. zz = z
    BY <1>7, <1>8
  <2>5. yy = tt - F \/ (yy = y /\ y # t - F)
    BY <1>1
  <2> HIDE DEF v
  <2> QED BY <1>1, <2>1, <2>2, <2>3, <2>4, <2>5
<1>9. B # {} => zz <= E
  BY <1>7
<1> QED BY <1>4, <1>8, <1>9 DEF CoveredBy

-----------------------------------------------------------------------------
(* The buckets of the table keep what CoveredBy says of their numbers.     *)

LEMMA LevelIs ==
  ASSUME NEW l \in Limiter, now \in Nat, l.last <= now
  PROVE  /\ Level(l) = IF Full(l) <= l.level + (now - l.last)
                       THEN Full(l) ELSE l.level + (now - l.last)
         /\ Unspent(l) = IF Full(l) <= l.unspent + (now - l.last)
                         THEN Full(l) ELSE l.unspent + (now - l.last)
BY DEF Level, Unspent, Filled, Least

(* A bucket of the table has the numbers the lemmas on CoveredBy ask for.  *)
LEMMA BucketNumbers ==
  ASSUME TableInv, NEW a \in DOMAIN limiter
  PROVE  LET l == limiter[a]
         IN  /\ l \in Limiter /\ l.last <= now /\ now \in Nat
             /\ l.period \in Nat \ {0} /\ l.lastEvent \in Nat
             /\ Full(l) \in Nat /\ l.period <= Full(l)
             /\ Level(l) \in Int /\ Unspent(l) \in Int
             /\ Level(l) <= Full(l) /\ Unspent(l) <= Full(l)
             /\ Numbers(l.period, Full(l), now, now - Level(l),
                        now - Unspent(l), l.lastEvent)
<1> DEFINE l == limiter[a]
<1>1. l \in Limiter /\ l.last <= now /\ now \in Nat
  BY Clocks DEF TableInv, TypeOK, BucketInv
<1>2. PICK p \in Path : l.burst = Burst[p] /\ l.period = Period[p]
  BY DEF TableInv, BucketInv
<1>3. l.burst \in Nat \ {0} /\ l.period \in Nat \ {0}
  BY <1>2, RateLimitAssumption
<1>4. /\ Full(l) \in Nat /\ Level(l) \in Int /\ Unspent(l) \in Int
      /\ Unspent(l) <= Full(l)
  BY <1>1, LevelFacts
<1>5. l.lastEvent \in Nat /\ l.level \in Int /\ l.last \in Nat
  BY <1>1 DEF Limiter
<1>6. l.period <= Full(l)
  <2>1. l.period * 1 <= l.period * l.burst
    BY <1>3, ProductMonotone
  <2>2. l.period * 1 = l.period /\ l.period * l.burst = l.burst * l.period
    BY <1>3
  <2> QED BY <2>1, <2>2 DEF Full
<1> HIDE DEF l
<1>7. Level(l) <= Full(l)
  BY <1>1, <1>4, <1>5, LevelIs
<1> DEFINE full == Full(l)
           lev == Level(l)
           uns == Unspent(l)
<1>8. full \in Nat /\ lev \in Int /\ uns \in Int /\ l.period <= full
  BY <1>4, <1>6
<1> HIDE DEF full, lev, uns
<1>9. Numbers(l.period, full, now, now - lev, now - uns, l.lastEvent)
  BY <1>1, <1>3, <1>5, <1>8 DEF Numbers
<1> QED BY <1>1, <1>3, <1>4, <1>5, <1>6, <1>7, <1>9 DEF l, full, lev, uns

(* The reservations under way are finitely many, and each is due.          *)
LEMMA OutstandingDue ==
  ASSUME TableInv, IsFiniteSet(Cancelling), NEW a
  PROVE  /\ Due(Outstanding(a))
         /\ \A x \in Outstanding(a) : now <= x[2]
<1> DEFINE S == {r \in Cancelling : req[r].limiter = a /\ now <= req[r].act}
           f == [r \in S |-> <<r, req[r].act>>]
<1>1. IsFiniteSet(S)
  BY FS_Subset
<1>2. \A r \in S : r \in Request /\ req[r].act \in Nat
  BY RequestBucket DEF Cancelling
<1>3. f \in Surjection(S, Outstanding(a))
  BY Fun_IsSurj DEF Outstanding
<1>4. IsFiniteSet(Outstanding(a))
  BY <1>1, <1>3, FS_Surjection
<1>5. Outstanding(a) \in SUBSET (Request \X Nat)
  BY <1>2 DEF Outstanding
<1>6. \A x \in Outstanding(a) : now <= x[2]
  BY DEF Outstanding
<1> QED BY <1>4, <1>5, <1>6 DEF Due

(* A bucket nobody touches, at a moment that stays.                        *)
LEMMA SameCovers ==
  ASSUME NEW a, limiter'[a] = limiter[a], now' = now,
         Outstanding(a)' = Outstanding(a), Covers(limiter[a], Outstanding(a))
  PROVE  Covers(limiter[a], Outstanding(a))'
<1>1. /\ Full(limiter[a])' = Full(limiter[a])
      /\ Level(limiter[a])' = Level(limiter[a])
      /\ Unspent(limiter[a])' = Unspent(limiter[a])
  BY DEF Full, Level, Unspent, Filled
<1> QED BY <1>1 DEF Covers

(* A bucket brought up to date: its level and unspent level are new.       *)
LEMMA TouchedCovers ==
  ASSUME now \in Nat, now' = now, NEW a, NEW l \in Limiter, NEW row,
         Touched(l, row), limiter'[a] = row,
         NEW lev \in Int, lev <= Full(l), row.level = lev,
         NEW uns \in Int, uns <= Full(l), row.unspent = uns,
         CoveredBy(l.period, Full(l), now, now - lev, now - uns,
                   row.lastEvent, Outstanding(a)')
  PROVE  Covers(limiter[a], Outstanding(a))'
<1>1. /\ row \in Limiter /\ row.period = l.period /\ row.last = now
      /\ Full(row) = Full(l)
  BY DEF Touched, Full
<1>2. Full(l) \in Nat
  BY ProductNat DEF Full, Limiter
<1>3. Level(row) = lev /\ Unspent(row) = uns
  BY <1>1, <1>2, LevelIs
<1>4. Full(row)' = Full(row) /\ Level(row)' = Level(row) /\ Unspent(row)' = Unspent(row)
  BY DEF Full, Level, Unspent, Filled
<1> QED BY <1>1, <1>3, <1>4 DEF Covers

(* A request's own bucket aside, the reservations under way are the same.  *)
LEMMA OthersOutstanding ==
  ASSUME TableInv, NEW r \in Request, Serves(r), NEW a, a # req[r].limiter
  PROVE  Outstanding(a)' = Outstanding(a)
<1> DEFINE In(q) == q \in Cancelling /\ req[q].limiter = a /\ now <= req[q].act
<1>1. now' = now /\ pc[r] # "idle"
  BY DEF Serves
<1>2. /\ pc \in [Request -> {"idle", "allow", "reserve", "cancel", "ok", "tooMany"}]
      /\ req \in [Request -> Req \cup {NoReq}] /\ req[r] \in Req
  BY <1>1 DEF TableInv, TypeOK, FunctionInv
<1>3. \A q \in Request \ {r} : pc'[q] = pc[q] /\ req'[q] = req[q]
  BY <1>2 DEF Serves
<1>4. req'[r].limiter = req[r].limiter
  BY <1>1, ServesKeepsRequests
<1>5. \A q \in Request : In(q)' <=> In(q) /\ (In(q) => req'[q] = req[q])
  BY <1>1, <1>3, <1>4 DEF Cancelling
<1>6. \A q : q \in Cancelling \/ q \in Cancelling' => q \in Request
  BY DEF Cancelling
<1>7. Outstanding(a) = {<<q, req[q].act>> : q \in {q \in Request : In(q)}}
  BY <1>6 DEF Outstanding
<1>8. Outstanding(a)' = {<<q, req'[q].act>> : q \in {q \in Request : In(q)'}}
  BY <1>6 DEF Outstanding
<1> QED BY <1>3, <1>4, <1>5, <1>7, <1>8

(* What a step on one bucket has to show.                                  *)
LEMMA ServedDebt ==
  ASSUME TableInv, DebtInv, NEW r \in Request, Serves(r),
         NEW b, b = req[r].limiter,
         \A a \in DOMAIN limiter \ {b} : limiter'[a] = limiter[a],
         Covers(limiter[b], Outstanding(b))'
  PROVE  DebtInv'
<1>1. DOMAIN limiter' = DOMAIN limiter /\ UNCHANGED <<now, visitors>>
  BY ServesKeepsBuckets DEF Serves
<1>2. AddressInv'
  BY <1>1 DEF DebtInv, AddressInv
<1>3. IsFiniteSet(Cancelling)'
  <2>1. \A q \in Request \ {r} : pc'[q] = pc[q]
    BY DEF TableInv, TypeOK, Serves
  <2>2. Cancelling' \in SUBSET (Cancelling \cup {r})
    BY <2>1 DEF Cancelling
  <2>3. IsFiniteSet(Cancelling \cup {r})
    BY FS_AddElement DEF DebtInv
  <2> QED BY <2>2, <2>3, FS_Subset
<1>4. ASSUME NEW a \in DOMAIN limiter \ {b}
      PROVE  Covers(limiter[a], Outstanding(a))'
  <2>1. Outstanding(a)' = Outstanding(a)
    BY OthersOutstanding
  <2>2. Covers(limiter[a], Outstanding(a))
    BY DEF DebtInv
  <2> QED BY <1>1, <2>1, <2>2, SameCovers
<1> QED BY <1>1, <1>2, <1>3, <1>4 DEF DebtInv

(* Refuse moves no token.                                                  *)
LEMMA RefuseDebt ==
  ASSUME TableInv, DebtInv, NEW r \in Request, Refuse(r)
  PROVE  DebtInv'
<1> DEFINE b == req[r].limiter
<1>1. Serves(r) /\ limiter' = limiter /\ now' = now /\ req' = req
      /\ pc[r] = "allow" /\ pc' = [pc EXCEPT ![r] = "reserve"]
      /\ b \in DOMAIN limiter
  BY ServingSteps, RequestBucket DEF Refuse, Goto
<1>2. Cancelling' = Cancelling
  BY <1>1 DEF TableInv, TypeOK, Cancelling
<1>3. Outstanding(b)' = Outstanding(b)
  BY <1>1, <1>2 DEF Outstanding
<1>4. Covers(limiter[b], Outstanding(b))
  BY <1>1 DEF DebtInv
<1>5. Covers(limiter[b], Outstanding(b))'
  BY <1>1, <1>3, <1>4, SameCovers
<1> HIDE DEF b
<1> QED BY <1>1, <1>5, ServedDebt DEF b

(* Grant takes one from both levels.                                       *)
LEMMA GrantDebt ==
  ASSUME TableInv, DebtInv, NEW r \in Request, Grant(r)
  PROVE  DebtInv'
<1>0. PICK b : b = req[r].limiter
  OBVIOUS
<1> DEFINE l == limiter[b]
           A == Outstanding(b)
           P == l.period
           F == Full(l)
           lev == Level(l) - P
           uns == Unspent(l) - P
           row == Reserved(l, uns)
<1>1. /\ Serves(r) /\ now' = now /\ req' = req /\ pc[r] = "allow"
      /\ pc' = [pc EXCEPT ![r] = "ok"] /\ b \in DOMAIN limiter
      /\ limiter' = [limiter EXCEPT ![b] = row] /\ Level(l) >= P
  BY <1>0, ServingSteps, RequestBucket DEF Grant, Goto, Bucket
<1>2. /\ l \in Limiter /\ l.last <= now /\ now \in Nat /\ P \in Nat \ {0}
      /\ F \in Nat /\ Level(l) \in Int /\ Unspent(l) \in Int
      /\ Level(l) <= F /\ Unspent(l) <= F
      /\ Numbers(P, F, now, now - Level(l), now - Unspent(l), l.lastEvent)
  BY <1>1, BucketNumbers
<1>3. Cancelling' = Cancelling
  BY <1>1 DEF TableInv, TypeOK, Cancelling
<1>4. A' = A
  BY <1>1, <1>3 DEF Outstanding
<1>5. Due(A) /\ \A x \in A : now <= x[2]
  BY OutstandingDue DEF DebtInv
<1>6. CoveredBy(P, F, now, now - Level(l), now - Unspent(l), l.lastEvent, A)
  BY <1>1 DEF DebtInv, Covers
<1>7. lev \in Int /\ uns \in Int /\ lev <= F /\ uns <= F
      /\ now - lev = (now - Level(l)) + P /\ now - uns = (now - Unspent(l)) + P
      /\ (now - Level(l)) + P <= now
  BY <1>1, <1>2
<1>8. Touched(l, row) /\ row.level = lev /\ row.unspent = uns
      /\ row.lastEvent = now
  <2>1. Touched(l, row) /\ row.unspent = uns
    BY <1>2, <1>7, ReservedTouches
  <2>2. row.level = lev /\ row.lastEvent = now
    BY <1>1 DEF Reserved, ActAt
  <2> QED BY <2>1, <2>2
<1>9. limiter'[b] = row /\ \A a \in DOMAIN limiter \ {b} : limiter'[a] = limiter[a]
  BY <1>1
<1> HIDE DEF A, F, P, row, l
<1>10. CoveredBy(P, F, now, (now - Level(l)) + P, (now - Unspent(l)) + P, now, A)
  BY <1>2, <1>5, <1>6, <1>7, CoverGrant
<1> HIDE DEF lev, uns
<1>11. CoveredBy(P, F, now, now - lev, now - uns, row.lastEvent, A')
  BY <1>4, <1>7, <1>8, <1>10, Zenon
<1>12. Covers(limiter[b], Outstanding(b))'
  <2>1. CoveredBy(l.period, Full(l), now, now - lev, now - uns,
                  row.lastEvent, Outstanding(b)')
    BY <1>11 DEF A, F, P
  <2>2. lev <= Full(l) /\ uns <= Full(l)
    BY <1>2, <1>7 DEF F
  <2> QED BY <1>1, <1>2, <1>7, <1>8, <1>9, <2>1, <2>2, TouchedCovers
<1> QED BY <1>1, <1>9, <1>12, <1>0, ServedDebt

(* Reserve takes one from the level only, and remembers when it is due.    *)
LEMMA ReserveDebt ==
  ASSUME TableInv, DebtInv, NEW r \in Request, Reserve(r)
  PROVE  DebtInv'
<1>0. PICK b : b = req[r].limiter
  OBVIOUS
<1> DEFINE l == limiter[b]
           A == Outstanding(b)
           P == l.period
           F == Full(l)
           lev == Level(l) - P
           uns == Unspent(l)
           act == ActAt(l)
           row == Reserved(l, uns)
<1>1. /\ Serves(r) /\ now' = now /\ pc[r] = "reserve"
      /\ req' = [req EXCEPT ![r].act = act] /\ req[r] \in Req
      /\ pc' = [pc EXCEPT ![r] = "cancel"] /\ b \in DOMAIN limiter
      /\ limiter' = [limiter EXCEPT ![b] = row]
  BY <1>0, ServingSteps, RequestBucket DEF Reserve, Goto, Bucket
<1>2. /\ l \in Limiter /\ l.last <= now /\ now \in Nat /\ P \in Nat \ {0}
      /\ F \in Nat /\ Level(l) \in Int /\ uns \in Int
      /\ Level(l) <= F /\ uns <= F
      /\ Numbers(P, F, now, now - Level(l), now - uns, l.lastEvent)
  BY <1>1, BucketNumbers
<1>3. act \in Nat /\ now <= act
      /\ act = IF (now - Level(l)) + P <= now THEN now
               ELSE (now - Level(l)) + P
  <2>1. act = IF Level(l) >= P THEN now ELSE now + P - Level(l)
    BY DEF ActAt
  <2> HIDE DEF P, l, act
  <2> QED BY <1>2, <2>1
<1>4. A' = A \cup {<<r, act>>} /\ <<r, act>> \notin A
  <2>1. Cancelling' = Cancelling \cup {r} /\ r \notin Cancelling
    BY <1>1 DEF TableInv, TypeOK, Cancelling
  <2>2. /\ \A q \in Cancelling : req'[q] = req[q]
        /\ req'[r].act = act /\ req'[r].limiter = b
    <3>1. req \in [Request -> Req \cup {NoReq}] /\ \A q \in Cancelling : q \in Request
      BY DEF TableInv, FunctionInv, Cancelling
    <3>2. req'[r] = [req[r] EXCEPT !.act = act]
      BY <1>1, <3>1
    <3>3. req'[r].act = act /\ req'[r].limiter = b
      BY <1>0, <1>1, <3>2 DEF Req
    <3> QED BY <1>1, <2>1, <3>1, <3>3
  <2> HIDE DEF act, l
  <2> QED BY <1>1, <1>3, <2>1, <2>2 DEF Outstanding
<1>5. Due(A)
  BY OutstandingDue DEF DebtInv
<1>6. CoveredBy(P, F, now, now - Level(l), now - uns, l.lastEvent, A)
  BY <1>1 DEF DebtInv, Covers
<1>7. lev \in Int /\ lev <= F /\ now - lev = (now - Level(l)) + P
  BY <1>2
<1>8. Touched(l, row) /\ row.level = lev /\ row.unspent = uns
      /\ row.lastEvent = act
  <2>1. Touched(l, row) /\ row.unspent = uns
    BY <1>2, ReservedTouches
  <2> QED BY <2>1 DEF Reserved
<1>9. limiter'[b] = row /\ \A a \in DOMAIN limiter \ {b} : limiter'[a] = limiter[a]
  BY <1>1
<1> HIDE DEF A, F, P, row, l, act, uns
<1>10. Due(A \cup {<<r, act>>})
  <2>1. IsFiniteSet(A \cup {<<r, act>>})
    BY <1>5, FS_AddElement DEF Due
  <2> QED BY <1>3, <1>5, <2>1 DEF Due
<1>11. CoveredBy(P, F, now, (now - Level(l)) + P, now - uns, act,
                 A \cup {<<r, act>>})
  BY <1>2, <1>3, <1>4, <1>5, <1>6, <1>10, CoverReserve
<1> HIDE DEF lev
<1>12. CoveredBy(P, F, now, now - lev, now - uns, row.lastEvent, A')
  BY <1>4, <1>7, <1>8, <1>11, Zenon
<1>13. Covers(limiter[b], Outstanding(b))'
  <2>1. CoveredBy(l.period, Full(l), now, now - lev, now - uns,
                  row.lastEvent, Outstanding(b)')
    BY <1>12 DEF A, F, P
  <2>2. lev <= Full(l) /\ uns <= Full(l)
    BY <1>2, <1>7 DEF F
  <2> QED BY <1>1, <1>2, <1>7, <1>8, <1>9, <2>1, <2>2, TouchedCovers
<1> QED BY <1>1, <1>9, <1>13, <1>0, ServedDebt

(* Cancel gives back what later reservations leave of it, or nothing.      *)
LEMMA CancelDebt ==
  ASSUME TableInv, DebtInv, NEW r \in Request, Cancel(r)
  PROVE  DebtInv'
<1>0. PICK b : b = req[r].limiter
  OBVIOUS
<1> DEFINE l == limiter[b]
           A == Outstanding(b)
           P == l.period
           F == Full(l)
           act == req[r].act
           x == <<r, act>>
           g == P - (l.lastEvent - act)
           uns == Unspent(l)
           row == Cancelled(l, act)
<1>1. /\ Serves(r) /\ now' = now /\ pc[r] = "cancel" /\ req' = req
      /\ act \in Nat /\ pc' = [pc EXCEPT ![r] = "tooMany"]
      /\ b \in DOMAIN limiter
  BY <1>0, ServingSteps, RequestBucket DEF Cancel, Goto
<1>2. /\ l \in Limiter /\ l.last <= now /\ now \in Nat /\ P \in Nat \ {0}
      /\ l.lastEvent \in Nat
      /\ F \in Nat /\ Level(l) \in Int /\ uns \in Int
      /\ Level(l) <= F /\ uns <= F
      /\ Numbers(P, F, now, now - Level(l), now - uns, l.lastEvent)
  BY <1>1, BucketNumbers
<1>3. Due(A) /\ \A q \in A : now <= q[2]
  BY OutstandingDue DEF DebtInv
<1>4. CoveredBy(P, F, now, now - Level(l), now - uns, l.lastEvent, A)
  BY <1>1 DEF DebtInv, Covers
<1>5. Cancelling' = Cancelling \ {r} /\ r \in Cancelling
  BY <1>1 DEF TableInv, TypeOK, Cancelling
<1>6. A' = A \ {x} /\ (now <= act => x \in A)
  BY <1>0, <1>1, <1>5 DEF Outstanding
<1>7. CASE act < now \/ g <= 0
  <2>1. limiter' = limiter
    BY <1>0, <1>1, <1>7 DEF Cancel, Restore, Bucket
  <2>2. CoveredBy(P, F, now, now - Level(l), now - uns, l.lastEvent, A \ {x})
    <3> HIDE DEF A, F, P, l, x, uns
    <3>1. A \ {x} \in SUBSET A
      OBVIOUS
    <3> QED BY <1>2, <1>3, <1>4, <3>1, CoverFewer
  <2>3. Covers(l, A \ {x})
    BY <2>2 DEF Covers
  <2>4. Covers(limiter[b], Outstanding(b))'
    <3>1. /\ Full(l)' = Full(l) /\ Level(l)' = Level(l)
          /\ Unspent(l)' = Unspent(l) /\ l' = l
      BY <1>1, <2>1 DEF Full, Level, Unspent, Filled
    <3> QED BY <1>1, <1>6, <2>1, <2>3, <3>1 DEF Covers
  <2> QED BY <1>1, <2>1, <2>4, <1>0, ServedDebt
<1>8. CASE now <= act /\ g > 0
  <2> DEFINE lev == Least(F, Level(l) + g)
             last == IF act = l.lastEvent /\ now <= l.lastEvent - P
                     THEN l.lastEvent - P ELSE l.lastEvent
  <2>1. limiter' = [limiter EXCEPT ![b] = row]
    <3>1. ~(act < now) /\ ~(Restore(Bucket(r), act) <= 0)
      BY <1>0, <1>1, <1>2, <1>8 DEF Restore, Bucket
    <3> QED BY <1>0, <3>1 DEF Cancel
  <2>2. Touched(l, row) /\ row.level = lev /\ row.unspent = uns
        /\ row.lastEvent = last
    <3>1. Touched(l, row) /\ row.unspent = uns
      BY <1>1, <1>2, CancelledTouches
    <3>2. row.level = lev
      BY DEF Cancelled, Restore
    <3>3. row.lastEvent = IF act = l.lastEvent /\ act - P >= now
                          THEN act - P ELSE l.lastEvent
      BY DEF Cancelled
    <3> HIDE DEF row, l, act, lev
    <3>4. row.lastEvent = last
      BY <1>1, <1>2, <3>3
    <3> QED BY <3>1, <3>2, <3>4
  <2>3. /\ limiter'[b] = row
        /\ \A a \in DOMAIN limiter \ {b} : limiter'[a] = limiter[a]
    BY <1>1, <2>1
  <2>4. g \in Int /\ lev \in Int /\ lev <= F
        /\ now - lev = (IF (now - Level(l)) - g <= now - F THEN now - F
                        ELSE (now - Level(l)) - g)
    <3>1. g \in Int
      BY <1>1, <1>2
    <3>2. lev = IF F <= Level(l) + g THEN F ELSE Level(l) + g
      BY DEF Least
    <3> HIDE DEF lev, F, g, l
    <3> QED BY <1>2, <3>1, <3>2
  <2>5. x \in A /\ x[2] = act
    BY <1>6, <1>8
  <2>6. g = P - (l.lastEvent - x[2]) /\ g > 0
        /\ last = (IF x[2] = l.lastEvent /\ now <= l.lastEvent - P
                   THEN l.lastEvent - P ELSE l.lastEvent)
    BY <1>8, <2>5
  <2> DEFINE z == now - Level(l)
             y == now - uns
             zz == now - lev
  <2> HIDE DEF A, F, P, row, l, act, uns, x, g, last, lev
  <2>7. CoveredBy(P, F, now, now - lev, now - uns, last, A \ {x})
    <3>1. /\ Numbers(P, F, now, z, y, l.lastEvent)
          /\ CoveredBy(P, F, now, z, y, l.lastEvent, A)
          /\ zz = (IF z - g <= now - F THEN now - F ELSE z - g)
      BY <1>2, <1>4, <2>4
    <3> HIDE DEF z, y, zz
    <3>2. CoveredBy(P, F, now, zz, y, last, A \ {x})
      BY <1>3, <2>5, <2>6, <3>1, CoverCancel
    <3> QED BY <3>2 DEF y, zz
  <2>8. CoveredBy(P, F, now, now - lev, now - uns, row.lastEvent, A')
    BY <1>6, <2>2, <2>7, Zenon
  <2>9. Covers(limiter[b], Outstanding(b))'
    <3>1. CoveredBy(l.period, Full(l), now, now - lev, now - uns,
                    row.lastEvent, Outstanding(b)')
      BY <2>8 DEF A, F, P
    <3>2. lev <= Full(l) /\ uns <= Full(l)
      BY <1>2, <2>4 DEF F
    <3> QED BY <1>1, <1>2, <2>2, <2>3, <2>4, <3>1, <3>2, TouchedCovers
  <2> QED BY <1>1, <2>3, <2>9, <1>0, ServedDebt
<1>9. (act < now \/ g <= 0) \/ (now <= act /\ g > 0)
  <2>1. g \in Int
    BY <1>1, <1>2
  <2> HIDE DEF g
  <2> QED BY <1>1, <1>2, <2>1
<1> QED BY <1>7, <1>8, <1>9

(* Steps that leave every bucket and every cancellation alone.             *)
LEMMA UntouchedDebt ==
  ASSUME TableInv, DebtInv, AddressInv', now' = now, Cancelling' = Cancelling,
         \A r \in Cancelling : req'[r] = req[r],
         \A a \in DOMAIN limiter : limiter'[a] = limiter[a],
         \A a \in DOMAIN limiter' \ DOMAIN limiter :
           Covers(limiter[a], Outstanding(a))'
  PROVE  DebtInv'
<1>1. \A a : Outstanding(a)' = Outstanding(a)
  BY DEF Outstanding
<1>2. ASSUME NEW a \in DOMAIN limiter
      PROVE  Covers(limiter[a], Outstanding(a))'
  <2>1. Covers(limiter[a], Outstanding(a))
    BY DEF DebtInv
  <2> QED BY <1>1, <2>1, SameCovers
<1> QED BY <1>2 DEF DebtInv

(* A visit touches no bucket there is.                                     *)
LEMMA VisitDebt ==
  ASSUME TableInv, DebtInv, NEW r \in Request, pc[r] = "idle", NEW k \in Key,
         Visits(r, k), \A a \in DOMAIN limiter : limiter'[a] = limiter[a],
         \A a \in DOMAIN limiter' \ DOMAIN limiter :
           a = <<k, now>> /\ Covers(limiter[a], Outstanding(a))'
  PROVE  DebtInv'
<1>1. now' = now
  BY DEF Visits
<1>2. Cancelling' = Cancelling /\ r \notin Cancelling
  BY DEF Visits, Cancelling, TableInv, TypeOK
<1>3. \A q \in Cancelling : req'[q] = req[q]
  BY <1>2 DEF Visits, Cancelling, TableInv, FunctionInv
<1>4. AddressInv'
  <2>1. DOMAIN visitors' = DOMAIN visitors \cup {k} /\ visitors'[k].lastSeen = now
        /\ \A j \in DOMAIN visitors \ {k} : visitors'[j] = visitors[j]
    BY DEF Visits
  <2> SUFFICES ASSUME NEW a \in DOMAIN limiter'
               PROVE  /\ a[2] <= now
                      /\ a[2] = now => /\ a[1] \in DOMAIN visitors'
                                       /\ visitors'[a[1]].lastSeen = now
    BY <1>1 DEF AddressInv
  <2>2. CASE a \in DOMAIN limiter
    <3>1. /\ a[2] <= now
          /\ a[2] = now => /\ a[1] \in DOMAIN visitors
                           /\ visitors[a[1]].lastSeen = now
      BY <2>2 DEF DebtInv, AddressInv
    <3> QED BY <2>1, <3>1
  <2>3. CASE a \notin DOMAIN limiter
    <3>1. a[1] = k /\ a[2] = now /\ now \in Nat
      BY <2>3, Clocks
    <3> QED BY <2>1, <3>1
  <2> QED BY <2>2, <2>3
<1> QED BY <1>1, <1>2, <1>3, <1>4, UntouchedDebt

(* A new bucket is full, and nobody has reserved anything of it.           *)
LEMMA NewDebt ==
  ASSUME TableInv, DebtInv, NEW r \in Request, NEW k \in Key, NEW p \in Path,
         GetNewVisitor(r, k, p)
  PROVE  DebtInv'
<1>1. PICK b : b = <<k, now>>
  OBVIOUS
<1>2. /\ Visits(r, k) /\ k \notin DOMAIN visitors /\ visitors'[k].limiter = b
      /\ limiter'[b] = NewLimiter(p) /\ pc[r] = "idle" /\ now' = now
      /\ \A a \in DOMAIN limiter \ {b} : limiter'[a] = limiter[a]
  BY <1>1, NewVisits DEF GetNewVisitor, Enter
<1>3. b \notin DOMAIN limiter
  <2>1. b[1] = k /\ b[2] = now
    BY <1>1
  <2> QED BY <1>2, <2>1 DEF DebtInv, AddressInv
<1>4. DOMAIN limiter' = DOMAIN limiter \cup {b}
  BY <1>2 DEF Visits
<1>5. Outstanding(b)' = {}
  <2>1. Cancelling' = Cancelling /\ \A q \in Cancelling : req'[q] = req[q]
    BY <1>2 DEF Visits, Cancelling, TableInv, TypeOK, FunctionInv
  <2>2. \A q \in Cancelling : req[q].limiter \in DOMAIN limiter
    BY DEF Cancelling, TableInv, TypeOK
  <2> QED BY <1>3, <2>1, <2>2 DEF Outstanding
<1>6. PICK row : row = NewLimiter(p)
  OBVIOUS
<1>7. /\ row \in Limiter /\ row.last = now /\ now \in Nat
      /\ row.level = Full(row) /\ row.unspent = Full(row) /\ Full(row) \in Nat
  <2>1. now \in Nat /\ Burst[p] * Period[p] \in Nat
    BY Clocks, StallsBelow
  <2> QED BY <1>6, <2>1, NewLimiterFull DEF NewLimiter, Full
<1>8. Level(row) = Full(row) /\ Unspent(row) = Full(row)
  BY <1>7, LevelIs
<1>9. /\ Full(row)' = Full(row) /\ Level(row)' = Level(row)
      /\ Unspent(row)' = Unspent(row)
  BY <1>2 DEF Full, Level, Unspent, Filled
<1>10. CoveredBy(row.period, Full(row), now, now - Full(row), now - Full(row),
                 row.lastEvent, {})
  <2>1. now - Full(row) \in Int
    BY <1>7
  <2> QED BY <2>1 DEF CoveredBy
<1>11. Covers(limiter[b], Outstanding(b))'
  BY <1>2, <1>5, <1>6, <1>8, <1>9, <1>10 DEF Covers
<1> QED BY <1>1, <1>2, <1>3, <1>4, <1>11, VisitDebt

(* Time fills the bucket, and reservations that are due stay made.         *)
LEMMA TickDebt ==
  ASSUME TableInv, DebtInv, Tick
  PROVE  DebtInv'
<1>1. now' = now + 1 /\ UNCHANGED <<visitors, limiter, pc, req>> /\ now \in Nat
  BY Clocks DEF Tick
<1>2. Cancelling' = Cancelling
  BY <1>1 DEF Cancelling
<1>3. AddressInv'
  <2> SUFFICES ASSUME NEW a \in DOMAIN limiter
               PROVE  a[2] <= now + 1 /\ a[2] # now + 1
    BY <1>1 DEF AddressInv
  <2>1. a[2] \in Nat
    BY DEF TableInv, TypeOK, Address
  <2>2. a[2] <= now
    BY DEF DebtInv, AddressInv
  <2> QED BY <1>1, <2>1, <2>2
<1>4. ASSUME NEW a \in DOMAIN limiter
      PROVE  Covers(limiter[a], Outstanding(a))'
  <2>1. PICK l : l = limiter[a]
    OBVIOUS
  <2> DEFINE A == Outstanding(a)
             P == l.period
             F == Full(l)
             z == now - Level(l)
             y == now - Unspent(l)
             zz == now' - Level(l)'
             yy == now' - Unspent(l)'
  <2>2. /\ l \in Limiter /\ l.last <= now /\ now \in Nat
        /\ F \in Nat /\ Level(l) \in Int /\ Unspent(l) \in Int
        /\ Level(l) <= F /\ Unspent(l) <= F
        /\ Numbers(P, F, now, z, y, l.lastEvent)
    BY <2>1, BucketNumbers
  <2>3. Due(A)
    BY OutstandingDue DEF DebtInv
  <2>4. CoveredBy(P, F, now, z, y, l.lastEvent, A)
    BY <2>1 DEF DebtInv, Covers
  <2>5. A' = {x \in A : now' <= x[2]}
    <3>2. \A q \in Cancelling : req[q].act \in Nat
      BY RequestBucket DEF Cancelling
    <3>3. \A q \in Cancelling : now' <= req[q].act <=>
            now <= req[q].act /\ now' <= req[q].act
      BY <1>1, <3>2
    <3> QED BY <1>1, <1>2, <3>3 DEF Outstanding
  <2>6. F' = F /\ l.level \in Int /\ l.unspent \in Int /\ l.last \in Nat
    BY <2>2 DEF Full, Limiter
  <2>7. zz = (IF z <= now' - F THEN now' - F ELSE z)
        /\ yy = (IF y <= now' - F THEN now' - F ELSE y)
    <3>1. /\ Level(l) = IF F <= l.level + (now - l.last)
                        THEN F ELSE l.level + (now - l.last)
          /\ Unspent(l) = IF F <= l.unspent + (now - l.last)
                          THEN F ELSE l.unspent + (now - l.last)
      BY <2>2, LevelIs
    <3>2. /\ Level(l)' = IF F <= l.level + (now' - l.last)
                         THEN F ELSE l.level + (now' - l.last)
          /\ Unspent(l)' = IF F <= l.unspent + (now' - l.last)
                           THEN F ELSE l.unspent + (now' - l.last)
      BY <2>6 DEF Level, Unspent, Filled, Least
    <3> HIDE DEF F
    <3> QED BY <1>1, <2>2, <2>6, <3>1, <3>2
  <2> HIDE DEF A, P, F, z, y, zz, yy
  <2>8. CoveredBy(P, F, now', zz, yy, l.lastEvent, A')
    BY <1>1, <2>2, <2>3, <2>4, <2>5, <2>7, CoverTick
  <2> QED BY <1>1, <2>1, <2>6, <2>8 DEF Covers, A, P, F, zz, yy
<1> QED BY <1>1, <1>2, <1>3, <1>4 DEF DebtInv

(* The cleanup drops no visitor of this moment.                            *)
LEMMA CleanupDebt ==
  ASSUME TableInv, DebtInv, CleanupVisitors
  PROVE  DebtInv'
<1>1. /\ UNCHANGED <<now, limiter, pc, req>>
      /\ visitors' = [k \in {k \in DOMAIN visitors : ~Stale(k)} |-> visitors[k]]
  BY DEF CleanupVisitors
<1>2. Cancelling' = Cancelling
  BY <1>1 DEF Cancelling
<1>3. AddressInv'
  <2> SUFFICES ASSUME NEW a \in DOMAIN limiter, a[2] = now
               PROVE  /\ a[1] \in DOMAIN visitors'
                      /\ visitors'[a[1]].lastSeen = now
    BY <1>1 DEF AddressInv, DebtInv
  <2>1. a[1] \in DOMAIN visitors /\ visitors[a[1]].lastSeen = now
    BY DEF DebtInv, AddressInv
  <2>2. ~Stale(a[1])
    BY <2>1, Clocks DEF Stale
  <2> QED BY <1>1, <2>1, <2>2
<1> QED BY <1>1, <1>2, <1>3, UntouchedDebt

LEMMA InitDebt == Init => DebtInv
<1> SUFFICES ASSUME Init PROVE DebtInv
  OBVIOUS
<1>1. DOMAIN limiter = {} /\ Cancelling = {}
  BY DEF Init, Cancelling
<1> QED BY <1>1, FS_EmptySet DEF DebtInv, AddressInv

LEMMA NextDebt == TableInv /\ DebtInv /\ [Next]_vars => DebtInv'
<1> SUFFICES ASSUME TableInv, DebtInv, [Next]_vars PROVE DebtInv'
  OBVIOUS
<1>1. CASE Tick
  BY <1>1, TickDebt
<1>2. CASE CleanupVisitors
  BY <1>2, CleanupDebt
<1>3. ASSUME NEW r \in Request, NEW k \in Key, NEW p \in Path,
             GetKnownVisitor(r, k, p)
      PROVE  DebtInv'
  <2>1. Visits(r, k) /\ limiter' = limiter /\ pc[r] = "idle"
    BY <1>3, KnownVisits DEF GetKnownVisitor, Enter
  <2> QED BY <2>1, VisitDebt
<1>4. ASSUME NEW r \in Request, NEW k \in Key, NEW p \in Path,
             GetNewVisitor(r, k, p)
      PROVE  DebtInv'
  BY <1>4, NewDebt
<1>5. ASSUME NEW r \in Request, Grant(r) \/ Refuse(r) \/ Reserve(r) \/ Cancel(r)
      PROVE  DebtInv'
  BY <1>5, GrantDebt, RefuseDebt, ReserveDebt, CancelDebt
<1>6. CASE UNCHANGED vars
  <2>1. Cancelling' = Cancelling /\ AddressInv'
    BY <1>6 DEF vars, Cancelling, DebtInv, AddressInv
  <2> QED BY <1>6, <2>1, UntouchedDebt DEF vars
<1> QED BY <1>1, <1>2, <1>3, <1>4, <1>5, <1>6 DEF Next

(* Behind it: the reservations under way are worth no more than they cost. *)
THEOREM DebtInductive == Spec => []DebtInv
BY InitDebt, NextDebt, TableInductive, PTL DEF Spec

(* However the reservations and cancellations of refused requests overlap, *)
(* with each other and with admissions, a bucket never holds more than the *)
(* admitted requests left in it.                                           *)
THEOREM RefusedGainNothingCorrect == Spec => []RefusedGainNothing
<1>1. TableInv /\ DebtInv => RefusedGainNothing
  <2> SUFFICES ASSUME TableInv, DebtInv, NEW a \in DOMAIN limiter
               PROVE  Level(limiter[a]) <= Unspent(limiter[a])
    BY DEF RefusedGainNothing
  <2>1. now - Unspent(limiter[a]) <= now - Level(limiter[a])
    BY DEF DebtInv, Covers, CoveredBy
  <2>2. /\ now \in Nat /\ Level(limiter[a]) \in Int
        /\ Unspent(limiter[a]) \in Int
    BY BucketNumbers
  <2> QED BY <2>1, <2>2
<1> QED BY <1>1, DebtInductive, TableInductive, PTL

-----------------------------------------------------------------------------
(* The ledger: what the admissions of a visitor have cost its buckets.     *)

(* A bucket that has not gained but by the clock pays for the same.        *)
LEMMA PaidOn ==
  ASSUME NEW l \in Limiter, NEW j \in Limiter, j.period = l.period,
         j.unspent - j.last <= l.unspent - l.last,
         NEW n \in Int, NEW m \in Nat, NEW p \in Path, NEW q \in Path,
         NEW since \in Nat, PaidBy(l, n, m, p, q, since)
  PROVE  PaidBy(j, n, m, p, q, since)
<1> DEFINE before == (n - m - Burst[p]) * Period[q]
           own == m * l.period
<1>1. /\ l.period \in Nat /\ l.unspent \in Int /\ l.last \in Nat
      /\ j.unspent \in Int /\ j.last \in Nat
  BY DEF Limiter
<1>2. Burst[p] \in Nat /\ Period[q] \in Nat
  BY StallsBelow
<1>3. before \in Int /\ own \in Int
  <2>1. n - m - Burst[p] \in Int
    BY <1>2
  <2> QED BY <1>1, <1>2, <2>1
<1>4. Period[q] <= l.period /\ before + own + l.unspent <= l.last - since
  BY DEF PaidBy
<1>5. m * j.period = own
  OBVIOUS
<1> HIDE DEF before, own
<1>6. before + own + j.unspent <= j.last - since
  BY <1>1, <1>3, <1>4
<1> QED BY <1>4, <1>5, <1>6 DEF PaidBy, before

(* Spent without debt, what is paid keeps to the limits of the two paths.  *)
LEMMA PaidIsBounded ==
  ASSUME NEW l \in Limiter, l.unspent >= 0,
         NEW n \in Int, NEW m \in Nat, NEW p \in Path, NEW q \in Path,
         NEW since \in Nat, PaidBy(l, n, m, p, q, since)
  PROVE  (n - Burst[p]) * Period[q] <= l.last - since
<1> DEFINE before == (n - m - Burst[p]) * Period[q]
<1>1. l.period \in Nat /\ l.unspent \in Int /\ l.last \in Nat
  BY DEF Limiter
<1>2. Burst[p] \in Nat /\ Period[q] \in Nat
  BY StallsBelow
<1>3. n - m - Burst[p] \in Int /\ n - Burst[p] = (n - m - Burst[p]) + m
  BY <1>2
<1>4. before \in Int /\ m * Period[q] \in Int /\ m * l.period \in Int
  BY <1>1, <1>2, <1>3
<1>5. (n - Burst[p]) * Period[q] = before + m * Period[q]
  BY <1>2, <1>3, Distribute
<1>6. Period[q] <= l.period
      /\ before + m * l.period + l.unspent <= l.last - since
  BY DEF PaidBy
<1>7. m * Period[q] <= m * l.period
  BY <1>1, <1>2, <1>6, ProductMonotone
<1> HIDE DEF before
<1> QED BY <1>1, <1>4, <1>5, <1>6, <1>7

(* A full bucket filled up since the last of n admissions within limits    *)
(* counts as waiting time after them.                                      *)
LEMMA PaidAnew ==
  ASSUME NEW l \in Limiter, NEW s \in Path,
         l.period = Period[s], l.unspent = Burst[s] * Period[s],
         NEW n \in Nat, NEW p \in Path, NEW q \in Path,
         NEW since \in Nat, NEW until \in Nat,
         (n - Burst[p]) * Period[q] <= until - since,
         l.last - since >= Burst[s] * Period[s],
         l.last - until >= Burst[s] * Period[s]
  PROVE  \E o \in Path : PaidBy(l, n, 0, p, o, since)
<1>1. /\ Burst[p] \in Nat /\ Period[q] \in Nat /\ Period[s] \in Nat
      /\ Burst[s] * Period[s] \in Nat /\ l.last \in Nat
  BY StallsBelow DEF Limiter
<1> DEFINE d == n - Burst[p]
<1>2. d \in Int /\ n - 0 - Burst[p] = d /\ d * Period[q] <= until - since
  BY <1>1
<1>3. 0 * l.period = 0
  BY <1>1
<1> HIDE DEF d
<1>4. \A o \in Path : d * Period[o] \in Int
  BY <1>2, StallsBelow
<1>5. CASE Period[q] <= Period[s]
  <2>1. d * Period[q] + l.unspent <= l.last - since
    BY <1>1, <1>2, <1>4
  <2>2. (n - 0 - Burst[p]) * Period[q] + 0 * l.period + l.unspent
          <= l.last - since
    BY <1>1, <1>2, <1>3, <1>4, <2>1
  <2>3. PaidBy(l, n, 0, p, q, since)
    BY <1>5, <2>2 DEF PaidBy
  <2> QED BY <2>3
<1>6. CASE Period[s] < Period[q]
  <2>1. d * Period[s] + l.unspent <= l.last - since
    <3>1. CASE d >= 0
      <4>1. d * Period[s] <= d * Period[q]
        BY <1>1, <1>2, <1>6, <3>1, ProductMonotone
      <4> QED BY <1>1, <1>2, <1>4, <4>1
    <3>2. CASE d < 0
      <4>1. d * Period[s] <= 0
        BY <1>1, <1>2, <3>2, ProductNegative
      <4> QED BY <1>1, <1>4, <4>1
    <3> QED BY <1>2, <3>1, <3>2
  <2>2. (n - 0 - Burst[p]) * Period[s] + 0 * l.period + l.unspent
          <= l.last - since
    BY <1>1, <1>2, <1>3, <1>4, <2>1
  <2>3. Period[s] <= l.period
    BY <1>1
  <2>4. PaidBy(l, n, 0, p, s, since)
    BY <2>2, <2>3 DEF PaidBy
  <2> QED BY <2>4
<1> QED BY <1>1, <1>5, <1>6

LEMMA VisitorBucket ==
  ASSUME TableInv, NEW k \in DOMAIN visitors
  PROVE  LET l == limiter[visitors[k].limiter]
         IN  /\ k \in Key /\ visitors[k].limiter \in DOMAIN limiter
             /\ visitors[k].limiter[1] = k
             /\ l \in Limiter /\ l.last <= now /\ now \in Nat
             /\ Len(granted[k]) \in Nat
             /\ DOMAIN granted[k] = 1 .. Len(granted[k])
             /\ \A i \in DOMAIN granted[k] : granted[k][i].time \in Nat
<1>1. /\ k \in Key /\ visitors[k].limiter \in DOMAIN limiter /\ now \in Nat
      /\ visitors[k].limiter[1] = k
      /\ limiter \in [DOMAIN limiter -> Limiter]
      /\ \A a \in DOMAIN limiter : limiter[a].last <= now
  BY Clocks DEF TableInv, TypeOK, BucketInv
<1>2. granted[k] \in Seq(Admission)
  BY <1>1 DEF TableInv, FunctionInv
<1>3. /\ Len(granted[k]) \in Nat /\ DOMAIN granted[k] = 1 .. Len(granted[k])
  BY <1>2
<1>4. \A i \in DOMAIN granted[k] : granted[k][i].time \in Nat
  BY <1>1, Clocks
<1> QED BY <1>1, <1>3, <1>4

(* Steps that leave the admissions alone and give no bucket anything to    *)
(* spend but what has come in.                                             *)
LEMMA LedgerKept ==
  ASSUME TableInv, TableInv', LedgerInv, granted' = granted,
         DOMAIN visitors' \subseteq DOMAIN visitors,
         \A k \in DOMAIN visitors' : visitors'[k].limiter = visitors[k].limiter,
         DOMAIN limiter' = DOMAIN limiter,
         \A a \in DOMAIN limiter :
           /\ limiter'[a].unspent >= 0
           /\ limiter'[a].period = limiter[a].period
           /\ limiter'[a].unspent - limiter'[a].last
                <= limiter[a].unspent - limiter[a].last
  PROVE  LedgerInv'
<1>1. ASSUME NEW k \in DOMAIN visitors', NEW i \in DOMAIN granted[k]
      PROVE  Paid(k, i)'
  <2> DEFINE l == limiter[visitors[k].limiter]
             j == limiter'[visitors'[k].limiter]
             n == Len(granted[k])
             since == granted[k][i].time
  <2>1. /\ k \in DOMAIN visitors /\ visitors'[k].limiter = visitors[k].limiter
        /\ l \in Limiter /\ n \in Nat /\ since \in Nat /\ i \in 1 .. n
        /\ visitors[k].limiter \in DOMAIN limiter
    BY VisitorBucket
  <2>2. j \in Limiter
    BY <2>1 DEF TableInv, TypeOK
  <2>3. j.period = l.period /\ j.unspent - j.last <= l.unspent - l.last
    BY <2>1
  <2>4. PICK p \in Path, q \in Path, m \in 0 .. n :
          PaidBy(l, n - i + 1, m, p, q, since)
    BY <2>1 DEF LedgerInv, Paid
  <2> HIDE DEF l, j, since
  <2>5. n - i + 1 \in Int /\ m \in Nat
    BY <2>1
  <2>6. PaidBy(j, n - i + 1, m, p, q, since)
    BY <2>1, <2>2, <2>3, <2>4, <2>5, PaidOn
  <2> QED BY <2>6 DEF Paid, PaidBy, j, since
<1>2. AdmissionBound'
  BY DEF LedgerInv, AdmissionBound
<1> QED BY <1>1, <1>2 DEF LedgerInv

(* Refused requests and their cancelled reservations.                      *)
LEMMA ServedLedger ==
  ASSUME TableInv, TableInv', LedgerInv, NEW r \in Request,
         Refuse(r) \/ Reserve(r) \/ Cancel(r)
  PROVE  LedgerInv'
<1> DEFINE b == req[r].limiter
           l == limiter[b]
<1>1. /\ l \in Limiter /\ l.last <= now /\ now \in Nat /\ b \in DOMAIN limiter
      /\ req[r].act \in Nat /\ l = Bucket(r)
  BY RequestBucket DEF Refuse, Reserve, Cancel, Bucket
<1>2. /\ l.unspent \in Int /\ l.last \in Nat /\ l.unspent >= 0
      /\ Unspent(l) \in Int /\ Unspent(l) >= 0
      /\ Unspent(l) <= l.unspent + (now - l.last)
  BY <1>1, LevelFacts DEF LedgerInv, Limiter
<1>3. /\ UNCHANGED <<now, visitors, due, granted>>
  BY DEF Refuse, Reserve, Cancel
<1>4. \A a \in DOMAIN limiter : limiter[a] \in Limiter /\ limiter[a].unspent >= 0
  BY DEF TableInv, TypeOK, LedgerInv
<1>5. \/ limiter' = limiter
      \/ \E row : /\ Touched(l, row) /\ row.unspent = Unspent(l)
                  /\ limiter' = [limiter EXCEPT ![b] = row]
  <2>1. CASE Refuse(r)
    BY <2>1 DEF Refuse
  <2>2. CASE Reserve(r)
    BY <1>1, <1>2, <2>2, ReservedTouches DEF Reserve
  <2>3. CASE Cancel(r)
    BY <1>1, <2>3, CancelledTouches DEF Cancel
  <2> QED BY <2>1, <2>2, <2>3
<1> HIDE DEF l
<1>6. /\ DOMAIN limiter' = DOMAIN limiter
      /\ \A a \in DOMAIN limiter :
           /\ limiter'[a].unspent >= 0
           /\ limiter'[a].period = limiter[a].period
           /\ limiter'[a].unspent - limiter'[a].last
                <= limiter[a].unspent - limiter[a].last
  <2>1. CASE limiter' = limiter
    <3>1. \A a \in DOMAIN limiter : limiter[a].unspent \in Int
                                      /\ limiter[a].last \in Int
      BY <1>4 DEF Limiter
    <3> QED BY <1>4, <2>1, <3>1
  <2>2. ASSUME NEW row, Touched(l, row), row.unspent = Unspent(l),
               limiter' = [limiter EXCEPT ![b] = row]
        PROVE  /\ DOMAIN limiter' = DOMAIN limiter
               /\ \A a \in DOMAIN limiter :
                    /\ limiter'[a].unspent >= 0
                    /\ limiter'[a].period = limiter[a].period
                    /\ limiter'[a].unspent - limiter'[a].last
                         <= limiter[a].unspent - limiter[a].last
    <3>1. row.period = l.period /\ row.last = now
      BY <2>2 DEF Touched
    <3>2. row.unspent >= 0 /\ row.unspent - row.last <= l.unspent - l.last
      BY <1>1, <1>2, <2>2, <3>1
    <3>3. /\ DOMAIN limiter' = DOMAIN limiter
          /\ \A a \in DOMAIN limiter :
               limiter'[a] = IF a = b THEN row ELSE limiter[a]
      BY <2>2
    <3>4. \A a \in DOMAIN limiter : limiter[a].unspent \in Int
                                      /\ limiter[a].last \in Int
      BY <1>4 DEF Limiter
    <3> HIDE DEF b
    <3>5. ASSUME NEW a \in DOMAIN limiter
          PROVE  /\ limiter'[a].unspent >= 0
                 /\ limiter'[a].period = limiter[a].period
                 /\ limiter'[a].unspent - limiter'[a].last
                      <= limiter[a].unspent - limiter[a].last
      <4>1. CASE a = b
        BY <3>1, <3>2, <3>3, <4>1 DEF l
      <4>2. CASE a # b
        BY <1>4, <3>3, <3>4, <4>2
      <4> QED BY <4>1, <4>2
    <3> QED BY <3>3, <3>5
  <2> QED BY <1>5, <2>1, <2>2
<1> QED BY <1>3, <1>6, LedgerKept

(* Time, the cleanup and the visits of known visitors touch no bucket.     *)
LEMMA UntouchedLedger ==
  ASSUME TableInv, TableInv', LedgerInv, limiter' = limiter,
         granted' = granted, DOMAIN visitors' \subseteq DOMAIN visitors,
         \A k \in DOMAIN visitors' : visitors'[k].limiter = visitors[k].limiter
  PROVE  LedgerInv'
<1>1. \A a \in DOMAIN limiter :
        /\ limiter[a].unspent >= 0
        /\ limiter[a].unspent \in Int /\ limiter[a].last \in Int
  BY DEF TableInv, TypeOK, LedgerInv, Limiter
<1> QED BY <1>1, LedgerKept

(* A visitor's next bucket: the table has forgotten the last one, so all   *)
(* of its admissions are far enough back to pay for a full one.            *)
LEMMA NewLedger ==
  ASSUME TableInv, TableInv', LedgerInv, NEW r \in Request, NEW k \in Key,
         NEW s \in Path, GetNewVisitor(r, k, s)
  PROVE  LedgerInv'
<1> DEFINE b == <<k, now>>
           l == limiter'[b]
<1>1. /\ Visits(r, k) /\ k \notin DOMAIN visitors /\ visitors'[k].limiter = b
      /\ l = NewLimiter(s)
      /\ \A a \in DOMAIN limiter \ {b} : limiter'[a] = limiter[a]
  BY NewVisits
<1>2. b[1] = k
  OBVIOUS
<1> HIDE DEF b
<1>3. /\ UNCHANGED <<now, due, granted>>
      /\ DOMAIN visitors' = DOMAIN visitors \cup {k}
      /\ \A j \in DOMAIN visitors \ {k} : visitors'[j] = visitors[j]
      /\ DOMAIN limiter' = DOMAIN limiter \cup {b}
  BY <1>1 DEF Visits
<1>4. /\ l \in Limiter /\ l.period = Period[s] /\ l.last = now
      /\ l.unspent = Burst[s] * Period[s] /\ now \in Nat
  BY <1>1, Clocks, NewLimiterFull
<1> HIDE DEF l
<1>5. /\ Burst[s] * Period[s] \in Nat
      /\ MaxStall + Burst[s] * Period[s] <= Interval
      /\ MaxStall \in Nat /\ Interval \in Nat
  BY StallsBelow, Clocks
<1>6. ASSUME NEW a \in DOMAIN limiter'
      PROVE  limiter'[a].unspent >= 0
  <2>1. CASE a = b
    BY <1>4, <1>5, <2>1 DEF l
  <2>2. CASE a # b
    BY <1>1, <1>3, <2>2 DEF LedgerInv
  <2> QED BY <2>1, <2>2
<1>7. ASSUME NEW i \in DOMAIN granted[k]
      PROVE  Paid(k, i)'
  <2> DEFINE n == Len(granted[k])
             since == granted[k][i].time
             until == granted[k][n].time
  <2>1. granted[k] \in Seq(Admission)
    BY DEF TableInv, FunctionInv
  <2>2. /\ n \in Nat /\ i \in 1 .. n /\ n \in DOMAIN granted[k]
        /\ n - i + 1 \in Nat /\ 0 \in 0 .. n
    BY <2>1
  <2>3. /\ since \in Nat /\ until \in Nat
        /\ now - since > Interval - MaxStall /\ now - until > Interval - MaxStall
    BY <1>1, <2>2, Clocks DEF TableInv, PastInv
  <2>4. PICK p \in Path, q \in Path :
          (n - i + 1 - Burst[p]) * Period[q] <= until - since
    BY <2>2 DEF LedgerInv, AdmissionBound
  <2> HIDE DEF n, since, until
  <2>5. now - since >= Burst[s] * Period[s] /\ now - until >= Burst[s] * Period[s]
    BY <1>4, <1>5, <2>3
  <2>6. PICK o \in Path : PaidBy(l, n - i + 1, 0, p, o, since)
    <3> DEFINE w == n - i + 1
    <3>1. w \in Nat
      BY <2>2
    <3>4. (w - Burst[p]) * Period[q] <= until - since
      <4>1. w - Burst[p] = n - i + 1 - Burst[p]
        <5>1. n \in Int /\ i \in Int /\ Burst[p] \in Int
          BY <2>2, StallsBelow
        <5> QED BY <5>1
      <4> HIDE DEF w
      <4> QED BY <2>4, <4>1, Zenon
    <3>2. /\ l.last - since >= Burst[s] * Period[s]
          /\ l.last - until >= Burst[s] * Period[s]
      BY <1>4, <2>5
    <3> HIDE DEF w
    <3>3. \E o \in Path : PaidBy(l, w, 0, p, o, since)
      BY <1>4, <2>3, <3>1, <3>2, <3>4, PaidAnew, Zenon
    <3> QED BY <3>3 DEF w
  <2>7. \E u \in Path, v \in Path, m \in 0 .. n :
          PaidBy(l, n - i + 1, m, u, v, since)
    BY <2>2, <2>6
  <2> QED BY <1>1, <1>3, <2>7 DEF Paid, PaidBy, l, n, since
<1>8. ASSUME NEW j \in DOMAIN visitors, NEW i \in DOMAIN granted[j]
      PROVE  Paid(j, i)'
  <2>1. j # k /\ visitors'[j] = visitors[j]
    BY <1>1, <1>3
  <2>2. visitors[j].limiter # b /\ visitors[j].limiter \in DOMAIN limiter
    BY <1>2, <2>1, VisitorBucket
  <2>3. limiter'[visitors[j].limiter] = limiter[visitors[j].limiter]
    BY <1>1, <2>2
  <2>4. Paid(j, i)
    BY DEF LedgerInv
  <2> QED BY <1>3, <2>1, <2>3, <2>4 DEF Paid, PaidBy
<1>9. AdmissionBound'
  BY <1>3 DEF LedgerInv, AdmissionBound
<1> QED BY <1>3, <1>6, <1>7, <1>8, <1>9 DEF LedgerInv

(* One token more is paid for by the bucket that gave it.                  *)
LEMMA GrantLedger ==
  ASSUME TableInv, TableInv', LedgerInv, RefusedGainNothing,
         NEW r \in Request, Grant(r)
  PROVE  LedgerInv'
<1> DEFINE k == req[r].key
           n == Len(granted[k])
           b == req[r].limiter
           l == limiter[b]
           row == Reserved(l, Unspent(l) - l.period)
<1>1. /\ l \in Limiter /\ l.last <= now /\ now \in Nat /\ b \in DOMAIN limiter
      /\ l = Bucket(r)
  BY RequestBucket DEF Grant, Bucket
<1>2. /\ k \in DOMAIN visitors /\ visitors[k].limiter = b /\ b[1] = k
      /\ UNCHANGED <<now, visitors>>
  BY VisitorBucket DEF TableInv, HeldInv, Grant
<1>3. /\ l.unspent \in Int /\ l.last \in Nat /\ l.period \in Nat
      /\ Unspent(l) \in Int /\ Level(l) \in Int /\ Full(l) \in Nat
      /\ Unspent(l) <= Full(l)
      /\ Unspent(l) <= l.unspent + (now - l.last)
  BY <1>1, LevelFacts DEF Limiter
<1>4. l.period <= Unspent(l)
  <2>1. Level(l) >= l.period
    BY <1>1 DEF Grant
  <2>2. Level(l) <= Unspent(l)
    BY <1>1 DEF RefusedGainNothing
  <2> QED BY <1>3, <2>1, <2>2
<1>5. /\ row \in Limiter /\ row.period = l.period /\ row.last = now
      /\ row.unspent = Unspent(l) - l.period
  <2>1. Unspent(l) - l.period \in Int
    BY <1>3
  <2> QED BY <1>1, <2>1, ReservedTouches DEF Touched
<1>6. limiter' = [limiter EXCEPT ![b] = row]
  BY DEF Grant
<1>7. PICK s \in Path : l.burst = Burst[s] /\ l.period = Period[s]
  BY <1>1 DEF TableInv, BucketInv
<1>8. Full(l) = Burst[s] * Period[s]
  BY <1>7 DEF Full
<1> HIDE DEF row, l
<1>9. /\ DOMAIN limiter' = DOMAIN limiter /\ limiter'[b] = row
      /\ \A a \in DOMAIN limiter \ {b} : limiter'[a] = limiter[a]
  BY <1>1, <1>6
<1>10. row.unspent >= 0
  BY <1>3, <1>4, <1>5
<1>11. \A a \in DOMAIN limiter' : limiter'[a].unspent >= 0
  BY <1>9, <1>10 DEF LedgerInv
<1>12. /\ k \in Key /\ n \in Nat
       /\ granted' \in [Key -> Seq(Admission)]
       /\ \A j \in Key \ {k} : granted'[j] = granted[j]
       /\ DOMAIN granted[k] = 1 .. n /\ DOMAIN granted'[k] = 1 .. (n + 1)
       /\ Len(granted'[k]) = n + 1
       /\ \A i \in 1 .. n : granted'[k][i] = granted[k][i]
       /\ granted'[k][n + 1].time = now
  BY GrantAppends
<1> HIDE DEF k, n, b
<1>13. ASSUME NEW i \in DOMAIN granted'[k]
       PROVE  \E p \in Path, q \in Path, m \in 0 .. (n + 1) :
                PaidBy(row, n + 1 - i + 1, m, p, q, granted'[k][i].time)
  <2>1. CASE i \in 1 .. n
    <3> DEFINE since == granted[k][i].time
    <3>1. since = granted'[k][i].time /\ since \in Nat
      BY <1>12, <2>1, Clocks
    <3>2. Paid(k, i)
      BY <1>2, <1>12, <2>1 DEF LedgerInv
    <3>3. PICK p \in Path, q \in Path, m \in 0 .. n :
            PaidBy(l, n - i + 1, m, p, q, since)
      BY <1>2, <3>2 DEF Paid, l, n, b
    <3> HIDE DEF since
    <3>4. PaidBy(row, n + 1 - i + 1, m + 1, p, q, since)
      <4> DEFINE before == (n - i + 1 - m - Burst[p]) * Period[q]
      <4>1. Burst[p] \in Nat /\ Period[q] \in Nat
        BY StallsBelow
      <4>2. n - i + 1 - m - Burst[p] \in Int /\ m \in Nat
        BY <1>12, <2>1, <4>1
      <4>3. before \in Int /\ m * l.period \in Int
        BY <1>3, <4>1, <4>2
      <4>4. (m + 1) * l.period = m * l.period + l.period
        BY <1>3, <4>2
      <4>5. /\ Period[q] <= l.period
            /\ before + m * l.period + l.unspent <= l.last - since
        <5> DEFINE w == n - i + 1
        <5>1. PaidBy(l, w, m, p, q, since)
          BY <3>3, Zenon
        <5>2. w - m - Burst[p] = n - i + 1 - m - Burst[p]
          BY <1>12, <2>1, <4>1
        <5> HIDE DEF w
        <5>3. /\ Period[q] <= l.period
              /\ (w - m - Burst[p]) * Period[q] + m * l.period + l.unspent
                   <= l.last - since
          BY <5>1, Zenon DEF PaidBy
        <5> QED BY <5>2, <5>3, Zenon
      <4> HIDE DEF before
      <4>7. before + (m + 1) * l.period + row.unspent <= row.last - since
        BY <1>1, <1>3, <1>5, <3>1, <4>3, <4>4, <4>5
      <4> DEFINE w == n + 1 - i + 1
      <4>8. w - (m + 1) - Burst[p] = n - i + 1 - m - Burst[p]
        <5>1. n \in Int /\ i \in Int /\ m \in Int /\ Burst[p] \in Int
          BY <1>12, <2>1, <4>1
        <5> QED BY <5>1
      <4> HIDE DEF w
      <4>9. (w - (m + 1) - Burst[p]) * Period[q] = before
        BY <4>8, Zenon DEF before
      <4>10. /\ Period[q] <= row.period
             /\ (w - (m + 1) - Burst[p]) * Period[q]
                  + (m + 1) * row.period + row.unspent <= row.last - since
        BY <1>5, <4>5, <4>7, <4>9, Zenon
      <4>11. PaidBy(row, w, m + 1, p, q, since)
        BY <4>10, Zenon DEF PaidBy
      <4> QED BY <4>11, Zenon DEF w
    <3>5. m + 1 \in 0 .. (n + 1)
      BY <1>12
    <3> QED BY <3>1, <3>4, <3>5
  <2>2. CASE i = n + 1
    <3>1. n + 1 - i + 1 = 1
      BY <1>12, <2>2
    <3>2. PaidBy(row, 1, 1, s, s, now)
      <4>1. Burst[s] \in Nat /\ Period[s] \in Nat /\ Burst[s] * Period[s] \in Nat
        BY StallsBelow
      <4>2. (1 - 1 - Burst[s]) * Period[s] = 0 - Burst[s] * Period[s]
        BY <4>1
      <4>3. 1 * row.period = l.period /\ Period[s] <= row.period
        BY <1>3, <1>5, <1>7
      <4>4. row.unspent <= Burst[s] * Period[s] - l.period
        BY <1>3, <1>5, <1>8, <4>1
      <4>5. row.unspent \in Int /\ row.last - now = 0
        BY <1>1, <1>3, <1>5
      <4>6. (1 - 1 - Burst[s]) * Period[s] + 1 * row.period + row.unspent
              <= row.last - now
        BY <1>3, <4>1, <4>2, <4>3, <4>4, <4>5
      <4> QED BY <4>3, <4>6 DEF PaidBy
    <3>3. 1 \in 0 .. (n + 1) /\ granted'[k][i].time = now
      BY <1>12, <2>2
    <3> QED BY <3>1, <3>2, <3>3
  <2> QED BY <1>12, <2>1, <2>2
<1>14. ASSUME NEW j \in DOMAIN visitors', NEW i \in DOMAIN granted'[j]
       PROVE  Paid(j, i)'
  <2>1. CASE j = k
    <3> DEFINE len == Len(granted'[j])
    <3>1. limiter'[visitors'[j].limiter] = row
      BY <1>2, <1>9, <2>1
    <3>2. len = n + 1 /\ n + 1 - i + 1 = len - i + 1
      BY <1>12, <2>1
    <3>3. \E p \in Path, q \in Path, m \in 0 .. len :
            PaidBy(row, len - i + 1, m, p, q, granted'[j][i].time)
      <4>1. \E p \in Path, q \in Path, m \in 0 .. (n + 1) :
              PaidBy(row, n + 1 - i + 1, m, p, q, granted'[j][i].time)
        BY <1>13, <2>1
      <4> HIDE DEF len
      <4> QED BY <3>2, <4>1, Zenon
    <3> QED BY <3>1, <3>3 DEF Paid, PaidBy
  <2>2. CASE j # k
    <3>1. visitors[j].limiter # b /\ visitors[j].limiter \in DOMAIN limiter
          /\ j \in Key
      BY <1>2, <2>2, VisitorBucket
    <3>2. granted'[j] = granted[j] /\ visitors'[j] = visitors[j]
          /\ limiter'[visitors[j].limiter] = limiter[visitors[j].limiter]
      BY <1>2, <1>9, <1>12, <2>2, <3>1
    <3>3. Paid(j, i)
      BY <1>2, <3>2 DEF LedgerInv
    <3> QED BY <3>2, <3>3 DEF Paid, PaidBy
  <2> QED BY <2>1, <2>2
<1>15. AdmissionBound'
  <2> SUFFICES ASSUME NEW j \in Key, NEW i \in DOMAIN granted'[j],
                      NEW h \in DOMAIN granted'[j], i <= h
               PROVE  \E p \in Path, q \in Path :
                        (h - i + 1 - Burst[p]) * Period[q]
                          <= granted'[j][h].time - granted'[j][i].time
    BY DEF AdmissionBound
  <2>1. CASE j = k /\ h = n + 1
    <3> DEFINE since == granted'[k][i].time
    <3>1. PICK p \in Path, q \in Path, m \in 0 .. (n + 1) :
            PaidBy(row, n + 1 - i + 1, m, p, q, since)
      BY <1>13, <2>1
    <3>2. since \in Nat
      <4>1. granted'[k] \in Seq(Admission)
        BY <1>12
      <4>2. granted'[k][i] \in Admission
        BY <2>1, <4>1
      <4> QED BY <4>2 DEF Admission
    <3> HIDE DEF since
    <3> DEFINE w == n + 1 - i + 1
    <3>3. w \in Int /\ m \in Nat
      BY <1>12, <2>1
    <3>4. PaidBy(row, w, m, p, q, since)
      BY <3>1, Zenon
    <3> HIDE DEF w
    <3>5. (w - Burst[p]) * Period[q] <= row.last - since
      BY <1>5, <1>10, <3>2, <3>3, <3>4, PaidIsBounded
    <3>6. h - i + 1 - Burst[p] = w - Burst[p]
      BY <1>12, <2>1, StallsBelow DEF w
    <3>7. since = granted'[j][i].time /\ row.last = granted'[j][h].time
      BY <1>5, <1>12, <2>1 DEF since
    <3> QED BY <3>5, <3>6, <3>7, Zenon
  <2>2. CASE ~(j = k /\ h = n + 1)
    <3>1. /\ i \in DOMAIN granted[j] /\ h \in DOMAIN granted[j]
          /\ granted'[j][i] = granted[j][i] /\ granted'[j][h] = granted[j][h]
      <4>1. CASE j = k
        BY <1>12, <2>2, <4>1
      <4>2. CASE j # k
        BY <1>12, <4>2
      <4> QED BY <4>1, <4>2
    <3> QED BY <3>1 DEF LedgerInv, AdmissionBound
  <2> QED BY <2>1, <2>2
<1> QED BY <1>11, <1>14, <1>15 DEF LedgerInv

LEMMA InitLedger == Init => LedgerInv
<1> SUFFICES ASSUME Init PROVE LedgerInv
  OBVIOUS
<1>1. /\ DOMAIN visitors = {} /\ DOMAIN limiter = {}
      /\ \A k \in Key : granted[k] = <<>>
  BY DEF Init
<1>2. \A k \in Key : DOMAIN granted[k] = {}
  BY <1>1
<1> QED BY <1>1, <1>2 DEF LedgerInv, AdmissionBound

LEMMA NextLedger ==
  TableInv /\ TableInv' /\ LedgerInv /\ RefusedGainNothing /\ [Next]_vars
    => LedgerInv'
<1> SUFFICES ASSUME TableInv, TableInv', LedgerInv, RefusedGainNothing,
                    [Next]_vars
             PROVE  LedgerInv'
  OBVIOUS
<1>1. CASE Tick
  BY <1>1, UntouchedLedger DEF Tick
<1>2. CASE CleanupVisitors
  <2>1. /\ limiter' = limiter /\ granted' = granted
        /\ DOMAIN visitors' \subseteq DOMAIN visitors
        /\ \A k \in DOMAIN visitors' : visitors'[k] = visitors[k]
    BY <1>2 DEF CleanupVisitors
  <2> QED BY <2>1, UntouchedLedger
<1>3. ASSUME NEW r \in Request, NEW k \in Key, NEW p \in Path,
             GetKnownVisitor(r, k, p)
      PROVE  LedgerInv'
  <2>1. Visits(r, k) /\ limiter' = limiter /\ k \in DOMAIN visitors
    BY <1>3, KnownVisits DEF GetKnownVisitor
  <2>2. /\ granted' = granted /\ DOMAIN visitors' = DOMAIN visitors
        /\ \A j \in DOMAIN visitors : visitors'[j].limiter = visitors[j].limiter
    BY <2>1 DEF Visits
  <2> QED BY <2>1, <2>2, UntouchedLedger
<1>4. ASSUME NEW r \in Request, NEW k \in Key, NEW p \in Path,
             GetNewVisitor(r, k, p)
      PROVE  LedgerInv'
  BY <1>4, NewLedger
<1>5. ASSUME NEW r \in Request, Grant(r)
      PROVE  LedgerInv'
  BY <1>5, GrantLedger
<1>6. ASSUME NEW r \in Request, Refuse(r) \/ Reserve(r) \/ Cancel(r)
      PROVE  LedgerInv'
  BY <1>6, ServedLedger
<1>7. CASE UNCHANGED vars
  BY <1>7, UntouchedLedger DEF vars
<1> QED BY <1>1, <1>2, <1>3, <1>4, <1>5, <1>6, <1>7 DEF Next

(* The limits hold: no number of visits, stalls, reservations,             *)
(* cancellations or cleanups lets a visitor have more than a burst and     *)
(* what came in meanwhile.                                                 *)
THEOREM AdmissionBoundCorrect == Spec => []AdmissionBound
<1>1. LedgerInv => AdmissionBound
  BY DEF LedgerInv
<1> QED BY <1>1, InitLedger, NextLedger, TableInductive,
        RefusedGainNothingCorrect, PTL DEF Spec

=============================================================================
