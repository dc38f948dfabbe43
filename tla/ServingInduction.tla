-------------------------- MODULE ServingInduction --------------------------
(* The inductive invariant of Serving: what holds of each request by       *)
(* itself, and the gauge they share.                                       *)
EXTENDS Serving

(* Until the request is done, its writers agree with the wire: all have    *)
(* sent what is there, or none has sent anything.                          *)
Told(r) ==
  mode[r] # "done" =>
    \A i \in DOMAIN stack[r] :
      /\ stack[r][i].sent <=> wire[r] # NoWire
      /\ stack[r][i].status = IF wire[r] = NoWire THEN 200
                                                  ELSE wire[r].status

(* The recovery writer is the outermost and the only one of its kind, and  *)
(* the observability middleware, the second of its chain, is passed once.  *)
Stacked(r) ==
  /\ Len(stack[r]) >= 1
  /\ \A i \in DOMAIN stack[r] : i > 1 => stack[r][i].layer \in Recorder
  /\ \A i, j \in DOMAIN stack[r] :
       stack[r][i].layer = "observability"
         /\ stack[r][j].layer = "observability" => i = j
  /\ \A i \in DOMAIN stack[r] :
       stack[r][i].layer = "observability" => i > 1 /\ at[r] > 2

(* Nothing is answered on the way down, and what was recorded on the way   *)
(* up is on the wire, or will be.                                          *)
Recorded(r) ==
  /\ mode[r] = "idle" => wire[r] = NoWire
  /\ mode[r] = "down" /\ at[r] <= Len(Chain[ask[r].route]) =>
       wire[r] = NoWire
  /\ mode[r] \in {"idle", "down", "panic"} => reported[r] = {}
  /\ \A e \in reported[r] :
       e.status = IF wire[r] = NoWire THEN 200 ELSE wire[r].status

(* Who has written to the body of a request that is not done.              *)
Authored(r) ==
  /\ wire[r] = NoWire => body[r] = {}
  /\ mode[r] # "done" => "recovery" \notin body[r]

(* What the middlewares behind a request have made sure of.                *)
Checked(r) ==
  /\ mode[r] = "idle" => at[r] = 1
  /\ ask[r].route \in Guarded =>
       /\ at[r] > 1 => context[r]
       /\ at[r] > 4 => secured[r]
       /\ mode[r] = "up" => secured[r]
       /\ at[r] > 5 /\ ask[r].post => ~ask[r].big
       /\ at[r] > 7 => user[r] # "none"
       /\ at[r] > 9 /\ ask[r].post => ~ask[r].cross
       /\ at[r] > 10 /\ ask[r].route = "admin" => user[r] = "admin"

Local(r) ==
  /\ Told(r) /\ Stacked(r) /\ Recorded(r) /\ Authored(r) /\ Checked(r)
  /\ AnswerIsSecured(r) /\ AnswerIsOne(r)

IInv ==
  /\ TypeOK
  /\ \A r \in Request : Local(r)
  /\ GaugeIsBalanced
=============================================================================
