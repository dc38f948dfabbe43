------------------------------ MODULE Serving -------------------------------
(***************************************************************************)
(* How a request is answered: SetupRoutes and RecoveryMiddleware           *)
(* (routes.go), the chains of middleware_setup.go, the middlewares they    *)
(* are made of, and the three writers they nest around net/http's.         *)
(*                                                                         *)
(* A request goes down its chain, is refused by a middleware or reaches    *)
(* the handler, and comes back up by a return or by a panic.  A writer     *)
(* passes a status on only once, so what each layer thinks was answered    *)
(* depends on who wrote first.  Requests share one gauge.  What decides    *)
(* about rate and sign-in is in RateLimit and SignIn; here any decision    *)
(* may fall.                                                               *)
(***************************************************************************)
EXTENDS Integers, Sequences, FiniteSets

CONSTANT Request

ASSUME RequestAssumption == IsFiniteSet(Request)

VARIABLES
  ask,       \* what each request asks for
  mode,      \* idle, going down, up, panicking, done
  at,        \* the middleware of its chain it is about to enter
  context,   \* whether it carries a RequestContext
  user,      \* User of the RequestContext
  secured,   \* whether the header map has the security headers
  stack,     \* its response writers, outermost first
  wire,      \* status line and headers as net/http sends them
  body,      \* who has written to the body
  reported,  \* what the layers recorded of the answer
  gauge      \* http.server.active_requests

vars == <<ask, mode, at, context, user, secured, stack, wire, body, reported,
          gauge>>

-----------------------------------------------------------------------------
(* Variant: the security headers are set where the page is rendered.       *)
PublicInsecure == <<"context", "observability", "logging", "size", "rate",
                    "security">>
Public == <<"context", "observability", "logging", "security", "size",
            "rate">>

Authenticated == Public \o <<"auth", "enrichment", "csrf">>
Admin == Authenticated \o <<"requireAdmin", "audit">>

Route == {"board", "admin", "health", "metrics", "static", "unknown"}
Chain ==
  [board   |-> Authenticated \o <<"boardData">>,
   admin   |-> Admin \o <<"boardData">>,
   health  |-> <<"context", "logging">>,
   metrics |-> <<"context", "whitelist">>,
   static  |-> <<>>,
   unknown |-> <<>>]

Guarded == {"board", "admin"}

Ask == [route : Route, post : BOOLEAN, cross : BOOLEAN, big : BOOLEAN]
NoAsk == [route |-> "unknown", post |-> FALSE, cross |-> FALSE, big |-> FALSE]

Status == {200, 303, 400, 401, 403, 404, 413, 429, 500}
NoWire == [status |-> 0, secured |-> FALSE]

Recorder == {"observability", "logging", "audit"}
Writer == [layer : Recorder \cup {"recovery"}, sent : BOOLEAN,
           status : Status]

Fresh(layer) == [layer |-> layer, sent |-> FALSE, status |-> 200]

Init ==
  /\ ask = [r \in Request |-> NoAsk]
  /\ mode = [r \in Request |-> "idle"]
  /\ at = [r \in Request |-> 1]
  /\ context = [r \in Request |-> FALSE]
  /\ user = [r \in Request |-> "none"]
  /\ secured = [r \in Request |-> FALSE]
  /\ stack = [r \in Request |-> <<Fresh("recovery")>>]
  /\ wire = [r \in Request |-> NoWire]
  /\ body = [r \in Request |-> {}]
  /\ reported = [r \in Request |-> {}]
  /\ gauge = 0

-----------------------------------------------------------------------------
(* The middlewareResponseWriter and recoveryResponseWriter.                *)

(* Variants: the status is kept although it is not passed on; the recovery *)
(* writer forgets that it has sent.                                        *)
WrittenAlways(w, code, passed) ==
  [layer |-> w.layer, sent |-> TRUE, status |-> code]
WrittenUnmarked(w, code, passed) ==
  IF passed
  THEN [layer |-> w.layer, sent |-> w.layer # "recovery", status |-> code]
  ELSE w
Written(w, code, passed) ==
  IF passed THEN [layer |-> w.layer, sent |-> TRUE, status |-> code] ELSE w

(* A status goes outwards up to the first writer that has sent one.        *)
Passed(stk, i) == \A j \in i .. Len(stk) : ~stk[j].sent
WriteHeader(stk, code) ==
  [i \in DOMAIN stk |-> Written(stk[i], code, Passed(stk, i))]

OnWire(r, code, safe) ==
  IF wire[r] = NoWire THEN [status |-> code, secured |-> safe] ELSE wire[r]

(* Write, or http.Error, at the innermost writer.                          *)
Answer(r, code, author) ==
  /\ stack' = [stack EXCEPT ![r] = WriteHeader(stack[r], code)]
  /\ wire' = [wire EXCEPT ![r] = IF Passed(stack[r], 1)
                                 THEN OnWire(r, code, secured[r])
                                 ELSE wire[r]]
  /\ body' = [body EXCEPT ![r] = @ \cup {author}]

Push(r, layer) == stack' = [stack EXCEPT ![r] = Append(@, Fresh(layer))]
Top(r) == stack[r][Len(stack[r])]
Pop(r) == stack' = [stack EXCEPT ![r] = SubSeq(@, 1, Len(@) - 1)]

-----------------------------------------------------------------------------
(* Going down.                                                             *)
Kind(r) == Chain[ask[r].route][at[r]]
Before(r, kind) ==
  /\ mode[r] = "down"
  /\ at[r] <= Len(Chain[ask[r].route])
  /\ Kind(r) = kind
Enter(r) == at' = [at EXCEPT ![r] = @ + 1]

Arrive(r) ==
  /\ mode[r] = "idle"
  /\ ask' \in {[ask EXCEPT ![r] = q] : q \in Ask}
  /\ mode' = [mode EXCEPT ![r] = "down"]
  /\ UNCHANGED <<at, context, user, secured, stack, wire, body, reported,
                 gauge>>

RequestContext(r) ==
  /\ Before(r, "context")
  /\ context' = [context EXCEPT ![r] = TRUE]
  /\ Enter(r)
  /\ UNCHANGED <<ask, mode, user, secured, stack, wire, body, reported, gauge>>

Observability(r) ==
  /\ Before(r, "observability")
  /\ Push(r, "observability")
  /\ gauge' = gauge + 1
  /\ Enter(r)
  /\ UNCHANGED <<ask, mode, context, user, secured, wire, body, reported>>

Logging(r) ==
  /\ Before(r, "logging")
  /\ Push(r, "logging")
  /\ Enter(r)
  /\ UNCHANGED <<ask, mode, context, user, secured, wire, body, reported,
                 gauge>>

SecurityHeaders(r) ==
  /\ Before(r, "security")
  /\ secured' = [secured EXCEPT ![r] = TRUE]
  /\ Enter(r)
  /\ UNCHANGED <<ask, mode, context, user, stack, wire, body, reported, gauge>>

(* http.Error and return.                                                  *)
Refuse(r, code) ==
  /\ Answer(r, code, "refusal")
  /\ mode' = [mode EXCEPT ![r] = "up"]
  /\ UNCHANGED <<ask, at, context, user, secured, reported, gauge>>

Pass(r) ==
  /\ Enter(r)
  /\ UNCHANGED <<ask, mode, context, user, secured, stack, wire, body,
                 reported, gauge>>

RequestSizeLimit(r) ==
  /\ Before(r, "size")
  /\ IF ask[r].post /\ ask[r].big THEN Refuse(r, 413) ELSE Pass(r)

RateLimiter(r) == Before(r, "rate") /\ (Refuse(r, 429) \/ Pass(r))

(* No WhoIs, no row, blocked.                                              *)
AuthRefuses(r) ==
  Before(r, "auth") /\ \E code \in {401, 404, 500} : Refuse(r, code)

(* The user is kept in the RequestContext of the request, if it has one.   *)
AuthPasses(r) ==
  /\ Before(r, "auth")
  /\ IF context[r]
     THEN user' \in {[user EXCEPT ![r] = u] : u \in {"member", "admin"}}
     ELSE UNCHANGED user
  /\ Enter(r)
  /\ UNCHANGED <<ask, mode, context, secured, stack, wire, body, reported,
                 gauge>>

(* Variant: only what a browser sends from another origin by GET is        *)
(* looked at.                                                              *)
CrossOriginGet(r) == ~ask[r].post /\ ask[r].cross
CrossOrigin(r) == ask[r].post /\ ask[r].cross

CsrfProtection(r) ==
  /\ Before(r, "csrf")
  /\ IF CrossOrigin(r) THEN Refuse(r, 403) ELSE Pass(r)

RequireAdmin(r) ==
  /\ Before(r, "requireAdmin")
  /\ IF user[r] # "admin" THEN Refuse(r, 403) ELSE Pass(r)

(* user.ID of a request that has no user is a nil dereference.             *)
AdminAudit(r) ==
  /\ Before(r, "audit")
  /\ IF user[r] = "none"
     THEN mode' = [mode EXCEPT ![r] = "panic"] /\ UNCHANGED <<at, stack>>
     ELSE Push(r, "audit") /\ Enter(r) /\ UNCHANGED mode
  /\ UNCHANGED <<ask, context, user, secured, wire, body, reported, gauge>>

(* userEnrichment, BoardData and ipWhitelist let everybody pass.           *)
PassThrough(r) ==
  /\ \E kind \in {"enrichment", "boardData", "whitelist"} : Before(r, kind)
  /\ Pass(r)

-----------------------------------------------------------------------------
(* The handler, when nothing of the chain is left.                         *)
Handling(r) ==
  /\ mode[r] = "down"
  /\ at[r] > Len(Chain[ask[r].route])

(* Part of a page, a redirect, an error; after part of a page, the error   *)
(* of the template.                                                        *)
HandlerWrites(r) ==
  /\ Handling(r)
  /\ \E code \in {200, 303, 400, 404, 500} : Answer(r, code, "handler")
  /\ UNCHANGED <<ask, mode, at, context, user, secured, reported, gauge>>

HandlerReturns(r) ==
  /\ Handling(r)
  /\ mode' = [mode EXCEPT ![r] = "up"]
  /\ UNCHANGED <<ask, at, context, user, secured, stack, wire, body, reported,
                 gauge>>

HandlerPanics(r) ==
  /\ Handling(r)
  /\ mode' = [mode EXCEPT ![r] = "panic"]
  /\ UNCHANGED <<ask, at, context, user, secured, stack, wire, body, reported,
                 gauge>>

-----------------------------------------------------------------------------
(* Coming back.                                                            *)

(* Variant: once by the defer and once by hand.                            *)
ReleasedTwice(r) == IF Top(r).layer = "observability" THEN 2 ELSE 0
Released(r) == IF Top(r).layer = "observability" THEN 1 ELSE 0

(* What follows next.ServeHTTP: the status is recorded, the gauge goes     *)
(* back.                                                                   *)
Leave(r) ==
  /\ mode[r] = "up" /\ Len(stack[r]) > 1
  /\ reported' = [reported EXCEPT ![r] =
                    @ \cup {[layer |-> Top(r).layer,
                             status |-> Top(r).status]}]
  /\ gauge' = gauge - Released(r)
  /\ Pop(r)
  /\ UNCHANGED <<ask, mode, at, context, user, secured, wire, body>>

(* Variant: the gauge goes back with the records, not by a defer.          *)
ReleasedNever(r) == 0
ReleasedByPanic(r) == Released(r)

(* A panic runs the defers only.                                           *)
Unwind(r) ==
  /\ mode[r] = "panic" /\ Len(stack[r]) > 1
  /\ gauge' = gauge - ReleasedByPanic(r)
  /\ Pop(r)
  /\ UNCHANGED <<ask, mode, at, context, user, secured, wire, body, reported>>

(* recover: an answer that has begun is left as it is, and is finished by  *)
(* net/http as if it were whole.                                           *)
Recover(r) ==
  /\ mode[r] = "panic" /\ Len(stack[r]) = 1
  /\ IF stack[r][1].sent
     THEN UNCHANGED <<secured, wire, body>>
     ELSE /\ secured' = [secured EXCEPT ![r] = TRUE]
          /\ wire' = [wire EXCEPT ![r] = OnWire(r, 500, TRUE)]
          /\ body' = [body EXCEPT ![r] = @ \cup {"recovery"}]
  /\ mode' = [mode EXCEPT ![r] = "done"]
  /\ UNCHANGED <<ask, at, context, user, stack, reported, gauge>>

(* net/http answers 200 for a handler that has written nothing.            *)
Finish(r) ==
  /\ mode[r] = "up" /\ Len(stack[r]) = 1
  /\ wire' = [wire EXCEPT ![r] = OnWire(r, 200, secured[r])]
  /\ mode' = [mode EXCEPT ![r] = "done"]
  /\ UNCHANGED <<ask, at, context, user, secured, stack, body, reported,
                 gauge>>

-----------------------------------------------------------------------------
Step(r) ==
  \/ Arrive(r) \/ RequestContext(r) \/ Observability(r) \/ Logging(r)
  \/ SecurityHeaders(r) \/ RequestSizeLimit(r) \/ RateLimiter(r)
  \/ AuthRefuses(r) \/ AuthPasses(r) \/ CsrfProtection(r)
  \/ RequireAdmin(r) \/ AdminAudit(r) \/ PassThrough(r)
  \/ HandlerWrites(r) \/ HandlerReturns(r) \/ HandlerPanics(r)
  \/ Leave(r) \/ Unwind(r) \/ Recover(r) \/ Finish(r)

Next == \E r \in Request : Step(r)

Spec == Init /\ [][Next]_vars

-----------------------------------------------------------------------------
(* Every variable has its type.                                            *)
TypeOK ==
  /\ ask \in [Request -> Ask]
  /\ mode \in [Request -> {"idle", "down", "up", "panic", "done"}]
  /\ at \in [Request -> Nat \ {0}]
  /\ context \in [Request -> BOOLEAN]
  /\ user \in [Request -> {"none", "member", "admin"}]
  /\ secured \in [Request -> BOOLEAN]
  /\ stack \in [Request -> Seq(Writer)]
  /\ wire \in [Request -> {NoWire} \cup [status : Status, secured : BOOLEAN]]
  /\ body \in [Request -> SUBSET {"refusal", "handler", "recovery"}]
  /\ reported \in [Request -> SUBSET [layer : Recorder, status : Status]]
  /\ gauge \in Nat

(* The status that observability, logging and the audit record is the one  *)
(* on the wire, also when a template fails after part of the page, when a  *)
(* handler writes twice or writes nothing.                                 *)
ReportedIsSent ==
  \A r \in Request : \A e \in reported[r] :
    mode[r] = "done" => e.status = wire[r].status

(* http.server.active_requests is the number of requests between the entry *)
(* and the exit of the observability middleware, however they left it.     *)
Observed(r) == \E i \in DOMAIN stack[r] : stack[r][i].layer = "observability"
GaugeIsBalanced == gauge = Cardinality({r \in Request : Observed(r)})

(* A handler of the board runs only for a request that has a user in its   *)
(* context, is small and of the same origin, and an admin's only for an    *)
(* admin.                                                                  *)
HandlersAreGuarded ==
  \A r \in Request :
    (Handling(r) /\ ask[r].route \in Guarded) =>
      /\ user[r] # "none"
      /\ ask[r].post => ~ask[r].cross /\ ~ask[r].big
      /\ ask[r].route = "admin" => user[r] = "admin"

(* Every answer of a board route has the security headers: pages, the      *)
(* refusals of each middleware, and the page after a panic.                *)
AnswerIsSecured(r) ==
  ask[r].route \in Guarded /\ wire[r] # NoWire => wire[r].secured
AnswersAreSecured == \A r \in Request : AnswerIsSecured(r)

(* A panic is answered by a page of its own with status 500, or leaves the *)
(* answer that has begun: the two are never mixed.  Nobody goes without an *)
(* answer.                                                                 *)
AnswerIsOne(r) ==
  /\ "recovery" \in body[r] =>
       body[r] = {"recovery"} /\ wire[r].status = 500
  /\ mode[r] = "done" => wire[r] # NoWire
PanicIsAnswered == \A r \in Request : AnswerIsOne(r)

=============================================================================
