--------------------------- MODULE ServingProofs ----------------------------
(* Serving keeps its invariants for every set of requests.  A step touches *)
(* one request only: OwnStep says what it does to that request, action by  *)
(* action, Elsewhere that the others stay as they are, and the gauge       *)
(* follows the number of observability writers on the stacks.              *)
EXTENDS ServingInduction, FiniteSetTheorems, SequenceTheorems, TLAPS

USE RequestAssumption

LEMMA Chains ==
  /\ Len(Chain["board"]) = 10 /\ Len(Chain["admin"]) = 12
  /\ \A c \in {"board", "admin"} :
       /\ Chain[c][1] = "context" /\ Chain[c][2] = "observability"
       /\ Chain[c][3] = "logging" /\ Chain[c][4] = "security"
       /\ Chain[c][5] = "size" /\ Chain[c][6] = "rate"
       /\ Chain[c][7] = "auth" /\ Chain[c][8] = "enrichment"
       /\ Chain[c][9] = "csrf"
  /\ Chain["board"][10] = "boardData"
  /\ Chain["admin"][10] = "requireAdmin" /\ Chain["admin"][11] = "audit"
  /\ Chain["admin"][12] = "boardData"
<1> DEFINE A == Authenticated
           B == Authenticated \o <<"boardData">>
           C == Admin \o <<"boardData">>
<1>0. Chain["board"] = B /\ Chain["admin"] = C
  BY DEF Chain
<1>1. /\ Len(A) = 9 /\ A[1] = "context" /\ A[2] = "observability"
      /\ A[3] = "logging" /\ A[4] = "security" /\ A[5] = "size"
      /\ A[6] = "rate" /\ A[7] = "auth" /\ A[8] = "enrichment"
      /\ A[9] = "csrf"
  BY DEF Authenticated, Public
<1>2. /\ Len(B) = 10 /\ B[1] = "context" /\ B[2] = "observability"
      /\ B[3] = "logging" /\ B[4] = "security" /\ B[5] = "size"
      /\ B[6] = "rate" /\ B[7] = "auth" /\ B[8] = "enrichment"
      /\ B[9] = "csrf" /\ B[10] = "boardData"
  BY DEF Authenticated, Public
<1>3. /\ Len(C) = 12 /\ C[1] = "context" /\ C[2] = "observability"
      /\ C[3] = "logging" /\ C[4] = "security" /\ C[5] = "size"
      /\ C[6] = "rate" /\ C[7] = "auth" /\ C[8] = "enrichment"
      /\ C[9] = "csrf" /\ C[10] = "requireAdmin" /\ C[11] = "audit"
      /\ C[12] = "boardData"
  BY DEF Authenticated, Public, Admin
<1> HIDE DEF A, B, C
<1> QED BY <1>0, <1>2, <1>3

LEMMA OtherChains ==
  /\ Len(Chain["health"]) = 2 /\ Chain["health"][1] = "context"
  /\ Chain["health"][2] = "logging"
  /\ Len(Chain["metrics"]) = 2 /\ Chain["metrics"][1] = "context"
  /\ Chain["metrics"][2] = "whitelist"
  /\ Len(Chain["static"]) = 0 /\ Len(Chain["unknown"]) = 0
  BY DEF Chain

LEMMA KindAt ==
  ASSUME TypeOK, NEW r \in Request, NEW kind, Before(r, kind)
  PROVE  /\ mode[r] = "down" /\ at[r] \in Nat \ {0}
         /\ at[r] <= Len(Chain[ask[r].route])
         /\ ask[r].route \in Guarded =>
              /\ kind = "context" => at[r] = 1
              /\ kind = "observability" => at[r] = 2
              /\ kind = "logging" => at[r] = 3
              /\ kind = "security" => at[r] = 4
              /\ kind = "size" => at[r] = 5
              /\ kind = "rate" => at[r] = 6
              /\ kind = "auth" => at[r] = 7
              /\ kind = "enrichment" => at[r] = 8
              /\ kind = "csrf" => at[r] = 9
              /\ kind = "requireAdmin" =>
                   ask[r].route = "admin" /\ at[r] = 10
              /\ kind = "audit" => ask[r].route = "admin" /\ at[r] = 11
              /\ kind = "boardData" =>
                   at[r] = IF ask[r].route = "admin" THEN 12 ELSE 10
              /\ kind # "whitelist"
         /\ ask[r].route \notin Guarded =>
              kind \in {"context", "logging", "whitelist"}
<1>1. /\ ask[r].route \in Route /\ at[r] \in Nat \ {0} /\ mode[r] = "down"
      /\ at[r] <= Len(Chain[ask[r].route])
      /\ Chain[ask[r].route][at[r]] = kind
  BY DEF TypeOK, Ask, Before, Kind
<1>2. CASE ask[r].route = "board"
  <2>1. at[r] \in 1 .. 10
    BY <1>1, <1>2, Chains
  <2> QED BY <1>1, <1>2, <2>1, Chains DEF Guarded
<1>3. CASE ask[r].route = "admin"
  <2>1. at[r] \in 1 .. 12
    BY <1>1, <1>3, Chains
  <2> QED BY <1>1, <1>3, <2>1, Chains DEF Guarded
<1>4. CASE ask[r].route \notin Guarded
  <2>1. ask[r].route \in {"health", "metrics"} /\ at[r] \in {1, 2}
    BY <1>1, <1>4, OtherChains DEF Guarded, Route
  <2> QED BY <1>1, <1>4, <2>1, OtherChains DEF Guarded
<1> QED BY <1>1, <1>2, <1>3, <1>4 DEF Guarded

LEMMA PushFacts ==
  ASSUME NEW stk \in Seq(Writer), NEW layer \in Recorder
  PROVE  /\ Append(stk, Fresh(layer)) \in Seq(Writer)
         /\ Len(Append(stk, Fresh(layer))) = Len(stk) + 1
         /\ DOMAIN Append(stk, Fresh(layer)) = 1 .. Len(stk) + 1
         /\ Append(stk, Fresh(layer))[Len(stk) + 1] = Fresh(layer)
         /\ \A i \in 1 .. Len(stk) : Append(stk, Fresh(layer))[i] = stk[i]
<1>1. Fresh(layer) \in Writer
  BY DEF Fresh, Writer, Status
<1> QED BY <1>1

LEMMA PopFacts ==
  ASSUME NEW stk \in Seq(Writer), Len(stk) > 1
  PROVE  LET s == SubSeq(stk, 1, Len(stk) - 1)
         IN  /\ s \in Seq(Writer) /\ Len(s) = Len(stk) - 1
             /\ DOMAIN s = 1 .. Len(stk) - 1
             /\ \A i \in 1 .. Len(stk) - 1 : s[i] = stk[i]
<1>1. Len(stk) \in Nat /\ \A i \in 1 .. Len(stk) - 1 : stk[i] \in Writer
  OBVIOUS
<1> QED BY <1>1, SubSeqProperties, LenProperties

LEMMA WriteFacts ==
  ASSUME NEW stk \in Seq(Writer), NEW code \in Status
  PROVE  /\ WriteHeader(stk, code) \in Seq(Writer)
         /\ Len(WriteHeader(stk, code)) = Len(stk)
         /\ DOMAIN WriteHeader(stk, code) = DOMAIN stk
         /\ \A i \in DOMAIN stk :
              WriteHeader(stk, code)[i].layer = stk[i].layer
         /\ (\A i \in DOMAIN stk : ~stk[i].sent) =>
              \A i \in DOMAIN stk : /\ WriteHeader(stk, code)[i].sent
                                    /\ WriteHeader(stk, code)[i].status =
                                            code
         /\ (\A i \in DOMAIN stk : stk[i].sent) =>
              \A i \in DOMAIN stk : WriteHeader(stk, code)[i] = stk[i]
<1> DEFINE w == WriteHeader(stk, code)
<1>1. Len(stk) \in Nat /\ DOMAIN stk = 1 .. Len(stk)
  OBVIOUS
<1>2. ASSUME NEW i \in DOMAIN stk
      PROVE  /\ Written(stk[i], code, Passed(stk, i)) \in Writer
             /\ Written(stk[i], code, Passed(stk, i)).layer = stk[i].layer
  <2>1. stk[i] \in Writer
    OBVIOUS
  <2> QED BY <2>1 DEF Written, Writer
<1>3. w \in [1 .. Len(stk) -> Writer]
  BY <1>1, <1>2 DEF WriteHeader
<1>4. w \in Seq(Writer)
  BY <1>1, <1>3, SeqDef
<1>5. Len(w) = Len(stk) /\ DOMAIN w = DOMAIN stk
  BY <1>1, <1>3, <1>4
<1>6. \A i \in DOMAIN stk : w[i].layer = stk[i].layer
  BY <1>2 DEF WriteHeader
<1>7. ASSUME \A i \in DOMAIN stk : ~stk[i].sent
      PROVE  \A i \in DOMAIN stk : w[i].sent /\ w[i].status = code
  <2>1. ASSUME NEW i \in DOMAIN stk
        PROVE  Passed(stk, i)
    BY <1>1, <1>7 DEF Passed
  <2> QED BY <2>1 DEF WriteHeader, Written
<1>8. ASSUME \A i \in DOMAIN stk : stk[i].sent
      PROVE  \A i \in DOMAIN stk : w[i] = stk[i]
  <2>1. ASSUME NEW i \in DOMAIN stk
        PROVE  ~Passed(stk, i)
    BY <1>1, <1>8 DEF Passed
  <2> QED BY <2>1 DEF WriteHeader, Written
<1> HIDE DEF w
<1>9. w = WriteHeader(stk, code)
  BY DEF w
<1> QED BY <1>4, <1>5, <1>6, <1>7, <1>8, <1>9

LEMMA StackFacts ==
  ASSUME TypeOK, NEW r \in Request
  PROVE  /\ stack[r] \in Seq(Writer) /\ Len(stack[r]) \in Nat
         /\ DOMAIN stack[r] = 1 .. Len(stack[r])
         /\ \A i \in DOMAIN stack[r] : stack[r][i] \in Writer
<1>1. stack[r] \in Seq(Writer)
  BY DEF TypeOK
<1> QED BY <1>1

LEMMA LengthFacts ==
  ASSUME TypeOK, NEW r \in Request
  PROVE  /\ at[r] \in Nat \ {0} /\ ask[r].route \in Route
         /\ Len(Chain[ask[r].route]) \in Nat
         /\ ask[r].route \in Guarded => Len(Chain[ask[r].route]) >= 10
<1>1. at[r] \in Nat \ {0} /\ ask[r].route \in Route
  BY DEF TypeOK, Ask
<1>2. CASE ask[r].route \in Guarded
  <2>1. CASE ask[r].route = "board"
    BY <1>1, <2>1, Chains
  <2>2. CASE ask[r].route = "admin"
    BY <1>1, <2>2, Chains
  <2> QED BY <1>2, <2>1, <2>2 DEF Guarded
<1>3. CASE ask[r].route \notin Guarded
  BY <1>1, <1>3, OtherChains DEF Guarded, Route
<1> QED BY <1>1, <1>2, <1>3

LEMMA Frame ==
  ASSUME NEW q \in Request, Local(q),
         ask'[q] = ask[q], mode'[q] = mode[q], at'[q] = at[q],
         context'[q] = context[q], user'[q] = user[q],
         secured'[q] = secured[q], stack'[q] = stack[q], wire'[q] = wire[q],
         body'[q] = body[q], reported'[q] = reported[q]
  PROVE  Local(q)'
  BY DEF Local, Told, Stacked, Recorded, Authored, Checked, AnswerIsSecured,
         AnswerIsOne

LEMMA AnswerLocal ==
  ASSUME TypeOK, NEW r \in Request, Local(r), mode[r] = "down",
         NEW code \in Status, NEW author \in {"refusal", "handler"},
         Answer(r, code, author),
         ask[r].route \in Guarded => secured[r],
         at'[r] = at[r], ask'[r] = ask[r], secured'[r] = secured[r],
         reported'[r] = reported[r], user'[r] = user[r],
         context'[r] = context[r],
         \/ mode'[r] = "up"
         \/ mode'[r] = "down" /\ at[r] > Len(Chain[ask[r].route])
  PROVE  Local(r)'
<1> DEFINE w == WriteHeader(stack[r], code)
<1>1. /\ w \in Seq(Writer) /\ Len(w) = Len(stack[r])
      /\ DOMAIN w = DOMAIN stack[r]
      /\ \A i \in DOMAIN stack[r] : w[i].layer = stack[r][i].layer
      /\ wire[r] = NoWire => \A i \in DOMAIN stack[r] :
                               w[i].sent /\ w[i].status = code
      /\ wire[r] # NoWire => \A i \in DOMAIN stack[r] : w[i] = stack[r][i]
  <2>1. stack[r] \in Seq(Writer)
    BY StackFacts
  <2>2. CASE wire[r] = NoWire
    <3>1. \A i \in DOMAIN stack[r] : ~stack[r][i].sent
      BY <2>2 DEF Local, Told
    <3> QED BY <2>1, <2>2, <3>1, WriteFacts
  <2>3. CASE wire[r] # NoWire
    <3>1. \A i \in DOMAIN stack[r] : stack[r][i].sent
      BY <2>3 DEF Local, Told
    <3> QED BY <2>1, <2>3, <3>1, WriteFacts
  <2> QED BY <2>2, <2>3
<1> HIDE DEF w
<1>2. stack'[r] = w
  BY DEF Answer, TypeOK, w
<1>3. wire'[r] = IF wire[r] = NoWire
                 THEN [status |-> code, secured |-> secured[r]]
                 ELSE wire[r]
  <2>1. Passed(stack[r], 1) <=> wire[r] = NoWire
    BY StackFacts DEF Local, Told, Stacked, Passed
  <2> QED BY <2>1 DEF Answer, TypeOK, OnWire
<1>4. wire'[r] # NoWire
  BY <1>3 DEF NoWire, Status
<1>5. body'[r] = body[r] \cup {author}
  BY DEF Answer, TypeOK
<1>6. Told(r)'
  BY <1>1, <1>2, <1>3, <1>4 DEF Local, Told, Stacked
<1>7. Stacked(r)'
  BY <1>1, <1>2 DEF Local, Stacked
<1>8. Recorded(r)'
  <2>1. reported'[r] = {} /\ mode'[r] # "idle"
    BY DEF Local, Recorded
  <2>2. mode'[r] = "down" => ~(at'[r] <= Len(Chain[ask'[r].route]))
    BY LengthFacts
  <2> QED BY <2>1, <2>2 DEF Recorded
<1>9. Authored(r)' /\ AnswerIsOne(r)'
  BY <1>4, <1>5 DEF Local, Authored, AnswerIsOne
<1>10. Checked(r)'
  BY DEF Local, Checked
<1>11. AnswerIsSecured(r)'
  BY <1>3 DEF Local, AnswerIsSecured
<1> QED BY <1>6, <1>7, <1>8, <1>9, <1>10, <1>11 DEF Local

LEMMA AnswerTypes ==
  ASSUME TypeOK, NEW r \in Request, NEW code \in Status,
         NEW author \in {"refusal", "handler"}, Answer(r, code, author)
  PROVE  /\ stack' \in [Request -> Seq(Writer)]
         /\ wire' \in [Request -> {NoWire} \cup [status : Status,
                                                secured : BOOLEAN]]
         /\ body' \in [Request -> SUBSET {"refusal", "handler", "recovery"}]
<1>1. stack' \in [Request -> Seq(Writer)]
  BY StackFacts, WriteFacts DEF Answer, TypeOK
<1>2. OnWire(r, code, secured[r])
        \in {NoWire} \cup [status : Status, secured : BOOLEAN]
  BY DEF OnWire, TypeOK
<1>3. wire' \in [Request -> {NoWire} \cup [status : Status, secured :
        BOOLEAN]]
  BY <1>2 DEF Answer, TypeOK
<1>4. body' \in [Request -> SUBSET {"refusal", "handler", "recovery"}]
  BY DEF Answer, TypeOK
<1> QED BY <1>1, <1>3, <1>4
LEMMA ArriveLocal ==
  ASSUME TypeOK, NEW r \in Request, Local(r), Arrive(r)
  PROVE  Local(r)'
<1>1. Told(r)' /\ Stacked(r)'
  BY StackFacts DEF Arrive, TypeOK, Local, Recorded, Stacked, Told
<1>2. Recorded(r)' /\ Authored(r)'
  BY DEF Arrive, TypeOK, Local, Authored, Recorded
<1>3. Checked(r)'
  BY DEF Arrive, TypeOK, Local, Guarded, Checked, Recorded
<1>4. AnswerIsSecured(r)' /\ AnswerIsOne(r)'
  BY DEF Arrive, TypeOK, Local, AnswerIsOne, AnswerIsSecured, Recorded
<1> QED BY <1>1, <1>2, <1>3, <1>4 DEF Local

LEMMA ArriveTypes ==
  ASSUME TypeOK, NEW r \in Request, Local(r), Arrive(r), gauge' \in Nat
  PROVE  TypeOK'
<1>1. stack' \in [Request -> Seq(Writer)]
  BY DEF Arrive, TypeOK
<1>2. wire' \in [Request -> {NoWire} \cup [status : Status,
                                           secured : BOOLEAN]]
  BY DEF Arrive, TypeOK
<1>3. /\ ask' \in [Request -> Ask]
      /\ mode' \in [Request -> {"idle", "down", "up", "panic", "done"}]
  <2>1. PICK q \in Ask : ask' = [ask EXCEPT ![r] = q]
    BY DEF Arrive
  <2> QED BY <2>1 DEF Arrive, TypeOK
<1>4. at' \in [Request -> Nat \ {0}]
  BY DEF Arrive, TypeOK
<1>5. /\ context' \in [Request -> BOOLEAN]
      /\ user' \in [Request -> {"none", "member", "admin"}]
      /\ secured' \in [Request -> BOOLEAN]
  BY DEF Arrive, TypeOK
<1>6. /\ body' \in [Request -> SUBSET {"refusal", "handler", "recovery"}]
      /\ reported' \in [Request -> SUBSET [layer : Recorder,
                                         status : Status]]
  BY DEF Arrive, TypeOK
<1> QED BY <1>1, <1>2, <1>3, <1>4, <1>5, <1>6 DEF TypeOK

LEMMA RequestContextLocal ==
  ASSUME TypeOK, NEW r \in Request, Local(r), RequestContext(r)
  PROVE  Local(r)'
<1>1. Told(r)' /\ Stacked(r)'
  BY StackFacts, KindAt DEF RequestContext, Enter, TypeOK, Local, Recorded,
     Stacked, Told
<1>2. Recorded(r)' /\ Authored(r)'
  BY KindAt DEF RequestContext, Enter, TypeOK, Local, Authored, Recorded
<1>3. Checked(r)'
  BY KindAt DEF RequestContext, Enter, TypeOK, Local, Checked, Recorded
<1>4. AnswerIsSecured(r)' /\ AnswerIsOne(r)'
  BY KindAt DEF RequestContext, Enter, TypeOK, Local, AnswerIsOne,
     AnswerIsSecured, Recorded
<1> QED BY <1>1, <1>2, <1>3, <1>4 DEF Local

LEMMA RequestContextTypes ==
  ASSUME TypeOK, NEW r \in Request, Local(r), RequestContext(r), gauge' \in
          Nat
  PROVE  TypeOK'
<1>1. stack' \in [Request -> Seq(Writer)]
  BY DEF RequestContext, TypeOK
<1>2. wire' \in [Request -> {NoWire} \cup [status : Status,
                                           secured : BOOLEAN]]
  BY DEF RequestContext, TypeOK
<1>3. /\ ask' \in [Request -> Ask]
      /\ mode' \in [Request -> {"idle", "down", "up", "panic", "done"}]
  BY DEF RequestContext, TypeOK
<1>4. at' \in [Request -> Nat \ {0}]
  BY DEF RequestContext, TypeOK, Enter
<1>5. /\ context' \in [Request -> BOOLEAN]
      /\ user' \in [Request -> {"none", "member", "admin"}]
      /\ secured' \in [Request -> BOOLEAN]
  BY DEF RequestContext, TypeOK
<1>6. /\ body' \in [Request -> SUBSET {"refusal", "handler", "recovery"}]
      /\ reported' \in [Request -> SUBSET [layer : Recorder,
                                         status : Status]]
  BY DEF RequestContext, TypeOK
<1> QED BY <1>1, <1>2, <1>3, <1>4, <1>5, <1>6 DEF TypeOK

LEMMA ObservabilityLocal ==
  ASSUME TypeOK, NEW r \in Request, Local(r), Observability(r)
  PROVE  Local(r)'
<1>1. Told(r)' /\ Stacked(r)'
  <2>0. at[r] = 2
    <3>1. Before(r, "observability")
      BY DEF Observability
    <3> QED BY <3>1, KindAt
  <2>1. \A i \in DOMAIN stack[r] : stack[r][i].layer # "observability"
    BY <2>0 DEF Local, Stacked
  <2>2. at'[r] = at[r] + 1 /\ at[r] >= 2
    <3>1. Before(r, "observability") /\ ask[r].route \in Guarded
      BY KindAt DEF Observability
    <3> QED BY <3>1, KindAt DEF Observability, Enter, TypeOK
  <2>3. stack'[r] = Append(stack[r], Fresh("observability"))
    BY DEF Observability, Push, TypeOK
  <2>4. /\ DOMAIN stack'[r] = 1 .. Len(stack[r]) + 1
        /\ Len(stack'[r]) = Len(stack[r]) + 1
        /\ \A i \in 1 .. Len(stack[r]) : stack'[r][i] = stack[r][i]
        /\ stack'[r][Len(stack[r]) + 1] = Fresh("observability")
    BY <2>3, StackFacts, PushFacts DEF Recorder
  <2>5. Stacked(r)'
    <3> DEFINE n == Len(stack[r])
    <3>1. /\ n \in Nat /\ n >= 1 /\ DOMAIN stack[r] = 1 .. n
          /\ \A i \in 1 .. n : i > 1 => stack[r][i].layer \in Recorder
      BY StackFacts DEF Local, Stacked
    <3>2. Fresh("observability").layer = "observability"
      BY DEF Fresh
    <3>3. \A i \in DOMAIN stack'[r] :
            stack'[r][i].layer = "observability" => i = n + 1
      BY <2>1, <2>4, <3>1
    <3>4. \A i \in DOMAIN stack'[r] :
            i > 1 => stack'[r][i].layer \in Recorder
      BY <2>4, <3>1, <3>2 DEF Recorder
    <3> HIDE DEF n
    <3>5. Len(stack'[r]) >= 1 /\ n + 1 > 1 /\ at'[r] > 2
      BY <2>0, <2>2, <2>4, <3>1 DEF n
    <3> QED BY <3>1, <3>3, <3>4, <3>5 DEF Stacked
  <2>6. wire'[r] = NoWire /\ wire[r] = NoWire /\ mode[r] = "down"
    BY KindAt DEF Observability, Local, Recorded
  <2>7. Told(r)'
    BY <2>4, <2>6, StackFacts DEF Local, Told, Fresh
  <2> QED BY <2>5, <2>7
<1>2. Recorded(r)' /\ Authored(r)'
  BY KindAt DEF Observability, Enter, Push, Fresh, Recorder, TypeOK, Local,
     Authored, Recorded
<1>3. Checked(r)'
  BY KindAt DEF Observability, Enter, Push, Fresh, Recorder, TypeOK, Local,
     Checked, Recorded
<1>4. AnswerIsSecured(r)' /\ AnswerIsOne(r)'
  BY KindAt DEF Observability, Enter, Push, Fresh, Recorder, TypeOK, Local,
     AnswerIsOne, AnswerIsSecured, Recorded
<1> QED BY <1>1, <1>2, <1>3, <1>4 DEF Local

LEMMA ObservabilityTypes ==
  ASSUME TypeOK, NEW r \in Request, Local(r), Observability(r), gauge' \in
          Nat
  PROVE  TypeOK'
<1>1. stack' \in [Request -> Seq(Writer)]
  BY StackFacts, PushFacts DEF Observability, TypeOK, Push, Recorder
<1>2. wire' \in [Request -> {NoWire} \cup [status : Status,
                                           secured : BOOLEAN]]
  BY DEF Observability, TypeOK
<1>3. /\ ask' \in [Request -> Ask]
      /\ mode' \in [Request -> {"idle", "down", "up", "panic", "done"}]
  BY DEF Observability, TypeOK
<1>4. at' \in [Request -> Nat \ {0}]
  BY DEF Observability, TypeOK, Enter
<1>5. /\ context' \in [Request -> BOOLEAN]
      /\ user' \in [Request -> {"none", "member", "admin"}]
      /\ secured' \in [Request -> BOOLEAN]
  BY DEF Observability, TypeOK
<1>6. /\ body' \in [Request -> SUBSET {"refusal", "handler", "recovery"}]
      /\ reported' \in [Request -> SUBSET [layer : Recorder,
                                         status : Status]]
  BY DEF Observability, TypeOK
<1> QED BY <1>1, <1>2, <1>3, <1>4, <1>5, <1>6 DEF TypeOK

LEMMA LoggingLocal ==
  ASSUME TypeOK, NEW r \in Request, Local(r), Logging(r)
  PROVE  Local(r)'
<1>1. Told(r)' /\ Stacked(r)'
  BY StackFacts, KindAt, PushFacts DEF Logging, Enter, Push, Fresh,
     Recorder, TypeOK, Local, Recorded, Stacked, Told
<1>2. Recorded(r)' /\ Authored(r)'
  BY KindAt DEF Logging, Enter, Push, Fresh, Recorder, TypeOK, Local,
     Authored, Recorded
<1>3. Checked(r)'
  BY KindAt DEF Logging, Enter, Push, Fresh, Recorder, TypeOK, Local,
     Checked, Recorded
<1>4. AnswerIsSecured(r)' /\ AnswerIsOne(r)'
  BY KindAt DEF Logging, Enter, Push, Fresh, Recorder, TypeOK, Local,
     AnswerIsOne, AnswerIsSecured, Recorded
<1> QED BY <1>1, <1>2, <1>3, <1>4 DEF Local

LEMMA LoggingTypes ==
  ASSUME TypeOK, NEW r \in Request, Local(r), Logging(r), gauge' \in Nat
  PROVE  TypeOK'
<1>1. stack' \in [Request -> Seq(Writer)]
  BY StackFacts, PushFacts DEF Logging, TypeOK, Push, Recorder
<1>2. wire' \in [Request -> {NoWire} \cup [status : Status,
                                           secured : BOOLEAN]]
  BY DEF Logging, TypeOK
<1>3. /\ ask' \in [Request -> Ask]
      /\ mode' \in [Request -> {"idle", "down", "up", "panic", "done"}]
  BY DEF Logging, TypeOK
<1>4. at' \in [Request -> Nat \ {0}]
  BY DEF Logging, TypeOK, Enter
<1>5. /\ context' \in [Request -> BOOLEAN]
      /\ user' \in [Request -> {"none", "member", "admin"}]
      /\ secured' \in [Request -> BOOLEAN]
  BY DEF Logging, TypeOK
<1>6. /\ body' \in [Request -> SUBSET {"refusal", "handler", "recovery"}]
      /\ reported' \in [Request -> SUBSET [layer : Recorder,
                                         status : Status]]
  BY DEF Logging, TypeOK
<1> QED BY <1>1, <1>2, <1>3, <1>4, <1>5, <1>6 DEF TypeOK

LEMMA SecurityHeadersLocal ==
  ASSUME TypeOK, NEW r \in Request, Local(r), SecurityHeaders(r)
  PROVE  Local(r)'
<1>1. Told(r)' /\ Stacked(r)'
  BY StackFacts, KindAt DEF SecurityHeaders, Enter, TypeOK, Local, Recorded,
     Stacked, Told
<1>2. Recorded(r)' /\ Authored(r)'
  BY KindAt DEF SecurityHeaders, Enter, TypeOK, Local, Authored, Recorded
<1>3. Checked(r)'
  BY KindAt DEF SecurityHeaders, Enter, TypeOK, Local, Checked, Recorded
<1>4. AnswerIsSecured(r)' /\ AnswerIsOne(r)'
  BY KindAt DEF SecurityHeaders, Enter, TypeOK, Local, AnswerIsOne,
     AnswerIsSecured, Recorded
<1> QED BY <1>1, <1>2, <1>3, <1>4 DEF Local

LEMMA SecurityHeadersTypes ==
  ASSUME TypeOK, NEW r \in Request, Local(r), SecurityHeaders(r), gauge' \in
          Nat
  PROVE  TypeOK'
<1>1. stack' \in [Request -> Seq(Writer)]
  BY DEF SecurityHeaders, TypeOK
<1>2. wire' \in [Request -> {NoWire} \cup [status : Status,
                                           secured : BOOLEAN]]
  BY DEF SecurityHeaders, TypeOK
<1>3. /\ ask' \in [Request -> Ask]
      /\ mode' \in [Request -> {"idle", "down", "up", "panic", "done"}]
  BY DEF SecurityHeaders, TypeOK
<1>4. at' \in [Request -> Nat \ {0}]
  BY DEF SecurityHeaders, TypeOK, Enter
<1>5. /\ context' \in [Request -> BOOLEAN]
      /\ user' \in [Request -> {"none", "member", "admin"}]
      /\ secured' \in [Request -> BOOLEAN]
  BY DEF SecurityHeaders, TypeOK
<1>6. /\ body' \in [Request -> SUBSET {"refusal", "handler", "recovery"}]
      /\ reported' \in [Request -> SUBSET [layer : Recorder,
                                         status : Status]]
  BY DEF SecurityHeaders, TypeOK
<1> QED BY <1>1, <1>2, <1>3, <1>4, <1>5, <1>6 DEF TypeOK

LEMMA AuthPassesLocal ==
  ASSUME TypeOK, NEW r \in Request, Local(r), AuthPasses(r)
  PROVE  Local(r)'
<1>1. Told(r)' /\ Stacked(r)'
  BY StackFacts, KindAt DEF AuthPasses, Enter, TypeOK, Local, Recorded,
     Stacked, Told
<1>2. Recorded(r)' /\ Authored(r)'
  BY KindAt DEF AuthPasses, Enter, TypeOK, Local, Authored, Recorded
<1>3. Checked(r)'
  BY KindAt DEF AuthPasses, Enter, TypeOK, Local, Checked, Recorded
<1>4. AnswerIsSecured(r)' /\ AnswerIsOne(r)'
  BY KindAt DEF AuthPasses, Enter, TypeOK, Local, AnswerIsOne,
     AnswerIsSecured, Recorded
<1> QED BY <1>1, <1>2, <1>3, <1>4 DEF Local

LEMMA AuthPassesTypes ==
  ASSUME TypeOK, NEW r \in Request, Local(r), AuthPasses(r), gauge' \in Nat
  PROVE  TypeOK'
<1>1. stack' \in [Request -> Seq(Writer)]
  BY DEF AuthPasses, TypeOK
<1>2. wire' \in [Request -> {NoWire} \cup [status : Status,
                                           secured : BOOLEAN]]
  BY DEF AuthPasses, TypeOK
<1>3. /\ ask' \in [Request -> Ask]
      /\ mode' \in [Request -> {"idle", "down", "up", "panic", "done"}]
  BY DEF AuthPasses, TypeOK
<1>4. at' \in [Request -> Nat \ {0}]
  BY DEF AuthPasses, TypeOK, Enter
<1>5. /\ context' \in [Request -> BOOLEAN]
      /\ user' \in [Request -> {"none", "member", "admin"}]
      /\ secured' \in [Request -> BOOLEAN]
  <2>1. user' \in [Request -> {"none", "member", "admin"}]
    <3>1. CASE context[r]
      <4>1. PICK u \in {"member", "admin"} : user' = [user EXCEPT ![r] = u]
        BY <3>1 DEF AuthPasses
      <4> QED BY <4>1 DEF TypeOK
    <3>2. CASE ~context[r]
      BY <3>2 DEF AuthPasses, TypeOK
    <3> QED BY <3>1, <3>2
  <2> QED BY <2>1 DEF AuthPasses, TypeOK
<1>6. /\ body' \in [Request -> SUBSET {"refusal", "handler", "recovery"}]
      /\ reported' \in [Request -> SUBSET [layer : Recorder,
                                         status : Status]]
  BY DEF AuthPasses, TypeOK
<1> QED BY <1>1, <1>2, <1>3, <1>4, <1>5, <1>6 DEF TypeOK

LEMMA HandlerReturnsLocal ==
  ASSUME TypeOK, NEW r \in Request, Local(r), HandlerReturns(r)
  PROVE  Local(r)'
<1>1. Told(r)' /\ Stacked(r)'
  <2>1. /\ mode[r] # "done" /\ stack'[r] = stack[r] /\ wire'[r] = wire[r]
        /\ at'[r] = at[r]
    BY DEF HandlerReturns, Handling
  <2> QED BY <2>1 DEF Local, Told, Stacked
<1>2. Recorded(r)' /\ Authored(r)'
  BY DEF HandlerReturns, Handling, TypeOK, Local, Recorded, Authored
<1>3. Checked(r)'
  <2>1. ask[r].route \in Guarded => at[r] > 4
    BY LengthFacts DEF HandlerReturns, Handling
  <2> QED BY <2>1 DEF HandlerReturns, Handling, TypeOK, Local, Checked
<1>4. AnswerIsSecured(r)' /\ AnswerIsOne(r)'
  BY DEF HandlerReturns, Handling, TypeOK, Local, AnswerIsSecured,
          AnswerIsOne
<1> QED BY <1>1, <1>2, <1>3, <1>4 DEF Local

LEMMA HandlerReturnsTypes ==
  ASSUME TypeOK, NEW r \in Request, Local(r), HandlerReturns(r), gauge' \in
          Nat
  PROVE  TypeOK'
<1>1. stack' \in [Request -> Seq(Writer)]
  BY DEF HandlerReturns, TypeOK
<1>2. wire' \in [Request -> {NoWire} \cup [status : Status,
                                           secured : BOOLEAN]]
  BY DEF HandlerReturns, TypeOK
<1>3. /\ ask' \in [Request -> Ask]
      /\ mode' \in [Request -> {"idle", "down", "up", "panic", "done"}]
  BY DEF HandlerReturns, TypeOK
<1>4. at' \in [Request -> Nat \ {0}]
  BY DEF HandlerReturns, TypeOK
<1>5. /\ context' \in [Request -> BOOLEAN]
      /\ user' \in [Request -> {"none", "member", "admin"}]
      /\ secured' \in [Request -> BOOLEAN]
  BY DEF HandlerReturns, TypeOK
<1>6. /\ body' \in [Request -> SUBSET {"refusal", "handler", "recovery"}]
      /\ reported' \in [Request -> SUBSET [layer : Recorder,
                                         status : Status]]
  BY DEF HandlerReturns, TypeOK
<1> QED BY <1>1, <1>2, <1>3, <1>4, <1>5, <1>6 DEF TypeOK

LEMMA HandlerPanicsLocal ==
  ASSUME TypeOK, NEW r \in Request, Local(r), HandlerPanics(r)
  PROVE  Local(r)'
<1>1. Told(r)' /\ Stacked(r)'
  <2>1. /\ mode[r] # "done" /\ stack'[r] = stack[r] /\ wire'[r] = wire[r]
        /\ at'[r] = at[r]
    BY DEF HandlerPanics, Handling
  <2> QED BY <2>1 DEF Local, Told, Stacked
<1>2. Recorded(r)' /\ Authored(r)'
  BY DEF HandlerPanics, Handling, TypeOK, Local, Recorded, Authored
<1>3. Checked(r)'
  <2>1. ask[r].route \in Guarded => at[r] > 4
    BY LengthFacts DEF HandlerPanics, Handling
  <2> QED BY <2>1 DEF HandlerPanics, Handling, TypeOK, Local, Checked
<1>4. AnswerIsSecured(r)' /\ AnswerIsOne(r)'
  BY DEF HandlerPanics, Handling, TypeOK, Local, AnswerIsSecured, AnswerIsOne
<1> QED BY <1>1, <1>2, <1>3, <1>4 DEF Local

LEMMA HandlerPanicsTypes ==
  ASSUME TypeOK, NEW r \in Request, Local(r), HandlerPanics(r), gauge' \in
          Nat
  PROVE  TypeOK'
<1>1. stack' \in [Request -> Seq(Writer)]
  BY DEF HandlerPanics, TypeOK
<1>2. wire' \in [Request -> {NoWire} \cup [status : Status,
                                           secured : BOOLEAN]]
  BY DEF HandlerPanics, TypeOK
<1>3. /\ ask' \in [Request -> Ask]
      /\ mode' \in [Request -> {"idle", "down", "up", "panic", "done"}]
  BY DEF HandlerPanics, TypeOK
<1>4. at' \in [Request -> Nat \ {0}]
  BY DEF HandlerPanics, TypeOK
<1>5. /\ context' \in [Request -> BOOLEAN]
      /\ user' \in [Request -> {"none", "member", "admin"}]
      /\ secured' \in [Request -> BOOLEAN]
  BY DEF HandlerPanics, TypeOK
<1>6. /\ body' \in [Request -> SUBSET {"refusal", "handler", "recovery"}]
      /\ reported' \in [Request -> SUBSET [layer : Recorder,
                                         status : Status]]
  BY DEF HandlerPanics, TypeOK
<1> QED BY <1>1, <1>2, <1>3, <1>4, <1>5, <1>6 DEF TypeOK

LEMMA LeaveLocal ==
  ASSUME TypeOK, NEW r \in Request, Local(r), Leave(r)
  PROVE  Local(r)'
<1>1. Told(r)' /\ Stacked(r)'
  BY StackFacts, PopFacts DEF Leave, Pop, Top, Released, TypeOK, Local,
     Recorded, Stacked, Told
<1>2. Recorded(r)' /\ Authored(r)'
  BY StackFacts, PopFacts DEF Leave, Pop, Top, Released, TypeOK, Local,
     Told, Stacked, Recorded, Authored, Checked, AnswerIsSecured,
             AnswerIsOne,
     NoWire, Guarded
<1>3. Checked(r)'
  BY DEF Leave, Pop, Top, Released, TypeOK, Local, Checked, Recorded
<1>4. AnswerIsSecured(r)' /\ AnswerIsOne(r)'
  BY DEF Leave, Pop, Top, Released, TypeOK, Local, AnswerIsOne,
     AnswerIsSecured, Recorded
<1> QED BY <1>1, <1>2, <1>3, <1>4 DEF Local

LEMMA LeaveTypes ==
  ASSUME TypeOK, NEW r \in Request, Local(r), Leave(r), gauge' \in Nat
  PROVE  TypeOK'
<1>1. stack' \in [Request -> Seq(Writer)]
  BY StackFacts, PopFacts DEF Leave, TypeOK, Pop
<1>2. wire' \in [Request -> {NoWire} \cup [status : Status,
                                           secured : BOOLEAN]]
  BY DEF Leave, TypeOK
<1>3. /\ ask' \in [Request -> Ask]
      /\ mode' \in [Request -> {"idle", "down", "up", "panic", "done"}]
  BY DEF Leave, TypeOK
<1>4. at' \in [Request -> Nat \ {0}]
  BY DEF Leave, TypeOK
<1>5. /\ context' \in [Request -> BOOLEAN]
      /\ user' \in [Request -> {"none", "member", "admin"}]
      /\ secured' \in [Request -> BOOLEAN]
  BY DEF Leave, TypeOK
<1>6. /\ body' \in [Request -> SUBSET {"refusal", "handler", "recovery"}]
      /\ reported' \in [Request -> SUBSET [layer : Recorder,
                                         status : Status]]
  <2>1. Len(stack[r]) \in DOMAIN stack[r] /\ Len(stack[r]) > 1
    BY StackFacts DEF Leave
  <2>2. Top(r) \in Writer /\ Top(r).layer \in Recorder
    BY <2>1, StackFacts DEF Top, Local, Stacked
  <2>3. [layer |-> Top(r).layer, status |-> Top(r).status]
          \in [layer : Recorder, status : Status]
    BY <2>2 DEF Writer
  <2> QED BY <2>3 DEF Leave, TypeOK
<1> QED BY <1>1, <1>2, <1>3, <1>4, <1>5, <1>6 DEF TypeOK

LEMMA UnwindLocal ==
  ASSUME TypeOK, NEW r \in Request, Local(r), Unwind(r)
  PROVE  Local(r)'
<1>1. Told(r)' /\ Stacked(r)'
  BY StackFacts, PopFacts DEF Unwind, Pop, Top, TypeOK, Local, Recorded,
     Stacked, Told
<1>2. Recorded(r)' /\ Authored(r)'
  BY DEF Unwind, Pop, Top, TypeOK, Local, Authored, Recorded
<1>3. Checked(r)'
  BY DEF Unwind, Pop, Top, TypeOK, Local, Checked, Recorded
<1>4. AnswerIsSecured(r)' /\ AnswerIsOne(r)'
  BY DEF Unwind, Pop, Top, TypeOK, Local, AnswerIsOne, AnswerIsSecured,
     Recorded
<1> QED BY <1>1, <1>2, <1>3, <1>4 DEF Local

LEMMA UnwindTypes ==
  ASSUME TypeOK, NEW r \in Request, Local(r), Unwind(r), gauge' \in Nat
  PROVE  TypeOK'
<1>1. stack' \in [Request -> Seq(Writer)]
  BY StackFacts, PopFacts DEF Unwind, TypeOK, Pop
<1>2. wire' \in [Request -> {NoWire} \cup [status : Status,
                                           secured : BOOLEAN]]
  BY DEF Unwind, TypeOK
<1>3. /\ ask' \in [Request -> Ask]
      /\ mode' \in [Request -> {"idle", "down", "up", "panic", "done"}]
  BY DEF Unwind, TypeOK
<1>4. at' \in [Request -> Nat \ {0}]
  BY DEF Unwind, TypeOK
<1>5. /\ context' \in [Request -> BOOLEAN]
      /\ user' \in [Request -> {"none", "member", "admin"}]
      /\ secured' \in [Request -> BOOLEAN]
  BY DEF Unwind, TypeOK
<1>6. /\ body' \in [Request -> SUBSET {"refusal", "handler", "recovery"}]
      /\ reported' \in [Request -> SUBSET [layer : Recorder,
                                         status : Status]]
  BY DEF Unwind, TypeOK
<1> QED BY <1>1, <1>2, <1>3, <1>4, <1>5, <1>6 DEF TypeOK

LEMMA RecoverLocal ==
  ASSUME TypeOK, NEW r \in Request, Local(r), Recover(r)
  PROVE  Local(r)'
<1>1. Told(r)' /\ Stacked(r)'
  <2>1. mode'[r] = "done" /\ stack'[r] = stack[r] /\ at'[r] = at[r]
    BY DEF Recover, TypeOK
  <2> QED BY <2>1 DEF Local, Told, Stacked
<1>2. Recorded(r)' /\ Authored(r)'
  <2>1. reported'[r] = {} /\ mode'[r] = "done"
    BY DEF Recover, Local, Recorded, TypeOK
  <2>2. wire'[r] = NoWire => body'[r] = {}
    BY DEF Recover, Local, Authored, TypeOK, OnWire, NoWire
  <2> QED BY <2>1, <2>2 DEF Recorded, Authored
<1>3. Checked(r)'
  BY DEF Recover, OnWire, TypeOK, Local, Checked, Recorded
<1>4. AnswerIsSecured(r)' /\ AnswerIsOne(r)'
  <2>1. 1 \in DOMAIN stack[r] /\ (stack[r][1].sent <=> wire[r] # NoWire)
    BY StackFacts DEF Recover, Local, Told, Stacked
  <2>2. CASE wire[r] = NoWire
    <3>0. body[r] = {} /\ ~stack[r][1].sent
      BY <2>1, <2>2 DEF Local, Authored
    <3>1. /\ wire'[r] = [status |-> 500, secured |-> TRUE]
          /\ body'[r] = {"recovery"} /\ ask'[r] = ask[r]
      <4>1. wire'[r] = OnWire(r, 500, TRUE)
        BY <3>0 DEF Recover, TypeOK
      <4>2. body'[r] = body[r] \cup {"recovery"}
        BY <3>0 DEF Recover, TypeOK
      <4>3. ask' = ask
        BY DEF Recover
      <4> QED BY <2>2, <3>0, <4>1, <4>2, <4>3 DEF OnWire
    <3> QED BY <3>1 DEF AnswerIsSecured, AnswerIsOne, NoWire
  <2>3. CASE wire[r] # NoWire
    BY <2>1, <2>3 DEF Recover, Local, Authored, AnswerIsSecured, AnswerIsOne
  <2> QED BY <2>2, <2>3
<1> QED BY <1>1, <1>2, <1>3, <1>4 DEF Local

LEMMA RecoverTypes ==
  ASSUME TypeOK, NEW r \in Request, Local(r), Recover(r), gauge' \in Nat
  PROVE  TypeOK'
<1>1. stack' \in [Request -> Seq(Writer)]
  BY DEF Recover, TypeOK
<1>2. wire' \in [Request -> {NoWire} \cup [status : Status, secured :
        BOOLEAN]]
  <2>1. OnWire(r, 500, TRUE) \in {NoWire} \cup [status : Status,
                                             secured : BOOLEAN]
    BY DEF OnWire, Status, TypeOK
  <2>2. CASE stack[r][1].sent
    BY <2>2 DEF Recover, TypeOK
  <2>3. CASE ~stack[r][1].sent
    <3>1. wire' = [wire EXCEPT ![r] = OnWire(r, 500, TRUE)]
      BY <2>3 DEF Recover
    <3> QED BY <2>1, <3>1 DEF TypeOK
  <2> QED BY <2>2, <2>3
<1>3. /\ ask' \in [Request -> Ask]
      /\ mode' \in [Request -> {"idle", "down", "up", "panic", "done"}]
  BY DEF Recover, TypeOK
<1>4. at' \in [Request -> Nat \ {0}]
  BY DEF Recover, TypeOK
<1>5. /\ context' \in [Request -> BOOLEAN]
      /\ user' \in [Request -> {"none", "member", "admin"}]
      /\ secured' \in [Request -> BOOLEAN]
  BY DEF Recover, TypeOK
<1>6. /\ body' \in [Request -> SUBSET {"refusal", "handler", "recovery"}]
      /\ reported' \in [Request -> SUBSET [layer : Recorder,
                                         status : Status]]
  <2>1. CASE stack[r][1].sent
    BY <2>1 DEF Recover, TypeOK
  <2>2. CASE ~stack[r][1].sent
    <3>1. body' = [body EXCEPT ![r] = @ \cup {"recovery"}]
      BY <2>2 DEF Recover
    <3> QED BY <3>1 DEF Recover, TypeOK
  <2> QED BY <2>1, <2>2
<1> QED BY <1>1, <1>2, <1>3, <1>4, <1>5, <1>6 DEF TypeOK

LEMMA FinishLocal ==
  ASSUME TypeOK, NEW r \in Request, Local(r), Finish(r)
  PROVE  Local(r)'
<1>1. Told(r)' /\ Stacked(r)'
  <2>1. mode'[r] = "done" /\ stack'[r] = stack[r] /\ at'[r] = at[r]
    BY DEF Finish, TypeOK
  <2> QED BY <2>1 DEF Local, Told, Stacked
<1>2. Recorded(r)' /\ Authored(r)'
  <2>1. /\ mode'[r] = "done" /\ reported'[r] = reported[r]
        /\ wire'[r] = OnWire(r, 200, secured[r]) /\ body'[r] = body[r]
    BY DEF Finish, TypeOK
  <2>2. wire'[r] # NoWire
    BY <2>1 DEF OnWire, NoWire
  <2>3. \A e \in reported[r] : e.status = wire'[r].status
    BY <2>1 DEF Local, Recorded, OnWire
  <2> QED BY <2>1, <2>2, <2>3 DEF Recorded, Authored
<1>3. Checked(r)'
  BY DEF Finish, OnWire, TypeOK, Local, Checked, Recorded
<1>4. AnswerIsSecured(r)' /\ AnswerIsOne(r)'
  <2>1. /\ ask'[r] = ask[r] /\ body'[r] = body[r] /\ mode[r] = "up"
        /\ wire'[r] = OnWire(r, 200, secured[r])
    BY DEF Finish, TypeOK
  <2>2. wire'[r] # NoWire
    BY <2>1 DEF OnWire, NoWire
  <2>3. ask[r].route \in Guarded => secured[r]
    BY <2>1 DEF Local, Checked
  <2>4. "recovery" \notin body[r]
    BY <2>1 DEF Local, Authored
  <2>5. ask[r].route \in Guarded => wire'[r].secured
    BY <2>1, <2>3 DEF OnWire, Local, AnswerIsSecured
  <2> QED BY <2>1, <2>2, <2>4, <2>5 DEF AnswerIsSecured, AnswerIsOne
<1> QED BY <1>1, <1>2, <1>3, <1>4 DEF Local

LEMMA FinishTypes ==
  ASSUME TypeOK, NEW r \in Request, Local(r), Finish(r), gauge' \in Nat
  PROVE  TypeOK'
<1>1. stack' \in [Request -> Seq(Writer)]
  BY DEF Finish, TypeOK
<1>2. wire' \in [Request -> {NoWire} \cup [status : Status,
                                           secured : BOOLEAN]]
  BY DEF Finish, TypeOK, OnWire, Status
<1>3. /\ ask' \in [Request -> Ask]
      /\ mode' \in [Request -> {"idle", "down", "up", "panic", "done"}]
  BY DEF Finish, TypeOK
<1>4. at' \in [Request -> Nat \ {0}]
  BY DEF Finish, TypeOK
<1>5. /\ context' \in [Request -> BOOLEAN]
      /\ user' \in [Request -> {"none", "member", "admin"}]
      /\ secured' \in [Request -> BOOLEAN]
  BY DEF Finish, TypeOK
<1>6. /\ body' \in [Request -> SUBSET {"refusal", "handler", "recovery"}]
      /\ reported' \in [Request -> SUBSET [layer : Recorder,
                                         status : Status]]
  BY DEF Finish, TypeOK
<1> QED BY <1>1, <1>2, <1>3, <1>4, <1>5, <1>6 DEF TypeOK

LEMMA PassLocal ==
  ASSUME TypeOK, NEW r \in Request, Local(r), NEW kind, Before(r, kind),
         kind \notin {"context", "observability", "logging", "security",
                      "auth", "audit"},
         Pass(r),
         kind = "size" => (ask[r].post => ~ask[r].big),
         kind = "csrf" => (ask[r].post => ~ask[r].cross),
         kind = "requireAdmin" => user[r] = "admin"
  PROVE  Local(r)' /\ TypeOK'
<1>1. /\ at'[r] = at[r] + 1 /\ ask' = ask /\ mode' = mode /\ user' = user
      /\ context' = context /\ secured' = secured /\ stack' = stack
      /\ wire' = wire /\ body' = body /\ reported' = reported
  BY DEF Pass, Enter, TypeOK
<1>2. /\ mode[r] = "down" /\ at[r] \in Nat \ {0} /\ wire[r] = NoWire
  BY KindAt DEF Local, Recorded
<1>3. Told(r)' /\ Stacked(r)'
  BY <1>1, <1>2 DEF Local, Told, Stacked
<1>4. Recorded(r)' /\ Authored(r)' /\ AnswerIsSecured(r)' /\ AnswerIsOne(r)'
  BY <1>1, <1>2 DEF Local, Recorded, Authored, AnswerIsSecured, AnswerIsOne
<1>5. Checked(r)'
  <2>1. ask[r].route \in Guarded =>
          /\ at[r] \in {5, 6, 8, 9, 10, 12}
          /\ at[r] = 5 => (ask[r].post => ~ask[r].big)
          /\ at[r] = 9 => (ask[r].post => ~ask[r].cross)
          /\ at[r] = 10 => (ask[r].route = "admin" => user[r] = "admin")
    <3>1. ask[r].route \in Guarded => kind \in {"size", "rate", "enrichment",
                                         "csrf", "requireAdmin", "boardData"}
      <4>1. ASSUME ask[r].route \in Guarded
            PROVE  kind \in {"context", "observability", "logging",
                             "security", "size", "rate", "auth",
                                     "enrichment",
                             "csrf", "requireAdmin", "audit", "boardData"}
        <5>1. /\ Chain[ask[r].route][at[r]] = kind
              /\ at[r] \in Nat \ {0} /\ at[r] <= Len(Chain[ask[r].route])
          BY LengthFacts DEF Before, Kind
        <5>2. CASE ask[r].route = "board"
          <6>1. at[r] \in 1 .. 10
            BY <5>1, <5>2, Chains
          <6> QED BY <5>1, <5>2, <6>1, Chains
        <5>3. CASE ask[r].route = "admin"
          <6>1. at[r] \in 1 .. 12
            BY <5>1, <5>3, Chains
          <6> QED BY <5>1, <5>3, <6>1, Chains
        <5> QED BY <4>1, <5>2, <5>3 DEF Guarded
      <4> QED BY <4>1
    <3> QED BY <3>1, KindAt
  <2>2. ASSUME ask[r].route \in Guarded
        PROVE  /\ at[r] + 1 > 1 => context[r]
               /\ at[r] + 1 > 4 => secured[r]
               /\ at[r] + 1 > 5 /\ ask[r].post => ~ask[r].big
               /\ at[r] + 1 > 7 => user[r] # "none"
               /\ at[r] + 1 > 9 /\ ask[r].post => ~ask[r].cross
               /\ at[r] + 1 > 10 /\ ask[r].route = "admin" =>
                    user[r] = "admin"
    BY <1>2, <2>1, <2>2 DEF Local, Checked
  <2> QED BY <1>1, <1>2, <2>2 DEF Checked
<1>6. TypeOK'
  BY <1>1 DEF Pass, Enter, TypeOK
<1> QED BY <1>3, <1>4, <1>5, <1>6 DEF Local

LEMMA RefuseLocal ==
  ASSUME TypeOK, NEW r \in Request, Local(r), NEW kind, Before(r, kind),
         kind \notin {"context", "observability", "logging", "security"},
         NEW code \in Status, Refuse(r, code)
  PROVE  Local(r)' /\ TypeOK'
<1>1. mode[r] = "down" /\ Answer(r, code, "refusal")
  BY KindAt DEF Refuse
<1>2. /\ mode'[r] = "up" /\ ask' = ask /\ at' = at /\ context' = context
      /\ user' = user /\ secured' = secured /\ reported' = reported
      /\ gauge' = gauge
  BY DEF Refuse, TypeOK
<1>3. ask[r].route \in Guarded => secured[r]
  <2>1. ask[r].route \in Guarded => at[r] > 4
    <3>1. ask[r].route \in Guarded => at[r] \notin 1 .. 4
      <4>1. Chain[ask[r].route][at[r]] = kind
        BY DEF Before, Kind
      <4> QED BY <4>1, Chains DEF Guarded
    <3> QED BY <3>1, KindAt
  <2> QED BY <2>1 DEF Local, Checked
<1>4. Local(r)'
  BY <1>1, <1>2, <1>3, AnswerLocal
<1>5. TypeOK'
  BY <1>1, <1>2, AnswerTypes DEF Refuse, TypeOK
<1> QED BY <1>4, <1>5

LEMMA HandlerWritesLocal ==
  ASSUME TypeOK, NEW r \in Request, Local(r), HandlerWrites(r)
  PROVE  Local(r)' /\ TypeOK'
<1>1. PICK code \in {200, 303, 400, 404, 500} : Answer(r, code, "handler")
  BY DEF HandlerWrites
<1>2. code \in Status
  BY DEF Status
<1>3. /\ mode[r] = "down" /\ at[r] > Len(Chain[ask[r].route])
      /\ ask' = ask /\ mode' = mode /\ at' = at /\ context' = context
      /\ user' = user /\ secured' = secured /\ reported' = reported
      /\ gauge' = gauge
  BY DEF HandlerWrites, Handling
<1>4. ask[r].route \in Guarded => secured[r]
  <2>1. ask[r].route \in Guarded => at[r] > 4
    BY <1>3, LengthFacts
  <2> QED BY <2>1 DEF Local, Checked
<1>5. Local(r)'
  BY <1>1, <1>2, <1>3, <1>4, AnswerLocal
<1>6. TypeOK'
  <2>1. /\ stack' \in [Request -> Seq(Writer)]
        /\ wire' \in [Request -> {NoWire} \cup [status : Status,
                                               secured : BOOLEAN]]
        /\ body' \in [Request -> SUBSET {"refusal", "handler", "recovery"}]
    BY <1>1, <1>2, AnswerTypes
  <2> QED BY <1>3, <2>1 DEF TypeOK
<1> QED BY <1>5, <1>6

LEMMA AdminAuditLocal ==
  ASSUME TypeOK, NEW r \in Request, Local(r), AdminAudit(r)
  PROVE  Local(r)' /\ TypeOK'
<1>1. /\ ask[r].route = "admin" /\ at[r] = 11 /\ mode[r] = "down"
      /\ wire[r] = NoWire /\ user[r] = "admin"
  <2>1. Before(r, "audit")
    BY DEF AdminAudit
  <2>2. mode[r] = "down" /\ at[r] <= Len(Chain[ask[r].route])
    BY <2>1, KindAt
  <2>3. ask[r].route \in Guarded
    BY <2>1, KindAt
  <2>4. ask[r].route = "admin" /\ at[r] = 11
    BY <2>1, <2>3, KindAt
  <2> QED BY <2>2, <2>3, <2>4 DEF Local, Recorded, Checked
<1>2. /\ at'[r] = at[r] + 1 /\ ask' = ask /\ mode' = mode /\ user' = user
      /\ context' = context /\ secured' = secured /\ wire' = wire
      /\ body' = body /\ reported' = reported /\ gauge' = gauge
      /\ Push(r, "audit") /\ Enter(r)
  BY <1>1 DEF AdminAudit, Enter, TypeOK
<1>3. stack'[r] = Append(stack[r], Fresh("audit"))
  BY <1>2 DEF Push, TypeOK
<1>4. /\ DOMAIN stack'[r] = 1 .. Len(stack[r]) + 1
      /\ Len(stack'[r]) = Len(stack[r]) + 1
      /\ \A i \in 1 .. Len(stack[r]) : stack'[r][i] = stack[r][i]
      /\ stack'[r][Len(stack[r]) + 1] = Fresh("audit")
  BY <1>3, StackFacts, PushFacts DEF Recorder
<1>5. Told(r)'
  BY <1>1, <1>2, <1>4, StackFacts DEF Local, Told, Fresh
<1>6. Stacked(r)'
  <2> DEFINE n == Len(stack[r])
  <2>1. n \in Nat /\ n >= 1 /\ DOMAIN stack[r] = 1 .. n /\ at'[r] > 2
    BY <1>1, <1>2, StackFacts DEF Local, Stacked
  <2>2. /\ DOMAIN stack'[r] = 1 .. n + 1 /\ Len(stack'[r]) >= 1
        /\ \A i \in 1 .. n : stack'[r][i] = stack[r][i]
        /\ stack'[r][n + 1].layer = "audit"
    BY <1>4, <2>1 DEF Fresh
  <2> HIDE DEF n
  <2>3. \A i \in DOMAIN stack'[r] :
          stack'[r][i].layer = "observability" => i \in 1 .. n
    BY <2>1, <2>2
  <2>4. \A i \in 1 .. n :
          /\ i > 1 => stack[r][i].layer \in Recorder
          /\ stack[r][i].layer = "observability" => i > 1
    BY <2>1 DEF Local, Stacked
  <2>5. \A i, j \in 1 .. n :
          stack[r][i].layer = "observability"
            /\ stack[r][j].layer = "observability" => i = j
    BY <2>1 DEF Local, Stacked
  <2>6. \A i, j \in DOMAIN stack'[r] :
          stack'[r][i].layer = "observability"
            /\ stack'[r][j].layer = "observability" => i = j
    BY <2>2, <2>3, <2>5
  <2>7. \A i \in DOMAIN stack'[r] :
          stack'[r][i].layer = "observability" => i > 1
    BY <2>2, <2>3, <2>4
  <2>8. \A i \in DOMAIN stack'[r] :
          i > 1 => stack'[r][i].layer \in Recorder
    <3>1. ASSUME NEW i \in 1 .. n + 1, i > 1
          PROVE  stack'[r][i].layer \in Recorder
      <4>1. CASE i = n + 1
        BY <2>2, <4>1 DEF Recorder
      <4>2. CASE i # n + 1
        BY <2>1, <2>2, <2>4, <3>1, <4>2
      <4> QED BY <4>1, <4>2
    <3> QED BY <2>2, <3>1
  <2> QED BY <2>1, <2>2, <2>6, <2>7, <2>8 DEF Stacked
<1>7. Recorded(r)' /\ Authored(r)' /\ AnswerIsSecured(r)' /\ AnswerIsOne(r)'
  BY <1>1, <1>2 DEF Local, Recorded, Authored, AnswerIsSecured, AnswerIsOne
<1>8. Checked(r)'
  BY <1>1, <1>2 DEF Local, Checked
<1>9. TypeOK'
  <2>1. stack' \in [Request -> Seq(Writer)]
    BY <1>2, StackFacts, PushFacts DEF TypeOK, Push, Recorder
  <2>2. at' \in [Request -> Nat \ {0}]
    BY <1>2 DEF TypeOK, Enter
  <2> QED BY <1>2, <2>1, <2>2 DEF TypeOK
<1> QED BY <1>5, <1>6, <1>7, <1>8, <1>9 DEF Local

(* The gauge counts the requests that are observed, so it is a number.     *)
LEMMA GaugeType ==
  ASSUME GaugeIsBalanced
  PROVE  gauge \in Nat
<1>1. IsFiniteSet({q \in Request : Observed(q)})
  BY FS_Subset
<1> QED BY <1>1, FS_CardinalityType DEF GaugeIsBalanced

LEMMA GaugeSame ==
  ASSUME GaugeIsBalanced, gauge' = gauge,
         \A q \in Request : Observed(q)' = Observed(q)
  PROVE  GaugeIsBalanced' /\ gauge' \in Nat
<1>1. {q \in Request : Observed(q)'} = {q \in Request : Observed(q)}
  OBVIOUS
<1> QED BY <1>1, GaugeType DEF GaugeIsBalanced

LEMMA GaugeUp ==
  ASSUME GaugeIsBalanced, gauge' = gauge + 1, NEW r \in Request,
         ~Observed(r), Observed(r)',
         \A q \in Request \ {r} : Observed(q)' = Observed(q)
  PROVE  GaugeIsBalanced' /\ gauge' \in Nat
<1> DEFINE S == {q \in Request : Observed(q)}
           T == {q \in Request : Observed(q)'}
<1>1. T = S \cup {r} /\ r \notin S /\ S \subseteq Request
  OBVIOUS
<1>2. IsFiniteSet(S)
  BY <1>1, FS_Subset
<1> HIDE DEF S, T
<1>3. /\ Cardinality(T) = Cardinality(S) + 1
      /\ Cardinality(T) \in Nat
  BY <1>1, <1>2, FS_AddElement, FS_CardinalityType
<1> QED BY <1>3 DEF GaugeIsBalanced, S, T

LEMMA GaugeDown ==
  ASSUME GaugeIsBalanced, gauge' = gauge - 1, NEW r \in Request,
         Observed(r), ~Observed(r)',
         \A q \in Request \ {r} : Observed(q)' = Observed(q)
  PROVE  GaugeIsBalanced' /\ gauge' \in Nat
<1> DEFINE S == {q \in Request : Observed(q)}
           T == {q \in Request : Observed(q)'}
<1>1. T = S \ {r} /\ r \in S /\ S \subseteq Request
  OBVIOUS
<1>2. IsFiniteSet(S)
  BY <1>1, FS_Subset
<1> HIDE DEF S, T
<1>3. /\ Cardinality(T) = Cardinality(S) - 1
      /\ Cardinality(T) \in Nat
  BY <1>1, <1>2, FS_RemoveElement, FS_CardinalityType
<1> QED BY <1>3 DEF GaugeIsBalanced, S, T

LEMMA PopObserved ==
  ASSUME TypeOK, NEW r \in Request, Local(r), Len(stack[r]) > 1, Pop(r)
  PROVE  /\ Top(r).layer = "observability" => Observed(r) /\ ~Observed(r)'
         /\ Top(r).layer # "observability" => Observed(r)' = Observed(r)
         /\ \A q \in Request \ {r} : Observed(q)' = Observed(q)
<1> DEFINE n == Len(stack[r])
           s == SubSeq(stack[r], 1, n - 1)
<1>1. n \in Nat /\ n > 1 /\ DOMAIN stack[r] = 1 .. n
  BY StackFacts
<1>2. /\ stack'[r] = s /\ DOMAIN s = 1 .. n - 1
      /\ \A i \in 1 .. n - 1 : s[i] = stack[r][i]
  BY StackFacts, PopFacts DEF Pop, TypeOK
<1>3. Top(r) = stack[r][n]
  BY DEF Top
<1>4. \A i, j \in DOMAIN stack[r] :
        stack[r][i].layer = "observability"
          /\ stack[r][j].layer = "observability" => i = j
  BY DEF Local, Stacked
<1>5. \A q \in Request \ {r} : Observed(q)' = Observed(q)
  BY DEF Pop, TypeOK, Observed
<1> HIDE DEF n, s
<1>6. ASSUME Top(r).layer = "observability"
      PROVE  Observed(r) /\ ~Observed(r)'
  <2>1. n \in DOMAIN stack[r] /\ stack[r][n].layer = "observability"
    BY <1>1, <1>3, <1>6
  <2>2. \A i \in 1 .. n - 1 : s[i].layer # "observability"
    BY <1>1, <1>2, <1>4, <2>1
  <2> QED BY <1>2, <2>1, <2>2 DEF Observed
<1>7. ASSUME Top(r).layer # "observability"
      PROVE  Observed(r)' = Observed(r)
  <2>1. Observed(r) <=> \E i \in 1 .. n : stack[r][i].layer = "observability"
    BY <1>1 DEF Observed
  <2>2. Observed(r)' <=>
          \E i \in 1 .. n - 1 : stack[r][i].layer = "observability"
    BY <1>2 DEF Observed
  <2>3. stack[r][n].layer # "observability"
    BY <1>3, <1>7
  <2>4. Observed(r) <=> Observed(r)'
    BY <1>1, <2>1, <2>2, <2>3
  <2>5. Observed(r) \in BOOLEAN /\ Observed(r)' \in BOOLEAN
    BY DEF Observed
  <2> QED BY <2>4, <2>5
<1> QED BY <1>5, <1>6, <1>7

LEMMA PushObserved ==
  ASSUME TypeOK, NEW r \in Request, NEW layer \in Recorder, Push(r, layer)
  PROVE  /\ layer = "observability" => Observed(r)'
         /\ layer # "observability" => Observed(r)' = Observed(r)
         /\ \A q \in Request \ {r} : Observed(q)' = Observed(q)
<1> DEFINE n == Len(stack[r])
<1>1. n \in Nat /\ DOMAIN stack[r] = 1 .. n
  BY StackFacts
<1>2. /\ DOMAIN stack'[r] = 1 .. n + 1
      /\ \A i \in 1 .. n : stack'[r][i] = stack[r][i]
      /\ stack'[r][n + 1] = Fresh(layer)
  BY StackFacts, PushFacts DEF Push, TypeOK
<1>3. \A q \in Request \ {r} : Observed(q)' = Observed(q)
  BY DEF Push, TypeOK, Observed
<1> HIDE DEF n
<1>4. stack'[r][n + 1].layer = layer /\ n + 1 \in 1 .. n + 1
  BY <1>1, <1>2 DEF Fresh
<1>5. layer = "observability" => Observed(r)'
  BY <1>2, <1>4 DEF Observed
<1>6. ASSUME layer # "observability"
      PROVE  Observed(r)' = Observed(r)
  <2>1. Observed(r) <=> \E i \in 1 .. n : stack[r][i].layer = "observability"
    BY <1>1 DEF Observed
  <2>2. Observed(r)' <=>
          \E i \in 1 .. n + 1 : stack'[r][i].layer = "observability"
    BY <1>2 DEF Observed
  <2>3. /\ 1 .. n + 1 = (1 .. n) \cup {n + 1}
        /\ stack'[r][n + 1].layer # "observability"
    BY <1>1, <1>4, <1>6
  <2>4. (\E i \in 1 .. n + 1 : stack'[r][i].layer = "observability") <=>
          \E i \in 1 .. n : stack[r][i].layer = "observability"
    BY <1>2, <2>3
  <2>5. Observed(r) <=> Observed(r)'
    BY <2>1, <2>2, <2>4
  <2>6. Observed(r) \in BOOLEAN /\ Observed(r)' \in BOOLEAN
    BY DEF Observed
  <2> QED BY <2>5, <2>6
<1> QED BY <1>3, <1>5, <1>6

LEMMA AnswerObserved ==
  ASSUME TypeOK, NEW r \in Request, NEW code \in Status, NEW author,
         Answer(r, code, author)
  PROVE  \A q \in Request : Observed(q)' = Observed(q)
<1>1. ASSUME NEW q \in Request
      PROVE  /\ DOMAIN stack'[q] = DOMAIN stack[q]
             /\ \A i \in DOMAIN stack[q] :
                  stack'[q][i].layer = stack[q][i].layer
  <2>1. CASE q = r
    <3>1. stack'[r] = WriteHeader(stack[r], code)
      BY DEF Answer, TypeOK
    <3> QED BY <2>1, <3>1, StackFacts, WriteFacts
  <2>2. CASE q # r
    BY <2>2 DEF Answer, TypeOK
  <2> QED BY <2>1, <2>2
<1>2. ASSUME NEW q \in Request
      PROVE  Observed(q) <=> Observed(q)'
  BY <1>1 DEF Observed
<1>3. ASSUME NEW q \in Request
      PROVE  Observed(q) \in BOOLEAN /\ Observed(q)' \in BOOLEAN
  BY DEF Observed
<1> QED BY <1>2, <1>3

(* A step of one request leaves the others alone.                          *)
LEMMA Elsewhere ==
  ASSUME TypeOK, NEW r \in Request, Step(r), NEW q \in Request \ {r}
  PROVE  /\ ask'[q] = ask[q] /\ mode'[q] = mode[q] /\ at'[q] = at[q]
         /\ context'[q] = context[q] /\ user'[q] = user[q]
         /\ secured'[q] = secured[q] /\ stack'[q] = stack[q]
         /\ wire'[q] = wire[q] /\ body'[q] = body[q]
         /\ reported'[q] = reported[q]
<1>1. CASE Arrive(r)
  BY <1>1 DEF Arrive, TypeOK
<1>2. CASE RequestContext(r)
  BY <1>2 DEF RequestContext, Enter, TypeOK
<1>3. CASE Observability(r)
  BY <1>3 DEF Observability, Enter, Push, TypeOK
<1>4. CASE Logging(r)
  BY <1>4 DEF Logging, Enter, Push, TypeOK
<1>5. CASE SecurityHeaders(r)
  BY <1>5 DEF SecurityHeaders, Enter, TypeOK
<1>6. CASE RequestSizeLimit(r)
  BY <1>6 DEF RequestSizeLimit, Refuse, Answer, Pass, Enter, TypeOK
<1>7. CASE RateLimiter(r)
  BY <1>7 DEF RateLimiter, Refuse, Answer, Pass, Enter, TypeOK
<1>8. CASE AuthRefuses(r)
  BY <1>8 DEF AuthRefuses, Refuse, Answer, TypeOK
<1>9. CASE AuthPasses(r)
  BY <1>9 DEF AuthPasses, Enter, TypeOK
<1>10. CASE CsrfProtection(r)
  BY <1>10 DEF CsrfProtection, Refuse, Answer, Pass, Enter, TypeOK
<1>11. CASE RequireAdmin(r)
  BY <1>11 DEF RequireAdmin, Refuse, Answer, Pass, Enter, TypeOK
<1>12. CASE AdminAudit(r)
  BY <1>12 DEF AdminAudit, Push, Enter, TypeOK
<1>13. CASE PassThrough(r)
  BY <1>13 DEF PassThrough, Pass, Enter, TypeOK
<1>14. CASE HandlerWrites(r)
  BY <1>14 DEF HandlerWrites, Answer, TypeOK
<1>15. CASE HandlerReturns(r)
  BY <1>15 DEF HandlerReturns, TypeOK
<1>16. CASE HandlerPanics(r)
  BY <1>16 DEF HandlerPanics, TypeOK
<1>17. CASE Leave(r)
  BY <1>17 DEF Leave, Pop, TypeOK
<1>18. CASE Unwind(r)
  BY <1>18 DEF Unwind, Pop, TypeOK
<1>19. CASE Recover(r)
  <2>1. CASE stack[r][1].sent
    BY <1>19, <2>1 DEF Recover, TypeOK
  <2>2. CASE ~stack[r][1].sent
    BY <1>19, <2>2 DEF Recover, TypeOK
  <2> QED BY <2>1, <2>2
<1>20. CASE Finish(r)
  BY <1>20 DEF Finish, TypeOK
<1> QED BY <1>1, <1>2, <1>3, <1>4, <1>5, <1>6, <1>7, <1>8, <1>9, <1>10,
        <1>11, <1>12, <1>13, <1>14, <1>15, <1>16, <1>17, <1>18, <1>19, <1>20
        DEF Step

(* What a step does to its own request, to the types and to the gauge.     *)
LEMMA OwnStep ==
  ASSUME IInv, NEW r \in Request, Step(r)
  PROVE  Local(r)' /\ TypeOK' /\ GaugeIsBalanced'
<1>1. TypeOK /\ Local(r) /\ GaugeIsBalanced
  BY DEF IInv
<1>2. CASE Arrive(r)
  <2>1. stack' = stack /\ gauge' = gauge
    BY <1>2 DEF Arrive
  <2>2. \A q \in Request : Observed(q)' = Observed(q)
    BY <2>1 DEF Observed
  <2>3. GaugeIsBalanced' /\ gauge' \in Nat
    BY <1>1, <2>1, <2>2, GaugeSame
  <2> QED BY <1>1, <1>2, <2>3, ArriveLocal, ArriveTypes
<1>3. CASE RequestContext(r)
  <2>1. stack' = stack /\ gauge' = gauge
    BY <1>3 DEF RequestContext
  <2>2. \A q \in Request : Observed(q)' = Observed(q)
    BY <2>1 DEF Observed
  <2>3. GaugeIsBalanced' /\ gauge' \in Nat
    BY <1>1, <2>1, <2>2, GaugeSame
  <2> QED BY <1>1, <1>3, <2>3, RequestContextLocal, RequestContextTypes
<1>4. CASE SecurityHeaders(r)
  <2>1. stack' = stack /\ gauge' = gauge
    BY <1>4 DEF SecurityHeaders
  <2>2. \A q \in Request : Observed(q)' = Observed(q)
    BY <2>1 DEF Observed
  <2>3. GaugeIsBalanced' /\ gauge' \in Nat
    BY <1>1, <2>1, <2>2, GaugeSame
  <2> QED BY <1>1, <1>4, <2>3, SecurityHeadersLocal, SecurityHeadersTypes
<1>5. CASE AuthPasses(r)
  <2>1. stack' = stack /\ gauge' = gauge
    BY <1>5 DEF AuthPasses
  <2>2. \A q \in Request : Observed(q)' = Observed(q)
    BY <2>1 DEF Observed
  <2>3. GaugeIsBalanced' /\ gauge' \in Nat
    BY <1>1, <2>1, <2>2, GaugeSame
  <2> QED BY <1>1, <1>5, <2>3, AuthPassesLocal, AuthPassesTypes
<1>6. CASE HandlerReturns(r)
  <2>1. stack' = stack /\ gauge' = gauge
    BY <1>6 DEF HandlerReturns
  <2>2. \A q \in Request : Observed(q)' = Observed(q)
    BY <2>1 DEF Observed
  <2>3. GaugeIsBalanced' /\ gauge' \in Nat
    BY <1>1, <2>1, <2>2, GaugeSame
  <2> QED BY <1>1, <1>6, <2>3, HandlerReturnsLocal, HandlerReturnsTypes
<1>7. CASE HandlerPanics(r)
  <2>1. stack' = stack /\ gauge' = gauge
    BY <1>7 DEF HandlerPanics
  <2>2. \A q \in Request : Observed(q)' = Observed(q)
    BY <2>1 DEF Observed
  <2>3. GaugeIsBalanced' /\ gauge' \in Nat
    BY <1>1, <2>1, <2>2, GaugeSame
  <2> QED BY <1>1, <1>7, <2>3, HandlerPanicsLocal, HandlerPanicsTypes
<1>8. CASE Recover(r)
  <2>1. stack' = stack /\ gauge' = gauge
    BY <1>8 DEF Recover
  <2>2. \A q \in Request : Observed(q)' = Observed(q)
    BY <2>1 DEF Observed
  <2>3. GaugeIsBalanced' /\ gauge' \in Nat
    BY <1>1, <2>1, <2>2, GaugeSame
  <2> QED BY <1>1, <1>8, <2>3, RecoverLocal, RecoverTypes
<1>9. CASE Finish(r)
  <2>1. stack' = stack /\ gauge' = gauge
    BY <1>9 DEF Finish
  <2>2. \A q \in Request : Observed(q)' = Observed(q)
    BY <2>1 DEF Observed
  <2>3. GaugeIsBalanced' /\ gauge' \in Nat
    BY <1>1, <2>1, <2>2, GaugeSame
  <2> QED BY <1>1, <1>9, <2>3, FinishLocal, FinishTypes
<1>10. CASE Observability(r)
  <2>1. /\ Before(r, "observability") /\ Push(r, "observability")
        /\ gauge' = gauge + 1
    BY <1>10 DEF Observability
  <2>2. ~Observed(r)
    <3>1. at[r] = 2
      BY <1>1, <2>1, KindAt
    <3> QED BY <1>1, <3>1 DEF Local, Stacked, Observed
  <2>3. Observed(r)' /\ \A q \in Request \ {r} : Observed(q)' = Observed(q)
    BY <1>1, <2>1, PushObserved DEF Recorder
  <2>4. GaugeIsBalanced' /\ gauge' \in Nat
    BY <1>1, <2>1, <2>2, <2>3, GaugeUp
  <2> QED BY <1>1, <1>10, <2>4, ObservabilityLocal, ObservabilityTypes
<1>11. CASE Logging(r)
  <2>1. Push(r, "logging") /\ gauge' = gauge
    BY <1>11 DEF Logging
  <2>2. \A q \in Request : Observed(q)' = Observed(q)
    BY <1>1, <2>1, PushObserved DEF Recorder
  <2>3. GaugeIsBalanced' /\ gauge' \in Nat
    BY <1>1, <2>1, <2>2, GaugeSame
  <2> QED BY <1>1, <1>11, <2>3, LoggingLocal, LoggingTypes
<1>12. CASE Leave(r)
  <2>1. /\ Len(stack[r]) > 1 /\ Pop(r)
        /\ gauge' = gauge - IF Top(r).layer = "observability" THEN 1 ELSE 0
    BY <1>12 DEF Leave, Released
  <2>2. CASE Top(r).layer = "observability"
    <3>1. /\ Observed(r) /\ ~Observed(r)'
          /\ \A q \in Request \ {r} : Observed(q)' = Observed(q)
      BY <1>1, <2>1, <2>2, PopObserved
    <3>2. gauge' = gauge - 1
      BY <2>1, <2>2
    <3>3. GaugeIsBalanced' /\ gauge' \in Nat
      BY <1>1, <3>1, <3>2, GaugeDown
    <3> QED BY <1>1, <1>12, <3>3, LeaveLocal, LeaveTypes
  <2>3. CASE Top(r).layer # "observability"
    <3>1. \A q \in Request : Observed(q)' = Observed(q)
      BY <1>1, <2>1, <2>3, PopObserved
    <3>2. gauge' = gauge
      BY <1>1, <2>1, <2>3 DEF TypeOK
    <3>3. GaugeIsBalanced' /\ gauge' \in Nat
      BY <1>1, <3>1, <3>2, GaugeSame
    <3> QED BY <1>1, <1>12, <3>3, LeaveLocal, LeaveTypes
  <2> QED BY <2>2, <2>3
<1>13. CASE Unwind(r)
  <2>1. /\ Len(stack[r]) > 1 /\ Pop(r)
        /\ gauge' = gauge - IF Top(r).layer = "observability" THEN 1 ELSE 0
    BY <1>13 DEF Unwind, ReleasedByPanic, Released
  <2>2. CASE Top(r).layer = "observability"
    <3>1. /\ Observed(r) /\ ~Observed(r)'
          /\ \A q \in Request \ {r} : Observed(q)' = Observed(q)
      BY <1>1, <2>1, <2>2, PopObserved
    <3>2. gauge' = gauge - 1
      BY <2>1, <2>2
    <3>3. GaugeIsBalanced' /\ gauge' \in Nat
      BY <1>1, <3>1, <3>2, GaugeDown
    <3> QED BY <1>1, <1>13, <3>3, UnwindLocal, UnwindTypes
  <2>3. CASE Top(r).layer # "observability"
    <3>1. \A q \in Request : Observed(q)' = Observed(q)
      BY <1>1, <2>1, <2>3, PopObserved
    <3>2. gauge' = gauge
      BY <1>1, <2>1, <2>3 DEF TypeOK
    <3>3. GaugeIsBalanced' /\ gauge' \in Nat
      BY <1>1, <3>1, <3>2, GaugeSame
    <3> QED BY <1>1, <1>13, <3>3, UnwindLocal, UnwindTypes
  <2> QED BY <2>2, <2>3
<1>14. CASE AdminAudit(r)
  <2>1. gauge' = gauge /\ (stack' = stack \/ Push(r, "audit"))
    BY <1>14 DEF AdminAudit
  <2>2. \A q \in Request : Observed(q)' = Observed(q)
    <3>1. CASE stack' = stack
      BY <3>1 DEF Observed
    <3>2. CASE Push(r, "audit")
      BY <1>1, <3>2, PushObserved DEF Recorder
    <3> QED BY <2>1, <3>1, <3>2
  <2>3. GaugeIsBalanced'
    BY <1>1, <2>1, <2>2, GaugeSame
  <2> QED BY <1>1, <1>14, <2>3, AdminAuditLocal
<1>15. CASE HandlerWrites(r)
  <2>1. PICK code \in {200, 303, 400, 404, 500} :
          Answer(r, code, "handler")
    BY <1>15 DEF HandlerWrites
  <2>2. \A q \in Request : Observed(q)' = Observed(q)
    BY <1>1, <2>1, AnswerObserved DEF Status
  <2>3. GaugeIsBalanced'
    BY <1>1, <1>15, <2>2, GaugeSame DEF HandlerWrites
  <2> QED BY <1>1, <1>15, <2>3, HandlerWritesLocal
<1>16. ASSUME NEW kind, Before(r, kind), NEW code \in Status, Refuse(r,
        code),
             kind \in {"size", "rate", "auth", "csrf", "requireAdmin"}
      PROVE  Local(r)' /\ TypeOK' /\ GaugeIsBalanced'
  <2>1. \A q \in Request : Observed(q)' = Observed(q)
    BY <1>1, <1>16, AnswerObserved DEF Refuse
  <2>2. GaugeIsBalanced'
    BY <1>1, <1>16, <2>1, GaugeSame DEF Refuse
  <2> QED BY <1>1, <1>16, <2>2, RefuseLocal
<1>17. ASSUME NEW kind, Before(r, kind), Pass(r),
             kind \in {"size", "rate", "enrichment", "csrf",
                       "requireAdmin", "boardData", "whitelist"},
             kind = "size" => (ask[r].post => ~ask[r].big),
             kind = "csrf" => (ask[r].post => ~ask[r].cross),
             kind = "requireAdmin" => user[r] = "admin"
      PROVE  Local(r)' /\ TypeOK' /\ GaugeIsBalanced'
  <2>1. stack' = stack /\ gauge' = gauge
    BY <1>17 DEF Pass
  <2>2. \A q \in Request : Observed(q)' = Observed(q)
    BY <2>1 DEF Observed
  <2>3. GaugeIsBalanced'
    BY <1>1, <2>1, <2>2, GaugeSame
  <2> QED BY <1>1, <1>17, <2>3, PassLocal
<1>18. CASE RequestSizeLimit(r)
  <2>1. Before(r, "size")
    BY <1>18 DEF RequestSizeLimit
  <2>2. (Pass(r) /\ ~(ask[r].post /\ ask[r].big)) \/ Refuse(r, 413)
    BY <1>18 DEF RequestSizeLimit
  <2>3. CASE Refuse(r, 413)
    BY <1>16, <2>1, <2>3 DEF Status
  <2>4. CASE Pass(r) /\ ~(ask[r].post /\ ask[r].big)
    BY <1>17, <2>1, <2>4
  <2> QED BY <2>2, <2>3, <2>4
<1>19. CASE RateLimiter(r)
  <2>1. Before(r, "rate")
    BY <1>19 DEF RateLimiter
  <2>2. (Pass(r)) \/ Refuse(r, 429)
    BY <1>19 DEF RateLimiter
  <2>3. CASE Refuse(r, 429)
    BY <1>16, <2>1, <2>3 DEF Status
  <2>4. CASE Pass(r)
    BY <1>17, <2>1, <2>4
  <2> QED BY <2>2, <2>3, <2>4
<1>20. CASE CsrfProtection(r)
  <2>1. Before(r, "csrf")
    BY <1>20 DEF CsrfProtection
  <2>2. (Pass(r) /\ ~(ask[r].post /\ ask[r].cross)) \/ Refuse(r, 403)
    BY <1>20 DEF CsrfProtection, CrossOrigin
  <2>3. CASE Refuse(r, 403)
    BY <1>16, <2>1, <2>3 DEF Status
  <2>4. CASE Pass(r) /\ ~(ask[r].post /\ ask[r].cross)
    BY <1>17, <2>1, <2>4
  <2> QED BY <2>2, <2>3, <2>4
<1>21. CASE RequireAdmin(r)
  <2>1. Before(r, "requireAdmin")
    BY <1>21 DEF RequireAdmin
  <2>2. (Pass(r) /\ user[r] = "admin") \/ Refuse(r, 403)
    BY <1>21 DEF RequireAdmin
  <2>3. CASE Refuse(r, 403)
    BY <1>16, <2>1, <2>3 DEF Status
  <2>4. CASE Pass(r) /\ user[r] = "admin"
    BY <1>17, <2>1, <2>4
  <2> QED BY <2>2, <2>3, <2>4
<1>22. CASE AuthRefuses(r)
  <2>1. /\ Before(r, "auth")
        /\ \E code \in {401, 404, 500} : Refuse(r, code)
    BY <1>22 DEF AuthRefuses
  <2>2. PICK code \in {401, 404, 500} : Refuse(r, code)
    BY <2>1
  <2>3. code \in Status
    BY DEF Status
  <2> QED BY <1>16, <2>1, <2>2, <2>3
<1>23. CASE PassThrough(r)
  <2>1. /\ Pass(r)
        /\ \E kind \in {"enrichment", "boardData", "whitelist"} :
             Before(r, kind)
    BY <1>23 DEF PassThrough
  <2>2. PICK kind \in {"enrichment", "boardData", "whitelist"} :
          Before(r, kind)
    BY <2>1
  <2> QED BY <1>17, <2>1, <2>2
<1> QED BY <1>2, <1>3, <1>4, <1>5, <1>6, <1>7, <1>8, <1>9, <1>10, <1>11,
        <1>12, <1>13, <1>14, <1>15, <1>18, <1>19, <1>20, <1>21, <1>22, <1>23
        DEF Step

LEMMA InitInvariant == Init => IInv
<1> SUFFICES ASSUME Init
             PROVE  IInv
  OBVIOUS
<1>1. \A r \in Request : stack[r] = <<Fresh("recovery")>>
  BY DEF Init
<1>2. Fresh("recovery") \in Writer
  BY DEF Fresh, Writer, Status
<1>3. TypeOK
  <2>1. stack \in [Request -> Seq(Writer)]
    BY <1>2 DEF Init
  <2>2. ask \in [Request -> Ask]
    BY DEF Init, NoAsk, Ask, Route
  <2> QED BY <2>1, <2>2 DEF Init, TypeOK
<1>4. ASSUME NEW r \in Request
      PROVE  Local(r)
  <2>1. /\ Len(stack[r]) = 1 /\ DOMAIN stack[r] = {1}
        /\ stack[r][1].layer = "recovery" /\ ~stack[r][1].sent
        /\ stack[r][1].status = 200
    BY <1>1 DEF Fresh
  <2>2. /\ mode[r] = "idle" /\ at[r] = 1 /\ wire[r] = NoWire /\ body[r] = {}
        /\ reported[r] = {} /\ ask[r].route \notin Guarded
    BY DEF Init, NoAsk, Guarded
  <2>3. Told(r) /\ Stacked(r)
    BY <2>1, <2>2 DEF Told, Stacked
  <2>4. Recorded(r) /\ Authored(r) /\ Checked(r)
    BY <2>2 DEF Recorded, Authored, Checked
  <2>5. AnswerIsSecured(r) /\ AnswerIsOne(r)
    BY <2>2 DEF AnswerIsSecured, AnswerIsOne
  <2> QED BY <2>3, <2>4, <2>5 DEF Local
<1>5. GaugeIsBalanced
  <2>1. \A r \in Request : ~Observed(r)
    BY <1>1 DEF Observed, Fresh
  <2>2. {r \in Request : Observed(r)} = {}
    BY <2>1
  <2> QED BY <2>2, FS_EmptySet DEF Init, GaugeIsBalanced
<1> QED BY <1>3, <1>4, <1>5 DEF IInv

LEMMA NextInvariant == IInv /\ [Next]_vars => IInv'
<1> SUFFICES ASSUME IInv, [Next]_vars
             PROVE  IInv'
  OBVIOUS
<1>1. CASE Next
  <2>1. PICK r \in Request : Step(r)
    BY <1>1 DEF Next
  <2>2. Local(r)' /\ TypeOK' /\ GaugeIsBalanced'
    BY <2>1, OwnStep
  <2>3. ASSUME NEW q \in Request \ {r}
        PROVE  Local(q)'
    <3>1. TypeOK /\ Local(q)
      BY DEF IInv
    <3>2. /\ ask'[q] = ask[q] /\ mode'[q] = mode[q] /\ at'[q] = at[q]
          /\ context'[q] = context[q] /\ user'[q] = user[q]
          /\ secured'[q] = secured[q] /\ stack'[q] = stack[q]
          /\ wire'[q] = wire[q] /\ body'[q] = body[q]
          /\ reported'[q] = reported[q]
      BY <2>1, <3>1, Elsewhere
    <3> QED BY <3>1, <3>2, Frame
  <2> QED BY <2>2, <2>3 DEF IInv
<1>2. CASE UNCHANGED vars
  <2>1. \A r \in Request : Local(r)'
    BY <1>2 DEF vars, IInv, Local, Told, Stacked, Recorded, Authored,
            Checked,
                AnswerIsSecured, AnswerIsOne
  <2>2. TypeOK'
    BY <1>2 DEF vars, IInv, TypeOK
  <2>3. GaugeIsBalanced'
    <3>1. \A q \in Request : Observed(q)' = Observed(q)
      BY <1>2 DEF vars, Observed
    <3> QED BY <1>2, <3>1, GaugeSame DEF vars, IInv
  <2> QED BY <2>1, <2>2, <2>3 DEF IInv
<1> QED BY <1>1, <1>2

(* The inductive invariant: each request by itself agrees with what was    *)
(* put on the wire, and the gauge with all of them.                        *)
THEOREM ServingInvariant == Spec => []IInv
<1> QED BY InitInvariant, NextInvariant, PTL DEF Spec

(* Every variable of routes.go, the chains and the writers has its type.   *)
THEOREM ServingTypes == Spec => []TypeOK
<1>1. IInv => TypeOK
  BY DEF IInv
<1> QED BY <1>1, ServingInvariant, PTL

(* What the layers record is what net/http has sent, for every order of    *)
(* writes of the handler (middlewareResponseWriter.WriteHeader).           *)
THEOREM RecordsAreTrue == Spec => []ReportedIsSent
<1>1. IInv => ReportedIsSent
  <2> SUFFICES ASSUME IInv, NEW r \in Request, NEW e \in reported[r],
                      mode[r] = "done"
               PROVE  e.status = wire[r].status
    BY DEF ReportedIsSent
  <2>1. Recorded(r) /\ AnswerIsOne(r)
    BY DEF IInv, Local
  <2> QED BY <2>1 DEF Recorded, AnswerIsOne
<1> QED BY <1>1, ServingInvariant, PTL

(* The active-requests gauge never drifts, whichever way requests leave.   *)
THEOREM GaugeNeverDrifts == Spec => []GaugeIsBalanced
<1>1. IInv => GaugeIsBalanced
  BY DEF IInv
<1> QED BY <1>1, ServingInvariant, PTL

(* What every handler may rely on: its chain has run in front of it.       *)
THEOREM HandlersAreReachedByTheChain == Spec => []HandlersAreGuarded
<1>1. IInv => HandlersAreGuarded
  <2> SUFFICES ASSUME IInv, NEW r \in Request, Handling(r),
                      ask[r].route \in Guarded
               PROVE  /\ user[r] # "none"
                      /\ ask[r].post => ~ask[r].cross /\ ~ask[r].big
                      /\ ask[r].route = "admin" => user[r] = "admin"
    BY DEF HandlersAreGuarded
  <2>1. TypeOK /\ Checked(r)
    BY DEF IInv, Local
  <2>2. at[r] \in Nat /\ at[r] > 10
    BY <2>1, LengthFacts DEF Handling
  <2> QED BY <2>1, <2>2 DEF Checked
<1> QED BY <1>1, ServingInvariant, PTL

(* No answer of a board route leaves without the security headers.         *)
THEOREM AnswersCarryTheHeaders == Spec => []AnswersAreSecured
<1>1. IInv => AnswersAreSecured
  BY DEF IInv, Local, AnswersAreSecured
<1> QED BY <1>1, ServingInvariant, PTL

(* RecoveryMiddleware never writes into an answer that has begun.          *)
THEOREM PanicsAreAnsweredOnce == Spec => []PanicIsAnswered
<1>1. IInv => PanicIsAnswered
  BY DEF IInv, Local, PanicIsAnswered
<1> QED BY <1>1, ServingInvariant, PTL
=============================================================================
