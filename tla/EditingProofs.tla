--------------------------- MODULE EditingProofs ---------------------------
(* Editing keeps its invariants for every set of members, requests and     *)
(* texts.  Rows only gain texts (RowsStay), so what a request has read of  *)
(* a row's owner, thread and date stays true while others step (Frame);    *)
(* one lemma per action says what it does to its own request.              *)
EXTENDS EditingInduction, FiniteSetTheorems, TLAPS

USE EditingAssumption

(* An id is one more than the rows there are, so it is new.                *)
LEMMA PutFacts ==
  ASSUME NEW f, Numbered(f), NEW row, NEW x, x = Cardinality(DOMAIN f) + 1
  PROVE  /\ x \in Nat \ {0} /\ x \notin DOMAIN f
         /\ DOMAIN Put(f, x, row) = DOMAIN f \cup {x}
         /\ Put(f, x, row)[x] = row
         /\ \A y \in DOMAIN f : Put(f, x, row)[y] = f[y]
         /\ Numbered(Put(f, x, row))
<1>1. /\ Cardinality(DOMAIN f) \in Nat /\ IsFiniteSet(DOMAIN f)
      /\ DOMAIN f = 1 .. Cardinality(DOMAIN f)
  BY FS_CardinalityType DEF Numbered
<1>2. x \in Nat \ {0} /\ x \notin DOMAIN f
  BY <1>1
<1>3. DOMAIN Put(f, x, row) = DOMAIN f \cup {x}
  BY DEF Put
<1>4. Put(f, x, row)[x] = row /\ \A y \in DOMAIN f : Put(f, x, row)[y] = f[y]
  BY <1>2 DEF Put
<1>5. /\ IsFiniteSet(DOMAIN f \cup {x})
      /\ Cardinality(DOMAIN f \cup {x}) = Cardinality(DOMAIN f) + 1
  BY <1>1, <1>2, FS_AddElement
<1>6. DOMAIN f \cup {x} = 1 .. Cardinality(DOMAIN f) + 1
  BY <1>1
<1>7. Numbered(Put(f, x, row))
  BY <1>3, <1>5, <1>6 DEF Numbered
<1> QED BY <1>2, <1>3, <1>4, <1>7

LEMMA NumberedFromOne ==
  ASSUME NEW f, IsFiniteSet(DOMAIN f), DOMAIN f = 1 .. Cardinality(DOMAIN f)
  PROVE  0 \notin DOMAIN f
<1>1. Cardinality(DOMAIN f) \in Nat
  BY FS_CardinalityType
<1> QED BY <1>1

(* No step takes a row away or changes whose it is or how old it is.       *)
RowsStay ==
  /\ DOMAIN thread \subseteq DOMAIN thread'
  /\ \A t \in DOMAIN thread : /\ thread'[t].member = thread[t].member
                              /\ thread'[t].date = thread[t].date
  /\ DOMAIN post \subseteq DOMAIN post'
  /\ \A p \in DOMAIN post : /\ post'[p].member = post[p].member
                            /\ post'[p].date = post[p].date
                            /\ post'[p].thread = post[p].thread

LEMMA Frame ==
  ASSUME RowsStay, NEW q \in Request, pc'[q] = pc[q], req'[q] = req[q],
         0 \notin DOMAIN thread', Local(q)
  PROVE  Local(q)'
<1>1. EditNamesRows(q)'
  BY DEF RowsStay, Local, EditNamesRows
<1>2. PageHasRead(q)'
  <2>1. CASE pc[q] \in {"subjectById", "posts"}
    BY <2>1 DEF RowsStay, Local, PageHasRead, NoId
  <2>2. CASE pc[q] = "shown"
    BY <2>2 DEF RowsStay, Local, PageHasRead
  <2>3. CASE pc[q] \notin {"subjectById", "posts", "shown"}
    BY <2>3 DEF PageHasRead
  <2> QED BY <2>1, <2>2, <2>3
<1>3. OfferIsAccepted(q)'
  BY DEF RowsStay, Local, PageHasRead, OfferIsAccepted
<1>4. ThreadIsWhole(q)'
  BY DEF RowsStay, Local, PageHasRead, ThreadIsWhole
<1> QED BY <1>1, <1>2, <1>3, <1>4 DEF Local

Label == {"idle", "form", "find", "subject", "body", "title", "window",
          "subjectById", "posts", "shown", "ok", "error"}
Asked == {NoReq} \cup EditReq \cup ConfigReq \cup PageReq

RowTypes ==
  /\ DOMAIN thread \subseteq Nat /\ thread \in [DOMAIN thread -> ThreadRow]
  /\ DOMAIN post \subseteq Nat /\ post \in [DOMAIN post -> PostRow]
  /\ config \in Config
  /\ clock \in Nat

(* A label goes with what it needs to know of the request.                 *)
Fits(l, q) ==
  /\ l \in {"form", "find", "subject", "body"} => q \in EditReq
  /\ l \in {"title", "window"} => q \in ConfigReq
  /\ l \in {"subjectById", "posts", "shown"} => q \in PageReq

LEMMA TypesSplit ==
  TypeOK <=> /\ RowTypes
             /\ pc \in [Request -> Label] /\ req \in [Request -> Asked]
             /\ \A r \in Request : Fits(pc[r], req[r])
  BY DEF TypeOK, RowTypes, Label, Asked, Fits

LEMMA TypesSplitNext ==
  TypeOK' <=> /\ RowTypes'
              /\ pc' \in [Request -> Label] /\ req' \in [Request -> Asked]
              /\ \A r \in Request : Fits(pc'[r], req'[r])
  BY DEF TypeOK, RowTypes, Label, Asked, Fits

LEMMA MoveTypes ==
  ASSUME TypeOK, RowTypes', NEW r \in Request, NEW l \in Label,
         NEW q \in Asked, Fits(l, q), pc' = [pc EXCEPT ![r] = l],
         req' = [req EXCEPT ![r] = q]
  PROVE  TypeOK'
<1>1. /\ pc \in [Request -> Label] /\ req \in [Request -> Asked]
      /\ \A x \in Request : Fits(pc[x], req[x])
  BY TypesSplit
<1>2. pc' \in [Request -> Label] /\ req' \in [Request -> Asked]
  BY <1>1
<1>3. ASSUME NEW x \in Request
      PROVE  Fits(pc'[x], req'[x])
  <2>1. CASE x = r
    BY <1>1, <2>1
  <2>2. CASE x # r
    BY <1>1, <2>2
  <2> QED BY <2>1, <2>2
<1> QED BY <1>2, <1>3, TypesSplitNext

LEMMA NothingWritten ==
  ASSUME TypeOK, RowsAreOrdered, UNCHANGED <<thread, post, config, clock>>
  PROVE  RowTypes' /\ RowsAreOrdered' /\ RowsStay
  BY DEF TypeOK, RowTypes, RowsAreOrdered, Numbered, RowsStay

(* A request that has been answered claims nothing any more.               *)
LEMMA Answered ==
  ASSUME TypeOK, RowTypes', NEW r \in Request,
         NEW result \in {"ok", "error"}, Answer(r, result)
  PROVE  Local(r)' /\ TypeOK'
<1>1. /\ pc' = [pc EXCEPT ![r] = result] /\ req' = [req EXCEPT ![r] = NoReq]
      /\ result \in Label /\ NoReq \in Asked /\ Fits(result, NoReq)
  BY DEF Answer, Goto, Label, Asked, Fits
<1>2. TypeOK'
  BY <1>1, MoveTypes
<1>3. pc'[r] \in {"ok", "error"}
  BY <1>1 DEF TypeOK
<1>4. Local(r)'
  BY <1>3 DEF Local, EditNamesRows, PageHasRead, OfferIsAccepted,
     ThreadIsWhole
<1> QED BY <1>2, <1>4

LEMMA EditType ==
  ASSUME NEW op \in {"thread", "post"}, NEW m \in Member, NEW t \in Nat,
         NEW p \in Nat, NEW form \in Nat, NEW s \in Subject \cup {Empty},
         NEW b \in Body
  PROVE  Edit(op, m, t, p, form, s, b) \in EditReq
  BY DEF Edit, EditReq

(* A request on its way to an edit, given what it names.                   *)
LEMMA Edits ==
  ASSUME TypeOK, RowTypes', NEW r \in Request,
         NEW l \in {"form", "find", "subject", "body"}, NEW q \in EditReq,
         pc' = [pc EXCEPT ![r] = l], req' = [req EXCEPT ![r] = q],
         l # "find" => q.post \in DOMAIN post',
         l # "find" /\ q.op = "thread" =>
           q.thread \in DOMAIN thread' /\ post'[q.post].thread = q.thread,
         l = "subject" => q.op = "thread"
  PROVE  Local(r)' /\ TypeOK'
<1>1. l \in Label /\ q \in Asked /\ Fits(l, q)
  BY DEF Label, Asked, Fits
<1>2. TypeOK'
  BY <1>1, MoveTypes
<1>3. pc'[r] = l /\ req'[r] = q
  BY DEF TypeOK
<1>4. Local(r)'
  BY <1>3 DEF Local, EditNamesRows, PageHasRead, OfferIsAccepted,
     ThreadIsWhole
<1> QED BY <1>2, <1>4

LEMMA Configures ==
  ASSUME TypeOK, RowTypes', NEW r \in Request, NEW l \in {"title", "window"},
         NEW q \in ConfigReq, pc' = [pc EXCEPT ![r] = l],
         req' = [req EXCEPT ![r] = q]
  PROVE  Local(r)' /\ TypeOK'
<1>1. l \in Label /\ q \in Asked /\ Fits(l, q)
  BY DEF Label, Asked, Fits
<1>2. TypeOK'
  BY <1>1, MoveTypes
<1>3. pc'[r] = l
  BY DEF TypeOK
<1>4. Local(r)'
  BY <1>3 DEF Local, EditNamesRows, PageHasRead, OfferIsAccepted,
     ThreadIsWhole
<1> QED BY <1>2, <1>4

(* The row that an edit has found is there.                                *)
LEMMA EditFacts ==
  ASSUME TypeOK, RowsAreOrdered, NEW r \in Request, Local(r),
         pc[r] \in {"form", "find", "subject", "body"}
  PROVE  /\ req[r] \in EditReq
         /\ pc[r] # "find" => req[r].post \in DOMAIN post
         /\ pc[r] # "find" /\ req[r].op = "thread" =>
              /\ req[r].thread \in DOMAIN thread
              /\ post[req[r].post].thread = req[r].thread
         /\ pc[r] = "subject" => req[r].op = "thread"
  BY DEF TypeOK, Local, EditNamesRows

LEMMA RowFacts ==
  ASSUME TypeOK, RowsAreOrdered
  PROVE  /\ \A t \in DOMAIN thread :
              /\ t \in Nat \ {0} /\ thread[t] \in ThreadRow
              /\ thread[t].member \in Member /\ thread[t].subject \in Subject
              /\ thread[t].date \in Nat
         /\ \A p \in DOMAIN post :
              /\ p \in Nat \ {0} /\ post[p] \in PostRow
              /\ post[p].thread \in DOMAIN thread
              /\ post[p].member \in Member /\ post[p].body \in Body
              /\ post[p].date \in Nat
         /\ 0 \notin DOMAIN thread
<1>1. /\ DOMAIN thread = 1 .. Cardinality(DOMAIN thread)
      /\ DOMAIN post = 1 .. Cardinality(DOMAIN post)
      /\ Cardinality(DOMAIN thread) \in Nat /\ Cardinality(DOMAIN post) \in Nat
  BY FS_CardinalityType DEF RowsAreOrdered, Numbered
<1>2. \A t \in DOMAIN thread : t \in Nat \ {0} /\ thread[t] \in ThreadRow
  BY <1>1 DEF TypeOK
<1>3. \A p \in DOMAIN post : p \in Nat \ {0} /\ post[p] \in PostRow
  BY <1>1 DEF TypeOK
<1> QED BY <1>2, <1>3 DEF RowsAreOrdered, ThreadRow, PostRow

LEMMA ShowFormStep ==
  ASSUME TypeOK, RowsAreOrdered, NEW r \in Request,
         NEW op \in {"thread", "post"}, NEW p \in DOMAIN post, NEW t \in Nat,
         op = "thread" => t = post[p].thread, NEW m \in Member,
         NEW s \in Subject \cup {Empty}, ShowForm(r, op, m, t, p, s)
  PROVE  Local(r)' /\ TypeOK'
<1> DEFINE q == Edit(op, m, t, p, p, s, post[p].body)
<1>1. RowTypes'
  BY NothingWritten DEF ShowForm
<1>2. /\ p \in Nat /\ post[p].body \in Body
      /\ op = "thread" => t \in DOMAIN thread
  BY RowFacts
<1>3. q \in EditReq
  BY <1>2, EditType
<1>4. q.thread = t /\ q.post = p /\ q.op = op
  BY DEF Edit
<1>5. /\ pc' = [pc EXCEPT ![r] = "form"] /\ req' = [req EXCEPT ![r] = q]
      /\ thread' = thread /\ post' = post
  BY DEF ShowForm, Goto
<1> HIDE DEF q
<1> QED BY <1>1, <1>2, <1>3, <1>4, <1>5, Edits

LEMMA SendFormStep ==
  ASSUME TypeOK, RowsAreOrdered, NEW r \in Request, Local(r), SendForm(r)
  PROVE  Local(r)' /\ TypeOK'
<1>1. PICK s \in Subject \cup {Empty}, b \in Body :
        req' = [req EXCEPT ![r] =
                  Edit(req[r].op, req[r].user, req[r].thread, req[r].post,
                       req[r].form, s, b)]
  BY DEF SendForm, Subjects
<1> DEFINE q == Edit(req[r].op, req[r].user, req[r].thread, req[r].post,
                     req[r].form, s, b)
<1>2. req[r] \in EditReq
  BY EditFacts DEF SendForm
<1>3. q \in EditReq
  <2>1. /\ req[r].op \in {"thread", "post"} /\ req[r].user \in Member
        /\ req[r].thread \in Nat /\ req[r].post \in Nat /\ req[r].form \in Nat
    BY <1>2 DEF EditReq
  <2> QED BY <2>1, EditType
<1>4. pc' = [pc EXCEPT ![r] = "find"] /\ req' = [req EXCEPT ![r] = q]
  BY <1>1 DEF SendForm, Goto
<1>5. RowTypes'
  BY NothingWritten DEF SendForm
<1> HIDE DEF q
<1> QED BY <1>3, <1>4, <1>5, Edits

LEMMA BeginEditStep ==
  ASSUME TypeOK, RowsAreOrdered, NEW r \in Request,
         NEW op \in {"thread", "post"}, NEW t \in Nat, NEW p \in Nat,
         BeginEdit(r, op, t, p)
  PROVE  Local(r)' /\ TypeOK'
<1>1. PICK m \in Member, s \in Subject \cup {Empty}, b \in Body :
        req' = [req EXCEPT ![r] = Edit(op, m, t, p, NoId, s, b)]
  BY DEF BeginEdit, Subjects
<1> DEFINE q == Edit(op, m, t, p, NoId, s, b)
<1>2. q \in EditReq
  BY EditType DEF NoId
<1>3. pc' = [pc EXCEPT ![r] = "find"] /\ req' = [req EXCEPT ![r] = q]
  BY <1>1 DEF BeginEdit, Goto
<1>4. RowTypes'
  BY NothingWritten DEF BeginEdit
<1> HIDE DEF q
<1> QED BY <1>2, <1>3, <1>4, Edits

LEMMA GetThreadForEditStep ==
  ASSUME TypeOK, RowsAreOrdered, NEW r \in Request, Local(r),
         GetThreadForEdit(r)
  PROVE  Local(r)' /\ TypeOK'
<1> DEFINE q(p) ==
      [op |-> "thread", user |-> req[r].user, thread |-> req[r].thread,
       post |-> p, form |-> req[r].form, subject |-> req[r].subject,
       body |-> req[r].body,
       subjectChanged |-> thread[req[r].thread].subject # req[r].subject,
       bodyChanged |-> post[p].body # req[r].body]
<1>1. PICK p \in RowsForEdit(req[r].thread) : req' = [req EXCEPT ![r] = q(p)]
  BY DEF GetThreadForEdit
<1>2. req[r] \in EditReq /\ req[r].thread \in DOMAIN thread
  BY EditFacts DEF GetThreadForEdit, Found
<1>3. p \in DOMAIN post /\ post[p].thread = req[r].thread /\ p \in Nat
  BY <1>1, RowFacts DEF RowsForEdit, ThreadPosts
<1>4. q(p) \in EditReq
  BY <1>2, <1>3 DEF EditReq
<1>5. q(p).thread = req[r].thread /\ q(p).post = p /\ q(p).op = "thread"
  OBVIOUS
<1>6. /\ pc' = [pc EXCEPT ![r] = "subject"]
      /\ thread' = thread /\ post' = post
  BY DEF GetThreadForEdit, Goto
<1>7. RowTypes'
  BY NothingWritten DEF GetThreadForEdit
<1> HIDE DEF q
<1> QED BY <1>1, <1>2, <1>3, <1>4, <1>5, <1>6, <1>7, Edits

LEMMA GetThreadPostForEditStep ==
  ASSUME TypeOK, RowsAreOrdered, NEW r \in Request, Local(r),
         GetThreadPostForEdit(r)
  PROVE  Local(r)' /\ TypeOK'
<1> DEFINE q == [req[r] EXCEPT !.bodyChanged =
                                 post[req[r].post].body # req[r].body]
<1>1. /\ req[r] \in EditReq /\ req[r].op = "post"
      /\ req[r].post \in DOMAIN post
  BY EditFacts DEF GetThreadPostForEdit, Found
<1>2. q \in EditReq /\ q.op = "post" /\ q.post = req[r].post
  BY <1>1 DEF EditReq
<1>3. /\ pc' = [pc EXCEPT ![r] = "body"] /\ req' = [req EXCEPT ![r] = q]
      /\ thread' = thread /\ post' = post
  BY DEF GetThreadPostForEdit, Goto
<1>4. RowTypes'
  BY NothingWritten DEF GetThreadPostForEdit
<1> HIDE DEF q
<1> QED BY <1>1, <1>2, <1>3, <1>4, Edits

(* An UPDATE that the table accepts changes a text and nothing else.       *)
LEMMA UpdateThreadStep ==
  ASSUME TypeOK, RowsAreOrdered, NEW r \in Request, Local(r),
         UpdateThread(r)
  PROVE  /\ RowsStay /\ RowsAreOrdered' /\ TypeOK' /\ Local(r)'
         /\ post' = post
         /\ \A t \in DOMAIN thread :
              thread'[t].subject # thread[t].subject =>
                /\ t = req[r].thread /\ thread'[t].subject = req[r].subject
                /\ Matches(r, thread[t])
<1> DEFINE t == req[r].thread
           row == [thread[t] EXCEPT !.subject = req[r].subject]
<1>1. /\ req[r] \in EditReq /\ t \in DOMAIN thread
      /\ req[r].post \in DOMAIN post /\ post[req[r].post].thread = t
      /\ req[r].op = "thread"
  BY EditFacts DEF UpdateThread
<1>2. /\ post' = post /\ config' = config /\ clock' = clock /\ req' = req
      /\ pc' = [pc EXCEPT ![r] = "body"]
  BY DEF UpdateThread, Goto
<1>3. \/ thread' = thread
      \/ /\ thread' = [thread EXCEPT ![t] = row] /\ Matches(r, thread[t])
         /\ req[r].subject \in Subject
  BY <1>1 DEF UpdateThread, SubjectAccepted, EditReq
<1>4. CASE thread' = thread
  <2>1. RowTypes' /\ RowsAreOrdered' /\ RowsStay
    BY <1>2, <1>4, NothingWritten
  <2>2. req' = [req EXCEPT ![r] = req[r]]
    BY <1>2 DEF TypeOK
  <2>3. Local(r)' /\ TypeOK'
    BY <1>1, <1>2, <1>4, <2>1, <2>2, Edits
  <2> QED BY <1>2, <1>4, <2>1, <2>3
<1>5. CASE /\ thread' = [thread EXCEPT ![t] = row] /\ Matches(r, thread[t])
           /\ req[r].subject \in Subject
  <2>1. /\ thread[t] \in ThreadRow /\ row \in ThreadRow
        /\ row.member = thread[t].member /\ row.date = thread[t].date
        /\ row.subject = req[r].subject
    BY <1>1, <1>5, RowFacts DEF ThreadRow
  <2> HIDE DEF row
  <2>2. /\ DOMAIN thread' = DOMAIN thread /\ thread'[t] = row
        /\ \A x \in DOMAIN thread : x # t => thread'[x] = thread[x]
    BY <1>1, <1>5
  <2>3. RowTypes'
    <3>1. /\ DOMAIN thread \subseteq Nat
          /\ thread \in [DOMAIN thread -> ThreadRow]
      BY DEF TypeOK
    <3>2. thread' \in [DOMAIN thread' -> ThreadRow]
      BY <1>5, <2>1, <2>2, <3>1
    <3> QED BY <1>2, <2>2, <3>1, <3>2 DEF TypeOK, RowTypes
  <2>4. \A x \in DOMAIN thread : /\ thread'[x].member = thread[x].member
                                 /\ thread'[x].date = thread[x].date
    BY <2>1, <2>2
  <2>5. RowsStay
    BY <1>2, <2>2, <2>4 DEF RowsStay
  <2>6. RowsAreOrdered'
    <3>1. Numbered(thread)' /\ Numbered(post)'
      BY <1>2, <2>2 DEF RowsAreOrdered, Numbered
    <3>2. \A x \in DOMAIN thread' :
            thread'[x].date <= clock' /\ \E p \in DOMAIN post' :
                                           post'[p].thread = x
      BY <1>2, <2>2, <2>4 DEF RowsAreOrdered
    <3>3. \A p \in DOMAIN post' :
            /\ post'[p].thread \in DOMAIN thread'
            /\ thread'[post'[p].thread].date <= post'[p].date
            /\ post'[p].date <= clock'
      BY <1>2, <2>2, <2>4 DEF RowsAreOrdered
    <3> QED BY <3>1, <3>2, <3>3 DEF RowsAreOrdered
  <2>7. req' = [req EXCEPT ![r] = req[r]]
    BY <1>2 DEF TypeOK
  <2>8. Local(r)' /\ TypeOK'
    BY <1>1, <1>2, <2>2, <2>3, <2>7, Edits
  <2>9. \A x \in DOMAIN thread :
          thread'[x].subject # thread[x].subject =>
            /\ x = t /\ thread'[x].subject = req[r].subject
            /\ Matches(r, thread[x])
    BY <1>5, <2>1, <2>2
  <2> QED BY <1>2, <2>5, <2>6, <2>8, <2>9
<1> QED BY <1>3, <1>4, <1>5

LEMMA UpdateThreadPostStep ==
  ASSUME TypeOK, RowsAreOrdered, NEW r \in Request, Local(r),
         UpdateThreadPost(r)
  PROVE  /\ RowsStay /\ RowsAreOrdered' /\ TypeOK' /\ Local(r)'
         /\ thread' = thread
         /\ \A p \in DOMAIN post :
              post'[p].body # post[p].body =>
                /\ p = req[r].post /\ post'[p].body = req[r].body
                /\ Matches(r, post[p])
                /\ req[r].op = "thread" => post[p].thread = req[r].thread
<1> DEFINE p == req[r].post
           row == [post[p] EXCEPT !.body = req[r].body]
<1>1. /\ req[r] \in EditReq /\ p \in DOMAIN post
      /\ req[r].op = "thread" => post[p].thread = req[r].thread
  BY EditFacts DEF UpdateThreadPost
<1>2. /\ thread' = thread /\ config' = config /\ clock' = clock
      /\ Answer(r, "ok")
  BY DEF UpdateThreadPost
<1>3. \/ post' = post
      \/ post' = [post EXCEPT ![p] = row] /\ Matches(r, post[p])
  BY DEF UpdateThreadPost
<1>4. CASE post' = post
  <2>1. RowTypes' /\ RowsAreOrdered' /\ RowsStay
    BY <1>2, <1>4, NothingWritten
  <2>2. Local(r)' /\ TypeOK'
    BY <1>2, <2>1, Answered
  <2> QED BY <1>2, <1>4, <2>1, <2>2
<1>5. CASE post' = [post EXCEPT ![p] = row] /\ Matches(r, post[p])
  <2>1. /\ post[p] \in PostRow /\ row \in PostRow
        /\ row.member = post[p].member /\ row.date = post[p].date
        /\ row.thread = post[p].thread /\ row.body = req[r].body
    BY <1>1, RowFacts DEF PostRow, EditReq
  <2> HIDE DEF row
  <2>2. /\ DOMAIN post' = DOMAIN post /\ post'[p] = row
        /\ \A x \in DOMAIN post : x # p => post'[x] = post[x]
    BY <1>1, <1>5
  <2>3. RowTypes'
    <3>1. DOMAIN post \subseteq Nat /\ post \in [DOMAIN post -> PostRow]
      BY DEF TypeOK
    <3>2. post' \in [DOMAIN post' -> PostRow]
      BY <1>5, <2>1, <2>2, <3>1
    <3> QED BY <1>2, <2>2, <3>1, <3>2 DEF TypeOK, RowTypes
  <2>4. \A x \in DOMAIN post : /\ post'[x].member = post[x].member
                               /\ post'[x].date = post[x].date
                               /\ post'[x].thread = post[x].thread
    BY <2>1, <2>2
  <2>5. RowsStay
    BY <1>2, <2>2, <2>4 DEF RowsStay
  <2>6. RowsAreOrdered'
    <3>1. Numbered(thread)' /\ Numbered(post)'
      BY <1>2, <2>2 DEF RowsAreOrdered, Numbered
    <3>2. \A x \in DOMAIN thread' :
            thread'[x].date <= clock' /\ \E y \in DOMAIN post' :
                                           post'[y].thread = x
      BY <1>2, <2>2, <2>4 DEF RowsAreOrdered
    <3>3. \A x \in DOMAIN post' :
            /\ post'[x].thread \in DOMAIN thread'
            /\ thread'[post'[x].thread].date <= post'[x].date
            /\ post'[x].date <= clock'
      BY <1>2, <2>2, <2>4 DEF RowsAreOrdered
    <3> QED BY <3>1, <3>2, <3>3 DEF RowsAreOrdered
  <2>7. Local(r)' /\ TypeOK'
    BY <1>2, <2>3, Answered
  <2>8. \A x \in DOMAIN post :
          post'[x].body # post[x].body =>
            /\ x = p /\ post'[x].body = req[r].body
            /\ Matches(r, post[x])
            /\ req[r].op = "thread" => post[x].thread = req[r].thread
    BY <1>1, <1>5, <2>1, <2>2
  <2> QED BY <1>2, <2>5, <2>6, <2>7, <2>8
<1> QED BY <1>3, <1>4, <1>5

LEMMA BeginConfigStep ==
  ASSUME TypeOK, RowsAreOrdered, NEW r \in Request, BeginConfig(r)
  PROVE  Local(r)' /\ TypeOK'
<1>1. PICK q \in ConfigReq : req' = [req EXCEPT ![r] = q]
  BY DEF BeginConfig
<1>2. RowTypes' /\ pc' = [pc EXCEPT ![r] = "title"]
  BY NothingWritten DEF BeginConfig, Goto
<1> QED BY <1>1, <1>2, Configures

(* Both UPDATEs of board_data leave the posts alone.                       *)
LEMMA ConfigWritten ==
  ASSUME TypeOK, RowsAreOrdered, UNCHANGED <<thread, post, clock>>,
         config' \in Config
  PROVE  RowTypes' /\ RowsAreOrdered' /\ RowsStay
  BY DEF TypeOK, RowTypes, RowsAreOrdered, Numbered, RowsStay

LEMMA UpdateBoardTitleStep ==
  ASSUME TypeOK, RowsAreOrdered, NEW r \in Request, UpdateBoardTitle(r)
  PROVE  RowsStay /\ RowsAreOrdered' /\ Local(r)' /\ TypeOK'
<1>1. req[r] \in ConfigReq
  BY DEF UpdateBoardTitle, TypeOK
<1>2. config' \in Config
  BY <1>1 DEF UpdateBoardTitle, TypeOK, Config, ConfigReq
<1>3. RowTypes' /\ RowsAreOrdered' /\ RowsStay
  BY <1>2, ConfigWritten DEF UpdateBoardTitle
<1>4. pc' = [pc EXCEPT ![r] = "window"] /\ req' = [req EXCEPT ![r] = req[r]]
  BY DEF UpdateBoardTitle, Goto, TypeOK
<1> QED BY <1>1, <1>3, <1>4, Configures

LEMMA UpdateBoardEditWindowStep ==
  ASSUME TypeOK, RowsAreOrdered, NEW r \in Request, UpdateBoardEditWindow(r)
  PROVE  RowsStay /\ RowsAreOrdered' /\ Local(r)' /\ TypeOK'
<1>1. req[r] \in ConfigReq
  BY DEF UpdateBoardEditWindow, TypeOK
<1>2. config' \in Config
  BY <1>1 DEF UpdateBoardEditWindow, TypeOK, Config, ConfigReq
<1>3. RowTypes' /\ RowsAreOrdered' /\ RowsStay
  BY <1>2, ConfigWritten DEF UpdateBoardEditWindow
<1> QED BY <1>3, Answered DEF UpdateBoardEditWindow

(* A request for a page, given what holds of it.                           *)
LEMMA Pages ==
  ASSUME TypeOK, RowTypes', NEW r \in Request,
         NEW l \in {"subjectById", "posts", "shown"}, NEW q \in PageReq,
         pc' = [pc EXCEPT ![r] = l], req' = [req EXCEPT ![r] = q]
  PROVE  TypeOK' /\ pc'[r] = l /\ req'[r] = q /\ EditNamesRows(r)'
<1>1. l \in Label /\ q \in Asked /\ Fits(l, q)
  BY DEF Label, Asked, Fits
<1>2. TypeOK'
  BY <1>1, MoveTypes
<1>3. pc'[r] = l /\ req'[r] = q
  BY DEF TypeOK
<1> QED BY <1>2, <1>3 DEF EditNamesRows

LEMMA BeginListThreadPostsStep ==
  ASSUME TypeOK, RowsAreOrdered, NEW r \in Request, BeginListThreadPosts(r)
  PROVE  Local(r)' /\ TypeOK'
<1> DEFINE q(m, t) == [op |-> "posts", user |-> m, thread |-> t,
                       known |-> ThreadPosts(t), shown |-> {},
                       offered |-> {}, at |-> clock]
<1>1. PICK m \in Member, t \in DOMAIN thread \cup {NoId} :
        req' = [req EXCEPT ![r] = q(m, t)]
  BY DEF BeginListThreadPosts
<1>2. /\ t \in Nat /\ ThreadPosts(t) \subseteq DOMAIN post
      /\ ThreadPosts(t) \subseteq Nat /\ clock \in Nat
      /\ t \in DOMAIN thread => ThreadPosts(t) # {}
      /\ \A p \in ThreadPosts(t) : post[p].thread = t
  BY RowFacts DEF ThreadPosts, NoId, RowsAreOrdered, TypeOK
<1>3. q(m, t) \in PageReq
  BY <1>2 DEF PageReq
<1>4. q(m, t).op = "posts" /\ q(m, t).thread = t
      /\ q(m, t).known = ThreadPosts(t)
  OBVIOUS
<1>5. /\ pc' = [pc EXCEPT ![r] = "subjectById"]
      /\ thread' = thread /\ post' = post /\ RowTypes'
  BY NothingWritten DEF BeginListThreadPosts, Goto
<1> HIDE DEF q
<1>6. /\ TypeOK' /\ pc'[r] = "subjectById" /\ req'[r] = q(m, t)
      /\ EditNamesRows(r)'
  BY <1>1, <1>3, <1>5, Pages
<1>7. PageHasRead(r)'
  BY <1>1, <1>2, <1>4, <1>5, <1>6 DEF PageHasRead
<1> QED BY <1>6, <1>7 DEF Local, OfferIsAccepted, ThreadIsWhole

LEMMA GetThreadSubjectByIdStep ==
  ASSUME TypeOK, RowsAreOrdered, NEW r \in Request, Local(r),
         GetThreadSubjectById(r)
  PROVE  Local(r)' /\ TypeOK'
<1>1. thread' = thread /\ post' = post /\ RowTypes'
  BY NothingWritten DEF GetThreadSubjectById
<1>2. CASE req[r].thread \notin DOMAIN thread
  BY <1>1, <1>2, Answered DEF GetThreadSubjectById
<1>3. CASE req[r].thread \in DOMAIN thread
  <2>1. /\ req[r] \in PageReq /\ pc[r] = "subjectById"
    BY DEF GetThreadSubjectById, TypeOK
  <2>2. pc' = [pc EXCEPT ![r] = "posts"] /\ req' = [req EXCEPT ![r] = req[r]]
    BY <1>3 DEF GetThreadSubjectById, Goto, TypeOK
  <2>3. TypeOK' /\ pc'[r] = "posts" /\ req'[r] = req[r] /\ EditNamesRows(r)'
    BY <1>1, <2>1, <2>2, Pages
  <2>4. PageHasRead(r)'
    BY <1>1, <1>3, <2>1, <2>3 DEF Local, PageHasRead
  <2> QED BY <2>3, <2>4 DEF Local, OfferIsAccepted, ThreadIsWhole
<1> QED BY <1>2, <1>3

LEMMA ListThreadPostsStep ==
  ASSUME TypeOK, RowsAreOrdered, NEW r \in Request, Local(r),
         ListThreadPosts(r)
  PROVE  Local(r)' /\ TypeOK'
<1> DEFINE t == req[r].thread
           m == req[r].user
           offered == {p \in PostRows(t) : CanEdit(m, p)}
           q == [op |-> "posts", user |-> m, thread |-> t,
                 known |-> req[r].known, shown |-> PostRows(t),
                 offered |-> offered, at |-> clock]
<1>1. /\ thread' = thread /\ post' = post /\ RowTypes'
      /\ pc' = [pc EXCEPT ![r] = "shown"] /\ req' = [req EXCEPT ![r] = q]
  BY NothingWritten DEF ListThreadPosts, Show, Goto
<1>2. /\ req[r] \in PageReq /\ t \in DOMAIN thread /\ req[r].known # {}
      /\ \A p \in req[r].known : p \in DOMAIN post /\ post[p].thread = t
  BY DEF ListThreadPosts, TypeOK, Local, PageHasRead
<1>3. PostRows(t) = {p \in DOMAIN post : post[p].thread = t}
  BY DEF PostRows, ThreadPosts
<1>4. q \in PageReq
  <2>1. /\ PostRows(t) \subseteq Nat /\ offered \subseteq Nat /\ clock \in Nat
    BY <1>3, RowFacts DEF TypeOK
  <2> HIDE DEF offered
  <2> QED BY <1>2, <2>1 DEF PageReq
<1>5. \A p \in offered : /\ p \in DOMAIN post /\ post[p].member = m
                         /\ post[p].date >= clock - Window
  <2> SUFFICES ASSUME NEW p \in offered
               PROVE  /\ p \in DOMAIN post /\ post[p].member = m
                      /\ post[p].date >= clock - Window
    OBVIOUS
  <2>1. /\ p \in DOMAIN post /\ post[p].thread \in DOMAIN thread
        /\ post[p].member = m
        /\ thread[post[p].thread].date >= clock - Window
    BY <1>3, RowFacts DEF CanEdit, InTime
  <2>2. thread[post[p].thread].date <= post[p].date
    BY <2>1 DEF RowsAreOrdered
  <2>3. /\ thread[post[p].thread].date \in Nat /\ post[p].date \in Nat
        /\ clock \in Nat /\ Window \in Nat
    BY <2>1, RowFacts DEF TypeOK
  <2> QED BY <2>1, <2>2, <2>3
<1>6. /\ q.op = "posts" /\ q.user = m /\ q.thread = t /\ q.at = clock
      /\ q.known = req[r].known /\ q.shown = PostRows(t)
      /\ q.offered = offered
  OBVIOUS
<1> HIDE DEF q, offered
<1>7. TypeOK' /\ pc'[r] = "shown" /\ req'[r] = q /\ EditNamesRows(r)'
  BY <1>1, <1>4, Pages
<1>8. PageHasRead(r)'
  BY <1>1, <1>3, <1>5, <1>6, <1>7 DEF PageHasRead
<1>9. OfferIsAccepted(r)'
  BY <1>1, <1>5, <1>6, <1>7 DEF OfferIsAccepted
<1>10. ThreadIsWhole(r)'
  BY <1>1, <1>2, <1>3, <1>6, <1>7 DEF ThreadIsWhole
<1> QED BY <1>7, <1>8, <1>9, <1>10 DEF Local

LEMMA ListThreadsStep ==
  ASSUME TypeOK, RowsAreOrdered, NEW r \in Request, ListThreads(r)
  PROVE  Local(r)' /\ TypeOK'
<1> DEFINE offered(m) == {t \in DOMAIN thread : CanEditThread(m, t)}
           q(m) == [op |-> "threads", user |-> m, thread |-> NoId,
                    known |-> DOMAIN thread, shown |-> DOMAIN thread,
                    offered |-> offered(m), at |-> clock]
<1>1. PICK m \in Member : req' = [req EXCEPT ![r] = q(m)]
  BY DEF ListThreads, Show
<1>2. /\ thread' = thread /\ post' = post /\ RowTypes'
      /\ pc' = [pc EXCEPT ![r] = "shown"]
  BY NothingWritten DEF ListThreads, Show, Goto
<1>3. q(m) \in PageReq
  <2>1. /\ DOMAIN thread \subseteq Nat /\ offered(m) \subseteq Nat
        /\ clock \in Nat
    BY DEF TypeOK
  <2> HIDE DEF offered
  <2> QED BY <2>1 DEF PageReq, NoId
<1>4. \A t \in offered(m) : /\ t \in DOMAIN thread /\ thread[t].member = m
                            /\ thread[t].date >= clock - Window
  BY DEF CanEditThread, InTime
<1>5. /\ q(m).op = "threads" /\ q(m).user = m /\ q(m).at = clock
      /\ q(m).offered = offered(m)
  OBVIOUS
<1> HIDE DEF q, offered
<1>6. TypeOK' /\ pc'[r] = "shown" /\ req'[r] = q(m) /\ EditNamesRows(r)'
  BY <1>1, <1>2, <1>3, Pages
<1>7. PageHasRead(r)' /\ OfferIsAccepted(r)' /\ ThreadIsWhole(r)'
  BY <1>2, <1>4, <1>5, <1>6 DEF PageHasRead, OfferIsAccepted, ThreadIsWhole
<1> QED BY <1>6, <1>7 DEF Local

LEMMA ListMemberStep ==
  ASSUME TypeOK, RowsAreOrdered, NEW r \in Request, ListMember(r)
  PROVE  Local(r)' /\ TypeOK'
<1> DEFINE rows(m) == {t \in DOMAIN thread : thread[t].member = m}
           q(m, shown) == [op |-> "member", user |-> m, thread |-> NoId,
                           known |-> {}, shown |-> shown, offered |-> {},
                           at |-> clock]
<1>1. PICK m \in Member : \E shown \in {rows(m), {}} :
        Show(r, q(m, shown))
  BY DEF ListMember
<1>2. PICK shown \in {rows(m), {}} : Show(r, q(m, shown))
  BY <1>1
<1>3. /\ thread' = thread /\ post' = post /\ RowTypes'
      /\ pc' = [pc EXCEPT ![r] = "shown"]
      /\ req' = [req EXCEPT ![r] = q(m, shown)]
  BY <1>2, NothingWritten DEF ListMember, Show, Goto
<1>4. q(m, shown) \in PageReq
  <2>1. shown \subseteq Nat /\ clock \in Nat
    BY <1>2 DEF TypeOK
  <2> QED BY <2>1 DEF PageReq, NoId
<1>5. q(m, shown).op = "member"
  OBVIOUS
<1> HIDE DEF q
<1>6. TypeOK' /\ pc'[r] = "shown" /\ req'[r] = q(m, shown) /\ EditNamesRows(r)'
  BY <1>3, <1>4, Pages
<1>7. PageHasRead(r)' /\ OfferIsAccepted(r)' /\ ThreadIsWhole(r)'
  BY <1>5, <1>6 DEF PageHasRead, OfferIsAccepted, ThreadIsWhole
<1> QED BY <1>6, <1>7 DEF Local

(* A new post comes after everything there is.                             *)
LEMMA NewPostRows ==
  ASSUME TypeOK, RowsAreOrdered, NEW t \in Nat, NEW m \in Member,
         NEW b \in Body, NewPost(t, m, b)
  PROVE  \E p \in Nat \ {0} :
           /\ p \notin DOMAIN post /\ DOMAIN post' = DOMAIN post \cup {p}
           /\ post'[p] = [thread |-> t, member |-> m, body |-> b,
                          date |-> clock]
           /\ \A x \in DOMAIN post : post'[x] = post[x]
           /\ Numbered(post)' /\ post' \in [DOMAIN post' -> PostRow]
           /\ DOMAIN post' \subseteq Nat
<1> DEFINE p == Cardinality(DOMAIN post) + 1
           row == [thread |-> t, member |-> m, body |-> b, date |-> clock]
<1>1. post' = Put(post, p, row) /\ Numbered(post)
  BY DEF NewPost, RowsAreOrdered
<1>2. row \in PostRow
  BY DEF PostRow, TypeOK
<1> HIDE DEF p, row
<1>3. p = Cardinality(DOMAIN post) + 1
  BY DEF p
<1>4. /\ p \in Nat \ {0} /\ p \notin DOMAIN post
      /\ DOMAIN post' = DOMAIN post \cup {p} /\ post'[p] = row
      /\ \A x \in DOMAIN post : post'[x] = post[x]
      /\ Numbered(Put(post, p, row))
  BY <1>1, <1>3, PutFacts
<1>5. Numbered(post)'
  BY <1>1, <1>4 DEF Numbered
<1>6. post' \in [DOMAIN post' -> PostRow]
  <2>1. post' = [x \in DOMAIN post' |-> post'[x]]
    BY <1>1 DEF Put
  <2>2. \A x \in DOMAIN post' : post'[x] \in PostRow
    BY <1>2, <1>4 DEF TypeOK
  <2> QED BY <2>1, <2>2
<1>7. DOMAIN post' \subseteq Nat
  BY <1>4 DEF TypeOK
<1> QED BY <1>4, <1>5, <1>6, <1>7 DEF row

LEMMA CreateThreadPostStep ==
  ASSUME TypeOK, RowsAreOrdered, NEW m \in Member, NEW t \in DOMAIN thread,
         NEW b \in Body, CreateThreadPost(m, t, b)
  PROVE  /\ RowTypes' /\ RowsStay /\ RowsAreOrdered'
         /\ thread' = thread /\ \A x \in DOMAIN post : post'[x] = post[x]
<1>1. /\ thread' = thread /\ config' = config /\ clock' = clock
      /\ NewPost(t, m, b) /\ t \in Nat
  BY DEF CreateThreadPost, TypeOK
<1>2. PICK p \in Nat \ {0} :
        /\ p \notin DOMAIN post /\ DOMAIN post' = DOMAIN post \cup {p}
        /\ post'[p] = [thread |-> t, member |-> m, body |-> b,
                       date |-> clock]
        /\ \A x \in DOMAIN post : post'[x] = post[x]
        /\ Numbered(post)' /\ post' \in [DOMAIN post' -> PostRow]
        /\ DOMAIN post' \subseteq Nat
  BY <1>1, NewPostRows
<1>3. RowTypes'
  BY <1>1, <1>2 DEF TypeOK, RowTypes
<1>4. RowsStay
  BY <1>1, <1>2 DEF RowsStay
<1>5. RowsAreOrdered'
  <2>1. Numbered(thread)'
    BY <1>1 DEF RowsAreOrdered, Numbered
  <2>2. \A x \in DOMAIN thread :
          /\ thread[x].date <= clock
          /\ \E y \in DOMAIN post' : post'[y].thread = x
    BY <1>2 DEF RowsAreOrdered
  <2>3. \A y \in DOMAIN post' :
          /\ post'[y].thread \in DOMAIN thread
          /\ thread[post'[y].thread].date <= post'[y].date
          /\ post'[y].date <= clock
    BY <1>2 DEF RowsAreOrdered, TypeOK
  <2> QED BY <1>1, <1>2, <2>1, <2>2, <2>3 DEF RowsAreOrdered
<1> QED BY <1>1, <1>2, <1>3, <1>4, <1>5

LEMMA NewThreadRows ==
  ASSUME TypeOK, RowsAreOrdered, NEW w \in ThreadRow, NEW thread2,
         thread2 = Put(thread, Cardinality(DOMAIN thread) + 1, w)
  PROVE  \E x \in Nat \ {0} :
           /\ x = Cardinality(DOMAIN thread) + 1
           /\ x \notin DOMAIN thread /\ DOMAIN thread2 = DOMAIN thread \cup {x}
           /\ thread2[x] = w
           /\ \A y \in DOMAIN thread : thread2[y] = thread[y]
           /\ Numbered(thread2)
<1> DEFINE p == Cardinality(DOMAIN thread) + 1
<1>1. thread2 = Put(thread, p, w) /\ Numbered(thread)
  BY DEF RowsAreOrdered
<1> HIDE DEF p
<1>3. p = Cardinality(DOMAIN thread) + 1
  BY DEF p
<1>4. /\ p \in Nat \ {0} /\ p \notin DOMAIN thread
      /\ DOMAIN thread2 = DOMAIN thread \cup {p} /\ thread2[p] = w
      /\ \A x \in DOMAIN thread : thread2[x] = thread[x]
      /\ Numbered(Put(thread, p, w))
  BY <1>1, <1>3, PutFacts
<1> QED BY <1>1, <1>3, <1>4

LEMMA CreateThreadStep ==
  ASSUME TypeOK, RowsAreOrdered, NEW m \in Member, NEW s \in Subject,
         NEW b \in Body, CreateThread(m, s, b)
  PROVE  /\ RowTypes' /\ RowsStay /\ RowsAreOrdered'
         /\ \A x \in DOMAIN thread : thread'[x] = thread[x]
         /\ \A x \in DOMAIN post : post'[x] = post[x]
<1> DEFINE t == Cardinality(DOMAIN thread) + 1
           row == [member |-> m, subject |-> s, date |-> clock]
<1>1. /\ thread' = Put(thread, t, row) /\ NewPost(t, m, b)
      /\ config' = config /\ clock' = clock /\ Numbered(thread)
  BY DEF CreateThread, RowsAreOrdered
<1>2. row \in ThreadRow /\ row.date = clock
  BY DEF ThreadRow, TypeOK
<1> HIDE DEF t, row
<1>3. t = Cardinality(DOMAIN thread) + 1
  BY DEF t
<1>4. /\ t \in Nat \ {0} /\ t \notin DOMAIN thread
      /\ DOMAIN thread' = DOMAIN thread \cup {t} /\ thread'[t] = row
      /\ \A x \in DOMAIN thread : thread'[x] = thread[x]
      /\ Numbered(Put(thread, t, row))
  BY <1>1, <1>2, <1>3, NewThreadRows
<1>5. Numbered(thread)'
  BY <1>1, <1>4 DEF Numbered
<1>6. PICK p \in Nat \ {0} :
        /\ p \notin DOMAIN post /\ DOMAIN post' = DOMAIN post \cup {p}
        /\ post'[p] = [thread |-> t, member |-> m, body |-> b,
                       date |-> clock]
        /\ \A x \in DOMAIN post : post'[x] = post[x]
        /\ Numbered(post)' /\ post' \in [DOMAIN post' -> PostRow]
        /\ DOMAIN post' \subseteq Nat
  <2>1. t \in Nat /\ NewPost(t, m, b)
    BY <1>1, <1>4
  <2> QED BY <2>1, NewPostRows
<1>7. RowTypes'
  <2>1. thread' \in [DOMAIN thread' -> ThreadRow]
    <3>1. thread' = [x \in DOMAIN thread' |-> thread'[x]]
      BY <1>1 DEF Put
    <3>2. \A x \in DOMAIN thread' : thread'[x] \in ThreadRow
      BY <1>2, <1>4 DEF TypeOK
    <3> QED BY <3>1, <3>2
  <2>2. DOMAIN thread' \subseteq Nat
    BY <1>4 DEF TypeOK
  <2> QED BY <1>1, <1>6, <2>1, <2>2 DEF TypeOK, RowTypes
<1>8. RowsStay
  BY <1>4, <1>6 DEF RowsStay
<1>9. RowsAreOrdered'
  <2>1. clock \in Nat
    BY DEF TypeOK
  <2>2. ASSUME NEW x \in DOMAIN thread'
        PROVE  /\ thread'[x].date <= clock
               /\ \E y \in DOMAIN post' : post'[y].thread = x
    <3>1. CASE x = t
      BY <1>2, <1>4, <1>6, <2>1, <3>1
    <3>2. CASE x # t
      BY <1>4, <1>6, <3>2 DEF RowsAreOrdered
    <3> QED BY <3>1, <3>2
  <2>3. ASSUME NEW y \in DOMAIN post'
        PROVE  /\ post'[y].thread \in DOMAIN thread'
               /\ thread'[post'[y].thread].date <= post'[y].date
               /\ post'[y].date <= clock
    <3>1. CASE y = p
      BY <1>2, <1>4, <1>6, <2>1, <3>1
    <3>2. CASE y # p
      BY <1>4, <1>6, <3>2 DEF RowsAreOrdered
    <3> QED BY <3>1, <3>2
  <2> QED BY <1>1, <1>5, <1>6, <2>2, <2>3 DEF RowsAreOrdered
<1> QED BY <1>4, <1>6, <1>7, <1>8, <1>9

LEMMA TickStep ==
  ASSUME TypeOK, RowsAreOrdered, Tick
  PROVE  RowTypes' /\ RowsStay /\ RowsAreOrdered'
<1>1. /\ thread' = thread /\ post' = post /\ config' = config
      /\ clock' = clock + 1 /\ clock \in Nat
  BY DEF Tick, TypeOK
<1>2. RowTypes' /\ RowsStay
  BY <1>1 DEF TypeOK, RowTypes, RowsStay
<1>3. /\ \A t \in DOMAIN thread : thread[t].date <= clock + 1
      /\ \A p \in DOMAIN post : post[p].date <= clock + 1
  <2>1. /\ \A t \in DOMAIN thread :
             thread[t].date \in Nat /\ thread[t].date <= clock
        /\ \A p \in DOMAIN post :
             post[p].date \in Nat /\ post[p].date <= clock
    BY RowFacts DEF RowsAreOrdered
  <2> QED BY <1>1, <2>1
<1>4. RowsAreOrdered'
  BY <1>1, <1>3 DEF RowsAreOrdered, Numbered
<1> QED BY <1>2, <1>4

(* What a request does to the rows and to itself.                          *)
LEMMA RequestStep ==
  ASSUME IInv, NEW r \in Request, Step(r)
  PROVE  /\ RowsStay /\ RowsAreOrdered' /\ TypeOK' /\ Local(r)'
         /\ \A q \in Request \ {r} : pc'[q] = pc[q] /\ req'[q] = req[q]
<1>1. TypeOK /\ RowsAreOrdered /\ Local(r)
  BY DEF IInv
<1>2. CASE EditThreadGET(r)
  <2>1. PICK t \in DOMAIN thread : \E p \in RowsForEdit(t) :
          ShowForm(r, "thread", thread[t].member, t, p, thread[t].subject)
    BY <1>2 DEF EditThreadGET
  <2>2. PICK p \in RowsForEdit(t) :
          ShowForm(r, "thread", thread[t].member, t, p, thread[t].subject)
    BY <2>1
  <2>3. /\ p \in DOMAIN post /\ post[p].thread = t /\ t \in Nat
        /\ thread[t].member \in Member /\ thread[t].subject \in Subject
    BY <1>1, <2>2, RowFacts DEF RowsForEdit, ThreadPosts
  <2>4. Local(r)' /\ TypeOK'
    BY <1>1, <2>2, <2>3, ShowFormStep
  <2>5. UNCHANGED <<thread, post, config, clock>>
    BY <2>2 DEF ShowForm
  <2> QED BY <1>1, <2>2, <2>4, <2>5, NothingWritten DEF ShowForm, Goto, TypeOK
<1>3. CASE EditThreadPostGET(r)
  <2>1. PICK t \in Id, p \in DOMAIN post :
          ShowForm(r, "post", post[p].member, t, p, Empty)
    BY <1>3 DEF EditThreadPostGET
  <2>2. post[p].member \in Member /\ t \in Nat
    BY <1>1, RowFacts DEF Id
  <2>3. Local(r)' /\ TypeOK'
    BY <1>1, <2>1, <2>2, ShowFormStep
  <2>4. UNCHANGED <<thread, post, config, clock>>
    BY <2>1 DEF ShowForm
  <2> QED BY <1>1, <2>1, <2>3, <2>4, NothingWritten DEF ShowForm, Goto, TypeOK
<1>4. CASE SendForm(r)
  <2>1. Local(r)' /\ TypeOK'
    BY <1>1, <1>4, SendFormStep
  <2> QED BY <1>1, <1>4, <2>1, NothingWritten DEF SendForm, Goto, TypeOK
<1>5. CASE BeginEditThread(r)
  <2>1. PICK t \in Id : BeginEdit(r, "thread", t, NoId)
    BY <1>5 DEF BeginEditThread
  <2>2. Local(r)' /\ TypeOK'
    BY <1>1, <2>1, BeginEditStep DEF NoId, Id
  <2> QED BY <1>1, <2>1, <2>2, NothingWritten DEF BeginEdit, Goto, TypeOK
<1>6. CASE BeginEditThreadPost(r)
  <2>1. PICK t, p \in Id : BeginEdit(r, "post", t, p)
    BY <1>6 DEF BeginEditThreadPost
  <2>2. t \in Nat /\ p \in Nat
    BY DEF Id
  <2>3. Local(r)' /\ TypeOK'
    BY <1>1, <2>1, <2>2, BeginEditStep
  <2> QED BY <1>1, <2>1, <2>3, NothingWritten DEF BeginEdit, Goto, TypeOK
<1>7. ASSUME Answer(r, "error"), UNCHANGED <<thread, post, config, clock>>
      PROVE  /\ RowsStay /\ RowsAreOrdered' /\ TypeOK' /\ Local(r)'
             /\ \A q \in Request \ {r} : pc'[q] = pc[q] /\ req'[q] = req[q]
  <2>1. RowTypes' /\ RowsAreOrdered' /\ RowsStay
    BY <1>1, <1>7, NothingWritten
  <2>2. Local(r)' /\ TypeOK'
    BY <1>1, <1>7, <2>1, Answered
  <2> QED BY <1>1, <1>7, <2>1, <2>2 DEF Answer, Goto, TypeOK
<1>8. CASE RefuseEdit(r) \/ NotFound(r) \/ UpdateThreadRefused(r)
             \/ RefuseEditWindow(r) \/ Fail(r)
  <2>1. Answer(r, "error") /\ UNCHANGED <<thread, post, config, clock>>
    BY <1>8 DEF RefuseEdit, NotFound, UpdateThreadRefused, RefuseEditWindow,
       Fail
  <2> QED BY <1>7, <2>1
<1>9. CASE GetThreadForEdit(r)
  <2>1. Local(r)' /\ TypeOK'
    BY <1>1, <1>9, GetThreadForEditStep
  <2>2. \A q \in Request \ {r} : pc'[q] = pc[q] /\ req'[q] = req[q]
    BY <1>1, <1>9 DEF GetThreadForEdit, Goto, TypeOK
  <2> QED BY <1>1, <1>9, <2>1, <2>2, NothingWritten DEF GetThreadForEdit
<1>10. CASE GetThreadPostForEdit(r)
  <2>1. Local(r)' /\ TypeOK'
    BY <1>1, <1>10, GetThreadPostForEditStep
  <2>2. \A q \in Request \ {r} : pc'[q] = pc[q] /\ req'[q] = req[q]
    BY <1>1, <1>10 DEF GetThreadPostForEdit, Goto, TypeOK
  <2> QED BY <1>1, <1>10, <2>1, <2>2, NothingWritten DEF GetThreadPostForEdit
<1>11. CASE UpdateThread(r)
  <2>1. \A q \in Request \ {r} : pc'[q] = pc[q] /\ req'[q] = req[q]
    BY <1>1, <1>11 DEF UpdateThread, Goto, TypeOK
  <2> QED BY <1>1, <1>11, <2>1, UpdateThreadStep
<1>12. CASE UpdateThreadPost(r)
  <2>1. \A q \in Request \ {r} : pc'[q] = pc[q] /\ req'[q] = req[q]
    BY <1>1, <1>12 DEF UpdateThreadPost, Answer, Goto, TypeOK
  <2> QED BY <1>1, <1>12, <2>1, UpdateThreadPostStep
<1>13. CASE BeginConfig(r)
  <2>1. Local(r)' /\ TypeOK'
    BY <1>1, <1>13, BeginConfigStep
  <2>2. PICK c \in ConfigReq : req' = [req EXCEPT ![r] = c]
    BY <1>13 DEF BeginConfig
  <2>3. \A q \in Request \ {r} : pc'[q] = pc[q] /\ req'[q] = req[q]
    BY <1>1, <1>13, <2>2 DEF BeginConfig, Goto, TypeOK
  <2> QED BY <1>1, <1>13, <2>1, <2>3, NothingWritten DEF BeginConfig
<1>14. CASE UpdateBoardTitle(r)
  <2>1. \A q \in Request \ {r} : pc'[q] = pc[q] /\ req'[q] = req[q]
    BY <1>1, <1>14 DEF UpdateBoardTitle, Goto, TypeOK
  <2> QED BY <1>1, <1>14, <2>1, UpdateBoardTitleStep
<1>15. CASE UpdateBoardEditWindow(r)
  <2>1. \A q \in Request \ {r} : pc'[q] = pc[q] /\ req'[q] = req[q]
    BY <1>1, <1>15 DEF UpdateBoardEditWindow, Answer, Goto, TypeOK
  <2> QED BY <1>1, <1>15, <2>1, UpdateBoardEditWindowStep
<1>16. CASE BeginListThreadPosts(r)
  <2>1. Local(r)' /\ TypeOK'
    BY <1>1, <1>16, BeginListThreadPostsStep
  <2>2. \A q \in Request \ {r} : pc'[q] = pc[q] /\ req'[q] = req[q]
    BY <1>1, <1>16 DEF BeginListThreadPosts, Goto, TypeOK
  <2> QED BY <1>1, <1>16, <2>1, <2>2, NothingWritten DEF BeginListThreadPosts
<1>17. CASE GetThreadSubjectById(r)
  <2>1. Local(r)' /\ TypeOK'
    BY <1>1, <1>17, GetThreadSubjectByIdStep
  <2>2. \A q \in Request \ {r} : pc'[q] = pc[q] /\ req'[q] = req[q]
    BY <1>1, <1>17 DEF GetThreadSubjectById, Answer, Goto, TypeOK
  <2> QED BY <1>1, <1>17, <2>1, <2>2, NothingWritten DEF GetThreadSubjectById
<1>18. CASE ListThreadPosts(r)
  <2>1. Local(r)' /\ TypeOK'
    BY <1>1, <1>18, ListThreadPostsStep
  <2>2. \A q \in Request \ {r} : pc'[q] = pc[q] /\ req'[q] = req[q]
    BY <1>1, <1>18 DEF ListThreadPosts, Show, Goto, TypeOK
  <2> QED BY <1>1, <1>18, <2>1, <2>2, NothingWritten DEF ListThreadPosts
<1>19. CASE ListThreads(r)
  <2>1. Local(r)' /\ TypeOK'
    BY <1>1, <1>19, ListThreadsStep
  <2>2. \A q \in Request \ {r} : pc'[q] = pc[q] /\ req'[q] = req[q]
    BY <1>1, <1>19 DEF ListThreads, Show, Goto, TypeOK
  <2> QED BY <1>1, <1>19, <2>1, <2>2, NothingWritten DEF ListThreads
<1>20. CASE ListMember(r)
  <2>1. Local(r)' /\ TypeOK'
    BY <1>1, <1>20, ListMemberStep
  <2>2. \A q \in Request \ {r} : pc'[q] = pc[q] /\ req'[q] = req[q]
    BY <1>1, <1>20 DEF ListMember, Show, Goto, TypeOK
  <2> QED BY <1>1, <1>20, <2>1, <2>2, NothingWritten DEF ListMember
<1> QED BY <1>2, <1>3, <1>4, <1>5, <1>6, <1>8, <1>9, <1>10, <1>11, <1>12,
           <1>13, <1>14, <1>15, <1>16, <1>17, <1>18, <1>19, <1>20 DEF Step

LEMMA InitInvariant == Init => IInv
<1> SUFFICES ASSUME Init
             PROVE  IInv
  OBVIOUS
<1>1. TypeOK
  BY DEF Init, TypeOK, Config, NoReq
<1>2. RowsAreOrdered
  <2>1. DOMAIN thread = {} /\ DOMAIN post = {}
    BY DEF Init
  <2>2. IsFiniteSet({}) /\ Cardinality({}) = 0
    BY FS_EmptySet
  <2> QED BY <2>1, <2>2 DEF RowsAreOrdered, Numbered
<1>3. ASSUME NEW r \in Request
      PROVE  Local(r)
  BY DEF Init, Local, EditNamesRows, PageHasRead, OfferIsAccepted,
     ThreadIsWhole
<1> QED BY <1>1, <1>2, <1>3 DEF IInv

(* Rows that only come in do not disturb what requests have read.          *)
LEMMA RowsAdded ==
  ASSUME IInv, RowTypes', RowsStay, RowsAreOrdered', UNCHANGED <<pc, req>>
  PROVE  IInv'
<1>1. TypeOK'
  <2>1. /\ pc \in [Request -> Label] /\ req \in [Request -> Asked]
        /\ \A r \in Request : Fits(pc[r], req[r])
    BY TypesSplit DEF IInv
  <2>2. /\ pc' \in [Request -> Label] /\ req' \in [Request -> Asked]
        /\ \A r \in Request : Fits(pc'[r], req'[r])
    BY <2>1
  <2> QED BY <2>2, TypesSplitNext
<1>2. 0 \notin DOMAIN thread'
  BY NumberedFromOne DEF RowsAreOrdered, Numbered
<1>3. ASSUME NEW q \in Request
      PROVE  Local(q)'
  BY <1>2, Frame DEF IInv
<1> QED BY <1>1, <1>3 DEF IInv

LEMMA NextInvariant == IInv /\ [Next]_vars => IInv'
<1> SUFFICES ASSUME IInv, [Next]_vars
             PROVE  IInv'
  OBVIOUS
<1>1. TypeOK /\ RowsAreOrdered
  BY DEF IInv
<1>2. CASE Tick
  <2>1. RowTypes' /\ RowsStay /\ RowsAreOrdered'
    BY <1>1, <1>2, TickStep
  <2> QED BY <1>2, <2>1, RowsAdded DEF Tick
<1>3. ASSUME NEW m \in Member, NEW s \in Subject, NEW b \in Body,
             CreateThread(m, s, b)
      PROVE  IInv'
  <2>1. RowTypes' /\ RowsStay /\ RowsAreOrdered'
    BY <1>1, <1>3, CreateThreadStep
  <2> QED BY <1>3, <2>1, RowsAdded DEF CreateThread
<1>4. ASSUME NEW m \in Member, NEW t \in DOMAIN thread, NEW b \in Body,
             CreateThreadPost(m, t, b)
      PROVE  IInv'
  <2>1. RowTypes' /\ RowsStay /\ RowsAreOrdered'
    BY <1>1, <1>4, CreateThreadPostStep
  <2> QED BY <1>4, <2>1, RowsAdded DEF CreateThreadPost
<1>5. ASSUME NEW r \in Request, Step(r)
      PROVE  IInv'
  <2>1. /\ RowsStay /\ RowsAreOrdered' /\ TypeOK' /\ Local(r)'
        /\ \A q \in Request \ {r} : pc'[q] = pc[q] /\ req'[q] = req[q]
    BY <1>5, RequestStep
  <2>2. 0 \notin DOMAIN thread'
    BY <2>1, NumberedFromOne DEF RowsAreOrdered, Numbered
  <2>3. ASSUME NEW q \in Request \ {r}
        PROVE  Local(q)'
    <3>1. Local(q)
      BY DEF IInv
    <3> QED BY <2>1, <2>2, <3>1, Frame
  <2> QED BY <2>1, <2>3 DEF IInv
<1>6. CASE UNCHANGED vars
  <2>1. RowTypes' /\ RowsAreOrdered' /\ RowsStay
    BY <1>1, <1>6, NothingWritten DEF vars
  <2> QED BY <1>6, <2>1, RowsAdded DEF vars
<1> QED BY <1>2, <1>3, <1>4, <1>5, <1>6 DEF Next

(* The inductive invariant: what requests have read of ids, owners and     *)
(* dates stays true.                                                       *)
THEOREM EditingInvariant == Spec => []IInv
<1> QED BY InitInvariant, NextInvariant, PTL DEF Spec

(* Every table, setting and request of the edit and page handlers has its  *)
(* type.                                                                   *)
THEOREM EditingTypes == Spec => []TypeOK
<1>1. IInv => TypeOK
  BY DEF IInv
<1> QED BY <1>1, EditingInvariant, PTL

(* The Edit links of ListThreadPosts and ListThreads are obeyed by the     *)
(* UPDATEs behind them, for every window and every order of posts.         *)
THEOREM OffersAreAccepted == Spec => []OfferedIsAccepted
<1>1. IInv => OfferedIsAccepted
  BY DEF IInv, Local, OfferedIsAccepted
<1> QED BY <1>1, EditingInvariant, PTL

(* ListThreadPosts shows all that was there when it was asked.             *)
THEOREM PagesAreWhole == Spec => []PageIsWhole
<1>1. IInv => PageIsWhole
  BY DEF IInv, Local, PageIsWhole
<1> QED BY <1>1, EditingInvariant, PTL

(* UpdateThread and UpdateThreadPost touch what is the member's own, in    *)
(* time, the row that the URL names or a post of its thread, and nothing   *)
(* else touches a text.                                                    *)
THEOREM EditsStayOwn == Spec => EditsAreOwn
<1> DEFINE A ==
      /\ \A p \in DOMAIN post : post'[p].body # post[p].body =>
           \E r \in Request :
             /\ pc[r] = "body" /\ req[r].user = post[p].member
             /\ IF req[r].op = "post" THEN req[r].post = p
                                      ELSE req[r].thread = post[p].thread
             /\ post'[p].body = req[r].body
             /\ clock - post[p].date <= Window
      /\ \A t \in DOMAIN thread : thread'[t].subject # thread[t].subject =>
           \E r \in Request :
             /\ pc[r] = "subject" /\ req[r].user = thread[t].member
             /\ req[r].thread = t
             /\ thread'[t].subject = req[r].subject
             /\ clock - thread[t].date <= Window
<1>1. IInv /\ [Next]_vars => [A]_vars
  <2> SUFFICES ASSUME IInv, Next
               PROVE  A
    OBVIOUS
  <2>1. TypeOK /\ RowsAreOrdered
    BY DEF IInv
  <2>2. CASE thread' = thread /\ post' = post
    BY <2>2
  <2>3. ASSUME NEW m \in Member, NEW s \in Subject, NEW b \in Body,
               CreateThread(m, s, b)
        PROVE  A
    <3>1. /\ \A x \in DOMAIN thread : thread'[x] = thread[x]
          /\ \A x \in DOMAIN post : post'[x] = post[x]
      BY <2>1, <2>3, CreateThreadStep
    <3> QED BY <3>1
  <2>4. ASSUME NEW m \in Member, NEW t \in DOMAIN thread, NEW b \in Body,
               CreateThreadPost(m, t, b)
        PROVE  A
    <3>1. thread' = thread /\ \A x \in DOMAIN post : post'[x] = post[x]
      BY <2>1, <2>4, CreateThreadPostStep
    <3> QED BY <3>1
  <2>5. ASSUME NEW r \in Request, UpdateThread(r)
        PROVE  A
    <3>1. /\ post' = post /\ pc[r] = "subject"
          /\ \A t \in DOMAIN thread :
               thread'[t].subject # thread[t].subject =>
                 /\ t = req[r].thread /\ thread'[t].subject = req[r].subject
                 /\ Matches(r, thread[t])
      BY <2>1, <2>5, UpdateThreadStep DEF IInv, UpdateThread
    <3>2. ASSUME NEW t \in DOMAIN thread, Matches(r, thread[t])
          PROVE  /\ req[r].user = thread[t].member
                 /\ clock - thread[t].date <= Window
      <4>1. thread[t].date \in Nat /\ clock \in Nat /\ Window \in Nat
        BY <2>1, RowFacts DEF TypeOK
      <4> QED BY <3>2, <4>1 DEF Matches, InTime
    <3> QED BY <3>1, <3>2
  <2>6. ASSUME NEW r \in Request, UpdateThreadPost(r)
        PROVE  A
    <3>1. /\ thread' = thread /\ pc[r] = "body"
          /\ \A p \in DOMAIN post :
               post'[p].body # post[p].body =>
                 /\ p = req[r].post /\ post'[p].body = req[r].body
                 /\ Matches(r, post[p])
                 /\ req[r].op = "thread" => post[p].thread = req[r].thread
      BY <2>1, <2>6, UpdateThreadPostStep DEF IInv, UpdateThreadPost
    <3>2. req[r].op \in {"thread", "post"}
      BY <2>1, <3>1 DEF TypeOK, EditReq
    <3>3. ASSUME NEW p \in DOMAIN post, Matches(r, post[p])
          PROVE  /\ req[r].user = post[p].member
                 /\ clock - post[p].date <= Window
      <4>1. post[p].date \in Nat /\ clock \in Nat /\ Window \in Nat
        BY <2>1, RowFacts DEF TypeOK
      <4> QED BY <3>3, <4>1 DEF Matches, InTime
    <3> QED BY <3>1, <3>2, <3>3
  <2>7. ASSUME NEW r \in Request, Step(r), ~UpdateThread(r),
               ~UpdateThreadPost(r)
        PROVE  thread' = thread /\ post' = post
    BY <2>7 DEF Step, EditThreadGET, EditThreadPostGET, ShowForm, SendForm,
       BeginEditThread, BeginEditThreadPost, BeginEdit, RefuseEdit,
       GetThreadForEdit, GetThreadPostForEdit, NotFound, UpdateThreadRefused,
       BeginConfig, UpdateBoardTitle, UpdateBoardEditWindow,
       RefuseEditWindow, BeginListThreadPosts, GetThreadSubjectById,
       ListThreadPosts, ListThreads, ListMember, Fail
  <2>8. Tick => thread' = thread /\ post' = post
    BY DEF Tick
  <2> HIDE DEF A
  <2> QED BY <2>2, <2>3, <2>4, <2>5, <2>6, <2>7, <2>8 DEF Next
<1>2. Spec => [][A]_vars
  BY <1>1, EditingInvariant, PTL DEF Spec
<1> QED BY <1>2 DEF EditsAreOwn
============================================================================
