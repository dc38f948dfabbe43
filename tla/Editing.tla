------------------------------ MODULE Editing ------------------------------
(***************************************************************************)
(* Editing and reading: editThreadPOST, editThreadPostPOST, the            *)
(* update_config branch of AdminPOST and the pages of handlers.go, with    *)
(* the queries they run (queries.sql.go).  An edit is a SELECT, a          *)
(* comparison in the handler and one or two UPDATEs, a page one SELECT or  *)
(* two, each a transaction of its own; other edits, replies and time come  *)
(* in between.                                                             *)
(*                                                                         *)
(* Posting is atomic here, as in BoardSpec.  A text is what is left of a   *)
(* form field after validation, markdown and HTML filtering; the strict    *)
(* filter can leave nothing of a valid subject.  Time is counted in a      *)
(* unit of which the 900 seconds of the queries are Window.                *)
(***************************************************************************)
EXTENDS Integers, FiniteSets

CONSTANTS Member, Request,
          Subject, Body, Title,  \* texts of threads, posts and the board
          Empty,        \* the subject of which the filter leaves nothing
          Blank,        \* an admin field left empty
          NotANumber,   \* what strconv.ParseInt refuses
          Seconds,      \* edit windows an admin may type, as integers
          Window,       \* INTERVAL '900 seconds'
          MaxPosts,     \* bound on the posts of the board
          MaxClock      \* bound on time

ASSUME EditingAssumption ==
  /\ Empty \notin Subject /\ Blank \notin Title \cup Seconds
  /\ NotANumber \notin Seconds \cup {Blank}
  /\ Window \in Nat /\ Seconds \subseteq Int
  /\ MaxPosts \in Nat /\ MaxClock \in Nat

VARIABLES
  thread,  \* thread: id -> row
  post,    \* thread_post: id -> row
  config,  \* board_data: title and edit_window
  clock,   \* NOW()
  pc,      \* what each request is about to do
  req      \* what each request asks for and has read

vars == <<thread, post, config, clock, pc, req>>

-----------------------------------------------------------------------------
NoId == 0

ThreadRow == [member : Member, subject : Subject, date : Nat]
PostRow == [thread : Nat, member : Member, body : Body, date : Nat]
Config == [title : Title, window : Seconds \cup {Window}]

NoReq == [op |-> "none"]
EditReq == [op : {"thread", "post"}, user : Member, thread : Nat, post : Nat,
            form : Nat,     \* the post whose body the edit form showed
            subject : Subject \cup {Empty}, body : Body,
            subjectChanged : BOOLEAN, bodyChanged : BOOLEAN]
ConfigReq == [op : {"config"}, title : Title \cup {Blank},
              window : Seconds \cup {Blank, NotANumber}]

(* A page: the rows that were there when it was asked for, those it shows, *)
(* those it shows with an Edit link, and the NOW() of its last SELECT.     *)
PageReq == [op : {"posts", "threads", "member"}, user : Member, thread : Nat,
            known : SUBSET Nat, shown : SUBSET Nat, offered : SUBSET Nat,
            at : Nat]

Init ==
  /\ thread = [t \in {} |-> NoId]
  /\ post = [p \in {} |-> NoId]
  /\ config \in [title : Title, window : {Window}]
  /\ clock = 0
  /\ pc = [r \in Request |-> "idle"]
  /\ req = [r \in Request |-> NoReq]

Goto(r, label) == pc' = [pc EXCEPT ![r] = label]

(* The handler returns, with a redirect or an error.                       *)
Answer(r, result) ==
  /\ Goto(r, result)
  /\ req' = [req EXCEPT ![r] = NoReq]

ThreadPosts(t) == {p \in DOMAIN post : post[p].thread = t}
Put(f, x, row) == [y \in DOMAIN f \cup {x} |-> IF y = x THEN row ELSE f[y]]

(* date_posted >= NOW() - INTERVAL '900 seconds'                           *)
InTime(date) == date >= clock - Window

-----------------------------------------------------------------------------
(* Posting, and time.                                                      *)
NewPost(t, m, b) ==
  LET p == Cardinality(DOMAIN post) + 1
  IN  /\ Cardinality(DOMAIN post) < MaxPosts
      /\ post' = Put(post, p, [thread |-> t, member |-> m, body |-> b,
                               date |-> clock])

CreateThread(m, s, b) ==
  LET t == Cardinality(DOMAIN thread) + 1
  IN  /\ thread' = Put(thread, t, [member |-> m, subject |-> s,
                                   date |-> clock])
      /\ NewPost(t, m, b)
      /\ UNCHANGED <<config, clock, pc, req>>

CreateThreadPost(m, t, b) ==
  /\ NewPost(t, m, b)
  /\ UNCHANGED <<thread, config, clock, pc, req>>

Tick ==
  /\ clock < MaxClock
  /\ clock' = clock + 1
  /\ UNCHANGED <<thread, post, config, pc, req>>

-----------------------------------------------------------------------------
(* The edit forms, filled in from the SELECT that the edit will repeat.    *)
(* A URL may name any row, and the thread in the URL of a post edit is the *)
(* thread to go back to: nothing compares it with the thread of the post.  *)
Id == 1 .. MaxPosts

(* The form of a post has no subject.                                      *)
Subjects(op) == IF op = "thread" THEN Subject \cup {Empty} ELSE {Empty}

Edit(op, m, t, p, form, s, b) ==
  [op |-> op, user |-> m, thread |-> t, post |-> p, form |-> form,
   subject |-> s, body |-> b, subjectChanged |-> FALSE, bodyChanged |-> FALSE]

ShowForm(r, op, m, t, p, s) ==
  /\ req' = [req EXCEPT ![r] = Edit(op, m, t, p, p, s, post[p].body)]
  /\ Goto(r, "form")
  /\ UNCHANGED <<thread, post, config, clock>>

(* GetThreadForEdit joins the thread with its posts, whoever wrote them,   *)
(* and :one takes the first row of no particular order.                    *)
RowsForEdit(t) == ThreadPosts(t)

EditThreadGET(r) ==
  /\ pc[r] = "idle"
  /\ \E t \in DOMAIN thread : \E p \in RowsForEdit(t) :
       ShowForm(r, "thread", thread[t].member, t, p, thread[t].subject)

EditThreadPostGET(r) ==
  /\ pc[r] = "idle"
  /\ \E t \in Id, p \in DOMAIN post :
       ShowForm(r, "post", post[p].member, t, p, Empty)

(* The member has changed what the form showed and sends it.               *)
SendForm(r) ==
  /\ pc[r] = "form"
  /\ \E s \in Subjects(req[r].op), b \in Body :
       req' = [req EXCEPT ![r] =
                 Edit(req[r].op, req[r].user, req[r].thread, req[r].post,
                      req[r].form, s, b)]
  /\ Goto(r, "find")
  /\ UNCHANGED <<thread, post, config, clock>>

(* A form for whatever its URL names, a row or none.                       *)
BeginEdit(r, op, t, p) ==
  /\ pc[r] = "idle"
  /\ \E m \in Member, s \in Subjects(op), b \in Body :
       req' = [req EXCEPT ![r] = Edit(op, m, t, p, NoId, s, b)]
  /\ Goto(r, "find")
  /\ UNCHANGED <<thread, post, config, clock>>

BeginEditThread(r) == \E t \in Id : BeginEdit(r, "thread", t, NoId)
BeginEditThreadPost(r) == \E t, p \in Id : BeginEdit(r, "post", t, p)

(* A form that does not validate, or whose URL holds no number.            *)
RefuseEdit(r) ==
  /\ pc[r] = "idle"
  /\ Answer(r, "error")
  /\ UNCHANGED <<thread, post, config, clock>>

(* WHERE id = .. AND m.id = .., of the thread or of the post.              *)
Found(r) ==
  IF req[r].op = "thread"
  THEN /\ req[r].thread \in DOMAIN thread
       /\ thread[req[r].thread].member = req[r].user
  ELSE /\ req[r].post \in DOMAIN post
       /\ post[req[r].post].member = req[r].user

GetThreadForEdit(r) ==
  /\ pc[r] = "find" /\ req[r].op = "thread" /\ Found(r)
  /\ \E p \in RowsForEdit(req[r].thread) :
       req' = [req EXCEPT ![r] =
                [op |-> "thread", user |-> req[r].user,
                 thread |-> req[r].thread, post |-> p, form |-> req[r].form,
                 subject |-> req[r].subject, body |-> req[r].body,
                 subjectChanged |->
                   thread[req[r].thread].subject # req[r].subject,
                 bodyChanged |-> post[p].body # req[r].body]]
  /\ Goto(r, "subject")
  /\ UNCHANGED <<thread, post, config, clock>>

GetThreadPostForEdit(r) ==
  /\ pc[r] = "find" /\ req[r].op = "post" /\ Found(r)
  /\ req' = [req EXCEPT ![r].bodyChanged =
                           post[req[r].post].body # req[r].body]
  /\ Goto(r, "body")
  /\ UNCHANGED <<thread, post, config, clock>>

(* pgx.ErrNoRows: there is no such row, or it is another member's.         *)
NotFound(r) ==
  /\ pc[r] = "find" /\ ~Found(r)
  /\ Answer(r, "error")
  /\ UNCHANGED <<thread, post, config, clock>>

-----------------------------------------------------------------------------
(* WHERE id = .. AND member_id = .. AND date_posted >= ..: an UPDATE that  *)
(* matches no row is no error.  Variants: without one of the conditions.   *)
MatchesAnyone(r, row) == InTime(row.date)
Matches(r, row) == row.member = req[r].user /\ InTime(row.date)

(* Variant: the column has no CHECK.                                       *)
AnySubject(r) == TRUE
SubjectAccepted(r) == req[r].subject # Empty

UpdateThread(r) ==
  /\ pc[r] = "subject"
  /\ IF req[r].subjectChanged /\ Matches(r, thread[req[r].thread])
     THEN /\ SubjectAccepted(r)
          /\ thread' = [thread EXCEPT ![req[r].thread].subject =
                                                     req[r].subject]
     ELSE UNCHANGED thread
  /\ Goto(r, "body")
  /\ UNCHANGED <<post, config, clock, req>>

(* check_violation: a 500 before the body is looked at.                    *)
UpdateThreadRefused(r) ==
  /\ pc[r] = "subject"
  /\ req[r].subjectChanged /\ Matches(r, thread[req[r].thread])
  /\ ~SubjectAccepted(r)
  /\ Answer(r, "error")
  /\ UNCHANGED <<thread, post, config, clock>>

UpdateThreadPost(r) ==
  /\ pc[r] = "body"
  /\ IF req[r].bodyChanged /\ Matches(r, post[req[r].post])
     THEN post' = [post EXCEPT ![req[r].post].body = req[r].body]
     ELSE UNCHANGED post
  /\ Answer(r, "ok")
  /\ UNCHANGED <<thread, config, clock>>

-----------------------------------------------------------------------------
(* Pages.                                                                  *)

(* Variant: ListThreadPosts compares with the author of the thread.        *)
CanEditThreadAuthor(m, p) ==
  /\ thread[post[p].thread].member = m
  /\ InTime(thread[post[p].thread].date)

(* can_edit of ListThreadPosts, which reads the date of the thread, and of *)
(* ListThreads.                                                            *)
CanEdit(m, p) ==
  post[p].member = m /\ InTime(thread[post[p].thread].date)
CanEditThread(m, t) == thread[t].member = m /\ InTime(thread[t].date)

(* Variant: the member is joined as the author of the thread.              *)
PostRowsOfAuthor(t) ==
  {p \in ThreadPosts(t) : post[p].member = thread[t].member}
PostRows(t) == ThreadPosts(t)

Show(r, page) ==
  /\ Goto(r, "shown")
  /\ req' = [req EXCEPT ![r] = page]

BeginListThreadPosts(r) ==
  /\ pc[r] = "idle"
  /\ \E m \in Member, t \in DOMAIN thread \cup {NoId} :
       req' = [req EXCEPT ![r] =
                 [op |-> "posts", user |-> m, thread |-> t,
                  known |-> ThreadPosts(t), shown |-> {}, offered |-> {},
                  at |-> clock]]
  /\ Goto(r, "subjectById")
  /\ UNCHANGED <<thread, post, config, clock>>

GetThreadSubjectById(r) ==
  /\ pc[r] = "subjectById"
  /\ IF req[r].thread \in DOMAIN thread
     THEN Goto(r, "posts") /\ UNCHANGED req
     ELSE Answer(r, "error")
  /\ UNCHANGED <<thread, post, config, clock>>

ListThreadPosts(r) ==
  /\ pc[r] = "posts"
  /\ LET rows == PostRows(req[r].thread)
     IN  Show(r, [op |-> "posts", user |-> req[r].user,
                  thread |-> req[r].thread, known |-> req[r].known,
                  shown |-> rows,
                  offered |-> {p \in rows : CanEdit(req[r].user, p)},
                  at |-> clock])
  /\ UNCHANGED <<thread, post, config, clock>>

ListThreads(r) ==
  /\ pc[r] = "idle"
  /\ \E m \in Member :
       Show(r, [op |-> "threads", user |-> m, thread |-> NoId,
                known |-> DOMAIN thread, shown |-> DOMAIN thread,
                offered |-> {t \in DOMAIN thread : CanEditThread(m, t)},
                at |-> clock])
  /\ UNCHANGED <<thread, post, config, clock>>

(* GetMember, then ListMemberThreads, which may fail without a word.       *)
ListMember(r) ==
  /\ pc[r] = "idle"
  /\ \E m \in Member :
       LET rows == {t \in DOMAIN thread : thread[t].member = m}
       IN  \E shown \in {rows, {}} :
             Show(r, [op |-> "member", user |-> m, thread |-> NoId,
                      known |-> {}, shown |-> shown, offered |-> {},
                      at |-> clock])
  /\ UNCHANGED <<thread, post, config, clock>>

-----------------------------------------------------------------------------
(* update_config: the title first, then the window, read and written.      *)
BeginConfig(r) ==
  /\ pc[r] = "idle"
  /\ req' \in {[req EXCEPT ![r] = q] : q \in ConfigReq}
  /\ Goto(r, "title")
  /\ UNCHANGED <<thread, post, config, clock>>

UpdateBoardTitle(r) ==
  /\ pc[r] = "title"
  /\ config' = IF req[r].title = Blank
               THEN config
               ELSE [title |-> req[r].title, window |-> config.window]
  /\ Goto(r, "window")
  /\ UNCHANGED <<thread, post, clock, req>>

UpdateBoardEditWindow(r) ==
  /\ pc[r] = "window"
  /\ req[r].window # NotANumber
  /\ config' = IF req[r].window = Blank
               THEN config
               ELSE [title |-> config.title, window |-> req[r].window]
  /\ Answer(r, "ok")
  /\ UNCHANGED <<thread, post, clock>>

RefuseEditWindow(r) ==
  /\ pc[r] = "window"
  /\ req[r].window = NotANumber
  /\ Answer(r, "error")
  /\ UNCHANGED <<thread, post, config, clock>>

(* A query fails: the client gets a 500, and what the queries before it    *)
(* wrote stays.                                                            *)
Fail(r) ==
  /\ pc[r] \in {"find", "subject", "body", "title", "window", "subjectById",
               "posts"}
  /\ Answer(r, "error")
  /\ UNCHANGED <<thread, post, config, clock>>

-----------------------------------------------------------------------------
Step(r) ==
  \/ EditThreadGET(r) \/ EditThreadPostGET(r) \/ SendForm(r)
  \/ BeginEditThread(r) \/ BeginEditThreadPost(r) \/ RefuseEdit(r)
  \/ GetThreadForEdit(r) \/ GetThreadPostForEdit(r) \/ NotFound(r)
  \/ UpdateThread(r) \/ UpdateThreadRefused(r) \/ UpdateThreadPost(r)
  \/ BeginConfig(r) \/ UpdateBoardTitle(r)
  \/ UpdateBoardEditWindow(r) \/ RefuseEditWindow(r)
  \/ BeginListThreadPosts(r) \/ GetThreadSubjectById(r)
  \/ ListThreadPosts(r) \/ ListThreads(r) \/ ListMember(r)
  \/ Fail(r)

Next ==
  \/ Tick
  \/ \E m \in Member, s \in Subject, b \in Body : CreateThread(m, s, b)
  \/ \E m \in Member, t \in DOMAIN thread, b \in Body :
       CreateThreadPost(m, t, b)
  \/ \E r \in Request : Step(r)

Spec == Init /\ [][Next]_vars

-----------------------------------------------------------------------------
(* Every variable has its type.                                            *)
TypeOK ==
  /\ DOMAIN thread \subseteq Nat /\ thread \in [DOMAIN thread -> ThreadRow]
  /\ DOMAIN post \subseteq Nat /\ post \in [DOMAIN post -> PostRow]
  /\ config \in Config
  /\ clock \in Nat
  /\ pc \in [Request -> {"idle", "form", "find", "subject", "body", "title",
                         "window", "subjectById", "posts", "shown", "ok",
                         "error"}]
  /\ req \in [Request -> {NoReq} \cup EditReq \cup ConfigReq \cup PageReq]
  /\ \A r \in Request :
       /\ pc[r] \in {"form", "find", "subject", "body"} => req[r] \in EditReq
       /\ pc[r] \in {"title", "window"} => req[r] \in ConfigReq
       /\ pc[r] \in {"subjectById", "posts", "shown"} => req[r] \in PageReq

(* What a member wrote is only ever changed by the same member, to what    *)
(* the form of the edit says and within 900 seconds of writing it: the     *)
(* post the URL names, or one in the thread that the URL of a thread edit  *)
(* names, although editThreadPOST may have read another member's post, and *)
(* time has passed since it read.                                          *)
EditsAreOwn ==
  [][/\ \A p \in DOMAIN post : post'[p].body # post[p].body =>
          \E r \in Request :
            /\ pc[r] = "body" /\ req[r].user = post[p].member
            /\ IF req[r].op = "post" THEN req[r].post = p
                                     ELSE req[r].thread = post[p].thread
            /\ post'[p].body = req[r].body
            /\ clock - post[p].date <= Window
     /\ \A t \in DOMAIN thread : thread'[t].subject # thread[t].subject =>
          \E r \in Request :
            /\ pc[r] = "subject" /\ req[r].user = thread[t].member
            /\ req[r].thread = t
            /\ thread'[t].subject = req[r].subject
            /\ clock - thread[t].date <= Window]_vars

(* An Edit link is one the UPDATE behind it would obey at the time of the  *)
(* page, although ListThreadPosts reads the date of the thread and         *)
(* UpdateThreadPost that of the post.                                      *)
OfferIsAccepted(r) ==
  /\ pc[r] = "shown" /\ req[r].op = "posts" =>
       \A p \in req[r].offered :
         post[p].member = req[r].user /\ post[p].date >= req[r].at - Window
  /\ pc[r] = "shown" /\ req[r].op = "threads" =>
       \A t \in req[r].offered :
         thread[t].member = req[r].user /\ thread[t].date >= req[r].at - Window
OfferedIsAccepted == \A r \in Request : OfferIsAccepted(r)

(* A thread is shown with the posts it had when the page was asked for,    *)
(* the opening post among them, and no other thread's, although the        *)
(* subject and the posts are read at different moments.                    *)
ThreadIsWhole(r) ==
  pc[r] = "shown" /\ req[r].op = "posts" =>
    /\ req[r].known # {} /\ req[r].known \subseteq req[r].shown
    /\ \A p \in req[r].shown : post[p].thread = req[r].thread
PageIsWhole == \A r \in Request : ThreadIsWhole(r)

(* edit-thread.html carries the id of the post whose body it shows: the    *)
(* form of a thread changes that post and no other.                        *)
FormWritesItsPost ==
  [][\A r \in Request :
       pc[r] = "body" /\ pc'[r] = "ok" /\ req[r].form # NoId =>
         \A p \in DOMAIN post :
           post'[p].body # post[p].body => p = req[r].form]_vars

=============================================================================
