-------------------------- MODULE BoardSummaryProofs --------------------------
(***************************************************************************)
(* More proofs about Board: what thread and thread_member say of the posts *)
(* is true, so is what a client is answered, and to every reader posting   *)
(* is atomic.                                                              *)
(***************************************************************************)
EXTENDS BoardProofs, BoardRefinement

-----------------------------------------------------------------------------
(* Steps that leave the tables alone: all but the two commits.             *)

Commits(r) == Commit(r) \/ CommitUnheard(r)

(* What such a step of r may do: r alone moves, never to "ok", and what r  *)
(* was asked to do stays as it is.                                         *)
Quiet(r) ==
  /\ UNCHANGED tables
  /\ clock' >= clock
  /\ \A q \in Request \ {r} : pc'[q] = pc[q] /\ tx'[q] = tx[q]
  /\ pc[r] # "ok" /\ pc'[r] # "ok"
  /\ pc'[r] \in Working /\ pc[r] # "idle" =>
       /\ pc[r] \in Working
       /\ tx'[r].op = tx[r].op /\ tx'[r].now = tx[r].now
       /\ tx[r].op = "reply" => tx'[r].target = tx[r].target
  /\ pc'[r] \in Working /\ pc[r] = "idle" =>
       /\ tx'[r].now = clock'
       /\ tx'[r].op = "reply" => tx'[r].target \in DOMAIN thread \cup {NoId}
  /\ pc'[r] \in {"postThread", "checkView", "commit"} =>
       TakeSnapshot(r) \/ UpdateThread(r) \/ CheckView(r)

(* A statement that stores one field of its transaction's record.          *)
LEMMA StatementQuiet ==
  ASSUME TypeOK, PhaseInv, NEW r \in Request, pc[r] \in Working, tx[r] \in Tx,
         \/ InsertThread(r) \/ CountMemberThread(r) \/ CountBoardThread(r)
         \/ GetThreadSequenceId(r) \/ InsertPost(r) \/ CountMemberPost(r)
         \/ CountBoardPost(r) \/ TakeSnapshot(r) \/ UpdateThread(r)
         \/ CheckView(r)
  PROVE  Quiet(r)
<1> USE DEF Quiet, TypeOK, Goto, Working, Tx
<1>0. clock \in Int
  OBVIOUS
<1>1. CASE InsertThread(r)
  BY <1>0, <1>1 DEF InsertThread
<1>2. CASE CountMemberThread(r)
  BY <1>0, <1>2 DEF CountMemberThread
<1>3. CASE CountBoardThread(r)
  BY <1>0, <1>3 DEF CountBoardThread
<1>4. CASE GetThreadSequenceId(r)
  BY <1>0, <1>4 DEF GetThreadSequenceId, PhaseInv
<1>5. CASE InsertPost(r)
  BY <1>0, <1>5 DEF InsertPost
<1>6. CASE CountMemberPost(r)
  BY <1>0, <1>6 DEF CountMemberPost
<1>7. CASE CountBoardPost(r)
  BY <1>0, <1>7 DEF CountBoardPost
<1>8. CASE TakeSnapshot(r)
  BY <1>0, <1>8 DEF TakeSnapshot
<1>9. CASE UpdateThread(r)
  <2>1. \E row : tx' = [tx EXCEPT ![r].thread = row]
    BY <1>9 DEF UpdateThread
  <2>2. /\ pc[r] = "postThread" /\ pc' = [pc EXCEPT ![r] = "checkView"]
        /\ UNCHANGED tables /\ clock' = clock
    BY <1>9 DEF UpdateThread
  <2> QED BY <1>0, <1>9, <2>1, <2>2
<1>10. CASE CheckView(r)
  BY <1>0, <1>10 DEF CheckView
<1> QED BY <1>1, <1>2, <1>3, <1>4, <1>5, <1>6, <1>7, <1>8, <1>9, <1>10

(* Requests that begin, or end without a commit.                           *)
LEMMA OthersQuiet ==
  ASSUME TypeOK, NEW r \in Request,
         \/ Refuse(r) \/ InsertPostNoThread(r) \/ Fail(r)
         \/ \E m \in Member : BeginThread(r, m) \/ BeginReply(r, m)
  PROVE  Quiet(r)
<1> USE DEF Quiet, TypeOK, Goto, Working
<1>1. CASE Refuse(r)
  BY <1>1 DEF Refuse
<1>2. CASE InsertPostNoThread(r)
  BY <1>2 DEF InsertPostNoThread, Rollback
<1>3. CASE Fail(r)
  BY <1>3 DEF Fail, Rollback
<1>4. CASE \E m \in Member : BeginThread(r, m) \/ BeginReply(r, m)
  <2>1. clock' >= clock
    <3>1. clock' \in {clock, clock + 1}
      BY <1>4 DEF BeginThread, BeginReply, Begin
    <3>2. clock \in Int
      OBVIOUS
    <3> HIDE DEF TypeOK
    <3> QED BY <3>1, <3>2
  <2>2. PICK label \in {"insertThread", "insertPost"} :
             /\ pc[r] = "idle"
             /\ pc' = [pc EXCEPT ![r] = label]
             /\ tx' = [tx EXCEPT ![r] = tx'[r]]
             /\ UNCHANGED tables
    BY <1>4, Beginning DEF tables
  <2>3. /\ tx'[r].now = clock'
        /\ tx'[r].op = "reply" => tx'[r].target \in DOMAIN thread \cup {NoId}
    <3>1. CASE \E m \in Member : BeginThread(r, m)
      BY <3>1 DEF BeginThread, Begin, NewTx
    <3>2. CASE \E m \in Member : BeginReply(r, m)
      BY <3>2 DEF BeginReply, Begin, NewTx
    <3> QED BY <1>4, <3>1, <3>2
  <2> QED BY <2>1, <2>2, <2>3
<1> QED BY <1>1, <1>2, <1>3, <1>4

(* Every step is a commit of some request, or quiet for it, or nothing.    *)
LEMMA StepKinds ==
  ASSUME TypeOK, PhaseInv, Next
  PROVE  \E r \in Request : Commits(r) \/ Quiet(r)
<1>1. PICK r \in Request :
         \/ Refuse(r)
         \/ \E m \in Member : BeginThread(r, m) \/ BeginReply(r, m)
         \/ Step(r)
         \/ CommitUnheard(r)
         \/ Fail(r)
  BY DEF Next
<1>2. CASE Step(r)
  <2>1. pc[r] \in Working /\ tx[r] \in Tx
    BY <1>2, Running
  <2> QED BY <1>2, <2>1, StatementQuiet, OthersQuiet DEF Step, Commits
<1> QED BY <1>1, <1>2, OthersQuiet DEF Commits

-----------------------------------------------------------------------------
(* Quiet steps keep what the summaries need.                               *)

(* Time goes on, and a reply that begins is later than all it can see.     *)
LEMMA QuietDates ==
  ASSUME TypeOK, DateInv, OpenedFirst, NEW r \in Request, Quiet(r),
         clock' \in Nat
  PROVE  DateInv'
<1>1. /\ clock \in Int /\ clock' \in Int /\ clock <= clock'
      /\ thread' = thread /\ post' = post
      /\ \A p \in DOMAIN post : post[p].date \in Int
      /\ \A t \in DOMAIN thread : thread[t].first \in DOMAIN post
  BY DEF Quiet, tables, TypeOK, PostRow, OpenedFirst, ThreadPosts
<1>2. \A p \in DOMAIN post' : post'[p].date < clock'
  BY <1>1 DEF DateInv
<1>3. ASSUME NEW q \in Request, pc'[q] \in Working
      PROVE  /\ tx'[q].now <= clock'
             /\ tx'[q].op = "reply" =>
                  tx'[q].target \in DOMAIN thread' \cup {NoId}
             /\ tx'[q].op = "reply" /\ tx'[q].target \in DOMAIN thread' =>
                  post'[thread'[tx'[q].target].first].date < tx'[q].now
  <2>1. CASE q = r /\ pc[r] = "idle"
    BY <1>1, <1>2, <1>3, <2>1 DEF Quiet
  <2>2. CASE ~(q = r /\ pc[r] = "idle")
    <3>1. /\ pc[q] \in Working
          /\ tx'[q].op = tx[q].op /\ tx'[q].now = tx[q].now
          /\ tx[q].op = "reply" => tx'[q].target = tx[q].target
      BY <1>3, <2>2 DEF Quiet
    <3>2. tx[q].now \in Int
      BY <3>1 DEF TypeOK, Tx
    <3> QED BY <1>1, <3>1, <3>2 DEF DateInv
  <2> QED BY <2>1, <2>2
<1> QED BY <1>2, <1>3 DEF DateInv

(* What a transaction has read stays true, and each statement reads what   *)
(* is committed.                                                           *)
LEMMA QuietReads ==
  ASSUME TypeOK, ReadInv, NEW r \in Request, Quiet(r)
  PROVE  ReadInv'
<1>0. post' = post /\ view' = view
  BY DEF Quiet, tables
<1> SUFFICES ASSUME NEW q \in Request PROVE ReadOf(q)'
  BY DEF ReadInv
<1>1. CASE q # r
  <2>1. pc'[q] = pc[q] /\ tx'[q] = tx[q]
    BY <1>1 DEF Quiet
  <2> QED BY <1>0, <2>1 DEF ReadInv, ReadOf, Earliest, Latest, ThreadSeen,
                           PostSeen, OwnPost, ViewsOf
<1>2. CASE q = r /\ TakeSnapshot(r)
  BY <1>0, <1>2 DEF TakeSnapshot, Goto, TypeOK, ReadOf
<1>3. CASE q = r /\ UpdateThread(r)
  <2>0. pc[r] = "postThread" /\ pc'[r] = "checkView" /\ tx[r] \in Tx
    BY <1>3 DEF UpdateThread, Goto, TypeOK, Working
  <2>1. PICK e \in Earliest(r), l \in Latest(r) :
          tx' = [tx EXCEPT ![r].thread =
                   [member |-> OwnThread(r).member, first |-> e,
                    posts |-> OwnThread(r).posts + 1,
                    last |-> PostSeen(r, l).member, dateLast |-> tx[r].now]]
    BY <1>3 DEF UpdateThread
  <2>2. /\ tx'[r].thread.first = e
        /\ tx'[r].thread.last = PostSeen(r, l).member
        /\ tx'[r].snap = tx[r].snap /\ tx'[r].newPost = tx[r].newPost
        /\ tx'[r].target = tx[r].target /\ tx'[r].author = tx[r].author
        /\ tx'[r].now = tx[r].now
    BY <2>0, <2>1 DEF TypeOK, Tx
  <2>3. \A p : PostSeen(r, p)' = PostSeen(r, p)
    BY <1>0, <2>2 DEF PostSeen, OwnPost
  <2>4. Earliest(r)' = Earliest(r) /\ Latest(r)' = Latest(r)
    BY <2>2, <2>3 DEF Earliest, Latest, ThreadSeen
  <2>5. tx[r].snap = DOMAIN post
    BY <2>0 DEF ReadInv, ReadOf
  <2> QED BY <1>0, <1>3, <2>0, <2>2, <2>3, <2>4, <2>5 DEF ReadOf
<1>4. CASE q = r /\ CheckView(r)
  <2>0. pc[r] = "checkView" /\ pc'[r] = "commit" /\ tx[r] \in Tx
    BY <1>4 DEF CheckView, Goto, TypeOK, Working
  <2>1. /\ tx'[r].seen = (ViewsOf(r) # {})
        /\ tx'[r].snap = tx[r].snap /\ tx'[r].newPost = tx[r].newPost
        /\ tx'[r].target = tx[r].target /\ tx'[r].author = tx[r].author
        /\ tx'[r].now = tx[r].now /\ tx'[r].thread = tx[r].thread
    BY <1>4, <2>0 DEF CheckView, TypeOK, Tx
  <2>2. \A p : PostSeen(r, p)' = PostSeen(r, p)
    BY <1>0, <2>1 DEF PostSeen, OwnPost
  <2>3. Earliest(r)' = Earliest(r) /\ Latest(r)' = Latest(r)
    BY <2>1, <2>2 DEF Earliest, Latest, ThreadSeen
  <2>4. ViewsOf(r)' = ViewsOf(r)
    BY <1>0, <2>1 DEF ViewsOf
  <2> QED BY <1>0, <1>4, <2>0, <2>1, <2>2, <2>3, <2>4 DEF ReadInv, ReadOf
<1>5. CASE q = r /\ pc'[r] \notin {"postThread", "checkView", "commit"}
  BY <1>5 DEF ReadOf
<1> QED BY <1>1, <1>2, <1>3, <1>4, <1>5 DEF Quiet

(* The rest is about the tables, and about requests that are over.         *)
LEMMA QuietTables ==
  ASSUME OpenedFirst, LastPoster, OneViewPerPoster, AnsweredIsStored,
         NEW r \in Request, Quiet(r)
  PROVE  OpenedFirst' /\ LastPoster' /\ OneViewPerPoster' /\ AnsweredIsStored'
<1>1. thread' = thread /\ post' = post /\ view' = view
  BY DEF Quiet, tables
<1>2. \A t : ThreadPosts(t)' = ThreadPosts(t)
  BY <1>1 DEF ThreadPosts
<1>3. OpenedFirst' /\ LastPoster' /\ OneViewPerPoster'
  BY <1>1, <1>2 DEF OpenedFirst, LastPoster, OneViewPerPoster
<1>4. AnsweredIsStored'
  <2> SUFFICES ASSUME NEW q \in Request, pc'[q] = "ok"
               PROVE  /\ tx'[q].newPost \in ThreadPosts(tx[q].target)'
                      /\ post'[tx'[q].newPost].member = tx'[q].author
                      /\ tx'[q].target = tx[q].target
                      /\ tx'[q].op = "thread" =>
                           /\ tx'[q].target = tx'[q].newThread
                           /\ thread'[tx'[q].newThread].first = tx'[q].newPost
    BY <1>1, <1>2 DEF AnsweredIsStored, ThreadPosts
  <2>1. q # r /\ pc[q] = "ok" /\ tx'[q] = tx[q]
    BY DEF Quiet
  <2> QED BY <1>1, <1>2, <2>1 DEF AnsweredIsStored
<1> QED BY <1>3, <1>4

-----------------------------------------------------------------------------
(* The two commits.                                                        *)

(* Whoever else is past the board's row update waits: nobody is.           *)
LEMMA OnlyReader ==
  ASSUME LockInv, NEW r \in Request, pc[r] = "commit",
         NEW q \in Request \ {r}
  PROVE  pc[q] \notin {"postThread", "checkView", "commit"}
<1>1. BoardLock \in held[r]
  BY DEF LockInv, HoldsBoard, PastBoard
<1>2. BoardLock \notin held[q]
  BY <1>1 DEF LockInv
<1> QED BY <1>2 DEF LockInv, HoldsBoard, PastBoard

(* What the subqueries saw is the thread's posts as COMMIT leaves them.    *)
LEMMA SeenIsCommitted ==
  ASSUME ReadInv, NEW r \in Request, pc[r] = "commit", PostAdded(r)
  PROVE  /\ ThreadSeen(r) = ThreadPosts(tx[r].target) \cup {tx[r].newPost}
         /\ \A p \in DOMAIN post' : PostSeen(r, p) = post'[p]
         /\ \A t : t = tx[r].target => ThreadPosts(t)' = ThreadSeen(r)
         /\ \A t : t # tx[r].target => ThreadPosts(t)' = ThreadPosts(t)
<1>1. tx[r].snap = DOMAIN post
  BY DEF ReadInv, ReadOf
<1>2. \A p \in DOMAIN post' : PostSeen(r, p) = post'[p]
  BY DEF PostSeen, PostAdded
<1>3. ThreadSeen(r) = {p \in DOMAIN post' : post'[p].thread = tx[r].target}
  BY <1>1, <1>2 DEF ThreadSeen, PostAdded
<1>4. \A t : ThreadPosts(t)' = {p \in DOMAIN post' : post'[p].thread = t}
  BY DEF ThreadPosts
<1>5. ThreadSeen(r) = ThreadPosts(tx[r].target) \cup {tx[r].newPost}
  BY <1>3 DEF PostAdded, ThreadPosts, OwnPost
<1>6. \A t : t # tx[r].target => ThreadPosts(t)' = ThreadPosts(t)
  BY <1>4 DEF PostAdded, ThreadPosts, OwnPost
<1> QED BY <1>2, <1>3, <1>4, <1>5, <1>6

(* The first post of the thread: the transaction's own, or the one it has. *)
FirstKept(r) ==
  thread'[tx[r].target].first =
    IF tx[r].op = "thread" THEN tx[r].newPost
                           ELSE thread[tx[r].target].first

LEMMA InstallFirst ==
  ASSUME TypeOK, IdInv, DateInv, OpenedFirst, ReadInv,
         NEW r \in Request, Install(r), tx[r] \in Tx,
         PostAdded(r), ThreadAdded(r)
  PROVE  FirstKept(r)
<1>0. pc[r] = "commit" /\ thread'[tx[r].target] = tx[r].thread
  BY DEF Install, Put
<1>1. tx[r].thread.first \in Earliest(r)
  BY <1>0 DEF ReadInv, ReadOf
<1>2. CASE tx[r].op = "thread"
  <2>1. ThreadPosts(tx[r].target) = {}
    BY <1>2 DEF ThreadAdded, ThreadPosts, IdInv
  <2>2. ThreadSeen(r) = {tx[r].newPost}
    BY <1>0, <2>1, SeenIsCommitted
  <2> QED BY <1>0, <1>1, <1>2, <2>2 DEF Earliest, FirstKept
<1>3. CASE tx[r].op = "reply"
  <2> DEFINE f == thread[tx[r].target].first
  <2>1. /\ tx[r].target \in DOMAIN thread /\ f \in ThreadPosts(tx[r].target)
        /\ f \in DOMAIN post
    BY <1>3 DEF ThreadAdded, OpenedFirst, ThreadPosts
  <2>2. \A p \in ThreadPosts(tx[r].target) \ {f} : post[f].date < post[p].date
    BY <2>1 DEF OpenedFirst
  <2>3. post[f].date < tx[r].now
    BY <1>0, <1>3, <2>1 DEF DateInv, Working
  <2>4. /\ PostSeen(r, f).date = post[f].date
        /\ \A p \in ThreadSeen(r) \ {f} :
             PostSeen(r, f).date < PostSeen(r, p).date
    <3>1. PostSeen(r, f).date = post[f].date
      BY <2>1 DEF PostSeen, PostAdded
    <3>2. \A p \in ThreadPosts(tx[r].target) : PostSeen(r, p) = post[p]
      BY DEF PostSeen, PostAdded, ThreadPosts
    <3>3. PostSeen(r, tx[r].newPost).date = tx[r].now
      BY DEF PostSeen, OwnPost
    <3> QED BY <1>0, <2>2, <2>3, <3>1, <3>2, <3>3, SeenIsCommitted
  <2>5. \A p \in ThreadSeen(r) : PostSeen(r, p).date \in Int
    BY <1>0, SeenIsCommitted
       DEF PostSeen, PostAdded, OwnPost, ThreadPosts, TypeOK, PostRow, Tx
  <2>6. f \in ThreadSeen(r)
    BY <1>0, <2>1, SeenIsCommitted
  <2>7. tx[r].thread.first = f
    <3> HIDE DEF f
    <3> QED BY <1>1, <2>4, <2>5, <2>6 DEF Earliest
  <2> QED BY <1>0, <1>3, <2>7 DEF FirstKept
<1> QED BY <1>2, <1>3 DEF Tx

(* The opening post is there with the thread, and no reply displaces it.   *)
LEMMA InstallOpenedFirst ==
  ASSUME TypeOK, IdInv, DateInv, OpenedFirst, ReadInv,
         NEW r \in Request, Install(r), tx[r] \in Tx,
         PostAdded(r), ThreadAdded(r)
  PROVE  OpenedFirst'
<1>0. pc[r] = "commit" /\ FirstKept(r)
  BY InstallFirst DEF Install
<1> SUFFICES ASSUME NEW t \in DOMAIN thread'
             PROVE  /\ thread'[t].first \in ThreadPosts(t)'
                    /\ post'[thread'[t].first].member = thread'[t].member
                    /\ \A p \in ThreadPosts(t)' \ {thread'[t].first} :
                         post'[thread'[t].first].date < post'[p].date
  BY DEF OpenedFirst
<1>1. CASE t # tx[r].target
  <2>1. t \in DOMAIN thread /\ thread'[t] = thread[t]
    BY <1>1 DEF ThreadAdded
  <2>2. ThreadPosts(t)' = ThreadPosts(t)
    BY <1>0, <1>1, SeenIsCommitted
  <2>3. \A p \in ThreadPosts(t) : post'[p] = post[p]
    BY DEF PostAdded, ThreadPosts
  <2> QED BY <2>1, <2>2, <2>3 DEF OpenedFirst
<1>2. CASE t = tx[r].target /\ tx[r].op = "thread"
  <2>1. ThreadPosts(t) = {}
    BY <1>2 DEF ThreadAdded, ThreadPosts, IdInv
  <2>2. ThreadPosts(t)' = {tx[r].newPost}
    BY <1>0, <1>2, <2>1, SeenIsCommitted
  <2>3. thread'[t].first = tx[r].newPost
    BY <1>0, <1>2 DEF FirstKept
  <2>4. post'[tx[r].newPost].member = thread'[t].member
    BY <1>2 DEF PostAdded, OwnPost, ThreadAdded, InsertedThread
  <2> QED BY <2>2, <2>3, <2>4
<1>3. CASE t = tx[r].target /\ tx[r].op = "reply"
  <2> DEFINE f == thread[t].first
  <2>1. t \in DOMAIN thread /\ thread'[t].first = f
    BY <1>0, <1>3 DEF FirstKept, ThreadAdded
  <2>2. thread'[t].member = thread[t].member
    BY <1>3 DEF ThreadAdded
  <2>3. ThreadPosts(t)' = ThreadPosts(t) \cup {tx[r].newPost}
    BY <1>0, <1>3, SeenIsCommitted
  <2>4. \A p \in ThreadPosts(t) : post'[p] = post[p]
    BY DEF PostAdded, ThreadPosts
  <2>5. f \in ThreadPosts(t) /\ post[f].member = thread[t].member
    BY <2>1 DEF OpenedFirst
  <2>6. post[f].date < post'[tx[r].newPost].date
    <3>1. post[f].date < tx[r].now
      BY <1>0, <1>3, <2>1 DEF DateInv, Working
    <3> QED BY <3>1 DEF PostAdded, OwnPost
  <2>7. \A p \in ThreadPosts(t) \ {f} : post[f].date < post[p].date
    BY <2>1 DEF OpenedFirst
  <2> HIDE DEF f
  <2> QED BY <2>1, <2>2, <2>3, <2>4, <2>5, <2>6, <2>7
<1> QED BY <1>1, <1>2, <1>3 DEF Tx

(* last_member_id is read from all posts there are, its own among them.    *)
LEMMA InstallLastPoster ==
  ASSUME LastPoster, ReadInv, NEW r \in Request, Install(r),
         PostAdded(r), ThreadAdded(r)
  PROVE  LastPoster'
<1>0. pc[r] = "commit" /\ thread'[tx[r].target] = tx[r].thread
  BY DEF Install, Put
<1> SUFFICES ASSUME NEW t \in DOMAIN thread'
             PROVE  \E p \in ThreadPosts(t)' :
                      /\ post'[p].member = thread'[t].last
                      /\ \A q \in ThreadPosts(t)' :
                           post'[q].date <= post'[p].date
  BY DEF LastPoster
<1>1. CASE t # tx[r].target
  <2>1. t \in DOMAIN thread /\ thread'[t] = thread[t]
    BY <1>1 DEF ThreadAdded
  <2>2. ThreadPosts(t)' = ThreadPosts(t)
    BY <1>0, <1>1, SeenIsCommitted
  <2>3. \A p \in ThreadPosts(t) : post'[p] = post[p]
    BY DEF PostAdded, ThreadPosts
  <2> QED BY <2>1, <2>2, <2>3 DEF LastPoster
<1>2. CASE t = tx[r].target
  <2>1. PICK l \in Latest(r) : tx[r].thread.last = PostSeen(r, l).member
    BY <1>0 DEF ReadInv, ReadOf
  <2>2. ThreadPosts(t)' = ThreadSeen(r)
    BY <1>0, <1>2, SeenIsCommitted
  <2>3. \A p \in ThreadSeen(r) : PostSeen(r, p) = post'[p]
    BY <1>0, SeenIsCommitted DEF PostAdded, ThreadPosts
  <2> QED BY <1>0, <1>2, <2>1, <2>2, <2>3 DEF Latest
<1> QED BY <1>1, <1>2

(* The clock moves past the new post, and a thread keeps its first post.   *)
LEMMA InstallDates ==
  ASSUME TypeOK, PhaseInv, IdInv, DateInv, OpenedFirst, ReadInv,
         NEW r \in Request, Install(r), tx[r] \in Tx,
         PostAdded(r), ThreadAdded(r), pc'[r] \notin Working,
         \A q \in Request \ {r} : pc'[q] = pc[q] /\ tx'[q] = tx[q]
  PROVE  DateInv'
<1>0. /\ pc[r] = "commit" /\ FirstKept(r)
      /\ clock \in Int /\ clock' = clock + 1
  <2>1. pc[r] = "commit" /\ clock \in Int /\ clock' = clock + 1
    BY DEF Install, TypeOK
  <2> QED BY <2>1, InstallFirst
<1>1. \A p \in DOMAIN post' : post'[p].date < clock'
  <2>1. tx[r].now <= clock /\ tx[r].now \in Int
    BY <1>0 DEF DateInv, Working, Tx
  <2>2. \A p \in DOMAIN post : post[p].date < clock /\ post[p].date \in Int
    BY DEF DateInv, TypeOK, PostRow
  <2> QED BY <1>0, <2>1, <2>2 DEF PostAdded, OwnPost
<1>2. ASSUME NEW q \in Request, pc'[q] \in Working
      PROVE  /\ tx'[q].now <= clock'
             /\ tx'[q].op = "reply" =>
                  tx'[q].target \in DOMAIN thread' \cup {NoId}
             /\ tx'[q].op = "reply" /\ tx'[q].target \in DOMAIN thread' =>
                  post'[thread'[tx'[q].target].first].date < tx'[q].now
  <2>1. pc[q] \in Working /\ tx'[q] = tx[q] /\ tx[q].now \in Int
    BY <1>2 DEF TypeOK, Tx
  <2>2. /\ tx[q].now <= clock
        /\ tx[q].op = "reply" => tx[q].target \in DOMAIN thread \cup {NoId}
        /\ tx[q].op = "reply" /\ tx[q].target \in DOMAIN thread =>
             post[thread[tx[q].target].first].date < tx[q].now
    BY <2>1 DEF DateInv
  <2>3. NoId \notin DOMAIN thread'
    <3>1. NoId \notin 1 .. threadSeq
      BY DEF NoId, TypeOK
    <3>2. tx[r].op = "thread" => tx[r].target \in 1 .. threadSeq
      BY <1>0 DEF PhaseInv, IdInv, Opens, Working, HasPost
    <3>3. tx[r].op = "reply" => tx[r].target \in 1 .. threadSeq
      BY DEF IdInv, ThreadAdded
    <3> QED BY <3>1, <3>2, <3>3 DEF IdInv, ThreadAdded, Tx
  <2>4. \A t \in DOMAIN thread :
          /\ thread'[t].first = thread[t].first
          /\ thread[t].first \in DOMAIN post
    BY <1>0 DEF FirstKept, ThreadAdded, OpenedFirst, ThreadPosts, Tx
  <2>5. \A p \in DOMAIN post : post'[p] = post[p]
    BY DEF PostAdded
  <2>6. DOMAIN thread \subseteq DOMAIN thread'
    BY DEF ThreadAdded
  <2> QED BY <1>0, <2>1, <2>2, <2>3, <2>4, <2>5, <2>6
<1> QED BY <1>1, <1>2 DEF DateInv

(* Nobody else has anything read at stake.                                 *)
LEMMA InstallReads ==
  ASSUME LockInv, NEW r \in Request, pc[r] = "commit", pc'[r] \notin Working,
         \A q \in Request \ {r} : pc'[q] = pc[q] /\ tx'[q] = tx[q]
  PROVE  ReadInv'
<1> SUFFICES ASSUME NEW q \in Request
             PROVE  pc'[q] \notin {"postThread", "checkView", "commit"}
  BY DEF ReadInv, ReadOf
<1>1. CASE q = r
  BY <1>1 DEF Working
<1>2. CASE q # r
  BY <1>2, OnlyReader
<1> QED BY <1>1, <1>2

(* The author's row of thread_member is there once, with the new count.    *)
LEMMA InstallViews ==
  ASSUME TypeOK, IdInv, ReadInv, OneViewPerPoster, TypeOK', ThreadTotals',
         IdInv', NEW r \in Request, Install(r), tx[r] \in Tx,
         PostAdded(r), ThreadAdded(r)
  PROVE  OneViewPerPoster'
<1>0. /\ pc[r] = "commit" /\ thread'[tx[r].target] = tx[r].thread
      /\ tx[r].seen = (ViewsOf(r) # {})
  BY DEF Install, Put, ReadInv, ReadOf
<1>1. view' = (view \ ViewsOf(r)) \cup {NewView(r)}
  BY <1>0 DEF Install
<1>2. \A v, w \in view' : v.member = w.member /\ v.thread = w.thread => v = w
  BY <1>1 DEF OneViewPerPoster, ViewsOf, NewView
<1>3. {<<v.member, v.thread>> : v \in view'} =
        {<<post'[p].member, post'[p].thread>> : p \in DOMAIN post'}
  <2> DEFINE own == <<tx[r].author, tx[r].target>>
  <2>1. {<<v.member, v.thread>> : v \in view'} =
          {<<v.member, v.thread>> : v \in view} \cup {own}
    <3>1. \A v \in ViewsOf(r) : v \in view /\ <<v.member, v.thread>> = own
      BY DEF ViewsOf
    <3>2. <<NewView(r).member, NewView(r).thread>> = own
      BY DEF NewView
    <3> HIDE DEF own
    <3> QED BY <1>1, <3>1, <3>2
  <2>2. {<<post'[p].member, post'[p].thread>> : p \in DOMAIN post'} =
          {<<post[p].member, post[p].thread>> : p \in DOMAIN post} \cup {own}
    BY DEF PostAdded, OwnPost
  <2> QED BY <2>1, <2>2 DEF OneViewPerPoster
<1>4. ASSUME NEW v \in view'
      PROVE  v.posts <= Cardinality(ThreadPosts(v.thread)')
  <2>0. \A t : IsFiniteSet(ThreadPosts(t)) /\ IsFiniteSet(ThreadPosts(t)')
    <3>1. IsFiniteSet(DOMAIN post)
      BY TablesFinite
    <3>2. IsFiniteSet(DOMAIN post')
      BY <3>1, FS_AddElement DEF PostAdded
    <3> QED BY <3>1, <3>2, FS_Subset DEF ThreadPosts
  <2>1. CASE v = NewView(r)
    <3>1. /\ v.thread = tx[r].target
          /\ v.posts = thread'[tx[r].target].posts
          /\ tx[r].target \in DOMAIN thread'
      BY <1>0, <2>1 DEF NewView, ThreadAdded
    <3>2. \A t \in DOMAIN thread' :
            thread'[t].posts = Cardinality(ThreadPosts(t)')
      BY DEF ThreadTotals
    <3>3. Cardinality(ThreadPosts(v.thread)') \in Int
      BY <2>0, FS_CardinalityType
    <3>4. v.posts = Cardinality(ThreadPosts(v.thread)')
      BY <3>1, <3>2
    <3> QED BY <3>3, <3>4
  <2>2. CASE v \in view
    <3>1. v.posts <= Cardinality(ThreadPosts(v.thread)) /\ v.posts \in Int
      BY <2>2 DEF OneViewPerPoster, TypeOK, ViewRow
    <3>2. ThreadPosts(v.thread) \subseteq ThreadPosts(v.thread)'
      BY DEF ThreadPosts, PostAdded
    <3>3. /\ Cardinality(ThreadPosts(v.thread)) \in Int
          /\ Cardinality(ThreadPosts(v.thread)') \in Int
          /\ Cardinality(ThreadPosts(v.thread)) <=
               Cardinality(ThreadPosts(v.thread)')
      BY <2>0, <3>2, FS_Subset, FS_CardinalityType
    <3> QED BY <3>1, <3>3
  <2> QED BY <1>1, <2>1, <2>2
<1> QED BY <1>2, <1>3, <1>4 DEF OneViewPerPoster

(* The client whose transaction committed is told the truth, and what      *)
(* others were told stays true.                                            *)
LEMMA InstallAnswered ==
  ASSUME TypeOK, PhaseInv, IdInv, DateInv, OpenedFirst, ReadInv,
         AnsweredIsStored, NEW r \in Request, Commits(r), tx[r] \in Tx,
         PostAdded(r), ThreadAdded(r)
  PROVE  AnsweredIsStored'
<1>0. Install(r) /\ pc[r] = "commit" /\ FirstKept(r)
  BY InstallFirst DEF Commits, Commit, CommitUnheard, Install
<1> SUFFICES ASSUME NEW q \in Request, pc'[q] = "ok"
             PROVE  /\ tx'[q].newPost \in DOMAIN post'
                    /\ post'[tx'[q].newPost].thread = tx'[q].target
                    /\ post'[tx'[q].newPost].member = tx'[q].author
                    /\ tx'[q].op = "thread" =>
                         /\ tx'[q].target = tx'[q].newThread
                         /\ thread'[tx'[q].newThread].first = tx'[q].newPost
  BY DEF AnsweredIsStored, ThreadPosts
<1>1. CASE q = r
  <2>1. tx' = tx
    BY <1>1 DEF Commits, Commit, CommitUnheard, Rollback, Goto, TypeOK
  <2>2. tx[r].op = "thread" => tx[r].target = tx[r].newThread
    BY <1>0 DEF PhaseInv, HasPost
  <2> QED BY <1>0, <1>1, <2>1, <2>2 DEF PostAdded, OwnPost, FirstKept
<1>2. CASE q # r
  <2>1. pc[q] = "ok" /\ tx'[q] = tx[q]
    BY <1>2 DEF Commits, Commit, CommitUnheard, Rollback, Goto, TypeOK
  <2>2. /\ tx[q].newPost \in DOMAIN post
        /\ post[tx[q].newPost].thread = tx[q].target
        /\ post[tx[q].newPost].member = tx[q].author
        /\ tx[q].op = "thread" =>
             /\ tx[q].target = tx[q].newThread
             /\ thread[tx[q].newThread].first = tx[q].newPost
    BY <2>1 DEF AnsweredIsStored, ThreadPosts
  <2>3. /\ tx[q].newPost \in DOMAIN post'
        /\ post'[tx[q].newPost] = post[tx[q].newPost]
    BY <2>2 DEF PostAdded
  <2>4. tx[q].target \in DOMAIN thread
    BY <2>2 DEF IdInv
  <2>5. thread'[tx[q].target].first = thread[tx[q].target].first
    BY <1>0, <2>4 DEF FirstKept, ThreadAdded, Tx
  <2> QED BY <2>1, <2>2, <2>3, <2>5
<1> QED BY <1>1, <1>2

-----------------------------------------------------------------------------
(* The invariant and what it says.                                         *)

LEMMA SummaryInvInit == Init => SummaryInv
<1> SUFFICES ASSUME Init PROVE SummaryInv
  OBVIOUS
<1>1. DateInv /\ OpenedFirst /\ ReadInv
  BY DEF Init, DateInv, OpenedFirst, ReadInv, ReadOf, Working
<1>2. LastPoster /\ OneViewPerPoster /\ AnsweredIsStored
  BY DEF Init, LastPoster, OneViewPerPoster, AnsweredIsStored
<1> QED BY <1>1, <1>2, IInvInit DEF SummaryInv

LEMMA SummaryInvStep == SummaryInv /\ [Next]_vars => SummaryInv'
<1> SUFFICES ASSUME SummaryInv, [Next]_vars PROVE SummaryInv'
  OBVIOUS
<1> USE DEF SummaryInv
<1>0. IInv'
  BY IInvStep
<1>1. CASE UNCHANGED vars
  <2>1. DateInv' /\ OpenedFirst' /\ ReadInv'
    BY <1>1 DEF vars, tables, DateInv, OpenedFirst, ReadInv, ReadOf, Earliest,
                Latest, ThreadSeen, PostSeen, OwnPost, ViewsOf, ThreadPosts
  <2>2. LastPoster' /\ OneViewPerPoster' /\ AnsweredIsStored'
    BY <1>1 DEF vars, tables, LastPoster, OneViewPerPoster, AnsweredIsStored,
                ThreadPosts
  <2> QED BY <1>0, <2>1, <2>2
<1>2. ASSUME NEW r \in Request, Quiet(r)
      PROVE  SummaryInv'
  <2>1. clock' \in Nat
    BY <1>0 DEF IInv, TypeOK
  <2> QED BY <1>0, <1>2, <2>1, QuietDates, QuietReads, QuietTables DEF IInv
<1>3. ASSUME NEW r \in Request, Commits(r)
      PROVE  SummaryInv'
  <2>1. /\ TypeOK /\ PhaseInv /\ IdInv /\ LockInv /\ DraftInv
        /\ TypeOK' /\ IdInv' /\ ThreadTotals'
    BY <1>0 DEF IInv
  <2>2. Install(r) /\ tx[r] \in Tx /\ pc[r] = "commit"
    BY <1>3, <2>1, Running DEF Commits, Commit, CommitUnheard, Step, Install
  <2>3. PostAdded(r) /\ ThreadAdded(r)
    BY <2>1, <2>2, InstallPost, InstallThread
  <2>4. /\ pc'[r] \notin Working
        /\ \A q \in Request \ {r} : pc'[q] = pc[q] /\ tx'[q] = tx[q]
    BY <1>3, <2>1
       DEF Commits, Commit, CommitUnheard, Rollback, Goto, TypeOK, Working
  <2> QED BY <1>0, <1>3, <2>1, <2>2, <2>3, <2>4, InstallOpenedFirst,
             InstallLastPoster, InstallDates, InstallReads, InstallViews,
             InstallAnswered
<1> QED BY <1>1, <1>2, <1>3, StepKinds DEF IInv

(* What the summaries of a thread need is always so: its opening post is   *)
(* older than every reply under way or stored, and what a transaction has  *)
(* read is still true when it commits.                                     *)
THEOREM SummaryInductive == Spec => []SummaryInv
  BY SummaryInvInit, SummaryInvStep, PTL DEF Spec

(* A thread is never without its opening post, which is its author's and   *)
(* the oldest: whatever replies overlap with it and with each other.       *)
THEOREM OpeningPostCorrect == Spec => []OpeningPost
<1>1. SummaryInv => OpeningPost
  <2> SUFFICES ASSUME SummaryInv, NEW t \in DOMAIN thread,
                      NEW p \in ThreadPosts(t)
               PROVE  /\ thread[t].first \in ThreadPosts(t)
                      /\ post[thread[t].first].member = thread[t].member
                      /\ post[thread[t].first].date <= post[p].date
    BY DEF SummaryInv, OpeningPost, OpenedFirst
  <2>1. \A q \in ThreadPosts(t) : post[q].date \in Int
    BY DEF SummaryInv, IInv, TypeOK, ThreadPosts, PostRow
  <2> QED BY <2>1 DEF SummaryInv, OpenedFirst
<1> QED BY <1>1, SummaryInductive, PTL

(* last_member_id is always the author of a newest post of the thread,     *)
(* in whatever order replies begin and commit.                             *)
THEOREM LastPosterCorrect == Spec => []LastPoster
<1>1. SummaryInv => LastPoster
  BY DEF SummaryInv
<1> QED BY <1>1, SummaryInductive, PTL

(* thread_member never has two rows for one member and thread, although    *)
(* its index would let them in, and has a row for exactly the posters.     *)
THEOREM OneViewPerPosterCorrect == Spec => []OneViewPerPoster
<1>1. SummaryInv => OneViewPerPoster
  BY DEF SummaryInv
<1> QED BY <1>1, SummaryInductive, PTL

(* A client that is sent to its post finds it, now and ever after.         *)
THEOREM AnsweredIsStoredCorrect == Spec => []AnsweredIsStored
<1>1. SummaryInv => AnsweredIsStored
  BY DEF SummaryInv
<1> QED BY <1>1, SummaryInductive, PTL

-----------------------------------------------------------------------------
(* Board implements BoardSpec, for any members, requests and pool size:    *)
(* the two commits are the abstract step, all else a stutter.              *)

(* Both modules count with the same operator.                              *)
LEMMA SameCount == \A S : Atomic!Cardinality(S) = Cardinality(S)
  BY DEF Atomic!Cardinality, Cardinality

(* The tables' summaries are what a count of the posts gives.              *)
LEMMA SummariesAgree == SummaryInv => Atomic!Summarised
<1> SUFFICES ASSUME SummaryInv PROVE Atomic!Summarised
  OBVIOUS
<1> USE DEF SummaryInv, IInv
<1>0. /\ DOMAIN ThreadSummary = DOMAIN thread
      /\ \A t \in DOMAIN thread :
           /\ ThreadSummary[t].member = thread[t].member
           /\ ThreadSummary[t].first = thread[t].first
           /\ ThreadSummary[t].posts = thread[t].posts
           /\ ThreadSummary[t].last = thread[t].last
      /\ \A t : Atomic!PostsIn(t) = ThreadPosts(t)
  BY DEF ThreadSummary, Atomic!PostsIn, ThreadPosts
<1>1. board = [threads |-> Cardinality(DOMAIN ThreadSummary),
               posts |-> Cardinality(DOMAIN post)]
  BY <1>0 DEF BoardTotals, TypeOK, BoardRow
<1>2. MemberSummary = [m \in Member |->
        [threads |-> Cardinality({t \in DOMAIN ThreadSummary :
                                    ThreadSummary[t].member = m}),
         posts |-> Cardinality({p \in DOMAIN post : post[p].member = m})]]
  <2>1. ASSUME NEW m \in Member
        PROVE  /\ member[m].threads =
                    Cardinality({t \in DOMAIN ThreadSummary :
                                   ThreadSummary[t].member = m})
               /\ member[m].posts =
                    Cardinality({p \in DOMAIN post : post[p].member = m})
    <3>1. {t \in DOMAIN ThreadSummary : ThreadSummary[t].member = m} =
            ThreadsBy(m)
      BY <1>0 DEF ThreadsBy
    <3> QED BY <3>1 DEF MemberTotals, PostsBy
  <2> QED BY <2>1 DEF MemberSummary
<1>3. ASSUME NEW t \in DOMAIN ThreadSummary
      PROVE  /\ ThreadSummary[t].posts = Cardinality(Atomic!PostsIn(t))
             /\ ThreadSummary[t].first \in Atomic!Oldest(Atomic!PostsIn(t))
             /\ \E p \in Atomic!Newest(Atomic!PostsIn(t)) :
                  ThreadSummary[t].last = post[p].member
  <2>1. \A q \in ThreadPosts(t) : post[q].date \in Int
    BY DEF TypeOK, ThreadPosts, PostRow
  <2>2. thread[t].posts = Cardinality(ThreadPosts(t))
    BY <1>0 DEF ThreadTotals
  <2>3. thread[t].first \in Atomic!Oldest(ThreadPosts(t))
    BY <1>0, <2>1 DEF OpenedFirst, Atomic!Oldest
  <2>4. \E p \in Atomic!Newest(ThreadPosts(t)) : thread[t].last = post[p].member
    BY <1>0 DEF LastPoster, Atomic!Newest
  <2> QED BY <1>0, <2>2, <2>3, <2>4
<1> QED BY <1>1, <1>2, <1>3, SameCount DEF Atomic!Summarised

(* The empty board is the empty board.                                     *)
LEMMA InitMaps == Init => Atomic!Init
<1> SUFFICES ASSUME Init PROVE Atomic!Init
  OBVIOUS
<1>1. Atomic!Summarised
  BY SummaryInvInit, SummariesAgree
<1>2. DOMAIN post = {} /\ DOMAIN ThreadSummary = {}
  BY DEF Init, ThreadSummary
<1> QED BY <1>1, <1>2 DEF Atomic!Init

(* A commit publishes the post of its transaction.                         *)
LEMMA CommitPublishes ==
  ASSUME SummaryInv, SummaryInv', NEW r \in Request, Commits(r)
  PROVE  Atomic!Next
<1> DEFINE p == tx[r].newPost
           t == tx[r].target
<1>0. /\ TypeOK /\ PhaseInv /\ IdInv /\ DraftInv
  BY DEF SummaryInv, IInv
<1>1. Install(r) /\ tx[r] \in Tx
  BY <1>0, Running DEF Commits, Commit, CommitUnheard, Step
<1>2. PostAdded(r) /\ ThreadAdded(r)
  BY <1>0, <1>1, InstallPost, InstallThread
<1>3. Atomic!Summarised'
  BY SummariesAgree, PTL
<1>4. /\ p \in DOMAIN post' \ DOMAIN post
      /\ DOMAIN post' = DOMAIN post \cup {p}
      /\ \A q \in DOMAIN post : post'[q] = post[q]
      /\ post'[p].thread = t /\ post'[p].member = tx[r].author
  BY <1>2 DEF PostAdded, OwnPost
<1>5. /\ DOMAIN ThreadSummary' = DOMAIN ThreadSummary \cup {t}
      /\ \A u \in DOMAIN ThreadSummary \ {t} :
           ThreadSummary'[u] = ThreadSummary[u]
      /\ IF t \in DOMAIN ThreadSummary
           THEN ThreadSummary'[t].member = ThreadSummary[t].member
           ELSE ThreadSummary'[t].member = tx[r].author
  <2>1. /\ DOMAIN ThreadSummary = DOMAIN thread
        /\ DOMAIN ThreadSummary' = DOMAIN thread'
    BY DEF ThreadSummary
  <2>2. \A u \in DOMAIN thread : ThreadSummary[u] =
           [member |-> thread[u].member, first |-> thread[u].first,
            posts |-> thread[u].posts, last |-> thread[u].last]
    BY DEF ThreadSummary
  <2>3. \A u \in DOMAIN thread' : ThreadSummary'[u] =
           [member |-> thread'[u].member, first |-> thread'[u].first,
            posts |-> thread'[u].posts, last |-> thread'[u].last]
    BY DEF ThreadSummary
  <2>4. /\ DOMAIN thread' = DOMAIN thread \cup {t}
        /\ \A u \in DOMAIN thread \ {t} : thread'[u] = thread[u]
        /\ t \in DOMAIN thread => thread'[t].member = thread[t].member
        /\ t \notin DOMAIN thread => thread'[t].member = tx[r].author
    BY <1>1, <1>2 DEF ThreadAdded, InsertedThread, Tx
  <2>5. \A u \in DOMAIN ThreadSummary \ {t} :
          ThreadSummary'[u] = ThreadSummary[u]
    BY <2>1, <2>2, <2>3, <2>4
  <2>6. /\ t \in DOMAIN thread =>
             ThreadSummary'[t].member = ThreadSummary[t].member
        /\ t \notin DOMAIN thread => ThreadSummary'[t].member = tx[r].author
    <3>1. \A u \in DOMAIN thread : ThreadSummary[u].member = thread[u].member
      BY DEF ThreadSummary
    <3>2. \A u \in DOMAIN thread' :
            ThreadSummary'[u].member = thread'[u].member
      BY DEF ThreadSummary
    <3>3. t \in DOMAIN thread'
      BY <2>4
    <3> QED BY <2>4, <3>1, <3>2, <3>3
  <2> QED BY <2>1, <2>4, <2>5, <2>6
<1>6. Atomic!Publish(p)
  <2> HIDE DEF p, t
  <2> QED BY <1>3, <1>4, <1>5 DEF Atomic!Publish
<1> QED BY <1>4, <1>6 DEF Atomic!Next

(* Every step of a transaction is a step of the atomic board, or none.     *)
LEMMA StepMaps ==
  SummaryInv /\ SummaryInv' /\ [Next]_vars => [Atomic!Next]_(Atomic!vars)
<1> SUFFICES ASSUME SummaryInv, SummaryInv', [Next]_vars
             PROVE  [Atomic!Next]_(Atomic!vars)
  OBVIOUS
<1>1. UNCHANGED tables => UNCHANGED Atomic!vars
  BY DEF tables, Atomic!vars, MemberSummary, ThreadSummary
<1>2. CASE UNCHANGED vars
  BY <1>1, <1>2 DEF vars, tables
<1>3. ASSUME NEW r \in Request, Quiet(r)
      PROVE  UNCHANGED Atomic!vars
  BY <1>1, <1>3 DEF Quiet
<1>4. ASSUME NEW r \in Request, Commits(r)
      PROVE  Atomic!Next
  BY <1>4, CommitPublishes
<1> QED BY <1>2, <1>3, <1>4, StepKinds DEF SummaryInv, IInv

(* To every reader of the committed tables posting is atomic: whatever     *)
(* transactions overlap, fail or lose their answer, a post appears in one  *)
(* step with everything the board says about it.                           *)
THEOREM AtomicPosting == Spec => PostingIsAtomic
<1>1. Spec => []SummaryInv
  BY SummaryInductive
<1>2. Init => Atomic!Init
  BY InitMaps
<1>3. SummaryInv /\ SummaryInv' /\ [Next]_vars => [Atomic!Next]_(Atomic!vars)
  BY StepMaps
<1> QED BY <1>1, <1>2, <1>3, PTL DEF Spec, PostingIsAtomic, Atomic!Spec

=============================================================================
