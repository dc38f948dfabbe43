------------------------------- MODULE Board -------------------------------
(***************************************************************************)
(* Posting to the board: the two handlers that write posts, CreateThread   *)
(* and CreateThreadPost (handlers.go), down to the statements of the       *)
(* triggers thread_sync and thread_post_sync (sqlc/schema.sql).            *)
(*                                                                         *)
(* A request is one database transaction.  CreateThread opens one          *)
(* explicitly; a reply is a single INSERT, hence an implicit transaction   *)
(* around the same trigger.  PostgreSQL runs both at READ COMMITTED: each  *)
(* statement reads the latest committed rows and the transaction's own,    *)
(* a row that is updated stays locked until the transaction ends, and      *)
(* nothing is visible to others before COMMIT.  The committed tables are   *)
(* the variables board .. view; what a transaction has written so far is   *)
(* its private record in tx.                                               *)
(***************************************************************************)
EXTENDS Integers, FiniteSets

CONSTANTS Member,    \* members already signed in
          Request,   \* posting requests, each served once
          MaxConns   \* connections of the database pool

ASSUME BoardAssumption == MaxConns \in Nat \ {0}

VARIABLES
  board,      \* board_data: totals of threads and posts
  member,     \* member: totals of each member, date of the last post
  thread,     \* thread: id -> row
  post,       \* thread_post: id -> row
  view,       \* thread_member: the rows, a set by its unique index
  threadSeq,  \* last value of thread_id_seq
  postSeq,    \* last value of thread_post_id_seq
  clock,      \* the server's clock, as far as transactions have read it
  pc,         \* the statement each request is about to run
  tx,         \* each request's transaction
  held        \* row locks each transaction holds

tables == <<board, member, thread, post, view>>
vars == <<board, member, thread, post, view, threadSeq, postSeq, clock,
          pc, tx, held>>

-----------------------------------------------------------------------------
(* Rows.  NoId is an id no sequence hands out, and stands for NULL.        *)
NoId == 0

BoardRow  == [threads : Nat, posts : Nat]
MemberRow == [threads : Nat, posts : Nat, lastPost : Nat]
ThreadRow == [member : Member, first : Nat, posts : Nat, last : Member,
              dateLast : Nat]
PostRow   == [thread : Nat, member : Member, date : Nat]
ViewRow   == [member : Member, thread : Nat, posts : Nat]

Working  == {"insertThread", "threadMember", "threadBoard", "currval",
             "insertPost", "postMember", "postBoard", "snapshot",
             "postThread", "checkView", "commit"}
Answered == {"ok", "error"}

NoTx == [op |-> "none"]
Tx == [op : {"thread", "reply"}, author : Member, now : Nat, target : Nat,
       newThread : Nat, newPost : Nat, board : BoardRow, member : MemberRow,
       thread : ThreadRow, snap : SUBSET Nat, seen : BOOLEAN]

NewTx(op, m, t, now) ==
  [op |-> op, author |-> m, now |-> now, target |-> t,
   newThread |-> NoId, newPost |-> NoId,
   board |-> [threads |-> 0, posts |-> 0],
   member |-> [threads |-> 0, posts |-> 0, lastPost |-> 0],
   thread |-> [member |-> m, first |-> NoId, posts |-> 0, last |-> m,
               dateLast |-> now],
   snap |-> {}, seen |-> FALSE]

BoardLock     == <<"board", 0>>
MemberLock(m) == <<"member", m>>
ThreadLock(t) == <<"thread", t>>
Locks == ({"board"} \X {0}) \cup ({"member"} \X Member)
                            \cup ({"thread"} \X Nat)

-----------------------------------------------------------------------------
Init ==
  /\ board = [threads |-> 0, posts |-> 0]
  /\ member = [m \in Member |-> [threads |-> 0, posts |-> 0, lastPost |-> 0]]
  /\ thread = [t \in {} |-> NoId]
  /\ post = [p \in {} |-> NoId]
  /\ view = {}
  /\ threadSeq = 0
  /\ postSeq = 0
  /\ clock = 1
  /\ pc = [r \in Request |-> "idle"]
  /\ tx = [r \in Request |-> NoTx]
  /\ held = [r \in Request |-> {}]

Goto(r, label) == pc' = [pc EXCEPT ![r] = label]

(* An UPDATE waits until no other transaction holds the row and keeps the  *)
(* row to its own end.                                                     *)
Lock(r, row) ==
  /\ \A q \in Request \ {r} : row \notin held[q]
  /\ held' = [held EXCEPT ![r] = @ \cup {row}]

Release(r) == held' = [held EXCEPT ![r] = {}]

(* Variant: the rollback is forgotten, the session keeps its locks.        *)
RollbackForgotten(r) ==
  /\ UNCHANGED held
  /\ tx' = [tx EXCEPT ![r] = NoTx]
  /\ Goto(r, "error")

(* ROLLBACK, or the end of the session: what the transaction still keeps   *)
(* to itself, rows and locks, is gone, and the client gets an error.       *)
Rollback(r) ==
  /\ Release(r)
  /\ tx' = [tx EXCEPT ![r] = NoTx]
  /\ Goto(r, "error")

(* A transaction reads its own version of a row it has already written.    *)
OwnBoard(r) == IF BoardLock \in held[r] THEN tx[r].board ELSE board
OwnMember(r) ==
  IF MemberLock(tx[r].author) \in held[r] THEN tx[r].member
                                          ELSE member[tx[r].author]

InsertedThread(r) ==
  [member |-> tx[r].author, first |-> NoId, posts |-> 0,
   last |-> tx[r].author, dateLast |-> tx[r].now]
OwnThread(r) ==
  IF tx[r].target = tx[r].newThread THEN InsertedThread(r)
                                    ELSE thread[tx[r].target]

-----------------------------------------------------------------------------
(* A request that fails before its transaction opens: an invalid form, or  *)
(* no connection.                                                          *)
Refuse(r) ==
  /\ pc[r] = "idle"
  /\ Goto(r, "error")
  /\ UNCHANGED <<tables, threadSeq, postSeq, clock, tx, held>>

(* A connection is taken from the pool and now() is fixed for the whole    *)
(* transaction.  Transactions that begin close together may read the same  *)
(* time.                                                                   *)
Begin(r, op, m, t, label) ==
  /\ pc[r] = "idle"
  /\ Cardinality({q \in Request : pc[q] \in Working}) < MaxConns
  /\ clock' \in {clock, clock + 1}
  /\ tx' = [tx EXCEPT ![r] = NewTx(op, m, t, clock')]
  /\ Goto(r, label)
  /\ UNCHANGED <<tables, threadSeq, postSeq, held>>

BeginThread(r, m) == Begin(r, "thread", m, NoId, "insertThread")

(* A reply names the thread of the page it was written on, or no thread.   *)
BeginReply(r, m) ==
  \E t \in DOMAIN thread \cup {NoId} : Begin(r, "reply", m, t, "insertPost")

-----------------------------------------------------------------------------
(* Variant: CreateThread without a transaction, its first INSERT commits.  *)
InsertThreadAlone(r) ==
  /\ pc[r] = "insertThread"
  /\ threadSeq' = threadSeq + 1
  /\ tx' = [tx EXCEPT ![r].newThread = threadSeq + 1]
  /\ thread' = [t \in DOMAIN thread \cup {threadSeq + 1} |->
                  IF t = threadSeq + 1 THEN InsertedThread(r) ELSE thread[t]]
  /\ Goto(r, "threadMember")
  /\ UNCHANGED <<board, member, post, view, postSeq, clock, held>>

(* INSERT INTO thread and its trigger thread_sync.                         *)
InsertThread(r) ==
  /\ pc[r] = "insertThread"
  /\ threadSeq' = threadSeq + 1
  /\ tx' = [tx EXCEPT ![r].newThread = threadSeq + 1]
  /\ held' = [held EXCEPT ![r] = @ \cup {ThreadLock(threadSeq + 1)}]
  /\ Goto(r, "threadMember")
  /\ UNCHANGED <<tables, postSeq, clock>>

(* Variant: thread_sync with its DELETE branch taken on INSERT.            *)
CountMemberThreadDown(r) ==
  /\ pc[r] = "threadMember"
  /\ Lock(r, MemberLock(tx[r].author))
  /\ tx' = [tx EXCEPT ![r].member =
              [OwnMember(r) EXCEPT !.threads = @ - 1]]
  /\ Goto(r, "threadBoard")
  /\ UNCHANGED <<tables, threadSeq, postSeq, clock>>

CountMemberThread(r) ==
  /\ pc[r] = "threadMember"
  /\ Lock(r, MemberLock(tx[r].author))
  /\ tx' = [tx EXCEPT ![r].member =
              [OwnMember(r) EXCEPT !.threads = @ + 1]]
  /\ Goto(r, "threadBoard")
  /\ UNCHANGED <<tables, threadSeq, postSeq, clock>>

CountBoardThread(r) ==
  /\ pc[r] = "threadBoard"
  /\ Lock(r, BoardLock)
  /\ tx' = [tx EXCEPT ![r].board =
              [OwnBoard(r) EXCEPT !.threads = @ + 1]]
  /\ Goto(r, "currval")
  /\ UNCHANGED <<tables, threadSeq, postSeq, clock>>

(* Variant: the newest value of the sequence, whoever drew it.             *)
NewestThreadId(r) == threadSeq

(* currval is the value nextval last gave to this session, whatever the    *)
(* other sessions have drawn since.                                        *)
SessionThreadId(r) == tx[r].newThread

GetThreadSequenceId(r) ==
  /\ pc[r] = "currval"
  /\ tx' = [tx EXCEPT ![r].target = SessionThreadId(r)]
  /\ Goto(r, "insertPost")
  /\ UNCHANGED <<tables, threadSeq, postSeq, clock, held>>

-----------------------------------------------------------------------------
(* INSERT INTO thread_post.  The id is drawn before the foreign key is     *)
(* checked, and a sequence never takes a value back.                       *)
TargetExists(r) ==
  \/ tx[r].target \in DOMAIN thread
  \/ tx[r].op = "thread" /\ tx[r].target = tx[r].newThread

InsertPost(r) ==
  /\ pc[r] = "insertPost"
  /\ TargetExists(r)
  /\ postSeq' = postSeq + 1
  /\ tx' = [tx EXCEPT ![r].newPost = postSeq + 1]
  /\ Goto(r, "postMember")
  /\ UNCHANGED <<tables, threadSeq, clock, held>>

InsertPostNoThread(r) ==
  /\ pc[r] = "insertPost"
  /\ ~TargetExists(r)
  /\ postSeq' = postSeq + 1
  /\ Rollback(r)
  /\ UNCHANGED <<tables, threadSeq, clock>>

(* Variant: the member's row as committed, not as this transaction has it. *)
CountMemberPostStale(r) ==
  /\ pc[r] = "postMember"
  /\ Lock(r, MemberLock(tx[r].author))
  /\ tx' = [tx EXCEPT ![r].member =
              [threads |-> member[tx[r].author].threads,
               posts |-> member[tx[r].author].posts + 1,
               lastPost |-> tx[r].now]]
  /\ Goto(r, "postBoard")
  /\ UNCHANGED <<tables, threadSeq, postSeq, clock>>

(* The statements of thread_post_sync, in their order.                     *)
CountMemberPost(r) ==
  /\ pc[r] = "postMember"
  /\ Lock(r, MemberLock(tx[r].author))
  /\ tx' = [tx EXCEPT ![r].member =
              [threads |-> OwnMember(r).threads,
               posts |-> OwnMember(r).posts + 1, lastPost |-> tx[r].now]]
  /\ Goto(r, "postBoard")
  /\ UNCHANGED <<tables, threadSeq, postSeq, clock>>

(* Variant: the total of threads is written back as committed.             *)
CountBoardPostStale(r) ==
  /\ pc[r] = "postBoard"
  /\ Lock(r, BoardLock)
  /\ tx' = [tx EXCEPT ![r].board = [board EXCEPT !.posts = @ + 1]]
  /\ Goto(r, "snapshot")
  /\ UNCHANGED <<tables, threadSeq, postSeq, clock>>

CountBoardPost(r) ==
  /\ pc[r] = "postBoard"
  /\ Lock(r, BoardLock)
  /\ tx' = [tx EXCEPT ![r].board = [OwnBoard(r) EXCEPT !.posts = @ + 1]]
  /\ Goto(r, "snapshot")
  /\ UNCHANGED <<tables, threadSeq, postSeq, clock>>

(* UPDATE thread: the statement takes its snapshot, then waits for the     *)
(* row.  Its subqueries keep reading that snapshot; posts = posts + 1      *)
(* reads the row as it is once locked.                                     *)
TakeSnapshot(r) ==
  /\ pc[r] = "snapshot"
  /\ tx' = [tx EXCEPT ![r].snap = DOMAIN post]
  /\ Goto(r, "postThread")
  /\ UNCHANGED <<tables, threadSeq, postSeq, clock, held>>

OwnPost(r) == [thread |-> tx[r].target, member |-> tx[r].author,
               date |-> tx[r].now]
PostSeen(r, p) == IF p = tx[r].newPost THEN OwnPost(r) ELSE post[p]
ThreadSeen(r) == {p \in tx[r].snap \cup {tx[r].newPost} :
                    PostSeen(r, p).thread = tx[r].target}
(* Variants: first_post_id ordered DESC; last_member_id := NEW.member_id.  *)
EarliestDesc(r) == {p \in ThreadSeen(r) : \A q \in ThreadSeen(r) :
                      PostSeen(r, q).date <= PostSeen(r, p).date}
LatestIsOwn(r) == {tx[r].newPost}

Earliest(r) == {p \in ThreadSeen(r) : \A q \in ThreadSeen(r) :
                  PostSeen(r, p).date <= PostSeen(r, q).date}
Latest(r) == {p \in ThreadSeen(r) : \A q \in ThreadSeen(r) :
                PostSeen(r, q).date <= PostSeen(r, p).date}

(* Variant: the UPDATE is no part of the transaction and commits alone.    *)
UpdateThreadAlone(r) ==
  /\ pc[r] = "postThread"
  /\ Lock(r, ThreadLock(tx[r].target))
  /\ \E e \in Earliest(r), l \in Latest(r) :
       tx' = [tx EXCEPT ![r].thread =
                [member |-> OwnThread(r).member, first |-> e,
                 posts |-> OwnThread(r).posts + 1,
                 last |-> PostSeen(r, l).member, dateLast |-> tx[r].now]]
  /\ thread' = [t \in DOMAIN thread |->
                  IF t = tx[r].target THEN tx'[r].thread ELSE thread[t]]
  /\ Goto(r, "checkView")
  /\ UNCHANGED <<board, member, post, view, threadSeq, postSeq, clock>>

(* ORDER BY date_posted LIMIT 1 returns any one of several equal dates.    *)
UpdateThread(r) ==
  /\ pc[r] = "postThread"
  /\ Lock(r, ThreadLock(tx[r].target))
  /\ \E e \in Earliest(r), l \in Latest(r) :
       tx' = [tx EXCEPT ![r].thread =
                [member |-> OwnThread(r).member, first |-> e,
                 posts |-> OwnThread(r).posts + 1,
                 last |-> PostSeen(r, l).member, dateLast |-> tx[r].now]]
  /\ Goto(r, "checkView")
  /\ UNCHANGED <<tables, threadSeq, postSeq, clock>>

(* IF NOT EXISTS (SELECT 1 FROM thread_member ...)                         *)
ViewsOf(r) == {v \in view : v.member = tx[r].author /\ v.thread = tx[r].target}

(* Variant: the row is inserted without looking for one.                   *)
CheckViewNever(r) ==
  /\ pc[r] = "checkView"
  /\ tx' = [tx EXCEPT ![r].seen = FALSE]
  /\ Goto(r, "commit")
  /\ UNCHANGED <<tables, threadSeq, postSeq, clock, held>>

CheckView(r) ==
  /\ pc[r] = "checkView"
  /\ tx' = [tx EXCEPT ![r].seen = (ViewsOf(r) # {})]
  /\ Goto(r, "commit")
  /\ UNCHANGED <<tables, threadSeq, postSeq, clock, held>>

-----------------------------------------------------------------------------
(* COMMIT makes every row version the transaction wrote the committed one. *)
Put(f, x, row) == [y \in DOMAIN f \cup {x} |-> IF y = x THEN row ELSE f[y]]

ThreadsWritten(r) ==
  IF tx[r].op = "thread" THEN Put(thread, tx[r].newThread, InsertedThread(r))
                         ELSE thread

NewView(r) == [member |-> tx[r].author, thread |-> tx[r].target,
               posts |-> tx[r].thread.posts]

Install(r) ==
  /\ pc[r] = "commit"
  /\ board' = tx[r].board
  /\ member' = [member EXCEPT ![tx[r].author] = tx[r].member]
  /\ thread' = Put(ThreadsWritten(r), tx[r].target, tx[r].thread)
  /\ post' = Put(post, tx[r].newPost, OwnPost(r))
  /\ view' = (IF tx[r].seen THEN view \ ViewsOf(r) ELSE view) \cup {NewView(r)}
  /\ clock' = clock + 1
  /\ UNCHANGED <<threadSeq, postSeq>>

Commit(r) ==
  /\ Install(r)
  /\ Release(r)
  /\ Goto(r, "ok")
  /\ UNCHANGED tx

(* The server commits and the connection breaks before the client hears.   *)
CommitUnheard(r) == Install(r) /\ Rollback(r)

(* Any statement may fail (a broken connection, a request whose client has *)
(* gone and cancelled its context); the deferred Rollback, or the end of   *)
(* the session, drops the transaction's rows and its locks.                *)
Fail(r) ==
  /\ pc[r] \in Working
  /\ Rollback(r)
  /\ UNCHANGED <<tables, threadSeq, postSeq, clock>>

Step(r) ==
  \/ InsertThread(r) \/ CountMemberThread(r) \/ CountBoardThread(r)
  \/ GetThreadSequenceId(r)
  \/ InsertPost(r) \/ InsertPostNoThread(r)
  \/ CountMemberPost(r) \/ CountBoardPost(r)
  \/ TakeSnapshot(r) \/ UpdateThread(r) \/ CheckView(r)
  \/ Commit(r)

Next ==
  \E r \in Request :
    \/ Refuse(r)
    \/ \E m \in Member : BeginThread(r, m) \/ BeginReply(r, m)
    \/ Step(r)
    \/ CommitUnheard(r)
    \/ Fail(r)

Spec == Init /\ [][Next]_vars

(* A handler that has begun keeps running and the database keeps executing *)
(* its statements; nothing obliges a client to send a request or a         *)
(* statement to fail.                                                      *)
FairSpec == Spec /\ \A r \in Request : WF_vars(Step(r))

-----------------------------------------------------------------------------
(* Every variable has its type, and a request past "idle" has begun its    *)
(* transaction unless it was refused.                                      *)
TypeOK ==
  /\ board \in BoardRow
  /\ member \in [Member -> MemberRow]
  /\ DOMAIN thread \subseteq Nat /\ thread \in [DOMAIN thread -> ThreadRow]
  /\ DOMAIN post \subseteq Nat /\ post \in [DOMAIN post -> PostRow]
  /\ \A v \in view : v \in ViewRow
  /\ threadSeq \in Nat /\ postSeq \in Nat /\ clock \in Nat
  /\ pc \in [Request -> {"idle"} \cup Working \cup Answered]
  /\ tx \in [Request -> Tx \cup {NoTx}]
  /\ \A r \in Request : pc[r] \in Working => tx[r] \in Tx
  /\ held \in [Request -> SUBSET Locks]

ThreadPosts(t) == {p \in DOMAIN post : post[p].thread = t}
ThreadsBy(m) == {t \in DOMAIN thread : thread[t].member = m}
PostsBy(m) == {p \in DOMAIN post : post[p].member = m}

(* The totals the triggers keep by adding one are the numbers of rows in   *)
(* the tables, whatever transactions overlap, fail or lose their answer:   *)
(* no increment of thread_sync or thread_post_sync is lost or applied for  *)
(* a transaction that is rolled back.                                      *)
BoardTotals ==
  /\ board.threads = Cardinality(DOMAIN thread)
  /\ board.posts = Cardinality(DOMAIN post)
MemberTotals ==
  \A m \in Member : /\ member[m].threads = Cardinality(ThreadsBy(m))
                    /\ member[m].posts = Cardinality(PostsBy(m))
ThreadTotals ==
  \A t \in DOMAIN thread : thread[t].posts = Cardinality(ThreadPosts(t))

(* No reader ever finds a thread without its opening post: first_post_id   *)
(* is a post of that thread, written by the thread's own author, and none  *)
(* of the thread's posts is older.  CreateThread needs one transaction and *)
(* its own session's currval for this.                                     *)
OpeningPost ==
  \A t \in DOMAIN thread :
    /\ thread[t].first \in ThreadPosts(t)
    /\ post[thread[t].first].member = thread[t].member
    /\ \A p \in ThreadPosts(t) : post[thread[t].first].date <= post[p].date

(* last_member_id names the author of a newest post of the thread, though  *)
(* replies may commit in another order than they began: the snapshot its   *)
(* subquery reads is taken when no other post can be on its way.           *)
LastPoster ==
  \A t \in DOMAIN thread : \E p \in ThreadPosts(t) :
    /\ post[p].member = thread[t].last
    /\ \A q \in ThreadPosts(t) : post[q].date <= post[p].date

(* thread_member has one row for each member who posted in a thread, and   *)
(* for nobody else, although its unique index also covers last_view_posts  *)
(* and so would let two rows of one member and thread in.  The row counts  *)
(* no more posts than the thread has.                                      *)
OneViewPerPoster ==
  /\ \A v, w \in view : v.member = w.member /\ v.thread = w.thread => v = w
  /\ {<<v.member, v.thread>> : v \in view} =
       {<<post[p].member, post[p].thread>> : p \in DOMAIN post}
  /\ \A v \in view : v.posts <= Cardinality(ThreadPosts(v.thread))

(* A redirect is sent only for a post that is stored, with the sender as   *)
(* its author, in the thread the redirect names; for CreateThread that is  *)
(* the thread it created, opened by this very post.                        *)
AnsweredIsStored ==
  \A r \in Request : pc[r] = "ok" =>
    /\ tx[r].newPost \in ThreadPosts(tx[r].target)
    /\ post[tx[r].newPost].member = tx[r].author
    /\ tx[r].op = "thread" =>
         /\ tx[r].target = tx[r].newThread
         /\ thread[tx[r].newThread].first = tx[r].newPost

(* last_member_id and date_last_posted tell who posted last in the thread  *)
(* and when: some newest post has that author and that date.               *)
LastPostDated ==
  \A t \in DOMAIN thread : \E p \in ThreadPosts(t) :
    /\ post[p].member = thread[t].last
    /\ post[p].date = thread[t].dateLast
    /\ \A q \in ThreadPosts(t) : post[q].date <= post[p].date

(* Every request that began is answered: row locks and pool connections    *)
(* are never waited for in a circle, and none is kept by a transaction     *)
(* that is over.                                                           *)
EveryRequestAnswered ==
  \A r \in Request : pc[r] \in Working ~> pc[r] \in Answered

=============================================================================
