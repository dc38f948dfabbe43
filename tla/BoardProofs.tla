----------------------------- MODULE BoardProofs -----------------------------
(***************************************************************************)
(* Proofs about Board, for any members, requests and pool size.            *)
(***************************************************************************)
EXTENDS BoardInduction, FiniteSetTheorems, TLAPS

-----------------------------------------------------------------------------
(* Types, and what a request's transaction has at each of its statements.  *)

(* The empty board has its types, and no transaction is under way.         *)
LEMMA TypeInit == Init => TypeOK /\ PhaseInv
  BY DEF Init, TypeOK, PhaseInv, BoardRow, MemberRow, NoTx, Working, HasPost,
         NoId

(* A statement that only writes its transaction's own record.              *)
LEMMA StatementTyped ==
  ASSUME TypeOK, NEW r \in Request, NEW label \in Working, Goto(r, label),
         tx' = [tx EXCEPT ![r] = tx'[r]], tx'[r] \in Tx,
         held' \in [Request -> SUBSET Locks], UNCHANGED tables,
         threadSeq' \in Nat, postSeq' \in Nat, clock' \in Nat
  PROVE  TypeOK'
<1>1. /\ tx' \in [Request -> Tx \cup {NoTx}]
      /\ \A q \in Request : pc'[q] \in Working => tx'[q] \in Tx
  BY DEF TypeOK, Goto
<1>2. pc' \in [Request -> {"idle"} \cup Working \cup Answered]
  BY DEF TypeOK, Goto
<1> QED BY <1>1, <1>2 DEF TypeOK, tables

(* The transaction of a request that runs a statement is a full record.    *)
LEMMA Running ==
  ASSUME TypeOK, NEW r \in Request,
         Step(r) \/ CommitUnheard(r) \/ Fail(r)
  PROVE  pc[r] \in Working /\ tx[r] \in Tx
  BY DEF TypeOK, Working, Step, Fail, CommitUnheard, Install, InsertThread,
         CountMemberThread, CountBoardThread, GetThreadSequenceId, InsertPost,
         InsertPostNoThread, CountMemberPost, CountBoardPost, TakeSnapshot,
         UpdateThread, CheckView, Commit

(* Each statement keeps the types.  CreateThread takes a thread id.        *)
LEMMA InsertThreadTyped ==
  ASSUME TypeOK, PhaseInv, NEW r \in Request, InsertThread(r)
  PROVE  TypeOK'
<1> DEFINE new == tx'[r].newThread
<1>0. tx[r] \in Tx
  BY Running DEF Step
<1>1. tx' = [tx EXCEPT ![r].newThread = new] /\ new \in Nat
  BY <1>0 DEF TypeOK, Tx, InsertThread, ThreadLock
<1>2. [tx[r] EXCEPT !.newThread = new] \in Tx
  BY <1>0, <1>1 DEF Tx
<1> HIDE DEF new
<1>3. tx' = [tx EXCEPT ![r] = tx'[r]] /\ tx'[r] \in Tx
  BY <1>1, <1>2 DEF TypeOK
<1>4. held' \in [Request -> SUBSET Locks]
  BY <1>0 DEF TypeOK, Locks, Tx, InsertThread, ThreadLock
<1>5. threadSeq' \in Nat /\ postSeq' \in Nat /\ clock' \in Nat
  BY DEF TypeOK, InsertThread
<1> QED BY <1>3, <1>4, <1>5, StatementTyped DEF InsertThread, Working

(* thread_sync writes a member row.                                        *)
LEMMA CountMemberThreadTyped ==
  ASSUME TypeOK, PhaseInv, NEW r \in Request, CountMemberThread(r)
  PROVE  TypeOK'
<1> DEFINE new == tx'[r].member
<1>0. tx[r] \in Tx
  BY Running DEF Step
<1>1. tx' = [tx EXCEPT ![r].member = new] /\ new \in MemberRow
  BY <1>0
     DEF TypeOK, Tx, CountMemberThread, Lock, MemberLock, OwnMember, MemberRow
<1>2. [tx[r] EXCEPT !.member = new] \in Tx
  BY <1>0, <1>1 DEF Tx
<1> HIDE DEF new
<1>3. tx' = [tx EXCEPT ![r] = tx'[r]] /\ tx'[r] \in Tx
  BY <1>1, <1>2 DEF TypeOK
<1>4. held' \in [Request -> SUBSET Locks]
  BY <1>0 DEF TypeOK, Locks, Tx, CountMemberThread, Lock, MemberLock, OwnMember
<1>5. threadSeq' \in Nat /\ postSeq' \in Nat /\ clock' \in Nat
  BY DEF TypeOK, CountMemberThread
<1> QED BY <1>3, <1>4, <1>5, StatementTyped DEF CountMemberThread, Working

(* thread_sync writes the board row.                                       *)
LEMMA CountBoardThreadTyped ==
  ASSUME TypeOK, PhaseInv, NEW r \in Request, CountBoardThread(r)
  PROVE  TypeOK'
<1> DEFINE new == tx'[r].board
<1>0. tx[r] \in Tx
  BY Running DEF Step
<1>1. tx' = [tx EXCEPT ![r].board = new] /\ new \in BoardRow
  BY <1>0 DEF TypeOK, Tx, CountBoardThread, Lock, BoardLock, OwnBoard, BoardRow
<1>2. [tx[r] EXCEPT !.board = new] \in Tx
  BY <1>0, <1>1 DEF Tx
<1> HIDE DEF new
<1>3. tx' = [tx EXCEPT ![r] = tx'[r]] /\ tx'[r] \in Tx
  BY <1>1, <1>2 DEF TypeOK
<1>4. held' \in [Request -> SUBSET Locks]
  BY <1>0 DEF TypeOK, Locks, Tx, CountBoardThread, Lock, BoardLock, OwnBoard
<1>5. threadSeq' \in Nat /\ postSeq' \in Nat /\ clock' \in Nat
  BY DEF TypeOK, CountBoardThread
<1> QED BY <1>3, <1>4, <1>5, StatementTyped DEF CountBoardThread, Working

(* GetThreadSequenceId names a thread id of the session.                   *)
LEMMA GetThreadSequenceIdTyped ==
  ASSUME TypeOK, PhaseInv, NEW r \in Request, GetThreadSequenceId(r)
  PROVE  TypeOK'
<1> DEFINE new == tx'[r].target
<1>0. tx[r] \in Tx
  BY Running DEF Step
<1>1. tx' = [tx EXCEPT ![r].target = new] /\ new \in Nat
  BY <1>0 DEF TypeOK, Tx, GetThreadSequenceId, SessionThreadId
<1>2. [tx[r] EXCEPT !.target = new] \in Tx
  BY <1>0, <1>1 DEF Tx
<1> HIDE DEF new
<1>3. tx' = [tx EXCEPT ![r] = tx'[r]] /\ tx'[r] \in Tx
  BY <1>1, <1>2 DEF TypeOK
<1>4. held' \in [Request -> SUBSET Locks]
  BY <1>0 DEF TypeOK, Locks, Tx, GetThreadSequenceId, SessionThreadId
<1>5. threadSeq' \in Nat /\ postSeq' \in Nat /\ clock' \in Nat
  BY DEF TypeOK, GetThreadSequenceId
<1> QED BY <1>3, <1>4, <1>5, StatementTyped DEF GetThreadSequenceId, Working

(* CreateThreadPost takes a post id and dates the post.                    *)
LEMMA InsertPostTyped ==
  ASSUME TypeOK, PhaseInv, NEW r \in Request, InsertPost(r)
  PROVE  TypeOK'
<1> DEFINE new == tx'[r].newPost
<1>0. tx[r] \in Tx
  BY Running DEF Step
<1>1. tx' = [tx EXCEPT ![r].newPost = new] /\ new \in Nat
  BY <1>0 DEF TypeOK, Tx, InsertPost
<1>2. [tx[r] EXCEPT !.newPost = new] \in Tx
  BY <1>0, <1>1 DEF Tx
<1> HIDE DEF new
<1>3. tx' = [tx EXCEPT ![r] = tx'[r]] /\ tx'[r] \in Tx
  BY <1>1, <1>2 DEF TypeOK
<1>4. held' \in [Request -> SUBSET Locks]
  BY <1>0 DEF TypeOK, Locks, Tx, InsertPost
<1>5. threadSeq' \in Nat /\ postSeq' \in Nat /\ clock' \in Nat
  BY DEF TypeOK, InsertPost
<1> QED BY <1>3, <1>4, <1>5, StatementTyped DEF InsertPost, Working

(* thread_post_sync writes the member row as this transaction sees it.     *)
LEMMA CountMemberPostTyped ==
  ASSUME TypeOK, PhaseInv, NEW r \in Request, CountMemberPost(r)
  PROVE  TypeOK'
<1> DEFINE new == tx'[r].member
<1>0. tx[r] \in Tx
  BY Running DEF Step
<1>own. OwnMember(r) \in MemberRow /\ tx[r].now \in Nat
  BY <1>0 DEF OwnMember, TypeOK, Tx
<1>counted. [threads |-> OwnMember(r).threads, posts |-> OwnMember(r).posts + 1,
       lastPost |-> tx[r].now] \in MemberRow
  BY <1>own DEF MemberRow
<1>1. tx' = [tx EXCEPT ![r].member = new] /\ new \in MemberRow
  BY <1>0, <1>counted DEF TypeOK, Tx, CountMemberPost
<1>2. [tx[r] EXCEPT !.member = new] \in Tx
  BY <1>0, <1>1 DEF Tx
<1> HIDE DEF new
<1>3. tx' = [tx EXCEPT ![r] = tx'[r]] /\ tx'[r] \in Tx
  BY <1>1, <1>2 DEF TypeOK
<1>4. held' \in [Request -> SUBSET Locks]
  BY <1>0 DEF TypeOK, Locks, Tx, CountMemberPost, Lock, MemberLock, OwnMember
<1>5. threadSeq' \in Nat /\ postSeq' \in Nat /\ clock' \in Nat
  BY DEF TypeOK, CountMemberPost
<1> QED BY <1>3, <1>4, <1>5, StatementTyped DEF CountMemberPost, Working

(* thread_post_sync writes the board row as this transaction sees it.      *)
LEMMA CountBoardPostTyped ==
  ASSUME TypeOK, PhaseInv, NEW r \in Request, CountBoardPost(r)
  PROVE  TypeOK'
<1> DEFINE new == tx'[r].board
<1>0. tx[r] \in Tx
  BY Running DEF Step
<1>1. tx' = [tx EXCEPT ![r].board = new] /\ new \in BoardRow
  BY <1>0 DEF TypeOK, Tx, CountBoardPost, Lock, BoardLock, OwnBoard, BoardRow
<1>2. [tx[r] EXCEPT !.board = new] \in Tx
  BY <1>0, <1>1 DEF Tx
<1> HIDE DEF new
<1>3. tx' = [tx EXCEPT ![r] = tx'[r]] /\ tx'[r] \in Tx
  BY <1>1, <1>2 DEF TypeOK
<1>4. held' \in [Request -> SUBSET Locks]
  BY <1>0 DEF TypeOK, Locks, Tx, CountBoardPost, Lock, BoardLock, OwnBoard
<1>5. threadSeq' \in Nat /\ postSeq' \in Nat /\ clock' \in Nat
  BY DEF TypeOK, CountBoardPost
<1> QED BY <1>3, <1>4, <1>5, StatementTyped DEF CountBoardPost, Working

(* A snapshot is a set of committed posts.                                 *)
LEMMA TakeSnapshotTyped ==
  ASSUME TypeOK, PhaseInv, NEW r \in Request, TakeSnapshot(r)
  PROVE  TypeOK'
<1> DEFINE new == tx'[r].snap
<1>0. tx[r] \in Tx
  BY Running DEF Step
<1>1. tx' = [tx EXCEPT ![r].snap = new] /\ new \in SUBSET Nat
  BY <1>0 DEF TypeOK, Tx, TakeSnapshot
<1>2. [tx[r] EXCEPT !.snap = new] \in Tx
  BY <1>0, <1>1 DEF Tx
<1> HIDE DEF new
<1>3. tx' = [tx EXCEPT ![r] = tx'[r]] /\ tx'[r] \in Tx
  BY <1>1, <1>2 DEF TypeOK
<1>4. held' \in [Request -> SUBSET Locks]
  BY <1>0 DEF TypeOK, Locks, Tx, TakeSnapshot
<1>5. threadSeq' \in Nat /\ postSeq' \in Nat /\ clock' \in Nat
  BY DEF TypeOK, TakeSnapshot
<1> QED BY <1>3, <1>4, <1>5, StatementTyped DEF TakeSnapshot, Working

(* The subqueries of thread_post_sync find a post, so the row is typed.    *)
LEMMA UpdateThreadTyped ==
  ASSUME TypeOK, PhaseInv, NEW r \in Request, UpdateThread(r)
  PROVE  TypeOK'
<1> DEFINE new == tx'[r].thread
<1>0. tx[r] \in Tx
  BY Running DEF Step
<1>row. OwnThread(r) \in ThreadRow
  BY <1>0
     DEF OwnThread, InsertedThread, TypeOK, PhaseInv, UpdateThread, HasPost,
              TargetExists, Tx, ThreadRow, NoId
<1>seen. \A p \in ThreadSeen(r) : p \in Nat /\ PostSeen(r, p).member \in Member
  BY <1>0
     DEF ThreadSeen, PostSeen, OwnPost, TypeOK, PhaseInv, UpdateThread, Tx,
              PostRow
<1>ends. PICK e \in Earliest(r), l \in Latest(r) :
        tx' = [tx EXCEPT ![r].thread =
                 [member |-> OwnThread(r).member, first |-> e,
                  posts |-> OwnThread(r).posts + 1,
                  last |-> PostSeen(r, l).member, dateLast |-> tx[r].now]]
  BY DEF UpdateThread
<1>typed. /\ e \in Nat /\ PostSeen(r, l).member \in Member
      /\ tx[r].now \in Nat
  BY <1>0, <1>seen DEF Earliest, Latest, Tx
<1>written. [member |-> OwnThread(r).member, first |-> e,
       posts |-> OwnThread(r).posts + 1,
       last |-> PostSeen(r, l).member, dateLast |-> tx[r].now] \in ThreadRow
  BY <1>row, <1>typed DEF ThreadRow
<1>1. tx' = [tx EXCEPT ![r].thread = new] /\ new \in ThreadRow
  BY <1>0, <1>ends, <1>written DEF TypeOK, Tx
<1>2. [tx[r] EXCEPT !.thread = new] \in Tx
  BY <1>0, <1>1 DEF Tx
<1> HIDE DEF new
<1>3. tx' = [tx EXCEPT ![r] = tx'[r]] /\ tx'[r] \in Tx
  BY <1>1, <1>2 DEF TypeOK
<1>4. held' \in [Request -> SUBSET Locks]
  BY <1>0 DEF TypeOK, Locks, Tx, UpdateThread, Lock, ThreadLock, OwnThread,
         InsertedThread, OwnPost, PostSeen, Latest, Earliest, ThreadSeen
<1>5. threadSeq' \in Nat /\ postSeq' \in Nat /\ clock' \in Nat
  BY DEF TypeOK, UpdateThread
<1> QED BY <1>3, <1>4, <1>5, StatementTyped DEF UpdateThread, Working

(* A new thread_member row, or none.                                       *)
LEMMA CheckViewTyped ==
  ASSUME TypeOK, PhaseInv, NEW r \in Request, CheckView(r)
  PROVE  TypeOK'
<1> DEFINE new == tx'[r].seen
<1>0. tx[r] \in Tx
  BY Running DEF Step
<1>1. tx' = [tx EXCEPT ![r].seen = new] /\ new \in BOOLEAN
  BY <1>0 DEF TypeOK, Tx, CheckView
<1>2. [tx[r] EXCEPT !.seen = new] \in Tx
  BY <1>0, <1>1 DEF Tx
<1> HIDE DEF new
<1>3. tx' = [tx EXCEPT ![r] = tx'[r]] /\ tx'[r] \in Tx
  BY <1>1, <1>2 DEF TypeOK
<1>4. held' \in [Request -> SUBSET Locks]
  BY <1>0 DEF TypeOK, Locks, Tx, CheckView
<1>5. threadSeq' \in Nat /\ postSeq' \in Nat /\ clock' \in Nat
  BY DEF TypeOK, CheckView
<1> QED BY <1>3, <1>4, <1>5, StatementTyped DEF CheckView, Working

(* A request that is over: rolled back or committed.                       *)
LEMMA RollbackTyped ==
  ASSUME TypeOK, NEW r \in Request, Rollback(r)
  PROVE  /\ pc' \in [Request -> {"idle"} \cup Working \cup Answered]
         /\ tx' \in [Request -> Tx \cup {NoTx}]
         /\ \A q \in Request : pc'[q] \in Working => tx'[q] \in Tx
         /\ held' \in [Request -> SUBSET Locks]
<1>1. pc' \in [Request -> {"idle"} \cup Working \cup Answered]
  BY DEF TypeOK, Rollback, Goto, Answered
<1>2. /\ tx' \in [Request -> Tx \cup {NoTx}]
      /\ \A q \in Request : pc'[q] \in Working => tx'[q] \in Tx
  BY DEF TypeOK, Rollback, Goto, Working
<1>3. held' \in [Request -> SUBSET Locks]
  BY DEF TypeOK, Rollback, Release
<1> QED BY <1>1, <1>2, <1>3

(* A committed transaction leaves typed tables.                            *)
LEMMA InstallTyped ==
  ASSUME TypeOK, PhaseInv, NEW r \in Request, Install(r), tx[r] \in Tx
  PROVE  /\ board' \in BoardRow
         /\ member' \in [Member -> MemberRow]
         /\ DOMAIN thread' \subseteq Nat
         /\ thread' \in [DOMAIN thread' -> ThreadRow]
         /\ DOMAIN post' \subseteq Nat /\ post' \in [DOMAIN post' -> PostRow]
         /\ \A v \in view' : v \in ViewRow
         /\ threadSeq' \in Nat /\ postSeq' \in Nat /\ clock' \in Nat
<1>1. board' \in BoardRow /\ member' \in [Member -> MemberRow]
  BY DEF Install, TypeOK, Tx
<1>2. DOMAIN thread' \subseteq Nat /\ thread' \in [DOMAIN thread' -> ThreadRow]
  <2>1. InsertedThread(r) \in ThreadRow
    BY DEF InsertedThread, Tx, ThreadRow, NoId
  <2> QED BY <2>1 DEF Install, ThreadsWritten, Put, TypeOK, Tx
<1>3. DOMAIN post' \subseteq Nat /\ post' \in [DOMAIN post' -> PostRow]
  <2>1. OwnPost(r) \in PostRow
    BY DEF OwnPost, Tx, PostRow
  <2> QED BY <2>1 DEF Install, Put, TypeOK, Tx
<1>4. \A v \in view' : v \in ViewRow
  BY DEF Install, NewView, ViewsOf, TypeOK, Tx, ThreadRow, ViewRow
<1>5. threadSeq' \in Nat /\ postSeq' \in Nat /\ clock' \in Nat
  BY DEF Install, TypeOK
<1> QED BY <1>1, <1>2, <1>3, <1>4, <1>5

(* A new transaction is a full record without rows of its own.             *)
LEMMA BeginTyped ==
  ASSUME TypeOK, NEW r \in Request, NEW m \in Member, NEW t \in Nat,
         NEW op \in {"thread", "reply"}, NEW label \in Working,
         Begin(r, op, m, t, label)
  PROVE  TypeOK'
<1>1. clock' \in Nat /\ NewTx(op, m, t, clock') \in Tx
  BY DEF Begin, TypeOK, NewTx, Tx, BoardRow, MemberRow, ThreadRow, NoId
<1>2. tx' = [tx EXCEPT ![r] = tx'[r]] /\ tx'[r] \in Tx
  BY <1>1 DEF Begin, TypeOK
<1>3. /\ held' \in [Request -> SUBSET Locks]
      /\ threadSeq' \in Nat /\ postSeq' \in Nat
  BY DEF Begin, TypeOK
<1> QED BY <1>1, <1>2, <1>3, StatementTyped DEF Begin

(* Every step keeps the types.                                             *)
LEMMA TypeStep ==
  ASSUME TypeOK, PhaseInv, [Next]_vars
  PROVE  TypeOK'
<1>1. CASE UNCHANGED vars
  BY <1>1 DEF vars, tables, TypeOK
<1>2. CASE Next
  <2> SUFFICES ASSUME NEW r \in Request,
                      \/ Refuse(r)
                      \/ \E m \in Member : BeginThread(r, m) \/ BeginReply(r, m)
                      \/ Step(r)
                      \/ CommitUnheard(r)
                      \/ Fail(r)
               PROVE  TypeOK'
    BY <1>2 DEF Next
  <2>1. CASE Refuse(r)
    <3>1. pc' \in [Request -> {"idle"} \cup Working \cup Answered]
      BY <2>1 DEF Refuse, Goto, TypeOK, Answered
    <3>2. \A q \in Request : pc'[q] \in Working => tx'[q] \in Tx
      BY <2>1 DEF Refuse, Goto, TypeOK, Working
    <3> QED BY <2>1, <3>1, <3>2 DEF Refuse, TypeOK, tables
  <2>2. ASSUME NEW m \in Member, BeginThread(r, m)
        PROVE  TypeOK'
    BY <2>2, BeginTyped DEF BeginThread, NoId, Working
  <2>3. ASSUME NEW m \in Member, BeginReply(r, m)
        PROVE  TypeOK'
    <3>1. PICK t \in DOMAIN thread \cup {NoId} :
                 Begin(r, "reply", m, t, "insertPost")
      BY <2>3 DEF BeginReply
    <3>2. t \in Nat
      BY DEF TypeOK, NoId
    <3> QED BY <3>1, <3>2, BeginTyped DEF Working
  <2>4. CASE InsertPostNoThread(r)
    BY <2>4, RollbackTyped DEF InsertPostNoThread, TypeOK, tables
  <2>5. CASE Fail(r)
    BY <2>5, RollbackTyped DEF Fail, TypeOK, tables
  <2>6. CASE CommitUnheard(r)
    BY <2>6, Running, InstallTyped, RollbackTyped DEF CommitUnheard, TypeOK
  <2>7. CASE Commit(r)
    <3>1. pc' \in [Request -> {"idle"} \cup Working \cup Answered]
      BY <2>7 DEF Commit, Goto, TypeOK, Answered
    <3>2. /\ tx' \in [Request -> Tx \cup {NoTx}]
          /\ \A q \in Request : pc'[q] \in Working => tx'[q] \in Tx
      BY <2>7 DEF Commit, Goto, TypeOK, Working
    <3>3. held' \in [Request -> SUBSET Locks]
      BY <2>7 DEF Commit, Release, TypeOK
    <3>4. tx[r] \in Tx
      BY <2>7, Running DEF Step
    <3> QED BY <2>7, <3>1, <3>2, <3>3, <3>4, InstallTyped DEF Commit, TypeOK
  <2> QED
    BY <2>1, <2>2, <2>3, <2>4, <2>5, <2>6, <2>7, InsertThreadTyped,
       CountMemberThreadTyped, CountBoardThreadTyped,
       GetThreadSequenceIdTyped, InsertPostTyped, CountMemberPostTyped,
       CountBoardPostTyped, TakeSnapshotTyped, UpdateThreadTyped,
       CheckViewTyped
    DEF Step
<1> QED BY <1>1, <1>2

(* Every step keeps what a transaction has at each of its statements.      *)
LEMMA PhaseStep ==
  ASSUME TypeOK, PhaseInv, [Next]_vars
  PROVE  PhaseInv'
<1>1. CASE UNCHANGED vars
  BY <1>1 DEF vars, tables, PhaseInv, TargetExists
<1>2. CASE Next
  <2> SUFFICES ASSUME NEW r \in Request,
                      \/ Refuse(r)
                      \/ \E m \in Member : BeginThread(r, m) \/ BeginReply(r, m)
                      \/ Step(r)
                      \/ CommitUnheard(r)
                      \/ Fail(r)
               PROVE  PhaseInv'
    BY <1>2 DEF Next
  <2> USE DEF PhaseInv, Goto, tables, Working, HasPost, TargetExists
  <2>1. CASE Refuse(r)
    BY <2>1 DEF Refuse, TypeOK
  <2>2. CASE \E m \in Member : BeginThread(r, m) \/ BeginReply(r, m)
    <3>1. PICK label \in {"insertThread", "insertPost"} :
             /\ pc' = [pc EXCEPT ![r] = label]
             /\ tx' = [tx EXCEPT ![r] = tx'[r]]
             /\ tx'[r].newThread = NoId
             /\ tx'[r].op = IF label = "insertThread" THEN "thread" ELSE "reply"
             /\ UNCHANGED tables
      <4>1. CASE \E m \in Member : BeginThread(r, m)
        BY <4>1 DEF BeginThread, Begin, NewTx, TypeOK
      <4>2. CASE \E m \in Member : BeginReply(r, m)
        BY <4>2 DEF BeginReply, Begin, NewTx, TypeOK
      <4> QED BY <2>2, <4>1, <4>2
    <3> QED BY <3>1 DEF TypeOK
  <2>3. CASE InsertThread(r)
    BY <2>3, Running DEF InsertThread, TypeOK, Tx, NoId, Step
  <2>4. CASE CountMemberThread(r)
    BY <2>4, Running DEF CountMemberThread, TypeOK, Tx, NoId, Step
  <2>5. CASE CountBoardThread(r)
    BY <2>5, Running DEF CountBoardThread, TypeOK, Tx, NoId, Step
  <2>6. CASE GetThreadSequenceId(r)
    BY <2>6, Running
       DEF GetThreadSequenceId, SessionThreadId, TypeOK, Tx, NoId, Step
  <2>7. CASE InsertPost(r)
    BY <2>7, Running DEF InsertPost, TypeOK, Tx, NoId, Step
  <2>8. CASE InsertPostNoThread(r)
    BY <2>8, Running DEF InsertPostNoThread, Rollback, TypeOK, Tx, NoId, Step
  <2>9. CASE CountMemberPost(r)
    BY <2>9, Running DEF CountMemberPost, TypeOK, Tx, NoId, Step
  <2>10. CASE CountBoardPost(r)
    BY <2>10, Running DEF CountBoardPost, TypeOK, Tx, NoId, Step
  <2>11. CASE TakeSnapshot(r)
    BY <2>11, Running DEF TakeSnapshot, TypeOK, Tx, NoId, Step
  <2>12. CASE UpdateThread(r)
    BY <2>12, Running DEF UpdateThread, TypeOK, Tx, NoId, Step
  <2>13. CASE CheckView(r)
    BY <2>13, Running DEF CheckView, TypeOK, Tx, NoId, Step
  <2>14. CASE Commit(r)
    BY <2>14, Running
       DEF Commit, Install, Put, ThreadsWritten, TypeOK, Tx, NoId, Step
  <2>15. CASE CommitUnheard(r)
    BY <2>15, Running
       DEF CommitUnheard, Install, Rollback, Put, ThreadsWritten, TypeOK, Tx,
           NoId, Step
  <2>16. CASE Fail(r)
    BY <2>16, Running DEF Fail, Rollback, TypeOK, Tx, NoId, Step
  <2> QED BY <2>1, <2>2, <2>3, <2>4, <2>5, <2>6, <2>7, <2>8, <2>9, <2>10,
             <2>11, <2>12, <2>13, <2>14, <2>15, <2>16 DEF Step
<1> QED BY <1>1, <1>2

-----------------------------------------------------------------------------
(* Ids, locks and drafts.                                                  *)

(* What begins a transaction touches no table.                             *)
LEMMA Beginning ==
  ASSUME TypeOK, NEW r \in Request,
         \E m \in Member : BeginThread(r, m) \/ BeginReply(r, m)
  PROVE  \E label \in {"insertThread", "insertPost"} :
             /\ pc[r] = "idle"
             /\ pc' = [pc EXCEPT ![r] = label]
             /\ tx' = [tx EXCEPT ![r] = tx'[r]]
             /\ tx'[r].op = IF label = "insertThread" THEN "thread" ELSE "reply"
             /\ UNCHANGED <<tables, held, threadSeq, postSeq>>
<1>1. CASE \E m \in Member : BeginThread(r, m)
  BY <1>1 DEF BeginThread, Begin, NewTx, TypeOK, Goto
<1>2. CASE \E m \in Member : BeginReply(r, m)
  BY <1>2 DEF BeginReply, Begin, NewTx, TypeOK, Goto
<1> QED BY <1>1, <1>2

(* Ids are taken once: no table and no draft shares one.                   *)
LEMMA IdInvStep ==
  ASSUME TypeOK, PhaseInv, IdInv, [Next]_vars
  PROVE  IdInv'
<1>1. CASE UNCHANGED vars
  BY <1>1 DEF vars, tables, IdInv, Opens
<1>2. CASE Next
  <2> SUFFICES ASSUME NEW r \in Request,
                      \/ Refuse(r)
                      \/ \E m \in Member : BeginThread(r, m) \/ BeginReply(r, m)
                      \/ Step(r)
                      \/ CommitUnheard(r)
                      \/ Fail(r)
               PROVE  IdInv'
    BY <1>2 DEF Next
  <2> USE DEF IdInv, Opens, Goto, tables, Working, HasPost
  <2>1. CASE Refuse(r)
    BY <2>1 DEF Refuse, TypeOK
  <2>2. CASE \E m \in Member : BeginThread(r, m) \/ BeginReply(r, m)
    <3>1. PICK label \in {"insertThread", "insertPost"} :
             /\ pc[r] = "idle"
             /\ pc' = [pc EXCEPT ![r] = label]
             /\ tx' = [tx EXCEPT ![r] = tx'[r]]
             /\ tx'[r].op = IF label = "insertThread" THEN "thread" ELSE "reply"
             /\ UNCHANGED <<tables, held, threadSeq, postSeq>>
      BY <2>2, Beginning
    <3> QED BY <3>1 DEF TypeOK
  <2>3. CASE InsertThread(r)
    BY <2>3, Running
       DEF InsertThread, TypeOK, PhaseInv, TargetExists, Tx, NoId, Step
  <2>4. CASE CountMemberThread(r)
    BY <2>4, Running
       DEF CountMemberThread, TypeOK, PhaseInv, TargetExists, Tx, NoId, Step
  <2>5. CASE CountBoardThread(r)
    BY <2>5, Running
       DEF CountBoardThread, TypeOK, PhaseInv, TargetExists, Tx, NoId, Step
  <2>6. CASE GetThreadSequenceId(r)
    BY <2>6, Running
       DEF GetThreadSequenceId, SessionThreadId, TypeOK, PhaseInv,
           TargetExists, Tx, NoId, Step
  <2>7. CASE InsertPost(r)
    BY <2>7, Running
       DEF InsertPost, TypeOK, PhaseInv, TargetExists, Tx, NoId, Step
  <2>8. CASE InsertPostNoThread(r)
    BY <2>8, Running
       DEF InsertPostNoThread, Rollback, Release, TypeOK, PhaseInv,
           TargetExists, Tx, NoId, Step
  <2>9. CASE CountMemberPost(r)
    BY <2>9, Running
       DEF CountMemberPost, TypeOK, PhaseInv, TargetExists, Tx, NoId, Step
  <2>10. CASE CountBoardPost(r)
    BY <2>10, Running
       DEF CountBoardPost, TypeOK, PhaseInv, TargetExists, Tx, NoId, Step
  <2>11. CASE TakeSnapshot(r)
    BY <2>11, Running
       DEF TakeSnapshot, TypeOK, PhaseInv, TargetExists, Tx, NoId, Step
  <2>12. CASE UpdateThread(r)
    BY <2>12, Running
       DEF UpdateThread, TypeOK, PhaseInv, TargetExists, Tx, NoId, Step
  <2>13. CASE CheckView(r)
    BY <2>13, Running
       DEF CheckView, TypeOK, PhaseInv, TargetExists, Tx, NoId, Step
  <2>14. CASE Commit(r)
    BY <2>14, Running
       DEF Commit, Install, Put, ThreadsWritten, Release, OwnPost,
           InsertedThread, TypeOK, PhaseInv, TargetExists, Tx, NoId, Step
  <2>15. CASE CommitUnheard(r)
    BY <2>15, Running
       DEF CommitUnheard, Install, Rollback, Put, ThreadsWritten, Release,
           OwnPost, InsertedThread, TypeOK, PhaseInv, TargetExists, Tx, NoId,
           Step
  <2>16. CASE Fail(r)
    BY <2>16, Running
       DEF Fail, Rollback, Release, TypeOK, PhaseInv, TargetExists, Tx, NoId,
           Step
  <2> QED BY <2>1, <2>2, <2>3, <2>4, <2>5, <2>6, <2>7, <2>8, <2>9, <2>10,
             <2>11, <2>12, <2>13, <2>14, <2>15, <2>16 DEF Step
<1> QED BY <1>1, <1>2

(* Different rows have different locks.                                    *)
LEMMA LockNames ==
  /\ \A m \in Member : MemberLock(m) # BoardLock
  /\ \A t : ThreadLock(t) # BoardLock
  /\ \A m \in Member : \A t : MemberLock(m) # ThreadLock(t)
  /\ \A m, n \in Member : MemberLock(m) = MemberLock(n) => m = n
  /\ \A t, u : ThreadLock(t) = ThreadLock(u) => t = u
  BY DEF MemberLock, BoardLock, ThreadLock

(* A request holds the row locks of the updates behind it, and no others.  *)
LEMMA LockInvStep ==
  ASSUME TypeOK, PhaseInv, IdInv, LockInv, [Next]_vars
  PROVE  LockInv'
<1>1. CASE UNCHANGED vars
  BY <1>1 DEF vars, tables, LockInv, HoldsBoard, HoldsMember, PastBoard
<1>2. CASE Next
  <2> SUFFICES ASSUME NEW r \in Request,
                      \/ Refuse(r)
                      \/ \E m \in Member : BeginThread(r, m) \/ BeginReply(r, m)
                      \/ Step(r)
                      \/ CommitUnheard(r)
                      \/ Fail(r)
               PROVE  LockInv'
    BY <1>2 DEF Next
  <2> USE DEF LockInv, HoldsBoard, HoldsMember, PastBoard, Goto, tables,
              Working, HasPost
  <2>1. CASE Refuse(r)
    BY <2>1 DEF Refuse, TypeOK
  <2>2. CASE \E m \in Member : BeginThread(r, m) \/ BeginReply(r, m)
    <3>1. PICK label \in {"insertThread", "insertPost"} :
             /\ pc[r] = "idle"
             /\ pc' = [pc EXCEPT ![r] = label]
             /\ tx' = [tx EXCEPT ![r] = tx'[r]]
             /\ tx'[r].op = IF label = "insertThread" THEN "thread" ELSE "reply"
             /\ UNCHANGED <<tables, held, threadSeq, postSeq>>
      BY <2>2, Beginning
    <3> QED BY <3>1, LockNames DEF TypeOK
  <2>3. CASE InsertThread(r)
    <3>0. tx[r] \in Tx
      BY <2>3, Running DEF Step
    <3>1. /\ pc' = [pc EXCEPT ![r] = "threadMember"]
          /\ pc \in [Request -> {"idle"} \cup Working \cup Answered]
          /\ held \in [Request -> SUBSET Locks]
          /\ threadSeq \in Nat /\ threadSeq' \in {threadSeq, threadSeq + 1}
      BY <2>3 DEF InsertThread, TypeOK
    <3>others. /\ \A q \in Request \ {r} : tx'[q] = tx[q]
          /\ tx'[r].op = tx[r].op /\ tx'[r].author = tx[r].author
          /\ tx'[r].target = tx[r].target
          /\ tx[r].author \in Member
      BY <2>3, <3>0 DEF InsertThread, TypeOK, Tx
    <3>ids. threadSeq' = threadSeq + 1 /\ tx[r].op = "thread"
      BY <2>3 DEF InsertThread, PhaseInv
    <3>2. /\ held' = [held EXCEPT ![r] = @ \cup {ThreadLock(threadSeq + 1)}]
          /\ \A q \in Request \ {r} : ThreadLock(threadSeq + 1) \notin held[q]
      BY <2>3, <3>1, LockNames DEF InsertThread, Lock, LockInv
    <3>3. \A q, u \in Request : q # u => held'[q] \cap held'[u] = {}
      BY <3>1, <3>2 DEF LockInv
    <3>4. ASSUME NEW q \in Request
          PROVE  /\ (BoardLock \in held[q])' <=> HoldsBoard(q)'
                 /\ \A m \in Member : (MemberLock(m) \in held[q])' <=>
                             HoldsMember(q)' /\ m = tx'[q].author
                 /\ (held[q] \subseteq {BoardLock}
                          \cup {MemberLock(m) : m \in Member}
                          \cup {ThreadLock(t) : t \in 1 .. threadSeq})'
                 /\ pc'[q] \in {"checkView", "commit"} =>
                      (ThreadLock(tx[q].target) \in held[q])'
      <4>1. CASE q = r
        BY <2>3, <3>1, <3>others, <3>ids, <3>2, <4>1, LockNames
           DEF LockInv, InsertThread
      <4>2. CASE q # r
        BY <3>1, <3>others, <3>2, <4>2, LockNames DEF LockInv
      <4> QED BY <4>1, <4>2
    <3> QED BY <3>3, <3>4 DEF LockInv
  <2>4. CASE CountMemberThread(r)
    <3>0. tx[r] \in Tx
      BY <2>4, Running DEF Step
    <3>1. /\ pc' = [pc EXCEPT ![r] = "threadBoard"]
          /\ pc \in [Request -> {"idle"} \cup Working \cup Answered]
          /\ held \in [Request -> SUBSET Locks]
          /\ threadSeq \in Nat /\ threadSeq' \in {threadSeq, threadSeq + 1}
      BY <2>4 DEF CountMemberThread, TypeOK
    <3>others. /\ \A q \in Request \ {r} : tx'[q] = tx[q]
          /\ tx'[r].op = tx[r].op /\ tx'[r].author = tx[r].author
          /\ tx'[r].target = tx[r].target
          /\ tx[r].author \in Member
      BY <2>4, <3>0 DEF CountMemberThread, TypeOK, Tx
    <3>2. /\ held' = [held EXCEPT ![r] = @ \cup {MemberLock(tx[r].author)}]
          /\ \A q \in Request \ {r} : MemberLock(tx[r].author) \notin held[q]
      BY <2>4, <3>1, LockNames DEF CountMemberThread, Lock, LockInv
    <3>3. \A q, u \in Request : q # u => held'[q] \cap held'[u] = {}
      BY <3>1, <3>2 DEF LockInv
    <3>4. ASSUME NEW q \in Request
          PROVE  /\ (BoardLock \in held[q])' <=> HoldsBoard(q)'
                 /\ \A m \in Member : (MemberLock(m) \in held[q])' <=>
                             HoldsMember(q)' /\ m = tx'[q].author
                 /\ (held[q] \subseteq {BoardLock}
                          \cup {MemberLock(m) : m \in Member}
                          \cup {ThreadLock(t) : t \in 1 .. threadSeq})'
                 /\ pc'[q] \in {"checkView", "commit"} =>
                      (ThreadLock(tx[q].target) \in held[q])'
      <4>1. CASE q = r
        BY <2>4, <3>1, <3>others, <3>2, <4>1, LockNames
           DEF LockInv, CountMemberThread
      <4>2. CASE q # r
        BY <3>1, <3>others, <3>2, <4>2, LockNames DEF LockInv
      <4> QED BY <4>1, <4>2
    <3> QED BY <3>3, <3>4 DEF LockInv
  <2>5. CASE CountBoardThread(r)
    BY <2>5, Running, LockNames
       DEF CountBoardThread, Lock, IdInv, Opens, TypeOK, PhaseInv,
           TargetExists, Tx, NoId, Step
  <2>6. CASE GetThreadSequenceId(r)
    BY <2>6, Running, LockNames
       DEF GetThreadSequenceId, SessionThreadId, Lock, IdInv, Opens, TypeOK,
           PhaseInv, TargetExists, Tx, NoId, Step
  <2>7. CASE InsertPost(r)
    BY <2>7, Running, LockNames
       DEF InsertPost, Lock, IdInv, Opens, TypeOK, PhaseInv, TargetExists, Tx,
           NoId, Step
  <2>8. CASE InsertPostNoThread(r)
    BY <2>8, Running, LockNames
       DEF InsertPostNoThread, Rollback, Release, Lock, IdInv, Opens, TypeOK,
           PhaseInv, TargetExists, Tx, NoId, Step
  <2>9. CASE CountMemberPost(r)
    <3>0. tx[r] \in Tx
      BY <2>9, Running DEF Step
    <3>1. /\ pc' = [pc EXCEPT ![r] = "postBoard"]
          /\ pc \in [Request -> {"idle"} \cup Working \cup Answered]
          /\ held \in [Request -> SUBSET Locks]
          /\ threadSeq \in Nat /\ threadSeq' \in {threadSeq, threadSeq + 1}
      BY <2>9 DEF CountMemberPost, TypeOK
    <3>others. /\ \A q \in Request \ {r} : tx'[q] = tx[q]
          /\ tx'[r].op = tx[r].op /\ tx'[r].author = tx[r].author
          /\ tx'[r].target = tx[r].target
          /\ tx[r].author \in Member
      BY <2>9, <3>0 DEF CountMemberPost, TypeOK, Tx
    <3>2. /\ held' = [held EXCEPT ![r] = @ \cup {MemberLock(tx[r].author)}]
          /\ \A q \in Request \ {r} : MemberLock(tx[r].author) \notin held[q]
      BY <2>9, <3>1, LockNames DEF CountMemberPost, Lock, LockInv
    <3>3. \A q, u \in Request : q # u => held'[q] \cap held'[u] = {}
      BY <3>1, <3>2 DEF LockInv
    <3>4. ASSUME NEW q \in Request
          PROVE  /\ (BoardLock \in held[q])' <=> HoldsBoard(q)'
                 /\ \A m \in Member : (MemberLock(m) \in held[q])' <=>
                             HoldsMember(q)' /\ m = tx'[q].author
                 /\ (held[q] \subseteq {BoardLock}
                          \cup {MemberLock(m) : m \in Member}
                          \cup {ThreadLock(t) : t \in 1 .. threadSeq})'
                 /\ pc'[q] \in {"checkView", "commit"} =>
                      (ThreadLock(tx[q].target) \in held[q])'
      <4>1. CASE q = r
        BY <2>9, <3>1, <3>others, <3>2, <4>1, LockNames
           DEF LockInv, CountMemberPost
      <4>2. CASE q # r
        BY <3>1, <3>others, <3>2, <4>2, LockNames DEF LockInv
      <4> QED BY <4>1, <4>2
    <3> QED BY <3>3, <3>4 DEF LockInv
  <2>10. CASE CountBoardPost(r)
    <3>0. tx[r] \in Tx
      BY <2>10, Running DEF Step
    <3>1. /\ pc' = [pc EXCEPT ![r] = "snapshot"]
          /\ pc \in [Request -> {"idle"} \cup Working \cup Answered]
          /\ held \in [Request -> SUBSET Locks]
          /\ threadSeq \in Nat /\ threadSeq' \in {threadSeq, threadSeq + 1}
      BY <2>10 DEF CountBoardPost, TypeOK
    <3>others. /\ \A q \in Request \ {r} : tx'[q] = tx[q]
          /\ tx'[r].op = tx[r].op /\ tx'[r].author = tx[r].author
          /\ tx'[r].target = tx[r].target
          /\ tx[r].author \in Member
      BY <2>10, <3>0 DEF CountBoardPost, TypeOK, Tx
    <3>2. /\ held' = [held EXCEPT ![r] = @ \cup {BoardLock}]
          /\ \A q \in Request \ {r} : BoardLock \notin held[q]
      BY <2>10, <3>1, LockNames DEF CountBoardPost, Lock, LockInv
    <3>3. \A q, u \in Request : q # u => held'[q] \cap held'[u] = {}
      BY <3>1, <3>2 DEF LockInv
    <3>4. ASSUME NEW q \in Request
          PROVE  /\ (BoardLock \in held[q])' <=> HoldsBoard(q)'
                 /\ \A m \in Member : (MemberLock(m) \in held[q])' <=>
                             HoldsMember(q)' /\ m = tx'[q].author
                 /\ (held[q] \subseteq {BoardLock}
                          \cup {MemberLock(m) : m \in Member}
                          \cup {ThreadLock(t) : t \in 1 .. threadSeq})'
                 /\ pc'[q] \in {"checkView", "commit"} =>
                      (ThreadLock(tx[q].target) \in held[q])'
      <4>1. CASE q = r
        BY <2>10, <3>1, <3>others, <3>2, <4>1, LockNames
           DEF LockInv, CountBoardPost
      <4>2. CASE q # r
        BY <3>1, <3>others, <3>2, <4>2, LockNames DEF LockInv
      <4> QED BY <4>1, <4>2
    <3> QED BY <3>3, <3>4 DEF LockInv
  <2>11. CASE TakeSnapshot(r)
    <3>0. tx[r] \in Tx
      BY <2>11, Running DEF Step
    <3>1. /\ pc' = [pc EXCEPT ![r] = "postThread"]
          /\ pc \in [Request -> {"idle"} \cup Working \cup Answered]
          /\ held \in [Request -> SUBSET Locks]
          /\ threadSeq \in Nat /\ threadSeq' \in {threadSeq, threadSeq + 1}
      BY <2>11 DEF TakeSnapshot, TypeOK
    <3>others. /\ \A q \in Request \ {r} : tx'[q] = tx[q]
          /\ tx'[r].op = tx[r].op /\ tx'[r].author = tx[r].author
          /\ tx'[r].target = tx[r].target
          /\ tx[r].author \in Member
      BY <2>11, <3>0 DEF TakeSnapshot, TypeOK, Tx
    <3>2. /\ held' = held
          /\ threadSeq' = threadSeq
      BY <2>11, <3>1, LockNames DEF TakeSnapshot, Lock, LockInv
    <3>3. \A q, u \in Request : q # u => held'[q] \cap held'[u] = {}
      BY <3>1, <3>2 DEF LockInv
    <3>4. ASSUME NEW q \in Request
          PROVE  /\ (BoardLock \in held[q])' <=> HoldsBoard(q)'
                 /\ \A m \in Member : (MemberLock(m) \in held[q])' <=>
                             HoldsMember(q)' /\ m = tx'[q].author
                 /\ (held[q] \subseteq {BoardLock}
                          \cup {MemberLock(m) : m \in Member}
                          \cup {ThreadLock(t) : t \in 1 .. threadSeq})'
                 /\ pc'[q] \in {"checkView", "commit"} =>
                      (ThreadLock(tx[q].target) \in held[q])'
      <4>1. CASE q = r
        BY <2>11, <3>1, <3>others, <3>2, <4>1, LockNames
           DEF LockInv, TakeSnapshot
      <4>2. CASE q # r
        BY <3>1, <3>others, <3>2, <4>2, LockNames DEF LockInv
      <4> QED BY <4>1, <4>2
    <3> QED BY <3>3, <3>4 DEF LockInv
  <2>12. CASE UpdateThread(r)
    <3>0. tx[r] \in Tx
      BY <2>12, Running DEF Step
    <3>1. /\ pc' = [pc EXCEPT ![r] = "checkView"]
          /\ pc \in [Request -> {"idle"} \cup Working \cup Answered]
          /\ held \in [Request -> SUBSET Locks]
          /\ threadSeq \in Nat /\ threadSeq' \in {threadSeq, threadSeq + 1}
      BY <2>12 DEF UpdateThread, TypeOK
    <3>others. /\ \A q \in Request \ {r} : tx'[q] = tx[q]
          /\ tx'[r].op = tx[r].op /\ tx'[r].author = tx[r].author
          /\ tx'[r].target = tx[r].target
          /\ tx[r].author \in Member
      BY <2>12, <3>0 DEF UpdateThread, TypeOK, Tx
    <3>ids. tx[r].target \in 1 .. threadSeq
      BY <2>12, <3>0
         DEF UpdateThread, TypeOK, PhaseInv, Tx, TargetExists, IdInv, Opens
    <3>2. /\ held' = [held EXCEPT ![r] = @ \cup {ThreadLock(tx[r].target)}]
          /\ \A q \in Request \ {r} : ThreadLock(tx[r].target) \notin held[q]
      BY <2>12, <3>1, LockNames DEF UpdateThread, Lock, LockInv
    <3>3. \A q, u \in Request : q # u => held'[q] \cap held'[u] = {}
      BY <3>1, <3>2 DEF LockInv
    <3>4. ASSUME NEW q \in Request
          PROVE  /\ (BoardLock \in held[q])' <=> HoldsBoard(q)'
                 /\ \A m \in Member : (MemberLock(m) \in held[q])' <=>
                             HoldsMember(q)' /\ m = tx'[q].author
                 /\ (held[q] \subseteq {BoardLock}
                          \cup {MemberLock(m) : m \in Member}
                          \cup {ThreadLock(t) : t \in 1 .. threadSeq})'
                 /\ pc'[q] \in {"checkView", "commit"} =>
                      (ThreadLock(tx[q].target) \in held[q])'
      <4>1. CASE q = r
        BY <2>12, <3>1, <3>others, <3>ids, <3>2, <4>1, LockNames
           DEF LockInv, UpdateThread
      <4>2. CASE q # r
        BY <3>1, <3>others, <3>2, <4>2, LockNames DEF LockInv
      <4> QED BY <4>1, <4>2
    <3> QED BY <3>3, <3>4 DEF LockInv
  <2>13. CASE CheckView(r)
    BY <2>13, Running, LockNames
       DEF CheckView, Lock, IdInv, Opens, TypeOK, PhaseInv, TargetExists, Tx,
           NoId, Step
  <2>14. CASE Commit(r)
    BY <2>14, Running, LockNames
       DEF Commit, Install, Put, ThreadsWritten, Release, OwnPost,
           InsertedThread, Lock, IdInv, Opens, TypeOK, PhaseInv, TargetExists,
           Tx, NoId, Step
  <2>15. CASE CommitUnheard(r)
    BY <2>15, Running, LockNames
       DEF CommitUnheard, Install, Rollback, Put, ThreadsWritten, Release,
           OwnPost, InsertedThread, Lock, IdInv, Opens, TypeOK, PhaseInv,
           TargetExists, Tx, NoId, Step
  <2>16. CASE Fail(r)
    BY <2>16, Running, LockNames
       DEF Fail, Rollback, Release, Lock, IdInv, Opens, TypeOK, PhaseInv,
           TargetExists, Tx, NoId, Step
  <2> QED BY <2>1, <2>2, <2>3, <2>4, <2>5, <2>6, <2>7, <2>8, <2>9, <2>10,
             <2>11, <2>12, <2>13, <2>14, <2>15, <2>16 DEF Step
<1> QED BY <1>1, <1>2

(* A commit writes only rows its transaction has locked, so the drafts of   *)
(* the other transactions count from the same rows as before.              *)
LEMMA InstallDrafts ==
  ASSUME TypeOK, PhaseInv, IdInv, LockInv, DraftInv, NEW r \in Request,
         Install(r), tx[r] \in Tx, pc' \in {[pc EXCEPT ![r] = "ok"],
                                             [pc EXCEPT ![r] = "error"]},
         \A q \in Request \ {r} : tx'[q] = tx[q] /\ held'[q] = held[q]
  PROVE  DraftInv'
<1> SUFFICES ASSUME NEW q \in Request PROVE DraftOf(q)'
  BY DEF DraftInv
<1>0. pc[r] = "commit" /\ pc'[r] \in {"ok", "error"}
      /\ \A p \in Request \ {r} : pc'[p] = pc[p]
  BY DEF Install, TypeOK
<1>1. CASE q = r
  BY <1>0, <1>1 DEF DraftOf, HoldsBoard, HoldsMember, PastBoard
<1>2. CASE q # r
  <2>1. /\ pc'[q] = pc[q] /\ tx'[q] = tx[q] /\ DraftOf(q)
        /\ held[r] \cap held[q] = {}
    BY <1>0, <1>2 DEF DraftInv, LockInv
  <2>2. ~HoldsBoard(q)
    BY <1>0, <2>1 DEF LockInv, HoldsBoard, PastBoard
  <2>3. HoldsMember(q) => member'[tx[q].author] = member[tx[q].author]
    <3>1. tx[r].author \in Member /\ MemberLock(tx[r].author) \in held[r]
      BY <1>0 DEF LockInv, HoldsMember, PastBoard, Tx
    <3>2. HoldsMember(q) => tx[q] \in Tx
      BY DEF TypeOK, HoldsMember, PastBoard, Working
    <3>3. HoldsMember(q) => MemberLock(tx[q].author) \in held[q]
      BY <3>2 DEF LockInv, Tx
    <3>4. HoldsMember(q) => tx[q].author # tx[r].author
      BY <2>1, <3>1, <3>3
    <3> QED BY <3>1, <3>2, <3>4 DEF Install, TypeOK, Tx
  <2>4. pc[q] \notin {"checkView", "commit"}
    BY <2>2 DEF HoldsBoard, PastBoard
  <2> QED BY <2>1, <2>2, <2>3, <2>4 DEF DraftOf, HoldsBoard, HoldsMember
<1> QED BY <1>1, <1>2

(* Drafts are counted from rows nobody else can change.                    *)
LEMMA DraftInvStep ==
  ASSUME TypeOK, PhaseInv, IdInv, LockInv, DraftInv, [Next]_vars
  PROVE  DraftInv'
<1>1. CASE UNCHANGED vars
  BY <1>1
     DEF vars, tables, DraftInv, DraftOf, HoldsBoard, HoldsMember, PastBoard,
         One, OwnThread, InsertedThread
<1>2. CASE Next
  <2> SUFFICES ASSUME NEW r \in Request,
                      \/ Refuse(r)
                      \/ \E m \in Member : BeginThread(r, m) \/ BeginReply(r, m)
                      \/ Step(r)
                      \/ CommitUnheard(r)
                      \/ Fail(r)
               PROVE  DraftInv'
    BY <1>2 DEF Next
  <2> USE DEF DraftInv, DraftOf, HoldsBoard, HoldsMember, PastBoard, One,
              OwnThread, InsertedThread, Goto, tables, Working, HasPost
  <2>1. CASE Refuse(r)
    BY <2>1 DEF Refuse, TypeOK
  <2>2. CASE \E m \in Member : BeginThread(r, m) \/ BeginReply(r, m)
    <3>1. PICK label \in {"insertThread", "insertPost"} :
             /\ pc[r] = "idle"
             /\ pc' = [pc EXCEPT ![r] = label]
             /\ tx' = [tx EXCEPT ![r] = tx'[r]]
             /\ tx'[r].op = IF label = "insertThread" THEN "thread" ELSE "reply"
             /\ UNCHANGED <<tables, held, threadSeq, postSeq>>
      BY <2>2, Beginning
    <3> QED BY <3>1, LockNames DEF TypeOK
  <2>3. CASE InsertThread(r)
    BY <2>3, Running, LockNames
       DEF InsertThread, LockInv, OwnMember, OwnBoard, TypeOK, PhaseInv,
           TargetExists, Tx, NoId, Step
  <2>4. CASE CountMemberThread(r)
    <3>0. tx[r] \in Tx /\ tx[r].author \in Member
      BY <2>4, Running DEF Step, Tx
    <3>1. OwnMember(r) = member[tx[r].author] /\ tx[r].op = "thread"
      BY <2>4, <3>0, LockNames
         DEF CountMemberThread, PhaseInv, LockInv, OwnBoard, OwnMember
    <3>2. /\ tx'[r].member = [OwnMember(r) EXCEPT !.threads = @ + 1]
          /\ \A x \in {"op", "author", "target", "newThread",
                      "board", "member", "thread", "now"} \ {"member"} :
                tx'[r][x] = tx[r][x]
          /\ \A q \in Request \ {r} : tx'[q] = tx[q]
      BY <2>4, <3>0 DEF CountMemberThread, TypeOK, Tx
    <3>3. /\ pc' = [pc EXCEPT ![r] = "threadBoard"] /\ UNCHANGED tables
          /\ pc \in [Request -> {"idle"} \cup Working \cup Answered]
      BY <2>4 DEF CountMemberThread, TypeOK
    <3>4. ASSUME NEW q \in Request
          PROVE  DraftOf(q)'
      <4>1. CASE q = r
        <5>1. pc[r] = "threadMember" /\ pc'[r] = "threadBoard"
          BY <2>4, <3>3 DEF CountMemberThread
        <5>2. board \in BoardRow /\ member[tx[r].author] \in MemberRow
          BY <3>0 DEF TypeOK
        <5> QED BY <3>0, <3>1, <3>2, <3>3, <4>1, <5>1, <5>2
                   DEF PhaseInv, BoardRow, MemberRow, OwnBoard, OwnMember, Tx
      <4>2. CASE q # r
        BY <3>2, <3>3, <4>2
      <4> QED BY <4>1, <4>2
    <3> QED BY <3>4
  <2>5. CASE CountBoardThread(r)
    <3>0. tx[r] \in Tx /\ tx[r].author \in Member
      BY <2>5, Running DEF Step, Tx
    <3>1. OwnBoard(r) = board /\ tx[r].op = "thread"
      BY <2>5, <3>0, LockNames
         DEF CountBoardThread, PhaseInv, LockInv, OwnBoard, OwnMember
    <3>2. /\ tx'[r].board = [OwnBoard(r) EXCEPT !.threads = @ + 1]
          /\ \A x \in {"op", "author", "target", "newThread",
                      "board", "member", "thread", "now"} \ {"board"} :
                tx'[r][x] = tx[r][x]
          /\ \A q \in Request \ {r} : tx'[q] = tx[q]
      BY <2>5, <3>0 DEF CountBoardThread, TypeOK, Tx
    <3>3. /\ pc' = [pc EXCEPT ![r] = "currval"] /\ UNCHANGED tables
          /\ pc \in [Request -> {"idle"} \cup Working \cup Answered]
      BY <2>5 DEF CountBoardThread, TypeOK
    <3>4. ASSUME NEW q \in Request
          PROVE  DraftOf(q)'
      <4>1. CASE q = r
        <5>1. pc[r] = "threadBoard" /\ pc'[r] = "currval"
          BY <2>5, <3>3 DEF CountBoardThread
        <5>2. board \in BoardRow /\ member[tx[r].author] \in MemberRow
          BY <3>0 DEF TypeOK
        <5> QED BY <3>0, <3>1, <3>2, <3>3, <4>1, <5>1, <5>2
                   DEF PhaseInv, BoardRow, MemberRow, OwnBoard, OwnMember, Tx
      <4>2. CASE q # r
        BY <3>2, <3>3, <4>2
      <4> QED BY <4>1, <4>2
    <3> QED BY <3>4
  <2>6. CASE GetThreadSequenceId(r)
    BY <2>6, Running, LockNames
       DEF GetThreadSequenceId, SessionThreadId, LockInv, OwnMember, OwnBoard,
           TypeOK, PhaseInv, TargetExists, Tx, NoId, Step
  <2>7. CASE InsertPost(r)
    BY <2>7, Running, LockNames
       DEF InsertPost, LockInv, OwnMember, OwnBoard, TypeOK, PhaseInv,
           TargetExists, Tx, NoId, Step
  <2>8. CASE InsertPostNoThread(r)
    BY <2>8, Running, LockNames
       DEF InsertPostNoThread, Rollback, Release, LockInv, OwnMember,
           OwnBoard, TypeOK, PhaseInv, TargetExists, Tx, NoId, Step
  <2>9. CASE CountMemberPost(r)
    <3>0. tx[r] \in Tx /\ tx[r].author \in Member
      BY <2>9, Running DEF Step, Tx
    <3>rows. board \in BoardRow /\ member[tx[r].author] \in MemberRow
      BY <3>0 DEF TypeOK
    <3>1. /\ OwnMember(r).threads =
               member[tx[r].author].threads + One(tx[r].op = "thread")
          /\ OwnMember(r).posts = member[tx[r].author].posts
      BY <2>9, <3>0, <3>rows, LockNames
         DEF CountMemberPost, PhaseInv, LockInv, OwnBoard, OwnMember,
         BoardRow, MemberRow
    <3>2. /\ tx'[r].member = [threads |-> OwnMember(r).threads,
                posts |-> OwnMember(r).posts + 1, lastPost |-> tx[r].now]
          /\ \A x \in {"op", "author", "target", "newThread",
                      "board", "member", "thread", "now"} \ {"member"} :
                tx'[r][x] = tx[r][x]
          /\ \A q \in Request \ {r} : tx'[q] = tx[q]
      BY <2>9, <3>0 DEF CountMemberPost, TypeOK, Tx
    <3>3. /\ pc' = [pc EXCEPT ![r] = "postBoard"] /\ UNCHANGED tables
          /\ pc \in [Request -> {"idle"} \cup Working \cup Answered]
      BY <2>9 DEF CountMemberPost, TypeOK
    <3>4. ASSUME NEW q \in Request
          PROVE  DraftOf(q)'
      <4>1. CASE q = r
        <5>1. pc[r] = "postMember" /\ pc'[r] = "postBoard"
          BY <2>9, <3>3 DEF CountMemberPost
        <5>2. board \in BoardRow /\ member[tx[r].author] \in MemberRow
          BY <3>0 DEF TypeOK
        <5> QED BY <3>0, <3>1, <3>2, <3>3, <4>1, <5>1, <5>2
                   DEF PhaseInv, BoardRow, MemberRow, OwnBoard, OwnMember, Tx
      <4>2. CASE q # r
        BY <3>2, <3>3, <4>2
      <4> QED BY <4>1, <4>2
    <3> QED BY <3>4
  <2>10. CASE CountBoardPost(r)
    <3>0. tx[r] \in Tx /\ tx[r].author \in Member
      BY <2>10, Running DEF Step, Tx
    <3>rows. board \in BoardRow /\ member[tx[r].author] \in MemberRow
      BY <3>0 DEF TypeOK
    <3>1. /\ OwnBoard(r).threads = board.threads + One(tx[r].op = "thread")
          /\ OwnBoard(r).posts = board.posts
      BY <2>10, <3>0, <3>rows, LockNames
         DEF CountBoardPost, PhaseInv, LockInv, OwnBoard, OwnMember,
         BoardRow, MemberRow
    <3>2. /\ tx'[r].board = [OwnBoard(r) EXCEPT !.posts = @ + 1]
          /\ \A x \in {"op", "author", "target", "newThread",
                      "board", "member", "thread", "now"} \ {"board"} :
                tx'[r][x] = tx[r][x]
          /\ \A q \in Request \ {r} : tx'[q] = tx[q]
      BY <2>10, <3>0 DEF CountBoardPost, TypeOK, Tx
    <3>3. /\ pc' = [pc EXCEPT ![r] = "snapshot"] /\ UNCHANGED tables
          /\ pc \in [Request -> {"idle"} \cup Working \cup Answered]
      BY <2>10 DEF CountBoardPost, TypeOK
    <3>4. ASSUME NEW q \in Request
          PROVE  DraftOf(q)'
      <4>1. CASE q = r
        <5>1. pc[r] = "postBoard" /\ pc'[r] = "snapshot"
          BY <2>10, <3>3 DEF CountBoardPost
        <5>2. board \in BoardRow /\ member[tx[r].author] \in MemberRow
          BY <3>0 DEF TypeOK
        <5> QED BY <3>0, <3>1, <3>2, <3>3, <4>1, <5>1, <5>2
                   DEF PhaseInv, BoardRow, MemberRow, OwnBoard, OwnMember, Tx
      <4>2. CASE q # r
        BY <3>2, <3>3, <4>2
      <4> QED BY <4>1, <4>2
    <3> QED BY <3>4
  <2>11. CASE TakeSnapshot(r)
    BY <2>11, Running, LockNames
       DEF TakeSnapshot, LockInv, OwnMember, OwnBoard, TypeOK, PhaseInv,
           TargetExists, Tx, NoId, Step
  <2>12. CASE UpdateThread(r)
    BY <2>12, Running, LockNames
       DEF UpdateThread, LockInv, OwnMember, OwnBoard, TypeOK, PhaseInv,
           TargetExists, Tx, NoId, Step
  <2>13. CASE CheckView(r)
    BY <2>13, Running, LockNames
       DEF CheckView, LockInv, OwnMember, OwnBoard, TypeOK, PhaseInv,
           TargetExists, Tx, NoId, Step
  <2>14. CASE Commit(r)
    <3>1. tx[r] \in Tx
      BY <2>14, Running DEF Step
    <3>2. /\ Install(r) /\ pc' = [pc EXCEPT ![r] = "ok"]
          /\ \A q \in Request \ {r} : tx'[q] = tx[q] /\ held'[q] = held[q]
      BY <2>14 DEF Commit, Release, TypeOK
    <3> HIDE DEF DraftInv
    <3> QED BY <3>1, <3>2, InstallDrafts
  <2>15. CASE CommitUnheard(r)
    <3>1. tx[r] \in Tx
      BY <2>15, Running
    <3>2. /\ Install(r) /\ pc' = [pc EXCEPT ![r] = "error"]
          /\ \A q \in Request \ {r} : tx'[q] = tx[q] /\ held'[q] = held[q]
      BY <2>15 DEF CommitUnheard, Rollback, Release, TypeOK
    <3> HIDE DEF DraftInv
    <3> QED BY <3>1, <3>2, InstallDrafts
  <2>16. CASE Fail(r)
    BY <2>16, Running, LockNames
       DEF Fail, Rollback, Release, LockInv, OwnMember, OwnBoard, TypeOK,
           PhaseInv, TargetExists, Tx, NoId, Step
  <2> QED BY <2>1, <2>2, <2>3, <2>4, <2>5, <2>6, <2>7, <2>8, <2>9, <2>10,
             <2>11, <2>12, <2>13, <2>14, <2>15, <2>16 DEF Step
<1> QED BY <1>1, <1>2

-----------------------------------------------------------------------------
(* What COMMIT adds to the tables, and the totals.                         *)

(* The tables can be counted.                                              *)
LEMMA TablesFinite ==
  ASSUME TypeOK, IdInv
  PROVE  IsFiniteSet(DOMAIN thread) /\ IsFiniteSet(DOMAIN post)
<1>0. threadSeq \in Int /\ postSeq \in Int
  BY DEF TypeOK
<1>1. IsFiniteSet(1 .. threadSeq) /\ IsFiniteSet(1 .. postSeq)
  BY <1>0, FS_Interval
<1> QED BY <1>1, FS_Subset DEF IdInv

(* A row that was not there counts for one.                                *)
LEMMA AddOne ==
  ASSUME NEW S, IsFiniteSet(S), NEW x, x \notin S
  PROVE  Cardinality(S \cup {x}) = Cardinality(S) + 1
  BY FS_AddElement

(* COMMIT adds the post,                                                   *)
PostAdded(r) ==
  /\ tx[r].newPost \notin DOMAIN post
  /\ DOMAIN post' = DOMAIN post \cup {tx[r].newPost}
  /\ post'[tx[r].newPost] = OwnPost(r)
  /\ \A p \in DOMAIN post : post'[p] = post[p]

(* the thread, or the reply to it,                                         *)
ThreadAdded(r) ==
  /\ DOMAIN thread' = DOMAIN thread \cup {tx[r].target}
  /\ \A t \in DOMAIN thread \ {tx[r].target} : thread'[t] = thread[t]
  /\ thread'[tx[r].target].member = OwnThread(r).member
  /\ thread'[tx[r].target].posts = OwnThread(r).posts + 1
  /\ tx[r].op = "thread" => /\ tx[r].target \notin DOMAIN thread
                            /\ OwnThread(r) = InsertedThread(r)
  /\ tx[r].op = "reply" => /\ tx[r].target \in DOMAIN thread
                           /\ OwnThread(r) = thread[tx[r].target]

(* and one to each total concerned.                                        *)
Counted(r) ==
  /\ board'.threads = board.threads + One(tx[r].op = "thread")
  /\ board'.posts = board.posts + 1
  /\ \A m \in Member :
       /\ member'[m].threads =
            member[m].threads + One(tx[r].op = "thread" /\ m = tx[r].author)
       /\ member'[m].posts = member[m].posts + One(m = tx[r].author)

(* A commit adds exactly the post of its transaction.                      *)
LEMMA InstallPost ==
  ASSUME TypeOK, IdInv, NEW r \in Request, Install(r)
  PROVE  PostAdded(r)
  BY DEF PostAdded, Install, Put, IdInv, HasPost

(* A commit adds the new thread, or counts the reply in its thread.        *)
LEMMA InstallThread ==
  ASSUME TypeOK, PhaseInv, IdInv, DraftInv, NEW r \in Request, Install(r),
         tx[r] \in Tx
  PROVE  ThreadAdded(r)
<1>1. pc[r] = "commit"
      /\ thread' = Put(ThreadsWritten(r), tx[r].target, tx[r].thread)
  BY DEF Install
<1>2. /\ tx[r].thread.member = OwnThread(r).member
      /\ tx[r].thread.posts = OwnThread(r).posts + 1
  BY <1>1 DEF DraftInv, DraftOf
<1>3. CASE tx[r].op = "thread"
  <2>1. tx[r].target = tx[r].newThread /\ tx[r].target \notin DOMAIN thread
    BY <1>1, <1>3 DEF PhaseInv, HasPost, IdInv, Opens, Working
  <2> QED BY <1>1, <1>2, <1>3, <2>1
             DEF ThreadAdded, Put, ThreadsWritten, OwnThread
<1>4. CASE tx[r].op = "reply"
  <2>1. tx[r].target \in DOMAIN thread /\ tx[r].target # tx[r].newThread
    BY <1>1, <1>4
       DEF PhaseInv, HasPost, TargetExists, IdInv, Working, TypeOK, NoId
  <2> QED BY <1>1, <1>2, <1>4, <2>1
             DEF ThreadAdded, Put, ThreadsWritten, OwnThread
<1> QED BY <1>3, <1>4 DEF Tx

(* A commit adds its post, and its thread, to the totals.                  *)
LEMMA InstallCounts ==
  ASSUME TypeOK, DraftInv, NEW r \in Request, Install(r), tx[r] \in Tx
  PROVE  Counted(r)
<1>1. pc[r] = "commit" /\ tx[r].author \in Member
  BY DEF Install, Tx
<1>2. /\ tx[r].board.threads = board.threads + One(tx[r].op = "thread")
      /\ tx[r].board.posts = board.posts + 1
      /\ tx[r].member.threads =
           member[tx[r].author].threads + One(tx[r].op = "thread")
      /\ tx[r].member.posts = member[tx[r].author].posts + 1
  BY <1>1 DEF DraftInv, DraftOf, HoldsBoard, HoldsMember, PastBoard, One
<1>3. \A m \in Member : member[m].threads \in Nat /\ member[m].posts \in Nat
  BY DEF TypeOK, MemberRow
<1> QED BY <1>1, <1>2, <1>3 DEF Counted, Install, TypeOK, One

(* What a commit adds to the board it adds to the board's totals,          *)
LEMMA InstallBoardTotals ==
  ASSUME TypeOK, PhaseInv, IdInv, DraftInv, BoardTotals,
         NEW r \in Request, tx[r] \in Tx,
         PostAdded(r), ThreadAdded(r), Counted(r)
  PROVE  BoardTotals'
<1>1. board'.posts = Cardinality(DOMAIN post')
  BY TablesFinite, AddOne DEF Counted, PostAdded, BoardTotals
<1>2. CASE tx[r].op = "thread"
  <2>1. board'.threads = board.threads + 1
    BY <1>2 DEF Counted, One
  <2> QED BY <1>1, <1>2, <2>1, TablesFinite, AddOne
             DEF ThreadAdded, BoardTotals
<1>3. CASE tx[r].op = "reply"
  <2>1. board'.threads = board.threads
    BY <1>3 DEF Counted, One, TypeOK, BoardRow
  <2>2. DOMAIN thread' = DOMAIN thread
    BY <1>3 DEF ThreadAdded
  <2> QED BY <1>1, <2>1, <2>2 DEF BoardTotals
<1> QED BY <1>2, <1>3 DEF Tx

(* what it adds to a member's rows to the member's totals,                 *)
LEMMA InstallMemberTotals ==
  ASSUME TypeOK, PhaseInv, IdInv, DraftInv, MemberTotals,
         NEW r \in Request, tx[r] \in Tx,
         PostAdded(r), ThreadAdded(r), Counted(r)
  PROVE  MemberTotals'
<1> SUFFICES ASSUME NEW m \in Member
             PROVE  /\ member'[m].threads = Cardinality(ThreadsBy(m)')
                    /\ member'[m].posts = Cardinality(PostsBy(m)')
  BY DEF MemberTotals
<1>0. /\ IsFiniteSet(ThreadsBy(m)) /\ IsFiniteSet(PostsBy(m))
      /\ member[m].threads \in Nat /\ member[m].posts \in Nat
  BY TablesFinite, FS_Subset DEF ThreadsBy, PostsBy, TypeOK, MemberRow
<1>1. member'[m].posts = Cardinality(PostsBy(m)')
  <2>1. CASE m = tx[r].author
    <3>1. PostsBy(m)' = PostsBy(m) \cup {tx[r].newPost}
      BY <2>1 DEF PostAdded, PostsBy, OwnPost
    <3>2. tx[r].newPost \notin PostsBy(m)
      BY DEF PostAdded, PostsBy
    <3>3. member'[m].posts = member[m].posts + 1
      BY <2>1 DEF Counted, One
    <3> QED BY <1>0, <3>1, <3>2, <3>3, AddOne DEF MemberTotals
  <2>2. CASE m # tx[r].author
    <3>1. PostsBy(m)' = PostsBy(m)
      BY <2>2 DEF PostAdded, PostsBy, OwnPost
    <3>2. member'[m].posts = member[m].posts
      BY <1>0, <2>2 DEF Counted, One
    <3> QED BY <3>1, <3>2 DEF MemberTotals
  <2> QED BY <2>1, <2>2
<1>2. member'[m].threads = Cardinality(ThreadsBy(m)')
  <2>1. CASE m = tx[r].author /\ tx[r].op = "thread"
    <3>1. ThreadsBy(m)' = ThreadsBy(m) \cup {tx[r].target}
      BY <2>1 DEF ThreadAdded, ThreadsBy, InsertedThread
    <3>2. tx[r].target \notin ThreadsBy(m)
      BY <2>1 DEF ThreadAdded, ThreadsBy
    <3>3. member'[m].threads = member[m].threads + 1
      BY <2>1 DEF Counted, One
    <3> QED BY <1>0, <3>1, <3>2, <3>3, AddOne DEF MemberTotals
  <2>2. CASE ~(m = tx[r].author /\ tx[r].op = "thread")
    <3>1. ThreadsBy(m)' = ThreadsBy(m)
      <4>1. CASE tx[r].op = "thread"
        BY <2>2, <4>1 DEF ThreadAdded, ThreadsBy, InsertedThread
      <4>2. CASE tx[r].op = "reply"
        BY <4>2 DEF ThreadAdded, ThreadsBy
      <4> QED BY <4>1, <4>2 DEF Tx
    <3>2. member'[m].threads = member[m].threads
      BY <1>0, <2>2 DEF Counted, One
    <3> QED BY <3>1, <3>2 DEF MemberTotals
  <2> QED BY <2>1, <2>2
<1> QED BY <1>1, <1>2

(* and what it adds to a thread to the posts of the thread.                *)
LEMMA InstallThreadTotals ==
  ASSUME TypeOK, PhaseInv, IdInv, DraftInv, ThreadTotals,
         NEW r \in Request, tx[r] \in Tx,
         PostAdded(r), ThreadAdded(r), Counted(r)
  PROVE  ThreadTotals'
<1> SUFFICES ASSUME NEW t \in DOMAIN thread'
             PROVE  thread'[t].posts = Cardinality(ThreadPosts(t)')
  BY DEF ThreadTotals
<1>0. IsFiniteSet(ThreadPosts(t)) /\ Cardinality({}) = 0
  BY TablesFinite, FS_Subset, FS_EmptySet DEF ThreadPosts
<1>1. CASE t = tx[r].target
  <2>1. ThreadPosts(t)' = ThreadPosts(t) \cup {tx[r].newPost}
    BY <1>1 DEF PostAdded, ThreadPosts, OwnPost
  <2>2. tx[r].newPost \notin ThreadPosts(t)
    BY DEF PostAdded, ThreadPosts
  <2>3. OwnThread(r).posts = Cardinality(ThreadPosts(t))
    <3>1. CASE tx[r].op = "thread"
      <4>1. ThreadPosts(t) = {}
        BY <1>1, <3>1 DEF ThreadAdded, ThreadPosts, IdInv
      <4> QED BY <1>0, <3>1, <4>1 DEF ThreadAdded, InsertedThread
    <3>2. CASE tx[r].op = "reply"
      BY <1>1, <3>2 DEF ThreadAdded, ThreadTotals
    <3> QED BY <3>1, <3>2 DEF Tx
  <2> QED BY <1>0, <1>1, <2>1, <2>2, <2>3, AddOne DEF ThreadAdded
<1>2. CASE t # tx[r].target
  <2>1. ThreadPosts(t)' = ThreadPosts(t)
    BY <1>2 DEF PostAdded, ThreadPosts, OwnPost
  <2> QED BY <1>2, <2>1 DEF ThreadAdded, ThreadTotals
<1> QED BY <1>1, <1>2

(* Every step keeps the totals: only a commit touches them.                *)
LEMMA TotalsStep ==
  ASSUME TypeOK, PhaseInv, IdInv, DraftInv,
         BoardTotals, MemberTotals, ThreadTotals, [Next]_vars
  PROVE  BoardTotals' /\ MemberTotals' /\ ThreadTotals'
<1>1. CASE UNCHANGED tables
  BY <1>1 DEF tables, BoardTotals, MemberTotals, ThreadTotals, ThreadsBy,
              PostsBy, ThreadPosts
<1>2. CASE \E r \in Request : Commit(r) \/ CommitUnheard(r)
  <2>1. PICK r \in Request : Commit(r) \/ CommitUnheard(r)
    BY <1>2
  <2>2. Install(r) /\ tx[r] \in Tx
    BY <2>1, Running DEF Commit, CommitUnheard, Step
  <2>3. PostAdded(r) /\ ThreadAdded(r) /\ Counted(r)
    BY <2>2, InstallPost, InstallThread, InstallCounts
  <2> QED
    BY <2>2, <2>3, InstallBoardTotals, InstallMemberTotals, InstallThreadTotals
<1>3. UNCHANGED tables \/ \E r \in Request : Commit(r) \/ CommitUnheard(r)
  <2>1. ASSUME NEW r \in Request, Step(r), ~Commit(r)
        PROVE  UNCHANGED tables
    BY <2>1 DEF Step, InsertThread, CountMemberThread, CountBoardThread,
       GetThreadSequenceId, InsertPost, InsertPostNoThread, CountMemberPost,
       CountBoardPost, TakeSnapshot, UpdateThread, CheckView
  <2>2. ASSUME NEW r \in Request, Refuse(r) \/ Fail(r)
        PROVE  UNCHANGED tables
    BY <2>2 DEF Refuse, Fail
  <2>3. ASSUME NEW r \in Request, NEW m \in Member,
               BeginThread(r, m) \/ BeginReply(r, m)
        PROVE  UNCHANGED tables
    BY <2>3 DEF BeginThread, BeginReply, Begin
  <2>4. UNCHANGED vars => UNCHANGED tables
    BY DEF vars, tables
  <2> QED BY <2>1, <2>2, <2>3, <2>4 DEF Next
<1> QED BY <1>1, <1>2, <1>3

(* The strengthened invariant holds of the empty board,                    *)
LEMMA IInvInit == Init => IInv
<1> SUFFICES ASSUME Init PROVE IInv
  OBVIOUS
<1>1. IdInv /\ LockInv /\ DraftInv
  BY DEF Init, IdInv, Opens, HasPost, LockInv, DraftInv, DraftOf, HoldsBoard,
         HoldsMember, PastBoard, Working
<1>2. Cardinality({}) = 0
  BY FS_EmptySet
<1>3. DOMAIN thread = {} /\ DOMAIN post = {}
  BY DEF Init
<1>4. /\ \A m : ThreadsBy(m) = {}
      /\ \A m : PostsBy(m) = {}
  BY <1>3 DEF ThreadsBy, PostsBy
<1>5. BoardTotals /\ MemberTotals /\ ThreadTotals
  BY <1>2, <1>3, <1>4 DEF Init, BoardTotals, MemberTotals, ThreadTotals
<1> QED BY <1>1, <1>5, TypeInit DEF IInv

(* and every step keeps it.                                                *)
LEMMA IInvStep == IInv /\ [Next]_vars => IInv'
  BY TypeStep, PhaseStep, IdInvStep, LockInvStep, DraftInvStep, TotalsStep
  DEF IInv

(* Row locks, ids and uncommitted row versions are always as the totals    *)
(* need them: a request holds the locks of the rows it has updated, its    *)
(* drafts count from the committed rows, and nobody else has its ids.      *)
THEOREM Inductive == Spec => []IInv
  BY IInvInit, IInvStep, PTL DEF Spec

(* Every variable keeps its type, for any number of members and requests   *)
(* and whatever the interleaving of their transactions.                    *)
THEOREM TypeCorrect == Spec => []TypeOK
<1>1. IInv => TypeOK
  BY DEF IInv
<1> QED BY <1>1, Inductive, PTL

(* The board's totals, kept by the triggers, are always the numbers of     *)
(* committed threads and posts.                                            *)
THEOREM BoardTotalsCorrect == Spec => []BoardTotals
<1>1. IInv => BoardTotals
  BY DEF IInv
<1> QED BY <1>1, Inductive, PTL

(* Each member's totals are always the numbers of committed threads and    *)
(* posts the member wrote.                                                 *)
THEOREM MemberTotalsCorrect == Spec => []MemberTotals
<1>1. IInv => MemberTotals
  BY DEF IInv
<1> QED BY <1>1, Inductive, PTL

(* Each thread's number of posts is always that of its committed posts.    *)
THEOREM ThreadTotalsCorrect == Spec => []ThreadTotals
<1>1. IInv => ThreadTotals
  BY DEF IInv
<1> QED BY <1>1, Inductive, PTL

=============================================================================
