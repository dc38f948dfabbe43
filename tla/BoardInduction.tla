---------------------------- MODULE BoardInduction ----------------------------
(***************************************************************************)
(* The inductive invariant of Board: what makes TypeOK and the totals of   *)
(* the tables follow from one step to the next.                            *)
(***************************************************************************)
EXTENDS Board

HasPost == {"postMember", "postBoard", "snapshot", "postThread", "checkView",
            "commit"}
Opens(r) == tx[r].op = "thread" /\ pc[r] \in Working \ {"insertThread"}

(* What a request has, given the statement it is about to run.             *)
PhaseInv ==
  \A r \in Request :
    /\ pc[r] \in {"insertThread", "threadMember", "threadBoard", "currval"} =>
         tx[r].op = "thread"
    /\ pc[r] \in HasPost => TargetExists(r)
    /\ pc[r] \in HasPost \cup {"insertPost"} /\ tx[r].op = "thread" =>
         tx[r].target = tx[r].newThread
    /\ pc[r] \in Working /\ tx[r].op = "reply" => tx[r].newThread = NoId
    /\ pc[r] = "postThread" => tx[r].snap \subseteq DOMAIN post

(* An id drawn from a sequence is in use nowhere else, and a post's thread *)
(* exists.                                                                 *)
IdInv ==
  /\ DOMAIN thread \subseteq 1 .. threadSeq
  /\ DOMAIN post \subseteq 1 .. postSeq
  /\ \A p \in DOMAIN post : post[p].thread \in DOMAIN thread
  /\ \A r \in Request :
       /\ Opens(r) => tx[r].newThread \in (1 .. threadSeq) \ DOMAIN thread
       /\ pc[r] \in HasPost => tx[r].newPost \in (1 .. postSeq) \ DOMAIN post
  /\ \A r, q \in Request : r # q =>
       /\ Opens(r) /\ Opens(q) => tx[r].newThread # tx[q].newThread
       /\ pc[r] \in HasPost /\ pc[q] \in HasPost =>
            tx[r].newPost # tx[q].newPost

PastBoard == {"snapshot", "postThread", "checkView", "commit"}
HoldsBoard(r) ==
  \/ pc[r] \in PastBoard \cup {"currval"}
  \/ pc[r] \in {"insertPost", "postMember", "postBoard"} /\ tx[r].op = "thread"
HoldsMember(r) ==
  \/ pc[r] \in PastBoard \cup {"threadBoard", "currval", "postBoard"}
  \/ pc[r] \in {"insertPost", "postMember"} /\ tx[r].op = "thread"

(* Who holds which row lock: no two transactions the same one, and a       *)
(* transaction exactly those of the UPDATEs it is past.                    *)
LockInv ==
  /\ \A r, q \in Request : r # q => held[r] \cap held[q] = {}
  /\ \A r \in Request :
       /\ BoardLock \in held[r] <=> HoldsBoard(r)
       /\ \A m \in Member : MemberLock(m) \in held[r] <=>
                             HoldsMember(r) /\ m = tx[r].author
       /\ held[r] \subseteq {BoardLock} \cup {MemberLock(m) : m \in Member}
                          \cup {ThreadLock(t) : t \in 1 .. threadSeq}
       /\ pc[r] \in {"checkView", "commit"} =>
            ThreadLock(tx[r].target) \in held[r]

One(b) == IF b THEN 1 ELSE 0

(* The row versions a transaction has written: the committed ones and its  *)
(* own increments, which nobody can make stale while it holds the locks.   *)
DraftOf(r) ==
  /\ HoldsBoard(r) =>
       /\ tx[r].board.threads = board.threads + One(tx[r].op = "thread")
       /\ tx[r].board.posts = board.posts + One(pc[r] \in PastBoard)
  /\ HoldsMember(r) =>
       /\ tx[r].member.threads =
            member[tx[r].author].threads + One(tx[r].op = "thread")
       /\ tx[r].member.posts =
            member[tx[r].author].posts
              + One(pc[r] \in PastBoard \cup {"postBoard"})
  /\ pc[r] \in {"checkView", "commit"} =>
       /\ tx[r].thread.member = OwnThread(r).member
       /\ tx[r].thread.posts = OwnThread(r).posts + 1

DraftInv == \A r \in Request : DraftOf(r)

IInv ==
  /\ TypeOK /\ PhaseInv /\ IdInv /\ LockInv /\ DraftInv
  /\ BoardTotals /\ MemberTotals /\ ThreadTotals

-----------------------------------------------------------------------------
(* What the summaries of a thread and the answers need besides IInv.       *)

(* The clock is ahead of every committed post, and a transaction reads it  *)
(* when it begins: a reply is dated after the post that opened its thread. *)
DateInv ==
  /\ \A p \in DOMAIN post : post[p].date < clock
  /\ \A r \in Request : pc[r] \in Working =>
       /\ tx[r].now <= clock
       /\ tx[r].op = "reply" => tx[r].target \in DOMAIN thread \cup {NoId}
       /\ tx[r].op = "reply" /\ tx[r].target \in DOMAIN thread =>
            post[thread[tx[r].target].first].date < tx[r].now

(* The post a thread was opened with is its author's, and strictly the     *)
(* oldest: no reply can ever take its place as first_post_id.              *)
OpenedFirst ==
  \A t \in DOMAIN thread :
    /\ thread[t].first \in ThreadPosts(t)
    /\ post[thread[t].first].member = thread[t].member
    /\ \A p \in ThreadPosts(t) \ {thread[t].first} :
         post[thread[t].first].date < post[p].date

(* What the last statements of a transaction have read is still what is    *)
(* committed: nobody commits while this transaction holds the board's row. *)
ReadOf(r) ==
  /\ pc[r] \in {"postThread", "checkView", "commit"} =>
       tx[r].snap = DOMAIN post
  /\ pc[r] \in {"checkView", "commit"} =>
       /\ tx[r].thread.first \in Earliest(r)
       /\ \E l \in Latest(r) : tx[r].thread.last = PostSeen(r, l).member
  /\ pc[r] = "commit" => tx[r].seen = (ViewsOf(r) # {})

ReadInv == \A r \in Request : ReadOf(r)

SummaryInv ==
  /\ IInv
  /\ DateInv /\ OpenedFirst /\ ReadInv
  /\ LastPoster /\ OneViewPerPoster /\ AnsweredIsStored

=============================================================================
