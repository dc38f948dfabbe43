---------------------------- MODULE SignInProofs ----------------------------
(***************************************************************************)
(* Proofs about SignIn, for any addresses, spellings, requests and pool    *)
(* size.                                                                   *)
(***************************************************************************)
EXTENDS SignInInduction, FiniteSetTheorems, TLAPS

-----------------------------------------------------------------------------
(* The actions that touch no table, and those among them that leave the    *)
(* request's record alone.                                                 *)
Reading(r) == CountMembers(r) \/ FindMember(r) \/ MissMember(r) \/ CountUp(r)
Moving(r) ==
  \/ WhoIsFails(r) \/ InsertMember(r) \/ InsertDuplicate(r)
  \/ InsertProfile(r) \/ TurnAway(r) \/ ServePage(r) \/ RefuseAdmin(r)
  \/ EnterAdmin(r) \/ BlockNobody(r) \/ Fail(r)

Committing(r) == Commit(r) \/ CommitUnheard(r)

LEMMA NextCases ==
  ASSUME Next
  PROVE  \E r \in Request : \/ Identify(r) \/ Reading(r) \/ Moving(r)
                            \/ Committing(r) \/ BlockMember(r)
  BY DEF Next, Step, Reading, Moving, Committing

(* What a reading step does to the record.                                 *)
LEMMA ReadingRecord ==
  ASSUME TypeOK, NEW r \in Request, Reading(r)
  PROVE  /\ tx[r] \in Tx
         /\ tx' = [tx EXCEPT ![r] = tx'[r]]
         /\ tx'[r] \in Tx
         /\ tx'[r].email = tx[r].email
         /\ tx'[r].wasBlocked = tx[r].wasBlocked
<1>1. tx[r] \in Tx
  BY DEF TypeOK, Reading, CountMembers, FindMember, MissMember, CountUp
<1>2. tx \in [Request -> {NoTx} \cup Tx]
  BY DEF TypeOK
<1>3. CASE CountMembers(r)
  BY <1>1, <1>2, <1>3 DEF CountMembers, Tx
<1>4. CASE FindMember(r)
  BY <1>1, <1>2, <1>4 DEF TypeOK, FindMember, Found, Tx, MemberRow
<1>5. CASE MissMember(r)
  BY <1>1, <1>2, <1>5 DEF MissMember, Missed, Tx
<1>6. CASE CountUp(r)
  BY <1>1, <1>2, <1>6 DEF TypeOK, CountUp, Tx
<1> QED BY <1>1, <1>3, <1>4, <1>5, <1>6 DEF Reading


(* The other requests do not notice a step.                                *)
LEMMA OthersKept ==
  ASSUME TypeOK, NEW r \in Request, NEW q \in Request \ {r},
         \/ Identify(r) \/ Reading(r) \/ Moving(r)
         \/ Committing(r) \/ BlockMember(r)
  PROVE  pc'[q] = pc[q] /\ tx'[q] = tx[q]
<1>1. CASE Identify(r)
  BY <1>1 DEF TypeOK, Identify, Goto
<1>2. CASE Reading(r)
  BY <1>2, ReadingRecord DEF TypeOK, Reading, CountMembers, FindMember,
     MissMember, CountUp, Goto
<1>3. CASE Moving(r)
  BY <1>3 DEF TypeOK, Moving, WhoIsFails, InsertMember, InsertDuplicate,
     InsertProfile, TurnAway, ServePage, RefuseAdmin, EnterAdmin,
     BlockNobody, Fail, Goto
<1>4. CASE Committing(r)
  BY <1>4 DEF TypeOK, Committing, Commit, CommitUnheard, Install, Goto
<1>5. CASE BlockMember(r)
  BY <1>5 DEF TypeOK, BlockMember, Goto
<1> QED BY <1>1, <1>2, <1>3, <1>4, <1>5

-----------------------------------------------------------------------------
(* Types.                                                                  *)

LEMMA IdentifyTyped ==
  ASSUME TypeOK, NEW r \in Request, Identify(r)
  PROVE  TypeOK'
<1>0. \A e \in Email : BlockedAddress(Lower(e)) \in BOOLEAN
  BY DEF BlockedAddress
<1>1. tx' \in [Request -> Tx \cup {NoTx}] /\ tx'[r] \in Tx
  BY <1>0 DEF TypeOK, Identify, Tx
<1>2. pc' \in [Request -> {"idle", "count", "decide", "block"}
                            \cup Statements \cup Answers]
  BY DEF TypeOK, Identify, Goto
<1>3. \A q \in Request :
        pc'[q] \notin {"idle", "unauthorized"} => tx'[q] \in Tx
  BY <1>1, OthersKept DEF TypeOK
<1> QED BY <1>1, <1>2, <1>3 DEF TypeOK, Identify

LEMMA ReadingTyped ==
  ASSUME TypeOK, NEW r \in Request, Reading(r)
  PROVE  TypeOK'
<1>1. tx' \in [Request -> Tx \cup {NoTx}] /\ tx'[r] \in Tx
  BY ReadingRecord DEF TypeOK
<1>2. pc' \in [Request -> {"idle", "count", "decide", "block"}
                            \cup Statements \cup Answers]
  BY DEF TypeOK, Reading, CountMembers, FindMember, MissMember, CountUp,
     Goto, Statements
<1>3. \A q \in Request :
        pc'[q] \notin {"idle", "unauthorized"} => tx'[q] \in Tx
  BY <1>1, OthersKept DEF TypeOK
<1>4. UNCHANGED <<member, profile, total>>
  BY DEF Reading, CountMembers, FindMember, MissMember, CountUp
<1> QED BY <1>1, <1>2, <1>3, <1>4 DEF TypeOK

LEMMA MovingTyped ==
  ASSUME TypeOK, NEW r \in Request, Moving(r)
  PROVE  TypeOK'
<1>1. UNCHANGED <<member, profile, total, tx>>
  BY DEF Moving, WhoIsFails, InsertMember, InsertDuplicate, InsertProfile,
     TurnAway, ServePage, RefuseAdmin, EnterAdmin, BlockNobody, Fail
<1>2. pc' \in [Request -> {"idle", "count", "decide", "block"}
                            \cup Statements \cup Answers]
  BY DEF TypeOK, Moving, WhoIsFails, InsertMember, InsertDuplicate,
     InsertProfile, TurnAway, ServePage, RefuseAdmin, EnterAdmin,
     BlockNobody, Fail, Goto, Statements, Answers
<1>3. pc'[r] = "unauthorized" \/ tx[r] \in Tx
  BY DEF TypeOK, Moving, WhoIsFails, InsertMember, InsertDuplicate,
     InsertProfile, TurnAway, ServePage, RefuseAdmin, EnterAdmin,
     BlockNobody, Fail, Goto, Statements
<1>4. \A q \in Request :
        pc'[q] \notin {"idle", "unauthorized"} => tx'[q] \in Tx
  BY <1>1, <1>3, OthersKept DEF TypeOK
<1> QED BY <1>1, <1>2, <1>4 DEF TypeOK

LEMMA CommittingTyped ==
  ASSUME TypeOK, NEW r \in Request, Committing(r)
  PROVE  TypeOK'
<1>1. tx[r] \in Tx /\ pc[r] = "commit" /\ UNCHANGED tx
  BY DEF TypeOK, Committing, Commit, CommitUnheard, Install
<1>2. pc' \in [Request -> {"idle", "count", "decide", "block"}
                            \cup Statements \cup Answers]
  BY DEF TypeOK, Committing, Commit, CommitUnheard, Goto, Answers
<1>3. tx[r].email \in Email /\ NewRow(r) \in MemberRow /\ tx[r].total \in Nat
  BY <1>1 DEF Tx, NewRow, MemberRow
<1>4. /\ DOMAIN member' \subseteq Email
      /\ member' \in [DOMAIN member' -> MemberRow]
      /\ profile' \subseteq Email
      /\ total' \in Nat
  BY <1>3 DEF TypeOK, Committing, Commit, CommitUnheard, Install
<1>5. \A q \in Request :
        pc'[q] \notin {"idle", "unauthorized"} => tx'[q] \in Tx
  BY <1>1, OthersKept DEF TypeOK
<1> QED BY <1>1, <1>2, <1>4, <1>5 DEF TypeOK

(* A block leaves every row in place and its admin flag as it was.         *)
LEMMA BlockMemberRows ==
  ASSUME TypeOK, NEW r \in Request, BlockMember(r)
  PROVE  /\ DOMAIN member' = DOMAIN member
         /\ member' \in [DOMAIN member -> MemberRow]
         /\ \A e \in DOMAIN member :
              /\ member'[e].admin = member[e].admin
              /\ member[e].blocked => member'[e].blocked
<1>1. PICK e \in DOMAIN member :
        member' = [member EXCEPT ![e].blocked = TRUE]
  BY DEF BlockMember
<1>2. /\ [member[e] EXCEPT !.blocked = TRUE] \in MemberRow
      /\ [member[e] EXCEPT !.blocked = TRUE].admin = member[e].admin
      /\ [member[e] EXCEPT !.blocked = TRUE].blocked
  BY DEF TypeOK, MemberRow
<1> QED BY <1>1, <1>2 DEF TypeOK

LEMMA BlockMemberTyped ==
  ASSUME TypeOK, NEW r \in Request, BlockMember(r)
  PROVE  TypeOK'
<1>1. tx[r] \in Tx /\ UNCHANGED <<profile, total, tx>>
  BY DEF TypeOK, BlockMember
<1>2. pc' \in [Request -> {"idle", "count", "decide", "block"}
                            \cup Statements \cup Answers]
  BY DEF TypeOK, BlockMember, Goto, Answers
<1>3. \A q \in Request :
        pc'[q] \notin {"idle", "unauthorized"} => tx'[q] \in Tx
  BY <1>1, OthersKept DEF TypeOK
<1> QED BY <1>1, <1>2, <1>3, BlockMemberRows DEF TypeOK

LEMMA TypeStep ==
  ASSUME TypeOK, [Next]_vars
  PROVE  TypeOK'
<1>1. CASE Next
  BY <1>1, NextCases, IdentifyTyped, ReadingTyped, MovingTyped,
     CommittingTyped, BlockMemberTyped
<1>2. CASE UNCHANGED vars
  BY <1>2 DEF TypeOK, vars
<1> QED BY <1>1, <1>2

LEMMA TypeInit == Init => TypeOK
  BY DEF Init, TypeOK

(* Every variable keeps its type.                                          *)
THEOREM TypeCorrect == Spec => []TypeOK
<1>1. Init => TypeOK
  BY TypeInit
<1>2. TypeOK /\ [Next]_vars => TypeOK'
  BY TypeStep
<1> QED BY <1>1, <1>2, PTL DEF Spec


-----------------------------------------------------------------------------
(* What each class of steps leaves to the safety argument.                 *)

LEMMA TablesKept ==
  ASSUME NEW r \in Request, Identify(r) \/ Reading(r) \/ Moving(r)
  PROVE  UNCHANGED <<member, profile, total>>
  BY DEF Identify, Reading, CountMembers, FindMember, MissMember, CountUp,
     Moving, WhoIsFails, InsertMember, InsertDuplicate, InsertProfile,
     TurnAway, ServePage, RefuseAdmin, EnterAdmin, BlockNobody, Fail

(* A request comes to hold its address by InsertMember only, and the row   *)
(* of the board by CountUp only.                                           *)
LEMMA HolderStep ==
  ASSUME TypeOK, NEW r \in Request, Identify(r) \/ Reading(r) \/ Moving(r)
  PROVE  /\ pc'[r] \in KeyHolder =>
              /\ tx'[r].email = tx[r].email
              /\ pc[r] \in KeyHolder \/ KeyFree(r)
         /\ HoldsBoard(r)' =>
              \/ HoldsBoard(r) /\ tx'[r].total = tx[r].total
              \/ BoardFree(r) /\ tx'[r].total = total + 1
<1>1. CASE Identify(r)
  BY <1>1 DEF TypeOK, Identify, Goto, KeyHolder, HoldsBoard
<1>2. CASE CountMembers(r) \/ FindMember(r) \/ MissMember(r)
  BY <1>2 DEF TypeOK, CountMembers, FindMember, MissMember, Goto, KeyHolder,
     HoldsBoard
<1>3. CASE CountUp(r)
  <2>1. tx'[r].total = total + 1 /\ tx'[r].email = tx[r].email
    BY <1>3, ReadingRecord DEF TypeOK, CountUp, Reading, Tx
  <2> QED BY <1>3, <2>1 DEF TypeOK, CountUp, Goto, KeyHolder, HoldsBoard
<1>4. CASE Moving(r)
  BY <1>4 DEF TypeOK, Moving, WhoIsFails, InsertMember, InsertDuplicate,
     InsertProfile, TurnAway, ServePage, RefuseAdmin, EnterAdmin,
     BlockNobody, Fail, Goto, KeyHolder, HoldsBoard
<1> QED BY <1>1, <1>2, <1>3, <1>4 DEF Reading

(* A commit adds one row of its own to the table, for an address that had  *)
(* none.                                                                   *)
LEMMA CommittingRows ==
  ASSUME TypeOK, KeyInv, NEW r \in Request, Committing(r)
  PROVE  /\ pc[r] \in KeyHolder /\ HoldsBoard(r)
         /\ pc'[r] \in {"decide", "error"}
         /\ UNCHANGED tx
         /\ tx[r].email \notin DOMAIN member
         /\ DOMAIN member' = DOMAIN member \cup {tx[r].email}
         /\ member'[tx[r].email] = NewRow(r)
         /\ \A e \in DOMAIN member : member'[e] = member[e]
         /\ profile' = profile \cup {tx[r].email}
         /\ total' = tx[r].total
<1>1. pc[r] \in KeyHolder /\ HoldsBoard(r) /\ ~Taken(Lower(tx[r].email))
  BY DEF Committing, Commit, CommitUnheard, Install, KeyHolder, HoldsBoard,
     KeyInv
<1>2. tx[r].email \notin DOMAIN member
  BY <1>1 DEF Taken
<1> QED BY <1>1, <1>2 DEF TypeOK, Committing, Commit, CommitUnheard, Install,
        Goto

-----------------------------------------------------------------------------
(* One step of the inductive invariant, part by part.                      *)

LEMMA KeyStep ==
  ASSUME IInv, Next
  PROVE  KeyInv'
<1> USE DEF IInv
<1>0. PICK r \in Request : \/ Identify(r) \/ Reading(r) \/ Moving(r)
                          \/ Committing(r) \/ BlockMember(r)
  BY NextCases
<1>1. \A q \in Request \ {r} : pc'[q] = pc[q] /\ tx'[q] = tx[q]
  BY <1>0, OthersKept
<1>2. CASE Identify(r) \/ Reading(r) \/ Moving(r)
  <2>1. \A a : Taken(a)' <=> Taken(a)
    BY <1>2, TablesKept DEF Taken
  <2>2. pc'[r] \in KeyHolder =>
          /\ tx'[r].email = tx[r].email
          /\ ~Taken(Lower(tx[r].email))
          /\ \A q \in Request \ {r} : pc[q] \in KeyHolder =>
               Lower(tx[q].email) # Lower(tx[r].email)
    BY <1>2, HolderStep DEF KeyInv, KeyFree, HoldsKey, KeyHolder
  <2> QED BY <1>1, <2>1, <2>2 DEF KeyInv
<1>3. CASE Committing(r)
  <2>1. pc'[r] \notin KeyHolder /\ UNCHANGED tx
    BY <1>3, CommittingRows DEF KeyHolder
  <2>2. DOMAIN member' = DOMAIN member \cup {tx[r].email}
    BY <1>3, CommittingRows
  <2>3. pc[r] \in KeyHolder
    BY <1>3, CommittingRows
  <2>4. \A q \in Request \ {r} : pc[q] \in KeyHolder =>
          \A e \in DOMAIN member' : Lower(e) # Lower(tx[q].email)
    BY <2>2, <2>3 DEF KeyInv, Taken
  <2> QED BY <1>1, <2>1, <2>4 DEF KeyInv, Taken
<1>4. CASE BlockMember(r)
  <2>1. pc'[r] \notin KeyHolder /\ UNCHANGED tx
    BY <1>4 DEF TypeOK, BlockMember, Goto, KeyHolder
  <2>2. \A a : Taken(a)' <=> Taken(a)
    BY <1>4, BlockMemberRows DEF Taken
  <2> QED BY <1>1, <2>1, <2>2 DEF KeyInv
<1> QED BY <1>0, <1>2, <1>3, <1>4

LEMMA TotalStep ==
  ASSUME IInv, Next
  PROVE  TotalInv'
<1> USE DEF IInv
<1>0. PICK r \in Request : \/ Identify(r) \/ Reading(r) \/ Moving(r)
                          \/ Committing(r) \/ BlockMember(r)
  BY NextCases
<1>1. \A q \in Request \ {r} : pc'[q] = pc[q] /\ tx'[q] = tx[q]
  BY <1>0, OthersKept
<1>2. CASE Identify(r) \/ Reading(r) \/ Moving(r)
  <2>1. total' = total
    BY <1>2, TablesKept
  <2>2. pc'[r] \in {"profile", "commit"} =>
          /\ tx'[r].total = total + 1
          /\ \A q \in Request \ {r} : pc[q] \notin {"profile", "commit"}
    BY <1>2, HolderStep DEF TotalInv, BoardFree, HoldsBoard
  <2> QED BY <1>1, <2>1, <2>2 DEF TotalInv, HoldsBoard
<1>3. CASE Committing(r)
  <2>1. pc'[r] \notin {"profile", "commit"}
    BY <1>3, CommittingRows
  <2>2. \A q \in Request \ {r} : pc[q] \notin {"profile", "commit"}
    BY <1>3, CommittingRows DEF TotalInv, HoldsBoard
  <2> QED BY <1>1, <2>1, <2>2 DEF TotalInv, HoldsBoard
<1>4. CASE BlockMember(r)
  <2>1. pc'[r] \notin {"profile", "commit"} /\ total' = total
    BY <1>4 DEF TypeOK, BlockMember, Goto
  <2> QED BY <1>1, <2>1 DEF TotalInv, HoldsBoard
<1> QED BY <1>0, <1>2, <1>3, <1>4

(* What a request carries from its count to its INSERT.                    *)
LEMMA AdminCarried ==
  ASSUME TypeOK, EmptyInv, NEW r \in Request, DOMAIN member = {},
         Identify(r) \/ Reading(r) \/ Moving(r)
  PROVE  /\ pc'[r] = "find" => tx'[r].empty
         /\ pc'[r] \in {"insert"} \cup KeyHolder => tx'[r].admin
<1>1. CASE Identify(r)
  BY <1>1 DEF TypeOK, Identify, Goto, KeyHolder
<1>2. CASE CountMembers(r)
  <2>1. tx[r] \in Tx /\ tx'[r].empty
    BY <1>2, ReadingRecord DEF TypeOK, CountMembers, Reading, Tx
  <2> QED BY <1>2, <2>1 DEF TypeOK, CountMembers, Goto, KeyHolder
<1>3. CASE FindMember(r)
  BY <1>3 DEF FindMember
<1>4. CASE MissMember(r)
  <2>1. tx[r] \in Tx /\ tx[r].empty /\ tx'[r].admin = tx[r].empty
    BY <1>4, ReadingRecord DEF TypeOK, MissMember, Missed, Reading, Tx,
       EmptyInv
  <2> QED BY <1>4, <2>1 DEF TypeOK, MissMember, Goto, KeyHolder
<1>5. CASE CountUp(r)
  <2>1. tx[r].admin
    BY <1>5 DEF EmptyInv, CountUp, KeyHolder
  <2>2. tx'[r].admin = tx[r].admin
    BY <1>5, ReadingRecord DEF TypeOK, CountUp, Reading, Tx
  <2> QED BY <1>5, <2>1, <2>2 DEF TypeOK, CountUp, Goto
<1>6. CASE Moving(r)
  BY <1>6 DEF TypeOK, EmptyInv, Moving, WhoIsFails, InsertMember,
     InsertDuplicate, InsertProfile, TurnAway, ServePage, RefuseAdmin,
     EnterAdmin, BlockNobody, Fail, Goto, KeyHolder
<1> QED BY <1>1, <1>2, <1>3, <1>4, <1>5, <1>6 DEF Reading

LEMMA EmptyStep ==
  ASSUME IInv, Next
  PROVE  EmptyInv'
<1> USE DEF IInv
<1>0. PICK r \in Request : \/ Identify(r) \/ Reading(r) \/ Moving(r)
                          \/ Committing(r) \/ BlockMember(r)
  BY NextCases
<1>1. \A q \in Request \ {r} : pc'[q] = pc[q] /\ tx'[q] = tx[q]
  BY <1>0, OthersKept
<1>2. CASE Identify(r) \/ Reading(r) \/ Moving(r)
  BY <1>1, <1>2, TablesKept, AdminCarried DEF EmptyInv
<1>3. CASE Committing(r)
  BY <1>3, CommittingRows DEF EmptyInv
<1>4. CASE BlockMember(r)
  BY <1>4, BlockMemberRows DEF EmptyInv, BlockMember
<1> QED BY <1>0, <1>2, <1>3, <1>4


LEMMA TablesStep ==
  ASSUME IInv, Next
  PROVE  /\ IsFiniteSet(DOMAIN member)'
         /\ SignUpIsWhole'
         /\ OneMemberPerAddress'
         /\ SomeoneIsAdmin'
<1> USE DEF IInv
<1>0. PICK r \in Request : \/ Identify(r) \/ Reading(r) \/ Moving(r)
                          \/ Committing(r) \/ BlockMember(r)
  BY NextCases
<1>2. CASE Identify(r) \/ Reading(r) \/ Moving(r)
  BY <1>2, TablesKept DEF SignUpIsWhole, OneMemberPerAddress, SomeoneIsAdmin
<1>3. CASE Committing(r)
  <2> DEFINE new == tx[r].email
  <2>1. /\ DOMAIN member' = DOMAIN member \cup {new} /\ new \notin DOMAIN member
        /\ member'[new] = NewRow(r)
        /\ \A e \in DOMAIN member : member'[e] = member[e]
        /\ profile' = profile \cup {new} /\ total' = tx[r].total
        /\ pc[r] \in KeyHolder /\ HoldsBoard(r)
    BY <1>3, CommittingRows
  <2>2. /\ IsFiniteSet(DOMAIN member')
        /\ Cardinality(DOMAIN member') = Cardinality(DOMAIN member) + 1
    BY <2>1, FS_AddElement
  <2>3. total' = total + 1
    BY <2>1 DEF TotalInv
  <2>4. SignUpIsWhole'
    BY <2>1, <2>2, <2>3 DEF SignUpIsWhole
  <2>5. \A e \in DOMAIN member : Lower(e) # Lower(new)
    BY <2>1 DEF KeyInv, Taken
  <2>6. OneMemberPerAddress'
    BY <2>1, <2>5 DEF OneMemberPerAddress
  <2>7. SomeoneIsAdmin'
    <3>1. CASE DOMAIN member = {}
      BY <2>1, <3>1 DEF EmptyInv, SomeoneIsAdmin, NewRow
    <3>2. CASE DOMAIN member # {}
      BY <2>1, <3>2 DEF SomeoneIsAdmin
    <3> QED BY <3>1, <3>2
  <2> QED BY <2>2, <2>4, <2>6, <2>7
<1>4. CASE BlockMember(r)
  <2>1. UNCHANGED <<profile, total>>
    BY <1>4 DEF BlockMember
  <2> QED BY <1>4, <2>1, BlockMemberRows DEF SignUpIsWhole,
          OneMemberPerAddress, SomeoneIsAdmin
<1> QED BY <1>0, <1>2, <1>3, <1>4

(* No step takes an address from the table or lifts a block.               *)
LEMMA AddressesKept ==
  ASSUME IInv, Next
  PROVE  /\ \A a : Taken(a) => Taken(a)'
         /\ \A a : BlockedAddress(a) => BlockedAddress(a)'
<1> USE DEF IInv
<1>0. PICK r \in Request : \/ Identify(r) \/ Reading(r) \/ Moving(r)
                          \/ Committing(r) \/ BlockMember(r)
  BY NextCases
<1>1. CASE Identify(r) \/ Reading(r) \/ Moving(r)
  BY <1>1, TablesKept DEF Taken, BlockedAddress
<1>2. CASE Committing(r)
  BY <1>2, CommittingRows DEF Taken, BlockedAddress
<1>3. CASE BlockMember(r)
  BY <1>3, BlockMemberRows DEF Taken, BlockedAddress
<1> QED BY <1>0, <1>1, <1>2, <1>3

LEMMA DuplicateStep ==
  ASSUME IInv, Next
  PROVE  DuplicateHasMember'
<1> USE DEF IInv
<1>0. PICK r \in Request : \/ Identify(r) \/ Reading(r) \/ Moving(r)
                          \/ Committing(r) \/ BlockMember(r)
  BY NextCases
<1>1. \A q \in Request \ {r} : pc'[q] = pc[q] /\ tx'[q] = tx[q]
  BY <1>0, OthersKept
<1>2. pc'[r] = "duplicate" =>
        Taken(Lower(tx[r].email)) /\ tx'[r].email = tx[r].email
  <2>1. CASE Identify(r) \/ Reading(r)
    BY <2>1 DEF TypeOK, Identify, Reading, CountMembers, FindMember,
       MissMember, CountUp, Goto
  <2>2. CASE Moving(r)
    BY <2>2 DEF TypeOK, Moving, WhoIsFails, InsertMember, InsertDuplicate,
       KeyTaken, InsertProfile, TurnAway, ServePage, RefuseAdmin,
       EnterAdmin, BlockNobody, Fail, Goto
  <2>3. CASE Committing(r)
    BY <2>3, CommittingRows
  <2>4. CASE BlockMember(r)
    BY <2>4 DEF TypeOK, BlockMember, Goto
  <2> QED BY <1>0, <2>1, <2>2, <2>3, <2>4
<1>3. \A q \in Request : pc'[q] = "duplicate" =>
        Taken(Lower(tx[q].email)) /\ tx'[q].email = tx[q].email
  BY <1>1, <1>2 DEF DuplicateHasMember
<1>4. \A a : Taken(a) => \E e \in DOMAIN member' : Lower(e) = a
  BY AddressesKept DEF Taken
<1> QED BY <1>3, <1>4 DEF DuplicateHasMember, Taken

(* A request whose address was blocked when it arrived, after a step.      *)
LEMMA BlockedCarried ==
  ASSUME IInv, NEW r \in Request,
         \/ Identify(r) \/ Reading(r) \/ Moving(r)
         \/ Committing(r) \/ BlockMember(r),
         pc'[r] \notin {"idle", "unauthorized"}, tx'[r].wasBlocked
  PROVE  /\ BlockedAddress(Lower(tx'[r].email))
         /\ pc'[r] = "decide" => tx'[r].blocked
         /\ pc'[r] \notin {"ok", "forbidden", "block"}
<1> USE DEF IInv
<1>1. CASE Identify(r)
  <2>1. PICK e \in Email :
          /\ tx'[r].email = e
          /\ tx'[r].wasBlocked => BlockedAddress(Lower(e))
    BY <1>1 DEF TypeOK, Identify, BlockedAddress
  <2>2. pc'[r] = "count"
    BY <1>1 DEF TypeOK, Identify, Goto
  <2> QED BY <2>1, <2>2
<1>2. CASE Reading(r)
  <2>1. /\ tx'[r].email = tx[r].email
        /\ tx[r].wasBlocked
        /\ pc[r] \notin {"idle", "unauthorized"}
    BY <1>2, ReadingRecord DEF Reading, CountMembers, FindMember, MissMember,
       CountUp
  <2>2. BlockedAddress(Lower(tx[r].email))
    BY <2>1 DEF BlockInv
  <2>3. CASE FindMember(r)
    <3>1. member[tx[r].email].blocked
      BY <2>2, <2>3 DEF BlockedAddress, OneMemberPerAddress, FindMember
    <3>2. tx'[r].blocked = member[tx[r].email].blocked
      BY <2>3, ReadingRecord DEF TypeOK, FindMember, Found, Reading, Tx
    <3>3. pc'[r] = "decide"
      BY <2>3 DEF TypeOK, FindMember, Goto
    <3> QED BY <2>1, <2>2, <3>1, <3>2, <3>3
  <2>4. CASE CountMembers(r) \/ MissMember(r) \/ CountUp(r)
    <3>1. pc'[r] \in {"find", "insert", "profile"}
      BY <2>4 DEF TypeOK, CountMembers, MissMember, CountUp, Goto
    <3> QED BY <2>1, <2>2, <3>1
  <2> QED BY <1>2, <2>3, <2>4 DEF Reading
<1>3. CASE Moving(r)
  <2>1. UNCHANGED tx
    BY <1>3 DEF Moving, WhoIsFails, InsertMember, InsertDuplicate,
       InsertProfile, TurnAway, ServePage, RefuseAdmin, EnterAdmin,
       BlockNobody, Fail
  <2>2. /\ pc[r] \notin {"idle", "unauthorized"}
        /\ pc'[r] # "decide"
        /\ pc'[r] \in {"ok", "forbidden", "block"} =>
             (pc[r] = "decide" /\ ~tx[r].blocked) \/ pc[r] = "block"
    BY <1>3 DEF TypeOK, Moving, WhoIsFails, InsertMember, InsertDuplicate,
       InsertProfile, TurnAway, ServePage, RefuseAdmin, EnterAdmin,
       BlockNobody, Fail, Goto, Admitted, Statements
  <2> QED BY <2>1, <2>2 DEF BlockInv, BlockedStaysOut
<1>4. CASE Committing(r)
  <2>1. /\ UNCHANGED tx /\ pc[r] \in KeyHolder
        /\ ~Taken(Lower(tx[r].email))
    BY <1>4, CommittingRows DEF KeyInv
  <2>2. BlockedAddress(Lower(tx[r].email))
    BY <2>1 DEF BlockInv, KeyHolder
  <2> QED BY <2>1, <2>2 DEF Taken, BlockedAddress
<1>5. CASE BlockMember(r)
  BY <1>5 DEF BlockMember, BlockedStaysOut
<1> QED BY <1>1, <1>2, <1>3, <1>4, <1>5

LEMMA BlockStep ==
  ASSUME IInv, Next
  PROVE  BlockInv' /\ BlockedStaysOut'
<1> USE DEF IInv
<1>0. PICK r \in Request : \/ Identify(r) \/ Reading(r) \/ Moving(r)
                          \/ Committing(r) \/ BlockMember(r)
  BY NextCases
<1>1. \A q \in Request \ {r} : pc'[q] = pc[q] /\ tx'[q] = tx[q]
  BY <1>0, OthersKept
<1>2. \A q \in Request :
        pc'[q] \notin {"idle", "unauthorized"} /\ tx'[q].wasBlocked =>
          /\ BlockedAddress(Lower(tx'[q].email))
          /\ pc'[q] = "decide" => tx'[q].blocked
          /\ pc'[q] \notin {"ok", "forbidden", "block"}
  <2>1. ASSUME NEW q \in Request \ {r},
               pc'[q] \notin {"idle", "unauthorized"}, tx'[q].wasBlocked
        PROVE  /\ BlockedAddress(Lower(tx'[q].email))
               /\ pc'[q] = "decide" => tx'[q].blocked
               /\ pc'[q] \notin {"ok", "forbidden", "block"}
    BY <1>1, <2>1 DEF BlockInv, BlockedStaysOut
  <2> QED BY <1>0, <2>1, BlockedCarried
<1>3. \A a : BlockedAddress(a) =>
        \E e \in DOMAIN member' : Lower(e) = a /\ member'[e].blocked
  BY AddressesKept DEF BlockedAddress
<1> QED BY <1>2, <1>3 DEF BlockInv, BlockedStaysOut, BlockedAddress

-----------------------------------------------------------------------------
LEMMA InductiveInit == Init => IInv
<1> SUFFICES ASSUME Init PROVE IInv
  OBVIOUS
<1>1. DOMAIN member = {} /\ profile = {} /\ total = 0
  BY DEF Init
<1>2. IsFiniteSet(DOMAIN member) /\ Cardinality(DOMAIN member) = 0
  BY <1>1, FS_EmptySet
<1>3. \A r \in Request : pc[r] = "idle"
  BY DEF Init
<1> QED BY <1>1, <1>2, <1>3, TypeInit DEF IInv, SignUpIsWhole,
        OneMemberPerAddress, SomeoneIsAdmin, DuplicateHasMember,
        BlockedStaysOut, KeyInv, KeyHolder, TotalInv, HoldsBoard, EmptyInv,
        BlockInv

LEMMA InductiveStep ==
  ASSUME IInv, [Next]_vars
  PROVE  IInv'
<1>1. CASE Next
  BY <1>1, TypeStep, TablesStep, KeyStep, TotalStep, EmptyStep,
     DuplicateStep, BlockStep DEF IInv
<1>2. CASE UNCHANGED vars
  BY <1>2 DEF vars, IInv, TypeOK, SignUpIsWhole, OneMemberPerAddress,
     SomeoneIsAdmin, DuplicateHasMember, BlockedStaysOut, KeyInv, TotalInv,
     HoldsBoard, EmptyInv, BlockInv, Taken, BlockedAddress
<1> QED BY <1>1, <1>2

(* The inductive invariant holds in every reachable state: unfinished      *)
(* sign-ups exclude each other by address and by the row of the board.     *)
THEOREM Inductive == Spec => []IInv
<1>1. Init => IInv
  BY InductiveInit
<1>2. IInv /\ [Next]_vars => IInv'
  BY InductiveStep
<1> QED BY <1>1, <1>2, PTL DEF Spec

(* total_members is the number of members, and each has its profile,       *)
(* however many calls of createOrReturnID overlap or are rolled back.      *)
THEOREM SignUpIsWholeCorrect == Spec => []SignUpIsWhole
<1>1. IInv => SignUpIsWhole
  BY DEF IInv
<1> QED BY <1>1, Inductive, PTL

(* However many first visits of one address race, in whatever spellings,   *)
(* createOrReturnID leaves it one member.                                  *)
THEOREM OneMemberPerAddressCorrect == Spec => []OneMemberPerAddress
<1>1. IInv => OneMemberPerAddress
  BY DEF IInv
<1> QED BY <1>1, Inductive, PTL

(* A board that has members has an admin, whichever first visit commits    *)
(* first.                                                                  *)
THEOREM SomeoneIsAdminCorrect == Spec => []SomeoneIsAdmin
<1>1. IInv => SomeoneIsAdmin
  BY DEF IInv
<1> QED BY <1>1, Inductive, PTL

(* Whoever is refused as a duplicate finds a member at the next visit.     *)
THEOREM DuplicateHasMemberCorrect == Spec => []DuplicateHasMember
<1>1. IInv => DuplicateHasMember
  BY DEF IInv
<1> QED BY <1>1, Inductive, PTL

(* authMiddleware serves no request that arrives after its address was     *)
(* blocked.                                                                *)
THEOREM BlockedStaysOutCorrect == Spec => []BlockedStaysOut
<1>1. IInv => BlockedStaysOut
  BY DEF IInv
<1> QED BY <1>1, Inductive, PTL

=============================================================================
