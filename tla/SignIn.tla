------------------------------- MODULE SignIn -------------------------------
(***************************************************************************)
(* Signing in: authMiddleware (middleware/middleware_auth.go) asks         *)
(* Tailscale who the client is and the database for its member, and the    *)
(* function createOrReturnID (sqlc/schema.sql) creates the member on a     *)
(* first visit.  The rights the function returns decide what the request   *)
(* may do; the one admin operation that changes a member, BlockMember, is  *)
(* modelled with it.                                                       *)
(*                                                                         *)
(* createOrReturnID runs in one implicit transaction at READ COMMITTED:    *)
(* each of its statements sees what is committed when the statement        *)
(* starts.  An INSERT whose key is already in a unique index, put there by *)
(* a transaction still running, waits for that transaction: its COMMIT     *)
(* makes the INSERT fail, its ROLLBACK lets it through.                    *)
(***************************************************************************)
EXTENDS Integers, FiniteSets

CONSTANTS Address,   \* e-mail addresses in lower case
          Spelling,  \* ways of writing an address in upper and lower case
          Request,   \* requests, each served once
          MaxConns   \* connections of the database pool

ASSUME SignInAssumption == MaxConns \in Nat \ {0}

VARIABLES
  member,    \* member: the committed rows, by e-mail
  profile,   \* member_profile: the committed rows, by e-mail of the member
  total,     \* board_data.total_members
  pc,        \* what each request is about to do
  tx         \* what each request knows

vars == <<member, profile, total, pc, tx>>

-----------------------------------------------------------------------------
Email == Address \X Spelling
Lower(e) == e[1]

MemberRow == [admin : BOOLEAN, blocked : BOOLEAN]

(* The statements of createOrReturnID and of its trigger, and the answers. *)
Statements == {"find", "insert", "countUp", "profile", "commit"}
Answers == {"ok", "unauthorized", "forbidden", "notFound", "duplicate",
            "error"}

(* What a request has read, and the total it has written.  wasBlocked      *)
(* remembers, for the properties only, that the address was blocked when   *)
(* the request arrived.                                                    *)
NoTx == [email |-> <<>>]
Tx == [email : Email, empty : BOOLEAN, admin : BOOLEAN, blocked : BOOLEAN,
       total : Nat, wasBlocked : BOOLEAN]

Init ==
  /\ member = [e \in {} |-> <<>>]
  /\ profile = {}
  /\ total = 0
  /\ pc = [r \in Request |-> "idle"]
  /\ tx = [r \in Request |-> NoTx]

Goto(r, label) == pc' = [pc EXCEPT ![r] = label]

(* The rows an unfinished transaction keeps from the others.  Variant: a   *)
(* failed transaction stays open on its connection.                        *)
HoldsKey(q, a) == /\ pc[q] \in {"countUp", "profile", "commit"}
                  /\ Lower(tx[q].email) = a
HoldsBoardStill(q) == pc[q] \in {"profile", "commit", "error"}
HoldsBoard(q) == pc[q] \in {"profile", "commit"}

Taken(a) == \E e \in DOMAIN member : Lower(e) = a
BlockedAddress(a) ==
  \E e \in DOMAIN member : Lower(e) = a /\ member[e].blocked

FreeConnection ==
  Cardinality({q \in Request : pc[q] \in Statements}) < MaxConns

-----------------------------------------------------------------------------
(* GetUserEmail: WhoIs names the client, or fails.                         *)
Identify(r) ==
  /\ pc[r] = "idle"
  /\ \E e \in Email :
       tx' = [tx EXCEPT ![r] =
                [email |-> e, empty |-> FALSE, admin |-> FALSE,
                 blocked |-> FALSE, total |-> 0,
                 wasBlocked |-> BlockedAddress(Lower(e))]]
  /\ Goto(r, "count")
  /\ UNCHANGED <<member, profile, total>>

WhoIsFails(r) ==
  /\ pc[r] = "idle"
  /\ Goto(r, "unauthorized")
  /\ UNCHANGED <<member, profile, total, tx>>

CountMembers(r) ==
  /\ pc[r] = "count"
  /\ FreeConnection
  /\ tx' = [tx EXCEPT ![r].empty = (DOMAIN member = {})]
  /\ Goto(r, "find")
  /\ UNCHANGED <<member, profile, total>>

(* Variant: is_blocked is not read.                                        *)
FoundUnblocked(r, row) ==
  tx' = [tx EXCEPT ![r].admin = tx[r].empty \/ row.admin]

(* v_member_count = 0 overrides the is_admin of the row.                   *)
Found(r, row) ==
  tx' = [tx EXCEPT ![r].admin = tx[r].empty \/ row.admin,
                   ![r].blocked = row.blocked]

(* The function ends when it finds the row.                                *)
FindMember(r) ==
  /\ pc[r] = "find"
  /\ tx[r].email \in DOMAIN member
  /\ Found(r, member[tx[r].email])
  /\ Goto(r, "decide")
  /\ UNCHANGED <<member, profile, total>>

(* Variant: the count is not looked at.                                    *)
MissIsNoAdmin(r) == tx' = [tx EXCEPT ![r].admin = FALSE]

(* SELECT INTO of no row leaves NULLs, which read as false ever after.     *)
Missed(r) == tx' = [tx EXCEPT ![r].admin = tx[r].empty]

MissMember(r) ==
  /\ pc[r] = "find"
  /\ tx[r].email \notin DOMAIN member
  /\ Missed(r)
  /\ Goto(r, "insert")
  /\ UNCHANGED <<member, profile, total>>

-----------------------------------------------------------------------------
(* Variant: the index is on email, not on LOWER(email).                    *)
KeyFreeAsSpelled(r) ==
  /\ tx[r].email \notin DOMAIN member
  /\ \A q \in Request \ {r} : HoldsKey(q, Lower(tx[r].email)) =>
                                tx[q].email # tx[r].email

KeyFree(r) ==
  /\ ~Taken(Lower(tx[r].email))
  /\ \A q \in Request \ {r} : ~HoldsKey(q, Lower(tx[r].email))
KeyTaken(r) == Taken(Lower(tx[r].email))

(* INSERT INTO member, as far as its unique indexes.                       *)
InsertMember(r) ==
  /\ pc[r] = "insert"
  /\ KeyFree(r)
  /\ Goto(r, "countUp")
  /\ UNCHANGED <<member, profile, total, tx>>

(* unique_violation: CreateOrReturnID fails and the client gets a 500.     *)
InsertDuplicate(r) ==
  /\ pc[r] = "insert"
  /\ KeyTaken(r)
  /\ Goto(r, "duplicate")
  /\ UNCHANGED <<member, profile, total, tx>>

BoardFree(r) == \A q \in Request \ {r} : ~HoldsBoard(q)

(* Variants: the trigger reads the total without waiting for the row; it   *)
(* takes its branch for DELETE.                                            *)
CountUpUnlocked(r) ==
  /\ pc[r] = "countUp"
  /\ tx' = [tx EXCEPT ![r].total = total + 1]
  /\ Goto(r, "profile")
  /\ UNCHANGED <<member, profile, total>>
CountDown(r) ==
  /\ pc[r] = "countUp"
  /\ BoardFree(r)
  /\ tx' = [tx EXCEPT ![r].total = total - 1]
  /\ Goto(r, "profile")
  /\ UNCHANGED <<member, profile, total>>

(* The trigger member_sync.                                                *)
CountUp(r) ==
  /\ pc[r] = "countUp"
  /\ BoardFree(r)
  /\ tx' = [tx EXCEPT ![r].total = total + 1]
  /\ Goto(r, "profile")
  /\ UNCHANGED <<member, profile, total>>

InsertProfile(r) ==
  /\ pc[r] = "profile"
  /\ Goto(r, "commit")
  /\ UNCHANGED <<member, profile, total, tx>>

NewRow(r) == [admin |-> tx[r].admin, blocked |-> FALSE]

(* The end of the statement commits.                                       *)
Install(r) ==
  /\ pc[r] = "commit"
  /\ member' = [e \in DOMAIN member \cup {tx[r].email} |->
                  IF e = tx[r].email THEN NewRow(r) ELSE member[e]]
  /\ profile' = profile \cup {tx[r].email}
  /\ total' = tx[r].total
  /\ UNCHANGED tx

Commit(r) == Install(r) /\ Goto(r, "decide")

(* The member is there, but the answer does not reach the server.          *)
CommitUnheard(r) == Install(r) /\ Goto(r, "error")

(* The connection is lost or the client leaves: the transaction rolls      *)
(* back.                                                                   *)
Fail(r) ==
  /\ pc[r] \in Statements \cup {"count", "block"}
  /\ Goto(r, "error")
  /\ UNCHANGED <<member, profile, total, tx>>

-----------------------------------------------------------------------------
Admitted(r) == ~tx[r].blocked

(* The rest of authMiddleware, and the middleware and handler behind it:   *)
(* a page of the member, or AdminPOST.                                     *)
TurnAway(r) ==
  /\ pc[r] = "decide"
  /\ tx[r].blocked
  /\ Goto(r, "notFound")
  /\ UNCHANGED <<member, profile, total, tx>>

ServePage(r) ==
  /\ pc[r] = "decide"
  /\ Admitted(r)
  /\ Goto(r, "ok")
  /\ UNCHANGED <<member, profile, total, tx>>

RefuseAdmin(r) ==
  /\ pc[r] = "decide"
  /\ Admitted(r)
  /\ ~tx[r].admin
  /\ Goto(r, "forbidden")
  /\ UNCHANGED <<member, profile, total, tx>>

EnterAdmin(r) ==
  /\ pc[r] = "decide"
  /\ Admitted(r)
  /\ tx[r].admin
  /\ Goto(r, "block")
  /\ UNCHANGED <<member, profile, total, tx>>

(* delete_member: an UPDATE by id, which may match no row, and whose       *)
(* answer may be lost.                                                     *)
BlockMember(r) ==
  /\ pc[r] = "block"
  /\ FreeConnection
  /\ \E e \in DOMAIN member : member' = [member EXCEPT ![e].blocked = TRUE]
  /\ \E answer \in {"ok", "error"} : Goto(r, answer)
  /\ UNCHANGED <<profile, total, tx>>

BlockNobody(r) ==
  /\ pc[r] = "block"
  /\ FreeConnection
  /\ Goto(r, "ok")
  /\ UNCHANGED <<member, profile, total, tx>>

-----------------------------------------------------------------------------
Step(r) ==
  \/ CountMembers(r) \/ FindMember(r) \/ MissMember(r)
  \/ InsertMember(r) \/ InsertDuplicate(r)
  \/ CountUp(r) \/ InsertProfile(r) \/ Commit(r)
  \/ TurnAway(r) \/ ServePage(r) \/ RefuseAdmin(r) \/ EnterAdmin(r)
  \/ BlockMember(r) \/ BlockNobody(r)

Next ==
  \E r \in Request :
    \/ Identify(r) \/ WhoIsFails(r)
    \/ Step(r)
    \/ CommitUnheard(r)
    \/ Fail(r)

Spec == Init /\ [][Next]_vars

(* A request that has come in is served by its own goroutine and its own   *)
(* session of PostgreSQL; nothing obliges a client to send one or a        *)
(* statement to fail.                                                      *)
FairSpec == Spec /\ \A r \in Request : WF_vars(Step(r))

-----------------------------------------------------------------------------
(* Every variable has its type; a profile belongs to a member.             *)
TypeOK ==
  /\ DOMAIN member \subseteq Email
  /\ member \in [DOMAIN member -> MemberRow]
  /\ profile \subseteq Email
  /\ total \in Nat
  /\ pc \in [Request -> {"idle", "count", "decide", "block"}
                          \cup Statements \cup Answers]
  /\ tx \in [Request -> Tx \cup {NoTx}]
  /\ \A r \in Request : pc[r] \notin {"idle", "unauthorized"} => tx[r] \in Tx

(* What the pages show and GetMember joins: total_members is the number of *)
(* members, and each of them has a profile, however many first visits      *)
(* overlap or break off (createOrReturnID, member_sync).                   *)
SignUpIsWhole ==
  /\ total = Cardinality(DOMAIN member)
  /\ profile = DOMAIN member

(* No address has two members, not even under two spellings: two requests  *)
(* that both found no row are decided by the index (createOrReturnID).     *)
OneMemberPerAddress ==
  \A e, f \in DOMAIN member : Lower(e) = Lower(f) => e = f

(* A board with members has an admin, although the first visits may race   *)
(* and any of them may be rolled back (createOrReturnID).                  *)
SomeoneIsAdmin ==
  DOMAIN member # {} => \E e \in DOMAIN member : member[e].admin

(* A request that lost the race for its address was answered with an       *)
(* error, but the address has its member by then: the reload that follows  *)
(* does not fail for lack of one (createOrReturnID).                       *)
DuplicateHasMember ==
  \A r \in Request : pc[r] = "duplicate" => Taken(Lower(tx[r].email))

(* A request that arrives after its address was blocked is not served,     *)
(* whatever the spelling it comes with and whatever else signs up          *)
(* meanwhile (authMiddleware).                                             *)
BlockedStaysOut ==
  \A r \in Request : pc[r] \notin {"idle", "unauthorized"} =>
    (tx[r].wasBlocked => pc[r] \notin {"ok", "forbidden", "block"})

(* The comment of createOrReturnID: "If there are no members, make this    *)
(* member an admin".  A member who joins a board that has members is not   *)
(* made one.                                                               *)
AdminOnlyOfEmptyBoard ==
  [][\A e \in DOMAIN member' \ DOMAIN member :
       member'[e].admin => DOMAIN member = {}]_vars

(* A request that has come in is answered: waits for an address or for the *)
(* row of the board end (authMiddleware, createOrReturnID).                *)
IsAnswered(r) == pc[r] # "idle" ~> pc[r] \in Answers

=============================================================================
