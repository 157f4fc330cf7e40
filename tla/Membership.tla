----------------------------- MODULE Membership -----------------------------
(***************************************************************************)
(* Who belongs to a family and who administers it: services/family.py,     *)
(* with the branch of services/auth.py in which a member whom an           *)
(* administrator announced completes the registration.                     *)
(*                                                                         *)
(* One family, from the moment its creator has registered it.  Requests    *)
(* load (Begin...) and commit (Commit...) as in Bills; a decision on a     *)
(* request to join loads two rows with two SELECTs.  Names, relations and  *)
(* settings are not told apart, nor which administrator asks: the creator  *)
(* is always one.                                                          *)
(***************************************************************************)
EXTENDS Orm, Integers, FiniteSets

CONSTANTS
  Workers,
  MemberIds,    \* keys of members, each inserted at most once
  Creator,      \* families.created_by
  Phones,
  CreatorPhone,
  InviteIds,    \* keys of invitations, each inserted at most once
  MaxAdmins,    \* _MAX_ADMINS
  Null

ASSUME CreatorAssumption == Creator \in MemberIds /\ CreatorPhone \in Phones
ASSUME WorkersAssumption == IsFiniteSet(Workers)
ASSUME MaxAdminsAssumption == MaxAdmins \in Nat \ {0}   \* the creator is one

VARIABLES
  member,    \* table members
  join,      \* table join_requests, by the member it is about
  invite,    \* table family_invites
  issued,    \* keys already used by an INSERT
  req,       \* what each worker holds in memory
  pool       \* the workers this deployment runs, fixed when it starts

vars == <<member, join, invite, issued, req, pool>>

-----------------------------------------------------------------------------
\* status: has the member registered; state: membership_state.
MemberRow == [phone: Phones, role: {"owner", "admin", "member"},
              status: {"pending", "active"}, state: {"pending", "active", "rejected"}]

\* via is the invitation, Null for the family's code.
JoinRow == [state: {"pending", "approved", "rejected"}, via: InviteIds \cup {Null}]

RowOps == {"promote", "demote", "remove", "complete"}
Request ==
  [op: {"invite"}, closing: SUBSET InviteIds]
    \cup [op: {"join"}, via: InviteIds \cup {Null}, phone: Phones]
    \cup [op: {"add"}, phone: Phones]
    \cup [op: {"approve", "reject"}, target: MemberIds, request: JoinRow,
          row: MemberRow \cup {Null}]
    \cup [op: RowOps, target: MemberIds, row: MemberRow]

ASSUME NullAssumption == Null \notin MemberIds \cup InviteIds \cup MemberRow \cup JoinRow \cup Request

TypeOK ==
  /\ member \in [MemberIds -> MemberRow \cup {Null}]
  /\ join \in [MemberIds -> JoinRow \cup {Null}]
  /\ invite \in [InviteIds -> {"absent", "open", "closed"}]
  /\ issued \subseteq MemberIds \cup InviteIds
  /\ req \in [Workers -> Request \cup {Null}]
  /\ pool \subseteq Workers

\* auth.register without a row of the phone: a family and its owner.
Init ==
  /\ member = [m \in MemberIds |->
                 IF m = Creator THEN [phone |-> CreatorPhone, role |-> "owner",
                                      status |-> "active", state |-> "active"]
                 ELSE Null]
  /\ join = [m \in MemberIds |-> Null]
  /\ invite = [k \in InviteIds |-> "absent"]
  /\ issued = {Creator}
  /\ req = [w \in Workers |-> Null]
  /\ pool \in SUBSET Workers

-----------------------------------------------------------------------------
Idle(w) == req[w] = Null
Done(w) == req' = [req EXCEPT ![w] = Null]
Serving(w, op) == ~Idle(w) /\ req[w].op = op
Here(m) == member[m] # Null

IsAdmin(m) == Here(m) /\ member[m].role \in {"owner", "admin"}
ActiveAdmins == {m \in MemberIds : IsAdmin(m) /\ member[m].state = "active"}
PhoneFree(p) == \A m \in MemberIds : Here(m) => member[m].phone # p

Ask(w, request) ==
  /\ w \in pool /\ Idle(w)
  /\ req' = [req EXCEPT ![w] = request]
  /\ UNCHANGED <<member, join, invite, issued, pool>>

Rollback(w) ==
  /\ ~Idle(w)
  /\ Done(w)
  /\ UNCHANGED <<member, join, invite, issued, pool>>

-----------------------------------------------------------------------------
\* create_invite closes the invitations it finds open, then inserts its own.
BeginInvite(w) ==
  /\ ActiveAdmins # {}
  /\ Ask(w, [op |-> "invite", closing |-> {k \in InviteIds : invite[k] = "open"}])

CommitInvite(w, k) ==
  /\ Serving(w, "invite") /\ k \notin issued
  /\ invite' = [j \in InviteIds |-> IF j = k THEN "open"
                                    ELSE IF j \in req[w].closing THEN "closed" ELSE invite[j]]
  /\ issued' = issued \cup {k}
  /\ Done(w)
  /\ UNCHANGED <<member, join, pool>>

\* Thirty days have passed.
InviteExpires(k) ==
  /\ invite[k] = "open"
  /\ invite' = [invite EXCEPT ![k] = "closed"]
  /\ UNCHANGED <<member, join, issued, req, pool>>

\* accept_invite, or join_by_code when k is Null.
BeginJoin(w, k, p) ==
  /\ k # Null => invite[k] = "open"
  /\ PhoneFree(p)
  /\ Ask(w, [op |-> "join", via |-> k, phone |-> p])

\* The invitation is not used up.
CommitJoinMutant(w, m) ==
  /\ Serving(w, "join") /\ m \notin issued /\ PhoneFree(req[w].phone)
  /\ member' = [member EXCEPT ![m] = [phone |-> req[w].phone, role |-> "member",
                                      status |-> "active", state |-> "pending"]]
  /\ join' = [join EXCEPT ![m] = [state |-> "pending", via |-> req[w].via]]
  /\ issued' = issued \cup {m}
  /\ Done(w)
  /\ UNCHANGED <<invite, pool>>

\* The joiner, the request and the used invitation are one commit; the phone is
\* unique by a constraint.
CommitJoin(w, m) ==
  /\ Serving(w, "join") /\ m \notin issued /\ PhoneFree(req[w].phone)
  /\ member' = [member EXCEPT ![m] = [phone |-> req[w].phone, role |-> "member",
                                      status |-> "active", state |-> "pending"]]
  /\ join' = [join EXCEPT ![m] = [state |-> "pending", via |-> req[w].via]]
  /\ invite' = [k \in InviteIds |-> IF k = req[w].via THEN "closed" ELSE invite[k]]
  /\ issued' = issued \cup {m}
  /\ Done(w)
  /\ UNCHANGED pool

\* _pending_request loads the request to join ...
BeginDecide(w, op, m) ==
  /\ ActiveAdmins # {} /\ join[m] # Null
  /\ join[m].state = "pending"
  /\ Ask(w, [op |-> op, target |-> m, request |-> join[m], row |-> Null])

\* ... and db.get the member it is about.
LoadJoiner(w) ==
  /\ Serving(w, "approve") \/ Serving(w, "reject")
  /\ req[w].row = Null /\ Here(req[w].target)
  /\ req' = [req EXCEPT ![w].row = member[req[w].target]]
  /\ UNCHANGED <<member, join, invite, issued, pool>>

\* The membership is decided, the request stays pending.
CommitDecisionMutant(w, op, state, decision) ==
  LET m == req[w].target IN
  /\ Serving(w, op) /\ req[w].row # Null /\ Here(m) /\ join[m] # Null
  /\ member' = [member EXCEPT ![m] = Flush(@, req[w].row, [req[w].row EXCEPT !.state = state])]
  /\ Done(w)
  /\ UNCHANGED <<join, invite, issued, pool>>

CommitDecision(w, op, state, decision) ==
  LET m == req[w].target IN
  /\ Serving(w, op) /\ req[w].row # Null /\ Here(m) /\ join[m] # Null
  /\ member' = [member EXCEPT ![m] = Flush(@, req[w].row, [req[w].row EXCEPT !.state = state])]
  /\ join' = [join EXCEPT ![m] =
                Flush(@, req[w].request, [req[w].request EXCEPT !.state = decision])]
  /\ Done(w)
  /\ UNCHANGED <<invite, issued, pool>>

CommitApprove(w) == CommitDecision(w, "approve", "active", "approved")
CommitReject(w) == CommitDecision(w, "reject", "rejected", "rejected")

-----------------------------------------------------------------------------
LoadMember(w, op, m) ==
  /\ Here(m)
  /\ Ask(w, [op |-> op, target |-> m, row |-> member[m]])

\* A member who still waits may be promoted, and one administrator too many.
BeginPromoteMutant(w, m) ==
  /\ ActiveAdmins # {} /\ ~IsAdmin(m)
  /\ Cardinality(ActiveAdmins) <= MaxAdmins
  /\ LoadMember(w, "promote", m)

BeginPromote(w, m) ==
  /\ ActiveAdmins # {} /\ ~IsAdmin(m)
  /\ Here(m) /\ member[m].state = "active"
  /\ Cardinality(ActiveAdmins) < MaxAdmins
  /\ LoadMember(w, "promote", m)

\* The creator may be demoted.
BeginDemoteMutant(w, m) ==
  /\ ActiveAdmins # {} /\ IsAdmin(m)
  /\ LoadMember(w, "demote", m)

BeginDemote(w, m) ==
  /\ ActiveAdmins # {} /\ IsAdmin(m)
  /\ m # Creator
  /\ LoadMember(w, "demote", m)

BeginRemove(w, m) ==
  /\ ActiveAdmins # {} /\ Here(m)
  /\ member[m].role # "owner"
  /\ LoadMember(w, "remove", m)

\* auth.register: a member the administrator announced chooses a password.
BeginComplete(w, m) ==
  /\ Here(m) /\ member[m].status = "pending"
  /\ LoadMember(w, "complete", m)

Edited(r) ==
  CASE r.op = "promote"  -> [r.row EXCEPT !.role = "admin"]
    [] r.op = "demote"   -> [r.row EXCEPT !.role = "member"]
    [] r.op = "complete" -> [r.row EXCEPT !.status = "active"]

CommitRow(w, op) ==
  /\ Serving(w, op) /\ Here(req[w].target)
  /\ member' = [member EXCEPT ![req[w].target] = Flush(@, req[w].row, Edited(req[w]))]
  /\ Done(w)
  /\ UNCHANGED <<join, invite, issued, pool>>

CommitPromote(w) == CommitRow(w, "promote")
CommitDemote(w) == CommitRow(w, "demote")
CommitComplete(w) == CommitRow(w, "complete")

\* The request to join goes with the member, by ON DELETE CASCADE.
CommitRemove(w) ==
  /\ Serving(w, "remove")
  /\ member' = [member EXCEPT ![req[w].target] = Null]
  /\ join' = [join EXCEPT ![req[w].target] = Null]
  /\ Done(w)
  /\ UNCHANGED <<invite, issued, pool>>

\* add_member_by_manager.
BeginAdd(w, p) ==
  /\ ActiveAdmins # {} /\ PhoneFree(p)
  /\ Ask(w, [op |-> "add", phone |-> p])

\* The phone is not unique in the table.
CommitAddMutant(w, m) ==
  /\ Serving(w, "add") /\ m \notin issued
  /\ member' = [member EXCEPT ![m] = [phone |-> req[w].phone, role |-> "member",
                                      status |-> "pending", state |-> "active"]]
  /\ issued' = issued \cup {m}
  /\ Done(w)
  /\ UNCHANGED <<join, invite, pool>>

CommitAdd(w, m) ==
  /\ Serving(w, "add") /\ m \notin issued /\ PhoneFree(req[w].phone)
  /\ member' = [member EXCEPT ![m] = [phone |-> req[w].phone, role |-> "member",
                                      status |-> "pending", state |-> "active"]]
  /\ issued' = issued \cup {m}
  /\ Done(w)
  /\ UNCHANGED <<join, invite, pool>>

-----------------------------------------------------------------------------
JoinStep(w) ==
  \/ BeginInvite(w)
  \/ \E k \in InviteIds : CommitInvite(w, k)
  \/ \E k \in InviteIds \cup {Null}, p \in Phones : BeginJoin(w, k, p)
  \/ \E p \in Phones : BeginAdd(w, p)
  \/ \E m \in MemberIds :
       \/ CommitJoin(w, m) \/ CommitAdd(w, m)
       \/ BeginDecide(w, "approve", m) \/ BeginDecide(w, "reject", m)
  \/ LoadJoiner(w) \/ CommitApprove(w) \/ CommitReject(w)

RoleStep(w) ==
  \/ \E m \in MemberIds :
       BeginPromote(w, m) \/ BeginDemote(w, m) \/ BeginRemove(w, m) \/ BeginComplete(w, m)
  \/ CommitPromote(w) \/ CommitDemote(w) \/ CommitComplete(w) \/ CommitRemove(w)

Next ==
  \/ \E w \in Workers : JoinStep(w) \/ RoleStep(w) \/ Rollback(w)
  \/ \E k \in InviteIds : InviteExpires(k)

Spec == Init /\ [][Next]_vars

-----------------------------------------------------------------------------
\* The family always has the administrator who created it, active and owner,
\* whatever is asked and however requests overlap (family.py:350, 402).
CreatorStays ==
  Here(Creator) /\ member[Creator].role = "owner" /\ member[Creator].state = "active"

\* Nobody administers the family who was not let in: a joiner who waits for the
\* decision has no role, even while a promotion and a decision overlap.
PendingHasNoRole ==
  \A m \in MemberIds : Here(m) /\ member[m].state = "pending" => member[m].role = "member"

\* A phone belongs to one member.  Three handlers test it before they write.
PhonesUnique ==
  \A m, n \in MemberIds : Here(m) /\ Here(n) /\ member[m].phone = member[n].phone => m = n

\* A request to join and the membership it is about tell the same, between any
\* two commits, with up to two requests at a time.
Says(decision) ==
  CASE decision = "pending" -> "pending"
    [] decision = "approved" -> "active"
    [] decision = "rejected" -> "rejected"
DecisionIsTheMembership ==
  Cardinality(pool) <= 2 =>
    \A m \in MemberIds : join[m] # Null => Here(m) /\ member[m].state = Says(join[m].state)

OneAtATime == Cardinality(pool) <= 1

\* Where requests do not overlap, a family has at most two active administrators
\* (family.py:45, 331), an invitation lets in one joiner and at most one
\* invitation is open (family.py:102, 217).
LimitsHold ==
  OneAtATime =>
    /\ Cardinality(ActiveAdmins) <= MaxAdmins
    /\ \A m, n \in MemberIds :
         join[m] # Null /\ join[n] # Null /\ join[m].via = join[n].via /\ join[m].via # Null
           => m = n
    /\ \A j, k \in InviteIds : invite[j] = "open" /\ invite[k] = "open" => j = k
=============================================================================
