-------------------------- MODULE Membership_proofs -------------------------
(* Theorems about Membership, for every value of its constants. *)
EXTENDS Membership, FiniteSetTheorems, TLAPS

Targets == {"approve", "reject", "promote", "demote", "remove", "complete"}
Aims(w) == ~Idle(w) /\ req[w].op \in Targets

LEMMA FlushMember ==
  ASSUME NEW r \in MemberRow, NEW l \in MemberRow, NEW e \in MemberRow
  PROVE  /\ Flush(r, l, e) \in MemberRow
         /\ Flush(r, l, e).phone = IF e.phone = l.phone THEN r.phone ELSE e.phone
         /\ Flush(r, l, e).role = IF e.role = l.role THEN r.role ELSE e.role
         /\ Flush(r, l, e).status = IF e.status = l.status THEN r.status ELSE e.status
         /\ Flush(r, l, e).state = IF e.state = l.state THEN r.state ELSE e.state
  BY DEF MemberRow, Flush, Dirty

LEMMA FlushJoin ==
  ASSUME NEW r \in JoinRow, NEW l, NEW e \in JoinRow
  PROVE  Flush(r, l, e) \in JoinRow
  BY DEF JoinRow, Flush

\* What promote, demote and complete do to the row they aim at.
LEMMA RowEffect ==
  ASSUME TypeOK, NEW w \in Workers, NEW op \in {"promote", "demote", "complete"},
         CommitRow(w, op)
  PROVE  LET m == req[w].target IN
         /\ m \in MemberIds /\ member[m] \in MemberRow /\ member'[m] \in MemberRow
         /\ member' = [member EXCEPT ![m] = member'[m]]
         /\ member'[m].phone = member[m].phone
         /\ member'[m].state = member[m].state
         /\ op # "promote" => member'[m].role \in {member[m].role, "member"}
  <1> DEFINE m == req[w].target
  <1>1. /\ req[w].op = op /\ m \in MemberIds /\ req[w].row \in MemberRow
    BY DEF CommitRow, Serving, Idle, TypeOK, Request, RowOps
  <1>2. member[m] \in MemberRow
    BY <1>1 DEF CommitRow, Here, TypeOK
  <1>3. /\ Edited(req[w]) \in MemberRow
        /\ Edited(req[w]).phone = req[w].row.phone
        /\ Edited(req[w]).state = req[w].row.state
        /\ op # "promote" => Edited(req[w]).role \in {req[w].row.role, "member"}
    BY <1>1 DEF Edited, MemberRow
  <1>4. member' = [member EXCEPT ![m] = Flush(member[m], req[w].row, Edited(req[w]))]
    BY DEF CommitRow
  <1>5. member'[m] = Flush(member[m], req[w].row, Edited(req[w]))
    BY <1>1, <1>4 DEF TypeOK
  <1> DEFINE e == Edited(req[w])
             l == req[w].row
  <1>6. member' = [member EXCEPT ![m] = member'[m]]
    BY <1>4, <1>5
  <1> HIDE DEF e, l
  <1>7. /\ Flush(member[m], l, e) \in MemberRow
        /\ Flush(member[m], l, e).phone = IF e.phone = l.phone THEN member[m].phone ELSE e.phone
        /\ Flush(member[m], l, e).state = IF e.state = l.state THEN member[m].state ELSE e.state
        /\ Flush(member[m], l, e).role = IF e.role = l.role THEN member[m].role ELSE e.role
    <2>1. l \in MemberRow /\ e \in MemberRow
      BY <1>1, <1>3 DEF l, e
    <2> QED
      BY <1>2, <2>1, FlushMember
  <1>8. e.phone = l.phone /\ e.state = l.state /\ (op # "promote" => e.role \in {l.role, "member"})
    BY <1>3 DEF l, e
  <1>9. member'[m] = Flush(member[m], l, e)
    BY <1>5 DEF l, e
  <1> QED
    BY <1>1, <1>2, <1>6, <1>7, <1>8, <1>9

\* What approve and reject do to the member.
LEMMA DecisionEffect ==
  ASSUME TypeOK, NEW w \in Workers, CommitApprove(w) \/ CommitReject(w)
  PROVE  LET m == req[w].target IN
         /\ m \in MemberIds /\ member[m] \in MemberRow /\ member'[m] \in MemberRow
         /\ member' = [member EXCEPT ![m] = member'[m]]
         /\ member'[m].phone = member[m].phone
         /\ member'[m].role = member[m].role
         /\ member'[m].state \in {member[m].state, "active", "rejected"}
  <1> DEFINE m == req[w].target
  <1>1. PICK state \in {"active", "rejected"}, decision \in {"approved", "rejected"} :
          \/ CommitDecision(w, "approve", state, decision)
          \/ CommitDecision(w, "reject", state, decision)
    BY DEF CommitApprove, CommitReject
  <1>2. /\ m \in MemberIds /\ req[w].row \in MemberRow
    BY <1>1 DEF CommitDecision, Serving, Idle, TypeOK, Request, RowOps
  <1>3. member[m] \in MemberRow
    BY <1>1, <1>2 DEF CommitDecision, Here, TypeOK
  <1> DEFINE e == [req[w].row EXCEPT !.state = state]
  <1>4. e \in MemberRow /\ e.phone = req[w].row.phone /\ e.role = req[w].row.role /\ e.state = state
    BY <1>1, <1>2 DEF MemberRow
  <1>5. member' = [member EXCEPT ![m] = Flush(member[m], req[w].row, e)]
    BY <1>1 DEF CommitDecision
  <1>6. member'[m] = Flush(member[m], req[w].row, e)
    BY <1>2, <1>5 DEF TypeOK
  <1>7. member' = [member EXCEPT ![m] = member'[m]]
    BY <1>5, <1>6
  <1> DEFINE l == req[w].row
  <1> HIDE DEF e, l
  <1>8. /\ Flush(member[m], l, e) \in MemberRow
        /\ Flush(member[m], l, e).phone = IF e.phone = l.phone THEN member[m].phone ELSE e.phone
        /\ Flush(member[m], l, e).role = IF e.role = l.role THEN member[m].role ELSE e.role
        /\ Flush(member[m], l, e).state = IF e.state = l.state THEN member[m].state ELSE e.state
    <2>1. l \in MemberRow
      BY <1>2 DEF l
    <2> QED
      BY <1>3, <1>4, <2>1, FlushMember
  <1>9. e.phone = l.phone /\ e.role = l.role /\ member'[m] = Flush(member[m], l, e)
    BY <1>4, <1>6 DEF l
  <1> QED
    BY <1>1, <1>2, <1>3, <1>4, <1>7, <1>8, <1>9

LEMMA TypingStep == TypeOK /\ [Next]_vars => TypeOK'
  <1> SUFFICES ASSUME TypeOK, [Next]_vars PROVE TypeOK'
    OBVIOUS
  <1>1. ASSUME NEW w \in Workers, NEW r \in Request, Ask(w, r) PROVE TypeOK'
    BY <1>1 DEF Ask, TypeOK
  <1>2. ASSUME NEW w \in Workers, JoinStep(w) PROVE TypeOK'
    <2>1. CASE BeginInvite(w)
      BY <1>1, <2>1 DEF BeginInvite, Request
    <2>2. ASSUME NEW k \in InviteIds, CommitInvite(w, k) PROVE TypeOK'
      BY <2>2 DEF CommitInvite, Done, TypeOK
    <2>3. ASSUME NEW k \in InviteIds \cup {Null}, NEW p \in Phones, BeginJoin(w, k, p) PROVE TypeOK'
      BY <1>1, <2>3 DEF BeginJoin, Request
    <2>4. ASSUME NEW p \in Phones, BeginAdd(w, p) PROVE TypeOK'
      BY <1>1, <2>4 DEF BeginAdd, Request
    <2>5. ASSUME NEW m \in MemberIds, CommitJoin(w, m) PROVE TypeOK'
      <3>1. req[w].phone \in Phones /\ req[w].via \in InviteIds \cup {Null}
        BY <2>5 DEF CommitJoin, Serving, Idle, TypeOK, Request, RowOps
      <3>2. member' \in [MemberIds -> MemberRow \cup {Null}]
        BY <2>5, <3>1 DEF CommitJoin, TypeOK, MemberRow
      <3>3. join' \in [MemberIds -> JoinRow \cup {Null}]
        BY <2>5, <3>1 DEF CommitJoin, TypeOK, JoinRow
      <3> QED
        BY <2>5, <3>2, <3>3 DEF CommitJoin, Done, TypeOK
    <2>6. ASSUME NEW m \in MemberIds, CommitAdd(w, m) PROVE TypeOK'
      <3>1. req[w].phone \in Phones
        BY <2>6 DEF CommitAdd, Serving, Idle, TypeOK, Request, RowOps
      <3>2. member' \in [MemberIds -> MemberRow \cup {Null}]
        BY <2>6, <3>1 DEF CommitAdd, TypeOK, MemberRow
      <3> QED
        BY <2>6, <3>2 DEF CommitAdd, Done, TypeOK
    <2>7. ASSUME NEW m \in MemberIds, BeginDecide(w, "approve", m) \/ BeginDecide(w, "reject", m)
          PROVE  TypeOK'
      <3>1. join[m] # Null => join[m] \in JoinRow
        BY DEF TypeOK
      <3> QED
        BY <1>1, <2>7, <3>1 DEF BeginDecide, Request
    <2>8. CASE LoadJoiner(w)
      BY <2>8 DEF LoadJoiner, Serving, Idle, Here, TypeOK, Request, RowOps
    <2>9. CASE CommitApprove(w) \/ CommitReject(w)
      <3>1. member' \in [MemberIds -> MemberRow \cup {Null}]
        BY <2>9, DecisionEffect DEF TypeOK
      <3>2. join' \in [MemberIds -> JoinRow \cup {Null}]
        <4>1. PICK state \in {"active", "rejected"}, decision \in {"approved", "rejected"} :
                \/ CommitDecision(w, "approve", state, decision)
                \/ CommitDecision(w, "reject", state, decision)
          BY <2>9 DEF CommitApprove, CommitReject
        <4> DEFINE m == req[w].target
                   e == [req[w].request EXCEPT !.state = decision]
        <4>2. e \in JoinRow
          BY <4>1 DEF CommitDecision, Serving, Idle, TypeOK, Request, RowOps, JoinRow
        <4>3. join' = [join EXCEPT ![m] = Flush(join[m], req[w].request, e)]
          BY <4>1 DEF CommitDecision
        <4>5. join[m] \in JoinRow
          BY <4>1 DEF CommitDecision, Serving, Idle, TypeOK, Request, RowOps
        <4>4. join[m] \in JoinRow => Flush(join[m], req[w].request, e) \in JoinRow
          BY <4>2, FlushJoin
        <4> HIDE DEF e
        <4> QED
          BY <4>3, <4>4, <4>5 DEF TypeOK
      <3> QED
        BY <2>9, <3>1, <3>2 DEF CommitApprove, CommitReject, CommitDecision, Done, TypeOK
    <2> QED
      BY <1>2, <2>1, <2>2, <2>3, <2>4, <2>5, <2>6, <2>7, <2>8, <2>9 DEF JoinStep
  <1>3. ASSUME NEW w \in Workers, RoleStep(w) PROVE TypeOK'
    <2>1. ASSUME NEW m \in MemberIds, NEW op \in RowOps, LoadMember(w, op, m) PROVE TypeOK'
      <3>1. member[m] \in MemberRow
        BY <2>1 DEF LoadMember, Here, TypeOK
      <3> QED
        BY <1>1, <2>1, <3>1 DEF LoadMember, Request
    <2>2. ASSUME NEW m \in MemberIds,
                 BeginPromote(w, m) \/ BeginDemote(w, m) \/ BeginRemove(w, m) \/ BeginComplete(w, m)
          PROVE  TypeOK'
      BY <2>1, <2>2 DEF BeginPromote, BeginDemote, BeginRemove, BeginComplete, RowOps
    <2>3. ASSUME NEW op \in {"promote", "demote", "complete"}, CommitRow(w, op) PROVE TypeOK'
      <3>1. member' \in [MemberIds -> MemberRow \cup {Null}]
        BY <2>3, RowEffect DEF TypeOK
      <3> QED
        BY <2>3, <3>1 DEF CommitRow, Done, TypeOK
    <2>4. CASE CommitRemove(w)
      BY <2>4 DEF CommitRemove, Done, TypeOK
    <2> QED
      BY <1>3, <2>2, <2>3, <2>4 DEF RoleStep, CommitPromote, CommitDemote, CommitComplete
  <1>4. ASSUME NEW w \in Workers, Rollback(w) PROVE TypeOK'
    BY <1>4 DEF Rollback, Done, TypeOK
  <1>5. ASSUME NEW k \in InviteIds, InviteExpires(k) PROVE TypeOK'
    BY <1>5 DEF InviteExpires, TypeOK
  <1>6. CASE UNCHANGED vars
    BY <1>6 DEF vars, TypeOK
  <1> QED
    BY <1>2, <1>3, <1>4, <1>5, <1>6 DEF Next

-----------------------------------------------------------------------------
\* The three ways in which a step changes the table of members.
Insertion(m, r) ==
  /\ m \notin issued /\ r \in MemberRow /\ r.role = "member" /\ PhoneFree(r.phone)
  /\ member' = [member EXCEPT ![m] = r]

Edition(w, m, r) ==
  /\ Aims(w) /\ m = req[w].target /\ r \in MemberRow /\ member[m] \in MemberRow
  /\ r.phone = member[m].phone
  /\ r.state \in {member[m].state, "active", "rejected"}
  /\ r.role \in {member[m].role, "member"} \/ (Serving(w, "promote") /\ r.state = member[m].state)
  /\ member' = [member EXCEPT ![m] = r]

Removal(w, m) ==
  /\ Aims(w) /\ m = req[w].target
  /\ member' = [member EXCEPT ![m] = Null]

MemberChange ==
  \/ member' = member
  \/ \E m \in MemberIds :
       \/ \E r \in MemberRow : Insertion(m, r) \/ \E w \in Workers : Edition(w, m, r)
       \/ \E w \in Workers : Removal(w, m)

LEMMA MemberChanges == TypeOK /\ [Next]_vars => MemberChange
  <1> SUFFICES ASSUME TypeOK, [Next]_vars PROVE MemberChange
    OBVIOUS
  <1>1. ASSUME NEW w \in Workers, NEW r, Ask(w, r) PROVE MemberChange
    BY <1>1 DEF Ask, MemberChange
  <1>2. ASSUME NEW w \in Workers, JoinStep(w) PROVE MemberChange
    <2>1. ASSUME NEW m \in MemberIds, CommitJoin(w, m) PROVE MemberChange
      <3> DEFINE r == [phone |-> req[w].phone, role |-> "member",
                       status |-> "active", state |-> "pending"]
      <3>1. req[w].phone \in Phones
        BY <2>1 DEF CommitJoin, Serving, Idle, TypeOK, Request, RowOps
      <3>2. r \in MemberRow /\ r.role = "member" /\ r.phone = req[w].phone
        BY <3>1 DEF MemberRow
      <3>3. m \notin issued /\ PhoneFree(req[w].phone) /\ member' = [member EXCEPT ![m] = r]
        BY <2>1 DEF CommitJoin
      <3> HIDE DEF r
      <3> QED
        BY <3>2, <3>3 DEF Insertion, MemberChange
    <2>2. ASSUME NEW m \in MemberIds, CommitAdd(w, m) PROVE MemberChange
      <3> DEFINE r == [phone |-> req[w].phone, role |-> "member",
                       status |-> "pending", state |-> "active"]
      <3>1. req[w].phone \in Phones
        BY <2>2 DEF CommitAdd, Serving, Idle, TypeOK, Request, RowOps
      <3>2. r \in MemberRow /\ r.role = "member" /\ r.phone = req[w].phone
        BY <3>1 DEF MemberRow
      <3>3. m \notin issued /\ PhoneFree(req[w].phone) /\ member' = [member EXCEPT ![m] = r]
        BY <2>2 DEF CommitAdd
      <3> HIDE DEF r
      <3> QED
        BY <3>2, <3>3 DEF Insertion, MemberChange
    <2>3. CASE CommitApprove(w) \/ CommitReject(w)
      <3> DEFINE m == req[w].target
                 r == member'[m]
      <3>1. Aims(w)
        BY <2>3 DEF CommitApprove, CommitReject, CommitDecision, Serving, Aims, Targets
      <3>3. /\ m \in MemberIds /\ member[m] \in MemberRow /\ r \in MemberRow
            /\ member' = [member EXCEPT ![m] = r]
            /\ r.phone = member[m].phone /\ r.role = member[m].role
            /\ r.state \in {member[m].state, "active", "rejected"}
        BY <2>3, DecisionEffect
      <3>2. m \in MemberIds /\ r \in MemberRow /\ Edition(w, m, r)
        <4> HIDE DEF m, r
        <4>1. m = req[w].target
          BY DEF m
        <4>2. r.role \in {member[m].role, "member"}
          BY <3>3
        <4> QED
          BY <3>1, <3>3, <4>1, <4>2 DEF Edition
      <3> HIDE DEF m, r
      <3> QED
        BY <3>2 DEF MemberChange
    <2>4. BeginInvite(w) \/ (\E k \in InviteIds : CommitInvite(w, k)) \/ LoadJoiner(w)
            => member' = member
      BY DEF BeginInvite, Ask, CommitInvite, LoadJoiner
    <2>5. ASSUME NEW k, NEW p, BeginJoin(w, k, p) \/ BeginAdd(w, p) PROVE member' = member
      BY <2>5 DEF BeginJoin, BeginAdd, Ask
    <2>6. ASSUME NEW m, BeginDecide(w, "approve", m) \/ BeginDecide(w, "reject", m)
          PROVE  member' = member
      BY <2>6 DEF BeginDecide, Ask
    <2> QED
      BY <1>2, <2>1, <2>2, <2>3, <2>4, <2>5, <2>6 DEF JoinStep, MemberChange
  <1>3. ASSUME NEW w \in Workers, RoleStep(w) PROVE MemberChange
    <2>1. ASSUME NEW op \in {"promote", "demote", "complete"}, CommitRow(w, op) PROVE MemberChange
      <3> DEFINE m == req[w].target
                 r == member'[m]
      <3>1. Serving(w, op) /\ Aims(w)
        BY <2>1 DEF CommitRow, Serving, Aims, Targets
      <3>2. m \in MemberIds /\ r \in MemberRow /\ Edition(w, m, r)
        BY <2>1, <3>1, RowEffect DEF Edition
      <3> HIDE DEF m, r
      <3> QED
        BY <3>2 DEF MemberChange
    <2>2. CASE CommitRemove(w)
      <3>1. Removal(w, req[w].target)
        BY <2>2 DEF CommitRemove, Removal, Serving, Aims, Targets
      <3>2. req[w].target \in MemberIds
        BY <2>2 DEF CommitRemove, Serving, Idle, TypeOK, Request, RowOps
      <3> QED
        BY <3>1, <3>2 DEF MemberChange
    <2>3. ASSUME NEW m, BeginPromote(w, m) \/ BeginDemote(w, m)
                          \/ BeginRemove(w, m) \/ BeginComplete(w, m)
          PROVE  member' = member
      BY <2>3 DEF BeginPromote, BeginDemote, BeginRemove, BeginComplete, LoadMember, Ask
    <2> QED
      BY <1>3, <2>1, <2>2, <2>3
      DEF RoleStep, CommitPromote, CommitDemote, CommitComplete, MemberChange
  <1>4. (\E w \in Workers : Rollback(w)) \/ (\E k \in InviteIds : InviteExpires(k))
          \/ UNCHANGED vars => member' = member
    BY DEF Rollback, InviteExpires, vars
  <1> QED
    BY <1>2, <1>3, <1>4 DEF Next, MemberChange

\* A phone belongs to one member, however many requests overlap.
LEMMA PhonesStep == TypeOK /\ PhonesUnique /\ [Next]_vars => PhonesUnique'
  <1> SUFFICES ASSUME TypeOK, PhonesUnique, MemberChange PROVE PhonesUnique'
    BY MemberChanges
  <1>0. Null \notin MemberRow
    BY NullAssumption
  <1>1. CASE member' = member
    BY <1>1 DEF PhonesUnique, Here
  <1>2. ASSUME NEW m \in MemberIds, NEW r \in MemberRow, Insertion(m, r) PROVE PhonesUnique'
    BY <1>2 DEF Insertion, PhoneFree, PhonesUnique, Here, TypeOK
  <1>3. ASSUME NEW m \in MemberIds, NEW r \in MemberRow, NEW w \in Workers, Edition(w, m, r)
        PROVE  PhonesUnique'
    BY <1>0, <1>3 DEF Edition, PhonesUnique, Here, TypeOK
  <1>4. ASSUME NEW m \in MemberIds, NEW w \in Workers, Removal(w, m) PROVE PhonesUnique'
    BY <1>4 DEF Removal, PhonesUnique, Here, TypeOK
  <1> QED
    BY <1>1, <1>2, <1>3, <1>4 DEF MemberChange

\* Every value the specification reaches has its type.
THEOREM Typing == Spec => []TypeOK
  <1>1. Init => TypeOK
    BY CreatorAssumption DEF Init, TypeOK, MemberRow
  <1> QED
    BY <1>1, TypingStep, PTL DEF Spec

\* The constraint on the phone and the tests before it keep phones unique for
\* any number of requests at a time.
THEOREM Phone == Spec => []PhonesUnique
  <1>1. Init => PhonesUnique
    BY DEF Init, PhonesUnique, Here
  <1> QED
    BY <1>1, Typing, PhonesStep, PTL DEF Spec

-----------------------------------------------------------------------------
\* What a handler has tested when it loads the member it aims at.
Tested(r) ==
  /\ r.target \in MemberIds
  /\ IF r.op \in {"approve", "reject"} THEN join[r.target] # Null ELSE Here(r.target)
  /\ r.op \in {"promote", "demote"} => r.target # Creator
  /\ r.op = "promote" => member[r.target].state = "active"
  /\ r.op = "remove" => member[r.target].role # "owner"
  /\ r.op = "complete" => member[r.target].status = "pending"

\* What a worker aims at stays, or is tested while the tables rest.
RequestChange ==
  \A v \in Workers :
    Aims(v)' =>
      \/ Aims(v) /\ req'[v].op = req[v].op /\ req'[v].target = req[v].target
      \/ Tested(req'[v]) /\ UNCHANGED <<member, join, issued>>

LEMMA RequestChanges ==
  TypeOK /\ CreatorStays /\ [Next]_vars => RequestChange
  <1> SUFFICES ASSUME TypeOK, CreatorStays, [Next]_vars PROVE RequestChange
    OBVIOUS
  <1>1. ASSUME NEW w \in Workers, NEW r, Ask(w, r), r.op \in Targets => Tested(r)
        PROVE  RequestChange
    BY <1>1 DEF Ask, RequestChange, Aims, Idle, TypeOK
  <1>2. ASSUME NEW w \in Workers, Done(w) PROVE RequestChange
    BY <1>2 DEF Done, RequestChange, Aims, Idle, TypeOK
  <1>3. ASSUME req' = req PROVE RequestChange
    BY <1>3 DEF RequestChange, Aims, Idle
  <1>4. ASSUME NEW w \in Workers, JoinStep(w) PROVE RequestChange
    <2>1. CASE BeginInvite(w)
      BY <1>1, <2>1 DEF BeginInvite, Targets
    <2>2. ASSUME NEW k, NEW p, BeginJoin(w, k, p) PROVE RequestChange
      BY <1>1, <2>2 DEF BeginJoin, Targets
    <2>3. ASSUME NEW p, BeginAdd(w, p) PROVE RequestChange
      BY <1>1, <2>3 DEF BeginAdd, Targets
    <2>4. ASSUME NEW op \in {"approve", "reject"}, NEW m \in MemberIds, BeginDecide(w, op, m)
          PROVE  RequestChange
      <3> DEFINE r == [op |-> op, target |-> m, request |-> join[m], row |-> Null]
      <3>1. Tested(r) /\ Ask(w, r)
        BY <2>4 DEF BeginDecide, Tested
      <3> HIDE DEF r
      <3> QED
        BY <1>1, <3>1
    <2>5. CASE LoadJoiner(w)
      <3>1. req' = [req EXCEPT ![w] = [req[w] EXCEPT !.row = member[req[w].target]]]
        BY <2>5 DEF LoadJoiner
      <3>2. req[w].op \in {"approve", "reject"} /\ ~Idle(w)
        BY <2>5 DEF LoadJoiner, Serving
      <3>3. req[w] \in Request
        BY <3>2 DEF TypeOK, Idle
      <3>4. req'[w].op = req[w].op /\ req'[w].target = req[w].target
        BY <3>1, <3>2, <3>3 DEF Request, RowOps, TypeOK
      <3>5. \A v \in Workers : v # w => req'[v] = req[v]
        BY <3>1 DEF TypeOK
      <3> QED
        BY <3>2, <3>4, <3>5 DEF RequestChange, Aims, Idle, Targets
    <2>6. (\E k \in InviteIds : CommitInvite(w, k)) \/ CommitApprove(w) \/ CommitReject(w)
            \/ (\E m \in MemberIds : CommitJoin(w, m) \/ CommitAdd(w, m)) => Done(w)
      BY DEF CommitInvite, CommitApprove, CommitReject, CommitDecision, CommitJoin, CommitAdd
    <2> QED
      BY <1>2, <1>4, <2>1, <2>2, <2>3, <2>4, <2>5, <2>6 DEF JoinStep
  <1>5. ASSUME NEW w \in Workers, RoleStep(w) PROVE RequestChange
    <2>1. ASSUME NEW m \in MemberIds, NEW op \in RowOps, LoadMember(w, op, m),
                 op \in {"promote", "demote"} => m # Creator,
                 op = "promote" => member[m].state = "active",
                 op = "remove" => member[m].role # "owner",
                 op = "complete" => member[m].status = "pending"
          PROVE  RequestChange
      <3> DEFINE r == [op |-> op, target |-> m, row |-> member[m]]
      <3>1. Tested(r) /\ Ask(w, r)
        BY <2>1 DEF LoadMember, Tested, RowOps
      <3> HIDE DEF r
      <3> QED
        BY <1>1, <3>1
    <2>2. ASSUME NEW m \in MemberIds, BeginPromote(w, m) PROVE RequestChange
      <3>1. IsAdmin(Creator)
        BY DEF CreatorStays, IsAdmin
      <3> QED
        BY <2>1, <2>2, <3>1 DEF BeginPromote, RowOps
    <2>3. ASSUME NEW m \in MemberIds, BeginDemote(w, m) PROVE RequestChange
      BY <2>1, <2>3 DEF BeginDemote, RowOps
    <2>4. ASSUME NEW m \in MemberIds, BeginRemove(w, m) PROVE RequestChange
      BY <2>1, <2>4 DEF BeginRemove, RowOps
    <2>5. ASSUME NEW m \in MemberIds, BeginComplete(w, m) PROVE RequestChange
      BY <2>1, <2>5 DEF BeginComplete, RowOps
    <2>6. CommitPromote(w) \/ CommitDemote(w) \/ CommitComplete(w) \/ CommitRemove(w) => Done(w)
      BY DEF CommitPromote, CommitDemote, CommitComplete, CommitRow, CommitRemove
    <2> QED
      BY <1>2, <1>5, <2>2, <2>3, <2>4, <2>5, <2>6 DEF RoleStep
  <1>6. (\E w \in Workers : Rollback(w)) => \E w \in Workers : Done(w)
    BY DEF Rollback
  <1>7. (\E k \in InviteIds : InviteExpires(k)) \/ UNCHANGED vars => req' = req
    BY DEF InviteExpires, vars
  <1> QED
    BY <1>2, <1>3, <1>4, <1>5, <1>6, <1>7 DEF Next

\* A request to join comes with the key of its joiner; keys stay used.
LEMMA KeysChange ==
  ASSUME TypeOK, [Next]_vars
  PROVE  /\ issued \subseteq issued'
         /\ \A m \in MemberIds : join'[m] # Null => join[m] # Null \/ m \in issued' \ issued
         /\ \A m \in MemberIds : Here(m)' => Here(m) \/ m \in issued'
  <1>1. ASSUME NEW w \in Workers, NEW r, Ask(w, r)
        PROVE  UNCHANGED <<member, join, issued>>
    BY <1>1 DEF Ask
  <1>2. ASSUME NEW w \in Workers, NEW m \in MemberIds, CommitJoin(w, m) \/ CommitAdd(w, m)
        PROVE  /\ m \notin issued /\ issued' = issued \cup {m}
               /\ \A n \in MemberIds : n # m => join'[n] = join[n] /\ member'[n] = member[n]
               /\ CommitAdd(w, m) => join' = join
    BY <1>2 DEF CommitJoin, CommitAdd, TypeOK
  <1>3. ASSUME NEW w \in Workers, NEW op, NEW state, NEW decision,
               CommitDecision(w, op, state, decision)
        PROVE  /\ issued' = issued
               /\ \A n \in MemberIds : join'[n] # Null => join[n] # Null
               /\ \A n \in MemberIds : member'[n] # Null => member[n] # Null
    BY <1>3 DEF CommitDecision, Here, TypeOK
  <1>4. ASSUME NEW w \in Workers, NEW op, CommitRow(w, op)
        PROVE  /\ UNCHANGED <<join, issued>>
               /\ \A n \in MemberIds : member'[n] # Null => member[n] # Null
    BY <1>4 DEF CommitRow, Here, TypeOK
  <1>5. ASSUME NEW w \in Workers, CommitRemove(w)
        PROVE  /\ issued' = issued
               /\ \A n \in MemberIds : join'[n] # Null => join[n] # Null
               /\ \A n \in MemberIds : member'[n] # Null => member[n] # Null
    BY <1>5 DEF CommitRemove, TypeOK
  <1>6. ASSUME NEW w \in Workers, NEW k, CommitInvite(w, k)
        PROVE  UNCHANGED <<member, join>> /\ issued \subseteq issued'
    BY <1>6 DEF CommitInvite
  <1>7. ASSUME NEW w \in Workers, JoinStep(w) PROVE
          \/ \E k : CommitInvite(w, k)
          \/ \E m \in MemberIds : CommitJoin(w, m) \/ CommitAdd(w, m)
          \/ \E op, state, decision : CommitDecision(w, op, state, decision)
          \/ UNCHANGED <<member, join, issued>>
    BY <1>1, <1>7 DEF JoinStep, BeginInvite, BeginJoin, BeginAdd, BeginDecide, LoadJoiner,
                      CommitApprove, CommitReject
  <1>8. ASSUME NEW w \in Workers, RoleStep(w)
        PROVE  (\E op : CommitRow(w, op)) \/ CommitRemove(w) \/ UNCHANGED <<member, join, issued>>
    BY <1>1, <1>8 DEF RoleStep, BeginPromote, BeginDemote, BeginRemove, BeginComplete, LoadMember,
                      CommitPromote, CommitDemote, CommitComplete
  <1>9. (\E w \in Workers : Rollback(w)) \/ (\E k \in InviteIds : InviteExpires(k)) \/ UNCHANGED vars
          => UNCHANGED <<member, join, issued>>
    BY DEF Rollback, InviteExpires, vars
  <1>10. UNCHANGED <<member, join, issued>> =>
          /\ issued \subseteq issued'
          /\ \A m \in MemberIds : join'[m] # Null => join[m] # Null \/ m \in issued' \ issued
          /\ \A m \in MemberIds : Here(m)' => Here(m) \/ m \in issued'
    BY DEF Here
  <1>11. ASSUME NEW w \in Workers, JoinStep(w) PROVE
          /\ issued \subseteq issued'
          /\ \A m \in MemberIds : join'[m] # Null => join[m] # Null \/ m \in issued' \ issued
          /\ \A m \in MemberIds : Here(m)' => Here(m) \/ m \in issued'
    BY <1>2, <1>3, <1>6, <1>7, <1>10, <1>11 DEF Here
  <1>12. ASSUME NEW w \in Workers, RoleStep(w) PROVE
          /\ issued \subseteq issued'
          /\ \A m \in MemberIds : join'[m] # Null => join[m] # Null \/ m \in issued' \ issued
          /\ \A m \in MemberIds : Here(m)' => Here(m) \/ m \in issued'
    BY <1>4, <1>5, <1>8, <1>10, <1>12 DEF Here
  <1> QED
    BY <1>9, <1>10, <1>11, <1>12 DEF Next

-----------------------------------------------------------------------------
\* CreatorStays, and why: nothing that is on its way aims at the creator.
CreatorInv ==
  /\ CreatorStays
  /\ member[Creator].status = "active"
  /\ join[Creator] = Null
  /\ Creator \in issued
  /\ \A w \in Workers : Aims(w) => req[w].target # Creator

LEMMA CreatorStep == TypeOK /\ CreatorInv /\ [Next]_vars => CreatorInv'
  <1> SUFFICES ASSUME TypeOK, CreatorInv, [Next]_vars PROVE CreatorInv'
    OBVIOUS
  <1>1. Creator \in MemberIds
    BY CreatorAssumption
  <1>2. MemberChange
    BY MemberChanges
  <1>3. RequestChange
    BY RequestChanges DEF CreatorInv
  <1>4. member'[Creator] = member[Creator]
    BY <1>1, <1>2 DEF MemberChange, Insertion, Edition, Removal, CreatorInv, TypeOK
  <1>5. join'[Creator] = Null
    BY <1>1, KeysChange DEF CreatorInv
  <1>6. Creator \in issued'
    BY KeysChange DEF CreatorInv
  <1>7. ASSUME NEW v \in Workers, Aims(v)' PROVE req'[v].target # Creator
    <2>1. CASE Aims(v) /\ req'[v].op = req[v].op /\ req'[v].target = req[v].target
      BY <2>1 DEF CreatorInv
    <2>2. CASE Tested(req'[v])
      BY <1>7, <2>2 DEF Tested, CreatorInv, CreatorStays, Aims, Targets
    <2> QED
      BY <1>3, <1>7, <2>1, <2>2 DEF RequestChange
  <1>8. CreatorStays'
    BY <1>4 DEF CreatorInv, CreatorStays, Here
  <1> QED
    BY <1>4, <1>5, <1>6, <1>7, <1>8 DEF CreatorInv

\* However many requests overlap, the creator stays active and owner.
THEOREM CreatorRemains == Spec => []CreatorStays
  <1>1. Init => CreatorInv
    <2> SUFFICES ASSUME Init PROVE CreatorInv
      OBVIOUS
    <2>1. Creator \in MemberIds
      BY CreatorAssumption
    <2>2. member[Creator] = [phone |-> CreatorPhone, role |-> "owner",
                             status |-> "active", state |-> "active"]
      BY <2>1 DEF Init
    <2>3. member[Creator] \in MemberRow
      BY <2>2, CreatorAssumption DEF MemberRow
    <2>4. member[Creator] # Null
      BY <2>3, NullAssumption
    <2>5. CreatorStays /\ member[Creator].status = "active"
      BY <2>2, <2>4 DEF CreatorStays, Here
    <2> QED
      BY <2>1, <2>5 DEF Init, CreatorInv, Aims, Idle
  <1>2. CreatorInv => CreatorStays
    BY DEF CreatorInv
  <1> QED
    BY <1>1, <1>2, Typing, CreatorStep, PTL DEF Spec

-----------------------------------------------------------------------------
\* PendingHasNoRole, and why: a promotion on its way aims at a member who was let
\* in, keys are never used twice and nobody goes back to waiting.
RoleInv ==
  /\ PendingHasNoRole
  /\ \A m \in MemberIds : Here(m) \/ join[m] # Null => m \in issued
  /\ \A w \in Workers : Aims(w) => req[w].target \in issued
  /\ \A w \in Workers :
       Serving(w, "promote") /\ Here(req[w].target) => member[req[w].target].state # "pending"

LEMMA RoleStepKeeps == TypeOK /\ CreatorStays /\ RoleInv /\ [Next]_vars => RoleInv'
  <1> SUFFICES ASSUME TypeOK, CreatorStays, RoleInv, [Next]_vars PROVE RoleInv'
    OBVIOUS
  <1>1. MemberChange /\ RequestChange
    BY MemberChanges, RequestChanges
  <1>2. \A m \in MemberIds : (Here(m) \/ join[m] # Null => m \in issued)'
    BY KeysChange DEF RoleInv
  <1>3. ASSUME NEW w \in Workers, Aims(w)' PROVE (req[w].target \in issued)'
    <2>1. CASE Aims(w) /\ req'[w].target = req[w].target
      BY <2>1, KeysChange DEF RoleInv
    <2>2. CASE Tested(req'[w]) /\ issued' = issued
      BY <1>3, <2>2 DEF Tested, RoleInv, Here
    <2> QED
      BY <1>1, <1>3, <2>1, <2>2 DEF RequestChange
  <1>4. PendingHasNoRole'
    <2>1. CASE member' = member
      BY <2>1 DEF RoleInv, PendingHasNoRole, Here
    <2>2. ASSUME NEW m \in MemberIds, NEW r \in MemberRow, Insertion(m, r)
          PROVE  PendingHasNoRole'
      BY <2>2 DEF Insertion, RoleInv, PendingHasNoRole, Here, TypeOK
    <2>3. ASSUME NEW m \in MemberIds, NEW r \in MemberRow, NEW w \in Workers, Edition(w, m, r)
          PROVE  PendingHasNoRole'
      <3>1. Here(m)
        BY <2>3, NullAssumption DEF Edition, Here
      <3>2. Serving(w, "promote") => member[m].state # "pending"
        BY <2>3, <3>1 DEF RoleInv, Edition
      <3>3. member[m].state = "pending" => member[m].role = "member"
        BY <3>1 DEF RoleInv, PendingHasNoRole
      <3>4. r.state = "pending" => r.role = "member"
        BY <2>3, <3>2, <3>3 DEF Edition
      <3>5. member'[m] = r /\ \A n \in MemberIds : n # m => member'[n] = member[n]
        BY <2>3 DEF Edition, TypeOK
      <3> QED
        BY <3>4, <3>5 DEF RoleInv, PendingHasNoRole, Here
    <2>4. ASSUME NEW m \in MemberIds, NEW w \in Workers, Removal(w, m) PROVE PendingHasNoRole'
      BY <2>4 DEF Removal, RoleInv, PendingHasNoRole, Here, TypeOK
    <2> QED
      BY <1>1, <2>1, <2>2, <2>3, <2>4 DEF MemberChange
  <1>5. ASSUME NEW v \in Workers, Serving(v, "promote")', Here(req[v].target)'
        PROVE  member'[req'[v].target].state # "pending"
    <2>1. Aims(v)' /\ req'[v].op = "promote"
      BY <1>5 DEF Serving, Aims, Idle, Targets
    <2>2. CASE Tested(req'[v]) /\ UNCHANGED <<member, join, issued>>
      BY <2>1, <2>2 DEF Tested
    <2>3. CASE Aims(v) /\ req'[v].op = req[v].op /\ req'[v].target = req[v].target
      <3> DEFINE t == req[v].target
      <3>1. t \in issued /\ Serving(v, "promote") /\ req'[v].target = t
        BY <2>1, <2>3 DEF RoleInv, Aims, Serving
      <3>2. Here(t) => member[t].state # "pending"
        BY <3>1 DEF RoleInv
      <3>3. member'[t] # Null
        BY <1>5, <3>1 DEF Here
      <3>4. t \in MemberIds
        BY <3>1 DEF TypeOK, Request, RowOps, Serving, Idle
      <3> HIDE DEF t
      <3>5. CASE member' = member
        BY <3>1, <3>2, <3>3, <3>5 DEF Here
      <3>6. ASSUME NEW m \in MemberIds, NEW r \in MemberRow, Insertion(m, r)
            PROVE  member'[t].state # "pending"
        BY <3>1, <3>2, <3>3, <3>4, <3>6 DEF Insertion, Here, TypeOK
      <3>7. ASSUME NEW m \in MemberIds, NEW r \in MemberRow, NEW w \in Workers, Edition(w, m, r)
            PROVE  member'[t].state # "pending"
        <4>1. Here(m)
          BY <3>7, NullAssumption DEF Edition, Here
        <4> QED
          BY <3>2, <3>3, <3>4, <3>7, <4>1 DEF Edition, Here, TypeOK
      <3>8. ASSUME NEW m \in MemberIds, NEW w \in Workers, Removal(w, m)
            PROVE  member'[t].state # "pending"
        BY <3>2, <3>3, <3>4, <3>8 DEF Removal, Here, TypeOK
      <3> QED
        BY <1>1, <3>1, <3>5, <3>6, <3>7, <3>8 DEF MemberChange
    <2> QED
      BY <1>1, <2>1, <2>2, <2>3 DEF RequestChange
  <1> QED
    BY <1>2, <1>3, <1>4, <1>5 DEF RoleInv

\* However many requests overlap, nobody who waits for the decision has a role.
THEOREM NoRoleBeforeApproval == Spec => []PendingHasNoRole
  <1>1. Init => RoleInv
    BY DEF Init, RoleInv, PendingHasNoRole, Here, Aims, Serving, Idle
  <1>2. RoleInv => PendingHasNoRole
    BY DEF RoleInv
  <1> QED
    BY <1>1, <1>2, Typing, CreatorRemains, RoleStepKeeps, PTL DEF Spec

-----------------------------------------------------------------------------
\* Up to two requests at a time.  A deployment of up to two workers has no third.
LEMMA NoThird ==
  ASSUME TypeOK, Cardinality(pool) <= 2, NEW u \in pool, NEW v \in pool, NEW w \in pool
  PROVE  u = v \/ v = w \/ u = w
  <1>1. IsFiniteSet(pool)
    BY WorkersAssumption, FS_Subset DEF TypeOK
  <1> SUFFICES ASSUME u # v, v # w, u # w PROVE FALSE
    OBVIOUS
  <1>2. IsFiniteSet({u}) /\ Cardinality({u}) = 1
    BY FS_Singleton
  <1>3. IsFiniteSet({u} \cup {v}) /\ Cardinality({u} \cup {v}) = 2
    BY <1>2, FS_AddElement
  <1>4. Cardinality(({u} \cup {v}) \cup {w}) = 3
    BY <1>3, FS_AddElement
  <1>5. Cardinality(({u} \cup {v}) \cup {w}) <= Cardinality(pool)
    BY <1>1, FS_Subset
  <1> QED
    BY <1>1, <1>4, <1>5, FS_CardinalityType

LEMMA NoSecond ==
  ASSUME TypeOK, OneAtATime, NEW v \in pool, NEW w \in pool
  PROVE  v = w
  <1>1. IsFiniteSet(pool)
    BY WorkersAssumption, FS_Subset DEF TypeOK
  <1> SUFFICES ASSUME v # w PROVE FALSE
    OBVIOUS
  <1>2. IsFiniteSet({v}) /\ Cardinality({v}) = 1
    BY FS_Singleton
  <1>3. Cardinality({v} \cup {w}) = 2
    BY <1>2, FS_AddElement
  <1>4. Cardinality({v} \cup {w}) <= Cardinality(pool)
    BY <1>1, FS_Subset
  <1>5. Cardinality(pool) \in Nat
    BY <1>1, FS_CardinalityType
  <1> QED
    BY <1>3, <1>4, <1>5 DEF OneAtATime

LEMMA PoolFixed == [Next]_vars => pool' = pool
  <1> SUFFICES ASSUME [Next]_vars PROVE pool' = pool
    OBVIOUS
  <1>1. ASSUME NEW w \in Workers, JoinStep(w) PROVE pool' = pool
    BY <1>1 DEF JoinStep, BeginInvite, CommitInvite, BeginJoin, BeginAdd, CommitJoin, CommitAdd,
                BeginDecide, LoadJoiner, CommitApprove, CommitReject, CommitDecision, Ask
  <1>2. ASSUME NEW w \in Workers, RoleStep(w) PROVE pool' = pool
    BY <1>2 DEF RoleStep, BeginPromote, BeginDemote, BeginRemove, BeginComplete, LoadMember, Ask,
                CommitPromote, CommitDemote, CommitComplete, CommitRow, CommitRemove
  <1> QED
    BY <1>1, <1>2 DEF Next, Rollback, InviteExpires, vars

\* The steps that write a member or a request to join.
LEMMA Writers ==
  ASSUME [Next]_vars
  PROVE  \/ UNCHANGED <<member, join>>
         \/ \E w \in Workers :
              \/ \E m \in MemberIds : CommitJoin(w, m) \/ CommitAdd(w, m)
              \/ CommitApprove(w) \/ CommitReject(w)
              \/ \E op \in {"promote", "demote", "complete"} : CommitRow(w, op)
              \/ CommitRemove(w)
  <1>1. ASSUME NEW w \in Workers, NEW r, Ask(w, r) PROVE UNCHANGED <<member, join>>
    BY <1>1 DEF Ask
  <1>2. ASSUME NEW w \in Workers, JoinStep(w)
        PROVE  \/ UNCHANGED <<member, join>>
               \/ \E m \in MemberIds : CommitJoin(w, m) \/ CommitAdd(w, m)
               \/ CommitApprove(w) \/ CommitReject(w)
    BY <1>1, <1>2 DEF JoinStep, BeginInvite, CommitInvite, BeginJoin, BeginAdd, BeginDecide, LoadJoiner
  <1>3. ASSUME NEW w \in Workers, RoleStep(w)
        PROVE  \/ UNCHANGED <<member, join>>
               \/ \E op \in {"promote", "demote", "complete"} : CommitRow(w, op)
               \/ CommitRemove(w)
    BY <1>1, <1>3 DEF RoleStep, BeginPromote, BeginDemote, BeginRemove, BeginComplete, LoadMember,
                      CommitPromote, CommitDemote, CommitComplete
  <1> QED
    BY <1>2, <1>3 DEF Next, Rollback, InviteExpires, vars

\* Who decides on a request to join has loaded it pending.  While it is pending
\* two may decide; once it is decided one may be left, and a membership that one
\* has loaded decided is as it loaded it.
Decides(w) == Serving(w, "approve") \/ Serving(w, "reject")

DecidersHold ==
  /\ \A w \in Workers : ~Idle(w) => w \in pool
  /\ \A w \in Workers : Decides(w) => req[w].request.state = "pending"

DecidedOnce ==
  \A v, w \in Workers :
    v # w /\ Decides(v) /\ Decides(w) /\ req[v].target = req[w].target /\ join[req[w].target] # Null
      => join[req[w].target].state = "pending"

LoadedDecided(w) ==
  Decides(w) /\ req[w].row # Null /\ req[w].row.state # "pending" /\ join[req[w].target] # Null
    => req[w].row.state = member[req[w].target].state

DecisionInv ==
  /\ DecidersHold
  /\ DecisionIsTheMembership
  /\ Cardinality(pool) <= 2 => DecidedOnce /\ \A w \in Workers : LoadedDecided(w)

\* What a worker that decides has become: what it was, with the member loaded, or
\* a new decision on a pending request.
Continues(v) ==
  /\ Decides(v)
  /\ req'[v].target = req[v].target /\ req'[v].request = req[v].request
  /\ \/ req'[v].row = req[v].row
     \/ req'[v].row = member[req[v].target] /\ UNCHANGED <<member, join>>

Starts(v) ==
  /\ req'[v].row = Null
  /\ req'[v].request.state = "pending"
  /\ join[req'[v].target] # Null /\ join[req'[v].target].state = "pending"
  /\ UNCHANGED <<member, join>>

LEMMA DeciderChange ==
  ASSUME TypeOK, [Next]_vars, NEW v \in Workers, Decides(v)'
  PROVE  Continues(v) \/ Starts(v)
  <1>1. ASSUME req'[v] = req[v] PROVE Continues(v)
    BY <1>1 DEF Decides, Serving, Idle, Continues
  <1>2. ASSUME NEW w \in Workers, Done(w) PROVE Continues(v)
    BY <1>1, <1>2 DEF Done, TypeOK, Decides, Serving, Idle
  <1>3. ASSUME NEW w \in Workers, NEW r, Ask(w, r), r.op \notin {"approve", "reject"}
        PROVE  Continues(v)
    BY <1>1, <1>3 DEF Ask, TypeOK, Decides, Serving, Idle
  <1>4. ASSUME NEW w \in Workers, NEW op \in {"approve", "reject"}, NEW m \in MemberIds,
               BeginDecide(w, op, m)
        PROVE  Continues(v) \/ Starts(v)
    <2> DEFINE r == [op |-> op, target |-> m, request |-> join[m], row |-> Null]
    <2>1. /\ req' = [req EXCEPT ![w] = r] /\ UNCHANGED <<member, join>>
          /\ join[m] # Null /\ join[m].state = "pending"
      BY <1>4 DEF BeginDecide, Ask
    <2>2. CASE v = w
      BY <2>1, <2>2 DEF Starts, TypeOK
    <2> QED
      BY <1>1, <2>1, <2>2 DEF TypeOK
  <1>5. ASSUME NEW w \in Workers, LoadJoiner(w) PROVE Continues(v)
    <2>1. /\ req' = [req EXCEPT ![w] = [req[w] EXCEPT !.row = member[req[w].target]]]
          /\ UNCHANGED <<member, join>> /\ Decides(w)
      BY <1>5 DEF LoadJoiner, Decides
    <2>2. req[w] \in [op: {"approve", "reject"}, target: MemberIds, request: JoinRow,
                      row: MemberRow \cup {Null}]
      BY <2>1 DEF Decides, Serving, Idle, TypeOK, Request, RowOps
    <2>3. CASE v = w
      <3>1. /\ req'[w].target = req[w].target /\ req'[w].request = req[w].request
            /\ req'[w].row = member[req[w].target]
        BY <2>1, <2>2 DEF TypeOK
      <3> QED
        BY <2>1, <2>3, <3>1 DEF Continues
    <2> QED
      BY <1>1, <2>1, <2>3 DEF TypeOK
  <1>6. ASSUME NEW w \in Workers, JoinStep(w) PROVE Continues(v) \/ Starts(v)
    BY <1>2, <1>3, <1>4, <1>5, <1>6
    DEF JoinStep, BeginInvite, CommitInvite, BeginJoin, BeginAdd, CommitJoin, CommitAdd,
        CommitApprove, CommitReject, CommitDecision
  <1>7. ASSUME NEW w \in Workers, RoleStep(w) PROVE Continues(v) \/ Starts(v)
    <2>1. ASSUME NEW op \in RowOps, NEW m, LoadMember(w, op, m) PROVE Continues(v)
      BY <1>3, <2>1 DEF LoadMember, RowOps
    <2> QED
      BY <1>2, <1>7, <2>1
      DEF RoleStep, BeginPromote, BeginDemote, BeginRemove, BeginComplete, RowOps,
          CommitPromote, CommitDemote, CommitComplete, CommitRow, CommitRemove
  <1> QED
    BY <1>1, <1>2, <1>6, <1>7 DEF Next, Rollback, InviteExpires, vars

\* What a decision writes: the states, unless they are what was loaded.
LEMMA DecisionStates ==
  ASSUME TypeOK, NEW w \in Workers, NEW op \in {"approve", "reject"},
         NEW state \in {"active", "rejected"}, NEW decision \in {"approved", "rejected"},
         CommitDecision(w, op, state, decision)
  PROVE  LET m == req[w].target IN
         /\ m \in MemberIds /\ member[m] \in MemberRow /\ join[m] \in JoinRow
         /\ req[w].row # Null /\ member'[m] # Null /\ join'[m] # Null
         /\ member'[m].state = IF state = req[w].row.state THEN member[m].state ELSE state
         /\ join'[m].state = IF decision = req[w].request.state THEN join[m].state ELSE decision
         /\ join'[m].via = join[m].via
         /\ \A n \in MemberIds \ {m} : member'[n] = member[n] /\ join'[n] = join[n]
  <1> DEFINE m == req[w].target
             l == req[w].row
             j == req[w].request
             e == [l EXCEPT !.state = state]
             f == [j EXCEPT !.state = decision]
  <1>1. /\ m \in MemberIds /\ l \in MemberRow /\ j \in JoinRow /\ req[w].row # Null
    BY DEF CommitDecision, Serving, Idle, TypeOK, Request, RowOps
  <1>2. member[m] \in MemberRow /\ join[m] \in JoinRow
    BY <1>1 DEF CommitDecision, Here, TypeOK
  <1>3. /\ e \in MemberRow /\ e.state = state
        /\ f \in JoinRow /\ f.state = decision /\ f.via = j.via
    BY <1>1 DEF MemberRow, JoinRow
  <1>4. /\ member' = [member EXCEPT ![m] = Flush(member[m], l, e)]
        /\ join' = [join EXCEPT ![m] = Flush(join[m], j, f)]
    BY DEF CommitDecision
  <1> HIDE DEF m, l, j, e, f
  <1>5. /\ member'[m] = Flush(member[m], l, e) /\ join'[m] = Flush(join[m], j, f)
        /\ \A n \in MemberIds \ {m} : member'[n] = member[n] /\ join'[n] = join[n]
    BY <1>1, <1>4 DEF TypeOK
  <1>6. /\ Flush(member[m], l, e) \in MemberRow
        /\ Flush(member[m], l, e).state = IF e.state = l.state THEN member[m].state ELSE e.state
    BY <1>1, <1>2, <1>3, FlushMember
  <1>7. /\ Flush(join[m], j, f) \in JoinRow
        /\ Flush(join[m], j, f).state = IF f.state = j.state THEN join[m].state ELSE f.state
        /\ Flush(join[m], j, f).via = join[m].via
    BY <1>1, <1>2, <1>3 DEF JoinRow, Flush, Dirty
  <1>8. member'[m] # Null /\ join'[m] # Null
    BY <1>5, <1>6, <1>7, NullAssumption
  <1> QED
    BY <1>1, <1>2, <1>3, <1>5, <1>6, <1>7, <1>8 DEF m, l, j

\* A decision, and what it says.
LEMMA Decisions ==
  ASSUME NEW w, CommitApprove(w) \/ CommitReject(w)
  PROVE  \E op \in {"approve", "reject"}, state \in {"active", "rejected"},
            decision \in {"approved", "rejected"} :
           CommitDecision(w, op, state, decision) /\ state = Says(decision) /\ Decides(w)
  BY DEF CommitApprove, CommitReject, CommitDecision, Says, Decides

LEMMA DecidersStep ==
  ASSUME TypeOK, DecidersHold, [Next]_vars
  PROVE  DecidersHold'
  <1>1. ASSUME NEW v \in Workers, Decides(v)' PROVE req'[v].request.state = "pending"
    BY <1>1, DeciderChange DEF Continues, Starts, DecidersHold
  <1>2. ASSUME NEW v \in Workers, ~Idle(v)' PROVE v \in pool
    <2>1. ASSUME NEW w \in Workers, NEW r, w \in pool \/ ~Idle(w), req' = [req EXCEPT ![w] = r]
          PROVE  v \in pool
      BY <1>2, <2>1 DEF DecidersHold, Idle, TypeOK
    <2>2. CASE req' = req
      BY <1>2, <2>2 DEF DecidersHold, Idle
    <2>3. ASSUME NEW w \in Workers, JoinStep(w) PROVE v \in pool
      <3>1. (\E r : req' = [req EXCEPT ![w] = r]) /\ (w \in pool \/ ~Idle(w))
        BY <2>3 DEF JoinStep, BeginInvite, CommitInvite, BeginJoin, BeginAdd, CommitJoin, CommitAdd,
                    BeginDecide, LoadJoiner, CommitApprove, CommitReject, CommitDecision, Ask, Done,
                    Serving
      <3> QED
        BY <2>1, <3>1
    <2>4. ASSUME NEW w \in Workers, RoleStep(w) PROVE v \in pool
      <3>1. (\E r : req' = [req EXCEPT ![w] = r]) /\ (w \in pool \/ ~Idle(w))
        BY <2>4 DEF RoleStep, BeginPromote, BeginDemote, BeginRemove, BeginComplete, LoadMember, Ask,
                    CommitPromote, CommitDemote, CommitComplete, CommitRow, CommitRemove, Done, Serving
      <3> QED
        BY <2>1, <3>1
    <2> QED
      BY <2>1, <2>2, <2>3, <2>4 DEF Next, Rollback, Done, InviteExpires, vars
  <1> QED
    BY <1>1, <1>2, PoolFixed DEF DecidersHold

LEMMA DecisionStep ==
  ASSUME TypeOK, RoleInv, DecisionInv, [Next]_vars, Cardinality(pool) <= 2
  PROVE  /\ \A m \in MemberIds :
              join'[m] # Null => Here(m)' /\ member'[m].state = Says(join'[m].state)
         /\ DecidedOnce'
         /\ \A v \in Workers : LoadedDecided(v)'
  <1> DEFINE Tells(m) == join[m] # Null => Here(m) /\ member[m].state = Says(join[m].state)
             P == (\A m \in MemberIds : Tells(m)') /\ DecidedOnce' /\ \A v \in Workers : LoadedDecided(v)'
  <1>0. /\ DecidersHold /\ (\A m \in MemberIds : Tells(m)) /\ DecidedOnce
        /\ \A v \in Workers : LoadedDecided(v)
    BY DEF DecisionInv, DecisionIsTheMembership
  <1>1. \A v \in Workers : Decides(v) =>
          req[v].target \in MemberIds /\ req[v].row \in MemberRow \cup {Null}
    BY DEF Decides, Serving, Idle, TypeOK, Request, RowOps
  \* The tables rest: a decision may be started, or its member loaded.
  <1>2. ASSUME UNCHANGED <<member, join>> PROVE P
    <2>1. \A m \in MemberIds : Tells(m)'
      BY <1>0, <1>2 DEF Here
    <2>2. DecidedOnce'
      <3> SUFFICES ASSUME NEW v \in Workers, NEW w \in Workers, v # w, Decides(v)', Decides(w)',
                          req'[v].target = req'[w].target, join[req'[w].target] # Null
                   PROVE  join[req'[w].target].state = "pending"
        BY <1>2 DEF DecidedOnce
      <3> QED
        BY <1>0, DeciderChange DEF DecidedOnce, Continues, Starts
    <2>3. ASSUME NEW v \in Workers PROVE LoadedDecided(v)'
      BY <1>0, <1>2, DeciderChange DEF LoadedDecided, Continues, Starts
    <2> QED
      BY <2>1, <2>2, <2>3
  \* Rows appear, go, or keep their states: the workers that decide rest.
  <1>3. ASSUME \A m \in MemberIds :
                 \/ join'[m] = Null
                 \/ join'[m] = join[m] /\ Here(m) /\ Here(m)' /\ member'[m].state = member[m].state
                 \/ join[m] = Null /\ Here(m)' /\ member'[m].state = "pending"
                    /\ join'[m].state = "pending",
               ~ UNCHANGED <<member, join>>,
               \A v \in Workers : Decides(v) => req[v].target \in issued,
               \A m \in issued \cap MemberIds : join[m] = Null => join'[m] = Null
        PROVE  P
    <2>1. \A m \in MemberIds : Tells(m)'
      BY <1>0, <1>3 DEF Says
    <2>2. ASSUME NEW v \in Workers, Decides(v)'
          PROVE  Decides(v) /\ req'[v].target = req[v].target /\ req'[v].row = req[v].row
                 /\ req[v].target \in MemberIds
      BY <1>1, <1>3, <2>2, DeciderChange DEF Continues, Starts
    <2>3. DecidedOnce'
      <3> SUFFICES ASSUME NEW v \in Workers, NEW w \in Workers, v # w, Decides(v)', Decides(w)',
                          req'[v].target = req'[w].target, join'[req'[w].target] # Null
                   PROVE  join'[req'[w].target].state = "pending"
        BY DEF DecidedOnce
      <3> QED
        BY <1>0, <1>3, <2>2 DEF DecidedOnce
    <2>4. ASSUME NEW v \in Workers PROVE LoadedDecided(v)'
      <3> SUFFICES ASSUME Decides(v)', req'[v].row # Null, req'[v].row.state # "pending",
                          join'[req'[v].target] # Null
                   PROVE  req'[v].row.state = member'[req'[v].target].state
        BY DEF LoadedDecided
      <3>1. join'[req[v].target] = join[req[v].target]
            /\ member'[req[v].target].state = member[req[v].target].state
        BY <1>3, <2>2
      <3> QED
        BY <1>0, <2>2, <3>1 DEF LoadedDecided
    <2> QED
      BY <2>1, <2>3, <2>4
  <1>4. \A v \in Workers : Decides(v) => req[v].target \in issued
    BY DEF RoleInv, Decides, Aims, Serving, Targets
  <1>5. \A m \in MemberIds : m \notin issued => join[m] = Null /\ ~Here(m)
    BY DEF RoleInv
  <1>6. ASSUME NEW w \in Workers, NEW m \in MemberIds, CommitJoin(w, m), ~ UNCHANGED <<member, join>>
        PROVE  P
    <2>1. /\ m \notin issued
          /\ join'[m].state = "pending" /\ member'[m].state = "pending"
          /\ \A n \in MemberIds \ {m} : join'[n] = join[n] /\ member'[n] = member[n]
      BY <1>6 DEF CommitJoin, TypeOK
    <2>2. Here(m)'
      <3> DEFINE r == [phone |-> req[w].phone, role |-> "member",
                       status |-> "active", state |-> "pending"]
      <3>1. req[w].phone \in Phones
        BY <1>6 DEF CommitJoin, Serving, Idle, TypeOK, Request, RowOps
      <3>2. r \in MemberRow /\ member'[m] = r
        BY <1>6, <3>1 DEF CommitJoin, MemberRow, TypeOK
      <3> QED
        BY <3>2, NullAssumption DEF Here
    <2>3. \A n \in MemberIds \ {m} : Here(n)' <=> Here(n)
      BY <2>1 DEF Here
    <2> QED
      BY <1>0, <1>3, <1>4, <1>5, <1>6, <2>1, <2>2, <2>3
  <1>7. ASSUME NEW w \in Workers, NEW m \in MemberIds, CommitAdd(w, m), ~ UNCHANGED <<member, join>>
        PROVE  P
    <2>1. /\ m \notin issued /\ join' = join
          /\ \A n \in MemberIds \ {m} : member'[n] = member[n]
      BY <1>7 DEF CommitAdd, TypeOK
    <2>2. \A n \in MemberIds \ {m} : Here(n)' <=> Here(n)
      BY <2>1 DEF Here
    <2> QED
      BY <1>0, <1>3, <1>4, <1>5, <1>7, <2>1, <2>2
  <1>8. ASSUME NEW w \in Workers, NEW op \in {"promote", "demote", "complete"}, CommitRow(w, op),
               ~ UNCHANGED <<member, join>>
        PROVE  P
    <2>1. PICK m \in MemberIds : m = req[w].target
      BY <1>8, RowEffect
    <2>2. /\ Here(m) /\ member'[m] \in MemberRow
          /\ member'[m].state = member[m].state
          /\ \A n \in MemberIds \ {m} : member'[n] = member[n]
          /\ join' = join
      BY <1>8, <2>1, RowEffect DEF CommitRow, TypeOK
    <2>3. Here(m)' /\ \A n \in MemberIds \ {m} : Here(n)' <=> Here(n)
      BY <2>2, NullAssumption DEF Here
    <2> QED
      BY <1>0, <1>3, <1>4, <1>8, <2>2, <2>3
  <1>9. ASSUME NEW w \in Workers, CommitRemove(w), ~ UNCHANGED <<member, join>> PROVE P
    <2>1. \A n \in MemberIds : \/ join'[n] = Null
                               \/ join'[n] = join[n] /\ member'[n] = member[n]
      BY <1>9 DEF CommitRemove, TypeOK
    <2> QED
      BY <1>0, <1>3, <1>4, <1>9, <2>1 DEF Here
  <1>10. ASSUME NEW w \in Workers, CommitApprove(w) \/ CommitReject(w), ~ UNCHANGED <<member, join>>
         PROVE  P
    <2>1. PICK op \in {"approve", "reject"}, state \in {"active", "rejected"},
               decision \in {"approved", "rejected"} :
            CommitDecision(w, op, state, decision) /\ state = Says(decision) /\ Decides(w)
      BY <1>10, Decisions
    <2> DEFINE m == req[w].target
    <2>2. /\ m \in MemberIds /\ join[m] # Null /\ member'[m] # Null /\ join'[m] # Null
          /\ req[w].row # Null
          /\ member'[m].state = IF state = req[w].row.state THEN member[m].state ELSE state
          /\ join'[m].state = IF decision = req[w].request.state THEN join[m].state ELSE decision
          /\ \A n \in MemberIds \ {m} : member'[n] = member[n] /\ join'[n] = join[n]
      BY <2>1, DecisionStates, NullAssumption
    <2>3. join'[m].state = decision
      BY <1>0, <2>1, <2>2 DEF DecidersHold
    <2>4. member'[m].state = state
      BY <1>0, <2>1, <2>2 DEF LoadedDecided
    <2>5. req'[w] = Null
      BY <2>1 DEF CommitDecision, Done, TypeOK
    <2>6. ASSUME NEW v \in Workers, Decides(v)'
          PROVE  /\ Decides(v) /\ req'[v].target = req[v].target /\ req'[v].row = req[v].row
                 /\ v # w /\ req[v].target \in MemberIds
      BY <1>1, <1>10, <2>5, <2>6, DeciderChange DEF Continues, Starts, Decides, Serving, Idle
    <2> HIDE DEF m
    <2>7. \A n \in MemberIds : Tells(n)'
      BY <1>0, <2>1, <2>2, <2>3, <2>4 DEF Here
    <2>8. DecidedOnce'
      <3> SUFFICES ASSUME NEW u \in Workers, NEW v \in Workers, u # v, Decides(u)', Decides(v)',
                          req'[u].target = req'[v].target, join'[req'[v].target] # Null
                   PROVE  join'[req'[v].target].state = "pending"
        BY DEF DecidedOnce
      <3>1. u \in pool /\ v \in pool /\ w \in pool
        BY <1>0, <2>1, <2>6 DEF DecidersHold, Decides, Serving
      <3> QED
        BY <2>6, <3>1, NoThird
    <2>9. ASSUME NEW v \in Workers PROVE LoadedDecided(v)'
      <3> SUFFICES ASSUME Decides(v)', req'[v].row # Null, req'[v].row.state # "pending",
                          join'[req'[v].target] # Null
                   PROVE  req'[v].row.state = member'[req'[v].target].state
        BY DEF LoadedDecided
      <3>1. CASE req[v].target # m
        BY <1>0, <2>2, <2>6, <3>1 DEF LoadedDecided
      <3>2. CASE req[v].target = m
        <4>1. join[m].state = "pending"
          BY <1>0, <2>1, <2>2, <2>6, <3>2 DEF DecidedOnce, m
        <4>2. member[m].state = "pending"
          BY <1>0, <2>2, <4>1 DEF Says
        <4> QED
          BY <1>0, <2>2, <2>6, <3>2, <4>2 DEF LoadedDecided
      <3> QED
        BY <3>1, <3>2
    <2> QED
      BY <2>7, <2>8, <2>9
  <1>11. P
    BY <1>2, <1>6, <1>7, <1>8, <1>9, <1>10, Writers
  <1> QED
    BY <1>11

LEMMA RolesInductive == Spec => []RoleInv
  <1>1. Init => RoleInv
    BY DEF Init, RoleInv, PendingHasNoRole, Here, Aims, Serving, Idle
  <1> QED
    BY <1>1, Typing, CreatorRemains, RoleStepKeeps, PTL DEF Spec

LEMMA DecisionInductive == Spec => []DecisionInv
  <1>1. Init => DecisionInv
    BY DEF Init, DecisionInv, DecidersHold, DecisionIsTheMembership, DecidedOnce, LoadedDecided,
           Decides, Serving, Idle
  <1>2. TypeOK /\ RoleInv /\ DecisionInv /\ [Next]_vars => DecisionInv'
    <2> SUFFICES ASSUME TypeOK, RoleInv, DecisionInv, [Next]_vars PROVE DecisionInv'
      OBVIOUS
    <2>1. DecidersHold'
      BY DecidersStep DEF DecisionInv
    <2>2. pool' = pool
      BY PoolFixed
    <2> QED
      BY <2>1, <2>2, DecisionStep DEF DecisionInv, DecisionIsTheMembership
  <1> QED
    BY <1>1, <1>2, Typing, RolesInductive, PTL DEF Spec

\* With up to two requests at a time, whatever they do, a request to join and
\* the membership tell the same: two administrators who decide at once leave one
\* of the two decisions, never half of each.
THEOREM OneDecision == Spec => []DecisionIsTheMembership
  <1>1. DecisionInv => DecisionIsTheMembership
    BY DEF DecisionInv
  <1> QED
    BY <1>1, DecisionInductive, PTL

-----------------------------------------------------------------------------
\* One request at a time.  What a worker has tested still holds when it commits,
\* but for an invitation that expires meanwhile.
StillTested(r) ==
  /\ r.op = "promote" => Cardinality(ActiveAdmins) < MaxAdmins
  /\ r.op \in {"approve", "reject"} /\ join[r.target] # Null => join[r.target].state = "pending"
  /\ r.op = "invite" => \A k \in InviteIds : invite[k] = "open" => k \in r.closing
  /\ r.op = "join" /\ r.via # Null =>
       r.via \in issued /\ \A m \in MemberIds : join[m] # Null => join[m].via # r.via

\* An invitation lets in one joiner: what is open let in nobody, and who was let
\* in by one used it up.
InvitesInv ==
  /\ \A k \in InviteIds : invite[k] = "open" =>
       k \in issued /\ \A m \in MemberIds : join[m] # Null => join[m].via # k
  /\ \A m \in MemberIds : join[m] # Null /\ join[m].via # Null => join[m].via \in issued
  /\ \A m, n \in MemberIds :
       join[m] # Null /\ join[n] # Null /\ join[m].via = join[n].via /\ join[m].via # Null => m = n
  /\ \A j, k \in InviteIds : invite[j] = "open" /\ invite[k] = "open" => j = k

AdminsInv == IsFiniteSet(ActiveAdmins) /\ Cardinality(ActiveAdmins) <= MaxAdmins

LimitsInv ==
  OneAtATime => /\ AdminsInv /\ InvitesInv
                /\ \A w \in Workers : ~Idle(w) => StillTested(req[w])

Resting ==
  /\ UNCHANGED <<member, join, issued>>
  /\ \A k \in InviteIds : invite'[k] = "open" => invite[k] = "open"

LEMMA Alone ==
  ASSUME TypeOK, DecidersHold, OneAtATime, InvitesInv, [Next]_vars, NEW v \in Workers, ~Idle(v)'
  PROVE  /\ Resting
         /\ \/ req'[v] = req[v]
            \/ ~Idle(v) /\ Decides(v) /\ req'[v].op = req[v].op /\ req'[v].target = req[v].target
            \/ StillTested(req'[v])
  <1> DEFINE Q == \/ req'[v] = req[v]
                  \/ ~Idle(v) /\ Decides(v) /\ req'[v].op = req[v].op /\ req'[v].target = req[v].target
                  \/ StillTested(req'[v])
             P == Resting /\ Q
  <1>1. v \in pool
    BY DecidersStep, PoolFixed DEF DecidersHold
  <1>2. ASSUME NEW w \in Workers, w \in pool \/ ~Idle(w) PROVE w = v
    BY <1>1, <1>2, NoSecond DEF DecidersHold
  <1>3. ASSUME NEW w \in Workers, ~Idle(w), Done(w) PROVE FALSE
    BY <1>2, <1>3 DEF Done, Idle, TypeOK
  <1>4. ASSUME NEW w \in Workers, NEW r, Ask(w, r), StillTested(r) PROVE P
    <2>1. req'[v] = r /\ Resting
      BY <1>2, <1>4 DEF Ask, TypeOK, Resting
    <2> QED
      BY <1>4, <2>1
  <1>5. ASSUME NEW w \in Workers, JoinStep(w) PROVE P
    <2>1. CASE BeginInvite(w)
      <3> DEFINE r == [op |-> "invite", closing |-> {k \in InviteIds : invite[k] = "open"}]
      <3>1. StillTested(r) /\ Ask(w, r)
        BY <2>1 DEF BeginInvite, StillTested
      <3> HIDE DEF r
      <3> QED
        BY <1>4, <3>1
    <2>2. ASSUME NEW k \in InviteIds \cup {Null}, NEW p, BeginJoin(w, k, p) PROVE P
      <3> DEFINE r == [op |-> "join", via |-> k, phone |-> p]
      <3>1. StillTested(r) /\ Ask(w, r)
        BY <2>2 DEF BeginJoin, StillTested, InvitesInv
      <3> HIDE DEF r
      <3> QED
        BY <1>4, <3>1
    <2>3. ASSUME NEW p, BeginAdd(w, p) PROVE P
      <3> DEFINE r == [op |-> "add", phone |-> p]
      <3>1. StillTested(r) /\ Ask(w, r)
        BY <2>3 DEF BeginAdd, StillTested
      <3> HIDE DEF r
      <3> QED
        BY <1>4, <3>1
    <2>4. ASSUME NEW op \in {"approve", "reject"}, NEW m \in MemberIds, BeginDecide(w, op, m) PROVE P
      <3> DEFINE r == [op |-> op, target |-> m, request |-> join[m], row |-> Null]
      <3>1. StillTested(r) /\ Ask(w, r)
        BY <2>4 DEF BeginDecide, StillTested
      <3> HIDE DEF r
      <3> QED
        BY <1>4, <3>1
    <2>5. CASE LoadJoiner(w)
      <3>1. w = v /\ Resting /\ Decides(v) /\ ~Idle(v)
        BY <1>2, <2>5 DEF LoadJoiner, Serving, Decides, Resting
      <3>2. req[v] \in [op: {"approve", "reject"}, target: MemberIds, request: JoinRow,
                        row: MemberRow \cup {Null}]
        BY <3>1 DEF Decides, Serving, Idle, TypeOK, Request, RowOps
      <3>3. req'[v].op = req[v].op /\ req'[v].target = req[v].target
        BY <2>5, <3>1, <3>2 DEF LoadJoiner, TypeOK
      <3> QED
        BY <3>1, <3>3
    <2> QED
      BY <1>3, <1>5, <2>1, <2>2, <2>3, <2>4, <2>5
      DEF JoinStep, CommitInvite, CommitJoin, CommitAdd, CommitApprove, CommitReject, CommitDecision,
          Serving
  <1>6. ASSUME NEW w \in Workers, RoleStep(w) PROVE P
    <2>1. ASSUME NEW op \in RowOps, NEW m, LoadMember(w, op, m),
                 op = "promote" => Cardinality(ActiveAdmins) < MaxAdmins
          PROVE  P
      <3> DEFINE r == [op |-> op, target |-> m, row |-> member[m]]
      <3>1. StillTested(r) /\ Ask(w, r)
        BY <2>1 DEF LoadMember, StillTested, RowOps
      <3> HIDE DEF r
      <3> QED
        BY <1>4, <3>1
    <2>2. ASSUME NEW m \in MemberIds,
                 BeginPromote(w, m) \/ BeginDemote(w, m) \/ BeginRemove(w, m) \/ BeginComplete(w, m)
          PROVE  P
      BY <2>1, <2>2 DEF BeginPromote, BeginDemote, BeginRemove, BeginComplete, RowOps
    <2> QED
      BY <1>3, <1>6, <2>2 DEF RoleStep, CommitPromote, CommitDemote, CommitComplete, CommitRow,
                              CommitRemove, Serving
  <1>7. ASSUME NEW k \in InviteIds, InviteExpires(k) PROVE P
    BY <1>7 DEF InviteExpires, Resting, TypeOK
  <1>8. CASE UNCHANGED vars
    BY <1>8 DEF vars, Resting
  <1> QED
    BY <1>3, <1>5, <1>6, <1>7, <1>8 DEF Next, Rollback

LEMMA TestedStep ==
  ASSUME TypeOK, DecidersHold, OneAtATime, LimitsInv, [Next]_vars, NEW v \in Workers, ~Idle(v)'
  PROVE  StillTested(req[v])'
  <1>1. InvitesInv /\ (~Idle(v) => StillTested(req[v]))
    BY DEF LimitsInv
  <1>2. Resting
    BY <1>1, Alone
  <1>3. ActiveAdmins' = ActiveAdmins
    BY <1>2 DEF Resting, ActiveAdmins, IsAdmin, Here
  <1>4. ASSUME NEW r, StillTested(r), r = req'[v] PROVE StillTested(req[v])'
    BY <1>2, <1>3, <1>4 DEF Resting, StillTested
  <1>5. CASE req'[v] = req[v]
    BY <1>1, <1>4, <1>5 DEF Idle
  <1>6. CASE ~Idle(v) /\ Decides(v) /\ req'[v].op = req[v].op /\ req'[v].target = req[v].target
    BY <1>1, <1>2, <1>6 DEF Resting, StillTested, Decides, Serving
  <1> QED
    BY <1>1, <1>4, <1>5, <1>6, Alone

LEMMA InvitesStep ==
  ASSUME TypeOK, DecidersHold, OneAtATime, LimitsInv, [Next]_vars
  PROVE  InvitesInv'
  <1>1. InvitesInv /\ \A w \in Workers : ~Idle(w) => StillTested(req[w])
    BY DEF LimitsInv
  <1>2. issued \subseteq issued'
    BY KeysChange
  \* No request to join appears and no invitation opens.
  <1>3. ASSUME \A m \in MemberIds : join'[m] # Null => join[m] # Null /\ join'[m].via = join[m].via,
               \A k \in InviteIds : invite'[k] = "open" => invite[k] = "open"
        PROVE  InvitesInv'
    BY <1>1, <1>2, <1>3 DEF InvitesInv
  <1>4. ASSUME NEW w \in Workers, NEW k \in InviteIds, CommitInvite(w, k) PROVE InvitesInv'
    <2>1. k \notin issued /\ join' = join /\ issued' = issued \cup {k}
      BY <1>4 DEF CommitInvite
    <2>2. \A j \in InviteIds : invite'[j] = "open" => j = k
      BY <1>1, <1>4 DEF CommitInvite, StillTested, Serving
    <2>3. \A m \in MemberIds : join[m] # Null => join[m].via # k
      BY <1>1, <2>1, NullAssumption DEF InvitesInv
    <2> QED
      BY <1>1, <2>1, <2>2, <2>3 DEF InvitesInv
  <1>5. ASSUME NEW w \in Workers, NEW m \in MemberIds, CommitJoin(w, m) PROVE InvitesInv'
    <2> DEFINE via == req[w].via
    <2>1. /\ \A n \in MemberIds \ {m} : join'[n] = join[n]
          /\ join'[m].via = via
          /\ \A k \in InviteIds : invite'[k] = "open" => k # via /\ invite[k] = "open"
      BY <1>5 DEF CommitJoin, TypeOK
    <2>2. via # Null => /\ via \in issued
                        /\ \A n \in MemberIds : join[n] # Null => join[n].via # via
      BY <1>1, <1>5 DEF CommitJoin, Serving, StillTested
    <2> HIDE DEF via
    <2> QED
      BY <1>1, <1>2, <2>1, <2>2 DEF InvitesInv
  <1>6. ASSUME NEW w \in Workers, NEW m \in MemberIds, CommitAdd(w, m) PROVE InvitesInv'
    BY <1>3, <1>6 DEF CommitAdd
  <1>7. ASSUME NEW w \in Workers, CommitApprove(w) \/ CommitReject(w) PROVE InvitesInv'
    <2>1. PICK op \in {"approve", "reject"}, state \in {"active", "rejected"},
               decision \in {"approved", "rejected"} : CommitDecision(w, op, state, decision)
      BY <1>7, Decisions
    <2>2. PICK m \in MemberIds : m = req[w].target
      BY <2>1, DecisionStates
    <2>3. /\ join[m] # Null /\ join'[m].via = join[m].via
          /\ \A n \in MemberIds \ {m} : join'[n] = join[n]
      BY <2>1, <2>2, DecisionStates, NullAssumption
    <2> QED
      BY <1>3, <2>1, <2>3 DEF CommitDecision
  <1>8. ASSUME NEW w \in Workers, NEW op, CommitRow(w, op) PROVE InvitesInv'
    BY <1>3, <1>8 DEF CommitRow
  <1>9. ASSUME NEW w \in Workers, CommitRemove(w) PROVE InvitesInv'
    BY <1>3, <1>9 DEF CommitRemove, TypeOK
  <1>10. ASSUME NEW w \in Workers, NEW r, Ask(w, r) PROVE InvitesInv'
    BY <1>3, <1>10 DEF Ask
  <1>11. ASSUME NEW w \in Workers, JoinStep(w) PROVE InvitesInv'
    BY <1>3, <1>4, <1>5, <1>6, <1>7, <1>10, <1>11
    DEF JoinStep, BeginInvite, BeginJoin, BeginAdd, BeginDecide, LoadJoiner
  <1>12. ASSUME NEW w \in Workers, RoleStep(w) PROVE InvitesInv'
    BY <1>8, <1>9, <1>10, <1>12
    DEF RoleStep, BeginPromote, BeginDemote, BeginRemove, BeginComplete, LoadMember,
        CommitPromote, CommitDemote, CommitComplete
  <1>13. CASE (\E w \in Workers : Rollback(w)) \/ (\E k \in InviteIds : InviteExpires(k))
              \/ UNCHANGED vars
    BY <1>3, <1>13 DEF Rollback, InviteExpires, vars, TypeOK
  <1> QED
    BY <1>11, <1>12, <1>13 DEF Next

\* Only a promotion makes an administrator, and it has counted them.
LEMMA AdminsStep ==
  ASSUME TypeOK, RoleInv, DecisionInv, OneAtATime, LimitsInv, [Next]_vars
  PROVE  AdminsInv'
  <1>1. AdminsInv /\ \A w \in Workers : ~Idle(w) => StillTested(req[w])
    BY DEF LimitsInv
  <1>2. Cardinality(ActiveAdmins) \in Nat /\ MaxAdmins \in Nat
    BY <1>1, FS_CardinalityType, MaxAdminsAssumption DEF AdminsInv
  <1>3. ASSUME ActiveAdmins' \subseteq ActiveAdmins PROVE AdminsInv'
    <2>1. IsFiniteSet(ActiveAdmins') /\ Cardinality(ActiveAdmins') <= Cardinality(ActiveAdmins)
      BY <1>1, <1>3, FS_Subset DEF AdminsInv
    <2>2. Cardinality(ActiveAdmins') \in Nat
      BY <2>1, FS_CardinalityType
    <2> QED
      BY <1>1, <1>2, <2>1, <2>2 DEF AdminsInv
  <1>4. ASSUME NEW m, ActiveAdmins' \subseteq ActiveAdmins \cup {m},
               Cardinality(ActiveAdmins) < MaxAdmins
        PROVE  AdminsInv'
    <2>1. /\ IsFiniteSet(ActiveAdmins \cup {m})
          /\ Cardinality(ActiveAdmins \cup {m}) <= Cardinality(ActiveAdmins) + 1
      BY <1>1, <1>2, FS_AddElement DEF AdminsInv
    <2>2. /\ IsFiniteSet(ActiveAdmins')
          /\ Cardinality(ActiveAdmins') <= Cardinality(ActiveAdmins \cup {m})
      BY <1>4, <2>1, FS_Subset
    <2>3. Cardinality(ActiveAdmins') \in Nat /\ Cardinality(ActiveAdmins \cup {m}) \in Nat
      BY <2>1, <2>2, FS_CardinalityType
    <2> QED
      BY <1>2, <1>4, <2>1, <2>2, <2>3 DEF AdminsInv
  <1>5. CASE UNCHANGED <<member, join>>
    BY <1>3, <1>5 DEF ActiveAdmins, IsAdmin, Here
  <1>6. ASSUME NEW w \in Workers, NEW m \in MemberIds, CommitJoin(w, m) \/ CommitAdd(w, m)
        PROVE  AdminsInv'
    <2>1. member'[m].role = "member" /\ \A n \in MemberIds \ {m} : member'[n] = member[n]
      BY <1>6 DEF CommitJoin, CommitAdd, TypeOK
    <2> QED
      BY <1>3, <2>1 DEF ActiveAdmins, IsAdmin, Here
  <1>7. ASSUME NEW w \in Workers, CommitApprove(w) \/ CommitReject(w) PROVE AdminsInv'
    <2>1. PICK op \in {"approve", "reject"}, state \in {"active", "rejected"},
               decision \in {"approved", "rejected"} :
            CommitDecision(w, op, state, decision) /\ Decides(w)
      BY <1>7, Decisions
    <2>2. PICK m \in MemberIds : m = req[w].target
      BY <2>1, DecisionStates
    <2>3. /\ join[m] # Null /\ Here(m)
          /\ member'[m].role = member[m].role
          /\ \A n \in MemberIds \ {m} : member'[n] = member[n]
      BY <1>7, <2>1, <2>2, DecisionStates, DecisionEffect, NullAssumption DEF Here
    <2>4. join[m].state = "pending"
      BY <1>1, <2>1, <2>2, <2>3 DEF StillTested, Decides, Serving
    <2>5. member[m].state = "pending"
      <3>1. Cardinality(pool) <= 2
        <4>1. Cardinality(pool) \in Nat
          BY WorkersAssumption, FS_Subset, FS_CardinalityType DEF TypeOK
        <4> QED
          BY <4>1 DEF OneAtATime
      <3> QED
        BY <2>3, <2>4, <3>1 DEF DecisionInv, DecisionIsTheMembership, Says
    <2>6. member[m].role = "member"
      BY <2>3, <2>5 DEF RoleInv, PendingHasNoRole
    <2> QED
      BY <1>3, <2>3, <2>6 DEF ActiveAdmins, IsAdmin, Here
  <1>8. ASSUME NEW w \in Workers, NEW op \in {"promote", "demote", "complete"}, CommitRow(w, op)
        PROVE  AdminsInv'
    <2>1. PICK m \in MemberIds : m = req[w].target
      BY <1>8, RowEffect
    <2>2. /\ Here(m) /\ member'[m].state = member[m].state
          /\ op # "promote" => member'[m].role \in {member[m].role, "member"}
          /\ \A n \in MemberIds \ {m} : member'[n] = member[n]
      BY <1>8, <2>1, RowEffect DEF CommitRow, TypeOK
    <2>3. CASE op = "promote"
      <3>1. Cardinality(ActiveAdmins) < MaxAdmins
        BY <1>1, <1>8, <2>3 DEF CommitRow, Serving, StillTested
      <3>2. ActiveAdmins' \subseteq ActiveAdmins \cup {m}
        BY <2>2 DEF ActiveAdmins, IsAdmin, Here
      <3> QED
        BY <1>4, <3>1, <3>2
    <2>4. CASE op # "promote"
      BY <1>3, <2>2, <2>4 DEF ActiveAdmins, IsAdmin, Here
    <2> QED
      BY <2>3, <2>4
  <1>9. ASSUME NEW w \in Workers, CommitRemove(w) PROVE AdminsInv'
    <2>1. \A n \in MemberIds : member'[n] # Null => member'[n] = member[n]
      BY <1>9 DEF CommitRemove, TypeOK
    <2> QED
      BY <1>3, <2>1 DEF ActiveAdmins, IsAdmin, Here
  <1> QED
    BY <1>5, <1>6, <1>7, <1>8, <1>9, Writers

\* Where requests do not overlap, a family keeps to its number of administrators,
\* an invitation lets in one joiner and at most one invitation is open.
THEOREM Limits == Spec => []LimitsHold
  <1>1. Init => LimitsInv
    <2> SUFFICES ASSUME Init PROVE LimitsInv
      OBVIOUS
    <2>1. ActiveAdmins \subseteq {Creator}
      BY DEF Init, ActiveAdmins, IsAdmin, Here
    <2>2. IsFiniteSet({Creator}) /\ Cardinality({Creator}) = 1
      BY FS_Singleton
    <2>3. IsFiniteSet(ActiveAdmins) /\ Cardinality(ActiveAdmins) <= 1
      BY <2>1, <2>2, FS_Subset
    <2>4. Cardinality(ActiveAdmins) \in Nat
      BY <2>3, FS_CardinalityType
    <2>5. AdminsInv
      BY <2>3, <2>4, MaxAdminsAssumption DEF AdminsInv
    <2>6. InvitesInv
      BY DEF Init, InvitesInv
    <2> QED
      BY <2>5, <2>6 DEF Init, LimitsInv, Idle
  <1>2. TypeOK /\ RoleInv /\ DecisionInv /\ LimitsInv /\ [Next]_vars => LimitsInv'
    <2> SUFFICES ASSUME TypeOK, RoleInv, DecisionInv, LimitsInv, [Next]_vars, OneAtATime
                 PROVE  AdminsInv' /\ InvitesInv' /\ \A w \in Workers : ~Idle(w)' => StillTested(req[w])'
      BY PoolFixed DEF LimitsInv, OneAtATime
    <2>1. DecidersHold
      BY DEF DecisionInv
    <2> QED
      BY <2>1, AdminsStep, InvitesStep, TestedStep
  <1>3. LimitsInv => LimitsHold
    BY DEF LimitsInv, AdminsInv, InvitesInv, LimitsHold
  <1> QED
    BY <1>1, <1>2, <1>3, Typing, RolesInductive, DecisionInductive, PTL DEF Spec
=============================================================================
