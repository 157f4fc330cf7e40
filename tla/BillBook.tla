------------------------------ MODULE BillBook ------------------------------
(***************************************************************************)
(* What the bills of a family promise, with every request one step: a bill *)
(* is open, cancelled or paid, and it is charged to the family by one      *)
(* expense while it is paid and by none otherwise.  The expense of a paid  *)
(* bill may be lost to the transactions API or with the member who paid.   *)
(***************************************************************************)
CONSTANTS BillIds, TxIds

VARIABLES status, charged

Init ==
  /\ status = [b \in BillIds |-> "absent"]
  /\ charged = [b \in BillIds |-> {}]

Move(b, from, to) ==
  /\ status[b] \in from
  /\ status' = [status EXCEPT ![b] = to]

Open(b)   == Move(b, {"absent"}, "unpaid") /\ UNCHANGED charged
Cancel(b) == Move(b, {"unpaid", "cancelled"}, "cancelled") /\ UNCHANGED charged
Remove(b) == Move(b, {"unpaid", "cancelled"}, "absent") /\ UNCHANGED charged

Pay(b, t) ==
  /\ Move(b, {"unpaid"}, "paid")
  /\ \A c \in BillIds : t \notin charged[c]
  /\ charged' = [charged EXCEPT ![b] = {t}]

Unpay(b) ==
  /\ Move(b, {"paid"}, "unpaid")
  /\ charged' = [charged EXCEPT ![b] = {}]

Lose(lost) ==
  /\ charged' = [b \in BillIds |-> charged[b] \ lost]
  /\ UNCHANGED status

Next ==
  \/ \E b \in BillIds : \/ Open(b) \/ Cancel(b) \/ Remove(b) \/ Unpay(b)
                        \/ \E t \in TxIds : Pay(b, t)
  \/ \E lost \in SUBSET TxIds : Lose(lost)

Spec == Init /\ [][Next]_<<status, charged>>
=============================================================================
