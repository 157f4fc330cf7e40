---------------------------- MODULE MCAppSession ----------------------------
(* Small instances of AppSession. *)
EXTENDS AppSession

CONSTANTS t1, t2, s1, s2

\* One tab of every kind; two tabs where the storage fails or the server wants a
\* code, but not both.
OneOrTwoTabs == {d \in Device : \/ d.tabs = {t1}
                                \/ d.tabs = {t1, t2} /\ ~(d.broken /\ d.codes)}
=============================================================================
