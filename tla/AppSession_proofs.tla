-------------------------- MODULE AppSession_proofs --------------------------
(* Theorems about AppSession, for every value of its constants. *)
EXTENDS AppSession, TLAPS

-----------------------------------------------------------------------------
\* Typing, with what a page holds at each of its steps.

StepsOf(p) ==
  /\ p.phase = "closed" => p.step = "key"
  /\ p.phase = "boot" => p.step \in {"key", "newKey", "load", "validate", "body", "stuck"}
  /\ p.phase = "auth" <=> p.step = "form"
  /\ p.phase = "ready" <=> p.step \in {"use", "logout"}
  /\ p.phase \in {"closed", "boot"} => p.lists = Null /\ ~p.asks /\ p.ends = {} /\ p.reads = {}
  /\ p.step \in {"key", "newKey", "load"} => p.cache = Null
  /\ p.step \in {"key", "newKey"} => p.key = Null
  /\ p.step \in {"validate", "body"} => p.phase = "boot" /\ p.cache # Null

Steps == \A t \in Tabs : StepsOf(page[t])

\* The token the server takes is one it has never issued.
LEMMA OpenedIsNew ==
  ASSUME TypeOK, issued # Sessions
  PROVE  Opened \in Sessions \ issued
  BY DEF TypeOK, Opened

\* The tokens, and the records the storage may hold.
LEMMA Tokens == Null \in Token /\ Sessions \subseteq Token
  BY DEF Token

\* What a record of the storage is made of.
LEMMA Stored ==
  ASSUME NEW r \in Record
  PROVE  r.session \in Sessions /\ r.key \in Tabs
  BY DEF Record

\* A step writes one page.
LEMMA OnePage ==
  ASSUME TypeOK, NEW t \in Tabs, NEW p, Becomes(t, p)
  PROVE  /\ page'[t] = p
         /\ \A u \in Tabs : u # t => page'[u] = page[u]
         /\ page'[t] \in Page => page' \in [Tabs -> Page]
  <1> USE DEF TypeOK, Becomes
  <1> HIDE DEF Page
  <1>1. page'[t] = p
    OBVIOUS
  <1>2. \A u \in Tabs : u # t => page'[u] = page[u]
    OBVIOUS
  <1>3. page' = [u \in Tabs |-> page'[u]]
    OBVIOUS
  <1> QED
    BY <1>1, <1>2, <1>3

\* Every step keeps the types.
LEMMA TypesKept ==
  ASSUME TypeOK, [Next]_vars
  PROVE  TypeOK'
  <1> USE NullAssumption
  <1>1. ASSUME NEW t \in Tabs, Open(t) PROVE TypeOK'
    BY <1>1
    DEF Open, Becomes, Disk, Server, At, TypeOK, Page, Record, Token, NewPage
  <1>2. ASSUME NEW t \in Tabs, Close(t) PROVE TypeOK'
    BY <1>2
    DEF Close, Becomes, Disk, Server, At, TypeOK, Page, Record, Token, NewPage
  <1>3. ASSUME NEW t \in Tabs, ReadKey(t) PROVE TypeOK'
    <2>1. /\ t \in DOMAIN page /\ page[t] \in Page
          /\ storedKey \in Tabs \cup {Null} /\ alive \subseteq Sessions
      BY DEF TypeOK
    <2>2. page'[t] \in Page
      BY <1>3, <2>1, Tokens DEF ReadKey, At, Disk, Server, Becomes, Page
    <2> QED
      BY <1>3, <2>2, OnePage DEF ReadKey, At, Disk, Server, TypeOK, Record, Token
  <1>4. ASSUME NEW t \in Tabs, WriteKey(t) PROVE TypeOK'
    <2>1. /\ t \in DOMAIN page /\ page[t] \in Page
          /\ storedKey \in Tabs \cup {Null} /\ alive \subseteq Sessions
      BY DEF TypeOK
    <2>2. page'[t] \in Page
      BY <1>4, <2>1, Tokens DEF WriteKey, At, Disk, Server, Becomes, Page
    <2> QED
      BY <1>4, <2>2, OnePage DEF WriteKey, At, Disk, Server, TypeOK, Record, Token
  <1>5. ASSUME NEW t \in Tabs, NoDatabase(t) PROVE TypeOK'
    BY <1>5 DEF NoDatabase, Becomes, Disk, Server, At, TypeOK, Page, Record, Token
  <1>6. ASSUME NEW t \in Tabs, Load(t) PROVE TypeOK'
    <2>1. t \in DOMAIN page /\ page[t] \in Page
      BY DEF TypeOK
    <2>2. Readable(t) => record.session \in Sessions
      BY Stored DEF TypeOK, Readable
    <2>3. page'[t] \in Page
      BY <1>6, <2>1, <2>2, Tokens DEF Load, Becomes, Page
    <2> QED
      BY <1>6, <2>3, OnePage DEF Load, Disk, Server, TypeOK
  <1>7. ASSUME NEW t \in Tabs, LoadRejects(t) PROVE TypeOK'
    BY <1>7 DEF LoadRejects, Becomes, Disk, Server, At, TypeOK, Page, Record, Token
  <1>8. ASSUME NEW t \in Tabs, NotRestored(t) PROVE TypeOK'
    <2>1. /\ t \in DOMAIN page /\ page[t] \in Page
          /\ storedKey \in Tabs \cup {Null} /\ alive \subseteq Sessions
      BY DEF TypeOK
    <2>2. page'[t] \in Page
      BY <1>8, <2>1, Tokens DEF NotRestored, At, Disk, Server, Remove, Becomes, Page
    <2> QED
      BY <1>8, <2>2, OnePage
      DEF NotRestored, At, Disk, Server, Remove, TypeOK, Record, Token
  <1>9. ASSUME NEW t \in Tabs, NotRestoredRejects(t) PROVE TypeOK'
    <2>1. /\ t \in DOMAIN page /\ page[t] \in Page
          /\ storedKey \in Tabs \cup {Null} /\ alive \subseteq Sessions
      BY DEF TypeOK
    <2>2. page'[t] \in Page
      BY <1>9, <2>1, Tokens DEF NotRestoredRejects, At, Disk, Server, Becomes, Page
    <2> QED
      BY <1>9, <2>2, OnePage
      DEF NotRestoredRejects, At, Disk, Server, TypeOK, Record, Token
  <1>10. ASSUME NEW t \in Tabs, HeadersArrive(t) PROVE TypeOK'
    BY <1>10
    DEF HeadersArrive, Becomes, Disk, Server, At, TypeOK, Page, Record, Token
  <1>11. ASSUME NEW t \in Tabs, Restored(t) PROVE TypeOK'
    <2>1. /\ t \in DOMAIN page /\ page[t] \in Page
          /\ storedKey \in Tabs \cup {Null} /\ alive \subseteq Sessions
      BY DEF TypeOK
    <2>2. page'[t] \in Page
      BY <1>11, <2>1, Tokens
      DEF Restored, At, Disk, Server, Authenticated, Becomes, Page
    <2> QED
      BY <1>11, <2>2, OnePage
      DEF Restored, At, Disk, Server, Authenticated, TypeOK, Record, Token
  <1>12. ASSUME NEW t \in Tabs, BodyBreaks(t) PROVE TypeOK'
    <2>1. /\ t \in DOMAIN page /\ page[t] \in Page
          /\ storedKey \in Tabs \cup {Null} /\ alive \subseteq Sessions
      BY DEF TypeOK
    <2>2. page'[t] \in Page
      BY <1>12, <2>1, Tokens DEF BodyBreaks, At, Disk, Server, Remove, Becomes, Page
    <2> QED
      BY <1>12, <2>2, OnePage
      DEF BodyBreaks, At, Disk, Server, Remove, TypeOK, Record, Token
  <1>13. ASSUME NEW t \in Tabs, Login(t) PROVE TypeOK'
    <2>1. /\ t \in DOMAIN page /\ page[t] \in Page
          /\ storedKey \in Tabs \cup {Null} /\ alive \subseteq Sessions
      BY DEF TypeOK
    <2>2. page'[t] \in Page
      BY <1>13, <2>1, Tokens DEF Login, At, Disk, Server, Becomes, Page
    <2> QED
      BY <1>13, <2>2, OnePage DEF Login, At, Disk, Server, TypeOK, Record, Token
  <1>14. ASSUME NEW t \in Tabs, LoggedIn(t) PROVE TypeOK'
    <2>1. t \in DOMAIN page /\ page[t] \in Page
      BY DEF TypeOK
    <2>2. Opened \in Sessions
      BY <1>14, OpenedIsNew DEF LoggedIn, OpensSession
    <2>3. page'[t] \in Page
      BY <1>14, <2>1, <2>2, Tokens DEF LoggedIn, Becomes, Page
    <2>4. record' \in {Null} \cup Record
      <3>1. page[t].key \in Tabs \cup {Null}
        BY <2>1 DEF Page
      <3> QED
        BY <1>14, <2>2, <3>1 DEF LoggedIn, Put, TypeOK, Record
    <2>5. alive' \subseteq issued' /\ issued' \subseteq Sessions
      BY <1>14, <2>2 DEF LoggedIn, OpensSession, TypeOK
    <2> QED
      BY <1>14, <2>3, <2>4, <2>5, OnePage DEF LoggedIn, TypeOK
  <1>15. ASSUME NEW t \in Tabs, NotSaved(t) PROVE TypeOK'
    <2>1. /\ t \in DOMAIN page /\ page[t] \in Page
          /\ storedKey \in Tabs \cup {Null} /\ alive \subseteq Sessions
      BY DEF TypeOK
    <2>2. page'[t] \in Page
      BY <1>15, OpenedIsNew, <2>1, Tokens
      DEF NotSaved, At, Disk, Server, OpensSession, Becomes, Page
    <2> QED
      BY <1>15, OpenedIsNew, <2>2, OnePage
      DEF NotSaved, At, Disk, Server, OpensSession, TypeOK, Record, Token
  <1>16. ASSUME NEW t \in Tabs, LoginFails(t) PROVE TypeOK'
    <2>1. /\ t \in DOMAIN page /\ page[t] \in Page
          /\ storedKey \in Tabs \cup {Null} /\ alive \subseteq Sessions
      BY DEF TypeOK
    <2>2. page'[t] \in Page
      BY <1>16, OpenedIsNew, <2>1, Tokens
      DEF LoginFails, At, Disk, Server, OpensSession, Becomes, Page
    <2> QED
      BY <1>16, OpenedIsNew, <2>2, OnePage
      DEF LoginFails, At, Disk, Server, OpensSession, TypeOK, Record, Token
  <1>17. ASSUME NEW t \in Tabs, NEW s \in Sessions, Finished(t, s) PROVE TypeOK'
    <2>1. /\ t \in DOMAIN page /\ page[t] \in Page
          /\ storedKey \in Tabs \cup {Null} /\ alive \subseteq Sessions
      BY DEF TypeOK
    <2>2. page'[t] \in Page
      BY <1>17, <2>1, Tokens
      DEF Finished, At, Disk, Server, Authenticated, Becomes, Page
    <2> QED
      BY <1>17, <2>2, OnePage
      DEF Finished, At, Disk, Server, Authenticated, TypeOK, Record, Token
  <1>18. ASSUME NEW t \in Tabs, NEW s \in Sessions, NotFinished(t, s) PROVE TypeOK'
    <2>1. /\ t \in DOMAIN page /\ page[t] \in Page
          /\ storedKey \in Tabs \cup {Null} /\ alive \subseteq Sessions
      BY DEF TypeOK
    <2>2. page'[t] \in Page
      BY <1>18, <2>1, Tokens
      DEF NotFinished, At, Disk, Server, Remove, Becomes, Page
    <2> QED
      BY <1>18, <2>2, OnePage
      DEF NotFinished, At, Disk, Server, Remove, TypeOK, Record, Token
  <1>19. ASSUME NEW t \in Tabs, NEW s \in Sessions, NotFinishedRejects(t, s) PROVE TypeOK'
    <2>1. /\ t \in DOMAIN page /\ page[t] \in Page
          /\ storedKey \in Tabs \cup {Null} /\ alive \subseteq Sessions
      BY DEF TypeOK
    <2>2. page'[t] \in Page
      BY <1>19, <2>1, Tokens DEF NotFinishedRejects, At, Disk, Server, Becomes, Page
    <2> QED
      BY <1>19, <2>2, OnePage
      DEF NotFinishedRejects, At, Disk, Server, TypeOK, Record, Token
  <1>20. ASSUME NEW t \in Tabs, NEW ended \in SUBSET Sessions, ResetPassword(t, ended) PROVE TypeOK'
    BY <1>20
    DEF ResetPassword, Becomes, Disk, Server, At, TypeOK, Page, Record, Token,
        Remove
  <1>21. ASSUME NEW t \in Tabs, Refresh(t) PROVE TypeOK'
    BY <1>21 DEF Refresh, Becomes, Disk, Server, At, TypeOK, Page, Record, Token
  <1>22. ASSUME NEW t \in Tabs, NEW s \in Token, Refreshed(t, s) PROVE TypeOK'
    <2>1. /\ t \in DOMAIN page /\ page[t] \in Page
          /\ storedKey \in Tabs \cup {Null} /\ alive \subseteq Sessions
      BY DEF TypeOK
    <2>2. page'[t] \in Page
      BY <1>22, <2>1, Tokens DEF Refreshed, At, Disk, Server, Becomes, Page
    <2> QED
      BY <1>22, <2>2, OnePage DEF Refreshed, At, Disk, Server, TypeOK, Record, Token
  <1>23. ASSUME NEW t \in Tabs, NEW s \in Token, RefreshFails(t, s) PROVE TypeOK'
    BY <1>23
    DEF RefreshFails, Becomes, Disk, Server, At, TypeOK, Page, Record, Token
  <1>24. ASSUME NEW t \in Tabs, Logout(t) PROVE TypeOK'
    BY <1>24 DEF Logout, Becomes, Disk, Server, At, TypeOK, Page, Record, Token
  <1>25. ASSUME NEW t \in Tabs, LoggedOut(t) PROVE TypeOK'
    <2>1. t \in DOMAIN page /\ page[t] \in Page
      BY DEF TypeOK
    <2>2. left' \subseteq Sessions
      <3>1. page[t].cache \in Sessions \cup {Null}
        BY <2>1 DEF Page, Token
      <3> QED
        BY <1>25, <3>1 DEF LoggedOut, TypeOK
    <2>3. page'[t] = [NewPage("boot") EXCEPT !.seen = left']
      BY <1>25, <2>1 DEF LoggedOut
    <2>4. page'[t] \in Page
      BY <2>2, <2>3, Tokens DEF NewPage, Page
    <2>5. page' \in [Tabs -> Page]
      BY <1>25, <2>4, OnePage DEF LoggedOut, Becomes
    <2> QED
      BY <1>25, <2>2, <2>5 DEF LoggedOut, Remove, TypeOK
  <1>26. ASSUME NEW t \in Tabs, LoggedOutRejects(t) PROVE TypeOK'
    BY <1>26
    DEF LoggedOutRejects, Becomes, Disk, Server, At, TypeOK, Page, Record, Token,
        NewPage
  <1>27. ASSUME NEW s \in Sessions, ServerEnds(s) PROVE TypeOK'
    BY <1>27 DEF ServerEnds, Disk, TypeOK, Page, Record, Token
  <1>28. CASE UNCHANGED vars
    BY <1>28 DEF vars, TypeOK, Page, Record, Token
  <1> QED
    BY <1>1, <1>2, <1>3, <1>4, <1>5, <1>6, <1>7, <1>8, <1>9, <1>10,
       <1>11, <1>12, <1>13, <1>14, <1>15, <1>16, <1>17, <1>18, <1>19,
       <1>20, <1>21, <1>22, <1>23, <1>24, <1>25, <1>26, <1>27, <1>28
    DEF Next, Boots, Answers, Acts

\* Every step keeps the steps of the pages.
LEMMA StepsKept ==
  ASSUME TypeOK, Steps, [Next]_vars
  PROVE  Steps'
  <1> USE NullAssumption DEF TypeOK, Page, Record, Token
  <1>1. ASSUME NEW t \in Tabs, Open(t) PROVE Steps'
    BY <1>1 DEF Open, Becomes, Disk, Server, At, Steps, StepsOf, NewPage
  <1>2. ASSUME NEW t \in Tabs, Close(t) PROVE Steps'
    BY <1>2 DEF Close, Becomes, Disk, Server, At, Steps, StepsOf, NewPage
  <1>3. ASSUME NEW t \in Tabs, ReadKey(t) PROVE Steps'
    BY <1>3 DEF ReadKey, Becomes, Disk, Server, At, Steps, StepsOf
  <1>4. ASSUME NEW t \in Tabs, WriteKey(t) PROVE Steps'
    BY <1>4 DEF WriteKey, Becomes, Disk, Server, At, Steps, StepsOf
  <1>5. ASSUME NEW t \in Tabs, NoDatabase(t) PROVE Steps'
    BY <1>5 DEF NoDatabase, Becomes, Disk, Server, At, Steps, StepsOf
  <1>6. ASSUME NEW t \in Tabs, Load(t) PROVE Steps'
    BY <1>6 DEF Load, Becomes, Disk, Server, At, Steps, StepsOf, Readable
  <1>7. ASSUME NEW t \in Tabs, LoadRejects(t) PROVE Steps'
    BY <1>7 DEF LoadRejects, Becomes, Disk, Server, At, Steps, StepsOf
  <1>8. ASSUME NEW t \in Tabs, NotRestored(t) PROVE Steps'
    BY <1>8 DEF NotRestored, Becomes, Disk, Server, At, Steps, StepsOf, Remove
  <1>9. ASSUME NEW t \in Tabs, NotRestoredRejects(t) PROVE Steps'
    BY <1>9 DEF NotRestoredRejects, Becomes, Disk, Server, At, Steps, StepsOf
  <1>10. ASSUME NEW t \in Tabs, HeadersArrive(t) PROVE Steps'
    BY <1>10 DEF HeadersArrive, Becomes, Disk, Server, At, Steps, StepsOf
  <1>11. ASSUME NEW t \in Tabs, Restored(t) PROVE Steps'
    BY <1>11 DEF Restored, Becomes, Disk, Server, At, Steps, StepsOf, Authenticated
  <1>12. ASSUME NEW t \in Tabs, BodyBreaks(t) PROVE Steps'
    BY <1>12 DEF BodyBreaks, Becomes, Disk, Server, At, Steps, StepsOf, Remove
  <1>13. ASSUME NEW t \in Tabs, Login(t) PROVE Steps'
    BY <1>13 DEF Login, Becomes, Disk, Server, At, Steps, StepsOf
  <1>14. ASSUME NEW t \in Tabs, LoggedIn(t) PROVE Steps'
    BY <1>14, OpenedIsNew
    DEF LoggedIn, Becomes, Disk, Server, At, Steps, StepsOf, OpensSession, Put
  <1>15. ASSUME NEW t \in Tabs, NotSaved(t) PROVE Steps'
    BY <1>15, OpenedIsNew
    DEF NotSaved, Becomes, Disk, Server, At, Steps, StepsOf, OpensSession
  <1>16. ASSUME NEW t \in Tabs, LoginFails(t) PROVE Steps'
    BY <1>16, OpenedIsNew
    DEF LoginFails, Becomes, Disk, Server, At, Steps, StepsOf, OpensSession
  <1>17. ASSUME NEW t \in Tabs, NEW s \in Sessions, Finished(t, s) PROVE Steps'
    BY <1>17 DEF Finished, Becomes, Disk, Server, At, Steps, StepsOf, Authenticated
  <1>18. ASSUME NEW t \in Tabs, NEW s \in Sessions, NotFinished(t, s) PROVE Steps'
    BY <1>18 DEF NotFinished, Becomes, Disk, Server, At, Steps, StepsOf, Remove
  <1>19. ASSUME NEW t \in Tabs, NEW s \in Sessions, NotFinishedRejects(t, s) PROVE Steps'
    BY <1>19 DEF NotFinishedRejects, Becomes, Disk, Server, At, Steps, StepsOf
  <1>20. ASSUME NEW t \in Tabs, NEW ended \in SUBSET Sessions, ResetPassword(t, ended) PROVE Steps'
    BY <1>20 DEF ResetPassword, Becomes, Disk, Server, At, Steps, StepsOf, Remove
  <1>21. ASSUME NEW t \in Tabs, Refresh(t) PROVE Steps'
    BY <1>21 DEF Refresh, Becomes, Disk, Server, At, Steps, StepsOf
  <1>22. ASSUME NEW t \in Tabs, NEW s \in Token, Refreshed(t, s) PROVE Steps'
    BY <1>22 DEF Refreshed, Becomes, Disk, Server, At, Steps, StepsOf
  <1>23. ASSUME NEW t \in Tabs, NEW s \in Token, RefreshFails(t, s) PROVE Steps'
    BY <1>23 DEF RefreshFails, Becomes, Disk, Server, At, Steps, StepsOf
  <1>24. ASSUME NEW t \in Tabs, Logout(t) PROVE Steps'
    BY <1>24 DEF Logout, Becomes, Disk, Server, At, Steps, StepsOf
  <1>25. ASSUME NEW t \in Tabs, LoggedOut(t) PROVE Steps'
    BY <1>25
    DEF LoggedOut, Becomes, Disk, Server, At, Steps, StepsOf, NewPage, Remove
  <1>26. ASSUME NEW t \in Tabs, LoggedOutRejects(t) PROVE Steps'
    BY <1>26
    DEF LoggedOutRejects, Becomes, Disk, Server, At, Steps, StepsOf, NewPage
  <1>27. ASSUME NEW s \in Sessions, ServerEnds(s) PROVE Steps'
    BY <1>27 DEF ServerEnds, Disk, Steps, StepsOf
  <1>28. CASE UNCHANGED vars
    BY <1>28 DEF vars, Steps, StepsOf
  <1> QED
    BY <1>1, <1>2, <1>3, <1>4, <1>5, <1>6, <1>7, <1>8, <1>9, <1>10,
       <1>11, <1>12, <1>13, <1>14, <1>15, <1>16, <1>17, <1>18, <1>19,
       <1>20, <1>21, <1>22, <1>23, <1>24, <1>25, <1>26, <1>27, <1>28
    DEF Next, Boots, Answers, Acts

\* Tables and pages keep their types: for any tabs, sessions and devices.
THEOREM Typing == Spec => []TypeOK
  <1>1. Init => TypeOK
    BY NullAssumption, DevicesAssumption
    DEF Init, NewPage, TypeOK, Page, Record, Token
  <1> QED
    BY <1>1, TypesKept, PTL DEF Spec

-----------------------------------------------------------------------------
\* What is shown is the member's.  ShownIsOwn alone is not inductive: an answer
\* on its way could bring another member's lists, and a second login another
\* token.  Where logins are awaited the page is busy until the login it began has
\* shown its member, and refreshes out of sight go out without a token.
OwnPage(p) ==
  /\ p.asks => p.busy /\ p.phase = "auth" /\ p.ends = {}
  /\ p.ends # {} => p.busy /\ p.phase = "auth" /\ p.ends = {p.cache}
  /\ p.phase # "ready" => p.lists = Null /\ p.reads \subseteq {Null}
  /\ p.phase = "ready" => /\ p.cache = p.member /\ p.lists \in {Null, p.member}
                          /\ p.reads \subseteq {Null, p.member}

OwnInv == ~device.codes => \A t \in Tabs : OwnPage(page[t])

\* Every step keeps what is shown the member's.
LEMMA OwnKept ==
  ASSUME TypeOK, Steps, OwnInv, [Next]_vars
  PROVE  OwnInv'
  <1> USE NullAssumption DEF TypeOK, Page, Record, Token
  <1>1. ASSUME NEW t \in Tabs, Open(t) PROVE OwnInv'
    BY <1>1
    DEF Open, Becomes, Disk, Server, At, Steps, StepsOf, OwnInv, OwnPage, NewPage
  <1>2. ASSUME NEW t \in Tabs, Close(t) PROVE OwnInv'
    BY <1>2
    DEF Close, Becomes, Disk, Server, At, Steps, StepsOf, OwnInv, OwnPage, NewPage
  <1>3. ASSUME NEW t \in Tabs, ReadKey(t) PROVE OwnInv'
    BY <1>3 DEF ReadKey, Becomes, Disk, Server, At, Steps, StepsOf, OwnInv, OwnPage
  <1>4. ASSUME NEW t \in Tabs, WriteKey(t) PROVE OwnInv'
    BY <1>4 DEF WriteKey, Becomes, Disk, Server, At, Steps, StepsOf, OwnInv, OwnPage
  <1>5. ASSUME NEW t \in Tabs, NoDatabase(t) PROVE OwnInv'
    BY <1>5
    DEF NoDatabase, Becomes, Disk, Server, At, Steps, StepsOf, OwnInv, OwnPage
  <1>6. ASSUME NEW t \in Tabs, Load(t) PROVE OwnInv'
    BY <1>6
    DEF Load, Becomes, Disk, Server, At, Steps, StepsOf, OwnInv, OwnPage, Readable
  <1>7. ASSUME NEW t \in Tabs, LoadRejects(t) PROVE OwnInv'
    BY <1>7
    DEF LoadRejects, Becomes, Disk, Server, At, Steps, StepsOf, OwnInv, OwnPage
  <1>8. ASSUME NEW t \in Tabs, NotRestored(t) PROVE OwnInv'
    BY <1>8
    DEF NotRestored, Becomes, Disk, Server, At, Steps, StepsOf, OwnInv, OwnPage,
        Remove
  <1>9. ASSUME NEW t \in Tabs, NotRestoredRejects(t) PROVE OwnInv'
    BY <1>9
    DEF NotRestoredRejects, Becomes, Disk, Server, At, Steps, StepsOf, OwnInv,
        OwnPage
  <1>10. ASSUME NEW t \in Tabs, HeadersArrive(t) PROVE OwnInv'
    BY <1>10
    DEF HeadersArrive, Becomes, Disk, Server, At, Steps, StepsOf, OwnInv, OwnPage
  <1>11. ASSUME NEW t \in Tabs, Restored(t) PROVE OwnInv'
    BY <1>11
    DEF Restored, Becomes, Disk, Server, At, Steps, StepsOf, OwnInv, OwnPage,
        Authenticated
  <1>12. ASSUME NEW t \in Tabs, BodyBreaks(t) PROVE OwnInv'
    BY <1>12
    DEF BodyBreaks, Becomes, Disk, Server, At, Steps, StepsOf, OwnInv, OwnPage,
        Remove
  <1>13. ASSUME NEW t \in Tabs, Login(t) PROVE OwnInv'
    BY <1>13 DEF Login, Becomes, Disk, Server, At, Steps, StepsOf, OwnInv, OwnPage
  <1>14. ASSUME NEW t \in Tabs, LoggedIn(t) PROVE OwnInv'
    BY <1>14, OpenedIsNew
    DEF LoggedIn, Becomes, Disk, Server, At, Steps, StepsOf, OwnInv, OwnPage,
        OpensSession, Put
  <1>15. ASSUME NEW t \in Tabs, NotSaved(t) PROVE OwnInv'
    BY <1>15, OpenedIsNew
    DEF NotSaved, Becomes, Disk, Server, At, Steps, StepsOf, OwnInv, OwnPage,
        OpensSession
  <1>16. ASSUME NEW t \in Tabs, LoginFails(t) PROVE OwnInv'
    BY <1>16, OpenedIsNew
    DEF LoginFails, Becomes, Disk, Server, At, Steps, StepsOf, OwnInv, OwnPage,
        OpensSession
  <1>17. ASSUME NEW t \in Tabs, NEW s \in Sessions, Finished(t, s) PROVE OwnInv'
    BY <1>17
    DEF Finished, Becomes, Disk, Server, At, Steps, StepsOf, OwnInv, OwnPage,
        Authenticated
  <1>18. ASSUME NEW t \in Tabs, NEW s \in Sessions, NotFinished(t, s) PROVE OwnInv'
    BY <1>18
    DEF NotFinished, Becomes, Disk, Server, At, Steps, StepsOf, OwnInv, OwnPage,
        Remove
  <1>19. ASSUME NEW t \in Tabs, NEW s \in Sessions, NotFinishedRejects(t, s) PROVE OwnInv'
    BY <1>19
    DEF NotFinishedRejects, Becomes, Disk, Server, At, Steps, StepsOf, OwnInv,
        OwnPage
  <1>20. ASSUME NEW t \in Tabs, NEW ended \in SUBSET Sessions, ResetPassword(t, ended) PROVE OwnInv'
    BY <1>20
    DEF ResetPassword, Becomes, Disk, Server, At, Steps, StepsOf, OwnInv, OwnPage,
        Remove
  <1>21. ASSUME NEW t \in Tabs, Refresh(t) PROVE OwnInv'
    BY <1>21 DEF Refresh, Becomes, Disk, Server, At, Steps, StepsOf, OwnInv, OwnPage
  <1>22. ASSUME NEW t \in Tabs, NEW s \in Token, Refreshed(t, s) PROVE OwnInv'
    BY <1>22
    DEF Refreshed, Becomes, Disk, Server, At, Steps, StepsOf, OwnInv, OwnPage
  <1>23. ASSUME NEW t \in Tabs, NEW s \in Token, RefreshFails(t, s) PROVE OwnInv'
    BY <1>23
    DEF RefreshFails, Becomes, Disk, Server, At, Steps, StepsOf, OwnInv, OwnPage
  <1>24. ASSUME NEW t \in Tabs, Logout(t) PROVE OwnInv'
    BY <1>24 DEF Logout, Becomes, Disk, Server, At, Steps, StepsOf, OwnInv, OwnPage
  <1>25. ASSUME NEW t \in Tabs, LoggedOut(t) PROVE OwnInv'
    BY <1>25
    DEF LoggedOut, Becomes, Disk, Server, At, Steps, StepsOf, OwnInv, OwnPage,
        NewPage, Remove
  <1>26. ASSUME NEW t \in Tabs, LoggedOutRejects(t) PROVE OwnInv'
    BY <1>26
    DEF LoggedOutRejects, Becomes, Disk, Server, At, Steps, StepsOf, OwnInv,
        OwnPage, NewPage
  <1>27. ASSUME NEW s \in Sessions, ServerEnds(s) PROVE OwnInv'
    BY <1>27 DEF ServerEnds, Disk, Steps, StepsOf, OwnInv, OwnPage
  <1>28. CASE UNCHANGED vars
    BY <1>28 DEF vars, Steps, StepsOf, OwnInv, OwnPage
  <1> QED
    BY <1>1, <1>2, <1>3, <1>4, <1>5, <1>6, <1>7, <1>8, <1>9, <1>10,
       <1>11, <1>12, <1>13, <1>14, <1>15, <1>16, <1>17, <1>18, <1>19,
       <1>20, <1>21, <1>22, <1>23, <1>24, <1>25, <1>26, <1>27, <1>28
    DEF Next, Boots, Answers, Acts

\* The lists and the token of a page in the app are those of the member shown,
\* where logins are awaited, in whatever order the answers come: for any number
\* of tabs and sessions.
THEOREM Own == Spec => []ShownIsOwn
  <1> DEFINE Inv == TypeOK /\ Steps /\ OwnInv
  <1>1. Init => Inv
    BY NullAssumption, DevicesAssumption
    DEF Init, NewPage, TypeOK, Page, Record, Token, Steps, StepsOf, OwnInv, OwnPage
  <1>2. Inv /\ [Next]_vars => Inv'
    BY TypesKept, StepsKept, OwnKept
  <1>3. Inv => ShownIsOwn
    BY DEF OwnInv, OwnPage, ShownIsOwn
  <1> QED
    BY <1>1, <1>2, <1>3, PTL DEF Spec

-----------------------------------------------------------------------------
\* A logout is final.  LoggedOutIsOut alone is not inductive: a page loaded later
\* could read a session that was left.  What is stored was never left, a page
\* without a key holds a session that is stored nowhere, and what a page holds or
\* waits for was not yet left when the page was loaded.
OutPage(p) ==
  /\ p.seen \subseteq left
  /\ p.cache # Null => p.cache \in issued /\ p.cache \notin p.seen
  /\ \A s \in p.ends : s \in issued /\ s \notin p.seen
  /\ p.key = Null /\ record # Null => record.session # p.cache
  /\ p.phase = "ready" => p.member \notin p.seen

OutInv ==
  /\ left \subseteq issued
  /\ record # Null => record.session \in issued /\ record.session \notin left
  /\ \A t \in Tabs : OutPage(page[t])

\* Every step keeps what was left out of reach.
LEMMA OutKept ==
  ASSUME TypeOK, Steps, OutInv, [Next]_vars
  PROVE  OutInv'
  <1> USE NullAssumption DEF TypeOK, Page, Record, Token
  <1>1. ASSUME NEW t \in Tabs, Open(t) PROVE OutInv'
    BY <1>1
    DEF Open, Becomes, Disk, Server, At, Steps, StepsOf, OutInv, OutPage, NewPage
  <1>2. ASSUME NEW t \in Tabs, Close(t) PROVE OutInv'
    BY <1>2
    DEF Close, Becomes, Disk, Server, At, Steps, StepsOf, OutInv, OutPage, NewPage
  <1>3. ASSUME NEW t \in Tabs, ReadKey(t) PROVE OutInv'
    BY <1>3 DEF ReadKey, Becomes, Disk, Server, At, Steps, StepsOf, OutInv, OutPage
  <1>4. ASSUME NEW t \in Tabs, WriteKey(t) PROVE OutInv'
    BY <1>4 DEF WriteKey, Becomes, Disk, Server, At, Steps, StepsOf, OutInv, OutPage
  <1>5. ASSUME NEW t \in Tabs, NoDatabase(t) PROVE OutInv'
    BY <1>5
    DEF NoDatabase, Becomes, Disk, Server, At, Steps, StepsOf, OutInv, OutPage
  <1>6. ASSUME NEW t \in Tabs, Load(t) PROVE OutInv'
    BY <1>6
    DEF Load, Becomes, Disk, Server, At, Steps, StepsOf, OutInv, OutPage, Readable
  <1>7. ASSUME NEW t \in Tabs, LoadRejects(t) PROVE OutInv'
    BY <1>7
    DEF LoadRejects, Becomes, Disk, Server, At, Steps, StepsOf, OutInv, OutPage
  <1>8. ASSUME NEW t \in Tabs, NotRestored(t) PROVE OutInv'
    BY <1>8
    DEF NotRestored, Becomes, Disk, Server, At, Steps, StepsOf, OutInv, OutPage,
        Remove
  <1>9. ASSUME NEW t \in Tabs, NotRestoredRejects(t) PROVE OutInv'
    BY <1>9
    DEF NotRestoredRejects, Becomes, Disk, Server, At, Steps, StepsOf, OutInv,
        OutPage
  <1>10. ASSUME NEW t \in Tabs, HeadersArrive(t) PROVE OutInv'
    BY <1>10
    DEF HeadersArrive, Becomes, Disk, Server, At, Steps, StepsOf, OutInv, OutPage
  <1>11. ASSUME NEW t \in Tabs, Restored(t) PROVE OutInv'
    BY <1>11
    DEF Restored, Becomes, Disk, Server, At, Steps, StepsOf, OutInv, OutPage,
        Authenticated
  <1>12. ASSUME NEW t \in Tabs, BodyBreaks(t) PROVE OutInv'
    BY <1>12
    DEF BodyBreaks, Becomes, Disk, Server, At, Steps, StepsOf, OutInv, OutPage,
        Remove
  <1>13. ASSUME NEW t \in Tabs, Login(t) PROVE OutInv'
    BY <1>13 DEF Login, Becomes, Disk, Server, At, Steps, StepsOf, OutInv, OutPage
  <1>14. ASSUME NEW t \in Tabs, LoggedIn(t) PROVE OutInv'
    BY <1>14, OpenedIsNew
    DEF LoggedIn, Becomes, Disk, Server, At, Steps, StepsOf, OutInv, OutPage,
        OpensSession, Put
  <1>15. ASSUME NEW t \in Tabs, NotSaved(t) PROVE OutInv'
    BY <1>15, OpenedIsNew
    DEF NotSaved, Becomes, Disk, Server, At, Steps, StepsOf, OutInv, OutPage,
        OpensSession
  <1>16. ASSUME NEW t \in Tabs, LoginFails(t) PROVE OutInv'
    BY <1>16, OpenedIsNew
    DEF LoginFails, Becomes, Disk, Server, At, Steps, StepsOf, OutInv, OutPage,
        OpensSession
  <1>17. ASSUME NEW t \in Tabs, NEW s \in Sessions, Finished(t, s) PROVE OutInv'
    BY <1>17
    DEF Finished, Becomes, Disk, Server, At, Steps, StepsOf, OutInv, OutPage,
        Authenticated
  <1>18. ASSUME NEW t \in Tabs, NEW s \in Sessions, NotFinished(t, s) PROVE OutInv'
    BY <1>18
    DEF NotFinished, Becomes, Disk, Server, At, Steps, StepsOf, OutInv, OutPage,
        Remove
  <1>19. ASSUME NEW t \in Tabs, NEW s \in Sessions, NotFinishedRejects(t, s) PROVE OutInv'
    BY <1>19
    DEF NotFinishedRejects, Becomes, Disk, Server, At, Steps, StepsOf, OutInv,
        OutPage
  <1>20. ASSUME NEW t \in Tabs, NEW ended \in SUBSET Sessions, ResetPassword(t, ended) PROVE OutInv'
    BY <1>20
    DEF ResetPassword, Becomes, Disk, Server, At, Steps, StepsOf, OutInv, OutPage,
        Remove
  <1>21. ASSUME NEW t \in Tabs, Refresh(t) PROVE OutInv'
    BY <1>21 DEF Refresh, Becomes, Disk, Server, At, Steps, StepsOf, OutInv, OutPage
  <1>22. ASSUME NEW t \in Tabs, NEW s \in Token, Refreshed(t, s) PROVE OutInv'
    BY <1>22
    DEF Refreshed, Becomes, Disk, Server, At, Steps, StepsOf, OutInv, OutPage
  <1>23. ASSUME NEW t \in Tabs, NEW s \in Token, RefreshFails(t, s) PROVE OutInv'
    BY <1>23
    DEF RefreshFails, Becomes, Disk, Server, At, Steps, StepsOf, OutInv, OutPage
  <1>24. ASSUME NEW t \in Tabs, Logout(t) PROVE OutInv'
    BY <1>24 DEF Logout, Becomes, Disk, Server, At, Steps, StepsOf, OutInv, OutPage
  <1>25. ASSUME NEW t \in Tabs, LoggedOut(t) PROVE OutInv'
    BY <1>25
    DEF LoggedOut, Becomes, Disk, Server, At, Steps, StepsOf, OutInv, OutPage,
        NewPage, Remove
  <1>26. ASSUME NEW t \in Tabs, LoggedOutRejects(t) PROVE OutInv'
    BY <1>26
    DEF LoggedOutRejects, Becomes, Disk, Server, At, Steps, StepsOf, OutInv,
        OutPage, NewPage
  <1>27. ASSUME NEW s \in Sessions, ServerEnds(s) PROVE OutInv'
    BY <1>27 DEF ServerEnds, Disk, Steps, StepsOf, OutInv, OutPage
  <1>28. CASE UNCHANGED vars
    BY <1>28 DEF vars, Steps, StepsOf, OutInv, OutPage
  <1> QED
    BY <1>1, <1>2, <1>3, <1>4, <1>5, <1>6, <1>7, <1>8, <1>9, <1>10,
       <1>11, <1>12, <1>13, <1>14, <1>15, <1>16, <1>17, <1>18, <1>19,
       <1>20, <1>21, <1>22, <1>23, <1>24, <1>25, <1>26, <1>27, <1>28
    DEF Next, Boots, Answers, Acts

\* No page loaded after a logout shows the session that was left, whatever the
\* server and the storage answer: for any number of tabs and sessions.
THEOREM Out == Spec => []LoggedOutIsOut
  <1> DEFINE Inv == TypeOK /\ Steps /\ OutInv
  <1>1. Init => Inv
    BY NullAssumption, DevicesAssumption
    DEF Init, NewPage, TypeOK, Page, Record, Token, Steps, StepsOf, OutInv, OutPage
  <1>2. Inv /\ [Next]_vars => Inv'
    BY TypesKept, StepsKept, OutKept
  <1>3. Inv => LoggedOutIsOut
    BY DEF OutInv, OutPage, LoggedOutIsOut
  <1> QED
    BY <1>1, <1>2, <1>3, PTL DEF Spec

-----------------------------------------------------------------------------
\* A reload keeps the session.  On a device with one tab nobody else writes the
\* storage; a session the tab validates, finishes or shows is stored, under the key
\* the tab has had since it was loaded.
Kept(p) ==
  p.key # Null /\ record # Null /\ record.key = p.key /\ record.session = p.cache

KeepPage(p) ==
  /\ p.phase = "closed" \/ p.step \in {"key", "newKey"} \/ p.key # Null
  /\ p.step \in {"validate", "body", "use", "logout"} \/ p.ends # {} => Kept(p)

OpenTabs == \A t \in Tabs : page[t].phase # "closed" => t \in device.tabs

KeepInv ==
  OneTab /\ ~device.broken /\ ~device.codes => \A t \in Tabs : KeepPage(page[t])

\* Only the tabs of the device are ever open.
LEMMA OpenTabsKept ==
  ASSUME TypeOK, Steps, OpenTabs, [Next]_vars
  PROVE  OpenTabs'
  <1> USE NullAssumption DEF TypeOK, Page, Record, Token
  <1>1. ASSUME NEW t \in Tabs, Open(t) PROVE OpenTabs'
    BY <1>1 DEF Open, Becomes, Disk, Server, At, Steps, StepsOf, OpenTabs, NewPage
  <1>2. ASSUME NEW t \in Tabs, Close(t) PROVE OpenTabs'
    BY <1>2 DEF Close, Becomes, Disk, Server, At, Steps, StepsOf, OpenTabs, NewPage
  <1>3. ASSUME NEW t \in Tabs, ReadKey(t) PROVE OpenTabs'
    BY <1>3 DEF ReadKey, Becomes, Disk, Server, At, Steps, StepsOf, OpenTabs
  <1>4. ASSUME NEW t \in Tabs, WriteKey(t) PROVE OpenTabs'
    BY <1>4 DEF WriteKey, Becomes, Disk, Server, At, Steps, StepsOf, OpenTabs
  <1>5. ASSUME NEW t \in Tabs, NoDatabase(t) PROVE OpenTabs'
    BY <1>5 DEF NoDatabase, Becomes, Disk, Server, At, Steps, StepsOf, OpenTabs
  <1>6. ASSUME NEW t \in Tabs, Load(t) PROVE OpenTabs'
    BY <1>6 DEF Load, Becomes, Disk, Server, At, Steps, StepsOf, OpenTabs, Readable
  <1>7. ASSUME NEW t \in Tabs, LoadRejects(t) PROVE OpenTabs'
    BY <1>7 DEF LoadRejects, Becomes, Disk, Server, At, Steps, StepsOf, OpenTabs
  <1>8. ASSUME NEW t \in Tabs, NotRestored(t) PROVE OpenTabs'
    BY <1>8
    DEF NotRestored, Becomes, Disk, Server, At, Steps, StepsOf, OpenTabs, Remove
  <1>9. ASSUME NEW t \in Tabs, NotRestoredRejects(t) PROVE OpenTabs'
    BY <1>9
    DEF NotRestoredRejects, Becomes, Disk, Server, At, Steps, StepsOf, OpenTabs
  <1>10. ASSUME NEW t \in Tabs, HeadersArrive(t) PROVE OpenTabs'
    BY <1>10 DEF HeadersArrive, Becomes, Disk, Server, At, Steps, StepsOf, OpenTabs
  <1>11. ASSUME NEW t \in Tabs, Restored(t) PROVE OpenTabs'
    BY <1>11
    DEF Restored, Becomes, Disk, Server, At, Steps, StepsOf, OpenTabs, Authenticated
  <1>12. ASSUME NEW t \in Tabs, BodyBreaks(t) PROVE OpenTabs'
    BY <1>12
    DEF BodyBreaks, Becomes, Disk, Server, At, Steps, StepsOf, OpenTabs, Remove
  <1>13. ASSUME NEW t \in Tabs, Login(t) PROVE OpenTabs'
    BY <1>13 DEF Login, Becomes, Disk, Server, At, Steps, StepsOf, OpenTabs
  <1>14. ASSUME NEW t \in Tabs, LoggedIn(t) PROVE OpenTabs'
    BY <1>14, OpenedIsNew
    DEF LoggedIn, Becomes, Disk, Server, At, Steps, StepsOf, OpenTabs,
        OpensSession, Put
  <1>15. ASSUME NEW t \in Tabs, NotSaved(t) PROVE OpenTabs'
    BY <1>15, OpenedIsNew
    DEF NotSaved, Becomes, Disk, Server, At, Steps, StepsOf, OpenTabs, OpensSession
  <1>16. ASSUME NEW t \in Tabs, LoginFails(t) PROVE OpenTabs'
    BY <1>16, OpenedIsNew
    DEF LoginFails, Becomes, Disk, Server, At, Steps, StepsOf, OpenTabs,
        OpensSession
  <1>17. ASSUME NEW t \in Tabs, NEW s \in Sessions, Finished(t, s) PROVE OpenTabs'
    BY <1>17
    DEF Finished, Becomes, Disk, Server, At, Steps, StepsOf, OpenTabs, Authenticated
  <1>18. ASSUME NEW t \in Tabs, NEW s \in Sessions, NotFinished(t, s) PROVE OpenTabs'
    BY <1>18
    DEF NotFinished, Becomes, Disk, Server, At, Steps, StepsOf, OpenTabs, Remove
  <1>19. ASSUME NEW t \in Tabs, NEW s \in Sessions, NotFinishedRejects(t, s) PROVE OpenTabs'
    BY <1>19
    DEF NotFinishedRejects, Becomes, Disk, Server, At, Steps, StepsOf, OpenTabs
  <1>20. ASSUME NEW t \in Tabs, NEW ended \in SUBSET Sessions, ResetPassword(t, ended) PROVE OpenTabs'
    BY <1>20
    DEF ResetPassword, Becomes, Disk, Server, At, Steps, StepsOf, OpenTabs, Remove
  <1>21. ASSUME NEW t \in Tabs, Refresh(t) PROVE OpenTabs'
    BY <1>21 DEF Refresh, Becomes, Disk, Server, At, Steps, StepsOf, OpenTabs
  <1>22. ASSUME NEW t \in Tabs, NEW s \in Token, Refreshed(t, s) PROVE OpenTabs'
    BY <1>22 DEF Refreshed, Becomes, Disk, Server, At, Steps, StepsOf, OpenTabs
  <1>23. ASSUME NEW t \in Tabs, NEW s \in Token, RefreshFails(t, s) PROVE OpenTabs'
    BY <1>23 DEF RefreshFails, Becomes, Disk, Server, At, Steps, StepsOf, OpenTabs
  <1>24. ASSUME NEW t \in Tabs, Logout(t) PROVE OpenTabs'
    BY <1>24 DEF Logout, Becomes, Disk, Server, At, Steps, StepsOf, OpenTabs
  <1>25. ASSUME NEW t \in Tabs, LoggedOut(t) PROVE OpenTabs'
    BY <1>25
    DEF LoggedOut, Becomes, Disk, Server, At, Steps, StepsOf, OpenTabs, NewPage,
        Remove
  <1>26. ASSUME NEW t \in Tabs, LoggedOutRejects(t) PROVE OpenTabs'
    BY <1>26
    DEF LoggedOutRejects, Becomes, Disk, Server, At, Steps, StepsOf, OpenTabs,
        NewPage
  <1>27. ASSUME NEW s \in Sessions, ServerEnds(s) PROVE OpenTabs'
    BY <1>27 DEF ServerEnds, Disk, Steps, StepsOf, OpenTabs
  <1>28. CASE UNCHANGED vars
    BY <1>28 DEF vars, Steps, StepsOf, OpenTabs
  <1> QED
    BY <1>1, <1>2, <1>3, <1>4, <1>5, <1>6, <1>7, <1>8, <1>9, <1>10,
       <1>11, <1>12, <1>13, <1>14, <1>15, <1>16, <1>17, <1>18, <1>19,
       <1>20, <1>21, <1>22, <1>23, <1>24, <1>25, <1>26, <1>27, <1>28
    DEF Next, Boots, Answers, Acts

\* Every step keeps the session of a lone tab stored.
LEMMA KeepKept ==
  ASSUME TypeOK, Steps, OwnInv, OpenTabs, KeepInv, [Next]_vars
  PROVE  KeepInv'
  <1> USE NullAssumption DEF TypeOK, Page, Record, Token
  <1>1. ASSUME NEW t \in Tabs, Open(t) PROVE KeepInv'
    BY <1>1
    DEF Open, Becomes, Disk, Server, At, Steps, StepsOf, OwnInv, OwnPage, OpenTabs,
        OneTab, KeepInv, KeepPage, Kept, NewPage
  <1>2. ASSUME NEW t \in Tabs, Close(t) PROVE KeepInv'
    BY <1>2
    DEF Close, Becomes, Disk, Server, At, Steps, StepsOf, OwnInv, OwnPage,
        OpenTabs, OneTab, KeepInv, KeepPage, Kept, NewPage
  <1>3. ASSUME NEW t \in Tabs, ReadKey(t) PROVE KeepInv'
    BY <1>3
    DEF ReadKey, Becomes, Disk, Server, At, Steps, StepsOf, OwnInv, OwnPage,
        OpenTabs, OneTab, KeepInv, KeepPage, Kept
  <1>4. ASSUME NEW t \in Tabs, WriteKey(t) PROVE KeepInv'
    BY <1>4
    DEF WriteKey, Becomes, Disk, Server, At, Steps, StepsOf, OwnInv, OwnPage,
        OpenTabs, OneTab, KeepInv, KeepPage, Kept
  <1>5. ASSUME NEW t \in Tabs, NoDatabase(t) PROVE KeepInv'
    BY <1>5
    DEF NoDatabase, Becomes, Disk, Server, At, Steps, StepsOf, OwnInv, OwnPage,
        OpenTabs, OneTab, KeepInv, KeepPage, Kept
  <1>6. ASSUME NEW t \in Tabs, Load(t) PROVE KeepInv'
    BY <1>6
    DEF Load, Becomes, Disk, Server, At, Steps, StepsOf, OwnInv, OwnPage, OpenTabs,
        OneTab, KeepInv, KeepPage, Kept, Readable
  <1>7. ASSUME NEW t \in Tabs, LoadRejects(t) PROVE KeepInv'
    BY <1>7
    DEF LoadRejects, Becomes, Disk, Server, At, Steps, StepsOf, OwnInv, OwnPage,
        OpenTabs, OneTab, KeepInv, KeepPage, Kept
  <1>8. ASSUME NEW t \in Tabs, NotRestored(t) PROVE KeepInv'
    BY <1>8
    DEF NotRestored, Becomes, Disk, Server, At, Steps, StepsOf, OwnInv, OwnPage,
        OpenTabs, OneTab, KeepInv, KeepPage, Kept, Remove
  <1>9. ASSUME NEW t \in Tabs, NotRestoredRejects(t) PROVE KeepInv'
    BY <1>9
    DEF NotRestoredRejects, Becomes, Disk, Server, At, Steps, StepsOf, OwnInv,
        OwnPage, OpenTabs, OneTab, KeepInv, KeepPage, Kept
  <1>10. ASSUME NEW t \in Tabs, HeadersArrive(t) PROVE KeepInv'
    BY <1>10
    DEF HeadersArrive, Becomes, Disk, Server, At, Steps, StepsOf, OwnInv, OwnPage,
        OpenTabs, OneTab, KeepInv, KeepPage, Kept
  <1>11. ASSUME NEW t \in Tabs, Restored(t) PROVE KeepInv'
    BY <1>11
    DEF Restored, Becomes, Disk, Server, At, Steps, StepsOf, OwnInv, OwnPage,
        OpenTabs, OneTab, KeepInv, KeepPage, Kept, Authenticated
  <1>12. ASSUME NEW t \in Tabs, BodyBreaks(t) PROVE KeepInv'
    BY <1>12
    DEF BodyBreaks, Becomes, Disk, Server, At, Steps, StepsOf, OwnInv, OwnPage,
        OpenTabs, OneTab, KeepInv, KeepPage, Kept, Remove
  <1>13. ASSUME NEW t \in Tabs, Login(t) PROVE KeepInv'
    BY <1>13
    DEF Login, Becomes, Disk, Server, At, Steps, StepsOf, OwnInv, OwnPage,
        OpenTabs, OneTab, KeepInv, KeepPage, Kept
  <1>14. ASSUME NEW t \in Tabs, LoggedIn(t) PROVE KeepInv'
    <2> SUFFICES ASSUME OneTab, ~device.broken, ~device.codes, NEW u \in Tabs
                 PROVE  KeepPage(page[u])'
      BY <1>14 DEF LoggedIn, KeepInv, OneTab
    <2>1. /\ page[t].phase = "auth" /\ page[t].key # Null
          /\ t \in device.tabs
          /\ page[u].phase # "closed" => u = t
      BY <1>14
      DEF LoggedIn, OwnInv, OwnPage, Steps, StepsOf, KeepInv, KeepPage, OpenTabs,
          OneTab
    <2>2. record' = [session |-> Opened, key |-> page[t].key] /\ record' # Null
      <3>1. page[t].key \in Tabs /\ Opened \in Sessions
        BY <1>14, <2>1, OpenedIsNew DEF LoggedIn, OpensSession
      <3>2. record' = [session |-> Opened, key |-> page[t].key]
        BY <1>14, <2>1 DEF LoggedIn, Put
      <3> QED
        BY <3>1, <3>2
    <2>3. page'[t].key = page[t].key /\ page'[t].cache = Opened
      BY <1>14 DEF LoggedIn, Becomes
    <2>4. CASE u = t
      <3> HIDE DEF TypeOK, Page, Record, Token
      <3> QED
        BY <2>1, <2>2, <2>3, <2>4 DEF KeepPage, Kept
    <2>5. CASE u # t
      <3>1. page'[u] = page[u] /\ page[u].phase = "closed"
        BY <1>14, <2>1, <2>5 DEF LoggedIn, Becomes
      <3> QED
        BY <3>1 DEF KeepPage, Steps, StepsOf
    <2> QED
      BY <2>4, <2>5
  <1>15. ASSUME NEW t \in Tabs, NotSaved(t) PROVE KeepInv'
    BY <1>15, OpenedIsNew
    DEF NotSaved, Becomes, Disk, Server, At, Steps, StepsOf, OwnInv, OwnPage,
        OpenTabs, OneTab, KeepInv, KeepPage, Kept, OpensSession
  <1>16. ASSUME NEW t \in Tabs, LoginFails(t) PROVE KeepInv'
    BY <1>16, OpenedIsNew
    DEF LoginFails, Becomes, Disk, Server, At, Steps, StepsOf, OwnInv, OwnPage,
        OpenTabs, OneTab, KeepInv, KeepPage, Kept, OpensSession
  <1>17. ASSUME NEW t \in Tabs, NEW s \in Sessions, Finished(t, s) PROVE KeepInv'
    BY <1>17
    DEF Finished, Becomes, Disk, Server, At, Steps, StepsOf, OwnInv, OwnPage,
        OpenTabs, OneTab, KeepInv, KeepPage, Kept, Authenticated
  <1>18. ASSUME NEW t \in Tabs, NEW s \in Sessions, NotFinished(t, s) PROVE KeepInv'
    BY <1>18
    DEF NotFinished, Becomes, Disk, Server, At, Steps, StepsOf, OwnInv, OwnPage,
        OpenTabs, OneTab, KeepInv, KeepPage, Kept, Remove
  <1>19. ASSUME NEW t \in Tabs, NEW s \in Sessions, NotFinishedRejects(t, s) PROVE KeepInv'
    BY <1>19
    DEF NotFinishedRejects, Becomes, Disk, Server, At, Steps, StepsOf, OwnInv,
        OwnPage, OpenTabs, OneTab, KeepInv, KeepPage, Kept
  <1>20. ASSUME NEW t \in Tabs, NEW ended \in SUBSET Sessions, ResetPassword(t, ended) PROVE KeepInv'
    BY <1>20
    DEF ResetPassword, Becomes, Disk, Server, At, Steps, StepsOf, OwnInv, OwnPage,
        OpenTabs, OneTab, KeepInv, KeepPage, Kept, Remove
  <1>21. ASSUME NEW t \in Tabs, Refresh(t) PROVE KeepInv'
    BY <1>21
    DEF Refresh, Becomes, Disk, Server, At, Steps, StepsOf, OwnInv, OwnPage,
        OpenTabs, OneTab, KeepInv, KeepPage, Kept
  <1>22. ASSUME NEW t \in Tabs, NEW s \in Token, Refreshed(t, s) PROVE KeepInv'
    BY <1>22
    DEF Refreshed, Becomes, Disk, Server, At, Steps, StepsOf, OwnInv, OwnPage,
        OpenTabs, OneTab, KeepInv, KeepPage, Kept
  <1>23. ASSUME NEW t \in Tabs, NEW s \in Token, RefreshFails(t, s) PROVE KeepInv'
    BY <1>23
    DEF RefreshFails, Becomes, Disk, Server, At, Steps, StepsOf, OwnInv, OwnPage,
        OpenTabs, OneTab, KeepInv, KeepPage, Kept
  <1>24. ASSUME NEW t \in Tabs, Logout(t) PROVE KeepInv'
    BY <1>24
    DEF Logout, Becomes, Disk, Server, At, Steps, StepsOf, OwnInv, OwnPage,
        OpenTabs, OneTab, KeepInv, KeepPage, Kept
  <1>25. ASSUME NEW t \in Tabs, LoggedOut(t) PROVE KeepInv'
    BY <1>25
    DEF LoggedOut, Becomes, Disk, Server, At, Steps, StepsOf, OwnInv, OwnPage,
        OpenTabs, OneTab, KeepInv, KeepPage, Kept, NewPage, Remove
  <1>26. ASSUME NEW t \in Tabs, LoggedOutRejects(t) PROVE KeepInv'
    BY <1>26
    DEF LoggedOutRejects, Becomes, Disk, Server, At, Steps, StepsOf, OwnInv,
        OwnPage, OpenTabs, OneTab, KeepInv, KeepPage, Kept, NewPage
  <1>27. ASSUME NEW s \in Sessions, ServerEnds(s) PROVE KeepInv'
    BY <1>27
    DEF ServerEnds, Disk, Steps, StepsOf, OwnInv, OwnPage, OpenTabs, OneTab,
        KeepInv, KeepPage, Kept
  <1>28. CASE UNCHANGED vars
    BY <1>28
    DEF vars, Steps, StepsOf, OwnInv, OwnPage, OpenTabs, OneTab, KeepInv, KeepPage,
        Kept
  <1> QED
    BY <1>1, <1>2, <1>3, <1>4, <1>5, <1>6, <1>7, <1>8, <1>9, <1>10,
       <1>11, <1>12, <1>13, <1>14, <1>15, <1>16, <1>17, <1>18, <1>19,
       <1>20, <1>21, <1>22, <1>23, <1>24, <1>25, <1>26, <1>27, <1>28
    DEF Next, Boots, Answers, Acts

\* With one tab and a working storage the session shown is the one stored, under a
\* key that reads it: for any number of sessions, reloads and logins.
THEOREM Reload == Spec => []ReloadKeeps
  <1> DEFINE Inv == TypeOK /\ Steps /\ OwnInv /\ OpenTabs /\ KeepInv
  <1>1. Init => Inv
    BY NullAssumption, DevicesAssumption
    DEF Init, NewPage, TypeOK, Page, Record, Token, Steps, StepsOf, OwnInv, OwnPage,
        OpenTabs, KeepInv, KeepPage
  <1>2. Inv /\ [Next]_vars => Inv'
    BY TypesKept, StepsKept, OwnKept, OpenTabsKept, KeepKept
  <1>3. Inv => ReloadKeeps
    BY
    DEF Steps, StepsOf, OwnInv, OwnPage, KeepInv, KeepPage, Kept, ReloadKeeps,
        Readable
  <1> QED
    BY <1>1, <1>2, <1>3, PTL DEF Spec

=============================================================================
