---------------------------- MODULE Screens_proofs ----------------------------
(* Theorems about Screens, for every value of its constants.

   The history: HistInv says that each layer that is open has its guard, that
   the guards lie in the order of the layers, and that the entries of the
   history are the guards and the backs still to be taken.  The layers and the
   guards then agree as soon as their sets do (BackWorks).

   The types: what is typed in the form of an account is a number or nothing,
   and every call's steps are one of the handlers' (OnlyMeantAdjusts).

   The data: CalmInv says of each kind of data that what is shown is what the
   server holds, or that a call on its way reads it after the last write, or
   that a handler that wrote it was left behind (ScreensAreCurrent). *)
EXTENDS Screens, SequenceTheorems, WellFoundedInduction, TLAPS

-----------------------------------------------------------------------------
\* Sequences.  Induction over data, by the least counterexample.

\* A set of naturals that holds zero and every successor holds all of them.
LEMMA NatSet ==
  ASSUME NEW T \in SUBSET Nat, 0 \in T, \A n \in T : n + 1 \in T
  PROVE  T = Nat
  <1> DEFINE R == OpToRel(<, Nat)
             U == Nat \ T
  <1>1. SUFFICES ASSUME U # {} PROVE FALSE
    OBVIOUS
  <1>2. PICK x \in U : \A y \in U : ~ (<<y, x>> \in R)
    BY <1>1, NatLessThanWellFounded, WFMin
  <1>3. \A y \in Nat : y < x => <<y, x>> \in R
    BY DEF OpToRel
  <1> HIDE DEF R
  <1>4. x # 0 /\ x \in Nat /\ x \notin T
    OBVIOUS
  <1>5. x - 1 \in Nat /\ x - 1 < x /\ x = (x - 1) + 1
    BY <1>4
  <1>6. x - 1 \in T
    BY <1>2, <1>3, <1>5
  <1> QED
    BY <1>4, <1>5, <1>6

\* An element taken out of its place: what came after moves up.
LEMMA RemoveAtIs ==
  ASSUME NEW S, NEW s \in Seq(S), NEW i \in 1..Len(s)
  PROVE  /\ RemoveAt(s, i) \in Seq(S)
         /\ Len(RemoveAt(s, i)) = Len(s) - 1
         /\ \A j \in 1..(Len(s) - 1) : RemoveAt(s, i)[j] = IF j < i THEN s[j] ELSE s[j + 1]
  <1> DEFINE a == SubSeq(s, 1, i - 1)
             b == SubSeq(s, i + 1, Len(s))
  <1>1. a \in Seq(S) /\ Len(a) = i - 1 /\ \A j \in 1..(i - 1) : a[j] = s[j]
    OBVIOUS
  <1>2. b \in Seq(S) /\ Len(b) = Len(s) - i /\ \A j \in 1..(Len(s) - i) : b[j] = s[i + j]
    OBVIOUS
  <1> HIDE DEF a, b
  <1>3. a \o b \in Seq(S) /\ Len(a \o b) = Len(s) - 1
        /\ \A j \in 1..(Len(s) - 1) : (a \o b)[j] = IF j <= i - 1 THEN a[j] ELSE b[j - (i - 1)]
    <2>1. Len(s) \in Nat /\ i \in Int /\ (i - 1) + (Len(s) - i) = Len(s) - 1
      OBVIOUS
    <2>2. a \o b \in Seq(S) /\ Len(a \o b) = Len(a) + Len(b)
          /\ \A j \in 1..(Len(a) + Len(b)) : (a \o b)[j] = IF j <= Len(a) THEN a[j] ELSE b[j - Len(a)]
      BY <1>1, <1>2, ConcatProperties
    <2> QED
      BY <1>1, <1>2, <2>1, <2>2
  <1>4. \A j \in 1..(Len(s) - 1) : (a \o b)[j] = IF j < i THEN s[j] ELSE s[j + 1]
    <2> TAKE j \in 1..(Len(s) - 1)
    <2>1. CASE j < i
      BY <1>1, <1>3, <2>1
    <2>2. CASE j >= i
      <3>1. j - (i - 1) \in 1..(Len(s) - i) /\ i + (j - (i - 1)) = j + 1
        BY <2>2
      <3> QED
        BY <1>2, <1>3, <2>2, <3>1
    <2>3. j < i \/ j >= i
      OBVIOUS
    <2> QED
      BY <2>1, <2>2, <2>3
  <1> QED
    BY <1>3, <1>4 DEF RemoveAt, a, b

LEMMA MaxIs ==
  ASSUME NEW k \in Nat, NEW s \in SUBSET (1..(k + 1)), k + 1 \in s
  PROVE  Max(s) = k + 1
  <1>1. \A y \in s : k + 1 >= y
    OBVIOUS
  <1>2. \A x \in s : (\A y \in s : x >= y) => x = k + 1
    OBVIOUS
  <1> QED
    BY <1>1, <1>2 DEF Max

LEMMA MaxIn ==
  ASSUME NEW n \in Nat, NEW s \in SUBSET (1..n), s # {}
  PROVE  Max(s) \in s
  <1> DEFINE Has(v) == \E x \in v : \A y \in v : x >= y
             T == {k \in Nat : \A v \in SUBSET (1..k) : v # {} => Has(v)}
  <1>1. 0 \in T
    <2>1. 1..0 = {}
      OBVIOUS
    <2> QED
      BY <2>1
  <1>2. ASSUME NEW k \in T PROVE k + 1 \in T
    <2> SUFFICES ASSUME NEW v \in SUBSET (1..(k + 1)), v # {} PROVE Has(v)
      OBVIOUS
    <2>1. CASE k + 1 \in v
      <3>1. \A y \in v : k + 1 >= y
        OBVIOUS
      <3> QED
        BY <2>1, <3>1
    <2>2. CASE k + 1 \notin v
      <3>1. v \in SUBSET (1..k)
        BY <2>2
      <3> QED
        BY <3>1
    <2> QED
      BY <2>1, <2>2
  <1> HIDE DEF T
  <1>3. n \in T
    BY <1>1, <1>2, NatSet DEF T
  <1>4. Has(s)
    BY <1>3 DEF T
  <1> QED
    BY <1>4 DEF Max

\* g is the recursive function of a fold from the left: f[i] is its step at the place i.
IsFold(g, n, base, f, H) ==
  /\ g \in [SUBSET (1..n) -> H]
  /\ \A s \in SUBSET (1..n) :
       g[s] = IF s = {} THEN base ELSE f[Max(s)][g[s \ {Max(s)}]]

\* There is one, for steps that stay in H.
LEMMA Iterates ==
  ASSUME NEW H, NEW base \in H, NEW n \in Nat, NEW f \in [1..n -> [H -> H]]
  PROVE  \E g : IsFold(g, n, base, f, H)
  <1> DEFINE Is(g, k) == IsFold(g, k, base, f, H)
             T == {k \in Nat : k <= n => \E g : Is(g, k)}
  <1> HIDE DEF Is, IsFold
  <1>1. 0 \in T
    <2>1. 1..0 = {}
      OBVIOUS
    <2>2. Is([s \in SUBSET (1..0) |-> base], 0)
      BY <2>1 DEF Is, IsFold
    <2> QED
      BY <2>2
  <1>2. ASSUME NEW k \in T PROVE k + 1 \in T
    <2> SUFFICES ASSUME k + 1 <= n PROVE \E g : Is(g, k + 1)
      OBVIOUS
    <2>1. PICK g : Is(g, k)
      OBVIOUS
    <2> DEFINE h == [s \in SUBSET (1..(k + 1)) |->
                       IF k + 1 \in s THEN f[k + 1][g[s \ {k + 1}]] ELSE g[s]]
    <2>2. \A s \in SUBSET (1..(k + 1)) :
            /\ k + 1 \notin s => s \in SUBSET (1..k)
            /\ s \ {k + 1} \in SUBSET (1..k)
      OBVIOUS
    <2>3. f[k + 1] \in [H -> H]
      OBVIOUS
    <2>4. h \in [SUBSET (1..(k + 1)) -> H]
      <3> SUFFICES ASSUME NEW s \in SUBSET (1..(k + 1)) PROVE h[s] \in H
        OBVIOUS
      <3>1. CASE k + 1 \in s
        <4>1. g[s \ {k + 1}] \in H
          BY <2>1, <2>2 DEF Is, IsFold
        <4> QED
          BY <2>3, <3>1, <4>1
      <3>2. CASE k + 1 \notin s
        BY <2>1, <2>2, <3>2 DEF Is, IsFold
      <3> QED
        BY <3>1, <3>2
    <2>5. \A s \in SUBSET (1..k) : h[s] = g[s] /\ s \in SUBSET (1..(k + 1)) /\ k + 1 \notin s
      OBVIOUS
    <2>6. \A s \in SUBSET (1..(k + 1)) : k + 1 \in s => h[s] = f[k + 1][g[s \ {k + 1}]]
      OBVIOUS
    <2> HIDE DEF h
    <2>7. ASSUME NEW s \in SUBSET (1..(k + 1))
          PROVE  h[s] = IF s = {} THEN base ELSE f[Max(s)][h[s \ {Max(s)}]]
      <3>1. CASE k + 1 \in s
        <4>1. Max(s) = k + 1
          BY <3>1, MaxIs
        <4>2. h[s \ {k + 1}] = g[s \ {k + 1}]
          BY <2>2, <2>5
        <4> QED
          BY <2>6, <3>1, <4>1, <4>2
      <3>2. CASE k + 1 \notin s
        <4>1. s \in SUBSET (1..k) /\ s \ {Max(s)} \in SUBSET (1..k)
          BY <2>2, <3>2
        <4>2. h[s] = g[s] /\ h[s \ {Max(s)}] = g[s \ {Max(s)}]
          BY <2>5, <4>1
        <4> QED
          BY <2>1, <4>1, <4>2 DEF Is, IsFold
      <3> QED
        BY <3>1, <3>2
    <2>8. Is(h, k + 1)
      BY <2>4, <2>7 DEF Is, IsFold
    <2> QED
      BY <2>8
  <1> HIDE DEF T
  <1>3. n \in T
    BY <1>1, <1>2, NatSet DEF T
  <1>4. \E g : Is(g, n)
    BY <1>3 DEF T
  <1> QED
    BY <1>4 DEF Is, IsFold

-----------------------------------------------------------------------------
\* The history and its guards.
Names == {"page", "section", "box", "date"} \cup Sheets \cup Overs
History == [guards: Seq(Names), internalBacks: Int, depth: Int, travels: Int]

\* Of a sequence of different names, one is taken out and the others keep their order.
Distinct(s) == \A i, j \in DOMAIN s : s[i] = s[j] => i = j

\* t holds no others than s does, in the order they have there.
Within(t, s) ==
  /\ \A i \in DOMAIN t : Contains(s, t[i])
  /\ \A i, j \in DOMAIN t :
       i < j => \E a, b \in DOMAIN s : a < b /\ s[a] = t[i] /\ s[b] = t[j]

LEMMA RemoveFirstIs ==
  ASSUME NEW s \in Seq(Names), Distinct(s), NEW e, Contains(s, e)
  PROVE  /\ RemoveFirst(s, e) \in Seq(Names)
         /\ Len(RemoveFirst(s, e)) = Len(s) - 1
         /\ Distinct(RemoveFirst(s, e))
         /\ Within(RemoveFirst(s, e), s)
         /\ \A l : Contains(RemoveFirst(s, e), l) <=> Contains(s, l) /\ l # e
  <1>1. PICK i \in 1..Len(s) : s[i] = e
    BY DEF Contains
  <1>2. {j \in 1..Len(s) : s[j] = e} = {i}
    BY <1>1 DEF Distinct
  <1>3. Min({i}) = i
    BY DEF Min
  <1>4. SelectInSeq(s, LAMBDA v : v = e) = i
    BY <1>2, <1>3 DEF SelectInSeq
  <1> DEFINE t == RemoveAt(s, i)
  <1>5. RemoveFirst(s, e) = t
    BY <1>1, <1>4 DEF RemoveFirst
  <1>6. /\ t \in Seq(Names) /\ Len(t) = Len(s) - 1
        /\ \A j \in 1..(Len(s) - 1) : t[j] = IF j < i THEN s[j] ELSE s[j + 1]
    BY RemoveAtIs
  <1> HIDE DEF t
  <1> DEFINE Was(j) == IF j < i THEN j ELSE j + 1
  <1>7. /\ DOMAIN t = 1..(Len(s) - 1) /\ DOMAIN s = 1..Len(s) /\ Len(s) \in Nat
        /\ \A j \in DOMAIN t : Was(j) \in DOMAIN s /\ t[j] = s[Was(j)] /\ Was(j) # i
        /\ \A j, k \in DOMAIN t : j < k => Was(j) < Was(k)
    BY <1>6
  <1>8. \A k \in DOMAIN s : k # i => \E j \in DOMAIN t : t[j] = s[k]
    <2> TAKE k \in DOMAIN s
    <2> HAVE k # i
    <2>1. CASE k < i
      BY <1>6, <1>7, <2>1
    <2>2. CASE k > i
      <3>1. k - 1 \in DOMAIN t /\ ~(k - 1 < i) /\ (k - 1) + 1 = k
        BY <1>7, <2>2
      <3> QED
        BY <1>6, <1>7, <3>1
    <2> QED
      BY <1>7, <2>1, <2>2
  <1> HIDE DEF Was
  <1>9. Distinct(t)
    <2> SUFFICES ASSUME NEW j \in DOMAIN t, NEW k \in DOMAIN t, t[j] = t[k], j # k PROVE FALSE
      BY DEF Distinct
    <2>1. j \in Int /\ k \in Int
      BY <1>7
    <2>2. Was(j) \in Int /\ Was(k) \in Int /\ Was(j) = Was(k)
      BY <1>7 DEF Distinct
    <2> QED
      BY <1>7, <2>1, <2>2
  <1>10. Within(t, s)
    <2>1. \A j \in DOMAIN t : Contains(s, t[j])
      BY <1>7 DEF Contains
    <2>2. \A j, k \in DOMAIN t :
            j < k => Was(j) \in DOMAIN s /\ Was(k) \in DOMAIN s /\ Was(j) < Was(k)
                     /\ s[Was(j)] = t[j] /\ s[Was(k)] = t[k]
      BY <1>7
    <2> QED
      BY <2>1, <2>2 DEF Within
  <1>11. \A l : Contains(t, l) <=> Contains(s, l) /\ l # e
    <2> TAKE l
    <2>1. Contains(t, l) => Contains(s, l) /\ l # e
      BY <1>1, <1>6, <1>7 DEF Contains, Distinct
    <2>2. Contains(s, l) /\ l # e => Contains(t, l)
      BY <1>1, <1>6, <1>7, <1>8 DEF Contains
    <2> QED
      BY <2>1, <2>2
  <1> QED
    BY <1>5, <1>6, <1>9, <1>10, <1>11

LEMMA WithinTrans ==
  ASSUME NEW r, NEW s \in Seq(Names), NEW t, Within(r, t), Within(t, s), Distinct(t), t \in Seq(Names)
  PROVE  Within(r, s)
  <1>1. \A i \in DOMAIN r : Contains(s, r[i])
    <2>1. \A i \in DOMAIN r : \E j \in DOMAIN t : t[j] = r[i]
      BY DEF Within, Contains
    <2>2. \A j \in DOMAIN t : Contains(s, t[j])
      BY DEF Within
    <2> QED
      BY <2>1, <2>2
  <1>2. ASSUME NEW i \in DOMAIN r, NEW j \in DOMAIN r, i < j
        PROVE  \E a, b \in DOMAIN s : a < b /\ s[a] = r[i] /\ s[b] = r[j]
    <2>1. PICK a \in DOMAIN t : \E b \in DOMAIN t : a < b /\ t[a] = r[i] /\ t[b] = r[j]
      BY <1>2 DEF Within
    <2>2. PICK b \in DOMAIN t : a < b /\ t[a] = r[i] /\ t[b] = r[j]
      BY <2>1
    <2> QED
      BY <2>2 DEF Within
  <1> QED
    BY <1>1, <1>2 DEF Within

\* The counts of a history: each entry has its guard or a history.back() on its way, and
\* each of these its pop.
Counted(h) ==
  /\ h.internalBacks = h.travels /\ h.travels >= 0
  /\ h.depth = Len(h.guards) + h.travels

LEMMA PopGuardIs ==
  ASSUME NEW h \in History, Distinct(h.guards), NEW l, Contains(h.guards, l)
  PROVE  /\ PopGuard(h, l) \in History
         /\ Distinct(PopGuard(h, l).guards)
         /\ Within(PopGuard(h, l).guards, h.guards)
         /\ \A m : Contains(PopGuard(h, l).guards, m) <=> Contains(h.guards, m) /\ m # l
         /\ Counted(h) => Counted(PopGuard(h, l))
  <1> DEFINE t == RemoveFirst(h.guards, l)
  <1>1. h.guards \in Seq(Names) /\ Len(h.guards) \in Nat
    BY DEF History
  <1>2. /\ t \in Seq(Names) /\ Len(t) = Len(h.guards) - 1 /\ Distinct(t) /\ Within(t, h.guards)
        /\ \A m : Contains(t, m) <=> Contains(h.guards, m) /\ m # l
    BY <1>1, RemoveFirstIs
  <1> HIDE DEF t
  <1>3. PopGuard(h, l) = [h EXCEPT !.guards = t, !.internalBacks = @ + 1, !.travels = @ + 1]
    BY DEF PopGuard, t
  <1>4. /\ PopGuard(h, l) \in History
        /\ PopGuard(h, l).guards = t
        /\ PopGuard(h, l).internalBacks = h.internalBacks + 1
        /\ PopGuard(h, l).travels = h.travels + 1
        /\ PopGuard(h, l).depth = h.depth
    <2>1. PopGuard(h, l) = [guards |-> t, internalBacks |-> h.internalBacks + 1,
                            depth |-> h.depth, travels |-> h.travels + 1]
      BY <1>3 DEF History
    <2>2. h.internalBacks + 1 \in Int /\ h.depth \in Int /\ h.travels + 1 \in Int
      BY DEF History
    <2> QED
      BY <1>2, <2>1, <2>2 DEF History
  <1>5. Counted(h) => Counted(PopGuard(h, l))
    <2>1. h.internalBacks \in Int /\ h.travels \in Int /\ h.depth \in Int
      BY DEF History
    <2> QED
      BY <1>1, <1>2, <1>4, <2>1 DEF Counted
  <1> QED
    BY <1>2, <1>4, <1>5

LEMMA PushGuardIs ==
  ASSUME NEW h \in History, Distinct(h.guards), NEW l \in Names, ~Contains(h.guards, l)
  PROVE  /\ PushGuard(h, l) \in History
         /\ PushGuard(h, l).guards = Append(h.guards, l)
         /\ Distinct(PushGuard(h, l).guards)
         /\ \A m : Contains(PushGuard(h, l).guards, m) <=> Contains(h.guards, m) \/ m = l
         /\ Counted(h) => Counted(PushGuard(h, l))
  <1> DEFINE t == Append(h.guards, l)
  <1>1. h.guards \in Seq(Names) /\ Len(h.guards) \in Nat
    BY DEF History
  <1>2. /\ t \in Seq(Names) /\ Len(t) = Len(h.guards) + 1
        /\ \A i \in 1..Len(h.guards) : t[i] = h.guards[i]
        /\ t[Len(h.guards) + 1] = l
    BY <1>1
  <1>3. \A i \in 1..Len(t) : i \in 1..Len(h.guards) \/ i = Len(h.guards) + 1
    BY <1>1, <1>2
  <1>4. DOMAIN t = 1..Len(t) /\ DOMAIN h.guards = 1..Len(h.guards)
    BY <1>1, <1>2
  <1>5. /\ PushGuard(h, l) \in History /\ PushGuard(h, l).guards = t
        /\ PushGuard(h, l).internalBacks = h.internalBacks /\ PushGuard(h, l).travels = h.travels
        /\ PushGuard(h, l).depth = h.depth + 1
    <2>1. PushGuard(h, l) = [guards |-> t, internalBacks |-> h.internalBacks,
                             depth |-> h.depth + 1, travels |-> h.travels]
      <3>1. PushGuard(h, l) = [h EXCEPT !.guards = t, !.depth = @ + 1]
        BY DEF PushGuard
      <3> HIDE DEF t
      <3> QED
        BY <3>1 DEF History
    <2>2. h.internalBacks \in Int /\ h.depth + 1 \in Int /\ h.travels \in Int
      BY DEF History
    <2> HIDE DEF t
    <2> QED
      BY <1>2, <2>1, <2>2 DEF History
  <1>6. Counted(h) => Counted(PushGuard(h, l))
    <2>1. h.internalBacks \in Int /\ h.travels \in Int /\ h.depth \in Int
      BY DEF History
    <2> QED
      BY <1>1, <1>2, <1>5, <2>1 DEF Counted
  <1> HIDE DEF t
  <1>7. Distinct(t)
    BY <1>2, <1>3, <1>4 DEF Distinct, Contains
  <1>8. \A m : Contains(t, m) <=> Contains(h.guards, m) \/ m = l
    <2> TAKE m
    <2>1. Contains(t, m) => Contains(h.guards, m) \/ m = l
      BY <1>2, <1>3 DEF Contains
    <2>2. Contains(h.guards, m) \/ m = l => Contains(t, m)
      <3>1. \A i \in 1..Len(h.guards) : i \in 1..Len(t)
        BY <1>1, <1>2
      <3>2. Len(h.guards) + 1 \in 1..Len(t)
        BY <1>1, <1>2
      <3> QED
        BY <1>2, <3>1, <3>2 DEF Contains
    <2> QED
      BY <2>1, <2>2
  <1> QED
    BY <1>5, <1>6, <1>7, <1>8 DEF t

-----------------------------------------------------------------------------
\* The two folds of Rendered.
Cleanups(h, layers, s) == FoldLeft(LAMBDA g, l : Cleanup(g, layers, l), h, s)
Mounts(h, s) == FoldLeft(Mount, h, s)

\* g is the sequence of the histories a fold runs through, before and after each element.
CleanupRun(g, h, layers, s, H) ==
  /\ g \in [0..Len(s) -> H] /\ g[0] = h
  /\ \A k \in 0..(Len(s) - 1) : g[k + 1] = Cleanup(g[k], layers, s[k + 1])
  /\ Cleanups(h, layers, s) = g[Len(s)]

MountRun(g, h, s, H) ==
  /\ g \in [0..Len(s) -> H] /\ g[0] = h
  /\ \A k \in 0..(Len(s) - 1) : g[k + 1] = Mount(g[k], s[k + 1])
  /\ Mounts(h, s) = g[Len(s)]

\* There is one, for steps that stay in H.
LEMMA CleanupFold ==
  ASSUME NEW layers, NEW s \in Seq(Names), NEW H, NEW h \in H,
         \A x \in H, i \in 1..Len(s) : Cleanup(x, layers, s[i]) \in H
  PROVE  \E g : CleanupRun(g, h, layers, s, H)
  <1> DEFINE n == Len(s)
             f == [i \in 1..n |-> [x \in H |-> Cleanup(x, layers, s[i])]]
             Eq(it) == it = [v \in SUBSET (1..n) |->
                               IF v = {} THEN h ELSE Cleanup(it[v \ {Max(v)}], layers, s[Max(v)])]
  <1>1. n \in Nat /\ DOMAIN s = 1..n
    OBVIOUS
  <1>2. f \in [1..n -> [H -> H]]
    OBVIOUS
  <1>3. \A i \in 1..n, x \in H : f[i][x] = Cleanup(x, layers, s[i])
    OBVIOUS
  <1> HIDE DEF f, n
  <1>4. PICK g : IsFold(g, n, h, f, H)
    BY <1>1, <1>2, Iterates
  <1>5. Eq(g)
    <2>1. ASSUME NEW v \in SUBSET (1..n), v # {}
          PROVE  f[Max(v)][g[v \ {Max(v)}]] = Cleanup(g[v \ {Max(v)}], layers, s[Max(v)])
      <3>1. Max(v) \in 1..n
        BY <1>1, <2>1, MaxIn
      <3>2. v \ {Max(v)} \in SUBSET (1..n)
        OBVIOUS
      <3>3. g[v \ {Max(v)}] \in H
        BY <1>4, <3>2 DEF IsFold
      <3> QED
        BY <1>3, <3>1, <3>3
    <2>2. \A v \in SUBSET (1..n) :
            g[v] = IF v = {} THEN h ELSE Cleanup(g[v \ {Max(v)}], layers, s[Max(v)])
      BY <1>4, <2>1 DEF IsFold
    <2> QED
      BY <1>4, <2>2 DEF IsFold
  <1> DEFINE it == CHOOSE it : Eq(it)
  <1>6. Eq(it)
    BY <1>5
  <1>7. Cleanups(h, layers, s) = it[1..n]
    BY <1>1 DEF Cleanups, FoldLeft, MapThenFoldSet
  <1> HIDE DEF it
  <1>8. \A v \in SUBSET (1..n) :
          it[v] = IF v = {} THEN h ELSE Cleanup(it[v \ {Max(v)}], layers, s[Max(v)])
    BY <1>6
  <1>9. it[1..0] = h
    <2>1. 1..0 = {} /\ 1..0 \in SUBSET (1..n)
      OBVIOUS
    <2> QED
      BY <1>8, <2>1
  <1>10. ASSUME NEW k \in 0..(n - 1)
         PROVE  it[1..(k + 1)] = Cleanup(it[1..k], layers, s[k + 1])
    <2>1. 1..(k + 1) \in SUBSET (1..n) /\ k + 1 \in 1..(k + 1) /\ k \in Nat
      BY <1>1
    <2>2. Max(1..(k + 1)) = k + 1
      BY <2>1, MaxIs
    <2>3. (1..(k + 1)) \ {k + 1} = 1..k
      BY <2>1
    <2> QED
      BY <1>8, <2>1, <2>2, <2>3
  <1> DEFINE T == {k \in Nat : k <= n => it[1..k] \in H}
             r == [k \in 0..n |-> it[1..k]]
  <1>11. 0 \in T
    BY <1>9
  <1>12. ASSUME NEW k \in T PROVE k + 1 \in T
    <2> SUFFICES ASSUME k + 1 <= n PROVE it[1..(k + 1)] \in H
      OBVIOUS
    <2>1. k \in 0..(n - 1) /\ k + 1 \in 1..n /\ it[1..k] \in H
      BY <1>1
    <2> QED
      BY <1>10, <2>1 DEF n
  <1> HIDE DEF T
  <1>13. T = Nat
    BY <1>11, <1>12, NatSet DEF T
  <1>14. \A k \in 0..n : it[1..k] \in H
    BY <1>1, <1>13 DEF T
  <1>15. r \in [0..n -> H] /\ r[0] = h /\ r[n] = it[1..n]
         /\ \A k \in 0..(n - 1) : r[k + 1] = Cleanup(r[k], layers, s[k + 1])
    BY <1>1, <1>9, <1>10, <1>14
  <1> QED
    BY <1>7, <1>15 DEF n, CleanupRun

\* And one that the mounts run through.
LEMMA MountFold ==
  ASSUME NEW s \in Seq(Names), NEW H, NEW h \in H,
         \A x \in H, i \in 1..Len(s) : Mount(x, s[i]) \in H
  PROVE  \E g : MountRun(g, h, s, H)
  <1> DEFINE n == Len(s)
             f == [i \in 1..n |-> [x \in H |-> Mount(x, s[i])]]
             Eq(it) == it = [v \in SUBSET (1..n) |->
                               IF v = {} THEN h ELSE Mount(it[v \ {Max(v)}], s[Max(v)])]
  <1>1. n \in Nat /\ DOMAIN s = 1..n
    OBVIOUS
  <1>2. f \in [1..n -> [H -> H]]
    OBVIOUS
  <1>3. \A i \in 1..n, x \in H : f[i][x] = Mount(x, s[i])
    OBVIOUS
  <1> HIDE DEF f, n
  <1>4. PICK g : IsFold(g, n, h, f, H)
    BY <1>1, <1>2, Iterates
  <1>5. Eq(g)
    <2>1. ASSUME NEW v \in SUBSET (1..n), v # {}
          PROVE  f[Max(v)][g[v \ {Max(v)}]] = Mount(g[v \ {Max(v)}], s[Max(v)])
      <3>1. Max(v) \in 1..n
        BY <1>1, <2>1, MaxIn
      <3>2. v \ {Max(v)} \in SUBSET (1..n)
        OBVIOUS
      <3>3. g[v \ {Max(v)}] \in H
        BY <1>4, <3>2 DEF IsFold
      <3> QED
        BY <1>3, <3>1, <3>3
    <2>2. \A v \in SUBSET (1..n) :
            g[v] = IF v = {} THEN h ELSE Mount(g[v \ {Max(v)}], s[Max(v)])
      BY <1>4, <2>1 DEF IsFold
    <2> QED
      BY <1>4, <2>2 DEF IsFold
  <1> DEFINE it == CHOOSE it : Eq(it)
  <1>6. Eq(it)
    BY <1>5
  <1>7. Mounts(h, s) = it[1..n]
    BY <1>1 DEF Mounts, FoldLeft, MapThenFoldSet
  <1> HIDE DEF it
  <1>8. \A v \in SUBSET (1..n) :
          it[v] = IF v = {} THEN h ELSE Mount(it[v \ {Max(v)}], s[Max(v)])
    BY <1>6
  <1>9. it[1..0] = h
    <2>1. 1..0 = {} /\ 1..0 \in SUBSET (1..n)
      OBVIOUS
    <2> QED
      BY <1>8, <2>1
  <1>10. ASSUME NEW k \in 0..(n - 1)
         PROVE  it[1..(k + 1)] = Mount(it[1..k], s[k + 1])
    <2>1. 1..(k + 1) \in SUBSET (1..n) /\ k + 1 \in 1..(k + 1) /\ k \in Nat
      BY <1>1
    <2>2. Max(1..(k + 1)) = k + 1
      BY <2>1, MaxIs
    <2>3. (1..(k + 1)) \ {k + 1} = 1..k
      BY <2>1
    <2> QED
      BY <1>8, <2>1, <2>2, <2>3
  <1> DEFINE T == {k \in Nat : k <= n => it[1..k] \in H}
             r == [k \in 0..n |-> it[1..k]]
  <1>11. 0 \in T
    BY <1>9
  <1>12. ASSUME NEW k \in T PROVE k + 1 \in T
    <2> SUFFICES ASSUME k + 1 <= n PROVE it[1..(k + 1)] \in H
      OBVIOUS
    <2>1. k \in 0..(n - 1) /\ k + 1 \in 1..n /\ it[1..k] \in H
      BY <1>1
    <2> QED
      BY <1>10, <2>1 DEF n
  <1> HIDE DEF T
  <1>13. T = Nat
    BY <1>11, <1>12, NatSet DEF T
  <1>14. \A k \in 0..n : it[1..k] \in H
    BY <1>1, <1>13 DEF T
  <1>15. r \in [0..n -> H] /\ r[0] = h /\ r[n] = it[1..n]
         /\ \A k \in 0..(n - 1) : r[k + 1] = Mount(r[k], s[k + 1])
    BY <1>1, <1>9, <1>10, <1>14
  <1> QED
    BY <1>7, <1>15 DEF n, MountRun

-----------------------------------------------------------------------------
\* What the cleanups leave of the guards: those of the layers still there, in their order.
Left(h, layers) ==
  {x \in History :
     /\ Distinct(x.guards) /\ Within(x.guards, h.guards) /\ (Counted(h) => Counted(x))
     /\ \A l : Contains(layers, l) /\ Contains(h.guards, l) => Contains(x.guards, l)}

LEMMA CleanupStep ==
  ASSUME NEW h \in History, NEW layers, NEW x \in Left(h, layers), NEW l
  PROVE  /\ Cleanup(x, layers, l) \in Left(h, layers)
         /\ Contains(layers, l) \/ ~Contains(Cleanup(x, layers, l).guards, l)
         /\ \A m : Contains(Cleanup(x, layers, l).guards, m) => Contains(x.guards, m)
  <1>1. CASE Contains(layers, l) \/ ~Contains(x.guards, l)
    BY <1>1 DEF Cleanup, PopGuard
  <1>2. CASE ~Contains(layers, l) /\ Contains(x.guards, l)
    <2> DEFINE y == PopGuard(x, l)
    <2>1. x \in History /\ Distinct(x.guards) /\ Within(x.guards, h.guards)
          /\ (Counted(h) => Counted(x))
          /\ \A m : Contains(layers, m) /\ Contains(h.guards, m) => Contains(x.guards, m)
      BY DEF Left
    <2>2. /\ y \in History /\ Distinct(y.guards) /\ Within(y.guards, x.guards)
          /\ \A m : Contains(y.guards, m) <=> Contains(x.guards, m) /\ m # l
          /\ Counted(x) => Counted(y)
      BY <1>2, <2>1, PopGuardIs
    <2> HIDE DEF y
    <2>3. Within(y.guards, h.guards)
      <3>1. x.guards \in Seq(Names) /\ h.guards \in Seq(Names)
        BY <2>1 DEF History
      <3> QED
        BY <2>1, <2>2, <3>1, WithinTrans
    <2>4. y \in Left(h, layers)
      BY <1>2, <2>1, <2>2, <2>3 DEF Left
    <2> QED
      BY <1>2, <2>2, <2>4 DEF Cleanup, y
  <1> QED
    BY <1>1, <1>2

LEMMA CleanedUp ==
  ASSUME NEW h \in History, Distinct(h.guards), NEW layers
  PROVE  LET x == Cleanups(h, layers, h.guards) IN
           /\ x \in Left(h, layers)
           /\ \A l : Contains(x.guards, l) <=> Contains(h.guards, l) /\ Contains(layers, l)
  <1> DEFINE s == h.guards
             H == Left(h, layers)
             x == Cleanups(h, layers, s)
  <1>1. s \in Seq(Names) /\ Len(s) \in Nat /\ DOMAIN s = 1..Len(s)
    BY DEF History
  <1>2. h \in H
    <2>1. Within(s, s)
      BY <1>1 DEF Within, Contains
    <2> QED
      BY <2>1 DEF Left
  <1>3. \A y \in H, i \in 1..Len(s) : Cleanup(y, layers, s[i]) \in H
    BY CleanupStep
  <1> HIDE DEF H, s
  <1>4. PICK g \in [0..Len(s) -> H] :
          /\ g[0] = h
          /\ \A k \in 0..(Len(s) - 1) : g[k + 1] = Cleanup(g[k], layers, s[k + 1])
          /\ x = g[Len(s)]
    <2>1. \E g : CleanupRun(g, h, layers, s, H)
      BY <1>1, <1>2, <1>3, CleanupFold
    <2> QED
      BY <2>1 DEF CleanupRun
  <1> HIDE DEF x
  <1> DEFINE Done(k) == \A i \in 1..Len(s) : i <= k =>
                          Contains(layers, s[i]) \/ ~Contains(g[k].guards, s[i])
             T == {k \in Nat : k <= Len(s) => Done(k)}
  <1>5. 0 \in T
    BY <1>1
  <1>6. ASSUME NEW k \in T PROVE k + 1 \in T
    <2> SUFFICES ASSUME k + 1 <= Len(s), NEW i \in 1..Len(s), i <= k + 1
                 PROVE  Contains(layers, s[i]) \/ ~Contains(g[k + 1].guards, s[i])
      OBVIOUS
    <2>1. k \in 0..(Len(s) - 1) /\ k \in 0..Len(s) /\ Done(k)
      BY <1>1
    <2>2. g[k] \in H /\ g[k + 1] = Cleanup(g[k], layers, s[k + 1])
      BY <1>4, <2>1
    <2>3. /\ Contains(layers, s[k + 1]) \/ ~Contains(g[k + 1].guards, s[k + 1])
          /\ \A m : Contains(g[k + 1].guards, m) => Contains(g[k].guards, m)
      BY <2>2, CleanupStep DEF H
    <2>4. CASE i = k + 1
      BY <2>3, <2>4
    <2>5. CASE i <= k
      BY <2>1, <2>3, <2>5
    <2> QED
      BY <2>4, <2>5, <1>1
  <1> HIDE DEF T
  <1>7. Len(s) \in T
    BY <1>1, <1>5, <1>6, NatSet DEF T
  <1>8. x \in H /\ \A i \in 1..Len(s) : Contains(layers, s[i]) \/ ~Contains(x.guards, s[i])
    BY <1>1, <1>4, <1>7 DEF T
  <1>9. \A l : Contains(x.guards, l) <=> Contains(s, l) /\ Contains(layers, l)
    <2> TAKE l
    <2>1. Contains(x.guards, l) => Contains(s, l)
      <3>1. Within(x.guards, s) /\ x.guards \in Seq(Names)
        BY <1>8 DEF H, Left, s, History
      <3>2. \A i \in 1..Len(x.guards) : i \in DOMAIN x.guards
        BY <3>1
      <3> QED
        BY <3>1, <3>2 DEF Within, Contains
    <2>2. Contains(s, l) /\ Contains(x.guards, l) => Contains(layers, l)
      BY <1>8 DEF Contains
    <2>3. Contains(s, l) /\ Contains(layers, l) => Contains(x.guards, l)
      BY <1>8 DEF H, Left, s
    <2> QED
      BY <2>1, <2>2, <2>3
  <1> QED
    BY <1>8, <1>9 DEF x, H, s

\* What the mounts make of the history x: its guards and after them the layers that had none.
Grown(x, layers) ==
  {y \in History :
     /\ Distinct(y.guards) /\ (Counted(x) => Counted(y))
     /\ Len(x.guards) <= Len(y.guards)
     /\ \A i \in 1..Len(x.guards) : y.guards[i] = x.guards[i]
     /\ \A l : Contains(y.guards, l) => Contains(x.guards, l) \/ Contains(layers, l)}

LEMMA MountStep ==
  ASSUME NEW x \in History, NEW layers, NEW y \in Grown(x, layers), NEW l \in Names,
         Contains(layers, l)
  PROVE  /\ Mount(y, l) \in Grown(x, layers)
         /\ Contains(Mount(y, l).guards, l)
         /\ \A m : Contains(y.guards, m) => Contains(Mount(y, l).guards, m)
  <1>1. CASE Contains(y.guards, l)
    BY <1>1 DEF Mount
  <1>2. CASE ~Contains(y.guards, l)
    <2> DEFINE z == PushGuard(y, l)
    <2>1. /\ y \in History /\ Distinct(y.guards) /\ (Counted(x) => Counted(y))
          /\ Len(x.guards) <= Len(y.guards)
          /\ \A i \in 1..Len(x.guards) : y.guards[i] = x.guards[i]
          /\ \A m : Contains(y.guards, m) => Contains(x.guards, m) \/ Contains(layers, m)
      BY DEF Grown
    <2>2. /\ z \in History /\ z.guards = Append(y.guards, l) /\ Distinct(z.guards)
          /\ \A m : Contains(z.guards, m) <=> Contains(y.guards, m) \/ m = l
          /\ Counted(y) => Counted(z)
      BY <1>2, <2>1, PushGuardIs
    <2>3. x.guards \in Seq(Names) /\ y.guards \in Seq(Names)
          /\ Len(x.guards) \in Nat /\ Len(y.guards) \in Nat
      BY <2>1 DEF History
    <2>4. Len(z.guards) = Len(y.guards) + 1
          /\ \A i \in 1..Len(y.guards) : z.guards[i] = y.guards[i]
      BY <2>2, <2>3
    <2> HIDE DEF z
    <2>5. Len(x.guards) <= Len(z.guards)
          /\ \A i \in 1..Len(x.guards) : z.guards[i] = x.guards[i]
      BY <2>1, <2>3, <2>4
    <2>6. z \in Grown(x, layers)
      BY <2>1, <2>2, <2>5 DEF Grown
    <2> QED
      BY <1>2, <2>2, <2>6 DEF Mount, z
  <1> QED
    BY <1>1, <1>2

LEMMA Mounted ==
  ASSUME NEW x \in History, Distinct(x.guards), NEW layers \in Seq(Names)
  PROVE  LET y == Mounts(x, Reverse(layers)) IN
           /\ y \in Grown(x, layers)
           /\ \A l : Contains(layers, l) => Contains(y.guards, l)
           /\ \A l : Contains(x.guards, l) => Contains(y.guards, l)
  <1> DEFINE s == Reverse(layers)
             H == {y \in Grown(x, layers) : \A l : Contains(x.guards, l) => Contains(y.guards, l)}
             y == Mounts(x, s)
  <1>1. /\ s \in Seq(Names) /\ Len(s) = Len(layers) /\ Len(layers) \in Nat
        /\ \A i \in 1..Len(layers) : s[i] = layers[Len(layers) - i + 1]
    BY DEF Reverse
  <1>2. /\ \A i \in 1..Len(s) : s[i] \in Names /\ Contains(layers, s[i])
        /\ \A l : Contains(layers, l) => \E i \in 1..Len(s) : s[i] = l
    <2>1. \A i \in 1..Len(layers) : Len(layers) - i + 1 \in 1..Len(layers)
                                    /\ Len(layers) - (Len(layers) - i + 1) + 1 = i
      BY <1>1
    <2> HIDE DEF s
    <2>2. \A i \in 1..Len(s) : s[i] = layers[Len(layers) - i + 1]
      BY <1>1
    <2>3. \A i \in 1..Len(s) : s[i] \in Names /\ Contains(layers, s[i])
      BY <1>1, <2>1, <2>2 DEF Contains
    <2>4. \A i \in 1..Len(layers) : s[Len(layers) - i + 1] = layers[i]
      BY <1>1, <2>1, <2>2
    <2> QED
      BY <1>1, <2>1, <2>3, <2>4 DEF Contains
  <1>3. x \in H
    <2>1. Len(x.guards) \in Nat
      BY DEF History
    <2> QED
      BY <2>1 DEF Grown
  <1>4. \A z \in H, i \in 1..Len(s) : Mount(z, s[i]) \in H
    <2> HIDE DEF s
    <2> QED
      BY <1>2, MountStep
  <1> HIDE DEF H, s
  <1>5. PICK g \in [0..Len(s) -> H] :
          /\ g[0] = x
          /\ \A k \in 0..(Len(s) - 1) : g[k + 1] = Mount(g[k], s[k + 1])
          /\ y = g[Len(s)]
    <2>1. \E g : MountRun(g, x, s, H)
      BY <1>1, <1>3, <1>4, MountFold
    <2> QED
      BY <2>1 DEF MountRun
  <1> HIDE DEF y
  <1> DEFINE There(k) == \A i \in 1..Len(s) : i <= k => Contains(g[k].guards, s[i])
             T == {k \in Nat : k <= Len(s) => There(k)}
  <1>6. 0 \in T
    BY <1>1
  <1>7. ASSUME NEW k \in T PROVE k + 1 \in T
    <2> SUFFICES ASSUME k + 1 <= Len(s), NEW i \in 1..Len(s), i <= k + 1
                 PROVE  Contains(g[k + 1].guards, s[i])
      OBVIOUS
    <2>1. k \in 0..(Len(s) - 1) /\ k \in 0..Len(s) /\ k + 1 \in 1..Len(s) /\ There(k)
      BY <1>1
    <2>2. g[k] \in H /\ g[k + 1] = Mount(g[k], s[k + 1])
      BY <1>5, <2>1
    <2>3. /\ Contains(g[k + 1].guards, s[k + 1])
          /\ \A m : Contains(g[k].guards, m) => Contains(g[k + 1].guards, m)
      <3>1. g[k] \in Grown(x, layers) /\ s[k + 1] \in Names /\ Contains(layers, s[k + 1])
        BY <1>2, <2>1, <2>2 DEF H
      <3> QED
        BY <2>2, <3>1, MountStep
    <2>4. CASE i = k + 1
      BY <2>3, <2>4
    <2>5. CASE i <= k
      BY <2>1, <2>3, <2>5
    <2> QED
      BY <2>4, <2>5, <1>1
  <1> HIDE DEF T
  <1>8. Len(s) \in T
    BY <1>1, <1>6, <1>7, NatSet DEF T
  <1>9. y \in H /\ \A i \in 1..Len(s) : Contains(y.guards, s[i])
    BY <1>1, <1>5, <1>8 DEF T
  <1> QED
    BY <1>2, <1>9 DEF y, H, s

\* After the effects of a render each layer has one guard, the new ones after the others.
LEMMA RenderedIs ==
  ASSUME NEW h \in History, Distinct(h.guards), NEW layers \in Seq(Names)
  PROVE  LET r == Rendered(h, layers) IN
           /\ r \in History /\ Distinct(r.guards) /\ (Counted(h) => Counted(r))
           /\ \A l : Contains(r.guards, l) <=> Contains(layers, l)
           /\ \A i, j \in DOMAIN r.guards :
                i < j /\ Contains(h.guards, r.guards[j]) =>
                  \E a, b \in DOMAIN h.guards :
                    a < b /\ h.guards[a] = r.guards[i] /\ h.guards[b] = r.guards[j]
  <1> DEFINE x == Cleanups(h, layers, h.guards)
             r == Mounts(x, Reverse(layers))
  <1>1. x \in Left(h, layers)
        /\ \A l : Contains(x.guards, l) <=> Contains(h.guards, l) /\ Contains(layers, l)
    BY CleanedUp
  <1> HIDE DEF x
  <1>2. x \in History /\ Distinct(x.guards) /\ Within(x.guards, h.guards)
        /\ (Counted(h) => Counted(x))
    BY <1>1 DEF Left
  <1>3. /\ r \in Grown(x, layers)
        /\ \A l : Contains(layers, l) => Contains(r.guards, l)
        /\ \A l : Contains(x.guards, l) => Contains(r.guards, l)
    BY <1>2, Mounted
  <1> HIDE DEF r
  <1>4. /\ r \in History /\ Distinct(r.guards) /\ (Counted(x) => Counted(r))
        /\ Len(x.guards) <= Len(r.guards)
        /\ \A i \in 1..Len(x.guards) : r.guards[i] = x.guards[i]
        /\ \A l : Contains(r.guards, l) => Contains(x.guards, l) \/ Contains(layers, l)
    BY <1>3 DEF Grown
  <1>5. \A l : Contains(r.guards, l) <=> Contains(layers, l)
    BY <1>1, <1>3, <1>4
  <1>6. ASSUME NEW i \in DOMAIN r.guards, NEW j \in DOMAIN r.guards, i < j,
               Contains(h.guards, r.guards[j])
        PROVE  \E a, b \in DOMAIN h.guards :
                 a < b /\ h.guards[a] = r.guards[i] /\ h.guards[b] = r.guards[j]
    <2>1. /\ DOMAIN r.guards = 1..Len(r.guards) /\ DOMAIN x.guards = 1..Len(x.guards)
          /\ Len(x.guards) \in Nat /\ Len(r.guards) \in Nat
      BY <1>2, <1>4 DEF History
    <2>2. Contains(x.guards, r.guards[j])
      BY <1>1, <1>5, <1>6, <2>1 DEF Contains
    <2>3. PICK b \in 1..Len(x.guards) : x.guards[b] = r.guards[j]
      BY <2>2 DEF Contains
    <2>4. b = j
      BY <1>4, <2>1, <2>3 DEF Distinct
    <2>5. i \in DOMAIN x.guards /\ j \in DOMAIN x.guards
      BY <1>6, <2>1, <2>3, <2>4
    <2>6. r.guards[i] = x.guards[i] /\ r.guards[j] = x.guards[j]
      BY <1>4, <2>1, <2>5
    <2> QED
      BY <1>2, <1>6, <2>5, <2>6 DEF Within
  <1> QED
    BY <1>2, <1>4, <1>5, <1>6 DEF Rendered, Mounts, Cleanups, r, x

-----------------------------------------------------------------------------
\* The layers, and the order in which they lie on each other.
Rank(l) ==
  IF l = "page" THEN 1 ELSE IF l = "section" THEN 2 ELSE IF l \in Sheets THEN 3
  ELSE IF l \in Overs THEN 4 ELSE IF l = "box" THEN 5 ELSE 6

Sorted(s) == \A i, j \in DOMAIN s : i < j => Rank(s[i]) < Rank(s[j])

LEMMA OpenIs ==
  ASSUME NEW s \in Seq(Names), Sorted(s), NEW x \in Names \cup {Null},
         x # Null => \A l : Contains(s, l) => Rank(l) < Rank(x)
  PROVE  /\ s \o Open(x) \in Seq(Names) /\ Sorted(s \o Open(x))
         /\ \A l : Contains(s \o Open(x), l) <=> Contains(s, l) \/ (x # Null /\ l = x)
  <1>1. CASE x = Null
    <2>1. s \o Open(x) = s
      BY <1>1 DEF Open
    <2> QED
      BY <1>1, <2>1
  <1>2. CASE x # Null
    <2> DEFINE t == s \o <<x>>
    <2>1. /\ t \in Seq(Names) /\ Len(t) = Len(s) + 1 /\ Len(s) \in Nat
          /\ \A i \in 1..Len(s) : t[i] = s[i]
          /\ t[Len(s) + 1] = x
      BY <1>2
    <2>2. DOMAIN t = 1..Len(t) /\ DOMAIN s = 1..Len(s)
      BY <2>1
    <2> HIDE DEF t
    <2>3. Sorted(t)
      <3> SUFFICES ASSUME NEW i \in DOMAIN t, NEW j \in DOMAIN t, i < j
                   PROVE  Rank(t[i]) < Rank(t[j])
        BY DEF Sorted
      <3>1. i \in 1..Len(s) /\ (j \in 1..Len(s) \/ j = Len(s) + 1)
        BY <2>1, <2>2
      <3>2. CASE j \in 1..Len(s)
        BY <2>1, <2>2, <3>1, <3>2 DEF Sorted
      <3>3. CASE j = Len(s) + 1
        BY <1>2, <2>1, <3>1, <3>3 DEF Contains
      <3> QED
        BY <3>1, <3>2, <3>3
    <2>4. \A l : Contains(t, l) <=> Contains(s, l) \/ l = x
      <3>1. \A i \in 1..Len(t) : i \in 1..Len(s) \/ i = Len(s) + 1
        BY <2>1
      <3>2. Len(s) + 1 \in 1..Len(t) /\ \A i \in 1..Len(s) : i \in 1..Len(t)
        BY <2>1
      <3> QED
        BY <2>1, <3>1, <3>2 DEF Contains
    <2> QED
      BY <1>2, <2>1, <2>3, <2>4 DEF Open, t
  <1> QED
    BY <1>1, <1>2

UiTypes == [section: DOMAIN SectionOf \cup {Null}, sheet: Sheets \cup {Null},
            over: Overs \cup {Null}, box: {"box", Null}, date: {"date", Null}]

LEMMA LayersIs ==
  ASSUME NEW r, NEW u \in UiTypes
  PROVE  /\ Layers(r, u) \in Seq(Names) /\ Sorted(Layers(r, u))
         /\ \A l : Contains(Layers(r, u), l) <=>
                     \/ l = "page" /\ r # "hub"
                     \/ l = "section" /\ u.section # Null
                     \/ l = u.sheet /\ l # Null
                     \/ l = u.over /\ l # Null
                     \/ l = u.box /\ l # Null
                     \/ l = u.date /\ l # Null
  <1> DEFINE a == IF r = "hub" THEN Null ELSE "page"
             b == IF u.section = Null THEN Null ELSE "section"
             s1 == <<>> \o Open(a)
             s2 == s1 \o Open(b)
             s3 == s2 \o Open(u.sheet)
             s4 == s3 \o Open(u.over)
             s5 == s4 \o Open(u.box)
             s6 == s5 \o Open(u.date)
  <1>0. /\ u.sheet \in Sheets \cup {Null} /\ u.over \in Overs \cup {Null}
        /\ u.box \in {"box", Null} /\ u.date \in {"date", Null}
        /\ Null \notin Names
    BY NullIsNoValue DEF UiTypes, Names
  <1>1. /\ s1 \in Seq(Names) /\ Sorted(s1)
        /\ \A l : Contains(s1, l) <=> l = "page" /\ r # "hub"
    <2>1. <<>> \in Seq(Names) /\ Sorted(<<>>) /\ \A l : ~Contains(<<>>, l)
      BY DEF Sorted, Contains
    <2>2. a \in Names \cup {Null}
      BY DEF Names
    <2> HIDE DEF a
    <2>3. s1 \in Seq(Names) /\ Sorted(s1) /\ \A l : Contains(s1, l) <=> a # Null /\ l = a
      BY <2>1, <2>2, OpenIs
    <2> QED
      BY <1>0, <2>3 DEF a, Names
  <1> HIDE DEF s1
  <1>2. /\ s2 \in Seq(Names) /\ Sorted(s2)
        /\ \A l : Contains(s2, l) <=> Contains(s1, l) \/ (l = "section" /\ u.section # Null)
    <2>1. b \in Names \cup {Null} /\ (b # Null => b = "section")
      BY DEF Names
    <2>2. \A l : Contains(s1, l) => Rank(l) < Rank("section")
      BY <1>1 DEF Rank
    <2> HIDE DEF b
    <2>3. /\ s2 \in Seq(Names) /\ Sorted(s2)
          /\ \A l : Contains(s2, l) <=> Contains(s1, l) \/ (b # Null /\ l = b)
      BY <1>1, <2>1, <2>2, OpenIs
    <2> QED
      BY <1>0, <2>3 DEF b, Names
  <1> HIDE DEF s2
  <1>3. /\ s3 \in Seq(Names) /\ Sorted(s3)
        /\ \A l : Contains(s3, l) <=> Contains(s2, l) \/ (u.sheet # Null /\ l = u.sheet)
    <2>1. u.sheet \in Names \cup {Null}
      BY <1>0 DEF Names
    <2>2. u.sheet # Null => \A l : Contains(s2, l) => Rank(l) < Rank(u.sheet)
      BY <1>0, <1>1, <1>2 DEF Rank, Sheets
    <2> QED
      BY <1>2, <2>1, <2>2, OpenIs
  <1> HIDE DEF s3
  <1>4. /\ s4 \in Seq(Names) /\ Sorted(s4)
        /\ \A l : Contains(s4, l) <=> Contains(s3, l) \/ (u.over # Null /\ l = u.over)
    <2>1. u.over \in Names \cup {Null}
      BY <1>0 DEF Names
    <2>2. u.over # Null => \A l : Contains(s3, l) => Rank(l) < Rank(u.over)
      <3>1. \A l : Contains(s3, l) => l = "page" \/ l = "section" \/ l \in Sheets
        BY <1>0, <1>1, <1>2, <1>3
      <3>2. u.over # Null => Rank(u.over) = 4
        BY <1>0 DEF Rank, Sheets, Overs
      <3> QED
        BY <3>1, <3>2 DEF Rank
    <2> QED
      BY <1>3, <2>1, <2>2, OpenIs
  <1> HIDE DEF s4
  <1>5. /\ s5 \in Seq(Names) /\ Sorted(s5)
        /\ \A l : Contains(s5, l) <=> Contains(s4, l) \/ (u.box # Null /\ l = u.box)
    <2>1. u.box \in Names \cup {Null}
      BY <1>0 DEF Names
    <2>2. u.box # Null => \A l : Contains(s4, l) => Rank(l) < Rank(u.box)
      <3>1. \A l : Contains(s4, l) => l = "page" \/ l = "section" \/ l \in Sheets \/ l \in Overs
        BY <1>0, <1>1, <1>2, <1>3, <1>4
      <3>2. u.box # Null => Rank(u.box) = 5
        BY <1>0 DEF Rank, Sheets, Overs
      <3> QED
        BY <3>1, <3>2 DEF Rank
    <2> QED
      BY <1>4, <2>1, <2>2, OpenIs
  <1> HIDE DEF s5
  <1>6. /\ s6 \in Seq(Names) /\ Sorted(s6)
        /\ \A l : Contains(s6, l) <=> Contains(s5, l) \/ (u.date # Null /\ l = u.date)
    <2>1. u.date \in Names \cup {Null}
      BY <1>0 DEF Names
    <2>2. u.date # Null => \A l : Contains(s5, l) => Rank(l) < Rank(u.date)
      <3>1. \A l : Contains(s5, l) =>
              l = "page" \/ l = "section" \/ l \in Sheets \/ l \in Overs \/ l = "box"
        BY <1>0, <1>1, <1>2, <1>3, <1>4, <1>5
      <3>2. u.date # Null => Rank(u.date) = 6
        BY <1>0 DEF Rank, Sheets, Overs
      <3> QED
        BY <3>1, <3>2 DEF Rank
    <2> QED
      BY <1>5, <2>1, <2>2, OpenIs
  <1>7. Layers(r, u) = s6
    <2>1. <<>> \o Open(a) = Open(a)
      BY DEF Open
    <2> QED
      BY <2>1 DEF Layers, s1, s2, s3, s4, s5
  <1> HIDE DEF s6
  <1> QED
    BY <1>1, <1>2, <1>3, <1>4, <1>5, <1>6, <1>7

\* Two sorted sequences of the same layers are the same.
LEMMA SortedIsOne ==
  ASSUME NEW s \in Seq(Names), NEW t \in Seq(Names), Sorted(s), Sorted(t),
         \A l : Contains(s, l) <=> Contains(t, l)
  PROVE  s = t
  <1>0. /\ Len(s) \in Nat /\ Len(t) \in Nat /\ DOMAIN s = 1..Len(s) /\ DOMAIN t = 1..Len(t)
        /\ \A l : Rank(l) \in Int
    BY DEF Rank
  <1>1. ASSUME NEW p \in Seq(Names), NEW q \in Seq(Names), Sorted(p), Sorted(q),
               NEW k \in 1..Len(p), \A i \in 1..Len(p) : i < k => i \in 1..Len(q) /\ p[i] = q[i],
               \A l : Contains(p, l) => Contains(q, l)
        PROVE  /\ k \in 1..Len(q) /\ Rank(q[k]) <= Rank(p[k])
               /\ \E j \in 1..Len(q) : j >= k /\ q[j] = p[k]
    <2>0. Len(p) \in Nat /\ Len(q) \in Nat /\ DOMAIN p = 1..Len(p) /\ DOMAIN q = 1..Len(q)
      OBVIOUS
    <2>1. PICK j \in 1..Len(q) : q[j] = p[k]
      BY <1>1, <2>0 DEF Contains
    <2>2. j >= k
      <3> SUFFICES ASSUME j < k PROVE FALSE
        BY <2>0
      <3>1. j \in 1..Len(p) /\ p[j] = p[k]
        BY <1>1, <2>0, <2>1
      <3>2. Rank(p[j]) < Rank(p[k])
        BY <1>1, <2>0, <3>1 DEF Sorted
      <3> QED
        BY <1>0, <3>1, <3>2
    <2>3. k \in 1..Len(q)
      BY <2>0, <2>2
    <2>4. j = k \/ Rank(q[k]) < Rank(q[j])
      BY <1>1, <2>0, <2>2, <2>3 DEF Sorted
    <2> QED
      BY <1>0, <2>1, <2>2, <2>3, <2>4
  <1> DEFINE Same(k) == \A i \in 1..k :
                 (i \in 1..Len(s) <=> i \in 1..Len(t)) /\ (i \in 1..Len(s) => s[i] = t[i])
             T == {k \in Nat : Same(k)}
  <1>2. 0 \in T
    OBVIOUS
  <1>3. ASSUME NEW k \in T PROVE k + 1 \in T
    <2>1. Same(k)
      OBVIOUS
    <2>2. \A i \in 1..(k + 1) : i \in 1..k \/ i = k + 1
      OBVIOUS
    <2>3. k + 1 \in 1..Len(s) => k + 1 \in 1..Len(t) /\ Rank(t[k + 1]) <= Rank(s[k + 1])
      <3> SUFFICES ASSUME k + 1 \in 1..Len(s)
                   PROVE  k + 1 \in 1..Len(t) /\ Rank(t[k + 1]) <= Rank(s[k + 1])
        OBVIOUS
      <3>1. \A i \in 1..Len(s) : i < k + 1 => i \in 1..Len(t) /\ s[i] = t[i]
        BY <2>1
      <3> QED
        BY <1>1, <3>1
    <2>4. k + 1 \in 1..Len(t) => k + 1 \in 1..Len(s) /\ Rank(s[k + 1]) <= Rank(t[k + 1])
      <3> SUFFICES ASSUME k + 1 \in 1..Len(t)
                   PROVE  k + 1 \in 1..Len(s) /\ Rank(s[k + 1]) <= Rank(t[k + 1])
        OBVIOUS
      <3>1. \A i \in 1..Len(t) : i < k + 1 => i \in 1..Len(s) /\ t[i] = s[i]
        BY <2>1
      <3> QED
        BY <1>1, <3>1
    <2>5. k + 1 \in 1..Len(s) => s[k + 1] = t[k + 1]
      <3> SUFFICES ASSUME k + 1 \in 1..Len(s) PROVE s[k + 1] = t[k + 1]
        OBVIOUS
      <3>1. k + 1 \in 1..Len(t) /\ Rank(t[k + 1]) = Rank(s[k + 1])
        BY <1>0, <2>3, <2>4
      <3>2. \A i \in 1..Len(s) : i < k + 1 => i \in 1..Len(t) /\ s[i] = t[i]
        BY <2>1
      <3>3. PICK j \in 1..Len(t) : j >= k + 1 /\ t[j] = s[k + 1]
        BY <1>1, <3>2
      <3>4. j = k + 1 \/ Rank(t[k + 1]) < Rank(t[j])
        BY <1>0, <3>1, <3>3 DEF Sorted
      <3> QED
        BY <1>0, <3>1, <3>3, <3>4
    <2>6. Same(k + 1)
      BY <2>1, <2>2, <2>3, <2>4, <2>5
    <2> QED
      BY <2>6
  <1> HIDE DEF T
  <1>4. T = Nat
    BY <1>2, <1>3, NatSet DEF T
  <1>5. Len(s) = Len(t)
    <2>1. Len(s) + 1 \in T /\ Len(t) + 1 \in T
      BY <1>0, <1>4
    <2>2. Same(Len(s) + 1) /\ Same(Len(t) + 1)
      BY <2>1 DEF T
    <2>3. Len(s) + 1 \in 1..(Len(s) + 1) /\ Len(t) + 1 \in 1..(Len(t) + 1)
      BY <1>0
    <2>4. Len(s) + 1 \notin 1..Len(t) /\ Len(t) + 1 \notin 1..Len(s)
      BY <1>0, <2>2, <2>3
    <2>5. Len(s) \in Nat /\ Len(t) \in Nat
      BY <1>0
    <2>6. ~(Len(s) + 1 <= Len(t)) /\ ~(Len(t) + 1 <= Len(s))
      BY <2>4, <2>5
    <2> QED
      BY <2>5, <2>6
  <1>6. \A i \in 1..Len(s) : s[i] = t[i]
    <2>1. Same(Len(s))
      BY <1>0, <1>4 DEF T
    <2> QED
      BY <2>1
  <1> QED
    BY <1>0, <1>5, <1>6

-----------------------------------------------------------------------------
\* The guards lie in the order of the layers, but for the section a notice leads to.
Follows(l, m, d) == Rank(l) < Rank(m) \/ (d # Null /\ l = "section" /\ m = "page")
Ordered(s, d) == \A i, j \in DOMAIN s : i < j => Follows(s[i], s[j], d)

\* A layer that is open has its guard, but for the box an answer has just opened; one whose
\* guard is left is on its way out.
Covered ==
  \A l : Contains(Layers(route, ui), l) =>
           Contains(hist.guards, l) \/ (l = "box" /\ ui.date = Null)

OverNotice == ui.sheet = "bell" => route = "hub" /\ ui.section = Null /\ ui.over = Null
OverPage == ui.over # Null /\ ui.sheet = Null => Showing.sheet = {}
OverBox == ui.date # Null => ui.box # Null

HistInv ==
  /\ ui \in UiTypes /\ hist \in History /\ Counted(hist)
  /\ Ordered(hist.guards, deep) /\ Covered /\ OverNotice /\ OverPage /\ OverBox

\* Between the taps, once the effects have run, the box has its guard too.
LEMMA SettledIs ==
  ASSUME HistInv, Settled
  PROVE  \A l : Contains(hist.guards, l) <=> Contains(Layers(route, ui), l)
  <1>1. hist.guards \in Seq(Names) /\ Layers(route, ui) \in Seq(Names)
    BY LayersIs DEF HistInv, History
  <1>2. \A s \in Seq(Names) : \A l : Contains(s, l) <=> l \in ToSet(s)
    BY DEF Contains, ToSet
  <1> QED
    BY <1>1, <1>2 DEF Settled

LEMMA OrderedIsDistinct ==
  ASSUME NEW s \in Seq(Names), NEW d, Ordered(s, d)
  PROVE  Distinct(s)
  <1> SUFFICES ASSUME NEW i \in DOMAIN s, NEW j \in DOMAIN s, s[i] = s[j], i < j PROVE FALSE
    BY DEF Distinct
  <1>1. Follows(s[i], s[j], d)
    BY DEF Ordered
  <1> QED
    BY <1>1 DEF Follows, Rank

\* The effects of a tap keep the order, if what is new lies over the rest.
LEMMA RenderedKeeps ==
  ASSUME hist \in History, Counted(hist), Ordered(hist.guards, deep),
         NEW layers \in Seq(Names), NEW d,
         \A l, m : Contains(layers, l) /\ Contains(layers, m) /\ l # m =>
           /\ ~Contains(hist.guards, l) => Follows(m, l, d)
           /\ Follows(m, l, deep) => Follows(m, l, d)
  PROVE  /\ Rendered(hist, layers) \in History /\ Counted(Rendered(hist, layers))
         /\ Ordered(Rendered(hist, layers).guards, d)
         /\ \A l : Contains(Rendered(hist, layers).guards, l) <=> Contains(layers, l)
  <1> DEFINE r == Rendered(hist, layers)
  <1>1. hist.guards \in Seq(Names) /\ Distinct(hist.guards)
    BY OrderedIsDistinct DEF History
  <1>2. /\ r \in History /\ Distinct(r.guards) /\ Counted(r)
        /\ \A l : Contains(r.guards, l) <=> Contains(layers, l)
        /\ \A i, j \in DOMAIN r.guards :
             i < j /\ Contains(hist.guards, r.guards[j]) =>
               \E a, b \in DOMAIN hist.guards :
                 a < b /\ hist.guards[a] = r.guards[i] /\ hist.guards[b] = r.guards[j]
    BY <1>1, RenderedIs
  <1> HIDE DEF r
  <1>3. ASSUME NEW i \in DOMAIN r.guards, NEW j \in DOMAIN r.guards, i < j
        PROVE  Follows(r.guards[i], r.guards[j], d)
    <2>1. r.guards \in Seq(Names)
      BY <1>2 DEF History
    <2>2. Contains(layers, r.guards[i]) /\ Contains(layers, r.guards[j])
      <3>1. i \in 1..Len(r.guards) /\ j \in 1..Len(r.guards)
        BY <2>1
      <3>2. Contains(r.guards, r.guards[i]) /\ Contains(r.guards, r.guards[j])
        BY <3>1 DEF Contains
      <3> QED
        BY <1>2, <3>2
    <2>3. r.guards[i] # r.guards[j]
      BY <1>2, <1>3, <2>1 DEF Distinct
    <2>4. CASE ~Contains(hist.guards, r.guards[j])
      BY <2>2, <2>3, <2>4
    <2>5. CASE Contains(hist.guards, r.guards[j])
      <3>1. Follows(r.guards[i], r.guards[j], deep)
        BY <1>2, <1>3, <2>5 DEF Ordered
      <3> QED
        BY <2>2, <2>3, <3>1
    <2> QED
      BY <2>4, <2>5
  <1> QED
    BY <1>2, <1>3 DEF Ordered, r

\* What a tap shows: what follows for the history, whatever is opened.
LEMMA ShownHist ==
  ASSUME HistInv, NEW r, NEW u \in UiTypes, NEW d,
         hist' = Rendered(hist, Layers(r, u)), route' = r, ui' = u, deep' = d,
         \A l, m : Contains(Layers(r, u), l) /\ Contains(Layers(r, u), m) /\ l # m =>
           /\ ~Contains(hist.guards, l) => Follows(m, l, d)
           /\ Follows(m, l, deep) => Follows(m, l, d)
  PROVE  /\ hist' \in History /\ Counted(hist') /\ Ordered(hist'.guards, deep') /\ Covered'
  <1>1. Layers(r, u) \in Seq(Names)
    BY LayersIs
  <1>2. /\ hist' \in History /\ Counted(hist') /\ Ordered(hist'.guards, d)
        /\ \A l : Contains(hist'.guards, l) <=> Contains(Layers(r, u), l)
    <2> HIDE DEF Layers
    <2> QED
      BY <1>1, RenderedKeeps DEF HistInv
  <1> QED
    BY <1>2 DEF Covered

\* One layer is opened over those that have their guards, or none.
LEMMA OpensOne ==
  ASSUME HistInv, NEW r, NEW u \in UiTypes, NEW x,
         hist' = Rendered(hist, Layers(r, u)), route' = r, ui' = u, UNCHANGED deep,
         \A l : Contains(Layers(r, u), l) /\ l # x => Contains(hist.guards, l),
         \A l : Contains(Layers(r, u), l) /\ l # x /\ Contains(Layers(r, u), x) => Rank(l) < Rank(x)
  PROVE  /\ hist' \in History /\ Counted(hist') /\ Ordered(hist'.guards, deep') /\ Covered'
  <1>1. \A l, m : Contains(Layers(r, u), l) /\ Contains(Layers(r, u), m) /\ l # m =>
           /\ ~Contains(hist.guards, l) => Follows(m, l, deep)
           /\ Follows(m, l, deep) => Follows(m, l, deep)
    BY DEF Follows
  <1> QED
    BY <1>1, ShownHist

\* At most one layer is left.
LEMMA OnlyOne ==
  ASSUME HistInv, NEW r, NEW u \in UiTypes,
         hist' = Rendered(hist, Layers(r, u)), route' = r, ui' = u,
         \A l, m : Contains(Layers(r, u), l) /\ Contains(Layers(r, u), m) => l = m
  PROVE  /\ hist' \in History /\ Counted(hist') /\ Ordered(hist'.guards, deep') /\ Covered'
  BY ShownHist

LEMMA MoveIs == \A r, u : Move(r, u) => route' = r /\ ui' = u
  BY DEF Move

\* Taps that lead to another page, or replace what is open.
LEMMA NavHist ==
  ASSUME HistInv, tour \in Tours,
         EnterFromHub \/ LinkOfDashboard \/ FromBell \/ OpenBell \/ FromBellToForm
           \/ FromBellToRequests
  PROVE  HistInv'
  <1>0. Null \notin Sheets \cup Overs /\ Null # "joinRequests" /\ Blank \in UiTypes
        /\ "joinRequests" \in DOMAIN SectionOf
    BY NullIsNoValue DEF SectionOf, Blank, UiTypes
  <1>1. ASSUME NEW r, Nav(r) PROVE HistInv'
    <2>1. route' = r /\ ui' = Blank /\ hist' = Rendered(hist, Layers(r, Blank))
      BY <1>1, MoveIs DEF Nav, Show
    <2>2. \A l, m : Contains(Layers(r, Blank), l) /\ Contains(Layers(r, Blank), m) => l = m
      BY <1>0, LayersIs DEF Blank
    <2>3. hist' \in History /\ Counted(hist') /\ Ordered(hist'.guards, deep') /\ Covered'
      BY <1>0, <2>1, <2>2, OnlyOne
    <2> QED
      BY <1>0, <2>1, <2>3 DEF HistInv, OverNotice, OverPage, OverBox, Blank, Sheets
  <1>2. CASE OpenBell \/ FromBellToForm
    <2> DEFINE s == IF OpenBell THEN "bell" ELSE "form"
               u == [ui EXCEPT !.sheet = s]
    <2>1. ui \in UiTypes /\ ui.section = Null /\ ui.over = Null /\ route = "hub"
          /\ ui.box = Null /\ ui.date = Null
      BY <1>0, <1>2 DEF HistInv, OverNotice, OverBox, OpenBell, FromBellToForm, Blank
    <2>2. route' = route /\ ui' = u /\ hist' = Rendered(hist, Layers(route, u))
      BY <1>2, MoveIs DEF OpenBell, FromBellToForm, Show
    <2>3. u \in UiTypes /\ u.section = Null /\ u.over = Null /\ u.box = Null /\ u.date = Null
      BY <2>1 DEF UiTypes, Sheets
    <2> HIDE DEF u
    <2>4. \A l, m : Contains(Layers(route, u), l) /\ Contains(Layers(route, u), m) => l = m
      BY <2>1, <2>3, LayersIs
    <2>5. hist' \in History /\ Counted(hist') /\ Ordered(hist'.guards, deep') /\ Covered'
      BY <2>2, <2>3, <2>4, OnlyOne
    <2> QED
      BY <2>1, <2>2, <2>3, <2>5 DEF HistInv, OverNotice, OverPage, OverBox
  <1>3. CASE FromBellToRequests
    <2> DEFINE u == [Blank EXCEPT !.section = "joinRequests"]
    <2>1. route' = "settings" /\ ui' = u /\ hist' = Rendered(hist, Layers("settings", u))
          /\ deep' = "joinRequests"
      BY <1>3, MoveIs DEF FromBellToRequests, Show
    <2>2. /\ u \in UiTypes /\ u.sheet = Null /\ u.over = Null /\ u.box = Null
          /\ u.date = Null
      BY <1>0 DEF UiTypes, Blank
    <2> HIDE DEF u
    <2>3. \A l : Contains(Layers("settings", u), l) => l = "page" \/ l = "section"
      BY <2>2, LayersIs
    <2>4. \A l, m : Contains(Layers("settings", u), l) /\ Contains(Layers("settings", u), m)
                    /\ l # m => Follows(m, l, "joinRequests")
      BY <1>0, <2>3 DEF Follows, Rank
    <2>5. hist' \in History /\ Counted(hist') /\ Ordered(hist'.guards, deep') /\ Covered'
      BY <2>1, <2>2, <2>4, ShownHist
    <2> QED
      BY <1>0, <2>1, <2>2, <2>5 DEF HistInv, OverNotice, OverPage, OverBox, Sheets
  <1> QED
    BY <1>1, <1>2, <1>3 DEF EnterFromHub, LinkOfDashboard, FromBell

\* Taps that open something over what is shown.
LEMMA OpenHist ==
  ASSUME HistInv, tour \in Tours,
         OpenForm \/ OpenImport \/ OpenSection \/ OpenSheet \/ OpenPicker \/ OpenAccount
           \/ OpenDate
  PROVE  HistInv'
  <1>0. Null \notin Sheets \cup Overs /\ Null # "page" /\ Null # "section" /\ ui \in UiTypes
        /\ Blank \in UiTypes /\ (ui.box = Null => ui.date = Null)
    BY NullIsNoValue DEF HistInv, OverBox, Blank, UiTypes
  <1>g. \A l : Contains(Layers(route, ui), l) => Contains(hist.guards, l)
    <2>1. Settled
      BY DEF OpenForm, OpenImport, OpenSection, OpenSheet, OpenPicker, OpenAccount, OpenDate, Show,
             Tapped
    <2> QED
      BY <2>1, SettledIs
  <1>1. ASSUME NEW u \in UiTypes, u.section = ui.section, route' = route, ui' = u, deep' = deep,
               hist' = Rendered(hist, Layers(route, u)),
               u.box = ui.box, u.date = ui.date, ui.box = Null,
               \/ u.sheet \in Sheets \ {"bell"} /\ u.over = ui.over /\ ui.over = Null
                  /\ ui.sheet = Null
               \/ u.over \in Overs /\ u.sheet = ui.sheet /\ ui.sheet # "bell" /\ ui.over = Null
                  /\ (u.sheet = Null => Showing.sheet = {})
        PROVE  HistInv'
    <2> DEFINE x == IF u.sheet # ui.sheet THEN u.sheet ELSE u.over
    <2>1. \A l : Contains(Layers(route, u), l) /\ l # x => Contains(hist.guards, l)
      <3>1. \A l : Contains(Layers(route, u), l) /\ l # x => Contains(Layers(route, ui), l)
        BY <1>0, <1>1, LayersIs
      <3> QED
        BY <1>g, <3>1
    <2>2. \A l : Contains(Layers(route, u), l) =>
            l = "page" \/ l = "section" \/ (l \in Sheets /\ l = u.sheet) \/ (l \in Overs /\ l = u.over)
      BY <1>0, <1>1, LayersIs DEF UiTypes
    <2>3. \A l : Contains(Layers(route, u), l) /\ l # x => Rank(l) < Rank(x)
      <3>1. CASE u.sheet # ui.sheet
        <4>1. x = u.sheet /\ u.over = Null /\ Rank(x) = 3
          BY <1>0, <1>1, <3>1 DEF Rank, Sheets
        <4> QED
          BY <1>0, <2>2, <4>1 DEF Rank
      <3>2. CASE u.sheet = ui.sheet
        <4>1. x = u.over /\ Rank(x) = 4
          BY <1>0, <1>1, <3>2 DEF Rank, Sheets, Overs
        <4> QED
          BY <1>0, <2>2, <4>1 DEF Rank
      <3> QED
        BY <3>1, <3>2
    <2> HIDE DEF x
    <2>4. hist' \in History /\ Counted(hist') /\ Ordered(hist'.guards, deep') /\ Covered'
      BY <1>1, <2>1, <2>3, OpensOne
    <2>5. Showing' = Showing
      BY <1>1 DEF Showing, ScreenAt
    <2> QED
      BY <1>0, <1>1, <2>4, <2>5 DEF HistInv, OverNotice, OverPage, OverBox
  <1>2. CASE OpenForm
    <2>1. /\ ui.section = Null /\ ui.sheet = Null /\ ui.over = Null /\ ui.box = Null
          /\ route' = route /\ ui' = [ui EXCEPT !.sheet = "form"] /\ deep' = deep
          /\ hist' = Rendered(hist, Layers(route, [ui EXCEPT !.sheet = "form"]))
      BY <1>2, MoveIs DEF OpenForm, Show, Blank
    <2>2. [ui EXCEPT !.sheet = "form"] \in UiTypes
      BY <1>0 DEF UiTypes, Sheets
    <2> QED
      BY <1>0, <1>1, <2>1, <2>2 DEF UiTypes, Sheets
  <1>3. CASE OpenImport
    <2>1. /\ ui.sheet = "form" /\ ui.over = Null /\ ui.box = Null
          /\ route' = route /\ ui' = [ui EXCEPT !.over = "import"] /\ deep' = deep
          /\ hist' = Rendered(hist, Layers(route, [ui EXCEPT !.over = "import"]))
      BY <1>3, MoveIs DEF OpenImport, Show
    <2>2. [ui EXCEPT !.over = "import"] \in UiTypes
      BY <1>0 DEF UiTypes, Overs
    <2> QED
      BY <1>0, <1>1, <2>1, <2>2 DEF UiTypes, Sheets, Overs
  <1>4. CASE OpenSection
    <2> DEFINE u == [ui EXCEPT !.section = tour.section]
    <2>1. /\ ui.section = Null /\ ui.sheet = Null /\ ui.over = Null /\ ui.box = Null
          /\ route' = route /\ ui' = u /\ deep' = deep
          /\ hist' = Rendered(hist, Layers(route, u))
      BY <1>4, MoveIs DEF OpenSection, Show, Blank
    <2>2. /\ u \in UiTypes /\ u.sheet = Null /\ u.over = Null /\ u.box = Null /\ u.date = Null
      <3>1. tour.section \in DOMAIN SectionOf \cup {Null}
        BY ToursAssumption
      <3> QED
        BY <1>0, <2>1, <3>1 DEF UiTypes
    <2> HIDE DEF u
    <2>3. \A l : Contains(Layers(route, u), l) /\ l # "section" =>
            Contains(hist.guards, l) /\ Rank(l) < Rank("section")
      <3>1. \A l : Contains(Layers(route, u), l) /\ l # "section" =>
              Contains(Layers(route, ui), l) /\ Rank(l) < Rank("section")
        BY <1>0, <2>1, <2>2, LayersIs DEF Rank
      <3> QED
        BY <1>g, <3>1
    <2>4. hist' \in History /\ Counted(hist') /\ Ordered(hist'.guards, deep') /\ Covered'
      BY <2>1, <2>2, <2>3, OpensOne
    <2> QED
      BY <1>0, <2>1, <2>2, <2>4 DEF HistInv, OverNotice, OverPage, OverBox, Sheets
  <1>5. CASE OpenSheet
    <2>1. /\ ui.sheet = Null /\ ui.over = Null /\ ui.box = Null
          /\ route' = route /\ ui' = [ui EXCEPT !.sheet = "sheet"] /\ deep' = deep
          /\ hist' = Rendered(hist, Layers(route, [ui EXCEPT !.sheet = "sheet"]))
      BY <1>5, MoveIs DEF OpenSheet, Show, HistInv, OverPage
    <2>2. [ui EXCEPT !.sheet = "sheet"] \in UiTypes
      BY <1>0 DEF UiTypes, Sheets
    <2> QED
      BY <1>0, <1>1, <2>1, <2>2 DEF UiTypes, Sheets
  <1>6. CASE OpenPicker
    <2>1. /\ ui.over = Null /\ ui.box = Null /\ ui.sheet # "bell" /\ (ui.sheet = Null => Showing.sheet = {})
          /\ route' = route /\ ui' = [ui EXCEPT !.over = "picker"] /\ deep' = deep
          /\ hist' = Rendered(hist, Layers(route, [ui EXCEPT !.over = "picker"]))
      BY <1>0, <1>6, MoveIs DEF OpenPicker, Show, Sheets
    <2>2. [ui EXCEPT !.over = "picker"] \in UiTypes
      BY <1>0 DEF UiTypes, Overs
    <2> QED
      BY <1>0, <1>1, <2>1, <2>2 DEF UiTypes, Sheets, Overs
  <1>7. CASE OpenAccount
    <2>1. /\ ui.sheet = Null /\ ui.over = Null /\ ui.box = Null
          /\ route' = route /\ ui' = [ui EXCEPT !.sheet = "account"] /\ deep' = deep
          /\ hist' = Rendered(hist, Layers(route, [ui EXCEPT !.sheet = "account"]))
      <3>1. AccountsPage.sheet # {}
        BY DEF AccountsPage, Screen, HoldingSheet
      <3> QED
        BY <1>7, <3>1 DEF OpenAccount, HistInv, OverPage
    <2>2. [ui EXCEPT !.sheet = "account"] \in UiTypes
      BY <1>0 DEF UiTypes, Sheets
    <2> QED
      BY <1>0, <1>1, <2>1, <2>2 DEF UiTypes, Sheets
  <1>8. CASE OpenDate
    <2> DEFINE u == [ui EXCEPT !.date = "date"]
    <2>1. /\ ui.box # Null /\ route' = route /\ ui' = u /\ deep' = deep
          /\ hist' = Rendered(hist, Layers(route, u))
      BY <1>8, MoveIs DEF OpenDate, Show
    <2>2. /\ u \in UiTypes /\ u.section = ui.section /\ u.sheet = ui.sheet /\ u.over = ui.over
          /\ u.box = ui.box /\ u.date = "date"
      BY <1>0 DEF UiTypes
    <2> HIDE DEF u
    <2>3. \A l : Contains(Layers(route, u), l) /\ l # "date" => Contains(hist.guards, l)
      <3>1. \A l : Contains(Layers(route, u), l) /\ l # "date" => Contains(Layers(route, ui), l)
        BY <1>0, <2>2, LayersIs
      <3> QED
        BY <1>g, <3>1
    <2>4. \A l : Contains(Layers(route, u), l) /\ l # "date" => Rank(l) < Rank("date")
      <3>1. \A l : Contains(Layers(route, u), l) =>
              l \in {"page", "section", "box", "date"} \/ l \in Sheets \/ l \in Overs
        BY <1>0, <2>2, LayersIs DEF UiTypes
      <3> QED
        BY <3>1 DEF Rank, Sheets, Overs
    <2>5. hist' \in History /\ Counted(hist') /\ Ordered(hist'.guards, deep') /\ Covered'
      BY <2>1, <2>2, <2>3, <2>4, OpensOne
    <2>6. Showing' = Showing
      BY <2>1, <2>2 DEF Showing, ScreenAt
    <2> QED
      BY <2>1, <2>2, <2>5, <2>6 DEF HistInv, OverNotice, OverPage, OverBox
  <1> QED
    BY <1>2, <1>3, <1>4, <1>5, <1>6, <1>7, <1>8

\* Nothing is opened.
LEMMA OpensNone ==
  ASSUME HistInv, NEW r, NEW u \in UiTypes,
         hist' = Rendered(hist, Layers(r, u)), route' = r, ui' = u, UNCHANGED deep,
         \A l : Contains(Layers(r, u), l) => Contains(hist.guards, l)
  PROVE  /\ hist' \in History /\ Counted(hist') /\ Ordered(hist'.guards, deep') /\ Covered'
  <1>1. ~Contains(Layers(r, u), Null)
    BY NullIsNoValue, LayersIs
  <1> QED
    BY <1>1, OpensOne

\* A back that nobody expects takes the top guard.
LEMMA UserBackIs ==
  ASSUME hist \in History, Counted(hist), hist.travels = 0, hist.depth > 0
  PROVE  /\ Len(hist.guards) \in Nat \ {0}
         /\ Closes(hist, Null) = hist.guards[Len(hist.guards)]
         /\ GoBack(hist) \in History /\ Counted(GoBack(hist))
         /\ Len(GoBack(hist).guards) = Len(hist.guards) - 1
         /\ \A i \in 1..(Len(hist.guards) - 1) : GoBack(hist).guards[i] = hist.guards[i]
  <1> DEFINE n == Len(hist.guards)
             t == SubSeq(hist.guards, 1, n - 1)
  <1>1. /\ hist.guards \in Seq(Names) /\ n \in Nat /\ n > 0 /\ hist.internalBacks = 0
        /\ hist.depth = n /\ hist.guards # <<>>
    BY DEF History, Counted
  <1>2. t \in Seq(Names) /\ Len(t) = n - 1 /\ \A i \in 1..(n - 1) : t[i] = hist.guards[i]
    BY <1>1
  <1>3. Closes(hist, Null) = hist.guards[n]
    BY <1>1 DEF Closes, Last
  <1>4. GoBack(hist) = [[hist EXCEPT !.depth = @ - 1] EXCEPT !.guards = t]
    BY <1>1 DEF GoBack, OnPopState, Front, History
  <1> HIDE DEF t
  <1>5. GoBack(hist) = [guards |-> t, internalBacks |-> hist.internalBacks,
                        depth |-> hist.depth - 1, travels |-> hist.travels]
    BY <1>4 DEF History
  <1>6. hist.internalBacks \in Int /\ hist.depth - 1 \in Int /\ hist.travels \in Int
    BY DEF History
  <1>7. GoBack(hist) \in History /\ GoBack(hist).guards = t
    BY <1>2, <1>5, <1>6 DEF History
  <1>8. Counted(GoBack(hist))
    BY <1>1, <1>2, <1>5, <1>6 DEF Counted
  <1> QED
    BY <1>1, <1>2, <1>3, <1>7, <1>8

\* One the module has asked for is counted off.
LEMMA TravelledIs ==
  ASSUME hist \in History, Counted(hist), hist.travels > 0,
         NEW h, h = GoBack([hist EXCEPT !.travels = @ - 1])
  PROVE  /\ Closes(hist, Null) = Null
         /\ h \in History /\ Counted(h) /\ h.guards = hist.guards
  <1>1. hist.internalBacks > 0
    BY DEF Counted, History
  <1>2. h = [guards |-> hist.guards, internalBacks |-> hist.internalBacks - 1,
             depth |-> hist.depth - 1, travels |-> hist.travels - 1]
    BY <1>1 DEF GoBack, OnPopState, History
  <1>3. /\ hist.guards \in Seq(Names) /\ hist.internalBacks - 1 \in Int
        /\ hist.depth - 1 \in Int /\ hist.travels - 1 \in Int
        /\ Len(hist.guards) \in Nat
    BY DEF History
  <1>4. h \in History
    BY <1>2, <1>3 DEF History
  <1> QED
    BY <1>1, <1>2, <1>3, <1>4 DEF Closes, Counted, History

\* The top is closed: the guards under it stay, and so does what they are for.
LEMMA UserBackHist ==
  ASSUME HistInv, UserBack
  PROVE  HistInv'
  <1> DEFINE n == Len(hist.guards)
             l == hist.guards[n]
  <1>0. Null \notin Names /\ ui \in UiTypes /\ Blank \in UiTypes
        /\ hist.guards \in Seq(Names)
    BY NullIsNoValue DEF HistInv, Blank, UiTypes, Names, History
  <1>1. /\ n \in Nat \ {0} /\ CloseLayer(l)
        /\ hist' \in History /\ Counted(hist') /\ Len(hist'.guards) = n - 1
        /\ \A i \in 1..(n - 1) : hist'.guards[i] = hist.guards[i]
    BY UserBackIs DEF HistInv, UserBack
  <1>2. /\ DOMAIN hist.guards = 1..n /\ DOMAIN hist'.guards = 1..(n - 1) /\ n \in 1..n
        /\ l \in Names
    <2>1. hist'.guards \in Seq(Names)
      BY <1>1 DEF History
    <2>2. n \in DOMAIN hist.guards
      BY <1>0, <1>1
    <2> QED
      BY <1>0, <1>1, <2>1, <2>2
  <1>3. \A m : Contains(hist.guards, m) /\ m # l => Contains(hist'.guards, m)
    <2> TAKE m
    <2> SUFFICES ASSUME Contains(hist.guards, m), m # l PROVE Contains(hist'.guards, m)
      OBVIOUS
    <2>1. PICK i \in 1..n : hist.guards[i] = m
      BY DEF Contains
    <2>2. i \in 1..(n - 1)
      BY <1>1, <2>1
    <2> QED
      BY <1>1, <2>1, <2>2 DEF Contains
  <1>4. \A i \in 1..(n - 1) : Follows(hist.guards[i], l, deep)
    BY <1>1, <1>2 DEF HistInv, Ordered
  <1>5. \A i, j \in 1..(n - 1) : i < j => Follows(hist'.guards[i], hist'.guards[j], deep)
    <2>1. \A i \in 1..(n - 1) : i \in 1..n
      BY <1>1
    <2> QED
      BY <1>1, <1>2, <2>1 DEF HistInv, Ordered
  <1>6. ~Contains(hist.guards, l) => FALSE
    BY <1>2 DEF Contains
  \* What is open beside l has its guard under it.
  <1>7. \A m : Contains(Layers(route, ui), m) /\ m # l /\ m # "box" => Follows(m, l, deep)
    <2> TAKE m
    <2> SUFFICES ASSUME Contains(Layers(route, ui), m), m # l, m # "box" PROVE Follows(m, l, deep)
      OBVIOUS
    <2>1. PICK i \in 1..n : hist.guards[i] = m
      BY DEF HistInv, Covered, Contains
    <2>2. i \in 1..(n - 1)
      BY <1>1, <2>1
    <2> QED
      BY <1>4, <2>1, <2>2
  <1>8. ASSUME NEW r, NEW u \in UiTypes, route' = r, ui' = u, u.date = ui.date \/ u.date = Null,
               \A m : Contains(Layers(r, u), m) => Contains(Layers(route, ui), m) /\ m # l
        PROVE  Covered'
    BY <1>3, <1>8 DEF HistInv, Covered
  <1> HIDE DEF n, l
  <1>9. CASE l = "page"
    <2> DEFINE u == [Blank EXCEPT !.box = ui.box, !.date = ui.date]
    <2>1. route' = "hub" /\ ui' = u /\ deep' = Null
      BY <1>1, <1>9, MoveIs DEF CloseLayer, Overs, Sheets
    <2>u. /\ u \in UiTypes /\ u.section = Null /\ u.sheet = Null /\ u.over = Null
          /\ u.box = ui.box /\ u.date = ui.date
      BY <1>0 DEF UiTypes, Blank
    <2> HIDE DEF u
    <2>2. \A m : Contains(Layers("hub", u), m) => Contains(Layers(route, ui), m) /\ m # l
      <3>1. ui.box # "page" /\ ui.date # "page"
        BY <1>0, NullIsNoValue DEF UiTypes
      <3> QED
        BY <1>0, <1>9, <2>u, <3>1, LayersIs
    <2>3. \A i \in 1..(n - 1) : hist.guards[i] = "section"
      <3>1. \A m : Follows(m, "page", deep) => m = "section"
        BY DEF Follows, Rank
      <3> QED
        BY <1>4, <1>9, <3>1
    <2>4. Ordered(hist'.guards, Null)
      <3>1. ~Follows("section", "section", deep)
        BY DEF Follows, Rank
      <3> QED
        BY <1>1, <1>2, <1>5, <2>3, <3>1 DEF Ordered
    <2> QED
      BY <1>0, <1>1, <1>8, <2>1, <2>u, <2>2, <2>4
      DEF HistInv, OverNotice, OverPage, OverBox, Names, Sheets
  <1>10. CASE l = "section"
    <2> DEFINE u == [ui EXCEPT !.section = Null]
    <2>1. route' = route /\ ui' = u /\ deep' = deep
      BY <1>1, <1>10, MoveIs DEF CloseLayer, Overs, Sheets
    <2>2. /\ u \in UiTypes /\ u.section = Null /\ u.sheet = ui.sheet /\ u.over = ui.over
          /\ u.box = ui.box /\ u.date = ui.date
      BY <1>0 DEF UiTypes
    <2> HIDE DEF u
    <2>3. ui.over = Null
      <3> SUFFICES ASSUME ui.over # Null PROVE FALSE
        OBVIOUS
      <3>1. Contains(Layers(route, ui), ui.over) /\ ui.over \in Overs
        BY <1>0, LayersIs DEF UiTypes
      <3>2. Rank(ui.over) = 4 /\ ui.over # "section" /\ ui.over # "box"
        BY <3>1 DEF Rank, Overs, Sheets
      <3> QED
        BY <1>7, <1>10, <3>1, <3>2 DEF Follows, Rank
    <2>4. \A m : Contains(Layers(route, u), m) => Contains(Layers(route, ui), m) /\ m # l
      <3>1. ui.sheet # "section" /\ ui.over # "section" /\ ui.box # "section" /\ ui.date # "section"
        BY <1>0, NullIsNoValue DEF UiTypes, Sheets, Overs
      <3> QED
        BY <1>0, <1>10, <2>2, <3>1, LayersIs
    <2>5. Ordered(hist'.guards, deep')
      BY <1>2, <1>5, <2>1 DEF Ordered
    <2>6. Covered'
      BY <1>8, <2>1, <2>2, <2>4
    <2> QED
      BY <1>1, <2>1, <2>2, <2>3, <2>5, <2>6 DEF HistInv, OverNotice, OverPage, OverBox
  <1>11. CASE l \in Overs
    <2> DEFINE u == [ui EXCEPT !.over = Null]
    <2>1. route' = route /\ ui' = u /\ deep' = deep
      BY <1>1, <1>11, MoveIs DEF CloseLayer, Overs, Sheets
    <2>2. /\ u \in UiTypes /\ u.section = ui.section /\ u.sheet = ui.sheet /\ u.over = Null
          /\ u.box = ui.box /\ u.date = ui.date
      BY <1>0 DEF UiTypes
    <2> HIDE DEF u
    <2>3. \A m : Contains(Layers(route, u), m) => Contains(Layers(route, ui), m) /\ m # l
      <3>1. l \notin {"page", "section", "box", "date"} /\ (ui.sheet # Null => l # ui.sheet)
        BY <1>0, <1>11 DEF UiTypes, Sheets, Overs
      <3> TAKE m
      <3>3. (m = l => m # "page" /\ m # "section") /\ (m = u.box \/ m = u.date => m # l \/ m = Null)
        BY <1>0, <2>2, <3>1 DEF UiTypes
      <3>4. Contains(Layers(route, u), m) =>
               \/ m = "page" /\ route # "hub"
               \/ m = "section" /\ u.section # Null
               \/ m = u.sheet /\ m # Null
               \/ m = u.box /\ m # Null
               \/ m = u.date /\ m # Null
        BY <2>2, LayersIs
      <3>5. \/ m = "page" /\ route # "hub"
            \/ m = "section" /\ ui.section # Null
            \/ m = ui.sheet /\ m # Null
            \/ m = ui.box /\ m # Null
            \/ m = ui.date /\ m # Null
            => Contains(Layers(route, ui), m)
        BY <1>0, LayersIs
      <3> QED
        BY <2>2, <3>1, <3>3, <3>4, <3>5
    <2>4. Ordered(hist'.guards, deep')
      BY <1>2, <1>5, <2>1 DEF Ordered
    <2>5. Covered'
      BY <1>8, <2>1, <2>2, <2>3
    <2> QED
      BY <1>1, <2>1, <2>2, <2>4, <2>5 DEF HistInv, OverNotice, OverPage, OverBox
  <1>12. CASE l \in Sheets
    <2> DEFINE u == [ui EXCEPT !.sheet = Null, !.over = Null]
    <2>1. route' = route /\ ui' = u /\ deep' = deep
      BY <1>1, <1>12, MoveIs DEF CloseLayer, Overs, Sheets
    <2>2. /\ u \in UiTypes /\ u.section = ui.section /\ u.sheet = Null /\ u.over = Null
          /\ u.box = ui.box /\ u.date = ui.date
      BY <1>0 DEF UiTypes
    <2> HIDE DEF u
    <2>3. \A m : Contains(Layers(route, u), m) => Contains(Layers(route, ui), m) /\ m # l
      <3>1. l \notin {"page", "section", "box", "date"}
        BY <1>12 DEF Sheets
      <3> TAKE m
      <3>3. (m = l => m # "page" /\ m # "section") /\ (m = u.box \/ m = u.date => m # l \/ m = Null)
        BY <1>0, <2>2, <3>1 DEF UiTypes
      <3>4. Contains(Layers(route, u), m) =>
               \/ m = "page" /\ route # "hub"
               \/ m = "section" /\ u.section # Null
               \/ m = u.box /\ m # Null
               \/ m = u.date /\ m # Null
        BY <2>2, LayersIs
      <3>5. \/ m = "page" /\ route # "hub"
            \/ m = "section" /\ ui.section # Null
            \/ m = ui.box /\ m # Null
            \/ m = ui.date /\ m # Null
            => Contains(Layers(route, ui), m)
        BY <1>0, LayersIs
      <3> QED
        BY <2>2, <3>1, <3>3, <3>4, <3>5
    <2>4. Ordered(hist'.guards, deep')
      BY <1>2, <1>5, <2>1 DEF Ordered
    <2>5. Covered'
      BY <1>8, <2>1, <2>2, <2>3
    <2> QED
      BY <1>0, <1>1, <2>1, <2>2, <2>4, <2>5
      DEF HistInv, OverNotice, OverPage, OverBox, Names, Sheets
  <1>13. CASE l \in {"box", "date"}
    <2> DEFINE u == IF l = "box" THEN Unboxed(ui) ELSE [ui EXCEPT !.date = Null]
    <2>1. route' = route /\ ui' = u /\ deep' = deep
      BY <1>1, <1>13, MoveIs DEF CloseLayer, Overs, Sheets
    <2>2. /\ u \in UiTypes /\ u.section = ui.section /\ u.sheet = ui.sheet /\ u.over = ui.over
          /\ u.date = Null /\ (u.box = Null \/ (l # "box" /\ u.box = ui.box))
      BY <1>0 DEF UiTypes, Unboxed
    <2> HIDE DEF u
    <2>3. \A m : Contains(Layers(route, u), m) => Contains(Layers(route, ui), m) /\ m # l
      <3>1. l \notin {"page", "section"} /\ l \notin Sheets /\ l \notin Overs
        BY <1>13 DEF Sheets, Overs
      <3>2. u.box # l \/ u.box = Null
        BY <1>0, <1>13, <2>2 DEF UiTypes
      <3> QED
        BY <1>0, <1>13, <2>2, <3>1, <3>2, LayersIs DEF UiTypes
    <2>4. Ordered(hist'.guards, deep')
      BY <1>2, <1>5, <2>1 DEF Ordered
    <2>5. Covered'
      BY <1>8, <2>1, <2>2, <2>3
    <2>6. Showing' = Showing
      BY <2>1, <2>2 DEF Showing, ScreenAt
    <2> QED
      BY <1>1, <2>1, <2>2, <2>4, <2>5, <2>6 DEF HistInv, OverNotice, OverPage, OverBox
  <1> QED
    BY <1>2, <1>9, <1>10, <1>11, <1>12, <1>13 DEF Names

\* Taps and answers that close something, and what moves the history alone.
LEMMA CloseHist ==
  ASSUME HistInv, Cancel \/ BackArrow \/ UserBack \/ Travelled \/ Effects \/ Arrive
                    \/ BoxOpens
  PROVE  HistInv'
  <1>0. Null \notin Names /\ ui \in UiTypes /\ Blank \in UiTypes
    BY NullIsNoValue DEF HistInv, Blank, UiTypes, Names
  <1>1. ASSUME NEW u \in UiTypes, ui' = u, route' = route, deep' = deep,
               hist' = Rendered(hist, Layers(route, u)), Settled,
               u.section = ui.section \/ u.section = Null,
               u.sheet = ui.sheet \/ (u.sheet = Null /\ u.over = Null),
               u.over = ui.over \/ u.over = Null,
               u.section = ui.section \/ u.over = Null,
               u.box = ui.box \/ u.box = Null, u.date = ui.date \/ u.date = Null,
               u.date # Null => u.box # Null
        PROVE  HistInv'
    <2>1. \A l : Contains(Layers(route, u), l) => Contains(hist.guards, l)
      <3>1. \A l : Contains(Layers(route, u), l) => Contains(Layers(route, ui), l)
        BY <1>0, <1>1, LayersIs
      <3> QED
        BY <1>1, <3>1, SettledIs
    <2>2. hist' \in History /\ Counted(hist') /\ Ordered(hist'.guards, deep') /\ Covered'
      BY <1>1, <2>1, OpensNone
    <2> QED
      BY <1>0, <1>1, <2>2
      DEF HistInv, OverNotice, OverPage, OverBox, Showing, ScreenAt, Names, Sheets
  <1>2. CASE Cancel
    <2>1. ui' = Under(ui) /\ route' = route /\ deep' = deep /\ Settled
          /\ hist' = Rendered(hist, Layers(route, Under(ui)))
      BY <1>2, MoveIs DEF Cancel, Show, Tapped
    <2>2. /\ Under(ui) \in UiTypes /\ Under(ui).section = ui.section
          /\ \/ Under(ui).sheet = ui.sheet
             \/ Under(ui).sheet = Null /\ Under(ui).over = Null
          /\ Under(ui).over = ui.over \/ Under(ui).over = Null
          /\ Under(ui).box = ui.box \/ Under(ui).box = Null
          /\ Under(ui).date = ui.date \/ Under(ui).date = Null
          /\ Under(ui).date # Null => Under(ui).box # Null
      BY <1>0 DEF Under, Unboxed, UiTypes, HistInv, OverBox
    <2> QED
      BY <1>1, <2>1, <2>2
  <1>3. CASE BackArrow
    <2>1. ui' = Blank /\ route' = route /\ deep' = deep /\ Settled
          /\ hist' = Rendered(hist, Layers(route, Blank))
      BY <1>3, MoveIs DEF BackArrow, Show, Tapped
    <2> QED
      BY <1>0, <1>1, <2>1 DEF Blank
  \* The box that has just opened lies over the rest, the date picker not yet in it.
  <1>4. CASE Effects
    <2>1. ui' = ui /\ route' = route /\ deep' = deep /\ hist' = Rendered(hist, Layers(route, ui))
      BY <1>4 DEF Effects
    <2> DEFINE x == IF ui.date = Null THEN "box" ELSE Null
    <2>2. \A l : Contains(Layers(route, ui), l) /\ l # x => Contains(hist.guards, l)
      BY DEF HistInv, Covered
    <2>3. ASSUME NEW l, Contains(Layers(route, ui), l), l # x, Contains(Layers(route, ui), x)
          PROVE  Rank(l) < Rank(x)
      <3>1. x = "box" /\ ui.date = Null
        BY <1>0, <2>3, LayersIs DEF Names
      <3>2. l \in {"page", "section"} \/ l \in Sheets \/ l \in Overs
        BY <1>0, <2>3, <3>1, LayersIs DEF UiTypes
      <3> QED
        BY <3>1, <3>2 DEF Rank, Sheets, Overs
    <2> HIDE DEF x
    <2>4. hist' \in History /\ Counted(hist') /\ Ordered(hist'.guards, deep') /\ Covered'
      BY <1>0, <2>1, <2>2, <2>3, OpensOne
    <2> QED
      BY <2>1, <2>4 DEF HistInv, OverNotice, OverPage, OverBox, Showing, ScreenAt
  <1>5. CASE Travelled
    <2>1. /\ Closes(hist, Null) = Null
          /\ hist' \in History /\ Counted(hist') /\ hist'.guards = hist.guards
      BY <1>5, TravelledIs DEF Travelled, HistInv
    <2>2. CloseLayer(Null)
      BY <1>5, <2>1 DEF Travelled
    <2>3. route' = route /\ ui' = ui /\ deep' = deep
      BY <1>0, <2>2, MoveIs DEF CloseLayer, Names
    <2> QED
      BY <2>1, <2>3 DEF HistInv, Covered, OverNotice, OverPage, OverBox, Showing, ScreenAt
  <1>6. CASE Arrive
    <2>1. route' = route /\ deep' = deep /\ hist' = hist
      BY <1>6 DEF Arrive
    <2>2. PICK c, then : ui' = AfterClose(c, then)
      BY <1>6 DEF Arrive
    <2>3. /\ ui' \in UiTypes /\ ui'.section = ui.section
          /\ ui'.sheet = ui.sheet \/ (ui'.sheet = Null /\ ui'.over = Null)
          /\ ui'.over = ui.over \/ ui'.over = Null
          /\ ui'.box = ui.box \/ (ui'.box = Null /\ ui'.date = Null)
          /\ ui'.date = ui.date \/ ui'.date = Null
      <3>1. \/ ui' = [ui EXCEPT !.sheet = Null, !.over = Null]
            \/ ui' = [ui EXCEPT !.over = Null]
            \/ ui' = Unboxed(ui)
            \/ ui' = ui
        BY <2>2 DEF AfterClose
      <3> QED
        BY <1>0, <3>1 DEF UiTypes, Unboxed
    <2>4. \A l : Contains(Layers(route, ui'), l) => Contains(Layers(route, ui), l)
      BY <1>0, <2>3, LayersIs
    <2>5. Covered'
      BY <2>1, <2>3, <2>4 DEF HistInv, Covered
    <2> QED
      BY <1>0, <2>1, <2>3, <2>5
      DEF HistInv, OverNotice, OverPage, OverBox, Showing, ScreenAt, Names, Sheets
  \* An answer opens the box, which has no guard before its effects.
  <1>7. CASE BoxOpens
    <2>1. /\ route' = route /\ deep' = deep /\ hist' = hist
          /\ ui' = [ui EXCEPT !.box = "box"]
      BY <1>7 DEF BoxOpens
    <2>2. /\ ui' \in UiTypes /\ ui'.section = ui.section /\ ui'.sheet = ui.sheet
          /\ ui'.over = ui.over /\ ui'.box = "box" /\ ui'.date = ui.date
      BY <1>0, <2>1 DEF UiTypes
    <2>3. \A l : Contains(Layers(route, ui'), l) => Contains(Layers(route, ui), l) \/ l = "box"
      BY <1>0, <2>2, LayersIs
    <2>4. ui.date = Null \/ ui.box = "box"
      BY <1>0 DEF HistInv, OverBox, UiTypes
    <2>5. ui.box = "box" => Contains(Layers(route, ui), "box")
      BY <1>0, LayersIs DEF Names
    <2>6. Covered'
      BY <2>1, <2>2, <2>3, <2>4, <2>5 DEF HistInv, Covered
    <2>7. Showing' = Showing /\ Null # "box"
      BY <1>0, <2>1, <2>2 DEF Showing, ScreenAt, Names
    <2> QED
      BY <2>1, <2>2, <2>6, <2>7 DEF HistInv, OverNotice, OverPage, OverBox
  <1> QED
    BY <1>2, <1>3, <1>4, <1>5, <1>6, <1>7, UserBackHist

\* The other actions move nothing.
Moved == <<tour, route, ui, deep, hist>>

LEMMA OthersHist ==
  ASSUME \/ Press \/ TypeBalance \/ TickChange \/ SaveTheAccount \/ OtherSpends
         \/ Search \/ Fail \/ ReaderImports \/ UNCHANGED vars
  PROVE  UNCHANGED Moved
  <1>1. ASSUME NEW h, NEW adj, Start(h, adj) PROVE UNCHANGED Moved
    BY <1>1 DEF Start, Moved, pool
  <1>2. ASSUME NEW f, Edit(f) PROVE UNCHANGED Moved
    BY <1>2 DEF Edit, Moved, pool
  <1>3. ASSUME NEW s, Searching(s) PROVE UNCHANGED Moved
    BY <1>3 DEF Searching, Moved, pool
  <1>4. Press \/ SaveTheAccount => UNCHANGED Moved
    BY <1>1 DEF Press, SaveTheAccount
  <1>5. TypeBalance \/ TickChange => UNCHANGED Moved
    BY <1>2 DEF TypeBalance, TickChange
  <1>6. Search => UNCHANGED Moved
    BY <1>3 DEF Search, TypeQuery, Ask, Found, NotFound
  <1>7. OtherSpends \/ Fail \/ ReaderImports \/ UNCHANGED vars => UNCHANGED Moved
    BY DEF OtherSpends, Fail, ReaderImports, vars, Moved, pool
  <1> QED
    BY <1>4, <1>5, <1>6, <1>7

LEMMA TourStays == [Next]_vars => tour' = tour
  <1>1. \A r, u : Move(r, u) => tour' = tour
    BY DEF Move, pool
  <1>2. Taps \/ Travelled => tour' = tour
    <2>1. \A r, u : Show(r, u) => tour' = tour
      BY <1>1 DEF Show
    <2>2. UserBack \/ Travelled => tour' = tour
      BY <1>1 DEF UserBack, Travelled, CloseLayer
    <2>3. Press => tour' = tour
      BY OthersHist DEF Moved
    <2> QED
      BY <2>1, <2>2, <2>3
      DEF Taps, EnterFromHub, LinkOfDashboard, OpenBell, FromBell, FromBellToRequests,
          FromBellToForm, OpenForm, OpenImport, OpenSection, OpenSheet, OpenPicker, OpenDate,
          Cancel, BackArrow, Nav
  <1>3. OpenAccount \/ Arrive \/ BoxOpens \/ Effects => tour' = tour
    BY DEF OpenAccount, Arrive, BoxOpens, Effects, pool
  <1> QED
    BY <1>2, <1>3, OthersHist DEF Next, Account, Answers, Moved, Taps

\* The history and what is open, from the first state on.
THEOREM HistHolds == Spec => [](HistInv /\ tour \in Tours)
  <1>1. Init => HistInv /\ tour \in Tours
    <2> SUFFICES ASSUME Init PROVE HistInv /\ tour \in Tours
      OBVIOUS
    <2>1. ui = Blank /\ Blank \in UiTypes /\ route = "hub" /\ hist = NoGuards /\ tour \in Tours
      BY DEF Init, Blank, UiTypes
    <2>2. hist \in History /\ hist.guards = <<>> /\ Counted(hist)
      BY <2>1 DEF NoGuards, History, Counted
    <2>3. \A l : ~Contains(Layers(route, ui), l)
      BY <2>1, LayersIs DEF Blank
    <2>4. Ordered(hist.guards, deep)
      BY <2>2 DEF Ordered
    <2> QED
      BY <2>1, <2>2, <2>3, <2>4, NullIsNoValue
      DEF HistInv, Covered, OverNotice, OverPage, OverBox, Blank, Sheets
  <1>2. HistInv /\ tour \in Tours /\ [Next]_vars => (HistInv /\ tour \in Tours)'
    <2> SUFFICES ASSUME HistInv, tour \in Tours, [Next]_vars PROVE HistInv' /\ tour' \in Tours
      OBVIOUS
    <2>1. UNCHANGED Moved => HistInv'
      BY DEF HistInv, Covered, OverNotice, OverPage, OverBox, Showing, ScreenAt, Moved
    <2> QED
      BY <2>1, NavHist, OpenHist, CloseHist, OthersHist, TourStays
      DEF Next, Taps, Account, Answers
  <1> QED
    BY <1>1, <1>2, PTL DEF Spec

\* When the history has caught up each open layer has its guard and its entry.
THEOREM BackWorksHolds == Spec => []BackWorks
  <1>1. HistInv => BackWorks
    <2> SUFFICES ASSUME HistInv, Settled, hist.travels = 0, deep = Null
                 PROVE  /\ hist.guards = Layers(route, ui)
                        /\ hist.depth = Len(hist.guards) /\ hist.internalBacks = 0
      BY DEF BackWorks
    <2>1. hist.guards \in Seq(Names) /\ Layers(route, ui) \in Seq(Names)
          /\ Sorted(Layers(route, ui))
      BY LayersIs DEF HistInv, History
    <2>2. Sorted(hist.guards)
      BY DEF HistInv, Ordered, Follows, Sorted
    <2>3. \A l : Contains(hist.guards, l) <=> Contains(Layers(route, ui), l)
      BY SettledIs
    <2>4. hist.guards = Layers(route, ui)
      BY <2>1, <2>2, <2>3, SortedIsOne
    <2> QED
      BY <2>1, <2>4 DEF HistInv, Counted, History
  <1> QED
    BY <1>1, HistHolds, PTL

-----------------------------------------------------------------------------
\* The handlers of the pages: what they write is read again, shown or left behind.
Calls == {"call", "adjust", "refresh", "reload", "ring"}
Marks == {"close", "shut", "patch", "free", "dirty"}
Flags == {"none", "busy", "busyId", "syncing", "holdingBusy", "smsBusy", "saving", "pendingRial",
          "savingRelation", "bellBusy", "formBusy", "importBusy"}
Steps == [do: Calls, then: SUBSET Marks]
Handlers == [flag: Flags, writes: SUBSET Data, leaves: SUBSET {"family", "bell"},
             steps: Seq(Steps), recover: Seq(Steps)]

Writes(do) == do \in {"call", "adjust"}
Reads(do) ==
  {d \in {"family"} : do = "refresh"} \cup {d \in {"bell"} : do = "ring"}
    \cup {d \in {"own"} : do = "reload"}

\* What a step writes of w is in the answer, read by a later one, or noted as due.
Covers(w, todo, j) ==
  \A d \in w :
    \/ "patch" \in todo[j].then
    \/ \E k \in DOMAIN todo : k > j /\ d \in Reads(todo[k].do)
    \/ d = "family" /\ "dirty" \in todo[j].then

Serves(w, l, todo) ==
  /\ \A j \in DOMAIN todo : Writes(todo[j].do) => Covers(w \ l, todo, j)
  /\ "own" \in w => \A j \in DOMAIN todo : j > 1 => ~Writes(todo[j].do)
  /\ \A j \in DOMAIN todo : "dirty" \in todo[j].then => todo = <<Await("call", {"dirty"})>>

\* A list of its own is written or read.
Touches(w, todo) == "own" \in w \/ \E k \in DOMAIN todo : todo[k].do = "reload"

Fits(w, l, todo) == todo \in Seq(Steps) /\ todo # <<>> /\ Serves(w, l, todo)

Good(h) ==
  /\ h \in Handlers /\ Fits(h.writes, h.leaves, h.steps)
Private(h) == ~Touches(h.writes, h.steps)

LEMMA OneStep ==
  ASSUME NEW a \in Steps, NEW w, NEW l,
         Writes(a.do) /\ w \ l # {} => "patch" \in a.then \/ (a = Await("call", {"dirty"}) /\ w = {"family"}),
         "dirty" \in a.then => a = Await("call", {"dirty"})
  PROVE  /\ Fits(w, l, <<a>>)
         /\ "own" \notin w /\ a.do # "reload" => ~Touches(w, <<a>>)
  <1> DEFINE t == <<a>>
  <1>1. t \in Seq(Steps) /\ t # <<>> /\ DOMAIN t = {1} /\ t[1] = a
    OBVIOUS
  <1>2. t = <<Await("call", {"dirty"})>> <=> a = Await("call", {"dirty"})
    OBVIOUS
  <1> HIDE DEF t
  <1>3. Writes(a.do) => Covers(w \ l, t, 1)
    BY <1>1 DEF Covers, Await
  <1>4. Serves(w, l, t)
    BY <1>1, <1>2, <1>3 DEF Serves
  <1> QED
    BY <1>1, <1>4 DEF Fits, Touches, t

LEMMA TwoSteps ==
  ASSUME NEW a \in Steps, NEW b \in Steps, NEW w, NEW l,
         "dirty" \notin a.then, "dirty" \notin b.then,
         Writes(a.do) => "patch" \in a.then \/ w \ l \subseteq Reads(b.do),
         Writes(b.do) => "own" \notin w /\ w \ l = {}
  PROVE  /\ Fits(w, l, <<a, b>>)
         /\ "own" \notin w /\ a.do # "reload" /\ b.do # "reload" => ~Touches(w, <<a, b>>)
  <1> DEFINE t == <<a, b>>
  <1>1. t \in Seq(Steps) /\ t # <<>> /\ DOMAIN t = {1, 2} /\ t[1] = a /\ t[2] = b
    OBVIOUS
  <1> HIDE DEF t
  <1>3. Writes(a.do) => Covers(w \ l, t, 1)
    BY <1>1 DEF Covers
  <1>4. Writes(b.do) => Covers(w \ l, t, 2)
    BY DEF Covers
  <1>5. Serves(w, l, t)
    BY <1>1, <1>3, <1>4 DEF Serves
  <1> QED
    BY <1>1, <1>5 DEF Fits, Touches, t

LEMMA ThreeSteps ==
  ASSUME NEW a \in Steps, NEW b \in Steps, NEW c \in Steps, NEW w \in SUBSET {"family"}, NEW l,
         "dirty" \notin a.then, "dirty" \notin b.then, "dirty" \notin c.then,
         w = {} \/ c.do = "refresh", ~Writes(c.do)
  PROVE  /\ Fits(w, l, <<a, b, c>>)
         /\ "reload" \notin {a.do, b.do, c.do} => ~Touches(w, <<a, b, c>>)
  <1> DEFINE t == <<a, b, c>>
  <1>1. t \in Seq(Steps) /\ t # <<>> /\ DOMAIN t = {1, 2, 3}
        /\ t[1] = a /\ t[2] = b /\ t[3] = c
    OBVIOUS
  <1> HIDE DEF t
  <1>2. \A j \in {1, 2} : Covers(w \ l, t, j)
    <2> SUFFICES ASSUME NEW j \in {1, 2}, NEW d \in w \ l
                 PROVE  \E k \in DOMAIN t : k > j /\ d \in Reads(t[k].do)
      BY DEF Covers
    <2>1. 3 \in DOMAIN t /\ 3 > j /\ d \in Reads(t[3].do)
      BY <1>1 DEF Reads
    <2> QED
      BY <2>1
  <1>3. Serves(w, l, t)
    BY <1>1, <1>2 DEF Serves
  <1> QED
    BY <1>1, <1>3 DEF Fits, Touches, t

LEMMA HandlerIs ==
  ASSUME NEW flag \in Flags, NEW w \in SUBSET Data, NEW steps, Fits(w, {}, steps)
  PROVE  /\ Good(Handler(flag, w, steps))
         /\ ~Touches(w, steps) => Private(Handler(flag, w, steps))
  BY DEF Good, Private, Handler, Handlers, Fits

LEMMA AwaitIs ==
  ASSUME NEW do \in Calls, NEW then \in SUBSET Marks
  PROVE  Await(do, then) \in Steps /\ Await(do, then).do = do /\ Await(do, then).then = then
  BY DEF Await, Steps

\* The three shapes that refresh the family.
LEMMA RefreshShapes ==
  ASSUME NEW flag \in Flags, NEW steps \in {RefreshThenClose, CloseThenRefresh, CallThenRefresh}
  PROVE  Good(Handler(flag, {"family"}, steps)) /\ Private(Handler(flag, {"family"}, steps))
  <1>1. \A t1, t2 \in {{}, {"close"}} :
          /\ Fits({"family"}, {}, <<Await("call", t1), Await("refresh", t2)>>)
          /\ ~Touches({"family"}, <<Await("call", t1), Await("refresh", t2)>>)
    <2> TAKE t1, t2 \in {{}, {"close"}}
    <2> DEFINE a == Await("call", t1)
               b == Await("refresh", t2)
    <2>1. /\ t1 \in SUBSET Marks /\ t2 \in SUBSET Marks /\ "call" \in Calls /\ "refresh" \in Calls
          /\ "dirty" \notin t1 /\ "dirty" \notin t2
      BY DEF Marks, Calls
    <2>2. a \in Steps /\ b \in Steps /\ a.do = "call" /\ b.do = "refresh"
          /\ "dirty" \notin a.then /\ "dirty" \notin b.then
      BY <2>1, AwaitIs
    <2> HIDE DEF a, b
    <2>3. Writes(b.do) => FALSE
      BY <2>2 DEF Writes
    <2>4. {"family"} \ {} \subseteq Reads(b.do)
      BY <2>2 DEF Reads
    <2>5. Fits({"family"}, {}, <<a, b>>) /\ ~Touches({"family"}, <<a, b>>)
      BY <2>2, <2>3, <2>4, TwoSteps
    <2> QED
      BY <2>5 DEF a, b
  <1>2. Fits({"family"}, {}, steps) /\ ~Touches({"family"}, steps)
    BY <1>1 DEF RefreshThenClose, CloseThenRefresh, CallThenRefresh
  <1> QED
    BY <1>2, HandlerIs DEF Data

\* The answer itself is shown.
LEMMA PatchShape ==
  ASSUME NEW flag \in Flags, NEW w \in SUBSET Data, NEW t \in {{}, {"close"}}
  PROVE  /\ Good(Handler(flag, w, CallThenPatch(t)))
         /\ "own" \notin w => Private(Handler(flag, w, CallThenPatch(t)))
  <1> DEFINE a == Await("call", {"patch"} \cup t)
  <1>1. {"patch"} \cup t \in SUBSET Marks
    BY DEF Marks
  <1>2. a \in Steps /\ a.do = "call" /\ "patch" \in a.then /\ "dirty" \notin a.then
    BY <1>1, AwaitIs DEF Calls
  <1>3. CallThenPatch(t) = <<a>>
    BY DEF CallThenPatch
  <1> HIDE DEF a
  <1>4. Fits(w, {}, <<a>>) /\ ("own" \notin w => ~Touches(w, <<a>>))
    <2> DEFINE l == {}
    <2>1. Writes(a.do) /\ w \ l # {} =>
            "patch" \in a.then \/ (a = Await("call", {"dirty"}) /\ w = {"family"})
      BY <1>2
    <2>2. "dirty" \in a.then => a = Await("call", {"dirty"})
      BY <1>2
    <2>3. a.do # "reload"
      BY <1>2
    <2> HIDE DEF l
    <2>4. Fits(w, l, <<a>>) /\ ("own" \notin w /\ a.do # "reload" => ~Touches(w, <<a>>))
      BY <1>2, <2>1, <2>2, OneStep
    <2> QED
      BY <2>3, <2>4 DEF l
  <1> QED
    BY <1>3, <1>4, HandlerIs

\* Those of three steps.
LEMMA ThreeShape ==
  ASSUME NEW flag \in Flags, NEW w \in SUBSET {"family"},
         NEW d1 \in Calls, NEW d2 \in Calls, NEW d3 \in Calls,
         NEW t1 \in SUBSET {"close", "shut", "free"}, NEW t2 \in SUBSET {"close", "shut", "free"},
         NEW t3 \in SUBSET {"close", "shut", "free"},
         w = {} \/ d3 = "refresh", ~Writes(d3), "reload" \notin {d1, d2, d3}
  PROVE  LET h == Handler(flag, w, <<Await(d1, t1), Await(d2, t2), Await(d3, t3)>>)
         IN  Good(h) /\ Private(h)
  <1> DEFINE a == Await(d1, t1)
             b == Await(d2, t2)
             c == Await(d3, t3)
  <1>1. t1 \in SUBSET Marks /\ t2 \in SUBSET Marks /\ t3 \in SUBSET Marks
    BY DEF Marks
  <1>2. /\ a \in Steps /\ b \in Steps /\ c \in Steps
        /\ a.do = d1 /\ b.do = d2 /\ c.do = d3
        /\ a.then = t1 /\ b.then = t2 /\ c.then = t3
    BY <1>1, AwaitIs
  <1> HIDE DEF a, b, c
  <1>3. Fits(w, {}, <<a, b, c>>) /\ ~Touches(w, <<a, b, c>>)
    BY <1>2, ThreeSteps
  <1>4. w \in SUBSET Data
    BY DEF Data
  <1> QED
    BY <1>3, <1>4, HandlerIs DEF a, b, c

\* The handlers of a holding, of SavePrefs, and those of the shell.
LEMMA ReloadIs ==
  /\ Good(RunHolding) /\ Good(RemoveHolding)
  /\ Good(Reload) /\ Good(Refresh) /\ Private(Refresh)
  /\ Good(SavePrefs) /\ Private(SavePrefs)
  /\ Good(ImportedByReader) /\ Private(ImportedByReader)
  /\ Good(ToggleSms) /\ Private(ToggleSms)
  <1>1. ASSUME NEW flag \in Flags, NEW w \in SUBSET Data, NEW d1 \in Calls, NEW d2 \in Calls,
               NEW t1 \in SUBSET {"close", "free"}, NEW t2 \in SUBSET {"close", "free"},
               w \subseteq Reads(d2), ~Writes(d2)
        PROVE  LET h == Handler(flag, w, <<Await(d1, t1), Await(d2, t2)>>)
               IN  Good(h) /\ ("own" \notin w /\ d1 # "reload" /\ d2 # "reload" => Private(h))
    <2> DEFINE a == Await(d1, t1)
               b == Await(d2, t2)
    <2>1. t1 \in SUBSET Marks /\ t2 \in SUBSET Marks
      BY DEF Marks
    <2>2. /\ a \in Steps /\ b \in Steps /\ a.do = d1 /\ b.do = d2
          /\ "dirty" \notin a.then /\ "dirty" \notin b.then
      BY <2>1, AwaitIs
    <2> HIDE DEF a, b
    <2>3. /\ Fits(w, {}, <<a, b>>)
          /\ "own" \notin w /\ d1 # "reload" /\ d2 # "reload" => ~Touches(w, <<a, b>>)
      BY <1>1, <2>2, TwoSteps
    <2> QED
      BY <2>3, HandlerIs DEF a, b
  <1>2. /\ {"own"} \in SUBSET Data /\ {"bell"} \in SUBSET Data /\ {} \in SUBSET Data
        /\ {"own"} \subseteq Reads("reload") /\ {"bell"} \subseteq Reads("ring")
        /\ ~Writes("reload") /\ ~Writes("ring") /\ ~Writes("refresh")
        /\ {} \in SUBSET {"close", "free"} /\ {"close"} \in SUBSET {"close", "free"}
        /\ {"free"} \in SUBSET {"close", "free"}
    BY DEF Data, Reads, Writes
  <1>3. Good(RunHolding) /\ Good(RemoveHolding)
    BY <1>1, <1>2 DEF RunHolding, RemoveHolding, Calls, Flags
  <1>4. Good(SavePrefs) /\ Private(SavePrefs)
    BY <1>1, <1>2 DEF SavePrefs, Calls, Flags
  <1>5. Good(ImportedByReader) /\ Private(ImportedByReader)
    BY <1>1, <1>2 DEF ImportedByReader, Calls, Flags
  <1>6. ASSUME NEW d \in {"refresh", "reload"}
        PROVE  LET h == Handler("none", {}, <<Await(d, {})>>)
               IN  Good(h) /\ (d # "reload" => Private(h))
    <2> DEFINE a == Await(d, {})
    <2>1. a \in Steps /\ a.do = d /\ "dirty" \notin a.then
      BY AwaitIs DEF Calls, Marks
    <2> HIDE DEF a
    <2>2. Fits({}, {}, <<a>>) /\ (d # "reload" => ~Touches({}, <<a>>))
      BY <2>1, OneStep
    <2> QED
      BY <1>2, <2>2, HandlerIs DEF a, Flags
  <1>7. Good(Reload) /\ Good(Refresh) /\ Private(Refresh)
    BY <1>6 DEF Reload, Refresh
  <1>8. Good(ToggleSms) /\ Private(ToggleSms)
    <2> DEFINE a == Await("call", {"dirty"})
    <2>1. a \in Steps /\ a.do = "call"
      BY AwaitIs DEF Calls, Marks
    <2>2. Fits({"family"}, {}, <<a>>) /\ ~Touches({"family"}, <<a>>)
      BY <2>1, OneStep
    <2> QED
      BY <2>2, HandlerIs DEF a, ToggleSms, Data, Flags
  <1> QED
    BY <1>3, <1>4, <1>5, <1>7, <1>8

\* Those that leave something behind, or recover from a failure.
LEMMA SpecialIs ==
  /\ Good(SaveProfile) /\ Private(SaveProfile)
  /\ Good(Dismiss) /\ Private(Dismiss)
  /\ Good(ResetAccount) /\ Good(Decide)
  <1> DEFINE p == Await("call", {"patch"})
             c == Await("call", {})
             r == Await("refresh", {})
             o == Await("reload", {})
             g == Await("ring", {})
  <1>1. /\ p \in Steps /\ c \in Steps /\ r \in Steps /\ o \in Steps /\ g \in Steps
        /\ p.do = "call" /\ c.do = "call" /\ r.do = "refresh"
        /\ p.then = {"patch"} /\ c.then = {} /\ r.then = {}
    BY AwaitIs DEF Calls, Marks
  <1> DEFINE pc == <<p, c>>
             pr == <<p, r>>
  <1> HIDE DEF p, c, r, o, g
  <1>2. Fits({"family"}, {"family"}, pc) /\ ~Touches({"family"}, pc)
    BY <1>1, TwoSteps
  <1>3. Fits({"bell"}, {"bell"}, <<p>>) /\ ~Touches({"bell"}, <<p>>)
    BY <1>1, OneStep
  <1>4. \A w, l : Fits(w, l, pr)
    BY <1>1, TwoSteps DEF Writes
  <1>5. <<g>> \in Seq(Steps) /\ <<o>> \in Seq(Steps) /\ <<>> \in Seq(Steps)
    BY <1>1
  <1> HIDE DEF pc, pr
  <1>6. Good(SaveProfile) /\ Private(SaveProfile)
    <2> DEFINE h == Handler("busy", {"family"}, pc)
    <2>1. SaveProfile = [h EXCEPT !.leaves = {"family"}]
      BY DEF SaveProfile, p, c, pc
    <2>2. h = [flag |-> "busy", writes |-> {"family"}, leaves |-> {}, steps |-> pc,
               recover |-> <<>>]
      BY DEF Handler
    <2> HIDE DEF h
    <2>3. SaveProfile = [flag |-> "busy", writes |-> {"family"}, leaves |-> {"family"},
                         steps |-> pc, recover |-> <<>>]
      BY <2>1, <2>2
    <2> QED
      BY <1>2, <1>5, <2>3 DEF Good, Private, Handlers, Data, Fits, Flags
  <1>7. Good(Dismiss) /\ Private(Dismiss)
    <2> DEFINE h == Handler("bellBusy", {"bell"}, <<p>>)
    <2>1. Dismiss = [[h EXCEPT !.leaves = {"bell"}] EXCEPT !.recover = <<g>>]
      BY DEF Dismiss, p, g
    <2>2. h = [flag |-> "bellBusy", writes |-> {"bell"}, leaves |-> {}, steps |-> <<p>>,
               recover |-> <<>>]
      BY DEF Handler
    <2> HIDE DEF h
    <2>3. Dismiss = [flag |-> "bellBusy", writes |-> {"bell"}, leaves |-> {"bell"},
                     steps |-> <<p>>, recover |-> <<g>>]
      BY <2>1, <2>2
    <2> QED
      BY <1>3, <1>5, <2>3 DEF Good, Private, Handlers, Data, Fits, Flags
  <1>8. Good(ResetAccount)
    <2>1. ResetAccount = [flag |-> "busyId", writes |-> {"family", "own"}, leaves |-> {},
                          steps |-> pr, recover |-> <<>>]
      BY DEF ResetAccount, Handler, p, r, pr
    <2> QED
      BY <1>4, <1>5, <2>1 DEF Good, Handlers, Data, Fits, Flags
  <1>9. Good(Decide)
    <2> DEFINE w == {"family", "own", "bell"}
               h == Handler("busyId", w, pr)
    <2>1. Decide = [[h EXCEPT !.leaves = {"bell"}] EXCEPT !.recover = <<o>>]
      BY DEF Decide, p, r, o, pr
    <2>2. h = [flag |-> "busyId", writes |-> w, leaves |-> {}, steps |-> pr, recover |-> <<>>]
      BY DEF Handler
    <2>3. w \in SUBSET Data
      BY DEF Data
    <2> HIDE DEF h, w
    <2>4. Decide = [flag |-> "busyId", writes |-> w, leaves |-> {"bell"}, steps |-> pr,
                    recover |-> <<o>>]
      BY <2>1, <2>2
    <2> QED
      BY <1>4, <1>5, <2>3, <2>4 DEF Good, Handlers, Fits, Flags
  <1> QED
    BY <1>6, <1>7, <1>8, <1>9

GoodScreen(s) == \A h \in s.page \cup s.sheet : Good(h)

LEMMA FamilyInThree ==
  ASSUME NEW do \in {"call", "adjust"}
  PROVE  LET h == Handler("busy", {"family"},
                          <<Await("call", {}), Await(do, {"close"}), Await("refresh", {})>>)
         IN  Good(h) /\ Private(h)
  <1>1. /\ "busy" \in Flags /\ {"family"} \in SUBSET {"family"}
        /\ {} \in SUBSET {"close", "shut", "free"} /\ {"close"} \in SUBSET {"close", "shut", "free"}
        /\ "call" \in Calls /\ do \in Calls /\ "refresh" \in Calls /\ ~Writes("refresh")
        /\ "reload" \notin {"call", do, "refresh"}
    BY DEF Flags, Calls, Writes
  <1> DEFINE w == {"family"}
             t1 == {}
             t2 == {"close"}
  <1>2. w = {} \/ "refresh" = "refresh"
    OBVIOUS
  <1> HIDE DEF w, t1, t2
  <1>3. w \in SUBSET {"family"} /\ t1 \in SUBSET {"close", "shut", "free"}
        /\ t2 \in SUBSET {"close", "shut", "free"}
    BY <1>1 DEF w, t1, t2
  <1>4. LET h == Handler("busy", w, <<Await("call", t1), Await(do, t2), Await("refresh", t1)>>)
        IN  Good(h) /\ Private(h)
    BY <1>1, <1>2, <1>3, ThreeShape
  <1> QED
    BY <1>4 DEF w, t1, t2

LEMMA PagesAreGood ==
  /\ \A r \in DOMAIN PageOf : GoodScreen(PageOf[r])
  /\ \A h \in PageOf["settings"].page \cup PageOf["settings"].sheet : Private(h)
  /\ ~PageOf["settings"].own
  <1>0. /\ "busy" \in Flags /\ "none" \in Flags /\ "syncing" \in Flags /\ "saving" \in Flags
        /\ "pendingRial" \in Flags
    BY DEF Flags
  <1>1. GoodScreen(InventoryPage)
    BY <1>0, RefreshShapes
    DEF GoodScreen, Screen, InventoryPage, InventoryRow, InventorySheet, AddToSheet, InventorySave,
        InventoryStep, InventoryRemove, InventoryAddTo
  <1>2. GoodScreen(BillsPage)
    BY <1>0, RefreshShapes
    DEF GoodScreen, Screen, BillsPage, BillRow, BillSheet, PaySheet, BillSave, BillRemove, ConfirmPay,
        BillUndo, CancelBill
  <1>3. GoodScreen(ShoppingPage)
    BY <1>0, RefreshShapes
    DEF GoodScreen, Screen, ShoppingPage, ActiveList, ShoppingRow, ListSheet, ItemSheet, TripSheet,
        SaveList, RemoveList, QuickAdd, SaveItem, ToggleItem, RemoveItem, ConfirmTrip
  <1>4. GoodScreen(CalendarPage)
    BY <1>0, RefreshShapes
    DEF GoodScreen, Screen, CalendarPage, EventSheet, EventRow, AddEvent, RemoveEvent, SyncBirthdays
  <1>5. GoodScreen(BudgetsPage)
    <2>1. Good(RaiseCapAndSave)
      <3>1. RaiseCapAndSave = Handler("busy", {"family"},
              <<Await("call", {}), Await("call", {"close"}), Await("refresh", {})>>)
        <4>1. ASSUME NEW x, NEW y, NEW z PROVE <<x>> \o <<y, z>> = <<x, y, z>>
          <5> DEFINE S == {x, y, z}
                     c == <<x>> \o <<y, z>>
                     t == <<x, y, z>>
          <5>1. <<x>> \in Seq(S) /\ <<y, z>> \in Seq(S) /\ Len(<<x>>) = 1 /\ Len(<<y, z>>) = 2
            OBVIOUS
          <5>2. /\ c \in Seq(S) /\ Len(c) = 3
                /\ c[1] = x /\ c[2] = y /\ c[3] = z
            BY <5>1, ConcatProperties
          <5>3. t \in Seq(S) /\ Len(t) = 3 /\ t[1] = x /\ t[2] = y /\ t[3] = z
            OBVIOUS
          <5> HIDE DEF S, c, t
          <5>4. Len(c) = Len(t) /\ \A i \in 1..Len(c) : c[i] = t[i]
            BY <5>2, <5>3
          <5>5. c = t
            BY <5>2, <5>3, <5>4, SeqEqual
          <5> QED
            BY <5>5 DEF c, t
        <4> QED
          BY <4>1 DEF RaiseCapAndSave, CloseThenRefresh
      <3> QED
        BY <1>0, <3>1, FamilyInThree
    <2> QED
      BY <1>0, <2>1, RefreshShapes
      DEF GoodScreen, Screen, BudgetsPage, BudgetSummary, BudgetSheet, Persist, SyncCapToSum, RemoveBudget
  <1>6. GoodScreen(MarketPage)
    BY DEF GoodScreen, Screen, MarketPage
  <1>7. GoodScreen(AccountsPage)
    BY <1>0, RefreshShapes, ReloadIs
    DEF GoodScreen, Screen, AccountsPage, RemoveAccount, HoldingsCard, HoldingSheet
  <1>8. GoodScreen(SettingsPage) /\ ~SettingsPage.own
        /\ \A h \in SettingsPage.page \cup SettingsPage.sheet : Private(h)
    BY <1>0, RefreshShapes, PatchShape
    DEF GoodScreen, Screen, SettingsPage, MonthlyBudgetSheet, SaveBudget, ToggleRial
  <1>9. GoodScreen(NoButtons)
    BY DEF GoodScreen, Screen, NoButtons
  <1>10. \A r \in DOMAIN PageOf :
           PageOf[r] \in {InventoryPage, BillsPage, ShoppingPage, CalendarPage, BudgetsPage,
                          MarketPage, AccountsPage, SettingsPage, NoButtons}
    BY DEF PageOf, HubPage, DashboardPage, TransactionsPage, ReportsPage
  <1>11. PageOf["settings"] = SettingsPage
    BY DEF PageOf
  <1> QED
    BY <1>1, <1>2, <1>3, <1>4, <1>5, <1>6, <1>7, <1>8, <1>9, <1>10, <1>11

LEMMA SectionsAreGood == \A x \in DOMAIN SectionOf : GoodScreen(SectionOf[x])
  <1>0. /\ "busy" \in Flags /\ "none" \in Flags /\ "busyId" \in Flags
        /\ "savingRelation" \in Flags
    BY DEF Flags
  <1>1. GoodScreen(ProfileCard)
    BY <1>0, SpecialIs, PatchShape DEF GoodScreen, Screen, ProfileCard, SaveOwnRelation
  <1>2. GoodScreen(MembersCard)
    <2>1. {"family"} \in SUBSET Data
      BY DEF Data
    <2> QED
      BY <1>0, <2>1, RefreshShapes, PatchShape
      DEF GoodScreen, Screen, MembersCard, RelationSheet, MemberSheet, SaveRelation, AddMember
  <1>3. GoodScreen(JoinRequests)
    BY SpecialIs DEF GoodScreen, Screen, JoinRequests
  <1>4. GoodScreen(EventsCard)
    BY <1>0, RefreshShapes
    DEF GoodScreen, Screen, EventsCard, CardEventSheet, CardAddEvent, CardRemoveEvent
  <1>5. GoodScreen(AccountsPage)
    BY PagesAreGood DEF PageOf
  <1>6. GoodScreen(ScheduledTxsCard)
    BY <1>0, RefreshShapes
    DEF GoodScreen, Screen, ScheduledTxsCard, ScheduledSheet, SaveScheduled, RemoveScheduled
  <1>7. GoodScreen(CategoriesCard)
    BY <1>0, RefreshShapes
    DEF GoodScreen, Screen, CategoriesCard, AddCategory, RemoveCategory
  <1>8. GoodScreen(LabelsCard)
    BY <1>0, RefreshShapes DEF GoodScreen, Screen, LabelsCard, AddLabel, RemoveLabel
  <1>9. GoodScreen(SmsSection)
    <2>1. {"own"} \in SUBSET Data /\ {} \in SUBSET Data
      BY DEF Data
    <2>2. \A h \in SenderSheet \cup NumberSheet : Good(h)
      BY <1>0, <2>1, PatchShape DEF SenderSheet, NumberSheet, AddSender, AddNumber
    <2>3. \A h \in SmsNumberRow \cup SmsBridgeCard : Good(h)
      BY <1>0, <2>1, PatchShape
      DEF SmsNumberRow, SmsBridgeCard, ToggleNumber, RemoveNumber, CreateBridge
    <2>4. \A h \in SmsAccountRow : Good(h)
      BY <1>0, <2>1, PatchShape, RefreshShapes, SpecialIs
      DEF SmsAccountRow, ToggleAccount, RemoveSender
    <2> QED
      BY <2>2, <2>3, <2>4 DEF GoodScreen, Screen, SmsSection
  <1>10. GoodScreen(NotificationSettings)
    BY ReloadIs DEF GoodScreen, Screen, NotificationSettings
  <1>11. GoodScreen(PriceGrid)
    BY ReloadIs DEF GoodScreen, Screen, PriceGrid, HoldingSheet
  <1>12. GoodScreen(NoButtons)
    BY DEF GoodScreen, Screen, NoButtons
  <1>13. \A x \in DOMAIN SectionOf :
           SectionOf[x] \in {ProfileCard, MembersCard, JoinRequests, EventsCard, AccountsPage,
                             ScheduledTxsCard, CategoriesCard, LabelsCard, SmsSection,
                             NotificationSettings, PriceGrid, NoButtons}
    BY DEF SectionOf, StockSearch
  <1> QED
    BY <1>1, <1>2, <1>3, <1>4, <1>5, <1>6, <1>7, <1>8, <1>9, <1>10, <1>11, <1>12, <1>13

\* The handlers of the box of unregistered messages.
LEMMA BoxIsGood == \A h \in PendingBox : Good(h) /\ Private(h)
  <1>0. "none" \in Flags /\ {} \in SUBSET Data /\ "own" \notin {}
    BY DEF Flags
  <1>1. /\ Good(RecordMessage) /\ Private(RecordMessage)
        /\ Good(RecordLast) /\ Private(RecordLast)
    BY <1>0, RefreshShapes DEF RecordMessage, RecordLast
  <1>2. /\ Good(IgnoreMessage) /\ Private(IgnoreMessage)
        /\ Good(IgnoreLast) /\ Private(IgnoreLast)
    BY <1>0, PatchShape DEF IgnoreMessage, IgnoreLast
  <1> QED
    BY <1>1, <1>2 DEF PendingBox

\* The handlers of the sheets the app itself holds.
LEMMA ShellIsGood ==
  /\ Good(SaveForm) /\ Private(SaveForm) /\ Good(SaveImport) /\ Private(SaveImport)
  /\ Good(SaveAccount) /\ Private(SaveAccount)
  /\ Good(AdjustAccount) /\ Private(AdjustAccount)
  <1>0. "busy" \in Flags /\ "formBusy" \in Flags /\ "importBusy" \in Flags
    BY DEF Flags
  <1>1. /\ Good(SaveForm) /\ Private(SaveForm)
        /\ Good(SaveAccount) /\ Private(SaveAccount)
    BY <1>0, RefreshShapes DEF SaveForm, SaveAccount
  <1>2. Good(SaveImport) /\ Private(SaveImport)
    BY <1>0, ThreeShape DEF SaveImport, Calls, Writes
  <1>3. Good(AdjustAccount) /\ Private(AdjustAccount)
    BY FamilyInThree DEF AdjustAccount
  <1> QED
    BY <1>1, <1>2, <1>3

-----------------------------------------------------------------------------
\* What moves, and where to.
OverImport == ui.over = "import" => ui.sheet = "form"

\* No form of an account is left open by a move that takes its page away.
MovesWell(r, u) ==
  /\ u \in UiTypes /\ r \in DOMAIN PageOf /\ Move(r, u)
  /\ r # route => u.section = Null \/ r = "settings"
  /\ Remounts(r, u) => ui.sheet # "account"
  /\ u.sheet = "account" => ui.sheet = "account"
  /\ u.over = "import" => u.sheet = "form"

\* A page or a section is on top only when nothing is open over it.
LEMMA TopIs ==
  ASSUME HistInv, UserBack, NEW l, l = Closes(hist, Null)
  PROVE  l \in Names /\ (l = "page" \/ l = "section" => ui.sheet = Null)
  <1> DEFINE n == Len(hist.guards)
  <1>0. Null \notin Names /\ ui \in UiTypes /\ hist.guards \in Seq(Names)
    BY NullIsNoValue DEF HistInv, Names, History
  <1>1. n \in Nat \ {0} /\ l = hist.guards[n]
    BY UserBackIs DEF HistInv, UserBack
  <1>2. DOMAIN hist.guards = 1..n /\ n \in 1..n /\ l \in Names
    <2>1. n \in DOMAIN hist.guards
      BY <1>0, <1>1
    <2> QED
      BY <1>0, <1>1, <2>1
  <1>3. ASSUME l = "page" \/ l = "section", ui.sheet # Null PROVE FALSE
    <2>1. Contains(Layers(route, ui), ui.sheet) /\ ui.sheet \in Sheets
      BY <1>0, <1>3, LayersIs DEF UiTypes
    <2>2. PICK i \in 1..n : hist.guards[i] = ui.sheet
      BY <2>1 DEF HistInv, Covered, Contains, Sheets
    <2>3. Rank(ui.sheet) = 3 /\ ui.sheet # l /\ ui.sheet # "section"
      BY <1>3, <2>1 DEF Rank, Sheets
    <2>4. i < n
      BY <1>1, <2>2, <2>3
    <2>5. Follows(ui.sheet, l, deep)
      BY <1>1, <1>2, <2>2, <2>4 DEF HistInv, Ordered
    <2> QED
      BY <1>3, <2>3, <2>5 DEF Follows, Rank
  <1> QED
    BY <1>2, <1>3

Moving ==
  \/ EnterFromHub \/ LinkOfDashboard \/ OpenBell \/ FromBell \/ FromBellToRequests
  \/ FromBellToForm \/ OpenForm \/ OpenImport \/ OpenSection \/ OpenSheet \/ OpenPicker
  \/ OpenDate \/ Cancel \/ BackArrow \/ UserBack \/ Travelled

LEMMA Moves ==
  ASSUME HistInv, tour \in Tours, route \in DOMAIN PageOf, OverImport, Moving
  PROVE  \E r, u : MovesWell(r, u)
  <1>0. Null \notin Names /\ Null # "joinRequests" /\ Blank \in UiTypes /\ ui \in UiTypes
        /\ "joinRequests" \in DOMAIN SectionOf /\ Null # "import"
        /\ "hub" \in DOMAIN PageOf
    BY NullIsNoValue DEF SectionOf, Blank, UiTypes, Names, HistInv, PageOf, Overs
  <1>1. tour.pages \subseteq DOMAIN PageOf /\ tour.section \in DOMAIN SectionOf \cup {Null}
    BY ToursAssumption
  <1>2. ASSUME NEW r \in DOMAIN PageOf, Move(r, Blank), ui.sheet # "account"
        PROVE  MovesWell(r, Blank)
    BY <1>0, <1>2 DEF MovesWell, Blank, Names, Sheets
  <1>3. ASSUME NEW u \in UiTypes, Move(route, u), u.section = ui.section,
               u.sheet = "account" => ui.sheet = "account", u.over = "import" => u.sheet = "form"
        PROVE  MovesWell(route, u)
    BY <1>3 DEF MovesWell, Remounts
  <1>4. CASE EnterFromHub \/ LinkOfDashboard \/ FromBell
    <2>1. ui.sheet # "account"
      BY <1>0, <1>4 DEF EnterFromHub, LinkOfDashboard, FromBell, Blank, Names, Sheets
    <2>2. PICK r \in tour.pages : Move(r, Blank)
      BY <1>4 DEF EnterFromHub, LinkOfDashboard, FromBell, Nav, Show
    <2> QED
      BY <1>1, <1>2, <2>1, <2>2
  <1>5. CASE FromBellToRequests
    <2> DEFINE u == [Blank EXCEPT !.section = "joinRequests"]
    <2>1. Move("settings", u) /\ ui.sheet = "bell" /\ "settings" \in DOMAIN PageOf
      BY <1>1, <1>5 DEF FromBellToRequests, Show
    <2>2. u \in UiTypes /\ u.sheet = Null /\ u.over = Null
      BY <1>0 DEF UiTypes, Blank
    <2> HIDE DEF u
    <2>3. MovesWell("settings", u)
      BY <1>0, <2>1, <2>2 DEF MovesWell, Names, Sheets
    <2> QED
      BY <2>3
  <1>6. CASE OpenBell \/ FromBellToForm \/ OpenForm \/ OpenSheet
    <2> DEFINE s == IF OpenBell THEN "bell" ELSE IF OpenSheet THEN "sheet" ELSE "form"
               u == [ui EXCEPT !.sheet = s]
    <2>1. s \in Sheets /\ s # "account"
      BY DEF Sheets
    <2>2. Move(route, u)
      BY <1>6 DEF OpenBell, FromBellToForm, OpenForm, OpenSheet, Show
    <2>3. u \in UiTypes /\ u.section = ui.section /\ u.sheet = s /\ u.over = ui.over
      BY <1>0, <2>1 DEF UiTypes
    <2>4. ui.over # "import"
      BY <1>0, <1>6 DEF OpenBell, FromBellToForm, OpenForm, OpenSheet, OverImport, Blank, Names,
                        Sheets
    <2> HIDE DEF u, s
    <2> QED
      BY <1>3, <2>1, <2>2, <2>3, <2>4
  <1>7. CASE OpenImport \/ OpenPicker
    <2> DEFINE x == IF OpenImport THEN "import" ELSE "picker"
               u == [ui EXCEPT !.over = x]
    <2>1. x \in Overs /\ (x = "import" => ui.sheet = "form")
      BY DEF Overs, OpenImport
    <2>2. Move(route, u)
      BY <1>7 DEF OpenImport, OpenPicker, Show
    <2>3. u \in UiTypes /\ u.section = ui.section /\ u.sheet = ui.sheet /\ u.over = x
      BY <1>0, <2>1 DEF UiTypes
    <2> HIDE DEF u, x
    <2> QED
      BY <1>3, <2>1, <2>2, <2>3
  <1>8. CASE OpenSection
    <2> DEFINE u == [ui EXCEPT !.section = tour.section]
    <2>1. Move(route, u) /\ ui.sheet = Null /\ ui.over = Null
      BY <1>8 DEF OpenSection, Show, Blank
    <2>2. u \in UiTypes /\ u.sheet = Null /\ u.over = Null
      BY <1>0, <1>1, <2>1 DEF UiTypes
    <2> HIDE DEF u
    <2>3. MovesWell(route, u)
      BY <1>0, <2>1, <2>2 DEF MovesWell, Names, Sheets
    <2> QED
      BY <2>3
  <1>9. CASE Cancel
    <2>1. /\ Under(ui) \in UiTypes /\ Under(ui).section = ui.section
          /\ \/ Under(ui).sheet = ui.sheet /\ Under(ui).over = ui.over
             \/ Under(ui).sheet = ui.sheet /\ Under(ui).over = Null
             \/ Under(ui).sheet = Null /\ Under(ui).over = Null
      BY <1>0 DEF Under, Unboxed, UiTypes
    <2>2. Move(route, Under(ui))
      BY <1>9 DEF Cancel, Show
    <2>3. Under(ui).over = "import" => Under(ui).sheet = "form"
      BY <1>0, <2>1 DEF OverImport
    <2>4. Under(ui).sheet = "account" => ui.sheet = "account"
      BY <1>0, <2>1 DEF Names, Sheets
    <2> HIDE DEF Under
    <2> QED
      BY <1>3, <2>1, <2>2, <2>3, <2>4
  <1>10. CASE BackArrow
    <2>1. Move(route, Blank) /\ ui.sheet # "account"
      BY <1>0, <1>10 DEF BackArrow, Show, Names, Sheets
    <2> QED
      BY <1>2, <2>1
  <1>11. CASE Travelled
    <2>1. Closes(hist, Null) = Null
      BY <1>11, TravelledIs DEF Travelled, HistInv
    <2>2. Move(route, ui)
      BY <1>0, <1>11, <2>1 DEF Travelled, CloseLayer, Names
    <2> QED
      BY <1>0, <1>3, <2>2 DEF OverImport
  <1>12. CASE UserBack
    <2> DEFINE l == Closes(hist, Null)
    <2>1. CloseLayer(l) /\ l \in Names /\ (l = "page" \/ l = "section" => ui.sheet = Null)
      BY <1>12, TopIs DEF UserBack
    <2> HIDE DEF l
    <2>2. CASE l = "page"
      <3> DEFINE u == [Blank EXCEPT !.box = ui.box, !.date = ui.date]
      <3>1. Move("hub", u) /\ ui.sheet # "account"
        BY <1>0, <2>1, <2>2 DEF CloseLayer, Names, Sheets, Overs
      <3>2. u \in UiTypes /\ u.section = Null /\ u.sheet = Null /\ u.over = Null
        BY <1>0 DEF UiTypes, Blank
      <3> HIDE DEF u
      <3>3. MovesWell("hub", u)
        BY <1>0, <3>1, <3>2 DEF MovesWell, Names, Sheets
      <3> QED
        BY <3>3
    <2>3. CASE l = "section"
      <3> DEFINE u == [ui EXCEPT !.section = Null]
      <3>1. Move(route, u) /\ ui.sheet = Null
        BY <2>1, <2>3 DEF CloseLayer, Sheets, Overs
      <3>2. u \in UiTypes /\ u.sheet = Null /\ u.over = ui.over
        BY <1>0, <2>1, <2>3 DEF UiTypes
      <3> HIDE DEF u
      <3>3. MovesWell(route, u)
        BY <1>0, <3>1, <3>2 DEF MovesWell, OverImport, Names, Sheets
      <3> QED
        BY <3>3
    <2>4. CASE l \in Overs
      <3> DEFINE u == [ui EXCEPT !.over = Null]
      <3>1. Move(route, u)
        BY <2>1, <2>4 DEF CloseLayer, Sheets, Overs
      <3>2. u \in UiTypes /\ u.section = ui.section /\ u.sheet = ui.sheet /\ u.over = Null
        BY <1>0 DEF UiTypes
      <3> HIDE DEF u
      <3> QED
        BY <1>0, <1>3, <3>1, <3>2
    <2>5. CASE l \in Sheets
      <3> DEFINE u == [ui EXCEPT !.sheet = Null, !.over = Null]
      <3>1. Move(route, u)
        BY <2>1, <2>5 DEF CloseLayer, Sheets, Overs
      <3>2. u \in UiTypes /\ u.section = ui.section /\ u.sheet = Null /\ u.over = Null
        BY <1>0 DEF UiTypes
      <3> HIDE DEF u
      <3> QED
        BY <1>0, <1>3, <3>1, <3>2 DEF Names, Sheets
    <2>6. CASE l \in {"box", "date"}
      <3> DEFINE u == IF l = "box" THEN Unboxed(ui) ELSE [ui EXCEPT !.date = Null]
      <3>1. Move(route, u)
        BY <2>1, <2>6 DEF CloseLayer, Sheets, Overs
      <3>2. u \in UiTypes /\ u.section = ui.section /\ u.sheet = ui.sheet /\ u.over = ui.over
        BY <1>0 DEF UiTypes, Unboxed
      <3> HIDE DEF u
      <3> QED
        BY <1>3, <3>1, <3>2 DEF OverImport
    <2> QED
      BY <2>1, <2>2, <2>3, <2>4, <2>5, <2>6 DEF Names
  <1>13. CASE OpenDate
    <2> DEFINE u == [ui EXCEPT !.date = "date"]
    <2>1. Move(route, u)
      BY <1>13 DEF OpenDate, Show
    <2>2. u \in UiTypes /\ u.section = ui.section /\ u.sheet = ui.sheet /\ u.over = ui.over
      BY <1>0 DEF UiTypes
    <2> HIDE DEF u
    <2> QED
      BY <1>3, <2>1, <2>2 DEF OverImport
  <1> QED
    BY <1>4, <1>5, <1>6, <1>7, <1>8, <1>9, <1>10, <1>11, <1>12, <1>13 DEF Moving

-----------------------------------------------------------------------------
\* The types of the calls and of the data.
Parts == {"page", "section", "import", "shell", "box"}
ServerTypes == [family: Nat, own: Nat, bell: Nat, balance: Int]
ShownTypes == [family: Nat, own: Nat \cup {Null}, bell: Nat, balance: Int]

CallRecords ==
  [h: Handlers, todo: Seq(Steps) \ {<<>>}, part: Parts, sheet: Sheets \cup {Null},
   alive: BOOLEAN, got: ServerTypes, adj: Int, saved: Forms \cup {Null}]

\* A balance is adjusted only by a tick that has stood.
CallTypes == {c \in CallRecords : c.adj # 0 => c.saved # Null /\ c.saved.stands}

\* An account's form is open with its sheet; its tick, if it is given, has stood.
FormInv ==
  /\ form \in Forms \cup {Null} /\ (form # Null <=> ui.sheet = "account")
  /\ form # Null /\ form.ack => form.stands

TypeInv ==
  /\ tour \in Tours /\ route \in DOMAIN PageOf /\ OverImport
  /\ calls \in Seq(CallTypes) /\ server \in ServerTypes /\ shown \in ShownTypes
  /\ smsDirty \in BOOLEAN /\ FormInv

\* n is c but for its answer and for what is left to do.
SameCall(n, c) ==
  /\ n.part = c.part /\ n.sheet = c.sheet /\ n.alive = c.alive
  /\ n.adj = c.adj /\ n.saved = c.saved

LEMMA SendIs ==
  ASSUME NEW cs \in Seq(CallTypes), NEW c \in CallTypes, server \in ServerTypes, NEW unread,
         Send(cs, c, unread)
  PROVE  /\ calls' \in Seq(CallTypes) /\ server' \in ServerTypes
         /\ \A d \in Data :
              /\ server[d] <= server'[d]
              /\ server'[d] # server[d] => d \in c.h.writes /\ Writes(Head(c.todo).do)
         /\ behind' = IF Writes(Head(c.todo).do) THEN unread \cup c.h.leaves ELSE unread
         /\ \E n \in CallTypes :
              /\ calls' = Append(cs, n) /\ n.got = server' /\ n.h = c.h /\ n.todo = c.todo
              /\ SameCall(n, c)
  <1> DEFINE do == Head(c.todo).do
             n == [c EXCEPT !.got = server']
             wrote == [server EXCEPT
                  !.family = @ + (IF "family" \in c.h.writes THEN 1 ELSE 0),
                  !.own = @ + (IF "own" \in c.h.writes THEN 1 ELSE 0),
                  !.bell = @ + (IF "bell" \in c.h.writes THEN 1 ELSE 0),
                  !.balance = @ + (IF do = "adjust" THEN c.adj ELSE 0)]
  <1>1. c \in CallRecords /\ c.adj \in Int
    BY DEF CallTypes, CallRecords
  <1>2. /\ wrote \in ServerTypes
        /\ \A d \in Data :
             /\ server[d] <= wrote[d] /\ server[d] <= server[d]
             /\ wrote[d] # server[d] => d \in c.h.writes
    <2> DEFINE f == IF "family" \in c.h.writes THEN 1 ELSE 0
               o == IF "own" \in c.h.writes THEN 1 ELSE 0
               b == IF "bell" \in c.h.writes THEN 1 ELSE 0
               a == IF do = "adjust" THEN c.adj ELSE 0
    <2>1. f \in Nat /\ o \in Nat /\ b \in Nat /\ a \in Int
      BY <1>1
    <2>2. wrote = [family |-> server.family + f, own |-> server.own + o,
                   bell |-> server.bell + b, balance |-> server.balance + a]
      <3>1. wrote = [server EXCEPT !.family = @ + f, !.own = @ + o, !.bell = @ + b,
                                   !.balance = @ + a]
        OBVIOUS
      <3> HIDE DEF wrote, f, o, b, a
      <3> QED
        BY <3>1 DEF ServerTypes
    <2>3. /\ "family" \notin c.h.writes => f = 0
          /\ "own" \notin c.h.writes => o = 0
          /\ "bell" \notin c.h.writes => b = 0
      OBVIOUS
    <2> HIDE DEF wrote, f, o, b, a
    <2> QED
      BY <2>1, <2>2, <2>3 DEF ServerTypes, Data
  <1>3. /\ server' = IF Writes(do) THEN wrote ELSE server
        /\ calls' = Append(cs, n)
        /\ behind' = IF Writes(do) THEN unread \cup c.h.leaves ELSE unread
    BY DEF Send, Writes
  <1> HIDE DEF wrote, do
  <1>4. /\ server' \in ServerTypes
        /\ \A d \in Data :
              /\ server[d] <= server'[d]
              /\ server'[d] # server[d] => d \in c.h.writes /\ Writes(do)
    BY <1>2, <1>3
  <1>5. /\ n \in CallTypes
        /\ n.got = server' /\ n.h = c.h /\ n.todo = c.todo /\ SameCall(n, c)
    <2>1. n = [h |-> c.h, todo |-> c.todo, part |-> c.part, sheet |-> c.sheet,
               alive |-> c.alive, got |-> server', adj |-> c.adj, saved |-> c.saved]
      BY <1>1 DEF CallRecords
    <2>2. c.adj # 0 => c.saved # Null /\ c.saved.stands
      BY DEF CallTypes
    <2> HIDE DEF n
    <2> QED
      BY <1>1, <1>4, <2>1, <2>2 DEF CallRecords, CallTypes, SameCall
  <1> HIDE DEF n
  <1>6. calls' \in Seq(CallTypes)
    BY <1>3, <1>5
  <1> QED
    BY <1>3, <1>4, <1>5, <1>6 DEF do

LEMMA CallIs ==
  ASSUME HistInv, TypeInv, NEW h, Good(h), NEW part \in Parts, NEW adj \in Int,
         adj # 0 => form # Null /\ form.stands
  PROVE  /\ Call(h, part, adj) \in CallTypes
         /\ Call(h, part, adj).h = h /\ Call(h, part, adj).todo = h.steps
         /\ Call(h, part, adj).part = part /\ Call(h, part, adj).sheet = ui.sheet
         /\ Call(h, part, adj).alive
  <1> DEFINE m == IF adj = 0 THEN Null ELSE form
  <1>1. m \in Forms \cup {Null} /\ (adj # 0 => m # Null /\ m.stands)
    BY DEF TypeInv, FormInv
  <1>2. Call(h, part, adj) =
          [h |-> h, todo |-> h.steps, part |-> part, sheet |-> ui.sheet, alive |-> TRUE,
           got |-> server, adj |-> adj, saved |-> m]
    BY DEF Call
  <1> HIDE DEF m
  <1>3. h \in Handlers /\ h.steps \in Seq(Steps) \ {<<>>} /\ ui.sheet \in Sheets \cup {Null}
        /\ server \in ServerTypes
    BY DEF Good, Fits, HistInv, TypeInv, UiTypes
  <1> QED
    BY <1>1, <1>2, <1>3 DEF CallTypes, CallRecords

LEMMA UnmountedIs ==
  ASSUME NEW cs \in Seq(CallTypes), NEW parts
  PROVE  /\ Unmounted(cs, parts) \in Seq(CallTypes)
         /\ Len(Unmounted(cs, parts)) = Len(cs)
         /\ \A i \in DOMAIN cs :
              /\ Unmounted(cs, parts)[i].h = cs[i].h
              /\ Unmounted(cs, parts)[i].todo = cs[i].todo
              /\ Unmounted(cs, parts)[i].part = cs[i].part
              /\ Unmounted(cs, parts)[i].sheet = cs[i].sheet
              /\ Unmounted(cs, parts)[i].got = cs[i].got
              /\ Unmounted(cs, parts)[i].alive <=> cs[i].alive /\ cs[i].part \notin parts
  <1> DEFINE t == Unmounted(cs, parts)
  <1>1. ASSUME NEW c \in CallTypes
        PROVE  LET n == [c EXCEPT !.alive = FALSE] IN
               /\ n \in CallTypes
               /\ n.h = c.h /\ n.todo = c.todo /\ n.part = c.part /\ n.sheet = c.sheet
               /\ n.got = c.got /\ n.alive = FALSE
    <2> DEFINE x == FALSE
               n == [c EXCEPT !.alive = x]
    <2>1. c \in CallRecords /\ (c.adj # 0 => c.saved # Null /\ c.saved.stands)
      BY DEF CallTypes
    <2>2. n = [h |-> c.h, todo |-> c.todo, part |-> c.part, sheet |-> c.sheet,
               alive |-> x, got |-> c.got, adj |-> c.adj, saved |-> c.saved]
      <3> HIDE DEF x
      <3> QED
        BY <2>1 DEF CallRecords
    <2> HIDE DEF n
    <2>3. n \in CallTypes
      BY <2>1, <2>2 DEF CallRecords, CallTypes
    <2> QED
      BY <2>2, <2>3 DEF n
  <1> DEFINE e(i) == IF cs[i].part \in parts THEN [cs[i] EXCEPT !.alive = FALSE] ELSE cs[i]
  <1>2. \A i \in 1..Len(cs) :
          /\ e(i) \in CallTypes
          /\ e(i).h = cs[i].h /\ e(i).todo = cs[i].todo /\ e(i).part = cs[i].part
          /\ e(i).sheet = cs[i].sheet /\ e(i).got = cs[i].got
          /\ e(i).alive <=> cs[i].alive /\ cs[i].part \notin parts
    <2> TAKE i \in 1..Len(cs)
    <2>1. cs[i] \in CallTypes
      OBVIOUS
    <2> QED
      BY <1>1, <2>1
  <1>3. t = [i \in 1..Len(cs) |-> e(i)] /\ DOMAIN cs = 1..Len(cs) /\ Len(cs) \in Nat
    BY DEF Unmounted
  <1> HIDE DEF e, t
  <1>4. t \in Seq(CallTypes) /\ Len(t) = Len(cs)
    BY <1>2, <1>3
  <1>5. \A i \in 1..Len(cs) : t[i] = e(i)
    BY <1>3
  <1> QED
    BY <1>2, <1>3, <1>4, <1>5 DEF t

\* The part a list of its own is in goes with the page, or with the section of the settings.
Belongs(part, r) == IF r = "settings" THEN part = "section" ELSE part = "page"

LEMMA ButtonsAre ==
  ASSUME HistInv, TypeInv, NEW h \in Buttons
  PROVE  /\ Good(h)
         /\ ~Private(h) => Belongs(Part, route)
         /\ ui.sheet = "account" /\ Part # "box" => h = ToggleSms
  <1>0. /\ ui.sheet \in Sheets \cup {Null} /\ Null \notin Names
        /\ ui.over \in Overs \cup {Null} /\ ui.section \in DOMAIN SectionOf \cup {Null}
        /\ ui.date = Null
    BY NullIsNoValue DEF HistInv, UiTypes, Names, Buttons
  <1>b. CASE ui.box # Null
    <2>1. h \in PendingBox /\ Part = "box"
      BY <1>0, <1>b DEF Buttons, Part
    <2> QED
      BY <2>1, BoxIsGood
  <1>n. SUFFICES ASSUME ui.box = Null
                 PROVE  /\ Good(h)
                        /\ ~Private(h) => Belongs(Part, route)
                        /\ ui.sheet = "account" => h = ToggleSms
    BY <1>b
  <1>1. /\ GoodScreen(Showing)
        /\ ~Private(h) /\ h \in Showing.page \cup Showing.sheet =>
             route # "settings" \/ ui.section # Null
    BY <1>0, PagesAreGood, SectionsAreGood DEF Showing, ScreenAt, TypeInv
  <1>2. CASE ui.over = "import"
    <2>1. h = SaveImport /\ ui.sheet = "form"
      BY <1>0, <1>n, <1>2 DEF Buttons, TypeInv, OverImport
    <2> QED
      BY <2>1, ShellIsGood
  <1>3. CASE ui.over = "picker"
    BY <1>0, <1>n, <1>3 DEF Buttons, Names, Overs
  <1>4. CASE ui.over = Null
    <2>0. ui.over # "import" /\ ui.over # "picker"
      BY <1>0, <1>4 DEF Names, Overs
    <2>1. CASE ui.sheet = "form"
      <3>1. h = SaveForm
        BY <1>0, <1>n, <2>0, <2>1 DEF Buttons
      <3> QED
        BY <2>1, <3>1, ShellIsGood
    <2>2. CASE ui.sheet = "bell"
      <3>1. h = Dismiss
        BY <1>0, <1>n, <2>0, <2>2 DEF Buttons, NotificationCenter
      <3> QED
        BY <2>2, <3>1, SpecialIs
    <2>3. CASE ui.sheet = "account"
      <3>1. h = ToggleSms
        BY <1>0, <1>n, <2>0, <2>3 DEF Buttons
      <3> QED
        BY <3>1, ReloadIs
    <2>4. CASE ui.sheet = "sheet" \/ ui.sheet = Null
      <3>1. h \in Showing.page \cup Showing.sheet
        BY <1>0, <1>n, <2>0, <2>4 DEF Buttons, Names, Sheets
      <3>2. Part = IF route = "settings" /\ ui.section # Null THEN "section" ELSE "page"
        BY <1>0, <1>n, <2>0, <2>4 DEF Part, Names, Sheets
      <3> QED
        BY <1>0, <1>1, <2>4, <3>1, <3>2 DEF GoodScreen, Belongs, Names, Sheets
    <2> QED
      BY <1>0, <2>1, <2>2, <2>3, <2>4 DEF Sheets
  <1> QED
    BY <1>0, <1>2, <1>3, <1>4 DEF Overs

LEMMA PartIs == Part \in Parts
  BY DEF Part, Parts

LEMMA MoveTypes ==
  ASSUME HistInv, TypeInv, NEW r, NEW u, MovesWell(r, u)
  PROVE  TypeInv'
  <1> DEFINE left == Unmounted(calls, Gone(r, u))
  <1>0. left \in Seq(CallTypes)
    BY UnmountedIs DEF TypeInv
  <1>1. /\ route' = r /\ ui' = u /\ tour' = tour /\ r \in DOMAIN PageOf
        /\ (u.sheet = "account" => ui.sheet = "account")
        /\ (u.over = "import" => u.sheet = "form")
    BY DEF MovesWell, Move, pool
  <1>2. shown' \in ShownTypes
    <2> DEFINE x == IF Remounts(r, u) THEN Null ELSE shown.own
    <2>1. shown' = [shown EXCEPT !.own = x]
      BY DEF MovesWell, Move, TypeInv, ShownTypes
    <2>2. x \in Nat \cup {Null}
      BY DEF TypeInv, ShownTypes
    <2> HIDE DEF x
    <2> QED
      BY <2>1, <2>2 DEF TypeInv, ShownTypes
  <1>3. calls' \in Seq(CallTypes) /\ server' \in ServerTypes
    <2>1. ASSUME NEW h, NEW part \in Parts, Good(h), Send(left, Call(h, part, 0), behind)
          PROVE  calls' \in Seq(CallTypes) /\ server' \in ServerTypes
      <3>1. Call(h, part, 0) \in CallTypes
        BY <2>1, CallIs
      <3> HIDE DEF left
      <3> QED
        BY <1>0, <2>1, <3>1, SendIs DEF TypeInv
    <2>2. \/ \E part \in Parts : Send(left, Call(Reload, part, 0), behind)
          \/ Send(left, Call(Refresh, "page", 0), behind)
          \/ calls' = left /\ UNCHANGED server
      BY DEF MovesWell, Move, Parts
    <2>3. "page" \in Parts
      BY DEF Parts
    <2> QED
      BY <1>0, <2>1, <2>2, <2>3, ReloadIs DEF TypeInv
  <1>4. smsDirty' \in BOOLEAN
    BY DEF MovesWell, Move
  <1>5. FormInv'
    <2>1. form' = IF form # Null /\ u.sheet # "account" THEN Null ELSE form
      BY DEF MovesWell, Move, ClosesAccount
    <2> QED
      BY <1>1, <2>1 DEF TypeInv, FormInv
  <1>6. OverImport'
    BY <1>1 DEF OverImport
  <1> QED
    BY <1>1, <1>2, <1>3, <1>4, <1>5, <1>6 DEF TypeInv

\* A handler is started: by a button, by the save of an account or by the reader.
Starting(h, part, adj) ==
  /\ Good(h) /\ part \in Parts /\ adj \in Int
  /\ adj # 0 => form # Null /\ form.stands
  /\ Send(calls, Call(h, part, adj), behind)
  /\ UNCHANGED <<pool, route, ui, deep, hist, shown, form, smsDirty, spent, search>>
  /\ ~Private(h) => Belongs(part, route)
  /\ ui.sheet = "account" /\ part # "box" =>
       h \in {ToggleSms, SaveAccount, AdjustAccount, ImportedByReader}

LEMMA Starts ==
  ASSUME HistInv, TypeInv, Press \/ SaveTheAccount \/ ReaderImports
  PROVE  \E h, part, adj : Starting(h, part, adj)
  <1>1. CASE Press
    <2>1. PICK h \in Buttons : Start(h, 0)
      BY <1>1 DEF Press
    <2>2. Starting(h, Part, 0)
      BY <2>1, PartIs, ButtonsAre DEF Start, Starting
    <2> QED
      BY <2>2
  <1>2. CASE SaveTheAccount
    <2> DEFINE n == form.typed - shown.balance
    <2>1. form \in Forms /\ shown.balance \in Int /\ form.typed \in Int /\ form # Null
      BY <1>2 DEF SaveTheAccount, TypeInv, FormInv, Forms, ShownTypes
    <2>2. CASE Changed
      <3>1. Start(AdjustAccount, n) /\ form.ack
        BY <1>2, <2>2 DEF SaveTheAccount
      <3>2. n \in Int /\ form.stands
        BY <2>1, <3>1 DEF TypeInv, FormInv
      <3> HIDE DEF n
      <3>3. Starting(AdjustAccount, Part, n)
        BY <2>1, <3>1, <3>2, PartIs, ShellIsGood DEF Start, Starting
      <3> QED
        BY <3>3
    <2>3. CASE ~Changed
      <3>1. Start(SaveAccount, 0)
        BY <1>2, <2>3 DEF SaveTheAccount
      <3>2. Starting(SaveAccount, Part, 0)
        BY <3>1, PartIs, ShellIsGood DEF Start, Starting
      <3> QED
        BY <3>2
    <2> QED
      BY <2>2, <2>3
  <1>3. CASE ReaderImports
    <2>1. "shell" \in Parts
      BY DEF Parts
    <2>2. Starting(ImportedByReader, "shell", 0)
      BY <1>3, <2>1, ReloadIs DEF ReaderImports, Starting
    <2> QED
      BY <2>2
  <1> QED
    BY <1>1, <1>2, <1>3

LEMMA StartTypes ==
  ASSUME HistInv, TypeInv, NEW h, NEW part, NEW adj, Starting(h, part, adj)
  PROVE  TypeInv'
  <1>1. Call(h, part, adj) \in CallTypes
    BY CallIs DEF Starting
  <1>2. calls' \in Seq(CallTypes) /\ server' \in ServerTypes
    BY <1>1, SendIs DEF TypeInv, Starting
  <1> QED
    BY <1>2 DEF TypeInv, FormInv, OverImport, Starting, pool

\* A call goes on with its next step, or with what it awaits after a failure.
Onward(c, todo, flag) == [c EXCEPT !.todo = todo, !.h.flag = flag]

LEMMA NextCallIs ==
  ASSUME NEW c \in CallTypes, NEW todo \in Seq(Steps) \ {<<>>}, NEW flag \in Flags,
         NEW n, n = Onward(c, todo, flag)
  PROVE  /\ n \in CallTypes /\ n.todo = todo /\ SameCall(n, c)
         /\ n.h.writes = c.h.writes /\ n.h.leaves = c.h.leaves
  <1>1. c \in CallRecords /\ c.h \in Handlers /\ (c.adj # 0 => c.saved # Null /\ c.saved.stands)
    BY DEF CallTypes, CallRecords
  <1> DEFINE g == [c.h EXCEPT !.flag = flag]
  <1>2. g \in Handlers /\ g.writes = c.h.writes /\ g.leaves = c.h.leaves
    <2>1. g = [flag |-> flag, writes |-> c.h.writes, leaves |-> c.h.leaves,
               steps |-> c.h.steps, recover |-> c.h.recover]
      BY <1>1 DEF Handlers
    <2> HIDE DEF g
    <2> QED
      BY <1>1, <2>1 DEF Handlers
  <1>3. n = [c EXCEPT !.todo = todo, !.h = g]
    BY <1>1 DEF CallRecords, Onward
  <1> HIDE DEF g
  <1>4. n = [h |-> g, todo |-> todo, part |-> c.part, sheet |-> c.sheet,
             alive |-> c.alive, got |-> c.got, adj |-> c.adj, saved |-> c.saved]
    BY <1>1, <1>3 DEF CallRecords
  <1>5. n \in CallTypes
    BY <1>1, <1>2, <1>4 DEF CallRecords, CallTypes
  <1> QED
    <2>1. c.alive \in BOOLEAN
      BY <1>1 DEF CallRecords
    <2>2. SameCall(n, c)
      BY <1>4, <2>1 DEF SameCall
    <2>3. n.h = g /\ n.todo = todo
      BY <1>1, <1>3 DEF CallRecords
    <2>4. n.h.writes = c.h.writes /\ n.h.leaves = c.h.leaves
      BY <1>2, <2>3
    <2> QED
      BY <1>5, <2>2, <2>3, <2>4

LEMMA RecoverIs ==
  ASSUME NEW c \in CallTypes, c.h.recover # <<>>,
         NEW n, n = [c EXCEPT !.todo = c.h.recover, !.h.recover = <<>>, !.h.writes = {}]
  PROVE  n \in CallTypes
  <1>1. c \in CallRecords /\ c.h \in Handlers /\ (c.adj # 0 => c.saved # Null /\ c.saved.stands)
    BY DEF CallTypes, CallRecords
  <1> DEFINE none == {}
             nil == <<>>
             g == [c.h EXCEPT !.recover = nil]
             h == [g EXCEPT !.writes = none]
             todo == c.h.recover
  <1>2. nil \in Seq(Steps) /\ none \in SUBSET Data /\ todo \in Seq(Steps) \ {<<>>}
    BY <1>1 DEF Handlers
  <1>3. n = [c EXCEPT !.todo = todo, !.h = h]
    BY <1>1 DEF CallRecords
  <1> HIDE DEF nil, none, todo
  <1>4. g = [flag |-> c.h.flag, writes |-> c.h.writes, leaves |-> c.h.leaves,
             steps |-> c.h.steps, recover |-> nil]
    BY <1>1 DEF Handlers
  <1> HIDE DEF g
  <1>5. h = [flag |-> c.h.flag, writes |-> none, leaves |-> c.h.leaves,
             steps |-> c.h.steps, recover |-> nil]
    BY <1>4
  <1> HIDE DEF h
  <1>6. h \in Handlers
    BY <1>1, <1>2, <1>5 DEF Handlers
  <1>7. n = [h |-> h, todo |-> todo, part |-> c.part, sheet |-> c.sheet,
             alive |-> c.alive, got |-> c.got, adj |-> c.adj, saved |-> c.saved]
    BY <1>1, <1>3 DEF CallRecords
  <1> QED
    BY <1>1, <1>2, <1>6, <1>7 DEF CallRecords, CallTypes

\* What is left of the steps.
LEMMA TailIs ==
  ASSUME NEW s \in Seq(Steps) \ {<<>>}
  PROVE  /\ Len(s) \in Nat \ {0} /\ Tail(s) \in Seq(Steps) /\ Len(Tail(s)) = Len(s) - 1
         /\ Len(s) # 1 => Tail(s) # <<>>
         /\ \A k \in 1..(Len(s) - 1) : Tail(s)[k] = s[k + 1]
         /\ Head(s) = s[1]
  <1>1. Len(s) \in Nat \ {0} /\ Head(s) = s[1]
    OBVIOUS
  <1>2. Tail(s) \in Seq(Steps) /\ Len(Tail(s)) = Len(s) - 1
        /\ \A k \in 1..(Len(s) - 1) : Tail(s)[k] = s[k + 1]
    BY HeadTailProperties
  <1>3. Len(s) # 1 => Tail(s) # <<>>
    <2> DEFINE t == Tail(s)
    <2>1. Len(s) # 1 => Len(t) # 0
      BY <1>1, <1>2
    <2>2. t = <<>> => Len(t) = 0
      <3> HIDE DEF t
      <3> QED
        OBVIOUS
    <2> QED
      BY <2>1, <2>2
  <1> QED
    BY <1>1, <1>2, <1>3

\* What an answer closes.
LEMMA AfterCloseIs ==
  ASSUME HistInv, NEW c, NEW then
  PROVE  LET u == AfterClose(c, then) IN
         /\ u.sheet = ui.sheet \/ u.sheet = Null
         /\ u.over = ui.over \/ u.over = Null
         /\ u.sheet # ui.sheet => "close" \in then /\ ui.sheet = c.sheet
         /\ u.sheet = ui.sheet \/ u.over = Null
         /\ u.sheet # ui.sheet \/ u.over # ui.over =>
              /\ c.part # "box"
              /\ ("close" \in then /\ ui.sheet = c.sheet) \/ ui.over = "import"
  <1>1. ui \in UiTypes
    BY DEF HistInv
  <1> DEFINE both == [ui EXCEPT !.sheet = Null, !.over = Null]
             over == [ui EXCEPT !.over = Null]
  <1>2. /\ both.sheet = Null /\ both.over = Null
        /\ over.sheet = ui.sheet /\ over.over = Null
        /\ Unboxed(ui).sheet = ui.sheet /\ Unboxed(ui).over = ui.over
    BY <1>1 DEF UiTypes, Unboxed
  <1>3. \/ AfterClose(c, then) = both /\ "close" \in then /\ ui.sheet = c.sheet /\ c.part # "box"
        \/ AfterClose(c, then) = over /\ ui.over = "import" /\ c.part # "box"
        \/ AfterClose(c, then) = Unboxed(ui)
        \/ AfterClose(c, then) = ui
    BY DEF AfterClose
  <1> HIDE DEF both, over, Unboxed
  <1> QED
    BY <1>2, <1>3

\* The form at a balance: a tick that is left has stood.
LEMMA FormAtIs ==
  ASSUME NEW f \in Forms, f.ack => f.stands, NEW balance \in Int
  PROVE  FormAt(f, balance) \in Forms /\ (FormAt(f, balance).ack => FormAt(f, balance).stands)
  <1>1. f # Null
    BY FormsAssumption
  <1>2. CASE f.typed = balance
    <2> DEFINE g == [f EXCEPT !.ack = FALSE]
    <2>1. g \in Forms /\ g.ack = FALSE
      BY DEF Forms
    <2>2. FormAt(f, balance) = [g EXCEPT !.stands = FALSE]
      BY <1>1, <1>2 DEF FormAt, Unticked
    <2> HIDE DEF g
    <2> QED
      BY <2>1, <2>2 DEF Forms
  <1>3. CASE f.typed # balance
    BY <1>3 DEF FormAt, Unticked
  <1> QED
    BY <1>2, <1>3

LEMMA ArriveTypes ==
  ASSUME HistInv, TypeInv, Arrive
  PROVE  TypeInv'
  <1> PICK i \in DOMAIN calls :
        LET c    == calls[i]
            step == Head(c.todo)
            u    == AfterClose(c, step.then)
            left == Unmounted(RemoveAt(calls, i), IF u.sheet # "form" THEN {"import"} ELSE {})
            flag == IF "free" \in step.then THEN "none" ELSE c.h.flag
        IN /\ ui' = u
           /\ shown' = AfterRead(c, step.do, step.then)
           /\ form' = IF u.sheet # "account" THEN Null ELSE FormAt(form, shown'.balance)
           /\ smsDirty' = IF u.sheet # ui.sheet THEN FALSE
                          ELSE smsDirty \/ ("dirty" \in step.then /\ c.alive)
           /\ IF Len(c.todo) = 1
              THEN calls' = left /\ server' = server /\ behind' = StillBehind(c, step)
              ELSE Send(left, [c EXCEPT !.todo = Tail(@), !.h.flag = flag], StillBehind(c, step))
    BY DEF Arrive
  <1> DEFINE c    == calls[i]
             step == Head(c.todo)
             u    == AfterClose(c, step.then)
             left == Unmounted(RemoveAt(calls, i), IF u.sheet # "form" THEN {"import"} ELSE {})
             flag == IF "free" \in step.then THEN "none" ELSE c.h.flag
  <1>1. c \in CallTypes /\ c.got \in ServerTypes /\ c.todo \in Seq(Steps) \ {<<>>}
        /\ c.h \in Handlers
    BY DEF TypeInv, CallTypes, CallRecords
  <1>2. shown' \in ShownTypes
    <2>1. shown' = AfterRead(c, step.do, step.then)
      OBVIOUS
    <2> HIDE DEF c, step
    <2>2. /\ shown'.family \in {c.got.family, shown.family}
          /\ shown'.own \in {c.got.own, shown.own}
          /\ shown'.bell \in {c.got.bell, shown.bell}
          /\ shown'.balance \in {c.got.balance, shown.balance}
          /\ shown' = [family |-> shown'.family, own |-> shown'.own, bell |-> shown'.bell,
                       balance |-> shown'.balance]
      BY <2>1 DEF AfterRead
    <2>3. /\ c.got.family \in Nat /\ shown.family \in Nat
          /\ c.got.own \in Nat /\ shown.own \in Nat \cup {Null}
          /\ c.got.bell \in Nat /\ shown.bell \in Nat
          /\ c.got.balance \in Int /\ shown.balance \in Int
      BY <1>1 DEF TypeInv, ServerTypes, ShownTypes
    <2> QED
      BY <2>2, <2>3 DEF ShownTypes
  <1>3. left \in Seq(CallTypes)
    <2>1. RemoveAt(calls, i) \in Seq(CallTypes)
      BY RemoveAtIs DEF TypeInv
    <2> QED
      BY <2>1, UnmountedIs
  <1>4. calls' \in Seq(CallTypes) /\ server' \in ServerTypes
    <2>1. CASE Len(c.todo) = 1
      BY <1>3, <2>1 DEF TypeInv
    <2>2. CASE Len(c.todo) # 1
      <3> DEFINE todo == Tail(c.todo)
                 n == Onward(c, todo, flag)
      <3>1. Send(left, n, StillBehind(c, step))
        BY <2>2 DEF Onward
      <3>2. todo \in Seq(Steps) \ {<<>>}
        BY <1>1, <2>2, TailIs
      <3>3. flag \in Flags
        BY <1>1 DEF Handlers, Flags
      <3> HIDE DEF c, step, left, flag, todo
      <3>4. n \in CallTypes
        BY <1>1, <3>2, <3>3, NextCallIs
      <3> HIDE DEF n
      <3> QED
        BY <1>3, <3>1, <3>4, SendIs DEF TypeInv
    <2> QED
      BY <2>1, <2>2
  <1>5. /\ ui' = u /\ (u.sheet = ui.sheet \/ u.sheet = Null)
        /\ (u.over = ui.over \/ u.over = Null) /\ (u.sheet = ui.sheet \/ u.over = Null)
    BY AfterCloseIs
  <1>6. OverImport'
    <2> HIDE DEF u
    <2>1. Null # "import"
      BY NullIsNoValue DEF Overs
    <2> QED
      BY <1>5, <2>1 DEF OverImport, TypeInv
  <1>7. FormInv'
    <2>0. Null # "account"
      BY NullIsNoValue DEF Sheets
    <2>1. CASE u.sheet # "account"
      <3>1. form' = Null
        BY <2>1
      <3> QED
        BY <1>5, <2>1, <3>1 DEF FormInv
    <2>2. CASE u.sheet = "account"
      <3>1. form \in Forms /\ (form.ack => form.stands)
        BY <1>5, <2>0, <2>2 DEF TypeInv, FormInv
      <3>2. form' = FormAt(form, shown'.balance) /\ shown'.balance \in Int
        BY <1>2, <2>2 DEF ShownTypes
      <3>4. form' \in Forms /\ (form'.ack => form'.stands)
        BY <3>1, <3>2, FormAtIs
      <3> QED
        BY <1>5, <2>2, <3>4, FormsAssumption DEF FormInv
    <2> QED
      BY <2>1, <2>2
  <1>8. smsDirty' \in BOOLEAN
    OBVIOUS
  <1>9. tour' = tour /\ route' = route
    BY DEF Arrive
  <1> QED
    BY <1>2, <1>4, <1>6, <1>7, <1>8, <1>9 DEF TypeInv

LEMMA FailTypes ==
  ASSUME HistInv, TypeInv, Fail
  PROVE  TypeInv'
  <1>1. PICK i \in DOMAIN calls :
          LET c == calls[i]
          IN IF c.h.recover = <<>>
             THEN calls' = RemoveAt(calls, i) /\ UNCHANGED <<server, behind>>
             ELSE Send(RemoveAt(calls, i),
                       [c EXCEPT !.todo = c.h.recover, !.h.recover = <<>>, !.h.writes = {}], behind)
    BY DEF Fail
  <1> DEFINE c == calls[i]
             left == RemoveAt(calls, i)
             n == [c EXCEPT !.todo = c.h.recover, !.h.recover = <<>>, !.h.writes = {}]
  <1>2. left \in Seq(CallTypes) /\ c \in CallTypes
    BY RemoveAtIs DEF TypeInv
  <1>3. c.h.recover # <<>> => n \in CallTypes
    <2> HIDE DEF c
    <2> QED
      BY <1>2, RecoverIs
  <1>4. \/ calls' = left /\ UNCHANGED server
        \/ c.h.recover # <<>> /\ Send(left, n, behind)
    BY <1>1
  <1>5. calls' \in Seq(CallTypes) /\ server' \in ServerTypes
    <2> HIDE DEF c, left, n
    <2> QED
      BY <1>2, <1>3, <1>4, SendIs DEF TypeInv
  <1> QED
    BY <1>5 DEF Fail, TypeInv, FormInv, OverImport, pool

LEMMA OtherTypes ==
  ASSUME HistInv, TypeInv,
         OpenAccount \/ TypeBalance \/ TickChange \/ OtherSpends \/ Search \/ Effects
           \/ BoxOpens \/ UNCHANGED vars
  PROVE  TypeInv'
  <1>1. CASE OpenAccount
    <2> DEFINE f == [typed |-> shown.balance, filled |-> shown.balance, ack |-> FALSE,
                   stands |-> FALSE]
    <2>1. f \in Forms
      BY DEF TypeInv, ShownTypes, Forms
    <2>2. ui' = [ui EXCEPT !.sheet = "account"] /\ ui.sheet = Null /\ form' = f
          /\ UNCHANGED <<pool, route, calls, server, shown, smsDirty>>
      BY <1>1 DEF OpenAccount
    <2>3. ui'.sheet = "account" /\ ui'.over = ui.over
      BY <2>2 DEF HistInv, UiTypes
    <2>4. ui.over # "import"
      BY <2>2, NullIsNoValue DEF TypeInv, OverImport, Sheets
    <2> QED
      BY <2>1, <2>2, <2>3, <2>4, FormsAssumption DEF TypeInv, FormInv, OverImport, pool
  <1>2. ASSUME NEW f \in Forms, f.ack => f.stands, Edit(f), form # Null PROVE TypeInv'
    BY <1>2, FormsAssumption DEF Edit, TypeInv, FormInv, OverImport, pool
  <1>3. CASE TypeBalance
    <2>1. PICK n \in Balances : Edit(FormAt([form EXCEPT !.typed = n], shown.balance))
      BY <1>3 DEF TypeBalance
    <2> DEFINE g == [form EXCEPT !.typed = n]
               f == FormAt(g, shown.balance)
    <2>2. /\ form \in Forms /\ form # Null /\ (form.ack => form.stands) /\ n \in Int
          /\ shown.balance \in Int
      BY <1>3, FormsAssumption DEF TypeBalance, TypeInv, FormInv, ShownTypes
    <2>3. g \in Forms /\ (g.ack => g.stands)
      BY <2>2 DEF Forms
    <2> HIDE DEF g
    <2>5. f \in Forms /\ (f.ack => f.stands)
      BY <2>2, <2>3, FormAtIs
    <2>6. Edit(f)
      BY <2>1 DEF g
    <2> HIDE DEF f
    <2> QED
      BY <1>2, <2>2, <2>5, <2>6
  <1>4. CASE TickChange
    <2> DEFINE a == ~form.ack
               f == [form EXCEPT !.ack = a, !.stands = a]
    <2>1. form \in Forms /\ form # Null /\ Edit(f)
      BY <1>4 DEF TickChange, TypeInv, FormInv
    <2>2. a \in BOOLEAN
      OBVIOUS
    <2> HIDE DEF a
    <2>3. f \in Forms
      BY <2>1, <2>2 DEF Forms
    <2>4. f.ack => f.stands
      BY <2>1, <2>2 DEF Forms
    <2> HIDE DEF f
    <2> QED
      BY <1>2, <2>1, <2>3, <2>4
  <1>5. CASE OtherSpends
    <2>1. server' \in ServerTypes
      BY <1>5 DEF OtherSpends, TypeInv, ServerTypes
    <2> QED
      BY <1>5, <2>1 DEF OtherSpends, TypeInv, FormInv, OverImport, pool
  <1>6. CASE Search
    <2>1. \A s : Searching(s) => TypeInv'
      BY DEF Searching, TypeInv, FormInv, OverImport, pool
    <2> QED
      BY <1>6, <2>1 DEF Search, TypeQuery, Ask, Found, NotFound
  <1>7. CASE Effects
    BY <1>7 DEF Effects, TypeInv, FormInv, OverImport, pool
  <1>8. CASE UNCHANGED vars
    BY <1>8 DEF vars, TypeInv, FormInv, OverImport, pool
  <1>9. CASE BoxOpens
    <2>1. ui'.sheet = ui.sheet /\ ui'.over = ui.over
      BY <1>9 DEF BoxOpens, HistInv, UiTypes
    <2> QED
      BY <1>9, <2>1 DEF BoxOpens, TypeInv, FormInv, OverImport
  <1> QED
    BY <1>1, <1>3, <1>4, <1>5, <1>6, <1>7, <1>8, <1>9

\* The types of everything that is shown, written and awaited.
THEOREM TypeHolds == Spec => []TypeInv
  <1>1. Init => TypeInv
    <2> SUFFICES ASSUME Init PROVE TypeInv
      OBVIOUS
    <2>1. calls \in Seq(CallTypes) /\ smsDirty \in BOOLEAN /\ tour \in Tours
          /\ server = [family |-> 0, own |-> 0, bell |-> 0, balance |-> 0]
          /\ shown = [family |-> 0, own |-> Null, bell |-> 0, balance |-> 0]
          /\ ui.sheet = Null /\ ui.over = Null /\ form = Null /\ route = "hub"
      <3>1. calls = <<>> /\ <<>> \in Seq(CallTypes) /\ smsDirty = FALSE /\ ui = Blank
        BY DEF Init
      <3>2. calls \in Seq(CallTypes) /\ smsDirty \in BOOLEAN
        BY <3>1
      <3>3. ui.sheet = Null /\ ui.over = Null
        BY <3>1 DEF Blank
      <3>4. tour \in Tours /\ form = Null /\ route = "hub"
        BY DEF Init
      <3>5. /\ server = [family |-> 0, own |-> 0, bell |-> 0, balance |-> 0]
            /\ shown = [family |-> 0, own |-> Null, bell |-> 0, balance |-> 0]
        BY DEF Init
      <3> QED
        BY <3>2, <3>3, <3>4, <3>5
    <2>2. "hub" \in DOMAIN PageOf
      BY DEF PageOf
    <2> QED
      BY <2>1, <2>2, NullIsNoValue
      DEF TypeInv, ServerTypes, ShownTypes, OverImport, FormInv, Sheets, Overs
  <1>2. HistInv /\ TypeInv /\ [Next]_vars => TypeInv'
    <2> SUFFICES ASSUME HistInv, TypeInv, [Next]_vars PROVE TypeInv'
      OBVIOUS
    <2>1. Moving => TypeInv'
      BY Moves, MoveTypes DEF TypeInv
    <2>2. Press \/ SaveTheAccount \/ ReaderImports => TypeInv'
      BY Starts, StartTypes
    <2> QED
      BY <2>1, <2>2, ArriveTypes, FailTypes, OtherTypes
      DEF Next, Taps, Account, Answers, Moving
  <1> QED
    BY <1>1, <1>2, HistHolds, PTL DEF Spec

\* A balance is adjusted only by a tick that has stood since there was a difference: a save
\* reads the form, where the tick is taken back whenever number and balance agree.
THEOREM OnlyMeantAdjustsHolds == Spec => []OnlyMeantAdjusts
  <1>1. TypeInv => OnlyMeantAdjusts
    BY DEF TypeInv, CallTypes, OnlyMeantAdjusts
  <1> QED
    BY <1>1, TypeHolds, PTL

-----------------------------------------------------------------------------
\* What is shown, and what is on its way.  A call takes a kind of data up with its next
\* answer, or with a later one; the list of a page that is gone hears of neither.
Takes(c) ==
  Reads(Head(c.todo).do) \cup (IF "patch" \in Head(c.todo).then THEN c.h.writes ELSE {})
Heard(c, d) == d = "own" => c.alive
Now(c, d) == Heard(c, d) /\ d \in Takes(c)
Yet(c, d) == Heard(c, d) /\ \E k \in 2..Len(c.todo) : d \in Reads(c.todo[k].do)
Due(c) == c.todo = <<Await("call", {"dirty"})>>

\* Kind d is excused, will be read, is about to be shown as it is, or is shown as it is.
CurrentIn(d, cs, srv, shn, excused) ==
  \/ d \in excused
  \/ \E i \in DOMAIN cs : Yet(cs[i], d) \/ (d = "family" /\ Due(cs[i]))
  \/ \E i \in DOMAIN cs : Now(cs[i], d) /\ cs[i].got[d] = srv[d]
  \/ /\ \A i \in DOMAIN cs : ~Now(cs[i], d)
     /\ shn[d] = srv[d] \/ (d = "own" /\ shn.own = Null)

Excused == behind \cup {d \in {"family"} : smsDirty /\ form # Null}

\* A call that closes the sheet of an account reads the family after it. (The box closes
\* itself alone.)
Finishes(todo) ==
  \A j \in DOMAIN todo :
    "close" \in todo[j].then => \E k \in DOMAIN todo : k > j /\ todo[k].do = "refresh"

Served(c) ==
  /\ Serves(c.h.writes, c.h.leaves, c.todo)
  /\ c.sheet = "account" /\ c.part # "box" => Finishes(c.todo)
  /\ c.h.leaves \subseteq {"family", "bell"}

\* The calls were sent in the order they are in.
GotInv(cs, srv) ==
  \A d \in Data : \A i \in DOMAIN cs :
    /\ cs[i].got[d] <= srv[d]
    /\ \A j \in DOMAIN cs : i < j => cs[i].got[d] <= cs[j].got[d]

OwnInv(cs, r) ==
  \A i \in DOMAIN cs :
    cs[i].alive /\ Touches(cs[i].h.writes, cs[i].todo) => Belongs(cs[i].part, r)

CalmInv ==
  /\ \A i \in DOMAIN calls : Served(calls[i])
  /\ GotInv(calls, server) /\ OwnInv(calls, route) /\ "own" \notin behind
  /\ \A d \in Data : CurrentIn(d, calls, server, shown, Excused)

LEMMA HeadIs ==
  ASSUME NEW c \in CallTypes
  PROVE  /\ c \in CallRecords /\ c.todo \in Seq(Steps) \ {<<>>} /\ Len(c.todo) \in Nat \ {0}
         /\ DOMAIN c.todo = 1..Len(c.todo) /\ 1 \in DOMAIN c.todo
         /\ Head(c.todo) = c.todo[1]
         /\ c.got \in ServerTypes
  <1>1. c \in CallRecords
    BY DEF CallTypes
  <1>2. c.todo \in Seq(Steps) \ {<<>>} /\ c.got \in ServerTypes
    BY <1>1 DEF CallRecords
  <1> QED
    BY <1>1, <1>2, TailIs

\* What is taken up by an own list's call touches it.
LEMMA OwnTouches ==
  ASSUME NEW c \in CallTypes, Now(c, "own") \/ Yet(c, "own")
  PROVE  c.alive /\ Touches(c.h.writes, c.todo)
  <1>1. \A x : "own" \in Reads(x) => x = "reload"
    BY DEF Reads
  <1>2. CASE Now(c, "own")
    <2>1. c.alive /\ ("own" \in c.h.writes \/ c.todo[1].do = "reload")
      BY <1>1, <1>2, HeadIs DEF Now, Heard, Takes
    <2> QED
      BY <2>1, HeadIs DEF Touches
  <1>3. CASE Yet(c, "own")
    <2>1. PICK k \in 2..Len(c.todo) : "own" \in Reads(c.todo[k].do)
      BY <1>3 DEF Yet
    <2>2. k \in DOMAIN c.todo /\ c.todo[k].do = "reload"
      BY <1>1, <2>1, HeadIs
    <2> QED
      BY <1>3, <2>2 DEF Yet, Heard, Touches
  <1> QED
    BY <1>2, <1>3

\* A call is sent: what it writes will be read, shown, noted or left behind.
LEMMA SentCurrent ==
  ASSUME NEW cs \in Seq(CallTypes), NEW n \in CallTypes, Served(n),
         NEW s0 \in ServerTypes, n.got \in ServerTypes, NEW shn, NEW ex0, NEW ex1,
         NEW d \in Data,
         n.got[d] # s0[d] => d \in n.h.writes /\ Writes(Head(n.todo).do),
         Writes(Head(n.todo).do) => n.h.leaves \subseteq ex1,
         Writes(Head(n.todo).do) /\ "own" \in n.h.writes => n.alive,
         ex0 \subseteq ex1,
         CurrentIn(d, cs, s0, shn, ex0) \/ Now(n, d) \/ Yet(n, d)
  PROVE  CurrentIn(d, Append(cs, n), n.got, shn, ex1)
  <1> DEFINE t == Append(cs, n)
             m == Len(cs) + 1
  <1>1. /\ DOMAIN t = 1..m /\ DOMAIN cs = 1..Len(cs) /\ Len(cs) \in Nat /\ t[m] = n
        /\ \A i \in DOMAIN cs : i \in DOMAIN t /\ t[i] = cs[i]
        /\ \A i \in DOMAIN t : i = m \/ (i \in DOMAIN cs /\ t[i] = cs[i])
        /\ m \in DOMAIN t
    OBVIOUS
  <1> HIDE DEF t, m
  <1>2. ASSUME Now(n, d) PROVE CurrentIn(d, t, n.got, shn, ex1)
    BY <1>1, <1>2 DEF CurrentIn
  <1>3. ASSUME Yet(n, d) PROVE CurrentIn(d, t, n.got, shn, ex1)
    BY <1>1, <1>3 DEF CurrentIn
  <1>4. ASSUME ~Now(n, d), ~Yet(n, d), n.got[d] # s0[d]
        PROVE  CurrentIn(d, t, n.got, shn, ex1)
    <2>1. d \in n.h.writes /\ Writes(n.todo[1].do) /\ Heard(n, d) /\ n.h.leaves \subseteq ex1
      BY <1>4, HeadIs DEF Heard
    <2>2. CASE d \in n.h.leaves
      BY <2>1, <2>2 DEF CurrentIn
    <2>3. CASE d \notin n.h.leaves
      <3>1. \/ "patch" \in n.todo[1].then
            \/ \E k \in DOMAIN n.todo : k > 1 /\ d \in Reads(n.todo[k].do)
            \/ d = "family" /\ "dirty" \in n.todo[1].then
        BY <2>1, <2>3, HeadIs DEF Served, Serves, Covers
      <3>2. "patch" \notin n.todo[1].then
        BY <1>4, <2>1, HeadIs DEF Now, Takes
      <3>3. ~ \E k \in DOMAIN n.todo : k > 1 /\ d \in Reads(n.todo[k].do)
        BY <1>4, <2>1, HeadIs DEF Yet
      <3>4. d = "family" /\ Due(n)
        BY <3>1, <3>2, <3>3, HeadIs DEF Served, Serves, Due
      <3> QED
        BY <1>1, <3>4 DEF CurrentIn
    <2> QED
      BY <2>2, <2>3
  <1>5. ASSUME ~Now(n, d), ~Yet(n, d), n.got[d] = s0[d]
        PROVE  CurrentIn(d, t, n.got, shn, ex1)
    <2>1. CurrentIn(d, cs, s0, shn, ex0)
      BY <1>5
    <2>2. CASE d \in ex0
      BY <2>2 DEF CurrentIn
    <2>3. CASE \E i \in DOMAIN cs : Yet(cs[i], d) \/ (d = "family" /\ Due(cs[i]))
      BY <1>1, <2>3 DEF CurrentIn
    <2>4. CASE \E i \in DOMAIN cs : Now(cs[i], d) /\ cs[i].got[d] = s0[d]
      BY <1>1, <1>5, <2>4 DEF CurrentIn
    <2>5. CASE /\ \A i \in DOMAIN cs : ~Now(cs[i], d)
               /\ shn[d] = s0[d] \/ (d = "own" /\ shn.own = Null)
      <3>1. \A i \in DOMAIN t : ~Now(t[i], d)
        BY <1>1, <1>5, <2>5
      <3> QED
        BY <1>5, <2>5, <3>1 DEF CurrentIn
    <2> QED
      BY <2>1, <2>2, <2>3, <2>4, <2>5 DEF CurrentIn
  <1> QED
    BY <1>2, <1>3, <1>4, <1>5 DEF t

\* A part that is gone hears of nothing: of the calls for its own list, none is for a list
\* that is still there.
LEMMA UnmountCurrent ==
  ASSUME NEW cs \in Seq(CallTypes), NEW parts, NEW d \in Data, NEW srv, NEW shn, NEW ex,
         CurrentIn(d, cs, srv, shn, ex),
         d = "own" => \A i \in DOMAIN cs :
           cs[i].alive /\ Touches(cs[i].h.writes, cs[i].todo) => cs[i].part \notin parts
  PROVE  CurrentIn(d, Unmounted(cs, parts), srv, shn, ex)
  <1> DEFINE t == Unmounted(cs, parts)
  <1>1. t \in Seq(CallTypes) /\ DOMAIN t = DOMAIN cs
    <2>1. t \in Seq(CallTypes) /\ Len(t) = Len(cs)
      BY UnmountedIs
    <2> HIDE DEF t
    <2> QED
      BY <2>1
  <1>2. ASSUME NEW i \in DOMAIN cs
        PROVE  /\ Now(t[i], d) <=> Now(cs[i], d)
               /\ Yet(t[i], d) <=> Yet(cs[i], d)
               /\ Due(t[i]) <=> Due(cs[i])
               /\ t[i].got = cs[i].got
    <2>1. /\ t[i].h = cs[i].h /\ t[i].todo = cs[i].todo /\ t[i].got = cs[i].got
          /\ t[i].alive <=> cs[i].alive /\ cs[i].part \notin parts
      BY <1>2, UnmountedIs
    <2>2. cs[i] \in CallTypes
      OBVIOUS
    <2>3. Now(cs[i], d) \/ Yet(cs[i], d) => Heard(t[i], d)
      BY <2>1, <2>2, OwnTouches DEF Heard
    <2>4. Heard(t[i], d) => Heard(cs[i], d)
      BY <2>1 DEF Heard
    <2> HIDE DEF t
    <2> QED
      BY <2>1, <2>3, <2>4 DEF Now, Yet, Due, Takes
  <1> HIDE DEF t
  <1>3. CurrentIn(d, t, srv, shn, ex)
    BY <1>1, <1>2 DEF CurrentIn
  <1> QED
    BY <1>3 DEF t

LEMMA UnmountKeeps ==
  ASSUME NEW cs \in Seq(CallTypes), NEW parts, NEW srv, NEW r,
         \A i \in DOMAIN cs : Served(cs[i]), GotInv(cs, srv), OwnInv(cs, r)
  PROVE  LET t == Unmounted(cs, parts) IN
         (\A i \in DOMAIN t : Served(t[i])) /\ GotInv(t, srv) /\ OwnInv(t, r)
  <1> DEFINE t == Unmounted(cs, parts)
  <1>1. t \in Seq(CallTypes) /\ DOMAIN t = DOMAIN cs
    <2>1. t \in Seq(CallTypes) /\ Len(t) = Len(cs)
      BY UnmountedIs
    <2> HIDE DEF t
    <2> QED
      BY <2>1
  <1>2. \A i \in DOMAIN cs :
          /\ t[i].h = cs[i].h /\ t[i].todo = cs[i].todo /\ t[i].got = cs[i].got
          /\ t[i].sheet = cs[i].sheet /\ t[i].part = cs[i].part
          /\ t[i].alive => cs[i].alive
    BY UnmountedIs
  <1> HIDE DEF t
  <1>3. \A i \in DOMAIN t : Served(t[i])
    BY <1>1, <1>2 DEF Served
  <1>4. GotInv(t, srv)
    BY <1>1, <1>2 DEF GotInv
  <1>5. OwnInv(t, r)
    BY <1>1, <1>2 DEF OwnInv
  <1> QED
    BY <1>3, <1>4, <1>5 DEF t

\* A call is sent after the others.
LEMMA SendKeeps ==
  ASSUME NEW cs \in Seq(CallTypes), NEW n \in CallTypes, NEW s0 \in ServerTypes, NEW r,
         n.got \in ServerTypes, \A d \in Data : s0[d] <= n.got[d],
         \A i \in DOMAIN cs : Served(cs[i]), GotInv(cs, s0), OwnInv(cs, r),
         Served(n),
         n.alive /\ Touches(n.h.writes, n.todo) => Belongs(n.part, r)
  PROVE  LET t == Append(cs, n) IN
         (\A i \in DOMAIN t : Served(t[i])) /\ GotInv(t, n.got) /\ OwnInv(t, r)
  <1> DEFINE t == Append(cs, n)
             m == Len(cs) + 1
  <1>1. /\ DOMAIN t = 1..m /\ DOMAIN cs = 1..Len(cs) /\ Len(cs) \in Nat /\ t[m] = n
        /\ \A i \in DOMAIN t : i = m \/ (i \in DOMAIN cs /\ t[i] = cs[i] /\ i < m)
    OBVIOUS
  <1>2. \A i \in DOMAIN cs : \A d \in Data : cs[i].got[d] \in Nat
    <2> TAKE i \in DOMAIN cs
    <2>1. cs[i].got \in ServerTypes
      BY HeadIs
    <2> QED
      BY <2>1 DEF ServerTypes, Data
  <1>3. \A d \in Data : s0[d] \in Nat /\ n.got[d] \in Nat
    BY DEF ServerTypes, Data
  <1> HIDE DEF t, m
  <1>4. \A i \in DOMAIN t : Served(t[i])
    BY <1>1
  <1>5. GotInv(t, n.got)
    <2> SUFFICES ASSUME NEW d \in Data, NEW i \in DOMAIN t
                 PROVE  /\ t[i].got[d] <= n.got[d]
                        /\ \A j \in DOMAIN t : i < j => t[i].got[d] <= t[j].got[d]
      BY DEF GotInv
    <2>1. s0[d] <= n.got[d] /\ s0[d] \in Nat /\ n.got[d] \in Nat
      BY <1>3
    <2>2. CASE i = m
      BY <1>1, <2>1, <2>2
    <2>3. CASE i \in DOMAIN cs /\ t[i] = cs[i]
      <3>1. cs[i].got[d] <= s0[d] /\ cs[i].got[d] \in Nat
        BY <1>2, <2>3 DEF GotInv
      <3>2. \A j \in DOMAIN cs : i < j => cs[i].got[d] <= cs[j].got[d]
        BY <2>3 DEF GotInv
      <3> QED
        BY <1>1, <2>1, <2>3, <3>1, <3>2
    <2> QED
      BY <1>1, <2>2, <2>3
  <1>6. OwnInv(t, r)
    BY <1>1 DEF OwnInv
  <1> QED
    BY <1>4, <1>5, <1>6 DEF t

\* What a send leaves of all this: put is what a refresh was put off for.
LEMMA SendCalm ==
  ASSUME NEW cs \in Seq(CallTypes), NEW c \in CallTypes, server \in ServerTypes, NEW unread,
         NEW put, NEW r, NEW shn,
         Send(cs, c, unread),
         \A i \in DOMAIN cs : Served(cs[i]), GotInv(cs, server), OwnInv(cs, r),
         "own" \notin unread, Served(c),
         c.alive /\ Touches(c.h.writes, c.todo) => Belongs(c.part, r),
         Writes(Head(c.todo).do) /\ "own" \in c.h.writes => c.alive,
         \A d \in Data : CurrentIn(d, cs, server, shn, unread \cup put) \/ Now(c, d) \/ Yet(c, d)
  PROVE  /\ \A i \in DOMAIN calls' : Served(calls'[i])
         /\ GotInv(calls', server') /\ OwnInv(calls', r) /\ "own" \notin behind'
         /\ \A d \in Data : CurrentIn(d, calls', server', shn, behind' \cup put)
  <1>1. /\ server' \in ServerTypes
        /\ \A d \in Data :
             /\ server[d] <= server'[d]
             /\ server'[d] # server[d] => d \in c.h.writes /\ Writes(Head(c.todo).do)
        /\ behind' = IF Writes(Head(c.todo).do) THEN unread \cup c.h.leaves ELSE unread
    BY SendIs
  <1>2. PICK n \in CallTypes :
          /\ calls' = Append(cs, n) /\ n.got = server' /\ n.h = c.h /\ n.todo = c.todo
          /\ SameCall(n, c)
    BY SendIs
  <1>3. /\ Served(n) /\ n.alive = c.alive /\ n.part = c.part
        /\ \A d : (Now(n, d) <=> Now(c, d)) /\ (Yet(n, d) <=> Yet(c, d))
    BY <1>2 DEF SameCall, Served, Now, Yet, Heard, Takes
  <1>4. /\ \A i \in DOMAIN calls' : Served(calls'[i])
        /\ GotInv(calls', server') /\ OwnInv(calls', r)
    <2>1. n.alive /\ Touches(n.h.writes, n.todo) => Belongs(n.part, r)
      BY <1>2, <1>3
    <2> QED
      BY <1>1, <1>2, <1>3, <2>1, SendKeeps
  <1>5. "own" \notin behind'
    BY <1>1 DEF Served
  <1>6. ASSUME NEW d \in Data PROVE CurrentIn(d, calls', server', shn, behind' \cup put)
    <2> DEFINE ex0 == unread \cup put
               ex1 == behind' \cup put
    <2>1. /\ n.got[d] # server[d] => d \in n.h.writes /\ Writes(Head(n.todo).do)
          /\ Writes(Head(n.todo).do) => n.h.leaves \subseteq ex1
          /\ Writes(Head(n.todo).do) /\ "own" \in n.h.writes => n.alive
          /\ ex0 \subseteq ex1
      BY <1>1, <1>2, <1>3
    <2>2. CurrentIn(d, cs, server, shn, ex0) \/ Now(n, d) \/ Yet(n, d)
      BY <1>3
    <2> HIDE DEF ex0, ex1
    <2>3. CurrentIn(d, Append(cs, n), n.got, shn, ex1)
      BY <1>1, <1>2, <1>3, <2>1, <2>2, SentCurrent
    <2> QED
      BY <1>2, <2>3 DEF ex1
  <1> QED
    BY <1>4, <1>5, <1>6

\* A handler's first call has all of its steps before it.
LEMMA CallServed ==
  ASSUME HistInv, TypeInv, NEW h, Good(h), NEW part \in Parts, NEW adj \in Int,
         adj # 0 => form # Null /\ form.stands,
         ui.sheet = "account" /\ part # "box" => Finishes(h.steps)
  PROVE  Served(Call(h, part, adj))
  <1>1. /\ Call(h, part, adj).h = h /\ Call(h, part, adj).todo = h.steps
        /\ Call(h, part, adj).sheet = ui.sheet /\ Call(h, part, adj).part = part
    BY CallIs
  <1>2. Serves(h.writes, h.leaves, h.steps) /\ h.leaves \subseteq {"family", "bell"}
    BY DEF Good, Fits, Handlers
  <1> QED
    BY <1>1, <1>2 DEF Served

LEMMA AccountFinishes ==
  \A h \in {ToggleSms, SaveAccount, AdjustAccount, ImportedByReader} : Finishes(h.steps)
  <1>1. Finishes(ToggleSms.steps)
    BY DEF ToggleSms, Handler, Await, Finishes
  <1>2. Finishes(SaveAccount.steps)
    BY DEF SaveAccount, CloseThenRefresh, Handler, Await, Finishes
  <1>3. Finishes(AdjustAccount.steps)
    BY DEF AdjustAccount, Handler, Await, Finishes
  <1>4. Finishes(ImportedByReader.steps)
    BY DEF ImportedByReader, Handler, Await, Finishes
  <1> QED
    BY <1>1, <1>2, <1>3, <1>4

LEMMA StartCalm ==
  ASSUME HistInv, TypeInv, CalmInv, NEW h, NEW part, NEW adj, Starting(h, part, adj)
  PROVE  CalmInv'
  <1> DEFINE c == Call(h, part, adj)
             put == {d \in {"family"} : smsDirty /\ form # Null}
  <1>1. /\ c \in CallTypes /\ c.h = h /\ c.todo = h.steps /\ c.part = part /\ c.alive
    BY CallIs DEF Starting
  <1>2. Served(c)
    BY AccountFinishes, CallServed DEF Starting
  <1>3. c.alive /\ Touches(c.h.writes, c.todo) => Belongs(c.part, route)
    BY <1>1 DEF Starting, Private
  <1>4. Send(calls, c, behind)
    BY DEF Starting
  <1>5. Excused = behind \cup put /\ Excused' = behind' \cup put
    BY DEF Excused, Starting
  <1>6. /\ \A i \in DOMAIN calls : Served(calls[i])
        /\ GotInv(calls, server) /\ OwnInv(calls, route) /\ "own" \notin behind
        /\ \A d \in Data : CurrentIn(d, calls, server, shown, behind \cup put)
        /\ calls \in Seq(CallTypes) /\ server \in ServerTypes
    BY <1>5 DEF CalmInv, TypeInv
  <1> HIDE DEF c, put
  <1>7. /\ \A i \in DOMAIN calls' : Served(calls'[i])
        /\ GotInv(calls', server') /\ OwnInv(calls', route) /\ "own" \notin behind'
        /\ \A d \in Data : CurrentIn(d, calls', server', shown, behind' \cup put)
    BY <1>1, <1>2, <1>3, <1>4, <1>6, SendCalm
  <1>8. route' = route /\ shown' = shown
    BY DEF Starting
  <1> QED
    BY <1>5, <1>7, <1>8 DEF CalmInv

LEMMA PlainFinishes == Finishes(Refresh.steps) /\ Finishes(Reload.steps)
  <1>1. Finishes(Refresh.steps)
    BY DEF Refresh, Handler, Await, Finishes
  <1>2. Finishes(Reload.steps)
    BY DEF Reload, Handler, Await, Finishes
  <1> QED
    BY <1>1, <1>2

\* What a move leaves of the calls: no list of its own is awaited that is not there.
LEMMA LeftCalm ==
  ASSUME HistInv, TypeInv, CalmInv, NEW r, NEW u, MovesWell(r, u)
  PROVE  LET left == Unmounted(calls, Gone(r, u)) IN
         /\ left \in Seq(CallTypes)
         /\ (\A i \in DOMAIN left : Served(left[i])) /\ GotInv(left, server) /\ OwnInv(left, r)
         /\ \A d \in Data : CurrentIn(d, left, server, shown', Excused)
  <1> DEFINE left == Unmounted(calls, Gone(r, u))
             x == IF Remounts(r, u) THEN Null ELSE shown.own
  <1>0. /\ calls \in Seq(CallTypes) /\ OwnInv(calls, route) /\ GotInv(calls, server)
        /\ \A i \in DOMAIN calls : Served(calls[i])
        /\ \A d \in Data : CurrentIn(d, calls, server, shown, Excused)
    BY DEF TypeInv, CalmInv
  <1>1. left \in Seq(CallTypes) /\ DOMAIN left = DOMAIN calls
    <2>1. left \in Seq(CallTypes) /\ Len(left) = Len(calls)
      BY <1>0, UnmountedIs
    <2> HIDE DEF left
    <2> QED
      BY <1>0, <2>1
  <1>2. \A i \in DOMAIN calls :
          /\ left[i].h = calls[i].h /\ left[i].todo = calls[i].todo
          /\ left[i].part = calls[i].part
          /\ left[i].alive <=> calls[i].alive /\ calls[i].part \notin Gone(r, u)
    BY <1>0, UnmountedIs
  <1>3. (\A i \in DOMAIN left : Served(left[i])) /\ GotInv(left, server) /\ OwnInv(left, route)
    BY <1>0, UnmountKeeps
  <1>4. shown' = [shown EXCEPT !.own = x]
    BY DEF MovesWell, Move, TypeInv, ShownTypes
  <1>5. shown'.family = shown.family /\ shown'.bell = shown.bell /\ shown'.own = x
    <2> HIDE DEF x
    <2> QED
      BY <1>4 DEF TypeInv, ShownTypes
  <1> HIDE DEF left
  <1>6. ASSUME NEW d \in Data, d # "own"
        PROVE  CurrentIn(d, left, server, shown', Excused)
    <2>1. CurrentIn(d, left, server, shown, Excused)
      BY <1>0, <1>6, UnmountCurrent DEF left
    <2>2. shown'[d] = shown[d]
      BY <1>5, <1>6 DEF Data
    <2> QED
      BY <1>6, <2>1, <2>2 DEF CurrentIn
  <1>7. CASE Remounts(r, u)
    <2>1. \A p : Belongs(p, route) => p \in Gone(r, u)
      BY <1>7 DEF Remounts, Belongs, Gone
    <2>2. \A i \in DOMAIN left : ~(left[i].alive /\ Touches(left[i].h.writes, left[i].todo))
      BY <1>0, <1>1, <1>2, <2>1 DEF OwnInv
    <2>3. OwnInv(left, r)
      BY <2>2 DEF OwnInv
    <2>4. CurrentIn("own", left, server, shown', Excused)
      <3>1. \A i \in DOMAIN left : ~Now(left[i], "own")
        BY <1>1, <2>2, OwnTouches
      <3>2. shown'.own = Null
        BY <1>5, <1>7
      <3> QED
        BY <3>1, <3>2 DEF CurrentIn
    <2> QED
      BY <1>1, <1>3, <1>6, <2>3, <2>4 DEF left
  <1>8. CASE ~Remounts(r, u)
    <2>1. r = route /\ \A p : Belongs(p, route) => p \notin Gone(r, u)
      BY <1>8 DEF Remounts, Belongs, Gone
    <2>2. CurrentIn("own", left, server, shown, Excused)
      <3>1. "own" \in Data
        BY DEF Data
      <3>2. \A i \in DOMAIN calls : calls[i].alive /\ Touches(calls[i].h.writes, calls[i].todo)
              => calls[i].part \notin Gone(r, u)
        BY <1>0, <2>1 DEF OwnInv
      <3> QED
        BY <1>0, <3>1, <3>2, UnmountCurrent DEF left
    <2>3. CurrentIn("own", left, server, shown', Excused)
      <3>1. shown'["own"] = shown["own"] /\ shown'.own = shown.own
        BY <1>5, <1>8
      <3> QED
        BY <2>2, <3>1 DEF CurrentIn
    <2> QED
      BY <1>1, <1>3, <1>6, <2>1, <2>3 DEF left
  <1> QED
    BY <1>7, <1>8

LEMMA MoveCalm ==
  ASSUME HistInv, TypeInv, CalmInv, NEW r, NEW u, MovesWell(r, u)
  PROVE  CalmInv'
  <1> DEFINE left == Unmounted(calls, Gone(r, u))
             put == {d \in {"family"} : smsDirty' /\ form' # Null}
  <1>1. /\ left \in Seq(CallTypes) /\ server \in ServerTypes /\ "own" \notin behind
        /\ (\A i \in DOMAIN left : Served(left[i])) /\ GotInv(left, server) /\ OwnInv(left, r)
        /\ \A d \in Data : CurrentIn(d, left, server, shown', Excused)
    BY LeftCalm DEF CalmInv, TypeInv
  <1>2. /\ route' = r /\ Excused' = behind' \cup put
        /\ smsDirty' = (smsDirty /\ ~ClosesAccount(u) /\ ~Remounts(r, u))
        /\ form' = IF ClosesAccount(u) THEN Null ELSE form
        /\ Remounts(r, u) => form = Null /\ ui.sheet # "account"
    BY DEF MovesWell, Move, Excused, TypeInv, FormInv
  <1>3. Excused \subseteq behind \cup put \/ (ClosesAccount(u) /\ smsDirty /\ ~Remounts(r, u))
    BY <1>2 DEF Excused
  <1> HIDE DEF left, put
  <1>4. ASSUME Excused \subseteq behind \cup put
        PROVE  \A d \in Data : CurrentIn(d, left, server, shown', behind \cup put)
    BY <1>1, <1>4 DEF CurrentIn
  <1>5. CASE Remounts(r, u) /\ ScreenAt(r, u).own
    <2> DEFINE part == IF u.section = Null THEN "page" ELSE "section"
               c == Call(Reload, part, 0)
    <2>1. Send(left, c, behind)
      BY <1>5 DEF MovesWell, Move, left
    <2>2. part \in Parts
      BY DEF Parts
    <2>3. Belongs(part, r)
      <3>1. r = "settings" => u.section # Null
        BY <1>5, PagesAreGood DEF ScreenAt
      <3>2. r # "settings" => u.section = Null
        BY <1>5 DEF Remounts, MovesWell
      <3> QED
        BY <3>1, <3>2 DEF Belongs
    <2>4. c \in CallTypes /\ c.h = Reload /\ c.todo = Reload.steps /\ c.part = part
      BY <2>2, ReloadIs, CallIs
    <2>5. Served(c)
      BY <1>2, <1>5, <2>2, ReloadIs, CallServed
    <2>6. ~Writes(Head(c.todo).do)
      BY <2>4 DEF Reload, Handler, Await, Writes
    <2> HIDE DEF c, part
    <2>7. \A d \in Data : CurrentIn(d, left, server, shown', behind \cup put)
      BY <1>3, <1>4, <1>5
    <2> QED
      BY <1>1, <1>2, <2>1, <2>3, <2>4, <2>5, <2>6, <2>7, SendCalm DEF CalmInv
  <1>6. CASE ~(Remounts(r, u) /\ ScreenAt(r, u).own) /\ ClosesAccount(u) /\ smsDirty
    <2> DEFINE c == Call(Refresh, "page", 0)
    <2>1. Send(left, c, behind)
      BY <1>6 DEF MovesWell, Move, left
    <2>2. "page" \in Parts
      BY DEF Parts
    <2>3. /\ c \in CallTypes /\ c.h = Refresh /\ c.todo = Refresh.steps /\ c.alive
      BY <2>2, ReloadIs, CallIs
    <2>4. Served(c)
      BY <2>2, ReloadIs, PlainFinishes, CallServed
    <2>5. ~Writes(Head(c.todo).do) /\ ~Touches(c.h.writes, c.todo)
      <3>1. ~Writes(Head(Refresh.steps).do)
        BY DEF Refresh, Handler, Await, Writes
      <3> QED
        BY <2>3, <3>1, ReloadIs DEF Private
    <2>6. Now(c, "family")
      <3>1. "family" \in Reads(Head(Refresh.steps).do)
        BY DEF Refresh, Handler, Await, Reads
      <3> QED
        BY <2>3, <3>1 DEF Now, Heard, Takes
    <2> HIDE DEF c
    <2>7. \A d \in Data : CurrentIn(d, left, server, shown', behind \cup put) \/ Now(c, d)
      <3>1. ASSUME NEW d \in Data, d # "family"
            PROVE  CurrentIn(d, left, server, shown', behind \cup put)
        <4>1. CurrentIn(d, left, server, shown', Excused)
          BY <1>1
        <4>2. d \in Excused => d \in behind \cup put
          BY <3>1 DEF Excused
        <4> QED
          BY <3>1, <4>1, <4>2 DEF CurrentIn
      <3> QED
        BY <2>6, <3>1
    <2> QED
      BY <1>1, <1>2, <2>1, <2>3, <2>4, <2>5, <2>7, SendCalm DEF CalmInv
  <1>7. CASE ~(Remounts(r, u) /\ ScreenAt(r, u).own) /\ ~(ClosesAccount(u) /\ smsDirty)
    <2>1. calls' = left /\ server' = server /\ behind' = behind
      BY <1>7 DEF MovesWell, Move, left
    <2>2. \A d \in Data : CurrentIn(d, left, server, shown', behind \cup put)
      BY <1>3, <1>4, <1>7
    <2> QED
      BY <1>1, <1>2, <2>1, <2>2 DEF CalmInv
  <1> QED
    BY <1>5, <1>6, <1>7

\* The first call is answered: what is shown is what it took up, and every later answer is
\* as new.
LEMMA RestCurrent ==
  ASSUME NEW cs \in Seq(CallTypes), Len(cs) # 0, NEW srv \in ServerTypes, GotInv(cs, srv),
         NEW d \in Data, NEW shn, NEW ex, CurrentIn(d, cs, srv, shn, ex),
         NEW shn2, NEW ex2,
         ~Now(cs[1], d) => shn2[d] = shn[d],
         Now(cs[1], d) => shn2[d] = cs[1].got[d],
         d \in ex => d \in ex2 \/ Yet(cs[1], d) \/ (Now(cs[1], d) /\ cs[1].got[d] = srv[d]),
         d = "family" /\ Due(cs[1]) => d \in ex2
  PROVE  CurrentIn(d, RemoveAt(cs, 1), srv, shn2, ex2) \/ Yet(cs[1], d)
  <1> DEFINE t == RemoveAt(cs, 1)
             c == cs[1]
  <1>1. /\ t \in Seq(CallTypes) /\ DOMAIN t = 1..(Len(cs) - 1)
        /\ DOMAIN cs = 1..Len(cs) /\ Len(cs) \in Nat \ {0}
        /\ \A j \in DOMAIN t : t[j] = cs[j + 1] /\ j + 1 \in DOMAIN cs
        /\ \A i \in DOMAIN cs : i = 1 \/ (i - 1 \in DOMAIN t /\ t[i - 1] = cs[i])
    <2>1. Len(cs) \in Nat \ {0} /\ 1 \in 1..Len(cs) /\ DOMAIN cs = 1..Len(cs)
      OBVIOUS
    <2>2. /\ t \in Seq(CallTypes) /\ Len(t) = Len(cs) - 1
          /\ \A j \in 1..(Len(cs) - 1) : t[j] = IF j < 1 THEN cs[j] ELSE cs[j + 1]
      BY <2>1, RemoveAtIs
    <2> HIDE DEF t
    <2>3. DOMAIN t = 1..(Len(cs) - 1)
      BY <2>1, <2>2
    <2> QED
      BY <2>1, <2>2, <2>3
  <1>2. \A j \in DOMAIN t : c.got[d] <= t[j].got[d] /\ t[j].got[d] <= srv[d]
    <2>1. 1 \in DOMAIN cs /\ \A j \in DOMAIN t : 1 < j + 1
      BY <1>1
    <2> HIDE DEF t
    <2> QED
      BY <1>1, <2>1 DEF GotInv
  <1>3. /\ srv[d] \in Nat /\ c.got[d] \in Nat
        /\ \A j \in DOMAIN t : t[j].got[d] \in Nat
    <2>1. c.got \in ServerTypes /\ \A j \in DOMAIN t : t[j].got \in ServerTypes
      BY <1>1, HeadIs
    <2> QED
      BY <2>1 DEF ServerTypes, Data
  <1> HIDE DEF t, c
  <1> SUFFICES ASSUME ~Yet(c, d), d \notin ex2 PROVE CurrentIn(d, t, srv, shn2, ex2)
    BY DEF t, c, CurrentIn
  <1>4. CASE Now(c, d) /\ c.got[d] = srv[d]
    <2>1. \A j \in DOMAIN t : t[j].got[d] = srv[d]
      BY <1>2, <1>3, <1>4
    <2>2. shn2[d] = srv[d]
      BY <1>4 DEF c
    <2> QED
      BY <2>1, <2>2 DEF CurrentIn
  <1>5. CASE ~(Now(c, d) /\ c.got[d] = srv[d])
    <2>1. d \notin ex /\ ~(d = "family" /\ Due(c))
      BY <1>5 DEF c
    <2>2. CASE \E i \in DOMAIN cs : Yet(cs[i], d) \/ (d = "family" /\ Due(cs[i]))
      <3>1. \E j \in DOMAIN t : Yet(t[j], d) \/ (d = "family" /\ Due(t[j]))
        BY <1>1, <2>1, <2>2 DEF c
      <3> QED
        BY <3>1 DEF CurrentIn
    <2>3. CASE \E i \in DOMAIN cs : Now(cs[i], d) /\ cs[i].got[d] = srv[d]
      <3>1. \E j \in DOMAIN t : Now(t[j], d) /\ t[j].got[d] = srv[d]
        BY <1>1, <1>5, <2>3 DEF c
      <3> QED
        BY <3>1 DEF CurrentIn
    <2>4. CASE /\ \A i \in DOMAIN cs : ~Now(cs[i], d)
               /\ shn[d] = srv[d] \/ (d = "own" /\ shn.own = Null)
      <3>1. shn2[d] = shn[d] /\ \A j \in DOMAIN t : ~Now(t[j], d)
        BY <1>1, <2>4 DEF c
      <3> QED
        BY <2>4, <3>1 DEF CurrentIn
    <2> QED
      BY <2>1, <2>2, <2>3, <2>4 DEF CurrentIn
  <1> QED
    BY <1>4, <1>5

LEMMA RestKeeps ==
  ASSUME NEW cs \in Seq(CallTypes), Len(cs) # 0, NEW srv, NEW r,
         \A i \in DOMAIN cs : Served(cs[i]), GotInv(cs, srv), OwnInv(cs, r)
  PROVE  LET t == RemoveAt(cs, 1) IN
         /\ t \in Seq(CallTypes)
         /\ (\A i \in DOMAIN t : Served(t[i])) /\ GotInv(t, srv) /\ OwnInv(t, r)
  <1> DEFINE t == RemoveAt(cs, 1)
  <1>1. /\ t \in Seq(CallTypes) /\ DOMAIN t = 1..(Len(cs) - 1)
        /\ DOMAIN cs = 1..Len(cs) /\ Len(cs) \in Nat \ {0}
        /\ \A j \in DOMAIN t : t[j] = cs[j + 1] /\ j + 1 \in DOMAIN cs
    <2>1. Len(cs) \in Nat \ {0} /\ 1 \in 1..Len(cs) /\ DOMAIN cs = 1..Len(cs)
      OBVIOUS
    <2>2. /\ t \in Seq(CallTypes) /\ Len(t) = Len(cs) - 1
          /\ \A j \in 1..(Len(cs) - 1) : t[j] = IF j < 1 THEN cs[j] ELSE cs[j + 1]
      BY <2>1, RemoveAtIs
    <2> HIDE DEF t
    <2>3. DOMAIN t = 1..(Len(cs) - 1)
      BY <2>1, <2>2
    <2> QED
      BY <2>1, <2>2, <2>3
  <1> HIDE DEF t
  <1>2. \A i \in DOMAIN t : Served(t[i])
    BY <1>1
  <1>3. GotInv(t, srv)
    <2> SUFFICES ASSUME NEW d \in Data, NEW i \in DOMAIN t
                 PROVE  /\ t[i].got[d] <= srv[d]
                        /\ \A j \in DOMAIN t : i < j => t[i].got[d] <= t[j].got[d]
      BY DEF GotInv
    <2>1. t[i] = cs[i + 1] /\ i + 1 \in DOMAIN cs
      BY <1>1
    <2>2. \A j \in DOMAIN t : i < j => i + 1 < j + 1
      BY <1>1
    <2> QED
      BY <1>1, <2>1, <2>2 DEF GotInv
  <1>4. OwnInv(t, r)
    BY <1>1 DEF OwnInv
  <1> QED
    BY <1>1, <1>2, <1>3, <1>4 DEF t

\* A call with a step less: what it was yet to read it now reads, or is yet to read.
LEMMA NextServed ==
  ASSUME NEW c \in CallTypes, Served(c), Len(c.todo) # 1,
         NEW n \in CallTypes, n.todo = Tail(c.todo), SameCall(n, c),
         n.h.writes = c.h.writes, n.h.leaves = c.h.leaves
  PROVE  /\ Served(n)
         /\ ~(Writes(Head(n.todo).do) /\ "own" \in n.h.writes)
         /\ Touches(n.h.writes, n.todo) => Touches(c.h.writes, c.todo)
         /\ \A d : Yet(c, d) => Now(n, d) \/ Yet(n, d)
  <1> DEFINE m == Len(c.todo)
  <1>1. /\ m \in Nat \ {0, 1} /\ DOMAIN c.todo = 1..m /\ DOMAIN n.todo = 1..(m - 1)
        /\ \A k \in DOMAIN n.todo : n.todo[k] = c.todo[k + 1] /\ k + 1 \in DOMAIN c.todo
        /\ \A k \in 2..m : k - 1 \in DOMAIN n.todo /\ n.todo[k - 1] = c.todo[k]
        /\ Head(n.todo) = n.todo[1] /\ 1 \in DOMAIN n.todo /\ Len(n.todo) = m - 1
    <2>1. c.todo \in Seq(Steps) \ {<<>>} /\ m \in Nat \ {0, 1} /\ DOMAIN c.todo = 1..m
      BY HeadIs
    <2>2. /\ Len(n.todo) = m - 1
          /\ \A k \in 1..(m - 1) : n.todo[k] = c.todo[k + 1]
      BY <2>1, TailIs
    <2>3. Head(n.todo) = n.todo[1] /\ DOMAIN n.todo = 1..Len(n.todo)
      BY HeadIs
    <2> HIDE DEF m
    <2> QED
      BY <2>1, <2>2, <2>3
  <1> HIDE DEF m
  <1>2. /\ Serves(c.h.writes, c.h.leaves, c.todo)
        /\ c.sheet = "account" /\ c.part # "box" => Finishes(c.todo)
        /\ c.h.leaves \subseteq {"family", "bell"}
    BY DEF Served
  <1>3. \A j \in DOMAIN n.todo : "dirty" \notin n.todo[j].then
    <2>1. Len(<<Await("call", {"dirty"})>>) = 1
      OBVIOUS
    <2>2. m = Len(c.todo)
      BY DEF m
    <2>3. c.todo # <<Await("call", {"dirty"})>>
      BY <1>1, <2>1, <2>2
    <2> QED
      BY <1>1, <1>2, <2>3 DEF Serves
  <1>4. Serves(n.h.writes, n.h.leaves, n.todo)
    <2>1. ASSUME NEW j \in DOMAIN n.todo, Writes(n.todo[j].do)
          PROVE  Covers(n.h.writes \ n.h.leaves, n.todo, j)
      <3>1. Covers(c.h.writes \ c.h.leaves, c.todo, j + 1) /\ n.todo[j] = c.todo[j + 1]
        BY <1>1, <1>2, <2>1 DEF Serves
      <3>2. ASSUME NEW k \in DOMAIN c.todo, k > j + 1
            PROVE  k - 1 \in DOMAIN n.todo /\ n.todo[k - 1] = c.todo[k] /\ k - 1 > j
        <4>0. m \in Nat /\ k \in 1..m /\ j \in 1..(m - 1)
          BY <1>1, <3>2
        <4>1. k \in 2..m /\ k - 1 > j
          BY <3>2, <4>0
        <4> QED
          BY <1>1, <4>1
      <3> QED
        BY <3>1, <3>2 DEF Covers
    <2>2. "own" \in n.h.writes => \A j \in DOMAIN n.todo : ~Writes(n.todo[j].do)
      <3>1. \A j \in DOMAIN n.todo : j + 1 > 1
        BY <1>1
      <3> QED
        BY <1>1, <1>2, <3>1 DEF Serves
    <2> QED
      BY <1>3, <2>1, <2>2 DEF Serves
  <1>5. ASSUME c.sheet = "account", c.part # "box" PROVE Finishes(n.todo)
    <2> SUFFICES ASSUME NEW j \in DOMAIN n.todo, "close" \in n.todo[j].then
                 PROVE  \E k \in DOMAIN n.todo : k > j /\ n.todo[k].do = "refresh"
      BY DEF Finishes
    <2>1. PICK k \in DOMAIN c.todo : k > j + 1 /\ c.todo[k].do = "refresh"
      BY <1>1, <1>2, <1>5 DEF Finishes
    <2>2. k - 1 \in DOMAIN n.todo /\ n.todo[k - 1] = c.todo[k] /\ k - 1 > j
      <3>0. m \in Nat /\ k \in 1..m /\ j \in 1..(m - 1)
        BY <1>1, <2>1
      <3>1. k \in 2..m /\ k - 1 > j
        BY <2>1, <3>0
      <3> QED
        BY <1>1, <3>1
    <2> QED
      BY <2>1, <2>2
  <1>6. ~(Writes(Head(n.todo).do) /\ "own" \in n.h.writes)
    <2>1. n.todo[1] = c.todo[2] /\ 2 \in DOMAIN c.todo
      BY <1>1
    <2> QED
      BY <1>1, <1>2, <2>1 DEF Serves
  <1>7. Touches(n.h.writes, n.todo) => Touches(c.h.writes, c.todo)
    BY <1>1 DEF Touches
  <1>8. ASSUME NEW d, Yet(c, d) PROVE Now(n, d) \/ Yet(n, d)
    <2>1. PICK k \in 2..m : d \in Reads(c.todo[k].do)
      BY <1>8 DEF Yet, m
    <2>2. Heard(n, d)
      BY <1>8 DEF Yet, Heard, SameCall
    <2>3. CASE k = 2
      <3>1. d \in Takes(n)
        BY <1>1, <2>1, <2>3 DEF Takes
      <3> QED
        BY <2>2, <3>1 DEF Now
    <2>4. CASE k # 2
      <3>1. k - 1 \in 2..Len(n.todo) /\ n.todo[k - 1] = c.todo[k]
        BY <1>1, <2>1, <2>4
      <3> QED
        BY <2>1, <2>2, <3>1 DEF Yet
    <2> QED
      BY <2>3, <2>4
  <1>9. Served(n)
    BY <1>2, <1>4, <1>5 DEF Served, SameCall
  <1> QED
    BY <1>6, <1>7, <1>8, <1>9

\* What an answer takes from what is behind, and what it adds, or notes as due.
LEMMA ArriveExcuses ==
  ASSUME HistInv, TypeInv, NEW c \in CallTypes, Served(c),
         NEW step, step = Head(c.todo), NEW u, u = AfterClose(c, step.then),
         ui' = u,
         form' = IF u.sheet # "account" THEN Null ELSE FormAt(form, shown'.balance),
         smsDirty' = IF u.sheet # ui.sheet THEN FALSE
                     ELSE smsDirty \/ ("dirty" \in step.then /\ c.alive),
         TypeInv',
         NEW ex2,
         ex2 = StillBehind(c, step) \cup {d \in {"family"} : smsDirty' /\ form' # Null},
         "own" \notin behind, NEW d \in Data
  PROVE  /\ d \in Excused => d \in ex2 \/ Yet(c, d) \/ (Now(c, d) /\ c.got[d] = server[d])
         /\ d = "family" /\ Due(c) => d \in ex2
         /\ "own" \notin StillBehind(c, step)
  <1>0. Null # "account" /\ ui.over # "account" /\ (ui.over = "import" => ui.sheet # "account")
    BY NullIsNoValue DEF Sheets, Overs, TypeInv, OverImport, HistInv, UiTypes
  <1>1. \/ u.sheet = ui.sheet
        \/ c.part # "box" /\ (("close" \in step.then /\ ui.sheet = c.sheet) \/ ui.over = "import")
    BY AfterCloseIs
  <1>2. form # Null <=> ui.sheet = "account"
    BY DEF TypeInv, FormInv
  <1>3. ASSUME form # Null, u.sheet = ui.sheet PROVE form' # Null
    BY <1>2, <1>3 DEF TypeInv, FormInv
  <1>4. "own" \notin StillBehind(c, step)
    BY DEF StillBehind
  <1>5. ASSUME d \in behind, d \notin StillBehind(c, step)
        PROVE  Now(c, d) /\ c.got[d] = server[d]
    <2>1. d # "own" /\ c.got[d] = server[d] /\ d \in Reads(step.do)
      BY <1>5 DEF StillBehind, Reads
    <2> QED
      BY <2>1 DEF Now, Heard, Takes
  <1>6. ASSUME d = "family", smsDirty, form # Null PROVE d \in ex2 \/ Yet(c, d)
    <2>1. CASE u.sheet = ui.sheet
      BY <1>3, <1>6, <2>1 DEF TypeInv
    <2>2. CASE u.sheet # ui.sheet
      <3>1. "close" \in step.then /\ c.sheet = "account" /\ c.part # "box"
        BY <1>0, <1>1, <1>2, <1>6, <2>2
      <3>2. PICK k \in DOMAIN c.todo : k > 1 /\ c.todo[k].do = "refresh"
        BY <3>1, HeadIs DEF Served, Finishes
      <3>3. k \in 2..Len(c.todo) /\ "family" \in Reads(c.todo[k].do)
        BY <3>2, HeadIs DEF Reads
      <3> QED
        BY <1>6, <3>3 DEF Yet, Heard
    <2> QED
      BY <2>1, <2>2
  <1>7. ASSUME d = "family", Due(c) PROVE d \in ex2
    <2>1. step = Await("call", {"dirty"})
      BY <1>7 DEF Due
    <2>2. step.do = "call" /\ step.then = {"dirty"}
      BY <2>1 DEF Await
    <2>3. CASE c.alive /\ form # Null
      <3>1. u.sheet = ui.sheet
        BY <1>0, <1>1, <1>2, <2>2, <2>3
      <3>2. smsDirty'
        BY <2>2, <2>3, <3>1
      <3> QED
        BY <1>3, <1>7, <2>3, <3>1, <3>2
    <2>4. CASE ~(c.alive /\ form # Null)
      <3>1. d \in StillBehind(c, step)
        BY <1>7, <2>2, <2>4 DEF StillBehind
      <3> QED
        BY <3>1
    <2> QED
      BY <2>3, <2>4
  <1> QED
    BY <1>4, <1>5, <1>6, <1>7 DEF Excused

LEMMA ArriveCalm ==
  ASSUME HistInv, TypeInv, CalmInv, calm, Arrive
  PROVE  CalmInv'
  <1> DEFINE c    == calls[1]
             step == Head(c.todo)
             u    == AfterClose(c, step.then)
             rest == RemoveAt(calls, 1)
             gone == IF u.sheet # "form" THEN {"import"} ELSE {}
             left == Unmounted(rest, gone)
             flag == IF "free" \in step.then THEN "none" ELSE c.h.flag
             put  == {d \in {"family"} : smsDirty' /\ form' # Null}
             unread == StillBehind(c, step)
             ex2  == unread \cup put
  <1>1. /\ Len(calls) # 0 /\ 1 \in DOMAIN calls
        /\ ui' = u
        /\ shown' = AfterRead(c, step.do, step.then)
        /\ form' = IF u.sheet # "account" THEN Null ELSE FormAt(form, shown'.balance)
        /\ smsDirty' = IF u.sheet # ui.sheet THEN FALSE
                       ELSE smsDirty \/ ("dirty" \in step.then /\ c.alive)
        /\ IF Len(c.todo) = 1
           THEN calls' = left /\ server' = server /\ behind' = unread
           ELSE Send(left, [c EXCEPT !.todo = Tail(@), !.h.flag = flag], unread)
        /\ route' = route
    <2>1. calls \in Seq(CallTypes)
      BY DEF TypeInv
    <2>2. 1 \in DOMAIN calls => Len(calls) # 0
      BY <2>1
    <2> QED
      BY <2>2 DEF Arrive
  <1>2. /\ calls \in Seq(CallTypes) /\ c \in CallTypes /\ Served(c)
        /\ (\A i \in DOMAIN calls : Served(calls[i])) /\ GotInv(calls, server)
        /\ OwnInv(calls, route) /\ "own" \notin behind /\ server \in ServerTypes
        /\ \A d \in Data : CurrentIn(d, calls, server, shown, Excused)
    BY <1>1 DEF TypeInv, CalmInv
  <1>3. Excused' = behind' \cup put
    BY DEF Excused
  <1>4. ASSUME NEW d \in Data
        PROVE  /\ d \in Excused => d \in ex2 \/ Yet(c, d) \/ (Now(c, d) /\ c.got[d] = server[d])
               /\ d = "family" /\ Due(c) => d \in ex2
               /\ "own" \notin unread
    <2>1. step = Head(c.todo) /\ u = AfterClose(c, step.then)
          /\ ex2 = StillBehind(c, step) \cup put
      OBVIOUS
    <2>2. unread = StillBehind(c, step)
      OBVIOUS
    <2>3. TypeInv'
      BY ArriveTypes
    <2> HIDE DEF c, step, u, ex2, unread
    <2> QED
      BY <1>1, <1>2, <2>1, <2>2, <2>3, ArriveExcuses
  <1>5. ASSUME NEW d \in Data
        PROVE  /\ ~Now(c, d) => shown'[d] = shown[d]
               /\ Now(c, d) => shown'[d] = c.got[d]
    <2>1. Takes(c) = Reads(step.do) \cup (IF "patch" \in step.then THEN c.h.writes ELSE {})
      BY DEF Takes
    <2>2. shown' = AfterRead(c, step.do, step.then)
      BY <1>1
    <2> HIDE DEF c, step
    <2>3. CASE d = "family"
      BY <2>1, <2>2, <2>3 DEF AfterRead, Now, Heard, Reads
    <2>4. CASE d = "own"
      BY <2>1, <2>2, <2>4 DEF AfterRead, Now, Heard, Reads
    <2>5. CASE d = "bell"
      BY <2>1, <2>2, <2>5 DEF AfterRead, Now, Heard, Reads
    <2> QED
      BY <2>3, <2>4, <2>5 DEF Data
  <1>6. /\ rest \in Seq(CallTypes)
        /\ (\A i \in DOMAIN rest : Served(rest[i])) /\ GotInv(rest, server)
        /\ OwnInv(rest, route)
    BY <1>1, <1>2, RestKeeps
  <1>7. \A d \in Data : CurrentIn(d, rest, server, shown', ex2) \/ Yet(c, d)
    <2> TAKE d \in Data
    <2>1. CurrentIn(d, calls, server, shown, Excused)
      BY <1>2
    <2> HIDE DEF ex2, unread, put
    <2> QED
      BY <1>1, <1>2, <1>4, <1>5, <2>1, RestCurrent
  <1>8. /\ left \in Seq(CallTypes)
        /\ (\A i \in DOMAIN left : Served(left[i])) /\ GotInv(left, server)
        /\ OwnInv(left, route)
    <2> HIDE DEF rest, gone
    <2> QED
      BY <1>6, UnmountKeeps, UnmountedIs
  <1>9. \A d \in Data : CurrentIn(d, left, server, shown', ex2) \/ Yet(c, d)
    <2> TAKE d \in Data
    <2>1. \A i \in DOMAIN rest : rest[i].alive /\ Touches(rest[i].h.writes, rest[i].todo)
            => rest[i].part \notin gone
      <3>1. \A p : Belongs(p, route) => p \notin gone
        BY DEF Belongs
      <3> HIDE DEF rest, gone
      <3> QED
        BY <1>6, <3>1 DEF OwnInv
    <2> HIDE DEF rest, gone, ex2
    <2> QED
      BY <1>6, <1>7, <2>1, UnmountCurrent
  <1> HIDE DEF left, rest, gone, u, put, unread, step
  <1>10. CASE Len(c.todo) = 1
    <2>1. calls' = left /\ server' = server /\ behind' = unread
      BY <1>1, <1>10
    <2>2. \A d : ~Yet(c, d)
      BY <1>10 DEF Yet
    <2>3. "own" \notin unread
      BY <1>4 DEF Data
    <2> QED
      BY <1>1, <1>3, <1>8, <1>9, <2>1, <2>2, <2>3 DEF CalmInv
  <1>11. CASE Len(c.todo) # 1
    <2> DEFINE todo == Tail(c.todo)
               n == Onward(c, todo, flag)
    <2>1. Send(left, n, unread)
      BY <1>1, <1>11 DEF Onward
    <2>2. todo \in Seq(Steps) \ {<<>>}
      <3>1. c.todo \in Seq(Steps) \ {<<>>}
        BY <1>2, HeadIs
      <3> QED
        BY <1>11, <3>1, TailIs
    <2>3. flag \in Flags
      <3>1. c.h \in Handlers
        BY <1>2 DEF CallTypes, CallRecords
      <3> QED
        BY <3>1 DEF Handlers, Flags
    <2> HIDE DEF c, flag
    <2>4. /\ n \in CallTypes /\ n.todo = Tail(c.todo) /\ SameCall(n, c)
          /\ n.h.writes = c.h.writes /\ n.h.leaves = c.h.leaves
      <3> HIDE DEF todo
      <3>0. n = Onward(c, todo, flag)
        OBVIOUS
      <3> HIDE DEF n
      <3>1. /\ n \in CallTypes /\ n.todo = todo /\ SameCall(n, c)
            /\ n.h.writes = c.h.writes /\ n.h.leaves = c.h.leaves
        BY <1>2, <2>2, <2>3, <3>0, NextCallIs
      <3> QED
        BY <3>1 DEF todo
    <2> HIDE DEF n, todo
    <2>5. /\ Served(n)
          /\ ~(Writes(Head(n.todo).do) /\ "own" \in n.h.writes)
          /\ Touches(n.h.writes, n.todo) => Touches(c.h.writes, c.todo)
          /\ \A d : Yet(c, d) => Now(n, d) \/ Yet(n, d)
      BY <1>2, <1>11, <2>4, NextServed
    <2>6. n.alive /\ Touches(n.h.writes, n.todo) => Belongs(n.part, route)
      <3>1. c.alive /\ Touches(c.h.writes, c.todo) => Belongs(c.part, route)
        BY <1>1, <1>2 DEF c, OwnInv
      <3> QED
        BY <2>4, <2>5, <3>1 DEF SameCall
    <2>7. "own" \notin unread
      BY <1>4 DEF Data
    <2>8. \A d \in Data : CurrentIn(d, left, server, shown', unread \cup put)
                            \/ Now(n, d) \/ Yet(n, d)
      BY <1>9, <2>5
    <2>9. /\ \A i \in DOMAIN calls' : Served(calls'[i])
          /\ GotInv(calls', server') /\ OwnInv(calls', route) /\ "own" \notin behind'
          /\ \A d \in Data : CurrentIn(d, calls', server', shown', behind' \cup put)
      BY <1>2, <1>8, <2>1, <2>4, <2>5, <2>6, <2>7, <2>8, SendCalm
    <2> QED
      BY <1>1, <1>3, <2>9 DEF CalmInv
  <1> QED
    BY <1>10, <1>11

LEMMA OtherCalm ==
  ASSUME HistInv, TypeInv, CalmInv,
         OpenAccount \/ TypeBalance \/ TickChange \/ OtherSpends \/ Search \/ Effects
           \/ BoxOpens \/ UNCHANGED vars
  PROVE  CalmInv'
  <1>1. ASSUME UNCHANGED <<route, calls, server, shown, behind>>, Excused \subseteq Excused'
        PROVE  CalmInv'
    BY <1>1 DEF CalmInv, CurrentIn
  <1>2. CASE OpenAccount
    <2>1. form' # Null
      <3>1. form' = [typed |-> shown.balance, filled |-> shown.balance, ack |-> FALSE,
                     stands |-> FALSE]
        BY <1>2 DEF OpenAccount
      <3>2. form' \in Forms
        BY <3>1 DEF TypeInv, ShownTypes, Forms
      <3> QED
        BY <3>2, FormsAssumption
    <2> QED
      BY <1>1, <1>2, <2>1 DEF OpenAccount, Excused
  <1>3. CASE TypeBalance \/ TickChange
    <2>1. PICK f : Edit(f) /\ form # Null
      BY <1>3 DEF TypeBalance, TickChange
    <2>2. form' # Null
      <3>1. TypeInv' /\ ui' = ui
        BY <1>3, <2>1, OtherTypes DEF Edit
      <3> QED
        BY <2>1, <3>1 DEF TypeInv, FormInv
    <2> QED
      BY <1>1, <2>1, <2>2 DEF Edit, Excused
  <1>4. CASE OtherSpends
    <2>1. \A d \in Data : server'[d] = server[d]
      BY <1>4 DEF OtherSpends, TypeInv, ServerTypes, Data
    <2>2. UNCHANGED <<route, calls, shown, behind, form, smsDirty>>
      BY <1>4 DEF OtherSpends
    <2>3. GotInv(calls, server')
      BY <2>1 DEF CalmInv, GotInv
    <2>4. \A d \in Data : CurrentIn(d, calls, server', shown, Excused)
      BY <2>1 DEF CalmInv, CurrentIn
    <2> QED
      BY <2>2, <2>3, <2>4 DEF CalmInv, Excused
  <1>5. CASE Search
    <2>1. \A s : Searching(s) => CalmInv'
      BY <1>1 DEF Searching, Excused
    <2> QED
      BY <1>5, <2>1 DEF Search, TypeQuery, Ask, Found, NotFound
  <1>6. CASE Effects
    BY <1>1, <1>6 DEF Effects, Excused
  <1>7. CASE UNCHANGED vars
    BY <1>1, <1>7 DEF vars, Excused
  <1>8. CASE BoxOpens
    BY <1>1, <1>8 DEF BoxOpens, Excused
  <1> QED
    BY <1>2, <1>3, <1>4, <1>5, <1>6, <1>7, <1>8

-----------------------------------------------------------------------------
\* The search of the stocks: an answer to the last turn is an answer to the query in the
\* box, and without an error or a load that is what is shown.
Answered(s) ==
  /\ s \in [query: Queries \cup {Null}, turn: Nat, data: Queries \cup {Null},
            loading: BOOLEAN, error: BOOLEAN, due: BOOLEAN,
            asks: SUBSET [turn: Nat, query: Queries \cup {Null}]]
  /\ \A a \in s.asks : a.turn <= s.turn /\ (a.turn = s.turn => a.query = s.query)
  /\ ~s.loading /\ ~s.error => s.data = s.query

SearchInv == Answered(search)

LEMMA NoSearchIs == Answered(NoSearch)
  <1>1. NoSearch = [query |-> Null, turn |-> 0, data |-> Null, loading |-> FALSE,
                    error |-> FALSE, due |-> FALSE, asks |-> {}]
    BY DEF NoSearch
  <1> QED
    BY <1>1 DEF Answered

LEMMA SearchStep ==
  ASSUME SearchInv, [Next]_vars
  PROVE  SearchInv'
  <1> DEFINE Q == Queries \cup {Null}
             A == [turn: Nat, query: Q]
  <1>0. /\ search.query \in Q /\ search.turn \in Nat /\ search.data \in Q
        /\ search.loading \in BOOLEAN /\ search.error \in BOOLEAN /\ search.due \in BOOLEAN
        /\ search.asks \subseteq A
        /\ search = [query |-> search.query, turn |-> search.turn, data |-> search.data,
                     loading |-> search.loading, error |-> search.error, due |-> search.due,
                     asks |-> search.asks]
    BY DEF SearchInv, Answered
  <1>1. ASSUME UNCHANGED search PROVE SearchInv'
    BY <1>1 DEF SearchInv, Answered
  <1>2. ASSUME search' = NoSearch PROVE SearchInv'
    BY <1>2, NoSearchIs DEF SearchInv, Answered
  <1>3. ASSUME NEW r, NEW u, Move(r, u) PROVE SearchInv'
    BY <1>1, <1>2, <1>3 DEF Move
  <1>4. ASSUME TypeQuery PROVE SearchInv'
    <2>1. PICK q \in Q \ {search.query} :
            search' = [search EXCEPT !.query = q, !.turn = @ + 1, !.error = FALSE,
                                     !.loading = (q # Null), !.due = (q # Null),
                                     !.data = IF q = Null THEN Null ELSE @]
      BY <1>4 DEF TypeQuery, Searching
    <2> DEFINE l == q # Null
               dt == IF q = Null THEN Null ELSE search.data
    <2>2. l \in BOOLEAN /\ dt \in Q /\ (~l => dt = q)
      BY <1>0
    <2>3. search' = [query |-> q, turn |-> search.turn + 1, data |-> dt, loading |-> l,
                     error |-> FALSE, due |-> l, asks |-> search.asks]
      <3>1. search' = [search EXCEPT !.query = q, !.turn = @ + 1, !.error = FALSE,
                                     !.loading = l, !.due = l, !.data = dt]
        BY <2>1
      <3> HIDE DEF l, dt
      <3> QED
        BY <1>0, <3>1
    <2> HIDE DEF l, dt
    <2>4. \A a \in search.asks : a.turn \in Nat /\ a.turn <= search.turn
      BY <1>0 DEF SearchInv, Answered
    <2>5. \A a \in search.asks : a.turn <= search.turn + 1 /\ a.turn # search.turn + 1
      BY <1>0, <2>4
    <2>6. search.turn + 1 \in Nat
      BY <1>0
    <2>7. /\ search'.turn = search.turn + 1 /\ search'.asks = search.asks
          /\ search'.query = q /\ search'.data = dt /\ search'.loading = l
      BY <2>3
    <2>8. search' \in [query: Q, turn: Nat, data: Q, loading: BOOLEAN, error: BOOLEAN,
                       due: BOOLEAN, asks: SUBSET A]
      BY <1>0, <2>2, <2>3, <2>6
    <2>9. \A a \in search'.asks :
            a.turn <= search'.turn /\ (a.turn = search'.turn => a.query = search'.query)
      BY <2>5, <2>7
    <2>10. ~search'.loading /\ ~search'.error => search'.data = search'.query
      BY <2>2, <2>7
    <2>11. Answered(search')
      BY <2>8, <2>9, <2>10 DEF Answered
    <2> QED
      BY <2>11 DEF SearchInv
  <1>5. ASSUME Ask PROVE SearchInv'
    <2> DEFINE n == [turn |-> search.turn, query |-> search.query]
               as == search.asks \cup {n}
    <2>1. n \in A /\ n.turn = search.turn /\ n.query = search.query /\ as \subseteq A
      BY <1>0
    <2>2. search' = [query |-> search.query, turn |-> search.turn, data |-> search.data,
                     loading |-> search.loading, error |-> search.error, due |-> FALSE,
                     asks |-> as]
      <3>1. search' = [search EXCEPT !.due = FALSE, !.asks = as]
        BY <1>5 DEF Ask, Searching
      <3> HIDE DEF as
      <3> QED
        BY <1>0, <3>1
    <2>3. \A a \in as : a \in search.asks \/ a = n
      OBVIOUS
    <2> HIDE DEF as, n
    <2>4. ASSUME NEW a \in as
          PROVE  a.turn <= search.turn /\ (a.turn = search.turn => a.query = search.query)
      <3>1. CASE a = n
        BY <1>0, <2>1, <3>1
      <3>2. CASE a \in search.asks
        BY <3>2 DEF SearchInv, Answered
      <3> QED
        BY <2>3, <3>1, <3>2
    <2>5. ~search.loading /\ ~search.error => search.data = search.query
      BY DEF SearchInv, Answered
    <2> QED
      BY <1>0, <2>1, <2>2, <2>4, <2>5 DEF SearchInv, Answered
  <1>6. ASSUME NEW a \in search.asks, NEW dt \in Q, NEW l \in BOOLEAN, NEW e \in BOOLEAN,
               search' = [search EXCEPT !.asks = @ \ {a}, !.data = dt, !.loading = l, !.error = e],
               ~l /\ ~e => dt = search.query
        PROVE  SearchInv'
    <2> DEFINE as == search.asks \ {a}
    <2>1. search' = [query |-> search.query, turn |-> search.turn, data |-> dt,
                     loading |-> l, error |-> e, due |-> search.due, asks |-> as]
      BY <1>0, <1>6
    <2>2. as \subseteq search.asks
      OBVIOUS
    <2> HIDE DEF as
    <2> QED
      BY <1>0, <1>6, <2>1, <2>2 DEF SearchInv, Answered
  <1>7. ASSUME Found PROVE SearchInv'
    <2>1. PICK a \in search.asks :
            search' = [search EXCEPT !.asks = @ \ {a},
                            !.data = IF a.turn = search.turn THEN a.query ELSE @,
                            !.loading = (@ /\ a.turn # search.turn)]
      BY <1>7 DEF Found, Searching
    <2> DEFINE dt == IF a.turn = search.turn THEN a.query ELSE search.data
               l == search.loading /\ a.turn # search.turn
               e == search.error
    <2>2. dt \in Q /\ l \in BOOLEAN /\ e \in BOOLEAN /\ (~l /\ ~e => dt = search.query)
      <3>1. a.query \in Q /\ (a.turn = search.turn => a.query = search.query)
        BY <1>0 DEF SearchInv, Answered
      <3> QED
        BY <1>0, <3>1 DEF SearchInv, Answered
    <2>3. search' = [search EXCEPT !.asks = @ \ {a}, !.data = dt, !.loading = l, !.error = e]
      <3>1. search' = [search EXCEPT !.asks = @ \ {a}, !.data = dt, !.loading = l]
        BY <2>1
      <3> HIDE DEF dt, l
      <3> QED
        BY <1>0, <3>1
    <2> HIDE DEF dt, l, e
    <2> QED
      BY <1>6, <2>2, <2>3
  <1>8. ASSUME NotFound PROVE SearchInv'
    <2>1. PICK a \in search.asks :
            search' = [search EXCEPT !.asks = @ \ {a},
                            !.error = (@ \/ a.turn = search.turn),
                            !.loading = (@ /\ a.turn # search.turn)]
      BY <1>8 DEF NotFound, Searching
    <2> DEFINE dt == search.data
               l == search.loading /\ a.turn # search.turn
               e == search.error \/ a.turn = search.turn
    <2>2. dt \in Q /\ l \in BOOLEAN /\ e \in BOOLEAN /\ (~l /\ ~e => dt = search.query)
      BY <1>0 DEF SearchInv, Answered
    <2>3. search' = [search EXCEPT !.asks = @ \ {a}, !.data = dt, !.loading = l, !.error = e]
      <3>1. search' = [search EXCEPT !.asks = @ \ {a}, !.error = e, !.loading = l]
        BY <2>1
      <3> HIDE DEF l, e
      <3> QED
        BY <1>0, <3>1
    <2> HIDE DEF dt, l, e
    <2> QED
      BY <1>6, <2>2, <2>3
  <1>9. Search => SearchInv'
    BY <1>4, <1>5, <1>7, <1>8 DEF Search
  <1>10. CASE Next
    <2>1. ASSUME Travelled \/ UserBack PROVE SearchInv'
      BY <1>3, <2>1 DEF Travelled, UserBack, CloseLayer
    <2>2. ASSUME Account PROVE SearchInv'
      BY <1>1, <2>2 DEF Account, OpenAccount, TypeBalance, TickChange, Edit, SaveTheAccount,
        Start, OtherSpends
    <2>3. ASSUME Answers PROVE SearchInv'
      BY <1>1, <2>1, <2>3 DEF Answers, Arrive, Fail, ReaderImports, BoxOpens, Effects
    <2>4. ASSUME Taps PROVE SearchInv'
      BY <1>1, <1>3, <2>1, <2>4 DEF Taps, EnterFromHub, LinkOfDashboard, OpenBell, FromBell,
        FromBellToRequests, FromBellToForm, OpenForm, OpenImport, OpenSection, OpenSheet,
        OpenPicker, OpenDate, Cancel, BackArrow, Press, Start, Nav, Show
    <2> QED
      BY <1>9, <1>10, <2>2, <2>3, <2>4 DEF Next
  <1>11. CASE UNCHANGED vars
    BY <1>1, <1>11 DEF vars
  <1> QED
    BY <1>10, <1>11

-----------------------------------------------------------------------------
\* When every handler is through, the pages show what the server holds, but for what a
\* handler leaves behind; and the stocks under the box are those of the query in it.
THEOREM ScreensAreCurrentHolds == Spec => []ScreensAreCurrent
  <1> DEFINE Inv == (calm => CalmInv) /\ SearchInv
  <1>1. Init => Inv
    <2> SUFFICES ASSUME Init PROVE Inv
      OBVIOUS
    <2>1. /\ calls = <<>> /\ behind = {}
          /\ server = [family |-> 0, own |-> 0, bell |-> 0, balance |-> 0]
          /\ shown = [family |-> 0, own |-> Null, bell |-> 0, balance |-> 0]
      BY DEF Init
    <2>2. DOMAIN calls = {}
      BY <2>1
    <2>3. \A d \in Data : CurrentIn(d, calls, server, shown, Excused)
      BY <2>1, <2>2 DEF CurrentIn, Data
    <2>4. CalmInv
      BY <2>1, <2>2, <2>3 DEF CalmInv, GotInv, OwnInv
    <2> QED
      BY <2>4, NoSearchIs DEF Init, SearchInv
  <1>2. HistInv /\ TypeInv /\ Inv /\ [Next]_vars => Inv'
    <2> SUFFICES ASSUME HistInv, TypeInv, Inv, [Next]_vars PROVE Inv'
      OBVIOUS
    <2>1. calm' = calm
      <3>1. \A r, u : Move(r, u) => calm' = calm
        BY DEF Move, pool
      <3>2. ASSUME Moving PROVE calm' = calm
        BY <3>1, <3>2, Moves DEF TypeInv, MovesWell
      <3>3. ASSUME Press \/ SaveTheAccount \/ ReaderImports PROVE calm' = calm
        BY <3>3, Starts DEF Starting, pool
      <3>4. ASSUME Arrive \/ Fail \/ BoxOpens \/ OpenAccount \/ OtherSpends \/ Effects
                     \/ UNCHANGED vars
            PROVE  calm' = calm
        BY <3>4 DEF Arrive, Fail, BoxOpens, OpenAccount, OtherSpends, Effects, vars, pool
      <3>5. ASSUME TypeBalance \/ TickChange PROVE calm' = calm
        BY <3>5 DEF TypeBalance, TickChange, Edit, pool
      <3>6. ASSUME Search PROVE calm' = calm
        BY <3>6 DEF Search, TypeQuery, Ask, Found, NotFound, Searching, pool
      <3> QED
        BY <3>2, <3>3, <3>4, <3>5, <3>6 DEF Next, Taps, Account, Answers, Moving
    <2>2. ASSUME calm, CalmInv PROVE CalmInv'
      <3>1. Moving => CalmInv'
        BY <2>2, Moves, MoveCalm DEF TypeInv
      <3>2. Press \/ SaveTheAccount \/ ReaderImports => CalmInv'
        BY <2>2, Starts, StartCalm
      <3>3. Arrive => CalmInv'
        BY <2>2, ArriveCalm
      <3>4. ~Fail
        BY <2>2 DEF Fail
      <3>5. OpenAccount \/ TypeBalance \/ TickChange \/ OtherSpends \/ Search \/ Effects
              \/ BoxOpens \/ UNCHANGED vars => CalmInv'
        BY <2>2, OtherCalm
      <3> QED
        BY <3>1, <3>2, <3>3, <3>4, <3>5 DEF Next, Taps, Account, Answers, Moving
    <2> QED
      BY <2>1, <2>2, SearchStep
  <1>3. Inv => ScreensAreCurrent
    <2>1. ASSUME CalmInv, calls = <<>>, NEW d \in Data \ behind
          PROVE  \/ shown[d] = server[d]
                 \/ d = "own" /\ shown.own = Null
                 \/ d = "family" /\ smsDirty
      <3>1. DOMAIN calls = {} /\ CurrentIn(d, calls, server, shown, Excused)
        BY <2>1 DEF CalmInv
      <3> QED
        BY <2>1, <3>1 DEF CurrentIn, Excused
    <2>2. SearchInv => (~search.loading /\ ~search.error => search.data = search.query)
      BY DEF SearchInv, Answered
    <2> QED
      BY <2>1, <2>2 DEF ScreensAreCurrent
  <1> HIDE DEF Inv
  <1> QED
    BY <1>1, <1>2, <1>3, HistHolds, TypeHolds, PTL DEF Spec
=============================================================================
