-------------------------- MODULE TouchLinksProofs --------------------------
(***************************************************************************)
(* Proofs about TouchLinks, for any entities, pairs and depth of calls:    *)
(* the walk over the links of an entity never stands on a link that is     *)
(* gone, between two entities a touch has been started and not ended       *)
(* exactly as long as there is a link to end it, who has links that are    *)
(* out of date is going to be checked, and by the time an entity is freed  *)
(* everybody who touched it has been told.                                 *)
(***************************************************************************)
EXTENDS TouchLinks, SequenceTheorems, TLAPS

USE MarksAssumption

-----------------------------------------------------------------------------
(* Sequences.                                                              *)

\* The elements of a sequence are those at its positions.
LEMMA SetOf ==
  ASSUME NEW S, NEW s \in Seq(S)
  PROVE  /\ ToSet(s) \subseteq S /\ Len(s) \in Nat
         /\ \A x : x \in ToSet(s) <=> \E i \in 1 .. Len(s) : s[i] = x
         /\ s = << >> <=> Len(s) = 0
  BY EmptySeq DEF ToSet

\* A sequence without its last element.
LEMMA FrontOf ==
  ASSUME NEW S, NEW s \in Seq(S), s # << >>
  PROVE  /\ Front(s) \in Seq(S) /\ Len(Front(s)) = Len(s) - 1
         /\ \A i \in 1 .. Len(s) - 1 : Front(s)[i] = s[i]
         /\ Len(s) \in 1 .. Len(s) /\ Last(s) = s[Len(s)] /\ Last(s) \in S
<1>1. Len(s) \in Nat /\ Len(s) > 0
  BY EmptySeq
<1>2. \A i \in 1 .. Len(s) - 1 : s[i] \in S
  BY <1>1
<1>3. /\ Front(s) \in Seq(S) /\ Len(Front(s)) = Len(s) - 1
      /\ \A i \in 1 .. Len(s) - 1 : Front(s)[i] = s[i]
  <2>1. Len(s) - 1 \in Int /\ 1 \in Int
    BY <1>1
  <2>2. /\ SubSeq(s, 1, Len(s) - 1) \in Seq(S)
        /\ Len(SubSeq(s, 1, Len(s) - 1)) = IF 1 <= Len(s) - 1 THEN Len(s) - 1 - 1 + 1 ELSE 0
        /\ \A i \in 1 .. Len(s) - 1 - 1 + 1 : SubSeq(s, 1, Len(s) - 1)[i] = s[1 + i - 1]
    BY <1>2, <2>1, SubSeqProperties
  <2>3. /\ 1 .. Len(s) - 1 - 1 + 1 = 1 .. Len(s) - 1
        /\ \A i \in 1 .. Len(s) - 1 : 1 + i - 1 = i
        /\ (IF 1 <= Len(s) - 1 THEN Len(s) - 1 - 1 + 1 ELSE 0) = Len(s) - 1
    <3> DEFINE n == Len(s)
    <3>1. n \in Nat /\ n > 0
      BY <1>1
    <3> HIDE DEF n
    <3>2. /\ n - 1 - 1 + 1 = n - 1
          /\ \A i \in 1 .. n - 1 : 1 + i - 1 = i
          /\ (IF 1 <= n - 1 THEN n - 1 - 1 + 1 ELSE 0) = n - 1
      BY <3>1
    <3> QED BY <3>2 DEF n
  <2> QED BY <2>2, <2>3 DEF Front
<1> QED BY <1>1, <1>3 DEF Last

\* In s there is v at u or behind it.
At(s, u, v) == \E i, j \in DOMAIN s : i <= j /\ s[i] = u /\ s[j] = v

\* The list of an entity with one link more in front.
LEMMA LinkAdded ==
  ASSUME NEW s \in Seq(Ents), NEW b \in Ents, b \notin ToSet(s), IsInjective(s)
  PROVE  /\ <<b>> \o s \in Seq(Ents) /\ IsInjective(<<b>> \o s)
         /\ ToSet(<<b>> \o s) = ToSet(s) \cup {b}
         /\ \A u, v : At(s, u, v) => At(<<b>> \o s, u, v)
<1> DEFINE r == <<b>> \o s
<1>1. /\ r \in Seq(Ents) /\ Len(r) = Len(s) + 1 /\ r[1] = b /\ Len(s) \in Nat
      /\ \A i \in 2 .. Len(s) + 1 : r[i] = s[i - 1]
  OBVIOUS
<1> HIDE DEF r
<1>2. DOMAIN r = 1 .. Len(s) + 1 /\ DOMAIN s = 1 .. Len(s)
  BY <1>1
<1>3. \A i \in 1 .. Len(s) : s[i] \in ToSet(s)
  BY SetOf
<1>4. ToSet(r) = ToSet(s) \cup {b}
  <2>1. ASSUME NEW x \in ToSet(r) PROVE x \in ToSet(s) \cup {b}
    <3>1. PICK i \in 1 .. Len(s) + 1 : r[i] = x
      BY <1>1, <1>2, <2>1 DEF ToSet
    <3>2. i = 1 \/ i - 1 \in 1 .. Len(s)
      BY <1>1
    <3> QED BY <1>1, <1>3, <3>1, <3>2
  <2>2. ASSUME NEW x \in ToSet(s) PROVE x \in ToSet(r)
    <3>1. PICK i \in 1 .. Len(s) : s[i] = x
      BY <1>2, <2>2 DEF ToSet
    <3>2. i + 1 \in 2 .. Len(s) + 1 /\ i + 1 \in 1 .. Len(s) + 1 /\ i + 1 - 1 = i
      BY <1>1
    <3>3. r[i + 1] = x
      BY <1>1, <3>1, <3>2
    <3> QED BY <1>2, <3>2, <3>3 DEF ToSet
  <2>3. b \in ToSet(r)
    BY <1>1, <1>2 DEF ToSet
  <2> QED BY <2>1, <2>2, <2>3
<1>5. IsInjective(r)
  <2> SUFFICES ASSUME NEW i \in 1 .. Len(s) + 1, NEW j \in 1 .. Len(s) + 1, r[i] = r[j]
               PROVE  i = j
    BY <1>2 DEF IsInjective, r
  <2>1. i = 1 \/ (i \in 2 .. Len(s) + 1 /\ i - 1 \in 1 .. Len(s))
    BY <1>1
  <2>2. j = 1 \/ (j \in 2 .. Len(s) + 1 /\ j - 1 \in 1 .. Len(s))
    BY <1>1
  <2>3. \A k, m \in 1 .. Len(s) : s[k] = s[m] => k = m
    BY <1>2 DEF IsInjective
  <2> QED BY <1>1, <1>3, <2>1, <2>2, <2>3
<1>6. ASSUME NEW u, NEW v, At(s, u, v) PROVE At(r, u, v)
  <2>1. PICK i, j \in 1 .. Len(s) : i <= j /\ s[i] = u /\ s[j] = v
    BY <1>2, <1>6 DEF At
  <2>2. /\ i + 1 \in 2 .. Len(s) + 1 /\ i + 1 - 1 = i /\ i + 1 \in 1 .. Len(s) + 1
        /\ j + 1 \in 2 .. Len(s) + 1 /\ j + 1 - 1 = j /\ j + 1 \in 1 .. Len(s) + 1
        /\ i + 1 <= j + 1
    BY <1>1, <2>1
  <2>3. r[i + 1] = u /\ r[j + 1] = v
    <3>1. \A k \in 1 .. Len(s) : r[k + 1] = s[k]
      <4> TAKE k \in 1 .. Len(s)
      <4>1. k + 1 \in 2 .. Len(s) + 1 /\ k + 1 - 1 = k
        BY <1>1
      <4> QED BY <1>1, <4>1
    <3> QED BY <2>1, <3>1
  <2> DEFINE k == i + 1
             m == j + 1
  <2>4. k \in DOMAIN r /\ m \in DOMAIN r /\ k <= m /\ r[k] = u /\ r[m] = v
    BY <1>2, <2>2, <2>3
  <2> HIDE DEF k, m
  <2> QED BY <2>4 DEF At
<1> QED BY <1>1, <1>4, <1>5, <1>6 DEF r

\* The list of an entity without one of its links, or as it is without it.
LEMMA LinkFreed ==
  ASSUME NEW s \in Seq(Ents), NEW t, IsInjective(s)
  PROVE  /\ RemoveFirst(s, t) \in Seq(Ents) /\ IsInjective(RemoveFirst(s, t))
         /\ ToSet(RemoveFirst(s, t)) = ToSet(s) \ {t}
         /\ \A u, v : At(s, u, v) /\ u # t /\ v # t => At(RemoveFirst(s, t), u, v)
<1> DEFINE r == RemoveFirst(s, t)
           n == Len(s)
<1>0. n \in Nat /\ DOMAIN s = 1 .. n /\ \A i \in 1 .. n : s[i] \in Ents
  OBVIOUS
<1>0a. ToSet(s) = {s[i] : i \in 1 .. n}
  BY <1>0 DEF ToSet
<1>0b. \A j, k \in 1 .. n : s[j] = s[k] => j = k
  BY <1>0 DEF IsInjective
<1>1. CASE ~\E i \in 1 .. n : s[i] = t
  BY <1>0a, <1>1 DEF RemoveFirst
<1>2. CASE \E i \in 1 .. n : s[i] = t
  <2>1. PICK i \in 1 .. n : s[i] = t
    BY <1>2
  <2>2. {k \in 1 .. n : s[k] = t} = {i}
    BY <1>0b, <2>1
  <2>3. Min({i}) = i
    BY <1>0 DEF Min
  <2>4. SelectInSeq(s, LAMBDA v : v = t) = i
    BY <2>2, <2>3 DEF SelectInSeq
  <2>5. r = SubSeq(s, 1, i - 1) \o SubSeq(s, i + 1, n)
    BY <1>2, <2>4 DEF RemoveFirst, RemoveAt
  <2>6. /\ r \in Seq(Ents) /\ Len(r) = n - 1
        /\ \A k \in 1 .. n - 1 : r[k] = IF k < i THEN s[k] ELSE s[k + 1]
    <3> DEFINE p == SubSeq(s, 1, i - 1)
               q == SubSeq(s, i + 1, n)
    <3>1. i \in Int /\ i >= 1 /\ i <= n /\ n \in Int
      BY <1>0
    <3>2. /\ p \in Seq(Ents) /\ Len(p) = i - 1
          /\ \A k \in 1 .. i - 1 : p[k] = s[k]
      <4>1. \A k \in 1 .. i - 1 : s[k] \in Ents
        BY <1>0, <3>1
      <4>2. /\ p \in Seq(Ents)
            /\ Len(p) = IF 1 <= i - 1 THEN i - 1 - 1 + 1 ELSE 0
            /\ \A k \in 1 .. i - 1 - 1 + 1 : p[k] = s[1 + k - 1]
        BY <3>1, <4>1, SubSeqProperties
      <4> HIDE DEF p
      <4> QED BY <3>1, <4>2
    <3>3. /\ q \in Seq(Ents) /\ Len(q) = n - i
          /\ \A k \in 1 .. n - i : q[k] = s[i + k]
      <4>1. \A k \in i + 1 .. n : s[k] \in Ents
        BY <1>0, <3>1
      <4>2. i + 1 \in Int
        BY <3>1
      <4>3. /\ q \in Seq(Ents)
            /\ Len(q) = IF i + 1 <= n THEN n - (i + 1) + 1 ELSE 0
            /\ \A k \in 1 .. n - (i + 1) + 1 : q[k] = s[i + 1 + k - 1]
        BY <3>1, <4>1, <4>2, SubSeqProperties
      <4> HIDE DEF q
      <4> QED BY <3>1, <4>3
    <3> HIDE DEF p, q, r, n
    <3>4. r = p \o q
      BY <2>5 DEF p, q, r, n
    <3>5. /\ r \in Seq(Ents) /\ Len(r) = n - 1
          /\ \A k \in 1 .. Len(p) + Len(q) : r[k] = IF k <= Len(p) THEN p[k] ELSE q[k - Len(p)]
      BY <3>1, <3>2, <3>3, <3>4, ConcatProperties
    <3>6. ASSUME NEW k \in 1 .. n - 1
          PROVE  r[k] = IF k < i THEN s[k] ELSE s[k + 1]
      <4>1. CASE k < i
        BY <3>1, <3>2, <3>3, <3>5, <4>1
      <4>2. CASE k >= i
        <5>1. k \in 1 .. Len(p) + Len(q) /\ ~(k <= Len(p)) /\ k - Len(p) = k - i + 1
          BY <3>1, <3>2, <3>3, <4>2
        <5>2. k - i + 1 \in 1 .. n - i /\ i + (k - i + 1) = k + 1
          BY <3>1, <4>2
        <5> QED BY <3>1, <3>3, <3>5, <4>2, <5>1, <5>2
      <4> QED BY <3>1, <4>1, <4>2
    <3> QED BY <3>5, <3>6
  <2> HIDE DEF r, n
  <2>7. DOMAIN r = 1 .. n - 1 /\ ToSet(r) = {r[k] : k \in 1 .. n - 1}
    BY <2>6 DEF ToSet
  <2>8. ASSUME NEW j \in 1 .. n - 1, NEW k \in 1 .. n - 1, r[j] = r[k] PROVE j = k
    <3> DEFINE u(x) == IF x < i THEN x ELSE x + 1
    <3>1. u(j) \in 1 .. n /\ u(k) \in 1 .. n /\ s[u(j)] = s[u(k)]
      BY <1>0, <2>6, <2>8
    <3>2. u(j) = u(k)
      BY <1>0b, <3>1
    <3> QED BY <1>0, <3>2
  <2>9. ToSet(r) = ToSet(s) \ {t}
    <3>1. ASSUME NEW k \in 1 .. n - 1 PROVE r[k] \in ToSet(s) \ {t}
      <4> DEFINE u == IF k < i THEN k ELSE k + 1
      <4>1. u \in 1 .. n /\ u # i /\ r[k] = s[u]
        BY <1>0, <2>6
      <4> QED BY <1>0a, <1>0b, <2>1, <4>1
    <3>2. ASSUME NEW k \in 1 .. n, k # i PROVE s[k] \in ToSet(r)
      <4>1. CASE k < i
        <5>1. k \in 1 .. n - 1
          BY <1>0, <4>1
        <5>2. r[k] = s[k]
          BY <2>6, <4>1, <5>1
        <5> QED BY <2>7, <5>1, <5>2
      <4>2. CASE ~(k < i)
        <5>1. k - 1 \in 1 .. n - 1 /\ ~(k - 1 < i) /\ k - 1 + 1 = k
          BY <1>0, <3>2, <4>2
        <5>2. r[k - 1] = s[k]
          BY <2>6, <5>1
        <5> QED BY <2>7, <5>1, <5>2
      <4> QED BY <4>1, <4>2
    <3> QED BY <1>0a, <2>1, <2>7, <3>1, <3>2
  <2>10. IsInjective(r)
    BY <2>7, <2>8 DEF IsInjective
  <2>11. ASSUME NEW u, NEW v, At(s, u, v), u # t, v # t PROVE At(r, u, v)
    <3>1. PICK a, b \in 1 .. n : a <= b /\ s[a] = u /\ s[b] = v
      BY <1>0, <2>11 DEF At
    <3>2. a # i /\ b # i
      BY <2>1, <2>11, <3>1
    <3> DEFINE w(k) == IF k < i THEN k ELSE k - 1
    <3>3. ASSUME NEW k \in 1 .. n, k # i PROVE w(k) \in 1 .. n - 1 /\ r[w(k)] = s[k]
      <4>1. CASE k < i
        <5>1. k \in 1 .. n - 1 /\ w(k) = k
          BY <1>0, <4>1
        <5>2. r[k] = s[k]
          BY <2>6, <4>1, <5>1
        <5> QED BY <5>1, <5>2
      <4>2. CASE ~(k < i)
        <5>1. k - 1 \in 1 .. n - 1 /\ ~(k - 1 < i) /\ k - 1 + 1 = k /\ w(k) = k - 1
          BY <1>0, <3>3, <4>2
        <5>2. r[k - 1] = s[k]
          BY <2>6, <5>1
        <5> QED BY <5>1, <5>2
      <4> QED BY <4>1, <4>2
    <3>4. w(a) <= w(b)
      BY <1>0, <3>1, <3>2
    <3>5. /\ w(a) \in 1 .. n - 1 /\ r[w(a)] = u
          /\ w(b) \in 1 .. n - 1 /\ r[w(b)] = v
      BY <3>1, <3>2, <3>3
    <3> HIDE DEF w
    <3> QED BY <2>7, <3>4, <3>5 DEF At
  <2> QED BY <2>6, <2>9, <2>10, <2>11 DEF r
<1> QED BY <1>1, <1>2

-----------------------------------------------------------------------------
(* The invariant.                                                          *)

FrameSet == [op : Ops, ent : Ents, other : Ents, cb : BOOLEAN]

\* Frames whose return needs the link from the one entity to the other.
Claims == {"unlink", "untouch", "free", "secondEvent", "stamp"}

\* What may be where on the stack S: a walk is at the bottom, who is purged is
\* in no frame below its purge, and nobody below holds the link of who is to be
\* told or whose half of a touch is still to come.
Fits(S, i) ==
  /\ S[i].op = "walk" => i = 1
  /\ S[i].op \in {"second", "secondEvent"} => S[i].ent # S[i].other
  /\ S[i].op = "untouch" => i = 2 /\ S[1].op = "walk"
  /\ S[i].op = "purge" => \A j \in 1 .. i - 1 : S[i].ent \notin {S[j].ent, S[j].other}
  /\ S[i].op = "free" => i > 1 /\ S[i - 1].op = "purge" /\ S[i - 1].ent = S[i].ent
  /\ S[i].op \in {"notify", "secondEvent"} =>
       \A j \in 1 .. i - 1 : S[j].op \in Claims =>
         <<S[j].ent, S[j].other>> # <<S[i].other, S[i].ent>>

\* Whom the stack speaks of is there, with alive A and marked M.
Present(S, A, M) ==
  \A i \in 1 .. Len(S) :
    /\ S[i].ent \in A
    /\ S[i].op \in {"second", "secondEvent"} => S[i].other \in A
    /\ S[i].op = "purge" => S[i].ent \in M

\* The links that the frames claim are there, with lists L, and nobody claims
\* the link of another frame: each is freed once.
Claimed(S, L) ==
  /\ \A i \in 1 .. Len(S) : S[i].op \in Claims => S[i].other \in ToSet(L[S[i].ent])
  /\ \A i, j \in 1 .. Len(S) :
       i # j /\ S[i].op \in Claims /\ S[j].op \in Claims =>
         <<S[i].ent, S[i].other>> # <<S[j].ent, S[j].other>>

Shaped(S) == S \in Seq(FrameSet) /\ \A i \in 1 .. Len(S) : Fits(S, i)

StackSound ==
  Shaped(stack) /\ Present(stack, alive, marked) /\ Claimed(stack, list)

ListsTyped ==
  /\ list \in [Ents -> Seq(Ents)]
  /\ \A e \in Ents : e \notin ToSet(list[e]) /\ IsInjective(list[e])

SetsTyped ==
  /\ marked \subseteq alive /\ alive \subseteq Ents
  /\ hasRoot \subseteq alive /\ flagged \subseteq alive
  /\ updateList \subseteq alive \ marked /\ ents \subseteq alive
  /\ nextLink \in Ents \cup {NULL, ROOT}
  /\ touching \subseteq Ents \X Ents /\ missed \subseteq Ents

Stamps == {"none", "fresh", "stale", "event"}

StampsTyped ==
  /\ stamp \in [Ents -> [Ents -> Stamps]]
  /\ \A e, o \in Ents : HasLink(e, o) <=> stamp[e][o] # "none"

\* Who is on the copy of the update list is not being removed.
PurgedUnchecked == \A f \in Under("purge") : f.ent \notin ents

IInv ==
  /\ SetsTyped /\ StampsTyped /\ ListsTyped
  /\ StackSound /\ PurgedUnchecked
  /\ WalkSafe /\ StartedIsLinked

-----------------------------------------------------------------------------
(* The stack.                                                              *)

\* The frames are what is on the stack.
LEMMA FramesOf ==
  ASSUME stack \in Seq(FrameSet)
  PROVE  /\ Len(stack) \in Nat /\ (stack = << >> <=> Len(stack) = 0)
         /\ \A f : f \in Frames <=> \E i \in 1 .. Len(stack) : stack[i] = f
         /\ \A op : \A f : f \in Under(op) <=> \E i \in 1 .. Len(stack) : stack[i] = f /\ f.op = op
  BY SetOf DEF Frames, Under

\* Every frame names entities.
LEMMA FramesTyped ==
  ASSUME NEW S \in Seq(FrameSet)
  PROVE  \A i \in 1 .. Len(S) :
           /\ S[i] \in FrameSet /\ S[i].op \in Ops
           /\ S[i].ent \in Ents /\ S[i].other \in Ents
<1>1. \A i \in 1 .. Len(S) : S[i] \in FrameSet
  OBVIOUS
<1> QED BY <1>1 DEF FrameSet

\* A frame is what it is made of.
LEMMA FrameOf ==
  ASSUME NEW op \in Ops, NEW e \in Ents, NEW o \in Ents, NEW cb \in BOOLEAN
  PROVE  /\ Frame(op, e, o, cb) \in FrameSet
         /\ Frame(op, e, o, cb).op = op /\ Frame(op, e, o, cb).ent = e
         /\ Frame(op, e, o, cb).other = o
  BY DEF Frame, FrameSet

\* A frame that runs no game code.
LEMMA QuietFrameOf ==
  ASSUME NEW op \in Ops, NEW e \in Ents, NEW o \in Ents
  PROVE  /\ Frame(op, e, o, FALSE) \in FrameSet
         /\ Frame(op, e, o, FALSE).op = op /\ Frame(op, e, o, FALSE).ent = e
         /\ Frame(op, e, o, FALSE).other = o
<1>1. PICK cb \in BOOLEAN : cb = FALSE
  OBVIOUS
<1>2. /\ Frame(op, e, o, cb) \in FrameSet
      /\ Frame(op, e, o, cb).op = op /\ Frame(op, e, o, cb).ent = e
      /\ Frame(op, e, o, cb).other = o
  BY FrameOf
<1> QED BY <1>1, <1>2, Zenon

\* What is true of a stack is true without its top.
LEMMA Popped ==
  ASSUME NEW S, Shaped(S), S # << >>, NEW L, NEW A, NEW M
  PROVE  /\ Shaped(Front(S))
         /\ Present(S, A, M) => Present(Front(S), A, M)
         /\ Claimed(S, L) => Claimed(Front(S), L)
<1> DEFINE F == Front(S)
<1>1. /\ F \in Seq(FrameSet) /\ Len(F) = Len(S) - 1
      /\ \A i \in 1 .. Len(S) - 1 : F[i] = S[i]
      /\ Len(S) \in Nat
  BY FrontOf DEF Shaped
<1> HIDE DEF F
<1>2. \A i \in 1 .. Len(F) : i \in 1 .. Len(S) /\ F[i] = S[i]
  BY <1>1
<1>3. ASSUME NEW i \in 1 .. Len(F) PROVE Fits(F, i)
  <2>1. Fits(S, i) /\ F[i] = S[i] /\ i \in Nat
    BY <1>1, <1>2 DEF Shaped
  <2>2. /\ \A j \in 1 .. i - 1 : F[j] = S[j]
        /\ F[1] = S[1] /\ (i > 1 => F[i - 1] = S[i - 1])
    <3> DEFINE n == Len(S)
    <3>1. n \in Nat /\ i \in 1 .. n - 1 /\ \A j \in 1 .. n - 1 : F[j] = S[j]
      BY <1>1
    <3> HIDE DEF n
    <3>2. /\ \A j \in 1 .. i - 1 : j \in 1 .. n - 1
          /\ 1 \in 1 .. n - 1 /\ (i > 1 => i - 1 \in 1 .. n - 1)
      BY <3>1
    <3> QED BY <3>1, <3>2
  <2> QED BY <2>1, <2>2 DEF Fits
<1>4. Present(S, A, M) => Present(F, A, M)
  BY <1>2 DEF Present
<1>5. Claimed(S, L) => Claimed(F, L)
  BY <1>2 DEF Claimed
<1> QED BY <1>1, <1>3, <1>4, <1>5 DEF Shaped, F

\* A frame is put on a stack.
LEMMA Pushed ==
  ASSUME NEW S, Shaped(S), NEW f \in FrameSet, NEW L, NEW A, NEW M,
         Fits(Append(S, f), Len(S) + 1)
  PROVE  /\ Shaped(Append(S, f))
         /\ Len(Append(S, f)) = Len(S) + 1 /\ Append(S, f)[Len(S) + 1] = f
         /\ \A i \in 1 .. Len(S) : Append(S, f)[i] = S[i]
         /\ Present(S, A, M) /\ f.ent \in A
              /\ (f.op \in {"second", "secondEvent"} => f.other \in A)
              /\ (f.op = "purge" => f.ent \in M)
            => Present(Append(S, f), A, M)
         /\ Claimed(S, L)
              /\ (f.op \in Claims =>
                    /\ f.other \in ToSet(L[f.ent])
                    /\ \A i \in 1 .. Len(S) : S[i].op \in Claims =>
                         <<S[i].ent, S[i].other>> # <<f.ent, f.other>>)
            => Claimed(Append(S, f), L)
<1> DEFINE P == Append(S, f)
           n == Len(S)
<1>1. /\ P \in Seq(FrameSet) /\ Len(P) = n + 1 /\ P[n + 1] = f
      /\ \A i \in 1 .. n : P[i] = S[i]
      /\ n \in Nat
  BY AppendProperties DEF Shaped
<1> HIDE DEF P, n
<1>2. \A i \in 1 .. n + 1 : i = n + 1 \/ i \in 1 .. n
  BY <1>1
<1>3. ASSUME NEW i \in 1 .. n + 1 PROVE Fits(P, i)
  <2>1. CASE i = n + 1
    BY <2>1 DEF P, n
  <2>2. CASE i \in 1 .. n
    <3>1. Fits(S, i) /\ P[i] = S[i] /\ i \in Nat
      BY <1>1, <2>2 DEF Shaped, n
    <3>2. /\ \A j \in 1 .. i - 1 : P[j] = S[j]
          /\ P[1] = S[1] /\ (i > 1 => P[i - 1] = S[i - 1])
      BY <1>1, <2>2
    <3> QED BY <3>1, <3>2 DEF Fits
  <2> QED BY <1>2, <2>1, <2>2
<1>4. Present(S, A, M) /\ f.ent \in A
        /\ (f.op \in {"second", "secondEvent"} => f.other \in A)
        /\ (f.op = "purge" => f.ent \in M)
      => Present(P, A, M)
  BY <1>1, <1>2 DEF Present, n
<1>5. Claimed(S, L)
        /\ (f.op \in Claims =>
              /\ f.other \in ToSet(L[f.ent])
              /\ \A i \in 1 .. n : S[i].op \in Claims =>
                   <<S[i].ent, S[i].other>> # <<f.ent, f.other>>)
      => Claimed(P, L)
  BY <1>1, <1>2 DEF Claimed, n
<1> QED BY <1>1, <1>3, <1>4, <1>5 DEF Shaped, P, n

\* A frame of an operation that may be anywhere and claims nothing.
LEMMA FitsAnywhere ==
  ASSUME NEW S \in Seq(FrameSet), NEW f \in FrameSet,
         \/ f.op \in {"unlink", "touched", "stamp"}
         \/ f.op = "second" /\ f.ent # f.other
  PROVE  Fits(Append(S, f), Len(S) + 1)
<1>1. Append(S, f)[Len(S) + 1] = f
  BY AppendProperties
<1> QED BY <1>1 DEF Fits

\* A frame more on the stack.
LEMMA SetAppended ==
  ASSUME NEW S \in Seq(FrameSet), NEW f \in FrameSet
  PROVE  ToSet(Append(S, f)) = ToSet(S) \cup {f}
<1> DEFINE P == Append(S, f)
<1>1. /\ P \in Seq(FrameSet) /\ Len(P) = Len(S) + 1 /\ P[Len(S) + 1] = f
      /\ \A i \in 1 .. Len(S) : P[i] = S[i]
      /\ Len(S) \in Nat
  BY AppendProperties
<1> HIDE DEF P
<1>2. \A x : x \in ToSet(P) <=> x \in ToSet(S) \/ x = f
  <2>1. \A x : x \in ToSet(P) <=> \E i \in 1 .. Len(S) + 1 : P[i] = x
    BY <1>1, SetOf
  <2>2. \A x : x \in ToSet(S) <=> \E i \in 1 .. Len(S) : S[i] = x
    BY SetOf
  <2>3. \A i \in 1 .. Len(S) + 1 : i = Len(S) + 1 \/ i \in 1 .. Len(S)
    BY <1>1
  <2>4. /\ Len(S) + 1 \in 1 .. Len(S) + 1
        /\ \A i \in 1 .. Len(S) : i \in 1 .. Len(S) + 1
    BY <1>1
  <2> QED BY <1>1, <2>1, <2>2, <2>3, <2>4
<1> QED BY <1>2 DEF P

\* A stack is its top on what is below.
LEMMA TopOf ==
  ASSUME NEW S \in Seq(FrameSet), S # << >>
  PROVE  /\ S = Append(Front(S), Last(S))
         /\ Front(S) \in Seq(FrameSet) /\ Last(S) \in FrameSet
         /\ Len(S) \in 1 .. Len(S) /\ Last(S) = S[Len(S)]
         /\ Len(Front(S)) = Len(S) - 1
         /\ \A i \in 1 .. Len(S) - 1 : Front(S)[i] = S[i]
<1>1. /\ Front(S) \in Seq(FrameSet) /\ Last(S) \in FrameSet
      /\ Len(S) \in 1 .. Len(S) /\ Last(S) = S[Len(S)]
      /\ Len(Front(S)) = Len(S) - 1
      /\ \A i \in 1 .. Len(S) - 1 : Front(S)[i] = S[i]
  BY FrontOf
<1> DEFINE P == Append(Front(S), Last(S))
<1>2. /\ P \in Seq(FrameSet) /\ Len(P) = Len(S) - 1 + 1 /\ P[Len(S) - 1 + 1] = Last(S)
      /\ \A i \in 1 .. Len(S) - 1 : P[i] = Front(S)[i]
  BY <1>1, AppendProperties
<1> HIDE DEF P
<1>3. Len(P) = Len(S) /\ \A i \in 1 .. Len(S) : P[i] = S[i]
  <2>1. Len(S) \in Nat
    OBVIOUS
  <2> DEFINE n == Len(S)
  <2>2. n - 1 + 1 = n /\ \A i \in 1 .. n : i = n \/ i \in 1 .. n - 1
    <3> HIDE DEF n
    <3> QED BY <2>1 DEF n
  <2> QED BY <1>1, <1>2, <2>2
<1>4. P = S
  BY <1>2, <1>3, SeqEqual
<1> QED BY <1>1, <1>4 DEF P

\* Frames that a step may take off the stack, and such as it may put there.
Takes(ops) == \A f \in Frames : f \in Frames' \/ f.op \in ops
Brings(ops) == \A f \in Frames' : f \in Frames \/ f.op \in ops

\* The frames of other operations stay what they are.
LEMMA UnderSame ==
  ASSUME NEW X, NEW Y, Takes(X), Brings(Y), NEW op, op \notin X, op \notin Y
  PROVE  Under(op)' = Under(op)
BY DEF Takes, Brings, Under

\* A frame is put on the stack, the top is returned from, and both.
LEMMA FramesMoved ==
  ASSUME stack \in Seq(FrameSet), NEW f \in FrameSet
  PROVE  /\ stack' = Append(stack, f) => Takes({}) /\ Brings({f.op}) /\ Frames' = Frames \cup {f}
         /\ stack # << >> /\ stack' = Front(stack) =>
              /\ Takes({Last(stack).op}) /\ Brings({})
              /\ Frames = Frames' \cup {Last(stack)}
         /\ stack # << >> /\ stack' = Append(Front(stack), f) =>
              /\ Takes({Last(stack).op}) /\ Brings({f.op}) /\ f \in Frames'
              /\ Frames' \subseteq Frames \cup {f}
<1>1. ASSUME stack' = Append(stack, f)
      PROVE  Takes({}) /\ Brings({f.op}) /\ Frames' = Frames \cup {f}
  <2>1. Frames' = Frames \cup {f}
    BY <1>1, SetAppended DEF Frames
  <2> QED BY <2>1 DEF Takes, Brings
<1>2. ASSUME stack # << >>
      PROVE  /\ Frames = ToSet(Front(stack)) \cup {Last(stack)}
             /\ ToSet(Append(Front(stack), f)) = ToSet(Front(stack)) \cup {f}
  <2>1. /\ stack = Append(Front(stack), Last(stack))
        /\ Front(stack) \in Seq(FrameSet) /\ Last(stack) \in FrameSet
    BY <1>2, TopOf
  <2>2. ToSet(Append(Front(stack), Last(stack))) = ToSet(Front(stack)) \cup {Last(stack)}
    BY <2>1, SetAppended
  <2>3. Frames = ToSet(Append(Front(stack), Last(stack)))
    BY <2>1 DEF Frames
  <2> QED BY <2>1, <2>2, <2>3, SetAppended
<1>3. ASSUME stack # << >>, stack' = Front(stack)
      PROVE  /\ Takes({Last(stack).op}) /\ Brings({})
             /\ Frames = Frames' \cup {Last(stack)}
  <2>1. Frames' = ToSet(Front(stack))
    BY <1>3 DEF Frames
  <2>2. Frames = Frames' \cup {Last(stack)}
    BY <1>2, <1>3, <2>1
  <2> QED BY <2>2 DEF Takes, Brings
<1>4. ASSUME stack # << >>, stack' = Append(Front(stack), f)
      PROVE  /\ Takes({Last(stack).op}) /\ Brings({f.op}) /\ f \in Frames'
             /\ Frames' \subseteq Frames \cup {f}
  <2>1. Frames' = ToSet(Append(Front(stack), f))
    BY <1>4 DEF Frames
  <2>2. Frames' = ToSet(Front(stack)) \cup {f} /\ Frames = ToSet(Front(stack)) \cup {Last(stack)}
    BY <1>2, <1>4, <2>1
  <2> QED BY <2>2 DEF Takes, Brings
<1> QED BY <1>1, <1>3, <1>4

\* Two frames are put on a stack.
LEMMA PushedTwo ==
  ASSUME NEW S \in Seq(FrameSet), NEW f \in FrameSet, NEW g \in FrameSet
  PROVE  /\ S \o <<f, g>> = Append(Append(S, f), g)
         /\ <<f, g>> = Append(Append(<< >>, f), g) /\ <<f>> = Append(<< >>, f)
  OBVIOUS

-----------------------------------------------------------------------------
(* The links.                                                              *)

\* FreeTouchLink takes one link out of one list.
LEMMA FreedLists ==
  ASSUME ListsTyped, NEW o \in Ents, NEW t \in Ents,
         list' = [list EXCEPT ![o] = RemoveFirst(@, t)]
  PROVE  /\ ListsTyped'
         /\ \A e \in Ents : ToSet(list'[e]) = IF e = o THEN ToSet(list[e]) \ {t}
                                                ELSE ToSet(list[e])
         /\ \A e \in Ents : \A u, v :
              At(list[e], u, v) /\ (e = o => u # t /\ v # t) => At(list'[e], u, v)
<1>1. list[o] \in Seq(Ents) /\ IsInjective(list[o])
  BY DEF ListsTyped
<1>2. \A e \in Ents : list'[e] = IF e = o THEN RemoveFirst(list[o], t) ELSE list[e]
  BY DEF ListsTyped
<1>3. /\ RemoveFirst(list[o], t) \in Seq(Ents) /\ IsInjective(RemoveFirst(list[o], t))
      /\ ToSet(RemoveFirst(list[o], t)) = ToSet(list[o]) \ {t}
      /\ \A u, v : At(list[o], u, v) /\ u # t /\ v # t => At(RemoveFirst(list[o], t), u, v)
  BY <1>1, LinkFreed
<1>4. list' \in [Ents -> Seq(Ents)]
  BY <1>3 DEF ListsTyped
<1> QED BY <1>2, <1>3, <1>4 DEF ListsTyped

\* A link more in one list.
LEMMA AddedLists ==
  ASSUME ListsTyped, NEW o \in Ents, NEW t \in Ents, o # t, ~HasLink(o, t),
         list' = [list EXCEPT ![o] = <<t>> \o @]
  PROVE  /\ ListsTyped'
         /\ \A e \in Ents : ToSet(list'[e]) = IF e = o THEN ToSet(list[e]) \cup {t}
                                                ELSE ToSet(list[e])
         /\ \A e \in Ents : \A u, v : At(list[e], u, v) => At(list'[e], u, v)
<1>1. list[o] \in Seq(Ents) /\ IsInjective(list[o]) /\ t \notin ToSet(list[o])
  BY DEF ListsTyped, HasLink
<1>2. \A e \in Ents : list'[e] = IF e = o THEN <<t>> \o list[o] ELSE list[e]
  BY DEF ListsTyped
<1>3. /\ <<t>> \o list[o] \in Seq(Ents) /\ IsInjective(<<t>> \o list[o])
      /\ ToSet(<<t>> \o list[o]) = ToSet(list[o]) \cup {t}
      /\ \A u, v : At(list[o], u, v) => At(<<t>> \o list[o], u, v)
  BY <1>1, LinkAdded
<1>4. list' \in [Ents -> Seq(Ents)]
  BY <1>3 DEF ListsTyped
<1> QED BY <1>2, <1>3, <1>4 DEF ListsTyped

\* PhysicsMarkEntityAsTouched leaves a link and its stamp.
LEMMA MarkedLists ==
  ASSUME ListsTyped, NEW a \in Ents, NEW b \in Ents, a # b, MarkAsTouched(a, b)
  PROVE  /\ ListsTyped'
         /\ \A e \in Ents : ToSet(list'[e]) = IF e = a THEN ToSet(list[e]) \cup {b}
                                                ELSE ToSet(list[e])
         /\ \A e \in Ents : \A u, v : At(list[e], u, v) => At(list'[e], u, v)
<1>1. CASE HasLink(a, b)
  <2>1. list' = list /\ b \in ToSet(list[a])
    BY <1>1 DEF MarkAsTouched, HasLink
  <2> QED BY <2>1 DEF ListsTyped
<1>2. CASE ~HasLink(a, b)
  <2>1. list' = [list EXCEPT ![a] = <<b>> \o @]
    BY <1>2 DEF MarkAsTouched
  <2> QED BY <1>2, <2>1, AddedLists
<1> QED BY <1>1, <1>2

\* The link behind a link is a link of the same list, or its root.
LEMMA FollowingOf ==
  ASSUME ListsTyped, NEW o \in Ents, NEW t, HasLink(o, t)
  PROVE  /\ Following(o, t) \in Ents \cup {ROOT}
         /\ Following(o, t) # ROOT => HasLink(o, Following(o, t)) /\ Following(o, t) # t
<1> DEFINE s == list[o]
           i == CHOOSE j \in DOMAIN s : s[j] = t
<1>1. s \in Seq(Ents) /\ IsInjective(s) /\ Len(s) \in Nat
  BY DEF ListsTyped
<1>2. DOMAIN s = 1 .. Len(s)
  BY <1>1
<1>3. \E j \in DOMAIN s : s[j] = t
  BY DEF HasLink, ToSet
<1>4. i \in 1 .. Len(s) /\ s[i] = t
  BY <1>2, <1>3
<1>5. Following(o, t) = IF i = Len(s) THEN ROOT ELSE s[i + 1]
  BY DEF Following
<1> HIDE DEF s, i
<1>6. /\ Following(o, t) \in Ents \cup {ROOT}
      /\ Following(o, t) # ROOT => HasLink(o, Following(o, t)) /\ Following(o, t) # t
  <2>1. CASE i = Len(s)
    BY <1>5, <2>1
  <2>2. CASE i # Len(s)
    <3>1. i + 1 \in 1 .. Len(s) /\ i + 1 # i
      BY <1>1, <1>4, <2>2
    <3>2. s[i + 1] \in Ents /\ s[i + 1] \in ToSet(s)
      BY <1>1, <1>2, <3>1 DEF ToSet
    <3>3. s[i + 1] # t
      BY <1>1, <1>2, <1>4, <3>1 DEF IsInjective
    <3> QED BY <1>5, <2>2, <3>2, <3>3 DEF HasLink, s
  <2> QED BY <2>1, <2>2
<1> QED BY <1>6

\* What is behind a link is at the link that follows it or behind that.
LEMMA BehindFollowing ==
  ASSUME ListsTyped, NEW o \in Ents, NEW t, HasLink(o, t),
         NEW v, At(list[o], t, v), v # t
  PROVE  Following(o, t) # ROOT /\ At(list[o], Following(o, t), v)
<1> DEFINE s == list[o]
           i == CHOOSE j \in DOMAIN s : s[j] = t
<1>1. s \in Seq(Ents) /\ IsInjective(s) /\ Len(s) \in Nat
  BY DEF ListsTyped
<1>2. DOMAIN s = 1 .. Len(s)
  BY <1>1
<1>3. \E j \in DOMAIN s : s[j] = t
  BY DEF HasLink, ToSet
<1>4. i \in 1 .. Len(s) /\ s[i] = t
  BY <1>2, <1>3
<1>5. Following(o, t) = IF i = Len(s) THEN ROOT ELSE s[i + 1]
  BY DEF Following
<1> HIDE DEF s, i
<1>6. PICK k, j \in 1 .. Len(s) : k <= j /\ s[k] = t /\ s[j] = v
  BY <1>2 DEF At, s
<1>7. k = i /\ j # i
  BY <1>1, <1>2, <1>4, <1>6 DEF IsInjective
<1>8. i # Len(s) /\ i + 1 \in 1 .. Len(s) /\ i + 1 <= j
  BY <1>1, <1>4, <1>6, <1>7
<1>9. At(s, s[i + 1], v)
  BY <1>2, <1>6, <1>8 DEF At
<1>10. Following(o, t) = s[i + 1] /\ s[i + 1] \in Ents
  BY <1>1, <1>5, <1>8
<1>11. s[i + 1] # ROOT
  BY <1>10
<1> QED BY <1>9, <1>10, <1>11 DEF s

-----------------------------------------------------------------------------
(* Every step leaves a sound stack.                                        *)

\* What is known of the top of the stack.
LEMMA TopFacts ==
  ASSUME StackSound, stack # << >>
  PROVE  /\ Len(stack) \in Nat /\ Len(stack) >= 1 /\ stack \in Seq(FrameSet)
         /\ Last(stack) = stack[Len(stack)] /\ Last(stack) \in FrameSet
         /\ Ent \in Ents /\ Ent \in alive /\ Other \in Ents
         /\ Fits(stack, Len(stack))
         /\ Last(stack).op \in Claims =>
              /\ HasLink(Ent, Other)
              /\ \A i \in 1 .. Len(stack) - 1 : stack[i].op \in Claims =>
                   <<stack[i].ent, stack[i].other>> # <<Ent, Other>>
         /\ Last(stack).op \in {"second", "secondEvent"} => Other \in alive /\ Ent # Other
         /\ Last(stack).op = "purge" =>
              /\ Ent \in marked
              /\ \A j \in 1 .. Len(stack) - 1 : Ent \notin {stack[j].ent, stack[j].other}
<1> DEFINE n == Len(stack)
<1>1. /\ stack \in Seq(FrameSet) /\ n \in 1 .. n /\ Last(stack) = stack[n]
      /\ Last(stack) \in FrameSet /\ n \in Nat
  BY TopOf DEF StackSound, Shaped
<1>2. n >= 1 /\ \A i \in 1 .. n - 1 : i \in 1 .. n /\ i # n
  BY <1>1
<1>3. Fits(stack, n)
  BY <1>1 DEF StackSound, Shaped
<1>4. /\ Ent = stack[n].ent /\ Other = stack[n].other
      /\ Ent \in Ents /\ Other \in Ents
  BY <1>1 DEF Ent, Other, FrameSet
<1>5. /\ Ent \in alive
      /\ Last(stack).op \in {"second", "secondEvent"} => Other \in alive /\ Ent # Other
      /\ Last(stack).op = "purge" => Ent \in marked
  BY <1>1, <1>3, <1>4 DEF StackSound, Present, Fits
<1>6. Last(stack).op \in Claims =>
        /\ HasLink(Ent, Other)
        /\ \A i \in 1 .. n - 1 : stack[i].op \in Claims =>
             <<stack[i].ent, stack[i].other>> # <<Ent, Other>>
  BY <1>1, <1>2, <1>4 DEF StackSound, Claimed, HasLink
<1>7. Last(stack).op = "purge" => \A j \in 1 .. n - 1 : Ent \notin {stack[j].ent, stack[j].other}
  BY <1>1, <1>3, <1>4 DEF Fits
<1> QED BY <1>1, <1>2, <1>3, <1>4, <1>5, <1>6, <1>7

\* Links that join a list take nobody's claim away.
LEMMA ClaimsKept ==
  ASSUME NEW S, Shaped(S), NEW L, NEW K, Claimed(S, L),
         \A e \in Ents : ToSet(L[e]) \subseteq ToSet(K[e])
  PROVE  Claimed(S, K)
<1>1. \A i \in 1 .. Len(S) : S[i].ent \in Ents
  BY FramesTyped DEF Shaped
<1> QED BY <1>1 DEF Claimed

\* The link that the top frame claims is freed when that frame goes.
LEMMA ClaimsFreed ==
  ASSUME StackSound, stack # << >>, NEW K,
         \A e \in Ents : ToSet(K[e]) = IF e = Ent THEN ToSet(list[e]) \ {Other}
                                        ELSE ToSet(list[e]),
         Last(stack).op \in Claims
  PROVE  Claimed(Front(stack), K)
<1> DEFINE F == Front(stack)
<1>1. /\ Claimed(F, list) /\ Shaped(F)
  BY Popped DEF StackSound
<1>2. \A i \in 1 .. Len(F) : i \in 1 .. Len(stack) - 1 /\ F[i] = stack[i]
  BY TopFacts, TopOf
<1>3. \A i \in 1 .. Len(F) : F[i].ent \in Ents
  BY <1>1, FramesTyped DEF Shaped
<1> HIDE DEF F
<1>4. ASSUME NEW i \in 1 .. Len(F), F[i].op \in Claims
      PROVE  F[i].other \in ToSet(K[F[i].ent])
  <2>1. F[i].other \in ToSet(list[F[i].ent])
    BY <1>1, <1>4 DEF Claimed
  <2>2. <<F[i].ent, F[i].other>> # <<Ent, Other>>
    BY <1>2, <1>4, TopFacts
  <2> QED BY <1>3, <2>1, <2>2
<1>5. \A i, j \in 1 .. Len(F) :
        i # j /\ F[i].op \in Claims /\ F[j].op \in Claims =>
          <<F[i].ent, F[i].other>> # <<F[j].ent, F[j].other>>
  BY <1>1 DEF Claimed
<1> QED BY <1>4, <1>5 DEF Claimed, F

\* The pairs that touch are pairs of two.
LEMMA PairsOf ==
  ASSUME NEW a, NEW b, {a, b} \in Meets \cup Contacts
  PROVE  a \in Ents /\ b \in Ents /\ a # b
<1>1. PICK c, d \in Ents : c # d /\ {a, b} = {c, d}
  BY PairsAssumption
<1> QED BY <1>1

\* The top is returned from.
LEMMA Returned ==
  ASSUME stack \in Seq(FrameSet), stack # << >>, stack' = Front(stack)
  PROVE  /\ Takes({Last(stack).op}) /\ Brings({})
         /\ Frames = Frames' \cup {Last(stack)}
<1>1. Last(stack) \in FrameSet
  BY TopOf
<1> QED BY <1>1, FramesMoved

\* A frame is returned from, and nothing else happens.
LEMMA ReturnStack ==
  ASSUME StackSound, stack # << >>, stack' = Front(stack), UNCHANGED <<alive, marked, list>>
  PROVE  /\ StackSound' /\ Takes({Last(stack).op}) /\ Brings({})
         /\ Frames = Frames' \cup {Last(stack)}
<1>1. stack \in Seq(FrameSet)
  BY DEF StackSound, Shaped
<1> QED BY <1>1, Popped, Returned DEF StackSound

\* The links of a pair whose contact is reported are nobody's claim.
LEMMA ReportedUnclaimed ==
  ASSUME stack \in Seq(FrameSet), NEW a, NEW b, Reports(a, b)
  PROVE  \A i \in 1 .. Len(stack) : stack[i].op \in Claims =>
           /\ <<stack[i].ent, stack[i].other>> # <<a, b>>
           /\ <<stack[i].ent, stack[i].other>> # <<b, a>>
<1> TAKE i \in 1 .. Len(stack)
<1> HAVE stack[i].op \in Claims
<1>1. stack[i] \in Frames
  BY FramesOf
<1>2. {stack[i].ent, stack[i].other} # {a, b}
  BY <1>1 DEF Reports, InTheMiddle, Claims
<1> QED BY <1>2

\* A frame that comes when nobody below claims the other one's link.
LEMMA FitsUnclaimed ==
  ASSUME NEW S \in Seq(FrameSet), NEW f \in FrameSet,
         \/ f.op = "notify"
         \/ f.op = "secondEvent" /\ f.ent # f.other,
         \A i \in 1 .. Len(S) : S[i].op \in Claims =>
           <<S[i].ent, S[i].other>> # <<f.other, f.ent>>
  PROVE  Fits(Append(S, f), Len(S) + 1)
<1> DEFINE P == Append(S, f)
           n == Len(S)
<1>1. P[n + 1] = f /\ n \in Nat /\ \A i \in 1 .. n : P[i] = S[i]
  BY AppendProperties
<1> HIDE DEF P
<1>2. \A i \in 1 .. n : P[i].op \in Claims => <<P[i].ent, P[i].other>> # <<f.other, f.ent>>
  BY <1>1
<1> HIDE DEF n
<1>3. n + 1 - 1 = n
  BY <1>1
<1>4. f.op \notin {"walk", "second", "untouch", "purge", "free"}
  OBVIOUS
<1>5. Fits(P, n + 1)
  BY <1>1, <1>2, <1>3, <1>4 DEF Fits
<1> QED BY <1>5 DEF P, n

\* A touch begins.
LEMMA TouchesStack ==
  ASSUME ListsTyped, StackSound, NEW a, NEW b, NEW second, {a, b} \in Meets \cup Contacts,
         second = "second" \/ (second = "secondEvent" /\ Reports(a, b)),
         Touches(a, b, second)
  PROVE  StackSound' /\ Takes({}) /\ Brings({"second", "secondEvent"})
<1> DEFINE f == Frame(second, a, b, CallsBack(a, b))
<1>1. a \in Ents /\ b \in Ents /\ a # b
  BY PairsOf
<1>2. /\ stack' = Append(stack, f) /\ a \in alive /\ b \in alive
      /\ UNCHANGED <<alive, marked>> /\ MarkAsTouched(a, b)
  BY DEF Touches
<1>3. f \in FrameSet /\ f.op = second /\ f.ent = a /\ f.other = b
  <2>1. CallsBack(a, b) \in BOOLEAN /\ second \in Ops
    BY DEF CallsBack, HasLink, Starts, Ops
  <2> QED BY <1>1, <2>1, FrameOf
<1> HIDE DEF f
<1>4. \A e \in Ents : ToSet(list'[e]) = IF e = a THEN ToSet(list[e]) \cup {b} ELSE ToSet(list[e])
  BY <1>1, <1>2, MarkedLists
<1>5. Claimed(stack, list') /\ Shaped(stack) /\ Present(stack, alive, marked)
  BY <1>4, ClaimsKept DEF StackSound
<1>6. Fits(Append(stack, f), Len(stack) + 1)
  <2>1. CASE second = "second"
    BY <1>1, <1>3, <1>5, <2>1, FitsAnywhere DEF Shaped
  <2>2. CASE second = "secondEvent" /\ Reports(a, b)
    BY <1>1, <1>3, <1>5, <2>2, ReportedUnclaimed, FitsUnclaimed DEF Shaped
  <2> QED BY <2>1, <2>2
<1>7. f.op \in Claims =>
        /\ f.other \in ToSet(list'[f.ent])
        /\ \A i \in 1 .. Len(stack) : stack[i].op \in Claims =>
             <<stack[i].ent, stack[i].other>> # <<f.ent, f.other>>
  <2>1. f.op \in Claims => Reports(a, b)
    BY <1>3 DEF Claims
  <2>2. Reports(a, b) => \A i \in 1 .. Len(stack) : stack[i].op \in Claims =>
          <<stack[i].ent, stack[i].other>> # <<a, b>>
    BY <1>5, ReportedUnclaimed DEF Shaped
  <2> QED BY <1>1, <1>3, <1>4, <2>1, <2>2
<1>8. Takes({}) /\ Brings({f.op})
  BY <1>2, <1>3, <1>5, FramesMoved DEF Shaped
<1>9. Brings({"second", "secondEvent"})
  BY <1>3, <1>8 DEF Brings
<1> QED BY <1>2, <1>3, <1>5, <1>6, <1>7, <1>8, <1>9, Pushed DEF StackSound

\* The second half of a touch.
LEMMA SecondStack ==
  ASSUME ListsTyped, StackSound, Second
  PROVE  StackSound' /\ Takes({"second"}) /\ Brings({})
<1>1. /\ stack # << >> /\ Last(stack).op = "second"
      /\ stack' = Front(stack) /\ UNCHANGED <<alive, marked>>
      /\ (MarkAsTouched(Other, Ent) \/ list' = list)
  BY DEF Second, Top, links
<1>2. Ent \in Ents /\ Other \in Ents /\ Ent # Other
  BY <1>1, TopFacts
<1>3. \A e \in Ents : ToSet(list[e]) \subseteq ToSet(list'[e])
  <2>1. MarkAsTouched(Other, Ent) => \A e \in Ents :
          ToSet(list'[e]) = IF e = Other THEN ToSet(list[e]) \cup {Ent} ELSE ToSet(list[e])
    BY <1>2, MarkedLists
  <2> QED BY <1>1, <2>1
<1>4. Claimed(stack, list')
  BY <1>3, ClaimsKept DEF StackSound
<1>5. Takes({"second"}) /\ Brings({})
  BY <1>1, Returned DEF StackSound, Shaped
<1> QED BY <1>1, <1>4, <1>5, Popped DEF StackSound

\* The other one has a link now.
OtherLinked ==
  list' = IF HasLink(Other, Ent) THEN list ELSE [list EXCEPT ![Other] = <<Ent>> \o @]

\* ... and of one that the physics engine reports, after which the first link is
\* still to be stamped.
LEMMA SecondEventStack ==
  ASSUME ListsTyped, StackSound, SecondEvent
  PROVE  /\ StackSound' /\ ListsTyped'
         /\ Takes({"secondEvent"}) /\ Brings({"stamp"})
         /\ OtherLinked => \A e \in Ents :
              ToSet(list'[e]) = IF e = Other THEN ToSet(list[e]) \cup {Ent} ELSE ToSet(list[e])
         /\ \A e \in Ents : \A u, v : At(list[e], u, v) => At(list'[e], u, v)
<1> DEFINE F == Front(stack)
           f == Frame("stamp", Other, Ent, CallsBack(Other, Ent))
<1>1. /\ stack # << >> /\ Last(stack).op = "secondEvent"
      /\ UNCHANGED <<alive, marked>>
  BY DEF SecondEvent, Top
<1>2. Ent \in Ents /\ Other \in Ents /\ Ent # Other /\ Other \in alive
  BY <1>1, TopFacts
<1>2a. stack \in Seq(FrameSet)
  BY DEF StackSound, Shaped
<1>3. \A i \in 1 .. Len(F) : F[i].op \in Claims =>
        <<F[i].ent, F[i].other>> # <<Other, Ent>>
  <2>1. /\ Fits(stack, Len(stack)) /\ stack[Len(stack)] = Last(stack)
        /\ Ent = Last(stack).ent /\ Other = Last(stack).other
    BY <1>1, TopFacts DEF Ent, Other
  <2>2. \A j \in 1 .. Len(stack) - 1 : stack[j].op \in Claims =>
          <<stack[j].ent, stack[j].other>> # <<Other, Ent>>
    BY <1>1, <2>1 DEF Fits
  <2>3. \A i \in 1 .. Len(F) : i \in 1 .. Len(stack) - 1 /\ F[i] = stack[i]
    BY <1>1, <1>2a, TopOf
  <2> QED BY <2>2, <2>3
<1>4. Shaped(F) /\ Present(F, alive, marked) /\ Claimed(F, list)
  BY <1>1, Popped DEF StackSound
<1>4a. ASSUME OtherLinked
       PROVE  /\ ListsTyped'
              /\ \A e \in Ents : ToSet(list'[e]) = IF e = Other THEN ToSet(list[e]) \cup {Ent}
                                                     ELSE ToSet(list[e])
              /\ \A e \in Ents : \A u, v : At(list[e], u, v) => At(list'[e], u, v)
  <2>1. CASE HasLink(Other, Ent)
    BY <1>4a, <2>1 DEF HasLink, ListsTyped, OtherLinked
  <2>2. CASE ~HasLink(Other, Ent)
    <3> DEFINE o == Other
               t == Ent
    <3>1. /\ o \in Ents /\ t \in Ents /\ o # t /\ ~HasLink(o, t)
          /\ list' = [list EXCEPT ![o] = <<t>> \o @]
      BY <1>2, <1>4a, <2>2 DEF OtherLinked
    <3> HIDE DEF o, t
    <3>2. /\ ListsTyped'
          /\ \A e \in Ents : ToSet(list'[e]) = IF e = o THEN ToSet(list[e]) \cup {t}
                                                 ELSE ToSet(list[e])
          /\ \A e \in Ents : \A u, v : At(list[e], u, v) => At(list'[e], u, v)
      BY <3>1, AddedLists
    <3> QED BY <3>2 DEF o, t
  <2> QED BY <2>1, <2>2
<1>5. CASE stack' = F /\ list' = list
  <2>2. Takes({"secondEvent"}) /\ Brings({})
    BY <1>1, <1>2a, <1>5, Returned
  <2>3. Brings({"stamp"})
    BY <2>2 DEF Brings
  <2> QED BY <1>1, <1>4, <1>4a, <1>5, <2>2, <2>3 DEF StackSound, ListsTyped
<1>6. CASE stack' = Append(F, f) /\ OtherLinked
  <2>1. stack' = Append(F, f)
    BY <1>6
  <2>2. f \in FrameSet /\ f.op = "stamp" /\ f.ent = Other /\ f.other = Ent
    <3>1. CallsBack(Other, Ent) \in BOOLEAN /\ "stamp" \in Ops
      BY DEF CallsBack, HasLink, Starts, Ops
    <3> QED BY <1>2, <3>1, FrameOf
  <2> HIDE DEF F, f
  <2>3. /\ ListsTyped'
        /\ \A e \in Ents : ToSet(list'[e]) = IF e = Other THEN ToSet(list[e]) \cup {Ent}
                                               ELSE ToSet(list[e])
        /\ \A e \in Ents : \A u, v : At(list[e], u, v) => At(list'[e], u, v)
    BY <1>4a, <1>6
  <2>4. Claimed(F, list')
    BY <1>4, <2>3, ClaimsKept
  <2>6. Fits(Append(F, f), Len(F) + 1)
    BY <1>4, <2>2, FitsAnywhere DEF Shaped
  <2>7. /\ f.other \in ToSet(list'[f.ent])
        /\ \A i \in 1 .. Len(F) : F[i].op \in Claims =>
             <<F[i].ent, F[i].other>> # <<f.ent, f.other>>
    <3>1. \A i \in 1 .. Len(F) : F[i].op \in Claims =>
            <<F[i].ent, F[i].other>> # <<Other, Ent>>
      BY <1>3 DEF F
    <3> QED BY <1>2, <2>2, <2>3, <3>1
  <2>8. Shaped(Append(F, f)) /\ Present(Append(F, f), alive, marked) /\ Claimed(Append(F, f), list')
    BY <1>2, <1>4, <2>2, <2>4, <2>6, <2>7, Pushed
  <2>9. Takes({"secondEvent"}) /\ Brings({"stamp"})
    BY <1>1, <1>2a, <2>1, <2>2, FramesMoved DEF F
  <2> QED BY <1>1, <2>1, <2>3, <2>8, <2>9 DEF StackSound
<1> QED BY <1>5, <1>6 DEF SecondEvent, OtherLinked

\* One frame on an empty stack.
LEMMA FirstFrame ==
  ASSUME NEW f \in FrameSet, f.op \in {"walk", "purge"},
         NEW L, NEW A, NEW M, f.ent \in A, f.op = "purge" => f.ent \in M
  PROVE  /\ Shaped(<<f>>) /\ Present(<<f>>, A, M) /\ Claimed(<<f>>, L)
         /\ Len(<<f>>) = 1 /\ <<f>>[1] = f /\ ToSet(<<f>>) = {f}
<1> DEFINE P == <<f>>
<1>1. P \in Seq(FrameSet) /\ Len(P) = 1 /\ P[1] = f
  OBVIOUS
<1> HIDE DEF P
<1>2. \A i \in 1 .. Len(P) : i = 1
  BY <1>1
<1>3. Fits(P, 1)
  BY <1>1 DEF Fits
<1>4. ToSet(P) = {f}
  BY <1>1, <1>2, SetOf
<1> QED BY <1>1, <1>2, <1>3, <1>4 DEF Shaped, Present, Claimed, Claims, P

\* The physics engine reports the end of a contact.
LEMMA DispatchStack ==
  ASSUME StackSound, NEW a, NEW b, DispatchEndTouch(a, b)
  PROVE  /\ StackSound' /\ Takes({}) /\ Brings({"notify"})
         /\ a \in Ents /\ b \in Ents /\ a # b
<1> DEFINE f == Frame("notify", b, a, FALSE)
           g == Frame("notify", a, b, FALSE)
           P == Append(stack, f)
<1>1. /\ stack' = stack \o <<f, g>> /\ a \in alive /\ b \in alive
      /\ a \in Ents /\ b \in Ents /\ a # b
      /\ Reports(a, b) /\ UNCHANGED <<alive, marked, list>>
  BY PairsOf DEF DispatchEndTouch, links, Reports
<1>2. /\ f \in FrameSet /\ f.op = "notify" /\ f.ent = b /\ f.other = a
      /\ g \in FrameSet /\ g.op = "notify" /\ g.ent = a /\ g.other = b
  <2>1. "notify" \in Ops
    BY DEF Ops
  <2>2. f \in FrameSet /\ g \in FrameSet
    BY <1>1, <2>1, QuietFrameOf, Zenon
  <2>3. /\ f.op = "notify" /\ f.ent = b /\ f.other = a
        /\ g.op = "notify" /\ g.ent = a /\ g.other = b
    BY DEF Frame
  <2> QED BY <2>2, <2>3
<1> HIDE DEF f, g
<1>3. Shaped(stack) /\ Present(stack, alive, marked) /\ Claimed(stack, list)
      /\ stack \in Seq(FrameSet)
  BY DEF StackSound, Shaped
<1>4. \A i \in 1 .. Len(stack) : stack[i].op \in Claims =>
        /\ <<stack[i].ent, stack[i].other>> # <<a, b>>
        /\ <<stack[i].ent, stack[i].other>> # <<b, a>>
  BY <1>1, <1>3, ReportedUnclaimed
<1>5. Fits(P, Len(stack) + 1)
  BY <1>2, <1>3, <1>4, FitsUnclaimed
<1>6. /\ Shaped(P) /\ Present(P, alive, marked) /\ Claimed(P, list)
      /\ Len(P) = Len(stack) + 1 /\ P[Len(stack) + 1] = f
      /\ \A i \in 1 .. Len(stack) : P[i] = stack[i]
  BY <1>1, <1>2, <1>3, <1>5, Pushed DEF Claims
<1> HIDE DEF P
<1>7. \A i \in 1 .. Len(P) : P[i].op \in Claims => <<P[i].ent, P[i].other>> # <<b, a>>
  <2>1. \A i \in 1 .. Len(stack) + 1 : i = Len(stack) + 1 \/ i \in 1 .. Len(stack)
    BY <1>3, FramesOf
  <2>2. f.op \notin Claims
    BY <1>2 DEF Claims
  <2> QED BY <1>4, <1>6, <2>1, <2>2
<1>8. Fits(Append(P, g), Len(P) + 1)
  BY <1>2, <1>6, <1>7, FitsUnclaimed DEF Shaped
<1>9. /\ Shaped(Append(P, g)) /\ Present(Append(P, g), alive, marked)
      /\ Claimed(Append(P, g), list)
  BY <1>1, <1>2, <1>6, <1>8, Pushed DEF Claims
<1>10. stack' = Append(P, g)
  BY <1>1, <1>2, <1>3, PushedTwo DEF P
<1>11. Frames' = Frames \cup {f, g}
  <2>1. ToSet(P) = ToSet(stack) \cup {f}
    BY <1>2, <1>3, SetAppended DEF P
  <2>2. ToSet(Append(P, g)) = ToSet(P) \cup {g}
    BY <1>2, <1>6, SetAppended DEF Shaped
  <2> QED BY <1>10, <2>1, <2>2 DEF Frames
<1>12. Takes({}) /\ Brings({"notify"})
  BY <1>2, <1>11 DEF Takes, Brings
<1> QED BY <1>1, <1>9, <1>10, <1>12 DEF StackSound

\* Somebody's links are going to be checked, or he had none.
LEMMA CheckStack ==
  ASSUME StackSound, ents \subseteq alive, NEW e \in Ents, PhysicsCheckForEntityUntouch(e)
  PROVE  /\ StackSound' /\ Takes({}) /\ Brings({"walk"})
         /\ \A x \in Frames' : x \in Frames \/ x.ent = e
<1> DEFINE f == Frame("walk", e, e, FALSE)
<1>1. /\ UNCHANGED <<alive, marked, list>> /\ e \in alive
      /\ stack = << >> /\ (stack' = <<f>> \/ stack' = stack)
  BY DEF PhysicsCheckForEntityUntouch, links
<1>2. f \in FrameSet /\ f.op = "walk" /\ f.ent = e
  <2>1. "walk" \in Ops
    BY DEF Ops
  <2> QED BY <2>1, FrameOf
<1> HIDE DEF f
<1>3. /\ Shaped(<<f>>) /\ Present(<<f>>, alive, marked) /\ Claimed(<<f>>, list)
      /\ ToSet(<<f>>) = {f}
  BY <1>1, <1>2, FirstFrame
<1>4. Frames = {} /\ (Frames' = {f} \/ Frames' = Frames)
  BY <1>1, <1>3 DEF Frames, ToSet
<1>5. /\ Takes({}) /\ Brings({"walk"})
      /\ \A x \in Frames' : x \in Frames \/ x.ent = e
  BY <1>2, <1>4 DEF Takes, Brings
<1> QED BY <1>1, <1>3, <1>5 DEF StackSound

\* The frames that a walk or a purge puts on the stack for one link: the own one
\* is going to be removed after the other one.
LEMMA TwoFrames ==
  ASSUME StackSound, stack # << >>, ListsTyped, NEW o, HasLink(Ent, o),
         NEW f \in FrameSet, f.ent = Ent, f.other = o,
         \/ f.op = "untouch" /\ Last(stack).op = "walk"
         \/ f.op = "free" /\ Last(stack).op = "purge",
         NEW g \in FrameSet, g.op = "notify", g.ent = Ent, g.other = o,
         stack' = stack \o <<f, g>>, UNCHANGED <<alive, marked, list>>
  PROVE  StackSound' /\ Takes({}) /\ Brings({f.op, "notify"}) /\ f \in Frames'
<1> DEFINE n == Len(stack)
           P == Append(stack, f)
<1>1. /\ n \in Nat /\ n >= 1 /\ Ent \in Ents /\ Ent \in alive /\ Last(stack) = stack[n]
      /\ Ent = stack[n].ent /\ stack \in Seq(FrameSet) /\ Fits(stack, n)
  BY TopFacts DEF Ent
<1>2. o \in Ents
  <2>1. list[Ent] \in Seq(Ents)
    BY <1>1 DEF ListsTyped
  <2> QED BY <2>1, SetOf DEF HasLink
<1>4. stack' = Append(P, g)
  BY <1>1, PushedTwo
<1> HIDE DEF n
<1>5. /\ P \in Seq(FrameSet) /\ P[n + 1] = f /\ Len(P) = n + 1
      /\ \A i \in 1 .. n : P[i] = stack[i]
  BY <1>1, AppendProperties DEF n
<1>5a. P[n] = stack[n] /\ P[1] = stack[1] /\ n + 1 - 1 = n
  BY <1>1, <1>5
<1>6. Fits(P, n + 1)
  <2>1. CASE f.op = "untouch"
    <3>1. n = 1 /\ stack[n].op = "walk"
      BY <1>1, <2>1 DEF Fits
    <3> QED BY <1>5, <1>5a, <2>1, <3>1 DEF Fits
  <2>2. CASE f.op = "free"
    <3>1. stack[n].op = "purge"
      BY <1>1, <2>2
    <3> QED BY <1>1, <1>5, <1>5a, <2>2, <3>1 DEF Fits
  <2> QED BY <2>1, <2>2
<1>7. \A i \in 1 .. n : stack[i].op \in Claims => <<stack[i].ent, stack[i].other>> # <<Ent, o>>
  <2> TAKE i \in 1 .. n
  <2>1. CASE f.op = "untouch"
    <3>1. n = 1 /\ stack[1].op = "walk"
      BY <1>1, <2>1 DEF Fits
    <3>2. i = 1
      BY <3>1
    <3> QED BY <3>1, <3>2 DEF Claims
  <2>2. CASE f.op = "free"
    <3>1. stack[n].op = "purge" /\ \A j \in 1 .. n - 1 : Ent # stack[j].ent
      BY <1>1, <2>2, TopFacts DEF n
    <3>2. i = n \/ i \in 1 .. n - 1
      BY <1>1
    <3> QED BY <3>1, <3>2 DEF Claims
  <2> QED BY <2>1, <2>2
<1>8. Shaped(P) /\ Present(P, alive, marked) /\ Claimed(P, list)
  <2>1. Shaped(stack) /\ Present(stack, alive, marked) /\ Claimed(stack, list)
    BY DEF StackSound
  <2>2. f.op \notin {"second", "secondEvent", "purge"}
    OBVIOUS
  <2> QED BY <1>1, <1>6, <1>7, <2>1, <2>2, Pushed DEF n, HasLink
<1> HIDE DEF P
<1>9. \A i \in 1 .. Len(P) : P[i].op \in Claims => <<P[i].ent, P[i].other>> # <<o, Ent>>
  <2>1. Ent # o
    BY <1>1 DEF ListsTyped, HasLink
  <2>2. \A i \in 1 .. n + 1 : i = n + 1 \/ i = n \/ i \in 1 .. n - 1
    BY <1>1
  <2>3. stack[n].op \in {"walk", "purge"} /\ stack[n].op \notin Claims
    BY <1>1 DEF Claims
  <2>4. \A i \in 1 .. n - 1 : stack[i].other # Ent
    <3>1. CASE f.op = "untouch"
      <4>1. n = 1
        BY <1>1, <3>1 DEF Fits
      <4> QED BY <4>1
    <3>2. CASE f.op = "free"
      BY <1>1, <3>2, TopFacts DEF n
    <3> QED BY <3>1, <3>2
  <2>5. \A i \in 1 .. n - 1 : i \in 1 .. n
    BY <1>1
  <2> QED BY <1>5, <1>5a, <2>1, <2>2, <2>3, <2>4, <2>5
<1>10. Fits(Append(P, g), Len(P) + 1)
  BY <1>5, <1>9, FitsUnclaimed
<1>11. /\ Shaped(Append(P, g)) /\ Present(Append(P, g), alive, marked)
       /\ Claimed(Append(P, g), list)
  BY <1>1, <1>8, <1>10, Pushed DEF Claims
<1>12. Takes({}) /\ Brings({f.op, "notify"}) /\ f \in Frames'
  <2>1. ToSet(P) = ToSet(stack) \cup {f}
    BY <1>1, SetAppended DEF P
  <2>2. ToSet(Append(P, g)) = ToSet(P) \cup {g}
    BY <1>5, SetAppended
  <2>3. Frames' = Frames \cup {f, g}
    BY <1>4, <2>1, <2>2 DEF Frames
  <2> QED BY <2>3 DEF Takes, Brings
<1> QED BY <1>4, <1>11, <1>12 DEF StackSound

\* EndTouch is called, and the link goes when it returns.
LEMMA RemoveToucherStack ==
  ASSUME StackSound, stack # << >>, NEW o \in Ents, NEW t \in Ents,
         RemoveToucher(o, t), o \in alive, HasLink(o, t),
         \A i \in 1 .. Len(stack) - 1 : stack[i].op \in Claims =>
           <<stack[i].ent, stack[i].other>> # <<o, t>>,
         UNCHANGED <<alive, marked, list>>
  PROVE  /\ StackSound' /\ Takes({Last(stack).op}) /\ Brings({"unlink"})
         /\ \E f \in Under("unlink")' : f.ent = o /\ f.other = t
         /\ \A f \in Frames' : f \in Frames \/ (f.ent = o /\ f.other = t)
<1> DEFINE F == Front(stack)
           f == Frame("unlink", o, t, Ends(o, t))
<1>1. f \in FrameSet /\ f.op = "unlink" /\ f.ent = o /\ f.other = t
  <2>1. "unlink" \in Ops /\ Ends(o, t) \in BOOLEAN
    BY DEF Ops, Ends, Starts
  <2> QED BY <2>1, FrameOf
<1>2. stack' = Append(F, f)
  BY DEF RemoveToucher
<1> HIDE DEF f
<1>3. Shaped(F) /\ Present(F, alive, marked) /\ Claimed(F, list)
  BY Popped DEF StackSound
<1>4. \A i \in 1 .. Len(F) : i \in 1 .. Len(stack) - 1 /\ F[i] = stack[i]
  BY TopFacts, TopOf
<1> HIDE DEF F
<1>5. Fits(Append(F, f), Len(F) + 1)
  BY <1>1, <1>3, FitsAnywhere DEF Shaped
<1>6. Shaped(Append(F, f)) /\ Present(Append(F, f), alive, marked) /\ Claimed(Append(F, f), list)
  BY <1>1, <1>3, <1>4, <1>5, Pushed DEF HasLink
<1>7. /\ Takes({Last(stack).op}) /\ Brings({f.op}) /\ f \in Frames'
      /\ Frames' \subseteq Frames \cup {f}
  BY <1>1, <1>2, FramesMoved DEF F, StackSound, Shaped
<1>8. f \in Under("unlink")'
  BY <1>1, <1>7 DEF Under
<1> QED BY <1>1, <1>2, <1>6, <1>7, <1>8 DEF StackSound

\* Whose link goes when the other one has been told.
LEMMA UntouchStack ==
  ASSUME StackSound, Untouch
  PROVE  /\ StackSound' /\ HasLink(Ent, Other) /\ Takes({"untouch"}) /\ Brings({"unlink"})
         /\ \E f \in Under("unlink")' : f.ent = Ent /\ f.other = Other
         /\ \A f \in Frames' : f \in Frames \/ (f.ent = Ent /\ f.other = Other)
<1>1. /\ stack # << >> /\ Last(stack).op = "untouch" /\ RemoveToucher(Ent, Other)
      /\ UNCHANGED <<alive, marked, list>>
  BY DEF Untouch, Top, links
<1>2. /\ Ent \in Ents /\ Other \in Ents /\ Ent \in alive /\ HasLink(Ent, Other)
      /\ \A i \in 1 .. Len(stack) - 1 : stack[i].op \in Claims =>
           <<stack[i].ent, stack[i].other>> # <<Ent, Other>>
  BY <1>1, TopFacts DEF Claims
<1> QED BY <1>1, <1>2, RemoveToucherStack

\* The other entity is told of the end of a touch, if it knows of the touch.
LEMMA NotifyStack ==
  ASSUME StackSound, ListsTyped, Notify
  PROVE  /\ StackSound' /\ Takes({"notify"}) /\ Brings({"unlink"})
         /\ Resolves(Other) /\ HasLink(Other, Ent) =>
              /\ \E f \in Under("unlink")' : f.ent = Other /\ f.other = Ent
              /\ \A f \in Frames' : f \in Frames \/ (f.ent = Other /\ f.other = Ent)
         /\ ~(Resolves(Other) /\ HasLink(Other, Ent)) => Brings({})
<1>1. /\ stack # << >> /\ Last(stack).op = "notify" /\ UNCHANGED <<alive, marked, list>>
  BY DEF Notify, Top, links
<1>2. CASE ~(Resolves(Other) /\ HasLink(Other, Ent))
  <2>1. StackSound' /\ Takes({"notify"}) /\ Brings({})
    BY <1>1, <1>2, ReturnStack DEF Notify
  <2>2. Brings({"unlink"})
    BY <2>1 DEF Brings
  <2> QED BY <1>2, <2>1, <2>2
<1>3. CASE Resolves(Other) /\ HasLink(Other, Ent)
  <2> DEFINE n == Len(stack)
  <2>1. /\ n \in Nat /\ n >= 1 /\ Last(stack) = stack[n] /\ Fits(stack, n)
        /\ Ent \in Ents /\ Other \in Ents /\ Ent = stack[n].ent /\ Other = stack[n].other
        /\ stack[n].op = "notify"
    BY <1>1, TopFacts DEF Ent, Other
  <2>2. RemoveToucher(Other, Ent) /\ Other \in alive
    BY <1>3 DEF Notify, Resolves
  <2>3. Ent # Other
    BY <1>3, <2>1 DEF ListsTyped, HasLink
  <2>4. ASSUME NEW i \in 1 .. n - 1, stack[i].op \in Claims
        PROVE  <<stack[i].ent, stack[i].other>> # <<Other, Ent>>
    BY <2>1, <2>4 DEF Fits
  <2>5. /\ StackSound' /\ Takes({Last(stack).op}) /\ Brings({"unlink"})
        /\ \E f \in Under("unlink")' : f.ent = Other /\ f.other = Ent
        /\ \A f \in Frames' : f \in Frames \/ (f.ent = Other /\ f.other = Ent)
    BY <1>1, <1>3, <2>1, <2>2, <2>4, RemoveToucherStack
  <2> QED BY <1>1, <1>3, <2>5
<1> QED BY <1>2, <1>3

\* The top frame is a frame.
LEMMA TopIsFrame ==
  ASSUME StackSound, stack # << >>
  PROVE  /\ Last(stack) \in Frames /\ Last(stack) \in Under(Last(stack).op)
         /\ Last(stack).ent = Ent /\ Last(stack).other = Other
<1>1. /\ stack \in Seq(FrameSet) /\ Len(stack) \in 1 .. Len(stack)
      /\ stack[Len(stack)] = Last(stack)
  BY TopOf DEF StackSound, Shaped
<1> QED BY <1>1, FramesOf DEF Ent, Other

\* One link of the walk.
LEMMA WalkLinkStack ==
  ASSUME StackSound, ListsTyped, WalkSafe, WalkLink
  PROVE  /\ StackSound' /\ HasLink(Ent, nextLink)
         /\ Takes({}) /\ Brings({"untouch", "notify", "touched"})
         /\ stamp[Ent][nextLink] = "stale" =>
              \E g \in Frames' : g.op = "untouch" /\ g.ent = Ent /\ g.other = nextLink
<1>1. /\ stack # << >> /\ Last(stack).op = "walk" /\ nextLink # ROOT
      /\ UNCHANGED <<alive, marked, list>>
  BY DEF WalkLink, Top, links
<1>2. HasLink(Ent, nextLink)
  BY <1>1, TopIsFrame DEF WalkSafe
<1>3. Ent \in Ents /\ nextLink \in Ents /\ Ent \in alive /\ stack \in Seq(FrameSet)
  <2>1. Ent \in Ents /\ Ent \in alive /\ stack \in Seq(FrameSet)
    BY <1>1, TopFacts
  <2>2. list[Ent] \in Seq(Ents)
    BY <2>1 DEF ListsTyped
  <2> QED BY <1>2, <2>1, <2>2, SetOf DEF HasLink
<1>4. CASE stamp[Ent][nextLink] = "stale"
  <2> DEFINE f == Frame("untouch", Ent, nextLink, FALSE)
             g == Frame("notify", Ent, nextLink, FALSE)
  <2>1. stack' = stack \o <<f, g>>
    BY <1>4 DEF WalkLink
  <2>1a. f \in FrameSet /\ g \in FrameSet
    <3>1. "untouch" \in Ops /\ "notify" \in Ops
      BY DEF Ops
    <3> QED BY <1>3, <3>1, QuietFrameOf, Zenon
  <2>1b. /\ f.op = "untouch" /\ f.ent = Ent /\ f.other = nextLink
         /\ g.op = "notify" /\ g.ent = Ent /\ g.other = nextLink
    BY DEF Frame
  <2> HIDE DEF f, g
  <2>2. StackSound' /\ Takes({}) /\ Brings({f.op, "notify"}) /\ f \in Frames'
    <3> DEFINE o == nextLink
    <3>1. /\ HasLink(Ent, o) /\ f.ent = Ent /\ f.other = o
          /\ g.op = "notify" /\ g.ent = Ent /\ g.other = o
      BY <1>2, <2>1b
    <3> HIDE DEF o
    <3>2. stack # << >> /\ UNCHANGED <<alive, marked, list>>
      BY <1>1
    <3>3. \/ f.op = "untouch" /\ Last(stack).op = "walk"
          \/ f.op = "free" /\ Last(stack).op = "purge"
      BY <1>1, <2>1b
    <3> QED BY <2>1, <2>1a, <3>1, <3>2, <3>3, TwoFrames
  <2>3. Brings({"untouch", "notify", "touched"})
    BY <2>1b, <2>2 DEF Brings
  <2>4. \E h \in Frames' : h.op = "untouch" /\ h.ent = Ent /\ h.other = nextLink
    BY <2>1b, <2>2
  <2> QED BY <1>2, <2>2, <2>3, <2>4
<1>5. CASE stamp[Ent][nextLink] # "stale"
  <2>1. CASE stack' = stack
    <3>1. Takes({}) /\ Brings({"untouch", "notify", "touched"})
      BY <2>1 DEF Takes, Brings, Frames
    <3> QED BY <1>1, <1>2, <1>5, <2>1, <3>1 DEF StackSound
  <2>2. CASE stack' = Append(stack, Frame("touched", Ent, nextLink, TRUE))
    <3> DEFINE f == Frame("touched", Ent, nextLink, TRUE)
    <3>1. f \in FrameSet /\ f.op = "touched" /\ f.ent = Ent
      <4>1. "touched" \in Ops
        BY DEF Ops
      <4> QED BY <1>3, <4>1 DEF Frame, FrameSet
    <3>2. stack' = Append(stack, f)
      BY <2>2
    <3> HIDE DEF f
    <3>3. Fits(Append(stack, f), Len(stack) + 1)
      BY <1>3, <3>1, FitsAnywhere
    <3>4. Shaped(Append(stack, f)) /\ Present(Append(stack, f), alive, marked)
          /\ Claimed(Append(stack, f), list)
      BY <1>3, <3>1, <3>3, Pushed DEF StackSound, Claims
    <3>5. Takes({}) /\ Brings({f.op})
      BY <1>3, <3>1, <3>2, FramesMoved
    <3>6. Brings({"untouch", "notify", "touched"})
      BY <3>1, <3>5 DEF Brings
    <3> QED BY <1>1, <1>2, <1>5, <3>2, <3>4, <3>5, <3>6 DEF StackSound
  <2> QED BY <1>5, <2>1, <2>2 DEF WalkLink
<1> QED BY <1>4, <1>5

\* A link is freed by the frame that claims it.
LEMMA FreeStack ==
  ASSUME StackSound, ListsTyped, stack # << >>, Last(stack).op \in Claims,
         FreeTouchLink(Ent, Other), stack' = Front(stack), UNCHANGED <<alive, marked>>
  PROVE  /\ StackSound' /\ ListsTyped'
         /\ Takes({Last(stack).op}) /\ Brings({}) /\ Frames = Frames' \cup {Last(stack)}
         /\ \A e \in Ents : ToSet(list'[e]) = IF e = Ent THEN ToSet(list[e]) \ {Other}
                                                ELSE ToSet(list[e])
         /\ \A e \in Ents : \A u, v :
              At(list[e], u, v) /\ (e = Ent => u # Other /\ v # Other) => At(list'[e], u, v)
<1>1. Ent \in Ents /\ Other \in Ents
  BY TopFacts
<1>2. /\ ListsTyped'
      /\ \A e \in Ents : ToSet(list'[e]) = IF e = Ent THEN ToSet(list[e]) \ {Other}
                                             ELSE ToSet(list[e])
      /\ \A e \in Ents : \A u, v :
           At(list[e], u, v) /\ (e = Ent => u # Other /\ v # Other) => At(list'[e], u, v)
  <2> DEFINE o == Ent
             t == Other
  <2>1. o \in Ents /\ t \in Ents /\ list' = [list EXCEPT ![o] = RemoveFirst(@, t)]
    BY <1>1 DEF FreeTouchLink
  <2> HIDE DEF o, t
  <2>2. /\ ListsTyped'
        /\ \A e \in Ents : ToSet(list'[e]) = IF e = o THEN ToSet(list[e]) \ {t}
                                               ELSE ToSet(list[e])
        /\ \A e \in Ents : \A u, v :
             At(list[e], u, v) /\ (e = o => u # t /\ v # t) => At(list'[e], u, v)
    BY <2>1, FreedLists
  <2> QED BY <2>2 DEF o, t
<1>3. Claimed(Front(stack), list')
  BY <1>2, ClaimsFreed
<1>4. /\ Takes({Last(stack).op}) /\ Brings({})
      /\ Frames = Frames' \cup {Last(stack)}
  BY Returned DEF StackSound, Shaped
<1> QED BY <1>2, <1>3, <1>4, Popped DEF StackSound

\* Somebody is marked for deletion.
LEMMA MarkedStack ==
  ASSUME StackSound, NEW M, marked \subseteq M
  PROVE  Present(stack, alive, M)
BY DEF StackSound, Present

\* Somebody is removed at once.
LEMMA RemoveImmediateStack ==
  ASSUME StackSound, alive \subseteq Ents, NEW e, UTIL_RemoveImmediate(e)
  PROVE  /\ StackSound' /\ Takes({}) /\ Brings({"purge"})
         /\ \A x \in Frames' : x \in Frames \/ x.ent = e
<1> DEFINE f == Frame("purge", e, e, FALSE)
<1>1. /\ stack' = Append(stack, f) /\ e \in alive /\ e \in Ents
      /\ marked' = marked \cup {e} /\ alive' = alive /\ list' = list
      /\ NothingRelies(e)
  BY DEF UTIL_RemoveImmediate, MarkForDeletion, links
<1>2. f \in FrameSet /\ f.op = "purge" /\ f.ent = e
  <2>1. "purge" \in Ops
    BY DEF Ops
  <2>2. f \in FrameSet
    BY <1>1, <2>1, QuietFrameOf, Zenon
  <2> QED BY <2>2 DEF Frame
<1> HIDE DEF f
<1>3. Shaped(stack) /\ Present(stack, alive, marked') /\ Claimed(stack, list)
  BY <1>1, MarkedStack DEF StackSound
<1>4. \A j \in 1 .. Len(stack) : e \notin {stack[j].ent, stack[j].other}
  BY <1>1, <1>3, FramesOf DEF NothingRelies, Shaped
<1>5. /\ Append(stack, f)[Len(stack) + 1] = f /\ Len(stack) \in Nat
      /\ \A j \in 1 .. Len(stack) : Append(stack, f)[j] = stack[j]
  BY <1>2, <1>3, AppendProperties DEF Shaped
<1>6. Fits(Append(stack, f), Len(stack) + 1)
  <2>1. \A j \in 1 .. Len(stack) + 1 - 1 : j \in 1 .. Len(stack)
    BY <1>5
  <2> QED BY <1>2, <1>4, <1>5, <2>1 DEF Fits
<1>7. /\ Shaped(Append(stack, f)) /\ Present(Append(stack, f), alive, marked')
      /\ Claimed(Append(stack, f), list)
  BY <1>1, <1>2, <1>3, <1>6, Pushed DEF Claims
<1>8. Takes({}) /\ Brings({f.op}) /\ Frames' = Frames \cup {f}
  BY <1>1, <1>2, <1>3, FramesMoved DEF Shaped
<1> QED BY <1>1, <1>2, <1>7, <1>8 DEF StackSound

\* An entity on the delete list gets its turn.
LEMMA CleanupStack ==
  ASSUME alive \subseteq Ents, marked \subseteq alive, NEW e, CleanupDeleteList(e)
  PROVE  StackSound' /\ Takes({}) /\ Brings({"purge"})
<1> DEFINE f == Frame("purge", e, e, FALSE)
<1>1. /\ stack = << >> /\ stack' = <<f>> /\ e \in marked /\ e \in alive /\ e \in Ents
      /\ UNCHANGED <<alive, marked, list>>
  BY DEF CleanupDeleteList, Idle, links
<1>2. f \in FrameSet /\ f.op = "purge" /\ f.ent = e
  <2>1. "purge" \in Ops
    BY DEF Ops
  <2>2. f \in FrameSet
    BY <1>1, <2>1, QuietFrameOf, Zenon
  <2> QED BY <2>2 DEF Frame
<1> HIDE DEF f
<1>3. /\ Shaped(<<f>>) /\ Present(<<f>>, alive, marked) /\ Claimed(<<f>>, list)
      /\ ToSet(<<f>>) = {f}
  BY <1>1, <1>2, FirstFrame
<1>4. Frames = {} /\ Frames' = {f}
  BY <1>1, <1>3 DEF Frames, ToSet
<1>5. Takes({}) /\ Brings({"purge"})
  BY <1>2, <1>4 DEF Takes, Brings
<1> QED BY <1>1, <1>3, <1>5 DEF StackSound

\* One link of who is being removed.
LEMMA PurgeLinkStack ==
  ASSUME StackSound, ListsTyped, PurgeLink
  PROVE  StackSound' /\ Takes({}) /\ Brings({"free", "notify"})
<1>1. /\ stack # << >> /\ Last(stack).op = "purge" /\ list[Ent] # << >>
      /\ UNCHANGED <<alive, marked, list>>
  BY DEF PurgeLink, Top, links
<1>2. Ent \in Ents
  BY <1>1, TopFacts
<1>3. HasLink(Ent, Head(list[Ent]))
  <2>1. list[Ent] \in Seq(Ents)
    BY <1>2 DEF ListsTyped
  <2>2. Len(list[Ent]) \in Nat /\ Len(list[Ent]) # 0 /\ Head(list[Ent]) = list[Ent][1]
    BY <1>1, <2>1, SetOf
  <2>3. 1 \in 1 .. Len(list[Ent])
    BY <2>2
  <2> QED BY <2>1, <2>2, <2>3, SetOf DEF HasLink
<1> DEFINE o == Head(list[Ent])
           f == Frame("free", Ent, o, FALSE)
           g == Frame("notify", Ent, o, FALSE)
<1>4. stack' = stack \o <<f, g>>
  BY DEF PurgeLink
<1>5. f \in FrameSet /\ g \in FrameSet
  <2>1. "free" \in Ops /\ "notify" \in Ops
    BY DEF Ops
  <2>2. o \in Ents
    <3>1. list[Ent] \in Seq(Ents)
      BY <1>2 DEF ListsTyped
    <3> QED BY <1>3, <3>1, SetOf DEF HasLink
  <2> QED BY <1>2, <2>1, <2>2, QuietFrameOf, Zenon
<1>6. /\ f.op = "free" /\ f.ent = Ent /\ f.other = o
      /\ g.op = "notify" /\ g.ent = Ent /\ g.other = o
  BY DEF Frame
<1> HIDE DEF o, f, g
<1> QED BY <1>1, <1>3, <1>4, <1>5, <1>6, TwoFrames DEF o

\* Who has no links any more is gone.
LEMMA PurgeDoneStack ==
  ASSUME StackSound, PurgeDone
  PROVE  /\ StackSound' /\ Takes({"purge"}) /\ Brings({})
         /\ Frames = Frames' \cup {Last(stack)} /\ Last(stack).ent = Ent
         /\ \A i \in 1 .. Len(stack) - 1 : Ent \notin {stack[i].ent, stack[i].other}
<1> DEFINE F == Front(stack)
<1>1. /\ stack # << >> /\ Last(stack).op = "purge" /\ stack' = F
      /\ alive' = alive \ {Ent} /\ marked' = marked \ {Ent} /\ list' = list
  BY DEF PurgeDone, Top
<1>2. \A i \in 1 .. Len(stack) - 1 : Ent \notin {stack[i].ent, stack[i].other}
  BY <1>1, TopFacts
<1>3. \A i \in 1 .. Len(F) : i \in 1 .. Len(stack) - 1 /\ F[i] = stack[i]
  BY <1>1, TopFacts, TopOf
<1>4. Shaped(F) /\ Present(F, alive, marked) /\ Claimed(F, list)
  BY <1>1, Popped DEF StackSound
<1> HIDE DEF F
<1>5. Present(F, alive', marked')
  BY <1>1, <1>2, <1>3, <1>4 DEF Present
<1>6. /\ Takes({"purge"}) /\ Brings({}) /\ Frames = Frames' \cup {Last(stack)}
  BY <1>1, Returned DEF StackSound, Shaped, F
<1>7. Last(stack).ent = Ent
  BY DEF Ent
<1> QED BY <1>1, <1>2, <1>4, <1>5, <1>6, <1>7 DEF StackSound

-----------------------------------------------------------------------------
(* What a step leaves alone.                                               *)

\* The type invariant is what its parts say.
LEMMA TypeOKOf ==
  ASSUME SetsTyped, StampsTyped, ListsTyped, StackSound
  PROVE  TypeOK
<1>1. \A e \in Ents : ToSet(list[e]) \subseteq Ents \ {e} /\ IsInjective(list[e])
  BY SetOf DEF ListsTyped
<1>2. \A f \in Frames : f.op \in Ops /\ f.ent \in alive /\ f.other \in Ents
  <2>1. stack \in Seq(FrameSet)
    BY DEF StackSound, Shaped
  <2> QED BY <2>1, FramesOf, FramesTyped DEF StackSound, Present
<1> QED BY <1>1, <1>2 DEF TypeOK, SetsTyped, StampsTyped, ListsTyped, Stamps

\* A walk is at the bottom of the stack: there is at most one.
LEMMA WalkIsFirst ==
  ASSUME StackSound, NEW f \in Under("walk")
  PROVE  f = stack[1] /\ f.ent \in Ents /\ f.op = "walk"
<1>1. stack \in Seq(FrameSet)
  BY DEF StackSound, Shaped
<1>2. PICK i \in 1 .. Len(stack) : stack[i] = f /\ f.op = "walk"
  BY <1>1, FramesOf
<1> QED BY <1>1, <1>2, FramesTyped DEF StackSound, Shaped, Fits

\* The same touches, links and removals of links.
LEMMA StartedKept ==
  ASSUME StartedIsLinked, alive \subseteq Ents, alive' \subseteq alive,
         UNCHANGED <<touching, list>>,
         NEW X, NEW Y, Takes(X), Brings(Y), "unlink" \notin X \cup Y, "purge" \notin X
  PROVE  StartedIsLinked'
<1>1. Under("unlink")' = Under("unlink")
  BY UnderSame
<1>2. \A f \in Under("purge") : f \in Under("purge")'
  BY DEF Takes, Under
<1>3. \A a, b : HasLink(a, b)' <=> HasLink(a, b)
  BY DEF HasLink
<1> QED BY <1>1, <1>2, <1>3 DEF StartedIsLinked, Starts

\* No link goes, and the walk stays where it is.
LEMMA WalkKept ==
  ASSUME WalkSafe, StackSound, NEW Y, Brings(Y), "walk" \notin Y, nextLink' = nextLink,
         hasRoot \subseteq hasRoot',
         \A e \in Ents : ToSet(list[e]) \subseteq ToSet(list'[e])
  PROVE  WalkSafe'
<1>1. \A f \in Under("walk")' : f \in Under("walk")
  BY DEF Brings, Under
<1>2. \A f \in Under("walk") : f.ent \in Ents
  BY WalkIsFirst
<1>3. \A e \in Ents : \A t : HasLink(e, t) => HasLink(e, t)'
  BY DEF HasLink
<1> QED BY <1>1, <1>2, <1>3 DEF WalkSafe

\* Nobody more is being removed or is checked.
LEMMA PurgedKept ==
  ASSUME PurgedUnchecked, NEW Y, Brings(Y), "purge" \notin Y, ents' \subseteq ents
  PROVE  PurgedUnchecked'
<1>1. \A f \in Under("purge")' : f \in Under("purge")
  BY DEF Brings, Under
<1> QED BY <1>1 DEF PurgedUnchecked

\* The links stay and have their stamps.
LEMMA StampsKept ==
  ASSUME StampsTyped, UNCHANGED <<list, stamp>>
  PROVE  StampsTyped'
BY DEF StampsTyped, HasLink

LEMMA ListsKept ==
  ASSUME ListsTyped, UNCHANGED list
  PROVE  ListsTyped'
BY DEF ListsTyped

\* The stack stays what it is.
LEMMA StackKept ==
  ASSUME StackSound, UNCHANGED <<stack, alive, list>>, marked \subseteq marked'
  PROVE  StackSound' /\ Takes({}) /\ Brings({})
<1>1. Present(stack, alive, marked')
  BY MarkedStack
<1> QED BY <1>1 DEF StackSound, Takes, Brings, Frames

-----------------------------------------------------------------------------
(* The steps.                                                              *)

LEMMA InitSound == Init => IInv
<1> SUFFICES ASSUME Init PROVE IInv
  OBVIOUS
<1>1. list \in [Ents -> Seq(Ents)] /\ \A e \in Ents : list[e] = << >>
  BY DEF Init
<1>2. ToSet(<< >>) = {} /\ IsInjective(<< >>) /\ << >> \in Seq(FrameSet) /\ Len(<< >>) = 0
  BY DEF ToSet, IsInjective
<1>3. ListsTyped
  BY <1>1, <1>2 DEF ListsTyped
<1>4. StampsTyped
  BY <1>1, <1>2 DEF Init, StampsTyped, HasLink, Stamps
<1>5. stack = << >> /\ Frames = {}
  BY <1>2 DEF Init, Frames
<1>6. StackSound
  BY <1>2, <1>5 DEF StackSound, Shaped, Present, Claimed
<1>7. PurgedUnchecked /\ WalkSafe
  BY <1>5 DEF PurgedUnchecked, WalkSafe, Under
<1>8. StartedIsLinked
  BY <1>1, <1>2 DEF Init, StartedIsLinked, HasLink
<1>9. SetsTyped
  BY DEF Init, SetsTyped
<1> QED BY <1>3, <1>4, <1>6, <1>7, <1>8, <1>9 DEF IInv

\* SetCheckUntouch( true ) makes stamps old; the links stay.
LEMMA SetCheckUntouchStep ==
  ASSUME IInv, NEW e \in Ents, SetCheckUntouch(e)
  PROVE  IInv'
<1> USE DEF IInv
<1>1. /\ UNCHANGED <<alive, marked, list, hasRoot, ents, nextLink, stack, touching, spoiled>>
      /\ e \in alive /\ flagged' = flagged \cup {e} /\ updateList' = Added(e)
      /\ missed' \subseteq missed \cup {e}
      /\ stamp' = [stamp EXCEPT ![e] =
           [t \in Ents |-> IF @[t] = "fresh" THEN "stale" ELSE @[t]]]
  BY DEF SetCheckUntouch
<1>2. SetsTyped'
  BY <1>1 DEF SetsTyped, Added
<1>3. StampsTyped'
  <2>1. /\ stamp \in [Ents -> [Ents -> Stamps]]
        /\ \A o, t \in Ents : stamp[o][t] \in Stamps
        /\ \A o, t \in Ents : HasLink(o, t) <=> stamp[o][t] # "none"
    BY DEF StampsTyped
  <2> DEFINE new == [t \in Ents |-> IF stamp[e][t] = "fresh" THEN "stale" ELSE stamp[e][t]]
  <2>2. new \in [Ents -> Stamps]
    BY <2>1 DEF Stamps
  <2>3. stamp' = [stamp EXCEPT ![e] = new]
    BY <1>1
  <2>4. \A t \in Ents : new[t] # "none" <=> stamp[e][t] # "none"
    OBVIOUS
  <2> HIDE DEF new
  <2>5. stamp' \in [Ents -> [Ents -> Stamps]]
    BY <2>1, <2>2, <2>3
  <2>6. \A o, t \in Ents : stamp'[o][t] # "none" <=> stamp[o][t] # "none"
    BY <2>1, <2>3, <2>4
  <2>7. \A o, t \in Ents : HasLink(o, t)' <=> HasLink(o, t)
    BY <1>1 DEF HasLink
  <2> QED BY <2>1, <2>5, <2>6, <2>7 DEF StampsTyped
<1>4. StackSound' /\ Takes({}) /\ Brings({})
  BY <1>1, StackKept
<1>5. ListsTyped' /\ PurgedUnchecked' /\ WalkSafe'
  BY <1>1, <1>4, ListsKept, PurgedKept, WalkKept
<1>6. StartedIsLinked'
  BY <1>1, <1>4, StartedKept DEF SetsTyped
<1> QED BY <1>2, <1>3, <1>4, <1>5, <1>6

\* The update list is copied and cleared.
LEMMA FrameUpdateStep ==
  ASSUME IInv, FrameUpdatePostEntityThink
  PROVE  IInv'
<1> USE DEF IInv
<1>1. /\ stack = << >> /\ ents' = updateList /\ updateList' = {}
      /\ UNCHANGED <<alive, marked, list, stamp, hasRoot, flagged, nextLink, stack, touching, missed>>
  BY DEF FrameUpdatePostEntityThink, Idle, links
<1>2. SetsTyped'
  BY <1>1 DEF SetsTyped
<1>3. StackSound' /\ Takes({}) /\ Brings({})
  BY <1>1, StackKept
<1>4. PurgedUnchecked'
  <2>1. Frames = {}
    BY <1>1 DEF Frames, ToSet
  <2> QED BY <1>3, <2>1 DEF PurgedUnchecked, Under, Brings
<1>5. ListsTyped' /\ StampsTyped' /\ WalkSafe'
  BY <1>1, <1>3, ListsKept, StampsKept, WalkKept
<1>6. StartedIsLinked'
  BY <1>1, <1>3, StartedKept DEF SetsTyped
<1> QED BY <1>2, <1>3, <1>4, <1>5, <1>6

\* A walk begins at the first link.
LEMMA CheckStep ==
  ASSUME IInv, NEW e \in Ents, PhysicsCheckForEntityUntouch(e)
  PROVE  IInv'
<1> USE DEF IInv
<1>1. /\ stack = << >> /\ e \in ents /\ ents' = ents \ {e}
      /\ UNCHANGED <<alive, marked, list, stamp, hasRoot, updateList, touching, missed>>
      /\ flagged' = flagged \/ flagged' = flagged \ {e}
      /\ \/ /\ e \in hasRoot
            /\ nextLink' = IF list[e] = << >> THEN ROOT ELSE Head(list[e])
         \/ UNCHANGED <<stack, nextLink>>
  BY DEF PhysicsCheckForEntityUntouch, links
<1>2. /\ StackSound' /\ Takes({}) /\ Brings({"walk"})
      /\ \A x \in Frames' : x \in Frames \/ x.ent = e
  BY <1>1, CheckStack DEF SetsTyped
<1>3. list[e] # << >> => Head(list[e]) \in Ents /\ HasLink(e, Head(list[e]))
  <2>1. list[e] \in Seq(Ents)
    BY DEF ListsTyped
  <2>2. list[e] # << >> => Len(list[e]) \in Nat /\ Len(list[e]) # 0 /\ Head(list[e]) = list[e][1]
    BY <2>1, SetOf
  <2>3. list[e] # << >> => 1 \in 1 .. Len(list[e])
    BY <2>2
  <2> QED BY <2>1, <2>2, <2>3, SetOf DEF HasLink
<1>4. SetsTyped'
  BY <1>1, <1>3 DEF SetsTyped
<1>5. PurgedUnchecked' /\ ListsTyped' /\ StampsTyped'
  BY <1>1, <1>2, ListsKept, StampsKept, PurgedKept
<1>6. StartedIsLinked'
  BY <1>1, <1>2, StartedKept DEF SetsTyped
<1>7. WalkSafe'
  <2>1. Frames = {}
    BY <1>1 DEF Frames, ToSet
  <2>2. CASE UNCHANGED <<stack, nextLink>>
    <3>1. Frames' = {}
      BY <2>1, <2>2 DEF Frames
    <3> QED BY <3>1 DEF WalkSafe, Under
  <2>3. CASE /\ e \in hasRoot
             /\ nextLink' = IF list[e] = << >> THEN ROOT ELSE Head(list[e])
    <3>1. \A f \in Under("walk")' : f.ent = e
      BY <1>2, <2>1 DEF Under
    <3>2. nextLink' = ROOT \/ HasLink(e, nextLink)'
      BY <1>1, <1>3, <2>3 DEF HasLink
    <3> QED BY <1>1, <2>3, <3>1, <3>2 DEF WalkSafe
  <2> QED BY <1>1, <2>2, <2>3
<1> QED BY <1>2, <1>4, <1>5, <1>6, <1>7

\* The walk goes on to the next link.
LEMMA WalkLinkStep ==
  ASSUME IInv, WalkLink
  PROVE  IInv'
<1> USE DEF IInv
<1>1. /\ stack # << >> /\ Last(stack).op = "walk"
      /\ UNCHANGED <<alive, marked, list, stamp, hasRoot, flagged, updateList, ents, touching, missed>>
      /\ nextLink' = Following(Ent, nextLink)
  BY DEF WalkLink, Top, links, checks
<1>2. /\ StackSound' /\ HasLink(Ent, nextLink)
      /\ Takes({}) /\ Brings({"untouch", "notify", "touched"})
  BY WalkLinkStack
<1>3. Ent \in Ents
  BY <1>1, TopFacts
<1>4. /\ Following(Ent, nextLink) \in Ents \cup {ROOT}
      /\ Following(Ent, nextLink) # ROOT => HasLink(Ent, Following(Ent, nextLink))
  BY <1>2, <1>3, FollowingOf
<1>5. SetsTyped'
  BY <1>1, <1>4 DEF SetsTyped
<1>6. PurgedUnchecked' /\ ListsTyped' /\ StampsTyped'
  BY <1>1, <1>2, ListsKept, StampsKept, PurgedKept
<1>7. StartedIsLinked'
  BY <1>1, <1>2, StartedKept DEF SetsTyped
<1>8. WalkSafe'
  <2>1. Last(stack) \in Under("walk") /\ Last(stack).ent = Ent
    BY <1>1, TopIsFrame
  <2>2. \A f \in Under("walk") : f.ent = Ent
    BY <2>1, WalkIsFirst
  <2>3. \A f \in Under("walk")' : f \in Under("walk")
    BY <1>2 DEF Brings, Under
  <2>4. nextLink' = ROOT \/ nextLink' \in ToSet(list'[Ent])
    BY <1>1, <1>4 DEF HasLink
  <2>5. Ent \in hasRoot'
    BY <1>1, <2>1 DEF WalkSafe
  <2> QED BY <2>2, <2>3, <2>4, <2>5 DEF WalkSafe, HasLink
<1> QED BY <1>2, <1>5, <1>6, <1>7, <1>8

\* A callback returns.
LEMMA TouchedStep ==
  ASSUME IInv, Touched
  PROVE  IInv'
<1> USE DEF IInv
<1>1. /\ stack # << >> /\ Last(stack).op = "touched" /\ stack' = Front(stack)
      /\ UNCHANGED <<alive, marked, list, stamp, hasRoot, flagged, updateList, ents, nextLink,
                     touching, missed>>
  BY DEF Touched, Top, links, checks
<1>2. StackSound' /\ Takes({"touched"}) /\ Brings({})
  BY <1>1, ReturnStack
<1>3. SetsTyped'
  BY <1>1 DEF SetsTyped
<1>4. PurgedUnchecked' /\ ListsTyped' /\ StampsTyped' /\ WalkSafe'
  BY <1>1, <1>2, ListsKept, StampsKept, PurgedKept, WalkKept
<1>5. StartedIsLinked'
  BY <1>1, <1>2, StartedKept DEF SetsTyped
<1> QED BY <1>2, <1>3, <1>4, <1>5

\* The link that is stamped at the end of a touch is still there.
LEMMA StampStep ==
  ASSUME IInv, Stamp
  PROVE  IInv'
<1> USE DEF IInv
<1>1. /\ stack # << >> /\ Last(stack).op = "stamp" /\ stack' = Front(stack)
      /\ UNCHANGED <<alive, marked, list, hasRoot, flagged, updateList, ents, nextLink,
                     touching, missed>>
      /\ stamp' = [stamp EXCEPT ![Ent][Other] = "event"]
  BY DEF Stamp, Top, checks
<1>2. StackSound' /\ Takes({"stamp"}) /\ Brings({})
  BY <1>1, ReturnStack
<1>3. SetsTyped'
  BY <1>1 DEF SetsTyped
<1>4. PurgedUnchecked' /\ ListsTyped' /\ WalkSafe'
  BY <1>1, <1>2, ListsKept, PurgedKept, WalkKept
<1>5. StartedIsLinked'
  BY <1>1, <1>2, StartedKept DEF SetsTyped
<1>6. StampsTyped'
  <2>1. Ent \in Ents /\ Other \in Ents /\ HasLink(Ent, Other)
    BY <1>1, TopFacts DEF Claims
  <2>2. /\ stamp' \in [Ents -> [Ents -> Stamps]]
        /\ \A e, u \in Ents : stamp'[e][u] = IF e = Ent /\ u = Other THEN "event" ELSE stamp[e][u]
    <3> DEFINE o == Ent
               t == Other
    <3>1. "event" \in Stamps /\ o \in Ents /\ t \in Ents
      BY <2>1 DEF Stamps
    <3>2. stamp' = [stamp EXCEPT ![o][t] = "event"]
      BY <1>1
    <3> HIDE DEF o, t
    <3>3. /\ stamp' \in [Ents -> [Ents -> Stamps]]
          /\ \A e, u \in Ents : stamp'[e][u] = IF e = o /\ u = t THEN "event" ELSE stamp[e][u]
      <4>1. stamp \in [Ents -> [Ents -> Stamps]] /\ stamp[o] \in [Ents -> Stamps]
        BY <3>1 DEF StampsTyped
      <4>2. stamp' = [stamp EXCEPT ![o] = [stamp[o] EXCEPT ![t] = "event"]]
        BY <3>2
      <4>3. [stamp[o] EXCEPT ![t] = "event"] \in [Ents -> Stamps]
        BY <3>1, <4>1
      <4> QED BY <3>1, <4>1, <4>2, <4>3
    <3> QED BY <3>3 DEF o, t
  <2>3. \A e, u \in Ents : HasLink(e, u)' <=> HasLink(e, u)
    BY <1>1 DEF HasLink
  <2> QED BY <2>1, <2>2, <2>3 DEF StampsTyped
<1> QED BY <1>2, <1>3, <1>4, <1>5, <1>6

\* A walk that has come to the end of its list was the only one.
LEMMA WalkDoneStep ==
  ASSUME IInv, WalkDone
  PROVE  IInv'
<1> USE DEF IInv
<1>1. /\ stack # << >> /\ Last(stack).op = "walk" /\ stack' = Front(stack)
      /\ UNCHANGED <<alive, marked, list, stamp, updateList, ents, touching, missed>>
      /\ nextLink' = NULL /\ hasRoot' \subseteq hasRoot /\ flagged' \subseteq flagged
  BY DEF WalkDone, Top
<1>2. StackSound' /\ Takes({"walk"}) /\ Brings({})
  BY <1>1, ReturnStack
<1>3. SetsTyped'
  BY <1>1 DEF SetsTyped
<1>4. PurgedUnchecked' /\ ListsTyped' /\ StampsTyped'
  BY <1>1, <1>2, ListsKept, StampsKept, PurgedKept
<1>5. StartedIsLinked'
  BY <1>1, <1>2, StartedKept DEF SetsTyped
<1>6. Frames' = {}
  <2>1. Len(stack) = 1 /\ stack \in Seq(FrameSet)
    BY <1>1, TopFacts DEF Fits
  <2>2. Front(stack) \in Seq(FrameSet) /\ Len(Front(stack)) = 0
    BY <1>1, <2>1, TopOf
  <2> DEFINE s == Front(stack)
  <2>3. 1 .. Len(s) = {} /\ DOMAIN s = 1 .. Len(s)
    BY <2>2
  <2> HIDE DEF s
  <2>4. ToSet(s) = {}
    BY <2>3 DEF ToSet
  <2> QED BY <1>1, <2>4 DEF Frames, s
<1>7. WalkSafe'
  BY <1>6 DEF WalkSafe, Under
<1> QED BY <1>2, <1>3, <1>4, <1>5, <1>7

\* The physics engine reports the end of a contact.
LEMMA DispatchEndTouchStep ==
  ASSUME IInv, NEW a \in Ents, NEW b \in Ents, DispatchEndTouch(a, b)
  PROVE  IInv'
<1> USE DEF IInv
<1>1. UNCHANGED <<alive, marked, list, stamp, hasRoot, flagged, updateList, ents, nextLink,
                  touching, missed>>
  BY DEF DispatchEndTouch, links, checks
<1>2. StackSound' /\ Takes({}) /\ Brings({"notify"})
  BY DispatchStack
<1>3. SetsTyped'
  BY <1>1 DEF SetsTyped
<1>4. PurgedUnchecked' /\ ListsTyped' /\ StampsTyped' /\ WalkSafe'
  BY <1>1, <1>2, ListsKept, StampsKept, PurgedKept, WalkKept
<1>5. StartedIsLinked'
  BY <1>1, <1>2, StartedKept DEF SetsTyped
<1> QED BY <1>2, <1>3, <1>4, <1>5

\* An entity is put on the delete list.
LEMMA RemoveStep ==
  ASSUME IInv, NEW e \in Ents, UTIL_Remove(e)
  PROVE  IInv'
<1> USE DEF IInv
<1>1. /\ UNCHANGED <<alive, list, stamp, hasRoot, flagged, ents, nextLink, stack, touching, missed>>
      /\ e \in alive /\ marked' = marked \cup {e} /\ updateList' = updateList \ {e}
  BY DEF UTIL_Remove, MarkForDeletion, links
<1>2. StackSound' /\ Takes({}) /\ Brings({})
  BY <1>1, StackKept
<1>3. SetsTyped'
  BY <1>1 DEF SetsTyped
<1>4. PurgedUnchecked' /\ ListsTyped' /\ StampsTyped' /\ WalkSafe'
  BY <1>1, <1>2, ListsKept, StampsKept, PurgedKept, WalkKept
<1>5. StartedIsLinked'
  BY <1>1, <1>2, StartedKept DEF SetsTyped
<1> QED BY <1>2, <1>3, <1>4, <1>5

\* An entity is removed at once.
LEMMA RemoveImmediateStep ==
  ASSUME IInv, NEW e \in Ents, UTIL_RemoveImmediate(e)
  PROVE  IInv'
<1> USE DEF IInv
<1>1. /\ UNCHANGED <<alive, list, stamp, hasRoot, flagged, ents, nextLink, touching, missed>>
      /\ e \in alive /\ marked' = marked \cup {e} /\ updateList' = updateList \ {e}
      /\ e \notin ents
  BY DEF UTIL_RemoveImmediate, MarkForDeletion, NothingRelies, links
<1>2. /\ StackSound' /\ Takes({}) /\ Brings({"purge"})
      /\ \A x \in Frames' : x \in Frames \/ x.ent = e
  BY RemoveImmediateStack DEF SetsTyped
<1>3. SetsTyped'
  BY <1>1 DEF SetsTyped
<1>4. ListsTyped' /\ StampsTyped' /\ WalkSafe'
  BY <1>1, <1>2, ListsKept, StampsKept, WalkKept
<1>5. StartedIsLinked'
  BY <1>1, <1>2, StartedKept DEF SetsTyped
<1>6. PurgedUnchecked'
  BY <1>1, <1>2 DEF PurgedUnchecked, Under
<1> QED BY <1>2, <1>3, <1>4, <1>5, <1>6

\* An entity on the delete list gets its turn, when nobody is checked.
LEMMA CleanupStep ==
  ASSUME IInv, NEW e \in Ents, CleanupDeleteList(e)
  PROVE  IInv'
<1> USE DEF IInv
<1>1. /\ UNCHANGED <<alive, marked, list, stamp, hasRoot, flagged, updateList, ents, nextLink,
                     touching, missed>>
      /\ ents = {}
  BY DEF CleanupDeleteList, Idle, links, checks
<1>2. StackSound' /\ Takes({}) /\ Brings({"purge"})
  BY CleanupStack DEF SetsTyped
<1>3. SetsTyped'
  BY <1>1 DEF SetsTyped
<1>4. ListsTyped' /\ StampsTyped' /\ WalkSafe'
  BY <1>1, <1>2, ListsKept, StampsKept, WalkKept
<1>5. StartedIsLinked'
  BY <1>1, <1>2, StartedKept DEF SetsTyped
<1>6. PurgedUnchecked'
  BY <1>1 DEF PurgedUnchecked
<1> QED BY <1>2, <1>3, <1>4, <1>5, <1>6

\* Who is being removed tells the next one.
LEMMA PurgeLinkStep ==
  ASSUME IInv, PurgeLink
  PROVE  IInv'
<1> USE DEF IInv
<1>1. UNCHANGED <<alive, marked, list, stamp, hasRoot, flagged, updateList, ents, nextLink,
                  touching, missed>>
  BY DEF PurgeLink, links, checks
<1>2. StackSound' /\ Takes({}) /\ Brings({"free", "notify"})
  BY PurgeLinkStack
<1>3. SetsTyped'
  BY <1>1 DEF SetsTyped
<1>4. PurgedUnchecked' /\ ListsTyped' /\ StampsTyped' /\ WalkSafe'
  BY <1>1, <1>2, ListsKept, StampsKept, PurgedKept, WalkKept
<1>5. StartedIsLinked'
  BY <1>1, <1>2, StartedKept DEF SetsTyped
<1> QED BY <1>2, <1>3, <1>4, <1>5

\* The entity that has no links any more is gone, and no frame names it.
LEMMA PurgeDoneStep ==
  ASSUME IInv, PurgeDone
  PROVE  IInv'
<1> USE DEF IInv
<1> DEFINE o == Ent
<1>1. /\ stack # << >> /\ Last(stack).op = "purge" /\ stack' = Front(stack)
      /\ UNCHANGED <<list, stamp, updateList, ents, nextLink>>
      /\ alive' = alive \ {o} /\ marked' = marked \ {o}
      /\ hasRoot' = hasRoot \ {o} /\ flagged' = flagged \ {o} /\ missed' = missed \ {o}
      /\ touching' = {p \in touching : p[1] # o}
  BY DEF PurgeDone, Top
<1>2. /\ StackSound' /\ Takes({"purge"}) /\ Brings({})
      /\ Frames = Frames' \cup {Last(stack)} /\ Last(stack).ent = o
  BY PurgeDoneStack
<1>2a. \A i \in 1 .. Len(stack) - 1 : o \notin {stack[i].ent, stack[i].other}
  BY PurgeDoneStack
<1>3. o \in marked /\ Len(stack) \in Nat /\ Len(stack) >= 1 /\ Last(stack) = stack[Len(stack)]
  BY <1>1, TopFacts
<1>4. o \notin ents
  BY <1>1, <1>2, TopIsFrame DEF PurgedUnchecked
<1> HIDE DEF o
<1>5. SetsTyped'
  BY <1>1, <1>3, <1>4 DEF SetsTyped
<1>6. PurgedUnchecked' /\ ListsTyped' /\ StampsTyped'
  BY <1>1, <1>2, ListsKept, StampsKept, PurgedKept
<1>7. WalkSafe'
  <2>1. \A f \in Under("walk")' : f \in Under("walk")
    BY <1>2 DEF Brings, Under
  <2>2. ASSUME NEW f \in Under("walk") PROVE f.ent # o
    <3>1. f = stack[1] /\ f.op = "walk"
      BY WalkIsFirst
    <3>2. Len(stack) # 1
      BY <1>1, <1>3, <3>1
    <3>3. 1 \in 1 .. Len(stack) - 1
      <4> DEFINE n == Len(stack)
      <4>1. n \in Nat /\ n >= 1 /\ n # 1
        BY <1>3, <3>2
      <4> HIDE DEF n
      <4>2. 1 \in 1 .. n - 1
        BY <4>1
      <4> QED BY <4>2 DEF n
    <3>4. o # stack[1].ent
      BY <1>2a, <3>3
    <3> QED BY <3>1, <3>4
  <2>3. \A f \in Under("walk") : f.ent \in hasRoot'
    BY <1>1, <2>2 DEF WalkSafe
  <2> QED BY <1>1, <2>1, <2>3 DEF WalkSafe, HasLink
<1>8. StartedIsLinked'
  <2>1. Under("unlink")' = Under("unlink")
    BY <1>2, UnderSame
  <2>2. \A f \in Under("purge") : f \in Under("purge")' \/ f.ent = o
    BY <1>2 DEF Under
  <2>3. \A a, b : HasLink(a, b)' <=> HasLink(a, b)
    BY <1>1 DEF HasLink
  <2>4. \A a, b : a # o => (<<a, b>> \in touching' <=> <<a, b>> \in touching)
    BY <1>1
  <2>5. \A a \in alive' : a \notin {f.ent : f \in Under("purge")'} =>
          a # o /\ a \in alive \ {f.ent : f \in Under("purge")}
    BY <1>1, <2>2
  <2>6. \A b \in alive' : b \in alive
    BY <1>1
  <2> QED BY <2>1, <2>3, <2>4, <2>5, <2>6 DEF StartedIsLinked, Starts
<1> QED BY <1>2, <1>5, <1>6, <1>7, <1>8

\* From EndTouch on the link is just being removed: its touch has ended, or had
\* not been started.
LEMMA RemoverStarted ==
  ASSUME StartedIsLinked, NEW o, NEW t, RemoveToucher(o, t), UNCHANGED <<alive, list>>,
         NEW op, Takes({op}), op # "unlink", op # "purge",
         \E f \in Under("unlink")' : f.ent = o /\ f.other = t,
         \A f \in Frames' : f \in Frames \/ (f.ent = o /\ f.other = t)
  PROVE  StartedIsLinked'
<1>1. /\ \A f \in Under("unlink")' : f \in Under("unlink") \/ <<f.ent, f.other>> = <<o, t>>
      /\ \A f \in Under("unlink") : f \in Under("unlink")'
      /\ \A f \in Under("purge") : f \in Under("purge")'
  BY DEF Takes, Under
<1>2. \A a, b : HasLink(a, b)' <=> HasLink(a, b)
  BY DEF HasLink
<1>3. touching' = IF Starts(o, t) /\ t \in alive THEN touching \ {<<o, t>>} ELSE touching
  BY DEF RemoveToucher, Ends
<1> SUFFICES ASSUME NEW a \in alive', NEW b \in alive', a \notin {f.ent : f \in Under("purge")'}
             PROVE  <<a, b>> \in touching' <=>
                      /\ HasLink(a, b)' /\ Starts(a, b)
                      /\ \A f \in Under("unlink")' : <<f.ent, f.other>> # <<a, b>>
  BY DEF StartedIsLinked, Starts
<1>4. a \in alive \ {f.ent : f \in Under("purge")} /\ b \in alive
  BY <1>1
<1>5. <<a, b>> \in touching <=>
        HasLink(a, b) /\ Starts(a, b) /\ \A f \in Under("unlink") : <<f.ent, f.other>> # <<a, b>>
  BY <1>4 DEF StartedIsLinked
<1>6. CASE <<a, b>> = <<o, t>>
  BY <1>3, <1>4, <1>5, <1>6
<1>7. CASE <<a, b>> # <<o, t>>
  BY <1>1, <1>2, <1>3, <1>5, <1>7
<1> QED BY <1>6, <1>7

\* The own link, after the other one.
LEMMA UntouchStep ==
  ASSUME IInv, Untouch
  PROVE  IInv'
<1> USE DEF IInv
<1> DEFINE o == Ent
           t == Other
<1>1. /\ stack # << >> /\ Last(stack).op = "untouch" /\ RemoveToucher(o, t)
      /\ UNCHANGED <<alive, marked, list, stamp, hasRoot, flagged, updateList, ents, nextLink, missed>>
  BY DEF Untouch, Top, links, checks
<1>2. /\ StackSound' /\ Takes({"untouch"}) /\ Brings({"unlink"})
      /\ \E f \in Under("unlink")' : f.ent = o /\ f.other = t
      /\ \A f \in Frames' : f \in Frames \/ (f.ent = o /\ f.other = t)
  BY UntouchStack
<1> HIDE DEF o, t
<1>3. SetsTyped'
  BY <1>1 DEF SetsTyped, RemoveToucher
<1>4. PurgedUnchecked' /\ ListsTyped' /\ StampsTyped' /\ WalkSafe'
  BY <1>1, <1>2, ListsKept, StampsKept, PurgedKept, WalkKept
<1>5. StartedIsLinked'
  BY <1>1, <1>2, RemoverStarted
<1> QED BY <1>2, <1>3, <1>4, <1>5

\* The other one's link, if he has one.
LEMMA NotifyStep ==
  ASSUME IInv, Notify
  PROVE  IInv'
<1> USE DEF IInv
<1> DEFINE o == Other
           t == Ent
           there == Resolves(o) /\ HasLink(o, t)
<1>1. /\ there => RemoveToucher(o, t)
      /\ ~there => UNCHANGED touching
      /\ UNCHANGED <<alive, marked, list, stamp, hasRoot, flagged, updateList, ents, nextLink, missed>>
  BY DEF Notify, Top, links, checks
<1>2. /\ StackSound' /\ Takes({"notify"}) /\ Brings({"unlink"})
      /\ there => /\ \E f \in Under("unlink")' : f.ent = o /\ f.other = t
                  /\ \A f \in Frames' : f \in Frames \/ (f.ent = o /\ f.other = t)
      /\ ~there => Brings({})
  BY NotifyStack
<1> HIDE DEF o, t, there
<1>3. SetsTyped'
  BY <1>1 DEF SetsTyped, RemoveToucher
<1>4. PurgedUnchecked' /\ ListsTyped' /\ StampsTyped' /\ WalkSafe'
  BY <1>1, <1>2, ListsKept, StampsKept, PurgedKept, WalkKept
<1>5. StartedIsLinked'
  <2>1. CASE there
    BY <1>1, <1>2, <2>1, RemoverStarted
  <2>2. CASE ~there
    BY <1>1, <1>2, <2>2, StartedKept DEF SetsTyped
  <2> QED BY <2>1, <2>2
<1> QED BY <1>2, <1>3, <1>4, <1>5

\* The links of a walk while one of the lists loses the link that the top frame
\* claims: g_pNextLink moves on.
LEMMA FreedWalk ==
  ASSUME IInv, stack # << >>, Last(stack).op \in Claims, FreeTouchLink(Ent, Other), Brings({}),
         \A e \in Ents : ToSet(list'[e]) = IF e = Ent THEN ToSet(list[e]) \ {Other}
                                            ELSE ToSet(list[e]),
         Under("walk") # {} => hasRoot' = hasRoot
  PROVE  WalkSafe' /\ nextLink' \in Ents \cup {NULL, ROOT}
<1> USE DEF IInv
<1> DEFINE o == Ent
           t == Other
<1>1. /\ nextLink' = NextAfter(o, t)
      /\ \A e \in Ents : ToSet(list'[e]) = IF e = o THEN ToSet(list[e]) \ {t} ELSE ToSet(list[e])
  BY DEF FreeTouchLink
<1>2. o \in Ents /\ HasLink(o, t)
  BY TopFacts
<1> HIDE DEF o, t
<1>3. /\ Following(o, t) \in Ents \cup {ROOT}
      /\ Following(o, t) # ROOT => HasLink(o, Following(o, t)) /\ Following(o, t) # t
  BY <1>2, FollowingOf
<1>4. nextLink' \in Ents \cup {NULL, ROOT}
  BY <1>1, <1>3 DEF NextAfter, SetsTyped
<1>5. ASSUME NEW f \in Under("walk")'
      PROVE  f.ent \in hasRoot' /\ (nextLink' = ROOT \/ nextLink' \in ToSet(list'[f.ent]))
  <2>1. f \in Under("walk")
    BY <1>5 DEF Brings, Under
  <2>2. /\ f.ent \in hasRoot /\ f.ent \in Ents
        /\ nextLink = ROOT \/ nextLink \in ToSet(list[f.ent])
    BY <2>1, WalkIsFirst DEF WalkSafe, HasLink
  <2>3. f.ent \in hasRoot'
    BY <2>1, <2>2
  <2>4. \A g \in Under("walk") : g.ent = f.ent
    BY <2>1, WalkIsFirst
  <2>5. CASE nextLink = t /\ f.ent = o
    <3>1. nextLink' = Following(o, t)
      BY <1>1, <2>1, <2>5 DEF NextAfter
    <3> QED BY <1>1, <1>2, <1>3, <2>3, <2>5, <3>1 DEF HasLink
  <2>6. CASE ~(nextLink = t /\ f.ent = o)
    <3>1. nextLink' = nextLink
      BY <1>1, <2>4, <2>6 DEF NextAfter
    <3> QED BY <1>1, <2>2, <2>3, <2>6, <3>1
  <2> QED BY <2>5, <2>6
<1> QED BY <1>4, <1>5 DEF WalkSafe, HasLink

\* The freed link has no stamp any more.
LEMMA FreedStamps ==
  ASSUME StampsTyped, NEW o \in Ents, NEW t \in Ents, FreeTouchLink(o, t),
         \A e \in Ents : ToSet(list'[e]) = IF e = o THEN ToSet(list[e]) \ {t} ELSE ToSet(list[e])
  PROVE  StampsTyped'
<1>0. "none" \in Stamps
  BY DEF Stamps
<1>1. stamp' = [stamp EXCEPT ![o][t] = "none"]
  BY DEF FreeTouchLink
<1>2. /\ stamp' \in [Ents -> [Ents -> Stamps]]
      /\ \A e, u \in Ents : stamp'[e][u] = IF e = o /\ u = t THEN "none" ELSE stamp[e][u]
  <2>1. stamp \in [Ents -> [Ents -> Stamps]] /\ stamp[o] \in [Ents -> Stamps]
    BY DEF StampsTyped
  <2>2. stamp' = [stamp EXCEPT ![o] = [stamp[o] EXCEPT ![t] = "none"]]
    BY <1>1
  <2>3. [stamp[o] EXCEPT ![t] = "none"] \in [Ents -> Stamps]
    BY <1>0, <2>1
  <2> QED BY <2>1, <2>2, <2>3
<1>3. \A e, u \in Ents : HasLink(e, u)' <=> HasLink(e, u) /\ ~(e = o /\ u = t)
  BY DEF HasLink
<1>4. ASSUME NEW e \in Ents, NEW u \in Ents
      PROVE  HasLink(e, u)' <=> stamp'[e][u] # "none"
  <2>1. HasLink(e, u) <=> stamp[e][u] # "none"
    BY DEF StampsTyped
  <2> QED BY <1>2, <1>3, <2>1
<1> QED BY <1>2, <1>4 DEF StampsTyped

\* EndTouch has returned.
LEMMA UnlinkStep ==
  ASSUME IInv, Unlink
  PROVE  IInv'
<1> USE DEF IInv
<1> DEFINE o == Ent
           t == Other
<1>1. /\ stack # << >> /\ Last(stack).op = "unlink" /\ Last(stack).op \in Claims
      /\ stack' = Front(stack) /\ FreeTouchLink(o, t)
      /\ hasRoot' \subseteq hasRoot /\ (Under("walk") # {} => hasRoot' = hasRoot)
      /\ UNCHANGED <<alive, marked, flagged, updateList, ents, touching, missed>>
  BY DEF Unlink, Top, checks, CleanupDatObject, Claims
<1>2. /\ StackSound' /\ ListsTyped'
      /\ Takes({"unlink"}) /\ Brings({}) /\ Frames = Frames' \cup {Last(stack)}
      /\ \A e \in Ents : ToSet(list'[e]) = IF e = o THEN ToSet(list[e]) \ {t} ELSE ToSet(list[e])
  BY <1>1, FreeStack
<1>3. /\ o \in Ents /\ t \in Ents /\ HasLink(o, t)
      /\ Last(stack) \in Under("unlink") /\ Last(stack).ent = o /\ Last(stack).other = t
  BY <1>1, TopFacts, TopIsFrame
<1>4. WalkSafe' /\ nextLink' \in Ents \cup {NULL, ROOT}
  BY <1>1, <1>2, FreedWalk
<1> HIDE DEF o, t
<1>5. SetsTyped'
  BY <1>1, <1>4 DEF SetsTyped
<1>6. StampsTyped'
  BY <1>1, <1>2, <1>3, FreedStamps
<1>7. PurgedUnchecked'
  BY <1>1, <1>2, PurgedKept
<1>8. StartedIsLinked'
  <2>1. /\ \A f \in Under("unlink")' : f \in Under("unlink")
        /\ \A f \in Under("unlink") : f \in Under("unlink")' \/ <<f.ent, f.other>> = <<o, t>>
        /\ \A f \in Under("purge") : f \in Under("purge")'
    <3>1. \A f \in Frames : f \in Frames' \/ f = Last(stack)
      BY <1>2
    <3> QED BY <1>1, <1>2, <1>3, <3>1 DEF Under
  <2> SUFFICES ASSUME NEW a \in alive', NEW b \in alive', a \notin {f.ent : f \in Under("purge")'}
               PROVE  <<a, b>> \in touching' <=>
                        /\ HasLink(a, b)' /\ Starts(a, b)
                        /\ \A f \in Under("unlink")' : <<f.ent, f.other>> # <<a, b>>
    BY DEF StartedIsLinked, Starts
  <2>2. a \in alive \ {f.ent : f \in Under("purge")} /\ b \in alive /\ a \in Ents
    BY <1>1, <2>1 DEF SetsTyped
  <2>3. <<a, b>> \in touching <=>
          HasLink(a, b) /\ Starts(a, b) /\ \A f \in Under("unlink") : <<f.ent, f.other>> # <<a, b>>
    BY <2>2 DEF StartedIsLinked
  <2>4. HasLink(a, b)' <=> HasLink(a, b) /\ <<a, b>> # <<o, t>>
    BY <1>2, <2>2 DEF HasLink
  <2>5. CASE <<a, b>> = <<o, t>>
    BY <1>1, <1>3, <2>3, <2>4, <2>5
  <2>6. CASE <<a, b>> # <<o, t>>
    BY <1>1, <2>1, <2>3, <2>4, <2>6
  <2> QED BY <2>5, <2>6
<1> QED BY <1>2, <1>4, <1>5, <1>6, <1>7, <1>8

\* Who is being removed loses a link of his own.
LEMMA FreeOwnStep ==
  ASSUME IInv, FreeOwn
  PROVE  IInv'
<1> USE DEF IInv
<1> DEFINE o == Ent
           t == Other
<1>1. /\ stack # << >> /\ Last(stack).op = "free" /\ Last(stack).op \in Claims
      /\ stack' = Front(stack) /\ FreeTouchLink(o, t)
      /\ UNCHANGED <<alive, marked, hasRoot, flagged, updateList, ents, touching, missed>>
  BY DEF FreeOwn, Top, checks, Claims
<1>2. /\ StackSound' /\ ListsTyped' /\ Takes({"free"}) /\ Brings({})
      /\ \A e \in Ents : ToSet(list'[e]) = IF e = o THEN ToSet(list[e]) \ {t} ELSE ToSet(list[e])
  BY <1>1, FreeStack
<1>3. o \in Ents /\ t \in Ents
  BY <1>1, TopFacts
<1>4. WalkSafe' /\ nextLink' \in Ents \cup {NULL, ROOT}
  BY <1>1, <1>2, FreedWalk
<1>5. \E f \in Under("purge") : f.ent = o
  <2> DEFINE n == Len(stack)
  <2>1. /\ stack \in Seq(FrameSet) /\ n \in Nat /\ Fits(stack, n) /\ stack[n].op = "free"
        /\ stack[n].ent = o
    BY <1>1, TopFacts DEF Ent
  <2>2. n > 1 /\ stack[n - 1].op = "purge" /\ stack[n - 1].ent = o
    BY <2>1 DEF Fits
  <2>3. n - 1 \in 1 .. n
    <3> HIDE DEF n
    <3> QED BY <2>1, <2>2
  <2> QED BY <2>1, <2>2, <2>3, FramesOf
<1> HIDE DEF o, t
<1>6. SetsTyped'
  BY <1>1, <1>4 DEF SetsTyped
<1>7. StampsTyped'
  BY <1>1, <1>2, <1>3, FreedStamps
<1>8. PurgedUnchecked'
  BY <1>1, <1>2, PurgedKept
<1>9. StartedIsLinked'
  <2>1. Under("unlink")' = Under("unlink")
    BY <1>2, UnderSame
  <2>2. \A f \in Under("purge") : f \in Under("purge")'
    BY <1>2 DEF Takes, Under
  <2>3. \A a \in Ents : \A b : a # o => (HasLink(a, b)' <=> HasLink(a, b))
    BY <1>2 DEF HasLink
  <2>4. \A a \in alive' : a \notin {f.ent : f \in Under("purge")'} =>
          a # o /\ a \in Ents /\ a \in alive \ {f.ent : f \in Under("purge")}
    BY <1>1, <1>5, <2>2 DEF SetsTyped
  <2>5. alive' = alive /\ touching' = touching
    BY <1>1
  <2> SUFFICES ASSUME NEW a \in alive', NEW b \in alive', a \notin {f.ent : f \in Under("purge")'}
               PROVE  <<a, b>> \in touching' <=>
                        /\ HasLink(a, b)' /\ Starts(a, b)
                        /\ \A f \in Under("unlink")' : <<f.ent, f.other>> # <<a, b>>
    BY DEF StartedIsLinked, Starts
  <2>6. <<a, b>> \in touching <=>
          HasLink(a, b) /\ Starts(a, b) /\ \A f \in Under("unlink") : <<f.ent, f.other>> # <<a, b>>
    BY <2>4, <2>5 DEF StartedIsLinked
  <2>7. HasLink(a, b)' <=> HasLink(a, b)
    BY <2>3, <2>4
  <2> QED BY <2>1, <2>5, <2>6, <2>7
<1> QED BY <1>2, <1>4, <1>6, <1>7, <1>8, <1>9

\* A link that a frame on the stack claims is there.
LEMMA ClaimOf ==
  ASSUME StackSound, NEW f \in Frames, f.op \in Claims
  PROVE  HasLink(f.ent, f.other)
<1>1. stack \in Seq(FrameSet)
  BY DEF StackSound, Shaped
<1>2. PICK i \in 1 .. Len(stack) : stack[i] = f
  BY <1>1, FramesOf
<1> QED BY <1>2 DEF StackSound, Claimed, HasLink

\* A new link starts a touch, if it is one that ends it.
LEMMA MarkedStarted ==
  ASSUME StartedIsLinked, StackSound, alive \subseteq Ents, alive' = alive,
         NEW a \in Ents, NEW b \in Ents,
         \A e \in Ents : ToSet(list'[e]) = IF e = a THEN ToSet(list[e]) \cup {b} ELSE ToSet(list[e]),
         touching' = IF ~HasLink(a, b) /\ Starts(a, b) THEN touching \cup {<<a, b>>} ELSE touching,
         NEW X, NEW Y, Takes(X), Brings(Y), "unlink" \notin X \cup Y, "purge" \notin X
  PROVE  StartedIsLinked'
<1>1. Under("unlink")' = Under("unlink")
  BY UnderSame
<1>2. \A f \in Under("purge") : f \in Under("purge")'
  BY DEF Takes, Under
<1>3. \A f \in Under("unlink") : HasLink(f.ent, f.other)
  BY ClaimOf DEF Under, Claims
<1> SUFFICES ASSUME NEW c \in alive', NEW d \in alive', c \notin {f.ent : f \in Under("purge")'}
             PROVE  <<c, d>> \in touching' <=>
                      /\ HasLink(c, d)' /\ Starts(c, d)
                      /\ \A f \in Under("unlink")' : <<f.ent, f.other>> # <<c, d>>
  BY DEF StartedIsLinked, Starts
<1>4. c \in alive \ {f.ent : f \in Under("purge")} /\ d \in alive /\ c \in Ents
  BY <1>2
<1>5. <<c, d>> \in touching <=>
        HasLink(c, d) /\ Starts(c, d) /\ \A f \in Under("unlink") : <<f.ent, f.other>> # <<c, d>>
  BY <1>4 DEF StartedIsLinked
<1>6. HasLink(c, d)' <=> HasLink(c, d) \/ <<c, d>> = <<a, b>>
  BY <1>4 DEF HasLink
<1>7. CASE <<c, d>> = <<a, b>> /\ ~HasLink(a, b)
  <2>1. \A f \in Under("unlink") : <<f.ent, f.other>> # <<a, b>>
    BY <1>3, <1>7
  <2>2. c = a /\ d = b
    BY <1>7
  <2> QED BY <1>1, <1>5, <1>6, <1>7, <2>1, <2>2
<1>8. CASE ~(<<c, d>> = <<a, b>> /\ ~HasLink(a, b))
  <2>1. <<c, d>> \in touching' <=> <<c, d>> \in touching
    BY <1>8
  <2>2. HasLink(c, d)' <=> HasLink(c, d)
    BY <1>6, <1>8
  <2> QED BY <1>1, <1>5, <2>1, <2>2
<1> QED BY <1>7, <1>8

\* What PhysicsMarkEntityAsTouched does to the links and touches.
LEMMA MarkedLinks ==
  ASSUME IInv, NEW a \in Ents, NEW b \in Ents, a # b, a \in alive, MarkAsTouched(a, b)
  PROVE  /\ ListsTyped' /\ StampsTyped'
         /\ \A e \in Ents : ToSet(list'[e]) = IF e = a THEN ToSet(list[e]) \cup {b}
                                                ELSE ToSet(list[e])
         /\ \A e \in Ents : \A u, v : At(list[e], u, v) => At(list'[e], u, v)
         /\ touching' = IF ~HasLink(a, b) /\ Starts(a, b) THEN touching \cup {<<a, b>>} ELSE touching
         /\ touching' \subseteq Ents \X Ents
         /\ hasRoot \subseteq hasRoot' /\ hasRoot' \subseteq alive
<1> USE DEF IInv
<1>1. /\ ListsTyped'
      /\ \A e \in Ents : ToSet(list'[e]) = IF e = a THEN ToSet(list[e]) \cup {b}
                                             ELSE ToSet(list[e])
      /\ \A e \in Ents : \A u, v : At(list[e], u, v) => At(list'[e], u, v)
  BY MarkedLists
<1>1a. "fresh" \in Stamps
  BY DEF Stamps
<1>2. stamp' = [stamp EXCEPT ![a][b] = "fresh"]
  BY DEF MarkAsTouched
<1>3. /\ stamp' \in [Ents -> [Ents -> Stamps]]
      /\ \A e, u \in Ents : stamp'[e][u] = IF e = a /\ u = b THEN "fresh" ELSE stamp[e][u]
  <2>1. stamp \in [Ents -> [Ents -> Stamps]] /\ stamp[a] \in [Ents -> Stamps]
    BY DEF StampsTyped
  <2>2. stamp' = [stamp EXCEPT ![a] = [stamp[a] EXCEPT ![b] = "fresh"]]
    BY <1>2
  <2>3. [stamp[a] EXCEPT ![b] = "fresh"] \in [Ents -> Stamps]
    BY <1>1a, <2>1
  <2> QED BY <2>1, <2>2, <2>3
<1>4. \A e, u \in Ents : HasLink(e, u)' <=> HasLink(e, u) \/ (e = a /\ u = b)
  BY <1>1 DEF HasLink
<1>5. ASSUME NEW e \in Ents, NEW u \in Ents
      PROVE  HasLink(e, u)' <=> stamp'[e][u] # "none"
  <2>1. HasLink(e, u) <=> stamp[e][u] # "none"
    BY DEF StampsTyped
  <2> QED BY <1>3, <1>4, <2>1
<1>6. StampsTyped'
  BY <1>3, <1>5 DEF StampsTyped
<1>7. /\ touching' = IF ~HasLink(a, b) /\ Starts(a, b) THEN touching \cup {<<a, b>>} ELSE touching
      /\ hasRoot' = hasRoot \/ hasRoot' = hasRoot \cup {a}
  BY DEF MarkAsTouched
<1>8. touching' \subseteq Ents \X Ents /\ hasRoot \subseteq hasRoot' /\ hasRoot' \subseteq alive
  BY <1>7 DEF SetsTyped
<1> QED BY <1>1, <1>6, <1>7, <1>8

\* The first half of a touch.
LEMMA TouchesStep ==
  ASSUME IInv, NEW a \in Ents, NEW b \in Ents, {a, b} \in Meets \cup Contacts, NEW second,
         second = "second" \/ (second = "secondEvent" /\ Reports(a, b)),
         Touches(a, b, second)
  PROVE  IInv'
<1> USE DEF IInv
<1>1. /\ a \in alive /\ a # b /\ MarkAsTouched(a, b)
      /\ UNCHANGED <<alive, marked, flagged, updateList, ents, nextLink, missed>>
  BY PairsOf DEF Touches, checks
<1>2. StackSound' /\ Takes({}) /\ Brings({"second", "secondEvent"})
  BY TouchesStack
<1>3. /\ ListsTyped' /\ StampsTyped'
      /\ \A e \in Ents : ToSet(list'[e]) = IF e = a THEN ToSet(list[e]) \cup {b}
                                             ELSE ToSet(list[e])
      /\ touching' = IF ~HasLink(a, b) /\ Starts(a, b) THEN touching \cup {<<a, b>>} ELSE touching
      /\ touching' \subseteq Ents \X Ents
      /\ hasRoot \subseteq hasRoot' /\ hasRoot' \subseteq alive
  BY <1>1, MarkedLinks
<1>4. SetsTyped'
  BY <1>1, <1>3 DEF SetsTyped
<1>5. PurgedUnchecked' /\ WalkSafe'
  BY <1>1, <1>2, <1>3, PurgedKept, WalkKept
<1>6. StartedIsLinked'
  BY <1>1, <1>2, <1>3, MarkedStarted DEF SetsTyped
<1> QED BY <1>2, <1>3, <1>4, <1>5, <1>6

\* The second half.
LEMMA SecondStep ==
  ASSUME IInv, Second
  PROVE  IInv'
<1> USE DEF IInv
<1> DEFINE o == Other
           t == Ent
<1>1. /\ stack # << >> /\ Last(stack).op = "second"
      /\ \/ MarkAsTouched(o, t)
         \/ UNCHANGED <<list, stamp, hasRoot, touching>>
      /\ UNCHANGED <<alive, marked, flagged, updateList, ents, nextLink, missed>>
  BY DEF Second, Top, checks, links
<1>2. o \in Ents /\ t \in Ents /\ o # t /\ o \in alive
  BY <1>1, TopFacts
<1>3. StackSound' /\ Takes({"second"}) /\ Brings({})
  BY SecondStack
<1> HIDE DEF o, t
<1>4. CASE MarkAsTouched(o, t)
  <2>1. /\ ListsTyped' /\ StampsTyped'
        /\ \A e \in Ents : ToSet(list'[e]) = IF e = o THEN ToSet(list[e]) \cup {t}
                                               ELSE ToSet(list[e])
        /\ touching' = IF ~HasLink(o, t) /\ Starts(o, t) THEN touching \cup {<<o, t>>} ELSE touching
        /\ touching' \subseteq Ents \X Ents
        /\ hasRoot \subseteq hasRoot' /\ hasRoot' \subseteq alive
    BY <1>2, <1>4, MarkedLinks
  <2>2. SetsTyped'
    BY <1>1, <2>1 DEF SetsTyped
  <2>3. PurgedUnchecked' /\ WalkSafe'
    BY <1>1, <1>3, <2>1, PurgedKept, WalkKept
  <2>4. StartedIsLinked'
    BY <1>1, <1>2, <1>3, <2>1, MarkedStarted DEF SetsTyped
  <2> QED BY <1>3, <2>1, <2>2, <2>3, <2>4
<1>5. CASE UNCHANGED <<list, stamp, hasRoot, touching>>
  <2>1. SetsTyped'
    BY <1>1, <1>5 DEF SetsTyped
  <2>2. PurgedUnchecked' /\ ListsTyped' /\ StampsTyped' /\ WalkSafe'
    BY <1>1, <1>3, <1>5, ListsKept, StampsKept, PurgedKept, WalkKept
  <2>3. StartedIsLinked'
    BY <1>1, <1>3, <1>5, StartedKept DEF SetsTyped
  <2> QED BY <1>3, <2>1, <2>2, <2>3
<1> QED BY <1>1, <1>4, <1>5

\* The second half of a touch that the physics engine reports: the links on both
\* sides are there when they are stamped.
LEMMA SecondEventStep ==
  ASSUME IInv, SecondEvent
  PROVE  IInv'
<1> USE DEF IInv
<1> DEFINE o == Other
           t == Ent
<1>1. /\ stack # << >> /\ Last(stack).op = "secondEvent" /\ Last(stack).op \in Claims
      /\ UNCHANGED <<alive, marked, flagged, updateList, ents, nextLink, missed>>
  BY DEF SecondEvent, Top, checks, Claims
<1>2. o \in Ents /\ t \in Ents /\ o # t /\ o \in alive /\ HasLink(t, o)
  BY <1>1, TopFacts
<1>3. /\ StackSound' /\ ListsTyped' /\ Takes({"secondEvent"}) /\ Brings({"stamp"})
      /\ OtherLinked => \A e \in Ents :
           ToSet(list'[e]) = IF e = o THEN ToSet(list[e]) \cup {t} ELSE ToSet(list[e])
  BY SecondEventStack
<1> DEFINE A == /\ stamp' = [stamp EXCEPT ![t][o] = "event", ![o][t] = "fresh"]
                /\ hasRoot' = hasRoot \cup {o}
                /\ touching' = IF ~HasLink(o, t) /\ Starts(o, t)
                               THEN touching \cup {<<o, t>>} ELSE touching
                /\ \A e \in Ents : ToSet(list'[e]) = IF e = o THEN ToSet(list[e]) \cup {t}
                                                       ELSE ToSet(list[e])
           B == /\ stamp' = [stamp EXCEPT ![t][o] = "event"]
                /\ UNCHANGED <<list, hasRoot, touching>>
<1>4. A \/ B
  BY <1>3 DEF SecondEvent, OtherLinked
<1> HIDE DEF o, t
<1>5. SetsTyped'
  BY <1>1, <1>2, <1>4 DEF SetsTyped
<1>6. PurgedUnchecked' /\ WalkSafe'
  <2>1. /\ hasRoot \subseteq hasRoot'
        /\ \A e \in Ents : ToSet(list[e]) \subseteq ToSet(list'[e])
    BY <1>4
  <2> QED BY <1>1, <1>3, <2>1, PurgedKept, WalkKept
<1>7. StartedIsLinked'
  <2>1. CASE A
    BY <1>1, <1>2, <1>3, <2>1, MarkedStarted DEF SetsTyped
  <2>2. CASE B
    BY <1>1, <1>3, <2>2, StartedKept DEF SetsTyped
  <2> QED BY <1>4, <2>1, <2>2
<1>8. StampsTyped'
  <2>1. /\ stamp \in [Ents -> [Ents -> Stamps]]
        /\ \A e, u \in Ents : HasLink(e, u) <=> stamp[e][u] # "none"
    BY DEF StampsTyped
  <2>2. /\ [stamp[t] EXCEPT ![o] = "event"] \in [Ents -> Stamps]
        /\ [stamp[o] EXCEPT ![t] = "fresh"] \in [Ents -> Stamps]
    BY <1>2, <2>1 DEF Stamps
  <2>4. CASE A
    <3>0. \A e, u \in Ents : HasLink(e, u)' <=> HasLink(e, u) \/ (e = o /\ u = t)
      BY <2>4 DEF HasLink
    <3>1. stamp' = [stamp EXCEPT ![t] = [stamp[t] EXCEPT ![o] = "event"],
                                 ![o] = [stamp[o] EXCEPT ![t] = "fresh"]]
      BY <1>2, <2>1, <2>4
    <3>2. /\ stamp' \in [Ents -> [Ents -> Stamps]]
          /\ \A e, u \in Ents : stamp'[e][u] = IF e = t /\ u = o THEN "event"
                                               ELSE IF e = o /\ u = t THEN "fresh" ELSE stamp[e][u]
      BY <1>2, <2>1, <2>2, <3>1
    <3>3. ASSUME NEW e \in Ents, NEW u \in Ents
          PROVE  HasLink(e, u)' <=> stamp'[e][u] # "none"
      BY <1>2, <2>1, <3>0, <3>2
    <3> QED BY <3>2, <3>3 DEF StampsTyped
  <2>5. CASE B
    <3>0. \A e, u \in Ents : HasLink(e, u)' <=> HasLink(e, u)
      BY <2>5 DEF HasLink
    <3>1. stamp' = [stamp EXCEPT ![t] = [stamp[t] EXCEPT ![o] = "event"]]
      BY <2>5
    <3>2. /\ stamp' \in [Ents -> [Ents -> Stamps]]
          /\ \A e, u \in Ents : stamp'[e][u] = IF e = t /\ u = o THEN "event" ELSE stamp[e][u]
      BY <1>2, <2>1, <2>2, <3>1
    <3>3. ASSUME NEW e \in Ents, NEW u \in Ents
          PROVE  HasLink(e, u)' <=> stamp'[e][u] # "none"
      BY <1>2, <2>1, <3>0, <3>2
    <3> QED BY <3>2, <3>3 DEF StampsTyped
  <2> QED BY <1>4, <2>4, <2>5
<1> QED BY <1>3, <1>5, <1>6, <1>7, <1>8

\* Nothing happens.
LEMMA StutterStep ==
  ASSUME IInv, UNCHANGED vars
  PROVE  IInv'
<1> USE DEF IInv
<1>1. UNCHANGED <<alive, marked, list, stamp, hasRoot, flagged, updateList, ents, nextLink, stack,
                  touching, missed>>
  BY DEF vars, links, checks
<1>2. StackSound' /\ Takes({}) /\ Brings({})
  BY <1>1, StackKept
<1>3. SetsTyped'
  BY <1>1 DEF SetsTyped
<1>4. PurgedUnchecked' /\ ListsTyped' /\ StampsTyped' /\ WalkSafe'
  BY <1>1, <1>2, ListsKept, StampsKept, PurgedKept, WalkKept
<1>5. StartedIsLinked'
  BY <1>1, <1>2, StartedKept DEF SetsTyped
<1> QED BY <1>2, <1>3, <1>4, <1>5

\* Every step keeps the invariant.
LEMMA StepSound ==
  ASSUME IInv, [Next]_vars
  PROVE  IInv'
<1>1. ASSUME NEW a \in Ents, NEW b \in Ents, PhysicsMarkEntitiesAsTouching(a, b)
      PROVE  IInv'
  <2>1. {a, b} \in Meets \cup Contacts /\ Touches(a, b, "second")
    BY <1>1 DEF PhysicsMarkEntitiesAsTouching
  <2> QED BY <2>1, TouchesStep
<1>2. ASSUME NEW a \in Ents, NEW b \in Ents, PhysicsMarkEntitiesAsTouchingEventDriven(a, b)
      PROVE  IInv'
  <2>1. /\ {a, b} \in Meets \cup Contacts /\ Touches(a, b, "secondEvent")
        /\ Reports(a, b)
    BY <1>2 DEF PhysicsMarkEntitiesAsTouchingEventDriven, Reports
  <2> QED BY <2>1, TouchesStep
<1>3. ASSUME NEW a \in Ents, NEW b \in Ents, DispatchEndTouch(a, b)
      PROVE  IInv'
  BY <1>3, DispatchEndTouchStep
<1>4. ASSUME NEW e \in Ents, \/ SetCheckUntouch(e) \/ PhysicsCheckForEntityUntouch(e)
                             \/ UTIL_Remove(e) \/ UTIL_RemoveImmediate(e) \/ CleanupDeleteList(e)
      PROVE  IInv'
  BY <1>4, SetCheckUntouchStep, CheckStep, RemoveStep, RemoveImmediateStep, CleanupStep
<1>5. ASSUME \/ Second \/ SecondEvent \/ Stamp \/ Unlink \/ Notify
      PROVE  IInv'
  BY <1>5, SecondStep, SecondEventStep, StampStep, UnlinkStep, NotifyStep
<1>6. ASSUME \/ FrameUpdatePostEntityThink \/ WalkLink \/ Touched \/ Untouch \/ WalkDone
      PROVE  IInv'
  BY <1>6, FrameUpdateStep, WalkLinkStep, TouchedStep, UntouchStep, WalkDoneStep
<1>7. ASSUME \/ PurgeLink \/ FreeOwn \/ PurgeDone
      PROVE  IInv'
  BY <1>7, PurgeLinkStep, FreeOwnStep, PurgeDoneStep
<1>8. UNCHANGED vars => IInv'
  BY StutterStep
<1> QED BY <1>1, <1>2, <1>3, <1>4, <1>5, <1>6, <1>7, <1>8 DEF Next

\* The invariant holds in every reachable state.
THEOREM Sound == Spec => []IInv
<1>1. Init => IInv
  BY InitSound
<1>2. IInv /\ [Next]_vars => IInv'
  BY StepSound
<1> QED BY <1>1, <1>2, PTL DEF Spec

-----------------------------------------------------------------------------
(* What follows from it.                                                   *)

\* Every variable has its type, no entity has two links to another, and a link
\* has a touch stamp exactly as long as it is in its list.
THEOREM TypeCorrect == Spec => []TypeOK
<1>1. IInv => TypeOK
  BY TypeOKOf DEF IInv
<1> QED BY <1>1, Sound, PTL

\* While PhysicsCheckForEntityUntouch walks the links of an entity, whatever its
\* callbacks remove, g_pNextLink is a link that is still there, or the root of
\* the list, and the root has not been destroyed.
THEOREM WalkAlwaysSafe == Spec => []WalkSafe
<1>1. IInv => WalkSafe
  BY DEF IInv
<1> QED BY <1>1, Sound, PTL

\* Between two entities StartTouch has been called without an EndTouch exactly as
\* long as there is the link that has EndTouch called, whatever the callbacks of
\* either do.
THEOREM StartedAlwaysLinked == Spec => []StartedIsLinked
<1>1. IInv => StartedIsLinked
  BY DEF IInv
<1> QED BY <1>1, Sound, PTL

-----------------------------------------------------------------------------
(* Links that are out of date are found.                                   *)

\* Frames that are going to free a link.
Removals == Under("untouch") \cup Under("unlink")

\* A stale link of the entity that is walked is still ahead, or just being
\* removed, unless the entity has moved since.
WalkAhead ==
  \A f \in Under("walk") : f.ent \notin missed =>
    \A t \in Ents : stamp[f.ent][t] = "stale" =>
      \/ nextLink # ROOT /\ At(list[f.ent], nextLink, t)
      \/ \E g \in Removals : g.ent = f.ent /\ g.other = t

\* Who has links has the data object that holds them.
RootedLists == \A e \in Ents : list[e] # << >> => e \in hasRoot

\* Who is flagged is on a list, or being walked.
FlaggedListed ==
  \A e \in flagged \ marked :
    e \in updateList \cup ents \/ \E f \in Under("walk") : f.ent = e

SInv == WalkAhead /\ RootedLists /\ FlaggedListed /\ StaleChecked

\* Who is walked is there.
LEMMA WalkedAlive ==
  ASSUME WalkSafe, SetsTyped
  PROVE  \A f \in Under("walk") : f.ent \in alive
BY DEF WalkSafe, SetsTyped

\* A step that makes no stamp old, and under which the walk stays in front of
\* what it was in front of.
LEMMA StaleKept ==
  ASSUME SInv, StackSound,
         alive' \subseteq alive, alive' \ marked' \subseteq alive \ marked,
         flagged' \ marked' \subseteq flagged \ marked,
         updateList \ marked' \subseteq updateList', ents' = ents,
         \A e \in alive' \ marked' : e \in flagged => e \in flagged',
         \A e \in alive' : e \in missed => e \in missed',
         \A e, t \in Ents : stamp'[e][t] = "stale" => stamp[e][t] = "stale",
         \A f \in Under("walk") : f.ent \in alive' /\ \A t \in Ents :
           nextLink # ROOT /\ At(list[f.ent], nextLink, t) /\ stamp'[f.ent][t] = "stale" =>
             nextLink' # ROOT /\ At(list'[f.ent], nextLink', t),
         \A g \in Removals : stamp'[g.ent][g.other] = "stale" =>
           \E h \in Removals' : h.ent = g.ent /\ h.other = g.other,
         Under("walk")' = Under("walk"), alive \subseteq Ents
  PROVE  WalkAhead' /\ FlaggedListed' /\ StaleChecked'
<1> USE DEF SInv
<1>1. WalkAhead'
  <2> SUFFICES ASSUME NEW f \in Under("walk"), f.ent \notin missed', NEW t \in Ents,
                      stamp'[f.ent][t] = "stale"
               PROVE  \/ nextLink' # ROOT /\ At(list'[f.ent], nextLink', t)
                      \/ \E h \in Removals' : h.ent = f.ent /\ h.other = t
    BY DEF WalkAhead
  <2>1. f.ent \in Ents /\ f.ent \notin missed /\ stamp[f.ent][t] = "stale"
    BY WalkIsFirst
  <2>2. CASE nextLink # ROOT /\ At(list[f.ent], nextLink, t)
    BY <2>2
  <2>3. CASE \E g \in Removals : g.ent = f.ent /\ g.other = t
    BY <2>3
  <2> QED BY <2>1, <2>2, <2>3 DEF WalkAhead
<1>2. FlaggedListed'
  BY DEF FlaggedListed
<1>3. StaleChecked'
  <2> SUFFICES ASSUME NEW e \in alive' \ marked', NEW t \in Ents, stamp'[e][t] = "stale"
               PROVE  \/ /\ e \in flagged'
                         /\ e \in updateList' \cup ents' \/ \E f \in Under("walk") : f.ent = e
                      \/ e \in missed'
    BY DEF StaleChecked
  <2>1. e \in alive \ marked /\ e \in Ents /\ stamp[e][t] = "stale"
    OBVIOUS
  <2>2. \/ /\ e \in flagged
           /\ e \in updateList \cup ents \/ \E f \in Under("walk") : f.ent = e
        \/ e \in missed
    BY <2>1 DEF StaleChecked
  <2> QED BY <2>1, <2>2
<1> QED BY <1>1, <1>2, <1>3

\* A step that leaves the links alone.
LEMMA StaleQuiet ==
  ASSUME SInv, IInv, IInv',
         UNCHANGED <<alive, list, stamp, hasRoot, flagged, ents, nextLink, missed>>,
         marked \subseteq marked', updateList \ marked' \subseteq updateList',
         NEW X, NEW Y, Takes(X), Brings(Y),
         "walk" \notin X \cup Y, "untouch" \notin X, "unlink" \notin X
  PROVE  SInv'
<1>1. Under("walk")' = Under("walk")
  BY UnderSame
<1>2. \A g \in Removals : g \in Removals'
  BY DEF Takes, Removals, Under
<1>3. \A f \in Under("walk") : f.ent \in alive
  BY WalkedAlive DEF IInv
<1>4. WalkAhead' /\ FlaggedListed' /\ StaleChecked'
  BY <1>1, <1>2, <1>3, StaleKept DEF IInv, SetsTyped
<1>5. RootedLists'
  BY DEF SInv, RootedLists
<1> QED BY <1>4, <1>5 DEF SInv

\* A list with links in it.
LEMMA LinkedOf ==
  ASSUME ListsTyped, NEW e \in Ents
  PROVE  list[e] # << >> <=> \E x : x \in ToSet(list[e])
<1>1. list[e] \in Seq(Ents)
  BY DEF ListsTyped
<1>2. /\ Len(list[e]) \in Nat /\ (list[e] = << >> <=> Len(list[e]) = 0)
      /\ \A x : x \in ToSet(list[e]) <=> \E i \in 1 .. Len(list[e]) : list[e][i] = x
  BY <1>1, SetOf
<1> DEFINE n == Len(list[e])
<1>3. list[e] # << >> <=> n > 0
  BY <1>2
<1>4. n > 0 => 1 \in 1 .. n
  BY <1>2
<1> HIDE DEF n
<1>5. n > 0 => list[e][1] \in ToSet(list[e])
  BY <1>2, <1>4 DEF n
<1>6. (\E x : x \in ToSet(list[e])) => \E i \in 1 .. n : TRUE
  BY <1>2 DEF n
<1>7. n \in Nat
  BY <1>2 DEF n
<1>8. (\E i \in 1 .. n : TRUE) => n > 0
  BY <1>7
<1> QED BY <1>3, <1>5, <1>6, <1>8

\* The data object is there with the first link and goes with the last.
LEMMA RootedKept ==
  ASSUME SInv, ListsTyped, ListsTyped',
         \A e \in Ents : \A x : x \in ToSet(list'[e]) => x \in ToSet(list[e]) \/ e \in hasRoot',
         \A e \in Ents : e \in hasRoot => e \in hasRoot' \/ list'[e] = << >>
  PROVE  RootedLists'
<1> SUFFICES ASSUME NEW e \in Ents, list'[e] # << >>
             PROVE  e \in hasRoot'
  BY DEF RootedLists
<1>1. \E x : x \in ToSet(list'[e])
  <2>1. (list[e] # << >> <=> \E x : x \in ToSet(list[e]))'
    BY LinkedOf, PTL
  <2> QED BY <2>1
<1>2. list[e] # << >> \/ e \in hasRoot'
  BY <1>1, LinkedOf
<1> QED BY <1>2 DEF SInv, RootedLists

\* There is one walk at most, of the top frame's entity if that is its frame.
LEMMA WalkOfTop ==
  ASSUME StackSound, stack # << >>, Last(stack).op = "walk"
  PROVE  /\ \A f \in Under("walk") : f.ent = Ent
         /\ Len(stack) = 1 /\ Frames = {Last(stack)} /\ Removals = {}
<1>1. /\ Last(stack) = stack[Len(stack)] /\ Fits(stack, Len(stack)) /\ stack \in Seq(FrameSet)
  BY TopFacts
<1>2. Len(stack) = 1
  BY <1>1 DEF Fits
<1>3. \A f : f \in Frames <=> \E i \in 1 .. Len(stack) : stack[i] = f
  BY <1>1, FramesOf
<1>4. Frames = {Last(stack)}
  BY <1>1, <1>2, <1>3
<1>5. Removals = {}
  BY <1>4 DEF Removals, Under
<1> QED BY <1>2, <1>4, <1>5 DEF Under, Ent

\* A new stamp is not old, and a link more puts nobody out of the walk's way.
LEMMA StampedStale ==
  ASSUME SInv, IInv, IInv', UNCHANGED <<alive, marked, flagged, updateList, ents, nextLink, missed>>,
         \A e \in Ents : \A u, v : At(list[e], u, v) => At(list'[e], u, v),
         \A e, t \in Ents : stamp'[e][t] = "stale" => stamp[e][t] = "stale",
         NEW X, NEW Y, Takes(X), Brings(Y),
         "walk" \notin X \cup Y, "untouch" \notin X, "unlink" \notin X
  PROVE  WalkAhead' /\ FlaggedListed' /\ StaleChecked'
<1>1. Under("walk")' = Under("walk")
  BY UnderSame
<1>2. \A g \in Removals : g \in Removals'
  BY DEF Takes, Removals, Under
<1>3. \A f \in Under("walk") : f.ent \in alive /\ f.ent \in Ents
  BY WalkedAlive, WalkIsFirst DEF IInv
<1>4. \A f \in Under("walk") : f.ent \in alive' /\ \A t \in Ents :
        nextLink # ROOT /\ At(list[f.ent], nextLink, t) /\ stamp'[f.ent][t] = "stale" =>
          nextLink' # ROOT /\ At(list'[f.ent], nextLink', t)
  BY <1>3
<1>5. \A g \in Removals : stamp'[g.ent][g.other] = "stale" =>
        \E h \in Removals' : h.ent = g.ent /\ h.other = g.other
  BY <1>2
<1> QED BY <1>1, <1>4, <1>5, StaleKept DEF IInv, SetsTyped

\* One link gets a stamp that is not old.
LEMMA StampSet ==
  ASSUME StampsTyped, NEW a \in Ents, NEW b \in Ents, NEW v, v # "stale",
         stamp' = [stamp EXCEPT ![a][b] = v]
  PROVE  /\ \A e, t \in Ents : stamp'[e][t] = "stale" => stamp[e][t] = "stale"
         /\ stamp'[a][b] = v
<1>1. stamp \in [Ents -> [Ents -> Stamps]] /\ stamp[a] \in [Ents -> Stamps]
  BY DEF StampsTyped
<1>2. stamp' = [stamp EXCEPT ![a] = [stamp[a] EXCEPT ![b] = v]]
  OBVIOUS
<1> QED BY <1>1, <1>2

\* The steps that leave the links and their stamps alone.
LEMMA TouchedStale ==
  ASSUME SInv, IInv, IInv', Touched
  PROVE  SInv'
<1>1. /\ stack # << >> /\ Last(stack).op = "touched" /\ stack' = Front(stack)
      /\ UNCHANGED <<alive, marked, list, stamp, hasRoot, flagged, updateList, ents, nextLink, missed>>
  BY DEF Touched, Top, links, checks
<1>2. Takes({"touched"}) /\ Brings({})
  BY <1>1, ReturnStack DEF IInv
<1> QED BY <1>1, <1>2, StaleQuiet

LEMMA DispatchEndTouchStale ==
  ASSUME SInv, IInv, IInv', NEW a \in Ents, NEW b \in Ents, DispatchEndTouch(a, b)
  PROVE  SInv'
<1>1. UNCHANGED <<alive, marked, list, stamp, hasRoot, flagged, updateList, ents, nextLink, missed>>
  BY DEF DispatchEndTouch, links, checks
<1>2. Takes({}) /\ Brings({"notify"})
  BY DispatchStack DEF IInv, SetsTyped
<1> QED BY <1>1, <1>2, StaleQuiet

LEMMA RemoveStale ==
  ASSUME SInv, IInv, IInv', NEW e \in Ents, UTIL_Remove(e)
  PROVE  SInv'
<1>1. /\ UNCHANGED <<alive, list, stamp, hasRoot, flagged, ents, nextLink, stack, missed>>
      /\ marked \subseteq marked' /\ updateList \ marked' \subseteq updateList'
  BY DEF UTIL_Remove, MarkForDeletion, links
<1>2. Takes({}) /\ Brings({})
  BY <1>1 DEF Takes, Brings, Frames
<1> QED BY <1>1, <1>2, StaleQuiet

LEMMA RemoveImmediateStale ==
  ASSUME SInv, IInv, IInv', NEW e \in Ents, UTIL_RemoveImmediate(e)
  PROVE  SInv'
<1>1. /\ UNCHANGED <<alive, list, stamp, hasRoot, flagged, ents, nextLink, missed>>
      /\ marked \subseteq marked' /\ updateList \ marked' \subseteq updateList'
  BY DEF UTIL_RemoveImmediate, MarkForDeletion, links
<1>2. Takes({}) /\ Brings({"purge"})
  BY RemoveImmediateStack DEF IInv, SetsTyped
<1> QED BY <1>1, <1>2, StaleQuiet

LEMMA CleanupStale ==
  ASSUME SInv, IInv, IInv', NEW e \in Ents, CleanupDeleteList(e)
  PROVE  SInv'
<1>1. UNCHANGED <<alive, marked, list, stamp, hasRoot, flagged, updateList, ents, nextLink, missed>>
  BY DEF CleanupDeleteList, links, checks
<1>2. Takes({}) /\ Brings({"purge"})
  BY CleanupStack DEF IInv, SetsTyped
<1> QED BY <1>1, <1>2, StaleQuiet

LEMMA PurgeLinkStale ==
  ASSUME SInv, IInv, IInv', PurgeLink
  PROVE  SInv'
<1>1. UNCHANGED <<alive, marked, list, stamp, hasRoot, flagged, updateList, ents, nextLink, missed>>
  BY DEF PurgeLink, links, checks
<1>2. Takes({}) /\ Brings({"free", "notify"})
  BY PurgeLinkStack DEF IInv
<1> QED BY <1>1, <1>2, StaleQuiet

LEMMA NotifyStale ==
  ASSUME SInv, IInv, IInv', Notify
  PROVE  SInv'
<1>1. UNCHANGED <<alive, marked, list, stamp, hasRoot, flagged, updateList, ents, nextLink, missed>>
  BY DEF Notify, links, checks
<1>2. Takes({"notify"}) /\ Brings({"unlink"})
  BY NotifyStack DEF IInv
<1> QED BY <1>1, <1>2, StaleQuiet

LEMMA StutterStale ==
  ASSUME SInv, IInv, IInv', UNCHANGED vars
  PROVE  SInv'
<1>1. UNCHANGED <<alive, marked, list, stamp, hasRoot, flagged, updateList, ents, nextLink, stack,
                  missed>>
  BY DEF vars, links, checks
<1>2. Takes({}) /\ Brings({})
  BY <1>1 DEF Takes, Brings, Frames
<1> QED BY <1>1, <1>2, StaleQuiet

\* A touch stamps the links of its pair anew.
LEMMA MarkedStale ==
  ASSUME SInv, IInv, IInv', NEW a \in Ents, NEW b \in Ents, a # b, a \in alive, MarkAsTouched(a, b),
         UNCHANGED <<alive, marked, flagged, updateList, ents, nextLink, missed>>,
         NEW X, NEW Y, Takes(X), Brings(Y),
         "walk" \notin X \cup Y, "untouch" \notin X, "unlink" \notin X
  PROVE  SInv'
<1>1. /\ \A e \in Ents : ToSet(list'[e]) = IF e = a THEN ToSet(list[e]) \cup {b} ELSE ToSet(list[e])
      /\ \A e \in Ents : \A u, v : At(list[e], u, v) => At(list'[e], u, v)
      /\ hasRoot \subseteq hasRoot'
  BY MarkedLinks
<1>2. \A e, t \in Ents : stamp'[e][t] = "stale" => stamp[e][t] = "stale"
  BY StampSet DEF MarkAsTouched, IInv
<1>3. WalkAhead' /\ FlaggedListed' /\ StaleChecked'
  BY <1>1, <1>2, StampedStale
<1>4. a \in hasRoot' \/ list' = list
  BY DEF MarkAsTouched
<1>5. \A e \in Ents : \A x : x \in ToSet(list'[e]) => x \in ToSet(list[e]) \/ e \in hasRoot'
  BY <1>1, <1>4
<1>6. RootedLists'
  BY <1>1, <1>5, RootedKept DEF IInv
<1> QED BY <1>3, <1>6 DEF SInv

LEMMA TouchesStale ==
  ASSUME SInv, IInv, IInv', NEW a \in Ents, NEW b \in Ents, {a, b} \in Meets \cup Contacts, NEW second,
         second = "second" \/ (second = "secondEvent" /\ Reports(a, b)),
         Touches(a, b, second)
  PROVE  SInv'
<1>1. /\ a \in alive /\ a # b /\ MarkAsTouched(a, b)
      /\ UNCHANGED <<alive, marked, flagged, updateList, ents, nextLink, missed>>
  BY PairsOf DEF Touches, checks
<1>2. Takes({}) /\ Brings({"second", "secondEvent"})
  BY TouchesStack DEF IInv
<1> QED BY <1>1, <1>2, MarkedStale

LEMMA SecondStale ==
  ASSUME SInv, IInv, IInv', Second
  PROVE  SInv'
<1> DEFINE o == Other
           t == Ent
<1>1. /\ stack # << >> /\ Last(stack).op = "second"
      /\ \/ MarkAsTouched(o, t)
         \/ UNCHANGED <<list, stamp, hasRoot, touching>>
      /\ UNCHANGED <<alive, marked, flagged, updateList, ents, nextLink, missed>>
  BY DEF Second, Top, checks, links
<1>2. o \in Ents /\ t \in Ents /\ o # t /\ o \in alive
  BY <1>1, TopFacts DEF IInv
<1>3. Takes({"second"}) /\ Brings({})
  BY SecondStack DEF IInv
<1> HIDE DEF o, t
<1>4. CASE MarkAsTouched(o, t)
  BY <1>1, <1>2, <1>3, <1>4, MarkedStale
<1>5. CASE UNCHANGED <<list, stamp, hasRoot, touching>>
  BY <1>1, <1>3, <1>5, StaleQuiet
<1> QED BY <1>1, <1>4, <1>5

LEMMA SecondEventStale ==
  ASSUME SInv, IInv, IInv', SecondEvent
  PROVE  SInv'
<1> DEFINE o == Other
           t == Ent
<1>1. /\ stack # << >> /\ Last(stack).op = "secondEvent"
      /\ UNCHANGED <<alive, marked, flagged, updateList, ents, nextLink, missed>>
  BY DEF SecondEvent, Top, checks
<1>2. o \in Ents /\ t \in Ents /\ o # t
  BY <1>1, TopFacts DEF IInv
<1>3. /\ Takes({"secondEvent"}) /\ Brings({"stamp"})
      /\ OtherLinked => \A e \in Ents :
           ToSet(list'[e]) = IF e = o THEN ToSet(list[e]) \cup {t} ELSE ToSet(list[e])
      /\ \A e \in Ents : \A u, v : At(list[e], u, v) => At(list'[e], u, v)
  BY SecondEventStack DEF IInv
<1> DEFINE A == /\ stamp' = [stamp EXCEPT ![t][o] = "event", ![o][t] = "fresh"]
                /\ hasRoot' = hasRoot \cup {o}
                /\ \A e \in Ents : ToSet(list'[e]) = IF e = o THEN ToSet(list[e]) \cup {t}
                                                       ELSE ToSet(list[e])
           B == /\ stamp' = [stamp EXCEPT ![t][o] = "event"]
                /\ UNCHANGED <<list, hasRoot>>
<1>4. A \/ B
  BY <1>3 DEF SecondEvent, OtherLinked
<1> HIDE DEF o, t
<1>5. \A e, u \in Ents : stamp'[e][u] = "stale" => stamp[e][u] = "stale"
  <2>1. stamp \in [Ents -> [Ents -> Stamps]] /\ StampsTyped
    BY DEF StampsTyped, IInv
  <2>2. CASE A
    <3>1. stamp' = [stamp EXCEPT ![t] = [stamp[t] EXCEPT ![o] = "event"],
                                 ![o] = [stamp[o] EXCEPT ![t] = "fresh"]]
      BY <1>2, <2>1, <2>2
    <3> QED BY <1>2, <2>1, <3>1
  <2>3. CASE B
    BY <1>2, <2>1, <2>3, StampSet
  <2> QED BY <1>4, <2>2, <2>3
<1>6. WalkAhead' /\ FlaggedListed' /\ StaleChecked'
  BY <1>1, <1>3, <1>5, StampedStale
<1>7. RootedLists'
  <2>1. hasRoot \subseteq hasRoot'
    BY <1>4
  <2>2. \A e \in Ents : \A x : x \in ToSet(list'[e]) => x \in ToSet(list[e]) \/ e \in hasRoot'
    BY <1>3, <1>4
  <2> QED BY <2>1, <2>2, RootedKept DEF IInv
<1> QED BY <1>6, <1>7 DEF SInv

LEMMA StampStale ==
  ASSUME SInv, IInv, IInv', Stamp
  PROVE  SInv'
<1> DEFINE o == Ent
           t == Other
<1>1. /\ stack # << >> /\ Last(stack).op = "stamp" /\ stack' = Front(stack)
      /\ UNCHANGED <<alive, marked, list, hasRoot, flagged, updateList, ents, nextLink, missed>>
      /\ stamp' = [stamp EXCEPT ![o][t] = "event"]
  BY DEF Stamp, Top, checks
<1>2. o \in Ents /\ t \in Ents
  BY <1>1, TopFacts DEF IInv
<1>3. Takes({"stamp"}) /\ Brings({})
  BY <1>1, ReturnStack DEF IInv
<1> HIDE DEF o, t
<1>4. \A e, u \in Ents : stamp'[e][u] = "stale" => stamp[e][u] = "stale"
  BY <1>1, <1>2, StampSet DEF IInv
<1>5. WalkAhead' /\ FlaggedListed' /\ StaleChecked'
  BY <1>1, <1>3, <1>4, StampedStale
<1>6. RootedLists'
  BY <1>1 DEF SInv, RootedLists
<1> QED BY <1>5, <1>6 DEF SInv

\* The removal of the other link is over, that of the own one begins.
LEMMA UntouchStale ==
  ASSUME SInv, IInv, IInv', Untouch
  PROVE  SInv'
<1>1. /\ stack # << >> /\ Last(stack).op = "untouch"
      /\ UNCHANGED <<alive, marked, list, stamp, hasRoot, flagged, updateList, ents, nextLink, missed>>
  BY DEF Untouch, Top, links, checks
<1>2. /\ Takes({"untouch"}) /\ Brings({"unlink"})
      /\ \E f \in Under("unlink")' : f.ent = Ent /\ f.other = Other
  BY UntouchStack DEF IInv
<1>3. Under("walk")' = Under("walk")
  BY <1>2, UnderSame
<1>4. ASSUME NEW g \in Removals
      PROVE  \E h \in Removals' : h.ent = g.ent /\ h.other = g.other
  <2>1. CASE g \in Frames'
    BY <1>4, <2>1 DEF Removals, Under
  <2>2. CASE g \notin Frames'
    <3>1. g \in Frames /\ g.op = "untouch"
      BY <1>2, <1>4, <2>2 DEF Removals, Under, Takes
    <3>2. /\ stack \in Seq(FrameSet) /\ Fits(stack, Len(stack)) /\ Last(stack) = stack[Len(stack)]
          /\ \A i \in 1 .. Len(stack) : Fits(stack, i)
      BY <1>1, TopFacts DEF IInv, StackSound, Shaped
    <3>3. PICK i \in 1 .. Len(stack) : stack[i] = g
      BY <3>1, <3>2, FramesOf
    <3>4. i = 2 /\ Len(stack) = 2
      BY <1>1, <3>1, <3>2, <3>3 DEF Fits
    <3>5. g = Last(stack)
      BY <3>2, <3>3, <3>4
    <3> QED BY <1>2, <3>5 DEF Removals, Ent, Other
  <2> QED BY <2>1, <2>2
<1>5. \A f \in Under("walk") : f.ent \in alive
  BY WalkedAlive DEF IInv
<1>6. WalkAhead' /\ FlaggedListed' /\ StaleChecked'
  BY <1>1, <1>3, <1>4, <1>5, StaleKept DEF IInv, SetsTyped
<1>7. RootedLists'
  BY <1>1 DEF SInv, RootedLists
<1> QED BY <1>6, <1>7 DEF SInv

\* A link goes, and the walk that stood on it moves on.
LEMMA FreedStale ==
  ASSUME SInv, IInv, IInv', stack # << >>, Last(stack).op \in Claims \ {"untouch"},
         FreeTouchLink(Ent, Other), stack' = Front(stack),
         UNCHANGED <<alive, marked, flagged, updateList, ents, missed>>,
         \A e \in hasRoot : e \in hasRoot' \/ list'[e] = << >>
  PROVE  SInv'
<1> DEFINE o == Ent
           t == Other
           top == Last(stack)
<1>1. /\ nextLink' = NextAfter(o, t)
      /\ stamp' = [stamp EXCEPT ![o][t] = "none"]
      /\ top.op \in Claims /\ top.op # "untouch" /\ top.op # "walk"
      /\ top.ent = o /\ top.other = t
  BY DEF FreeTouchLink, Claims, Ent, Other
<1>2. /\ Takes({top.op}) /\ Brings({}) /\ Frames = Frames' \cup {top}
      /\ \A e \in Ents : ToSet(list'[e]) = IF e = o THEN ToSet(list[e]) \ {t} ELSE ToSet(list[e])
      /\ \A e \in Ents : \A u, v :
           At(list[e], u, v) /\ (e = o => u # t /\ v # t) => At(list'[e], u, v)
  BY FreeStack DEF IInv
<1>3. o \in Ents /\ t \in Ents /\ HasLink(o, t)
  BY <1>1, TopFacts DEF IInv
<1> HIDE DEF o, t, top
<1>4. /\ \A e, u \in Ents : stamp'[e][u] = "stale" => stamp[e][u] = "stale"
      /\ stamp'[o][t] = "none"
  <2> DEFINE v == "none"
  <2>1. v # "stale" /\ StampsTyped /\ stamp' = [stamp EXCEPT ![o][t] = v]
    BY <1>1 DEF IInv
  <2> HIDE DEF v
  <2>2. /\ \A e, u \in Ents : stamp'[e][u] = "stale" => stamp[e][u] = "stale"
        /\ stamp'[o][t] = v
    BY <1>3, <2>1, StampSet
  <2> QED BY <2>2 DEF v
<1>5. Under("walk")' = Under("walk")
  BY <1>1, <1>2, UnderSame
<1>6. ASSUME NEW g \in Removals, stamp'[g.ent][g.other] = "stale"
      PROVE  \E h \in Removals' : h.ent = g.ent /\ h.other = g.other
  <2>1. g # top
    BY <1>1, <1>4, <1>6
  <2>2. g \in Frames'
    BY <1>2, <1>6, <2>1 DEF Removals, Under
  <2> QED BY <1>6, <2>2 DEF Removals, Under
<1>7. ASSUME NEW f \in Under("walk")
      PROVE  /\ f.ent \in alive'
             /\ \A v \in Ents :
                  nextLink # ROOT /\ At(list[f.ent], nextLink, v) /\ stamp'[f.ent][v] = "stale" =>
                    nextLink' # ROOT /\ At(list'[f.ent], nextLink', v)
  <2>1. f.ent \in alive'
    BY WalkedAlive DEF IInv
  <2>2. f.ent \in Ents /\ \A g \in Under("walk") : g = f
    BY WalkIsFirst DEF IInv
  <2> SUFFICES ASSUME NEW v \in Ents, nextLink # ROOT, At(list[f.ent], nextLink, v),
                      stamp'[f.ent][v] = "stale"
               PROVE  nextLink' # ROOT /\ At(list'[f.ent], nextLink', v)
    BY <2>1
  <2>3. f.ent = o => v # t
    BY <1>4
  <2>4. CASE nextLink = t /\ f.ent = o
    <3>1. nextLink' = Following(o, t)
      BY <1>1, <2>4 DEF NextAfter
    <3>2. Following(o, t) # ROOT /\ At(list[o], Following(o, t), v)
      BY <1>3, <2>3, <2>4, BehindFollowing DEF IInv
    <3>3. Following(o, t) # t
      BY <1>3, <3>2, FollowingOf DEF IInv
    <3> QED BY <1>2, <1>3, <2>3, <2>4, <3>1, <3>2, <3>3
  <2>5. CASE ~(nextLink = t /\ f.ent = o)
    <3>1. nextLink' = nextLink
      BY <1>1, <2>2, <2>5 DEF NextAfter
    <3> QED BY <1>2, <2>2, <2>3, <2>5, <3>1
  <2> QED BY <2>4, <2>5
<1>8. WalkAhead' /\ FlaggedListed' /\ StaleChecked'
  BY <1>4, <1>5, <1>6, <1>7, StaleKept DEF IInv, SetsTyped
<1>9. RootedLists'
  BY <1>2, RootedKept DEF IInv
<1> QED BY <1>8, <1>9 DEF SInv

LEMMA UnlinkStale ==
  ASSUME SInv, IInv, IInv', Unlink
  PROVE  SInv'
<1>1. /\ stack # << >> /\ Last(stack).op \in Claims \ {"untouch"}
      /\ stack' = Front(stack) /\ FreeTouchLink(Ent, Other)
      /\ UNCHANGED <<alive, marked, flagged, updateList, ents, missed>>
      /\ \A e \in hasRoot : e \in hasRoot' \/ list'[e] = << >>
  BY DEF Unlink, Top, checks, Claims
<1> QED BY <1>1, FreedStale

LEMMA FreeOwnStale ==
  ASSUME SInv, IInv, IInv', FreeOwn
  PROVE  SInv'
<1>1. /\ stack # << >> /\ Last(stack).op \in Claims \ {"untouch"}
      /\ stack' = Front(stack) /\ FreeTouchLink(Ent, Other)
      /\ UNCHANGED <<alive, marked, flagged, updateList, ents, missed>>
      /\ \A e \in hasRoot : e \in hasRoot' \/ list'[e] = << >>
  BY DEF FreeOwn, Top, checks, Claims
<1> QED BY <1>1, FreedStale

\* Who is freed is told of by no frame, and by no walk.
LEMMA PurgeDoneStale ==
  ASSUME SInv, IInv, IInv', PurgeDone
  PROVE  SInv'
<1> DEFINE o == Ent
<1>1. /\ alive' = alive \ {o} /\ marked' = marked \ {o} /\ hasRoot' = hasRoot \ {o}
      /\ flagged' = flagged \ {o} /\ missed' = missed \ {o} /\ list[o] = << >>
      /\ UNCHANGED <<list, stamp, updateList, ents, nextLink>>
  BY DEF PurgeDone
<1>2. Takes({"purge"}) /\ Brings({}) /\ o \in marked
  <2>1. stack # << >> /\ Last(stack).op = "purge"
    BY DEF PurgeDone, Top
  <2> QED BY <2>1, PurgeDoneStack, TopFacts DEF IInv
<1> HIDE DEF o
<1>3. Under("walk")' = Under("walk")
  BY <1>2, UnderSame
<1>4. \A g \in Removals : g \in Removals'
  BY <1>2 DEF Takes, Removals, Under
<1>5. \A f \in Under("walk") : f.ent \in alive'
  BY <1>3 DEF IInv, WalkSafe, SetsTyped
<1>6. WalkAhead' /\ FlaggedListed' /\ StaleChecked'
  BY <1>1, <1>2, <1>3, <1>4, <1>5, StaleKept DEF IInv, SetsTyped
<1>7. RootedLists'
  BY <1>1 DEF SInv, RootedLists
<1> QED BY <1>6, <1>7 DEF SInv

\* The links of who moves are out of date; he is put on the list, or misses a
\* part of the check that is under way.
LEMMA SetCheckUntouchStale ==
  ASSUME SInv, IInv, NEW e \in Ents, SetCheckUntouch(e)
  PROVE  SInv'
<1> USE DEF SInv
<1>1. /\ flagged' = flagged \cup {e} /\ updateList' = Added(e)
      /\ missed' = IF \E f \in Under("walk") : f.ent = e THEN missed \cup {e} ELSE missed \ {e}
      /\ stamp' = [stamp EXCEPT ![e] = [t \in Ents |-> IF @[t] = "fresh" THEN "stale" ELSE @[t]]]
      /\ UNCHANGED <<alive, marked, list, hasRoot, ents, nextLink, stack>>
  BY DEF SetCheckUntouch
<1>2. Under("walk")' = Under("walk") /\ Removals' = Removals
  BY <1>1 DEF Removals, Under, Frames
<1>3. \A x \in Ents : x # e => stamp'[x] = stamp[x]
  BY <1>1 DEF IInv, StampsTyped
<1>4. WalkAhead'
  <2> SUFFICES ASSUME NEW f \in Under("walk"), f.ent \notin missed', NEW t \in Ents,
                      stamp'[f.ent][t] = "stale"
               PROVE  \/ nextLink # ROOT /\ At(list[f.ent], nextLink, t)
                      \/ \E g \in Removals : g.ent = f.ent /\ g.other = t
    BY <1>1, <1>2 DEF WalkAhead
  <2>1. f.ent # e /\ f.ent \in Ents
    BY <1>1, WalkIsFirst DEF IInv
  <2> QED BY <1>1, <1>3, <2>1 DEF WalkAhead
<1>5. updateList \subseteq updateList'
  BY <1>1 DEF Added
<1>6. FlaggedListed'
  <2> SUFFICES ASSUME NEW x \in flagged' \ marked
               PROVE  x \in updateList' \cup ents \/ \E f \in Under("walk") : f.ent = x
    BY <1>1, <1>2 DEF FlaggedListed
  <2>1. CASE x \in flagged
    BY <1>5, <2>1 DEF FlaggedListed
  <2>2. CASE x \notin flagged
    BY <1>1, <2>2 DEF Added
  <2> QED BY <2>1, <2>2
<1>7. StaleChecked'
  <2> SUFFICES ASSUME NEW x \in alive \ marked, NEW t \in Ents, stamp'[x][t] = "stale"
               PROVE  \/ /\ x \in flagged'
                         /\ x \in updateList' \cup ents \/ \E f \in Under("walk") : f.ent = x
                      \/ x \in missed'
    BY <1>1, <1>2 DEF StaleChecked
  <2>1. CASE x = e
    BY <1>1, <1>2, <1>6, <2>1 DEF FlaggedListed
  <2>2. CASE x # e
    <3>1. x \in Ents /\ stamp[x][t] = "stale"
      BY <1>3, <2>2 DEF IInv, SetsTyped
    <3> QED BY <1>1, <1>5, <2>2, <3>1 DEF StaleChecked
  <2> QED BY <2>1, <2>2
<1>8. RootedLists'
  BY <1>1 DEF RootedLists
<1> QED BY <1>4, <1>6, <1>7, <1>8

\* Who is on the list is on its copy.
LEMMA FrameUpdateStale ==
  ASSUME SInv, FrameUpdatePostEntityThink
  PROVE  SInv'
<1> USE DEF SInv
<1>1. /\ ents = {} /\ ents' = updateList /\ updateList' = {}
      /\ UNCHANGED <<alive, marked, list, stamp, hasRoot, flagged, nextLink, stack, missed>>
  BY DEF FrameUpdatePostEntityThink, Idle, links
<1>2. Under("walk")' = Under("walk") /\ Removals' = Removals
  BY <1>1 DEF Removals, Under, Frames
<1>3. WalkAhead' /\ RootedLists'
  BY <1>1, <1>2 DEF WalkAhead, RootedLists
<1>4. FlaggedListed' /\ StaleChecked'
  BY <1>1, <1>2 DEF FlaggedListed, StaleChecked
<1> QED BY <1>3, <1>4

\* What is in a list is at its first link or behind it.
LEMMA BehindHead ==
  ASSUME ListsTyped, NEW o \in Ents, NEW t, HasLink(o, t)
  PROVE  list[o] # << >> /\ Head(list[o]) \in Ents /\ At(list[o], Head(list[o]), t)
<1> DEFINE s == list[o]
           n == Len(s)
<1>1. s \in Seq(Ents) /\ t \in ToSet(s)
  BY DEF ListsTyped, HasLink
<1>2. /\ n \in Nat /\ DOMAIN s = 1 .. n /\ Head(s) = s[1]
      /\ \E i \in 1 .. n : s[i] = t
  BY <1>1, SetOf
<1>3. PICK i \in 1 .. n : s[i] = t
  BY <1>2
<1> HIDE DEF n
<1>4. 1 \in 1 .. n /\ 1 <= i /\ n # 0
  BY <1>2, <1>3
<1>5. s[1] \in Ents /\ s # << >>
  BY <1>1, <1>4 DEF n
<1>6. At(s, s[1], t)
  <2> DEFINE k == 1
  <2>1. k \in DOMAIN s /\ i \in DOMAIN s /\ k <= i
    BY <1>2, <1>3, <1>4
  <2> HIDE DEF k
  <2>2. At(s, s[k], t)
    BY <1>3, <2>1 DEF At
  <2> QED BY <2>2 DEF k
<1> QED BY <1>2, <1>5, <1>6

\* A check begins in front of all links; who has none, or is not flagged, has
\* nothing to check.
LEMMA CheckStale ==
  ASSUME SInv, IInv, IInv', NEW e \in Ents, PhysicsCheckForEntityUntouch(e)
  PROVE  SInv'
<1> USE DEF SInv
<1>1. /\ stack = << >> /\ ents' = ents \ {e}
      /\ UNCHANGED <<alive, marked, list, stamp, hasRoot, updateList, missed>>
  BY DEF PhysicsCheckForEntityUntouch, links
<1>2. Frames = {} /\ Under("walk") = {}
  BY <1>1 DEF Frames, Under, ToSet
<1>3. RootedLists'
  BY <1>1 DEF RootedLists
<1>4. \A x, t \in Ents : stamp[x][t] = "stale" => HasLink(x, t)
  BY DEF IInv, StampsTyped
<1>5. CASE e \in flagged \cap hasRoot
  <2> DEFINE f == Frame("walk", e, e, FALSE)
  <2>1. /\ stack' = <<f>> /\ flagged' = flagged
        /\ nextLink' = IF list[e] = << >> THEN ROOT ELSE Head(list[e])
    BY <1>5 DEF PhysicsCheckForEntityUntouch
  <2>2. f.op = "walk" /\ f.ent = e
    BY DEF Frame
  <2> HIDE DEF f
  <2>3. Frames' = {f}
    BY <2>1 DEF Frames, ToSet
  <2>4. Under("walk")' = {f}
    BY <2>2, <2>3 DEF Under
  <2>5. WalkAhead'
    <3> SUFFICES ASSUME NEW t \in Ents, stamp[e][t] = "stale"
                 PROVE  nextLink' # ROOT /\ At(list[e], nextLink', t)
      BY <1>1, <2>2, <2>4 DEF WalkAhead
    <3>1. list[e] # << >> /\ Head(list[e]) \in Ents /\ At(list[e], Head(list[e]), t)
      BY <1>4, BehindHead DEF IInv
    <3> QED BY <2>1, <3>1
  <2>6. FlaggedListed' /\ StaleChecked'
    BY <1>1, <1>2, <2>1, <2>2, <2>4 DEF FlaggedListed, StaleChecked
  <2> QED BY <1>3, <2>5, <2>6
<1>6. CASE e \notin flagged \cap hasRoot
  <2>1. flagged' = flagged \ {e} /\ UNCHANGED <<stack, nextLink>>
    BY <1>6 DEF PhysicsCheckForEntityUntouch
  <2>2. Under("walk")' = {}
    BY <1>2, <2>1 DEF Under, Frames
  <2>3. WalkAhead'
    BY <2>2 DEF WalkAhead
  <2>4. FlaggedListed'
    BY <1>1, <1>2, <2>1, <2>2 DEF FlaggedListed
  <2>5. StaleChecked'
    <3> SUFFICES ASSUME NEW x \in alive \ marked, NEW t \in Ents, stamp[x][t] = "stale"
                 PROVE  (x \in flagged' /\ x \in updateList' \cup ents') \/ x \in missed'
      BY <1>1, <2>2 DEF StaleChecked
    <3>1. x \in Ents /\ x \in hasRoot
      <4>1. x \in Ents
        BY DEF IInv, SetsTyped
      <4>2. list[x] # << >>
        BY <1>4, <4>1, BehindHead DEF IInv
      <4> QED BY <4>1, <4>2 DEF RootedLists
    <3>2. (x \in flagged /\ x \in updateList \cup ents) \/ x \in missed
      BY <1>2 DEF StaleChecked
    <3> QED BY <1>1, <1>6, <2>1, <3>1, <3>2
  <2> QED BY <1>3, <2>3, <2>4, <2>5
<1> QED BY <1>5, <1>6

\* The link that the walk leaves behind is not out of date, or is going to be
\* removed.
LEMMA WalkLinkStale ==
  ASSUME SInv, IInv, WalkLink
  PROVE  SInv'
<1> USE DEF SInv
<1>1. /\ stack # << >> /\ Last(stack).op = "walk" /\ nextLink' = Following(Ent, nextLink)
      /\ UNCHANGED <<alive, marked, list, stamp, hasRoot, flagged, updateList, ents, missed>>
  BY DEF WalkLink, Top, links, checks
<1>2. /\ HasLink(Ent, nextLink) /\ Takes({}) /\ Brings({"untouch", "notify", "touched"})
      /\ stamp[Ent][nextLink] = "stale" =>
           \E g \in Frames' : g.op = "untouch" /\ g.ent = Ent /\ g.other = nextLink
  BY WalkLinkStack DEF IInv
<1>3. Under("walk")' = Under("walk")
  BY <1>2, UnderSame
<1>4. \A g \in Removals : g \in Removals'
  BY <1>2 DEF Takes, Removals, Under
<1>5. WalkAhead'
  <2> SUFFICES ASSUME NEW f \in Under("walk"), f.ent \notin missed, NEW t \in Ents,
                      stamp[f.ent][t] = "stale"
               PROVE  \/ nextLink' # ROOT /\ At(list[f.ent], nextLink', t)
                      \/ \E g \in Removals' : g.ent = f.ent /\ g.other = t
    BY <1>1, <1>3 DEF WalkAhead
  <2> DEFINE o == Ent
  <2>1. f.ent = o /\ o \in Ents
    BY <1>1, WalkOfTop, TopFacts DEF IInv
  <2>2. HasLink(o, nextLink) /\ nextLink' = Following(o, nextLink)
    BY <1>1, <1>2
  <2>3. stamp[o][nextLink] = "stale" =>
          \E g \in Frames' : g.op = "untouch" /\ g.ent = o /\ g.other = nextLink
    BY <1>2
  <2> HIDE DEF o
  <2>4. CASE t = nextLink
    BY <2>1, <2>3, <2>4 DEF Removals, Under
  <2>5. CASE t # nextLink
    <3>1. \/ At(list[o], nextLink, t)
          \/ \E g \in Removals : g.ent = o /\ g.other = t
      BY <2>1 DEF WalkAhead
    <3> QED BY <1>4, <2>1, <2>2, <2>5, <3>1, BehindFollowing DEF IInv
  <2> QED BY <2>4, <2>5
<1>6. FlaggedListed' /\ StaleChecked'
  BY <1>1, <1>3 DEF FlaggedListed, StaleChecked
<1>7. RootedLists'
  BY <1>1 DEF RootedLists
<1> QED BY <1>5, <1>6, <1>7

\* At the end of a walk nothing is out of date, unless its entity has moved.
LEMMA WalkDoneStale ==
  ASSUME SInv, IInv, WalkDone
  PROVE  SInv'
<1> USE DEF SInv
<1> DEFINE o == Ent
<1>1. /\ stack # << >> /\ Last(stack).op = "walk" /\ nextLink = ROOT
      /\ hasRoot' = IF list[o] = << >> THEN hasRoot \ {o} ELSE hasRoot
      /\ flagged' = flagged \ {o} /\ stack' = Front(stack)
      /\ UNCHANGED <<alive, marked, list, stamp, updateList, ents, missed>>
  BY DEF WalkDone, Top
<1>2. /\ \A f \in Under("walk") : f.ent = o
      /\ Len(stack) = 1 /\ Removals = {}
      /\ Last(stack) \in Under("walk") /\ Last(stack).ent = o
  BY <1>1, WalkOfTop, TopIsFrame DEF IInv
<1>3. Frames' = {}
  <2>1. stack \in Seq(FrameSet)
    BY DEF IInv, StackSound, Shaped
  <2>2. Front(stack) \in Seq(FrameSet) /\ Len(Front(stack)) = Len(stack) - 1
    BY <1>1, <2>1, FrontOf
  <2>3. stack' = << >>
    BY <1>1, <1>2, <2>2, EmptySeq
  <2> QED BY <2>3 DEF Frames, ToSet
<1> HIDE DEF o
<1>4. Under("walk")' = {}
  BY <1>3 DEF Under
<1>5. WalkAhead'
  BY <1>4 DEF WalkAhead
<1>6. RootedLists'
  BY <1>1 DEF RootedLists
<1>7. FlaggedListed'
  BY <1>1, <1>2, <1>4 DEF FlaggedListed
<1>8. StaleChecked'
  <2> SUFFICES ASSUME NEW x \in alive \ marked, NEW t \in Ents, stamp[x][t] = "stale"
               PROVE  (x \in flagged' /\ x \in updateList \cup ents) \/ x \in missed
    BY <1>1, <1>4 DEF StaleChecked
  <2>1. CASE x = o
    BY <1>1, <1>2, <2>1 DEF WalkAhead
  <2>2. CASE x # o
    BY <1>1, <1>2, <2>2 DEF StaleChecked
  <2> QED BY <2>1, <2>2
<1> QED BY <1>5, <1>6, <1>7, <1>8

\* Nobody touches anybody at the beginning.
LEMMA InitStale == Init => SInv
<1> SUFFICES ASSUME Init PROVE SInv
  OBVIOUS
<1>1. /\ \A e \in Ents : list[e] = << >>
      /\ \A e, t \in Ents : stamp[e][t] = "none"
      /\ flagged = {} /\ stack = << >> /\ alive = Ents
  BY DEF Init
<1>2. Frames = {} /\ Under("walk") = {}
  BY <1>1 DEF Frames, Under, ToSet
<1>3. WalkAhead /\ RootedLists /\ FlaggedListed
  BY <1>1, <1>2 DEF WalkAhead, RootedLists, FlaggedListed
<1>4. StaleChecked
  BY <1>1 DEF StaleChecked
<1> QED BY <1>3, <1>4 DEF SInv

\* Every step keeps what is out of date in reach of a check.
LEMMA StepStale ==
  ASSUME SInv, IInv, [Next]_vars
  PROVE  SInv'
<1>0. IInv'
  BY StepSound
<1>1. ASSUME NEW a \in Ents, NEW b \in Ents, PhysicsMarkEntitiesAsTouching(a, b)
      PROVE  SInv'
  <2>1. {a, b} \in Meets \cup Contacts /\ Touches(a, b, "second")
    BY <1>1 DEF PhysicsMarkEntitiesAsTouching
  <2> QED BY <1>0, <2>1, TouchesStale
<1>2. ASSUME NEW a \in Ents, NEW b \in Ents, PhysicsMarkEntitiesAsTouchingEventDriven(a, b)
      PROVE  SInv'
  <2>1. /\ {a, b} \in Meets \cup Contacts /\ Touches(a, b, "secondEvent")
        /\ Reports(a, b)
    BY <1>2 DEF PhysicsMarkEntitiesAsTouchingEventDriven, Reports
  <2> QED BY <1>0, <2>1, TouchesStale
<1>3. ASSUME NEW a \in Ents, NEW b \in Ents, DispatchEndTouch(a, b)
      PROVE  SInv'
  BY <1>0, <1>3, DispatchEndTouchStale
<1>4. ASSUME NEW e \in Ents, \/ SetCheckUntouch(e) \/ PhysicsCheckForEntityUntouch(e)
                             \/ UTIL_Remove(e) \/ UTIL_RemoveImmediate(e) \/ CleanupDeleteList(e)
      PROVE  SInv'
  BY <1>0, <1>4, SetCheckUntouchStale, CheckStale, RemoveStale, RemoveImmediateStale, CleanupStale
<1>5. ASSUME \/ Second \/ SecondEvent \/ Stamp \/ Unlink \/ Notify
      PROVE  SInv'
  BY <1>0, <1>5, SecondStale, SecondEventStale, StampStale, UnlinkStale, NotifyStale
<1>6. ASSUME \/ FrameUpdatePostEntityThink \/ WalkLink \/ Touched \/ Untouch \/ WalkDone
      PROVE  SInv'
  BY <1>0, <1>6, FrameUpdateStale, WalkLinkStale, TouchedStale, UntouchStale, WalkDoneStale
<1>7. ASSUME \/ PurgeLink \/ FreeOwn \/ PurgeDone
      PROVE  SInv'
  BY <1>0, <1>7, PurgeLinkStale, FreeOwnStale, PurgeDoneStale
<1>8. UNCHANGED vars => SInv'
  BY <1>0, StutterStale
<1> QED BY <1>1, <1>2, <1>3, <1>4, <1>5, <1>6, <1>7, <1>8 DEF Next

\* An entity with a link that is out of date is on the update list or its copy,
\* or being checked, whatever its callbacks do: no touch that has ended in the
\* world is left standing, unless the entity moved in the middle of its check.
THEOREM StaleAlwaysChecked == Spec => []StaleChecked
<1>1. Init => IInv /\ SInv
  BY InitSound, InitStale
<1>2. IInv /\ SInv /\ [Next]_vars => IInv' /\ SInv'
  BY StepSound, StepStale
<1>3. SInv => StaleChecked
  BY DEF SInv
<1> QED BY <1>1, <1>2, <1>3, PTL DEF Spec

-----------------------------------------------------------------------------
(* Who was touched is told.                                                *)

\* A frame is going to free the link from a to b.
Loses(a, b) ==
  \E f \in Frames : \/ f.op \in {"untouch", "free", "unlink"} /\ f.ent = a /\ f.other = b
                    \/ f.op = "notify" /\ f.ent = b /\ f.other = a

\* It is a's turn to get a link to b, which has its own one already.
Gains(a, b) ==
  \E f \in Frames : f.op \in {"second", "secondEvent"} /\ f.ent = b /\ f.other = a

\* When the stack is empty again, a is going to have a link to b.
Keeps(a, b) == (HasLink(a, b) \/ Gains(a, b)) /\ ~Loses(a, b)

\* Two entities have a link each, or neither of them has one.
Mutual == \A a, b \in alive : {a, b} \in spoiled \/ (Keeps(a, b) <=> Keeps(b, a))

\* No link of a touch is removed in the middle of it.
HalvesApart ==
  \A a, b \in Ents : Gains(a, b) => {a, b} \in spoiled \/ (~Loses(a, b) /\ ~Loses(b, a))

\* One entity is freed at a time.
OnePurge == \A f, g \in Under("purge") : f.ent = g.ent

TouchersAlive == \A p \in touching : p[1] \in alive

EInv ==
  /\ Mutual /\ HalvesApart
  /\ OnePurge /\ TouchersAlive /\ EndedWhenFreed

\* Frames that have nothing to do with a link being there or not.
Idles == {"stamp", "walk", "touched", "purge"}

\* A frame is one of the links' own or has nothing to do with them.
LEMMA LosesSame ==
  ASSUME NEW X, NEW Y, Takes(X), Brings(Y), X \subseteq Idles, Y \subseteq Idles
  PROVE  /\ \A a, b : Loses(a, b)' <=> Loses(a, b)
         /\ \A a, b : Gains(a, b)' <=> Gains(a, b)
BY DEF Loses, Gains, Takes, Brings, Idles

\* No half of a touch comes or goes.
LEMMA GainsSame ==
  ASSUME NEW X, NEW Y, Takes(X), Brings(Y),
         X \cap {"second", "secondEvent"} = {}, Y \cap {"second", "secondEvent"} = {}
  PROVE  \A a, b : Gains(a, b)' <=> Gains(a, b)
BY DEF Gains, Takes, Brings

\* No frame joins that frees anybody.
LEMMA PurgesKept ==
  ASSUME NEW Y, Brings(Y), "purge" \notin Y, OnePurge
  PROVE  OnePurge'
BY DEF OnePurge, Under, Brings

\* The top is replaced.
LEMMA FramesReplaced ==
  ASSUME stack \in Seq(FrameSet), stack # << >>, NEW f \in FrameSet,
         stack' = Append(Front(stack), f)
  PROVE  Frames \cup {f} = Frames' \cup {Last(stack)} /\ f \in Frames'
<1>1. /\ stack = Append(Front(stack), Last(stack))
      /\ Front(stack) \in Seq(FrameSet) /\ Last(stack) \in FrameSet
  BY TopOf
<1>2. /\ ToSet(Append(Front(stack), Last(stack))) = ToSet(Front(stack)) \cup {Last(stack)}
      /\ ToSet(Append(Front(stack), f)) = ToSet(Front(stack)) \cup {f}
  BY <1>1, SetAppended
<1>3. /\ Frames = ToSet(Append(Front(stack), Last(stack)))
      /\ Frames' = ToSet(Append(Front(stack), f))
  BY <1>1 DEF Frames
<1> QED BY <1>2, <1>3

\* A step after which everybody has the links he was going to have.
LEMMA EndedSame ==
  ASSUME EInv, alive' = alive, spoiled' = spoiled, touching' \subseteq touching,
         NEW Y, Brings(Y), "purge" \notin Y,
         \A a, b : HasLink(a, b)' <=> HasLink(a, b),
         \A a, b : Loses(a, b)' <=> Loses(a, b),
         \A a, b : Gains(a, b)' <=> Gains(a, b)
  PROVE  EInv'
<1>1. OnePurge'
  BY PurgesKept DEF EInv
<1>2. Mutual' /\ HalvesApart'
  BY DEF EInv, Mutual, HalvesApart, Keeps
<1>3. TouchersAlive' /\ EndedWhenFreed'
  BY DEF EInv, TouchersAlive, EndedWhenFreed
<1> QED BY <1>1, <1>2, <1>3 DEF EInv

\* A step that is going to remove the links of two entities to each other.
LEMMA EndedBoth ==
  ASSUME EInv, alive' = alive, spoiled \subseteq spoiled', touching' = touching,
         NEW Y, Brings(Y), "purge" \notin Y, NEW o \in Ents, NEW t \in Ents,
         {o, t} \in spoiled' \/ (~Gains(o, t) /\ ~Gains(t, o)),
         \A a, b : HasLink(a, b)' <=> HasLink(a, b),
         \A a, b : Gains(a, b)' <=> Gains(a, b),
         \A a, b : Loses(a, b)' <=> (Loses(a, b) \/ <<a, b>> \in {<<o, t>>, <<t, o>>})
  PROVE  EInv'
<1>1. OnePurge'
  BY PurgesKept DEF EInv
<1>2. Mutual'
  <2> SUFFICES ASSUME NEW a \in alive, NEW b \in alive, {a, b} \notin spoiled'
               PROVE  Keeps(a, b)' <=> Keeps(b, a)'
    BY DEF Mutual
  <2>1. Keeps(a, b) <=> Keeps(b, a)
    BY DEF EInv, Mutual
  <2>2. <<a, b>> \in {<<o, t>>, <<t, o>>} <=> <<b, a>> \in {<<o, t>>, <<t, o>>}
    OBVIOUS
  <2> QED BY <2>1, <2>2 DEF Keeps
<1>3. HalvesApart'
  <2> SUFFICES ASSUME NEW a \in Ents, NEW b \in Ents, Gains(a, b), {a, b} \notin spoiled'
               PROVE  ~Loses(a, b)' /\ ~Loses(b, a)'
    BY DEF HalvesApart
  <2>1. ~Loses(a, b) /\ ~Loses(b, a)
    BY DEF EInv, HalvesApart
  <2>2. <<a, b>> \notin {<<o, t>>, <<t, o>>}
    <3>1. <<a, b>> \in {<<o, t>>, <<t, o>>} => {a, b} = {o, t}
      OBVIOUS
    <3> QED BY <3>1
  <2>3. <<b, a>> \notin {<<o, t>>, <<t, o>>}
    BY <2>2
  <2> QED BY <2>1, <2>2, <2>3
<1>4. TouchersAlive' /\ EndedWhenFreed'
  BY DEF EInv, TouchersAlive, EndedWhenFreed
<1> QED BY <1>1, <1>2, <1>3, <1>4 DEF EInv

\* A step that removes a link that was going to be removed.
LEMMA EndedLost ==
  ASSUME EInv, alive' = alive, spoiled' = spoiled, touching' = touching,
         NEW Y, Brings(Y), "purge" \notin Y,
         NEW o \in Ents, NEW t \in Ents, Loses(o, t), t \in ToSet(list'[o]) => o \notin alive,
         \A a, b \in Ents : <<a, b>> # <<o, t>> =>
           (HasLink(a, b)' <=> HasLink(a, b)) /\ (Loses(a, b)' <=> Loses(a, b)),
         \A a, b : Gains(a, b)' <=> Gains(a, b), alive \subseteq Ents
  PROVE  EInv'
<1>1. OnePurge'
  BY PurgesKept DEF EInv
<1>2. \A a, b \in alive : {a, b} \notin spoiled => (Keeps(a, b)' <=> Keeps(a, b))
  <2> TAKE a, b \in alive
  <2>1. CASE <<a, b>> # <<o, t>>
    BY <2>1 DEF Keeps
  <2>2. CASE a = o /\ b = t
    <3>1. ~Keeps(a, b)
      BY <2>2 DEF Keeps
    <3>2. {a, b} \notin spoiled => ~Gains(a, b)
      BY <2>2 DEF EInv, HalvesApart
    <3> QED BY <2>2, <3>1, <3>2 DEF Keeps, HasLink
  <2> QED BY <2>1, <2>2
<1>3. Mutual'
  <2> SUFFICES ASSUME NEW a \in alive, NEW b \in alive, {a, b} \notin spoiled
               PROVE  Keeps(a, b)' <=> Keeps(b, a)'
    BY DEF Mutual
  <2>1. (Keeps(a, b) <=> Keeps(b, a)) /\ {b, a} \notin spoiled
    <3>1. {b, a} = {a, b}
      OBVIOUS
    <3> QED BY <3>1 DEF EInv, Mutual
  <2> QED BY <1>2, <2>1
<1>4. HalvesApart'
  <2> SUFFICES ASSUME NEW a \in Ents, NEW b \in Ents, Gains(a, b), {a, b} \notin spoiled
               PROVE  ~Loses(a, b)' /\ ~Loses(b, a)'
    BY DEF HalvesApart
  <2>1. ~Loses(a, b) /\ ~Loses(b, a)
    BY DEF EInv, HalvesApart
  <2> QED BY <2>1
<1>5. TouchersAlive' /\ EndedWhenFreed'
  BY DEF EInv, TouchersAlive, EndedWhenFreed
<1> QED BY <1>1, <1>3, <1>4, <1>5 DEF EInv

\* A frame that removes a link gives way to one that is just removing it.
LEMMA LosesReplaced ==
  ASSUME StackSound, stack # << >>, NEW o \in Ents, NEW t \in Ents, RemoveToucher(o, t),
         \/ Last(stack).op = "untouch" /\ Ent = o /\ Other = t
         \/ Last(stack).op = "notify" /\ Ent = t /\ Other = o
  PROVE  /\ \A a, b : Loses(a, b)' <=> Loses(a, b)
         /\ \A a, b : Gains(a, b)' <=> Gains(a, b)
         /\ Brings({"unlink"}) /\ touching' \subseteq touching
<1> DEFINE f == Frame("unlink", o, t, Ends(o, t))
<1>1. f \in FrameSet /\ f.op = "unlink" /\ f.ent = o /\ f.other = t
  <2>1. Ends(o, t) \in BOOLEAN /\ "unlink" \in Ops
    BY DEF Ends, Starts, Ops
  <2> QED BY <2>1, FrameOf
<1>2. stack' = Append(Front(stack), f) /\ touching' \subseteq touching
  BY DEF RemoveToucher
<1> HIDE DEF f
<1>3. stack \in Seq(FrameSet)
  BY DEF StackSound, Shaped
<1>4. Frames \cup {f} = Frames' \cup {Last(stack)} /\ f \in Frames'
  BY <1>1, <1>2, <1>3, FramesReplaced
<1> DEFINE g == Last(stack)
<1>5. g \in Frames /\ g.ent = Ent /\ g.other = Other
  BY TopIsFrame
<1>6. \/ g.op = "untouch" /\ g.ent = o /\ g.other = t
      \/ g.op = "notify" /\ g.ent = t /\ g.other = o
  BY <1>5
<1>7. Frames \cup {f} = Frames' \cup {g}
  BY <1>4
<1> HIDE DEF g
<1>8. \A a, b : Loses(a, b)' => Loses(a, b)
  BY <1>1, <1>5, <1>6, <1>7 DEF Loses
<1>9. \A a, b : Loses(a, b) => Loses(a, b)'
  BY <1>1, <1>4, <1>6, <1>7 DEF Loses
<1>10. \A a, b : Gains(a, b)' <=> Gains(a, b)
  BY <1>1, <1>6, <1>7 DEF Gains
<1>11. Brings({"unlink"})
  BY <1>1, <1>5, <1>7 DEF Brings
<1> QED BY <1>2, <1>8, <1>9, <1>10, <1>11

\* The own link, after the other one.
LEMMA UntouchEnded ==
  ASSUME EInv, IInv, Untouch
  PROVE  EInv'
<1> DEFINE o == Ent
           t == Other
<1>1. /\ stack # << >> /\ Last(stack).op = "untouch" /\ RemoveToucher(o, t)
      /\ alive' = alive /\ marked' = marked /\ list' = list /\ spoiled' = spoiled
  BY DEF Untouch, Top, links
<1>2. o \in Ents /\ t \in Ents /\ StackSound
  BY <1>1, TopFacts DEF IInv
<1>3. Ent = o /\ Other = t
  OBVIOUS
<1> HIDE DEF o, t
<1>4. /\ \A a, b : Loses(a, b)' <=> Loses(a, b)
      /\ \A a, b : Gains(a, b)' <=> Gains(a, b)
      /\ Brings({"unlink"}) /\ touching' \subseteq touching
  BY <1>1, <1>2, <1>3, LosesReplaced
<1>5. \A a, b : HasLink(a, b)' <=> HasLink(a, b)
  BY <1>1 DEF HasLink
<1> QED BY <1>1, <1>4, <1>5, EndedSame

\* The top is returned from: what it would have removed is not going to be removed.
LEMMA LosesReturned ==
  ASSUME StackSound, stack # << >>, stack' = Front(stack), NEW o, NEW t,
         \/ Last(stack).op \in {"unlink", "free"} /\ Ent = o /\ Other = t
         \/ Last(stack).op = "notify" /\ Ent = t /\ Other = o
  PROVE  /\ Loses(o, t)
         /\ \A a, b : <<a, b>> # <<o, t>> => (Loses(a, b)' <=> Loses(a, b))
         /\ \A a, b : Gains(a, b)' <=> Gains(a, b)
         /\ Brings({})
<1> DEFINE g == Last(stack)
<1>1. g \in Frames /\ g.ent = Ent /\ g.other = Other
  BY TopIsFrame
<1>2. \/ g.op \in {"unlink", "free"} /\ g.ent = o /\ g.other = t
      \/ g.op = "notify" /\ g.ent = t /\ g.other = o
  BY <1>1
<1>3. Frames = Frames' \cup {g} /\ Brings({})
  BY Returned DEF StackSound, Shaped
<1> HIDE DEF g
<1>4. Loses(o, t)
  BY <1>1, <1>2 DEF Loses
<1>5. \A a, b : <<a, b>> # <<o, t>> => (Loses(a, b)' <=> Loses(a, b))
  BY <1>2, <1>3 DEF Loses
<1>6. \A a, b : Gains(a, b)' <=> Gains(a, b)
  BY <1>2, <1>3 DEF Gains
<1> QED BY <1>3, <1>4, <1>5, <1>6

\* The other one's link, if he has one.
LEMMA NotifyEnded ==
  ASSUME EInv, IInv, Notify
  PROVE  EInv'
<1> DEFINE o == Other
           t == Ent
<1>1. /\ stack # << >> /\ Last(stack).op = "notify"
      /\ alive' = alive /\ marked' = marked /\ list' = list /\ spoiled' = spoiled
  BY DEF Notify, Top, links
<1>2. o \in Ents /\ t \in Ents /\ StackSound /\ alive \subseteq Ents
  BY <1>1, TopFacts DEF IInv, SetsTyped
<1>3. Ent = t /\ Other = o
  OBVIOUS
<1>4. \/ Resolves(o) /\ HasLink(o, t) /\ RemoveToucher(o, t)
      \/ ~(Resolves(o) /\ HasLink(o, t)) /\ stack' = Front(stack) /\ touching' = touching
  BY DEF Notify
<1> HIDE DEF o, t
<1>5. \A a, b : HasLink(a, b)' <=> HasLink(a, b)
  BY <1>1 DEF HasLink
<1>6. CASE RemoveToucher(o, t)
  <2>1. /\ \A a, b : Loses(a, b)' <=> Loses(a, b)
        /\ \A a, b : Gains(a, b)' <=> Gains(a, b)
        /\ Brings({"unlink"}) /\ touching' \subseteq touching
    BY <1>1, <1>2, <1>3, <1>6, LosesReplaced
  <2> QED BY <1>1, <1>5, <2>1, EndedSame
<1>7. CASE ~(Resolves(o) /\ HasLink(o, t)) /\ stack' = Front(stack) /\ touching' = touching
  <2>1. /\ Loses(o, t)
        /\ \A a, b : <<a, b>> # <<o, t>> => (Loses(a, b)' <=> Loses(a, b))
        /\ \A a, b : Gains(a, b)' <=> Gains(a, b)
        /\ Brings({})
    BY <1>1, <1>2, <1>3, <1>7, LosesReturned
  <2>2. t \in ToSet(list'[o]) => o \notin alive
    BY <1>1, <1>7 DEF Resolves, HasLink
  <2> QED BY <1>1, <1>2, <1>5, <1>7, <2>1, <2>2, EndedLost
<1> QED BY <1>4, <1>6, <1>7

\* A link goes together with the frame that frees it.
LEMMA FreedEnded ==
  ASSUME EInv, IInv, stack # << >>, Last(stack).op \in {"unlink", "free"},
         FreeTouchLink(Ent, Other), stack' = Front(stack),
         UNCHANGED <<alive, marked, touching, spoiled>>
  PROVE  EInv'
<1> DEFINE o == Ent
           t == Other
<1>1. o \in Ents /\ t \in Ents /\ StackSound /\ alive \subseteq Ents
  BY TopFacts DEF IInv, SetsTyped
<1>2. \A e \in Ents : ToSet(list'[e]) = IF e = o THEN ToSet(list[e]) \ {t} ELSE ToSet(list[e])
  <2>1. Last(stack).op \in Claims
    BY DEF Claims
  <2> QED BY <2>1, FreeStack DEF IInv
<1>3. Ent = o /\ Other = t
  OBVIOUS
<1> HIDE DEF o, t
<1>4. /\ Loses(o, t)
      /\ \A a, b : <<a, b>> # <<o, t>> => (Loses(a, b)' <=> Loses(a, b))
      /\ \A a, b : Gains(a, b)' <=> Gains(a, b)
      /\ Brings({})
  BY <1>1, <1>3, LosesReturned
<1>5. /\ t \notin ToSet(list'[o])
      /\ \A a, b \in Ents : <<a, b>> # <<o, t>> => (HasLink(a, b)' <=> HasLink(a, b))
  BY <1>1, <1>2 DEF HasLink
<1> QED BY <1>1, <1>4, <1>5, EndedLost

LEMMA UnlinkEnded ==
  ASSUME EInv, IInv, Unlink
  PROVE  EInv'
<1>1. /\ stack # << >> /\ Last(stack).op = "unlink" /\ FreeTouchLink(Ent, Other)
      /\ stack' = Front(stack) /\ UNCHANGED <<alive, marked, touching, spoiled>>
  BY DEF Unlink, Top
<1> QED BY <1>1, FreedEnded

LEMMA FreeOwnEnded ==
  ASSUME EInv, IInv, FreeOwn
  PROVE  EInv'
<1>1. /\ stack # << >> /\ Last(stack).op = "free" /\ FreeTouchLink(Ent, Other)
      /\ stack' = Front(stack) /\ UNCHANGED <<alive, marked, touching, spoiled>>
  BY DEF FreeOwn, Top
<1> QED BY <1>1, FreedEnded

\* Steps that neither make nor remove a link.
LEMMA EndedQuiet ==
  ASSUME EInv, NEW X, NEW Y, Takes(X), Brings(Y), X \subseteq Idles, Y \subseteq Idles \ {"purge"},
         UNCHANGED <<alive, marked, list, spoiled, touching>>
  PROVE  EInv'
<1>1. \A a, b : HasLink(a, b)' <=> HasLink(a, b)
  BY DEF HasLink
<1>2. /\ \A a, b : Loses(a, b)' <=> Loses(a, b)
      /\ \A a, b : Gains(a, b)' <=> Gains(a, b)
  BY LosesSame
<1>3. "purge" \notin Y /\ touching' \subseteq touching
  OBVIOUS
<1> QED BY <1>1, <1>2, <1>3, EndedSame

\* The stack stays as it is.
LEMMA StayedEnded ==
  ASSUME EInv, UNCHANGED <<alive, marked, list, stack, spoiled, touching>>
  PROVE  EInv'
<1>1. Takes({}) /\ Brings({})
  BY DEF Takes, Brings, Frames
<1> QED BY <1>1, EndedQuiet

LEMMA SetCheckUntouchEnded ==
  ASSUME EInv, NEW e, SetCheckUntouch(e)
  PROVE  EInv'
BY StayedEnded DEF SetCheckUntouch

LEMMA FrameUpdateEnded ==
  ASSUME EInv, FrameUpdatePostEntityThink
  PROVE  EInv'
BY StayedEnded DEF FrameUpdatePostEntityThink, links

LEMMA StutterEnded ==
  ASSUME EInv, UNCHANGED vars
  PROVE  EInv'
BY StayedEnded DEF vars, links

LEMMA CheckEnded ==
  ASSUME EInv, IInv, NEW e \in Ents, PhysicsCheckForEntityUntouch(e)
  PROVE  EInv'
<1>1. Takes({}) /\ Brings({"walk"})
  BY CheckStack DEF IInv, SetsTyped
<1>2. UNCHANGED <<alive, marked, list, spoiled, touching>>
  BY DEF PhysicsCheckForEntityUntouch, links
<1> QED BY <1>1, <1>2, EndedQuiet DEF Idles

\* The top is a frame that has to do with no link, and it is returned from.
LEMMA ReturnEnded ==
  ASSUME EInv, IInv, stack # << >>, stack' = Front(stack),
         Last(stack).op \in {"stamp", "walk", "touched"},
         UNCHANGED <<alive, marked, list, spoiled, touching>>
  PROVE  EInv'
<1>1. Takes({Last(stack).op}) /\ Brings({})
  BY Returned DEF IInv, StackSound, Shaped
<1>2. {Last(stack).op} \subseteq Idles
  BY DEF Idles
<1> QED BY <1>1, <1>2, EndedQuiet

LEMMA TouchedEnded ==
  ASSUME EInv, IInv, Touched
  PROVE  EInv'
BY ReturnEnded DEF Touched, Top, links

LEMMA StampEnded ==
  ASSUME EInv, IInv, Stamp
  PROVE  EInv'
BY ReturnEnded DEF Stamp, Top

LEMMA WalkDoneEnded ==
  ASSUME EInv, IInv, WalkDone
  PROVE  EInv'
BY ReturnEnded DEF WalkDone, Top

\* Two frames join the stack.
LEMMA TwoJoin ==
  ASSUME NEW S \in Seq(FrameSet), NEW f \in FrameSet, NEW g \in FrameSet
  PROVE  ToSet(S \o <<f, g>>) = ToSet(S) \cup {f, g}
<1>1. S \o <<f, g>> = Append(Append(S, f), g) /\ Append(S, f) \in Seq(FrameSet)
  BY PushedTwo
<1>2. /\ ToSet(Append(S, f)) = ToSet(S) \cup {f}
      /\ ToSet(Append(Append(S, f), g)) = ToSet(Append(S, f)) \cup {g}
  BY <1>1, SetAppended
<1> QED BY <1>1, <1>2

\* Who is purged is named by no frame but the purge.
LEMMA PurgedUnnamed ==
  ASSUME StackSound, stack # << >>, Last(stack).op = "purge"
  PROVE  \A f \in Frames : f = Last(stack) \/ Ent \notin {f.ent, f.other}
<1>1. /\ Len(stack) \in Nat /\ stack \in Seq(FrameSet) /\ Last(stack) = stack[Len(stack)]
      /\ \A j \in 1 .. Len(stack) - 1 : Ent \notin {stack[j].ent, stack[j].other}
  BY TopFacts
<1>2. \A i \in 1 .. Len(stack) : i = Len(stack) \/ i \in 1 .. Len(stack) - 1
  BY <1>1
<1> QED BY <1>1, <1>2, FramesOf

\* Both links are going to be removed: the own one by f, after the other one by g.
LEMMA TwoEnded ==
  ASSUME EInv, IInv, NEW o \in Ents, NEW t \in Ents,
         NEW f \in FrameSet, f.op \in {"untouch", "free", "notify"},
         f.op = "notify" => f.ent = t /\ f.other = o,
         f.op # "notify" => f.ent = o /\ f.other = t,
         NEW g \in FrameSet, g.op = "notify", g.ent = o, g.other = t,
         Frames' = Frames \cup {f, g}, spoiled \subseteq spoiled',
         {o, t} \in spoiled' \/ (~Gains(o, t) /\ ~Gains(t, o)),
         UNCHANGED <<alive, list, touching>>
  PROVE  EInv'
<1>1. Brings({"untouch", "free", "notify"})
  BY DEF Brings
<1>2. \A a, b : Gains(a, b)' <=> Gains(a, b)
  BY DEF Gains
<1>3. \A a, b : Loses(a, b)' <=> (Loses(a, b) \/ <<a, b>> \in {<<o, t>>, <<t, o>>})
  <2>1. CASE f.op = "notify"
    BY <2>1 DEF Loses
  <2>2. CASE f.op \in {"untouch", "free"}
    BY <2>2 DEF Loses
  <2> QED BY <2>1, <2>2
<1>4. \A a, b : HasLink(a, b)' <=> HasLink(a, b)
  BY DEF HasLink
<1> QED BY <1>1, <1>2, <1>3, <1>4, EndedBoth

LEMMA WalkLinkEnded ==
  ASSUME EInv, IInv, WalkLink
  PROVE  EInv'
<1> DEFINE o == Ent
           t == nextLink
<1>1. /\ stack # << >> /\ Last(stack).op = "walk" /\ nextLink # ROOT
      /\ UNCHANGED <<alive, marked, list, spoiled, touching>>
  BY DEF WalkLink, Top, links
<1>2. o \in Ents /\ t \in Ents /\ stack \in Seq(FrameSet)
  <2>1. o \in Ents /\ stack \in Seq(FrameSet)
    BY <1>1, TopFacts DEF IInv
  <2>2. list[o] \in Seq(Ents)
    BY <2>1 DEF IInv, ListsTyped
  <2>3. HasLink(o, t)
    BY WalkLinkStack DEF IInv
  <2> QED BY <2>1, <2>2, <2>3, SetOf DEF HasLink
<1>3. CASE stack' = stack \o <<Frame("untouch", o, t, FALSE), Frame("notify", o, t, FALSE)>>
  <2> DEFINE f == Frame("untouch", o, t, FALSE)
             g == Frame("notify", o, t, FALSE)
  <2>1. f \in FrameSet /\ g \in FrameSet
    <3>1. "untouch" \in Ops /\ "notify" \in Ops
      BY DEF Ops
    <3> QED BY <1>2, <3>1, QuietFrameOf, Zenon
  <2>2. /\ f.op = "untouch" /\ f.ent = o /\ f.other = t
        /\ g.op = "notify" /\ g.ent = o /\ g.other = t
    BY DEF Frame
  <2>3. stack' = stack \o <<f, g>>
    BY <1>3
  <2> HIDE DEF f, g
  <2>4. Frames' = Frames \cup {f, g}
    BY <1>2, <2>1, <2>3, TwoJoin DEF Frames
  <2>5. ~Gains(o, t) /\ ~Gains(t, o)
    <3>1. \A h \in Frames : h.op = "walk"
      <4>1. Len(stack) = 1 /\ Last(stack) = stack[1]
        BY <1>1, TopFacts DEF IInv, Fits
      <4>2. \A i \in 1 .. Len(stack) : stack[i].op = "walk"
        BY <1>1, <4>1
      <4> QED BY <1>2, <4>2, FramesOf
    <3> QED BY <3>1 DEF Gains
  <2> HIDE DEF o, t
  <2> QED BY <1>1, <1>2, <2>1, <2>2, <2>4, <2>5, TwoEnded
<1>4. CASE stack' = Append(stack, Frame("touched", o, t, TRUE))
  <2> DEFINE f == Frame("touched", o, t, TRUE)
  <2>1. f \in FrameSet /\ f.op = "touched"
    <3>1. "touched" \in Ops
      BY DEF Ops
    <3> QED BY <1>2, <3>1 DEF Frame, FrameSet
  <2>2. stack' = Append(stack, f)
    BY <1>4
  <2> HIDE DEF f
  <2>3. Takes({}) /\ Brings({"touched"})
    BY <1>2, <2>1, <2>2, FramesMoved
  <2> QED BY <1>1, <2>3, EndedQuiet DEF Idles
<1>5. CASE stack' = stack
  BY <1>1, <1>5, StayedEnded
<1> QED BY <1>3, <1>4, <1>5 DEF WalkLink

LEMMA PurgeLinkEnded ==
  ASSUME EInv, IInv, PurgeLink
  PROVE  EInv'
<1> DEFINE o == Ent
           t == Head(list[o])
           f == Frame("free", o, t, FALSE)
           g == Frame("notify", o, t, FALSE)
<1>1. /\ stack # << >> /\ Last(stack).op = "purge" /\ list[o] # << >>
      /\ UNCHANGED <<alive, marked, list, spoiled, touching>>
      /\ stack' = stack \o <<f, g>>
  BY DEF PurgeLink, Top, links
<1>2. o \in Ents /\ t \in Ents /\ stack \in Seq(FrameSet)
  <2>1. o \in Ents /\ stack \in Seq(FrameSet)
    BY <1>1, TopFacts DEF IInv
  <2>2. list[o] \in Seq(Ents)
    BY <2>1 DEF IInv, ListsTyped
  <2> QED BY <1>1, <2>1, <2>2
<1>3. f \in FrameSet /\ g \in FrameSet
  <2>1. "free" \in Ops /\ "notify" \in Ops
    BY DEF Ops
  <2> QED BY <1>2, <2>1, QuietFrameOf, Zenon
<1>4. /\ f.op = "free" /\ f.ent = o /\ f.other = t
      /\ g.op = "notify" /\ g.ent = o /\ g.other = t
  BY DEF Frame
<1> HIDE DEF f, g
<1>5. Frames' = Frames \cup {f, g}
  BY <1>1, <1>2, <1>3, TwoJoin DEF Frames
<1>6. ~Gains(o, t) /\ ~Gains(t, o)
  <2>1. \A h \in Frames : h.op = "purge" \/ o \notin {h.ent, h.other}
    BY <1>1, PurgedUnnamed DEF IInv
  <2> QED BY <2>1 DEF Gains
<1> HIDE DEF o, t
<1> QED BY <1>1, <1>2, <1>3, <1>4, <1>5, <1>6, TwoEnded

LEMMA DispatchEndTouchEnded ==
  ASSUME EInv, IInv, NEW a \in Ents, NEW b \in Ents, DispatchEndTouch(a, b)
  PROVE  EInv'
<1> DEFINE f == Frame("notify", b, a, FALSE)
           g == Frame("notify", a, b, FALSE)
<1>1. /\ stack' = stack \o <<f, g>> /\ Reports(a, b)
      /\ spoiled' = IF InTheMiddle({"second"}, a, b) THEN spoiled \cup {{a, b}} ELSE spoiled
      /\ UNCHANGED <<alive, list, touching>>
  BY DEF DispatchEndTouch, links
<1>2. f \in FrameSet /\ g \in FrameSet
  <2>1. "notify" \in Ops
    BY DEF Ops
  <2> QED BY <2>1, QuietFrameOf, Zenon
<1>3. /\ f.op = "notify" /\ f.ent = b /\ f.other = a
      /\ g.op = "notify" /\ g.ent = a /\ g.other = b
  BY DEF Frame
<1> HIDE DEF f, g
<1>4. Frames' = Frames \cup {f, g}
  <2>1. stack \in Seq(FrameSet)
    BY DEF IInv, StackSound, Shaped
  <2> QED BY <1>1, <1>2, <2>1, TwoJoin DEF Frames
<1>5. {a, b} \in spoiled' \/ (~Gains(a, b) /\ ~Gains(b, a))
  <2>1. ASSUME NEW h \in Frames, h.op \in {"second", "secondEvent"}, {h.ent, h.other} = {a, b}
        PROVE  {a, b} \in spoiled'
    BY <1>1, <2>1 DEF Reports, InTheMiddle
  <2>2. \A h \in Frames : \/ h.ent = b /\ h.other = a
                          \/ h.ent = a /\ h.other = b
                          => {h.ent, h.other} = {a, b}
    OBVIOUS
  <2> QED BY <2>1, <2>2 DEF Gains
<1>6. spoiled \subseteq spoiled'
  BY <1>1
<1> QED BY <1>1, <1>2, <1>3, <1>4, <1>5, <1>6, TwoEnded

\* A link that is freed by a purge is one of an entity that is being removed.
LEMMA FreesMarked ==
  ASSUME StackSound
  PROVE  \A f \in Under("free") : f.ent \in marked
<1> SUFFICES ASSUME NEW f \in Under("free") PROVE f.ent \in marked
  OBVIOUS
<1>1. stack \in Seq(FrameSet) /\ Len(stack) \in Nat
  BY DEF StackSound, Shaped
<1>2. PICK i \in 1 .. Len(stack) : stack[i] = f /\ f.op = "free"
  BY <1>1, FramesOf
<1>3. i > 1 /\ stack[i - 1].op = "purge" /\ stack[i - 1].ent = f.ent
  BY <1>2 DEF StackSound, Shaped, Fits
<1>4. i - 1 \in 1 .. Len(stack)
  BY <1>1, <1>2, <1>3
<1> QED BY <1>3, <1>4 DEF StackSound, Present

\* The first half of a touch.
LEMMA TouchesEnded ==
  ASSUME EInv, IInv, NEW a \in Ents, NEW b \in Ents, {a, b} \in Meets \cup Contacts, NEW second,
         second = "second" \/ (second = "secondEvent" /\ Reports(a, b)),
         Touches(a, b, second)
  PROVE  EInv'
<1> DEFINE f == Frame(second, a, b, CallsBack(a, b))
<1>1. /\ a \in alive /\ b \in alive /\ a # b /\ MarkAsTouched(a, b) /\ Allowed(a, b)
      /\ stack' = Append(stack, f) /\ spoiled' = spoiled \cup Retouch(a, b)
      /\ UNCHANGED <<alive, marked>>
  BY PairsOf DEF Touches
<1>2. f \in FrameSet /\ f.op = second /\ f.ent = a /\ f.other = b
  <2>1. CallsBack(a, b) \in BOOLEAN /\ second \in Ops
    BY DEF CallsBack, HasLink, Starts, Ops
  <2> QED BY <2>1, FrameOf
<1> HIDE DEF f
<1>3. Frames' = Frames \cup {f} /\ Brings({second}) /\ "purge" \notin {second}
  <2>1. stack \in Seq(FrameSet)
    BY DEF IInv, StackSound, Shaped
  <2> QED BY <1>1, <1>2, <2>1, FramesMoved
<1>4. \A x, y \in Ents : HasLink(x, y)' <=> (HasLink(x, y) \/ <<x, y>> = <<a, b>>)
  <2>1. \A e \in Ents : ToSet(list'[e]) = IF e = a THEN ToSet(list[e]) \cup {b}
                                            ELSE ToSet(list[e])
    BY <1>1, MarkedLists DEF IInv
  <2> QED BY <2>1 DEF HasLink
<1>5. /\ \A x, y : Loses(x, y)' <=> Loses(x, y)
      /\ \A x, y : Gains(x, y)' <=> (Gains(x, y) \/ <<x, y>> = <<b, a>>)
  BY <1>2, <1>3 DEF Loses, Gains
<1>6. {a, b} \notin spoiled' => ~Loses(a, b) /\ ~Loses(b, a)
  <2> SUFFICES ASSUME {a, b} \notin spoiled' PROVE ~Loses(a, b) /\ ~Loses(b, a)
    OBVIOUS
  <2>1. \A h \in Frames : h.op \in {"unlink", "untouch", "notify"} => {h.ent, h.other} # {a, b}
    BY <1>1 DEF Retouch, InTheMiddle
  <2>2. \A h \in Frames : h.op = "free" => h.ent \notin {a, b}
    BY <1>1, FreesMarked DEF IInv, Allowed, Under
  <2> QED BY <2>1, <2>2 DEF Loses
<1>7. OnePurge'
  BY <1>3, PurgesKept DEF EInv
<1>8. Mutual'
  <2> SUFFICES ASSUME NEW x \in alive, NEW y \in alive, {x, y} \notin spoiled'
               PROVE  Keeps(x, y)' <=> Keeps(y, x)'
    BY <1>1 DEF Mutual
  <2>1. x \in Ents /\ y \in Ents
    BY DEF IInv, SetsTyped
  <2>2. CASE <<x, y>> \in {<<a, b>>, <<b, a>>}
    <3>1. {a, b} = {x, y}
      BY <2>2
    <3>2. Keeps(a, b)' /\ Keeps(b, a)'
      BY <1>4, <1>5, <1>6, <3>1 DEF Keeps
    <3> QED BY <2>2, <3>2
  <2>3. CASE <<x, y>> \notin {<<a, b>>, <<b, a>>}
    <3>1. Keeps(x, y) <=> Keeps(y, x)
      BY <1>1 DEF EInv, Mutual
    <3>2. <<y, x>> \notin {<<a, b>>, <<b, a>>}
      BY <2>3
    <3> QED BY <1>4, <1>5, <2>1, <2>3, <3>1, <3>2 DEF Keeps
  <2> QED BY <2>2, <2>3
<1>9. HalvesApart'
  <2> SUFFICES ASSUME NEW x \in Ents, NEW y \in Ents, Gains(x, y)', {x, y} \notin spoiled'
               PROVE  ~Loses(x, y) /\ ~Loses(y, x)
    BY <1>5 DEF HalvesApart
  <2>1. CASE Gains(x, y)
    BY <1>1, <2>1 DEF EInv, HalvesApart
  <2>2. CASE <<x, y>> = <<b, a>>
    <3>1. {x, y} = {a, b}
      BY <2>2
    <3> QED BY <1>6, <2>2, <3>1
  <2> QED BY <1>5, <2>1, <2>2
<1>10. TouchersAlive' /\ EndedWhenFreed'
  <2>1. touching' \subseteq touching \cup {<<a, b>>}
    BY <1>1 DEF MarkAsTouched
  <2> QED BY <1>1, <2>1 DEF EInv, TouchersAlive, EndedWhenFreed
<1> QED BY <1>7, <1>8, <1>9, <1>10 DEF EInv

\* The other entity gets its link, or the touch is spoiled.
LEMMA EndedSecond ==
  ASSUME EInv, alive' = alive, spoiled \subseteq spoiled', alive \subseteq Ents,
         NEW Y, Brings(Y), "purge" \notin Y,
         NEW o \in alive, NEW t \in alive, Gains(o, t),
         touching' \subseteq touching \cup {<<o, t>>},
         \A a, b \in Ents : <<a, b>> # <<o, t>> => (HasLink(a, b)' <=> HasLink(a, b)),
         t \in ToSet(list'[o]) \/ {o, t} \in spoiled',
         \A a, b : Loses(a, b)' <=> Loses(a, b),
         \A a, b : Gains(a, b)' => Gains(a, b),
         \A a, b : Gains(a, b) => Gains(a, b)' \/ <<a, b>> = <<o, t>>
  PROVE  EInv'
<1>1. OnePurge'
  BY PurgesKept DEF EInv
<1>3. \A a, b \in alive : {a, b} \notin spoiled' => (Keeps(a, b)' <=> Keeps(a, b))
  <2> TAKE a, b \in alive
  <2>1. CASE <<a, b>> # <<o, t>>
    BY <2>1 DEF Keeps
  <2>2. CASE a = o /\ b = t
    BY <2>2 DEF Keeps, HasLink
  <2> QED BY <2>1, <2>2
<1>4. Mutual'
  <2> SUFFICES ASSUME NEW a \in alive, NEW b \in alive, {a, b} \notin spoiled'
               PROVE  Keeps(a, b)' <=> Keeps(b, a)'
    BY DEF Mutual
  <2>1. (Keeps(a, b) <=> Keeps(b, a)) /\ {b, a} \notin spoiled'
    <3>1. {b, a} = {a, b}
      OBVIOUS
    <3> QED BY <3>1 DEF EInv, Mutual
  <2> QED BY <1>3, <2>1
<1>5. HalvesApart'
  BY DEF EInv, HalvesApart
<1>6. TouchersAlive' /\ EndedWhenFreed'
  BY DEF EInv, TouchersAlive, EndedWhenFreed
<1> QED BY <1>1, <1>4, <1>5, <1>6 DEF EInv

LEMMA SecondEnded ==
  ASSUME EInv, IInv, Second
  PROVE  EInv'
<1> DEFINE o == Other
           t == Ent
           g == Last(stack)
<1>1. /\ stack # << >> /\ Last(stack).op = "second" /\ stack' = Front(stack)
      /\ \/ MarkAsTouched(o, t)
         \/ list' = list /\ touching' = touching /\ {o, t} \in spoiled'
      /\ alive' = alive /\ spoiled \subseteq spoiled'
  BY DEF Second, Top, links
<1>2. /\ o \in Ents /\ t \in Ents /\ o # t /\ o \in alive /\ t \in alive /\ alive \subseteq Ents
      /\ ListsTyped
  BY <1>1, TopFacts DEF IInv, SetsTyped
<1>3. g \in Frames /\ g.ent = t /\ g.other = o /\ g.op = "second"
  BY <1>1, TopIsFrame DEF IInv
<1>4. Frames = Frames' \cup {g} /\ Brings({})
  BY <1>1, Returned DEF IInv, StackSound, Shaped
<1> HIDE DEF o, t, g
<1>5. /\ Gains(o, t)
      /\ \A a, b : Loses(a, b)' <=> Loses(a, b)
      /\ \A a, b : Gains(a, b)' => Gains(a, b)
      /\ \A a, b : Gains(a, b) => Gains(a, b)' \/ <<a, b>> = <<o, t>>
  BY <1>3, <1>4 DEF Gains, Loses
<1>6. /\ \A a, b \in Ents : <<a, b>> # <<o, t>> => (HasLink(a, b)' <=> HasLink(a, b))
      /\ t \in ToSet(list'[o]) \/ {o, t} \in spoiled'
      /\ touching' \subseteq touching \cup {<<o, t>>}
  <2>1. CASE MarkAsTouched(o, t)
    <3>1. \A e \in Ents : ToSet(list'[e]) = IF e = o THEN ToSet(list[e]) \cup {t}
                                              ELSE ToSet(list[e])
      BY <1>2, <2>1, MarkedLists
    <3> QED BY <1>2, <2>1, <3>1 DEF HasLink, MarkAsTouched
  <2>2. CASE list' = list /\ touching' = touching /\ {o, t} \in spoiled'
    BY <2>2 DEF HasLink
  <2> QED BY <1>1, <2>1, <2>2
<1> QED BY <1>1, <1>2, <1>4, <1>5, <1>6, EndedSecond

LEMMA SecondEventEnded ==
  ASSUME EInv, IInv, SecondEvent
  PROVE  EInv'
<1> DEFINE o == Other
           t == Ent
           g == Last(stack)
<1>1. /\ stack # << >> /\ Last(stack).op = "secondEvent"
      /\ alive' = alive /\ spoiled \subseteq spoiled'
      /\ touching' \subseteq touching \cup {<<o, t>>}
      /\ OtherLinked \/ (list' = list /\ {o, t} \in spoiled')
  BY DEF SecondEvent, Top, OtherLinked
<1>2. /\ o \in Ents /\ t \in Ents /\ o # t /\ o \in alive /\ t \in alive /\ alive \subseteq Ents
      /\ ListsTyped
  BY <1>1, TopFacts DEF IInv, SetsTyped
<1>3. g \in Frames /\ g.ent = t /\ g.other = o /\ g.op = "secondEvent"
  BY <1>1, TopIsFrame DEF IInv
<1>4. /\ Takes({"secondEvent"}) /\ Brings({"stamp"}) /\ "purge" \notin {"stamp"}
      /\ OtherLinked => \A e \in Ents :
           ToSet(list'[e]) = IF e = o THEN ToSet(list[e]) \cup {t} ELSE ToSet(list[e])
  BY SecondEventStack DEF IInv
<1>5. \A h \in Frames : h \in Frames' \/ h = g
  <2>1. Frames \subseteq Frames' \cup {g}
    <3>1. stack \in Seq(FrameSet)
      BY DEF IInv, StackSound, Shaped
    <3>2. CASE stack' = Front(stack)
      BY <1>1, <3>1, <3>2, Returned
    <3>3. CASE stack' = Append(Front(stack), Frame("stamp", o, t, CallsBack(o, t)))
      <4> DEFINE f == Frame("stamp", o, t, CallsBack(o, t))
      <4>1. f \in FrameSet
        <5>1. CallsBack(o, t) \in BOOLEAN /\ "stamp" \in Ops
          BY DEF CallsBack, HasLink, Starts, Ops
        <5> QED BY <1>2, <5>1, FrameOf
      <4>2. stack' = Append(Front(stack), f)
        BY <3>3
      <4> HIDE DEF f
      <4> QED BY <1>1, <3>1, <4>1, <4>2, FramesReplaced
    <3> QED BY <3>2, <3>3 DEF SecondEvent
  <2> QED BY <2>1
<1> HIDE DEF o, t, g
<1>6. /\ Gains(o, t)
      /\ \A a, b : Loses(a, b)' <=> Loses(a, b)
      /\ \A a, b : Gains(a, b)' => Gains(a, b)
      /\ \A a, b : Gains(a, b) => Gains(a, b)' \/ <<a, b>> = <<o, t>>
  BY <1>3, <1>4, <1>5 DEF Gains, Loses, Takes, Brings
<1>7. /\ \A a, b \in Ents : <<a, b>> # <<o, t>> => (HasLink(a, b)' <=> HasLink(a, b))
      /\ t \in ToSet(list'[o]) \/ {o, t} \in spoiled'
  BY <1>1, <1>2, <1>4 DEF HasLink
<1> QED BY <1>1, <1>2, <1>4, <1>6, <1>7, EndedSecond

\* Somebody is being removed.
LEMMA EndedMarked ==
  ASSUME EInv, UNCHANGED <<alive, list, touching, spoiled>>, OnePurge',
         \A a, b : Loses(a, b)' <=> Loses(a, b),
         \A a, b : Gains(a, b)' <=> Gains(a, b)
  PROVE  EInv'
<1>1. Mutual' /\ HalvesApart'
  BY DEF EInv, Mutual, HalvesApart, Keeps, HasLink
<1>2. TouchersAlive' /\ EndedWhenFreed'
  BY DEF EInv, TouchersAlive, EndedWhenFreed
<1> QED BY <1>1, <1>2 DEF EInv

LEMMA RemoveEnded ==
  ASSUME EInv, NEW e, UTIL_Remove(e)
  PROVE  EInv'
<1>1. UNCHANGED <<alive, list, stack, touching, spoiled>>
  BY DEF UTIL_Remove, links
<1>2. Takes({}) /\ Brings({})
  BY <1>1 DEF Takes, Brings, Frames
<1>3. OnePurge'
  BY <1>2, PurgesKept DEF EInv
<1>4. /\ \A a, b : Loses(a, b)' <=> Loses(a, b)
      /\ \A a, b : Gains(a, b)' <=> Gains(a, b)
  BY <1>2, LosesSame
<1> QED BY <1>1, <1>3, <1>4, EndedMarked

LEMMA RemoveImmediateEnded ==
  ASSUME EInv, IInv, NEW e, UTIL_RemoveImmediate(e)
  PROVE  EInv'
<1>1. UNCHANGED <<alive, list, touching, spoiled>> /\ Under("purge") = {}
  BY DEF UTIL_RemoveImmediate, NothingRelies, links
<1>2. /\ Takes({}) /\ Brings({"purge"})
      /\ \A x \in Frames' : x \in Frames \/ x.ent = e
  BY RemoveImmediateStack DEF IInv, SetsTyped
<1>3. OnePurge'
  <2>1. \A f \in Under("purge")' : f.ent = e
    BY <1>1, <1>2 DEF Under
  <2> QED BY <2>1 DEF OnePurge
<1>4. /\ \A a, b : Loses(a, b)' <=> Loses(a, b)
      /\ \A a, b : Gains(a, b)' <=> Gains(a, b)
  BY <1>2, LosesSame DEF Idles
<1> QED BY <1>1, <1>3, <1>4, EndedMarked

LEMMA CleanupEnded ==
  ASSUME EInv, IInv, NEW e, CleanupDeleteList(e)
  PROVE  EInv'
<1> DEFINE f == Frame("purge", e, e, FALSE)
<1>1. /\ stack' = <<f>> /\ UNCHANGED <<alive, marked, list, spoiled, touching>>
  BY DEF CleanupDeleteList, links
<1>2. Takes({}) /\ Brings({"purge"})
  BY CleanupStack DEF IInv, SetsTyped
<1>3. OnePurge'
  <2> HIDE DEF f
  <2>1. \A x \in Frames' : x = f
    BY <1>1 DEF Frames, ToSet
  <2> QED BY <2>1 DEF OnePurge, Under
<1>4. /\ \A a, b : Loses(a, b)' <=> Loses(a, b)
      /\ \A a, b : Gains(a, b)' <=> Gains(a, b)
  BY <1>2, LosesSame DEF Idles
<1> QED BY <1>1, <1>3, <1>4, EndedMarked

\* Who is freed has no link, so nobody else has a link to him, unless the touch is
\* spoiled: everybody has been told.
LEMMA PurgeDoneEnded ==
  ASSUME EInv, IInv, PurgeDone
  PROVE  EInv'
<1> DEFINE o == Ent
           g == Last(stack)
<1>1. /\ stack # << >> /\ Last(stack).op = "purge" /\ list[o] = << >>
      /\ alive' = alive \ {o} /\ marked' = marked \ {o} /\ stack' = Front(stack)
      /\ touching' = {p \in touching : p[1] # o} /\ list' = list /\ spoiled' = spoiled
  BY DEF PurgeDone, Top
<1>2. Takes({"purge"}) /\ Brings({}) /\ Frames = Frames' \cup {g}
  BY PurgeDoneStack DEF IInv
<1>3. \A h \in Frames : h = g \/ o \notin {h.ent, h.other}
  BY <1>1, PurgedUnnamed DEF IInv
<1>4. g \in Under("purge") /\ g.ent = o /\ g.op = "purge" /\ o \in Ents
  BY <1>1, TopIsFrame, TopFacts DEF IInv
<1> HIDE DEF o, g
<1>5. /\ \A a, b : Loses(a, b)' <=> Loses(a, b)
      /\ \A a, b : Gains(a, b)' <=> Gains(a, b)
  BY <1>2, LosesSame DEF Idles
<1>6. OnePurge'
  BY <1>2, PurgesKept DEF EInv
<1>7. Mutual' /\ HalvesApart'
  BY <1>1, <1>5 DEF EInv, Mutual, HalvesApart, Keeps, HasLink
<1>8. TouchersAlive'
  BY <1>1 DEF EInv, TouchersAlive
<1>9. EndedWhenFreed'
  <2> SUFFICES ASSUME NEW p \in touching, p[1] # o, p[2] \notin alive', {p[1], p[2]} \notin spoiled
               PROVE  FALSE
    BY <1>1 DEF EndedWhenFreed
  <2>1. p[2] \in alive \/ {p[1], p[2]} \in spoiled
    BY DEF EInv, EndedWhenFreed
  <2>2. PICK a, b \in Ents : p = <<a, b>>
    BY DEF IInv, SetsTyped
  <2>3. a = p[1] /\ b = p[2]
    BY <2>2
  <2> HIDE DEF IInv
  <2>4. a \in alive /\ a # o /\ b = o /\ o \in alive /\ {a, b} \notin spoiled
    BY <1>1, <2>1, <2>3 DEF EInv, TouchersAlive
  <2>5. a \notin {f.ent : f \in Under("purge")}
    BY <1>4, <2>4 DEF EInv, OnePurge
  <2>6. HasLink(a, b)
    BY <2>2, <2>4, <2>5 DEF IInv, StartedIsLinked
  <2>7. ~Loses(a, b)
    BY <1>3, <1>4, <2>4 DEF Loses
  <2>8. Keeps(b, a)
    BY <2>4, <2>6, <2>7 DEF EInv, Mutual, Keeps
  <2>9. ~Gains(b, a)
    BY <1>3, <1>4, <2>4 DEF Gains
  <2>10. ~HasLink(b, a)
    BY <1>1, <2>4 DEF HasLink, ToSet
  <2> QED BY <2>8, <2>9, <2>10 DEF Keeps
<1> QED BY <1>6, <1>7, <1>8, <1>9 DEF EInv

LEMMA InitEnded == Init => EInv
<1> SUFFICES ASSUME Init PROVE EInv
  OBVIOUS
<1>1. /\ \A e \in Ents : list[e] = << >>
      /\ stack = << >> /\ alive = Ents /\ touching = {}
  BY DEF Init
<1>2. Frames = {}
  BY <1>1 DEF Frames, ToSet
<1>3. \A a, b \in Ents : ~HasLink(a, b) /\ ~Gains(a, b) /\ ~Loses(a, b)
  BY <1>1, <1>2 DEF HasLink, Gains, Loses, ToSet
<1> QED BY <1>1, <1>2, <1>3 DEF EInv, Mutual, Keeps, HalvesApart, OnePurge,
           TouchersAlive, EndedWhenFreed, Under

\* Every step keeps the links of two entities together.
LEMMA StepEnded ==
  ASSUME EInv, IInv, [Next]_vars
  PROVE  EInv'
<1>1. ASSUME NEW a \in Ents, NEW b \in Ents, PhysicsMarkEntitiesAsTouching(a, b)
      PROVE  EInv'
  <2>1. {a, b} \in Meets \cup Contacts /\ Touches(a, b, "second")
    BY <1>1 DEF PhysicsMarkEntitiesAsTouching
  <2> QED BY <2>1, TouchesEnded
<1>2. ASSUME NEW a \in Ents, NEW b \in Ents, PhysicsMarkEntitiesAsTouchingEventDriven(a, b)
      PROVE  EInv'
  <2>1. /\ {a, b} \in Meets \cup Contacts /\ Touches(a, b, "secondEvent")
        /\ Reports(a, b)
    BY <1>2 DEF PhysicsMarkEntitiesAsTouchingEventDriven, Reports
  <2> QED BY <2>1, TouchesEnded
<1>3. ASSUME NEW a \in Ents, NEW b \in Ents, DispatchEndTouch(a, b)
      PROVE  EInv'
  BY <1>3, DispatchEndTouchEnded
<1>4. ASSUME NEW e \in Ents, \/ SetCheckUntouch(e) \/ PhysicsCheckForEntityUntouch(e)
                             \/ UTIL_Remove(e) \/ UTIL_RemoveImmediate(e) \/ CleanupDeleteList(e)
      PROVE  EInv'
  BY <1>4, SetCheckUntouchEnded, CheckEnded, RemoveEnded, RemoveImmediateEnded, CleanupEnded
<1>5. ASSUME \/ Second \/ SecondEvent \/ Stamp \/ Unlink \/ Notify
      PROVE  EInv'
  BY <1>5, SecondEnded, SecondEventEnded, StampEnded, UnlinkEnded, NotifyEnded
<1>6. ASSUME \/ FrameUpdatePostEntityThink \/ WalkLink \/ Touched \/ Untouch \/ WalkDone
      PROVE  EInv'
  BY <1>6, FrameUpdateEnded, WalkLinkEnded, TouchedEnded, UntouchEnded, WalkDoneEnded
<1>7. ASSUME \/ PurgeLink \/ FreeOwn \/ PurgeDone
      PROVE  EInv'
  BY <1>7, PurgeLinkEnded, FreeOwnEnded, PurgeDoneEnded
<1>8. UNCHANGED vars => EInv'
  BY StutterEnded
<1> QED BY <1>1, <1>2, <1>3, <1>4, <1>5, <1>6, <1>7, <1>8 DEF Next

\* By the time an entity is freed, everybody who was told of a touch by it has been
\* told of the end of that touch: PhysicsRemoveTouchedList goes by the links of the
\* entity alone, and that is enough because two entities that touch have a link each
\* whenever nothing is under way, unless a callback spoiled the touch.
THEOREM AlwaysEndedWhenFreed == Spec => []EndedWhenFreed
<1>1. Init => IInv /\ EInv
  BY InitSound, InitEnded
<1>2. IInv /\ EInv /\ [Next]_vars => IInv' /\ EInv'
  BY StepSound, StepEnded
<1>3. EInv => EndedWhenFreed
  BY DEF EInv
<1> QED BY <1>1, <1>2, <1>3, PTL DEF Spec
=============================================================================
